--------------------------- MODULE VariableStore ----------------------------
(***************************************************************************)
(* A variable store (variable_store.c) over its hash table                 *)
(* (variable_map.c): the operations on variables, the pass over all of     *)
(* them, and the cached environment handed to programs.                    *)
(*                                                                         *)
(* "generation" is compared with "cached_generation" for equality only, so *)
(* the model keeps whether they agree.  An invalid name or value is one    *)
(* that the validation refuses.                                            *)
(***************************************************************************)
EXTENDS HashTable

CONSTANTS
    Names,              \* valid names of variables
    Values,             \* valid values
    HashValues,         \* what string_hash may return (external)
    InitialCapacity     \* VARIABLE_MAP_INITIAL_CAPACITY

ASSUME StoreAssumption ==
    /\ HashValues \subseteq Nat /\ HashValues # {}
    /\ InitialCapacity \in Nat \ {0}

Variable == [value : Values, exported : BOOLEAN, readOnly : BOOLEAN]

VARIABLES
    hash,       \* the hash of each name; it never changes
    table,      \* store->map
    cache,      \* cached_envp and whether its generation is the store's
    failed,     \* a pass that failed has changed variables under the cache
    passed      \* the last step was a pass over all variables

vars == <<hash, table, cache, failed, passed>>

NoCache == [valid |-> FALSE, envp |-> {}]
Exported(t) ==          \* name and value, for variable_store_get_envp
    {<<e.key, e.val.value>> : e \in {t.at[p] : p \in {q \in Occupied(t) : t.at[q].val.exported}}}

Init ==
    /\ hash \in [Names -> HashValues]
    /\ table = Empty(InitialCapacity)
    /\ cache = NoCache
    /\ failed = FALSE
    /\ passed = FALSE

(* generation++ *)
Changed(t) == /\ table' = t /\ cache' = NoCache /\ failed' = FALSE
              /\ UNCHANGED hash

IsReadOnly(n) == Contains(table, hash, n) /\ Find(table, hash, n).val.readOnly

AddUnchecked(n, v) == Changed(InsertOrAssign(table, hash, n, v))    \* mutant: read-only or not
Add(n, v) ==
    /\ ~IsReadOnly(n)
    /\ Changed(InsertOrAssign(table, hash, n, v))

Remove(n) == Changed(Erase(table, hash, n))

SetExportedQuietly(n, b) ==     \* mutant: the generation stays
    /\ Contains(table, hash, n) /\ ~IsReadOnly(n)
    /\ table' = [table EXCEPT !.at[Probe(table, hash, n)].val.exported = b]
    /\ UNCHANGED <<hash, cache, failed>>
SetExported(n, b) ==
    /\ Contains(table, hash, n) /\ ~IsReadOnly(n)
    /\ Changed([table EXCEPT !.at[Probe(table, hash, n)].val.exported = b])

SetReadOnly(n) ==       \* clearing the flag is refused, or changes nothing
    /\ Contains(table, hash, n)
    /\ Changed([table EXCEPT !.at[Probe(table, hash, n)].val.readOnly = TRUE])

Cleared(t) == [t EXCEPT !.at = [p \in Slots(t) |-> Free], !.size = 0]
Clear == Changed(Cleared(table))

GetEnvp ==
    /\ ~cache.valid
    /\ cache' = [valid |-> TRUE, envp |-> Exported(table)]
    /\ failed' = FALSE
    /\ UNCHANGED <<hash, table>>

-----------------------------------------------------------------------------
(* variable_store_map: the caller's function decides for each variable;    *)
(* "set" and "rename" give it the value v and turn its export flag.        *)
Decisions == {"skip", "remove", "set", "rename", "bad"}
(* The calls that differ: "to" matters to a rename, and to a call that     *)
(* fails only what it sets in place.                                       *)
Calls(t) ==
    LET any == CHOOSE n \in Names : TRUE     \* immaterial
        has(d, x) == \E k \in Keys(t) : d[k] = x
    IN  {call \in [does : [Keys(t) -> Decisions], to : Names] :
            /\ has(call.does, "rename") \/ call.to = any
            /\ has(call.does, "bad") => ~has(call.does, "rename") /\ ~has(call.does, "remove")}
Turned(e, v) == [e EXCEPT !.value = v, !.exported = ~@]

(* The slots that the loop reaches: it stops at a name that is refused.    *)
Reached(t, d) ==
    {p \in Occupied(t) : \A q \in Occupied(t) : q <= p /\ d[t.at[q].key] = "bad" => q = p}
Fails(t, d) == \E p \in Occupied(t) : d[t.at[p].key] = "bad"
SetInPlace(t, d, v) ==
    [t EXCEPT !.at = [p \in Slots(t) |->
        IF p \in Reached(t, d) /\ d[t.at[p].key] = "set"
        THEN [t.at[p] EXCEPT !.val = Turned(@, v)] ELSE t.at[p]]]

(* The names to take out, in the order of their slots.                     *)
Leaving(t, d, to) ==
    LET ps == {p \in Occupied(t) : \/ d[t.at[p].key] = "remove"
                                   \/ d[t.at[p].key] = "rename" /\ t.at[p].key # to}
        rank(p) == Cardinality({q \in ps : q <= p})
    IN  [i \in 1 .. Cardinality(ps) |-> t.at[CHOOSE p \in ps : rank(p) = i].key]

Renamed(t, d, to) == {p \in Occupied(t) : d[t.at[p].key] = "rename"}
Last(ps) == CHOOSE p \in ps : \A q \in ps : q <= p

MapResult(t, d, v, to) ==
    IF Fails(t, d) THEN SetInPlace(t, d, v)
    ELSE LET rest == EraseMultiple(SetInPlace(t, d, v), hash, Leaving(t, d, to))
         IN  IF Renamed(t, d, to) = {} THEN rest
             ELSE InsertOrAssign(rest, hash, to, Turned(t.at[Last(Renamed(t, d, to))].val, v))

Map ==
    \E call \in Calls(table), v \in Values :
        LET t == MapResult(table, call.does, v, call.to)
        IN  IF Fails(table, call.does)
            THEN /\ table' = t
                 /\ failed' = (failed \/ (cache.valid /\ t # table))
                 /\ UNCHANGED <<hash, cache>>
            ELSE Changed(t)

(* variable_store_clone: the variables added one by one to a new store.    *)
Clone(t) ==
    LET upto[i \in 0 .. t.cap] ==
          IF i = 0 THEN Empty(InitialCapacity)
          ELSE IF t.at[i - 1] = Free THEN upto[i - 1]
          ELSE InsertOrAssign(upto[i - 1], hash, t.at[i - 1].key, t.at[i - 1].val)
    IN  upto[t.cap]

Single ==
    \/ \E n \in Names, v \in Variable : Add(n, v)
    \/ \E n \in Names : Remove(n) \/ SetReadOnly(n) \/ \E b \in BOOLEAN : SetExported(n, b)
    \/ Clear \/ GetEnvp

Next == \/ Single /\ passed' = FALSE
        \/ Map /\ passed' = TRUE

Spec == Init /\ [][Next]_vars

-----------------------------------------------------------------------------
(* Properties.                                                             *)

(* The table of variable_map.c stays sound through every sequence of       *)
(* insertions, deletions by backward shift, rebuilds and growth, for every *)
(* way the names collide: each variable is found by its probe, none is     *)
(* there twice, the count is right and a probe always ends.                *)
TableSound == Sound(table, hash)

(* The two ways to delete, variable_map.c's backward shift and             *)
(* func_map.c's reinsertion, both leave a sound table without the entry.   *)
DeletionsAgree ==
    \A p \in Occupied(table) :
        LET a == EraseAtPos(table, hash, p)
            b == FuncErase(table, hash, p)
        IN  Sound(a, hash) /\ Sound(b, hash) /\ Meaning(a) = Meaning(b)

(* A clone, made for subshells and temporary stores, has the same          *)
(* variables as the original, in whatever order the table yields them.     *)
CloneIsEqual == Sound(Clone(table), hash) /\ Meaning(Clone(table)) = Meaning(table)

(* The environment that a program gets is the exported variables as they   *)
(* are now and not as they were when the array was cached, unless a pass   *)
(* over the store failed in between (variable_store.c:804).                *)
EnvpIsCurrent == cache.valid /\ ~failed => cache.envp = Exported(table)

(* A pass over the store changes and removes only what the caller's        *)
(* function says, whatever other names it removes or renames: what stays   *)
(* or is set keeps or gets its value (variable_store_map).                 *)
MapMeans ==
    \A call \in Calls(table), v \in Values :
        ~Fails(table, call.does) =>
            LET d == call.does
                to == call.to
                before == Meaning(table)
                result == MapResult(table, d, v, to)
                after == Meaning(result)
            IN  /\ Sound(result, hash)
                /\ DOMAIN after \subseteq DOMAIN before \cup {to}
                /\ \A n \in DOMAIN before \ {to} :
                     /\ d[n] = "skip" => n \in DOMAIN after /\ after[n] = before[n]
                     /\ d[n] = "set" => n \in DOMAIN after /\ after[n] = Turned(before[n], v)

Store == INSTANCE StoreSpec WITH vars <- Meaning(table)

(* Every operation but the pass over all variables does to the table what  *)
(* variable_store.h says it does to the variables.                         *)
ImplementsStore == [][passed' \/ Store!Next \/ UNCHANGED Meaning(table)]_vars

\* The table is sound after every operation, and the ways to do the same thing
\* agree: erasing by shifting and by rebuilding, a clone and its original, and
\* variable_store_map and what its function says of each variable.
TableOperationsSound == TableSound /\ DeletionsAgree /\ CloneIsEqual /\ MapMeans

=============================================================================
