----------------------------- MODULE HashTable ------------------------------
(***************************************************************************)
(* The open-addressing tables of variable_map.c and func_map.c as          *)
(* operators on a record: "cap" slots numbered from 0, each Free or an     *)
(* entry [key, val], and the count "size" that the code keeps.  Hash gives *)
(* the hash of a key (string_hash, external); collisions are resolved by   *)
(* linear probing.                                                         *)
(***************************************************************************)
EXTENDS Naturals, FiniteSets

Free == [free |-> TRUE]

Slots(t) == 0 .. t.cap - 1
Occupied(t) == {p \in Slots(t) : t.at[p] # Free}
Keys(t) == {t.at[p].key : p \in Occupied(t)}

Empty(cap) == [cap |-> cap, at |-> [p \in 0 .. cap - 1 |-> Free], size |-> 0]

Nth(t, from, i) == (from + i) % t.cap
FindSlot(t, hash) == hash % t.cap

(* The position at which a probe for the key stops: its entry or the first *)
(* free slot; the loops of the code end because there always is one.       *)
Probe(t, hash, key) ==
    LET from == FindSlot(t, hash[key])
        stops(i) == LET e == t.at[Nth(t, from, i)] IN e = Free \/ e.key = key
        first == CHOOSE i \in Slots(t) : stops(i) /\ \A j \in 0 .. i - 1 : ~stops(j)
    IN  Nth(t, from, first)

FirstFree(t, hash, key) ==
    LET from == FindSlot(t, hash[key])
        free(i) == t.at[Nth(t, from, i)] = Free
        first == CHOOSE i \in Slots(t) : free(i) /\ \A j \in 0 .. i - 1 : ~free(j)
    IN  Nth(t, from, first)

Find(t, hash, key) == t.at[Probe(t, hash, key)]
Contains(t, hash, key) == Find(t, hash, key) # Free

(* The entries of an array moved into another, in order of their slots.    *)
Reinsert(t, hash, old) ==
    LET n == Cardinality(DOMAIN old)
        put(e, new) == IF e = Free THEN new
                       ELSE [new EXCEPT !.at[FirstFree(new, hash, e.key)] = e]
        upto[i \in 0 .. n] == IF i = 0 THEN t ELSE put(old[i - 1], upto[i - 1])
    IN  upto[n]

Resize(t, hash, cap) ==
    [Reinsert(Empty(cap), hash, t.at) EXCEPT !.size = t.size]

MustGrow(t) == t.size >= (t.cap * 3) \div 4

InsertOrAssign(t, hash, key, val) ==
    LET room == IF MustGrow(t) THEN Resize(t, hash, t.cap * 2) ELSE t
        pos == Probe(room, hash, key)
    IN  [room EXCEPT !.at[pos] = [key |-> key, val |-> val],
                     !.size = IF room.at[pos] = Free THEN @ + 1 ELSE @]

(* backward_shift_deletion: an entry after the hole moves into it unless   *)
(* its own slot lies cyclically between the two.                           *)
ShouldMoveNoWrap(ideal, empty, curr) ==     \* mutant: no case for the wrapped scan
    ideal <= empty \/ ideal > curr
ShouldMove(ideal, empty, curr) ==
    IF curr >= empty THEN ideal <= empty \/ ideal > curr
    ELSE ideal > curr /\ ideal <= empty

BackwardShift(t, hash, hole) ==
    LET scan[i \in 1 .. t.cap] ==       \* before the i-th slot after the hole is looked at
          IF i = 1 THEN [at |-> t.at, empty |-> hole, done |-> FALSE]
          ELSE LET s == scan[i - 1]
                   curr == Nth(t, hole, i - 1)
                   e == s.at[curr]
               IN  IF s.done \/ e = Free THEN [s EXCEPT !.done = TRUE]
                   ELSE IF ShouldMove(FindSlot(t, hash[e.key]), s.empty, curr)
                   THEN [s EXCEPT !.at[s.empty] = e, !.at[curr] = Free, !.empty = curr]
                   ELSE s
    IN  [t EXCEPT !.at = scan[t.cap].at]

EraseAtPos(t, hash, pos) ==
    BackwardShift([t EXCEPT !.at[pos] = Free, !.size = @ - 1], hash, pos)
Erase(t, hash, key) ==
    IF Contains(t, hash, key) THEN EraseAtPos(t, hash, Probe(t, hash, key)) ELSE t

(* variable_map_erase_multiple.  Few keys in a large table are erased one  *)
(* by one; otherwise the entries are freed where they stand and the table  *)
(* is rebuilt.  A key whose probe meets a slot freed just before is not    *)
(* found and stays.                                                        *)
MarkAll(t, hash, keys) ==
    LET mark(i, s) ==
          IF Contains(s, hash, keys[i])
          THEN [s EXCEPT !.at[Probe(s, hash, keys[i])] = Free, !.size = @ - 1]
          ELSE s
        upto[n \in 0 .. Cardinality(DOMAIN keys)] ==
          IF n = 0 THEN t ELSE mark(n, upto[n - 1])
    IN  upto[Cardinality(DOMAIN keys)]

EraseMultiple(t, hash, keys) ==
    LET count == Cardinality(DOMAIN keys)
        single[n \in 0 .. count] == IF n = 0 THEN t ELSE Erase(single[n - 1], hash, keys[n])
        marked == MarkAll(t, hash, keys)
    IN  CASE count <= 1 -> single[count]
          [] count > 1 /\ ~(count > t.size \div 8 \/ (count > 16 /\ count > t.cap \div 16)) ->
                single[count]
          [] OTHER -> IF marked = t THEN t
                      ELSE [Reinsert(Empty(t.cap), hash, marked.at)
                              EXCEPT !.size = marked.size]

(* func_map_erase_at_pos: every entry up to the next free slot is taken    *)
(* out and inserted anew.                                                  *)
FuncErase(t, hash, pos) ==
    LET redo[i \in 1 .. t.cap] ==
          IF i = 1 THEN [t |-> [t EXCEPT !.at[pos] = Free, !.size = @ - 1], done |-> FALSE]
          ELSE LET s == redo[i - 1]
                   next == Nth(t, pos, i - 1)
                   e == s.t.at[next]
                   out == [s.t EXCEPT !.at[next] = Free]
               IN  IF s.done \/ e = Free THEN [s EXCEPT !.done = TRUE]
                   ELSE [s EXCEPT !.t = [out EXCEPT !.at[FirstFree(out, hash, e.key)] = e]]
    IN  redo[t.cap].t

-----------------------------------------------------------------------------
(* What a table means, and when it is sound: every entry is found by its   *)
(* probe, so no key is there twice; the size is right; a slot is free.     *)
Meaning(t) == [k \in Keys(t) |-> (CHOOSE e \in {t.at[p] : p \in Occupied(t)} : e.key = k).val]
Sound(t, hash) ==
    /\ t.size = Cardinality(Occupied(t))
    /\ t.size < t.cap
    /\ \A p \in Occupied(t) : Probe(t, hash, t.at[p].key) = p
=============================================================================
