------------------------------- MODULE Scopes -------------------------------
(***************************************************************************)
(* Which variables, positional parameters and functions a command sees and *)
(* changes.  The shell is sequential: a simple command that is a builtin   *)
(* or an external program is one step, a function call and eval open a     *)
(* level that stays until it returns.                                      *)
(*                                                                         *)
(* Every simple command works on a temporary copy of the variables of its  *)
(* level, to which its prefix assignments are added, and the copy is       *)
(* destroyed at its end.  A builtin changes something that lasts only if   *)
(* it writes the saved store of the level, the local variables, the        *)
(* parameters, the functions or the environment of the process.            *)
(*                                                                         *)
(* A function whose body is a brace group runs in a frame of its own,      *)
(* which has no local variables; any other body runs in the frame of the   *)
(* function, which has.  LINENO and the special variables that populate_   *)
(* special_variables puts into the copy are not among the names.           *)
(***************************************************************************)
EXTENDS Integers, Sequences

CONSTANTS
    Names,          \* names of variables
    Values,         \* what a variable may be set to
    Empty,          \* the empty value
    Assignments,       \* sequences of assignments that may precede a command
    Arguments,      \* sequences of arguments: of a function, of set
    Functions,      \* names that a function may be given
    Specials,       \* the names of the special builtins
    MaxParams,      \* POSITIONAL_PARAMS_MAX
    MaxDepth        \* bound: levels

ASSUME ScopeAssumption ==
    /\ MaxParams \in Nat /\ MaxDepth \in Nat \ {0}
    /\ Empty \in Values
    /\ \A p \in Assignments : p \in Seq([name : Names, val : Values])
    /\ \A args \in Arguments : args \in Seq({args[i] : i \in DOMAIN args})

VARIABLES
    levels,     \* the levels, the outermost first
    environ,    \* the environment of the process
    functions,  \* the functions, with the kind of their bodies
    sent,       \* the environment of the external command that the shell waits for
    ended       \* why the shell has stopped, or ""

vars == <<levels, environ, functions, sent, ended>>

(* f with v for x, whether it had x or not *)
With(f, x, v) == [y \in DOMAIN f \cup {x} |-> IF y = x THEN v ELSE f[y]]

Variable == [val : Values, exp : BOOLEAN, ro : BOOLEAN]
Stores == UNION {[S -> Variable] : S \in SUBSET Names}
Environments == UNION {[S -> Values] : S \in SUBSET Names}
Nothing == [n \in {} |-> Empty]
Bodies == {"brace", "other"}

\* A value, store or list of parameters that may be missing (NULL) is a
\* sequence of at most one.
Some(x) == <<x>>
None == <<>>
Optional(S) == {None} \cup {Some(x) : x \in S}

Ready == ended = "" /\ sent = None
Top == Len(levels)
Level == levels[Top]
\* Where the parameters of a level are: eval has those of its caller.
OwnerIsMain(i) == 1     \* mutant: a function has those of the main program
Owner(i) == CHOOSE k \in 1 .. i : levels[k].kind # "eval" /\ \A j \in k + 1 .. i : levels[j].kind = "eval"

-----------------------------------------------------------------------------
(* The variable store.                                                     *)
Var(v, exp, ro) == [val |-> v, exp |-> exp, ro |-> ro]
IsReadOnly(store, n) == n \in DOMAIN store /\ store[n].ro

AddOverwrites(store, n, var) == With(store, n, var)     \* mutant: no check
variable_store_add(store, n, var) == IF IsReadOnly(store, n) THEN store ELSE With(store, n, var)
variable_store_remove(store, n) == [m \in DOMAIN store \ {n} |-> store[m]]

AddAll(store, prefix, exp) ==
    LET upto[i \in 0 .. Len(prefix)] ==
          IF i = 0 THEN store
          ELSE variable_store_add(upto[i - 1], prefix[i].name, Var(prefix[i].val, exp, FALSE))
    IN  upto[Len(prefix)]

-----------------------------------------------------------------------------
(* A frame as a builtin finds it: the variables, which are the temporary   *)
(* store of the command, the saved store of the level, the local           *)
(* variables, the environment, the parameters and the functions.  given    *)
(* and gone say which parameters were installed and how many shift took.   *)
(* An operation returns the frame it leaves and its result.                *)
Res(fr, r) == [fr |-> fr, r |-> r]

Frame(store, saved) ==
    LET owner == levels[Owner(Top)]
    IN  [vars |-> store, saved |-> saved, locals |-> Level.locals, env |-> environ,
         pos |-> owner.pos, given |-> owner.given, gone |-> owner.gone, funs |-> functions]

\* A variable keeps its attributes; a read-only one may be set to its value.
SetIn(store, n, v) ==
    IF IsReadOnly(store, n)
    THEN Res(store, IF store[n].val = v THEN "OK" ELSE "READ_ONLY")
    ELSE Res(variable_store_add(store, n, Var(v, n \in DOMAIN store /\ store[n].exp, FALSE)), "OK")

frame_set_variable(fr, n, v) ==
    LET Local(s) == Res([fr EXCEPT !.locals = Some(s.fr)], s.r)
        Global(s) == Res([fr EXCEPT !.vars = s.fr], s.r)
    IN  IF fr.locals # None THEN Local(SetIn(fr.locals[1], n, v)) ELSE Global(SetIn(fr.vars, n, v))

frame_set_persistent_variable(fr, n, v) ==
    LET Saved(s) == Res([fr EXCEPT !.saved = Some(s.fr)], s.r)
        Global(s) == Res([fr EXCEPT !.vars = s.fr], s.r)
    IN  IF fr.saved # None THEN Saved(SetIn(fr.saved[1], n, v)) ELSE Global(SetIn(fr.vars, n, v))

exec_frame_get_variable(fr, n) ==
    IF fr.locals # None /\ n \in DOMAIN fr.locals[1] THEN Some(fr.locals[1][n].val)
    ELSE IF n \in DOMAIN fr.vars THEN Some(fr.vars[n].val) ELSE None
frame_has_variable(fr, n) == exec_frame_get_variable(fr, n) # None

frame_set_variable_exported(fr, n, b) ==
    IF n \notin DOMAIN fr.vars THEN Res(fr, "NOT_FOUND")
    ELSE IF fr.vars[n].ro THEN Res(fr, "OK")
    ELSE Res([fr EXCEPT !.vars[n].exp = b], "OK")

MarkExported(fr, n) ==
    IF n \notin DOMAIN fr.vars \/ IsReadOnly(fr.vars, n) THEN Res(fr, "SYSTEM_ERROR")
    ELSE Res([fr EXCEPT !.vars[n].exp = TRUE, !.env = With(@, n, fr.vars[n].val)], "OK")
frame_export_variable(fr, n, v) ==
    LET Marked(s) == IF s.r = "OK" THEN MarkExported(s.fr, n) ELSE s
    IN  IF v = None
        THEN IF n \in DOMAIN fr.vars THEN MarkExported(fr, n) ELSE Marked(frame_set_variable(fr, n, Empty))
        ELSE IF IsReadOnly(fr.vars, n) /\ fr.vars[n].val # v[1] THEN Res(fr, "READ_ONLY")
        ELSE Marked(frame_set_variable(fr, n, v[1]))

frame_set_variable_readonly(fr, n) ==
    IF n \in DOMAIN fr.vars THEN Res([fr EXCEPT !.vars[n].ro = TRUE], "OK") ELSE Res(fr, "NOT_FOUND")

\* An exported variable leaves the environment too.
RemoveFrom(fr, store, n) ==
    IF n \notin DOMAIN store THEN [store |-> store, env |-> fr.env, r |-> "NOT_FOUND"]
    ELSE IF store[n].ro THEN [store |-> store, env |-> fr.env, r |-> "READ_ONLY"]
    ELSE [store |-> variable_store_remove(store, n), r |-> "OK",
          env |-> IF store[n].exp THEN [m \in DOMAIN fr.env \ {n} |-> fr.env[m]] ELSE fr.env]
frame_unset_variable(fr, n) ==
    LET Local(s) == Res([fr EXCEPT !.locals = Some(s.store), !.env = s.env], s.r)
        Global(s) == Res([fr EXCEPT !.vars = s.store, !.env = s.env], s.r)
    IN  IF fr.locals # None THEN Local(RemoveFrom(fr, fr.locals[1], n)) ELSE Global(RemoveFrom(fr, fr.vars, n))

-----------------------------------------------------------------------------
(* Positional parameters and functions.                                    *)
positional_params_create(args) == IF Len(args) > MaxParams THEN None ELSE Some(args)

frame_replace_positional_params(fr, args) ==
    IF fr.pos = None \/ Len(args) > MaxParams THEN fr
    ELSE [fr EXCEPT !.pos = Some(args), !.given = args, !.gone = 0]

ShiftKeepsAll(params, n) ==     \* mutant: the count is not reset when none is left
    IF n = Len(params) THEN params ELSE SubSeq(params, n + 1, Len(params))
positional_params_shift(params, n) == SubSeq(params, n + 1, Len(params))

func_store_remove(funs, f) == [g \in DOMAIN funs \ {f} |-> funs[g]]
func_store_add(funs, f, body) == With(funs, f, body)
frame_unset_function(fr, f) ==
    IF f \in DOMAIN fr.funs THEN Res([fr EXCEPT !.funs = func_store_remove(@, f)], "OK") ELSE Res(fr, "NOT_FOUND")

-----------------------------------------------------------------------------
(* The builtins, from the frame to the frame and an exit status.           *)
Exit(s) == Res(s.fr, IF s.r = "OK" THEN 0 ELSE 1)

builtin_export(fr, n, v) == Exit(frame_export_variable(fr, n, v))

builtin_readonly(fr, n, v) ==
    LET Marked(s) == IF s.r = "OK" THEN Exit(frame_set_variable_readonly(s.fr, n)) ELSE Res(fr, 1)
    IN  CASE v # None /\ IsReadOnly(fr.vars, n) -> Res(fr, 1)
          [] v # None /\ ~IsReadOnly(fr.vars, n) -> Marked(frame_set_variable(fr, n, v[1]))
          [] v = None /\ frame_has_variable(fr, n) -> Exit(frame_set_variable_readonly(fr, n))
          [] OTHER -> Marked(frame_set_variable(fr, n, Empty))

builtin_unset(fr, n) ==
    IF ~frame_has_variable(fr, n) \/ IsReadOnly(fr.vars, n) THEN Res(fr, 1)
    ELSE Res(frame_unset_variable(fr, n).fr, 0)
builtin_unset_f(fr, f) == Exit(frame_unset_function(fr, f))

\* getopts sets OPTIND, OPTARG and a variable it is told, all three alike, and
\* does not look whether they could be set.
builtin_getopts(fr, n, v) == Res(frame_set_variable(fr, n, v).fr, 0)

\* miga_dirnamevar and miga_printfvar.
builtin_miga_dirnamevar(fr, n, v) == Res(frame_set_persistent_variable(fr, n, v).fr, 0)

\* set with operands.
builtin_set(fr, args) == Res(frame_replace_positional_params(fr, args), 0)

\* The count is missing or a number; less than 0 stands for any other word.
builtin_shift(fr, count) ==
    LET n == IF count = None THEN 1 ELSE count[1]
    IN  CASE fr.pos = None -> Res(fr, 0)
          [] fr.pos # None /\ n < 0 -> Res(fr, 2)
          [] fr.pos # None /\ n > Len(fr.pos[1]) -> Res(fr, 1)
          [] OTHER -> Res([fr EXCEPT !.pos = Some(positional_params_shift(@[1], n)), !.gone = @ + n], 0)

-----------------------------------------------------------------------------
(* A simple command.                                                       *)
BuildUnexported(store, prefix) == AddAll(store, prefix, FALSE)  \* mutant: not for the command
build_temp_store(store, prefix) == AddAll(store, prefix, TRUE)

\* The assignments before the first one that is refused take effect, in the
\* temporary store and in that of the level.
apply_prefix_assignments(fr, prefix) ==
    LET refused == {i \in DOMAIN prefix : IsReadOnly(fr.vars, prefix[i].name)}
        done == IF refused = {} THEN prefix
                ELSE SubSeq(prefix, 1, (CHOOSE i \in refused : \A j \in refused : i <= j) - 1)
    IN  Res([fr EXCEPT !.vars = AddAll(@, done, FALSE), !.saved = Some(AddAll(@[1], done, FALSE))],
            IF refused = {} THEN "OK" ELSE "ERROR")

Prepared(name, prefix) ==
    LET fr == Frame(build_temp_store(Level.vars, prefix), Some(Level.vars))
    IN  IF name \in Specials THEN apply_prefix_assignments(fr, prefix) ELSE Res(fr, "OK")

\* The body of a function that is running has been freed.
Freed(funs) == \E i \in 1 .. Top : levels[i].fun \in DOMAIN functions \ DOMAIN funs

Leave(fr) ==
    /\ levels' = [levels EXCEPT ![Top].vars = fr.saved[1], ![Top].locals = fr.locals,
                                ![Owner(Top)].pos = fr.pos, ![Owner(Top)].given = fr.given,
                                ![Owner(Top)].gone = fr.gone]
    /\ environ' = fr.env
    /\ functions' = fr.funs
    /\ ended' = IF Freed(fr.funs) THEN "freed" ELSE ""

Begun(name) == {Prepared(name, prefix) : prefix \in Assignments}

\* A builtin that was prepared as p and comes to b, unless its assignments were
\* refused.  Functions are looked up before builtins, the special ones included.
Command(name, p, b) ==
    /\ Ready /\ name \notin DOMAIN functions
    /\ Leave(IF p.r = "ERROR" THEN p.fr ELSE b.fr)
    /\ UNCHANGED sent

Export == \E n \in Names, v \in Optional(Values), p \in Begun("export") :
    Command("export", p, builtin_export(p.fr, n, v))
Readonly == \E n \in Names, v \in Optional(Values), p \in Begun("readonly") :
    Command("readonly", p, builtin_readonly(p.fr, n, v))
Unset == \E n \in Names, p \in Begun("unset") : Command("unset", p, builtin_unset(p.fr, n))
UnsetFunction == \E f \in Functions, p \in Begun("unset") :
    Command("unset", p, builtin_unset_f(p.fr, f))
Getopts == \E n \in Names, v \in Values, p \in Begun("getopts") :
    Command("getopts", p, builtin_getopts(p.fr, n, v))
Dirnamevar == \E n \in Names, v \in Values, p \in Begun("miga_dirnamevar") :
    Command("miga_dirnamevar", p, builtin_miga_dirnamevar(p.fr, n, v))
Set == \E args \in Arguments, p \in Begun("set") : Command("set", p, builtin_set(p.fr, args))
Shift == \E n \in Optional(-1 .. MaxParams + 1), p \in Begun("shift") :
    Command("shift", p, builtin_shift(p.fr, n))

\* The environment of an external command is what its temporary store exports.
variable_store_get_envp(store) == [n \in {m \in DOMAIN store : store[m].exp} |-> store[n].val]
External ==
    /\ Ready
    /\ \E prefix \in Assignments : sent' = Some([prefix |-> prefix,
           envp |-> variable_store_get_envp(build_temp_store(Level.vars, prefix))])
    /\ UNCHANGED <<levels, environ, functions, ended>>
Wait == ended = "" /\ sent # None /\ sent' = None /\ UNCHANGED <<levels, environ, functions, ended>>

-----------------------------------------------------------------------------
(* Levels.                                                                 *)
NewLevel(kind, f, store, args) ==
    [kind |-> kind, fun |-> f, vars |-> store, shared |-> FALSE, given |-> args, gone |-> 0,
     locals |-> IF kind = "function" /\ functions[f] = "other" THEN Some(Nothing) ELSE None,
     pos |-> IF kind = "eval" THEN None ELSE positional_params_create(args)]

\* $0 is taken from the parameters of the caller, which must be there.
Call ==
    /\ Ready /\ Top < MaxDepth
    /\ \E f \in DOMAIN functions, prefix \in Assignments, args \in Arguments :
           \E p \in {Prepared(f, prefix)} :
               CASE p.r = "ERROR" -> Leave(p.fr)
                 [] p.r = "OK" /\ p.fr.pos = None -> ended' = "abort" /\ UNCHANGED <<levels, environ, functions>>
                 [] OTHER -> /\ levels' = Append([levels EXCEPT ![Top].vars = p.fr.saved[1]],
                                                 NewLevel("function", f, p.fr.vars, args))
                             /\ UNCHANGED <<environ, functions, ended>>
    /\ UNCHANGED sent

Eval ==
    /\ Ready /\ Top < MaxDepth /\ "eval" \notin DOMAIN functions
    /\ \E prefix \in Assignments : \E p \in {Prepared("eval", prefix)} :
           IF p.r = "ERROR" THEN Leave(p.fr)
           ELSE /\ levels' = Append([levels EXCEPT ![Top].vars = p.fr.saved[1]],
                                    NewLevel("eval", "", p.fr.vars, <<>>))
                /\ UNCHANGED <<environ, functions, ended>>
    /\ UNCHANGED sent

\* The function, or the command that eval was given, is done: its caller goes
\* back to its own variables.
Return ==
    /\ Ready /\ Top > 1
    /\ levels' = [SubSeq(levels, 1, Top - 1) EXCEPT ![Top - 1].vars = IF Level.shared THEN Level.vars ELSE @]
    /\ UNCHANGED <<sent, environ, functions, ended>>

\* A function is defined in the main program or by eval: the definition of a
\* function with another one in its body aborts.
DefineFunction ==
    /\ Ready /\ Level.kind # "function"
    /\ \E f \in Functions, body \in Bodies :
           /\ functions' = func_store_add(functions, f, body)
           /\ ended' = IF f \in DOMAIN functions /\ \E i \in 1 .. Top : levels[i].fun = f THEN "freed" ELSE ""
    /\ UNCHANGED <<sent, levels, environ>>

-----------------------------------------------------------------------------
(* The program that embeds the shell uses the frame of the main program    *)
(* between two commands, when its variables are the store itself.          *)
Host(Run(_)) ==
    /\ Ready /\ Top = 1
    /\ \E b \in {Run(Frame(Level.vars, None))} :
           /\ levels' = [levels EXCEPT ![1].vars = b.fr.vars]
           /\ environ' = b.fr.env
    /\ UNCHANGED <<sent, functions, ended>>

HostSet == \E n \in Names, v \in Values :
    \/ Host(LAMBDA fr : frame_set_variable(fr, n, v))
    \/ Host(LAMBDA fr : frame_set_persistent_variable(fr, n, v))
HostMark == \E n \in Names :
    \/ Host(LAMBDA fr : frame_set_variable_readonly(fr, n))
    \/ \E b \in BOOLEAN : Host(LAMBDA fr : frame_set_variable_exported(fr, n, b))
HostExport == \E n \in Names, v \in Optional(Values) : Host(LAMBDA fr : frame_export_variable(fr, n, v))
HostUnset == \E n \in Names : Host(LAMBDA fr : frame_unset_variable(fr, n))

\* The function shares the variables of the frame it is called from.
HostCall ==
    /\ Ready /\ Top = 1 /\ MaxDepth > 1
    /\ \E f \in DOMAIN functions, args \in Arguments :
           IF Level.pos = None THEN ended' = "abort" /\ UNCHANGED levels
           ELSE /\ levels' = Append(levels, [NewLevel("function", f, Level.vars, args) EXCEPT !.shared = TRUE])
                /\ UNCHANGED ended
    /\ UNCHANGED <<sent, environ, functions>>

Ended == ended # "" /\ UNCHANGED vars

Init ==
    /\ environ \in Environments
    /\ \E args \in {a \in Arguments : Len(a) <= MaxParams} :
           levels = <<[kind |-> "main", fun |-> "", shared |-> FALSE, locals |-> None,
                       vars |-> [n \in DOMAIN environ |-> Var(environ[n], TRUE, FALSE)],
                       pos |-> Some(args), given |-> args, gone |-> 0]>>
    /\ functions = Nothing
    /\ sent = None
    /\ ended = ""

Next ==
    \/ Export \/ Readonly \/ Unset \/ UnsetFunction \/ Getopts \/ Dirnamevar \/ Set \/ Shift
    \/ External \/ Wait \/ Call \/ Eval \/ Return \/ DefineFunction
    \/ HostSet \/ HostMark \/ HostExport \/ HostUnset \/ HostCall
    \/ Ended

Spec == Init /\ [][Next]_vars

-----------------------------------------------------------------------------
(* Properties.                                                             *)
\* Every level has well-formed stores, and no list of parameters is longer
\* than POSITIONAL_PARAMS_MAX.
TypeOK ==
    /\ environ \in Environments
    /\ DOMAIN functions \subseteq Functions /\ \A f \in DOMAIN functions : functions[f] \in Bodies
    /\ Top \in 1 .. MaxDepth
    /\ \A i \in 1 .. Top :
           /\ levels[i].kind \in {"main", "function", "eval"}
           /\ levels[i].vars \in Stores
           /\ levels[i].locals \in Optional(Stores)
           /\ levels[i].pos # None => Len(levels[i].pos[1]) <= MaxParams

\* No command changes the local variables of a level that waits for it, and
\* none its parameters, unless everything in between is eval.  That changes of
\* its variables do not reach it either is left out: by the policies of the
\* frames (EXEC_SCOPE_SHARE) and the documents they should
\* (exec_frame_execute_simple_command_impl, init_positional_params).
CallersKept ==
    [][\A i \in 1 .. Top - 1 :
           i <= Len(levels') =>
               /\ levels'[i].locals = levels[i].locals
               /\ levels'[i].pos = levels[i].pos \/ \A j \in i + 1 .. Top : levels[j].kind = "eval"]_vars

\* A variable that is read-only in a level is the same variable in every level
\* inside it: neither the assignments before a call nor anything the function
\* does can hide it from the commands there (variable_store_add,
\* variable_store_copy_all).
ReadonlyPassedDown ==
    \A i \in 1 .. Top : \A j \in i .. Top : \A n \in Names :
        IsReadOnly(levels[i].vars, n) =>
            n \in DOMAIN levels[j].vars /\ levels[j].vars[n] = levels[i].vars[n]

\* A read-only variable stays as it is for as long as its level lasts, however
\* it is assigned, exported or unset, by the shell and by its host.
ReadonlyForGood ==
    [][\A i \in 1 .. Top : i <= Len(levels') => \A n \in Names :
           IsReadOnly(levels[i].vars, n) =>
               n \in DOMAIN levels'[i].vars /\ levels'[i].vars[n] = levels[i].vars[n]]_vars

\* The parameters are those of the last set or of the call without the ones
\* that shift took, in their order; a call with too many has none, and set
\* with too many leaves them (positional_params_shift,
\* frame_replace_positional_params).
ParametersOfTheCall ==
    \A i \in 1 .. Top :
        levels[i].kind # "eval" =>
            LET given == levels[i].given
            IN  IF Len(given) > MaxParams THEN levels[i].pos = None
                ELSE levels[i].pos = Some(SubSeq(given, levels[i].gone + 1, Len(given)))

\* The value that the assignments before a command give a name, if any.
Assigned(prefix, n) ==
    LET at == {i \in DOMAIN prefix : prefix[i].name = n}
    IN  IF at = {} THEN None ELSE Some(prefix[CHOOSE i \in at : \A j \in at : j <= i].val)

\* An external command gets the exported variables of its level and the
\* assignments before it, which win except against a read-only variable; local
\* variables are not among them (build_temp_store_for_siple_command,
\* variable_store_get_envp).
ChildEnvironment ==
    sent # None => \A n \in Names :
        LET envp == sent[1].envp
            new == IF IsReadOnly(Level.vars, n) THEN None ELSE Assigned(sent[1].prefix, n)
            old == IF n \in DOMAIN Level.vars /\ Level.vars[n].exp THEN Some(Level.vars[n].val) ELSE None
            wanted == IF new # None THEN new ELSE old
        IN  wanted = IF n \in DOMAIN envp THEN Some(envp[n]) ELSE None

\* No level inherits or hides wrongly: a variable that is read-only outside is
\* the same inside (variable_store_copy_all).
LevelsSound == TypeOK /\ ReadonlyPassedDown

\* What runs inside leaves parameters and local variables of the levels outside
\* alone, and nothing changes a variable there once it is read-only
\* (init_positional_params, variable_store_add).
LevelsKept == CallersKept /\ ReadonlyForGood
=============================================================================
