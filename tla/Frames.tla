------------------------------- MODULE Frames -------------------------------
(***************************************************************************)
(* The stack of execution frames of a shell process and the interpreter    *)
(* that walks over a command (exec_frame.c, exec_frame_policy.h, the part  *)
(* of exec_command.c that runs builtins and functions, and the builtins    *)
(* that change the flow of control).                                       *)
(*                                                                         *)
(* A frame shares, copies or owns the stores of its parent as the policy   *)
(* of its type says.  A store is a number; "env" stands for descriptors,   *)
(* traps, options, directory, umask, functions and aliases, which have the *)
(* same scope in every policy.  The C stack is the sequence "calls", and   *)
(* "ret" the result the callee on top of it has just returned.  Which      *)
(* command comes next is chosen by the environment: the runs cover all     *)
(* programs within the bounds.                                             *)
(***************************************************************************)
EXTENDS Integers, Sequences, FiniteSets

CONSTANTS
    MaxCalls,   \* bound on nested calls of the interpreter
    MaxItems,   \* bound on the commands of a list and on elif clauses
    MaxLines    \* bound on the strings handed to exec_frame_string_core

ASSUME BoundsAssumption == MaxCalls \in Nat /\ MaxItems \in Nat /\ MaxLines \in Nat

Status == {0, 1}                        \* success and failure
Flows == {"normal", "break", "continue", "return"}
NoStore == 0
None == [none |-> TRUE]

(* Results: R fills in what a designated initializer leaves zero.          *)
R(ok, has, exit, flow, depth) ==
    [ok |-> ok, has |-> has, exit |-> exit, flow |-> flow, depth |-> depth]
Exit(s) == R(TRUE, TRUE, s, "normal", 0)
Error == R(FALSE, TRUE, 1, "normal", 0)

-----------------------------------------------------------------------------
(* The policies.                                                           *)
Policy(forks, scope, positional, locals, return, loop, isLoop, dies, affects, background) ==
    [forks |-> forks, scope |-> scope, positional |-> positional, locals |-> locals,
     return |-> return, loop |-> loop, isLoop |-> isLoop, terminates |-> dies,
     affects |-> affects, background |-> background]

TopLevel == Policy(FALSE, "own", "own", FALSE, "disallowed", "disallowed", FALSE, TRUE, FALSE, FALSE)
Subshell == Policy(TRUE, "copy", "copy", FALSE, "disallowed", "disallowed", FALSE, TRUE, TRUE, FALSE)
BraceGroup == Policy(FALSE, "share", "share", FALSE, "transparent", "transparent", FALSE, FALSE, TRUE, FALSE)
Function == Policy(FALSE, "share", "own", TRUE, "target", "disallowed", FALSE, FALSE, TRUE, FALSE)
Loop == Policy(FALSE, "share", "share", FALSE, "transparent", "target", TRUE, FALSE, TRUE, FALSE)
BackgroundJob == Policy(TRUE, "copy", "copy", FALSE, "disallowed", "disallowed", FALSE, TRUE, FALSE, TRUE)
Pipeline == Policy(FALSE, "share", "share", FALSE, "transparent", "transparent", FALSE, FALSE, TRUE, FALSE)
Eval == Policy(FALSE, "share", "share", FALSE, "transparent", "transparent", FALSE, FALSE, TRUE, FALSE)

Types == {"top", "subshell", "brace", "function", "loop", "background", "pipeline", "eval"}
PolicyOf == [top |-> TopLevel, subshell |-> Subshell, brace |-> BraceGroup,
             function |-> Function, loop |-> Loop, background |-> BackgroundJob,
             pipeline |-> Pipeline, eval |-> Eval]

-----------------------------------------------------------------------------
VARIABLES
    frames,     \* the chain from top_frame to current_frame
    stores,     \* the stores that are allocated
    calls,      \* the interpreter's activations, innermost last
    ret,        \* what the innermost callee returned, or None
    forked,     \* the processes that wait for the one that runs, innermost last
    lastExit,   \* executor->last_exit_status
    lines,      \* strings executed so far
    ended       \* "no", "exit" or "abort"

vars == <<frames, stores, calls, ret, forked, lastExit, lines, ended>>

Current == frames[Len(frames)]
Call == calls[Len(calls)]
Front(s) == SubSeq(s, 1, Len(s) - 1)

(* An activation: its function, the frame it was given, where it is.       *)
Act(fn, pc, left) == [fn |-> fn, pc |-> pc, left |-> left, frame |-> Len(frames)]
At(fn, pc) == /\ ended = "no"
              /\ calls # <<>>
              /\ Call.fn = fn
              /\ Call.pc = pc

Push(act) == calls' = Append(calls, act) /\ ret' = None
Invoke(pc, act) == /\ calls' = Append([calls EXCEPT ![Len(calls)].pc = pc], act)
                   /\ ret' = None
Goto(pc) == calls' = [calls EXCEPT ![Len(calls)].pc = pc]
Return(r) == calls' = Front(calls) /\ ret' = r

(* The commands that may come next: at the bound only simple ones.         *)
Deep == Len(calls) + 4 > MaxCalls
Compound == {"brace", "subshell", "if", "while", "for", "case"}
Commands == IF Deep THEN {"simple"} ELSE Compound \cup {"simple", "redirected", "fundef"}
Items == IF Deep THEN {"simple"} ELSE Commands \cup {"andor", "pipe"}

-----------------------------------------------------------------------------
(* Stores and frames.                                                      *)
Fresh(n, taken) ==      \* n numbers of stores that are not allocated
    CHOOSE s \in [1 .. n -> 1 .. Cardinality(taken) + n] :
        /\ \A i, j \in 1 .. n : i # j => s[i] # s[j]
        /\ \A i \in 1 .. n : s[i] \notin taken

InitVariables(policy, parent, new) ==
    [vars |-> IF policy.scope = "share" THEN parent.vars ELSE new[1],
     locals |-> IF policy.locals THEN new[2] ELSE NoStore]
InitPositional(policy, parent, new) ==
    IF policy.positional = "share" THEN parent.pos ELSE new[3]
InitEnv(policy, parent, new) ==
    IF policy.scope = "share" THEN parent.env ELSE new[4]

(* What the frame of a type allocates, and so frees when it is popped.     *)
OwnStores(f) ==
    LET policy == PolicyOf[f.type]
    IN  (IF policy.scope # "share" THEN {f.vars, f.env} ELSE {})
        \cup (IF policy.positional # "share" THEN {f.pos} ELSE {})
        \cup ({f.locals} \ {NoStore})

NewFrame(type, parent, new) ==
    LET policy == PolicyOf[type]
        v == InitVariables(policy, parent, new)
    IN  [type |-> type, vars |-> v.vars, locals |-> v.locals, saved |-> NoStore,
         pos |-> InitPositional(policy, parent, new), env |-> InitEnv(policy, parent, new),
         flow |-> "normal", depth |-> 0, last |-> parent.last,
         loops |-> parent.loops + (IF policy.isLoop THEN 1 ELSE 0)]

FramePush(type) ==
    LET f == NewFrame(type, Current, Fresh(4, stores))
    IN  /\ frames' = Append(frames, f)
        /\ stores' = stores \cup OwnStores(f)

(* The frame's status reaches the parent, and what it owns is freed.       *)
FramePop(status) ==
    LET popped == Front(frames)
    IN  /\ frames' = IF PolicyOf[Current.type].affects
                     THEN [popped EXCEPT ![Len(popped)].last = status]
                     ELSE popped
        /\ stores' = stores \ OwnStores(Current)

CreateTopLevel ==
    LET new == Fresh(4, {})
        nobody == [vars |-> NoStore, pos |-> NoStore, env |-> NoStore, last |-> 0, loops |-> 0]
    IN  NewFrame("top", nobody, new)

FindReturnTarget == \E i \in 1 .. Len(frames) : PolicyOf[frames[i].type].return = "target"

Init == /\ frames = <<CreateTopLevel>>
        /\ stores = OwnStores(CreateTopLevel)
        /\ calls = <<>>
        /\ ret = None
        /\ forked = <<>>
        /\ lastExit = 0
        /\ lines = 0
        /\ ended = "no"

-----------------------------------------------------------------------------
(* exec_frame_string_core: a program is a list, whose flow is dropped.     *)
ReadLine ==
    /\ ended = "no" /\ calls = <<>> /\ lines < MaxLines
    /\ Push(Act("string", "run", 0))
    /\ lines' = lines + 1
    /\ UNCHANGED <<frames, stores, forked, lastExit, ended>>

SetStatus(r) ==
    /\ frames' = IF r.has THEN [frames EXCEPT ![Len(frames)].last = r.exit] ELSE frames
    /\ lastExit' = IF r.has THEN r.exit ELSE lastExit

StringStart ==
    /\ At("string", "run") /\ ret = None
    /\ Push(Act("dispatch", "list", 0))
    /\ UNCHANGED <<frames, stores, forked, lastExit, lines, ended>>

EvalResult(ok, last) == R(ok, TRUE, IF ~ok /\ last = 0 THEN 1 ELSE last, "normal", 0)

StringEnd ==
    /\ At("string", "run") /\ ret # None
    /\ SetStatus(ret)
    /\ IF Len(calls) = 1 THEN calls' = <<>> /\ ret' = None
       ELSE Return(EvalResult(ret.ok, frames'[Len(frames)].last))
    /\ UNCHANGED <<stores, forked, lines, ended>>

(* exec_frame_execute_dispatch, entered with the kind of its node.         *)
NewActivation(kind) ==
    CASE kind = "list" -> {Act("list", "next", n) : n \in 0 .. MaxItems}
      [] kind = "brace" -> {Act("frame", "brace", 0)}
      [] kind = "subshell" -> {Act("frame", "subshell", 0)}
      [] kind = "for" -> {Act("frame", "loop", 0)}
      [] kind = "pipe" -> {Act("frame", "pipeline", 0)}
      [] kind = "redirected" -> {Act("frame", "redirected", 0)}
      [] kind = "if" -> {Act("if", "condition", n) : n \in 0 .. MaxItems}
      [] OTHER -> {Act(kind, "start", 0)}

Dispatch ==
    /\ ended = "no" /\ calls # <<>> /\ ret = None
    /\ Call.fn = "dispatch" /\ Call.pc # "wait"
    /\ \E kind \in IF Call.pc = "any" THEN Items ELSE {Call.pc} :
         \E act \in NewActivation(kind) : Invoke("wait", act)
    /\ UNCHANGED <<frames, stores, forked, lastExit, lines, ended>>

DispatchEnd ==
    /\ At("dispatch", "wait") /\ ret # None
    /\ SetStatus(ret)
    /\ Return(ret)
    /\ UNCHANGED <<stores, forked, lines, ended>>

-----------------------------------------------------------------------------
(* exec_frame_execute_compound_list.  "left" counts the items still to run *)
(* and pc remembers the result so far.                                     *)
ListNext ==
    /\ At("list", "next") /\ ret = None /\ Call.left > 0
    /\ \E kind \in Items \cup (IF Deep THEN {} ELSE {"background"}) :
         \E act \in IF kind = "background" THEN {Act("frame", "background", 0)}
                    ELSE NewActivation(kind) : Push(act)
    /\ UNCHANGED <<frames, stores, forked, lastExit, lines, ended>>

EmptyList ==
    /\ At("list", "next") /\ ret = None /\ Call.left = 0
    /\ Return(Exit(0))
    /\ UNCHANGED <<frames, stores, forked, lastExit, lines, ended>>

(* What a list returns when its last command returned r: no flow.          *)
ListResult(r) == R(r.ok, r.has, IF r.has THEN r.exit ELSE 0, "normal", 0)

ListItem ==
    /\ At("list", "next") /\ ret # None
    /\ frames' = IF ret.ok /\ ret.has THEN [frames EXCEPT ![Len(frames)].last = ret.exit]
                 ELSE frames
    /\ IF ret.ok /\ Call.left > 1
       THEN calls' = [calls EXCEPT ![Len(calls)].left = @ - 1] /\ ret' = None
       ELSE Return(ListResult(ret))
    /\ UNCHANGED <<stores, forked, lastExit, lines, ended>>

(* exec_frame_execute_and_or_list: each side a pipeline or a simple        *)
(* command; a result without a status counts as success.                   *)
AndOrLeft ==
    /\ At("andor", "start")
    /\ \E kind \in Items \cap {"andor", "pipe", "simple"} :
         \E act \in NewActivation(kind), op \in {"and", "or"} : Invoke(op, act)
    /\ UNCHANGED <<frames, stores, forked, lastExit, lines, ended>>

AndOrRight ==
    /\ At("andor", "and") \/ At("andor", "or")
    /\ ret # None /\ ret.ok
    /\ (Call.pc = "and") = (ret.exit = 0)
    /\ \E kind \in Items \cap {"andor", "pipe", "simple"} :
         \E act \in NewActivation(kind) : Invoke("right", act)
    /\ UNCHANGED <<frames, stores, forked, lastExit, lines, ended>>

AndOrEnd ==
    /\ At("andor", "and") \/ At("andor", "or") \/ At("andor", "right")
    /\ ret # None
    /\ \/ ~ret.ok \/ Call.pc = "right"
       \/ (Call.pc = "and") # (ret.exit = 0)
    /\ frames' = IF ret.ok THEN [frames EXCEPT ![Len(frames)].last = ret.exit] ELSE frames
    /\ Return(ret)
    /\ UNCHANGED <<stores, forked, lastExit, lines, ended>>

-----------------------------------------------------------------------------
(* exec_frame_execute_if_clause: the conditions, then one of the bodies.   *)
IfCondition ==
    /\ At("if", "condition") /\ ret = None
    /\ Invoke("test", Act("dispatch", "list", 0))
    /\ UNCHANGED <<frames, stores, forked, lastExit, lines, ended>>

Holds(r) == r.has /\ r.exit = 0

IfTest ==
    /\ At("if", "test") /\ ret # None
    /\ \/ ~ret.ok /\ Return(ret)
       \/ ret.ok /\ Holds(ret) /\ Invoke("body", Act("dispatch", "list", 0))
       \/ /\ ret.ok /\ ~Holds(ret) /\ Call.left > 0
          /\ calls' = [calls EXCEPT ![Len(calls)].left = @ - 1, ![Len(calls)].pc = "condition"]
          /\ ret' = None
       \/ ret.ok /\ ~Holds(ret) /\ Call.left = 0 /\ Invoke("body", Act("dispatch", "list", 0))
       \/ ret.ok /\ ~Holds(ret) /\ Call.left = 0 /\ Return(Exit(0))
    /\ UNCHANGED <<frames, stores, forked, lastExit, lines, ended>>

IfEnd ==
    /\ At("if", "body") /\ ret # None
    /\ Return(ret)
    /\ UNCHANGED <<frames, stores, forked, lastExit, lines, ended>>

(* A while or until loop runs in the frame that reached it.  Its body is a *)
(* list, which goes to the function that walks over the words of a for     *)
(* loop: that one asserts that there is a loop variable.                   *)
WhileCondition ==
    /\ At("while", "start")
    /\ Invoke("test", Act("dispatch", "list", 0))
    /\ UNCHANGED <<frames, stores, forked, lastExit, lines, ended>>

WhileTest ==
    /\ At("while", "test") /\ ret # None
    /\ IF ~ret.ok THEN Return(ret) /\ UNCHANGED ended
       ELSE \E until \in BOOLEAN :
              IF until = (ret.exit = 0) THEN Return(Exit(0)) /\ UNCHANGED ended
              ELSE ended' = "abort" /\ UNCHANGED <<calls, ret>>
    /\ UNCHANGED <<frames, stores, forked, lastExit, lines>>

(* exec_frame_execute_case_clause: no pattern matches, or one does.        *)
Case ==
    /\ At("case", "start")
    /\ \/ Return(Exit(0))
       \/ Return(R(FALSE, TRUE, 1, "normal", 0))        \* the word does not expand
       \/ Invoke("body", Act("dispatch", "list", 0))
    /\ UNCHANGED <<frames, stores, forked, lastExit, lines, ended>>

CaseEnd ==
    /\ At("case", "body") /\ ret # None
    /\ Return(ret)
    /\ UNCHANGED <<frames, stores, forked, lastExit, lines, ended>>

FunctionDef ==
    /\ At("fundef", "start")
    /\ \E r \in {Exit(0), Error} : Return(r)
    /\ UNCHANGED <<frames, stores, forked, lastExit, lines, ended>>

-----------------------------------------------------------------------------
(* exec_in_frame.                                                          *)
FrameType(pc) == IF pc = "redirected" THEN "brace" ELSE pc
Body(pc) == CASE pc = "function" -> "brace"
              [] pc = "pipeline" \/ pc = "background" \/ pc = "redirected" -> "any"
              [] OTHER -> "list"

FrameCall(type) ==
    /\ ended = "no" /\ calls # <<>> /\ ret = None
    /\ Call.fn = "frame" /\ FrameType(Call.pc) = type

EnterFrame ==
    \E type \in Types :
        /\ FrameCall(type) /\ ~PolicyOf[type].forks
        /\ FramePush(type)
        /\ calls' = [calls EXCEPT ![Len(calls)] = [@ EXCEPT !.fn = "body"]]
        /\ UNCHANGED <<ret, forked, lastExit, lines, ended>>

ForkFails ==
    \E type \in Types :
        /\ FrameCall(type) /\ PolicyOf[type].forks
        /\ Return(Exit(1))
        /\ UNCHANGED <<frames, stores, forked, lastExit, lines, ended>>

(* The child: its parent is suspended, and resumed when it exits.  For a   *)
(* background job that stands for the parent not waiting, since the two    *)
(* share no memory.                                                        *)
Fork ==
    \E type \in Types :
        /\ FrameCall(type) /\ PolicyOf[type].forks
        /\ forked' = Append(forked, [frames |-> frames, stores |-> stores,
                                     calls |-> Front(calls), lastExit |-> lastExit,
                                     waits |-> ~PolicyOf[type].background])
        /\ FramePush(type)
        /\ calls' = [calls EXCEPT ![Len(calls)] = [@ EXCEPT !.fn = "body"]]
        /\ UNCHANGED <<ret, lastExit, lines, ended>>

(* execute_frame_body: a body is dispatched, a loop's too.                 *)
RunBody ==
    /\ ended = "no" /\ calls # <<>> /\ ret = None /\ Call.fn = "body"
    /\ \/ Push(Act("dispatch", Body(Call.pc), 0))
       \/ Call.pc = "redirected" /\ Push(Act("failed", "start", 0))
       \/ Call.pc = "pipeline" /\ Push(Act("piped", "start", 0))
    /\ UNCHANGED <<frames, stores, forked, lastExit, lines, ended>>

(* A redirection that fails; a pipeline of several processes.              *)
OtherBody ==
    /\ At("failed", "start") \/ At("piped", "start")
    /\ \E s \in Status :
         /\ Call.fn = "failed" => s = 1
         /\ Return(Exit(s))
    /\ UNCHANGED <<frames, stores, forked, lastExit, lines, ended>>

HandleControlFlow(type, r) ==
    LET policy == PolicyOf[type]
        loops == r.flow \in {"break", "continue"}
        stops == R(TRUE, TRUE, 1, "normal", 0)
    IN  CASE r.flow = "normal" -> r
          [] r.flow = "return" /\ policy.return = "target" -> Exit(r.exit)
          [] r.flow = "return" /\ policy.return = "transparent" -> r
          [] r.flow = "return" /\ policy.return = "disallowed" -> stops
          [] loops /\ policy.loop = "target" /\ r.depth > 1 -> [r EXCEPT !.depth = @ - 1]
          [] loops /\ policy.loop = "target" /\ r.depth <= 1 ->
                IF r.flow = "break" THEN R(TRUE, r.has, r.exit, "normal", 0)
                ELSE R(TRUE, TRUE, 0, "continue", 0)
          [] loops /\ policy.loop = "transparent" -> r
          [] loops /\ policy.loop = "disallowed" -> stops

(* The pipeline negates the status, if there is one.                       *)
Negations(pc, r) == IF pc = "pipeline" /\ r.has THEN {r, [r EXCEPT !.exit = 1 - @]} ELSE {r}

LeaveFrame ==
    /\ ended = "no" /\ calls # <<>> /\ ret # None /\ Call.fn = "body"
    /\ \E r \in Negations(Call.pc, ret) :
         LET res == HandleControlFlow(Current.type, r)
         IN  IF PolicyOf[Current.type].terminates
             THEN LET parent == forked[Len(forked)]
                  IN  /\ frames' = parent.frames
                      /\ stores' = parent.stores
                      /\ calls' = parent.calls
                      /\ lastExit' = parent.lastExit
                      /\ forked' = Front(forked)
                      /\ ret' = Exit(IF parent.waits THEN res.exit ELSE 0)
             ELSE /\ FramePop(res.exit)
                  /\ Return(res)
                  /\ UNCHANGED <<forked, lastExit>>
    /\ UNCHANGED <<lines, ended>>

-----------------------------------------------------------------------------
(* exec_frame_execute_simple_command and the builtins of control flow.     *)
Impl(ok) == R(ok, FALSE, 0, "normal", 0)

(* Every command gets a temporary store.  The branch for one that only     *)
(* assigns asks for a list of redirections that is NULL, which lowering    *)
(* never makes; such a command is a Run with status 0.                     *)
SwapStore ==
    /\ At("simple", "start")
    /\ LET temp == Fresh(1, stores)[1]
       IN  /\ frames' = [frames EXCEPT ![Len(frames)].saved = Current.vars,
                                       ![Len(frames)].vars = temp]
           /\ stores' = stores \cup {temp}
    /\ Goto("run")
    /\ UNCHANGED <<ret, forked, lastExit, lines, ended>>

(* The command has run: its status, and the flow a builtin left pending.   *)
Ran(ok, status, flow, depth) ==
    /\ frames' = [frames EXCEPT ![Len(frames)].last = status,
                                ![Len(frames)].flow = flow, ![Len(frames)].depth = depth]
    /\ ret' = Impl(ok)
    /\ Goto("restore")
    /\ UNCHANGED <<stores, forked, lastExit, lines>>

Run ==                  \* a program or a builtin that only has a status
    /\ At("simple", "run")
    /\ \E s \in Status : Ran(TRUE, s, Current.flow, Current.depth)
    /\ UNCHANGED ended

RunFailsAtOnce ==       \* mutant: a failed expansion leaves by the wrong label
    /\ At("simple", "run")
    /\ ret' = Impl(FALSE)
    /\ Goto("done")
    /\ UNCHANGED <<frames, stores, forked, lastExit, lines, ended>>

RunFails ==             \* an expansion or a redirection that fails
    /\ At("simple", "run")
    /\ \E s \in {0, Current.last} : Ran(FALSE, s, Current.flow, Current.depth)
    /\ UNCHANGED ended

Depths == {0, 1}        \* break and break 2: the builtin takes one off
Break ==
    /\ At("simple", "run")
    /\ \E d \in Depths : Ran(TRUE, 0, "break", d)
    /\ UNCHANGED ended

Continue ==
    /\ At("simple", "run")
    /\ \E d \in Depths : Ran(TRUE, 0, "continue", d)
    /\ UNCHANGED ended

DoReturn ==
    /\ At("simple", "run")
    /\ IF FindReturnTarget THEN \E s \in Status : Ran(TRUE, s, "return", 0)
       ELSE Ran(TRUE, 1, Current.flow, Current.depth)
    /\ UNCHANGED ended

DoExit ==               \* in the frame at the bottom the process ends
    /\ At("simple", "run")
    /\ IF Len(frames) = 1
       THEN /\ ended' = "exit"
            /\ UNCHANGED <<frames, stores, calls, ret, forked, lastExit, lines>>
       ELSE /\ \E s \in Status : Ran(TRUE, s, "return", 0)
            /\ UNCHANGED ended

CallFunction ==
    /\ At("simple", "run") /\ ~Deep
    /\ Invoke("call", Act("frame", "function", 0))
    /\ UNCHANGED <<frames, stores, forked, lastExit, lines, ended>>

EvalStart ==            \* builtin_eval, in a frame of its own
    /\ At("simple", "run") /\ ~Deep
    /\ FramePush("eval")
    /\ Invoke("eval", [Act("string", "run", 0) EXCEPT !.frame = @ + 1])
    /\ UNCHANGED <<forked, lastExit, lines, ended>>

EvalPop ==
    /\ At("simple", "eval") /\ ret # None
    /\ FramePop(Current.last)
    /\ Goto("call")
    /\ UNCHANGED <<ret, forked, lastExit, lines, ended>>

CallEnd ==              \* only the status of a function or of eval is kept
    /\ At("simple", "call") /\ ret # None
    /\ Ran(TRUE, ret.exit, Current.flow, Current.depth)
    /\ UNCHANGED ended

RestoreStoreLeaked ==   \* mutant: the temporary store is not destroyed
    /\ At("simple", "restore")
    /\ frames' = [frames EXCEPT ![Len(frames)].vars = Current.saved,
                                ![Len(frames)].saved = NoStore]
    /\ Goto("done")
    /\ UNCHANGED <<stores, ret, forked, lastExit, lines, ended>>

RestoreStore ==         \* out_restore_vars
    /\ At("simple", "restore")
    /\ frames' = [frames EXCEPT ![Len(frames)].vars = Current.saved,
                                ![Len(frames)].saved = NoStore]
    /\ stores' = stores \ {Current.vars}
    /\ Goto("done")
    /\ UNCHANGED <<ret, forked, lastExit, lines, ended>>

PickUpFlowKept ==       \* mutant: the frame keeps the flow it handed on
    /\ At("simple", "done")
    /\ Return([ret EXCEPT !.flow = Current.flow, !.depth = Current.depth])
    /\ UNCHANGED <<frames, stores, forked, lastExit, lines, ended>>

PickUpFlow ==
    /\ At("simple", "done")
    /\ frames' = [frames EXCEPT ![Len(frames)].flow = "normal", ![Len(frames)].depth = 0]
    /\ Return([ret EXCEPT !.flow = Current.flow, !.depth = Current.depth])
    /\ UNCHANGED <<stores, forked, lastExit, lines, ended>>

Next ==
    \/ ReadLine \/ StringStart \/ StringEnd \/ Dispatch \/ DispatchEnd
    \/ ListNext \/ EmptyList \/ ListItem \/ AndOrLeft \/ AndOrRight \/ AndOrEnd
    \/ IfCondition \/ IfTest \/ IfEnd \/ WhileCondition \/ WhileTest \/ Case \/ CaseEnd
    \/ FunctionDef \/ EnterFrame \/ ForkFails \/ Fork \/ RunBody \/ OtherBody \/ LeaveFrame
    \/ SwapStore \/ Run \/ RunFails \/ Break \/ Continue \/ DoReturn \/ DoExit
    \/ CallFunction \/ EvalStart \/ EvalPop \/ CallEnd \/ RestoreStore \/ PickUpFlow

Spec == Init /\ [][Next]_vars

-----------------------------------------------------------------------------
(* Properties.                                                             *)

FrameRecords == [type : Types, vars : Nat, locals : Nat, saved : Nat, pos : Nat, env : Nat,
                 flow : Flows, depth : Nat, last : Status, loops : Nat]

(* The frames, the stores and the result register have their types: the    *)
(* fields of miga_frame_t and of exec_frame_execute_result_t.              *)
TypeOK ==
    /\ frames \in Seq(FrameRecords) /\ frames # <<>>
    /\ stores \subseteq Nat \ {NoStore}
    /\ ret = None \/ ret \in [ok : BOOLEAN, has : BOOLEAN, exit : Status, flow : Flows, depth : Nat]
    /\ lastExit \in Status /\ lines \in 0 .. MaxLines /\ ended \in {"no", "exit", "abort"}

(* What exec_frame_push and a simple command allocate belongs to exactly   *)
(* one frame, nothing that is allocated is lost, and no frame holds a      *)
(* store that has been freed: through nested functions, evals and forks.   *)
Owned(f) ==
    LET own == IF f.saved = NoStore THEN f.vars ELSE f.saved
    IN  OwnStores([f EXCEPT !.vars = own]) \cup (IF f.saved = NoStore THEN {} ELSE {f.vars})
Refers(f) == {f.vars, f.locals, f.saved, f.pos, f.env} \ {NoStore}

StoresOwnedOnce ==
    /\ stores = UNION {Owned(frames[i]) : i \in 1 .. Len(frames)}
    /\ \A i, j \in 1 .. Len(frames) : i # j => Owned(frames[i]) \cap Owned(frames[j]) = {}
    /\ \A i \in 1 .. Len(frames) : Refers(frames[i]) \subseteq stores

(* A frame has a temporary variable store exactly while a simple command   *)
(* that it was given is between the two swaps, however that command ends.  *)
Swapped == {"run", "call", "eval", "restore"}
TemporaryStoreSettled ==
    \A i \in 1 .. Len(frames) :
        frames[i].saved # NoStore <=>
            \E k \in 1 .. Len(calls) : /\ calls[k].fn = "simple" /\ calls[k].pc \in Swapped
                                       /\ calls[k].frame = i

(* A break, continue, return or exit that a builtin left on its frame is   *)
(* picked up by that very command: none is left for a later command.       *)
FlowIsPickedUp ==
    \A i \in 1 .. Len(frames) :
        frames[i].flow # "normal" =>
            /\ i = Len(frames) /\ calls # <<>> /\ Call.fn = "simple"
            /\ Call.pc \in {"restore", "done"}

(* Every function of the interpreter finds, when its callee returns, the   *)
(* frame it was given as current frame; a frame knows how many loops it is *)
(* in.                                                                     *)
Pushed(a) == IF a.fn = "body" \/ (a.fn = "simple" /\ a.pc = "eval") THEN 1 ELSE 0
FramesBalanced ==
    /\ Len(frames) = IF calls = <<>> THEN 1 ELSE Call.frame + Pushed(Call)
    /\ \A i \in 1 .. Len(frames) :
         frames[i].loops = Cardinality({j \in 1 .. i : frames[j].type = "loop"})

(* "return - Return from a function": a list that receives it runs no      *)
(* further command (builtins.c, builtin_return; exec_frame.c:1824).        *)
ReturnEndsTheList ==
    [][At("list", "next") /\ ret # None /\ ret.flow = "return" => Len(calls') < Len(calls)]_vars

\* Whatever a program does and however it fails, a frame and a temporary store
\* are there for exactly as long as what they were made for (exec_frame_pop,
\* exec_frame_execute_simple_command_impl).
FramesSettled == TypeOK /\ FramesBalanced /\ TemporaryStoreSettled

=============================================================================
