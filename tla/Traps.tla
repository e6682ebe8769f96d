------------------------------- MODULE Traps --------------------------------
(***************************************************************************)
(* Traps (trap_store.c, init_traps and exec_frame_pop in exec_frame.c, the *)
(* trap functions of frame.c, builtin_trap and builtin_exit), in a shell   *)
(* and the processes it forks, with signals arriving between any two       *)
(* steps.                                                                  *)
(*                                                                         *)
(* Each process has a trap store and the dispositions the system keeps for *)
(* it.  The handler that trap_store_set installs finds no current store    *)
(* (nothing calls trap_store_set_current) and returns: a signal that is    *)
(* caught changes nothing.  Running an EXIT action is printing it.         *)
(*                                                                         *)
(* stale, own and inside record what the properties have to leave out.     *)
(***************************************************************************)
EXTENDS Naturals

CONSTANTS
    Procs,          \* processes that may exist
    Shell,          \* the one that the user started
    Signals,        \* signals a process may be sent
    Uncatchable,    \* SIGKILL and SIGSTOP
    Unstored,       \* signals above the last one that has a place in a store
    Actions,        \* the texts of trap actions, but for the empty string and "-"
    NoAction        \* the NULL pointer

ASSUME TrapsAssumption ==
    /\ Shell \in Procs
    /\ Uncatchable \subseteq Signals /\ Unstored \subseteq Signals
    /\ Uncatchable \cap Unstored = {}
    /\ NoAction \notin Actions
    /\ "ignore" \notin Actions /\ "reset" \notin Actions

Dispositions == {"default", "ignore", "handler"}
Phases == {"none",      \* no such process
           "shell",     \* the top-level frame
           "forked",    \* forked for a subshell or a job, its frame not pushed yet
           "subshell",  \* in the frame of a subshell or of a background job
           "piped",     \* forked for a pipeline or a program, in the frame of its parent
           "program",   \* has called execve
           "exited",    \* after builtin_exit or the pop of its frame
           "left",      \* a piped command that is done
           "killed", "aborted"}

VARIABLES
    phase,      \* what the process is
    trap,       \* per process and signal: action, is_ignored, is_default
    exitTrap,   \* per process: exit_trap_set and exit_action
    disp,       \* dispositions (external: the system)
    entry,      \* the signals that were ignored when the shell started
    ran,        \* per process: the EXIT action it ran last, or NoAction, and how often it ran one
    stale,      \* per process: signals reset in its store while they were caught
    own,        \* the processes that set an EXIT trap themselves
    inside      \* the processes that called exit where it does not end them

vars == <<phase, trap, exitTrap, disp, entry, ran, stale, own, inside>>

Times == 0 .. 2         \* bound: 2 stands for twice and more

Stored == Signals \ Unstored
Unset == [action |-> NoAction, ignored |-> FALSE, default |-> TRUE]
StoreCreate == [s \in Stored |-> Unset]
ExitUnset == [set |-> FALSE, action |-> NoAction]

Init ==
    /\ phase = [p \in Procs |-> IF p = Shell THEN "shell" ELSE "none"]
    /\ trap = [p \in Procs |-> StoreCreate]
    /\ exitTrap = [p \in Procs |-> ExitUnset]
    /\ entry \in SUBSET (Signals \ Uncatchable)
    /\ disp = [p \in Procs |-> [s \in Signals |-> IF s \in entry THEN "ignore" ELSE "default"]]
    /\ ran = [p \in Procs |-> [action |-> NoAction, times |-> 0]]
    /\ stale = [p \in Procs |-> {}]
    /\ own = {} /\ inside = {}

Runs(p) == phase[p] \in {"shell", "subshell", "piped"}     \* executes commands of the user

-----------------------------------------------------------------------------
(* builtin_trap: one signal of its operands.  The action is a text, the    *)
(* empty string (ignore) or "-" (reset).                                   *)
Operands == Actions \cup {"ignore", "reset"}
ActionOf(op) == IF op \in Actions THEN op ELSE NoAction
Entry(op) == [action |-> ActionOf(op), ignored |-> op = "ignore", default |-> op = "reset"]
InstalledSwapped(op) == \* mutant: SIG_IGN and SIG_DFL swapped
    IF op = "ignore" THEN "default" ELSE IF op = "reset" THEN "ignore" ELSE "handler"
Installed(op) == CASE op = "ignore" -> "ignore"
                   [] op = "reset" -> "default"
                   [] OTHER -> "handler"

(* A number that has no place in the store fails an assertion.             *)
Abort(p) ==
    /\ phase' = [phase EXCEPT ![p] = "aborted"]
    /\ UNCHANGED <<trap, exitTrap, disp, entry, ran, stale, own, inside>>

TrapSet(p, s, op) ==
    /\ Runs(p)
    /\ \/ s \in Unstored /\ Abort(p)
       \/ /\ s \in Stored \ Uncatchable
          /\ trap' = [trap EXCEPT ![p][s] = Entry(op)]
          /\ disp' = [disp EXCEPT ![p][s] = Installed(op)]
          /\ stale' = [stale EXCEPT ![p] = @ \ {s}]
          /\ UNCHANGED <<phase, exitTrap, entry, ran, own, inside>>

(* trap with one signal and no action, and trap -p (trap_store_get).       *)
TrapShow(p, s) == Runs(p) /\ s \in Unstored /\ Abort(p)

(* trap_store_set_exit marks the trap as set whatever it is set to.        *)
TrapSetExit(p, op) ==
    /\ Runs(p)
    /\ exitTrap' = [exitTrap EXCEPT ![p] = [set |-> TRUE, action |-> ActionOf(op)]]
    /\ own' = own \cup {p}
    /\ UNCHANGED <<phase, trap, disp, entry, ran, stale, inside>>

BuiltinTrap(p) ==       \* signals that it cannot parse are skipped
    \/ \E op \in Operands : TrapSetExit(p, op) \/ \E s \in Signals : TrapSet(p, s, op)
    \/ \E s \in Signals : TrapShow(p, s)

-----------------------------------------------------------------------------
(* Processes.  A fork copies memory and dispositions.                      *)
ForkAs(p, c, as) ==
    /\ Runs(p) /\ phase[c] = "none"
    /\ phase' = [phase EXCEPT ![c] = as]
    /\ trap' = [trap EXCEPT ![c] = trap[p]]
    /\ exitTrap' = [exitTrap EXCEPT ![c] = exitTrap[p]]
    /\ disp' = [disp EXCEPT ![c] = disp[p]]
    /\ stale' = [stale EXCEPT ![c] = stale[p]]
    /\ UNCHANGED <<entry, ran, own, inside>>

Fork(p, c) == ForkAs(p, c, "forked")
ForkPiped(p, c) == ForkAs(p, c, "piped")

ResetAll(t) == StoreCreate       \* mutant: ignored signals too
(* The store only: "TODO: where to reset the actual signal handler".       *)
ResetNonIgnored(t) == [s \in Stored |-> IF t[s].ignored THEN t[s] ELSE Unset]

PushSubshell(p) ==
    /\ phase[p] = "forked"
    /\ phase' = [phase EXCEPT ![p] = "subshell"]
    /\ trap' = [trap EXCEPT ![p] = ResetNonIgnored(@)]
    /\ stale' = [stale EXCEPT ![p] = {s \in Stored : disp[p][s] = "handler"}]
    /\ UNCHANGED <<exitTrap, disp, entry, ran, own, inside>>

(* execve of a program, by a child or by builtin_exec (external): what was caught  *)
(* gets its default disposition.                                           *)
Exec(p) ==
    /\ Runs(p)
    /\ phase' = [phase EXCEPT ![p] = "program"]
    /\ disp' = [disp EXCEPT ![p] = [s \in Signals |-> IF @[s] = "handler" THEN "default" ELSE @[s]]]
    /\ stale' = [stale EXCEPT ![p] = {}]
    /\ UNCHANGED <<trap, exitTrap, entry, ran, own, inside>>

(* trap_store_run_exit_trap with its contract; frame_run_exit_traps asks   *)
(* first whether there is an action.                                       *)
RunExitTrap(p) ==
    ran' = [ran EXCEPT ![p] = [action |-> exitTrap[p].action,
                               times |-> IF @.times + 1 \in Times THEN @.times + 1 ELSE @.times]]
FrameRunExitTraps(p) == IF exitTrap[p].action # NoAction THEN RunExitTrap(p) ELSE UNCHANGED ran

(* builtin_exit: in the top-level frame the process ends; in any other the *)
(* trap runs, the flow that is set is dropped and commands go on.          *)
ExitAtTop(p) ==
    /\ phase[p] = "shell"
    /\ FrameRunExitTraps(p)
    /\ phase' = [phase EXCEPT ![p] = "exited"]
    /\ UNCHANGED <<trap, exitTrap, disp, entry, stale, own, inside>>

ExitInside(p) ==
    /\ Runs(p)
    /\ FrameRunExitTraps(p)
    /\ inside' = inside \cup {p}
    /\ UNCHANGED <<phase, trap, exitTrap, disp, entry, stale, own>>

(* The end of the input or of the subshell's body: exec_frame_pop runs the *)
(* trap if it is set, and aborts if there is no action to run.             *)
PopSilently(p) ==       \* mutant: the trap of the frame is not run
    /\ phase[p] \in {"shell", "subshell"}
    /\ phase' = [phase EXCEPT ![p] = "exited"]
    /\ UNCHANGED <<trap, exitTrap, disp, entry, ran, stale, own, inside>>

Pop(p) ==
    /\ phase[p] \in {"shell", "subshell"}
    /\ \/ /\ ~exitTrap[p].set
          /\ phase' = [phase EXCEPT ![p] = "exited"]
          /\ UNCHANGED ran
       \/ /\ exitTrap[p].set /\ exitTrap[p].action # NoAction
          /\ phase' = [phase EXCEPT ![p] = "exited"]
          /\ RunExitTrap(p)
       \/ /\ exitTrap[p].set /\ exitTrap[p].action = NoAction
          /\ phase' = [phase EXCEPT ![p] = "aborted"]
          /\ UNCHANGED ran
    /\ UNCHANGED <<trap, exitTrap, disp, entry, stale, own, inside>>

PipedEnds(p) ==         \* _exit, without a pop
    /\ phase[p] = "piped"
    /\ phase' = [phase EXCEPT ![p] = "left"]
    /\ UNCHANGED <<trap, exitTrap, disp, entry, ran, stale, own, inside>>

(* A signal arrives (external); trap_handler returns at once.              *)
Signal(p, s) ==
    /\ phase[p] \in {"shell", "forked", "subshell", "piped", "program"}
    /\ disp[p][s] = "default"
    /\ phase' = [phase EXCEPT ![p] = "killed"]
    /\ UNCHANGED <<trap, exitTrap, disp, entry, ran, stale, own, inside>>

Next ==
    \E p \in Procs :
        \/ BuiltinTrap(p)
        \/ \E c \in Procs : Fork(p, c) \/ ForkPiped(p, c)
        \/ PushSubshell(p) \/ Exec(p) \/ ExitAtTop(p) \/ ExitInside(p) \/ Pop(p) \/ PipedEnds(p)
        \/ \E s \in Signals : Signal(p, s)

Spec == Init /\ [][Next]_vars

-----------------------------------------------------------------------------
(* Properties.                                                             *)

Entries == [action : Actions \cup {NoAction}, ignored : BOOLEAN, default : BOOLEAN]

(* An entry of trap_store_t is exactly one of an action, ignored, default. *)
OneKind(t) == /\ t.default <=> (t.action = NoAction /\ ~t.ignored)
              /\ t.ignored => t.action = NoAction

(* The stores keep the shape of trap_store_t.                              *)
TypeOK ==
    /\ phase \in [Procs -> Phases]
    /\ trap \in [Procs -> [Stored -> Entries]]
    /\ \A p \in Procs, s \in Stored : OneKind(trap[p][s])
    /\ exitTrap \in [Procs -> [set : BOOLEAN, action : Actions \cup {NoAction}]]
    /\ disp \in [Procs -> [Signals -> Dispositions]]
    /\ entry \subseteq Signals
    /\ ran \in [Procs -> [action : Actions \cup {NoAction}, times : Times]]
    /\ stale \in [Procs -> SUBSET Stored]
    /\ own \subseteq Procs /\ inside \subseteq Procs

Settable == Stored \ Uncatchable
Live == {p \in Procs : phase[p] \notin {"none", "exited", "left", "killed", "aborted"}}

(* What trap lists is what the system does, in the shell and in every      *)
(* process forked from it, through any mixture of trap commands and forks: *)
(* an ignored signal is ignored, one with an action is caught, and back at *)
(* its default in a program, and one that is listed as default has its     *)
(* default disposition, or is ignored if the shell was started that way    *)
(* (trap_store_set, trap_store_reset_non_ignored).  Left out are the stale *)
(* signals, which a subshell should take back to the default too.          *)
StoreIsInForce ==
    \A p \in Live, s \in Settable :
        /\ trap[p][s].ignored => disp[p][s] = "ignore"
        /\ trap[p][s].action # NoAction =>
               disp[p][s] = IF phase[p] = "program" THEN "default" ELSE "handler"
        /\ trap[p][s].default /\ s \notin stale[p] =>
               disp[p][s] = "default" \/ (disp[p][s] = "ignore" /\ s \in entry)

(* A signal for which a trap is set, or which is ignored, never ends a     *)
(* process that runs the user's commands.                                  *)
TrappedSignalIsSurvived ==
    [][\A p \in Procs, s \in Settable : Signal(p, s) /\ Runs(p) => trap[p][s].default]_vars

(* What the user chose to ignore stays ignored in every later subshell and *)
(* program, unless one of them changes it (init_traps).                    *)
IgnoredIsInherited ==
    [][\A p, c \in Procs, s \in Settable :
          /\ trap[p][s].ignored
          /\ \/ phase[c] = "none" /\ (Fork(p, c) \/ ForkPiped(p, c))
             \/ c = p /\ (PushSubshell(p) \/ Exec(p))
          => trap'[c][s].ignored /\ disp'[c][s] = "ignore"]_vars

(* A process that ends on its own and set an EXIT trap itself has run that *)
(* very action, and has run it once, however it was set and whether exit   *)
(* or the end of its input ended it (builtin_exit, exec_frame_pop).  Left  *)
(* out are processes that only inherited the trap, which the code runs and *)
(* the documents say is reset, and those that called exit where it does    *)
(* not end them: the trap runs there and then again.                       *)
ExitTrapRan ==
    \A p \in own \ inside :
        phase[p] = "exited" /\ exitTrap[p].action # NoAction =>
            ran[p] = [action |-> exitTrap[p].action, times |-> 1]

(* No process catches a signal that cannot be caught or has no place in    *)
(* the store, and an EXIT trap that was never set has no action            *)
(* (trap_store_set_exit): what frame_run_exit_traps and exec_frame_pop     *)
(* look at then agree.                                                     *)
NothingElseIsSet ==
    \A p \in Procs :
        /\ \A s \in Uncatchable \cup Unstored : disp[p][s] # "handler"
        /\ ~exitTrap[p].set => exitTrap[p].action = NoAction

(* The store and the dispositions keep their shape and agree, in every     *)
(* process (trap_store_set, trap_store_reset_non_ignored).                 *)
TrapsSound == TypeOK /\ StoreIsInForce /\ NothingElseIsSet

(* The shell survives a signal with an action and an ignored one, and what *)
(* it forks and runs inherits the ignored ones.  Nothing is said of how    *)
(* subshells treat signals with an action: the code leaves them caught     *)
(* (init_traps).                                                           *)
SignalsAsTrapped == TrappedSignalIsSurvived /\ IgnoredIsInherited

=============================================================================
