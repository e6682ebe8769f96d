------------------------------ MODULE Pipeline ------------------------------
(***************************************************************************)
(* One pipeline, command 1 | ... | command n: exec_in_frame for            *)
(* EXEC_FRAME_PIPELINE, that is execute_frame_body and                     *)
(* exec_frame_execute_pipeline_orchestrate (src/src/exec_frame.c).         *)
(*                                                                         *)
(* The shell makes the pipes, forks a child for each command, closes the   *)
(* ends it no longer needs as it goes, and waits.  The children run at the *)
(* same time.  A process is its table of file descriptors; a pipe is how   *)
(* full it is, and a read of an empty pipe ends when no process holds the  *)
(* write end.  Descriptors are numbers because pipe() returns the lowest   *)
(* that are free, and what dup2 and close then do depends on which.        *)
(***************************************************************************)
EXTENDS Integers, FiniteSets

CONSTANTS
    MaxCmds,    \* bound: how many commands the pipeline has
    Fds,        \* file descriptors of a process
    Capacity,   \* bound: how many items a pipe holds
    Items,      \* bound: how many items a command writes
    Codes       \* what a command may exit with

ASSUME PipelineAssumption ==
    /\ MaxCmds \in Nat \ {0}
    /\ Fds \subseteq Nat /\ {0, 1} \subseteq Fds
    /\ Capacity \in Nat \ {0}
    /\ Items \in Nat
    /\ Codes \subseteq 0..255 /\ 0 \in Codes

Stdin == 0
Stdout == 1
Closed == -1        \* an entry of pipes[] that was closed
SigPipe == 141      \* 128 + SIGPIPE
SigTerm == 143      \* 128 + SIGTERM

Cmds  == 1..MaxCmds
Pipes == 1..(MaxCmds - 1)       \* pipe k leads from command k to command k + 1

VARIABLES
    n,              \* ncmds
    negated,        \* is_negated
    survives_term,  \* TERM does not end the children: trap '' TERM, or a handler
    shell,          \* the shell's file descriptors
    pipes,          \* pipes[]: the descriptors of both ends of each pipe
    pc,             \* where exec_in_frame is
    i,              \* the command the loop is at
    child,          \* the children
    buf,            \* how many items each pipe holds
    result          \* result of the frame

vars == <<n, negated, survives_term, shell, pipes, pc, i, child, buf, result>>
input == <<n, negated, survives_term>>

\* What a descriptor refers to.
Nothing     == [kind |-> "nothing", pipe |-> 0]
File        == [kind |-> "file", pipe |-> 0]
ReadEnd(k)  == [kind |-> "read", pipe |-> k]
WriteEnd(k) == [kind |-> "write", pipe |-> k]
OpenFiles   == {Nothing, File} \cup {ReadEnd(k) : k \in Pipes} \cup {WriteEnd(k) : k \in Pipes}

FdTable == [Fds -> OpenFiles]
PipeFds == [r : Fds \cup {Closed}, w : Fds \cup {Closed}]
NoPipe  == [r |-> Closed, w |-> Closed]

\* A child.  status: what its command came to; code: what waitpid reports.
NoChild == [st |-> "none", fds |-> [f \in Fds |-> Nothing], pipes |-> [k \in Pipes |-> NoPipe],
            in_group |-> FALSE, left |-> Items, status |-> 0, code |-> 0, told |-> FALSE]

Init ==
    /\ n \in Cmds
    /\ negated \in BOOLEAN
    /\ n = 1 => negated     \* the parser makes no pipeline of one command without !
    /\ survives_term \in BOOLEAN
    \* stdin may be closed: every frame before this one did that (EnterFrame).
    /\ shell \in {t \in [Fds -> {Nothing, File}] :
                     /\ t[Stdout] = File
                     /\ \A f \in Fds \ {Stdin, Stdout} : t[f] = Nothing}
    /\ pipes = [k \in Pipes |-> NoPipe]
    /\ pc = "enter" /\ i = 1
    /\ child = [c \in Cmds |-> NoChild]
    /\ buf = [k \in Pipes |-> 0]
    /\ result = [ok |-> TRUE, exit_status |-> 0]

-----------------------------------------------------------------------------
(* File descriptors.                                                       *)

Dup2(fds, from, to) ==
    IF fds[from] = Nothing THEN fds ELSE [fds EXCEPT ![to] = fds[from]]

\* close of each descriptor in F; Closed among them is EBADF.
Close(fds, F) == [f \in Fds |-> IF f \in F THEN Nothing ELSE fds[f]]

Ends(p) == {p[k].r : k \in Pipes} \cup {p[k].w : k \in Pipes}

IsLowest(f, F) == f \in F /\ \A g \in F : f <= g

Holds(fds, e) == \E f \in Fds : fds[f] = e

Alive(c) == child[c].st \in {"forked", "running"}

HasReader(k) == Holds(shell, ReadEnd(k)) \/ \E c \in Cmds : Alive(c) /\ Holds(child[c].fds, ReadEnd(k))
HasWriter(k) == Holds(shell, WriteEnd(k)) \/ \E c \in Cmds : Alive(c) /\ Holds(child[c].fds, WriteEnd(k))

-----------------------------------------------------------------------------
(* The shell.                                                              *)

\* execute_frame_body: pipeline_group leaves stdin_pipe_fd and stdout_pipe_fd at zero,
\* so both are "set" and both are descriptor 0.
EnterFrame ==
    /\ pc = "enter"
    /\ LET in  == Close(Dup2(shell, 0, Stdin), {0})
           out == Close(Dup2(in, 0, Stdout), {0})
       IN  shell' = out
    /\ pc' = IF n = 1 THEN "alone" ELSE "pipe"
    /\ UNCHANGED <<input, pipes, i, child, buf, result>>

Not(status) == IF status = 0 THEN 1 ELSE 0

\* What exec_frame_execute_dispatch returned for a command that came to `status`: only
\* some commands pass it on (told is has_exit_status), a simple command does not.
Dispatched(status, told) ==
    IF ~told THEN 0 ELSE IF negated THEN Not(status) ELSE status

\* A single command runs in the shell itself.
RunAlone(status, told) ==
    /\ pc = "alone"
    /\ child' = [child EXCEPT ![1].status = status, ![1].told = told]
    /\ result' = [ok |-> TRUE, exit_status |-> Dispatched(status, told)]
    /\ pc' = "done"
    /\ UNCHANGED <<input, shell, pipes, i, buf>>

MakePipe ==
    /\ pc = "pipe"
    /\ \E r, w \in Fds :
          /\ IsLowest(r, {f \in Fds : shell[f] = Nothing})
          /\ IsLowest(w, {f \in Fds : shell[f] = Nothing} \ {r})
          /\ shell' = [shell EXCEPT ![r] = ReadEnd(i), ![w] = WriteEnd(i)]
          /\ pipes' = [pipes EXCEPT ![i] = [r |-> r, w |-> w]]
    /\ IF i = n - 1 THEN pc' = "fork" /\ i' = 1 ELSE i' = i + 1 /\ UNCHANGED pc
    /\ UNCHANGED <<input, child, buf, result>>

Fail == result' = [ok |-> FALSE, exit_status |-> 1]

MakePipeFails ==
    /\ pc = "pipe"
    /\ Fail
    /\ pc' = "cleanup"
    /\ UNCHANGED <<input, shell, pipes, i, child, buf>>

Fork ==
    /\ pc = "fork"
    /\ child' = [child EXCEPT ![i].st = "forked", ![i].fds = shell, ![i].pipes = pipes]
    /\ pc' = "parent"
    /\ UNCHANGED <<input, shell, pipes, i, buf, result>>

\* kill(SIGTERM) for every child, then a wait for each of them.
ForkFails ==
    /\ pc = "fork"
    /\ child' = [c \in Cmds |->
                    IF Alive(c) /\ ~survives_term
                    THEN [child[c] EXCEPT !.st = "zombie", !.code = SigTerm]
                    ELSE child[c]]
    /\ Fail
    /\ pc' = "discard"
    /\ UNCHANGED <<input, shell, pipes, i, buf>>

\* Mutants of Unneeded: one of the two is forgotten, though marked as closed.
UnneededWrite(c) == {pipes[k].w : k \in {c} \cap Pipes}
UnneededRead(c)  == {pipes[k].r : k \in {c - 1} \cap Pipes}

\* The ends the shell still has that only command c's child needed: the write end of the
\* pipe after it and the read end of the pipe before it.
Unneeded(c) ==
    {pipes[k].w : k \in {c} \cap Pipes} \cup {pipes[k].r : k \in {c - 1} \cap Pipes}

\* The parent after fork: setpgid, and the eager close.
AfterFork ==
    /\ pc = "parent"
    /\ child' = [child EXCEPT ![i].in_group = TRUE]
    /\ shell' = Close(shell, Unneeded(i))
    /\ pipes' = [k \in Pipes |-> [r |-> IF k = i - 1 THEN Closed ELSE pipes[k].r,
                                  w |-> IF k = i THEN Closed ELSE pipes[k].w]]
    /\ IF i = n THEN pc' = "close" /\ i' = 1 ELSE pc' = "fork" /\ i' = i + 1
    /\ UNCHANGED <<input, buf, result>>

CloseAll ==
    /\ shell' = Close(shell, Ends(pipes))
    /\ pipes' = [k \in Pipes |-> NoPipe]

CloseRemaining ==
    /\ pc = "close"
    /\ CloseAll
    /\ pc' = "wait"
    /\ UNCHANGED <<input, i, child, buf, result>>

\* waitpid for each child in turn; nothing else in the shell collects one meanwhile.
Wait ==
    /\ pc = "wait"
    /\ child[i].st = "zombie"
    /\ child' = [child EXCEPT ![i].st = "collected"]
    /\ IF i = n
       THEN /\ result' = [ok |-> TRUE, exit_status |-> IF negated THEN Not(child[i].code)
                                                       ELSE child[i].code]
            /\ pc' = "cleanup" /\ UNCHANGED i
       ELSE i' = i + 1 /\ UNCHANGED <<pc, result>>
    /\ UNCHANGED <<input, shell, pipes, buf>>

\* The waits after a failed fork, in any order: their results are discarded.
Discard ==
    /\ pc = "discard"
    /\ \E c \in Cmds : child[c].st = "zombie" /\ child' = [child EXCEPT ![c].st = "collected"]
    /\ UNCHANGED <<input, shell, pipes, pc, i, buf, result>>

Discarded ==
    /\ pc = "discard"
    /\ \A c \in Cmds : child[c].st \in {"none", "collected"}
    /\ pc' = "cleanup"
    /\ UNCHANGED <<input, shell, pipes, i, child, buf, result>>

Cleanup ==
    /\ pc = "cleanup"
    /\ CloseAll
    /\ pc' = "done"
    /\ UNCHANGED <<input, i, child, buf, result>>

Shell ==
    \/ EnterFrame
    \/ \E status \in Codes, told \in BOOLEAN : RunAlone(status, told)
    \/ MakePipe
    \/ MakePipeFails
    \/ Fork
    \/ ForkFails
    \/ AfterFork
    \/ CloseRemaining
    \/ Wait
    \/ Discard
    \/ Discarded
    \/ Cleanup

-----------------------------------------------------------------------------
(* The children.                                                           *)

shellvars == <<n, negated, survives_term, shell, pipes, pc, i, result>>

\* Mutants of Plumbed: the child keeps its copies, or closes them too early.
PlumbedUnclosed(c) ==
    LET p  == child[c].pipes
        in == IF c > 1 THEN Dup2(child[c].fds, p[c - 1].r, Stdin) ELSE child[c].fds
    IN  IF c < n THEN Dup2(in, p[c].w, Stdout) ELSE in

\* dup2 of the ends command c is to use, then close of everything in its copy of pipes[].
Plumbed(c) ==
    LET p   == child[c].pipes
        in  == IF c > 1 THEN Dup2(child[c].fds, p[c - 1].r, Stdin) ELSE child[c].fds
        out == IF c < n THEN Dup2(in, p[c].w, Stdout) ELSE in
    IN  Close(out, Ends(p))

ChildStart(c) ==
    /\ child[c].st = "forked"
    /\ child' = [child EXCEPT ![c].st = "running", ![c].in_group = TRUE,
                              ![c].fds = Plumbed(c)]
    /\ UNCHANGED <<shellvars, buf>>

Running(c) == child[c].st = "running"

ReadItem(c) ==
    /\ Running(c)
    /\ \E k \in Pipes :
          /\ child[c].fds[Stdin] = ReadEnd(k)
          /\ buf[k] > 0
          /\ buf' = [buf EXCEPT ![k] = @ - 1]
    /\ UNCHANGED <<shellvars, child>>

WriteItem(c) ==
    /\ Running(c)
    /\ child[c].left > 0
    /\ \E k \in Pipes :
          /\ child[c].fds[Stdout] = WriteEnd(k)
          /\ IF HasReader(k)
             THEN /\ buf[k] < Capacity
                  /\ buf' = [buf EXCEPT ![k] = @ + 1]
                  /\ child' = [child EXCEPT ![c].left = @ - 1]
             ELSE /\ child' = [child EXCEPT ![c].st = "zombie", ![c].status = SigPipe,
                                            ![c].told = TRUE, ![c].code = SigPipe]
                  /\ UNCHANGED buf
    /\ UNCHANGED shellvars

\* The command ends, having read everything or not, and the child calls _exit.
Finish(c, status, told) ==
    /\ Running(c)
    /\ child' = [child EXCEPT ![c].st = "zombie", ![c].status = status, ![c].told = told,
                              ![c].code = Dispatched(status, told)]
    /\ UNCHANGED <<shellvars, buf>>

\* A command ends of itself when it has no more to read and no more to write.
AtEof(c) ==
    \A k \in Pipes : child[c].fds[Stdin] = ReadEnd(k) => buf[k] = 0 /\ ~HasWriter(k)

NoMoreToWrite(c) ==
    \/ child[c].left = 0
    \/ \A k \in Pipes : child[c].fds[Stdout] # WriteEnd(k)

MustFinish(c) ==
    /\ AtEof(c) /\ NoMoreToWrite(c)
    /\ \E status \in Codes, told \in BOOLEAN : Finish(c, status, told)

Next ==
    \/ Shell
    \/ \E c \in Cmds :
          \/ ChildStart(c)
          \/ ReadItem(c)
          \/ WriteItem(c)
          \/ \E status \in Codes, told \in BOOLEAN : Finish(c, status, told)

\* The shell goes on when it can, and so does each child: one that is at the end of its
\* input and has written everything exits.  A command may exit earlier, but need not.
Fairness ==
    /\ WF_vars(Shell)
    /\ \A c \in Cmds : WF_vars(ChildStart(c) \/ ReadItem(c) \/ WriteItem(c) \/ MustFinish(c))

Spec == Init /\ [][Next]_vars /\ Fairness

-----------------------------------------------------------------------------
(* Properties.                                                             *)

Child == [st : {"none", "forked", "running", "zombie", "collected"},
          fds : FdTable, pipes : [Pipes -> PipeFds], in_group : BOOLEAN, left : 0..Items,
          status : Codes \cup {SigPipe}, code : Codes \cup {1, SigPipe, SigTerm}, told : BOOLEAN]

\* The state has the shape of the program's.
TypeOK ==
    /\ n \in Cmds /\ negated \in BOOLEAN /\ survives_term \in BOOLEAN
    /\ shell \in FdTable
    /\ pipes \in [Pipes -> PipeFds]
    /\ pc \in {"enter", "alone", "pipe", "fork", "parent", "close", "wait", "discard",
               "cleanup", "done"}
    /\ i \in Cmds
    /\ child \in [Cmds -> Child]
    /\ buf \in [Pipes -> 0..Capacity]
    /\ result \in [ok : BOOLEAN, exit_status : Codes \cup {1, SigPipe}]

\* However the frame ends, also when pipe() or fork() failed half way, the shell keeps no
\* end of a pipe and leaves no child behind.
LeavesNothing ==
    pc = "done" =>
        /\ \A f \in Fds : shell[f] \in {Nothing, File}
        /\ \A c \in Cmds : child[c].st \in {"none", "collected"}

\* A command runs with no pipe end but those on its stdin and stdout, and these are the
\* neighbouring pipes': none that would keep its own reader or writer from ending.
OnlyOwnEnds ==
    \A c \in Cmds, f \in Fds : Running(c) /\ child[c].fds[f] \notin {Nothing, File} =>
        \/ f = Stdin /\ child[c].fds[f] = ReadEnd(c - 1)
        \/ f = Stdout /\ child[c].fds[f] = WriteEnd(c)

\* Every command but the last writes into its pipe, whichever descriptors pipe() gave.
OutputConnected ==
    \A c \in Cmds : Running(c) /\ c < n => child[c].fds[Stdout] = WriteEnd(c)

\* Every command from the third on reads from the pipe before it.  The second is left out:
\* its standard input is closed, because the read end of the first pipe is descriptor 0,
\* which is closed as an end after it was plumbed (EnterFrame, Plumbed).
InputConnected ==
    \A c \in Cmds : Running(c) /\ c > 2 => child[c].fds[Stdin] = ReadEnd(c - 1)

\* Of commands that pass their status on, and without !, the last decides, in whatever
\* order they end and whichever was killed by SIGPIPE.
LastDecides ==
    pc = "done" /\ result.ok /\ ~negated /\ child[n].told
        => result.exit_status = child[n].status

\* A pipeline ends: no command waits for ever for the end of its input or for room in its
\* output.  Not so after a failed fork when SIGTERM does not end the children: the shell
\* then waits for a child that writes into a pipe whose only reader is the shell.
PipelineEnds == <>(pc = "done" \/ (pc = "discard" /\ survives_term))

-----------------------------------------------------------------------------
(* The properties as the runs check them.                                  *)

\* Each command of a pipeline has on its standard output the pipe after it, from the third
\* on each has on its standard input the pipe before it, and none has any other
\* end (execute_frame_body, exec_frame_execute_pipeline_orchestrate).
EndsAreRight == TypeOK /\ OnlyOwnEnds /\ OutputConnected /\ InputConnected

\* When a pipeline is over, nothing of it is left, and its status is the last
\* command's (exec_frame_execute_pipeline_group and its cleanup).
OverAndSettled == LeavesNothing /\ LastDecides

=============================================================================
