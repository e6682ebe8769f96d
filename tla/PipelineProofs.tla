--------------------------- MODULE PipelineProofs ---------------------------
(***************************************************************************)
(* The safety properties of Pipeline, for any number of commands, any      *)
(* descriptors, any capacity of a pipe and any amount that is written.     *)
(***************************************************************************)
EXTENDS Pipeline, TLAPS

-----------------------------------------------------------------------------
(* The inductive invariant.                                                *)

\* pipes[] of a process says where its ends are: one descriptor for each open end, never
\* stdout, which was in use when the pipes were made, and stdin for a read end at most.
Matches(fds, p) ==
    /\ fds[Stdout] = File
    /\ \A f \in Fds \ {Stdin, Stdout} : fds[f] # File
    /\ \A k \in Pipes : /\ p[k].r # Closed => fds[p[k].r] = ReadEnd(k)
                        /\ p[k].w # Closed => fds[p[k].w] = WriteEnd(k)
    /\ \A f \in Fds, k \in Pipes : /\ fds[f] = ReadEnd(k) => p[k].r = f
                                   /\ fds[f] = WriteEnd(k) => p[k].w = f /\ f # Stdin

\* The ends that are open where the shell is.  A single command has none.
ShellPipes ==
    /\ Matches(shell, pipes)
    /\ pc # "enter" => shell[Stdin] # File
    /\ pc \in {"enter", "alone"} => pipes = [k \in Pipes |-> NoPipe]
    /\ pc = "enter" => i = 1
    /\ pc = "alone" => n = 1
    /\ pc = "pipe" => i < n
    /\ pc = "pipe" => \A k \in Pipes : k < i => pipes[k].r # Closed /\ pipes[k].w # Closed
    /\ pc = "pipe" => \A k \in Pipes : k >= i => pipes[k] = NoPipe
    /\ pc \in {"fork", "parent"} => i <= n
    /\ pc \in {"fork", "parent"} => \A k \in Pipes : i <= k /\ k < n => pipes[k].w # Closed
    /\ pc \in {"fork", "parent"} => \A k \in Pipes : i <= k + 1 /\ k < n => pipes[k].r # Closed

\* A child has the ends its command needs, before and after it moved them into place.
ChildEnds ==
    \A c \in Cmds :
        /\ child[c].st = "forked" =>
              /\ Matches(child[c].fds, child[c].pipes) /\ child[c].fds[Stdin] # File
              /\ c < n => child[c].pipes[c].w # Closed
              /\ c > 1 => child[c].pipes[c - 1].r # Closed
        /\ child[c].st \in {"forked", "running"} => c <= n

\* Which children there are where the shell is.
ChildrenSoFar ==
    /\ pc \in {"enter", "alone", "pipe"} => \A c \in Cmds : child[c].st = "none"
    /\ pc = "fork" => \A c \in Cmds : child[c].st = "none" <=> c >= i
    /\ pc = "parent" => \A c \in Cmds : child[c].st = "none" <=> c > i
    /\ pc = "close" => i = 1 /\ \A c \in Cmds : child[c].st = "none" <=> c > n
    /\ pc = "wait" => \A c \in Cmds : child[c].st = "none" <=> c > n
    /\ pc \in {"fork", "parent", "close"} => \A c \in Cmds : child[c].st # "collected"
    /\ pc = "wait" => i <= n /\ \A c \in Cmds : child[c].st = "collected" <=> c < i
    /\ pc \in {"cleanup", "done"} => \A c \in Cmds : child[c].st \in {"none", "collected"}

\* What waitpid reports is what the command came to, unless it was killed after a fork failed.
StatusSoFar ==
    /\ pc \in {"enter", "pipe", "fork", "parent", "close", "wait"} => \A c \in Cmds :
          /\ child[c].code \in Codes \cup {1, SigPipe}
          /\ child[c].st \in {"zombie", "collected"} /\ child[c].told /\ ~negated =>
                child[c].code = child[c].status
    /\ pc = "discard" => ~result.ok
    /\ pc \in {"cleanup", "done"} /\ result.ok /\ ~negated /\ child[n].told =>
          result.exit_status = child[n].status

NothingOpen == pc = "done" => \A f \in Fds : shell[f] \in {Nothing, File}

IInv ==
    /\ TypeOK /\ OnlyOwnEnds /\ OutputConnected
    /\ ShellPipes /\ ChildEnds /\ ChildrenSoFar /\ StatusSoFar /\ NothingOpen

-----------------------------------------------------------------------------
(* Descriptors.                                                            *)

LEMMA FdsAreNat == Fds \subseteq Nat /\ Closed \notin Fds /\ Stdin \in Fds /\ Stdout \in Fds
BY PipelineAssumption DEF Closed, Stdin, Stdout

LEMMA EndsDiffer ==
    /\ \A k, j : /\ ReadEnd(k) # WriteEnd(j)
                 /\ ReadEnd(k) = ReadEnd(j) <=> k = j
                 /\ WriteEnd(k) = WriteEnd(j) <=> k = j
    /\ \A k : ReadEnd(k) \notin {Nothing, File} /\ WriteEnd(k) \notin {Nothing, File}
    /\ Nothing # File
    /\ \A k \in Pipes : ReadEnd(k) \in OpenFiles /\ WriteEnd(k) \in OpenFiles
    /\ \A e \in OpenFiles : \/ e = Nothing \/ e = File
                            \/ \E k \in Pipes : e = ReadEnd(k) \/ e = WriteEnd(k)
BY DEF ReadEnd, WriteEnd, Nothing, File, OpenFiles

\* close keeps pipes[] right if it forgets just the descriptors that it closes.
LEMMA Closing ==
    ASSUME NEW fds \in FdTable, NEW p \in [Pipes -> PipeFds], Matches(fds, p),
           NEW F, Stdout \notin F, NEW q \in [Pipes -> PipeFds],
           \A k \in Pipes : /\ q[k].r = IF p[k].r \in F THEN Closed ELSE p[k].r
                            /\ q[k].w = IF p[k].w \in F THEN Closed ELSE p[k].w
    PROVE  /\ Close(fds, F) \in FdTable /\ Matches(Close(fds, F), q)
           /\ fds[Stdin] # File => Close(fds, F)[Stdin] # File
<1>1. \A f \in Fds : Close(fds, F)[f] = IF f \in F THEN Nothing ELSE fds[f]
  BY DEF Close
<1>2. Close(fds, F) \in FdTable
  BY EndsDiffer DEF Close, FdTable, OpenFiles
<1>3. \A k \in Pipes : /\ p[k].r # Closed => p[k].r \in Fds /\ fds[p[k].r] = ReadEnd(k)
                       /\ p[k].w # Closed => p[k].w \in Fds /\ fds[p[k].w] = WriteEnd(k)
  BY DEF Matches, PipeFds
<1>4. \A k \in Pipes : /\ q[k].r # Closed => Close(fds, F)[q[k].r] = ReadEnd(k)
                       /\ q[k].w # Closed => Close(fds, F)[q[k].w] = WriteEnd(k)
  BY <1>1, <1>3
<1>5. \A f \in Fds, k \in Pipes : /\ Close(fds, F)[f] = ReadEnd(k) => q[k].r = f
                                  /\ Close(fds, F)[f] = WriteEnd(k) => q[k].w = f /\ f # Stdin
  BY <1>1, EndsDiffer DEF Matches
<1>6. Close(fds, F)[Stdout] = File
  BY <1>1, FdsAreNat DEF Matches
<1>7. /\ \A f \in Fds \ {Stdin, Stdout} : Close(fds, F)[f] # File
      /\ fds[Stdin] # File => Close(fds, F)[Stdin] # File
  BY <1>1, EndsDiffer, FdsAreNat DEF Matches
<1> QED
  BY <1>2, <1>4, <1>5, <1>6, <1>7 DEF Matches

\* No end is at stdout.
LEMMA EndsNotAtStdout ==
    ASSUME NEW fds \in FdTable, NEW p \in [Pipes -> PipeFds], Matches(fds, p)
    PROVE  /\ Stdout \notin Ends(p)
           /\ \A k \in Pipes : p[k].r # Stdout /\ p[k].w # Stdout /\ p[k].w # Stdin
<1> SUFFICES ASSUME NEW k \in Pipes
             PROVE  p[k].r # Stdout /\ p[k].w # Stdout /\ p[k].w # Stdin
  BY DEF Ends
<1>1. Stdout # Closed /\ Stdin # Closed
  BY DEF Stdout, Stdin, Closed
<1>2. p[k].r # Closed => fds[p[k].r] = ReadEnd(k)
  BY DEF Matches
<1>3. p[k].w # Closed => fds[p[k].w] = WriteEnd(k)
  BY DEF Matches
<1>4. fds[Stdout] = File /\ (fds[Stdin] = WriteEnd(k) => Stdin # Stdin)
  BY FdsAreNat DEF Matches
<1> QED
  BY <1>1, <1>2, <1>3, <1>4, EndsDiffer

\* Closing all of pipes[] leaves no end.
LEMMA ClosingAll ==
    ASSUME NEW fds \in FdTable, NEW p \in [Pipes -> PipeFds], Matches(fds, p)
    PROVE  /\ Close(fds, Ends(p)) \in FdTable
           /\ [k \in Pipes |-> NoPipe] \in [Pipes -> PipeFds]
           /\ Matches(Close(fds, Ends(p)), [k \in Pipes |-> NoPipe])
           /\ \A f \in Fds : Close(fds, Ends(p))[f] \in {Nothing, File}
           /\ fds[Stdin] # File => Close(fds, Ends(p))[Stdin] # File
<1> DEFINE q == [k \in Pipes |-> NoPipe]
<1>1. q \in [Pipes -> PipeFds]
  BY DEF NoPipe, PipeFds
<1>2. \A k \in Pipes : /\ q[k].r = IF p[k].r \in Ends(p) THEN Closed ELSE p[k].r
                       /\ q[k].w = IF p[k].w \in Ends(p) THEN Closed ELSE p[k].w
  BY DEF Ends, NoPipe
<1>3. /\ Close(fds, Ends(p)) \in FdTable /\ Matches(Close(fds, Ends(p)), q)
      /\ fds[Stdin] # File => Close(fds, Ends(p))[Stdin] # File
  <2> HIDE DEF q
  <2> QED
    BY <1>1, <1>2, Closing, EndsNotAtStdout
<1>4. ASSUME NEW f \in Fds PROVE Close(fds, Ends(p))[f] \in {Nothing, File}
  <2>1. fds[f] \in OpenFiles
    BY DEF FdTable
  <2>2. \A k \in Pipes : fds[f] = ReadEnd(k) \/ fds[f] = WriteEnd(k) => f \in Ends(p)
    BY DEF Matches, Ends
  <2> QED
    BY <2>1, <2>2, EndsDiffer DEF Close
<1> QED
  BY <1>1, <1>3, <1>4

\* What a child is left with before it runs its command.
LEMMA PlumbedEnds ==
    ASSUME TypeOK, NEW c \in Cmds, c <= n,
           Matches(child[c].fds, child[c].pipes), child[c].fds[Stdin] # File,
           c < n => child[c].pipes[c].w # Closed,
           c > 1 => child[c].pipes[c - 1].r # Closed
    PROVE  /\ Plumbed(c) \in FdTable
           /\ c < n => Plumbed(c)[Stdout] = WriteEnd(c)
           /\ \A f \in Fds : Plumbed(c)[f] \notin {Nothing, File} =>
                 \/ f = Stdin /\ Plumbed(c)[f] = ReadEnd(c - 1)
                 \/ f = Stdout /\ Plumbed(c)[f] = WriteEnd(c)
<1> DEFINE fds == child[c].fds
           p   == child[c].pipes
           in  == IF c > 1 THEN Dup2(fds, p[c - 1].r, Stdin) ELSE fds
           out == IF c < n THEN Dup2(in, p[c].w, Stdout) ELSE in
<1>1. /\ fds \in FdTable /\ p \in [Pipes -> PipeFds] /\ n \in Nat /\ c \in Nat
      /\ c < n => c \in Pipes
      /\ c > 1 => c - 1 \in Pipes
  BY PipelineAssumption DEF TypeOK, Child, Cmds, Pipes
<1>2. Matches(fds, p) /\ fds[Stdin] # File
  OBVIOUS
<1>3. /\ Stdout \notin Ends(p)
      /\ \A k \in Pipes : p[k].r # Stdout /\ p[k].w # Stdout /\ p[k].w # Stdin
  BY <1>1, <1>2, EndsNotAtStdout
<1>4. Plumbed(c) = Close(out, Ends(p))
  BY DEF Plumbed
<1>5. /\ in \in FdTable /\ \A f \in Fds \ {Stdin} : in[f] = fds[f]
      /\ in[Stdin] = fds[Stdin] \/ (c > 1 /\ in[Stdin] = ReadEnd(c - 1))
  <2>1. CASE c > 1
    <3>1. p[c - 1].r \in Fds /\ fds[p[c - 1].r] = ReadEnd(c - 1)
      BY <1>1, <1>2, <2>1 DEF Matches, PipeFds
    <3>2. in = [fds EXCEPT ![Stdin] = ReadEnd(c - 1)]
      BY <2>1, <3>1, EndsDiffer DEF Dup2
    <3> HIDE DEF in, fds, p
    <3> QED
      BY <1>1, <2>1, <3>2, EndsDiffer, FdsAreNat DEF FdTable
  <2>2. CASE ~(c > 1)
    BY <1>1, <2>2
  <2> QED
    BY <2>1, <2>2
<1>6. /\ out \in FdTable /\ \A f \in Fds \ {Stdout} : out[f] = in[f]
      /\ c < n => out[Stdout] = WriteEnd(c)
      /\ ~(c < n) => out[Stdout] = in[Stdout]
  <2>1. CASE c < n
    <3>1. p[c].w \in Fds /\ fds[p[c].w] = WriteEnd(c) /\ p[c].w # Stdin
      BY <1>1, <1>2, <1>3, <2>1 DEF Matches, PipeFds
    <3>2. in[p[c].w] = WriteEnd(c)
      BY <1>5, <3>1
    <3> HIDE DEF in, fds, p
    <3>3. out = [in EXCEPT ![Stdout] = WriteEnd(c)]
      BY <2>1, <3>2, EndsDiffer DEF Dup2
    <3> HIDE DEF out
    <3> QED
      BY <1>1, <1>5, <2>1, <3>3, EndsDiffer, FdsAreNat DEF FdTable
  <2>2. CASE ~(c < n)
    BY <1>5, <2>2
  <2> QED
    BY <2>1, <2>2
<1> HIDE DEF in, out, fds, p
<1>7. \A f \in Fds : Plumbed(c)[f] = IF f \in Ends(p) THEN Nothing ELSE out[f]
  BY <1>4 DEF Close
<1>8. Plumbed(c) \in FdTable
  BY <1>4, <1>6, EndsDiffer DEF Close, FdTable, OpenFiles
<1>9. c < n => Plumbed(c)[Stdout] = WriteEnd(c)
  BY <1>3, <1>6, <1>7, FdsAreNat
<1>10. ASSUME NEW f \in Fds, Plumbed(c)[f] \notin {Nothing, File}
       PROVE  \/ f = Stdin /\ Plumbed(c)[f] = ReadEnd(c - 1)
              \/ f = Stdout /\ Plumbed(c)[f] = WriteEnd(c)
  <2>1. f \notin Ends(p) /\ Plumbed(c)[f] = out[f]
    BY <1>7, <1>10
  <2>2. fds[f] \in {Nothing, File}
    <3>1. \A k \in Pipes : fds[f] # ReadEnd(k) /\ fds[f] # WriteEnd(k)
      BY <1>2, <2>1 DEF Matches, Ends
    <3>2. fds[f] \in OpenFiles
      BY <1>1 DEF FdTable
    <3> QED
      BY <3>1, <3>2, EndsDiffer
  <2>3. CASE f = Stdout
    BY <1>5, <1>6, <1>10, <2>1, <2>2, <2>3 DEF Stdin, Stdout
  <2>4. CASE f = Stdin
    BY <1>2, <1>5, <1>6, <1>10, <2>1, <2>2, <2>4 DEF Stdin, Stdout
  <2>5. CASE f \notin {Stdin, Stdout}
    BY <1>5, <1>6, <1>10, <2>1, <2>2, <2>5
  <2> QED
    BY <2>3, <2>4, <2>5
<1> QED
  BY <1>8, <1>9, <1>10

-----------------------------------------------------------------------------
(* The initial states, and the children.                                   *)

LEMMA InitPipeline == Init => IInv
<1> SUFFICES ASSUME Init PROVE IInv
  OBVIOUS
<1>1. NoChild \in Child /\ NoChild.st = "none" /\ NoChild.code \in Codes
  <2>1. [f \in Fds |-> Nothing] \in FdTable
    BY EndsDiffer DEF FdTable, OpenFiles
  <2>2. NoPipe \in PipeFds
    BY DEF NoPipe, PipeFds
  <2>3. 0 \in Codes /\ Items \in 0..Items
    BY PipelineAssumption
  <2> QED
    BY <2>1, <2>2, <2>3 DEF NoChild, Child
<1>2. \A c \in Cmds : child[c] = NoChild
  BY DEF Init
<1>3. TypeOK
  <2>1. pipes \in [Pipes -> PipeFds]
    BY DEF Init, NoPipe, PipeFds
  <2>2. buf \in [Pipes -> 0..Capacity] /\ result \in [ok : BOOLEAN, exit_status : Codes \cup {1, SigPipe}]
    BY PipelineAssumption DEF Init
  <2>3. shell \in FdTable
    BY EndsDiffer DEF Init, FdTable, OpenFiles
  <2>4. child \in [Cmds -> Child]
    BY <1>1 DEF Init
  <2>5. i \in Cmds
    BY PipelineAssumption DEF Init, Cmds
  <2> QED
    BY <2>1, <2>2, <2>3, <2>4, <2>5 DEF Init, TypeOK
<1>4. ShellPipes
  <2>1. \A f \in Fds : shell[f] \in {Nothing, File}
    BY DEF Init
  <2>2. \A k \in Pipes : pipes[k].r = Closed /\ pipes[k].w = Closed
    BY DEF Init, NoPipe
  <2>3. shell[Stdout] = File /\ \A f \in Fds \ {Stdin, Stdout} : shell[f] = Nothing
    BY DEF Init
  <2>4. Matches(shell, pipes)
    BY <2>1, <2>2, <2>3, EndsDiffer DEF Matches
  <2> QED
    BY <2>4 DEF Init, ShellPipes
<1>5. OnlyOwnEnds /\ OutputConnected /\ ChildEnds /\ ChildrenSoFar /\ StatusSoFar /\ NothingOpen
  BY <1>1, <1>2
  DEF Init, OnlyOwnEnds, OutputConnected, Running, ChildEnds, ChildrenSoFar, StatusSoFar, NothingOpen
<1> QED
  BY <1>3, <1>4, <1>5 DEF IInv

\* A step of one child that has not ended.
LEMMA ChildSteps ==
    ASSUME IInv, NEW c \in Cmds, UNCHANGED shellvars, NEW new \in Child,
           child' = [child EXCEPT ![c] = new], buf' \in [Pipes -> 0..Capacity],
           child[c].st \in {"forked", "running"}, new.st \in {"running", "zombie"},
           new.st = "running" =>
              /\ \A f \in Fds : new.fds[f] \notin {Nothing, File} =>
                    \/ f = Stdin /\ new.fds[f] = ReadEnd(c - 1)
                    \/ f = Stdout /\ new.fds[f] = WriteEnd(c)
              /\ c < n => new.fds[Stdout] = WriteEnd(c),
           new.code \in {child[c].code} \cup Codes \cup {1, SigPipe},
           new.st = "zombie" /\ new.told /\ ~negated => new.code = new.status
    PROVE  IInv'
<1>1. UNCHANGED <<n, negated, survives_term, shell, pipes, pc, i, result>>
  BY DEF shellvars
<1>2. child'[c] = new /\ \A d \in Cmds \ {c} : child'[d] = child[d]
  BY DEF IInv, TypeOK
<1>3. TypeOK'
  BY <1>1 DEF IInv, TypeOK
<1>4. c <= n /\ pc \notin {"enter", "alone", "pipe", "cleanup", "done"}
  BY DEF IInv, ChildEnds, ChildrenSoFar, TypeOK
<1>5. OnlyOwnEnds' /\ OutputConnected'
  BY <1>1, <1>2 DEF IInv, OnlyOwnEnds, OutputConnected, Running
<1>6. ShellPipes' /\ NothingOpen'
  BY <1>1 DEF IInv, ShellPipes, NothingOpen
<1>7. ChildEnds'
  BY <1>1, <1>2, <1>4 DEF IInv, ChildEnds
<1>8. ChildrenSoFar'
  BY <1>1, <1>2, <1>4 DEF IInv, ChildrenSoFar
<1>9. StatusSoFar'
  BY <1>1, <1>2, <1>4 DEF IInv, StatusSoFar
<1> QED
  BY <1>3, <1>5, <1>6, <1>7, <1>8, <1>9 DEF IInv

LEMMA ChildStartKeeps ==
    ASSUME IInv, NEW c \in Cmds, ChildStart(c)
    PROVE  IInv'
<1>1. PICK new \in Child :
         /\ child' = [child EXCEPT ![c] = new] /\ new.st = "running"
         /\ new.fds = Plumbed(c) /\ new.code = child[c].code
  <2>1. Plumbed(c) \in FdTable /\ child[c] \in Child
    BY PlumbedEnds DEF ChildStart, IInv, ChildEnds, TypeOK
  <2>2. [child[c] EXCEPT !.st = "running", !.in_group = TRUE, !.fds = Plumbed(c)] \in Child
    BY <2>1 DEF Child
  <2>3. child' = [child EXCEPT ![c] = [child[c] EXCEPT !.st = "running", !.in_group = TRUE,
                                                       !.fds = Plumbed(c)]]
    BY DEF ChildStart
  <2> QED
    BY <2>1, <2>2, <2>3 DEF Child
<1>2. /\ c < n => new.fds[Stdout] = WriteEnd(c)
      /\ \A f \in Fds : new.fds[f] \notin {Nothing, File} =>
            \/ f = Stdin /\ new.fds[f] = ReadEnd(c - 1)
            \/ f = Stdout /\ new.fds[f] = WriteEnd(c)
  BY <1>1, PlumbedEnds DEF ChildStart, IInv, ChildEnds
<1> QED
  BY <1>1, <1>2, ChildSteps DEF ChildStart, IInv, TypeOK

LEMMA FinishKeeps ==
    ASSUME IInv, NEW c \in Cmds, NEW status \in Codes, NEW told \in BOOLEAN,
           Finish(c, status, told)
    PROVE  IInv'
<1>1. Dispatched(status, told) \in Codes \cup {1, SigPipe}
  BY PipelineAssumption DEF Dispatched, Not
<1>2. told /\ ~negated => Dispatched(status, told) = status
  BY DEF Dispatched
<1>3. child[c] \in Child
  BY DEF IInv, TypeOK
<1> DEFINE new == [child[c] EXCEPT !.st = "zombie", !.status = status, !.told = told,
                                   !.code = Dispatched(status, told)]
<1>4. /\ new \in Child /\ new.st = "zombie" /\ new.code = Dispatched(status, told)
      /\ new.told = told /\ new.status = status
  BY <1>1, <1>3 DEF Child
<1>5. child' = [child EXCEPT ![c] = new]
  BY DEF Finish
<1>6. buf' \in [Pipes -> 0..Capacity] /\ UNCHANGED shellvars /\ child[c].st = "running"
  BY DEF Finish, Running, IInv, TypeOK
<1>7. new.code \in {child[c].code} \cup Codes \cup {1, SigPipe}
  BY <1>1, <1>4
<1>8. new.told /\ ~negated => new.code = new.status
  BY <1>2, <1>4
<1> HIDE DEF new
<1> QED
  BY <1>4, <1>5, <1>6, <1>7, <1>8, ChildSteps

LEMMA ReadItemKeeps ==
    ASSUME IInv, NEW c \in Cmds, ReadItem(c)
    PROVE  IInv'
<1>1. buf' \in [Pipes -> 0..Capacity]
  <2>1. PICK k \in Pipes : buf[k] > 0 /\ buf' = [buf EXCEPT ![k] = @ - 1]
    BY DEF ReadItem
  <2>2. buf[k] - 1 \in 0..Capacity
    BY <2>1, PipelineAssumption DEF IInv, TypeOK
  <2> QED
    BY <2>1, <2>2 DEF IInv, TypeOK
<1>2. UNCHANGED <<n, negated, survives_term, shell, pipes, pc, i, result, child>>
  BY DEF ReadItem, shellvars
<1>3. TypeOK'
  BY <1>1, <1>2 DEF IInv, TypeOK
<1>4. OnlyOwnEnds' /\ OutputConnected' /\ NothingOpen'
  BY <1>2 DEF IInv, OnlyOwnEnds, OutputConnected, Running, NothingOpen
<1>5. ShellPipes' /\ ChildEnds'
  BY <1>2 DEF IInv, ShellPipes, ChildEnds
<1>6. ChildrenSoFar' /\ StatusSoFar'
  BY <1>2 DEF IInv, ChildrenSoFar, StatusSoFar
<1> QED
  BY <1>3, <1>4, <1>5, <1>6 DEF IInv

LEMMA WriteItemKeeps ==
    ASSUME IInv, NEW c \in Cmds, WriteItem(c)
    PROVE  IInv'
<1>1. child[c] \in Child /\ UNCHANGED shellvars /\ child[c].st = "running" /\ child[c].left > 0
  BY DEF WriteItem, Running, IInv, TypeOK
<1>2. PICK k \in Pipes :
         IF HasReader(k)
         THEN /\ buf[k] < Capacity
              /\ buf' = [buf EXCEPT ![k] = @ + 1]
              /\ child' = [child EXCEPT ![c].left = @ - 1]
         ELSE /\ child' = [child EXCEPT ![c].st = "zombie", ![c].status = SigPipe,
                                        ![c].told = TRUE, ![c].code = SigPipe]
              /\ UNCHANGED buf
  BY DEF WriteItem
<1>3. CASE HasReader(k)
  <2> DEFINE new == [child[c] EXCEPT !.left = child[c].left - 1]
  <2>1. buf[k] + 1 \in 0..Capacity
    BY <1>2, <1>3, PipelineAssumption DEF IInv, TypeOK
  <2>2. buf' \in [Pipes -> 0..Capacity]
    BY <1>2, <1>3, <2>1 DEF IInv, TypeOK
  <2>3. child[c].left - 1 \in 0..Items
    BY <1>1, PipelineAssumption DEF Child
  <2>4. /\ new \in Child /\ new.st = "running" /\ new.code = child[c].code
        /\ new.fds = child[c].fds
    BY <1>1, <2>3 DEF Child
  <2>5. child' = [child EXCEPT ![c] = new]
    BY <1>2, <1>3
  <2> HIDE DEF new
  <2> QED
    BY <1>1, <2>2, <2>4, <2>5, ChildSteps DEF IInv, OnlyOwnEnds, OutputConnected, Running
<1>4. CASE ~HasReader(k)
  <2> DEFINE new == [child[c] EXCEPT !.st = "zombie", !.status = SigPipe, !.told = TRUE,
                                     !.code = SigPipe]
  <2>1. buf' \in [Pipes -> 0..Capacity]
    BY <1>2, <1>4 DEF IInv, TypeOK
  <2>2. new \in Child /\ new.st = "zombie" /\ new.code = SigPipe /\ new.status = SigPipe
    BY <1>1 DEF Child
  <2>3. child' = [child EXCEPT ![c] = new]
    BY <1>2, <1>4
  <2> HIDE DEF new
  <2> QED
    BY <1>1, <2>1, <2>2, <2>3, ChildSteps
<1> QED
  BY <1>3, <1>4

-----------------------------------------------------------------------------
(* The shell.                                                              *)

\* A step of the shell that leaves the children as they are.
LEMMA ChildrenUntouched ==
    ASSUME IInv, UNCHANGED <<n, child>>
    PROVE  OnlyOwnEnds' /\ OutputConnected' /\ ChildEnds'
<1>1. OnlyOwnEnds' /\ OutputConnected'
  BY DEF IInv, OnlyOwnEnds, OutputConnected, Running
<1>2. ChildEnds'
  BY DEF IInv, ChildEnds
<1> QED
  BY <1>1, <1>2

LEMMA EnterFrameKeeps ==
    ASSUME IInv, EnterFrame
    PROVE  IInv'
<1>1. /\ UNCHANGED <<n, negated, survives_term, pipes, i, child, buf, result>>
      /\ pc = "enter" /\ pc' = IF n = 1 THEN "alone" ELSE "pipe"
  BY DEF EnterFrame, input
<1>2. shell \in FdTable /\ Matches(shell, pipes) /\ pipes = [k \in Pipes |-> NoPipe] /\ i = 1
  BY <1>1 DEF IInv, TypeOK, ShellPipes
<1>3. shell' = [f \in Fds |-> IF f = 0 THEN Nothing ELSE shell[f]]
  <2> DEFINE in == Close(Dup2(shell, 0, Stdin), {0})
  <2>1. Dup2(shell, 0, Stdin) = shell
    BY <1>2, FdsAreNat DEF Dup2, Stdin, FdTable
  <2>2. in = [f \in Fds |-> IF f = 0 THEN Nothing ELSE shell[f]]
    BY <2>1 DEF Close
  <2>3. in[0] = Nothing
    BY <2>2, FdsAreNat DEF Stdin
  <2>4. Dup2(in, 0, Stdout) = in
    BY <2>3 DEF Dup2
  <2>5. shell' = Close(Dup2(in, 0, Stdout), {0})
    BY DEF EnterFrame
  <2> HIDE DEF in
  <2>6. shell' = [f \in Fds |-> IF f \in {0} THEN Nothing ELSE in[f]]
    BY <2>4, <2>5 DEF Close
  <2> QED
    BY <2>2, <2>6
<1>4. shell' \in FdTable
  BY <1>2, <1>3, EndsDiffer DEF FdTable, OpenFiles
<1>5. \A f \in Fds : shell'[f] = IF f = Stdin THEN Nothing ELSE shell[f]
  BY <1>3 DEF Stdin
<1>6. Matches(shell', pipes') /\ shell'[Stdin] # File
  <2>1. shell'[Stdout] = File
    BY <1>2, <1>5, FdsAreNat DEF Matches, Stdin, Stdout
  <2>2. \A k \in Pipes : pipes[k].r = Closed /\ pipes[k].w = Closed
    BY <1>2 DEF NoPipe
  <2>3. \A f \in Fds, k \in Pipes : shell[f] # ReadEnd(k) /\ shell[f] # WriteEnd(k)
    BY <1>2, <2>2, FdsAreNat DEF Matches
  <2>4. \A f \in Fds, k \in Pipes : shell'[f] # ReadEnd(k) /\ shell'[f] # WriteEnd(k)
    BY <1>5, <2>3, EndsDiffer
  <2>5. shell'[Stdin] # File /\ \A f \in Fds \ {Stdin, Stdout} : shell'[f] # File
    BY <1>2, <1>5, EndsDiffer, FdsAreNat DEF Matches
  <2>6. Matches(shell', pipes)
    BY <2>1, <2>2, <2>4, <2>5 DEF Matches
  <2> QED
    BY <1>1, <2>5, <2>6
<1>7. TypeOK'
  BY <1>1, <1>4 DEF IInv, TypeOK
<1>8. ShellPipes'
  <2>1. n # 1 => 1 < n
    BY DEF IInv, TypeOK, Cmds
  <2>2. \A k \in Pipes : ~(k < 1)
    BY DEF Pipes
  <2> QED
    BY <1>1, <1>2, <1>6, <2>1, <2>2 DEF ShellPipes
<1>9. ChildrenSoFar' /\ StatusSoFar' /\ NothingOpen'
  BY <1>1 DEF IInv, ChildrenSoFar, StatusSoFar, NothingOpen
<1> QED
  BY <1>1, <1>7, <1>8, <1>9, ChildrenUntouched DEF IInv

LEMMA RunAloneKeeps ==
    ASSUME IInv, NEW status \in Codes, NEW told \in BOOLEAN, RunAlone(status, told)
    PROVE  IInv'
<1>1. /\ UNCHANGED <<n, negated, survives_term, shell, pipes, i, buf>>
      /\ pc = "alone" /\ pc' = "done"
      /\ result' = [ok |-> TRUE, exit_status |-> Dispatched(status, told)]
  BY DEF RunAlone, input
<1>2. n = 1 /\ 1 \in Cmds /\ child[1] \in Child
  BY <1>1, PipelineAssumption DEF IInv, TypeOK, ShellPipes, Cmds
<1> DEFINE new == [child[1] EXCEPT !.status = status, !.told = told]
<1>3. new \in Child /\ new.st = child[1].st /\ new.status = status /\ new.told = told
  BY <1>2 DEF Child
<1>4. child' = [child EXCEPT ![1] = new]
  BY DEF RunAlone
<1> HIDE DEF new
<1>5. child' \in [Cmds -> Child] /\ child'[1] = new /\ \A c \in Cmds \ {1} : child'[c] = child[c]
  BY <1>2, <1>3, <1>4 DEF IInv, TypeOK
<1>6. \A c \in Cmds : child'[c].st = "none"
  BY <1>1, <1>3, <1>5 DEF IInv, ChildrenSoFar
<1>7. Dispatched(status, told) \in Codes \cup {1, SigPipe}
  BY PipelineAssumption DEF Dispatched, Not
<1>8. TypeOK'
  BY <1>1, <1>5, <1>7 DEF IInv, TypeOK
<1>9. ShellPipes' /\ NothingOpen'
  <2>1. \A f \in Fds : shell[f] \in {Nothing, File}
    <3>1. Matches(shell, pipes) /\ pipes = [k \in Pipes |-> NoPipe] /\ shell \in FdTable
      BY <1>1 DEF IInv, ShellPipes, TypeOK
    <3>2. \A f \in Fds, k \in Pipes : shell[f] # ReadEnd(k) /\ shell[f] # WriteEnd(k)
      BY <3>1, FdsAreNat DEF Matches, NoPipe
    <3> QED
      BY <3>1, <3>2, EndsDiffer DEF FdTable
  <2> QED
    BY <1>1, <2>1 DEF IInv, ShellPipes, NothingOpen
<1>10. OnlyOwnEnds' /\ OutputConnected' /\ ChildEnds' /\ ChildrenSoFar'
  BY <1>1, <1>6 DEF OnlyOwnEnds, OutputConnected, Running, ChildEnds, ChildrenSoFar
<1>11. StatusSoFar'
  BY <1>1, <1>2, <1>3, <1>5 DEF StatusSoFar, Dispatched
<1> QED
  BY <1>8, <1>9, <1>10, <1>11 DEF IInv

\* pipe() never gives stdout, which is in use, and gives stdin to the read end if at all.
LEMMA MakePipeKeeps ==
    ASSUME IInv, MakePipe
    PROVE  IInv'
<1>1. UNCHANGED <<n, negated, survives_term, child, buf, result>> /\ pc = "pipe"
  BY DEF MakePipe, input
<1>2. PICK r \in Fds, w \in Fds :
         /\ shell[r] = Nothing /\ \A g \in Fds : shell[g] = Nothing => r <= g
         /\ shell[w] = Nothing /\ w # r
         /\ shell' = [shell EXCEPT ![r] = ReadEnd(i), ![w] = WriteEnd(i)]
         /\ pipes' = [pipes EXCEPT ![i] = [r |-> r, w |-> w]]
  BY DEF MakePipe, IsLowest
<1>3. IF i = n - 1 THEN pc' = "fork" /\ i' = 1 ELSE i' = i + 1 /\ pc' = "pipe"
  BY <1>1 DEF MakePipe
<1>4. /\ n \in Nat /\ i \in Nat /\ i < n /\ i \in Cmds /\ n \in Cmds /\ i \in Pipes
      /\ shell \in FdTable /\ pipes \in [Pipes -> PipeFds]
      /\ Matches(shell, pipes) /\ shell[Stdin] # File
      /\ \A k \in Pipes : k < i => pipes[k].r # Closed /\ pipes[k].w # Closed
      /\ \A k \in Pipes : k >= i => pipes[k] = NoPipe
  BY <1>1, PipelineAssumption DEF IInv, TypeOK, ShellPipes, Cmds, Pipes
<1>5. r # Stdout /\ w # Stdout /\ w # Stdin
  <2>1. shell[Stdout] = File
    BY <1>4 DEF Matches
  <2>2. ASSUME w = Stdin PROVE FALSE
    <3>1. r <= 0 /\ r \in Nat
      BY <1>2, <2>2, FdsAreNat DEF Stdin
    <3> QED
      BY <1>2, <2>2, <3>1 DEF Stdin
  <2> QED
    BY <1>2, <2>1, <2>2, EndsDiffer
<1>6. /\ shell' \in FdTable /\ shell'[r] = ReadEnd(i) /\ shell'[w] = WriteEnd(i)
      /\ \A f \in Fds \ {r, w} : shell'[f] = shell[f]
  BY <1>2, <1>4, EndsDiffer DEF FdTable
<1>7. /\ pipes' \in [Pipes -> PipeFds] /\ pipes'[i].r = r /\ pipes'[i].w = w
      /\ \A k \in Pipes \ {i} : pipes'[k] = pipes[k]
  BY <1>2, <1>4 DEF PipeFds
<1>8. Matches(shell', pipes')
  <2>1. shell'[Stdout] = File
    BY <1>4, <1>5, <1>6, FdsAreNat DEF Matches
  <2>2. \A f \in Fds \ {Stdin, Stdout} : shell'[f] # File
    BY <1>4, <1>6, EndsDiffer DEF Matches
  <2>3. ASSUME NEW k \in Pipes, pipes'[k].r # Closed PROVE shell'[pipes'[k].r] = ReadEnd(k)
    <3>1. CASE k = i
      BY <1>6, <1>7, <3>1
    <3>2. CASE k # i
      <4>1. pipes'[k].r = pipes[k].r /\ pipes[k].r \in Fds /\ shell[pipes[k].r] = ReadEnd(k)
        BY <1>4, <1>7, <2>3, <3>2 DEF Matches, PipeFds
      <4> QED
        BY <1>2, <1>6, <4>1, EndsDiffer
    <3> QED
      BY <3>1, <3>2
  <2>4. ASSUME NEW k \in Pipes, pipes'[k].w # Closed PROVE shell'[pipes'[k].w] = WriteEnd(k)
    <3>1. CASE k = i
      BY <1>6, <1>7, <3>1
    <3>2. CASE k # i
      <4>1. pipes'[k].w = pipes[k].w /\ pipes[k].w \in Fds /\ shell[pipes[k].w] = WriteEnd(k)
        BY <1>4, <1>7, <2>4, <3>2 DEF Matches, PipeFds
      <4> QED
        BY <1>2, <1>6, <4>1, EndsDiffer
    <3> QED
      BY <3>1, <3>2
  <2>5. ASSUME NEW f \in Fds, NEW k \in Pipes
        PROVE  /\ shell'[f] = ReadEnd(k) => pipes'[k].r = f
               /\ shell'[f] = WriteEnd(k) => pipes'[k].w = f /\ f # Stdin
    <3>1. CASE f \in {r, w}
      BY <1>5, <1>6, <1>7, <3>1, EndsDiffer
    <3>2. CASE f \notin {r, w}
      <4>1. /\ shell'[f] = ReadEnd(k) => pipes[k].r = f
            /\ shell'[f] = WriteEnd(k) => pipes[k].w = f /\ f # Stdin
        BY <1>4, <1>6, <3>2 DEF Matches
      <4>2. pipes[i].r # f /\ pipes[i].w # f
        BY <1>4, FdsAreNat DEF NoPipe
      <4> QED
        BY <1>7, <4>1, <4>2
    <3> QED
      BY <3>1, <3>2
  <2> QED
    BY <2>1, <2>2, <2>3, <2>4, <2>5 DEF Matches
<1>9. shell'[Stdin] # File
  BY <1>4, <1>6, EndsDiffer, FdsAreNat
<1>10. TypeOK'
  <2>1. i' \in Cmds
    BY <1>3, <1>4, PipelineAssumption DEF Cmds
  <2> QED
    BY <1>1, <1>3, <1>6, <1>7, <2>1 DEF IInv, TypeOK
<1>11. \A k \in Pipes : k <= i => pipes'[k].r # Closed /\ pipes'[k].w # Closed
  BY <1>4, <1>7, FdsAreNat DEF Pipes
<1>12. \A k \in Pipes : k > i => pipes'[k] = NoPipe
  BY <1>4, <1>7 DEF Pipes
<1>13. ShellPipes'
  <2>1. CASE i = n - 1
    <3>1. \A k \in Pipes : k < n => k <= i
      BY <1>4, <2>1 DEF Pipes
    <3> QED
      BY <1>1, <1>3, <1>4, <1>8, <1>9, <1>11, <2>1, <3>1 DEF ShellPipes
  <2>2. CASE i # n - 1
    <3>1. \A k \in Pipes : /\ k < i + 1 => k <= i
                           /\ k >= i + 1 => k > i
      BY <1>4 DEF Pipes
    <3>2. i + 1 < n
      BY <1>4, <2>2
    <3> QED
      BY <1>1, <1>3, <1>8, <1>9, <1>11, <1>12, <2>2, <3>1, <3>2 DEF ShellPipes
  <2> QED
    BY <2>1, <2>2
<1>14. ChildrenSoFar'
  BY <1>1, <1>3 DEF IInv, ChildrenSoFar, Cmds
<1>15. StatusSoFar'
  <2>1. \A c \in Cmds : child[c].st = "none"
    BY <1>1 DEF IInv, ChildrenSoFar
  <2> QED
    BY <1>1, <1>3, <2>1 DEF IInv, StatusSoFar
<1>16. NothingOpen'
  BY <1>3 DEF NothingOpen
<1> QED
  BY <1>1, <1>10, <1>13, <1>14, <1>15, <1>16, ChildrenUntouched DEF IInv

LEMMA MakePipeFailsKeeps ==
    ASSUME IInv, MakePipeFails
    PROVE  IInv'
<1>1. /\ UNCHANGED <<n, negated, survives_term, shell, pipes, i, child, buf>>
      /\ pc = "pipe" /\ pc' = "cleanup" /\ result' = [ok |-> FALSE, exit_status |-> 1]
  BY DEF MakePipeFails, Fail, input
<1>2. TypeOK'
  BY <1>1 DEF IInv, TypeOK
<1>3. ShellPipes' /\ NothingOpen'
  BY <1>1 DEF IInv, ShellPipes, NothingOpen
<1>4. ChildrenSoFar' /\ StatusSoFar'
  BY <1>1 DEF IInv, ChildrenSoFar, StatusSoFar
<1> QED
  BY <1>1, <1>2, <1>3, <1>4, ChildrenUntouched DEF IInv

LEMMA ForkKeeps ==
    ASSUME IInv, Fork
    PROVE  IInv'
<1>1. /\ UNCHANGED <<n, negated, survives_term, shell, pipes, i, buf, result>>
      /\ pc = "fork" /\ pc' = "parent"
  BY DEF Fork, input
<1>2. /\ n \in Nat /\ i \in Nat /\ i <= n /\ i \in Cmds /\ child[i] \in Child
      /\ child[i].st = "none" /\ child[i].code \in Codes \cup {1, SigPipe}
      /\ shell \in FdTable /\ pipes \in [Pipes -> PipeFds]
      /\ Matches(shell, pipes) /\ shell[Stdin] # File
  BY <1>1, PipelineAssumption DEF IInv, TypeOK, ShellPipes, ChildrenSoFar, StatusSoFar, Cmds
<1>3. /\ i < n => pipes[i].w # Closed
      /\ i > 1 => pipes[i - 1].r # Closed
  <2>1. i < n => i \in Pipes
    BY <1>2, PipelineAssumption DEF IInv, TypeOK, Cmds, Pipes
  <2>2. i > 1 => i - 1 \in Pipes /\ i <= (i - 1) + 1 /\ i - 1 < n
    BY <1>2, PipelineAssumption DEF IInv, TypeOK, Cmds, Pipes
  <2> QED
    BY <1>1, <1>2, <2>1, <2>2 DEF IInv, ShellPipes
<1> DEFINE new == [child[i] EXCEPT !.st = "forked", !.fds = shell, !.pipes = pipes]
<1>4. /\ new \in Child /\ new.st = "forked" /\ new.fds = shell /\ new.pipes = pipes
      /\ new.code = child[i].code
  BY <1>2 DEF Child
<1>5. child' = [child EXCEPT ![i] = new]
  BY DEF Fork
<1> HIDE DEF new
<1>6. child' \in [Cmds -> Child] /\ child'[i] = new /\ \A c \in Cmds \ {i} : child'[c] = child[c]
  BY <1>2, <1>4, <1>5 DEF IInv, TypeOK
<1>7. TypeOK'
  BY <1>1, <1>6 DEF IInv, TypeOK
<1>8. OnlyOwnEnds' /\ OutputConnected'
  BY <1>1, <1>4, <1>6 DEF IInv, OnlyOwnEnds, OutputConnected, Running
<1>9. ShellPipes' /\ NothingOpen'
  BY <1>1 DEF IInv, ShellPipes, NothingOpen
<1>10. ChildEnds'
  <2> SUFFICES ASSUME NEW c \in Cmds
               PROVE  /\ child'[c].st = "forked" =>
                            /\ Matches(child'[c].fds, child'[c].pipes) /\ child'[c].fds[Stdin] # File
                            /\ c < n => child'[c].pipes[c].w # Closed
                            /\ c > 1 => child'[c].pipes[c - 1].r # Closed
                      /\ child'[c].st \in {"forked", "running"} => c <= n
    BY <1>1 DEF ChildEnds
  <2>1. CASE c = i
    BY <1>2, <1>3, <1>4, <1>6, <2>1
  <2>2. CASE c # i
    BY <1>6, <2>2 DEF IInv, ChildEnds
  <2> QED
    BY <2>1, <2>2
<1>11. ChildrenSoFar'
  <2>1. \A c \in Cmds : child'[c].st = "none" <=> c > i
    <3>1. \A c \in Cmds : (c >= i <=> c = i \/ c > i) /\ (c = i => ~(c > i))
      BY <1>2 DEF Cmds
    <3>2. \A c \in Cmds : child[c].st = "none" <=> c >= i
      BY <1>1 DEF IInv, ChildrenSoFar
    <3> QED
      BY <1>4, <1>6, <3>1, <3>2
  <2>2. \A c \in Cmds : child'[c].st # "collected"
    BY <1>1, <1>4, <1>6 DEF IInv, ChildrenSoFar
  <2> QED
    BY <1>1, <2>1, <2>2 DEF ChildrenSoFar
<1>12. StatusSoFar'
  BY <1>1, <1>2, <1>4, <1>6 DEF IInv, StatusSoFar
<1> QED
  BY <1>7, <1>8, <1>9, <1>10, <1>11, <1>12 DEF IInv

LEMMA ForkFailsKeeps ==
    ASSUME IInv, ForkFails
    PROVE  IInv'
<1>1. /\ UNCHANGED <<n, negated, survives_term, shell, pipes, i, buf>>
      /\ pc = "fork" /\ pc' = "discard" /\ result' = [ok |-> FALSE, exit_status |-> 1]
  BY DEF ForkFails, Fail, input
<1>2. child \in [Cmds -> Child]
  BY DEF IInv, TypeOK
<1>3. ASSUME NEW c \in Cmds
      PROVE  /\ child'[c] \in Child
             /\ child'[c] = child[c] \/ child'[c].st = "zombie"
  <2>1. child[c] \in Child
    BY <1>2
  <2>2. [child[c] EXCEPT !.st = "zombie", !.code = SigTerm] \in Child
    BY <2>1 DEF Child
  <2>3. [child[c] EXCEPT !.st = "zombie", !.code = SigTerm].st = "zombie"
    BY <2>1 DEF Child
  <2>4. \/ child'[c] = child[c]
        \/ child'[c] = [child[c] EXCEPT !.st = "zombie", !.code = SigTerm]
    BY DEF ForkFails
  <2> QED
    BY <2>1, <2>2, <2>3, <2>4
<1>4. child' \in [Cmds -> Child]
  <2>1. child' = [c \in Cmds |-> child'[c]]
    BY DEF ForkFails
  <2> QED
    BY <1>3, <2>1
<1>5. TypeOK'
  BY <1>1, <1>4 DEF IInv, TypeOK
<1>6. OnlyOwnEnds' /\ OutputConnected'
  BY <1>1, <1>3 DEF IInv, OnlyOwnEnds, OutputConnected, Running
<1>7. ShellPipes' /\ NothingOpen'
  BY <1>1 DEF IInv, ShellPipes, NothingOpen
<1>8. ChildEnds'
  BY <1>1, <1>3 DEF IInv, ChildEnds
<1>9. ChildrenSoFar' /\ StatusSoFar'
  BY <1>1 DEF ChildrenSoFar, StatusSoFar
<1> QED
  BY <1>5, <1>6, <1>7, <1>8, <1>9 DEF IInv

LEMMA AfterForkKeeps ==
    ASSUME IInv, AfterFork
    PROVE  IInv'
<1>1. UNCHANGED <<n, negated, survives_term, buf, result>> /\ pc = "parent"
  BY DEF AfterFork, input
<1>2. IF i = n THEN pc' = "close" /\ i' = 1 ELSE pc' = "fork" /\ i' = i + 1
  BY DEF AfterFork
<1>3. /\ n \in Nat /\ i \in Nat /\ i <= n /\ i \in Cmds /\ n \in Cmds /\ child[i] \in Child
      /\ shell \in FdTable /\ pipes \in [Pipes -> PipeFds]
      /\ Matches(shell, pipes) /\ shell[Stdin] # File
  BY <1>1, PipelineAssumption DEF IInv, TypeOK, ShellPipes, Cmds
<1>4. child' \in [Cmds -> Child] /\ \A c \in Cmds : /\ child'[c].st = child[c].st
                                                    /\ child'[c].fds = child[c].fds
                                                    /\ child'[c].pipes = child[c].pipes
                                                    /\ child'[c].code = child[c].code
                                                    /\ child'[c].told = child[c].told
                                                    /\ child'[c].status = child[c].status
  <2> DEFINE new == [child[i] EXCEPT !.in_group = TRUE]
  <2>1. /\ new \in Child /\ new.st = child[i].st /\ new.fds = child[i].fds
        /\ new.pipes = child[i].pipes /\ new.code = child[i].code
        /\ new.told = child[i].told /\ new.status = child[i].status
    BY <1>3 DEF Child
  <2>2. child' = [child EXCEPT ![i] = new]
    BY DEF AfterFork
  <2> HIDE DEF new
  <2> QED
    BY <2>1, <2>2 DEF IInv, TypeOK
<1>5. \A k \in Pipes : /\ pipes'[k].r = IF k = i - 1 THEN Closed ELSE pipes[k].r
                       /\ pipes'[k].w = IF k = i THEN Closed ELSE pipes[k].w
  BY DEF AfterFork
<1>6. pipes' \in [Pipes -> PipeFds]
  BY <1>3 DEF AfterFork, PipeFds
<1>7. \A k \in Pipes : /\ pipes'[k].r = IF pipes[k].r \in Unneeded(i) THEN Closed ELSE pipes[k].r
                       /\ pipes'[k].w = IF pipes[k].w \in Unneeded(i) THEN Closed ELSE pipes[k].w
  <2>1. \A e : e \in Unneeded(i) <=> \/ i \in Pipes /\ e = pipes[i].w
                                     \/ i - 1 \in Pipes /\ e = pipes[i - 1].r
    BY DEF Unneeded
  <2>2. ASSUME NEW k \in Pipes, pipes[k].r # Closed
        PROVE  pipes[k].r \in Unneeded(i) <=> k = i - 1
    <3>1. shell[pipes[k].r] = ReadEnd(k)
      BY <1>3, <2>2 DEF Matches
    <3>2. ASSUME i \in Pipes, pipes[k].r = pipes[i].w PROVE FALSE
      BY <1>3, <2>2, <3>1, <3>2, EndsDiffer DEF Matches
    <3>3. ASSUME i - 1 \in Pipes, pipes[k].r = pipes[i - 1].r PROVE k = i - 1
      BY <1>3, <2>2, <3>1, <3>3, EndsDiffer DEF Matches
    <3> QED
      BY <2>1, <3>2, <3>3
  <2>3. ASSUME NEW k \in Pipes, pipes[k].w # Closed
        PROVE  pipes[k].w \in Unneeded(i) <=> k = i
    <3>1. shell[pipes[k].w] = WriteEnd(k)
      BY <1>3, <2>3 DEF Matches
    <3>2. ASSUME i - 1 \in Pipes, pipes[k].w = pipes[i - 1].r PROVE FALSE
      BY <1>3, <2>3, <3>1, <3>2, EndsDiffer DEF Matches
    <3>3. ASSUME i \in Pipes, pipes[k].w = pipes[i].w PROVE k = i
      BY <1>3, <2>3, <3>1, <3>3, EndsDiffer DEF Matches
    <3> QED
      BY <2>1, <3>2, <3>3
  <2> QED
    BY <1>5, <2>2, <2>3
<1>8. /\ shell' \in FdTable /\ Matches(shell', pipes') /\ shell'[Stdin] # File
  <2>1. Stdout \notin Unneeded(i)
    BY <1>3, EndsNotAtStdout DEF Unneeded
  <2>2. shell' = Close(shell, Unneeded(i))
    BY DEF AfterFork
  <2>3. PICK q \in [Pipes -> PipeFds] : q = pipes'
    BY <1>6
  <2>4. \A k \in Pipes : /\ q[k].r = IF pipes[k].r \in Unneeded(i) THEN Closed ELSE pipes[k].r
                         /\ q[k].w = IF pipes[k].w \in Unneeded(i) THEN Closed ELSE pipes[k].w
    BY <1>7, <2>3
  <2>5. Close(shell, Unneeded(i)) \in FdTable
    BY <1>3, <2>1, <2>4, Closing
  <2>6. Matches(Close(shell, Unneeded(i)), q)
    BY <1>3, <2>1, <2>4, Closing
  <2>7. Close(shell, Unneeded(i))[Stdin] # File
    BY <1>3, <2>1, <2>4, Closing
  <2> QED
    BY <2>2, <2>3, <2>5, <2>6, <2>7
<1>9. TypeOK'
  <2>1. i' \in Cmds /\ pc' \in {"close", "fork"}
    BY <1>2, <1>3, PipelineAssumption DEF Cmds
  <2> QED
    BY <1>1, <1>4, <1>6, <1>8, <2>1 DEF IInv, TypeOK
<1>10. OnlyOwnEnds' /\ OutputConnected'
  BY <1>1, <1>4 DEF IInv, OnlyOwnEnds, OutputConnected, Running
<1>11. ChildEnds'
  BY <1>1, <1>4 DEF IInv, ChildEnds
<1>12. ShellPipes'
  <2>1. CASE i = n
    BY <1>2, <1>8, <2>1 DEF ShellPipes
  <2>2. CASE i # n
    <3>1. i + 1 <= n /\ \A k \in Pipes : /\ i + 1 <= k => i <= k /\ k # i
                                         /\ i + 1 <= k + 1 => i <= k + 1 /\ k # i - 1
      BY <1>3, <2>2 DEF Pipes
    <3>2. \A k \in Pipes : i + 1 <= k /\ k < n => pipes'[k].w # Closed
      BY <1>1, <1>5, <3>1 DEF IInv, ShellPipes
    <3>3. \A k \in Pipes : i + 1 <= k + 1 /\ k < n => pipes'[k].r # Closed
      BY <1>1, <1>5, <3>1 DEF IInv, ShellPipes
    <3> QED
      BY <1>1, <1>2, <1>8, <2>2, <3>1, <3>2, <3>3 DEF ShellPipes
  <2> QED
    BY <2>1, <2>2
<1>13. ChildrenSoFar'
  <2>1. \A c \in Cmds : c > i <=> c >= i + 1
    BY <1>3 DEF Cmds
  <2> QED
    BY <1>1, <1>2, <1>4, <2>1 DEF IInv, ChildrenSoFar
<1>14. StatusSoFar'
  BY <1>1, <1>2, <1>4 DEF IInv, StatusSoFar
<1>15. NothingOpen'
  BY <1>2 DEF NothingOpen
<1> QED
  BY <1>9, <1>10, <1>11, <1>12, <1>13, <1>14, <1>15 DEF IInv

\* What is left to the shell after it has closed everything in pipes[].
LEMMA CloseAllCloses ==
    ASSUME IInv, CloseAll
    PROVE  /\ shell' \in FdTable /\ pipes' \in [Pipes -> PipeFds] /\ Matches(shell', pipes')
           /\ \A f \in Fds : shell'[f] \in {Nothing, File}
           /\ shell[Stdin] # File => shell'[Stdin] # File
<1>1. shell \in FdTable /\ pipes \in [Pipes -> PipeFds] /\ Matches(shell, pipes)
  BY DEF IInv, TypeOK, ShellPipes
<1>2. shell' = Close(shell, Ends(pipes)) /\ pipes' = [k \in Pipes |-> NoPipe]
  BY DEF CloseAll
<1>3. Close(shell, Ends(pipes)) \in FdTable
  BY <1>1, ClosingAll
<1>4. pipes' \in [Pipes -> PipeFds]
  BY <1>2 DEF NoPipe, PipeFds
<1>5. Matches(Close(shell, Ends(pipes)), [k \in Pipes |-> NoPipe])
  BY <1>1, ClosingAll
<1>6. \A f \in Fds : Close(shell, Ends(pipes))[f] \in {Nothing, File}
  BY <1>1, ClosingAll
<1>7. shell[Stdin] # File => Close(shell, Ends(pipes))[Stdin] # File
  BY <1>1, ClosingAll
<1> QED
  BY <1>2, <1>3, <1>4, <1>5, <1>6, <1>7

LEMMA CloseRemainingKeeps ==
    ASSUME IInv, CloseRemaining
    PROVE  IInv'
<1>1. /\ UNCHANGED <<n, negated, survives_term, i, child, buf, result>>
      /\ pc = "close" /\ pc' = "wait" /\ CloseAll
  BY DEF CloseRemaining, input
<1>2. TypeOK'
  BY <1>1, CloseAllCloses DEF IInv, TypeOK
<1>3. ShellPipes' /\ NothingOpen'
  BY <1>1, CloseAllCloses DEF IInv, ShellPipes, NothingOpen
<1>4. ChildrenSoFar'
  <2>1. n \in Nat /\ 1 <= n /\ i = 1 /\ \A c \in Cmds : ~(c < 1)
    BY <1>1, PipelineAssumption DEF IInv, TypeOK, ChildrenSoFar, Cmds
  <2>2. \A c \in Cmds : child[c].st # "collected"
    BY <1>1 DEF IInv, ChildrenSoFar
  <2>3. \A c \in Cmds : child[c].st = "none" <=> c > n
    BY <1>1 DEF IInv, ChildrenSoFar
  <2> QED
    BY <1>1, <2>1, <2>2, <2>3 DEF ChildrenSoFar
<1>5. StatusSoFar'
  BY <1>1 DEF IInv, StatusSoFar
<1> QED
  BY <1>1, <1>2, <1>3, <1>4, <1>5, ChildrenUntouched DEF IInv

\* A child that has ended is collected.
LEMMA Collected ==
    ASSUME IInv, NEW c \in Cmds, child[c].st = "zombie", UNCHANGED n,
           child' = [child EXCEPT ![c].st = "collected"]
    PROVE  /\ child' \in [Cmds -> Child]
           /\ \A d \in Cmds : /\ child'[d].st = IF d = c THEN "collected" ELSE child[d].st
                              /\ child'[d].code = child[d].code
                              /\ child'[d].told = child[d].told
                              /\ child'[d].status = child[d].status
           /\ OnlyOwnEnds' /\ OutputConnected' /\ ChildEnds'
<1>1. child[c] \in Child
  BY DEF IInv, TypeOK
<1> DEFINE new == [child[c] EXCEPT !.st = "collected"]
<1>2. /\ new \in Child /\ new.st = "collected" /\ new.code = child[c].code
      /\ new.told = child[c].told /\ new.status = child[c].status
  BY <1>1 DEF Child
<1>3. child' = [child EXCEPT ![c] = new]
  OBVIOUS
<1> HIDE DEF new
<1>4. child' \in [Cmds -> Child] /\ child'[c] = new /\ \A d \in Cmds \ {c} : child'[d] = child[d]
  BY <1>2, <1>3 DEF IInv, TypeOK
<1>5. OnlyOwnEnds' /\ OutputConnected'
  BY <1>2, <1>4 DEF IInv, OnlyOwnEnds, OutputConnected, Running
<1>6. ChildEnds'
  BY <1>2, <1>4 DEF IInv, ChildEnds
<1> QED
  BY <1>2, <1>4, <1>5, <1>6

LEMMA WaitKeeps ==
    ASSUME IInv, Wait
    PROVE  IInv'
<1>1. /\ UNCHANGED <<n, negated, survives_term, shell, pipes, buf>>
      /\ pc = "wait" /\ child[i].st = "zombie"
      /\ child' = [child EXCEPT ![i].st = "collected"]
  BY DEF Wait, input
<1>2. IF i = n
      THEN /\ result' = [ok |-> TRUE, exit_status |-> IF negated THEN Not(child[i].code)
                                                      ELSE child[i].code]
           /\ pc' = "cleanup" /\ i' = i
      ELSE i' = i + 1 /\ pc' = "wait" /\ result' = result
  BY <1>1 DEF Wait
<1>3. i \in Cmds /\ n \in Cmds /\ i \in Nat /\ n \in Nat /\ i <= n
  BY <1>1, PipelineAssumption DEF IInv, TypeOK, ChildrenSoFar, Cmds
<1>4. /\ child' \in [Cmds -> Child]
      /\ \A d \in Cmds : /\ child'[d].st = IF d = i THEN "collected" ELSE child[d].st
                         /\ child'[d].code = child[d].code
                         /\ child'[d].told = child[d].told
                         /\ child'[d].status = child[d].status
      /\ OnlyOwnEnds' /\ OutputConnected' /\ ChildEnds'
  BY <1>1, <1>3, Collected
<1>5. child[i].code \in Codes \cup {1, SigPipe} /\ Not(child[i].code) \in {0, 1}
  BY <1>1, <1>3 DEF IInv, StatusSoFar, Not
<1>6. child[i].told /\ ~negated => child[i].code = child[i].status
  BY <1>1, <1>3 DEF IInv, StatusSoFar
<1>7. TypeOK'
  <2>1. i' \in Cmds
    BY <1>2, <1>3, PipelineAssumption DEF Cmds
  <2>2. result' \in [ok : BOOLEAN, exit_status : Codes \cup {1, SigPipe}]
    <3>1. Not(child[i].code) \in Codes \cup {1, SigPipe}
      BY <1>5, PipelineAssumption
    <3>2. PICK e \in Codes \cup {1, SigPipe} :
             e = IF negated THEN Not(child[i].code) ELSE child[i].code
      BY <1>5, <3>1
    <3>3. [ok |-> TRUE, exit_status |-> e] \in [ok : BOOLEAN, exit_status : Codes \cup {1, SigPipe}]
      OBVIOUS
    <3> QED
      BY <1>2, <3>2, <3>3 DEF IInv, TypeOK
  <2> QED
    BY <1>1, <1>2, <1>4, <2>1, <2>2 DEF IInv, TypeOK
<1>8. ShellPipes' /\ NothingOpen'
  BY <1>1, <1>2 DEF IInv, ShellPipes, NothingOpen
<1>9. ChildrenSoFar'
  <2>1. /\ \A c \in Cmds : child[c].st = "none" <=> c > n
        /\ \A c \in Cmds : child[c].st = "collected" <=> c < i
    BY <1>1 DEF IInv, ChildrenSoFar
  <2>2. CASE i = n
    <3>1. \A c \in Cmds : c > n \/ c = i \/ c < i
      BY <1>3, <2>2 DEF Cmds
    <3>2. \A c \in Cmds : child'[c].st \in {"none", "collected"}
      BY <1>4, <2>1, <3>1
    <3> QED
      BY <1>2, <2>2, <3>2 DEF ChildrenSoFar
  <2>3. CASE i # n
    <3>1. i + 1 <= n /\ \A c \in Cmds : (c < i + 1 <=> c = i \/ c < i) /\ (c = i => ~(c > n))
      BY <1>3, <2>3 DEF Cmds
    <3>2. \A c \in Cmds : child'[c].st = "collected" <=> c < i + 1
      BY <1>4, <2>1, <3>1
    <3>3. \A c \in Cmds : child'[c].st = "none" <=> c > n
      BY <1>4, <2>1, <3>1
    <3> QED
      BY <1>1, <1>2, <2>3, <3>1, <3>2, <3>3 DEF ChildrenSoFar
  <2> QED
    BY <2>2, <2>3
<1>10. StatusSoFar'
  <2>1. CASE i = n
    BY <1>1, <1>2, <1>3, <1>4, <1>6, <2>1 DEF StatusSoFar
  <2>2. CASE i # n
    BY <1>1, <1>2, <1>3, <1>4, <1>6, <2>2 DEF IInv, StatusSoFar
  <2> QED
    BY <2>1, <2>2
<1> QED
  BY <1>4, <1>7, <1>8, <1>9, <1>10 DEF IInv

LEMMA DiscardKeeps ==
    ASSUME IInv, Discard
    PROVE  IInv'
<1>1. UNCHANGED <<n, negated, survives_term, shell, pipes, pc, i, buf, result>> /\ pc = "discard"
  BY DEF Discard, input
<1>2. PICK c \in Cmds : child[c].st = "zombie" /\ child' = [child EXCEPT ![c].st = "collected"]
  BY DEF Discard
<1>3. child' \in [Cmds -> Child] /\ OnlyOwnEnds' /\ OutputConnected' /\ ChildEnds'
  BY <1>1, <1>2, Collected
<1>4. TypeOK'
  BY <1>1, <1>3 DEF IInv, TypeOK
<1>5. ShellPipes' /\ NothingOpen'
  BY <1>1 DEF IInv, ShellPipes, NothingOpen
<1>6. ChildrenSoFar' /\ StatusSoFar'
  BY <1>1 DEF IInv, ChildrenSoFar, StatusSoFar
<1> QED
  BY <1>3, <1>4, <1>5, <1>6 DEF IInv

LEMMA DiscardedKeeps ==
    ASSUME IInv, Discarded
    PROVE  IInv'
<1>1. /\ UNCHANGED <<n, negated, survives_term, shell, pipes, i, child, buf, result>>
      /\ pc = "discard" /\ pc' = "cleanup"
      /\ \A c \in Cmds : child[c].st \in {"none", "collected"}
  BY DEF Discarded, input
<1>2. TypeOK'
  BY <1>1 DEF IInv, TypeOK
<1>3. ShellPipes' /\ NothingOpen'
  BY <1>1 DEF IInv, ShellPipes, NothingOpen
<1>4. ChildrenSoFar' /\ StatusSoFar'
  BY <1>1 DEF IInv, ChildrenSoFar, StatusSoFar
<1> QED
  BY <1>1, <1>2, <1>3, <1>4, ChildrenUntouched DEF IInv

LEMMA CleanupKeeps ==
    ASSUME IInv, Cleanup
    PROVE  IInv'
<1>1. /\ UNCHANGED <<n, negated, survives_term, i, child, buf, result>>
      /\ pc = "cleanup" /\ pc' = "done" /\ CloseAll
  BY DEF Cleanup, input
<1>2. TypeOK'
  BY <1>1, CloseAllCloses DEF IInv, TypeOK
<1>3. ShellPipes' /\ NothingOpen'
  BY <1>1, CloseAllCloses DEF IInv, ShellPipes, NothingOpen
<1>4. ChildrenSoFar' /\ StatusSoFar'
  BY <1>1 DEF IInv, ChildrenSoFar, StatusSoFar
<1> QED
  BY <1>1, <1>2, <1>3, <1>4, ChildrenUntouched DEF IInv

-----------------------------------------------------------------------------
(* The theorems.                                                           *)

LEMMA NextPipeline == IInv /\ [Next]_vars => IInv'
<1> SUFFICES ASSUME IInv, [Next]_vars PROVE IInv'
  OBVIOUS
<1>1. CASE Shell
  <2>1. CASE EnterFrame
    BY <2>1, EnterFrameKeeps
  <2>2. CASE \E status \in Codes, told \in BOOLEAN : RunAlone(status, told)
    BY <2>2, RunAloneKeeps
  <2>3. CASE MakePipe
    BY <2>3, MakePipeKeeps
  <2>4. CASE MakePipeFails
    BY <2>4, MakePipeFailsKeeps
  <2>5. CASE Fork
    BY <2>5, ForkKeeps
  <2>6. CASE ForkFails
    BY <2>6, ForkFailsKeeps
  <2>7. CASE AfterFork
    BY <2>7, AfterForkKeeps
  <2>8. CASE CloseRemaining
    BY <2>8, CloseRemainingKeeps
  <2>9. CASE Wait
    BY <2>9, WaitKeeps
  <2>10. CASE Discard
    BY <2>10, DiscardKeeps
  <2>11. CASE Discarded
    BY <2>11, DiscardedKeeps
  <2>12. CASE Cleanup
    BY <2>12, CleanupKeeps
  <2> QED
    BY <1>1, <2>1, <2>2, <2>3, <2>4, <2>5, <2>6, <2>7, <2>8, <2>9, <2>10, <2>11, <2>12 DEF Shell
<1>2. CASE \E c \in Cmds : \/ ChildStart(c) \/ ReadItem(c) \/ WriteItem(c)
                           \/ \E status \in Codes, told \in BOOLEAN : Finish(c, status, told)
  BY <1>2, ChildStartKeeps, ReadItemKeeps, WriteItemKeeps, FinishKeeps
<1>3. CASE UNCHANGED vars
  <2>1. UNCHANGED <<n, negated, survives_term, shell, pipes, pc, i, child, buf, result>>
    BY <1>3 DEF vars
  <2>2. TypeOK'
    BY <2>1 DEF IInv, TypeOK
  <2>3. ShellPipes' /\ NothingOpen'
    BY <2>1 DEF IInv, ShellPipes, NothingOpen
  <2>4. ChildrenSoFar' /\ StatusSoFar'
    BY <2>1 DEF IInv, ChildrenSoFar, StatusSoFar
  <2> QED
    BY <2>1, <2>2, <2>3, <2>4, ChildrenUntouched DEF IInv
<1> QED
  BY <1>1, <1>2, <1>3 DEF Next

\* However a pipeline ends, the shell keeps no end of a pipe and no child, and the last
\* command decides the status (exec_frame_execute_pipeline_orchestrate and its cleanup).
THEOREM PipelineLeavesNothing == Spec => []OverAndSettled
<1>1. IInv => OverAndSettled
  BY DEF IInv, OverAndSettled, LeavesNothing, LastDecides, NothingOpen, ChildrenSoFar, StatusSoFar
<1> QED
  BY <1>1, InitPipeline, NextPipeline, PTL DEF Spec

-----------------------------------------------------------------------------
(* The input of the third and later commands.                              *)

\* Descriptor 0 is free when the pipes are made, and goes to the read end of the first; the
\* parent closes that after the second fork, so that no later child has it in its pipes[].
StdinIsTheFirst ==
    /\ pc = "pipe" => (i = 1 <=> shell[Stdin] = Nothing)
    /\ \A k \in Pipes : k > 1 => pipes[k].r # Stdin
    /\ pc \in {"fork", "parent"} /\ i > 2 => \A k \in Pipes : k = 1 => pipes[k].r = Closed
    /\ \A c \in Cmds : child[c].st = "forked" /\ c > 2 =>
          \A k \in Pipes : child[c].pipes[k].r # Stdin

InputInv == StdinIsTheFirst /\ InputConnected

\* dup2 to stdin, and none of the closes that follow is of stdin.
LEMMA PlumbedInput ==
    ASSUME TypeOK, NEW c \in Cmds, c <= n, c > 2,
           Matches(child[c].fds, child[c].pipes), child[c].pipes[c - 1].r # Closed,
           \A k \in Pipes : child[c].pipes[k].r # Stdin
    PROVE  Plumbed(c)[Stdin] = ReadEnd(c - 1)
<1> DEFINE fds == child[c].fds
           p   == child[c].pipes
           in  == Dup2(fds, p[c - 1].r, Stdin)
           out == IF c < n THEN Dup2(in, p[c].w, Stdout) ELSE in
<1>1. /\ fds \in FdTable /\ p \in [Pipes -> PipeFds] /\ n \in Nat /\ c \in Nat
      /\ c - 1 \in Pipes
  BY PipelineAssumption DEF TypeOK, Child, Cmds, Pipes
<1>2. Matches(fds, p) /\ p[c - 1].r # Closed /\ \A k \in Pipes : p[k].r # Stdin
  OBVIOUS
<1>3. Plumbed(c) = Close(out, Ends(p))
  <2>1. c > 1
    BY <1>1
  <2> QED
    BY <2>1 DEF Plumbed
<1>4. p[c - 1].r \in Fds /\ fds[p[c - 1].r] = ReadEnd(c - 1)
  BY <1>1, <1>2 DEF Matches, PipeFds
<1>5. in = [fds EXCEPT ![Stdin] = ReadEnd(c - 1)]
  BY <1>4, EndsDiffer DEF Dup2
<1>6. \A k \in Pipes : p[k].w # Stdin
  BY <1>1, <1>2, EndsNotAtStdout
<1> HIDE DEF fds, p, in
<1>7. in[Stdin] = ReadEnd(c - 1)
  BY <1>1, <1>5, FdsAreNat DEF FdTable
<1>8. out[Stdin] = ReadEnd(c - 1)
  BY <1>7, FdsAreNat DEF Dup2, Stdin, Stdout
<1>9. Stdin \notin Ends(p)
  BY <1>2, <1>6 DEF Ends
<1> HIDE DEF out
<1> QED
  BY <1>3, <1>8, <1>9, FdsAreNat DEF Close

\* A step of the shell that makes no pipe and no child.
LEMMA ShellStepKeepsInput ==
    ASSUME InputInv, UNCHANGED n,
           \A c \in Cmds : /\ child'[c].fds = child[c].fds /\ child'[c].pipes = child[c].pipes
                           /\ child'[c].st \in {child[c].st, "zombie", "collected"},
           pipes' = pipes \/ pipes' = [k \in Pipes |-> NoPipe],
           pc' \notin {"pipe", "fork", "parent"}
    PROVE  InputInv'
<1>1. Stdin # Closed
  BY DEF Stdin, Closed
<1>2. \A k \in Pipes : k > 1 => pipes'[k].r # Stdin
  BY <1>1 DEF InputInv, StdinIsTheFirst, NoPipe
<1>3. StdinIsTheFirst'
  BY <1>2 DEF InputInv, StdinIsTheFirst
<1>4. InputConnected'
  BY DEF InputInv, InputConnected, Running
<1> QED
  BY <1>3, <1>4 DEF InputInv

\* A step of a child.
LEMMA ChildStepKeepsInput ==
    ASSUME IInv, InputInv, NEW c \in Cmds, NEW status \in Codes, NEW told \in BOOLEAN,
           ChildStart(c) \/ ReadItem(c) \/ WriteItem(c) \/ Finish(c, status, told)
    PROVE  InputInv'
<1>1. UNCHANGED <<n, shell, pipes, pc, i>>
  BY DEF ChildStart, ReadItem, WriteItem, Finish, shellvars
<1>2. child \in [Cmds -> Child]
  BY DEF IInv, TypeOK
<1>3. CASE ChildStart(c)
  <2>1. child[c].st = "forked" /\ c \in Nat
    BY <1>3, PipelineAssumption DEF ChildStart, Cmds
  <2>2. c > 2 => Plumbed(c)[Stdin] = ReadEnd(c - 1)
    BY <2>1, PlumbedInput DEF IInv, ChildEnds, InputInv, StdinIsTheFirst
  <2>3. /\ child'[c].st = "running" /\ child'[c].fds = Plumbed(c)
        /\ \A d \in Cmds \ {c} : child'[d] = child[d]
    BY <1>2, <1>3 DEF ChildStart, Child
  <2> QED
    BY <1>1, <2>2, <2>3 DEF InputInv, StdinIsTheFirst, InputConnected, Running
<1>4. CASE ReadItem(c) \/ WriteItem(c) \/ Finish(c, status, told)
  <2>1. /\ child[c].st = "running" /\ child'[c].st \in {"running", "zombie"}
        /\ child'[c].fds = child[c].fds /\ \A d \in Cmds \ {c} : child'[d] = child[d]
    <3>1. CASE ReadItem(c)
      BY <3>1 DEF ReadItem, Running
    <3>2. CASE WriteItem(c)
      BY <1>2, <3>2 DEF WriteItem, Running, Child
    <3>3. CASE Finish(c, status, told)
      BY <1>2, <3>3 DEF Finish, Running, Child
    <3> QED
      BY <1>4, <3>1, <3>2, <3>3
  <2> QED
    BY <1>1, <2>1 DEF InputInv, StdinIsTheFirst, InputConnected, Running
<1> QED
  BY <1>3, <1>4

LEMMA MakePipeKeepsInput ==
    ASSUME IInv, InputInv, MakePipe
    PROVE  InputInv'
<1>1. UNCHANGED <<n, child>> /\ pc = "pipe"
  BY DEF MakePipe, input
<1>2. PICK r \in Fds, w \in Fds :
         /\ shell[r] = Nothing /\ \A g \in Fds : shell[g] = Nothing => r <= g
         /\ shell[w] = Nothing /\ w # r
         /\ shell' = [shell EXCEPT ![r] = ReadEnd(i), ![w] = WriteEnd(i)]
         /\ pipes' = [pipes EXCEPT ![i] = [r |-> r, w |-> w]]
  BY DEF MakePipe, IsLowest
<1>3. /\ i \in Nat /\ i >= 1 /\ i \in Pipes /\ shell \in FdTable /\ pipes \in [Pipes -> PipeFds]
  BY <1>1, PipelineAssumption DEF IInv, TypeOK, ShellPipes, Cmds, Pipes
<1>4. IF i = n - 1 THEN pc' = "fork" /\ i' = 1 ELSE i' = i + 1 /\ pc' = "pipe"
  BY <1>1 DEF MakePipe
<1>5. i > 1 => r # Stdin
  BY <1>1, <1>2 DEF InputInv, StdinIsTheFirst
<1>6. \A k \in Pipes : k > 1 => pipes'[k].r # Stdin
  BY <1>2, <1>3, <1>5 DEF InputInv, StdinIsTheFirst, PipeFds
<1>7. shell'[Stdin] # Nothing
  <2>1. shell'[r] = ReadEnd(i) /\ shell'[w] = WriteEnd(i) /\ \A f \in Fds \ {r, w} : shell'[f] = shell[f]
    BY <1>2, <1>3 DEF FdTable
  <2>2. CASE i = 1
    <3>1. shell[Stdin] = Nothing
      BY <1>1, <2>2 DEF InputInv, StdinIsTheFirst
    <3>2. r = Stdin
      BY <1>2, <3>1, FdsAreNat DEF Stdin
    <3> QED
      BY <2>1, <3>2, EndsDiffer
  <2>3. CASE i # 1
    BY <1>1, <2>1, <2>3, FdsAreNat, EndsDiffer DEF InputInv, StdinIsTheFirst
  <2> QED
    BY <2>2, <2>3
<1>8. StdinIsTheFirst'
  BY <1>1, <1>3, <1>4, <1>6, <1>7 DEF InputInv, StdinIsTheFirst
<1>9. InputConnected'
  BY <1>1 DEF InputInv, InputConnected, Running
<1> QED
  BY <1>8, <1>9 DEF InputInv

LEMMA ForkKeepsInput ==
    ASSUME IInv, InputInv, Fork
    PROVE  InputInv'
<1>1. UNCHANGED <<n, pipes, i>> /\ pc = "fork" /\ pc' = "parent"
  BY DEF Fork, input
<1>2. child \in [Cmds -> Child] /\ i \in Cmds
  BY DEF IInv, TypeOK
<1>3. /\ child'[i].st = "forked" /\ child'[i].pipes = pipes
      /\ \A c \in Cmds \ {i} : child'[c] = child[c]
  BY <1>2 DEF Fork, Child
<1>4. i > 2 => \A k \in Pipes : pipes[k].r # Stdin
  <2>1. \A k \in Pipes : k = 1 \/ k > 1
    BY DEF Pipes
  <2>2. Stdin # Closed
    BY DEF Stdin, Closed
  <2> QED
    BY <1>1, <2>1, <2>2 DEF InputInv, StdinIsTheFirst
<1>5. StdinIsTheFirst'
  BY <1>1, <1>3, <1>4 DEF InputInv, StdinIsTheFirst
<1>6. InputConnected'
  BY <1>1, <1>3 DEF InputInv, InputConnected, Running
<1> QED
  BY <1>5, <1>6 DEF InputInv

LEMMA AfterForkKeepsInput ==
    ASSUME IInv, InputInv, AfterFork
    PROVE  InputInv'
<1>1. UNCHANGED n /\ pc = "parent"
  BY DEF AfterFork, input
<1>2. IF i = n THEN pc' = "close" /\ i' = 1 ELSE pc' = "fork" /\ i' = i + 1
  BY DEF AfterFork
<1>3. child \in [Cmds -> Child] /\ i \in Cmds /\ i \in Nat
  BY PipelineAssumption DEF IInv, TypeOK, Cmds
<1>4. \A c \in Cmds : /\ child'[c].st = child[c].st
                      /\ child'[c].fds = child[c].fds
                      /\ child'[c].pipes = child[c].pipes
  BY <1>3 DEF AfterFork, Child
<1>5. \A k \in Pipes : pipes'[k].r = IF k = i - 1 THEN Closed ELSE pipes[k].r
  BY DEF AfterFork
<1>6. \A k \in Pipes : k > 1 => pipes'[k].r # Stdin
  BY <1>5 DEF InputInv, StdinIsTheFirst, Stdin, Closed
<1>7. i + 1 > 2 => \A k \in Pipes : k = 1 => pipes'[k].r = Closed
  <2>1. i + 1 > 2 => i = 2 \/ i > 2
    BY <1>3
  <2>2. CASE i = 2
    BY <1>5, <2>2
  <2>3. CASE i > 2
    BY <1>1, <1>5, <2>3 DEF InputInv, StdinIsTheFirst
  <2> QED
    BY <2>1, <2>2, <2>3
<1>8. StdinIsTheFirst'
  BY <1>2, <1>4, <1>6, <1>7 DEF InputInv, StdinIsTheFirst
<1>9. InputConnected'
  BY <1>4 DEF InputInv, InputConnected, Running
<1> QED
  BY <1>8, <1>9 DEF InputInv

LEMMA NextKeepsInput ==
    ASSUME IInv, InputInv, [Next]_vars
    PROVE  InputInv'
<1>1. CASE EnterFrame
  <2>1. /\ UNCHANGED <<n, pipes, i, child>> /\ pc = "enter" /\ pc' \in {"alone", "pipe"}
        /\ i = 1
    BY <1>1 DEF EnterFrame, input, IInv, ShellPipes
  <2>2. shell'[Stdin] = Nothing
    BY <1>1, FdsAreNat DEF EnterFrame, Close, Stdin
  <2> QED
    BY <2>1, <2>2 DEF InputInv, StdinIsTheFirst, InputConnected, Running
<1>2. ASSUME NEW status \in Codes, NEW told \in BOOLEAN, RunAlone(status, told) PROVE InputInv'
  <2>1. /\ UNCHANGED <<n, pipes>> /\ pc' = "done"
        /\ child' = [child EXCEPT ![1].status = status, ![1].told = told]
    BY <1>2 DEF RunAlone, input
  <2>2. child \in [Cmds -> Child]
    BY DEF IInv, TypeOK
  <2>3. \A c \in Cmds : /\ child'[c].fds = child[c].fds /\ child'[c].pipes = child[c].pipes
                        /\ child'[c].st = child[c].st
    BY <2>1, <2>2 DEF Child
  <2> QED
    BY <2>1, <2>3, ShellStepKeepsInput
<1>3. CASE MakePipe
  BY <1>3, MakePipeKeepsInput
<1>4. CASE MakePipeFails \/ CloseRemaining \/ Discarded \/ Cleanup
  <2>1. /\ UNCHANGED <<n, child>> /\ pc' \in {"cleanup", "wait", "done"}
        /\ pipes' = pipes \/ pipes' = [k \in Pipes |-> NoPipe]
    BY <1>4 DEF MakePipeFails, CloseRemaining, Discarded, Cleanup, CloseAll, input
  <2> QED
    BY <2>1, ShellStepKeepsInput
<1>5. CASE Fork
  BY <1>5, ForkKeepsInput
<1>6. CASE ForkFails \/ Wait \/ Discard
  <2>1. UNCHANGED <<n, pipes>> /\ pc' \in {"discard", "wait", "cleanup"}
    BY <1>6 DEF ForkFails, Wait, Discard, input
  <2>2. child \in [Cmds -> Child]
    BY DEF IInv, TypeOK
  <2>3. \A c \in Cmds : /\ child'[c].fds = child[c].fds /\ child'[c].pipes = child[c].pipes
                        /\ child'[c].st \in {child[c].st, "zombie", "collected"}
    <3>1. CASE ForkFails
      BY <2>2, <3>1 DEF ForkFails, Child
    <3>2. CASE Wait
      BY <2>2, <3>2 DEF Wait, Child
    <3>3. CASE Discard
      BY <2>2, <3>3 DEF Discard, Child
    <3> QED
      BY <1>6, <3>1, <3>2, <3>3
  <2> QED
    BY <2>1, <2>3, ShellStepKeepsInput
<1>7. CASE AfterFork
  BY <1>7, AfterForkKeepsInput
<1>8. ASSUME NEW c \in Cmds, NEW status \in Codes, NEW told \in BOOLEAN,
             ChildStart(c) \/ ReadItem(c) \/ WriteItem(c) \/ Finish(c, status, told)
      PROVE  InputInv'
  BY <1>8, ChildStepKeepsInput
<1>9. CASE UNCHANGED vars
  BY <1>9 DEF vars, InputInv, StdinIsTheFirst, InputConnected, Running
<1>10. 0 \in Codes /\ TRUE \in BOOLEAN
  BY PipelineAssumption
<1> QED
  BY <1>1, <1>2, <1>3, <1>4, <1>5, <1>6, <1>7, <1>8, <1>9, <1>10 DEF Next, Shell

\* In every state, each command of a pipeline that runs has its output where it writes, from
\* the third on its input where it reads, and no other end, in whatever order the children
\* and the shell go on (execute_frame_body, exec_frame_execute_pipeline_orchestrate).
THEOREM PipelineEndsAreRight == Spec => []EndsAreRight
<1>1. Init => InputInv
  BY DEF Init, InputInv, StdinIsTheFirst, InputConnected, Running, NoChild, NoPipe, Stdin, Closed
<1>2. (IInv /\ InputInv) /\ [Next]_vars => (IInv /\ InputInv)'
  BY NextPipeline, NextKeepsInput
<1>3. IInv /\ InputInv => EndsAreRight
  BY DEF IInv, InputInv, EndsAreRight
<1> QED
  BY <1>1, <1>2, <1>3, InitPipeline, PTL DEF Spec
=============================================================================
