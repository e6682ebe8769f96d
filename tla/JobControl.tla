----------------------------- MODULE JobControl -----------------------------
(***************************************************************************)
(* Job control: the shell, its background children and the job table.      *)
(*                                                                         *)
(* The shell is one thread: it starts background jobs (exec_in_frame), runs*)
(* the builtins wait, fg, bg and kill (builtins.c) and, between commands,  *)
(* reaps (exec_reap_background_jobs).  A blocking builtin is a sequence of *)
(* steps, one per answer of waitpid; pc says where the shell is.  The      *)
(* children are separate processes that run, stop, continue and end at any *)
(* moment between two steps of the shell.                                  *)
(***************************************************************************)
EXTENDS JobStore

CONSTANTS
    ExitCodes,      \* what a child may exit with
    WaitOperands    \* what a user gives wait: pids, and AnyPid for `wait -1`

AnyPid   == -1
KillSig  == 9       \* a signal that ends a child
StopSig  == 19      \* a signal that stops one

VARIABLES
    child,          \* the operating system's view of each pid
    ending,         \* how each background process ended, by order of start
    started,        \* how many background processes were started
    interactive,    \* is_interactive: fixed for the life of the shell
    pc,             \* where the shell is
    target,         \* the job or pid a blocking builtin was given
    notify,         \* parameter of exec_reap_background_jobs
    after,          \* where the shell goes on after a reap
    any_reaped,     \* local of exec_reap_background_jobs
    status          \* exit status of the last builtin

osvars == <<child, ending, started>>
reapvars == <<notify, after, any_reaped>>
vars == <<store, osvars, interactive, pc, target, reapvars, status>>

None == [how |-> "none", code |-> 0]

Endings == [how : {"exited"}, code : ExitCodes] \cup [how : {"killed"}, code : {KillSig}]

\* A pid: free, or held by one background process, that of job number job when the
\* shell keeps a table.  leader: it has called setpgid, so
\* that its process group exists.  unseen: a stop that waitpid has not reported yet.
Child == [st : {"free", "running", "stopped", "zombie"}, leader : BOOLEAN,
          unseen : BOOLEAN, job : JobIds \cup {NoJob}]

FreePid == [st |-> "free", leader |-> FALSE, unseen |-> FALSE, job |-> NoJob]

ASSUME ControlAssumption ==
    /\ ExitCodes \subseteq 0..127
    /\ WaitOperands \subseteq Pids \cup {AnyPid}
    /\ ExitCodes \cup {KillSig, 128 + KillSig, StopSig} \subseteq Statuses

Init ==
    /\ StoreInit
    /\ child = [p \in Pids |-> FreePid]
    /\ ending = [j \in JobIds |-> None] /\ started = 0
    /\ interactive \in BOOLEAN
    /\ pc = "prompt" /\ target = NoJob /\ status = 0
    /\ notify = FALSE /\ after = "prompt" /\ any_reaped = FALSE

\* exec_setup_core makes the table for an interactive shell only: in a script jobs is
\* NULL, which is the empty store that no call changes.
HasStore == interactive

-----------------------------------------------------------------------------
(* The operating system.                                                   *)

Exists(p)   == child[p].st # "free"
IsZombie(p) == child[p].st = "zombie"

\* The children in process group g, zombies included.
Group(g) == {p \in Pids : p = g /\ Exists(p) /\ child[p].leader}

\* The children a call of waitpid with this argument is about.
WaitSet(arg) == IF arg = AnyPid THEN {p \in Pids : Exists(p)}
                ELSE {p \in Pids : p = arg /\ Exists(p)}

Fate(p) == ending[child[p].job]

\* The child after a signal.  SIGCONT takes back a stop that was not reported.
Signalled(c, sig) ==
    IF c.st \notin {"running", "stopped"} THEN c
    ELSE IF sig = "KILL" THEN [c EXCEPT !.st = "zombie", !.unseen = FALSE]
    ELSE IF sig = "STOP" THEN [c EXCEPT !.st = "stopped",
                                        !.unseen = @ \/ c.st = "running"]
    ELSE [c EXCEPT !.st = "running", !.unseen = FALSE]

\* What a signal to the children S does.
Deliver(S, sig) ==
    /\ child' = [p \in Pids |-> IF p \in S THEN Signalled(child[p], sig) ELSE child[p]]
    /\ ending' = [j \in JobIds |->
                     IF /\ sig = "KILL"
                        /\ \E p \in S : child[p].job = j /\ child[p].st \in {"running", "stopped"}
                     THEN [how |-> "killed", code |-> KillSig]
                     ELSE ending[j]]
    /\ UNCHANGED started

Signals == {"KILL", "STOP", "CONT"}

shellvars == <<store, interactive, pc, target, reapvars, status>>

\* setup_process_group in the child of a background job.
ChildSetPgid(p) ==
    /\ child[p].st = "running" /\ ~child[p].leader
    /\ child' = [child EXCEPT ![p].leader = TRUE]
    /\ UNCHANGED <<shellvars, ending, started>>

\* The child runs its command after setup_process_group, and exits.
ChildExit(p, code) ==
    /\ child[p].st = "running" /\ child[p].leader
    /\ child' = [child EXCEPT ![p].st = "zombie"]
    /\ ending' = [ending EXCEPT ![child[p].job] = [how |-> "exited", code |-> code]]
    /\ UNCHANGED <<shellvars, started>>

\* A signal sent to one pid: by kill with a pid, the terminal or another program.
SignalPid(p, sig) ==
    /\ child[p].st \in {"running", "stopped"}
    /\ Deliver({p}, sig)
    /\ UNCHANGED shellvars

-----------------------------------------------------------------------------
(* Starting a job, and recording what waitpid says.                        *)

\* A command that does not block: the rest of the line follows.
Stay == UNCHANGED <<interactive, pc, target, reapvars>>

\* exec_in_frame for EXEC_FRAME_BACKGROUND_JOB, in the parent after fork.  The pid is
\* any that is not in use: one that a collected child had may come back.
StartBackground(p) ==
    /\ pc = "prompt"
    /\ started < MaxJobs
    /\ ~Exists(p)
    /\ started' = started + 1
    /\ child' = [child EXCEPT ![p] = [st |-> "running", leader |-> FALSE,
                                      unseen |-> FALSE, job |-> started']]
    /\ store' = IF HasStore
                THEN StoreAddProcess(StoreAdd(store, TRUE), store.next_job_id, p)
                ELSE store
    /\ status' = 0
    /\ UNCHANGED ending
    /\ Stay

\* waitpid returned the zombie p: the pid is free again and the store, asked to record
\* it under the pid `as`, gets the exit code, or sigbase plus the signal.
Collect(p, as, sigbase) ==
    /\ IsZombie(p)
    /\ store' = IF ~HasStore THEN store
                ELSE IF Fate(p).how = "exited"
                THEN StoreSetProcessState(store, as, "done", Fate(p).code)
                ELSE StoreSetProcessState(store, as, "terminated", sigbase + Fate(p).code)
    /\ child' = [child EXCEPT ![p] = FreePid]
    /\ UNCHANGED <<ending, started, interactive>>

\* 128+n for a signal: what wait with a pid, wait without operands and fg return.
ShellStatus(e) == IF e.how = "exited" THEN e.code ELSE 128 + e.code

FirstStatus(job) ==
    IF job.processes = <<>> THEN 0 ELSE job.processes[1].exit_status

Return(st) == pc' = "prompt" /\ status' = st

-----------------------------------------------------------------------------
(* exec_reap_background_jobs: after each input line, where notify is       *)
(* is_interactive, and from builtin_exit, which passes true and then ends  *)
(* the shell.                                                              *)

\* Mutant of Reap: nothing to do without a table.
ReapWithStore(note, next) ==
    /\ pc = "prompt" /\ HasStore
    /\ pc' = "reap" /\ notify' = note /\ after' = next /\ any_reaped' = FALSE
    /\ UNCHANGED <<store, osvars, interactive, target, status>>

Reap(note, next) ==
    /\ pc = "prompt"
    /\ pc' = "reap" /\ notify' = note /\ after' = next /\ any_reaped' = FALSE
    /\ UNCHANGED <<store, osvars, interactive, target, status>>

ReapStart == Reap(interactive, "prompt")

Exit == Reap(TRUE, "exited")

ReapOne(p) ==
    /\ pc = "reap"
    /\ Collect(p, p, 128)
    /\ any_reaped' = TRUE
    /\ UNCHANGED <<pc, target, notify, after, status>>

\* waitpid has no zombie left.
ReapEnd ==
    /\ pc = "reap"
    /\ \A p \in Pids : ~IsZombie(p)
    /\ pc' = IF ~any_reaped THEN after ELSE IF notify THEN "notify" ELSE "purge"
    /\ UNCHANGED <<store, osvars, interactive, target, reapvars, status>>

\* job_store_print_completed_jobs insists on a store: Expects_not_null aborts.
ReapNotify ==
    /\ pc = "notify"
    /\ IF HasStore
       THEN store' = StorePrintCompleted(store) /\ pc' = "purge"
       ELSE pc' = "aborted" /\ UNCHANGED store
    /\ UNCHANGED <<osvars, interactive, target, reapvars, status>>

ReapPurge ==
    /\ pc = "purge"
    /\ store' = IF HasStore THEN StoreRemoveCompleted(store) ELSE store
    /\ pc' = after /\ any_reaped' = FALSE
    /\ UNCHANGED <<osvars, interactive, target, notify, after, status>>

-----------------------------------------------------------------------------
(* wait.  A job operand (%n, %+, %-) is resolved by exec_parse_job_id to a *)
(* number that need not be in the table, or fails: NoJob.                  *)

JobOperands == JobIds \cup {NoJob}

Block(where, what) == pc' = where /\ target' = what

WaitJob(j) ==
    /\ pc = "prompt"
    /\ IF ~HasJob(store, j)
       THEN Return(127) /\ UNCHANGED target
       ELSE IF IsCompleted(store.jobs[j])
       THEN Return(FirstStatus(store.jobs[j])) /\ UNCHANGED target
       ELSE Block("wait_job", j) /\ UNCHANGED status
    /\ UNCHANGED <<store, osvars, interactive, reapvars>>

\* Mutant of WaitJobCollect: the status is read before it is recorded.
WaitJobCollectStale(p) ==
    /\ pc = "wait_job"
    /\ p \in Group(store.jobs[target].pgid)
    /\ Collect(p, p, 0)
    /\ IF IsCompleted(store'.jobs[target])
       THEN Return(FirstStatus(store.jobs[target]))
       ELSE UNCHANGED <<pc, status>>
    /\ UNCHANGED <<target, reapvars>>

\* One answer of waitpid(-pgid) in wait_for_job: the loop ends with the job.
WaitJobCollect(p) ==
    /\ pc = "wait_job"
    /\ p \in Group(store.jobs[target].pgid)
    /\ Collect(p, p, 0)
    /\ IF IsCompleted(store'.jobs[target])
       THEN Return(FirstStatus(store'.jobs[target]))
       ELSE UNCHANGED <<pc, status>>
    /\ UNCHANGED <<target, reapvars>>

\* Mutant of WaitJobNoChild: ECHILD is tried again like EINTR.
WaitJobRetry ==
    /\ pc = "wait_job"
    /\ Group(store.jobs[target].pgid) = {}
    /\ IsCompleted(store.jobs[target])
    /\ Return(FirstStatus(store.jobs[target]))
    /\ UNCHANGED <<store, osvars, interactive, target, reapvars>>

\* ECHILD: no child is in the group.
WaitJobNoChild ==
    /\ pc = "wait_job"
    /\ Group(store.jobs[target].pgid) = {}
    /\ Return(FirstStatus(store.jobs[target]))
    /\ UNCHANGED <<store, osvars, interactive, target, reapvars>>

WaitPid(arg) ==
    /\ pc = "prompt"
    /\ Block("wait_pid", arg)
    /\ UNCHANGED <<store, osvars, interactive, reapvars, status>>

\* wait_for_pid records the status under its operand, not under the pid returned, and
\* looks at what the status says only when there is a table.
WaitPidCollect(p) ==
    /\ pc = "wait_pid"
    /\ p \in WaitSet(target)
    /\ Collect(p, target, 0)
    /\ Return(IF HasStore THEN ShellStatus(Fate(p)) ELSE 0)
    /\ UNCHANGED <<target, reapvars>>

WaitPidNoChild ==
    /\ pc = "wait_pid"
    /\ WaitSet(target) = {}
    /\ Return(127)
    /\ UNCHANGED <<store, osvars, interactive, target, reapvars>>

WaitAll ==
    /\ pc = "prompt"
    /\ pc' = "wait_all" /\ status' = 0
    /\ UNCHANGED <<store, osvars, interactive, target, reapvars>>

\* wait_for_all gives up at once without a table.
WaitAllNoStore ==
    /\ pc = "wait_all" /\ ~HasStore
    /\ pc' = "prompt"
    /\ UNCHANGED <<store, osvars, interactive, target, reapvars, status>>

WaitAllCollect(p) ==
    /\ pc = "wait_all" /\ HasStore
    /\ Collect(p, p, 0)
    /\ status' = ShellStatus(Fate(p))
    /\ UNCHANGED <<pc, target, reapvars>>

WaitAllNoChild ==
    /\ pc = "wait_all" /\ HasStore
    /\ \A p \in Pids : ~Exists(p)
    /\ pc' = "prompt"
    /\ UNCHANGED <<store, osvars, interactive, target, reapvars, status>>

-----------------------------------------------------------------------------
(* fg, bg and kill with a job operand.                                     *)

\* kill(-pgid, SIGCONT) and job_store_set_state: the process entries keep "stopped".
Resume(j) ==
    /\ Deliver(Group(store.jobs[j].pgid), "CONT")
    /\ store' = StoreSetState(store, j, "running")

Stopped(j) == HasJob(store, j) /\ store.jobs[j].state = "stopped"

CanSignal(j) == HasJob(store, j) /\ Group(store.jobs[j].pgid) # {}

Fg(j) ==
    /\ pc = "prompt"
    /\ IF HasJob(store, j) /\ (Stopped(j) => CanSignal(j))
       THEN /\ IF Stopped(j) THEN Resume(j) ELSE UNCHANGED <<store, osvars>>
            /\ Block("fg", j) /\ status' = 0
       ELSE Return(1) /\ UNCHANGED <<store, osvars, target>>
    /\ UNCHANGED <<interactive, reapvars>>

FgCollect(p) ==
    /\ pc = "fg"
    /\ p \in Group(store.jobs[target].pgid)
    /\ Collect(p, p, 0)
    /\ status' = ShellStatus(Fate(p))
    /\ pc' = IF IsCompleted(store'.jobs[target]) THEN "prompt" ELSE "fg"
    /\ UNCHANGED <<target, reapvars>>

\* WUNTRACED: only fg learns of a stop.
FgStopped(p) ==
    /\ pc = "fg"
    /\ p \in Group(store.jobs[target].pgid)
    /\ child[p].st = "stopped" /\ child[p].unseen
    /\ store' = StoreSetProcessState(store, p, "stopped", StopSig)
    /\ child' = [child EXCEPT ![p].unseen = FALSE]
    /\ Return(128 + StopSig)
    /\ UNCHANGED <<ending, started, interactive, target, reapvars>>

FgNoChild ==
    /\ pc = "fg"
    /\ Group(store.jobs[target].pgid) = {}
    /\ pc' = "prompt"
    /\ UNCHANGED <<store, osvars, interactive, target, reapvars, status>>

Bg(j) ==
    /\ pc = "prompt"
    /\ IF Stopped(j) /\ CanSignal(j)
       THEN Resume(j) /\ status' = 0
       ELSE status' = 1 /\ UNCHANGED <<store, osvars>>
    /\ Stay

KillJob(j, sig) ==
    /\ pc = "prompt"
    /\ IF CanSignal(j)
       THEN Deliver(Group(store.jobs[j].pgid), sig) /\ status' = 0
       ELSE status' = 1 /\ UNCHANGED osvars
    /\ UNCHANGED store
    /\ Stay

-----------------------------------------------------------------------------
Environment(p) ==
    \/ ChildSetPgid(p)
    \/ \E code \in ExitCodes : ChildExit(p, code)
    \/ \E sig \in Signals : SignalPid(p, sig)

\* The steps in which the shell asks waitpid, or goes on after it.
Progress ==
    \/ \E p \in Pids :
          \/ ReapOne(p)
          \/ WaitJobCollect(p)
          \/ WaitPidCollect(p)
          \/ WaitAllCollect(p)
          \/ FgCollect(p)
          \/ FgStopped(p)
    \/ ReapEnd
    \/ ReapNotify
    \/ ReapPurge
    \/ WaitJobNoChild
    \/ WaitPidNoChild
    \/ WaitAllNoStore
    \/ WaitAllNoChild
    \/ FgNoChild

Command ==
    \/ \E p \in Pids : StartBackground(p)
    \/ \E j \in JobOperands :
          \/ WaitJob(j)
          \/ Fg(j)
          \/ Bg(j)
          \/ \E sig \in Signals : KillJob(j, sig)
    \/ \E arg \in WaitOperands : WaitPid(arg)
    \/ WaitAll
    \/ Exit

Next ==
    \/ \E p \in Pids : Environment(p)
    \/ Progress
    \/ Command
    \/ ReapStart

\* The shell does not stop in the middle of a builtin or of a reap, a forked child gets
\* to call setpgid, and lines end: however many commands a line has, the shell comes to
\* reap infinitely often if it is infinitely often between commands.
Fairness ==
    /\ WF_vars(Progress)
    /\ SF_vars(ReapStart)
    /\ \A p \in Pids : WF_vars(ChildSetPgid(p))

Spec == Init /\ [][Next]_vars

FairSpec == Spec /\ Fairness

-----------------------------------------------------------------------------
(* Properties.                                                             *)

ShellStatuses ==
    Statuses \cup {0, 1, 127, 128 + KillSig, 128 + StopSig}

\* The state has the shape of the program's.
TypeOK ==
    /\ StoreTypeOK
    /\ child \in [Pids -> Child]
    /\ ending \in [JobIds -> Endings \cup {None}]
    /\ started \in 0..MaxJobs
    /\ interactive \in BOOLEAN
    /\ pc \in {"prompt", "reap", "notify", "purge", "wait_job", "wait_pid",
               "wait_all", "fg", "exited", "aborted"}
    /\ target \in JobOperands \cup WaitOperands
    /\ notify \in BOOLEAN /\ after \in {"prompt", "exited"} /\ any_reaped \in BOOLEAN
    /\ status \in ShellStatuses

\* The table and the operating system agree, whichever of reap, wait and fg got the
\* answer and whichever pids were recycled: a pid in use belongs to a job of the table
\* that is not completed, and a job not completed has its process.
JobsTrackChildren ==
    HasStore =>
        /\ \A p \in Pids : Exists(p) =>
              /\ HasJob(store, child[p].job)
              /\ ~IsCompleted(store.jobs[child[p].job])
              /\ store.jobs[child[p].job].pgid = p
        /\ \A j \in DOMAIN store.jobs : ~IsCompleted(store.jobs[j]) =>
              \E p \in Pids : Exists(p) /\ child[p].job = j

\* A completed job says how its own process ended: not how another process with the
\* same pid did, and not what a fg saw before it stopped.
CompletedJobsTellTheirFate ==
    \A j \in DOMAIN store.jobs : IsCompleted(store.jobs[j]) =>
        LET code == FirstStatus(store.jobs[j])
        IN  \/ /\ ending[j].how = "exited"
               /\ store.jobs[j].state = "done" /\ code = ending[j].code
            \/ /\ ending[j].how = "killed"
               /\ store.jobs[j].state = "terminated"
               /\ code \in {ending[j].code, 128 + ending[j].code}

\* jobs and fg go by job->state, the reap by the processes: they never disagree on
\* whether the job is over, though fg and bg write the state and not the processes.
StateAgreesOnCompletion ==
    \A j \in DOMAIN store.jobs :
        store.jobs[j].state \in Finished <=> IsCompleted(store.jobs[j])

\* A job leaves the table only after its process ended, its end was recorded, and the
\* user was told (job_store_remove_completed).
RemovedOnlyWhenTold ==
    [][\A j \in DOMAIN store.jobs \ DOMAIN store'.jobs :
          /\ store.jobs[j].is_notified
          /\ ending[j] # None
          /\ \A p \in Pids : Exists(p) => child[p].job # j]_vars

\* With a table, wait returns what became of the process it collected last: the exit
\* code, and for one killed by a signal a status that is not success.
WaitReportsFate ==
    [][/\ HasStore /\ pc \in {"wait_job", "wait_pid"}
       /\ pc' = "prompt" /\ child' # child
       => \E p \in Pids :
             /\ Exists(p) /\ ~Exists(p)'
             /\ IF Fate(p).how = "exited" THEN status' = Fate(p).code
                ELSE status' \in {KillSig, 128 + KillSig}]_vars

\* A job operand reaches that job's process and no other, though it is the number of a
\* group that may meanwhile name another job's: what fg, bg and kill with a job signal, and
\* what wait and fg collect or report.  A job that is over is left out: until the
\* user is told, kill and fg go by its old group, whose number may have come back.
OperandsHitOwnJob ==
    [][\A j \in DOMAIN store.jobs, p \in Pids :
          /\ ~IsCompleted(store.jobs[j]) /\ child'[p] # child[p]
          /\ \/ Fg(j) \/ Bg(j) \/ \E sig \in Signals : KillJob(j, sig)
             \/ pc = "wait_job" /\ target = j /\ ~Exists(p)'
             \/ pc = "fg" /\ target = j /\ (~Exists(p)' \/ pc' = "prompt")
          => child[p].job = j]_vars

\* No zombie stays: if the shell is between commands again and again, every child that
\* ended is collected, by whichever of reap, wait and fg comes first.
ZombiesAreCollected ==
    []<>(pc = "prompt") => \A p \in Pids : IsZombie(p) ~> ~Exists(p)

\* In an interactive shell a reap that collected something clears the table of every
\* completed job, also of those that an earlier wait or fg had collected.
ReapClearsCompleted ==
    \A j \in JobIds :
        (pc = "reap" /\ any_reaped /\ HasJob(store, j) /\ IsCompleted(store.jobs[j]))
        ~> ~HasJob(store, j)

\* wait %n ends once the job's process has ended, whatever else happens meanwhile.
WaitJobEnds ==
    \A j \in JobIds :
        (pc = "wait_job" /\ target = j /\ ending[j] # None) ~> pc = "prompt"

-----------------------------------------------------------------------------
(* The properties as the runs check them.                                  *)

\* What the table says of a job's end is true and the same wherever it says it:
\* in the state of the job, in those of its processes and in its exit status
\* (job_update_state, job_store_set_process_state).
CompletionIsKnown == TypeOK /\ CompletedJobsTellTheirFate /\ StateAgreesOnCompletion

\* A job's fate gets through: from the process that waitpid collects to the status
\* of wait, and to the user before the job is forgotten (builtin_wait,
\* job_store_remove_completed).
FateIsTold == WaitReportsFate /\ RemovedOnlyWhenTold

=============================================================================
