------------------------------ MODULE JobStore ------------------------------
(***************************************************************************)
(* The table of jobs of the shell: src/src/job_store.c.                    *)
(*                                                                         *)
(* The C store is a linked list of job_t with two pointers into it         *)
(* (current_job, previous_job), a counter and the next number to give.     *)
(* job_store_add prepends a job whose number is larger than every earlier  *)
(* one, so "the first in the list" is "the largest number": here the list  *)
(* is the function store.jobs from the numbers present to the jobs, and    *)
(* the two pointers are job numbers, NoJob standing for NULL.  JobList     *)
(* models the list node by node and is checked to implement this module.   *)
(*                                                                         *)
(* Every operation is an operator from a store to a store (its value is    *)
(* what *store holds when the C function returns), so that callers which   *)
(* make several calls can compose them.                                    *)
(***************************************************************************)
EXTENDS Integers, Sequences, FiniteSets

CONSTANTS
    Pids,       \* process identifiers the operating system hands out
    Statuses,   \* values of process_t.exit_status
    MaxJobs,    \* bound: how many jobs the shell ever starts
    MaxProcs    \* bound: how many processes one job is given

NoJob == 0      \* a NULL job_t pointer
NoPid == 0      \* pgid of a job that has no process yet

ASSUME StoreAssumption ==
    /\ Pids \subseteq Nat \ {NoPid}
    /\ Statuses \subseteq Int
    /\ 0 \in Statuses
    /\ MaxJobs \in Nat
    /\ MaxProcs \in Nat \ {0}

JobIds == 1..MaxJobs

JobStates == {"running", "stopped", "done", "terminated"}

Process == [pid : Pids, state : JobStates, exit_status : Statuses]

Job == [pgid : Pids \cup {NoPid}, processes : Seq(Process),
        state : JobStates, is_background : BOOLEAN, is_notified : BOOLEAN]

\* s has the shape of a job_store_t.
IsStore(s) ==
    /\ DOMAIN s.jobs \subseteq JobIds
    /\ s.jobs \in [DOMAIN s.jobs -> Job]
    /\ s \in [jobs : {s.jobs},
              current_job : JobIds \cup {NoJob},
              previous_job : JobIds \cup {NoJob},
              job_count : Nat,
              next_job_id : 1..(MaxJobs + 1)]

VARIABLE store

-----------------------------------------------------------------------------
(* What the store says of one job.                                         *)

SomeProcessIs(procs, st) == \E i \in DOMAIN procs : procs[i].state = st

\* job_update_state: the state of a job with these processes, old if none.
UpdatedState(procs, old) ==
    IF procs = <<>>                            THEN old
    ELSE IF SomeProcessIs(procs, "stopped")    THEN "stopped"
    ELSE IF SomeProcessIs(procs, "running")    THEN "running"
    ELSE IF SomeProcessIs(procs, "terminated") THEN "terminated"
    ELSE "done"

Finished == {"done", "terminated"}

\* job_is_completed
IsCompleted(job) ==
    IF job.processes = <<>>
    THEN job.state \in Finished
    ELSE \A i \in DOMAIN job.processes : job.processes[i].state \in Finished

NewProcess(pid) == [pid |-> pid, state |-> "running", exit_status |-> 0]

NewJob(bg) ==
    [pgid |-> NoPid, processes |-> <<>>, state |-> "running",
     is_background |-> bg, is_notified |-> FALSE]

-----------------------------------------------------------------------------
(* Lookups.                                                                *)

HasJob(s, j) == j \in DOMAIN s.jobs

\* The jobs that hold a process with this pid, and the one the walk meets first.
Holders(s, pid) ==
    {j \in DOMAIN s.jobs :
        \E i \in DOMAIN s.jobs[j].processes : s.jobs[j].processes[i].pid = pid}

\* Mutant of IsNewest: the walk meets the oldest job first.
IsOldest(j, S) == j \in S /\ \A k \in S : j <= k

IsNewest(j, S) == j \in S /\ \A k \in S : k <= j

\* The first position of pid in a process list.
IsFirst(i, procs, pid) ==
    /\ i \in DOMAIN procs /\ procs[i].pid = pid
    /\ \A k \in DOMAIN procs : procs[k].pid = pid => i <= k

-----------------------------------------------------------------------------
(* The operations.                                                         *)

StoreCreate ==
    [jobs |-> [j \in {} |-> NewJob(FALSE)], current_job |-> NoJob,
     previous_job |-> NoJob, job_count |-> 0, next_job_id |-> 1]

\* The same table with the job j replaced.
WithJob(s, j, job) ==
    [jobs |-> [s.jobs EXCEPT ![j] = job],
     current_job |-> s.current_job, previous_job |-> s.previous_job,
     job_count |-> s.job_count, next_job_id |-> s.next_job_id]

\* job_store_add: the new job's number is s.next_job_id.
StoreAdd(s, bg) ==
    [jobs |-> [j \in DOMAIN s.jobs \cup {s.next_job_id} |->
                  IF j = s.next_job_id THEN NewJob(bg) ELSE s.jobs[j]],
     current_job |-> IF bg THEN s.next_job_id ELSE s.current_job,
     previous_job |-> IF bg THEN s.current_job ELSE s.previous_job,
     job_count |-> s.job_count + 1,
     next_job_id |-> s.next_job_id + 1]

\* job_store_add_process: the first process names the process group.
JobWithProcess(job, pid) ==
    [pgid |-> IF job.processes = <<>> THEN pid ELSE job.pgid,
     processes |-> Append(job.processes, NewProcess(pid)),
     state |-> job.state, is_background |-> job.is_background,
     is_notified |-> job.is_notified]

StoreAddProcess(s, j, pid) ==
    IF HasJob(s, j) THEN WithJob(s, j, JobWithProcess(s.jobs[j], pid)) ELSE s

\* job_store_set_state: the job's own state, its processes keep theirs.
JobWithState(job, st) ==
    [pgid |-> job.pgid, processes |-> job.processes, state |-> st,
     is_background |-> job.is_background, is_notified |-> job.is_notified]

StoreSetState(s, j, st) ==
    IF HasJob(s, j) THEN WithJob(s, j, JobWithState(s.jobs[j], st)) ELSE s

\* Mutant of JobWithProcessState: a code that was recorded before is kept.
JobWithFirstCode(job, pid, st, code) ==
    LET procs == [i \in DOMAIN job.processes |->
                     IF IsFirst(i, job.processes, pid)
                     THEN [pid |-> pid, state |-> st,
                           exit_status |-> IF job.processes[i].exit_status = 0 THEN code
                                           ELSE job.processes[i].exit_status]
                     ELSE job.processes[i]]
    IN  [pgid |-> job.pgid, processes |-> procs,
         state |-> UpdatedState(procs, job.state),
         is_background |-> job.is_background, is_notified |-> job.is_notified]

\* job_store_set_process_state: the first process with this pid, newest job first.
JobWithProcessState(job, pid, st, code) ==
    LET procs == [i \in DOMAIN job.processes |->
                     IF IsFirst(i, job.processes, pid)
                     THEN [pid |-> pid, state |-> st, exit_status |-> code]
                     ELSE job.processes[i]]
    IN  [pgid |-> job.pgid, processes |-> procs,
         state |-> UpdatedState(procs, job.state),
         is_background |-> job.is_background, is_notified |-> job.is_notified]

StoreSetProcessState(s, pid, st, code) ==
    [jobs |-> [j \in DOMAIN s.jobs |->
                  IF IsNewest(j, Holders(s, pid))
                  THEN JobWithProcessState(s.jobs[j], pid, st, code)
                  ELSE s.jobs[j]],
     current_job |-> s.current_job, previous_job |-> s.previous_job,
     job_count |-> s.job_count, next_job_id |-> s.next_job_id]

\* job_store_mark_notified
JobNotified(job) ==
    [pgid |-> job.pgid, processes |-> job.processes, state |-> job.state,
     is_background |-> job.is_background, is_notified |-> TRUE]

StoreMarkNotified(s, j) ==
    IF HasJob(s, j) THEN WithJob(s, j, JobNotified(s.jobs[j])) ELSE s

\* Mutant of StorePrintCompleted: a job ended by a signal is not reported.
StorePrintDone(s) ==
    [jobs |-> [j \in DOMAIN s.jobs |->
                  IF IsCompleted(s.jobs[j]) /\ s.jobs[j].state = "done"
                  THEN JobNotified(s.jobs[j]) ELSE s.jobs[j]],
     current_job |-> s.current_job, previous_job |-> s.previous_job,
     job_count |-> s.job_count, next_job_id |-> s.next_job_id]

\* job_store_print_completed_jobs: what it leaves behind, the text is left out.
StorePrintCompleted(s) ==
    [jobs |-> [j \in DOMAIN s.jobs |->
                  IF IsCompleted(s.jobs[j]) THEN JobNotified(s.jobs[j]) ELSE s.jobs[j]],
     current_job |-> s.current_job, previous_job |-> s.previous_job,
     job_count |-> s.job_count, next_job_id |-> s.next_job_id]

\* Mutant of Without: an emptied table starts its numbers again.
WithoutNumberingAnew(s, gone) ==
    [jobs |-> [j \in DOMAIN s.jobs \ gone |-> s.jobs[j]],
     current_job |-> IF s.current_job \in gone THEN NoJob ELSE s.current_job,
     previous_job |-> IF s.previous_job \in gone THEN NoJob ELSE s.previous_job,
     job_count |-> s.job_count - Cardinality(gone),
     next_job_id |-> IF gone = DOMAIN s.jobs THEN 1 ELSE s.next_job_id]

\* Unlinking a set of jobs: the current job falls back on the previous one, which
\* stays previous as well, and to NULL when that one goes too.
Without(s, gone) ==
    LET kept    == DOMAIN s.jobs \ gone
        prev    == IF s.previous_job \in gone THEN NoJob ELSE s.previous_job
    IN  [jobs |-> [j \in kept |-> s.jobs[j]],
         current_job |-> IF s.current_job \in gone THEN prev ELSE s.current_job,
         previous_job |-> prev,
         job_count |-> s.job_count - Cardinality(gone),
         next_job_id |-> s.next_job_id]

\* job_store_remove
StoreRemove(s, j) == IF HasJob(s, j) THEN Without(s, {j}) ELSE s

\* job_store_remove_completed
Disposable(s) ==
    {j \in DOMAIN s.jobs : IsCompleted(s.jobs[j]) /\ s.jobs[j].is_notified}

StoreRemoveCompleted(s) == Without(s, Disposable(s))

-----------------------------------------------------------------------------
(* The store under any sequence of calls: one action per function that     *)
(* changes it.  StoreAdd's and StoreAddProcess's guards are the bounds.    *)

StoreInit == store = StoreCreate

DoAdd(bg) ==
    /\ store.next_job_id <= MaxJobs
    /\ store' = StoreAdd(store, bg)

DoAddProcess(j, pid) ==
    /\ HasJob(store, j) => Len(store.jobs[j].processes) < MaxProcs
    /\ store' = StoreAddProcess(store, j, pid)

DoSetState(j, st) == store' = StoreSetState(store, j, st)

DoSetProcessState(pid, st, code) == store' = StoreSetProcessState(store, pid, st, code)

DoMarkNotified(j) == store' = StoreMarkNotified(store, j)

DoPrintCompleted == store' = StorePrintCompleted(store)

DoRemove(j) == store' = StoreRemove(store, j)

DoRemoveCompleted == store' = StoreRemoveCompleted(store)

StoreNext ==
    \/ \E bg \in BOOLEAN : DoAdd(bg)
    \/ \E j \in JobIds, pid \in Pids : DoAddProcess(j, pid)
    \/ \E j \in JobIds, st \in JobStates : DoSetState(j, st)
    \/ \E pid \in Pids, st \in JobStates, code \in Statuses :
          DoSetProcessState(pid, st, code)
    \/ \E j \in JobIds : DoMarkNotified(j)
    \/ DoPrintCompleted
    \/ \E j \in JobIds : DoRemove(j)
    \/ DoRemoveCompleted

StoreSpec == StoreInit /\ [][StoreNext]_store

-----------------------------------------------------------------------------
(* Properties.  Each is stated of any store s, then of the variable.       *)

\* The store has the shape of a job_store_t.
StoreTypeOK == IsStore(store)

PointersValidIn(s) ==
    /\ s.current_job \in DOMAIN s.jobs \cup {NoJob}
    /\ s.previous_job \in DOMAIN s.jobs \cup {NoJob}

CountMatchesIn(s) == s.job_count = Cardinality(DOMAIN s.jobs)

IdsBelowNextIn(s) == \A j \in DOMAIN s.jobs : j < s.next_job_id

StoreInvIn(s) ==
    /\ IsStore(s)
    /\ PointersValidIn(s)
    /\ CountMatchesIn(s)
    /\ IdsBelowNextIn(s)

\* current_job and previous_job are NULL or point at a job still in the list: after
\* job_store_remove or job_store_remove_completed no pointer is left to a freed node.
PointersValid == PointersValidIn(store)

\* job_count, which job_store_count returns, is the number of jobs in the list.
CountMatches == CountMatchesIn(store)

\* The inductive invariant: numbers given so far are also below the next one, so a
\* new job is the newest of the list.
StoreInv == StoreInvIn(store)

\* A number never comes to denote another job: a job that appears has a number no job had
\* before, even after the jobs with the earlier numbers were removed.
IdsNeverReused ==
    [][/\ store'.next_job_id >= store.next_job_id
       /\ \A j \in DOMAIN store'.jobs \ DOMAIN store.jobs :
             store.next_job_id <= j /\ j < store'.next_job_id]_store
=============================================================================
