-------------------------- MODULE JobControlProofs --------------------------
(***************************************************************************)
(* The properties of JobStore and of JobControl, for any sets of pids,     *)
(* statuses and exit codes and any number of jobs.  First the table alone, *)
(* under any sequence of calls; then the table that follows the children,  *)
(* through pids that come back.                                            *)
(***************************************************************************)
EXTENDS JobControl, FiniteSetTheorems, TLAPS

-----------------------------------------------------------------------------
(* Jobs.                                                                   *)

LEMMA NewJobIsJob == ASSUME NEW bg \in BOOLEAN PROVE NewJob(bg) \in Job
BY DEF NewJob, Job, JobStates

LEMMA UpdatedStateIsState ==
    ASSUME NEW procs, NEW old \in JobStates
    PROVE  UpdatedState(procs, old) \in JobStates
BY DEF UpdatedState, JobStates

LEMMA JobWithProcessIsJob ==
    ASSUME NEW job \in Job, NEW pid \in Pids
    PROVE  JobWithProcess(job, pid) \in Job
<1>1. NewProcess(pid) \in Process
  BY StoreAssumption DEF NewProcess, Process, JobStates
<1>2. Append(job.processes, NewProcess(pid)) \in Seq(Process)
  BY <1>1 DEF Job
<1> QED
  BY <1>2 DEF JobWithProcess, Job

LEMMA JobWithStateIsJob ==
    ASSUME NEW job \in Job, NEW st \in JobStates
    PROVE  JobWithState(job, st) \in Job
BY DEF JobWithState, Job

LEMMA JobNotifiedIsJob ==
    ASSUME NEW job \in Job
    PROVE  JobNotified(job) \in Job
BY DEF JobNotified, Job

LEMMA JobWithProcessStateIsJob ==
    ASSUME NEW job \in Job, NEW pid \in Pids, NEW st \in JobStates, NEW code \in Statuses
    PROVE  JobWithProcessState(job, pid, st, code) \in Job
<1> DEFINE procs == [i \in DOMAIN job.processes |->
                        IF IsFirst(i, job.processes, pid)
                        THEN [pid |-> pid, state |-> st, exit_status |-> code]
                        ELSE job.processes[i]]
<1>1. job.processes \in Seq(Process)
  BY DEF Job
<1>2. procs \in [1..Len(job.processes) -> Process]
  <2>1. DOMAIN job.processes = 1..Len(job.processes)
    BY <1>1
  <2>2. [pid |-> pid, state |-> st, exit_status |-> code] \in Process
    BY DEF Process
  <2>3. \A i \in DOMAIN job.processes : job.processes[i] \in Process
    BY <1>1
  <2> QED
    BY <2>1, <2>2, <2>3
<1>3. procs \in Seq(Process)
  BY <1>1, <1>2
<1>4. UpdatedState(procs, job.state) \in JobStates
  BY UpdatedStateIsState DEF Job
<1> QED
  BY <1>3, <1>4 DEF JobWithProcessState, Job

-----------------------------------------------------------------------------
(* Stores.                                                                 *)

LEMMA InitialStore == StoreInvIn(StoreCreate)
<1>1. DOMAIN StoreCreate.jobs = {}
  BY DEF StoreCreate
<1>2. Cardinality({}) = 0
  BY FS_EmptySet
<1> QED
  BY <1>1, <1>2, StoreAssumption
  DEF StoreCreate, StoreInvIn, IsStore, PointersValidIn,
      CountMatchesIn, IdsBelowNextIn, NoJob, JobIds

\* An operation that changes jobs and no link keeps the invariant.
LEMMA SameLinks ==
    ASSUME NEW s, StoreInvIn(s), NEW f, f \in [DOMAIN s.jobs -> Job]
    PROVE  StoreInvIn([jobs |-> f, current_job |-> s.current_job,
                       previous_job |-> s.previous_job, job_count |-> s.job_count,
                       next_job_id |-> s.next_job_id])
BY DEF StoreInvIn, IsStore, PointersValidIn, CountMatchesIn,
       IdsBelowNextIn

LEMMA WithJobKeepsInv ==
    ASSUME NEW s, StoreInvIn(s), NEW j \in DOMAIN s.jobs, NEW job \in Job
    PROVE  StoreInvIn(WithJob(s, j, job))
<1>1. [s.jobs EXCEPT ![j] = job] \in [DOMAIN s.jobs -> Job]
  BY DEF StoreInvIn, IsStore
<1> QED
  BY <1>1, SameLinks DEF WithJob

LEMMA JobsAreJobs ==
    ASSUME NEW s, StoreInvIn(s), NEW j \in DOMAIN s.jobs
    PROVE  s.jobs[j] \in Job
BY DEF StoreInvIn, IsStore

LEMMA FiniteDomain ==
    ASSUME NEW s, StoreInvIn(s)
    PROVE  IsFiniteSet(DOMAIN s.jobs)
<1>1. IsFiniteSet(1..MaxJobs)
  BY FS_Interval, StoreAssumption
<1> QED
  BY <1>1, FS_Subset DEF StoreInvIn, IsStore, JobIds

-----------------------------------------------------------------------------
(* The operations.                                                         *)

LEMMA StoreAddKeepsInv ==
    ASSUME NEW s, StoreInvIn(s), NEW bg \in BOOLEAN, s.next_job_id <= MaxJobs
    PROVE  StoreInvIn(StoreAdd(s, bg))
<1> DEFINE new  == s.next_job_id
           t    == StoreAdd(s, bg)
           with == DOMAIN s.jobs \cup {new}
<1>1. new \in JobIds /\ new \notin DOMAIN s.jobs
  BY StoreAssumption DEF StoreInvIn, IsStore, IdsBelowNextIn, JobIds
<1>2. DOMAIN t.jobs = with
  BY DEF StoreAdd
<1>3. t.jobs \in [with -> Job]
  <2>1. NewJob(bg) \in Job
    BY NewJobIsJob
  <2> QED
    BY <2>1, JobsAreJobs DEF StoreAdd
<1>4. Cardinality(with) = Cardinality(DOMAIN s.jobs) + 1
  BY <1>1, FiniteDomain, FS_AddElement
<1>5. IsStore(t)
  BY <1>1, <1>2, <1>3, StoreAssumption DEF StoreInvIn, IsStore, StoreAdd, JobIds
<1>6. PointersValidIn(t)
  BY <1>2 DEF StoreInvIn, PointersValidIn, StoreAdd
<1>7. CountMatchesIn(t)
  BY <1>2, <1>4 DEF StoreInvIn, CountMatchesIn, StoreAdd
<1>8. IdsBelowNextIn(t)
  BY <1>1, <1>2 DEF StoreInvIn, IsStore, IdsBelowNextIn, StoreAdd, JobIds
<1> QED
  BY <1>5, <1>6, <1>7, <1>8 DEF StoreInvIn

LEMMA WithoutKeepsInv ==
    ASSUME NEW s, StoreInvIn(s), NEW gone \in SUBSET DOMAIN s.jobs
    PROVE  StoreInvIn(Without(s, gone))
<1> DEFINE t    == Without(s, gone)
           kept == DOMAIN s.jobs \ gone
<1>1. DOMAIN t.jobs = kept
  BY DEF Without
<1>2. t.jobs \in [kept -> Job]
  BY JobsAreJobs DEF Without
<1>3. /\ Cardinality(kept) = Cardinality(DOMAIN s.jobs) - Cardinality(gone)
      /\ Cardinality(kept) \in Nat
  <2>1. IsFiniteSet(DOMAIN s.jobs)
    BY FiniteDomain
  <2>2. DOMAIN s.jobs \cap gone = gone
    OBVIOUS
  <2> QED
    BY <2>1, <2>2, FS_Difference, FS_CardinalityType
<1>4. IsStore(t)
  BY <1>1, <1>2, <1>3 DEF StoreInvIn, IsStore, CountMatchesIn, Without
<1>5. PointersValidIn(t)
  BY <1>1 DEF StoreInvIn, PointersValidIn, Without
<1>6. CountMatchesIn(t)
  BY <1>1, <1>3 DEF StoreInvIn, CountMatchesIn, Without
<1>7. IdsBelowNextIn(t)
  BY <1>1 DEF StoreInvIn, IdsBelowNextIn, Without
<1> QED
  BY <1>4, <1>5, <1>6, <1>7 DEF StoreInvIn

LEMMA StoreAddProcessKeepsInv ==
    ASSUME NEW s, StoreInvIn(s), NEW j, NEW pid \in Pids
    PROVE  StoreInvIn(StoreAddProcess(s, j, pid))
BY WithJobKeepsInv, JobsAreJobs, JobWithProcessIsJob DEF StoreAddProcess, HasJob

LEMMA StoreSetStateKeepsInv ==
    ASSUME NEW s, StoreInvIn(s), NEW j, NEW st \in JobStates
    PROVE  StoreInvIn(StoreSetState(s, j, st))
BY WithJobKeepsInv, JobsAreJobs, JobWithStateIsJob DEF StoreSetState, HasJob

LEMMA StoreMarkNotifiedKeepsInv ==
    ASSUME NEW s, StoreInvIn(s), NEW j
    PROVE  StoreInvIn(StoreMarkNotified(s, j))
BY WithJobKeepsInv, JobsAreJobs, JobNotifiedIsJob DEF StoreMarkNotified, HasJob

LEMMA StoreSetProcessStateKeepsInv ==
    ASSUME NEW s, StoreInvIn(s), NEW pid \in Pids, NEW st \in JobStates,
           NEW code \in Statuses
    PROVE  StoreInvIn(StoreSetProcessState(s, pid, st, code))
<1> DEFINE f == [j \in DOMAIN s.jobs |->
                    IF IsNewest(j, Holders(s, pid))
                    THEN JobWithProcessState(s.jobs[j], pid, st, code)
                    ELSE s.jobs[j]]
<1>1. \A j \in DOMAIN s.jobs :
         s.jobs[j] \in Job /\ JobWithProcessState(s.jobs[j], pid, st, code) \in Job
  BY JobsAreJobs, JobWithProcessStateIsJob
<1>2. f \in [DOMAIN s.jobs -> Job]
  BY <1>1
<1> QED
  BY <1>2, SameLinks DEF StoreSetProcessState

LEMMA StorePrintCompletedKeepsInv ==
    ASSUME NEW s, StoreInvIn(s)
    PROVE  StoreInvIn(StorePrintCompleted(s))
<1> DEFINE f == [j \in DOMAIN s.jobs |->
                    IF IsCompleted(s.jobs[j]) THEN JobNotified(s.jobs[j]) ELSE s.jobs[j]]
<1>1. f \in [DOMAIN s.jobs -> Job]
  BY JobsAreJobs, JobNotifiedIsJob
<1> QED
  BY <1>1, SameLinks DEF StorePrintCompleted

LEMMA StoreRemoveKeepsInv ==
    ASSUME NEW s, StoreInvIn(s), NEW j
    PROVE  StoreInvIn(StoreRemove(s, j))
BY WithoutKeepsInv DEF StoreRemove, HasJob

LEMMA StoreRemoveCompletedKeepsInv ==
    ASSUME NEW s, StoreInvIn(s)
    PROVE  StoreInvIn(StoreRemoveCompleted(s))
<1>1. Disposable(s) \in SUBSET DOMAIN s.jobs
  BY DEF Disposable
<1> QED
  BY <1>1, WithoutKeepsInv DEF StoreRemoveCompleted

-----------------------------------------------------------------------------
(* The table under any sequence of calls.                                  *)

LEMMA NextKeepsInv == StoreInv /\ [StoreNext]_store => StoreInv'
<1> SUFFICES ASSUME StoreInv, [StoreNext]_store PROVE StoreInv'
  OBVIOUS
<1> USE DEF StoreInv
<1>1. ASSUME NEW bg \in BOOLEAN, DoAdd(bg) PROVE StoreInv'
  BY <1>1, StoreAddKeepsInv DEF DoAdd
<1>2. ASSUME NEW j \in JobIds, NEW pid \in Pids, DoAddProcess(j, pid) PROVE StoreInv'
  BY <1>2, StoreAddProcessKeepsInv DEF DoAddProcess
<1>3. ASSUME NEW j \in JobIds, NEW st \in JobStates, DoSetState(j, st) PROVE StoreInv'
  BY <1>3, StoreSetStateKeepsInv DEF DoSetState
<1>4. ASSUME NEW pid \in Pids, NEW st \in JobStates, NEW code \in Statuses,
             DoSetProcessState(pid, st, code)
      PROVE  StoreInv'
  BY <1>4, StoreSetProcessStateKeepsInv DEF DoSetProcessState
<1>5. ASSUME NEW j \in JobIds, DoMarkNotified(j) PROVE StoreInv'
  BY <1>5, StoreMarkNotifiedKeepsInv DEF DoMarkNotified
<1>6. CASE DoPrintCompleted
  BY <1>6, StorePrintCompletedKeepsInv DEF DoPrintCompleted
<1>7. ASSUME NEW j \in JobIds, DoRemove(j) PROVE StoreInv'
  BY <1>7, StoreRemoveKeepsInv DEF DoRemove
<1>8. CASE DoRemoveCompleted
  BY <1>8, StoreRemoveCompletedKeepsInv DEF DoRemoveCompleted
<1>9. CASE UNCHANGED store
  BY <1>9
<1> QED
  BY <1>1, <1>2, <1>3, <1>4, <1>5, <1>6, <1>7, <1>8, <1>9 DEF StoreNext

\* The inductive invariant of the table.
THEOREM StoreInvariant == StoreSpec => []StoreInv
<1>1. StoreInit => StoreInv
  BY InitialStore DEF StoreInit, StoreInv
<1> QED
  BY <1>1, NextKeepsInv, PTL DEF StoreSpec

\* The table keeps its type: job_store.c never makes a job_store_t of another shape.
THEOREM StoreTypeCorrect == StoreSpec => []StoreTypeOK
<1>1. StoreInv => StoreTypeOK
  BY DEF StoreInv, StoreInvIn, StoreTypeOK
<1> QED
  BY <1>1, StoreInvariant, PTL

\* No removal leaves current_job or previous_job at a node that was freed.
THEOREM PointersAlwaysValid == StoreSpec => []PointersValid
<1>1. StoreInv => PointersValid
  BY DEF StoreInv, StoreInvIn, PointersValid
<1> QED
  BY <1>1, StoreInvariant, PTL

\* job_count is the length of the list after every call.
THEOREM CountAlwaysMatches == StoreSpec => []CountMatches
<1>1. StoreInv => CountMatches
  BY DEF StoreInv, StoreInvIn, CountMatches
<1> QED
  BY <1>1, StoreInvariant, PTL

\* The step that gives a job a number gives one that was never given before.
THEOREM NumbersAreFresh == StoreSpec => IdsNeverReused
<1> DEFINE Fresh == /\ store'.next_job_id >= store.next_job_id
                    /\ \A j \in DOMAIN store'.jobs \ DOMAIN store.jobs :
                          store.next_job_id <= j /\ j < store'.next_job_id
<1>1. StoreInv /\ [StoreNext]_store => [Fresh]_store
  <2> SUFFICES ASSUME StoreInv, StoreNext PROVE Fresh
    OBVIOUS
  <2>1. store.next_job_id \in Int
    BY StoreAssumption DEF StoreInv, StoreInvIn, IsStore
  <2>2. ASSUME NEW bg \in BOOLEAN, DoAdd(bg) PROVE Fresh
    BY <2>1, <2>2 DEF DoAdd, StoreAdd
  <2>3. ASSUME NEW j \in JobIds, NEW pid \in Pids, DoAddProcess(j, pid) PROVE Fresh
    BY <2>1, <2>3 DEF DoAddProcess, StoreAddProcess, WithJob
  <2>4. ASSUME NEW j \in JobIds, NEW st \in JobStates, DoSetState(j, st) PROVE Fresh
    BY <2>1, <2>4 DEF DoSetState, StoreSetState, WithJob
  <2>5. ASSUME NEW pid \in Pids, NEW st \in JobStates, NEW code \in Statuses,
               DoSetProcessState(pid, st, code)
        PROVE  Fresh
    BY <2>1, <2>5 DEF DoSetProcessState, StoreSetProcessState
  <2>6. ASSUME NEW j \in JobIds, DoMarkNotified(j) PROVE Fresh
    BY <2>1, <2>6 DEF DoMarkNotified, StoreMarkNotified, WithJob
  <2>7. CASE DoPrintCompleted
    BY <2>1, <2>7 DEF DoPrintCompleted, StorePrintCompleted
  <2>8. ASSUME NEW j \in JobIds, DoRemove(j) PROVE Fresh
    BY <2>1, <2>8 DEF DoRemove, StoreRemove, Without
  <2>9. CASE DoRemoveCompleted
    BY <2>1, <2>9 DEF DoRemoveCompleted, StoreRemoveCompleted, Without
  <2> QED
    BY <2>2, <2>3, <2>4, <2>5, <2>6, <2>7, <2>8, <2>9 DEF StoreNext
<1> QED
  BY <1>1, StoreInvariant, PTL DEF StoreSpec, IdsNeverReused

-----------------------------------------------------------------------------
(* The table and the children: the inductive invariant.                    *)

\* exec_in_frame gives a job one process, which names its group.
AllSingle(s) ==
    \A j \in DOMAIN s.jobs :
        /\ Len(s.jobs[j].processes) = 1
        /\ s.jobs[j].processes[1].pid = s.jobs[j].pgid

\* A job that names the group p was started before the one that p belongs to now.
IsOwner(s, j, p) ==
    /\ HasJob(s, j) /\ ~IsCompleted(s.jobs[j]) /\ s.jobs[j].pgid = p
    /\ \A k \in DOMAIN s.jobs : s.jobs[k].pgid = p => k <= j

\* The table is that of the jobs started, or empty.
TableFollows ==
    IF HasStore THEN store.next_job_id = started + 1 ELSE store = StoreCreate

\* Every child has its job, and a zombie has ended in some way.
ChildrenAreOwned ==
    \A p \in Pids : Exists(p) =>
        /\ child[p].job \in JobIds
        /\ IsZombie(p) => Fate(p) \in Endings
        /\ HasStore => IsOwner(store, child[p].job, p)

\* What a blocking builtin waits for is there, and wait %n has not seen its end.
BlockedOnJob ==
    /\ pc \in {"wait_job", "fg"} => HasJob(store, target)
    /\ pc = "wait_job" => ~IsCompleted(store.jobs[target])
    /\ pc = "wait_pid" => target \in WaitOperands

TableInv ==
    /\ StoreInv /\ AllSingle(store)
    /\ CompletedJobsTellTheirFate /\ StateAgreesOnCompletion

IInv == TypeOK /\ TableInv /\ TableFollows /\ ChildrenAreOwned /\ BlockedOnJob

\* Without wait -1, which records a fate under no pid, a job that is not over has its process.
NoneIsLost ==
    HasStore => \A j \in DOMAIN store.jobs : ~IsCompleted(store.jobs[j]) =>
                   \E p \in Pids : Exists(p) /\ child[p].job = j

-----------------------------------------------------------------------------
(* Jobs with one process, and what the operations of the table do to them. *)

LEMMA SingleJob ==
    ASSUME NEW job \in Job, Len(job.processes) = 1
    PROVE  /\ job.processes # <<>> /\ DOMAIN job.processes = {1}
           /\ job.processes[1] \in Process
           /\ IsCompleted(job) <=> job.processes[1].state \in Finished
           /\ FirstStatus(job) = job.processes[1].exit_status
           /\ FirstStatus(job) \in Statuses
<1>1. job.processes \in Seq(Process)
  BY DEF Job
<1>2. DOMAIN job.processes = {1} /\ job.processes # <<>>
  <2>1. DOMAIN job.processes = 1..1
    BY <1>1
  <2>2. Len(<<>>) = 0
    OBVIOUS
  <2> QED
    BY <2>1, <2>2
<1>3. job.processes[1] \in Process
  BY <1>1, <1>2
<1> QED
  BY <1>2, <1>3 DEF IsCompleted, FirstStatus, Process

LEMMA SingleJobOf ==
    ASSUME NEW s, StoreInvIn(s), AllSingle(s), NEW j \in DOMAIN s.jobs
    PROVE  /\ s.jobs[j] \in Job /\ Len(s.jobs[j].processes) = 1
           /\ s.jobs[j].pgid = s.jobs[j].processes[1].pid
           /\ DOMAIN s.jobs[j].processes = {1}
           /\ s.jobs[j].processes[1] \in Process
           /\ IsCompleted(s.jobs[j]) <=> s.jobs[j].processes[1].state \in Finished
           /\ FirstStatus(s.jobs[j]) = s.jobs[j].processes[1].exit_status
           /\ FirstStatus(s.jobs[j]) \in Statuses
<1>1. s.jobs[j] \in Job
  BY JobsAreJobs
<1> QED
  BY <1>1, SingleJob DEF AllSingle

\* A job replaced: the others and the numbers stay.
LEMMA ReplacedJob ==
    ASSUME NEW s, StoreInvIn(s), NEW j \in DOMAIN s.jobs, NEW job
    PROVE  /\ DOMAIN WithJob(s, j, job).jobs = DOMAIN s.jobs
           /\ WithJob(s, j, job).next_job_id = s.next_job_id
           /\ WithJob(s, j, job).jobs[j] = job
           /\ \A k \in DOMAIN s.jobs \ {j} : WithJob(s, j, job).jobs[k] = s.jobs[k]
<1> DEFINE t == WithJob(s, j, job)
<1>1. t.jobs = [s.jobs EXCEPT ![j] = job] /\ t.next_job_id = s.next_job_id
  BY DEF WithJob
<1>2. s.jobs \in [DOMAIN s.jobs -> Job]
  BY DEF StoreInvIn, IsStore
<1> QED
  BY <1>1, <1>2

LEMMA ProcessAdded ==
    ASSUME NEW s, StoreInvIn(s), NEW j \in DOMAIN s.jobs, NEW p,
           NEW t, t = StoreAddProcess(s, j, p)
    PROVE  /\ DOMAIN t.jobs = DOMAIN s.jobs /\ t.next_job_id = s.next_job_id
           /\ t.jobs[j] = JobWithProcess(s.jobs[j], p)
           /\ \A k \in DOMAIN s.jobs \ {j} : t.jobs[k] = s.jobs[k]
<1>1. t = WithJob(s, j, JobWithProcess(s.jobs[j], p))
  BY DEF StoreAddProcess, HasJob
<1> QED
  BY <1>1, ReplacedJob

\* exec_in_frame: a job and its process.
LEMMA StartedJob ==
    ASSUME NEW s, StoreInvIn(s), AllSingle(s), s.next_job_id <= MaxJobs, NEW p \in Pids,
           NEW bg \in BOOLEAN,
           NEW t, t = StoreAddProcess(StoreAdd(s, bg), s.next_job_id, p)
    PROVE  /\ StoreInvIn(t) /\ AllSingle(t)
           /\ s.next_job_id \in JobIds /\ s.next_job_id \notin DOMAIN s.jobs
           /\ \A j \in DOMAIN s.jobs : j < s.next_job_id
           /\ t.next_job_id = s.next_job_id + 1
           /\ DOMAIN t.jobs = DOMAIN s.jobs \cup {s.next_job_id}
           /\ \A j \in DOMAIN s.jobs : t.jobs[j] = s.jobs[j]
           /\ t.jobs[s.next_job_id].pgid = p
           /\ t.jobs[s.next_job_id].state = "running"
           /\ ~IsCompleted(t.jobs[s.next_job_id])
<1> DEFINE new == s.next_job_id
           u   == StoreAdd(s, bg)
           job == JobWithProcess(NewJob(bg), p)
<1>1. StoreInvIn(u) /\ StoreInvIn(t)
  BY StoreAddKeepsInv, StoreAddProcessKeepsInv
<1>2. new \in JobIds /\ new \notin DOMAIN s.jobs /\ \A j \in DOMAIN s.jobs : j < new
  BY StoreAssumption DEF StoreInvIn, IsStore, IdsBelowNextIn, JobIds
<1>3. /\ DOMAIN u.jobs = DOMAIN s.jobs \cup {new} /\ u.next_job_id = new + 1
      /\ u.jobs[new] = NewJob(bg) /\ \A j \in DOMAIN s.jobs : u.jobs[j] = s.jobs[j]
  BY <1>2 DEF StoreAdd
<1>4. /\ DOMAIN t.jobs = DOMAIN s.jobs \cup {new} /\ t.next_job_id = new + 1
      /\ t.jobs[new] = job /\ \A j \in DOMAIN s.jobs : t.jobs[j] = s.jobs[j]
  <2>1. /\ DOMAIN t.jobs = DOMAIN u.jobs /\ t.next_job_id = u.next_job_id
        /\ t.jobs[new] = JobWithProcess(u.jobs[new], p)
        /\ \A k \in DOMAIN u.jobs \ {new} : t.jobs[k] = u.jobs[k]
    <3>1. new \in DOMAIN u.jobs /\ t = StoreAddProcess(u, new, p)
      BY <1>3
    <3> QED
      BY <1>1, <3>1, ProcessAdded
  <2> QED
    BY <1>2, <1>3, <2>1
<1>5. /\ job \in Job /\ job.pgid = p /\ job.state = "running"
      /\ job.processes = <<NewProcess(p)>>
  <2>1. NewJob(bg) \in Job
    BY NewJobIsJob
  <2>2. job \in Job
    BY <2>1, JobWithProcessIsJob
  <2> QED
    BY <2>2 DEF JobWithProcess, NewJob
<1>6. Len(job.processes) = 1 /\ job.processes[1] = NewProcess(p)
  <2> HIDE DEF job
  <2> QED
    BY <1>5
<1>7. ~IsCompleted(job)
  <2> HIDE DEF job
  <2>1. IsCompleted(job) <=> NewProcess(p).state \in Finished
    BY <1>5, <1>6, SingleJob
  <2> QED
    BY <2>1 DEF NewProcess, Finished
<1>8. AllSingle(t)
  <2> SUFFICES ASSUME NEW j \in DOMAIN t.jobs
               PROVE  /\ Len(t.jobs[j].processes) = 1
                      /\ t.jobs[j].processes[1].pid = t.jobs[j].pgid
    BY DEF AllSingle
  <2>1. CASE j = new
    <3>1. t.jobs[j] = job /\ NewProcess(p).pid = p
      BY <2>1, <1>4 DEF NewProcess
    <3> HIDE DEF job
    <3> QED
      BY <3>1, <1>5, <1>6
  <2>2. CASE j # new
    BY <2>2, <1>4 DEF AllSingle
  <2> QED
    BY <2>1, <2>2
<1> HIDE DEF job
<1> QED
  BY <1>1, <1>2, <1>4, <1>5, <1>7, <1>8

\* A status is recorded in the job that started last under this pid, and nowhere else.
LEMMA RecordedStatus ==
    ASSUME NEW s, StoreInvIn(s), AllSingle(s), NEW h \in DOMAIN s.jobs, NEW pid \in Pids,
           s.jobs[h].pgid = pid,
           \A k \in DOMAIN s.jobs : s.jobs[k].pgid = pid => k <= h,
           NEW st \in JobStates, NEW code \in Statuses,
           NEW t, t = StoreSetProcessState(s, pid, st, code)
    PROVE  /\ StoreInvIn(t) /\ AllSingle(t) /\ t.next_job_id = s.next_job_id
           /\ DOMAIN t.jobs = DOMAIN s.jobs
           /\ \A j \in DOMAIN s.jobs \ {h} : t.jobs[j] = s.jobs[j]
           /\ t.jobs[h].pgid = pid /\ t.jobs[h].state = st
           /\ t.jobs[h].is_notified = s.jobs[h].is_notified
           /\ IsCompleted(t.jobs[h]) <=> st \in Finished
           /\ FirstStatus(t.jobs[h]) = code
<1>1. StoreInvIn(t)
  BY StoreSetProcessStateKeepsInv
<1>2. Holders(s, pid) = {j \in DOMAIN s.jobs : s.jobs[j].pgid = pid}
  BY SingleJobOf DEF Holders
<1>3. \A j \in DOMAIN s.jobs : IsNewest(j, Holders(s, pid)) <=> j = h
  <2>1. DOMAIN s.jobs \subseteq Nat
    BY StoreAssumption DEF StoreInvIn, IsStore, JobIds
  <2> QED
    BY <1>2, <2>1 DEF IsNewest
<1> DEFINE job == JobWithProcessState(s.jobs[h], pid, st, code)
<1>4. /\ DOMAIN t.jobs = DOMAIN s.jobs /\ t.next_job_id = s.next_job_id
      /\ t.jobs[h] = job /\ \A j \in DOMAIN s.jobs \ {h} : t.jobs[j] = s.jobs[j]
  BY <1>3 DEF StoreSetProcessState
<1>5. job \in Job
  BY JobWithProcessStateIsJob, JobsAreJobs
<1>6. /\ job.pgid = pid /\ job.state = st /\ job.is_notified = s.jobs[h].is_notified
      /\ Len(job.processes) = 1
      /\ job.processes[1] = [pid |-> pid, state |-> st, exit_status |-> code]
  <2> DEFINE procs == [i \in DOMAIN s.jobs[h].processes |->
                          IF IsFirst(i, s.jobs[h].processes, pid)
                          THEN [pid |-> pid, state |-> st, exit_status |-> code]
                          ELSE s.jobs[h].processes[i]]
  <2>1. DOMAIN s.jobs[h].processes = {1} /\ s.jobs[h].processes[1].pid = pid
    BY SingleJobOf
  <2>2. IsFirst(1, s.jobs[h].processes, pid)
    BY <2>1 DEF IsFirst
  <2>3. DOMAIN procs = {1} /\ procs[1] = [pid |-> pid, state |-> st, exit_status |-> code]
    BY <2>1, <2>2
  <2>4. job.processes = procs
    BY DEF JobWithProcessState
  <2>5. UpdatedState(procs, s.jobs[h].state) = st
    <3>1. procs # <<>>
      BY <2>3
    <3>2. procs[1].state = st
      BY <2>3
    <3>3. \A x \in JobStates : SomeProcessIs(procs, x) <=> st = x
      BY <2>3, <3>2 DEF SomeProcessIs
    <3> QED
      BY <3>1, <3>3 DEF UpdatedState, JobStates
  <2>6. Len(job.processes) = 1
    <3>1. job.processes \in Seq(Process)
      BY <1>5 DEF Job
    <3>2. DOMAIN job.processes = {1}
      BY <2>3, <2>4
    <3> HIDE DEF job, procs
    <3>3. Len(job.processes) \in Nat /\ DOMAIN job.processes = 1..Len(job.processes)
      BY <3>1
    <3>4. 1 \in 1..Len(job.processes)
      BY <3>2, <3>3
    <3>5. Len(job.processes) \in 1..Len(job.processes)
      BY <3>3, <3>4
    <3> QED
      BY <3>2, <3>3, <3>5
  <2> QED
    BY <2>3, <2>4, <2>5, <2>6 DEF JobWithProcessState
<1>7. IsCompleted(job) <=> st \in Finished
  BY <1>5, <1>6, SingleJob
<1>8. FirstStatus(job) = code
  BY <1>5, <1>6, SingleJob
<1>9. AllSingle(t)
  <2> SUFFICES ASSUME NEW j \in DOMAIN t.jobs
               PROVE  /\ Len(t.jobs[j].processes) = 1
                      /\ t.jobs[j].processes[1].pid = t.jobs[j].pgid
    BY DEF AllSingle
  <2>1. CASE j = h
    BY <2>1, <1>4, <1>6
  <2>2. CASE j # h
    BY <2>2, <1>4 DEF AllSingle
  <2> QED
    BY <2>1, <2>2
<1> HIDE DEF job
<1> QED
  BY <1>1, <1>4, <1>6, <1>7, <1>8, <1>9

-----------------------------------------------------------------------------
(* Steps, seen from the table.                                             *)

\* A script keeps no table.
LEMMA JobsNeedAStore ==
    ASSUME IInv, DOMAIN store.jobs # {}
    PROVE  HasStore
BY DEF IInv, TableFollows, StoreCreate

LEMMA InitJobControl == Init => IInv /\ NoneIsLost
<1> SUFFICES ASSUME Init PROVE IInv /\ NoneIsLost
  OBVIOUS
<1>1. store = StoreCreate /\ DOMAIN store.jobs = {} /\ store.next_job_id = 1
  BY DEF Init, StoreInit, StoreCreate
<1>2. \A p \in Pids : child[p].st = "free" /\ child[p] \in Child
  BY DEF Init, FreePid, Child
<1>3. StoreInv
  BY <1>1, InitialStore DEF StoreInv
<1>4. TypeOK
  <2>1. StoreTypeOK
    BY <1>3 DEF StoreTypeOK, StoreInv, StoreInvIn
  <2>2. child \in [Pids -> Child]
    BY <1>2 DEF Init
  <2>3. ending \in [JobIds -> Endings \cup {None}]
    BY DEF Init
  <2>4. started \in 0..MaxJobs /\ target \in JobOperands \cup WaitOperands
    BY StoreAssumption DEF Init, JobOperands
  <2> QED
    BY <2>1, <2>2, <2>3, <2>4 DEF Init, TypeOK, ShellStatuses
<1>5. TableInv /\ TableFollows /\ NoneIsLost
  BY <1>1, <1>3
     DEF Init, TableInv, TableFollows, AllSingle, CompletedJobsTellTheirFate,
         StateAgreesOnCompletion, NoneIsLost
<1>6. ChildrenAreOwned /\ BlockedOnJob
  BY <1>2 DEF Init, ChildrenAreOwned, BlockedOnJob, Exists
<1> QED
  BY <1>4, <1>5, <1>6 DEF IInv

\* Two tables that tell the same of every process.
SameFates(s, t) ==
    /\ DOMAIN t.jobs = DOMAIN s.jobs /\ t.next_job_id = s.next_job_id
    /\ \A j \in DOMAIN s.jobs :
          /\ t.jobs[j].pgid = s.jobs[j].pgid
          /\ t.jobs[j].processes = s.jobs[j].processes
          /\ \/ t.jobs[j].state = s.jobs[j].state
             \/ t.jobs[j].state \notin Finished /\ s.jobs[j].state \notin Finished

LEMMA SameCompletion ==
    ASSUME NEW s, NEW t, StoreInvIn(s), AllSingle(s), StoreInvIn(t), SameFates(s, t)
    PROVE  /\ AllSingle(t)
           /\ \A j \in DOMAIN s.jobs :
                 /\ IsCompleted(t.jobs[j]) <=> IsCompleted(s.jobs[j])
                 /\ FirstStatus(t.jobs[j]) = FirstStatus(s.jobs[j])
<1>1. AllSingle(t)
  BY DEF AllSingle, SameFates
<1> SUFFICES ASSUME NEW j \in DOMAIN s.jobs
             PROVE  /\ IsCompleted(t.jobs[j]) <=> IsCompleted(s.jobs[j])
                    /\ FirstStatus(t.jobs[j]) = FirstStatus(s.jobs[j])
  BY <1>1
<1>2. j \in DOMAIN t.jobs /\ t.jobs[j].processes = s.jobs[j].processes
  BY DEF SameFates
<1>3. IsCompleted(s.jobs[j]) <=> s.jobs[j].processes[1].state \in Finished
  BY SingleJobOf
<1>4. IsCompleted(t.jobs[j]) <=> t.jobs[j].processes[1].state \in Finished
  BY <1>1, <1>2, SingleJobOf
<1> QED
  BY <1>2, <1>3, <1>4 DEF FirstStatus

\* A step of a child, a signal, fg or bg of a stopped job, a notification.
LEMMA TableStays ==
    ASSUME IInv, StoreInv', SameFates(store, store'), HasStore \/ store' = store,
           UNCHANGED <<started, interactive>>,
           \A p \in Pids : /\ Exists(p)' <=> Exists(p)
                           /\ Exists(p) => child'[p].job = child[p].job
                           /\ IsZombie(p)' => Fate(p)' \in Endings,
           \A j \in JobIds : \/ ending'[j] = ending[j]
                             \/ \E p \in Pids : Exists(p) /\ child[p].job = j
    PROVE  TableInv' /\ TableFollows' /\ ChildrenAreOwned' /\ (NoneIsLost => NoneIsLost')
<1>1. /\ AllSingle(store)'
      /\ \A j \in DOMAIN store.jobs :
            /\ IsCompleted(store'.jobs[j]) <=> IsCompleted(store.jobs[j])
            /\ FirstStatus(store'.jobs[j]) = FirstStatus(store.jobs[j])
  BY SameCompletion DEF IInv, TableInv, StoreInv
<1>2. /\ DOMAIN store'.jobs = DOMAIN store.jobs /\ DOMAIN store.jobs \subseteq JobIds
      /\ store'.next_job_id = store.next_job_id
  BY DEF SameFates, IInv, TableInv, StoreInv, StoreInvIn, IsStore
<1>3. TableInv'
  <2>1. StateAgreesOnCompletion'
    BY <1>1, <1>2 DEF SameFates, IInv, TableInv, StateAgreesOnCompletion
  <2>2. CompletedJobsTellTheirFate'
    <3> SUFFICES ASSUME NEW j \in DOMAIN store.jobs, IsCompleted(store'.jobs[j])
                 PROVE  \/ /\ ending'[j].how = "exited" /\ store'.jobs[j].state = "done"
                           /\ FirstStatus(store'.jobs[j]) = ending'[j].code
                        \/ /\ ending'[j].how = "killed" /\ store'.jobs[j].state = "terminated"
                           /\ FirstStatus(store'.jobs[j]) \in {ending'[j].code, 128 + ending'[j].code}
      BY <1>2 DEF CompletedJobsTellTheirFate
    <3>1. IsCompleted(store.jobs[j])
      BY <1>1
    <3>2. ending'[j] = ending[j]
      BY <1>2, <3>1, JobsNeedAStore DEF IInv, ChildrenAreOwned, IsOwner
    <3>3. store'.jobs[j].state = store.jobs[j].state
      BY <3>1 DEF SameFates, IInv, TableInv, StateAgreesOnCompletion
    <3>4. FirstStatus(store'.jobs[j]) = FirstStatus(store.jobs[j])
      BY <1>1
    <3> QED
      BY <3>1, <3>2, <3>3, <3>4 DEF IInv, TableInv, CompletedJobsTellTheirFate
  <2> QED
    BY <1>1, <2>1, <2>2 DEF TableInv
<1>4. TableFollows'
  BY <1>2 DEF IInv, TableFollows, HasStore
<1>5. ChildrenAreOwned'
  <2> SUFFICES ASSUME NEW p \in Pids, Exists(p), HasStore
               PROVE  IsOwner(store', child[p].job, p)
    BY DEF IInv, ChildrenAreOwned, HasStore
  <2>1. IsOwner(store, child[p].job, p)
    BY DEF IInv, ChildrenAreOwned
  <2> QED
    BY <1>1, <1>2, <2>1 DEF IsOwner, HasJob, SameFates
<1>6. NoneIsLost => NoneIsLost'
  BY <1>1, <1>2 DEF NoneIsLost, HasStore
<1> QED
  BY <1>3, <1>4, <1>5, <1>6

\* A status is recorded under the pid of a child (job_store_set_process_state).
LEMMA StatusRecorded ==
    ASSUME IInv, HasStore, NEW p \in Pids, Exists(p), UNCHANGED <<ending, started, interactive>>,
           NEW st \in JobStates, NEW code \in Statuses,
           store' = StoreSetProcessState(store, p, st, code),
           \/ st \notin Finished
           \/ Fate(p).how = "exited" /\ st = "done" /\ code = Fate(p).code
           \/ /\ Fate(p).how = "killed" /\ st = "terminated"
              /\ code \in {Fate(p).code, 128 + Fate(p).code}
    PROVE  /\ TableInv' /\ TableFollows'
           /\ DOMAIN store'.jobs = DOMAIN store.jobs
           /\ child[p].job \in DOMAIN store.jobs
           /\ \A j \in DOMAIN store.jobs \ {child[p].job} : store'.jobs[j] = store.jobs[j]
           /\ store'.jobs[child[p].job].pgid = p
           /\ IsCompleted(store'.jobs[child[p].job]) <=> st \in Finished
           /\ FirstStatus(store'.jobs[child[p].job]) = code
<1> DEFINE h == child[p].job
<1>1. /\ h \in DOMAIN store.jobs /\ ~IsCompleted(store.jobs[h]) /\ store.jobs[h].pgid = p
      /\ \A k \in DOMAIN store.jobs : store.jobs[k].pgid = p => k <= h
  BY DEF IInv, ChildrenAreOwned, IsOwner, HasJob
<1>2. /\ StoreInvIn(store') /\ AllSingle(store') /\ store'.next_job_id = store.next_job_id
      /\ DOMAIN store'.jobs = DOMAIN store.jobs
      /\ \A j \in DOMAIN store.jobs \ {h} : store'.jobs[j] = store.jobs[j]
      /\ store'.jobs[h].pgid = p /\ store'.jobs[h].state = st
      /\ IsCompleted(store'.jobs[h]) <=> st \in Finished
      /\ FirstStatus(store'.jobs[h]) = code
  BY <1>1, RecordedStatus DEF IInv, TableInv, StoreInv
<1>3. StateAgreesOnCompletion'
  <2> SUFFICES ASSUME NEW j \in DOMAIN store.jobs
               PROVE  store'.jobs[j].state \in Finished <=> IsCompleted(store'.jobs[j])
    BY <1>2 DEF StateAgreesOnCompletion
  <2>1. CASE j = h
    BY <1>2, <2>1
  <2>2. CASE j # h
    BY <1>2, <2>2 DEF IInv, TableInv, StateAgreesOnCompletion
  <2> QED
    BY <2>1, <2>2
<1>4. CompletedJobsTellTheirFate'
  <2> SUFFICES ASSUME NEW j \in DOMAIN store.jobs, IsCompleted(store'.jobs[j])
               PROVE  \/ /\ ending[j].how = "exited" /\ store'.jobs[j].state = "done"
                         /\ FirstStatus(store'.jobs[j]) = ending[j].code
                      \/ /\ ending[j].how = "killed" /\ store'.jobs[j].state = "terminated"
                         /\ FirstStatus(store'.jobs[j]) \in {ending[j].code, 128 + ending[j].code}
    BY <1>2 DEF CompletedJobsTellTheirFate
  <2>1. CASE j = h
    BY <1>2, <2>1 DEF Fate, Finished
  <2>2. CASE j # h
    BY <1>2, <2>2 DEF IInv, TableInv, CompletedJobsTellTheirFate
  <2> QED
    BY <2>1, <2>2
<1>5. TableInv' /\ TableFollows'
  BY <1>2, <1>3, <1>4 DEF IInv, TableInv, TableFollows, StoreInv, HasStore
<1> QED
  BY <1>1, <1>2, <1>5

\* A status recorded under -1 is recorded nowhere.
LEMMA StatusLost ==
    ASSUME IInv, NEW st \in JobStates, NEW code \in Statuses
    PROVE  StoreSetProcessState(store, AnyPid, st, code) = store
<1>1. Holders(store, AnyPid) = {}
  <2>1. AnyPid \notin Pids
    BY StoreAssumption DEF AnyPid, NoPid
  <2>2. \A j \in DOMAIN store.jobs : /\ DOMAIN store.jobs[j].processes = {1}
                                     /\ store.jobs[j].processes[1].pid \in Pids
    BY SingleJobOf DEF IInv, TableInv, StoreInv, Process
  <2> QED
    BY <2>1, <2>2 DEF Holders
<1>2. \A j : ~IsNewest(j, Holders(store, AnyPid))
  BY <1>1 DEF IsNewest
<1>3. store.jobs \in [DOMAIN store.jobs -> Job]
  BY DEF IInv, TableInv, StoreInv, StoreInvIn, IsStore
<1>4. [j \in DOMAIN store.jobs |->
          IF IsNewest(j, Holders(store, AnyPid))
          THEN JobWithProcessState(store.jobs[j], AnyPid, st, code)
          ELSE store.jobs[j]] = store.jobs
  BY <1>2, <1>3
<1>5. store = [jobs |-> store.jobs, current_job |-> store.current_job,
               previous_job |-> store.previous_job, job_count |-> store.job_count,
               next_job_id |-> store.next_job_id]
  BY DEF IInv, TableInv, StoreInv, StoreInvIn, IsStore
<1> QED
  BY <1>4, <1>5 DEF StoreSetProcessState

\* waitpid returned a zombie: its pid is free, and its fate is recorded where it belongs
\* if it is recorded under its own pid.
LEMMA Collected ==
    ASSUME IInv, NEW p \in Pids, NEW as, as = p \/ as = AnyPid, NEW sigbase \in {0, 128},
           Collect(p, as, sigbase)
    PROVE  /\ child' \in [Pids -> Child] /\ TableInv' /\ TableFollows' /\ ChildrenAreOwned'
           /\ Exists(p) /\ ~Exists(p)' /\ Fate(p) \in Endings
           /\ DOMAIN store'.jobs = DOMAIN store.jobs
           /\ \A j \in DOMAIN store.jobs :
                 \/ store'.jobs[j] = store.jobs[j]
                 \/ /\ j = child[p].job /\ IsCompleted(store'.jobs[j])
                    /\ FirstStatus(store'.jobs[j]) = IF Fate(p).how = "exited" THEN Fate(p).code
                                                      ELSE sigbase + Fate(p).code
           /\ as = p /\ NoneIsLost => NoneIsLost'
<1>1. /\ Exists(p) /\ Fate(p) \in Endings
      /\ HasStore => IsOwner(store, child[p].job, p)
  BY DEF Collect, IsZombie, Exists, IInv, ChildrenAreOwned
<1>2. child' = [child EXCEPT ![p] = FreePid] /\ child \in [Pids -> Child] /\ FreePid \in Child
  BY DEF Collect, IInv, TypeOK, FreePid, Child
<1>3. child' \in [Pids -> Child] /\ ~Exists(p)'
  BY <1>2 DEF Exists, FreePid
<1>4. \A q \in Pids \ {p} : child'[q] = child[q]
  BY <1>2
<1>5. UNCHANGED <<ending, started, interactive>>
  BY DEF Collect
<1> DEFINE h    == child[p].job
           st   == IF Fate(p).how = "exited" THEN "done" ELSE "terminated"
           code == IF Fate(p).how = "exited" THEN Fate(p).code ELSE sigbase + Fate(p).code
<1>6. /\ st \in JobStates /\ code \in Statuses /\ st \in Finished
      /\ \/ Fate(p).how = "exited" /\ st = "done" /\ code = Fate(p).code
         \/ /\ Fate(p).how = "killed" /\ st = "terminated"
            /\ code \in {Fate(p).code, 128 + Fate(p).code}
  <2>1. CASE Fate(p).how = "exited"
    BY <1>1, <2>1, ControlAssumption DEF Endings, JobStates, Finished
  <2>2. CASE Fate(p).how # "exited"
    BY <1>1, <2>2, ControlAssumption DEF Endings, JobStates, Finished, KillSig
  <2> QED
    BY <2>1, <2>2
<1>7. store' = IF HasStore THEN StoreSetProcessState(store, as, st, code) ELSE store
  BY DEF Collect
<1> HIDE DEF st, code
<1>8. /\ TableInv' /\ TableFollows'
      /\ DOMAIN store'.jobs = DOMAIN store.jobs
      /\ \/ store' = store /\ (as = AnyPid \/ ~HasStore)
         \/ /\ HasStore /\ store'.jobs[h].pgid = p
            /\ IsCompleted(store'.jobs[h]) /\ FirstStatus(store'.jobs[h]) = code
            /\ \A j \in DOMAIN store.jobs \ {h} : store'.jobs[j] = store.jobs[j]
  <2>1. CASE HasStore /\ as = p
    BY <1>1, <1>5, <1>6, <1>7, <2>1, StatusRecorded
  <2>2. CASE ~HasStore \/ as = AnyPid
    <3>1. store' = store
      <4>1. StoreSetProcessState(store, AnyPid, st, code) = store
        BY <1>6, StatusLost
      <4>2. CASE HasStore
        <5>1. as = AnyPid
          BY <2>2, <4>2
        <5> QED
          BY <1>7, <4>1, <4>2, <5>1
      <4>3. CASE ~HasStore
        BY <1>7, <4>3
      <4> QED
        BY <4>2, <4>3
    <3> QED
      BY ZenonT(30), <2>2, <3>1, <1>5
      DEF IInv, TableInv, TableFollows, StoreInv, CompletedJobsTellTheirFate,
          StateAgreesOnCompletion, HasStore
  <2> QED
    BY <2>1, <2>2
<1>9. ChildrenAreOwned'
  <2> SUFFICES ASSUME NEW q \in Pids, Exists(q)'
               PROVE  /\ child'[q].job \in JobIds
                      /\ IsZombie(q)' => Fate(q)' \in Endings
                      /\ HasStore' => IsOwner(store', child'[q].job, q)
    BY DEF ChildrenAreOwned
  <2>1. q # p /\ child'[q] = child[q]
    BY <1>3, <1>4
  <2>2. /\ Exists(q) /\ child[q].job \in JobIds
        /\ IsZombie(q) => Fate(q) \in Endings
        /\ HasStore => IsOwner(store, child[q].job, q)
    BY <2>1 DEF Exists, IInv, ChildrenAreOwned
  <2>3. ASSUME HasStore PROVE IsOwner(store', child[q].job, q)
    <3>1. child[q].job # h
      BY <1>1, <2>1, <2>2, <2>3 DEF IsOwner
    <3>2. \A k \in DOMAIN store.jobs : store'.jobs[k].pgid = store.jobs[k].pgid
      BY <1>1, <1>8, <2>3 DEF IsOwner
    <3>3. child[q].job \in DOMAIN store.jobs /\ store'.jobs[child[q].job] = store.jobs[child[q].job]
      BY <1>8, <2>2, <2>3, <3>1 DEF IsOwner, HasJob
    <3> QED
      BY <1>8, <2>2, <2>3, <3>2, <3>3 DEF IsOwner, HasJob
  <2> QED
    BY <1>5, <2>1, <2>2, <2>3 DEF IsZombie, Fate, HasStore
<1>10. as = p /\ NoneIsLost => NoneIsLost'
  <2> SUFFICES ASSUME as = p, NoneIsLost, HasStore, NEW j \in DOMAIN store.jobs,
                      ~IsCompleted(store'.jobs[j])
               PROVE  \E q \in Pids : Exists(q)' /\ child'[q].job = j
    BY <1>5, <1>8 DEF NoneIsLost, HasStore
  <2>1. AnyPid \notin Pids
    BY StoreAssumption DEF AnyPid, NoPid
  <2>2. j # h /\ store'.jobs[j] = store.jobs[j]
    BY <1>8, <2>1
  <2>3. PICK q \in Pids : Exists(q) /\ child[q].job = j
    BY <2>2 DEF NoneIsLost
  <2>4. child'[q] = child[q]
    BY <1>4, <2>2, <2>3
  <2> QED
    BY <2>3, <2>4 DEF Exists
<1> QED
  BY <1>1, <1>3, <1>8, <1>9, <1>10 DEF code

-----------------------------------------------------------------------------
(* The actions.                                                            *)

\* What every step has to keep.
Kept == IInv' /\ (AnyPid \notin WaitOperands /\ NoneIsLost => NoneIsLost')

LEMMA SameStore ==
    ASSUME IInv, UNCHANGED store
    PROVE  StoreInv' /\ SameFates(store, store') /\ StoreTypeOK'
BY DEF IInv, TypeOK, StoreTypeOK, TableInv, StoreInv, SameFates

\* A signal ends, stops or continues children, and frees none.
LEMMA Delivered ==
    ASSUME IInv, NEW S \in SUBSET Pids, NEW sig \in Signals, Deliver(S, sig)
    PROVE  /\ child' \in [Pids -> Child] /\ ending' \in [JobIds -> Endings \cup {None}]
           /\ \A p \in Pids : /\ Exists(p)' <=> Exists(p)
                              /\ Exists(p) => child'[p].job = child[p].job
                              /\ IsZombie(p)' => Fate(p)' \in Endings
           /\ \A j \in JobIds : \/ ending'[j] = ending[j]
                                \/ \E p \in Pids : Exists(p) /\ child[p].job = j
<1> DEFINE killed == [how |-> "killed", code |-> KillSig]
<1>1. killed \in Endings
  BY DEF Endings
<1>2. \A c \in Child : /\ Signalled(c, sig) \in Child /\ Signalled(c, sig).job = c.job
                       /\ Signalled(c, sig).st = "free" <=> c.st = "free"
                       /\ Signalled(c, sig).st = "zombie" =>
                             \/ c.st = "zombie"
                             \/ sig = "KILL" /\ c.st \in {"running", "stopped"}
  BY ZenonT(30) DEF Signalled, Child, Signals
<1>3. \A p \in Pids : child'[p] = IF p \in S THEN Signalled(child[p], sig) ELSE child[p]
  BY DEF Deliver
<1>4. \A p \in Pids : child[p] \in Child
  BY DEF IInv, TypeOK
<1>5. child' \in [Pids -> Child]
  BY <1>2, <1>4 DEF Deliver
<1>6. \A j \in JobIds :
         ending'[j] = IF /\ sig = "KILL"
                         /\ \E p \in S : child[p].job = j /\ child[p].st \in {"running", "stopped"}
                      THEN killed ELSE ending[j]
  BY DEF Deliver
<1>7. ending' \in [JobIds -> Endings \cup {None}]
  BY <1>1 DEF Deliver, IInv, TypeOK
<1>8. ASSUME NEW p \in Pids
      PROVE  /\ Exists(p)' <=> Exists(p)
             /\ Exists(p) => child'[p].job = child[p].job
             /\ IsZombie(p)' => Fate(p)' \in Endings
  <2>1. Exists(p)' <=> Exists(p)
    BY <1>2, <1>3, <1>4 DEF Exists
  <2>2. child'[p].job = child[p].job
    BY <1>2, <1>3, <1>4
  <2>3. ASSUME IsZombie(p)' PROVE Fate(p)' \in Endings
    <3>1. Exists(p) /\ child[p].job \in JobIds
      BY <2>1, <2>3 DEF Exists, IsZombie, IInv, ChildrenAreOwned
    <3>2. CASE IsZombie(p)
      BY <1>1, <1>6, <2>2, <3>1, <3>2 DEF Fate, IInv, ChildrenAreOwned
    <3>3. CASE ~IsZombie(p)
      <4>1. p \in S /\ sig = "KILL" /\ child[p].st \in {"running", "stopped"}
        BY <1>2, <1>3, <1>4, <2>3, <3>3 DEF IsZombie
      <4> QED
        BY <1>1, <1>6, <2>2, <3>1, <4>1 DEF Fate
    <3> QED
      BY <3>2, <3>3
  <2> QED
    BY <2>1, <2>2, <2>3
<1>9. \A j \in JobIds : \/ ending'[j] = ending[j]
                        \/ \E p \in Pids : Exists(p) /\ child[p].job = j
  BY <1>6 DEF Exists
<1> QED
  BY <1>5, <1>7, <1>8, <1>9

LEMMA EnvironmentKeeps ==
    ASSUME IInv, NEW p \in Pids, Environment(p)
    PROVE  Kept
<1>1. UNCHANGED shellvars /\ UNCHANGED started
  BY DEF Environment, ChildSetPgid, ChildExit, SignalPid, Deliver
<1>2. /\ child' \in [Pids -> Child] /\ ending' \in [JobIds -> Endings \cup {None}]
      /\ \A q \in Pids : /\ Exists(q)' <=> Exists(q)
                         /\ Exists(q) => child'[q].job = child[q].job
                         /\ IsZombie(q)' => Fate(q)' \in Endings
      /\ \A j \in JobIds : \/ ending'[j] = ending[j]
                           \/ \E q \in Pids : Exists(q) /\ child[q].job = j
  <2>1. ASSUME NEW sig \in Signals, SignalPid(p, sig) PROVE <1>2
    BY <2>1, Delivered DEF SignalPid
  <2>2. CASE ChildSetPgid(p)
    <3>1. /\ child' \in [Pids -> Child]
          /\ \A q \in Pids : child'[q].st = child[q].st /\ child'[q].job = child[q].job
      BY <2>2 DEF ChildSetPgid, IInv, TypeOK, Child
    <3>2. ending' = ending
      BY <2>2 DEF ChildSetPgid
    <3> QED
      BY <3>1, <3>2 DEF Exists, IsZombie, Fate, IInv, TypeOK, ChildrenAreOwned
  <2>3. ASSUME NEW code \in ExitCodes, ChildExit(p, code) PROVE <1>2
    <3> DEFINE e == [how |-> "exited", code |-> code]
    <3>1. e \in Endings /\ Exists(p) /\ child[p].job \in JobIds
      BY <2>3 DEF Endings, ChildExit, Exists, IInv, ChildrenAreOwned
    <3>2. /\ child' \in [Pids -> Child]
          /\ \A q \in Pids : /\ child'[q].st = IF q = p THEN "zombie" ELSE child[q].st
                             /\ child'[q].job = child[q].job
      BY <2>3 DEF ChildExit, IInv, TypeOK, Child
    <3>3. /\ ending' \in [JobIds -> Endings \cup {None}]
          /\ \A j \in JobIds : ending'[j] = IF j = child[p].job THEN e ELSE ending[j]
      BY <2>3, <3>1 DEF ChildExit, IInv, TypeOK
    <3>4. \A q \in Pids : Exists(q)' <=> Exists(q)
      BY <3>1, <3>2 DEF Exists
    <3>5. ASSUME NEW q \in Pids, IsZombie(q)' PROVE Fate(q)' \in Endings
      <4>1. q = p \/ IsZombie(q)
        BY <3>2, <3>5 DEF IsZombie
      <4>2. child[q].job \in JobIds /\ (IsZombie(q) => Fate(q) \in Endings)
        BY <3>1, <4>1 DEF IsZombie, Exists, IInv, ChildrenAreOwned
      <4> QED
        BY <3>1, <3>2, <3>3, <4>1, <4>2 DEF Fate
    <3> QED
      BY <3>1, <3>2, <3>3, <3>4, <3>5
  <2> QED
    BY <2>1, <2>2, <2>3 DEF Environment
<1>3. TableInv' /\ TableFollows' /\ ChildrenAreOwned' /\ (NoneIsLost => NoneIsLost')
  BY <1>1, <1>2, SameStore, TableStays DEF shellvars
<1>4. TypeOK'
  BY <1>1, <1>2 DEF shellvars, reapvars, IInv, TypeOK, StoreTypeOK
<1>5. BlockedOnJob'
  BY <1>1 DEF shellvars, IInv, BlockedOnJob
<1> QED
  BY <1>3, <1>4, <1>5 DEF Kept, IInv

\* Where the shell is, and what its own variables hold.
ShellTypeOK ==
    /\ pc \in {"prompt", "reap", "notify", "purge", "wait_job", "wait_pid",
               "wait_all", "fg", "exited", "aborted"}
    /\ target \in JobOperands \cup WaitOperands
    /\ notify \in BOOLEAN /\ after \in {"prompt", "exited"} /\ any_reaped \in BOOLEAN
    /\ status \in ShellStatuses

\* A step that only moves the shell.
LEMMA ShellMoves ==
    ASSUME IInv, UNCHANGED <<store, osvars, interactive>>, ShellTypeOK', BlockedOnJob'
    PROVE  Kept
<1>1. /\ UNCHANGED <<child, ending, started, interactive>>
      /\ StoreInv' /\ SameFates(store, store') /\ StoreTypeOK'
  BY SameStore DEF osvars
<1>2. /\ \A p \in Pids : /\ Exists(p)' <=> Exists(p)
                         /\ Exists(p) => child'[p].job = child[p].job
                         /\ IsZombie(p)' => Fate(p)' \in Endings
      /\ \A j \in JobIds : ending'[j] = ending[j]
  BY <1>1 DEF Exists, IsZombie, Fate, IInv, ChildrenAreOwned
<1>3. TableInv' /\ TableFollows' /\ ChildrenAreOwned' /\ (NoneIsLost => NoneIsLost')
  BY <1>1, <1>2, TableStays
<1>4. TypeOK'
  BY <1>1 DEF ShellTypeOK, IInv, TypeOK
<1> QED
  BY <1>3, <1>4 DEF Kept, IInv

LEMMA StartBackgroundKeeps ==
    ASSUME IInv, NEW p \in Pids, StartBackground(p)
    PROVE  Kept
<1> DEFINE new == started + 1
<1>1. /\ started' = new /\ new \in JobIds /\ ~Exists(p) /\ started \in Nat
      /\ UNCHANGED <<ending, interactive, pc, target, notify, after, any_reaped>>
      /\ status' = 0 /\ pc = "prompt"
  BY StoreAssumption DEF StartBackground, Stay, reapvars, IInv, TypeOK, JobIds
<1>2. /\ child' \in [Pids -> Child]
      /\ child'[p] = [st |-> "running", leader |-> FALSE, unseen |-> FALSE, job |-> new]
      /\ \A q \in Pids \ {p} : child'[q] = child[q]
  BY <1>1 DEF StartBackground, IInv, TypeOK, Child
<1>3. /\ Exists(p)' /\ ~IsZombie(p)'
      /\ \A q \in Pids \ {p} : (Exists(q)' <=> Exists(q)) /\ (IsZombie(q)' <=> IsZombie(q))
  BY <1>2 DEF Exists, IsZombie
<1>4. CASE HasStore
  <2>1. /\ store.next_job_id = new /\ store.next_job_id <= MaxJobs
        /\ StoreInvIn(store) /\ AllSingle(store)
    BY <1>1, <1>4 DEF IInv, TableFollows, TableInv, StoreInv, JobIds
  <2>2. PICK bg \in BOOLEAN :
           store' = StoreAddProcess(StoreAdd(store, bg), store.next_job_id, p)
    BY <1>4 DEF StartBackground
  <2>3. /\ StoreInvIn(store') /\ AllSingle(store')
        /\ new \notin DOMAIN store.jobs /\ \A j \in DOMAIN store.jobs : j < new
        /\ store'.next_job_id = new + 1
        /\ DOMAIN store'.jobs = DOMAIN store.jobs \cup {new}
        /\ \A j \in DOMAIN store.jobs : store'.jobs[j] = store.jobs[j]
        /\ store'.jobs[new].pgid = p /\ store'.jobs[new].state = "running"
        /\ ~IsCompleted(store'.jobs[new])
    BY <2>1, <2>2, StartedJob
  <2>4. TableInv'
    <3>1. StateAgreesOnCompletion'
      BY <2>3 DEF IInv, TableInv, StateAgreesOnCompletion, Finished
    <3>2. CompletedJobsTellTheirFate'
      BY <1>1, <2>3 DEF IInv, TableInv, CompletedJobsTellTheirFate
    <3> QED
      BY <2>3, <3>1, <3>2 DEF TableInv, StoreInv
  <2>5. TableFollows'
    BY <1>1, <1>4, <2>3 DEF TableFollows, HasStore
  <2>6. ChildrenAreOwned'
    <3> SUFFICES ASSUME NEW q \in Pids, Exists(q)'
                 PROVE  /\ child'[q].job \in JobIds
                        /\ IsZombie(q)' => Fate(q)' \in Endings
                        /\ HasStore' => IsOwner(store', child'[q].job, q)
      BY DEF ChildrenAreOwned
    <3>1. CASE q = p
      <4>1. \A k \in DOMAIN store'.jobs : k <= new
        BY <2>1, <2>3 DEF StoreInvIn, IsStore, JobIds
      <4> QED
        BY <1>1, <1>2, <1>3, <2>3, <3>1, <4>1 DEF IsOwner, HasJob
    <3>2. CASE q # p
      <4>1. /\ child'[q] = child[q] /\ Exists(q) /\ child[q].job \in JobIds
            /\ IsZombie(q) => Fate(q) \in Endings
            /\ IsOwner(store, child[q].job, q)
        BY <1>2, <1>3, <1>4, <3>2 DEF IInv, ChildrenAreOwned
      <4>2. IsOwner(store', child[q].job, q)
        BY <2>3, <3>2, <4>1 DEF IsOwner, HasJob
      <4> QED
        BY <1>1, <1>3, <3>2, <4>1, <4>2 DEF Fate
    <3> QED
      BY <3>1, <3>2
  <2>7. NoneIsLost => NoneIsLost'
    <3> SUFFICES ASSUME NoneIsLost, NEW j \in DOMAIN store'.jobs, ~IsCompleted(store'.jobs[j])
                 PROVE  \E q \in Pids : Exists(q)' /\ child'[q].job = j
      BY DEF NoneIsLost
    <3>1. CASE j = new
      BY <1>2, <1>3, <3>1
    <3>2. CASE j # new
      <4>1. PICK q \in Pids : Exists(q) /\ child[q].job = j
        BY <1>4, <2>3, <3>2 DEF NoneIsLost
      <4>2. q # p
        BY <1>1, <4>1
      <4> QED
        BY <1>2, <1>3, <4>1, <4>2
    <3> QED
      BY <3>1, <3>2
  <2>8. TypeOK'
    <3>1. StoreTypeOK'
      BY <2>3 DEF StoreTypeOK, StoreInvIn
    <3> QED
      BY <1>1, <1>2, <3>1 DEF IInv, TypeOK, ShellStatuses, JobIds
  <2>9. BlockedOnJob'
    BY <1>1 DEF BlockedOnJob
  <2> QED
    BY <2>4, <2>5, <2>6, <2>7, <2>8, <2>9 DEF Kept, IInv
<1>5. CASE ~HasStore
  <2>1. store' = store /\ ~HasStore'
    BY <1>1, <1>5 DEF StartBackground, HasStore
  <2>2. TableInv' /\ TableFollows' /\ NoneIsLost'
    BY <1>1, <1>5, <2>1
    DEF IInv, TableInv, TableFollows, StoreInv, CompletedJobsTellTheirFate,
        StateAgreesOnCompletion, NoneIsLost
  <2>3. ChildrenAreOwned'
    <3> SUFFICES ASSUME NEW q \in Pids, Exists(q)'
                 PROVE  child'[q].job \in JobIds /\ (IsZombie(q)' => Fate(q)' \in Endings)
      BY <2>1 DEF ChildrenAreOwned
    <3> QED
      BY <1>1, <1>2, <1>3 DEF Fate, IInv, ChildrenAreOwned
  <2>4. TypeOK'
    BY <1>1, <1>2, <2>1 DEF IInv, TypeOK, StoreTypeOK, ShellStatuses, JobIds
  <2>5. BlockedOnJob'
    BY <1>1 DEF BlockedOnJob
  <2> QED
    BY <2>2, <2>3, <2>4, <2>5 DEF Kept, IInv
<1> QED
  BY <1>4, <1>5

LEMMA CollectKeeps ==
    ASSUME IInv, NEW p \in Pids, NEW as, as = p \/ as = AnyPid, NEW sigbase \in {0, 128},
           Collect(p, as, sigbase), AnyPid \notin WaitOperands => as = p,
           ShellTypeOK', BlockedOnJob'
    PROVE  Kept
<1>1. child' \in [Pids -> Child] /\ TableInv' /\ TableFollows' /\ ChildrenAreOwned'
  BY ZenonT(30), Collected
<1>2. as = p /\ NoneIsLost => NoneIsLost'
  BY Collected
<1>3. UNCHANGED <<ending, started, interactive>>
  BY DEF Collect
<1>4. TypeOK'
  BY <1>1, <1>3 DEF IInv, TypeOK, ShellTypeOK, TableInv, StoreInv, StoreInvIn, StoreTypeOK
<1> QED
  BY <1>1, <1>2, <1>4 DEF Kept, IInv

LEMMA DeliverKeeps ==
    ASSUME IInv, NEW S \in SUBSET Pids, NEW sig \in Signals, Deliver(S, sig),
           UNCHANGED interactive, StoreInv', SameFates(store, store'),
           HasStore \/ store' = store, ShellTypeOK', BlockedOnJob'
    PROVE  Kept
<1>1. UNCHANGED started
  BY DEF Deliver
<1>2. /\ child' \in [Pids -> Child] /\ ending' \in [JobIds -> Endings \cup {None}]
      /\ TableInv' /\ TableFollows' /\ ChildrenAreOwned' /\ (NoneIsLost => NoneIsLost')
  BY <1>1, Delivered, TableStays
<1>3. TypeOK'
  BY <1>1, <1>2 DEF IInv, TypeOK, ShellTypeOK, TableInv, StoreInv, StoreInvIn, StoreTypeOK
<1> QED
  BY <1>2, <1>3 DEF Kept, IInv

\* The statuses that the builtins return are those a shell may return.
LEMMA StatusesAreTyped ==
    ASSUME IInv
    PROVE  /\ \A p \in Pids : Fate(p) \in Endings => ShellStatus(Fate(p)) \in ShellStatuses
           /\ \A j \in DOMAIN store.jobs : FirstStatus(store.jobs[j]) \in ShellStatuses
           /\ {0, 1, 127, 128 + StopSig} \subseteq ShellStatuses
<1>1. \A e \in Endings : ShellStatus(e) \in ShellStatuses
  BY ControlAssumption DEF Endings, ShellStatus, ShellStatuses, KillSig
<1>2. \A j \in DOMAIN store.jobs : FirstStatus(store.jobs[j]) \in Statuses
  BY SingleJobOf DEF IInv, TableInv, StoreInv
<1> QED
  BY <1>1, <1>2 DEF ShellStatuses

\* exec_reap_background_jobs: what it collects, and where it goes.
LEMMA ReapKeeps ==
    ASSUME IInv, ReapStart \/ Exit \/ (\E p \in Pids : ReapOne(p)) \/ ReapEnd
    PROVE  Kept
<1>1. ASSUME ReapStart \/ Exit \/ ReapEnd PROVE Kept
  <2>1. ShellTypeOK'
    BY <1>1 DEF ReapStart, Exit, Reap, ReapEnd, reapvars, ShellTypeOK, IInv, TypeOK
  <2>2. BlockedOnJob'
    BY <1>1 DEF ReapStart, Exit, Reap, ReapEnd, BlockedOnJob, IInv, TypeOK
  <2>3. UNCHANGED <<store, osvars, interactive>>
    BY <1>1 DEF ReapStart, Exit, Reap, ReapEnd
  <2> QED
    BY <2>1, <2>2, <2>3, ShellMoves
<1>2. ASSUME NEW p \in Pids, ReapOne(p) PROVE Kept
  <2>1. ShellTypeOK'
    BY <1>2 DEF ReapOne, ShellTypeOK, IInv, TypeOK
  <2>2. BlockedOnJob'
    BY <1>2 DEF ReapOne, BlockedOnJob
  <2>3. Collect(p, p, 128)
    BY <1>2 DEF ReapOne
  <2> QED
    BY <2>1, <2>2, <2>3, CollectKeeps
<1> QED
  BY <1>1, <1>2

\* job_store_print_completed_jobs
LEMMA ReapNotifyKeeps ==
    ASSUME IInv, ReapNotify
    PROVE  Kept
<1>1. /\ ShellTypeOK' /\ BlockedOnJob'
      /\ UNCHANGED <<child, ending, started, interactive>> /\ UNCHANGED <<osvars, interactive>>
  BY DEF ReapNotify, osvars, reapvars, ShellTypeOK, BlockedOnJob, IInv, TypeOK
<1>2. CASE HasStore
  <2>1. store' = StorePrintCompleted(store)
    BY <1>2 DEF ReapNotify
  <2>2. StoreInv'
    BY <2>1, StorePrintCompletedKeepsInv DEF IInv, TableInv, StoreInv
  <2>3. SameFates(store, store')
    BY <2>1 DEF StorePrintCompleted, SameFates, JobNotified
  <2>4. /\ \A p \in Pids : /\ Exists(p)' <=> Exists(p)
                           /\ Exists(p) => child'[p].job = child[p].job
                           /\ IsZombie(p)' => Fate(p)' \in Endings
        /\ \A j \in JobIds : ending'[j] = ending[j]
    BY <1>1 DEF Exists, IsZombie, Fate, IInv, ChildrenAreOwned
  <2>5. TableInv' /\ TableFollows' /\ ChildrenAreOwned' /\ (NoneIsLost => NoneIsLost')
    BY <1>1, <1>2, <2>2, <2>3, <2>4, TableStays
  <2>6. TypeOK'
    BY <1>1, <2>2 DEF IInv, TypeOK, ShellTypeOK, StoreInv, StoreInvIn, StoreTypeOK
  <2> QED
    BY <1>1, <2>5, <2>6 DEF Kept, IInv
<1>3. CASE ~HasStore
  BY <1>1, <1>3, ShellMoves DEF ReapNotify
<1> QED
  BY <1>2, <1>3

\* job_store_remove_completed: what goes is over, and no child's.
LEMMA Purged ==
    ASSUME IInv, store' = StoreRemoveCompleted(store)
    PROVE  /\ DOMAIN store'.jobs = DOMAIN store.jobs \ Disposable(store)
           /\ \A j \in DOMAIN store'.jobs : store'.jobs[j] = store.jobs[j]
           /\ store'.next_job_id = store.next_job_id
           /\ StoreInv'
<1>1. StoreInv'
  BY StoreRemoveCompletedKeepsInv DEF IInv, TableInv, StoreInv
<1> QED
  BY <1>1 DEF StoreRemoveCompleted, Without

LEMMA ReapPurgeKeeps ==
    ASSUME IInv, ReapPurge
    PROVE  Kept
<1>1. /\ ShellTypeOK' /\ BlockedOnJob'
      /\ UNCHANGED <<child, ending, started, interactive>> /\ UNCHANGED <<osvars, interactive>>
  BY DEF ReapPurge, osvars, ShellTypeOK, BlockedOnJob, IInv, TypeOK
<1>2. CASE HasStore
  <2>1. /\ DOMAIN store'.jobs = DOMAIN store.jobs \ Disposable(store)
        /\ \A j \in DOMAIN store'.jobs : store'.jobs[j] = store.jobs[j]
        /\ store'.next_job_id = store.next_job_id /\ StoreInv'
    BY <1>2, Purged DEF ReapPurge
  <2>2. TableInv'
    BY <1>1, <2>1
    DEF IInv, TableInv, AllSingle, CompletedJobsTellTheirFate, StateAgreesOnCompletion
  <2>3. TableFollows'
    BY <1>1, <1>2, <2>1 DEF IInv, TableFollows, HasStore
  <2>4. ChildrenAreOwned'
    <3> SUFFICES ASSUME NEW p \in Pids, Exists(p)
                 PROVE  /\ child[p].job \in JobIds /\ (IsZombie(p) => Fate(p) \in Endings)
                        /\ IsOwner(store', child[p].job, p)
      BY <1>1 DEF ChildrenAreOwned, Exists, IsZombie, Fate
    <3>1. /\ child[p].job \in JobIds /\ (IsZombie(p) => Fate(p) \in Endings)
          /\ IsOwner(store, child[p].job, p)
      BY <1>2 DEF IInv, ChildrenAreOwned
    <3>2. child[p].job \in DOMAIN store'.jobs
      BY <2>1, <3>1 DEF IsOwner, HasJob, Disposable
    <3> QED
      BY <2>1, <3>1, <3>2 DEF IsOwner, HasJob
  <2>5. NoneIsLost => NoneIsLost'
    BY <1>1, <2>1 DEF NoneIsLost, HasStore, Exists
  <2>6. TypeOK'
    BY <1>1, <2>1 DEF IInv, TypeOK, ShellTypeOK, StoreInv, StoreInvIn, StoreTypeOK
  <2> QED
    BY <1>1, <2>2, <2>3, <2>4, <2>5, <2>6 DEF Kept, IInv
<1>3. CASE ~HasStore
  BY <1>1, <1>3, ShellMoves DEF ReapPurge
<1> QED
  BY <1>2, <1>3

\* wait %n: it blocks on a job that is not over, and ends with it or without a child.
LEMMA WaitJobKeeps ==
    ASSUME IInv, \/ \E j \in JobOperands : WaitJob(j)
                 \/ \E p \in Pids : WaitJobCollect(p)
                 \/ WaitJobNoChild
    PROVE  Kept
<1>1. ASSUME NEW j \in JobOperands, WaitJob(j) PROVE Kept
  <2>1. ShellTypeOK'
    BY <1>1, StatusesAreTyped
    DEF WaitJob, HasJob, Return, Block, reapvars, ShellTypeOK, IInv, TypeOK
  <2>2. BlockedOnJob'
    BY <1>1 DEF WaitJob, HasJob, Return, Block, BlockedOnJob
  <2>3. UNCHANGED <<store, osvars, interactive>>
    BY <1>1 DEF WaitJob
  <2> QED
    BY <2>1, <2>2, <2>3, ShellMoves
<1>2. ASSUME NEW p \in Pids, WaitJobCollect(p) PROVE Kept
  <2>1. /\ Collect(p, p, 0) /\ pc = "wait_job" /\ UNCHANGED <<target, notify, after, any_reaped>>
        /\ IF IsCompleted(store'.jobs[target])
           THEN Return(FirstStatus(store'.jobs[target])) ELSE UNCHANGED <<pc, status>>
    BY <1>2 DEF WaitJobCollect, reapvars
  <2>2. /\ TableInv' /\ DOMAIN store'.jobs = DOMAIN store.jobs
    BY <2>1, Collected
  <2>3. target \in DOMAIN store'.jobs
    BY <2>1, <2>2 DEF IInv, BlockedOnJob, HasJob
  <2>4. FirstStatus(store'.jobs[target]) \in ShellStatuses
    BY <2>2, <2>3, SingleJobOf DEF TableInv, StoreInv, ShellStatuses
  <2>5. ShellTypeOK'
    BY <2>1, <2>4 DEF Return, ShellTypeOK, IInv, TypeOK
  <2>6. BlockedOnJob'
    BY <2>1, <2>3 DEF Return, BlockedOnJob, HasJob
  <2> QED
    BY <2>1, <2>5, <2>6, CollectKeeps
<1>3. CASE WaitJobNoChild
  <2>1. target \in DOMAIN store.jobs
    BY <1>3 DEF WaitJobNoChild, IInv, BlockedOnJob, HasJob
  <2>2. ShellTypeOK'
    BY <1>3, <2>1, StatusesAreTyped
    DEF WaitJobNoChild, Return, reapvars, ShellTypeOK, IInv, TypeOK
  <2>3. BlockedOnJob' /\ UNCHANGED <<store, osvars, interactive>>
    BY <1>3 DEF WaitJobNoChild, Return, BlockedOnJob
  <2> QED
    BY <2>2, <2>3, ShellMoves
<1> QED
  BY <1>1, <1>2, <1>3

\* wait with a pid: the operand is what the fate is recorded under.
LEMMA WaitPidKeeps ==
    ASSUME IInv, \/ \E arg \in WaitOperands : WaitPid(arg)
                 \/ \E p \in Pids : WaitPidCollect(p)
                 \/ WaitPidNoChild
    PROVE  Kept
<1>1. ASSUME NEW arg \in WaitOperands, WaitPid(arg) PROVE Kept
  <2>1. /\ ShellTypeOK' /\ BlockedOnJob' /\ UNCHANGED <<store, osvars, interactive>>
    BY <1>1 DEF WaitPid, Block, reapvars, ShellTypeOK, BlockedOnJob, IInv, TypeOK
  <2> QED
    BY <2>1, ShellMoves
<1>2. ASSUME NEW p \in Pids, WaitPidCollect(p) PROVE Kept
  <2>1. PICK as \in Pids \cup {AnyPid} : as = target /\ (as = p \/ as = AnyPid)
    BY <1>2, ControlAssumption DEF WaitPidCollect, WaitSet, IInv, BlockedOnJob
  <2>2. Collect(p, as, 0)
    BY <1>2, <2>1 DEF WaitPidCollect
  <2>3. AnyPid \notin WaitOperands => as = p
    BY <1>2, <2>1 DEF WaitPidCollect, IInv, BlockedOnJob
  <2>4. Fate(p) \in Endings
    BY <2>1, <2>2, Collected
  <2>5. ShellTypeOK' /\ BlockedOnJob'
    BY <1>2, <2>4, StatusesAreTyped
    DEF WaitPidCollect, Return, reapvars, ShellTypeOK, BlockedOnJob, IInv, TypeOK
  <2> QED
    BY <2>1, <2>2, <2>3, <2>5, CollectKeeps
<1>3. CASE WaitPidNoChild
  <2>1. /\ ShellTypeOK' /\ BlockedOnJob' /\ UNCHANGED <<store, osvars, interactive>>
    BY <1>3, StatusesAreTyped
    DEF WaitPidNoChild, Return, reapvars, ShellTypeOK, BlockedOnJob, IInv, TypeOK
  <2> QED
    BY <2>1, ShellMoves
<1> QED
  BY <1>1, <1>2, <1>3

\* wait without operands.
LEMMA WaitAllKeeps ==
    ASSUME IInv, \/ WaitAll \/ WaitAllNoStore \/ WaitAllNoChild
                 \/ \E p \in Pids : WaitAllCollect(p)
    PROVE  Kept
<1>1. ASSUME WaitAll \/ WaitAllNoStore \/ WaitAllNoChild PROVE Kept
  <2>1. /\ ShellTypeOK' /\ BlockedOnJob' /\ UNCHANGED <<store, osvars, interactive>>
    BY <1>1, StatusesAreTyped
    DEF WaitAll, WaitAllNoStore, WaitAllNoChild, reapvars, ShellTypeOK, BlockedOnJob,
        IInv, TypeOK
  <2> QED
    BY <2>1, ShellMoves
<1>2. ASSUME NEW p \in Pids, WaitAllCollect(p) PROVE Kept
  <2>1. Collect(p, p, 0)
    BY <1>2 DEF WaitAllCollect
  <2>2. Fate(p) \in Endings
    BY <2>1, Collected
  <2>3. ShellTypeOK' /\ BlockedOnJob'
    BY <1>2, <2>2, StatusesAreTyped
    DEF WaitAllCollect, reapvars, ShellTypeOK, BlockedOnJob, IInv, TypeOK
  <2> QED
    BY <2>1, <2>3, CollectKeeps
<1> QED
  BY <1>1, <1>2

\* The state of a stopped job is written over, those of its processes are not.
LEMMA Resumed ==
    ASSUME IInv, NEW j, Stopped(j), store' = StoreSetState(store, j, "running")
    PROVE  StoreInv' /\ SameFates(store, store') /\ HasStore
<1>1. /\ j \in DOMAIN store.jobs /\ StoreInvIn(store) /\ store.jobs[j].state = "stopped"
  BY DEF Stopped, HasJob, IInv, TableInv, StoreInv
<1>2. StoreInv'
  BY <1>1, StoreSetStateKeepsInv DEF StoreInv, JobStates
<1>3. store' = WithJob(store, j, JobWithState(store.jobs[j], "running"))
  BY <1>1 DEF StoreSetState, HasJob
<1>4. SameFates(store, store')
  BY <1>1, <1>3, ReplacedJob DEF SameFates, JobWithState, Finished
<1> QED
  BY <1>1, <1>2, <1>4, JobsNeedAStore

LEMMA FgKeeps ==
    ASSUME IInv, \/ \E j \in JobOperands : Fg(j)
                 \/ \E p \in Pids : FgCollect(p) \/ FgStopped(p)
                 \/ FgNoChild
    PROVE  Kept
<1>1. ASSUME NEW j \in JobOperands, Fg(j) PROVE Kept
  <2>1. ShellTypeOK' /\ UNCHANGED interactive
    BY <1>1, StatusesAreTyped
    DEF Fg, Return, Block, reapvars, ShellTypeOK, IInv, TypeOK
  <2>2. CASE Stopped(j) /\ CanSignal(j)
    <3>1. /\ Deliver(Group(store.jobs[j].pgid), "CONT") /\ pc' = "fg" /\ target' = j
          /\ store' = StoreSetState(store, j, "running")
      BY <1>1, <2>2 DEF Fg, Resume, Block, Stopped
    <3>2. StoreInv' /\ SameFates(store, store') /\ HasStore
      BY <2>2, <3>1, Resumed
    <3>3. BlockedOnJob'
      BY <2>2, <3>1, <3>2 DEF BlockedOnJob, SameFates, Stopped, HasJob
    <3>4. Group(store.jobs[j].pgid) \in SUBSET Pids /\ "CONT" \in Signals
      BY DEF Group, Signals
    <3> QED
      BY <2>1, <3>1, <3>2, <3>3, <3>4, DeliverKeeps
  <2>3. CASE ~(Stopped(j) /\ CanSignal(j))
    <3>1. UNCHANGED <<store, osvars, interactive>> /\ BlockedOnJob'
      BY <1>1, <2>3 DEF Fg, Return, Block, BlockedOnJob, HasJob
    <3> QED
      BY <2>1, <3>1, ShellMoves
  <2> QED
    BY <2>2, <2>3
<1>2. ASSUME NEW p \in Pids, FgCollect(p) PROVE Kept
  <2>1. Collect(p, p, 0)
    BY <1>2 DEF FgCollect
  <2>2. Fate(p) \in Endings /\ DOMAIN store'.jobs = DOMAIN store.jobs
    BY <2>1, Collected
  <2>3. ShellTypeOK' /\ BlockedOnJob'
    BY <1>2, <2>2, StatusesAreTyped
    DEF FgCollect, reapvars, ShellTypeOK, BlockedOnJob, HasJob, IInv, TypeOK
  <2> QED
    BY <2>1, <2>3, CollectKeeps
<1>3. ASSUME NEW p \in Pids, FgStopped(p) PROVE Kept
  <2>1. /\ Exists(p) /\ child[p].st = "stopped" /\ HasStore /\ pc' = "prompt"
        /\ status' = 128 + StopSig
        /\ store' = StoreSetProcessState(store, p, "stopped", StopSig)
        /\ child' = [child EXCEPT ![p].unseen = FALSE]
        /\ UNCHANGED <<ending, started, interactive, target, notify, after, any_reaped>>
    BY <1>3, JobsNeedAStore
    DEF FgStopped, Return, reapvars, Exists, IInv, BlockedOnJob, HasJob
  <2>2. "stopped" \in JobStates /\ "stopped" \notin Finished /\ StopSig \in Statuses
    BY ControlAssumption DEF JobStates, Finished
  <2> DEFINE h == child[p].job
  <2>3. /\ TableInv' /\ TableFollows' /\ DOMAIN store'.jobs = DOMAIN store.jobs
        /\ h \in DOMAIN store.jobs
        /\ \A j \in DOMAIN store.jobs \ {h} : store'.jobs[j] = store.jobs[j]
        /\ store'.jobs[h].pgid = p /\ ~IsCompleted(store'.jobs[h])
    BY <2>1, <2>2, StatusRecorded
  <2>4. /\ child' \in [Pids -> Child]
        /\ \A q \in Pids : child'[q].st = child[q].st /\ child'[q].job = child[q].job
    BY <2>1 DEF IInv, TypeOK, Child
  <2>5. IsOwner(store, h, p)
    BY <2>1 DEF IInv, ChildrenAreOwned
  <2>6. \A k \in DOMAIN store.jobs :
           /\ store'.jobs[k].pgid = store.jobs[k].pgid
           /\ ~IsCompleted(store'.jobs[k]) => ~IsCompleted(store.jobs[k])
           /\ ~IsCompleted(store.jobs[k]) => ~IsCompleted(store'.jobs[k])
    BY <2>3, <2>5 DEF IsOwner
  <2>7. ChildrenAreOwned'
    <3> SUFFICES ASSUME NEW q \in Pids, Exists(q)
                 PROVE  /\ child[q].job \in JobIds /\ (IsZombie(q) => Fate(q) \in Endings)
                        /\ IsOwner(store', child[q].job, q)
      BY <2>1, <2>4 DEF ChildrenAreOwned, Exists, IsZombie, Fate
    <3>1. /\ child[q].job \in JobIds /\ (IsZombie(q) => Fate(q) \in Endings)
          /\ IsOwner(store, child[q].job, q)
      BY <2>1 DEF IInv, ChildrenAreOwned
    <3> QED
      BY <2>3, <2>6, <3>1 DEF IsOwner, HasJob
  <2>8. NoneIsLost => NoneIsLost'
    BY <2>1, <2>3, <2>4, <2>6 DEF NoneIsLost, Exists, HasStore
  <2>9. TypeOK' /\ BlockedOnJob'
    BY <2>1, <2>3, <2>4, StatusesAreTyped
    DEF IInv, TypeOK, BlockedOnJob, TableInv, StoreInv, StoreInvIn, StoreTypeOK
  <2> QED
    BY <2>3, <2>7, <2>8, <2>9 DEF Kept, IInv
<1>4. CASE FgNoChild
  <2>1. /\ ShellTypeOK' /\ BlockedOnJob' /\ UNCHANGED <<store, osvars, interactive>>
    BY <1>4 DEF FgNoChild, reapvars, ShellTypeOK, BlockedOnJob, IInv, TypeOK
  <2> QED
    BY <2>1, ShellMoves
<1> QED
  BY <1>1, <1>2, <1>3, <1>4

LEMMA BgKeeps ==
    ASSUME IInv, NEW j \in JobOperands, Bg(j)
    PROVE  Kept
<1>1. ShellTypeOK' /\ BlockedOnJob' /\ UNCHANGED interactive
  BY StatusesAreTyped DEF Bg, Stay, reapvars, ShellTypeOK, BlockedOnJob, IInv, TypeOK
<1>2. CASE Stopped(j) /\ CanSignal(j)
  <2>1. /\ Deliver(Group(store.jobs[j].pgid), "CONT")
        /\ store' = StoreSetState(store, j, "running")
    BY <1>2 DEF Bg, Resume
  <2>2. StoreInv' /\ SameFates(store, store') /\ HasStore
    BY <1>2, <2>1, Resumed
  <2>3. Group(store.jobs[j].pgid) \in SUBSET Pids /\ "CONT" \in Signals
    BY DEF Group, Signals
  <2> QED
    BY <1>1, <2>1, <2>2, <2>3, DeliverKeeps
<1>3. CASE ~(Stopped(j) /\ CanSignal(j))
  BY <1>1, <1>3, ShellMoves DEF Bg
<1> QED
  BY <1>2, <1>3

LEMMA KillJobKeeps ==
    ASSUME IInv, NEW j \in JobOperands, NEW sig \in Signals, KillJob(j, sig)
    PROVE  Kept
<1>1. ShellTypeOK' /\ BlockedOnJob' /\ UNCHANGED <<store, interactive>>
  BY StatusesAreTyped DEF KillJob, Stay, reapvars, ShellTypeOK, BlockedOnJob, IInv, TypeOK
<1>2. CASE CanSignal(j)
  <2>1. Deliver(Group(store.jobs[j].pgid), sig)
    BY <1>2 DEF KillJob
  <2>2. Group(store.jobs[j].pgid) \in SUBSET Pids
    BY DEF Group
  <2> QED
    BY <1>1, <2>1, <2>2, SameStore, DeliverKeeps
<1>3. CASE ~CanSignal(j)
  BY <1>1, <1>3, ShellMoves DEF KillJob
<1> QED
  BY <1>2, <1>3

-----------------------------------------------------------------------------
(* The specification.                                                      *)

LEMMA NextJobControl ==
    ASSUME IInv, [Next]_vars
    PROVE  Kept
<1>1. ASSUME NEW p \in Pids, Environment(p) PROVE Kept
  BY <1>1, EnvironmentKeeps
<1>2. CASE Progress
  BY <1>2, ReapKeeps, ReapNotifyKeeps, ReapPurgeKeeps, WaitJobKeeps, WaitPidKeeps, WaitAllKeeps,
     FgKeeps DEF Progress
<1>3. CASE Command
  BY <1>3, StartBackgroundKeeps, WaitJobKeeps, FgKeeps, BgKeeps, KillJobKeeps, WaitPidKeeps,
     WaitAllKeeps, ReapKeeps DEF Command
<1>4. CASE ReapStart
  BY <1>4, ReapKeeps
<1>5. CASE UNCHANGED vars
  <2>1. /\ UNCHANGED <<store, osvars, interactive>>
        /\ UNCHANGED <<pc, target, notify, after, any_reaped, status>>
    BY <1>5 DEF vars, reapvars
  <2>2. ShellTypeOK' /\ BlockedOnJob'
    BY <2>1 DEF ShellTypeOK, BlockedOnJob, IInv, TypeOK
  <2> QED
    BY <2>1, <2>2, ShellMoves
<1> QED
  BY <1>1, <1>2, <1>3, <1>4, <1>5 DEF Next

LEMMA InductiveJobControl == Spec => []IInv
<1>1. IInv /\ [Next]_vars => IInv'
  BY NextJobControl DEF Kept
<1>2. Init => IInv
  BY InitJobControl
<1> QED
  BY <1>1, <1>2, PTL DEF Spec

\* Whatever is started, signalled, waited for and reaped, in any order and with any reuse
\* of pids, a job that the table calls over ended in just the way that the table says
\* (job_update_state, job_store_set_process_state), wait -1 included.
THEOREM CompletionAlwaysKnown == Spec => []CompletionIsKnown
<1>1. IInv => CompletionIsKnown
  BY DEF IInv, TableInv, CompletionIsKnown
<1> QED
  BY <1>1, InductiveJobControl, PTL

\* Where wait is given pids and not -1, the table and the system agree on every child and
\* on every job (exec_reap_background_jobs, wait_for_pid, wait_for_job, builtin_fg).
THEOREM ChildrenAlwaysTracked == AnyPid \notin WaitOperands => (Spec => []JobsTrackChildren)
<1> SUFFICES ASSUME AnyPid \notin WaitOperands PROVE Spec => []JobsTrackChildren
  OBVIOUS
<1>1. Init => IInv /\ NoneIsLost
  BY InitJobControl
<1>2. (IInv /\ NoneIsLost) /\ [Next]_vars => (IInv /\ NoneIsLost)'
  BY NextJobControl DEF Kept
<1>3. IInv /\ NoneIsLost => JobsTrackChildren
  BY DEF IInv, ChildrenAreOwned, IsOwner, NoneIsLost, JobsTrackChildren
<1> QED
  BY <1>1, <1>2, <1>3, PTL DEF Spec

\* Where every job that is not over has its process, the group of such a job holds that
\* process and no other.
LEMMA GroupIsOwn ==
    ASSUME IInv, NoneIsLost, NEW j \in DOMAIN store.jobs, ~IsCompleted(store.jobs[j]),
           NEW p \in Group(store.jobs[j].pgid)
    PROVE  child[p].job = j
<1>1. HasStore
  BY JobsNeedAStore
<1>2. PICK q \in Pids : Exists(q) /\ child[q].job = j
  BY <1>1 DEF NoneIsLost
<1>3. q = store.jobs[j].pgid
  BY <1>1, <1>2 DEF IInv, ChildrenAreOwned, IsOwner
<1> QED
  BY <1>2, <1>3 DEF Group

LEMMA OnlyItsGroup ==
    ASSUME IInv, Next, NEW j \in DOMAIN store.jobs, NEW p \in Pids, child'[p] # child[p],
           \/ Fg(j) \/ Bg(j) \/ \E sig \in Signals : KillJob(j, sig)
           \/ pc = "wait_job" /\ target = j /\ ~Exists(p)'
           \/ pc = "fg" /\ target = j /\ (~Exists(p)' \/ pc' = "prompt")
    PROVE  p \in Group(store.jobs[j].pgid)
<1>1. ASSUME NEW S, NEW sig, Deliver(S, sig) PROVE p \in S
  BY <1>1 DEF Deliver
<1>2. CASE Fg(j)
  BY <1>1, <1>2 DEF Fg, Resume, osvars
<1>3. CASE Bg(j)
  BY <1>1, <1>3 DEF Bg, Resume, osvars
<1>4. ASSUME NEW sig \in Signals, KillJob(j, sig) PROVE p \in Group(store.jobs[j].pgid)
  BY <1>1, <1>4 DEF KillJob, osvars
<1>5. CASE /\ pc \in {"wait_job", "fg"} /\ target = j
           /\ ~Exists(p)' \/ (pc = "fg" /\ pc' = "prompt")
  <2>1. ASSUME NEW q \in Pids, Environment(q) PROVE FALSE
    <3>1. pc' = pc
      BY <2>1 DEF Environment, ChildSetPgid, ChildExit, SignalPid, shellvars
    <3>2. child \in [Pids -> Child]
      BY DEF IInv, TypeOK
    <3>3. child[q].st # "free" /\ (child'[q].st # "free") /\ \A r \in Pids \ {q} : child'[r] = child[r]
      <4>1. CASE ChildSetPgid(q) \/ \E code \in ExitCodes : ChildExit(q, code)
        BY <4>1, <3>2 DEF ChildSetPgid, ChildExit, Child
      <4>2. ASSUME NEW sig \in Signals, SignalPid(q, sig)
            PROVE  child[q].st # "free" /\ (child'[q].st # "free")
                   /\ \A r \in Pids \ {q} : child'[r] = child[r]
        BY <4>2, <3>2 DEF SignalPid, Deliver, Signalled, Child
      <4> QED
        BY <2>1, <4>1, <4>2 DEF Environment
    <3> QED
      BY <1>5, <3>1, <3>3 DEF Exists
  <2>2. ~Command /\ ~ReapStart
    BY <1>5 DEF Command, ReapStart, StartBackground, WaitJob, Fg, Bg, KillJob, WaitPid, WaitAll,
                Exit, Reap
  <2>3. Progress
    BY <2>1, <2>2 DEF Next
  <2>4. PICK q \in Pids : WaitJobCollect(q) \/ FgCollect(q) \/ FgStopped(q)
    BY <1>5, <2>3
    DEF Progress, ReapOne, WaitPidCollect, WaitAllCollect, ReapEnd, ReapNotify, ReapPurge,
        WaitJobNoChild, WaitPidNoChild, WaitAllNoStore, WaitAllNoChild, FgNoChild, osvars
  <2>5. q \in Group(store.jobs[j].pgid)
    BY <1>5, <2>4 DEF WaitJobCollect, FgCollect, FgStopped
  <2>6. child' = [child EXCEPT ![q] = FreePid] \/ child' = [child EXCEPT ![q].unseen = FALSE]
    BY <2>4 DEF WaitJobCollect, FgCollect, FgStopped, Collect
  <2>7. p # q => child'[p] = child[p]
    BY <2>6 DEF IInv, TypeOK
  <2> QED
    BY <2>5, <2>7
<1> QED
  BY <1>2, <1>3, <1>4, <1>5

\* Where wait is given pids and not -1, fg, bg, kill and wait with the operand of a job
\* that is not over never touch the process of another job, whatever pids came back.
THEOREM OperandsAlwaysHitOwnJob == AnyPid \notin WaitOperands => (Spec => OperandsHitOwnJob)
<1> SUFFICES ASSUME AnyPid \notin WaitOperands PROVE Spec => OperandsHitOwnJob
  OBVIOUS
<1>1. Init => IInv /\ NoneIsLost
  BY InitJobControl
<1>2. (IInv /\ NoneIsLost) /\ [Next]_vars => (IInv /\ NoneIsLost)'
  BY NextJobControl DEF Kept
<1>3. ASSUME IInv, NoneIsLost, [Next]_vars
      PROVE  [\A j \in DOMAIN store.jobs, p \in Pids :
                 /\ ~IsCompleted(store.jobs[j]) /\ child'[p] # child[p]
                 /\ \/ Fg(j) \/ Bg(j) \/ \E sig \in Signals : KillJob(j, sig)
                    \/ pc = "wait_job" /\ target = j /\ ~Exists(p)'
                    \/ pc = "fg" /\ target = j /\ (~Exists(p)' \/ pc' = "prompt")
                 => child[p].job = j]_vars
  BY <1>3, OnlyItsGroup, GroupIsOwn
<1> QED
  BY <1>1, <1>2, <1>3, PTL DEF Spec, OperandsHitOwnJob

\* Only exec_in_frame adds a number to the table, and only job_store_remove_completed
\* takes one away.
LEMMA NumbersInTheTable ==
    ASSUME IInv, Next
    PROVE  \/ DOMAIN store'.jobs = DOMAIN store.jobs
           \/ DOMAIN store'.jobs = DOMAIN store.jobs \cup {store.next_job_id} /\ started' = started + 1
           \/ ReapPurge /\ store' = StoreRemoveCompleted(store)
<1> DEFINE Same == DOMAIN store'.jobs = DOMAIN store.jobs
<1>1. ASSUME NEW p \in Pids, Environment(p) PROVE Same
  BY <1>1 DEF Environment, ChildSetPgid, ChildExit, SignalPid, shellvars
<1>2. ASSUME NEW p \in Pids, NEW as, NEW base, Collect(p, as, base) PROVE Same
  BY <1>2 DEF Collect, StoreSetProcessState
<1>3. ASSUME NEW p \in Pids, FgStopped(p) PROVE Same
  BY <1>3 DEF FgStopped, StoreSetProcessState
<1>4. CASE ReapNotify
  BY <1>4 DEF ReapNotify, StorePrintCompleted
<1>5. ASSUME NEW j, Resume(j), Stopped(j) PROVE Same
  BY <1>5 DEF Resume, StoreSetState, WithJob
<1>6. CASE Progress
  <2>1. ASSUME NEW p \in Pids, ReapOne(p) PROVE Same
    BY <1>2, <2>1 DEF ReapOne
  <2>2. ASSUME NEW p \in Pids, WaitJobCollect(p) PROVE Same
    BY <1>2, <2>2 DEF WaitJobCollect
  <2>3. ASSUME NEW p \in Pids, WaitPidCollect(p) PROVE Same
    BY <2>3 DEF WaitPidCollect, Collect, StoreSetProcessState
  <2>4. ASSUME NEW p \in Pids, WaitAllCollect(p) \/ FgCollect(p) PROVE Same
    BY <1>2, <2>4 DEF WaitAllCollect, FgCollect
  <2>5. CASE ReapEnd \/ WaitJobNoChild \/ WaitPidNoChild \/ WaitAllNoStore \/ WaitAllNoChild \/ FgNoChild
    BY <2>5 DEF ReapEnd, WaitJobNoChild, WaitPidNoChild, WaitAllNoStore, WaitAllNoChild, FgNoChild
  <2>6. CASE ReapPurge
    BY <2>6 DEF ReapPurge
  <2> QED
    BY <1>3, <1>4, <1>6, <2>1, <2>2, <2>3, <2>4, <2>5, <2>6 DEF Progress
<1>7. ASSUME NEW p \in Pids, StartBackground(p)
      PROVE  \/ Same
             \/ /\ DOMAIN store'.jobs = DOMAIN store.jobs \cup {store.next_job_id}
                /\ started' = started + 1
  BY <1>7 DEF StartBackground, StoreAddProcess, StoreAdd, WithJob
<1>8. CASE Command
  <2>1. ASSUME NEW j \in JobOperands, WaitJob(j) \/ Fg(j) \/ Bg(j) PROVE Same
    BY <1>5, <2>1 DEF WaitJob, Fg, Bg
  <2>2. ASSUME NEW j \in JobOperands, NEW sig \in Signals, KillJob(j, sig) PROVE Same
    BY <2>2 DEF KillJob
  <2>3. ASSUME NEW arg \in WaitOperands, WaitPid(arg) PROVE Same
    BY <2>3 DEF WaitPid
  <2>4. CASE WaitAll \/ Exit
    BY <2>4 DEF WaitAll, Exit, Reap
  <2> QED
    BY <1>7, <1>8, <2>1, <2>2, <2>3, <2>4 DEF Command
<1>9. CASE ReapStart
  BY <1>9 DEF ReapStart, Reap
<1> QED
  BY <1>1, <1>6, <1>8, <1>9 DEF Next

\* A job's number is never used again in the life of the shell, whatever happens between.
THEOREM SessionNumbersAreFresh == Spec => IdsNeverReused
<1>1. ASSUME IInv, IInv', [Next]_vars
      PROVE  [/\ store'.next_job_id >= store.next_job_id
              /\ \A j \in DOMAIN store'.jobs \ DOMAIN store.jobs :
                    store.next_job_id <= j /\ j < store'.next_job_id]_store
  <2> SUFFICES ASSUME Next
               PROVE  /\ store'.next_job_id >= store.next_job_id
                      /\ \A j \in DOMAIN store'.jobs \ DOMAIN store.jobs :
                            store.next_job_id <= j /\ j < store'.next_job_id
    BY <1>1 DEF vars
  <2>1. /\ store.next_job_id \in Nat /\ store'.next_job_id \in Nat
        /\ started \in Nat /\ started' \in Nat
        /\ \A j \in DOMAIN store'.jobs : j < store'.next_job_id
    BY <1>1, StoreAssumption
    DEF IInv, TypeOK, TableInv, StoreInv, StoreInvIn, IsStore, IdsBelowNextIn
  <2>2. interactive' = interactive /\ started' \in {started, started + 1}
    <3> DEFINE Same == interactive' = interactive /\ started' = started
    <3>1. ASSUME NEW p \in Pids, Environment(p) PROVE Same
      BY <3>1 DEF Environment, ChildSetPgid, ChildExit, SignalPid, Deliver, shellvars
    <3>2. ASSUME NEW p \in Pids, ReapOne(p) \/ WaitJobCollect(p) \/ WaitPidCollect(p) \/
                                WaitAllCollect(p) \/ FgCollect(p) \/ FgStopped(p)
          PROVE  Same
      BY <3>2 DEF ReapOne, WaitJobCollect, WaitPidCollect, WaitAllCollect, FgCollect, FgStopped,
                  Collect
    <3>3. CASE ReapEnd \/ ReapNotify \/ ReapPurge \/ WaitJobNoChild \/ WaitPidNoChild \/
               WaitAllNoStore \/ WaitAllNoChild \/ FgNoChild \/ WaitAll \/ Exit \/ ReapStart
      BY <3>3 DEF ReapEnd, ReapNotify, ReapPurge, WaitJobNoChild, WaitPidNoChild, WaitAllNoStore,
                  WaitAllNoChild, FgNoChild, WaitAll, Exit, ReapStart, Reap, osvars
    <3>4. CASE Progress
      BY <3>2, <3>3, <3>4 DEF Progress
    <3>5. ASSUME NEW j \in JobOperands, NEW sig \in Signals,
                 WaitJob(j) \/ Fg(j) \/ Bg(j) \/ KillJob(j, sig)
          PROVE  Same
      BY <3>5 DEF WaitJob, Fg, Bg, KillJob, Resume, Deliver, Stay, osvars
    <3>6. ASSUME NEW arg \in WaitOperands, WaitPid(arg) PROVE Same
      BY <3>6 DEF WaitPid, osvars
    <3>7. ASSUME NEW p \in Pids, StartBackground(p)
          PROVE  interactive' = interactive /\ started' = started + 1
      BY <3>7 DEF StartBackground, Stay
    <3>8. CASE Command
      BY <3>3, <3>5, <3>6, <3>7, <3>8 DEF Command, Signals
    <3> QED
      BY <3>1, <3>3, <3>4, <3>8 DEF Next
  <2>3. store'.next_job_id >= store.next_job_id
    BY <1>1, <2>1, <2>2 DEF IInv, TableFollows, HasStore
  <2>4. ASSUME NEW j \in DOMAIN store'.jobs \ DOMAIN store.jobs PROVE j = store.next_job_id
    BY <1>1, <2>4, NumbersInTheTable, Purged
  <2> QED
    BY <2>1, <2>3, <2>4
<1> QED
  BY <1>1, InductiveJobControl, PTL DEF Spec, IdsNeverReused

LEMMA WaitReports ==
    ASSUME IInv, Next, pc \in {"wait_job", "wait_pid"}, pc' = "prompt", child' # child, HasStore
    PROVE  \E p \in Pids :
              /\ Exists(p) /\ ~Exists(p)'
              /\ IF Fate(p).how = "exited" THEN status' = Fate(p).code
                 ELSE status' \in {KillSig, 128 + KillSig}
<1>1. ASSUME NEW p \in Pids, Environment(p) PROVE FALSE
  BY <1>1 DEF Environment, ChildSetPgid, ChildExit, SignalPid, shellvars
<1>2. ASSUME Command \/ ReapStart PROVE FALSE
  BY <1>2 DEF Command, ReapStart, StartBackground, WaitJob, Fg, Bg, KillJob, WaitPid, WaitAll,
              Exit, Reap
<1>3. ASSUME \/ \E p \in Pids : ReapOne(p) \/ WaitAllCollect(p) \/ FgCollect(p) \/ FgStopped(p)
             \/ ReapEnd \/ ReapNotify \/ ReapPurge \/ WaitAllNoStore \/ WaitAllNoChild \/ FgNoChild
      PROVE  FALSE
  BY <1>3 DEF ReapOne, WaitAllCollect, FgCollect, FgStopped, ReapEnd, ReapNotify, ReapPurge,
              WaitAllNoStore, WaitAllNoChild, FgNoChild
<1>4. ASSUME WaitJobNoChild \/ WaitPidNoChild PROVE FALSE
  BY <1>4 DEF WaitJobNoChild, WaitPidNoChild, osvars
<1>5. PICK p \in Pids : WaitJobCollect(p) \/ WaitPidCollect(p)
  BY <1>1, <1>2, <1>3, <1>4 DEF Next, Progress
<1>6. \A e \in Endings : e.how = "exited" \/ (e.how = "killed" /\ e.code = KillSig)
  BY DEF Endings
<1>7. CASE WaitJobCollect(p)
  <2>1. Collect(p, p, 0) /\ pc = "wait_job"
    BY <1>7 DEF WaitJobCollect
  <2>2. /\ Exists(p) /\ ~Exists(p)' /\ Fate(p) \in Endings
        /\ \A j \in DOMAIN store.jobs :
              \/ store'.jobs[j] = store.jobs[j]
              \/ /\ j = child[p].job /\ IsCompleted(store'.jobs[j])
                 /\ FirstStatus(store'.jobs[j]) = IF Fate(p).how = "exited" THEN Fate(p).code
                                                   ELSE 0 + Fate(p).code
    BY <2>1, Collected
  <2>3. IsCompleted(store'.jobs[target]) /\ status' = FirstStatus(store'.jobs[target])
    BY <1>7 DEF WaitJobCollect, Return
  <2>4. target \in DOMAIN store.jobs /\ ~IsCompleted(store.jobs[target])
    BY <2>1 DEF IInv, BlockedOnJob, HasJob
  <2>5. status' = IF Fate(p).how = "exited" THEN Fate(p).code ELSE 0 + Fate(p).code
    BY <2>2, <2>3, <2>4
  <2> QED
    BY <1>6, <2>2, <2>5 DEF KillSig
<1>8. CASE WaitPidCollect(p)
  <2>1. PICK as \in Pids \cup {AnyPid} : as = target /\ (as = p \/ as = AnyPid)
    BY <1>8, ControlAssumption DEF WaitPidCollect, WaitSet, IInv, BlockedOnJob
  <2>2. Collect(p, as, 0)
    BY <1>8, <2>1 DEF WaitPidCollect
  <2>3. Exists(p) /\ ~Exists(p)' /\ Fate(p) \in Endings
    BY <2>1, <2>2, Collected
  <2>4. status' = ShellStatus(Fate(p))
    BY <1>8 DEF WaitPidCollect, Return
  <2> QED
    BY <1>6, <2>3, <2>4 DEF ShellStatus, KillSig
<1> QED
  BY <1>5, <1>7, <1>8

LEMMA RemovalIsTold ==
    ASSUME IInv, IInv', Next, NEW j \in DOMAIN store.jobs \ DOMAIN store'.jobs
    PROVE  /\ store.jobs[j].is_notified
           /\ ending[j] # None
           /\ \A p \in Pids : Exists(p) => child[p].job # j
<1>1. j \in Disposable(store)
  BY NumbersInTheTable, Purged
<1>2. store.jobs[j].is_notified /\ IsCompleted(store.jobs[j])
  BY <1>1 DEF Disposable
<1>3. ending[j] # None
  BY <1>2 DEF IInv, TableInv, CompletedJobsTellTheirFate, None
<1>4. \A p \in Pids : Exists(p) => child[p].job # j
  BY <1>2, JobsNeedAStore DEF IInv, ChildrenAreOwned, IsOwner
<1> QED
  BY <1>2, <1>3, <1>4

\* With a table, what wait returns is the fate of the process it collected, also after the
\* pid had another owner; and no job is forgotten before its end was recorded and told
\* (wait_for_job, wait_for_pid, job_store_remove_completed).
THEOREM FateAlwaysTold == Spec => FateIsTold
<1>1. ASSUME IInv, [Next]_vars
      PROVE  [/\ HasStore /\ pc \in {"wait_job", "wait_pid"}
              /\ pc' = "prompt" /\ child' # child
              => \E p \in Pids :
                    /\ Exists(p) /\ ~Exists(p)'
                    /\ IF Fate(p).how = "exited" THEN status' = Fate(p).code
                       ELSE status' \in {KillSig, 128 + KillSig}]_vars
  BY <1>1, WaitReports
<1>2. ASSUME IInv, IInv', [Next]_vars
      PROVE  [\A j \in DOMAIN store.jobs \ DOMAIN store'.jobs :
                 /\ store.jobs[j].is_notified
                 /\ ending[j] # None
                 /\ \A p \in Pids : Exists(p) => child[p].job # j]_vars
  BY <1>2, RemovalIsTold
<1> QED
  BY <1>1, <1>2, InductiveJobControl, PTL
  DEF Spec, FateIsTold, WaitReportsFate, RemovedOnlyWhenTold
=============================================================================
