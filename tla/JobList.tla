------------------------------- MODULE JobList -------------------------------
(***************************************************************************)
(* The linked list behind the job table: the nodes, the next pointers and  *)
(* the loops of src/src/job_store.c, at the level of the pointers that the *)
(* C code assigns.  A node is an address; freeing it overwrites it, and the*)
(* allocator may hand the address out again, so that a pointer left behind *)
(* by a removal would show as a job of another number or as a freed one.   *)
(*                                                                         *)
(* What happens inside a job (its processes and its state) is taken from   *)
(* JobStore; what is modelled here is which node a loop reaches, and what  *)
(* it relinks.  The module is checked to implement JobStore.               *)
(***************************************************************************)
EXTENDS Integers, Sequences, FiniteSets

CONSTANTS
    Addr,       \* addresses of job_t nodes
    NULL,       \* the null pointer
    Pids, Statuses, MaxJobs, MaxProcs

ASSUME ListAssumption == NULL \notin Addr /\ IsFiniteSet(Addr)

VARIABLES
    node,           \* what is stored at each address: a job_t
    jobs,           \* head of the list
    current_job, previous_job, job_count, next_job_id

vars == <<node, jobs, current_job, previous_job, job_count, next_job_id>>

\* What the removals work on: the links and what goes with them.
List ==
    [node |-> node, head |-> jobs, cur |-> current_job, prv |-> previous_job,
     cnt |-> job_count]

\* The steps of a loop over a list without a cycle: no node comes twice.
MaxSteps == Cardinality(Addr)

\* Where the loop over the list of s is after each step, NULL at the end and beyond.
Walk(s) ==
    LET at[k \in 0..MaxSteps] ==
            IF k = 0 THEN s.head
            ELSE IF at[k - 1] = NULL THEN NULL ELSE s.node[at[k - 1]].next
    IN  at

\* The nodes in the order of the next pointers.
Chain ==
    LET length == Cardinality({k \in 0..MaxSteps : Walk(List)[k] # NULL})
    IN  [i \in 1..length |-> Walk(List)[i - 1]]

Linked(s) == {Walk(s)[k] : k \in 0..MaxSteps} \ {NULL}

ToId(s, p) == IF p = NULL THEN 0 ELSE s.node[p].job_id

\* The node of the job with this number.
ByNumber(s, id) == CHOOSE p \in Linked(s) : s.node[p].job_id = id

\* The abstract store that the list of s stands for, with n as the next number.
StoreOf(s, n) ==
    [jobs |-> [id \in {s.node[p].job_id : p \in Linked(s)} |-> s.node[ByNumber(s, id)].job],
     current_job |-> ToId(s, s.cur), previous_job |-> ToId(s, s.prv),
     job_count |-> s.cnt, next_job_id |-> n]

AbstractStore == StoreOf(List, next_job_id)

JS == INSTANCE JobStore WITH store <- AbstractStore

-----------------------------------------------------------------------------
\* The content of a node that is not in use.
Freed == [live |-> FALSE, job_id |-> 0, job |-> JS!NewJob(FALSE), next |-> NULL]

Init ==
    /\ node = [p \in Addr |-> Freed]
    /\ jobs = NULL
    /\ current_job = NULL /\ previous_job = NULL
    /\ job_count = 0 /\ next_job_id = 1

\* Mutant of FirstStep: the walk goes on to the last match.
LastStep(S) == CHOOSE k \in S : \A l \in S : l <= k

FirstStep(S) == CHOOSE k \in S : \A l \in S : k <= l

\* The steps at which the walk is at a node of S, and the node where it stops.
Hits(S) == {k \in 0..MaxSteps : Walk(List)[k] \in S}

FirstIn(S) == IF Hits(S) = {} THEN NULL ELSE Walk(List)[FirstStep(Hits(S))]

\* job_store_find
Numbered(id) == {p \in Addr : node[p].job_id = id}
Find(id) == FirstIn(Numbered(id))

\* job_store_add: the allocator picks any address that is not in use.
Add(bg) ==
    /\ next_job_id <= MaxJobs
    /\ \E p \in {q \in Addr : ~node[q].live} :
          /\ node' = [node EXCEPT ![p] = [live |-> TRUE, job_id |-> next_job_id,
                                          job |-> JS!NewJob(bg), next |-> jobs]]
          /\ jobs' = p
          /\ IF bg
             THEN previous_job' = current_job /\ current_job' = p
             ELSE UNCHANGED <<current_job, previous_job>>
    /\ job_count' = job_count + 1
    /\ next_job_id' = next_job_id + 1

\* A function that changes one job it found and no link.
ChangeJob(p, job) ==
    /\ p # NULL
    /\ node' = [node EXCEPT ![p].job = job]
    /\ UNCHANGED <<jobs, current_job, previous_job, job_count, next_job_id>>

AddProcess(id, pid) ==
    LET p == Find(id)
    IN  /\ p # NULL => Len(node[p].job.processes) < MaxProcs
        /\ ChangeJob(p, JS!JobWithProcess(node[p].job, pid))

\* The callers of job_store_set_state give it JOB_RUNNING.
SetState(id) ==
    LET p == Find(id) IN ChangeJob(p, JS!JobWithState(node[p].job, "running"))

\* The outer loop of job_store_set_process_state stops at the first job with the pid.
Holding(pid) ==
    {p \in Addr : \E i \in DOMAIN node[p].job.processes : node[p].job.processes[i].pid = pid}

\* The states its callers give it are exited and stopped (from fg); killed is like
\* exited for everything below.
SetProcessState(pid, st, code) ==
    LET p == FirstIn(Holding(pid))
    IN  ChangeJob(p, JS!JobWithProcessState(node[p].job, pid, st, code))

MarkNotified(id) ==
    LET p == Find(id) IN ChangeJob(p, JS!JobNotified(node[p].job))

PrintCompleted ==
    /\ node' = [p \in Addr |->
                   IF p \in Linked(List) /\ JS!IsCompleted(node[p].job)
                   THEN [node[p] EXCEPT !.job = JS!JobNotified(@)]
                   ELSE node[p]]
    /\ UNCHANGED <<jobs, current_job, previous_job, job_count, next_job_id>>

\* Mutant of Unlink: previous_job is looked at only after current_job has taken it.
UnlinkInOtherOrder(s, prev, curr) ==
    LET next == s.node[curr].next
        rest == IF prev = NULL THEN s.node ELSE [s.node EXCEPT ![prev].next = next]
    IN  [node |-> [rest EXCEPT ![curr] = Freed],
         head |-> IF prev = NULL THEN next ELSE s.head,
         cur  |-> IF s.cur = curr THEN s.prv ELSE s.cur,
         prv  |-> IF s.prv = curr THEN NULL ELSE s.prv,
         cnt  |-> s.cnt - 1]

\* The common body of both removals, from the links as left so far: the two pointers,
\* the link around curr, and the free.
Unlink(s, prev, curr) ==
    LET next == s.node[curr].next
        rest == IF prev = NULL THEN s.node ELSE [s.node EXCEPT ![prev].next = next]
    IN  [node |-> [rest EXCEPT ![curr] = Freed],
         head |-> IF prev = NULL THEN next ELSE s.head,
         cur  |-> IF s.cur = curr
                  THEN (IF s.prv = curr THEN NULL ELSE s.prv)
                  ELSE s.cur,
         prv  |-> IF s.prv = curr THEN NULL ELSE s.prv,
         cnt  |-> s.cnt - 1]

LoopEnd(s) ==
    /\ node' = s.node /\ jobs' = s.head
    /\ current_job' = s.cur /\ previous_job' = s.prv
    /\ job_count' = s.cnt
    /\ UNCHANGED next_job_id

\* job_store_remove: unlinks the first node with the number and returns.
Remove(id) ==
    LET k == FirstStep(Hits(Numbered(id)))
        prev == IF k = 0 THEN NULL ELSE Walk(List)[k - 1]
    IN  IF Hits(Numbered(id)) = {} THEN UNCHANGED vars
        ELSE LoopEnd(Unlink(List, prev, Walk(List)[k]))

\* job_store_remove_completed: prev stays where it is after an unlink.
SweepStep(l) ==
    LET job  == l.s.node[l.curr].job
        next == l.s.node[l.curr].next
    IN  IF l.curr = NULL THEN l
        ELSE IF JS!IsCompleted(job) /\ job.is_notified
             THEN [s |-> Unlink(l.s, l.prev, l.curr), prev |-> l.prev, curr |-> next]
             ELSE [s |-> l.s, prev |-> l.curr, curr |-> next]

Sweep ==
    LET loop[k \in 0..MaxSteps] ==
            IF k = 0 THEN [s |-> List, prev |-> NULL, curr |-> jobs]
            ELSE SweepStep(loop[k - 1])
    IN  loop

RemoveCompleted == LoopEnd(Sweep[MaxSteps].s)

Next ==
    \/ \E bg \in BOOLEAN : Add(bg)
    \/ \E id \in 1..MaxJobs, pid \in Pids : AddProcess(id, pid)
    \/ \E id \in 1..MaxJobs : SetState(id)
    \/ \E pid \in Pids, st \in {"done", "stopped"}, code \in Statuses :
          SetProcessState(pid, st, code)
    \/ \E id \in 1..MaxJobs : MarkNotified(id)
    \/ PrintCompleted
    \/ \E id \in 1..MaxJobs : Remove(id)
    \/ RemoveCompleted

Spec == Init /\ [][Next]_vars

-----------------------------------------------------------------------------
(* Properties.                                                             *)

\* The list is sound after every call: it ends (no cycle), goes newest first without a
\* repeated number, and has exactly the nodes in use, so none is leaked or used after
\* job_destroy.
ListWellFormed ==
    /\ Len(Chain) = job_count
    /\ \A i, k \in DOMAIN Chain : i < k => node[Chain[i]].job_id > node[Chain[k]].job_id
    /\ Linked(List) = {p \in Addr : node[p].live}

\* %+ and %- point into the list, not at a freed node.
NoDanglingPointer == {current_job, previous_job} \subseteq Linked(List) \cup {NULL}

\* Both: the list and the two pointers into it are sound after every call
\* (job_store_remove, job_store_remove_completed).
ListSound == ListWellFormed /\ NoDanglingPointer

\* The list does what the abstract store says, call by call: finding by number, the
\* first match by pid, and both removals with their pointer repairs.
ImplementsJobStore == JS!StoreSpec
=============================================================================
