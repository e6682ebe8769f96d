---------------------------- MODULE JobListProofs ----------------------------
(***************************************************************************)
(* The list of jobs is sound after every call and does what the job table  *)
(* promises, for any set of addresses, any number of jobs and any order of *)
(* calls, whichever address the allocator hands out again.                 *)
(***************************************************************************)
EXTENDS JobList, FiniteSetTheorems, WellFoundedInduction, TLAPS

Pointer == Addr \cup {NULL}

NodeOf(J) == [live : BOOLEAN, job_id : Nat, job : J, next : Pointer]

\* The shape of a job_store_t whose nodes hold jobs of J.
ListOf(J) ==
    [node : [Addr -> NodeOf(J)], head : Pointer, cur : Pointer, prv : Pointer, cnt : Int]

Typed(s, J) == s \in ListOf(J)

\* The i-th of the n nodes of c, NULL before the first and after the last.
At(c, n, i) == IF i \in 1..n THEN c[i] ELSE NULL

\* The nodes of c are the list of s: linked in this order, newest first, no other in use.
IsList(s, n, c) ==
    /\ n \in Nat /\ c \in [1..n -> Addr]
    /\ s.head = At(c, n, 1)
    /\ \A i \in 1..n : s.node[c[i]].next = At(c, n, i + 1)
    /\ \A i \in 1..n : s.node[c[i]].live /\ s.node[c[i]].job_id > 0
    /\ \A i, k \in 1..n : i < k => s.node[c[i]].job_id > s.node[c[k]].job_id
    /\ \A p \in Addr : s.node[p].live => \E i \in 1..n : c[i] = p
    /\ {s.cur, s.prv} \subseteq {c[i] : i \in 1..n} \cup {NULL}
    /\ s.cnt = n

\* Every number given is below the next one.
Below(s, n, c, next) == next \in Nat \ {0} /\ \A i \in 1..n : s.node[c[i]].job_id < next

\* The inductive invariant: there is such an order of the nodes.
IInv == \E J, n, c : Typed(List, J) /\ IsList(List, n, c) /\ Below(List, n, c, next_job_id)

-----------------------------------------------------------------------------
(* Induction and recursion.                                                *)

LEMMA Least ==
    ASSUME NEW S \in SUBSET Nat, S # {}
    PROVE  \E m \in S : \A k \in S : m <= k
<1> DEFINE R == OpToRel(<, Nat)
<1>1. IsWellFoundedOn(R, Nat)
  BY NatLessThanWellFounded
<1>2. \A x, y \in Nat : x < y => <<x, y>> \in R
  BY DEF OpToRel
<1> HIDE DEF R
<1>3. PICK m \in S : \A y \in S : ~ (<<y, m>> \in R)
  BY <1>1, WFMin
<1>4. ASSUME NEW y \in S PROVE m <= y
  <2>1. m \in Nat /\ y \in Nat
    OBVIOUS
  <2>2. ~ (y < m)
    BY <2>1, <1>2, <1>3
  <2> QED
    BY <2>1, <2>2
<1> QED
  BY <1>4

\* What holds of 0, and of each number up to n if it holds of the one before.
LEMMA Induction ==
    ASSUME NEW n \in Nat, NEW Good, 0 \in Good,
           \A i \in 1 .. n : i - 1 \in Good => i \in Good
    PROVE  \A i \in 0 .. n : i \in Good
<1> DEFINE Bad == {i \in 0 .. n : i \notin Good}
<1> SUFFICES ASSUME Bad # {} PROVE FALSE
  OBVIOUS
<1>1. PICK m \in Bad : \A k \in Bad : m <= k
  <2>1. Bad \in SUBSET Nat
    OBVIOUS
  <2> HIDE DEF Bad
  <2> QED
    BY <2>1, Least
<1>2. m \in 1 .. n /\ m - 1 \in 0 .. n
  BY <1>1
<1>3. m - 1 \notin Bad
  BY <1>1, <1>2
<1> QED
  BY <1>1, <1>2, <1>3

\* f goes from s on as the table G says: from what it is at i - 1 to what it is at i.
Goes(f, n, S, s, G) ==
    f \in [0 .. n -> S] /\ f[0] = s /\ \A i \in 1 .. n : f[i] = G[i][f[i - 1]]

LEMMA Recursion ==
    ASSUME NEW n \in Nat, NEW S, NEW s \in S, NEW G \in [1 .. n -> [S -> S]]
    PROVE  \E f : Goes(f, n, S, s, G)
<1> DEFINE Upto(m, f) == /\ f \in [0 .. m -> S] /\ f[0] = s
                         /\ \A i \in 1 .. m : f[i] = G[i][f[i - 1]]
           Good == {m \in 0 .. n : \E f : Upto(m, f)}
<1>1. 0 \in Good
  <2> DEFINE g == [i \in 0 .. 0 |-> s]
  <2>1. Upto(0, g)
    OBVIOUS
  <2> HIDE DEF Upto, g
  <2>2. \E f : Upto(0, f)
    BY <2>1
  <2> QED
    BY <2>2
<1>2. ASSUME NEW m \in 1 .. n, m - 1 \in Good PROVE m \in Good
  <2>1. PICK f : Upto(m - 1, f)
    BY <1>2
  <2> DEFINE g == [i \in 0 .. m |-> IF i = m THEN G[m][f[m - 1]] ELSE f[i]]
  <2>2. f[m - 1] \in S /\ G[m][f[m - 1]] \in S
    BY <2>1
  <2>3. \A i \in 0 .. m : i # m => i \in 0 .. m - 1 /\ g[i] = f[i] /\ f[i] \in S
    BY <2>1
  <2>4. g \in [0 .. m -> S] /\ g[0] = s
    BY <2>1, <2>2, <2>3
  <2>5. ASSUME NEW i \in 1 .. m PROVE g[i] = G[i][g[i - 1]]
    <3>1. i - 1 \in 0 .. m - 1 /\ g[i - 1] = f[i - 1]
      BY <2>3
    <3>2. CASE i = m
      BY <3>1, <3>2
    <3>3. CASE i # m
      <4>1. i \in 1 .. m - 1 /\ g[i] = f[i]
        BY <3>3, <2>3
      <4>2. f[i] = G[i][f[i - 1]]
        BY <4>1, <2>1
      <4> HIDE DEF g
      <4> QED
        BY <3>1, <4>1, <4>2
    <3> QED
      BY <3>2, <3>3
  <2> HIDE DEF g
  <2>6. Upto(m, g)
    BY <2>4, <2>5
  <2> HIDE DEF Upto
  <2>7. \E h : Upto(m, h)
    BY <2>6
  <2> QED
    BY <2>7
<1>3. n \in Good
  <2>1. \A i \in 0 .. n : i \in Good
    <3> HIDE DEF Good
    <3> QED
      BY <1>1, <1>2, Induction
  <2> HIDE DEF Good
  <2> QED
    BY <2>1
<1>4. PICK f : Upto(n, f)
  BY <1>3
<1> QED
  BY <1>4 DEF Goes

-----------------------------------------------------------------------------
(* The walk over a list.                                                   *)

LEMMA SizeIs == MaxSteps \in Nat
BY ListAssumption, FS_CardinalityType DEF MaxSteps

LEMMA NoRepeat ==
    ASSUME NEW s, NEW J, Typed(s, J), NEW n, NEW c, IsList(s, n, c),
           NEW i \in 1..n, NEW k \in 1..n, i # k
    PROVE  c[i] # c[k] /\ s.node[c[i]].job_id # s.node[c[k]].job_id
<1>1. n \in Nat /\ c[i] \in Addr /\ c[k] \in Addr
  BY DEF IsList
<1>2. s.node[c[i]].job_id \in Nat /\ s.node[c[k]].job_id \in Nat
  BY <1>1 DEF Typed, ListOf, NodeOf
<1>3. i < k \/ k < i
  BY <1>1
<1>4. \A x, y \in 1..n : x < y => s.node[c[x]].job_id > s.node[c[y]].job_id
  BY DEF IsList
<1>5. s.node[c[i]].job_id # s.node[c[k]].job_id
  BY <1>2, <1>3, <1>4
<1> QED
  BY <1>5

LEMMA NoLongerThanAddr ==
    ASSUME NEW s, NEW J, Typed(s, J), NEW n, NEW c, IsList(s, n, c)
    PROVE  n <= MaxSteps
<1>1. n \in Nat /\ c \in [1..n -> Addr]
  BY DEF IsList
<1>2. \A i, k \in 1..n : c[i] = c[k] => i = k
  BY NoRepeat
<1>3. c \in Injection(1..n, Addr)
  BY <1>1, <1>2 DEF Injection, IsInjective
<1>4. Cardinality(1..n) <= Cardinality(Addr)
  BY <1>3, ListAssumption, FS_Injection
<1>5. Cardinality(1..n) = n
  BY <1>1, FS_Interval
<1> QED
  BY <1>4, <1>5 DEF MaxSteps

LEMMA WalkGoes ==
    ASSUME NEW s, NEW J, Typed(s, J)
    PROVE  /\ Walk(s)[0] = s.head
           /\ \A k \in 1..MaxSteps :
                 Walk(s)[k] = IF Walk(s)[k - 1] = NULL THEN NULL
                              ELSE s.node[Walk(s)[k - 1]].next
           /\ DOMAIN Walk(s) = 0..MaxSteps
<1> DEFINE m == MaxSteps
           NextOf(p) == IF p = NULL THEN NULL ELSE s.node[p].next
           Rec(u) == u = [k \in 0..m |-> IF k = 0 THEN s.head
                                         ELSE IF u[k - 1] = NULL THEN NULL
                                         ELSE s.node[u[k - 1]].next]
<1>1. m \in Nat
  BY SizeIs
<1>2. Walk(s) = (CHOOSE u : Rec(u))
  BY DEF Walk
<1>3. \E u : Rec(u)
  <2> DEFINE G == [k \in 1..m |-> [p \in Pointer |-> NextOf(p)]]
  <2>1. \A p \in Pointer : NextOf(p) \in Pointer
    BY DEF Typed, ListOf, NodeOf, Pointer
  <2>2. G \in [1..m -> [Pointer -> Pointer]]
    BY <2>1
  <2>3. \A k \in 1..m, p \in Pointer : G[k][p] = NextOf(p)
    OBVIOUS
  <2>4. s.head \in Pointer
    BY DEF Typed, ListOf
  <2> HIDE DEF G, m
  <2>5. PICK f : Goes(f, m, Pointer, s.head, G)
    BY <1>1, <2>2, <2>4, Recursion
  <2>6. f \in [0..m -> Pointer] /\ f[0] = s.head /\ \A k \in 1..m : f[k] = G[k][f[k - 1]]
    BY <2>5 DEF Goes
  <2>7. ASSUME NEW k \in 0..m
        PROVE  f[k] = IF k = 0 THEN s.head ELSE NextOf(f[k - 1])
    <3>1. CASE k = 0
      BY <2>6, <3>1
    <3>2. CASE k # 0
      <4>1. k \in 1..m /\ k - 1 \in 0..m
        BY <3>2, <1>1
      <4>2. f[k - 1] \in Pointer
        BY <2>6, <4>1
      <4> HIDE DEF NextOf
      <4> QED
        BY <2>3, <2>6, <3>2, <4>1, <4>2
    <3> QED
      BY <3>1, <3>2
  <2>8. f = [k \in 0..m |-> f[k]]
    BY <2>6
  <2>9. Rec(f)
    BY <2>7, <2>8
  <2> HIDE DEF Rec
  <2> QED
    BY <2>9
<1>4. Rec(Walk(s))
  <2> HIDE DEF Rec
  <2> QED
    BY <1>2, <1>3
<1> DEFINE W == Walk(s)
<1>5. W = [k \in 0..m |-> IF k = 0 THEN s.head
                          ELSE IF W[k - 1] = NULL THEN NULL ELSE s.node[W[k - 1]].next]
  BY <1>4
<1> HIDE DEF W, m
<1>6. \A k \in 0..m : W[k] = IF k = 0 THEN s.head
                             ELSE IF W[k - 1] = NULL THEN NULL ELSE s.node[W[k - 1]].next
  BY <1>5
<1>7. 0 \in 0..m /\ \A k \in 1..m : k \in 0..m /\ k # 0
  BY <1>1
<1>8. W[0] = s.head /\ \A k \in 1..m : W[k] = IF W[k - 1] = NULL THEN NULL
                                              ELSE s.node[W[k - 1]].next
  BY <1>6, <1>7
<1>9. DOMAIN W = 0..m
  BY <1>5
<1> QED
  BY <1>8, <1>9 DEF W, m

\* The walk meets the nodes of the list in their order and then stays at NULL.
LEMMA WalkIs ==
    ASSUME NEW s, NEW J, Typed(s, J), NEW n, NEW c, IsList(s, n, c)
    PROVE  \A k \in 0..MaxSteps : Walk(s)[k] = At(c, n, k + 1)
<1> DEFINE Good == {k \in 0..MaxSteps : Walk(s)[k] = At(c, n, k + 1)}
<1>1. n \in Nat /\ MaxSteps \in Nat /\ c \in [1..n -> Addr]
  BY SizeIs DEF IsList
<1>2. 0 \in Good
  BY <1>1, WalkGoes DEF IsList
<1>3. ASSUME NEW k \in 1..MaxSteps, k - 1 \in Good PROVE k \in Good
  <2>1. Walk(s)[k - 1] = At(c, n, k)
    BY <1>3, <1>1
  <2>2. Walk(s)[k] = IF Walk(s)[k - 1] = NULL THEN NULL ELSE s.node[Walk(s)[k - 1]].next
    BY WalkGoes
  <2>3. CASE k \in 1..n
    <3>1. At(c, n, k) = c[k] /\ c[k] # NULL
      BY <2>3, <1>1, ListAssumption DEF At
    <3>2. s.node[c[k]].next = At(c, n, k + 1)
      BY <2>3 DEF IsList
    <3> QED
      BY <1>1, <2>1, <2>2, <3>1, <3>2
  <2>4. CASE k \notin 1..n
    <3>1. k + 1 \notin 1..n
      BY <2>4, <1>1
    <3> QED
      BY <1>1, <2>1, <2>2, <2>4, <3>1 DEF At
  <2> QED
    BY <2>3, <2>4
<1> HIDE DEF Good
<1>4. \A k \in 0..MaxSteps : k \in Good
  BY <1>1, <1>2, <1>3, Induction
<1> QED
  BY <1>4 DEF Good

LEMMA LinkedIs ==
    ASSUME NEW s, NEW J, Typed(s, J), NEW n, NEW c, IsList(s, n, c)
    PROVE  Linked(s) = {c[i] : i \in 1..n}
<1>1. n \in Nat /\ MaxSteps \in Nat /\ c \in [1..n -> Addr] /\ n <= MaxSteps
  <2>1. n <= MaxSteps
    BY NoLongerThanAddr
  <2> QED
    BY <2>1, SizeIs DEF IsList
<1>2. ASSUME NEW p \in Linked(s) PROVE p \in {c[i] : i \in 1..n}
  <2>1. PICK k \in 0..MaxSteps : p = Walk(s)[k] /\ p # NULL
    BY DEF Linked
  <2> QED
    BY <2>1, WalkIs DEF At
<1>3. ASSUME NEW i \in 1..n PROVE c[i] \in Linked(s)
  <2>1. i - 1 \in 0..MaxSteps /\ (i - 1) + 1 = i
    BY <1>1
  <2>2. Walk(s)[i - 1] = c[i]
    BY <2>1, WalkIs DEF At
  <2>3. c[i] # NULL
    BY <1>1, ListAssumption
  <2> QED
    BY <2>1, <2>2, <2>3 DEF Linked
<1> QED
  BY <1>2, <1>3
-----------------------------------------------------------------------------
(* The table that a list stands for.                                       *)

Number(s, c, i) == s.node[c[i]].job_id
Numbers(s, n, c) == {Number(s, c, i) : i \in 1..n}

LEMMA NumbersAre ==
    ASSUME NEW s, NEW J, Typed(s, J), NEW n, NEW c, IsList(s, n, c)
    PROVE  /\ \A i \in 1..n : c[i] \in Addr /\ c[i] # NULL /\ Number(s, c, i) \in Nat \ {0}
           /\ \A i, k \in 1..n : i < k => Number(s, c, i) > Number(s, c, k)
           /\ \A i, k \in 1..n : i # k => c[i] # c[k] /\ Number(s, c, i) # Number(s, c, k)
<1>1. \A i \in 1..n : c[i] \in Addr /\ c[i] # NULL /\ s.node[c[i]].job_id > 0
  BY ListAssumption DEF IsList
<1>2. \A p \in Addr : s.node[p].job_id \in Nat
  BY DEF Typed, ListOf, NodeOf
<1>3. \A i, k \in 1..n : i < k => Number(s, c, i) > Number(s, c, k)
  BY DEF IsList, Number
<1>4. \A i, k \in 1..n : i # k => c[i] # c[k] /\ Number(s, c, i) # Number(s, c, k)
  BY NoRepeat DEF Number
<1> QED
  BY <1>1, <1>2, <1>3, <1>4 DEF Number

LEMMA JobOfNumber ==
    ASSUME NEW s, NEW J, Typed(s, J), NEW n, NEW c, IsList(s, n, c), NEW i \in 1..n
    PROVE  ByNumber(s, Number(s, c, i)) = c[i]
<1>1. Linked(s) = {c[k] : k \in 1..n}
  BY LinkedIs
<1>2. \A p \in Linked(s) : s.node[p].job_id = Number(s, c, i) <=> p = c[i]
  <2>1. \A k \in 1..n : k # i => Number(s, c, k) # Number(s, c, i)
    BY NumbersAre
  <2> QED
    BY <1>1, <2>1 DEF Number
<1>3. c[i] \in Linked(s)
  BY <1>1
<1> QED
  BY <1>2, <1>3 DEF ByNumber

LEMMA StoreIs ==
    ASSUME NEW s, NEW J, Typed(s, J), NEW n, NEW c, IsList(s, n, c), NEW m
    PROVE  /\ DOMAIN StoreOf(s, m).jobs = Numbers(s, n, c)
           /\ \A i \in 1..n : StoreOf(s, m).jobs[Number(s, c, i)] = s.node[c[i]].job
           /\ StoreOf(s, m).current_job = ToId(s, s.cur)
           /\ StoreOf(s, m).previous_job = ToId(s, s.prv)
           /\ StoreOf(s, m).job_count = n
           /\ StoreOf(s, m).next_job_id = m
<1>1. {s.node[p].job_id : p \in Linked(s)} = Numbers(s, n, c)
  <2>1. Linked(s) = {c[k] : k \in 1..n}
    BY LinkedIs
  <2> QED
    BY <2>1 DEF Numbers, Number
<1>2. StoreOf(s, m).jobs = [id \in Numbers(s, n, c) |-> s.node[ByNumber(s, id)].job]
  BY <1>1 DEF StoreOf
<1>3. ASSUME NEW i \in 1..n
      PROVE  StoreOf(s, m).jobs[Number(s, c, i)] = s.node[c[i]].job
  <2>1. Number(s, c, i) \in Numbers(s, n, c)
    BY DEF Numbers
  <2> QED
    BY <1>2, <2>1, JobOfNumber
<1>4. s.cnt = n
  BY DEF IsList
<1> QED
  BY <1>2, <1>3, <1>4 DEF StoreOf

\* f is a table of the jobs with the numbers D.
IsTable(f, D) == f = [j \in D |-> f[j]]

\* To be the table of a list is to give the number of each node the job that it holds.
LEMMA IsStoreOf ==
    ASSUME NEW s, NEW J, Typed(s, J), NEW n, NEW c, IsList(s, n, c), NEW m,
           NEW f, IsTable(f, Numbers(s, n, c)),
           \A i \in 1..n : f[Number(s, c, i)] = s.node[c[i]].job
    PROVE  StoreOf(s, m) =
               [jobs |-> f, current_job |-> ToId(s, s.cur), previous_job |-> ToId(s, s.prv),
                job_count |-> n, next_job_id |-> m]
<1> DEFINE g == StoreOf(s, m).jobs
<1>1. g = [j \in Numbers(s, n, c) |-> g[j]]
  <2>1. g = [j \in DOMAIN g |-> g[j]]
    BY DEF StoreOf
  <2> QED
    BY <2>1, StoreIs
<1>2. ASSUME NEW j \in Numbers(s, n, c) PROVE g[j] = f[j]
  <2>1. PICK i \in 1..n : j = Number(s, c, i)
    BY DEF Numbers
  <2>2. g[Number(s, c, i)] = s.node[c[i]].job
    BY StoreIs
  <2> QED
    BY <2>1, <2>2
<1>3. g = f
  BY <1>1, <1>2 DEF IsTable
<1>4. s.cnt = n
  BY DEF IsList
<1> QED
  BY <1>3, <1>4 DEF StoreOf

LEMMA ToIdIs ==
    ASSUME NEW s, NEW J, Typed(s, J), NEW n, NEW c, IsList(s, n, c)
    PROVE  /\ ToId(s, NULL) = 0
           /\ \A i \in 1..n : ToId(s, c[i]) = Number(s, c, i)
           /\ s.cur = NULL \/ \E i \in 1..n : s.cur = c[i]
           /\ s.prv = NULL \/ \E i \in 1..n : s.prv = c[i]
<1>1. \A i \in 1..n : c[i] # NULL
  BY NumbersAre
<1> QED
  BY <1>1 DEF ToId, Number, IsList

-----------------------------------------------------------------------------
(* What a loop finds.                                                      *)

LEMMA ListIs ==
    /\ List.node = node /\ List.head = jobs /\ List.cur = current_job
    /\ List.prv = previous_job /\ List.cnt = job_count
BY DEF List

\* A search stops at the first node of the list that is in S, or at the end.
LEMMA FirstInIs ==
    ASSUME NEW J, Typed(List, J), NEW n, NEW c, IsList(List, n, c), NEW S, S \subseteq Addr
    PROVE  \/ /\ Hits(S) = {} /\ FirstIn(S) = NULL
              /\ \A i \in 1..n : c[i] \notin S
           \/ \E i \in 1..n :
                 /\ Hits(S) # {} /\ FirstStep(Hits(S)) = i - 1
                 /\ FirstIn(S) = c[i] /\ c[i] \in S
                 /\ \A k \in 1..n : k < i => c[k] \notin S
<1>1. n \in Nat /\ MaxSteps \in Nat /\ c \in [1..n -> Addr] /\ n <= MaxSteps
  <2>1. n <= MaxSteps
    BY NoLongerThanAddr
  <2> QED
    BY <2>1, SizeIs DEF IsList
<1>2. \A k \in 0..MaxSteps : Walk(List)[k] = At(c, n, k + 1)
  BY WalkIs
<1>3. NULL \notin S
  BY ListAssumption
<1>4. \A k \in 0..MaxSteps : k \in Hits(S) <=> (k + 1 \in 1..n /\ c[k + 1] \in S)
  BY <1>2, <1>3 DEF Hits, At
<1>5. CASE Hits(S) = {}
  <2>1. ASSUME NEW i \in 1..n PROVE c[i] \notin S
    <3>1. i - 1 \in 0..MaxSteps /\ (i - 1) + 1 = i
      BY <1>1
    <3> QED
      BY <1>4, <1>5, <3>1
  <2> QED
    BY <1>5, <2>1 DEF FirstIn
<1>6. CASE Hits(S) # {}
  <2>1. Hits(S) \in SUBSET Nat
    BY <1>1 DEF Hits
  <2>2. \E m \in Hits(S) : \A k \in Hits(S) : m <= k
    BY <1>6, <2>1, Least
  <2>3. /\ FirstStep(Hits(S)) \in Hits(S)
        /\ \A k \in Hits(S) : FirstStep(Hits(S)) <= k
    BY <2>2 DEF FirstStep
  <2> DEFINE h == FirstStep(Hits(S))
  <2>4. h \in 0..MaxSteps
    BY <2>3 DEF Hits
  <2>5. h + 1 \in 1..n /\ c[h + 1] \in S /\ h = (h + 1) - 1
    BY <1>4, <2>3, <2>4
  <2>6. FirstIn(S) = c[h + 1]
    BY <1>2, <1>6, <2>4, <2>5 DEF FirstIn, At
  <2>7. ASSUME NEW k \in 1..n, k < h + 1 PROVE c[k] \notin S
    <3>1. k - 1 \in 0..MaxSteps /\ (k - 1) + 1 = k /\ ~(h <= k - 1)
      BY <1>1, <2>4, <2>7
    <3> QED
      BY <1>4, <2>3, <3>1
  <2> QED
    BY <1>6, <2>5, <2>6, <2>7
<1> QED
  BY <1>5, <1>6

\* job_store_find returns the node of the number, or NULL when the table has no such job.
LEMMA FindIs ==
    ASSUME NEW J, Typed(List, J), NEW n, NEW c, IsList(List, n, c), NEW id
    PROVE  \/ Find(id) = NULL /\ id \notin Numbers(List, n, c)
           \/ \E i \in 1..n : Find(id) = c[i] /\ id = Number(List, c, i)
<1>1. Numbered(id) \subseteq Addr
  BY DEF Numbered
<1>2. \A i \in 1..n : c[i] \in Numbered(id) <=> Number(List, c, i) = id
  BY ListIs, NumbersAre DEF Numbered, Number
<1>3. CASE FirstIn(Numbered(id)) = NULL /\ \A i \in 1..n : c[i] \notin Numbered(id)
  BY <1>2, <1>3 DEF Find, Numbers
<1>4. CASE \E i \in 1..n : FirstIn(Numbered(id)) = c[i] /\ c[i] \in Numbered(id)
  BY <1>2, <1>4 DEF Find
<1> QED
  BY <1>1, <1>3, <1>4, FirstInIs
-----------------------------------------------------------------------------
(* The calls that change jobs and no link.                                 *)

SameLinks(s, t) ==
    /\ t.head = s.head /\ t.cur = s.cur /\ t.prv = s.prv /\ t.cnt = s.cnt
    /\ \A p \in Addr : /\ t.node[p].live = s.node[p].live
                       /\ t.node[p].job_id = s.node[p].job_id
                       /\ t.node[p].next = s.node[p].next

LEMMA SameList ==
    ASSUME NEW s, NEW J, Typed(s, J), NEW n, NEW c, IsList(s, n, c),
           NEW t, SameLinks(s, t)
    PROVE  /\ IsList(t, n, c)
           /\ \A i \in 1..n : Number(t, c, i) = Number(s, c, i)
           /\ Numbers(t, n, c) = Numbers(s, n, c)
           /\ ToId(t, t.cur) = ToId(s, s.cur) /\ ToId(t, t.prv) = ToId(s, s.prv)
<1>1. \A i \in 1..n : c[i] \in Addr
  BY DEF IsList
<1>2. \A i \in 1..n : /\ t.node[c[i]].live = s.node[c[i]].live
                      /\ t.node[c[i]].job_id = s.node[c[i]].job_id
                      /\ t.node[c[i]].next = s.node[c[i]].next
  BY <1>1 DEF SameLinks
<1>3. \A i \in 1..n : Number(t, c, i) = Number(s, c, i)
  BY <1>2 DEF Number
<1>4. IsList(t, n, c)
  <2>1. n \in Nat /\ c \in [1..n -> Addr] /\ t.head = At(c, n, 1) /\ t.cnt = n
    BY DEF IsList, SameLinks
  <2>2. \A i \in 1..n : t.node[c[i]].next = At(c, n, i + 1)
    BY <1>2 DEF IsList
  <2>3. \A i \in 1..n : t.node[c[i]].live /\ t.node[c[i]].job_id > 0
    BY <1>2 DEF IsList
  <2>4. \A i, k \in 1..n : i < k => t.node[c[i]].job_id > t.node[c[k]].job_id
    BY <1>2 DEF IsList
  <2>5. \A p \in Addr : t.node[p].live => \E i \in 1..n : c[i] = p
    BY DEF IsList, SameLinks
  <2>6. {t.cur, t.prv} \subseteq {c[i] : i \in 1..n} \cup {NULL}
    BY DEF IsList, SameLinks
  <2> QED
    BY <2>1, <2>2, <2>3, <2>4, <2>5, <2>6 DEF IsList
<1>5. Numbers(t, n, c) = Numbers(s, n, c)
  BY <1>3 DEF Numbers
<1>6. ToId(t, t.cur) = ToId(s, s.cur) /\ ToId(t, t.prv) = ToId(s, s.prv)
  BY DEF ToId, SameLinks, Typed, ListOf, Pointer
<1> QED
  BY <1>3, <1>4, <1>5, <1>6

LEMMA SameStore ==
    ASSUME NEW s, NEW J, Typed(s, J), NEW n, NEW c, IsList(s, n, c),
           NEW t, NEW K, Typed(t, K), SameLinks(s, t), NEW m,
           NEW f, IsTable(f, Numbers(s, n, c)),
           \A i \in 1..n : f[Number(s, c, i)] = t.node[c[i]].job
    PROVE  StoreOf(t, m) =
               [jobs |-> f, current_job |-> StoreOf(s, m).current_job,
                previous_job |-> StoreOf(s, m).previous_job,
                job_count |-> StoreOf(s, m).job_count,
                next_job_id |-> StoreOf(s, m).next_job_id]
<1>1. /\ IsList(t, n, c) /\ Numbers(t, n, c) = Numbers(s, n, c)
      /\ \A i \in 1..n : Number(t, c, i) = Number(s, c, i)
      /\ ToId(t, t.cur) = ToId(s, s.cur) /\ ToId(t, t.prv) = ToId(s, s.prv)
  BY SameList
<1>2. IsTable(f, Numbers(t, n, c))
  BY <1>1
<1>3. \A i \in 1..n : f[Number(t, c, i)] = t.node[c[i]].job
  BY <1>1
<1>4. StoreOf(t, m) =
          [jobs |-> f, current_job |-> ToId(t, t.cur), previous_job |-> ToId(t, t.prv),
           job_count |-> n, next_job_id |-> m]
  BY <1>1, <1>2, <1>3, IsStoreOf
<1>5. /\ StoreOf(s, m).current_job = ToId(s, s.cur)
      /\ StoreOf(s, m).previous_job = ToId(s, s.prv)
      /\ StoreOf(s, m).job_count = n /\ StoreOf(s, m).next_job_id = m
  BY StoreIs
<1> QED
  BY <1>1, <1>4, <1>5

JobPut(s, t, p, job) ==
    t = [node |-> [s.node EXCEPT ![p].job = job], head |-> s.head, cur |-> s.cur,
         prv |-> s.prv, cnt |-> s.cnt]

LEMMA JobChanged ==
    ASSUME NEW s, NEW J, Typed(s, J), NEW n, NEW c, IsList(s, n, c), NEW m,
           NEW i \in 1..n, NEW job, NEW t,
           JobPut(s, t, c[i], job)
    PROVE  /\ Typed(t, J \cup {job}) /\ SameLinks(s, t)
           /\ StoreOf(t, m) = JS!WithJob(StoreOf(s, m), Number(s, c, i), job)
<1> DEFINE K == J \cup {job}
           e == [s.node[c[i]] EXCEPT !.job = job]
<1>1. c[i] \in Addr
  BY DEF IsList
<1>2. s.node[c[i]] \in NodeOf(J)
  BY <1>1 DEF Typed, ListOf
<1>3. /\ e \in NodeOf(K) /\ e.job = job
      /\ e.live = s.node[c[i]].live /\ e.job_id = s.node[c[i]].job_id
      /\ e.next = s.node[c[i]].next
  BY <1>2 DEF NodeOf
<1>4. /\ t = [node |-> t.node, head |-> t.head, cur |-> t.cur, prv |-> t.prv, cnt |-> t.cnt]
      /\ t.node = [s.node EXCEPT ![c[i]] = e]
      /\ t.head = s.head /\ t.cur = s.cur /\ t.prv = s.prv /\ t.cnt = s.cnt
  BY DEF JobPut
<1>5. NodeOf(J) \subseteq NodeOf(K)
  BY DEF NodeOf
<1> HIDE DEF e
<1>6. s.node \in [Addr -> NodeOf(J)]
  BY DEF Typed, ListOf
<1>7. t.node \in [Addr -> NodeOf(K)] /\ \A p \in Addr : p # c[i] => t.node[p] = s.node[p]
  BY <1>3, <1>4, <1>5, <1>6
<1>8. t.node[c[i]] = e
  BY <1>1, <1>4, <1>6
<1>9. Typed(t, K)
  BY <1>4, <1>7 DEF Typed, ListOf
<1>10. SameLinks(s, t)
  BY <1>3, <1>4, <1>7, <1>8 DEF SameLinks
<1> DEFINE A == StoreOf(s, m)
           f == [A.jobs EXCEPT ![Number(s, c, i)] = job]
<1>11. DOMAIN A.jobs = Numbers(s, n, c)
  BY StoreIs
<1>12. IsTable(f, Numbers(s, n, c))
  BY <1>11 DEF IsTable
<1>13. ASSUME NEW k \in 1..n PROVE f[Number(s, c, k)] = t.node[c[k]].job
  <2>1. A.jobs[Number(s, c, k)] = s.node[c[k]].job
    BY StoreIs
  <2>2. Number(s, c, k) \in DOMAIN A.jobs
    BY <1>11 DEF Numbers
  <2>3. CASE k = i
    BY <1>3, <1>8, <2>2, <2>3
  <2>4. CASE k # i
    <3>1. c[k] # c[i] /\ Number(s, c, k) # Number(s, c, i) /\ c[k] \in Addr
      BY <2>4, NumbersAre
    <3> QED
      BY <1>7, <2>1, <2>2, <3>1
  <2> QED
    BY <2>3, <2>4
<1>14. StoreOf(t, m) = JS!WithJob(A, Number(s, c, i), job)
  <2> HIDE DEF f, A, K
  <2>0. \A k \in 1..n : f[Number(s, c, k)] = t.node[c[k]].job
    BY <1>13
  <2>1. StoreOf(t, m) = [jobs |-> f, current_job |-> StoreOf(s, m).current_job,
                         previous_job |-> StoreOf(s, m).previous_job,
                         job_count |-> StoreOf(s, m).job_count,
                         next_job_id |-> StoreOf(s, m).next_job_id]
    BY <2>0, <1>9, <1>10, <1>12, SameStore
  <2> QED
    BY <2>1 DEF JS!WithJob, f, A
<1> QED
  BY <1>9, <1>10, <1>14

LEMMA ChangeKeepsInv ==
    ASSUME NEW J, Typed(List, J), NEW n, NEW c, IsList(List, n, c),
           Below(List, n, c, next_job_id), NEW i \in 1..n, NEW job, ChangeJob(c[i], job)
    PROVE  IInv' /\ AbstractStore' = JS!WithJob(AbstractStore, Number(List, c, i), job)
<1>1. JobPut(List, List', c[i], job)
  BY DEF ChangeJob, JobPut, List
<1>2. next_job_id' = next_job_id
  BY DEF ChangeJob
<1>3. /\ Typed(List', J \cup {job}) /\ SameLinks(List, List')
      /\ StoreOf(List', next_job_id)
            = JS!WithJob(StoreOf(List, next_job_id), Number(List, c, i), job)
  BY <1>1, JobChanged
<1>4. IsList(List', n, c) /\ \A k \in 1..n : Number(List', c, k) = Number(List, c, k)
  BY <1>3, SameList
<1>5. Below(List', n, c, next_job_id')
  BY <1>2, <1>4 DEF Below, Number
<1> QED
  BY <1>2, <1>3, <1>4, <1>5 DEF IInv, AbstractStore

\* What the abstract table says of the job of a node.
LEMMA AbstractJob ==
    ASSUME NEW J, Typed(List, J), NEW n, NEW c, IsList(List, n, c), NEW i \in 1..n
    PROVE  /\ JS!HasJob(AbstractStore, Number(List, c, i))
           /\ AbstractStore.jobs[Number(List, c, i)] = node[c[i]].job
<1>1. /\ DOMAIN AbstractStore.jobs = Numbers(List, n, c)
      /\ AbstractStore.jobs[Number(List, c, i)] = List.node[c[i]].job
  BY StoreIs DEF AbstractStore
<1> QED
  BY <1>1, ListIs DEF Numbers, JS!HasJob

\* A job that is changed by its number is the one that job_store_find returns.
LEMMA FoundByNumber ==
    ASSUME NEW J, Typed(List, J), NEW n, NEW c, IsList(List, n, c), NEW id, Find(id) # NULL
    PROVE  \E i \in 1..n : Find(id) = c[i] /\ id = Number(List, c, i)
BY FindIs

LEMMA AddProcessIs ==
    ASSUME NEW J, Typed(List, J), NEW n, NEW c, IsList(List, n, c),
           Below(List, n, c, next_job_id),
           NEW id \in 1..MaxJobs, NEW pid \in Pids, AddProcess(id, pid)
    PROVE  IInv' /\ JS!StoreNext
<1>1. PICK i \in 1..n : Find(id) = c[i] /\ id = Number(List, c, i)
  BY FoundByNumber DEF AddProcess, ChangeJob
<1> DEFINE job == JS!JobWithProcess(node[c[i]].job, pid)
<1>2. ChangeJob(c[i], job) /\ Len(node[c[i]].job.processes) < MaxProcs
  BY <1>1 DEF AddProcess, ChangeJob
<1>3. JS!HasJob(AbstractStore, id) /\ AbstractStore.jobs[id] = node[c[i]].job
  BY <1>1, AbstractJob
<1> HIDE DEF job
<1>4. IInv' /\ AbstractStore' = JS!WithJob(AbstractStore, id, job)
  BY <1>1, <1>2, ChangeKeepsInv
<1>5. JS!DoAddProcess(id, pid)
  BY <1>2, <1>3, <1>4 DEF JS!DoAddProcess, JS!StoreAddProcess, job
<1> QED
  BY <1>4, <1>5 DEF JS!StoreNext, JS!JobIds

LEMMA SetStateIs ==
    ASSUME NEW J, Typed(List, J), NEW n, NEW c, IsList(List, n, c),
           Below(List, n, c, next_job_id), NEW id \in 1..MaxJobs, SetState(id)
    PROVE  IInv' /\ JS!StoreNext
<1>1. PICK i \in 1..n : Find(id) = c[i] /\ id = Number(List, c, i)
  BY FoundByNumber DEF SetState, ChangeJob
<1> DEFINE job == JS!JobWithState(node[c[i]].job, "running")
<1>2. ChangeJob(c[i], job)
  BY <1>1 DEF SetState
<1>3. JS!HasJob(AbstractStore, id) /\ AbstractStore.jobs[id] = node[c[i]].job
  BY <1>1, AbstractJob
<1> HIDE DEF job
<1>4. IInv' /\ AbstractStore' = JS!WithJob(AbstractStore, id, job)
  BY <1>1, <1>2, ChangeKeepsInv
<1>5. JS!DoSetState(id, "running")
  BY <1>3, <1>4 DEF JS!DoSetState, JS!StoreSetState, job
<1>6. "running" \in JS!JobStates
  BY DEF JS!JobStates
<1> QED
  BY <1>4, <1>5, <1>6 DEF JS!StoreNext, JS!JobIds

LEMMA MarkNotifiedIs ==
    ASSUME NEW J, Typed(List, J), NEW n, NEW c, IsList(List, n, c),
           Below(List, n, c, next_job_id), NEW id \in 1..MaxJobs, MarkNotified(id)
    PROVE  IInv' /\ JS!StoreNext
<1>1. PICK i \in 1..n : Find(id) = c[i] /\ id = Number(List, c, i)
  BY FoundByNumber DEF MarkNotified, ChangeJob
<1> DEFINE job == JS!JobNotified(node[c[i]].job)
<1>2. ChangeJob(c[i], job)
  BY <1>1 DEF MarkNotified
<1>3. JS!HasJob(AbstractStore, id) /\ AbstractStore.jobs[id] = node[c[i]].job
  BY <1>1, AbstractJob
<1> HIDE DEF job
<1>4. IInv' /\ AbstractStore' = JS!WithJob(AbstractStore, id, job)
  BY <1>1, <1>2, ChangeKeepsInv
<1>5. JS!DoMarkNotified(id)
  BY <1>3, <1>4 DEF JS!DoMarkNotified, JS!StoreMarkNotified, job
<1> QED
  BY <1>4, <1>5 DEF JS!StoreNext, JS!JobIds

\* The first job of the walk with the pid is the newest that holds it.
LEMMA FirstHolder ==
    ASSUME NEW J, Typed(List, J), NEW n, NEW c, IsList(List, n, c), NEW pid,
           NEW i \in 1..n, c[i] \in Holding(pid),
           \A k \in 1..n : k < i => c[k] \notin Holding(pid)
    PROVE  \A k \in 1..n :
              JS!IsNewest(Number(List, c, k), JS!Holders(AbstractStore, pid)) <=> k = i
<1> DEFINE H == JS!Holders(AbstractStore, pid)
<1>1. n \in Nat
  BY DEF IsList
<1>2. DOMAIN AbstractStore.jobs = Numbers(List, n, c)
  BY StoreIs DEF AbstractStore
<1>3. ASSUME NEW k \in 1..n PROVE Number(List, c, k) \in H <=> c[k] \in Holding(pid)
  <2>1. AbstractStore.jobs[Number(List, c, k)] = node[c[k]].job
    BY AbstractJob
  <2>2. Number(List, c, k) \in DOMAIN AbstractStore.jobs /\ c[k] \in Addr
    BY <1>2, NumbersAre DEF Numbers
  <2> QED
    BY <2>1, <2>2 DEF JS!Holders, Holding
<1>4. H \subseteq Numbers(List, n, c)
  BY <1>2 DEF JS!Holders
<1> HIDE DEF H
<1>5. \A k \in 1..n : Number(List, c, k) \in Nat
  BY NumbersAre
<1>6. \A k, x \in 1..n : k < x => Number(List, c, k) > Number(List, c, x)
  BY NumbersAre
<1>7. ASSUME NEW x \in H PROVE x <= Number(List, c, i)
  <2>1. PICK k \in 1..n : x = Number(List, c, k)
    BY <1>4, <1>7 DEF Numbers
  <2>2. ~(k < i)
    BY <1>3, <1>7, <2>1
  <2>3. k = i \/ i < k
    BY <1>1, <2>2
  <2> QED
    BY <1>5, <1>6, <2>1, <2>3
<1>8. Number(List, c, i) \in H
  BY <1>3
<1>9. ASSUME NEW k \in 1..n, k # i PROVE ~JS!IsNewest(Number(List, c, k), H)
  <2> SUFFICES ASSUME JS!IsNewest(Number(List, c, k), H) PROVE FALSE
    OBVIOUS
  <2>1. Number(List, c, k) \in H /\ Number(List, c, i) <= Number(List, c, k)
    BY <1>8 DEF JS!IsNewest
  <2>2. Number(List, c, k) = Number(List, c, i)
    BY <1>5, <1>7, <2>1
  <2> QED
    BY <1>9, <2>2, NumbersAre
<1>10. JS!IsNewest(Number(List, c, i), H)
  BY <1>7, <1>8 DEF JS!IsNewest
<1> QED
  BY <1>9, <1>10 DEF H

LEMMA SetProcessStateIs ==
    ASSUME NEW J, Typed(List, J), NEW n, NEW c, IsList(List, n, c),
           Below(List, n, c, next_job_id),
           NEW pid \in Pids, NEW st \in {"done", "stopped"}, NEW code \in Statuses,
           SetProcessState(pid, st, code)
    PROVE  IInv' /\ JS!StoreNext
<1> DEFINE A == AbstractStore
           j == FirstIn(Holding(pid))
<1>1. PICK i \in 1..n : /\ j = c[i] /\ c[i] \in Holding(pid)
                        /\ \A k \in 1..n : k < i => c[k] \notin Holding(pid)
  <2>1. j # NULL
    BY DEF SetProcessState, ChangeJob
  <2>2. Holding(pid) \subseteq Addr
    BY DEF Holding
  <2> QED
    BY <2>1, <2>2, FirstInIs
<1> DEFINE job == JS!JobWithProcessState(node[c[i]].job, pid, st, code)
           N == Number(List, c, i)
<1>2. ChangeJob(c[i], job)
  BY <1>1 DEF SetProcessState
<1>3. JS!HasJob(A, N) /\ A.jobs[N] = node[c[i]].job
  BY AbstractJob
<1> HIDE DEF job
<1>4. IInv' /\ A' = JS!WithJob(A, N, job)
  BY <1>2, ChangeKeepsInv
<1>5. \A k \in 1..n : JS!IsNewest(Number(List, c, k), JS!Holders(A, pid)) <=> k = i
  BY <1>1, FirstHolder
<1>6. DOMAIN A.jobs = Numbers(List, n, c)
  BY StoreIs DEF AbstractStore
<1>7. ASSUME NEW x \in DOMAIN A.jobs
      PROVE  JS!IsNewest(x, JS!Holders(A, pid)) <=> x = N
  <2>1. PICK k \in 1..n : x = Number(List, c, k)
    BY <1>6, <1>7 DEF Numbers
  <2>2. k # i => x # N
    BY <2>1, NumbersAre
  <2> QED
    BY <1>5, <2>1, <2>2
<1> HIDE DEF A, N
<1>8. JS!WithJob(A, N, job) = JS!StoreSetProcessState(A, pid, st, code)
  <2>1. [A.jobs EXCEPT ![N] = job]
          = [x \in DOMAIN A.jobs |->
                IF JS!IsNewest(x, JS!Holders(A, pid))
                THEN JS!JobWithProcessState(A.jobs[x], pid, st, code) ELSE A.jobs[x]]
    BY <1>3, <1>7 DEF job, JS!HasJob
  <2> QED
    BY <2>1 DEF JS!WithJob, JS!StoreSetProcessState
<1>9. JS!DoSetProcessState(pid, st, code)
  BY <1>4, <1>8 DEF JS!DoSetProcessState, A
<1>10. st \in JS!JobStates
  BY DEF JS!JobStates
<1> QED
  BY <1>4, <1>9, <1>10 DEF JS!StoreNext

LEMMA PrintCompletedIs ==
    ASSUME NEW J, Typed(List, J), NEW n, NEW c, IsList(List, n, c),
           Below(List, n, c, next_job_id), PrintCompleted
    PROVE  IInv' /\ JS!StoreNext
<1> DEFINE A == AbstractStore
           K == J \cup {JS!JobNotified(job) : job \in J}
           f == [x \in DOMAIN A.jobs |->
                    IF JS!IsCompleted(A.jobs[x]) THEN JS!JobNotified(A.jobs[x]) ELSE A.jobs[x]]
<1>1. /\ node' = [p \in Addr |->
                     IF p \in Linked(List) /\ JS!IsCompleted(node[p].job)
                     THEN [node[p] EXCEPT !.job = JS!JobNotified(@)]
                     ELSE node[p]]
      /\ List' = [node |-> node', head |-> jobs, cur |-> current_job,
                  prv |-> previous_job, cnt |-> job_count]
      /\ next_job_id' = next_job_id
  BY DEF PrintCompleted, List
<1>2. node \in [Addr -> NodeOf(J)]
  BY ListIs DEF Typed, ListOf
<1>3. ASSUME NEW p \in Addr
      PROVE  /\ node'[p] \in NodeOf(K)
             /\ node'[p].live = node[p].live /\ node'[p].job_id = node[p].job_id
             /\ node'[p].next = node[p].next
             /\ node'[p].job = IF p \in Linked(List) /\ JS!IsCompleted(node[p].job)
                               THEN JS!JobNotified(node[p].job) ELSE node[p].job
  <2>1. node[p] \in NodeOf(J)
    BY <1>2
  <2>2. node'[p] = IF p \in Linked(List) /\ JS!IsCompleted(node[p].job)
                   THEN [node[p] EXCEPT !.job = JS!JobNotified(node[p].job)] ELSE node[p]
    BY <1>1
  <2>3. JS!JobNotified(node[p].job) \in K /\ node[p].job \in K
    BY <2>1 DEF NodeOf
  <2> HIDE DEF K
  <2> QED
    BY <2>1, <2>2, <2>3 DEF NodeOf
<1>4. node' \in [Addr -> NodeOf(K)]
  BY <1>1, <1>3
<1>5. Typed(List', K)
  <2> HIDE DEF K
  <2> QED
    BY <1>1, <1>4, ListIs DEF Typed, ListOf
<1>6. SameLinks(List, List')
  BY <1>1, <1>3, ListIs DEF SameLinks
<1>7. IsList(List', n, c) /\ \A i \in 1..n : Number(List', c, i) = Number(List, c, i)
  BY <1>6, SameList
<1>8. DOMAIN A.jobs = Numbers(List, n, c)
  BY StoreIs DEF AbstractStore
<1>9. ASSUME NEW i \in 1..n PROVE f[Number(List, c, i)] = List'.node[c[i]].job
  <2>1. A.jobs[Number(List, c, i)] = node[c[i]].job
    BY AbstractJob
  <2>2. Number(List, c, i) \in DOMAIN A.jobs /\ c[i] \in Addr
    BY <1>8, NumbersAre DEF Numbers
  <2>3. c[i] \in Linked(List)
    BY LinkedIs
  <2>4. List'.node = node'
    BY <1>1
  <2> QED
    BY <1>3, <2>1, <2>2, <2>3, <2>4
<1>10. IsTable(f, Numbers(List, n, c))
  BY <1>8 DEF IsTable
<1>11. AbstractStore' = JS!StorePrintCompleted(AbstractStore)
  <2> HIDE DEF f, K
  <2>1. StoreOf(List', next_job_id)
          = [jobs |-> f, current_job |-> StoreOf(List, next_job_id).current_job,
             previous_job |-> StoreOf(List, next_job_id).previous_job,
             job_count |-> StoreOf(List, next_job_id).job_count,
             next_job_id |-> StoreOf(List, next_job_id).next_job_id]
    <3>1. \A i \in 1..n : f[Number(List, c, i)] = List'.node[c[i]].job
      BY <1>9
    <3> QED
      BY <3>1, <1>5, <1>6, <1>10, SameStore
  <2> QED
    BY <1>1, <2>1 DEF AbstractStore, JS!StorePrintCompleted, f
<1>12. Below(List', n, c, next_job_id')
  BY <1>1, <1>7 DEF Below, Number
<1>13. IInv'
  BY <1>5, <1>7, <1>12 DEF IInv
<1> QED
  BY <1>11, <1>13 DEF JS!StoreNext, JS!DoPrintCompleted

-----------------------------------------------------------------------------
(* A node before the head.                                                 *)

LEMMA AddIs ==
    ASSUME NEW J, Typed(List, J), NEW n, NEW c, IsList(List, n, c),
           Below(List, n, c, next_job_id), NEW bg \in BOOLEAN, Add(bg)
    PROVE  IInv' /\ JS!StoreNext
<1> DEFINE new == [live |-> TRUE, job_id |-> next_job_id, job |-> JS!NewJob(bg), next |-> jobs]
           K == J \cup {JS!NewJob(bg)}
           t == List'
           A == AbstractStore
<1>1. PICK p \in Addr : /\ ~node[p].live /\ node' = [node EXCEPT ![p] = new] /\ jobs' = p
                        /\ IF bg THEN previous_job' = current_job /\ current_job' = p
                           ELSE UNCHANGED <<current_job, previous_job>>
  BY DEF Add
<1> DEFINE e == [k \in 1..(n + 1) |-> IF k = 1 THEN p ELSE c[k - 1]]
<1>2. /\ t = [node |-> node', head |-> p, cur |-> current_job', prv |-> previous_job',
              cnt |-> job_count + 1]
      /\ next_job_id' = next_job_id + 1 /\ next_job_id \in Nat \ {0}
      /\ next_job_id <= MaxJobs
  BY <1>1 DEF Add, List, Below
<1>3. /\ node \in [Addr -> NodeOf(J)] /\ jobs \in Pointer
      /\ current_job \in Pointer /\ previous_job \in Pointer
  BY ListIs DEF Typed, ListOf
<1>4. new \in NodeOf(K)
  BY <1>2, <1>3 DEF NodeOf
<1>5. /\ new.live /\ new.job_id = next_job_id /\ new.job = JS!NewJob(bg) /\ new.next = jobs
  OBVIOUS
<1> HIDE DEF new
<1>6. node'[p] = new /\ \A q \in Addr : q # p => node'[q] = node[q]
  BY <1>1, <1>3
<1>7. node' \in [Addr -> NodeOf(K)]
  <2>1. NodeOf(J) \subseteq NodeOf(K)
    BY DEF NodeOf
  <2> HIDE DEF K
  <2> QED
    BY <1>1, <1>3, <1>4, <2>1
<1>8. n \in Nat /\ c \in [1..n -> Addr] /\ job_count = n
  BY ListIs DEF IsList
<1>9. Typed(t, K)
  <2>1. current_job' \in Pointer /\ previous_job' \in Pointer /\ p \in Pointer
    BY <1>1, <1>3 DEF Pointer
  <2> HIDE DEF K
  <2> QED
    BY <1>2, <1>7, <1>8, <2>1 DEF Typed, ListOf
<1>10. \A i \in 1..n : c[i] \in Addr /\ c[i] # p /\ c[i] # NULL /\ node'[c[i]] = node[c[i]]
  <2>1. \A i \in 1..n : node[c[i]].live /\ c[i] \in Addr
    BY ListIs DEF IsList
  <2> QED
    BY <1>1, <1>6, <2>1, ListAssumption
<1>11. /\ e \in [1..(n + 1) -> Addr] /\ e[1] = p
       /\ \A k \in 1..(n + 1) : k # 1 => k - 1 \in 1..n /\ e[k] = c[k - 1]
       /\ \A k \in 1..n : k + 1 \in 1..(n + 1) /\ e[k + 1] = c[k]
  BY <1>8
<1> HIDE DEF e
<1>12. {e[k] : k \in 1..(n + 1)} = {c[k] : k \in 1..n} \cup {p}
  <2>1. 1 \in 1..(n + 1)
    BY <1>8
  <2> QED
    BY <2>1, <1>11
<1> DEFINE Id(k) == Number(t, e, k)
<1>13. /\ Id(1) = next_job_id
       /\ \A k \in 1..(n + 1) : k # 1 => Id(k) = Number(List, c, k - 1)
  BY <1>2, <1>5, <1>6, <1>10, <1>11, ListIs DEF Number
<1>14. \A k \in 1..n : Number(List, c, k) < next_job_id /\ Number(List, c, k) \in Nat \ {0}
  BY NumbersAre DEF Below, Number
<1>15. \A k \in 1..(n + 1) : Id(k) \in Nat \ {0} /\ Id(k) < next_job_id + 1
  BY <1>2, <1>11, <1>13, <1>14
<1>16. IsList(t, n + 1, e)
  <2>1. n + 1 \in Nat /\ t.cnt = n + 1
    BY <1>2, <1>8
  <2>2. t.head = At(e, n + 1, 1)
    BY <1>2, <1>8, <1>11 DEF At
  <2>3. ASSUME NEW k \in 1..(n + 1) PROVE t.node[e[k]].next = At(e, n + 1, k + 1)
    <3>1. CASE k = 1
      <4>1. t.node[e[k]].next = At(c, n, 1)
        BY <3>1, <1>2, <1>5, <1>6, <1>11, ListIs DEF IsList
      <4> QED
        BY <3>1, <4>1, <1>8, <1>11 DEF At
    <3>2. CASE k # 1
      <4>1. t.node[e[k]].next = At(c, n, k)
        <5>1. k - 1 \in 1..n /\ (k - 1) + 1 = k
          BY <1>11, <3>2
        <5>2. List.node[c[k - 1]].next = At(c, n, (k - 1) + 1)
          BY <5>1 DEF IsList
        <5> QED
          BY <5>1, <5>2, <3>2, <1>2, <1>10, <1>11, ListIs
      <4> QED
        BY <3>2, <4>1, <1>8, <1>11 DEF At
    <3> QED
      BY <3>1, <3>2
  <2>4. ASSUME NEW k \in 1..(n + 1) PROVE t.node[e[k]].live /\ t.node[e[k]].job_id > 0
    <3>1. t.node[e[k]].live
      <4>1. CASE k = 1
        BY <4>1, <1>2, <1>5, <1>6, <1>11
      <4>2. CASE k # 1
        BY <4>2, <1>2, <1>10, <1>11, ListIs DEF IsList
      <4> QED
        BY <4>1, <4>2
    <3> QED
      BY <3>1, <1>15 DEF Number
  <2>5. ASSUME NEW i \in 1..(n + 1), NEW k \in 1..(n + 1), i < k
        PROVE  t.node[e[i]].job_id > t.node[e[k]].job_id
    <3>1. k # 1 /\ k - 1 \in 1..n
      BY <2>5, <1>11
    <3>2. Id(i) > Id(k)
      <4>1. CASE i = 1
        BY <4>1, <3>1, <1>2, <1>13, <1>14
      <4>2. CASE i # 1
        <5>1. i - 1 \in 1..n /\ i - 1 < k - 1
          BY <4>2, <2>5, <1>11
        <5>2. Number(List, c, i - 1) > Number(List, c, k - 1)
          BY <3>1, <5>1, NumbersAre
        <5> QED
          BY <3>1, <4>2, <5>2, <1>13
      <4> QED
        BY <4>1, <4>2
    <3> QED
      BY <3>2 DEF Number
  <2>6. ASSUME NEW q \in Addr, t.node[q].live PROVE \E k \in 1..(n + 1) : e[k] = q
    <3>1. CASE q = p
      BY <3>1, <1>8, <1>11
    <3>2. CASE q # p
      <4>1. List.node[q].live
        BY <2>6, <3>2, <1>2, <1>6, ListIs
      <4>2. PICK i \in 1..n : c[i] = q
        BY <4>1 DEF IsList
      <4> QED
        BY <4>2, <1>11
    <3> QED
      BY <3>1, <3>2
  <2>7. {t.cur, t.prv} \subseteq {e[k] : k \in 1..(n + 1)} \cup {NULL}
    <3>1. {current_job, previous_job} \subseteq {c[k] : k \in 1..n} \cup {NULL}
      BY ListIs DEF IsList
    <3> QED
      BY <3>1, <1>1, <1>2, <1>12
  <2> QED
    BY <2>1, <2>2, <2>3, <2>4, <2>5, <2>6, <2>7, <1>11 DEF IsList
<1>17. Below(t, n + 1, e, next_job_id')
  BY <1>2, <1>15 DEF Below, Number
<1>18. IInv'
  BY <1>9, <1>16, <1>17 DEF IInv
<1> DEFINE N == next_job_id
           f == [x \in DOMAIN A.jobs \cup {N} |-> IF x = N THEN JS!NewJob(bg) ELSE A.jobs[x]]
<1>19. DOMAIN A.jobs = Numbers(List, n, c)
  BY StoreIs DEF AbstractStore
<1>20. Numbers(t, n + 1, e) = DOMAIN A.jobs \cup {N}
  <2>1. 1 \in 1..(n + 1)
    BY <1>8
  <2>2. \A k \in 1..n : k + 1 \in 1..(n + 1) /\ k + 1 # 1 /\ (k + 1) - 1 = k
    BY <1>8
  <2>3. \A k \in 1..n : Id(k + 1) = Number(List, c, k)
    BY <2>2, <1>13
  <2> HIDE DEF A
  <2> QED
    BY <2>1, <2>2, <2>3, <1>11, <1>13, <1>19 DEF Numbers
<1>21. ASSUME NEW k \in 1..(n + 1) PROVE f[Number(t, e, k)] = t.node[e[k]].job
  <2>1. Number(t, e, k) \in DOMAIN A.jobs \cup {N}
    BY <1>20 DEF Numbers
  <2>2. CASE k = 1
    <3>1. t.node[e[k]].job = JS!NewJob(bg)
      BY <2>2, <1>2, <1>5, <1>6, <1>11
    <3> QED
      BY <2>1, <2>2, <3>1, <1>13
  <2>3. CASE k # 1
    <3>1. t.node[e[k]].job = node[c[k - 1]].job
      BY <2>3, <1>2, <1>10, <1>11
    <3>2. k - 1 \in 1..n
      BY <2>3, <1>11
    <3>3. A.jobs[Number(List, c, k - 1)] = node[c[k - 1]].job
      BY <3>2, AbstractJob
    <3>4. Number(t, e, k) = Number(List, c, k - 1) /\ Number(t, e, k) # N
      BY <2>3, <3>2, <1>2, <1>13, <1>14
    <3> QED
      BY <2>1, <3>1, <3>3, <3>4
  <2> QED
    BY <2>2, <2>3
<1>22. IsTable(f, Numbers(t, n + 1, e))
  BY <1>20 DEF IsTable
<1>23. /\ ToId(t, t.cur) = IF bg THEN N ELSE A.current_job
       /\ ToId(t, t.prv) = IF bg THEN A.current_job ELSE A.previous_job
  <2>1. /\ A.current_job = ToId(List, current_job)
        /\ A.previous_job = ToId(List, previous_job)
    BY ListIs DEF AbstractStore, StoreOf
  <2>2. \A q \in {c[k] : k \in 1..n} \cup {NULL} : ToId(t, q) = ToId(List, q)
    BY <1>2, <1>10, ListIs DEF ToId
  <2>3. {current_job, previous_job} \subseteq {c[k] : k \in 1..n} \cup {NULL}
    BY ListIs DEF IsList
  <2>4. ToId(t, p) = N
    BY <1>2, <1>5, <1>6, ListAssumption DEF ToId
  <2> HIDE DEF A
  <2> QED
    BY <2>1, <2>2, <2>3, <2>4, <1>1, <1>2
<1>24. AbstractStore' = JS!StoreAdd(A, bg)
  <2>1. \A k \in 1..(n + 1) : f[Number(t, e, k)] = t.node[e[k]].job
    BY <1>21
  <2>2. A.job_count = n /\ A.next_job_id = N
    BY StoreIs DEF AbstractStore
  <2> HIDE DEF f, A, K, t
  <2>3. StoreOf(t, next_job_id')
          = [jobs |-> f, current_job |-> ToId(t, t.cur), previous_job |-> ToId(t, t.prv),
             job_count |-> n + 1, next_job_id |-> next_job_id']
    BY <2>1, <1>9, <1>16, <1>22, IsStoreOf
  <2>4. AbstractStore' = StoreOf(t, next_job_id')
    BY DEF AbstractStore, t
  <2> QED
    BY <2>2, <2>3, <2>4, <1>2, <1>23 DEF JS!StoreAdd, f
<1>25. JS!DoAdd(bg)
  <2>1. A.next_job_id = N
    BY StoreIs DEF AbstractStore
  <2> QED
    BY <2>1, <1>2, <1>24 DEF JS!DoAdd
<1> QED
  BY <1>18, <1>25 DEF JS!StoreNext

-----------------------------------------------------------------------------
(* A node out of the list.                                                 *)

\* The n nodes of c without the i-th.
Cut(c, n, i) == [k \in 1..(n - 1) |-> IF k < i THEN c[k] ELSE c[k + 1]]

\* The place in c of the k-th node that is left.
Place(i, k) == IF k < i THEN k ELSE k + 1

LEMMA CutIs ==
    ASSUME NEW s, NEW J, Typed(s, J), NEW n, NEW c, IsList(s, n, c), NEW i \in 1..n
    PROVE  /\ n - 1 \in Nat /\ Cut(c, n, i) \in [1..(n - 1) -> Addr]
           /\ \A k \in 1..(n - 1) : /\ Place(i, k) \in 1..n /\ Place(i, k) # i
                                    /\ Cut(c, n, i)[k] = c[Place(i, k)]
                                    /\ Cut(c, n, i)[k] # c[i]
           /\ \A k \in 1..n : k # i => \E x \in 1..(n - 1) : Place(i, x) = k
           /\ \A k, x \in 1..(n - 1) : k < x => Place(i, k) < Place(i, x)
<1>1. n \in Nat /\ c \in [1..n -> Addr]
  BY DEF IsList
<1>2. \A k \in 1..(n - 1) : Place(i, k) \in 1..n /\ Place(i, k) # i
  BY <1>1 DEF Place
<1>3. \A k \in 1..(n - 1) : Cut(c, n, i)[k] = c[Place(i, k)]
  BY DEF Cut, Place
<1>4. Cut(c, n, i) \in [1..(n - 1) -> Addr]
  BY <1>1, <1>2, <1>3 DEF Cut
<1>5. \A k \in 1..(n - 1) : Cut(c, n, i)[k] # c[i]
  BY <1>2, <1>3, NumbersAre
<1>6. ASSUME NEW k \in 1..n, k # i PROVE \E x \in 1..(n - 1) : Place(i, x) = k
  <2>1. CASE k < i
    <3>1. k \in 1..(n - 1) /\ Place(i, k) = k
      BY <1>1, <2>1 DEF Place
    <3> QED
      BY <3>1
  <2>2. CASE ~(k < i)
    <3>1. k - 1 \in 1..(n - 1) /\ Place(i, k - 1) = k
      BY <1>1, <1>6, <2>2 DEF Place
    <3> QED
      BY <3>1
  <2> QED
    BY <2>1, <2>2
<1>7. \A k, x \in 1..(n - 1) : k < x => Place(i, k) < Place(i, x)
  BY <1>1 DEF Place
<1>8. n - 1 \in Nat
  BY <1>1
<1> QED
  BY <1>2, <1>3, <1>4, <1>5, <1>6, <1>7, <1>8

Unlinked(s, prev, curr, t) == t = Unlink(s, prev, curr)

\* t is s after the i-th node was unlinked.
UnlinkedAt(s, n, c, i, t) == Unlinked(s, At(c, n, i - 1), c[i], t)

\* The nodes of t are those of s with curr freed and prev linked to what came after it.
Relinked(s, J, prev, curr, t) ==
    /\ t.node \in [Addr -> NodeOf(J \cup {JS!NewJob(FALSE)})]
    /\ ~t.node[curr].live
    /\ \A q \in Addr : q # curr =>
          /\ t.node[q].live = s.node[q].live /\ t.node[q].job_id = s.node[q].job_id
          /\ t.node[q].job = s.node[q].job
          /\ t.node[q].next = IF q = prev THEN s.node[curr].next ELSE s.node[q].next

LEMMA UnlinkedNodes ==
    ASSUME NEW s, NEW J, Typed(s, J), NEW prev \in Pointer, NEW curr \in Addr,
           NEW t, Unlinked(s, prev, curr, t)
    PROVE  Typed(t, J \cup {JS!NewJob(FALSE)}) /\ Relinked(s, J, prev, curr, t)
<1> DEFINE next == s.node[curr].next
           rest == IF prev = NULL THEN s.node ELSE [s.node EXCEPT ![prev].next = next]
           K == J \cup {JS!NewJob(FALSE)}
<1>1. t.node = [rest EXCEPT ![curr] = Freed]
  BY DEF Unlink, Unlinked
<1>2. s.node \in [Addr -> NodeOf(J)]
  BY DEF Typed, ListOf
<1>3. next \in Pointer
  BY <1>2 DEF NodeOf
<1>4. /\ t = [node |-> t.node, head |-> t.head, cur |-> t.cur, prv |-> t.prv, cnt |-> t.cnt]
      /\ t.head \in Pointer /\ t.cur \in Pointer /\ t.prv \in Pointer /\ t.cnt \in Int
  <2>1. NULL \in Pointer
    BY DEF Pointer
  <2> QED
    BY <1>3, <2>1 DEF Typed, ListOf, Unlinked, Unlink
<1> HIDE DEF next
<1>5. /\ rest \in [Addr -> NodeOf(J)]
      /\ \A q \in Addr : /\ rest[q].live = s.node[q].live
                         /\ rest[q].job_id = s.node[q].job_id
                         /\ rest[q].job = s.node[q].job
                         /\ rest[q].next = IF q = prev THEN next ELSE s.node[q].next
  <2>1. CASE prev = NULL
    BY <2>1, <1>2, ListAssumption
  <2>2. CASE prev # NULL
    <3>1. prev \in Addr
      BY <2>2 DEF Pointer
    <3> DEFINE r == [s.node[prev] EXCEPT !.next = next]
    <3>2. s.node[prev] \in NodeOf(J)
      BY <1>2, <3>1
    <3>3. /\ r \in NodeOf(J) /\ r.live = s.node[prev].live
          /\ r.job_id = s.node[prev].job_id /\ r.job = s.node[prev].job /\ r.next = next
      BY <1>3, <3>2 DEF NodeOf
    <3>4. rest = [s.node EXCEPT ![prev] = r]
      BY <2>2
    <3> HIDE DEF r, rest
    <3>5. rest \in [Addr -> NodeOf(J)]
      BY <1>2, <3>3, <3>4
    <3>6. rest[prev] = r /\ \A q \in Addr : q # prev => rest[q] = s.node[q]
      BY <1>2, <3>1, <3>4
    <3> QED
      BY <3>3, <3>5, <3>6
  <2> QED
    BY <2>1, <2>2
<1>6. Freed \in NodeOf(K) /\ ~Freed.live
  BY DEF Freed, NodeOf, Pointer
<1>7. NodeOf(J) \subseteq NodeOf(K)
  BY DEF NodeOf
<1> HIDE DEF rest, K
<1>8. t.node \in [Addr -> NodeOf(K)]
  BY <1>1, <1>5, <1>6, <1>7
<1>9. t.node[curr] = Freed /\ \A q \in Addr : q # curr => t.node[q] = rest[q]
  BY <1>1, <1>2, <1>5
<1>10. Typed(t, K)
  BY <1>4, <1>8 DEF Typed, ListOf
<1> QED
  BY <1>5, <1>6, <1>8, <1>9, <1>10 DEF K, next, Relinked

\* The list of t is that of s without the i-th node; the other nodes keep what they hold.
Shortened(s, J, n, c, i, t) ==
    /\ Typed(t, J \cup {JS!NewJob(FALSE)})
    /\ IsList(t, n - 1, Cut(c, n, i))
    /\ \A k \in 1..(n - 1) :
          /\ Number(t, Cut(c, n, i), k) = Number(s, c, Place(i, k))
          /\ t.node[Cut(c, n, i)[k]].job = s.node[c[Place(i, k)]].job
    /\ \A q \in {c[k] : k \in (1..n) \ {i}} \cup {NULL} : ToId(t, q) = ToId(s, q)

LEMMA UnlinkIs ==
    ASSUME NEW s, NEW J, Typed(s, J), NEW n, NEW c, IsList(s, n, c), NEW i \in 1..n,
           NEW t, UnlinkedAt(s, n, c, i, t)
    PROVE  Shortened(s, J, n, c, i, t)
<1> DEFINE prev == At(c, n, i - 1)
           next == s.node[c[i]].next
           e == Cut(c, n, i)
           K == J \cup {JS!NewJob(FALSE)}
<1>1. /\ t = [node |-> t.node, head |-> t.head, cur |-> t.cur, prv |-> t.prv, cnt |-> t.cnt]
      /\ t.head = IF prev = NULL THEN next ELSE s.head
      /\ t.cur = IF s.cur = c[i] THEN (IF s.prv = c[i] THEN NULL ELSE s.prv) ELSE s.cur
      /\ t.prv = IF s.prv = c[i] THEN NULL ELSE s.prv
      /\ t.cnt = s.cnt - 1
  BY DEF Unlink, Unlinked, UnlinkedAt
<1>2. /\ n \in Nat /\ c \in [1..n -> Addr] /\ c[i] \in Addr /\ s.cnt = n
      /\ next = At(c, n, i + 1)
  BY DEF IsList
<1>0. prev \in Pointer
  BY DEF At, Pointer, IsList
<1>3. /\ Typed(t, K) /\ t.node \in [Addr -> NodeOf(K)] /\ ~t.node[c[i]].live
      /\ \A q \in Addr : q # c[i] =>
            /\ t.node[q].live = s.node[q].live /\ t.node[q].job_id = s.node[q].job_id
            /\ t.node[q].job = s.node[q].job
            /\ t.node[q].next = IF q = prev THEN next ELSE s.node[q].next
  <2>1. Typed(t, K) /\ Relinked(s, J, At(c, n, i - 1), c[i], t)
    BY <1>0, <1>2, UnlinkedNodes DEF UnlinkedAt
  <2> QED
    BY <2>1 DEF Relinked
<1>4. /\ n - 1 \in Nat /\ e \in [1..(n - 1) -> Addr]
      /\ \A k \in 1..(n - 1) : /\ Place(i, k) \in 1..n /\ Place(i, k) # i
                               /\ e[k] = c[Place(i, k)] /\ e[k] # c[i]
      /\ \A k \in 1..n : k # i => \E x \in 1..(n - 1) : Place(i, x) = k
      /\ \A k, x \in 1..(n - 1) : k < x => Place(i, k) < Place(i, x)
  BY CutIs
<1>5. ASSUME NEW k \in 1..(n - 1)
      PROVE  /\ t.node[e[k]].live = s.node[e[k]].live
             /\ Number(t, e, k) = Number(s, c, Place(i, k))
             /\ t.node[e[k]].job = s.node[c[Place(i, k)]].job
  <2>1. e[k] \in Addr /\ e[k] # c[i] /\ e[k] = c[Place(i, k)]
    BY <1>4
  <2> HIDE DEF e
  <2> QED
    BY <2>1, <1>3 DEF Number
<1>6. \A k \in 1..n : c[k] # NULL /\ c[k] \in Addr
  BY NumbersAre
<1>7. \A q \in {c[k] : k \in (1..n) \ {i}} \cup {NULL} : ToId(t, q) = ToId(s, q)
  <2>1. ASSUME NEW k \in 1..n, k # i PROVE ToId(t, c[k]) = ToId(s, c[k])
    <3>1. c[k] # c[i]
      BY <2>1, NumbersAre
    <3> QED
      BY <3>1, <1>3, <1>6 DEF ToId
  <2>2. ToId(t, NULL) = ToId(s, NULL)
    BY DEF ToId
  <2> QED
    BY <2>1, <2>2
<1>10. IsList(t, n - 1, e)
  <2>1. t.cnt = n - 1
    BY <1>1, <1>2
  <2>2. t.head = At(e, n - 1, 1)
    <3>1. CASE i = 1
      <4>1. prev = NULL
        BY <3>1 DEF At
      <4>2. t.head = At(c, n, 2)
        BY <4>1, <3>1, <1>1, <1>2
      <4> QED
        BY <4>2, <3>1, <1>2, <1>4 DEF At, Place
    <3>2. CASE i # 1
      <4>1. prev # NULL
        BY <3>2, <1>2, <1>6 DEF At
      <4>2. t.head = At(c, n, 1)
        BY <4>1, <1>1 DEF IsList
      <4>3. 1 \in 1..(n - 1) /\ Place(i, 1) = 1 /\ 1 \in 1..n
        BY <3>2, <1>2 DEF Place
      <4> QED
        BY <4>2, <4>3, <1>4 DEF At
    <3> QED
      BY <3>1, <3>2
  <2>3. ASSUME NEW k \in 1..(n - 1) PROVE t.node[e[k]].next = At(e, n - 1, k + 1)
    <3> DEFINE x == Place(i, k)
    <3>1. x \in 1..n /\ x # i /\ e[k] = c[x] /\ e[k] # c[i] /\ c[x] \in Addr
      BY <1>4, <1>6
    <3>2. s.node[c[x]].next = At(c, n, x + 1)
      BY <3>1 DEF IsList
    <3>3. CASE k = i - 1
      <4>1. x = i - 1 /\ prev = c[x]
        BY <3>3, <3>1, <1>2 DEF Place, At
      <4>2. t.node[e[k]].next = At(c, n, i + 1)
        BY <4>1, <3>1, <1>2, <1>3
      <4>3. At(e, n - 1, k + 1) = At(c, n, i + 1)
        <5>1. CASE i = n
          <6>1. k + 1 \notin 1..(n - 1) /\ i + 1 \notin 1..n
            BY <5>1, <3>3, <1>2
          <6> QED
            BY <6>1 DEF At
        <5>2. CASE i # n
          <6>1. k + 1 \in 1..(n - 1) /\ i + 1 \in 1..n /\ Place(i, k + 1) = i + 1
            BY <5>2, <3>3, <1>2 DEF Place
          <6> QED
            BY <6>1, <1>4 DEF At
        <5> QED
          BY <5>1, <5>2
      <4> QED
        BY <4>2, <4>3
    <3>4. CASE k # i - 1
      <4>1. c[x] # prev
        <5>1. CASE i = 1
          BY <5>1, <3>1, <1>6 DEF At
        <5>2. CASE i # 1
          <6>1. i - 1 \in 1..n /\ x # i - 1
            BY <5>2, <3>4, <1>2 DEF Place
          <6>2. c[x] # c[i - 1]
            BY <6>1, <3>1, NumbersAre
          <6> QED
            BY <6>1, <6>2 DEF At
        <5> QED
          BY <5>1, <5>2
      <4>2. t.node[e[k]].next = At(c, n, x + 1)
        BY <4>1, <3>1, <3>2, <1>3
      <4>3. At(e, n - 1, k + 1) = At(c, n, x + 1)
        <5>1. CASE k = n - 1
          <6>1. k + 1 \notin 1..(n - 1) /\ x + 1 \notin 1..n
            BY <5>1, <3>4, <1>2 DEF Place
          <6> QED
            BY <6>1 DEF At
        <5>2. CASE k # n - 1
          <6>1. k + 1 \in 1..(n - 1) /\ x + 1 \in 1..n /\ Place(i, k + 1) = x + 1
            BY <5>2, <3>4, <1>2 DEF Place
          <6> QED
            BY <6>1, <1>4 DEF At
        <5> QED
          BY <5>1, <5>2
      <4> QED
        BY <4>2, <4>3
    <3> QED
      BY <3>3, <3>4
  <2>4. \A k \in 1..(n - 1) : t.node[e[k]].live /\ t.node[e[k]].job_id > 0
    <3>1. \A k \in 1..n : s.node[c[k]].live /\ Number(s, c, k) > 0
      BY DEF IsList, Number
    <3>2. \A k \in 1..(n - 1) : Number(t, e, k) > 0 /\ t.node[e[k]].live
      BY <3>1, <1>4, <1>5
    <3> QED
      BY <3>2 DEF Number
  <2>5. \A k, x \in 1..(n - 1) : k < x => t.node[e[k]].job_id > t.node[e[x]].job_id
    <3>1. \A k, x \in 1..n : k < x => Number(s, c, k) > Number(s, c, x)
      BY NumbersAre
    <3>2. \A k, x \in 1..(n - 1) : k < x => Number(t, e, k) > Number(t, e, x)
      BY <3>1, <1>4, <1>5
    <3> QED
      BY <3>2 DEF Number
  <2>6. ASSUME NEW p \in Addr, t.node[p].live PROVE \E k \in 1..(n - 1) : e[k] = p
    <3>1. p # c[i] /\ s.node[p].live
      BY <2>6, <1>3
    <3>2. PICK k \in 1..n : c[k] = p
      BY <3>1 DEF IsList
    <3> QED
      BY <3>1, <3>2, <1>4
  <2>7. {t.cur, t.prv} \subseteq {e[k] : k \in 1..(n - 1)} \cup {NULL}
    <3>1. \A q \in {c[k] : k \in 1..n} : q # c[i] => q \in {e[k] : k \in 1..(n - 1)}
      BY <1>4
    <3>2. {s.cur, s.prv} \subseteq {c[k] : k \in 1..n} \cup {NULL}
      BY DEF IsList
    <3> HIDE DEF e
    <3> QED
      BY <3>1, <3>2, <1>1, <1>6
  <2> HIDE DEF e
  <2> QED
    BY <2>1, <2>2, <2>3, <2>4, <2>5, <2>6, <2>7, <1>4 DEF IsList
<1> QED
  BY <1>3, <1>5, <1>7, <1>10 DEF Shortened

\* The table counts its jobs as the list does.
LEMMA SameSize == ASSUME NEW S PROVE JS!Cardinality(S) = Cardinality(S)
BY DEF JS!Cardinality, Cardinality

\* What an unlink means to the table: the job is gone, and the pointers fall back.
LEMMA UnlinkStore ==
    ASSUME NEW s, NEW J, Typed(s, J), NEW n, NEW c, IsList(s, n, c), NEW i \in 1..n, NEW m,
           NEW t, UnlinkedAt(s, n, c, i, t)
    PROVE  StoreOf(t, m) = JS!Without(StoreOf(s, m), {Number(s, c, i)})
<1> DEFINE e == Cut(c, n, i)
           K == J \cup {JS!NewJob(FALSE)}
           A == StoreOf(s, m)
           N == Number(s, c, i)
           f == [x \in DOMAIN A.jobs \ {N} |-> A.jobs[x]]
<1>1. /\ Typed(t, K) /\ IsList(t, n - 1, e)
      /\ \A k \in 1..(n - 1) :
            /\ Number(t, e, k) = Number(s, c, Place(i, k))
            /\ t.node[e[k]].job = s.node[c[Place(i, k)]].job
      /\ \A q \in {c[k] : k \in (1..n) \ {i}} \cup {NULL} : ToId(t, q) = ToId(s, q)
  <2>1. Shortened(s, J, n, c, i, t)
    BY UnlinkIs
  <2> QED
    BY <2>1 DEF Shortened
<1>2. /\ \A k \in 1..(n - 1) : Place(i, k) \in 1..n /\ Place(i, k) # i
      /\ \A k \in 1..n : k # i => \E x \in 1..(n - 1) : Place(i, x) = k
  BY CutIs
<1>3. /\ DOMAIN A.jobs = Numbers(s, n, c)
      /\ \A k \in 1..n : A.jobs[Number(s, c, k)] = s.node[c[k]].job
      /\ A.current_job = ToId(s, s.cur) /\ A.previous_job = ToId(s, s.prv)
      /\ A.job_count = n /\ A.next_job_id = m
  BY StoreIs
<1>4. /\ \A k \in 1..n : k # i => Number(s, c, k) # N /\ c[k] # c[i]
      /\ N # 0 /\ c[i] # NULL
  BY NumbersAre
<1> HIDE DEF A, e, N, K
<1>5. Numbers(t, n - 1, e) = DOMAIN A.jobs \ {N}
  <2>1. ASSUME NEW x \in Numbers(t, n - 1, e) PROVE x \in DOMAIN A.jobs \ {N}
    BY <1>1, <1>2, <1>3, <1>4 DEF Numbers
  <2>2. ASSUME NEW x \in DOMAIN A.jobs \ {N} PROVE x \in Numbers(t, n - 1, e)
    <3>1. PICK k \in 1..n : x = Number(s, c, k) /\ k # i
      BY <1>3 DEF Numbers, N
    <3> QED
      BY <3>1, <1>1, <1>2 DEF Numbers
  <2> QED
    BY <2>1, <2>2
<1>6. IsTable(f, Numbers(t, n - 1, e))
  BY <1>5 DEF IsTable
<1>7. ASSUME NEW k \in 1..(n - 1) PROVE f[Number(t, e, k)] = t.node[e[k]].job
  <2>1. Number(t, e, k) \in DOMAIN A.jobs \ {N}
    BY <1>5 DEF Numbers
  <2> QED
    BY <2>1, <1>1, <1>2, <1>3
<1>8. /\ t.cur = IF s.cur = c[i] THEN (IF s.prv = c[i] THEN NULL ELSE s.prv) ELSE s.cur
      /\ t.prv = IF s.prv = c[i] THEN NULL ELSE s.prv
  BY DEF UnlinkedAt, Unlinked, Unlink
<1>9. ToId(s, c[i]) = N /\ ToId(s, NULL) = 0
  BY ToIdIs DEF N
<1>10. \A q \in {c[k] : k \in 1..n} \cup {NULL} : q # c[i] =>
          ToId(t, q) = ToId(s, q) /\ ToId(s, q) # N
  <2>1. \A k \in 1..n : k # i => ToId(s, c[k]) = Number(s, c, k)
    BY ToIdIs
  <2>2. \A k \in 1..n : c[k] # c[i] => k # i
    OBVIOUS
  <2> QED
    BY <2>1, <2>2, <1>1, <1>4, <1>9
<1>11. {s.cur, s.prv} \subseteq {c[k] : k \in 1..n} \cup {NULL}
  BY DEF IsList
<1>12. /\ ToId(t, t.prv) = IF A.previous_job = N THEN 0 ELSE A.previous_job
       /\ ToId(t, t.cur) = IF A.current_job = N
                           THEN (IF A.previous_job = N THEN 0 ELSE A.previous_job)
                           ELSE A.current_job
  <2>1. NULL \in {c[k] : k \in 1..n} \cup {NULL} /\ ToId(t, NULL) = 0
    BY <1>4, <1>9, <1>10
  <2>2. ToId(t, t.prv) = IF A.previous_job = N THEN 0 ELSE A.previous_job
    BY <2>1, <1>3, <1>4, <1>8, <1>9, <1>10, <1>11
  <2>3. CASE s.cur = c[i]
    BY <2>2, <2>3, <1>3, <1>8, <1>9
  <2>4. CASE s.cur # c[i]
    BY <2>2, <2>4, <1>3, <1>8, <1>10, <1>11
  <2> QED
    BY <2>2, <2>3, <2>4
<1>13. StoreOf(t, m) = [jobs |-> f, current_job |-> ToId(t, t.cur),
                        previous_job |-> ToId(t, t.prv), job_count |-> n - 1,
                        next_job_id |-> m]
  <2>1. \A k \in 1..(n - 1) : f[Number(t, e, k)] = t.node[e[k]].job
    BY <1>7
  <2>2. Typed(t, K) /\ IsList(t, n - 1, e)
    BY <1>1
  <2> HIDE DEF f
  <2> QED
    BY <2>1, <2>2, <1>6, IsStoreOf
<1>14. Cardinality({N}) = 1
  BY FS_Singleton
<1>15. JS!Without(A, {N}) =
          [jobs |-> f,
           current_job |-> IF A.current_job = N
                           THEN (IF A.previous_job = N THEN 0 ELSE A.previous_job)
                           ELSE A.current_job,
           previous_job |-> IF A.previous_job = N THEN 0 ELSE A.previous_job,
           job_count |-> A.job_count - 1, next_job_id |-> A.next_job_id]
  <2>1. \A x : x \in {N} <=> x = N
    OBVIOUS
  <2>2. JS!Cardinality({N}) = 1
    BY <1>14, SameSize
  <2> QED
    BY <2>1, <2>2 DEF JS!Without, JS!NoJob
<1> HIDE DEF f
<1> QED
  BY <1>3, <1>12, <1>13, <1>15 DEF A, N

LEMMA UnlinkBelow ==
    ASSUME NEW s, NEW J, Typed(s, J), NEW n, NEW c, IsList(s, n, c), NEW i \in 1..n, NEW m,
           Below(s, n, c, m), NEW t, UnlinkedAt(s, n, c, i, t)
    PROVE  Below(t, n - 1, Cut(c, n, i), m)
<1>1. \A k \in 1..(n - 1) : Number(t, Cut(c, n, i), k) = Number(s, c, Place(i, k))
  <2>1. Shortened(s, J, n, c, i, t)
    BY UnlinkIs
  <2> QED
    BY <2>1 DEF Shortened
<1>2. \A k \in 1..(n - 1) : Place(i, k) \in 1..n
  BY CutIs
<1> QED
  BY <1>1, <1>2 DEF Below, Number

LEMMA LoopEndIs ==
    ASSUME NEW s, NEW J, Typed(s, J), NEW n, NEW c, IsList(s, n, c),
           Below(s, n, c, next_job_id), LoopEnd(s)
    PROVE  IInv' /\ AbstractStore' = StoreOf(s, next_job_id)
<1>1. List' = s /\ next_job_id' = next_job_id
  BY DEF LoopEnd, List, Typed, ListOf
<1> QED
  BY <1>1 DEF IInv, AbstractStore

LEMMA RemoveIs ==
    ASSUME NEW J, Typed(List, J), NEW n, NEW c, IsList(List, n, c),
           Below(List, n, c, next_job_id), NEW id \in 1..MaxJobs, Remove(id)
    PROVE  IInv' /\ [JS!StoreNext]_AbstractStore
<1> DEFINE S == Numbered(id)
<1>1. CASE Hits(S) = {}
  <2>1. UNCHANGED vars
    BY <1>1 DEF Remove
  <2>2. UNCHANGED <<List, next_job_id>>
    BY <2>1 DEF vars, List
  <2> QED
    BY <2>2 DEF AbstractStore, IInv
<1>2. CASE Hits(S) # {}
  <2>1. S \subseteq Addr
    BY DEF Numbered
  <2>2. PICK i \in 1..n : FirstStep(Hits(S)) = i - 1 /\ c[i] \in S
    BY <1>2, <2>1, FirstInIs
  <2>3. Number(List, c, i) = id
    BY <2>2, ListIs DEF Numbered, Number
  <2> DEFINE k == i - 1
             prev == IF k = 0 THEN NULL ELSE Walk(List)[k - 1]
             t == Unlink(List, prev, Walk(List)[k])
  <2>4. n \in Nat /\ MaxSteps \in Nat /\ n <= MaxSteps
    <3>1. n <= MaxSteps
      BY NoLongerThanAddr
    <3> QED
      BY <3>1, SizeIs DEF IsList
  <2>5. k \in 0..MaxSteps /\ (k # 0 => k - 1 \in 0..MaxSteps /\ (k - 1) + 1 = i - 1)
        /\ k + 1 = i
    BY <2>4
  <2>6. Walk(List)[k] = c[i] /\ prev = At(c, n, i - 1)
    BY <2>4, <2>5, WalkIs DEF At
  <2>7. UnlinkedAt(List, n, c, i, t)
    BY <2>6 DEF UnlinkedAt, Unlinked
  <2>8. LoopEnd(t)
    BY <1>2, <2>2 DEF Remove
  <2> HIDE DEF t
  <2>9. /\ Typed(t, J \cup {JS!NewJob(FALSE)}) /\ IsList(t, n - 1, Cut(c, n, i))
        /\ Below(t, n - 1, Cut(c, n, i), next_job_id)
        /\ StoreOf(t, next_job_id) = JS!Without(AbstractStore, {id})
    <3>1. Shortened(List, J, n, c, i, t)
      BY <2>7, UnlinkIs
    <3>2. Below(t, n - 1, Cut(c, n, i), next_job_id)
      BY <2>7, UnlinkBelow
    <3>3. StoreOf(t, next_job_id) = JS!Without(StoreOf(List, next_job_id), {Number(List, c, i)})
      BY <2>7, UnlinkStore
    <3> QED
      BY <2>3, <3>1, <3>2, <3>3 DEF AbstractStore, Shortened
  <2>10. IInv' /\ AbstractStore' = JS!Without(AbstractStore, {id})
    BY <2>8, <2>9, LoopEndIs
  <2>11. JS!HasJob(AbstractStore, id)
    BY <2>3, AbstractJob
  <2>12. JS!DoRemove(id)
    BY <2>10, <2>11 DEF JS!DoRemove, JS!StoreRemove
  <2> QED
    BY <2>10, <2>12 DEF JS!StoreNext, JS!JobIds
<1> QED
  BY <1>1, <1>2

-----------------------------------------------------------------------------
(* The sweep of the jobs that have ended and been reported.                *)

\* To remove a set of jobs and then one more is to remove them together.
LEMMA OneMore ==
    ASSUME NEW A, A.job_count \in Int, NEW G, IsFiniteSet(G), NEW j, j \notin G, j # 0
    PROVE  JS!Without(JS!Without(A, G), {j}) = JS!Without(A, G \cup {j})
<1> DEFINE B == JS!Without(A, G)
           C == JS!Without(B, {j})
           D == JS!Without(A, G \cup {j})
           P(x) == IF x \in G \cup {j} THEN 0 ELSE x
<1>1. JS!Cardinality({j}) = 1 /\ JS!Cardinality(G \cup {j}) = JS!Cardinality(G) + 1
      /\ JS!Cardinality(G) \in Nat
  BY SameSize, FS_Singleton, FS_AddElement, FS_CardinalityType
<1>2. /\ B.jobs = [x \in DOMAIN A.jobs \ G |-> A.jobs[x]]
      /\ B.previous_job = IF A.previous_job \in G THEN 0 ELSE A.previous_job
      /\ B.current_job = IF A.current_job \in G THEN B.previous_job ELSE A.current_job
      /\ B.job_count = A.job_count - JS!Cardinality(G)
      /\ B.next_job_id = A.next_job_id
  BY DEF JS!Without, JS!NoJob
<1>3. /\ C.jobs = [x \in DOMAIN B.jobs \ {j} |-> B.jobs[x]]
      /\ C.previous_job = IF B.previous_job \in {j} THEN 0 ELSE B.previous_job
      /\ C.current_job = IF B.current_job \in {j} THEN C.previous_job ELSE B.current_job
      /\ C.job_count = B.job_count - JS!Cardinality({j})
      /\ C.next_job_id = B.next_job_id
  BY DEF JS!Without, JS!NoJob
<1>4. /\ D.jobs = [x \in DOMAIN A.jobs \ (G \cup {j}) |-> A.jobs[x]]
      /\ D.previous_job = IF A.previous_job \in G \cup {j} THEN 0 ELSE A.previous_job
      /\ D.current_job = IF A.current_job \in G \cup {j} THEN D.previous_job
                         ELSE A.current_job
      /\ D.job_count = A.job_count - JS!Cardinality(G \cup {j})
      /\ D.next_job_id = A.next_job_id
  BY DEF JS!Without, JS!NoJob
<1>5. /\ C = [jobs |-> C.jobs, current_job |-> C.current_job,
              previous_job |-> C.previous_job, job_count |-> C.job_count,
              next_job_id |-> C.next_job_id]
      /\ D = [jobs |-> D.jobs, current_job |-> D.current_job,
              previous_job |-> D.previous_job, job_count |-> D.job_count,
              next_job_id |-> D.next_job_id]
  BY DEF JS!Without
<1> HIDE DEF B, C, D
<1>6. C.jobs = D.jobs
  <2>1. DOMAIN B.jobs \ {j} = DOMAIN A.jobs \ (G \cup {j})
    BY <1>2
  <2>2. \A x \in DOMAIN B.jobs : B.jobs[x] = A.jobs[x]
    BY <1>2
  <2> QED
    BY <2>1, <2>2, <1>3, <1>4
<1>7. C.previous_job = D.previous_job
  BY <1>2, <1>3, <1>4
<1>8. C.current_job = D.current_job
  BY <1>2, <1>3, <1>4, <1>7
<1>9. C.job_count = D.job_count /\ C.next_job_id = D.next_job_id
  BY <1>1, <1>2, <1>3, <1>4
<1>10. C = D
  BY <1>5, <1>6, <1>7, <1>8, <1>9
<1> QED
  BY <1>10 DEF B, C, D

SweepStart == [s |-> List, prev |-> NULL, curr |-> jobs]

LEMMA SweepGoes ==
    ASSUME NEW J, Typed(List, J)
    PROVE  /\ Sweep[0] = SweepStart
           /\ \A k \in 1..MaxSteps : Sweep[k] = SweepStep(Sweep[k - 1])
<1> DEFINE m == MaxSteps
           K == J \cup {JS!NewJob(FALSE)}
           S == [s : ListOf(K), prev : Pointer, curr : Pointer]
           Rec(u) == u = [k \in 0..m |-> IF k = 0 THEN SweepStart ELSE SweepStep(u[k - 1])]
<1>1. m \in Nat
  BY SizeIs
<1>2. Sweep = (CHOOSE u : Rec(u))
  BY DEF Sweep, SweepStart
<1>3. SweepStart \in S
  <2>1. ListOf(J) \subseteq ListOf(K)
    BY DEF ListOf, NodeOf
  <2>2. List \in ListOf(K) /\ jobs \in Pointer /\ NULL \in Pointer
    BY <2>1, ListIs DEF Typed, ListOf, Pointer
  <2> HIDE DEF K
  <2> QED
    BY <2>2 DEF SweepStart
<1>4. ASSUME NEW l \in S PROVE SweepStep(l) \in S
  <2>1. l.s \in ListOf(K) /\ l.prev \in Pointer /\ l.curr \in Pointer
    OBVIOUS
  <2>2. CASE l.curr = NULL
    BY <2>2 DEF SweepStep
  <2>3. CASE l.curr # NULL
    <3> DEFINE t == Unlink(l.s, l.prev, l.curr)
               next == l.s.node[l.curr].next
    <3>1. l.curr \in Addr
      BY <2>1, <2>3 DEF Pointer
    <3>2. next \in Pointer
      BY <2>1, <3>1 DEF ListOf, NodeOf
    <3>3. t \in ListOf(K)
      <4>1. Unlinked(l.s, l.prev, l.curr, t)
        BY DEF Unlinked
      <4>2. K \cup {JS!NewJob(FALSE)} = K
        OBVIOUS
      <4> HIDE DEF K, t
      <4>3. Typed(t, K \cup {JS!NewJob(FALSE)})
        BY <2>1, <3>1, <4>1, UnlinkedNodes DEF Typed
      <4> QED
        BY <4>2, <4>3 DEF Typed
    <3>4. \/ SweepStep(l) = [s |-> t, prev |-> l.prev, curr |-> next]
          \/ SweepStep(l) = [s |-> l.s, prev |-> l.curr, curr |-> next]
      BY <2>3 DEF SweepStep
    <3> HIDE DEF K, t, next
    <3> QED
      BY <2>1, <3>2, <3>3, <3>4
  <2> QED
    BY <2>2, <2>3
<1>5. \E u : Rec(u)
  <2> DEFINE G == [k \in 1..m |-> [l \in S |-> SweepStep(l)]]
  <2>1. G \in [1..m -> [S -> S]] /\ \A k \in 1..m, l \in S : G[k][l] = SweepStep(l)
    <3> HIDE DEF S
    <3> QED
      BY <1>4
  <2> HIDE DEF G, m, S
  <2>2. PICK f : Goes(f, m, S, SweepStart, G)
    BY <1>1, <1>3, <2>1, Recursion
  <2>3. f \in [0..m -> S] /\ f[0] = SweepStart /\ \A k \in 1..m : f[k] = G[k][f[k - 1]]
    BY <2>2 DEF Goes
  <2>4. ASSUME NEW k \in 0..m
        PROVE  f[k] = IF k = 0 THEN SweepStart ELSE SweepStep(f[k - 1])
    <3>1. CASE k = 0
      BY <2>3, <3>1
    <3>2. CASE k # 0
      <4>1. k \in 1..m /\ k - 1 \in 0..m
        BY <3>2, <1>1
      <4>2. f[k - 1] \in S
        BY <2>3, <4>1
      <4> QED
        BY <2>1, <2>3, <3>2, <4>1, <4>2
    <3> QED
      BY <3>1, <3>2
  <2>5. f = [k \in 0..m |-> f[k]]
    BY <2>3
  <2>6. Rec(f)
    BY <2>4, <2>5
  <2> HIDE DEF Rec
  <2> QED
    BY <2>6
<1>6. Rec(Sweep)
  <2> HIDE DEF Rec
  <2> QED
    BY <1>2, <1>5
<1>7. \A k \in 0..m : Sweep[k] = IF k = 0 THEN SweepStart ELSE SweepStep(Sweep[k - 1])
  <2> DEFINE W == Sweep
  <2>1. W = [k \in 0..m |-> IF k = 0 THEN SweepStart ELSE SweepStep(W[k - 1])]
    BY <1>6
  <2> HIDE DEF W, m
  <2>2. \A k \in 0..m : W[k] = IF k = 0 THEN SweepStart ELSE SweepStep(W[k - 1])
    BY <2>1
  <2> QED
    BY <2>2 DEF W
<1>8. 0 \in 0..m /\ \A k \in 1..m : k \in 0..m /\ k # 0
  BY <1>1
<1> HIDE DEF m
<1>9. Sweep[0] = SweepStart /\ \A k \in 1..m : Sweep[k] = SweepStep(Sweep[k - 1])
  BY <1>7, <1>8
<1> QED
  BY <1>9 DEF m

IsDisposable(job) == JS!IsCompleted(job) /\ job.is_notified

\* Where the sweep of the table A is after k steps: x nodes were kept and are behind it,
\* the jobs G are gone, and the nodes ahead are not more than the steps that are left.
Swept(k, A, m, l, J, n, e, x, G) ==
    /\ Typed(l.s, J) /\ IsList(l.s, n, e) /\ Below(l.s, n, e, m)
    /\ x \in 0..n /\ l.prev = At(e, n, x) /\ l.curr = At(e, n, x + 1)
    /\ n - x <= MaxSteps - k
    /\ \A y \in 1..x : ~IsDisposable(l.s.node[e[y]].job)
    /\ IsFiniteSet(G) /\ G \subseteq JS!Disposable(A)
    /\ StoreOf(l.s, m) = JS!Without(A, G)

\* What is left of the table A without the jobs G.
LEMMA Left ==
    ASSUME NEW A, NEW G
    PROVE  /\ DOMAIN JS!Without(A, G).jobs = DOMAIN A.jobs \ G
           /\ \A j \in DOMAIN A.jobs \ G : JS!Without(A, G).jobs[j] = A.jobs[j]
BY DEF JS!Without

\* The job of a node ahead of the sweep or behind it, as the table A has it.
LEMMA JobLeft ==
    ASSUME NEW A, NEW G, NEW m, NEW s, NEW J, Typed(s, J), NEW n, NEW e, IsList(s, n, e),
           StoreOf(s, m) = JS!Without(A, G), NEW i \in 1..n
    PROVE  /\ Number(s, e, i) \in DOMAIN A.jobs \ G
           /\ s.node[e[i]].job = A.jobs[Number(s, e, i)]
<1>1. /\ DOMAIN StoreOf(s, m).jobs = Numbers(s, n, e)
      /\ StoreOf(s, m).jobs[Number(s, e, i)] = s.node[e[i]].job
  BY StoreIs
<1>2. Number(s, e, i) \in DOMAIN JS!Without(A, G).jobs
  BY <1>1 DEF Numbers
<1> QED
  BY <1>1, <1>2, Left

LEMMA SweepStepKeeps ==
    ASSUME NEW A, A.job_count \in Int, NEW m, NEW k \in 1..MaxSteps,
           NEW l, NEW J, NEW n, NEW e, NEW x, NEW G, Swept(k - 1, A, m, l, J, n, e, x, G)
    PROVE  \E K, q, d, y, H : Swept(k, A, m, SweepStep(l), K, q, d, y, H)
<1>1. /\ Typed(l.s, J) /\ IsList(l.s, n, e) /\ Below(l.s, n, e, m)
      /\ x \in 0..n /\ l.prev = At(e, n, x) /\ l.curr = At(e, n, x + 1)
      /\ n - x <= MaxSteps - (k - 1)
      /\ \A y \in 1..x : ~IsDisposable(l.s.node[e[y]].job)
      /\ IsFiniteSet(G) /\ G \subseteq JS!Disposable(A)
      /\ StoreOf(l.s, m) = JS!Without(A, G)
  BY DEF Swept
<1>2. n \in Nat /\ MaxSteps \in Nat
  BY <1>1, SizeIs DEF IsList
<1>3. \A i \in 1..n : e[i] # NULL
  BY <1>1, NumbersAre
<1> DEFINE i == x + 1
           s == l.s
           next == s.node[l.curr].next
           job == s.node[l.curr].job
<1>4. CASE l.curr = NULL
  <2>1. x = n
    BY <1>1, <1>2, <1>3, <1>4 DEF At
  <2>2. n - x <= MaxSteps - k
    BY <2>1, <1>2
  <2>3. SweepStep(l) = l
    BY <1>4 DEF SweepStep
  <2>4. Swept(k, A, m, SweepStep(l), J, n, e, x, G)
    BY <2>2, <2>3, <1>1 DEF Swept
  <2> QED
    BY <2>4
<1>5. CASE l.curr # NULL
  <2>1. i \in 1..n /\ i - 1 = x /\ l.curr = e[i]
    BY <1>1, <1>2, <1>5 DEF At
  <2>2. next = At(e, n, i + 1)
    BY <2>1, <1>1 DEF IsList
  <2>3. n - i <= MaxSteps - k /\ (n - 1) - x <= MaxSteps - k
    BY <1>1, <1>2
  <2>4. CASE IsDisposable(job)
    <3> DEFINE t == Unlink(s, l.prev, l.curr)
               d == Cut(e, n, i)
               N == Number(s, e, i)
               H == G \cup {N}
               K == J \cup {JS!NewJob(FALSE)}
    <3>1. SweepStep(l) = [s |-> t, prev |-> l.prev, curr |-> next]
      BY <1>5, <2>4 DEF SweepStep, IsDisposable
    <3>2. UnlinkedAt(s, n, e, i, t)
      BY <1>1, <2>1 DEF UnlinkedAt, Unlinked
    <3> HIDE DEF t
    <3>3. Shortened(s, J, n, e, i, t)
      BY <1>1, <2>1, <3>2, UnlinkIs
    <3>4. Typed(t, K) /\ IsList(t, n - 1, d)
      BY <3>3 DEF Shortened
    <3>5. Below(t, n - 1, d, m)
      BY <1>1, <2>1, <3>2, UnlinkBelow
    <3>6. x \in 0..(n - 1)
      BY <1>2, <2>1
    <3>7. \A y \in 1..(n - 1) : d[y] = e[Place(i, y)]
      BY <1>1, <2>1, CutIs
    <3>8. l.prev = At(d, n - 1, x)
      <4>1. CASE x = 0
        BY <4>1, <1>1 DEF At
      <4>2. CASE x # 0
        <5>1. x \in 1..(n - 1) /\ x \in 1..n /\ Place(i, x) = x
          BY <4>2, <1>2, <2>1, <3>6 DEF Place
        <5> QED
          BY <5>1, <1>1, <3>7 DEF At
      <4> QED
        BY <4>1, <4>2
    <3>9. next = At(d, n - 1, x + 1)
      <4>1. CASE i = n
        <5>1. i + 1 \notin 1..n /\ x + 1 \notin 1..(n - 1)
          BY <4>1, <1>2, <2>1
        <5> QED
          BY <5>1, <2>2 DEF At
      <4>2. CASE i # n
        <5>1. i + 1 \in 1..n /\ x + 1 \in 1..(n - 1) /\ Place(i, x + 1) = i + 1
          BY <4>2, <1>2, <2>1 DEF Place
        <5> QED
          BY <5>1, <2>2, <3>7 DEF At
      <4> QED
        BY <4>1, <4>2
    <3>10. ASSUME NEW y \in 1..x PROVE ~IsDisposable(t.node[d[y]].job)
      <4>1. y \in 1..(n - 1) /\ Place(i, y) = y
        BY <1>2, <3>6 DEF Place
      <4>2. t.node[d[y]].job = s.node[e[y]].job
        BY <4>1, <3>3 DEF Shortened
      <4> QED
        BY <4>2, <1>1
    <3>11. /\ N \in DOMAIN A.jobs \ G /\ job = A.jobs[N] /\ N # 0
      <4>1. N \in DOMAIN A.jobs \ G /\ s.node[e[i]].job = A.jobs[N]
        BY <1>1, <2>1, JobLeft
      <4>2. N # 0
        BY <1>1, <2>1, NumbersAre
      <4> QED
        BY <4>1, <4>2, <2>1
    <3>12. IsFiniteSet(H) /\ H \subseteq JS!Disposable(A)
      <4>1. N \in JS!Disposable(A)
        BY <3>11, <2>4 DEF IsDisposable, JS!Disposable
      <4>2. IsFiniteSet(H)
        BY <1>1, FS_AddElement
      <4> QED
        BY <4>1, <4>2, <1>1
    <3>13. StoreOf(t, m) = JS!Without(A, H)
      <4>1. StoreOf(t, m) = JS!Without(StoreOf(s, m), {N})
        BY <1>1, <2>1, <3>2, UnlinkStore
      <4>2. N \notin G
        BY <3>11
      <4>3. JS!Without(JS!Without(A, G), {N}) = JS!Without(A, H)
        <5> HIDE DEF N
        <5> QED
          BY <4>2, <1>1, <3>11, OneMore
      <4> QED
        BY <4>1, <4>3, <1>1
    <3> DEFINE z == SweepStep(l)
    <3>14. z.s = t /\ z.prev = l.prev /\ z.curr = next
      BY <3>1
    <3> HIDE DEF d, H, K, N, next, z
    <3>15. Swept(k, A, m, z, K, n - 1, d, x, H)
      BY <2>3, <3>4, <3>5, <3>6, <3>8, <3>9, <3>10, <3>12, <3>13, <3>14 DEF Swept
    <3> QED
      BY <3>15 DEF z
  <2>5. CASE ~IsDisposable(job)
    <3> DEFINE z == SweepStep(l)
    <3>1. z = [s |-> s, prev |-> l.curr, curr |-> next]
      BY <1>5, <2>5 DEF SweepStep, IsDisposable
    <3>2. z.s = s /\ z.prev = At(e, n, i) /\ z.curr = At(e, n, i + 1)
      BY <2>1, <2>2, <3>1 DEF At
    <3>3. \A y \in 1..i : ~IsDisposable(s.node[e[y]].job)
      <4>1. \A y \in 1..i : y \in 1..x \/ y = i
        BY <1>2, <2>1
      <4> QED
        BY <4>1, <1>1, <2>1, <2>5
    <3>4. i \in 0..n
      BY <2>1
    <3> HIDE DEF z, i
    <3>5. Swept(k, A, m, z, J, n, e, i, G)
      BY <1>1, <2>3, <3>2, <3>3, <3>4 DEF Swept
    <3> QED
      BY <3>5 DEF z
  <2> QED
    BY <2>4, <2>5
<1> QED
  BY <1>4, <1>5

\* job_store_remove_completed leaves what the table has without all that it may remove.
LEMMA SweepIs ==
    ASSUME NEW J, Typed(List, J), NEW n, NEW c, IsList(List, n, c),
           Below(List, n, c, next_job_id)
    PROVE  \E K, q, d : LET s == Sweep[MaxSteps].s IN
              /\ Typed(s, K) /\ IsList(s, q, d) /\ Below(s, q, d, next_job_id)
              /\ StoreOf(s, next_job_id) = JS!StoreRemoveCompleted(AbstractStore)
<1> DEFINE A == AbstractStore
           m == next_job_id
           At0(k) == \E K, q, d, y, H : Swept(k, A, m, Sweep[k], K, q, d, y, H)
           Good == {k \in 0..MaxSteps : At0(k)}
<1>1. MaxSteps \in Nat /\ n \in Nat /\ n <= MaxSteps
  <2>1. n <= MaxSteps
    BY NoLongerThanAddr
  <2> QED
    BY <2>1, SizeIs DEF IsList
<1>2. A.job_count \in Int
  <2>1. A.job_count = n
    BY StoreIs DEF AbstractStore
  <2> QED
    BY <2>1, <1>1
<1>3. 0 \in Good
  <2>1. Sweep[0].s = List /\ Sweep[0].prev = NULL /\ Sweep[0].curr = jobs
    BY SweepGoes DEF SweepStart
  <2>2. NULL = At(c, n, 0) /\ jobs = At(c, n, 0 + 1)
    BY ListIs DEF At, IsList
  <2>3. StoreOf(List, m) = JS!Without(A, {})
    <3>1. JS!Cardinality({}) = 0
      BY SameSize, FS_EmptySet
    <3>2. A = [jobs |-> A.jobs, current_job |-> A.current_job,
               previous_job |-> A.previous_job, job_count |-> A.job_count,
               next_job_id |-> A.next_job_id]
      BY DEF AbstractStore, StoreOf
    <3>3. A.jobs = [j \in DOMAIN A.jobs \ {} |-> A.jobs[j]]
      BY DEF AbstractStore, StoreOf
    <3>4. \A x : x \notin {}
      OBVIOUS
    <3> HIDE DEF A
    <3>5. JS!Without(A, {}) = A
      BY <3>1, <3>2, <3>3, <3>4, <1>2 DEF JS!Without
    <3> QED
      BY <3>5 DEF A, AbstractStore
  <2>4. Swept(0, A, m, Sweep[0], J, n, c, 0, {})
    <3>1. IsFiniteSet({}) /\ 0 \in 0..n /\ n - 0 <= MaxSteps - 0 /\ 1..0 = {}
      BY <1>1, FS_EmptySet
    <3> HIDE DEF A
    <3> QED
      BY <2>1, <2>2, <2>3, <3>1 DEF Swept
  <2>5. At0(0)
    BY <2>4
  <2> HIDE DEF At0
  <2> QED
    BY <2>5, <1>1
<1>4. ASSUME NEW k \in 1..MaxSteps, k - 1 \in Good PROVE k \in Good
  <2>1. Sweep[k] = SweepStep(Sweep[k - 1])
    BY SweepGoes
  <2>2. PICK K, q, d, y, H : Swept(k - 1, A, m, Sweep[k - 1], K, q, d, y, H)
    BY <1>4
  <2>3. \E L, r, b, z, I : Swept(k, A, m, SweepStep(Sweep[k - 1]), L, r, b, z, I)
    <3> HIDE DEF A, m
    <3> QED
      BY <1>2, <2>2, SweepStepKeeps
  <2>4. At0(k)
    BY <2>1, <2>3
  <2> HIDE DEF At0
  <2> QED
    BY <2>4, <1>1
<1>5. MaxSteps \in Good
  <2>1. \A k \in 0..MaxSteps : k \in Good
    <3> HIDE DEF Good
    <3> QED
      BY <1>1, <1>3, <1>4, Induction
  <2> QED
    BY <2>1, <1>1
<1> DEFINE s == Sweep[MaxSteps].s
<1>6. PICK K, q, d, y, H : Swept(MaxSteps, A, m, Sweep[MaxSteps], K, q, d, y, H)
  BY <1>5
<1>7. /\ Typed(s, K) /\ IsList(s, q, d) /\ Below(s, q, d, m)
      /\ y \in 0..q /\ q - y <= 0
      /\ \A z \in 1..y : ~IsDisposable(s.node[d[z]].job)
      /\ H \subseteq JS!Disposable(A)
      /\ StoreOf(s, m) = JS!Without(A, H)
  BY <1>1, <1>6 DEF Swept
<1> HIDE DEF s, A
<1>8. y = q
  BY <1>7 DEF IsList
<1>9. JS!Disposable(A) \subseteq H
  <2> SUFFICES ASSUME NEW j \in JS!Disposable(A), j \notin H PROVE FALSE
    OBVIOUS
  <2>1. j \in DOMAIN A.jobs \ H /\ IsDisposable(A.jobs[j])
    BY DEF JS!Disposable, IsDisposable
  <2>2. j \in DOMAIN StoreOf(s, m).jobs
    BY <2>1, <1>7, Left
  <2>3. DOMAIN StoreOf(s, m).jobs = Numbers(s, q, d)
    BY <1>7, StoreIs
  <2>4. PICK z \in 1..q : j = Number(s, d, z)
    BY <2>2, <2>3 DEF Numbers
  <2>5. s.node[d[z]].job = A.jobs[j]
    BY <2>4, <1>7, JobLeft
  <2> QED
    BY <2>1, <2>4, <2>5, <1>7, <1>8
<1>10. H = JS!Disposable(A)
  BY <1>7, <1>9
<1>11. StoreOf(s, m) = JS!StoreRemoveCompleted(A)
  BY <1>7, <1>10 DEF JS!StoreRemoveCompleted
<1> QED
  BY <1>7, <1>11 DEF s, A

LEMMA RemoveCompletedIs ==
    ASSUME NEW J, Typed(List, J), NEW n, NEW c, IsList(List, n, c),
           Below(List, n, c, next_job_id), RemoveCompleted
    PROVE  IInv' /\ JS!StoreNext
<1> DEFINE s == Sweep[MaxSteps].s
<1>1. PICK K, q, d : /\ Typed(s, K) /\ IsList(s, q, d) /\ Below(s, q, d, next_job_id)
                     /\ StoreOf(s, next_job_id) = JS!StoreRemoveCompleted(AbstractStore)
  BY SweepIs
<1>2. LoopEnd(s)
  BY DEF RemoveCompleted
<1> HIDE DEF s
<1>3. IInv' /\ AbstractStore' = StoreOf(s, next_job_id)
  BY <1>1, <1>2, LoopEndIs
<1>4. JS!DoRemoveCompleted
  BY <1>1, <1>3 DEF JS!DoRemoveCompleted
<1> QED
  BY <1>3, <1>4 DEF JS!StoreNext

-----------------------------------------------------------------------------
(* The specification.                                                      *)

LEMMA InitialList == Init => IInv /\ JS!StoreInit
<1> SUFFICES ASSUME Init PROVE IInv /\ JS!StoreInit
  OBVIOUS
<1> DEFINE J == {JS!NewJob(FALSE)}
           c == [i \in 1..0 |-> NULL]
<1>1. /\ node = [p \in Addr |-> Freed] /\ jobs = NULL /\ current_job = NULL
      /\ previous_job = NULL /\ job_count = 0 /\ next_job_id = 1
  BY DEF Init
<1>2. Freed \in NodeOf(J) /\ ~Freed.live /\ NULL \in Pointer
  BY DEF Freed, NodeOf, Pointer
<1>3. Typed(List, J)
  <2> HIDE DEF J
  <2> QED
    BY <1>1, <1>2 DEF List, Typed, ListOf
<1>4. 1..0 = {} /\ c \in [1..0 -> Addr]
  OBVIOUS
<1>5. IsList(List, 0, c)
  <2>1. \A p \in Addr : ~List.node[p].live
    BY <1>1, <1>2, ListIs
  <2> HIDE DEF c
  <2> QED
    BY <1>1, <1>4, <2>1, ListIs DEF IsList, At
<1>6. Below(List, 0, c, next_job_id)
  BY <1>1, <1>4 DEF Below
<1>7. IInv
  BY <1>3, <1>5, <1>6 DEF IInv
<1>8. JS!StoreInit
  <2> DEFINE f == [j \in {} |-> JS!NewJob(FALSE)]
  <2>1. Numbers(List, 0, c) = {}
    BY <1>4 DEF Numbers
  <2>2. /\ IsTable(f, Numbers(List, 0, c))
        /\ \A i \in 1..0 : f[Number(List, c, i)] = List.node[c[i]].job
    BY <1>4, <2>1 DEF IsTable
  <2> HIDE DEF f, c, J
  <2>3. StoreOf(List, next_job_id)
          = [jobs |-> f, current_job |-> ToId(List, List.cur),
             previous_job |-> ToId(List, List.prv), job_count |-> 0,
             next_job_id |-> next_job_id]
    BY <2>2, <1>3, <1>5, IsStoreOf
  <2>4. ToId(List, List.cur) = 0 /\ ToId(List, List.prv) = 0
    BY <1>1, ListIs DEF ToId
  <2> QED
    BY <2>3, <2>4, <1>1 DEF AbstractStore, JS!StoreInit, JS!StoreCreate, JS!NoJob, f
<1> QED
  BY <1>7, <1>8

LEMMA StepIs == IInv /\ [Next]_vars => IInv' /\ [JS!StoreNext]_AbstractStore
<1> SUFFICES ASSUME IInv, [Next]_vars PROVE IInv' /\ [JS!StoreNext]_AbstractStore
  OBVIOUS
<1>1. PICK J, n, c : Typed(List, J) /\ IsList(List, n, c) /\ Below(List, n, c, next_job_id)
  BY DEF IInv
<1>2. ASSUME NEW bg \in BOOLEAN, Add(bg) PROVE IInv' /\ [JS!StoreNext]_AbstractStore
  BY <1>1, <1>2, AddIs
<1>3. ASSUME NEW id \in 1..MaxJobs, NEW pid \in Pids, AddProcess(id, pid)
      PROVE  IInv' /\ [JS!StoreNext]_AbstractStore
  BY <1>1, <1>3, AddProcessIs
<1>4. ASSUME NEW id \in 1..MaxJobs, SetState(id) PROVE IInv' /\ [JS!StoreNext]_AbstractStore
  BY <1>1, <1>4, SetStateIs
<1>5. ASSUME NEW pid \in Pids, NEW st \in {"done", "stopped"}, NEW code \in Statuses,
             SetProcessState(pid, st, code)
      PROVE  IInv' /\ [JS!StoreNext]_AbstractStore
  BY <1>1, <1>5, SetProcessStateIs
<1>6. ASSUME NEW id \in 1..MaxJobs, MarkNotified(id) PROVE IInv' /\ [JS!StoreNext]_AbstractStore
  BY <1>1, <1>6, MarkNotifiedIs
<1>7. CASE PrintCompleted
  BY <1>1, <1>7, PrintCompletedIs
<1>8. ASSUME NEW id \in 1..MaxJobs, Remove(id) PROVE IInv' /\ [JS!StoreNext]_AbstractStore
  BY <1>1, <1>8, RemoveIs
<1>9. CASE RemoveCompleted
  BY <1>1, <1>9, RemoveCompletedIs
<1>10. CASE UNCHANGED vars
  <2>1. UNCHANGED <<List, next_job_id>>
    BY <1>10 DEF vars, List
  <2> QED
    BY <2>1 DEF AbstractStore, IInv
<1>11. CASE Next
  <2>1. CASE \E bg \in BOOLEAN : Add(bg)
    BY <2>1, <1>2
  <2>2. CASE \E id \in 1..MaxJobs, pid \in Pids : AddProcess(id, pid)
    BY <2>2, <1>3
  <2>3. CASE \E id \in 1..MaxJobs : SetState(id) \/ MarkNotified(id) \/ Remove(id)
    BY <2>3, <1>4, <1>6, <1>8
  <2>4. CASE \E pid \in Pids, st \in {"done", "stopped"}, code \in Statuses :
                SetProcessState(pid, st, code)
    BY <2>4, <1>5
  <2> QED
    BY <1>7, <1>9, <1>11, <2>1, <2>2, <2>3, <2>4 DEF Next
<1> QED
  BY <1>10, <1>11

\* The Chain of the module is the order that the invariant speaks of.
LEMMA SoundList == IInv => ListSound
<1> SUFFICES ASSUME NEW J, NEW n, NEW c, Typed(List, J), IsList(List, n, c)
             PROVE  ListSound
  BY DEF IInv
<1>1. n \in Nat /\ MaxSteps \in Nat /\ c \in [1..n -> Addr] /\ n <= MaxSteps
  <2>1. n <= MaxSteps
    BY NoLongerThanAddr
  <2> QED
    BY <2>1, SizeIs DEF IsList
<1>2. \A k \in 0..MaxSteps : Walk(List)[k] = At(c, n, k + 1)
  BY WalkIs
<1>3. \A i \in 1..n : c[i] # NULL
  BY NumbersAre
<1>4. Chain = c
  <2> DEFINE S == {k \in 0..MaxSteps : Walk(List)[k] # NULL}
             length == Cardinality(S)
  <2>1. S = 0..(n - 1)
    BY <1>1, <1>2, <1>3 DEF At
  <2>2. length = n
    <3>1. Cardinality(0..(n - 1)) = IF 0 > n - 1 THEN 0 ELSE (n - 1) - 0 + 1
      <4>1. 0 \in Int /\ n - 1 \in Int
        BY <1>1
      <4> QED
        BY <4>1, FS_Interval
    <3>2. length = Cardinality(0..(n - 1))
      BY <2>1
    <3> QED
      BY <3>1, <3>2, <1>1
  <2>3. Chain = [i \in 1..length |-> Walk(List)[i - 1]]
    BY DEF Chain
  <2>4. ASSUME NEW i \in 1..n PROVE Walk(List)[i - 1] = c[i]
    <3>1. i - 1 \in 0..MaxSteps /\ (i - 1) + 1 = i
      BY <1>1
    <3> QED
      BY <3>1, <1>2 DEF At
  <2> HIDE DEF length
  <2> QED
    BY <2>2, <2>3, <2>4, <1>1
<1>5. Len(Chain) = job_count
  BY <1>1, <1>4, ListIs DEF IsList
<1>6. \A i, k \in DOMAIN Chain : i < k => node[Chain[i]].job_id > node[Chain[k]].job_id
  BY <1>1, <1>4, ListIs DEF IsList
<1>7. Linked(List) = {c[i] : i \in 1..n}
  BY LinkedIs
<1>8. Linked(List) = {p \in Addr : node[p].live}
  BY <1>1, <1>7, ListIs DEF IsList
<1>9. {current_job, previous_job} \subseteq Linked(List) \cup {NULL}
  BY <1>7, ListIs DEF IsList
<1> QED
  BY <1>5, <1>6, <1>8, <1>9 DEF ListSound, ListWellFormed, NoDanglingPointer

LEMMA ListInvariant == Spec => []IInv
<1>1. Init => IInv
  BY InitialList
<1>2. IInv /\ [Next]_vars => IInv'
  BY StepIs
<1> QED
  BY <1>1, <1>2, PTL DEF Spec

\* No call of job_store.c leaks a node, links one twice, puts one out of order, or leaves
\* %+ or %- at a node it has freed: for any addresses the allocator hands out again.
THEOREM ListAlwaysSound == Spec => []ListSound
BY ListInvariant, SoundList, PTL

\* The linked list does what the job table says, call by call: every loop over the next
\* pointers finds the job the table means, and the removals repair both pointers.
THEOREM ListImplementsStore == Spec => ImplementsJobStore
<1>1. Init => JS!StoreInit
  BY InitialList
<1>2. IInv /\ [Next]_vars => [JS!StoreNext]_AbstractStore
  BY StepIs
<1> QED
  BY <1>1, <1>2, ListInvariant, PTL DEF Spec, ImplementsJobStore, JS!StoreSpec
=============================================================================
