---------------------------- MODULE ScopesProofs ----------------------------
(***************************************************************************)
(* The safety properties of Scopes, for any names, values, assignments,    *)
(* arguments and functions and any depth of calls.                         *)
(*                                                                         *)
(* The library's induction theorems take an operator.  Here induction is   *)
(* by the least number for which a statement fails (Least), which is also  *)
(* how the function that AddAll defines by recursion is shown to exist     *)
(* (Recursion).                                                            *)
(***************************************************************************)
EXTENDS Scopes, SequenceTheorems, WellFoundedInduction, TLAPS

-----------------------------------------------------------------------------
(* Induction and recursion.                                                *)

LEMMA Least ==
    ASSUME NEW S \in SUBSET Nat, S # {}
    PROVE  \E m \in S : \A k \in S : m <= k
<1> DEFINE R == OpToRel(<, Nat)
<1>1. IsWellFoundedOn(R, Nat)
  BY NatLessThanWellFounded
<1>2. \A x, y \in Nat : x < y => <<x, y>> \in R
  BY DEF OpToRel
<1> HIDE DEF R
<1>3. PICK m \in S : \A y \in S : ~ (<<y, m>> \in R)
  BY <1>1, WFMin
<1>4. ASSUME NEW y \in S PROVE m <= y
  <2>1. m \in Nat /\ y \in Nat
    OBVIOUS
  <2>2. ~ (y < m)
    BY <2>1, <1>2, <1>3
  <2> QED
    BY <2>1, <2>2
<1> QED
  BY <1>4

\* What holds of 0, and of each number up to n if it holds of the one before.
LEMMA Induction ==
    ASSUME NEW n \in Nat, NEW Good, 0 \in Good,
           \A i \in 1 .. n : i - 1 \in Good => i \in Good
    PROVE  \A i \in 0 .. n : i \in Good
<1> DEFINE Bad == {i \in 0 .. n : i \notin Good}
<1> SUFFICES ASSUME Bad # {} PROVE FALSE
  OBVIOUS
<1>1. PICK m \in Bad : \A k \in Bad : m <= k
  <2>1. Bad \in SUBSET Nat
    OBVIOUS
  <2> HIDE DEF Bad
  <2> QED
    BY <2>1, Least
<1>2. m \in 1 .. n /\ m - 1 \in 0 .. n
  BY <1>1
<1>3. m - 1 \notin Bad
  BY <1>1, <1>2
<1> QED
  BY <1>1, <1>2, <1>3

\* f goes from s on as the table G says: from what it is at i - 1 to what it is at i.
Run(f, n, S, s, G) ==
    f \in [0 .. n -> S] /\ f[0] = s /\ \A i \in 1 .. n : f[i] = G[i][f[i - 1]]

LEMMA Recursion ==
    ASSUME NEW n \in Nat, NEW S, NEW s \in S, NEW G \in [1 .. n -> [S -> S]]
    PROVE  \E f : Run(f, n, S, s, G)
<1> DEFINE Upto(m, f) == /\ f \in [0 .. m -> S] /\ f[0] = s
                         /\ \A i \in 1 .. m : f[i] = G[i][f[i - 1]]
           Good == {m \in 0 .. n : \E f : Upto(m, f)}
<1>1. 0 \in Good
  <2> DEFINE g == [i \in 0 .. 0 |-> s]
  <2>1. Upto(0, g)
    OBVIOUS
  <2> HIDE DEF Upto, g
  <2>2. \E f : Upto(0, f)
    BY <2>1
  <2> QED
    BY <2>2
<1>2. ASSUME NEW m \in 1 .. n, m - 1 \in Good PROVE m \in Good
  <2>1. PICK f : Upto(m - 1, f)
    BY <1>2
  <2> DEFINE g == [i \in 0 .. m |-> IF i = m THEN G[m][f[m - 1]] ELSE f[i]]
  <2>2. f[m - 1] \in S /\ G[m][f[m - 1]] \in S
    BY <2>1
  <2>3. \A i \in 0 .. m : i # m => i \in 0 .. m - 1 /\ g[i] = f[i] /\ f[i] \in S
    BY <2>1
  <2>4. g \in [0 .. m -> S] /\ g[0] = s
    BY <2>1, <2>2, <2>3
  <2>5. ASSUME NEW i \in 1 .. m PROVE g[i] = G[i][g[i - 1]]
    <3>1. i - 1 \in 0 .. m - 1 /\ g[i - 1] = f[i - 1]
      BY <2>3
    <3>2. CASE i = m
      BY <3>1, <3>2
    <3>3. CASE i # m
      <4>1. i \in 1 .. m - 1 /\ g[i] = f[i]
        BY <3>3, <2>3
      <4>2. f[i] = G[i][f[i - 1]]
        BY <4>1, <2>1
      <4> HIDE DEF g
      <4> QED
        BY <3>1, <4>1, <4>2
    <3> QED
      BY <3>2, <3>3
  <2> HIDE DEF g
  <2>6. Upto(m, g)
    BY <2>4, <2>5
  <2> HIDE DEF Upto
  <2>7. \E h : Upto(m, h)
    BY <2>6
  <2> QED
    BY <2>7
<1>3. n \in Good
  <2>1. \A i \in 0 .. n : i \in Good
    <3> HIDE DEF Good
    <3> QED
      BY <1>1, <1>2, Induction
  <2> HIDE DEF Good
  <2> QED
    BY <2>1
<1>4. PICK f : Upto(n, f)
  BY <1>3
<1> QED
  BY <1>4 DEF Run

-----------------------------------------------------------------------------
(* Stores of variables.                                                    *)

LEMMA StoreIs ==
    ASSUME NEW s \in Stores
    PROVE  DOMAIN s \subseteq Names /\ s \in [DOMAIN s -> Variable]
BY DEF Stores

LEMMA IsStore ==
    ASSUME NEW D \in SUBSET Names, NEW s \in [D -> Variable]
    PROVE  s \in Stores
BY DEF Stores

LEMMA WithInStore ==
    ASSUME NEW s \in Stores, NEW n \in Names, NEW v \in Variable
    PROVE  With(s, n, v) \in Stores
<1>1. DOMAIN s \subseteq Names /\ s \in [DOMAIN s -> Variable]
  BY StoreIs
<1>2. With(s, n, v) \in [DOMAIN s \cup {n} -> Variable]
  BY <1>1 DEF With
<1>3. DOMAIN s \cup {n} \in SUBSET Names
  BY <1>1
<1> QED
  BY <1>2, <1>3, IsStore

\* Whatever is read-only in s is the same in t.
RoKept(s, t) == \A n \in Names : IsReadOnly(s, n) => n \in DOMAIN t /\ t[n] = s[n]

LEMMA RoKeptChain ==
    ASSUME NEW s, NEW t, NEW u, RoKept(s, t), RoKept(t, u)
    PROVE  RoKept(s, u)
BY DEF RoKept, IsReadOnly

LEMMA RoKeptSame ==
    ASSUME NEW s
    PROVE  RoKept(s, s)
BY DEF RoKept, IsReadOnly

LEMMA AddIs ==
    ASSUME NEW s \in Stores, NEW n \in Names, NEW v \in Variable
    PROVE  /\ variable_store_add(s, n, v) \in Stores
           /\ RoKept(s, variable_store_add(s, n, v))
<1>1. CASE IsReadOnly(s, n)
  BY <1>1, RoKeptSame DEF variable_store_add
<1>2. CASE ~IsReadOnly(s, n)
  <2>1. variable_store_add(s, n, v) = With(s, n, v)
    BY <1>2 DEF variable_store_add
  <2>2. s \in [DOMAIN s -> Variable]
    BY StoreIs
  <2>3. PICK t : t = With(s, n, v)
    OBVIOUS
  <2>4. DOMAIN t = DOMAIN s \cup {n} /\ \A y \in DOMAIN s : y # n => t[y] = s[y]
    <3>1. /\ DOMAIN With(s, n, v) = DOMAIN s \cup {n}
          /\ \A y \in DOMAIN s : y # n => With(s, n, v)[y] = s[y]
      BY DEF With
    <3> QED
      BY <2>3, <3>1
  <2>5. RoKept(s, t)
    BY <1>2, <2>4 DEF RoKept, IsReadOnly
  <2> QED
    BY <2>1, <2>3, <2>5, WithInStore
<1> QED
  BY <1>1, <1>2

LEMMA RemoveIs ==
    ASSUME NEW s \in Stores, NEW n \in Names, ~IsReadOnly(s, n)
    PROVE  /\ variable_store_remove(s, n) \in Stores
           /\ RoKept(s, variable_store_remove(s, n))
<1>1. DOMAIN s \subseteq Names /\ s \in [DOMAIN s -> Variable]
  BY StoreIs
<1>2. variable_store_remove(s, n) \in [DOMAIN s \ {n} -> Variable]
  BY <1>1 DEF variable_store_remove
<1>3. DOMAIN s \ {n} \in SUBSET Names
  BY <1>1
<1>4. RoKept(s, variable_store_remove(s, n))
  BY DEF RoKept, IsReadOnly, variable_store_remove
<1> QED
  BY <1>2, <1>3, <1>4, IsStore

-----------------------------------------------------------------------------
(* The assignments before a command.                                       *)

Prefixes == Seq([name : Names, val : Values])

\* j is the last of the first i assignments that is to n.
LastTo(prefix, i, n, j) ==
    /\ j \in 1 .. i /\ prefix[j].name = n
    /\ \A k \in 1 .. i : prefix[k].name = n => k <= j

\* t is the store with the first i assignments of prefix: those to read-only variables have
\* no effect, and of several to one name the last one counts.
Added(store, prefix, exp, i, t) ==
    \A n \in Names :
        IF IsReadOnly(store, n) \/ \A j \in 1 .. i : prefix[j].name # n
        THEN (n \in DOMAIN t <=> n \in DOMAIN store) /\ (n \in DOMAIN store => t[n] = store[n])
        ELSE n \in DOMAIN t /\ \E j \in 1 .. i : LastTo(prefix, i, n, j)
                                                 /\ t[n] = Var(prefix[j].val, exp, FALSE)

LEMMA AddedNext ==
    ASSUME NEW store \in Stores, NEW prefix \in Prefixes, NEW exp \in BOOLEAN,
           NEW i \in 1 .. Len(prefix), NEW t \in Stores, Added(store, prefix, exp, i - 1, t)
    PROVE  Added(store, prefix, exp, i,
                 variable_store_add(t, prefix[i].name, Var(prefix[i].val, exp, FALSE)))
<1> DEFINE u == variable_store_add(t, prefix[i].name, Var(prefix[i].val, exp, FALSE))
<1>1. i \in Nat \ {0} /\ i - 1 \in Nat /\ prefix[i] \in [name : Names, val : Values]
  <2>1. prefix \in Seq([name : Names, val : Values])
    BY DEF Prefixes
  <2>2. Len(prefix) \in Nat
    BY <2>1
  <2>3. prefix[i] \in [name : Names, val : Values]
    BY <2>1, ElementOfSeq
  <2> QED
    BY <2>2, <2>3
<1>2. PICK m \in Names : m = prefix[i].name
  BY <1>1
<1>3. PICK v \in Variable : v = Var(prefix[i].val, exp, FALSE)
  BY <1>1 DEF Variable, Var
<1>4. v.ro = FALSE
  BY <1>3 DEF Var
<1>5. IsReadOnly(t, m) <=> IsReadOnly(store, m)
  <2>1. CASE IsReadOnly(store, m)
    BY <2>1 DEF Added, IsReadOnly
  <2>2. CASE ~IsReadOnly(store, m) /\ \A j \in 1 .. i - 1 : prefix[j].name # m
    BY <2>2 DEF Added, IsReadOnly
  <2>3. CASE ~IsReadOnly(store, m) /\ ~ \A j \in 1 .. i - 1 : prefix[j].name # m
    <3>1. PICK j \in 1 .. i - 1 : t[m] = Var(prefix[j].val, exp, FALSE)
      BY <2>3 DEF Added
    <3> QED
      BY <2>3, <3>1 DEF IsReadOnly, Var
  <2> QED
    BY <2>1, <2>2, <2>3
<1>6. u = variable_store_add(t, m, v)
  BY <1>2, <1>3
<1>7. t \in [DOMAIN t -> Variable]
  BY StoreIs
<1> HIDE DEF u
<1>8. \A k \in 1 .. i : k = i \/ k \in 1 .. i - 1
  BY <1>1
<1>9. \A k \in 1 .. i - 1 : k \in 1 .. i /\ k < i
  BY <1>1
<1> SUFFICES ASSUME NEW n \in Names
             PROVE  IF IsReadOnly(store, n) \/ \A j \in 1 .. i : prefix[j].name # n
                    THEN (n \in DOMAIN u <=> n \in DOMAIN store) /\ (n \in DOMAIN store => u[n] = store[n])
                    ELSE n \in DOMAIN u /\ \E j \in 1 .. i : LastTo(prefix, i, n, j)
                                                             /\ u[n] = Var(prefix[j].val, exp, FALSE)
  BY DEF Added, u
<1>10. CASE IsReadOnly(store, m)
  <2>1. u = t
    BY <1>5, <1>6, <1>10 DEF variable_store_add
  <2>2. CASE IsReadOnly(store, n) \/ \A j \in 1 .. i : prefix[j].name # n
    BY <2>1, <2>2, <1>9 DEF Added
  <2>3. CASE ~(IsReadOnly(store, n) \/ \A j \in 1 .. i : prefix[j].name # n)
    <3>1. n # m
      BY <1>10, <2>3
    <3>2. ~(IsReadOnly(store, n) \/ \A j \in 1 .. i - 1 : prefix[j].name # n)
      BY <1>2, <1>8, <2>3, <3>1
    <3>3. n \in DOMAIN t /\ \E j \in 1 .. i - 1 : LastTo(prefix, i - 1, n, j)
                                               /\ t[n] = Var(prefix[j].val, exp, FALSE)
      BY <3>2 DEF Added
    <3>4. \A j \in 1 .. i - 1 : LastTo(prefix, i - 1, n, j) => LastTo(prefix, i, n, j)
      BY <1>2, <1>8, <1>9, <3>1 DEF LastTo
    <3>5. \E j \in 1 .. i : LastTo(prefix, i, n, j) /\ t[n] = Var(prefix[j].val, exp, FALSE)
      BY <1>9, <3>3, <3>4
    <3> QED
      BY <2>1, <2>3, <3>3, <3>5
  <2> QED
    BY <2>2, <2>3
<1>11. CASE ~IsReadOnly(store, m)
  <2>1. u = With(t, m, v)
    BY <1>5, <1>6, <1>11 DEF variable_store_add
  <2>2. /\ DOMAIN u = DOMAIN t \cup {m} /\ u[m] = v
        /\ \A y \in DOMAIN t : y # m => u[y] = t[y]
    <3>1. /\ DOMAIN With(t, m, v) = DOMAIN t \cup {m} /\ With(t, m, v)[m] = v
          /\ \A y \in DOMAIN t : y # m => With(t, m, v)[y] = t[y]
      BY DEF With
    <3> QED
      BY <2>1, <3>1
  <2>3. CASE n = m
    <3>1. LastTo(prefix, i, n, i)
      BY <1>1, <1>2, <2>3 DEF LastTo
    <3>2. i \in 1 .. i /\ u[n] = Var(prefix[i].val, exp, FALSE) /\ prefix[i].name = n
      <4>1. u[n] = v
        BY <2>2, <2>3
      <4>2. i \in 1 .. i
        BY <1>1
      <4> QED
        BY <1>2, <1>3, <2>3, <4>1, <4>2
    <3> QED
      BY <1>11, <2>2, <2>3, <3>1, <3>2
  <2>4. CASE n # m
    <3>1. (n \in DOMAIN u <=> n \in DOMAIN t) /\ (n \in DOMAIN t => u[n] = t[n])
      BY <2>2, <2>4
    <3>2. CASE IsReadOnly(store, n) \/ \A j \in 1 .. i : prefix[j].name # n
      <4>1. (n \in DOMAIN t <=> n \in DOMAIN store) /\ (n \in DOMAIN store => t[n] = store[n])
        BY <3>2, <1>9 DEF Added
      <4> QED
        BY <3>1, <3>2, <4>1
    <3>3. CASE ~(IsReadOnly(store, n) \/ \A j \in 1 .. i : prefix[j].name # n)
      <4>2. ~(IsReadOnly(store, n) \/ \A j \in 1 .. i - 1 : prefix[j].name # n)
        BY <1>2, <1>8, <2>4, <3>3
      <4>3. n \in DOMAIN t /\ \E j \in 1 .. i - 1 : LastTo(prefix, i - 1, n, j)
                                                 /\ t[n] = Var(prefix[j].val, exp, FALSE)
        BY <4>2 DEF Added
      <4>4. \A j \in 1 .. i - 1 : LastTo(prefix, i - 1, n, j) => LastTo(prefix, i, n, j)
        BY <1>2, <1>8, <1>9, <2>4 DEF LastTo
      <4>5. \E j \in 1 .. i : LastTo(prefix, i, n, j) /\ t[n] = Var(prefix[j].val, exp, FALSE)
        BY <1>9, <4>3, <4>4
      <4> QED
        BY <3>1, <3>3, <4>3, <4>5
    <3> QED
      BY <3>2, <3>3
  <2> QED
    BY <2>3, <2>4
<1> QED
  BY <1>10, <1>11

LEMMA AddAllIs ==
    ASSUME NEW store \in Stores, NEW prefix \in Prefixes, NEW exp \in BOOLEAN
    PROVE  /\ AddAll(store, prefix, exp) \in Stores
           /\ Added(store, prefix, exp, Len(prefix), AddAll(store, prefix, exp))
<1> DEFINE n == Len(prefix)
           Give(t, i) == variable_store_add(t, prefix[i].name, Var(prefix[i].val, exp, FALSE))
           Rec(u) == u = [i \in 0 .. n |-> IF i = 0 THEN store ELSE Give(u[i - 1], i)]
<1>1. n \in Nat
  BY DEF Prefixes
<1>2. ASSUME NEW t \in Stores, NEW i \in 1 .. n PROVE Give(t, i) \in Stores
  <2>1. prefix \in Seq([name : Names, val : Values])
    BY DEF Prefixes
  <2>2. prefix[i] \in [name : Names, val : Values]
    BY <2>1, ElementOfSeq
  <2>3. PICK m \in Names : m = prefix[i].name
    BY <2>2
  <2>4. PICK v \in Variable : v = Var(prefix[i].val, exp, FALSE)
    BY <2>2 DEF Variable, Var
  <2>5. variable_store_add(t, m, v) \in Stores
    BY AddIs
  <2> QED
    BY <2>3, <2>4, <2>5
<1>3. AddAll(store, prefix, exp) = (CHOOSE u : Rec(u))[n]
  BY DEF AddAll
<1>4. ASSUME NEW u, Rec(u)
      PROVE  u[0] = store /\ \A i \in 1 .. n : u[i] = Give(u[i - 1], i)
  <2> HIDE DEF Give, n
  <2>1. 0 \in 0 .. n /\ \A i \in 1 .. n : i \in 0 .. n /\ i # 0
    BY <1>1
  <2> QED
    BY <1>4, <2>1
<1>5. \E u : Rec(u)
  <2> DEFINE G == [i \in 1 .. n |-> [t \in Stores |-> Give(t, i)]]
  <2>1. G \in [1 .. n -> [Stores -> Stores]]
    <3> HIDE DEF Give
    <3> QED
      BY <1>2
  <2>2. \A i \in 1 .. n, t \in Stores : G[i][t] = Give(t, i)
    OBVIOUS
  <2> HIDE DEF G, Give
  <2>3. PICK f \in [0 .. n -> Stores] :
           f[0] = store /\ \A i \in 1 .. n : f[i] = G[i][f[i - 1]]
    <3>1. PICK k \in Nat : k = n
      BY <1>1
    <3>2. G \in [1 .. k -> [Stores -> Stores]]
      BY <2>1, <3>1
    <3>3. PICK f : Run(f, k, Stores, store, G)
      BY <3>2, Recursion
    <3> QED
      BY <3>1, <3>3 DEF Run
  <2>4. ASSUME NEW i \in 0 .. n
        PROVE  f[i] = IF i = 0 THEN store ELSE Give(f[i - 1], i)
    <3>1. CASE i = 0
      BY <2>3, <3>1
    <3>2. CASE i # 0
      <4>1. i \in 1 .. n /\ i - 1 \in 0 .. n
        BY <3>2, <1>1
      <4>2. f[i - 1] \in Stores
        BY <4>1
      <4>3. f[i] = G[i][f[i - 1]]
        BY <2>3, <4>1
      <4> QED
        BY <2>2, <3>2, <4>1, <4>2, <4>3
    <3> QED
      BY <3>1, <3>2
  <2>5. f = [i \in 0 .. n |-> f[i]]
    BY <2>3
  <2> QED
    BY <2>4, <2>5
<1>6. PICK u : /\ AddAll(store, prefix, exp) = u[n] /\ u[0] = store
               /\ \A i \in 1 .. n : u[i] = Give(u[i - 1], i)
  <2> HIDE DEF Rec
  <2>1. Rec(CHOOSE u : Rec(u))
    BY <1>5
  <2> QED
    BY <1>3, <1>4, <2>1
<1> DEFINE Good == {i \in 0 .. n : u[i] \in Stores /\ Added(store, prefix, exp, i, u[i])}
<1>7. 0 \in Good
  <2>1. \A j \in 1 .. 0 : FALSE
    OBVIOUS
  <2>2. Added(store, prefix, exp, 0, store)
    BY <2>1 DEF Added
  <2>3. 0 \in 0 .. n
    BY <1>1
  <2> QED
    BY <1>6, <2>2, <2>3
<1>8. ASSUME NEW i \in 1 .. n, i - 1 \in Good PROVE i \in Good
  <2>1. PICK t \in Stores : t = u[i - 1] /\ Added(store, prefix, exp, i - 1, t)
    BY <1>8
  <2>2. Added(store, prefix, exp, i, Give(t, i))
    BY <2>1, AddedNext
  <2>3. u[i] = Give(t, i) /\ Give(t, i) \in Stores
    BY <1>2, <1>6, <2>1
  <2>4. i \in 0 .. n
    BY <1>1
  <2> HIDE DEF Give
  <2> QED
    BY <2>2, <2>3, <2>4
<1>9. n \in Good
  <2>1. \A i \in 0 .. n : i \in Good
    <3> HIDE DEF Good, n
    <3> QED
      BY <1>1, <1>7, <1>8, Induction
  <2> QED
    BY <1>1, <2>1
<1> QED
  BY <1>6, <1>9

\* Assignments keep what is read-only, and make nothing read-only.
LEMMA AddAllKeeps ==
    ASSUME NEW store \in Stores, NEW prefix \in Prefixes, NEW exp \in BOOLEAN
    PROVE  /\ AddAll(store, prefix, exp) \in Stores
           /\ RoKept(store, AddAll(store, prefix, exp))
           /\ RoKept(AddAll(store, prefix, exp), store)
<1>1. PICK t \in Stores : t = AddAll(store, prefix, exp) /\ Added(store, prefix, exp, Len(prefix), t)
  BY AddAllIs
<1>2. ASSUME NEW n \in Names
      PROVE  /\ IsReadOnly(store, n) => n \in DOMAIN t /\ t[n] = store[n]
             /\ IsReadOnly(t, n) => n \in DOMAIN store /\ store[n] = t[n]
  <2>1. CASE IsReadOnly(store, n) \/ \A j \in 1 .. Len(prefix) : prefix[j].name # n
    BY <1>1, <2>1 DEF Added, IsReadOnly
  <2>2. CASE ~(IsReadOnly(store, n) \/ \A j \in 1 .. Len(prefix) : prefix[j].name # n)
    <3>1. PICK j \in 1 .. Len(prefix) : t[n] = Var(prefix[j].val, exp, FALSE)
      BY <1>1, <2>2 DEF Added
    <3>2. ~IsReadOnly(t, n)
      BY <3>1 DEF IsReadOnly, Var
    <3> QED
      BY <2>2, <3>2
  <2> QED
    BY <2>1, <2>2
<1>3. RoKept(store, t) /\ RoKept(t, store)
  BY <1>2 DEF RoKept
<1> QED
  BY <1>1, <1>3

-----------------------------------------------------------------------------
(* A frame as a builtin finds and leaves it.                               *)

LEMMA SomeIs ==
    ASSUME NEW S, NEW x \in S
    PROVE  Some(x) \in Optional(S) /\ Some(x) # None /\ Some(x)[1] = x
BY DEF Some, Optional, None

LEMMA OptionalIs ==
    ASSUME NEW S, NEW o \in Optional(S), o # None
    PROVE  o[1] \in S /\ o = Some(o[1])
BY DEF Some, Optional, None

Words == UNION {{args[i] : i \in DOMAIN args} : args \in Arguments}
FunStores == UNION {[S -> Bodies] : S \in SUBSET Functions}
FrameRecord == [vars : Stores, saved : Optional(Stores), locals : Optional(Stores),
                env : Environments, pos : Optional(Seq(Words)), given : Seq(Words), gone : Nat,
                funs : FunStores]

LEMMA ArgumentsAreWords ==
    ASSUME NEW args \in Arguments
    PROVE  args \in Seq(Words)
<1> DEFINE T == {args[i] : i \in DOMAIN args}
<1>1. args \in Seq(T)
  BY ScopeAssumption
<1>2. T \subseteq Words
  BY DEF Words
<1> HIDE DEF T
<1> QED
  BY <1>1, <1>2

\* What a builtin leaves of the frame it was given: all that is read-only, and, but for set and
\* shift, the parameters.
SameParams(a, b) == b.pos = a.pos /\ b.given = a.given /\ b.gone = a.gone
Keeps(a, b) ==
    /\ b \in FrameRecord
    /\ RoKept(a.vars, b.vars)
    /\ a.saved # None => b.saved # None /\ RoKept(a.saved[1], b.saved[1])
KeepsAll(a, b) == Keeps(a, b) /\ SameParams(a, b)

LEMMA KeepsSame ==
    ASSUME NEW fr \in FrameRecord
    PROVE  KeepsAll(fr, fr)
BY RoKeptSame DEF Keeps, KeepsAll, SameParams

LEMMA KeepsChain ==
    ASSUME NEW a, NEW b, NEW c, KeepsAll(a, b), KeepsAll(b, c)
    PROVE  KeepsAll(a, c)
<1>1. RoKept(a.vars, c.vars)
  BY RoKeptChain DEF KeepsAll, Keeps
<1>2. a.saved # None => c.saved # None /\ RoKept(a.saved[1], c.saved[1])
  BY RoKeptChain DEF KeepsAll, Keeps
<1> QED
  BY <1>1, <1>2 DEF KeepsAll, Keeps, SameParams

LEMMA VarsSet ==
    ASSUME NEW fr \in FrameRecord, NEW s \in Stores, RoKept(fr.vars, s)
    PROVE  KeepsAll(fr, [fr EXCEPT !.vars = s])
<1>1. PICK b : b = [fr EXCEPT !.vars = s]
  OBVIOUS
<1>2. b \in FrameRecord /\ b.vars = s /\ b.saved = fr.saved /\ SameParams(fr, b)
  BY <1>1 DEF FrameRecord, SameParams
<1> QED
  BY <1>1, <1>2, RoKeptSame DEF Keeps, KeepsAll

LEMMA LocalsSet ==
    ASSUME NEW fr \in FrameRecord, NEW s \in Stores
    PROVE  KeepsAll(fr, [fr EXCEPT !.locals = Some(s)])
<1>1. PICK b : b = [fr EXCEPT !.locals = Some(s)]
  OBVIOUS
<1>2. Some(s) \in Optional(Stores)
  BY SomeIs
<1>3. b \in FrameRecord /\ b.vars = fr.vars /\ b.saved = fr.saved /\ SameParams(fr, b)
  BY <1>1, <1>2 DEF FrameRecord, SameParams
<1> QED
  BY <1>1, <1>3, RoKeptSame DEF Keeps, KeepsAll

LEMMA SavedSet ==
    ASSUME NEW fr \in FrameRecord, NEW s \in Stores, fr.saved # None => RoKept(fr.saved[1], s)
    PROVE  KeepsAll(fr, [fr EXCEPT !.saved = Some(s)])
<1>1. PICK b : b = [fr EXCEPT !.saved = Some(s)]
  OBVIOUS
<1>2. Some(s) \in Optional(Stores) /\ Some(s) # None /\ Some(s)[1] = s
  BY SomeIs
<1>3. b \in FrameRecord /\ b.vars = fr.vars /\ b.saved = Some(s) /\ SameParams(fr, b)
  BY <1>1, <1>2 DEF FrameRecord, SameParams
<1> QED
  BY <1>1, <1>2, <1>3, RoKeptSame DEF Keeps, KeepsAll

LEMMA EnvSet ==
    ASSUME NEW fr \in FrameRecord, NEW e \in Environments
    PROVE  KeepsAll(fr, [fr EXCEPT !.env = e])
<1>1. PICK b : b = [fr EXCEPT !.env = e]
  OBVIOUS
<1>2. b \in FrameRecord /\ b.vars = fr.vars /\ b.saved = fr.saved /\ SameParams(fr, b)
  BY <1>1 DEF FrameRecord, SameParams
<1> QED
  BY <1>1, <1>2, RoKeptSame DEF Keeps, KeepsAll

LEMMA FunsSet ==
    ASSUME NEW fr \in FrameRecord, NEW f \in FunStores
    PROVE  KeepsAll(fr, [fr EXCEPT !.funs = f])
<1>1. PICK b : b = [fr EXCEPT !.funs = f]
  OBVIOUS
<1>2. b \in FrameRecord /\ b.vars = fr.vars /\ b.saved = fr.saved /\ SameParams(fr, b)
  BY <1>1 DEF FrameRecord, SameParams
<1> QED
  BY <1>1, <1>2, RoKeptSame DEF Keeps, KeepsAll

LEMMA SetInIs ==
    ASSUME NEW s \in Stores, NEW n \in Names, NEW v \in Values
    PROVE  SetIn(s, n, v).fr \in Stores /\ RoKept(s, SetIn(s, n, v).fr)
<1>1. CASE IsReadOnly(s, n)
  BY <1>1, RoKeptSame DEF SetIn, Res
<1>2. CASE ~IsReadOnly(s, n)
  <2>1. PICK w : w = Var(v, n \in DOMAIN s /\ s[n].exp, FALSE)
    OBVIOUS
  <2>2. w \in Variable
    <3>1. s \in [DOMAIN s -> Variable]
      BY StoreIs
    <3>2. (n \in DOMAIN s /\ s[n].exp) \in BOOLEAN
      OBVIOUS
    <3> QED
      BY <2>1, <3>2 DEF Var, Variable
  <2>3. SetIn(s, n, v).fr = variable_store_add(s, n, w)
    BY <1>2, <2>1 DEF SetIn, Res
  <2> QED
    BY <2>2, <2>3, AddIs
<1> QED
  BY <1>1, <1>2

LEMMA SetVariableIs ==
    ASSUME NEW fr \in FrameRecord, NEW n \in Names, NEW v \in Values
    PROVE  KeepsAll(fr, frame_set_variable(fr, n, v).fr)
<1>1. CASE fr.locals # None
  <2>1. fr.locals[1] \in Stores
    BY <1>1, OptionalIs DEF FrameRecord
  <2>2. PICK s \in Stores : s = SetIn(fr.locals[1], n, v).fr
    BY <2>1, SetInIs
  <2>3. frame_set_variable(fr, n, v).fr = [fr EXCEPT !.locals = Some(s)]
    BY <1>1, <2>2 DEF frame_set_variable, Res
  <2> QED
    BY <2>3, LocalsSet
<1>2. CASE fr.locals = None
  <2>1. fr.vars \in Stores
    BY DEF FrameRecord
  <2>2. PICK s \in Stores : s = SetIn(fr.vars, n, v).fr /\ RoKept(fr.vars, s)
    BY <2>1, SetInIs
  <2>3. frame_set_variable(fr, n, v).fr = [fr EXCEPT !.vars = s]
    BY <1>2, <2>2 DEF frame_set_variable, Res
  <2> QED
    BY <2>2, <2>3, VarsSet
<1> QED
  BY <1>1, <1>2

LEMMA SetPersistentIs ==
    ASSUME NEW fr \in FrameRecord, NEW n \in Names, NEW v \in Values
    PROVE  KeepsAll(fr, frame_set_persistent_variable(fr, n, v).fr)
<1>1. CASE fr.saved # None
  <2>1. fr.saved[1] \in Stores
    BY <1>1, OptionalIs DEF FrameRecord
  <2>2. PICK s \in Stores : s = SetIn(fr.saved[1], n, v).fr /\ RoKept(fr.saved[1], s)
    BY <2>1, SetInIs
  <2>3. frame_set_persistent_variable(fr, n, v).fr = [fr EXCEPT !.saved = Some(s)]
    BY <1>1, <2>2 DEF frame_set_persistent_variable, Res
  <2> QED
    BY <2>2, <2>3, SavedSet
<1>2. CASE fr.saved = None
  <2>1. fr.vars \in Stores
    BY DEF FrameRecord
  <2>2. PICK s \in Stores : s = SetIn(fr.vars, n, v).fr /\ RoKept(fr.vars, s)
    BY <2>1, SetInIs
  <2>3. frame_set_persistent_variable(fr, n, v).fr = [fr EXCEPT !.vars = s]
    BY <1>2, <2>2 DEF frame_set_persistent_variable, Res
  <2> QED
    BY <2>2, <2>3, VarsSet
<1> QED
  BY <1>1, <1>2

\* A variable that is there and not read-only is given other attributes.
LEMMA AttributesSet ==
    ASSUME NEW fr \in FrameRecord, NEW n \in DOMAIN fr.vars, NEW w \in Variable,
           ~IsReadOnly(fr.vars, n) \/ w = fr.vars[n]
    PROVE  KeepsAll(fr, [fr EXCEPT !.vars = [@ EXCEPT ![n] = w]])
<1>1. fr.vars \in Stores
  BY DEF FrameRecord
<1>2. PICK s : s = [fr.vars EXCEPT ![n] = w]
  OBVIOUS
<1>3. DOMAIN fr.vars \subseteq Names /\ fr.vars \in [DOMAIN fr.vars -> Variable]
  BY <1>1, StoreIs
<1>4. s \in [DOMAIN fr.vars -> Variable] /\ DOMAIN fr.vars \in SUBSET Names
  BY <1>2, <1>3
<1>5. s \in Stores
  BY <1>4, IsStore
<1>6. RoKept(fr.vars, s)
  BY <1>2 DEF RoKept, IsReadOnly
<1>7. [fr EXCEPT !.vars = [@ EXCEPT ![n] = w]] = [fr EXCEPT !.vars = s]
  BY <1>2
<1> QED
  BY <1>5, <1>6, <1>7, VarsSet

LEMMA SetExportedIs ==
    ASSUME NEW fr \in FrameRecord, NEW n \in Names, NEW b \in BOOLEAN
    PROVE  KeepsAll(fr, frame_set_variable_exported(fr, n, b).fr)
<1>1. CASE n \notin DOMAIN fr.vars \/ fr.vars[n].ro
  BY <1>1, KeepsSame DEF frame_set_variable_exported, Res
<1>2. CASE n \in DOMAIN fr.vars /\ ~fr.vars[n].ro
  <2>1. fr.vars[n] \in Variable
    <3>1. fr.vars \in Stores
      BY DEF FrameRecord
    <3> QED
      BY <1>2, <3>1, StoreIs
  <2>2. PICK w : w = [fr.vars[n] EXCEPT !.exp = b]
    OBVIOUS
  <2>3. w \in Variable
    BY <2>1, <2>2 DEF Variable
  <2>4. frame_set_variable_exported(fr, n, b).fr = [fr EXCEPT !.vars = [@ EXCEPT ![n] = w]]
    BY <1>2, <2>2 DEF frame_set_variable_exported, Res
  <2> QED
    BY <1>2, <2>3, <2>4, AttributesSet DEF IsReadOnly
<1> QED
  BY <1>1, <1>2

LEMMA SetReadonlyIs ==
    ASSUME NEW fr \in FrameRecord, NEW n \in Names
    PROVE  KeepsAll(fr, frame_set_variable_readonly(fr, n).fr)
<1>1. CASE n \notin DOMAIN fr.vars
  BY <1>1, KeepsSame DEF frame_set_variable_readonly, Res
<1>2. CASE n \in DOMAIN fr.vars
  <2>1. fr.vars[n] \in Variable
    <3>1. fr.vars \in Stores
      BY DEF FrameRecord
    <3> QED
      BY <1>2, <3>1, StoreIs
  <2>2. PICK w : w = [fr.vars[n] EXCEPT !.ro = TRUE]
    OBVIOUS
  <2>3. w \in Variable /\ (IsReadOnly(fr.vars, n) => w = fr.vars[n])
    BY <2>1, <2>2 DEF Variable, IsReadOnly
  <2>4. frame_set_variable_readonly(fr, n).fr = [fr EXCEPT !.vars = [@ EXCEPT ![n] = w]]
    BY <1>2, <2>2 DEF frame_set_variable_readonly, Res
  <2> QED
    BY <1>2, <2>3, <2>4, AttributesSet
<1> QED
  BY <1>1, <1>2

LEMMA MarkExportedIs ==
    ASSUME NEW fr \in FrameRecord, NEW n \in Names
    PROVE  KeepsAll(fr, MarkExported(fr, n).fr)
<1>1. CASE n \notin DOMAIN fr.vars \/ IsReadOnly(fr.vars, n)
  BY <1>1, KeepsSame DEF MarkExported, Res
<1>2. CASE n \in DOMAIN fr.vars /\ ~IsReadOnly(fr.vars, n)
  <2>1. fr.vars[n] \in Variable /\ fr.vars[n].val \in Values
    <3>1. fr.vars \in Stores
      BY DEF FrameRecord
    <3>2. fr.vars[n] \in Variable
      BY <1>2, <3>1, StoreIs
    <3> QED
      BY <3>2 DEF Variable
  <2>2. PICK w : w = [fr.vars[n] EXCEPT !.exp = TRUE]
    OBVIOUS
  <2>3. w \in Variable
    BY <2>1, <2>2 DEF Variable
  <2>4. PICK a : a = [fr EXCEPT !.vars = [@ EXCEPT ![n] = w]]
    OBVIOUS
  <2>5. KeepsAll(fr, a)
    BY <1>2, <2>3, <2>4, AttributesSet
  <2>6. PICK e : e = With(fr.env, n, fr.vars[n].val)
    OBVIOUS
  <2>7. e \in Environments
    <3>1. PICK D \in SUBSET Names : fr.env \in [D -> Values]
      BY DEF FrameRecord, Environments
    <3>2. e \in [D \cup {n} -> Values]
      BY <2>1, <2>6, <3>1 DEF With
    <3>3. D \cup {n} \in SUBSET Names
      OBVIOUS
    <3> QED
      BY <3>2, <3>3 DEF Environments
  <2>8. KeepsAll(a, [a EXCEPT !.env = e])
    <3>1. a \in FrameRecord
      BY <2>5 DEF KeepsAll, Keeps
    <3> QED
      BY <2>7, <3>1, EnvSet
  <2>9. MarkExported(fr, n).fr = [a EXCEPT !.env = e]
    <3>1. MarkExported(fr, n).fr
             = [fr EXCEPT !.vars[n].exp = TRUE, !.env = With(@, n, fr.vars[n].val)]
      BY <1>2 DEF MarkExported, Res
    <3>2. [fr EXCEPT !.vars[n].exp = TRUE, !.env = With(@, n, fr.vars[n].val)]
             = [a EXCEPT !.env = e]
      BY <2>2, <2>4, <2>6 DEF FrameRecord
    <3> QED
      BY <3>1, <3>2
  <2> QED
    BY <2>5, <2>8, <2>9, KeepsChain
<1> QED
  BY <1>1, <1>2

LEMMA ExportVariableIs ==
    ASSUME NEW fr \in FrameRecord, NEW n \in Names, NEW v \in Optional(Values)
    PROVE  KeepsAll(fr, frame_export_variable(fr, n, v).fr)
<1> DEFINE Marked(s) == IF s.r = "OK" THEN MarkExported(s.fr, n) ELSE s
<1>1. ASSUME NEW s, KeepsAll(fr, s.fr) PROVE KeepsAll(fr, Marked(s).fr)
  <2>1. s.fr \in FrameRecord
    BY <1>1 DEF KeepsAll, Keeps
  <2>2. KeepsAll(s.fr, MarkExported(s.fr, n).fr)
    BY <2>1, MarkExportedIs
  <2>3. KeepsAll(fr, MarkExported(s.fr, n).fr)
    BY <1>1, <2>2, KeepsChain
  <2> QED
    BY <1>1, <2>3
<1>2. CASE v = None
  <2>1. CASE n \in DOMAIN fr.vars
    <3>1. frame_export_variable(fr, n, v) = MarkExported(fr, n)
      BY <1>2, <2>1 DEF frame_export_variable
    <3> QED
      BY <3>1, MarkExportedIs
  <2>2. CASE n \notin DOMAIN fr.vars
    <3>1. frame_export_variable(fr, n, v) = Marked(frame_set_variable(fr, n, Empty))
      BY <1>2, <2>2 DEF frame_export_variable
    <3>2. KeepsAll(fr, frame_set_variable(fr, n, Empty).fr)
      BY SetVariableIs, ScopeAssumption
    <3> HIDE DEF Marked
    <3> QED
      BY <1>1, <3>1, <3>2
  <2> QED
    BY <2>1, <2>2
<1>3. CASE v # None
  <2>1. v[1] \in Values
    BY <1>3, OptionalIs
  <2>2. CASE IsReadOnly(fr.vars, n) /\ fr.vars[n].val # v[1]
    BY <1>3, <2>2, KeepsSame DEF frame_export_variable, Res
  <2>3. CASE ~(IsReadOnly(fr.vars, n) /\ fr.vars[n].val # v[1])
    <3>1. frame_export_variable(fr, n, v) = Marked(frame_set_variable(fr, n, v[1]))
      BY <1>3, <2>3 DEF frame_export_variable
    <3>2. KeepsAll(fr, frame_set_variable(fr, n, v[1]).fr)
      BY <2>1, SetVariableIs
    <3> HIDE DEF Marked
    <3> QED
      BY <1>1, <3>1, <3>2
  <2> QED
    BY <2>2, <2>3
<1> QED
  BY <1>2, <1>3

LEMMA RemoveFromIs ==
    ASSUME NEW fr \in FrameRecord, NEW s \in Stores, NEW n \in Names
    PROVE  /\ RemoveFrom(fr, s, n).store \in Stores /\ RoKept(s, RemoveFrom(fr, s, n).store)
           /\ RemoveFrom(fr, s, n).env \in Environments
<1>0. fr.env \in Environments
  BY DEF FrameRecord
<1>1. CASE n \notin DOMAIN s \/ s[n].ro
  BY <1>0, <1>1, RoKeptSame DEF RemoveFrom
<1>2. CASE n \in DOMAIN s /\ ~s[n].ro
  <2>1. RemoveFrom(fr, s, n).store = variable_store_remove(s, n)
    BY <1>2 DEF RemoveFrom
  <2>2. /\ RemoveFrom(fr, s, n).store \in Stores
        /\ RoKept(s, RemoveFrom(fr, s, n).store)
    BY <1>2, <2>1, RemoveIs DEF IsReadOnly
  <2>3. [m \in DOMAIN fr.env \ {n} |-> fr.env[m]] \in Environments
    <3>1. PICK D \in SUBSET Names : fr.env \in [D -> Values]
      BY <1>0 DEF Environments
    <3>2. PICK e : e = [m \in DOMAIN fr.env \ {n} |-> fr.env[m]]
      OBVIOUS
    <3>3. e \in [D \ {n} -> Values] /\ D \ {n} \in SUBSET Names
      BY <3>1, <3>2
    <3> QED
      BY <3>2, <3>3 DEF Environments
  <2>4. \/ RemoveFrom(fr, s, n).env = fr.env
        \/ RemoveFrom(fr, s, n).env = [m \in DOMAIN fr.env \ {n} |-> fr.env[m]]
    BY <1>2 DEF RemoveFrom
  <2> QED
    BY <1>0, <2>2, <2>3, <2>4
<1> QED
  BY <1>1, <1>2

LEMMA UnsetVariableIs ==
    ASSUME NEW fr \in FrameRecord, NEW n \in Names
    PROVE  KeepsAll(fr, frame_unset_variable(fr, n).fr)
<1>1. CASE fr.locals # None
  <2>1. fr.locals[1] \in Stores
    BY <1>1, OptionalIs DEF FrameRecord
  <2>2. PICK s \in Stores, e \in Environments :
           s = RemoveFrom(fr, fr.locals[1], n).store /\ e = RemoveFrom(fr, fr.locals[1], n).env
    BY <2>1, RemoveFromIs
  <2>3. PICK a : a = [fr EXCEPT !.locals = Some(s)]
    OBVIOUS
  <2>4. KeepsAll(fr, a)
    BY <2>3, LocalsSet
  <2>5. KeepsAll(a, [a EXCEPT !.env = e])
    BY <2>4, EnvSet DEF KeepsAll, Keeps
  <2>6. frame_unset_variable(fr, n).fr = [a EXCEPT !.env = e]
    <3>1. frame_unset_variable(fr, n).fr = [fr EXCEPT !.locals = Some(s), !.env = e]
      BY <1>1, <2>2 DEF frame_unset_variable, Res
    <3> QED
      BY <2>3, <3>1 DEF FrameRecord
  <2> QED
    BY <2>4, <2>5, <2>6, KeepsChain
<1>2. CASE fr.locals = None
  <2>1. fr.vars \in Stores
    BY DEF FrameRecord
  <2>2. PICK s \in Stores, e \in Environments :
           /\ s = RemoveFrom(fr, fr.vars, n).store /\ e = RemoveFrom(fr, fr.vars, n).env
           /\ RoKept(fr.vars, s)
    BY <2>1, RemoveFromIs
  <2>3. PICK a : a = [fr EXCEPT !.vars = s]
    OBVIOUS
  <2>4. KeepsAll(fr, a)
    BY <2>2, <2>3, VarsSet
  <2>5. KeepsAll(a, [a EXCEPT !.env = e])
    BY <2>4, EnvSet DEF KeepsAll, Keeps
  <2>6. frame_unset_variable(fr, n).fr = [a EXCEPT !.env = e]
    <3>1. frame_unset_variable(fr, n).fr = [fr EXCEPT !.vars = s, !.env = e]
      BY <1>2, <2>2 DEF frame_unset_variable, Res
    <3> QED
      BY <2>3, <3>1 DEF FrameRecord
  <2> QED
    BY <2>4, <2>5, <2>6, KeepsChain
<1> QED
  BY <1>1, <1>2

-----------------------------------------------------------------------------
(* Positional parameters.                                                  *)

\* The parameters are those that were given without the first ones that are gone.
Params(pos, given, gone) ==
    IF Len(given) > MaxParams THEN pos = None ELSE pos = Some(SubSeq(given, gone + 1, Len(given)))

\* What every builtin keeps, set and shift included.
KeepsRight(a, b) ==
    Keeps(a, b) /\ (Params(a.pos, a.given, a.gone) => Params(b.pos, b.given, b.gone))

LEMMA KeepsAllIsRight ==
    ASSUME NEW a, NEW b, KeepsAll(a, b)
    PROVE  KeepsRight(a, b)
BY DEF KeepsAll, KeepsRight, SameParams

LEMMA SubSeqTwice ==
    ASSUME NEW S, NEW s \in Seq(S), NEW g \in Nat, NEW n \in Nat,
           n <= Len(SubSeq(s, g + 1, Len(s)))
    PROVE  /\ SubSeq(s, g + 1, Len(s)) \in Seq(S)
           /\ SubSeq(SubSeq(s, g + 1, Len(s)), n + 1, Len(SubSeq(s, g + 1, Len(s))))
                = SubSeq(s, g + n + 1, Len(s))
<1>1. PICK l \in Nat : l = Len(s)
  OBVIOUS
<1>2. \A i \in 1 .. l : s[i] \in S
  BY <1>1, ElementOfSeq
<1>3. PICK t : t = SubSeq(s, g + 1, l)
  OBVIOUS
<1>4. /\ t \in Seq(S) /\ Len(t) = IF g + 1 <= l THEN l - g ELSE 0
      /\ \A i \in 1 .. l - g : t[i] = s[g + i]
  <2>1. \A i \in g + 1 .. l : s[i] \in S
    BY <1>2
  <2>2. /\ t \in Seq(S) /\ Len(t) = IF g + 1 <= l THEN l - (g + 1) + 1 ELSE 0
        /\ \A i \in 1 .. l - (g + 1) + 1 : t[i] = s[g + 1 + i - 1]
    BY <1>3, <2>1, SubSeqProperties
  <2>3. l - (g + 1) + 1 = l - g /\ \A i \in 1 .. l - g : g + 1 + i - 1 = g + i
    OBVIOUS
  <2> QED
    BY <2>2, <2>3
<1>5. PICK m \in Nat : m = Len(t)
  <2>1. t \in Seq(S)
    BY <1>4
  <2>2. Len(t) \in Nat
    BY <2>1, LenProperties
  <2> QED
    BY <2>2
<1>6. n <= m
  BY <1>1, <1>3, <1>5
<1>7. PICK u : u = SubSeq(t, n + 1, m)
  OBVIOUS
<1>8. /\ u \in Seq(S) /\ Len(u) = IF n + 1 <= m THEN m - n ELSE 0
      /\ \A i \in 1 .. m - n : u[i] = t[n + i]
  <2>1. \A i \in n + 1 .. m : t[i] \in S
    <3>1. \A i \in 1 .. Len(t) : t[i] \in S
      BY <1>4, ElementOfSeq
    <3> QED
      BY <1>5, <3>1
  <2>2. /\ u \in Seq(S) /\ Len(u) = IF n + 1 <= m THEN m - (n + 1) + 1 ELSE 0
        /\ \A i \in 1 .. m - (n + 1) + 1 : u[i] = t[n + 1 + i - 1]
    BY <1>7, <2>1, SubSeqProperties
  <2>3. m - (n + 1) + 1 = m - n /\ \A i \in 1 .. m - n : n + 1 + i - 1 = n + i
    OBVIOUS
  <2> QED
    BY <2>2, <2>3
<1>9. PICK w : w = SubSeq(s, g + n + 1, l)
  OBVIOUS
<1>10. /\ w \in Seq(S) /\ Len(w) = IF g + n + 1 <= l THEN l - g - n ELSE 0
       /\ \A i \in 1 .. l - g - n : w[i] = s[g + n + i]
  <2>0. PICK h \in Nat : h = g + n
    OBVIOUS
  <2>1. w = SubSeq(s, h + 1, l) /\ \A i \in h + 1 .. l : s[i] \in S
    BY <1>2, <1>9, <2>0
  <2>2. /\ w \in Seq(S) /\ Len(w) = IF h + 1 <= l THEN l - (h + 1) + 1 ELSE 0
        /\ \A i \in 1 .. l - (h + 1) + 1 : w[i] = s[h + 1 + i - 1]
    BY SMTT(30), <2>1, SubSeqProperties
  <2>3. l - (h + 1) + 1 = l - g - n /\ \A i \in 1 .. l - g - n : h + 1 + i - 1 = g + n + i
    BY <2>0
  <2> QED
    BY <2>0, <2>2, <2>3
<1>11. Len(u) = Len(w)
  BY <1>4, <1>5, <1>6, <1>8, <1>10
<1>12. ASSUME NEW i \in 1 .. Len(u) PROVE u[i] = w[i]
  <2>1. i \in 1 .. m - n /\ i \in 1 .. l - g - n /\ n + i \in 1 .. l - g
    BY <1>4, <1>5, <1>6, <1>8
  <2>2. u[i] = t[n + i] /\ t[n + i] = s[g + (n + i)] /\ w[i] = s[g + n + i]
    BY <1>4, <1>8, <1>10, <2>1
  <2>3. g + (n + i) = g + n + i
    BY <2>1
  <2> QED
    BY <2>2, <2>3
<1>13. u = w
  BY <1>8, <1>10, <1>11, <1>12, SeqEqual
<1> QED
  BY <1>1, <1>3, <1>4, <1>5, <1>7, <1>9, <1>13

-----------------------------------------------------------------------------
(* The builtins.                                                           *)

LEMMA BuiltinSetIs ==
    ASSUME NEW fr \in FrameRecord, NEW args \in Arguments
    PROVE  KeepsRight(fr, builtin_set(fr, args).fr)
<1>1. CASE fr.pos = None \/ Len(args) > MaxParams
  <2>1. builtin_set(fr, args).fr = fr
    BY <1>1 DEF builtin_set, frame_replace_positional_params, Res
  <2> QED
    BY <2>1, KeepsSame, KeepsAllIsRight
<1>2. CASE ~(fr.pos = None \/ Len(args) > MaxParams)
  <2>1. PICK b : b = [fr EXCEPT !.pos = Some(args), !.given = args, !.gone = 0]
    OBVIOUS
  <2>2. builtin_set(fr, args).fr = b
    BY <1>2, <2>1 DEF builtin_set, frame_replace_positional_params, Res
  <2>3. args \in Seq(Words) /\ Some(args) \in Optional(Seq(Words))
    BY ArgumentsAreWords, SomeIs
  <2>4. /\ b \in FrameRecord /\ b.vars = fr.vars /\ b.saved = fr.saved
        /\ b.pos = Some(args) /\ b.given = args /\ b.gone = 0
    BY <2>1, <2>3 DEF FrameRecord
  <2>5. Params(b.pos, b.given, b.gone)
    <3>1. SubSeq(args, 1, Len(args)) = args
      BY <2>3, SubSeqFull
    <3>2. 0 + 1 = 1
      OBVIOUS
    <3>3. Params(Some(args), args, 0)
      BY <1>2, <3>1, <3>2 DEF Params
    <3> QED
      BY <2>4, <3>3
  <2>6. Keeps(fr, b)
    BY <2>4, RoKeptSame DEF Keeps
  <2> QED
    BY <2>2, <2>5, <2>6 DEF KeepsRight
<1> QED
  BY <1>1, <1>2

LEMMA BuiltinShiftIs ==
    ASSUME NEW fr \in FrameRecord, NEW count \in Optional(Int)
    PROVE  KeepsRight(fr, builtin_shift(fr, count).fr)
<1>1. PICK n \in Int : n = IF count = None THEN 1 ELSE count[1]
  BY OptionalIs
<1>2. CASE fr.pos = None \/ n < 0 \/ n > Len(fr.pos[1])
  <2>1. builtin_shift(fr, count).fr = fr
    BY <1>1, <1>2 DEF builtin_shift, Res
  <2> QED
    BY <2>1, KeepsSame, KeepsAllIsRight
<1>3. CASE fr.pos # None /\ ~(n < 0) /\ ~(n > Len(fr.pos[1]))
  <2>1. PICK t : t = fr.pos[1]
    OBVIOUS
  <2>2. t \in Seq(Words)
    BY <1>3, <2>1, OptionalIs DEF FrameRecord
  <2>3. PICK l \in Nat : l = Len(t)
    BY <2>2
  <2>4. n \in Nat /\ n <= l
    BY <1>1, <1>3, <2>1, <2>3
  <2>5. PICK u : u = SubSeq(t, n + 1, l)
    OBVIOUS
  <2>6. u \in Seq(Words)
    <3>1. \A i \in n + 1 .. l : t[i] \in Words
      BY <2>2, <2>3, <2>4, ElementOfSeq
    <3> QED
      BY <2>4, <2>5, <3>1, SubSeqProperties
  <2>7. PICK b : b = [fr EXCEPT !.pos = Some(u), !.gone = @ + n]
    OBVIOUS
  <2>8. builtin_shift(fr, count).fr = b
    BY <1>1, <1>3, <2>1, <2>3, <2>5, <2>7 DEF builtin_shift, positional_params_shift, Res
  <2>9. Some(u) \in Optional(Seq(Words))
    BY <2>6, SomeIs
  <2>0. PICK k \in Nat : k = fr.gone + n
    BY <2>4 DEF FrameRecord
  <2>10. /\ b \in FrameRecord /\ b.vars = fr.vars /\ b.saved = fr.saved
         /\ b.pos = Some(u) /\ b.given = fr.given /\ b.gone = fr.gone + n
    BY <2>0, <2>7, <2>9 DEF FrameRecord
  <2>11. ASSUME Params(fr.pos, fr.given, fr.gone) PROVE Params(b.pos, b.given, b.gone)
    <3>1. PICK s \in Seq(Words), g \in Nat : s = fr.given /\ g = fr.gone
      BY DEF FrameRecord
    <3>2. ~(Len(s) > MaxParams) /\ fr.pos = Some(SubSeq(s, g + 1, Len(s)))
      BY <1>3, <2>11, <3>1 DEF Params
    <3>3. t = SubSeq(s, g + 1, Len(s))
      BY <2>1, <3>2 DEF Some
    <3>4. u = SubSeq(s, g + n + 1, Len(s))
      BY <2>3, <2>4, <2>5, <3>3, SubSeqTwice
    <3> QED
      BY <2>10, <3>1, <3>2, <3>4 DEF Params
  <2>12. Keeps(fr, b)
    BY <2>10, RoKeptSame DEF Keeps
  <2> QED
    BY <2>8, <2>11, <2>12 DEF KeepsRight
<1> QED
  BY <1>2, <1>3

LEMMA BuiltinReadonlyIs ==
    ASSUME NEW fr \in FrameRecord, NEW n \in Names, NEW v \in Optional(Values)
    PROVE  KeepsAll(fr, builtin_readonly(fr, n, v).fr)
<1> DEFINE Marked(s) == IF s.r = "OK" THEN Exit(frame_set_variable_readonly(s.fr, n)) ELSE Res(fr, 1)
<1>1. ASSUME NEW s, KeepsAll(fr, s.fr) PROVE KeepsAll(fr, Marked(s).fr)
  <2>1. s.fr \in FrameRecord
    BY <1>1 DEF KeepsAll, Keeps
  <2>2. KeepsAll(fr, frame_set_variable_readonly(s.fr, n).fr)
    BY <1>1, <2>1, SetReadonlyIs, KeepsChain
  <2>3. Marked(s).fr = frame_set_variable_readonly(s.fr, n).fr \/ Marked(s).fr = fr
    BY DEF Exit, Res
  <2> QED
    BY <2>2, <2>3, KeepsSame
<1>2. CASE v # None /\ IsReadOnly(fr.vars, n)
  BY <1>2, KeepsSame DEF builtin_readonly, Res
<1>3. CASE v # None /\ ~IsReadOnly(fr.vars, n)
  <2>1. builtin_readonly(fr, n, v) = Marked(frame_set_variable(fr, n, v[1]))
    BY <1>3 DEF builtin_readonly
  <2>2. KeepsAll(fr, frame_set_variable(fr, n, v[1]).fr)
    BY <1>3, OptionalIs, SetVariableIs
  <2> HIDE DEF Marked
  <2> QED
    BY <1>1, <2>1, <2>2
<1>4. CASE v = None /\ frame_has_variable(fr, n)
  <2>1. builtin_readonly(fr, n, v).fr = frame_set_variable_readonly(fr, n).fr
    BY <1>4 DEF builtin_readonly, Exit, Res
  <2> QED
    BY <2>1, SetReadonlyIs
<1>5. CASE v = None /\ ~frame_has_variable(fr, n)
  <2>1. builtin_readonly(fr, n, v) = Marked(frame_set_variable(fr, n, Empty))
    BY <1>5 DEF builtin_readonly
  <2>2. KeepsAll(fr, frame_set_variable(fr, n, Empty).fr)
    BY SetVariableIs, ScopeAssumption
  <2> HIDE DEF Marked
  <2> QED
    BY <1>1, <2>1, <2>2
<1> QED
  BY <1>2, <1>3, <1>4, <1>5

LEMMA UnsetFunctionIs ==
    ASSUME NEW fr \in FrameRecord, NEW f \in Functions
    PROVE  KeepsAll(fr, builtin_unset_f(fr, f).fr)
<1>1. CASE f \in DOMAIN fr.funs
  <2>1. PICK g : g = func_store_remove(fr.funs, f)
    OBVIOUS
  <2>2. g \in FunStores
    <3>1. PICK D \in SUBSET Functions : fr.funs \in [D -> Bodies]
      BY DEF FrameRecord, FunStores
    <3>2. g \in [D \ {f} -> Bodies] /\ D \ {f} \in SUBSET Functions
      BY <2>1, <3>1 DEF func_store_remove
    <3> QED
      BY <3>2 DEF FunStores
  <2>3. builtin_unset_f(fr, f).fr = [fr EXCEPT !.funs = g]
    BY <1>1, <2>1 DEF builtin_unset_f, frame_unset_function, Exit, Res
  <2> QED
    BY <2>2, <2>3, FunsSet
<1>2. CASE f \notin DOMAIN fr.funs
  BY <1>2, KeepsSame DEF builtin_unset_f, frame_unset_function, Exit, Res
<1> QED
  BY <1>1, <1>2

LEMMA BuiltinsKeep ==
    ASSUME NEW fr \in FrameRecord, NEW n \in Names
    PROVE  /\ \A v \in Optional(Values) : KeepsAll(fr, builtin_export(fr, n, v).fr)
           /\ KeepsAll(fr, builtin_unset(fr, n).fr)
           /\ \A v \in Values : /\ KeepsAll(fr, builtin_getopts(fr, n, v).fr)
                                /\ KeepsAll(fr, builtin_miga_dirnamevar(fr, n, v).fr)
<1>1. ASSUME NEW v \in Optional(Values) PROVE KeepsAll(fr, builtin_export(fr, n, v).fr)
  BY ExportVariableIs DEF builtin_export, Exit, Res
<1>2. KeepsAll(fr, builtin_unset(fr, n).fr)
  BY KeepsSame, UnsetVariableIs DEF builtin_unset, Res
<1>3. ASSUME NEW v \in Values PROVE KeepsAll(fr, builtin_getopts(fr, n, v).fr)
  BY SetVariableIs DEF builtin_getopts, Res
<1>4. ASSUME NEW v \in Values PROVE KeepsAll(fr, builtin_miga_dirnamevar(fr, n, v).fr)
  BY SetPersistentIs DEF builtin_miga_dirnamevar, Res
<1> QED
  BY <1>1, <1>2, <1>3, <1>4

-----------------------------------------------------------------------------
(* The inductive invariant.  Every level has an owner of its parameters,   *)
(* which the main program is for want of another; only the owner has any.  *)

Kinds == {"main", "function", "eval"}
LevelRecord == [kind : Kinds, fun : Functions \cup {""}, shared : BOOLEAN,
                locals : Optional(Stores), vars : Stores, pos : Optional(Seq(Words)),
                given : Seq(Words), gone : Nat]

IsOwner(ls, i, k) == /\ k \in 1 .. i /\ ls[k].kind # "eval"
                     /\ \A j \in k + 1 .. i : ls[j].kind = "eval"

ParamsOf(l) == IF l.kind = "eval" THEN l.pos = None ELSE Params(l.pos, l.given, l.gone)

LevelsOK(ls) ==
    /\ ls \in Seq(LevelRecord) /\ Len(ls) \in 1 .. MaxDepth
    /\ \A i \in 1 .. Len(ls) : \E k \in 1 .. i : IsOwner(ls, i, k)
    /\ \A i \in 1 .. Len(ls) : ParamsOf(ls[i])
    /\ \A i \in 1 .. Len(ls) : \A j \in i .. Len(ls) : RoKept(ls[i].vars, ls[j].vars)

IInv ==
    /\ LevelsOK(levels)
    /\ environ \in Environments /\ functions \in FunStores
    /\ ChildEnvironment

\* What the two action properties say of one step.
Untouched ==
    \A i \in 1 .. Top - 1 :
        i <= Len(levels') =>
            /\ levels'[i].locals = levels[i].locals
            /\ levels'[i].pos = levels[i].pos \/ (i = Owner(Top) /\ Len(levels') = Top)
RoForGood ==
    \A i \in 1 .. Top : i <= Len(levels') => RoKept(levels[i].vars, levels'[i].vars)
Good == IInv' /\ Untouched /\ RoForGood

LEMMA TopIs ==
    ASSUME IInv
    PROVE  /\ levels \in Seq(LevelRecord) /\ Top \in Nat \ {0} /\ Top \in 1 .. Top /\ Top <= MaxDepth
           /\ MaxDepth \in Nat /\ Level = levels[Top] /\ Level \in LevelRecord
           /\ \A i \in 1 .. Top : levels[i] \in LevelRecord
<1>1. levels \in Seq(LevelRecord) /\ Len(levels) \in 1 .. MaxDepth /\ MaxDepth \in Nat
  BY ScopeAssumption DEF IInv, LevelsOK
<1>2. \A i \in 1 .. Len(levels) : levels[i] \in LevelRecord
  BY <1>1, ElementOfSeq
<1>3. Top \in Nat \ {0} /\ Top \in 1 .. Top /\ Top <= MaxDepth
  BY <1>1 DEF Top
<1> QED
  BY <1>1, <1>2, <1>3 DEF Top, Level

LEMMA OwnerIs ==
    ASSUME IInv, NEW i \in 1 .. Top
    PROVE  Owner(i) \in 1 .. i /\ IsOwner(levels, i, Owner(i))
<1>1. \E k \in 1 .. i : levels[k].kind # "eval" /\ \A j \in k + 1 .. i : levels[j].kind = "eval"
  BY DEF IInv, LevelsOK, IsOwner, Top
<1>2. Owner(i) = CHOOSE k \in 1 .. i : levels[k].kind # "eval" /\ \A j \in k + 1 .. i : levels[j].kind = "eval"
  BY DEF Owner
<1> QED
  BY <1>1, <1>2 DEF IsOwner

LEMMA FrameIs ==
    ASSUME IInv, NEW store \in Stores, NEW saved \in Optional(Stores)
    PROVE  /\ Frame(store, saved) \in FrameRecord
           /\ Frame(store, saved).vars = store /\ Frame(store, saved).saved = saved
           /\ Frame(store, saved).locals = Level.locals
           /\ Params(Frame(store, saved).pos, Frame(store, saved).given, Frame(store, saved).gone)
<1>1. PICK o : o = levels[Owner(Top)]
  OBVIOUS
<1>2. Owner(Top) \in 1 .. Top /\ o.kind # "eval"
  BY <1>1, TopIs, OwnerIs DEF IsOwner
<1>3. o \in LevelRecord /\ Level \in LevelRecord
  BY <1>1, <1>2, TopIs
<1>4. Params(o.pos, o.given, o.gone)
  <2>1. ParamsOf(o)
    BY <1>1, <1>2 DEF IInv, LevelsOK, Top
  <2> QED
    BY <1>2, <2>1 DEF ParamsOf
<1>5. PICK fr : fr = Frame(store, saved)
  OBVIOUS
<1>6. fr = [vars |-> store, saved |-> saved, locals |-> Level.locals, env |-> environ,
            pos |-> o.pos, given |-> o.given, gone |-> o.gone, funs |-> functions]
  BY <1>1, <1>5 DEF Frame
<1>7. /\ Level.locals \in Optional(Stores) /\ o.pos \in Optional(Seq(Words))
      /\ o.given \in Seq(Words) /\ o.gone \in Nat
  BY <1>3 DEF LevelRecord
<1>8. environ \in Environments /\ functions \in FunStores
  BY DEF IInv
<1>9. fr \in FrameRecord
  BY <1>6, <1>7, <1>8 DEF FrameRecord
<1> QED
  BY <1>4, <1>5, <1>6, <1>9

LEMMA AssignmentsArePrefixes ==
    ASSUME NEW prefix \in Assignments
    PROVE  prefix \in Prefixes
BY ScopeAssumption DEF Prefixes

\* The frame of a command that is about to run, for a builtin and for a call.
Ran(fr) ==
    /\ fr \in FrameRecord /\ fr.saved # None
    /\ RoKept(Level.vars, fr.saved[1])
    /\ Params(fr.pos, fr.given, fr.gone)

LEMMA ApplyIs ==
    ASSUME NEW fr \in FrameRecord, fr.saved # None, NEW prefix \in Prefixes,
           RoKept(fr.saved[1], fr.vars)
    PROVE  \E b : /\ apply_prefix_assignments(fr, prefix).fr = b
                  /\ b \in FrameRecord /\ b.saved # None /\ SameParams(fr, b)
                  /\ RoKept(fr.saved[1], b.saved[1]) /\ RoKept(b.saved[1], b.vars)
<1> DEFINE refused == {i \in DOMAIN prefix : IsReadOnly(fr.vars, prefix[i].name)}
           first == CHOOSE i \in refused : \A j \in refused : i <= j
           done == IF refused = {} THEN prefix ELSE SubSeq(prefix, 1, first - 1)
<1>1. done \in Prefixes
  <2>1. CASE refused = {}
    BY <2>1
  <2>2. CASE refused # {}
    <3>1. prefix \in Seq([name : Names, val : Values])
      BY DEF Prefixes
    <3>2. DOMAIN prefix = 1 .. Len(prefix) /\ Len(prefix) \in Nat
      BY <3>1
    <3>3. refused \in SUBSET (1 .. Len(prefix)) /\ refused \in SUBSET Nat
      BY <3>2
    <3> HIDE DEF refused
    <3>4. \E i \in refused : \A j \in refused : i <= j
      BY <2>2, <3>3, Least
    <3>5. first \in refused
      BY <3>4
    <3>6. first \in 1 .. Len(prefix)
      BY <3>3, <3>5
    <3> HIDE DEF first
    <3>7. PICK k \in Int : k = first - 1 /\ k <= Len(prefix)
      BY <3>2, <3>6
    <3>8. \A i \in 1 .. k : prefix[i] \in [name : Names, val : Values]
      <4>1. \A i \in 1 .. Len(prefix) : prefix[i] \in [name : Names, val : Values]
        BY <3>1, ElementOfSeq
      <4> QED
        BY <3>2, <3>7, <4>1
    <3>9. SubSeq(prefix, 1, k) \in Seq([name : Names, val : Values])
      BY <3>8, SubSeqProperties
    <3> QED
      BY <2>2, <3>7, <3>9 DEF Prefixes
  <2> QED
    BY <2>1, <2>2
<1>2. PICK d \in Prefixes : d = done
  <2> HIDE DEF done
  <2> QED
    BY <1>1
<1>3. PICK b : b = [fr EXCEPT !.vars = AddAll(fr.vars, d, FALSE),
                              !.saved = Some(AddAll(fr.saved[1], d, FALSE))]
  OBVIOUS
<1>4. apply_prefix_assignments(fr, prefix).fr = b
  <2>1. apply_prefix_assignments(fr, prefix).fr
           = [fr EXCEPT !.vars = AddAll(@, done, FALSE), !.saved = Some(AddAll(@[1], done, FALSE))]
    BY DEF apply_prefix_assignments, Res
  <2> HIDE DEF done
  <2> QED
    BY <1>2, <1>3, <2>1
<1> HIDE DEF done
<1>5. fr.vars \in Stores /\ fr.saved[1] \in Stores
  BY OptionalIs DEF FrameRecord
<1>6. PICK s \in Stores : /\ s = AddAll(fr.saved[1], d, FALSE)
                          /\ RoKept(fr.saved[1], s) /\ RoKept(s, fr.saved[1])
  BY <1>5, AddAllKeeps
<1>7. PICK t \in Stores : t = AddAll(fr.vars, d, FALSE) /\ RoKept(fr.vars, t)
  BY <1>5, AddAllKeeps
<1>8. RoKept(s, t)
  BY <1>6, <1>7, RoKeptChain
<1>9. Some(s) \in Optional(Stores) /\ Some(s) # None /\ Some(s)[1] = s
  BY SomeIs
<1>10. b = [fr EXCEPT !.vars = t, !.saved = Some(s)]
  BY <1>3, <1>6, <1>7
<1>11. b \in FrameRecord /\ b.vars = t /\ b.saved = Some(s) /\ SameParams(fr, b)
  BY <1>9, <1>10 DEF FrameRecord, SameParams
<1> QED
  BY <1>4, <1>6, <1>8, <1>9, <1>11

LEMMA PreparedIs ==
    ASSUME IInv, NEW name, NEW prefix \in Assignments
    PROVE  Ran(Prepared(name, prefix).fr)
           /\ RoKept(Prepared(name, prefix).fr.saved[1], Prepared(name, prefix).fr.vars)
<1>1. prefix \in Prefixes
  BY AssignmentsArePrefixes
<1>2. PICK s \in Stores : s = Level.vars
  BY TopIs DEF LevelRecord
<1>3. PICK t \in Stores : t = build_temp_store(s, prefix) /\ RoKept(s, t)
  BY <1>1, AddAllKeeps DEF build_temp_store
<1>4. Some(s) \in Optional(Stores) /\ Some(s) # None /\ Some(s)[1] = s
  BY SomeIs
<1>5. PICK fr : fr = Frame(t, Some(s))
  OBVIOUS
<1>6. /\ fr \in FrameRecord /\ fr.vars = t /\ fr.saved = Some(s)
      /\ Params(fr.pos, fr.given, fr.gone)
  BY <1>4, <1>5, FrameIs
<1>7. Prepared(name, prefix) = IF name \in Specials THEN apply_prefix_assignments(fr, prefix)
                               ELSE Res(fr, "OK")
  BY <1>2, <1>3, <1>5 DEF Prepared
<1>8. CASE name \in Specials
  <2>1. fr.saved # None /\ RoKept(fr.saved[1], fr.vars)
    BY <1>3, <1>4, <1>6
  <2>2. PICK b : /\ apply_prefix_assignments(fr, prefix).fr = b
                 /\ b \in FrameRecord /\ b.saved # None /\ SameParams(fr, b)
                 /\ RoKept(fr.saved[1], b.saved[1]) /\ RoKept(b.saved[1], b.vars)
    BY <1>1, <1>6, <2>1, ApplyIs
  <2>3. Params(b.pos, b.given, b.gone)
    BY <1>6, <2>2 DEF SameParams
  <2>4. RoKept(Level.vars, b.saved[1])
    BY <1>2, <1>4, <1>6, <2>2
  <2> QED
    BY <1>7, <1>8, <2>2, <2>3, <2>4 DEF Ran
<1>9. CASE name \notin Specials
  <2>1. Prepared(name, prefix).fr = fr
    BY <1>7, <1>9 DEF Res
  <2>2. RoKept(Level.vars, fr.saved[1]) /\ RoKept(fr.saved[1], fr.vars)
    BY <1>2, <1>3, <1>4, <1>6, RoKeptSame
  <2> QED
    BY <1>4, <1>6, <2>1, <2>2 DEF Ran
<1> QED
  BY <1>8, <1>9

-----------------------------------------------------------------------------
(* Levels.                                                                 *)

\* The innermost level changes its variables, others at most their parameters.
LEMMA LevelsChanged ==
    ASSUME NEW ls, LevelsOK(ls), NEW ms \in Seq(LevelRecord), Len(ms) = Len(ls),
           \A i \in 1 .. Len(ls) : ms[i].kind = ls[i].kind /\ ParamsOf(ms[i]),
           \A i \in 1 .. Len(ls) : i # Len(ls) => ms[i].vars = ls[i].vars,
           RoKept(ls[Len(ls)].vars, ms[Len(ls)].vars)
    PROVE  LevelsOK(ms)
<1>1. PICK n \in Nat : n = Len(ls) /\ n \in 1 .. MaxDepth
  BY ScopeAssumption DEF LevelsOK
<1>2. ASSUME NEW i \in 1 .. n PROVE \E k \in 1 .. i : IsOwner(ms, i, k)
  <2>1. PICK k \in 1 .. i : IsOwner(ls, i, k)
    BY <1>1 DEF LevelsOK
  <2>2. IsOwner(ms, i, k)
    BY <1>1, <2>1 DEF IsOwner
  <2> QED
    BY <2>2
<1>3. ASSUME NEW i \in 1 .. n, NEW j \in i .. n PROVE RoKept(ms[i].vars, ms[j].vars)
  <2>1. RoKept(ls[i].vars, ls[j].vars) /\ i \in 1 .. n /\ j \in 1 .. n
    BY <1>1 DEF LevelsOK
  <2>2. CASE j # n
    BY <1>1, <2>1, <2>2
  <2>3. CASE j = n /\ i # n
    <3>1. RoKept(ls[i].vars, ms[j].vars)
      BY <1>1, <2>1, <2>3, RoKeptChain
    <3> QED
      BY <1>1, <2>3, <3>1
  <2>4. CASE j = n /\ i = n
    BY <2>4, RoKeptSame
  <2> QED
    BY <2>2, <2>3, <2>4
<1> QED
  BY <1>1, <1>2, <1>3 DEF LevelsOK

LEMMA LevelPushed ==
    ASSUME NEW ls, LevelsOK(ls), Len(ls) < MaxDepth, NEW l \in LevelRecord, ParamsOf(l),
           RoKept(ls[Len(ls)].vars, l.vars)
    PROVE  /\ LevelsOK(Append(ls, l)) /\ Len(Append(ls, l)) = Len(ls) + 1
           /\ \A i \in 1 .. Len(ls) : Append(ls, l)[i] = ls[i]
<1>1. PICK n \in Nat : n = Len(ls) /\ n \in 1 .. MaxDepth /\ MaxDepth \in Nat
  BY ScopeAssumption DEF LevelsOK
<1>2. ls \in Seq(LevelRecord)
  BY DEF LevelsOK
<1>3. PICK ms : ms = Append(ls, l)
  OBVIOUS
<1>4. /\ ms \in Seq(LevelRecord) /\ Len(ms) = n + 1 /\ ms[n + 1] = l
      /\ \A i \in 1 .. n : ms[i] = ls[i]
  BY <1>1, <1>2, <1>3
<1>5. \A i \in 1 .. n + 1 : i = n + 1 \/ i \in 1 .. n
  BY <1>1
<1>6. ASSUME NEW i \in 1 .. n + 1 PROVE \E k \in 1 .. i : IsOwner(ms, i, k)
  <2>1. CASE i \in 1 .. n
    <3>1. PICK k \in 1 .. i : IsOwner(ls, i, k)
      BY <1>1, <2>1 DEF LevelsOK
    <3>2. IsOwner(ms, i, k)
      BY <1>4, <2>1, <3>1 DEF IsOwner
    <3> QED
      BY <3>2
  <2>2. CASE i = n + 1 /\ l.kind # "eval"
    <3>1. IsOwner(ms, i, i) /\ i \in 1 .. i
      BY <1>1, <1>4, <2>2 DEF IsOwner
    <3> QED
      BY <3>1
  <2>3. CASE i = n + 1 /\ l.kind = "eval"
    <3>1. n \in 1 .. n
      BY <1>1
    <3>2. PICK k \in 1 .. n : IsOwner(ls, n, k)
      BY <1>1, <3>1 DEF LevelsOK
    <3>3. k \in 1 .. i /\ \A j \in k + 1 .. i : j = n + 1 \/ j \in k + 1 .. n
      BY <1>1, <2>3
    <3>4. IsOwner(ms, i, k)
      BY <1>4, <2>3, <3>2, <3>3 DEF IsOwner
    <3> QED
      BY <3>3, <3>4
  <2> QED
    BY <1>5, <2>1, <2>2, <2>3
<1>7. ASSUME NEW i \in 1 .. n + 1, NEW j \in i .. n + 1 PROVE RoKept(ms[i].vars, ms[j].vars)
  <2>1. CASE j \in 1 .. n
    <3>1. i \in 1 .. n /\ j \in i .. n
      BY <2>1
    <3> QED
      BY <1>1, <1>4, <3>1 DEF LevelsOK
  <2>2. CASE j = n + 1 /\ i \in 1 .. n
    <3>1. n \in i .. n
      BY <2>2
    <3>2. RoKept(ls[i].vars, ls[n].vars)
      BY <1>1, <2>2, <3>1 DEF LevelsOK
    <3>3. RoKept(ls[i].vars, l.vars)
      BY <1>1, <3>2, RoKeptChain
    <3> QED
      BY <1>4, <2>2, <3>3
  <2>3. CASE i = n + 1 /\ j = n + 1
    BY <2>3, RoKeptSame
  <2> QED
    BY <1>5, <2>1, <2>2, <2>3
<1>8. \A i \in 1 .. n + 1 : ParamsOf(ms[i])
  BY <1>1, <1>4, <1>5 DEF LevelsOK
<1>9. Len(ms) \in 1 .. MaxDepth
  BY <1>1, <1>4
<1>10. LevelsOK(ms)
  BY <1>4, <1>6, <1>7, <1>8, <1>9 DEF LevelsOK
<1> QED
  BY <1>1, <1>3, <1>4, <1>10

LEMMA LevelPopped ==
    ASSUME NEW ls, LevelsOK(ls), Len(ls) > 1
    PROVE  /\ LevelsOK(SubSeq(ls, 1, Len(ls) - 1))
           /\ Len(SubSeq(ls, 1, Len(ls) - 1)) = Len(ls) - 1
           /\ \A i \in 1 .. Len(ls) - 1 : SubSeq(ls, 1, Len(ls) - 1)[i] = ls[i]
<1>1. PICK n \in Nat : n = Len(ls) /\ n \in 1 .. MaxDepth /\ MaxDepth \in Nat /\ n > 1
  BY ScopeAssumption DEF LevelsOK
<1>2. PICK m \in Nat : m = n - 1 /\ m \in 1 .. n /\ m \in 1 .. MaxDepth
  BY <1>1
<1>3. PICK ms : ms = SubSeq(ls, 1, m)
  OBVIOUS
<1>4. ms \in Seq(LevelRecord) /\ Len(ms) = m /\ \A i \in 1 .. m : ms[i] = ls[i]
  <2>1. ls \in Seq(LevelRecord)
    BY DEF LevelsOK
  <2>2. \A i \in 1 .. Len(ls) : ls[i] \in LevelRecord
    BY <2>1, ElementOfSeq
  <2>3. \A i \in 1 .. m : ls[i] \in LevelRecord
    BY <1>1, <1>2, <2>2
  <2>4. /\ ms \in Seq(LevelRecord) /\ Len(ms) = IF 1 <= m THEN m - 1 + 1 ELSE 0
        /\ \A i \in 1 .. m - 1 + 1 : ms[i] = ls[1 + i - 1]
    BY <1>3, <2>3, SubSeqProperties
  <2>5. m - 1 + 1 = m /\ 1 <= m /\ \A i \in 1 .. m : 1 + i - 1 = i
    BY <1>2
  <2> QED
    BY <2>4, <2>5
<1>5. ASSUME NEW i \in 1 .. m PROVE \E k \in 1 .. i : IsOwner(ms, i, k)
  <2>1. PICK k \in 1 .. i : IsOwner(ls, i, k)
    BY <1>1, <1>2 DEF LevelsOK
  <2>2. IsOwner(ms, i, k)
    BY <1>2, <1>4, <2>1 DEF IsOwner
  <2> QED
    BY <2>2
<1>6. \A i \in 1 .. m : i \in 1 .. n /\ \A j \in i .. m : j \in i .. n /\ j \in 1 .. m
  BY <1>2
<1>7. \A i \in 1 .. m : ParamsOf(ms[i])
  BY <1>1, <1>4, <1>6 DEF LevelsOK
<1>8. ASSUME NEW i \in 1 .. m, NEW j \in i .. m PROVE RoKept(ms[i].vars, ms[j].vars)
  <2>1. RoKept(ls[i].vars, ls[j].vars)
    BY <1>1, <1>6 DEF LevelsOK
  <2> QED
    BY <1>4, <1>6, <2>1
<1>9. LevelsOK(ms)
  BY <1>2, <1>4, <1>5, <1>7, <1>8 DEF LevelsOK
<1> QED
  BY <1>1, <1>2, <1>3, <1>4, <1>9

\* The variables of the innermost level become s.
LEMMA TopSet ==
    ASSUME IInv, NEW s \in Stores, RoKept(Level.vars, s)
    PROVE  \E ms : /\ ms = [levels EXCEPT ![Top].vars = s]
                   /\ LevelsOK(ms) /\ Len(ms) = Top
                   /\ \A i \in 1 .. Top : i # Top => ms[i] = levels[i]
                   /\ ms[Top] = [Level EXCEPT !.vars = s] /\ ms[Top].vars = s
<1>1. PICK ms : ms = [levels EXCEPT ![Top].vars = s]
  OBVIOUS
<1>2. PICK l : l = [Level EXCEPT !.vars = s]
  OBVIOUS
<1>3. /\ l \in LevelRecord /\ l.vars = s /\ l.kind = Level.kind
      /\ l.pos = Level.pos /\ l.given = Level.given /\ l.gone = Level.gone
  BY <1>2, TopIs DEF LevelRecord
<1>4. ms = [levels EXCEPT ![Top] = l]
  BY <1>1, <1>2 DEF Level
<1>5. /\ ms \in Seq(LevelRecord) /\ Len(ms) = Top
      /\ \A i \in 1 .. Top : ms[i] = IF i = Top THEN l ELSE levels[i]
  <2>1. levels \in Seq(LevelRecord) /\ Top \in 1 .. Len(levels) /\ Top = Len(levels)
    BY TopIs DEF Top
  <2> QED
    BY <1>3, <1>4, <2>1, ExceptSeq
<1>6. LevelsOK(levels)
  BY DEF IInv
<1>7. ASSUME NEW i \in 1 .. Len(levels) PROVE ms[i].kind = levels[i].kind /\ ParamsOf(ms[i])
  <2>1. i \in 1 .. Top /\ ParamsOf(levels[i])
    BY <1>6 DEF Top, LevelsOK
  <2> QED
    BY <1>3, <1>5, <2>1, TopIs DEF ParamsOf
<1>8. /\ Len(ms) = Len(levels)
      /\ \A i \in 1 .. Len(levels) : i # Len(levels) => ms[i].vars = levels[i].vars
      /\ RoKept(levels[Len(levels)].vars, ms[Len(levels)].vars)
  BY <1>3, <1>5, TopIs DEF Top
<1>9. LevelsOK(ms)
  BY <1>5, <1>6, <1>7, <1>8, LevelsChanged
<1> QED
  BY ZenonT(30), <1>1, <1>2, <1>3, <1>5, <1>9, TopIs

\* A command that leaves fr changes the variables of its level and the parameters of its owner.
LEMMA LeaveIs ==
    ASSUME IInv, NEW fr, Ran(fr), Leave(fr)
    PROVE  /\ LevelsOK(levels') /\ environ' \in Environments /\ functions' \in FunStores
           /\ Untouched /\ RoForGood
<1>1. PICK s \in Stores : s = fr.saved[1] /\ RoKept(Level.vars, s)
  BY OptionalIs DEF Ran, FrameRecord
<1>2. PICK o : o = Owner(Top)
  OBVIOUS
<1>3. PICK n \in Nat \ {0} : n = Top /\ n = Len(levels) /\ n \in 1 .. n /\ Level = levels[n]
  BY TopIs DEF Top
<1>4. o \in 1 .. n /\ levels[o].kind # "eval"
  BY <1>2, <1>3, OwnerIs DEF IsOwner
<1>5. /\ levels \in Seq(LevelRecord) /\ DOMAIN levels = 1 .. n
      /\ \A i \in 1 .. n : levels[i] \in LevelRecord
  BY <1>3, TopIs
<1>6. /\ fr.locals \in Optional(Stores) /\ fr.pos \in Optional(Seq(Words)) /\ fr.given \in Seq(Words)
      /\ fr.gone \in Nat /\ fr.env \in Environments /\ fr.funs \in FunStores
  BY DEF Ran, FrameRecord
<1>7. levels' = [levels EXCEPT ![n].vars = s, ![n].locals = fr.locals, ![o].pos = fr.pos,
                               ![o].given = fr.given, ![o].gone = fr.gone]
  BY <1>1, <1>2, <1>3 DEF Leave
<1>8. PICK l : l = [levels[n] EXCEPT !.vars = s, !.locals = fr.locals]
  OBVIOUS
<1>9. /\ l \in LevelRecord /\ l.vars = s /\ l.locals = fr.locals /\ l.kind = levels[n].kind
      /\ l.pos = levels[n].pos /\ l.given = levels[n].given /\ l.gone = levels[n].gone
  <2>1. levels[n] \in LevelRecord
    BY <1>3, <1>5
  <2> QED
    BY <1>1, <1>6, <1>8, <2>1 DEF LevelRecord
<1>10. PICK ks : ks = [levels EXCEPT ![n] = l]
  OBVIOUS
<1>11. /\ ks \in Seq(LevelRecord) /\ Len(ks) = n /\ DOMAIN ks = 1 .. n
       /\ \A i \in 1 .. n : ks[i] = IF i = n THEN l ELSE levels[i]
  <2>1. n \in 1 .. Len(levels)
    BY <1>3
  <2>2. ks \in Seq(LevelRecord) /\ Len(ks) = Len(levels)
        /\ \A i \in 1 .. Len(levels) : ks[i] = IF i = n THEN l ELSE levels[i]
    BY <1>5, <1>9, <1>10, <2>1, ExceptSeq
  <2> QED
    BY <1>3, <1>5, <1>10, <2>2
<1>12. PICK m : m = [ks[o] EXCEPT !.pos = fr.pos, !.given = fr.given, !.gone = fr.gone]
  OBVIOUS
<1>13. ks[o] \in LevelRecord /\ ks[o].kind = levels[o].kind
       /\ ks[o].vars = (IF o = n THEN s ELSE levels[o].vars)
       /\ ks[o].locals = (IF o = n THEN fr.locals ELSE levels[o].locals)
  BY <1>4, <1>5, <1>9, <1>11
<1>14. /\ m \in LevelRecord /\ m.kind = levels[o].kind
       /\ m.vars = (IF o = n THEN s ELSE levels[o].vars)
       /\ m.locals = (IF o = n THEN fr.locals ELSE levels[o].locals)
       /\ m.pos = fr.pos /\ m.given = fr.given /\ m.gone = fr.gone
  BY <1>6, <1>12, <1>13 DEF LevelRecord
<1>15. levels' = [ks EXCEPT ![o] = m]
  <2>1. [levels EXCEPT ![n].vars = s, ![n].locals = fr.locals] = ks
    BY <1>3, <1>5, <1>8, <1>10
  <2>2. levels' = [ks EXCEPT ![o].pos = fr.pos, ![o].given = fr.given, ![o].gone = fr.gone]
    BY <1>7, <2>1
  <2> QED
    BY <1>4, <1>11, <1>12, <2>2
<1>16. /\ levels' \in Seq(LevelRecord) /\ Len(levels') = n
       /\ \A i \in 1 .. n : levels'[i] = IF i = o THEN m ELSE ks[i]
  <2>1. o \in 1 .. Len(ks)
    BY <1>4, <1>11
  <2>2. /\ levels' \in Seq(LevelRecord) /\ Len(levels') = Len(ks)
        /\ \A i \in 1 .. Len(ks) : levels'[i] = IF i = o THEN m ELSE ks[i]
    BY <1>11, <1>14, <1>15, <2>1, ExceptSeq
  <2> QED
    BY <1>11, <2>2
<1>17. ASSUME NEW i \in 1 .. n
       PROVE  /\ levels'[i].kind = levels[i].kind
              /\ levels'[i].vars = IF i = n THEN s ELSE levels[i].vars
              /\ levels'[i].locals = IF i = n THEN fr.locals ELSE levels[i].locals
              /\ levels'[i].pos = IF i = o THEN fr.pos ELSE levels[i].pos
              /\ levels'[i].given = IF i = o THEN fr.given ELSE levels[i].given
              /\ levels'[i].gone = IF i = o THEN fr.gone ELSE levels[i].gone
  <2>1. CASE i = o
    BY <1>14, <1>16, <2>1
  <2>2. CASE i # o /\ i = n
    BY <1>9, <1>11, <1>16, <2>2
  <2>3. CASE i # o /\ i # n
    BY <1>11, <1>16, <2>3
  <2> QED
    BY <2>1, <2>2, <2>3
<1>18. LevelsOK(levels)
  BY DEF IInv
<1>19. ASSUME NEW i \in 1 .. n PROVE ParamsOf(levels'[i])
  <2>1. CASE i = o
    BY <1>4, <1>17, <2>1 DEF ParamsOf, Ran
  <2>2. CASE i # o
    <3>1. ParamsOf(levels[i])
      BY <1>3, <1>18 DEF LevelsOK
    <3> QED
      BY <1>17, <2>2, <3>1 DEF ParamsOf
  <2> QED
    BY <2>1, <2>2
<1>20. RoKept(levels[n].vars, levels'[n].vars)
  BY <1>1, <1>3, <1>17
<1>21. LevelsOK(levels')
  <2>1. \A i \in 1 .. n : levels'[i].kind = levels[i].kind /\ ParamsOf(levels'[i])
    BY <1>17, <1>19
  <2>2. \A i \in 1 .. n : i # n => levels'[i].vars = levels[i].vars
    BY <1>17
  <2>3. PICK ms : ms = levels'
    OBVIOUS
  <2>4. LevelsOK(ms)
    BY <1>3, <1>16, <1>18, <1>20, <2>1, <2>2, <2>3, LevelsChanged
  <2> QED
    BY <2>3, <2>4
<1>22. RoForGood
  <2> SUFFICES ASSUME NEW i \in 1 .. n PROVE RoKept(levels[i].vars, levels'[i].vars)
    BY <1>3 DEF RoForGood
  <2> QED
    BY <1>17, <1>20, RoKeptSame
<1>23. Untouched
  BY <1>2, <1>3, <1>16, <1>17 DEF Untouched
<1>24. environ' \in Environments /\ functions' \in FunStores
  BY <1>6 DEF Leave
<1> QED
  BY <1>21, <1>22, <1>23, <1>24

LEMMA KeepsRan ==
    ASSUME NEW a, NEW b, Ran(a), KeepsRight(a, b)
    PROVE  Ran(b)
<1>1. b \in FrameRecord /\ b.saved # None /\ RoKept(a.saved[1], b.saved[1])
  BY DEF Ran, KeepsRight, Keeps
<1>2. RoKept(Level.vars, b.saved[1])
  BY <1>1, RoKeptChain DEF Ran
<1>3. Params(b.pos, b.given, b.gone)
  BY DEF Ran, KeepsRight
<1> QED
  BY <1>1, <1>2, <1>3 DEF Ran

\* Nothing is sent while a command of the shell runs.
LEMMA QuietlySent ==
    ASSUME Ready, UNCHANGED sent
    PROVE  ChildEnvironment'
BY DEF Ready, ChildEnvironment

LEMMA CommandKeeps ==
    ASSUME IInv, NEW name, NEW prefix \in Assignments, NEW b,
           KeepsRight(Prepared(name, prefix).fr, b.fr),
           Command(name, Prepared(name, prefix), b)
    PROVE  Good
<1>1. Ran(Prepared(name, prefix).fr) /\ Ran(b.fr)
  BY PreparedIs, KeepsRan
<1>2. Leave(Prepared(name, prefix).fr) \/ Leave(b.fr)
  BY DEF Command
<1>3. /\ LevelsOK(levels') /\ environ' \in Environments /\ functions' \in FunStores
      /\ Untouched /\ RoForGood
  BY <1>1, <1>2, LeaveIs
<1>4. ChildEnvironment'
  BY QuietlySent DEF Command
<1> QED
  BY <1>3, <1>4 DEF Good, IInv

-----------------------------------------------------------------------------
(* The steps.                                                              *)

LEMMA BuiltinsGood ==
    ASSUME IInv,
           Export \/ Readonly \/ Unset \/ UnsetFunction \/ Getopts \/ Dirnamevar \/ Set \/ Shift
    PROVE  Good
<1>0. ASSUME NEW name, NEW prefix \in Assignments
      PROVE  Prepared(name, prefix).fr \in FrameRecord
  BY PreparedIs DEF Ran
<1>1. CASE Export
  <2>1. PICK n \in Names, v \in Optional(Values), prefix \in Assignments :
           Command("export", Prepared("export", prefix),
                   builtin_export(Prepared("export", prefix).fr, n, v))
    BY <1>1 DEF Export, Begun
  <2>2. PICK p : p = Prepared("export", prefix)
    OBVIOUS
  <2>3. KeepsRight(p.fr, builtin_export(p.fr, n, v).fr)
    BY <1>0, <2>2, BuiltinsKeep, KeepsAllIsRight
  <2> QED
    BY <2>1, <2>2, <2>3, CommandKeeps
<1>2. CASE Readonly
  <2>1. PICK n \in Names, v \in Optional(Values), prefix \in Assignments :
           Command("readonly", Prepared("readonly", prefix),
                   builtin_readonly(Prepared("readonly", prefix).fr, n, v))
    BY <1>2 DEF Readonly, Begun
  <2>2. PICK p : p = Prepared("readonly", prefix)
    OBVIOUS
  <2>3. KeepsRight(p.fr, builtin_readonly(p.fr, n, v).fr)
    BY <1>0, <2>2, BuiltinReadonlyIs, KeepsAllIsRight
  <2> QED
    BY <2>1, <2>2, <2>3, CommandKeeps
<1>3. CASE Unset
  <2>1. PICK n \in Names, prefix \in Assignments :
           Command("unset", Prepared("unset", prefix),
                   builtin_unset(Prepared("unset", prefix).fr, n))
    BY <1>3 DEF Unset, Begun
  <2>2. PICK p : p = Prepared("unset", prefix)
    OBVIOUS
  <2>3. KeepsRight(p.fr, builtin_unset(p.fr, n).fr)
    BY <1>0, <2>2, BuiltinsKeep, KeepsAllIsRight
  <2> QED
    BY <2>1, <2>2, <2>3, CommandKeeps
<1>4. CASE UnsetFunction
  <2>1. PICK f \in Functions, prefix \in Assignments :
           Command("unset", Prepared("unset", prefix),
                   builtin_unset_f(Prepared("unset", prefix).fr, f))
    BY <1>4 DEF UnsetFunction, Begun
  <2>2. PICK p : p = Prepared("unset", prefix)
    OBVIOUS
  <2>3. KeepsRight(p.fr, builtin_unset_f(p.fr, f).fr)
    BY <1>0, <2>2, UnsetFunctionIs, KeepsAllIsRight
  <2> QED
    BY <2>1, <2>2, <2>3, CommandKeeps
<1>5. CASE Getopts
  <2>1. PICK n \in Names, v \in Values, prefix \in Assignments :
           Command("getopts", Prepared("getopts", prefix),
                   builtin_getopts(Prepared("getopts", prefix).fr, n, v))
    BY <1>5 DEF Getopts, Begun
  <2>2. PICK p : p = Prepared("getopts", prefix)
    OBVIOUS
  <2>3. KeepsRight(p.fr, builtin_getopts(p.fr, n, v).fr)
    BY <1>0, <2>2, BuiltinsKeep, KeepsAllIsRight
  <2> QED
    BY <2>1, <2>2, <2>3, CommandKeeps
<1>6. CASE Dirnamevar
  <2>1. PICK n \in Names, v \in Values, prefix \in Assignments :
           Command("miga_dirnamevar", Prepared("miga_dirnamevar", prefix),
                   builtin_miga_dirnamevar(Prepared("miga_dirnamevar", prefix).fr, n, v))
    BY <1>6 DEF Dirnamevar, Begun
  <2>2. PICK p : p = Prepared("miga_dirnamevar", prefix)
    OBVIOUS
  <2>3. KeepsRight(p.fr, builtin_miga_dirnamevar(p.fr, n, v).fr)
    BY <1>0, <2>2, BuiltinsKeep, KeepsAllIsRight
  <2> QED
    BY <2>1, <2>2, <2>3, CommandKeeps
<1>7. CASE Set
  <2>1. PICK args \in Arguments, prefix \in Assignments :
           Command("set", Prepared("set", prefix), builtin_set(Prepared("set", prefix).fr, args))
    BY <1>7 DEF Set, Begun
  <2>2. PICK p : p = Prepared("set", prefix)
    OBVIOUS
  <2>3. KeepsRight(p.fr, builtin_set(p.fr, args).fr)
    BY <1>0, <2>2, BuiltinSetIs
  <2> QED
    BY <2>1, <2>2, <2>3, CommandKeeps
<1>8. CASE Shift
  <2>1. PICK count \in Optional(-1 .. MaxParams + 1), prefix \in Assignments :
           Command("shift", Prepared("shift", prefix), builtin_shift(Prepared("shift", prefix).fr, count))
    BY <1>8 DEF Shift, Begun
  <2>2. PICK p : p = Prepared("shift", prefix)
    OBVIOUS
  <2>3. count \in Optional(Int)
    BY ScopeAssumption DEF Optional
  <2>4. KeepsRight(p.fr, builtin_shift(p.fr, count).fr)
    BY <1>0, <2>2, <2>3, BuiltinShiftIs
  <2> QED
    BY <2>1, <2>2, <2>4, CommandKeeps
<1> QED
  BY <1>1, <1>2, <1>3, <1>4, <1>5, <1>6, <1>7, <1>8

\* The levels stay as they are.
LEMMA SameLevelsGood ==
    ASSUME IInv, UNCHANGED levels, environ' \in Environments, functions' \in FunStores,
           ChildEnvironment'
    PROVE  Good
<1>1. LevelsOK(levels')
  BY DEF IInv
<1>2. Untouched /\ RoForGood
  BY RoKeptSame DEF Untouched, RoForGood
<1> QED
  BY <1>1, <1>2 DEF Good, IInv

LEMMA ExternalGood ==
    ASSUME IInv, External
    PROVE  Good
<1>1. PICK prefix \in Assignments : sent' = Some([prefix |-> prefix,
         envp |-> variable_store_get_envp(build_temp_store(Level.vars, prefix))])
  BY DEF External
<1>2. PICK s \in Stores : s = Level.vars
  BY TopIs DEF LevelRecord
<1>3. prefix \in Prefixes
  BY AssignmentsArePrefixes
<1>4. PICK t \in Stores : t = build_temp_store(s, prefix) /\ Added(s, prefix, TRUE, Len(prefix), t)
  BY <1>3, AddAllIs DEF build_temp_store
<1>5. PICK envp : envp = [n \in {m \in DOMAIN t : t[m].exp} |-> t[n].val]
  OBVIOUS
<1>6. sent' = Some([prefix |-> prefix, envp |-> envp])
  BY <1>1, <1>2, <1>4, <1>5 DEF variable_store_get_envp
<1>7. sent'[1].envp = envp /\ sent'[1].prefix = prefix
  BY <1>6 DEF Some
<1>8. Level' = Level
  BY DEF External, Level, Top
<1>9. ASSUME NEW n \in Names
      PROVE  LET new == IF IsReadOnly(s, n) THEN None ELSE Assigned(prefix, n)
                 old == IF n \in DOMAIN s /\ s[n].exp THEN Some(s[n].val) ELSE None
                 wanted == IF new # None THEN new ELSE old
             IN  wanted = IF n \in DOMAIN envp THEN Some(envp[n]) ELSE None
  <2>1. DOMAIN envp = {m \in DOMAIN t : t[m].exp} /\ \A m \in DOMAIN envp : envp[m] = t[m].val
    BY <1>5
  <2>2. DOMAIN prefix = 1 .. Len(prefix) /\ Len(prefix) \in Nat
    BY <1>3 DEF Prefixes
  <2>3. CASE IsReadOnly(s, n) \/ \A j \in 1 .. Len(prefix) : prefix[j].name # n
    <3>1. (n \in DOMAIN t <=> n \in DOMAIN s) /\ (n \in DOMAIN s => t[n] = s[n])
      BY <1>4, <2>3 DEF Added
    <3>2. ~IsReadOnly(s, n) => Assigned(prefix, n) = None
      <4>1. ~IsReadOnly(s, n) => {i \in DOMAIN prefix : prefix[i].name = n} = {}
        BY <2>2, <2>3
      <4> QED
        BY <4>1 DEF Assigned
    <3> QED
      BY <2>1, <3>1, <3>2
  <2>4. CASE ~(IsReadOnly(s, n) \/ \A j \in 1 .. Len(prefix) : prefix[j].name # n)
    <3>1. n \in DOMAIN t /\ \E j \in 1 .. Len(prefix) : LastTo(prefix, Len(prefix), n, j)
                                               /\ t[n] = Var(prefix[j].val, TRUE, FALSE)
      BY <1>4, <2>4 DEF Added
    <3>2. PICK j \in 1 .. Len(prefix) : LastTo(prefix, Len(prefix), n, j)
                                        /\ t[n] = Var(prefix[j].val, TRUE, FALSE)
      BY <3>1
    <3>3. n \in DOMAIN envp /\ envp[n] = prefix[j].val
      BY <2>1, <3>1, <3>2 DEF Var
    <3>4. Assigned(prefix, n) = Some(prefix[j].val)
      <4> DEFINE at == {i \in DOMAIN prefix : prefix[i].name = n}
                 last == CHOOSE i \in at : \A k \in at : k <= i
      <4>1. j \in at /\ \A k \in at : k <= j
        BY <2>2, <3>2 DEF LastTo
      <4>2. at \subseteq Int
        BY <2>2
      <4>3. Assigned(prefix, n) = IF at = {} THEN None ELSE Some(prefix[last].val)
        BY DEF Assigned
      <4>4. last = j
        <5> HIDE DEF at
        <5>1. last \in at /\ \A k \in at : k <= last
          BY <4>1
        <5> HIDE DEF last
        <5> QED
          BY <4>1, <4>2, <5>1
      <4> HIDE DEF last, at
      <4> QED
        BY <4>1, <4>3, <4>4
    <3>5. Some(prefix[j].val) # None
      BY DEF Some, None
    <3> QED
      BY <2>4, <3>3, <3>4, <3>5
  <2> QED
    BY <2>3, <2>4
<1>10. ChildEnvironment'
  BY <1>2, <1>7, <1>8, <1>9 DEF ChildEnvironment
<1>11. environ' \in Environments /\ functions' \in FunStores /\ UNCHANGED levels
  BY DEF External, IInv
<1> QED
  BY <1>10, <1>11, SameLevelsGood

LEMMA WaitGood ==
    ASSUME IInv, Wait
    PROVE  Good
<1>1. ChildEnvironment'
  BY DEF Wait, ChildEnvironment
<1>2. environ' \in Environments /\ functions' \in FunStores /\ UNCHANGED levels
  BY DEF Wait, IInv
<1> QED
  BY <1>1, <1>2, SameLevelsGood

LEMMA DefineGood ==
    ASSUME IInv, DefineFunction
    PROVE  Good
<1>1. ChildEnvironment'
  BY QuietlySent DEF DefineFunction
<1>2. PICK f \in Functions, body \in Bodies : functions' = With(functions, f, body)
  BY DEF DefineFunction, func_store_add
<1>3. functions' \in FunStores
  <2>1. PICK D \in SUBSET Functions : functions \in [D -> Bodies]
    BY DEF IInv, FunStores
  <2>2. functions' \in [D \cup {f} -> Bodies] /\ D \cup {f} \in SUBSET Functions
    BY <1>2, <2>1 DEF With
  <2> QED
    BY <2>2 DEF FunStores
<1>4. environ' \in Environments /\ UNCHANGED levels
  BY DEF DefineFunction, IInv
<1> QED
  BY <1>1, <1>3, <1>4, SameLevelsGood

\* A level is pushed on levels of which at most the innermost has other variables than before.
LEMMA PushGood ==
    ASSUME IInv, Ready, Top < MaxDepth, NEW ks, LevelsOK(ks), Len(ks) = Top,
           \A i \in 1 .. Top : i # Top => ks[i] = levels[i],
           RoKept(Level.vars, ks[Top].vars),
           NEW l \in LevelRecord, ParamsOf(l), RoKept(ks[Top].vars, l.vars),
           levels' = Append(ks, l), UNCHANGED <<environ, functions, sent>>
    PROVE  Good
<1>1. PICK ms : ms = Append(ks, l)
  OBVIOUS
<1>2. LevelsOK(ms) /\ Len(ms) = Top + 1 /\ \A i \in 1 .. Top : ms[i] = ks[i]
  BY <1>1, LevelPushed
<1>3. levels' = ms
  BY <1>1
<1>4. LevelsOK(levels')
  BY <1>2, <1>3
<1>5. ASSUME NEW i \in 1 .. Top - 1 PROVE levels'[i] = levels[i]
  <2>1. i \in 1 .. Top /\ i # Top
    BY TopIs
  <2> QED
    BY <1>2, <1>3, <2>1
<1>6. Untouched
  BY <1>5 DEF Untouched
<1>7. RoForGood
  <2> SUFFICES ASSUME NEW i \in 1 .. Top PROVE RoKept(levels[i].vars, levels'[i].vars)
    BY DEF RoForGood
  <2>1. CASE i = Top
    BY <1>2, <1>3, <2>1, TopIs
  <2>2. CASE i # Top
    BY <1>2, <1>3, <2>2, RoKeptSame
  <2> QED
    BY <2>1, <2>2
<1>8. ChildEnvironment'
  BY QuietlySent
<1>9. environ' \in Environments /\ functions' \in FunStores
  BY DEF IInv
<1> QED
  BY <1>4, <1>6, <1>7, <1>8, <1>9 DEF Good, IInv

LEMMA NothingIsStore == Nothing \in Stores
<1>1. Nothing \in [{} -> Variable] /\ {} \in SUBSET Names
  BY DEF Nothing
<1> QED
  BY <1>1, IsStore

LEMMA NewFunctionLevel ==
    ASSUME NEW f \in Functions, NEW s \in Stores, NEW args \in Arguments
    PROVE  /\ NewLevel("function", f, s, args) \in LevelRecord
           /\ ParamsOf(NewLevel("function", f, s, args))
           /\ NewLevel("function", f, s, args).vars = s
<1>1. PICK locals \in Optional(Stores) : locals = IF functions[f] = "other" THEN Some(Nothing) ELSE None
  <2>1. Some(Nothing) \in Optional(Stores)
    BY NothingIsStore, SomeIs
  <2>2. None \in Optional(Stores)
    BY DEF Optional
  <2> QED
    BY <2>1, <2>2
<1>2. args \in Seq(Words)
  BY ArgumentsAreWords
<1>3. PICK pos \in Optional(Seq(Words)) : pos = positional_params_create(args)
  <2>1. Some(args) \in Optional(Seq(Words))
    BY <1>2, SomeIs
  <2>2. None \in Optional(Seq(Words))
    BY DEF Optional
  <2> QED
    BY <2>1, <2>2 DEF positional_params_create
<1>4. PICK l : l = NewLevel("function", f, s, args)
  OBVIOUS
<1>5. l = [kind |-> "function", fun |-> f, vars |-> s, shared |-> FALSE, given |-> args, gone |-> 0,
           locals |-> locals, pos |-> pos]
  BY <1>1, <1>3, <1>4 DEF NewLevel
<1>6. l \in LevelRecord /\ l.vars = s
  BY <1>2, <1>5 DEF LevelRecord, Kinds
<1>7. SubSeq(args, 0 + 1, Len(args)) = args
  <2>1. SubSeq(args, 1, Len(args)) = args
    BY <1>2, SubSeqFull
  <2>2. 0 + 1 = 1
    OBVIOUS
  <2> QED
    BY <2>1, <2>2
<1>8. Params(pos, args, 0)
  BY <1>3, <1>7 DEF Params, positional_params_create
<1>9. ParamsOf(l)
  BY <1>5, <1>8 DEF ParamsOf
<1> QED
  BY <1>4, <1>6, <1>9

LEMMA NewEvalLevel ==
    ASSUME NEW s \in Stores
    PROVE  /\ NewLevel("eval", "", s, <<>>) \in LevelRecord
           /\ ParamsOf(NewLevel("eval", "", s, <<>>))
           /\ NewLevel("eval", "", s, <<>>).vars = s
<1>1. PICK l : l = NewLevel("eval", "", s, <<>>)
  OBVIOUS
<1>2. l = [kind |-> "eval", fun |-> "", vars |-> s, shared |-> FALSE, given |-> <<>>, gone |-> 0,
           locals |-> None, pos |-> None]
  BY <1>1 DEF NewLevel
<1>3. None \in Optional(Stores) /\ None \in Optional(Seq(Words)) /\ <<>> \in Seq(Words)
  BY DEF Optional
<1>4. l \in LevelRecord /\ l.vars = s /\ l.kind = "eval" /\ l.pos = None
  BY <1>2, <1>3 DEF LevelRecord, Kinds
<1> QED
  BY <1>1, <1>4 DEF ParamsOf

LEMMA RefusedGood ==
    ASSUME IInv, Ready, NEW name, NEW prefix \in Assignments,
           Leave(Prepared(name, prefix).fr), UNCHANGED sent
    PROVE  Good
<1>1. Ran(Prepared(name, prefix).fr)
  BY PreparedIs
<1>2. /\ LevelsOK(levels') /\ environ' \in Environments /\ functions' \in FunStores
      /\ Untouched /\ RoForGood
  BY <1>1, LeaveIs
<1> QED
  BY <1>2, QuietlySent DEF Good, IInv

\* A level is pushed for a command that was prepared.
LEMMA PreparedPushGood ==
    ASSUME IInv, Ready, Top < MaxDepth, NEW name, NEW prefix \in Assignments,
           NEW l \in LevelRecord, ParamsOf(l), l.vars = Prepared(name, prefix).fr.vars,
           levels' = Append([levels EXCEPT ![Top].vars = Prepared(name, prefix).fr.saved[1]], l),
           UNCHANGED <<environ, functions, sent>>
    PROVE  Good
<1>1. PICK fr : fr = Prepared(name, prefix).fr
  OBVIOUS
<1>2. Ran(fr) /\ RoKept(fr.saved[1], fr.vars)
  BY <1>1, PreparedIs
<1>3. PICK s \in Stores : s = fr.saved[1] /\ RoKept(Level.vars, s)
  BY <1>2, OptionalIs DEF Ran, FrameRecord
<1>4. PICK ks : /\ ks = [levels EXCEPT ![Top].vars = s] /\ LevelsOK(ks) /\ Len(ks) = Top
                /\ \A i \in 1 .. Top : i # Top => ks[i] = levels[i]
                /\ ks[Top].vars = s
  BY <1>3, TopSet
<1>5. levels' = Append(ks, l)
  BY <1>1, <1>3, <1>4
<1>6. RoKept(Level.vars, ks[Top].vars) /\ RoKept(ks[Top].vars, l.vars)
  BY <1>1, <1>2, <1>3, <1>4
<1> QED
  BY <1>4, <1>5, <1>6, PushGood

LEMMA CallGood ==
    ASSUME IInv, Call
    PROVE  Good
<1>1. Ready /\ Top < MaxDepth /\ UNCHANGED sent
  BY DEF Call
<1>2. PICK f \in DOMAIN functions, prefix \in Assignments, args \in Arguments :
         \/ Leave(Prepared(f, prefix).fr)
         \/ UNCHANGED <<levels, environ, functions>>
         \/ /\ levels' = Append([levels EXCEPT ![Top].vars = Prepared(f, prefix).fr.saved[1]],
                                NewLevel("function", f, Prepared(f, prefix).fr.vars, args))
            /\ UNCHANGED <<environ, functions, ended>>
  BY DEF Call
<1>3. CASE Leave(Prepared(f, prefix).fr)
  BY <1>1, <1>3, RefusedGood
<1>4. CASE UNCHANGED <<levels, environ, functions>>
  <2>1. environ' \in Environments /\ functions' \in FunStores
    BY <1>4 DEF IInv
  <2> QED
    BY <1>1, <1>4, <2>1, QuietlySent, SameLevelsGood
<1>5. CASE /\ levels' = Append([levels EXCEPT ![Top].vars = Prepared(f, prefix).fr.saved[1]],
                               NewLevel("function", f, Prepared(f, prefix).fr.vars, args))
           /\ UNCHANGED <<environ, functions, ended>>
  <2>1. f \in Functions
    BY DEF IInv, FunStores
  <2>2. PICK t \in Stores : t = Prepared(f, prefix).fr.vars
    BY PreparedIs DEF Ran, FrameRecord
  <2>3. PICK l \in LevelRecord : l = NewLevel("function", f, t, args) /\ ParamsOf(l) /\ l.vars = t
    BY <2>1, NewFunctionLevel
  <2> QED
    BY <1>1, <1>5, <2>2, <2>3, PreparedPushGood
<1> QED
  BY <1>2, <1>3, <1>4, <1>5

LEMMA EvalGood ==
    ASSUME IInv, Eval
    PROVE  Good
<1>1. Ready /\ Top < MaxDepth /\ UNCHANGED sent
  BY DEF Eval
<1>2. PICK prefix \in Assignments :
         \/ Leave(Prepared("eval", prefix).fr)
         \/ /\ levels' = Append([levels EXCEPT ![Top].vars = Prepared("eval", prefix).fr.saved[1]],
                                NewLevel("eval", "", Prepared("eval", prefix).fr.vars, <<>>))
            /\ UNCHANGED <<environ, functions, ended>>
  BY DEF Eval
<1>3. CASE Leave(Prepared("eval", prefix).fr)
  BY <1>1, <1>3, RefusedGood
<1>4. CASE /\ levels' = Append([levels EXCEPT ![Top].vars = Prepared("eval", prefix).fr.saved[1]],
                               NewLevel("eval", "", Prepared("eval", prefix).fr.vars, <<>>))
           /\ UNCHANGED <<environ, functions, ended>>
  <2>1. PICK t \in Stores : t = Prepared("eval", prefix).fr.vars
    BY PreparedIs DEF Ran, FrameRecord
  <2>2. PICK l \in LevelRecord : l = NewLevel("eval", "", t, <<>>) /\ ParamsOf(l) /\ l.vars = t
    BY NewEvalLevel
  <2> QED
    BY <1>1, <1>4, <2>1, <2>2, PreparedPushGood
<1> QED
  BY <1>2, <1>3, <1>4

LEMMA ReturnGood ==
    ASSUME IInv, Return
    PROVE  Good
<1>1. PICK n \in Nat : n = Top /\ n = Len(levels) /\ n > 1 /\ Level = levels[n]
  BY TopIs DEF Return, Top
<1>2. PICK m \in Nat \ {0} : m = n - 1 /\ m \in 1 .. m /\ m \in 1 .. n /\ m < n /\ n \in m .. n
  BY <1>1
<1>3. LevelsOK(levels)
  BY DEF IInv
<1>4. PICK ks : /\ ks = SubSeq(levels, 1, m) /\ LevelsOK(ks) /\ Len(ks) = m
                /\ \A i \in 1 .. m : ks[i] = levels[i]
  BY <1>1, <1>2, <1>3, LevelPopped
<1>5. PICK s : s = IF Level.shared THEN Level.vars ELSE ks[m].vars
  OBVIOUS
<1>6. ks \in Seq(LevelRecord) /\ ks[m] \in LevelRecord
  <2>1. ks \in Seq(LevelRecord) /\ m \in 1 .. Len(ks)
    BY <1>2, <1>4 DEF LevelsOK
  <2> QED
    BY <2>1, ElementOfSeq
<1>7. s \in Stores /\ RoKept(ks[m].vars, s)
  <2>1. CASE Level.shared
    <3>1. RoKept(levels[m].vars, levels[n].vars)
      BY <1>1, <1>2, <1>3 DEF LevelsOK
    <3>2. Level.vars \in Stores
      BY TopIs DEF LevelRecord
    <3> QED
      BY <1>1, <1>2, <1>4, <1>5, <2>1, <3>1, <3>2
  <2>2. CASE ~Level.shared
    BY <1>5, <1>6, <2>2, RoKeptSame DEF LevelRecord
  <2> QED
    BY <2>1, <2>2
<1>8. PICK l : l = [ks[m] EXCEPT !.vars = s]
  OBVIOUS
<1>9. /\ l \in LevelRecord /\ l.vars = s /\ l.kind = ks[m].kind /\ l.locals = ks[m].locals
      /\ l.pos = ks[m].pos /\ l.given = ks[m].given /\ l.gone = ks[m].gone
  BY <1>6, <1>7, <1>8 DEF LevelRecord
<1>10. PICK ms : ms = [ks EXCEPT ![m] = l]
  OBVIOUS
<1>11. levels' = ms
  <2>1. levels' = [ks EXCEPT ![m].vars = IF Level.shared THEN Level.vars ELSE @]
    BY <1>1, <1>2, <1>4 DEF Return
  <2>2. [ks EXCEPT ![m].vars = IF Level.shared THEN Level.vars ELSE @] = [ks EXCEPT ![m].vars = s]
    BY <1>5
  <2> QED
    BY <1>8, <1>10, <2>1, <2>2
<1>12. /\ ms \in Seq(LevelRecord) /\ Len(ms) = m
       /\ \A i \in 1 .. m : ms[i] = IF i = m THEN l ELSE ks[i]
  <2>1. m \in 1 .. Len(ks)
    BY <1>2, <1>4
  <2>2. /\ ms \in Seq(LevelRecord) /\ Len(ms) = Len(ks)
        /\ \A i \in 1 .. Len(ks) : ms[i] = IF i = m THEN l ELSE ks[i]
    BY <1>6, <1>9, <1>10, <2>1, ExceptSeq
  <2> QED
    BY <1>4, <2>2
<1>13. LevelsOK(ms)
  <2>1. ASSUME NEW i \in 1 .. m PROVE ms[i].kind = ks[i].kind /\ ParamsOf(ms[i])
    <3>1. ParamsOf(ks[i])
      BY <1>4 DEF LevelsOK
    <3> QED
      BY <1>9, <1>12, <3>1 DEF ParamsOf
  <2>2. \A i \in 1 .. m : i # m => ms[i].vars = ks[i].vars
    BY <1>12
  <2>3. RoKept(ks[m].vars, ms[m].vars)
    BY <1>2, <1>7, <1>9, <1>12
  <2> QED
    BY <1>4, <1>12, <2>1, <2>2, <2>3, LevelsChanged
<1>14. ASSUME NEW i \in 1 .. m
       PROVE  /\ ms[i].locals = levels[i].locals /\ ms[i].pos = levels[i].pos
              /\ ms[i].vars = levels[i].vars \/ (Level.shared /\ i = m)
              /\ RoKept(levels[i].vars, ms[i].vars)
  <2>1. CASE i = m
    BY <1>4, <1>5, <1>7, <1>9, <1>12, <2>1
  <2>2. CASE i # m
    BY <1>4, <1>12, <2>2, RoKeptSame
  <2> QED
    BY <2>1, <2>2
<1>15. Untouched
  BY <1>1, <1>2, <1>11, <1>12, <1>14 DEF Untouched
<1>16. RoForGood
  <2> SUFFICES ASSUME NEW i \in 1 .. Top, i <= Len(levels') PROVE RoKept(levels[i].vars, levels'[i].vars)
    BY DEF RoForGood
  <2>1. i \in 1 .. m
    BY <1>1, <1>11, <1>12
  <2> QED
    BY <1>11, <1>14, <2>1
<1>17. ChildEnvironment'
  BY QuietlySent DEF Return
<1>18. environ' \in Environments /\ functions' \in FunStores
  BY DEF Return, IInv
<1> QED
  BY <1>11, <1>13, <1>15, <1>16, <1>17, <1>18 DEF Good, IInv

\* The host works on the variables of the main program themselves.
LEMMA HostStep ==
    ASSUME IInv, Ready, Top = 1, NEW b, KeepsAll(Frame(Level.vars, None), b.fr),
           levels' = [levels EXCEPT ![1].vars = b.fr.vars], environ' = b.fr.env,
           UNCHANGED <<sent, functions>>
    PROVE  Good
<1>1. Level.vars \in Stores /\ None \in Optional(Stores)
  BY TopIs DEF LevelRecord, Optional
<1>2. Frame(Level.vars, None).vars = Level.vars
  BY <1>1, FrameIs
<1>3. PICK s \in Stores : s = b.fr.vars /\ RoKept(Level.vars, s) /\ b.fr.env \in Environments
  BY <1>2 DEF KeepsAll, Keeps, FrameRecord
<1>4. PICK ms : /\ ms = [levels EXCEPT ![Top].vars = s] /\ LevelsOK(ms) /\ ms[Top].vars = s
  BY <1>3, TopSet
<1>5. levels' = ms
  BY <1>3, <1>4
<1>6. Untouched
  BY DEF Untouched
<1>7. RoForGood
  <2> SUFFICES ASSUME NEW i \in 1 .. Top PROVE RoKept(levels[i].vars, levels'[i].vars)
    BY DEF RoForGood
  <2>1. i = Top
    OBVIOUS
  <2> QED
    BY <1>3, <1>4, <1>5, <2>1, TopIs
<1>8. functions' \in FunStores
  BY DEF IInv
<1> QED
  BY <1>3, <1>4, <1>5, <1>6, <1>7, <1>8, QuietlySent DEF Good, IInv

LEMMA HostGood ==
    ASSUME IInv, HostSet \/ HostMark \/ HostExport \/ HostUnset
    PROVE  Good
<1>1. Level.vars \in Stores /\ None \in Optional(Stores)
  BY TopIs DEF LevelRecord, Optional
<1>2. PICK fr \in FrameRecord : fr = Frame(Level.vars, None)
  BY <1>1, FrameIs
<1> DEFINE Runs(b) == /\ Ready /\ Top = 1
                      /\ levels' = [levels EXCEPT ![1].vars = b.fr.vars] /\ environ' = b.fr.env
                      /\ UNCHANGED <<sent, functions>>
<1>3. PICK b : KeepsAll(fr, b.fr) /\ Runs(b)
  <2>1. CASE HostSet
    <3>1. PICK n \in Names, v \in Values :
             Runs(frame_set_variable(fr, n, v)) \/ Runs(frame_set_persistent_variable(fr, n, v))
      BY <1>2, <2>1 DEF HostSet, Host
    <3>2. /\ KeepsAll(fr, frame_set_variable(fr, n, v).fr)
          /\ KeepsAll(fr, frame_set_persistent_variable(fr, n, v).fr)
      BY SetVariableIs, SetPersistentIs
    <3> HIDE DEF Runs
    <3> QED
      BY <3>1, <3>2
  <2>2. CASE HostMark
    <3>1. PICK n \in Names : \/ Runs(frame_set_variable_readonly(fr, n))
                             \/ \E b \in BOOLEAN : Runs(frame_set_variable_exported(fr, n, b))
      BY <1>2, <2>2 DEF HostMark, Host
    <3>2. /\ KeepsAll(fr, frame_set_variable_readonly(fr, n).fr)
          /\ \A b \in BOOLEAN : KeepsAll(fr, frame_set_variable_exported(fr, n, b).fr)
      BY SetReadonlyIs, SetExportedIs
    <3> HIDE DEF Runs
    <3> QED
      BY <3>1, <3>2
  <2>3. CASE HostExport
    <3>1. PICK n \in Names, v \in Optional(Values) : Runs(frame_export_variable(fr, n, v))
      BY <1>2, <2>3 DEF HostExport, Host
    <3>2. KeepsAll(fr, frame_export_variable(fr, n, v).fr)
      BY ExportVariableIs
    <3> HIDE DEF Runs
    <3> QED
      BY <3>1, <3>2
  <2>4. CASE HostUnset
    <3>1. PICK n \in Names : Runs(frame_unset_variable(fr, n))
      BY <1>2, <2>4 DEF HostUnset, Host
    <3>2. KeepsAll(fr, frame_unset_variable(fr, n).fr)
      BY UnsetVariableIs
    <3> HIDE DEF Runs
    <3> QED
      BY <3>1, <3>2
  <2> QED
    BY <2>1, <2>2, <2>3, <2>4
<1> QED
  BY <1>2, <1>3, HostStep

LEMMA HostCallGood ==
    ASSUME IInv, HostCall
    PROVE  Good
<1>1. Ready /\ Top = 1 /\ Top < MaxDepth /\ UNCHANGED <<sent, environ, functions>>
  BY DEF HostCall
<1>2. PICK f \in DOMAIN functions, args \in Arguments :
         \/ UNCHANGED levels
         \/ levels' = Append(levels, [NewLevel("function", f, Level.vars, args) EXCEPT !.shared = TRUE])
  BY DEF HostCall
<1>3. CASE UNCHANGED levels
  <2>1. environ' \in Environments /\ functions' \in FunStores
    BY <1>1 DEF IInv
  <2> QED
    BY <1>1, <1>3, <2>1, QuietlySent, SameLevelsGood
<1>4. CASE levels' = Append(levels, [NewLevel("function", f, Level.vars, args) EXCEPT !.shared = TRUE])
  <2>1. f \in Functions
    BY DEF IInv, FunStores
  <2>2. PICK s \in Stores : s = Level.vars
    BY TopIs DEF LevelRecord
  <2>3. PICK k \in LevelRecord : k = NewLevel("function", f, s, args) /\ ParamsOf(k) /\ k.vars = s
    BY <2>1, NewFunctionLevel
  <2>4. PICK l : l = [k EXCEPT !.shared = TRUE]
    OBVIOUS
  <2>5. /\ l \in LevelRecord /\ l.vars = s /\ l.kind = k.kind /\ l.pos = k.pos /\ l.given = k.given
        /\ l.gone = k.gone
    BY <2>3, <2>4 DEF LevelRecord
  <2>6. ParamsOf(l)
    BY <2>3, <2>5 DEF ParamsOf
  <2>7. levels' = Append(levels, l)
    BY <1>4, <2>2, <2>3, <2>4
  <2>8. LevelsOK(levels) /\ Len(levels) = Top
    BY DEF IInv, Top
  <2>9. RoKept(Level.vars, levels[Top].vars) /\ RoKept(levels[Top].vars, l.vars)
    BY <2>2, <2>5, TopIs, RoKeptSame
  <2> QED
    BY <1>1, <2>5, <2>6, <2>7, <2>8, <2>9, PushGood
<1> QED
  BY <1>2, <1>3, <1>4

LEMMA StepGood ==
    ASSUME IInv, [Next]_vars
    PROVE  Good
<1>1. CASE UNCHANGED vars
  <2>1. environ' \in Environments /\ functions' \in FunStores
    BY <1>1 DEF IInv, vars
  <2>2. ChildEnvironment'
    BY <1>1 DEF IInv, ChildEnvironment, Level, Top, vars
  <2> QED
    BY <1>1, <2>1, <2>2, SameLevelsGood DEF vars
<1>2. CASE Next
  BY <1>1, <1>2, BuiltinsGood, ExternalGood, WaitGood, CallGood, EvalGood, ReturnGood, DefineGood,
     HostGood, HostCallGood DEF Next, Ended
<1> QED
  BY <1>1, <1>2

LEMMA InitGood == Init => IInv
<1> SUFFICES ASSUME Init PROVE IInv
  OBVIOUS
<1>1. environ \in Environments /\ functions = Nothing /\ sent = None
  BY DEF Init
<1>2. PICK args \in Arguments :
         /\ Len(args) <= MaxParams
         /\ levels = <<[kind |-> "main", fun |-> "", shared |-> FALSE, locals |-> None,
                        vars |-> [n \in DOMAIN environ |-> Var(environ[n], TRUE, FALSE)],
                        pos |-> Some(args), given |-> args, gone |-> 0]>>
  BY DEF Init
<1>3. PICK s \in Stores : s = [n \in DOMAIN environ |-> Var(environ[n], TRUE, FALSE)]
  <2>1. PICK D \in SUBSET Names : environ \in [D -> Values]
    BY <1>1 DEF Environments
  <2>2. PICK s : s = [n \in DOMAIN environ |-> Var(environ[n], TRUE, FALSE)]
    OBVIOUS
  <2>3. \A n \in D : Var(environ[n], TRUE, FALSE) \in Variable
    BY <2>1 DEF Var, Variable
  <2>4. s \in [D -> Variable]
    BY <2>1, <2>2, <2>3
  <2> QED
    BY <2>2, <2>4, IsStore
<1>4. args \in Seq(Words) /\ Some(args) \in Optional(Seq(Words)) /\ None \in Optional(Stores)
  BY ArgumentsAreWords, SomeIs DEF Optional
<1>5. PICK l : l = [kind |-> "main", fun |-> "", shared |-> FALSE, locals |-> None, vars |-> s,
                    pos |-> Some(args), given |-> args, gone |-> 0]
  OBVIOUS
<1>6. l \in LevelRecord /\ l.kind = "main"
  BY <1>4, <1>5 DEF LevelRecord, Kinds
<1>7. levels = <<l>>
  BY <1>2, <1>3, <1>5
<1>8. ParamsOf(l)
  <2>1. SubSeq(args, 1, Len(args)) = args
    BY <1>4, SubSeqFull
  <2>2. SubSeq(args, 0 + 1, Len(args)) = args
    <3>1. 0 + 1 = 1
      OBVIOUS
    <3> QED
      BY <2>1, <3>1
  <2>3. ~(Len(args) > MaxParams)
    <3>1. PICK k \in Nat : k = Len(args)
      BY <1>4
    <3>2. PICK m \in Nat : m = MaxParams
      BY ScopeAssumption
    <3>3. k <= m
      BY <1>2, <3>1, <3>2
    <3> QED
      BY <3>1, <3>2, <3>3
  <2>4. Params(Some(args), args, 0)
    BY <2>2, <2>3 DEF Params
  <2> QED
    BY <1>5, <1>6, <2>4 DEF ParamsOf
<1>9. levels \in Seq(LevelRecord) /\ Len(levels) = 1 /\ levels[1] = l
  BY <1>6, <1>7
<1>10. LevelsOK(levels)
  <2>1. 1 \in 1 .. MaxDepth
    BY ScopeAssumption
  <2>2. IsOwner(levels, 1, 1)
    BY <1>6, <1>9 DEF IsOwner
  <2>3. RoKept(l.vars, l.vars)
    BY RoKeptSame
  <2> QED
    BY <1>8, <1>9, <2>1, <2>2, <2>3 DEF LevelsOK
<1>11. functions \in FunStores
  <2>1. functions \in [{} -> Bodies] /\ {} \in SUBSET Functions
    BY <1>1 DEF Nothing
  <2> QED
    BY <2>1 DEF FunStores
<1>12. ChildEnvironment
  BY <1>1 DEF ChildEnvironment
<1> QED
  BY <1>1, <1>10, <1>11, <1>12 DEF IInv

-----------------------------------------------------------------------------
(* The theorems.                                                           *)

LEMMA InductiveScopes == Spec => []IInv
<1>1. IInv /\ [Next]_vars => IInv'
  BY StepGood DEF Good
<1> QED
  BY <1>1, InitGood, PTL DEF Spec

\* However functions, eval and builtins with assignments are nested, every level has
\* well-formed stores and at most POSITIONAL_PARAMS_MAX parameters, and no level inside one
\* where a variable is read-only has another one of that name (variable_store_copy_all,
\* variable_store_add).
THEOREM LevelsAlwaysSound == Spec => []LevelsSound
<1>1. ASSUME IInv PROVE TypeOK
  <2>1. DOMAIN functions \subseteq Functions /\ \A f \in DOMAIN functions : functions[f] \in Bodies
    BY <1>1 DEF IInv, FunStores
  <2>2. Top \in 1 .. MaxDepth
    BY <1>1 DEF IInv, LevelsOK, Top
  <2>3. ASSUME NEW i \in 1 .. Top
        PROVE  /\ levels[i].kind \in {"main", "function", "eval"}
               /\ levels[i].vars \in Stores /\ levels[i].locals \in Optional(Stores)
    BY <1>1, TopIs DEF LevelRecord, Kinds
  <2>4. ASSUME NEW i \in 1 .. Top, levels[i].pos # None PROVE Len(levels[i].pos[1]) <= MaxParams
    <3>1. PICK l \in LevelRecord : l = levels[i] /\ ParamsOf(l)
      BY <1>1, TopIs DEF IInv, LevelsOK, Top
    <3>2. PICK s \in Seq(Words), g \in Nat : s = l.given /\ g = l.gone
      BY DEF LevelRecord
    <3>3. PICK n \in Nat : n = Len(s)
      OBVIOUS
    <3>4. PICK m \in Nat : m = MaxParams
      BY ScopeAssumption
    <3>5. ~(n > m) /\ l.pos = Some(SubSeq(s, g + 1, n))
      BY <2>4, <3>1, <3>2, <3>3, <3>4 DEF ParamsOf, Params
    <3>6. Len(SubSeq(s, g + 1, n)) = IF g + 1 <= n THEN n - (g + 1) + 1 ELSE 0
      <4>1. \A j \in g + 1 .. n : s[j] \in Words
        BY <3>3, ElementOfSeq
      <4> QED
        BY <4>1, SubSeqProperties
    <3>7. Len(SubSeq(s, g + 1, n)) <= m
      BY <3>5, <3>6
    <3>8. l.pos[1] = SubSeq(s, g + 1, n)
      BY <3>5 DEF Some
    <3> QED
      BY <3>1, <3>4, <3>7, <3>8
  <2>5. environ \in Environments
    BY <1>1 DEF IInv
  <2> QED
    BY <2>1, <2>2, <2>3, <2>4, <2>5 DEF TypeOK
<1>2. IInv => ReadonlyPassedDown
  BY DEF IInv, LevelsOK, Top, RoKept, ReadonlyPassedDown
<1>3. IInv => LevelsSound
  BY <1>1, <1>2 DEF LevelsSound
<1> QED
  BY <1>3, InductiveScopes, PTL

\* The parameters that a command sees are those of the last set or of the call, without as many
\* of the first ones as shift took in all (positional_params_shift,
\* frame_replace_positional_params).
THEOREM ParametersAlwaysOfTheCall == Spec => []ParametersOfTheCall
<1>1. IInv => ParametersOfTheCall
  BY DEF IInv, LevelsOK, Top, ParamsOf, Params, ParametersOfTheCall
<1> QED
  BY <1>1, InductiveScopes, PTL

\* The environment of every external command is what its level exports and its own assignments,
\* of which the last one to a name counts and none to a read-only variable
\* (build_temp_store_for_siple_command, variable_store_get_envp).
THEOREM ChildAlwaysGetsItsEnvironment == Spec => []ChildEnvironment
<1>1. IInv => ChildEnvironment
  BY DEF IInv
<1> QED
  BY <1>1, InductiveScopes, PTL

\* No step reaches the local variables or parameters of a level that waits, but for set and
\* shift given to eval, and none changes a variable that is read-only
\* (exec_frame_execute_simple_command_impl, init_positional_params, variable_store_add).
THEOREM LevelsAlwaysKept == Spec => LevelsKept
<1>1. IInv /\ [Next]_vars => Untouched /\ RoForGood
  BY StepGood DEF Good
<1>2. ASSUME IInv, Untouched
      PROVE  \A i \in 1 .. Top - 1 :
                i <= Len(levels') =>
                    /\ levels'[i].locals = levels[i].locals
                    /\ levels'[i].pos = levels[i].pos \/ \A j \in i + 1 .. Top : levels[j].kind = "eval"
  <2>1. \A j \in Owner(Top) + 1 .. Top : levels[j].kind = "eval"
    BY <1>2, TopIs, OwnerIs DEF IsOwner
  <2> QED
    BY <1>2, <2>1 DEF Untouched
<1>3. RoForGood =>
        \A i \in 1 .. Top : i <= Len(levels') => \A n \in Names :
           IsReadOnly(levels[i].vars, n) =>
               n \in DOMAIN levels'[i].vars /\ levels'[i].vars[n] = levels[i].vars[n]
  BY DEF RoForGood, RoKept
<1> QED
  BY <1>1, <1>2, <1>3, InductiveScopes, PTL DEF Spec, LevelsKept, CallersKept, ReadonlyForGood

===============================================================================
