------------------------ MODULE VariableStoreProofs -------------------------
(***************************************************************************)
(* The hash table of variable_map.c and the store of variables over it,    *)
(* for any names, values, hashes and initial capacity.                     *)
(***************************************************************************)
EXTENDS VariableStore, FiniteSetTheorems, TLAPS

-----------------------------------------------------------------------------
(* Induction and recursion.                                                *)

LEMMA Least ==
    ASSUME NEW S \in SUBSET Nat, S # {}
    PROVE  \E m \in S : \A k \in S : m <= k
<1> DEFINE R == OpToRel(<, Nat)
<1>1. IsWellFoundedOn(R, Nat)
  BY NatLessThanWellFounded
<1>2. \A x, y \in Nat : x < y => <<x, y>> \in R
  BY DEF OpToRel
<1> HIDE DEF R
<1>3. PICK m \in S : \A y \in S : ~ (<<y, m>> \in R)
  BY <1>1, WFMin
<1>4. ASSUME NEW y \in S PROVE m <= y
  <2>1. m \in Nat /\ y \in Nat
    OBVIOUS
  <2>2. ~ (y < m)
    BY <2>1, <1>2, <1>3
  <2> QED
    BY <2>1, <2>2
<1> QED
  BY <1>4

\* What holds of lo, and of each number up to n if it holds of the one before.
LEMMA Induction ==
    ASSUME NEW lo \in Nat, NEW n \in Nat, NEW Good, lo \in Good,
           \A i \in lo + 1 .. n : i - 1 \in Good => i \in Good
    PROVE  \A i \in lo .. n : i \in Good
<1> DEFINE Bad == {i \in lo .. n : i \notin Good}
<1> SUFFICES ASSUME Bad # {} PROVE FALSE
  OBVIOUS
<1>1. PICK m \in Bad : \A k \in Bad : m <= k
  <2>1. Bad \in SUBSET Nat
    OBVIOUS
  <2> HIDE DEF Bad
  <2> QED
    BY <2>1, Least
<1>2. m \in lo + 1 .. n /\ m - 1 \in lo .. n
  BY <1>1
<1>3. m - 1 \notin Bad
  BY <1>1, <1>2
<1> QED
  BY <1>1, <1>2, <1>3

\* f starts at lo with s, and each of its values follows from the one before.
Run(f, lo, n, S, s, G) ==
    /\ f \in [lo .. n -> S] /\ f[lo] = s
    /\ \A i \in lo + 1 .. n : f[i] = G[i][f[i - 1]]

LEMMA Recursion ==
    ASSUME NEW lo \in Nat, NEW n \in Nat, lo <= n, NEW S, NEW s \in S,
           NEW G \in [lo + 1 .. n -> [S -> S]]
    PROVE  \E f : Run(f, lo, n, S, s, G)
<1> DEFINE Upto(m, f) == /\ f \in [lo .. m -> S] /\ f[lo] = s
                         /\ \A i \in lo + 1 .. m : f[i] = G[i][f[i - 1]]
           Good == {m \in lo .. n : \E f : Upto(m, f)}
<1>1. lo \in Good
  <2> DEFINE g == [i \in lo .. lo |-> s]
  <2>1. Upto(lo, g)
    OBVIOUS
  <2> HIDE DEF Upto, g
  <2>2. \E f : Upto(lo, f)
    BY <2>1
  <2> QED
    BY <2>2
<1>2. ASSUME NEW m \in lo + 1 .. n, m - 1 \in Good PROVE m \in Good
  <2>1. PICK f : Upto(m - 1, f)
    BY <1>2
  <2> DEFINE g == [i \in lo .. m |-> IF i = m THEN G[m][f[m - 1]] ELSE f[i]]
  <2>2. f[m - 1] \in S /\ G[m][f[m - 1]] \in S
    BY <2>1
  <2>3. \A i \in lo .. m : i # m => i \in lo .. m - 1 /\ g[i] = f[i] /\ f[i] \in S
    BY <2>1
  <2>4. g \in [lo .. m -> S] /\ g[lo] = s
    BY <2>1, <2>2, <2>3
  <2>5. ASSUME NEW i \in lo + 1 .. m PROVE g[i] = G[i][g[i - 1]]
    <3>1. i - 1 \in lo .. m - 1 /\ g[i - 1] = f[i - 1]
      BY <2>3
    <3>2. CASE i = m
      BY <3>1, <3>2
    <3>3. CASE i # m
      <4>1. i \in lo + 1 .. m - 1 /\ g[i] = f[i]
        BY <3>3, <2>3
      <4>2. f[i] = G[i][f[i - 1]]
        BY <4>1, <2>1
      <4> HIDE DEF g
      <4> QED
        BY <3>1, <4>1, <4>2
    <3> QED
      BY <3>2, <3>3
  <2> HIDE DEF g
  <2>6. Upto(m, g)
    BY <2>4, <2>5
  <2> HIDE DEF Upto
  <2>7. \E h : Upto(m, h)
    BY <2>6
  <2> QED
    BY <2>7
<1>3. n \in Good
  <2>1. \A i \in lo .. n : i \in Good
    <3> HIDE DEF Good
    <3> QED
      BY <1>1, <1>2, Induction
  <2> HIDE DEF Good
  <2> QED
    BY <2>1
<1>4. PICK f : Upto(n, f)
  BY <1>3
<1> QED
  BY <1>4 DEF Run

-----------------------------------------------------------------------------
(* Positions on the circle of slots.                                       *)

LEMMA Wrap ==
    ASSUME NEW c \in Nat \ {0}, NEW a \in 0 .. c - 1, NEW i \in 0 .. c - 1
    PROVE  (a + i) % c = IF a + i < c THEN a + i ELSE a + i - c
OBVIOUS

LEMMA SlotOfHash ==
    ASSUME NEW c \in Nat \ {0}, NEW h \in Nat
    PROVE  h % c \in 0 .. c - 1
OBVIOUS

\* x lies on the way from a to b, before b.
Between(a, x, b) == IF a <= b THEN a <= x /\ x < b ELSE a <= x \/ x < b

\* A probe that starts at a and meets a slot of Stop ends at one.
LEMMA ProbeEnds ==
    ASSUME NEW c \in Nat \ {0}, NEW a \in 0 .. c - 1,
           NEW Stop \in SUBSET (0 .. c - 1), Stop # {}
    PROVE  \E i \in 0 .. c - 1 : /\ (a + i) % c \in Stop
                                 /\ \A j \in 0 .. i - 1 : (a + j) % c \notin Stop
<1> DEFINE T == {i \in 0 .. c - 1 : (a + i) % c \in Stop}
<1>1. T # {}
  <2>1. PICK p \in Stop : TRUE
    OBVIOUS
  <2>2. p \in 0 .. c - 1
    OBVIOUS
  <2>3. CASE a <= p
    <3>1. PICK i \in 0 .. c - 1 : a + i = p /\ a + i < c
      <4>1. p - a \in 0 .. c - 1 /\ a + (p - a) = p
        BY <2>2, <2>3
      <4> QED
        BY <2>2, <4>1
    <3>2. (a + i) % c = a + i
      BY <3>1, Wrap
    <3> QED
      BY <3>1, <3>2
  <2>4. CASE p < a
    <3>1. PICK i \in 0 .. c - 1 : i = p - a + c
      BY <2>2, <2>4
    <3>2. (a + i) % c = p
      BY <2>2, <2>4, <3>1, Wrap
    <3> QED
      BY <3>2
  <2> QED
    BY <2>2, <2>3, <2>4
<1>2. T \in SUBSET Nat
  OBVIOUS
<1>3. PICK i \in T : \A k \in T : i <= k
  <2> HIDE DEF T
  <2> QED
    BY <1>1, <1>2, Least
<1>4. ASSUME NEW j \in 0 .. i - 1 PROVE (a + j) % c \notin Stop
  <2>1. j \in 0 .. c - 1 /\ ~(i <= j)
    OBVIOUS
  <2>2. j \notin T
    BY <1>3, <2>1
  <2> QED
    BY <2>1, <2>2
<1> QED
  BY <1>3, <1>4

\* Where it ends nothing of Stop lies before.
LEMMA ProbeEnded ==
    ASSUME NEW c \in Nat \ {0}, NEW a \in 0 .. c - 1, NEW Stop, NEW i \in 0 .. c - 1,
           \A j \in 0 .. i - 1 : (a + j) % c \notin Stop
    PROVE  /\ (a + i) % c \in 0 .. c - 1
           /\ \A x \in 0 .. c - 1 : Between(a, x, (a + i) % c) => x \notin Stop
<1>1. PICK p \in 0 .. c - 1 : p = (a + i) % c /\ p = IF a + i < c THEN a + i ELSE a + i - c
  <2>1. (IF a + i < c THEN a + i ELSE a + i - c) \in 0 .. c - 1
    OBVIOUS
  <2> QED
    BY <2>1, Wrap
<1>2. ASSUME NEW x \in 0 .. c - 1, Between(a, x, p) PROVE x \notin Stop
  <2>1. CASE a <= x
    <3>1. x - a \in 0 .. i - 1 /\ x - a \in 0 .. c - 1
      BY <1>1, <1>2, <2>1 DEF Between
    <3>2. (a + (x - a)) % c = x
      BY <2>1, <3>1, Wrap
    <3> QED
      BY <3>1, <3>2
  <2>2. CASE x < a
    <3>1. PICK j \in 0 .. c - 1 : j = x - a + c /\ j \in 0 .. i - 1
      BY <1>1, <1>2, <2>2 DEF Between
    <3>2. (a + j) % c = x
      BY <2>2, <3>1, Wrap
    <3> QED
      BY <3>1, <3>2
  <2> QED
    BY <2>1, <2>2
<1> QED
  BY <1>1, <1>2

-----------------------------------------------------------------------------
(* Tables.                                                                 *)

Entry == [key : Names, val : Variable]
Tables == UNION {[cap : {c}, at : [0 .. c - 1 -> Entry \cup {Free}], size : Int] : c \in Nat \ {0}}
Hashes == [Names -> Nat]

LEMMA TableIs ==
    ASSUME NEW t \in Tables
    PROVE  /\ t.cap \in Nat \ {0} /\ t.size \in Int
           /\ t.at \in [0 .. t.cap - 1 -> Entry \cup {Free}]
           /\ t = [cap |-> t.cap, at |-> t.at, size |-> t.size]
BY DEF Tables

LEMMA IsTable ==
    ASSUME NEW c \in Nat \ {0}, NEW at \in [0 .. c - 1 -> Entry \cup {Free}], NEW n \in Int
    PROVE  [cap |-> c, at |-> at, size |-> n] \in Tables
BY DEF Tables

LEMMA TableOf ==
    ASSUME NEW t \in Tables, NEW at \in [0 .. t.cap - 1 -> Entry \cup {Free}], NEW n \in Int,
           NEW u \in [cap : {t.cap}, at : {at}, size : {n}]
    PROVE  u \in Tables /\ u.cap = t.cap /\ u.size = n /\ u.at = at
BY TableIs DEF Tables

LEMMA EntryIsNotFree ==
    ASSUME NEW e \in Entry
    PROVE  e # Free /\ e.key \in Names /\ e.val \in Variable
           /\ e = [key |-> e.key, val |-> e.val]
<1>1. DOMAIN e = {"key", "val"}
  BY DEF Entry
<1>2. "key" \notin DOMAIN Free
  BY DEF Free
<1> QED
  BY <1>1, <1>2 DEF Entry

\* A slot is free or holds an entry.
LEMMA SlotIs ==
    ASSUME NEW t \in Tables, NEW p \in Slots(t)
    PROVE  /\ t.at[p] \in Entry \cup {Free}
           /\ p \in Occupied(t) <=> t.at[p] # Free
           /\ p \in Occupied(t) => t.at[p] \in Entry /\ t.at[p].key \in Names /\ t.at[p].key \in Keys(t)
BY TableIs, EntryIsNotFree DEF Slots, Occupied, Keys

LEMMA KeyIs ==
    ASSUME NEW t \in Tables, NEW k \in Keys(t)
    PROVE  /\ k \in Names
           /\ \E p \in Slots(t) : p \in Occupied(t) /\ t.at[p] # Free /\ t.at[p].key = k
BY SlotIs DEF Keys, Occupied

-----------------------------------------------------------------------------
(* Probes.                                                                 *)

Home(t, h, k) == FindSlot(t, h[k])

LEMMA HomeIs ==
    ASSUME NEW t \in Tables, NEW h \in Hashes, NEW k \in Names
    PROVE  /\ Home(t, h, k) \in Slots(t)
           /\ Slots(t) = 0 .. t.cap - 1 /\ t.cap \in Nat \ {0}
<1>1. PICK c \in Nat \ {0} : c = t.cap
  BY TableIs
<1>2. PICK m \in Nat : m = h[k]
  BY DEF Hashes
<1>3. m % c \in 0 .. c - 1
  BY SlotOfHash
<1> QED
  BY <1>1, <1>2, <1>3 DEF Home, FindSlot, Slots

\* No slot on the way from the home of k to p is free.
Reaches(t, h, k, p) == \A x \in Slots(t) : Between(Home(t, h, k), x, p) => t.at[x] # Free

\* What Probe and FirstFree choose: the slot where a probe for k ends.
StopsFor(t, k) == {q \in Slots(t) : t.at[q] = Free \/ t.at[q].key = k}

LEMMA ProbeIs ==
    ASSUME NEW t \in Tables, NEW h \in Hashes, NEW k \in Names, StopsFor(t, k) # {}
    PROVE  /\ Probe(t, h, k) \in StopsFor(t, k) /\ Probe(t, h, k) \in Slots(t)
           /\ \A x \in Slots(t) : Between(Home(t, h, k), x, Probe(t, h, k)) => x \notin StopsFor(t, k)
<1> DEFINE a == Home(t, h, k)
           Stop == StopsFor(t, k)
           stops(i) == LET e == t.at[Nth(t, a, i)] IN e = Free \/ e.key = k
           first == CHOOSE i \in Slots(t) : stops(i) /\ \A j \in 0 .. i - 1 : ~stops(j)
<1>1. PICK c \in Nat \ {0} : c = t.cap /\ Slots(t) = 0 .. c - 1 /\ a \in 0 .. c - 1
  BY HomeIs
<1>2. Probe(t, h, k) = (a + first) % c
  BY <1>1 DEF Probe, Home, Nth
<1>3. ASSUME NEW i \in 0 .. c - 1 PROVE stops(i) <=> (a + i) % c \in Stop
  <2>1. (a + i) % c \in 0 .. c - 1
    <3>1. (IF a + i < c THEN a + i ELSE a + i - c) \in 0 .. c - 1
      BY <1>1
    <3> QED
      BY <1>1, <3>1, Wrap
  <2> QED
    BY <1>1, <2>1 DEF StopsFor, Nth
<1> HIDE DEF a, stops, Stop
<1>4. PICK i \in 0 .. c - 1 : (a + i) % c \in Stop /\ \A j \in 0 .. i - 1 : (a + j) % c \notin Stop
  BY <1>1, ProbeEnds DEF Stop, StopsFor
<1>5. stops(i) /\ \A j \in 0 .. i - 1 : ~stops(j)
  BY <1>3, <1>4
<1>6. first \in 0 .. c - 1 /\ stops(first) /\ \A j \in 0 .. first - 1 : ~stops(j)
  BY <1>1, <1>5
<1> HIDE DEF first
<1>7. (a + first) % c \in Stop /\ \A j \in 0 .. first - 1 : (a + j) % c \notin Stop
  BY <1>3, <1>6
<1>8. /\ (a + first) % c \in 0 .. c - 1
      /\ \A x \in 0 .. c - 1 : Between(a, x, (a + first) % c) => x \notin Stop
  BY <1>1, <1>6, <1>7, ProbeEnded
<1> QED
  BY <1>1, <1>2, <1>7, <1>8 DEF a, Stop

LEMMA FirstFreeIs ==
    ASSUME NEW t \in Tables, NEW h \in Hashes, NEW k \in Names,
           \E q \in Slots(t) : t.at[q] = Free
    PROVE  /\ FirstFree(t, h, k) \in Slots(t) /\ t.at[FirstFree(t, h, k)] = Free
           /\ Reaches(t, h, k, FirstFree(t, h, k))
<1> DEFINE a == Home(t, h, k)
           Stop == {q \in Slots(t) : t.at[q] = Free}
           free(i) == t.at[Nth(t, a, i)] = Free
           first == CHOOSE i \in Slots(t) : free(i) /\ \A j \in 0 .. i - 1 : ~free(j)
<1>1. PICK c \in Nat \ {0} : c = t.cap /\ Slots(t) = 0 .. c - 1 /\ a \in 0 .. c - 1
  BY HomeIs
<1>2. FirstFree(t, h, k) = (a + first) % c
  BY <1>1 DEF FirstFree, Home, Nth
<1>3. ASSUME NEW i \in 0 .. c - 1 PROVE free(i) <=> (a + i) % c \in Stop
  <2>1. (a + i) % c \in 0 .. c - 1
    <3>1. (IF a + i < c THEN a + i ELSE a + i - c) \in 0 .. c - 1
      BY <1>1
    <3> QED
      BY <1>1, <3>1, Wrap
  <2> QED
    BY <1>1, <2>1 DEF Nth
<1>4. Stop # {} /\ Stop \in SUBSET (0 .. c - 1)
  BY <1>1
<1> HIDE DEF a, free, Stop
<1>5. PICK i \in 0 .. c - 1 : (a + i) % c \in Stop /\ \A j \in 0 .. i - 1 : (a + j) % c \notin Stop
  BY <1>1, <1>4, ProbeEnds
<1>6. free(i) /\ \A j \in 0 .. i - 1 : ~free(j)
  BY <1>3, <1>5
<1>7. first \in 0 .. c - 1 /\ free(first) /\ \A j \in 0 .. first - 1 : ~free(j)
  BY <1>1, <1>6
<1> HIDE DEF first
<1>8. (a + first) % c \in Stop /\ \A j \in 0 .. first - 1 : (a + j) % c \notin Stop
  BY <1>3, <1>7
<1>9. /\ (a + first) % c \in 0 .. c - 1
      /\ \A x \in 0 .. c - 1 : Between(a, x, (a + first) % c) => x \notin Stop
  BY <1>1, <1>7, <1>8, ProbeEnded
<1> QED
  BY <1>1, <1>2, <1>8, <1>9 DEF a, Stop, Reaches

\* Two slots that a probe reaches before any other at which it ends are one.
LEMMA OneEnd ==
    ASSUME NEW c \in Nat \ {0}, NEW a \in 0 .. c - 1, NEW p \in 0 .. c - 1, NEW q \in 0 .. c - 1,
           ~Between(a, p, q), ~Between(a, q, p)
    PROVE  p = q
BY DEF Between

-----------------------------------------------------------------------------
(* Good tables: no key is there twice, no free slot is on the way to an    *)
(* entry, and the size is the number of keys.                              *)

Distinct(t) == \A p, q \in Occupied(t) : t.at[p].key = t.at[q].key => p = q
Gapless(t, h) == \A p \in Occupied(t) : Reaches(t, h, t.at[p].key, p)
HasRoom(t) == \E q \in Slots(t) : t.at[q] = Free
Counted(t) == t.size = Cardinality(Keys(t)) /\ t.size < t.cap
Good(t, h) == t \in Tables /\ Distinct(t) /\ Gapless(t, h) /\ Counted(t)

LEMMA CountOfKeys ==
    ASSUME NEW t \in Tables, Distinct(t)
    PROVE  /\ IsFiniteSet(Keys(t)) /\ IsFiniteSet(Occupied(t))
           /\ Cardinality(Keys(t)) \in Nat
           /\ Cardinality(Occupied(t)) = Cardinality(Keys(t))
<1>1. PICK c \in Nat \ {0} : c = t.cap /\ Slots(t) = 0 .. c - 1
  BY TableIs DEF Slots
<1>2. IsFiniteSet(Slots(t))
  BY <1>1, FS_Interval
<1>3. IsFiniteSet(Occupied(t))
  BY <1>2, FS_Subset DEF Occupied
<1> DEFINE f == [p \in Occupied(t) |-> t.at[p].key]
<1>4. f \in Bijection(Occupied(t), Keys(t))
  BY DEF Distinct, Keys, Bijection, Injection, Surjection, IsInjective
<1>5. ExistsBijection(Occupied(t), Keys(t))
  BY <1>4 DEF ExistsBijection
<1> QED
  BY <1>3, <1>5, FS_Bijection, FS_CardinalityType

LEMMA RoomIsLeft ==
    ASSUME NEW t \in Tables, Distinct(t), Cardinality(Keys(t)) < t.cap
    PROVE  HasRoom(t)
<1>1. PICK c \in Nat \ {0} : c = t.cap /\ Slots(t) = 0 .. c - 1
  BY TableIs DEF Slots
<1>2. Cardinality(Slots(t)) = c
  BY <1>1, FS_Interval
<1>3. Cardinality(Occupied(t)) < c /\ Cardinality(Occupied(t)) \in Nat
  BY <1>1, CountOfKeys
<1>4. Occupied(t) # Slots(t)
  BY <1>2, <1>3
<1> QED
  BY <1>4 DEF Occupied, HasRoom

LEMMA GoodHasRoom ==
    ASSUME NEW t, NEW h, Good(t, h)
    PROVE  HasRoom(t)
BY RoomIsLeft DEF Good, Counted

LEMMA FoundAt ==
    ASSUME NEW t \in Tables, NEW h \in Hashes, Distinct(t), Gapless(t, h), NEW p \in Occupied(t)
    PROVE  Probe(t, h, t.at[p].key) = p
<1>1. PICK k \in Names : k = t.at[p].key
  BY SlotIs DEF Occupied
<1>2. p \in Slots(t) /\ p \in StopsFor(t, k)
  BY <1>1 DEF Occupied, StopsFor
<1>3. PICK q \in Slots(t) : /\ q = Probe(t, h, k) /\ q \in StopsFor(t, k)
                            /\ \A x \in Slots(t) : Between(Home(t, h, k), x, q) => x \notin StopsFor(t, k)
  BY <1>2, ProbeIs
<1>4. ~Between(Home(t, h, k), p, q)
  BY <1>2, <1>3
<1>5. ASSUME Between(Home(t, h, k), q, p) PROVE q = p
  <2>1. t.at[q] # Free
    BY <1>1, <1>5 DEF Gapless, Reaches
  <2>2. q \in Occupied(t) /\ t.at[q].key = k
    BY <1>3, <2>1 DEF Occupied, StopsFor
  <2> QED
    BY <1>1, <2>2 DEF Distinct
<1>6. PICK c \in Nat \ {0} : c = t.cap /\ Slots(t) = 0 .. c - 1 /\ Home(t, h, k) \in 0 .. c - 1
  BY HomeIs
<1>7. q = p
  BY <1>2, <1>4, <1>5, <1>6, OneEnd
<1> QED
  BY <1>1, <1>3, <1>7

LEMMA NotFound ==
    ASSUME NEW t \in Tables, NEW h \in Hashes, HasRoom(t), NEW k \in Names, k \notin Keys(t)
    PROVE  /\ Probe(t, h, k) \in Slots(t) /\ t.at[Probe(t, h, k)] = Free
           /\ Reaches(t, h, k, Probe(t, h, k))
<1>1. StopsFor(t, k) # {}
  BY DEF HasRoom, StopsFor
<1>2. PICK q \in Slots(t) : /\ q = Probe(t, h, k) /\ q \in StopsFor(t, k)
                            /\ \A x \in Slots(t) : Between(Home(t, h, k), x, q) => x \notin StopsFor(t, k)
  BY <1>1, ProbeIs
<1>3. t.at[q] = Free
  BY <1>2 DEF StopsFor, Keys, Occupied
<1> QED
  BY <1>2, <1>3 DEF Reaches, StopsFor

LEMMA ContainsIs ==
    ASSUME NEW t, NEW h \in Hashes, Good(t, h), NEW k \in Names
    PROVE  /\ Contains(t, h, k) <=> k \in Keys(t)
           /\ k \in Keys(t) => /\ Probe(t, h, k) \in Occupied(t)
                               /\ t.at[Probe(t, h, k)].key = k
<1>1. t \in Tables /\ Distinct(t) /\ Gapless(t, h) /\ HasRoom(t)
  BY GoodHasRoom DEF Good
<1>2. CASE k \in Keys(t)
  <2>1. PICK p \in Occupied(t) : t.at[p].key = k
    BY <1>2 DEF Keys
  <2>2. Probe(t, h, k) = p
    BY <1>1, <2>1, FoundAt
  <2>3. t.at[p] # Free
    BY DEF Occupied
  <2> QED
    BY <1>2, <2>1, <2>2, <2>3 DEF Contains, Find
<1>3. CASE k \notin Keys(t)
  BY <1>1, <1>3, NotFound DEF Contains, Find
<1> QED
  BY <1>2, <1>3

LEMMA GoodIsSound ==
    ASSUME NEW t, NEW h \in Hashes, Good(t, h)
    PROVE  Sound(t, h)
BY CountOfKeys, FoundAt DEF Good, Counted, Sound

-----------------------------------------------------------------------------
(* What a table holds.                                                     *)

Entries(t) == {t.at[p] : p \in Occupied(t)}

LEMMA EntriesAre ==
    ASSUME NEW t \in Tables
    PROVE  /\ Entries(t) \subseteq Entry
           /\ Keys(t) = {e.key : e \in Entries(t)}
           /\ Keys(t) \subseteq Names
BY SlotIs DEF Entries, Keys, Occupied

LEMMA MeaningIs ==
    ASSUME NEW t \in Tables, Distinct(t)
    PROVE  /\ DOMAIN Meaning(t) = Keys(t)
           /\ \A e \in Entries(t) : Meaning(t)[e.key] = e.val
           /\ \A k \in Keys(t) : \E e \in Entries(t) : e.key = k /\ Meaning(t)[k] = e.val
           /\ Meaning(t) \in [Keys(t) -> Variable]
<1>1. ASSUME NEW k \in Keys(t)
      PROVE  \E e \in Entries(t) : /\ e.key = k /\ Meaning(t)[k] = e.val
                                   /\ \A g \in Entries(t) : g.key = k => g = e
  <2>1. PICK e \in Entries(t) : e.key = k
    BY <1>1, EntriesAre
  <2>2. \A g \in Entries(t) : g.key = k => g = e
    BY <2>1 DEF Entries, Distinct
  <2>3. (CHOOSE g \in Entries(t) : g.key = k) = e
    BY <2>1, <2>2
  <2> QED
    BY <2>1, <2>2, <2>3 DEF Meaning, Entries
<1>2. \A e \in Entries(t) : e.key \in Keys(t) /\ e \in Entry /\ e.val \in Variable
  BY EntriesAre, EntryIsNotFree
<1>3. DOMAIN Meaning(t) = Keys(t) /\ Meaning(t) = [k \in Keys(t) |-> Meaning(t)[k]]
  BY DEF Meaning
<1> QED
  BY <1>1, <1>2, <1>3

\* Tables with the same entries mean the same.
LEMMA SameEntries ==
    ASSUME NEW t \in Tables, NEW u \in Tables, Distinct(t), Distinct(u), Entries(t) = Entries(u)
    PROVE  Meaning(t) = Meaning(u) /\ Keys(t) = Keys(u)
<1>1. Keys(t) = Keys(u)
  BY EntriesAre
<1>2. \A k \in Keys(t) : Meaning(t)[k] = Meaning(u)[k]
  BY <1>1, MeaningIs
<1> QED
  BY <1>1, <1>2, MeaningIs

\* An array with an entry more, or another one for the same key.
LEMMA Placed ==
    ASSUME NEW t \in Tables, NEW h \in Hashes, Distinct(t), Gapless(t, h),
           NEW e \in Entry, NEW p \in Slots(t),
           \/ p \in Occupied(t) /\ t.at[p].key = e.key
           \/ t.at[p] = Free /\ e.key \notin Keys(t) /\ Reaches(t, h, e.key, p),
           NEW u \in Tables, u.cap = t.cap, u.at = [t.at EXCEPT ![p] = e]
    PROVE  /\ Distinct(u) /\ Gapless(u, h)
           /\ Entries(u) = {f \in Entries(t) : f.key # e.key} \cup {e}
           /\ Keys(u) = Keys(t) \cup {e.key}
<1>1. Slots(u) = Slots(t) /\ DOMAIN t.at = Slots(t)
  BY TableIs DEF Slots
<1>2. u.at[p] = e /\ e # Free /\ \A q \in Slots(t) : q # p => u.at[q] = t.at[q]
  BY <1>1, EntryIsNotFree
<1>3. Occupied(u) = Occupied(t) \cup {p}
  BY <1>1, <1>2 DEF Occupied
<1>4. \A q \in Occupied(t) : q # p => q \in Slots(t) /\ u.at[q] = t.at[q] /\ t.at[q].key # e.key
  BY <1>2 DEF Occupied, Distinct, Keys
<1>5. Distinct(u)
  BY <1>2, <1>3, <1>4 DEF Distinct
<1>6. Entries(u) = {f \in Entries(t) : f.key # e.key} \cup {e}
  BY <1>2, <1>3, <1>4 DEF Entries, Occupied
<1>7. Gapless(u, h)
  <2>1. \A k \in Names : Home(u, h, k) = Home(t, h, k)
    BY DEF Home, FindSlot
  <2>2. Reaches(t, h, e.key, p)
    BY DEF Gapless
  <2>3. \A q \in Occupied(u) : Reaches(t, h, u.at[q].key, q) /\ u.at[q].key \in Names
    BY <1>2, <1>3, <1>4, <2>2, SlotIs, EntryIsNotFree DEF Gapless
  <2> QED
    BY <1>1, <1>2, <2>1, <2>3 DEF Gapless, Reaches
<1>8. Keys(u) = Keys(t) \cup {e.key}
  <2>1. Keys(u) = {g.key : g \in Entries(u)} /\ Keys(t) = {g.key : g \in Entries(t)}
    BY EntriesAre
  <2> QED
    BY <1>6, <2>1
<1> QED
  BY <1>5, <1>6, <1>7, <1>8

LEMMA EmptyIs ==
    ASSUME NEW c \in Nat \ {0}, NEW h
    PROVE  Good(Empty(c), h) /\ Entries(Empty(c)) = {} /\ Empty(c).cap = c
<1> DEFINE t == Empty(c)
<1>1. t.cap = c /\ t.size = 0 /\ t.at = [p \in 0 .. c - 1 |-> Free]
  BY DEF Empty
<1>2. t \in Tables
  BY IsTable DEF Empty
<1>3. Occupied(t) = {}
  BY <1>1 DEF Occupied, Slots
<1>4. Keys(t) = {} /\ Entries(t) = {}
  BY <1>3 DEF Keys, Entries
<1>5. Cardinality(Keys(t)) = 0
  BY <1>4, FS_EmptySet
<1> QED
  BY <1>1, <1>2, <1>3, <1>4, <1>5 DEF Good, Distinct, Gapless, Counted

-----------------------------------------------------------------------------
(* Moving the entries of an array into an empty table: growth, and the     *)
(* rebuilding after several keys were erased.                              *)

\* new holds what src has in the slots before i.
Moved(new, src, h, i) ==
    /\ new \in Tables /\ Distinct(new) /\ Gapless(new, h)
    /\ Entries(new) = {src.at[q] : q \in {q \in Occupied(src) : q < i}}

LEMMA MovedNext ==
    ASSUME NEW src \in Tables, Distinct(src), NEW h \in Hashes, NEW p \in Slots(src),
           NEW new, Moved(new, src, h, p), Cardinality(Keys(src)) < new.cap
    PROVE  Moved(IF src.at[p] = Free THEN new
                 ELSE [new EXCEPT !.at[FirstFree(new, h, src.at[p].key)] = src.at[p]],
                 src, h, p + 1)
<1>1. p \in Nat
  BY TableIs DEF Slots
<1>2. \A q \in Occupied(src) : q \in Nat /\ (q < p + 1 <=> q < p \/ q = p)
  BY <1>1, TableIs DEF Occupied, Slots
<1>3. CASE src.at[p] = Free
  <2>1. {q \in Occupied(src) : q < p + 1} = {q \in Occupied(src) : q < p}
    BY <1>2, <1>3 DEF Occupied
  <2> QED
    BY <1>3, <2>1 DEF Moved
<1>4. CASE src.at[p] # Free
  <2>1. PICK e \in Entry : e = src.at[p] /\ e.key \in Names
    BY <1>4, SlotIs DEF Occupied
  <2>2. p \in Occupied(src)
    BY <1>4 DEF Occupied
  <2>3. {q \in Occupied(src) : q < p + 1} = {q \in Occupied(src) : q < p} \cup {p}
    BY <1>2, <2>2
  <2>4. e.key \notin Keys(new)
    <3>1. \A q \in Occupied(src) : q < p => src.at[q].key # e.key
      BY <1>2, <2>1, <2>2 DEF Distinct
    <3>2. Keys(new) = {g.key : g \in Entries(new)}
      BY EntriesAre DEF Moved
    <3> QED
      BY <3>1, <3>2 DEF Moved
  <2>5. HasRoom(new)
    <3>1. Keys(new) \subseteq Keys(src)
      <4>1. Keys(new) = {g.key : g \in Entries(new)}
        BY EntriesAre DEF Moved
      <4> QED
        BY <4>1 DEF Moved, Keys
    <3>2. Cardinality(Keys(new)) <= Cardinality(Keys(src))
      BY <3>1, CountOfKeys, FS_Subset
    <3>3. /\ new.cap \in Nat /\ Cardinality(Keys(src)) \in Nat
          /\ Cardinality(Keys(new)) \in Nat
      BY CountOfKeys, TableIs DEF Moved
    <3> QED
      BY <3>2, <3>3, RoomIsLeft DEF Moved
  <2>6. PICK f \in Slots(new) : /\ f = FirstFree(new, h, e.key) /\ new.at[f] = Free
                                /\ Reaches(new, h, e.key, f)
    BY <2>1, <2>5, FirstFreeIs DEF Moved, HasRoom
  <2> DEFINE u == [new EXCEPT !.at[f] = e]
  <2>7. u \in Tables /\ u.cap = new.cap /\ u.at = [new.at EXCEPT ![f] = e]
    <3> DEFINE at == [new.at EXCEPT ![f] = e]
    <3>1. new \in Tables
      BY DEF Moved
    <3>2. at \in [0 .. new.cap - 1 -> Entry \cup {Free}] /\ new.size \in Int
      BY <3>1, TableIs
    <3>3. u \in [cap : {new.cap}, at : {at}, size : {new.size}]
      BY <3>1 DEF Tables
    <3> HIDE DEF u, at
    <3> QED
      BY <3>1, <3>2, <3>3, TableOf DEF at
  <2> HIDE DEF u
  <2>8. /\ Distinct(u) /\ Gapless(u, h)
        /\ Entries(u) = {g \in Entries(new) : g.key # e.key} \cup {e}
    BY <2>4, <2>6, <2>7, Placed DEF Moved
  <2>9. {g \in Entries(new) : g.key # e.key} = Entries(new)
    BY <2>4, EntriesAre DEF Moved
  <2>10. Entries(u) = {src.at[q] : q \in {q \in Occupied(src) : q < p + 1}}
    BY <2>1, <2>3, <2>8, <2>9 DEF Moved
  <2>11. Moved(u, src, h, p + 1)
    BY <2>7, <2>8, <2>10 DEF Moved
  <2> QED
    BY <1>4, <2>1, <2>6, <2>11 DEF u
<1> QED
  BY <1>3, <1>4

LEMMA ReinsertIs ==
    ASSUME NEW src \in Tables, Distinct(src), NEW h \in Hashes, NEW c \in Nat \ {0},
           Cardinality(Keys(src)) < c
    PROVE  LET r == Reinsert(Empty(c), h, src.at)
           IN  /\ r \in Tables /\ r.cap = c /\ Distinct(r) /\ Gapless(r, h)
               /\ Entries(r) = Entries(src)
<1> DEFINE S == {new \in Tables : new.cap = c}
           s == Empty(c)
           Put(e, new) == IF e = Free THEN new
                          ELSE [new EXCEPT !.at[FirstFree(new, h, e.key)] = e]
<1>1. PICK n \in Nat : n = src.cap /\ Slots(src) = 0 .. n - 1 /\ DOMAIN src.at = 0 .. n - 1
  BY TableIs DEF Slots
<1>2. Cardinality(DOMAIN src.at) = n
  BY SMTT(30), <1>1, FS_Interval
<1> DEFINE Rec(u) == u = [i \in 0 .. n |-> IF i = 0 THEN s ELSE Put(src.at[i - 1], u[i - 1])]
<1>3. Reinsert(s, h, src.at) = (CHOOSE u : Rec(u))[n]
  BY <1>2 DEF Reinsert
<1>4. s \in S
  BY EmptyIs DEF Good
<1>5. ASSUME NEW i \in 1 .. n, NEW new \in S PROVE Put(src.at[i - 1], new) \in S
  <2>1. i - 1 \in Slots(src)
    BY <1>1
  <2>2. PICK e \in Entry \cup {Free} : e = src.at[i - 1]
    BY <2>1, SlotIs
  <2>3. CASE e = Free
    BY <2>2, <2>3
  <2>4. CASE e # Free
    <3> DEFINE w == [new EXCEPT !.at[FirstFree(new, h, e.key)] = e]
    <3> DEFINE at == [new.at EXCEPT ![FirstFree(new, h, e.key)] = e]
    <3>1. w \in Tables /\ w.cap = new.cap
      <4>1. at \in [0 .. new.cap - 1 -> Entry \cup {Free}] /\ new.size \in Int
        BY <2>4, TableIs
      <4>2. w \in [cap : {new.cap}, at : {at}, size : {new.size}]
        BY DEF Tables
      <4> HIDE DEF w, at
      <4> QED
        BY <4>1, <4>2, TableOf
    <3>2. Put(e, new) = w
      BY <2>4
    <3> HIDE DEF Put, w
    <3> QED
      BY <2>2, <3>1, <3>2
  <2> QED
    BY <2>3, <2>4
<1>6. \E u : Rec(u)
  <2> DEFINE G == [i \in 1 .. n |-> [new \in S |-> Put(src.at[i - 1], new)]]
  <2>1. G \in [0 + 1 .. n -> [S -> S]]
    <3> HIDE DEF Put, S
    <3> QED
      BY <1>5
  <2>2. \A i \in 1 .. n, new \in S : G[i][new] = Put(src.at[i - 1], new)
    OBVIOUS
  <2> HIDE DEF G, Put, S, s
  <2>3. PICK f : Run(f, 0, n, S, s, G)
    <3>1. 0 \in Nat /\ 0 <= n
      OBVIOUS
    <3> QED
      BY <1>4, <2>1, <3>1, Recursion
  <2>4. f \in [0 .. n -> S] /\ f[0] = s /\ \A i \in 1 .. n : f[i] = G[i][f[i - 1]]
    BY <2>3 DEF Run
  <2>5. \A i \in 0 .. n : f[i] = IF i = 0 THEN s ELSE Put(src.at[i - 1], f[i - 1])
    BY SMTT(30), <2>2, <2>4
  <2>6. f = [i \in 0 .. n |-> f[i]]
    BY <2>4
  <2> QED
    BY <2>5, <2>6
<1>7. PICK u : Rec(u) /\ Reinsert(s, h, src.at) = u[n]
  <2> HIDE DEF Rec
  <2> QED
    BY <1>3, <1>6
<1>8. u[0] = s /\ \A i \in 1 .. n : u[i] = Put(src.at[i - 1], u[i - 1])
  <2> HIDE DEF Put, s
  <2>1. 0 \in 0 .. n /\ \A i \in 1 .. n : i \in 0 .. n /\ i # 0
    OBVIOUS
  <2> QED
    BY <1>7, <2>1
<1> HIDE DEF Rec
<1> DEFINE Done == {i \in 0 .. n : u[i] \in S /\ Moved(u[i], src, h, i)}
<1>9. 0 \in Done
  <2>1. {q \in Occupied(src) : q < 0} = {}
    BY <1>1 DEF Occupied
  <2>2. Entries(s) = {src.at[q] : q \in {q \in Occupied(src) : q < 0}}
    BY <2>1, EmptyIs
  <2>3. Moved(s, src, h, 0)
    BY <2>2, EmptyIs DEF Moved, Good
  <2> QED
    BY <1>4, <1>8, <2>3
<1>10. ASSUME NEW i \in 0 + 1 .. n, i - 1 \in Done PROVE i \in Done
  <2>1. PICK new \in S : new = u[i - 1] /\ Moved(new, src, h, i - 1)
    BY <1>10
  <2>2. PICK p \in Slots(src) : p = i - 1 /\ p + 1 = i
    BY <1>1
  <2>3. Moved(Put(src.at[p], new), src, h, p + 1)
    BY <2>1, <2>2, MovedNext
  <2>4. u[i] = Put(src.at[i - 1], new) /\ Put(src.at[i - 1], new) \in S
    <3>1. i \in 1 .. n
      OBVIOUS
    <3> HIDE DEF Put, S
    <3> QED
      BY <1>5, <1>8, <2>1, <3>1
  <2> HIDE DEF Put, S
  <2> QED
    BY <2>2, <2>3, <2>4
<1>11. n \in Done
  <2>1. \A i \in 0 .. n : i \in Done
    <3> HIDE DEF Done
    <3> QED
      BY <1>9, <1>10, Induction
  <2> QED
    BY <2>1
<1>12. {q \in Occupied(src) : q < n} = Occupied(src)
  BY <1>1 DEF Occupied
<1> QED
  BY <1>7, <1>11, <1>12 DEF Moved, Entries

\* The count is no part of the array.
LEMMA SizeChanged ==
    ASSUME NEW t \in Tables, NEW n \in Int, NEW u, u = [t EXCEPT !.size = n]
    PROVE  u \in Tables /\ u.cap = t.cap /\ u.size = n /\ u.at = t.at
<1>1. PICK c \in Nat \ {0} : t \in [cap : {c}, at : [0 .. c - 1 -> Entry \cup {Free}], size : Int]
  BY DEF Tables
<1>2. u \in [cap : {c}, at : [0 .. c - 1 -> Entry \cup {Free}], size : Int]
  BY <1>1
<1>3. u.cap = t.cap /\ u.size = n /\ u.at = t.at
  BY <1>1
<1> QED
  BY <1>2, <1>3 DEF Tables

LEMMA SameArray ==
    ASSUME NEW t, NEW u, t.cap = u.cap, t.at = u.at
    PROVE  /\ Slots(t) = Slots(u) /\ Occupied(t) = Occupied(u)
           /\ Keys(t) = Keys(u) /\ Entries(t) = Entries(u)
           /\ Distinct(t) <=> Distinct(u)
           /\ \A h : Gapless(t, h) <=> Gapless(u, h)
           /\ HasRoom(t) <=> HasRoom(u)
<1>1. Slots(t) = Slots(u) /\ Occupied(t) = Occupied(u)
  BY DEF Slots, Occupied
<1>2. \A h, k : Home(t, h, k) = Home(u, h, k)
  BY DEF Home, FindSlot
<1> QED
  BY <1>1, <1>2 DEF Keys, Entries, Distinct, Gapless, Reaches, HasRoom

LEMMA ResizeIs ==
    ASSUME NEW t, NEW h \in Hashes, Good(t, h), NEW c \in Nat \ {0}, t.cap <= c
    PROVE  /\ Good(Resize(t, h, c), h) /\ Resize(t, h, c).cap = c
           /\ Resize(t, h, c).size = t.size
           /\ Entries(Resize(t, h, c)) = Entries(t) /\ Keys(Resize(t, h, c)) = Keys(t)
<1>1. t \in Tables /\ Distinct(t) /\ t.size = Cardinality(Keys(t)) /\ t.size < t.cap
  BY DEF Good, Counted
<1>2. t.size \in Int /\ t.cap \in Nat
  BY <1>1, TableIs
<1> DEFINE r == Reinsert(Empty(c), h, t.at)
           u == [r EXCEPT !.size = t.size]
<1>3. r \in Tables /\ r.cap = c /\ Distinct(r) /\ Gapless(r, h) /\ Entries(r) = Entries(t)
  BY <1>1, <1>2, ReinsertIs
<1> HIDE DEF r
<1>4. u \in Tables /\ u.cap = r.cap /\ u.at = r.at /\ u.size = t.size
  BY <1>2, <1>3, SizeChanged
<1>5. Resize(t, h, c) = u
  BY DEF Resize, r
<1> HIDE DEF u
<1>6. Distinct(u) /\ Gapless(u, h) /\ Entries(u) = Entries(t)
  BY <1>3, <1>4, SameArray
<1>7. Keys(u) = Keys(t)
  BY <1>1, <1>4, <1>6, EntriesAre
<1> QED
  BY <1>1, <1>2, <1>3, <1>4, <1>5, <1>6, <1>7 DEF Good, Counted

LEMMA InsertIs ==
    ASSUME NEW t, NEW h \in Hashes, Good(t, h), NEW k \in Names, NEW v \in Variable
    PROVE  LET r == InsertOrAssign(t, h, k, v)
           IN  /\ Good(r, h)
               /\ Entries(r) = {e \in Entries(t) : e.key # k} \cup {[key |-> k, val |-> v]}
               /\ Keys(r) = Keys(t) \cup {k}
<1>1. t \in Tables /\ t.size < t.cap /\ t.cap \in Nat \ {0} /\ t.size \in Int
  BY TableIs DEF Good, Counted
<1> DEFINE room == IF MustGrow(t) THEN Resize(t, h, t.cap * 2) ELSE t
           pos == Probe(room, h, k)
           e == [key |-> k, val |-> v]
           n == IF room.at[pos] = Free THEN room.size + 1 ELSE room.size
           mid == [room EXCEPT !.at[pos] = e]
           u == [mid EXCEPT !.size = n]
<1>2. /\ Good(room, h) /\ room.size + 1 < room.cap
      /\ Entries(room) = Entries(t) /\ Keys(room) = Keys(t)
  <2>1. CASE MustGrow(t)
    <3>1. PICK c \in Nat \ {0} : c = t.cap * 2 /\ t.cap <= c
      BY <1>1
    <3>2. room = Resize(t, h, c)
      BY <2>1, <3>1
    <3> HIDE DEF room
    <3>3. Good(room, h) /\ room.cap = c /\ room.size = t.size
      BY <3>1, <3>2, ResizeIs
    <3> QED
      BY <1>1, <3>1, <3>2, <3>3, ResizeIs
  <2>2. CASE ~MustGrow(t)
    <3>1. ~(t.size >= (t.cap * 3) \div 4)
      BY <2>2 DEF MustGrow
    <3>2. PICK c \in Nat \ {0} : c = t.cap
      BY <1>1
    <3>3. (c * 3) \div 4 < c /\ (c * 3) \div 4 \in Int
      OBVIOUS
    <3>4. t.size + 1 < t.cap
      BY <1>1, <3>1, <3>2, <3>3
    <3> QED
      BY <2>2, <3>4
  <2> QED
    BY <2>1, <2>2
<1>3. InsertOrAssign(t, h, k, v) = u
  BY DEF InsertOrAssign
<1> HIDE DEF room
<1>4. room \in Tables /\ Distinct(room) /\ Gapless(room, h) /\ HasRoom(room)
      /\ room.size = Cardinality(Keys(room)) /\ room.size \in Int /\ room.cap \in Nat \ {0}
  BY <1>2, GoodHasRoom, TableIs DEF Good, Counted
<1>5. e \in Entry /\ e.key = k
  BY DEF Entry
<1>6. /\ pos \in Slots(room)
      /\ \/ k \in Keys(room) /\ pos \in Occupied(room) /\ room.at[pos].key = k
         \/ k \notin Keys(room) /\ room.at[pos] = Free /\ Reaches(room, h, k, pos)
  <2>1. CASE k \in Keys(room)
    BY <1>2, <2>1, ContainsIs DEF Occupied
  <2>2. CASE k \notin Keys(room)
    BY <1>4, <2>2, NotFound
  <2> QED
    BY <2>1, <2>2
<1> HIDE DEF pos
<1>7. n \in Int
  BY <1>4
<1> HIDE DEF e
<1>8. mid \in Tables /\ mid.cap = room.cap /\ mid.at = [room.at EXCEPT ![pos] = e]
  <2>1. PICK f \in Entry \cup {Free} : f = e
    BY <1>5
  <2>2. PICK p : p = pos
    OBVIOUS
  <2>3. PICK w \in Tables : w = room
    BY <1>4
  <2> DEFINE at == [w.at EXCEPT ![p] = f]
  <2>4. at \in [0 .. w.cap - 1 -> Entry \cup {Free}] /\ w.size \in Int
    BY TableIs
  <2>5. mid \in [cap : {w.cap}, at : {at}, size : {w.size}]
    BY <2>1, <2>2, <2>3 DEF Tables
  <2> HIDE DEF mid, at
  <2>6. mid \in Tables /\ mid.cap = w.cap /\ mid.at = at
    BY <2>4, <2>5, TableOf
  <2> QED
    BY <2>1, <2>2, <2>3, <2>6 DEF at
<1> HIDE DEF mid, n
<1>9. u \in Tables /\ u.cap = room.cap /\ u.at = [room.at EXCEPT ![pos] = e] /\ u.size = n
  BY <1>7, <1>8, SizeChanged
<1> HIDE DEF u
<1>10. /\ Distinct(u) /\ Gapless(u, h)
       /\ Entries(u) = {f \in Entries(room) : f.key # k} \cup {e}
       /\ Keys(u) = Keys(room) \cup {k}
  BY <1>4, <1>5, <1>6, <1>9, Placed
<1>11. u.size = Cardinality(Keys(u)) /\ u.size < u.cap
  <2>1. IsFiniteSet(Keys(room))
    BY <1>4, CountOfKeys
  <2>2. Cardinality(Keys(u)) = IF k \in Keys(room) THEN room.size ELSE room.size + 1
    BY <1>4, <1>10, <2>1, FS_AddElement
  <2>3. room.at[pos] = Free <=> k \notin Keys(room)
    BY <1>6 DEF Occupied
  <2> QED
    BY <1>2, <1>4, <1>9, <2>2, <2>3 DEF n
<1> QED
  BY <1>2, <1>3, <1>9, <1>10, <1>11 DEF Good, Counted, e

-----------------------------------------------------------------------------
(* The circle of slots cut open behind a free slot f: no probe for an      *)
(* entry passes f, so homes and entries stand in a row.                    *)

Ord(c, f, x) == IF x > f THEN x - f ELSE x - f + c

LEMMA OrdIs ==
    ASSUME NEW c \in Nat \ {0}, NEW f \in 0 .. c - 1, NEW x \in 0 .. c - 1
    PROVE  /\ Ord(c, f, x) \in 1 .. c /\ Ord(c, f, x) \in Nat
           /\ Ord(c, f, f) = c
BY DEF Ord

LEMMA OrdIsOne ==
    ASSUME NEW c \in Nat \ {0}, NEW f \in 0 .. c - 1, NEW x \in 0 .. c - 1, NEW y \in 0 .. c - 1,
           Ord(c, f, x) = Ord(c, f, y)
    PROVE  x = y
BY DEF Ord

LEMMA OrdOfNext ==
    ASSUME NEW c \in Nat \ {0}, NEW f \in 0 .. c - 1, NEW p \in 0 .. c - 1, NEW j \in 0 .. c - 1,
           Ord(c, f, p) + j <= c
    PROVE  (p + j) % c \in 0 .. c - 1 /\ Ord(c, f, (p + j) % c) = Ord(c, f, p) + j
<1> DEFINE q == IF p + j < c THEN p + j ELSE p + j - c
<1>1. (p + j) % c = q
  BY Wrap
<1>2. q \in 0 .. c - 1 /\ Ord(c, f, q) = Ord(c, f, p) + j
  BY DEF Ord
<1> QED
  BY <1>1, <1>2

\* Where the way from a to p does not pass f, it goes from left to right.
LEMMA OrdOfWay ==
    ASSUME NEW c \in Nat \ {0}, NEW f \in 0 .. c - 1, NEW a \in 0 .. c - 1, NEW p \in 0 .. c - 1
    PROVE  /\ ~Between(a, f, p) => Ord(c, f, a) <= Ord(c, f, p)
           /\ Ord(c, f, a) <= Ord(c, f, p) =>
                \A x \in 0 .. c - 1 : Between(a, x, p) <=>
                    Ord(c, f, a) <= Ord(c, f, x) /\ Ord(c, f, x) < Ord(c, f, p)
BY DEF Ord, Between

LEMMA OrdOfMove ==
    ASSUME NEW c \in Nat \ {0}, NEW f \in 0 .. c - 1,
           NEW a \in 0 .. c - 1, NEW empty \in 0 .. c - 1, NEW curr \in 0 .. c - 1,
           Ord(c, f, empty) < Ord(c, f, curr), Ord(c, f, a) <= Ord(c, f, curr)
    PROVE  ShouldMove(a, empty, curr) <=> Ord(c, f, a) <= Ord(c, f, empty)
BY DEF Ord, ShouldMove

\* Every entry stands behind its home, and no slot between is free but the
\* hole.
InRow(u, h, f, hole) ==
    \A p \in Occupied(u) :
        LET ord(x) == Ord(u.cap, f, x)
            a == Home(u, h, u.at[p].key)
        IN  /\ ord(a) <= ord(p)
            /\ \A x \in Slots(u) : ord(a) <= ord(x) /\ ord(x) < ord(p) /\ x # hole => u.at[x] # Free

\* No entry up to the m-th place needs the hole filled.
Settled(u, h, f, hole, m) ==
    \A p \in Occupied(u) :
        LET ord(x) == Ord(u.cap, f, x)
        IN  ord(p) <= m => ~(ord(Home(u, h, u.at[p].key)) <= ord(hole) /\ ord(hole) < ord(p))

LEMMA SettledIsGapless ==
    ASSUME NEW u \in Tables, NEW h \in Hashes, NEW f \in Slots(u), NEW hole \in Slots(u),
           InRow(u, h, f, hole), Settled(u, h, f, hole, u.cap)
    PROVE  Gapless(u, h)
<1>1. PICK c \in Nat \ {0} : c = u.cap /\ Slots(u) = 0 .. c - 1
  BY TableIs DEF Slots
<1> SUFFICES ASSUME NEW p \in Occupied(u), NEW x \in Slots(u),
                    Between(Home(u, h, u.at[p].key), x, p)
             PROVE  u.at[x] # Free
  BY DEF Gapless, Reaches
<1>2. p \in 0 .. c - 1 /\ u.at[p].key \in Names
  BY <1>1, SlotIs DEF Occupied
<1>3. PICK a \in 0 .. c - 1 : a = Home(u, h, u.at[p].key)
  BY <1>1, <1>2, HomeIs
<1>4. /\ Ord(c, f, a) <= Ord(c, f, p)
      /\ \A y \in Slots(u) : Ord(c, f, a) <= Ord(c, f, y) /\ Ord(c, f, y) < Ord(c, f, p) /\ y # hole
                               => u.at[y] # Free
  BY <1>1, <1>3 DEF InRow
<1>5. Ord(c, f, p) <= c
  BY <1>1, <1>2, OrdIs
<1>6. ~(Ord(c, f, a) <= Ord(c, f, hole) /\ Ord(c, f, hole) < Ord(c, f, p))
  BY <1>1, <1>3, <1>5 DEF Settled
<1>7. Ord(c, f, a) <= Ord(c, f, x) /\ Ord(c, f, x) < Ord(c, f, p)
  BY <1>1, <1>2, <1>3, <1>4, OrdOfWay
<1> QED
  BY <1>4, <1>6, <1>7

LEMMA GaplessInRow ==
    ASSUME NEW t \in Tables, NEW h \in Hashes, Gapless(t, h),
           NEW f \in Slots(t), t.at[f] = Free, NEW p \in Occupied(t)
    PROVE  LET ord(x) == Ord(t.cap, f, x)
               a == Home(t, h, t.at[p].key)
           IN  /\ ord(a) <= ord(p)
               /\ \A x \in Slots(t) : ord(a) <= ord(x) /\ ord(x) < ord(p) => t.at[x] # Free
<1>1. PICK c \in Nat \ {0} : c = t.cap /\ Slots(t) = 0 .. c - 1
  BY TableIs DEF Slots
<1>2. p \in 0 .. c - 1 /\ t.at[p].key \in Names
  BY <1>1, SlotIs DEF Occupied
<1>3. PICK a \in 0 .. c - 1 : a = Home(t, h, t.at[p].key)
  BY <1>1, <1>2, HomeIs
<1>4. \A x \in Slots(t) : Between(a, x, p) => t.at[x] # Free
  BY <1>3 DEF Gapless, Reaches
<1>5. Ord(c, f, a) <= Ord(c, f, p)
  BY <1>1, <1>2, <1>3, <1>4, OrdOfWay
<1>6. \A x \in 0 .. c - 1 : Ord(c, f, a) <= Ord(c, f, x) /\ Ord(c, f, x) < Ord(c, f, p) => Between(a, x, p)
  BY <1>1, <1>2, <1>5, OrdOfWay
<1> QED
  BY <1>1, <1>3, <1>4, <1>5, <1>6

-----------------------------------------------------------------------------
(* Erasing one entry by shifting those behind it.                          *)

LEMMA Freed ==
    ASSUME NEW t \in Tables, Distinct(t), NEW p \in Occupied(t),
           NEW u \in Tables, u.cap = t.cap, u.at[p] = Free,
           \A q \in Slots(t) : q # p => u.at[q] = t.at[q]
    PROVE  /\ Slots(u) = Slots(t)
           /\ Occupied(u) = Occupied(t) \ {p}
           /\ Distinct(u)
           /\ Entries(u) = {e \in Entries(t) : e.key # t.at[p].key}
           /\ Keys(u) = Keys(t) \ {t.at[p].key}
<1>1. Slots(u) = Slots(t) /\ p \in Slots(t)
  BY DEF Slots, Occupied
<1>2. u.at[p] = Free /\ \A q \in Slots(t) : q # p => u.at[q] = t.at[q]
  OBVIOUS
<1>3. Occupied(u) = Occupied(t) \ {p}
  BY <1>1, <1>2 DEF Occupied
<1>4. \A q \in Occupied(u) : u.at[q] = t.at[q] /\ t.at[q].key # t.at[p].key
  BY <1>2, <1>3 DEF Distinct, Occupied
<1>5. Distinct(u)
  BY <1>3, <1>4 DEF Distinct
<1>6. Entries(u) = {e \in Entries(t) : e.key # t.at[p].key}
  BY <1>3, <1>4 DEF Entries
<1>7. Keys(u) = Keys(t) \ {t.at[p].key}
  BY <1>3, <1>4 DEF Keys
<1> QED
  BY <1>1, <1>3, <1>5, <1>6, <1>7

LEMMA EntryMoved ==
    ASSUME NEW u \in Tables, Distinct(u), NEW p \in Occupied(u), NEW q \in Slots(u), u.at[q] = Free,
           NEW w \in Tables, w.cap = u.cap, w.at[q] = u.at[p], w.at[p] = Free,
           \A x \in Slots(u) : x # p /\ x # q => w.at[x] = u.at[x]
    PROVE  /\ Slots(w) = Slots(u) /\ p # q
           /\ Occupied(w) = (Occupied(u) \ {p}) \cup {q}
           /\ Distinct(w) /\ Entries(w) = Entries(u)
<1>1. Slots(w) = Slots(u) /\ p \in Slots(u) /\ p # q /\ u.at[p] # Free
  BY DEF Slots, Occupied
<1>2. /\ w.at[p] = Free /\ w.at[q] = u.at[p]
      /\ \A x \in Slots(u) : x # p /\ x # q => w.at[x] = u.at[x]
  OBVIOUS
<1>3. Occupied(w) = (Occupied(u) \ {p}) \cup {q}
  BY <1>1, <1>2 DEF Occupied
<1>4. \A x \in Occupied(w) : x # q => x \in Occupied(u) /\ x # p /\ w.at[x] = u.at[x]
  BY <1>1, <1>2, <1>3 DEF Occupied
<1>5. Distinct(w)
  BY <1>1, <1>2, <1>4, <1>3 DEF Distinct
<1>6. Entries(w) = Entries(u)
  <2>1. Entries(w) \subseteq Entries(u)
    BY <1>2, <1>4 DEF Entries
  <2>2. ASSUME NEW x \in Occupied(u) PROVE u.at[x] \in Entries(w)
    <3>1. CASE x = p
      BY <1>2, <1>3, <3>1 DEF Entries
    <3>2. CASE x # p
      BY <1>1, <1>2, <1>3, <3>2 DEF Entries, Occupied
    <3> QED
      BY <3>1, <3>2
  <2> QED
    BY <2>1, <2>2 DEF Entries
<1> QED
  BY <1>1, <1>2, <1>3, <1>5, <1>6

\* After m places in the row were looked at, the hole is among them.
Shifting(u, h, f, hole, from, m, E) ==
    /\ u \in Tables /\ Distinct(u) /\ Entries(u) = E
    /\ f \in Slots(u) /\ u.at[f] = Free
    /\ hole \in Slots(u) /\ u.at[hole] = Free
    /\ from <= Ord(u.cap, f, hole) /\ Ord(u.cap, f, hole) <= m
    /\ InRow(u, h, f, hole)
    /\ Settled(u, h, f, hole, m)

LEMMA ShiftEnds ==
    ASSUME NEW u, NEW h \in Hashes, NEW f, NEW hole, NEW from \in Nat, NEW m \in Nat, NEW E,
           Shifting(u, h, f, hole, from, m, E),
           NEW curr \in Slots(u), Ord(u.cap, f, curr) = m + 1, u.at[curr] = Free
    PROVE  Settled(u, h, f, hole, u.cap)
<1>1. u \in Tables /\ f \in Slots(u) /\ hole \in Slots(u)
  BY DEF Shifting
<1>2. PICK c \in Nat \ {0} : c = u.cap /\ Slots(u) = 0 .. c - 1
  BY <1>1, TableIs DEF Slots
<1> SUFFICES ASSUME NEW p \in Occupied(u), Ord(c, f, p) <= c
             PROVE  ~(/\ Ord(c, f, Home(u, h, u.at[p].key)) <= Ord(c, f, hole)
                      /\ Ord(c, f, hole) < Ord(c, f, p))
  BY <1>2 DEF Settled
<1>3. p \in 0 .. c - 1 /\ u.at[p].key \in Names /\ p # curr
  BY <1>1, <1>2, SlotIs DEF Occupied
<1>4. PICK a \in 0 .. c - 1 : a = Home(u, h, u.at[p].key)
  BY <1>1, <1>2, <1>3, HomeIs
<1>5. CASE Ord(c, f, p) <= m
  BY <1>2, <1>5 DEF Settled, Shifting
<1>6. CASE ~(Ord(c, f, p) <= m)
  <2>1. Ord(c, f, p) # Ord(c, f, curr) /\ Ord(c, f, p) \in Nat /\ Ord(c, f, a) \in Nat
        /\ Ord(c, f, hole) \in Nat
    <3>1. f \in 0 .. c - 1 /\ hole \in 0 .. c - 1 /\ curr \in 0 .. c - 1
      BY <1>1, <1>2
    <3>2. Ord(c, f, p) # Ord(c, f, curr)
      BY <1>3, <3>1, OrdIsOne
    <3> QED
      BY <1>3, <3>1, <3>2, OrdIs
  <2>2. Ord(c, f, curr) < Ord(c, f, p)
    BY <1>2, <1>6, <2>1
  <2>3. Ord(c, f, hole) < Ord(c, f, curr) /\ curr # hole
    BY <1>2, <2>1 DEF Shifting
  <2>4. ~(Ord(c, f, a) <= Ord(c, f, curr))
    BY <1>2, <1>4, <2>2, <2>3 DEF Shifting, InRow
  <2> QED
    BY <1>4, <2>1, <2>3, <2>4, <1>2
<1> QED
  BY <1>5, <1>6

LEMMA ShiftGoesOn ==
    ASSUME NEW u, NEW h \in Hashes, NEW f, NEW hole, NEW from \in Nat, NEW m \in Nat, NEW E,
           Shifting(u, h, f, hole, from, m, E),
           NEW curr \in Slots(u), Ord(u.cap, f, curr) = m + 1, u.at[curr] # Free,
           NEW w \in Tables, w.cap = u.cap,
           NEW to,
           \/ /\ ShouldMove(Home(u, h, u.at[curr].key), hole, curr)
              /\ w.at[hole] = u.at[curr] /\ w.at[curr] = Free
              /\ \A x \in Slots(u) : x # curr /\ x # hole => w.at[x] = u.at[x]
              /\ to = curr
           \/ /\ ~ShouldMove(Home(u, h, u.at[curr].key), hole, curr)
              /\ w = u /\ to = hole
    PROVE  Shifting(w, h, f, to, from, m + 1, E)
<1>1. u \in Tables /\ f \in Slots(u) /\ hole \in Slots(u) /\ Distinct(u) /\ u.at[hole] = Free
  BY DEF Shifting
<1>2. PICK c \in Nat \ {0} : /\ c = u.cap /\ Slots(u) = 0 .. c - 1
                            /\ f \in 0 .. c - 1 /\ hole \in 0 .. c - 1 /\ curr \in 0 .. c - 1
  BY <1>1, TableIs DEF Slots
<1>3. curr \in Occupied(u) /\ curr # f /\ curr # hole /\ u.at[curr].key \in Names
  BY <1>1, SlotIs DEF Occupied, Shifting
<1>4. PICK a \in 0 .. c - 1 : a = Home(u, h, u.at[curr].key)
  BY <1>1, <1>2, <1>3, HomeIs
<1>5. /\ Ord(c, f, hole) \in Nat /\ Ord(c, f, a) \in Nat /\ Ord(c, f, curr) = m + 1
      /\ from <= Ord(c, f, hole) /\ Ord(c, f, hole) <= m /\ Ord(c, f, a) <= m + 1
  <2>1. Ord(c, f, hole) \in Nat /\ Ord(c, f, a) \in Nat
    BY <1>2, <1>4, OrdIs
  <2>2. Ord(c, f, a) <= Ord(c, f, curr)
    BY <1>2, <1>3, <1>4 DEF Shifting, InRow
  <2> QED
    BY <1>2, <2>1, <2>2 DEF Shifting
<1>6. ShouldMove(a, hole, curr) <=> Ord(c, f, a) <= Ord(c, f, hole)
  BY SMTT(30), <1>1, <1>2, <1>5, OrdOfMove
<1>7. CASE ShouldMove(a, hole, curr)
  <2>1. /\ w.at[hole] = u.at[curr] /\ w.at[curr] = Free
        /\ \A x \in Slots(u) : x # curr /\ x # hole => w.at[x] = u.at[x]
        /\ to = curr
    BY <1>4, <1>7
  <2>2. /\ Slots(w) = Slots(u) /\ w.at[curr] = Free /\ w.at[hole] = u.at[curr]
        /\ \A x \in Slots(u) : x # curr /\ x # hole => w.at[x] = u.at[x]
        /\ Occupied(w) = (Occupied(u) \ {curr}) \cup {hole}
        /\ Distinct(w) /\ Entries(w) = Entries(u)
    <3> QED
      BY <1>1, <1>3, <2>1, EntryMoved
  <2>3. \A k : Home(w, h, k) = Home(u, h, k)
    BY DEF Home, FindSlot
  <2>4. f # hole => w.at[f] = Free
    BY <1>1, <1>3, <2>2 DEF Shifting
  <2>5. f # hole
    <3>1. Ord(c, f, f) = c /\ Ord(c, f, curr) \in 1 .. c
      BY <1>1, <1>2, OrdIs
    <3> QED
      BY <1>5, <3>1
  <2>6. ASSUME NEW p \in Occupied(w), NEW b, b = Home(w, h, w.at[p].key)
        PROVE  /\ Ord(c, f, b) <= Ord(c, f, p)
               /\ \A x \in Slots(u) :
                     Ord(c, f, b) <= Ord(c, f, x) /\ Ord(c, f, x) < Ord(c, f, p) /\ x # curr
                       => w.at[x] # Free
               /\ Ord(c, f, p) <= m + 1 => ~(m + 1 < Ord(c, f, p))
    <3>1. CASE p = hole
      <4>1. b = a
        BY <1>4, <2>2, <2>3, <2>6, <3>1
      <4>2. Ord(c, f, a) <= Ord(c, f, hole)
        BY <1>6, <1>7
      <4>3. ASSUME NEW x \in Slots(u), Ord(c, f, a) <= Ord(c, f, x), Ord(c, f, x) < Ord(c, f, hole)
            PROVE  w.at[x] # Free
        <5>1. Ord(c, f, x) \in Nat
          <6>1. x \in 0 .. c - 1
            BY <1>2
          <6> QED
            BY <1>2, <6>1, OrdIs
        <5>2. x # hole /\ x # curr /\ Ord(c, f, x) < Ord(c, f, curr)
          BY <1>5, <4>3, <5>1
        <5>3. u.at[x] # Free
          BY <1>2, <1>3, <1>4, <4>3, <5>2 DEF Shifting, InRow
        <5> QED
          BY <2>2, <5>2, <5>3
      <4>4. ~(m + 1 < Ord(c, f, hole))
        BY <1>5
      <4> QED
        BY <3>1, <4>1, <4>2, <4>3, <4>4
    <3>2. CASE p # hole
      <4>1. p \in Occupied(u) /\ p # curr /\ w.at[p] = u.at[p] /\ p \in Slots(u)
        BY <2>2, <3>2 DEF Occupied
      <4>2. b = Home(u, h, u.at[p].key)
        BY <2>3, <2>6, <4>1
      <4>3. /\ Ord(c, f, b) <= Ord(c, f, p)
            /\ \A x \in Slots(u) : Ord(c, f, b) <= Ord(c, f, x) /\ Ord(c, f, x) < Ord(c, f, p) /\ x # hole
                                     => u.at[x] # Free
        BY <1>2, <4>1, <4>2 DEF Shifting, InRow
      <4>4. w.at[hole] # Free
        BY <1>3, <2>2 DEF Occupied
      <4>5. Ord(c, f, p) \in Nat
        <5>1. p \in 0 .. c - 1
          BY <1>2, <4>1
        <5> QED
          BY <1>2, <5>1, OrdIs
      <4>6. ASSUME NEW x \in Slots(u), Ord(c, f, b) <= Ord(c, f, x), Ord(c, f, x) < Ord(c, f, p), x # curr
            PROVE  w.at[x] # Free
        <5>1. CASE x = hole
          BY <4>4, <5>1
        <5>2. CASE x # hole
          <6>1. w.at[x] = u.at[x]
            BY <2>2, <4>6, <5>2
          <6>2. u.at[x] # Free
            BY <4>3, <4>6, <5>2
          <6> QED
            BY <6>1, <6>2
        <5> QED
          BY <5>1, <5>2
      <4>7. Ord(c, f, p) <= m + 1 => ~(m + 1 < Ord(c, f, p))
        BY <4>5
      <4> QED
        BY <4>3, <4>6, <4>7
    <3> QED
      BY <3>1, <3>2
  <2>7. InRow(w, h, f, curr) /\ Settled(w, h, f, curr, m + 1)
    BY <1>2, <1>5, <2>2, <2>6 DEF InRow, Settled
  <2> QED
    BY <1>1, <1>2, <1>5, <2>1, <2>2, <2>4, <2>5, <2>7 DEF Shifting
<1>8. CASE ~ShouldMove(a, hole, curr)
  <2>1. w = u /\ to = hole
    BY <1>4, <1>8
  <2>2. ASSUME NEW p \in Occupied(u), Ord(c, f, p) <= m + 1
        PROVE  ~(/\ Ord(c, f, Home(u, h, u.at[p].key)) <= Ord(c, f, hole)
                 /\ Ord(c, f, hole) < Ord(c, f, p))
    <3>1. CASE p = curr
      BY <1>4, <1>6, <1>8, <3>1
    <3>2. CASE p # curr
      <4>1. p \in Slots(u)
        BY DEF Occupied
      <4>2. Ord(c, f, p) # m + 1 /\ Ord(c, f, p) \in Nat
        <5>1. p \in 0 .. c - 1
          BY <1>2, <4>1
        <5>2. Ord(c, f, p) # Ord(c, f, curr)
          BY <1>2, <3>2, <5>1, OrdIsOne
        <5> QED
          BY <1>2, <1>5, <5>1, <5>2, OrdIs
      <4>3. Ord(c, f, p) <= m
        BY <2>2, <4>2
      <4> QED
        BY <1>2, <4>3 DEF Shifting, Settled
    <3> QED
      BY <3>1, <3>2
  <2>3. Settled(u, h, f, hole, m + 1)
    BY <1>2, <2>2 DEF Settled
  <2> QED
    BY <1>2, <1>5, <2>1, <2>3 DEF Shifting
<1> QED
  BY <1>7, <1>8

\* The state of the scan in backward_shift_deletion, over c slots.
Scans(c) == [at : [0 .. c - 1 -> Entry \cup {Free}], empty : 0 .. c - 1, done : BOOLEAN]
Arr(c, at) == [cap |-> c, at |-> at, size |-> 0]

Scanned(c, h, f, from, m, E, s) ==
    /\ s \in Scans(c)
    /\ s.done => Distinct(Arr(c, s.at)) /\ Gapless(Arr(c, s.at), h) /\ Entries(Arr(c, s.at)) = E
    /\ ~s.done => m < c /\ Shifting(Arr(c, s.at), h, f, s.empty, from, m, E)

ScanStep(t, h, hole, i, s) ==
    LET curr == Nth(t, hole, i - 1)
        e == s.at[curr]
    IN  IF s.done \/ e = Free THEN [s EXCEPT !.done = TRUE]
        ELSE IF ShouldMove(FindSlot(t, h[e.key]), s.empty, curr)
        THEN [s EXCEPT !.at[s.empty] = e, !.at[curr] = Free, !.empty = curr]
        ELSE s

LEMMA ArrIs ==
    ASSUME NEW c \in Nat \ {0}, NEW at \in [0 .. c - 1 -> Entry \cup {Free}]
    PROVE  /\ Arr(c, at) \in Tables /\ Arr(c, at).cap = c /\ Arr(c, at).at = at
           /\ Slots(Arr(c, at)) = 0 .. c - 1
BY IsTable DEF Arr, Slots

LEMMA ScanStepInScans ==
    ASSUME NEW c \in Nat \ {0}, NEW t, t.cap = c, NEW h, NEW hole \in 0 .. c - 1,
           NEW i \in 1 .. c, NEW s \in Scans(c)
    PROVE  ScanStep(t, h, hole, i, s) \in Scans(c)
<1>1. PICK curr \in 0 .. c - 1 : curr = Nth(t, hole, i - 1)
  <2>1. i - 1 \in 0 .. c - 1
    OBVIOUS
  <2>2. PICK j \in 0 .. c - 1 : j = i - 1
    BY <2>1
  <2>3. hole + j \in Nat
    OBVIOUS
  <2> QED
    BY <2>2, <2>3, SlotOfHash DEF Nth
<1>2. PICK e \in Entry \cup {Free} : e = s.at[curr]
  BY DEF Scans
<1>3. [s EXCEPT !.done = TRUE] \in Scans(c)
  BY DEF Scans
<1>4. [s EXCEPT !.at[s.empty] = e, !.at[curr] = Free, !.empty = curr] \in Scans(c)
  BY DEF Scans
<1> QED
  BY <1>1, <1>2, <1>3, <1>4 DEF ScanStep

LEMMA ScanNext ==
    ASSUME NEW c \in Nat \ {0}, NEW t, t.cap = c, NEW h \in Hashes,
           NEW f \in 0 .. c - 1, NEW hole \in 0 .. c - 1, NEW i \in 2 .. c,
           NEW from \in Nat, from = Ord(c, f, hole), NEW E,
           NEW s, Scanned(c, h, f, from, from + i - 2, E, s)
    PROVE  Scanned(c, h, f, from, from + i - 1, E, ScanStep(t, h, hole, i, s))
<1> DEFINE r == ScanStep(t, h, hole, i, s)
           u == Arr(c, s.at)
<1>1. s \in Scans(c) /\ r \in Scans(c)
  BY ScanStepInScans DEF Scanned
<1>2. u \in Tables /\ u.cap = c /\ u.at = s.at /\ Slots(u) = 0 .. c - 1
  BY <1>1, ArrIs DEF Scans
<1>3. CASE s.done
  <2>1. r = [s EXCEPT !.done = TRUE]
    BY <1>3 DEF ScanStep
  <2>2. r.done /\ r.at = s.at
    BY <1>1, <2>1 DEF Scans
  <2> QED
    BY <1>1, <1>3, <2>2 DEF Scanned
<1>4. CASE ~s.done
  <2>1. PICK m \in Nat : m = from + i - 2
    OBVIOUS
  <2>2. m < c /\ Shifting(u, h, f, s.empty, from, m, E)
    BY <1>4, <2>1 DEF Scanned
  <2>3. PICK curr \in 0 .. c - 1 : curr = Nth(t, hole, i - 1) /\ Ord(c, f, curr) = m + 1
    <3>1. PICK j \in 0 .. c - 1 : j = i - 1
      OBVIOUS
    <3>2. Ord(c, f, hole) + j <= c
      BY <2>1, <2>2, <3>1
    <3>3. (hole + j) % c \in 0 .. c - 1 /\ Ord(c, f, (hole + j) % c) = Ord(c, f, hole) + j
      BY <3>2, OrdOfNext
    <3> QED
      BY <2>1, <3>1, <3>3 DEF Nth
  <2>4. PICK e \in Entry \cup {Free} : e = s.at[curr]
    BY <1>1 DEF Scans
  <2>5. u.at[f] = Free /\ s.empty \in 0 .. c - 1
    BY <1>1, <2>2 DEF Shifting, Scans
  <2> HIDE DEF u
  <2>6. CASE e = Free
    <3>1. r = [s EXCEPT !.done = TRUE]
      BY <2>3, <2>4, <2>6 DEF ScanStep
    <3>2. r.done /\ r.at = s.at
      BY <1>1, <3>1 DEF Scans
    <3>3. Settled(u, h, f, s.empty, c)
      BY <1>2, <2>2, <2>3, <2>4, <2>6, ShiftEnds
    <3>4. Gapless(u, h)
      BY <1>2, <2>2, <2>5, <3>3, SettledIsGapless DEF Shifting
    <3>5. Distinct(u) /\ Entries(u) = E
      BY <2>2 DEF Shifting
    <3> QED
      BY <1>1, <3>2, <3>4, <3>5 DEF Scanned, u
  <2>7. CASE e # Free
    <3>1. m + 1 < c
      <4>1. curr # f
        BY <1>2, <2>4, <2>5, <2>7
      <4>2. Ord(c, f, curr) # Ord(c, f, f)
        BY <2>3, <4>1, OrdIsOne
      <4>3. Ord(c, f, f) = c
        BY OrdIs
      <4> QED
        BY <2>1, <2>2, <2>3, <4>2, <4>3
    <3> DEFINE a == FindSlot(t, h[e.key])
               w == Arr(c, r.at)
    <3>2. a = Home(u, h, u.at[curr].key)
      BY <1>2, <2>4 DEF Home, FindSlot
    <3>3. w \in Tables /\ w.cap = c /\ w.at = r.at
      BY <1>1, ArrIs DEF Scans
    <3>4. ~r.done /\ \/ /\ ShouldMove(a, s.empty, curr)
                        /\ r.at = [[s.at EXCEPT ![s.empty] = e] EXCEPT ![curr] = Free]
                        /\ r.empty = curr
                     \/ /\ ~ShouldMove(a, s.empty, curr)
                        /\ r = s
      <4>1. CASE ShouldMove(a, s.empty, curr)
        <5>1. r = [s EXCEPT !.at[s.empty] = e, !.at[curr] = Free, !.empty = curr]
          BY <1>4, <2>3, <2>4, <2>7, <4>1 DEF ScanStep
        <5>2. ~r.done /\ r.empty = curr /\ r.at = [[s.at EXCEPT ![s.empty] = e] EXCEPT ![curr] = Free]
          BY <1>1, <1>4, <5>1 DEF Scans
        <5> QED
          BY <4>1, <5>2
      <4>2. CASE ~ShouldMove(a, s.empty, curr)
        BY <1>4, <2>3, <2>4, <2>7, <4>2 DEF ScanStep
      <4> QED
        BY <4>1, <4>2
    <3> HIDE DEF a, r
    <3>5. \/ /\ ShouldMove(Home(u, h, u.at[curr].key), s.empty, curr)
             /\ w.at[s.empty] = u.at[curr] /\ w.at[curr] = Free
             /\ \A x \in Slots(u) : x # curr /\ x # s.empty => w.at[x] = u.at[x]
             /\ r.empty = curr
          \/ /\ ~ShouldMove(Home(u, h, u.at[curr].key), s.empty, curr)
             /\ w = u /\ r.empty = s.empty
      <4>1. CASE ShouldMove(a, s.empty, curr)
        <5>1. w.at = [[s.at EXCEPT ![s.empty] = e] EXCEPT ![curr] = Free] /\ r.empty = curr
          BY <3>3, <3>4, <4>1
        <5>2. s.at \in [0 .. c - 1 -> Entry \cup {Free}] /\ s.empty \in 0 .. c - 1
          BY <1>1 DEF Scans
        <5>3. s.empty # curr
          BY <1>2, <2>2, <2>4, <2>7 DEF Shifting
        <5> HIDE DEF w
        <5> QED
          BY SMTT(30), <1>2, <2>4, <3>2, <4>1, <5>1, <5>2, <5>3
      <4>2. CASE ~ShouldMove(a, s.empty, curr)
        BY <3>2, <3>4, <4>2 DEF u
      <4> QED
        BY <4>1, <4>2
    <3> HIDE DEF w
    <3>6. Shifting(w, h, f, r.empty, from, m + 1, E)
      <4>1. Shifting(u, h, f, s.empty, from, m, E)
        BY <2>2
      <4>2. curr \in Slots(u) /\ Ord(u.cap, f, curr) = m + 1 /\ u.at[curr] # Free
        BY <1>2, <2>3, <2>4, <2>7
      <4>3. w \in Tables /\ w.cap = u.cap
        BY <1>2, <3>3
      <4> QED
        BY <3>5, <4>1, <4>2, <4>3, ShiftGoesOn
    <3>7. m + 1 = from + i - 1
      BY <2>1
    <3> QED
      BY <1>1, <3>1, <3>4, <3>6, <3>7 DEF Scanned, w, r
  <2> QED
    BY <2>6, <2>7
<1> QED
  BY <1>3, <1>4

LEMMA BackwardShiftIs ==
    ASSUME NEW t \in Tables, Distinct(t), NEW h \in Hashes,
           NEW hole \in Slots(t), t.at[hole] = Free,
           NEW f \in Slots(t), t.at[f] = Free, f # hole,
           InRow(t, h, f, hole), Settled(t, h, f, hole, Ord(t.cap, f, hole))
    PROVE  LET r == BackwardShift(t, h, hole)
           IN  /\ r \in Tables /\ r.cap = t.cap /\ r.size = t.size
               /\ Distinct(r) /\ Gapless(r, h) /\ Entries(r) = Entries(t)
<1>1. PICK c \in Nat \ {0} : c = t.cap /\ Slots(t) = 0 .. c - 1
  BY TableIs DEF Slots
<1>2. PICK from \in Nat : from = Ord(c, f, hole)
  BY <1>1, OrdIs
<1> DEFINE S == Scans(c)
           s1 == [at |-> t.at, empty |-> hole, done |-> FALSE]
           Rec(u) == u = [i \in 1 .. c |-> IF i = 1 THEN s1 ELSE ScanStep(t, h, hole, i, u[i - 1])]
<1>3. BackwardShift(t, h, hole) = [t EXCEPT !.at = (CHOOSE u : Rec(u))[c].at]
  BY <1>1 DEF BackwardShift, ScanStep
<1>4. s1 \in S
  BY <1>1, TableIs DEF Scans
<1>5. ASSUME NEW i \in 1 .. c, NEW s \in S PROVE ScanStep(t, h, hole, i, s) \in S
  BY <1>1, ScanStepInScans
<1>6. \E u : Rec(u)
  <2> DEFINE G == [i \in 2 .. c |-> [s \in S |-> ScanStep(t, h, hole, i, s)]]
  <2>1. G \in [1 + 1 .. c -> [S -> S]]
    <3>1. \A i \in 2 .. c : i \in 1 .. c
      OBVIOUS
    <3>2. 1 + 1 .. c = 2 .. c
      OBVIOUS
    <3> HIDE DEF S
    <3> QED
      BY <1>5, <3>1, <3>2
  <2>2. \A i \in 2 .. c, s \in S : G[i][s] = ScanStep(t, h, hole, i, s)
    OBVIOUS
  <2> HIDE DEF G, S, s1
  <2>3. PICK g : Run(g, 1, c, S, s1, G)
    <3>1. 1 \in Nat /\ 1 <= c
      OBVIOUS
    <3> QED
      BY <1>4, <2>1, <3>1, Recursion
  <2>4. g \in [1 .. c -> S] /\ g[1] = s1 /\ \A i \in 2 .. c : g[i] = G[i][g[i - 1]]
    BY <2>3 DEF Run
  <2>5. ASSUME NEW i \in 1 .. c
        PROVE  g[i] = IF i = 1 THEN s1 ELSE ScanStep(t, h, hole, i, g[i - 1])
    <3>1. CASE i = 1
      BY <2>4, <3>1
    <3>2. CASE i # 1
      <4>1. i \in 2 .. c /\ i - 1 \in 1 .. c
        BY <3>2
      <4>2. g[i - 1] \in S /\ g[i] = G[i][g[i - 1]]
        BY <2>4, <4>1
      <4> QED
        BY <2>2, <3>2, <4>1, <4>2
    <3> QED
      BY <3>1, <3>2
  <2>6. g = [i \in 1 .. c |-> g[i]]
    BY <2>4
  <2>7. [i \in 1 .. c |-> g[i]]
          = [i \in 1 .. c |-> IF i = 1 THEN s1 ELSE ScanStep(t, h, hole, i, g[i - 1])]
    BY <2>5
  <2>8. Rec(g)
    BY <2>6, <2>7
  <2> HIDE DEF Rec
  <2> QED
    BY <2>8
<1>7. PICK u : Rec(u) /\ BackwardShift(t, h, hole) = [t EXCEPT !.at = u[c].at]
  <2> HIDE DEF Rec
  <2> QED
    BY <1>3, <1>6
<1>8. u[1] = s1 /\ \A i \in 2 .. c : u[i] = ScanStep(t, h, hole, i, u[i - 1])
  <2> HIDE DEF s1
  <2>1. 1 \in 1 .. c /\ \A i \in 2 .. c : i \in 1 .. c /\ i # 1
    OBVIOUS
  <2> QED
    BY <1>7, <2>1
<1> HIDE DEF Rec, S
<1> DEFINE Done == {i \in 1 .. c : Scanned(c, h, f, from, from + i - 1, Entries(t), u[i])}
<1>9. 1 \in Done
  <2> DEFINE a == Arr(c, t.at)
  <2>1. a.cap = t.cap /\ a.at = t.at /\ a \in Tables
    BY <1>1, TableIs, ArrIs
  <2> HIDE DEF a
  <2>2. Slots(a) = Slots(t) /\ Occupied(a) = Occupied(t) /\ Entries(a) = Entries(t) /\ Distinct(a)
    BY <2>1, SameArray
  <2>3. \A k : Home(a, h, k) = Home(t, h, k)
    BY <2>1 DEF Home, FindSlot
  <2>4. InRow(a, h, f, hole) /\ Settled(a, h, f, hole, from)
    BY <1>1, <1>2, <2>1, <2>2, <2>3 DEF InRow, Settled
  <2>5. Shifting(a, h, f, hole, from, from, Entries(t))
    BY <1>1, <1>2, <2>1, <2>2, <2>4 DEF Shifting
  <2>6. from < c
    <3>1. from \in 1 .. c
      BY <1>1, <1>2, OrdIs
    <3>2. from # c
      BY <1>1, <1>2, OrdIs, OrdIsOne
    <3> QED
      BY <3>1, <3>2
  <2>7. Scanned(c, h, f, from, from, Entries(t), s1)
    BY <1>4, <2>5, <2>6 DEF Scanned, a, S
  <2>8. 1 \in 1 .. c /\ from + 1 - 1 = from
    OBVIOUS
  <2> HIDE DEF s1
  <2> QED
    BY <1>8, <2>7, <2>8
<1>10. ASSUME NEW i \in 1 + 1 .. c, i - 1 \in Done PROVE i \in Done
  <2>1. PICK j \in 2 .. c : j = i /\ j - 1 \in Done /\ from + (j - 1) - 1 = from + j - 2
    BY <1>10
  <2>2. Scanned(c, h, f, from, from + j - 2, Entries(t), u[j - 1])
    BY <2>1
  <2>3. Scanned(c, h, f, from, from + j - 1, Entries(t), ScanStep(t, h, hole, j, u[j - 1]))
    <3>1. t.cap = c /\ f \in 0 .. c - 1 /\ hole \in 0 .. c - 1
      BY <1>1
    <3> QED
      BY <1>2, <2>2, <3>1, ScanNext
  <2>4. j \in 1 .. c /\ u[j] = ScanStep(t, h, hole, j, u[j - 1])
    BY <1>8
  <2> QED
    BY <2>1, <2>3, <2>4
<1>11. Scanned(c, h, f, from, from + c - 1, Entries(t), u[c])
  <2>1. \A i \in 1 .. c : i \in Done
    <3>1. 1 \in Nat /\ c \in Nat
      OBVIOUS
    <3> HIDE DEF Done
    <3> QED
      BY <1>9, <1>10, <3>1, Induction
  <2>2. c \in Done
    <3> HIDE DEF Done
    <3> QED
      BY <2>1
  <2> QED
    BY <2>2
<1> DEFINE a == Arr(c, u[c].at)
<1>12. u[c].at \in [0 .. c - 1 -> Entry \cup {Free}] /\ Distinct(a) /\ Gapless(a, h) /\ Entries(a) = Entries(t)
  <2>1. from >= 1
    BY <1>1, <1>2, OrdIs
  <2>2. ~(from + c - 1 < c)
    BY <2>1
  <2>3. u[c] \in Scans(c) /\ u[c].done
    BY <1>11, <2>2 DEF Scanned, Scans
  <2> QED
    BY <1>11, <2>3 DEF Scanned, Scans
<1>13. a.cap = c /\ a.at = u[c].at
  BY <1>12, ArrIs
<1> DEFINE r == [t EXCEPT !.at = u[c].at]
<1>14. r \in Tables /\ r.cap = t.cap /\ r.size = t.size /\ r.at = u[c].at
  <2>1. r \in [cap : {t.cap}, at : {u[c].at}, size : {t.size}]
    BY DEF Tables
  <2>2. t.size \in Int
    BY TableIs
  <2> HIDE DEF r
  <2> QED
    BY <1>1, <1>12, <2>1, <2>2, TableOf
<1> HIDE DEF r, a
<1>15. Distinct(r) /\ Gapless(r, h) /\ Entries(r) = Entries(t)
  BY <1>1, <1>12, <1>13, <1>14, SameArray
<1> QED
  BY <1>7, <1>14, <1>15 DEF r

LEMMA EraseAtPosIs ==
    ASSUME NEW t, NEW h \in Hashes, Good(t, h), NEW pos \in Occupied(t)
    PROVE  LET r == EraseAtPos(t, h, pos)
           IN  /\ Good(r, h) /\ r.cap = t.cap
               /\ Entries(r) = {e \in Entries(t) : e.key # t.at[pos].key}
               /\ Keys(r) = Keys(t) \ {t.at[pos].key}
<1>1. /\ t \in Tables /\ Distinct(t) /\ Gapless(t, h) /\ pos \in Slots(t) /\ t.at[pos] # Free
      /\ t.size = Cardinality(Keys(t)) /\ t.size < t.cap /\ t.size \in Int /\ t.cap \in Nat \ {0}
  BY TableIs DEF Good, Counted, Occupied
<1>2. PICK f \in Slots(t) : t.at[f] = Free
  BY GoodHasRoom DEF HasRoom
<1> DEFINE u == [t EXCEPT !.at[pos] = Free, !.size = @ - 1]
           at == [t.at EXCEPT ![pos] = Free]
           r == BackwardShift(u, h, pos)
<1>3. u \in Tables /\ u.cap = t.cap /\ u.size = t.size - 1 /\ u.at = at
  <2>1. at \in [0 .. t.cap - 1 -> Entry \cup {Free}]
    BY <1>1, TableIs
  <2>2. u \in [cap : {t.cap}, at : {at}, size : {t.size - 1}]
    <3>1. PICK c \in Nat \ {0} : t \in [cap : {c}, at : [0 .. c - 1 -> Entry \cup {Free}], size : Int]
      BY <1>1 DEF Tables
    <3>2. u = [[t EXCEPT !.at = at] EXCEPT !.size = t.size - 1]
      BY <3>1
    <3> HIDE DEF u, at
    <3> QED
      BY <3>1, <3>2
  <2>3. t.size - 1 \in Int
    BY <1>1
  <2> HIDE DEF u, at
  <2> QED
    BY <1>1, <2>1, <2>2, <2>3, TableOf
<1>4. EraseAtPos(t, h, pos) = r
  BY DEF EraseAtPos
<1> HIDE DEF u
<1>5. /\ Slots(u) = Slots(t) /\ u.at[pos] = Free
      /\ \A q \in Slots(t) : q # pos => u.at[q] = t.at[q]
      /\ Occupied(u) = Occupied(t) \ {pos}
      /\ Distinct(u)
      /\ Entries(u) = {e \in Entries(t) : e.key # t.at[pos].key}
      /\ Keys(u) = Keys(t) \ {t.at[pos].key}
  <2>1. u.at[pos] = Free /\ \A q \in Slots(t) : q # pos => u.at[q] = t.at[q]
    BY <1>1, <1>3, TableIs DEF Slots
  <2> HIDE DEF at
  <2> QED
    BY <1>1, <1>3, <2>1, Freed
<1>6. u.at[f] = Free /\ f # pos
  BY <1>1, <1>2, <1>5
<1>7. InRow(u, h, f, pos) /\ Settled(u, h, f, pos, Ord(u.cap, f, pos))
  <2>1. ASSUME NEW p \in Occupied(u), NEW b, b = Home(u, h, u.at[p].key)
        PROVE  /\ Ord(u.cap, f, b) <= Ord(u.cap, f, p)
               /\ \A x \in Slots(u) :
                    Ord(u.cap, f, b) <= Ord(u.cap, f, x) /\ Ord(u.cap, f, x) < Ord(u.cap, f, p) /\ x # pos
                      => u.at[x] # Free
    <3>1. p \in Occupied(t) /\ u.at[p] = t.at[p]
      BY <1>5 DEF Occupied
    <3>2. b = Home(t, h, t.at[p].key)
      BY <1>3, <2>1, <3>1 DEF Home, FindSlot
    <3> QED
      BY <1>1, <1>2, <1>3, <1>5, <3>1, <3>2, GaplessInRow
  <2>2. PICK c \in Nat \ {0} : c = u.cap /\ Slots(u) = 0 .. c - 1
    BY <1>3, TableIs DEF Slots
  <2>3. \A p \in Occupied(u) : Ord(u.cap, f, p) \in Nat /\ Ord(u.cap, f, pos) \in Nat
    BY <1>1, <1>5, <2>2, OrdIs DEF Occupied
  <2>4. InRow(u, h, f, pos)
    BY <2>1 DEF InRow
  <2>5. Settled(u, h, f, pos, Ord(u.cap, f, pos))
    BY <2>3 DEF Settled
  <2> QED
    BY <2>4, <2>5
<1>8. /\ r \in Tables /\ r.cap = u.cap /\ r.size = u.size
      /\ Distinct(r) /\ Gapless(r, h) /\ Entries(r) = Entries(u)
  BY <1>1, <1>2, <1>3, <1>5, <1>6, <1>7, BackwardShiftIs
<1> HIDE DEF r
<1>9. Keys(r) = Keys(u)
  BY <1>3, <1>8, EntriesAre
<1>10. r.size = Cardinality(Keys(r)) /\ r.size < r.cap
  <2>1. IsFiniteSet(Keys(t)) /\ t.at[pos].key \in Keys(t)
    BY <1>1, CountOfKeys, SlotIs
  <2>2. Cardinality(Keys(t) \ {t.at[pos].key}) = Cardinality(Keys(t)) - 1
    BY <2>1, FS_RemoveElement
  <2> QED
    BY <1>1, <1>3, <1>5, <1>8, <1>9, <2>2
<1> QED
  BY <1>3, <1>4, <1>5, <1>8, <1>9, <1>10 DEF Good, Counted

LEMMA EraseIs ==
    ASSUME NEW t, NEW h \in Hashes, Good(t, h), NEW k \in Names
    PROVE  LET r == Erase(t, h, k)
           IN  /\ Good(r, h) /\ r.cap = t.cap
               /\ Entries(r) = {e \in Entries(t) : e.key # k}
               /\ Keys(r) = Keys(t) \ {k}
<1>1. CASE k \in Keys(t)
  <2>1. PICK p \in Occupied(t) : p = Probe(t, h, k) /\ t.at[p].key = k /\ Contains(t, h, k)
    BY <1>1, ContainsIs
  <2>2. Erase(t, h, k) = EraseAtPos(t, h, p)
    BY <2>1 DEF Erase
  <2> QED
    BY <2>1, <2>2, EraseAtPosIs
<1>2. CASE k \notin Keys(t)
  <2>1. Erase(t, h, k) = t
    BY <1>2, ContainsIs DEF Erase
  <2>2. t \in Tables /\ Keys(t) = {e.key : e \in Entries(t)}
    BY EntriesAre DEF Good
  <2>3. {e \in Entries(t) : e.key # k} = Entries(t)
    BY <1>2, <2>2
  <2> QED
    BY <1>2, <2>1, <2>3
<1> QED
  BY <1>1, <1>2

-----------------------------------------------------------------------------
(* func_map_erase_at_pos: erasing one entry by inserting those behind it   *)
(* anew.                                                                   *)

LEMMA PlacedAlone ==
    ASSUME NEW t \in Tables, Distinct(t), NEW e \in Entry, e.key \notin Keys(t),
           NEW p \in Slots(t), t.at[p] = Free,
           NEW u \in Tables, u.cap = t.cap, u.at[p] = e,
           \A x \in Slots(t) : x # p => u.at[x] = t.at[x]
    PROVE  /\ Slots(u) = Slots(t) /\ Occupied(u) = Occupied(t) \cup {p}
           /\ Distinct(u) /\ Entries(u) = Entries(t) \cup {e}
<1>1. Slots(u) = Slots(t) /\ e # Free
  BY EntryIsNotFree DEF Slots
<1>2. Occupied(u) = Occupied(t) \cup {p}
  BY <1>1 DEF Occupied
<1>3. \A q \in Occupied(t) : q # p /\ u.at[q] = t.at[q] /\ t.at[q].key # e.key
  BY DEF Occupied, Keys
<1>4. Distinct(u)
  BY <1>2, <1>3 DEF Distinct
<1>5. Entries(u) = Entries(t) \cup {e}
  BY <1>2, <1>3 DEF Entries
<1> QED
  BY <1>1, <1>2, <1>4, <1>5

\* After m places in the row were done again, a place before that may be free
\* on the way to an entry that was not.
Redoing(u, h, f, from, m, E, n) ==
    /\ u \in Tables /\ Distinct(u) /\ Entries(u) = E /\ u.size = n
    /\ f \in Slots(u) /\ u.at[f] = Free
    /\ \A p \in Occupied(u) :
        LET ord(x) == Ord(u.cap, f, x)
            a == Home(u, h, u.at[p].key)
        IN  /\ ord(a) <= ord(p)
            /\ \A x \in Slots(u) : ord(a) <= ord(x) /\ ord(x) < ord(p) =>
                 u.at[x] # Free \/ (m < ord(p) /\ from <= ord(x) /\ ord(x) <= m)

LEMMA RedoEnds ==
    ASSUME NEW u, NEW h \in Hashes, NEW f, NEW from \in Nat, NEW m \in Nat, NEW E, NEW n,
           Redoing(u, h, f, from, m, E, n),
           NEW next \in Slots(u), Ord(u.cap, f, next) = m + 1, u.at[next] = Free
    PROVE  Gapless(u, h)
<1>1. PICK c \in Nat \ {0} : /\ c = u.cap /\ Slots(u) = 0 .. c - 1
                            /\ f \in 0 .. c - 1 /\ next \in 0 .. c - 1
  BY TableIs DEF Slots, Redoing
<1> SUFFICES ASSUME NEW p \in Occupied(u), NEW x \in Slots(u),
                    Between(Home(u, h, u.at[p].key), x, p), u.at[x] = Free
             PROVE  FALSE
  BY DEF Gapless, Reaches
<1>2. p \in 0 .. c - 1 /\ u.at[p].key \in Names /\ p # next /\ x \in 0 .. c - 1 /\ u \in Tables
  BY <1>1, SlotIs DEF Occupied, Redoing
<1>3. PICK a \in 0 .. c - 1 : a = Home(u, h, u.at[p].key)
  BY <1>1, <1>2, HomeIs
<1>4. Ord(c, f, a) <= Ord(c, f, p)
  BY <1>1, <1>3 DEF Redoing
<1>5. \A y \in Slots(u) : Ord(c, f, a) <= Ord(c, f, y) /\ Ord(c, f, y) < Ord(c, f, p) =>
           u.at[y] # Free \/ (m < Ord(c, f, p) /\ from <= Ord(c, f, y) /\ Ord(c, f, y) <= m)
  BY <1>1, <1>3 DEF Redoing
<1>6. Ord(c, f, a) <= Ord(c, f, x) /\ Ord(c, f, x) < Ord(c, f, p)
  BY <1>1, <1>2, <1>3, <1>4, OrdOfWay
<1>7. m < Ord(c, f, p) /\ Ord(c, f, x) <= m
  BY <1>5, <1>6
<1>8. Ord(c, f, p) \in Nat /\ Ord(c, f, x) \in Nat /\ Ord(c, f, a) \in Nat
  BY <1>1, <1>2, <1>3, OrdIs
<1>9. Ord(c, f, p) # Ord(c, f, next)
  BY <1>1, <1>2, OrdIsOne
<1>10. Ord(c, f, a) <= m + 1 /\ m + 1 < Ord(c, f, p)
  BY <1>1, <1>6, <1>7, <1>8, <1>9
<1>11. m + 1 <= m
  BY <1>1, <1>5, <1>10
<1> QED
  BY <1>11

LEMMA RedoGoesOn ==
    ASSUME NEW u, NEW h \in Hashes, NEW f, NEW from \in Nat, NEW m \in Nat, NEW E, NEW n,
           from <= m, Redoing(u, h, f, from, m, E, n),
           NEW next \in Slots(u), Ord(u.cap, f, next) = m + 1, u.at[next] # Free,
           NEW out \in Tables, out.cap = u.cap, out.at[next] = Free,
           \A x \in Slots(u) : x # next => out.at[x] = u.at[x],
           NEW w \in Tables, w.cap = u.cap, w.size = n,
           NEW g, g = FirstFree(out, h, u.at[next].key), w.at[g] = u.at[next],
           \A x \in Slots(u) : x # g => w.at[x] = out.at[x]
    PROVE  Redoing(w, h, f, from, m + 1, E, n) /\ m + 1 < u.cap
<1>1. PICK c \in Nat \ {0} : /\ c = u.cap /\ Slots(u) = 0 .. c - 1 /\ Slots(out) = 0 .. c - 1
                            /\ f \in 0 .. c - 1 /\ next \in 0 .. c - 1
  BY TableIs DEF Slots, Redoing
<1>2. u \in Tables /\ Distinct(u) /\ u.at[f] = Free /\ Entries(u) = E /\ next \in Occupied(u)
  BY DEF Redoing, Occupied
<1>3. PICK e \in Entry : e = u.at[next] /\ e.key \in Names /\ e # Free
  BY <1>2, SlotIs DEF Occupied
<1>4. m + 1 < c
  <2>1. f # next
    BY <1>2
  <2>2. Ord(c, f, next) # Ord(c, f, f)
    BY <1>1, <2>1, OrdIsOne
  <2>3. Ord(c, f, f) = c /\ Ord(c, f, next) \in 1 .. c
    BY <1>1, OrdIs
  <2> QED
    BY <1>1, <2>2, <2>3
<1>5. /\ Occupied(out) = Occupied(u) \ {next} /\ Distinct(out)
      /\ Entries(out) = {x \in Entries(u) : x.key # e.key}
      /\ Keys(out) = Keys(u) \ {e.key}
  BY <1>2, <1>3, Freed
<1>6. g \in Slots(out) /\ out.at[g] = Free /\ Reaches(out, h, e.key, g)
  BY <1>1, <1>3, FirstFreeIs
<1>7. Slots(w) = Slots(out) /\ Occupied(w) = Occupied(out) \cup {g} /\ Distinct(w)
      /\ Entries(w) = Entries(out) \cup {e}
  <2>1. w.cap = out.cap /\ w.at[g] = e /\ \A x \in Slots(out) : x # g => w.at[x] = out.at[x]
    BY <1>1, <1>3
  <2>2. e.key \notin Keys(out)
    BY <1>5
  <2> QED
    BY <1>5, <1>6, <2>1, <2>2, PlacedAlone
<1>8. Entries(w) = E
  <2>1. e \in Entries(u)
    BY <1>2, <1>3 DEF Entries
  <2>2. \A x \in Entries(u) : x.key = e.key => x = e
    BY <1>2, <1>3 DEF Entries, Distinct
  <2> QED
    BY <1>2, <1>5, <1>7, <2>1, <2>2
<1>9. \A k : Home(u, h, k) = Home(w, h, k) /\ Home(out, h, k) = Home(w, h, k)
  BY DEF Home, FindSlot
<1>10. PICK a \in 0 .. c - 1 : a = Home(w, h, e.key)
  BY <1>1, <1>2, <1>3, <1>9, HomeIs
<1>11. \A x \in 0 .. c - 1 : Ord(c, f, x) \in Nat
  BY <1>1, OrdIs
<1>12. /\ Ord(c, f, a) <= Ord(c, f, g) /\ Ord(c, f, g) <= m + 1
       /\ \A x \in 0 .. c - 1 : Ord(c, f, a) <= Ord(c, f, x) /\ Ord(c, f, x) < Ord(c, f, g)
                                  => out.at[x] # Free
  <2>1. \A x \in 0 .. c - 1 : Between(a, x, g) => out.at[x] # Free
    BY <1>1, <1>6, <1>9, <1>10 DEF Reaches
  <2>2. f # next /\ out.at[f] = Free
    BY <1>1, <1>2
  <2>3. g \in 0 .. c - 1 /\ ~Between(a, f, g)
    BY <1>1, <1>6, <2>1, <2>2
  <2>4. Ord(c, f, a) <= Ord(c, f, g)
    BY <1>1, <2>3, OrdOfWay
  <2>5. \A x \in 0 .. c - 1 : Between(a, x, g) <=>
            Ord(c, f, a) <= Ord(c, f, x) /\ Ord(c, f, x) < Ord(c, f, g)
    BY <1>1, <2>3, <2>4, OrdOfWay
  <2>6. Ord(c, f, a) <= Ord(c, f, next)
    BY <1>1, <1>2, <1>3, <1>9, <1>10 DEF Redoing
  <2>7. ~(Ord(c, f, next) < Ord(c, f, g))
    BY <1>1, <2>1, <2>5, <2>6
  <2>8. Ord(c, f, g) <= m + 1
    BY <1>1, <1>11, <2>3, <2>7
  <2> QED
    BY <2>1, <2>4, <2>5, <2>8
<1>13. w.at[f] = Free
  <2>1. Ord(c, f, f) = c
    BY <1>1, OrdIs
  <2>2. g # f
    BY <1>4, <1>11, <1>12, <2>1, <1>1
  <2>3. f # next
    BY <1>2
  <2> QED
    BY <1>1, <1>2, <2>2, <2>3
<1>14. ASSUME NEW p \in Occupied(w), NEW b, b = Home(w, h, w.at[p].key)
       PROVE  /\ Ord(c, f, b) <= Ord(c, f, p)
              /\ \A x \in 0 .. c - 1 :
                   Ord(c, f, b) <= Ord(c, f, x) /\ Ord(c, f, x) < Ord(c, f, p) =>
                     w.at[x] # Free \/ (/\ m + 1 < Ord(c, f, p)
                                        /\ from <= Ord(c, f, x) /\ Ord(c, f, x) <= m + 1)
  <2>1. CASE p = g
    <3>1. b = a
      BY <1>3, <1>10, <1>14, <2>1
    <3>2. \A x \in 0 .. c - 1 : out.at[x] # Free => w.at[x] # Free
      BY <1>1, <1>3, <1>6
    <3> QED
      BY <1>12, <2>1, <3>1, <3>2
  <2>2. CASE p # g
    <3>1. p \in Occupied(u) /\ p # next /\ w.at[p] = u.at[p] /\ p \in 0 .. c - 1
      BY <1>1, <1>5, <1>7, <2>2 DEF Occupied
    <3>2. b = Home(u, h, u.at[p].key)
      BY <1>9, <1>14, <3>1
    <3>3. /\ Ord(c, f, b) <= Ord(c, f, p)
          /\ \A x \in 0 .. c - 1 : Ord(c, f, b) <= Ord(c, f, x) /\ Ord(c, f, x) < Ord(c, f, p) =>
               u.at[x] # Free \/ (m < Ord(c, f, p) /\ from <= Ord(c, f, x) /\ Ord(c, f, x) <= m)
      BY <1>1, <3>1, <3>2 DEF Redoing
    <3>4. \A x \in 0 .. c - 1 : x # next /\ u.at[x] # Free => w.at[x] # Free
      BY <1>1, <1>3, <1>6
    <3>5. Ord(c, f, p) # m + 1 /\ Ord(c, f, p) \in Nat
      BY <1>1, <1>11, <3>1, OrdIsOne
    <3>6. ASSUME NEW x \in 0 .. c - 1, Ord(c, f, b) <= Ord(c, f, x), Ord(c, f, x) < Ord(c, f, p),
                 w.at[x] = Free
          PROVE  m + 1 < Ord(c, f, p) /\ from <= Ord(c, f, x) /\ Ord(c, f, x) <= m + 1
      <4>1. Ord(c, f, x) \in Nat
        BY <1>11
      <4>2. CASE x = next
        BY <1>1, <3>6, <4>2
      <4>3. CASE x # next
        <5>1. u.at[x] = Free
          BY <3>4, <3>6, <4>3
        <5>2. m < Ord(c, f, p) /\ from <= Ord(c, f, x) /\ Ord(c, f, x) <= m
          BY <3>3, <3>6, <5>1
        <5> QED
          BY <3>5, <4>1, <5>2
      <4> QED
        BY <4>2, <4>3
    <3> QED
      BY <3>3, <3>6
  <2> QED
    BY <2>1, <2>2
<1>15. \A p \in Occupied(w) :
        LET ord(x) == Ord(w.cap, f, x)
            b == Home(w, h, w.at[p].key)
        IN  /\ ord(b) <= ord(p)
            /\ \A x \in Slots(w) : ord(b) <= ord(x) /\ ord(x) < ord(p) =>
                 w.at[x] # Free \/ (m + 1 < ord(p) /\ from <= ord(x) /\ ord(x) <= m + 1)
  BY <1>1, <1>7, <1>14
<1>16. f \in Slots(w)
  BY <1>1, <1>7
<1> QED
  BY <1>1, <1>4, <1>7, <1>8, <1>13, <1>15, <1>16 DEF Redoing

\* The state of the loop in func_map_erase_at_pos.
Redos(c) == [t : {u \in Tables : u.cap = c}, done : BOOLEAN]

RedoStep(t, h, pos, i, s) ==
    LET next == Nth(t, pos, i - 1)
        e == s.t.at[next]
        out == [s.t EXCEPT !.at[next] = Free]
    IN  IF s.done \/ e = Free THEN [s EXCEPT !.done = TRUE]
        ELSE [s EXCEPT !.t = [out EXCEPT !.at[FirstFree(out, h, e.key)] = e]]

Redone(c, h, f, from, m, E, n, s) ==
    /\ s \in Redos(c)
    /\ s.done => Distinct(s.t) /\ Gapless(s.t, h) /\ Entries(s.t) = E /\ s.t.size = n
    /\ ~s.done => m < c /\ Redoing(s.t, h, f, from, m, E, n)

\* A table with another value in one slot.
LEMMA WithSlot ==
    ASSUME NEW t \in Tables, NEW p, NEW e \in Entry \cup {Free}
    PROVE  \E u \in Tables : /\ u = [t EXCEPT !.at[p] = e] /\ u.cap = t.cap /\ u.size = t.size
                             /\ p \in Slots(t) => u.at[p] = e
                             /\ \A x \in Slots(t) : x # p => u.at[x] = t.at[x]
<1> DEFINE u == [t EXCEPT !.at[p] = e]
           at == [t.at EXCEPT ![p] = e]
<1>1. t.at \in [Slots(t) -> Entry \cup {Free}] /\ Slots(t) = 0 .. t.cap - 1 /\ t.size \in Int
  BY TableIs DEF Slots
<1>2. at \in [Slots(t) -> Entry \cup {Free}] /\ (p \in Slots(t) => at[p] = e)
      /\ \A x \in Slots(t) : x # p => at[x] = t.at[x]
  BY <1>1
<1>3. u \in [cap : {t.cap}, at : {at}, size : {t.size}]
  BY DEF Tables
<1> HIDE DEF u, at
<1>4. u \in Tables /\ u.cap = t.cap /\ u.size = t.size /\ u.at = at
  BY <1>1, <1>2, <1>3, TableOf
<1> QED
  BY <1>2, <1>4 DEF u

LEMMA NthIs ==
    ASSUME NEW c \in Nat \ {0}, NEW t, t.cap = c, NEW hole \in 0 .. c - 1, NEW i \in 1 .. c
    PROVE  Nth(t, hole, i - 1) \in 0 .. c - 1
<1>1. PICK j \in 0 .. c - 1 : j = i - 1
  <2>1. i - 1 \in 0 .. c - 1
    OBVIOUS
  <2> QED
    BY <2>1
<1>2. hole + j \in Nat
  OBVIOUS
<1> QED
  BY <1>1, <1>2, SlotOfHash DEF Nth

\* What a step of the loop does to a state.
Into(c, h, e, out, w) ==
    LET g == FirstFree(out, h, e.key)
    IN  /\ g \in 0 .. c - 1 => w.at[g] = e
        /\ \A x \in 0 .. c - 1 : x # g => w.at[x] = out.at[x]
Redid(c, h, s, next, r) ==
    /\ r \in Redos(c)
    /\ s.done \/ s.t.at[next] = Free => r.done /\ r.t = s.t
    /\ ~s.done /\ s.t.at[next] # Free =>
         /\ ~r.done
         /\ \E out \in Tables, w \in Tables :
             /\ r.t = w
             /\ out.cap = c /\ out.at[next] = Free
             /\ \A x \in 0 .. c - 1 : x # next => out.at[x] = s.t.at[x]
             /\ w.cap = c /\ w.size = s.t.size
             /\ Into(c, h, s.t.at[next], out, w)

LEMMA RedoStepIs ==
    ASSUME NEW c \in Nat \ {0}, NEW t, t.cap = c, NEW h, NEW pos \in 0 .. c - 1,
           NEW i \in 1 .. c, NEW s \in Redos(c),
           NEW next, next = Nth(t, pos, i - 1)
    PROVE  Redid(c, h, s, next, RedoStep(t, h, pos, i, s))
<1>1. PICK u \in Tables : u = s.t /\ u.cap = c /\ Slots(u) = 0 .. c - 1
  BY DEF Redos, Slots
<1>2. next \in 0 .. c - 1
  BY NthIs
<1>3. PICK e \in Entry \cup {Free} : e = u.at[next]
  BY <1>1, <1>2, SlotIs
<1>4. CASE s.done \/ e = Free
  <2>1. RedoStep(t, h, pos, i, s) = [s EXCEPT !.done = TRUE]
    BY <1>1, <1>3, <1>4 DEF RedoStep
  <2>2. [s EXCEPT !.done = TRUE] \in Redos(c)
    BY DEF Redos
  <2>3. [s EXCEPT !.done = TRUE].done /\ [s EXCEPT !.done = TRUE].t = s.t
    BY DEF Redos
  <2> QED
    BY <1>1, <1>3, <1>4, <2>1, <2>2, <2>3 DEF Redid
<1>5. CASE ~(s.done \/ e = Free)
  <2>1. PICK out \in Tables : /\ out = [u EXCEPT !.at[next] = Free] /\ out.cap = u.cap /\ out.size = u.size
                              /\ next \in Slots(u) => out.at[next] = Free
                              /\ \A x \in Slots(u) : x # next => out.at[x] = u.at[x]
    <3> DEFINE v == [u EXCEPT !.at[next] = Free]
               at == [u.at EXCEPT ![next] = Free]
    <3>1. u.at \in [Slots(u) -> Entry \cup {Free}] /\ Slots(u) = 0 .. u.cap - 1 /\ u.size \in Int
      BY TableIs DEF Slots
    <3>2. at \in [Slots(u) -> Entry \cup {Free}] /\ (next \in Slots(u) => at[next] = Free)
          /\ \A x \in Slots(u) : x # next => at[x] = u.at[x]
      BY <3>1
    <3>3. v \in [cap : {u.cap}, at : {at}, size : {u.size}]
      BY SMTT(30) DEF Tables
    <3> HIDE DEF v, at
    <3>4. v \in Tables /\ v.cap = u.cap /\ v.size = u.size /\ v.at = at
      BY <3>1, <3>2, <3>3, TableOf
    <3> QED
      BY <3>2, <3>4 DEF v
  <2> DEFINE g == FirstFree(out, h, e.key)
  <2>2. PICK w \in Tables : /\ w = [out EXCEPT !.at[g] = e] /\ w.cap = out.cap /\ w.size = out.size
                            /\ g \in Slots(out) => w.at[g] = e
                            /\ \A x \in Slots(out) : x # g => w.at[x] = out.at[x]
    <3> HIDE DEF g
    <3> QED
      BY WithSlot
  <2>3. RedoStep(t, h, pos, i, s) = [s EXCEPT !.t = w]
    BY <1>1, <1>3, <1>5, <2>1, <2>2 DEF RedoStep
  <2>4. [s EXCEPT !.t = w] \in Redos(c) /\ [s EXCEPT !.t = w].t = w /\ ~[s EXCEPT !.t = w].done
    BY <1>1, <1>5, <2>1, <2>2 DEF Redos
  <2>5. Slots(out) = 0 .. c - 1
    BY <1>1, <2>1 DEF Slots
  <2> HIDE DEF g
  <2>6. /\ out.cap = c /\ out.at[next] = Free
        /\ \A x \in 0 .. c - 1 : x # next => out.at[x] = s.t.at[x]
        /\ w.cap = c /\ w.size = s.t.size
    BY <1>1, <1>2, <1>3, <2>1, <2>2, <2>5
  <2>7. e = s.t.at[next]
    BY <1>1, <1>3
  <2>8. Into(c, h, e, out, w)
    BY <2>2, <2>5 DEF Into, g
  <2> QED
    BY <1>5, <2>3, <2>4, <2>6, <2>7, <2>8 DEF Redid
<1> QED
  BY <1>4, <1>5

LEMMA RedoNext ==
    ASSUME NEW c \in Nat \ {0}, NEW t, t.cap = c, NEW h \in Hashes,
           NEW f \in 0 .. c - 1, NEW pos \in 0 .. c - 1, NEW i \in 2 .. c,
           NEW from \in Nat, from = Ord(c, f, pos), NEW E, NEW n,
           NEW s, Redone(c, h, f, from, from + i - 2, E, n, s)
    PROVE  Redone(c, h, f, from, from + i - 1, E, n, RedoStep(t, h, pos, i, s))
<1>1. s \in Redos(c) /\ i \in 1 .. c
  BY DEF Redone
<1>2. PICK u \in Tables : u = s.t /\ u.cap = c /\ Slots(u) = 0 .. c - 1
  BY <1>1 DEF Redos, Slots
<1>3. PICK next \in 0 .. c - 1 : next = Nth(t, pos, i - 1)
  BY <1>1, NthIs
<1>4. PICK r \in Redos(c) : r = RedoStep(t, h, pos, i, s) /\ Redid(c, h, s, next, r)
  <2>1. Redid(c, h, s, next, RedoStep(t, h, pos, i, s))
    BY <1>1, <1>3, RedoStepIs
  <2> QED
    BY <2>1 DEF Redid
<1>5. CASE s.done
  <2>1. r.done /\ r.t = s.t
    BY <1>4, <1>5 DEF Redid
  <2> QED
    BY <1>4, <1>5, <2>1 DEF Redone
<1>6. CASE ~s.done
  <2>1. PICK m \in Nat : m = from + i - 2
    OBVIOUS
  <2>2. m < c /\ Redoing(u, h, f, from, m, E, n) /\ from <= m
    BY <1>2, <1>6, <2>1 DEF Redone
  <2>3. Ord(c, f, next) = m + 1
    <3>1. PICK j \in 0 .. c - 1 : j = i - 1
      OBVIOUS
    <3>2. Ord(c, f, pos) + j <= c
      BY <2>1, <2>2, <3>1
    <3>3. Ord(c, f, (pos + j) % c) = Ord(c, f, pos) + j
      BY <3>2, OrdOfNext
    <3> QED
      BY <1>3, <2>1, <3>1, <3>3 DEF Nth
  <2>4. next \in Slots(u) /\ Ord(u.cap, f, next) = m + 1
    BY <1>2, <2>3
  <2>5. CASE u.at[next] = Free
    <3>1. r.done /\ r.t = u
      BY <1>2, <1>4, <2>5 DEF Redid
    <3>2. Gapless(u, h)
      BY <2>2, <2>4, <2>5, RedoEnds
    <3> QED
      BY <1>4, <2>2, <3>1, <3>2 DEF Redone, Redoing
  <2>6. CASE u.at[next] # Free
    <3>1. /\ ~r.done
          /\ \E out \in Tables, w \in Tables :
              /\ r.t = w /\ out.cap = c /\ out.at[next] = Free
              /\ \A x \in 0 .. c - 1 : x # next => out.at[x] = u.at[x]
              /\ w.cap = c /\ w.size = u.size
              /\ Into(c, h, u.at[next], out, w)
      BY <1>2, <1>4, <1>6, <2>6 DEF Redid
    <3>2. PICK out \in Tables, w \in Tables :
              /\ r.t = w /\ out.cap = c /\ out.at[next] = Free
              /\ \A x \in 0 .. c - 1 : x # next => out.at[x] = u.at[x]
              /\ w.cap = c /\ w.size = u.size
              /\ Into(c, h, u.at[next], out, w)
      BY <3>1
    <3>3. PICK g : g = FirstFree(out, h, u.at[next].key)
      OBVIOUS
    <3>4. g \in 0 .. c - 1
      <4>1. Slots(out) = 0 .. c - 1
        BY <3>2 DEF Slots
      <4>2. u.at[next].key \in Names
        BY <2>4, <2>6, SlotIs DEF Occupied
      <4> QED
        BY <3>2, <3>3, <4>1, <4>2, FirstFreeIs
    <3>8. w.at[g] = u.at[next] /\ \A x \in 0 .. c - 1 : x # g => w.at[x] = out.at[x]
      BY <3>2, <3>3, <3>4 DEF Into
    <3>5. /\ out.cap = u.cap /\ out.at[next] = Free
          /\ \A x \in Slots(u) : x # next => out.at[x] = u.at[x]
          /\ w.cap = u.cap /\ w.size = n /\ w.at[g] = u.at[next]
          /\ \A x \in Slots(u) : x # g => w.at[x] = out.at[x]
      BY <1>2, <2>2, <3>2, <3>8 DEF Redoing
    <3>6. Redoing(w, h, f, from, m + 1, E, n) /\ m + 1 < u.cap
      <4>1. from <= m
        BY <2>2
      <4>2. Redoing(u, h, f, from, m, E, n)
        BY <2>2
      <4>3. out.cap = u.cap /\ out.at[next] = Free
        BY <3>5
      <4>4. \A x \in Slots(u) : x # next => out.at[x] = u.at[x]
        BY <3>5
      <4>5. w.cap = u.cap /\ w.size = n /\ w.at[g] = u.at[next]
        BY <3>5
      <4>6. \A x \in Slots(u) : x # g => w.at[x] = out.at[x]
        BY <3>5
      <4>7. out \in Tables /\ w \in Tables
        BY <3>2
      <4> QED
        BY <2>4, <2>6, <3>3, <4>1, <4>2, <4>3, <4>4, <4>5, <4>6, <4>7, RedoGoesOn
    <3>7. m + 1 = from + i - 1
      BY <2>1
    <3> QED
      BY <1>2, <1>4, <3>1, <3>2, <3>6, <3>7 DEF Redone
  <2> QED
    BY <2>5, <2>6
<1> QED
  BY <1>5, <1>6

LEMMA FuncEraseIs ==
    ASSUME NEW t, NEW h \in Hashes, Good(t, h), NEW pos \in Occupied(t)
    PROVE  LET r == FuncErase(t, h, pos)
           IN  /\ Good(r, h)
               /\ Entries(r) = {e \in Entries(t) : e.key # t.at[pos].key}
<1>1. /\ t \in Tables /\ Distinct(t) /\ Gapless(t, h) /\ pos \in Slots(t) /\ t.at[pos] # Free
      /\ t.size = Cardinality(Keys(t)) /\ t.size < t.cap /\ t.size \in Int
  BY TableIs DEF Good, Counted, Occupied
<1>2. PICK c \in Nat \ {0} : c = t.cap /\ Slots(t) = 0 .. c - 1 /\ pos \in 0 .. c - 1
  BY <1>1, TableIs DEF Slots
<1>3. PICK f \in 0 .. c - 1 : t.at[f] = Free
  BY <1>2, GoodHasRoom DEF HasRoom
<1>4. PICK from \in Nat : from = Ord(c, f, pos)
  BY <1>2, OrdIs
<1> DEFINE S == Redos(c)
           t1 == [t EXCEPT !.at[pos] = Free, !.size = @ - 1]
           s1 == [t |-> t1, done |-> FALSE]
           E == {e \in Entries(t) : e.key # t.at[pos].key}
           n == t.size - 1
           Rec(u) == u = [i \in 1 .. c |-> IF i = 1 THEN s1 ELSE RedoStep(t, h, pos, i, u[i - 1])]
<1>5. FuncErase(t, h, pos) = (CHOOSE u : Rec(u))[c].t
  BY <1>2 DEF FuncErase, RedoStep
<1>6. t1 \in Tables /\ t1.cap = c /\ t1.size = n /\ t1.at[pos] = Free
      /\ \A q \in Slots(t) : q # pos => t1.at[q] = t.at[q]
  <2> DEFINE at == [t.at EXCEPT ![pos] = Free]
  <2>1. at \in [0 .. t.cap - 1 -> Entry \cup {Free}]
    BY <1>1, TableIs
  <2>2. t1 \in [cap : {t.cap}, at : {at}, size : {t.size - 1}]
    <3>1. PICK k \in Nat \ {0} : t \in [cap : {k}, at : [0 .. k - 1 -> Entry \cup {Free}], size : Int]
      BY <1>1 DEF Tables
    <3>2. t1 = [[t EXCEPT !.at = at] EXCEPT !.size = t.size - 1]
      BY <3>1
    <3> HIDE DEF t1, at
    <3> QED
      BY <3>1, <3>2
  <2>3. t.size - 1 \in Int
    BY <1>1
  <2>4. at[pos] = Free /\ \A q \in Slots(t) : q # pos => at[q] = t.at[q]
    BY <1>1, TableIs DEF Slots
  <2> HIDE DEF t1, at
  <2> QED
    BY <1>1, <1>2, <2>1, <2>2, <2>3, <2>4, TableOf
<1> HIDE DEF t1
<1>7. s1 \in S
  BY <1>6 DEF Redos
<1>8. ASSUME NEW i \in 1 .. c, NEW s \in S PROVE RedoStep(t, h, pos, i, s) \in S
  BY <1>2, RedoStepIs DEF Redid
<1>9. \E u : Rec(u)
  <2> DEFINE G == [i \in 2 .. c |-> [s \in S |-> RedoStep(t, h, pos, i, s)]]
  <2>1. G \in [1 + 1 .. c -> [S -> S]]
    <3>1. \A i \in 2 .. c : i \in 1 .. c
      OBVIOUS
    <3>2. 1 + 1 .. c = 2 .. c
      OBVIOUS
    <3> HIDE DEF S
    <3> QED
      BY <1>8, <3>1, <3>2
  <2>2. \A i \in 2 .. c, s \in S : G[i][s] = RedoStep(t, h, pos, i, s)
    OBVIOUS
  <2> HIDE DEF G, S, s1
  <2>3. PICK g : Run(g, 1, c, S, s1, G)
    <3>1. 1 \in Nat /\ 1 <= c
      OBVIOUS
    <3> QED
      BY <1>7, <2>1, <3>1, Recursion
  <2>4. g \in [1 .. c -> S] /\ g[1] = s1 /\ \A i \in 2 .. c : g[i] = G[i][g[i - 1]]
    BY <2>3 DEF Run
  <2>5. ASSUME NEW i \in 1 .. c
        PROVE  g[i] = IF i = 1 THEN s1 ELSE RedoStep(t, h, pos, i, g[i - 1])
    <3>1. CASE i = 1
      BY <2>4, <3>1
    <3>2. CASE i # 1
      <4>1. i \in 2 .. c /\ i - 1 \in 1 .. c
        BY <3>2
      <4>2. g[i - 1] \in S /\ g[i] = G[i][g[i - 1]]
        BY <2>4, <4>1
      <4> QED
        BY <2>2, <3>2, <4>1, <4>2
    <3> QED
      BY <3>1, <3>2
  <2>6. g = [i \in 1 .. c |-> g[i]]
    BY <2>4
  <2>7. [i \in 1 .. c |-> g[i]]
          = [i \in 1 .. c |-> IF i = 1 THEN s1 ELSE RedoStep(t, h, pos, i, g[i - 1])]
    BY <2>5
  <2>8. Rec(g)
    BY <2>6, <2>7
  <2> HIDE DEF Rec
  <2> QED
    BY <2>8
<1>10. PICK u : Rec(u) /\ FuncErase(t, h, pos) = u[c].t
  <2> HIDE DEF Rec
  <2> QED
    BY <1>5, <1>9
<1>11. u[1] = s1 /\ \A i \in 2 .. c : u[i] = RedoStep(t, h, pos, i, u[i - 1])
  <2> HIDE DEF s1
  <2>1. 1 \in 1 .. c /\ \A i \in 2 .. c : i \in 1 .. c /\ i # 1
    OBVIOUS
  <2> QED
    BY <1>10, <2>1
<1> HIDE DEF Rec, S, E, n
<1>12. /\ Occupied(t1) = Occupied(t) \ {pos} /\ Slots(t1) = Slots(t)
       /\ Distinct(t1) /\ Entries(t1) = E /\ Keys(t1) = Keys(t) \ {t.at[pos].key}
  BY <1>1, <1>2, <1>6, Freed DEF E
<1> DEFINE Done == {i \in 1 .. c : Redone(c, h, f, from, from + i - 1, E, n, u[i])}
<1>13. 1 \in Done
  <2>1. t1.at[f] = Free /\ f \in Slots(t1) /\ f # pos
    BY <1>1, <1>2, <1>3, <1>6, <1>12
  <2>2. ASSUME NEW p \in Occupied(t1), NEW b, b = Home(t1, h, t1.at[p].key)
        PROVE  /\ Ord(c, f, b) <= Ord(c, f, p)
               /\ \A x \in Slots(t1) :
                    Ord(c, f, b) <= Ord(c, f, x) /\ Ord(c, f, x) < Ord(c, f, p) =>
                      t1.at[x] # Free \/ (/\ from < Ord(c, f, p)
                                          /\ from <= Ord(c, f, x) /\ Ord(c, f, x) <= from)
    <3>1. p \in Occupied(t) /\ t1.at[p] = t.at[p]
      BY <1>6, <1>12 DEF Occupied
    <3>2. b = Home(t, h, t.at[p].key)
      BY <1>2, <1>6, <2>2, <3>1 DEF Home, FindSlot
    <3>3. /\ Ord(c, f, b) <= Ord(c, f, p)
          /\ \A x \in Slots(t) :
               Ord(c, f, b) <= Ord(c, f, x) /\ Ord(c, f, x) < Ord(c, f, p) => t.at[x] # Free
      BY <1>1, <1>2, <1>3, <3>1, <3>2, GaplessInRow
    <3>4. ASSUME NEW x \in Slots(t1), Ord(c, f, b) <= Ord(c, f, x), Ord(c, f, x) < Ord(c, f, p)
          PROVE  t1.at[x] # Free \/ (/\ from < Ord(c, f, p)
                                     /\ from <= Ord(c, f, x) /\ Ord(c, f, x) <= from)
      <4>1. CASE x = pos
        BY <1>4, <3>4, <4>1
      <4>2. CASE x # pos
        BY <1>6, <1>12, <3>3, <3>4, <4>2
      <4> QED
        BY <4>1, <4>2
    <3> QED
      BY <3>3, <3>4
  <2>3. \A p \in Occupied(t1) :
        LET ord(x) == Ord(t1.cap, f, x)
            a == Home(t1, h, t1.at[p].key)
        IN  /\ ord(a) <= ord(p)
            /\ \A x \in Slots(t1) : ord(a) <= ord(x) /\ ord(x) < ord(p) =>
                 t1.at[x] # Free \/ (from < ord(p) /\ from <= ord(x) /\ ord(x) <= from)
    BY <1>6, <2>2
  <2>4. Redoing(t1, h, f, from, from, E, n)
    BY <1>6, <1>12, <2>1, <2>3 DEF Redoing
  <2>5. from < c
    <3>1. from \in 1 .. c
      BY <1>2, <1>4, OrdIs
    <3>2. from # c
      BY <1>2, <1>4, <2>1, OrdIs, OrdIsOne
    <3> QED
      BY <3>1, <3>2
  <2>6. Redone(c, h, f, from, from, E, n, s1)
    BY <1>7, <2>4, <2>5 DEF Redone, S
  <2>7. 1 \in 1 .. c /\ from + 1 - 1 = from
    OBVIOUS
  <2> HIDE DEF s1
  <2> QED
    BY <1>11, <2>6, <2>7
<1>14. ASSUME NEW i \in 1 + 1 .. c, i - 1 \in Done PROVE i \in Done
  <2>1. PICK j \in 2 .. c : j = i /\ j - 1 \in Done /\ from + (j - 1) - 1 = from + j - 2
    BY <1>14
  <2>2. Redone(c, h, f, from, from + j - 2, E, n, u[j - 1])
    BY <2>1
  <2>3. Redone(c, h, f, from, from + j - 1, E, n, RedoStep(t, h, pos, j, u[j - 1]))
    BY <1>2, <1>4, <2>2, RedoNext
  <2>4. j \in 1 .. c /\ u[j] = RedoStep(t, h, pos, j, u[j - 1])
    BY <1>11
  <2> QED
    BY <2>1, <2>3, <2>4
<1>15. Redone(c, h, f, from, from + c - 1, E, n, u[c])
  <2>1. \A i \in 1 .. c : i \in Done
    <3>1. 1 \in Nat /\ c \in Nat
      OBVIOUS
    <3> HIDE DEF Done
    <3> QED
      BY <1>13, <1>14, <3>1, Induction
  <2>2. c \in Done
    <3> HIDE DEF Done
    <3> QED
      BY <2>1
  <2> QED
    BY <2>2
<1>16. PICK r \in Tables : r = u[c].t /\ r.cap = c /\ Distinct(r) /\ Gapless(r, h) /\ Entries(r) = E /\ r.size = n
  <2>1. from >= 1
    BY <1>2, <1>4, OrdIs
  <2>2. ~(from + c - 1 < c)
    BY <2>1
  <2>3. u[c] \in Redos(c) /\ u[c].done
    BY <1>15, <2>2 DEF Redone
  <2> QED
    BY <1>15, <2>3 DEF Redone, Redos
<1>17. Keys(r) = Keys(t) \ {t.at[pos].key}
  BY <1>6, <1>12, <1>16, EntriesAre
<1>18. r.size = Cardinality(Keys(r)) /\ r.size < r.cap
  <2>1. IsFiniteSet(Keys(t)) /\ t.at[pos].key \in Keys(t)
    BY <1>1, CountOfKeys, SlotIs
  <2>2. Cardinality(Keys(t) \ {t.at[pos].key}) = Cardinality(Keys(t)) - 1
    BY ZenonT(30), <2>1, FS_RemoveElement
  <2> QED
    BY <1>1, <1>2, <1>16, <1>17, <2>2 DEF n
<1> QED
  BY <1>10, <1>16, <1>18 DEF Good, Counted, E

-----------------------------------------------------------------------------
(* Erasing several keys.                                                   *)

\* f is the function by recursion from s; its values stay in S.
Iteration(f, n, S, s, G) ==
    /\ f \in [0 .. n -> S]
    /\ \A i \in 0 .. n : f[i] = IF i = 0 THEN s ELSE G[i][f[i - 1]]
    /\ \A i \in 1 .. n : f[i - 1] \in S

LEMMA Iterate ==
    ASSUME NEW n \in Nat, NEW S, NEW s \in S, NEW G \in [1 .. n -> [S -> S]]
    PROVE  \E f : Iteration(f, n, S, s, G)
<1>1. 0 \in Nat /\ 0 <= n /\ 0 + 1 .. n = 1 .. n
  OBVIOUS
<1>2. PICK f : Run(f, 0, n, S, s, G)
  BY <1>1, Recursion
<1>3. f \in [0 .. n -> S] /\ f[0] = s /\ \A i \in 1 .. n : f[i] = G[i][f[i - 1]]
  BY <1>1, <1>2 DEF Run
<1>4. \A i \in 0 .. n : f[i] = IF i = 0 THEN s ELSE G[i][f[i - 1]]
  BY <1>3
<1>5. \A i \in 1 .. n : f[i - 1] \in S
  BY <1>3
<1> QED
  BY <1>3, <1>4, <1>5 DEF Iteration

\* The entries of t that the keys do not name.
Others(t, n, keys) == {e \in Entries(t) : \A i \in 1 .. n : keys[i] # e.key}

Marked(h, keys, i, s) ==
    IF Contains(s, h, keys[i])
    THEN [s EXCEPT !.at[Probe(s, h, keys[i])] = Free, !.size = @ - 1]
    ELSE s

\* What erasing keys from t has made of it, gaps apart.
Thinned(t, n, keys) ==
    {w \in Tables : /\ w.cap = t.cap /\ Distinct(w) /\ Counted(w)
                    /\ Entries(w) \subseteq Entries(t)
                    /\ Others(t, n, keys) \subseteq Entries(w)}

LEMMA MarkedIs ==
    ASSUME NEW t, NEW h \in Hashes, NEW n \in Nat, NEW keys \in [1 .. n -> Names],
           NEW i \in 1 .. n, NEW s \in Thinned(t, n, keys)
    PROVE  Marked(h, keys, i, s) \in Thinned(t, n, keys)
<1>1. PICK k \in Names : k = keys[i]
  OBVIOUS
<1>2. s \in Tables /\ s.cap = t.cap /\ Distinct(s) /\ s.size = Cardinality(Keys(s)) /\ s.size < s.cap
  BY DEF Thinned, Counted
<1>3. HasRoom(s)
  BY <1>2, RoomIsLeft
<1>4. CASE ~Contains(s, h, k)
  BY <1>1, <1>4 DEF Marked
<1>5. CASE Contains(s, h, k)
  <2>1. PICK p : p = Probe(s, h, k)
    OBVIOUS
  <2>2. p \in Occupied(s) /\ s.at[p].key = k
    <3>1. StopsFor(s, k) # {}
      BY <1>3 DEF HasRoom, StopsFor
    <3>2. p \in StopsFor(s, k) /\ p \in Slots(s)
      BY <1>2, <2>1, <3>1, ProbeIs
    <3>3. s.at[p] # Free
      BY <1>5, <2>1 DEF Contains, Find
    <3> QED
      BY <3>2, <3>3 DEF StopsFor, Occupied
  <2>3. PICK v \in Tables : /\ v = [s EXCEPT !.at[p] = Free] /\ v.cap = s.cap /\ v.size = s.size
                            /\ p \in Slots(s) => v.at[p] = Free
                            /\ \A x \in Slots(s) : x # p => v.at[x] = s.at[x]
    <3>1. PICK f \in Entry \cup {Free} : f = Free
      OBVIOUS
    <3>2. \E v \in Tables : /\ v = [s EXCEPT !.at[p] = f] /\ v.cap = s.cap /\ v.size = s.size
                            /\ p \in Slots(s) => v.at[p] = f
                            /\ \A x \in Slots(s) : x # p => v.at[x] = s.at[x]
      BY <1>2, WithSlot
    <3> QED
      BY <3>1, <3>2
  <2>4. PICK m \in Int : m = s.size - 1
    BY <1>2, TableIs
  <2>5. PICK w \in Tables : w = [v EXCEPT !.size = m] /\ w.cap = v.cap /\ w.size = m /\ w.at = v.at
    BY SizeChanged
  <2>6. Marked(h, keys, i, s) = w
    <3>1. s \in [cap : {s.cap}, at : {s.at}, size : {s.size}]
      BY <1>2 DEF Tables
    <3>2. [s EXCEPT !.at[p] = Free, !.size = @ - 1] = [[s EXCEPT !.at[p] = Free] EXCEPT !.size = m]
      BY <2>4, <3>1
    <3> QED
      BY <1>1, <1>5, <2>1, <2>3, <2>5, <3>2 DEF Marked
  <2>7. w.cap = s.cap /\ w.at[p] = Free /\ \A x \in Slots(s) : x # p => w.at[x] = s.at[x]
    BY <2>2, <2>3, <2>5 DEF Occupied
  <2>8. /\ Distinct(w) /\ Entries(w) = {e \in Entries(s) : e.key # k}
        /\ Keys(w) = Keys(s) \ {k}
    BY <1>2, <2>2, <2>7, Freed
  <2>9. Counted(w)
    <3>1. IsFiniteSet(Keys(s)) /\ k \in Keys(s) /\ Cardinality(Keys(s)) \in Nat /\ s.cap \in Nat
      BY <1>2, <2>2, CountOfKeys, TableIs DEF Keys
    <3>2. Cardinality(Keys(s) \ {k}) = Cardinality(Keys(s)) - 1
      BY <3>1, FS_RemoveElement
    <3>3. w.size = s.size - 1 /\ w.cap = s.cap
      BY <2>4, <2>5, <2>7
    <3>4. w.size = Cardinality(Keys(w)) /\ w.size < w.cap
      BY <1>2, <2>8, <3>1, <3>2, <3>3
    <3> QED
      BY <3>4 DEF Counted
  <2>10. Entries(w) \subseteq Entries(t) /\ Others(t, n, keys) \subseteq Entries(w)
    BY <1>1, <2>8 DEF Thinned, Others
  <2> QED
    BY <1>2, <2>6, <2>7, <2>8, <2>9, <2>10 DEF Thinned
<1> QED
  BY <1>1, <1>4, <1>5

LEMMA MarkAllIs ==
    ASSUME NEW t, NEW h \in Hashes, Good(t, h), NEW n \in Nat, NEW keys \in [1 .. n -> Names]
    PROVE  MarkAll(t, h, keys) \in Thinned(t, n, keys)
<1> DEFINE S == Thinned(t, n, keys)
           Rec(u) == u = [i \in 0 .. n |-> IF i = 0 THEN t ELSE Marked(h, keys, i, u[i - 1])]
<1>1. Cardinality(DOMAIN keys) = n
  BY FS_Interval
<1>2. MarkAll(t, h, keys) = (CHOOSE u : Rec(u))[n]
  BY <1>1 DEF MarkAll, Marked
<1>3. t \in S
  BY DEF Good, Thinned, Others
<1>4. \E u : Rec(u)
  <2> DEFINE G == [i \in 1 .. n |-> [s \in S |-> Marked(h, keys, i, s)]]
  <2>1. \A i \in 1 .. n, s \in S : Marked(h, keys, i, s) \in S
    BY MarkedIs
  <2> HIDE DEF S
  <2>2. \A i \in 1 .. n, s \in S : G[i][s] = Marked(h, keys, i, s)
    OBVIOUS
  <2>6. G \in [1 .. n -> [S -> S]]
    BY <2>1
  <2> HIDE DEF G
  <2>3. PICK f : Iteration(f, n, S, t, G)
    BY <1>3, <2>6, Iterate
  <2>4. \A i \in 0 .. n : f[i] = IF i = 0 THEN t ELSE Marked(h, keys, i, f[i - 1])
    <3>1. \A i \in 0 .. n : i = 0 \/ i \in 1 .. n
      OBVIOUS
    <3> QED
      BY <2>2, <2>3, <3>1 DEF Iteration
  <2>5. f = [i \in 0 .. n |-> f[i]]
    BY <2>3 DEF Iteration
  <2> QED
    BY <2>4, <2>5
<1>5. PICK u : Rec(u) /\ MarkAll(t, h, keys) = u[n]
  <2> HIDE DEF Rec
  <2> QED
    BY <1>2, <1>4
<1>6. u[0] = t /\ \A i \in 1 .. n : u[i] = Marked(h, keys, i, u[i - 1])
  <2>1. 0 \in 0 .. n /\ \A i \in 1 .. n : i \in 0 .. n /\ i # 0
    OBVIOUS
  <2> QED
    BY <1>5, <2>1
<1> HIDE DEF Rec, S
<1> DEFINE Done == {i \in 0 .. n : u[i] \in S}
<1>7. 0 \in Done
  BY <1>3, <1>6
<1>8. ASSUME NEW i \in 0 + 1 .. n, i - 1 \in Done PROVE i \in Done
  <2>1. i \in 1 .. n /\ i \in 0 .. n /\ u[i - 1] \in S
    BY <1>8
  <2>2. Marked(h, keys, i, u[i - 1]) \in S
    BY <2>1, MarkedIs DEF S
  <2> QED
    BY <1>6, <2>1, <2>2
<1>9. n \in Done
  <2>1. n \in 0 .. n /\ 0 \in Nat
    OBVIOUS
  <2> HIDE DEF Done
  <2>2. \A i \in 0 .. n : i \in Done
    BY <1>7, <1>8, <2>1, Induction
  <2> QED
    BY <2>1, <2>2
<1> QED
  BY <1>5, <1>9 DEF S

Left(t, h, n, keys) == {w \in Thinned(t, n, keys) : Good(w, h)}

LEMMA EraseMultipleIs ==
    ASSUME NEW t, NEW h \in Hashes, Good(t, h), NEW n \in Nat, NEW keys \in [1 .. n -> Names]
    PROVE  EraseMultiple(t, h, keys) \in Left(t, h, n, keys)
<1> DEFINE S == Left(t, h, n, keys)
           Rec(u) == u = [i \in 0 .. n |-> IF i = 0 THEN t ELSE Erase(u[i - 1], h, keys[i])]
           single == CHOOSE u : Rec(u)
           marked == MarkAll(t, h, keys)
           r == [Reinsert(Empty(t.cap), h, marked.at) EXCEPT !.size = marked.size]
<1>1. Cardinality(DOMAIN keys) = n
  BY FS_Interval
<1>2. \/ EraseMultiple(t, h, keys) = single[n]
      \/ EraseMultiple(t, h, keys) = IF marked = t THEN t ELSE r
  <2> DEFINE few == ~(n > t.size \div 8 \/ (n > 16 /\ n > t.cap \div 16))
             some == IF marked = t THEN t ELSE r
  <2>1. EraseMultiple(t, h, keys) =
          CASE n <= 1 -> single[n] [] n > 1 /\ few -> single[n] [] OTHER -> some
    BY <1>1 DEF EraseMultiple
  <2> HIDE DEF few, some, single
  <2>2. EraseMultiple(t, h, keys) = single[n] \/ EraseMultiple(t, h, keys) = some
    BY <2>1
  <2> QED
    BY <2>2 DEF some
<1>3. t \in Thinned(t, n, keys) /\ t \in S
  BY DEF Good, Thinned, Others, Left
<1>4. ASSUME NEW i \in 1 .. n, NEW s \in S PROVE Erase(s, h, keys[i]) \in S
  <2>1. PICK k \in Names : k = keys[i]
    OBVIOUS
  <2>2. Good(s, h) /\ s.cap = t.cap /\ Entries(s) \subseteq Entries(t) /\ Others(t, n, keys) \subseteq Entries(s)
    BY DEF Left, Thinned
  <2>3. PICK w : w = Erase(s, h, k)
    OBVIOUS
  <2>4. Good(w, h) /\ w.cap = s.cap /\ Entries(w) = {e \in Entries(s) : e.key # k}
    BY <2>2, <2>3, EraseIs
  <2>5. Entries(w) \subseteq Entries(t) /\ Others(t, n, keys) \subseteq Entries(w)
    BY <2>1, <2>2, <2>4 DEF Others
  <2> QED
    BY <2>1, <2>2, <2>3, <2>4, <2>5 DEF Left, Thinned, Good
<1>5. single[n] \in S
  <2> HIDE DEF S
  <2>1. \E u : Rec(u)
    <3> DEFINE G == [i \in 1 .. n |-> [s \in S |-> Erase(s, h, keys[i])]]
    <3>1. \A i \in 1 .. n, s \in S : G[i][s] = Erase(s, h, keys[i])
      OBVIOUS
    <3>2. G \in [1 .. n -> [S -> S]]
      BY <1>4
    <3> HIDE DEF G
    <3>3. PICK f : Iteration(f, n, S, t, G)
      BY <1>3, <3>2, Iterate
    <3>4. \A i \in 0 .. n : f[i] = IF i = 0 THEN t ELSE Erase(f[i - 1], h, keys[i])
      <4>1. \A i \in 0 .. n : i = 0 \/ i \in 1 .. n
        OBVIOUS
      <4> QED
        BY <3>1, <3>3, <4>1 DEF Iteration
    <3>5. f = [i \in 0 .. n |-> f[i]]
      BY <3>3 DEF Iteration
    <3> QED
      BY <3>4, <3>5
  <2>2. PICK u : Rec(u) /\ single = u
    <3> HIDE DEF Rec
    <3> QED
      BY <2>1
  <2>3. u[0] = t /\ \A i \in 1 .. n : u[i] = Erase(u[i - 1], h, keys[i])
    <3>1. 0 \in 0 .. n /\ \A i \in 1 .. n : i \in 0 .. n /\ i # 0
      OBVIOUS
    <3> QED
      BY <2>2, <3>1
  <2> HIDE DEF Rec, single
  <2> DEFINE Done == {i \in 0 .. n : u[i] \in S}
  <2>4. 0 \in Done
    BY <1>3, <2>3
  <2>5. ASSUME NEW i \in 0 + 1 .. n, i - 1 \in Done PROVE i \in Done
    <3>1. i \in 1 .. n /\ i \in 0 .. n /\ u[i - 1] \in S
      BY <2>5
    <3>2. Erase(u[i - 1], h, keys[i]) \in S
      BY <1>4, <3>1
    <3> QED
      BY <2>3, <3>1, <3>2
  <2>6. n \in 0 .. n /\ 0 \in Nat
    OBVIOUS
  <2> HIDE DEF Done
  <2>7. \A i \in 0 .. n : i \in Done
    BY <2>4, <2>5, <2>6, Induction
  <2> QED
    BY <2>2, <2>6, <2>7 DEF Done
<1>6. r \in S
  <2>1. PICK c \in Nat \ {0} : c = t.cap
    BY TableIs DEF Good
  <2>2. PICK m \in Tables : /\ m = marked /\ m.cap = c /\ Distinct(m)
                            /\ m.size = Cardinality(Keys(m)) /\ m.size < c /\ m.size \in Int
                            /\ Entries(m) \subseteq Entries(t)
                            /\ Others(t, n, keys) \subseteq Entries(m)
    BY <2>1, MarkAllIs, TableIs DEF Thinned, Counted
  <2>3. PICK q : q = Reinsert(Empty(c), h, m.at)
    OBVIOUS
  <2>4. q \in Tables /\ q.cap = c /\ Distinct(q) /\ Gapless(q, h) /\ Entries(q) = Entries(m)
    BY <2>2, <2>3, ReinsertIs
  <2>10. PICK k \in Int : k = m.size
    BY <2>2
  <2>12. PICK w : w = [q EXCEPT !.size = k]
    OBVIOUS
  <2>11. w \in Tables /\ w.cap = q.cap /\ w.size = k /\ w.at = q.at
    BY <2>4, <2>12, SizeChanged
  <2>5. w = [q EXCEPT !.size = m.size] /\ w.cap = c /\ w.size = m.size /\ w.at = q.at
    BY <2>4, <2>10, <2>11, <2>12
  <2>6. Distinct(w) /\ Gapless(w, h) /\ Entries(w) = Entries(m)
    BY <2>4, <2>5, SameArray
  <2>7. Keys(w) = Keys(m)
    BY <2>6, <2>11, EntriesAre
  <2>8. Counted(w)
    BY <2>2, <2>5, <2>7 DEF Counted
  <2>9. r = w
    BY <2>1, <2>2, <2>3, <2>5
  <2> HIDE DEF r
  <2> QED
    BY <2>1, <2>2, <2>5, <2>6, <2>8, <2>9, <2>11 DEF Left, Thinned, Good
<1> HIDE DEF S, single, r, marked
<1> QED
  BY <1>2, <1>3, <1>5, <1>6 DEF S

-----------------------------------------------------------------------------
(* A clone, and a table whose entries have new values.                     *)

\* The entries of t in the slots before i.
Before(t, i) == {t.at[p] : p \in {q \in Occupied(t) : q < i}}

LEMMA CloneIs ==
    ASSUME hash \in Hashes, NEW t, Good(t, hash), InitialCapacity \in Nat \ {0}
    PROVE  Good(Clone(t), hash) /\ Entries(Clone(t)) = Entries(t)
<1>1. PICK n \in Nat \ {0} : n = t.cap /\ Slots(t) = 0 .. n - 1 /\ t \in Tables /\ Distinct(t)
  BY TableIs DEF Good, Slots
<1> DEFINE S == {w \in Tables : Good(w, hash)}
           s == Empty(InitialCapacity)
           Added(i, w) == IF t.at[i - 1] = Free THEN w
                          ELSE InsertOrAssign(w, hash, t.at[i - 1].key, t.at[i - 1].val)
           Rec(u) == u = [i \in 0 .. n |->
                            IF i = 0 THEN s
                            ELSE IF t.at[i - 1] = Free THEN u[i - 1]
                            ELSE InsertOrAssign(u[i - 1], hash, t.at[i - 1].key, t.at[i - 1].val)]
<1>2. Clone(t) = (CHOOSE u : Rec(u))[n]
  BY <1>1 DEF Clone
<1>3. s \in S /\ Entries(s) = {}
  BY EmptyIs DEF Good
<1>4. ASSUME NEW i \in 1 .. n, NEW w \in S
      PROVE  /\ Added(i, w) \in S
             /\ Entries(w) = Before(t, i - 1) => Entries(Added(i, w)) = Before(t, i)
  <2>1. PICK p \in Slots(t) : p = i - 1 /\ p + 1 = i /\ p \in Nat
    BY <1>1
  <2>2. \A q \in Occupied(t) : q \in Nat /\ (q < i <=> q < p \/ q = p)
    BY <1>1, <2>1 DEF Occupied
  <2>3. CASE t.at[p] = Free
    <3>1. {q \in Occupied(t) : q < i} = {q \in Occupied(t) : q < p}
      BY <2>2, <2>3 DEF Occupied
    <3> QED
      BY <2>1, <2>3, <3>1 DEF Before
  <2>4. CASE t.at[p] # Free
    <3>1. PICK e \in Entry : /\ e = t.at[p] /\ p \in Occupied(t) /\ e.key \in Names /\ e.val \in Variable
                             /\ e = [key |-> e.key, val |-> e.val]
      BY <1>1, <2>4, SlotIs, EntryIsNotFree
    <3>2. PICK r : r = InsertOrAssign(w, hash, e.key, e.val)
      OBVIOUS
    <3>3. Good(r, hash) /\ Entries(r) = {f \in Entries(w) : f.key # e.key} \cup {e}
      BY <3>1, <3>2, InsertIs
    <3>4. Added(i, w) = r
      BY <2>1, <2>4, <3>1, <3>2
    <3>5. Before(t, i) = Before(t, p) \cup {e}
      BY <2>2, <3>1 DEF Before
    <3>6. \A f \in Before(t, p) : f.key # e.key
      BY <1>1, <2>2, <3>1 DEF Before, Distinct
    <3> QED
      BY <2>1, <3>3, <3>4, <3>5, <3>6 DEF Good
  <2> QED
    BY <2>1, <2>3, <2>4
<1>5. \E u : Rec(u)
  <2> DEFINE G == [i \in 1 .. n |-> [w \in S |-> Added(i, w)]]
  <2>1. \A i \in 1 .. n, w \in S : G[i][w] = Added(i, w)
    OBVIOUS
  <2>2. G \in [1 .. n -> [S -> S]]
    <3> HIDE DEF Added, S
    <3> QED
      BY <1>4
  <2> HIDE DEF G, S, s
  <2>3. PICK f : Iteration(f, n, S, s, G)
    BY <1>3, <2>2, Iterate
  <2>4. \A i \in 0 .. n : f[i] = IF i = 0 THEN s ELSE Added(i, f[i - 1])
    <3>1. \A i \in 0 .. n : i = 0 \/ i \in 1 .. n
      OBVIOUS
    <3> HIDE DEF Added
    <3> QED
      BY <2>1, <2>3, <3>1 DEF Iteration
  <2>5. f = [i \in 0 .. n |-> f[i]]
    BY <2>3 DEF Iteration
  <2> QED
    BY <2>4, <2>5
<1>6. PICK u : Rec(u) /\ Clone(t) = u[n]
  <2> HIDE DEF Rec
  <2> QED
    BY <1>2, <1>5
<1>7. u[0] = s /\ \A i \in 1 .. n : u[i] = Added(i, u[i - 1])
  <2>1. 0 \in 0 .. n /\ \A i \in 1 .. n : i \in 0 .. n /\ i # 0
    OBVIOUS
  <2> HIDE DEF s
  <2> QED
    BY <1>6, <2>1
<1> HIDE DEF Rec, S, Added, s
<1> DEFINE Done == {i \in 0 .. n : u[i] \in S /\ Entries(u[i]) = Before(t, i)}
<1>8. 0 \in Done
  <2>1. Before(t, 0) = {}
    BY <1>1 DEF Before, Occupied
  <2> QED
    BY <1>3, <1>7, <2>1
<1>9. ASSUME NEW i \in 0 + 1 .. n, i - 1 \in Done PROVE i \in Done
  <2>1. i \in 1 .. n /\ i \in 0 .. n
    OBVIOUS
  <2>2. PICK w \in S : w = u[i - 1] /\ Entries(w) = Before(t, i - 1)
    BY <1>9
  <2>3. u[i] = Added(i, w)
    BY <1>7, <2>1, <2>2
  <2> QED
    BY <1>4, <2>1, <2>2, <2>3
<1>10. n \in Done
  <2>1. n \in 0 .. n /\ 0 \in Nat /\ n \in Nat
    OBVIOUS
  <2> HIDE DEF Done
  <2>2. \A i \in 0 .. n : i \in Done
    BY <1>8, <1>9, <2>1, Induction
  <2> QED
    BY <2>1, <2>2
<1>11. Before(t, n) = Entries(t)
  BY <1>1 DEF Before, Entries, Occupied
<1> QED
  BY <1>6, <1>10, <1>11 DEF S

-----------------------------------------------------------------------------
(* The pass over all variables.                                            *)

\* Every number up to its size is the rank of an element of S.
LEMMA Ranks ==
    ASSUME NEW c \in Nat, NEW S \in SUBSET (0 .. c - 1)
    PROVE  /\ IsFiniteSet(S) /\ Cardinality(S) \in Nat
           /\ \A i \in 1 .. Cardinality(S) : \E p \in S : Cardinality({q \in S : q <= p}) = i
<1> DEFINE upto(x) == {q \in S : q < x}
           Done == {x \in 0 .. c : \A i \in 1 .. Cardinality(upto(x)) :
                                      \E p \in S : Cardinality({q \in S : q <= p}) = i}
<1>7. \A q \in S : q \in Nat /\ q < c
  OBVIOUS
<1>1. IsFiniteSet(S)
  <2>1. IsFiniteSet(0 .. c - 1)
    BY FS_Interval
  <2> QED
    BY <2>1, FS_Subset
<1>2. \A x : IsFiniteSet(upto(x)) /\ Cardinality(upto(x)) \in Nat
  BY <1>1, FS_Subset, FS_CardinalityType
<1>3. 0 \in Done
  <2>1. upto(0) = {}
    <3>1. \A q \in Nat : ~(q < 0)
      OBVIOUS
    <3>2. \A q \in S : ~(q < 0)
      BY <1>7, <3>1
    <3> QED
      BY <3>2
  <2>2. Cardinality(upto(0)) = 0
    BY <2>1, FS_EmptySet
  <2>3. 1 .. Cardinality(upto(0)) = {}
    BY <2>2
  <2>4. 0 \in 0 .. c
    OBVIOUS
  <2> HIDE DEF upto
  <2> QED
    BY <2>3, <2>4
<1>4. ASSUME NEW x \in 0 + 1 .. c, x - 1 \in Done PROVE x \in Done
  <2>1. PICK y \in 0 .. c - 1 : y = x - 1 /\ x = y + 1
    OBVIOUS
  <2>2. \A i \in 1 .. Cardinality(upto(y)) : \E p \in S : Cardinality({q \in S : q <= p}) = i
    BY <1>4, <2>1
  <2>3. \A q \in S : q \in Nat /\ (q < x <=> q <= y) /\ (q < x <=> q < y \/ q = y)
    BY <2>1
  <2>4. CASE y \notin S
    <3>1. upto(x) = upto(y)
      BY <2>3, <2>4
    <3> HIDE DEF upto
    <3> QED
      BY <2>2, <3>1
  <2>5. CASE y \in S
    <3>1. upto(x) = upto(y) \cup {y} /\ y \notin upto(y)
      <4>1. ~(y < y)
        BY <2>1
      <4> QED
        BY <2>3, <2>5, <4>1
    <3>2. upto(x) = {q \in S : q <= y}
      BY <2>3
    <3> DEFINE rank(p) == Cardinality({q \in S : q <= p})
    <3> HIDE DEF upto
    <3>3. Cardinality(upto(x)) = Cardinality(upto(y)) + 1
      BY <1>2, <3>1, FS_AddElement
    <3>4. rank(y) = Cardinality(upto(y)) + 1
      BY <3>2, <3>3
    <3>5. \A i \in 1 .. Cardinality(upto(y)) : \E p \in S : rank(p) = i
      BY <2>2
    <3> HIDE DEF rank
    <3>6. \A i \in 1 .. Cardinality(upto(x)) : \E p \in S : rank(p) = i
      <4>1. PICK m \in Nat : m = Cardinality(upto(y))
        BY <1>2
      <4>2. \A i \in 1 .. m + 1 : i \in 1 .. m \/ i = m + 1
        OBVIOUS
      <4> QED
        BY <2>5, <3>3, <3>4, <3>5, <4>1, <4>2
    <3> QED
      BY <3>6 DEF rank
  <2> QED
    BY <2>4, <2>5
<1>5. c \in Done
  <2>1. c \in 0 .. c /\ 0 \in Nat
    OBVIOUS
  <2> HIDE DEF Done
  <2>2. \A x \in 0 .. c : x \in Done
    BY <1>3, <1>4, <2>1, Induction
  <2> QED
    BY <2>1, <2>2
<1>6. upto(c) = S
  BY <1>7
<1> HIDE DEF upto
<1> QED
  BY <1>1, <1>5, <1>6, FS_CardinalityType

LEMMA LastIs ==
    ASSUME NEW c \in Nat, NEW ps \in SUBSET (0 .. c - 1), ps # {}
    PROVE  Last(ps) \in ps
<1> DEFINE S == {x \in Nat : \E p \in ps : x = c - 1 - p}
<1>1. S # {} /\ S \in SUBSET Nat
  <2>1. PICK p \in ps : TRUE
    OBVIOUS
  <2>2. c - 1 - p \in Nat
    OBVIOUS
  <2> QED
    BY <2>1, <2>2
<1>2. PICK m \in S : \A k \in S : m <= k
  <2> HIDE DEF S
  <2> QED
    BY <1>1, Least
<1>3. PICK p \in ps : m = c - 1 - p
  OBVIOUS
<1>4. ASSUME NEW q \in ps PROVE q <= p
  <2>1. c - 1 - q \in S
    OBVIOUS
  <2> QED
    BY <1>2, <1>3, <2>1
<1>5. \E x \in ps : \A q \in ps : q <= x
  BY <1>4
<1> QED
  BY <1>5 DEF Last

\* The entry of slot p after the pass has set values in place.
LEMMA SetInPlaceIs ==
    ASSUME NEW t, NEW h \in Hashes, Good(t, h),
           NEW d \in [Keys(t) -> Decisions], NEW v \in Values
    PROVE  LET u == SetInPlace(t, d, v)
           IN  /\ Good(u, h) /\ u.cap = t.cap
               /\ Occupied(u) = Occupied(t) /\ Keys(u) = Keys(t)
               /\ \A p \in Occupied(t) :
                    /\ u.at[p].key = t.at[p].key
                    /\ ~Fails(t, d) /\ d[t.at[p].key] = "set" => u.at[p].val = Turned(t.at[p].val, v)
                    /\ d[t.at[p].key] # "set" => u.at[p] = t.at[p]
<1> DEFINE E == Entry \cup {Free}
           at == [p \in Slots(t) |->
                    IF p \in Reached(t, d) /\ d[t.at[p].key] = "set"
                    THEN [t.at[p] EXCEPT !.val = Turned(@, v)] ELSE t.at[p]]
           u == [t EXCEPT !.at = at]
<1>1. /\ t \in Tables /\ t.size \in Int /\ t.cap \in Nat \ {0} /\ Slots(t) = 0 .. t.cap - 1
      /\ Distinct(t) /\ Gapless(t, h) /\ Counted(t)
  BY TableIs DEF Good, Slots
<1>2. ASSUME NEW e \in Entry
      PROVE  LET f == [e EXCEPT !.val = Turned(@, v)]
             IN  f \in Entry /\ f # Free /\ f.key = e.key /\ f.val = Turned(e.val, v)
  <2>1. e.val \in Variable /\ e = [key |-> e.key, val |-> e.val] /\ e.key \in Names
    BY EntryIsNotFree
  <2>2. Turned(e.val, v) \in Variable
    BY <2>1 DEF Variable, Turned
  <2>3. [e EXCEPT !.val = Turned(@, v)] = [key |-> e.key, val |-> Turned(e.val, v)]
    BY <2>1
  <2>4. [key |-> e.key, val |-> Turned(e.val, v)] \in Entry
    BY <2>1, <2>2 DEF Entry
  <2> QED
    BY <2>3, <2>4, EntryIsNotFree
<1>3. ASSUME NEW p \in Slots(t)
      PROVE  /\ p \in Occupied(t) => /\ at[p] \in Entry /\ at[p] # Free /\ at[p].key = t.at[p].key
                                     /\ p \in Reached(t, d) /\ d[t.at[p].key] = "set" =>
                                          at[p].val = Turned(t.at[p].val, v)
                                     /\ d[t.at[p].key] # "set" => at[p] = t.at[p]
             /\ p \notin Occupied(t) => at[p] = Free
  <2>1. CASE p \in Occupied(t)
    <3>1. PICK e \in Entry : e = t.at[p] /\ e # Free
      BY <1>1, <2>1, SlotIs
    <3>2. CASE p \in Reached(t, d) /\ d[t.at[p].key] = "set"
      <4>1. at[p] = [e EXCEPT !.val = Turned(@, v)]
        BY <3>1, <3>2
      <4> HIDE DEF at
      <4> QED
        BY <1>2, <2>1, <3>1, <3>2, <4>1
    <3>3. CASE ~(p \in Reached(t, d) /\ d[t.at[p].key] = "set")
      <4>1. at[p] = e
        BY <3>1, <3>3
      <4> HIDE DEF at
      <4> QED
        BY <2>1, <3>1, <3>3, <4>1
    <3> QED
      BY <3>2, <3>3
  <2>2. CASE p \notin Occupied(t)
    <3>1. t.at[p] = Free /\ p \notin Reached(t, d)
      BY <2>2 DEF Occupied, Reached
    <3> QED
      BY <2>2, <3>1
  <2> QED
    BY <2>1, <2>2
<1>4. at \in [0 .. t.cap - 1 -> E]
  <2>1. \A p \in Slots(t) : at[p] \in E
    BY <1>3
  <2>2. at = [p \in Slots(t) |-> at[p]]
    OBVIOUS
  <2> HIDE DEF at
  <2> QED
    BY <1>1, <2>1, <2>2
<1>5. u \in [cap : {t.cap}, at : {at}, size : {t.size}]
  <2> HIDE DEF at
  <2> QED
    BY <1>1 DEF Tables
<1> HIDE DEF at, u
<1>6. u \in Tables /\ u.cap = t.cap /\ u.size = t.size /\ u.at = at
  BY <1>1, <1>4, <1>5, TableOf
<1>7. Slots(u) = Slots(t) /\ Occupied(u) = Occupied(t)
  BY <1>3, <1>6 DEF Slots, Occupied
<1>8. \A p \in Occupied(t) : p \in Slots(t) /\ u.at[p].key = t.at[p].key
  BY <1>3, <1>6 DEF Occupied
<1>9. Keys(u) = Keys(t)
  BY <1>7, <1>8 DEF Keys
<1>10. Distinct(u)
  BY <1>1, <1>7, <1>8 DEF Distinct
<1>11. Gapless(u, h)
  <2>1. \A k : Home(u, h, k) = Home(t, h, k)
    BY <1>6 DEF Home, FindSlot
  <2>2. \A x \in Slots(t) : u.at[x] # Free <=> t.at[x] # Free
    BY <1>7 DEF Occupied
  <2> QED
    BY <1>1, <1>7, <1>8, <2>1, <2>2 DEF Gapless, Reaches
<1>12. Good(u, h)
  BY <1>1, <1>6, <1>9, <1>10, <1>11 DEF Good, Counted
<1>13. \A p \in Occupied(t) : ~Fails(t, d) => p \in Reached(t, d)
  BY DEF Fails, Reached
<1>14. SetInPlace(t, d, v) = u
  BY DEF SetInPlace, u, at
<1> QED
  BY <1>3, <1>6, <1>7, <1>8, <1>9, <1>12, <1>13, <1>14

LEMMA LeavingIs ==
    ASSUME NEW t \in Tables, NEW d \in [Keys(t) -> Decisions], NEW to \in Names
    PROVE  \E n \in Nat : \E keys \in [1 .. n -> Names] :
              /\ keys = Leaving(t, d, to)
              /\ \A i \in 1 .. n : \E p \in Occupied(t) :
                    keys[i] = t.at[p].key /\ d[t.at[p].key] \in {"remove", "rename"}
<1> DEFINE ps == {p \in Occupied(t) : \/ d[t.at[p].key] = "remove"
                                      \/ d[t.at[p].key] = "rename" /\ t.at[p].key # to}
           rank(p) == Cardinality({q \in ps : q <= p})
           at(i) == CHOOSE p \in ps : rank(p) = i
           keys == [i \in 1 .. Cardinality(ps) |-> t.at[at(i)].key]
<1>1. PICK c \in Nat : ps \in SUBSET (0 .. c - 1)
  BY TableIs DEF Occupied, Slots
<1>2. \A p \in ps : p \in Occupied(t) /\ d[t.at[p].key] \in {"remove", "rename"} /\ t.at[p].key \in Names
  BY SlotIs DEF Occupied
<1>3. keys = Leaving(t, d, to)
  BY DEF Leaving
<1> HIDE DEF ps
<1>4. Cardinality(ps) \in Nat /\ \A i \in 1 .. Cardinality(ps) : \E p \in ps : rank(p) = i
  BY <1>1, Ranks
<1>5. PICK n \in Nat : n = Cardinality(ps)
  BY <1>4
<1> HIDE DEF rank
<1>6. \A i \in 1 .. n : at(i) \in ps
  BY <1>4, <1>5
<1> HIDE DEF at
<1>7. keys \in [1 .. n -> Names] /\ \A i \in 1 .. n : keys[i] = t.at[at(i)].key
  BY <1>2, <1>5, <1>6
<1> HIDE DEF keys
<1>8. \A i \in 1 .. n : \E p \in Occupied(t) :
         keys[i] = t.at[p].key /\ d[t.at[p].key] \in {"remove", "rename"}
  BY <1>2, <1>6, <1>7
<1> QED
  BY <1>3, <1>7, <1>8

\* What the pass makes of t.
Mapped(t, d, v, to, r) ==
    /\ Good(r, hash)
    /\ ~Fails(t, d) =>
         /\ Keys(r) \subseteq Keys(t) \cup {to}
         /\ \A e \in Entries(t) : e.key # to =>
              /\ d[e.key] = "skip" => e \in Entries(r)
              /\ d[e.key] = "set" =>
                   \E f \in Entries(r) : f.key = e.key /\ f.val = Turned(e.val, v)

LEMMA MapResultIs ==
    ASSUME hash \in Hashes, NEW t, Good(t, hash),
           NEW d \in [Keys(t) -> Decisions], NEW v \in Values, NEW to \in Names
    PROVE  Mapped(t, d, v, to, MapResult(t, d, v, to))
<1>1. t \in Tables
  BY DEF Good
<1>2. PICK u : u = SetInPlace(t, d, v)
  OBVIOUS
<1>3. /\ Good(u, hash) /\ Occupied(u) = Occupied(t) /\ Keys(u) = Keys(t) /\ u \in Tables
      /\ \A p \in Occupied(t) :
           /\ u.at[p].key = t.at[p].key
           /\ ~Fails(t, d) /\ d[t.at[p].key] = "set" => u.at[p].val = Turned(t.at[p].val, v)
           /\ d[t.at[p].key] # "set" => u.at[p] = t.at[p]
  BY <1>2, SetInPlaceIs DEF Good
<1>4. CASE Fails(t, d)
  BY <1>2, <1>3, <1>4 DEF MapResult, Mapped
<1>5. CASE ~Fails(t, d)
  <2>1. PICK n \in Nat : \E keys \in [1 .. n -> Names] :
              /\ keys = Leaving(t, d, to)
              /\ \A i \in 1 .. n : \E p \in Occupied(t) :
                    keys[i] = t.at[p].key /\ d[t.at[p].key] \in {"remove", "rename"}
    BY <1>1, LeavingIs
  <2>2. PICK keys \in [1 .. n -> Names] :
              /\ keys = Leaving(t, d, to)
              /\ \A i \in 1 .. n : \E p \in Occupied(t) :
                    keys[i] = t.at[p].key /\ d[t.at[p].key] \in {"remove", "rename"}
    BY <2>1
  <2>3. PICK w : w = EraseMultiple(u, hash, keys)
    OBVIOUS
  <2>4. w \in Left(u, hash, n, keys)
    BY <1>3, <2>3, EraseMultipleIs
  <2>5. /\ Good(w, hash) /\ w \in Tables /\ Entries(w) \subseteq Entries(u)
        /\ Others(u, n, keys) \subseteq Entries(w)
    BY <2>4 DEF Left, Thinned
  <2>6. Keys(w) \subseteq Keys(t)
    BY <1>3, <2>5, EntriesAre
  <2>7. ASSUME NEW e \in Entries(t)
        PROVE  /\ d[e.key] = "skip" => e \in Entries(w)
               /\ d[e.key] = "set" =>
                    \E f \in Entries(w) : f.key = e.key /\ f.val = Turned(e.val, v)
    <3>1. PICK p \in Occupied(t) : e = t.at[p]
      BY DEF Entries
    <3>2. PICK f \in Entries(u) : f = u.at[p] /\ f.key = e.key
      BY <1>3, <3>1 DEF Entries
    <3>3. ASSUME d[e.key] \in {"skip", "set"} PROVE f \in Entries(w)
      <4>1. \A i \in 1 .. n : d[keys[i]] \in {"remove", "rename"}
        BY <2>2
      <4>2. \A i \in 1 .. n : keys[i] # f.key
        BY <3>2, <3>3, <4>1
      <4> QED
        BY <2>5, <4>2 DEF Others
    <3> QED
      BY <1>3, <1>5, <3>1, <3>2, <3>3
  <2>8. CASE Renamed(t, d, to) = {}
    <3>1. MapResult(t, d, v, to) = w
      BY <1>2, <1>5, <2>2, <2>3, <2>8 DEF MapResult
    <3> QED
      BY <2>5, <2>6, <2>7, <3>1 DEF Mapped
  <2>9. CASE Renamed(t, d, to) # {}
    <3>1. PICK p : p = Last(Renamed(t, d, to))
      OBVIOUS
    <3>2. p \in Occupied(t)
      <4>1. PICK c \in Nat : c = t.cap
        BY <1>1, TableIs
      <4>2. Renamed(t, d, to) \in SUBSET (0 .. c - 1)
        BY <4>1 DEF Renamed, Occupied, Slots
      <4>3. p \in Renamed(t, d, to)
        BY <2>9, <3>1, <4>2, LastIs
      <4> QED
        BY <4>3 DEF Renamed
    <3>3. PICK x \in Variable : x = Turned(t.at[p].val, v)
      <4>1. PICK e \in Entry : e = t.at[p]
        BY <1>1, <3>2, SlotIs DEF Occupied
      <4>2. e.val \in Variable
        BY EntryIsNotFree
      <4> QED
        BY <4>1, <4>2 DEF Variable, Turned
    <3>4. PICK r : r = InsertOrAssign(w, hash, to, x)
      OBVIOUS
    <3>5. MapResult(t, d, v, to) = r
      BY <1>2, <1>5, <2>2, <2>3, <2>9, <3>1, <3>3, <3>4 DEF MapResult
    <3>6. /\ Good(r, hash) /\ Keys(r) = Keys(w) \cup {to}
          /\ Entries(r) = {e \in Entries(w) : e.key # to} \cup {[key |-> to, val |-> x]}
      BY <2>5, <3>4, InsertIs
    <3> QED
      BY <2>6, <2>7, <3>5, <3>6 DEF Mapped
  <2> QED
    BY <2>8, <2>9
<1> QED
  BY <1>4, <1>5

-----------------------------------------------------------------------------
(* What the operations do to the variables.                                *)

LEMMA PutMeans ==
    ASSUME NEW t \in Tables, Distinct(t), NEW u \in Tables, Distinct(u),
           NEW k \in Names, NEW v \in Variable,
           Entries(u) = {e \in Entries(t) : e.key # k} \cup {[key |-> k, val |-> v]}
    PROVE  Meaning(u) = Store!With(Meaning(t), k, v)
<1>7. PICK f : f = [key |-> k, val |-> v]
  OBVIOUS
<1>5. f = [key |-> k, val |-> v] /\ f.key = k /\ f.val = v
  BY <1>7
<1>6. Entries(u) = {e \in Entries(t) : e.key # k} \cup {f}
  BY <1>5
<1>1. Keys(u) = Keys(t) \cup {k}
  BY <1>5, <1>6, EntriesAre
<1>2. Meaning(u)[k] = v
  <2>1. PICK e \in Entries(u) : e.key = k /\ e.val = v
    BY <1>5, <1>6
  <2> QED
    BY <2>1, MeaningIs
<1>3. ASSUME NEW m \in Keys(t), m # k PROVE Meaning(u)[m] = Meaning(t)[m]
  <2>1. PICK e \in Entries(t) : e.key = m /\ Meaning(t)[m] = e.val
    BY MeaningIs
  <2>2. e \in Entries(u)
    BY <1>3, <2>1
  <2> QED
    BY <2>1, <2>2, MeaningIs
<1>4. DOMAIN Meaning(u) = Keys(t) \cup {k} /\ DOMAIN Meaning(t) = Keys(t)
      /\ Meaning(u) = [m \in Keys(t) \cup {k} |-> Meaning(u)[m]]
  BY <1>1, MeaningIs
<1> QED
  BY <1>2, <1>3, <1>4 DEF Store!With

LEMMA TakenMeans ==
    ASSUME NEW t \in Tables, Distinct(t), NEW u \in Tables, Distinct(u), NEW k,
           Entries(u) = {e \in Entries(t) : e.key # k}
    PROVE  Meaning(u) = Store!Without(Meaning(t), {k})
<1>1. Keys(u) = Keys(t) \ {k}
  BY EntriesAre
<1>2. ASSUME NEW m \in Keys(t), m # k PROVE Meaning(u)[m] = Meaning(t)[m]
  <2>1. PICK e \in Entries(t) : e.key = m /\ Meaning(t)[m] = e.val
    BY MeaningIs
  <2>2. e \in Entries(u)
    BY <1>2, <2>1
  <2> QED
    BY <2>1, <2>2, MeaningIs
<1>3. DOMAIN Meaning(u) = Keys(t) \ {k} /\ DOMAIN Meaning(t) = Keys(t)
      /\ Meaning(u) = [m \in Keys(t) \ {k} |-> Meaning(u)[m]]
  BY <1>1, MeaningIs
<1> QED
  BY <1>2, <1>3 DEF Store!Without

\* An entry with other attributes in the place of one.
LEMMA Replaced ==
    ASSUME NEW t, NEW h \in Hashes, Good(t, h), NEW k \in Keys(t),
           NEW w \in Variable, NEW u,
           u = [t EXCEPT !.at[Probe(t, h, k)].val = w]
    PROVE  Good(u, h) /\ Meaning(u) = Store!With(Meaning(t), k, w)
<1>1. t \in Tables /\ Distinct(t) /\ Gapless(t, h) /\ Counted(t) /\ k \in Names
  BY KeyIs DEF Good
<1>2. PICK p \in Occupied(t) : p = Probe(t, h, k) /\ t.at[p].key = k
  BY <1>1, ContainsIs
<1>3. PICK e \in Entry : e = t.at[p] /\ e = [key |-> e.key, val |-> e.val] /\ p \in Slots(t)
  BY <1>1, SlotIs, EntryIsNotFree DEF Occupied
<1>4. PICK f \in Entry : f = [key |-> k, val |-> w] /\ f.key = k /\ f # Free
  <2>1. [key |-> k, val |-> w] \in Entry
    BY <1>1 DEF Entry
  <2> QED
    BY <2>1, EntryIsNotFree
<1>5. [e EXCEPT !.val = w] = f
  BY <1>2, <1>3, <1>4
<1> DEFINE at == [t.at EXCEPT ![p] = f]
<1>6. t.at \in [Slots(t) -> Entry \cup {Free}] /\ Slots(t) = 0 .. t.cap - 1 /\ t.size \in Int
  BY <1>1, TableIs DEF Slots
<1>7. at \in [0 .. t.cap - 1 -> Entry \cup {Free}]
  BY <1>6
<1>8. t \in [cap : {t.cap}, at : {t.at}, size : {t.size}]
  BY <1>1 DEF Tables
<1>9. u \in [cap : {t.cap}, at : {at}, size : {t.size}]
  <2>1. u = [t EXCEPT !.at = [t.at EXCEPT ![p] = [t.at[p] EXCEPT !.val = w]]]
    BY <1>2, <1>8
  <2>2. u = [t EXCEPT !.at = at]
    BY <1>3, <1>5, <2>1
  <2> HIDE DEF at
  <2> QED
    BY <1>8, <2>2
<1>10. u \in Tables /\ u.cap = t.cap /\ u.size = t.size /\ u.at = at
  <2> HIDE DEF at
  <2> QED
    BY <1>1, <1>6, <1>7, <1>9, TableOf
<1>11. /\ Distinct(u) /\ Gapless(u, h) /\ Keys(u) = Keys(t) \cup {k}
       /\ Entries(u) = {g \in Entries(t) : g.key # k} \cup {f}
  <2>1. p \in Occupied(t) /\ t.at[p].key = f.key
    BY <1>2, <1>4
  <2>2. u.at = [t.at EXCEPT ![p] = f]
    BY <1>10
  <2>3. u \in Tables /\ u.cap = t.cap
    BY <1>10
  <2>4. \/ p \in Occupied(t) /\ t.at[p].key = f.key
        \/ t.at[p] = Free /\ f.key \notin Keys(t) /\ Reaches(t, h, f.key, p)
    BY <2>1
  <2> HIDE DEF at
  <2>5. PICK x \in Tables : x = u /\ x.cap = t.cap /\ x.at = [t.at EXCEPT ![p] = f]
    BY <2>2, <2>3
  <2>6. /\ Distinct(x) /\ Gapless(x, h)
        /\ Entries(x) = {g \in Entries(t) : g.key # f.key} \cup {f}
        /\ Keys(x) = Keys(t) \cup {f.key}
    <3>1. PICK q \in Slots(t) : q = p
      BY <1>3
    <3>2. PICK y \in Tables : y = t /\ Distinct(y) /\ Gapless(y, h)
      BY <1>1
    <3>3. \/ q \in Occupied(y) /\ y.at[q].key = f.key
          \/ y.at[q] = Free /\ f.key \notin Keys(y) /\ Reaches(y, h, f.key, q)
      BY <2>1, <3>1, <3>2
    <3>4. q \in Slots(y) /\ x.cap = y.cap /\ x.at = [y.at EXCEPT ![q] = f]
      BY <2>5, <3>1, <3>2
    <3>5. /\ Distinct(x) /\ Gapless(x, h)
          /\ Entries(x) = {g \in Entries(y) : g.key # f.key} \cup {f}
          /\ Keys(x) = Keys(y) \cup {f.key}
      BY <3>2, <3>3, <3>4, Placed
    <3> QED
      BY <3>2, <3>5
  <2> QED
    BY <1>4, <2>5, <2>6
<1>12. Good(u, h)
  <2>1. Keys(u) = Keys(t)
    BY <1>11
  <2> QED
    BY <1>1, <1>10, <1>11, <2>1 DEF Good, Counted
<1> QED
  BY <1>1, <1>4, <1>10, <1>11, <1>12, PutMeans

LEMMA ClearedIs ==
    ASSUME NEW t, NEW h, Good(t, h)
    PROVE  Good(Cleared(t), h) /\ Meaning(Cleared(t)) = Store!Without(Meaning(t), Names)
<1>1. t \in Tables /\ t.cap \in Nat \ {0} /\ Distinct(t)
  BY TableIs DEF Good
<1> DEFINE u == Empty(t.cap)
<1>2. Cleared(t) = u
  <2> DEFINE at == [p \in 0 .. t.cap - 1 |-> Free]
  <2>2. Cleared(t) = [t EXCEPT !.at = at, !.size = 0]
    BY DEF Cleared, Slots
  <2>3. u = [cap |-> t.cap, at |-> at, size |-> 0]
    BY DEF Empty
  <2> HIDE DEF at, u
  <2>5. t \in [cap : {t.cap}, at : {t.at}, size : {t.size}]
    BY <1>1 DEF Tables
  <2>6. PICK w : w = [t EXCEPT !.at = at, !.size = 0]
    OBVIOUS
  <2>7. w \in [cap : {t.cap}, at : {at}, size : {0}]
    BY <2>5, <2>6
  <2>8. w = [cap |-> t.cap, at |-> at, size |-> 0]
    BY <2>7
  <2>4. [t EXCEPT !.at = at, !.size = 0] = [cap |-> t.cap, at |-> at, size |-> 0]
    BY <2>6, <2>8
  <2> QED
    BY <2>2, <2>3, <2>4
<1> HIDE DEF u
<1>3. Good(u, h) /\ Entries(u) = {} /\ u \in Tables /\ Distinct(u)
  BY <1>1, EmptyIs DEF u, Good
<1>4. Keys(u) = {}
  BY <1>3, EntriesAre
<1>5. DOMAIN Meaning(u) = {} /\ Meaning(u) = [m \in {} |-> Meaning(u)[m]]
  BY <1>3, <1>4, MeaningIs
<1>6. DOMAIN Meaning(t) \ Names = {}
  BY <1>1, MeaningIs, EntriesAre
<1> QED
  BY <1>2, <1>3, <1>5, <1>6 DEF Store!Without

-----------------------------------------------------------------------------
(* The invariant: the table is good, and the cached environment is that of *)
(* its entries unless a pass has failed since.                             *)

IInv == /\ hash \in [Names -> HashValues]
        /\ Good(table, hash)
        /\ EnvpIsCurrent

LEMMA HashIs ==
    ASSUME IInv
    PROVE  hash \in Hashes /\ Good(table, hash)
BY StoreAssumption DEF IInv, Hashes

LEMMA InitIInv == Init => IInv
<1> SUFFICES ASSUME Init PROVE IInv
  OBVIOUS
<1>1. Good(table, hash)
  BY StoreAssumption, EmptyIs DEF Init
<1>2. EnvpIsCurrent
  BY DEF Init, NoCache, EnvpIsCurrent
<1> QED
  BY <1>1, <1>2 DEF Init, IInv

\* The flags of the variable k, with the table that they give.
LEMMA FlagIs ==
    ASSUME IInv, NEW n \in Names, Contains(table, hash, n)
    PROVE  /\ n \in Keys(table) /\ Find(table, hash, n).val = Meaning(table)[n]
           /\ Meaning(table)[n] \in Variable
           /\ [table EXCEPT !.at[Probe(table, hash, n)].val.readOnly = TRUE]
                = [table EXCEPT !.at[Probe(table, hash, n)].val =
                     [Meaning(table)[n] EXCEPT !.readOnly = TRUE]]
           /\ \A b \in BOOLEAN :
                [table EXCEPT !.at[Probe(table, hash, n)].val.exported = b]
                  = [table EXCEPT !.at[Probe(table, hash, n)].val =
                       [Meaning(table)[n] EXCEPT !.exported = b]]
<1>1. hash \in Hashes /\ Good(table, hash) /\ table \in Tables /\ Distinct(table)
  BY HashIs DEF Good
<1>2. n \in Keys(table)
  BY <1>1, ContainsIs
<1>3. PICK p \in Occupied(table) : p = Probe(table, hash, n) /\ table.at[p].key = n
  BY <1>1, <1>2, ContainsIs
<1>4. PICK e \in Entry : e = table.at[p] /\ e \in Entries(table) /\ p \in Slots(table)
  BY <1>1, <1>3, SlotIs DEF Occupied, Entries
<1>5. e.val = Meaning(table)[n] /\ e.val \in Variable
  BY <1>1, <1>3, <1>4, MeaningIs, EntryIsNotFree
<1>6. table.at[p].val = Meaning(table)[n]
  BY <1>4, <1>5
<1>7. /\ [table EXCEPT !.at[p].val.readOnly = TRUE]
           = [table EXCEPT !.at[p].val = [Meaning(table)[n] EXCEPT !.readOnly = TRUE]]
      /\ \A b \in BOOLEAN :
           [table EXCEPT !.at[p].val.exported = b]
             = [table EXCEPT !.at[p].val = [Meaning(table)[n] EXCEPT !.exported = b]]
  <2>1. table = [cap |-> table.cap, at |-> table.at, size |-> table.size]
        /\ table.at \in [Slots(table) -> Entry \cup {Free}]
    BY <1>1, TableIs DEF Slots
  <2>2. table.at[p] = [key |-> e.key, val |-> e.val]
    BY <1>4, EntryIsNotFree
  <2> QED
    BY <1>4, <1>6, <2>1, <2>2
<1> QED
  BY <1>1, <1>2, <1>3, <1>4, <1>5, <1>7 DEF Find

\* What a step does: the new table is good, and unless the step is a pass over
\* all variables, the variables change as variable_store.h says.
LEMMA StepIs ==
    ASSUME IInv, Next
    PROVE  /\ hash' = hash /\ Good(table', hash)
           /\ ~passed' => Store!Next \/ Meaning(table)' = Meaning(table)
<1>1. hash \in Hashes /\ Good(table, hash) /\ table \in Tables /\ Distinct(table)
  BY HashIs DEF Good
<1>2. ASSUME NEW n \in Names, NEW v \in Variable, Add(n, v)
      PROVE  hash' = hash /\ Good(table', hash) /\ Store!Next
  <2>1. PICK u : u = InsertOrAssign(table, hash, n, v)
    OBVIOUS
  <2>2. table' = u /\ hash' = hash /\ ~IsReadOnly(n)
    BY <1>2, <2>1 DEF Add, Changed
  <2>3. /\ Good(u, hash) /\ u \in Tables /\ Distinct(u)
        /\ Entries(u) = {e \in Entries(table) : e.key # n} \cup {[key |-> n, val |-> v]}
    BY <1>1, <2>1, InsertIs DEF Good
  <2>4. Meaning(u) = Store!With(Meaning(table), n, v)
    BY <1>1, <2>3, PutMeans
  <2>5. n \in DOMAIN Meaning(table) => ~Meaning(table)[n].readOnly
    BY <1>1, <2>2, ContainsIs, FlagIs, MeaningIs DEF IsReadOnly
  <2>6. Store!Add(n, v)
    BY <2>2, <2>4, <2>5 DEF Store!Add, Store!Has
  <2> QED
    BY <2>2, <2>3, <2>6 DEF Store!Next, Store!Variable, Variable
<1>3. ASSUME NEW n \in Names, Remove(n)
      PROVE  hash' = hash /\ Good(table', hash) /\ Store!Next
  <2>1. PICK u : u = Erase(table, hash, n)
    OBVIOUS
  <2>2. table' = u /\ hash' = hash
    BY <1>3, <2>1 DEF Remove, Changed
  <2>3. /\ Good(u, hash) /\ u \in Tables /\ Distinct(u)
        /\ Entries(u) = {e \in Entries(table) : e.key # n}
    BY <1>1, <2>1, EraseIs DEF Good
  <2>4. Meaning(u) = Store!Without(Meaning(table), {n})
    BY <1>1, <2>3, TakenMeans
  <2> QED
    BY <2>2, <2>3, <2>4 DEF Store!Next, Store!Remove
<1>4. ASSUME NEW n \in Names, SetReadOnly(n)
      PROVE  hash' = hash /\ Good(table', hash) /\ Store!Next
  <2>1. PICK w : w = [Meaning(table)[n] EXCEPT !.readOnly = TRUE]
    OBVIOUS
  <2>2. PICK u : u = [table EXCEPT !.at[Probe(table, hash, n)].val = w]
    OBVIOUS
  <2>3. n \in Keys(table) /\ Meaning(table)[n] \in Variable /\ table' = u /\ hash' = hash
    BY <1>4, <2>1, <2>2, FlagIs DEF SetReadOnly, Changed
  <2>4. w \in Variable
    BY <2>1, <2>3 DEF Variable
  <2>5. Good(u, hash) /\ Meaning(u) = Store!With(Meaning(table), n, w)
    BY <1>1, <2>2, <2>3, <2>4, Replaced
  <2>6. Meaning(table) \in [Keys(table) -> Variable]
    BY <1>1, MeaningIs
  <2>7. Store!With(Meaning(table), n, w) = [Meaning(table) EXCEPT ![n] = w]
    BY <2>3, <2>6 DEF Store!With
  <2>8. Store!SetReadOnly(n)
    BY <2>1, <2>3, <2>5, <2>6, <2>7 DEF Store!SetReadOnly, Store!Has
  <2> QED
    BY <2>3, <2>5, <2>8 DEF Store!Next
<1>5. ASSUME NEW n \in Names, NEW b \in BOOLEAN, SetExported(n, b)
      PROVE  hash' = hash /\ Good(table', hash) /\ Store!Next
  <2>1. PICK w : w = [Meaning(table)[n] EXCEPT !.exported = b]
    OBVIOUS
  <2>2. PICK u : u = [table EXCEPT !.at[Probe(table, hash, n)].val = w]
    OBVIOUS
  <2>3. /\ n \in Keys(table) /\ Meaning(table)[n] \in Variable /\ table' = u /\ hash' = hash
        /\ ~Meaning(table)[n].readOnly
    BY <1>5, <2>1, <2>2, FlagIs DEF SetExported, Changed, IsReadOnly
  <2>4. w \in Variable
    BY <2>1, <2>3 DEF Variable
  <2>5. Good(u, hash) /\ Meaning(u) = Store!With(Meaning(table), n, w)
    BY <1>1, <2>2, <2>3, <2>4, Replaced
  <2>6. Meaning(table) \in [Keys(table) -> Variable]
    BY <1>1, MeaningIs
  <2>7. Store!With(Meaning(table), n, w) = [Meaning(table) EXCEPT ![n] = w]
    BY <2>3, <2>6 DEF Store!With
  <2>8. Store!SetExported(n, b)
    BY <2>1, <2>3, <2>5, <2>6, <2>7 DEF Store!SetExported, Store!Has
  <2> QED
    BY <2>3, <2>5, <2>8 DEF Store!Next
<1>6. ASSUME Clear PROVE hash' = hash /\ Good(table', hash) /\ Store!Next
  <2>1. table' = Cleared(table) /\ hash' = hash
    BY <1>6 DEF Clear, Changed
  <2>2. Good(Cleared(table), hash) /\ Meaning(Cleared(table)) = Store!Without(Meaning(table), Names)
    BY <1>1, ClearedIs
  <2> QED
    BY <2>1, <2>2 DEF Store!Next, Store!Clear
<1>7. ASSUME GetEnvp PROVE hash' = hash /\ Good(table', hash) /\ Meaning(table)' = Meaning(table)
  BY <1>1, <1>7 DEF GetEnvp
<1>8. ASSUME Map PROVE hash' = hash /\ Good(table', hash)
  <2>1. PICK call \in Calls(table), v \in Values :
            hash' = hash /\ table' = MapResult(table, call.does, v, call.to)
    BY <1>8 DEF Map, Changed
  <2>2. call.does \in [Keys(table) -> Decisions] /\ call.to \in Names
    BY DEF Calls
  <2>3. PICK d \in [Keys(table) -> Decisions], to \in Names : d = call.does /\ to = call.to
    BY <2>2
  <2>4. Good(MapResult(table, d, v, to), hash)
    BY <1>1, MapResultIs DEF Mapped
  <2> QED
    BY <2>1, <2>3, <2>4
<1>9. CASE Single /\ passed' = FALSE
  BY <1>2, <1>3, <1>4, <1>5, <1>6, <1>7, <1>9 DEF Single
<1>10. CASE Map /\ passed' = TRUE
  BY <1>8, <1>10
<1> QED
  BY <1>9, <1>10 DEF Next

LEMMA NextIInv == IInv /\ [Next]_vars => IInv'
<1> SUFFICES ASSUME IInv, [Next]_vars PROVE IInv'
  OBVIOUS
<1>1. CASE Next
  <2>1. hash' = hash /\ Good(table', hash')
    BY <1>1, StepIs
  <2>2. EnvpIsCurrent'
    <3>1. cache' = NoCache \/ GetEnvp \/ Map
      BY <1>1 DEF Next, Single, Add, Remove, SetReadOnly, SetExported, Clear, Changed
    <3>2. CASE cache' = NoCache
      BY <3>2 DEF NoCache, EnvpIsCurrent
    <3>3. CASE GetEnvp
      BY <3>3 DEF GetEnvp, EnvpIsCurrent
    <3>4. CASE Map
      <4>1. \/ cache' = NoCache
            \/ cache' = cache /\ (cache.valid /\ ~failed' => ~failed /\ table' = table)
        BY <3>4 DEF Map, Changed
      <4> QED
        BY <3>2, <4>1 DEF IInv, EnvpIsCurrent
    <3> QED
      BY <3>1, <3>2, <3>3, <3>4
  <2> QED
    BY <2>1, <2>2 DEF IInv
<1>2. CASE UNCHANGED vars
  BY <1>2 DEF vars, IInv, EnvpIsCurrent
<1> QED
  BY <1>1, <1>2

LEMMA AlwaysIInv == Spec => []IInv
<1> QED
  BY InitIInv, NextIInv, PTL DEF Spec

(* variable_store_get_envp: the cached environment handed to a program is  *)
(* that of the exported variables as they are now, through every sequence  *)
(* of operations, unless a pass over the store failed in between.          *)
THEOREM EnvpAlwaysCurrent == Spec => []EnvpIsCurrent
<1>1. IInv => EnvpIsCurrent
  BY DEF IInv
<1> QED
  BY <1>1, AlwaysIInv, PTL

LEMMA DeletionsDoAgree ==
    ASSUME IInv
    PROVE  DeletionsAgree
<1>1. hash \in Hashes /\ Good(table, hash)
  BY HashIs
<1> SUFFICES ASSUME NEW p \in Occupied(table), NEW a, a = EraseAtPos(table, hash, p),
                    NEW b, b = FuncErase(table, hash, p)
             PROVE  Sound(a, hash) /\ Sound(b, hash) /\ Meaning(a) = Meaning(b)
  BY DEF DeletionsAgree
<1>2. Good(a, hash) /\ Entries(a) = {e \in Entries(table) : e.key # table.at[p].key}
  BY <1>1, EraseAtPosIs
<1>3. Good(b, hash) /\ Entries(b) = {e \in Entries(table) : e.key # table.at[p].key}
  BY <1>1, FuncEraseIs
<1>4. Meaning(a) = Meaning(b)
  BY <1>2, <1>3, SameEntries DEF Good
<1> QED
  BY <1>1, <1>2, <1>3, <1>4, GoodIsSound

LEMMA CloneDoesEqual ==
    ASSUME IInv
    PROVE  CloneIsEqual
<1>1. hash \in Hashes /\ Good(table, hash) /\ InitialCapacity \in Nat \ {0}
  BY HashIs, StoreAssumption
<1>2. PICK c : c = Clone(table)
  OBVIOUS
<1>3. Good(c, hash) /\ Entries(c) = Entries(table)
  BY <1>1, <1>2, CloneIs
<1>4. Meaning(c) = Meaning(table)
  BY <1>1, <1>3, SameEntries DEF Good
<1> QED
  BY <1>1, <1>2, <1>3, <1>4, GoodIsSound DEF CloneIsEqual

LEMMA MapDoesMean ==
    ASSUME IInv
    PROVE  MapMeans
<1>1. hash \in Hashes /\ Good(table, hash) /\ table \in Tables /\ Distinct(table)
  BY HashIs DEF Good
<1> SUFFICES ASSUME NEW call \in Calls(table), NEW v \in Values, ~Fails(table, call.does),
                    NEW d, d = call.does, NEW to, to = call.to,
                    NEW result, result = MapResult(table, d, v, to)
             PROVE  /\ Sound(result, hash)
                    /\ DOMAIN Meaning(result) \subseteq DOMAIN Meaning(table) \cup {to}
                    /\ \A n \in DOMAIN Meaning(table) \ {to} :
                         /\ d[n] = "skip" => /\ n \in DOMAIN Meaning(result)
                                             /\ Meaning(result)[n] = Meaning(table)[n]
                         /\ d[n] = "set" => /\ n \in DOMAIN Meaning(result)
                                            /\ Meaning(result)[n] = Turned(Meaning(table)[n], v)
  BY DEF MapMeans
<1>2. PICK f \in [Keys(table) -> Decisions], m \in Names : f = d /\ m = to
  BY DEF Calls
<1>3. PICK r : r = MapResult(table, f, v, m) /\ r = result
  BY <1>2
<1>4. /\ Good(r, hash) /\ r \in Tables /\ Distinct(r)
      /\ Keys(r) \subseteq Keys(table) \cup {m}
      /\ \A e \in Entries(table) : e.key # m =>
           /\ f[e.key] = "skip" => e \in Entries(r)
           /\ f[e.key] = "set" => \E g \in Entries(r) : g.key = e.key /\ g.val = Turned(e.val, v)
  <2>1. ~Fails(table, f)
    BY <1>2
  <2>2. Mapped(table, f, v, m, MapResult(table, f, v, m))
    BY <1>1, MapResultIs
  <2>3. Mapped(table, f, v, m, r)
    BY <1>3, <2>2
  <2> QED
    BY <2>1, <2>3 DEF Good, Mapped
<1>5. DOMAIN Meaning(r) = Keys(r) /\ DOMAIN Meaning(table) = Keys(table)
  BY <1>1, <1>4, MeaningIs
<1>6. ASSUME NEW n \in Keys(table), n # m
      PROVE  /\ f[n] = "skip" => n \in Keys(r) /\ Meaning(r)[n] = Meaning(table)[n]
             /\ f[n] = "set" => n \in Keys(r) /\ Meaning(r)[n] = Turned(Meaning(table)[n], v)
  <2>1. PICK e \in Entries(table) : e.key = n /\ Meaning(table)[n] = e.val
    BY <1>1, MeaningIs
  <2>2. \A g \in Entries(r) : g.key \in Keys(r) /\ Meaning(r)[g.key] = g.val
    BY <1>4, MeaningIs, EntriesAre
  <2> QED
    BY <1>4, <1>6, <2>1, <2>2
<1>7. Sound(r, hash)
  BY <1>1, <1>4, GoodIsSound
<1> QED
  BY <1>2, <1>3, <1>4, <1>5, <1>6, <1>7

(* The hash table stays sound through every sequence of operations, for    *)
(* any names and however their hashes collide; deleting by backward shift  *)
(* (variable_map.c) and by inserting the rest of the row anew (func_map.c) *)
(* agree, variable_store_clone yields an equal store, and                  *)
(* variable_store_map changes and removes only what it was told to.        *)
THEOREM TableOperationsAlwaysSound == Spec => []TableOperationsSound
<1>1. IInv => TableOperationsSound
  <2>1. IInv => TableSound
    BY HashIs, GoodIsSound DEF TableSound
  <2> QED
    BY <2>1, DeletionsDoAgree, CloneDoesEqual, MapDoesMean DEF TableOperationsSound
<1> QED
  BY <1>1, AlwaysIInv, PTL

(* Every operation but the pass over all variables does to the hash table  *)
(* what variable_store.h says it does to the variables: a store over any   *)
(* names begins empty and then takes only steps of the map in StoreSpec.   *)
THEOREM StoreAlwaysImplemented == Spec => Store!Init /\ ImplementsStore
<1>1. Init => Store!Init
  <2> SUFFICES ASSUME Init PROVE Store!Init
    OBVIOUS
  <2>1. PICK t : t = table /\ t \in Tables /\ Distinct(t) /\ Entries(t) = {}
    BY StoreAssumption, EmptyIs DEF Init, Good
  <2>2. Keys(t) = {}
    BY <2>1, EntriesAre
  <2>3. Meaning(t) = [m \in {} |-> Meaning(t)[m]]
    BY <2>1, <2>2, MeaningIs
  <2> QED
    BY <2>1, <2>3 DEF Store!Init
<1>2. IInv /\ [Next]_vars => [passed' \/ Store!Next \/ UNCHANGED Meaning(table)]_vars
  BY StepIs
<1> QED
  BY <1>1, <1>2, AlwaysIInv, PTL DEF Spec, ImplementsStore

===============================================================================
