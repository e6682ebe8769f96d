----------------------------- MODULE FramesProofs -----------------------------
(***************************************************************************)
(* The safety properties of Frames, for any depth of calls, any length of  *)
(* a list and any number of strings that are executed.                     *)
(***************************************************************************)
EXTENDS Frames, FiniteSetTheorems, SequenceTheorems, TLAPS

-----------------------------------------------------------------------------
(* The inductive invariant.  A process is a stack of frames, the stores    *)
(* that are allocated and the interpreter's activations; what holds of the *)
(* one that runs holds of those that wait for it.                          *)

(* What the activations, the results and the processes are records of.      *)
FrameKinds == {"brace", "subshell", "loop", "pipeline", "redirected", "background", "function"}
Fns == {"string", "dispatch", "list", "andor", "if", "while", "case", "fundef", "frame", "body",
        "failed", "piped", "simple"}
Pcs == FrameKinds \cup
       {"run", "any", "list", "wait", "next", "start", "and", "or", "right", "condition", "test",
        "body", "call", "eval", "restore", "done"}
Activation == [fn : Fns, pc : Pcs, left : Int, frame : Nat]
Results == [ok : BOOLEAN, has : BOOLEAN, exit : Status, flow : Flows, depth : Nat]

\* A call of exec_in_frame knows the type of its frame, and one of the dispatcher its node.
NodeOK(a) == /\ a.fn \in {"frame", "body"} => a.pc \in FrameKinds
             /\ a.fn = "dispatch" => a.pc \in {"any", "list", "brace", "wait"}

\* A simple command between the two swaps.
IsSwapped(a) == a.fn = "simple" /\ a.pc \in Swapped

\* Each activation was given the frame that was current when it was called, and between one
\* that has swapped stores and the next of a command in the same frame lies a new frame.
CallsOK(fs, cs) ==
    /\ cs \in Seq(Activation)
    /\ \A k \in 1 .. Len(cs) : NodeOK(cs[k])
    /\ cs # <<>> => cs[1].frame = 1 /\ cs[1].fn = "string"
    /\ \A k \in 1 .. Len(cs) - 1 : cs[k + 1].frame = cs[k].frame + Pushed(cs[k])
    /\ \A j, k \in 1 .. Len(cs) : j < k => cs[k].frame >= cs[j].frame + Pushed(cs[j])
    /\ \A j, k \in 1 .. Len(cs) : j < k /\ IsSwapped(cs[j]) =>
          cs[k].fn \in {"frame", "body"} \/ cs[k].frame > cs[j].frame
    /\ Len(fs) = IF cs = <<>> THEN 1 ELSE cs[Len(cs)].frame + Pushed(cs[Len(cs)])

TypesOK(fs) ==
    /\ fs \in Seq(FrameRecords) /\ fs # <<>>
    /\ \A i \in 1 .. Len(fs) : fs[i].type = "top" <=> i = 1
    /\ \A i \in 1 .. Len(fs) : fs[i].loops = Cardinality({j \in 1 .. i : fs[j].type = "loop"})

OwnedUpTo(fs, n) == UNION {Owned(fs[j]) : j \in 1 .. n}

\* What a frame refers to belongs to it or to a frame around it; its temporary store is no
\* other store of the frame.
StoresOK(fs, ss) ==
    /\ ss \subseteq Nat \ {NoStore} /\ IsFiniteSet(ss)
    /\ ss = OwnedUpTo(fs, Len(fs))
    /\ \A i, j \in 1 .. Len(fs) : i # j => Owned(fs[i]) \cap Owned(fs[j]) = {}
    /\ \A i \in 1 .. Len(fs) :
          /\ Refers(fs[i]) \subseteq OwnedUpTo(fs, i)
          /\ NoStore \notin {fs[i].vars, fs[i].pos, fs[i].env}
          /\ fs[i].saved # NoStore =>
                fs[i].vars \notin {fs[i].saved, fs[i].locals, fs[i].pos, fs[i].env}

Settled(fs, cs) ==
    \A i \in 1 .. Len(fs) :
        fs[i].saved # NoStore <=> \E k \in 1 .. Len(cs) : IsSwapped(cs[k]) /\ cs[k].frame = i

Process(fs, ss, cs) == CallsOK(fs, cs) /\ TypesOK(fs) /\ StoresOK(fs, ss) /\ Settled(fs, cs)

NoFlow(fs) == \A i \in 1 .. Len(fs) : fs[i].flow = "normal"

\* Each frame in which a process ends was made with a process that waits in the frame below.
ForksOK(fs, fk, n) ==
    \A i \in 2 .. Len(fs) :
        PolicyOf[fs[i].type].terminates => \E m \in 1 .. n : Len(fk[m].frames) = i - 1

Entry == [frames : Seq(FrameRecords), stores : SUBSET Nat, calls : Seq(Activation),
          lastExit : Status, waits : BOOLEAN]
Waiting(e) == /\ Process(e.frames, e.stores, e.calls) /\ NoFlow(e.frames)
              /\ e.calls # <<>>

WaitingOK(fk) == \A m \in 1 .. Len(fk) : Waiting(fk[m]) /\ ForksOK(fk[m].frames, fk, m - 1)

RestOK ==
    /\ ret = None \/ ret \in Results
    /\ lastExit \in Status /\ lines \in 0 .. MaxLines /\ ended \in {"no", "exit", "abort"}
    /\ forked \in Seq(Entry)

\* A simple command that is over has its result.
ResultReady ==
    calls # <<>> /\ Call.fn = "simple" /\ Call.pc \in {"restore", "done"} => ret \in Results

IInv ==
    /\ Process(frames, stores, calls) /\ FlowIsPickedUp /\ ResultReady
    /\ WaitingOK(forked) /\ ForksOK(frames, forked, Len(forked)) /\ RestOK

-----------------------------------------------------------------------------
(* Sequences.                                                              *)

LEMMA Nonempty ==
    ASSUME NEW S, NEW s \in Seq(S), s # <<>>
    PROVE  Len(s) \in Nat \ {0} /\ Len(s) \in 1 .. Len(s) /\ s[Len(s)] \in S
<1>1. Len(s) \in Nat \ {0}
  BY EmptySeq
<1> QED
  BY <1>1, ElementOfSeq

LEMMA FrontFacts ==
    ASSUME NEW S, NEW s \in Seq(S), s # <<>>
    PROVE  /\ Front(s) \in Seq(S) /\ Len(Front(s)) = Len(s) - 1
           /\ \A k \in 1 .. Len(s) - 1 : Front(s)[k] = s[k]
<1>1. Len(s) \in Nat \ {0}
  BY Nonempty
<1>2. PICK m \in Nat : m = Len(s) - 1
  BY <1>1
<1>3. \A k \in 1 .. m : s[k] \in S
  BY <1>1, <1>2, ElementOfSeq
<1>4. /\ SubSeq(s, 1, m) \in Seq(S)
      /\ Len(SubSeq(s, 1, m)) = IF 1 <= m THEN m - 1 + 1 ELSE 0
      /\ \A k \in 1 .. m - 1 + 1 : SubSeq(s, 1, m)[k] = s[1 + k - 1]
  BY <1>3, SubSeqProperties
<1>5. \A k \in 1 .. m : k \in 1 .. m - 1 + 1 /\ 1 + k - 1 = k
  BY <1>2
<1>6. \A k \in 1 .. m : SubSeq(s, 1, m)[k] = s[k]
  BY <1>4, <1>5
<1>7. Len(SubSeq(s, 1, m)) = m
  BY <1>4
<1> QED
  BY <1>2, <1>4, <1>6, <1>7 DEF Front

LEMMA AppendFacts ==
    ASSUME NEW S, NEW s \in Seq(S), NEW e \in S
    PROVE  /\ Append(s, e) \in Seq(S) /\ Len(Append(s, e)) = Len(s) + 1 /\ Len(s) \in Nat
           /\ Append(s, e)[Len(s) + 1] = e
           /\ \A k \in 1 .. Len(s) : Append(s, e)[k] = s[k]
           /\ Append(s, e) # <<>>
<1>1. Append(s, e) \in Seq(S) /\ Len(Append(s, e)) = Len(s) + 1 /\ Len(s) \in Nat
  OBVIOUS
<1>2. /\ Append(s, e)[Len(s) + 1] = e
      /\ \A k \in 1 .. Len(s) : Append(s, e)[k] = s[k]
  OBVIOUS
<1>3. Append(s, e) # <<>>
  BY <1>1, EmptySeq
<1> QED
  BY <1>1, <1>2, <1>3

-----------------------------------------------------------------------------
(* Activations.                                                            *)

\* Where the interpreter is, with the frame it was given.
LEMMA TopCall ==
    ASSUME NEW fs, NEW cs, CallsOK(fs, cs), cs # <<>>
    PROVE  /\ Len(cs) \in Nat \ {0} /\ Len(cs) \in 1 .. Len(cs)
           /\ cs[Len(cs)] \in Activation /\ NodeOK(cs[Len(cs)])
           /\ cs[Len(cs)].frame \in Nat \ {0}
           /\ Len(fs) = cs[Len(cs)].frame + Pushed(cs[Len(cs)])
           /\ Len(cs) = 1 => cs[Len(cs)].fn = "string"
<1>1. cs \in Seq(Activation)
  BY DEF CallsOK
<1>2. Len(cs) \in Nat \ {0} /\ Len(cs) \in 1 .. Len(cs) /\ cs[Len(cs)] \in Activation
  BY <1>1, Nonempty
<1>3. cs[Len(cs)].frame \in Nat
  BY <1>2 DEF Activation
<1>4. cs[Len(cs)].frame # 0
  <2>1. cs[1].frame = 1 /\ cs[1] \in Activation
    BY <1>1, <1>2, ElementOfSeq DEF CallsOK
  <2>2. 1 < Len(cs) => cs[Len(cs)].frame >= 1 + Pushed(cs[1])
    BY <1>2, <2>1 DEF CallsOK
  <2>3. Pushed(cs[1]) \in {0, 1}
    BY DEF Pushed
  <2> QED
    BY <1>2, <1>3, <2>1, <2>2, <2>3
<1> QED
  BY <1>2, <1>3, <1>4 DEF CallsOK

\* A step of the innermost function, which may enter or leave a frame.
LEMMA RelabelKeeps ==
    ASSUME NEW fs, NEW gs, NEW cs, CallsOK(fs, cs), cs # <<>>,
           NEW t \in Activation, NodeOK(t), t.frame = cs[Len(cs)].frame,
           t.fn = cs[Len(cs)].fn \/ (cs[Len(cs)].fn = "frame" /\ t.fn = "body"),
           Len(gs) = t.frame + Pushed(t)
    PROVE  /\ CallsOK(gs, [cs EXCEPT ![Len(cs)] = t])
           /\ [cs EXCEPT ![Len(cs)] = t] # <<>> /\ Len([cs EXCEPT ![Len(cs)] = t]) = Len(cs)
           /\ \A k \in 1 .. Len(cs) : [cs EXCEPT ![Len(cs)] = t][k] = IF k = Len(cs) THEN t ELSE cs[k]
<1> DEFINE n == Len(cs)
           ds == [cs EXCEPT ![n] = t]
<1>1. cs \in Seq(Activation) /\ n \in Nat \ {0} /\ n \in 1 .. n
  BY TopCall DEF CallsOK
<1>2. /\ ds \in Seq(Activation) /\ Len(ds) = n
      /\ \A k \in 1 .. n : ds[k] = IF k = n THEN t ELSE cs[k]
  BY <1>1, ExceptSeq
<1>3. ds # <<>>
  BY <1>1, <1>2, EmptySeq
<1> HIDE DEF ds
<1>4. \A k \in 1 .. n : /\ ds[k].frame = cs[k].frame
                        /\ ds[k].fn = cs[k].fn \/ (cs[k].fn = "frame" /\ ds[k].fn = "body")
                        /\ k # n => Pushed(ds[k]) = Pushed(cs[k]) /\ IsSwapped(ds[k]) = IsSwapped(cs[k])
  BY <1>2
<1>5. \A k \in 1 .. n : NodeOK(ds[k])
  BY <1>2 DEF CallsOK
<1>6. ds[1].frame = 1 /\ ds[1].fn = "string"
  BY <1>1, <1>4 DEF CallsOK
<1>7. \A k \in 1 .. n - 1 : ds[k + 1].frame = ds[k].frame + Pushed(ds[k])
  <2>1. \A k \in 1 .. n - 1 : k \in 1 .. n /\ k + 1 \in 1 .. n /\ k # n
    BY <1>1
  <2> QED
    BY <1>4, <2>1 DEF CallsOK
<1>8. \A j, k \in 1 .. n : j < k => j # n
  BY <1>1
<1>9. \A j, k \in 1 .. n : j < k => ds[k].frame >= ds[j].frame + Pushed(ds[j])
  BY <1>4, <1>8 DEF CallsOK
<1>10. \A j, k \in 1 .. n : j < k /\ IsSwapped(ds[j]) =>
         ds[k].fn \in {"frame", "body"} \/ ds[k].frame > ds[j].frame
  BY <1>4, <1>8 DEF CallsOK
<1>11. Len(gs) = ds[n].frame + Pushed(ds[n])
  BY <1>1, <1>2
<1>12. CallsOK(gs, ds)
  BY <1>2, <1>3, <1>5, <1>6, <1>7, <1>9, <1>10, <1>11 DEF CallsOK
<1> QED
  BY <1>2, <1>3, <1>12 DEF ds

\* A call.
LEMMA CallKeeps ==
    ASSUME NEW fs, NEW cs, CallsOK(fs, cs), cs # <<>>,
           NEW a \in Activation, NodeOK(a), a.frame = Len(fs), Pushed(a) = 0, ~IsSwapped(a),
           cs[Len(cs)].fn # "frame",
           IsSwapped(cs[Len(cs)]) => a.fn = "frame" \/ Pushed(cs[Len(cs)]) = 1
    PROVE  CallsOK(fs, Append(cs, a))
<1> DEFINE n == Len(cs)
           ds == Append(cs, a)
<1>1. cs \in Seq(Activation) /\ n \in Nat \ {0} /\ n \in 1 .. n /\ Len(fs) = cs[n].frame + Pushed(cs[n])
  BY TopCall DEF CallsOK
<1>2. /\ ds \in Seq(Activation) /\ Len(ds) = n + 1 /\ ds[n + 1] = a /\ ds # <<>>
      /\ \A k \in 1 .. n : ds[k] = cs[k]
  BY <1>1, AppendFacts
<1> HIDE DEF ds
<1>3. \A k \in 1 .. n + 1 : k \in 1 .. n \/ k = n + 1
  BY <1>1
<1>4. ASSUME NEW k \in 1 .. n PROVE cs[k].frame \in Nat /\ Pushed(cs[k]) \in {0, 1}
  <2>1. cs[k] \in Activation
    BY <1>1, ElementOfSeq
  <2> QED
    BY <2>1 DEF Activation, Pushed
<1>5. \A k \in 1 .. n + 1 : NodeOK(ds[k])
  BY <1>2, <1>3 DEF CallsOK
<1>6. ds[1].frame = 1 /\ ds[1].fn = "string"
  BY <1>1, <1>2 DEF CallsOK
<1>7. ASSUME NEW k \in 1 .. (n + 1) - 1
      PROVE  ds[k + 1].frame = ds[k].frame + Pushed(ds[k])
  <2>1. k = n \/ (k \in 1 .. n - 1 /\ k + 1 \in 1 .. n)
    BY <1>1
  <2> QED
    BY <1>1, <1>2, <2>1 DEF CallsOK
<1>8. ASSUME NEW j \in 1 .. n + 1, NEW k \in 1 .. n + 1, j < k
      PROVE  /\ ds[k].frame >= ds[j].frame + Pushed(ds[j])
             /\ IsSwapped(ds[j]) => ds[k].fn \in {"frame", "body"} \/ ds[k].frame > ds[j].frame
  <2>1. j \in 1 .. n /\ ds[j] = cs[j]
    BY <1>1, <1>2, <1>8
  <2>2. CASE k \in 1 .. n
    BY <1>2, <1>8, <2>1, <2>2 DEF CallsOK
  <2>3. CASE k = n + 1
    <3>1. ds[k] = a
      BY <1>2, <2>3
    <3>2. CASE j = n
      BY <1>1, <1>4, <2>1, <3>1, <3>2
    <3>3. CASE j # n
      <4>1. j < n
        BY <1>1, <2>1, <3>3
      <4>2. cs[n].frame >= cs[j].frame + Pushed(cs[j])
        BY <1>1, <2>1, <4>1 DEF CallsOK
      <4>3. a.frame >= cs[n].frame
        BY <1>1, <1>4
      <4>4. IsSwapped(cs[j]) => cs[n].fn \in {"frame", "body"} \/ cs[n].frame > cs[j].frame
        BY <1>1, <2>1, <4>1 DEF CallsOK
      <4>5. cs[n].fn = "body" => Pushed(cs[n]) = 1
        BY DEF Pushed
      <4>6. IsSwapped(cs[j]) => a.frame > cs[j].frame
        BY <1>1, <1>4, <2>1, <4>2, <4>4, <4>5
      <4>7. a.frame >= cs[j].frame + Pushed(cs[j])
        BY <1>1, <1>4, <2>1, <4>2, <4>3
      <4> QED
        BY <2>1, <3>1, <4>6, <4>7
    <3> QED
      BY <3>2, <3>3
  <2> QED
    BY <1>3, <2>2, <2>3
<1>9. Len(fs) = ds[n + 1].frame + Pushed(ds[n + 1])
  BY <1>1, <1>2, <1>4
<1>10. CallsOK(fs, ds)
  BY <1>2, <1>5, <1>6, <1>7, <1>8, <1>9 DEF CallsOK
<1> QED
  BY <1>10 DEF ds

\* A return to the caller, when what the callee pushed has been popped.
LEMMA ReturnKeeps ==
    ASSUME NEW fs, NEW gs, NEW cs, CallsOK(fs, cs), Len(cs) > 1,
           Len(gs) = cs[Len(cs)].frame
    PROVE  CallsOK(gs, Front(cs)) /\ Front(cs) # <<>>
<1> DEFINE n == Len(cs)
           ds == Front(cs)
<1>1. cs \in Seq(Activation) /\ n \in Nat /\ n > 1 /\ cs # <<>>
  BY EmptySeq DEF CallsOK
<1>2. /\ ds \in Seq(Activation) /\ Len(ds) = n - 1
      /\ \A k \in 1 .. n - 1 : ds[k] = cs[k]
  BY <1>1, FrontFacts
<1>3. ds # <<>>
  BY <1>1, <1>2, EmptySeq
<1> HIDE DEF ds
<1>4. \A k \in 1 .. n - 1 : k \in 1 .. n /\ NodeOK(ds[k])
  BY <1>1, <1>2 DEF CallsOK
<1>5. ds[1].frame = 1 /\ ds[1].fn = "string"
  BY <1>1, <1>2 DEF CallsOK
<1>6. \A k \in 1 .. (n - 1) - 1 : ds[k + 1].frame = ds[k].frame + Pushed(ds[k])
  <2>1. \A k \in 1 .. (n - 1) - 1 : k \in 1 .. n - 1 /\ k + 1 \in 1 .. n - 1
    BY <1>1
  <2> QED
    BY <1>1, <1>2, <2>1 DEF CallsOK
<1>7. \A j, k \in 1 .. n - 1 : j < k => ds[k].frame >= ds[j].frame + Pushed(ds[j])
  BY <1>2, <1>4 DEF CallsOK
<1>8. \A j, k \in 1 .. n - 1 : j < k /\ IsSwapped(ds[j]) =>
         ds[k].fn \in {"frame", "body"} \/ ds[k].frame > ds[j].frame
  BY <1>2, <1>4 DEF CallsOK
<1>9. Len(gs) = ds[n - 1].frame + Pushed(ds[n - 1])
  <2>1. n - 1 \in 1 .. n - 1 /\ (n - 1) + 1 = n
    BY <1>1
  <2>2. cs[n].frame = cs[n - 1].frame + Pushed(cs[n - 1])
    BY <2>1 DEF CallsOK
  <2> QED
    BY <1>2, <2>1, <2>2
<1>10. CallsOK(gs, ds)
  BY <1>2, <1>3, <1>4, <1>5, <1>6, <1>7, <1>8, <1>9 DEF CallsOK
<1> QED
  BY <1>3, <1>10 DEF ds

\* No command further out has swapped stores of the innermost frame, unless it waits for a
\* function's frame to be made.
LEMMA OuterSwapped ==
    ASSUME NEW fs, NEW cs, CallsOK(fs, cs), cs # <<>>
    PROVE  \A k \in 1 .. Len(cs) :
              /\ cs[k].frame \in Nat /\ cs[k].frame <= Len(fs)
              /\ IsSwapped(cs[k]) /\ k # Len(cs) /\ cs[Len(cs)].fn # "frame" =>
                    cs[k].frame < Len(fs)
<1> DEFINE n == Len(cs)
<1>1. cs \in Seq(Activation) /\ n \in Nat /\ n \in 1 .. n /\ Len(fs) = cs[n].frame + Pushed(cs[n])
  BY TopCall DEF CallsOK
<1> SUFFICES ASSUME NEW k \in 1 .. n
             PROVE  /\ cs[k].frame \in Nat /\ cs[k].frame <= Len(fs)
                    /\ IsSwapped(cs[k]) /\ k # n /\ cs[n].fn # "frame" => cs[k].frame < Len(fs)
  OBVIOUS
<1>2. cs[k] \in Activation /\ cs[n] \in Activation
  BY <1>1, ElementOfSeq
<1>3. cs[k].frame \in Nat /\ cs[n].frame \in Nat
  BY <1>2 DEF Activation
<1>4. Pushed(cs[n]) \in {0, 1} /\ Pushed(cs[k]) \in {0, 1} /\ (cs[n].fn = "body" => Pushed(cs[n]) = 1)
  BY DEF Pushed
<1>5. k # n => k < n
  BY <1>1
<1>6. k # n => cs[n].frame >= cs[k].frame + Pushed(cs[k])
  BY <1>1, <1>5 DEF CallsOK
<1>7. k # n /\ IsSwapped(cs[k]) => cs[n].fn \in {"frame", "body"} \/ cs[n].frame > cs[k].frame
  BY <1>1, <1>5 DEF CallsOK
<1> QED
  BY <1>1, <1>3, <1>4, <1>6, <1>7

-----------------------------------------------------------------------------
(* Stores.                                                                 *)

\* There are always numbers that are not taken.
LEMMA FreshFacts ==
    ASSUME NEW n \in Nat, NEW taken \in SUBSET Nat, IsFiniteSet(taken)
    PROVE  /\ \A k \in 1 .. n : Fresh(n, taken)[k] \in Nat \ {0} /\ Fresh(n, taken)[k] \notin taken
           /\ \A j, k \in 1 .. n : j # k => Fresh(n, taken)[j] # Fresh(n, taken)[k]
<1> DEFINE U == 1 .. Cardinality(taken) + n
           D == U \ taken
           P(s) == /\ \A j, k \in 1 .. n : j # k => s[j] # s[k]
                   /\ \A k \in 1 .. n : s[k] \notin taken
<1>1. Cardinality(taken) \in Nat
  BY FS_CardinalityType
<1>2. PICK c \in Nat : c = Cardinality(taken) + n
  BY <1>1
<1>3. IsFiniteSet(1 .. c) /\ Cardinality(1 .. c) = c
  BY FS_Interval
<1>4. IsFiniteSet(U) /\ Cardinality(U) = Cardinality(taken) + n
  BY <1>2, <1>3
<1> HIDE DEF U
<1>5. IsFiniteSet(D) /\ Cardinality(D) = Cardinality(U) - Cardinality(U \cap taken)
  BY <1>4, FS_Difference
<1>6. Cardinality(U \cap taken) <= Cardinality(taken) /\ IsFiniteSet(U \cap taken)
  BY FS_Intersection
<1>7. Cardinality(U \cap taken) \in Nat /\ Cardinality(D) \in Nat
  BY <1>5, <1>6, FS_CardinalityType
<1>8. Cardinality(D) >= n
  BY <1>1, <1>4, <1>5, <1>6, <1>7
<1>9. PICK b : b \in Bijection(1 .. Cardinality(D), D)
  BY <1>5, FS_CardinalityType DEF ExistsBijection
<1>10. /\ b \in [1 .. Cardinality(D) -> D]
       /\ \A j, k \in 1 .. Cardinality(D) : b[j] = b[k] => j = k
  BY <1>9 DEF Bijection, Injection, IsInjective
<1>11. \A k \in 1 .. n : k \in 1 .. Cardinality(D)
  BY <1>7, <1>8
<1> DEFINE s == [k \in 1 .. n |-> b[k]]
<1>12. s \in [1 .. n -> U] /\ P(s)
  BY <1>10, <1>11
<1>13. Fresh(n, taken) = CHOOSE t \in [1 .. n -> U] : P(t)
  BY DEF Fresh, U
<1> HIDE DEF s, P
<1>14. Fresh(n, taken) \in [1 .. n -> U] /\ P(Fresh(n, taken))
  BY <1>12, <1>13
<1>15. U \subseteq Nat \ {0}
  BY <1>1 DEF U
<1> QED
  BY <1>14, <1>15 DEF P

\* What a frame owns, store by store.
Own(f) == IF f.saved = NoStore THEN f.vars ELSE f.saved

LEMMA OwnedIs ==
    ASSUME NEW f \in FrameRecords
    PROVE  \A x : x \in Owned(f) <=>
              \/ PolicyOf[f.type].scope # "share" /\ x \in {Own(f), f.env}
              \/ PolicyOf[f.type].positional # "share" /\ x = f.pos
              \/ x = f.locals /\ x # NoStore
              \/ f.saved # NoStore /\ x = f.vars
<1>1. PICK g : g = [f EXCEPT !.vars = Own(f)]
  OBVIOUS
<1>2. g.type = f.type /\ g.vars = Own(f) /\ g.env = f.env /\ g.pos = f.pos /\ g.locals = f.locals
  BY <1>1 DEF FrameRecords
<1>3. Owned(f) = OwnStores(g) \cup (IF f.saved = NoStore THEN {} ELSE {f.vars})
  BY <1>1 DEF Owned, Own
<1>4. \A x : x \in OwnStores(g) <=>
         \/ PolicyOf[g.type].scope # "share" /\ x \in {g.vars, g.env}
         \/ PolicyOf[g.type].positional # "share" /\ x = g.pos
         \/ x = g.locals /\ x # NoStore
  BY DEF OwnStores
<1> QED
  BY <1>2, <1>3, <1>4

LEMMA OwnStoresAre ==
    ASSUME NEW f \in FrameRecords
    PROVE  /\ \A x : x \in OwnStores(f) <=>
                 \/ PolicyOf[f.type].scope # "share" /\ x \in {f.vars, f.env}
                 \/ PolicyOf[f.type].positional # "share" /\ x = f.pos
                 \/ x = f.locals /\ x # NoStore
           /\ f.saved = NoStore => OwnStores(f) = Owned(f)
<1>1. \A x : x \in OwnStores(f) <=>
         \/ PolicyOf[f.type].scope # "share" /\ x \in {f.vars, f.env}
         \/ PolicyOf[f.type].positional # "share" /\ x = f.pos
         \/ x = f.locals /\ x # NoStore
  BY DEF OwnStores
<1>2. ASSUME f.saved = NoStore PROVE \A x : x \in OwnStores(f) <=> x \in Owned(f)
  BY <1>1, <1>2, OwnedIs DEF Own
<1> QED
  BY <1>1, <1>2

LEMMA UpTo ==
    ASSUME NEW fs, NEW n
    PROVE  \A x : x \in OwnedUpTo(fs, n) <=> \E j \in 1 .. n : x \in Owned(fs[j])
BY DEF OwnedUpTo

\* Two frames with the same stores.
SameStores(f, g) ==
    /\ f.type = g.type /\ f.vars = g.vars /\ f.locals = g.locals /\ f.saved = g.saved
    /\ f.pos = g.pos /\ f.env = g.env

LEMMA SameStoresOwned ==
    ASSUME NEW f \in FrameRecords, NEW g \in FrameRecords, SameStores(f, g)
    PROVE  Owned(f) = Owned(g) /\ Refers(f) = Refers(g)
<1>1. \A x : x \in Owned(f) <=> x \in Owned(g)
  BY OwnedIs DEF SameStores, Own
<1> QED
  BY <1>1 DEF SameStores, Refers

\* The stores of the frames that stay when the innermost is changed, added or popped.
LEMMA OuterStores ==
    ASSUME NEW fs \in Seq(FrameRecords), NEW gs \in Seq(FrameRecords), NEW n \in Nat,
           n <= Len(fs), n <= Len(gs), \A i \in 1 .. n : SameStores(fs[i], gs[i])
    PROVE  \A i \in 1 .. n : /\ Owned(gs[i]) = Owned(fs[i]) /\ Refers(gs[i]) = Refers(fs[i])
                             /\ OwnedUpTo(gs, i) = OwnedUpTo(fs, i)
<1>1. \A i \in 1 .. n : i \in 1 .. Len(fs) /\ i \in 1 .. Len(gs)
  OBVIOUS
<1>2. \A i \in 1 .. n : fs[i] \in FrameRecords /\ gs[i] \in FrameRecords
  BY <1>1, ElementOfSeq
<1>3. \A i \in 1 .. n : Owned(gs[i]) = Owned(fs[i]) /\ Refers(gs[i]) = Refers(fs[i])
  BY <1>2, SameStoresOwned
<1>4. ASSUME NEW i \in 1 .. n PROVE OwnedUpTo(gs, i) = OwnedUpTo(fs, i)
  <2>1. \A j \in 1 .. i : j \in 1 .. n
    OBVIOUS
  <2>2. \A x : x \in OwnedUpTo(gs, i) <=> x \in OwnedUpTo(fs, i)
    BY <1>3, <2>1, UpTo
  <2> QED
    BY <2>2
<1> QED
  BY <1>3, <1>4

LEMMA StoresUnchanged ==
    ASSUME NEW fs \in Seq(FrameRecords), NEW gs \in Seq(FrameRecords), NEW ss, StoresOK(fs, ss),
           Len(gs) = Len(fs), \A i \in 1 .. Len(fs) : SameStores(fs[i], gs[i])
    PROVE  StoresOK(gs, ss)
<1>1. Len(fs) \in Nat
  BY LenProperties
<1>2. \A i \in 1 .. Len(fs) : /\ Owned(gs[i]) = Owned(fs[i]) /\ Refers(gs[i]) = Refers(fs[i])
                              /\ OwnedUpTo(gs, i) = OwnedUpTo(fs, i)
  BY <1>1, OuterStores
<1>3. \A i \in 1 .. Len(fs) : /\ gs[i].vars = fs[i].vars /\ gs[i].saved = fs[i].saved
                              /\ gs[i].locals = fs[i].locals /\ gs[i].pos = fs[i].pos
                              /\ gs[i].env = fs[i].env
  BY DEF SameStores
<1>4. OwnedUpTo(gs, Len(fs)) = OwnedUpTo(fs, Len(fs))
  <2>1. \A x : x \in OwnedUpTo(gs, Len(fs)) <=> x \in OwnedUpTo(fs, Len(fs))
    BY <1>2, UpTo
  <2> QED
    BY <2>1
<1> QED
  BY <1>2, <1>3, <1>4 DEF StoresOK

\* A frame is pushed that owns what it does not share.
LEMMA StoresPushed ==
    ASSUME NEW fs \in Seq(FrameRecords), NEW gs \in Seq(FrameRecords), NEW ss, StoresOK(fs, ss),
           NEW f \in FrameRecords, Len(fs) \in Nat \ {0}, Len(gs) = Len(fs) + 1,
           gs[Len(fs) + 1] = f, \A i \in 1 .. Len(fs) : gs[i] = fs[i],
           f.saved = NoStore, OwnStores(f) \cap ss = {}, OwnStores(f) \subseteq Nat \ {NoStore},
           IsFiniteSet(OwnStores(f)),
           Refers(f) \subseteq OwnStores(f) \cup Refers(fs[Len(fs)]),
           NoStore \notin {f.vars, f.pos, f.env}
    PROVE  StoresOK(gs, ss \cup OwnStores(f))
<1> DEFINE n == Len(fs)
           m == n + 1
<1>1. Owned(f) = OwnStores(f)
  BY OwnStoresAre
<1>2. \A i \in 1 .. n : /\ Owned(gs[i]) = Owned(fs[i]) /\ Refers(gs[i]) = Refers(fs[i])
                        /\ OwnedUpTo(gs, i) = OwnedUpTo(fs, i)
  <2>1. \A i \in 1 .. n : SameStores(fs[i], gs[i])
    BY DEF SameStores
  <2> QED
    BY SMTT(30), <2>1, OuterStores
<1>3. \A i \in 1 .. m : i \in 1 .. n \/ i = m
  OBVIOUS
<1>4. ss = OwnedUpTo(fs, n) /\ OwnedUpTo(gs, n) = OwnedUpTo(fs, n)
  BY <1>2 DEF StoresOK
<1>5. OwnedUpTo(gs, m) = ss \cup OwnStores(f)
  <2>1. ASSUME NEW x PROVE x \in OwnedUpTo(gs, m) <=> x \in OwnedUpTo(gs, n) \/ x \in Owned(f)
    <3>1. (\E j \in 1 .. m : x \in Owned(gs[j])) <=>
             (\E j \in 1 .. n : x \in Owned(gs[j])) \/ x \in Owned(gs[m])
      BY <1>3
    <3> QED
      BY <3>1, UpTo
  <2> QED
    BY <1>1, <1>4, <2>1
<1>6. \A i \in 1 .. n : Owned(gs[i]) \subseteq ss
  BY <1>2, <1>4, UpTo
<1>7. ss \cup OwnStores(f) \subseteq Nat \ {NoStore} /\ IsFiniteSet(ss \cup OwnStores(f))
  BY FS_Union DEF StoresOK
<1>8. ASSUME NEW i \in 1 .. m, NEW j \in 1 .. m, i # j
      PROVE  Owned(gs[i]) \cap Owned(gs[j]) = {}
  <2>1. CASE i \in 1 .. n /\ j \in 1 .. n
    BY <1>2, <1>8, <2>1 DEF StoresOK
  <2>2. CASE i = m \/ j = m
    BY <1>1, <1>3, <1>6, <1>8, <2>2
  <2> QED
    BY <1>3, <2>1, <2>2
<1>9. ASSUME NEW i \in 1 .. m
      PROVE  /\ Refers(gs[i]) \subseteq OwnedUpTo(gs, i)
             /\ NoStore \notin {gs[i].vars, gs[i].pos, gs[i].env}
             /\ gs[i].saved # NoStore =>
                   gs[i].vars \notin {gs[i].saved, gs[i].locals, gs[i].pos, gs[i].env}
  <2>1. CASE i \in 1 .. n
    BY <1>2, <2>1 DEF StoresOK
  <2>2. CASE i = m
    <3>1. Refers(fs[n]) \subseteq ss
      BY <1>4 DEF StoresOK
    <3> QED
      BY <1>5, <2>2, <3>1
  <2> QED
    BY <1>3, <2>1, <2>2
<1> QED
  BY <1>5, <1>7, <1>8, <1>9 DEF StoresOK

\* The innermost frame is popped, when no temporary store is left in it.
LEMMA StoresPopped ==
    ASSUME NEW fs \in Seq(FrameRecords), NEW gs \in Seq(FrameRecords), NEW ss, StoresOK(fs, ss),
           Len(fs) \in Nat \ {0}, Len(gs) = Len(fs) - 1,
           \A i \in 1 .. Len(fs) - 1 : SameStores(fs[i], gs[i]),
           fs[Len(fs)].saved = NoStore
    PROVE  StoresOK(gs, ss \ OwnStores(fs[Len(fs)]))
<1> DEFINE n == Len(fs)
           m == n - 1
<1>1. Owned(fs[n]) = OwnStores(fs[n])
  <2>1. fs[n] \in FrameRecords
    BY ElementOfSeq
  <2> QED
    BY <2>1, OwnStoresAre
<1>2. \A i \in 1 .. m : /\ Owned(gs[i]) = Owned(fs[i]) /\ Refers(gs[i]) = Refers(fs[i])
                        /\ OwnedUpTo(gs, i) = OwnedUpTo(fs, i)
  BY SMTT(30), OuterStores
<1>3. \A i \in 1 .. n : i \in 1 .. m \/ i = n
  OBVIOUS
<1>4. \A i \in 1 .. m : i \in 1 .. n /\ i # n
  OBVIOUS
<1>5. OwnedUpTo(gs, m) = ss \ OwnStores(fs[n])
  <2>1. ASSUME NEW x PROVE x \in OwnedUpTo(gs, m) <=> x \in ss /\ x \notin Owned(fs[n])
    <3>1. x \in ss <=> \E j \in 1 .. n : x \in Owned(fs[j])
      BY UpTo DEF StoresOK
    <3>2. x \in OwnedUpTo(gs, m) <=> \E j \in 1 .. m : x \in Owned(fs[j])
      BY <1>2, UpTo
    <3>3. \A j \in 1 .. m : Owned(fs[j]) \cap Owned(fs[n]) = {}
      <4>1. n \in 1 .. n
        OBVIOUS
      <4>2. \A i, j \in 1 .. n : i # j => Owned(fs[i]) \cap Owned(fs[j]) = {}
        BY DEF StoresOK
      <4> QED
        BY <1>4, <4>1, <4>2
    <3> QED
      BY <1>3, <1>4, <3>1, <3>2, <3>3
  <2> QED
    BY <1>1, <2>1
<1>6. ss \ OwnStores(fs[n]) \subseteq Nat \ {NoStore} /\ IsFiniteSet(ss \ OwnStores(fs[n]))
  BY FS_Difference DEF StoresOK
<1>7. \A i, j \in 1 .. m : i # j => Owned(gs[i]) \cap Owned(gs[j]) = {}
  BY <1>2, <1>4 DEF StoresOK
<1>8. \A i \in 1 .. m :
         /\ Refers(gs[i]) \subseteq OwnedUpTo(gs, i)
         /\ NoStore \notin {gs[i].vars, gs[i].pos, gs[i].env}
         /\ gs[i].saved # NoStore =>
               gs[i].vars \notin {gs[i].saved, gs[i].locals, gs[i].pos, gs[i].env}
  BY <1>2, <1>4 DEF StoresOK, SameStores
<1> QED
  BY <1>5, <1>6, <1>7, <1>8 DEF StoresOK

\* A simple command puts a temporary store in the place of the frame's variables.
LEMMA StoresSwapped ==
    ASSUME NEW fs \in Seq(FrameRecords), NEW gs \in Seq(FrameRecords), NEW ss, StoresOK(fs, ss),
           Len(fs) \in Nat \ {0}, Len(gs) = Len(fs),
           \A i \in 1 .. Len(fs) - 1 : gs[i] = fs[i],
           NEW f, f = fs[Len(fs)], NEW g, g = gs[Len(fs)], f.saved = NoStore,
           NEW temp \in Nat \ {NoStore}, temp \notin ss,
           g.type = f.type, g.locals = f.locals, g.pos = f.pos, g.env = f.env,
           g.saved = f.vars, g.vars = temp
    PROVE  StoresOK(gs, ss \cup {temp})
<1> DEFINE n == Len(fs)
           m == n - 1
<1>1. n \in 1 .. n /\ f \in FrameRecords /\ g \in FrameRecords
  <2>1. n \in 1 .. n
    OBVIOUS
  <2> QED
    BY <2>1, ElementOfSeq
<1>2. \A i \in 1 .. n : i \in 1 .. m \/ i = n
  OBVIOUS
<1>3. \A i \in 1 .. m : i \in 1 .. n /\ i # n
  OBVIOUS
<1>4. /\ ss \subseteq Nat \ {NoStore} /\ IsFiniteSet(ss) /\ ss = OwnedUpTo(fs, n)
      /\ \A i, j \in 1 .. n : i # j => Owned(fs[i]) \cap Owned(fs[j]) = {}
      /\ \A i \in 1 .. n :
            /\ Refers(fs[i]) \subseteq OwnedUpTo(fs, i)
            /\ NoStore \notin {fs[i].vars, fs[i].pos, fs[i].env}
            /\ fs[i].saved # NoStore =>
                  fs[i].vars \notin {fs[i].saved, fs[i].locals, fs[i].pos, fs[i].env}
  BY DEF StoresOK
<1>5. \A i \in 1 .. m : /\ Owned(gs[i]) = Owned(fs[i]) /\ Refers(gs[i]) = Refers(fs[i])
                        /\ OwnedUpTo(gs, i) = OwnedUpTo(fs, i)
  <2>1. \A i \in 1 .. m : SameStores(fs[i], gs[i])
    BY DEF SameStores
  <2>2. m \in Nat /\ m <= Len(fs) /\ m <= Len(gs)
    OBVIOUS
  <2> HIDE DEF m
  <2> QED
    BY <2>1, <2>2, OuterStores
<1>6. f.vars # NoStore /\ Refers(f) \subseteq ss
  BY <1>1, <1>4
<1>7. \A x : x \in Owned(g) <=> x \in Owned(f) \/ x = temp
  <2>1. Own(g) = Own(f) /\ g.saved # NoStore
    BY <1>6 DEF Own
  <2>2. \A x : x \in Owned(g) <=>
           \/ PolicyOf[f.type].scope # "share" /\ x \in {Own(f), f.env}
           \/ PolicyOf[f.type].positional # "share" /\ x = f.pos
           \/ x = f.locals /\ x # NoStore
           \/ x = temp
    BY <1>1, <2>1, OwnedIs
  <2> QED
    BY <1>1, <2>2, OwnedIs
<1>8. \A x : x \in Refers(g) => x \in Refers(f) \/ x = temp
  BY DEF Refers
<1>9. temp \notin {g.saved, g.locals, g.pos, g.env}
  BY <1>6 DEF Refers
<1>10. OwnedUpTo(gs, n) = ss \cup {temp}
  <2>1. ASSUME NEW x PROVE x \in OwnedUpTo(gs, n) <=> x \in ss \/ x = temp
    <3>1. (\E j \in 1 .. n : x \in Owned(gs[j])) <=>
             (\E j \in 1 .. m : x \in Owned(fs[j])) \/ x \in Owned(g)
      BY <1>1, <1>2, <1>3, <1>5
    <3>2. (\E j \in 1 .. n : x \in Owned(fs[j])) <=>
             (\E j \in 1 .. m : x \in Owned(fs[j])) \/ x \in Owned(f)
      BY <1>1, <1>2, <1>3
    <3>3. x \in ss <=> \E j \in 1 .. n : x \in Owned(fs[j])
      BY <1>4, UpTo
    <3>4. x \in OwnedUpTo(gs, n) <=> \E j \in 1 .. n : x \in Owned(gs[j])
      BY UpTo
    <3> QED
      BY <1>7, <3>1, <3>2, <3>3, <3>4
  <2> QED
    BY <2>1
<1>11. ss \cup {temp} \subseteq Nat \ {NoStore} /\ IsFiniteSet(ss \cup {temp})
  BY <1>4, FS_AddElement
<1>12. \A j \in 1 .. m : Owned(fs[j]) \cap Owned(f) = {} /\ temp \notin Owned(fs[j])
  <2>1. \A j \in 1 .. m : Owned(fs[j]) \subseteq ss
    BY <1>3, <1>4, UpTo
  <2> QED
    BY <1>1, <1>3, <1>4, <2>1
<1>13. ASSUME NEW i \in 1 .. n, NEW j \in 1 .. n, i # j
       PROVE  Owned(gs[i]) \cap Owned(gs[j]) = {}
  <2>1. \A k \in 1 .. m : Owned(gs[k]) \cap Owned(g) = {}
    BY <1>5, <1>7, <1>12
  <2>2. CASE i = n
    BY <1>2, <1>13, <2>1, <2>2
  <2>3. CASE j = n
    BY <1>2, <1>13, <2>1, <2>3
  <2>4. CASE i # n /\ j # n
    BY ZenonT(30), <1>2, <1>4, <1>5, <1>13, <2>4
  <2> QED
    BY <2>2, <2>3, <2>4
<1>14. ASSUME NEW i \in 1 .. n
       PROVE  /\ Refers(gs[i]) \subseteq OwnedUpTo(gs, i)
              /\ NoStore \notin {gs[i].vars, gs[i].pos, gs[i].env}
              /\ gs[i].saved # NoStore =>
                    gs[i].vars \notin {gs[i].saved, gs[i].locals, gs[i].pos, gs[i].env}
  <2>1. CASE i \in 1 .. m
    BY <1>3, <1>4, <1>5, <2>1
  <2>2. CASE i = n
    BY <1>1, <1>4, <1>6, <1>8, <1>9, <1>10, <2>2
  <2> QED
    BY <1>2, <2>1, <2>2
<1> QED
  BY <1>10, <1>11, <1>13, <1>14 DEF StoresOK

\* The frame gets its variables back, and the temporary store is freed.
LEMMA StoresRestored ==
    ASSUME NEW fs \in Seq(FrameRecords), NEW gs \in Seq(FrameRecords), NEW ss, StoresOK(fs, ss),
           Len(fs) \in Nat \ {0}, Len(gs) = Len(fs),
           \A i \in 1 .. Len(fs) - 1 : gs[i] = fs[i],
           NEW f, f = fs[Len(fs)], NEW g, g = gs[Len(fs)], f.saved # NoStore,
           g.type = f.type, g.locals = f.locals, g.pos = f.pos, g.env = f.env,
           g.saved = NoStore, g.vars = f.saved
    PROVE  StoresOK(gs, ss \ {f.vars})
<1> DEFINE n == Len(fs)
           m == n - 1
<1>1. n \in 1 .. n /\ f \in FrameRecords /\ g \in FrameRecords
  <2>1. n \in 1 .. n
    OBVIOUS
  <2> QED
    BY <2>1, ElementOfSeq
<1>2. \A i \in 1 .. n : i \in 1 .. m \/ i = n
  OBVIOUS
<1>3. \A i \in 1 .. m : i \in 1 .. n /\ i # n
  OBVIOUS
<1>4. /\ ss \subseteq Nat \ {NoStore} /\ IsFiniteSet(ss) /\ ss = OwnedUpTo(fs, n)
      /\ \A i, j \in 1 .. n : i # j => Owned(fs[i]) \cap Owned(fs[j]) = {}
      /\ \A i \in 1 .. n :
            /\ Refers(fs[i]) \subseteq OwnedUpTo(fs, i)
            /\ NoStore \notin {fs[i].vars, fs[i].pos, fs[i].env}
            /\ fs[i].saved # NoStore =>
                  fs[i].vars \notin {fs[i].saved, fs[i].locals, fs[i].pos, fs[i].env}
  BY DEF StoresOK
<1>5. \A i \in 1 .. m : /\ Owned(gs[i]) = Owned(fs[i]) /\ Refers(gs[i]) = Refers(fs[i])
                        /\ OwnedUpTo(gs, i) = OwnedUpTo(fs, i)
  <2>1. \A i \in 1 .. m : SameStores(fs[i], gs[i])
    BY DEF SameStores
  <2>2. m \in Nat /\ m <= Len(fs) /\ m <= Len(gs)
    OBVIOUS
  <2> HIDE DEF m
  <2> QED
    BY <2>1, <2>2, OuterStores
<1>6. f.vars # NoStore /\ f.vars \notin {f.saved, f.locals, f.pos, f.env} /\ f.vars \in Owned(f)
  <2>1. f.vars # NoStore /\ f.vars \notin {f.saved, f.locals, f.pos, f.env}
    BY <1>1, <1>4
  <2>2. f.vars \in Owned(f)
    BY <1>1, OwnedIs
  <2> QED
    BY <2>1, <2>2
<1>7. \A x : x \in Owned(g) <=> x \in Owned(f) /\ x # f.vars
  <2>1. Own(g) = f.saved /\ Own(f) = f.saved
    BY DEF Own
  <2>2. \A x : x \in Owned(g) <=>
           \/ PolicyOf[f.type].scope # "share" /\ x \in {f.saved, f.env}
           \/ PolicyOf[f.type].positional # "share" /\ x = f.pos
           \/ x = f.locals /\ x # NoStore
    BY <1>1, <2>1, OwnedIs
  <2>3. \A x : x \in Owned(f) <=>
           \/ PolicyOf[f.type].scope # "share" /\ x \in {f.saved, f.env}
           \/ PolicyOf[f.type].positional # "share" /\ x = f.pos
           \/ x = f.locals /\ x # NoStore
           \/ x = f.vars
    BY <1>1, <2>1, OwnedIs
  <2> QED
    BY <1>6, <2>2, <2>3
<1>8. \A x : x \in Refers(g) => x \in Refers(f) /\ x # f.vars
  BY <1>6 DEF Refers
<1>9. \A j \in 1 .. m : Owned(fs[j]) \cap Owned(f) = {}
  BY <1>1, <1>3, <1>4
<1>10. OwnedUpTo(gs, n) = ss \ {f.vars}
  <2>1. ASSUME NEW x PROVE x \in OwnedUpTo(gs, n) <=> x \in ss /\ x # f.vars
    <3>1. (\E j \in 1 .. n : x \in Owned(gs[j])) <=>
             (\E j \in 1 .. m : x \in Owned(fs[j])) \/ x \in Owned(g)
      BY <1>1, <1>2, <1>3, <1>5
    <3>2. (\E j \in 1 .. n : x \in Owned(fs[j])) <=>
             (\E j \in 1 .. m : x \in Owned(fs[j])) \/ x \in Owned(f)
      BY <1>1, <1>2, <1>3
    <3>3. (\E j \in 1 .. m : x \in Owned(fs[j])) => x # f.vars
      BY <1>6, <1>9
    <3> QED
      BY ZenonT(30), <1>4, <1>7, <3>1, <3>2, <3>3, UpTo
  <2> QED
    BY <2>1
<1>11. ss \ {f.vars} \subseteq Nat \ {NoStore} /\ IsFiniteSet(ss \ {f.vars})
  BY <1>4, FS_RemoveElement
<1>12. ASSUME NEW i \in 1 .. n, NEW j \in 1 .. n, i # j
       PROVE  Owned(gs[i]) \cap Owned(gs[j]) = {}
  <2>1. \A k \in 1 .. m : Owned(gs[k]) \cap Owned(g) = {}
    BY <1>5, <1>7, <1>9
  <2>2. CASE i = n
    BY <1>2, <1>12, <2>1, <2>2
  <2>3. CASE j = n
    BY <1>2, <1>12, <2>1, <2>3
  <2>4. CASE i # n /\ j # n
    BY <1>2, <1>4, <1>5, <1>12, <2>4
  <2> QED
    BY <2>2, <2>3, <2>4
<1>13. ASSUME NEW i \in 1 .. n
       PROVE  /\ Refers(gs[i]) \subseteq OwnedUpTo(gs, i)
              /\ NoStore \notin {gs[i].vars, gs[i].pos, gs[i].env}
              /\ gs[i].saved # NoStore =>
                    gs[i].vars \notin {gs[i].saved, gs[i].locals, gs[i].pos, gs[i].env}
  <2>1. CASE i \in 1 .. m
    BY <1>3, <1>4, <1>5, <2>1
  <2>2. CASE i = n
    BY <1>1, <1>4, <1>8, <1>10, <2>2
  <2> QED
    BY <1>2, <2>1, <2>2
<1> QED
  BY <1>10, <1>11, <1>12, <1>13 DEF StoresOK

-----------------------------------------------------------------------------
(* Types, loops and temporary stores when frames come and go.              *)

LEMMA TypesUnchanged ==
    ASSUME NEW fs, NEW gs \in Seq(FrameRecords), TypesOK(fs), Len(gs) = Len(fs),
           \A i \in 1 .. Len(fs) : gs[i].type = fs[i].type /\ gs[i].loops = fs[i].loops
    PROVE  TypesOK(gs)
<1>1. fs \in Seq(FrameRecords) /\ fs # <<>> /\ Len(fs) \in Nat \ {0}
  BY EmptySeq DEF TypesOK
<1>2. gs # <<>>
  BY <1>1, EmptySeq
<1>3. ASSUME NEW i \in 1 .. Len(fs)
      PROVE  {j \in 1 .. i : gs[j].type = "loop"} = {j \in 1 .. i : fs[j].type = "loop"}
  <2>1. \A j \in 1 .. i : j \in 1 .. Len(fs)
    BY <1>1
  <2> QED
    BY <2>1
<1> QED
  BY <1>1, <1>2, <1>3 DEF TypesOK

LEMMA TypesPopped ==
    ASSUME NEW fs, NEW gs \in Seq(FrameRecords), TypesOK(fs), Len(fs) > 1,
           Len(gs) = Len(fs) - 1,
           \A i \in 1 .. Len(gs) : gs[i].type = fs[i].type /\ gs[i].loops = fs[i].loops
    PROVE  TypesOK(gs)
<1>1. fs \in Seq(FrameRecords) /\ fs # <<>> /\ Len(fs) \in Nat
  BY EmptySeq DEF TypesOK
<1>2. gs # <<>> /\ \A i \in 1 .. Len(gs) : i \in 1 .. Len(fs)
  BY <1>1, EmptySeq
<1>3. ASSUME NEW i \in 1 .. Len(gs)
      PROVE  {j \in 1 .. i : gs[j].type = "loop"} = {j \in 1 .. i : fs[j].type = "loop"}
  <2>1. \A j \in 1 .. i : j \in 1 .. Len(gs)
    BY <1>1
  <2> QED
    BY <2>1
<1> QED
  BY ZenonT(30), <1>1, <1>2, <1>3 DEF TypesOK

LEMMA TypesPushed ==
    ASSUME NEW fs, NEW gs \in Seq(FrameRecords), TypesOK(fs), Len(gs) = Len(fs) + 1,
           \A i \in 1 .. Len(fs) : gs[i] = fs[i],
           NEW f, f = gs[Len(gs)], f.type # "top",
           f.loops = fs[Len(fs)].loops + (IF f.type = "loop" THEN 1 ELSE 0)
    PROVE  TypesOK(gs)
<1> DEFINE n == Len(fs)
           m == Len(gs)
           L(i) == {j \in 1 .. i : gs[j].type = "loop"}
<1>1. fs \in Seq(FrameRecords) /\ fs # <<>> /\ n \in Nat \ {0} /\ m = n + 1
  BY EmptySeq DEF TypesOK
<1>2. gs # <<>> /\ \A i \in 1 .. m : i \in 1 .. n \/ i = m
  BY <1>1, EmptySeq
<1>3. ASSUME NEW i \in 1 .. n PROVE gs[i].loops = Cardinality(L(i))
  <2>1. \A j \in 1 .. i : j \in 1 .. n
    BY <1>1
  <2>2. L(i) = {j \in 1 .. i : fs[j].type = "loop"}
    BY <2>1
  <2> QED
    BY <2>2 DEF TypesOK
<1>4. gs[m].loops = Cardinality(L(m))
  <2>1. IsFiniteSet(L(n)) /\ m \notin L(n)
    <3>1. IsFiniteSet(1 .. n)
      BY <1>1, FS_Interval
    <3>2. L(n) \in SUBSET (1 .. n) /\ m \notin 1 .. n
      BY <1>1
    <3> QED
      BY <3>1, <3>2, FS_Subset
  <2>2. gs[n].loops = Cardinality(L(n)) /\ gs[n] = fs[n]
    <3>1. n \in 1 .. n
      BY <1>1
    <3> QED
      BY <1>3, <3>1
  <2>3. \A j : j \in 1 .. m <=> j \in 1 .. n \/ j = m
    BY <1>1
  <2>4. gs[m].type = f.type /\ gs[m].loops = f.loops
    OBVIOUS
  <2>5. fs[n].loops \in Nat
    <3>1. fs[n] \in FrameRecords
      BY <1>1, Nonempty
    <3> QED
      BY <3>1 DEF FrameRecords
  <2>6. Cardinality(L(m)) = Cardinality(L(n)) + (IF f.type = "loop" THEN 1 ELSE 0)
    <3>1. CASE f.type = "loop"
      <4>1. L(m) = L(n) \cup {m}
        BY <2>3, <2>4, <3>1
      <4>2. Cardinality(L(n) \cup {m}) = Cardinality(L(n)) + 1
        BY <2>1, FS_AddElement
      <4> QED
        BY <3>1, <4>1, <4>2
    <3>2. CASE f.type # "loop"
      <4>1. L(m) = L(n)
        BY <2>3, <2>4, <3>2
      <4>2. Cardinality(L(n)) \in Nat
        BY <2>1, FS_CardinalityType
      <4> HIDE DEF L
      <4> QED
        BY <3>2, <4>1, <4>2
    <3> QED
      BY <3>1, <3>2
  <2> QED
    BY <2>2, <2>4, <2>6
<1>5. \A i \in 1 .. m : gs[i].type = "top" <=> i = 1
  <2>1. m # 1
    BY <1>1
  <2> QED
    BY <1>2, <2>1 DEF TypesOK
<1> QED
  BY <1>2, <1>3, <1>4, <1>5 DEF TypesOK

\* The innermost function goes on without swapping, or calls, or returns.
LEMMA SettledStep ==
    ASSUME NEW fs, NEW cs, NEW ds, Settled(fs, cs), Len(cs) \in Nat \ {0}, Len(ds) = Len(cs),
           \A k \in 1 .. Len(cs) : /\ ds[k].frame = cs[k].frame
                                   /\ IsSwapped(ds[k]) <=> IsSwapped(cs[k])
    PROVE  Settled(fs, ds)
BY DEF Settled

LEMMA SettledCall ==
    ASSUME NEW fs, NEW cs \in Seq(Activation), Settled(fs, cs), NEW a \in Activation, ~IsSwapped(a)
    PROVE  Settled(fs, Append(cs, a))
<1> DEFINE n == Len(cs)
           ds == Append(cs, a)
<1>1. Len(ds) = n + 1 /\ n \in Nat /\ ds[n + 1] = a /\ \A k \in 1 .. n : ds[k] = cs[k]
  BY AppendFacts
<1> HIDE DEF ds
<1>2. \A k : k \in 1 .. n + 1 <=> k \in 1 .. n \/ k = n + 1
  BY <1>1
<1>3. ASSUME NEW i
      PROVE  (\E k \in 1 .. n + 1 : IsSwapped(ds[k]) /\ ds[k].frame = i) <=>
                (\E k \in 1 .. n : IsSwapped(cs[k]) /\ cs[k].frame = i)
  BY <1>1, <1>2
<1>4. Settled(fs, ds)
  BY <1>1, <1>3 DEF Settled
<1> QED
  BY <1>4 DEF ds

LEMMA SettledReturn ==
    ASSUME NEW fs, NEW cs \in Seq(Activation), Settled(fs, cs), cs # <<>>, ~IsSwapped(cs[Len(cs)])
    PROVE  Settled(fs, Front(cs))
<1> DEFINE n == Len(cs)
           ds == Front(cs)
<1>1. n \in Nat \ {0} /\ Len(ds) = n - 1 /\ \A k \in 1 .. n - 1 : ds[k] = cs[k]
  BY FrontFacts, Nonempty
<1> HIDE DEF ds
<1>2. \A k : k \in 1 .. n <=> k \in 1 .. n - 1 \/ k = n
  BY <1>1
<1>3. ASSUME NEW i
      PROVE  (\E k \in 1 .. n - 1 : IsSwapped(ds[k]) /\ ds[k].frame = i) <=>
                (\E k \in 1 .. n : IsSwapped(cs[k]) /\ cs[k].frame = i)
  BY <1>1, <1>2
<1>4. Settled(fs, ds)
  BY <1>1, <1>3 DEF Settled
<1> QED
  BY <1>4 DEF ds

\* No frame that is about to be popped holds a temporary store.
LEMMA NothingSaved ==
    ASSUME NEW fs, NEW cs, CallsOK(fs, cs), Settled(fs, cs), cs # <<>>, Len(fs) \in Nat \ {0},
           cs[Len(cs)].fn # "frame", IsSwapped(cs[Len(cs)]) => Pushed(cs[Len(cs)]) = 1
    PROVE  fs[Len(fs)].saved = NoStore
<1> SUFFICES ASSUME NEW k \in 1 .. Len(cs), IsSwapped(cs[k]), cs[k].frame = Len(fs)
             PROVE  FALSE
  BY DEF Settled
<1>1. k = Len(cs)
  BY OuterSwapped
<1>2. Len(fs) = cs[k].frame + 1 /\ cs[k].frame \in Nat
  BY <1>1, TopCall
<1> QED
  BY <1>2

-----------------------------------------------------------------------------
(* Processes.                                                              *)

\* Two frames that differ in their status and their flow only.
SameFrame(f, g) == SameStores(f, g) /\ f.loops = g.loops

LEMMA ProcessUpdated ==
    ASSUME NEW fs, NEW gs \in Seq(FrameRecords), NEW ss, NEW cs, Process(fs, ss, cs),
           Len(gs) = Len(fs), \A i \in 1 .. Len(fs) : SameFrame(fs[i], gs[i])
    PROVE  Process(gs, ss, cs)
<1>1. fs \in Seq(FrameRecords)
  BY DEF Process, TypesOK
<1>2. \A i \in 1 .. Len(fs) : /\ SameStores(fs[i], gs[i]) /\ gs[i].saved = fs[i].saved
                              /\ gs[i].type = fs[i].type /\ gs[i].loops = fs[i].loops
  BY DEF SameFrame, SameStores
<1>3. CallsOK(gs, cs)
  BY DEF Process, CallsOK
<1>4. TypesOK(gs)
  BY <1>2, TypesUnchanged DEF Process
<1>5. StoresOK(gs, ss)
  BY <1>1, <1>2, StoresUnchanged DEF Process
<1>6. Settled(gs, cs)
  BY <1>2 DEF Process, Settled
<1> QED
  BY <1>3, <1>4, <1>5, <1>6 DEF Process

LEMMA ProcessGoesOn ==
    ASSUME NEW fs, NEW ss, NEW cs, Process(fs, ss, cs), cs # <<>>,
           NEW t \in Activation, NodeOK(t), t.frame = cs[Len(cs)].frame,
           t.fn = cs[Len(cs)].fn, Pushed(t) = Pushed(cs[Len(cs)]),
           IsSwapped(t) <=> IsSwapped(cs[Len(cs)])
    PROVE  /\ Process(fs, ss, [cs EXCEPT ![Len(cs)] = t])
           /\ [cs EXCEPT ![Len(cs)] = t] # <<>> /\ Len([cs EXCEPT ![Len(cs)] = t]) = Len(cs)
           /\ [cs EXCEPT ![Len(cs)] = t][Len(cs)] = t
<1> DEFINE n == Len(cs)
           ds == [cs EXCEPT ![n] = t]
<1>1. CallsOK(fs, cs) /\ n \in Nat \ {0} /\ n \in 1 .. n /\ Len(fs) = t.frame + Pushed(t)
  BY TopCall DEF Process
<1>2. /\ CallsOK(fs, ds) /\ ds # <<>> /\ Len(ds) = n
      /\ \A k \in 1 .. n : ds[k] = IF k = n THEN t ELSE cs[k]
  BY <1>1, RelabelKeeps
<1> HIDE DEF ds
<1>3. \A k \in 1 .. n : ds[k].frame = cs[k].frame /\ (IsSwapped(ds[k]) <=> IsSwapped(cs[k]))
  BY <1>2
<1>4. Settled(fs, ds)
  BY <1>1, <1>2, <1>3, SettledStep DEF Process
<1>5. Process(fs, ss, ds) /\ ds # <<>> /\ Len(ds) = n /\ ds[n] = t
  BY <1>1, <1>2, <1>4 DEF Process
<1> QED
  BY <1>5 DEF ds

LEMMA ProcessCalls ==
    ASSUME NEW fs, NEW ss, NEW cs, Process(fs, ss, cs), cs # <<>>,
           NEW a \in Activation, NodeOK(a), a.frame = Len(fs), Pushed(a) = 0, ~IsSwapped(a),
           cs[Len(cs)].fn # "frame",
           IsSwapped(cs[Len(cs)]) => a.fn = "frame" \/ Pushed(cs[Len(cs)]) = 1
    PROVE  Process(fs, ss, Append(cs, a))
<1>1. CallsOK(fs, cs) /\ cs \in Seq(Activation)
  BY DEF Process, CallsOK
<1>2. CallsOK(fs, Append(cs, a))
  BY <1>1, CallKeeps
<1>3. Settled(fs, Append(cs, a))
  BY <1>1, SettledCall DEF Process
<1> QED
  BY <1>2, <1>3 DEF Process

LEMMA ProcessReturns ==
    ASSUME NEW fs, NEW ss, NEW cs, Process(fs, ss, cs), Len(cs) > 1,
           Pushed(cs[Len(cs)]) = 0, ~IsSwapped(cs[Len(cs)])
    PROVE  Process(fs, ss, Front(cs)) /\ Front(cs) # <<>>
<1>1. CallsOK(fs, cs) /\ cs \in Seq(Activation) /\ cs # <<>>
  BY EmptySeq DEF Process, CallsOK
<1>2. Len(fs) = cs[Len(cs)].frame
  BY <1>1, TopCall
<1>3. CallsOK(fs, Front(cs)) /\ Front(cs) # <<>>
  BY <1>1, <1>2, ReturnKeeps
<1>4. Settled(fs, Front(cs))
  BY <1>1, SettledReturn DEF Process
<1> QED
  BY <1>3, <1>4 DEF Process

-----------------------------------------------------------------------------
(* The process that runs.                                                  *)

LEMMA Here ==
    ASSUME IInv
    PROVE  /\ Process(frames, stores, calls) /\ frames \in Seq(FrameRecords) /\ frames # <<>>
           /\ Len(frames) \in Nat \ {0} /\ Len(frames) \in 1 .. Len(frames)
           /\ frames[Len(frames)] = Current /\ Current \in FrameRecords
           /\ calls \in Seq(Activation)
<1>1. Process(frames, stores, calls) /\ frames \in Seq(FrameRecords) /\ frames # <<>>
  BY DEF IInv, Process, TypesOK
<1>2. Len(frames) \in Nat \ {0} /\ Len(frames) \in 1 .. Len(frames)
  BY <1>1, Nonempty
<1>3. Current \in FrameRecords
  BY <1>1, Nonempty DEF Current
<1>4. calls \in Seq(Activation)
  BY <1>1 DEF Process, CallsOK
<1> QED
  BY <1>1, <1>2, <1>3, <1>4 DEF Current

LEMMA Top ==
    ASSUME IInv, calls # <<>>
    PROVE  /\ Len(calls) \in Nat \ {0} /\ Len(calls) \in 1 .. Len(calls)
           /\ Call = calls[Len(calls)] /\ Call \in Activation /\ NodeOK(Call)
           /\ Call.frame \in Nat \ {0} /\ Len(frames) = Call.frame + Pushed(Call)
           /\ Len(calls) = 1 => Call.fn = "string"
<1>1. CallsOK(frames, calls)
  BY DEF IInv, Process
<1> QED
  BY <1>1, TopCall DEF Call

\* Outside a simple command that ends, no frame has a flow.
LEMMA Quiet ==
    ASSUME IInv, calls = <<>> \/ Call.fn # "simple" \/ Call.pc \notin {"restore", "done"}
    PROVE  NoFlow(frames)
BY DEF IInv, FlowIsPickedUp, NoFlow

LEMMA NothingWaitsAnew ==
    ASSUME IInv, UNCHANGED forked, Len(frames') <= Len(frames), Len(frames') \in Nat,
           \A i \in 1 .. Len(frames') : frames'[i].type = frames[i].type
    PROVE  WaitingOK(forked') /\ ForksOK(frames', forked', Len(forked'))
<1>1. WaitingOK(forked')
  BY DEF IInv
<1>2. \A i \in 2 .. Len(frames') : i \in 2 .. Len(frames) /\ i \in 1 .. Len(frames')
  BY Here
<1>3. ForksOK(frames', forked', Len(forked'))
  BY <1>2 DEF IInv, ForksOK
<1> QED
  BY <1>1, <1>3

\* The innermost frame is changed.
LEMMA FrameChanged ==
    ASSUME IInv, NEW g \in FrameRecords, frames' = [frames EXCEPT ![Len(frames)] = g]
    PROVE  /\ frames' \in Seq(FrameRecords) /\ Len(frames') = Len(frames)
           /\ \A i \in 1 .. Len(frames) : frames'[i] = IF i = Len(frames) THEN g ELSE frames[i]
<1>1. frames \in Seq(FrameRecords) /\ Len(frames) \in 1 .. Len(frames)
  BY Here
<1> QED
  BY <1>1, ExceptSeq

LEMMA FrameUpdated ==
    ASSUME IInv, NEW g \in FrameRecords, SameFrame(Current, g),
           frames' = [frames EXCEPT ![Len(frames)] = g]
    PROVE  /\ \A cs : Process(frames, stores, cs) => Process(frames', stores, cs)
           /\ UNCHANGED forked => WaitingOK(forked') /\ ForksOK(frames', forked', Len(forked'))
<1>1. /\ frames' \in Seq(FrameRecords) /\ Len(frames') = Len(frames)
      /\ \A i \in 1 .. Len(frames) : frames'[i] = IF i = Len(frames) THEN g ELSE frames[i]
  BY FrameChanged
<1>2. \A i \in 1 .. Len(frames) : SameFrame(frames[i], frames'[i])
  BY <1>1 DEF SameFrame, SameStores, Current
<1>3. \A cs : Process(frames, stores, cs) => Process(frames', stores, cs)
  BY <1>1, <1>2, ProcessUpdated
<1>4. \A i \in 1 .. Len(frames) : frames'[i].type = frames[i].type
  BY <1>2 DEF SameFrame, SameStores
<1>5. Len(frames) \in Nat /\ Len(frames') <= Len(frames)
  BY <1>1, Here
<1> QED
  BY <1>1, <1>3, <1>4, <1>5, NothingWaitsAnew

-----------------------------------------------------------------------------
(* The steps of the interpreter that leave the frames where they are.      *)

\* What the innermost function may become when it stays in its frame.
StaysIn(t) == /\ t \in Activation /\ NodeOK(t) /\ t.frame = Call.frame /\ t.fn = Call.fn
              /\ Pushed(t) = Pushed(Call) /\ (IsSwapped(t) <=> IsSwapped(Call))

\* What it may call.
Callable(a) == /\ a \in Activation /\ NodeOK(a) /\ a.frame = Len(frames)
               /\ Pushed(a) = 0 /\ ~IsSwapped(a) /\ (a.fn = "simple" => a.pc = "start")

LEMMA GoesOn ==
    ASSUME IInv, calls # <<>>, NEW t, StaysIn(t), NEW ds, ds = [calls EXCEPT ![Len(calls)] = t]
    PROVE  Process(frames, stores, ds) /\ ds # <<>> /\ ds[Len(ds)] = t
<1> DEFINE n == Len(calls)
           es == [calls EXCEPT ![n] = t]
<1>1. Process(frames, stores, calls) /\ calls[n] = Call
  BY Here DEF Call
<1>2. /\ t \in Activation /\ NodeOK(t) /\ t.frame = calls[n].frame
      /\ t.fn = calls[n].fn /\ Pushed(t) = Pushed(calls[n])
      /\ (IsSwapped(t) <=> IsSwapped(calls[n]))
  BY <1>1 DEF StaysIn
<1>3. Process(frames, stores, es)
  BY <1>1, <1>2, ProcessGoesOn
<1>4. es # <<>>
  BY <1>1, <1>2, ProcessGoesOn
<1>5. Len(es) = n
  BY <1>1, <1>2, ProcessGoesOn
<1>6. es[n] = t
  BY <1>1, <1>2, ProcessGoesOn
<1> HIDE DEF es
<1>7. ds = es
  BY DEF es
<1> QED
  BY <1>3, <1>4, <1>5, <1>6, <1>7

LEMMA CallStep ==
    ASSUME IInv, calls # <<>>, NEW t, StaysIn(t), NEW a, Callable(a), Call.fn # "frame",
           IsSwapped(t) => a.fn = "frame", Call.fn = "simple" => Call.pc \notin {"restore", "done"},
           calls' = Append([calls EXCEPT ![Len(calls)] = t], a), ret' = None,
           UNCHANGED <<frames, stores, forked, lastExit, lines, ended>>
    PROVE  IInv'
<1> DEFINE ds == [calls EXCEPT ![Len(calls)] = t]
<1>1. Process(frames, stores, ds) /\ ds # <<>> /\ ds[Len(ds)] = t
  BY GoesOn
<1> HIDE DEF ds
<1>2. Process(frames, stores, Append(ds, a))
  BY <1>1, ProcessCalls DEF StaysIn, Callable
<1>3. Process(frames', stores', calls')
  BY <1>2 DEF ds
<1>4. FlowIsPickedUp'
  BY Quiet DEF FlowIsPickedUp, NoFlow
<1>5. ResultReady'
  <2>1. a \in Activation /\ ds \in Seq(Activation)
    BY <1>1 DEF Callable, Process, CallsOK
  <2>2. calls' = Append(ds, a)
    BY DEF ds
  <2>3. Call' = a
    BY <2>1, <2>2, AppendFacts DEF Call
  <2> QED
    BY <2>3 DEF ResultReady, Callable
<1> QED
  BY <1>3, <1>4, <1>5 DEF IInv, RestOK

LEMMA PushStep ==
    ASSUME IInv, calls # <<>>, NEW a, Callable(a), Call.fn # "frame", Call.fn # "simple", Push(a),
           UNCHANGED <<frames, stores, forked, lastExit, lines, ended>>
    PROVE  IInv'
<1>1. StaysIn(Call)
  BY Top DEF StaysIn
<1>2. calls = [calls EXCEPT ![Len(calls)] = Call]
  BY Here, Top
<1>3. ~IsSwapped(Call)
  BY DEF IsSwapped
<1> QED
  BY <1>1, <1>2, <1>3, CallStep DEF Push

LEMMA InvokeStep ==
    ASSUME IInv, calls # <<>>, NEW pc \in Pcs, StaysIn([Call EXCEPT !.pc = pc]),
           NEW a, Callable(a), Call.fn # "frame", IsSwapped(Call) => a.fn = "frame",
           Call.fn = "simple" => Call.pc \notin {"restore", "done"}, Invoke(pc, a),
           UNCHANGED <<frames, stores, forked, lastExit, lines, ended>>
    PROVE  IInv'
<1>1. PICK t : t = [Call EXCEPT !.pc = pc]
  OBVIOUS
<1>2. [calls EXCEPT ![Len(calls)].pc = pc] = [calls EXCEPT ![Len(calls)] = t]
  BY <1>1, Here, Top
<1>3. calls' = Append([calls EXCEPT ![Len(calls)] = t], a) /\ ret' = None
  BY <1>2 DEF Invoke
<1>4. StaysIn(t) /\ (IsSwapped(t) => a.fn = "frame")
  BY <1>1 DEF StaysIn
<1> QED
  BY <1>3, <1>4, CallStep

LEMMA ReturnStep ==
    ASSUME IInv, Len(calls) > 1, Pushed(Call) = 0, ~IsSwapped(Call),
           NEW r \in Results, Return(r),
           NEW g \in FrameRecords, SameFrame(Current, g), g.flow = "normal",
           frames' = [frames EXCEPT ![Len(frames)] = g], lastExit' \in Status,
           UNCHANGED <<stores, forked, lines, ended>>
    PROVE  IInv'
<1>1. Process(frames, stores, Front(calls)) /\ Front(calls) # <<>>
  BY Here, ProcessReturns DEF Call
<1>2. Process(frames', stores', calls')
  BY <1>1, FrameUpdated DEF Return
<1>3. FlowIsPickedUp'
  <2>1. /\ Len(frames') = Len(frames)
        /\ \A i \in 1 .. Len(frames) : frames'[i] = IF i = Len(frames) THEN g ELSE frames[i]
    BY FrameChanged
  <2>2. \A i \in 1 .. Len(frames) : i # Len(frames) => frames[i].flow = "normal"
    BY DEF IInv, FlowIsPickedUp
  <2> QED
    BY <2>1, <2>2 DEF FlowIsPickedUp
<1>4. WaitingOK(forked') /\ ForksOK(frames', forked', Len(forked'))
  BY FrameUpdated
<1>5. RestOK'
  BY DEF IInv, RestOK, Return
<1>6. ResultReady'
  BY DEF ResultReady, Return
<1> QED
  BY <1>2, <1>3, <1>4, <1>5, <1>6 DEF IInv

LEMMA PlainReturnStep ==
    ASSUME IInv, Len(calls) > 1, Pushed(Call) = 0, Call.fn # "simple",
           NEW r \in Results, Return(r),
           UNCHANGED <<frames, stores, forked, lastExit, lines, ended>>
    PROVE  IInv'
<1>1. frames = [frames EXCEPT ![Len(frames)] = Current]
  BY Here
<1>2. NoFlow(frames)
  BY Quiet
<1>3. Current \in FrameRecords /\ Current.flow = "normal"
  BY <1>2, Here DEF NoFlow
<1>4. SameFrame(Current, Current)
  BY DEF SameFrame, SameStores
<1>5. ~IsSwapped(Call)
  BY DEF IsSwapped
<1>6. lastExit' \in Status
  BY DEF IInv, RestOK
<1> QED
  BY <1>1, <1>3, <1>4, <1>5, <1>6, ReturnStep

\* The innermost function goes on in its frame.
LEMMA OnStep ==
    ASSUME IInv, calls # <<>>, NEW t, StaysIn(t), calls' = [calls EXCEPT ![Len(calls)] = t],
           NEW g \in FrameRecords, SameFrame(Current, g),
           g.flow # "normal" => t.fn = "simple" /\ t.pc \in {"restore", "done"},
           frames' = [frames EXCEPT ![Len(frames)] = g], ret' = None \/ ret' \in Results,
           t.fn = "simple" /\ t.pc \in {"restore", "done"} => ret' \in Results,
           UNCHANGED <<stores, forked, lastExit, lines, ended>>
    PROVE  IInv'
<1>1. Process(frames, stores, calls') /\ calls' # <<>> /\ calls'[Len(calls')] = t
  BY GoesOn
<1>2. Process(frames', stores', calls') /\ calls' # <<>> /\ Call' = t
  BY <1>1, FrameUpdated DEF Call
<1>3. FlowIsPickedUp'
  <2>1. /\ Len(frames') = Len(frames)
        /\ \A i \in 1 .. Len(frames) : frames'[i] = IF i = Len(frames) THEN g ELSE frames[i]
    BY FrameChanged
  <2>2. \A i \in 1 .. Len(frames) : i # Len(frames) => frames[i].flow = "normal"
    BY DEF IInv, FlowIsPickedUp
  <2> QED
    BY <1>2, <2>1, <2>2 DEF FlowIsPickedUp
<1>4. WaitingOK(forked') /\ ForksOK(frames', forked', Len(forked'))
  BY FrameUpdated
<1>5. RestOK'
  BY DEF IInv, RestOK
<1>6. ResultReady'
  BY <1>2 DEF ResultReady
<1> QED
  BY <1>2, <1>3, <1>4, <1>5, <1>6 DEF IInv

-----------------------------------------------------------------------------
(* A frame is pushed.                                                      *)

LEMMA Policies ==
    ASSUME NEW type \in Types
    PROVE  LET policy == PolicyOf[type] IN
           /\ policy.terminates <=> type \in {"top", "subshell", "background"}
           /\ policy.forks <=> type \in {"subshell", "background"}
           /\ policy.scope # "share" <=> type \in {"top", "subshell", "background"}
           /\ policy.positional # "share" <=> type \in {"top", "subshell", "background", "function"}
           /\ policy.locals <=> type = "function"
           /\ policy.isLoop <=> type = "loop"
BY DEF Types, PolicyOf, Policy, TopLevel, Subshell, BraceGroup, Function, Loop, BackgroundJob,
       Pipeline, Eval

\* A new frame, made next to a parent whose stores exist.
LEMMA NewFrameFacts ==
    ASSUME NEW type \in Types, NEW parent,
           type = "top" \/ parent \in FrameRecords,
           type # "top" => NoStore \notin {parent.vars, parent.pos, parent.env},
           parent.last \in Status, parent.loops \in Nat,
           NEW taken \in SUBSET Nat, IsFiniteSet(taken),
           NEW f, f = NewFrame(type, parent, Fresh(4, taken))
    PROVE  /\ f \in FrameRecords /\ f.type = type /\ f.saved = NoStore /\ f.flow = "normal"
           /\ f.loops = parent.loops + (IF type = "loop" THEN 1 ELSE 0)
           /\ OwnStores(f) \cap taken = {} /\ OwnStores(f) \subseteq Nat \ {NoStore}
           /\ IsFiniteSet(OwnStores(f)) /\ NoStore \notin {f.vars, f.pos, f.env}
           /\ type # "top" => Refers(f) \subseteq OwnStores(f) \cup Refers(parent)
           /\ type = "top" => Refers(f) \subseteq OwnStores(f)
<1> DEFINE policy == PolicyOf[type]
           new == Fresh(4, taken)
<1>1. PICK a, b, c, d : a = new[1] /\ b = new[2] /\ c = new[3] /\ d = new[4]
  OBVIOUS
<1>2. {a, b, c, d} \subseteq Nat \ {NoStore} /\ {a, b, c, d} \cap taken = {}
  <2>1. 4 \in Nat /\ {1, 2, 3, 4} \subseteq 1 .. 4
    OBVIOUS
  <2>2. \A k \in 1 .. 4 : new[k] \in Nat \ {0} /\ new[k] \notin taken
    BY <2>1, FreshFacts
  <2> QED
    BY <1>1, <2>1, <2>2 DEF NoStore
<1>3. /\ policy.scope # "share" <=> type \in {"top", "subshell", "background"}
      /\ policy.positional # "share" <=> type \in {"top", "subshell", "background", "function"}
      /\ policy.locals <=> type = "function"
      /\ policy.isLoop <=> type = "loop"
  BY Policies
<1>4. f = [type |-> type, vars |-> IF policy.scope = "share" THEN parent.vars ELSE a,
           locals |-> IF policy.locals THEN b ELSE NoStore, saved |-> NoStore,
           pos |-> IF policy.positional = "share" THEN parent.pos ELSE c,
           env |-> IF policy.scope = "share" THEN parent.env ELSE d,
           flow |-> "normal", depth |-> 0, last |-> parent.last,
           loops |-> parent.loops + (IF policy.isLoop THEN 1 ELSE 0)]
  BY <1>1 DEF NewFrame, InitVariables, InitPositional, InitEnv
<1> HIDE DEF policy
<1>5. f.type = type /\ f.saved = NoStore /\ f.flow = "normal" /\ f.depth = 0
  BY <1>4
<1>6. f.loops = parent.loops + (IF type = "loop" THEN 1 ELSE 0) /\ f.last = parent.last
  BY <1>3, <1>4
<1>7. /\ f.vars = IF type \in {"top", "subshell", "background"} THEN a ELSE parent.vars
      /\ f.env = IF type \in {"top", "subshell", "background"} THEN d ELSE parent.env
      /\ f.pos = IF type \in {"top", "subshell", "background", "function"} THEN c ELSE parent.pos
      /\ f.locals = IF type = "function" THEN b ELSE NoStore
  BY <1>3, <1>4
<1>8. type # "top" => {parent.vars, parent.env, parent.pos} \subseteq Nat \ {NoStore}
  BY DEF FrameRecords, NoStore
<1>9. {f.vars, f.env, f.pos} \subseteq Nat \ {NoStore} /\ f.locals \in Nat
  BY <1>2, <1>7, <1>8 DEF NoStore
<1>10. f \in FrameRecords
  BY <1>4, <1>5, <1>6, <1>9 DEF FrameRecords, Flows, NoStore
<1>11. \A x : x \in OwnStores(f) <=>
          \/ type \in {"top", "subshell", "background"} /\ x \in {a, d}
          \/ type \in {"top", "subshell", "background", "function"} /\ x = c
          \/ type = "function" /\ x = b
  <2>1. \A x : x \in OwnStores(f) <=>
           \/ PolicyOf[type].scope # "share" /\ x \in {f.vars, f.env}
           \/ PolicyOf[type].positional # "share" /\ x = f.pos
           \/ x = f.locals /\ x # NoStore
    BY <1>5, <1>10, OwnStoresAre
  <2> QED
    BY <1>2, <1>3, <1>7, <2>1 DEF policy
<1>12. OwnStores(f) \subseteq {a, b, c, d}
  BY <1>11
<1>13. IsFiniteSet({a, b, c, d})
  <2>1. IsFiniteSet({a}) /\ IsFiniteSet({b}) /\ IsFiniteSet({c}) /\ IsFiniteSet({d})
    BY FS_Singleton
  <2>2. IsFiniteSet({a} \cup {b}) /\ IsFiniteSet({c} \cup {d})
    BY <2>1, FS_Union
  <2>3. IsFiniteSet(({a} \cup {b}) \cup ({c} \cup {d}))
    BY <2>2, FS_Union
  <2>4. {a, b, c, d} = ({a} \cup {b}) \cup ({c} \cup {d})
    OBVIOUS
  <2> QED
    BY <2>3, <2>4
<1>14. IsFiniteSet(OwnStores(f))
  BY <1>12, <1>13, FS_Subset
<1>15. OwnStores(f) \cap taken = {} /\ OwnStores(f) \subseteq Nat \ {NoStore}
  BY <1>2, <1>12
<1>16. type # "top" => Refers(f) \subseteq OwnStores(f) \cup Refers(parent)
  BY <1>5, <1>7, <1>11 DEF Refers
<1>17. type = "top" => Refers(f) \subseteq OwnStores(f)
  BY <1>5, <1>7, <1>11 DEF Refers
<1> QED
  BY <1>5, <1>6, <1>9, <1>10, <1>14, <1>15, <1>16, <1>17

LEMMA FramePushed ==
    ASSUME IInv, NEW type \in Types, type # "top", FramePush(type)
    PROVE  /\ frames' \in Seq(FrameRecords) /\ Len(frames') = Len(frames) + 1
           /\ TypesOK(frames') /\ StoresOK(frames', stores')
           /\ \A i \in 1 .. Len(frames) : frames'[i] = frames[i]
           /\ frames'[Len(frames) + 1].type = type
           /\ frames'[Len(frames) + 1].saved = NoStore
           /\ frames'[Len(frames) + 1].flow = "normal"
<1> DEFINE n == Len(frames)
<1>1. PICK f : f = NewFrame(type, Current, Fresh(4, stores))
  OBVIOUS
<1>2. frames' = Append(frames, f) /\ stores' = stores \cup OwnStores(f)
  BY <1>1 DEF FramePush
<1>3. /\ frames \in Seq(FrameRecords) /\ n \in Nat \ {0} /\ n \in 1 .. n /\ frames[n] = Current
      /\ Current \in FrameRecords /\ TypesOK(frames) /\ StoresOK(frames, stores)
  BY Here DEF IInv, Process
<1>4. /\ stores \in SUBSET Nat /\ IsFiniteSet(stores)
      /\ NoStore \notin {Current.vars, Current.pos, Current.env}
      /\ Current.last \in Status /\ Current.loops \in Nat
  BY <1>3 DEF StoresOK, FrameRecords
<1>5. /\ f \in FrameRecords /\ f.type = type /\ f.saved = NoStore /\ f.flow = "normal"
      /\ f.loops = Current.loops + (IF type = "loop" THEN 1 ELSE 0)
      /\ OwnStores(f) \cap stores = {} /\ OwnStores(f) \subseteq Nat \ {NoStore}
      /\ IsFiniteSet(OwnStores(f)) /\ NoStore \notin {f.vars, f.pos, f.env}
      /\ Refers(f) \subseteq OwnStores(f) \cup Refers(Current)
  BY <1>1, <1>3, <1>4, NewFrameFacts
<1>6. /\ frames' \in Seq(FrameRecords) /\ Len(frames') = n + 1 /\ frames'[n + 1] = f
      /\ \A i \in 1 .. n : frames'[i] = frames[i]
  BY <1>2, <1>3, <1>5, AppendFacts
<1>7. TypesOK(frames')
  BY <1>3, <1>5, <1>6, TypesPushed
<1>8. StoresOK(frames', stores')
  BY <1>2, <1>3, <1>5, <1>6, StoresPushed
<1> QED
  BY <1>5, <1>6, <1>7, <1>8

LEMMA NoFlowIsFine ==
    ASSUME NoFlow(frames')
    PROVE  FlowIsPickedUp'
BY DEF NoFlow, FlowIsPickedUp

\* The innermost function has made a frame.
LEMMA ProcessPushed ==
    ASSUME IInv, calls # <<>>, NEW type \in Types, type # "top", FramePush(type),
           Pushed(Call) = 0, NEW t \in Activation, NodeOK(t), t.frame = Call.frame,
           t.fn = Call.fn \/ (Call.fn = "frame" /\ t.fn = "body"), Pushed(t) = 1,
           IsSwapped(t) <=> IsSwapped(Call),
           NEW ds, ds = [calls EXCEPT ![Len(calls)] = t]
    PROVE  Process(frames', stores', ds) /\ ds # <<>> /\ ds[Len(ds)] = t
<1> DEFINE n == Len(calls)
           es == [calls EXCEPT ![n] = t]
<1>1. /\ frames' \in Seq(FrameRecords) /\ Len(frames') = Len(frames) + 1
      /\ TypesOK(frames') /\ StoresOK(frames', stores')
      /\ \A i \in 1 .. Len(frames) : frames'[i] = frames[i]
      /\ frames'[Len(frames) + 1].saved = NoStore
  BY FramePushed
<1>2. CallsOK(frames, calls) /\ Settled(frames, calls) /\ calls[n] = Call
  BY DEF IInv, Process, Call
<1>3. Len(frames') = t.frame + Pushed(t) /\ Len(frames) \in Nat \ {0} /\ n \in 1 .. n
  BY <1>1, Top, Here
<1>4. CallsOK(frames', es)
  BY <1>2, <1>3, RelabelKeeps
<1>5. es # <<>>
  BY <1>2, <1>3, RelabelKeeps
<1>6. Len(es) = n
  BY <1>2, <1>3, RelabelKeeps
<1>7. \A k \in 1 .. n : es[k] = IF k = n THEN t ELSE calls[k]
  BY <1>2, <1>3, RelabelKeeps
<1> HIDE DEF es
<1>8. Settled(frames', es)
  <2>1. \A k \in 1 .. n : es[k].frame = calls[k].frame /\ (IsSwapped(es[k]) <=> IsSwapped(calls[k]))
    BY <1>2, <1>7
  <2>2. \A k \in 1 .. n : calls[k].frame \in Nat /\ calls[k].frame <= Len(frames)
    BY <1>2, OuterSwapped
  <2>3. \A i \in 1 .. Len(frames') : i \in 1 .. Len(frames) \/ i = Len(frames) + 1
    BY <1>1, <1>3
  <2>4. ASSUME NEW i \in 1 .. Len(frames)
        PROVE  frames'[i].saved # NoStore <=> \E k \in 1 .. n : IsSwapped(es[k]) /\ es[k].frame = i
    <3>1. frames[i].saved # NoStore <=> \E k \in 1 .. n : IsSwapped(calls[k]) /\ calls[k].frame = i
      BY <1>2 DEF Settled
    <3>2. (\E k \in 1 .. n : IsSwapped(calls[k]) /\ calls[k].frame = i) <=>
             (\E k \in 1 .. n : IsSwapped(es[k]) /\ es[k].frame = i)
      BY <2>1
    <3> QED
      BY <1>1, <3>1, <3>2
  <2>5. \A k \in 1 .. n : es[k].frame # Len(frames) + 1
    BY <1>3, <2>1, <2>2
  <2> QED
    BY <1>1, <1>6, <2>3, <2>4, <2>5 DEF Settled
<1>9. ds = es
  BY DEF es
<1>10. Process(frames', stores', es)
  BY <1>1, <1>4, <1>8 DEF Process
<1>11. es[n] = t
  BY <1>3, <1>7
<1> QED
  BY <1>5, <1>6, <1>9, <1>10, <1>11

\* A frame that ends no process is made while nothing is pending.
LEMMA PushedQuietly ==
    ASSUME IInv, NEW type \in Types, type # "top", FramePush(type),
           NoFlow(frames), NEW fk, NEW n \in Nat,
           ForksOK(frames, fk, n),
           PolicyOf[type].terminates => \E m \in 1 .. n : Len(fk[m].frames) = Len(frames)
    PROVE  FlowIsPickedUp' /\ ForksOK(frames', fk, n)
<1>1. /\ Len(frames') = Len(frames) + 1 /\ Len(frames) \in Nat \ {0}
      /\ \A i \in 1 .. Len(frames) : frames'[i] = frames[i]
      /\ frames'[Len(frames) + 1].type = type
      /\ frames'[Len(frames) + 1].flow = "normal"
  BY FramePushed, Here
<1>2. \A i \in 1 .. Len(frames') : i \in 1 .. Len(frames) \/ i = Len(frames) + 1
  BY <1>1
<1>3. NoFlow(frames')
  BY <1>1, <1>2 DEF NoFlow
<1>4. ASSUME NEW i \in 2 .. Len(frames'), PolicyOf[frames'[i].type].terminates
      PROVE  \E m \in 1 .. n : Len(fk[m].frames) = i - 1
  <2>1. i \in 2 .. Len(frames) \/ (i = Len(frames) + 1 /\ Len(frames) = i - 1)
    BY <1>1
  <2>2. \A j \in 2 .. Len(frames) : j \in 1 .. Len(frames)
    BY <1>1
  <2> QED
    BY <1>1, <1>4, <2>1, <2>2 DEF ForksOK
<1>5. ForksOK(frames', fk, n)
  BY <1>4 DEF ForksOK
<1> QED
  BY <1>3, <1>5, NoFlowIsFine

LEMMA ForksSame ==
    ASSUME NEW fs, NEW fk, NEW gk, NEW m \in Nat, NEW n \in Nat, m <= n,
           \A k \in 1 .. m : gk[k] = fk[k], ForksOK(fs, fk, m)
    PROVE  ForksOK(fs, gk, n)
<1>1. \A k \in 1 .. m : k \in 1 .. n
  OBVIOUS
<1> QED
  BY <1>1 DEF ForksOK

\* A call of exec_in_frame.
LEMMA FrameCallFacts ==
    ASSUME IInv, NEW type \in Types, FrameCall(type)
    PROVE  /\ calls # <<>> /\ type # "top" /\ Call.fn = "frame" /\ Call.pc \in FrameKinds
           /\ Pushed(Call) = 0 /\ ~IsSwapped(Call) /\ Len(calls) > 1 /\ NoFlow(frames) /\ ret = None
<1>1. calls # <<>> /\ Call.fn = "frame" /\ ret = None /\ FrameType(Call.pc) = type
  BY DEF FrameCall
<1>2. NodeOK(Call) /\ Len(calls) \in Nat \ {0} /\ (Len(calls) = 1 => Call.fn = "string")
  BY <1>1, Top
<1>3. Call.pc \in FrameKinds
  BY <1>1, <1>2 DEF NodeOK
<1>4. type # "top"
  BY <1>1, <1>3 DEF FrameKinds, FrameType
<1>5. Pushed(Call) = 0 /\ ~IsSwapped(Call)
  BY <1>1 DEF Pushed, IsSwapped
<1>6. Len(calls) > 1
  <2>1. Len(calls) # 1
    BY <1>1, <1>2
  <2>2. PICK n \in Nat \ {0} : n = Len(calls)
    BY <1>2
  <2>3. n > 1
    BY <2>1, <2>2
  <2> QED
    BY <2>2, <2>3
<1> QED
  BY <1>1, <1>3, <1>4, <1>5, <1>6, Quiet

LEMMA MovedOn ==
    ASSUME NEW a \in Activation, NEW x \in Pcs
    PROVE  /\ [a EXCEPT !.pc = x] \in Activation /\ [a EXCEPT !.pc = x].pc = x
           /\ [a EXCEPT !.pc = x].fn = a.fn /\ [a EXCEPT !.pc = x].frame = a.frame
BY DEF Activation

LEMMA EnterFrameKeeps ==
    ASSUME IInv, EnterFrame
    PROVE  IInv'
<1>1. PICK type \in Types :
         /\ FrameCall(type) /\ ~PolicyOf[type].forks /\ FramePush(type)
         /\ calls' = [calls EXCEPT ![Len(calls)] = [@ EXCEPT !.fn = "body"]]
         /\ UNCHANGED <<ret, forked, lastExit, lines, ended>>
  BY DEF EnterFrame
<1>2. /\ calls # <<>> /\ type # "top" /\ Call.fn = "frame" /\ Call.pc \in FrameKinds
      /\ Pushed(Call) = 0 /\ ~IsSwapped(Call) /\ NoFlow(frames)
  BY <1>1, FrameCallFacts
<1>3. PICK t : t = [Call EXCEPT !.fn = "body"]
  OBVIOUS
<1>4. Call \in Activation
  BY <1>2, Top
<1>5. /\ t \in Activation /\ NodeOK(t) /\ t.frame = Call.frame /\ t.fn = "body"
      /\ Pushed(t) = 1 /\ ~IsSwapped(t)
  <2>1. /\ t \in Activation /\ t.frame = Call.frame /\ t.fn = "body" /\ t.pc = Call.pc
    BY <1>3, <1>4 DEF Activation, Fns
  <2> QED
    BY <1>2, <2>1 DEF NodeOK, Pushed, IsSwapped
<1>6. calls' = [calls EXCEPT ![Len(calls)] = t]
  BY <1>1, <1>3 DEF Call
<1>7. Process(frames', stores', calls') /\ Call' = t
  BY <1>1, <1>2, <1>5, <1>6, ProcessPushed DEF Call
<1>8. ~PolicyOf[type].terminates
  BY <1>1, <1>2, Policies
<1>9. Len(forked) \in Nat /\ ForksOK(frames, forked, Len(forked)) /\ WaitingOK(forked)
  BY DEF IInv, RestOK
<1>10. FlowIsPickedUp' /\ ForksOK(frames', forked, Len(forked))
  BY <1>1, <1>2, <1>8, <1>9, PushedQuietly
<1>11. RestOK'
  BY <1>1 DEF IInv, RestOK
<1>12. ResultReady'
  BY <1>5, <1>7 DEF ResultReady
<1> QED
  BY <1>1, <1>7, <1>9, <1>10, <1>11, <1>12 DEF IInv

LEMMA ResultsMade ==
    /\ \A s \in Status : Exit(s) \in Results
    /\ Error \in Results
    /\ \A b \in BOOLEAN : Impl(b) \in Results
    /\ \A r \in Results : ListResult(r) \in Results
    /\ \A b \in BOOLEAN, s \in Status : EvalResult(b, s) \in Results
    /\ R(FALSE, TRUE, 1, "normal", 0) \in Results
<1>1. {0, 1} \subseteq Status /\ "normal" \in Flows /\ 0 \in Nat
  BY DEF Status, Flows
<1>2. \A o \in BOOLEAN, h \in BOOLEAN, s \in Status : R(o, h, s, "normal", 0) \in Results
  BY <1>1 DEF R, Results
<1>3. \A r \in Results : r.ok \in BOOLEAN /\ r.has \in BOOLEAN /\ r.exit \in Status
  BY DEF Results
<1>4. \A r \in Results : (IF r.has THEN r.exit ELSE 0) \in Status
  BY <1>1, <1>3
<1>5. \A b \in BOOLEAN, s \in Status : (IF ~b /\ s = 0 THEN 1 ELSE s) \in Status
  BY <1>1
<1> QED
  BY <1>1, <1>2, <1>3, <1>4, <1>5 DEF Exit, Error, Impl, ListResult, EvalResult

LEMMA ForkFailsKeeps ==
    ASSUME IInv, ForkFails
    PROVE  IInv'
<1>1. PICK type \in Types : FrameCall(type)
  BY DEF ForkFails
<1>2. Call.fn = "frame" /\ Pushed(Call) = 0 /\ Len(calls) > 1
  BY <1>1, FrameCallFacts
<1>3. Return(Exit(1)) /\ UNCHANGED <<frames, stores, forked, lastExit, lines, ended>>
  BY DEF ForkFails
<1>4. Exit(1) \in Results
  BY ResultsMade DEF Status
<1> QED
  BY <1>2, <1>3, <1>4, PlainReturnStep

LEMMA ForkKeeps ==
    ASSUME IInv, Fork
    PROVE  IInv'
<1> DEFINE n == Len(forked)
<1>1. PICK type \in Types : FrameCall(type) /\ PolicyOf[type].forks /\ FramePush(type) /\
         \E e : /\ e = [frames |-> frames, stores |-> stores, calls |-> Front(calls),
                        lastExit |-> lastExit, waits |-> ~PolicyOf[type].background]
               /\ forked' = Append(forked, e)
               /\ calls' = [calls EXCEPT ![Len(calls)] = [@ EXCEPT !.fn = "body"]]
               /\ UNCHANGED <<ret, lastExit, lines, ended>>
  BY DEF Fork
<1>0. PICK e : /\ e = [frames |-> frames, stores |-> stores, calls |-> Front(calls),
                       lastExit |-> lastExit, waits |-> ~PolicyOf[type].background]
              /\ forked' = Append(forked, e)
              /\ calls' = [calls EXCEPT ![Len(calls)] = [@ EXCEPT !.fn = "body"]]
              /\ UNCHANGED <<ret, lastExit, lines, ended>>
  BY <1>1
<1>2. /\ calls # <<>> /\ type # "top" /\ Call.fn = "frame" /\ Call.pc \in FrameKinds
      /\ Pushed(Call) = 0 /\ ~IsSwapped(Call) /\ Len(calls) > 1 /\ NoFlow(frames)
  BY <1>0, <1>1, FrameCallFacts
<1>3. PICK t : t = [Call EXCEPT !.fn = "body"]
  OBVIOUS
<1>4. Call \in Activation
  BY <1>2, Top
<1>5. /\ t \in Activation /\ NodeOK(t) /\ t.frame = Call.frame /\ t.fn = "body"
      /\ Pushed(t) = 1 /\ ~IsSwapped(t)
  <2>1. /\ t \in Activation /\ t.frame = Call.frame /\ t.fn = "body" /\ t.pc = Call.pc
    BY <1>3, <1>4 DEF Activation, Fns
  <2> QED
    BY <1>2, <2>1 DEF NodeOK, Pushed, IsSwapped
<1>6. calls' = [calls EXCEPT ![Len(calls)] = t]
  BY <1>0, <1>1, <1>3 DEF Call
<1>7. Process(frames', stores', calls') /\ Call' = t
  BY <1>0, <1>1, <1>2, <1>5, <1>6, ProcessPushed DEF Call
<1>8. /\ forked \in Seq(Entry) /\ n \in Nat /\ ForksOK(frames, forked, n) /\ WaitingOK(forked)
      /\ lastExit \in Status
  BY DEF IInv, RestOK
<1>9. Process(frames, stores, Front(calls)) /\ Front(calls) # <<>>
  BY <1>2, Here, ProcessReturns DEF Call
<1>10. /\ e.frames = frames /\ e.stores = stores /\ e.calls = Front(calls)
       /\ e.lastExit = lastExit /\ e.waits \in BOOLEAN
  BY <1>0, <1>1
<1>11. e \in Entry
  <2>1. frames \in Seq(FrameRecords) /\ stores \in SUBSET Nat /\ Front(calls) \in Seq(Activation)
    BY <1>9, Here DEF Process, StoresOK, CallsOK
  <2> QED
    BY <1>0, <1>1, <1>8, <1>10, <2>1 DEF Entry
<1>12. /\ forked' \in Seq(Entry) /\ Len(forked') = n + 1 /\ forked'[n + 1] = e
       /\ \A m \in 1 .. n : forked'[m] = forked[m]
  BY <1>0, <1>1, <1>8, <1>11, AppendFacts
<1>13. ForksOK(frames, forked', n) /\ ForksOK(frames, forked', n + 1)
  BY <1>8, <1>12, ForksSame
<1>14. FlowIsPickedUp' /\ ForksOK(frames', forked', n + 1)
  <2>1. n + 1 \in 1 .. n + 1 /\ Len(forked'[n + 1].frames) = Len(frames)
    BY <1>8, <1>10, <1>12
  <2>2. n + 1 \in Nat
    BY <1>8
  <2> QED
    BY <1>0, <1>1, <1>2, <1>13, <2>1, <2>2, PushedQuietly
<1>15. WaitingOK(forked')
  <2> SUFFICES ASSUME NEW m \in 1 .. n + 1
               PROVE  Waiting(forked'[m]) /\ ForksOK(forked'[m].frames, forked', m - 1)
    BY <1>12 DEF WaitingOK
  <2>1. CASE m \in 1 .. n
    <3>1. Waiting(forked[m]) /\ ForksOK(forked[m].frames, forked, m - 1)
      BY <1>8, <2>1 DEF WaitingOK
    <3>2. m - 1 \in Nat /\ \A k \in 1 .. m - 1 : forked'[k] = forked[k]
      BY <1>8, <1>12, <2>1
    <3>3. ForksOK(forked[m].frames, forked', m - 1)
      BY <3>1, <3>2, ForksSame
    <3> QED
      BY <1>12, <2>1, <3>1, <3>3
  <2>2. CASE m = n + 1
    <3>1. Waiting(e)
      BY <1>2, <1>9, <1>10 DEF Waiting
    <3>2. m - 1 = n
      BY <1>8, <2>2
    <3> QED
      BY <1>10, <1>12, <1>13, <2>2, <3>1, <3>2
  <2> QED
    BY <1>8, <2>1, <2>2
<1>16. RestOK'
  BY <1>0, <1>1, <1>12 DEF IInv, RestOK
<1>17. ResultReady'
  BY <1>5, <1>7 DEF ResultReady
<1> QED
  BY <1>7, <1>12, <1>14, <1>15, <1>16, <1>17 DEF IInv

-----------------------------------------------------------------------------
(* A frame is popped.                                                      *)

LEMMA FramePopped ==
    ASSUME IInv, calls # <<>>, Pushed(Call) = 1, NEW s \in Status, FramePop(s), UNCHANGED forked
    PROVE  /\ Len(frames') = Call.frame /\ Len(frames) = Len(frames') + 1
           /\ TypesOK(frames') /\ StoresOK(frames', stores')
           /\ \A i \in 1 .. Len(frames') : /\ frames'[i].saved = frames[i].saved
                                           /\ frames'[i].flow = frames[i].flow
           /\ WaitingOK(forked') /\ ForksOK(frames', forked', Len(forked'))
<1> DEFINE n == Len(frames)
           m == Call.frame
           popped == Front(frames)
<1>1. /\ frames \in Seq(FrameRecords) /\ frames # <<>> /\ n \in Nat \ {0}
      /\ m \in Nat \ {0} /\ n = m + 1 /\ m = n - 1
      /\ Current = frames[n]
  <2>1. /\ frames \in Seq(FrameRecords) /\ frames # <<>> /\ n \in Nat \ {0} /\ Current = frames[n]
    BY Here
  <2>2. m \in Nat \ {0} /\ n = m + 1
    BY Top
  <2> QED
    BY <2>1, <2>2
<1>2. popped \in Seq(FrameRecords) /\ Len(popped) = m /\ \A k \in 1 .. m : popped[k] = frames[k]
  BY <1>1, FrontFacts
<1>3. CallsOK(frames, calls) /\ Settled(frames, calls) /\ TypesOK(frames) /\ StoresOK(frames, stores)
  BY DEF IInv, Process
<1>4. Current.saved = NoStore
  <2>1. Call.fn # "frame"
    BY DEF Pushed
  <2> QED
    BY <1>1, <1>3, <2>1, NothingSaved DEF Call
<1> HIDE DEF m
<1>5. /\ frames' \in Seq(FrameRecords) /\ Len(frames') = m
      /\ \A k \in 1 .. m : /\ SameFrame(frames[k], frames'[k])
                           /\ frames'[k].flow = frames[k].flow
  <2>1. CASE frames' = popped
    BY <1>2, <2>1 DEF SameFrame, SameStores
  <2>2. CASE frames' = [popped EXCEPT ![Len(popped)].last = s]
    <3>1. PICK g : g = [popped[m] EXCEPT !.last = s]
      OBVIOUS
    <3>2. m \in 1 .. m
      BY <1>1
    <3>3. popped[m] \in FrameRecords
      BY <1>2, <3>2, ElementOfSeq
    <3>4. g \in FrameRecords /\ SameFrame(popped[m], g) /\ g.flow = popped[m].flow
      BY <3>1, <3>3 DEF FrameRecords, SameFrame, SameStores
    <3>5. frames' = [popped EXCEPT ![m] = g]
      BY <1>2, <2>2, <3>1
    <3>6. /\ frames' \in Seq(FrameRecords) /\ Len(frames') = m
          /\ \A k \in 1 .. m : frames'[k] = IF k = m THEN g ELSE popped[k]
      BY <1>2, <3>2, <3>4, <3>5, ExceptSeq
    <3>7. \A k \in 1 .. m : SameFrame(popped[k], popped[k])
      BY DEF SameFrame, SameStores
    <3> QED
      BY <1>2, <3>4, <3>6, <3>7
  <2>3. frames' = popped \/ frames' = [popped EXCEPT ![Len(popped)].last = s]
    BY DEF FramePop
  <2> QED
    BY <2>1, <2>2, <2>3
<1> HIDE DEF popped
<1>6. \A k \in 1 .. m : /\ SameStores(frames[k], frames'[k])
                        /\ frames'[k].type = frames[k].type /\ frames'[k].loops = frames[k].loops
                        /\ frames'[k].saved = frames[k].saved
  BY <1>5 DEF SameFrame, SameStores
<1>7. TypesOK(frames')
  BY <1>1, <1>3, <1>5, <1>6, TypesPopped
<1>8. StoresOK(frames', stores')
  <2>1. StoresOK(frames', stores \ OwnStores(frames[n]))
    BY <1>1, <1>3, <1>4, <1>5, <1>6, StoresPopped
  <2> QED
    BY <1>1, <2>1 DEF FramePop
<1>9. WaitingOK(forked') /\ ForksOK(frames', forked', Len(forked'))
  BY <1>1, <1>5, <1>6, NothingWaitsAnew
<1> QED
  BY <1>1, <1>5, <1>6, <1>7, <1>8, <1>9 DEF m

LEMMA PoppedQuietly ==
    ASSUME NoFlow(frames), Len(frames) \in Nat, Len(frames') \in Nat, Len(frames') <= Len(frames),
           \A i \in 1 .. Len(frames') : frames'[i].flow = frames[i].flow
    PROVE  FlowIsPickedUp'
<1>1. \A i \in 1 .. Len(frames') : i \in 1 .. Len(frames)
  OBVIOUS
<1>2. NoFlow(frames')
  BY <1>1 DEF NoFlow
<1> QED
  BY <1>2, NoFlowIsFine

LEMMA EvalPopKeeps ==
    ASSUME IInv, EvalPop
    PROVE  IInv'
<1> DEFINE n == Len(calls)
<1>1. /\ calls # <<>> /\ Call.fn = "simple" /\ Call.pc = "eval" /\ FramePop(Current.last)
      /\ calls' = [calls EXCEPT ![n].pc = "call"]
      /\ UNCHANGED <<ret, forked, lastExit, lines, ended>>
  BY DEF EvalPop, At, Goto
<1>2. Pushed(Call) = 1 /\ IsSwapped(Call)
  BY <1>1 DEF Pushed, IsSwapped, Swapped
<1>3. Current.last \in Status
  BY Here DEF FrameRecords
<1>4. /\ Len(frames') = Call.frame /\ Len(frames) = Len(frames') + 1
      /\ TypesOK(frames') /\ StoresOK(frames', stores')
      /\ \A i \in 1 .. Len(frames') : /\ frames'[i].saved = frames[i].saved
                                      /\ frames'[i].flow = frames[i].flow
      /\ WaitingOK(forked') /\ ForksOK(frames', forked', Len(forked'))
  BY <1>1, <1>2, <1>3, FramePopped
<1>5. PICK t : t = [Call EXCEPT !.pc = "call"]
  OBVIOUS
<1>6. Call \in Activation /\ Call = calls[n] /\ n \in Nat \ {0} /\ n \in 1 .. n /\ Call.frame \in Nat
  BY <1>1, Top
<1>7. t \in Activation /\ t.fn = "simple" /\ t.pc = "call" /\ t.frame = Call.frame
  BY <1>1, <1>5, <1>6, MovedOn DEF Pcs
<1>8. NodeOK(t) /\ Pushed(t) = 0 /\ IsSwapped(t)
  BY <1>7 DEF NodeOK, Pushed, IsSwapped, Swapped
<1>9. calls' = [calls EXCEPT ![n] = t]
  BY <1>1, <1>5 DEF Call
<1>10. CallsOK(frames, calls) /\ Settled(frames, calls) /\ Len(frames') = t.frame + Pushed(t)
  BY <1>4, <1>6, <1>7, <1>8 DEF IInv, Process
<1> DEFINE es == [calls EXCEPT ![n] = t]
<1>11. t.frame = calls[n].frame /\ t.fn = calls[n].fn
  BY <1>1, <1>6, <1>7
<1>12. CallsOK(frames', es)
  BY <1>1, <1>7, <1>8, <1>10, <1>11, RelabelKeeps
<1>13. Len(es) = n
  BY <1>1, <1>7, <1>8, <1>10, <1>11, RelabelKeeps
<1>14. \A k \in 1 .. n : es[k] = IF k = n THEN t ELSE calls[k]
  BY <1>1, <1>7, <1>8, <1>10, <1>11, RelabelKeeps
<1> HIDE DEF es
<1>15. calls' = es
  BY <1>9 DEF es
<1>16. CallsOK(frames', calls')
  BY <1>12, <1>15
<1>17. Len(calls') = n /\ \A k \in 1 .. n : calls'[k] = IF k = n THEN t ELSE calls[k]
  BY <1>13, <1>14, <1>15
<1>18. Settled(frames', calls')
  <2>1. \A k \in 1 .. n : calls'[k].frame = calls[k].frame /\ (IsSwapped(calls'[k]) <=> IsSwapped(calls[k]))
    BY <1>2, <1>6, <1>7, <1>8, <1>17
  <2>2. Settled(frames, calls')
    BY <1>6, <1>10, <1>17, <2>1, SettledStep
  <2>3. Len(frames') \in Nat /\ \A i \in 1 .. Len(frames') : i \in 1 .. Len(frames)
    BY <1>4, <1>6
  <2> QED
    BY <1>4, <2>2, <2>3 DEF Settled
<1>19. FlowIsPickedUp'
  <2>1. NoFlow(frames)
    BY <1>1, Quiet
  <2>2. Len(frames) \in Nat /\ Len(frames') \in Nat /\ Len(frames') <= Len(frames)
    BY <1>4, <1>6
  <2> QED
    BY <1>4, <2>1, <2>2, PoppedQuietly
<1>20. RestOK'
  BY <1>1 DEF IInv, RestOK
<1>21. ResultReady'
  <2>1. Call' = t
    BY <1>6, <1>17 DEF Call
  <2> QED
    BY <1>7, <2>1 DEF ResultReady
<1> QED
  BY <1>4, <1>16, <1>18, <1>19, <1>20, <1>21 DEF IInv, Process

LEMMA HandleControlFlowIs ==
    ASSUME NEW type \in Types, NEW r \in Results
    PROVE  HandleControlFlow(type, r) \in Results
<1>1. /\ PolicyOf[type].return \in {"target", "transparent", "disallowed"}
      /\ PolicyOf[type].loop \in {"target", "transparent", "disallowed"}
  BY DEF Types, PolicyOf, Policy, TopLevel, Subshell, BraceGroup, Function, Loop, BackgroundJob,
         Pipeline, Eval
<1>2. /\ r.ok \in BOOLEAN /\ r.has \in BOOLEAN /\ r.exit \in Status /\ r.flow \in Flows
      /\ r.depth \in Nat
  BY DEF Results
<1>3. /\ R(TRUE, TRUE, 1, "normal", 0) \in Results /\ Exit(r.exit) \in Results
      /\ R(TRUE, r.has, r.exit, "normal", 0) \in Results
      /\ R(TRUE, TRUE, 0, "continue", 0) \in Results
  <2>1. {0, 1} \subseteq Status /\ {"normal", "continue"} \subseteq Flows /\ 0 \in Nat
    BY DEF Status, Flows
  <2> QED
    BY <1>2, <2>1 DEF R, Results, Exit
<1>4. r.depth > 1 => [r EXCEPT !.depth = @ - 1] \in Results
  <2> SUFFICES ASSUME r.depth > 1
               PROVE  [r EXCEPT !.depth = @ - 1] \in Results
    OBVIOUS
  <2>1. r.depth - 1 \in Nat
    BY <1>2
  <2> QED
    BY <2>1 DEF Results
<1>5. CASE r.flow = "normal"
  BY <1>5 DEF HandleControlFlow
<1>6. CASE r.flow = "return"
  BY <1>1, <1>3, <1>6 DEF HandleControlFlow
<1>7. CASE r.flow \in {"break", "continue"}
  <2>1. r.depth > 1 \/ r.depth <= 1
    BY <1>2
  <2> QED
    BY <1>1, <1>3, <1>4, <1>7, <2>1 DEF HandleControlFlow
<1> QED
  BY <1>2, <1>5, <1>6, <1>7 DEF Flows

LEMMA LeaveFrameKeeps ==
    ASSUME IInv, LeaveFrame
    PROVE  IInv'
<1>1. calls # <<>> /\ ret # None /\ Call.fn = "body" /\ UNCHANGED <<lines, ended>>
  BY DEF LeaveFrame
<1>2. ret \in Results /\ lastExit \in Status /\ lines \in 0 .. MaxLines /\ ended \in {"no", "exit", "abort"}
      /\ forked \in Seq(Entry) /\ WaitingOK(forked) /\ ForksOK(frames, forked, Len(forked))
  BY <1>1 DEF IInv, RestOK
<1>0. PICK r \in Negations(Call.pc, ret) : \E res :
         /\ res = HandleControlFlow(Current.type, r)
         /\ \/ /\ PolicyOf[Current.type].terminates
               /\ frames' = forked[Len(forked)].frames
               /\ stores' = forked[Len(forked)].stores
               /\ calls' = forked[Len(forked)].calls
               /\ lastExit' = forked[Len(forked)].lastExit
               /\ forked' = Front(forked)
               /\ ret' = Exit(IF forked[Len(forked)].waits THEN res.exit ELSE 0)
            \/ /\ FramePop(res.exit) /\ Return(res)
               /\ UNCHANGED <<forked, lastExit>>
  BY DEF LeaveFrame
<1>3. PICK res :
         /\ res = HandleControlFlow(Current.type, r)
         /\ \/ /\ PolicyOf[Current.type].terminates
               /\ frames' = forked[Len(forked)].frames
               /\ stores' = forked[Len(forked)].stores
               /\ calls' = forked[Len(forked)].calls
               /\ lastExit' = forked[Len(forked)].lastExit
               /\ forked' = Front(forked)
               /\ ret' = Exit(IF forked[Len(forked)].waits THEN res.exit ELSE 0)
            \/ /\ FramePop(res.exit) /\ Return(res)
               /\ UNCHANGED <<forked, lastExit>>
  BY <1>0
<1>4. r \in Results
  <2>1. [ret EXCEPT !.exit = 1 - @] \in Results
    <3>1. 1 - ret.exit \in Status
      BY <1>2 DEF Results, Status
    <3> QED
      BY <1>2, <3>1 DEF Results
  <2> QED
    BY <1>0, <1>2, <2>1 DEF Negations
<1>5. res \in Results
  <2>1. Current.type \in Types
    BY Here DEF FrameRecords
  <2> QED
    BY <1>0, <1>3, <1>4, <2>1, HandleControlFlowIs
<1>6. res.exit \in Status
  BY <1>5 DEF Results
<1>7. Pushed(Call) = 1 /\ ~IsSwapped(Call) /\ NoFlow(frames)
  BY <1>1, Quiet DEF Pushed, IsSwapped
<1>8. /\ Call = calls[Len(calls)] /\ Len(calls) \in Nat \ {0} /\ Len(calls) # 1
      /\ Call.frame \in Nat \ {0} /\ Len(frames) = Call.frame + 1
  BY <1>1, <1>7, Top
<1>9. ASSUME FramePop(res.exit), Return(res), UNCHANGED <<forked, lastExit>>
      PROVE  IInv'
  <2>1. /\ Len(frames') = Call.frame /\ Len(frames) = Len(frames') + 1
        /\ TypesOK(frames') /\ StoresOK(frames', stores')
        /\ \A i \in 1 .. Len(frames') : /\ frames'[i].saved = frames[i].saved
                                        /\ frames'[i].flow = frames[i].flow
        /\ WaitingOK(forked') /\ ForksOK(frames', forked', Len(forked'))
    BY <1>1, <1>6, <1>7, <1>9, FramePopped
  <2>2. CallsOK(frames, calls) /\ Settled(frames, calls) /\ calls \in Seq(Activation)
    BY DEF IInv, Process, CallsOK
  <2>3. CallsOK(frames', calls')
    <3>1. PICK n \in Nat \ {0} : n = Len(calls)
      BY <1>8
    <3>2. n > 1
      BY <1>8, <3>1
    <3>3. Len(frames') = calls[Len(calls)].frame
      BY <1>8, <2>1
    <3> QED
      BY <1>9, <2>2, <3>1, <3>2, <3>3, ReturnKeeps DEF Return
  <2>4. Settled(frames', calls')
    <3>1. Settled(frames, calls')
      BY <1>1, <1>7, <1>8, <1>9, <2>2, SettledReturn DEF Return
    <3>2. Len(frames') \in Nat /\ \A i \in 1 .. Len(frames') : i \in 1 .. Len(frames)
      BY <1>8, <2>1
    <3> QED
      BY <2>1, <3>1, <3>2 DEF Settled
  <2>5. FlowIsPickedUp'
    <3>1. Len(frames) \in Nat /\ Len(frames') \in Nat /\ Len(frames') <= Len(frames)
      BY <1>8, <2>1
    <3> QED
      BY <1>7, <2>1, <3>1, PoppedQuietly
  <2>6. RestOK'
    BY <1>1, <1>2, <1>5, <1>9 DEF RestOK, Return
  <2>7. ResultReady'
    BY <1>5, <1>9 DEF ResultReady, Return
  <2> QED
    BY <2>1, <2>3, <2>4, <2>5, <2>6, <2>7 DEF IInv, Process
<1>10. ASSUME PolicyOf[Current.type].terminates,
              frames' = forked[Len(forked)].frames, stores' = forked[Len(forked)].stores,
              calls' = forked[Len(forked)].calls, lastExit' = forked[Len(forked)].lastExit,
              forked' = Front(forked),
              ret' = Exit(IF forked[Len(forked)].waits THEN res.exit ELSE 0)
       PROVE  IInv'
  <2> DEFINE n == Len(forked)
             m == n - 1
  <2>1. PICK k \in 1 .. n : TRUE
    <3>1. Len(frames) \in 2 .. Len(frames) /\ Current = frames[Len(frames)]
      BY <1>8, Here
    <3>2. PolicyOf[frames[Len(frames)].type].terminates
      BY <1>10, <3>1
    <3>3. \E k \in 1 .. n : Len(forked[k].frames) = Len(frames) - 1
      BY <1>2, <3>1, <3>2 DEF ForksOK
    <3> QED
      BY <3>3
  <2>2. n \in Nat \ {0} /\ n \in 1 .. n /\ forked # <<>>
    <3>1. n \in Nat
      BY <1>2
    <3>2. n # 0
      BY <2>1, <3>1
    <3> QED
      BY <1>2, <3>1, <3>2, EmptySeq
  <2>3. /\ forked' \in Seq(Entry) /\ Len(forked') = m
        /\ \A j \in 1 .. m : forked'[j] = forked[j]
    BY <1>2, <1>10, <2>2, FrontFacts
  <2>4. Waiting(forked[n]) /\ ForksOK(forked[n].frames, forked, m) /\ m \in Nat
    BY <1>2, <2>2 DEF WaitingOK
  <2>5. Process(frames', stores', calls') /\ NoFlow(frames')
    BY <1>10, <2>4 DEF Waiting
  <2>6. ForksOK(frames', forked', Len(forked'))
    <3>1. ForksOK(forked[n].frames, forked', m)
      BY SMTT(30), <2>3, <2>4, ForksSame
    <3> QED
      BY <1>10, <2>3, <3>1
  <2>7. WaitingOK(forked')
    <3> SUFFICES ASSUME NEW j \in 1 .. m
                 PROVE  Waiting(forked'[j]) /\ ForksOK(forked'[j].frames, forked', j - 1)
      BY <2>3 DEF WaitingOK
    <3>1. j \in 1 .. n /\ j - 1 \in Nat /\ \A i \in 1 .. j - 1 : i \in 1 .. m
      BY <2>2
    <3>2. Waiting(forked[j]) /\ ForksOK(forked[j].frames, forked, j - 1)
      BY <1>2, <3>1 DEF WaitingOK
    <3>3. \A i \in 1 .. j - 1 : forked'[i] = forked[i]
      BY <2>3, <3>1
    <3>4. ForksOK(forked[j].frames, forked', j - 1)
      BY <3>1, <3>2, <3>3, ForksSame
    <3> QED
      BY <2>3, <3>2, <3>4
  <2>8. RestOK' /\ ret' \in Results
    <3>1. forked[n] \in Entry
      BY <1>2, <2>2, ElementOfSeq
    <3>2. lastExit' \in Status
      BY <1>10, <3>1 DEF Entry
    <3>3. (IF forked[n].waits THEN res.exit ELSE 0) \in Status
      BY <1>6 DEF Status
    <3>4. ret' \in Results
      BY <1>10, <3>3, ResultsMade
    <3> QED
      BY <1>1, <1>2, <2>3, <3>2, <3>4 DEF RestOK
  <2>9. FlowIsPickedUp'
    BY <2>5, NoFlowIsFine
  <2>10. ResultReady'
    BY <2>8 DEF ResultReady
  <2> QED
    BY <2>5, <2>6, <2>7, <2>8, <2>9, <2>10 DEF IInv
<1> QED
  BY <1>3, <1>9, <1>10

-----------------------------------------------------------------------------
(* A simple command.                                                       *)

\* A simple command is where it was called, in its own frame.
LEMMA SimpleFacts ==
    ASSUME IInv, NEW pc, At("simple", pc)
    PROVE  /\ calls # <<>> /\ ended = "no" /\ Call.fn = "simple" /\ Call.pc = pc
           /\ Call \in Activation /\ Call = calls[Len(calls)] /\ Len(calls) # 1
           /\ Len(calls) \in Nat \ {0} /\ Len(calls) \in 1 .. Len(calls)
           /\ pc # "eval" => Pushed(Call) = 0 /\ Len(frames) = Call.frame
           /\ IsSwapped(Call) <=> pc \in Swapped
<1>1. calls # <<>> /\ ended = "no" /\ Call.fn = "simple" /\ Call.pc = pc
  BY DEF At
<1>2. /\ Call \in Activation /\ Call = calls[Len(calls)] /\ Len(calls) \in Nat \ {0}
      /\ Len(calls) \in 1 .. Len(calls)
      /\ Call.frame \in Nat \ {0} /\ Len(frames) = Call.frame + Pushed(Call)
      /\ Len(calls) = 1 => Call.fn = "string"
  BY <1>1, Top
<1>3. pc # "eval" => Pushed(Call) = 0
  BY <1>1 DEF Pushed
<1>4. pc # "eval" => Len(frames) = Call.frame
  BY <1>2, <1>3
<1>5. IsSwapped(Call) <=> pc \in Swapped
  BY <1>1 DEF IsSwapped
<1>6. Len(calls) # 1
  BY <1>1, <1>2
<1> QED
  BY <1>1, <1>2, <1>3, <1>4, <1>5, <1>6

\* A step of it that keeps a temporary store where it is.
LEMMA SimpleStaysIn ==
    ASSUME IInv, NEW pc, At("simple", pc), pc # "eval", NEW x \in Pcs, x # "eval",
           pc \in Swapped <=> x \in Swapped, NEW t, t = [Call EXCEPT !.pc = x]
    PROVE  StaysIn(t) /\ t.fn = "simple" /\ t.pc = x
<1>1. Call \in Activation /\ Call.fn = "simple" /\ Pushed(Call) = 0 /\ (IsSwapped(Call) <=> pc \in Swapped)
  BY SimpleFacts
<1>2. t \in Activation /\ t.fn = "simple" /\ t.pc = x /\ t.frame = Call.frame
  BY <1>1, MovedOn
<1>3. NodeOK(t) /\ Pushed(t) = 0 /\ (IsSwapped(t) <=> x \in Swapped)
  BY <1>2 DEF NodeOK, Pushed, IsSwapped
<1> QED
  BY <1>1, <1>2, <1>3 DEF StaysIn

LEMMA RanKeeps ==
    ASSUME IInv, NEW pc, At("simple", pc), pc \in {"run", "call"},
           NEW ok \in BOOLEAN, NEW s \in Status, NEW flow \in Flows, NEW depth \in Nat,
           Ran(ok, s, flow, depth), UNCHANGED ended
    PROVE  IInv'
<1>1. calls # <<>> /\ Call = calls[Len(calls)]
  BY SimpleFacts
<1>2. PICK t : t = [Call EXCEPT !.pc = "restore"]
  OBVIOUS
<1>3. StaysIn(t) /\ t.fn = "simple" /\ t.pc = "restore"
  BY <1>2, SimpleStaysIn DEF Pcs, Swapped
<1>4. calls' = [calls EXCEPT ![Len(calls)] = t]
  BY <1>2 DEF Ran, Goto, Call
<1>5. PICK g : g = [Current EXCEPT !.last = s, !.flow = flow, !.depth = depth]
  OBVIOUS
<1>6. g \in FrameRecords /\ SameFrame(Current, g)
  <2>1. Current \in FrameRecords
    BY Here
  <2> QED
    BY <1>5, <2>1 DEF FrameRecords, SameFrame, SameStores
<1>7. frames' = [frames EXCEPT ![Len(frames)] = g]
  BY <1>5 DEF Ran, Current
<1>8. ret' \in Results
  BY ResultsMade DEF Ran
<1>9. UNCHANGED <<stores, forked, lastExit, lines, ended>>
  BY DEF Ran
<1> QED
  BY <1>1, <1>3, <1>4, <1>6, <1>7, <1>8, <1>9, OnStep

LEMMA RunningKeeps ==
    ASSUME IInv, Run \/ RunFails \/ Break \/ Continue \/ DoReturn \/ CallEnd
    PROVE  IInv'
<1>1. /\ Current.flow \in Flows /\ Current.depth \in Nat /\ Current.last \in Status
      /\ {0, 1} \subseteq Status /\ {"break", "continue", "return"} \subseteq Flows
      /\ Depths \subseteq Nat /\ 0 \in Nat
  <2>1. Current \in FrameRecords
    BY Here
  <2> QED
    BY <2>1 DEF FrameRecords, Status, Flows, Depths
<1>2. CASE Run
  <2>1. PICK s \in Status : Ran(TRUE, s, Current.flow, Current.depth)
    BY <1>2 DEF Run
  <2> QED
    BY <1>1, <1>2, <2>1, RanKeeps DEF Run
<1>3. CASE RunFails
  <2>1. PICK s \in {0, Current.last} : Ran(FALSE, s, Current.flow, Current.depth)
    BY <1>3 DEF RunFails
  <2> QED
    BY <1>1, <1>3, <2>1, RanKeeps DEF RunFails
<1>4. CASE Break
  <2>1. PICK d \in Depths : Ran(TRUE, 0, "break", d)
    BY <1>4 DEF Break
  <2> QED
    BY <1>1, <1>4, <2>1, RanKeeps DEF Break
<1>5. CASE Continue
  <2>1. PICK d \in Depths : Ran(TRUE, 0, "continue", d)
    BY <1>5 DEF Continue
  <2> QED
    BY <1>1, <1>5, <2>1, RanKeeps DEF Continue
<1>6. CASE DoReturn
  <2>1. PICK s \in Status : Ran(TRUE, s, "return", 0) \/ Ran(TRUE, s, Current.flow, Current.depth)
    BY <1>1, <1>6 DEF DoReturn
  <2> QED
    BY <1>1, <1>6, <2>1, RanKeeps DEF DoReturn
<1>7. CASE CallEnd
  <2>1. ret.exit \in Status
    BY <1>7 DEF IInv, RestOK, Results, CallEnd
  <2>2. At("simple", "call") /\ Ran(TRUE, ret.exit, Current.flow, Current.depth) /\ UNCHANGED ended
    BY <1>7 DEF CallEnd
  <2> QED
    BY <1>1, <2>1, <2>2, RanKeeps
<1> QED
  BY <1>2, <1>3, <1>4, <1>5, <1>6, <1>7

LEMMA EndsKeeps ==
    ASSUME IInv, ended' \in {"no", "exit", "abort"},
           UNCHANGED <<frames, stores, calls, ret, forked, lastExit, lines>>
    PROVE  IInv'
<1>1. Call' = Call
  BY DEF Call
<1>2. FlowIsPickedUp'
  BY <1>1 DEF IInv, FlowIsPickedUp
<1>3. ResultReady'
  BY <1>1 DEF IInv, ResultReady
<1> QED
  BY <1>2, <1>3 DEF IInv, RestOK

LEMMA DoExitKeeps ==
    ASSUME IInv, DoExit
    PROVE  IInv'
<1>1. CASE Len(frames) = 1
  BY <1>1, EndsKeeps DEF DoExit
<1>2. CASE Len(frames) # 1
  <2>1. PICK s \in Status : Ran(TRUE, s, "return", 0) /\ UNCHANGED ended
    BY <1>2 DEF DoExit
  <2>2. At("simple", "run") /\ "return" \in Flows /\ 0 \in Nat
    BY DEF DoExit, Flows
  <2> QED
    BY <2>1, <2>2, RanKeeps
<1> QED
  BY <1>1, <1>2

LEMMA CallFunctionKeeps ==
    ASSUME IInv, CallFunction
    PROVE  IInv'
<1>1. /\ At("simple", "run") /\ Invoke("call", Act("frame", "function", 0))
      /\ UNCHANGED <<frames, stores, forked, lastExit, lines, ended>>
  BY DEF CallFunction
<1>2. calls # <<>> /\ Call.fn = "simple" /\ Call.pc = "run"
  BY <1>1, SimpleFacts
<1>3. PICK a : a = Act("frame", "function", 0)
  OBVIOUS
<1>4. Callable(a) /\ a.fn = "frame"
  <2>1. Len(frames) \in Nat
    BY Here
  <2> QED
    BY <1>3, <2>1 DEF Act, Callable, Activation, Fns, Pcs, FrameKinds, NodeOK, Pushed, IsSwapped
<1>5. StaysIn([Call EXCEPT !.pc = "call"]) /\ "call" \in Pcs
  BY <1>1, SimpleStaysIn DEF Pcs, Swapped
<1> QED
  BY <1>1, <1>2, <1>3, <1>4, <1>5, InvokeStep

LEMMA PickUpFlowKeeps ==
    ASSUME IInv, PickUpFlow
    PROVE  IInv'
<1>1. /\ At("simple", "done")
      /\ frames' = [frames EXCEPT ![Len(frames)].flow = "normal", ![Len(frames)].depth = 0]
      /\ Return([ret EXCEPT !.flow = Current.flow, !.depth = Current.depth])
      /\ UNCHANGED <<stores, forked, lastExit, lines, ended>>
  BY DEF PickUpFlow
<1>2. PICK g : g = [Current EXCEPT !.flow = "normal", !.depth = 0]
  OBVIOUS
<1>3. Current \in FrameRecords
  BY Here
<1>4. g \in FrameRecords /\ SameFrame(Current, g) /\ g.flow = "normal"
  BY <1>2, <1>3 DEF FrameRecords, SameFrame, SameStores, Flows
<1>5. frames' = [frames EXCEPT ![Len(frames)] = g]
  BY <1>1, <1>2 DEF Current
<1>6. PICK r : r = [ret EXCEPT !.flow = Current.flow, !.depth = Current.depth]
  OBVIOUS
<1>7. calls # <<>> /\ Call.fn = "simple" /\ Call.pc = "done" /\ Pushed(Call) = 0 /\ ~IsSwapped(Call)
  BY <1>1, SimpleFacts DEF Swapped
<1>8. r \in Results
  <2>1. ret \in Results
    BY <1>7 DEF IInv, ResultReady
  <2>2. Current.flow \in Flows /\ Current.depth \in Nat
    BY <1>3 DEF FrameRecords
  <2> QED
    BY <1>6, <2>1, <2>2 DEF Results
<1>9. PICK n \in Nat \ {0} : n = Len(calls) /\ n # 1
  BY <1>1, SimpleFacts
<1>10. n > 1
  BY <1>9
<1>11. lastExit' \in Status /\ UNCHANGED <<stores, forked, lines, ended>>
  BY <1>1 DEF IInv, RestOK
<1>12. Return(r)
  BY <1>1, <1>6
<1> QED
  BY <1>4, <1>5, <1>7, <1>8, <1>9, <1>10, <1>11, <1>12, ReturnStep

\* The two swaps of a simple command: its frame holds a temporary store between them.
LEMMA SwapKeeps ==
    ASSUME IInv, NEW pc \in {"start", "restore"}, At("simple", pc),
           Goto(IF pc = "start" THEN "run" ELSE "done"),
           NEW g \in FrameRecords, frames' = [frames EXCEPT ![Len(frames)] = g],
           g.type = Current.type, g.loops = Current.loops, g.flow = Current.flow,
           g.saved # NoStore <=> pc = "start", StoresOK(frames', stores'),
           UNCHANGED <<ret, forked, lastExit, lines, ended>>
    PROVE  IInv'
<1> DEFINE n == Len(calls)
           m == Len(frames)
<1>1. PICK x \in Pcs : x = IF pc = "start" THEN "run" ELSE "done"
  BY DEF Pcs
<1>2. PICK t : t = [Call EXCEPT !.pc = x]
  OBVIOUS
<1>3. /\ Call \in Activation /\ Call = calls[n] /\ n \in Nat \ {0} /\ n \in 1 .. n /\ calls # <<>>
      /\ Call.fn = "simple" /\ Call.pc = pc
      /\ Pushed(Call) = 0 /\ m = Call.frame /\ (IsSwapped(Call) <=> pc = "restore")
  BY SimpleFacts DEF Swapped
<1>4. t \in Activation /\ t.fn = "simple" /\ t.pc = x /\ t.frame = Call.frame
  BY <1>2, <1>3, MovedOn
<1>5. NodeOK(t) /\ Pushed(t) = 0 /\ (IsSwapped(t) <=> pc = "start")
  BY <1>1, <1>4 DEF NodeOK, Pushed, IsSwapped, Swapped
<1>6. /\ frames' \in Seq(FrameRecords) /\ Len(frames') = m /\ m \in Nat \ {0} /\ frames[m] = Current
      /\ \A i \in 1 .. m : frames'[i] = IF i = m THEN g ELSE frames[i]
  BY FrameChanged, Here
<1>7. CallsOK(frames, calls) /\ TypesOK(frames) /\ Settled(frames, calls)
  BY DEF IInv, Process
<1> DEFINE es == [calls EXCEPT ![n] = t]
<1>8. t.frame = calls[n].frame /\ t.fn = calls[n].fn /\ Len(frames') = t.frame + Pushed(t)
  BY <1>3, <1>4, <1>5, <1>6
<1>9. CallsOK(frames', es)
  BY <1>3, <1>4, <1>5, <1>7, <1>8, RelabelKeeps
<1>10. Len(es) = n
  BY <1>3, <1>4, <1>5, <1>7, <1>8, RelabelKeeps
<1>11. \A k \in 1 .. n : es[k] = IF k = n THEN t ELSE calls[k]
  BY <1>3, <1>4, <1>5, <1>7, <1>8, RelabelKeeps
<1> HIDE DEF es
<1>12. calls' = es
  <2>1. calls' = [calls EXCEPT ![n] = t]
    BY <1>1, <1>2 DEF Goto, Call
  <2> QED
    BY <2>1 DEF es
<1>13. TypesOK(frames')
  <2>1. \A i \in 1 .. m : frames'[i].type = frames[i].type /\ frames'[i].loops = frames[i].loops
    BY <1>6
  <2> QED
    BY <1>6, <1>7, <2>1, TypesUnchanged
<1>14. ASSUME NEW i \in 1 .. m
       PROVE  frames'[i].saved # NoStore <=> \E k \in 1 .. n : IsSwapped(es[k]) /\ es[k].frame = i
  <2>1. \A k \in 1 .. n : k # n => es[k] = calls[k]
    BY <1>11
  <2>2. es[n] = t
    BY <1>3, <1>11
  <2>3. CASE i = m
    <3>1. \A k \in 1 .. n : k # n /\ IsSwapped(calls[k]) => calls[k].frame < m
      <4>1. calls[n].fn # "frame"
        BY <1>3
      <4> QED
        BY <1>3, <1>7, <4>1, OuterSwapped
    <3>2. \A k \in 1 .. n : calls[k].frame < m => calls[k].frame # m
      <4>1. \A k \in 1 .. n : calls[k].frame \in Nat
        BY <1>3, <1>7, OuterSwapped
      <4> QED
        BY <1>6, <4>1
    <3>3. (\E k \in 1 .. n : IsSwapped(es[k]) /\ es[k].frame = i) <=> pc = "start"
      <4>1. \A k \in 1 .. n : k # n => ~(IsSwapped(es[k]) /\ es[k].frame = i)
        BY <2>1, <2>3, <3>1, <3>2
      <4>2. IsSwapped(es[n]) /\ es[n].frame = i <=> pc = "start"
        BY <1>3, <1>4, <1>5, <2>2, <2>3
      <4> QED
        BY <1>3, <4>1, <4>2
    <3> QED
      BY <1>6, <2>3, <3>3
  <2>4. CASE i # m
    <3>1. frames[i].saved # NoStore <=> \E k \in 1 .. n : IsSwapped(calls[k]) /\ calls[k].frame = i
      BY <1>7 DEF Settled
    <3>2. es[n].frame # i /\ calls[n].frame # i
      BY <1>3, <1>4, <2>2, <2>4
    <3>3. (\E k \in 1 .. n : IsSwapped(calls[k]) /\ calls[k].frame = i) <=>
             (\E k \in 1 .. n : IsSwapped(es[k]) /\ es[k].frame = i)
      BY <2>1, <3>2
    <3> QED
      BY <1>6, <2>4, <3>1, <3>3
  <2> QED
    BY <2>3, <2>4
<1>15. Settled(frames', es)
  BY <1>6, <1>10, <1>14 DEF Settled
<1>16. Process(frames', stores', calls')
  BY <1>9, <1>12, <1>13, <1>15 DEF Process
<1>17. Call' = t /\ calls' # <<>>
  <2>1. es # <<>>
    BY <1>3, <1>10, EmptySeq
  <2>2. es[Len(es)] = t
    BY <1>3, <1>10, <1>11
  <2> QED
    BY <1>12, <2>1, <2>2 DEF Call
<1>18. FlowIsPickedUp'
  <2>1. \A i \in 1 .. m : frames'[i].flow = frames[i].flow
    BY <1>6
  <2>2. \A i \in 1 .. m : frames[i].flow # "normal" => i = m /\ Call.pc \in {"restore", "done"}
    BY DEF IInv, FlowIsPickedUp
  <2> QED
    BY <1>1, <1>3, <1>4, <1>6, <1>17, <2>1, <2>2 DEF FlowIsPickedUp
<1>19. ResultReady'
  <2>1. pc = "restore" => ret \in Results
    BY <1>3 DEF IInv, ResultReady
  <2> QED
    BY <1>1, <1>4, <1>17, <2>1 DEF ResultReady
<1>20. WaitingOK(forked') /\ ForksOK(frames', forked', Len(forked'))
  <2>1. \A i \in 1 .. Len(frames') : frames'[i].type = frames[i].type
    BY <1>6
  <2>2. PICK k \in Nat : k = Len(frames) /\ k = Len(frames')
    BY <1>6
  <2>3. Len(frames') \in Nat /\ Len(frames') <= Len(frames)
    BY <2>2
  <2> QED
    BY <2>1, <2>3, NothingWaitsAnew
<1>21. RestOK'
  BY DEF IInv, RestOK
<1> QED
  BY <1>16, <1>18, <1>19, <1>20, <1>21 DEF IInv

LEMMA SwapStoreKeeps ==
    ASSUME IInv, SwapStore
    PROVE  IInv'
<1> DEFINE m == Len(frames)
<1>1. PICK temp :
         /\ temp = Fresh(1, stores)[1] /\ At("simple", "start") /\ Goto("run")
         /\ frames' = [frames EXCEPT ![m].saved = Current.vars, ![m].vars = temp]
         /\ stores' = stores \cup {temp}
         /\ UNCHANGED <<ret, forked, lastExit, lines, ended>>
  BY DEF SwapStore
<1>2. /\ frames \in Seq(FrameRecords) /\ m \in Nat \ {0} /\ m \in 1 .. m /\ Current = frames[m]
      /\ Current \in FrameRecords /\ StoresOK(frames, stores)
      /\ CallsOK(frames, calls) /\ Settled(frames, calls)
  BY Here DEF IInv, Process
<1>3. temp \in Nat \ {NoStore} /\ temp \notin stores
  <2>1. stores \in SUBSET Nat /\ IsFiniteSet(stores) /\ 1 \in Nat /\ 1 \in 1 .. 1
    BY <1>2 DEF StoresOK
  <2> QED
    BY <1>1, <2>1, FreshFacts DEF NoStore
<1>4. Current.vars # NoStore /\ Current.vars \in Nat
  BY <1>2 DEF StoresOK, FrameRecords
<1>5. Current.saved = NoStore
  <2>1. calls # <<>> /\ calls[Len(calls)].fn # "frame" /\ ~IsSwapped(calls[Len(calls)])
    BY <1>1, SimpleFacts DEF Swapped
  <2> QED
    BY <1>2, <2>1, NothingSaved
<1>6. PICK g : g = [Current EXCEPT !.saved = Current.vars, !.vars = temp]
  OBVIOUS
<1>7. /\ g \in FrameRecords /\ g.type = Current.type /\ g.loops = Current.loops
      /\ g.flow = Current.flow /\ g.saved = Current.vars /\ g.vars = temp
      /\ g.locals = Current.locals /\ g.pos = Current.pos /\ g.env = Current.env
  BY <1>2, <1>3, <1>4, <1>6 DEF FrameRecords
<1>8. frames' = [frames EXCEPT ![m] = g]
  BY <1>1, <1>2, <1>6
<1>9. /\ frames' \in Seq(FrameRecords) /\ Len(frames') = m /\ frames'[m] = g
      /\ \A i \in 1 .. m - 1 : frames'[i] = frames[i]
  <2>1. /\ frames' \in Seq(FrameRecords) /\ Len(frames') = m
        /\ \A i \in 1 .. m : frames'[i] = IF i = m THEN g ELSE frames[i]
    BY <1>7, <1>8, FrameChanged
  <2>2. \A i \in 1 .. m - 1 : i \in 1 .. m /\ i # m
    BY <1>2
  <2> QED
    BY <1>2, <2>1, <2>2
<1>10. StoresOK(frames', stores \cup {temp})
  BY <1>2, <1>3, <1>5, <1>7, <1>9, StoresSwapped
<1> QED
  BY <1>1, <1>4, <1>7, <1>8, <1>10, SwapKeeps

LEMMA RestoreStoreKeeps ==
    ASSUME IInv, RestoreStore
    PROVE  IInv'
<1> DEFINE m == Len(frames)
<1>1. /\ At("simple", "restore") /\ Goto("done")
      /\ frames' = [frames EXCEPT ![m].vars = Current.saved, ![m].saved = NoStore]
      /\ stores' = stores \ {Current.vars}
      /\ UNCHANGED <<ret, forked, lastExit, lines, ended>>
  BY DEF RestoreStore
<1>2. /\ frames \in Seq(FrameRecords) /\ m \in Nat \ {0} /\ m \in 1 .. m /\ Current = frames[m]
      /\ Current \in FrameRecords /\ StoresOK(frames, stores)
      /\ CallsOK(frames, calls) /\ Settled(frames, calls)
  BY Here DEF IInv, Process
<1>3. Current.saved # NoStore
  <2>1. /\ Len(calls) \in 1 .. Len(calls) /\ IsSwapped(calls[Len(calls)])
        /\ calls[Len(calls)].frame = m
    BY <1>1, SimpleFacts DEF Swapped
  <2> QED
    BY <1>2, <2>1 DEF Settled
<1>4. PICK g : g = [Current EXCEPT !.vars = Current.saved, !.saved = NoStore]
  OBVIOUS
<1>5. Current.saved \in Nat /\ NoStore \in Nat
  BY <1>2 DEF FrameRecords, NoStore
<1>6. /\ g \in FrameRecords /\ g.type = Current.type /\ g.loops = Current.loops
      /\ g.flow = Current.flow /\ g.saved = NoStore /\ g.vars = Current.saved
      /\ g.locals = Current.locals /\ g.pos = Current.pos /\ g.env = Current.env
  BY <1>2, <1>4, <1>5 DEF FrameRecords
<1>7. frames' = [frames EXCEPT ![m] = g]
  BY <1>1, <1>2, <1>4
<1>8. /\ frames' \in Seq(FrameRecords) /\ Len(frames') = m /\ frames'[m] = g
      /\ \A i \in 1 .. m - 1 : frames'[i] = frames[i]
  <2>1. /\ frames' \in Seq(FrameRecords) /\ Len(frames') = m
        /\ \A i \in 1 .. m : frames'[i] = IF i = m THEN g ELSE frames[i]
    BY <1>6, <1>7, FrameChanged
  <2>2. \A i \in 1 .. m - 1 : i \in 1 .. m /\ i # m
    BY <1>2
  <2> QED
    BY <1>2, <2>1, <2>2
<1>9. StoresOK(frames', stores \ {Current.vars})
  BY <1>2, <1>3, <1>6, <1>8, StoresRestored
<1> QED
  BY <1>1, <1>6, <1>7, <1>9, SwapKeeps

LEMMA EvalStartKeeps ==
    ASSUME IInv, EvalStart
    PROVE  IInv'
<1> DEFINE n == Len(calls)
           ds == [calls EXCEPT ![n].pc = "eval"]
<1>1. PICK a :
         /\ a = [Act("string", "run", 0) EXCEPT !.frame = @ + 1]
         /\ At("simple", "run") /\ FramePush("eval") /\ calls' = Append(ds, a) /\ ret' = None
         /\ UNCHANGED <<forked, lastExit, lines, ended>>
  BY DEF EvalStart, Invoke
<1>2. /\ Call \in Activation /\ Call = calls[n] /\ calls # <<>> /\ Call.fn = "simple"
      /\ Call.pc = "run" /\ Pushed(Call) = 0 /\ IsSwapped(Call)
  BY <1>1, SimpleFacts DEF Swapped
<1>3. PICK t : t = [Call EXCEPT !.pc = "eval"]
  OBVIOUS
<1>4. t \in Activation /\ t.fn = "simple" /\ t.pc = "eval" /\ t.frame = Call.frame
  BY <1>2, <1>3, MovedOn DEF Pcs
<1>5. NodeOK(t) /\ Pushed(t) = 1 /\ IsSwapped(t)
  BY <1>4 DEF NodeOK, Pushed, IsSwapped, Swapped
<1>6. ds = [calls EXCEPT ![n] = t]
  BY <1>3 DEF Call
<1>7. "eval" \in Types /\ "eval" # "top"
  BY DEF Types
<1> HIDE DEF ds
<1>8. Process(frames', stores', ds) /\ ds # <<>> /\ ds[Len(ds)] = t
  <2>1. PICK type \in Types : type = "eval"
    BY <1>7
  <2>2. FramePush(type) /\ type # "top"
    BY <1>1, <1>7, <2>1
  <2>3. /\ t \in Activation /\ NodeOK(t) /\ t.frame = Call.frame /\ t.fn = Call.fn
        /\ Pushed(t) = 1 /\ (IsSwapped(t) <=> IsSwapped(Call))
        /\ calls # <<>> /\ Pushed(Call) = 0
    BY <1>2, <1>4, <1>5
  <2>4. PICK es : es = [calls EXCEPT ![Len(calls)] = t]
    OBVIOUS
  <2>5. Process(frames', stores', es) /\ es # <<>> /\ es[Len(es)] = t
    BY <2>2, <2>3, <2>4, ProcessPushed
  <2>6. ds = es
    BY <1>6, <2>4
  <2> QED
    BY <2>5, <2>6
<1>9. Len(frames) \in Nat /\ Len(frames') = Len(frames) + 1
  BY <1>1, <1>7, FramePushed, Here
<1>10. a = [fn |-> "string", pc |-> "run", left |-> 0, frame |-> Len(frames')]
  BY <1>1, <1>9 DEF Act
<1>11. a \in Activation /\ NodeOK(a) /\ a.frame = Len(frames') /\ Pushed(a) = 0 /\ ~IsSwapped(a)
       /\ a.fn = "string"
  BY <1>9, <1>10 DEF Activation, Fns, Pcs, NodeOK, Pushed, IsSwapped
<1>12. Process(frames', stores', calls')
  <2>1. Process(frames', stores', Append(ds, a))
    BY <1>4, <1>5, <1>8, <1>11, ProcessCalls
  <2> QED
    BY <1>1, <2>1
<1>13. Call' = a
  <2>1. ds \in Seq(Activation)
    BY <1>8 DEF Process, CallsOK
  <2> QED
    BY <1>1, <1>11, <2>1, AppendFacts DEF Call
<1>14. ResultReady'
  BY <1>11, <1>13 DEF ResultReady
<1>15. ~PolicyOf["eval"].terminates
  BY <1>7, Policies
<1>16. Len(forked) \in Nat /\ ForksOK(frames, forked, Len(forked)) /\ WaitingOK(forked)
  BY DEF IInv, RestOK
<1>17. NoFlow(frames)
  BY <1>2, Quiet
<1>18. FlowIsPickedUp' /\ ForksOK(frames', forked, Len(forked))
  BY <1>1, <1>7, <1>15, <1>16, <1>17, PushedQuietly
<1>19. RestOK'
  BY <1>1 DEF IInv, RestOK
<1> QED
  BY <1>1, <1>12, <1>14, <1>16, <1>18, <1>19 DEF IInv

-----------------------------------------------------------------------------
(* The functions of the interpreter.                                       *)

LEMMA Inner ==
    ASSUME IInv, calls # <<>>, Call.fn # "string" \/ Len(calls) # 1
    PROVE  Len(calls) > 1
<1>1. PICK n \in Nat \ {0} : n = Len(calls)
  BY Top
<1>2. n # 1
  BY <1>1, Top
<1>3. n > 1
  BY <1>1, <1>2
<1> QED
  BY <1>1, <1>3

\* The innermost function may be any but those of frames and simple commands.
Plain == calls # <<>> /\ Call.fn \notin {"frame", "body", "simple"}

LEMMA PlainStaysIn ==
    ASSUME IInv, Plain, NEW x \in Pcs, Call.fn = "dispatch" => x = "wait"
    PROVE  StaysIn([Call EXCEPT !.pc = x])
<1>1. PICK t : t = [Call EXCEPT !.pc = x]
  OBVIOUS
<1>2. Call \in Activation /\ Call.fn \notin {"frame", "body", "simple"}
  BY Top DEF Plain
<1>3. t \in Activation /\ t.pc = x /\ t.fn = Call.fn /\ t.frame = Call.frame
  BY <1>1, <1>2, MovedOn
<1>4. NodeOK(t) /\ Pushed(t) = 0 /\ ~IsSwapped(t) /\ Pushed(Call) = 0 /\ ~IsSwapped(Call)
  BY <1>2, <1>3 DEF NodeOK, Pushed, IsSwapped
<1>5. StaysIn(t)
  BY <1>3, <1>4 DEF StaysIn
<1> QED
  BY <1>1, <1>5

LEMMA PlainInvokes ==
    ASSUME IInv, Plain, NEW x \in Pcs, Call.fn = "dispatch" => x = "wait",
           NEW a, Callable(a), Invoke(x, a),
           UNCHANGED <<frames, stores, forked, lastExit, lines, ended>>
    PROVE  IInv'
<1>1. /\ calls # <<>> /\ Call.fn # "frame" /\ Call.fn # "simple" /\ ~IsSwapped(Call)
      /\ StaysIn([Call EXCEPT !.pc = x])
  BY PlainStaysIn DEF Plain, IsSwapped
<1> QED
  BY <1>1, InvokeStep

LEMMA PlainReturns ==
    ASSUME IInv, Plain, Call.fn # "string", NEW r \in Results, Return(r),
           UNCHANGED <<frames, stores, forked, lastExit, lines, ended>>
    PROVE  IInv'
<1>1. Len(calls) > 1 /\ Pushed(Call) = 0 /\ Call.fn # "simple"
  BY Inner DEF Plain, Pushed
<1> QED
  BY <1>1, PlainReturnStep

\* It leaves its status on the frame, or does not.
LEMMA StatusSet ==
    ASSUME IInv, Plain, ret \in Results,
           frames' = frames \/ frames' = [frames EXCEPT ![Len(frames)].last = ret.exit]
    PROVE  \E g \in FrameRecords :
              /\ SameFrame(Current, g) /\ g.flow = "normal"
              /\ frames' = [frames EXCEPT ![Len(frames)] = g]
<1>1. /\ frames \in Seq(FrameRecords) /\ Len(frames) \in 1 .. Len(frames)
      /\ frames[Len(frames)] = Current /\ Current \in FrameRecords
  BY Here
<1>2. Current.flow = "normal"
  BY <1>1, Quiet DEF Plain, NoFlow
<1>3. CASE frames' = frames
  <2>1. frames' = [frames EXCEPT ![Len(frames)] = Current]
    BY <1>1, <1>3
  <2> QED
    BY <1>1, <1>2, <2>1 DEF SameFrame, SameStores
<1>4. CASE frames' = [frames EXCEPT ![Len(frames)].last = ret.exit]
  <2>1. PICK g : g = [Current EXCEPT !.last = ret.exit]
    OBVIOUS
  <2>2. ret.exit \in Status
    BY DEF Results
  <2>3. g \in FrameRecords /\ SameFrame(Current, g) /\ g.flow = "normal"
    BY <1>1, <1>2, <2>1, <2>2 DEF FrameRecords, SameFrame, SameStores
  <2>4. frames' = [frames EXCEPT ![Len(frames)] = g]
    BY <1>1, <1>4, <2>1
  <2> QED
    BY <2>3, <2>4
<1> QED
  BY <1>3, <1>4

LEMMA ReturnsStatus ==
    ASSUME IInv, Plain, Len(calls) > 1, ret \in Results, NEW r \in Results, Return(r),
           frames' = frames \/ frames' = [frames EXCEPT ![Len(frames)].last = ret.exit],
           lastExit' \in Status, UNCHANGED <<stores, forked, lines, ended>>
    PROVE  IInv'
<1>1. PICK g \in FrameRecords : /\ SameFrame(Current, g) /\ g.flow = "normal"
                                /\ frames' = [frames EXCEPT ![Len(frames)] = g]
  BY StatusSet
<1>2. Pushed(Call) = 0 /\ ~IsSwapped(Call)
  BY DEF Plain, Pushed, IsSwapped
<1> QED
  BY <1>1, <1>2, ReturnStep

\* What the interpreter calls for a node.
LEMMA ActIs ==
    ASSUME IInv, NEW fn \in Fns, NEW pc \in Pcs, NEW left \in Int,
           fn = "frame" => pc \in FrameKinds,
           fn = "dispatch" => pc \in {"any", "list", "brace"},
           fn \notin {"body"}, fn = "simple" => pc = "start"
    PROVE  Callable(Act(fn, pc, left))
<1>1. PICK a : a = Act(fn, pc, left)
  OBVIOUS
<1>2. Len(frames) \in Nat
  BY Here
<1>3. a \in Activation /\ a.fn = fn /\ a.pc = pc /\ a.frame = Len(frames)
  BY <1>1, <1>2 DEF Act, Activation
<1>4. NodeOK(a) /\ Pushed(a) = 0 /\ ~IsSwapped(a)
  BY <1>3 DEF NodeOK, Pushed, IsSwapped, Swapped
<1>5. Callable(a)
  BY <1>3, <1>4 DEF Callable
<1> QED
  BY <1>1, <1>5

LEMMA NewActivationIs ==
    ASSUME IInv, NEW kind \in Compound \cup {"list", "simple", "redirected", "fundef", "andor", "pipe"},
           NEW a \in NewActivation(kind)
    PROVE  Callable(a)
<1>1. \A k \in 0 .. MaxItems : k \in Int
  OBVIOUS
<1>2. CASE kind = "list"
  <2>1. PICK k \in 0 .. MaxItems : a = Act("list", "next", k)
    BY <1>2 DEF NewActivation
  <2> QED
    BY <1>1, <2>1, ActIs DEF Fns, Pcs
<1>3. CASE kind = "if"
  <2>1. PICK k \in 0 .. MaxItems : a = Act("if", "condition", k)
    BY <1>3 DEF NewActivation
  <2> QED
    BY <1>1, <2>1, ActIs DEF Fns, Pcs
<1>4. CASE kind \in {"brace", "subshell", "for", "pipe", "redirected"}
  <2>1. PICK pc \in FrameKinds : a = Act("frame", pc, 0)
    BY <1>4 DEF NewActivation, FrameKinds
  <2>2. "frame" \in Fns /\ pc \in Pcs /\ 0 \in Int
    BY DEF Fns, Pcs
  <2> QED
    BY <2>1, <2>2, ActIs
<1>5. CASE kind \in {"while", "case", "simple", "fundef", "andor"}
  <2>1. a = Act(kind, "start", 0)
    BY <1>5 DEF NewActivation
  <2>2. kind \in Fns /\ "start" \in Pcs /\ 0 \in Int
    BY <1>5 DEF Fns, Pcs
  <2> QED
    BY <1>5, <2>1, <2>2, ActIs
<1> QED
  BY <1>2, <1>3, <1>4, <1>5 DEF Compound

LEMMA StringKeeps ==
    ASSUME IInv, StringStart \/ StringEnd
    PROVE  IInv'
<1>1. Plain /\ Call.fn = "string" /\ Call.pc = "run" /\ calls # <<>> /\ Pushed(Call) = 0
  BY DEF StringStart, StringEnd, At, Plain, Pushed
<1>2. CASE StringStart
  <2>1. Callable(Act("dispatch", "list", 0))
    <3>1. "dispatch" \in Fns /\ "list" \in Pcs /\ 0 \in Int
      BY DEF Fns, Pcs
    <3> QED
      BY <3>1, ActIs
  <2>2. PICK a : a = Act("dispatch", "list", 0)
    OBVIOUS
  <2>3. Callable(a) /\ Push(a) /\ UNCHANGED <<frames, stores, forked, lastExit, lines, ended>>
    BY <1>2, <2>1, <2>2 DEF StringStart
  <2>4. Call.fn # "frame" /\ Call.fn # "simple"
    BY <1>1
  <2> QED
    BY <1>1, <2>3, <2>4, PushStep
<1>3. CASE StringEnd
  <2>1. /\ ret \in Results /\ SetStatus(ret)
        /\ IF Len(calls) = 1 THEN calls' = <<>> /\ ret' = None
           ELSE Return(EvalResult(ret.ok, frames'[Len(frames)].last))
        /\ UNCHANGED <<stores, forked, lines, ended>>
    BY <1>3 DEF StringEnd, IInv, RestOK
  <2>2. frames' = frames \/ frames' = [frames EXCEPT ![Len(frames)].last = ret.exit]
    BY <2>1 DEF SetStatus
  <2>3. lastExit' \in Status
    BY <2>1 DEF SetStatus, Results, IInv, RestOK
  <2>4. PICK g \in FrameRecords : /\ SameFrame(Current, g) /\ g.flow = "normal"
                                  /\ frames' = [frames EXCEPT ![Len(frames)] = g]
    BY <1>1, <2>1, <2>2, StatusSet
  <2>5. /\ frames' \in Seq(FrameRecords) /\ Len(frames') = Len(frames)
        /\ \A i \in 1 .. Len(frames) : frames'[i] = IF i = Len(frames) THEN g ELSE frames[i]
    BY <2>4, FrameChanged
  <2>6. CASE Len(calls) = 1
    <3>1. calls' = <<>> /\ ret' = None
      BY <2>1, <2>6
    <3>2. Process(frames, stores, <<>>)
      <4>1. /\ CallsOK(frames, calls) /\ Settled(frames, calls) /\ TypesOK(frames)
            /\ StoresOK(frames, stores) /\ calls[1] = Call
        BY <2>6 DEF IInv, Process, Call
      <4>2. \A i \in 1 .. Len(frames) : frames[i].saved = NoStore
        <5>1. \A k \in 1 .. Len(calls) : ~IsSwapped(calls[k])
          BY <1>1, <2>6, <4>1 DEF IsSwapped
        <5> QED
          BY <4>1, <5>1 DEF Settled
      <4>3. Len(frames) = 1
        <5>1. calls[1].frame = 1
          BY <1>1, <4>1 DEF CallsOK
        <5> QED
          BY <1>1, <4>1, <5>1, Top
      <4>4. PICK es : es = <<>>
        OBVIOUS
      <4>5. es \in Seq(Activation) /\ Len(es) = 0
        BY <4>4, EmptySeq
      <4>6. CallsOK(frames, es)
        BY <4>3, <4>4, <4>5 DEF CallsOK
      <4>7. Settled(frames, es)
        BY <4>2, <4>5 DEF Settled
      <4> QED
        BY <4>1, <4>4, <4>6, <4>7 DEF Process
    <3>3. Process(frames', stores', calls')
      BY <2>1, <2>4, <3>1, <3>2, FrameUpdated
    <3>4. FlowIsPickedUp'
      <4>1. NoFlow(frames)
        BY <1>1, Quiet
      <4>2. NoFlow(frames')
        BY <2>4, <2>5, <4>1 DEF NoFlow
      <4> QED
        BY <4>2, NoFlowIsFine
    <3>5. WaitingOK(forked') /\ ForksOK(frames', forked', Len(forked'))
      BY <2>1, <2>4, FrameUpdated
    <3>6. RestOK' /\ ResultReady'
      BY <2>1, <2>3, <3>1 DEF IInv, RestOK, ResultReady
    <3> QED
      BY <3>3, <3>4, <3>5, <3>6 DEF IInv
  <2>7. CASE Len(calls) # 1
    <3>1. Len(calls) > 1
      BY <1>1, <2>7, Inner
    <3>2. PICK s : s = frames'[Len(frames)].last
      OBVIOUS
    <3>3. s \in Status
      BY <2>4, <2>5, <3>2, Here DEF FrameRecords
    <3>4. EvalResult(ret.ok, s) \in Results
      <4>1. ret.ok \in BOOLEAN
        BY <2>1 DEF Results
      <4> QED
        BY <3>3, <4>1, ResultsMade
    <3>5. Return(EvalResult(ret.ok, s))
      BY <2>1, <2>7, <3>2
    <3> QED
      BY <1>1, <2>1, <2>2, <2>3, <3>1, <3>4, <3>5, ReturnsStatus
  <2> QED
    BY <2>6, <2>7
<1> QED
  BY <1>2, <1>3

LEMMA DispatchKeeps ==
    ASSUME IInv, Dispatch \/ DispatchEnd
    PROVE  IInv'
<1>1. Plain /\ Call.fn = "dispatch" /\ calls # <<>>
  BY DEF Dispatch, DispatchEnd, At, Plain
<1>2. CASE Dispatch
  <2>1. PICK kind \in IF Call.pc = "any" THEN Items ELSE {Call.pc} :
          \E a \in NewActivation(kind) : Invoke("wait", a)
    BY <1>2 DEF Dispatch
  <2>2. PICK a \in NewActivation(kind) : Invoke("wait", a)
    BY <2>1
  <2>3. Call.pc \in {"any", "list", "brace"}
    BY <1>1, <1>2, Top DEF NodeOK, Dispatch
  <2>4. kind \in Compound \cup {"list", "simple", "redirected", "fundef", "andor", "pipe"}
    BY <2>1, <2>3 DEF Items, Commands, Compound
  <2>5. Callable(a)
    BY <2>4, NewActivationIs
  <2>6. "wait" \in Pcs /\ UNCHANGED <<frames, stores, forked, lastExit, lines, ended>>
    BY <1>2 DEF Dispatch, Pcs
  <2> QED
    BY <1>1, <2>2, <2>5, <2>6, PlainInvokes
<1>3. CASE DispatchEnd
  <2>1. /\ ret \in Results /\ SetStatus(ret) /\ Return(ret)
        /\ UNCHANGED <<stores, forked, lines, ended>>
    BY <1>3 DEF DispatchEnd, IInv, RestOK
  <2>2. frames' = frames \/ frames' = [frames EXCEPT ![Len(frames)].last = ret.exit]
    BY <2>1 DEF SetStatus
  <2>3. lastExit' \in Status
    BY <2>1 DEF SetStatus, Results, IInv, RestOK
  <2>4. Len(calls) > 1
    BY <1>1, Inner
  <2> QED
    BY <1>1, <2>1, <2>2, <2>3, <2>4, ReturnsStatus
<1> QED
  BY <1>2, <1>3

\* A counter of the innermost function goes down.
LEMMA CountsDown ==
    ASSUME IInv, Plain, NEW x \in Pcs, Call.fn # "dispatch",
           calls' = [calls EXCEPT ![Len(calls)].left = @ - 1, ![Len(calls)].pc = x], ret' = None,
           ret \in Results,
           frames' = frames \/ frames' = [frames EXCEPT ![Len(frames)].last = ret.exit],
           UNCHANGED <<stores, forked, lastExit, lines, ended>>
    PROVE  IInv'
<1>1. PICK t : t = [Call EXCEPT !.left = @ - 1, !.pc = x]
  OBVIOUS
<1>2. calls' = [calls EXCEPT ![Len(calls)] = t]
  BY <1>1, Here, Top DEF Plain
<1>3. Call \in Activation /\ Call.fn \notin {"frame", "body", "simple", "dispatch"} /\ calls # <<>>
  BY Top DEF Plain
<1>4. t \in Activation /\ t.pc = x /\ t.fn = Call.fn /\ t.frame = Call.frame
  <2>1. Call.left - 1 \in Int
    BY <1>3 DEF Activation
  <2> QED
    BY <1>1, <1>3, <2>1 DEF Activation
<1>5. NodeOK(t) /\ Pushed(t) = 0 /\ ~IsSwapped(t) /\ Pushed(Call) = 0 /\ ~IsSwapped(Call)
  BY <1>3, <1>4 DEF NodeOK, Pushed, IsSwapped
<1>6. StaysIn(t) /\ t.fn # "simple"
  BY <1>3, <1>4, <1>5 DEF StaysIn
<1>7. PICK g \in FrameRecords : /\ SameFrame(Current, g) /\ g.flow = "normal"
                                /\ frames' = [frames EXCEPT ![Len(frames)] = g]
  BY StatusSet
<1> QED
  BY <1>2, <1>3, <1>6, <1>7, OnStep

LEMMA ListKeeps ==
    ASSUME IInv, ListNext \/ EmptyList \/ ListItem
    PROVE  IInv'
<1>1. Plain /\ Call.fn = "list" /\ Call.pc = "next" /\ calls # <<>>
  BY DEF ListNext, EmptyList, ListItem, At, Plain
<1>2. CASE ListNext
  <2>1. PICK kind \in Items \cup (IF Deep THEN {} ELSE {"background"}) :
          \E a \in IF kind = "background" THEN {Act("frame", "background", 0)}
                   ELSE NewActivation(kind) : Push(a)
    BY <1>2 DEF ListNext
  <2>2. PICK a \in IF kind = "background" THEN {Act("frame", "background", 0)}
                   ELSE NewActivation(kind) : Push(a)
    BY <2>1
  <2>3. Callable(a)
    <3>1. CASE kind = "background"
      <4>1. "frame" \in Fns /\ "background" \in FrameKinds /\ "background" \in Pcs /\ 0 \in Int
        BY DEF Fns, FrameKinds, Pcs
      <4>2. a = Act("frame", "background", 0)
        BY <2>2, <3>1
      <4> QED
        BY <4>1, <4>2, ActIs
    <3>2. CASE kind # "background"
      <4>1. kind \in Compound \cup {"list", "simple", "redirected", "fundef", "andor", "pipe"}
        BY <2>1, <3>2 DEF Items, Commands, Compound
      <4> QED
        BY <2>2, <3>2, <4>1, NewActivationIs
    <3> QED
      BY <3>1, <3>2
  <2>4. UNCHANGED <<frames, stores, forked, lastExit, lines, ended>>
    BY <1>2 DEF ListNext
  <2>5. Call.fn # "frame" /\ Call.fn # "simple"
    BY <1>1
  <2> QED
    BY <1>1, <2>2, <2>3, <2>4, <2>5, PushStep
<1>3. CASE EmptyList
  <2>1. /\ Return(Exit(0)) /\ UNCHANGED <<frames, stores, forked, lastExit, lines, ended>>
        /\ Exit(0) \in Results
    BY <1>3, ResultsMade DEF EmptyList, Status
  <2> QED
    BY <1>1, <2>1, PlainReturns
<1>4. CASE ListItem
  <2>1. /\ ret \in Results /\ UNCHANGED <<stores, forked, lastExit, lines, ended>>
        /\ \/ calls' = [calls EXCEPT ![Len(calls)].left = @ - 1] /\ ret' = None
           \/ Return(ListResult(ret))
    BY <1>4 DEF ListItem, IInv, RestOK
  <2>2. frames' = frames \/ frames' = [frames EXCEPT ![Len(frames)].last = ret.exit]
    BY <1>4 DEF ListItem
  <2>3. CASE Return(ListResult(ret))
    <3>1. ListResult(ret) \in Results /\ Len(calls) > 1 /\ lastExit' \in Status
      BY <1>1, <2>1, ResultsMade, Inner DEF IInv, RestOK
    <3> QED
      BY <1>1, <2>1, <2>2, <2>3, <3>1, ReturnsStatus
  <2>4. CASE calls' = [calls EXCEPT ![Len(calls)].left = @ - 1] /\ ret' = None
    <3>1. [Call EXCEPT !.left = @ - 1] = [Call EXCEPT !.left = @ - 1, !.pc = "next"]
      BY <1>1, Top DEF Activation
    <3>2. calls' = [calls EXCEPT ![Len(calls)].left = @ - 1, ![Len(calls)].pc = "next"]
      BY <2>4, <3>1, <1>1, Here, Top
    <3>3. "next" \in Pcs
      BY DEF Pcs
    <3> QED
      BY <1>1, <2>1, <2>2, <2>4, <3>2, <3>3, CountsDown
  <2> QED
    BY <2>1, <2>3, <2>4
<1> QED
  BY <1>2, <1>3, <1>4

LEMMA AndOrKeeps ==
    ASSUME IInv, AndOrLeft \/ AndOrRight \/ AndOrEnd
    PROVE  IInv'
<1>1. Plain /\ Call.fn = "andor" /\ calls # <<>>
  BY DEF AndOrLeft, AndOrRight, AndOrEnd, At, Plain
<1>2. ASSUME AndOrLeft \/ AndOrRight
      PROVE  IInv'
  <2>1. PICK kind \in Items \cap {"andor", "pipe", "simple"} :
          \E a \in NewActivation(kind), x \in {"and", "or", "right"} : Invoke(x, a)
    BY <1>2 DEF AndOrLeft, AndOrRight
  <2>2. PICK a \in NewActivation(kind), x \in {"and", "or", "right"} : Invoke(x, a)
    BY <2>1
  <2>3. Callable(a)
    BY NewActivationIs
  <2>4. x \in Pcs /\ UNCHANGED <<frames, stores, forked, lastExit, lines, ended>>
    BY <1>2 DEF AndOrLeft, AndOrRight, Pcs
  <2> QED
    BY <1>1, <2>2, <2>3, <2>4, PlainInvokes
<1>3. CASE AndOrEnd
  <2>1. /\ ret \in Results /\ Return(ret) /\ UNCHANGED <<stores, forked, lastExit, lines, ended>>
        /\ lastExit' \in Status
    BY <1>3 DEF AndOrEnd, IInv, RestOK
  <2>2. frames' = frames \/ frames' = [frames EXCEPT ![Len(frames)].last = ret.exit]
    BY <1>3 DEF AndOrEnd
  <2>3. Len(calls) > 1
    BY <1>1, Inner
  <2> QED
    BY <1>1, <2>1, <2>2, <2>3, ReturnsStatus
<1> QED
  BY <1>2, <1>3

LEMMA ListCallable ==
    ASSUME IInv
    PROVE  Callable(Act("dispatch", "list", 0))
<1>1. "dispatch" \in Fns /\ "list" \in Pcs /\ 0 \in Int
  BY DEF Fns, Pcs
<1> QED
  BY <1>1, ActIs

LEMMA IfKeeps ==
    ASSUME IInv, IfCondition \/ IfTest \/ IfEnd
    PROVE  IInv'
<1>1. Plain /\ Call.fn = "if" /\ calls # <<>> /\ {"test", "body", "condition"} \subseteq Pcs
  BY DEF IfCondition, IfTest, IfEnd, At, Plain, Pcs
<1>2. UNCHANGED <<frames, stores, forked, lastExit, lines, ended>>
  BY DEF IfCondition, IfTest, IfEnd
<1>3. PICK a : a = Act("dispatch", "list", 0)
  OBVIOUS
<1>4. Callable(a)
  BY <1>3, ListCallable
<1>5. ASSUME NEW x \in {"test", "body"}, Invoke(x, a)
      PROVE  IInv'
  BY <1>1, <1>2, <1>4, <1>5, PlainInvokes
<1>6. ASSUME NEW r \in Results, Return(r)
      PROVE  IInv'
  BY <1>1, <1>2, <1>6, PlainReturns
<1>7. CASE IfCondition
  BY <1>3, <1>5, <1>7 DEF IfCondition
<1>8. CASE IfEnd
  BY <1>6, <1>8 DEF IfEnd, IInv, RestOK
<1>9. CASE IfTest
  <2>1. ret \in Results /\ Exit(0) \in Results
    BY <1>9, ResultsMade DEF IfTest, IInv, RestOK, Status
  <2>2. \/ Return(ret) \/ Return(Exit(0)) \/ Invoke("body", a)
        \/ /\ calls' = [calls EXCEPT ![Len(calls)].left = @ - 1, ![Len(calls)].pc = "condition"]
           /\ ret' = None
    BY <1>3, <1>9 DEF IfTest
  <2>3. CASE Invoke("body", a)
    BY <1>5, <2>3
  <2>4. CASE Return(ret) \/ Return(Exit(0))
    BY <1>6, <2>1, <2>4
  <2>5. CASE /\ calls' = [calls EXCEPT ![Len(calls)].left = @ - 1, ![Len(calls)].pc = "condition"]
             /\ ret' = None
    BY <1>1, <1>2, <2>1, <2>5, CountsDown
  <2> QED
    BY <2>2, <2>3, <2>4, <2>5
<1> QED
  BY <1>7, <1>8, <1>9

LEMMA WhileKeeps ==
    ASSUME IInv, WhileCondition \/ WhileTest
    PROVE  IInv'
<1>1. Plain /\ Call.fn = "while" /\ calls # <<>> /\ "test" \in Pcs
  BY DEF WhileCondition, WhileTest, At, Plain, Pcs
<1>2. UNCHANGED <<frames, stores, forked, lastExit, lines>>
  BY DEF WhileCondition, WhileTest
<1>3. CASE WhileCondition
  <2>1. PICK a : a = Act("dispatch", "list", 0)
    OBVIOUS
  <2>2. Callable(a)
    BY <2>1, ListCallable
  <2>3. Invoke("test", a) /\ UNCHANGED <<frames, stores, forked, lastExit, lines, ended>>
    BY <1>3, <2>1 DEF WhileCondition
  <2> QED
    BY <1>1, <2>2, <2>3, PlainInvokes
<1>4. CASE WhileTest
  <2>1. ret \in Results /\ Exit(0) \in Results
    BY <1>4, ResultsMade DEF WhileTest, IInv, RestOK, Status
  <2>2. \/ (Return(ret) \/ Return(Exit(0))) /\ UNCHANGED ended
        \/ ended' = "abort" /\ UNCHANGED <<calls, ret>>
    BY <1>4 DEF WhileTest
  <2>3. CASE (Return(ret) \/ Return(Exit(0))) /\ UNCHANGED ended
    BY <1>1, <1>2, <2>1, <2>3, PlainReturns
  <2>4. CASE ended' = "abort" /\ UNCHANGED <<calls, ret>>
    BY <1>2, <2>4, EndsKeeps
  <2> QED
    BY <2>2, <2>3, <2>4
<1> QED
  BY <1>3, <1>4

LEMMA CaseKeeps ==
    ASSUME IInv, Case \/ CaseEnd \/ FunctionDef \/ OtherBody
    PROVE  IInv'
<1>1. Plain /\ Call.fn \in {"case", "fundef", "failed", "piped"} /\ calls # <<>> /\ "body" \in Pcs
  BY DEF Case, CaseEnd, FunctionDef, OtherBody, At, Plain, Pcs
<1>2. UNCHANGED <<frames, stores, forked, lastExit, lines, ended>>
  BY DEF Case, CaseEnd, FunctionDef, OtherBody
<1>3. ASSUME NEW r \in Results, Return(r)
      PROVE  IInv'
  BY <1>1, <1>2, <1>3, PlainReturns
<1>4. CASE Case
  <2>1. PICK a : a = Act("dispatch", "list", 0)
    OBVIOUS
  <2>2. Callable(a)
    BY <2>1, ListCallable
  <2>3. Return(Exit(0)) \/ Return(R(FALSE, TRUE, 1, "normal", 0)) \/ Invoke("body", a)
    BY <1>4, <2>1 DEF Case
  <2>4. CASE Invoke("body", a)
    BY <1>1, <1>2, <2>2, <2>4, PlainInvokes
  <2>5. CASE Return(Exit(0)) \/ Return(R(FALSE, TRUE, 1, "normal", 0))
    <3>1. Exit(0) \in Results /\ R(FALSE, TRUE, 1, "normal", 0) \in Results
      BY ResultsMade DEF Status
    <3> QED
      BY <1>3, <2>5, <3>1
  <2> QED
    BY <2>3, <2>4, <2>5
<1>5. CASE CaseEnd
  BY <1>3, <1>5 DEF CaseEnd, IInv, RestOK
<1>6. CASE FunctionDef
  <2>1. PICK r \in {Exit(0), Error} : Return(r)
    BY <1>6 DEF FunctionDef
  <2>2. r \in Results
    BY ResultsMade DEF Status
  <2> QED
    BY <1>3, <2>1, <2>2
<1>7. CASE OtherBody
  <2>1. PICK s \in Status : Return(Exit(s))
    BY <1>7 DEF OtherBody
  <2>2. Exit(s) \in Results
    BY ResultsMade
  <2> QED
    BY <1>3, <2>1, <2>2
<1> QED
  BY <1>4, <1>5, <1>6, <1>7

LEMMA RunBodyKeeps ==
    ASSUME IInv, RunBody
    PROVE  IInv'
<1>1. Call.fn = "body" /\ calls # <<>> /\ UNCHANGED <<frames, stores, forked, lastExit, lines, ended>>
  BY DEF RunBody
<1>2. ASSUME NEW a, Callable(a), Push(a)
      PROVE  IInv'
  <2>1. Call.fn # "frame" /\ Call.fn # "simple"
    BY <1>1
  <2> QED
    BY <1>1, <1>2, <2>1, PushStep
<1>3. Callable(Act("dispatch", Body(Call.pc), 0))
  <2>1. PICK x : x = Body(Call.pc)
    OBVIOUS
  <2>2. x \in {"any", "list", "brace"}
    BY <2>1 DEF Body
  <2>3. "dispatch" \in Fns /\ x \in Pcs /\ 0 \in Int
    BY <2>2 DEF Fns, Pcs, FrameKinds
  <2>4. Callable(Act("dispatch", x, 0))
    BY <2>2, <2>3, ActIs
  <2> QED
    BY <2>1, <2>4
<1>4. Callable(Act("failed", "start", 0)) /\ Callable(Act("piped", "start", 0))
  <2>1. "failed" \in Fns /\ "piped" \in Fns /\ "start" \in Pcs /\ 0 \in Int
    BY DEF Fns, Pcs
  <2> QED
    BY <2>1, ActIs
<1>5. \/ Push(Act("dispatch", Body(Call.pc), 0))
      \/ Push(Act("failed", "start", 0)) \/ Push(Act("piped", "start", 0))
  BY DEF RunBody
<1> QED
  BY <1>2, <1>3, <1>4, <1>5

LEMMA ReadLineKeeps ==
    ASSUME IInv, ReadLine
    PROVE  IInv'
<1>1. PICK a : a = Act("string", "run", 0)
  OBVIOUS
<1>2. /\ calls = <<>> /\ lines < MaxLines /\ lines' = lines + 1
      /\ calls' = Append(calls, a) /\ ret' = None
      /\ UNCHANGED <<frames, stores, forked, lastExit, ended>>
  BY <1>1 DEF ReadLine, Push
<1>3. /\ CallsOK(frames, calls) /\ Settled(frames, calls) /\ TypesOK(frames)
      /\ StoresOK(frames, stores) /\ calls \in Seq(Activation)
  BY DEF IInv, Process, CallsOK
<1>4. Len(frames) = 1 /\ Len(calls) = 0
  BY <1>2, <1>3, EmptySeq DEF CallsOK
<1>5. /\ a \in Activation /\ a.fn = "string" /\ a.frame = 1
  BY <1>1, <1>4 DEF Act, Activation, Fns, Pcs
<1>6. NodeOK(a) /\ Pushed(a) = 0 /\ ~IsSwapped(a)
  BY <1>5 DEF NodeOK, Pushed, IsSwapped
<1>7. calls' \in Seq(Activation) /\ Len(calls') = 1 /\ calls'[1] = a /\ calls' # <<>>
  <2>1. /\ calls' \in Seq(Activation) /\ Len(calls') = Len(calls) + 1
        /\ calls'[Len(calls) + 1] = a /\ calls' # <<>>
    BY <1>2, <1>3, <1>5, AppendFacts
  <2> QED
    BY <1>4, <2>1
<1>8. \A k \in 1 .. 1 : k = 1
  OBVIOUS
<1>9. CallsOK(frames, calls')
  <2>1. \A j, k \in 1 .. Len(calls') : ~(j < k)
    BY <1>7
  <2>2. \A k \in 1 .. Len(calls') - 1 : FALSE
    BY <1>7
  <2> QED
    BY <1>4, <1>5, <1>6, <1>7, <1>8, <2>1, <2>2 DEF CallsOK
<1>10. Settled(frames, calls')
  <2>1. Settled(frames, Append(calls, a))
    BY <1>3, <1>5, <1>6, SettledCall
  <2> QED
    BY <1>2, <2>1
<1>11. Process(frames', stores', calls')
  BY <1>2, <1>3, <1>9, <1>10 DEF Process
<1>12. FlowIsPickedUp'
  <2>1. NoFlow(frames')
    BY <1>2, Quiet
  <2> QED
    BY <2>1, NoFlowIsFine
<1>13. ResultReady'
  BY <1>5, <1>7 DEF ResultReady, Call
<1>14. RestOK'
  <2>1. lines' \in 0 .. MaxLines
    BY <1>2, BoundsAssumption DEF IInv, RestOK
  <2> QED
    BY <1>2, <2>1 DEF IInv, RestOK
<1> QED
  BY <1>2, <1>11, <1>12, <1>13, <1>14 DEF IInv

LEMMA InitFrames == Init => IInv
<1> SUFFICES ASSUME Init PROVE IInv
  OBVIOUS
<1>1. PICK f : f = CreateTopLevel
  OBVIOUS
<1>2. /\ f \in FrameRecords /\ f.type = "top" /\ f.saved = NoStore /\ f.flow = "normal"
      /\ f.loops = 0
      /\ OwnStores(f) \subseteq Nat \ {NoStore} /\ IsFiniteSet(OwnStores(f))
      /\ NoStore \notin {f.vars, f.pos, f.env} /\ Refers(f) \subseteq OwnStores(f)
  <2>1. PICK nobody : nobody = [vars |-> NoStore, pos |-> NoStore, env |-> NoStore,
                                last |-> 0, loops |-> 0]
    OBVIOUS
  <2>2. PICK taken : taken = {}
    OBVIOUS
  <2>3. f = NewFrame("top", nobody, Fresh(4, taken))
    BY <1>1, <2>1, <2>2 DEF CreateTopLevel
  <2>4. taken \in SUBSET Nat /\ IsFiniteSet(taken)
    BY <2>2, FS_EmptySet
  <2>5. nobody.last \in Status /\ nobody.loops \in Nat /\ nobody.loops = 0
    BY <2>1 DEF Status
  <2>6. PICK type \in Types : type = "top"
    BY DEF Types
  <2>7. f = NewFrame(type, nobody, Fresh(4, taken))
    BY <2>3, <2>6
  <2>8. /\ f \in FrameRecords /\ f.type = type /\ f.saved = NoStore /\ f.flow = "normal"
        /\ f.loops = nobody.loops + (IF type = "loop" THEN 1 ELSE 0)
        /\ OwnStores(f) \subseteq Nat \ {NoStore} /\ IsFiniteSet(OwnStores(f))
        /\ NoStore \notin {f.vars, f.pos, f.env} /\ Refers(f) \subseteq OwnStores(f)
    BY <2>4, <2>5, <2>6, <2>7, NewFrameFacts
  <2> QED
    BY <2>5, <2>6, <2>8
<1>3. /\ frames = <<f>> /\ stores = OwnStores(f) /\ calls = <<>> /\ ret = None /\ forked = <<>>
      /\ lastExit = 0 /\ lines = 0 /\ ended = "no"
  BY <1>1 DEF Init
<1>4. frames \in Seq(FrameRecords) /\ Len(frames) = 1 /\ frames[1] = f /\ frames # <<>>
  BY <1>2, <1>3
<1>5. calls \in Seq(Activation) /\ Len(calls) = 0 /\ forked \in Seq(Entry) /\ Len(forked) = 0
  BY <1>3, EmptySeq
<1>6. \A i \in 1 .. Len(frames) : i = 1 /\ frames[i] = f
  BY <1>4
<1>7. CallsOK(frames, calls)
  BY <1>3, <1>4, <1>5 DEF CallsOK
<1>8. TypesOK(frames)
  <2>1. \A i \in 1 .. Len(frames) : {j \in 1 .. i : frames[j].type = "loop"} = {}
    BY <1>2, <1>4, <1>6
  <2> QED
    BY <1>2, <1>4, <1>6, <2>1, FS_EmptySet DEF TypesOK
<1>9. StoresOK(frames, stores)
  <2>1. Owned(f) = OwnStores(f)
    BY <1>2, OwnStoresAre
  <2>2. \A x : x \in OwnedUpTo(frames, 1) <=> x \in Owned(f)
    <3>1. \A j : j \in 1 .. 1 <=> j = 1
      OBVIOUS
    <3> QED
      BY <1>4, <3>1, UpTo
  <2>3. OwnedUpTo(frames, 1) = stores
    BY <1>3, <2>1, <2>2
  <2>4. \A i, j \in 1 .. Len(frames) : i = j
    BY <1>6
  <2> QED
    BY <1>2, <1>3, <1>4, <1>6, <2>3, <2>4 DEF StoresOK
<1>10. Settled(frames, calls)
  BY <1>2, <1>5, <1>6 DEF Settled
<1>11. FlowIsPickedUp /\ ResultReady
  BY <1>2, <1>3, <1>6 DEF FlowIsPickedUp, ResultReady
<1>12. WaitingOK(forked)
  BY <1>5 DEF WaitingOK
<1>13. ForksOK(frames, forked, Len(forked))
  BY <1>4 DEF ForksOK
<1>14. RestOK
  BY <1>3, <1>5, BoundsAssumption DEF RestOK, Status
<1> QED
  BY <1>7, <1>8, <1>9, <1>10, <1>11, <1>12, <1>13, <1>14 DEF IInv, Process

LEMMA NextFrames == IInv /\ [Next]_vars => IInv'
<1> SUFFICES ASSUME IInv, [Next]_vars
             PROVE  IInv'
  OBVIOUS
<1>1. CASE UNCHANGED vars
  <2>1. UNCHANGED <<frames, stores, calls, ret, forked, lastExit, lines>> /\ ended' = ended
    BY <1>1 DEF vars
  <2>2. ended' \in {"no", "exit", "abort"}
    BY <2>1 DEF IInv, RestOK
  <2> QED
    BY <2>1, <2>2, EndsKeeps
<1>2. CASE ReadLine
  BY <1>2, ReadLineKeeps
<1>3. CASE StringStart \/ StringEnd
  BY <1>3, StringKeeps
<1>4. CASE Dispatch \/ DispatchEnd
  BY <1>4, DispatchKeeps
<1>5. CASE ListNext \/ EmptyList \/ ListItem
  BY <1>5, ListKeeps
<1>6. CASE AndOrLeft \/ AndOrRight \/ AndOrEnd
  BY <1>6, AndOrKeeps
<1>7. CASE IfCondition \/ IfTest \/ IfEnd
  BY <1>7, IfKeeps
<1>8. CASE WhileCondition \/ WhileTest
  BY <1>8, WhileKeeps
<1>9. CASE Case \/ CaseEnd \/ FunctionDef \/ OtherBody
  BY <1>9, CaseKeeps
<1>10. CASE EnterFrame
  BY <1>10, EnterFrameKeeps
<1>11. CASE ForkFails
  BY <1>11, ForkFailsKeeps
<1>12. CASE Fork
  BY <1>12, ForkKeeps
<1>13. CASE RunBody
  BY <1>13, RunBodyKeeps
<1>14. CASE LeaveFrame
  BY <1>14, LeaveFrameKeeps
<1>15. CASE SwapStore
  BY <1>15, SwapStoreKeeps
<1>16. CASE Run \/ RunFails \/ Break \/ Continue \/ DoReturn \/ CallEnd
  BY <1>16, RunningKeeps
<1>17. CASE DoExit
  BY <1>17, DoExitKeeps
<1>18. CASE CallFunction
  BY <1>18, CallFunctionKeeps
<1>19. CASE EvalStart
  BY <1>19, EvalStartKeeps
<1>20. CASE EvalPop
  BY <1>20, EvalPopKeeps
<1>21. CASE RestoreStore
  BY <1>21, RestoreStoreKeeps
<1>22. CASE PickUpFlow
  BY <1>22, PickUpFlowKeeps
<1> QED
  BY <1>1, <1>2, <1>3, <1>4, <1>5, <1>6, <1>7, <1>8, <1>9, <1>10, <1>11, <1>12, <1>13, <1>14,
     <1>15, <1>16, <1>17, <1>18, <1>19, <1>20, <1>21, <1>22 DEF Next

-----------------------------------------------------------------------------
(* The theorems.                                                           *)

LEMMA FramesInvariant == Spec => []IInv
BY InitFrames, NextFrames, PTL DEF Spec

\* Each store that exec_frame_push or a simple command has allocated belongs to exactly one
\* frame, none is lost, and no frame holds one that has been freed: however deep functions,
\* evals, loops and subshells are nested.
THEOREM StoresAlwaysOwned == Spec => []StoresOwnedOnce
<1>1. IInv => StoresOwnedOnce
  <2> SUFFICES ASSUME IInv PROVE StoresOwnedOnce
    OBVIOUS
  <2>1. StoresOK(frames, stores) /\ Len(frames) \in Nat
    BY Here DEF IInv, Process
  <2>2. stores = UNION {Owned(frames[i]) : i \in 1 .. Len(frames)}
    BY <2>1 DEF StoresOK, OwnedUpTo
  <2>3. ASSUME NEW i \in 1 .. Len(frames) PROVE Refers(frames[i]) \subseteq stores
    <3>1. \A x : x \in OwnedUpTo(frames, i) => x \in OwnedUpTo(frames, Len(frames))
      <4>1. \A j \in 1 .. i : j \in 1 .. Len(frames)
        BY <2>1
      <4> QED
        BY <4>1, UpTo
    <3> QED
      BY <2>1, <3>1 DEF StoresOK
  <2> QED
    BY <2>1, <2>2, <2>3 DEF StoresOwnedOnce, StoresOK
<1> QED
  BY <1>1, FramesInvariant, PTL

\* When a function of the interpreter returns, its caller finds the frame it was given, each
\* frame knows how many loops it is in, and it has a temporary store exactly while a simple
\* command runs in it (exec_frame_pop, exec_frame_execute_simple_command_impl).
THEOREM FramesAlwaysSettled == Spec => []FramesSettled
<1>1. IInv => FramesSettled
  <2> SUFFICES ASSUME IInv PROVE FramesSettled
    OBVIOUS
  <2>1. /\ CallsOK(frames, calls) /\ TypesOK(frames) /\ StoresOK(frames, stores)
        /\ Settled(frames, calls) /\ RestOK
    BY DEF IInv, Process
  <2>2. TypeOK
    BY <2>1 DEF TypeOK, TypesOK, StoresOK, RestOK, Results
  <2>3. FramesBalanced
    BY <2>1 DEF FramesBalanced, CallsOK, TypesOK, Call
  <2>4. TemporaryStoreSettled
    BY <2>1 DEF TemporaryStoreSettled, Settled, IsSwapped
  <2> QED
    BY <2>2, <2>3, <2>4 DEF FramesSettled
<1> QED
  BY <1>1, FramesInvariant, PTL

\* A break, continue, return or exit that a builtin left on its frame is picked up by the
\* command that ran the builtin (exec_frame_execute_simple_command_impl).
THEOREM FlowAlwaysPickedUp == Spec => []FlowIsPickedUp
<1>1. IInv => FlowIsPickedUp
  BY DEF IInv
<1> QED
  BY <1>1, FramesInvariant, PTL

===============================================================================
