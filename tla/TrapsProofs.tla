---------------------------- MODULE TrapsProofs -----------------------------
(***************************************************************************)
(* The properties of Traps, for any sets of processes, signals and actions.*)
(* The invariant adds to TrapsSound and ExitTrapRan that a process that    *)
(* has not ended and has not called exit inside has run no EXIT trap, and  *)
(* that the stale signals are caught; the part NothingElseIsSet of         *)
(* TrapsSound is there for the others.                                     *)
(***************************************************************************)
EXTENDS Traps, TLAPS

NotRunYet == \A p \in Procs \ inside : phase[p] # "exited" => ran[p].times = 0
StaleAreCaught == \A p \in Procs : \A s \in stale[p] : disp[p][s] = "handler"
Recorded == NotRunYet /\ StaleAreCaught

IInv == TrapsSound /\ ExitTrapRan /\ Recorded

(* A shell starts with an empty store and what it inherited (init_traps).  *)
LEMMA InitTraps == Init => IInv
<1> SUFFICES ASSUME Init PROVE IInv
  OBVIOUS
<1> USE TrapsAssumption
<1>1. /\ phase \in [Procs -> Phases]
      /\ \A p \in Procs : phase[p] # "exited"
  BY DEF Init, Phases
<1>2. \A p \in Procs, s \in Stored : trap[p][s] = Unset
  BY DEF Init, StoreCreate
<1>3. TypeOK
  BY <1>1, <1>2 DEF Init, TypeOK, StoreCreate, Unset, ExitUnset, Entries, OneKind, Dispositions, Times
<1>4. StoreIsInForce
  BY <1>2 DEF Init, StoreIsInForce, Unset, Settable, Stored, Live
<1>5. NothingElseIsSet
  BY DEF Init, NothingElseIsSet, ExitUnset
<1>6. ExitTrapRan /\ Recorded
  BY <1>1 DEF Init, ExitTrapRan, Recorded, NotRunYet, StaleAreCaught
<1> QED
  BY <1>3, <1>4, <1>5, <1>6 DEF IInv, TrapsSound

(* What trap_store_set writes into the store is what it installs.          *)
LEMMA EntryIsInstalled ==
    ASSUME NEW op \in Operands
    PROVE  /\ Entry(op) \in Entries /\ OneKind(Entry(op)) /\ Installed(op) \in Dispositions
           /\ Entry(op).ignored => Installed(op) = "ignore"
           /\ Entry(op).action # NoAction => Installed(op) = "handler"
           /\ Entry(op).default => Installed(op) = "default"
<1> USE TrapsAssumption
    DEF Operands, Entry, Entries, Installed, ActionOf, OneKind, Dispositions
<1>1. CASE op \in Actions
  BY <1>1
<1>2. CASE op = "ignore"
  BY <1>2
<1>3. CASE op = "reset"
  BY <1>3
<1> QED
  BY <1>1, <1>2, <1>3

(* A step that only changes what processes are, to states in which they    *)
(* run no more.                                                            *)
LEMMA AbortKeeps ==
    ASSUME IInv, NEW p \in Procs, Abort(p), phase[p] # "exited"
    PROVE  IInv'
<1> USE DEF Abort
<1>1. \A q \in Procs : phase'[q] = IF q = p THEN "aborted" ELSE phase[q]
  BY DEF IInv, TrapsSound, TypeOK
<1>2. TypeOK'
  BY <1>1 DEF IInv, TrapsSound, TypeOK, OneKind, Phases
<1>3. StoreIsInForce' /\ NothingElseIsSet'
  BY <1>1 DEF IInv, TrapsSound, StoreIsInForce, NothingElseIsSet, Live
<1>4. ExitTrapRan' /\ Recorded'
  BY <1>1 DEF IInv, ExitTrapRan, Recorded, NotRunYet, StaleAreCaught
<1> QED
  BY <1>2, <1>3, <1>4 DEF IInv, TrapsSound

(* builtin_trap with a signal (trap_store_set, trap_store_get).            *)
LEMMA TrapSetKeeps ==
    ASSUME IInv, NEW p \in Procs, NEW s \in Signals, NEW op \in Operands, TrapSet(p, s, op)
    PROVE  IInv'
<1> USE TrapsAssumption
<1>1. CASE s \in Unstored /\ Abort(p)
  BY <1>1, AbortKeeps DEF TrapSet, Runs
<1>2. CASE ~(s \in Unstored /\ Abort(p))
  <2>1. /\ s \in Stored \ Uncatchable
        /\ trap' = [trap EXCEPT ![p][s] = Entry(op)]
        /\ disp' = [disp EXCEPT ![p][s] = Installed(op)]
        /\ stale' = [stale EXCEPT ![p] = @ \ {s}]
        /\ UNCHANGED <<phase, exitTrap, entry, ran, own, inside>>
        /\ Runs(p)
    BY <1>2 DEF TrapSet
  <2>2. /\ \A q \in Procs, t \in Stored : trap'[q][t] = IF q = p /\ t = s THEN Entry(op) ELSE trap[q][t]
        /\ \A q \in Procs, t \in Signals : disp'[q][t] = IF q = p /\ t = s THEN Installed(op) ELSE disp[q][t]
        /\ \A q \in Procs : stale'[q] = IF q = p THEN stale[q] \ {s} ELSE stale[q]
    <3>1. /\ trap \in [Procs -> [Stored -> Entries]] /\ disp \in [Procs -> [Signals -> Dispositions]]
          /\ stale \in [Procs -> SUBSET Stored] /\ s \in Stored
      BY <2>1 DEF IInv, TrapsSound, TypeOK
    <3> QED
      BY <2>1, <3>1
  <2>3. TypeOK'
    BY <2>1, <2>2, EntryIsInstalled DEF IInv, TrapsSound, TypeOK
  <2>4. StoreIsInForce'
    <3> SUFFICES ASSUME NEW q \in Procs, NEW t \in Settable, q \in Live
                 PROVE  /\ trap'[q][t].ignored => disp'[q][t] = "ignore"
                        /\ trap'[q][t].action # NoAction =>
                               disp'[q][t] = IF phase[q] = "program" THEN "default" ELSE "handler"
                        /\ trap'[q][t].default /\ t \notin stale'[q] =>
                               disp'[q][t] = "default" \/ (disp'[q][t] = "ignore" /\ t \in entry)
      BY <2>1 DEF StoreIsInForce, Settable, Live
    <3>1. t \in Stored /\ t \in Signals /\ phase[p] # "program"
      BY <2>1 DEF Settable, Stored, Runs
    <3>2. CASE q = p /\ t = s
      BY <2>2, <3>1, <3>2, EntryIsInstalled
    <3>3. CASE ~(q = p /\ t = s)
      <4>1. /\ trap'[q][t] = trap[q][t] /\ disp'[q][t] = disp[q][t]
            /\ t \in stale[q] <=> t \in stale'[q]
        BY <2>2, <3>1, <3>3
      <4> QED
        BY <4>1 DEF IInv, TrapsSound, StoreIsInForce
    <3> QED
      BY <3>2, <3>3
  <2>5. NothingElseIsSet'
    BY <2>1, <2>2 DEF IInv, TrapsSound, NothingElseIsSet, Stored
  <2>6. ExitTrapRan' /\ NotRunYet'
    BY <2>1 DEF IInv, ExitTrapRan, Recorded, NotRunYet
  <2>7. StaleAreCaught'
    <3> SUFFICES ASSUME NEW q \in Procs, NEW t \in stale'[q] PROVE disp'[q][t] = "handler"
      BY DEF StaleAreCaught
    <3>1. t \in stale[q] /\ ~(q = p /\ t = s)
      BY <2>2
    <3>2. t \in Signals
      BY <3>1 DEF IInv, TrapsSound, TypeOK, Stored
    <3>3. disp[q][t] = "handler"
      BY <3>1 DEF IInv, Recorded, StaleAreCaught
    <3> QED
      BY <2>2, <3>1, <3>2, <3>3
  <2> QED
    BY <2>3, <2>4, <2>5, <2>6, <2>7 DEF IInv, TrapsSound, Recorded
<1> QED
  BY <1>1, <1>2

(* builtin_trap with EXIT (trap_store_set_exit).                           *)
LEMMA TrapSetExitKeeps ==
    ASSUME IInv, NEW p \in Procs, NEW op \in Operands, TrapSetExit(p, op)
    PROVE  IInv'
<1> USE TrapsAssumption
<1>1. ActionOf(op) \in Actions \cup {NoAction}
  BY DEF ActionOf
<1>2. \A q \in Procs : exitTrap'[q] = IF q = p THEN [set |-> TRUE, action |-> ActionOf(op)]
                                      ELSE exitTrap[q]
  BY DEF TrapSetExit, IInv, TrapsSound, TypeOK
<1>3. TypeOK'
  BY <1>1, <1>2 DEF TrapSetExit, IInv, TrapsSound, TypeOK
<1>4. StoreIsInForce'
  BY DEF TrapSetExit, IInv, TrapsSound, StoreIsInForce, Live
<1>5. NothingElseIsSet'
  BY <1>2 DEF TrapSetExit, IInv, TrapsSound, NothingElseIsSet
<1>6. ExitTrapRan' /\ Recorded'
  BY <1>2 DEF TrapSetExit, Runs, IInv, ExitTrapRan, Recorded, NotRunYet, StaleAreCaught
<1> QED
  BY <1>3, <1>4, <1>5, <1>6 DEF IInv, TrapsSound

(* A fork copies the store and the dispositions together.                  *)
LEMMA ForkAsKeeps ==
    ASSUME IInv, NEW p \in Procs, NEW c \in Procs, NEW as \in {"forked", "piped"}, ForkAs(p, c, as)
    PROVE  IInv'
<1>1. /\ trap'[c] = trap[p] /\ exitTrap'[c] = exitTrap[p] /\ disp'[c] = disp[p] /\ phase'[c] = as
      /\ stale'[c] = stale[p]
      /\ \A q \in Procs \ {c} : /\ trap'[q] = trap[q] /\ exitTrap'[q] = exitTrap[q]
                                /\ disp'[q] = disp[q] /\ phase'[q] = phase[q] /\ stale'[q] = stale[q]
  BY DEF ForkAs, IInv, TrapsSound, TypeOK
<1>2. /\ entry' = entry /\ ran' = ran /\ own' = own /\ inside' = inside
      /\ p \in Live /\ phase[p] # "program" /\ phase[c] = "none"
  BY DEF ForkAs, Live, Runs
<1>3. \A q \in Procs, s \in Stored : OneKind(trap'[q][s])
  <2> SUFFICES ASSUME NEW q \in Procs, NEW s \in Stored PROVE OneKind(trap'[q][s])
    OBVIOUS
  <2>1. CASE q = c
    BY <1>1, <2>1 DEF IInv, TrapsSound, TypeOK
  <2>2. CASE q # c
    BY <1>1, <2>2 DEF IInv, TrapsSound, TypeOK
  <2> QED
    BY <2>1, <2>2
<1>4. TypeOK'
  BY <1>2, <1>3 DEF ForkAs, IInv, TrapsSound, TypeOK, Phases
<1>5. StoreIsInForce'
  <2> DEFINE Agrees(q, s) ==
        /\ trap[q][s].ignored => disp[q][s] = "ignore"
        /\ trap[q][s].action # NoAction =>
               disp[q][s] = IF phase[q] = "program" THEN "default" ELSE "handler"
        /\ trap[q][s].default /\ s \notin stale[q] =>
               disp[q][s] = "default" \/ (disp[q][s] = "ignore" /\ s \in entry)
  <2> SUFFICES ASSUME NEW q \in Procs, NEW s \in Settable, q \in Live' PROVE Agrees(q, s)'
    BY <1>2 DEF StoreIsInForce, Settable, Live
  <2>1. CASE q = c
    <3>1. Agrees(p, s)
      BY <1>2 DEF IInv, TrapsSound, StoreIsInForce
    <3>2. phase'[q] # "program" /\ phase[p] # "program"
      BY <1>1, <1>2, <2>1
    <3> QED
      BY <1>1, <1>2, <2>1, <3>1, <3>2
  <2>2. CASE q # c
    <3>1. q \in Live /\ phase'[q] = phase[q]
      BY <1>1, <2>2 DEF Live
    <3>2. Agrees(q, s)
      BY <3>1 DEF IInv, TrapsSound, StoreIsInForce
    <3> QED
      BY <1>1, <1>2, <2>2, <3>1, <3>2
  <2> QED
    BY <2>1, <2>2
<1>6. NothingElseIsSet'
  BY <1>1 DEF IInv, TrapsSound, NothingElseIsSet
<1>7. ExitTrapRan'
  <2> SUFFICES ASSUME NEW q \in own \ inside, phase'[q] = "exited", exitTrap'[q].action # NoAction
               PROVE  ran[q] = [action |-> exitTrap'[q].action, times |-> 1]
    BY <1>2 DEF ExitTrapRan
  <2>1. q \in Procs /\ q # c
    BY <1>1 DEF IInv, TrapsSound, TypeOK
  <2> QED
    BY <1>1, <2>1 DEF IInv, ExitTrapRan
<1>8. NotRunYet'
  BY <1>1, <1>2 DEF IInv, Recorded, NotRunYet
<1>9. StaleAreCaught'
  <2> SUFFICES ASSUME NEW q \in Procs, NEW t \in stale'[q] PROVE disp'[q][t] = "handler"
    BY DEF StaleAreCaught
  <2>1. CASE q = c
    BY <1>1, <2>1 DEF IInv, Recorded, StaleAreCaught
  <2>2. CASE q # c
    BY <1>1, <2>2 DEF IInv, Recorded, StaleAreCaught
  <2> QED
    BY <2>1, <2>2
<1> QED
  BY <1>4, <1>5, <1>6, <1>7, <1>8, <1>9 DEF IInv, TrapsSound, Recorded

(* The entry of every signal that is not ignored is reset; what was caught *)
(* stays caught until the process calls execve (exec_frame_push).          *)
LEMMA PushSubshellKeeps ==
    ASSUME IInv, NEW p \in Procs, PushSubshell(p)
    PROVE  IInv'
<1> USE DEF PushSubshell
<1>1. /\ \A q \in Procs, s \in Stored : trap'[q][s] = IF q = p /\ ~trap[q][s].ignored THEN Unset ELSE trap[q][s]
      /\ \A q \in Procs : stale'[q] = IF q = p THEN {s \in Stored : disp[q][s] = "handler"} ELSE stale[q]
  BY DEF IInv, TrapsSound, TypeOK, ResetNonIgnored
<1>2. \A q \in Procs : phase'[q] = IF q = p THEN "subshell" ELSE phase[q]
  BY DEF IInv, TrapsSound, TypeOK
<1>3. TypeOK'
  <2>1. \A q \in Procs, s \in Stored : OneKind(trap'[q][s])
    BY <1>1 DEF IInv, TrapsSound, TypeOK, OneKind, Unset
  <2>2. trap' \in [Procs -> [Stored -> Entries]]
    BY DEF IInv, TrapsSound, TypeOK, ResetNonIgnored, Unset, Entries
  <2>3. stale' \in [Procs -> SUBSET Stored]
    BY DEF IInv, TrapsSound, TypeOK
  <2> QED
    BY <2>1, <2>2, <2>3, <1>2 DEF IInv, TrapsSound, TypeOK, Phases
<1>4. StoreIsInForce'
  <2> SUFFICES ASSUME NEW q \in Procs, NEW s \in Settable, q \in Live'
               PROVE  /\ trap'[q][s].ignored => disp'[q][s] = "ignore"
                      /\ trap'[q][s].action # NoAction =>
                             disp'[q][s] = IF phase'[q] = "program" THEN "default" ELSE "handler"
                      /\ trap'[q][s].default /\ s \notin stale'[q] =>
                             disp'[q][s] = "default" \/ (disp'[q][s] = "ignore" /\ s \in entry)
    BY DEF StoreIsInForce, Settable, Live
  <2>1. q \in Live /\ s \in Stored /\ s \in Signals /\ disp' = disp
    BY <1>2 DEF Live, Settable, Stored
  <2>2. /\ trap[q][s].ignored => disp[q][s] = "ignore"
        /\ trap[q][s].action # NoAction =>
               disp[q][s] = IF phase[q] = "program" THEN "default" ELSE "handler"
        /\ trap[q][s].default /\ s \notin stale[q] =>
               disp[q][s] = "default" \/ (disp[q][s] = "ignore" /\ s \in entry)
        /\ OneKind(trap[q][s]) /\ disp[q][s] \in Dispositions
    BY <2>1 DEF IInv, TrapsSound, TypeOK, StoreIsInForce
  <2>3. CASE q # p
    BY <1>1, <1>2, <2>1, <2>2, <2>3
  <2>4. CASE q = p /\ trap[q][s].ignored
    <3>1. trap'[q][s] = trap[q][s] /\ trap[q][s].action = NoAction /\ ~trap[q][s].default
      <4>1. trap'[q][s] = trap[q][s]
        <5>1. trap'[q] = ResetNonIgnored(trap[q])
          BY <2>4 DEF IInv, TrapsSound, TypeOK
        <5> QED
          BY <2>1, <2>4, <5>1 DEF ResetNonIgnored
      <4>2. OneKind(trap[q][s]) /\ trap[q][s].ignored /\ trap[q][s] \in Entries
        BY <2>1, <2>2, <2>4 DEF IInv, TrapsSound, TypeOK
      <4> QED
        BY <4>1, <4>2 DEF OneKind, Entries
    <3> QED
      BY <2>1, <2>2, <2>4, <3>1
  <2>5. CASE q = p /\ ~trap[q][s].ignored
    <3>1. trap'[q][s] = Unset
      BY <1>1, <2>1, <2>5
    <3>2. /\ trap'[q][s].action = NoAction /\ trap'[q][s].ignored = FALSE
      BY <3>1 DEF Unset
    <3>3. ASSUME s \notin stale'[q] PROVE disp[q][s] = "default" \/ (disp[q][s] = "ignore" /\ s \in entry)
      <4>1. disp[q][s] # "handler"
        <5>1. stale'[q] = {t \in Stored : disp[q][t] = "handler"}
          BY <1>1, <2>5
        <5> QED
          BY <2>1, <3>3, <5>1
      <4>2. phase[q] # "program"
        BY <2>5 DEF PushSubshell
      <4>3. trap[q][s].action = NoAction
        BY <2>2, <4>1, <4>2
      <4>4. trap[q][s].default
        <5>1. OneKind(trap[q][s]) /\ trap[q][s] \in Entries
          BY <2>1, <2>2 DEF IInv, TrapsSound, TypeOK
        <5> QED
          BY <2>5, <4>3, <5>1 DEF OneKind, Entries
      <4>5. s \notin stale[q]
        BY <4>1 DEF IInv, Recorded, StaleAreCaught
      <4> QED
        BY <2>2, <4>4, <4>5
    <3> QED
      BY <2>1, <3>2, <3>3
  <2> QED
    BY <2>3, <2>4, <2>5
<1>5. NothingElseIsSet' /\ ExitTrapRan' /\ Recorded'
  BY <1>1, <1>2 DEF IInv, TrapsSound, NothingElseIsSet, ExitTrapRan, Recorded, NotRunYet, StaleAreCaught
<1> QED
  BY <1>3, <1>4, <1>5 DEF IInv, TrapsSound

(* A program starts with what was ignored still ignored.                   *)
LEMMA ExecKeeps ==
    ASSUME IInv, NEW p \in Procs, Exec(p)
    PROVE  IInv'
<1> USE DEF Exec
<1>1. \A q \in Procs :
        /\ \A s \in Signals :
               disp'[q][s] = IF q = p /\ disp[q][s] = "handler" THEN "default" ELSE disp[q][s]
        /\ stale'[q] = IF q = p THEN {} ELSE stale[q]
  BY DEF IInv, TrapsSound, TypeOK
<1>2. \A q \in Procs : phase'[q] = IF q = p THEN "program" ELSE phase[q]
  BY DEF IInv, TrapsSound, TypeOK
<1>3. TypeOK'
  BY <1>1, <1>2 DEF IInv, TrapsSound, TypeOK, OneKind, Phases, Dispositions
<1>4. StoreIsInForce'
  <2> SUFFICES ASSUME NEW q \in Procs, NEW s \in Settable, q \in Live'
               PROVE  /\ trap[q][s].ignored => disp'[q][s] = "ignore"
                      /\ trap[q][s].action # NoAction =>
                             disp'[q][s] = IF phase'[q] = "program" THEN "default" ELSE "handler"
                      /\ trap[q][s].default /\ s \notin stale'[q] =>
                             disp'[q][s] = "default" \/ (disp'[q][s] = "ignore" /\ s \in entry)
    BY DEF StoreIsInForce, Settable, Live
  <2>1. q \in Live /\ s \in Stored /\ s \in Signals /\ (q = p => phase[q] # "program")
    BY <1>2 DEF Live, Settable, Stored, Runs
  <2>2. /\ trap[q][s].ignored => disp[q][s] = "ignore"
        /\ trap[q][s].action # NoAction =>
               disp[q][s] = IF phase[q] = "program" THEN "default" ELSE "handler"
        /\ trap[q][s].default /\ s \notin stale[q] =>
               disp[q][s] = "default" \/ (disp[q][s] = "ignore" /\ s \in entry)
    BY <2>1 DEF IInv, TrapsSound, StoreIsInForce
  <2>3. CASE q # p
    BY <1>1, <1>2, <2>1, <2>2, <2>3
  <2>4. CASE q = p
    <3>1. s \in stale[q] => disp[q][s] = "handler"
      BY DEF IInv, Recorded, StaleAreCaught
    <3> QED
      BY <1>1, <1>2, <2>1, <2>2, <2>4, <3>1
  <2> QED
    BY <2>3, <2>4
<1>5. NothingElseIsSet'
  BY <1>1, TrapsAssumption DEF IInv, TrapsSound, NothingElseIsSet
<1>6. ExitTrapRan' /\ NotRunYet'
  BY <1>2 DEF Runs, IInv, ExitTrapRan, Recorded, NotRunYet
<1>7. StaleAreCaught'
  <2> SUFFICES ASSUME NEW q \in Procs, NEW t \in stale'[q] PROVE disp'[q][t] = "handler"
    BY DEF StaleAreCaught
  <2>1. q # p /\ t \in stale[q]
    BY <1>1
  <2>2. t \in Signals /\ disp[q][t] = "handler"
    BY <2>1 DEF IInv, TrapsSound, TypeOK, Recorded, StaleAreCaught, Stored
  <2> QED
    BY <1>1, <2>1, <2>2
<1> QED
  BY <1>3, <1>4, <1>5, <1>6, <1>7 DEF IInv, TrapsSound, Recorded

(* The steps that end a process, or run its EXIT trap, touch neither the   *)
(* store nor the dispositions.                                             *)
LEMMA EndingKeeps ==
    ASSUME IInv, NEW p \in Procs,
           \/ ExitAtTop(p) \/ ExitInside(p) \/ Pop(p) \/ PipedEnds(p)
           \/ \E s \in Signals : Signal(p, s)
    PROVE  IInv'
<1>1. UNCHANGED <<trap, exitTrap, disp, entry, stale, own>>
  BY DEF ExitAtTop, ExitInside, Pop, PipedEnds, Signal
<1>2. PICK to \in {"exited", "left", "killed", "aborted"} :
        \/ phase' = phase
        \/ phase' = [phase EXCEPT ![p] = to]
  BY DEF ExitAtTop, ExitInside, Pop, PipedEnds, Signal
<1>3. \/ ran' = ran
      \/ /\ ran' = [ran EXCEPT ![p] = [action |-> exitTrap[p].action,
                                       times |-> IF @.times + 1 \in Times THEN @.times + 1 ELSE @.times]]
         /\ p \in inside' \/ phase'[p] = "exited"
  BY DEF ExitAtTop, ExitInside, Pop, PipedEnds, Signal, FrameRunExitTraps, RunExitTrap, IInv, TrapsSound, TypeOK
<1>4. inside' \in {inside, inside \cup {p}}
  BY DEF ExitAtTop, ExitInside, Pop, PipedEnds, Signal
<1>5. \A q \in Procs : q # p \/ q \in Live' => phase'[q] = phase[q]
  BY <1>2 DEF Live, IInv, TrapsSound, TypeOK
<1>6. TypeOK'
  <2>1. phase' \in [Procs -> Phases]
    BY <1>2 DEF IInv, TrapsSound, TypeOK, Phases
  <2>2. ran' \in [Procs -> [action : Actions \cup {NoAction}, times : Times]]
    <3>1. /\ ran \in [Procs -> [action : Actions \cup {NoAction}, times : Times]]
          /\ exitTrap[p].action \in Actions \cup {NoAction}
      BY DEF IInv, TrapsSound, TypeOK
    <3> QED
      BY <1>3, <3>1
  <2> QED
    BY <1>1, <1>4, <2>1, <2>2 DEF IInv, TrapsSound, TypeOK, OneKind
<1>7. StoreIsInForce' /\ NothingElseIsSet'
  BY <1>1, <1>5 DEF IInv, TrapsSound, StoreIsInForce, NothingElseIsSet, Live
<1>8. ASSUME NEW q \in Procs, q # p PROVE ran'[q] = ran[q] /\ phase'[q] = phase[q]
  BY <1>3, <1>5, <1>8 DEF IInv, TrapsSound, TypeOK
<1>9. phase[p] # "exited"
  BY DEF ExitAtTop, ExitInside, Pop, PipedEnds, Signal, Runs
<1>10. ASSUME p \notin inside'
       PROVE  /\ phase'[p] # "exited" => ran'[p].times = 0
              /\ p \in own /\ phase'[p] = "exited" /\ exitTrap[p].action # NoAction =>
                     ran'[p] = [action |-> exitTrap[p].action, times |-> 1]
  <2>1. p \notin inside /\ ran[p].times = 0
    BY <1>4, <1>9, <1>10 DEF IInv, Recorded, NotRunYet
  <2>2. CASE phase'[p] # "exited"
    BY <1>3, <1>10, <2>1, <2>2
  <2>3. CASE phase'[p] = "exited" /\ exitTrap[p].action # NoAction
    <3>1. exitTrap[p].set
      BY <2>3 DEF IInv, TrapsSound, NothingElseIsSet
    <3>2. ExitAtTop(p) \/ Pop(p)
      BY <1>9, <2>3 DEF ExitInside, PipedEnds, Signal, IInv, TrapsSound, TypeOK
    <3>3. RunExitTrap(p)
      BY <2>3, <3>1, <3>2 DEF ExitAtTop, Pop, FrameRunExitTraps, IInv, TrapsSound, TypeOK
    <3>4. 0 + 1 \in Times /\ 0 + 1 = 1
      BY DEF Times
    <3> QED
      BY <2>1, <2>3, <3>3, <3>4 DEF RunExitTrap, IInv, TrapsSound, TypeOK
  <2> QED
    BY <2>2, <2>3
<1>11. ASSUME NEW q \in Procs, q \notin inside'
       PROVE  /\ phase'[q] # "exited" => ran'[q].times = 0
              /\ q \in own /\ phase'[q] = "exited" /\ exitTrap[q].action # NoAction =>
                     ran'[q] = [action |-> exitTrap[q].action, times |-> 1]
  <2>1. CASE q = p
    BY <1>10, <1>11, <2>1
  <2>2. CASE q # p
    <3>1. q \notin inside
      BY <1>4, <1>11
    <3> QED
      BY <1>8, <2>2, <3>1 DEF IInv, ExitTrapRan, Recorded, NotRunYet
  <2> QED
    BY <2>1, <2>2
<1>12. ExitTrapRan' /\ NotRunYet'
  <2>1. ASSUME NEW q \in Procs, q \in own' \ inside', phase'[q] = "exited", exitTrap'[q].action # NoAction
        PROVE  ran'[q] = [action |-> exitTrap'[q].action, times |-> 1]
    BY <1>1, <1>11, <2>1
  <2>2. own' \subseteq Procs
    BY <1>6 DEF TypeOK
  <2>3. ExitTrapRan'
    BY <2>1, <2>2 DEF ExitTrapRan
  <2>4. NotRunYet'
    BY <1>11 DEF NotRunYet
  <2> QED
    BY <2>3, <2>4
<1>13. StaleAreCaught'
  BY <1>1 DEF IInv, Recorded, StaleAreCaught
<1> QED
  BY <1>6, <1>7, <1>12, <1>13 DEF IInv, TrapsSound, Recorded

LEMMA NextTraps == IInv /\ [Next]_vars => IInv'
<1> SUFFICES ASSUME IInv, [Next]_vars PROVE IInv'
  OBVIOUS
<1>1. CASE UNCHANGED vars
  BY <1>1 DEF vars, IInv, TrapsSound, TypeOK, OneKind, StoreIsInForce, Live, NothingElseIsSet,
              ExitTrapRan, Recorded, NotRunYet, StaleAreCaught
<1>2. ASSUME NEW p \in Procs, BuiltinTrap(p) PROVE IInv'
  <2>1. CASE \E op \in Operands : TrapSetExit(p, op) \/ \E s \in Signals : TrapSet(p, s, op)
    BY <2>1, TrapSetKeeps, TrapSetExitKeeps
  <2>2. CASE \E s \in Signals : TrapShow(p, s)
    BY <2>2, AbortKeeps DEF TrapShow, Runs
  <2> QED
    BY <1>2, <2>1, <2>2 DEF BuiltinTrap
<1>3. ASSUME NEW p \in Procs, NEW c \in Procs, Fork(p, c) \/ ForkPiped(p, c) PROVE IInv'
  BY <1>3, ForkAsKeeps DEF Fork, ForkPiped
<1>4. ASSUME NEW p \in Procs, PushSubshell(p) PROVE IInv'
  BY <1>4, PushSubshellKeeps
<1>5. ASSUME NEW p \in Procs, Exec(p) PROVE IInv'
  BY <1>5, ExecKeeps
<1>6. ASSUME NEW p \in Procs,
             \/ ExitAtTop(p) \/ ExitInside(p) \/ Pop(p) \/ PipedEnds(p)
             \/ \E s \in Signals : Signal(p, s)
      PROVE  IInv'
  BY <1>6, EndingKeeps
<1> QED
  BY <1>1, <1>2, <1>3, <1>4, <1>5, <1>6 DEF Next

LEMMA InductiveTraps == Spec => []IInv
BY InitTraps, NextTraps, PTL DEF Spec

(* In every process, what trap lists is what the system does: ignored,     *)
(* caught or at its default, the signals that a subshell reset while they  *)
(* were caught excepted (trap_store_set, trap_store_reset_non_ignored).    *)
THEOREM StoreAlwaysInForce == Spec => []TrapsSound
<1>1. IInv => TrapsSound
  BY DEF IInv
<1> QED
  BY <1>1, InductiveTraps, PTL

(* A process that ends on its own, and never called exit where that does   *)
(* not end it, has run the EXIT trap it set, and once: the test of         *)
(* frame_run_exit_traps on the action and that of exec_frame_pop on the    *)
(* flag never disagree.                                                    *)
THEOREM ExitTrapAlwaysRan == Spec => []ExitTrapRan
<1>1. IInv => ExitTrapRan
  BY DEF IInv
<1> QED
  BY <1>1, InductiveTraps, PTL

(* No signal with an action, and none that is ignored, ends a process that *)
(* runs the user's commands; and what is ignored stays so through every    *)
(* fork, push and execve (init_traps).                                     *)
THEOREM SignalsTreatedAsTrapped == Spec => SignalsAsTrapped
<1>1. ASSUME IInv, [Next]_vars
      PROVE  [\A p \in Procs, s \in Settable : Signal(p, s) /\ Runs(p) => trap[p][s].default]_vars
  <2> SUFFICES ASSUME NEW p \in Procs, NEW s \in Settable, Signal(p, s), Runs(p)
               PROVE  trap[p][s].default
    OBVIOUS
  <2>1. p \in Live /\ s \in Stored /\ phase[p] # "program"
    BY DEF Signal, Live, Settable, Runs
  <2> QED
    BY <1>1, <2>1 DEF Signal, IInv, TrapsSound, TypeOK, OneKind, StoreIsInForce
<1>2. ASSUME IInv, [Next]_vars
      PROVE  [\A p, c \in Procs, s \in Settable :
                /\ trap[p][s].ignored
                /\ \/ phase[c] = "none" /\ (Fork(p, c) \/ ForkPiped(p, c))
                   \/ c = p /\ (PushSubshell(p) \/ Exec(p))
                => trap'[c][s].ignored /\ disp'[c][s] = "ignore"]_vars
  <2> SUFFICES ASSUME NEW p \in Procs, NEW c \in Procs, NEW s \in Settable, trap[p][s].ignored,
                      \/ Fork(p, c) \/ ForkPiped(p, c)
                      \/ c = p /\ (PushSubshell(p) \/ Exec(p))
               PROVE  trap'[c][s].ignored /\ disp'[c][s] = "ignore"
    OBVIOUS
  <2>1. s \in Stored /\ s \in Signals
    BY DEF Settable, Stored
  <2>2. disp[p][s] = "ignore"
    <3>1. p \in Live
      BY DEF Fork, ForkPiped, ForkAs, PushSubshell, Exec, Runs, Live
    <3> QED
      BY <1>2, <3>1 DEF IInv, TrapsSound, StoreIsInForce
  <2>3. CASE Fork(p, c) \/ ForkPiped(p, c)
    BY <1>2, <2>2, <2>3 DEF Fork, ForkPiped, ForkAs, IInv, TrapsSound, TypeOK
  <2>4. CASE c = p /\ PushSubshell(p)
    BY <1>2, <2>1, <2>2, <2>4 DEF PushSubshell, ResetNonIgnored, IInv, TrapsSound, TypeOK
  <2>5. CASE c = p /\ Exec(p)
    BY <1>2, <2>1, <2>2, <2>5 DEF Exec, IInv, TrapsSound, TypeOK
  <2> QED
    BY <2>3, <2>4, <2>5
<1> QED
  BY <1>1, <1>2, InductiveTraps, PTL
     DEF Spec, SignalsAsTrapped, TrappedSignalIsSurvived, IgnoredIsInherited
=============================================================================
