------------------------- MODULE RedirectionsProofs -------------------------
(***************************************************************************)
(* Theorems about Redirections, for every set of descriptors and every     *)
(* length and depth: what one descriptor table knows about the open        *)
(* descriptors stays true whichever save or redirection fails, and through *)
(* functions, groups and children.                                         *)
(***************************************************************************)
EXTENDS Redirections, WellFoundedInduction, TLAPS

\* A table that agrees with the descriptors `d`.  The last conjunct is the strengthening:
\* a descriptor that has a backup is not saved again, because it is flagged as redirected,
\* or closed, or still to be redirected by the running command (it is in `pending`).
Sound(d, t, pending) ==
    /\ d \in [Fds -> OpenFiles]
    /\ t \in [Fds -> Entry]
    /\ \A f \in Spares : d[f] = Nothing
    /\ \A b \in Fds : HasFlag(t, b, "saved") <=> (b \in Backups /\ d[b] # Nothing)
    /\ \A b \in SavedFds(t) : t[b].original_fd \in Targets
    /\ \A b, c \in SavedFds(t) : t[b].original_fd = t[c].original_fd => b = c
    /\ \A b \in SavedFds(t) :
          \/ t[b].original_fd \in pending
          \/ HasFlag(t, t[b].original_fd, "redirected")
          \/ d[t[b].original_fd] = Nothing

Remaining == {run.redirs[k].to : k \in {j \in DOMAIN run.redirs : j >= run.at}}
Pending == Remaining \ run.unsaved

Run == [kind : {"none", "builtin", "function", "definition", "program"},
        redirs : Seq(Redirection), at : Nat \ {0}, unsaved : SUBSET Targets,
        before : [fd : [Fds -> OpenFiles], clean : BOOLEAN]]

ChildKinds == {"program", "subshell"}
Scope == [kind : {"function", "group"}]
    \cup [kind : ChildKinds, fd : [Fds -> OpenFiles], table : [Fds -> Entry]]

NoFunction(n) == \A k \in 1..n : scopes[k].kind # "function"

TypeInv ==
    /\ pc \in {"ready", "apply", "running", "unwind"}
    /\ run \in Run
    /\ scopes \in Seq(Scope)

\* Which command runs in which scope.
RunInv ==
    /\ pc \in {"ready", "unwind"} => run = NoCommand
    /\ run.unsaved \subseteq Remaining
    /\ run.kind = "program" => scopes # <<>> /\ Innermost.kind = "program"
    /\ run.kind = "definition" => scopes # <<>> /\ Innermost.kind = "function"

\* What the shell keeps while a child runs is sound too, and has no backups outside functions.
ScopesInv ==
    \A k \in 1..Len(scopes) : scopes[k].kind \in ChildKinds =>
        /\ Sound(scopes[k].fd, scopes[k].table, {})
        /\ NoFunction(k - 1) => SavedFds(scopes[k].table) = {}

OutsideInv == pc \in {"ready", "unwind"} /\ NoFunction(Len(scopes)) => SavedFds(table) = {}

IInv ==
    /\ TypeInv
    /\ Sound(fd, table, Pending)
    /\ RunInv
    /\ ScopesInv
    /\ OutsideInv

-----------------------------------------------------------------------------
(* Descriptors and tables.                                                 *)

LEMMA Numbers ==
    /\ Stdin \in Targets /\ Stdout \in Targets
    /\ Backups \cap Targets = {} /\ Backups \cap Spares = {} /\ Targets \cap Spares = {}
    /\ Targets \subseteq Fds /\ Spares \subseteq Fds /\ Backups \subseteq Fds
<1>1. \A b \in Backups : b \notin Targets \cup Spares
  BY RedirectionsAssumption DEF Fds
<1> QED
  BY <1>1, RedirectionsAssumption DEF Fds

LEMMA NothingIsOpenFile == Nothing \in OpenFiles
BY DEF OpenFiles

LEMMA MorePendingIsSound ==
    ASSUME NEW d, NEW t, NEW P, NEW Q, Sound(d, t, P), P \subseteq Q
    PROVE  Sound(d, t, Q)
BY DEF Sound

\* What happens to a target leaves the backups alone: redirected, or closed.
LEMMA TargetChanged ==
    ASSUME NEW d, NEW t, NEW P, NEW Q, Sound(d, t, P),
           NEW f \in Targets, P \subseteq Q \cup {f},
           NEW D \in [Fds -> OpenFiles], NEW T \in [Fds -> Entry],
           \A g \in Fds : g # f => T[g] = t[g] /\ D[g] = d[g],
           HasFlag(T, f, "saved") <=> HasFlag(t, f, "saved"),
           HasFlag(T, f, "redirected") \/ D[f] = Nothing
    PROVE  Sound(D, T, Q) /\ SavedFds(T) = SavedFds(t)
<1>1. f \in Fds /\ f \notin Backups /\ f \notin Spares
  BY Numbers
<1>4. \A g \in Fds : HasFlag(T, g, "saved") <=> HasFlag(t, g, "saved")
  BY DEF HasFlag
<1>5. SavedFds(T) = SavedFds(t)
  BY <1>4 DEF SavedFds
<1>6. \A b \in SavedFds(t) : b # f /\ T[b] = t[b]
  BY <1>1 DEF Sound, SavedFds
<1>7. \A b \in SavedFds(T) :
         \/ T[b].original_fd \in Q
         \/ HasFlag(T, T[b].original_fd, "redirected")
         \/ D[T[b].original_fd] = Nothing
  <2> SUFFICES ASSUME NEW b \in SavedFds(t)
               PROVE  \/ t[b].original_fd \in Q
                      \/ HasFlag(T, t[b].original_fd, "redirected")
                      \/ D[t[b].original_fd] = Nothing
    BY <1>5, <1>6
  <2>1. t[b].original_fd \in Fds
    BY Numbers DEF Sound
  <2>2. CASE t[b].original_fd = f
    BY <2>2
  <2>3. CASE t[b].original_fd # f
    BY <2>1, <2>3 DEF Sound, HasFlag
  <2> QED
    BY <2>2, <2>3
<1>8. \A g \in Spares : D[g] = Nothing
  BY <1>1, Numbers DEF Sound
<1>9. \A b \in Fds : HasFlag(T, b, "saved") <=> (b \in Backups /\ D[b] # Nothing)
  BY <1>1, <1>4 DEF Sound
<1> QED
  BY <1>5, <1>6, <1>7, <1>8, <1>9 DEF Sound

LEMMA WithFlags ==
    ASSUME NEW t \in [Fds -> Entry], NEW f \in Fds, NEW flags \in SUBSET Flags
    PROVE  LET T == [t EXCEPT ![f].flags = flags]
           IN  /\ T \in [Fds -> Entry]
               /\ T[f].flags = flags
               /\ \A g \in Fds : g # f => T[g] = t[g]
<1> DEFINE e == [t[f] EXCEPT !.flags = flags]
<1>1. e \in Entry /\ e.flags = flags
  BY DEF Entry
<1>2. [t EXCEPT ![f].flags = flags] = [t EXCEPT ![f] = e]
  OBVIOUS
<1> QED
  BY <1>1, <1>2

LEMMA RedirectedIsSound ==
    ASSUME NEW d, NEW t, NEW P, NEW Q, Sound(d, t, P),
           NEW f \in Targets, P \subseteq Q \cup {f}, NEW file \in OpenFiles,
           NEW dd, dd = [d EXCEPT ![f] = file],
           NEW tt, tt = Add(t, f, {"redirected"})
    PROVE  Sound(dd, tt, Q) /\ SavedFds(tt) = SavedFds(t)
<1> DEFINE D == [d EXCEPT ![f] = file]
           T == Add(t, f, {"redirected"})
<1>1. f \in Fds /\ f \notin Backups /\ d \in [Fds -> OpenFiles] /\ t \in [Fds -> Entry]
  BY Numbers DEF Sound
<1>2. /\ T \in [Fds -> Entry] /\ T[f].flags = {"redirected"}
      /\ \A g \in Fds : g # f => T[g] = t[g]
  BY ZenonT(30), <1>1, WithFlags DEF Add, Flags
<1>3. D \in [Fds -> OpenFiles] /\ \A g \in Fds : g # f => D[g] = d[g]
  BY <1>1
<1>4. HasFlag(T, f, "redirected") /\ ~HasFlag(T, f, "saved") /\ ~HasFlag(t, f, "saved")
  BY <1>1, <1>2 DEF HasFlag, Sound
<1>5. Sound(D, T, Q) /\ SavedFds(T) = SavedFds(t)
  <2> HIDE DEF D, T
  <2> QED
    BY <1>2, <1>3, <1>4, TargetChanged
<1> QED
  BY <1>5

LEMMA ClosedIsSound ==
    ASSUME NEW d, NEW t, NEW P, NEW Q, Sound(d, t, P), NEW f \in Targets, P \subseteq Q \cup {f},
           NEW dd, dd = [d EXCEPT ![f] = Nothing],
           NEW tt, tt = Clear(t, f, "redirected")
    PROVE  Sound(dd, tt, Q)
<1> DEFINE D == [d EXCEPT ![f] = Nothing]
           T == Clear(t, f, "redirected")
<1>1. f \in Fds /\ f \notin Backups /\ d \in [Fds -> OpenFiles] /\ t \in [Fds -> Entry]
  BY Numbers DEF Sound
<1> DEFINE kept == t[f].flags \ {"redirected"}
<1>2. kept \in SUBSET Flags
  BY <1>1 DEF Entry
<1>3. T = [t EXCEPT ![f].flags = kept]
  BY DEF Clear
<1>4. T \in [Fds -> Entry] /\ T[f].flags = kept /\ \A g \in Fds : g # f => T[g] = t[g]
  <2> HIDE DEF T, kept
  <2> QED
    BY ZenonT(30), <1>1, <1>2, <1>3, WithFlags
<1>5. D \in [Fds -> OpenFiles] /\ D[f] = Nothing /\ \A g \in Fds : g # f => D[g] = d[g]
  BY <1>1, NothingIsOpenFile
<1>6. ~HasFlag(T, f, "saved") /\ ~HasFlag(t, f, "saved")
  BY <1>1, <1>4 DEF HasFlag, Sound
<1>7. Sound(D, T, Q)
  <2> HIDE DEF D, T
  <2> QED
    BY <1>4, <1>5, <1>6, TargetChanged
<1> QED
  BY <1>7

\* A frame without pipes.
LEMMA PlumbedIsSound ==
    ASSUME NEW d, NEW t, Sound(d, t, {})
    PROVE  /\ Sound(PlumbedFds(d), PlumbedTable(t), {})
           /\ SavedFds(PlumbedTable(t)) = SavedFds(t)
<1> DEFINE D == PlumbedFds(d)
           T == Add(t, Stdin, {"redirected"})
           U == PlumbedTable(t)
           file == D[Stdout]
<1>1. Sound(D, T, {}) /\ SavedFds(T) = SavedFds(t)
  BY RedirectedIsSound, Numbers, NothingIsOpenFile DEF PlumbedFds
<1>2. file \in OpenFiles /\ D = [D EXCEPT ![Stdout] = file]
  BY <1>1, Numbers DEF Sound
<1>3. U = Add(T, Stdout, {"redirected"})
  BY DEF PlumbedTable
<1>4. Sound(D, U, {}) /\ SavedFds(U) = SavedFds(T)
  <2> HIDE DEF D, T, U, file
  <2> QED
    BY <1>1, <1>2, <1>3, Numbers, RedirectedIsSound
<1> QED
  BY <1>1, <1>4

\* Restoring: no backup is left.
LEMMA RestoredIsSound ==
    ASSUME NEW d, NEW t, NEW P, NEW Q, Sound(d, t, P)
    PROVE  /\ Sound(RestoredFds(d, t), RestoredTable(t), Q)
           /\ SavedFds(RestoredTable(t)) = {}
<1> DEFINE D == RestoredFds(d, t)
           T == RestoredTable(t)
<1>1. d \in [Fds -> OpenFiles] /\ t \in [Fds -> Entry]
  BY DEF Sound
<1>2. \A f \in Fds : BackupsOf(t, f) \subseteq SavedFds(t) /\ SavedFds(t) \subseteq Fds
  BY DEF BackupsOf, SavedFds
<1>3. \A f \in Fds \ Targets : BackupsOf(t, f) = {}
  BY DEF BackupsOf, Sound
<1>4. D \in [Fds -> OpenFiles]
  <2> SUFFICES ASSUME NEW f \in Fds
               PROVE  D[f] \in OpenFiles /\ D = [g \in Fds |-> D[g]]
    BY DEF RestoredFds
  <2>1. CASE BackupsOf(t, f) # {}
    <3>1. (CHOOSE b \in BackupsOf(t, f) : TRUE) \in BackupsOf(t, f)
      BY <2>1
    <3> QED
      BY <3>1, <1>1, <1>2, NothingIsOpenFile DEF RestoredFds
  <2>2. CASE BackupsOf(t, f) = {}
    BY <2>2, <1>1, NothingIsOpenFile DEF RestoredFds
  <2> QED
    BY <2>1, <2>2
<1>5. T \in [Fds -> Entry] /\ \A f \in Fds : ~HasFlag(T, f, "saved")
  <2> SUFFICES ASSUME NEW f \in Fds
               PROVE  T[f] \in Entry /\ "saved" \notin T[f].flags
    BY DEF RestoredTable, HasFlag
  <2>1. CASE f \in SavedFds(t)
    BY <2>1 DEF RestoredTable, Untracked, Entry, Flags
  <2>2. CASE f \notin SavedFds(t)
    <3>1. t[f] \in Entry /\ "saved" \notin t[f].flags
      BY <2>2, <1>1 DEF SavedFds, HasFlag
    <3>2. T[f] = t[f] \/ T[f] = [t[f] EXCEPT !.flags = @ \ {"redirected"}]
      BY <2>2 DEF RestoredTable
    <3> QED
      BY <3>1, <3>2 DEF Entry, Flags
  <2> QED
    BY <2>1, <2>2
<1>6. SavedFds(T) = {}
  BY <1>5 DEF SavedFds
<1>7. \A f \in Fds \ Targets : D[f] = IF f \in SavedFds(t) THEN Nothing ELSE d[f]
  BY <1>3 DEF RestoredFds
<1>8. \A f \in Spares : D[f] = Nothing
  BY <1>7, Numbers DEF Sound
<1>9. \A b \in Backups : D[b] = Nothing
  BY <1>7, Numbers DEF Sound, SavedFds
<1> QED
  BY <1>4, <1>5, <1>6, <1>8, <1>9 DEF Sound

\* Saving a descriptor that is open and not redirected, and has no backup for that reason.
LEMMA SavedIsSound ==
    ASSUME NEW d, NEW t, NEW P, NEW Q, Sound(d, t, P), P \subseteq Q,
           NEW f \in Targets, f \notin P, f \in Q,
           ~HasFlag(t, f, "redirected"), d[f] # Nothing,
           NEW b \in Backups, d[b] = Nothing,
           NEW D, D = [d EXCEPT ![b] = d[f]],
           NEW T, T = Track(t, b, f)
    PROVE  Sound(D, T, Q)
<1> DEFINE e == [flags |-> {"saved"}, original_fd |-> f]
<1>1. /\ d \in [Fds -> OpenFiles] /\ t \in [Fds -> Entry]
      /\ f \in Fds /\ b \in Fds /\ b \notin Targets /\ b \notin Spares
  BY Numbers DEF Sound
<1>2. e \in Entry
  BY DEF Entry, Flags
<1>3. /\ T \in [Fds -> Entry] /\ T[b] = e
      /\ \A g \in Fds : g # b => T[g] = t[g] /\ D[g] = d[g]
      /\ D \in [Fds -> OpenFiles] /\ D[b] = d[f]
  BY <1>1, <1>2 DEF Track
<1>4. HasFlag(T, b, "saved") /\ T[b].original_fd = f
  BY <1>3 DEF HasFlag
<1>5. \A g \in Fds : HasFlag(T, g, "saved") <=> (g \in Backups /\ D[g] # Nothing)
  <2> SUFFICES ASSUME NEW g \in Fds, g # b
               PROVE  HasFlag(T, g, "saved") <=> (g \in Backups /\ D[g] # Nothing)
    BY <1>3, <1>4
  <2> QED
    BY <1>3 DEF Sound, HasFlag
<1>6. SavedFds(T) = SavedFds(t) \cup {b}
  <2>1. \A g \in Fds : g # b => (HasFlag(T, g, "saved") <=> HasFlag(t, g, "saved"))
    BY <1>3 DEF HasFlag
  <2> QED
    BY <2>1, <1>1, <1>4 DEF SavedFds
<1>7. b \notin SavedFds(t)
  BY DEF Sound, SavedFds
<1>8. \A c \in SavedFds(t) : T[c] = t[c] /\ c \in Fds
  BY <1>3, <1>7 DEF SavedFds
<1>9. \A c \in SavedFds(t) : t[c].original_fd # f /\ t[c].original_fd \in Targets
  BY DEF Sound
<1>10. \A c \in SavedFds(T) : T[c].original_fd \in Targets
  BY <1>4, <1>6, <1>8, <1>9
<1>11. \A c, g \in SavedFds(T) : T[c].original_fd = T[g].original_fd => c = g
  <2> SUFFICES ASSUME NEW c \in SavedFds(T), NEW g \in SavedFds(T),
                      T[c].original_fd = T[g].original_fd
               PROVE  c = g
    OBVIOUS
  <2>1. CASE c \in SavedFds(t) /\ g \in SavedFds(t)
    BY <2>1, <1>8 DEF Sound
  <2>2. CASE c = b \/ g = b
    BY <2>2, <1>4, <1>6, <1>8, <1>9
  <2> QED
    BY <2>1, <2>2, <1>6
<1>12. \A c \in SavedFds(T) :
         \/ T[c].original_fd \in Q
         \/ HasFlag(T, T[c].original_fd, "redirected")
         \/ D[T[c].original_fd] = Nothing
  <2> SUFFICES ASSUME NEW c \in SavedFds(t)
               PROVE  \/ t[c].original_fd \in Q
                      \/ HasFlag(T, t[c].original_fd, "redirected")
                      \/ D[t[c].original_fd] = Nothing
    BY <1>4, <1>6, <1>8
  <2>1. t[c].original_fd \in Fds /\ t[c].original_fd # b
    BY <1>1, <1>9, Numbers
  <2> QED
    BY <2>1, <1>3 DEF Sound, HasFlag
<1>13. \A g \in Spares : D[g] = Nothing
  BY <1>1, <1>3, Numbers DEF Sound
<1> QED
  BY <1>3, <1>5, <1>10, <1>11, <1>12, <1>13 DEF Sound

-----------------------------------------------------------------------------
(* Commands and scopes.                                                    *)

LEMMA NoCommandTyped == NoCommand \in Run /\ NoCommand.redirs = <<>> /\ NoCommand.unsaved = {}
BY NothingIsOpenFile DEF NoCommand, Run

LEMMA NothingPending ==
    ASSUME run \in Run, run.redirs = <<>> \/ run.at > Len(run.redirs)
    PROVE  Pending = {}
<1>1. DOMAIN run.redirs = 1..Len(run.redirs) /\ run.at \in Nat \ {0} /\ Len(run.redirs) \in Nat
  BY DEF Run
<1>2. run.redirs = <<>> => Len(run.redirs) = 0
  OBVIOUS
<1>3. {j \in DOMAIN run.redirs : j >= run.at} = {}
  BY <1>1, <1>2
<1> QED
  BY <1>3 DEF Pending, Remaining

LEMMA Outward ==
    ASSUME scopes \in Seq(Scope), scopes # <<>>
    PROVE  /\ Outer \in Seq(Scope)
           /\ Len(Outer) = Len(scopes) - 1
           /\ Len(scopes) \in Nat \ {0}
           /\ \A k \in 1..(Len(scopes) - 1) : Outer[k] = scopes[k]
           /\ Innermost \in Scope
BY DEF Outer, Innermost

LEMMA Left ==
    ASSUME scopes \in Seq(Scope), ScopesInv, scopes # <<>>, scopes' = Outer
    PROVE  /\ scopes' \in Seq(Scope)
           /\ ScopesInv'
           /\ NoFunction(Len(scopes))' => NoFunction(Len(scopes) - 1)
<1>1. /\ scopes' \in Seq(Scope)
      /\ Len(scopes') = Len(scopes) - 1
      /\ Len(scopes) \in Nat \ {0}
      /\ \A k \in 1..(Len(scopes) - 1) : scopes'[k] = scopes[k]
  BY Outward
<1>2. \A n \in 0..(Len(scopes) - 1) : NoFunction(n)' <=> NoFunction(n)
  BY <1>1 DEF NoFunction
<1>3. NoFunction(Len(scopes))' <=> \A k \in 1..(Len(scopes) - 1) : scopes'[k].kind # "function"
  BY <1>1 DEF NoFunction
<1>4. NoFunction(Len(scopes))' => NoFunction(Len(scopes) - 1)
  BY <1>1, <1>3 DEF NoFunction
<1>5. ScopesInv'
  <2> SUFFICES ASSUME NEW k \in 1..(Len(scopes) - 1), scopes[k].kind \in ChildKinds
               PROVE  /\ Sound(scopes[k].fd, scopes[k].table, {})
                      /\ NoFunction(k - 1)' => SavedFds(scopes[k].table) = {}
    BY <1>1 DEF ScopesInv
  <2>1. NoFunction(k - 1)' <=> NoFunction(k - 1)
    BY <1>1, <1>2
  <2>2. k \in 1..Len(scopes)
    BY <1>1
  <2>3. /\ Sound(scopes[k].fd, scopes[k].table, {})
        /\ NoFunction(k - 1) => SavedFds(scopes[k].table) = {}
    BY <2>2 DEF ScopesInv
  <2> QED
    BY <2>1, <2>3
<1> QED
  BY <1>1, <1>4, <1>5

LEMMA Entered ==
    ASSUME scopes \in Seq(Scope), ScopesInv,
           NEW s \in Scope, scopes' = Append(scopes, s),
           s.kind \in ChildKinds => /\ Sound(s.fd, s.table, {})
                                    /\ NoFunction(Len(scopes)) => SavedFds(s.table) = {}
    PROVE  /\ scopes' \in Seq(Scope)
           /\ ScopesInv'
           /\ scopes' # <<>> /\ Innermost' = s
           /\ NoFunction(Len(scopes))' => NoFunction(Len(scopes)) /\ s.kind # "function"
<1>1. /\ scopes' \in Seq(Scope)
      /\ Len(scopes) \in Nat
      /\ Len(scopes') = Len(scopes) + 1
      /\ \A k \in 1..Len(scopes) : scopes'[k] = scopes[k]
      /\ scopes'[Len(scopes) + 1] = s
  OBVIOUS
<1>2. \A n \in 0..Len(scopes) : NoFunction(n)' <=> NoFunction(n)
  BY <1>1 DEF NoFunction
<1>3. NoFunction(Len(scopes))' => NoFunction(Len(scopes)) /\ s.kind # "function"
  <2>1. NoFunction(Len(scopes))' <=> \A k \in 1..(Len(scopes) + 1) : scopes'[k].kind # "function"
    BY <1>1 DEF NoFunction
  <2> QED
    BY <1>1, <2>1 DEF NoFunction
<1>4. ScopesInv'
  <2> SUFFICES ASSUME NEW k \in 1..(Len(scopes) + 1), scopes'[k].kind \in ChildKinds
               PROVE  /\ Sound(scopes'[k].fd, scopes'[k].table, {})
                      /\ NoFunction(k - 1)' => SavedFds(scopes'[k].table) = {}
    BY <1>1 DEF ScopesInv
  <2>1. NoFunction(k - 1)' <=> NoFunction(k - 1)
    BY <1>1, <1>2
  <2>2. CASE k = Len(scopes) + 1
    <3>1. NoFunction(k - 1) <=> NoFunction(Len(scopes))
      BY <1>1, <2>2
    <3> QED
      BY <1>1, <2>1, <2>2, <3>1
  <2>3. CASE k \in 1..Len(scopes)
    <3>1. scopes'[k] = scopes[k]
      BY <1>1, <2>3
    <3>2. /\ Sound(scopes[k].fd, scopes[k].table, {})
          /\ NoFunction(k - 1) => SavedFds(scopes[k].table) = {}
      BY <2>3, <3>1 DEF ScopesInv
    <3> QED
      BY <2>1, <3>1, <3>2
  <2>4. k = Len(scopes) + 1 \/ k \in 1..Len(scopes)
    BY <1>1
  <2> QED
    BY <2>2, <2>3, <2>4
<1>5. scopes' # <<>> /\ Innermost' = s
  BY <1>1 DEF Innermost
<1> QED
  BY <1>1, <1>3, <1>4, <1>5

LEMMA SameScopes ==
    ASSUME scopes' = scopes
    PROVE  /\ ScopesInv => ScopesInv'
           /\ NoFunction(Len(scopes))' <=> NoFunction(Len(scopes))
           /\ Innermost' = Innermost
BY DEF ScopesInv, NoFunction, Innermost

-----------------------------------------------------------------------------
(* Between commands the table is sound with nothing pending; that is what  *)
(* every step that ends a command has to establish.                        *)

LEMMA Idle ==
    ASSUME run' = NoCommand, pc' \in {"ready", "unwind"},
           Sound(fd, table, {})',
           (scopes \in Seq(Scope))', ScopesInv',
           NoFunction(Len(scopes))' => SavedFds(table') = {}
    PROVE  IInv'
<1>1. run' \in Run /\ (run').redirs = <<>> /\ (run').unsaved = {} /\ (run').kind = "none"
  BY NoCommandTyped DEF NoCommand
<1>2. TypeInv'
  BY <1>1 DEF TypeInv, Run
<1>3. Pending' = {}
  BY <1>1 DEF Pending, Remaining
<1>4. Sound(fd, table, Pending)'
  BY <1>3
<1>5. RunInv'
  BY <1>1 DEF RunInv
<1>6. OutsideInv'
  BY DEF OutsideInv
<1> QED
  BY <1>2, <1>4, <1>5, <1>6 DEF IInv

LEMMA Quiet ==
    ASSUME IInv, pc \in {"ready", "unwind"}
    PROVE  Sound(fd, table, {}) /\ run = NoCommand
<1>1. run = NoCommand /\ run \in Run
  BY NoCommandTyped DEF IInv, RunInv
<1>2. Pending = {}
  BY <1>1, NothingPending, NoCommandTyped
<1> QED
  BY <1>1, <1>2 DEF IInv

LEMMA InitSound == Init => IInv
<1> SUFFICES ASSUME Init PROVE IInv
  OBVIOUS
<1>1. table \in [Fds -> Entry] /\ \A f \in Fds : ~HasFlag(table, f, "saved")
  BY DEF Init, Untracked, Entry, Flags, HasFlag
<1>2. fd \in [Fds -> OpenFiles] /\ \A f \in Fds \ Targets : fd[f] = Nothing
  BY DEF Init
<1>3. SavedFds(table) = {}
  BY <1>1 DEF SavedFds
<1>4. Sound(fd, table, {})
  BY <1>1, <1>2, <1>3, Numbers DEF Sound
<1>5. run = NoCommand /\ scopes = <<>> /\ pc = "ready"
  BY DEF Init
<1>6. run \in Run /\ run.redirs = <<>> /\ run.unsaved = {} /\ run.kind = "none"
  BY <1>5, NoCommandTyped DEF NoCommand
<1>7. TypeInv /\ RunInv /\ ScopesInv /\ OutsideInv
  BY <1>3, <1>5, <1>6 DEF TypeInv, RunInv, ScopesInv, OutsideInv
<1>8. Pending = {}
  BY <1>6, NothingPending
<1> QED
  BY <1>4, <1>7, <1>8 DEF IInv

LEMMA StartKeeps ==
    ASSUME IInv, NEW kind \in {"builtin", "function", "program"}, NEW list \in Lists,
           Start(kind, list)
    PROVE  IInv'
<1>1. Sound(fd, table, {}) /\ fd \in [Fds -> OpenFiles] /\ table \in [Fds -> Entry]
  BY Quiet DEF Start, Sound
<1>2. list \in Seq(Redirection)
  BY DEF Lists
<1>3. \A k \in DOMAIN list : list[k] \in Redirection /\ list[k].to \in Targets /\ k >= 1
  <2>1. \A r \in Redirection : r.to \in Targets
    BY DEF Redirection
  <2> QED
    BY <1>2, <2>1
<1>4. run' \in Run /\ (run').redirs = list /\ (run').at = 1 /\ (run').unsaved = Named(list)
                 /\ (run').kind = kind
  <2>1. Named(list) \subseteq Targets
    BY <1>3 DEF Named
  <2> QED
    BY <1>1, <1>2, <2>1 DEF Start, Run, ToSave, Clean
<1>5. Remaining' = Named(list) /\ Pending' = {}
  BY <1>3, <1>4 DEF Remaining, Pending, Named
<1>6. /\ scopes' \in Seq(Scope) /\ ScopesInv'
      /\ kind = "program" => scopes' # <<>> /\ (Innermost').kind = "program"
  <2>1. CASE kind = "program"
    <3> DEFINE s == Child("program")
    <3>1. s \in Scope /\ s.kind = "program" /\ s.fd = fd /\ s.table = table
      BY <1>1 DEF Child, Scope, ChildKinds
    <3>2. NoFunction(Len(scopes)) => SavedFds(s.table) = {}
      BY <3>1 DEF IInv, OutsideInv, Start
    <3>3. scopes' = Append(scopes, s)
      BY <2>1 DEF Start
    <3> QED
      BY <1>1, <3>1, <3>2, <3>3, Entered DEF IInv, TypeInv
  <2>2. CASE kind # "program"
    BY <2>2, SameScopes DEF Start, IInv, TypeInv
  <2> QED
    BY <2>1, <2>2
<1>7. pc' = "apply" /\ fd' = fd /\ table' = table
  BY DEF Start
<1>8. TypeInv' /\ OutsideInv'
  BY <1>4, <1>6, <1>7 DEF TypeInv, OutsideInv
<1>9. RunInv'
  BY <1>4, <1>5, <1>6, <1>7 DEF RunInv
<1>10. Sound(fd, table, Pending)'
  BY <1>1, <1>5, <1>7
<1> QED
  BY <1>6, <1>8, <1>9, <1>10 DEF IInv

\* Back in the shell after a child, with what was kept for it.
LEMMA ChildLeft ==
    ASSUME IInv, scopes # <<>>, Innermost.kind \in ChildKinds,
           Leave(Innermost), scopes' = Outer, run' = NoCommand, pc' \in {"ready", "unwind"}
    PROVE  IInv'
<1>1. scopes \in Seq(Scope) /\ ScopesInv
  BY DEF IInv, TypeInv
<1>2. /\ Sound(Innermost.fd, Innermost.table, {})
      /\ NoFunction(Len(scopes) - 1) => SavedFds(Innermost.table) = {}
  <2>1. Len(scopes) \in 1..Len(scopes) /\ scopes[Len(scopes)].kind \in ChildKinds
    BY <1>1, Outward DEF Innermost
  <2> QED
    BY <1>1, <2>1 DEF ScopesInv, Innermost
<1>3. Sound(fd, table, {})' /\ table' = Innermost.table
  BY <1>2 DEF Leave
<1> QED
  BY <1>1, <1>2, <1>3, Left, Idle

LEMMA FailKeeps ==
    ASSUME IInv, pc = "apply", Fail
    PROVE  IInv'
<1>1. scopes \in Seq(Scope) /\ ScopesInv /\ Sound(fd, table, Pending)
  BY DEF IInv, TypeInv
<1>2. run' = NoCommand /\ pc' \in {"ready", "unwind"}
  BY DEF Fail
<1>3. CASE run.kind = "program"
  BY <1>2, <1>3, ChildLeft DEF Fail, IInv, RunInv, ChildKinds
<1>4. CASE run.kind # "program"
  <2>1. Sound(fd, table, {})' /\ SavedFds(table') = {}
    BY <1>1, <1>4, RestoredIsSound DEF Fail, Restore
  <2>2. (scopes \in Seq(Scope))' /\ ScopesInv'
    <3>1. CASE run.kind = "definition"
      BY <1>1, <3>1, Left DEF Fail, IInv, RunInv
    <3>2. CASE run.kind # "definition"
      BY <1>1, <1>4, <3>2, SameScopes DEF Fail
    <3> QED
      BY <3>1, <3>2
  <2> QED
    BY <1>2, <2>1, <2>2, Idle
<1> QED
  BY <1>3, <1>4

\* A step of the redirections themselves.
LEMMA Going ==
    ASSUME IInv, pc' = "apply", scopes' = scopes,
           run' \in Run, (run').kind = run.kind, (run').unsaved \subseteq Remaining',
           Sound(fd, table, Pending)'
    PROVE  IInv'
<1>1. TypeInv'
  BY DEF IInv, TypeInv
<1>2. RunInv'
  BY SameScopes DEF IInv, RunInv
<1>3. ScopesInv' /\ OutsideInv'
  BY SameScopes DEF IInv, OutsideInv
<1> QED
  BY <1>1, <1>2, <1>3 DEF IInv

LEMMA SkipSaveKeeps ==
    ASSUME IInv, SkipSave
    PROVE  IInv'
<1> PICK f \in Targets : /\ Saving(f)
                         /\ run' = [run EXCEPT !.unsaved = @ \ {f}]
                         /\ UNCHANGED <<fd, table, pc, scopes>>
  BY DEF SkipSave
<1>1. run \in Run /\ run.unsaved \subseteq Remaining /\ Sound(fd, table, Pending)
  BY DEF IInv, TypeInv, RunInv
<1>2. /\ run' \in Run /\ (run').unsaved = run.unsaved \ {f}
      /\ (run').kind = run.kind /\ (run').redirs = run.redirs /\ (run').at = run.at
  BY <1>1 DEF Run
<1>3. Remaining' = Remaining
  BY <1>2 DEF Remaining
<1>4. Pending \subseteq Pending'
  BY <1>2, <1>3 DEF Pending
<1>5. Sound(fd, table, Pending)'
  BY <1>1, <1>4, MorePendingIsSound
<1> QED
  BY <1>1, <1>2, <1>3, <1>5, Going DEF Saving

LEMMA SaveKeeps ==
    ASSUME IInv, Save
    PROVE  IInv'
<1> PICK f \in Targets, b \in Backups :
            /\ Saving(f) /\ ~AlreadyRedirected(f)
            /\ fd[f] # Nothing
            /\ IsLowest(b, Free(Backups))
            /\ fd' = [fd EXCEPT ![b] = fd[f]]
            /\ table' = Track(table, b, f)
            /\ run' = [run EXCEPT !.unsaved = @ \ {f}]
            /\ UNCHANGED <<pc, scopes>>
  BY DEF Save
<1>1. run \in Run /\ run.unsaved \subseteq Remaining /\ Sound(fd, table, Pending)
  BY DEF IInv, TypeInv, RunInv
<1>2. /\ run' \in Run /\ (run').unsaved = run.unsaved \ {f}
      /\ (run').kind = run.kind /\ (run').redirs = run.redirs /\ (run').at = run.at
  BY <1>1 DEF Run
<1>3. Remaining' = Remaining
  BY <1>2 DEF Remaining
<1>4. f \in run.unsaved /\ fd[b] = Nothing /\ ~HasFlag(table, f, "redirected")
  BY DEF Saving, IsLowest, Free, AlreadyRedirected
<1>5. Pending \subseteq Pending' /\ f \notin Pending /\ f \in Pending'
  BY <1>1, <1>2, <1>3, <1>4 DEF Pending
<1>6. Sound(fd, table, Pending)'
  BY <1>1, <1>4, <1>5, SavedIsSound
<1> QED
  BY <1>1, <1>2, <1>3, <1>6, Going DEF Saving

LEMMA Advanced ==
    ASSUME IInv, Applying, NextRedir
    PROVE  /\ Redir \in Redirection /\ Redir.to \in Targets
           /\ run' \in Run /\ (run').kind = run.kind /\ (run').unsaved = {}
           /\ Pending \subseteq Pending' \cup {Redir.to}
<1>1. run \in Run /\ run.unsaved = {} /\ run.redirs \in Seq(Redirection) /\ run.at \in Nat \ {0}
  BY DEF IInv, TypeInv, Applying, Run
<1>2. run.at \in DOMAIN run.redirs /\ DOMAIN run.redirs \subseteq Nat
  BY <1>1 DEF Applying
<1>3. Redir \in Redirection /\ Redir.to \in Targets
  BY <1>1, <1>2 DEF Redir, Redirection
<1>4. /\ run' \in Run /\ (run').kind = run.kind /\ (run').unsaved = {}
      /\ (run').redirs = run.redirs /\ (run').at = run.at + 1
  BY <1>1 DEF NextRedir, Run
<1>5. \A k \in DOMAIN run.redirs : k >= run.at => k = run.at \/ k >= run.at + 1
  BY <1>1, <1>2
<1>6. Pending \subseteq Pending' \cup {Redir.to}
  BY <1>1, <1>4, <1>5 DEF Pending, Remaining, Redir
<1> QED
  BY <1>3, <1>4, <1>6

\* open, dup2 and close come to one change, or to none when open gives the target itself.
LEMMA OpenedAtIs ==
    ASSUME fd \in [Fds -> OpenFiles], NEW temp \in Fds, fd[temp] = Nothing,
           NEW r, r.to \in Fds
    PROVE  OpenedAt(temp, r) = IF temp = r.to THEN fd ELSE [fd EXCEPT ![r.to] = Opened(r)]
<1> DEFINE opened == [fd EXCEPT ![temp] = Opened(r)]
           copied == [opened EXCEPT ![r.to] = opened[temp]]
<1>1. opened[temp] = Opened(r) /\ OpenedAt(temp, r) = [copied EXCEPT ![temp] = Nothing]
  BY DEF OpenedAt
<1>2. CASE temp = r.to
  BY <1>1, <1>2
<1>3. CASE temp # r.to
  BY <1>1, <1>3
<1> QED
  BY <1>2, <1>3

LEMMA ApplyOpenKeeps ==
    ASSUME IInv, ApplyOpen
    PROVE  IInv'
<1>1. Applying /\ NextRedir /\ pc' = "apply" /\ scopes' = scopes
  BY DEF ApplyOpen, Applying
<1>2. /\ Redir.to \in Targets /\ run' \in Run /\ (run').kind = run.kind /\ (run').unsaved = {}
      /\ Pending \subseteq Pending' \cup {Redir.to}
  BY <1>1, Advanced
<1>3. Sound(fd, table, Pending) /\ fd \in [Fds -> OpenFiles]
  BY DEF IInv, Sound
<1>4. \E file \in OpenFiles : fd' = [fd EXCEPT ![Redir.to] = file]
  <2>1. fd' = fd \/ fd' = [fd EXCEPT ![Redir.to] = Opened(Redir)]
    BY <1>2, <1>3, Numbers, OpenedAtIs DEF ApplyOpen, IsLowest, Free
  <2>2. Opened(Redir) \in OpenFiles /\ fd[Redir.to] \in OpenFiles
    BY <1>2, <1>3, Numbers DEF Opened, OpenFiles
  <2>3. fd = [fd EXCEPT ![Redir.to] = fd[Redir.to]]
    BY <1>3
  <2> QED
    BY <2>1, <2>2, <2>3
<1>5. Sound(fd, table, Pending)'
  BY <1>2, <1>3, <1>4, RedirectedIsSound DEF ApplyOpen
<1> QED
  BY <1>1, <1>2, <1>5, Going

LEMMA ApplyDupKeeps ==
    ASSUME IInv, ApplyDup
    PROVE  IInv'
<1>1. Applying /\ NextRedir /\ pc' = "apply" /\ scopes' = scopes
  BY DEF ApplyDup, Applying
<1>2. /\ Redir.to \in Targets /\ run' \in Run /\ (run').kind = run.kind /\ (run').unsaved = {}
      /\ Pending \subseteq Pending' \cup {Redir.to}
  BY <1>1, Advanced
<1>3. Sound(fd, table, Pending) /\ fd[DupSource(Redir)] \in OpenFiles
  BY Numbers DEF IInv, Sound, DupSource
<1>4. Sound(fd, table, Pending)'
  BY <1>2, <1>3, RedirectedIsSound DEF ApplyDup
<1> QED
  BY <1>1, <1>2, <1>4, Going

LEMMA ApplyCloseKeeps ==
    ASSUME IInv, ApplyClose
    PROVE  IInv'
<1>1. Applying /\ NextRedir /\ pc' = "apply" /\ scopes' = scopes
  BY DEF ApplyClose, Applying
<1>2. /\ Redir.to \in Targets /\ run' \in Run /\ (run').kind = run.kind /\ (run').unsaved = {}
      /\ Pending \subseteq Pending' \cup {Redir.to}
  BY <1>1, Advanced
<1>3. Sound(fd, table, Pending)
  BY DEF IInv
<1>4. Sound(fd, table, Pending)'
  BY <1>2, <1>3, ClosedIsSound DEF ApplyClose
<1> QED
  BY <1>1, <1>2, <1>4, Going

LEMMA ApplyFailsKeeps ==
    ASSUME IInv, ApplyFails \/ SaveFails
    PROVE  IInv'
<1>1. pc = "apply" /\ Fail
  BY DEF ApplyFails, Applying, SaveFails, Saving
<1> QED
  BY <1>1, FailKeeps

LEMMA AppliedNothingPending ==
    ASSUME IInv, Applied
    PROVE  Pending = {} /\ Sound(fd, table, {}) /\ scopes \in Seq(Scope) /\ ScopesInv
<1>1. Pending = {}
  BY NothingPending DEF IInv, TypeInv, Applied
<1> QED
  BY <1>1 DEF IInv, TypeInv

LEMMA ExecuteKeeps ==
    ASSUME IInv, Execute
    PROVE  IInv'
<1>1. /\ Applied /\ pc' = "running" /\ run.kind \in {"builtin", "program"}
      /\ fd' = fd /\ table' = table /\ run' = run /\ scopes' = scopes
  BY DEF Execute
<1>2. Pending' = Pending /\ Remaining' = Remaining
  BY <1>1 DEF Pending, Remaining
<1>3. TypeInv' /\ OutsideInv' /\ ScopesInv'
  BY <1>1, SameScopes DEF IInv, TypeInv, OutsideInv
<1>4. RunInv'
  BY <1>1, <1>2, SameScopes DEF IInv, RunInv
<1>5. Sound(fd, table, Pending)'
  BY <1>1, <1>2 DEF IInv
<1> QED
  BY <1>3, <1>4, <1>5 DEF IInv

LEMMA EnterFunctionKeeps ==
    ASSUME IInv, NEW own \in OwnLists, EnterFunction(own)
    PROVE  IInv'
<1>1. Applied /\ pc' = pc /\ fd' = fd /\ table' = table /\ pc = "apply"
  BY DEF EnterFunction, Applied
<1>2. Sound(fd, table, {}) /\ scopes \in Seq(Scope) /\ ScopesInv
  BY <1>1, AppliedNothingPending
<1>3. own \in Seq(Redirection)
  <2>1. CASE own = <<>>
    BY <2>1
  <2>2. ASSUME NEW r \in Redirection, own = <<r>>
        PROVE  own \in Seq(Redirection)
    BY <2>2
  <2> QED
    BY <2>1, <2>2 DEF OwnLists
<1>4. \A k \in DOMAIN own : own[k].to \in Targets /\ k >= 1
  <2>1. \A r \in Redirection : r.to \in Targets
    BY DEF Redirection
  <2> QED
    BY <1>3, <2>1
<1>5. /\ run' \in Run /\ (run').redirs = own /\ (run').at = 1
      /\ (run').unsaved = Named(own) /\ (run').kind = "definition"
  <2>1. Named(own) \subseteq Targets
    BY <1>4 DEF Named
  <2>2. NoCommand.at = 1
    BY DEF NoCommand
  <2> QED
    BY <1>3, <2>1, <2>2, NoCommandTyped DEF EnterFunction, Run, ToSave
<1>6. Remaining' = Named(own) /\ Pending' = {}
  BY <1>4, <1>5 DEF Remaining, Pending, Named
<1>7. /\ scopes' \in Seq(Scope) /\ ScopesInv'
      /\ scopes' # <<>> /\ (Innermost').kind = "function"
  <2> DEFINE s == [kind |-> "function"]
  <2>1. s \in Scope /\ s.kind = "function" /\ s.kind \notin ChildKinds
    BY DEF Scope, ChildKinds
  <2>2. scopes' = Append(scopes, s)
    BY DEF EnterFunction
  <2> HIDE DEF s
  <2> QED
    BY <1>2, <2>1, <2>2, Entered
<1>8. TypeInv' /\ OutsideInv'
  BY <1>1, <1>5, <1>7 DEF TypeInv, OutsideInv
<1>9. RunInv'
  BY <1>1, <1>5, <1>6, <1>7 DEF RunInv
<1>10. Sound(fd, table, Pending)'
  BY <1>1, <1>2, <1>6
<1> QED
  BY <1>7, <1>8, <1>9, <1>10 DEF IInv

LEMMA EnterBodyKeeps ==
    ASSUME IInv, EnterBody
    PROVE  IInv'
<1>1. /\ Applied /\ run.kind = "definition" /\ pc' = "ready" /\ run' = NoCommand /\ scopes' = scopes
      /\ fd' = PlumbedFds(fd) /\ table' = PlumbedTable(table)
  BY DEF EnterBody
<1>2. Sound(fd, table, {}) /\ scopes \in Seq(Scope) /\ ScopesInv
  BY <1>1, AppliedNothingPending
<1>3. Sound(fd, table, {})'
  BY <1>1, <1>2, PlumbedIsSound
<1>4. ~NoFunction(Len(scopes))
  BY <1>1, <1>2, Outward DEF IInv, RunInv, NoFunction, Innermost
<1> QED
  BY <1>1, <1>2, <1>3, <1>4, SameScopes, Idle

LEMMA EndBuiltinKeeps ==
    ASSUME IInv, EndBuiltin
    PROVE  IInv'
<1>1. pc' = "ready" /\ run' = NoCommand /\ scopes' = scopes /\ Restore
  BY DEF EndBuiltin
<1>2. Sound(fd, table, {})' /\ SavedFds(table') = {}
  BY <1>1, RestoredIsSound DEF IInv, Restore
<1> QED
  BY <1>1, <1>2, SameScopes, Idle DEF IInv, TypeInv

LEMMA EndProgramKeeps ==
    ASSUME IInv, EndProgram
    PROVE  IInv'
BY ChildLeft DEF EndProgram, IInv, RunInv, ChildKinds

LEMMA EnterKeeps ==
    ASSUME IInv, NEW s \in Scope, Enter(s), s.kind # "function",
           s.kind \in ChildKinds => s.fd = fd /\ s.table = table
    PROVE  IInv'
<1>1. /\ pc = "ready" /\ pc' = pc /\ run' = run /\ scopes' = Append(scopes, s)
      /\ fd' = PlumbedFds(fd) /\ table' = PlumbedTable(table)
  BY DEF Enter
<1>2. Sound(fd, table, {}) /\ run = NoCommand
  BY <1>1, Quiet
<1>3. Sound(fd, table, {})' /\ SavedFds(table') = SavedFds(table)
  BY <1>1, <1>2, PlumbedIsSound
<1>4. NoFunction(Len(scopes)) => SavedFds(table) = {}
  BY <1>1 DEF IInv, OutsideInv
<1>5. s.kind \in ChildKinds => /\ Sound(s.fd, s.table, {})
                               /\ NoFunction(Len(scopes)) => SavedFds(s.table) = {}
  BY <1>2, <1>4
<1>6. scopes \in Seq(Scope) /\ ScopesInv
  BY DEF IInv, TypeInv
<1>7. /\ scopes' \in Seq(Scope) /\ ScopesInv'
      /\ NoFunction(Len(scopes))' => NoFunction(Len(scopes))
  BY <1>1, <1>5, <1>6, Entered
<1> QED
  BY <1>1, <1>2, <1>3, <1>4, <1>7, Idle

LEMMA EnterGroupKeeps ==
    ASSUME IInv, EnterGroup
    PROVE  IInv'
<1> DEFINE s == [kind |-> "group"]
<1>1. s \in Scope /\ s.kind = "group" /\ Enter(s)
  BY DEF EnterGroup, Scope
<1>2. s.kind # "function" /\ s.kind \notin ChildKinds
  BY DEF ChildKinds
<1> HIDE DEF s
<1> QED
  BY <1>1, <1>2, EnterKeeps

LEMMA EnterSubshellKeeps ==
    ASSUME IInv, EnterSubshell
    PROVE  IInv'
<1> DEFINE s == Child("subshell")
<1>1. fd \in [Fds -> OpenFiles] /\ table \in [Fds -> Entry]
  BY DEF IInv, Sound
<1>2. s \in Scope /\ s.kind = "subshell" /\ s.fd = fd /\ s.table = table /\ Enter(s)
  BY <1>1 DEF EnterSubshell, Scope, Child, ChildKinds
<1> HIDE DEF s
<1> QED
  BY <1>2, EnterKeeps

LEMMA LeaveFunctionKeeps ==
    ASSUME IInv, LeaveFunction
    PROVE  IInv'
<1>1. /\ pc \in {"ready", "unwind"} /\ pc' = "ready" /\ run' = run /\ Restore
      /\ scopes # <<>> /\ scopes' = Outer
  BY DEF LeaveFunction, InScope
<1>2. Sound(fd, table, {})' /\ SavedFds(table') = {}
  BY <1>1, RestoredIsSound DEF IInv, Restore
<1> QED
  BY <1>1, <1>2, Quiet, Left, Idle DEF IInv, TypeInv

LEMMA LeaveGroupKeeps ==
    ASSUME IInv, LeaveGroup
    PROVE  IInv'
<1>1. /\ pc \in {"ready", "unwind"} /\ pc' = pc /\ run' = run /\ fd' = fd /\ table' = table
      /\ scopes # <<>> /\ Innermost.kind = "group" /\ scopes' = Outer
  BY DEF LeaveGroup, InScope
<1>2. Sound(fd, table, {}) /\ run = NoCommand
  BY <1>1, Quiet
<1>3. scopes \in Seq(Scope) /\ ScopesInv
  BY DEF IInv, TypeInv
<1>4. /\ scopes' \in Seq(Scope) /\ ScopesInv'
      /\ NoFunction(Len(scopes))' => NoFunction(Len(scopes) - 1)
  BY <1>1, <1>3, Left
<1>5. NoFunction(Len(scopes) - 1) => NoFunction(Len(scopes))
  <2>1. Len(scopes) \in Nat \ {0} /\ scopes[Len(scopes)].kind = "group"
    BY <1>1, <1>3, Outward DEF Innermost
  <2>2. \A k \in 1..Len(scopes) : k = Len(scopes) \/ k \in 1..(Len(scopes) - 1)
    BY <2>1
  <2> QED
    BY <2>1, <2>2 DEF NoFunction
<1>6. NoFunction(Len(scopes))' => SavedFds(table') = {}
  BY <1>1, <1>4, <1>5 DEF IInv, OutsideInv
<1> QED
  BY <1>1, <1>2, <1>4, <1>6, Idle

LEMMA LeaveSubshellKeeps ==
    ASSUME IInv, LeaveSubshell
    PROVE  IInv'
BY ChildLeft, Quiet DEF LeaveSubshell, InScope, ChildKinds

LEMMA NextLineKeeps ==
    ASSUME IInv, NextLine
    PROVE  IInv'
<1>1. /\ pc = "unwind" /\ pc' = "ready" /\ run' = run /\ fd' = fd /\ table' = table
      /\ scopes' = scopes
  BY DEF NextLine
<1>2. Sound(fd, table, {}) /\ run = NoCommand
  BY <1>1, Quiet
<1> QED
  BY <1>1, <1>2, SameScopes, Idle DEF IInv, TypeInv, OutsideInv

LEMMA StutterKeeps ==
    ASSUME IInv, UNCHANGED vars
    PROVE  IInv'
BY DEF vars, IInv, TypeInv, RunInv, ScopesInv, OutsideInv, NoFunction, Pending, Remaining, Innermost

-----------------------------------------------------------------------------
(* Theorems.                                                               *)

\* The inductive invariant: whatever fails and however commands nest, the table of the
\* running process agrees with its descriptors, and so does the table kept for each shell
\* that waits for a child (exec_redirect.c, fd_table.c).
THEOREM TableInvariant == Spec => []IInv
<1>1. IInv /\ [Next]_vars => IInv'
  <2> SUFFICES ASSUME IInv, [Next]_vars PROVE IInv'
    OBVIOUS
  <2>1. ASSUME NEW kind \in {"builtin", "function", "program"}, NEW list \in Lists,
               Start(kind, list)
        PROVE  IInv'
    BY <2>1, StartKeeps
  <2>2. CASE SkipSave \/ Save \/ SaveFails
    BY <2>2, SkipSaveKeeps, SaveKeeps, ApplyFailsKeeps
  <2>3. CASE ApplyOpen \/ ApplyDup \/ ApplyClose \/ ApplyFails
    BY <2>3, ApplyOpenKeeps, ApplyDupKeeps, ApplyCloseKeeps, ApplyFailsKeeps
  <2>4. CASE Execute \/ EnterBody \/ EndBuiltin \/ EndProgram
    BY <2>4, ExecuteKeeps, EnterBodyKeeps, EndBuiltinKeeps, EndProgramKeeps
  <2>5. ASSUME NEW own \in OwnLists, EnterFunction(own)
        PROVE  IInv'
    BY <2>5, EnterFunctionKeeps
  <2>6. CASE EnterGroup \/ EnterSubshell
    BY <2>6, EnterGroupKeeps, EnterSubshellKeeps
  <2>7. CASE LeaveFunction \/ LeaveGroup \/ LeaveSubshell \/ NextLine
    BY <2>7, LeaveFunctionKeeps, LeaveGroupKeeps, LeaveSubshellKeeps, NextLineKeeps
  <2>8. CASE UNCHANGED vars
    BY <2>8, StutterKeeps
  <2> QED
    BY <2>1, <2>2, <2>3, <2>4, <2>5, <2>6, <2>7, <2>8 DEF Next
<1> QED
  BY <1>1, InitSound, PTL DEF Spec

\* The state has the shape of the program's (fd_table_t, exec_redirections_t).
THEOREM RedirectionsTypeCorrect == Spec => []TypeOK
<1>1. IInv => TypeOK
  <2> SUFFICES ASSUME IInv PROVE TypeOK
    OBVIOUS
  <2>1. fd \in [Fds -> OpenFiles] /\ table \in [Fds -> Entry]
    BY DEF IInv, Sound
  <2>2. /\ run.kind \in {"none", "builtin", "function", "definition", "program"}
        /\ run.unsaved \subseteq Targets
    BY DEF IInv, TypeInv, Run
  <2>3. \A k \in DOMAIN scopes : scopes[k].kind \in {"function", "group", "subshell", "program"}
    <3>1. \A s \in Scope : s.kind \in {"function", "group", "subshell", "program"}
      BY DEF Scope, ChildKinds
    <3>2. \A k \in DOMAIN scopes : scopes[k] \in Scope
      BY DEF IInv, TypeInv
    <3> QED
      BY <3>1, <3>2
  <2> QED
    BY <2>1, <2>2, <2>3 DEF TypeOK, IInv, TypeInv
<1> QED
  BY <1>1, TableInvariant, PTL

\* Backups are neither leaked nor made twice, whichever save or redirection fails
\* (exec_apply_redirections_posix, exec_restore_redirections_posix).
THEOREM BackupsAlwaysExact == Spec => []BackupsExact
<1>1. IInv => BackupsExact
  BY DEF IInv, Sound, BackupsExact
<1> QED
  BY <1>1, TableInvariant, PTL

\* Between the commands of a list outside functions there are no backups
\* (exec_restore_redirections_posix on every path out of a command).
THEOREM NothingEverSavedOutside == Spec => []NothingSavedOutside
<1>1. IInv => NothingSavedOutside
  <2> SUFFICES ASSUME IInv, pc \in {"ready", "unwind"},
                      \A k \in DOMAIN scopes : scopes[k].kind # "function"
               PROVE  SavedFds(table) = {}
    BY DEF NothingSavedOutside
  <2>1. NoFunction(Len(scopes))
    BY DEF IInv, TypeInv, NoFunction
  <2> QED
    BY <2>1 DEF IInv, OutsideInv
<1> QED
  BY <1>1, TableInvariant, PTL

-----------------------------------------------------------------------------
(* Induction and recursion.                                                *)

LEMMA Least ==
    ASSUME NEW S \in SUBSET Nat, S # {}
    PROVE  \E m \in S : \A k \in S : m <= k
<1> DEFINE R == OpToRel(<, Nat)
<1>1. IsWellFoundedOn(R, Nat)
  BY NatLessThanWellFounded
<1>2. \A x, y \in Nat : x < y => <<x, y>> \in R
  BY DEF OpToRel
<1> HIDE DEF R
<1>3. PICK m \in S : \A y \in S : ~ (<<y, m>> \in R)
  BY <1>1, WFMin
<1>4. ASSUME NEW y \in S PROVE m <= y
  <2>1. m \in Nat /\ y \in Nat
    OBVIOUS
  <2>2. ~ (y < m)
    BY <2>1, <1>2, <1>3
  <2> QED
    BY <2>1, <2>2
<1> QED
  BY <1>4

\* What holds of 0, and of each number up to n if it holds of the one before.
LEMMA Induction ==
    ASSUME NEW n \in Nat, NEW Good, 0 \in Good,
           \A i \in 1 .. n : i - 1 \in Good => i \in Good
    PROVE  \A i \in 0 .. n : i \in Good
<1> DEFINE Bad == {i \in 0 .. n : i \notin Good}
<1> SUFFICES ASSUME Bad # {} PROVE FALSE
  OBVIOUS
<1>1. PICK m \in Bad : \A k \in Bad : m <= k
  <2>1. Bad \in SUBSET Nat
    OBVIOUS
  <2> HIDE DEF Bad
  <2> QED
    BY <2>1, Least
<1>2. m \in 1 .. n /\ m - 1 \in 0 .. n
  BY <1>1
<1>3. m - 1 \notin Bad
  BY <1>1, <1>2
<1> QED
  BY <1>1, <1>2, <1>3

\* f goes from s on as the table G says: from what it is at i - 1 to what it is at i.
Goes(f, n, S, s, G) ==
    f \in [0 .. n -> S] /\ f[0] = s /\ \A i \in 1 .. n : f[i] = G[i][f[i - 1]]

LEMMA Recursion ==
    ASSUME NEW n \in Nat, NEW S, NEW s \in S, NEW G \in [1 .. n -> [S -> S]]
    PROVE  \E f : Goes(f, n, S, s, G)
<1> DEFINE Upto(m, f) == /\ f \in [0 .. m -> S] /\ f[0] = s
                         /\ \A i \in 1 .. m : f[i] = G[i][f[i - 1]]
           Good == {m \in 0 .. n : \E f : Upto(m, f)}
<1>1. 0 \in Good
  <2> DEFINE g == [i \in 0 .. 0 |-> s]
  <2>1. Upto(0, g)
    OBVIOUS
  <2> HIDE DEF Upto, g
  <2>2. \E f : Upto(0, f)
    BY <2>1
  <2> QED
    BY <2>2
<1>2. ASSUME NEW m \in 1 .. n, m - 1 \in Good PROVE m \in Good
  <2>1. PICK f : Upto(m - 1, f)
    BY <1>2
  <2> DEFINE g == [i \in 0 .. m |-> IF i = m THEN G[m][f[m - 1]] ELSE f[i]]
  <2>2. f[m - 1] \in S /\ G[m][f[m - 1]] \in S
    BY <2>1
  <2>3. \A i \in 0 .. m : i # m => i \in 0 .. m - 1 /\ g[i] = f[i] /\ f[i] \in S
    BY <2>1
  <2>4. g \in [0 .. m -> S] /\ g[0] = s
    BY <2>1, <2>2, <2>3
  <2>5. ASSUME NEW i \in 1 .. m PROVE g[i] = G[i][g[i - 1]]
    <3>1. i - 1 \in 0 .. m - 1 /\ g[i - 1] = f[i - 1]
      BY <2>3
    <3>2. CASE i = m
      BY <3>1, <3>2
    <3>3. CASE i # m
      <4>1. i \in 1 .. m - 1 /\ g[i] = f[i]
        BY <3>3, <2>3
      <4>2. f[i] = G[i][f[i - 1]]
        BY <4>1, <2>1
      <4> HIDE DEF g
      <4> QED
        BY <3>1, <4>1, <4>2
    <3> QED
      BY <3>2, <3>3
  <2> HIDE DEF g
  <2>6. Upto(m, g)
    BY <2>4, <2>5
  <2> HIDE DEF Upto
  <2>7. \E h : Upto(m, h)
    BY <2>6
  <2> QED
    BY <2>7
<1>3. n \in Good
  <2>1. \A i \in 0 .. n : i \in Good
    <3> HIDE DEF Good
    <3> QED
      BY <1>1, <1>2, Induction
  <2> HIDE DEF Good
  <2> QED
    BY <2>1
<1>4. PICK f : Upto(n, f)
  BY <1>3
<1> QED
  BY <1>4 DEF Goes

-----------------------------------------------------------------------------
(* One command from its start to its end: what its redirections mean so    *)
(* far, and how the descriptors come back.                                 *)

After(list, start) ==
    LET after[k \in 0..Len(list)] ==
            IF k = 0 THEN start ELSE Meant(after[k - 1], list[k])
    IN  after

Commands == {"builtin", "function", "program"}

\* Saving comes before the first redirection, and the command after the last.
Position ==
    /\ run.at <= Len(run.redirs) + 1
    /\ run.unsaved # {} => run.at = 1
    /\ pc = "running" => /\ run.kind \in {"builtin", "program"}
                         /\ run.unsaved = {} /\ run.at = Len(run.redirs) + 1

\* The redirections made so far have their meaning, and have closed nothing.
InOrder ==
    run.kind \in Commands /\ Plain(run.redirs, run.before.fd) =>
        \A f \in Targets \cup Spares :
            /\ fd[f] = After(run.redirs, run.before.fd)[run.at - 1][f]
            /\ run.before.fd[f] # Nothing => fd[f] # Nothing

\* A descriptor is as it was, or its backup is; and it has one once it was saved.
Undoable ==
    run.kind = "builtin" /\ run.before.clean =>
        /\ run.unsaved # {} => \A f \in Fds : ~HasFlag(table, f, "redirected")
        /\ \A f \in Named(run.redirs) \ run.unsaved : BackupsOf(table, f) # {}
        /\ \A f \in Targets \cup Spares : BackupsOf(table, f) = {} => fd[f] = run.before.fd[f]
        /\ \A f \in Targets : \A b \in BackupsOf(table, f) : fd[b] = run.before.fd[f]
        /\ \A b \in Backups : run.before.fd[b] = Nothing

CommandInv == Position /\ InOrder /\ Undoable

LEMMA MeantIsTyped ==
    ASSUME NEW d \in [Fds -> OpenFiles], NEW r \in Redirection
    PROVE  Meant(d, r) \in [Fds -> OpenFiles]
<1> DEFINE x == CASE r.how \in {"file", "here"} -> Opened(r)
                  [] r.how = "dup"   -> d[r.from]
                  [] r.how = "close" -> Nothing
<1>1. CASE r \in [how : {"file", "here", "close"}, to : Targets]
  <2>1. x \in OpenFiles
    <3>1. r.how \in {"file", "here", "close"}
      BY <1>1
    <3>2. Opened(r) \in OpenFiles /\ Nothing \in OpenFiles
      BY DEF Opened, OpenFiles
    <3>3. CASE r.how \in {"file", "here"}
      BY <3>2, <3>3
    <3>4. CASE r.how = "close"
      BY <3>2, <3>4
    <3> QED
      BY <3>1, <3>3, <3>4
  <2> QED
    BY <2>1 DEF Meant
<1>2. CASE r \in [how : {"dup"}, to : Targets, from : Targets]
  <2>1. r.how = "dup" /\ r.from \in Fds
    BY <1>2, Numbers
  <2>2. x = d[r.from]
    BY <2>1
  <2> QED
    BY <2>1, <2>2 DEF Meant
<1> QED
  BY <1>1, <1>2 DEF Redirection

LEMMA AfterIs ==
    ASSUME NEW list \in Seq(Redirection), NEW start \in [Fds -> OpenFiles]
    PROVE  /\ After(list, start)[0] = start
           /\ \A k \in 1..Len(list) :
                 /\ After(list, start)[k] = Meant(After(list, start)[k - 1], list[k])
                 /\ After(list, start)[k - 1] \in [Fds -> OpenFiles]
           /\ Written(list, start) = After(list, start)[Len(list)]
<1> DEFINE n == Len(list)
           S == [Fds -> OpenFiles]
           Rec(u) == u = [k \in 0..n |-> IF k = 0 THEN start ELSE Meant(u[k - 1], list[k])]
<1>1. n \in Nat /\ \A k \in 1..n : list[k] \in Redirection
  OBVIOUS
<1>2. After(list, start) = (CHOOSE u : Rec(u)) /\ Written(list, start) = After(list, start)[n]
  BY DEF After, Written
<1>3. \E u : Rec(u) /\ u \in [0..n -> S]
  <2> DEFINE G == [k \in 1..n |-> [d \in S |-> Meant(d, list[k])]]
  <2>1. G \in [1..n -> [S -> S]]
    BY <1>1, MeantIsTyped
  <2>2. \A k \in 1..n, d \in S : G[k][d] = Meant(d, list[k])
    OBVIOUS
  <2> HIDE DEF G, S
  <2>3. PICK f \in [0..n -> S] : f[0] = start /\ \A k \in 1..n : f[k] = G[k][f[k - 1]]
    <3>1. PICK m \in Nat : m = n
      BY <1>1
    <3>2. G \in [1..m -> [S -> S]] /\ start \in S
      BY <2>1, <3>1 DEF S
    <3>3. PICK f : Goes(f, m, S, start, G)
      BY <3>2, Recursion
    <3> QED
      BY <3>1, <3>3 DEF Goes
  <2>4. ASSUME NEW k \in 0..n
        PROVE  f[k] = IF k = 0 THEN start ELSE Meant(f[k - 1], list[k])
    <3>1. CASE k = 0
      BY <2>3, <3>1
    <3>2. CASE k # 0
      <4>1. k \in 1..n /\ k - 1 \in 0..n
        BY <3>2, <1>1
      <4>2. f[k - 1] \in S
        BY <4>1
      <4> QED
        BY <2>2, <2>3, <3>2, <4>1, <4>2
    <3> QED
      BY <3>1, <3>2
  <2>5. f = [k \in 0..n |-> f[k]]
    BY <2>3
  <2> QED
    BY <2>4, <2>5
<1>4. \E u : Rec(u)
  BY <1>3
<1>5. Rec(After(list, start))
  <2> HIDE DEF Rec
  <2> QED
    BY <1>2, <1>4
<1> DEFINE A == After(list, start)
<1>6. A = [k \in 0..n |-> IF k = 0 THEN start ELSE Meant(A[k - 1], list[k])]
  BY <1>5
<1> HIDE DEF A, n
<1>7. A[0] = start /\ \A k \in 1..n : A[k] = Meant(A[k - 1], list[k])
  <2>1. \A k \in 0..n : A[k] = IF k = 0 THEN start ELSE Meant(A[k - 1], list[k])
    BY <1>6
  <2>2. 0 \in 0..n /\ \A k \in 1..n : k \in 0..n /\ k # 0
    BY <1>1
  <2> QED
    BY <2>1, <2>2
<1> DEFINE Good == {k \in 0..n : A[k] \in S}
<1>8. \A k \in 0..n : k \in Good
  <2>1. 0 \in Good
    BY <1>1, <1>7
  <2>2. ASSUME NEW k \in 1..n, k - 1 \in Good PROVE k \in Good
    <3>1. A[k - 1] \in S /\ list[k] \in Redirection
      BY <1>1, <2>2
    <3>2. A[k] \in S
      BY <1>7, <3>1, MeantIsTyped
    <3>3. k \in 0..n
      BY <1>1
    <3> QED
      BY <3>2, <3>3
  <2> HIDE DEF Good
  <2> QED
    BY <1>1, <2>1, <2>2, Induction
<1>9. \A k \in 1..n : A[k - 1] \in S
  <2>1. \A k \in 1..n : k - 1 \in 0..n
    BY <1>1
  <2> QED
    BY <1>8, <2>1
<1> QED
  BY <1>2, <1>7, <1>9 DEF A, n

LEMMA IdleCommand ==
    ASSUME run' = NoCommand, pc' # "running"
    PROVE  CommandInv'
<1>1. /\ (run').kind = "none" /\ (run').redirs = <<>> /\ (run').at = 1 /\ (run').unsaved = {}
  BY NoCommandTyped DEF NoCommand
<1> QED
  BY <1>1 DEF CommandInv, Position, InOrder, Undoable, Commands

LEMMA StartCommand ==
    ASSUME IInv, NEW kind \in {"builtin", "function", "program"}, NEW list \in Lists,
           Start(kind, list)
    PROVE  CommandInv'
<1>1. Sound(fd, table, {}) /\ fd \in [Fds -> OpenFiles] /\ table \in [Fds -> Entry]
  BY Quiet DEF Start, Sound
<1>2. list \in Seq(Redirection) /\ Len(list) \in Nat
  BY DEF Lists
<1>3. /\ (run').kind = kind /\ (run').redirs = list /\ (run').at = 1
      /\ (run').unsaved = Named(list) /\ (run').before.fd = fd
      /\ (run').before.clean = Clean(table)
      /\ pc' = "apply" /\ fd' = fd /\ table' = table
  BY DEF Start, ToSave
<1>4. Position'
  BY <1>2, <1>3 DEF Position
<1>5. InOrder'
  <2>1. After(list, fd)[0] = fd
    BY <1>1, <1>2, AfterIs
  <2> QED
    BY <1>3, <2>1 DEF InOrder
<1>6. Undoable'
  <2> SUFFICES ASSUME Clean(table)
               PROVE  /\ \A f \in Fds : ~HasFlag(table, f, "redirected")
                      /\ \A f \in Fds : BackupsOf(table, f) = {}
                      /\ \A b \in Backups : fd[b] = Nothing
    <3>1. Targets \cup Spares \subseteq Fds
      BY Numbers
    <3> QED
      BY <1>3, <3>1 DEF Undoable
  <2>1. \A f \in Fds : ~HasFlag(table, f, "redirected") /\ ~HasFlag(table, f, "saved")
    BY DEF Clean, HasFlag
  <2>2. \A f \in Fds : BackupsOf(table, f) = {}
    BY <2>1 DEF BackupsOf, SavedFds
  <2>3. \A b \in Backups : fd[b] = Nothing
    BY <1>1, <2>1, Numbers DEF Sound
  <2> QED
    BY <2>1, <2>2, <2>3
<1> QED
  BY <1>4, <1>5, <1>6 DEF CommandInv

LEMMA SkipSaveCommand ==
    ASSUME IInv, CommandInv, SkipSave
    PROVE  CommandInv'
<1>1. PICK f \in Targets : /\ Saving(f) /\ AlreadyRedirected(f)
                           /\ run' = [run EXCEPT !.unsaved = @ \ {f}]
                           /\ UNCHANGED <<fd, table, pc, scopes>>
  BY DEF SkipSave
<1>2. run \in Run /\ f \in run.unsaved /\ pc = "apply" /\ HasFlag(table, f, "redirected") /\ f \in Fds
  BY <1>1, Numbers DEF IInv, TypeInv, Saving, IsLowest, AlreadyRedirected
<1>3. /\ (run').unsaved = run.unsaved \ {f} /\ (run').kind = run.kind
      /\ (run').redirs = run.redirs /\ (run').at = run.at /\ (run').before = run.before
  BY <1>1, <1>2 DEF Run
<1>4. Position'
  BY <1>1, <1>2, <1>3 DEF CommandInv, Position
<1>5. InOrder'
  BY <1>1, <1>3 DEF CommandInv, InOrder
<1>6. Undoable'
  <2>1. ~(run.kind = "builtin" /\ run.before.clean)
    BY <1>2 DEF CommandInv, Undoable
  <2> QED
    BY <1>3, <2>1 DEF Undoable
<1> QED
  BY <1>4, <1>5, <1>6 DEF CommandInv

LEMMA SaveCommand ==
    ASSUME IInv, CommandInv, Save
    PROVE  CommandInv'
<1>1. PICK f \in Targets, b \in Backups :
            /\ Saving(f) /\ ~AlreadyRedirected(f)
            /\ fd[f] # Nothing
            /\ IsLowest(b, Free(Backups))
            /\ fd' = [fd EXCEPT ![b] = fd[f]]
            /\ table' = Track(table, b, f)
            /\ run' = [run EXCEPT !.unsaved = @ \ {f}]
            /\ UNCHANGED <<pc, scopes>>
  BY DEF Save
<1>2. /\ run \in Run /\ Sound(fd, table, Pending) /\ pc = "apply"
      /\ f \in run.unsaved /\ fd[b] = Nothing /\ ~HasFlag(table, f, "redirected")
      /\ f \notin Pending
  BY <1>1 DEF IInv, TypeInv, Saving, IsLowest, Free, AlreadyRedirected, Pending
<1>3. /\ (run').unsaved = run.unsaved \ {f} /\ (run').kind = run.kind
      /\ (run').redirs = run.redirs /\ (run').at = run.at /\ (run').before = run.before
  BY <1>1, <1>2 DEF Run
<1>4. /\ f \in Fds /\ b \in Fds /\ b \notin Targets /\ b \notin Spares
      /\ fd \in [Fds -> OpenFiles] /\ table \in [Fds -> Entry]
  BY <1>2, Numbers DEF Sound
<1>5. /\ fd'[b] = fd[f] /\ \A g \in Fds : g # b => fd'[g] = fd[g] /\ table'[g] = table[g]
      /\ table'[b] = [flags |-> {"saved"}, original_fd |-> f]
  BY <1>1, <1>4 DEF Track
<1>6. b \notin SavedFds(table) /\ SavedFds(table) \subseteq Fds
  BY <1>2 DEF Sound, SavedFds
<1>7. BackupsOf(table, f) = {}
  BY <1>1, <1>2 DEF Sound, BackupsOf
<1>8. SavedFds(table') = SavedFds(table) \cup {b}
  BY <1>4, <1>5, <1>6 DEF SavedFds, HasFlag
<1>9. /\ BackupsOf(table', f) = {b}
      /\ \A g \in Targets \cup Spares : g # f => BackupsOf(table', g) = BackupsOf(table, g)
  <2>1. table'[b].original_fd = f /\ \A c \in SavedFds(table) : table'[c] = table[c]
    BY <1>5, <1>6
  <2> QED
    BY <1>7, <1>8, <2>1 DEF BackupsOf
<1>10. Position'
  BY <1>1, <1>2, <1>3 DEF CommandInv, Position
<1>11. InOrder'
  <2>1. \A g \in Targets \cup Spares : fd'[g] = fd[g]
    BY <1>4, <1>5, Numbers
  <2> QED
    BY <1>3, <2>1 DEF CommandInv, InOrder
<1>12. Undoable'
  <2> SUFFICES ASSUME run.kind = "builtin", run.before.clean
      PROVE /\ \A g \in Fds : ~HasFlag(table', g, "redirected")
            /\ \A g \in Named(run.redirs) \ (run.unsaved \ {f}) : BackupsOf(table', g) # {}
            /\ \A g \in Targets \cup Spares :
                  BackupsOf(table', g) = {} => fd'[g] = run.before.fd[g]
            /\ \A g \in Targets : \A c \in BackupsOf(table', g) : fd'[c] = run.before.fd[g]
            /\ \A c \in Backups : run.before.fd[c] = Nothing
    BY <1>3 DEF Undoable
  <2>1. /\ \A g \in Fds : ~HasFlag(table, g, "redirected")
        /\ \A g \in Named(run.redirs) \ run.unsaved : BackupsOf(table, g) # {}
        /\ \A g \in Targets \cup Spares : BackupsOf(table, g) = {} => fd[g] = run.before.fd[g]
        /\ \A g \in Targets : \A c \in BackupsOf(table, g) : fd[c] = run.before.fd[g]
        /\ \A c \in Backups : run.before.fd[c] = Nothing
    BY <1>2 DEF CommandInv, Undoable
  <2>2. \A g \in Fds : ~HasFlag(table', g, "redirected")
    BY <1>5, <2>1 DEF HasFlag
  <2>3. Named(run.redirs) \subseteq Targets
    <3>1. run.redirs \in Seq(Redirection) /\ \A r \in Redirection : r.to \in Targets
      BY <1>2 DEF Run, Redirection
    <3> QED
      BY <3>1 DEF Named
  <2>4. \A g \in Named(run.redirs) \ (run.unsaved \ {f}) : BackupsOf(table', g) # {}
    BY <1>9, <2>1, <2>3
  <2>5. \A g \in Targets \cup Spares : BackupsOf(table', g) = {} => fd'[g] = run.before.fd[g]
    BY <1>4, <1>5, <1>9, <2>1, Numbers
  <2>6. \A g \in Targets : \A c \in BackupsOf(table', g) : fd'[c] = run.before.fd[g]
    <3>1. fd'[b] = run.before.fd[f]
      BY <1>5, <1>7, <2>1
    <3>2. \A g \in Targets : \A c \in BackupsOf(table, g) : c # b /\ c \in Fds
      BY <1>6 DEF BackupsOf
    <3> QED
      BY <1>5, <1>9, <2>1, <3>1, <3>2
  <2> QED
    BY <2>1, <2>2, <2>4, <2>5, <2>6
<1> QED
  BY <1>10, <1>11, <1>12 DEF CommandInv

\* A redirection that keeps the backups and changes its target as it says.
LEMMA RedirCommand ==
    ASSUME IInv, CommandInv, Applying, NextRedir, pc' = "apply",
           \A f \in Fds : f # Redir.to => fd'[f] = fd[f],
           \A f \in Fds : BackupsOf(table', f) = BackupsOf(table, f),
           \A d \in [Fds -> OpenFiles] :
               /\ Plain(run.redirs, run.before.fd)
               /\ \A f \in Targets \cup Spares : fd[f] = d[f]
               /\ fd[Redir.to] # Nothing
               => fd'[Redir.to] = Meant(d, Redir)[Redir.to] /\ fd'[Redir.to] # Nothing
    PROVE  CommandInv'
<1>1. /\ run \in Run /\ run.unsaved = {} /\ run.redirs \in Seq(Redirection)
      /\ run.at \in Nat \ {0} /\ run.at <= Len(run.redirs) /\ Len(run.redirs) \in Nat
      /\ run.before.fd \in [Fds -> OpenFiles]
  BY DEF IInv, TypeInv, Applying, Run
<1>2. /\ (run').kind = run.kind /\ (run').unsaved = {} /\ (run').redirs = run.redirs
      /\ (run').at = run.at + 1 /\ (run').before = run.before
  BY <1>1 DEF NextRedir, Run
<1>3. /\ run.at \in 1..Len(run.redirs) /\ Redir = run.redirs[run.at]
      /\ Redir \in Redirection /\ Redir.to \in Targets /\ Redir.to \in Named(run.redirs)
  <2>1. run.at \in 1..Len(run.redirs) /\ run.at \in DOMAIN run.redirs
    BY <1>1
  <2>2. Redir \in Redirection /\ \A r \in Redirection : r.to \in Targets
    BY <1>1, <2>1 DEF Redir, Redirection
  <2> QED
    BY <2>1, <2>2 DEF Redir, Named
<1>4. Position'
  BY <1>1, <1>2 DEF Position
<1>5. InOrder'
  <2> SUFFICES ASSUME run.kind \in Commands, Plain(run.redirs, run.before.fd),
                      NEW f \in Targets \cup Spares
               PROVE  /\ fd'[f] = After(run.redirs, run.before.fd)[run.at][f]
                      /\ run.before.fd[f] # Nothing => fd'[f] # Nothing
    BY <1>1, <1>2 DEF InOrder
  <2> DEFINE A == After(run.redirs, run.before.fd)
             d == A[run.at - 1]
  <2>1. /\ A[run.at] = Meant(d, Redir) /\ d \in [Fds -> OpenFiles]
    BY <1>1, <1>3, AfterIs
  <2>2. \A g \in Targets \cup Spares :
           fd[g] = d[g] /\ (run.before.fd[g] # Nothing => fd[g] # Nothing)
    BY DEF CommandInv, InOrder
  <2>3. fd[Redir.to] # Nothing
    <3>1. run.before.fd[Redir.to] # Nothing
      <4>1. run.at \in DOMAIN run.redirs
        BY <1>1
      <4> QED
        BY <1>3, <4>1 DEF Plain
    <3> QED
      BY <1>3, <2>2, <3>1
  <2> HIDE DEF A, d
  <2>4. fd'[Redir.to] = Meant(d, Redir)[Redir.to] /\ fd'[Redir.to] # Nothing
    BY <2>1, <2>2, <2>3
  <2>5. CASE f = Redir.to
    BY <2>1, <2>4, <2>5 DEF A
  <2>6. CASE f # Redir.to
    <3>1. fd'[f] = fd[f]
      BY <2>6, Numbers
    <3>2. Meant(d, Redir)[f] = d[f]
      BY <2>1, <2>6, Numbers DEF Meant
    <3> QED
      BY <2>1, <2>2, <3>1, <3>2 DEF A
  <2> QED
    BY <2>5, <2>6
<1>6. Undoable'
  <2> SUFFICES ASSUME run.kind = "builtin", run.before.clean
      PROVE /\ \A f \in Named(run.redirs) : BackupsOf(table', f) # {}
            /\ \A f \in Targets \cup Spares :
                  BackupsOf(table', f) = {} => fd'[f] = run.before.fd[f]
            /\ \A f \in Targets : \A b \in BackupsOf(table', f) : fd'[b] = run.before.fd[f]
            /\ \A b \in Backups : run.before.fd[b] = Nothing
    BY <1>2 DEF Undoable
  <2>1. /\ \A f \in Named(run.redirs) : BackupsOf(table, f) # {}
        /\ \A f \in Targets \cup Spares : BackupsOf(table, f) = {} => fd[f] = run.before.fd[f]
        /\ \A f \in Targets : \A b \in BackupsOf(table, f) : fd[b] = run.before.fd[f]
        /\ \A b \in Backups : run.before.fd[b] = Nothing
    BY <1>1 DEF CommandInv, Undoable
  <2>2. /\ \A f \in Targets \cup Spares : f \in Fds
        /\ \A f \in Named(run.redirs) : f \in Fds
    <3>1. \A k \in DOMAIN run.redirs : run.redirs[k] \in Redirection
      BY <1>1
    <3>2. \A r \in Redirection : r.to \in Targets
      BY DEF Redirection
    <3> QED
      BY <3>1, <3>2, Numbers DEF Named
  <2>3. \A f \in Targets : \A b \in BackupsOf(table, f) : b \in Fds /\ b # Redir.to
    <3>1. \A b \in SavedFds(table) : b \in Fds /\ b \in Backups
      BY DEF IInv, Sound, SavedFds
    <3> QED
      BY <1>3, <3>1, Numbers DEF BackupsOf
  <2> QED
    BY <1>3, <2>1, <2>2, <2>3
<1> QED
  BY <1>4, <1>5, <1>6 DEF CommandInv

\* Opening, duplicating and closing keep the backups.
LEMMA FlaggedBackups ==
    ASSUME NEW d, NEW t, NEW P, Sound(d, t, P), NEW f \in Targets, NEW T,
           "saved" \notin T[f].flags, \A g \in Fds : g # f => T[g] = t[g]
    PROVE  \A g \in Fds : BackupsOf(T, g) = BackupsOf(t, g)
<1>1. f \in Fds /\ f \notin Backups
  BY Numbers
<1>2. f \notin SavedFds(t) /\ f \notin SavedFds(T)
  BY <1>1 DEF Sound, SavedFds, HasFlag
<1>3. SavedFds(T) = SavedFds(t) /\ \A b \in SavedFds(t) : T[b] = t[b]
  BY <1>2 DEF SavedFds, HasFlag
<1> QED
  BY <1>3 DEF BackupsOf

LEMMA ApplyOpenCommand ==
    ASSUME IInv, CommandInv, ApplyOpen
    PROVE  CommandInv'
<1>1. /\ Applying /\ NextRedir /\ pc' = "apply" /\ Redir.how \in {"file", "here"}
      /\ table' = [table EXCEPT ![Redir.to].flags = {"redirected"}]
  BY DEF ApplyOpen, Applying, Add
<1>2. PICK temp \in Fds : IsLowest(temp, Free(Fds)) /\ fd' = OpenedAt(temp, Redir)
  BY DEF ApplyOpen
<1>3. Redir \in Redirection /\ Redir.to \in Targets /\ Redir.to \in Fds
  BY <1>1, Advanced, Numbers
<1>4. /\ Sound(fd, table, Pending) /\ fd \in [Fds -> OpenFiles] /\ table \in [Fds -> Entry]
      /\ fd[temp] = Nothing
  BY <1>2 DEF IInv, Sound, IsLowest, Free
<1>5. \A f \in Fds : BackupsOf(table', f) = BackupsOf(table, f)
  <2>1. /\ (table'[Redir.to]).flags = {"redirected"}
        /\ \A g \in Fds : g # Redir.to => table'[g] = table[g]
    BY <1>1, <1>3, <1>4 DEF Entry
  <2>2. "saved" \notin (table'[Redir.to]).flags
    BY <2>1
  <2> QED
    BY <1>3, <1>4, <2>1, <2>2, FlaggedBackups
<1>6. /\ fd' = IF temp = Redir.to THEN fd ELSE [fd EXCEPT ![Redir.to] = Opened(Redir)]
      /\ \A f \in Fds : f # Redir.to => fd'[f] = fd[f]
  BY <1>2, <1>3, <1>4, OpenedAtIs
<1>7. ASSUME NEW d \in [Fds -> OpenFiles], fd[Redir.to] # Nothing
      PROVE  fd'[Redir.to] = Meant(d, Redir)[Redir.to] /\ fd'[Redir.to] # Nothing
  <2>1. fd'[Redir.to] = Opened(Redir)
    BY <1>3, <1>4, <1>6, <1>7
  <2>2. Meant(d, Redir)[Redir.to] = Opened(Redir)
    BY <1>1, <1>3 DEF Meant
  <2>3. Opened(Redir) # Nothing
    BY DEF Opened, Nothing, File, HereDoc
  <2> QED
    BY <2>1, <2>2, <2>3
<1> QED
  BY <1>1, <1>5, <1>6, <1>7, RedirCommand

LEMMA ApplyDupCommand ==
    ASSUME IInv, CommandInv, ApplyDup
    PROVE  CommandInv'
<1>1. /\ Applying /\ NextRedir /\ pc' = "apply" /\ Redir.how = "dup"
      /\ fd[Stdin] # Nothing /\ fd' = [fd EXCEPT ![Redir.to] = fd[Stdin]]
      /\ table' = [table EXCEPT ![Redir.to].flags = {"redirected"}]
  BY DEF ApplyDup, Applying, Add, DupSource
<1>3. Redir \in Redirection /\ Redir.to \in Targets /\ Redir.to \in Fds /\ Stdin \in Targets
  BY <1>1, Advanced, Numbers
<1>4. Sound(fd, table, Pending) /\ fd \in [Fds -> OpenFiles] /\ table \in [Fds -> Entry]
  BY DEF IInv, Sound
<1>5. \A f \in Fds : BackupsOf(table', f) = BackupsOf(table, f)
  <2>1. /\ (table'[Redir.to]).flags = {"redirected"}
        /\ \A g \in Fds : g # Redir.to => table'[g] = table[g]
    BY <1>1, <1>3, <1>4 DEF Entry
  <2>2. "saved" \notin (table'[Redir.to]).flags
    BY <2>1
  <2> QED
    BY <1>3, <1>4, <2>1, <2>2, FlaggedBackups
<1>6. \A f \in Fds : f # Redir.to => fd'[f] = fd[f]
  BY <1>1, <1>4
<1>7. ASSUME Plain(run.redirs, run.before.fd), NEW d \in [Fds -> OpenFiles],
             \A f \in Targets \cup Spares : fd[f] = d[f]
      PROVE  fd'[Redir.to] = Meant(d, Redir)[Redir.to] /\ fd'[Redir.to] # Nothing
  <2>1. fd'[Redir.to] = fd[Stdin]
    BY <1>1, <1>3, <1>4
  <2>2. run.at \in DOMAIN run.redirs
    BY <1>1 DEF IInv, TypeInv, Run, Applying
  <2>3. Redir.from = Stdin
    BY <1>1, <1>7, <2>2 DEF Plain, Redir
  <2>4. Meant(d, Redir)[Redir.to] = d[Stdin]
    BY <1>1, <1>3, <2>3 DEF Meant
  <2> QED
    BY <1>1, <1>3, <1>7, <2>1, <2>4
<1> QED
  BY <1>1, <1>5, <1>6, <1>7, RedirCommand

LEMMA ApplyCloseCommand ==
    ASSUME IInv, CommandInv, ApplyClose
    PROVE  CommandInv'
<1> DEFINE kept == table[Redir.to].flags \ {"redirected"}
<1>1. /\ Applying /\ NextRedir /\ pc' = "apply" /\ Redir.how = "close"
      /\ fd' = [fd EXCEPT ![Redir.to] = Nothing]
      /\ table' = [table EXCEPT ![Redir.to].flags = kept]
  BY DEF ApplyClose, Applying, Clear
<1>3. Redir \in Redirection /\ Redir.to \in Targets /\ Redir.to \in Fds /\ Redir.to \notin Backups
  BY <1>1, Advanced, Numbers
<1>4. Sound(fd, table, Pending) /\ fd \in [Fds -> OpenFiles] /\ table \in [Fds -> Entry]
  BY DEF IInv, Sound
<1>5. \A f \in Fds : BackupsOf(table', f) = BackupsOf(table, f)
  <2>1. "saved" \notin kept
    BY <1>3, <1>4 DEF Sound, HasFlag
  <2> HIDE DEF kept
  <2>2. /\ (table'[Redir.to]).flags = kept
        /\ \A g \in Fds : g # Redir.to => table'[g] = table[g]
    BY <1>1, <1>3, <1>4 DEF Entry
  <2> QED
    BY <1>3, <1>4, <2>1, <2>2, FlaggedBackups
<1>6. \A f \in Fds : f # Redir.to => fd'[f] = fd[f]
  BY <1>1, <1>4
<1>7. ~Plain(run.redirs, run.before.fd)
  <2>1. run.at \in DOMAIN run.redirs
    BY <1>1 DEF IInv, TypeInv, Run, Applying
  <2> QED
    BY <1>1, <2>1 DEF Plain, Redir
<1> HIDE DEF kept
<1> QED
  BY <1>1, <1>5, <1>6, <1>7, RedirCommand

LEMMA ExecuteCommand ==
    ASSUME IInv, CommandInv, Execute
    PROVE  CommandInv'
<1>1. /\ run.kind \in {"builtin", "program"} /\ run.unsaved = {} /\ run.at > Len(run.redirs)
      /\ fd' = fd /\ table' = table /\ run' = run
  BY DEF Execute, Applied
<1>2. run.at = Len(run.redirs) + 1
  BY <1>1 DEF IInv, TypeInv, Run, CommandInv, Position
<1> QED
  BY <1>1, <1>2 DEF CommandInv, Position, InOrder, Undoable

LEMMA EnterFunctionCommand ==
    ASSUME IInv, NEW own \in OwnLists, EnterFunction(own)
    PROVE  CommandInv'
<1>1. /\ (run').kind = "definition" /\ (run').redirs = own /\ (run').at = 1 /\ pc' = "apply"
  BY DEF EnterFunction, Applied, NoCommand
<1>2. Len(own) \in Nat
  BY DEF OwnLists
<1> QED
  BY <1>1, <1>2 DEF CommandInv, Position, InOrder, Undoable, Commands

\* Between commands nothing is said of one.
LEMMA QuietCommand ==
    ASSUME IInv, run' = run, pc \in {"ready", "unwind"}, pc' \in {"ready", "unwind"}
    PROVE  CommandInv'
BY Quiet, IdleCommand

LEMMA InitCommand == Init => CommandInv
<1> SUFFICES ASSUME Init PROVE CommandInv
  OBVIOUS
<1>1. /\ run.kind = "none" /\ run.redirs = <<>> /\ run.at = 1 /\ run.unsaved = {} /\ pc = "ready"
  BY DEF Init, NoCommand
<1> QED
  BY <1>1 DEF CommandInv, Position, InOrder, Undoable, Commands

LEMMA NextCommand == IInv /\ CommandInv /\ [Next]_vars => CommandInv'
<1> SUFFICES ASSUME IInv, CommandInv, [Next]_vars PROVE CommandInv'
  OBVIOUS
<1>1. ASSUME NEW kind \in {"builtin", "function", "program"}, NEW list \in Lists,
             Start(kind, list)
      PROVE  CommandInv'
  BY <1>1, StartCommand
<1>2. CASE SkipSave \/ Save \/ ApplyOpen \/ ApplyDup \/ ApplyClose \/ Execute
  BY <1>2, SkipSaveCommand, SaveCommand, ApplyOpenCommand, ApplyDupCommand,
     ApplyCloseCommand, ExecuteCommand
<1>3. CASE SaveFails \/ ApplyFails
  BY <1>3, IdleCommand DEF SaveFails, ApplyFails, Fail
<1>4. CASE EnterBody \/ EndBuiltin \/ EndProgram
  BY <1>4, IdleCommand DEF EnterBody, EndBuiltin, EndProgram
<1>5. ASSUME NEW own \in OwnLists, EnterFunction(own)
      PROVE  CommandInv'
  BY <1>5, EnterFunctionCommand
<1>6. CASE EnterGroup \/ EnterSubshell
  BY <1>6, QuietCommand DEF EnterGroup, EnterSubshell, Enter
<1>7. CASE LeaveFunction \/ LeaveGroup \/ LeaveSubshell \/ NextLine
  BY <1>7, QuietCommand DEF LeaveFunction, LeaveGroup, LeaveSubshell, InScope, NextLine
<1>8. CASE UNCHANGED vars
  BY <1>8 DEF vars, CommandInv, Position, InOrder, Undoable
<1> QED
  BY <1>1, <1>2, <1>3, <1>4, <1>5, <1>6, <1>7, <1>8 DEF Next

\* What the restore makes of a builtin's descriptors, whenever it happens.
LEMMA Undone ==
    ASSUME IInv, CommandInv, run.kind = "builtin", run.before.clean
    PROVE  RestoredFds(fd, table) = run.before.fd
<1>1. /\ Sound(fd, table, Pending) /\ run.before.fd \in [Fds -> OpenFiles]
  BY DEF IInv, TypeInv, Run
<1>2. /\ \A f \in Targets \cup Spares : BackupsOf(table, f) = {} => fd[f] = run.before.fd[f]
      /\ \A f \in Targets : \A b \in BackupsOf(table, f) : fd[b] = run.before.fd[f]
      /\ \A b \in Backups : run.before.fd[b] = Nothing
  BY DEF CommandInv, Undoable
<1>3. ASSUME NEW f \in Fds
      PROVE  RestoredFds(fd, table)[f] = run.before.fd[f]
  <2>1. RestoredFds(fd, table)[f] =
           IF f \in SavedFds(table) THEN Nothing
           ELSE IF BackupsOf(table, f) # {} THEN fd[CHOOSE b \in BackupsOf(table, f) : TRUE]
           ELSE fd[f]
    BY DEF RestoredFds
  <2>2. CASE f \in Targets
    <3>1. f \notin SavedFds(table)
      BY <1>1, <2>2, Numbers DEF Sound, SavedFds
    <3>2. CASE BackupsOf(table, f) # {}
      <4>1. (CHOOSE b \in BackupsOf(table, f) : TRUE) \in BackupsOf(table, f)
        BY <3>2
      <4> QED
        BY <1>2, <2>1, <2>2, <3>1, <3>2, <4>1
    <3>3. CASE BackupsOf(table, f) = {}
      BY <1>2, <2>1, <2>2, <3>1, <3>3
    <3> QED
      BY <3>2, <3>3
  <2>3. f \notin Targets => BackupsOf(table, f) = {}
    BY <1>1 DEF Sound, BackupsOf
  <2>4. CASE f \in Spares
    <3>1. f \notin SavedFds(table) /\ f \notin Targets
      BY <1>1, <2>4, Numbers DEF Sound, SavedFds
    <3> QED
      BY <1>2, <2>1, <2>3, <2>4, <3>1
  <2>5. CASE f \in Backups
    <3>1. f \notin Targets /\ (f \notin SavedFds(table) => fd[f] = Nothing)
      BY <1>1, <2>5, Numbers DEF Sound, SavedFds
    <3> QED
      BY <1>2, <2>1, <2>3, <2>5, <3>1
  <2> QED
    BY <2>2, <2>4, <2>5 DEF Fds
<1> QED
  BY <1>1, <1>3 DEF RestoredFds

LEMMA EndIsUndone ==
    ASSUME IInv, CommandInv, [Next]_vars, EndsBuiltin, run.before.clean
    PROVE  fd' = run.before.fd
<1>1. run.kind = "builtin" /\ (run').kind = "none" /\ run # NoCommand /\ run \in Run
  BY DEF EndsBuiltin, NoCommand, IInv, TypeInv
<1>2. pc \notin {"ready", "unwind"}
  BY <1>1, Quiet
<1>3. CASE Restore
  BY <1>1, <1>3, Undone DEF Restore
<1>4. CASE SkipSave \/ Save \/ ApplyOpen \/ ApplyDup \/ ApplyClose \/ Execute \/ UNCHANGED vars
  <2>1. (run').kind = run.kind
    BY <1>1, <1>4 DEF SkipSave, Save, ApplyOpen, ApplyDup, ApplyClose, NextRedir, Execute, vars,
       Run
  <2> QED
    BY <1>1, <2>1
<1>5. CASE SaveFails \/ ApplyFails
  BY <1>1, <1>3, <1>5 DEF SaveFails, ApplyFails, Fail
<1>6. CASE EnterBody \/ EndProgram \/ \E own \in OwnLists : EnterFunction(own)
  BY <1>1, <1>6 DEF EnterBody, EndProgram, EnterFunction
<1>7. CASE EndBuiltin
  BY <1>3, <1>7 DEF EndBuiltin
<1>8. CASE EnterGroup \/ EnterSubshell \/ LeaveFunction \/ LeaveGroup \/ LeaveSubshell \/ NextLine
  BY <1>2, <1>8 DEF EnterGroup, EnterSubshell, Enter, LeaveFunction, LeaveGroup, LeaveSubshell,
     InScope, NextLine
<1>9. CASE \E kind \in {"builtin", "function", "program"}, list \in Lists : Start(kind, list)
  BY <1>2, <1>9 DEF Start
<1> QED
  BY <1>4, <1>5, <1>6, <1>7, <1>8, <1>9 DEF Next

\* A command sees its redirections as written and a builtin leaves none of them behind,
\* also when one failed half way (exec_apply_redirections_posix,
\* exec_restore_redirections_posix).
THEOREM AlwaysRedirectedAsWritten == Spec => RedirectedAsWritten
<1>1. IInv /\ CommandInv => AppliedInOrder
  <2> SUFFICES ASSUME IInv, CommandInv, pc = "running", Plain(run.redirs, run.before.fd)
               PROVE  SeesWritten
    BY DEF AppliedInOrder
  <2>1. run.redirs \in Seq(Redirection) /\ run.before.fd \in [Fds -> OpenFiles]
    BY DEF IInv, TypeInv, Run
  <2>2. run.kind \in Commands /\ run.at - 1 = Len(run.redirs)
    BY <2>1 DEF CommandInv, Position, Commands
  <2>3. Written(run.redirs, run.before.fd) = After(run.redirs, run.before.fd)[run.at - 1]
    BY <2>1, <2>2, AfterIs
  <2> QED
    BY <2>2, <2>3 DEF CommandInv, InOrder, SeesWritten
<1>2. IInv /\ CommandInv /\ [Next]_vars => [EndsBuiltin /\ run.before.clean => fd' = run.before.fd]_vars
  BY EndIsUndone
<1> QED
  BY <1>1, <1>2, InitCommand, NextCommand, TableInvariant, RedirectionsTypeCorrect, PTL
     DEF Spec, RedirectedAsWritten, CleanCommandUndone

=============================================================================
