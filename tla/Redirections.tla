---------------------------- MODULE Redirections ----------------------------
(***************************************************************************)
(* The redirections of simple commands (src/src/exec_redirect.c), the      *)
(* table that remembers how to undo them (src/src/fd_table.c), and the     *)
(* frames in between (execute_frame_body in src/src/exec_frame.c).         *)
(*                                                                         *)
(* Before a command with redirections runs in the shell, each descriptor   *)
(* that it names is duplicated to a backup from 10 up, unless the table    *)
(* says that the descriptor is redirected already; then the redirections   *)
(* are made from left to right.  Afterwards, or when one fails, every      *)
(* backup in the table is copied back.  All frames that do not fork share  *)
(* one table, so commands in a function act on the function's own backups. *)
(*                                                                         *)
(* A process is its descriptors and its table.  While a child runs in the  *)
(* foreground the shell waits, so the child takes the shell's place and    *)
(* what the shell has is kept in `scopes`.                                 *)
(***************************************************************************)
EXTENDS Integers, Sequences

CONSTANTS
    Targets,    \* the descriptors redirections name, all below min_backup_fd
    Spares,     \* other descriptors below min_backup_fd, free at the start
    Backups,    \* descriptors from min_backup_fd up
    MaxRedirs,  \* bound: redirections of a command
    MaxDepth    \* bound: functions, groups and subshells inside each other

Stdin  == 0
Stdout == 1
Fds == Targets \cup Spares \cup Backups

ASSUME RedirectionsAssumption ==
    /\ Fds \subseteq Nat
    /\ {Stdin, Stdout} \subseteq Targets
    /\ \A b \in Backups : \A f \in Targets \cup Spares : f < b
    /\ Targets \cap Spares = {}
    /\ MaxRedirs \in Nat /\ MaxDepth \in Nat

\* What a descriptor refers to.
Nothing      == <<"nothing", 0>>
Inherited(f) == <<"inherited", f>>
File         == <<"file", 0>>
HereDoc      == <<"here-document", 0>>
OpenFiles    == {Nothing, File, HereDoc} \cup {Inherited(f) : f \in Targets}

\* A redirection: to a file, to a here-document, to the descriptor `from`, or a close.
Redirection ==
    [how : {"file", "here", "close"}, to : Targets]
        \cup [how : {"dup"}, to : Targets, from : Targets]

Lists == UNION {[1..k -> Redirection] : k \in 0..MaxRedirs}

\* What may be written with a function's definition, at most one (a bound): func_store_add_ex
\* clones the list, and exec_redirections_clone forgets is_expanded, so a file has no name
\* any more and cannot be opened; a here-document that fails stands for that too.
OwnLists == {<<>>} \cup {<<r>> : r \in {x \in Redirection : x.how # "file"}}

Named(list) == {list[k].to : k \in DOMAIN list}

VARIABLES
    fd,      \* what each descriptor of the running process refers to
    table,   \* its fd_table: flags and original_fd of each descriptor
    pc,      \* between commands, applying, running, or leaving a list after an error
    run,     \* the simple command being executed
    scopes   \* the functions, groups and children we are in

vars == <<fd, table, pc, run, scopes>>

-----------------------------------------------------------------------------
(* fd_table.c.  A descriptor that is not in the table has no flags, and no *)
(* operation but Add and Track treats it otherwise.                        *)

Flags == {"redirected", "saved"}
NoFd  == -1
Untracked == [flags |-> {}, original_fd |-> NoFd]
Entry == [flags : SUBSET Flags, original_fd : Targets \cup {NoFd}]

HasFlag(t, f, flag) == flag \in t[f].flags
SavedFds(t) == {b \in Fds : HasFlag(t, b, "saved")}

Add(t, f, flags)      == [t EXCEPT ![f].flags = flags]
Clear(t, f, flag)     == [t EXCEPT ![f].flags = @ \ {flag}]

Track(t, b, original) == [t EXCEPT ![b] = [flags |-> {"saved"}, original_fd |-> original]]

-----------------------------------------------------------------------------
(* File descriptors.                                                       *)

Free(S) == {f \in S : fd[f] = Nothing}
IsLowest(f, S) == f \in S /\ \A g \in S : f <= g

\* exec_restore_redirections_posix, for every saved descriptor in the table.
BackupsOf(t, f) == {b \in SavedFds(t) : t[b].original_fd = f}

RestoredFds(d, t) ==
    [f \in Fds |-> IF f \in SavedFds(t) THEN Nothing
                   ELSE IF BackupsOf(t, f) # {} THEN d[CHOOSE b \in BackupsOf(t, f) : TRUE]
                   ELSE d[f]]

RestoredTable(t) ==
    [f \in Fds |-> IF f \in SavedFds(t) THEN Untracked
                   ELSE IF BackupsOf(t, f) # {}
                        THEN [t[f] EXCEPT !.flags = @ \ {"redirected"}]
                        ELSE t[f]]

Restore ==
    /\ fd' = RestoredFds(fd, table)
    /\ table' = RestoredTable(table)

\* execute_frame_body of a frame without pipes: both pipe fields are left at 0, so it
\* closes descriptor 0, fails to copy it to 1, and marks both as redirected.
PlumbedFds(d)   == [d EXCEPT ![Stdin] = Nothing]
PlumbedTable(t) == Add(Add(t, Stdin, {"redirected"}), Stdout, {"redirected"})

-----------------------------------------------------------------------------
(* Simple commands.                                                        *)

\* run.before: what the descriptors were when the command started, and whether the table
\* had neither redirected nor saved ones then.  Read by the properties only.
NoCommand == [kind |-> "none", redirs |-> <<>>, at |-> 1, unsaved |-> {},
              before |-> [fd |-> [f \in Fds |-> Nothing], clean |-> FALSE]]

Clean(t) == \A f \in Fds : t[f].flags = {}

Child(kind) == [kind |-> kind, fd |-> fd, table |-> table]

Init ==
    /\ fd \in {d \in [Fds -> OpenFiles] :
                  \A f \in Fds : (f \in Targets /\ d[f] = Inherited(f)) \/ d[f] = Nothing}
    /\ table = [f \in Fds |-> Untracked]
    /\ pc = "ready"
    /\ run = NoCommand
    /\ scopes = <<>>

\* Mutant of ToSave: a descriptor that is only closed is not saved.
ToSaveOpened(list) == {list[k].to : k \in {j \in DOMAIN list : list[j].how # "close"}}

\* The pre-pass over the list.
ToSave(list) == Named(list)

\* A builtin, a function or a program, for which the shell forks first.  A command of
\* redirections alone does nothing at all.
Start(kind, list) ==
    /\ pc = "ready"
    /\ kind = "function" => Len(scopes) < MaxDepth
    /\ run' = [kind |-> kind, redirs |-> list, at |-> 1, unsaved |-> ToSave(list),
               before |-> [fd |-> fd, clean |-> Clean(table)]]
    /\ scopes' = IF kind = "program" THEN Append(scopes, Child("program")) ELSE scopes
    /\ pc' = "apply"
    /\ UNCHANGED <<fd, table>>

Leave(scope) ==
    /\ fd' = scope.fd
    /\ table' = scope.table

Innermost == scopes[Len(scopes)]
Outer == SubSeq(scopes, 1, Len(scopes) - 1)

\* cleanup_error: the backups made so far, and those of every function around, are put
\* back.  A builtin or a call reports an error that ends the list it is in; a child
\* exits; a function whose own redirections fail returns 1 without running its body.
\* Mutant of Fail: the error path forgets to put them back.
FailUnrestored ==
    /\ IF run.kind = "program" THEN Leave(Innermost) ELSE UNCHANGED <<fd, table>>
    /\ scopes' = IF run.kind \in {"program", "definition"} THEN Outer ELSE scopes
    /\ pc' = IF run.kind \in {"program", "definition"} THEN "ready" ELSE "unwind"
    /\ run' = NoCommand

Fail ==
    /\ IF run.kind = "program" THEN Leave(Innermost) ELSE Restore
    /\ scopes' = IF run.kind \in {"program", "definition"} THEN Outer ELSE scopes
    /\ pc' = IF run.kind \in {"program", "definition"} THEN "ready" ELSE "unwind"
    /\ run' = NoCommand

\* Step 2 of exec_apply_redirections_posix, in ascending order.
Saving(f) == pc = "apply" /\ IsLowest(f, run.unsaved)

\* Mutant of AlreadyRedirected: saved again by every command.
AlreadyRedirectedNever(f) == FALSE

AlreadyRedirected(f) == HasFlag(table, f, "redirected")

SkipSave ==
    \E f \in Targets :
        /\ Saving(f) /\ AlreadyRedirected(f)
        /\ run' = [run EXCEPT !.unsaved = @ \ {f}]
        /\ UNCHANGED <<fd, table, pc, scopes>>

Save ==
    \E f \in Targets, b \in Backups :
        /\ Saving(f) /\ ~AlreadyRedirected(f)
        /\ fd[f] # Nothing
        /\ IsLowest(b, Free(Backups))
        /\ fd' = [fd EXCEPT ![b] = fd[f]]
        /\ table' = Track(table, b, f)
        /\ run' = [run EXCEPT !.unsaved = @ \ {f}]
        /\ UNCHANGED <<pc, scopes>>

\* fcntl(F_DUPFD_CLOEXEC) fails: the descriptor is not open, or there is none left.  The
\* limit is the system's: it may be reached at any call, as in open, pipe and mkstemp.
SaveFails == \E f \in Targets : Saving(f) /\ ~AlreadyRedirected(f) /\ Fail

\* Step 3, from left to right.
Applying == pc = "apply" /\ run.unsaved = {} /\ run.at <= Len(run.redirs)

Redir == run.redirs[run.at]
NextRedir == run' = [run EXCEPT !.at = @ + 1]

Opened(r) == IF r.how = "file" THEN File ELSE HereDoc

\* open(), pipe() or, for a long here-document, mkstemp() gives the lowest descriptor there
\* is; it is copied to the target and closed, and when it is the target itself that closes
\* the target.
OpenedAt(temp, r) ==
    LET opened == [fd EXCEPT ![temp] = Opened(r)]
        copied == [opened EXCEPT ![r.to] = opened[temp]]
    IN  [copied EXCEPT ![temp] = Nothing]

ApplyOpen ==
    /\ Applying /\ Redir.how \in {"file", "here"}
    /\ \E temp \in Fds :
          /\ IsLowest(temp, Free(Fds))
          /\ fd' = OpenedAt(temp, Redir)
    /\ table' = Add(table, Redir.to, {"redirected"})
    /\ NextRedir
    /\ UNCHANGED <<pc, scopes>>

\* exec_redirections_create_from_ast_nodes takes io_number of the word after >& for the
\* source, which is 0 in every word: the source is descriptor 0 whatever was written.
DupSource(r) == Stdin

ApplyDup ==
    /\ Applying /\ Redir.how = "dup"
    /\ fd[DupSource(Redir)] # Nothing
    /\ fd' = [fd EXCEPT ![Redir.to] = fd[DupSource(Redir)]]
    /\ table' = Add(table, Redir.to, {"redirected"})
    /\ NextRedir
    /\ UNCHANGED <<pc, scopes>>

ApplyClose ==
    /\ Applying /\ Redir.how = "close"
    /\ fd[Redir.to] # Nothing
    /\ fd' = [fd EXCEPT ![Redir.to] = Nothing]
    /\ table' = Clear(table, Redir.to, "redirected")
    /\ NextRedir
    /\ UNCHANGED <<pc, scopes>>

ApplyFails ==
    /\ Applying
    /\ \/ Redir.how \in {"file", "here"}
       \/ Redir.how = "dup" /\ fd[DupSource(Redir)] = Nothing
       \/ Redir.how = "close" /\ fd[Redir.to] = Nothing
    /\ Fail

Applied == pc = "apply" /\ run.unsaved = {} /\ run.at > Len(run.redirs)

\* The builtin or the program runs.
Execute ==
    /\ Applied /\ run.kind \in {"builtin", "program"}
    /\ pc' = "running"
    /\ UNCHANGED <<fd, table, run, scopes>>

\* exec_frame_execute_function_body: a frame, with the redirections `own` of the definition.
EnterFunction(own) ==
    /\ Applied /\ run.kind = "function"
    /\ scopes' = Append(scopes, [kind |-> "function"])
    /\ run' = [NoCommand EXCEPT !.kind = "definition", !.redirs = own, !.unsaved = ToSave(own)]
    /\ UNCHANGED <<fd, table, pc>>

EnterBody ==
    /\ Applied /\ run.kind = "definition"
    /\ fd' = PlumbedFds(fd) /\ table' = PlumbedTable(table)
    /\ pc' = "ready" /\ run' = NoCommand
    /\ UNCHANGED scopes

EndBuiltin ==
    /\ pc = "running" /\ run.kind = "builtin"
    /\ Restore
    /\ pc' = "ready" /\ run' = NoCommand
    /\ UNCHANGED scopes

EndProgram ==
    /\ pc = "running" /\ run.kind = "program"
    /\ Leave(Innermost) /\ scopes' = Outer
    /\ pc' = "ready" /\ run' = NoCommand

-----------------------------------------------------------------------------
(* Compound commands; the redirections after one are lost when the parser's *)
(* tree is lowered, so its frame has none.                                 *)

Enter(scope) ==
    /\ pc = "ready" /\ Len(scopes) < MaxDepth
    /\ scopes' = Append(scopes, scope)
    /\ fd' = PlumbedFds(fd) /\ table' = PlumbedTable(table)
    /\ UNCHANGED <<pc, run>>

\* A brace group or a loop, and a subshell, which works on a copy of the table.
EnterGroup    == Enter([kind |-> "group"])
EnterSubshell == Enter(Child("subshell"))

InScope(kind) == pc \in {"ready", "unwind"} /\ scopes # <<>> /\ Innermost.kind = kind

LeaveFunction ==
    /\ InScope("function")
    /\ Restore
    /\ scopes' = Outer /\ pc' = "ready"
    /\ UNCHANGED run

\* An error in the group ends the list around it too.
LeaveGroup ==
    /\ InScope("group")
    /\ scopes' = Outer
    /\ UNCHANGED <<fd, table, pc, run>>

LeaveSubshell ==
    /\ InScope("subshell")
    /\ Leave(Innermost) /\ scopes' = Outer /\ pc' = "ready"
    /\ UNCHANGED run

\* The shell goes on with the next line.
NextLine ==
    /\ pc = "unwind" /\ scopes = <<>>
    /\ pc' = "ready"
    /\ UNCHANGED <<fd, table, run, scopes>>

Next ==
    \/ \E kind \in {"builtin", "function", "program"}, list \in Lists : Start(kind, list)
    \/ SkipSave \/ Save \/ SaveFails
    \/ ApplyOpen \/ ApplyDup \/ ApplyClose \/ ApplyFails
    \/ Execute \/ EnterBody \/ EndBuiltin \/ EndProgram
    \/ \E own \in OwnLists : EnterFunction(own)
    \/ EnterGroup \/ EnterSubshell \/ LeaveFunction \/ LeaveGroup \/ LeaveSubshell
    \/ NextLine

Spec == Init /\ [][Next]_vars

-----------------------------------------------------------------------------
(* Properties.                                                             *)

\* The state has the shape of the program's.
TypeOK ==
    /\ fd \in [Fds -> OpenFiles]
    /\ table \in [Fds -> Entry]
    /\ pc \in {"ready", "apply", "running", "unwind"}
    /\ run.kind \in {"none", "builtin", "function", "definition", "program"}
    /\ run.unsaved \subseteq Targets
    /\ \A k \in DOMAIN scopes : scopes[k].kind \in {"function", "group", "subshell", "program"}

\* The open descriptors from min_backup_fd up are exactly the saved ones of the table, and
\* no two are of the same descriptor: no backup is leaked and none is made of a descriptor
\* whose original is kept already, whichever step failed (exec_redirect.c:259, 638-646).
BackupsExact ==
    /\ \A b \in Fds : HasFlag(table, b, "saved") <=> (b \in Backups /\ fd[b] # Nothing)
    /\ \A b, c \in SavedFds(table) :
          /\ table[b].original_fd \in Targets
          /\ table[b].original_fd = table[c].original_fd => b = c

\* Between the commands of a list that no function surrounds nothing is saved: every
\* command before it, failed or not, has consumed its backups.
NothingSavedOutside ==
    pc \in {"ready", "unwind"} /\ (\A k \in DOMAIN scopes : scopes[k].kind # "function")
        => SavedFds(table) = {}

\* What one redirection means for a process with the descriptors d.
Meant(d, r) ==
    [d EXCEPT ![r.to] = CASE r.how \in {"file", "here"} -> Opened(r)
                          [] r.how = "dup"   -> d[r.from]
                          [] r.how = "close" -> Nothing]

\* What the redirections `list` mean, one after the other, for a process with `start`.
Written(list, start) ==
    LET after[k \in 0..Len(list)] ==
            IF k = 0 THEN start ELSE Meant(after[k - 1], list[k])
    IN  after[Len(list)]

SeesWritten ==
    \A f \in Targets \cup Spares : fd[f] = Written(run.redirs, run.before.fd)[f]

\* Every descriptor the list names is open in d, none is closed, only stdin is duplicated.
Plain(list, d) ==
    \A k \in DOMAIN list :
        /\ list[k].how # "close"
        /\ list[k].how = "dup" => list[k].from = Stdin
        /\ d[list[k].to] # Nothing

\* A builtin or a program runs with what its redirections say, in their order, if every
\* descriptor they name is open, none is closed, and only stdin is duplicated; whatever
\* is flagged or saved in the table by then (docs/simple-commands.md:65).
AppliedInOrder ==
    pc = "running" /\ Plain(run.redirs, run.before.fd) => SeesWritten

EndsBuiltin == run.kind = "builtin" /\ run'.kind = "none"

\* As long as no frame and no function has left a mark in the table, a builtin leaves
\* every descriptor as it found it, also when its redirections failed half way.
CleanCommandUndone == [][EndsBuiltin /\ run.before.clean => fd' = run.before.fd]_vars

-----------------------------------------------------------------------------
(* The property as the run checks it.                                      *)

\* From apply to restore: a command sees its redirections as written, and leaves
\* none behind (exec_apply_redirections_posix, exec_restore_redirections_posix).
RedirectedAsWritten == [](TypeOK /\ AppliedInOrder) /\ CleanCommandUndone

=============================================================================
