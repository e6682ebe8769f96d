# migash: a TLA+ model

migash is a POSIX-style shell in C. This directory models the parts of it whose
correctness depends on order, on failure half way, or on text that takes several
passes to come out right: the shell and its children run at the same time, pids are
reused, system calls fail, tables are changed by several pieces of code, a command
arrives line by line, and every command works on a copy of the variables. The modules
are read with the C source next to them; `PROJECT.json` ("map") names the lines behind
every definition.

## The system

| Component | State it keeps | Operations | Where it is hard | What makes it correct |
|---|---|---|---|---|
| Job table (`job_store.c`) | a linked list of jobs, pointers to the current and the previous job, a count, the next number | add, set a state by job or by pid, mark, print, remove one, remove the completed | pointers into a list whose nodes are freed; a pid that two jobs carry | the list is a table: no dangling pointer, no node lost |
| Job control (`exec.c`, `builtins.c`, `exec_frame.c`) | the table, the children, what a blocked builtin waits for | start in the background, reap, `wait`, `fg`, `bg`, `kill`, `exit` | four pieces of code collect the same children; a script has no table | the table tells the truth about the children |
| Pipelines (`exec_frame.c`) | descriptors of the shell and of each child | make pipes, fork, close, wait | pipe ends held too long; `pipe` or `fork` failing half way | nothing is left behind, every pipeline ends |
| Frames and control flow (`exec_frame.c`, `exec_frame_policy.h`, `frame.c`) | a stack of frames that share, copy or own their stores; the flow that is pending | push, run a list, loop, function, pop | `break`, `return` and `exit` that unwind several frames; one cleanup label for every way out | each store has one owner, and what was pushed is popped |
| Redirections (`exec_redirect.c`, `fd_table.c`) | which descriptors are redirected, where their originals are | save, apply, restore | nested redirections over one table; failure in the middle | backups are exact and all is undone |
| Traps (`trap_store.c`, `exec_frame.c`, `builtins.c`) | actions, dispositions | set, reset, inherit, run at exit | signals at any moment, also between `fork` and the reset | what `trap` lists is what the system does |
| Simple commands (`exec_command.c`) | a temporary store per command | assign, look up, run, restore | which of several stores a builtin writes | outer levels stay as they are |
| Interactive loop and parse session (`exec.c`, `parse_session.c`, `exec_frame.c`) | tokens not yet executed, lexer and tokenizer, end-of-file count | read a line, run it, recover | incomplete input, errors in the middle, end of file | a command in pieces is the command at once |
| Variables (`variable_store.c`, `variable_map.c`), positional parameters, functions | maps with open addressing; a cached environment | set, mark, unset, pass over all, shift | erasing and growing with collisions; a cache that goes stale | a map of names; the environment is current |
| Lexer, tokenizer (`lexer*.c`, `tokenizer.c`) | a stack of modes, tokens held back, here-documents queued | append a line, tokenize, reset | everything may go on in the next line | tokens do not depend on how the input was cut |
| Parser, lowering (`parser.c`, `lower.c`) | none | parse tokens, lower the tree | where a production gives up | |
| Word expansion (`exec_frame_expander.c`, `pattern_removal.c`, `glob_util.c`), arithmetic, option parsing | none of their own, but for getopt's indices | expand, match, split, evaluate | order of expansions, edges of integers, the last position of a text | each agrees with what it is said to compute |
| Strings, lists, memory, logging, library wrappers | containers | | | |

How they interact: the loop (or the script runner) hands each line to lexer, tokenizer,
parser and lowering, whose session it keeps, and the tree to the frames. A simple
command is expanded, redirected and run on a temporary store; a frame that forks records
the child in the job table; the loop calls `exec_reap_background_jobs` after every
command; `wait`, `fg`, `bg` and `kill` look a job up in the table and then block in
`waitpid` or signal a process group. Everything in the shell runs on one thread. What
runs beside it is the children and the signals.

## The modules

| Module | Models | State |
|---|---|---|
| `JobStore` | `job_store.c`, as a table | `store`, one record |
| `JobList` | `job_store.c`, as the linked list it is; implements `JobStore` | `node` (memory), `jobs` (head), the two pointers, the count |
| `JobListProofs` | theorems about `JobList` | |
| `JobControl` | background jobs, reap, `wait`, `fg`, `bg`, `kill %n`, `exit`; extends `JobStore` | `store`; `child`, `ending`, `started` (the operating system); `pc`, `target`, `notify`, `after`, `any_reaped`, `status` (the shell) |
| `Pipeline` | `exec_in_frame` for a pipeline | `shell`, `pipes`, `pc`, `i`, `result` (the shell); `child`, `buf` (children and pipes) |
| `Redirections` | `exec_redirect.c` and `fd_table.c` under commands, functions, groups and children | `fd`, `table` (the running process); `pc`, `run` (the command); `scopes` (what it is nested in) |
| `RedirectionsProofs` | theorems about `Redirections` | |
| `Frames` | the interpreter of `exec_frame.c` with the stores of its frames | `frames`, `stores`; `calls` (the C stack), `ret` (what the last callee returned); `forked`, `lastExit`, `lines`, `ended` |
| `JobControlProofs`, `PipelineProofs`, `FramesProofs`, `TrapsProofs`, `VariableStoreProofs`, `ScopesProofs` | theorems about the module of that name; those about `JobStore` are in `JobControlProofs` | |
| `Traps` | `trap_store.c`, `init_traps`, EXIT traps, over several processes | `trap` (the stores), `disp` (what the system does), `phase`, `exitTrap`, `entry`; `ran`, `stale`, `own`, `inside` (history) |
| `HashTable` | the open-addressing tables of `variable_map.c` and `func_map.c`, as operators | |
| `StoreSpec` | what `variable_store.h` promises: a map of variables | `vars` |
| `VariableStore` | `variable_store.c` over `HashTable`; implements `StoreSpec` | `hash`, `table`, `cache`, `failed`, `passed` |
| `Scopes` | the store, the parameters and the functions that each command sees and changes | `levels`, `environ`, `functions`, `sent`, `ended` |
| `Lexer` | the lexer and its modes, character by character | (a record handed from call to call) |
| `Tokenizer` | `tokenizer.c` | (likewise) |
| `Parser`, `Lower` | `parser.c`, `lower.c` | |
| `Session` | the loop over lines and the parse session; composes `Tokenizer`, `Parser` and `Lower` | `lexer`, `accumulated_tokens`, `tokenizer`, `need_continuation`, `consecutive_eof`, `result`, `options`; `read`, `lost`, `ran`, `unended` (history) |
| `Arithmetic`, `Expansion`, `GetOpt` | `arithmetic.c`; word expansion; `getopt.c` and two of its callers | |
| `Algorithms` | nothing; states what the pure parts compute, next to `Lexer`, `Arithmetic`, `Expansion` and `GetOpt` | `subject`, the input at hand |
| `MC*` | nothing; what TLC runs | |

**JobStore** is an abstract specification: an operator per C function, from the table
before the call to the table after it. "The first in the list" is "the largest number",
because `job_store_add` prepends and numbers grow. `JobList` keeps the nodes, the `next`
pointers and the loops with their `prev`, frees nodes and hands their addresses out
again. Its property `ImplementsJobStore` is `JobStore`'s specification under the mapping
`AbstractStore`, so that what the other modules and the proofs say of the table holds of
the list. The loops over `next` are written as functions by recursion on the number of
steps; the list cannot be longer than there are addresses, which is proved.

**JobControl** has one action per step of the shell between two answers of the operating
system. A builtin that blocks is an action that enters it (`WaitJob`), one per answer of
`waitpid` (`WaitJobCollect`) and one for ECHILD (`WaitJobNoChild`). The children are
records: running, stopped or a zombie, in a process group of their own or not yet.
`ChildSetPgid`, `ChildExit` and `SignalPid` happen between any two steps. A pid that was
collected is free and may be given to the next job. `interactive` is chosen at the start:
only an interactive shell has a table (`exec_setup_core`). `ending` remembers how each
process really ended, for the properties only.

**Pipeline** keeps descriptor tables, because the numbers matter: `pipe` returns the
lowest free ones and `dup2` and `close` then act on them. Every frame first "plumbs"
descriptor 0 onto itself and closes it, since `exec_frame_execute_pipeline_group` leaves
both fields at zero (`EnterFrame`). `pipe` and `fork` may fail at every call. What a
command's status comes to (`status`) and whether `exec_frame_execute_dispatch` passes it
on (`told`, the C field `has_exit_status`) are chosen when it ends.

**Redirections** has one action per step of `exec_apply_redirections_posix`: the pre-pass
(`Start`, `EnterFunction`), one save (`SkipSave`, `Save`, `SaveFails`), one redirection
(`ApplyOpen`, `ApplyDup`, `ApplyClose`, `ApplyFails`); `Fail` is its error path and
`Restore` the whole of `exec_restore_redirections_posix`. `ApplyOpen` makes, copies and
closes the temporary descriptor one after the other (`OpenedAt`). `open` and `pipe` return the
lowest free descriptor, since it matters when that is the target itself. `table` is the
one table that all frames without a fork share. A child takes the shell's place until it
exits, and the shell's descriptors and table wait in `scopes`. `unwind` is the error
status that ends every list up to the next function, child or line.

**Frames** is the interpreter as a machine: `calls` is the C stack, one record per call of
an `exec_frame_*` function with its program counter and locals, and `ret` what the callee
on top has just returned. Which command comes next is chosen, so that a run covers every
program within its bounds: lists, and-or lists, negation, `if`, loops, `case`, groups,
subshells, background jobs, functions, `eval`, dot, and the builtins that change the
flow. A frame is pushed by the policy of its type (`exec_frame_policy.h`), which says of
each store whether it is shared with the parent, copied or made anew; a store is a
number, and the model counts who owns it. A simple command replaces the variables of its
frame and puts them back at its one label, whatever happened in between.

**Traps** has a store and dispositions per process. `trap`, `exit`, `fork` (of subshells,
background jobs and pipeline commands), the frame that resets the store in the child, and
`exec` are actions; a signal arrives between any two. The handler finds no current store,
since nothing calls `trap_store_set_current`, so an action never runs on a signal; what
is left to get right is who survives, what is inherited, and the EXIT trap. A store has a
place for the signals below its capacity only (`Stored`); `trap_store_set` asserts that it
is given one of them, while `trap` accepts every number up to `NSIG` (`Unstored`). Three
histories record what the properties leave out: the signals a subshell reset in its store
with the handler left installed (`stale`), the processes that set their EXIT trap
themselves (`own`), and those that called `exit` where it does not end them (`inside`).

**HashTable, VariableStore, StoreSpec.** The table is an array with a count; `Probe`,
`InsertOrAssign`, growing, `BackwardShift` (erase one) and marking and rebuilding (erase
many) are the loops of the code as functions over positions. The hash of each name is
chosen at the start and never changes, so every way to collide is covered.
`VariableStore` adds attributes, the validation of names and values, the pass over all
variables (`variable_store_map`, which may fail half way) and the cached `envp`, of which
it keeps whether its generation is the store's. Its property `ImplementsStore` says that
every step does to the variables what `StoreSpec` allows, the pass over all excepted,
which `MapMeans` covers.

**Scopes.** A level is the main program, a function or `eval`. Every command is prepared
as in `exec_frame_execute_simple_command_impl`: a temporary copy of the level's variables
with the assignments, which is dropped at the end (`Leave`); what a builtin writes
elsewhere (the saved store, locals, the environment of the process) lasts. `sent` is what
an external program was given, kept until it is waited for. `Host*` are the functions of
`frame.h` that an embedding program calls between commands.

**Lexer, Tokenizer, Parser, Lower** are functions of what they are given and of a record
that stands for the C struct kept between calls. A mode that keeps what it has read in
locals loses it when the line ends, as the code does. Productions of the parser fail
where the code's fail and leave the position there; words promoted to reserved words stay
promoted. A violated `Expects` is a result of its own (`ABORT`, `p.dead`).

**Session** takes one line per step through tokenizer, parser and lowering exactly as
`exec_frame_string_core` does, with the early returns of each, and keeps what
`parse_session_t` keeps. Its lexer is reduced to modes: which tokens a line has is given.
`ReadLine` is a line with its newline, `LastLine` what stands before the end of the file,
and `AtEndOfFile` step 3 of the loop, for both it and an end of file alone (`EndOfFile`):
with `ignoreeof` the loop goes on from there past the steps that look at the outcome.

**Algorithms** has a state only so that TLC can go through inputs: a step picks a subject,
the next puts it away. A property compares the algorithm with a definition of what it
computes: an expression tree with its meaning, a text with its fields, a pattern with the
language it generates, a word or a here-document put together from pieces whose meaning
is known, the arguments of a command with the options they were made from. One part of
`Expansion` is not of the POSIX build that everything else here models: there
`glob_util_match` calls `fnmatch` of the C library (`glob_util.c:60-80`), and the matcher
modelled is the shell's own, which the other builds have (`glob_util.c:82-365`).

Definitions marked "mutant" are the definition after them with a plausible mistake in it.
No action uses them; for each property checked, one of them put in the place of the
original breaks it.

## The runs

| Run | Question | Instance |
|---|---|---|
| `job_list` | Is the list sound after every sequence of calls, and does it implement the table? | 3 jobs, 3 addresses (interchangeable), 1 pid |
| `job_control` | Does the table tell the truth, whoever collected the child? | 3 jobs, 2 pids, exit codes and one fatal signal |
| `job_control_live` | Are zombies collected, completed jobs cleared, does `wait %n` end? | 2 jobs, 2 pids, with fairness |
| `pipeline` | Is anything left behind, does every pipeline end? | up to 3 commands, pipes of one item, 2 items per command |
| `redirections` | Is a backup ever lost, leaked or made twice; does a command see its redirections, and is everything undone? | 2 targets, 1 spare, 2 backups; 2 redirections per command; nesting of 2 |
| `frames` | Does every program leave frames, stores and flow as it found them? | 10 nested calls of the interpreter, 2 commands per list, 1 string |
| `return_ends` | Does `return` end the list it is in? No: see Findings. | as `frames` |
| `traps` | Is what `trap` lists what the system does, in every process? | 2 processes, one ordinary signal, one uncatchable, one without a place in the store, 2 actions |
| `variable_store` | Are the tables sound, do they implement a map, is the cached environment current? | 3 names, 4 slots at first, every pair of hashes 0 and 3 |
| `variables` | Which variables and parameters does each level keep, and what is a child given? | 1 variable, 1 function named like a special builtin, 3 levels, 2 parameters allowed, 2 or 3 given |
| `session` | Is the session clean between commands, and a command in pieces the command at once? | 33 lines that open, continue and close every construct; 9 tokens pending |
| `algorithms` | Do lexer, quoting, expansion, matching, arithmetic and option parsing compute what they should? | every input of 2 to 6 pieces, see `MCAlgorithms`; integers of 4 bits |

The bounds. Three jobs are the first number with a node that is neither head nor tail,
neither current nor previous. Two pids are enough for a pid to be reused while another
child runs, and a third job for one to be reused while the job that had it is still
listed. Three commands are the first pipeline with a command that has a pipe on each side;
with two items and room for one, writers block. Two redirections are the first list that
can fail after one was made, and two targets the first with two saves; a nesting of two
puts a command into a redirected function inside a child or another function. Ten nested
calls hold a command in a list in a loop or group in a function called from a list; two
commands per list are the first list with something after a `break`. Two processes are a
shell and its subshell. Hashes 0 and 3 in four slots make entries collide, wrap around
the end and stand before their home; a third name makes the table grow. Three levels are
a function in a function, in `eval` or around it: the first with a level that is neither
the outermost nor the running one. Nine tokens hold two constructs opened inside each
other and closed again; of three ends of file in a row `ignoreeof` puts up with two. Four bits contain every boundary that 64 have. One variable is
enough in `Scopes`, where names do not interact; of two parameters `shift` takes none, one
or both, and three pass the maximum.

`MaxJobs`, `MaxDepth`, `MaxCalls`, `MaxItems`, `MaxLines`, `MaxPending` and
`MaxExpansions` bound what the code does not bound; `MaxParams`, `IGNOREEOF_MAX`,
`InitialCapacity` and `Width` are the code's own limits, made small. `CHECK_DEADLOCK` is
off where shells exit or a bound is reached.

Fairness. `Spec` of every module has none; the safety properties do not need it.
`FairSpec` of `JobControl` says that the shell goes on when it can inside a builtin or a
reap (`WF` of `Progress`: one thread, nothing to wait for), that a forked child reaches
`setpgid`, and that the shell reaps if it is between commands again and again (`SF` of
`ReapStart`: the loop reaps after every line, and a line has finitely many commands).
Nothing makes a child end: `wait` may block for ever, which is why `ZombiesAreCollected`
supposes that the shell keeps coming back and `WaitJobEnds` that the process has ended.
In `Pipeline` the shell goes on when it can and so does each child; one that has nothing
left to read or write exits, and a child that reads is not supposed to stop reading before
the end of its input, so the end of input has to come.

Several properties are conjunctions of named parts, in the form the runs check them:
`ListSound`, `CompletionIsKnown`, `FateIsTold`, `OverAndSettled`, `EndsAreRight`,
`RedirectedAsWritten`, `FramesSettled`, `TrapsSound`, `SignalsAsTrapped`,
`TableOperationsSound`, `LevelsSound`, `LevelsKept`, `SessionSettled`,
`LexingHasNoOtherState`, `PatternsMatch`, `TextExpandsAsWritten`. The type invariant of a
module is a part of one of them.

## What is proved

`JobControlProofs` begins with the table alone. For every set of pids and statuses and
every bound on jobs and processes `StoreSpec` of `JobStore`, any sequence of calls, keeps
the table's shape (`StoreTypeCorrect`), its two pointers (`PointersAlwaysValid`) and its
count (`CountAlwaysMatches`), and that a number is never given twice (`NumbersAreFresh`).
They follow from the inductive invariant `StoreInv` (`StoreInvariant`). It adds to them that
every number listed is below `next_job_id`, without which a new job need not be new and
`job_store_add` would not keep the count. There is a lemma per operation,
and two for the two shapes of operation: those that change jobs and no link (`SameLinks`),
and `Without`, the common effect of both removals. The assumptions are `StoreAssumption`:
pids are positive, statuses are integers, the bounds are numbers.

`JobListProofs` proves for every finite set of addresses (`ListAssumption`), and whichever
of them the allocator hands out, that the list is a list with valid pointers and the right
count (`ListAlwaysSound`) and that it does what the table does, call by call
(`ListImplementsStore`: initial states are initial, every call is the call of `JobStore`).
So what is proved of `JobStore` holds of the list. `ListSound` does not say that the
numbers in the list are below `next_job_id`, so that a new job may be put first, and not
what the loops over the list find. The invariant `IInv` says that the nodes in use have an
order (`IsList`) in which `next` leads from each to the next, numbers fall, and which
holds `%+`, `%-` and nothing that was freed. Two of its consequences carry the rest: what
a loop finds is the first node in that order (`WalkIs`, `FirstInIs`, `FindIs`), and the
table the list stands for is the one that has each node's job under its number
(`IsStoreOf`). A call that only writes into a node is then a change of one job
(`SameStore`), one that takes a node out is `Without` (`UnlinkIs`, `UnlinkStore`).
`job_store_remove_completed` takes nodes out while it walks; `Swept` is what each of its
steps keeps: nothing behind `prev` is disposable, what was taken out was, and the rest
fits into the steps left. That two removals in a row are one of both jobs is `OneMore`.

`RedirectionsProofs` proves for every set of descriptors (backups above all others, as
`min_backup_fd` has it: `RedirectionsAssumption`), every length of list and every depth of
nesting that `Redirections` keeps its shape (`RedirectionsTypeCorrect`), that backups are
exact (`BackupsAlwaysExact`), that outside functions nothing is saved between commands
(`NothingEverSavedOutside`), and that a command finds its redirections as they are written
and a builtin leaves none of them (`AlwaysRedirectedAsWritten`). `BackupsExact` is not
inductive: that `Save` makes no second backup depends on why it was not skipped. `IInv`
(`TableInvariant`) adds to it that a descriptor with a backup is flagged as redirected, or
closed, or still to be redirected by the running command (`Pending`), and that all this
holds of the tables of the shells that wait in `scopes`. `TargetChanged`, `SavedIsSound`
and `RestoredIsSound` are what a redirection, a save and a restore do to it; there is a
lemma per action, most of them by `Going` (a step within a command) or `Idle` (a step that
ends one). The last theorem compares the descriptors at the start of a command with those
at its body and at its end, and needs to know where between the two the command is.
`CommandInv` (kept by `NextCommand`) says it: `Position`, how far the list is; `InOrder`,
that each descriptor is what the redirections made so far mean, taken in order (`After`);
`Undoable`, that a descriptor either has not changed or has a backup that is what it was.
From it `Undone` concludes that restoring puts every descriptor back.

`JobControlProofs` carries the table to the children, for every set of pids and exit codes
and every number of jobs: what a finished job says of its end is true
(`CompletionAlwaysKnown`), `fg`, `bg`, `kill` and `wait` with a job reach the process of that
job and no other (`OperandsAlwaysHitOwnJob`), the numbers keep through a whole session what
the first part says of single calls (`SessionNumbersAreFresh`), and what `wait` returns is
the fate of what it collected (`FateAlwaysTold`). The
invariant rests on pids that come back: a status is recorded under a pid and must reach
the job that owns it now, not one that had it before. `ChildrenAreOwned` says that the job
of every child is the newest one with that pid (`IsOwner`) and not over, `TableFollows`
that no number was given to anything else, `BlockedOnJob` what a blocked builtin may rely
on. `ChildrenAlwaysTracked` and `OperandsAlwaysHitOwnJob` suppose that `wait` is not given
-1 (`AnyPid \notin WaitOperands`), as in the run: `wait -1` records a fate under no pid, its job then stays
in the table as running without a process (`NoneIsLost` fails), and the hazard is listed.
The other three theorems about the session hold with `wait -1` too.

`PipelineProofs` proves for every number of commands, any descriptors, any capacity of a
pipe and any amount of output that each command has its own ends of the pipes and no other
(`PipelineEndsAreRight`) and that nothing is left when it is over
(`PipelineLeavesNothing`). The invariant says that `pipes[]` of a process and its
descriptors tell the same (`Matches`), which ends are open at each `pc` of the shell
(`ShellPipes`), what a child that has not started its command still needs (`ChildEnds`),
which children there are (`ChildrenSoFar`) and that statuses are those of the commands
(`StatusSoFar`). That a command reads from the pipe before it needs one more
(`InputInv`): descriptor 0 is the read end of the first pipe and of no other
(`StdinIsTheFirst`). It holds from the third command on.

`FramesProofs` proves for every depth of calls, length of list and number of strings
executed that stores have exactly one owner (`StoresAlwaysOwned`), that callers get their
frame back (`FramesAlwaysSettled`) and that no flow is overlooked (`FlowAlwaysPickedUp`).
What is inductive is a statement about a process (`Process`) that holds of the running one
and of all that wait for it: each activation was given the frame that was current
(`CallsOK`), what a frame refers to belongs to it or to one around it (`StoresOK`), a
frame holds a temporary store exactly while a simple command between its two swaps runs in
it (`Settled`), and a frame whose end is the end of the process has a process waiting
below (`ForksOK`). Every step is one of a few shapes: a call, a return, a step in place, a
frame pushed, a frame popped, a swap.

`TrapsProofs` proves for every set of processes, signals and actions that stores and
dispositions agree (`StoreAlwaysInForce`), that an EXIT trap has run once (`ExitTrapAlwaysRan`)
and how signals are treated (`SignalsTreatedAsTrapped`). The invariant adds to the first
two that a process that goes on has not run its EXIT trap, unless by an `exit` inside it
(`NotRunYet`), and that the signals left out are caught (`StaleAreCaught`), so that a
process forked from one that has them inherits the same. `TrapsAssumption` says that no
action is one of the two words `ignore` and `reset`, which in the code are no actions
either.

`ScopesProofs` proves for every set of names, values, assignments, arguments and functions
and every depth that levels keep their shape and read-only variables
(`LevelsAlwaysSound`), parameters (`ParametersAlwaysOfTheCall`), the environment of a
child (`ChildAlwaysGetsItsEnvironment`) and what a step leaves alone (`LevelsAlwaysKept`).
Its invariant adds that each level has an owner of its parameters, the nearest that is no
`eval` (`IsOwner`), and that what is read-only at a level is the same at every level
inside it (`RoKept`), not only at the next. `Added` says what any number of assignments
does to a store; it is proved by induction on their number.

`VariableStoreProofs` proves for every set of names, every hash function and every initial
capacity that the hash table is sound and that erasing one way or the other, cloning, and
the pass over all variables do what they should (`TableOperationsAlwaysSound`), that the
cached environment is current (`EnvpAlwaysCurrent`), and that `VariableStore` implements
`StoreSpec` up to that pass (`StoreAlwaysImplemented`: the table starts as the empty map,
and every other step is a step of the map or a stutter). The invariant is that the table
is `Good`: no key twice (`Distinct`), no free slot between the home of an entry and the
entry, around the end of the array (`Gapless`), and the count the number of keys, below
the capacity (`Counted`). From it probes end and find what is there (`FoundAt`,
`NotFound`). Each operation has a lemma that says which entries the new table has and that
it is good: `InsertIs`, `ReinsertIs` (growing and rebuilding), `EraseAtPosIs`,
`FuncEraseIs`, `EraseMultipleIs`, `CloneIs`, `MapResultIs`. While a row is being closed
the table is not good. `Shifting` and `Redoing` are what the two loops keep instead, with
slots numbered around the circle from a free one (`Ord`), so that the row cannot come back
to its start: every gap on the way to an entry is the current hole, with entries before it
settled.

TLC has checked each of these inductive invariants on the instance of its module's run (of
`Good`, the part that does not say what a table is; of `IInv` of `JobListProofs`, with the
orders of at most three addresses). The library's theorems on induction take an operator,
which no backend can instantiate; `Least` derives from the well-foundedness of the numbers
that a set of numbers has a smallest one, and `Induction` and `Recursion` follow for sets
and functions: what holds of 0 and passes to the next holds of all, and a function defined
by recursion exists. That is enough for the functions by recursion in `Scopes`,
`HashTable`, `Redirections` and `JobList`, each of which counts to a number.

Only model-checked: the session (`SessionSettled`, `LineByLineIsAllAtOnce`,
`EndOfFileTold`), the properties of `Algorithms`, and liveness. `Session` and `Algorithms`
reach `Lexer`, `Tokenizer`, `Expansion` and `GetOpt`, which are written with recursive
operators that follow the input; the prover does not take these, and what they compute is
a matter of induction over data. Liveness under fairness is out of its reach.

## Findings

`return_ends` refutes that `return` ends the list it is in: `f() { return 3; echo b; }; f`
prints `b`. The same holds of `break`, `continue` and `exit`, and of a flow inside `eval`,
which drops it.

The properties state what the code keeps to. Where it does not keep to its documentation,
the model does what the code does and the property leaves the case out. Those cases:

*Job control.* `exit` in a script aborts when a background job has ended
(`builtins.c:586`, there is no table). `wait` in a script does not wait
(`builtins.c:3557`, against the comment at 3641); `wait $!` there returns 0 whatever the
job returned, `wait %1` 127. `kill` and `fg` with a job that is over, and not yet told of, go
by its old process group, whose number another process may have by then
(`builtins.c:3080`; `OperandsHitOwnJob` leaves those jobs out). `wait %n` returns before the job is over when the child has not
called `setpgid` yet (`builtins.c:3384`). `fg` does not make its job the current one
(`docs/job-control.md:202` says so). A job that `wait` collected stays in the table until
another child is reaped (`docs/job-control.md:295`). The stored status of a killed process is
the signal when `wait` or `fg` collected it and 128 more when the reap did
(`job_store.h:46`); `CompletedJobsTellTheirFate` allows both. Nobody but `fg` learns of a
stop.

*Pipelines.* The second command of every pipeline has no standard input, because
`stdin_pipe_fd` is left at 0, which counts as set (`exec_frame.c:882` against
`exec_types_internal.h:430`); `EndsAreRight` says from the third on where a command reads. The status of a pipeline and `!` are wrong when the last
command does not pass its status on (`exec_frame.c:2349`; `LastDecides` supposes it does).

*Redirections.* After a group, a function, a loop or a pipeline the next redirection of a
builtin to standard output (or input) is permanent (`exec_frame.c:893`):
`{ echo a; }; echo n >f; echo m` writes `m` to `f`. Inside a redirected function the restore
of any command restores the function's originals too. `>&n` always copies descriptor 0
(`exec_redirect.c:1879`). `RedirectedAsWritten` therefore supposes that the descriptors named
are open, none is closed on the way and only standard input is duplicated, and that nothing
is flagged in the table. A function defined with a redirection to a file never runs its body;
a failed redirection of a builtin leaves `$?` at 0; redirections after a compound command are
dropped.

*Control flow.* The body of a `for` loop runs once and its variable is never set. A `while`
whose body is a list aborts (`exec_frame.c:2204`). `if true; then ...` takes the else branch,
because the result of a simple command carries no status (`exec_command.c` never sets it). Dot runs one line.

*Traps.* No action ever runs on a signal: `trap_pending` is never set, nothing makes a store
current. A subshell resets the traps in its store and leaves the handlers installed
(`trap_store.c:882`; `docs/shell-environment.md:186` and `exec_frame_policy.h:189` have it
reset them), so that a signal it lists as default does not end it; `StoreIsInForce` leaves
those signals out. It inherits the EXIT trap and runs it (against
`docs/shell-environment.md:186`, `docs/signals.md:242`), twice if it calls `exit`, and a
command of a pipeline leaves without running one: `ExitTrapRan` is about processes that set
the trap themselves and did not call `exit` inside a frame. `trap '' 32` and every other
signal number from the capacity of the store up to `NSIG` abort the shell
(`trap_store.c:335`, `builtins.c:992`). `trap - EXIT` after an EXIT
trap aborts at the end of the shell, where the documentation of the builtin says that the
condition is reset. `sig_act.c` and `trap_controller.c` are not used.

*Variables and levels.* What a function or `eval` does to variables is gone when it ends, where
`exec_frame_policy.h:147-150` and `596-617` (`EXEC_SCOPE_SHARE`),
`docs/simple-commands.md:127-132` and `docs/shell-environment.md:120-136` have it last;
`LevelsKept` says nothing of the variables of outer levels, only of their local variables, their
parameters and what is read-only. An assignment alone, `export`, `readonly`, `unset` and `getopts` write
the temporary store of their own command and are lost (`exec_command.c:700-704`); the
assignments before a special builtin last at their level only, so those of a command in a
function last until the function returns, and they unexport. A refused assignment leaves
`$?` at 0. Functions are looked up before special builtins (`exec_command.c:329`,
`docs/simple-commands.md:205`). With more than 4096 arguments `set` keeps the old parameters
and succeeds, and a function has none, from where the next call aborts. In a function whose
body is not a group `export x=2` sets the local variable and exports the old value. `getopts`
can hide a read-only variable behind a local one. Defining or unsetting a function while it
runs frees its body (`func_store.h:194`). `variable_map_erase_multiple` may leave a key it
was given when another one moved it (`variable_map.h:179`); `variable_store_map` that fails
half way does not count a generation, so children get the old environment.

*Options.* Builtins and the command line read their operands from the unpermuted arguments
with the permuted index (`getopt.h:171-178`): `set a -x b` gives `$1=-x`, and
`migash s1.sh -x b` looks for the file `-x` (`main.c:243-345`). `set -e +o errexit` leaves
`errexit` on. `getopts ab o -a` skips its first argument.

*Lexer.* A line that ends inside `$(...)`, a backquote, `${...}` or `$((...))` loses what was
read of it. `echo a\` does not join the next line to the word. `a1>f`, `cat<<E` without a
blank and an empty delimiter abort. A `$` or a backslash as the last character of the input
loops for ever. `lexer_reset` keeps `reading_heredoc` (`lexer.h:49-50`). The delimiter of a
here-document is found at any position of a line.

*Parser and session.* Tokens left over after a program are never looked at: `echo a=b c`
prints an empty line. A here-document followed by `|`, `&&` or `;` is an error. `&` in a
compound list counts as `;`. `f() echo hi` runs `echo`. `echo 2 > f` loses its redirection.
`echo a |` at the end of a line and `echo a#b` abort; `echo a; fi` frees twice. Tokens before
an opener on its own line are lost when the line ends inside the compound command
(`exec_frame.c:2815`; `LineByLineIsAllAtOnce` leaves this out by `lost`). A last line without
a newline may end an incomplete command without an error (`exec.c:1958`). With `ignoreeof` an
interactive loop goes on after such a line past the steps that ask for PS2 and that reset
the session after an error (`exec.c:1968-1981`): the next line joins what it left, under
PS1, and a later end of the file is no error. `SessionSettled` and `EndOfFileTold` leave this
out by `unended`.

*Expansion.* The colon of `${x:-w}` is ignored (`docs/parameter-expansion.md:96`), `:=` assigns
to the temporary store, `:?` only sets a status. A here-document is unescaped twice, so that
`\$HOME` expands, and `$1a` in it is the parameter `1a`. A delimiter that is not blank,
followed by blanks and a field, adds an empty field. A word with an unquoted expansion is
split as a whole, literals and quoted text included, and a quoted piece that is empty makes
no field (`exec_frame_expander.c:1038` against `docs/field-splitting.md:19-29`, `150-160` and
`328`): `" $x"$y` loses its blank. `TextExpandsAsWritten` says how a word is split only where
neither matters (`SplitAsDocumented`), and of here-documents only where nothing is left to
unescape a second time (`IsRearmed`). Under the pathname flag a star never
matches nothing before a slash (`glob_util.h:33`). Aliases never reach the tokenizer.

*Arithmetic.* Only words of an expression survive the shell's own lexer: `$((2*(3+4)))` is 10
(`docs/arithmetic-expansion.md:115`). `||` and `&&` decided by their left operand, the comma and
both sides of `?:` are not as in C (`DecidedEarly` leaves the first out). The smallest integer
divided by -1 traps. An error yields 0.

## Not modelled

The Windows and plain C builds, but for the matcher of patterns; `fnmatch`, which the POSIX build
uses in its place. The embedding functions of `exec.c` for jobs. Signals to the
shell while it blocks in `waitpid` (retried on EINTR everywhere but in `wait` with a pid).
`wait 0`; `wait -1`, which collects any child and records its fate under -1, is in
`JobControl` and in its proofs, and in no run. Look-up of a job by name or text. What
notifications, errors and `set`, `trap`, `alias` or a tree print.
Moving a descriptor (`n>&m-`) and redirections of descriptors from 10 up, where the backups
are. Pathname expansion (the C library's `wordexp`), tilde, command substitution, the search
in PATH. Startup files and prompts. The alias store, which is not connected to the tokenizer.
`builtin_store.c` and the other tables and containers whose functions set or return one
value. Memory that runs out: `xmalloc` ends the process. Builtins that print or set one
value. `PROJECT.json` ("components") has the rest, with reasons.

## Plan

1. Done: the job table and its proofs, job control, pipelines, redirections and their proofs.
2. Done: frames and control flow, traps, variables from the hash table to the levels of
   functions, the session with tokenizer, parser and lowering, and the pure algorithms.
3. Done: proofs about job control, pipelines, frames, traps, levels and the variable store.
4. Done: redirections as written, and the linked list as an implementation of the table.
5. Open: the hazards of `PROJECT.json` that no property covers, with the reasons there; a
   proof of `SessionSettled`, for which the tokenizer would have to be written without
   recursive operators first.
