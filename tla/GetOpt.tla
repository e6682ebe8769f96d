------------------------------- MODULE GetOpt -------------------------------
(***************************************************************************)
(* Option parsing (getopt.c): the state that the caller keeps from call to *)
(* call, the step to the next option over the operands in between, and the *)
(* options of a cluster.  Arguments are sequences of characters, and the   *)
(* index of an argument is that of the code, from 0 for the command name.  *)
(*                                                                         *)
(* The code reorders a copy of the arguments: getopt_*_string makes a new  *)
(* array for every call and exchange copies even that, and what it moves   *)
(* lies before optind, where nobody looks again.  Only the indices that    *)
(* exchange computes have an effect, and only they are modelled.           *)
(***************************************************************************)
EXTENDS Naturals, Sequences, SequencesExt

Arg(args, i) == args[i + 1]
Argc(args) == Len(args)
CharOf(text, i) == IF i \in DOMAIN text THEN text[i] ELSE ""

is_nonoption(arg) == CharOf(arg, 1) \notin {"-", "+"} \/ Len(arg) = 1
is_lone_hyphen(arg) == arg = <<"-">>
is_double_dash(arg) == arg = <<"-", "-">>
is_long_option(arg) == Len(arg) > 2 /\ SubSeq(arg, 1, 2) = <<"-", "-">>
is_long_plus_option(arg) == Len(arg) > 2 /\ SubSeq(arg, 1, 2) = <<"+", "+">>

(* "next" is what is left of the current cluster, optarg a sequence that   *)
(* is empty for NULL, flags the flags that options have set or cleared.    *)
getopt_state_init ==
    [optind |-> 1, first |-> 0, last |-> 0, next |-> <<>>, optarg |-> <<>>, plus |-> FALSE,
     ordering |-> "PERMUTE", posix_hyphen |-> FALSE, initialized |-> FALSE, flags |-> {}]

Ordering(optstring) ==
    CASE CharOf(optstring, 1) = "-" -> "RETURN_IN_ORDER"
      [] CharOf(optstring, 1) = "+" -> "REQUIRE_ORDER"
      [] OTHER -> "PERMUTE"
initialize(optstring, st) ==
    LET at == IF st.optind = 0 THEN 1 ELSE st.optind
    IN  [st EXCEPT !.optind = at, !.first = at, !.last = at, !.next = <<>>,
                   !.initialized = TRUE, !.ordering = Ordering(optstring)]
skip_optstring_prefix(optstring) ==
    IF CharOf(optstring, 1) \in {"+", "-"} THEN Tail(optstring) ELSE optstring

-----------------------------------------------------------------------------
(* Operands met on the way lie from first to last.                         *)
exchange(st) == [st EXCEPT !.first = @ + st.optind - st.last, !.last = st.optind]

finalize_nonoptions(st, argc) ==
    LET moved == IF st.first # st.last /\ st.last # st.optind THEN exchange(st)
                 ELSE IF st.first = st.last THEN [st EXCEPT !.first = st.optind]
                 ELSE st
    IN  [moved EXCEPT !.last = argc]

AtMost(n, bound) == IF n > bound THEN bound ELSE n
Clamp(st) == [st EXCEPT !.last = AtMost(@, st.optind), !.first = AtMost(@, st.optind)]

Skipped(args, st, i) ==
    /\ i < Argc(args)
    /\ is_nonoption(Arg(args, i))
    /\ ~(st.posix_hyphen /\ is_lone_hyphen(Arg(args, i)))
NextOption(args, st) ==
    CHOOSE i \in st.optind .. Argc(args) :
        ~Skipped(args, st, i) /\ \A j \in st.optind .. i - 1 : Skipped(args, st, j)

PermuteKeepsSpan(args, st) ==   \* mutant: the span does not follow the options passed
    LET At(i) == [st EXCEPT !.optind = i, !.last = i] IN At(NextOption(args, st))

Permute(args, st) ==
    LET Span(s) == IF s.first # s.last /\ s.last # s.optind THEN exchange(s)
                   ELSE IF s.last # s.optind THEN [s EXCEPT !.first = s.optind]
                   ELSE s
        At(s, i) == [s EXCEPT !.optind = i, !.last = i]
    IN  IF st.ordering # "PERMUTE" THEN st ELSE At(Span(st), NextOption(args, st))

PassIf(ends, args, st) ==
    IF ends THEN finalize_nonoptions([st EXCEPT !.optind = @ + 1], Argc(args)) ELSE st
Terminate(args, st0) ==     \* -- and, in the shell's own arguments, -
    LET Here(st, IsEnd(_)) == st.optind < Argc(args) /\ IsEnd(Arg(args, st.optind))
        Hyphen(st) == PassIf(st.posix_hyphen /\ Here(st, is_lone_hyphen), args, st)
    IN  Hyphen(PassIf(Here(st0, is_double_dash), args, st0))

(* What a call returns with the state it leaves: "end" for -1, "1" for an  *)
(* operand in its place, or the character of an option or of an error.     *)
Ret(r, st) == [r |-> r, st |-> st]

advance_to_next_option(args, st0) ==
    LET Judge(st) ==
            IF st.optind >= Argc(args) \/ st.last = Argc(args)
            THEN Ret("end", [st EXCEPT !.optind = IF st.first # st.last THEN st.first ELSE @])
            ELSE IF ~is_nonoption(Arg(args, st.optind)) THEN Ret("option", st)
            ELSE IF st.ordering = "REQUIRE_ORDER" THEN Ret("end", st)
            ELSE Ret("1", [st EXCEPT !.optarg = <<Arg(args, st.optind)>>, !.optind = @ + 1])
    IN  Judge(Terminate(args, Permute(args, Clamp(st0))))

-----------------------------------------------------------------------------
(* Options of a cluster.                                                   *)
Places(text, c) == {i \in DOMAIN text : text[i] = c}
FirstPlace(text, c) == CHOOSE i \in Places(text, c) : \A j \in Places(text, c) : i <= j
IsOption(optstring, c) == Places(optstring, c) # {} /\ c \notin {":", ";"}

get_arg_requirement(optstring, c) ==
    LET colon(k) == CharOf(optstring, FirstPlace(optstring, c) + k) = ":"
    IN  IF ~colon(1) THEN "NONE" ELSE IF colon(2) THEN "OPTIONAL" ELSE "REQUIRED"

Missing(optstring) == IF CharOf(optstring, 1) = ":" THEN ":" ELSE "?"
Attached(st) == [st EXCEPT !.optarg = <<st.next>>, !.optind = @ + 1, !.next = <<>>]

process_short_option_arg(args, optstring, c, st) ==
    LET req == get_arg_requirement(optstring, c)
    IN  CASE req = "NONE" -> Ret(c, st)
          [] req # "NONE" /\ st.next # <<>> -> Ret(c, Attached(st))
          [] req = "OPTIONAL" /\ st.next = <<>> -> Ret(c, st)
          [] req = "REQUIRED" /\ st.next = <<>> ->
                IF st.optind >= Argc(args) THEN Ret(Missing(optstring), st)
                ELSE Ret(c, [st EXCEPT !.optarg = <<Arg(args, st.optind)>>, !.optind = @ + 1])

(* An option that has a flag sets it, or clears it with the prefix +.      *)
SetFlag(st, c) == {f \in st.flags : f[1] # c} \cup {<<c, ~st.plus>>}
handle_plus_aware_short(c, st, longopts) ==
    LET entries == SelectSeq(longopts, LAMBDA o : o.val = c)
        Flagged(o) == IF ~o.flag THEN Ret(c, st)
                      ELSE Ret(IF st.plus THEN "0" ELSE c, [st EXCEPT !.flags = SetFlag(st, c)])
    IN  IF entries = <<>> THEN Ret(c, st)
        ELSE IF st.plus /\ ~entries[1].plus THEN Ret("?", st)
        ELSE Flagged(entries[1])

(* No table of options in the repository has a long name: a long option    *)
(* is never found.                                                         *)
process_long_option(st) == Ret("?", [st EXCEPT !.optind = @ + 1, !.next = <<>>])

ShortOption(args, optstring, longopts, plus_aware, st0) ==
    LET c == st0.next[1]
        Taken(st) == [st EXCEPT !.next = Tail(@),
                                !.optind = IF Len(st.next) = 1 THEN @ + 1 ELSE @]
        Checked(r) == IF r.r = c /\ plus_aware THEN handle_plus_aware_short(c, r.st, longopts) ELSE r
    IN  IF ~IsOption(optstring, c) THEN Ret("?", Taken(st0))
        ELSE Checked(process_short_option_arg(args, optstring, c, Taken(st0)))

getopt_internal_r(args, optstring0, longopts, plus_aware, st0) ==
    LET optstring == skip_optstring_prefix(optstring0)
        Dispatch(arg, st) ==
            IF is_long_option(arg) \/ (plus_aware /\ is_long_plus_option(arg))
            THEN process_long_option(st)
            ELSE ShortOption(args, optstring, longopts, plus_aware, [st EXCEPT !.next = Tail(arg)])
        Advanced(a) ==
            IF a.r # "option" THEN a
            ELSE Dispatch(Arg(args, a.st.optind),
                          [a.st EXCEPT !.plus = CharOf(Arg(args, a.st.optind), 1) = "+"])
        Call(st) == IF st.next # <<>> THEN ShortOption(args, optstring, longopts, plus_aware, st)
                    ELSE Advanced(advance_to_next_option(args, st))
    IN  Call(IF st0.initialized THEN [st0 EXCEPT !.optarg = <<>>]
             ELSE [initialize(optstring0, st0) EXCEPT !.optarg = <<>>])

(* The loop of a builtin over its options: what the calls returned until   *)
(* the last one, and the state from which it takes its operands.           *)
RECURSIVE OptionLoop(_, _, _, _, _, _)
OptionLoop(args, optstring, longopts, plus_aware, st, got) ==
    LET Step(a) == IF a.r = "end" THEN [got |-> got, st |-> a.st]
                   ELSE OptionLoop(args, optstring, longopts, plus_aware, a.st,
                                   Append(got, [c |-> a.r, arg |-> a.st.optarg, plus |-> a.st.plus]))
    IN  Step(getopt_internal_r(args, optstring, longopts, plus_aware, st))

Options(args, optstring, longopts, plus_aware, st) ==
    OptionLoop(args, optstring, longopts, plus_aware, st, <<>>)
Operands(args, st) == SubSeq(args, st.optind + 1, Argc(args))

-----------------------------------------------------------------------------
(* Callers.  The name of an option is a word, here one character.          *)
NamedOptions == {"allexport", "errexit", "ignoreeof", "noclobber", "noglob", "noexec", "nounset",
                 "pipefail", "verbose", "vi", "xtrace"}
ValidNames == NamedOptions \cup {"monitor"}
ShortNames == [a |-> "allexport", C |-> "noclobber", e |-> "errexit", f |-> "noglob",
               n |-> "noexec", u |-> "nounset", v |-> "verbose", x |-> "xtrace"]

Flag(c) == [val |-> c, plus |-> TRUE, flag |-> TRUE]
NoFlag(c, plus) == [val |-> c, plus |-> plus, flag |-> FALSE]
Unused == {"b", "h", "m", "i"}      \* flags that set nothing
Table(letters) == [i \in DOMAIN letters |-> Flag(letters[i])]

SetLetters == <<"a", "b", "C", "e", "f", "h", "m", "n", "u", "v", "x">>
SetTable == Append(Table(SetLetters), NoFlag("o", TRUE))

Name(o) == o.arg[1][1]
Rejects(o) == CASE o.c = "?" -> 2
                [] o.c = "o" -> IF Name(o) \notin ValidNames THEN 2
                                ELSE IF Name(o) \notin NamedOptions THEN 1 ELSE 0
                [] OTHER -> 0
FirstRejected(got) ==
    IF \A i \in DOMAIN got : Rejects(got[i]) = 0 THEN Len(got) + 1
    ELSE CHOOSE i \in DOMAIN got : Rejects(got[i]) # 0 /\ \A j \in 1 .. i - 1 : Rejects(got[j]) = 0

(* builtin_set: options by name take effect as they are met, those with a  *)
(* flag and the positional parameters only if nothing was rejected.        *)
SetNamed(opts, got) ==
    FoldLeft(LAMBDA S, o : IF o.c # "o" THEN S
                           ELSE IF o.plus THEN S \ {Name(o)} ELSE S \cup {Name(o)}, opts, got)
SetFlags(opts, flags) ==
    LET named == {f \in flags : f[1] \notin Unused}
    IN  (opts \ {ShortNames[f[1]] : f \in named}) \cup {ShortNames[f[1]] : f \in {g \in named : g[2]}}
builtin_set(args, opts, params) ==
    LET dashes == \E i \in 2 .. Len(args) : is_double_dash(args[i])
        Done(r, bad) ==
            LET named == SetNamed(opts, SubSeq(r.got, 1, bad - 1))
            IN  IF bad <= Len(r.got)
                THEN [status |-> Rejects(r.got[bad]), opts |-> named, params |-> params]
                ELSE [status |-> 0, opts |-> SetFlags(named, r.st.flags),
                      params |-> IF Operands(args, r.st) # <<>> \/ dashes
                                 THEN Operands(args, r.st) ELSE params]
        Parsed(r) == Done(r, FirstRejected(r.got))
    IN  Parsed(Options(args, SetLetters \o <<"o", ":">>, SetTable, TRUE, getopt_state_init))

(* The shell's own arguments: a command string, standard input or a file.  *)
MainLetters == <<"a", "b", "C", "e", "f", "i", "m", "n", "u", "v", "x">>
MainTable == Table(MainLetters) \o <<NoFlag("c", FALSE), NoFlag("s", FALSE), NoFlag("o", TRUE)>>
Usage == [mode |-> "usage"]
Says(got, c) == \E i \in DOMAIN got : got[i].c = c
From(s, i) == SubSeq(s, i, Len(s))
main_arguments(argv) ==
    LET Mode(got, ops) ==
            IF \E i \in DOMAIN got : Rejects(got[i]) = 2 THEN Usage
            ELSE IF Says(got, "c") /\ Says(got, "s") THEN Usage
            ELSE IF Says(got, "c")
                 THEN IF ops = <<>> THEN Usage
                      ELSE [mode |-> "string", what |-> ops[1], args |-> From(ops, 3)]
            ELSE IF Says(got, "s") \/ ops = <<>> THEN [mode |-> "stdin", args |-> ops]
            ELSE [mode |-> "file", what |-> ops[1], args |-> From(ops, 2)]
        Parsed(r) == Mode(r.got, Operands(argv, r.st))
    IN  Parsed(Options(argv, MainLetters \o <<"o", ":", "c", "s">>, MainTable, TRUE,
                       [getopt_state_init EXCEPT !.posix_hyphen = TRUE]))
=============================================================================
