------------------------------ MODULE Tokenizer -----------------------------
(***************************************************************************)
(* tokenizer.c: what lies between the lexer and the parser.  It promotes   *)
(* words at command position to reserved words, expands aliases, turns a   *)
(* number before a redirection into an IO number, and holds back the       *)
(* tokens of a compound command until it is closed.                        *)
(*                                                                         *)
(* tk is what the tokenizer keeps between two calls: the tokens it holds   *)
(* back and the stack of open compound commands.  s is the state of one    *)
(* call: tk with the tokens still to come, the output and the rest.        *)
(***************************************************************************)
EXTENDS Naturals, Sequences, FiniteSets

\* The bound on alias expansions in one call; the code has none.
CONSTANT MaxExpansions

ASSUME MaxExpansionsAssumption == MaxExpansions \in Nat

LOCAL LastOf(q) == q[Len(q)]

tokenizer_create == [buf |-> <<>>, stack |-> <<>>]

Openers == {"if", "while", "until", "for", "case", "{"}
Closers == {"fi", "done", "esac", "}"}

tokenizer_get_closing_token(t) ==
    CASE t = "if" -> "fi"
      [] t \in {"while", "until", "for"} -> "done"
      [] t = "case" -> "esac"
      [] t = "{" -> "}"

\* token_string_to_reserved_word, without the word in, which stays a word.
ReservedAtCommand == Openers \cup Closers \cup {"then", "else", "elif", "do", "!"}

RedirectionOps == {"<", ">", ">>", "<<", "<<-", "<&", ">&", "<>", ">|"}

\* After one of these the next word is at command position.
CommandFollows ==
    {"NEWLINE", ";", "&", "|", "&&", "||", "(", ")", ";;", "if", "then", "else",
     "elif", "do", "while", "until", "for", "case", "{"}

AllDigits == {"0", "1", "2", "3", "4", "5", "6", "7", "8", "9", "10"}

\* The state a call starts in.
Call(tk, input) ==
    [buf |-> tk.buf, stack |-> tk.stack, in |-> input, out |-> <<>>, cmdpos |-> TRUE,
     expanded |-> {}, moved |-> 0, steps |-> 0, st |-> "OK"]

NextType(s) == IF Len(s.in) > 1 THEN s.in[2].t ELSE "none"

tokenizer_is_alias_eligible(s, aliases) ==
    /\ s.cmdpos
    /\ Head(s.in).t = "WORD"
    /\ Head(s.in).x \in DOMAIN aliases
    /\ Head(s.in).x \notin s.expanded

\* The word is replaced by the tokens of its value.  The word after a value
\* that ends in a blank is meant to be looked up too, but the first token of
\* the value decides the command position.
tokenizer_expand_alias(s, aliases) ==
    [s EXCEPT !.in = aliases[Head(s.in).x] \o Tail(s.in),
              !.expanded = @ \cup {Head(s.in).x},
              !.steps = @ + 1]

IsCasePattern(s) ==
    s.stack # <<>> /\ LastOf(s.stack) = "case" /\ NextType(s) = ")"

\* The word right after for or case names a variable or the subject.
IsLoopVarOrCaseWord(s) ==
    LET list == IF s.stack # <<>> THEN s.buf ELSE s.out
    IN  list # <<>> /\ LastOf(list).t \in {"for", "case"}

BecomesReserved(s) ==
    /\ s.cmdpos
    /\ Head(s.in).t = "WORD"
    /\ ~IsCasePattern(s)
    /\ ~IsLoopVarOrCaseWord(s)
    /\ Head(s.in).x \in ReservedAtCommand

\* A number before a redirection operator takes the place of the operator.
BecomesIoNumber(s) ==
    /\ Head(s.in).t = "WORD"
    /\ Head(s.in).x \in AllDigits
    /\ NextType(s) \in RedirectionOps

token_list_set_io_number(s) ==
    [s EXCEPT !.in = <<[t |-> "IO_NUMBER", x |-> Head(@).x]>> \o SubSeq(@, 3, Len(@))]

\* name ( ) with nothing held back: the name is moved from the output to the
\* buffer and the definition is held back from there.
StartsFunction(s, t) ==
    /\ t = "("
    /\ s.stack = <<>> /\ s.buf = <<>>
    /\ s.out # <<>> /\ LastOf(s.out).t = "WORD"
    /\ NextType(s) = ")"

tokenizer_update_command_position(s, t) ==
    [s EXCEPT !.cmdpos = t \in CommandFollows,
              !.expanded = IF t \in CommandFollows THEN {} ELSE @]

tokenizer_pop_compound(stack, t) ==
    stack # <<>> /\ tokenizer_get_closing_token(LastOf(stack)) = t

\* Tokens are held back if some were before this one, or a compound command is
\* open after it.
Held(s, buf, stack) == s.stack # <<>> \/ buf # <<>> \/ stack # <<>>

\* The end of tokenizer_process_one_token: the token tok goes to the buffer or
\* to the output.
add_token(s, tok) ==
    LET fn == StartsFunction(s, tok.t)
        buf == IF fn THEN <<LastOf(s.out)>> ELSE s.buf
        out == IF fn THEN SubSeq(s.out, 1, Len(s.out) - 1) ELSE s.out
        stack == CASE tok.t \in Openers -> Append(s.stack, tok.t)
                   [] tok.t \in Closers -> SubSeq(s.stack, 1, Len(s.stack) - 1)
                   [] OTHER -> s.stack
        held == Held(s, buf, stack)
    IN  IF tok.t \in Closers /\ ~tokenizer_pop_compound(s.stack, tok.t)
        THEN [s EXCEPT !.st = "ERROR"]
        ELSE tokenizer_update_command_position(
                 [s EXCEPT !.buf = IF held THEN Append(buf, tok) ELSE buf,
                           !.out = IF held THEN out ELSE Append(out, tok),
                           !.stack = stack,
                           !.in = Tail(@),
                           !.moved = @ + 1],
                 tok.t)

tokenizer_process_one_token(s, aliases) ==
    CASE tokenizer_is_alias_eligible(s, aliases) -> tokenizer_expand_alias(s, aliases)
      [] ~tokenizer_is_alias_eligible(s, aliases) /\ BecomesReserved(s) ->
             add_token(s, [t |-> Head(s.in).x, x |-> ""])
      [] /\ ~tokenizer_is_alias_eligible(s, aliases)
         /\ ~BecomesReserved(s)
         /\ BecomesIoNumber(s) -> token_list_set_io_number(s)
      [] OTHER -> add_token(s, Head(s.in))

RECURSIVE ProcessAll(_, _)
ProcessAll(s, aliases) ==
    IF s.st # "OK" \/ s.in = <<>> THEN s
    ELSE IF s.steps > MaxExpansions THEN [s EXCEPT !.st = "ENDLESS"]
    ELSE ProcessAll(tokenizer_process_one_token(s, aliases), aliases)

\* What a call returns.  out is meaningful with TOK_OK only.  On an error the
\* input list still owns the tokens that were moved, and the caller destroys
\* both lists: with a token moved that is a double free.
Finish(s) ==
    CASE s.st = "ENDLESS" -> [st |-> "ENDLESS", out |-> <<>>, tk |-> tokenizer_create]
      [] s.st = "ERROR" -> [st |-> IF s.moved > 0 THEN "ABORT" ELSE "ERROR", out |-> <<>>,
                            tk |-> [buf |-> s.buf, stack |-> s.stack]]
      [] s.st = "OK" /\ s.stack # <<>> -> [st |-> "INCOMPLETE", out |-> s.out,
                                          tk |-> [buf |-> s.buf, stack |-> s.stack]]
      [] OTHER -> [st |-> "OK", out |-> s.out \o s.buf, tk |-> tokenizer_create]

tokenizer_process(tk, input, aliases) == Finish(ProcessAll(Call(tk, input), aliases))
=============================================================================
