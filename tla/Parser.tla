------------------------------- MODULE Parser -------------------------------
(***************************************************************************)
(* The recursive-descent parser of parser.c.  A parser state p is the      *)
(* token list with the position of the next token; every production is an  *)
(* operator from a parser state to a result [st, p, n]: the status, the    *)
(* state it leaves and the grammar node.  As in the code a production that *)
(* fails leaves the position where it gave up (only gparse_list,           *)
(* gparse_term and gparse_and_or rewind), and a word that was promoted to  *)
(* a reserved word stays promoted.  p.dead records a violated precondition *)
(* (Expects), which aborts the shell.                                      *)
(*                                                                         *)
(* The productions call each other through G, the function gparse at the   *)
(* end of the module that maps a production and a parser state to the      *)
(* result; the loops of the code are productions of their own.             *)
(*                                                                         *)
(* A token is [t, x]: its type and, for a word, its text.  Operators and   *)
(* reserved words have their spelling as type.  Grammar nodes are          *)
(* [k, x, c]; nodes that only carry punctuation are left out.              *)
(***************************************************************************)
EXTENDS Naturals, SequencesExt

Word(x) == [t |-> "WORD", x |-> x]
Tok(t) == [t |-> t, x |-> ""]

ReservedWords ==
    {"if", "then", "else", "elif", "fi", "do", "done", "case", "esac",
     "while", "until", "for", "in", "{", "}", "!"}

N(k, c) == [k |-> k, x |-> "", c |-> c]
Leaf(k, x) == [k |-> k, x |-> x, c |-> <<>>]
Nil == Leaf("nil", "")

Res(st, p, n) == [st |-> st, p |-> p, n |-> n]
Failed(st, p) == Res(st, p, Nil)

(***************************************************************************)
(* Token access and promotion.                                             *)
(***************************************************************************)

parser_create_with_tokens_move(toks) == [toks |-> toks, pos |-> 1, dead |-> FALSE]

parser_at_end(p) == p.pos > Len(p.toks)

parser_current_token_type(p) == IF parser_at_end(p) THEN "EOF" ELSE p.toks[p.pos].t

parser_peek_type(p, offset) ==
    IF p.pos + offset <= Len(p.toks) THEN p.toks[p.pos + offset].t ELSE "EOF"

parser_advance(p) == IF parser_at_end(p) THEN p ELSE [p EXCEPT !.pos = @ + 1]

parser_skip_newlines(p) ==
    LET k == CHOOSE i \in p.pos .. Len(p.toks) + 1 :
                 /\ \A j \in p.pos .. i - 1 : p.toks[j].t = "NEWLINE"
                 /\ (i > Len(p.toks) \/ p.toks[i].t # "NEWLINE")
    IN  IF parser_at_end(p) THEN p ELSE [p EXCEPT !.pos = k]

parser_rewind_to_position(p, pos) ==
    IF pos \in 1 .. Len(p.toks) THEN [p EXCEPT !.pos = pos] ELSE p

\* The text of the current token if it is an unpromoted word.
CurrentWord(p) ==
    IF parser_current_token_type(p) = "WORD" THEN p.toks[p.pos].x ELSE ""

\* parser_token_try_promote_to_<w> for the words w of a set, at the current
\* token: the type becomes the reserved word and the parts are destroyed.
try_promote(p, words) ==
    IF CurrentWord(p) \in words
    THEN [p EXCEPT !.toks[p.pos] = Tok(CurrentWord(p))]
    ELSE p

Then(r, F(_)) == IF r.st = "OK" THEN F(r) ELSE r

\* Take the token t or fail with PARSE_ERROR.
Expect(p, t) ==
    IF parser_current_token_type(p) = t
    THEN Res("OK", parser_advance(p), Nil)
    ELSE Failed("ERROR", p)

\* The same for a closing word that may still come: at the end of the tokens
\* more input is needed.
ExpectOrIncomplete(p, t) ==
    LET q == try_promote(p, {t})
    IN  IF parser_current_token_type(q) = "EOF"
        THEN Failed("INCOMPLETE", q)
        ELSE Expect(q, t)

(***************************************************************************)
(* Separators and redirections.                                            *)
(***************************************************************************)

gparse_separator_op(p) ==
    LET t == parser_current_token_type(p)
    IN  IF t \in {"&", ";"}
        THEN Res("OK", parser_advance(p), Leaf("SEPARATOR_OP", t))
        ELSE Failed("ERROR", p)

gparse_separator(p) ==
    LET t == parser_current_token_type(p)
        op == gparse_separator_op(p)
    IN  CASE op.st = "OK" -> [op EXCEPT !.p = parser_skip_newlines(op.p)]
          [] t = "NEWLINE" -> Res("OK", parser_skip_newlines(p), Leaf("NEWLINE_LIST", ""))
          [] OTHER -> Failed("ERROR", p)

FileOps == {"<", "<&", ">", ">&", ">>", "<>", ">|"}
HereOps == {"<<", "<<-"}

is_redirect_token(t) == t \in FileOps \cup HereOps \cup {"IO_NUMBER", "IO_LOCATION"}

gparse_filename(p) ==
    IF parser_current_token_type(p) = "WORD"
    THEN Res("OK", parser_advance(p), Leaf("FILENAME", CurrentWord(p)))
    ELSE Failed("ERROR", p)

gparse_io_file(p) ==
    LET op == parser_current_token_type(p)
    IN  IF op \notin FileOps
        THEN Failed("ERROR", p)
        ELSE Then(gparse_filename(parser_advance(p)),
                  LAMBDA f : Res("OK", f.p, [k |-> "IO_FILE", x |-> op, c |-> <<f.n>>]))

\* Operator and delimiter; the body is matched by match_heredocs.
gparse_io_here(p) ==
    LET op == parser_current_token_type(p)
        q == parser_advance(p)
    IN  IF op \notin HereOps
        THEN Failed("ERROR", p)
        ELSE IF parser_current_token_type(q) # "WORD"
        THEN Failed("ERROR", q)
        ELSE Res("OK", parser_advance(q), [k |-> "IO_HERE", x |-> op, c |-> <<>>])

gparse_io_redirect(p) ==
    LET numbered == parser_current_token_type(p) \in {"IO_NUMBER", "IO_LOCATION"}
        q == IF numbered THEN parser_advance(p) ELSE p
        num == IF numbered THEN Leaf("FD", p.toks[p.pos].x) ELSE Nil
        file == gparse_io_file(q)
        here == gparse_io_here(file.p)
    IN  CASE file.st = "OK" -> Res("OK", file.p, N("IO_REDIRECT", <<num, file.n>>))
          [] file.st # "OK" /\ here.st = "OK" ->
                 Res("OK", here.p, N("IO_REDIRECT", <<num, here.n>>))
          [] OTHER -> Failed("ERROR", here.p)

\* The here-documents among the nodes ns get their bodies, in order, from the
\* tokens that follow (newlines are skipped on the way).
IsHere(n) == n.k = "IO_REDIRECT" /\ n.c[2].k = "IO_HERE"

MatchOne(r, n) ==
    LET q == parser_skip_newlines(r.p)
    IN  IF r.st # "OK" THEN r
        ELSE IF ~IsHere(n) THEN [r EXCEPT !.n.c = Append(@, n)]
        ELSE IF parser_current_token_type(q) # "END_OF_HEREDOC" THEN Failed("ERROR", q)
        ELSE Res("OK", parser_advance(q),
                 N("", Append(r.n.c, [n EXCEPT !.c[2].c = <<Leaf("BODY", q.toks[q.pos].x)>>])))

match_heredocs(p, ns) == FoldLeft(MatchOne, Res("OK", p, N("", <<>>)), ns)

\* What a loop adds to what came before it.
Prepend(n, rest) == IF rest.st = "OK" THEN [rest EXCEPT !.n.c = <<n>> \o @] ELSE rest
NoMore(p) == Res("OK", p, N("", <<>>))

RedirectsFrom(G, p) ==
    LET r == G["io_redirect", p]
    IN  IF r.st = "OK" THEN Prepend(r.n, G["redirects", r.p]) ELSE NoMore(r.p)

gparse_redirect_list(G, p) ==
    Then(G["io_redirect", p],
         LAMBDA r : LET all == Prepend(r.n, G["redirects", r.p])
                    IN  Then(match_heredocs(all.p, all.n.c),
                             LAMBDA m : Res("OK", m.p, N("REDIRECT_LIST", m.n.c))))

(***************************************************************************)
(* Simple commands.                                                        *)
(***************************************************************************)

is_terminating_reserved_word(p) ==
    CurrentWord(p) \in {"then", "fi", "do", "done", "else", "elif", "esac"}

CmdPrefix(G, p) ==
    LET t == parser_current_token_type(p)
        r == G["io_redirect", p]
    IN  CASE is_redirect_token(t) /\ r.st = "OK" -> Prepend(r.n, G["cmd_prefix", r.p])
          [] is_redirect_token(t) /\ r.st # "OK" -> NoMore(r.p)
          [] t = "ASSIGNMENT_WORD" ->
                 Prepend(Leaf("ASSIGNMENT", p.toks[p.pos].x),
                         G["cmd_prefix", parser_advance(p)])
          [] OTHER -> NoMore(p)

IsCommandWord(p) ==
    parser_current_token_type(p) = "WORD" /\ ~is_terminating_reserved_word(p)

CmdSuffix(G, p) ==
    LET t == parser_current_token_type(p)
        r == G["io_redirect", p]
    IN  CASE is_redirect_token(t) /\ r.st = "OK" -> Prepend(r.n, G["cmd_suffix", r.p])
          [] is_redirect_token(t) /\ r.st # "OK" -> NoMore(r.p)
          [] IsCommandWord(p) ->
                 Prepend(Leaf("WORD", CurrentWord(p)), G["cmd_suffix", parser_advance(p)])
          [] OTHER -> NoMore(p)

gparse_simple_command(G, p) ==
    LET prefix == G["cmd_prefix", p]
        named == IsCommandWord(prefix.p)
        q == IF named THEN parser_advance(prefix.p) ELSE prefix.p
        name == IF named THEN <<Leaf("WORD", CurrentWord(prefix.p))>> ELSE <<>>
        suffix == G["cmd_suffix", q]
    IN  IF prefix.n.c = <<>> /\ ~named
        THEN Failed(IF parser_current_token_type(suffix.p) = "EOF" THEN "INCOMPLETE" ELSE "ERROR",
                    suffix.p)
        ELSE Then(match_heredocs(suffix.p, prefix.n.c \o name \o suffix.n.c),
                  LAMBDA m : Res("OK", m.p, N("SIMPLE_COMMAND", m.n.c)))

(***************************************************************************)
(* Compound commands.                                                      *)
(***************************************************************************)

gparse_pipe_sequence(G, p) ==
    Then(G["command", p], LAMBDA r : Prepend(r.n, G["pipe_rest", r.p]))

\* pipe_sequence: '|' linebreak command, as often as it comes.
PipeRest(G, p) ==
    IF parser_current_token_type(p) # "|" THEN NoMore(p)
    ELSE Then(G["command", parser_skip_newlines(parser_advance(p))],
              LAMBDA r : Prepend(r.n, G["pipe_rest", r.p]))

gparse_pipeline(G, p) ==
    LET q == try_promote(p, {"!"})
        t == parser_current_token_type(q)
    IN  IF t = "EOF" THEN Failed("EMPTY", q)
        ELSE Then(G["pipe_sequence", IF t = "!" THEN parser_advance(q) ELSE q],
                  LAMBDA r : Res("OK", r.p, [k |-> "PIPELINE",
                                             x |-> IF t = "!" THEN "!" ELSE "",
                                             c |-> r.n.c]))

\* Operator and pipeline, as often as they come; an operator with no pipeline
\* after it is left to the caller.
AndOrRest(G, p) ==
    LET op == parser_current_token_type(p)
        right == G["pipeline", parser_skip_newlines(parser_advance(p))]
    IN  IF op \notin {"&&", "||"} THEN NoMore(p)
        ELSE IF right.st # "OK" THEN NoMore(parser_rewind_to_position(right.p, p.pos))
        ELSE Prepend([k |-> "AND_OR", x |-> op, c |-> <<right.n>>], G["and_or_rest", right.p])

gparse_and_or(G, p) ==
    Then(G["pipeline", p],
         LAMBDA r : LET rest == G["and_or_rest", r.p]
                    IN  Res("OK", rest.p,
                            FoldLeft(LAMBDA left, n : [n EXCEPT !.c = <<left, n.c[1]>>],
                                     r.n, rest.n.c)))

\* The loops of gparse_list (separators & and ;) and of gparse_term (newlines
\* too): a separator with no command after it is left to the caller.
SeparatedRest(G, loop, sep, p) ==
    LET next == G["and_or", sep.p]
    IN  IF sep.st # "OK" THEN NoMore(p)
        ELSE IF next.st # "OK" THEN NoMore(parser_rewind_to_position(next.p, p.pos))
        ELSE Prepend(sep.n, Prepend(next.n, G[loop, next.p]))

gparse_list(G, p) ==
    Then(G["and_or", p],
         LAMBDA r : LET rest == G["list_rest", r.p]
                    IN  Res("OK", rest.p, N("LIST", <<r.n>> \o rest.n.c)))

gparse_term(G, p) ==
    Then(G["and_or", p],
         LAMBDA r : LET rest == G["term_rest", r.p]
                    IN  Res("OK", rest.p, N("TERM", <<r.n>> \o rest.n.c)))

gparse_compound_list(G, p) ==
    Then(G["term", parser_skip_newlines(p)],
         LAMBDA term : LET sep == gparse_separator(term.p)
                       IN  Res("OK", sep.p, N("COMPOUND_LIST", <<term.n, sep.n>>)))

gparse_subshell(G, p) ==
    Then(G["compound_list", parser_advance(p)],
         LAMBDA list : Then(Expect(list.p, ")"),
                            LAMBDA r : Res("OK", r.p, N("SUBSHELL", <<list.n>>))))

\* The next '}' after the '{' is promoted, wherever it stands, before the list
\* is parsed.
PromoteRbrace(p) ==
    LET at == {i \in p.pos + 1 .. Len(p.toks) :
                   \/ p.toks[i] = Word("}")
                   \/ p.toks[i].t = "}"}
        first == CHOOSE i \in at : \A j \in at : i <= j
    IN  IF at = {} THEN Failed("INCOMPLETE", p)
        ELSE Res("OK", [p EXCEPT !.toks[first] = Tok("}")], Nil)

gparse_brace_group(G, p) ==
    Then(PromoteRbrace(p),
         LAMBDA r :
            LET list == G["compound_list", parser_advance(r.p)]
                t == parser_current_token_type(list.p)
            IN  CASE t = "}" -> Res("OK", parser_advance(list.p), N("BRACE_GROUP", <<list.n>>))
                  [] t # "}" /\ list.st # "OK" -> Failed(list.st, list.p)
                  [] OTHER -> Failed(IF t = "EOF" THEN "INCOMPLETE" ELSE "ERROR", list.p))

gparse_do_group(G, p) ==
    Then(Expect(try_promote(p, {"do"}), "do"),
         LAMBDA r : Then(G["compound_list", r.p],
            LAMBDA list : Then(ExpectOrIncomplete(list.p, "done"),
               LAMBDA d : Res("OK", d.p, N("DO_GROUP", <<list.n>>)))))

Words(G, p) ==
    IF parser_current_token_type(p) = "WORD"
    THEN Prepend(Leaf("WORD", CurrentWord(p)), G["words", parser_advance(p)])
    ELSE NoMore(p)

gparse_wordlist(G, p) ==
    LET r == G["words", p]
    IN  Res(IF r.n.c = <<>> THEN "ERROR" ELSE "OK", r.p, N("WORDLIST", r.n.c))

gparse_in_clause(G, p) ==
    LET q == try_promote(parser_skip_newlines(p), {"in"})
    IN  IF parser_current_token_type(q) # "in" THEN Failed("ERROR", q)
        ELSE LET w == G["wordlist", parser_advance(q)]
             IN  Res("OK", w.p, N("IN_NODE", <<w.n>>))

gparse_for_clause(G, p) ==
    LET named == parser_advance(p)
        in == G["in_clause", parser_advance(named)]
        t == parser_current_token_type(in.p)
        q == IF t = ";" THEN parser_skip_newlines(parser_advance(in.p))
                        ELSE parser_skip_newlines(in.p)
    IN  CASE parser_current_token_type(named) # "WORD" -> Failed("ERROR", named)
          [] /\ parser_current_token_type(named) = "WORD"
             /\ t \notin {";", "NEWLINE"} /\ in.st # "OK" -> Failed("ERROR", in.p)
          [] OTHER -> Then(G["do_group", q],
                 LAMBDA d : Res("OK", d.p, [k |-> "FOR_CLAUSE", x |-> CurrentWord(named),
                                            c |-> <<in.n, d.n>>]))

PatternRest(G, p) ==
    LET q == parser_advance(p)
    IN  IF parser_current_token_type(p) # "|" THEN NoMore(p)
        ELSE IF parser_current_token_type(q) # "WORD" THEN Failed("ERROR", q)
        ELSE Prepend(Leaf("WORD", CurrentWord(q)), G["pattern_rest", parser_advance(q)])

gparse_pattern_list(G, p) ==
    IF parser_current_token_type(p) # "WORD" THEN Failed("ERROR", p)
    ELSE Then(G["pattern_rest", parser_advance(p)],
              LAMBDA r : Res("OK", r.p, N("PATTERN_LIST",
                                          <<Leaf("WORD", CurrentWord(p))>> \o r.n.c)))

\* [ '(' ] pattern_list ')' [ compound_list ]: the part the two kinds of item
\* share.  A body that does not parse counts as no body.
CaseItemHead(G, p) ==
    LET q == IF parser_current_token_type(p) = "(" THEN parser_advance(p) ELSE p
    IN  Then(G["pattern_list", q],
             LAMBDA pats : Then(Expect(pats.p, ")"),
                LAMBDA r : LET body == G["compound_list", r.p]
                           IN  Res("OK", IF body.st = "OK" THEN body.p
                                                           ELSE parser_skip_newlines(body.p),
                                   N("CASE_ITEM_NS", <<pats.n, body.n>>))))

gparse_case_item_ns(G, p) ==
    Then(G["case_item_head", p], LAMBDA r : [r EXCEPT !.p = parser_skip_newlines(r.p)])

gparse_case_item(G, p) ==
    Then(G["case_item_head", p],
         LAMBDA r : Then(Expect(r.p, ";;"),
            LAMBDA d : Res("OK", parser_skip_newlines(d.p), [r.n EXCEPT !.k = "CASE_ITEM"])))

CaseItems(G, p) ==
    LET item == G["case_item", p]
    IN  IF parser_current_token_type(p) = "esac" \/ CurrentWord(p) = "esac" THEN NoMore(p)
        ELSE IF item.st # "OK" THEN NoMore(item.p)
        ELSE Prepend(item.n, G["case_items", item.p])

gparse_case_list(G, p) ==
    Then(G["case_item", p],
         LAMBDA r : LET rest == G["case_items", r.p]
                    IN  Res("OK", rest.p, N("CASE_LIST", <<r.n>> \o rest.n.c)))

gparse_case_list_ns(G, p) ==
    LET list == G["case_list", p]
    IN  Then(G["case_item_ns", list.p],
             LAMBDA r : Res("OK", r.p, N("CASE_LIST_NS",
                            (IF list.st = "OK" THEN <<list.n>> ELSE <<>>) \o <<r.n>>)))

gparse_case_clause(G, p) ==
    LET subject == parser_advance(p)
        q == try_promote(parser_skip_newlines(parser_advance(subject)), {"in"})
        body == parser_skip_newlines(parser_advance(q))
        list == G["case_list", body]
        list2 == IF list.st = "OK" THEN list ELSE G["case_list_ns", list.p]
    IN  IF parser_current_token_type(subject) # "WORD" THEN Failed("ERROR", subject)
        ELSE IF parser_current_token_type(q) # "in" THEN Failed("ERROR", q)
        ELSE Then(Expect(try_promote(list2.p, {"esac"}), "esac"),
                  LAMBDA r : Res("OK", r.p, [k |-> "CASE_CLAUSE", x |-> CurrentWord(subject),
                                             c |-> <<list2.n>>]))

gparse_else_part(G, p) ==
    LET q == try_promote(p, {"elif", "else"})
        t == parser_current_token_type(q)
    IN  CASE t = "elif" ->
               Then(G["compound_list", parser_advance(q)],
                 LAMBDA cond : Then(Expect(try_promote(cond.p, {"then"}), "then"),
                   LAMBDA th : Then(G["compound_list", th.p],
                     LAMBDA body : LET rest == G["else_part", body.p]
                                   IN  Res("OK", rest.p, N("ELSE_PART",
                                               <<cond.n, body.n, rest.n>>)))))
          [] t = "else" ->
               Then(G["compound_list", parser_advance(q)],
                    LAMBDA body : Res("OK", body.p, N("ELSE_PART", <<body.n, Nil, Nil>>)))
          [] OTHER -> Failed("ERROR", q)

gparse_if_clause(G, p) ==
    Then(G["compound_list", parser_advance(p)],
      LAMBDA cond : Then(ExpectOrIncomplete(cond.p, "then"),
        LAMBDA th : Then(G["compound_list", th.p],
          LAMBDA body :
             LET else == G["else_part", body.p]
             IN  Then(ExpectOrIncomplete(else.p, "fi"),
                      LAMBDA r : Res("OK", r.p, N("IF_CLAUSE", <<cond.n, body.n, else.n>>))))))

\* While and until differ in their keyword only.
gparse_while_clause(G, p, k) ==
    Then(G["compound_list", parser_advance(p)],
         LAMBDA cond : Then(G["do_group", cond.p],
            LAMBDA d : Res("OK", d.p, N(k, <<cond.n, d.n>>))))

gparse_compound_command(G, p) ==
    LET q == try_promote(p, {"{", "if", "while", "until", "for", "case"})
        t == parser_current_token_type(q)
    IN  CASE parser_at_end(p) -> Failed("ERROR", [p EXCEPT !.dead = TRUE])
          [] t = "{" -> G["brace_group", q]
          [] t = "(" -> G["subshell", q]
          [] t = "for" -> G["for_clause", q]
          [] t = "case" -> G["case_clause", q]
          [] t = "if" -> G["if_clause", q]
          [] t = "while" -> G["while_clause", q]
          [] t = "until" -> G["until_clause", q]
          [] OTHER -> Failed("ERROR", q)

\* compound_command [redirect_list]; what a redirect list that fails has
\* consumed stays consumed.
WithRedirects(G, p, kind) ==
    Then(G["compound_command", p],
         LAMBDA r : LET redirs == G["redirect_list", r.p]
                    IN  Res("OK", redirs.p, IF redirs.st = "OK"
                                            THEN N(kind, <<r.n, redirs.n>>) ELSE r.n))

gparse_function_definition(G, p) ==
    LET afterName == parser_advance(p)
        afterLparen == parser_advance(afterName)
        body == parser_skip_newlines(parser_advance(afterLparen))
    IN  IF \/ parser_current_token_type(p) # "WORD"
           \/ CurrentWord(p) \in ReservedWords
           \/ parser_peek_type(p, 1) # "("
        THEN Failed("ERROR", p)
        ELSE IF parser_current_token_type(afterLparen) # ")"
        THEN Failed("ERROR", afterLparen)
        ELSE IF parser_at_end(body)
        THEN Failed("INCOMPLETE", body)
        ELSE Then(G["function_body", body],
                  LAMBDA r : Res("OK", r.p, [k |-> "FUNCTION_DEFINITION",
                                             x |-> CurrentWord(p), c |-> <<r.n>>]))

\* Each alternative starts where the one before it gave up.
gparse_command(G, p) ==
    LET func == G["function_definition", p]
        compound == G["redirected", func.p]
    IN  IF func.st \in {"OK", "INCOMPLETE"} THEN func
        ELSE IF compound.st \in {"OK", "INCOMPLETE"} THEN compound
        ELSE G["simple_command", compound.p]

(***************************************************************************)
(* Programs.                                                               *)
(***************************************************************************)

gparse_complete_command(G, p) ==
    Then(G["list", p],
         LAMBDA list : LET sep == gparse_separator_op(list.p)
                       IN  Res("OK", sep.p, N("COMPLETE_COMMAND", <<list.n, sep.n>>)))

CompleteRest(G, p) ==
    LET next == G["complete_command", parser_skip_newlines(p)]
    IN  IF parser_current_token_type(p) # "NEWLINE" THEN NoMore(p)
        ELSE IF next.st = "EMPTY" THEN NoMore(next.p)
        ELSE Then(next, LAMBDA r : Prepend(r.n, G["complete_rest", r.p]))

gparse_complete_commands(G, p) ==
    IF parser_at_end(p) THEN Failed("EMPTY", p)
    ELSE Then(G["complete_command", p],
              LAMBDA r : Then(G["complete_rest", r.p],
                 LAMBDA rest : Res("OK", rest.p, N("COMPLETE_COMMANDS", <<r.n>> \o rest.n.c))))

gparse_program(G, p) ==
    LET r == G["complete_commands", parser_skip_newlines(p)]
    IN  CASE r.st = "OK" -> Res("OK", parser_skip_newlines(r.p), N("PROGRAM", <<r.n>>))
          [] r.st = "EMPTY" -> Res("OK", parser_skip_newlines(r.p), N("PROGRAM", <<>>))
          [] OTHER -> r

\* Every production and every loop, by name.
ParserStates ==
    [toks : Seq([t : STRING, x : STRING]), pos : Nat, dead : BOOLEAN]

gparse[prod \in STRING, p \in ParserStates] ==
    CASE prod = "io_redirect" -> gparse_io_redirect(p)
      [] prod = "redirects" -> RedirectsFrom(gparse, p)
      [] prod = "redirect_list" -> gparse_redirect_list(gparse, p)
      [] prod = "cmd_prefix" -> CmdPrefix(gparse, p)
      [] prod = "cmd_suffix" -> CmdSuffix(gparse, p)
      [] prod = "simple_command" -> gparse_simple_command(gparse, p)
      [] prod = "pipe_sequence" -> gparse_pipe_sequence(gparse, p)
      [] prod = "pipe_rest" -> PipeRest(gparse, p)
      [] prod = "pipeline" -> gparse_pipeline(gparse, p)
      [] prod = "and_or" -> gparse_and_or(gparse, p)
      [] prod = "and_or_rest" -> AndOrRest(gparse, p)
      [] prod = "list" -> gparse_list(gparse, p)
      [] prod = "list_rest" -> SeparatedRest(gparse, prod, gparse_separator_op(p), p)
      [] prod = "term" -> gparse_term(gparse, p)
      [] prod = "term_rest" -> SeparatedRest(gparse, prod, gparse_separator(p), p)
      [] prod = "compound_list" -> gparse_compound_list(gparse, p)
      [] prod = "subshell" -> gparse_subshell(gparse, p)
      [] prod = "brace_group" -> gparse_brace_group(gparse, p)
      [] prod = "do_group" -> gparse_do_group(gparse, p)
      [] prod = "words" -> Words(gparse, p)
      [] prod = "wordlist" -> gparse_wordlist(gparse, p)
      [] prod = "in_clause" -> gparse_in_clause(gparse, p)
      [] prod = "for_clause" -> gparse_for_clause(gparse, p)
      [] prod = "pattern_list" -> gparse_pattern_list(gparse, p)
      [] prod = "pattern_rest" -> PatternRest(gparse, p)
      [] prod = "case_item_head" -> CaseItemHead(gparse, p)
      [] prod = "case_item" -> gparse_case_item(gparse, p)
      [] prod = "case_item_ns" -> gparse_case_item_ns(gparse, p)
      [] prod = "case_items" -> CaseItems(gparse, p)
      [] prod = "case_list" -> gparse_case_list(gparse, p)
      [] prod = "case_list_ns" -> gparse_case_list_ns(gparse, p)
      [] prod = "case_clause" -> gparse_case_clause(gparse, p)
      [] prod = "else_part" -> gparse_else_part(gparse, p)
      [] prod = "if_clause" -> gparse_if_clause(gparse, p)
      [] prod = "while_clause" -> gparse_while_clause(gparse, p, "WHILE_CLAUSE")
      [] prod = "until_clause" -> gparse_while_clause(gparse, p, "UNTIL_CLAUSE")
      [] prod = "compound_command" -> gparse_compound_command(gparse, p)
      [] prod = "redirected" -> WithRedirects(gparse, p, "COMMAND")
      [] prod = "function_body" -> WithRedirects(gparse, p, "FUNCTION_BODY")
      [] prod = "function_definition" -> gparse_function_definition(gparse, p)
      [] prod = "command" -> gparse_command(gparse, p)
      [] prod = "complete_command" -> gparse_complete_command(gparse, p)
      [] prod = "complete_rest" -> CompleteRest(gparse, p)
      [] prod = "complete_commands" -> gparse_complete_commands(gparse, p)
      [] prod = "program" -> gparse_program(gparse, p)

parser_parse_program(toks) ==
    LET p == parser_create_with_tokens_move(toks)
        r == gparse["program", p]
    IN  IF toks = <<>> THEN Failed("EMPTY", p)
        ELSE IF r.p.dead THEN Failed("ABORT", r.p)
        ELSE r
=============================================================================
