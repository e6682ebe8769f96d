-------------------------------- MODULE Lexer -------------------------------
(***************************************************************************)
(* The lexer: lexer.c and the modules of its modes.  The text is a         *)
(* sequence of characters ("grave" is the backquote); lexer_append_input   *)
(* adds a line to it and lexer_tokenize reads what it can.  lx is what the *)
(* lexer keeps between two calls: the text with the position of the next   *)
(* character, the stack of modes, the tokens not yet handed out, the word  *)
(* in progress and the queue of here-documents.                            *)
(*                                                                         *)
(* Step is one round of the loop of lexer_process_one_token: one round of  *)
(* the inner loop for the modes that keep no locals (normal, single and    *)
(* double quotes), one whole call for the modes that do.  A mode that runs *)
(* out of text returns INCOMPLETE and its locals are gone.                 *)
(***************************************************************************)
EXTENDS Naturals, SequencesExt

Blanks == {" ", "\t"}
Quotes == {"'", "\""}
Digit == {"0", "1", "2", "3", "4", "5", "6", "7", "8", "9"}
\* isalpha: the letters the instances use.
Alpha == {"a", "b", "c", "d", "e", "f", "i", "n", "x", "E", "F"}
is_name_start_char(c) == c \in Alpha \cup {"_"}
is_name_char(c) == is_name_start_char(c) \/ c \in Digit
is_special_param_char(c) == c \in Digit \cup {"@", "*", "#", "?", "-", "$", "!"}
is_delimiter_char(c) == c \in Blanks \cup {"\n", ";", "&", "|", "<", ">", "(", ")"}
is_heredoc_escapable(c) == c \in {"$", "grave", "\\", "\n"}
\* Mutant: the quote itself cannot be escaped.
EscapableAsInHeredoc(c) == is_heredoc_escapable(c)
is_dquote_escapable(c) == is_heredoc_escapable(c) \/ c = "\""

Op(text, t) == [text |-> text, t |-> t]
\* << and <<- are met by try_process_heredoc first.
normal_mode_operators ==
    {Op(<<"&", "&">>, "&&"), Op(<<"|", "|">>, "||"), Op(<<";", ";">>, ";;"),
     Op(<<">", ">">>, ">>"), Op(<<"<", "&">>, "<&"), Op(<<">", "&">>, ">&"),
     Op(<<"<", ">">>, "<>"), Op(<<">", "|">>, ">|"), Op(<<"|">>, "|"),
     Op(<<";">>, ";"), Op(<<"&">>, "&"), Op(<<"(">>, "("), Op(<<")">>, ")"),
     Op(<<">">>, ">"), Op(<<"<">>, "<")}

(***************************************************************************)
(* Tokens.  A part is a literal, a parameter with its operator and word, a *)
(* command substitution or an arithmetic expansion; q is the quote it      *)
(* stands in.  here is the content of a here-document.                     *)
(***************************************************************************)

Part(k, q, v) == [k |-> k, q |-> q, v |-> v, op |-> <<>>, w |-> <<>>]
Param(q, name, op, w) == [k |-> "PARAM", q |-> q, v |-> name, op |-> op, w |-> w]
Token(t, x) == [t |-> t, x |-> x, parts |-> <<>>, quoted |-> FALSE, eq |-> FALSE, here |-> <<>>]
NoToken == [t |-> "none"]

lexer_create ==
    [in |-> <<>>, pos |-> 1, modes |-> <<>>, tokens |-> <<>>, cur |-> NoToken,
     in_word |-> FALSE, queue |-> <<>>, index |-> 1, reading |-> FALSE]

lexer_append_input(lx, text) == [lx EXCEPT !.in = @ \o text]

\* The flag and the index of the here-documents are not in the list of what
\* is reset.
lexer_reset(lx) == [lexer_create EXCEPT !.index = lx.index, !.reading = lx.reading]

lexer_at_end(lx) == lx.pos > Len(lx.in)
\* The empty string stands for the NUL that peeking past the end returns.
CharAt(text, p) == IF p \in 1 .. Len(text) THEN text[p] ELSE ""
lexer_peek_ahead(lx, k) == CharAt(lx.in, lx.pos + k)
lexer_advance_n_chars(lx, n) == [lx EXCEPT !.pos = @ + n]
lexer_current_mode(lx) == IF lx.modes = <<>> THEN "NORMAL" ELSE Last(lx.modes)
lexer_push_mode(lx, m) == [lx EXCEPT !.modes = Append(@, m)]
lexer_pop_mode(lx) == [lx EXCEPT !.modes = IF @ = <<>> THEN @ ELSE Front(@)]
lexer_in_mode(lx, m) == \E i \in DOMAIN lx.modes : lx.modes[i] = m
InDquote(lx) == IF lexer_in_mode(lx, "DQUOTE") THEN "\"" ELSE ""

HasAt(text, p, part) ==
    p + Len(part) - 1 <= Len(text) /\ SubSeq(text, p, p + Len(part) - 1) = part

\* The first position from p on whose character is not in the set cs.
SkipWhile(text, p, cs) ==
    CHOOSE i \in p .. Len(text) + 1 :
        /\ CharAt(text, i) \notin cs
        /\ \A j \in p .. i - 1 : text[j] \in cs

lexer_skip_whitespace(lx) == [lx EXCEPT !.pos = SkipWhile(lx.in, @, Blanks)]

Ret(st, lx) == [st |-> st, lx |-> lx]

(***************************************************************************)
(* Building words.                                                         *)
(***************************************************************************)

\* lexer_start_word; a word in progress violates its precondition, but for
\* the # in a word every caller asks in_word first.
StartWord(lx) ==
    IF lx.in_word THEN lx ELSE [lx EXCEPT !.cur = Token("WORD", <<>>), !.in_word = TRUE]

SetQuoted(lx) == [lx EXCEPT !.cur.quoted = TRUE]

\* lexer_append_<q>_char_to_word: extends the last part if it is a literal in
\* the same quotes.
AppendChar(lx, c, q) ==
    LET parts == lx.cur.parts
        n == Len(parts)
    IN  IF n > 0 /\ parts[n].k = "LIT" /\ parts[n].q = q
        THEN [lx EXCEPT !.cur.parts[n].v = Append(@, c)]
        ELSE [lx EXCEPT !.cur.parts = Append(@, Part("LIT", q, <<c>>))]

AddPart(lx, part) == [lx EXCEPT !.cur.parts = Append(@, part)]

Equals(text) == {i \in DOMAIN text : text[i] = "="}
FirstEquals(text) == CHOOSE i \in Equals(text) : \A j \in Equals(text) : i <= j

\* The name before the sign may be any text.
IsAssignment(tok) ==
    /\ tok.eq
    /\ tok.parts # <<>>
    /\ tok.parts[1].k = "LIT"
    /\ Equals(tok.parts[1].v) # {}
    /\ FirstEquals(tok.parts[1].v) > 1
    /\ Len(tok.parts) > 1 \/ FirstEquals(tok.parts[1].v) < Len(tok.parts[1].v)

try_promote_to_assignment(tok) ==
    LET text == tok.parts[1].v
        e == FirstEquals(text)
        value == IF e = Len(text) THEN <<>> ELSE <<Part("LIT", "", SubSeq(text, e + 1, Len(text)))>>
    IN  IF ~IsAssignment(tok)
        THEN tok
        ELSE [tok EXCEPT !.t = "ASSIGNMENT_WORD", !.x = SubSeq(text, 1, e - 1),
                         !.parts = value \o Tail(tok.parts)]

lexer_finalize_word(lx) ==
    [lx EXCEPT !.tokens = Append(@, try_promote_to_assignment(lx.cur)),
               !.cur = NoToken, !.in_word = FALSE]

EndWord(lx) == IF lx.in_word THEN lexer_finalize_word(lx) ELSE lx

\* lexer_emit_token: no token may be in progress.
Emit(lx, tok, st) ==
    IF lx.cur # NoToken
    THEN Ret("ABORT", lx)
    ELSE Ret(st, [lx EXCEPT !.tokens = Append(@, tok)])

Then(r, F(_)) == IF r.st = "CONTINUE" THEN F(r.lx) ELSE r

(***************************************************************************)
(* Normal mode.                                                            *)
(***************************************************************************)

Matching(lx) == {o \in normal_mode_operators : HasAt(lx.in, lx.pos, o.text)}
match_operator(lx) ==
    CHOOSE o \in Matching(lx) : \A other \in Matching(lx) : Len(other.text) <= Len(o.text)

\* Only the tokens not yet handed out are looked at, and not the word in
\* progress.
previous_token_allows_io_number(lx) ==
    \/ lx.tokens = <<>>
    \/ Last(lx.tokens).t \in {"NEWLINE", ";", "&", "|", "(", "&&", "||"}

AfterDigits(lx) == SkipWhile(lx.in, lx.pos, Digit)
AtIoNumber(lx) ==
    /\ previous_token_allows_io_number(lx)
    /\ lexer_peek_ahead(lx, 0) \in Digit
    /\ CharAt(lx.in, AfterDigits(lx)) \in {"<", ">"}

try_emit_io_number(lx) ==
    Then(Emit(lx, Token("IO_NUMBER", SubSeq(lx.in, lx.pos, AfterDigits(lx) - 1)), "CONTINUE"),
         LAMBDA l : Ret("CONTINUE", [l EXCEPT !.pos = AfterDigits(l)]))

NameEnd(lx) == SkipWhile(lx.in, lx.pos + 1, Alpha \cup Digit \cup {"_"})
AtIoLocation(lx) ==
    /\ lexer_peek_ahead(lx, 0) = "{"
    /\ NameEnd(lx) > lx.pos + 1
    /\ CharAt(lx.in, NameEnd(lx)) = "}"
    /\ CharAt(lx.in, NameEnd(lx) + 1) \in {"<", ">"}

\* The one token that is emitted with a word in progress.
try_emit_braced_io_location(lx) ==
    Ret("CONTINUE",
        [lx EXCEPT !.tokens = Append(@, Token("IO_LOCATION", SubSeq(lx.in, lx.pos, NameEnd(lx)))),
                   !.pos = NameEnd(lx) + 1])

\* The delimiter of a here-document from position p on: its text, whether a
\* part of it is quoted, and the position after it; 0 if it is not terminated.
Delim(text, quoted, next) == [text |-> text, quoted |-> quoted, next |-> next]
Prefixed(d, text, quoted) == [d EXCEPT !.text = text \o @, !.quoted = @ \/ quoted]

QuotedDelimiter(in, p, q) ==
    LET scan[i \in Nat] ==
            CASE CharAt(in, i) \in {"", "\n"} -> Delim(<<>>, TRUE, 0)
              [] CharAt(in, i) = q -> Delim(<<>>, TRUE, SkipWhile(in, i + 1, Blanks))
              [] q = "\"" /\ CharAt(in, i) = "\\" /\ CharAt(in, i + 1) = "\n" -> scan[i + 2]
              [] OTHER -> Prefixed(scan[i + 1], <<in[i]>>, TRUE)
    IN  scan[p]

PlainDelimiter(in, p) ==
    LET scan[i \in Nat] ==
            CASE CharAt(in, i) = "" \/ is_delimiter_char(CharAt(in, i)) -> Delim(<<>>, FALSE, i)
              [] CharAt(in, i) = "\\" /\ CharAt(in, i + 1) = "\n" -> scan[i + 2]
              [] CharAt(in, i) = "\\" /\ CharAt(in, i + 1) \notin {"", "\n"} ->
                     Prefixed(scan[i + 2], <<in[i + 1]>>, TRUE)
              [] OTHER -> Prefixed(scan[i + 1], <<in[i]>>, FALSE)
        d == scan[p]
    IN  IF d.text = <<>> THEN Delim(<<>>, FALSE, 0) ELSE d

get_heredoc_delimiter(in, p) ==
    CASE CharAt(in, p) \in {"", "\n"} -> Delim(<<>>, FALSE, 0)
      [] CharAt(in, p) \in Quotes -> QuotedDelimiter(in, p + 1, in[p])
      [] OTHER -> PlainDelimiter(in, p)

\* A quoted empty delimiter violates the precondition of the append.
QueueHeredoc(lx, strip, d) ==
    CASE d.next = 0 -> Ret("ERROR", lx)
      [] d.next # 0 /\ d.text = <<>> -> Ret("ABORT", lx)
      [] OTHER ->
             Ret("CONTINUE",
                 [lexer_finalize_word([StartWord(lx) EXCEPT !.cur.parts = <<Part("LIT", "", d.text)>>])
                      EXCEPT !.pos = d.next,
                             !.queue = Append(@, [delim |-> d.text, strip |-> strip,
                                                  quoted |-> d.quoted])])

try_process_heredoc(lx) ==
    LET strip == lexer_peek_ahead(lx, 2) = "-"
        after == lexer_advance_n_chars(lx, IF strip THEN 3 ELSE 2)
    IN  Then(Emit(after, Token(IF strip THEN "<<-" ELSE "<<", <<>>), "CONTINUE"),
             LAMBDA l : QueueHeredoc(l, strip,
                            get_heredoc_delimiter(l.in, lexer_skip_whitespace(l).pos)))

Newline(lx) ==
    Then(Emit(lexer_advance_n_chars(EndWord(lx), 1), Token("NEWLINE", <<>>), "CONTINUE"),
         LAMBDA l : IF l.queue # <<>> /\ ~l.reading
                    THEN Ret("INCOMPLETE",
                             lexer_push_mode([l EXCEPT !.reading = TRUE, !.index = 1], "HEREDOC"))
                    ELSE Ret("CONTINUE", l))

Splice(lx, skip) ==
    Ret(IF lexer_at_end(lexer_advance_n_chars(lx, skip)) THEN "INCOMPLETE" ELSE "CONTINUE",
        lexer_advance_n_chars(lx, skip))

\* An opener of n characters hands over to the mode m.
Enter(lx, m, n) == Ret("INCOMPLETE", lexer_push_mode(lexer_advance_n_chars(lx, n), m))

\* $ in normal mode and in double quotes: they differ in the characters that
\* make it a parameter.
Dollar(lx, q, starts) ==
    LET c2 == lexer_peek_ahead(lx, 1)
    IN  CASE c2 = "" -> Ret("INCOMPLETE", lx)
          [] c2 = "{" -> Enter(lx, "BRACED", 2)
          [] c2 = "(" /\ lexer_peek_ahead(lx, 2) = "(" -> Enter(lx, "ARITH", 3)
          [] c2 = "(" /\ lexer_peek_ahead(lx, 2) # "(" -> Enter(lx, "PAREN", 2)
          [] c2 \notin {"", "{", "("} /\ starts -> Enter(lx, "UNBRACED", 1)
          [] OTHER -> Ret("CONTINUE", lexer_advance_n_chars(AppendChar(StartWord(lx), "$", q), 1))

WordChar(lx, c) ==
    LET w == StartWord(lx)
        e == IF c = "=" /\ ~w.cur.quoted THEN [w EXCEPT !.cur.eq = TRUE] ELSE w
    IN  Ret("CONTINUE", lexer_advance_n_chars(AppendChar(e, c, ""), 1))

\* A # starts a comment unless a word is in progress; then the word is started
\* once more, which violates the precondition of lexer_start_word.
Hash(lx) ==
    IF lx.in_word
    THEN Ret("ABORT", lx)
    ELSE Ret("CONTINUE",
             [lx EXCEPT !.pos = CHOOSE i \in @ .. Len(lx.in) + 1 :
                                    /\ CharAt(lx.in, i) \in {"", "\n"}
                                    /\ \A j \in @ .. i - 1 : lx.in[j] # "\n"])

EndOfInput(lx) ==
    IF ~lx.in_word /\ lx.cur # NoToken
    THEN Ret("ERROR", lx)
    ELSE Emit(EndWord(lx), Token("EOF", <<>>), "OK")

lexer_process_one_normal_token(lx) ==
    LET c == lexer_peek_ahead(lx, 0)
        c2 == lexer_peek_ahead(lx, 1)
    IN  CASE lexer_at_end(lx) -> EndOfInput(lx)
          [] c = "\\" /\ c2 = "\n" -> Splice(lx, 2)
          [] c \in Blanks -> Ret("CONTINUE", lexer_skip_whitespace(EndWord(lx)))
          [] c = "\n" -> Newline(lx)
          [] AtIoNumber(lx) -> try_emit_io_number(lx)
          [] AtIoLocation(lx) -> try_emit_braced_io_location(lx)
          [] c = "<" /\ c2 = "<" -> try_process_heredoc(lx)
          [] c \in {";", "&", "|", "(", ")", ">"} \/ (c = "<" /\ c2 # "<") ->
                 Emit(lexer_advance_n_chars(EndWord(lx), Len(match_operator(lx).text)),
                      Token(match_operator(lx).t, <<>>), "OK")
          [] c = "\\" /\ c2 = "" -> Ret("INCOMPLETE", lx)
          [] c = "\\" /\ c2 \notin {"", "\n"} ->
                 Ret("CONTINUE",
                     lexer_advance_n_chars(SetQuoted(AppendChar(StartWord(lx), c2, "")), 2))
          [] c = "grave" -> Enter(lx, "BACKTICK", 1)
          [] c = "'" -> Enter(lx, "SQUOTE", 1)
          [] c = "\"" -> Enter(lx, "DQUOTE", 1)
          [] c = "$" -> Dollar(lx, "", ~is_delimiter_char(c2))
          [] c = "#" -> Hash(lx)
          [] OTHER -> WordChar(lx, c)

(***************************************************************************)
(* Quotes.                                                                 *)
(***************************************************************************)

QuotedWord(lx) == SetQuoted(StartWord(lx))

\* Mutant: the quote ends with the line.
SquoteEndsWithText(lx) ==
    LET w == QuotedWord(lx)
        c == lexer_peek_ahead(lx, 0)
    IN  CASE lexer_at_end(lx) -> Ret("INCOMPLETE", lexer_pop_mode(w))
          [] c = "'" -> Ret("OK", lexer_pop_mode(lexer_advance_n_chars(w, 1)))
          [] OTHER -> Ret("CONTINUE", lexer_advance_n_chars(AppendChar(w, c, "'"), 1))

lexer_process_squote(lx) ==
    LET w == QuotedWord(lx)
        c == lexer_peek_ahead(lx, 0)
    IN  CASE lexer_at_end(lx) -> Ret("INCOMPLETE", w)
          [] c = "'" -> Ret("OK", lexer_pop_mode(lexer_advance_n_chars(w, 1)))
          [] OTHER -> Ret("CONTINUE", lexer_advance_n_chars(AppendChar(w, c, "'"), 1))

DquoteEscape(w, next) ==
    CASE next = "" -> Ret("INCOMPLETE", w)
      [] next = "\n" -> Splice(w, 2)
      [] next # "\n" /\ is_dquote_escapable(next) ->
             Ret("CONTINUE", lexer_advance_n_chars(AppendChar(w, next, "\""), 2))
      [] OTHER ->
             Ret("CONTINUE",
                 lexer_advance_n_chars(AppendChar(AppendChar(w, "\\", "\""), next, "\""), 2))

lexer_process_dquote(lx) ==
    LET w == QuotedWord(lx)
        c == lexer_peek_ahead(lx, 0)
        c2 == lexer_peek_ahead(lx, 1)
    IN  CASE lexer_at_end(lx) -> Ret("INCOMPLETE", w)
          [] c = "\"" -> Ret("OK", lexer_pop_mode(lexer_advance_n_chars(w, 1)))
          [] c = "\\" -> DquoteEscape(w, c2)
          [] c = "grave" -> Enter(w, "BACKTICK", 1)
          [] c = "$" -> Dollar(w, "\"", is_name_start_char(c2) \/ is_special_param_char(c2))
          [] OTHER -> Ret("CONTINUE", lexer_advance_n_chars(AppendChar(w, c, "\""), 1))

(***************************************************************************)
(* Expansions.  A scan returns the position it stops at: of the closer, of *)
(* a backslash with nothing after it, or the end of the text.              *)
(***************************************************************************)

\* The expansion is complete: add its part and continue after the closer.
Close(lx, part, next) == Ret("OK", lexer_pop_mode([AddPart(lx, part) EXCEPT !.pos = next]))
RunOut(lx, p) == Ret("INCOMPLETE", [lx EXCEPT !.pos = p])

lexer_process_cmd_subst_paren(lx) ==
    LET w == StartWord(lx)
        in == lx.in
        stop[p \in Nat, depth \in Nat] ==
            CASE p > Len(in) -> Len(in) + 1
              [] CharAt(in, p) = ")" /\ depth = 1 -> p
              [] CharAt(in, p) = ")" /\ depth > 1 -> stop[p + 1, depth - 1]
              [] CharAt(in, p) = "(" -> stop[p + 1, depth + 1]
              [] CharAt(in, p) = "\\" -> IF p = Len(in) THEN p ELSE stop[p + 2, depth]
              [] OTHER -> stop[p + 1, depth]
        end == stop[lx.pos, 1]
    IN  IF CharAt(in, end) = ")"
        THEN Close(w, Part("CMD", InDquote(lx), SubSeq(in, lx.pos, end - 1)), end + 1)
        ELSE RunOut(w, end)

\* Inside double quotes \" keeps its backslash.
BacktickEscapes(q) == {"$", "grave", "\\"} \cup IF q = "" THEN {"\""} ELSE {}

lexer_process_cmd_subst_backtick(lx) ==
    LET w == StartWord(lx)
        in == lx.in
        At(p, text) == [p |-> p, text |-> text]
        scan[p \in Nat] ==
            CASE p > Len(in) -> At(Len(in) + 1, <<>>)
              [] CharAt(in, p) = "grave" -> At(p, <<>>)
              [] CharAt(in, p) = "\\" /\ p = Len(in) -> At(p, <<>>)
              [] CharAt(in, p) = "\\" /\ CharAt(in, p + 1) = "\n" -> scan[p + 2]
              [] CharAt(in, p) = "\\" /\ CharAt(in, p + 1) \in BacktickEscapes(InDquote(lx)) ->
                     [scan[p + 2] EXCEPT !.text = <<in[p + 1]>> \o @]
              [] CharAt(in, p) = "\\" /\ CharAt(in, p + 1) \notin BacktickEscapes(InDquote(lx)) \cup {"", "\n"} ->
                     [scan[p + 2] EXCEPT !.text = <<"\\", in[p + 1]>> \o @]
              [] OTHER -> [scan[p + 1] EXCEPT !.text = <<in[p]>> \o @]
        end == scan[lx.pos]
    IN  IF CharAt(in, end.p) = "grave"
        THEN Close(w, Part("CMD", InDquote(lx), end.text), end.p + 1)
        ELSE RunOut(w, end.p)

lexer_process_param_exp_unbraced(lx) ==
    LET w == StartWord(lx)
        c == lexer_peek_ahead(lx, 0)
        end == SkipWhile(lx.in, lx.pos, Alpha \cup Digit \cup {"_"})
    IN  CASE lexer_at_end(lx) -> Ret("INCOMPLETE", w)
          [] is_special_param_char(c) -> Close(w, Param(InDquote(lx), <<c>>, <<>>, <<>>), lx.pos + 1)
          [] is_name_start_char(c) ->
                 Close(w, Param(InDquote(lx), SubSeq(lx.in, lx.pos, end - 1), <<>>, <<>>), end)
          [] OTHER -> Ret("ERROR", w)

\* The position after the quote that closes the one before p; an escape counts
\* in double quotes only.
AfterQuote(in, p, q) ==
    LET scan[i \in Nat] ==
            CASE i > Len(in) -> Len(in) + 1
              [] CharAt(in, i) = q -> i + 1
              [] q = "\"" /\ CharAt(in, i) = "\\" -> scan[i + 2]
              [] OTHER -> scan[i + 1]
    IN  scan[p]

\* The } that closes the word that starts at p.
WordEnd(in, start) ==
    LET scan[p \in Nat, depth \in Nat] ==
            CASE p > Len(in) -> Len(in) + 1
              [] CharAt(in, p) = "}" -> IF depth = 0 THEN p ELSE scan[p + 1, depth - 1]
              [] CharAt(in, p) = "$" /\ CharAt(in, p + 1) \in {"{", "("} -> scan[p + 2, depth + 1]
              [] CharAt(in, p) = "(" -> scan[p + 1, depth + 1]
              [] CharAt(in, p) = ")" -> scan[p + 1, IF depth > 0 THEN depth - 1 ELSE 0]
              [] CharAt(in, p) = "\\" -> scan[p + 2, depth]
              [] CharAt(in, p) \in Quotes -> scan[AfterQuote(in, p + 1, in[p]), depth]
              [] OTHER -> scan[p + 1, depth]
    IN  scan[start, 0]

IsLength(lx) ==
    /\ lexer_peek_ahead(lx, 0) = "#"
    /\ is_name_char(lexer_peek_ahead(lx, 1)) \/ lexer_peek_ahead(lx, 1) \in {"@", "*"}

\* The position after the parameter name that starts at p; p if there is none.
ParamNameEnd(in, p) ==
    CASE is_special_param_char(CharAt(in, p)) -> p + 1
      [] is_name_start_char(CharAt(in, p)) -> SkipWhile(in, p, Alpha \cup Digit \cup {"_"})
      [] OTHER -> p

Operators == {"-", "=", "?", "+"}
PatternOperators == {"%", "#"}

\* The operator and the word after the name, at p; colon says whether : came
\* before.
BracedOperator(w, name, p, colon) ==
    LET in == w.in
        op == CharAt(in, p)
        double == op \in PatternOperators /\ CharAt(in, p + 1) = op
        start == IF double THEN p + 2 ELSE p + 1
        end == WordEnd(in, start)
    IN  CASE op \notin Operators \cup PatternOperators -> Ret("ERROR", [w EXCEPT !.pos = p])
          [] op \in PatternOperators /\ colon -> Ret("ERROR", [w EXCEPT !.pos = p])
          [] CharAt(in, end) # "}" -> RunOut(w, Len(in) + 1)
          [] OTHER ->
                 Close(w, Param(InDquote(w), name,
                                (IF colon THEN <<":">> ELSE <<>>) \o (IF double THEN <<op, op>> ELSE <<op>>),
                                SubSeq(in, start, end - 1)),
                       end + 1)

lexer_process_param_exp_braced(lx) ==
    LET w == StartWord(lx)
        in == lx.in
        start == IF IsLength(lx) THEN lx.pos + 1 ELSE lx.pos
        end == ParamNameEnd(in, start)
        name == SubSeq(in, start, end - 1)
        c == CharAt(in, end)
    IN  CASE lexer_at_end(lx) -> Ret("INCOMPLETE", w)
          [] end = start -> Ret("ERROR", w)
          [] end > start /\ c = "" -> RunOut(w, end)
          [] IsLength(lx) /\ c \notin {"", "}"} -> Ret("ERROR", w)
          [] c = "}" ->
                 Close(w, Param(InDquote(lx), name, IF IsLength(lx) THEN <<"length">> ELSE <<>>, <<>>), end + 1)
          [] c = ":" /\ CharAt(in, end + 1) = "" -> RunOut(w, end + 1)
          [] c = ":" /\ CharAt(in, end + 1) # "" -> BracedOperator(w, name, end + 1, TRUE)
          [] OTHER -> BracedOperator(w, name, end, FALSE)

Opens == {"(", "{"}
Closes == {")", "}"}
Pair(open, close) == open = "(" <=> close = ")"

lexer_process_arith_exp(lx) ==
    LET w == StartWord(lx)
        in == lx.in
        At(st, p) == [st |-> st, p |-> p, text |-> <<>>]
        Then2(r, text) == [r EXCEPT !.text = text \o @]
        scan[p \in Nat, open \in Seq(Opens)] ==
            CASE p > Len(in) -> At("INCOMPLETE", Len(in) + 1)
              [] CharAt(in, p) = ")" /\ open = <<>> ->
                     At(IF CharAt(in, p + 1) = ")" THEN "OK" ELSE "ERROR", p)
              [] CharAt(in, p) = "}" /\ open = <<>> -> At("ERROR", p)
              [] CharAt(in, p) \in Closes /\ open # <<>> ->
                     IF Pair(Last(open), in[p])
                     THEN Then2(scan[p + 1, Front(open)], <<in[p]>>)
                     ELSE At("ERROR", p)
              [] CharAt(in, p) \in Opens -> Then2(scan[p + 1, Append(open, in[p])], <<in[p]>>)
              [] CharAt(in, p) = "\\" /\ CharAt(in, p + 1) \in {"$", "grave", "\\"} ->
                     Then2(scan[p + 2, open], <<in[p + 1]>>)
              [] CharAt(in, p) = "\\" /\ CharAt(in, p + 1) = "\n" -> scan[p + 2, open]
              [] CharAt(in, p) = "$" /\ CharAt(in, p + 1) \in Opens ->
                     Then2(scan[p + 2, Append(open, in[p + 1])], <<"$", in[p + 1]>>)
              [] OTHER -> Then2(scan[p + 1, open], <<in[p]>>)
        end == scan[lx.pos, <<>>]
    IN  CASE end.st = "OK" -> Close(w, Part("ARITH", InDquote(lx), end.text), end.p + 2)
          [] end.st = "INCOMPLETE" -> RunOut(w, end.p)
          [] OTHER -> Ret("ERROR", [w EXCEPT !.pos = end.p])

(***************************************************************************)
(* The body of a here-document.                                            *)
(***************************************************************************)

\* The delimiter is looked for at every character, not only where a line
\* starts.
lexer_check_heredoc_delimiter(in, p, entry) ==
    LET tabs == SkipWhile(in, p, {"\t"})
        start == IF entry.strip /\ tabs <= Len(in) THEN tabs ELSE p
    IN  IF HasAt(in, start, entry.delim)
        THEN start + Len(entry.delim)
        ELSE 0

\* The content from p on and where it ends.  A delimiter that ends the text is
\* passed over and the read behind it violates a precondition, and so does
\* leading tabs that end it.
HeredocScan(in, start, entry) ==
    LET At(st, p) == [st |-> st, p |-> p, text |-> <<>>]
        Line(p) == IF entry.strip /\ CharAt(in, p - 1) = "\n" THEN SkipWhile(in, p, {"\t"}) ELSE p
        scan[p0 \in Nat] ==
            LET p == Line(p0)
                after == lexer_check_heredoc_delimiter(in, p, entry)
            IN  CASE p0 > Len(in) -> At("INCOMPLETE", Len(in) + 1)
                  [] p0 <= Len(in) /\ (p > Len(in) \/ after = Len(in) + 1) -> At("ABORT", p)
                  [] after # 0 /\ CharAt(in, after) = "\n" -> At("OK", after + 1)
                  [] ~entry.quoted /\ CharAt(in, p) = "\\" /\ CharAt(in, p + 1) = "\n" -> scan[p + 2]
                  [] ~entry.quoted /\ CharAt(in, p) = "\\" /\ CharAt(in, p + 1) \in {"$", "grave", "\\"} ->
                         [scan[p + 2] EXCEPT !.text = <<in[p + 1]>> \o @]
                  [] OTHER -> [scan[p + 1] EXCEPT !.text = <<in[p]>> \o @]
    IN  scan[start]

lexer_process_heredoc_body(lx) ==
    LET entry == lx.queue[lx.index]
        cur == IF lx.cur = NoToken THEN Token("WORD", <<>>) ELSE lx.cur
        r == HeredocScan(lx.in, lx.pos, entry)
        done == [lx EXCEPT !.pos = r.p,
                           !.cur = NoToken,
                           !.in_word = FALSE,
                           !.tokens = Append(@, [Token("END_OF_HEREDOC", entry.delim) EXCEPT
                                                    !.here = cur.here \o r.text,
                                                    !.quoted = entry.quoted]),
                           !.index = @ + 1]
    IN  CASE lx.index > Len(lx.queue) -> Ret("OK", lx)
          [] r.st = "ABORT" -> Ret("ABORT", lx)
          [] r.st = "INCOMPLETE" ->
                 Ret("INCOMPLETE", [lx EXCEPT !.pos = r.p, !.cur = [cur EXCEPT !.here = @ \o r.text]])
          [] r.st = "OK" /\ lx.index < Len(lx.queue) -> Ret("OK", done)
          [] OTHER -> Ret("OK", lexer_pop_mode([done EXCEPT !.reading = FALSE, !.queue = <<>>]))

(***************************************************************************)
(* The loop.                                                               *)
(***************************************************************************)

Step(lx) ==
    CASE lexer_current_mode(lx) = "NORMAL" -> lexer_process_one_normal_token(lx)
      [] lexer_current_mode(lx) = "SQUOTE" -> lexer_process_squote(lx)
      [] lexer_current_mode(lx) = "DQUOTE" -> lexer_process_dquote(lx)
      [] lexer_current_mode(lx) = "BRACED" -> lexer_process_param_exp_braced(lx)
      [] lexer_current_mode(lx) = "UNBRACED" -> lexer_process_param_exp_unbraced(lx)
      [] lexer_current_mode(lx) = "PAREN" -> lexer_process_cmd_subst_paren(lx)
      [] lexer_current_mode(lx) = "BACKTICK" -> lexer_process_cmd_subst_backtick(lx)
      [] lexer_current_mode(lx) = "ARITH" -> lexer_process_arith_exp(lx)
      [] lexer_current_mode(lx) = "HEREDOC" -> lexer_process_heredoc_body(lx)

Lexed(st, lx, out) == [st |-> st, lx |-> lx, out |-> out]

\* lexer_pop_first_token until the list is empty.
PopAll(lx) == [lx EXCEPT !.tokens = <<>>]
BeforeEof(tokens) == SelectSeq(tokens, LAMBDA tok : tok.t # "EOF")
HasEof(tokens) == \E i \in DOMAIN tokens : tokens[i].t = "EOF"

\* lexer_tokenize with the loop of lexer_process_one_token in it: initial is
\* the number of tokens that were there when that loop was entered.  Once
\* there are new tokens they are handed out; without new tokens the end of the
\* text ends the call as INCOMPLETE, and a round that changes nothing is
\* repeated for ever.
RECURSIVE Tokenize(_, _, _)
Tokenize(lx, initial, out) ==
    LET After(r, new) ==
            CASE r.st \in {"ERROR", "ABORT"} -> Lexed(r.st, r.lx, out)
              [] r.st \in {"OK", "INCOMPLETE"} /\ new /\ HasEof(r.lx.tokens) ->
                     Lexed("OK", PopAll(r.lx), out \o BeforeEof(r.lx.tokens))
              [] r.st = "INCOMPLETE" /\ ~new /\ lexer_at_end(r.lx) -> Lexed("INCOMPLETE", r.lx, out)
              [] r.st # "CONTINUE" /\ ~new /\ r.lx = lx -> Lexed("ENDLESS", r.lx, out)
              [] OTHER ->
                     Tokenize(IF new THEN PopAll(r.lx) ELSE r.lx, IF new THEN 0 ELSE initial,
                              IF new THEN out \o r.lx.tokens ELSE out)
        Judge(r) == After(r, r.st # "CONTINUE" /\ Len(r.lx.tokens) > initial)
    IN  Judge(Step(lx))

lexer_tokenize(lx) == Tokenize(lx, Len(lx.tokens), <<>>)

=============================================================================
