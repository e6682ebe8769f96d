----------------------------- MODULE Algorithms -----------------------------
(***************************************************************************)
(* The algorithms that turn text into fields and numbers, each checked     *)
(* against a definition of what it computes: the lexer, word expansion and *)
(* arithmetic.  A step picks a subject, an input of one of them, and the   *)
(* next step puts it away; the properties speak of the subject at hand.    *)
(***************************************************************************)
EXTENDS Arithmetic

CONSTANTS
    Lines,       \* lines of input for the lexer, without their newline
    QuotedTexts, \* texts to be quoted
    Trees,       \* expressions, as trees
    Variables,   \* the variables of an expression: names with their values
    SplitTexts,  \* texts to be split into fields
    Patterns,    \* patterns
    Subjects,    \* texts to be matched by a pattern
    WordPieces,  \* what a word is made of
    Values,      \* the values of x, as a sequence that is empty if x is unset
    BodyPieces,  \* what the body of a here-document is made of
    ArgPieces,   \* what the arguments of a command are made of
    MaxPieces    \* the number of pieces in a word, a body or a command

ASSUME PieceAssumption == MaxPieces \in Nat

VARIABLE subject

E == INSTANCE Expansion
G == INSTANCE GetOpt

Nothing == [kind |-> "nothing"]
Init == subject = Nothing

Pick(kind, what) == subject' = [kind |-> kind, in |-> what]

PickLines == subject = Nothing /\ \E first, second \in Lines : Pick("lines", <<first, second>>)
PickQuoted == subject = Nothing /\ \E text \in QuotedTexts : Pick("quoted", text)
PickTree == subject = Nothing /\ \E tree \in Trees : Pick("tree", tree)
PickSplit ==
    /\ subject = Nothing
    /\ \E text \in SplitTexts, ifs \in SUBSET {" ", ":"} : Pick("split", [text |-> text, ifs |-> ifs])
PickPattern == subject = Nothing /\ \E pat \in Patterns : Pick("pattern", pat)
PickWord ==
    /\ subject = Nothing
    /\ \E n \in 1 .. MaxPieces : \E pieces \in [1 .. n -> WordPieces], x \in Values :
           Pick("word", [pieces |-> pieces, x |-> x])
PickBody ==
    /\ subject = Nothing
    /\ \E n \in 0 .. MaxPieces : \E pieces \in [1 .. n -> BodyPieces], x \in Values :
           Pick("body", [pieces |-> pieces, x |-> x])
PickArgs ==
    /\ subject = Nothing
    /\ \E n \in 0 .. MaxPieces : \E pieces \in [1 .. n -> ArgPieces] : Pick("args", pieces)
PutAway == subject # Nothing /\ subject' = Nothing

Next ==
    \/ PickLines \/ PickQuoted \/ PickTree \/ PickSplit
    \/ PickPattern \/ PickWord \/ PickBody \/ PickArgs \/ PutAway

Spec == Init /\ [][Next]_subject

Is(kind) == subject.kind = kind

(***************************************************************************)
(* The lexer.                                                              *)
(***************************************************************************)

Feed(lx, text) == L!lexer_tokenize(L!lexer_append_input(lx, text))
Terminated(line) == Append(line, "\n")

\* The modes that keep what they have read in locals: it is lost when the line
\* ends inside them.
LosesItsPlace(lx) == L!lexer_current_mode(lx) \in {"PAREN", "BACKTICK", "BRACED", "ARITH"}
Continued(line) == line # <<>> /\ Last(line) = "\\"

Alike(first, all, second) ==
    \/ first.st \notin {"OK", "INCOMPLETE"}
    \/ LosesItsPlace(first.lx)
    \/ /\ second.st = all.st
       /\ all.st \in {"OK", "INCOMPLETE"} =>
              /\ first.out \o second.out = all.out
              /\ [second.lx EXCEPT !.in = <<>>, !.pos = 0] = [all.lx EXCEPT !.in = <<>>, !.pos = 0]

\* Lexing two lines one at a time, as the session does, gives the tokens and
\* leaves the modes that lexing them at once gives (lexer_tokenize), except
\* when a line ends with a backslash and inside the expansions that lose what
\* they have read.
LinesLexAlike ==
    Is("lines") =>
        LET one == Terminated(subject.in[1])
            two == Terminated(subject.in[2])
        IN  Continued(subject.in[1]) \/ Continued(subject.in[2])
            \/ \E first \in {Feed(L!lexer_create, one)} :
                   Alike(first, Feed(L!lexer_create, one \o two), Feed(first.lx, two))

LexAlike(r1, r2) == r1.st = r2.st /\ r1.out = r2.out

\* After lexer_reset, wherever it finds the lexer, a line is lexed as by a new
\* lexer, unless a here-document was being read.
ResetIsFresh ==
    Is("lines") =>
        \E first \in {Feed(L!lexer_create, Terminated(subject.in[1])).lx} :
            \/ first.reading
            \/ LexAlike(Feed(L!lexer_reset(first), Terminated(subject.in[2])),
                        Feed(L!lexer_create, Terminated(subject.in[2])))

\* What the lexer makes of a line depends on the input since it was created or
\* reset and on nothing else: not on how the input was cut into lines, and not
\* on what went before the reset.
LexingHasNoOtherState == LinesLexAlike /\ ResetIsFresh

Literal(parts) == FlattenSeq([i \in DOMAIN parts |-> parts[i].v])
\* The tokens are one word that stands for the text as it is, with a newline.
IsWord(r, text) ==
    /\ r.st = "OK"
    /\ Len(r.out) = 2
    /\ r.out[1].t = "WORD"
    /\ \A i \in DOMAIN r.out[1].parts : r.out[1].parts[i].k = "LIT"
    /\ Literal(r.out[1].parts) = text

EscapeAll(text) ==
    FlattenSeq([i \in DOMAIN text |-> IF text[i] \in {"$", "grave", "\\", "\""}
                                      THEN <<"\\", text[i]>> ELSE <<text[i]>>])

\* A line of the text ends with the delimiter E.
EndsEarly(text) == \E i \in DOMAIN text : text[i] = "E" /\ (i = Len(text) \/ text[i + 1] = "\n")
Before == <<"c", " ", "<", "<", "'", "E", "'", "\n">>
HereDoc(r, text) ==
    /\ r.st = "OK"
    /\ Last(r.out).t = "END_OF_HEREDOC"
    /\ Last(r.out).here = text

QuotedIn(way, text) ==
    CASE way = "single" -> <<"'">> \o text \o <<"'">>
      [] way = "double" -> <<"\"">> \o EscapeAll(text) \o <<"\"">>
      [] way = "here" -> Before \o text \o <<"\n", "E">>
CanQuote(way, text) ==
    CASE way = "single" -> ~Contains(text, "'")
      [] way = "double" -> TRUE
      [] way = "here" -> ~EndsEarly(text)

\* Each of the three ways to quote gives the text back: single quotes, double
\* quotes with every special character escaped, and the body of a
\* here-document with a quoted delimiter (lexer_process_squote,
\* lexer_process_dquote, lexer_process_heredoc_body).
QuotingRoundTrip ==
    Is("quoted") =>
        \A way \in {"single", "double", "here"} : CanQuote(way, subject.in) =>
            \E r \in {Feed(L!lexer_create, Terminated(QuotedIn(way, subject.in)))} :
                IF way = "here" THEN HereDoc(r, Terminated(subject.in)) ELSE IsWord(r, subject.in)

(***************************************************************************)
(* Arithmetic.  A tree is a leaf, an operator with one or two operands or  *)
(* a conditional; it is printed with the parentheses C requires.           *)
(***************************************************************************)

\* How tightly C binds the operators, loosest first.
Levels ==
    <<{"?"}, {"||"}, {"&&"}, {"|"}, {"^"}, {"&"}, {"==", "!="}, {"<", ">", "<=", ">="},
      {"<<", ">>"}, {"+", "-"}, {"*", "/", "%"}, {"unary"}, {"leaf"}>>
LevelOf(op) == CHOOSE i \in DOMAIN Levels : op \in Levels[i]
Level(tree) ==
    CASE tree.k = "leaf" -> LevelOf("leaf")
      [] tree.k = "unary" -> LevelOf("unary")
      [] OTHER -> LevelOf(tree.op)

InParens(text, needed) == IF needed THEN <<"(">> \o text \o <<")">> ELSE text

RECURSIVE Printed(_)
Printed(tree) ==
    LET inner == [i \in DOMAIN tree.args |-> Printed(tree.args[i])]
        arg(i, least) == InParens(inner[i], Level(tree.args[i]) < least)
    IN  CASE tree.k = "leaf" -> tree.text
          [] tree.k = "unary" -> tree.chars \o arg(1, Level(tree))
          [] tree.k = "binary" -> arg(1, Level(tree)) \o tree.chars \o arg(2, Level(tree) + 1)
          [] OTHER -> arg(1, 2) \o <<"?">> \o inner[2] \o <<":">> \o arg(3, 1)

\* What C computes.  Once an operand fails the rest is not evaluated.
RECURSIVE Meaning(_)
Meaning(tree) ==
    LET m == [i \in DOMAIN tree.args |-> Meaning(tree.args[i])]
        bad == {i \in DOMAIN m : m[i].st # "OK"}
        Val(v) == [st |-> "OK", v |-> v]
    IN  CASE tree.k = "leaf" -> Val(tree.v)
          [] tree.k # "leaf" /\ bad # {} ->
                 [st |-> m[CHOOSE i \in bad : \A j \in bad : i <= j].st, v |-> 0]
          [] tree.k = "unary" /\ bad = {} -> Val(Unary(tree.op, m[1].v))
          [] tree.k = "ternary" /\ bad = {} -> Val(IF m[1].v # 0 THEN m[2].v ELSE m[3].v)
          [] tree.k = "binary" /\ bad = {} /\ Divides(tree.op) /\ m[2].v = 0 -> [st |-> "ERROR", v |-> 0]
          [] tree.k = "binary" /\ bad = {} /\ Overflows(tree.op, m[1].v, m[2].v) -> [st |-> "TRAP", v |-> 0]
          [] OTHER -> Val(Apply(tree.op, m[1].v, m[2].v))

\* A logical operator whose left operand decides.
RECURSIVE DecidedEarly(_)
DecidedEarly(tree) ==
    \/ \E i \in DOMAIN tree.args : DecidedEarly(tree.args[i])
    \/ /\ tree.k = "binary"
       /\ tree.op \in {"&&", "||"}
       /\ Meaning(tree.args[1]).st = "OK"
       /\ (tree.op = "||") = (Meaning(tree.args[1]).v # 0)

\* A short expression with no character that the shell has a use of its own for.
PlainForTheShell(text) ==
    /\ Len(text) <= 4
    /\ \A i \in DOMAIN text : text[i] \notin {"&", "|", "<", ">", "=", "(", ")", "!"}
NoParameters == [n \in {} |-> <<>>]

\* The evaluator of arithmetic.c gives an expression the value, the error and
\* the trap of its C meaning (parse_expression), unless a logical operator is
\* decided by its left operand.  A trap, which ends the shell, is met in the
\* division of the smallest number by -1 and nowhere else.  The way through the
\* shell's own lexer and tokenizer (arithmetic_expand_expression) changes
\* nothing about an expression that is plain.
EvaluatorAgrees ==
    Is("tree") =>
        \E text \in {Printed(subject.in)} :
        \E r \in {Evaluate(text, Variables)} :
            /\ \/ DecidedEarly(subject.in)
               \/ \E m \in {Meaning(subject.in)} : r.st = m.st /\ (r.st = "OK" => r.v = m.v)
            /\ PlainForTheShell(text) => arithmetic_expand_expression(text, NoParameters, text)

(***************************************************************************)
(* Expansion.                                                              *)
(***************************************************************************)

\* The pieces of a text between the characters of a set.
CutAt(text, cs) ==
    FoldLeft(LAMBDA acc, ch : IF ch \in cs THEN Append(acc, <<>>) ELSE [acc EXCEPT ![Len(acc)] = Append(@, ch)],
             <<<<>>>>, text)
NonEmpty(texts) == SelectSeq(texts, LAMBDA t : t # <<>>)

\* Rules 1 to 6 of the comment on expand_field_split: every hard delimiter
\* ends a field, and the white space about it counts for nothing.
FieldsOf(text, ifs) ==
    LET cuts == CutAt(text, ifs \ Spaces)
        words(i) == NonEmpty(CutAt(cuts[i], ifs \cap Spaces))
    IN  CASE text = <<>> -> <<>>
          [] text # <<>> /\ ifs = {} -> <<text>>
          [] text # <<>> /\ ifs # {} /\ Len(cuts) = 1 -> words(1)
          [] OTHER -> FlattenSeq([i \in DOMAIN cuts |-> IF words(i) = <<>> THEN <<<<>>>> ELSE words(i)])

\* A hard delimiter with white space and then a field after it.
SpaceAfterHard(text, ifs) ==
    \E i, j \in DOMAIN text :
        /\ i + 1 < j
        /\ text[i] \in ifs \ Spaces
        /\ \A k \in i + 1 .. j - 1 : text[k] \in ifs \cap Spaces
        /\ text[j] \notin ifs

\* expand_field_split makes the fields its comment describes, unless white
\* space follows a hard delimiter; even then no text is lost or joined, and
\* only empty fields are added.
FieldSplitting ==
    Is("split") =>
        \E fields \in {E!expand_field_split(subject.in.text, subject.in.ifs)},
           wanted \in {FieldsOf(subject.in.text, subject.in.ifs)} :
            /\ NonEmpty(fields) = NonEmpty(wanted)
            /\ fields = wanted \/ SpaceAfterHard(subject.in.text, subject.in.ifs)

\* A pattern is a sequence of items: its text is what they spell, and it
\* matches the texts they generate.
Spelled(pat) == FlattenSeq([i \in DOMAIN pat |-> pat[i].text])
Generates(pat, text, dot) ==
    LET gen[i \in 1 .. Len(pat) + 1, j \in 1 .. Len(text) + 1] ==
            IF i > Len(pat)
            THEN j > Len(text)
            ELSE LET wild(k) == ~(dot /\ k = 1 /\ text[k] = ".")
                     one == j <= Len(text) /\ text[j] \in pat[i].set /\ (pat[i].literal \/ wild(j))
                 IN  IF pat[i].star
                     THEN gen[i + 1, j] \/ (j <= Len(text) /\ wild(j) /\ gen[i, j + 1])
                     ELSE one /\ gen[i + 1, j + 1]
    IN  gen[1, 1]

\* glob_util_match, which goes back to the last star only, finds a match
\* whenever there is one, with and without the rule for a leading period.
MatcherIsComplete ==
    Is("pattern") =>
        \A text \in Subjects, flags \in SUBSET {"PERIOD"} :
            E!glob_util_match(Spelled(subject.in), text, flags)
                <=> Generates(subject.in, text, flags # {})

Lengths(pat, text, Part(_, _)) == {n \in 0 .. Len(text) : Generates(pat, Part(text, n), FALSE)}
PrefixOf(text, n) == SubSeq(text, 1, n)
SuffixOf(text, n) == SubSeq(text, Len(text) - n + 1, Len(text))
Without(text, n) == SubSeq(text, n + 1, Len(text))
WithoutEnd(text, n) == SubSeq(text, 1, Len(text) - n)

\* A removal takes away a part of one of the lengths that match, the one that
\* is best; with no match the text stays.
Takes(result, text, lens, Left(_, _), best(_, _)) ==
    IF lens = {} THEN result = text
    ELSE result = Left(text, CHOOSE n \in lens : \A m \in lens : best(n, m))

\* The four removals of pattern_removal.c take the shortest or the longest
\* matching prefix or suffix.
RemovalTakesTheMatch ==
    Is("pattern") /\ subject.in # <<>> =>
        \A text \in Subjects :
            LET pat == Spelled(subject.in)
                pre == Lengths(subject.in, text, PrefixOf)
                suf == Lengths(subject.in, text, SuffixOf)
                least(n, m) == n <= m
                most(n, m) == n >= m
            IN  /\ Takes(E!remove_prefix_smallest(text, pat), text, pre, Without, least)
                /\ Takes(E!remove_prefix_largest(text, pat), text, pre, Without, most)
                /\ Takes(E!remove_suffix_smallest(text, pat), text, suf, WithoutEnd, least)
                /\ Takes(E!remove_suffix_largest(text, pat), text, suf, WithoutEnd, most)

\* A pattern matches the texts it should, and each removal takes the part that
\* the matcher should find.
PatternsMatch == MatcherIsComplete /\ RemovalTakesTheMatch

(***************************************************************************)
(* Words and here-documents, from their text to what they expand to.  A    *)
(* piece has a text, says whether it is quoted, and what it means.         *)
(***************************************************************************)

X == <<"x">>
Ifs == {" ", ":"}
Frame(x) ==
    [vars |-> IF x = <<>> THEN [n \in {} |-> <<>>] ELSE [n \in {X} |-> x[1]],
     env |-> [n \in {} |-> <<>>], readonly |-> {}, params |-> <<<<"a">>>>, arg0 |-> <<"b">>,
     status |-> 0, pid |-> <<"1">>, ifs |-> Ifs, files |-> <<>>]

ValueOf(x) == IF x = <<>> THEN <<>> ELSE x[1]
\* The table of POSIX for the forms with a colon, and for the length.
PieceMeans(piece, x) ==
    CASE piece.means \in {"text", "escape"} -> piece.word
      [] piece.means = "value" -> ValueOf(x)
      [] piece.means \in {"default", "assign"} -> IF ValueOf(x) = <<>> THEN piece.word ELSE ValueOf(x)
      [] piece.means = "alternate" -> IF ValueOf(x) = <<>> THEN <<>> ELSE piece.word
      [] piece.means = "length" -> E!string_from_int(Len(ValueOf(x)))
      [] piece.means = "param" -> <<"a">>
      [] OTHER -> <<"1">>

\* x as the pieces from the n-th on find it: := has been there.
XAt(pieces, x, n) ==
    LET assigned == {i \in 1 .. n - 1 : pieces[i].means = "assign" /\ ValueOf(x) = <<>>}
    IN  IF assigned = {} THEN x ELSE <<pieces[CHOOSE i \in assigned : \A j \in assigned : i <= j].word>>

MeaningOf(pieces, x) ==
    FlattenSeq([i \in DOMAIN pieces |-> PieceMeans(pieces[i], XAt(pieces, x, i))])
TextOf(pieces) == FlattenSeq([i \in DOMAIN pieces |-> pieces[i].text])

\* A field is cut where an unquoted expansion has a delimiter, and one that
\* quotes made is never dropped (docs/field-splitting.md).  The code splits the
\* text of a word as a whole, which is the same only if what stands beside the
\* expansion is neither empty nor has a delimiter.
IsUnquoted(piece) == piece.means # "text" /\ ~piece.quoted
IsSolid(text) == text # <<>> /\ \A i \in DOMAIN text : text[i] \notin Ifs
SplitAsDocumented(pieces, x) ==
    \A i \in DOMAIN pieces : IsUnquoted(pieces[i]) \/ IsSolid(PieceMeans(pieces[i], XAt(pieces, x, i)))

\* A word of literals, quoted text and parameters is read as one token, and
\* expands to what its pieces mean, one after the other: as one field if every
\* expansion in it is quoted, and otherwise to the fields that the delimiters in
\* the expansions make (exec_frame_expander_expand_word on what the lexer makes
\* of the text).  As the target of a redirection it is never split.  Left out,
\* because the code does otherwise (see README): the fields of a word that has
\* blanks or nothing in quotes, or a delimiter in its text, beside an unquoted
\* expansion, and those of SpaceAfterHard.
WordsExpandAsWritten ==
    Is("word") =>
        LET pieces == subject.in.pieces
            split == \E i \in DOMAIN pieces : IsUnquoted(pieces[i])
        IN  \E r \in {Feed(L!lexer_create, Terminated(TextOf(pieces)))},
               meant \in {MeaningOf(pieces, subject.in.x)} :
                /\ r.st = "OK" /\ Len(r.out) = 2 /\ r.out[1].t = "WORD"
                /\ \E fields \in {E!exec_frame_expander_expand_word(Frame(subject.in.x), r.out[1]).fields} :
                       IF split
                       THEN SplitAsDocumented(pieces, subject.in.x) /\ ~SpaceAfterHard(meant, Ifs)
                                => fields = FieldsOf(meant, Ifs)
                       ELSE fields = <<meant>>
                /\ E!expand_redirection_target(Frame(subject.in.x), r.out[1]).text = meant

\* What an escape left is taken for an escape or an expansion again: Once is a
\* piece after the first unescaping.
Once(piece) == IF piece.means \in {"text", "escape"} THEN piece.word ELSE piece.text
IsRearmed(pieces) ==
    \E i \in DOMAIN pieces :
        LET rest == FlattenSeq([j \in 1 .. Len(pieces) - i |-> Once(pieces[i + j])])
            next == Head(rest \o <<"\n">>)
        IN  /\ pieces[i].means = "escape"
            /\ IF Last(pieces[i].word) = "$"
               THEN next \in E!NameChars \cup {"{", "?", "$", "!", "#", "@", "*", "-"}
               ELSE next \in {"$", "grave", "\\", "\n"}

\* The body of a here-document is read to its delimiter, each escape and each
\* parameter in it is taken once, and what a value contains is not expanded
\* again (lexer_process_heredoc_body, expand_heredoc).  Both functions unescape,
\* one after the other: left out are the bodies where an escaped dollar or
\* backslash stands before something that it can act upon (see README).
HereDocsExpandOnce ==
    Is("body") =>
        LET text == <<"c", " ", "<", "<", "E", "\n">> \o TextOf(subject.in.pieces) \o <<"\n", "E", "\n">>
        IN  \E r \in {Feed(L!lexer_create, text)} :
                /\ r.st = "OK"
                /\ Last(r.out).t = "END_OF_HEREDOC"
                /\ ~IsRearmed(subject.in.pieces) =>
                       E!expand_heredoc(Frame(subject.in.x), Last(r.out).here, Last(r.out).quoted)
                           = Terminated(MeaningOf(subject.in.pieces, subject.in.x))

\* Words and the bodies of here-documents expand to what is written in them.
TextExpandsAsWritten == WordsExpandAsWritten /\ HereDocsExpandOnce

(***************************************************************************)
(* Options.  A piece is an option, a cluster or an operand, with the       *)
(* options it stands for, or --, which ends the options.                   *)
(***************************************************************************)

Up(pieces, Stops(_)) ==
    CHOOSE n \in 0 .. Len(pieces) :
        /\ n = Len(pieces) \/ Stops(pieces[n + 1])
        /\ \A i \in 1 .. n : ~Stops(pieces[i])
ArgsOf(pieces) == FlattenSeq([i \in DOMAIN pieces |-> pieces[i].args])
InPlace(piece) == IF piece.operand THEN <<[c |-> "1", arg |-> piece.args, plus |-> FALSE]>> ELSE piece.opts
OptsOf(pieces) == FlattenSeq([i \in DOMAIN pieces |-> pieces[i].opts])
IsOperand(piece) == piece.operand
Ends(piece) == piece.ends

\* What the three orders of getopt.h make of the pieces: the options they
\* deliver and the operands they leave.
Delivered(order, pieces) ==
    LET to == IF order = "+" THEN Up(pieces, LAMBDA p : p.ends \/ p.operand)
              ELSE Up(pieces, Ends)
        front == SubSeq(pieces, 1, to)
        rest == SubSeq(pieces, to + 1, Len(pieces))
        past == IF rest # <<>> /\ rest[1].ends THEN Tail(rest) ELSE rest
    IN  IF order = "-"
        THEN [opts |-> FlattenSeq([i \in DOMAIN front |-> InPlace(front[i])]), left |-> ArgsOf(past)]
        ELSE [opts |-> OptsOf(front),
              left |-> ArgsOf(SelectSeq(front, IsOperand)) \o ArgsOf(past)]

\* No operand has an option or -- after it.
OptionsFirst(pieces) ==
    \A i, j \in DOMAIN pieces : i < j /\ pieces[i].operand => pieces[j].operand

Command == <<"s">>
Letters == <<"a", "e", "o", ":">>
SameOptions(got, wanted) ==
    /\ Len(got) = Len(wanted)
    /\ \A i \in DOMAIN got :
           /\ got[i].c = wanted[i].c
           /\ got[i].arg = wanted[i].arg
           /\ got[i].c # "1" => got[i].plus = wanted[i].plus

Bad(opts) == \E i \in DOMAIN opts : opts[i].c = "?"
\* The options of the shell that are in force after some were switched.
Switched(opts) ==
    FoldLeft(LAMBDA S, o : LET name == IF o.c = "o" THEN o.arg[1][1] ELSE G!ShortNames[o.c]
                           IN  IF o.plus THEN S \ {name} ELSE S \cup {name}, {"verbose"}, opts)

\* However options, clusters, option arguments and operands are mixed, the
\* calls of getopt deliver every option before -- once and in order, with its
\* argument, and leave the operands (getopt_internal_r,
\* advance_to_next_option).  When operands lie between options they are as
\* many as they should be and no more is certain: the callers take them from
\* the arguments as they were, not as getopt reordered them.  builtin_set then
\* switches exactly the options it was given, and changes nothing else if one
\* is unknown, and the shell takes its first operand for a command file.
OptionsAreDelivered ==
    Is("args") =>
        LET pieces == subject.in
            args == <<Command>> \o ArgsOf(pieces)
            Agrees(r, d) ==
                /\ SameOptions(r.got, d.opts)
                /\ Len(G!Operands(args, r.st)) = Len(d.left)
                /\ OptionsFirst(pieces) => G!Operands(args, r.st) = d.left
            Sets(r, d) ==
                IF Bad(d.opts) THEN r.status = 2 /\ r.params = <<X>>
                ELSE /\ r.status = 0
                     /\ r.opts = Switched(d.opts)
                     /\ r.params = IF d.left # <<>> \/ (\E i \in DOMAIN pieces : pieces[i].ends)
                                   THEN d.left ELSE <<X>>
            Starts(r, d) ==
                r = IF Bad(d.opts) THEN [mode |-> "usage"]
                    ELSE IF d.left = <<>> THEN [mode |-> "stdin", args |-> <<>>]
                    ELSE [mode |-> "file", what |-> d.left[1], args |-> Tail(d.left)]
        IN  /\ \A order \in {"", "+", "-"} :
                   Agrees(G!Options(args, IF order = "" THEN Letters ELSE <<order>> \o Letters, <<>>,
                                    FALSE, G!getopt_state_init),
                          Delivered(order, pieces))
            /\ OptionsFirst(pieces) =>
                   /\ Sets(G!builtin_set(args, {"verbose"}, <<X>>), Delivered("", pieces))
                   /\ (\E i \in DOMAIN pieces : pieces[i].args = <<<<"-">>>>)
                      \/ Starts(G!main_arguments(args), Delivered("", pieces))

=============================================================================
