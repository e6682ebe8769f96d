----------------------------- MODULE Arithmetic -----------------------------
(***************************************************************************)
(* arithmetic.c: $((...)).  The text is lexed as shell input, the words    *)
(* that come out are expanded and joined, and the result is evaluated by   *)
(* precedence climbing while it is parsed.                                 *)
(*                                                                         *)
(* An evaluation state s is [st, p, v, vars]: the status, the position in  *)
(* the text, the value so far and the variables.  TRAP is the signal the   *)
(* processor raises when the quotient does not fit.                        *)
(***************************************************************************)
EXTENDS Integers, SequencesExt, Bitwise

CONSTANTS Width,          \* the bits of a long
          MaxExpansions   \* the bound of the tokenizer's alias expansions

ASSUME WidthAssumption == Width \in Nat \ {0, 1}

L == INSTANCE Lexer
T == INSTANCE Tokenizer

Modulus == 2^Width
Half == 2^(Width - 1)

\* Signed overflow: the build wraps.
Wrap(n) == ((n + Half) % Modulus) - Half
Bits(n) == n % Modulus
Truth(b) == IF b THEN 1 ELSE 0

AbsVal(n) == IF n < 0 THEN -n ELSE n
\* The quotient of C is rounded toward zero.
Quotient(a, b) ==
    LET q == AbsVal(a) \div AbsVal(b)
    IN  IF (a < 0) = (b < 0) THEN q ELSE -q

\* The processor takes the shift count modulo the width.
ShiftLeft(a, n) == Wrap(a * 2^(n % Width))
ShiftRight(a, n) == a \div 2^(n % Width)

(***************************************************************************)
(* The tokens of an expression.                                            *)
(***************************************************************************)

Spaces == {" ", "\t", "\n"}
HexDigits == <<"0", "1", "2", "3", "4", "5", "6", "7", "8", "9", "a", "b", "c", "d", "e", "f">>
DigitsOf(base) == {HexDigits[i] : i \in 1 .. base}
DigitValue(c) == CHOOSE i \in 0 .. 15 : HexDigits[i + 1] = c

Number(text, base) == FoldLeft(LAMBDA n, c : Wrap(n * base + DigitValue(c)), 0, text)

AssignOps == {"=", "*=", "/=", "%=", "+=", "-=", "<<=", ">>=", "&=", "^=", "|="}
UnaryOps == {"+", "-", "~", "!"}

OpText(chars, t) == [text |-> chars, t |-> t]
\* get_token takes the longest operator that fits.
MathOperators ==
    {OpText(<<"(">>, "("), OpText(<<")">>, ")"), OpText(<<"+", "=">>, "+="), OpText(<<"+">>, "+"),
     OpText(<<"-", "=">>, "-="), OpText(<<"-">>, "-"), OpText(<<"*", "=">>, "*="),
     OpText(<<"*">>, "*"), OpText(<<"/", "=">>, "/="), OpText(<<"/">>, "/"),
     OpText(<<"%", "=">>, "%="), OpText(<<"%">>, "%"), OpText(<<"~">>, "~"),
     OpText(<<"!", "=">>, "!="), OpText(<<"!">>, "!"), OpText(<<"<", "<", "=">>, "<<="),
     OpText(<<"<", "<">>, "<<"), OpText(<<"<", "=">>, "<="), OpText(<<"<">>, "<"),
     OpText(<<">", ">", "=">>, ">>="), OpText(<<">", ">">>, ">>"), OpText(<<">", "=">>, ">="),
     OpText(<<">">>, ">"), OpText(<<"=", "=">>, "=="), OpText(<<"=">>, "="),
     OpText(<<"&", "&">>, "&&"), OpText(<<"&", "=">>, "&="), OpText(<<"&">>, "&"),
     OpText(<<"^", "=">>, "^="), OpText(<<"^">>, "^"), OpText(<<"|", "|">>, "||"),
     OpText(<<"|", "=">>, "|="), OpText(<<"|">>, "|"), OpText(<<"?">>, "?"),
     OpText(<<":">>, ":"), OpText(<<",">>, ",")}

MathTok(t, v, p) == [t |-> t, v |-> v, p |-> p]

\* A 0 before a digit that is not octal is a number of its own.
NumberToken(text, p) ==
    LET c2 == L!CharAt(text, p + 1)
        base == CASE text[p] = "0" /\ c2 \in {"x", "X"} -> 16
                  [] text[p] = "0" /\ c2 \in DigitsOf(8) -> 8
                  [] OTHER -> 10
        start == IF base = 16 THEN p + 2 ELSE p
        end == IF base = 10 /\ text[p] = "0" THEN p + 1
               ELSE L!SkipWhile(text, start, DigitsOf(base))
    IN  MathTok("NUMBER", Number(SubSeq(text, start, end - 1), base), end)

OperatorToken(text, p) ==
    LET fits == {o \in MathOperators : L!HasAt(text, p, o.text)}
        best == CHOOSE o \in fits : \A other \in fits : Len(other.text) <= Len(o.text)
    IN  IF fits = {} THEN MathTok("EOF", 0, p + 1) ELSE MathTok(best.t, 0, p + Len(best.text))

NameChars == L!Alpha \cup L!Digit \cup {"_"}

\* A character that starts no token reads as the end of the expression.
get_token(text, p0) ==
    LET p == L!SkipWhile(text, p0, Spaces)
        c == L!CharAt(text, p)
        end == L!SkipWhile(text, p, NameChars)
    IN  CASE c = "" -> MathTok("EOF", 0, p)
          [] c \in L!Digit -> NumberToken(text, p)
          [] L!is_name_start_char(c) -> MathTok("VARIABLE", SubSeq(text, p, end - 1), end)
          [] OTHER -> OperatorToken(text, p)

get_precedence(t) ==
    CASE t = "," -> 1
      [] t = "?" -> 3
      [] t = "||" -> 4
      [] t = "&&" -> 5
      [] t = "|" -> 6
      [] t = "^" -> 7
      [] t = "&" -> 8
      [] t \in {"==", "!="} -> 9
      [] t \in {"<", ">", "<=", ">="} -> 10
      [] t \in {"<<", ">>"} -> 11
      [] t \in {"+", "-"} -> 12
      [] t \in {"*", "/", "%"} -> 13
      [] OTHER -> -1

(***************************************************************************)
(* Evaluation.                                                             *)
(***************************************************************************)

\* The operator and the compound assignment apply the same operation.
Apply(op, a, b) ==
    CASE op = "*" -> Wrap(a * b)
      [] op = "/" -> Quotient(a, b)
      [] op = "%" -> a - b * Quotient(a, b)
      [] op = "+" -> Wrap(a + b)
      [] op = "-" -> Wrap(a - b)
      [] op = "<<" -> ShiftLeft(a, b)
      [] op = ">>" -> ShiftRight(a, b)
      [] op = "<" -> Truth(a < b)
      [] op = ">" -> Truth(a > b)
      [] op = "<=" -> Truth(a <= b)
      [] op = ">=" -> Truth(a >= b)
      [] op = "==" -> Truth(a = b)
      [] op = "!=" -> Truth(a # b)
      [] op = "&" -> Wrap(Bits(a) & Bits(b))
      [] op = "^" -> Wrap(Bits(a) ^^ Bits(b))
      [] op = "|" -> Wrap(Bits(a) | Bits(b))
      [] op = "&&" -> Truth(a # 0 /\ b # 0)
      [] op = "||" -> Truth(a # 0 \/ b # 0)

Divides(op) == op \in {"/", "%"}
\* The division of the smallest number by -1 is not looked for.
Overflows(op, a, b) == Divides(op) /\ a = -Half /\ b = -1

Unary(op, a) ==
    CASE op = "+" -> a
      [] op = "-" -> Wrap(-a)
      [] op = "~" -> -a - 1
      [] op = "!" -> Truth(a = 0)

\* The state after the operation on a and the value of s.
Operate(op, a, s) ==
    CASE Divides(op) /\ s.v = 0 -> [s EXCEPT !.st = "ERROR"]
      [] Overflows(op, a, s.v) -> [s EXCEPT !.st = "TRAP"]
      [] OTHER -> [s EXCEPT !.v = Apply(op, a, s.v)]

Ok(s, F(_)) == IF s.st = "OK" THEN F(s) ELSE s
Fail(s) == [s EXCEPT !.st = "ERROR"]
MoveTo(s, p) == [s EXCEPT !.p = p]

\* The operation of a compound assignment.
OperationOf(op) ==
    CASE op = "*=" -> "*" [] op = "/=" -> "/" [] op = "%=" -> "%" [] op = "+=" -> "+"
      [] op = "-=" -> "-" [] op = "<<=" -> "<<" [] op = ">>=" -> ">>" [] op = "&=" -> "&"
      [] op = "^=" -> "^" [] op = "|=" -> "|"

Store(s, name) == [s EXCEPT !.vars[name] = s.v]

\* The recursive calls go through G, the function parse_expression below: its
\* first argument tells the expression from the rest, its loop.

\* name op expression.  The variable is read after the expression.
Assignment(G, s, name, op, p) ==
    Ok(G["expression", 0, MoveTo(s, p)],
       LAMBDA r : IF op = "="
                  THEN Store(r, name)
                  ELSE Ok(Operate(OperationOf(op), r.vars[name], r),
                          LAMBDA q : Store(q, name)))

Parenthesised(G, text, s) ==
    Ok(G["expression", 0, s],
       LAMBDA r : IF get_token(text, r.p).t = ")" THEN MoveTo(r, get_token(text, r.p).p) ELSE Fail(r))

parse_primary(G, text, s) ==
    LET tok == get_token(text, s.p)
        next == get_token(text, tok.p)
    IN  CASE tok.t = "NUMBER" -> [s EXCEPT !.p = tok.p, !.v = tok.v]
          [] tok.t = "VARIABLE" /\ next.t \notin AssignOps ->
                 [s EXCEPT !.p = tok.p, !.v = s.vars[tok.v]]
          [] tok.t = "VARIABLE" /\ next.t \in AssignOps ->
                 Assignment(G, s, tok.v, next.t, next.p)
          [] tok.t = "(" -> Parenthesised(G, text, MoveTo(s, tok.p))
          [] OTHER -> Fail(s)

\* Both branches are evaluated, whatever the condition is.
Ternary(G, text, s, p) ==
    Ok(G["expression", 0, MoveTo(s, p)],
       LAMBDA yes :
           IF get_token(text, yes.p).t # ":"
           THEN Fail(yes)
           ELSE Ok(G["expression", 3, MoveTo(yes, get_token(text, yes.p).p)],
                   LAMBDA no : [no EXCEPT !.v = IF s.v # 0 THEN yes.v ELSE no.v]))

\* The operator tok after the value of s, and what follows it.  A logical
\* operator that the left operand decides returns with the right operand
\* unread.  The comma keeps the left value.
Operator(G, text, s, tok, min) ==
    CASE tok.t = "?" -> Ok(Ternary(G, text, s, tok.p), LAMBDA r : G["rest", min, r])
      [] tok.t = "," ->
             Ok(G["expression", 2, MoveTo(s, tok.p)],
                LAMBDA r : G["rest", min, [r EXCEPT !.v = s.v]])
      [] tok.t \in {"||", "&&"} /\ (tok.t = "||") = (s.v # 0) -> MoveTo(s, tok.p)
      [] OTHER ->
             Ok(G["expression", get_precedence(tok.t) + 1, MoveTo(s, tok.p)],
                LAMBDA r : Ok(Operate(tok.t, s.v, r), LAMBDA q : G["rest", min, q]))

Operand(G, text, s, tok) ==
    IF tok.t \in UnaryOps
    THEN Ok(G["expression", 14, MoveTo(s, tok.p)], LAMBDA r : [r EXCEPT !.v = Unary(tok.t, r.v)])
    ELSE parse_primary(G, text, s)

\* Mutant: an operator of the least level asked for is left to the caller.
RestAboveLevel(G, text, s, tok, min) ==
    IF get_precedence(tok.t) <= min THEN s ELSE Operator(G, text, s, tok, min)

\* One round of the loop: an operator that binds too loosely is left to the
\* caller.
Rest(G, text, s, tok, min) ==
    IF get_precedence(tok.t) < min THEN s ELSE Operator(G, text, s, tok, min)

EvalStates(names) == [st : STRING, p : Nat, v : Int, vars : [names -> Int]]

parse_expression(text, names) ==
    LET parse[part \in STRING, min \in Nat, s \in EvalStates(names)] ==
            IF part = "expression"
            THEN Ok(Operand(parse, text, s, get_token(text, s.p)), LAMBDA r : parse["rest", min, r])
            ELSE Rest(parse, text, s, get_token(text, s.p), min)
    IN  parse

\* The end of arithmetic_evaluate.  A variable that is not set reads 0.
Evaluate(text, vars) ==
    LET r == parse_expression(text, DOMAIN vars)
                 ["expression", 0, [st |-> "OK", p |-> 1, v |-> 0, vars |-> vars]]
    IN  CASE text = <<>> -> [st |-> "OK", p |-> 1, v |-> 0, vars |-> vars]
          [] text # <<>> /\ r.st = "OK" /\ get_token(text, r.p).t # "EOF" -> Fail(r)
          [] OTHER -> r

(***************************************************************************)
(* What becomes of the text before it is evaluated.                        *)
(***************************************************************************)

\* The words the tokenizer knows by name, as far as instances use them.
Spelling(text) ==
    CASE text = <<"!">> -> "!" [] text = <<"{">> -> "{" [] text = <<"}">> -> "}"
      [] Len(text) = 1 /\ text[1] \in L!Digit -> text[1]
      [] OTHER -> "word"

PartText(parts) == FlattenSeq([i \in DOMAIN parts |-> parts[i].v])

ShellToken(tok) ==
    [t |-> tok.t, x |-> IF tok.t = "WORD" THEN Spelling(PartText(tok.parts)) ELSE "",
     parts |-> tok.parts]

\* exec_frame_expander_expand_word on the words of an expression: literal text
\* and plain parameters, whose values are given as text.  The fields a word is
\* split into are joined again, so that blanks disappear.
ExpandPart(part, env) ==
    CASE part.k = "LIT" -> part.v
      [] part.k = "PARAM" /\ part.v \in DOMAIN env -> env[part.v]
      [] OTHER -> <<>>

ExpandWord(tok, env) ==
    SelectSeq(FlattenSeq([i \in DOMAIN tok.parts |-> ExpandPart(tok.parts[i], env)]),
              LAMBDA c : c \notin Spaces)

\* Only words are kept: operators of the shell, assignments, IO numbers and
\* reserved words are dropped.
WordsOf(toks, env) ==
    FlattenSeq([i \in DOMAIN toks |-> IF toks[i].t = "WORD" THEN ExpandWord(toks[i], env) ELSE <<>>])

\* The text of an expression is expanded, without error, to e.
arithmetic_expand_expression(text, env, e) ==
    \E lexed \in {L!lexer_tokenize(L!lexer_append_input(L!lexer_create, text))} :
    \E toks \in {T!tokenizer_process(T!tokenizer_create,
                                     [i \in DOMAIN lexed.out |-> ShellToken(lexed.out[i])], <<>>)} :
        lexed.st = "OK" /\ toks.st # "ABORT" /\ e = WordsOf(toks.out, env)

=============================================================================
