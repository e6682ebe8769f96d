---------------------------- MODULE MCAlgorithms ----------------------------
(***************************************************************************)
(* Inputs for the algorithms: everything that can be put together from a   *)
(* few pieces, so that quotes, expansions and here-documents open in one   *)
(* line and close in the next, operators of every level meet, patterns     *)
(* have several stars, and fields have delimiters of both kinds.           *)
(***************************************************************************)
EXTENDS Algorithms

\* Sequences of at most n members of a set.
UpTo(S, n) == UNION {[1 .. k -> S] : k \in 0 .. n}
Joined(pieces, n) == {FlattenSeq(s) : s \in UpTo(pieces, n)}

MCLines ==
    Joined({<<"a">>, <<" ">>, <<"'">>, <<"\"">>, <<"$", "x">>, <<"\\">>, <<" ", "<", "<", "E">>,
            <<"E">>, <<"$", "{", "x">>, <<"}">>, <<";">>, <<"$", "(">>}, 2)

MCQuotedTexts == UpTo({"a", "'", "\"", "$", "\\", "\n", "E"}, 4)

Num(text, v) == [k |-> "leaf", op |-> "", chars |-> <<>>, args |-> <<>>, text |-> text, v |-> v]
Un(op, chars, x) == [k |-> "unary", op |-> op, chars |-> chars, args |-> <<x>>, text |-> <<>>, v |-> 0]
Bin(op, chars, x, y) == [k |-> "binary", op |-> op, chars |-> chars, args |-> <<x, y>>, text |-> <<>>, v |-> 0]
Cond(x, y, z) == [k |-> "ternary", op |-> "?", chars |-> <<>>, args |-> <<x, y, z>>, text |-> <<>>, v |-> 0]

\* The variable e is the smallest number.
MCVariables == [n \in {<<"e">>} |-> -Half]
MCLeaves == {Num(<<"2">>, 2), Num(<<"e">>, -Half), Un("-", <<"-">>, Num(<<"1">>, 1))}
Binaries ==
    {<<"*", <<"*">>>>, <<"/", <<"/">>>>, <<"%", <<"%">>>>, <<"+", <<"+">>>>, <<"-", <<"-">>>>,
     <<"<<", <<"<", "<">>>>, <<">", <<">">>>>, <<"==", <<"=", "=">>>>, <<"&", <<"&">>>>,
     <<"^", <<"^">>>>, <<"|", <<"|">>>>, <<"&&", <<"&", "&">>>>, <<"||", <<"|", "|">>>>}
Simple == {Bin(o[1], o[2], x, y) : o \in Binaries, x, y \in MCLeaves}
MCTrees ==
    Simple \cup {Bin(o[1], o[2], x, y) : o \in Binaries, x \in MCLeaves, y \in Simple}
           \cup {Bin(o[1], o[2], y, x) : o \in Binaries, x \in MCLeaves, y \in Simple}
           \cup {Un(o, <<o>>, y) : o \in UnaryOps, y \in Simple}
           \cup {Cond(x, y, z) : x, z \in MCLeaves, y \in Simple}
           \cup {Cond(y, x, z) : x, z \in MCLeaves, y \in Simple}
           \cup {Bin(o[1], o[2], Num(<<"2">>, 2), Cond(x, Num(<<"2">>, 2), y)) : o \in Binaries, x, y \in MCLeaves}

MCSplitTexts == UpTo({"a", ":", " "}, 6)

Item(text, set, star, literal) == [text |-> text, set |-> set, star |-> star, literal |-> literal]
MCPatterns ==
    UpTo({Item(<<"a">>, {"a"}, FALSE, TRUE), Item(<<".">>, {"."}, FALSE, TRUE),
          Item(<<"*">>, {}, TRUE, FALSE), Item(<<"?">>, {"a", "b", ".", "*"}, FALSE, FALSE),
          Item(<<"[", "!", "a", "]">>, {"b", ".", "*"}, FALSE, FALSE),
          Item(<<"\\", "*">>, {"*"}, FALSE, TRUE)}, 4)
MCSubjects == UpTo({"a", "b", "."}, 3) \cup {<<"*">>, <<"a", "*">>, <<"a", "a", "b", "a">>}

Piece(text, quoted, means, word) == [text |-> text, quoted |-> quoted, means |-> means, word |-> word]
MCWordPieces ==
    {Piece(<<"a">>, FALSE, "text", <<"a">>),
     Piece(<<"*">>, FALSE, "text", <<"*">>),
     Piece(<<"'", " ", "$", "x", "'">>, TRUE, "text", <<" ", "$", "x">>),
     Piece(<<"\"", "$", "x", "\"">>, TRUE, "value", <<>>),
     Piece(<<"$", "{", "x", "}">>, FALSE, "value", <<>>),
     Piece(<<"\"", "$", "{", "x", ":", "-", "b", " ", "}", "\"">>, TRUE, "default", <<"b", " ">>),
     Piece(<<"$", "{", "x", ":", "=", "b", ":", "c", "}">>, FALSE, "assign", <<"b", ":", "c">>),
     Piece(<<"\"", "$", "{", "x", ":", "+", "c", "}", "\"">>, TRUE, "alternate", <<"c">>),
     Piece(<<"$", "{", "#", "x", "}">>, FALSE, "length", <<>>)}
MCValues == {<<>>, <<<<>>>>, <<<<"a">>>>, <<<<" ", "a", ":", "b">>>>, <<<<"$", "1">>>>}

MCBodyPieces ==
    {Piece(<<"a", "\n">>, TRUE, "text", <<"a", "\n">>),
     Piece(<<"'", "$", " ">>, TRUE, "text", <<"'", "$", " ">>),
     Piece(<<"$", "{", "x", "}">>, TRUE, "value", <<>>),
     Piece(<<"$", "{", "1", "}">>, TRUE, "param", <<>>),
     Piece(<<"$", "#">>, TRUE, "count", <<>>),
     Piece(<<"\\", "a">>, TRUE, "text", <<"\\", "a">>),
     Piece(<<"\\", "\n">>, TRUE, "text", <<>>),
     Piece(<<"\\", "$">>, TRUE, "escape", <<"$">>),
     Piece(<<"\\", "\\">>, TRUE, "escape", <<"\\">>)}

Opt(c, arg, plus) == [c |-> c, arg |-> arg, plus |-> plus]
Means(args, opts) == [args |-> args, opts |-> opts, operand |-> FALSE, ends |-> FALSE]
Stands(arg) == [args |-> <<arg>>, opts |-> <<>>, operand |-> TRUE, ends |-> FALSE]
MCArgPieces ==
    {Means(<<<<"-", "a">>>>, <<Opt("a", <<>>, FALSE)>>),
     Means(<<<<"-", "e", "a">>>>, <<Opt("e", <<>>, FALSE), Opt("a", <<>>, FALSE)>>),
     Means(<<<<"+", "a">>>>, <<Opt("a", <<>>, TRUE)>>),
     Means(<<<<"-", "o", "vi">>>>, <<Opt("o", <<<<"vi">>>>, FALSE)>>),
     Means(<<<<"-", "e", "o">>, <<"pipefail">>>>, <<Opt("e", <<>>, FALSE), Opt("o", <<<<"pipefail">>>>, FALSE)>>),
     Means(<<<<"-", "z">>>>, <<Opt("?", <<>>, FALSE)>>),
     Stands(<<"x">>), Stands(<<"-">>), Stands(<<"y", "-">>),
     [args |-> <<<<"-", "-">>>>, opts |-> <<>>, operand |-> FALSE, ends |-> TRUE]}
=============================================================================
