----------------------------- MODULE MCSession ------------------------------
(***************************************************************************)
(* The read-execute loop on lines that open, continue and close every kind *)
(* of construct, in any order.                                             *)
(***************************************************************************)
EXTENDS Session

L(e) == [e |-> e, nl |-> TRUE]

W == Word("w")
K(x) == Word(x)

MCLines ==
    {L(<<>>), L(<<W>>), L(<<W, Tok(";"), K("if"), W>>), L(<<K("if"), W>>),
     L(<<K("then"), W>>), L(<<K("else"), W>>), L(<<K("fi")>>),
     L(<<K("{"), W>>), L(<<K("}")>>), L(<<Tok("("), W>>), L(<<Tok(")")>>),
     L(<<K("f"), Tok("("), Tok(")")>>), L(<<W, Tok("&&")>>), L(<<W, Tok("|"), W>>),
     L(<<W, Quote>>), L(<<Quote, W>>), L(<<K("}"), Quote>>),
     L(<<W, Tok("<<"), Delimiter>>), L(<<Delimiter>>),
     L(<<K("while"), W>>), L(<<K("do"), W>>), L(<<K("done")>>),
     L(<<K("for"), K("if"), K("in"), W>>),
     L(<<K("case"), W, K("in")>>), L(<<K("esac"), Tok(")"), W, Tok(";;")>>), L(<<K("esac")>>),
     [e |-> <<>>, nl |-> FALSE], [e |-> <<W>>, nl |-> FALSE], [e |-> <<K("fi")>>, nl |-> FALSE],
     [e |-> <<W, Quote>>, nl |-> FALSE], [e |-> <<K("if"), W>>, nl |-> FALSE],
     [e |-> <<W, Tok("&&")>>, nl |-> FALSE], [e |-> <<Delimiter>>, nl |-> FALSE]}
=============================================================================
