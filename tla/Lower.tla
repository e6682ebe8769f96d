-------------------------------- MODULE Lower -------------------------------
(***************************************************************************)
(* lower.c: the grammar tree of Parser is lowered to the tree that is      *)
(* executed.  Nodes keep the shape [k, x, c]; Nil stands for a null        *)
(* pointer.  A command list is a sequence of items, each with the          *)
(* separator that follows it: END, SEQUENTIAL or BACKGROUND.  Recursion    *)
(* goes through L, the function lower at the end of the module.            *)
(***************************************************************************)
EXTENDS Parser

\* An item of ast_command_list: the command and its separator.
ListItem(node, sep) == [k |-> "ITEM", x |-> sep, c |-> <<node>>]
CommandList(items) == N("COMMAND_LIST", items)

Kids(n, k) == SelectSeq(n.c, LAMBDA m : m.k = k)

RedirType ==
    [op \in FileOps \cup HereOps |->
        CASE op = "<" -> "READ"          [] op = ">" -> "WRITE"
          [] op = ">>" -> "APPEND"       [] op = "<&" -> "FD_DUP_IN"
          [] op = ">&" -> "FD_DUP_OUT"   [] op = "<>" -> "READWRITE"
          [] op = ">|" -> "WRITE_FORCE"  [] op = "<<" -> "FROM_BUFFER"
          [] OTHER -> "FROM_BUFFER_STRIP"]

Digits == {"0", "1", "2", "3", "4", "5", "6", "7", "8", "9"}

determine_target_kind(op, text) ==
    CASE op \in {"<&", ">&"} /\ text = "-" -> "CLOSE"
      [] op \in {"<&", ">&"} /\ text \in Digits -> "FD"
      [] OTHER -> "FILE"

lower_io_redirect(g) ==
    LET target == g.c[2]
        operand == IF target.k = "IO_HERE" THEN "BUFFER"
                   ELSE determine_target_kind(target.x, target.c[1].x)
    IN  [k |-> "REDIRECTION", x |-> RedirType[target.x],
         c |-> <<g.c[1], Leaf(operand, target.c[1].x)>>]

lower_simple_command(g) ==
    LET redirs == Kids(g, "IO_REDIRECT")
    IN  N("SIMPLE", <<N("WORDS", Kids(g, "WORD")),
                      N("REDIRECTIONS", [i \in DOMAIN redirs |-> lower_io_redirect(redirs[i])]),
                      N("ASSIGNMENTS", Kids(g, "ASSIGNMENT"))>>)

separator_from_gseparator_op(g) == IF g.x = "&" THEN "BACKGROUND" ELSE "SEQUENTIAL"

\* One command that is not negated needs no pipeline node.
lower_pipeline(L, g) ==
    LET cmds == [i \in DOMAIN g.c |-> L[g.c[i]]]
    IN  IF \E i \in DOMAIN cmds : cmds[i] = Nil THEN Nil
        ELSE IF Len(cmds) = 1 /\ g.x # "!" THEN cmds[1]
        ELSE [k |-> "PIPELINE", x |-> g.x, c |-> cmds]

lower_and_or(L, g) ==
    IF g.k = "PIPELINE" THEN lower_pipeline(L, g)
    ELSE LET left == L[g.c[1]]
             right == L[g.c[2]]
         IN  IF Nil \in {left, right} THEN Nil
             ELSE [k |-> "AND_OR_LIST", x |-> g.x, c |-> <<left, right>>]

\* The items of a list or term <<cmd, sep, cmd, ...>>: between two commands the
\* separator, if it is looked at at all, or SEQUENTIAL, and END after the last.
SeparatedItems(L, g, looked) ==
    [i \in 1 .. (Len(g.c) + 1) \div 2 |->
        ListItem(L[g.c[2 * i - 1]],
                 CASE 2 * i > Len(g.c) -> "END"
                   [] 2 * i <= Len(g.c) /\ looked -> separator_from_gseparator_op(g.c[2 * i])
                   [] OTHER -> "SEQUENTIAL")]

AnyFailed(items) == \E i \in DOMAIN items : items[i].c[1] = Nil

lower_list(L, g) ==
    LET items == SeparatedItems(L, g, TRUE)
    IN  IF AnyFailed(items) THEN Nil ELSE CommandList(items)

\* Every separator inside a term counts as sequential, & included.
lower_term_as_command_list(L, g) ==
    LET items == SeparatedItems(L, g, FALSE)
    IN  IF AnyFailed(items) THEN Nil ELSE CommandList(items)

\* The separator after the last command replaces the END it got.
SetFinal(list, sep) ==
    IF Nil \in {list, sep} THEN list
    ELSE [list EXCEPT !.c[Len(list.c)].x = separator_from_gseparator_op(sep)]

\* The code does not look for a term that failed to lower, which takes a case
\* clause with an item the grammar does not have; here it fails in turn.
lower_compound_list(L, g) == SetFinal(lower_term_as_command_list(L, g.c[1]), g.c[2])

lower_do_group(L, g) == L[g.c[1]]

lower_subshell(L, g) == N("SUBSHELL", <<L[g.c[1]]>>)

lower_brace_group(L, g) ==
    N("BRACE_GROUP", <<IF g.c[1] = Nil THEN CommandList(<<>>) ELSE L[g.c[1]]>>)

lower_else_part(L, g) ==
    IF g.c[2] = Nil /\ g.c[3] = Nil THEN L[g.c[1]]
    ELSE N("IF", <<L[g.c[1]], L[g.c[2]], IF g.c[3] = Nil THEN Nil ELSE L[g.c[3]]>>)

lower_if_clause(L, g) ==
    N("IF", <<L[g.c[1]], L[g.c[2]], IF g.c[3] = Nil THEN Nil ELSE L[g.c[3]]>>)

lower_while_clause(L, g) == N("WHILE", <<L[g.c[1]], lower_do_group(L, g.c[2])>>)

lower_until_clause(L, g) == N("UNTIL", <<L[g.c[1]], lower_do_group(L, g.c[2])>>)

lower_for_clause(L, g) ==
    [k |-> "FOR", x |-> g.x,
     c |-> <<IF g.c[1] = Nil \/ g.c[1].c[1].c = <<>> THEN Nil ELSE g.c[1].c[1],
             lower_do_group(L, g.c[2])>>]

lower_case_item(L, g) ==
    [k |-> "CASE_ITEM", x |-> IF g.k = "CASE_ITEM" THEN "BREAK" ELSE "NONE",
     c |-> <<g.c[1], IF g.c[2] = Nil THEN Nil ELSE L[g.c[2]]>>]

\* An item of another kind (the list inside a case_list_ns) fails the clause.
lower_case_clause(L, g) ==
    LET items == g.c[1].c
    IN  IF \E i \in DOMAIN items : items[i].k \notin {"CASE_ITEM", "CASE_ITEM_NS"} THEN Nil
        ELSE [k |-> "CASE", x |-> g.x, c |-> [i \in DOMAIN items |-> lower_case_item(L, items[i])]]

lower_compound_command(L, g) ==
    CASE g.k = "SUBSHELL" -> lower_subshell(L, g)
      [] g.k = "BRACE_GROUP" -> lower_brace_group(L, g)
      [] g.k = "FOR_CLAUSE" -> lower_for_clause(L, g)
      [] g.k = "CASE_CLAUSE" -> lower_case_clause(L, g)
      [] g.k = "IF_CLAUSE" -> lower_if_clause(L, g)
      [] g.k = "WHILE_CLAUSE" -> lower_while_clause(L, g)
      [] g.k = "UNTIL_CLAUSE" -> lower_until_clause(L, g)

lower_function_definition(L, g) ==
    LET body == g.c[1]
        redirs == body.c[2].c
    IN  IF body.k = "FUNCTION_BODY"
        THEN [k |-> "FUNCTION_DEF", x |-> g.x,
              c |-> <<lower_compound_command(L, body.c[1]),
                      N("REDIRECTIONS", [i \in DOMAIN redirs |-> lower_io_redirect(redirs[i])])>>]
        ELSE [k |-> "FUNCTION_DEF", x |-> g.x, c |-> <<lower_compound_command(L, body), Nil>>]

\* A COMMAND wrapper is a compound command with redirections: only the command
\* is lowered, its redirections are dropped.
lower_command(L, g) ==
    CASE g.k = "SIMPLE_COMMAND" -> lower_simple_command(g)
      [] g.k = "FUNCTION_DEFINITION" -> lower_function_definition(L, g)
      [] g.k = "COMMAND" -> lower_compound_command(L, g.c[1])
      [] OTHER -> lower_compound_command(L, g)

\* A single command with no separator of its own needs no list.
lower_complete_command(L, g) ==
    LET list == lower_list(L, g.c[1])
        final == SetFinal(list, g.c[2])
    IN  IF list = Nil THEN Nil
        ELSE IF Len(final.c) = 1 /\ final.c[1].x = "END" THEN final.c[1].c[1]
        ELSE final

ItemsOf(node) ==
    IF node.k = "COMMAND_LIST" THEN node.c ELSE <<ListItem(node, "END")>>

lower_complete_commands(L, g) ==
    LET cmds == [i \in DOMAIN g.c |-> lower_complete_command(L, g.c[i])]
    IN  IF \E i \in DOMAIN cmds : cmds[i] = Nil THEN Nil
        ELSE CommandList(FlattenSeq([i \in DOMAIN cmds |-> ItemsOf(cmds[i])]))

\* The grammar trees up to a depth, and the bound on it that lower has.
Trees[d \in Nat] ==
    IF d = 0 THEN {Nil} ELSE [k : STRING, x : STRING, c : Seq(Trees[d - 1])]

MaxDepth == 40
Gnodes == Trees[MaxDepth]

lower[g \in Gnodes] ==
    CASE g.k = "COMPLETE_COMMANDS" -> lower_complete_commands(lower, g)
      [] g.k \in {"PIPELINE", "AND_OR"} -> lower_and_or(lower, g)
      [] g.k = "COMPOUND_LIST" -> lower_compound_list(lower, g)
      [] g.k = "ELSE_PART" -> lower_else_part(lower, g)
      [] OTHER -> lower_command(lower, g)

ast_lower(g) == IF g.c = <<>> THEN Nil ELSE lower[g.c[1]]
=============================================================================
