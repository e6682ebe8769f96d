------------------------------- MODULE Session ------------------------------
(***************************************************************************)
(* The read-execute loop of exec.c with the parse session it keeps between *)
(* lines (parse_session.c) and exec_frame_string_core, which takes one     *)
(* line through lexer, tokenizer, parser and lowering and runs the result. *)
(*                                                                         *)
(* A line is a sequence of elements, tokens or a single quote, and says    *)
(* whether a newline ends it (the last line of a file may have none).  At  *)
(* this level the lexer is its modes: inside quotes and inside the body of *)
(* a here-document elements are content, elsewhere they are tokens.        *)
(* Running a command is a choice of its outcome; Frames models it.         *)
(***************************************************************************)
EXTENDS Lower, Tokenizer

CONSTANTS
    Lines,          \* the lines the input may hold
    MaxPending,     \* bound on the tokens read since the session was last fresh
    IGNOREEOF_MAX   \* consecutive ends of file that ignoreeof puts up with

ASSUME SessionAssumption ==
    /\ MaxPending \in Nat
    /\ IGNOREEOF_MAX \in Nat \ {0}
    /\ \A l \in Lines : {"e", "nl"} \subseteq DOMAIN l /\ l.nl \in BOOLEAN

VARIABLES
    lexer,              \* [mode, heredocs]: lexer_t's mode and heredoc_queue
    accumulated_tokens, \* of the session
    tokenizer,          \* [buf, stack] of the session's tokenizer
    need_continuation,  \* the loop's: the next prompt is PS2
    consecutive_eof,    \* the loop's
    result,             \* final_result, "none" while the loop runs
    options,            \* [interactive, ignoreeof, errexit]; the loop looks at
                        \* ignoreeof only if interactive, at errexit only if not
    read,               \* history: tokens read since the session was fresh
    lost,               \* history: some of them were thrown away unparsed
    ran,                \* history: what the last line ran, Nil if nothing
    unended             \* history: ignoreeof kept the loop going after a line
                        \* that no newline ended and that ran nothing

session == <<lexer, accumulated_tokens, tokenizer>>
vars == <<lexer, accumulated_tokens, tokenizer, need_continuation,
          consecutive_eof, result, options, read, lost, ran, unended>>

(***************************************************************************)
(* The lexer, element by element.                                          *)
(***************************************************************************)

Quote == Tok("'")
Delimiter == Word("E")

lexer_create == [mode |-> "normal", heredocs |-> 0]

\* One element in normal mode or inside quotes.  The operator << queues a
\* here-document; its delimiter is the word that follows.
LexElement(lx, e) ==
    CASE lx.mode = "squote" /\ e = Quote ->
             [lx EXCEPT !.mode = "normal", !.toks = Append(@, Word("quoted"))]
      [] lx.mode = "squote" /\ e # Quote -> lx
      [] lx.mode = "normal" /\ e = Quote -> [lx EXCEPT !.mode = "squote"]
      [] OTHER -> [lx EXCEPT !.toks = Append(@, e),
                             !.heredocs = IF e.t = "<<" THEN @ + 1 ELSE @]

\* The end of a line: a newline is a token in normal mode only, and starts the
\* bodies of the here-documents that are queued.
LexNewline(lx, nl) ==
    IF ~nl \/ lx.mode # "normal" THEN lx
    ELSE [lx EXCEPT !.toks = Append(@, Tok("NEWLINE")),
                    !.mode = IF lx.heredocs > 0 THEN "heredoc" ELSE "normal"]

\* A line of a here-document's body.  The delimiter is looked for at every
\* position, so that a line that ends in it ends the body.
HeredocEnds(e) == e # <<>> /\ Last(e) = Delimiter

LexBody(lx, line) ==
    IF ~HeredocEnds(line.e) THEN [lx EXCEPT !.toks = <<>>]
    ELSE [mode |-> IF lx.heredocs = 1 THEN "normal" ELSE "heredoc",
          heredocs |-> lx.heredocs - 1,
          toks |-> <<[t |-> "END_OF_HEREDOC", x |-> "body"]>>]

\* [st, lx, toks] for what a line left.  A delimiter that ends the file without
\* a newline makes the lexer read past its input.
Lexed(line, body, end) ==
    [st |-> CASE body /\ HeredocEnds(line.e) /\ ~line.nl -> "ABORT"
              [] ~(body /\ HeredocEnds(line.e) /\ ~line.nl) /\ end.mode = "normal" -> "OK"
              [] OTHER -> "INCOMPLETE",
     lx |-> [mode |-> end.mode, heredocs |-> end.heredocs],
     toks |-> end.toks]

lexer_tokenize(lx, line) ==
    LET start == [mode |-> lx.mode, heredocs |-> lx.heredocs, toks |-> <<>>]
    IN  IF lx.mode = "heredoc" THEN Lexed(line, TRUE, LexBody(start, line))
        ELSE Lexed(line, FALSE, LexNewline(FoldLeft(LexElement, start, line.e), line.nl))

(***************************************************************************)
(* exec_frame_string_core.  The aliases of a session are an empty store of *)
(* its own: the executor's were moved into the top frame before.           *)
(***************************************************************************)

NoAliases == [x \in {} |-> <<>>]

Core(st, lx, acc, tk, ast, thrown) ==
    [st |-> st, lx |-> lx, acc |-> acc, tk |-> tk, ast |-> ast, lost |-> thrown]

\* With a lexer that wants more, the tokens it has are kept for later.
KeepTokens(lex, tok) ==
    IF lex.toks = <<>>
    THEN Core("INCOMPLETE", lex.lx, accumulated_tokens, tokenizer, Nil, FALSE)
    ELSE IF tok.st = "OK"
    THEN Core("INCOMPLETE", lex.lx, accumulated_tokens \o tok.out, tok.tk, Nil, FALSE)
    ELSE Core(tok.st, lex.lx, accumulated_tokens, tok.tk, Nil,
              tok.st = "INCOMPLETE" /\ tok.out # <<>>)

\* Mutant: only the tokens the parser had not consumed are kept.
AfterParserRest(lx, tk, parse) ==
    CASE parse.st = "INCOMPLETE" ->
             Core("INCOMPLETE", lx, SubSeq(parse.p.toks, parse.p.pos, Len(parse.p.toks)),
                  tk, Nil, FALSE)
      [] parse.st \in {"ERROR", "ABORT"} -> Core(parse.st, lx, <<>>, tk, Nil, FALSE)
      [] parse.st = "EMPTY" \/ parse.n.c = <<>> -> Core("EMPTY", lx, <<>>, tk, Nil, FALSE)
      [] OTHER -> Core("RUN", lx, <<>>, tk, ast_lower(parse.n), FALSE)

\* The parser's tokens, promotions included, are kept if it wants more.
AfterParser(lx, tk, parse) ==
    CASE parse.st = "INCOMPLETE" -> Core("INCOMPLETE", lx, parse.p.toks, tk, Nil, FALSE)
      [] parse.st \in {"ERROR", "ABORT"} -> Core(parse.st, lx, <<>>, tk, Nil, FALSE)
      [] parse.st = "EMPTY" \/ parse.n.c = <<>> -> Core("EMPTY", lx, <<>>, tk, Nil, FALSE)
      [] OTHER -> Core("RUN", lx, <<>>, tk, ast_lower(parse.n), FALSE)

AfterTokenizer(lex, tok) ==
    CASE lex.st = "ABORT" -> Core("ABORT", lex.lx, <<>>, tokenizer, Nil, FALSE)
      [] lex.st = "INCOMPLETE" -> KeepTokens(lex, tok)
      [] lex.st = "OK" /\ tok.st # "OK" ->
             Core(tok.st, lex.lx, accumulated_tokens, tok.tk, Nil,
                  tok.st = "INCOMPLETE" /\ tok.out # <<>>)
      [] lex.st = "OK" /\ tok.st = "OK" /\ tok.out = <<>> ->
             Core("EMPTY", lex.lx, accumulated_tokens, tok.tk, Nil, FALSE)
      [] OTHER -> AfterParser(lex.lx, tok.tk,
                              parser_parse_program(accumulated_tokens \o tok.out))

AfterLexer(lex) == AfterTokenizer(lex, tokenizer_process(tokenizer, lex.toks, NoAliases))

exec_frame_string_core(line) == AfterLexer(lexer_tokenize(lexer, line))

(***************************************************************************)
(* The loop.                                                               *)
(***************************************************************************)

Init ==
    /\ lexer = lexer_create
    /\ accumulated_tokens = <<>>
    /\ tokenizer = tokenizer_create
    /\ need_continuation = FALSE
    /\ consecutive_eof = 0
    /\ result = "none"
    /\ options \in {o \in [interactive : BOOLEAN, ignoreeof : BOOLEAN, errexit : BOOLEAN] :
                       IF o.interactive THEN ~o.errexit ELSE ~o.ignoreeof}
    /\ read = <<>>
    /\ lost = FALSE
    /\ ran = Nil
    /\ unended = FALSE

\* Mutant: the tokenizer keeps what it holds back.
SessionResetPartly ==
    /\ lexer' = lexer_create
    /\ accumulated_tokens' = <<>>
    /\ UNCHANGED tokenizer

parse_session_reset ==
    /\ lexer' = lexer_create
    /\ accumulated_tokens' = <<>>
    /\ tokenizer' = tokenizer_create

KeepSession(c) ==
    /\ lexer' = c.lx
    /\ accumulated_tokens' = c.acc
    /\ tokenizer' = c.tk

\* What a line that ran, or that came to nothing, leaves behind.
EndsCommand == read' = <<>> /\ lost' = FALSE

\* The shell is gone: a contract is violated or memory is freed twice.
Abort(c) ==
    /\ c.st \in {"ABORT", "ENDLESS"}
    /\ result' = "ABORT"
    /\ UNCHANGED <<session, need_continuation, consecutive_eof, options,
                   read, lost, ran, unended>>

\* The history ends the line of a here-document's delimiter with a newline; the
\* lexer has no token for it.
Reads(line) ==
    LET toks == lexer_tokenize(lexer, line).toks
    IN  read \o toks \o IF lexer.mode = "heredoc" /\ toks # <<>>
                        THEN <<Tok("NEWLINE")>> ELSE <<>>

\* Mutant: the loop looks at the accumulated tokens only.
IncompleteTokens(line, c) ==
    /\ c.st = "INCOMPLETE"
    /\ KeepSession(c)
    /\ need_continuation' = (c.acc # <<>>)
    /\ consecutive_eof' = 0
    /\ read' = Reads(line)
    /\ lost' = (lost \/ c.lost)
    /\ ran' = Nil
    /\ unended' = FALSE
    /\ UNCHANGED <<result, options>>

\* A line ended by a newline, up to step 4 of the loop.
Incomplete(line, c) ==
    /\ c.st = "INCOMPLETE"
    /\ KeepSession(c)
    /\ need_continuation' = TRUE
    /\ consecutive_eof' = 0
    /\ read' = Reads(line)
    /\ lost' = (lost \/ c.lost)
    /\ ran' = Nil
    /\ unended' = FALSE
    /\ UNCHANGED <<result, options>>

\* The command ran.  On an error of the executor string_core leaves the session
\* alone and the loop resets it.  exit leaves the process from inside.
Ran(line, c, outcome) ==
    /\ c.st = "RUN"
    /\ parse_session_reset
    /\ need_continuation' = FALSE
    /\ consecutive_eof' = 0
    /\ ran' = c.ast
    /\ read' = Reads(line)
    /\ unended' = FALSE
    /\ UNCHANGED <<lost, options>>
    /\ result' = CASE outcome = "EXIT" -> "EXIT"
                   [] outcome = "ERROR" /\ options.errexit /\ ~options.interactive -> "ERROR"
                   [] OTHER -> "none"

\* Nothing to run.
Empty(c) ==
    /\ c.st = "EMPTY"
    /\ KeepSession(c)
    /\ need_continuation' = FALSE
    /\ consecutive_eof' = 0
    /\ EndsCommand
    /\ ran' = Nil
    /\ unended' = FALSE
    /\ UNCHANGED <<result, options>>

\* A syntax error: the session is reset.  failed is whether the last command
\* before it had failed, which is what errexit looks at.
SyntaxError(c, failed) ==
    /\ c.st = "ERROR"
    /\ parse_session_reset
    /\ need_continuation' = FALSE
    /\ consecutive_eof' = 0
    /\ EndsCommand
    /\ ran' = Nil
    /\ unended' = FALSE
    /\ result' = IF ~options.interactive /\ options.errexit /\ failed THEN "ERROR" ELSE "none"
    /\ UNCHANGED options

\* The history starts anew with the first line of a command.
Forget ==
    /\ ran # Nil
    /\ result = "none"
    /\ EndsCommand
    /\ ran' = Nil
    /\ UNCHANGED <<session, need_continuation, consecutive_eof, result, options, unended>>

ReadLine(line) ==
    /\ result = "none" /\ ran = Nil
    /\ line.nl
    /\ Len(read) < MaxPending
    /\ \E c \in {exec_frame_string_core(line)} :
           \/ Abort(c)
           \/ Incomplete(line, c)
           \/ \E outcome \in {"OK", "ERROR", "EXIT"} : Ran(line, c, outcome)
           \/ Empty(c)
           \/ \E failed \in BOOLEAN : SyntaxError(c, failed)

(***************************************************************************)
(* The end of the file, step 3 of the loop.                                *)
(***************************************************************************)

\* ignoreeof puts up with the end of the file between two commands only.
PutsUp == ~need_continuation /\ options.interactive /\ options.ignoreeof

\* The loop goes on with the next line, past steps 4 and 5.
Again == PutsUp /\ consecutive_eof + 1 < IGNOREEOF_MAX

AtEndOfFile ==
    /\ result' = CASE Again -> "none"
                   [] need_continuation -> "ERROR"
                   [] OTHER -> "OK"
    /\ consecutive_eof' = IF PutsUp THEN consecutive_eof + 1 ELSE consecutive_eof
    /\ UNCHANGED <<need_continuation, options>>

LastIncomplete(line, c) ==
    /\ c.st = "INCOMPLETE"
    /\ KeepSession(c)
    /\ AtEndOfFile
    /\ read' = Reads(line)
    /\ lost' = (lost \/ c.lost)
    /\ ran' = Nil
    /\ unended' = Again

\* An error of the executor resets the session neither here nor in the loop.
LastRan(line, c, outcome) ==
    /\ c.st = "RUN"
    /\ IF outcome = "ERROR" THEN KeepSession(c) ELSE parse_session_reset
    /\ IF outcome = "EXIT"
       THEN result' = "EXIT" /\ UNCHANGED <<consecutive_eof, need_continuation, options>>
       ELSE AtEndOfFile
    /\ ran' = c.ast
    /\ read' = Reads(line)
    /\ unended' = FALSE
    /\ UNCHANGED lost

LastEmpty(c) ==
    /\ c.st = "EMPTY"
    /\ KeepSession(c)
    /\ AtEndOfFile
    /\ UNCHANGED <<read, lost, ran, unended>>

\* What a syntax error leaves in the session stays there if the loop goes on.
LastError(c) ==
    /\ c.st = "ERROR"
    /\ KeepSession(c)
    /\ AtEndOfFile
    /\ read' = <<>>
    /\ lost' = TRUE
    /\ ran' = Nil
    /\ unended' = Again

\* The line the file ends with, without a newline: it is processed, but the
\* loop finds the end of the file before it looks at the outcome.
LastLine(line) ==
    /\ result = "none" /\ ran = Nil
    /\ ~line.nl
    /\ Len(read) < MaxPending
    /\ \E c \in {exec_frame_string_core(line)} :
           \/ Abort(c)
           \/ LastIncomplete(line, c)
           \/ \E outcome \in {"OK", "ERROR", "EXIT"} : LastRan(line, c, outcome)
           \/ LastEmpty(c)
           \/ LastError(c)

\* The end of the file at the start of a line.
EndOfFile ==
    /\ result = "none" /\ ran = Nil
    /\ AtEndOfFile
    /\ UNCHANGED <<session, read, lost, ran, unended>>

Done ==
    /\ result # "none"
    /\ UNCHANGED vars

Next ==
    \/ \E line \in Lines : ReadLine(line) \/ LastLine(line)
    \/ Forget
    \/ EndOfFile
    \/ Done

Spec == Init /\ [][Next]_vars

(***************************************************************************)
(* Properties.                                                             *)
(***************************************************************************)

Fresh ==
    /\ lexer = lexer_create
    /\ accumulated_tokens = <<>>
    /\ tokenizer = tokenizer_create

\* The session's parts fit together: the tokenizer holds tokens back exactly
\* while a compound command is open, whose first opener is among them, and the
\* lexer counts queued here-documents while it reads their bodies.
SessionOK ==
    /\ (tokenizer.stack # <<>>) = (tokenizer.buf # <<>>)
    /\ (lexer.mode = "heredoc") = (lexer.heredocs > 0)
    /\ consecutive_eof \in 0 .. IGNOREEOF_MAX
    /\ Len(SelectSeq(tokenizer.buf, LAMBDA tok : tok.t \in Openers))
         - Len(SelectSeq(tokenizer.buf, LAMBDA tok : tok.t \in Closers))
         = Len(tokenizer.stack)

\* exec_execute_stream_repl prompts with PS2 exactly if the session holds the
\* start of a command; whenever it prompts with PS1, after an error too, no
\* token and no lexer mode of an earlier command is left to join the next one.
\* Left out is what the code gets wrong (see README): a line that no newline
\* ended, incomplete or in error, when ignoreeof makes the loop go on past the
\* steps that set need_continuation and reset the session.
PromptTellsTheTruth ==
    result = "none" /\ ~unended => need_continuation = ~Fresh

\* The newline the history has after a here-document, taken out again.
LOCAL WithoutDelimiterLine(toks) ==
    LET keep == {i \in DOMAIN toks : i = 1 \/ toks[i - 1].t # "END_OF_HEREDOC"}
    IN  [i \in 1 .. Cardinality(keep) |->
            toks[CHOOSE k \in keep : Cardinality({j \in keep : j <= k}) = i]]

\* Lines taken one by one through lexer, tokenizer and parser, with tokens kept
\* and parsed again after every incomplete line, run what the same tokens give
\* when tokenizer and parser see them all at once.  Two things are told apart
\* from this (see README): tokens that stand before an opener on its line are
\* thrown away when the line ends inside the compound command (lost), and text
\* given at once has no command position after a here-document, which is why
\* the reference tokenizes with the newline that ends its delimiter.
LineByLineIsAllAtOnce ==
    ran # Nil /\ ~lost =>
        LET tok == tokenizer_process(tokenizer_create, read, NoAliases)
        IN  ran = ast_lower(parser_parse_program(WithoutDelimiterLine(tok.out)).n)

\* A file that ends, after a newline, inside a construct is reported as a syntax
\* error, and a file that ends between two commands is not (step 3 of
\* exec_execute_stream_repl); with the same case left out.
EndOfFileTold ==
    [][EndOfFile /\ result' # "none" /\ ~unended => (result' = "ERROR") = ~Fresh]_vars

\* The parts of a session fit together, and the prompt shows what they hold
\* (exec_execute_stream_repl, parse_session_reset).
SessionSettled == SessionOK /\ PromptTellsTheTruth
=============================================================================
