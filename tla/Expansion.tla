------------------------------ MODULE Expansion -----------------------------
(***************************************************************************)
(* Word expansion: exec_frame_expander.c, pattern_removal.c and the        *)
(* matcher of glob_util.c.  Text is a sequence of characters and a word is *)
(* a token of the lexer.  A frame fr is what expansion reads and changes:  *)
(* the variables, the environment, the positional parameters, $0, the last *)
(* status, IFS as a set of characters, and the sorted names of the files.  *)
(*                                                                         *)
(* A value that may be NULL is a sequence of at most one text.             *)
(*                                                                         *)
(* The matcher is the shell's own, which every build but the POSIX one has *)
(* (glob_util.c:82); with POSIX glob_util_match calls fnmatch of the       *)
(* library, which is not modelled.                                         *)
(***************************************************************************)
EXTENDS Integers, SequencesExt

L == INSTANCE Lexer

Null == <<>>
Set(text) == <<text>>
IfNull(v, text) == IF v = Null THEN text ELSE v[1]

DigitChars == <<"0", "1", "2", "3", "4", "5", "6", "7", "8", "9">>
string_from_int(n) ==
    LET digits[k \in Nat] ==
            IF k < 10 THEN <<DigitChars[k + 1]>> ELSE Append(digits[k \div 10], DigitChars[(k % 10) + 1])
    IN  digits[n]

(***************************************************************************)
(* The matcher of the builds without fnmatch.  c is its state: the         *)
(* positions in the pattern and in the string and those of the last star,  *)
(* which is 0 if none has been met.                                        *)
(***************************************************************************)

\* The characters of the instances, in the order of their codes.
Codes == <<"!", "*", "-", ".", "/", "?", "E", "[", "\\", "]", "^", "a", "b", "c", "e", "x">>
Code(ch) == CHOOSE i \in DOMAIN Codes : Codes[i] = ch
Lower(ch) == IF ch = "E" THEN "e" ELSE ch

Fold(ch, flags) == IF "CASEFOLD" \in flags THEN Lower(ch) ELSE ch
chars_match(c1, c2, flags) == Fold(c1, flags) = Fold(c2, flags)
char_in_range(ch, first, last, flags) ==
    Code(Fold(ch, flags)) \in Code(Fold(first, flags)) .. Code(Fold(last, flags))

Escaped(pat, p, flags) ==
    "NOESCAPE" \notin flags /\ L!CharAt(pat, p) = "\\" /\ p < Len(pat)

\* One possibly escaped character of the pattern and the position after it.
read_pattern_char(pat, p, flags) ==
    IF Escaped(pat, p, flags)
    THEN [ch |-> pat[p + 1], escaped |-> TRUE, p |-> p + 2]
    ELSE [ch |-> pat[p], escaped |-> FALSE, p |-> p + 1]

\* The members from p on; a bracket that is not closed matches nothing.
BracketMembers(pat, sc, negate, flags, first) ==
    LET scan[p \in Nat, matched \in BOOLEAN] ==
            LET r == read_pattern_char(pat, p, flags)
                end == read_pattern_char(pat, r.p + 1, flags)
            IN  CASE p > Len(pat) -> [ok |-> FALSE, p |-> p]
                  [] p <= Len(pat) /\ r.ch = "]" /\ ~r.escaped -> [ok |-> matched # negate, p |-> r.p]
                  [] L!CharAt(pat, r.p) = "-" /\ L!CharAt(pat, r.p + 1) \notin {"]", ""} ->
                         scan[end.p, matched \/ char_in_range(sc, r.ch, end.ch, flags)]
                  [] OTHER -> scan[r.p, matched \/ chars_match(sc, r.ch, flags)]
    IN  IF L!CharAt(pat, first) = "]"
        THEN scan[first + 1, chars_match(sc, "]", flags)]
        ELSE scan[first, FALSE]

\* p is the position after the opening bracket.
match_bracket(pat, p, sc, flags) ==
    IF L!CharAt(pat, p) \in {"!", "^"}
    THEN BracketMembers(pat, sc, TRUE, flags, p + 1)
    ELSE BracketMembers(pat, sc, FALSE, flags, p)

is_leading_position(str, s, flags) == s = 1 \/ ("PATHNAME" \in flags /\ str[s - 1] = "/")
is_protected_dot(str, s, flags) ==
    "PERIOD" \in flags /\ str[s] = "." /\ is_leading_position(str, s, flags)

Fails(c) == [c EXCEPT !.st = "NO"]
Both(c, n) == [c EXCEPT !.p = @ + n, !.s = @ + 1]

\* Mutant: the star takes one more character from where the mismatch was.
BacktrackFromMismatch(str, c, flags) ==
    CASE c.star = 0 -> Fails(c)
      [] OTHER -> [c EXCEPT !.p = c.star + 1, !.s = @ + 1, !.from = c.s + 1]

\* The last star takes one more character.
Backtrack(str, c, flags) ==
    CASE c.star = 0 -> Fails(c)
      [] c.star # 0 /\ "PATHNAME" \in flags /\ L!CharAt(str, c.from + 1) = "/" -> Fails(c)
      [] OTHER -> [c EXCEPT !.p = c.star + 1, !.s = c.from + 1, !.from = @ + 1]

ProtectedDot(pat, c, flags) ==
    LET p == L!SkipWhile(pat, c.p, {"*"})
    IN  CASE L!CharAt(pat, p) = "." -> [c EXCEPT !.p = p + 1, !.s = @ + 1]
          [] Escaped(pat, p, flags) /\ L!CharAt(pat, p + 1) = "." -> [c EXCEPT !.p = p + 2, !.s = @ + 1]
          [] OTHER -> Fails(c)

\* One round of the loop.
GlobStep(pat, str, c, flags) ==
    LET pc == L!CharAt(pat, c.p)
        sc == str[c.s]
        barred == "PATHNAME" \in flags /\ sc = "/"
        bracket == match_bracket(pat, c.p + 1, sc, flags)
    IN  CASE is_protected_dot(str, c.s, flags) -> ProtectedDot(pat, c, flags)
          [] ~is_protected_dot(str, c.s, flags) /\ Escaped(pat, c.p, flags) ->
                 IF chars_match(pat[c.p + 1], sc, flags) THEN Both(c, 2) ELSE Backtrack(str, c, flags)
          [] pc = "*" /\ ~barred -> [c EXCEPT !.star = c.p, !.from = c.s, !.p = @ + 1]
          [] pc = "?" /\ ~barred -> Both(c, 1)
          [] pc = "[" /\ ~barred /\ bracket.ok -> [c EXCEPT !.p = bracket.p, !.s = @ + 1]
          [] pc \notin {"*", "?", "["} /\ chars_match(pc, sc, flags) -> Both(c, 1)
          [] OTHER -> Backtrack(str, c, flags)

RECURSIVE GlobRun(_, _, _, _)
GlobRun(pat, str, c, flags) ==
    CASE c.st = "NO" -> FALSE
      [] c.st = "GO" /\ c.s > Len(str) -> L!SkipWhile(pat, c.p, {"*"}) > Len(pat)
      [] OTHER -> GlobRun(pat, str, GlobStep(pat, str, c, flags), flags)

glob_util_match(pat, str, flags) ==
    GlobRun(pat, str, [st |-> "GO", p |-> 1, s |-> 1, star |-> 0, from |-> 0], flags)

(***************************************************************************)
(* Pattern removal.                                                        *)
(***************************************************************************)

Prefix(text, n) == SubSeq(text, 1, n)
From(text, i) == SubSeq(text, i, Len(text))

Smallest(S) == CHOOSE i \in S : \A j \in S : i <= j
Largest(S) == CHOOSE i \in S : \A j \in S : i >= j

\* The lengths of the prefixes the pattern matches, and what the suffixes it
\* matches leave.
PrefixMatches(v, pat) == {i \in 0 .. Len(v) : glob_util_match(pat, Prefix(v, i), {})}
SuffixMatches(v, pat) == {i \in 0 .. Len(v) : glob_util_match(pat, From(v, i + 1), {})}

\* The loops try the lengths in order and stop at the first that matches.
remove_prefix_smallest(v, pat) ==
    LET Cut(S) == IF S = {} THEN v ELSE From(v, Smallest(S) + 1) IN Cut(PrefixMatches(v, pat))
remove_prefix_largest(v, pat) ==
    LET Cut(S) == IF S = {} THEN v ELSE From(v, Largest(S) + 1) IN Cut(PrefixMatches(v, pat))
remove_suffix_smallest(v, pat) ==
    LET Cut(S) == IF S = {} THEN v ELSE Prefix(v, Largest(S)) IN Cut(SuffixMatches(v, pat))
remove_suffix_largest(v, pat) ==
    LET Cut(S) == IF S = {} THEN v ELSE Prefix(v, Smallest(S)) IN Cut(SuffixMatches(v, pat))

(***************************************************************************)
(* Parameters.                                                             *)
(***************************************************************************)

Join(texts) ==
    FlattenSeq([i \in DOMAIN texts |-> IF i = 1 THEN texts[i] ELSE <<" ">> \o texts[i]])

IsNumber(name) == name # <<>> /\ \A i \in DOMAIN name : name[i] \in L!Digit
NumberOf(name) ==
    FoldLeft(LAMBDA n, ch : 10 * n + (CHOOSE d \in 0 .. 9 : DigitChars[d + 1] = ch), 0, name)

\* A positional parameter that is not there is set and empty.
expand_special_param(fr, name) ==
    CASE name = <<"?">> -> Set(string_from_int(fr.status))
      [] name \in {<<"$">>, <<"!">>} -> Set(fr.pid)
      [] name = <<"#">> -> Set(string_from_int(Len(fr.params)))
      [] name \in {<<"@">>, <<"*">>} -> Set(Join(fr.params))
      [] name = <<"-">> -> Set(<<>>)
      [] IsNumber(name) /\ NumberOf(name) = 0 -> Set(fr.arg0)
      [] IsNumber(name) /\ NumberOf(name) # 0 ->
             Set(IF NumberOf(name) <= Len(fr.params) THEN fr.params[NumberOf(name)] ELSE <<>>)
      [] OTHER -> Null

get_parameter_value(fr, name) ==
    LET Or(special) ==
            CASE special # Null -> special
              [] special = Null /\ name \in DOMAIN fr.vars -> Set(fr.vars[name])
              [] special = Null /\ name \in DOMAIN fr.env \ DOMAIN fr.vars -> Set(fr.env[name])
              [] OTHER -> Null
    IN  Or(expand_special_param(fr, name))

expand_parameter(fr, name) == IfNull(get_parameter_value(fr, name), <<>>)

\* A readonly variable refuses the write; its error is not looked at.
set_parameter_value(fr, name, text) ==
    IF name \in fr.readonly
    THEN fr
    ELSE [fr EXCEPT !.vars = [n \in DOMAIN fr.vars \cup {name} |-> IF n = name THEN text ELSE fr.vars[n]]]

Result(fr, text) == [fr |-> fr, text |-> text]

Removal(op, v, pat) ==
    CASE pat = <<>> -> v
      [] pat # <<>> /\ op = <<"#">> -> remove_prefix_smallest(v, pat)
      [] pat # <<>> /\ op = <<"#", "#">> -> remove_prefix_largest(v, pat)
      [] pat # <<>> /\ op = <<"%">> -> remove_suffix_smallest(v, pat)
      [] pat # <<>> /\ op = <<"%", "%">> -> remove_suffix_largest(v, pat)

\* The operator without its colon: has_colon is not looked at, so that an
\* empty value counts as unset in both forms.
OpOf(part) == IF L!CharAt(part.op, 1) = ":" THEN Tail(part.op) ELSE part.op
IsEmptyValue(v) == v = Null \/ v = Set(<<>>)

\* The word of an operator is taken as it is.
expand_parameter_with_modifier(fr, part) ==
    LET Modified(op, empty, text) ==
            CASE op = <<>> -> Result(fr, text)
              [] op = <<"length">> -> Result(fr, string_from_int(Len(text)))
              [] op = <<"-">> -> Result(fr, IF empty THEN part.w ELSE text)
              [] op = <<"=">> /\ empty -> Result(set_parameter_value(fr, part.v, part.w), part.w)
              [] op = <<"?">> /\ empty -> Result([fr EXCEPT !.status = 1], <<>>)
              [] op \in {<<"=">>, <<"?">>} /\ ~empty -> Result(fr, text)
              [] op = <<"+">> -> Result(fr, IF empty THEN <<>> ELSE part.w)
              [] OTHER -> Result(fr, Removal(op, text, part.w))
        Of(v) == Modified(OpOf(part), IsEmptyValue(v), IfNull(v, <<>>))
    IN  Of(get_parameter_value(fr, part.v))

(***************************************************************************)
(* Field splitting.                                                        *)
(***************************************************************************)

Spaces == {" ", "\t", "\n"}
NotIn(text, i, cs) ==
    CHOOSE j \in i .. Len(text) + 1 :
        /\ j = Len(text) + 1 \/ text[j] \in cs
        /\ \A k \in i .. j - 1 : text[k] \notin cs

\* Hard delimiters from i on: where they end and how many empty fields they
\* make.  One is made when the end or any delimiter follows, white space too.
HardDelimiters(text, ifs, i) ==
    LET scan[p \in Nat] ==
            IF L!CharAt(text, p) \notin ifs \ Spaces
            THEN [p |-> p, empties |-> 0]
            ELSE IF p = Len(text) \/ L!CharAt(text, p + 1) \in ifs
                 THEN [scan[p + 1] EXCEPT !.empties = @ + 1]
                 ELSE [p |-> p + 1, empties |-> 0]
    IN  scan[i]

\* A whole delimiter: white space and hard delimiters in turn.
ConsumeDelimiter(text, ifs, i) ==
    LET scan[p \in Nat] ==
            LET w == L!SkipWhile(text, p, ifs \cap Spaces)
                h == HardDelimiters(text, ifs, w)
            IN  IF L!CharAt(text, h.p) \in ifs
                THEN [scan[h.p] EXCEPT !.empties = @ + h.empties]
                ELSE h
    IN  scan[i]

FieldsFrom(text, ifs, i) ==
    LET fields[p \in Nat] ==
            LET end == NotIn(text, p, ifs)
                d == ConsumeDelimiter(text, ifs, end)
            IN  CASE p > Len(text) -> <<>>
                  [] p <= Len(text) /\ end > Len(text) -> <<From(text, p)>>
                  [] OTHER -> <<SubSeq(text, p, end - 1)>> \o [k \in 1 .. d.empties |-> <<>>] \o fields[d.p]
    IN  fields[i]

\* Mutant: leading white space is not skipped.
SplitFromFirst(text, ifs) ==
    CASE text = <<>> -> <<>>
      [] text # <<>> /\ ifs = {} -> <<text>>
      [] OTHER -> FieldsFrom(text, ifs, 1)

expand_field_split(text, ifs) ==
    CASE text = <<>> -> <<>>
      [] text # <<>> /\ ifs = {} -> <<text>>
      [] OTHER -> FieldsFrom(text, ifs, L!SkipWhile(text, 1, ifs \cap Spaces))

(***************************************************************************)
(* Words.                                                                  *)
(***************************************************************************)

IsExpansion(part) == part.k # "LIT"
HasGlob(text) == \E i \in DOMAIN text : text[i] \in {"*", "?", "["}

\* token_recompute_expansion_flags.
needs_field_splitting(tok) == \E i \in DOMAIN tok.parts : IsExpansion(tok.parts[i]) /\ tok.parts[i].q = ""
needs_pathname_expansion(tok) ==
    \E i \in DOMAIN tok.parts :
        tok.parts[i].k = "LIT" /\ tok.parts[i].q = "" /\ HasGlob(tok.parts[i].v)

\* The command of a substitution is made from nested tokens, which the lexer
\* does not fill in: an empty command is run.
expand_part(fr, part) ==
    CASE part.k = "PARAM" -> expand_parameter_with_modifier(fr, part)
      [] part.k = "CMD" -> Result(fr, <<>>)
      [] OTHER -> Result(fr, part.v)

expand_parts_to_string(fr, parts) ==
    LET Joined(r, next) == Result(next.fr, r.text \o next.text)
    IN  FoldLeft(LAMBDA r, part : Joined(r, expand_part(r.fr, part)), Result(fr, <<>>), parts)

\* wordexp, for patterns without characters it would expand or split itself:
\* the matching names, or the pattern.
expand_pathname(fr, pat) ==
    LET names == SelectSeq(fr.files, LAMBDA f : glob_util_match(pat, f, {"PERIOD"}))
    IN  IF names = <<>> THEN <<pat>> ELSE names

\* Mutant: every word that is expanded is split.
SplitsQuoted(tok) == \E i \in DOMAIN tok.parts : IsExpansion(tok.parts[i])
Splits(tok) == needs_field_splitting(tok)

Fields(fr, tok, text) == IF Splits(tok) THEN expand_field_split(text, fr.ifs) ELSE <<text>>

exec_frame_expander_expand_word(fr, tok) ==
    LET Globbed(fields) ==
            IF needs_pathname_expansion(tok)
            THEN FlattenSeq([i \in DOMAIN fields |-> expand_pathname(fr, fields[i])])
            ELSE fields
        Of(r) == [fr |-> r.fr, fields |-> Globbed(Fields(fr, tok, r.text))]
    IN  Of(expand_parts_to_string(fr, tok.parts))

\* Neither split nor matched against file names; expand_assignment_value and
\* expand_word_nosplit are the same.
expand_redirection_target(fr, tok) == expand_parts_to_string(fr, tok.parts)

(***************************************************************************)
(* Here-documents.                                                         *)
(***************************************************************************)

NameChars == L!Alpha \cup L!Digit \cup {"_"}
\* The position of the brace that closes the one before p.
ClosingBrace(text, first) ==
    LET scan[p \in Nat, depth \in Nat] ==
            CASE p > Len(text) -> 0
              [] L!CharAt(text, p) = "}" -> IF depth = 1 THEN p ELSE scan[p + 1, depth - 1]
              [] L!CharAt(text, p) = "{" -> scan[p + 1, depth + 1]
              [] OTHER -> scan[p + 1, depth]
    IN  scan[first, 1]

\* What stands in braces is taken as a name, operator and all.
expand_heredoc(fr, body, is_quoted) ==
    LET expand[i \in Nat] ==
            LET ch == L!CharAt(body, i)
                next == L!CharAt(body, i + 1)
                brace == ClosingBrace(body, i + 2)
                end == L!SkipWhile(body, i + 1, NameChars)
                Literal == <<ch>> \o expand[i + 1]
            IN  CASE i > Len(body) -> <<>>
                  [] ch = "\\" /\ next = "\n" -> expand[i + 2]
                  [] ch = "\\" /\ next \in {"$", "grave", "\\"} -> <<next>> \o expand[i + 2]
                  [] ch = "$" /\ next = "{" /\ brace # 0 ->
                         expand_parameter(fr, SubSeq(body, i + 2, brace - 1)) \o expand[brace + 1]
                  [] ch = "$" /\ next \in {"?", "$", "!", "#", "@", "*", "-", "0"} ->
                         expand_parameter(fr, <<next>>) \o expand[i + 2]
                  [] ch = "$" /\ next \in NameChars \ {"0"} ->
                         expand_parameter(fr, SubSeq(body, i + 1, end - 1)) \o expand[end]
                  [] OTHER -> Literal
    IN  IF is_quoted THEN body ELSE expand[1]

=============================================================================
