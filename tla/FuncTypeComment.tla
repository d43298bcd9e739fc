-------------------------- MODULE FuncTypeComment ---------------------------
(***************************************************************************)
(* What a type comment is: extract_type_comments_and_ignores tries it as   *)
(* an expression, then parse_func_type_comment takes it apart as the       *)
(* signature of a function, and function_comment_to_expr has the parts     *)
(* parsed as expressions.                                                  *)
(*                                                                         *)
(* A comment is the sequence of its tokens; a slice of its text is the     *)
(* tokens in it.  "x" is any name or literal, "*" is ** too, "(" any       *)
(* opening bracket.  The lexer ends the tokens with a newline, so a token  *)
(* always follows; the unknown token it puts before the newline of an      *)
(* unclosed text changes nothing.                                          *)
(***************************************************************************)
EXTENDS Integers, Sequences, SequencesExt, FiniteSetsExt

TokenKinds == {"(", ")", ",", "*", "->", "x", "..."}
NoComment  == << >>
-----------------------------------------------------------------------------
(* The parser: does a text in parentheses parse as an expression?            *)

Group(call) == [call |-> call, commas |-> FALSE, starred |-> FALSE]

\* want: an element of a tuple or call, an operand, or an operator.
ParseToken(parse, token) ==
    LET groups == parse.groups
        open(call) == [want |-> "element", groups |-> Append(groups, Group(call))]
        failed == [want |-> "failed", groups |-> << >>]
    IN CASE parse.want = "failed" \/ groups = << >> -> failed
         [] token = "(" /\ parse.want # "failed" /\ groups # << >> -> open(parse.want = "operator")
         [] token \in {"x", "..."} /\ parse.want \in {"element", "operand"} /\ groups # << >> ->
              [parse EXCEPT !.want = "operator"]
         [] token = "*" /\ parse.want = "operator" /\ groups # << >> ->
              [parse EXCEPT !.want = "operand"]
         [] token = "*" /\ parse.want = "element" /\ groups # << >> ->
              [want |-> "operand", groups |-> [groups EXCEPT ![Len(groups)].starred = TRUE]]
         [] token = "," /\ parse.want = "operator" /\ groups # << >> ->
              [want |-> "element", groups |-> [groups EXCEPT ![Len(groups)].commas = TRUE]]
         [] /\ token = ")"
            /\ parse.want \in {"element", "operator"} /\ groups # << >>
            /\ Last(groups).starred => Last(groups).commas \/ Last(groups).call ->
              [want |-> "operator", groups |-> Front(groups)]
         [] OTHER -> failed

\* parse_unchecked of "({text})" has no errors.
Parsing(text) ==
    LET parse[i \in 0..Len(text)] ==
            IF i = 0 THEN [want |-> "element", groups |-> <<Group(FALSE)>>]
            ELSE ParseToken(parse[i - 1], text[i])
    IN parse
Parses(text) ==
    LET closed == ParseToken(Parsing(text)[Len(text)], ")")
    IN closed.want = "operator" /\ closed.groups = << >>
-----------------------------------------------------------------------------
(* parse_func_type_comment *)

Nested(nesting, token) ==
    CASE token = "(" -> nesting + 1
      [] token = ")" /\ nesting > 0 -> nesting - 1
      [] OTHER -> nesting

\* The next argument starts behind a token.
\* A bug for the checks: the stars seen are not forgotten.
ArgumentFromMutant(loop, i) == [loop EXCEPT !.start = i + 1, !.end = i]
ArgumentFrom(loop, i) == [loop EXCEPT !.start = i + 1, !.end = i, !.star_stripped = FALSE]

\* One turn of the loop, for the token at i.
Turn(text, loop, i) ==
    LET token   == text[i]
        nesting == Nested(loop.nesting, token)
        next    == [loop EXCEPT !.nesting = nesting]
        pushed  == [next EXCEPT !.args = Append(@, SubSeq(text, loop.start, loop.end))]
    IN CASE loop.exit # "none" -> loop
         [] loop.exit = "none" /\ token = "," /\ nesting = 1 -> ArgumentFrom(pushed, i)
         [] loop.exit = "none" /\ token = "*" /\ nesting = 1 ->
              CASE loop.star_stripped -> [next EXCEPT !.exit = "rejected"]
                [] ~loop.star_stripped /\ loop.start = i ->
                     [next EXCEPT !.start = i + 1, !.end = i, !.star_stripped = TRUE]
                [] OTHER -> next
         [] loop.exit = "none" /\ token = ")" /\ nesting = 0 ->
              [(IF loop.end < loop.start THEN next ELSE pushed)
                  EXCEPT !.exit = "closed", !.end = i]
         [] OTHER -> [next EXCEPT !.end = i]

\* The loop, from the token behind the first one.
Turns(text) ==
    LET turns[i \in 1..Len(text)] ==
            IF i = 1 THEN [nesting |-> 1, start |-> 2, end |-> 1, star_stripped |-> FALSE,
                           args |-> << >>, exit |-> "none"]
            ELSE Turn(text, turns[i - 1], i)
    IN turns

\* None, or the texts of the arguments and of the return type.
None == [args |-> <<NoComment>>, ret |-> <<"none">>]
ParseFuncTypeComment(text) ==
    LET loop == Turns(text)[Len(text)]
    IN IF /\ text[1] = "("
          /\ loop.exit = "closed"
          /\ loop.end < Len(text) /\ text[loop.end + 1] = "->"
       THEN [args |-> loop.args, ret |-> SubSeq(text, loop.end + 2, Len(text))]
       ELSE None

\* An expression in parentheses is the expression.
IsEllipsis(text) ==
    \E n \in 0..Len(text) :
        /\ Len(text) = 2 * n + 1 /\ text[n + 1] = "..."
        /\ \A i \in 1..n : text[i] = "(" /\ text[2 * n + 2 - i] = ")"

\* ParsedTypeComment: an expression, else a function's if function_comment_to_expr
\* gets expressions from its parts, else invalid.
ParsedTypeComment(text) ==
    LET parsed == ParseFuncTypeComment(text)
        of(kind, args) == [kind |-> kind, args |-> args]
    IN CASE text = NoComment -> of("none", << >>)
         [] text # NoComment /\ Parses(text) -> of("regular", << >>)
         [] /\ text # NoComment /\ ~Parses(text) /\ parsed # None
            /\ \A i \in 1..Len(parsed.args) : Parses(parsed.args[i])
            /\ Parses(parsed.ret) -> of("function", parsed.args)
         [] OTHER -> of("invalid", << >>)
-----------------------------------------------------------------------------
(* PEP 484: (type, *type, ...) -> type, taken apart by its brackets.         *)

Depth(text, i) ==
    Cardinality({k \in 1..i : text[k] = "("}) - Cardinality({k \in 1..i : text[k] = ")"})
Closing(text) == Min({i \in 1..Len(text) : Depth(text, i) = 0} \cup {Len(text) + 1})

\* The brackets of the signature and the commas that no other bracket encloses,
\* up to each place in the text.
IsComma(text, i) == text[i] = "," /\ Depth(text, i) = 1
Separators(text) ==
    LET places[i \in 1..Closing(text)] ==
            CASE i = 1 -> <<1>>
              [] i > 1 /\ (i = Closing(text) \/ IsComma(text, i)) -> Append(places[i - 1], i)
              [] OTHER -> places[i - 1]
    IN places

\* The texts between them; what is behind the last comma is none if it is blank
\* or a star.
Elements(text) ==
    LET places  == Separators(text)[Closing(text)]
        between == [n \in 1..Len(places) - 1 |-> SubSeq(text, places[n] + 1, places[n + 1] - 1)]
    IN IF Last(between) \in {<< >>, <<"*">>} THEN Front(between) ELSE between

Starred(element) == element # << >> /\ Head(element) = "*"
Type(element)    == IF Starred(element) THEN Tail(element) ELSE element
IsType(text)     == text # << >> /\ Parses(text)

\* The text of a type, but for stars at its end.
ReadAs(arg, type) ==
    \E stars \in 0..Len(type) : arg \o [i \in 1..stars |-> "*"] = type

WellFormed(text) ==
    /\ text # << >> /\ text[1] = "("
    /\ Closing(text) < Len(text) /\ text[Closing(text) + 1] = "->"
    /\ \A n \in 1..Len(Elements(text)) : IsType(Type(Elements(text)[n]))
    /\ IsType(SubSeq(text, Closing(text) + 2, Len(text)))

\* No star stands for a product in an argument with a star before it.
OneStar(text) ==
    \A n \in 1..Len(Elements(text)) :
        LET element == Elements(text)[n]
        IN Starred(element) => \A i \in 2..Len(element) : element[i] # "*" \/ Depth(element, i) > 0
=============================================================================
