---------------------------- MODULE InlineConfig ----------------------------
(***************************************************************************)
(* src/src/mypy_inline_config.rs: the `# mypy:' comments of a file, split  *)
(* at commas outside quotes and at equals signs, give the names that are   *)
(* always true or false and the last ignore_errors.                        *)
(*                                                                         *)
(* A text is a sequence of tokens: keys, names and the four characters     *)
(* that mean something.  A comment starts from directives written the way  *)
(* a user writes them, the code reads the text.                            *)
(***************************************************************************)
EXTENDS Integers, Sequences, FiniteSetsExt

CONSTANTS
    Keys,               \* the keys as written, with - or _
    Words,              \* names and other values
    MaxDirectives,      \* in all comments of the file
    MaxNames            \* values of a directive

Marks == {"comma", "quote", "equals", "blank", "end"}

ASSUME InlineAssumption ==
    /\ MaxDirectives \in Nat /\ MaxNames \in Nat
    /\ (Keys \cup Words) \cap Marks = {}

Trues  == {"1", "yes", "True", "on"}
Falses == {"0", "no", "False", "off"}

SeqsUpTo(S, n) == UNION {[1..k -> S] : k \in 0..n}
Directives == [key : Keys, values : SeqsUpTo(Words, MaxNames)]

\* A list has a comma and a blank between its words.
Listed(values) ==
    [i \in 1..(3 * Len(values) - 2) |->
        CASE i % 3 = 1 -> values[(i + 2) \div 3] [] i % 3 = 2 -> "comma" [] OTHER -> "blank"]

\* A directive as it is written: a bare key has no value, several values stand
\* in quotes.
Text(directive) ==
    LET values == directive.values
    IN CASE Len(values) = 0 -> <<directive.key>>
         [] Len(values) = 1 -> <<directive.key, "blank", "equals", values[1]>>
         [] OTHER -> <<directive.key, "equals", "quote">> \o Listed(values) \o <<"quote">>

\* The text of a comment from each of its directives on.
TextFrom(said) ==
    LET from[n \in 1..Len(said) + 1] ==
            IF n > Len(said) THEN <<"end">>
            ELSE (IF n = 1 THEN << >> ELSE <<"comma", "blank">>)
                    \o Text(said[n]) \o from[n + 1]
    IN from

VARIABLES
    directives,         \* those of the comments merged
    comment,            \* those of the comment that is read
    chars,              \* what is left of its text
    parts, current,     \* split_respecting_quotes
    always_true, always_false,      \* InlineConfigOverrides
    ignore_errors       \* "none", "true", "false"

vars == <<directives, comment, chars, parts, current, always_true, always_false, ignore_errors>>
overrides == <<always_true, always_false, ignore_errors>>
-----------------------------------------------------------------------------
\* The first place of one of the tokens, or the place behind the text.
First(text, tokens) == Min({i \in 1..Len(text) : text[i] \in tokens} \cup {Len(text) + 1})

\* str::trim
Trim(text) ==
    LET kept == {i \in 1..Len(text) : text[i] # "blank"}
    IN IF kept = {} THEN << >> ELSE SubSeq(text, Min(kept), Max(kept))

\* str::split_once: what stands before and after the first equals sign.
Equals(text) == First(text, {"equals"})
Key(text)    == IF Equals(text) > Len(text) THEN text ELSE Trim(SubSeq(text, 1, Equals(text) - 1))
Value(text)  == IF Equals(text) > Len(text) THEN <<"True">>
                ELSE Trim(SubSeq(text, Equals(text) + 1, Len(text)))

\* A piece is taken over unless it is empty.
Kept(pieces, piece) == IF piece = << >> THEN pieces ELSE Append(pieces, piece)

\* split_commas: the pieces, and where the one behind the last comma starts.
SplitAt(text, split, i) ==
    IF text[i] # "comma" THEN split
    ELSE [pieces |-> Kept(split.pieces, Trim(SubSeq(text, split.from, i - 1))), from |-> i + 1]
SplitCommas(text) ==
    LET split[i \in 0..Len(text)] ==
            IF i = 0 THEN [pieces |-> << >>, from |-> 1]
            ELSE SplitAt(text, split[i - 1], i)
    IN split
NamesOf(text) ==
    LET split == SplitCommas(text)[Len(text)]
    IN Kept(split.pieces, Trim(SubSeq(text, split.from, Len(text))))

\* The key with underscores.
Normalized(key) ==
    CASE key = <<"always-true">>   -> <<"always_true">>
      [] key = <<"always-false">>  -> <<"always_false">>
      [] key = <<"ignore-errors">> -> <<"ignore_errors">>
      [] OTHER -> key

\* parse_bool
ParseBool(value) ==
    CASE value \in {<<w>> : w \in Trues}  -> "true"
      [] value \in {<<w>> : w \in Falses} -> "false"
      [] OTHER -> "none"

\* A bug for the checks: no truth value replaces one.
LatestMutant(old, new) == new
\* A truth value replaces an older one.
Latest(old, new) == IF new = "none" THEN old ELSE new

NoOverrides == [always_true |-> << >>, always_false |-> << >>, ignore_errors |-> "none"]

\* The overrides with those of a part, trimmed, that is not empty.
WithPart(result, part) ==
    LET key   == Normalized(Key(part))
        value == Value(part)
    IN CASE part = << >> -> result
         [] part # << >> /\ key = <<"always_true">> ->
              [result EXCEPT !.always_true = @ \o NamesOf(value)]
         [] part # << >> /\ key = <<"always_false">> ->
              [result EXCEPT !.always_false = @ \o NamesOf(value)]
         [] part # << >> /\ key = <<"ignore_errors">> ->
              [result EXCEPT !.ignore_errors = Latest(@, ParseBool(value))]
         [] OTHER -> result

\* parse_single_mypy_comment, after each of the parts.
ParseParts(texts) ==
    LET result[k \in 0..Len(texts)] ==
            IF k = 0 THEN NoOverrides
            ELSE WithPart(result[k - 1], Trim(texts[k]))
    IN result
-----------------------------------------------------------------------------
Init ==
    /\ directives = << >> /\ comment = << >>
    /\ chars = << >> /\ parts = << >> /\ current = << >>
    /\ always_true = << >> /\ always_false = << >> /\ ignore_errors = "none"

Resolved == chars = << >> /\ parts = << >>

\* The next comment, once the last is merged.
NextText ==
    /\ Resolved
    /\ comment' \in SeqsUpTo(Directives, MaxDirectives - Len(directives))
    /\ chars' = TextFrom(comment')[1]
    /\ UNCHANGED <<directives, parts, current, overrides>>

Comma ==
    /\ chars # << >> /\ Head(chars) = "comma"
    /\ parts' = Append(parts, current)
    /\ current' = << >>
    /\ chars' = Tail(chars)
    /\ UNCHANGED <<directives, comment, overrides>>

\* What a quote takes in: all up to the next one, or to the end of the text.
\* A bug for the checks: a comma ends it.
QuotedMutant == First(Tail(chars), {"quote", "comma", "end"}) - 1
Quoted == First(Tail(chars), {"quote", "end"}) - 1

Quote ==
    /\ chars # << >> /\ Head(chars) = "quote"
    /\ current' = current \o SubSeq(chars, 2, Quoted + 1)
    /\ chars' = SubSeq(chars, IF chars[Quoted + 2] = "quote" THEN Quoted + 3 ELSE Quoted + 2,
                       Len(chars))
    /\ UNCHANGED <<directives, comment, parts, overrides>>

Character ==
    /\ chars # << >> /\ Head(chars) \notin {"comma", "quote", "end"}
    /\ current' = Append(current, Head(chars))
    /\ chars' = Tail(chars)
    /\ UNCHANGED <<directives, comment, parts, overrides>>

EndOfText ==
    /\ chars = <<"end">>
    /\ parts' = Append(parts, current)
    /\ current' = << >> /\ chars' = << >>
    /\ UNCHANGED <<directives, comment, overrides>>

\* resolve_overrides and merge
Merge ==
    /\ chars = << >> /\ parts # << >>
    /\ LET result == ParseParts(parts)[Len(parts)]
       IN /\ always_true' = always_true \o result.always_true
          /\ always_false' = always_false \o result.always_false
          /\ ignore_errors' = Latest(ignore_errors, result.ignore_errors)
    /\ directives' = directives \o comment
    /\ comment' = << >> /\ parts' = << >>
    /\ UNCHANGED <<chars, current>>

\* The caller has the overrides of the file.
Done == Resolved /\ UNCHANGED vars

Next == NextText \/ Comma \/ Quote \/ Character \/ EndOfText \/ Merge \/ Done
Spec == Init /\ [][Next]_vars
-----------------------------------------------------------------------------
\* What the directives say, in the order they are written.
Says(d, key) == Normalized(<<d.key>>) = <<key>>
Given(d) == IF d.values = << >> THEN <<"True">> ELSE d.values
NamesAt(names, d, key) ==
    IF Says(d, key) THEN names \o [j \in 1..Len(Given(d)) |-> <<Given(d)[j]>>] ELSE names
Names(said, key) ==
    LET names[n \in 0..Len(said)] ==
            IF n = 0 THEN << >> ELSE NamesAt(names[n - 1], said[n], key)
    IN names

\* The names of every always-true and always-false directive of the comments
\* merged are taken over one by one, quoted lists and single names alike,
\* whatever else the comments say (split_respecting_quotes, split_commas).
NamesReadBack ==
    /\ always_true = Names(directives, "always_true")[Len(directives)]
    /\ always_false = Names(directives, "always_false")[Len(directives)]

\* The last of these directives that gives ignore_errors one truth value
\* decides; an unknown value or a list changes nothing (merge, parse_bool).
LastIgnoreErrors ==
    LET single(words) == {n \in 1..Len(directives) :
                             /\ Says(directives[n], "ignore_errors")
                             /\ Given(directives[n]) \in {<<w>> : w \in words}}
        last == Max(single(Trues \cup Falses) \cup {0})
    IN ignore_errors = CASE last = 0 -> "none"
                         [] last \in single(Trues) -> "true"
                         [] OTHER -> "false"
=============================================================================
