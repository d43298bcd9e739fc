---------------------------- MODULE TypeComments ----------------------------
(***************************************************************************)
(* extract_type_comments_and_ignores with parse_type_comments_full: the    *)
(* comments of a file, one after another, give its ignores, its type       *)
(* comments, its inline configuration and errors.                          *)
(*                                                                         *)
(* A comment is split at its # signs into parts, and a part is what        *)
(* parse_comment_part makes of it: an ignore with or without error codes   *)
(* or with invalid ones, a type annotation by how it parses, or nothing,   *)
(* blank parts, inline configuration and prose.  A part has no line breaks *)
(* and there is one comment to a line.                                     *)
(***************************************************************************)
EXTENDS Naturals, Sequences, SequencesExt, FiniteSetsExt

CONSTANTS
    Files,                  \* the files: sequences of comments
    CacheVersions           \* the values of Options.cache_version

CV_FULL_TYPE_COMMENTS == 7

Ignores     == {"type_ignore", "type_ignore_codes"}
MypyIgnores == {"mypy_ignore", "mypy_ignore_codes"}
Invalid     == {"type_ignore_invalid", "mypy_ignore_invalid"}
Annotations == {"empty", "regular", "function", "unparsable"}
Configs     == {"ignore_errors_on", "ignore_errors_off", "always_true", "always_false", "config"}
Kinds       == Ignores \cup MypyIgnores \cup Invalid \cup Annotations
                   \cup Configs \cup {"blank", "prose"}

Comments ==
    [line   : Nat \ {0},
     first  : BOOLEAN,      \* the comment starts in the first column
     alone  : BOOLEAN,      \* only white space stands before it
     tight  : BOOLEAN,      \* the first part runs up to the next #
     parts  : Seq(Kinds)]

ASSUME FilesAssumption ==
    /\ CacheVersions \subseteq Nat
    /\ \A file \in Files :
          /\ file \in Seq(Comments)
          /\ \A i \in 1..Len(file) : file[i].parts # << >> /\ (file[i].first => file[i].alone)
          /\ \A i, j \in 1..Len(file) : i < j => file[i].line < file[j].line

VARIABLES
    comments,               \* the comments of the file
    cache_version,          \* Options.cache_version
    at,                     \* the comment looked at
    next_part,              \* the part of it looked at next
    ignore_next, stopped,   \* of the loop of parse_type_comments_full
    seen_type_ignore, seen_mypy_ignore,
    type_ignore_lines,      \* <<line, part>>, in order
    mypy_ignore_lines,
    type_comments,          \* the set of <<line, annotation>>, one for a line
    mypy_comments,          \* <<line, configuration>>, in order
    tc_errors               \* <<line, message>>, in order

collected == <<type_ignore_lines, mypy_ignore_lines, type_comments, mypy_comments, tc_errors>>
parsing   == <<at, next_part, ignore_next, stopped, seen_type_ignore, seen_mypy_ignore>>
tcvars    == <<comments, cache_version, parsing, collected>>
-----------------------------------------------------------------------------
(* parse_comment_part and parse_type_comments_full *)

\* The parts that parse_comment_part recognizes.
Parsed == Ignores \cup MypyIgnores \cup Invalid \cup Annotations

\* A part behind a blank one is ignored.
\* A bug for the checks: what is ignored after a blank part goes on.
IgnoreNextMutant(part) == ignore_next \/ part = "blank"
IgnoreNext(part) == part = "blank"

SkipCommented(comment) == comment.alone \/ cache_version < CV_FULL_TYPE_COMMENTS

\* The configuration check looks at the text of the whole comment: an ignore
\* must be followed by its end, a space or a bracket.
IsInlineConfig(comment) ==
    /\ comment.first
    /\ \/ comment.parts[1] \in Configs
       \/ comment.parts[1] = "mypy_ignore" /\ comment.tight /\ Len(comment.parts) > 1
-----------------------------------------------------------------------------
TCInit ==
    /\ comments \in Files
    /\ cache_version \in CacheVersions
    /\ at = 0
    /\ next_part = 1 /\ ignore_next = FALSE /\ stopped = FALSE
    /\ seen_type_ignore = FALSE /\ seen_mypy_ignore = FALSE
    /\ type_ignore_lines = << >> /\ mypy_ignore_lines = << >>
    /\ type_comments = {}
    /\ mypy_comments = << >>
    /\ tc_errors = << >>

Line == comments[at].line
Codes(part) == part \in {"type_ignore_codes", "mypy_ignore_codes"}
Error(message) == tc_errors' = Append(tc_errors, <<Line, message>>)

PartsLeft == at > 0 /\ ~stopped /\ next_part <= Len(comments[at].parts)
CurrentPart == comments[at].parts[next_part]

\* The next comment token: configuration first, then the parts.
NextComment ==
    /\ ~PartsLeft
    /\ at < Len(comments)
    /\ at' = at + 1
    /\ LET comment == comments[at + 1]
       IN mypy_comments' = IF IsInlineConfig(comment)
                           THEN Append(mypy_comments, <<comment.line, comment.parts[1]>>)
                           ELSE mypy_comments
    /\ next_part' = 1 /\ ignore_next' = FALSE /\ stopped' = FALSE
    /\ seen_type_ignore' = FALSE /\ seen_mypy_ignore' = FALSE
    /\ UNCHANGED <<comments, cache_version, type_ignore_lines, mypy_ignore_lines,
                   type_comments, tc_errors>>

\* One turn of the loop over the parts, which has no effects and is followed
\* here by the caller's turn for the part it gives.
Turn ==
    /\ PartsLeft
    /\ next_part' = next_part + 1
    /\ ignore_next' = IgnoreNext(CurrentPart)
    /\ UNCHANGED <<comments, cache_version, at, mypy_comments>>

\* A part that is not given: blank, ignored, or unknown, which ends the loop if
\* the comment may be commented out code.
Pass ==
    /\ Turn
    /\ CurrentPart \notin Parsed \/ ignore_next
    /\ stopped' = (~ignore_next /\ CurrentPart # "blank" /\ SkipCommented(comments[at]))
    /\ UNCHANGED <<seen_type_ignore, seen_mypy_ignore, type_ignore_lines, mypy_ignore_lines,
                   type_comments, tc_errors>>

Part(kinds) ==
    /\ Turn
    /\ CurrentPart \in kinds /\ ~ignore_next
    /\ UNCHANGED stopped

InvalidIgnore ==
    /\ Part(Invalid)
    /\ Error(CurrentPart)
    /\ UNCHANGED <<seen_type_ignore, seen_mypy_ignore, type_ignore_lines, mypy_ignore_lines,
                   type_comments>>

TypeIgnore ==
    /\ Part(Ignores)
    /\ seen_type_ignore' = TRUE
    /\ IF seen_type_ignore
       THEN Error("Multiple type ignores") /\ UNCHANGED type_ignore_lines
       ELSE /\ type_ignore_lines' = Append(type_ignore_lines, <<Line, CurrentPart>>)
            /\ UNCHANGED tc_errors
    /\ UNCHANGED <<seen_mypy_ignore, mypy_ignore_lines, type_comments>>

\* A bug for the checks: the error does not end the handling of the part.
MypyIgnoreLinesMutant(repeated) ==
    Append(mypy_ignore_lines, <<Line, CurrentPart>>)
MypyIgnoreLines(repeated) ==
    IF repeated THEN mypy_ignore_lines
    ELSE Append(mypy_ignore_lines, <<Line, CurrentPart>>)

MypyIgnore ==
    /\ Part(MypyIgnores)
    /\ seen_mypy_ignore' = TRUE
    /\ mypy_ignore_lines' = MypyIgnoreLines(seen_mypy_ignore)
    /\ IF seen_mypy_ignore THEN Error("Multiple mypy ignores") ELSE UNCHANGED tc_errors
    /\ UNCHANGED <<seen_type_ignore, type_ignore_lines, type_comments>>

\* What is recorded for an annotation: an empty one is an error, one that is no
\* expression may be a function's.
Recorded(part) == IF part \in {"regular", "function"} THEN part ELSE "invalid"

\* A bug for the checks: the last annotation of a line replaces the others.
AnnotationAllowedMutant(line) == TRUE
\* There is no annotation for the line yet.
AnnotationAllowed(line) == \A entry \in type_comments : entry[1] # line

TypeAnnotation ==
    /\ Part(Annotations)
    /\ IF AnnotationAllowed(Line)
       THEN /\ type_comments' = {entry \in type_comments : entry[1] # Line}
                                    \cup {<<Line, Recorded(CurrentPart)>>}
            /\ UNCHANGED tc_errors
       ELSE Error("Multiple type comments") /\ UNCHANGED type_comments
    /\ UNCHANGED <<seen_type_ignore, seen_mypy_ignore, type_ignore_lines, mypy_ignore_lines>>

Collected == at = Len(comments) /\ ~PartsLeft
TCDone == Collected /\ UNCHANGED tcvars

TCStep == NextComment \/ Pass \/ InvalidIgnore \/ TypeIgnore \/ MypyIgnore \/ TypeAnnotation
TCSpec == TCInit /\ [][TCStep \/ TCDone]_tcvars
-----------------------------------------------------------------------------
(* What a comment says, without the passes of the code.                      *)

\* The part at i counts: it is recognized, not commented out by ##, and not in
\* the tail of a commented out line of code.
Counts(c, i) ==
    /\ c.parts[i] \in Parsed
    /\ i > 1 => c.parts[i - 1] # "blank"
    /\ (c.alone \/ cache_version < CV_FULL_TYPE_COMMENTS) =>
          \A j \in 1..(i - 1) :
             \/ c.parts[j] \in Parsed \cup {"blank"}
             \/ j > 1 /\ c.parts[j - 1] = "blank"

Counted(c, kinds) == {i \in 1..Len(c.parts) : c.parts[i] \in kinds /\ Counts(c, i)}
First(c, kinds) == c.parts[Min(Counted(c, kinds))]
With(kinds) == {i \in 1..Len(comments) : Counted(comments[i], kinds) # {}}

\* Every line with an ignore that counts is listed once, in the order of the
\* lines, with its first one: the pipeline takes the head of the
\* list for the first of the file and drops entries by their line.
ListsFirst(list, kinds) ==
    /\ \A i, j \in 1..Len(list) : i < j => list[i][1] < list[j][1]
    /\ ToSet(list) = {<<comments[i].line, First(comments[i], kinds)>> : i \in With(kinds)}

\* The ignores of a file are those its comments state, whatever stands next to
\* them and however often: not those commented out by ##, nor those behind a
\* commented out line (parse_type_comments_full, seen_type_ignore).
IgnoresAsStated ==
    Collected => /\ ListsFirst(type_ignore_lines, Ignores)
                 /\ ListsFirst(mypy_ignore_lines, MypyIgnores)

\* Each line has the first of its annotations, and every part that is invalid
\* or a repetition is reported, once.
AnnotationsAsStated ==
    Collected =>
        /\ type_comments = {<<comments[i].line, Recorded(First(comments[i], Annotations))>> :
                               i \in With(Annotations)}
        /\ \A i \in 1..Len(comments) :
              LET c == comments[i]
                  Extra(kinds) == Max({1, Cardinality(Counted(c, kinds))}) - 1
              IN Cardinality({e \in 1..Len(tc_errors) : tc_errors[e][1] = c.line}) =
                    Cardinality(Counted(c, Invalid)) + Extra(Ignores)
                        + Extra(MypyIgnores) + Extra(Annotations)

\* A comment in the code says of "# mypy: ignore" that the check for inline
\* configuration skips what is "already collected in mypy_ignore_lines"
\* (serialize_ast.rs:850-851): no line is both.
ConfigIsNoIgnore ==
    \A i \in 1..Len(mypy_comments), j \in 1..Len(mypy_ignore_lines) :
        mypy_comments[i][1] # mypy_ignore_lines[j][1]
=============================================================================
