--------------------------- MODULE SerializeFile ----------------------------
(***************************************************************************)
(* One call of parse (lib.rs) through serialize_python_file: from a file   *)
(* that others may rewrite meanwhile, or from a source argument, to what   *)
(* is returned to mypy.  The comments are collected by TypeComments; the   *)
(* walk over the tree is the module Serializer, of which only the outcome  *)
(* matters here.                                                           *)
(*                                                                         *)
(* A content of a file is what the parser and the walk make of it.  The    *)
(* lines the walk skips depend on what the options say of a name N.        *)
(* A call shares nothing with other calls but the file, so one is enough.  *)
(***************************************************************************)
EXTENDS TypeComments

CONSTANTS
    Sources,            \* the contents of the file a call may be about
    Given,              \* the source arguments
    Rewritten,          \* the contents others write to the file
    NoSource,           \* no source argument: the file is read
    Unreadable,         \* no such file, no UTF-8
    StubPackage,        \* the file is __init__.pyi
    MaxRewrites         \* how often they do

Truths == {"always true", "always false", "open"}
Contents ==
    [comments        : Files,
     first_statement : Nat,                     \* its line, 0 if there is none
     errors          : Nat,                     \* syntax errors
     skipped         : [Truths -> SUBSET Nat],  \* lines of unreachable blocks
     extra_errors    : Nat,                     \* errors found by the walk
     getattr         : BOOLEAN]                 \* a top-level __getattr__

ASSUME SourcesAssumption ==
    /\ Sources \cup Given \cup Rewritten \subseteq Contents \cup {Unreadable}
    /\ Unreadable \notin Contents /\ NoSource \notin Given
    /\ StubPackage \in BOOLEAN
    /\ MaxRewrites \in Nat

VARIABLES
    disk,               \* the file's content
    rewrites,
    source,             \* the source argument, or NoSource
    stage,
    text,               \* the source text
    hash,               \* its hash, taken as the text it stands for
    asked,              \* what the caller asked for, of the three below
    skip_function_bodies,
    always_true, always_false,      \* the options, subsets of {"N"}
    top_unreachable,
    skipped_lines,
    errors,             \* how many of a kind
    retained,           \* the ignores returned, of each list (their order is not)
    result              \* "none", "tree", "ignored", "error"

outcome == <<retained, result>>
vars == <<tcvars, disk, rewrites, source, stage, text, hash, skip_function_bodies,
          asked, always_true, always_false, top_unreachable, skipped_lines, errors, outcome>>
options == <<skip_function_bodies, asked, always_true, always_false>>
-----------------------------------------------------------------------------
Init ==
    /\ \/ source = NoSource /\ disk \in Sources
       \/ source \in Given /\ disk = Unreadable
    /\ rewrites = 0
    /\ stage = "read"
    /\ text = Unreadable /\ hash = Unreadable
    /\ asked \in [skip_function_bodies : BOOLEAN,
                 always_true : SUBSET {"N"}, always_false : SUBSET {"N"}]
    /\ skip_function_bodies = asked.skip_function_bodies
    /\ always_true = asked.always_true /\ always_false = asked.always_false
    /\ top_unreachable = FALSE
    /\ skipped_lines = {}
    /\ errors = [blocker |-> 0, module |-> 0, walk |-> 0]
    /\ result = "none" /\ retained = [type |-> {}, mypy |-> {}]
    /\ comments = << >> /\ cache_version \in CacheVersions
    /\ at = 0 /\ next_part = 1 /\ ignore_next = FALSE /\ stopped = FALSE
    /\ seen_type_ignore = FALSE /\ seen_mypy_ignore = FALSE
    /\ type_ignore_lines = << >> /\ mypy_ignore_lines = << >> /\ type_comments = {}
    /\ mypy_comments = << >> /\ tc_errors = << >>

\* Somebody else saves the file.
Rewrite ==
    /\ rewrites < MaxRewrites
    /\ disk' \in Rewritten
    /\ rewrites' = rewrites + 1
    /\ UNCHANGED <<tcvars, source, stage, text, hash, options, top_unreachable, skipped_lines,
                   errors, outcome>>

\* A bug for the checks: a file that cannot be read is tried again.
AfterReadMutant(read) == "read"
AfterRead(read) == IF read = Unreadable THEN "failed" ELSE "hash"

\* The argument's text, UTF-8 checked by parse, or the file read in one go.
Read ==
    /\ stage = "read"
    /\ LET read == IF source = NoSource THEN disk ELSE source
       IN /\ IF read = Unreadable
             THEN stage' = AfterRead(read) /\ UNCHANGED text
             ELSE stage' = "hash" /\ text' = read
          /\ result' = IF stage' = "failed" THEN "error" ELSE "none"
    /\ UNCHANGED <<tcvars, disk, rewrites, source, hash, options, top_unreachable,
                   skipped_lines, errors, retained>>

\* A bug for the checks: the file is read again for its hash.
HashedMutant == IF source = NoSource /\ disk # Unreadable THEN disk ELSE text
Hashed == text

Hash ==
    /\ stage = "hash"
    /\ hash' = Hashed
    /\ stage' = "parse"
    /\ UNCHANGED <<tcvars, disk, rewrites, source, text, options, top_unreachable, skipped_lines,
                   errors, outcome>>

\* parse_unchecked always gives a tree, and the syntax errors.
Parse ==
    /\ stage = "parse"
    /\ comments' = text.comments
    /\ errors' = [errors EXCEPT !.blocker = text.errors]
    /\ stage' = "comments"
    /\ UNCHANGED <<cache_version, parsing, collected,
                   disk, rewrites, source, text, hash, options, top_unreachable, skipped_lines,
                   outcome>>

Collect ==
    /\ stage = "comments"
    /\ TCStep
    /\ UNCHANGED <<disk, rewrites, source, stage, text, hash, options, top_unreachable,
                   skipped_lines, errors, outcome>>

\* There is a directive of the kind, and not one of the other kinds after it.
LastOf(kind, others) ==
    \E i \in 1..Len(mypy_comments) :
        /\ mypy_comments[i][2] = kind
        /\ \A j \in (i + 1)..Len(mypy_comments) : mypy_comments[j][2] \notin others

\* resolve_overrides: the last ignore_errors counts, and only its true one.
IgnoreErrorsMutant == LastOf("ignore_errors_on", {})
IgnoreErrors == LastOf("ignore_errors_on", {"ignore_errors_off"})

Named(kind) == IF LastOf(kind, {}) THEN {"N"} ELSE {}

\* A bug for the checks: the names of the file replace those of the caller.
ExtendedMutant(names, inline) == inline
Extended(names, inline) == names \cup inline

Override ==
    /\ stage = "comments"
    /\ Collected
    /\ always_true'  = Extended(always_true, Named("always_true"))
    /\ always_false' = Extended(always_false, Named("always_false"))
    /\ skip_function_bodies' = (skip_function_bodies \/ IgnoreErrors)
    /\ stage' = "ignores"
    /\ UNCHANGED <<tcvars, asked, disk, rewrites, source, text, hash, top_unreachable,
                   skipped_lines, errors, outcome>>

\* The first ignore of the file; a mypy: ignore stands for a line with both.
\* A bug for the checks: the first type: ignore, if there is one.
FirstIgnoreMutant ==
    IF type_ignore_lines # << >> THEN Head(type_ignore_lines) ELSE Head(mypy_ignore_lines)
FirstIgnore ==
    IF \/ mypy_ignore_lines = << >>
       \/ /\ type_ignore_lines # << >>
          /\ Head(type_ignore_lines)[1] < Head(mypy_ignore_lines)[1]
    THEN Head(type_ignore_lines)
    ELSE Head(mypy_ignore_lines)

IgnoreModule ==
    /\ stage = "ignores"
    /\ top_unreachable' = (/\ type_ignore_lines # << >> \/ mypy_ignore_lines # << >>
                           /\ FirstIgnore[1] < text.first_statement)
    /\ IF top_unreachable'
       THEN /\ type_ignore_lines' = << >> /\ mypy_ignore_lines' = << >>
            /\ errors' = [errors EXCEPT !.module = IF Codes(FirstIgnore[2]) THEN 1 ELSE 0]
       ELSE UNCHANGED <<type_ignore_lines, mypy_ignore_lines, errors>>
    /\ stage' = "walk"
    /\ UNCHANGED <<comments, cache_version, parsing,
                   type_comments, mypy_comments, tc_errors, disk, rewrites, source, text, hash,
                   options, skipped_lines, outcome>>

\* What the options say of N: always_true is asked first.
Truth == CASE "N" \in always_true -> "always true"
           [] "N" \in always_false \ always_true -> "always false"
           [] OTHER -> "open"

\* The walk, or a single 0 for a module that is ignored.
Walk ==
    /\ stage = "walk"
    /\ IF top_unreachable THEN UNCHANGED <<skipped_lines, errors>>
       ELSE /\ skipped_lines' = text.skipped[Truth]
            /\ errors' = [errors EXCEPT !.walk = text.extra_errors]
    /\ stage' = "retain"
    /\ UNCHANGED <<tcvars, disk, rewrites, source, text, hash, options, top_unreachable, outcome>>

\* A bug for the checks: the ignores on skipped lines are kept.
RetainedMutant(list) == {list[i] : i \in 1..Len(list)}
Retained(list) == {list[i] : i \in {j \in 1..Len(list) : list[j][1] \notin skipped_lines}}

Retain ==
    /\ stage = "retain"
    /\ retained' = [type |-> Retained(type_ignore_lines), mypy |-> Retained(mypy_ignore_lines)]
    /\ result' = IF top_unreachable THEN "ignored" ELSE "tree"
    /\ stage' = "done"
    /\ UNCHANGED <<tcvars, disk, rewrites, source, text, hash, options, top_unreachable,
                   skipped_lines, errors>>

is_partial_package == StubPackage /\ ~top_unreachable /\ text.getattr

Step == Read \/ Hash \/ Parse \/ Collect \/ Override \/ IgnoreModule \/ Walk \/ Retain
Done == stage \in {"done", "failed"} /\ UNCHANGED vars
Next == Step \/ Rewrite \/ Done
Spec == Init /\ [][Next]_vars /\ WF_vars(Step)
-----------------------------------------------------------------------------
(* What is returned, as a function of the text the returned hash is of.      *)

\* When all comments are looked at, and nothing else is done yet, the ignores
\* collected are those the comments of the hashed text state (IgnoresAsStated),
\* however they stand beside each other on their lines.
IgnoresExact == stage = "comments" => comments = hash.comments /\ IgnoresAsStated

\* So are the annotations, and the errors returned for the comments, which no
\* later step changes (AnnotationsAsStated, SyntaxError).
AnnotationsExact ==
    stage \notin {"read", "hash", "parse", "failed"} =>
        comments = hash.comments /\ AnnotationsAsStated

Returned == result \in {"tree", "ignored"}

\* The comments of the hashed text that state an ignore.
Stated(kinds) == {c \in ToSet(hash.comments) : Counted(c, kinds) # {}}
Before == {c \in Stated(Ignores \cup MypyIgnores) : c.line < hash.first_statement}

\* The comment that ignores the module, and the ignores in it that are listed.
FirstBefore == {c \in Before : \A d \in Before : c.line <= d.line}
Listed(c) == {First(c, kinds) : kinds \in {k \in {Ignores, MypyIgnores} : Counted(c, k) # {}}}

\* A module is ignored exactly if a type: ignore or a mypy: ignore that counts
\* stands before its first statement, in the text that is hashed; its syntax
\* errors are returned all the same, and error codes are refused when every
\* ignore of the first such line has them (serialize_python_file).
WholeModuleExact ==
    Returned =>
        /\ result = "ignored" <=> Before # {}
        /\ errors.blocker = hash.errors
        /\ errors.module = 1 => Before # {}
        /\ \A c \in FirstBefore :
              /\ (\A part \in Listed(c) : Codes(part)) => errors.module = 1
              /\ (\A part \in Listed(c) : ~Codes(part)) => errors.module = 0

\* What the caller's options and the directives of the hashed text say of N
\* together: a directive adds to the options, and always_true wins.
HashTruth ==
    LET directed(kind) == \E c \in ToSet(hash.comments) : c.first /\ c.parts[1] = kind
    IN CASE "N" \in asked.always_true \/ directed("always_true") -> "always true"
         [] /\ ~("N" \in asked.always_true \/ directed("always_true"))
            /\ "N" \in asked.always_false \/ directed("always_false") -> "always false"
         [] OTHER -> "open"

\* The ignores returned are those the hashed text states outside the lines the
\* walk of that very text skips under the caller's options and the text's own
\* directives, none of which replaces the other; none if the module is ignored.
RetainedExact ==
    Returned =>
        LET kept(kinds) == IF result = "ignored" THEN {}
                           ELSE {c.line : c \in Stated(kinds)} \ hash.skipped[HashTruth]
            lines(entries) == {entry[1] : entry \in entries}
        IN /\ lines(retained.type) = kept(Ignores)
           /\ lines(retained.mypy) = kept(MypyIgnores)

\* Bodies are skipped if the caller says so, or the file does and does not take
\* it back in a later comment: a file cannot undo what the caller asked for.
SkipsExact ==
    Returned =>
        LET says(kind) == {c \in ToSet(hash.comments) : c.first /\ c.parts[1] = kind}
        IN skip_function_bodies <=>
              \/ asked.skip_function_bodies
              \/ \E c \in says("ignore_errors_on") :
                    \A d \in says("ignore_errors_off") : d.line < c.line

\* Every call returns or raises, however the file is rewritten meanwhile.
Returns == <>(stage \in {"done", "failed"})
=============================================================================
