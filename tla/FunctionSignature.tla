------------------------- MODULE FunctionSignature --------------------------
(***************************************************************************)
(* Stmt::FunctionDef, for one definition: find_func_type_comment looks     *)
(* for type comments, first between the colon and the first statement, and *)
(* then beside each parameter; serialize_parameters writes the parameters; *)
(* then the body is written or left out, and the return type written.      *)
(*                                                                         *)
(* Type comments are known by their line only.  A line has at most one     *)
(* comment, so the tokens between colon and body are the comments of the   *)
(* lines from the colon's on.                                              *)
(***************************************************************************)
EXTENDS FuncTypeComment, FunctionEffects

CONSTANTS
    Parameters,         \* the parameters a definition may have
    MaxParameters,
    Texts,              \* the type comments on any line
    OddTexts,           \* the type comments of functions without parameters
    MaxLine,            \* the last line before the body
    Bodies              \* the bodies that may be left out

Sections == <<"posonly", "args", "vararg", "kwonly", "kwarg">>
Variadic == {"vararg", "kwarg"}
Place(s) == CHOOSE i \in 1..5 : Sections[i] = s

ASSUME SignatureAssumption ==
    /\ MaxParameters \in Nat /\ MaxLine \in Nat \ {0}
    /\ \A text \in Texts \cup OddTexts : text # NoComment /\ text \in Seq(TokenKinds)
    /\ Parameters \subseteq [section : ToSet(Sections), line : 1..MaxLine,
                             annotated : BOOLEAN, default : BOOLEAN, elided : BOOLEAN]
    /\ \A p \in Parameters : p.section \in Variadic => ~p.default
    /\ Bodies \subseteq Seq(Stmts)

\* The parameters of a definition, in the order of their sections and lines.
ParameterLists ==
    {ps \in SeqOf(Parameters, MaxParameters) :
        \A i \in 2..Len(ps) :
            /\ ps[i - 1].line <= ps[i].line
            /\ Place(ps[i - 1].section) <= Place(ps[i].section)
            /\ ps[i].section \in Variadic => ps[i - 1].section # ps[i].section}

VARIABLES
    func,               \* the definition
    type_comments,      \* the comments of its lines, parsed
    skip_function_bodies,
    overflow_checks,    \* the build checks arithmetic: cargo's dev profile, not release
    stage,              \* "scan", "own", "arguments", "return", "done", "panicked"
    line,               \* the comment looked at, from the body back to the colon
    idx,                \* the parameter looked at
    arg_types,          \* a type comment or NoType, for each parameter
    ret_type,
    errors,             \* the messages reported, in order
    block,              \* "none", "serialized", "empty"
    written             \* what is written for each argument, then for the return type

vars == <<func, type_comments, skip_function_bodies, overflow_checks, stage, line, idx, arg_types, ret_type,
          errors, block, written>>
static == <<func, type_comments, skip_function_bodies, overflow_checks>>

NoType == <<"none">>
Count  == Len(func.parameters)

\* The field in_class stays set in the functions of a method.
in_class == func.enclosing # "module"

Duplicate == "Function has duplicate type signatures"
-----------------------------------------------------------------------------
Pass == <<[kind |-> "pass", id |-> NoName, heads |-> << >>, targets |-> << >>, parts |-> << >>,
           body |-> << >>]>>

Definition(ps, colon, comments, bodies) ==
    [parameters : {ps},
     colon      : {colon},                          \* the line of the colon
     comments   : {comments},                       \* of the lines before the body
     returns    : BOOLEAN,                          \* there is a return annotation
     enclosing  : {"module", "class", "method"},    \* the innermost
     body       : bodies]                           \* no statement: a syntax error
Empty == func.body = << >>

Init ==
    /\ \/ \E ps \in ParameterLists, colon \in 1..MaxLine :
             /\ \A i \in 1..Len(ps) : ps[i].line <= colon
             /\ \E comments \in [1..MaxLine -> Texts \cup {NoComment}] :
                   /\ type_comments = [l \in 1..MaxLine |-> ParsedTypeComment(comments[l])]
                   /\ func \in Definition(ps, colon, comments, {<< >>, Pass})
             /\ Empty => ~func.returns
             /\ skip_function_bodies = FALSE
       \/ \E text \in OddTexts :
             LET comments == [l \in 1..MaxLine |-> IF l = 1 THEN text ELSE NoComment]
             IN /\ type_comments = [l \in 1..MaxLine |-> ParsedTypeComment(comments[l])]
                /\ func \in Definition(<< >>, 1, comments, {Pass})
                /\ ~func.returns /\ func.enclosing = "class"
                /\ skip_function_bodies = FALSE
       \/ \E ps \in ParameterLists :
             LET comments == [l \in 1..MaxLine |-> NoComment]
             IN /\ Len(ps) <= 2 /\ \A i \in 1..Len(ps) : ps[i].line = 1 /\ ~ps[i].annotated
                /\ type_comments = [l \in 1..MaxLine |-> ParsedTypeComment(comments[l])]
                /\ func \in Definition(ps, 1, comments, Bodies)
                /\ ~func.returns
                /\ skip_function_bodies = TRUE
    \* Arithmetic can fail in a function without parameters only.
    /\ overflow_checks \in (IF func.parameters = << >> THEN BOOLEAN ELSE {FALSE})
    /\ arg_types = [i \in 1..Len(func.parameters) |-> NoType]
    /\ ret_type = NoType
    /\ line = MaxLine
    /\ idx = 1
    /\ errors = << >> /\ block = "none" /\ written = << >>
    /\ stage = IF Empty THEN "arguments" ELSE "scan"

\* A bug for the checks: outside of a class, too, a first argument may be left out.
ShiftsMutant(n) == n = Count - 1
\* The comment leaves out self or cls.  For no parameters the difference wraps
\* around, and is no number of arguments either.
Shifts(n) == n # Count /\ in_class /\ n = Count - 1

\* The arguments of a function's type comment, one for each parameter.
Assigned(args) ==
    CASE Len(args) = Count  -> args
      [] Shifts(Len(args))  -> <<NoType>> \o args
      [] OTHER              -> arg_types

\* Unless arithmetic is checked: then the subtraction panics.
Overflows(args) ==
    /\ overflow_checks /\ in_class /\ Count = 0
    /\ Len(args) # Count /\ ~(Len(args) = 1 /\ IsEllipsis(args[1]))

FunctionComment ==
    /\ stage = "scan" /\ type_comments[line].kind = "function"
    /\ ~Overflows(type_comments[line].args)
    /\ ret_type' = <<"return">>
    /\ LET args == type_comments[line].args
           ellipsis == Len(args) = 1 /\ IsEllipsis(args[1])
       IN /\ arg_types' = IF ellipsis THEN arg_types ELSE Assigned(args)
          /\ errors' = IF ellipsis \/ Len(args) = Count \/ Shifts(Len(args)) THEN errors
                       ELSE Append(errors, IF Len(args) > Count THEN "too many" ELSE "too few")
    /\ stage' = "own"
    /\ UNCHANGED <<static, line, idx, block, written>>

SubtractionPanics ==
    /\ stage = "scan" /\ type_comments[line].kind = "function"
    /\ Overflows(type_comments[line].args)
    /\ stage' = "panicked"
    /\ UNCHANGED <<static, line, idx, arg_types, ret_type, errors, block, written>>

InvalidComment ==
    /\ stage = "scan" /\ type_comments[line].kind = "invalid"
    /\ errors' = Append(errors, "invalid")
    /\ stage' = "own"
    /\ UNCHANGED <<static, line, idx, arg_types, ret_type, block, written>>

\* Regular comments are passed over; the colon ends the search.
OtherComment ==
    /\ stage = "scan" /\ type_comments[line].kind \in {"none", "regular"}
    /\ IF line = func.colon THEN stage' = "own" /\ UNCHANGED line
       ELSE line' = line - 1 /\ UNCHANGED stage
    /\ UNCHANGED <<static, idx, arg_types, ret_type, errors, block, written>>

HasOwn(p) == type_comments[p.line].kind = "regular"

\* A bug for the checks: a parameter's own comment replaces the function's.
KeepsMutant(type) == FALSE
\* A type from the function's comment is kept.
Keeps(type) == type # NoType

OwnComment ==
    /\ stage = "own" /\ idx <= Count
    /\ idx' = idx + 1
    /\ LET p == func.parameters[idx]
       IN CASE ~HasOwn(p) -> UNCHANGED <<arg_types, errors>>
            [] HasOwn(p) /\ Keeps(arg_types[idx]) ->
                 errors' = Append(errors, Duplicate) /\ UNCHANGED arg_types
            [] OTHER ->
                 arg_types' = [arg_types EXCEPT ![idx] = <<"own", p.line>>] /\ UNCHANGED errors
    /\ UNCHANGED <<static, stage, line, ret_type, block, written>>

OwnDone ==
    /\ stage = "own" /\ idx > Count
    /\ stage' = "arguments" /\ idx' = 1
    /\ UNCHANGED <<static, line, arg_types, ret_type, errors, block, written>>

Kind(p) ==
    CASE p.section = "vararg" -> "ARG_STAR"
      [] p.section = "kwarg"  -> "ARG_STAR2"
      [] p.section = "kwonly" -> IF p.default THEN "ARG_NAMED_OPT" ELSE "ARG_NAMED"
      [] OTHER                -> IF p.default THEN "ARG_OPT" ELSE "ARG_POS"

PosOnly(p) == p.section = "posonly" \/ (p.section = "args" /\ p.elided)

\* serialize_argument: an annotation goes before a type comment.
Argument ==
    /\ stage = "arguments" /\ idx <= Count
    /\ LET p == func.parameters[idx]
           comment == arg_types[idx]
       IN /\ errors' = IF p.annotated /\ comment # NoType THEN Append(errors, Duplicate) ELSE errors
          /\ written' = Append(written,
                [kind     |-> Kind(p),
                 type     |-> IF p.annotated THEN <<"annotation">> ELSE comment,
                 pos_only |-> PosOnly(p)])
    /\ idx' = idx + 1
    /\ UNCHANGED <<static, stage, line, arg_types, ret_type, block>>

\* A bug for the checks: a positional-only parameter is not looked at.
FirstParamNameMutant ==
    LET at(section) == {i \in 1..Count : func.parameters[i].section = section}
    IN IF at("args") # {} THEN Min(at("args")) ELSE NoName
FirstParamName ==
    LET at(section) == {i \in 1..Count : func.parameters[i].section = section}
    IN CASE at("posonly") # {} -> Min(at("posonly"))
         [] at("posonly") = {} /\ at("args") # {} -> Min(at("args"))
         [] OTHER -> NoName

\* A body that nothing outside depends on may be left out; attributes are looked
\* for in a class only.
SerializesBody ==
    skip_function_bodies =>
        HasExternallyVisibleEffect(func.body, IF in_class THEN FirstParamName ELSE NoName)

Body ==
    /\ stage = "arguments" /\ idx > Count
    /\ block' = IF SerializesBody THEN "serialized" ELSE "empty"
    /\ stage' = "return"
    /\ UNCHANGED <<static, line, idx, arg_types, ret_type, errors, written>>

\* The return type, and the flag for type comments, which is written for a
\* cache version that has it.
Return ==
    /\ stage = "return"
    /\ errors' = IF func.returns /\ ret_type # NoType THEN Append(errors, Duplicate) ELSE errors
    /\ written' = Append(written,
          [type         |-> IF func.returns THEN <<"annotation">> ELSE ret_type,
           type_comment |-> ret_type # NoType \/ \E i \in 1..Count : arg_types[i] # NoType])
    /\ stage' = "done"
    /\ UNCHANGED <<static, line, idx, arg_types, ret_type, block>>

Done == stage \in {"done", "panicked"} /\ UNCHANGED vars
Next == FunctionComment \/ SubtractionPanics \/ InvalidComment \/ OtherComment \/ OwnComment \/ OwnDone
            \/ Argument \/ Body \/ Return \/ Done
Spec == Init /\ [][Next]_vars
-----------------------------------------------------------------------------
(* PEP 484 says what a signature means.                                      *)

\* The comment of the function, the last one before the body that is for the
\* whole function; 0 if there is none.
Decisive ==
    Max({0} \cup {l \in func.colon..MaxLine :
                     ~Empty /\ type_comments[l].kind \in {"function", "invalid"}})
IsFunction == Decisive > 0 /\ type_comments[Decisive].kind = "function"

\* The arguments its text states, tabulated for the texts met often.
ElementsOf == [text \in Texts |-> Elements(text)]
Stated     == LET text == func.comments[Decisive]
              IN CASE ~IsFunction -> << >>
                   [] IsFunction /\ text \in Texts -> ElementsOf[text]
                   [] OTHER -> Elements(text)
Ellipsis(type) == \E n \in 1..Len(type) : /\ IsEllipsis(SubSeq(type, 1, n))
                                           /\ ReadAs(SubSeq(type, 1, n), type)
Counts(stated) == IsFunction /\ ~(Len(stated) = 1 /\ Ellipsis(Type(stated[1])))

\* The stated argument that is for the parameter at i; 0 for none.
FromFunction(stated, i) ==
    CASE Counts(stated) /\ Len(stated) = Count -> i
      [] Counts(stated) /\ Len(stated) = Count - 1 /\ in_class -> i - 1
      [] OTHER -> 0
FromOwn(i) == ~Empty /\ HasOwn(func.parameters[i])

\* Every parameter gets the type that is meant for it: its annotation, else the
\* argument of the function's comment in its position, without self in a class,
\* else the comment on its own line; and the return type likewise.  The flag
\* says whether a comment was there (find_func_type_comment, serialize_argument).
TypesExact ==
    stage = "done" =>
        LET stated == Stated
            from == [i \in 1..Count |-> FromFunction(stated, i)]
        IN /\ Len(written) = Count + 1
           /\ \A i \in 1..Count :
                 CASE func.parameters[i].annotated -> written[i].type = <<"annotation">>
                   [] ~func.parameters[i].annotated /\ from[i] > 0 ->
                        ReadAs(written[i].type, Type(stated[from[i]]))
                   [] ~func.parameters[i].annotated /\ from[i] = 0 /\ FromOwn(i) ->
                        written[i].type = <<"own", func.parameters[i].line>>
                   [] OTHER -> written[i].type = NoType
           /\ Last(written).type = CASE func.returns -> <<"annotation">>
                                     [] ~func.returns /\ IsFunction -> <<"return">>
                                     [] OTHER -> NoType
           /\ Last(written).type_comment <=>
                 IsFunction \/ \E i \in 1..Count : FromOwn(i)

\* A contradiction is reported exactly once: two comments for a parameter, a comment
\* and an annotation, a wrong number of arguments, an invalid comment; and nothing
\* else is.  What counts is the last function or invalid comment between colon and
\* body.  The code drops those above it, and all that stand before the colon, beside
\* a parameter (find_func_type_comment: the search stops, and parameters take regular
\* comments only): a mistake there is not reported.  In a build that checks
\* arithmetic the call panics instead of reporting that a method without parameters
\* has a comment with arguments.
ContradictionsReported ==
    stage \in {"done", "panicked"} =>
        LET stated == Stated
            number(message) == Cardinality({e \in 1..Len(errors) : errors[e] = message})
            function == {i \in 1..Count : FromFunction(stated, i) > 0}
            own == {i \in 1..Count : FromOwn(i)}
            annotated == {i \in 1..Count : func.parameters[i].annotated}
            too_many == Counts(stated) /\ Len(stated) > Count
            one(condition) == IF condition THEN 1 ELSE 0
        IN IF overflow_checks /\ in_class /\ Count = 0 /\ too_many
           THEN stage = "panicked"
           ELSE /\ stage = "done"
                /\ number(Duplicate) =
                      Cardinality(function \cap own) + Cardinality(annotated \cap (function \cup own))
                      + one(func.returns /\ IsFunction)
                /\ number("too many") = one(too_many)
                /\ number("too few") = one(Counts(stated) /\ Len(stated) < Count
                                              /\ ~(in_class /\ Len(stated) = Count - 1))
                /\ number("invalid") = one(Decisive > 0 /\ ~IsFunction)
                /\ Len(errors) = number(Duplicate) + number("too many") + number("too few")
                                  + number("invalid")

\* Every comment that is a signature is read as one, unless an argument with a
\* star is a product; what else is read as one has its form.
ReadRight(text, parsed) ==
    LET elements == Elements(text)
    IN /\ parsed.kind = "function" =>
             /\ Closing(text) < Len(text) /\ text[Closing(text) + 1] = "->"
             /\ Len(parsed.args) = Len(elements)
             /\ \A n \in 1..Len(elements) : ReadAs(parsed.args[n], Type(elements[n]))
       /\ WellFormed(text) /\ OneStar(text) => parsed.kind = "function"

\* A comment is a function's only if it has the form of one, and then its
\* arguments are the texts between its own commas, in order, without a star in
\* front; stars at the end of one are dropped, a blank one is an empty tuple, or
\* none if it is the last.  Every comment that is a signature is recognized, unless an argument
\* with a star is a product (parse_func_type_comment, function_comment_to_expr).
\* The functions without parameters have all texts there are.
SignaturesRead ==
    stage = "scan" /\ Count = 0 =>
        \A l \in 1..MaxLine :
            func.comments[l] # NoComment => ReadRight(func.comments[l], type_comments[l])

\* When bodies are skipped, exactly those are written that show outside their
\* function: the trivial ones, those of generators, and those that assign to an
\* attribute of the first positional parameter in a class, in whatever target
\* and block, but not in the scope of another definition.  Generators by a yield
\* that only a decorator, a default or a base of an inner definition has are
\* left out: the visitor passes over it (has_externally_visible_effect).  So are
\* targets in which a syntax error has left an empty name, which is what the code
\* takes for that of the first parameter where there is none.
BodiesExact ==
    stage = "done" /\ skip_function_bodies /\ ~HiddenYield(func.body) /\ ~EmptyTarget(func.body) =>
        (block = "serialized" <=>
            \/ IsTrivialBody(func.body)
            \/ IsGenerator(func.body)
            \/ /\ in_class /\ Count > 0 /\ func.parameters[1].section \in {"posonly", "args"}
               /\ DefinesAttribute(func.body, 1))
=============================================================================
