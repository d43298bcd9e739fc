--------------------------- MODULE ExpressionWalk ---------------------------
(***************************************************************************)
(* The walk over a statement, an expression or a pattern: the recursion of *)
(* Stmt::serialize, Expr::serialize, Pattern::serialize and serialize_type *)
(* is the sequence of items still to do, and the fields of the serializer  *)
(* are what the items read, set and restore.  It starts as a part of       *)
(* serialize_python_file, which ends with serialize_imports, or by         *)
(* serialize_type_string.                                                  *)
(***************************************************************************)
EXTENDS Statements

CONSTANTS
    Trees,          \* the trees that are serialized
    TypeStrings,    \* the strings, as nodes, given to parse_type_string
    CacheVersions

ASSUME CacheVersionsAssumption == CacheVersions \subseteq Nat

ASSUME TreesAssumption ==
    /\ Trees \cup TypeStrings \subseteq Nodes
    /\ \A t \in Trees : t.kind \in ExprKinds \cup Patterns \cup StmtKinds
    /\ \A t \in TypeStrings : t.kind = "str"

VARIABLES
    tree,
    todo,                   \* the items still to do
    bytes,                  \* the tokens written
    is_evaluated,           \* the current type is evaluated at run time
    has_surrogates,         \* of the string being written
    uses_template_strings,
    extra_errors,           \* where errors were added
    current_unreachable,
    location_override,      \* serialize_type_string was given the location
    panicked,
    in_function,
    imports,                \* Serializer.imports
    import_bytes            \* the tokens of the list of imports

fields == <<is_evaluated, has_surrogates, uses_template_strings, extra_errors, panicked>>
origin == <<tree, cache_version, current_unreachable, location_override>>
importing == <<in_function, imports, import_bytes>>
vars == <<origin, todo, bytes, fields, importing>>

TypeOK ==
    /\ cache_version \in CacheVersions
    /\ {is_evaluated, has_surrogates, uses_template_strings, current_unreachable,
        location_override, panicked, in_function} \subseteq BOOLEAN
    /\ \A i \in DOMAIN extra_errors : extra_errors[i] \in Seq(Nat)
    /\ panicked => todo = <<>>

Root == Place(<<>>)

Init ==
    /\ cache_version \in CacheVersions
    /\ current_unreachable \in BOOLEAN
    /\ \/ /\ tree \in Trees
          /\ todo = Serialize(tree, Root)
          /\ is_evaluated = TRUE /\ location_override = FALSE
       \/ /\ tree \in TypeStrings                         \* serialize_type_string
          /\ todo = StringType(tree, Root) \o Location(Root) \o End
          /\ is_evaluated = FALSE /\ location_override = TRUE
    /\ bytes = <<>> /\ extra_errors = <<>>
    /\ has_surrogates = FALSE /\ uses_template_strings = FALSE /\ panicked = FALSE
    /\ in_function = FALSE /\ imports = <<>> /\ import_bytes = <<>>
-----------------------------------------------------------------------------
Doing(item) == todo # <<>> /\ todo[1].do = item
Replaced(items) == todo' = items \o Tail(todo)
Written(token) == bytes' = Append(bytes, token)
Static == UNCHANGED <<origin, importing>>

WriteToken ==
    /\ Doing("write")
    /\ Written(todo[1].token) /\ Replaced(<<>>)
    /\ UNCHANGED fields /\ Static

SerializeNode ==
    /\ Doing("node")
    /\ Replaced(NodeLayout(todo[1].node, todo[1].place))
    /\ UNCHANGED <<bytes, fields>> /\ Static

\* serialize_fstring_elements of a format spec.
SerializeSpec ==
    /\ Doing("elements")
    /\ Replaced(ElementsLayout(todo[1].node.args, todo[1].place))
    /\ UNCHANGED <<bytes, fields>> /\ Static

SerializeType ==
    /\ Doing("type")
    /\ Replaced(TypeLayout(todo[1].node, todo[1].place))
    /\ UNCHANGED <<bytes, fields>> /\ Static

SerializeTypeInList ==
    /\ Doing("type in list")
    /\ Replaced(TypeInListLayout(todo[1].node, todo[1].place))
    /\ UNCHANGED <<bytes, fields>> /\ Static

\* write_location: what was given to serialize_type_string overrides the range.
LocationToken(place) ==
    IF location_override THEN <<"given">> ELSE <<"location", place.path>>
WriteLocation ==
    /\ Doing("location")
    /\ Written(LocationToken(todo[1].place)) /\ Replaced(<<>>)
    /\ UNCHANGED fields /\ Static

Restore(value) == <<[do |-> "restore", value |-> value]>>

\* A bug for the checks: after it, types are taken to be evaluated.
EnterUnevaluatedMutant ==
    /\ Doing("unevaluated")
    /\ is_evaluated' = FALSE
    /\ Replaced(todo[1].items \o Restore(TRUE))
    /\ UNCHANGED <<bytes, has_surrogates, uses_template_strings, extra_errors, panicked>> /\ Static

\* A string or comment is written with is_evaluated off, and the field put back.
EnterUnevaluated ==
    /\ Doing("unevaluated")
    /\ is_evaluated' = FALSE
    /\ Replaced(todo[1].items \o Restore(is_evaluated))
    /\ UNCHANGED <<bytes, has_surrogates, uses_template_strings, extra_errors, panicked>> /\ Static
LeaveUnevaluated ==
    /\ Doing("restore")
    /\ is_evaluated' = todo[1].value /\ Replaced(<<>>)
    /\ UNCHANGED <<bytes, has_surrogates, uses_template_strings, extra_errors, panicked>> /\ Static
WriteIsEvaluated ==
    /\ Doing("evaluated")
    /\ Written(<<"evaluated", is_evaluated>>) /\ Replaced(<<>>)
    /\ UNCHANGED fields /\ Static

ResetHasSurrogates ==
    /\ Doing("reset")
    /\ has_surrogates' = FALSE /\ Replaced(<<>>)
    /\ UNCHANGED <<bytes, is_evaluated, uses_template_strings, extra_errors, panicked>> /\ Static

\* check_surrogate_codepoint looks at the source only of a part whose value has
\* a replacement character, and only while none was found in the string.
CheckOutcome(part) ==
    IF "R" \notin ToSet(Value(part)) \/ has_surrogates THEN "skipped" ELSE Scan(part)

\* A bug for the checks: the walk goes on after a panic.
CheckSurrogatesMutant ==
    /\ Doing("check")
    /\ has_surrogates' = (has_surrogates \/ CheckOutcome(todo[1].part) = "found")
    /\ panicked' = (panicked \/ CheckOutcome(todo[1].part) = "panicked")
    /\ Replaced(<<>>)
    /\ UNCHANGED <<bytes, is_evaluated, uses_template_strings, extra_errors>> /\ Static

CheckSurrogates ==
    /\ Doing("check")
    /\ has_surrogates' = (has_surrogates \/ CheckOutcome(todo[1].part) = "found")
    /\ panicked' = (CheckOutcome(todo[1].part) = "panicked")
    /\ IF panicked' THEN todo' = <<>> ELSE Replaced(<<>>)
    /\ UNCHANGED <<bytes, is_evaluated, uses_template_strings, extra_errors>> /\ Static

WriteHasSurrogates ==
    /\ Doing("flag")
    /\ IF cache_version >= CV_UNICODE_SURROGATE
       THEN Written(<<"surrogates", has_surrogates>>) ELSE UNCHANGED bytes
    /\ Replaced(<<>>)
    /\ UNCHANGED fields /\ Static

MarkTemplateStrings ==
    /\ Doing("template")
    /\ uses_template_strings' = TRUE /\ Replaced(<<>>)
    /\ UNCHANGED <<bytes, is_evaluated, has_surrogates, extra_errors, panicked>> /\ Static

WriteIsUnreachable ==
    /\ Doing("unreachable")
    /\ Written(<<"bool", current_unreachable>>) /\ Replaced(<<>>)
    /\ UNCHANGED fields /\ Static

ReportError ==
    /\ Doing("error")
    /\ extra_errors' = Append(extra_errors, todo[1].place.path) /\ Replaced(<<>>)
    /\ UNCHANGED <<bytes, is_evaluated, has_surrogates, uses_template_strings, panicked>> /\ Static

\* Stmt::FunctionDef: its body is in a function, and the field put back.
\* A bug for the checks: it is cleared.
EnterFunctionMutant ==
    /\ Doing("function")
    /\ in_function' = TRUE
    /\ Replaced(todo[1].items \o <<[do |-> "leave", value |-> FALSE]>>)
    /\ UNCHANGED <<origin, bytes, fields, imports, import_bytes>>

EnterFunction ==
    /\ Doing("function")
    /\ in_function' = TRUE
    /\ Replaced(todo[1].items \o <<[do |-> "leave", value |-> in_function]>>)
    /\ UNCHANGED <<origin, bytes, fields, imports, import_bytes>>
LeaveFunction ==
    /\ Doing("leave")
    /\ in_function' = todo[1].value /\ Replaced(<<>>)
    /\ UNCHANGED <<origin, bytes, fields, imports, import_bytes>>

\* make_import_flags, outside of branches for mypy only.
MakeImportFlags(is_lazy) ==
    (IF in_function THEN {} ELSE {"TOP_LEVEL"})
    \cup (IF current_unreachable THEN {"UNREACHABLE"} ELSE {})
    \cup (IF is_lazy THEN {"LAZY"} ELSE {})

WriteImportFlags ==
    /\ Doing("flags")
    /\ IF cache_version >= CV_IMPORT_FLAGS
       THEN Written(<<"flags", MakeImportFlags(todo[1].lazy)>>) ELSE UNCHANGED bytes
    /\ Replaced(<<>>)
    /\ UNCHANGED fields /\ Static

PushImport ==
    /\ Doing("import")
    /\ imports' = Append(imports, [entry |-> todo[1].entry, flags |-> MakeImportFlags(todo[1].lazy)])
    /\ Replaced(<<>>)
    /\ UNCHANGED <<origin, bytes, fields, in_function, import_bytes>>

SerializeImports ==
    /\ todo = <<>> /\ ~panicked /\ ~location_override
    /\ import_bytes = <<>>
    /\ import_bytes' = ImportStream(imports)
    /\ UNCHANGED <<origin, todo, bytes, fields, in_function, imports>>

Next ==
    \/ WriteToken \/ SerializeNode \/ SerializeSpec \/ SerializeType \/ SerializeTypeInList \/ WriteLocation
    \/ EnterUnevaluated \/ LeaveUnevaluated \/ WriteIsEvaluated
    \/ ResetHasSurrogates \/ CheckSurrogates \/ WriteHasSurrogates
    \/ MarkTemplateStrings \/ WriteIsUnreachable \/ ReportError
    \/ EnterFunction \/ LeaveFunction \/ WriteImportFlags \/ PushImport \/ SerializeImports

Spec == Init /\ [][Next]_vars
-----------------------------------------------------------------------------
(* Properties. *)

\* The nodes that are met on the way down a path.
Descent(n, path) ==
    LET at[k \in 0..Len(path)] ==
            IF k = 0 THEN {n}
            ELSE {m.args[path[k]] : m \in {m \in at[k - 1] : path[k] \in DOMAIN m.args}}
    IN at

\* A place after the last child: the name of a pattern, or of what is caught.
IsName(m, i) == m.kind \in Patterns \cup {"handler"} /\ i = Len(m.args) + 1

\* The node at a path, if there is one in the text of the file: what a string or
\* a comment was parsed to has ranges of another text.
NodesAt(n, path) ==
    LET end == Len(path) IN
    Descent(n, path)[end]
    \cup (IF path = <<>> THEN {} ELSE {m \in Descent(n, path)[end - 1] : IsName(m, path[end])})

\* Every location that is written is one in the file, in a string or a comment
\* that is a type too: at any depth and through strings in strings, what was
\* parsed from its text has been moved to the string or to what the comment is
\* about, since a position in the little text would be taken for one in the file.
LocationsInFile ==
    \A i \in DOMAIN bytes : bytes[i][1] = "location" => NodesAt(tree, bytes[i][2]) # {}

\* A union says that it is evaluated at run time exactly if it stands in an
\* annotation itself, not in a string or comment: the field is put back after
\* each string, also within another one, and after each comment of a parameter,
\* before the types that follow.
EvaluatedExact ==
    \A i \in DOMAIN bytes : bytes[i][1] = "evaluated" /\ i < Len(bytes) =>
        bytes[i][2] <=> /\ bytes[i + 1][1] = "location"
                        /\ \E n \in NodesAt(tree, bytes[i + 1][2]) : n.kind = "binop"
=============================================================================
