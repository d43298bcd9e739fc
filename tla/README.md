# ast_serialize in TLA+

`ast_serialize` is a Python extension written in Rust. It parses a Python file with ruff's
parser and serializes the syntax tree into the binary format mypy's native parser reads, together
with what mypy wants to know about a file before it reads its tree: the imports, the lines of
`type: ignore` comments, the errors, and whether the file is a partial package. This directory holds
TLA+ models of that program, the configurations TLC checks them with, and proofs checked by TLAPS.

Paths below are relative to the repository; `serialize_ast.rs` is `src/src/serialize_ast.rs`, and so
on for the other files of the crate.

## 1. The system

| part | code | state | operations |
|---|---|---|---|
| entry points | `lib.rs` | none; `parse` releases the GIL and may run in many threads | `parse`, `parse_type_string` |
| pipeline | `serialize_ast.rs:180-377` | locals of one call | read, hash, normalise newlines, parse, collect comments, apply inline options, module-wide ignore, serialize, filter the ignores |
| comments | `serialize_ast.rs:820-990`, `type_comment.rs` | lists of ignores, map of type comments by line | extraction, parsing of `# type:` and `# mypy:` comments |
| inline options | `mypy_inline_config.rs` | overrides | parse and merge `# mypy:` directives |
| reachability | `reachability.rs` | none (recursive functions) | truth value of a condition or a pattern for mypy |
| chains | `serialize_ast.rs:2122-2213` | `IfReachabilityAnalyzer` | the flags of each branch of an `if` or `match` |
| serializer | `serialize_ast.rs:462-2291` | `Serializer`: bytes, imports, context fields, skipped lines, errors | one `serialize` per statement, blocks |
| effects | `func_effect_visitor.rs` | two flags of a visitor | may a function's body be omitted |
| signatures | `serialize_ast.rs:1127-1480`, `type_comment.rs:219-330` | locals | type comments of functions, parameters, return types |
| expressions, patterns | `serialize_ast.rs:2293-3100` | `has_surrogates` | one `serialize` per node |
| types | `serialize_ast.rs:3100-3530` | `is_evaluated`, `location_override` | `serialize_type` per node, strings and comments parsed as types |
| positions, integers | `serialize_ast.rs:462-672` | none | variable-length integers, lines and columns |
| import metadata | `serialize_ast.rs:3534-3671` | none | flags, and the separate stream of imports |
| reader | mypy (external) | position in the stream | rebuilds the tree |

One call of `parse` is sequential and shares nothing with other calls except the files it reads; a
file may change under it. What is hard is therefore not scheduling but *context*. The serializer is
one recursive walk over a tree of any depth, with fields (`in_class`, `in_function`,
`current_unreachable`, `current_mypy_only`, `is_evaluated`, `has_surrogates`, `location_override`)
that are set before a part, put back after it by hand, and read far below. Several outputs (the
tokens, the import metadata, the skipped lines, the partial-package flag) are produced by the same
walk and must agree. The stream has no separators, so its counts, optional parts and versions must
match what follows. And reachability is two-world logic (what mypy sees, what Python runs) with five
values.

What makes each part correct:

* reachability: a truth value says exactly what a condition can be when mypy reads the file;
* chains: exactly the blocks mypy cannot enter are marked unreachable, and a block marked mypy-only
  is never the one Python runs;
* serializer: the context fields describe the blocks around the current statement; import flags,
  skipped lines and the partial-package flag are what the tree says; the tokens can be read back
  into the same tree by a reader that knows the grammar only, for every cache version;
* expressions and types: every location is one in the file, a union knows whether it is evaluated,
  a string whether it has a surrogate;
* effects: what is omitted is not visible outside the function;
* comments: every ignore, annotation and error that a comment states is collected, and nothing else;
* inline options: names read back as written, and the last of several values counts;
* pipeline: hash, tree, ignores and errors are all of the same text, and every call returns;
* signatures: each parameter gets the type meant for it, and a contradiction with the comment that decides is reported once;
* integers and positions: what is written is read back, at every edge of the formats, and is where
  Python says the node is.

`PROJECT.json` lists all parts, modelled or not, and under `hazards` the places that are hard to
test, each with the properties that cover it.

## 2. The modules

| module | models | depends on |
|---|---|---|
| `TruthValues` | `TruthValue`, `invert`, `combine_bool_op`, names, literals, patterns | |
| `InferCondition` | `infer_condition_value` as a stack machine, with the reference evaluation | `TruthValues` |
| `BranchAnalyzer` | `IfReachabilityAnalyzer` | `TruthValues` |
| `ReachableBlocks` | abstract: what a reader of a chain is promised | |
| `IfChain` | a chain or match with the inference of its conditions; implements `ReachableBlocks` | `InferCondition`, `BranchAnalyzer` |
| `SystemChecks` | `consider_sys_version_info`, `consider_sys_platform`, with Python's comparison as reference | `TruthValues` |
| `Serializer` | `Mod::serialize`, `Stmt::serialize`, `serialize_block`, `serialize_if_stmt`, import flags, effects | `BranchAnalyzer` |
| `SerializerReference` | what the serializer's outputs must be, said of the tree; its properties | `Serializer` |
| `StreamReader` | the reader of statements and blocks (external) and the round trip | `SerializerReference` |
| `SyntaxTree` | the tree the parser hands over: the kinds of nodes and the children of each | |
| `Expressions` | the layout of `Expr::serialize` and `Pattern::serialize` | `SyntaxTree` |
| `Types` | the layout of `serialize_type`, annotations, type comments, type parameters | `Expressions` |
| `Statements` | the layout of every statement of `Stmt::serialize`, of blocks and of `serialize_imports` | `Types` |
| `ExpressionWalk` | the walk over one tree, with the fields it sets and puts back, and the list of imports; its properties | `Statements` |
| `ExpressionReader` | the reader of trees and of the list of imports (external), and what it reads back | `ExpressionWalk` |
| `FunctionEffects` | `has_externally_visible_effect` | |
| `FuncTypeComment` | `parse_func_type_comment`, `function_comment_to_expr` | |
| `FunctionSignature` | `Stmt::FunctionDef` for one definition, with its comments and its body | `FuncTypeComment`, `FunctionEffects` |
| `IntCodec` | `write_int`, with the reader of the formats (external) | |
| `Locations` | `write_location`, `add_error`, decorated functions and classes, the line index | `IntCodec` |
| `TypeComments` | `extract_type_comments_and_ignores`, `parse_type_comments_full` | |
| `SerializeFile` | `serialize_python_file`, one call with a file that changes | `TypeComments` |
| `InlineConfig` | `mypy_inline_config.rs` | |
| `MC...` | the inputs TLC checks a module on | the module |
| `IfChainProofs` | theorems on inference and chains | `IfChain`, `ReachableBlocks` |
| `SystemChecksProofs`, `LocationsProofs`, `FunctionSignatureProofs`, `InlineConfigProofs` | theorems | the module |
| `SerializerProofs` | theorems on the walk, the partial-package flag, effects, skipped lines, the metadata of imports and the round trip of statements | `StreamReader` |
| `ExpressionWalkProofs` | theorems on the locations and unions of trees | `ExpressionWalk` |
| `SerializeFileProofs` | theorems on comments and the pipeline | `SerializeFile` |

**InferCondition.** The recursion of `infer_condition_value` is a post-order evaluation: each action
is one return (a name, a literal, a version or platform check, `not`, `and`/`or` over the last `k`
results). `results` holds the values of the calls that have returned and whose caller has not. Beside
the inferred value an entry carries the booleans the expression can really take, for mypy and at run
time. Names are `MYPY`, `PY3` and the like, names of the two option lists, and a plain name; the
answer of a `sys.version_info` or `sys.platform` comparison is one of the three it can be.

**IfChain, ReachableBlocks.** `IfChain` composes the inference with the loop that computes the flags
of all blocks before any is written: `Infer` is a step of `InferCondition`; `Condition`,
`GuardedCase`, `Case` and `Else` take a finished result and advance the analyzer. A block records
its marks and what its condition can be, as the inference's reference has it. `ReachableBlocks` knows
neither truth values nor an analyzer: a block arrives with what its condition can be for mypy, and is
marked unreachable exactly if no evaluation enters it. `MarksReachableBlocks` is that specification
under the mapping that forgets results, analyzer and form; a step of `Infer` stutters.

**SystemChecks.** The state is one condition, chosen in `Init` with a target version, and the truth
value the code answers. `CheckVersion` and `CheckPlatform` are the last attempts of
`infer_condition_value`. The reference is Python's comparison of tuples, where a tuple that is a
proper prefix is the smaller one, asked for every micro version the target may have.

**Serializer.** A program is a sequence of lines, one statement, header or clause each, with a depth;
a block is a run of deeper lines. `AddLine` builds any program ruff's parser can return, including
headers that lost their body to a syntax error. `StartModule` is `Mod::serialize` up to its loop. A
frame of `frames` is an activation of `serialize_block` with the locals its caller will put back
(`was_in_class`, `was_in_function`, `old_unreachable`, `old_mypy_only`); `OpenBlock` and `EndBlock`
are its beginning and end, with the code before and after it in the statement. The context fields,
`imports`, `skipped_lines`, `top_level_getattr` and `bytes` are the fields of the struct. Statements
without a block and without effect on these share `SimpleStmt`; `with` behaves as a loop without
`else`. An expression, a location, a tag or an integer is one token of `bytes` here. The lines of one
statement are one line: comments and statements that share a line are not distinguished. A `while`
or `for` is `loop`; handler types and names of `except` are part of the tag of their `try`.
`HasExternallyVisibleEffect` is here a scan of the lines the visitor walks; `FunctionEffects` has its
inside.

**StreamReader.** The reader needs the next token only: each symbol it expects takes one token and is
replaced by what must follow that token. It is built from the grammar, never from the program.

**SyntaxTree, Expressions, Types, Statements, ExpressionWalk, ExpressionReader.** A node is a record of its
kind, the word that tells variants apart, and its children. The constant `Nodes` holds the nodes of all
trees, with those that strings and comments parse to; `NodesAssumption` says which children each kind has,
as the fields of the structs of `ruff_python_ast` do, and sets no bound on width or depth. `NodeLayout` (with `TypeLayout` for types) gives for a node
the sequence of items to do: tokens, children, a field set, read or put back, an import kept, an error; `ExpressionWalk`
does one item per step, a node being replaced by its own layout, so that what is still to do is the
stack of the recursion. What `serialize_elements` writes of an f-string is a node of its own in this,
and so is a format spec. `is_evaluated`, `has_surrogates`, `location_override`, `in_function` and
`imports` are variables. `Statements` gives every statement token for token, where `Serializer` has one
token for what it does not tell apart; in return the conditions of `if` and `match` are unknown and
all bodies are written, so that a block is never marked (the line and column of a decorator are two
tokens; their values are in `Locations`). `SerializeImports` is the last step of a walk: the entries of
`imports` become a second stream, with the flags each had when it was kept. A
location is the path to the node whose range it is, so that a range of the little text of a string
type cannot be mistaken for one of the file. A string is a sequence of parts, a part a sequence of
symbols: an ordinary character, a backslash, the letter of a `\u` escape of a surrogate or of
another character, or U+FFFD. What a string parses to as a type is chosen together with it.
`parse_type_string` is the second initial state, with the location given by the caller.

**FunctionSignature, FuncTypeComment, FunctionEffects.** The tokens between the colon and the body
are known by the comment of each line. `FunctionComment`, `InvalidComment` and `OtherComment` are the
search back from the body, which `SubtractionPanics` may cut short in a build with overflow checks, `OwnComment` the loop over the parameters, `Argument`, `Body` and `Return`
what is written. The comment itself is a sequence of tokens taken apart by `FuncTypeComment`
(`Turns` is its loop, one `Turn` per token). `FunctionEffects` is the
visitor: `VisitStmt` and `VisitExpr` take a detector through the nodes of a body, one after the other
(`VisitEach`). What nodes there are is given by the constants `Exprs` and `Stmts`, whose `Height`
makes the recursion well-founded. References: what PEP 484 says of comments, annotations and
positions, and which yields and attributes are of the function's own scope.

**IntCodec, Locations.** A sequence of integers is written, then read. `Locations` adds the way from a
node, a range of characters of the file, through byte offsets and the line index to the integers, and
reads them back as Python positions; the characters are the kinds of encoding that differ (one byte,
two, line feed, carriage return, byte order mark). The modulus of a byte is the constant `Base`, so
that the four formats, with their ranges and the sign of the long one, are met with small numbers; 32
is the least power of two for which every format keeps its shape.

**TypeComments, SerializeFile.** A comment is a sequence of parts (what the text is after a split at
`#`), each of a kind, with its line, whether it starts the line, whether it stands alone, and whether
the marks are tight. `TypeComments` visits comment after comment and part after part, one action per
arm of the match. The code splits a comment first and then looks at the parts it got; the loop that
splits (`Turn`, with `ignore_next` and `stopped` for its `break`) has no effects, so that the model
takes both loops together, part by part. `SerializeFile` extends it: its actions are the steps of
`serialize_python_file` in order, the collection being one step per comment and part; `retained` is
what the last one returns of the two lists. `Rewrite` is everybody else: between any
two steps the file on disk may get another text or disappear. The walk is its outcome: the lines
skipped under the options then in force, the errors it adds and whether there is a `__getattr__`.

**InlineConfig.** A comment is made of directives, written bare, with one value or with a list in
quotes (`Text`). The scanner of `split_respecting_quotes` goes over it token by token; tokens are keys,
words, the comma, the quote, the equals sign, the blank and the end of the text. `Merge` parses the
parts (`ParseParts`) and merges what they say into the overrides (`resolve_overrides`). The loops over
the parts and over the pieces of a value are recursive functions.

## 3. The runs

| run | module, cfg | what it shows |
|---|---|---|
| `if_chain` | `MCIfChain`, `MCIfChain.cfg` | the inferred values are exact for mypy; the chain implements `ReachableBlocks`; mypy-only marks are sound |
| `system_checks` | `MCSystemChecks`, `MCSystemChecks.cfg` | the answer to a version or platform check is Python's, for every micro version; a comparison with the target itself gets the opposite one |
| `walk` | `MCSerializer`, `MCSerializer.cfg` | context fields, partial-package flag, omitted bodies, import flags and skipped lines are those of the tree; the tokens read back |
| `expressions` | `MCExpressions`, `MCExpressions.cfg` | statements, expressions, patterns and types read back for four cache versions, and so does the list of imports; locations, evaluated unions and surrogates are exact |
| `function_signature` | `MCFunctionSignature`, `MCFunctionSignature.cfg` | types of parameters and return, contradictions with the comment that decides, what a comment is, bodies omitted |
| `locations` | `MCLocations`, `MCLocations.cfg` | integers read back; positions are Python's on ASCII lines; nesting survives, except at the end of a decorated definition (below) |
| `serialize_file` | `MCSerializeFile`, `MCSerializeFile.cfg` | comments collected as stated; one text behind all results; module-wide ignores; retained ignores under the caller's options and the file's own; skipped bodies; every call returns |
| `inline_config` | `InlineConfig`, `MCInlineConfig.cfg` | names and `ignore_errors` read back as written |
| `inline_doc` | `MCTypeComments`, `MCInlineDoc.cfg` | **violated**: some `mypy: ignore` are taken for configuration as well |
| `columns_doc` | `MCLocations`, `MCColumnsDoc.cfg` | **violated**: columns after non-ASCII text are not code points |
| `escapes_doc` | `MCExpressions`, `MCEscapesDoc.cfg` | **violated**: raw strings do bring an escape without digits to `unreachable!()` |
| `missing_key_doc` | `MCExpressions`, `MCMissingKeyDoc.cfg` | **violated**: the `None` written for a missing key cannot be read |

Bounds.

* `if_chain`: `MaxWaiting` = 3 lets `and`/`or` have three operands, enough for each line of
  `combine_bool_op` to be decided by the presence of a value among two others; `MaxBlocks` = 3 gives
  two conditions before the one whose order matters, and an else.
* `walk`: the programs are given by `Vocabularies` (`MCSerializer`): kinds of line that occur together,
  with a bound of 3 to 6 lines and of 1 to 4 levels of nesting. Five lines give a definition in a
  definition with a statement in each and one after both, or a chain of two conditions with an import
  in each and after it; six lines a try with handler, else and finally. All programs of a vocabulary
  are explored. Its `truths` are the values of conditions that differ for the properties.
* `system_checks`: all operators, both sides, all indices and slices that select something, tuples of
  up to three numbers around the target's.
* `expressions`: every kind of node over a small set of children, so that every field and optional
  part is there and absent; all texts of a string part of up to four symbols, pairs of parts; types
  one level deep in each place a type can stand, in a string, in a string in a string, and in a type
  comment, with types after them; every statement with each of its optional parts, over small blocks and
  empty ones, and imports in a function, in a function of a function, in a class of one, and after it;
  cache versions on both sides of each that is tested for. `Nodes` are those of these trees and strings.
* `function_signature`: three parameters on two lines (a self argument, one before and one after a
  section changes), of which `*args` and `**kwargs` are annotated exactly on the first line, and every
  comment, invalid and function comments included, on every line, before the colon too; without
  parameters, builds with and without overflow checks; for functions without parameters all comments of up to six tokens, and of nine that
  end like a signature; bodies of one and two statements over all shapes of targets, nested once more.
* `locations`: all texts of up to five characters, pairs of nested nodes, each plain or a decorated
  function or class, the inner one on lines of its own below its decorator; sequences of three integers
  from around every edge of the formats.
* `serialize_file`: files of three lines with up to two comments and one rewrite, all answers the
  caller's options can give for the name `N`; one comment of up to
  four parts and pairs of shorter ones. `inline_config`: three directives of up to two
  values, in any number of comments, empty ones among them.

Where a theorem of section 4 states the property, it holds beyond these bounds.

Deadlock is checked except for the runs of `MCExpressions`: a walk over a tree has an end, at which
there is nothing more to do.

Fairness. `Returns` is checked under `WF_vars(Step)`: a call runs on its own thread, holds no lock
and has released the GIL (`lib.rs`), so that a step it can take is taken; nothing is assumed of
`Rewrite`. The other properties are safety properties and assume none. The walk of `Serializer` is
finite by construction (a step passes a line or closes a block), and deadlock is checked, so every
program's walk ends.

Every property is shown to have teeth by a mutant of the code it depends on (`PROJECT.json`,
`mutants`; the operators named `...Mutant`).

### Disagreements with the documentation

Each of these has a run that finds it:

* `serialize_ast.rs:850-851` says that `mypy: ignore` is skipped when inline configuration is looked
  for; `# mypy: ignore# reason` is collected as an ignore and returned as configuration too.
* `serialize_ast.rs:660` says that columns are converted from bytes to code points. The column that is
  converted already counts characters, from 1: on a line that starts with non-ASCII text the result
  is too small, -1 in a location, a wrapped `usize` in an error. Decorated definitions are written
  with columns that are not converted (1564-1580, 1916-1928), and so need not end within a node whose
  columns are: a class whose last method is decorated and ends in `return "x"`, with an x that is not
  ASCII, ends for mypy before that method does. `NestingKept` states this exception.
* `serialize_ast.rs:445` says that a parsed string has no invalid escapes. The scan is made of raw
  strings as well: one with U+FFFD and `\u` without digits reaches `unreachable!()`.
* `serialize_ast.rs:2463` says that a missing key is recovered from by a `None`; the `None` written for
  readers before `CV_DICT_KEY_OPT` lacks the end tag of a name.

More were met while modelling and have no run of their own; the properties leave them out and say so:

* The truth values are documented as statements about run time (`reachability.rs:7-10`), but
  `MYPY or flag` is `MypyTrue` although at run time it is whatever `flag` is (`MypyOnlyNotRun` asks
  for conditions that are what they are documented to be), and `sys.version_info <= (3, 12)` is
  `AlwaysTrue` for the target 3.12 although the micro version makes it false. `AgreesWithPython` says
  of a comparison with the target version itself that it is answered with the opposite of what Python
  says, if at all.
* A comment that is wrong, or for a whole function, is dropped without a word on a line before the
  colon, beside a parameter: the search from the body ends at the colon (1365-1370) and parameters
  take regular comments only (1412-1446). Of several between colon and body the last one counts.
  `ContradictionsReported` says that these are not reported.
* `parameters.len() - 1` (1390) is computed for a method without parameters as well: with overflow
  checks (cargo's default for `dev`, not for `release`) a comment with arguments there is a panic,
  without them it is the error for too many parameters. Both builds are modelled.
* "Skip the self or cls argument in methods" (`serialize_ast.rs:1391`) holds for functions nested in
  methods as well, since `in_class` is not reset by a function; the references follow the code.
* `serialize_ast.rs:166-167` says that module-level functions always have bodies omitted when
  `skip_function_bodies` is set; the code keeps those with a yield and the trivial ones (and its
  comment at the place, 1481-1483, says so).
* The comment of `has_externally_visible_effect` says that yields keep a body; a yield in a decorator,
  default or base of a nested definition, or in a default of a lambda, makes the outer function a
  generator and is not seen. A target of a comprehension is not looked at. The empty name by which a
  function without positional parameters is known to the visitor is also that of a name a syntax error
  left out, so that in such a function an attribute of the latter counts as one of a parameter (`BodiesExact`).
* A string in an interpolation of an f-string resets the outer string's surrogate flag, a raw string
  with U+FFFD and the text of a surrogate's escape is flagged, and the debug text of an interpolation
  in a t-string is dropped (`SurrogatesExact`, `TreeReadsBack`).
* In a function's type comment a star at the end of an argument (`(a *) -> x`) is dropped silently, a
  blank argument or return becomes `()`, and an argument is parsed in parentheses, so that `a) | (b`
  passes for one (`SignaturesRead`).
* Columns of syntax errors are counted from 1, those of `add_error` from 0.

## 4. The proofs

TLAPS checks thirty-one theorems, in eight modules. The assumptions are those of
the modules (`SerializerAssumption`, `MaxBlocksAssumption`, `MaxWaitingAssumption`,
`SystemAssumption`, `SourcesAssumption`, `FilesAssumption`, `CodecAssumption`, `LocationsAssumption`,
`SignatureAssumption`, `InlineAssumption`, `TreesAssumption`, `CacheVersionsAssumption`,
`PythonVersionAssumption`, and the `NodesAssumption` of `FunctionEffects` and that of `SyntaxTree`):
they give the constants their types, say of a file that it has at most one comment to a line, in the
order of the lines, of the integers that their limits stand in the order and at the distance the
formats need, of a type comment that it is a sequence of tokens, of the nodes of a body that each is
higher than those in it and has the parts of its kind, of the nodes of a tree that each has the children
its AST type has fields for (they need not be finite in depth), and of the keys and words of a directive
that none is a comma, quote, equals sign or blank. TLC evaluates them in every run.

| theorem | property | argument |
|---|---|---|
| `InferenceExact` | `MypyExact` | `TypeOK /\ MypyExact` is inductive: the values of the operands decide that of the result (`CombineExact`, by cases on what `combine_bool_op` looks for) |
| `ChainImplementsPromise` | `MarksReachableBlocks` | `ChainInv`, below; every step maps to one of `ReachableBlocks` or a stutter |
| `MypyOnlyEndsChain`, `MypyOnlySound` | `MypyOnlyIsLast`, `MypyOnlyNotRun` | `ChainInv` |
| `VersionChecksExact` | `AgreesWithPython` | `Inv` says where an answer comes from; the order of tuples is decided at their first difference, which is within the shorter one or not (`LessOfLonger`, `HoldsOfLonger`, `CompareVersionExact`) |
| `ComplementsInvert` | `ComplementInverts` | the same invariant, asked of the opposite check |
| `WalkTyped` | `TypeOK` | `IInv`, below |
| `ContextExact` | `ContextMatchesEnclosing` | `IInv`, below |
| `GetattrFlagExact` | `GetattrExact` | `IInv` and `GetattrInv`, below |
| `NoEffectIsHidden` | `EffectsAreWritten` | `IInv` and `EffectsInv`, below |
| `SkippedLines`, `ImportMetadata` | `SkippedLinesExact`, `ImportMetadataExact` | the same and `MetadataInv`, below |
| `StreamRoundTrip` | `StreamReadsBack` | all these and `StreamInv`, below |
| `CommentsAreRead` | `SignaturesRead` | no invariant beyond the types: an argument on the loop of the parser, below |
| `TypesAreMeant`, `ContradictionsAreReported` | `TypesExact`, `ContradictionsReported` | `SigInv`, below |
| `BodiesAreExact` | `BodiesExact` | `BodyDecided` and an argument on the visitor, below |
| `IntegersReadBack`, `LocationsReadBack` | `ReadsBack` | `CodecInv`, below; the second of the stream of a text, whose columns may be negative |
| `PositionsAreExact`, `NestingIsKept` | `PositionsExact`, `NestingKept` | `LInv`, below |
| `WrittenLocationsAreInFile`, `EvaluatedIsExact`, `TypeCorrect` | `LocationsInFile`, `EvaluatedExact`, `TypeOK` (`ExpressionWalk`) | `WalkIsGood`, below |
| `NamesAreRead`, `LastDecides` | `NamesReadBack`, `LastIgnoreErrors` | `ScanInv`, below |
| `IgnoresOfHash`, `AnnotationsOfHash` | `IgnoresExact`, `AnnotationsExact` | `SFInv`, below |
| `WholeModuleOfHash`, `RetainedOfHash`, `SkipsOfHash` | `WholeModuleExact`, `RetainedExact`, `SkipsExact` | `SFInv`, below |

*Chains.* What is promised of a block depends on all conditions before it, but the analyzer keeps two
booleans only. `ChainInv` relates the two: `Marks` is the promise for the blocks that are there,
`SeenFalseMeaning` says that `seen_always_true` is set exactly if no evaluation gets past the
conditions so far, `TailMeaning` what the analyzer will say of the next block, and `MypyOnlyCloses`
that a block marked mypy-only has ended the chain.

*The walk.* `ContextMatchesEnclosing` speaks of all blocks around the next line, `OpenBlock` and
`EndBlock` of the innermost only, so it is not inductive. `IInv` adds what is saved. `StackInv` says
that the frames hold headers one per depth, with only deeper lines since; by `OpenBlocksEnclose` these
are the headers around the next line. `FieldsInv` says the context fields of the lines of all frames,
and `SavedInv` that each frame holds what they were of the frames below it. A block that is opened and
one that is closed are the two steps that change a frame.

*The partial-package flag.* The lines a file keeps are those up to `stop` (`GetattrInv`), and
`top_level_getattr` tells of the lines already passed what `GetattrExact` says of all. A line passed
without being visited is in an omitted body, hence in a function, and not of the module's scope.

*Effects.* `EffectsInv` is said of the tokens: every effect that the walk has passed and that is in no
omitted body is written, no function in an omitted body is, and no open block is in one. The token
that tells of a statement follows its last block; for clauses it is that of the header, found by a
search back over the lines, and `HeadsInv` says that there is one. `EffectsMeaning` draws the
conclusion. Let a function be written whose own scope has the effect. Its body is not omitted, because
the visitor sees the effect; a function within it that has the effect in its body would be the owner;
and one around it is not omitted, or it would not be written itself.

*Metadata.* What the code knows of a branch is carried from clause to clause (`Analyzer`, a recursive
function along the clauses of a statement); the reference quantifies over all conditions tried before
the branch. `AnalyzerExact` shows that the two agree: the closed form `AfterLine` satisfies the equation
of `Analyzer`, and a line where they differ would have a least such line, which continues one where
they agree. `FlagsExact` concludes that the flags of a block are those of `UnreachableBranch` and
`MypyOnlyBranch`. `MetadataInv` says of what the walk has collected that `skipped_lines` holds the lines
behind a failing assert and those in an unreachable branch already opened (`SkipInv`), and that
`imports` has one entry for each name of each written import already passed, and no other, in order
and with the flags of the blocks around it (`EntriesInv`, `CountsInv`).

*The pipeline.* `IgnoresAsStated` and `AnnotationsAsStated` say nothing before the last part of the
last comment. `TCInv` says the same at every part, of the parts already taken
(`Taken`): `LoopInv` relates `ignore_next` and `stopped` to the parts behind, so that what the loop
takes is what counts; `ListsInv`, `AnnotationsInv`, `ErrorsInv` and `ConfigsInv` say of each output what
it holds of them, the number of errors of a line being the repetitions of each kind. `SFInv` holds it
through the pipeline: text, hash and comments are one (`TextInv`, which a rewrite cannot disturb since
the file is read once), the lists are complete once the comments are collected or empty if the module
is ignored (`CommentsInv`), the head that `FirstIgnore` takes is of the first comment with an ignore
(`FirstIgnoreExact`), the last directive that `IgnoreErrors` looks at is that of the last comment
(`IgnoreErrorsExact`), and what the walk is told of a name is what the caller asked for and the
directives of the comments say together (`NamedExact`, `TruthExact`).

*The stream.* `StreamReadsBack` speaks of a reader that starts when the writer has ended; `StreamInv`
(`StreamState`) says of the unfinished stream what the reader still expects after it: for each open
block, from the innermost out, as many statements as its count promised and have not come (`Left`),
then its end and the rest of the statement it belongs to (`AfterBlock`, `Rest`), each in the context of
its own block. That the promises come true needs two facts of programs, that a statement's clauses
follow each other in the order of the grammar and that a block's count is that of the statements kept
in it (`TreeInv`, `FrameKinds`), and that the token of each open header is the one written for it
(`Places`). What the reader has found are the lines whose statement is written, less the headers still
open (`Found`, `Whole`, `OpenHeads`). The reader is a recursive function over the tokens; that it is
what its equation says (`ReadingIs`) is shown by the least place where it would not be.

*Signatures.* What a comment is takes an argument about the loop of `parse_func_type_comment`, token
by token: until the bracket that closes the signature is reached, the nesting is the depth of the
brackets so far, `start` is behind the last comma at depth one, less a star, and the arguments pushed
are the texts between the commas before (`Opened`, `Current`, `Arguments`); at that bracket the loop is
closed, unless it was rejected for a second star (`Closed`, `Rejected`). The reference cuts the same
text at its `Separators`, and a depth within a piece is the depth in the whole less that of the place
where the piece starts. A comment is never an expression and a signature at once, since an arrow is
never parsed (`ArrowFails`), and a star at the end of an argument is not either (`StarFails`), which is
what drops or rejects it. The theorem is proved for the comments of any definition, not only of
those without parameters, to which the run restricts it. `SigInv` follows the comments through the
definition: during the search no comment behind `line` was one for the whole function; after it,
`ret_type` and `arg_types` are those of the decisive comment; in the loop over the parameters
`arg_types` is what is meant (`ArgType`) for those looked at; and of each message there are as many as
contradictions met so far, counted by `Cardinality` of the parameters that have them. Behind the
search the call has panicked exactly if the subtraction overflows for the decisive comment (`PanicInv`,
`Overflowed`), which the comment that stops the search is (`CommentDecides`).

*Bodies.* The visitor and what it is compared with are recursive functions over trees. That each is what
its equation says (`VisitExprIs`, `VisitStmtIs`, `EvaluatedIs` and so on) is one lemma (`FixedPoint`): a recursion in
which the value of a node is made from those of lower nodes has a function that satisfies it. What holds of a node if it
holds of all lower ones holds of all (`AllNodes`). By that, a target contains an attribute exactly if
one of its leaves is one (`LeafIs`), and a visit of nodes finds what shows of them (`FoundIn`): it
finds all assignments to attributes, no yield that is not there, and, unless it has found an assignment, all
yields there are. The last is weaker than it looks, as a statement that assigns to an attribute is not
walked, and it is enough since one effect keeps the body. Visits compose (`FoundThen`), and where
the visitor turns back, at definitions and lambdas, nothing shows unless a yield is hidden there
(`DefinitionsShowNot`). `BodyDecided` carries the answer from `Body` to the end; that the
first name is that of the first parameter needs that parameters are in the order of their sections (`FirstIs`).

*Integers.* `ReadsBack` says that the reader is not lost, for which it must be at a border between
integers: `CodecInv` says that `bytes` is what the integers written give, each at its place
(`Lays`, `Increasing`), and that the cursor is at the place of the next one to be read. The rest is arithmetic:
the digits `LeBytes` writes are the number (`NumberExact`), and the low bits of the first byte tell the
formats apart whatever was written (`LowBits`), where the long form needs that 15 is no first byte of
another format. `Locations` writes its integers four by four, and `CodecInv` holds there as well.

*Positions.* `LInv` adds to `CodecInv` that the index is that of the text (`SourceInv`), what a node of
the tree is (`NodesInv`), and that the integers written are the locations of the nodes so far
(`WriteInv`). The work is in what a location is, for a text of any length. The text is compared with
the file character by character: where the i-th character of the file ends in the text (`TextIs`), that a line
of one is a line of the other (`LinesAre`), hence that the binary search finds the line Python counts (`LineOfIs`)
and that a column counts the characters behind its start, the mark left out (`ColumnIs`). What the
conversion does to a column is to count once more, in characters for bytes: it makes no column
larger, none larger than that of a later place (`ConvertBound`), and changes none up to which the line is ASCII
(`ConvertExact`). With the first two nesting survives, with the last positions are exact. The
columns of a decorated definition are not converted, hence no smaller than those of what is around it: it
starts within that, and ends within it if both are such definitions or the line is ASCII up to the end. That a
location can be written at all needs that the number of characters fits an integer of the format
(`LocationsAssumption`).

*Expressions and types.* The two properties speak of what is written, whose cause may be far above: a
field set by a string around the string around a type, put back by hand in between. `WalkIsGood` is
said of what is *still to do*. What `is_evaluated` will be when the walk comes to an item is known from
its value now and those that are put back before it (`Contexts`), and each item is good in that
context (`Walk`): where the field is on, the place of an item is the path to its very node (`Anchored`);
where it is off, the place was moved to a string, or to what a comment is about, which is in the file
and not a union (`Moved`). A union's flag and its location are two items, and the flag is right of the
location behind it. In a string that is a union they are not neighbours: the location written last is
that of the string, with the field put back in between (`EndAfter`, `StringEnds`). `location_override`
is on for `parse_type_string` only, which writes no location and puts back nothing else than *off*
(`Quiet`). A step replaces an item by its layout, so that the work is to show every layout good
wherever its node may stand, by the kinds of nodes (`SoundNode`, `SoundType`). No induction over trees
is needed: a layout goes one level down, and the rest of the tree stays to do. `NodesAt` is a recursive
function along a path; one step further is one child further (`DescentSteps`).

*Inline options.* The two properties change at a merge only, and hold there if the parts are the
directives. `ScanInv` says so at every token: what is taken and what is left are those of one place in
one directive (`Within`), with a blank before it in all but the first (`Lead`), and the parts are the
directives before it, a list having lost its quotes (`Piece`). At a quote the scanner takes a list whole,
since no word is a quote. Then a part trimmed is a directive, its key and value are cut at the first
equals sign (`PieceIs`), and the pieces of the value between commas are its words (`NamesOfListed`),
so that each part adds to the overrides what its directive says (`WithPiece`, `MergeIs`). Of
`ignore_errors` the last is a running verdict (`VerdictStep`), and merging verdicts is associative.

What only TLC checks:

* `TreeReadsBack`, `SurrogatesExact` and `ImportsReadBack`: that a reader finds the same tree is an
  induction over trees, through the reader of `ExpressionReader`, which is a RECURSIVE operator. The
  provers cannot instantiate the library's induction theorems and tlapm has no SMT backend in a module
  with such operators. Induction on numbers
  is within reach, as that there is a least counterexample (`AllNumbers`), wherever a definition is a
  recursive function along a sequence, or over trees with a height (`FixedPoint`); that is what the
  theorems on streams, digits, comments and bodies rest on;
* `Returns`: liveness under fairness, and ENABLED, are out of the prover's reach.

## 5. The plan

Done: reachability, system checks, chains and their refinement; statements, blocks and their stream;
the tokens of every statement, expression, pattern and type, and the list of imports; integers and
positions; comments, pipeline, inline options, signatures, effects; theorems of reachability, of the walk, its
metadata and its stream, of integers, of positions, of the locations and unions of all trees, of the
pipeline, of signatures and bodies, and of inline options. Open: a proof that trees read back, for which
the reader would have to be a recursive function over nodes with a height, as the visitor of
`FunctionEffects` is.

## 6. Not modelled

* Ruff's parser, lexer, tree and diagnostics renderer, the vendored crates, are third-party code. They
  are by far the most lines of the repository, so the models stand for a small share of *all* its
  lines and for most of the crate's own (`src/src`). `AddLine`, `SyntaxTree` and the trees of `MCExpressions` are
  what the parser can produce; `LineIndex`, on which positions rest, is modelled in `Locations`.
* mypy: the readers are models of its grammar, made from what is written.
* The conversion of arguments and results between Python and Rust objects (`lib.rs`), pure glue.
* The digits of numbers, the words of operators, the text of error messages and codes.
* The type stub, the tests and the build scripts: declarations and tooling.
