---------------------------- MODULE StreamReader ----------------------------
(***************************************************************************)
(* A reader of the token stream, which the serializer itself never sees:   *)
(* mypy's deserializer, modelled from what Stmt::serialize and             *)
(* serialize_block write.  It knows the grammar only - the tags, the       *)
(* counts, which parts are optional - and gives back the statements with   *)
(* the block each was found in.                                            *)
(*                                                                         *)
(* The next token is all it needs: each symbol it expects takes one token  *)
(* and is replaced by what must follow that token.  A symbol is a tuple of *)
(* its name and what is remembered with it.                                *)
(***************************************************************************)
EXTENDS SerializerReference

Repeat(n, symbols) ==
    [i \in 1..(n * Len(symbols)) |-> symbols[1 + ((i - 1) % Len(symbols))]]

\* The kind of token each symbol takes.
Takes(symbol) ==
    CASE symbol \in {"statements", "blocks", "clauses", "names"} -> "int"
      [] symbol = "statement"                    -> "tag"
      [] symbol \in {"block", "unlocated block"} -> "block"
      [] symbol = "optional block"               -> "bool"
      [] symbol = "place"                        -> "location"
      [] OTHER                                   -> symbol

\* The parts of a statement.
Parts(tag) ==
    CASE tag \in {"func", "class"} -> <<<<"block">>>>
      [] tag = "if"     -> <<<<"expr">>, <<"block">>, <<"clauses">>, <<"optional block">>>>
      [] tag = "loop"   -> <<<<"expr">>, <<"block">>, <<"unlocated block">>>>
      [] tag = "try"    -> <<<<"block">>, <<"blocks">>, <<"optional block">>, <<"optional block">>>>
      [] tag = "match"  -> <<<<"expr">>, <<"clauses">>>>
      [] tag = "import" -> <<<<"names">>>>
      [] OTHER          -> << >>

\* What follows the token at i, which the symbol took.  The block of a statement
\* is known by the place of its own token.
Following(symbol, token, i) ==
    CASE symbol[1] = "statements" -> Repeat(token[2], <<<<"statement", 0>>>>)
      [] symbol[1] = "statement"  ->
           Parts(token[2]) \o <<<<"location", token[2], symbol[2]>>>>
              \o (IF token[2] = "import" /\ CacheVersion >= CV_IMPORT_FLAGS
                  THEN <<<<"flags">>>> ELSE << >>)
              \o <<<<"end">>>>
      [] symbol[1] \in {"block", "unlocated block"} ->
           (IF token[2] = 0 /\ symbol[1] = "block" THEN <<<<"place">>>> ELSE << >>)
              \o Repeat(token[2], <<<<"statement", i>>>>) \o <<<<"end">>>>
      [] symbol[1] = "blocks"  -> Repeat(token[2], <<<<"block">>>>)
      [] symbol[1] = "clauses" -> Repeat(token[2], <<<<"expr">>, <<"block">>>>)
      [] symbol[1] = "optional block" -> IF token[2] THEN <<<<"block">>>> ELSE << >>
      [] OTHER -> << >>

\* What the reader expects, and has found, after i tokens; no symbol takes a
\* token it does not expect.
Reading[i \in 0..Len(bytes)] ==
    IF i = 0 THEN [expected |-> <<<<"statements">>>>, found |-> << >>]
    ELSE LET before == Reading[i - 1]
             symbol == IF before.expected = << >> THEN <<"nothing">> ELSE Head(before.expected)
         IN IF bytes[i][1] # Takes(symbol[1])
            THEN [before EXCEPT !.expected = <<<<"nothing">>>>]
            ELSE [expected |-> Following(symbol, bytes[i], i) \o Tail(before.expected),
                  found |-> IF symbol[1] # "location" THEN before.found
                            ELSE Append(before.found, [line |-> bytes[i][2], tag |-> symbol[2],
                                                       parent |-> symbol[3]])]
-----------------------------------------------------------------------------
TagOf(kind) ==
    CASE kind \in Funcs   -> "func"
      [] kind \in Imports -> "import"
      [] OTHER            -> kind

\* The header or clause whose block a line is directly in; 0 is the module.
BlockOf(p) == Highest({0} \cup {h \in Lines : Inside(h, p)})

\* A reader that knows the grammar only consumes the whole stream and finds
\* the statements of the kept tree, each once and with its tag, grouped in
\* blocks as in the tree, and the block of a statement is marked unreachable
\* exactly when the statement is.
StreamReadsBack ==
    phase = "done" =>
        LET r == Reading[Len(bytes)]
            stmts == {r.found[i] : i \in 1..Len(r.found)}
            marked == {i \in 1..Len(bytes) : bytes[i][1] = "block" /\ bytes[i][3]}
        IN /\ r.expected = << >>
           /\ {<<n.line, n.tag>> : n \in stmts} =
                {<<p, TagOf(Kind(p))>> :
                    p \in {q \in Lines : Kind(q) \notin Clauses /\ Emitted(q)}}
           /\ Len(r.found) = Cardinality({n.line : n \in stmts})
           /\ \A n \in stmts : n.parent \in marked <=> Unreachable(n.line)
           /\ \A m, n \in stmts :
                 m.parent = n.parent <=> BlockOf(m.line) = BlockOf(n.line)
=============================================================================
