----------------------------- MODULE Locations -----------------------------
(***************************************************************************)
(* The positions the serializer writes (write_location and the locations   *)
(* of decorated definitions) and reports (add_error), from a text to the   *)
(* integers of the stream and back.                                        *)
(*                                                                         *)
(* A character is the kind of its encoding: "a" of one byte, "e" of two,   *)
(* "n" and "r" line feed and carriage return, "B" the byte order mark of   *)
(* three bytes, only in front.  A node is a range of characters of the     *)
(* file; offsets are the byte offsets of the tree.  Columns are numbered   *)
(* from 1 in the line index and from 0 in the stream.                      *)
(***************************************************************************)
EXTENDS IntCodec, FiniteSetsExt

CONSTANTS
    Files,              \* the texts before universal newlines
    MaxUsize,           \* the number of values of a usize
    DefOffset           \* the characters of "def "

ASSUME LocationsAssumption ==
    /\ \A file \in Files : \A i \in 1..Len(file) : file[i] = "B" => i = 1
    /\ \A file \in Files : file \in Seq({"a", "e", "n", "r", "B"}) /\ Len(file) + 1 \in I64
    /\ MaxUsize \in Nat \ {0}
    /\ DefOffset \in Nat \ {0}

VARIABLES
    file,               \* the text that was read
    text,               \* Serializer.text
    line_starts,        \* LineIndex.line_starts
    is_all_ascii, lines_with_non_ascii,
    nodes,              \* the nodes whose locations are written
    reported            \* the position of the error reported for the first one

lvars == <<vars, file, text, line_starts, is_all_ascii, lines_with_non_ascii, nodes, reported>>
-----------------------------------------------------------------------------
(* Text *)

Size(char) == CASE char = "e" -> 2 [] char = "B" -> 3 [] OTHER -> 1
Ascii(t) == \A i \in 1..Len(t) : Size(t[i]) = 1

\* Where the i-th character ends.
Offset(t) ==
    LET end[i \in 0..Len(t)] == IF i = 0 THEN 0 ELSE end[i - 1] + Size(t[i])
    IN end

\* source_text.replace("\r\n", "\n").replace("\r", "\n"): what the first i
\* characters become, the others behind them.
\* A bug for the checks: a carriage return and a line feed become two.
UniversalToMutant(t) ==
    LET becomes[i \in 0..Len(t)] ==
            IF i = 0 THEN << >> ELSE Append(becomes[i - 1], IF t[i] = "r" THEN "n" ELSE t[i])
    IN becomes
UniversalTo(t) ==
    LET becomes[i \in 0..Len(t)] ==
            IF i = 0 THEN << >>
            ELSE IF i < Len(t) /\ t[i] = "r" /\ t[i + 1] = "n" THEN becomes[i - 1]
            ELSE Append(becomes[i - 1], IF t[i] = "r" THEN "n" ELSE t[i])
    IN becomes
Universal(t) == UniversalTo(t)[Len(t)]

\* LineIndex::from_source_text: a line starts behind each line end.
StartsTo(t) ==
    LET starts[i \in 0..Len(t)] ==
            IF i = 0 THEN <<0>>
            ELSE IF t[i] = "n" \/ (t[i] = "r" /\ (i = Len(t) \/ t[i + 1] # "n"))
                 THEN Append(starts[i - 1], Offset(t)[i])
            ELSE starts[i - 1]
    IN starts
LineStarts(t) == StartsTo(t)[Len(t)]

\* str::lines: the last line is none if it is empty.
LinesWithNonAscii(t, starts) ==
    LET count == IF starts[Len(starts)] = Offset(t)[Len(t)] THEN Len(starts) - 1 ELSE Len(starts)
        end(l) == IF l = Len(starts) THEN Offset(t)[Len(t)] ELSE starts[l + 1]
    IN [l \in 1..count |-> \E i \in 1..Len(t) : /\ Size(t[i]) > 1
                                                /\ starts[l] < Offset(t)[i]
                                                /\ Offset(t)[i] <= end(l)]

\* The characters of text that lie between two offsets, as many as there are.
CharsBetween(from, to) ==
    Cardinality({i \in 1..Len(text) : from < Offset(text)[i] /\ Offset(text)[i] <= to})
-----------------------------------------------------------------------------
(* Line index and columns *)

\* line_index: the line a binary search finds.
LineOf(offset) ==
    CHOOSE l \in 1..Len(line_starts) :
        line_starts[l] <= offset /\ (l = Len(line_starts) \/ offset < line_starts[l + 1])

SaturatingPred(column) == IF column = 1 THEN 1 ELSE column - 1

\* line_column: the column counts characters, from 1, but not the mark.
Column(offset) ==
    LET start  == line_starts[LineOf(offset)]
        column == 1 + IF Ascii(text) THEN offset - start ELSE CharsBetween(start, offset)
    IN IF LineOf(offset) = 1 /\ text # << >> /\ text[1] = "B"
       THEN SaturatingPred(column) ELSE column

\* convert_column_to_codepoint: the characters in the first `column' bytes of
\* the line, rounded down to a character boundary.
ConvertColumnToCodepoint(line, column) ==
    IF line <= Len(lines_with_non_ascii) /\ lines_with_non_ascii[line]
    THEN CharsBetween(line_starts[line], line_starts[line] + column)
    ELSE column

EndColumn(offset) ==
    IF is_all_ascii THEN Column(offset)
    ELSE ConvertColumnToCodepoint(LineOf(offset), Column(offset))

\* A bug for the checks: the start is not converted.
StartColumnMutant(offset) == Column(offset)
StartColumn(offset) ==
    IF is_all_ascii THEN Column(offset)
    ELSE ConvertColumnToCodepoint(LineOf(offset), Column(offset))

InText(i)   == Offset(text)[Len(UniversalTo(file)[i])]
Start(node) == InText(node.from)
End(node)   == InText(node.to)

\* write_location: where the node starts, and how far away it ends.
Location(node) ==
    << LineOf(Start(node)), StartColumn(Start(node)) - 1,
       LineOf(End(node)) - LineOf(Start(node)), EndColumn(End(node)) - StartColumn(Start(node)) >>

\* A decorated def starts where its name does, less the keyword and one space.
DefLocation(node) ==
    LET name == InText(node.from + DefOffset)
        def_column == Column(name) - 1 - DefOffset
    IN << LineOf(name), def_column,
          LineOf(End(node)) - LineOf(name), Column(End(node)) - 1 - def_column >>

\* A decorated class has the line of its name and the column of its last decorator.
ClassLocation(node) ==
    LET name == InText(node.from + DefOffset)
        st_column == Column(InText(node.decorator)) - 1
    IN << LineOf(name), st_column,
          LineOf(End(node)) - LineOf(name), Column(End(node)) - 1 - st_column >>

WrittenLocation(node) ==
    CASE node.form = "def"   -> DefLocation(node)
      [] node.form = "class" -> ClassLocation(node)
      [] OTHER               -> Location(node)

\* add_error: a usize is taken down by one.
Reported(node) ==
    [line   |-> LineOf(Start(node)),
     column |-> (ConvertColumnToCodepoint(LineOf(Start(node)), Column(Start(node))) - 1) % MaxUsize]
-----------------------------------------------------------------------------
IsBreak(char) == char \in {"n", "r"}

\* A node starts and ends with a character of a line, and not with the mark.
Nodes ==
    LET solid == {i \in 1..Len(file) : ~IsBreak(file[i]) /\ file[i] # "B"}
    IN {[from |-> p[1] - 1, to |-> p[2], form |-> "node", decorator |-> 0] :
           p \in {q \in solid \X solid : q[1] <= q[2]}}

Breaks(i) == {k \in 1..i : \/ file[k] = "n"
                           \/ file[k] = "r" /\ (k = Len(file) \/ file[k + 1] # "n")}

\* The line up to the i-th character and the next one are ASCII.
AsciiUpTo(i) ==
    \A k \in 1..Min({i + 1, Len(file)}) :
        Size(file[k]) > 1 => \E b \in k..i : IsBreak(file[b])

Indent(i) == i - (IF Breaks(i) # {} THEN Max(Breaks(i)) ELSE IF file[1] = "B" THEN 1 ELSE 0)

\* A definition stands below its decorators, behind as much white space, with one
\* space before its name.
Decorators(n) ==
    {d \in 0..(n.from - 1) : /\ Breaks(d) # Breaks(n.from)
                            /\ Indent(d) = Indent(n.from)
                            /\ \A k \in (d - Indent(d) + 1)..(d + 1) : file[k] = "a"}
Decorated ==
    {n \in Nodes : /\ Decorators(n) # {}
                   /\ n.from + DefOffset < n.to
                   /\ AsciiUpTo(n.from + DefOffset - 1)
                   /\ \A k \in n.from + 1..n.from + DefOffset + 1 : ~IsBreak(file[k])}
Definitions ==
    {[p[2] EXCEPT !.form = p[1], !.decorator = Max(Decorators(p[2]))] :
        p \in {"def", "class"} \X Decorated}

\* The text of a definition begins with its decorators, what stands in it with its name.
BeginsAt(node) == IF node.form = "node" THEN node.from ELSE node.decorator
Inside(node)   == IF node.form = "node" THEN node.from ELSE node.from + DefOffset
\* The nodes written are an inner one and one around it; a decorated definition
\* stands on lines of its own in the block of another one.
Within(inner, outer) ==
    /\ Inside(outer) <= BeginsAt(inner)
    /\ inner.to <= outer.to
    /\ inner.form # "node" => Breaks(outer.from) # Breaks(inner.decorator)
LInit ==
    /\ Init
    /\ file \in Files
    /\ text = Universal(file)
    /\ line_starts = LineStarts(text)
    /\ is_all_ascii = Ascii(text)
    /\ lines_with_non_ascii = IF is_all_ascii THEN << >> ELSE LinesWithNonAscii(text, line_starts)
    /\ \/ Nodes = {} /\ nodes = << >>
       \/ \E inner \in Nodes \cup Definitions, outer \in Nodes \cup Definitions :
             Within(inner, outer) /\ nodes = <<inner, outer>>
    /\ reported = [line |-> 0, column |-> 0]

WriteAll(l) ==
    /\ written' = written \o l
    /\ bytes' = (((bytes \o WriteInt(l[1])) \o WriteInt(l[2])) \o WriteInt(l[3])) \o WriteInt(l[4])
    /\ UNCHANGED <<cursor, read>>

Source == <<file, text, line_starts, is_all_ascii, lines_with_non_ascii, nodes>>

WriteLocation ==
    /\ nodes # << >>
    /\ Len(written) < 4 * Len(nodes)
    /\ read = << >>
    /\ LET node == nodes[Len(written) \div 4 + 1]
       IN WriteAll(WrittenLocation(node))
    /\ UNCHANGED <<Source, reported>>

\* An error is reported where the text of a node begins.
AddError ==
    /\ nodes # << >> /\ nodes[1].form = "node"
    /\ written = << >>
    /\ reported.line = 0
    /\ reported' = Reported(nodes[1])
    /\ UNCHANGED <<vars, Source>>

\* The other integers of the stream, without a text.
WriteNumber ==
    /\ file = << >>
    /\ \E i \in Values : Write(i)
    /\ UNCHANGED <<Source, reported>>

ReadNumber ==
    /\ Len(written) >= 4 * Len(nodes)
    /\ Read
    /\ UNCHANGED <<Source, reported>>

LDone == cursor = Len(bytes) /\ Len(written) >= 4 * Len(nodes) /\ UNCHANGED lvars

LNext == WriteLocation \/ AddError \/ WriteNumber \/ ReadNumber \/ LDone
LSpec == LInit /\ [][LNext]_lvars
-----------------------------------------------------------------------------
(* What Python counts: lines by universal newlines, columns by characters.   *)

AllRead == nodes # << >> /\ Len(read) = 4 * Len(nodes)

\* The line and the column, numbered from 0, behind i characters.
PythonPosition(i) ==
    LET start == IF Breaks(i) # {} THEN Max(Breaks(i)) ELSE IF file[1] = "B" THEN 1 ELSE 0
    IN <<Cardinality(Breaks(i)) + 1, i - start>>

DecodedStart(n) == <<read[4 * n - 3], read[4 * n - 2]>>
DecodedEnd(n)   == <<read[4 * n - 3] + read[4 * n - 1], read[4 * n - 2] + read[4 * n]>>

\* What mypy reads of a node is Python's position of its ends whenever only
\* ASCII stands on the line up to there, whatever is on the other lines and
\* farther on, and of a decorated def or class with any text; the lines are right in any
\* case, counted by universal newlines (write_location, Stmt::FunctionDef, ClassDef,
\* convert_column_to_codepoint, LineIndex::line_column).
PositionsExact ==
    AllRead =>
        \A n \in 1..Len(nodes) :
            /\ DecodedStart(n)[1] = PythonPosition(nodes[n].from)[1]
            /\ DecodedEnd(n)[1] = PythonPosition(nodes[n].to)[1]
            /\ nodes[n].form # "node" \/ AsciiUpTo(nodes[n].from) => DecodedStart(n) = PythonPosition(nodes[n].from)
            /\ nodes[n].form # "node" \/ AsciiUpTo(nodes[n].to) => DecodedEnd(n) = PythonPosition(nodes[n].to)

NoLater(p, q) == p[1] < q[1] \/ (p[1] = q[1] /\ p[2] <= q[2])

\* What stands in a node, less the decorators, starts and ends on lines of that node
\* for mypy too, and starts within it; and no node ends before it starts, with any
\* text before and between them.  It also ends within it, except for a decorated
\* definition, whose columns are not converted, inside a node whose columns are,
\* when more than ASCII stands on its last line: a decorated method with the body
\* `return "x"' ends behind its class if the x is not ASCII (write_location,
\* Stmt::FunctionDef, Stmt::ClassDef).
NestingKept ==
    AllRead =>
        /\ NoLater(DecodedStart(2), DecodedStart(1)) /\ DecodedEnd(1)[1] <= DecodedEnd(2)[1]
        /\ nodes[1].form = "node" \/ nodes[2].form # "node" \/ AsciiUpTo(nodes[1].to) =>
              NoLater(DecodedEnd(1), DecodedEnd(2))
        /\ \A n \in 1..2 : NoLater(DecodedStart(n), DecodedEnd(n))

\* A comment says of a column that it is brought from bytes to code points "for
\* Python compatibility" (serialize_ast.rs:660): the columns mypy reads, and
\* those of errors, are Python's.
ColumnsAreCodePoints ==
    /\ AllRead => \A n \in 1..Len(nodes) : DecodedStart(n) = PythonPosition(nodes[n].from)
    /\ reported.line > 0 =>
          <<reported.line, reported.column>> = PythonPosition(nodes[1].from)
=============================================================================
