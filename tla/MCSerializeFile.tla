--------------------------- MODULE MCSerializeFile --------------------------
(* Files of three lines with up to two comments, one line of which an        *)
(* unreachable block may take, read or given; and given, what one comment    *)
(* of up to four parts or two short ones can hold.                           *)
EXTENDS SerializeFile

PartLists ==
    {<<"type_ignore">>, <<"type_ignore_codes">>, <<"mypy_ignore">>, <<"prose", "type_ignore">>,
     <<"type_ignore", "mypy_ignore_codes">>,
     <<"ignore_errors_on">>, <<"ignore_errors_off">>, <<"always_true">>, <<"always_false">>}

Comment(line, parts, behind) ==
    [line |-> line, first |-> ~behind, alone |-> ~behind, tight |-> FALSE, parts |-> parts]
Placed(statement) == {Comment(line, parts, line = statement) : line \in 1..3, parts \in PartLists}
FilesOf(statement) ==
    {<< >>} \cup {<<a>> : a \in Placed(statement)}
        \cup {<<p[1], p[2]>> : p \in {q \in Placed(statement) \X Placed(statement) :
                                         q[1].line < q[2].line}}

SomeKinds == {"type_ignore", "mypy_ignore", "type_ignore_invalid", "regular", "blank", "prose"}
Short == Kinds \ {"ignore_errors_off", "mypy_ignore_invalid", "config", "empty"}
Long == {<<Comment(2, parts, behind)>> : behind \in BOOLEAN,
             parts \in UNION {[1..length -> SomeKinds] : length \in 1..3}
                          \cup [1..4 -> {"type_ignore", "blank", "prose"}]}
Pairs == {<<[Comment(1, parts, FALSE) EXCEPT !.tight = TRUE], Comment(3, <<kind>>, FALSE)>> :
             parts \in [1..2 -> Short], kind \in {"mypy_ignore", "function", "type_ignore_codes"}}

MCFiles == Long \cup Pairs \cup UNION {FilesOf(statement) : statement \in 0..3}

Skips(truth, lines) == [t \in Truths |-> IF t = truth THEN lines ELSE {}]
Content(statement, file, skipped, bad) ==
    [comments |-> file, first_statement |-> statement, errors |-> bad, skipped |-> skipped,
     extra_errors |-> 0, getattr |-> TRUE]

MCSources ==
    {Unreadable} \cup
    UNION {{Content(statement, file, skipped, 0) : file \in FilesOf(statement),
                skipped \in {Skips("open", {3}), Skips("always true", {2, 3})}} :
           statement \in {0, 2}}
MCGiven == MCSources \cup {Content(2, file, Skips("open", {3}), 0) : file \in Long \cup Pairs}
MCRewritten == {Unreadable, Content(1, << >>, Skips("open", {}), 1)}
=============================================================================
