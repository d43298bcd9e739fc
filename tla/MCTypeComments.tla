--------------------------- MODULE MCTypeComments ---------------------------
(* All files of one comment with up to four parts, and of two short ones.    *)
EXTENDS TypeComments

SomeKinds == {"type_ignore", "type_ignore_codes", "mypy_ignore", "type_ignore_invalid",
              "regular", "unparsable", "blank", "prose"}
Short == Kinds \ {"ignore_errors_off", "mypy_ignore_invalid", "config", "empty"}

Comment(line, place, tight, parts) ==
    [line |-> line, first |-> place = "first", alone |-> place # "behind",
     tight |-> tight, parts |-> parts]
Long(length) ==
    {<<Comment(2, place, FALSE, parts)>> :
        place \in {"indented", "behind"}, parts \in [1..length -> SomeKinds]}
OfTwo(place, tight, length) ==
    {Comment(1, place, tight, parts) : parts \in [1..length -> Short]}

MCFiles ==
    {<< >>} \cup UNION {Long(length) : length \in 1..4}
        \cup {<<a, b>> : a \in OfTwo("first", TRUE, 2) \cup OfTwo("behind", FALSE, 2),
                         b \in {Comment(3, "first", FALSE, <<kind>>) : kind \in Kinds}}
=============================================================================
