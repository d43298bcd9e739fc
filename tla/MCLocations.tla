---------------------------- MODULE MCLocations ----------------------------
(* All texts of up to five characters, with a byte order mark four, and those *)
(* in which a decorated definition may stand in a class, decorated or not;   *)
(* for the integers, base 32 instead of 256, the edges of every format, and  *)
(* the extremes.                                                             *)
EXTENDS Locations

MinShort == -2
MinTwo   == -10
MinFour  == -40

Near(i) == {i - 1, i, i + 1} \cap I64

MCValues ==
    UNION {Near(i) : i \in {0, MIN_SHORT_INT, Base \div 2 + MIN_SHORT_INT,
                            MIN_TWO_BYTES_INT, MAX_TWO_BYTES_INT,
                            MIN_FOUR_BYTES_INT, MAX_FOUR_BYTES_INT,
                            -(Base^2), Base^3, -(Base^4), Base^4,
                            -(Base^Width \div 2), Base^Width \div 2}}

Texts(length) == UNION {[1..n -> {"a", "e", "n", "r"}] : n \in 0..length}
Class == <<"a", "n", "a", "n">>
DecoratedClass == <<"a", "n", "a", "a", "n", "a", "n", "a">>
MCFiles == Texts(5) \cup {<<"B">> \o t : t \in Texts(4)}
             \cup {Class \o t : t \in Texts(4)} \cup {DecoratedClass \o t : t \in Texts(3)}
DocFiles == Texts(2)
=============================================================================
