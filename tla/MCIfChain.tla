----------------------------- MODULE MCIfChain -----------------------------
(* A name of each kind the code distinguishes: built in, listed by the     *)
(* user (BOTH in both lists; PY2 in a list the built-in rule overrides),   *)
(* and not known at all.                                                   *)
EXTENDS IfChain

MCNames == {"MYPY", "PY2", "PY3", "DEBUG", "BOTH", "LEGACY", "flag"}
MCAlwaysTrueNames  == {"DEBUG", "BOTH", "PY2"}
MCAlwaysFalseNames == {"LEGACY", "BOTH", "False"}
=============================================================================
