-------------------------- MODULE ReachableBlocks --------------------------
(***************************************************************************)
(* What the reachability analysis promises of a chain of blocks, whatever  *)
(* its conditions are made of: a block is marked unreachable exactly when  *)
(* no evaluation by mypy enters it, the conditions taken as independent.   *)
(***************************************************************************)
EXTENDS Naturals, Sequences

VARIABLES
    verdicts,       \* for each block, what its condition can be for mypy
    unreachable     \* the marks

vars == <<verdicts, unreachable>>

\* Some evaluation enters the last block: its condition can hold, and each
\* condition before it can fail.
Enterable(vs) ==
    /\ TRUE \in vs[Len(vs)]
    /\ \A i \in 1..(Len(vs) - 1) : FALSE \in vs[i]

Init == verdicts = << >> /\ unreachable = << >>

AddBlock(verdict) ==
    /\ verdicts' = Append(verdicts, verdict)
    /\ unreachable' = Append(unreachable, ~Enterable(verdicts'))

Next == \E verdict \in (SUBSET BOOLEAN) \ {{}} : AddBlock(verdict)
Spec == Init /\ [][Next]_vars
=============================================================================
