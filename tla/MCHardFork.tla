----------------------------- MODULE MCHardFork -----------------------------
(***************************************************************************)
(* Instances of HardFork for TLC.                                          *)
(***************************************************************************)
EXTENDS HardFork

\* A table in the shape of mainnet_hard_forks: a fork at each of the first
\* heights, no votes needed, then one further up.
DeployedForks ==
    << [version |-> 1, height |-> 1, threshold |-> 0],
       [version |-> 2, height |-> 2, threshold |-> 0],
       [version |-> 3, height |-> 4, threshold |-> 0] >>

\* Forks that need votes, as in tests/unit_tests/hardfork.cpp.
VotedTable ==
    << [version |-> 1, height |-> 0, threshold |-> 0],
       [version |-> 2, height |-> 2, threshold |-> 50],
       [version |-> 3, height |-> 3, threshold |-> 100] >>
=============================================================================
