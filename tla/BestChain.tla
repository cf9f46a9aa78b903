------------------------------ MODULE BestChain ------------------------------
(***************************************************************************)
(* What the block storage promises: at any moment there is one chain.  It  *)
(* only gives way to a chain with more work or with a checkpoint it does   *)
(* not have, it never gives up a checkpoint, and a crash or a lost batch   *)
(* goes back to the chain that was written last.  The operator may remove  *)
(* the last block.                                                         *)
(***************************************************************************)
EXTENDS Integers, Sequences

CONSTANTS Block, Genesis, lineage, cumulative_difficulty, Checkpoint, OperatorPops

VARIABLES chain, durable

Tail_(c) == c[Len(c)]

CheckpointsIn(c) == Checkpoint \cap {c[i] : i \in DOMAIN c}

Work(c) == cumulative_difficulty[Tail_(c)]

\* d may take the place of c.
Better(c, d) ==
    /\ d = lineage[Tail_(d)]
    /\ CheckpointsIn(c) \subseteq CheckpointsIn(d)
    /\ Work(d) > Work(c) \/ CheckpointsIn(c) # CheckpointsIn(d)

Init == chain = <<Genesis>> /\ durable = <<Genesis>>

Adopt == chain' \in {lineage[b] : b \in Block} /\ Better(chain, chain') /\ UNCHANGED durable

Write == durable' = chain /\ UNCHANGED chain

Lose == chain' = durable /\ UNCHANGED durable

Remove ==
    /\ OperatorPops
    /\ chain = durable /\ Len(chain) > 1
    /\ chain' = SubSeq(chain, 1, Len(chain) - 1)
    /\ durable' = chain'

Next == Adopt \/ Write \/ Lose \/ Remove

Spec == Init /\ [][Next]_<<chain, durable>>
=============================================================================
