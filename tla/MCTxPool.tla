------------------------------ MODULE MCTxPool ------------------------------
(***************************************************************************)
(* Instances of TxPool for TLC.                                            *)
(***************************************************************************)
EXTENDS TxPool, TLC

CONSTANTS a, b, c, k1, k2, k3

\* a and b compete for k1, a having another input before it; c stands alone.
Inputs == a :> <<k2, k1>> @@ b :> <<k1>> @@ c :> <<k3>>

\* b fills the pool: with a or c beside it there is something to prune.
Weights == a :> 1 @@ b :> 2 @@ c :> 1

FeeRates == a :> 1 @@ b :> 2 @@ c :> 2

\* c spends an output of the first block.
RingHeights == a :> 0 @@ b :> 0 @@ c :> 1

\* The rules of the second version are stricter for a, looser for c.
Rules == a :> {1} @@ b :> {1, 2} @@ c :> {2}

\* The transactions of a template that is no longer valid are never read
\* again: states that differ in nothing else are one.
LiveState ==
    <<db, batch, batch_start, memory, m_input_cache, m_btc_valid, IF m_btc_valid THEN m_btc ELSE {},
      m_timed_out_transactions, control, pruning, started>>
=============================================================================
