------------------------------ MODULE Pruning ------------------------------
(***************************************************************************)
(* The arithmetic of block pruning (src/common/pruning.cpp).  A pruned     *)
(* node keeps, of the blocks older than the last TipBlocks, the ones of    *)
(* one stripe out of 2^LogStripes; stripes change every StripeSize blocks. *)
(* A pruning seed is represented by the stripe it stands for, 0 for a node *)
(* that keeps everything; every node uses the same LogStripes              *)
(* (process_payload_sync_data refuses any other).                          *)
(***************************************************************************)
EXTENDS Naturals

CONSTANTS
    StripeSize,     \* CRYPTONOTE_PRUNING_STRIPE_SIZE
    LogStripes,     \* CRYPTONOTE_PRUNING_LOG_STRIPES
    TipBlocks       \* CRYPTONOTE_PRUNING_TIP_BLOCKS

ASSUME PruningConstants ==
    StripeSize \in Nat \ {0} /\ LogStripes \in Nat /\ TipBlocks \in Nat

Stripes == 2^LogStripes

get_pruning_stripe(block_height, blockchain_height) ==
    IF block_height + TipBlocks >= blockchain_height THEN 0
    ELSE ((block_height \div StripeSize) % Stripes) + 1

has_unpruned_block(block_height, blockchain_height, stripe) ==
    \/ stripe = 0
    \/ get_pruning_stripe(block_height, blockchain_height) \in {0, stripe}

\* A cycle is one pass over all stripes; the stripe comes later in this cycle
\* or in the next one, unless the unpruned tip comes first.
NextUnpruned_LateTip(block_height, blockchain_height, stripe) ==
    LET block_stripe == ((block_height \div StripeSize) % Stripes) + 1
        cycles == (block_height \div StripeSize) \div Stripes
        cycle_start == cycles + (IF stripe > block_stripe THEN 0 ELSE 1)
        h == cycle_start * StripeSize * Stripes + (stripe - 1) * StripeSize
    IN  IF \/ stripe = 0 \/ block_height + TipBlocks >= blockchain_height \/ block_stripe = stripe
        THEN block_height
        ELSE IF h > blockchain_height THEN blockchain_height - TipBlocks ELSE h

get_next_unpruned_block_height(block_height, blockchain_height, stripe) ==
    LET block_stripe == ((block_height \div StripeSize) % Stripes) + 1
        cycles == (block_height \div StripeSize) \div Stripes
        cycle_start == cycles + (IF stripe > block_stripe THEN 0 ELSE 1)
        h == cycle_start * StripeSize * Stripes + (stripe - 1) * StripeSize
    IN  IF \/ stripe = 0 \/ block_height + TipBlocks >= blockchain_height \/ block_stripe = stripe
        THEN block_height
        ELSE IF h + TipBlocks > blockchain_height THEN blockchain_height - TipBlocks ELSE h

\* Where the blocks kept from block_height on stop, for a node that keeps that
\* one: at the next stripe, or at the unpruned tip if that comes first.
get_next_pruned_block_height(block_height, blockchain_height, stripe) ==
    LET block_stripe == ((block_height \div StripeSize) % Stripes) + 1
    IN  IF stripe = 0 \/ block_height + TipBlocks >= blockchain_height THEN blockchain_height
        ELSE IF block_stripe # stripe THEN block_height
        ELSE get_next_unpruned_block_height(block_height, blockchain_height, (block_stripe % Stripes) + 1)
=============================================================================
