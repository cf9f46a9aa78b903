----------------------------- MODULE Blockchain -----------------------------
(***************************************************************************)
(* The main chain, the alternative chains and the switch between them, of  *)
(* cryptonote_core/blockchain.cpp.                                         *)
(*                                                                         *)
(* A block arrives with some of its transactions, inside a database batch  *)
(* opened by prepare_handle_incoming_blocks and ended by                   *)
(* cleanup_handle_incoming_blocks.  add_new_block connects it to the main  *)
(* chain, stores it as an alternative block, or starts a switch, which     *)
(* pops blocks, connects the alternative ones, and if one is refused rolls *)
(* back.  The loops of a switch are sequences of steps told apart by       *)
(* phase; add_new_block holds the pool and the blockchain locks, so only a *)
(* crash can come between two of them.                                     *)
(*                                                                         *)
(* The pool is reduced to what a block needs of it: which transactions it  *)
(* holds and which of them are kept_by_block and so never pruned.  TxPool  *)
(* models the rest of it.                                                  *)
(***************************************************************************)
EXTENDS Integers, Sequences, FiniteSets

CONSTANTS
    Block,                  \* blocks whose header and proof of work are good
    Genesis,
    null_hash,              \* the prev_id of Genesis
    lineage,                \* a block's ancestors from Genesis on, and itself
    cumulative_difficulty,  \* the summed difficulty of the lineage
    Checkpoint,             \* the blocks m_checkpoints names
    BadReward,              \* blocks that validate_miner_transaction refuses
    Tx,
    body,                   \* the transactions of a block, without the miner's
    key_images,             \* the key images a transaction spends
    ring,                   \* the blocks its ring members come from
    rules,                  \* the fork versions whose non-input rules it meets
    fork_height,            \* height from which version 2 is in force
    OperatorPops            \* is the pop_blocks command used?

height(b) == Len(lineage[b]) - 1

prev_id(b) == IF b = Genesis THEN null_hash ELSE lineage[b][height(b)]

ASSUME BlockTree ==
    /\ Genesis \in Block /\ null_hash \notin Block
    /\ lineage \in [Block -> Seq(Block)]
    /\ lineage[Genesis] = <<Genesis>>
    /\ \A b \in Block \ {Genesis} :
          /\ Len(lineage[b]) > 1
          /\ lineage[b] = Append(lineage[prev_id(b)], b)
    /\ cumulative_difficulty \in [Block -> Nat]
    /\ \A b \in Block \ {Genesis} : cumulative_difficulty[b] > cumulative_difficulty[prev_id(b)]

ASSUME Contents ==
    /\ body \in [Block -> SUBSET Tx]
    /\ body[Genesis] = {} /\ Genesis \notin BadReward
    /\ rules \in [Tx -> SUBSET {1, 2}]
    /\ ring \in [Tx -> SUBSET Block]
    /\ fork_height \in Nat
    /\ OperatorPops \in BOOLEAN

\* m_points maps a height to one block.
ASSUME Checkpoints ==
    /\ Checkpoint \subseteq Block
    /\ \A b, c \in Checkpoint : height(b) = height(c) => b = c

VARIABLES
    main,                   \* db: the main chain
    alt_blocks,             \* db: the alternative blocks
    pool,                   \* db: the transactions of the pool
    kept,                   \* db: those that are kept_by_block
    m_invalid_blocks,
    batch,                  \* "none"; "open"; "stop" once a block is refused, for its
                            \* caller goes on to cleanup_handle_incoming_blocks; "abort"
                            \* once m_batch_success is false
    saved,                  \* what a crash or batch_abort goes back to
    torn,                   \* what add_block wrote of a block before it threw
    phase,                  \* where switch_to_alternative_blockchain is
    alt_chain,
    disconnected_chain,
    split_height,
    iter,                   \* its position in alt_chain or disconnected_chain
    discard                 \* discard_disconnected_chain

db == <<main, alt_blocks, pool, kept>>
switch == <<phase, alt_chain, disconnected_chain, split_height, iter, discard>>
vars == <<db, m_invalid_blocks, batch, saved, torn, switch>>

-----------------------------------------------------------------------------
(* Queries *)

Members(c) == {c[i] : i \in DOMAIN c}

TxsOf(c) == UNION {body[c[i]] : i \in DOMAIN c}

get_tail_id == main[Len(main)]

tx_exists(t) == t \in TxsOf(main) \cup torn.txs

\* The fork version of the block above n others (HardFork's ForkByHeight).
VersionAt(n) == IF n >= fork_height THEN 2 ELSE 1

have_block(b) == b \in Members(main) \cup alt_blocks \cup m_invalid_blocks

Spent(txs) == UNION {key_images[t] : t \in txs}

\* Two transactions of one block spend one key image.
Clash(b) == \E t \in body[b] : key_images[t] \cap Spent(body[b] \ {t}) # {}

\* check_tx_inputs above the chain c: nothing is spent twice, and the ring
\* members are there.
check_tx_inputs(t, c) ==
    /\ key_images[t] \cap Spent(TxsOf(c)) = {}
    /\ ring[t] \subseteq Members(c)

is_alternative_block_allowed_Always(blockchain_height, block_height) == block_height # 0

\* checkpoints::check_block
check_block(b) == \A c \in Checkpoint : height(c) = height(b) => c = b

is_alternative_block_allowed(blockchain_height, block_height) ==
    /\ block_height # 0
    /\ \A c \in Checkpoint : height(c) <= blockchain_height => height(c) < block_height

\* The longest stretch of alternative blocks that ends in b, b included.
build_alt_chain(b) ==
    LET n == Len(lineage[b])
        stretch == {i \in 1..n : \A j \in i..(n - 1) : lineage[b][j] \in alt_blocks}
    IN  SubSeq(lineage[b], n - Cardinality(stretch) + 1, n)

\* The stretch starts above a block of the main chain.
Connects(c) == prev_id(c[1]) \in Members(main)

-----------------------------------------------------------------------------
(* The pool, as a block sees it *)

PoolAfter_NotKept(p, k, returned, before, after) ==
    LET changed == VersionAt(before) # VersionAt(after)
        meets == {t \in Tx : changed => VersionAt(after) \in rules[t]}
    IN  \E lost \in SUBSET ((p \cup returned) \ k) :
            /\ returned = {} /\ ~changed => lost = {}
            /\ pool' = ((p \cup returned) \ lost) \cap meets
            /\ kept' = k \cap meets

\* The transactions in returned enter the pool p with relay_method::block and
\* are kept, k being kept already.  add_tx ends in a prune, which may drop
\* others.  If the version of the next block has changed, m_tx_pool.validate
\* drops what does not meet the new rules, and may drop what is not kept.
PoolAfter(p, k, returned, before, after) ==
    LET changed == VersionAt(before) # VersionAt(after)
        meets == {t \in Tx : changed => VersionAt(after) \in rules[t]}
    IN  \E lost \in SUBSET (p \ (k \cup returned)) :
            /\ returned = {} /\ ~changed => lost = {}
            /\ pool' = ((p \cup returned) \ lost) \cap meets
            /\ kept' = (k \cup returned) \cap meets

-----------------------------------------------------------------------------
(* Connecting and popping one block *)

Good_InputsNotChecked(t, extra) == ~tx_exists(t) /\ t \in pool \cup extra

\* What handle_block_to_main_chain asks of a transaction, found in the pool or
\* in the supplement extra of the block.
Good(t, extra) ==
    /\ ~tx_exists(t) /\ t \in pool \cup extra
    /\ check_tx_inputs(t, main) /\ key_images[t] \cap torn.spent = {}

AllGood(b, extra) == \A t \in body[b] : Good(t, extra)

\* Its checks before it looks at the transactions.
HeaderGood(b) == prev_id(b) = get_tail_id /\ check_block(b)

\* handle_block_to_main_chain for a block it accepts.
Connect(b, extra) ==
    /\ HeaderGood(b) /\ AllGood(b, extra)
    /\ b \notin BadReward /\ ~Clash(b)
    /\ main' = Append(main, b)
    /\ PoolAfter(pool \ body[b], kept \ body[b], {}, Len(main), Len(main) + 1)
    /\ UNCHANGED <<m_invalid_blocks, batch, torn>>

\* The caller stops at the first block that is refused.
Stop == batch' = IF batch = "open" THEN "stop" ELSE batch

GivenUp_MissingIsInvalid(b, extra, t, taken) ==
    /\ ~Good(t, extra)
    /\ taken \subseteq {u \in body[b] \cap pool : Good(u, extra)}
    /\ m_invalid_blocks' = m_invalid_blocks \cup {b}
    /\ Stop /\ UNCHANGED torn
    /\ LET found == taken \cup {u \in {t} \cap pool : ~tx_exists(u)}
       IN  PoolAfter(pool, kept, found, Len(main), Len(main))

\* It gives a block up at the transaction t, after taking the good ones in
\* taken out of the pool; only bad inputs make the block invalid.
GivenUp(b, extra, t, taken) ==
    /\ ~Good(t, extra)
    /\ taken \subseteq {u \in body[b] \cap pool : Good(u, extra)}
    /\ m_invalid_blocks' = IF ~tx_exists(t) /\ t \in pool \cup extra
                           THEN m_invalid_blocks \cup {b} ELSE m_invalid_blocks
    /\ Stop /\ UNCHANGED torn
    /\ LET found == taken \cup {u \in {t} \cap pool : ~tx_exists(u)}
       IN  PoolAfter(pool, kept, found, Len(main), Len(main))

\* add_block throws KEY_IMAGE_EXISTS at the transaction t of b, with the ones
\* in written and some of t's own key images already in the batch.
Throws(b) ==
    \E t \in body[b] : \E written \in SUBSET (body[b] \ {t}) :
        /\ \A u \in written : key_images[u] \cap Spent(written \ {u}) = {}
        /\ key_images[t] \cap Spent(written) # {}
        /\ \E some \in SUBSET (key_images[t] \ Spent(written)) :
              torn' = [txs |-> written, spent |-> Spent(written) \cup some]

\* All transactions are good but the reward is not, or the database finds a
\* key image spent twice and the batch is lost.  In a batch with a torn block
\* the database may throw at any block: its next transaction number is taken.
TurnedDown(b, extra) ==
    /\ AllGood(b, extra)
    /\ \/ b \in BadReward /\ Stop /\ UNCHANGED torn
       \/ b \notin BadReward /\ Clash(b) /\ Throws(b) /\ batch' = "abort"
       \/ b \notin BadReward /\ batch = "abort" /\ UNCHANGED <<torn, batch>>
    /\ PoolAfter(pool, kept, body[b] \cap pool, Len(main), Len(main))
    /\ UNCHANGED m_invalid_blocks

\* handle_block_to_main_chain for a block it refuses: what it took out of the
\* pool goes back.
Refuse(b, extra) ==
    /\ UNCHANGED main
    /\ \/ ~HeaderGood(b) /\ Stop /\ UNCHANGED <<pool, kept, m_invalid_blocks, torn>>
       \/ HeaderGood(b) /\ TurnedDown(b, extra)
       \/ /\ HeaderGood(b)
          /\ \E t \in body[b], taken \in SUBSET body[b] : GivenUp(b, extra, t, taken)

Pop_TxsForgotten ==
    /\ Len(main) > 1
    /\ main' = SubSeq(main, 1, Len(main) - 1)
    /\ PoolAfter(pool, kept, {}, Len(main), Len(main) - 1)

\* pop_block_from_blockchain
Pop ==
    /\ Len(main) > 1
    /\ main' = SubSeq(main, 1, Len(main) - 1)
    /\ PoolAfter(pool, kept, body[get_tail_id], Len(main), Len(main) - 1)


-----------------------------------------------------------------------------
(* Batches, and the pool between them *)

Idle == phase = "idle"

\* Between batches the pool lock is free.
Free == Idle /\ batch = "none"

NoDb == [main |-> <<>>, alt_blocks |-> {}, pool |-> {}, kept |-> {}]

Untorn == [txs |-> {}, spent |-> {}]

Init ==
    /\ main = <<Genesis>>
    /\ alt_blocks = {} /\ pool = {} /\ kept = {}
    /\ m_invalid_blocks = {}
    /\ batch = "none" /\ saved = NoDb /\ torn = Untorn
    /\ phase = "idle"
    /\ alt_chain = <<>> /\ disconnected_chain = <<>>
    /\ split_height = 0 /\ iter = 0 /\ discard = FALSE

\* A transaction arrives, and is not kept by a block.
ReceiveTx(t) ==
    /\ Free
    /\ t \notin pool /\ ~tx_exists(t) /\ check_tx_inputs(t, main)
    /\ VersionAt(Len(main)) \in rules[t]
    /\ pool' = pool \cup {t}
    /\ UNCHANGED <<main, alt_blocks, kept, m_invalid_blocks, batch, saved, torn, switch>>

\* It expires or is flushed.
LoseTx(t) ==
    /\ Free
    /\ t \in pool
    /\ pool' = pool \ {t} /\ kept' = kept \ {t}
    /\ UNCHANGED <<main, alt_blocks, m_invalid_blocks, batch, saved, torn, switch>>

prepare_handle_incoming_blocks ==
    /\ Free
    /\ batch' = "open"
    /\ saved' = [main |-> main, alt_blocks |-> alt_blocks, pool |-> pool, kept |-> kept]
    /\ UNCHANGED <<db, m_invalid_blocks, torn, switch>>

Reload ==
    /\ main' = saved.main
    /\ pool' = saved.pool /\ kept' = saved.kept

\* batch_stop, or batch_abort.
cleanup_handle_incoming_blocks ==
    /\ Idle /\ batch # "none"
    /\ IF batch = "abort" THEN Reload /\ alt_blocks' = saved.alt_blocks ELSE UNCHANGED db
    /\ batch' = "none" /\ saved' = NoDb /\ torn' = Untorn
    /\ UNCHANGED <<m_invalid_blocks, switch>>

NoSwitch ==
    /\ phase' = "idle"
    /\ alt_chain' = <<>> /\ disconnected_chain' = <<>>
    /\ split_height' = 0 /\ iter' = 0 /\ discard' = FALSE

\* A crash or a stop at any point.  core::init drops the alternative blocks
\* unless it is told to keep them.
Restart(keep_alt_blocks) ==
    /\ IF batch = "none" THEN UNCHANGED <<main, pool, kept>> ELSE Reload
    /\ alt_blocks' = IF ~keep_alt_blocks THEN {}
                     ELSE IF batch = "none" THEN alt_blocks ELSE saved.alt_blocks
    /\ m_invalid_blocks' = {}
    /\ batch' = "none" /\ saved' = NoDb /\ torn' = Untorn
    /\ NoSwitch

flush_invalid_blocks ==
    /\ Idle
    /\ m_invalid_blocks # {}
    /\ m_invalid_blocks' = {}
    /\ UNCHANGED <<db, batch, saved, torn, switch>>

\* One round of the loop of pop_blocks, in a batch of its own.
pop_blocks ==
    /\ OperatorPops /\ Free
    /\ Pop
    /\ UNCHANGED <<alt_blocks, m_invalid_blocks, batch, saved, torn, switch>>

-----------------------------------------------------------------------------
(* add_new_block *)

\* The supplement meets the rules at the height of the block, or the block is
\* refused on the spot.
Arrives(b, extra) ==
    /\ Idle /\ batch = "open"
    /\ ~have_block(b)
    /\ extra \subseteq body[b]
    /\ \A t \in extra : VersionAt(height(b)) \in rules[t]

AddToMainChain(b, extra) ==
    /\ Arrives(b, extra)
    /\ prev_id(b) = get_tail_id
    /\ Connect(b, extra) \/ Refuse(b, extra)
    /\ UNCHANGED <<alt_blocks, saved, switch>>

\* What handle_alternative_block asks before it stores b.
StorableAsAlternative(b) ==
    /\ is_alternative_block_allowed(Len(main), height(b))
    /\ prev_id(b) \in Members(main) \cup alt_blocks
    /\ Connects(build_alt_chain(b))
    /\ check_block(b)

StartsSwitch_OnTie(b) ==
    b \in Checkpoint \/ cumulative_difficulty[get_tail_id] <= cumulative_difficulty[b]

\* It ends in a checkpoint, or has more work behind it.
StartsSwitch(b) ==
    \/ b \in Checkpoint
    \/ cumulative_difficulty[get_tail_id] < cumulative_difficulty[b]

\* What the supplement of an alternative block brings into the pool.  A
\* transaction in hidden is in the pool but not in relay_category::legacy, and
\* is added again.
Supplement(extra, hidden) == (hidden \cup (extra \ pool)) \ TxsOf(main)

\* Those of them that add_tx refuses: one with bad inputs is stored, but only
\* if the pool does not have it.
RefusedByPool(extra, hidden) ==
    {t \in Supplement(extra, hidden) \cap pool : ~check_tx_inputs(t, main)}

\* handle_alternative_block, up to the switch.
AddAlternative(b, extra) ==
    /\ Arrives(b, extra)
    /\ prev_id(b) # get_tail_id
    /\ StorableAsAlternative(b)
    /\ \E hidden \in SUBSET ((extra \cap pool) \ kept) :
          /\ RefusedByPool(extra, hidden) = {}
          /\ PoolAfter(pool, kept, Supplement(extra, hidden), Len(main), Len(main))
    /\ alt_blocks' = alt_blocks \cup {b}
    /\ IF StartsSwitch(b)
       THEN /\ phase' = "popping"
            /\ alt_chain' = build_alt_chain(b)
            /\ discard' = (b \in Checkpoint)
            /\ UNCHANGED <<disconnected_chain, split_height, iter>>
       ELSE UNCHANGED switch
    /\ UNCHANGED <<main, m_invalid_blocks, batch, saved, torn>>

\* The same for a block it refuses because one of the supplement does not get
\* into the pool; those before it have entered.
RefuseAlternative(b, extra) ==
    /\ Arrives(b, extra)
    /\ prev_id(b) # get_tail_id
    /\ StorableAsAlternative(b)
    /\ \E hidden \in SUBSET ((extra \cap pool) \ kept) :
          /\ RefusedByPool(extra, hidden) # {}
          /\ \E entered \in SUBSET (Supplement(extra, hidden) \ RefusedByPool(extra, hidden)) :
                PoolAfter(pool, kept, entered, Len(main), Len(main))
    /\ Stop
    /\ UNCHANGED <<main, alt_blocks, m_invalid_blocks, saved, torn, switch>>

-----------------------------------------------------------------------------
(* switch_to_alternative_blockchain *)

SwitchPop ==
    /\ phase = "popping"
    /\ get_tail_id # prev_id(alt_chain[1])
    /\ Pop
    /\ disconnected_chain' = <<get_tail_id>> \o disconnected_chain
    /\ UNCHANGED <<alt_blocks, m_invalid_blocks, batch, saved, torn, phase, alt_chain,
                   split_height, iter, discard>>

SwitchPopped_OffByOne ==
    /\ phase = "popping"
    /\ get_tail_id = prev_id(alt_chain[1])
    /\ phase' = "connecting"
    /\ split_height' = Len(main) - 1
    /\ iter' = 1
    /\ UNCHANGED <<db, m_invalid_blocks, batch, saved, torn, alt_chain, disconnected_chain, discard>>

SwitchPopped ==
    /\ phase = "popping"
    /\ get_tail_id = prev_id(alt_chain[1])
    /\ phase' = "connecting"
    /\ split_height' = Len(main)
    /\ iter' = 1
    /\ UNCHANGED <<db, m_invalid_blocks, batch, saved, torn, alt_chain, disconnected_chain, discard>>

SwitchConnect ==
    /\ phase = "connecting"
    /\ iter <= Len(alt_chain)
    /\ Connect(alt_chain[iter], {})
    /\ iter' = iter + 1
    /\ UNCHANGED <<alt_blocks, saved, phase, alt_chain, disconnected_chain, split_height, discard>>

SwitchFails_NoRollback ==
    /\ phase = "connecting"
    /\ iter <= Len(alt_chain)
    /\ Refuse(alt_chain[iter], {})
    /\ phase' = "purging"
    /\ UNCHANGED <<alt_blocks, saved, alt_chain, disconnected_chain, split_height, iter, discard>>

SwitchFails ==
    /\ phase = "connecting"
    /\ iter <= Len(alt_chain)
    /\ Refuse(alt_chain[iter], {})
    /\ phase' = "rolling_back"
    /\ UNCHANGED <<alt_blocks, saved, alt_chain, disconnected_chain, split_height, iter, discard>>

SwitchConnected ==
    /\ phase = "connecting"
    /\ iter > Len(alt_chain)
    /\ phase' = "pushing"
    /\ iter' = IF discard THEN Len(disconnected_chain) + 1 ELSE 1
    /\ UNCHANGED <<db, m_invalid_blocks, batch, saved, torn, alt_chain, disconnected_chain,
                   split_height, discard>>

\* An old block goes through handle_alternative_block again, which must not
\* start a switch inside this one (NoNestedSwitch).
SwitchPushOld ==
    /\ phase = "pushing"
    /\ iter <= Len(disconnected_chain)
    /\ LET b == disconnected_chain[iter]
       IN  /\ b \notin alt_blocks /\ StorableAsAlternative(b) => ~StartsSwitch(b)
           /\ alt_blocks' = IF StorableAsAlternative(b) THEN alt_blocks \cup {b} ELSE alt_blocks
    /\ iter' = iter + 1
    /\ UNCHANGED <<main, pool, kept, m_invalid_blocks, batch, saved, torn, phase, alt_chain,
                   disconnected_chain, split_height, discard>>

SwitchDone ==
    /\ phase = "pushing"
    /\ iter > Len(disconnected_chain)
    /\ alt_blocks' = alt_blocks \ Members(alt_chain)
    /\ NoSwitch
    /\ UNCHANGED <<main, pool, kept, m_invalid_blocks, batch, saved, torn>>

-----------------------------------------------------------------------------
(* rollback_blockchain_switching *)

RollbackPop ==
    /\ phase = "rolling_back"
    /\ Len(main) # split_height
    /\ Pop
    /\ UNCHANGED <<alt_blocks, m_invalid_blocks, batch, saved, torn, switch>>

RollbackPopped ==
    /\ phase = "rolling_back"
    /\ Len(main) = split_height
    /\ phase' = "restoring"
    /\ UNCHANGED <<db, m_invalid_blocks, batch, saved, torn, alt_chain, disconnected_chain,
                   split_height, iter, discard>>

\* How many blocks of original_chain are back.
Restored == Len(main) - split_height

RollbackRestore ==
    /\ phase = "restoring"
    /\ Restored < Len(disconnected_chain)
    /\ Connect(disconnected_chain[Restored + 1], {})
    /\ UNCHANGED <<alt_blocks, saved, switch>>

\* Nobody looks at the result of the rollback.
RollbackEnds ==
    /\ phase = "restoring"
    /\ \/ /\ Restored = Len(disconnected_chain)
          /\ UNCHANGED <<main, pool, kept, m_invalid_blocks, batch, torn>>
       \/ /\ Restored < Len(disconnected_chain)
          /\ Refuse(disconnected_chain[Restored + 1], {})
    /\ phase' = "purging"
    /\ UNCHANGED <<alt_blocks, saved, alt_chain, disconnected_chain, split_height, iter, discard>>

SwitchPurge_RefusedOnly ==
    /\ phase = "purging"
    /\ alt_blocks' = alt_blocks \ {alt_chain[iter]}
    /\ NoSwitch
    /\ UNCHANGED <<main, pool, kept, m_invalid_blocks, batch, saved, torn>>

\* The refused block and those above it are forgotten.
SwitchPurge ==
    /\ phase = "purging"
    /\ alt_blocks' = alt_blocks \ {alt_chain[i] : i \in iter..Len(alt_chain)}
    /\ NoSwitch
    /\ UNCHANGED <<main, pool, kept, m_invalid_blocks, batch, saved, torn>>

-----------------------------------------------------------------------------
SwitchStep ==
    \/ SwitchPop \/ SwitchPopped \/ SwitchConnect \/ SwitchFails \/ SwitchConnected
    \/ SwitchPushOld \/ SwitchDone
    \/ RollbackPop \/ RollbackPopped \/ RollbackRestore \/ RollbackEnds \/ SwitchPurge

Next ==
    \/ \E t \in Tx : ReceiveTx(t) \/ LoseTx(t)
    \/ prepare_handle_incoming_blocks
    \/ cleanup_handle_incoming_blocks
    \/ \E b \in Block \ {Genesis} : \E extra \in SUBSET body[b] :
          AddToMainChain(b, extra) \/ AddAlternative(b, extra) \/ RefuseAlternative(b, extra)
    \/ SwitchStep
    \/ flush_invalid_blocks
    \/ pop_blocks
    \/ \E keep_alt_blocks \in BOOLEAN : Restart(keep_alt_blocks)

\* A switch, once started, runs on in its thread.
Spec == Init /\ [][Next]_vars /\ WF_vars(SwitchStep)

-----------------------------------------------------------------------------
(* Properties *)

Chains == Seq(Block)

Saved ==
    [main : Chains, alt_blocks : SUBSET Block, pool : SUBSET Tx, kept : SUBSET Tx]

Phases == {"idle", "popping", "connecting", "pushing", "rolling_back", "restoring", "purging"}

\* The state is of the types the class declares, and only pool transactions
\* are kept.
TypeOK ==
    /\ main \in Chains
    /\ alt_blocks \subseteq Block
    /\ pool \subseteq Tx /\ kept \subseteq pool
    /\ m_invalid_blocks \subseteq Block
    /\ batch \in {"none", "open", "stop", "abort"}
    /\ saved \in Saved
    /\ torn \in [txs : SUBSET Tx, spent : SUBSET Spent(Tx)]
    /\ phase \in Phases
    /\ alt_chain \in Chains /\ disconnected_chain \in Chains
    /\ split_height \in Nat /\ iter \in Nat
    /\ discard \in BOOLEAN

\* The main chain is at any moment, also in the middle of a switch, the lineage
\* of its tail; every block has good inputs above the ones before it and spends
\* nothing twice, whatever was popped and connected before.
MainChainValid ==
    /\ main = lineage[get_tail_id]
    /\ \A i \in DOMAIN main :
          /\ check_block(main[i]) /\ main[i] \notin BadReward /\ ~Clash(main[i])
          /\ \A t \in body[main[i]] : /\ check_tx_inputs(t, SubSeq(main, 1, i - 1))
                                      /\ t \notin TxsOf(SubSeq(main, 1, i - 1))

\* A failed switch leaves the chain it found: when the rollback is over, all
\* blocks it had disconnected are back in place, or the batch is aborted and
\* takes the rollback with it.
RollbackRestores ==
    phase = "purging" /\ batch # "abort" => main = SubSeq(main, 1, split_height) \o disconnected_chain

\* No transaction of the main chain is lost to a switch: at each of its steps a
\* transaction of a disconnected block is in the main chain or in the pool.
NothingMinedIsLost ==
    TxsOf(disconnected_chain) \subseteq TxsOf(main) \cup pool

LastCheckpoint == {height(c) : c \in Checkpoint \cap Members(main)}

\* Between blocks, no alternative block above the last checkpoint has more work
\* behind it than the main chain: the switch was never forgotten.
NoWorkLeftBehind ==
    Idle /\ batch # "abort" => \A b \in alt_blocks :
              \/ cumulative_difficulty[b] <= cumulative_difficulty[get_tail_id]
              \/ \E h \in LastCheckpoint : height(b) <= h

\* A block is only banned for what it is: m_invalid_blocks, which have_block
\* refuses from then on, holds no block that is good above its own ancestors,
\* whatever the pool lacked or the main chain was when it was tried.
OnlyBadBlocksBanned ==
    \A b \in m_invalid_blocks : \E t \in body[b] : ~check_tx_inputs(t, lineage[prev_id(b)])

\* Pushing the old chain back as alternative blocks never starts a switch
\* inside the switch.
NoNestedSwitch ==
    phase = "pushing" /\ iter <= Len(disconnected_chain) =>
        LET b == disconnected_chain[iter]
        IN  b \notin alt_blocks /\ StorableAsAlternative(b) => ~StartsSwitch(b)

\* Every switch ends: the loops that pop, connect, roll back and restore
\* terminate.
SwitchEnds == ~Idle ~> Idle

-----------------------------------------------------------------------------
(* The promise: the best chain *)

\* Until a switch has connected all its blocks, the chain is still the old one;
\* a batch that will be aborted has lost it already.
Chain ==
    IF batch = "abort" THEN saved.main
    ELSE CASE phase = "popping" -> main \o disconnected_chain
           [] phase \in {"connecting", "rolling_back", "restoring"} ->
                 SubSeq(main, 1, split_height) \o disconnected_chain
           [] OTHER -> main

Durable == IF batch = "none" THEN Chain ELSE saved.main

Best == INSTANCE BestChain WITH chain <- Chain, durable <- Durable

\* The node follows BestChain: it only moves to a chain with more work or one
\* more checkpoint, a switch is all or nothing, and a crash goes back to the
\* chain of the last batch.
ImplementsBestChain == Best!Spec
=============================================================================
