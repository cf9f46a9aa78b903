------------------------------- MODULE TxPool -------------------------------
(***************************************************************************)
(* The transaction pool of cryptonote_core/tx_pool.cpp beside the main     *)
(* chain that feeds it: transactions arriving from peers, blocks that take *)
(* transactions out of the pool, refused and popped blocks that put them   *)
(* back, pruning, expiry, re-validation at a fork, restarts and crashes.   *)
(*                                                                         *)
(* The pool lives in the database (txpool, double_spend_seen) and in       *)
(* memory (the m_ variables).  Block handling runs in one database batch   *)
(* between prepare_handle_incoming_blocks and                              *)
(* cleanup_handle_incoming_blocks; a crash or an aborted batch undoes what *)
(* the batch wrote to the database and nothing else.                       *)
(*                                                                         *)
(* A handler that loops over transactions is a sequence of steps, told     *)
(* apart by phase.  The pool lock is held from its first to its last step, *)
(* so no other handler runs in between; the order in which the loop meets  *)
(* the transactions (hash order) is left open.                             *)
(***************************************************************************)
EXTENDS Integers, Sequences, FiniteSets

CONSTANTS
    Tx,                 \* transaction ids
    KeyImage,
    vin,                \* the key images a transaction spends, in input order
    weight,             \* its weight
    fee_rate,           \* its fee per byte
    ring_height,        \* chain height from which its ring members exist
    rules,              \* the fork versions whose non-input rules it meets
    fork_height,        \* chain height from which version 2 is in force
    m_txpool_max_weight,
    RelayMethods,       \* the relay methods transactions arrive with
    Surprises,          \* unusual blocks that may arrive, see below
    MaxHeight,          \* bound: blocks in a chain
    MaxTimedOut,        \* bound: transactions remembered as timed out
    Mining              \* are block templates asked for?

\* relay_method, in the order upgrade_relay_method goes through.
Rank == [none |-> 0, local |-> 1, forward |-> 2, stem |-> 3, fluff |-> 4, block |-> 5]

Method == DOMAIN Rank

ASSUME Parameters ==
    /\ IsFiniteSet(Tx)
    /\ vin \in [Tx -> Seq(KeyImage)]
    /\ \A t \in Tx : \A i, j \in DOMAIN vin[t] : vin[t][i] = vin[t][j] => i = j
    /\ \A t \in Tx : vin[t] # <<>>
    /\ weight \in [Tx -> Nat]
    /\ fee_rate \in [Tx -> Nat]
    /\ ring_height \in [Tx -> Nat]
    /\ rules \in [Tx -> SUBSET {1, 2}]
    /\ fork_height \in Nat
    /\ m_txpool_max_weight \in Nat
    /\ RelayMethods \subseteq Method \ {"block"}
    /\ Surprises \subseteq {"clashing_block"}
    /\ MaxHeight \in Nat
    /\ MaxTimedOut \in Nat
    /\ Mining \in BOOLEAN

VARIABLES
    chain,              \* db: the transactions of each block above genesis
    txpool,             \* db: relay method of each transaction, "absent" if not in the pool
    double_spend_seen,  \* db: the transactions with that bit set
    batch,              \* "none", or the open write batch and how it will end
    batch_start,        \* db contents a crash or an abort goes back to
    m_spent_key_images,
    m_txpool_weight,
    m_txs_by_fee_and_receive_time,  \* ids in the sorted container
    m_timed_out_transactions,
    m_input_cache,      \* verdict of check_tx_inputs, "unknown" if not cached
    m_btc,              \* transactions of the cached block template
    m_btc_valid,        \* is it valid, its cookie and its parent unchanged?
    phase,              \* what the handler that holds the pool lock is doing
    pending,            \* transactions its loop has not met yet
    hand,               \* the transaction a re-validation has taken out
    entries,            \* the pool as the re-validation found it
    pruning,            \* is the prune at the end of add_tx running?
    started             \* did the last tx_memory_pool::init succeed?

db == <<chain, txpool, double_spend_seen>>
memory == <<m_spent_key_images, m_txpool_weight, m_txs_by_fee_and_receive_time>>
caches == <<m_input_cache, m_btc, m_btc_valid>>
control == <<phase, pending, hand, entries>>
vars == <<db, batch, batch_start, memory, caches, m_timed_out_transactions,
          control, pruning, started>>

-----------------------------------------------------------------------------
(* Queries *)

KeyImages(t) == {vin[t][i] : i \in DOMAIN vin[t]}

Mined == UNION {chain[i] : i \in DOMAIN chain}

Pool == {t \in Tx : txpool[t] # "absent"}

Legacy == {"none", "fluff", "block"}

Kept(t) == txpool[t] = "block"

\* The fork version of the block above n others (HardFork's ForkByHeight).
VersionAt(n) == IF n >= fork_height THEN 2 ELSE 1

get_current_hard_fork_version == VersionAt(Len(chain))

Spends(S) == UNION {KeyImages(t) : t \in S}

\* Blockchain::check_tx_inputs on the current chain.
InputsGood(t) ==
    /\ KeyImages(t) \cap Spends(Mined) = {}
    /\ ring_height[t] <= Len(chain)

\* Two different transactions that spend one key image.
Rivals(t, u) == t # u /\ KeyImages(t) \cap KeyImages(u) # {}

\* The summed weight of S, one element per unit so that it is a cardinality.
Weight(S) == Cardinality(UNION {{t} \X (1..weight[t]) : t \in S})

\* reduce_txpool_weight: saturates at zero.
Reduced(w, S) == IF Weight(S) > w THEN 0 ELSE w - Weight(S)

have_tx_keyimg_as_spent(k, t) ==
    /\ m_spent_key_images[k] # {}
    /\ m_spent_key_images[k] = {t} => txpool[t] \in Legacy

have_tx_keyimges_as_spent(t) == \E k \in KeyImages(t) : have_tx_keyimg_as_spent(k, t)

-----------------------------------------------------------------------------
(* Key images *)

\* insert_key_images stops at the first key image it may not insert, and
\* keeps what it inserted before.
Refused(t, method, k) ==
    \/ method # "block" /\ m_spent_key_images[k] \notin {{}, {t}}
    \/ t \in m_spent_key_images[k] /\ txpool[t] \in Legacy

InsertSucceeds(t, method) == \A k \in KeyImages(t) : ~Refused(t, method, k)

insert_key_images(t, method) ==
    [k \in KeyImage |->
        IF \E i \in DOMAIN vin[t] : /\ vin[t][i] = k
                                    /\ \A j \in 1..i : ~Refused(t, method, vin[t][j])
        THEN m_spent_key_images[k] \cup {t}
        ELSE m_spent_key_images[k]]

remove_transaction_keyimages_FirstInputOnly(S) ==
    [k \in KeyImage |-> m_spent_key_images[k] \ {t \in S : vin[t][1] = k}]

\* remove_transaction_keyimages, for each transaction of S, stops at the
\* first key image that does not list the transaction.
remove_transaction_keyimages(S) ==
    [k \in KeyImage |->
        m_spent_key_images[k] \
           {t \in S : \E i \in DOMAIN vin[t] :
                         /\ vin[t][i] = k
                         /\ \A j \in 1..i : t \in m_spent_key_images[vin[t][j]]}]

Remove_CookieKept(S) ==
    /\ txpool' = [t \in Tx |-> IF t \in S THEN "absent" ELSE txpool[t]]
    /\ double_spend_seen' = double_spend_seen \ S
    /\ m_txpool_weight' = Reduced(m_txpool_weight, S)
    /\ m_spent_key_images' = remove_transaction_keyimages(S)
    /\ m_txs_by_fee_and_receive_time' = m_txs_by_fee_and_receive_time \ S
    /\ UNCHANGED m_btc_valid

\* Every removal: the database entry, the weight, the key images and the
\* place in the sorted container.
Remove(S) ==
    /\ txpool' = [t \in Tx |-> IF t \in S THEN "absent" ELSE txpool[t]]
    /\ double_spend_seen' = double_spend_seen \ S
    /\ m_txpool_weight' = Reduced(m_txpool_weight, S)
    /\ m_spent_key_images' = remove_transaction_keyimages(S)
    /\ m_txs_by_fee_and_receive_time' = m_txs_by_fee_and_receive_time \ S
    /\ m_btc_valid' = FALSE

-----------------------------------------------------------------------------
(* add_tx *)

upgrade_relay_method_Always(old, new) == new

upgrade_relay_method(old, new) == IF Rank[old] < Rank[new] THEN new ELSE old

\* A stem transaction that comes back in stem state has gone round a loop.
Arrival(t, method) ==
    IF method = "stem" /\ txpool[t] = "stem" THEN "fluff" ELSE method

\* check_tx_inputs of the pool: blocks do not use the cache.
Verdict(t, method) ==
    IF method # "block" /\ m_input_cache[t] # "unknown"
    THEN m_input_cache[t] = "good"
    ELSE InputsGood(t)

CacheVerdict(t, method) ==
    m_input_cache' = IF method = "block" THEN m_input_cache
                     ELSE [m_input_cache EXCEPT ![t] = IF Verdict(t, method) THEN "good" ELSE "bad"]

Screened_TimedOutAlways(t, method, verified, standard) ==
    \/ t \in m_timed_out_transactions
    \/ ~verified /\ get_current_hard_fork_version \notin rules[t]
    \/ method # "block" /\ ~standard

\* Refusals before the inputs are looked at.  standard says whether the
\* fee, the size of tx_extra and the unlock time pass; verified says that the
\* caller has checked the non-input rules.
Screened(t, method, verified, standard) ==
    \/ method # "block" /\ t \in m_timed_out_transactions
    \/ ~verified /\ get_current_hard_fork_version \notin rules[t]
    \/ method # "block" /\ ~standard

mark_double_spend(t) ==
    LET marked == (UNION {m_spent_key_images[k] : k \in KeyImages(t)}) \cap Pool
    IN  /\ double_spend_seen' = double_spend_seen \cup marked
        /\ m_btc_valid' = (m_btc_valid /\ marked \subseteq double_spend_seen)

NotAdded == UNCHANGED <<txpool, m_txpool_weight, m_txs_by_fee_and_receive_time, pruning>>

Stored_WeighedAgain(t, method, stored, seen) ==
    /\ txpool' = [txpool EXCEPT ![t] = stored]
    /\ double_spend_seen' = IF seen THEN double_spend_seen \cup {t} ELSE double_spend_seen \ {t}
    /\ m_spent_key_images' = insert_key_images(t, method)
    /\ m_txpool_weight' = m_txpool_weight + weight[t]
    /\ m_txs_by_fee_and_receive_time' = m_txs_by_fee_and_receive_time \cup {t}
    /\ m_btc_valid' = FALSE
    /\ pruning' = TRUE

\* t is stored with relay method stored and the prune follows.
Stored(t, method, stored, seen) ==
    /\ txpool' = [txpool EXCEPT ![t] = stored]
    /\ double_spend_seen' = IF seen THEN double_spend_seen \cup {t} ELSE double_spend_seen \ {t}
    /\ m_spent_key_images' = insert_key_images(t, method)
    /\ m_txpool_weight' = IF t \in Pool THEN m_txpool_weight ELSE m_txpool_weight + weight[t]
    /\ m_txs_by_fee_and_receive_time' = m_txs_by_fee_and_receive_time \cup {t}
    /\ m_btc_valid' = FALSE
    /\ pruning' = TRUE

\* insert_key_images failed, or the database already has the transaction: the
\* LockedTXN is dropped, what was inserted in memory stays.
Undone(t, method) ==
    /\ m_spent_key_images' = insert_key_images(t, method)
    /\ m_btc_valid' = (m_btc_valid /\ ~InsertSucceeds(t, method))
    /\ NotAdded
    /\ UNCHANGED double_spend_seen

BadInputs(t, method) ==
    IF method = "block" /\ InsertSucceeds(t, method) /\ t \notin Pool
    THEN Stored(t, method, method, have_tx_keyimges_as_spent(t))
    ELSE IF method = "block"
    THEN Undone(t, method)
    ELSE NotAdded /\ UNCHANGED <<double_spend_seen, m_spent_key_images, m_btc_valid>>

GoodInputs(t, method) ==
    IF t \in Pool /\ upgrade_relay_method(txpool[t], method) = txpool[t]
    THEN /\ m_btc_valid' = FALSE
         /\ pruning' = TRUE
         /\ UNCHANGED <<txpool, double_spend_seen, memory>>
    ELSE IF InsertSucceeds(t, method)
    THEN Stored(t, method, method, FALSE)
    ELSE Undone(t, method)

add_tx(t, method, verified, standard) ==
    IF Screened(t, method, verified, standard)
    THEN NotAdded /\ UNCHANGED <<double_spend_seen, m_spent_key_images, m_input_cache, m_btc_valid>>
    ELSE IF method # "block" /\ have_tx_keyimges_as_spent(t)
    THEN mark_double_spend(t) /\ NotAdded /\ UNCHANGED <<m_spent_key_images, m_input_cache>>
    ELSE /\ CacheVerdict(t, method)
         /\ IF Verdict(t, method)
            THEN GoodInputs(t, Arrival(t, method))
            ELSE BadInputs(t, method)

\* What prune may take: not the first of the sorted container, not what a
\* block keeps.
Prunable(first) ==
    {t \in m_txs_by_fee_and_receive_time \cap Pool : t # first /\ ~Kept(t)}

\* The cheapest ones go, one by one, until the pool fits or none is left.
\* Ties of the fee are left open.
CheapestUntilFit(S, prunable) ==
    LET Left(R) == Reduced(m_txpool_weight, R)
    IN  /\ Left(S) <= m_txpool_max_weight \/ S = prunable
        /\ \A t \in S : \A u \in prunable \ S : fee_rate[t] <= fee_rate[u]
        /\ S # {} => \E last \in S :
              /\ \A t \in S : fee_rate[t] <= fee_rate[last]
              /\ Left(S \ {last}) > m_txpool_max_weight

\* prune, called by add_tx when it returns true.
Prune ==
    /\ pruning
    /\ IF m_txs_by_fee_and_receive_time = {} THEN Remove({})
       ELSE \E first \in m_txs_by_fee_and_receive_time :
              /\ \A t \in m_txs_by_fee_and_receive_time : fee_rate[t] <= fee_rate[first]
              /\ \E S \in SUBSET Prunable(first) :
                    CheapestUntilFit(S, Prunable(first)) /\ Remove(S)
    /\ pruning' = FALSE
    /\ UNCHANGED <<chain, batch, batch_start, m_input_cache, m_btc,
                   m_timed_out_transactions, control, started>>

-----------------------------------------------------------------------------
(* Handlers outside block handling *)

NoEntries == [txpool |-> [t \in Tx |-> "absent"], seen |-> {}]

NoBatch == [chain |-> <<>>, txpool |-> [t \in Tx |-> "absent"], seen |-> {}]

Init ==
    /\ chain = <<>>
    /\ txpool = [t \in Tx |-> "absent"]
    /\ double_spend_seen = {}
    /\ batch = "none"
    /\ batch_start = NoBatch
    /\ m_spent_key_images = [k \in KeyImage |-> {}]
    /\ m_txpool_weight = 0
    /\ m_txs_by_fee_and_receive_time = {}
    /\ m_timed_out_transactions = {}
    /\ m_input_cache = [t \in Tx |-> "unknown"]
    /\ m_btc = {}
    /\ m_btc_valid = FALSE
    /\ phase = "idle"
    /\ pending = {}
    /\ hand = {}
    /\ entries = NoEntries
    /\ pruning = FALSE
    /\ started = TRUE

Idle == phase = "idle" /\ ~pruning /\ started

Unlocked == Idle /\ batch = "none"

\* core::handle_incoming_tx and add_new_tx.  m_incoming_tx_lock keeps blocks
\* out between the two lookups and add_tx.
Submit(t, method, standard) ==
    /\ Unlocked
    /\ txpool[t] \notin Legacy
    /\ t \notin Mined
    /\ add_tx(t, method, FALSE, standard)
    /\ UNCHANGED <<chain, batch, batch_start, m_btc, m_timed_out_transactions, control, started>>

\* core::on_transactions_relayed: the relay method goes up, nothing else
\* that is modelled here.
set_relayed(t, method) ==
    /\ Unlocked
    /\ t \in Pool
    /\ txpool' = [txpool EXCEPT ![t] = upgrade_relay_method(@, method)]
    /\ UNCHANGED <<chain, double_spend_seen, batch, batch_start, memory, caches,
                   m_timed_out_transactions, control, pruning, started>>

\* The transactions that are too old; which ones is up to the clock.
remove_stuck_transactions(S) ==
    /\ Unlocked
    /\ S # {} /\ S \subseteq Pool
    /\ Cardinality(m_timed_out_transactions \cup S) <= MaxTimedOut
    /\ Remove(S)
    /\ m_timed_out_transactions' = m_timed_out_transactions \cup S
    /\ UNCHANGED <<chain, batch, batch_start, m_input_cache, m_btc, control, pruning, started>>

flush_txes_from_pool(t) ==
    /\ Unlocked
    /\ t \in Pool
    /\ Remove({t})
    /\ UNCHANGED <<chain, batch, batch_start, m_input_cache, m_btc,
                   m_timed_out_transactions, control, pruning, started>>

\* create_block_template when the cached template does not serve, with
\* fill_block_template: considered are the transactions that fit (weight and
\* reward are not modelled), of these the ready ones go in, best fee first,
\* unless a key image is already in.
create_block_template(considered, chosen) ==
    LET ready == {t \in considered : Verdict(t, "fluff")}
    IN  /\ Unlocked
        /\ Mining /\ ~m_btc_valid
        /\ considered \subseteq {t \in Pool : txpool[t] \in Legacy} \cap m_txs_by_fee_and_receive_time
        /\ chosen \subseteq ready
        /\ \A t, u \in chosen : ~Rivals(t, u)
        /\ \A t \in ready \ chosen :
              \E u \in chosen : Rivals(t, u) /\ fee_rate[u] >= fee_rate[t]
        /\ m_input_cache' = [t \in Tx |->
              IF t \notin considered THEN m_input_cache[t]
              ELSE IF t \in ready THEN "good" ELSE "bad"]
        /\ m_btc' = chosen
        /\ m_btc_valid' = TRUE
        /\ UNCHANGED <<db, batch, batch_start, memory, m_timed_out_transactions,
                       control, pruning, started>>

-----------------------------------------------------------------------------
(* Block handling *)

InBatch == Idle /\ batch = "open"

ForgetVerdicts_CacheKept ==
    /\ UNCHANGED m_input_cache
    /\ m_btc_valid' = FALSE

\* on_blockchain_inc and on_blockchain_dec, invalidate_block_template_cache.
ForgetVerdicts ==
    /\ m_input_cache' = [t \in Tx |-> "unknown"]
    /\ m_btc_valid' = FALSE

prepare_handle_incoming_blocks ==
    /\ Unlocked
    /\ batch' = "open"
    /\ batch_start' = [chain |-> chain, txpool |-> txpool, seen |-> double_spend_seen]
    /\ UNCHANGED <<db, memory, caches, m_timed_out_transactions, control, pruning, started>>

\* validate begins: every transaction of the pool is to be taken out and added
\* again.
Validating(pool, seen) ==
    /\ phase' = "validating"
    /\ pending' = {t \in Tx : pool[t] # "absent"}
    /\ entries' = [txpool |-> pool, seen |-> seen]
    /\ UNCHANGED hand

\* handle_block_to_main_chain for a block it accepts.  A transaction is taken
\* from the pool as it is, or from the supplement after the non-input rules.
ConnectBlock(block) ==
    /\ InBatch
    /\ Len(chain) < MaxHeight
    /\ block \cap Mined = {}
    /\ \A t \in block \ Pool : get_current_hard_fork_version \in rules[t]
    /\ \A t \in block : InputsGood(t)
    /\ \A t, u \in block : ~Rivals(t, u)
    /\ Remove(block \cap Pool)
    /\ chain' = Append(chain, block)
    /\ m_input_cache' = [t \in Tx |-> "unknown"]
    /\ IF VersionAt(Len(chain)) # VersionAt(Len(chain) + 1)
       THEN Validating(txpool', double_spend_seen')
       ELSE UNCHANGED control
    /\ UNCHANGED <<batch, batch_start, m_btc, m_timed_out_transactions, pruning, started>>

\* Why handle_block_to_main_chain gives a block up after taking the
\* transactions of taken: one is in the chain already, is neither in the pool
\* nor in the supplement, or has bad inputs.
GivenUp(block, taken) ==
    \E x \in block :
        /\ \A t \in taken \ {x} : InputsGood(t)
        /\ \/ x \in Mined \cup (Tx \ Pool) /\ x \notin taken
           \/ x \in taken /\ ~InputsGood(x)

\* The same for a block it refuses: what was taken goes back one by one.  Two
\* spenders of one key image are only met when the database adds the second,
\* and the batch is lost with them.
RefuseBlock(block, taken) ==
    LET clash == \E t, u \in block : Rivals(t, u)
        whole == taken = block \cap Pool /\ \A t \in block : t \notin Mined /\ InputsGood(t)
    IN  /\ InBatch
        /\ Len(chain) < MaxHeight
        /\ taken \subseteq block \cap Pool
        /\ clash => "clashing_block" \in Surprises
        /\ whole \/ GivenUp(block, taken)
        /\ Remove(taken)
        /\ batch' = IF whole /\ clash THEN "abort" ELSE batch
        /\ phase' = "returning"
        /\ pending' = taken
        /\ UNCHANGED <<chain, batch_start, m_input_cache, m_btc, hand, entries,
                       m_timed_out_transactions, pruning, started>>

AlternativeBlockTx_MinedNotChecked(t) ==
    /\ InBatch
    /\ chain # <<>>
    /\ txpool[t] \notin Legacy
    /\ \E n \in 0..(MaxHeight - 1) : VersionAt(n) \in rules[t]
    /\ add_tx(t, "block", TRUE, TRUE)
    /\ UNCHANGED <<chain, batch, batch_start, m_btc, m_timed_out_transactions, control, started>>

\* handle_alternative_block puts the supplement of an alternative block into
\* the pool, checked against the rules at that block's height, which may be on
\* the other side of the fork height.  It branches off below the tail.
AlternativeBlockTx(t) ==
    /\ InBatch
    /\ chain # <<>>
    /\ txpool[t] \notin Legacy
    /\ t \notin Mined
    /\ \E n \in 0..(MaxHeight - 1) : VersionAt(n) \in rules[t]
    /\ add_tx(t, "block", TRUE, TRUE)
    /\ UNCHANGED <<chain, batch, batch_start, m_btc, m_timed_out_transactions, control, started>>

\* pop_block_from_blockchain: the block leaves the chain, then its transactions
\* go back one by one.
PopBlock ==
    /\ InBatch
    /\ chain # <<>>
    /\ chain' = SubSeq(chain, 1, Len(chain) - 1)
    /\ phase' = "popping"
    /\ pending' = chain[Len(chain)]
    /\ m_btc_valid' = FALSE       \* its prev_id is no longer the tail
    /\ UNCHANGED <<txpool, double_spend_seen, batch, batch_start, memory, m_input_cache, m_btc,
                   hand, entries, m_timed_out_transactions, pruning, started>>

ReturnTx(t) ==
    /\ phase \in {"returning", "popping"}
    /\ ~pruning
    /\ t \in pending
    /\ add_tx(t, "block", TRUE, TRUE)
    /\ pending' = pending \ {t}
    /\ UNCHANGED <<chain, batch, batch_start, m_btc, m_timed_out_transactions, phase, hand,
                   entries, started>>

FinishReturn ==
    /\ phase = "returning" /\ pending = {} /\ ~pruning
    /\ phase' = "idle"
    /\ UNCHANGED <<db, batch, batch_start, memory, caches, m_timed_out_transactions,
                   pending, hand, entries, pruning, started>>

FinishPop_NotValidated ==
    /\ phase = "popping" /\ pending = {} /\ ~pruning
    /\ ForgetVerdicts
    /\ phase' = "idle"
    /\ UNCHANGED <<db, batch, batch_start, memory, m_btc, m_timed_out_transactions,
                   pending, hand, entries, pruning, started>>

FinishPop ==
    /\ phase = "popping" /\ pending = {} /\ ~pruning
    /\ ForgetVerdicts
    /\ IF VersionAt(Len(chain)) # VersionAt(Len(chain) + 1)
       THEN Validating(txpool, double_spend_seen)
       ELSE phase' = "idle" /\ UNCHANGED <<pending, hand, entries>>
    /\ UNCHANGED <<db, batch, batch_start, memory, m_btc, m_timed_out_transactions,
                   pruning, started>>

\* cleanup_handle_incoming_blocks: batch_stop or batch_abort.
cleanup_handle_incoming_blocks ==
    /\ Idle
    /\ batch \in {"open", "abort"}
    /\ IF batch = "open" THEN UNCHANGED db
       ELSE /\ chain' = batch_start.chain
            /\ txpool' = batch_start.txpool
            /\ double_spend_seen' = batch_start.seen
    /\ batch' = "none"
    /\ batch_start' = NoBatch
    /\ UNCHANGED <<memory, caches, m_timed_out_transactions, control, pruning, started>>

-----------------------------------------------------------------------------
(* validate *)

\* take_tx.  If a prune got there first, the empty transaction that add_tx is
\* then called with does not pass the non-input rules.
ValidateTake(t) ==
    /\ phase = "validating" /\ ~pruning
    /\ t \in pending
    /\ pending' = pending \ {t}
    /\ IF t \in Pool
       THEN Remove({t}) /\ phase' = "adding" /\ hand' = {t}
       ELSE UNCHANGED <<txpool, double_spend_seen, memory, m_btc_valid, phase, hand>>
    /\ UNCHANGED <<chain, batch, batch_start, m_input_cache, m_btc, entries,
                   m_timed_out_transactions, pruning, started>>

ValidateAdd(t, standard) ==
    /\ phase = "adding" /\ hand = {t}
    /\ add_tx(t, entries.txpool[t], FALSE, standard)
    /\ IF pruning'
       THEN phase' = "restoring" /\ UNCHANGED hand
       ELSE phase' = "validating" /\ hand' = {}
    /\ UNCHANGED <<chain, batch, batch_start, m_btc, m_timed_out_transactions, pending, entries,
                   started>>

\* update_txpool_tx with the old metadata; it throws if the prune took t.
ValidateRestore(t) ==
    /\ phase = "restoring" /\ ~pruning /\ hand = {t}
    /\ IF t \in Pool
       THEN /\ txpool' = [txpool EXCEPT ![t] = entries.txpool[t]]
            /\ double_spend_seen' = (double_spend_seen \ {t}) \cup ({t} \cap entries.seen)
       ELSE UNCHANGED <<txpool, double_spend_seen>>
    /\ phase' = "validating"
    /\ hand' = {}
    /\ UNCHANGED <<chain, batch, batch_start, memory, caches, m_timed_out_transactions,
                   pending, entries, pruning, started>>

FinishValidation ==
    /\ phase = "validating" /\ pending = {} /\ ~pruning
    /\ phase' = "idle"
    /\ entries' = NoEntries
    /\ batch' = IF batch = "init" THEN "none" ELSE batch
    /\ batch_start' = IF batch = "init"
                      THEN NoBatch ELSE batch_start
    /\ UNCHANGED <<db, memory, caches, m_timed_out_transactions, pending, hand, pruning, started>>

-----------------------------------------------------------------------------
(* Restart *)

InitSucceeds_OnePass(pool) ==
    \A t, u \in Tx : pool[t] \notin {"absent", "block"} /\ pool[u] # "absent" => ~Rivals(t, u)

\* init adds the transactions not kept by a block first, then the others; it
\* fails if two of the first kind spend one key image.
InitSucceeds(pool) ==
    \A t, u \in Tx : pool[t] \notin {"absent", "block"} /\ pool[u] \notin {"absent", "block"}
                       => ~Rivals(t, u)

\* A stop or a crash at any point, then tx_memory_pool::init and, at a fork
\* boundary, the validate of core::init, which has a batch of its own.
Restart ==
    LET d == IF batch = "none" THEN [chain |-> chain, txpool |-> txpool, seen |-> double_spend_seen]
             ELSE batch_start
        stored == {t \in Tx : d.txpool[t] # "absent"}
        height == Len(d.chain)
        boundary == height > 0 /\ VersionAt(height) # VersionAt(height - 1)
    IN  /\ started
        /\ chain' = d.chain
        /\ txpool' = d.txpool
        /\ double_spend_seen' = d.seen
        /\ m_spent_key_images' = [k \in KeyImage |-> {t \in stored : k \in KeyImages(t)}]
        /\ m_txpool_weight' = Weight(stored)
        /\ m_txs_by_fee_and_receive_time' = stored
        /\ m_timed_out_transactions' = {}
        /\ m_btc' = {}
        /\ ForgetVerdicts
        /\ pruning' = FALSE
        /\ hand' = {}
        /\ phase' = IF boundary THEN "validating" ELSE "idle"
        /\ pending' = IF boundary THEN stored ELSE {}
        /\ entries' = IF boundary THEN [txpool |-> d.txpool, seen |-> d.seen]
                      ELSE NoEntries
        /\ batch' = IF boundary THEN "init" ELSE "none"
        /\ batch_start' = IF boundary THEN d ELSE NoBatch
        /\ started' = InitSucceeds(d.txpool)

Next ==
    \/ \E t \in Tx, method \in RelayMethods, standard \in BOOLEAN : Submit(t, method, standard)
    \/ \E t \in Tx, method \in RelayMethods : set_relayed(t, method)
    \/ \E S \in SUBSET Tx : remove_stuck_transactions(S)
    \/ \E t \in Tx : flush_txes_from_pool(t)
    \/ \E considered, chosen \in SUBSET Tx : create_block_template(considered, chosen)
    \/ prepare_handle_incoming_blocks
    \/ \E block \in SUBSET Tx : ConnectBlock(block)
    \/ \E block, taken \in SUBSET Tx : RefuseBlock(block, taken)
    \/ \E t \in Tx : AlternativeBlockTx(t)
    \/ PopBlock
    \/ \E t \in Tx : ReturnTx(t)
    \/ FinishReturn
    \/ FinishPop
    \/ cleanup_handle_incoming_blocks
    \/ \E t \in Tx : ValidateTake(t)
    \/ \E t \in Tx, standard \in BOOLEAN : ValidateAdd(t, standard)
    \/ \E t \in Tx : ValidateRestore(t)
    \/ FinishValidation
    \/ Prune
    \/ Restart

Spec == Init /\ [][Next]_vars

-----------------------------------------------------------------------------
(* Properties *)

TxpoolTable == [Tx -> Method \cup {"absent"}]

\* Every variable has the type its declaration says; a transaction in hand or
\* pending is only there while a handler runs.
TypeOK ==
    /\ chain \in Seq(SUBSET Tx)
    /\ txpool \in TxpoolTable
    /\ double_spend_seen \subseteq Pool
    /\ batch \in {"none", "open", "abort", "init"}
    /\ batch_start \in [chain : Seq(SUBSET Tx), txpool : TxpoolTable, seen : SUBSET Tx]
    /\ m_spent_key_images \in [KeyImage -> SUBSET Tx]
    /\ m_txpool_weight \in Nat
    /\ m_txs_by_fee_and_receive_time \subseteq Tx
    /\ m_timed_out_transactions \subseteq Tx
    /\ m_input_cache \in [Tx -> {"unknown", "good", "bad"}]
    /\ m_btc \subseteq Tx
    /\ m_btc_valid \in BOOLEAN
    /\ phase \in {"idle", "returning", "popping", "validating", "adding", "restoring"}
    /\ pending \subseteq Tx
    /\ hand \subseteq Tx
    /\ entries \in [txpool : TxpoolTable, seen : SUBSET Tx]
    /\ pruning \in BOOLEAN
    /\ started \in BOOLEAN

\* m_spent_key_images lists for each key image exactly the pool's spenders
\* of it, at every step of every handler: no early return of
\* insert_key_images or remove_transaction_keyimages leaves a part behind.
KeyImagesExact ==
    \A k \in KeyImage : m_spent_key_images[k] = {t \in Pool : k \in KeyImages(t)}

\* m_txpool_weight is the weight of the pool and the sorted container holds
\* the pool, whichever path added or removed a transaction.
AccountingExact ==
    /\ m_txpool_weight = Weight(Pool)
    /\ m_txs_by_fee_and_receive_time = Pool

\* Of two transactions in the pool that spend one key image at least one was
\* kept by a block; init relies on it to come up again.
OneRelayedSpender ==
    \A t, u \in Pool : Rivals(t, u) => Kept(t) \/ Kept(u)

\* The node always comes up again after a stop or a crash.
AlwaysStarts == started

\* No transaction is in the pool and in the main chain at once.
PoolNotMined == Pool \cap Mined = {}

\* Between handlers every transaction of the pool that did not come with a
\* block meets the non-input rules of the fork in force, whichever blocks were
\* connected and popped on either side of the fork height since it was added:
\* a block takes it from the pool without another look.
RelayedMeetRules ==
    Idle => \A t \in Pool : ~Kept(t) => get_current_hard_fork_version \in rules[t]

\* A cached verdict is the one the current chain gives; between the removal
\* of a block and on_blockchain_dec it is stale, and nobody reads it.
CachedVerdictsHold ==
    phase # "popping" =>
        \A t \in Tx : m_input_cache[t] # "unknown" => (m_input_cache[t] = "good") = InputsGood(t)

\* A template served from the cache can be mined: its transactions are in the
\* pool and visible, have good inputs on the chain and do not conflict.
CachedTemplateMineable ==
    m_btc_valid => /\ m_btc \subseteq Pool
                   /\ \A t \in m_btc : txpool[t] \in Legacy /\ InputsGood(t)
                   /\ \A t, u \in m_btc : ~Rivals(t, u)

\* A transaction that timed out is only taken back from a block.
TimedOutStayOut == \A t \in m_timed_out_transactions \cap Pool : Kept(t)

\* The transactions of a popped block, and those a refused block had taken,
\* are back in the pool when the handler goes on.
NothingLost ==
    [][\A t \in Tx : ReturnTx(t) => txpool'[t] = "block"]_vars
=============================================================================
