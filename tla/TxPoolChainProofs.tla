------------------------- MODULE TxPoolChainProofs --------------------------
(***************************************************************************)
(* Proofs about TxPool: whatever was mined, popped, re-validated or lost   *)
(* in a crash, the pool holds nothing that the main chain has, and what it *)
(* holds of relayed transactions meets the rules of the fork in force.     *)
(***************************************************************************)
EXTENDS TxPoolProofs

-----------------------------------------------------------------------------
(* The pool and the chain *)

MinedOf(c) == UNION {c[i] : i \in DOMAIN c}

\* No transaction is in two blocks.
OnceMined(c) == \A i, j \in DOMAIN c : i # j => c[i] \cap c[j] = {}

Meets(c, S) == \A t \in S : VersionAt(Len(c)) \in rules[t]

\* The transactions of a pool that did not come with a block.
RelayedOf(pool) == {t \in Tx : pool[t] \notin {"absent", "block"}}

Relayed == RelayedOf(txpool)

MinedInv ==
    /\ OnceMined(chain)
    /\ Pool \cap Mined = {}
    /\ (pending \cup hand) \cap Mined = {}
    /\ phase = "idle" => pending = {}
    /\ OnceMined(batch_start.chain)
    /\ PoolOf(batch_start.txpool) \cap MinedOf(batch_start.chain) = {}

\* During a re-validation only what has been added again is known to meet the
\* rules; while a block is popped the relayed ones meet those of before.  What
\* comes back from a block comes back as kept by it and never becomes relayed.
RulesInv ==
    /\ batch = "none" => phase = "idle"
    /\ phase \in {"idle", "returning"} => Meets(chain, Relayed)
    /\ phase = "popping" => \A t \in Relayed : VersionAt(Len(chain) + 1) \in rules[t]
    /\ phase \in {"validating", "adding", "restoring"} => Meets(chain, Relayed \ pending)
    /\ Meets(batch_start.chain, RelayedOf(batch_start.txpool))

LEMMA AppendBlock ==
    ASSUME NEW c \in Seq(SUBSET Tx), NEW b \in SUBSET Tx
    PROVE  /\ Len(Append(c, b)) = Len(c) + 1 /\ Len(c) \in Nat
           /\ MinedOf(Append(c, b)) = MinedOf(c) \cup b
           /\ OnceMined(c) /\ b \cap MinedOf(c) = {} => OnceMined(Append(c, b))
<1>1. /\ Len(c) \in Nat /\ DOMAIN c = 1..Len(c)
      /\ Len(Append(c, b)) = Len(c) + 1 /\ DOMAIN Append(c, b) = 1..(Len(c) + 1)
      /\ \A i \in 1..Len(c) : Append(c, b)[i] = c[i]
      /\ Append(c, b)[Len(c) + 1] = b
    BY LenProperties, AppendProperties
<1> DEFINE e == Append(c, b)
           n == Len(c)
<1>2. /\ n \in Nat /\ DOMAIN c = 1..n /\ DOMAIN e = 1..(n + 1)
      /\ \A i \in 1..n : e[i] = c[i]
      /\ e[n + 1] = b
    BY <1>1
<1> HIDE DEF e, n
<1>3. \A i \in 1..(n + 1) : i \in 1..n \/ i = n + 1
    BY <1>2
<1>4. n + 1 \in 1..(n + 1) /\ 1..n \subseteq 1..(n + 1)
    BY <1>2
<1>5. MinedOf(e) = MinedOf(c) \cup b
    BY <1>2, <1>3, <1>4 DEF MinedOf
<1>6. ASSUME OnceMined(c), b \cap MinedOf(c) = {} PROVE OnceMined(e)
    <2>1. \A i \in 1..n : e[i] \cap b = {}
        BY <1>2, <1>6 DEF MinedOf
    <2> QED BY <1>2, <1>3, <1>6, <2>1 DEF OnceMined
<1> QED BY <1>1, <1>5, <1>6 DEF e

LEMMA DropBlock ==
    ASSUME NEW c \in Seq(SUBSET Tx), c # <<>>
    PROVE  LET e == SubSeq(c, 1, Len(c) - 1)
               top == c[Len(c)]
           IN  /\ Len(e) = Len(c) - 1 /\ Len(c) \in Nat
               /\ MinedOf(e) \subseteq MinedOf(c)
               /\ OnceMined(c) => OnceMined(e) /\ top \cap MinedOf(e) = {}
<1> DEFINE e == SubSeq(c, 1, Len(c) - 1)
           n == Len(c)
<1>1. n \in Nat /\ n # 0 /\ DOMAIN c = 1..n
    BY LenProperties, EmptySeq
<1>2. n - 1 \in Nat /\ n - 1 \in Int /\ 1 \in Int /\ n - 1 <= n /\ 1 \in 1..(n + 1) /\ n - 1 \in 1 - 1..n
    BY <1>1
<1>3. /\ Len(e) = n - 1 /\ DOMAIN e = 1..(n - 1)
      /\ \A i \in 1..(n - 1) : e[i] = c[i]
    BY <1>1, <1>2
<1> HIDE DEF e
<1>4. /\ 1..(n - 1) \subseteq 1..n /\ n \in 1..n /\ n \notin 1..(n - 1)
    BY <1>1
<1> HIDE DEF n
<1>5. MinedOf(e) \subseteq MinedOf(c)
    BY <1>1, <1>3, <1>4 DEF MinedOf
<1>6. ASSUME OnceMined(c) PROVE OnceMined(e) /\ c[n] \cap MinedOf(e) = {}
    <2>1. \A i \in 1..(n - 1) : i \in 1..n /\ i # n /\ c[n] \cap e[i] = {}
        BY <1>1, <1>3, <1>4, <1>6 DEF OnceMined
    <2>2. c[n] \cap MinedOf(e) = {}
        BY <1>3, <2>1 DEF MinedOf
    <2>3. OnceMined(e)
        BY <1>1, <1>3, <1>4, <1>6 DEF OnceMined
    <2> QED BY <2>2, <2>3
<1> QED BY <1>1, <1>3, <1>5, <1>6 DEF e, n

LEMMA AddPool ==
    ASSUME txpool \in TxpoolTable, NEW t \in Tx, NEW method, NEW verified, NEW standard,
           OnlyStored(t, method, verified, standard)
    PROVE  /\ Pool' = Pool \/ Pool' = Pool \cup {t}
           /\ Relayed' \subseteq Relayed \cup {t}
           /\ method = "block" => Relayed' \subseteq Relayed
           /\ t \in Relayed' \ Relayed /\ ~verified => VersionAt(Len(chain)) \in rules[t]
<1>1. CASE txpool' = txpool
    BY <1>1 DEF Pool, Relayed, RelayedOf
<1>2. CASE txpool' # txpool
    <2>1. /\ txpool'[t] \in Method /\ ~Screened(t, method, verified, standard)
          /\ \A u \in Tx : u # t => txpool'[u] = txpool[u]
          /\ method = "block" => txpool'[t] = "block"
        BY <1>2 DEF OnlyStored
    <2>2. txpool'[t] # "absent"
        BY <2>1 DEF Method, Rank
    <2>3. Pool' = Pool \cup {t}
        BY <2>1, <2>2 DEF Pool
    <2>4. ~verified => VersionAt(Len(chain)) \in rules[t]
        BY <2>1 DEF Screened, get_current_hard_fork_version
    <2>5. /\ Relayed' \subseteq Relayed \cup {t}
          /\ method = "block" => Relayed' \subseteq Relayed
        BY <2>1 DEF Relayed, RelayedOf
    <2> QED BY <2>3, <2>4, <2>5
<1> QED BY <1>1, <1>2

ChainInv == MinedInv /\ RulesInv

LEMMA ChainInvInit == Init => ChainInv
<1> SUFFICES ASSUME Init PROVE ChainInv
    OBVIOUS
<1>1. /\ DOMAIN chain = {} /\ Pool = {} /\ pending = {} /\ hand = {}
      /\ batch_start.chain = <<>> /\ PoolOf(batch_start.txpool) = {}
      /\ Relayed = {} /\ RelayedOf(batch_start.txpool) = {}
      /\ phase = "idle"
    BY DEF Init, NoBatch, Pool, PoolOf, Relayed, RelayedOf
<1>2. DOMAIN batch_start.chain = {}
    BY <1>1
<1> QED BY <1>1, <1>2 DEF ChainInv, MinedInv, RulesInv, OnceMined, Meets, Mined

\* Steps that leave the chain and the start of the batch alone.
LEMMA MinedFrame ==
    ASSUME MinedInv, UNCHANGED <<chain, batch_start>>,
           Pool' \cap Mined = {}, (pending' \cup hand') \cap Mined = {},
           phase' = "idle" => pending' = {}
    PROVE  MinedInv'
<1>1. Mined' = Mined
    BY DEF Mined
<1>2. OnceMined(chain') /\ OnceMined(batch_start'.chain)
    BY DEF MinedInv
<1>3. PoolOf(batch_start'.txpool) \cap MinedOf(batch_start'.chain) = {}
    BY DEF MinedInv
<1> QED BY <1>1, <1>2, <1>3 DEF MinedInv

\* The same, when no transaction becomes relayed.
LEMMA RulesFrame ==
    ASSUME RulesInv, UNCHANGED <<chain, batch, batch_start, phase>>, Relayed' \subseteq Relayed,
           phase \in {"validating", "adding", "restoring"} => pending' = pending
    PROVE  RulesInv'
<1>1. Meets(batch_start'.chain, RelayedOf(batch_start'.txpool))
    BY DEF RulesInv, Meets, RelayedOf, VersionAt
<1> QED BY <1>1 DEF RulesInv, Meets, VersionAt

\* Steps that leave the chain alone and let the pool at most shrink.
LEMMA ShrinkKeepsChain ==
    ASSUME ChainInv, UNCHANGED <<chain, batch, batch_start, control>>, Pool' \subseteq Pool,
           Relayed' \subseteq Relayed
    PROVE  ChainInv'
<1>1. UNCHANGED <<phase, pending, hand>>
    BY DEF control
<1>2. MinedInv'
    <2>1. /\ Pool' \cap Mined = {} /\ (pending' \cup hand') \cap Mined = {}
          /\ phase' = "idle" => pending' = {}
        BY <1>1 DEF ChainInv, MinedInv
    <2> QED BY <1>1, <2>1, MinedFrame DEF ChainInv
<1>3. RulesInv'
    BY <1>1, RulesFrame DEF ChainInv
<1> QED BY <1>2, <1>3 DEF ChainInv

LEMMA HandlersKeepChain ==
    ASSUME PoolInv, ChainInv
    PROVE  /\ \A t \in Tx, method \in RelayMethods, standard \in BOOLEAN :
                 Submit(t, method, standard) => ChainInv'
           /\ \A t \in Tx, method \in RelayMethods : set_relayed(t, method) => ChainInv'
           /\ \A S \in SUBSET Tx : remove_stuck_transactions(S) => ChainInv'
           /\ \A t \in Tx : flush_txes_from_pool(t) => ChainInv'
           /\ \A considered, chosen \in SUBSET Tx : create_block_template(considered, chosen) => ChainInv'
           /\ Prune => ChainInv'
<1>0. Consistent /\ txpool \in TxpoolTable /\ RelayMethods \subseteq Method
    BY Parameters DEF PoolInv, Consistent
<1>r. ASSUME NEW S \in SUBSET Tx, Remove(S) PROVE Pool' \subseteq Pool /\ Relayed' \subseteq Relayed
    BY <1>r DEF Remove, Pool, Relayed, RelayedOf
<1>1. ASSUME NEW t \in Tx, NEW method \in RelayMethods, NEW standard \in BOOLEAN,
             Submit(t, method, standard)
      PROVE  ChainInv'
    <2>1. /\ add_tx(t, method, FALSE, standard) /\ t \notin Mined /\ phase = "idle"
          /\ UNCHANGED <<chain, batch, batch_start, phase, pending, hand>>
        BY <1>1 DEF Submit, Unlocked, Idle, control
    <2>2. OnlyStored(t, method, FALSE, standard)
        BY <1>0, <2>1, AddKeeps
    <2>3. /\ Pool' = Pool \/ Pool' = Pool \cup {t}
          /\ Relayed' \subseteq Relayed \cup {t}
          /\ t \in Relayed' \ Relayed => VersionAt(Len(chain)) \in rules[t]
        BY <1>0, <2>2, AddPool
    <2>4. MinedInv'
        <3>1. /\ Pool' \cap Mined = {} /\ (pending' \cup hand') \cap Mined = {}
              /\ phase' = "idle" => pending' = {}
            BY <2>1, <2>3 DEF ChainInv, MinedInv
        <3> QED BY <2>1, <2>3, <3>1, MinedFrame DEF ChainInv
    <2>5. RulesInv'
        <3>1. Meets(chain', Relayed')
            BY <2>1, <2>3 DEF ChainInv, RulesInv, Meets
        <3>2. Meets(batch_start'.chain, RelayedOf(batch_start'.txpool))
            BY <2>1 DEF ChainInv, RulesInv
        <3> QED BY <2>1, <3>1, <3>2 DEF ChainInv, RulesInv
    <2> QED BY <2>4, <2>5 DEF ChainInv
<1>2. ASSUME NEW t \in Tx, NEW method \in RelayMethods, set_relayed(t, method)
      PROVE  ChainInv'
    <2>1. /\ t \in Pool /\ txpool' = [txpool EXCEPT ![t] = upgrade_relay_method(@, method)]
          /\ UNCHANGED <<chain, batch, batch_start, control>>
        BY <1>2 DEF set_relayed
    <2>2. Pool' \subseteq Pool
        BY <1>0, <2>1 DEF Pool, TxpoolTable
    <2>3. txpool[t] = "block" => txpool'[t] = "block"
        BY <1>0, <2>1, Parameters DEF upgrade_relay_method, Method, Rank, TxpoolTable
    <2>4. Relayed' \subseteq Relayed
        BY <1>0, <2>1, <2>3 DEF Relayed, RelayedOf, Pool, TxpoolTable
    <2> QED BY <2>1, <2>2, <2>4, ShrinkKeepsChain
<1>3. ASSUME NEW S \in SUBSET Tx, remove_stuck_transactions(S)
      PROVE  ChainInv'
    BY <1>r, <1>3, ShrinkKeepsChain DEF remove_stuck_transactions
<1>4. ASSUME NEW t \in Tx, flush_txes_from_pool(t)
      PROVE  ChainInv'
    BY <1>r, <1>4, ShrinkKeepsChain DEF flush_txes_from_pool
<1>5. ASSUME NEW considered \in SUBSET Tx, NEW chosen \in SUBSET Tx,
             create_block_template(considered, chosen)
      PROVE  ChainInv'
    <2>1. UNCHANGED <<chain, txpool, batch, batch_start, control>>
        BY <1>5 DEF create_block_template, db
    <2> QED BY <2>1, ShrinkKeepsChain DEF Pool, Relayed, RelayedOf
<1>6. ASSUME Prune PROVE ChainInv'
    <2>1. /\ \E S \in SUBSET Tx : Remove(S)
          /\ UNCHANGED <<chain, batch, batch_start, control>>
        BY <1>6 DEF Prune, Prunable, Pool
    <2> QED BY <1>r, <2>1, ShrinkKeepsChain
<1> QED BY <1>1, <1>2, <1>3, <1>4, <1>5, <1>6

LEMMA BlocksKeepChain ==
    ASSUME PoolInv, ChainInv
    PROVE  /\ prepare_handle_incoming_blocks => ChainInv'
           /\ \A block \in SUBSET Tx : ConnectBlock(block) => ChainInv'
           /\ \A block, taken \in SUBSET Tx : NoClash /\ RefuseBlock(block, taken) => ChainInv'
           /\ \A t \in Tx : AlternativeBlockTx(t) => ChainInv'
           /\ cleanup_handle_incoming_blocks => ChainInv'
<1>0. /\ Consistent /\ txpool \in TxpoolTable /\ "block" \in Method
      /\ chain \in Seq(SUBSET Tx) /\ batch \in {"none", "open", "init"}
      /\ phase = "idle" => pending = {} /\ hand = {}
    BY DEF PoolInv, Consistent, ControlType, Method, Rank, ChainInv, MinedInv, HandGood
<1>1. ASSUME prepare_handle_incoming_blocks PROVE ChainInv'
    <2>1. /\ batch' = "open" /\ phase = "idle"
          /\ batch_start' = [chain |-> chain, txpool |-> txpool, seen |-> double_spend_seen]
          /\ UNCHANGED <<chain, txpool, phase, pending, hand>>
        BY <1>1 DEF prepare_handle_incoming_blocks, Unlocked, Idle, db, control
    <2>2. batch_start'.chain = chain /\ batch_start'.txpool = txpool
        BY <2>1
    <2>3. MinedInv'
        <3>1. PoolOf(txpool) = Pool /\ Pool' = Pool /\ MinedOf(chain) = Mined /\ Mined' = Mined
            BY <2>1 DEF PoolOf, Pool, MinedOf, Mined
        <3> QED BY <2>1, <2>2, <3>1 DEF ChainInv, MinedInv
    <2>4. RulesInv'
        <3>1. RelayedOf(batch_start'.txpool) = Relayed /\ Relayed' = Relayed
            BY <2>1, <2>2 DEF Relayed, RelayedOf
        <3>2. Meets(chain, Relayed)
            BY <2>1 DEF ChainInv, RulesInv
        <3> QED BY <2>1, <2>2, <3>1, <3>2 DEF RulesInv, Meets
    <2> QED BY <2>3, <2>4 DEF ChainInv
<1>2. ASSUME NEW block \in SUBSET Tx, ConnectBlock(block) PROVE ChainInv'
    <2>1. /\ block \cap Pool \in SUBSET Pool /\ Remove(block \cap Pool)
          /\ chain' = Append(chain, block) /\ block \cap Mined = {}
          /\ UNCHANGED <<batch, batch_start>>
          /\ phase = "idle" /\ batch = "open"
        BY <1>2 DEF ConnectBlock, InBatch, Idle
    <2>2. Pool' = Pool \ block /\ Relayed' \subseteq Relayed /\ Relayed' \subseteq Pool'
        BY <2>1 DEF Remove, Pool, Relayed, RelayedOf
    <2>3. /\ Len(chain') = Len(chain) + 1 /\ Len(chain) \in Nat
          /\ Mined' = Mined \cup block
          /\ OnceMined(chain) => OnceMined(chain')
        <3>1. Mined = MinedOf(chain) /\ Mined' = MinedOf(chain')
            BY DEF Mined, MinedOf
        <3>2. chain \in Seq(SUBSET Tx) /\ block \in SUBSET Tx /\ block \cap MinedOf(chain) = {}
            BY <1>0, <1>2, <2>1, <3>1
        <3> QED BY <2>1, <3>1, <3>2, AppendBlock
    <2>4. \/ VersionAt(Len(chain)) = VersionAt(Len(chain) + 1) /\ UNCHANGED <<phase, pending, hand>>
          \/ phase' = "validating" /\ pending' = Pool' /\ hand' = hand
        BY <1>2 DEF ConnectBlock, Validating, Pool, control
    <2>5. Pool' \cap Mined' = {} /\ (pending' \cup hand') \cap Mined' = {}
        BY <1>0, <2>1, <2>2, <2>3, <2>4 DEF ChainInv, MinedInv
    <2>6. MinedInv'
        BY <1>0, <2>1, <2>3, <2>4, <2>5 DEF ChainInv, MinedInv
    <2>7. RulesInv'
        <3>1. Meets(chain, Relayed) /\ Meets(batch_start'.chain, RelayedOf(batch_start'.txpool))
            BY <2>1 DEF ChainInv, RulesInv
        <3>3. CASE VersionAt(Len(chain)) = VersionAt(Len(chain) + 1) /\ UNCHANGED <<phase, pending, hand>>
            <4>1. Meets(chain', Relayed')
                BY <2>2, <2>3, <3>1, <3>3 DEF Meets
            <4> QED BY <2>1, <3>1, <3>3, <4>1 DEF RulesInv
        <3>4. CASE phase' = "validating" /\ pending' = Pool' /\ hand' = hand
            <4>1. Meets(chain', Relayed' \ pending')
                BY <2>2, <3>4 DEF Meets
            <4> QED BY <2>1, <3>1, <3>4, <4>1 DEF RulesInv
        <3> QED BY <2>4, <3>3, <3>4
    <2> QED BY <2>6, <2>7 DEF ChainInv
<1>3. ASSUME NEW block \in SUBSET Tx, NEW taken \in SUBSET Tx, NoClash, RefuseBlock(block, taken)
      PROVE  ChainInv'
    <2>1. /\ taken \subseteq Pool /\ Remove(taken) /\ phase = "idle" /\ batch = "open"
          /\ phase' = "returning" /\ pending' = taken
          /\ UNCHANGED <<chain, batch, batch_start, hand>>
        BY <1>3 DEF RefuseBlock, NoClash, InBatch, Idle
    <2>2. Pool' = Pool \ taken /\ Relayed' \subseteq Relayed
        BY <2>1 DEF Remove, Pool, Relayed, RelayedOf
    <2>3. MinedInv'
        <3>1. /\ Pool' \cap Mined = {} /\ (pending' \cup hand') \cap Mined = {}
              /\ phase' = "idle" => pending' = {}
            BY <2>1, <2>2 DEF ChainInv, MinedInv
        <3> QED BY <2>1, <2>2, <3>1, MinedFrame DEF ChainInv
    <2>4. RulesInv'
        <3>1. Meets(chain', Relayed') /\ Meets(batch_start'.chain, RelayedOf(batch_start'.txpool))
            BY <2>1, <2>2 DEF ChainInv, RulesInv, Meets
        <3> QED BY <2>1, <3>1 DEF RulesInv
    <2> QED BY <2>3, <2>4 DEF ChainInv
<1>4. ASSUME NEW t \in Tx, AlternativeBlockTx(t) PROVE ChainInv'
    <2>1. /\ add_tx(t, "block", TRUE, TRUE) /\ phase = "idle" /\ batch = "open" /\ t \notin Mined
          /\ UNCHANGED <<chain, batch, batch_start, phase, pending, hand>>
        BY <1>4 DEF AlternativeBlockTx, InBatch, Idle, control
    <2>2. OnlyStored(t, "block", TRUE, TRUE)
        BY <1>0, <2>1, AddKeeps
    <2>3. /\ Pool' = Pool \/ Pool' = Pool \cup {t}
          /\ Relayed' \subseteq Relayed
        BY <1>0, <2>2, AddPool
    <2>4. MinedInv'
        <3>1. /\ Pool' \cap Mined = {} /\ (pending' \cup hand') \cap Mined = {}
              /\ phase' = "idle" => pending' = {}
            BY <2>1, <2>3 DEF ChainInv, MinedInv
        <3> QED BY <2>1, <2>3, <3>1, MinedFrame DEF ChainInv
    <2>5. RulesInv'
        BY <2>1, <2>3, RulesFrame DEF ChainInv
    <2> QED BY <2>4, <2>5 DEF ChainInv
<1>5. ASSUME cleanup_handle_incoming_blocks PROVE ChainInv'
    <2>1. /\ UNCHANGED <<chain, txpool, phase, pending, hand>> /\ batch' = "none" /\ batch_start' = NoBatch
          /\ phase = "idle"
        BY <1>0, <1>5 DEF cleanup_handle_incoming_blocks, Idle, db, control
    <2>2. /\ DOMAIN batch_start'.chain = {} /\ PoolOf(batch_start'.txpool) = {}
          /\ RelayedOf(batch_start'.txpool) = {}
        BY <2>1 DEF NoBatch, PoolOf, RelayedOf
    <2>3. MinedInv'
        <3>1. Pool' = Pool /\ Mined' = Mined
            BY <2>1 DEF Pool, Mined
        <3>2. OnceMined(batch_start'.chain)
            BY <2>2 DEF OnceMined
        <3> QED BY <2>1, <2>2, <3>1, <3>2 DEF ChainInv, MinedInv
    <2>4. RulesInv'
        <3>1. Relayed' = Relayed /\ Meets(chain, Relayed)
            BY <2>1 DEF ChainInv, RulesInv, Relayed, RelayedOf
        <3> QED BY <2>1, <2>2, <3>1 DEF RulesInv, Meets
    <2> QED BY <2>3, <2>4 DEF ChainInv
<1> QED BY <1>1, <1>2, <1>3, <1>4, <1>5

LEMMA PopsKeepChain ==
    ASSUME PoolInv, ChainInv
    PROVE  /\ PopBlock => ChainInv'
           /\ \A t \in Tx : ReturnTx(t) => ChainInv'
           /\ FinishReturn => ChainInv'
           /\ FinishPop => ChainInv'
<1>0. /\ Consistent /\ txpool \in TxpoolTable /\ "block" \in Method
      /\ chain \in Seq(SUBSET Tx)
      /\ phase \in {"idle", "popping", "returning"} => hand = {}
    BY DEF PoolInv, Consistent, ControlType, Method, Rank, HandGood
<1>1. ASSUME PopBlock PROVE ChainInv'
    <2>1. /\ chain # <<>> /\ chain' = SubSeq(chain, 1, Len(chain) - 1)
          /\ phase = "idle" /\ batch = "open"
          /\ phase' = "popping" /\ pending' = chain[Len(chain)]
          /\ UNCHANGED <<txpool, batch, batch_start, hand>>
        BY <1>1 DEF PopBlock, InBatch, Idle
    <2>2. /\ Len(chain') = Len(chain) - 1 /\ Len(chain) \in Nat
          /\ MinedOf(chain') \subseteq MinedOf(chain)
          /\ OnceMined(chain) => OnceMined(chain') /\ pending' \cap MinedOf(chain') = {}
        BY <1>0, <2>1, DropBlock
    <2>3. Pool' = Pool /\ Mined = MinedOf(chain) /\ Mined' = MinedOf(chain')
        BY <2>1 DEF Pool, Mined, MinedOf
    <2>4. (pending' \cup hand') \cap Mined' = {}
        BY <1>0, <2>1, <2>2, <2>3 DEF ChainInv, MinedInv
    <2>5. MinedInv'
        BY <2>1, <2>2, <2>3, <2>4 DEF ChainInv, MinedInv
    <2>6. RulesInv'
        <3>1. Len(chain') + 1 = Len(chain)
            BY <2>2
        <3>2. Relayed' = Relayed /\ Meets(chain, Relayed)
              /\ Meets(batch_start'.chain, RelayedOf(batch_start'.txpool))
            BY <2>1 DEF ChainInv, RulesInv, Relayed, RelayedOf
        <3>3. \A t \in Relayed' : VersionAt(Len(chain') + 1) \in rules[t]
            BY <3>1, <3>2 DEF Meets
        <3> QED BY <2>1, <3>2, <3>3 DEF RulesInv
    <2> QED BY <2>5, <2>6 DEF ChainInv
<1>2. ASSUME NEW t \in Tx, ReturnTx(t) PROVE ChainInv'
    <2>1. /\ add_tx(t, "block", TRUE, TRUE) /\ phase \in {"returning", "popping"}
          /\ t \in pending /\ pending' = pending \ {t}
          /\ UNCHANGED <<chain, batch, batch_start, phase, hand>>
        BY <1>2 DEF ReturnTx
    <2>2. OnlyStored(t, "block", TRUE, TRUE)
        BY <1>0, <2>1, AddKeeps
    <2>3. /\ Pool' = Pool \/ Pool' = Pool \cup {t}
          /\ Relayed' \subseteq Relayed
        BY <1>0, <2>2, AddPool
    <2>4. MinedInv'
        <3>1. /\ Pool' \cap Mined = {} /\ (pending' \cup hand') \cap Mined = {}
              /\ phase' = "idle" => pending' = {}
            BY <2>1, <2>3 DEF ChainInv, MinedInv
        <3> QED BY <2>1, <2>3, <3>1, MinedFrame DEF ChainInv
    <2>5. RulesInv'
        BY <2>1, <2>3, RulesFrame DEF ChainInv
    <2> QED BY <2>4, <2>5 DEF ChainInv
<1>3. ASSUME FinishReturn PROVE ChainInv'
    <2>1. /\ phase = "returning" /\ pending = {} /\ phase' = "idle"
          /\ UNCHANGED <<chain, txpool, batch, batch_start, pending, hand>>
        BY <1>3 DEF FinishReturn, db
    <2>2. MinedInv'
        <3>1. /\ Pool' \cap Mined = {} /\ (pending' \cup hand') \cap Mined = {}
              /\ phase' = "idle" => pending' = {}
            BY <2>1 DEF ChainInv, MinedInv, Pool
        <3> QED BY <2>1, <3>1, MinedFrame DEF ChainInv
    <2>3. RulesInv'
        <3>1. Relayed' = Relayed /\ Meets(chain, Relayed)
              /\ Meets(batch_start'.chain, RelayedOf(batch_start'.txpool))
            BY <2>1 DEF ChainInv, RulesInv, Relayed, RelayedOf
        <3> QED BY <2>1, <3>1 DEF RulesInv, Meets
    <2> QED BY <2>2, <2>3 DEF ChainInv
<1>4. ASSUME FinishPop PROVE ChainInv'
    <2>1. /\ phase = "popping" /\ pending = {}
          /\ UNCHANGED <<chain, txpool, batch, batch_start>>
          /\ \/ /\ VersionAt(Len(chain)) = VersionAt(Len(chain) + 1)
                /\ phase' = "idle" /\ UNCHANGED <<pending, hand>>
             \/ phase' = "validating" /\ pending' = Pool /\ hand' = hand
        BY <1>4 DEF FinishPop, db, Validating, Pool
    <2>2. Pool' = Pool /\ Mined' = Mined
        BY <2>1 DEF Pool, Mined
    <2>3. MinedInv'
        <3>1. /\ Pool' \cap Mined = {} /\ (pending' \cup hand') \cap Mined = {}
              /\ phase' = "idle" => pending' = {}
            BY <2>1, <2>2 DEF ChainInv, MinedInv
        <3> QED BY <2>1, <2>2, <3>1, MinedFrame DEF ChainInv
    <2>4. RulesInv'
        <3>1. /\ Meets(batch_start'.chain, RelayedOf(batch_start'.txpool))
              /\ batch' # "none" /\ Relayed' = Relayed /\ Relayed \subseteq Pool
            BY <2>1 DEF ChainInv, RulesInv, Relayed, RelayedOf, Pool
        <3>2. CASE phase' = "idle" /\ pending' = {} /\ VersionAt(Len(chain)) = VersionAt(Len(chain) + 1)
            <4>1. Meets(chain', Relayed')
                BY <2>1, <3>1, <3>2 DEF ChainInv, RulesInv, Meets
            <4> QED BY <3>1, <3>2, <4>1 DEF RulesInv
        <3>3. CASE phase' = "validating" /\ pending' = Pool
            <4>1. Meets(chain', Relayed' \ pending')
                BY <3>1, <3>3 DEF Meets
            <4> QED BY <3>1, <3>3, <4>1 DEF RulesInv
        <3> QED BY <2>1, <3>2, <3>3
    <2> QED BY <2>3, <2>4 DEF ChainInv
<1> QED BY <1>1, <1>2, <1>3, <1>4

LEMMA ValidateKeepsChain ==
    ASSUME PoolInv, ChainInv
    PROVE  /\ \A t \in Tx : ValidateTake(t) => ChainInv'
           /\ \A t \in Tx, standard \in BOOLEAN : ValidateAdd(t, standard) => ChainInv'
           /\ \A t \in Tx : ValidateRestore(t) => ChainInv'
           /\ FinishValidation => ChainInv'
<1>0. /\ Consistent /\ txpool \in TxpoolTable
    BY DEF PoolInv, Consistent
<1>1. ASSUME NEW t \in Tx, ValidateTake(t) PROVE ChainInv'
    <2>1. /\ phase = "validating" /\ t \in pending /\ pending' = pending \ {t}
          /\ UNCHANGED <<chain, batch, batch_start>>
          /\ \/ /\ phase' = "adding" /\ hand' = {t} /\ Pool' = Pool \ {t}
                /\ Relayed' = Relayed \ {t}
             \/ /\ phase' = phase /\ hand' = hand /\ Pool' = Pool
                /\ Relayed' = Relayed /\ t \notin Relayed
        BY <1>1 DEF ValidateTake, Remove, Pool, Relayed, RelayedOf
    <2>2. MinedInv'
        <3>1. /\ Pool' \cap Mined = {} /\ (pending' \cup hand') \cap Mined = {}
              /\ phase' = "idle" => pending' = {}
            BY <2>1 DEF ChainInv, MinedInv
        <3> QED BY <2>1, <3>1, MinedFrame DEF ChainInv
    <2>3. RulesInv'
        <3>1. Meets(chain', Relayed' \ pending') /\ Meets(batch_start'.chain, RelayedOf(batch_start'.txpool))
            BY <2>1 DEF ChainInv, RulesInv, Meets
        <3> QED BY <2>1, <3>1 DEF ChainInv, RulesInv
    <2> QED BY <2>2, <2>3 DEF ChainInv
<1>2. ASSUME NEW t \in Tx, NEW standard \in BOOLEAN, ValidateAdd(t, standard) PROVE ChainInv'
    <2> DEFINE method == entries.txpool[t]
    <2>1. /\ phase = "adding" /\ hand = {t} /\ add_tx(t, method, FALSE, standard)
          /\ UNCHANGED <<chain, batch, batch_start, pending>>
          /\ \/ phase' = "restoring" /\ hand' = hand
             \/ phase' = "validating" /\ hand' = {}
        BY <1>2 DEF ValidateAdd
    <2>2. method \in Method
        BY <2>1 DEF PoolInv, HandGood
    <2> HIDE DEF method
    <2>3. OnlyStored(t, method, FALSE, standard)
        BY <1>0, <2>1, <2>2, AddKeeps
    <2>4. /\ Pool' = Pool \/ Pool' = Pool \cup {t}
          /\ Relayed' \subseteq Relayed \cup {t}
          /\ t \in Relayed' \ Relayed => VersionAt(Len(chain)) \in rules[t]
        BY <1>0, <2>3, AddPool
    <2>5. MinedInv'
        <3>1. /\ Pool' \cap Mined = {} /\ (pending' \cup hand') \cap Mined = {}
              /\ phase' = "idle" => pending' = {}
            BY <2>1, <2>4 DEF ChainInv, MinedInv
        <3> QED BY <2>1, <2>4, <3>1, MinedFrame DEF ChainInv
    <2>6. RulesInv'
        <3>1. Meets(chain', Relayed' \ pending') /\ Meets(batch_start'.chain, RelayedOf(batch_start'.txpool))
            BY <2>1, <2>4 DEF ChainInv, RulesInv, Meets
        <3> QED BY <2>1, <3>1 DEF ChainInv, RulesInv
    <2> QED BY <2>5, <2>6 DEF ChainInv
<1>3. ASSUME NEW t \in Tx, ValidateRestore(t) PROVE ChainInv'
    <2>1. /\ phase = "restoring" /\ hand = {t} /\ phase' = "validating" /\ hand' = {}
          /\ UNCHANGED <<chain, batch, batch_start, pending>>
          /\ \/ t \in Pool /\ txpool' = [txpool EXCEPT ![t] = entries.txpool[t]]
             \/ txpool' = txpool
        BY <1>3 DEF ValidateRestore
    <2>2. Pool' \subseteq Pool
        BY <1>0, <2>1 DEF Pool, TxpoolTable
    <2>r. txpool' = txpool
        BY <1>0, <2>1 DEF PoolInv, HandGood, TxpoolTable
    <2>3. MinedInv'
        <3>1. /\ Pool' \cap Mined = {} /\ (pending' \cup hand') \cap Mined = {}
              /\ phase' = "idle" => pending' = {}
            BY <2>1, <2>2 DEF ChainInv, MinedInv
        <3> QED BY <2>1, <2>2, <3>1, MinedFrame DEF ChainInv
    <2>4. RulesInv'
        <3>1. Relayed' = Relayed
            BY <2>r DEF Relayed, RelayedOf
        <3>2. Meets(chain', Relayed' \ pending') /\ Meets(batch_start'.chain, RelayedOf(batch_start'.txpool))
            BY <2>1, <3>1 DEF ChainInv, RulesInv, Meets
        <3> QED BY <2>1, <3>2 DEF ChainInv, RulesInv
    <2> QED BY <2>3, <2>4 DEF ChainInv
<1>4. ASSUME FinishValidation PROVE ChainInv'
    <2>1. /\ phase = "validating" /\ pending = {} /\ phase' = "idle"
          /\ \/ batch_start' = NoBatch
             \/ batch_start' = batch_start
          /\ UNCHANGED <<chain, txpool, pending, hand>>
        BY <1>4 DEF FinishValidation, db
    <2>2. Pool' = Pool /\ Mined' = Mined
        BY <2>1 DEF Pool, Mined
    <2>3. DOMAIN NoBatch.chain = {} /\ PoolOf(NoBatch.txpool) = {} /\ RelayedOf(NoBatch.txpool) = {}
        BY DEF NoBatch, PoolOf, RelayedOf
    <2>4. MinedInv'
        <3>1. OnceMined(NoBatch.chain) /\ PoolOf(NoBatch.txpool) \cap MinedOf(NoBatch.chain) = {}
            BY <2>3 DEF OnceMined
        <3> QED BY <2>1, <2>2, <3>1 DEF ChainInv, MinedInv
    <2>5. RulesInv'
        <3>1. Relayed' = Relayed /\ Meets(chain, Relayed)
            BY <2>1 DEF ChainInv, RulesInv, Meets, Relayed, RelayedOf
        <3>2. Meets(batch_start'.chain, RelayedOf(batch_start'.txpool))
            BY <2>1, <2>3 DEF ChainInv, RulesInv, Meets
        <3> QED BY <2>1, <3>1, <3>2 DEF RulesInv, Meets
    <2> QED BY <2>4, <2>5 DEF ChainInv
<1> QED BY <1>1, <1>2, <1>3, <1>4

LEMMA RestartKeepsChain == PoolInv /\ ChainInv /\ Restart => ChainInv'
<1> SUFFICES ASSUME PoolInv, ChainInv, Restart PROVE ChainInv'
    OBVIOUS
<1> DEFINE d == IF batch = "none"
                THEN [chain |-> chain, txpool |-> txpool, seen |-> double_spend_seen]
                ELSE batch_start
<1>1. /\ OnceMined(d.chain) /\ PoolOf(d.txpool) \cap MinedOf(d.chain) = {}
      /\ Meets(d.chain, RelayedOf(d.txpool))
    <2>1. CASE batch = "none"
        <3>1. d.txpool = txpool /\ d.chain = chain
            BY <2>1
        <3>2. PoolOf(txpool) = Pool /\ MinedOf(chain) = Mined /\ RelayedOf(txpool) = Relayed
            BY DEF PoolOf, Pool, MinedOf, Mined, Relayed
        <3> QED BY <2>1, <3>1, <3>2 DEF ChainInv, MinedInv, RulesInv, Meets
    <2>2. CASE batch # "none"
        BY <2>2 DEF ChainInv, MinedInv, RulesInv
    <2> QED BY <2>1, <2>2
<1>2. /\ chain' = d.chain /\ txpool' = d.txpool /\ hand' = {}
      /\ \/ /\ phase' = "validating" /\ pending' = PoolOf(d.txpool)
            /\ batch' = "init" /\ batch_start' = d
         \/ phase' = "idle" /\ pending' = {} /\ batch' = "none" /\ batch_start' = NoBatch
    BY DEF Restart, PoolOf
<1> HIDE DEF d
<1>3. /\ Pool' = PoolOf(d.txpool) /\ Mined' = MinedOf(d.chain)
      /\ Relayed' = RelayedOf(d.txpool) /\ Relayed' \subseteq Pool'
    BY <1>2 DEF Pool, PoolOf, Mined, MinedOf, Relayed, RelayedOf
<1>4. DOMAIN NoBatch.chain = {} /\ PoolOf(NoBatch.txpool) = {} /\ RelayedOf(NoBatch.txpool) = {}
    BY DEF NoBatch, PoolOf, RelayedOf
<1>5. MinedInv'
    <2>1. OnceMined(batch_start'.chain) /\ PoolOf(batch_start'.txpool) \cap MinedOf(batch_start'.chain) = {}
        <3>1. CASE batch_start' = d
            BY <1>1, <3>1
        <3>2. CASE batch_start' = NoBatch
            BY <1>4, <3>2 DEF OnceMined
        <3> QED BY <1>2, <3>1, <3>2
    <2>2. /\ OnceMined(chain') /\ Pool' \cap Mined' = {} /\ (pending' \cup hand') \cap Mined' = {}
          /\ phase' = "idle" => pending' = {}
        BY <1>1, <1>2, <1>3
    <2> QED BY <2>1, <2>2 DEF MinedInv
<1>6. RulesInv'
    BY <1>1, <1>2, <1>3, <1>4 DEF RulesInv, Meets
<1> QED BY <1>5, <1>6 DEF ChainInv

LEMMA ChainInvNext == NoClash /\ PoolInv /\ ChainInv /\ [Next]_vars => ChainInv'
<1> SUFFICES ASSUME NoClash, PoolInv, ChainInv, [Next]_vars PROVE ChainInv'
    OBVIOUS
<1>1. CASE Next
    BY <1>1, HandlersKeepChain, BlocksKeepChain, PopsKeepChain, ValidateKeepsChain, RestartKeepsChain
       DEF Next
<1>2. CASE UNCHANGED vars
    <2>1. UNCHANGED <<chain, txpool, batch, batch_start, control>>
        BY <1>2 DEF vars, db
    <2> QED BY <2>1, ShrinkKeepsChain DEF Pool, Relayed, RelayedOf
<1> QED BY <1>1, <1>2

LEMMA ChainInvAlways == NoClash => (Spec => []ChainInv)
<1> SUFFICES ASSUME NoClash PROVE Spec => []ChainInv
    OBVIOUS
<1>1. Spec => []PoolInv
    BY PoolInvAlways
<1>2. PoolInv /\ ChainInv /\ [Next]_vars => ChainInv'
    BY ChainInvNext
<1> QED BY <1>1, <1>2, ChainInvInit, PTL DEF Spec

\* No transaction is ever in the pool and in the main chain, at any step of any
\* handler.
THEOREM PoolIsNotMined == NoClash => (Spec => []PoolNotMined)
<1>1. ChainInv => PoolNotMined
    BY DEF ChainInv, MinedInv, PoolNotMined
<1> QED BY <1>1, ChainInvAlways, PTL

\* Between handlers every transaction of the pool that did not come with a
\* block meets the rules of the fork in force, across any history of arrivals,
\* blocks, alternative blocks of either side of the fork height, pops over it,
\* re-validations, crashes and restarts: on_blockchain_inc and
\* on_blockchain_dec never leave one behind that validate should have removed.
THEOREM RelayedAlwaysMeetRules == NoClash => (Spec => []RelayedMeetRules)
<1>1. ChainInv => RelayedMeetRules
    BY DEF ChainInv, RulesInv, RelayedMeetRules, Meets, Idle, get_current_hard_fork_version,
           Relayed, RelayedOf, Pool, Kept
<1> QED BY <1>1, ChainInvAlways, PTL
=============================================================================
