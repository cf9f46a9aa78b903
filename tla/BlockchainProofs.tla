--------------------------- MODULE BlockchainProofs ---------------------------
(***************************************************************************)
(* Proofs about Blockchain: the state is well typed and the main chain is  *)
(* valid, for every block tree, every content of the blocks and every set  *)
(* of checkpoints.                                                         *)
(***************************************************************************)
EXTENDS Blockchain, FiniteSetTheorems, SequenceTheorems, TLAPS

\* MainChainValid, of any chain.
Valid(c) ==
    /\ c \in Chains /\ c # <<>>
    /\ c = lineage[c[Len(c)]]
    /\ \A i \in DOMAIN c :
          /\ check_block(c[i]) /\ c[i] \notin BadReward /\ ~Clash(c[i])
          /\ \A t \in body[c[i]] : /\ check_tx_inputs(t, SubSeq(c, 1, i - 1))
                                   /\ t \notin TxsOf(SubSeq(c, 1, i - 1))

\* A switch runs in a batch; the positions its loops have reached.
Positions ==
    /\ phase # "idle" => batch # "none"
    /\ phase \in {"connecting", "pushing"} => iter >= 1
    /\ phase \in {"connecting", "rolling_back", "restoring"} => split_height <= Len(main)

\* The inductive invariant: also the chain that a crash or an abort goes back
\* to is valid.
ChainInv ==
    /\ TypeOK
    /\ Valid(main)
    /\ batch # "none" => Valid(saved.main)
    /\ saved.kept \subseteq saved.pool
    /\ Positions

-----------------------------------------------------------------------------
(* Chains *)

\* The genesis block alone is a valid chain.
LEMMA GenesisValid == Valid(<<Genesis>>)
<1> DEFINE c == <<Genesis>>
<1>1. c \in Seq(Block) /\ Len(c) = 1 /\ DOMAIN c = {1} /\ c[1] = Genesis
  BY BlockTree
<1>2. c = lineage[c[Len(c)]]
  BY <1>1, BlockTree
<1>3. body[Genesis] = {} /\ Genesis \notin BadReward
  BY Contents
<1>4. ~Clash(Genesis)
  BY <1>3 DEF Clash
<1>5. check_block(Genesis)
  <2> SUFFICES ASSUME NEW d \in Checkpoint, height(d) = height(Genesis)
               PROVE  d = Genesis
    BY DEF check_block
  <2>1. d \in Block
    BY Checkpoints
  <2>2. height(Genesis) = 0
    BY BlockTree DEF height
  <2>3. d # Genesis => Len(lineage[d]) > 1
    BY <2>1, BlockTree
  <2>4. Len(lineage[d]) \in Nat
    BY <2>1, BlockTree
  <2>5. height(d) = Len(lineage[d]) - 1
    BY DEF height
  <2>6. Len(lineage[d]) = 1
    BY <2>2, <2>4, <2>5
  <2> QED
    BY <2>3, <2>6
<1> HIDE DEF c
<1> QED
  BY <1>1, <1>2, <1>3, <1>4, <1>5 DEF Valid, Chains, c

\* A block with a parent extends the lineage of the parent.
LEMMA Extends ==
  ASSUME NEW b \in Block, b # Genesis
  PROVE  /\ prev_id(b) \in Block
         /\ lineage[b] = Append(lineage[prev_id(b)], b)
<1>1. Len(lineage[b]) > 1 /\ lineage[b] = Append(lineage[prev_id(b)], b)
  BY BlockTree
<1>2. lineage[b] \in Seq(Block)
  BY BlockTree
<1>3. height(b) \in 1..Len(lineage[b])
  BY <1>1, <1>2 DEF height
<1>4. prev_id(b) = lineage[b][height(b)]
  BY DEF prev_id
<1>5. prev_id(b) \in Block
  BY <1>2, <1>3, <1>4
<1> QED
  BY <1>1, <1>5

\* Only a block with its parent at the tail can follow it; Genesis cannot.
LEMMA FollowsTail ==
  ASSUME NEW c, Valid(c), NEW b \in Block, prev_id(b) = c[Len(c)]
  PROVE  b # Genesis /\ Append(c, b) = lineage[b]
<1>1. c \in Seq(Block) /\ c # <<>> /\ c = lineage[c[Len(c)]]
  BY DEF Valid, Chains
<1>2. c[Len(c)] \in Block
  BY <1>1
<1>3. b # Genesis
  BY <1>2, BlockTree DEF prev_id
<1> QED
  BY <1>1, <1>3, Extends

\* What a chain and a longer one have in common.
LEMMA Prefixes ==
  ASSUME NEW S, NEW c \in Seq(S), NEW b \in S
  PROVE  /\ Append(c, b) \in Seq(S)
         /\ Append(c, b) # <<>>
         /\ DOMAIN Append(c, b) = 1..(Len(c) + 1)
         /\ Len(Append(c, b)) = Len(c) + 1
         /\ Append(c, b)[Len(c) + 1] = b
         /\ \A i \in 1..Len(c) : Append(c, b)[i] = c[i]
         /\ \A i \in 1..(Len(c) + 1) : SubSeq(Append(c, b), 1, i - 1) = SubSeq(c, 1, i - 1)
         /\ SubSeq(Append(c, b), 1, Len(c)) = c
OBVIOUS

\* A good block on top of a valid chain makes a valid chain.
LEMMA ValidAppend ==
  ASSUME NEW c, Valid(c), NEW b \in Block, prev_id(b) = c[Len(c)],
         check_block(b), b \notin BadReward, ~Clash(b),
         \A t \in body[b] : check_tx_inputs(t, c) /\ t \notin TxsOf(c)
  PROVE  Valid(Append(c, b))
<1> DEFINE d == Append(c, b)
<1>1. c \in Seq(Block)
  BY DEF Valid, Chains
<1>2. /\ d \in Seq(Block) /\ d # <<>>
      /\ DOMAIN d = 1..(Len(c) + 1) /\ Len(d) = Len(c) + 1 /\ d[Len(c) + 1] = b
      /\ \A i \in 1..Len(c) : d[i] = c[i]
      /\ \A i \in 1..(Len(c) + 1) : SubSeq(d, 1, i - 1) = SubSeq(c, 1, i - 1)
      /\ SubSeq(d, 1, Len(c)) = c
  BY <1>1, Prefixes
<1>3. d = lineage[d[Len(d)]]
  BY <1>2, FollowsTail
<1> HIDE DEF d
<1>4. ASSUME NEW i \in DOMAIN d
      PROVE  /\ check_block(d[i]) /\ d[i] \notin BadReward /\ ~Clash(d[i])
             /\ \A t \in body[d[i]] : /\ check_tx_inputs(t, SubSeq(d, 1, i - 1))
                                      /\ t \notin TxsOf(SubSeq(d, 1, i - 1))
  <2>0. Len(c) \in Nat /\ DOMAIN c = 1..Len(c)
    BY <1>1
  <2>1. CASE i \in 1..Len(c)
    <3>1. d[i] = c[i] /\ SubSeq(d, 1, i - 1) = SubSeq(c, 1, i - 1)
      BY <1>2, <2>0, <2>1
    <3>2. i \in DOMAIN c
      BY <2>0, <2>1
    <3> QED
      BY <3>1, <3>2 DEF Valid
  <2>2. CASE i = Len(c) + 1
    <3>1. i - 1 = Len(c)
      BY <2>0, <2>2
    <3>2. d[i] = b /\ SubSeq(d, 1, i - 1) = c
      BY <1>2, <2>2, <3>1
    <3> QED
      BY <3>2
  <2> QED
    BY <1>2, <2>0, <2>1, <2>2
<1> QED
  BY <1>2, <1>3, <1>4 DEF Valid, Chains, d

\* What a chain and the one without its last block have in common.
LEMMA Shorter ==
  ASSUME NEW S, NEW c \in Seq(S), Len(c) > 1
  PROVE  LET d == SubSeq(c, 1, Len(c) - 1)
         IN  /\ d \in Seq(S) /\ d # <<>> /\ Len(d) = Len(c) - 1 /\ DOMAIN d = 1..(Len(c) - 1)
             /\ \A i \in 1..(Len(c) - 1) : d[i] = c[i]
             /\ \A i \in 1..(Len(c) - 1) : SubSeq(d, 1, i - 1) = SubSeq(c, 1, i - 1)
<1> DEFINE d == SubSeq(c, 1, Len(c) - 1)
<1>1. Len(c) - 1 \in Nat /\ Len(c) \in Nat
  OBVIOUS
<1>2. d \in Seq(S) /\ Len(d) = Len(c) - 1
  BY <1>1
<1>3. \A i \in 1..(Len(c) - 1) : d[i] = c[i]
  BY <1>1
<1>4. d # <<>> /\ DOMAIN d = 1..(Len(c) - 1)
  <2> HIDE DEF d
  <2>1. Len(d) # 0
    BY <1>1, <1>2
  <2> QED
    BY <1>2, <2>1
<1>5. ASSUME NEW i \in 1..(Len(c) - 1)
      PROVE  SubSeq(d, 1, i - 1) = SubSeq(c, 1, i - 1)
  <2>1. i - 1 \in Nat /\ i - 1 < Len(c) - 1
    BY <1>1
  <2>2. /\ SubSeq(c, 1, i - 1) = [k \in 1..(i - 1) |-> c[k]]
        /\ SubSeq(d, 1, i - 1) = [k \in 1..(i - 1) |-> d[k]]
    BY <1>1, <1>2, <2>1
  <2>3. \A k \in 1..(i - 1) : d[k] = c[k]
    BY <1>1, <1>3, <2>1
  <2> QED
    BY <2>2, <2>3
<1> QED
  BY <1>2, <1>3, <1>4, <1>5

\* A valid chain without its last block is valid, unless it was Genesis.
LEMMA ValidPop ==
  ASSUME NEW c, Valid(c), Len(c) > 1
  PROVE  Valid(SubSeq(c, 1, Len(c) - 1))
<1> DEFINE d == SubSeq(c, 1, Len(c) - 1)
           b == c[Len(c)]
<1>1. c \in Seq(Block) /\ c = lineage[b] /\ Len(c) \in Nat
  BY DEF Valid, Chains
<1>2. b \in Block
  BY <1>1
<1>3. b # Genesis
  <2> SUFFICES ASSUME b = Genesis PROVE FALSE
    OBVIOUS
  <2>1. c = <<Genesis>>
    BY <1>1, BlockTree
  <2> QED
    BY <2>1
<1>4. prev_id(b) \in Block /\ c = Append(lineage[prev_id(b)], b)
  BY <1>1, <1>2, <1>3, Extends
<1>5. lineage[prev_id(b)] \in Seq(Block)
  BY <1>4, BlockTree
<1>6. d = lineage[prev_id(b)]
  <2> DEFINE e == lineage[prev_id(b)]
  <2>1. e \in Seq(Block) /\ c = Append(e, b)
    BY <1>4, <1>5
  <2>2. b \in Block
    BY <1>2
  <2> HIDE DEF e, b
  <2>3. SubSeq(Append(e, b), 1, Len(e)) = e /\ Len(Append(e, b)) = Len(e) + 1 /\ Len(e) \in Nat
    BY <2>1, <2>2, Prefixes
  <2>4. Len(c) - 1 = Len(e)
    BY <2>1, <2>3
  <2>5. SubSeq(c, 1, Len(c) - 1) = e
    BY <2>1, <2>3, <2>4
  <2> QED
    BY <2>5 DEF e
<1>7. /\ d \in Seq(Block) /\ d # <<>> /\ Len(d) = Len(c) - 1 /\ DOMAIN d = 1..(Len(c) - 1)
      /\ \A i \in 1..(Len(c) - 1) : d[i] = c[i]
      /\ \A i \in 1..(Len(c) - 1) : SubSeq(d, 1, i - 1) = SubSeq(c, 1, i - 1)
  BY <1>1, Shorter
<1>8. lineage[prev_id(b)][Len(lineage[prev_id(b)])] = prev_id(b)
  <2>1. CASE prev_id(b) = Genesis
    BY <2>1, BlockTree
  <2>2. CASE prev_id(b) # Genesis
    <3>1. /\ prev_id(prev_id(b)) \in Block
          /\ lineage[prev_id(b)] = Append(lineage[prev_id(prev_id(b))], prev_id(b))
      BY <1>4, <2>2, Extends
    <3>2. lineage[prev_id(prev_id(b))] \in Seq(Block)
      BY <3>1, BlockTree
    <3> QED
      BY <1>4, <3>1, <3>2
  <2> QED
    BY <2>1, <2>2
<1> HIDE DEF d, b
<1>9. d = lineage[d[Len(d)]]
  BY <1>6, <1>8
<1>10. DOMAIN c = 1..Len(c)
  BY <1>1
<1>11. ASSUME NEW i \in DOMAIN d
       PROVE  /\ check_block(d[i]) /\ d[i] \notin BadReward /\ ~Clash(d[i])
              /\ \A t \in body[d[i]] : /\ check_tx_inputs(t, SubSeq(d, 1, i - 1))
                                       /\ t \notin TxsOf(SubSeq(d, 1, i - 1))
  <2>0. i \in 1..(Len(c) - 1)
    BY <1>7
  <2>1. i \in DOMAIN c
    BY <1>1, <1>10, <2>0
  <2>2. d[i] = c[i] /\ SubSeq(d, 1, i - 1) = SubSeq(c, 1, i - 1)
    BY <1>7, <2>0
  <2> QED
    BY <2>1, <2>2 DEF Valid
<1> QED
  BY <1>7, <1>9, <1>11 DEF Valid, Chains, d

\* The stretch of alternative blocks is a chain that is not empty.
LEMMA AltChainType ==
  ASSUME NEW b \in Block
  PROVE  build_alt_chain(b) \in Chains
<1> DEFINE n == Len(lineage[b])
           stretch == {i \in 1..n : \A j \in i..(n - 1) : lineage[b][j] \in alt_blocks}
<1>1. lineage[b] \in Seq(Block) /\ n \in Nat
  BY BlockTree
<1>2. IsFiniteSet(1..n) /\ Cardinality(1..n) = n
  <2> HIDE DEF n
  <2>1. 1 \in Int /\ n \in Int
    BY <1>1
  <2>2. IsFiniteSet(1..n) /\ Cardinality(1..n) = IF 1 > n THEN 0 ELSE n - 1 + 1
    BY <2>1, FS_Interval, Zenon
  <2>3. (IF 1 > n THEN 0 ELSE n - 1 + 1) = n
    BY <1>1
  <2> QED
    BY <2>2, <2>3
<1>3. IsFiniteSet(stretch) /\ Cardinality(stretch) <= n
  BY <1>2, FS_Subset
<1>4. Cardinality(stretch) \in Nat
  BY <1>3, FS_CardinalityType
<1> DEFINE first == n - Cardinality(stretch) + 1
<1>5. first \in Int /\ first >= 1
  BY <1>1, <1>3, <1>4
<1>6. build_alt_chain(b) = SubSeq(lineage[b], first, n)
  BY DEF build_alt_chain
<1> HIDE DEF first, stretch
<1> QED
  BY <1>1, <1>5, <1>6 DEF Chains

-----------------------------------------------------------------------------
(* One block *)

\* What a block leaves of the pool is a pool.
LEMMA PoolAfterType ==
  ASSUME NEW p \in SUBSET Tx, NEW k \in SUBSET p, NEW r \in SUBSET Tx, NEW x, NEW y,
         PoolAfter(p, k, r, x, y)
  PROVE  pool' \subseteq Tx /\ kept' \subseteq pool'
BY DEF PoolAfter

\* handle_block_to_main_chain adds only a block that keeps the chain valid.
LEMMA ConnectValid ==
  ASSUME TypeOK, Valid(main), NEW b \in Block, NEW extra, Connect(b, extra)
  PROVE  /\ Valid(main') /\ Len(main') = Len(main) + 1
         /\ pool' \subseteq Tx /\ kept' \subseteq pool'
         /\ UNCHANGED <<m_invalid_blocks, batch, torn>>
<1>1. /\ prev_id(b) = main[Len(main)] /\ check_block(b)
      /\ b \notin BadReward /\ ~Clash(b) /\ main' = Append(main, b)
  BY DEF Connect, HeaderGood, get_tail_id
<1>2. \A t \in body[b] : check_tx_inputs(t, main) /\ t \notin TxsOf(main)
  BY DEF Connect, AllGood, Good, tx_exists
<1>3. Valid(main')
  BY <1>1, <1>2, ValidAppend
<1>4. main \in Seq(Block)
  BY DEF TypeOK, Chains
<1>5. Len(main') = Len(main) + 1
  BY <1>1, <1>4
<1>6. /\ PoolAfter(pool \ body[b], kept \ body[b], {}, Len(main), Len(main) + 1)
      /\ UNCHANGED <<m_invalid_blocks, batch, torn>>
  BY DEF Connect
<1>7. pool \ body[b] \in SUBSET Tx /\ kept \ body[b] \in SUBSET (pool \ body[b])
  BY DEF TypeOK
<1>8. pool' \subseteq Tx /\ kept' \subseteq pool'
  BY <1>6, <1>7, PoolAfterType
<1> QED
  BY <1>3, <1>5, <1>6, <1>8

Torn == [txs : SUBSET Tx, spent : SUBSET Spent(Tx)]

\* What add_block leaves behind when it throws is well typed.
LEMMA ThrowsType ==
  ASSUME NEW b \in Block, Throws(b)
  PROVE  torn' \in Torn
<1>1. body[b] \subseteq Tx
  BY Contents
<1>2. PICK t \in body[b] : \E written \in SUBSET (body[b] \ {t}) :
        \E some \in SUBSET (key_images[t] \ Spent(written)) :
              torn' = [txs |-> written, spent |-> Spent(written) \cup some]
  BY DEF Throws
<1>3. PICK written \in SUBSET (body[b] \ {t}) :
        \E some \in SUBSET (key_images[t] \ Spent(written)) :
              torn' = [txs |-> written, spent |-> Spent(written) \cup some]
  BY <1>2
<1>4. PICK some \in SUBSET (key_images[t] \ Spent(written)) :
              torn' = [txs |-> written, spent |-> Spent(written) \cup some]
  BY <1>3
<1>5. Spent(written) \subseteq Spent(Tx) /\ key_images[t] \subseteq Spent(Tx)
  BY <1>1 DEF Spent
<1> QED
  BY <1>1, <1>4, <1>5 DEF Torn

\* A block that is refused leaves the chain alone and the rest well typed.
LEMMA RefuseType ==
  ASSUME TypeOK, NEW b \in Block, NEW extra, Refuse(b, extra), batch # "none"
  PROVE  /\ main' = main
         /\ pool' \subseteq Tx /\ kept' \subseteq pool'
         /\ m_invalid_blocks' \subseteq Block
         /\ batch' \in {"open", "stop", "abort"}
         /\ torn' \in Torn
<1>1. main' = main
  BY DEF Refuse
<1>2. /\ pool \in SUBSET Tx /\ kept \in SUBSET pool /\ m_invalid_blocks \subseteq Block
      /\ batch \in {"open", "stop", "abort"} /\ torn \in Torn
  BY DEF TypeOK, Torn
<1>3. body[b] \subseteq Tx
  BY Contents
<1>4. CASE Stop /\ UNCHANGED <<pool, kept, m_invalid_blocks, torn>>
  BY <1>1, <1>2, <1>4 DEF Stop
<1>5. CASE TurnedDown(b, extra)
  <2>1. PoolAfter(pool, kept, body[b] \cap pool, Len(main), Len(main)) /\ UNCHANGED m_invalid_blocks
    BY <1>5 DEF TurnedDown
  <2>2. body[b] \cap pool \in SUBSET Tx
    BY <1>3
  <2>3. pool' \subseteq Tx /\ kept' \subseteq pool'
    BY <1>2, <2>1, <2>2, PoolAfterType
  <2>4. \/ Stop /\ UNCHANGED torn
        \/ Throws(b) /\ batch' = "abort"
        \/ UNCHANGED <<torn, batch>>
    BY <1>5 DEF TurnedDown
  <2>5. batch' \in {"open", "stop", "abort"}
    BY <1>2, <2>4 DEF Stop
  <2>6. torn' \in Torn
    BY <1>2, <2>4, ThrowsType
  <2> QED
    BY <1>1, <1>2, <2>1, <2>3, <2>5, <2>6
<1>6. ASSUME NEW t \in body[b], NEW taken \in SUBSET body[b], GivenUp(b, extra, t, taken)
      PROVE  /\ pool' \subseteq Tx /\ kept' \subseteq pool'
             /\ m_invalid_blocks' \subseteq Block
             /\ Stop /\ UNCHANGED torn
  <2> DEFINE found == taken \cup {u \in {t} \cap pool : ~tx_exists(u)}
  <2>1. PoolAfter(pool, kept, found, Len(main), Len(main)) /\ Stop /\ UNCHANGED torn
    BY <1>6 DEF GivenUp
  <2>2. found \in SUBSET Tx
    BY <1>3
  <2> HIDE DEF found
  <2>3. pool' \subseteq Tx /\ kept' \subseteq pool'
    BY <1>2, <2>1, <2>2, PoolAfterType
  <2>4. m_invalid_blocks' = m_invalid_blocks \/ m_invalid_blocks' = m_invalid_blocks \cup {b}
    BY <1>6 DEF GivenUp
  <2>5. m_invalid_blocks' \subseteq Block
    BY <1>2, <2>4
  <2> QED
    BY <2>1, <2>3, <2>5
<1>7. CASE \E t \in body[b], taken \in SUBSET body[b] : GivenUp(b, extra, t, taken)
  <2>1. /\ pool' \subseteq Tx /\ kept' \subseteq pool'
        /\ m_invalid_blocks' \subseteq Block
        /\ Stop /\ UNCHANGED torn
    BY <1>6, <1>7
  <2>2. batch' \in {"open", "stop", "abort"}
    BY <1>2, <2>1 DEF Stop
  <2> QED
    BY <1>1, <1>2, <2>1, <2>2
<1> QED
  BY <1>4, <1>5, <1>7 DEF Refuse

\* pop_block_from_blockchain leaves a valid chain.
LEMMA PopValid ==
  ASSUME TypeOK, Valid(main), Pop
  PROVE  /\ Valid(main') /\ Len(main') = Len(main) - 1
         /\ pool' \subseteq Tx /\ kept' \subseteq pool'
<1>1. Len(main) > 1 /\ main' = SubSeq(main, 1, Len(main) - 1)
  BY DEF Pop
<1>2. main \in Seq(Block) /\ Len(main) \in Nat
  BY DEF TypeOK, Chains
<1>3. Valid(main')
  BY <1>1, ValidPop
<1>4. Len(main') = Len(main) - 1
  BY <1>1, <1>2, Shorter
<1>5. body[get_tail_id] \in SUBSET Tx
  <2>1. get_tail_id \in Block
    BY <1>1, <1>2 DEF get_tail_id
  <2> QED
    BY <2>1, Contents
<1>6. PoolAfter(pool, kept, body[get_tail_id], Len(main), Len(main) - 1)
  BY DEF Pop
<1>7. pool \in SUBSET Tx /\ kept \in SUBSET pool
  BY DEF TypeOK
<1>8. pool' \subseteq Tx /\ kept' \subseteq pool'
  BY <1>5, <1>6, <1>7, PoolAfterType
<1> QED
  BY <1>3, <1>4, <1>8

-----------------------------------------------------------------------------
(* The actions *)

\* A valid chain is a chain.
LEMMA ValidType == ASSUME NEW c, Valid(c) PROVE c \in Chains /\ Len(c) \in Nat
BY DEF Valid, Chains

\* Initially the chain is Genesis alone.
LEMMA ChainInvInit == Init => ChainInv
<1> SUFFICES ASSUME Init PROVE ChainInv
  OBVIOUS
<1>1. Valid(main)
  BY GenesisValid DEF Init
<1>2. <<>> \in Chains
  BY DEF Chains
<1>3. saved \in Saved
  BY <1>2 DEF Init, NoDb, Saved
<1>4. torn \in Torn
  BY DEF Init, Untorn, Torn
<1>5. TypeOK
  BY <1>1, <1>2, <1>3, <1>4, ValidType DEF Init, TypeOK, Torn, Phases
<1> QED
  BY <1>1, <1>5 DEF ChainInv, Positions, Init, NoDb

\* Transactions that come and go, and the start of a batch.
LEMMA PoolKeepsChain ==
  ASSUME ChainInv,
         \/ \E t \in Tx : ReceiveTx(t) \/ LoseTx(t)
         \/ flush_invalid_blocks
  PROVE  ChainInv'
<1>1. /\ UNCHANGED <<main, alt_blocks, batch, saved, torn, switch>>
      /\ pool' \subseteq Tx /\ kept' \subseteq pool'
      /\ m_invalid_blocks' \subseteq Block
  <2>1. CASE \E t \in Tx : ReceiveTx(t)
    BY <2>1 DEF ReceiveTx, ChainInv, TypeOK
  <2>2. CASE \E t \in Tx : LoseTx(t)
    BY <2>2 DEF LoseTx, ChainInv, TypeOK
  <2>3. CASE flush_invalid_blocks
    BY <2>3 DEF flush_invalid_blocks, db, ChainInv, TypeOK
  <2> QED
    BY <2>1, <2>2, <2>3
<1>2. TypeOK'
  BY <1>1 DEF ChainInv, TypeOK, switch, Torn
<1>3. Valid(main') /\ (batch' # "none" => Valid(saved'.main)) /\ saved'.kept \subseteq saved'.pool
  BY <1>1 DEF ChainInv
<1>4. Positions'
  BY <1>1 DEF ChainInv, Positions, switch
<1> QED
  BY <1>2, <1>3, <1>4 DEF ChainInv, Valid

\* ChainInv of the next state, from what a step leaves.
LEMMA ChainInvFrom ==
  ASSUME Valid(main'), batch' # "none" => Valid(saved'.main), saved'.kept \subseteq saved'.pool,
         TypeOK', Positions'
  PROVE  ChainInv'
BY DEF ChainInv, Valid

\* The start of a batch saves a valid chain.
LEMMA PrepareKeepsChain ==
  ASSUME ChainInv, prepare_handle_incoming_blocks
  PROVE  ChainInv'
<1>1. /\ saved' = [main |-> main, alt_blocks |-> alt_blocks, pool |-> pool, kept |-> kept]
      /\ batch' = "open" /\ phase = "idle"
      /\ UNCHANGED <<main, alt_blocks, pool, kept, m_invalid_blocks, torn, switch>>
  BY DEF prepare_handle_incoming_blocks, db, Free, Idle
<1>2. TypeOK /\ Valid(main)
  BY DEF ChainInv
<1>3. saved' \in Saved
  BY <1>1, <1>2 DEF TypeOK, Saved
<1>4. TypeOK'
  BY <1>1, <1>2, <1>3 DEF TypeOK, switch
<1>5. Valid(main') /\ Valid(saved'.main) /\ saved'.kept \subseteq saved'.pool
  BY <1>1, <1>2 DEF TypeOK
<1>6. Positions'
  BY <1>1 DEF Positions, switch
<1> QED
  BY <1>4, <1>5, <1>6, ChainInvFrom

\* Going back to the saved state gives a valid chain.
LEMMA ReloadType ==
  ASSUME ChainInv, batch # "none", Reload
  PROVE  Valid(main') /\ pool' \subseteq Tx /\ kept' \subseteq pool'
<1>1. saved \in Saved /\ Valid(saved.main) /\ saved.kept \subseteq saved.pool
  BY DEF ChainInv, TypeOK
<1> QED
  BY <1>1 DEF Reload, Saved

\* Between batches there is no switch and nothing is saved.
LEMMA AtRest ==
  ASSUME ChainInv, Valid(main'), pool' \subseteq Tx, kept' \subseteq pool',
         alt_blocks' \subseteq Block, m_invalid_blocks' \subseteq Block,
         batch' = "none", saved' = NoDb, torn' = Untorn,
         NoSwitch \/ (phase = "idle" /\ UNCHANGED switch)
  PROVE  ChainInv'
<1>1. <<>> \in Chains
  BY DEF Chains
<1>2. saved' \in Saved /\ saved'.kept \subseteq saved'.pool
  BY <1>1 DEF NoDb, Saved
<1>3. torn' \in Torn
  BY DEF Untorn, Torn
<1>4. /\ phase' = "idle" /\ alt_chain' \in Chains /\ disconnected_chain' \in Chains
      /\ split_height' \in Nat /\ iter' \in Nat /\ discard' \in BOOLEAN
  <2>1. CASE NoSwitch
    BY <1>1, <2>1 DEF NoSwitch
  <2>2. CASE phase = "idle" /\ UNCHANGED switch
    BY <2>2 DEF switch, ChainInv, TypeOK
  <2> QED
    BY <2>1, <2>2
<1>5. main' \in Chains
  BY ValidType
<1>6. TypeOK'
  BY <1>2, <1>3, <1>4, <1>5 DEF TypeOK, Torn, Phases
<1>7. Positions'
  BY <1>4 DEF Positions
<1> QED
  BY <1>2, <1>6, <1>7, ChainInvFrom

\* The end of a batch.
LEMMA CleanupKeepsChain ==
  ASSUME ChainInv, cleanup_handle_incoming_blocks
  PROVE  ChainInv'
<1>1. /\ batch # "none" /\ phase = "idle" /\ UNCHANGED switch
      /\ batch' = "none" /\ saved' = NoDb /\ torn' = Untorn
      /\ m_invalid_blocks' \subseteq Block
  BY DEF cleanup_handle_incoming_blocks, Idle, ChainInv, TypeOK
<1>2. Valid(main') /\ pool' \subseteq Tx /\ kept' \subseteq pool' /\ alt_blocks' \subseteq Block
  <2>1. CASE batch = "abort"
    <3>1. Reload /\ alt_blocks' = saved.alt_blocks
      BY <2>1 DEF cleanup_handle_incoming_blocks
    <3>2. saved.alt_blocks \subseteq Block
      BY DEF ChainInv, TypeOK, Saved
    <3> QED
      BY <1>1, <3>1, <3>2, ReloadType
  <2>2. CASE batch # "abort"
    <3>1. UNCHANGED <<main, alt_blocks, pool, kept>>
      BY <2>2 DEF cleanup_handle_incoming_blocks, db
    <3> QED
      BY <3>1 DEF ChainInv, TypeOK
  <2> QED
    BY <2>1, <2>2
<1> QED
  BY <1>1, <1>2, AtRest

\* A crash or a stop, at any point, and the start after it.
LEMMA RestartKeepsChain ==
  ASSUME ChainInv, NEW keep_alt_blocks \in BOOLEAN, Restart(keep_alt_blocks)
  PROVE  ChainInv'
<1>1. /\ batch' = "none" /\ saved' = NoDb /\ torn' = Untorn /\ NoSwitch
      /\ m_invalid_blocks' \subseteq Block
  BY DEF Restart
<1>2. Valid(main') /\ pool' \subseteq Tx /\ kept' \subseteq pool'
  <2>1. CASE batch = "none"
    <3>1. UNCHANGED <<main, pool, kept>>
      BY <2>1 DEF Restart
    <3> QED
      BY <3>1 DEF ChainInv, TypeOK
  <2>2. CASE batch # "none"
    BY <2>2, ReloadType DEF Restart
  <2> QED
    BY <2>1, <2>2
<1>3. alt_blocks' \in {{}, alt_blocks, saved.alt_blocks}
  BY DEF Restart
<1>4. alt_blocks' \subseteq Block
  BY <1>3 DEF ChainInv, TypeOK, Saved
<1> QED
  BY <1>1, <1>2, <1>4, AtRest

\* The operator pops a block.
LEMMA PopBlocksKeepsChain ==
  ASSUME ChainInv, pop_blocks
  PROVE  ChainInv'
<1>1. /\ Pop /\ phase = "idle"
      /\ UNCHANGED <<alt_blocks, m_invalid_blocks, batch, saved, torn, switch>>
  BY DEF pop_blocks, Free, Idle
<1>2. Valid(main') /\ pool' \subseteq Tx /\ kept' \subseteq pool'
  BY <1>1, PopValid DEF ChainInv
<1>3. main' \in Chains
  BY <1>2, ValidType
<1>4. TypeOK'
  BY <1>1, <1>2, <1>3 DEF ChainInv, TypeOK, switch
<1>5. Positions' /\ (batch' # "none" => Valid(saved'.main)) /\ saved'.kept \subseteq saved'.pool
  BY <1>1 DEF ChainInv, Positions, switch
<1> QED
  BY <1>2, <1>4, <1>5, ChainInvFrom

\* What a step inside a batch must show when it leaves the saved state alone.
LEMMA InBatch ==
  ASSUME ChainInv, batch # "none", UNCHANGED saved,
         Valid(main'), pool' \subseteq Tx, kept' \subseteq pool',
         alt_blocks' \subseteq Block, m_invalid_blocks' \subseteq Block,
         batch' \in {"open", "stop", "abort"}, torn' \in Torn,
         phase' \in Phases, alt_chain' \in Chains, disconnected_chain' \in Chains,
         split_height' \in Nat, iter' \in Nat, discard' \in BOOLEAN,
         phase' \in {"connecting", "pushing"} => iter' >= 1,
         phase' \in {"connecting", "rolling_back", "restoring"} => split_height' <= Len(main')
  PROVE  ChainInv'
<1>1. main' \in Chains /\ saved \in Saved
  BY ValidType DEF ChainInv, TypeOK
<1>2. TypeOK'
  BY <1>1 DEF TypeOK, Torn
<1>3. Positions'
  BY DEF Positions
<1>4. Valid(saved'.main) /\ saved'.kept \subseteq saved'.pool
  BY DEF ChainInv
<1> QED
  BY <1>2, <1>3, <1>4, ChainInvFrom

\* The types of a batch's state.
LEMMA BatchTypes ==
  ASSUME ChainInv, batch # "none"
  PROVE  /\ TypeOK /\ Valid(main) /\ Len(main) \in Nat
         /\ pool \subseteq Tx /\ kept \subseteq pool
         /\ alt_blocks \subseteq Block /\ m_invalid_blocks \subseteq Block
         /\ batch \in {"open", "stop", "abort"} /\ torn \in Torn
         /\ phase \in Phases /\ alt_chain \in Chains /\ disconnected_chain \in Chains
         /\ split_height \in Nat /\ iter \in Nat /\ discard \in BOOLEAN
<1>1. TypeOK /\ Valid(main)
  BY DEF ChainInv
<1>2. Len(main) \in Nat
  BY <1>1, ValidType
<1> QED
  BY <1>1, <1>2 DEF TypeOK, Torn

\* A block for the main chain is connected or refused.
LEMMA AddToMainChainKeepsChain ==
  ASSUME ChainInv, NEW b \in Block, NEW extra \in SUBSET body[b], AddToMainChain(b, extra)
  PROVE  ChainInv'
<1>1. /\ batch # "none" /\ phase = "idle"
      /\ Connect(b, extra) \/ Refuse(b, extra)
      /\ UNCHANGED <<alt_blocks, saved, switch>>
  BY DEF AddToMainChain, Arrives, Idle
<1>2. UNCHANGED <<phase, alt_chain, disconnected_chain, split_height, iter, discard>>
  BY <1>1 DEF switch
<1>3. /\ Valid(main') /\ pool' \subseteq Tx /\ kept' \subseteq pool'
      /\ m_invalid_blocks' \subseteq Block
      /\ batch' \in {"open", "stop", "abort"} /\ torn' \in Torn
  BY <1>1, BatchTypes, ConnectValid, RefuseType
<1> QED
  BY <1>1, <1>2, <1>3, BatchTypes, InBatch

\* A supplement brings transactions.
LEMMA SupplementType ==
  ASSUME NEW b \in Block, NEW extra \in SUBSET body[b], NEW hidden \in SUBSET extra
  PROVE  Supplement(extra, hidden) \in SUBSET Tx
<1>1. extra \subseteq Tx
  BY Contents
<1> QED
  BY <1>1 DEF Supplement

\* An alternative block is stored, and may start a switch.
LEMMA AddAlternativeKeepsChain ==
  ASSUME ChainInv, NEW b \in Block, NEW extra \in SUBSET body[b], AddAlternative(b, extra)
  PROVE  ChainInv'
<1>1. /\ batch # "none" /\ phase = "idle"
      /\ alt_blocks' = alt_blocks \cup {b}
      /\ UNCHANGED <<main, m_invalid_blocks, batch, saved, torn>>
  BY DEF AddAlternative, Arrives, Idle
<1>2. PICK hidden \in SUBSET extra :
        PoolAfter(pool, kept, Supplement(extra, hidden), Len(main), Len(main))
  BY DEF AddAlternative
<1>3. Supplement(extra, hidden) \in SUBSET Tx
  BY SupplementType
<1>4. pool' \subseteq Tx /\ kept' \subseteq pool'
  <2>1. pool \in SUBSET Tx /\ kept \in SUBSET pool
    BY <1>1, BatchTypes
  <2> QED
    BY <1>2, <1>3, <2>1, PoolAfterType
<1>5. /\ phase' \in {"idle", "popping"} /\ alt_chain' \in Chains /\ discard' \in BOOLEAN
      /\ UNCHANGED <<disconnected_chain, split_height, iter>>
  <2>1. CASE StartsSwitch(b)
    <3>1. /\ phase' = "popping" /\ alt_chain' = build_alt_chain(b) /\ discard' = (b \in Checkpoint)
          /\ UNCHANGED <<disconnected_chain, split_height, iter>>
      BY <2>1 DEF AddAlternative
    <3> QED
      BY <3>1, AltChainType
  <2>2. CASE ~StartsSwitch(b)
    <3>1. UNCHANGED <<phase, alt_chain, disconnected_chain, split_height, iter, discard>>
      BY <2>2 DEF AddAlternative, switch
    <3> QED
      BY <1>1, <3>1, BatchTypes
  <2> QED
    BY <2>1, <2>2
<1>6. Valid(main') /\ alt_blocks' \subseteq Block /\ phase' \in Phases
  BY <1>1, <1>5, BatchTypes DEF Phases
<1> QED
  BY <1>1, <1>4, <1>5, <1>6, BatchTypes, InBatch

\* An alternative block is refused, part of its transactions in the pool.
LEMMA RefuseAlternativeKeepsChain ==
  ASSUME ChainInv, NEW b \in Block, NEW extra \in SUBSET body[b], RefuseAlternative(b, extra)
  PROVE  ChainInv'
<1>1. /\ batch # "none" /\ phase = "idle" /\ batch' \in {batch, "stop"}
      /\ UNCHANGED <<main, alt_blocks, m_invalid_blocks, saved, torn, switch>>
  BY DEF RefuseAlternative, Arrives, Idle, Stop
<1>2. UNCHANGED <<phase, alt_chain, disconnected_chain, split_height, iter, discard>>
  BY <1>1 DEF switch
<1>3. PICK hidden \in SUBSET extra :
        \E entered \in SUBSET Supplement(extra, hidden) :
           PoolAfter(pool, kept, entered, Len(main), Len(main))
  BY DEF RefuseAlternative
<1>4. PICK entered \in SUBSET Tx : PoolAfter(pool, kept, entered, Len(main), Len(main))
  BY <1>3, SupplementType
<1>5. pool' \subseteq Tx /\ kept' \subseteq pool'
  <2>1. pool \in SUBSET Tx /\ kept \in SUBSET pool
    BY <1>1, BatchTypes
  <2> QED
    BY <1>4, <2>1, PoolAfterType
<1>6. Valid(main') /\ batch' \in {"open", "stop", "abort"}
  BY <1>1, BatchTypes
<1> QED
  BY <1>1, <1>2, <1>5, <1>6, BatchTypes, InBatch

\* The steps that only pop: of the switch and of the rollback.
LEMMA PopsKeepChain ==
  ASSUME ChainInv, SwitchPop \/ RollbackPop
  PROVE  ChainInv'
<1>1. phase # "idle" /\ batch # "none" /\ Pop
  BY DEF SwitchPop, RollbackPop, ChainInv, Positions
<1>2. UNCHANGED <<alt_blocks, m_invalid_blocks, batch, saved, torn, phase, alt_chain,
                  split_height, iter, discard>>
  BY DEF SwitchPop, RollbackPop, switch
<1>3. Valid(main') /\ Len(main') = Len(main) - 1 /\ pool' \subseteq Tx /\ kept' \subseteq pool'
  BY <1>1, PopValid DEF ChainInv
<1>4. disconnected_chain' \in Chains
  <2>1. CASE SwitchPop
    <3>1. disconnected_chain' = <<get_tail_id>> \o disconnected_chain
      BY <2>1 DEF SwitchPop
    <3>2. get_tail_id \in Block
      BY <1>1, BatchTypes DEF get_tail_id, Valid, Chains
    <3>3. disconnected_chain \in Seq(Block)
      BY <1>1, BatchTypes DEF Chains
    <3> QED
      BY <3>1, <3>2, <3>3 DEF Chains
  <2>2. CASE RollbackPop
    BY <1>1, <2>2, BatchTypes DEF RollbackPop, switch
  <2> QED
    BY <2>1, <2>2
<1>5. \/ phase = "popping"
      \/ phase = "rolling_back" /\ Len(main) # split_height /\ split_height <= Len(main)
  BY DEF SwitchPop, RollbackPop, ChainInv, Positions
<1>6. phase' \in {"connecting", "rolling_back", "restoring"} => split_height' <= Len(main')
  BY <1>1, <1>2, <1>3, <1>5, BatchTypes
<1>7. phase' \notin {"connecting", "pushing"}
  BY <1>2, <1>5
<1> QED
  BY <1>1, <1>2, <1>3, <1>4, <1>6, <1>7, BatchTypes, InBatch

\* The steps that only move on to the next loop.
LEMMA TurnsKeepChain ==
  ASSUME ChainInv, SwitchPopped \/ SwitchConnected \/ RollbackPopped
  PROVE  ChainInv'
<1>1. phase # "idle" /\ batch # "none"
  BY DEF SwitchPopped, SwitchConnected, RollbackPopped, ChainInv, Positions
<1>2. UNCHANGED <<main, alt_blocks, pool, kept, m_invalid_blocks, batch, saved, torn, alt_chain,
                  disconnected_chain, discard>>
  BY DEF SwitchPopped, SwitchConnected, RollbackPopped, db
<1>3. Len(disconnected_chain) \in Nat
  BY <1>1, BatchTypes DEF Chains
<1>4. /\ phase' \in Phases /\ split_height' \in Nat /\ iter' \in Nat
      /\ phase' \in {"connecting", "pushing"} => iter' >= 1
      /\ phase' \in {"connecting", "rolling_back", "restoring"} => split_height' <= Len(main')
  <2>1. CASE SwitchPopped
    BY <1>1, <1>2, <2>1, BatchTypes DEF SwitchPopped, Phases
  <2>2. CASE SwitchConnected
    BY <1>1, <1>2, <1>3, <2>2, BatchTypes DEF SwitchConnected, Phases
  <2>3. CASE RollbackPopped
    <3>1. phase' = "restoring" /\ Len(main) = split_height /\ UNCHANGED <<split_height, iter>>
      BY <2>3 DEF RollbackPopped
    <3> QED
      BY <1>1, <1>2, <3>1, BatchTypes DEF Phases
  <2> QED
    BY <2>1, <2>2, <2>3
<1> QED
  BY <1>1, <1>2, <1>4, BatchTypes, InBatch

\* A switch connects the next block of alt_chain, or fails at it.
LEMMA SwitchConnectsKeepChain ==
  ASSUME ChainInv, SwitchConnect \/ SwitchFails
  PROVE  ChainInv'
<1>1. phase = "connecting" /\ batch # "none" /\ iter <= Len(alt_chain) /\ iter >= 1
      /\ split_height <= Len(main)
  BY DEF SwitchConnect, SwitchFails, ChainInv, Positions
<1>2. UNCHANGED <<alt_blocks, saved, alt_chain, disconnected_chain, split_height, discard>>
  BY DEF SwitchConnect, SwitchFails
<1>3. alt_chain[iter] \in Block
  BY <1>1, BatchTypes DEF Chains
<1>4. CASE SwitchConnect
  <2>1. Connect(alt_chain[iter], {}) /\ iter' = iter + 1 /\ phase' = phase
    BY <1>4 DEF SwitchConnect
  <2>2. /\ Valid(main') /\ Len(main') = Len(main) + 1
        /\ pool' \subseteq Tx /\ kept' \subseteq pool'
        /\ UNCHANGED <<m_invalid_blocks, batch, torn>>
    BY <1>1, <1>3, <2>1, BatchTypes, ConnectValid
  <2>3. iter' \in Nat /\ iter' >= 1 /\ split_height' <= Len(main')
    BY <1>1, <1>2, <2>1, <2>2, BatchTypes
  <2> QED
    BY <1>1, <1>2, <2>1, <2>2, <2>3, BatchTypes, InBatch
<1>5. CASE SwitchFails
  <2>1. Refuse(alt_chain[iter], {}) /\ phase' = "rolling_back" /\ UNCHANGED iter
    BY <1>5 DEF SwitchFails
  <2>2. /\ main' = main /\ pool' \subseteq Tx /\ kept' \subseteq pool'
        /\ m_invalid_blocks' \subseteq Block
        /\ batch' \in {"open", "stop", "abort"} /\ torn' \in Torn
    BY <1>1, <1>3, <2>1, BatchTypes, RefuseType
  <2>3. phase' \in Phases
    BY <2>1 DEF Phases
  <2> QED
    BY <1>1, <1>2, <2>1, <2>2, <2>3, BatchTypes, InBatch
<1> QED
  BY <1>4, <1>5

\* The rollback restores the next block, or ends.
LEMMA RollbackKeepsChain ==
  ASSUME ChainInv, RollbackRestore \/ RollbackEnds
  PROVE  ChainInv'
<1>1. phase = "restoring" /\ batch # "none" /\ split_height <= Len(main)
  BY DEF RollbackRestore, RollbackEnds, ChainInv, Positions
<1>2. UNCHANGED <<alt_blocks, saved, alt_chain, disconnected_chain, split_height, iter, discard>>
  BY DEF RollbackRestore, RollbackEnds, switch
<1>3. ASSUME Restored < Len(disconnected_chain)
      PROVE  disconnected_chain[Restored + 1] \in Block
  BY <1>1, <1>3, BatchTypes DEF Restored, Chains
<1>4. CASE RollbackRestore
  <2>1. /\ Restored < Len(disconnected_chain)
        /\ Connect(disconnected_chain[Restored + 1], {}) /\ phase' = phase
    BY <1>4 DEF RollbackRestore, switch
  <2>2. /\ Valid(main') /\ Len(main') = Len(main) + 1
        /\ pool' \subseteq Tx /\ kept' \subseteq pool'
        /\ UNCHANGED <<m_invalid_blocks, batch, torn>>
    BY <1>1, <1>3, <2>1, BatchTypes, ConnectValid
  <2>3. split_height' <= Len(main')
    BY <1>1, <1>2, <2>2, BatchTypes
  <2> QED
    BY <1>1, <1>2, <2>1, <2>2, <2>3, BatchTypes, InBatch
<1>5. CASE RollbackEnds
  <2>1. phase' = "purging" /\ phase' \in Phases
    BY <1>5 DEF RollbackEnds, Phases
  <2>2. /\ main' = main /\ pool' \subseteq Tx /\ kept' \subseteq pool'
        /\ m_invalid_blocks' \subseteq Block
        /\ batch' \in {"open", "stop", "abort"} /\ torn' \in Torn
    <3>1. CASE UNCHANGED <<main, pool, kept, m_invalid_blocks, batch, torn>>
      BY <1>1, <3>1, BatchTypes
    <3>2. CASE /\ Restored < Len(disconnected_chain)
               /\ Refuse(disconnected_chain[Restored + 1], {})
      BY <1>1, <1>3, <3>2, BatchTypes, RefuseType
    <3> QED
      BY <1>5, <3>1, <3>2 DEF RollbackEnds
  <2> QED
    BY <1>1, <1>2, <2>1, <2>2, BatchTypes, InBatch
<1> QED
  BY <1>4, <1>5

\* The steps that move blocks between the tables at the end of a switch.
LEMMA SwitchEndsKeepChain ==
  ASSUME ChainInv, SwitchPushOld \/ SwitchDone \/ SwitchPurge
  PROVE  ChainInv'
<1>1. phase \in {"pushing", "purging"} /\ batch # "none"
  BY DEF SwitchPushOld, SwitchDone, SwitchPurge, ChainInv, Positions
<1>2. UNCHANGED <<main, pool, kept, m_invalid_blocks, batch, saved, torn>>
  BY DEF SwitchPushOld, SwitchDone, SwitchPurge
<1>3. CASE SwitchPushOld
  <2>1. /\ phase' = "pushing" /\ phase' \in Phases /\ iter <= Len(disconnected_chain) /\ iter' = iter + 1
        /\ UNCHANGED <<alt_chain, disconnected_chain, split_height, discard>>
    BY <1>3 DEF SwitchPushOld, Phases
  <2>2. iter >= 1
    BY <1>3 DEF SwitchPushOld, ChainInv, Positions
  <2>3. disconnected_chain[iter] \in Block
    BY <1>1, <2>1, <2>2, BatchTypes DEF Chains
  <2>4. alt_blocks' \in {alt_blocks, alt_blocks \cup {disconnected_chain[iter]}}
    BY <1>3 DEF SwitchPushOld
  <2>5. alt_blocks' \subseteq Block /\ iter' \in Nat /\ iter' >= 1
    BY <1>1, <2>1, <2>2, <2>3, <2>4, BatchTypes
  <2> QED
    BY <1>1, <1>2, <2>1, <2>5, BatchTypes, InBatch
<1>4. CASE SwitchDone \/ SwitchPurge
  <2>1. NoSwitch /\ alt_blocks' \subseteq alt_blocks
    BY <1>4 DEF SwitchDone, SwitchPurge
  <2>0. <<>> \in Chains
    BY DEF Chains
  <2>2. /\ phase' = "idle" /\ phase' \in Phases
        /\ alt_chain' \in Chains /\ disconnected_chain' \in Chains
        /\ split_height' \in Nat /\ iter' \in Nat /\ discard' \in BOOLEAN
    BY <2>0, <2>1 DEF NoSwitch, Phases
  <2>3. alt_blocks' \subseteq Block
    BY <1>1, <2>1, BatchTypes
  <2> QED
    BY <1>1, <1>2, <2>2, <2>3, BatchTypes, InBatch
<1> QED
  BY <1>3, <1>4

-----------------------------------------------------------------------------
(* The theorems *)

\* Every step keeps the invariant.
LEMMA ChainInvNext == ChainInv /\ [Next]_vars => ChainInv'
<1> SUFFICES ASSUME ChainInv, [Next]_vars PROVE ChainInv'
  OBVIOUS
<1>1. CASE UNCHANGED vars
  <2>1. UNCHANGED <<main, alt_blocks, pool, kept, m_invalid_blocks, batch, saved, torn, phase,
                    alt_chain, disconnected_chain, split_height, iter, discard>>
    BY <1>1 DEF vars, db, switch
  <2> QED
    BY <2>1 DEF ChainInv, TypeOK, Valid, Positions
<1>2. CASE \/ \E t \in Tx : ReceiveTx(t) \/ LoseTx(t)
           \/ flush_invalid_blocks
  BY <1>2, PoolKeepsChain
<1>3. CASE prepare_handle_incoming_blocks
  BY <1>3, PrepareKeepsChain
<1>4. CASE cleanup_handle_incoming_blocks
  BY <1>4, CleanupKeepsChain
<1>5. CASE \E b \in Block \ {Genesis} : \E extra \in SUBSET body[b] :
              AddToMainChain(b, extra) \/ AddAlternative(b, extra) \/ RefuseAlternative(b, extra)
  BY <1>5, AddToMainChainKeepsChain, AddAlternativeKeepsChain, RefuseAlternativeKeepsChain
<1>6. CASE SwitchStep
  BY <1>6, PopsKeepChain, TurnsKeepChain, SwitchConnectsKeepChain, RollbackKeepsChain,
     SwitchEndsKeepChain DEF SwitchStep
<1>7. CASE pop_blocks
  BY <1>7, PopBlocksKeepsChain
<1>8. CASE \E keep_alt_blocks \in BOOLEAN : Restart(keep_alt_blocks)
  BY <1>8, RestartKeepsChain
<1> QED
  BY <1>1, <1>2, <1>3, <1>4, <1>5, <1>6, <1>7, <1>8 DEF Next

\* So the invariant always holds.
LEMMA ChainInvAlways == Spec => []ChainInv
BY ChainInvInit, ChainInvNext, PTL DEF Spec

\* The state of Blockchain always has the types the class declares, and only
\* pool transactions are kept, for every block tree.
THEOREM TypeCorrect == Spec => []TypeOK
<1>1. ChainInv => TypeOK
  BY DEF ChainInv
<1> QED
  BY <1>1, ChainInvAlways, PTL

\* At every step of every handler, after any failed switch, lost batch, crash or
\* pop, the main chain is the lineage of its tail, passes the checkpoints, and
\* spends nothing twice.
THEOREM MainChainIsValid == Spec => []MainChainValid
<1>1. ChainInv => MainChainValid
  BY DEF ChainInv, Valid, MainChainValid, get_tail_id
<1> QED
  BY <1>1, ChainInvAlways, PTL
=============================================================================
