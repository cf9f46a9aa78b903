---------------------------- MODULE TxPoolProofs ----------------------------
(***************************************************************************)
(* Proofs about TxPool: whatever the transactions, the limits and the      *)
(* order of the handlers, the pool's table and the pool's memory agree,    *)
(* and a restart finds a table that init accepts.                          *)
(***************************************************************************)
EXTENDS TxPool, TLAPS, FiniteSetTheorems, SequenceTheorems

-----------------------------------------------------------------------------
(* Weights *)

Units(t) == {t} \X (1..weight[t])

UnitsOf(S) == UNION {Units(t) : t \in S}

LEMMA UnitsFinite ==
    ASSUME NEW S \in SUBSET Tx
    PROVE  IsFiniteSet(UnitsOf(S))
<1> DEFINE F == {Units(t) : t \in S}
           f == [t \in S |-> Units(t)]
<1>1. IsFiniteSet(S)
    BY Parameters, FS_Subset
<1>2. f \in Surjection(S, F)
    BY DEF Surjection
<1>3. IsFiniteSet(F)
    <2> HIDE DEF f, F
    <2> QED BY <1>1, <1>2, FS_Surjection
<1>4. ASSUME NEW t \in S PROVE IsFiniteSet(Units(t))
    <2>1. weight[t] \in Int
        BY Parameters
    <2>2. IsFiniteSet(1..weight[t])
        BY <2>1, FS_Interval
    <2>3. IsFiniteSet({t})
        BY FS_Singleton
    <2> QED BY <2>2, <2>3, FS_Product DEF Units
<1>5. \A T \in F : IsFiniteSet(T)
    BY <1>4
<1> HIDE DEF F
<1>6. IsFiniteSet(UNION F)
    BY <1>3, <1>5, FS_UNION
<1> QED BY <1>6 DEF UnitsOf, F

LEMMA WeightIs ==
    ASSUME NEW S \in SUBSET Tx
    PROVE  Weight(S) = Cardinality(UnitsOf(S)) /\ Weight(S) \in Nat
BY UnitsFinite, FS_CardinalityType DEF Weight, UnitsOf, Units

LEMMA OneTo ==
    ASSUME NEW n \in Nat
    PROVE  IsFiniteSet(1..n) /\ Cardinality(1..n) = n
<1>1. 1 \in Int /\ n \in Int
    OBVIOUS
<1>2. IsFiniteSet(1..n) /\ Cardinality(1..n) = IF 1 > n THEN 0 ELSE n - 1 + 1
    BY <1>1, FS_Interval, Zenon
<1>3. (IF 1 > n THEN 0 ELSE n - 1 + 1) = n
    OBVIOUS
<1> QED BY <1>2, <1>3

LEMMA WeightOfOne ==
    ASSUME NEW t \in Tx
    PROVE  Weight({t}) = weight[t]
<1>1. weight[t] \in Nat
    BY Parameters
<1>2. IsFiniteSet(1..weight[t]) /\ Cardinality(1..weight[t]) = weight[t]
    BY <1>1, OneTo
<1>3. IsFiniteSet({t}) /\ Cardinality({t}) = 1
    BY FS_Singleton
<1>4. Cardinality(Units(t)) = 1 * weight[t]
    <2> DEFINE n == weight[t]
               I == 1..n
    <2>1. Cardinality({t} \X I) = Cardinality({t}) * Cardinality(I)
        <3>1. IsFiniteSet({t}) /\ IsFiniteSet(I)
            BY <1>2, <1>3
        <3> HIDE DEF I
        <3> QED BY <3>1, FS_Product, Zenon
    <2> QED BY <1>2, <1>3, <2>1 DEF Units
<1>5. UnitsOf({t}) = Units(t)
    BY DEF UnitsOf
<1> QED BY <1>1, <1>4, <1>5, WeightIs

\* Weight adds up over disjoint sets.
LEMMA WeightAdds ==
    ASSUME NEW S \in SUBSET Tx, NEW T \in SUBSET Tx, S \cap T = {}
    PROVE  Weight(S \cup T) = Weight(S) + Weight(T)
<1>1. UnitsOf(S \cup T) = UnitsOf(S) \cup UnitsOf(T)
    BY DEF UnitsOf
<1>2. UnitsOf(S) \cap UnitsOf(T) = {}
    BY DEF UnitsOf, Units
<1>3. IsFiniteSet(UnitsOf(S)) /\ IsFiniteSet(UnitsOf(T))
    BY UnitsFinite
<1>a. Cardinality(UnitsOf(S) \cup UnitsOf(T))
        = Cardinality(UnitsOf(S)) + Cardinality(UnitsOf(T)) - Cardinality(UnitsOf(S) \cap UnitsOf(T))
    BY <1>3, FS_Union
<1>4. Cardinality(UnitsOf(S \cup T)) = Cardinality(UnitsOf(S)) + Cardinality(UnitsOf(T)) - Cardinality({})
    BY <1>1, <1>2, <1>a
<1>5. Cardinality({}) = 0
    BY FS_EmptySet
<1>6. S \cup T \in SUBSET Tx
    OBVIOUS
<1>7. /\ Weight(S \cup T) = Cardinality(UnitsOf(S \cup T))
      /\ Weight(S) = Cardinality(UnitsOf(S)) /\ Weight(S) \in Nat
      /\ Weight(T) = Cardinality(UnitsOf(T)) /\ Weight(T) \in Nat
    BY <1>6, WeightIs
<1> QED BY <1>4, <1>5, <1>7

\* reduce_txpool_weight takes off exactly what leaves the pool: it never
\* meets its underflow branch.
LEMMA ReducedIs ==
    ASSUME NEW P \in SUBSET Tx, NEW S \in SUBSET P
    PROVE  Reduced(Weight(P), S) = Weight(P \ S)
<1>1. S \in SUBSET Tx /\ P \ S \in SUBSET Tx /\ S \cap (P \ S) = {} /\ S \cup (P \ S) = P
    OBVIOUS
<1>2. Weight(P) = Weight(S) + Weight(P \ S)
    BY <1>1, WeightAdds
<1>3. Weight(S) \in Nat /\ Weight(P \ S) \in Nat
    BY <1>1, WeightIs
<1> QED BY <1>2, <1>3 DEF Reduced

-----------------------------------------------------------------------------
(* The pool's table and the pool's memory *)

PoolOf(p) == {t \in Tx : p[t] # "absent"}

\* What every handler keeps, at each of its steps.
Consistent ==
    /\ txpool \in TxpoolTable
    /\ double_spend_seen \subseteq Pool
    /\ m_spent_key_images \in [KeyImage -> SUBSET Tx]
    /\ KeyImagesExact
    /\ AccountingExact
    /\ InitSucceeds(txpool)

LEMMA KeyImagesType ==
    ASSUME NEW t \in Tx
    PROVE  /\ \A i \in DOMAIN vin[t] : i \in Nat /\ vin[t][i] \in KeyImage /\ vin[t][i] \in KeyImages(t)
           /\ \A i \in DOMAIN vin[t] : \A j \in 1..i : j \in DOMAIN vin[t]
           /\ KeyImages(t) \subseteq KeyImage
<1>1. vin[t] \in Seq(KeyImage)
    BY Parameters
<1>2. vin[t] \in [1..Len(vin[t]) -> KeyImage] /\ Len(vin[t]) \in Nat
    BY <1>1, LenProperties
<1>3. DOMAIN vin[t] = 1..Len(vin[t])
    BY <1>2
<1> QED BY <1>2, <1>3 DEF KeyImages

\* remove_transaction_keyimages finds every key image of a transaction that
\* is in the pool, so it takes them all out.
LEMMA RemoveKeyImages ==
    ASSUME KeyImagesExact, NEW S \in SUBSET Pool
    PROVE  remove_transaction_keyimages(S)
             = [k \in KeyImage |-> {t \in Pool \ S : k \in KeyImages(t)}]
<1> SUFFICES ASSUME NEW k \in KeyImage
             PROVE  m_spent_key_images[k] \
                      {t \in S : \E i \in DOMAIN vin[t] :
                         /\ vin[t][i] = k
                         /\ \A j \in 1..i : t \in m_spent_key_images[vin[t][j]]}
                      = {t \in Pool \ S : k \in KeyImages(t)}
    BY DEF remove_transaction_keyimages
<1>1. m_spent_key_images[k] = {t \in Pool : k \in KeyImages(t)}
    BY DEF KeyImagesExact
<1>2. ASSUME NEW t \in S, k \in KeyImages(t)
      PROVE  \E i \in DOMAIN vin[t] :
                /\ vin[t][i] = k
                /\ \A j \in 1..i : t \in m_spent_key_images[vin[t][j]]
    <2>1. t \in Tx /\ t \in Pool
        BY DEF Pool
    <2>2. PICK i \in DOMAIN vin[t] : vin[t][i] = k
        BY <1>2 DEF KeyImages
    <2>3. \A j \in 1..i : vin[t][j] \in KeyImage /\ vin[t][j] \in KeyImages(t)
        BY <2>1, KeyImagesType
    <2>4. \A j \in 1..i : t \in m_spent_key_images[vin[t][j]]
        BY <2>1, <2>3 DEF KeyImagesExact
    <2> QED BY <2>2, <2>4
<1> QED BY <1>1, <1>2

\* Every removal keeps the table and the memory together.
LEMMA RemoveKeeps ==
    ASSUME Consistent, NEW S \in SUBSET Pool, Remove(S)
    PROVE  /\ Consistent'
           /\ Pool' = Pool \ S
           /\ \A t \in Tx : txpool'[t] = IF t \in S THEN "absent" ELSE txpool[t]
<1>1. txpool \in TxpoolTable /\ S \subseteq Tx /\ Pool \subseteq Tx
    BY DEF Consistent, Pool
<1>2. txpool' = [t \in Tx |-> IF t \in S THEN "absent" ELSE txpool[t]]
    BY DEF Remove
<1>3. txpool' \in TxpoolTable
    BY <1>1, <1>2 DEF TxpoolTable
<1>4. Pool' = Pool \ S
    BY <1>2 DEF Pool
<1>5. double_spend_seen' \subseteq Pool'
    BY <1>4 DEF Remove, Consistent
<1>6. m_spent_key_images' = [k \in KeyImage |-> {t \in Pool' : k \in KeyImages(t)}]
    BY <1>4, RemoveKeyImages DEF Remove, Consistent
<1>7. m_spent_key_images' \in [KeyImage -> SUBSET Tx] /\ KeyImagesExact'
    BY <1>1, <1>4, <1>6 DEF KeyImagesExact, KeyImages
<1>8. m_txpool_weight' = Weight(Pool')
    <2>1. m_txpool_weight' = Reduced(Weight(Pool), S)
        BY DEF Remove, Consistent, AccountingExact
    <2> QED BY <1>1, <1>4, <2>1, ReducedIs
<1>9. AccountingExact'
    BY <1>4, <1>8 DEF Remove, Consistent, AccountingExact, Weight
<1>10. InitSucceeds(txpool')
    BY <1>1, <1>2 DEF Consistent, InitSucceeds
<1> QED BY <1>2, <1>3, <1>4, <1>5, <1>7, <1>9, <1>10 DEF Consistent, InitSucceeds

\* insert_key_images, when it succeeds, lists t under all its key images.
LEMMA InsertAll ==
    ASSUME NEW t \in Tx, NEW method, InsertSucceeds(t, method)
    PROVE  insert_key_images(t, method)
             = [k \in KeyImage |-> IF k \in KeyImages(t) THEN m_spent_key_images[k] \cup {t}
                                   ELSE m_spent_key_images[k]]
<1>1. ASSUME NEW i \in DOMAIN vin[t], NEW j \in 1..i
      PROVE  ~Refused(t, method, vin[t][j])
    <2>1. j \in DOMAIN vin[t]
        BY KeyImagesType
    <2> QED BY <2>1, KeyImagesType DEF InsertSucceeds
<1>2. ASSUME NEW k \in KeyImage
      PROVE  (\E i \in DOMAIN vin[t] : /\ vin[t][i] = k
                                       /\ \A j \in 1..i : ~Refused(t, method, vin[t][j]))
             <=> k \in KeyImages(t)
    BY <1>1 DEF KeyImages
<1> QED BY <1>2 DEF insert_key_images

\* For a transaction of the pool it changes nothing, however far it gets.
LEMMA InsertAgain ==
    ASSUME Consistent, NEW t \in Pool, NEW method
    PROVE  insert_key_images(t, method) = m_spent_key_images
<1>1. \A k \in KeyImages(t) : k \in KeyImage => t \in m_spent_key_images[k]
    BY DEF Consistent, KeyImagesExact
<1>2. \A k \in KeyImage : (\E i \in DOMAIN vin[t] : vin[t][i] = k) => k \in KeyImages(t)
    BY DEF KeyImages
<1>3. \A k \in KeyImage : (\E i \in DOMAIN vin[t] : vin[t][i] = k)
                             => m_spent_key_images[k] \cup {t} = m_spent_key_images[k]
    BY <1>1, <1>2
<1>4. m_spent_key_images \in [KeyImage -> SUBSET Tx]
    BY DEF Consistent
<1> QED BY <1>3, <1>4 DEF insert_key_images

\* For any other it succeeds, once the check for rivals is passed.
LEMMA InsertNew ==
    ASSUME Consistent, NEW t \in Tx \ Pool, NEW method,
           method = "block" \/ ~have_tx_keyimges_as_spent(t)
    PROVE  InsertSucceeds(t, method)
<1> SUFFICES ASSUME NEW k \in KeyImages(t) PROVE ~Refused(t, method, k)
    BY DEF InsertSucceeds
<1>1. k \in KeyImage
    BY KeyImagesType
<1>2. t \notin m_spent_key_images[k]
    BY <1>1 DEF Consistent, KeyImagesExact
<1>3. method # "block" => m_spent_key_images[k] = {}
    BY <1>2 DEF have_tx_keyimges_as_spent, have_tx_keyimg_as_spent
<1> QED BY <1>2, <1>3 DEF Refused

LEMMA StoredKeeps ==
    ASSUME Consistent, NEW t \in Tx, NEW method \in Method, NEW seen,
           InsertSucceeds(t, method),
           t \in Pool => ~Kept(t),
           Stored(t, method, method, seen)
    PROVE  Consistent' /\ txpool' = [txpool EXCEPT ![t] = method]
<1>1. /\ txpool \in TxpoolTable /\ Pool \subseteq Tx
      /\ m_spent_key_images \in [KeyImage -> SUBSET Tx]
      /\ \A k \in KeyImage : m_spent_key_images[k] = {u \in Pool : k \in KeyImages(u)}
    BY DEF Consistent, Pool, KeyImagesExact
<1>2. txpool' = [txpool EXCEPT ![t] = method]
    BY DEF Stored
<1>3. txpool' \in TxpoolTable
    BY <1>1, <1>2 DEF TxpoolTable
<1>4. method # "absent"
    BY DEF Method, Rank
<1>5. Pool' = Pool \cup {t}
    BY <1>1, <1>2, <1>4 DEF Pool, TxpoolTable
<1>6. double_spend_seen' \subseteq Pool'
    BY <1>5 DEF Stored, Consistent
<1>7. m_spent_key_images' = [k \in KeyImage |-> IF k \in KeyImages(t) THEN m_spent_key_images[k] \cup {t}
                                               ELSE m_spent_key_images[k]]
    BY InsertAll DEF Stored
<1>8. m_spent_key_images' \in [KeyImage -> SUBSET Tx]
    BY <1>1, <1>7
<1>9. KeyImagesExact'
    BY <1>1, <1>5, <1>7 DEF KeyImagesExact, KeyImages
<1>10. AccountingExact'
    <2>1. m_txs_by_fee_and_receive_time' = Pool'
        BY <1>5 DEF Stored, Consistent, AccountingExact
    <2>2. CASE t \in Pool
        BY <1>5, <2>1, <2>2 DEF Stored, Consistent, AccountingExact, Weight
    <2>3. CASE t \notin Pool
        <3>1. Weight(Pool \cup {t}) = Weight(Pool) + Weight({t})
            BY <1>1, <2>3, WeightAdds
        <3>2. m_txpool_weight' = Weight(Pool) + weight[t]
            BY <2>3 DEF Stored, Consistent, AccountingExact
        <3>3. m_txpool_weight' = Weight(Pool')
            BY <1>5, <3>1, <3>2, WeightOfOne
        <3> QED BY <2>1, <3>3 DEF AccountingExact, Weight
    <2> QED BY <2>2, <2>3
<1>11. InitSucceeds(txpool')
    <2> SUFFICES ASSUME NEW u \in Tx, NEW w \in Tx,
                        txpool'[u] \notin {"absent", "block"}, txpool'[w] \notin {"absent", "block"},
                        Rivals(u, w)
                 PROVE  FALSE
        BY DEF InitSucceeds
    <2>1. \A x \in Tx : x # t => txpool'[x] = txpool[x]
        BY <1>1, <1>2 DEF TxpoolTable
    <2>2. t \in Pool => txpool[t] \notin {"absent", "block"}
        BY DEF Pool, Kept
    <2>3. CASE t \in Pool \/ (u # t /\ w # t)
        BY <2>1, <2>2, <2>3 DEF Consistent, InitSucceeds
    <2>4. ASSUME NEW x \in Tx, x # t, txpool'[x] # "absent", Rivals(t, x), t \notin Pool, method # "block"
          PROVE  FALSE
        <3>1. PICK k \in KeyImages(t) : k \in KeyImages(x)
            BY <2>4 DEF Rivals
        <3>2. k \in KeyImage
            BY KeyImagesType
        <3>3. x \in m_spent_key_images[k]
            BY <1>1, <2>1, <2>4, <3>1, <3>2 DEF Pool
        <3>4. Refused(t, method, k)
            BY <2>4, <3>3 DEF Refused
        <3> QED BY <3>4 DEF InsertSucceeds
    <2>5. txpool'[t] = method
        BY <1>1, <1>2 DEF TxpoolTable
    <2>6. CASE t \notin Pool /\ u = t
        BY <2>4, <2>5, <2>6 DEF Rivals
    <2>7. CASE t \notin Pool /\ w = t
        <3>1. Rivals(t, u)
            BY <2>7 DEF Rivals
        <3> QED BY <2>4, <2>5, <2>7, <3>1 DEF Rivals
    <2> QED BY <2>3, <2>6, <2>7
<1> QED BY <1>2, <1>3, <1>6, <1>8, <1>9, <1>10, <1>11 DEF Consistent, InitSucceeds

\* What add_tx may do to the table: nothing, or store t.
OnlyStored(t, method, verified, standard) ==
    /\ \A u \in Tx : u # t => txpool'[u] = txpool[u]
    /\ \/ txpool' = txpool
       \/ /\ ~Screened(t, method, verified, standard)
          /\ txpool'[t] \in Method
          /\ method = "block" => txpool'[t] = "block"
          /\ t \notin Pool => txpool'[t] = method
          /\ t \in Pool => Rank[txpool[t]] < Rank[txpool'[t]]

LEMMA BadInputsKeeps ==
    ASSUME Consistent, NEW t \in Tx, NEW method \in Method, BadInputs(t, method)
    PROVE  /\ Consistent'
           /\ \/ txpool' = txpool
              \/ method = "block" /\ t \notin Pool /\ txpool' = [txpool EXCEPT ![t] = method]
<1>1. CASE method = "block" /\ InsertSucceeds(t, method) /\ t \notin Pool
    <2>1. Stored(t, method, method, have_tx_keyimges_as_spent(t))
        BY <1>1 DEF BadInputs
    <2> QED BY <1>1, <2>1, StoredKeeps
<1>2. CASE method = "block" /\ ~(InsertSucceeds(t, method) /\ t \notin Pool)
    <2>1. Undone(t, method)
        BY <1>2 DEF BadInputs
    <2>2. t \in Pool
        BY <1>2, InsertNew
    <2>3. m_spent_key_images' = m_spent_key_images
        BY <2>1, <2>2, InsertAgain DEF Undone
    <2> QED BY <2>1, <2>3 DEF Undone, NotAdded, Consistent, KeyImagesExact, AccountingExact,
                             InitSucceeds, Pool, Weight
<1>3. CASE method # "block"
    BY <1>3 DEF BadInputs, NotAdded, Consistent, KeyImagesExact, AccountingExact,
                InitSucceeds, Pool, Weight
<1> QED BY <1>1, <1>2, <1>3

\* No relay method outranks "block".
LEMMA BlockRanksHighest == ASSUME NEW method \in Method PROVE ~(Rank["block"] < Rank[method])
<1>1. method \in {"none", "local", "forward", "stem", "fluff", "block"}
    BY DEF Method, Rank
<1>2. Rank["block"] = 5
    BY DEF Rank
<1>3. Rank[method] \in 0..5
    BY <1>1 DEF Rank
<1> QED BY <1>2, <1>3

LEMMA GoodInputsKeeps ==
    ASSUME Consistent, NEW t \in Tx, NEW method \in Method,
           method = "block" \/ ~have_tx_keyimges_as_spent(t) \/ t \in Pool,
           GoodInputs(t, method)
    PROVE  /\ Consistent'
           /\ \/ txpool' = txpool
              \/ /\ txpool' = [txpool EXCEPT ![t] = method]
                 /\ t \in Pool => Rank[txpool[t]] < Rank[method]
<1>1. CASE t \in Pool /\ upgrade_relay_method(txpool[t], method) = txpool[t]
    BY <1>1 DEF GoodInputs, memory, Consistent, KeyImagesExact, AccountingExact,
                InitSucceeds, Pool, Weight
<1>2. ASSUME ~(t \in Pool /\ upgrade_relay_method(txpool[t], method) = txpool[t]), t \in Pool
      PROVE  Rank[txpool[t]] < Rank[method] /\ ~Kept(t)
    <2>1. Rank[txpool[t]] < Rank[method]
        BY <1>2 DEF upgrade_relay_method
    <2>2. txpool[t] # "block"
        BY <2>1, BlockRanksHighest
    <2> QED BY <2>1, <2>2 DEF Kept
<1>3. CASE ~(t \in Pool /\ upgrade_relay_method(txpool[t], method) = txpool[t])
           /\ InsertSucceeds(t, method)
    <2>1. Stored(t, method, method, FALSE)
        BY <1>3 DEF GoodInputs
    <2> QED BY <1>2, <1>3, <2>1, StoredKeeps
<1>4. CASE ~(t \in Pool /\ upgrade_relay_method(txpool[t], method) = txpool[t])
           /\ ~InsertSucceeds(t, method)
    <2>1. Undone(t, method)
        BY <1>4 DEF GoodInputs
    <2>2. t \in Pool
        BY <1>4, InsertNew
    <2>3. m_spent_key_images' = m_spent_key_images
        BY <2>1, <2>2, InsertAgain DEF Undone
    <2> QED BY <2>1, <2>3 DEF Undone, NotAdded, Consistent, KeyImagesExact, AccountingExact,
                             InitSucceeds, Pool, Weight
<1> QED BY <1>1, <1>3, <1>4

\* Every addition keeps the table and the memory together, whichever of the
\* early returns it takes.
LEMMA AddKeeps ==
    ASSUME Consistent, NEW t \in Tx, NEW method \in Method, NEW verified, NEW standard,
           add_tx(t, method, verified, standard)
    PROVE  Consistent' /\ OnlyStored(t, method, verified, standard)
<1>0. txpool \in TxpoolTable /\ Pool \subseteq Tx
    BY DEF Consistent, Pool
<1>1. CASE Screened(t, method, verified, standard)
    BY <1>1 DEF add_tx, NotAdded, Consistent, KeyImagesExact, AccountingExact,
                InitSucceeds, Pool, Weight, OnlyStored
<1>2. CASE ~Screened(t, method, verified, standard) /\ method # "block" /\ have_tx_keyimges_as_spent(t)
    <2>1. /\ mark_double_spend(t) /\ NotAdded /\ UNCHANGED m_spent_key_images
        BY <1>2 DEF add_tx
    <2>2. double_spend_seen' \subseteq Pool
        <3> DEFINE listed == UNION {m_spent_key_images[k] : k \in KeyImages(t)}
        <3>1. double_spend_seen' = double_spend_seen \cup (listed \cap Pool)
            BY <2>1 DEF mark_double_spend
        <3>2. double_spend_seen \subseteq Pool
            BY DEF Consistent
        <3> HIDE DEF listed
        <3> QED BY <3>1, <3>2
    <2> QED BY <2>1, <2>2 DEF NotAdded, Consistent, KeyImagesExact, AccountingExact,
                             InitSucceeds, Pool, Weight, OnlyStored
<1>3. CASE ~Screened(t, method, verified, standard) /\ (method = "block" \/ ~have_tx_keyimges_as_spent(t))
    <2>1. CASE Verdict(t, method)
        <3> DEFINE m2 == Arrival(t, method)
        <3>1. GoodInputs(t, m2)
            BY <1>3, <2>1 DEF add_tx
        <3>2. m2 \in Method /\ (method = "block" => m2 = "block") /\ (t \notin Pool => m2 = method)
            BY DEF Arrival, Method, Rank, Pool
        <3> HIDE DEF m2
        <3>3. /\ Consistent'
              /\ \/ txpool' = txpool
                 \/ /\ txpool' = [txpool EXCEPT ![t] = m2]
                    /\ t \in Pool => Rank[txpool[t]] < Rank[m2]
            BY <1>3, <3>1, <3>2, GoodInputsKeeps
        <3> QED BY <1>0, <1>3, <3>2, <3>3 DEF OnlyStored, TxpoolTable
    <2>2. CASE ~Verdict(t, method)
        <3>1. BadInputs(t, method)
            BY <1>3, <2>2 DEF add_tx
        <3>2. /\ Consistent'
              /\ \/ txpool' = txpool
                 \/ method = "block" /\ t \notin Pool /\ txpool' = [txpool EXCEPT ![t] = method]
            BY <3>1, BadInputsKeeps
        <3> QED BY <1>0, <1>3, <3>2 DEF OnlyStored, TxpoolTable
    <2> QED BY <2>1, <2>2
<1> QED BY <1>1, <1>2, <1>3

-----------------------------------------------------------------------------
(* The inductive invariant *)

Tables == [chain : Seq(SUBSET Tx), txpool : TxpoolTable, seen : SUBSET Tx]

Entries == [txpool : TxpoolTable, seen : SUBSET Tx]

Verdicts == [Tx -> {"unknown", "good", "bad"}]

\* No block whose transactions clash arrives, so no batch is aborted.
NoClash == "clashing_block" \notin Surprises

ControlType ==
    /\ chain \in Seq(SUBSET Tx)
    /\ batch \in {"none", "open", "init"}
    /\ batch_start \in Tables
    /\ m_timed_out_transactions \subseteq Tx
    /\ m_input_cache \in Verdicts
    /\ m_btc \subseteq Tx
    /\ m_btc_valid \in BOOLEAN
    /\ phase \in {"idle", "returning", "popping", "validating", "adding", "restoring"}
    /\ pending \subseteq Tx
    /\ hand \subseteq Tx
    /\ entries \in Entries
    /\ pruning \in BOOLEAN
    /\ started = TRUE

\* The table a crash goes back to is one that init accepts.
StartGood ==
    /\ InitSucceeds(batch_start.txpool)
    /\ batch_start.seen \subseteq PoolOf(batch_start.txpool)

\* What a re-validation holds in its hand is not in the pool until it is
\* added, and then it is there with the relay method it had.
HandGood ==
    /\ phase \notin {"adding", "restoring"} => hand = {}
    /\ phase \in {"validating", "adding", "restoring"} =>
          \A t \in pending \cup hand : entries.txpool[t] \in Method
    /\ phase = "adding" => hand \cap Pool = {}
    /\ phase = "restoring" => \A t \in hand \cap Pool : txpool[t] = entries.txpool[t]

PoolInv == ControlType /\ Consistent /\ StartGood /\ HandGood /\ TimedOutStayOut

LEMMA Unchanged ==
    ASSUME Consistent, UNCHANGED <<txpool, double_spend_seen, memory>>
    PROVE  Consistent' /\ Pool' = Pool
BY DEF memory, Consistent, KeyImagesExact, AccountingExact, InitSucceeds, Pool, Weight

LEMMA AddTypes ==
    ASSUME m_input_cache \in Verdicts, m_btc_valid \in BOOLEAN, pruning \in BOOLEAN,
           NEW t \in Tx, NEW method, NEW verified, NEW standard,
           add_tx(t, method, verified, standard)
    PROVE  m_input_cache' \in Verdicts /\ m_btc_valid' \in BOOLEAN /\ pruning' \in BOOLEAN
<1>1. ASSUME NEW v PROVE BadInputs(t, v) => m_btc_valid' \in BOOLEAN /\ pruning' \in BOOLEAN
    BY DEF BadInputs, Stored, Undone, NotAdded
<1>2. ASSUME NEW v PROVE GoodInputs(t, v) => m_btc_valid' \in BOOLEAN /\ pruning' \in BOOLEAN
    BY DEF GoodInputs, Stored, Undone, NotAdded
<1>3. CacheVerdict(t, method) => m_input_cache' \in Verdicts
    BY DEF CacheVerdict, Verdicts
<1>4. mark_double_spend(t) => m_btc_valid' \in BOOLEAN
    BY DEF mark_double_spend
<1> QED BY <1>1, <1>2, <1>3, <1>4 DEF add_tx, NotAdded

LEMMA NoTables ==
    /\ NoBatch \in Tables /\ NoEntries \in Entries
    /\ InitSucceeds(NoBatch.txpool) /\ NoBatch.seen = {}
<1>1. <<>> \in Seq(SUBSET Tx)
    OBVIOUS
<1>2. [t \in Tx |-> "absent"] \in TxpoolTable
    BY DEF TxpoolTable
<1> QED BY <1>1, <1>2 DEF NoBatch, NoEntries, Tables, Entries, InitSucceeds

LEMMA PoolInvInit == Init => PoolInv
<1> SUFFICES ASSUME Init PROVE PoolInv
    OBVIOUS
<1>1. txpool \in TxpoolTable /\ Pool = {}
    BY DEF Init, TxpoolTable, Pool
<1>2. Weight({}) = 0
    <2>1. UnitsOf({}) = {}
        BY DEF UnitsOf
    <2> QED BY <2>1, WeightIs, FS_EmptySet
<1>3. Consistent
    BY <1>1, <1>2 DEF Init, Consistent, KeyImagesExact, AccountingExact, InitSucceeds
<1>4. ControlType
    <2>1. chain \in Seq(SUBSET Tx)
        BY DEF Init
    <2>2. m_input_cache \in Verdicts
        BY DEF Init, Verdicts
    <2> QED BY <2>1, <2>2, NoTables DEF Init, ControlType
<1>5. StartGood
    BY NoTables DEF Init, StartGood
<1> QED BY <1>3, <1>4, <1>5 DEF Init, PoolInv, HandGood, TimedOutStayOut

\* An addition brings no transaction back that timed out, unless a block does.
LEMMA AddKeepsTimedOut ==
    ASSUME txpool \in TxpoolTable, TimedOutStayOut, UNCHANGED m_timed_out_transactions,
           NEW t \in Tx, NEW method, NEW verified, NEW standard,
           OnlyStored(t, method, verified, standard)
    PROVE  TimedOutStayOut'
<1> SUFFICES ASSUME NEW u \in m_timed_out_transactions, u \in Tx, txpool'[u] # "absent"
             PROVE  txpool'[u] = "block"
    BY DEF TimedOutStayOut, Kept, Pool
<1>1. CASE txpool'[u] = txpool[u]
    BY <1>1 DEF TimedOutStayOut, Kept, Pool
<1>2. CASE txpool'[u] # txpool[u]
    <2>1. u = t /\ ~Screened(t, method, verified, standard)
        BY <1>2 DEF OnlyStored
    <2>2. method = "block"
        BY <2>1 DEF Screened
    <2> QED BY <1>2, <2>1, <2>2 DEF OnlyStored
<1> QED BY <1>1, <1>2

LEMMA RemoveKeepsTimedOut ==
    ASSUME Consistent, NEW S \in SUBSET Pool, Remove(S), TimedOutStayOut,
           m_timed_out_transactions' \subseteq m_timed_out_transactions \cup S
    PROVE  TimedOutStayOut'
<1>1. \A t \in Tx : txpool'[t] = IF t \in S THEN "absent" ELSE txpool[t]
    BY RemoveKeeps
<1> QED BY <1>1 DEF TimedOutStayOut, Kept, Pool

\* The handlers outside block handling.
LEMMA HandlersKeep ==
    ASSUME PoolInv
    PROVE  /\ \A t \in Tx, method \in RelayMethods, standard \in BOOLEAN :
                 Submit(t, method, standard) => PoolInv'
           /\ \A t \in Tx, method \in RelayMethods : set_relayed(t, method) => PoolInv'
           /\ \A S \in SUBSET Tx : remove_stuck_transactions(S) => PoolInv'
           /\ \A t \in Tx : flush_txes_from_pool(t) => PoolInv'
           /\ \A considered, chosen \in SUBSET Tx : create_block_template(considered, chosen) => PoolInv'
           /\ Prune => PoolInv'
<1> USE DEF PoolInv
<1>0. RelayMethods \subseteq Method
    BY Parameters
<1>1. ASSUME NEW t \in Tx, NEW method \in RelayMethods, NEW standard \in BOOLEAN,
             Submit(t, method, standard)
      PROVE  PoolInv'
    <2>1. add_tx(t, method, FALSE, standard)
        BY <1>1 DEF Submit
    <2>2. Consistent' /\ OnlyStored(t, method, FALSE, standard)
        BY <1>0, <2>1, AddKeeps
    <2>3. UNCHANGED <<chain, batch, batch_start, m_btc, m_timed_out_transactions, control, started>>
          /\ phase = "idle"
        BY <1>1 DEF Submit, Unlocked, Idle
    <2>4. ControlType'
        BY <2>1, <2>3, AddTypes DEF ControlType, control
    <2>5. TimedOutStayOut'
        BY <2>2, <2>3, AddKeepsTimedOut DEF Consistent
    <2> QED BY <2>2, <2>3, <2>4, <2>5 DEF StartGood, HandGood, InitSucceeds, control
<1>2. ASSUME NEW t \in Tx, NEW method \in RelayMethods, set_relayed(t, method)
      PROVE  PoolInv'
    <2>1. /\ t \in Pool /\ phase = "idle"
          /\ txpool' = [txpool EXCEPT ![t] = upgrade_relay_method(@, method)]
          /\ UNCHANGED <<chain, double_spend_seen, batch, batch_start, memory, caches,
                         m_timed_out_transactions, control, pruning, started>>
        BY <1>2 DEF set_relayed, Unlocked, Idle
    <2>2. method \in Method /\ method # "block"
        BY <1>0, Parameters
    <2>3. txpool \in TxpoolTable /\ txpool[t] \in Method
        BY <2>1 DEF Consistent, TxpoolTable, Pool
    <2>4. /\ upgrade_relay_method(txpool[t], method) \in Method
          /\ upgrade_relay_method(txpool[t], method) = "block" <=> txpool[t] = "block"
        BY <2>2, <2>3 DEF upgrade_relay_method, Rank, Method
    <2>5. txpool' \in TxpoolTable
        BY <2>1, <2>3, <2>4 DEF TxpoolTable
    <2>6. \A u \in Tx : /\ txpool'[u] = "absent" <=> txpool[u] = "absent"
                        /\ txpool'[u] = "block" <=> txpool[u] = "block"
        BY <2>1, <2>3, <2>4 DEF TxpoolTable, Method, Rank
    <2>7. Pool' = Pool /\ InitSucceeds(txpool')
        BY <2>6 DEF Pool, Consistent, InitSucceeds
    <2>8. Consistent'
        BY <2>1, <2>5, <2>7 DEF memory, Consistent, KeyImagesExact, AccountingExact, InitSucceeds, Weight
    <2>9. TimedOutStayOut'
        BY <2>1, <2>6, <2>7 DEF TimedOutStayOut, Kept, Pool
    <2>10. ControlType'
        BY <2>1 DEF ControlType, control, caches
    <2> QED BY <2>1, <2>8, <2>9, <2>10 DEF StartGood, HandGood, InitSucceeds, control
<1>3. ASSUME NEW S \in SUBSET Tx, remove_stuck_transactions(S)
      PROVE  PoolInv'
    <2>1. /\ S \in SUBSET Pool /\ Remove(S) /\ phase = "idle"
          /\ m_timed_out_transactions' = m_timed_out_transactions \cup S
          /\ UNCHANGED <<chain, batch, batch_start, m_input_cache, m_btc, control, pruning, started>>
        BY <1>3 DEF remove_stuck_transactions, Unlocked, Idle
    <2>2. Consistent'
        BY <2>1, RemoveKeeps
    <2>3. TimedOutStayOut'
        BY <2>1, RemoveKeepsTimedOut
    <2>4. ControlType'
        BY <2>1 DEF ControlType, control, Remove
    <2> QED BY <2>1, <2>2, <2>3, <2>4 DEF StartGood, HandGood, InitSucceeds, control
<1>4. ASSUME NEW t \in Tx, flush_txes_from_pool(t)
      PROVE  PoolInv'
    <2>1. /\ {t} \in SUBSET Pool /\ Remove({t}) /\ phase = "idle"
          /\ UNCHANGED <<chain, batch, batch_start, m_input_cache, m_btc,
                         m_timed_out_transactions, control, pruning, started>>
        BY <1>4 DEF flush_txes_from_pool, Unlocked, Idle
    <2>2. Consistent'
        BY <2>1, RemoveKeeps
    <2>3. TimedOutStayOut'
        BY <2>1, RemoveKeepsTimedOut
    <2>4. ControlType'
        BY <2>1 DEF ControlType, control, Remove
    <2> QED BY <2>1, <2>2, <2>3, <2>4 DEF StartGood, HandGood, InitSucceeds, control
<1>5. ASSUME NEW considered \in SUBSET Tx, NEW chosen \in SUBSET Tx,
             create_block_template(considered, chosen)
      PROVE  PoolInv'
    <2>1. /\ UNCHANGED <<db, batch, batch_start, memory, m_timed_out_transactions,
                         control, pruning, started>>
          /\ m_btc' = chosen /\ m_btc_valid' = TRUE
        BY <1>5 DEF create_block_template
    <2>2. m_input_cache' \in Verdicts
        BY <1>5 DEF create_block_template, Verdicts, ControlType
    <2>3. Consistent' /\ Pool' = Pool
        BY <2>1, Unchanged DEF db
    <2>4. ControlType'
        BY <2>1, <2>2 DEF ControlType, db, control
    <2> QED BY <2>1, <2>3, <2>4 DEF StartGood, HandGood, InitSucceeds, TimedOutStayOut, Kept, db, control
<1>6. ASSUME Prune PROVE PoolInv'
    <2>1. PICK S \in SUBSET Pool : Remove(S)
        <3>1. CASE m_txs_by_fee_and_receive_time = {}
            BY <1>6, <3>1 DEF Prune
        <3>2. CASE m_txs_by_fee_and_receive_time # {}
            BY <1>6, <3>2 DEF Prune, Prunable
        <3> QED BY <3>1, <3>2
    <2>2. /\ pruning' = FALSE
          /\ UNCHANGED <<chain, batch, batch_start, m_input_cache, m_btc,
                         m_timed_out_transactions, control, started>>
        BY <1>6 DEF Prune
    <2>3. /\ Consistent' /\ Pool' = Pool \ S
          /\ \A t \in Tx : txpool'[t] = IF t \in S THEN "absent" ELSE txpool[t]
        BY <2>1, RemoveKeeps
    <2>4. TimedOutStayOut'
        BY <2>1, <2>2, RemoveKeepsTimedOut
    <2>5. ControlType'
        BY <2>1, <2>2 DEF ControlType, control, Remove
    <2>6. HandGood'
        BY <2>2, <2>3 DEF HandGood, control, Pool
    <2> QED BY <2>2, <2>3, <2>4, <2>5, <2>6 DEF StartGood, InitSucceeds, control
<1> QED BY <1>1, <1>2, <1>3, <1>4, <1>5, <1>6

LEMMA ValidatingStarts ==
    ASSUME Consistent', Validating(txpool', double_spend_seen'), hand = {}
    PROVE  /\ phase' = "validating" /\ pending' \subseteq Tx /\ hand' = {}
           /\ entries' \in Entries
           /\ \A t \in pending' \cup hand' : entries'.txpool[t] \in Method
<1>1. txpool' \in TxpoolTable /\ double_spend_seen' \subseteq Tx
    BY DEF Consistent, Pool
<1>2. entries' = [txpool |-> txpool', seen |-> double_spend_seen']
      /\ pending' = {t \in Tx : txpool'[t] # "absent"} /\ phase' = "validating" /\ hand' = hand
    BY DEF Validating
<1>3. entries'.txpool = txpool'
    BY <1>2
<1>4. \A t \in pending' : txpool'[t] \in Method
    BY <1>1, <1>2 DEF TxpoolTable
<1> QED BY <1>1, <1>2, <1>3, <1>4 DEF Entries

\* The handlers of blocks, up to the re-validation.
LEMMA BlocksKeep ==
    ASSUME PoolInv, NoClash
    PROVE  /\ prepare_handle_incoming_blocks => PoolInv'
           /\ \A block \in SUBSET Tx : ConnectBlock(block) => PoolInv'
           /\ \A block, taken \in SUBSET Tx : RefuseBlock(block, taken) => PoolInv'
           /\ \A t \in Tx : AlternativeBlockTx(t) => PoolInv'
           /\ PopBlock => PoolInv'
           /\ \A t \in Tx : ReturnTx(t) => PoolInv'
           /\ FinishReturn => PoolInv'
           /\ FinishPop => PoolInv'
           /\ cleanup_handle_incoming_blocks => PoolInv'
<1> USE DEF PoolInv
<1>0. "block" \in Method
    BY DEF Method, Rank
<1>1. ASSUME prepare_handle_incoming_blocks PROVE PoolInv'
    <2>1. /\ batch' = "open" /\ phase = "idle"
          /\ batch_start' = [chain |-> chain, txpool |-> txpool, seen |-> double_spend_seen]
          /\ UNCHANGED <<db, memory, caches, m_timed_out_transactions, control, pruning, started>>
        BY <1>1 DEF prepare_handle_incoming_blocks, Unlocked, Idle
    <2>2. Consistent' /\ Pool' = Pool
        BY <2>1, Unchanged DEF db
    <2>3. /\ batch_start'.txpool = txpool /\ batch_start'.seen = double_spend_seen
          /\ batch_start' \in Tables
        BY <2>1 DEF Tables, ControlType, Consistent, Pool
    <2>4. StartGood'
        BY <2>3 DEF StartGood, Consistent, InitSucceeds, PoolOf, Pool
    <2>5. ControlType'
        BY <2>1, <2>3 DEF ControlType, db, caches, control
    <2> QED BY <2>1, <2>2, <2>4, <2>5 DEF HandGood, TimedOutStayOut, Kept, db, control
<1>2. ASSUME NEW block \in SUBSET Tx, ConnectBlock(block) PROVE PoolInv'
    <2>1. /\ block \cap Pool \in SUBSET Pool /\ Remove(block \cap Pool)
          /\ chain' = Append(chain, block)
          /\ m_input_cache' = [t \in Tx |-> "unknown"]
          /\ UNCHANGED <<batch, batch_start, m_btc, m_timed_out_transactions, pruning, started>>
          /\ phase = "idle"
        BY <1>2 DEF ConnectBlock, InBatch, Idle
    <2>2. Consistent'
        BY <2>1, RemoveKeeps
    <2>3. TimedOutStayOut'
        BY <2>1, RemoveKeepsTimedOut
    <2>4. chain' \in Seq(SUBSET Tx) /\ m_input_cache' \in Verdicts /\ m_btc_valid' = FALSE
        BY <2>1 DEF ControlType, Verdicts, Remove
    <2>5. StartGood'
        BY <2>1 DEF StartGood, InitSucceeds
    <2>6. CASE UNCHANGED control
        BY <2>1, <2>2, <2>3, <2>4, <2>5, <2>6 DEF ControlType, HandGood, control
    <2>7. CASE Validating(txpool', double_spend_seen')
        <3>1. /\ phase' = "validating" /\ pending' \subseteq Tx /\ hand' = {}
              /\ entries' \in Entries
              /\ \A t \in pending' \cup hand' : entries'.txpool[t] \in Method
            BY <2>1, <2>2, <2>7, ValidatingStarts DEF HandGood
        <3>2. ControlType'
            BY <2>1, <2>4, <3>1 DEF ControlType
        <3> QED BY <2>2, <2>3, <2>5, <3>1, <3>2 DEF HandGood
    <2> QED BY <1>2, <2>6, <2>7 DEF ConnectBlock
<1>3. ASSUME NEW block \in SUBSET Tx, NEW taken \in SUBSET Tx, RefuseBlock(block, taken)
      PROVE  PoolInv'
    <2>1. /\ taken \in SUBSET Pool /\ Remove(taken) /\ phase = "idle"
          /\ batch' = batch /\ phase' = "returning" /\ pending' = taken
          /\ UNCHANGED <<chain, batch_start, m_input_cache, m_btc, hand, entries,
                         m_timed_out_transactions, pruning, started>>
        BY <1>3 DEF RefuseBlock, NoClash, InBatch, Idle
    <2>2. Consistent'
        BY <2>1, RemoveKeeps
    <2>3. TimedOutStayOut'
        BY <2>1, RemoveKeepsTimedOut
    <2>4. ControlType'
        BY <2>1 DEF ControlType, Remove
    <2> QED BY <2>1, <2>2, <2>3, <2>4 DEF StartGood, InitSucceeds, HandGood
<1>4. ASSUME NEW t \in Tx, AlternativeBlockTx(t) PROVE PoolInv'
    <2>1. /\ add_tx(t, "block", TRUE, TRUE) /\ phase = "idle"
          /\ UNCHANGED <<chain, batch, batch_start, m_btc, m_timed_out_transactions, control, started>>
        BY <1>4 DEF AlternativeBlockTx, InBatch, Idle
    <2>2. Consistent' /\ OnlyStored(t, "block", TRUE, TRUE)
        BY <1>0, <2>1, AddKeeps
    <2>3. TimedOutStayOut'
        BY <2>1, <2>2, AddKeepsTimedOut DEF Consistent
    <2>4. ControlType'
        BY <2>1, AddTypes DEF ControlType, control
    <2> QED BY <2>1, <2>2, <2>3, <2>4 DEF StartGood, InitSucceeds, HandGood, control
<1>5. ASSUME PopBlock PROVE PoolInv'
    <2>1. /\ chain # <<>> /\ chain' = SubSeq(chain, 1, Len(chain) - 1) /\ phase = "idle"
          /\ phase' = "popping" /\ pending' = chain[Len(chain)] /\ m_btc_valid' = FALSE
          /\ UNCHANGED <<txpool, double_spend_seen, batch, batch_start, memory, m_input_cache, m_btc,
                         hand, entries, m_timed_out_transactions, pruning, started>>
        BY <1>5 DEF PopBlock, InBatch, Idle
    <2>2. Consistent' /\ Pool' = Pool
        BY <2>1, Unchanged
    <2>3. chain \in Seq(SUBSET Tx)
        BY DEF ControlType
    <2>4. Len(chain) \in Nat /\ Len(chain) # 0 /\ chain \in [1..Len(chain) -> SUBSET Tx]
        BY <2>1, <2>3, LenProperties, EmptySeq
    <2>5. chain[Len(chain)] \subseteq Tx
        BY <2>4
    <2>6. 1 \in Int /\ Len(chain) - 1 \in Int
        BY <2>4
    <2>7. chain' \in Seq(SUBSET Tx)
        BY <2>1, <2>3, <2>4, <2>6, SubSeqProperties
    <2>8. ControlType'
        BY <2>1, <2>5, <2>7 DEF ControlType
    <2> QED BY <2>1, <2>2, <2>8 DEF StartGood, InitSucceeds, HandGood, TimedOutStayOut, Kept
<1>6. ASSUME NEW t \in Tx, ReturnTx(t) PROVE PoolInv'
    <2>1. /\ add_tx(t, "block", TRUE, TRUE) /\ phase \in {"returning", "popping"}
          /\ pending' = pending \ {t}
          /\ UNCHANGED <<chain, batch, batch_start, m_btc, m_timed_out_transactions, phase, hand,
                         entries, started>>
        BY <1>6 DEF ReturnTx
    <2>2. Consistent' /\ OnlyStored(t, "block", TRUE, TRUE)
        BY <1>0, <2>1, AddKeeps
    <2>3. TimedOutStayOut'
        BY <2>1, <2>2, AddKeepsTimedOut DEF Consistent
    <2>4. ControlType'
        BY <2>1, AddTypes DEF ControlType
    <2> QED BY <2>1, <2>2, <2>3, <2>4 DEF StartGood, InitSucceeds, HandGood
<1>7. ASSUME FinishReturn PROVE PoolInv'
    <2>1. /\ phase' = "idle" /\ phase = "returning"
          /\ UNCHANGED <<db, batch, batch_start, memory, caches, m_timed_out_transactions,
                         pending, hand, entries, pruning, started>>
        BY <1>7 DEF FinishReturn
    <2>2. Consistent' /\ Pool' = Pool
        BY <2>1, Unchanged DEF db
    <2>3. ControlType'
        BY <2>1 DEF ControlType, db, caches
    <2> QED BY <2>1, <2>2, <2>3 DEF StartGood, InitSucceeds, HandGood, TimedOutStayOut, Kept, db
<1>8. ASSUME FinishPop PROVE PoolInv'
    <2>1. /\ m_input_cache' = [t \in Tx |-> "unknown"] /\ m_btc_valid' = FALSE
          /\ UNCHANGED <<db, batch, batch_start, memory, m_btc, m_timed_out_transactions,
                         pruning, started>>
          /\ phase = "popping"
        BY <1>8 DEF FinishPop, ForgetVerdicts
    <2>2. Consistent' /\ Pool' = Pool
        BY <2>1, Unchanged DEF db
    <2>3. m_input_cache' \in Verdicts
        BY <2>1 DEF Verdicts
    <2>4. StartGood' /\ TimedOutStayOut'
        BY <2>1, <2>2 DEF StartGood, InitSucceeds, TimedOutStayOut, Kept, db
    <2>5. CASE phase' = "idle" /\ UNCHANGED <<pending, hand, entries>>
        <3>1. ControlType'
            BY <2>1, <2>3, <2>5 DEF ControlType, db
        <3> QED BY <2>1, <2>2, <2>4, <2>5, <3>1 DEF HandGood
    <2>6. CASE Validating(txpool, double_spend_seen)
        <3>1. Validating(txpool', double_spend_seen')
            BY <2>1, <2>6 DEF db, Validating
        <3>2. /\ phase' = "validating" /\ pending' \subseteq Tx /\ hand' = {}
              /\ entries' \in Entries
              /\ \A t \in pending' \cup hand' : entries'.txpool[t] \in Method
            BY <2>1, <2>2, <3>1, ValidatingStarts DEF HandGood
        <3>3. ControlType'
            BY <2>1, <2>3, <3>2 DEF ControlType, db
        <3> QED BY <2>2, <2>4, <3>2, <3>3 DEF HandGood
    <2> QED BY <1>8, <2>5, <2>6 DEF FinishPop
<1>9. ASSUME cleanup_handle_incoming_blocks PROVE PoolInv'
    <2>1. /\ UNCHANGED db /\ batch' = "none" /\ batch_start' = NoBatch /\ phase = "idle"
          /\ UNCHANGED <<memory, caches, m_timed_out_transactions, control, pruning, started>>
        BY <1>9 DEF cleanup_handle_incoming_blocks, ControlType, Idle
    <2>2. Consistent' /\ Pool' = Pool
        BY <2>1, Unchanged DEF db
    <2>3. ControlType'
        BY <2>1, NoTables DEF ControlType, db, caches, control
    <2>4. StartGood'
        BY <2>1, NoTables DEF StartGood, InitSucceeds
    <2> QED BY <2>1, <2>2, <2>3, <2>4 DEF HandGood, TimedOutStayOut, Kept, db, control
<1> QED BY <1>1, <1>2, <1>3, <1>4, <1>5, <1>6, <1>7, <1>8, <1>9

\* The re-validation, and the restart.
LEMMA ValidateKeeps ==
    ASSUME PoolInv
    PROVE  /\ \A t \in Tx : ValidateTake(t) => PoolInv'
           /\ \A t \in Tx, standard \in BOOLEAN : ValidateAdd(t, standard) => PoolInv'
           /\ \A t \in Tx : ValidateRestore(t) => PoolInv'
           /\ FinishValidation => PoolInv'
<1> USE DEF PoolInv
<1>1. ASSUME NEW t \in Tx, ValidateTake(t) PROVE PoolInv'
    <2>1. /\ phase = "validating" /\ t \in pending /\ pending' = pending \ {t}
          /\ UNCHANGED <<chain, batch, batch_start, m_input_cache, m_btc, entries,
                         m_timed_out_transactions, pruning, started>>
        BY <1>1 DEF ValidateTake
    <2>2. CASE t \in Pool
        <3>1. {t} \in SUBSET Pool /\ Remove({t}) /\ phase' = "adding" /\ hand' = {t}
            BY <1>1, <2>2 DEF ValidateTake
        <3>2. Consistent' /\ Pool' = Pool \ {t}
            BY <3>1, RemoveKeeps
        <3>3. TimedOutStayOut'
            BY <2>1, <3>1, RemoveKeepsTimedOut
        <3>4. ControlType'
            BY <2>1, <3>1 DEF ControlType, Remove
        <3>5. HandGood'
            BY <2>1, <3>1, <3>2 DEF HandGood
        <3> QED BY <2>1, <3>2, <3>3, <3>4, <3>5 DEF StartGood, InitSucceeds
    <2>3. CASE t \notin Pool
        <3>1. UNCHANGED <<txpool, double_spend_seen, memory, m_btc_valid, phase, hand>>
            BY <1>1, <2>3 DEF ValidateTake
        <3>2. Consistent' /\ Pool' = Pool
            BY <3>1, Unchanged
        <3>3. ControlType'
            BY <2>1, <3>1 DEF ControlType
        <3>4. HandGood'
            BY <2>1, <3>1, <3>2 DEF HandGood
        <3> QED BY <2>1, <3>1, <3>2, <3>3, <3>4 DEF StartGood, InitSucceeds, TimedOutStayOut, Kept
    <2> QED BY <2>2, <2>3
<1>2. ASSUME NEW t \in Tx, NEW standard \in BOOLEAN, ValidateAdd(t, standard) PROVE PoolInv'
    <2> DEFINE method == entries.txpool[t]
    <2>1. /\ phase = "adding" /\ hand = {t} /\ add_tx(t, method, FALSE, standard)
          /\ UNCHANGED <<chain, batch, batch_start, m_btc, m_timed_out_transactions, pending, entries,
                         started>>
          /\ \/ phase' = "restoring" /\ hand' = hand
             \/ phase' = "validating" /\ hand' = {}
        BY <1>2 DEF ValidateAdd
    <2>2. method \in Method /\ t \notin Pool
        BY <2>1 DEF HandGood
    <2>3. Consistent' /\ OnlyStored(t, method, FALSE, standard)
        <3> HIDE DEF method
        <3> QED BY <2>1, <2>2, AddKeeps
    <2>4. TimedOutStayOut'
        <3> HIDE DEF method
        <3> QED BY <2>1, <2>3, AddKeepsTimedOut DEF Consistent
    <2>5. ControlType'
        BY <2>1, AddTypes DEF ControlType
    <2>6. txpool'[t] # "absent" => txpool'[t] = method
        BY <2>2, <2>3 DEF OnlyStored, Pool
    <2>7. HandGood'
        <3>1. CASE phase' = "restoring" /\ hand' = hand
            BY <2>1, <2>6, <3>1 DEF HandGood, Pool
        <3>2. CASE phase' = "validating" /\ hand' = {}
            BY <2>1, <3>2 DEF HandGood
        <3> QED BY <2>1, <3>1, <3>2
    <2> QED BY <2>1, <2>3, <2>4, <2>5, <2>7 DEF StartGood, InitSucceeds
<1>3. ASSUME NEW t \in Tx, ValidateRestore(t) PROVE PoolInv'
    <2>1. /\ phase = "restoring" /\ hand = {t} /\ phase' = "validating" /\ hand' = {}
          /\ UNCHANGED <<chain, batch, batch_start, memory, caches, m_timed_out_transactions,
                         pending, entries, pruning, started>>
        BY <1>3 DEF ValidateRestore
    <2>2. txpool' = txpool /\ double_spend_seen' \subseteq Pool
        <3>1. CASE t \in Pool
            <4>1. txpool[t] = entries.txpool[t]
                BY <2>1, <3>1 DEF HandGood
            <4>2. /\ txpool' = [txpool EXCEPT ![t] = entries.txpool[t]]
                  /\ double_spend_seen' = (double_spend_seen \ {t}) \cup ({t} \cap entries.seen)
                BY <1>3, <3>1 DEF ValidateRestore
            <4>3. txpool \in TxpoolTable /\ double_spend_seen \subseteq Pool
                BY DEF Consistent
            <4> QED BY <3>1, <4>1, <4>2, <4>3 DEF TxpoolTable
        <3>2. CASE t \notin Pool
            BY <1>3, <3>2 DEF ValidateRestore, Consistent
        <3> QED BY <3>1, <3>2
    <2>3. Consistent' /\ Pool' = Pool
        BY <2>1, <2>2 DEF memory, Consistent, KeyImagesExact, AccountingExact, InitSucceeds, Pool, Weight
    <2>4. ControlType'
        BY <2>1 DEF ControlType, caches
    <2>5. HandGood'
        BY <2>1 DEF HandGood
    <2> QED BY <2>1, <2>2, <2>3, <2>4, <2>5 DEF StartGood, InitSucceeds, TimedOutStayOut, Kept
<1>4. ASSUME FinishValidation PROVE PoolInv'
    <2>1. /\ phase = "validating" /\ phase' = "idle" /\ entries' = NoEntries
          /\ \/ batch' = "none" /\ batch_start' = NoBatch
             \/ batch' = batch /\ batch_start' = batch_start
          /\ UNCHANGED <<db, memory, caches, m_timed_out_transactions, pending, hand, pruning, started>>
        BY <1>4 DEF FinishValidation
    <2>2. Consistent' /\ Pool' = Pool
        BY <2>1, Unchanged DEF db
    <2>3. ControlType'
        BY <2>1, NoTables DEF ControlType, db, caches
    <2>4. StartGood'
        <3>1. CASE batch_start' = NoBatch
            BY <3>1, NoTables DEF StartGood, InitSucceeds
        <3>2. CASE batch_start' = batch_start
            BY <3>2 DEF StartGood, InitSucceeds
        <3> QED BY <2>1, <3>1, <3>2
    <2>5. HandGood'
        BY <2>1 DEF HandGood
    <2> QED BY <2>1, <2>2, <2>3, <2>4, <2>5 DEF TimedOutStayOut, Kept, db
<1> QED BY <1>1, <1>2, <1>3, <1>4

\* Whenever the node stops, init finds a table it accepts and builds the
\* memory that belongs to it.
LEMMA RestartKeeps == PoolInv /\ Restart => PoolInv'
<1> SUFFICES ASSUME PoolInv, Restart PROVE PoolInv'
    OBVIOUS
<1> DEFINE d == IF batch = "none"
                THEN [chain |-> chain, txpool |-> txpool, seen |-> double_spend_seen]
                ELSE batch_start
           stored == PoolOf(d.txpool)
<1>1. /\ d \in Tables /\ d.seen \subseteq stored /\ InitSucceeds(d.txpool)
    <2>1. CASE batch = "none"
        <3>1. d.txpool = txpool /\ d.seen = double_spend_seen /\ d.chain = chain
            BY <2>1
        <3>2. d \in Tables
            BY <2>1 DEF PoolInv, ControlType, Consistent, Tables, Pool
        <3> QED BY <3>1, <3>2 DEF PoolInv, Consistent, PoolOf, Pool
    <2>2. CASE batch # "none"
        BY <2>2 DEF PoolInv, ControlType, StartGood
    <2> QED BY <2>1, <2>2
<1>2. /\ chain' = d.chain /\ txpool' = d.txpool /\ double_spend_seen' = d.seen
      /\ m_spent_key_images' = [k \in KeyImage |-> {t \in stored : k \in KeyImages(t)}]
      /\ m_txpool_weight' = Weight(stored)
      /\ m_txs_by_fee_and_receive_time' = stored
      /\ m_timed_out_transactions' = {}
      /\ m_btc' = {} /\ m_btc_valid' = FALSE
      /\ m_input_cache' = [t \in Tx |-> "unknown"]
      /\ pruning' = FALSE /\ hand' = {}
      /\ started' = InitSucceeds(d.txpool)
    BY DEF Restart, ForgetVerdicts, PoolOf
<1>3. \/ /\ phase' = "validating" /\ pending' = stored /\ batch' = "init" /\ batch_start' = d
         /\ entries' = [txpool |-> d.txpool, seen |-> d.seen]
      \/ phase' = "idle" /\ pending' = {} /\ batch' = "none" /\ batch_start' = NoBatch /\ entries' = NoEntries
    BY DEF Restart, PoolOf
<1> HIDE DEF d
<1>4. d.chain \in Seq(SUBSET Tx) /\ d.txpool \in TxpoolTable /\ d.seen \in SUBSET Tx
    BY <1>1 DEF Tables
<1>5. Pool' = stored /\ stored \subseteq Tx
    BY <1>2 DEF Pool, PoolOf
<1>6. Consistent'
    <2>1. txpool' \in TxpoolTable /\ double_spend_seen' \subseteq Pool'
        BY <1>1, <1>2, <1>4, <1>5
    <2>2. m_spent_key_images' \in [KeyImage -> SUBSET Tx]
        BY <1>2, <1>5
    <2>3. KeyImagesExact'
        BY <1>2, <1>5 DEF KeyImagesExact, KeyImages
    <2>4. AccountingExact'
        BY <1>2, <1>5 DEF AccountingExact, Weight
    <2>5. InitSucceeds(txpool)'
        BY <1>1, <1>2 DEF InitSucceeds
    <2> QED BY <2>1, <2>2, <2>3, <2>4, <2>5 DEF Consistent
<1>7. StartGood'
    <2>1. CASE batch_start' = d
        BY <1>1, <2>1 DEF StartGood, InitSucceeds
    <2>2. CASE batch_start' = NoBatch
        BY <2>2, NoTables DEF StartGood, InitSucceeds
    <2> QED BY <1>3, <2>1, <2>2
<1>8. m_input_cache' \in Verdicts
    BY <1>2 DEF Verdicts
<1>9. entries' \in Entries
    <2>1. CASE entries' = NoEntries
        BY <2>1, NoTables
    <2>2. CASE entries' = [txpool |-> d.txpool, seen |-> d.seen]
        BY <1>4, <2>2 DEF Entries
    <2> QED BY <1>3, <2>1, <2>2
<1>10. ControlType'
    <2>1. started' = TRUE
        BY <1>1, <1>2
    <2>2. batch_start' \in Tables /\ batch' \in {"none", "open", "init"}
        BY <1>1, <1>3, NoTables
    <2>3. /\ phase' \in {"idle", "returning", "popping", "validating", "adding", "restoring"}
          /\ pending' \subseteq Tx
        BY <1>3, <1>5
    <2>4. /\ chain' \in Seq(SUBSET Tx) /\ m_timed_out_transactions' \subseteq Tx /\ m_btc' \subseteq Tx
          /\ m_btc_valid' \in BOOLEAN /\ hand' \subseteq Tx /\ pruning' \in BOOLEAN
        BY <1>2, <1>4
    <2> QED BY <1>8, <1>9, <2>1, <2>2, <2>3, <2>4 DEF ControlType
<1>11. HandGood'
    <2>1. \A t \in stored : d.txpool[t] \in Method
        BY <1>4 DEF PoolOf, TxpoolTable
    <2>2. CASE phase' = "idle"
        BY <1>2, <2>2 DEF HandGood
    <2>3. CASE phase' = "validating" /\ pending' = stored /\ entries' = [txpool |-> d.txpool, seen |-> d.seen]
        <3>1. entries'.txpool = d.txpool /\ pending' \cup hand' = stored
            BY <1>2, <2>3
        <3>2. \A t \in pending' \cup hand' : entries'.txpool[t] \in Method
            BY <2>1, <3>1
        <3> QED BY <1>2, <2>3, <3>2 DEF HandGood
    <2> QED BY <1>3, <2>2, <2>3
<1> QED BY <1>2, <1>6, <1>7, <1>10, <1>11 DEF PoolInv, TimedOutStayOut

LEMMA PoolInvNext == NoClash /\ PoolInv /\ [Next]_vars => PoolInv'
<1> SUFFICES ASSUME NoClash, PoolInv, [Next]_vars PROVE PoolInv'
    OBVIOUS
<1>1. CASE Next
    BY <1>1, HandlersKeep, BlocksKeep, ValidateKeeps, RestartKeeps DEF Next
<1>2. CASE UNCHANGED vars
    <2>1. UNCHANGED <<txpool, double_spend_seen, memory>>
        BY <1>2 DEF vars, db
    <2>2. Consistent' /\ Pool' = Pool
        BY <2>1, Unchanged DEF PoolInv
    <2> QED BY <1>2, <2>2 DEF vars, db, caches, control, PoolInv, ControlType, StartGood,
                 InitSucceeds, HandGood, TimedOutStayOut, Kept
<1> QED BY <1>1, <1>2

-----------------------------------------------------------------------------
(* Theorems *)

LEMMA PoolInvAlways == NoClash => (Spec => []PoolInv)
<1> SUFFICES ASSUME NoClash PROVE Spec => []PoolInv
    OBVIOUS
<1>1. PoolInv /\ [Next]_vars => PoolInv'
    BY PoolInvNext
<1> QED BY <1>1, PoolInvInit, PTL DEF Spec

LEMMA PoolInvImplies ==
    PoolInv => TypeOK /\ KeyImagesExact /\ AccountingExact /\ OneRelayedSpender
                 /\ AlwaysStarts /\ TimedOutStayOut
<1> SUFFICES ASSUME PoolInv
             PROVE  TypeOK /\ KeyImagesExact /\ AccountingExact /\ OneRelayedSpender
                      /\ AlwaysStarts /\ TimedOutStayOut
    OBVIOUS
<1>1. Pool \subseteq Tx
    BY DEF Pool
<1>2. m_txpool_weight \in Nat /\ m_txs_by_fee_and_receive_time \subseteq Tx
    BY <1>1, WeightIs DEF PoolInv, Consistent, AccountingExact
<1>3. TypeOK
    BY <1>2 DEF PoolInv, ControlType, Consistent, TypeOK, Tables, Entries, Verdicts
<1>4. OneRelayedSpender
    BY DEF PoolInv, Consistent, InitSucceeds, OneRelayedSpender, Pool, Kept
<1> QED BY <1>3, <1>4 DEF PoolInv, Consistent, ControlType, AlwaysStarts

\* The state of the pool, of its caches and of the block handling around it
\* is well typed, for all transactions, limits and fork heights.
THEOREM TypeCorrect == NoClash => (Spec => []TypeOK)
BY PoolInvAlways, PoolInvImplies, PTL

\* m_spent_key_images lists exactly the spenders in the pool, at every step of
\* every handler: no early return of insert_key_images or
\* remove_transaction_keyimages ever leaves a part behind.
THEOREM KeyImagesAreExact == NoClash => (Spec => []KeyImagesExact)
BY PoolInvAlways, PoolInvImplies, PTL

\* m_txpool_weight is the weight of the pool, so reduce_txpool_weight never
\* meets its underflow, and the sorted container holds the pool.
THEOREM AccountingIsExact == NoClash => (Spec => []AccountingExact)
BY PoolInvAlways, PoolInvImplies, PTL

\* Of two rivals in the pool one was kept by a block.
THEOREM OneSpenderIsRelayed == NoClash => (Spec => []OneRelayedSpender)
BY PoolInvAlways, PoolInvImplies, PTL

\* Whenever the node stops, also in the middle of a batch, tx_memory_pool::init
\* accepts the table it finds.
THEOREM NodeAlwaysStarts == NoClash => (Spec => []AlwaysStarts)
BY PoolInvAlways, PoolInvImplies, PTL

\* A transaction that timed out is only taken back from a block.
THEOREM TimedOutStaysOut == NoClash => (Spec => []TimedOutStayOut)
BY PoolInvAlways, PoolInvImplies, PTL
=============================================================================
