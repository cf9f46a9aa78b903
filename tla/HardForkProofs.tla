--------------------------- MODULE HardForkProofs ---------------------------
(***************************************************************************)
(* For every fork table, window, chain bound and history of calls: the     *)
(* state of HardFork is well typed, its window is never empty above an     *)
(* empty chain, and with a table that needs no votes the fork in force and *)
(* the recorded versions depend on the height alone.                       *)
(***************************************************************************)
EXTENDS HardFork, TLAPS, FiniteSetTheorems, SequenceTheorems, WellFoundedInduction

-----------------------------------------------------------------------------
(* Largest elements *)

\* A non-empty set of naturals has a least element.
LEMMA LeastNatural ==
    ASSUME NEW T \in SUBSET Nat, T # {}
    PROVE  \E x \in T : \A y \in T : x <= y
<1>1. PICK x \in T : \A y \in T : ~ (<<y, x>> \in OpToRel(<, Nat))
    BY NatLessThanWellFounded, WFMin
<1>2. \A y \in T : y < x => <<y, x>> \in OpToRel(<, Nat)
    BY DEF OpToRel
<1>3. \A y \in T : ~ (y < x)
    BY <1>1, <1>2, Zenon
<1>4. \A y \in T : x <= y
    BY <1>3
<1> QED BY <1>4

\* A non-empty set of naturals that is bounded has a largest element: the
\* mirror image of the least one.
LEMMA GreatestNatural ==
    ASSUME NEW N \in Nat, NEW S \in SUBSET (0..N), S # {}
    PROVE  \E x \in S : \A y \in S : y <= x
<1> DEFINE T == {N - n : n \in S}
<1>1. T \in SUBSET Nat /\ T # {}
    OBVIOUS
<1>2. PICK x \in T : \A y \in T : x <= y
    <2> HIDE DEF T
    <2> QED BY <1>1, LeastNatural
<1>3. PICK m \in S : x = N - m
    OBVIOUS
<1>4. ASSUME NEW y \in S PROVE y <= m
    <2>1. N - y \in T
        OBVIOUS
    <2>2. x <= N - y
        BY <1>2, <2>1
    <2> HIDE DEF T
    <2>3. N \in Int /\ y \in Int /\ m \in Int
        OBVIOUS
    <2> QED BY <2>2, <1>3, <2>3
<1> QED BY <1>4

\* What Largest returns for a non-empty set of fork indices.
LEMMA LargestFork ==
    ASSUME NEW S \in SUBSET (1..NForks), S # {}
    PROVE  Largest(S) \in S /\ \A m \in S : m <= Largest(S)
<1>1. NForks \in Nat
    BY ForkTable DEF NForks
<1>2. S \in SUBSET (0..NForks)
    BY <1>1
<1>3. \E x \in S : \A y \in S : y <= x
    BY <1>1, <1>2, GreatestNatural
<1> QED BY <1>3 DEF Largest

-----------------------------------------------------------------------------
(* The fork table *)

\* The entries of the table and their order, as arithmetic facts.
LEMMA Table ==
    /\ NForks \in Nat \ {0}
    /\ \A n \in 1..NForks : /\ heights[n].version \in Nat \ {0}
                            /\ heights[n].height \in Nat
                            /\ heights[n].threshold \in 0..100
                            /\ heights[n].version <= LastVersion
    /\ \A m, n \in 1..NForks : m < n => /\ heights[m].version < heights[n].version
                                        /\ heights[m].height < heights[n].height
    /\ LastVersion \in Nat \ {0}
<1>1. NForks \in Nat \ {0}
    BY ForkTable DEF NForks
<1>2. \A n \in 1..NForks : heights[n] \in [version : Nat \ {0}, height : Nat, threshold : 0..100]
    BY ForkTable, ElementOfSeq DEF NForks
<1>3. \A n \in 1..NForks : n = NForks \/ heights[n].version < heights[NForks].version
    BY <1>1, ForkTable
<1>4. \A n \in 1..NForks : /\ heights[n].version \in Nat \ {0}
                            /\ heights[n].height \in Nat
                            /\ heights[n].threshold \in 0..100
    BY <1>2
<1>5. NForks \in 1..NForks
    BY <1>1
<1>6. \A m, n \in 1..NForks : m < n => /\ heights[m].version < heights[n].version
                                          /\ heights[m].height < heights[n].height
    BY ForkTable
<1>7. LastVersion \in Nat \ {0}
    BY <1>4, <1>5 DEF LastVersion
<1>8. \A n \in 1..NForks : heights[n].version <= LastVersion
    BY <1>3, <1>4, <1>5 DEF LastVersion
<1> QED BY <1>1, <1>4, <1>6, <1>7, <1>8

\* ForkAt(h) is the one fork index that splits the table into the forks that
\* are due at height h and those that are not.
LEMMA ForkAtSplits ==
    ASSUME NEW h \in Nat
    PROVE  /\ ForkAt(h) \in 1..NForks
           /\ \A n \in 2..NForks : h >= heights[n].height <=> n <= ForkAt(h)
<1> DEFINE due == {n \in 2..NForks : h >= heights[n].height}
<1>1. CASE due = {}
    <2>1. ForkAt(h) = 1
        BY <1>1 DEF ForkAt
    <2> QED BY <1>1, <2>1, Table
<1>2. CASE due # {}
    <2>1. ForkAt(h) = Largest(due)
        BY <1>2 DEF ForkAt
    <2>2. due \in SUBSET (1..NForks)
        BY Table
    <2>3. Largest(due) \in due /\ \A m \in due : m <= Largest(due)
        <3> HIDE DEF due
        <3> QED BY <1>2, <2>2, LargestFork
    <2>4. ASSUME NEW n \in 2..NForks, n <= Largest(due) PROVE h >= heights[n].height
        BY <2>3, <2>4, Table
    <2> QED BY <2>1, <2>2, <2>3, <2>4, Table
<1> QED BY <1>1, <1>2

LEMMA ForkAtUnique ==
    ASSUME NEW h \in Nat, NEW k \in 1..NForks,
           \A n \in 2..NForks : h >= heights[n].height <=> n <= k
    PROVE  k = ForkAt(h)
<1>1. ForkAt(h) > k => FALSE
    BY ForkAtSplits, Table
<1>2. ForkAt(h) < k => FALSE
    BY ForkAtSplits, Table
<1>3. ForkAt(h) \in Int /\ k \in Int
    BY ForkAtSplits, Table
<1> QED BY <1>1, <1>2, <1>3

LEMMA ForkAtMonotonic ==
    ASSUME NEW h \in Nat
    PROVE  ForkAt(h) <= ForkAt(h + 1)
<1>1. CASE ForkAt(h) = 1
    BY <1>1, ForkAtSplits, Table
<1>2. CASE ForkAt(h) # 1
    <2>1. ForkAt(h) \in 2..NForks /\ h >= heights[ForkAt(h)].height
        BY <1>2, ForkAtSplits, Table
    <2>2. h + 1 >= heights[ForkAt(h)].height
        BY <2>1, Table
    <2> QED BY <2>1, <2>2, ForkAtSplits
<1> QED BY <1>1, <1>2

\* No fork but the first is due on an empty chain.
LEMMA ForkAtZero == ForkAt(0) = 1
<1>1. \A n \in 2..NForks : ~ (0 >= heights[n].height)
    BY Table
<1> QED BY <1>1 DEF ForkAt

-----------------------------------------------------------------------------
(* Votes *)

\* The accumulated votes are a natural number, whatever the counts are.
LEMMA VotesNatural ==
    ASSUME NEW n \in 1..NForks, NEW lv
    PROVE  accumulated_votes(n, lv) \in Nat
<1> DEFINE P == (n..NForks) \X (1..window_size)
<1>1. IsFiniteSet(n..NForks) /\ IsFiniteSet(1..window_size)
    <2>1. n \in Int /\ NForks \in Int /\ 1 \in Int /\ window_size \in Int
        BY Table, Parameters
    <2> QED BY <2>1, FS_Interval
<1>2. IsFiniteSet(P)
    BY <1>1, FS_Product
<1>3. IsFiniteSet({mk \in P : mk[2] <= lv[heights[mk[1]].version]})
    <2> HIDE DEF P
    <2>1. {mk \in P : mk[2] <= lv[heights[mk[1]].version]} \subseteq P
        OBVIOUS
    <2> QED BY <1>2, <2>1, FS_Subset
<1> QED BY <1>3, FS_CardinalityType DEF accumulated_votes

LEMMA RaisedType ==
    ASSUME NEW k \in 1..NForks, NEW h, NEW lv
    PROVE  Raised(k, h, lv) \in 1..NForks
<1>1. VotedForks(h, lv) \in SUBSET (1..NForks)
    BY DEF VotedForks
<1>2. get_voted_fork_index(h, lv, k) \in 1..NForks
    BY <1>1, LargestFork DEF get_voted_fork_index
<1> QED BY <1>2 DEF Raised

\* Without voting, "voted > current" raises any fork that is not past the
\* height's fork to exactly that fork.
LEMMA RaisedByHeight ==
    ASSUME NoVoting, NEW h \in Nat, NEW lv, NEW k \in 1..NForks, k <= ForkAt(h)
    PROVE  Raised(k, h, lv) = ForkAt(h)
<1> DEFINE V == VotedForks(h, lv)
<1>1. \A n \in 1..NForks : threshold(n) = 0
    BY Parameters, Table DEF NoVoting, threshold
<1>2. V = {n \in 1..NForks : h >= heights[n].height}
    <2>1. \A n \in 1..NForks : accumulated_votes(n, lv) >= threshold(n)
        BY <1>1, VotesNatural
    <2> QED BY <2>1 DEF VotedForks
<1>3. CASE V = {}
    <2>1. get_voted_fork_index(h, lv, k) = k
        BY <1>3 DEF get_voted_fork_index
    <2>2. ForkAt(h) = 1
        BY <1>2, <1>3, ForkAtSplits, Table
    <2> QED BY <2>1, <2>2, Table DEF Raised
<1>4. CASE V # {}
    <2>1. V \in SUBSET (1..NForks)
        BY <1>2
    <2>2. Largest(V) \in V /\ \A m \in V : m <= Largest(V)
        BY <1>4, <2>1, LargestFork
    <2>3. get_voted_fork_index(h, lv, k) = Largest(V)
        BY <1>4 DEF get_voted_fork_index
    <2>4. \A n \in 2..NForks : h >= heights[n].height <=> n <= Largest(V)
        BY <1>2, <2>2, Table
    <2>5. Largest(V) = ForkAt(h)
        BY <2>1, <2>2, <2>4, ForkAtUnique
    <2>6. k \in Int /\ ForkAt(h) \in Int
        BY ForkAtSplits, Table
    <2>7. Raised(k, h, lv) = IF ForkAt(h) > k THEN ForkAt(h) ELSE k
        BY <2>3, <2>5 DEF Raised
    <2> QED BY <2>6, <2>7
<1> QED BY <1>3, <1>4

LEMMA LoweredBound ==
    ASSUME NEW k \in 1..NForks, NEW v
    PROVE  /\ Lowered(k, v) \in 1..NForks
           /\ \A j \in 1..NForks : v = heights[j].version => Lowered(k, v) <= j
<1> DEFINE kept == {n \in 1..k : n = 1 \/ heights[n].version <= v}
<1>1. kept \in SUBSET (1..NForks) /\ 1 \in kept
    BY Table
<1>2. Largest(kept) \in kept
    <2> HIDE DEF kept
    <2> QED BY <1>1, LargestFork
<1>3. Lowered(k, v) \in kept
    BY <1>2 DEF Lowered
<1>4. ASSUME NEW j \in 1..NForks, v = heights[j].version, NEW n \in kept PROVE n <= j
    BY <1>4, <1>1, Table
<1> QED BY <1>1, <1>3, <1>4

LEMMA IndexOfVersionIs ==
    ASSUME NEW j \in 1..NForks
    PROVE  IndexOfVersion(heights[j].version) = j
BY Table DEF IndexOfVersion

LEMMA IndexOfVersionType == ASSUME NEW v PROVE IndexOfVersion(v) \in 1..NForks
BY Table DEF IndexOfVersion

LEMMA VoteType ==
    ASSUME NEW b \in Block
    PROVE  Vote(b) \in VoteRange
BY Table DEF Vote, get_effective_version, get_block_vote, VoteRange, Block
\* A function on 1..n is a sequence of length n.
LEMMA FunctionIsSeq ==
    ASSUME NEW S, NEW n \in Nat, NEW f \in [1..n -> S]
    PROVE  f \in Seq(S) /\ Len(f) = n
<1>1. f \in UNION {[1..k -> S] : k \in Nat}
    OBVIOUS
<1>2. f \in Seq(S)
    BY <1>1, SeqDef, Zenon
<1>3. DOMAIN f = 1..Len(f) /\ Len(f) \in Nat
    BY <1>2, LenProperties
<1>4. DOMAIN f = 1..n
    OBVIOUS
<1>5. ASSUME NEW m \in Nat, 1..m = 1..n PROVE m = n
    <2>1. m > n => m \in 1..m /\ m \notin 1..n
        OBVIOUS
    <2>2. m < n => n \in 1..n /\ n \notin 1..m
        OBVIOUS
    <2> QED BY <1>5, <2>1, <2>2
<1> QED BY <1>2, <1>3, <1>4, <1>5

\* The windows that reorganize and init rebuild.
LEMMA VotesOfType ==
    ASSUME blocks \in Seq(Block),
           NEW lo \in Nat, NEW hi \in Nat, lo <= hi, hi < Len(blocks)
    PROVE  /\ VotesOf(lo, hi) \in Seq(VoteRange)
           /\ Len(VotesOf(lo, hi)) = hi - lo + 1
<1> DEFINE n == hi - lo + 1
<1>1. n \in Nat
    OBVIOUS
<1>2. \A i \in 1..n : Vote(blocks[lo + i]) \in VoteRange
    <2> SUFFICES ASSUME NEW i \in 1..n PROVE Vote(blocks[lo + i]) \in VoteRange
        OBVIOUS
    <2>1. lo + i \in 1..Len(blocks)
        OBVIOUS
    <2>2. blocks[lo + i] \in Block
        BY <2>1, ElementOfSeq
    <2> QED BY <2>2, VoteType
<1>3. VotesOf(lo, hi) = [i \in 1..n |-> Vote(blocks[lo + i])]
    BY DEF VotesOf
<1> QED
    <2> HIDE DEF n
    <2>1. [i \in 1..n |-> Vote(blocks[lo + i])] \in [1..n -> VoteRange]
        BY <1>2
    <2> DEFINE f == [i \in 1..n |-> Vote(blocks[lo + i])]
    <2>2. f \in Seq(VoteRange) /\ Len(f) = n
        <3>1. f \in [1..n -> VoteRange]
            BY <2>1
        <3> HIDE DEF f
        <3> QED BY <1>1, <3>1, FunctionIsSeq
    <2> QED BY <1>3, <2>2 DEF n

LEMMA CountsType ==
    ASSUME NEW w \in Seq(VoteRange)
    PROVE  Counts(w) \in [VoteRange -> Int]
<1> SUFFICES ASSUME NEW v \in VoteRange PROVE Cardinality({i \in DOMAIN w : w[i] = v}) \in Int
    BY DEF Counts
<1>1. DOMAIN w = 1..Len(w) /\ Len(w) \in Nat
    BY LenProperties
<1>2. IsFiniteSet(DOMAIN w)
    <2>1. 1 \in Int /\ Len(w) \in Int
        BY <1>1
    <2> QED BY <1>1, <2>1, FS_Interval
<1>3. IsFiniteSet({i \in DOMAIN w : w[i] = v})
    BY <1>2, FS_Subset
<1>4. Cardinality({i \in DOMAIN w : w[i] = v}) \in Nat
    BY <1>3, FS_CardinalityType
<1> QED BY <1>4

-----------------------------------------------------------------------------
(* Type correctness *)

TypeInv == TypeOK /\ WindowCoversTop

\* What add does to the members, for any block of the right type.
LEMMA AddType ==
    ASSUME TypeInv, NEW b \in Block, NEW h \in 0..MaxHeight, add(b, h)
    PROVE  /\ hf_versions' \in [0..MaxHeight -> VoteRange]
           /\ versions' \in Seq(VoteRange)
           /\ versions' # <<>>
           /\ Len(versions') <= window_size
           /\ last_versions' \in [VoteRange -> Int]
           /\ current_fork_index' \in 1..NForks
<1>0. /\ current_fork_index \in 1..NForks
      /\ hf_versions \in [0..MaxHeight -> VoteRange]
      /\ versions \in Seq(VoteRange)
      /\ Len(versions) \in Nat
      /\ Len(versions) <= window_size
      /\ last_versions \in [VoteRange -> Int]
    BY LenProperties DEF TypeInv, TypeOK
<1>1. heights[current_fork_index].version \in VoteRange
    BY <1>0, Table DEF VoteRange
<1>2. hf_versions' \in [0..MaxHeight -> VoteRange]
    BY <1>0, <1>1 DEF add
<1>3. Vote(b) \in VoteRange
    BY VoteType
<1>4. /\ versions' \in Seq(VoteRange)
      /\ versions' # <<>>
      /\ Len(versions') <= window_size
    <2>1. versions' = WindowAfter(Vote(b))
        BY DEF add
    <2>2. CASE Len(versions) >= window_size
        <3>1. versions # <<>>
            BY <1>0, <2>2, Parameters, EmptySeq
        <3>2. Tail(versions) \in Seq(VoteRange) /\ Len(Tail(versions)) = Len(versions) - 1
            BY <1>0, <3>1, HeadTailProperties
        <3>3. versions' = Append(Tail(versions), Vote(b))
            BY <2>1, <2>2 DEF WindowAfter
        <3>4. /\ versions' \in Seq(VoteRange) /\ versions' # <<>>
              /\ Len(versions') = Len(Tail(versions)) + 1
            BY <1>3, <3>2, <3>3, AppendProperties
        <3> QED BY <1>0, <3>2, <3>4, Parameters
    <2>3. CASE ~ (Len(versions) >= window_size)
        <3>1. versions' = Append(versions, Vote(b))
            BY <2>1, <2>3 DEF WindowAfter
        <3>2. Len(versions') = Len(versions) + 1 /\ versions' \in Seq(VoteRange) /\ versions' # <<>>
            BY <1>0, <1>3, <3>1, AppendProperties
        <3> QED BY <1>0, <2>3, <3>2, Parameters
    <2> QED BY <2>2, <2>3
<1>5. last_versions' \in [VoteRange -> Int]
    <2> DEFINE dropped == IF Len(versions) >= window_size
                          THEN [last_versions EXCEPT ![Head(versions)] = @ - 1]
                          ELSE last_versions
    <2>1. dropped \in [VoteRange -> Int]
        <3>1. CASE Len(versions) >= window_size
            <4>1. Head(versions) \in VoteRange
                BY <1>0, <3>1, Parameters, EmptySeq, HeadTailProperties
            <4> QED BY <1>0, <3>1, <4>1
        <3>2. CASE ~ (Len(versions) >= window_size)
            BY <1>0, <3>2
        <3> QED BY <3>1, <3>2
    <2>2. last_versions' = [dropped EXCEPT ![Vote(b)] = @ + 1]
        BY DEF add, CountsAfter
    <2> HIDE DEF dropped
    <2> QED BY <1>3, <2>1, <2>2
<1>6. current_fork_index' \in 1..NForks
    BY <1>0, RaisedType DEF add
<1> QED BY <1>2, <1>4, <1>5, <1>6

LEMMA InitType == Init => TypeInv
<1> SUFFICES ASSUME Init PROVE TypeInv
    OBVIOUS
<1>1. 0 \in VoteRange
    BY Table DEF VoteRange
<1>2. Len(blocks) = 0 /\ Len(versions) = 0
    BY DEF Init
<1> QED BY <1>1, <1>2, Table, Parameters DEF Init, TypeInv, TypeOK, WindowCoversTop, Height

LEMMA NextType == TypeInv /\ [Next]_vars => TypeInv'
<1> SUFFICES ASSUME TypeInv, [Next]_vars PROVE TypeInv'
    OBVIOUS
<1>0. /\ blocks \in Seq(Block)
      /\ blocks \in [1..Len(blocks) -> Block]
      /\ Len(blocks) \in Nat
      /\ Len(blocks) <= MaxHeight
      /\ hf_versions \in [0..MaxHeight -> VoteRange]
      /\ versions \in Seq(VoteRange)
      /\ versions \in [1..Len(versions) -> VoteRange]
      /\ Len(versions) \in Nat
      /\ Len(versions) <= window_size
      /\ Len(blocks) > 0 => versions # <<>>
      /\ last_versions \in [VoteRange -> Int]
      /\ current_fork_index \in 1..NForks
      /\ readd \in Nat
      /\ readd > 0 => readd < Len(blocks)
      /\ pops \in Nat
    BY LenProperties DEF TypeInv, TypeOK, WindowCoversTop, Height
<1>1. ASSUME NEW n \in 1..NForks, NEW m \in MinorVersions,
             AddBlock([major |-> heights[n].version, minor |-> m])
      PROVE  TypeInv'
    <2> DEFINE b == [major |-> heights[n].version, minor |-> m]
    <2>1. b \in Block
        BY Table, Parameters DEF Block
    <2>2. Height \in 0..MaxHeight
        BY <1>0, <1>1, Parameters DEF AddBlock, Height
    <2>3. add(b, Height)
        BY <1>1 DEF AddBlock
    <2>4. blocks' \in Seq(Block) /\ Len(blocks') = Len(blocks) + 1
        <3>1. blocks' = Append(blocks, b)
            BY <1>1 DEF AddBlock
        <3> HIDE DEF b
        <3> QED BY <1>0, <2>1, <3>1, AppendProperties
    <2>5. Len(blocks') <= MaxHeight
        BY <1>0, <1>1, <2>4, Parameters DEF AddBlock, Height
    <2>6. readd' = 0 /\ pops' = pops
        BY <1>1 DEF AddBlock
    <2> HIDE DEF b
    <2>7. /\ hf_versions' \in [0..MaxHeight -> VoteRange]
          /\ versions' \in Seq(VoteRange)
          /\ versions' # <<>>
          /\ Len(versions') <= window_size
          /\ last_versions' \in [VoteRange -> Int]
          /\ current_fork_index' \in 1..NForks
        BY <2>1, <2>2, <2>3, AddType
    <2>8. readd' \in Nat /\ ~ (readd' > 0) /\ pops' \in Nat
        BY <1>0, <2>6
    <2> QED BY <2>4, <2>5, <2>7, <2>8 DEF TypeInv, TypeOK, WindowCoversTop, Height
<1>2. CASE PopBlock
    <2>1. /\ readd' = readd /\ readd = 0 /\ pops' = pops + 1 /\ hf_versions' = hf_versions
          /\ current_fork_index' = ForkAt(Len(blocks) - 1)
          /\ blocks' = SubSeq(blocks, 1, Len(blocks) - 1)
          /\ Len(blocks) > 1
        BY <1>2 DEF PopBlock, Height
    <2>2. current_fork_index' \in 1..NForks
        <3>1. Len(blocks) - 1 \in Nat
            BY <1>0, <2>1
        <3> QED BY <2>1, <3>1, ForkAtSplits
    <2>3. blocks' \in Seq(Block) /\ Len(blocks') = Len(blocks) - 1
        <3>1. \A i \in 1..(Len(blocks) - 1) : blocks[i] \in Block
            BY <1>0
        <3>2. 1 \in Int /\ Len(blocks) - 1 \in Int /\ 1 <= Len(blocks) - 1
            BY <1>0, <2>1
        <3>3. /\ SubSeq(blocks, 1, Len(blocks) - 1) \in Seq(Block)
              /\ Len(SubSeq(blocks, 1, Len(blocks) - 1)) = IF 1 <= Len(blocks) - 1 THEN (Len(blocks) - 1) - 1 + 1 ELSE 0
            BY <3>1, <3>2, SubSeqProperties
        <3> QED BY <1>0, <2>1, <3>2, <3>3
    <2> DEFINE in == hf_versions[Len(blocks) - 1]
    <2>4. in \in VoteRange
        <3>1. Len(blocks) - 1 \in 0..MaxHeight
            BY <1>0, <2>1, Parameters
        <3> QED BY <1>0, <3>1
    <2>5. /\ versions' = <<in>> \o SubSeq(versions, 1, Len(versions) - 1)
          /\ last_versions' = [[last_versions EXCEPT ![versions[Len(versions)]] = @ - 1] EXCEPT ![in] = @ + 1]
        BY <1>2 DEF PopBlock, Height, PoppedWindow
    <2> HIDE DEF in
    <2>6. versions # <<>> /\ Len(versions) >= 1
        BY <1>0, <2>1, EmptySeq
    <2>7. versions' \in Seq(VoteRange) /\ Len(versions') = Len(versions)
        <3>1. \A i \in 1..(Len(versions) - 1) : versions[i] \in VoteRange
            BY <1>0
        <3>2. /\ SubSeq(versions, 1, Len(versions) - 1) \in Seq(VoteRange)
              /\ Len(SubSeq(versions, 1, Len(versions) - 1)) = Len(versions) - 1
            BY <1>0, <2>6, <3>1, SubSeqProperties
        <3>3. <<in>> \in Seq(VoteRange) /\ Len(<<in>>) = 1
            BY <2>4
        <3> QED BY <1>0, <2>5, <3>2, <3>3, ConcatProperties
    <2>8. versions' # <<>>
        BY <2>6, <2>7, EmptySeq
    <2>9. last_versions' \in [VoteRange -> Int]
        <3>1. versions[Len(versions)] \in VoteRange
            BY <1>0, <2>6
        <3>2. [last_versions EXCEPT ![versions[Len(versions)]] = @ - 1] \in [VoteRange -> Int]
            BY <1>0, <3>1
        <3> QED BY <2>4, <2>5, <3>2
    <2>10. /\ readd' \in Nat /\ ~ (readd' > 0) /\ pops' \in Nat
           /\ Len(blocks') <= MaxHeight /\ Len(versions') <= window_size
           /\ hf_versions' \in [0..MaxHeight -> VoteRange]
        <3>1. readd' \in Nat /\ ~ (readd' > 0)
            BY <2>1
        <3>2. pops' \in Nat
            BY <1>0, <2>1
        <3>3. Len(blocks') <= MaxHeight
            BY <1>0, <2>3, Parameters
        <3>4. Len(versions') <= window_size /\ hf_versions' \in [0..MaxHeight -> VoteRange]
            BY <1>0, <2>1, <2>7
        <3> QED BY <3>1, <3>2, <3>3, <3>4
    <2> QED BY <2>2, <2>3, <2>7, <2>8, <2>9, <2>10 DEF TypeInv, TypeOK, WindowCoversTop, Height
<1>3. ASSUME NEW keep \in 1..Height, NEW h \in 0..(keep - 1), Reorganize(keep, h)
      PROVE  TypeInv'
    <2> DEFINE lo == RescanHeight(h)
               w  == VotesOf(lo, h)
               sv == IF h = 0 THEN original_version ELSE hf_versions[h]
    <2>1. keep \in Nat /\ keep <= Len(blocks) /\ keep >= 1 /\ h \in Nat /\ h < keep
        BY <1>0 DEF Height
    <2>2. lo \in Nat /\ lo <= h /\ h - lo + 1 <= window_size
        BY <2>1, Parameters DEF RescanHeight
    <2>3. w \in Seq(VoteRange) /\ Len(w) = h - lo + 1
        <3> HIDE DEF lo
        <3>1. h < Len(blocks)
            BY <1>0, <2>1
        <3> QED BY <1>0, <2>1, <2>2, <3>1, VotesOfType
    <2>4. /\ versions' = w
          /\ last_versions' = Counts(w)
          /\ current_fork_index' = Raised(Lowered(current_fork_index, sv), h + 1, Counts(w))
          /\ blocks' = SubSeq(blocks, 1, keep)
          /\ readd' = IF h + 1 < keep THEN h + 1 ELSE 0
          /\ hf_versions' = hf_versions /\ pops' = pops
        BY <1>3 DEF Reorganize
    <2> HIDE DEF lo, w, sv
    <2>5. Len(versions') <= window_size /\ versions' # <<>>
        <3>1. Len(w) >= 1 /\ Len(w) <= window_size
            BY <2>1, <2>2, <2>3, Parameters
        <3> QED BY <2>3, <2>4, <3>1, EmptySeq
    <2>6. last_versions' \in [VoteRange -> Int]
        BY <2>3, <2>4, CountsType
    <2>7. current_fork_index' \in 1..NForks
        BY <1>0, <2>4, LoweredBound, RaisedType
    <2>8. blocks' \in Seq(Block) /\ Len(blocks') = keep
        <3>1. \A i \in 1..keep : blocks[i] \in Block
            BY <1>0, <2>1
        <3>2. 1 \in Int /\ keep \in Int
            BY <2>1
        <3>3. /\ SubSeq(blocks, 1, keep) \in Seq(Block)
              /\ Len(SubSeq(blocks, 1, keep)) = IF 1 <= keep THEN keep - 1 + 1 ELSE 0
            BY <3>1, <3>2, SubSeqProperties
        <3> QED BY <2>1, <2>4, <3>3
    <2>9. readd' \in Nat /\ (readd' > 0 => readd' < keep) /\ keep <= MaxHeight
        BY <1>0, <2>1, <2>4, Parameters
    <2> QED BY <1>0, <2>3, <2>4, <2>5, <2>6, <2>7, <2>8, <2>9 DEF TypeInv, TypeOK, WindowCoversTop, Height
<1>4. CASE ReAdd
    <2>1. readd \in 0..MaxHeight /\ readd + 1 \in 1..Len(blocks)
        BY <1>0, <1>4, Parameters DEF ReAdd, Height
    <2>2. blocks[readd + 1] \in Block
        BY <1>0, <2>1
    <2>3. /\ hf_versions' \in [0..MaxHeight -> VoteRange]
          /\ versions' \in Seq(VoteRange)
          /\ versions' # <<>>
          /\ Len(versions') <= window_size
          /\ last_versions' \in [VoteRange -> Int]
          /\ current_fork_index' \in 1..NForks
        <3>1. CASE do_check(blocks[readd + 1])
            <4>1. add(blocks[readd + 1], readd)
                BY <1>4, <3>1 DEF ReAdd
            <4> QED BY <2>1, <2>2, <4>1, AddType
        <3>2. CASE ~ do_check(blocks[readd + 1])
            BY <1>0, <1>4, <2>1, <3>2 DEF ReAdd, Height
        <3> QED BY <3>1, <3>2
    <2>4. blocks' = blocks /\ pops' = pops /\ readd' = IF readd + 1 < Height THEN readd + 1 ELSE 0
        BY <1>4 DEF ReAdd
    <2>5. readd' \in Nat /\ (readd' > 0 => readd' < Len(blocks))
        BY <1>0, <2>1, <2>4 DEF Height
    <2> QED BY <1>0, <2>3, <2>4, <2>5 DEF TypeInv, TypeOK, WindowCoversTop, Height
<1>5. CASE Restart
    <2>1. blocks' = blocks /\ hf_versions' = hf_versions /\ readd' = readd /\ pops' = pops
        BY <1>5 DEF Restart
    <2>2. CASE Height = 0
        <3>1. versions' = <<>> /\ last_versions' = Counts(<<>>) /\ current_fork_index' = 1
            BY <1>5, <2>2 DEF Restart
        <3>2. <<>> \in Seq(VoteRange) /\ Len(<<>>) = 0
            OBVIOUS
        <3>3. last_versions' \in [VoteRange -> Int]
            BY <3>1, <3>2, CountsType
        <3>4. 1 \in 1..NForks /\ 0 <= window_size
            BY Table, Parameters
        <3> QED BY <1>0, <2>1, <2>2, <3>1, <3>2, <3>3, <3>4 DEF TypeInv, TypeOK, WindowCoversTop, Height
    <2>3. CASE Height # 0
        <3> DEFINE lo == InitHeight(Height)
                   w  == VotesOf(lo, Height - 1)
        <3>1. /\ versions' = w
              /\ last_versions' = Counts(w)
              /\ current_fork_index' = Raised(IndexOfVersion(hf_versions[Height - 1]), Height, Counts(w))
            BY <1>5, <2>3 DEF Restart
        <3>2. /\ lo \in Nat /\ lo <= Height - 1 /\ Height - 1 \in Nat
              /\ Height - lo <= window_size /\ Height - 1 < Len(blocks)
            BY <1>0, <2>3, Parameters DEF Height, InitHeight
        <3> HIDE DEF lo
        <3>3. w \in Seq(VoteRange) /\ Len(w) = Height - 1 - lo + 1
            BY <1>0, <3>2, VotesOfType
        <3> HIDE DEF w
        <3>4. Len(versions') <= window_size /\ versions' # <<>>
            <4>1. Len(w) >= 1 /\ Len(w) <= window_size
                BY <1>0, <3>2, <3>3, Parameters DEF Height
            <4> QED BY <3>1, <3>3, <4>1, EmptySeq
        <3>5. last_versions' \in [VoteRange -> Int]
            BY <3>1, <3>3, CountsType
        <3>6. current_fork_index' \in 1..NForks
            BY <3>1, IndexOfVersionType, RaisedType
        <3> QED BY <1>0, <2>1, <3>1, <3>3, <3>4, <3>5, <3>6 DEF TypeInv, TypeOK, WindowCoversTop, Height
    <2> QED BY <2>2, <2>3
<1>6. CASE UNCHANGED vars
    BY <1>0, <1>6 DEF vars, TypeInv, TypeOK, WindowCoversTop, Height
<1> QED BY <1>1, <1>2, <1>3, <1>4, <1>5, <1>6 DEF Next

\* The state is always well typed; in particular the window never outgrows
\* window_size and current_fork_index always names a fork of the table.
THEOREM TypeCorrect == Spec => []TypeOK
<1>1. TypeInv => TypeOK
    BY DEF TypeInv
<1> QED BY <1>1, InitType, NextType, PTL DEF Spec

\* on_block_popped never reads the back of an empty window.
THEOREM WindowNeverEmpty == Spec => []WindowCoversTop
<1>1. TypeInv => WindowCoversTop
    BY DEF TypeInv
<1> QED BY <1>1, InitType, NextType, PTL DEF Spec
-----------------------------------------------------------------------------
(* The fork in force depends on the height alone *)

\* Blocks entered the chain past do_check: their vote is at least their
\* version.  Needed because a reorganisation checks them again.
VotesPassed ==
    \A h \in 0..(Height - 1) : get_block_vote(blocks[h + 1]) >= blocks[h + 1].major

\* The inductive invariant: ForkByHeight alone is not inductive, since init
\* and reorganize start from what hf_versions recorded and reorganize checks
\* the stored blocks again.
HeightInv == TypeInv /\ ForkByHeight /\ VersionsByHeight /\ VotesPassed

LEMMA InitIsByHeight == Init => HeightInv
<1> SUFFICES ASSUME Init PROVE HeightInv
    OBVIOUS
<1>1. Len(blocks) = 0 /\ readd = 0 /\ current_fork_index = 1
    BY DEF Init
<1> QED BY <1>1, InitType, ForkAtZero
        DEF HeightInv, ForkByHeight, VersionsByHeight, VotesPassed, Counted, Height

\* A step keeps VotesPassed: blocks are only appended, past do_check, and cut.
LEMMA NextVotes == TypeInv /\ VotesPassed /\ [Next]_vars => VotesPassed'
<1> SUFFICES ASSUME TypeInv, VotesPassed, [Next]_vars PROVE VotesPassed'
    OBVIOUS
<1>0. blocks \in Seq(Block) /\ Len(blocks) \in Nat
    BY LenProperties DEF TypeInv, TypeOK
<1>1. ASSUME NEW k \in 0..Len(blocks), blocks' = SubSeq(blocks, 1, k) PROVE VotesPassed'
    <2>1. Len(blocks') = k /\ \A i \in 1..k : blocks'[i] = blocks[i]
        BY <1>0, <1>1
    <2> QED BY <1>0, <2>1 DEF VotesPassed, Height
<1>2. ASSUME NEW n \in 1..NForks, NEW m \in MinorVersions,
             AddBlock([major |-> heights[n].version, minor |-> m])
      PROVE  VotesPassed'
    <2> DEFINE b == [major |-> heights[n].version, minor |-> m]
    <2>1. b \in Block
        BY Table, Parameters DEF Block
    <2>2. get_block_vote(b) >= b.major /\ blocks' = Append(blocks, b)
        BY <1>2 DEF AddBlock, do_check
    <2> HIDE DEF b
    <2>3. /\ Len(blocks') = Len(blocks) + 1
          /\ \A i \in 1..Len(blocks) : blocks'[i] = blocks[i]
          /\ blocks'[Len(blocks) + 1] = b
        BY <1>0, <2>1, <2>2, AppendProperties
    <2> QED BY <1>0, <2>2, <2>3 DEF VotesPassed, Height
<1>3. CASE PopBlock
    <2>1. Len(blocks) - 1 \in 0..Len(blocks) /\ blocks' = SubSeq(blocks, 1, Len(blocks) - 1)
        BY <1>0, <1>3 DEF PopBlock, Height
    <2> QED BY <1>1, <2>1
<1>4. ASSUME NEW keep \in 1..Height, NEW h \in 0..(keep - 1), Reorganize(keep, h)
      PROVE  VotesPassed'
    <2>1. keep \in 0..Len(blocks) /\ blocks' = SubSeq(blocks, 1, keep)
        BY <1>0, <1>4 DEF Reorganize, Height
    <2> QED BY <1>1, <2>1
<1>5. CASE blocks' = blocks
    BY <1>5 DEF VotesPassed, Height
<1> QED BY <1>2, <1>3, <1>4, <1>5 DEF Next, ReAdd, Restart, vars

\* What add does when it is called for the block of height h and the fork of
\* that height is in force.
LEMMA AddByHeight ==
    ASSUME NoVoting, TypeInv, NEW b, NEW h \in 0..MaxHeight,
           current_fork_index = ForkAt(h), add(b, h)
    PROVE  /\ current_fork_index' = ForkAt(h + 1)
           /\ hf_versions' = [hf_versions EXCEPT ![h] = get_ideal_version(h)]
<1>1. h \in Nat /\ h + 1 \in Nat
    BY Parameters
<1>2. ForkAt(h) \in 1..NForks /\ ForkAt(h) <= ForkAt(h + 1)
    BY <1>1, ForkAtSplits, ForkAtMonotonic
<1>3. current_fork_index' = Raised(ForkAt(h), h + 1, CountsAfter(Vote(b)))
    BY DEF add
<1>4. current_fork_index' = ForkAt(h + 1)
    BY <1>1, <1>2, <1>3, RaisedByHeight
<1> QED BY <1>4 DEF add, get_ideal_version

LEMMA NextIsByHeight == HeightInv /\ [Next]_vars => HeightInv'
<1> SUFFICES ASSUME HeightInv, [Next]_vars PROVE HeightInv'
    OBVIOUS
<1>a. TypeInv /\ TypeInv' /\ VotesPassed /\ VotesPassed'
    BY NextType, NextVotes DEF HeightInv
<1> SUFFICES ASSUME NoVoting PROVE (ForkByHeight /\ VersionsByHeight)'
    BY <1>a DEF HeightInv, ForkByHeight, VersionsByHeight, NoVoting
<1>0. /\ blocks \in Seq(Block) /\ Len(blocks) \in Nat /\ Len(blocks) <= MaxHeight
      /\ hf_versions \in [0..MaxHeight -> VoteRange]
      /\ current_fork_index \in 1..NForks
      /\ readd \in Nat /\ (readd > 0 => readd < Len(blocks))
    BY <1>a, LenProperties DEF TypeInv, TypeOK, Height
<1>b. /\ readd = 0 => current_fork_index = ForkAt(Len(blocks))
      /\ readd # 0 => current_fork_index = ForkAt(readd)
      /\ \A h \in 0..(Len(blocks) - 1) : /\ blocks[h + 1].major = get_ideal_version(h)
                                         /\ hf_versions[h] = get_ideal_version(h)
    BY DEF HeightInv, ForkByHeight, VersionsByHeight, Counted, Height
<1>1. ASSUME NEW n \in 1..NForks, NEW m \in MinorVersions,
             AddBlock([major |-> heights[n].version, minor |-> m])
      PROVE  (ForkByHeight /\ VersionsByHeight)'
    <2> DEFINE b == [major |-> heights[n].version, minor |-> m]
    <2>1. b \in Block
        BY Table, Parameters DEF Block
    <2>2. /\ readd = 0 /\ readd' = 0 /\ Len(blocks) \in 0..MaxHeight
          /\ b.major = heights[current_fork_index].version
          /\ blocks' = Append(blocks, b) /\ add(b, Len(blocks))
        BY <1>0, <1>1, Parameters DEF AddBlock, do_check, Height
    <2> HIDE DEF b
    <2>3. /\ Len(blocks') = Len(blocks) + 1
          /\ \A i \in 1..Len(blocks) : blocks'[i] = blocks[i]
          /\ blocks'[Len(blocks) + 1] = b
        BY <1>0, <2>1, <2>2, AppendProperties
    <2>4. /\ current_fork_index' = ForkAt(Len(blocks) + 1)
          /\ hf_versions' = [hf_versions EXCEPT ![Len(blocks)] = get_ideal_version(Len(blocks))]
        BY <1>a, <1>b, <2>2, AddByHeight
    <2>5. b.major = get_ideal_version(Len(blocks))
        BY <1>b, <2>2 DEF get_ideal_version
    <2>6. ASSUME NEW h \in 0..Len(blocks)
          PROVE  blocks'[h + 1].major = get_ideal_version(h) /\ hf_versions'[h] = get_ideal_version(h)
        <3>1. CASE h = Len(blocks)
            BY <1>0, <2>2, <2>3, <2>4, <2>5, <3>1
        <3>2. CASE h # Len(blocks)
            <4>1. h \in 0..(Len(blocks) - 1) /\ h + 1 \in 1..Len(blocks) /\ h \in 0..MaxHeight
                BY <1>0, <3>2, Parameters
            <4> QED BY <1>0, <1>b, <2>3, <2>4, <3>2, <4>1
        <3> QED BY <3>1, <3>2
    <2>7. ForkByHeight'
        BY <2>2, <2>3, <2>4 DEF ForkByHeight, Counted, Height
    <2>8. \A h \in 0..(Len(blocks') - 1) : h \in 0..Len(blocks)
        BY <1>0, <2>3
    <2> QED BY <2>6, <2>7, <2>8 DEF VersionsByHeight, Height, get_ideal_version, ForkAt
<1>2. ASSUME NEW k \in 0..Len(blocks), blocks' = SubSeq(blocks, 1, k), hf_versions' = hf_versions
      PROVE  Len(blocks') = k /\ VersionsByHeight'
    <2>1. Len(blocks') = k /\ \A i \in 1..k : blocks'[i] = blocks[i]
        BY <1>0, <1>2
    <2>2. \A h \in 0..(k - 1) : h \in 0..(Len(blocks) - 1) /\ h + 1 \in 1..k
        BY <1>0
    <2>3. \A h \in 0..(k - 1) : /\ blocks'[h + 1].major = get_ideal_version(h)
                               /\ hf_versions'[h] = get_ideal_version(h)
        BY <1>b, <1>2, <2>1, <2>2
    <2> QED BY <2>1, <2>3 DEF VersionsByHeight, Height, get_ideal_version, ForkAt
<1>3. CASE PopBlock
    <2>1. /\ Len(blocks) - 1 \in 0..Len(blocks) /\ blocks' = SubSeq(blocks, 1, Len(blocks) - 1)
          /\ hf_versions' = hf_versions /\ readd' = 0
          /\ current_fork_index' = ForkAt(Len(blocks) - 1)
        BY <1>0, <1>3 DEF PopBlock, Height
    <2>2. Len(blocks') = Len(blocks) - 1 /\ VersionsByHeight'
        BY <1>2, <2>1
    <2> QED BY <2>1, <2>2 DEF ForkByHeight, Counted, Height
<1>4. ASSUME NEW keep \in 1..Height, NEW h \in 0..(keep - 1), Reorganize(keep, h)
      PROVE  (ForkByHeight /\ VersionsByHeight)'
    <2> DEFINE sv == IF h = 0 THEN original_version ELSE hf_versions[h]
               lv == Counts(VotesOf(RescanHeight(h), h))
               k  == Lowered(current_fork_index, sv)
    <2>1. keep \in 0..Len(blocks) /\ h \in Nat /\ h < keep
        BY <1>0 DEF Height
    <2>2. /\ blocks' = SubSeq(blocks, 1, keep) /\ hf_versions' = hf_versions
          /\ current_fork_index' = Raised(k, h + 1, lv)
          /\ readd' = IF h + 1 < keep THEN h + 1 ELSE 0
        BY <1>4 DEF Reorganize
    <2>3. Len(blocks') = keep /\ VersionsByHeight'
        BY <1>2, <2>1, <2>2
    <2>4. sv = heights[ForkAt(h)].version
        <3>1. CASE h = 0
            BY <3>1, ForkAtZero, Parameters
        <3>2. CASE h # 0
            <4>1. h \in 0..(Len(blocks) - 1)
                BY <1>0, <2>1
            <4> QED BY <1>b, <3>2, <4>1 DEF get_ideal_version
        <3> QED BY <3>1, <3>2
    <2> HIDE DEF sv
    <2>5. k \in 1..NForks /\ k <= ForkAt(h)
        BY <1>0, <2>1, <2>4, LoweredBound, ForkAtSplits
    <2> HIDE DEF k, lv
    <2>6. h + 1 \in Nat /\ ForkAt(h) <= ForkAt(h + 1) /\ ForkAt(h) \in 1..NForks /\ ForkAt(h + 1) \in 1..NForks
        <3>1. h \in Nat /\ h + 1 \in Nat
            BY <2>1
        <3> QED BY <3>1, ForkAtMonotonic, ForkAtSplits
    <2>7. k <= ForkAt(h + 1)
        BY <2>5, <2>6, Table
    <2>8. current_fork_index' = ForkAt(h + 1)
        BY <2>2, <2>5, <2>6, <2>7, RaisedByHeight
    <2>9. Counted' = h + 1
        BY <2>1, <2>2, <2>3 DEF Counted, Height
    <2> QED BY <2>3, <2>8, <2>9 DEF ForkByHeight
<1>5. CASE ReAdd
    <2> DEFINE b == blocks[readd + 1]
    <2>1. readd \in 0..(Len(blocks) - 1) /\ readd \in 0..MaxHeight /\ readd # 0
        BY <1>0, <1>5, Parameters DEF ReAdd
    <2>2. b.major = heights[current_fork_index].version /\ get_block_vote(b) >= b.major
        BY <1>a, <1>b, <2>1 DEF get_ideal_version, VotesPassed, Height
    <2>3. do_check(b)
        BY <2>2 DEF do_check
    <2>4. /\ add(b, readd) /\ blocks' = blocks
          /\ readd' = IF readd + 1 < Len(blocks) THEN readd + 1 ELSE 0
        BY <1>5, <2>3 DEF ReAdd, Height
    <2> HIDE DEF b
    <2>5. /\ current_fork_index' = ForkAt(readd + 1)
          /\ hf_versions' = [hf_versions EXCEPT ![readd] = get_ideal_version(readd)]
        BY <1>a, <1>b, <2>1, <2>4, AddByHeight
    <2>6. hf_versions' = hf_versions
        BY <1>0, <1>b, <2>1, <2>5
    <2>7. Counted' = readd + 1
        BY <1>0, <2>1, <2>4 DEF Counted, Height
    <2>8. VersionsByHeight'
        BY <1>b, <2>4, <2>6 DEF VersionsByHeight, Height, get_ideal_version, ForkAt
    <2> QED BY <2>5, <2>7, <2>8 DEF ForkByHeight
<1>6. CASE Restart
    <2>1. blocks' = blocks /\ hf_versions' = hf_versions /\ readd' = 0
        BY <1>6 DEF Restart
    <2>2. VersionsByHeight'
        BY <1>b, <2>1 DEF VersionsByHeight, Height, get_ideal_version, ForkAt
    <2>3. Counted' = Len(blocks)
        BY <2>1 DEF Counted, Height
    <2>4. CASE Len(blocks) = 0
        BY <1>6, <2>2, <2>3, <2>4, ForkAtZero DEF Restart, Height, ForkByHeight
    <2>5. CASE Len(blocks) # 0
        <3> DEFINE h == Len(blocks) - 1
        <3>1. h \in 0..(Len(blocks) - 1) /\ h \in Nat /\ h + 1 = Len(blocks)
            BY <1>0, <2>5
        <3>2. hf_versions[h] = heights[ForkAt(h)].version
            BY <1>b, <3>1 DEF get_ideal_version
        <3>3. PICK lv : current_fork_index' = Raised(IndexOfVersion(hf_versions[h]), Len(blocks), lv)
            BY <1>6, <2>5 DEF Restart, Height
        <3> HIDE DEF h
        <3>4. ForkAt(h) \in 1..NForks /\ ForkAt(h) <= ForkAt(Len(blocks))
            BY <3>1, ForkAtSplits, ForkAtMonotonic
        <3>5. current_fork_index' = Raised(ForkAt(h), Len(blocks), lv)
            BY <3>2, <3>3, <3>4, IndexOfVersionIs
        <3>6. current_fork_index' = ForkAt(Len(blocks))
            BY <1>0, <3>4, <3>5, RaisedByHeight
        <3> QED BY <2>2, <2>3, <3>6 DEF ForkByHeight
    <2> QED BY <2>4, <2>5
<1>7. CASE UNCHANGED vars
    BY <1>7 DEF vars, HeightInv, ForkByHeight, VersionsByHeight, Counted, Height,
               get_ideal_version, ForkAt
<1> QED BY <1>1, <1>3, <1>4, <1>5, <1>6, <1>7 DEF Next

\* With a table that needs no votes, as every deployed one, the version the
\* next block must carry is the one its height gives, after any history of
\* adds, pops, reorganisations and restarts.
THEOREM ForkIsByHeight == Spec => []ForkByHeight
<1>1. HeightInv => ForkByHeight
    BY DEF HeightInv
<1> QED BY <1>1, InitIsByHeight, NextIsByHeight, PTL DEF Spec

\* With such a table, every block of the chain and every record of
\* hf_versions for it carries the version its height gives.
THEOREM VersionsAreByHeight == Spec => []VersionsByHeight
<1>1. HeightInv => VersionsByHeight
    BY DEF HeightInv
<1> QED BY <1>1, InitIsByHeight, NextIsByHeight, PTL DEF Spec
=============================================================================
