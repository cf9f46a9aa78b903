------------------------------ MODULE HardFork ------------------------------
(***************************************************************************)
(* The hard fork schedule of cryptonote_basic/hardfork.cpp: which block    *)
(* version the next block must carry, recomputed incrementally while the   *)
(* chain grows (add), shrinks (on_block_popped), is reorganised            *)
(* (reorganize_from_block_height) and when the node restarts (init).       *)
(*                                                                         *)
(* heights, versions and current_fork_index are the members of the same    *)
(* name; sequences start at 1, so fork index n of the code is n + 1 here,  *)
(* and the block of height h is blocks[h + 1].  blocks and hf_versions are *)
(* the two database tables the class reads and writes.                     *)
(***************************************************************************)
EXTENDS Integers, Sequences, FiniteSets

CONSTANTS
    heights,            \* the fork table: records [version, height, threshold]
    window_size,        \* number of blocks whose votes count
    original_version,   \* version of the blocks before the first fork
    MinorVersions,      \* the minor_version values blocks may carry
    MaxHeight,          \* bound: blocks in the chain
    MaxPops             \* bound: calls of on_block_popped

NForks == Len(heights)

\* add_fork appends a fork only if its version and its height exceed the
\* previous ones and its threshold is a percentage; init makes the table
\* non-empty; the constructor throws on an empty window.
ASSUME ForkTable ==
    /\ heights \in Seq([version : Nat \ {0}, height : Nat, threshold : 0..100])
    /\ NForks > 0
    /\ \A m, n \in 1..NForks :
          m < n => /\ heights[m].version < heights[n].version
                   /\ heights[m].height < heights[n].height

ASSUME Parameters ==
    /\ window_size \in Nat \ {0}
    /\ MaxHeight \in Nat
    /\ MaxPops \in Nat
    /\ MinorVersions \subseteq Nat
    /\ original_version = heights[1].version

VARIABLES
    blocks,             \* db: the chain, records [major, minor]
    hf_versions,        \* db: height -> version in force, 0 where never set
    versions,           \* rolling window of votes, oldest first
    last_versions,      \* votes in the window, per version
    current_fork_index, \* the fork in force for the next block
    readd,              \* height of the next block a reorganisation re-adds, 0 when none runs
    pops                \* calls of on_block_popped so far

vars == <<blocks, hf_versions, versions, last_versions, current_fork_index, readd, pops>>

\* db.height()
Height == Len(blocks)

LastVersion == heights[NForks].version

\* What the schedule reads of a block.
Block == [major : Nat, minor : Nat]

\* The versions a vote can be recorded for.
VoteRange == 0..LastVersion

-----------------------------------------------------------------------------
(* Queries *)

\* A minor version of 0 is a vote for version 1.
get_block_vote(b) == IF b.minor = 0 THEN 1 ELSE b.minor

get_effective_version(v) == IF v > LastVersion THEN LastVersion ELSE v

Vote(b) == get_effective_version(get_block_vote(b))

do_check_AnyOlderVersion(b) ==
    /\ b.major <= heights[current_fork_index].version
    /\ get_block_vote(b) >= heights[current_fork_index].version

do_check(b) ==
    /\ b.major = heights[current_fork_index].version
    /\ get_block_vote(b) >= heights[current_fork_index].version

threshold(n) == (window_size * heights[n].threshold + 99) \div 100

accumulated_votes_OfOneFork(n, lv) ==
    Cardinality({k \in 1..window_size : k <= lv[heights[n].version]})

\* The votes for fork n or any later one, counted one element per vote so
\* that the sum is a cardinality.
accumulated_votes(n, lv) ==
    Cardinality({mk \in (n..NForks) \X (1..window_size) :
                    mk[2] <= lv[heights[mk[1]].version]})

\* The forks that are due at height h and have their votes.
VotedForks(h, lv) ==
    {n \in 1..NForks : /\ h >= heights[n].height
                       /\ accumulated_votes(n, lv) >= threshold(n)}

Largest(S) == CHOOSE n \in S : \A m \in S : m <= n

get_voted_fork_index(h, lv, current) ==
    IF VotedForks(h, lv) = {} THEN current ELSE Largest(VotedForks(h, lv))

\* "if (voted > current_fork_index) current_fork_index = voted"
Raised(current, h, lv) ==
    LET voted == get_voted_fork_index(h, lv, current)
    IN  IF voted > current THEN voted ELSE current

\* The largest fork due at height h, votes ignored; the first one if none is.
ForkAt(h) ==
    LET due == {n \in 2..NForks : h >= heights[n].height}
    IN  IF due = {} THEN 1 ELSE Largest(due)

get_ideal_version(h) == heights[ForkAt(h)].version

\* A cleared window refilled from the blocks of heights lo..hi, its counts.
VotesOf(lo, hi) == [i \in 1..(hi - lo + 1) |-> Vote(blocks[lo + i])]

Counts(w) == [v \in VoteRange |-> Cardinality({i \in DOMAIN w : w[i] = v})]

-----------------------------------------------------------------------------
(* Operations *)

Init ==
    /\ blocks = <<>>
    /\ hf_versions = [h \in 0..MaxHeight |-> 0]
    /\ versions = <<>>
    /\ last_versions = [v \in VoteRange |-> 0]
    /\ current_fork_index = 1
    /\ readd = 0
    /\ pops = 0

CountsAfter_NothingDropped(v) == [last_versions EXCEPT ![v] = @ + 1]

\* The counts once the window has dropped its oldest vote, if it is full, and
\* taken v.  The loop of the code drops one vote: the window is never longer
\* than window_size.
CountsAfter(v) ==
    LET dropped == IF Len(versions) >= window_size
                   THEN [last_versions EXCEPT ![Head(versions)] = @ - 1]
                   ELSE last_versions
    IN  [dropped EXCEPT ![v] = @ + 1]

WindowAfter(v) ==
    Append(IF Len(versions) >= window_size THEN Tail(versions) ELSE versions, v)

\* add(block, height) for a block that passes do_check.
add(b, h) ==
    /\ hf_versions' = [hf_versions EXCEPT ![h] = heights[current_fork_index].version]
    /\ last_versions' = CountsAfter(Vote(b))
    /\ versions' = WindowAfter(Vote(b))
    /\ current_fork_index' = Raised(current_fork_index, h + 1, CountsAfter(Vote(b)))

\* The block is checked, stored and then given to add.  A block that fails
\* the check is refused and changes nothing.
AddBlock(b) ==
    /\ readd = 0
    /\ Height < MaxHeight
    /\ do_check(b)
    /\ blocks' = Append(blocks, b)
    /\ add(b, Height)
    /\ UNCHANGED <<readd, pops>>

\* The window keeps its length when a block is popped: the version recorded
\* for the popped height, in, enters at its old end.
PoppedWindow(in) == <<in>> \o SubSeq(versions, 1, Len(versions) - 1)

\* on_block_popped(1), called once the database has dropped the top block.
PopBlock ==
    /\ readd = 0
    /\ Height > 1
    /\ pops < MaxPops
    /\ blocks' = SubSeq(blocks, 1, Height - 1)
    /\ LET out == versions[Len(versions)]
           in  == hf_versions[Height - 1]
       IN  /\ versions' = PoppedWindow(in)
           /\ last_versions' = [[last_versions EXCEPT ![out] = @ - 1] EXCEPT ![in] = @ + 1]
    /\ current_fork_index' = ForkAt(Height - 1)
    /\ pops' = pops + 1
    /\ UNCHANGED <<hf_versions, readd>>

Lowered_Never(current, v) == current

\* "while (current_fork_index > 0 && heights[current_fork_index].version > v)"
Lowered(current, v) ==
    LET kept == {n \in 1..current : n = 1 \/ heights[n].version <= v}
    IN  Largest(kept)

RescanHeight_OffByOne(h) == IF h >= window_size THEN h - window_size ELSE 0

\* Height of the oldest block of the window that ends at height h.
RescanHeight(h) == IF h >= window_size - 1 THEN h - (window_size - 1) ELSE 0

\* reorganize_from_block_height(h), after the database was cut down to keep
\* blocks: the window ending at h is recounted, then the blocks above h are
\* added again, one ReAdd each, before the lock is released.
Reorganize(keep, h) ==
    /\ readd = 0
    /\ h < keep
    /\ blocks' = SubSeq(blocks, 1, keep)
    /\ LET lo == RescanHeight(h)
           start_version == IF h = 0 THEN original_version ELSE hf_versions[h]
       IN  /\ versions' = VotesOf(lo, h)
           /\ last_versions' = Counts(VotesOf(lo, h))
           /\ current_fork_index' = Raised(Lowered(current_fork_index, start_version),
                                           h + 1, Counts(VotesOf(lo, h)))
    /\ readd' = IF h + 1 < keep THEN h + 1 ELSE 0
    /\ UNCHANGED <<hf_versions, pops>>

\* One turn of the loop that adds the blocks after the reorganisation point.
ReAdd ==
    /\ readd > 0
    /\ IF do_check(blocks[readd + 1])
       THEN add(blocks[readd + 1], readd)
       ELSE UNCHANGED <<hf_versions, versions, last_versions, current_fork_index>>
    /\ readd' = IF readd + 1 < Height THEN readd + 1 ELSE 0
    /\ UNCHANGED <<blocks, pops>>

\* The first fork of version v, the last fork if no fork has it.
IndexOfVersion(v) ==
    IF \E n \in 1..NForks : heights[n].version = v
    THEN CHOOSE n \in 1..NForks : heights[n].version = v
    ELSE NForks

\* Height of the first block that init rescans in a chain of h blocks.
InitHeight(h) == IF h > window_size THEN h - window_size ELSE 0

\* A restart: the members are lost, init and rescan_from_block_height rebuild
\* them from the database.
Restart ==
    /\ readd = 0
    /\ LET w == VotesOf(InitHeight(Height), Height - 1)
       IN  IF Height = 0
           THEN /\ versions' = <<>>
                /\ last_versions' = Counts(<<>>)
                /\ current_fork_index' = 1
           ELSE /\ versions' = w
                /\ last_versions' = Counts(w)
                /\ current_fork_index' = Raised(IndexOfVersion(hf_versions[Height - 1]),
                                                Height, Counts(w))
    /\ UNCHANGED <<blocks, hf_versions, readd, pops>>

Next ==
    \/ \E n \in 1..NForks, m \in MinorVersions :
          AddBlock([major |-> heights[n].version, minor |-> m])
    \/ PopBlock
    \/ \E keep \in 1..Height : \E h \in 0..(keep - 1) : Reorganize(keep, h)
    \/ ReAdd
    \/ Restart

Spec == Init /\ [][Next]_vars
-----------------------------------------------------------------------------
(* Properties *)

\* The types of the state.
TypeOK ==
    /\ blocks \in Seq(Block)
    /\ Height <= MaxHeight
    /\ hf_versions \in [0..MaxHeight -> VoteRange]
    /\ versions \in Seq(VoteRange)
    /\ Len(versions) <= window_size
    /\ last_versions \in [VoteRange -> Int]
    /\ current_fork_index \in 1..NForks
    /\ readd \in Nat
    /\ readd > 0 => readd < Height
    /\ pops \in Nat

\* The deployed fork tables (hardforks.cpp) need no votes.
NoVoting == \A n \in 1..NForks : heights[n].threshold = 0

\* Blocks whose votes the window holds: all of them, or, while a
\* reorganisation is re-adding blocks, those below readd.
Counted == IF readd = 0 THEN Height ELSE readd

\* With a table that needs no votes, the fork in force depends on the height
\* alone: add, on_block_popped, reorganize and init, which compute it in four
\* different ways, agree with get_ideal_version after every history of calls.
ForkByHeight == NoVoting => current_fork_index = ForkAt(Counted)

\* With such a table, every block of the chain carries the version that the
\* table gives for its height, and hf_versions, which pops never clean up,
\* records that version for it: get(height) is right for every past block.
VersionsByHeight ==
    NoVoting => \A h \in 0..(Height - 1) :
                   /\ blocks[h + 1].major = get_ideal_version(h)
                   /\ hf_versions[h] = get_ideal_version(h)

\* The incremental counts are those of the window after every history of
\* adds, pops, reorganisations and restarts: the unsigned counters of
\* last_versions never wrap below zero.
CountsExact == last_versions = Counts(versions)

\* on_block_popped takes versions.back() without asking whether there is one:
\* the window is never empty while there are blocks.
WindowCoversTop == Height > 0 => versions # <<>>

\* The declaration of versions in hardfork.h: "rolling window of the last N
\* blocks' versions".
WindowIsLastVotes ==
    versions = VotesOf(IF Counted > window_size THEN Counted - window_size ELSE 0, Counted - 1)

\* Fork n was due and had its votes among the window_size blocks below height
\* h of the chain: the reference the incremental state is checked against.
HadVotes(n, h) ==
    LET lo == IF h > window_size THEN h - window_size ELSE 0
        forN == {v \in VoteRange : \E m \in n..NForks : v = heights[m].version}
    IN  /\ h >= heights[n].height
        /\ Cardinality({i \in lo..(h - 1) : Vote(blocks[i + 1]) \in forN}) >= threshold(n)

\* get_current_version in hardfork.h: "the latest version that's past its
\* trigger date and had enough votes at one point in the past".
CurrentForkIsLatestVoted ==
    current_fork_index = Largest({1} \cup {n \in 1..NForks : \E h \in 1..Counted : HadVotes(n, h)})
=============================================================================
