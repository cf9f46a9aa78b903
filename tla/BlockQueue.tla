----------------------------- MODULE BlockQueue -----------------------------
(***************************************************************************)
(* The download queue (cryptonote_protocol/block_queue.cpp).  A queue is a *)
(* value: the set of spans, the hashes that some span asked for, and the   *)
(* hashes whose blocks were received, with their height.  Every method of  *)
(* the class that changes the queue is an operator from a queue to a       *)
(* queue; the handlers compose them.  Each method runs under the queue's   *)
(* own mutex, so it is one step.                                           *)
(*                                                                         *)
(* A span is [start, n, hashes, content, conn, late]: nblocks is n, the    *)
(* blocks received are content (<<>> while it is only scheduled) and late  *)
(* says how long ago the span was asked for (0, then past the standby      *)
(* threshold, then past REQUEST_NEXT_SCHEDULED_SPAN_THRESHOLD).  Rates,    *)
(* sizes and addresses are left out.                                       *)
(***************************************************************************)
EXTENDS Pruning, Sequences, FiniteSets

Elems(seq) == {seq[i] : i \in DOMAIN seq}

Least(S) == CHOOSE x \in S : \A y \in S : x <= y

Largest(S) == CHOOSE x \in S : \A y \in S : x >= y

EmptyQueue == [blocks |-> {}, requested |-> {}, have |-> {}]

Filled(s) == s.content # <<>>

\* blocks.begin(): a std::set ordered by start_block_height
Front(q) == CHOOSE s \in q.blocks : \A t \in q.blocks : s.start <= t.start

HashesOf(S) == UNION {Elems(s.hashes) : s \in S}

-----------------------------------------------------------------------------
\* blocks.insert: an element with the same start_block_height is already
\* "equal" for the set, and nothing happens.
Insert(q, s) ==
    IF \E t \in q.blocks : t.start = s.start THEN q
    ELSE [q EXCEPT !.blocks = @ \cup {s}]

\* erase_block on each span of S
Erase_KeepHashes(q, S) == [q EXCEPT !.blocks = @ \ S]

erase_block(q, S) ==
    [blocks    |-> q.blocks \ S,
     requested |-> q.requested \ HashesOf(S),
     have      |-> {e \in q.have : e.hash \notin HashesOf(S)}]

flush_spans(q, conn, all) ==
    erase_block(q, {s \in q.blocks : s.conn = conn /\ (all \/ ~Filled(s))})

flush_stale_spans(q, live) ==
    erase_block(q, {s \in q.blocks : ~Filled(s) /\ s.conn \notin live})

remove_spans(q, conn, start) ==
    erase_block(q, {s \in q.blocks : s.conn = conn /\ s.start <= start})

\* The span is copied, erased with its old hashes and put back with the new ones.
set_span_hashes(q, start, conn, hashes) ==
    LET S == {s \in q.blocks : s.start = start /\ s.conn = conn}
        e == erase_block(q, S)
    IN  IF S = {} THEN q
        ELSE [blocks    |-> e.blocks \cup {[s EXCEPT !.hashes = hashes] : s \in S},
              requested |-> e.requested \cup Elems(hashes),
              have      |-> e.have]

\* have_blocks.emplace leaves an entry that is already there alone.
Emplace(have, hashes, height) ==
    have \cup {[hash |-> hashes[i], height |-> height + i - 1] :
                  i \in {j \in DOMAIN hashes : \A e \in have : e.hash # hashes[j]}}

\* add_blocks with the blocks: takes the place of whatever span starts there,
\* and takes over the hashes that span was reserved for.
add_blocks(q, height, content, conn) ==
    LET old == {s \in q.blocks : s.start = height}
        hashes == (CHOOSE s \in old : TRUE).hashes
        i == Insert(erase_block(q, old),
                    [start |-> height, n |-> Len(content), hashes |-> <<>>,
                     content |-> content, conn |-> conn, late |-> 0])
    IN  IF old = {} THEN i
        ELSE set_span_hashes([blocks    |-> i.blocks,
                              requested |-> i.requested \cup Elems(hashes),
                              have      |-> Emplace(i.have, hashes, height)],
                             height, conn, hashes)

\* add_blocks without the blocks: a span that is only scheduled
add_scheduled(q, height, nblocks, conn) ==
    Insert(q, [start |-> height, n |-> nblocks, hashes |-> <<>>,
               content |-> <<>>, conn |-> conn, late |-> 0])

\* The time of span f: how many of the limits on waiting have passed
SetLate(q, f, late) ==
    [q EXCEPT !.blocks = {IF s = f THEN [s EXCEPT !.late = late] ELSE s : s \in @}]

reset_next_span_time(q) ==
    IF q.blocks = {} \/ Filled(Front(q)) THEN q
    ELSE SetLate(q, Front(q), 0)

-----------------------------------------------------------------------------
requested(q, hash) == hash \in q.requested

have(q, hash) == \E e \in q.have : e.hash = hash

\* have_height(hash) = height, where the C++ returns the largest integer for
\* a hash it does not have
have_height_is(q, hash, height) == [hash |-> hash, height |-> height] \in q.have

get_num_filled_spans(q) == Cardinality({s \in q.blocks : Filled(s)})

\* The span with k - 1 spans before it
Nth(q, k) == CHOOSE s \in q.blocks : Cardinality({t \in q.blocks : t.start < s.start}) = k - 1

\* The scan of get_next_needed_height over the spans in order.  Past the first
\* gap the code returns; going on would change nothing, as no later span
\* starts at or below the gap.
NextNeeded_FirstSpan(q, blockchain_height) ==
    IF q.blocks = {} \/ Front(q).start > blockchain_height THEN blockchain_height
    ELSE Largest({blockchain_height, Front(q).start + Front(q).n})

get_next_needed_height(q, blockchain_height) ==
    LET covered_until[k \in 0..Cardinality(q.blocks)] ==
            IF k = 0 THEN blockchain_height
            ELSE LET s == Nth(q, k)
                     c == covered_until[k - 1]
                 IN  IF s.start + s.n - 1 < blockchain_height \/ s.start > c THEN c
                     ELSE Largest({c, s.start + s.n})
    IN  covered_until[Cardinality(q.blocks)]

\* Whether the first span is at or below height: has_next_span
has_next_span(q, height) == q.blocks # {} /\ Front(q).start <= height

\* get_next_span_if_scheduled finds one
NextIsScheduled(q) == q.blocks # {} /\ ~Filled(Front(q))

\* get_next_span(..., filled = true): the first span with blocks
FilledSpans(q) == {s \in q.blocks : Filled(s)}

get_next_span(q) == CHOOSE s \in FilledSpans(q) : \A t \in FilledSpans(q) : s.start <= t.start

-----------------------------------------------------------------------------
\* The first index from i on whose hash nobody asked for
FirstUnrequested(q, hashes, i) ==
    Least({j \in i..Len(hashes) : hashes[j] \notin q.requested} \cup {Len(hashes) + 1})

\* reserve_span for a peer that keeps the given stripe and whose chain is
\* blockchain_height blocks long: what part of the peer's hash list, which
\* ends at last, to ask for.  n = 0 when there is none.  With
\* sync_pruned_blocks off.
NoSpan == [start |-> 0, n |-> 0, hashes |-> <<>>]

SpanToReserve(q, last, max_blocks, stripe, blockchain_height, hashes) ==
    LET first == last - Len(hashes) + 1
        start1 == first + FirstUnrequested(q, hashes, 1) - 1
        next == get_next_unpruned_block_height(start1, blockchain_height, stripe)
        start2 == IF next > start1 /\ next < start1 + StripeSize THEN next ELSE start1
        i == FirstUnrequested(q, hashes, start2 - first + 1)
        start == first + i - 1
        n == Least({k \in 0..max_blocks :
                       \/ k = max_blocks \/ i + k > Len(hashes)
                       \/ ~has_unpruned_block(start + k, blockchain_height, stripe)})
    IN  IF \/ hashes = <<>> \/ max_blocks = 0 \/ Len(hashes) > last
           \/ start2 >= Len(hashes) + first \/ n = 0
        THEN NoSpan
        ELSE [start |-> start, n |-> n, hashes |-> SubSeq(hashes, i, i + n - 1)]

\* The effect of reserve_span on the queue.  When a span already starts there
\* nothing is stored, and the caller is not told.
reserve_span(q, span, conn) ==
    IF span.n = 0 THEN q
    ELSE set_span_hashes(add_scheduled(q, span.start, span.n, conn),
                         span.start, conn, span.hashes)
=============================================================================
