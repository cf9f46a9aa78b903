-------------------------- MODULE ProtocolHandler --------------------------
(***************************************************************************)
(* Chain synchronisation as the node that downloads sees it                *)
(* (cryptonote_protocol/cryptonote_protocol_handler.inl): per connection   *)
(* the fields of cryptonote_connection_context, one download queue for all *)
(* (BlockQueue), and the loop that hands downloaded spans to the core,     *)
(* which one handler at a time may run (m_sync_lock).                      *)
(*                                                                         *)
(* The handlers of one connection run on its strand, one after the other;  *)
(* those of different connections interleave.  A handler is one step, but  *)
(* for try_add_next_blocks, which is cut where it takes and releases the   *)
(* lock and where the core commits a span: the other threads do not see    *)
(* the blocks of a batch before that.                                      *)
(*                                                                         *)
(* A peer owns a fixed chain and answers requests from it, in order and    *)
(* after any delay.  A bad block fails when it is handed to the core; one  *)
(* with wrong inputs is also stored as invalid, and have_block knows it    *)
(* from then on.  m_sync_pruned_blocks is off, as it is by default, and no *)
(* compiled-in block hashes exist.                                         *)
(***************************************************************************)
EXTENDS BlockQueue, Integers

CONSTANTS
    Conn,           \* the connections
    NoConn,         \* nobody
    Chain,          \* Chain[c]: the main chain of the peer at the other end
    Bad,            \* blocks that fail verification
    BadInputs,      \* those of them that are stored as invalid
    Stripe,         \* Stripe[c]: the stripe the peer keeps, 0 for all
    Income,         \* connections that the peer opened
    Slow,           \* peers whose answer may come after the kick time
    Leaving,        \* peers that may close the connection
    SpanBlocks,     \* get_block_sync_size
    SpanLimit,      \* m_span_limit
    IdsCount,       \* BLOCKS_IDS_SYNCHRONIZING_DEFAULT_COUNT
    MaxOut,         \* get_max_out_peers
    SyncSearch,     \* P2P_DEFAULT_SYNC_SEARCH_CONNECTIONS_COUNT
    MaxCallbacks    \* bound: callbacks requested by timers at the same time

Block == UNION {Elems(Chain[c]) : c \in Conn}

HeightOf == [b \in Block |-> (CHOOSE i \in UNION {DOMAIN Chain[c] : c \in Conn} :
                                 \E c \in Conn : i \in DOMAIN Chain[c] /\ Chain[c][i] = b) - 1]

ASSUME SyncConstants ==
    /\ NoConn \notin Conn
    /\ \A c \in Conn : /\ Chain[c] \in Seq(Elems(Chain[c])) \ {<<>>}
                        /\ Stripe[c] \in 0..Stripes
    /\ \A c, d \in Conn : \A i \in DOMAIN Chain[c], j \in DOMAIN Chain[d] :
          Chain[c][i] = Chain[d][j] => i = j /\ SubSeq(Chain[c], 1, i) = SubSeq(Chain[d], 1, j)
    /\ \A c, d \in Conn : Chain[c][1] = Chain[d][1]

\* The blocks from genesis to b, b included
Ancestors == [b \in Block |-> {a \in Block : \E c \in Conn : \E i \in DOMAIN Chain[c] :
                                  Chain[c][i] = b /\ \E j \in 1..i : Chain[c][j] = a}]

Parent(b) == CHOOSE a \in Ancestors[b] : HeightOf[a] = HeightOf[b] - 1

NoHash == "null_hash"
AnyHeight == Cardinality(Block) + 2     \* the largest uint64_t

VARIABLES
    ctx,            \* the context of each connection
    queue,          \* m_block_queue
    chan,           \* requests a peer has not answered yet
    known,          \* blocks of the main and the alternative chains
    invalid,        \* m_invalid_blocks
    tip,            \* top of the main chain
    target,         \* m_core's target blockchain height
    adder,          \* who holds m_sync_lock
    span,           \* the span that is being added
    last_add,       \* m_last_add_end_time: "never", "recent", or "long_ago"
    m_synchronized

vars == <<ctx, queue, chan, known, invalid, tip, target, adder, span, last_add, m_synchronized>>

NewContext ==
    [up |-> "open", pc |-> "idle", force |-> FALSE, entry |-> FALSE,
     state |-> "before_handshake", needed |-> <<>>, expected |-> <<>>,
     expected_start |-> 0, requested |-> {}, remote |-> 0, last_response_height |-> 0,
     last_request_time |-> "unset", callbacks |-> 0, last_known_hash |-> NoHash,
     score |-> 0, expect_response |-> "none", expect_height |-> 0,
     num_requested |-> FALSE, idle_peer |-> FALSE, new_stripe |-> FALSE]

NoSpanToAdd == [start |-> 0, content |-> <<>>, conn |-> NoConn, height |-> 0,
                failed |-> FALSE, orphaned |-> FALSE]

Init ==
    /\ ctx = [c \in Conn |-> NewContext]
    /\ queue = EmptyQueue
    /\ chan = [c \in Conn |-> <<>>]
    /\ \E c \in Conn : tip = Chain[c][1] /\ known = {Chain[c][1]}
    /\ invalid = {}
    /\ target = 0
    /\ adder = NoConn
    /\ span = NoSpanToAdd
    /\ last_add = "never"
    /\ m_synchronized = FALSE

-----------------------------------------------------------------------------
\* What the handlers read

Height == HeightOf[tip] + 1

have_block(b) == b \in known \cup invalid

live == {c \in Conn : ctx[c].up # "closed"}

\* m_state >= state_synchronizing
Syncing(c) == ctx[c].state \in {"synchronizing", "standby", "normal"}

PeerHeight(c) == Len(Chain[c])

set_state_normal(x) ==
    [x EXCEPT !.state = "normal", !.expected_start = 0, !.needed = <<>>,
              !.expected = <<>>, !.requested = {}]

Expected(x, height, hash) ==
    LET i == height - x.expected_start + 1
    IN  i \in DOMAIN x.expected /\ x.expected[i] = hash

get_next_needed_pruning_stripe ==
    LET want == get_next_needed_height(queue, Height)
    IN  IF target = 0 THEN ((want \div StripeSize) % Stripes) + 1
        ELSE get_pruning_stripe(want, target)

should_download_next_span(c, x, q, standby, faster) ==
    /\ x.remote > Height
    /\ has_unpruned_block(Height, x.remote, Stripe[c])
    /\ \/ ~has_next_span(q, Height)
       \/ /\ ~Filled(Front(q))
          /\ Front(q).late = 2 \/ (standby /\ Front(q).late = 1 /\ faster)

should_drop_connection(c, x, next_stripe) ==
    /\ Stripe[c] # 0
    /\ next_stripe # Stripe[c]
    /\ x.needed # <<>> =>
          ~has_unpruned_block(x.last_response_height - Len(x.needed) + 1, x.remote, Stripe[c])
    /\ next_stripe > 0
    /\ LET out == Cardinality(live \ Income)
           on_next == Cardinality({d \in live : Syncing(d) /\ Stripe[d] = next_stripe})
           distance == (Stripe[c] + Stripes - next_stripe) % Stripes
       IN  \/ out >= MaxOut /\ on_next = 0
           \/ distance > 1 /\ on_next <= 2
           \/ distance > 2

skip_unneeded_hashes_Everywhere(x, q, check_block_queue) ==
    LET needed == SelectSeq(x.needed, LAMBDA b : ~(have_block(b) \/ (check_block_queue /\ have(q, b))))
    IN  [n |-> Len(x.needed) - Len(needed), x |-> [x EXCEPT !.needed = needed]]

skip_unneeded_hashes(x, q, check_block_queue) ==
    LET unneeded(b) == have_block(b) \/ (check_block_queue /\ have(q, b))
        skip == Least({i \in 0..Len(x.needed) :
                          i = Len(x.needed) \/ ~unneeded(x.needed[i + 1])})
    IN  [n |-> skip,
         x |-> [x EXCEPT !.needed = SubSeq(@, skip + 1, Len(@)),
                         !.last_known_hash = IF skip > 0 /\ skip = Len(x.needed)
                                             THEN x.needed[skip] ELSE @]]

-----------------------------------------------------------------------------
\* NOTIFY_REQUEST_CHAIN and the peer's find_blockchain_supplement.  The ids
\* are the main chain, newest first, behind last_known_hash when that is
\* sent; the peer takes the first one it has.  A pruned peer that lacks that
\* block says nothing, and one that has it stops where its stripe ends.
SplitHeight(c, last_known) ==
    IF last_known \in Elems(Chain[c]) THEN HeightOf[last_known]
    ELSE Largest({HeightOf[b] : b \in Ancestors[tip] \cap Elems(Chain[c])})

StopHeight(c, start) ==
    Least({start + IdsCount, get_next_pruned_block_height(start, PeerHeight(c), Stripe[c])})

AskChain(c, last_known) ==
    LET start == SplitHeight(c, last_known)
    IN  IF start < get_next_unpruned_block_height(start, PeerHeight(c), Stripe[c]) THEN <<>>
        ELSE << [kind |-> "chain", start |-> start, hashes |-> <<>>] >>

AskObjects(hashes) == << [kind |-> "objects", start |-> 0, hashes |-> hashes] >>

\* What the peer finds of the blocks it is asked for
Answer(c, r) ==
    IF r.kind = "chain"
    THEN SubSeq(Chain[c], r.start + 1, StopHeight(c, r.start))
    ELSE SelectSeq(r.hashes, LAMBDA b : b \in Elems(Chain[c]))

-----------------------------------------------------------------------------
\* request_missing_objects, in two steps: whether to download now, then what.
\* A result says whether to keep the connection, what is left in the context
\* and in the queue, the request that is sent, and whether
\* on_connection_synchronized is called.  The caller returns; when that is
\* handle_response_chain_entry (entry), it first resets m_num_requested.
Return(x) ==
    [x EXCEPT !.pc = "idle", !.force = FALSE, !.entry = FALSE,
              !.num_requested = @ /\ ~x.entry]

Result(ok, x, q) == [ok |-> ok, x |-> Return(x), q |-> q, send |-> <<>>, synced |-> FALSE]

\* Out of the first step, to the second
GoOn(x, q, force) ==
    [Result(TRUE, x, q) EXCEPT !.x = [x EXCEPT !.pc = "download", !.force = force]]

\* "Nothing we can request from this peer" or "it's not ahead of us, all done"
NothingNeeded(x, q) ==
    IF x.remote > get_next_needed_height(q, Height) THEN Result(FALSE, x, q)
    ELSE [Result(TRUE, set_state_normal(x), q) EXCEPT !.synced = Height >= target]

\* Nobody is ahead of this peer, nor is the peer ahead of us.
ReachedTarget_Passed(x) == x.remote >= target /\ Height > target

ReachedTarget(x) == x.remote >= target /\ Height >= target

\* The label skip: ask for more hashes, or stop
RequestChain(c, y, q) ==
    LET x == [y EXCEPT !.needed = <<>>]
        lead == x.last_known_hash \notin {NoHash, tip}
    IN  IF Height < target /\ adder = NoConn /\ FilledSpans(q) # {}
        THEN Result(TRUE, [x EXCEPT !.state = "standby", !.callbacks = @ + 1], q)
        ELSE IF x.last_response_height < x.remote - 1
        THEN [Result(TRUE,
                     [x EXCEPT !.expect_height = IF lead THEN AnyHeight ELSE Height,
                               !.last_request_time = "recent",
                               !.expect_response = "chain"], q)
              EXCEPT !.send = AskChain(c, IF lead THEN x.last_known_hash ELSE NoHash)]
        ELSE IF x.last_response_height = x.remote - 1 /\ x.requested = {}
        THEN [Result(TRUE, set_state_normal(x), q)
              EXCEPT !.synced = ReachedTarget(x)]
        ELSE Result(FALSE, x, q)

\* Asks for the blocks of span s
SendRequest_Untimed(c, x, q, s) ==
    [Result(TRUE, [x EXCEPT !.requested = @ \cup Elems(s.hashes), !.expect_height = s.start,
                            !.expect_response = "objects", !.num_requested = TRUE], q)
     EXCEPT !.send = AskObjects(s.hashes)]

SendRequest_AnyStripe(c, x, q, s) ==
    [Result(TRUE, [x EXCEPT !.requested = @ \cup Elems(s.hashes), !.last_request_time = "recent",
                            !.expect_height = s.start, !.expect_response = "objects",
                            !.num_requested = TRUE], q)
     EXCEPT !.send = AskObjects(s.hashes)]

SendRequest(c, x, q, s) ==
    LET stripes == {get_pruning_stripe(s.start, x.remote),
                    get_pruning_stripe(s.start + s.n - 1, x.remote)}
    IN  IF Stripe[c] # 0 /\ ~(stripes \subseteq {0, Stripe[c]}) THEN Result(FALSE, x, q)
        ELSE [Result(TRUE,
                     [x EXCEPT !.requested = @ \cup Elems(s.hashes),
                               !.last_request_time = "recent",
                               !.expect_height = s.start,
                               !.expect_response = "objects",
                               !.num_requested = TRUE], q)
              EXCEPT !.send = AskObjects(s.hashes)]

\* No span is scheduled first, or nobody wants it: reserve s for the hashes
\* that are left in x.  skipped says whether some were skipped.
ReserveAndRequest(c, x, skipped, s, q, force) ==
    LET first == x.last_response_height - Len(x.needed) + 1
        next == Front(q)
    IN  IF skipped /\ x.needed = <<>> /\ ~x.num_requested THEN NothingNeeded(x, q)
        ELSE IF s.n > 0
        THEN SendRequest(c, [x EXCEPT !.needed = SubSeq(@, s.start - first + s.n + 1, Len(@))],
                         reserve_span(q, s, c), s)
        ELSE IF ~force /\ NextIsScheduled(q) /\ has_unpruned_block(next.start, x.remote, Stripe[c])
        THEN SendRequest(c, [x EXCEPT !.needed = SelectSeq(@, LAMBDA b : b \notin Elems(next.hashes))],
                         q, next)
        ELSE IF get_next_needed_height(q, Height) >= target
        THEN Result(TRUE, set_state_normal(x), q)
        ELSE Result(FALSE, x, q)

\* The second part, for what skip_unneeded_hashes (sk) and reserve_span (s)
\* would give
Download(c, x, q, force, sk, s) ==
    IF x.needed = <<>> /\ ~force THEN RequestChain(c, x, q)
    ELSE IF force /\ NextIsScheduled(q) THEN SendRequest(c, x, reset_next_span_time(q), Front(q))
    ELSE IF x.last_response_height + 1 < Len(x.needed)
    THEN RequestChain(c, [x EXCEPT !.last_response_height = 0], q)
    ELSE ReserveAndRequest(c, sk.x, sk.n > 0, s, q, force)

\* Not now: adding first if that is possible, else standby
Pause_AnyTime(c, x, q) ==
    LET standby == [x EXCEPT !.state = "standby"]
    IN  IF adder = NoConn /\ has_next_span(q, Height) /\ Filled(Front(q))
        THEN Result(TRUE, [standby EXCEPT !.callbacks = @ + 1], q)
        ELSE Result(adder # NoConn, standby, q)

Pause(c, x, q) ==
    LET standby == [x EXCEPT !.state = "standby"]
    IN  IF adder = NoConn /\ has_next_span(q, Height) /\ Filled(Front(q))
        THEN Result(TRUE, [standby EXCEPT !.callbacks = @ + 1], q)
        ELSE IF adder = NoConn /\ c \notin Income /\ last_add = "long_ago"
        THEN Result(FALSE, x, q)
        ELSE Result(TRUE, standby, q)

\* The first part, after flush_stale_spans left q and skip_unneeded_hashes
\* left x
ShouldDownload(c, x, skipped, q, faster) ==
    LET next_needed == get_next_needed_height(q, Height)
        next_block == IF x.needed = <<>> THEN next_needed
                      ELSE x.last_response_height - Len(x.needed) + 1
        main == /\ next_needed < Largest({next_block, Height + 1})
                /\ \/ Stripe[c] = 0
                   \/ get_pruning_stripe(Height, x.remote) \in {0, Stripe[c]}
        secondary == has_unpruned_block(next_block, x.remote, Stripe[c])
        queue_proceed == IF next_needed = Height THEN main
                         ELSE get_num_filled_spans(q) < SpanLimit
        resumed == [x EXCEPT !.state = "synchronizing"]
    IN  IF skipped /\ x.needed = <<>> /\ ~x.num_requested THEN NothingNeeded(x, q)
        ELSE IF /\ ~main /\ ~secondary
                /\ should_drop_connection(c, x, get_pruning_stripe(next_block, x.remote))
        THEN Result(FALSE, x, q)
        ELSE IF main /\ should_download_next_span(c, x, q, TRUE, faster) THEN GoOn(resumed, q, TRUE)
        ELSE IF queue_proceed /\ (main \/ secondary) THEN GoOn(resumed, q, FALSE)
        ELSE Pause(c, x, q)

-----------------------------------------------------------------------------
\* The steps

\* drop_connection: the connection is asked to close, which happens later
Dropped(x) == [x EXCEPT !.up = "closing", !.pc = "idle"]

\* What request_missing_objects and its caller do with a result
Apply(c, r) ==
    /\ ctx' = [ctx EXCEPT ![c] = IF r.ok THEN r.x ELSE Dropped(r.x)]
    /\ queue' = IF r.ok THEN r.q ELSE flush_spans(r.q, c, FALSE)
    /\ chan' = [chan EXCEPT ![c] = @ \o r.send]
    /\ m_synchronized' = (m_synchronized \/ r.synced)
    /\ target' = IF r.ok /\ ctx[c].entry /\ r.x.pc = "idle" THEN Largest({target, ctx[c].remote})
                 ELSE target
    /\ UNCHANGED <<known, invalid, tip, adder, span, last_add>>

\* A handler of c may start: the strand is free and the connection open.
Ready(c) == ctx[c].up = "open" /\ ctx[c].pc = "idle"

DropSelf_FlushAll(c, x) ==
    /\ ctx' = [ctx EXCEPT ![c] = Dropped(x)]
    /\ queue' = flush_spans(queue, c, TRUE)

DropSelf(c, x) ==
    /\ ctx' = [ctx EXCEPT ![c] = Dropped(x)]
    /\ queue' = flush_spans(queue, c, FALSE)

\* process_payload_sync_data, from the handshake and from a timed sync
process_payload_sync_data(c, is_inital) ==
    LET h == PeerHeight(c)
        x == [ctx[c] EXCEPT !.remote = h]
        t == IF target = 0 THEN Height ELSE target
    IN  /\ Ready(c)
        /\ (ctx[c].state = "before_handshake") = is_inital
        /\ ctx[c].state # "synchronizing"
        /\ IF have_block(Chain[c][h])
           THEN /\ ctx' = [ctx EXCEPT ![c] = set_state_normal(x)]
                /\ m_synchronized' = (m_synchronized \/ (is_inital /\ h >= t /\ t = Height))
                /\ UNCHANGED <<target, last_add>>
           ELSE /\ ctx[c].callbacks < MaxCallbacks
                /\ ctx' = [ctx EXCEPT ![c] = [x EXCEPT !.state = "synchronizing",
                                                      !.callbacks = @ + 1,
                                                      !.num_requested = FALSE]]
                /\ target' = IF h > t THEN h ELSE target
                /\ last_add' = IF h > t /\ target = 0 THEN "never" ELSE last_add
                /\ UNCHANGED m_synchronized
        /\ UNCHANGED <<queue, chan, known, invalid, tip, adder, span>>

Handshake(c) == process_payload_sync_data(c, TRUE)

TimedSync(c) == process_payload_sync_data(c, FALSE)

\* on_callback: kick a peer that does not answer, take note of a new stripe,
\* then ask for hashes or go and add blocks.
on_callback(c) ==
    LET a == [ctx[c] EXCEPT !.callbacks = @ - 1, !.idle_peer = FALSE]
        late == ctx[c].idle_peer /\ a.state = "synchronizing" /\ a.last_request_time = "old"
        k == IF late THEN [a EXCEPT !.score = @ - 1, !.last_request_time = "unset",
                                    !.expect_response = "none", !.expect_height = 0,
                                    !.requested = {}, !.state = "standby"]
             ELSE a
        x == [k EXCEPT !.new_stripe = FALSE,
                       !.state = IF k.new_stripe /\ k.state = "normal" THEN "synchronizing" ELSE @]
    IN  /\ Ready(c)
        /\ ctx[c].callbacks > 0
        /\ IF late /\ a.score < 0
           THEN DropSelf(c, [a EXCEPT !.score = @ - 1]) /\ UNCHANGED chan
           ELSE IF x.state = "synchronizing" /\ x.last_request_time = "unset"
           THEN /\ ctx' = [ctx EXCEPT ![c] = [x EXCEPT !.needed = <<>>,
                                                      !.expect_height = Height,
                                                      !.last_request_time = "recent",
                                                      !.expect_response = "chain"]]
                /\ chan' = [chan EXCEPT ![c] = @ \o AskChain(c, NoHash)]
                /\ UNCHANGED queue
           ELSE /\ ctx' = [ctx EXCEPT ![c] = IF x.state = "standby"
                                             THEN [x EXCEPT !.state = "synchronizing", !.pc = "lock"]
                                             ELSE x]
                /\ UNCHANGED <<queue, chan>>
        /\ UNCHANGED <<known, invalid, tip, target, adder, span, last_add, m_synchronized>>

\* The timers of on_idle.  They run outside the strands, and leave noted[c] in
\* the context of a connection they want called back.
CallBack(S, noted) ==
    LET T == {c \in S : ctx[c].up = "open" /\ ctx[c].callbacks < MaxCallbacks}
    IN  /\ T # {}
        /\ ctx' = [c \in Conn |-> IF c \in T THEN [noted[c] EXCEPT !.callbacks = @ + 1] ELSE ctx[c]]
        /\ UNCHANGED <<queue, chan, known, invalid, tip, target, adder, span, last_add, m_synchronized>>

kick_idle_peers ==
    CallBack({c \in Conn : ctx[c].state = "synchronizing" /\ ctx[c].last_request_time = "old"},
             [c \in Conn |-> [ctx[c] EXCEPT !.idle_peer = TRUE]])

check_standby_peers ==
    CallBack({c \in Conn : ctx[c].state = "standby"}, ctx)

\* update_sync_search: once synced, if all the outgoing peers are and there is
\* no room for another, drop one of them to look further.
update_sync_search ==
    LET out == {c \in live \ Income : ctx[c].state \in {"synchronizing", "normal"}}
        syncing == {c \in out : ctx[c].state = "synchronizing"}
    IN  /\ target <= Height
        /\ Cardinality(out) >= MaxOut
        /\ Cardinality(syncing) < SyncSearch
        /\ \E c \in out \ syncing :
              /\ ctx[c].up = "open"
              /\ ctx' = [ctx EXCEPT ![c].up = "closing"]
              /\ queue' = flush_spans(queue, c, FALSE)
        /\ UNCHANGED <<chan, known, invalid, tip, target, adder, span, last_add, m_synchronized>>

\* The peer's answer to the oldest request
handle_response_chain_entry(c) ==
    LET req == Head(chan[c])
        ids == Answer(c, req)
        a == [ctx[c] EXCEPT !.expect_response = "none"]
        x == [a EXCEPT !.last_request_time = "unset", !.remote = PeerHeight(c),
                       !.last_response_height = req.start + Len(ids) - 1,
                       !.expected_start = req.start, !.expected = ids, !.needed = ids]
        first_known == have_block(ids[1]) \/ have_height_is(queue, ids[1], req.start)
        invalid_later == \E i \in DOMAIN ids \ {1} : ids[i] \in invalid
        known_after_unknown == \E i, j \in DOMAIN ids : i < j /\ ~have_block(ids[i]) /\ ids[j] \in known
        accepted == /\ ctx[c].expect_response = "chain"
                    /\ req.start + 1 <= ctx[c].expect_height
                    /\ first_known /\ ~invalid_later /\ ~known_after_unknown
    IN  /\ Ready(c)
        /\ chan[c] # <<>> /\ req.kind = "chain"
        /\ IF ~accepted
           THEN DropSelf(c, a)
           ELSE /\ ctx' = [ctx EXCEPT ![c] = [x EXCEPT !.pc = "request", !.entry = TRUE]]
                /\ UNCHANGED queue
        /\ chan' = [chan EXCEPT ![c] = Tail(@)]
        /\ UNCHANGED <<known, invalid, tip, target, adder, span, last_add, m_synchronized>>

\* Whether the blocks parse and are what the connection was asked for: a piece
\* of the chain it announced, with the block before it, and nothing missing.
ValidObjects(x, blocks) ==
    /\ blocks \in Seq(Block)
    /\ \A i \in DOMAIN blocks : Expected(x, HeightOf[blocks[i]], blocks[i])
    /\ HeightOf[blocks[1]] \in 1..x.expect_height
    /\ Expected(x, HeightOf[blocks[1]] - 1, Parent(blocks[1]))
    /\ \A i \in 2..Len(blocks) : Parent(blocks[i]) = blocks[i - 1]
    /\ Elems(blocks) = x.requested

handle_response_get_objects(c) ==
    LET r == Head(chan[c])
        blocks == Answer(c, r)
        x == [ctx[c] EXCEPT !.expect_response = "none", !.last_request_time = "unset"]
    IN  /\ Ready(c)
        /\ chan[c] # <<>> /\ r.kind = "objects"
        /\ chan' = [chan EXCEPT ![c] = Tail(@)]
        /\ IF ctx[c].expect_response # "objects" \/ blocks = <<>>
           THEN DropSelf(c, x) /\ UNCHANGED target
           ELSE /\ target' = Largest({target, PeerHeight(c)})
                /\ IF ~ValidObjects(x, blocks) THEN DropSelf(c, x)
                   ELSE /\ queue' = add_blocks(queue, HeightOf[blocks[1]], blocks, c)
                        /\ ctx' = [ctx EXCEPT ![c] = [x EXCEPT !.remote = PeerHeight(c),
                                                              !.requested = {},
                                                              !.last_known_hash = blocks[Len(blocks)],
                                                              !.pc = "lock"]]
        /\ UNCHANGED <<known, invalid, tip, adder, span, last_add, m_synchronized>>

-----------------------------------------------------------------------------
\* try_add_next_blocks

At(c, pc) == ctx[c].pc = pc

Goto(c, pc) == ctx' = [ctx EXCEPT ![c].pc = pc]

\* Leaving the scope of the lock: m_last_add_end_time is set if anything was
\* tried (starting is false).
Unlock ==
    /\ adder' = NoConn
    /\ span' = NoSpanToAdd
    /\ last_add' = IF span.conn = NoConn THEN last_add ELSE "recent"

TryLock(c) ==
    /\ At(c, "lock")
    /\ \/ adder # NoConn /\ Goto(c, "request") /\ UNCHANGED adder
       \/ adder = NoConn /\ Goto(c, "next") /\ adder' = c
    /\ UNCHANGED <<queue, chan, known, invalid, tip, target, span, last_add, m_synchronized>>

\* The top of the loop looks at the first span with blocks.
Nothing == FilledSpans(queue) = {}

NextFilled == get_next_span(queue)

Old == have_block(NextFilled.content[Len(NextFilled.content)])

Prev == Parent(NextFilled.content[1])

\* Nothing to add, or the block before was requested and will come
NothingToAdd(c) ==
    /\ At(c, "next")
    /\ \/ Nothing
       \/ ~Nothing /\ ~Old /\ ~have_block(Prev) /\ requested(queue, Prev)
    /\ Goto(c, "stop")
    /\ UNCHANGED <<queue, chan, known, invalid, tip, target, adder, span, last_add, m_synchronized>>

IgnoreOldSpan_Kept(c) ==
    /\ At(c, "next")
    /\ ~Nothing /\ Old
    /\ UNCHANGED vars

IgnoreOldSpan(c) ==
    /\ At(c, "next")
    /\ ~Nothing /\ Old
    /\ queue' = remove_spans(queue, NextFilled.conn, NextFilled.start)
    /\ UNCHANGED <<ctx, chan, known, invalid, tip, target, adder, span, last_add, m_synchronized>>

\* Nobody asked for the block before: wait for it, or start again from the
\* block hashes if this is the span that is needed next.
UnknownParent(c) ==
    /\ At(c, "next")
    /\ ~Nothing /\ ~Old /\ ~have_block(Prev) /\ ~requested(queue, Prev)
    /\ IF NextFilled.start <= Height
       THEN /\ queue' = remove_spans(queue, NextFilled.conn, NextFilled.start)
            /\ ctx' = [ctx EXCEPT ![c] = [@ EXCEPT !.pc = "request", !.needed = <<>>,
                                                  !.last_response_height = 0]]
       ELSE IF should_drop_connection(c, ctx[c], get_next_needed_pruning_stripe)
       THEN /\ ctx' = [ctx EXCEPT ![c] = Dropped(@)]
            /\ queue' = flush_spans(queue, c, TRUE)
       ELSE Goto(c, "request") /\ UNCHANGED queue
    /\ Unlock
    /\ UNCHANGED <<chan, known, invalid, tip, target, m_synchronized>>

PickSpan_AnyParent(c) ==
    /\ At(c, "next")
    /\ ~Nothing /\ ~Old
    /\ span' = [start |-> NextFilled.start, content |-> NextFilled.content, conn |-> NextFilled.conn,
                height |-> Height, failed |-> FALSE, orphaned |-> FALSE]
    /\ Goto(c, "verify")
    /\ UNCHANGED <<queue, chan, known, invalid, tip, target, adder, last_add, m_synchronized>>

PickSpan(c) ==
    /\ At(c, "next")
    /\ ~Nothing /\ ~Old /\ have_block(Prev)
    /\ span' = [start |-> NextFilled.start, content |-> NextFilled.content, conn |-> NextFilled.conn,
                height |-> Height, failed |-> FALSE, orphaned |-> FALSE]
    /\ Goto(c, "verify")
    /\ UNCHANGED <<queue, chan, known, invalid, tip, target, adder, last_add, m_synchronized>>

\* The blocks of the span that the core takes: up to the first that fails, and
\* none if the parent is not in the main or an alternative chain
Good == {i \in DOMAIN span.content : /\ Parent(span.content[1]) \in known
                                      /\ \A j \in 1..i : span.content[j] \notin Bad}

FirstNotGood == {i \in DOMAIN span.content \ Good : \A j \in 1..(i - 1) : j \in Good}

\* The block after that is an orphan if its parent is stored as invalid, or
\* if it is itself: then it "already exists", and the next is the orphan.
Orphaned ==
    /\ Good # DOMAIN span.content
    /\ \/ Parent(span.content[1]) \notin known
       \/ \E i \in FirstNotGood : span.content[i] \in invalid

\* handle_incoming_block on each block.  When one fails or is an orphan, the
\* peer that sent the span is dropped with all its spans.
VerifySpan(c) ==
    LET failed == Good # DOMAIN span.content
        drop == failed /\ span.conn \in live
    IN  /\ At(c, "verify")
        /\ span' = [span EXCEPT !.failed = failed, !.orphaned = Orphaned]
        /\ invalid' = IF Orphaned THEN invalid
                      ELSE invalid \cup (BadInputs \cap {span.content[i] : i \in FirstNotGood})
        /\ ctx' = [d \in Conn |->
                      LET x == IF d = c THEN [ctx[d] EXCEPT !.pc = "commit"] ELSE ctx[d]
                      IN  IF drop /\ d = span.conn THEN [x EXCEPT !.up = "closing"] ELSE x]
        /\ queue' = IF drop THEN flush_spans(queue, span.conn, TRUE) ELSE queue
        /\ UNCHANGED <<chan, known, tip, target, adder, last_add, m_synchronized>>

\* cleanup_handle_incoming_blocks: the batch is committed
CommitSpan(c) ==
    LET new == {span.content[i] : i \in Good}
        best == CHOOSE b \in known \cup new : \A d \in new \cup {tip} : HeightOf[b] >= HeightOf[d]
    IN  /\ At(c, "commit")
        /\ known' = known \cup new
        /\ tip' = IF HeightOf[best] > HeightOf[tip] THEN best ELSE tip
        /\ Goto(c, "remove")
        /\ UNCHANGED <<queue, chan, invalid, target, adder, span, last_add, m_synchronized>>

\* remove_spans, then notify_new_stripe and around the loop, or out of it
\* when a block failed
RemoveSpan(c) ==
    LET old_stripe == get_pruning_stripe(span.height, target)
        stripe == get_pruning_stripe(Height, target)
        notified == {d \in Conn : /\ ~span.failed /\ Height > span.height /\ old_stripe # stripe
                                  /\ d # c /\ d \in live /\ ctx[d].state = "normal"
                                  /\ 0 \in {stripe, Stripe[d]} \/ Stripe[d] = stripe}
    IN  /\ At(c, "remove")
        /\ queue' = remove_spans(queue, span.conn, span.start)
        /\ ctx' = [d \in Conn |->
                      IF d = c THEN [ctx[d] EXCEPT !.pc = IF span.failed THEN "idle" ELSE "next"]
                      ELSE IF d \in notified
                      THEN [ctx[d] EXCEPT !.new_stripe = TRUE, !.callbacks = @ + 1]
                      ELSE ctx[d]]
        /\ IF span.failed THEN Unlock ELSE UNCHANGED <<adder, span, last_add>>
        /\ UNCHANGED <<chan, known, invalid, tip, target, m_synchronized>>

\* After the loop, with the lock still held
StopAdding(c) ==
    /\ At(c, "stop")
    /\ Unlock
    /\ IF should_download_next_span(c, ctx[c], queue, FALSE, FALSE)
       THEN /\ ctx' = [ctx EXCEPT ![c] = [@ EXCEPT !.pc = "request", !.force = TRUE]]
            /\ UNCHANGED queue
       ELSE IF should_drop_connection(c, ctx[c], get_next_needed_pruning_stripe)
       THEN IF c \in Income THEN Goto(c, "idle") /\ UNCHANGED queue
            ELSE DropSelf(c, ctx[c])
       ELSE Goto(c, "request") /\ UNCHANGED queue
    /\ UNCHANGED <<chan, known, invalid, tip, target, m_synchronized>>

\* request_missing_objects
RequestMore(c) ==
    /\ At(c, "request")
    /\ \E q \in {flush_stale_spans(queue, live)} :
          IF ctx[c].force THEN Apply(c, GoOn(ctx[c], q, TRUE))
          ELSE \E sk \in {skip_unneeded_hashes(ctx[c], q, TRUE)} :
               \E r \in {ShouldDownload(c, sk.x, sk.n > 0, q, faster) : faster \in BOOLEAN} :
                  Apply(c, r)

Request(c) ==
    /\ At(c, "download")
    /\ \E sk \in {skip_unneeded_hashes(ctx[c], queue, FALSE)} :
       \E s \in {SpanToReserve(queue, ctx[c].last_response_height, SpanBlocks, Stripe[c],
                               ctx[c].remote, sk.x.needed)} :
       \E r \in {Download(c, ctx[c], queue, ctx[c].force, sk, s)} :
          Apply(c, r)

-----------------------------------------------------------------------------
\* The connection goes away: on_connection_close
on_connection_close(c) ==
    LET heights == {0} \cup {ctx[d].remote : d \in {e \in live \ {c} : Syncing(e)}}
    IN  /\ ctx[c].pc = "idle"
        /\ ctx[c].up = "closing" \/ (ctx[c].up = "open" /\ c \in Leaving)
        /\ ctx' = [ctx EXCEPT ![c] = [NewContext EXCEPT !.up = "closed"]]
        /\ chan' = [chan EXCEPT ![c] = <<>>]
        /\ queue' = flush_spans(queue, c, FALSE)
        /\ target' = IF Largest(heights) < target THEN Largest(heights) ELSE target
        /\ UNCHANGED <<known, invalid, tip, adder, span, last_add, m_synchronized>>

\* Time passes for a request, for the span that is needed next, for the adder.
\* The last is only looked at when nobody adds.
RequestGetsOld(c) ==
    /\ c \in Slow /\ ctx[c].up = "open" /\ ctx[c].last_request_time = "recent"
    /\ ctx' = [ctx EXCEPT ![c].last_request_time = "old"]
    /\ UNCHANGED <<queue, chan, known, invalid, tip, target, adder, span, last_add, m_synchronized>>

SpanGetsLate ==
    /\ NextIsScheduled(queue)
    /\ Front(queue).conn \in Slow /\ Front(queue).late < 2
    /\ queue' = SetLate(queue, Front(queue), Front(queue).late + 1)
    /\ UNCHANGED <<ctx, chan, known, invalid, tip, target, adder, span, last_add, m_synchronized>>

AddingGetsOld ==
    /\ last_add = "recent" /\ adder = NoConn
    /\ last_add' = "long_ago"
    /\ UNCHANGED <<ctx, queue, chan, known, invalid, tip, target, adder, span, m_synchronized>>

\* A handler that has begun goes on.
AddingStep(c) ==
    \/ TryLock(c) \/ NothingToAdd(c) \/ IgnoreOldSpan(c) \/ UnknownParent(c)
    \/ PickSpan(c) \/ VerifySpan(c) \/ CommitSpan(c) \/ RemoveSpan(c) \/ StopAdding(c)
    \/ RequestMore(c) \/ Request(c)

Response(c) == handle_response_chain_entry(c) \/ handle_response_get_objects(c)

\* Everything but the timed syncs
OtherStep ==
    \/ \E c \in Conn :
          \/ Handshake(c) \/ on_callback(c) \/ Response(c) \/ AddingStep(c)
          \/ on_connection_close(c) \/ RequestGetsOld(c)
    \/ kick_idle_peers \/ check_standby_peers \/ update_sync_search \/ SpanGetsLate \/ AddingGetsOld

Next == OtherStep \/ \E c \in Conn : TimedSync(c)

Spec == Init /\ [][Next]_vars

\* A timed sync is only counted on where nothing else would wake the connection.
Fairness ==
    /\ \A c \in Conn :
          /\ WF_vars(Handshake(c)) /\ WF_vars(on_callback(c))
          /\ WF_vars(ctx[c].state = "normal" /\ TimedSync(c))
          /\ WF_vars(Response(c)) /\ WF_vars(AddingStep(c))
          /\ WF_vars(ctx[c].up = "closing" /\ on_connection_close(c))
          /\ SF_vars(ctx[c].state = "standby" /\ on_callback(c))
    /\ WF_vars(kick_idle_peers) /\ SF_vars(check_standby_peers)

FairSpec == Spec /\ Fairness

\* The behaviours in which no timed sync, once a minute, finds a connection in
\* the standby that check_standby_peers looks for ten times a second
QuietNext == OtherStep \/ \E c \in Conn : ctx[c].state # "standby" /\ TimedSync(c)

QuietSpec == Init /\ [][QuietNext]_vars /\ Fairness

-----------------------------------------------------------------------------
\* Properties of the queue between the handlers

\* A hash counts as requested only while some span asks for it: whatever way a
\* span goes (added, its peer dropped, closed or overtaken), erase_block frees
\* its hashes, so that no block becomes one that nobody may ask for.
NoLeak == queue.requested \subseteq HashesOf(queue.blocks)

\* What block_queue::have says is backed by a span with blocks: the entry goes
\* with the span, whoever erases it.
HaveBacked == \A e \in queue.have : e.hash \in HashesOf(FilledSpans(queue))

\* The two indexes of block_queue follow its spans, in both these ways.
IndexesFollowSpans == NoLeak /\ HaveBacked

\* have_height gives the height the block really has, also where spans of two
\* branches meet; handle_response_chain_entry accepts a chain on its word.
HaveHeights == \A e \in queue.have : e.height = HeightOf[e.hash]

\* get_next_needed_height, one pass over the spans in order, finds the first
\* height from the top of the chain on that no span covers.
NextNeededIsFirstGap ==
    LET covered(h) == \E s \in queue.blocks : s.start <= h /\ h < s.start + s.n
        h == get_next_needed_height(queue, Height)
    IN  h >= Height /\ ~covered(h) /\ \A i \in Height..(h - 1) : covered(i)

\* In whatever order the peers answer and whoever adds, try_add_next_blocks
\* hands the core no block before its parent.  The core calls a block of a span
\* an orphan, for which the peer that sent it is dropped, in one case only:
\* have_block took a block that is stored as invalid for a known one.
OrphansAreOfInvalid ==
    /\ \A b \in known : HeightOf[b] > 0 => Parent(b) \in known
    /\ span.orphaned => \E b \in invalid : b = Parent(span.content[1]) \/ b \in Elems(span.content)

\* A downloaded span whose parent is there leaves the queue only because its
\* blocks are known, another span took its place, one of its blocks is bad, or
\* its peer sent a block that failed: not because its peer left or was dropped
\* for another reason, nor for what others sent.
DownloadsKept ==
    [][\A s \in FilledSpans(queue) \ FilledSpans(queue') :
          \/ s.content[Len(s.content)] \in known
          \/ \E t \in FilledSpans(queue') : t.start = s.start
          \/ Elems(s.content) \cap Bad # {}
          \/ s.conn = span.conn /\ (span.failed \/ span'.failed)
          \/ Parent(s.content[1]) \notin known]_vars

-----------------------------------------------------------------------------
\* Properties of a connection

\* The hashes a connection still needs are the end of the list that goes up to
\* last_response_height: reserve_span and the skipping of hashes compute the
\* heights of blocks from the two lengths alone.
NeededMatches ==
    \A c \in Conn : \A i \in DOMAIN ctx[c].needed :
        HeightOf[ctx[c].needed[i]] = ctx[c].last_response_height - Len(ctx[c].needed) + i

\* Wherever the download works out the height of a block it has not added yet,
\* in the queue or in a connection, it is the height the block has.
HeightsAreRight == HaveHeights /\ NeededMatches

\* A pruned peer is only asked for blocks it has in full, also when it is
\* "sicced" onto a span that another connection reserved.
AskedForKept ==
    \A c \in Conn : \A i \in DOMAIN chan[c] : \A b \in Elems(chan[c][i].hashes) :
        has_unpruned_block(HeightOf[b], PeerHeight(c), Stripe[c])

\* "Then, we go back to download": a connection that is synchronizing and whose
\* handlers have returned waits for an answer, with the timer that
\* kick_idle_peers looks at running, or for a callback.  Otherwise nothing
\* would ever wake it: timed syncs leave it alone in that state.
BackToDownload ==
    \A c \in Conn : Ready(c) /\ ctx[c].state = "synchronizing" =>
        \/ ctx[c].callbacks > 0
        \/ ctx[c].expect_response # "none" /\ ctx[c].last_request_time # "unset"

\* Of peers that all have the same good chain, one that answers in time and
\* stays is dropped in two cases only.  It has to pause, nobody is adding, and
\* the last adding is long ago; or the download is over, and update_sync_search
\* makes room.  It is not dropped for an answer "out of the blue", an unexpected
\* first hash, nothing to request, or idling.
PromptPeersKept ==
    [][\A c \in Conn \ (Slow \cup Leaving) :
          ctx[c].up = "open" /\ ctx'[c].up # "open" =>
              /\ c \notin Income
              /\ \/ adder = NoConn /\ last_add = "long_ago"
                 \/ ctx[c].state = "normal" /\ tip = Chain[c][Len(Chain[c])]]_vars

Reach == 3 * Stripes * StripeSize + TipBlocks       \* bound: heights looked at

\* The closed form of get_next_unpruned_block_height gives the first height
\* from the given one on that a node with that stripe keeps in full, whatever
\* part of the chain is still to be downloaded.
NextUnprunedIsLeast ==
    \A top \in Height..(Height + Reach) : \A h \in Height..top : \A stripe \in 0..Stripes :
        LET next == get_next_unpruned_block_height(h, top, stripe)
        IN  /\ next >= h /\ has_unpruned_block(next, top, stripe)
            /\ \A i \in h..(next - 1) : ~has_unpruned_block(i, top, stripe)

-----------------------------------------------------------------------------
\* Liveness

\* The download comes to an end: from some time on every block of every peer
\* that is still connected is known, and nobody holds m_sync_lock.
SyncCompletes ==
    <>[](/\ \A c \in Conn : ctx[c].up = "closed" \/ Chain[c][PeerHeight(c)] \in known
         /\ adder = NoConn)

\* on_connection_synchronized is called, which is when the node starts to
\* accept transactions and to mine.
Synchronized == <>m_synchronized

\* "If we can add blocks instead, do so": a downloaded block is added, or its
\* span goes.
DownloadedIsAdded ==
    \A b \in Block : (\E s \in FilledSpans(queue) : b \in Elems(s.content))
                        ~> (b \in known \/ \A s \in FilledSpans(queue) : b \notin Elems(s.content))
=============================================================================
