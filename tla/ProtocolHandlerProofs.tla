----------------------- MODULE ProtocolHandlerProofs -----------------------
(***************************************************************************)
(* What ProtocolHandler promises for any number of connections, any chains *)
(* the peers may have, any pruning, span size and limit: the book-keeping  *)
(* of the download queue is exact enough that no block becomes one nobody  *)
(* may ask for, the core sees no orphan but after a block that it stored   *)
(* as invalid, and, where no block is bad and no connection incoming,      *)
(* nobody waits for nothing.                                               *)
(***************************************************************************)
EXTENDS ProtocolHandler, WellFoundedInduction, TLAPS

\* A piece of a chain
Linked(blocks) ==
    /\ blocks \in Seq(Block)
    /\ \A i \in 2..Len(blocks) : Parent(blocks[i]) = blocks[i - 1]

SpanShape(s) ==
    s = [start |-> s.start, n |-> s.n, hashes |-> s.hashes,
         content |-> s.content, conn |-> s.conn, late |-> s.late]

SpanOK(s) == SpanShape(s) /\ (Filled(s) => s.start \in Nat /\ Linked(s.content))

QueueShape(q) ==
    /\ q = [blocks |-> q.blocks, requested |-> q.requested, have |-> q.have]
    /\ \A s \in q.blocks : SpanOK(s)

NoLeakIn(q) == q.requested \subseteq HashesOf(q.blocks)

HaveBackedIn(q) == \A e \in q.have : e.hash \in HashesOf(FilledSpans(q))

QueueOK(q) == QueueShape(q) /\ NoLeakIn(q) /\ HaveBackedIn(q)

-----------------------------------------------------------------------------
(* The methods of the queue *)

LEMMA InHashesOf ==
    \A S : \A h : h \in HashesOf(S) <=> \E s \in S : h \in Elems(s.hashes)
BY DEF HashesOf

\* erase_block takes the hashes of the spans it erases out of both indexes.
LEMMA EraseOK ==
    ASSUME NEW q, NEW S, QueueOK(q)
    PROVE  QueueOK(erase_block(q, S))
<1> DEFINE e == erase_block(q, S)
<1>1. QueueShape(e)
  BY DEF QueueOK, QueueShape, erase_block
<1>2. NoLeakIn(e)
  BY DEF QueueOK, NoLeakIn, erase_block, HashesOf
<1>3. HaveBackedIn(e)
  BY DEF QueueOK, HaveBackedIn, erase_block, HashesOf, FilledSpans
<1> QED BY <1>1, <1>2, <1>3 DEF QueueOK

\* set_span_hashes puts the new hashes where the old ones were: what the span
\* had is forgotten, what it gets is backed by it.  The indexes may already
\* hold the new hashes, as they do in add_blocks.
LEMMA SetHashesOK ==
    ASSUME NEW q, NEW start, NEW conn, NEW hashes, QueueShape(q),
           NEW S, S = {s \in q.blocks : s.start = start /\ s.conn = conn}, S # {},
           q.requested \subseteq HashesOf(q.blocks) \cup Elems(hashes),
           \/ HaveBackedIn(q)
           \/ /\ \E s \in S : Filled(s)
              /\ \A x \in q.have : x.hash \in HashesOf(FilledSpans(q)) \cup Elems(hashes)
    PROVE  QueueOK(set_span_hashes(q, start, conn, hashes))
<1> DEFINE e == erase_block(q, S)
           New == {[s EXCEPT !.hashes = hashes] : s \in S}
           r == [blocks |-> e.blocks \cup New, requested |-> e.requested \cup Elems(hashes),
                 have |-> e.have]
<1>1. set_span_hashes(q, start, conn, hashes) = r
  BY DEF set_span_hashes
<1>2. /\ r = [blocks |-> r.blocks, requested |-> r.requested, have |-> r.have]
      /\ r.blocks = (q.blocks \ S) \cup New
      /\ r.requested = (q.requested \ HashesOf(S)) \cup Elems(hashes)
      /\ r.have = {x \in q.have : x.hash \notin HashesOf(S)}
  <2> HIDE DEF New
  <2> QED BY DEF erase_block
<1> HIDE DEF r
<1>3. \A s \in S : LET t == [s EXCEPT !.hashes = hashes]
                   IN  /\ t \in New /\ SpanOK(t) /\ t.hashes = hashes
                       /\ Filled(s) => Filled(t)
  BY DEF QueueShape, SpanOK, SpanShape, Filled
<1>4. QueueShape(r)
  BY <1>2, <1>3 DEF QueueShape
<1> HIDE DEF New
<1>5. \E t \in r.blocks : t.hashes = hashes
  BY <1>2, <1>3
<1>6. NoLeakIn(r)
  BY <1>2, <1>5, InHashesOf DEF NoLeakIn
<1>7. (\E s \in S : Filled(s)) => \E t \in FilledSpans(r) : t.hashes = hashes
  BY <1>2, <1>3 DEF FilledSpans
<1>8. ASSUME NEW x \in q.have, x.hash \in HashesOf(FilledSpans(q)) \ HashesOf(S)
      PROVE  x.hash \in HashesOf(FilledSpans(r))
  BY <1>2, <1>8, InHashesOf DEF FilledSpans
<1>9. HaveBackedIn(r)
  BY <1>2, <1>7, <1>8, InHashesOf DEF HaveBackedIn
<1> QED BY <1>1, <1>4, <1>6, <1>9 DEF QueueOK

\* A new set of blocks for the same indexes
LEMMA BlocksReplaced ==
    ASSUME NEW q, QueueOK(q), NEW B, \A s \in B : SpanOK(s),
           \A s \in q.blocks : \E t \in B : t.hashes = s.hashes /\ (Filled(s) => Filled(t))
    PROVE  QueueOK([q EXCEPT !.blocks = B])
<1> DEFINE r == [q EXCEPT !.blocks = B]
<1>1. r = [blocks |-> B, requested |-> q.requested, have |-> q.have]
  BY DEF QueueOK, QueueShape
<1>2. r.blocks = B /\ r.requested = q.requested /\ r.have = q.have
  BY <1>1
<1> HIDE DEF r
<1>3. QueueShape(r)
  BY <1>1, <1>2 DEF QueueShape
<1>4. NoLeakIn(r)
  BY <1>2, InHashesOf DEF QueueOK, NoLeakIn
<1>5. \A h \in HashesOf(FilledSpans(q)) : h \in HashesOf(FilledSpans(r))
  BY <1>2, InHashesOf DEF FilledSpans
<1>6. HaveBackedIn(r)
  BY <1>2, <1>5 DEF QueueOK, HaveBackedIn
<1> QED BY <1>3, <1>4, <1>6 DEF QueueOK, r

LEMMA InsertOK ==
    ASSUME NEW q, QueueOK(q), NEW s, SpanOK(s)
    PROVE  QueueOK(Insert(q, s))
<1>1. QueueOK([q EXCEPT !.blocks = q.blocks \cup {s}])
  BY BlocksReplaced DEF QueueOK, QueueShape
<1> QED BY <1>1 DEF Insert

\* A span that is only scheduled
LEMMA ScheduledOK ==
    ASSUME NEW q, QueueOK(q), NEW height, NEW nblocks, NEW conn
    PROVE  QueueOK(add_scheduled(q, height, nblocks, conn))
<1> DEFINE s == [start |-> height, n |-> nblocks, hashes |-> <<>>,
                 content |-> <<>>, conn |-> conn, late |-> 0]
<1>1. SpanOK(s)
  BY DEF SpanOK, SpanShape, Filled
<1> QED BY <1>1, InsertOK DEF add_scheduled

LEMMA ReserveOK ==
    ASSUME NEW q, QueueOK(q), NEW s, NEW conn
    PROVE  QueueOK(reserve_span(q, s, conn))
<1> DEFINE a == add_scheduled(q, s.start, s.n, conn)
           S == {t \in a.blocks : t.start = s.start /\ t.conn = conn}
<1>1. QueueOK(a)
  BY ScheduledOK
<1> HIDE DEF a
<1>2. CASE S = {}
  BY <1>1, <1>2 DEF reserve_span, set_span_hashes, a
<1>3. CASE S # {}
  <2>1. QueueOK(set_span_hashes(a, s.start, conn, s.hashes))
    <3> DEFINE T == S
    <3>1. T = {t \in a.blocks : t.start = s.start /\ t.conn = conn} /\ T # {}
      BY <1>3
    <3> HIDE DEF T
    <3> QED BY <1>1, <3>1, SetHashesOK DEF QueueOK, NoLeakIn
  <2> QED BY <2>1 DEF reserve_span, a
<1> QED BY <1>2, <1>3

\* How long ago a span was asked for is nobody else's business.
LEMMA LateOK ==
    ASSUME NEW q, QueueOK(q), NEW f, NEW late
    PROVE  QueueOK(SetLate(q, f, late))
<1> DEFINE B == {IF s = f THEN [s EXCEPT !.late = late] ELSE s : s \in q.blocks}
<1>1. \A s \in q.blocks : LET t == [s EXCEPT !.late = late]
                          IN  /\ SpanOK(t) /\ t.hashes = s.hashes
                              /\ Filled(s) => Filled(t)
  BY DEF QueueOK, QueueShape, SpanOK, SpanShape, Filled
<1>2. \A s \in B : SpanOK(s)
  BY <1>1 DEF QueueOK, QueueShape
<1>3. \A s \in q.blocks : \E t \in B : t.hashes = s.hashes /\ (Filled(s) => Filled(t))
  BY <1>1
<1> HIDE DEF B
<1>4. QueueOK([q EXCEPT !.blocks = B])
  BY <1>2, <1>3, BlocksReplaced
<1> QED BY <1>4 DEF B, SetLate

LEMMA ResetOK ==
    ASSUME NEW q, QueueOK(q)
    PROVE  QueueOK(reset_next_span_time(q))
BY LateOK DEF reset_next_span_time

LEMMA EmplaceBacked ==
    ASSUME NEW have0, NEW hashes, NEW height
    PROVE  \A x \in Emplace(have0, hashes, height) : x \in have0 \/ x.hash \in Elems(hashes)
<1> SUFFICES ASSUME NEW x \in Emplace(have0, hashes, height), x \notin have0
             PROVE  x.hash \in Elems(hashes)
  OBVIOUS
<1>1. PICK j \in DOMAIN hashes : x = [hash |-> hashes[j], height |-> height + j - 1]
  BY DEF Emplace
<1> QED BY <1>1 DEF Elems

\* add_blocks: the span that was reserved gives its hashes to the blocks that
\* come in its place.
LEMMA AddBlocksOK ==
    ASSUME NEW q, QueueOK(q), NEW height \in Nat, NEW content, content # <<>>,
           Linked(content), NEW conn
    PROVE  QueueOK(add_blocks(q, height, content, conn))
<1> DEFINE old == {s \in q.blocks : s.start = height}
           hashes == (CHOOSE s \in old : TRUE).hashes
           e == erase_block(q, old)
           s0 == [start |-> height, n |-> Len(content), hashes |-> <<>>,
                  content |-> content, conn |-> conn, late |-> 0]
           i == Insert(e, s0)
           p == [blocks |-> i.blocks, requested |-> i.requested \cup Elems(hashes),
                 have |-> Emplace(i.have, hashes, height)]
           S == {s \in p.blocks : s.start = height /\ s.conn = conn}
<1>1. SpanOK(s0) /\ Filled(s0) /\ s0.start = height /\ s0.conn = conn
  BY DEF SpanOK, SpanShape, Filled
<1>2. QueueOK(e) /\ e.blocks = q.blocks \ old
  BY EraseOK DEF erase_block
<1> HIDE DEF s0, e
<1>3. QueueOK(i) /\ s0 \in i.blocks
  <2>1. \A t \in e.blocks : t.start # s0.start
    BY <1>1, <1>2
  <2>2. i = [e EXCEPT !.blocks = @ \cup {s0}]
    BY <2>1 DEF Insert
  <2>3. s0 \in i.blocks
    BY <1>2, <2>2 DEF QueueOK, QueueShape
  <2> HIDE DEF i
  <2> QED BY <1>1, <1>2, <2>3, InsertOK DEF i
<1>4. add_blocks(q, height, content, conn) =
          IF old = {} THEN i ELSE set_span_hashes(p, height, conn, hashes)
  BY DEF add_blocks, s0, e
<1> HIDE DEF old, i, hashes
<1>5. \A x \in Emplace(i.have, hashes, height) : x \in i.have \/ x.hash \in Elems(hashes)
  BY EmplaceBacked
<1>6. /\ p.blocks = i.blocks /\ p.requested = i.requested \cup Elems(hashes)
      /\ p.have = Emplace(i.have, hashes, height)
      /\ p = [blocks |-> p.blocks, requested |-> p.requested, have |-> p.have]
  OBVIOUS
<1> HIDE DEF p
<1>7. QueueShape(p) /\ FilledSpans(p) = FilledSpans(i)
  BY <1>3, <1>6 DEF QueueOK, QueueShape, FilledSpans
<1>8. S # {} /\ \E s \in S : Filled(s)
  BY <1>1, <1>3, <1>6
<1>9. QueueOK(set_span_hashes(p, height, conn, hashes))
  <2>1. p.requested \subseteq HashesOf(p.blocks) \cup Elems(hashes)
    BY <1>3, <1>6 DEF QueueOK, NoLeakIn
  <2>2. \A x \in p.have : x.hash \in HashesOf(FilledSpans(p)) \cup Elems(hashes)
    BY <1>3, <1>5, <1>6, <1>7 DEF QueueOK, HaveBackedIn
  <2> DEFINE T == S
  <2>3. T = {s \in p.blocks : s.start = height /\ s.conn = conn}
    OBVIOUS
  <2>4. T # {} /\ \E s \in T : Filled(s)
    BY <1>8
  <2> HIDE DEF T
  <2> QED BY <1>7, <2>1, <2>2, <2>3, <2>4, SetHashesOK
<1> QED BY <1>3, <1>4, <1>9

-----------------------------------------------------------------------------
(* What request_missing_objects leaves behind *)

Fields == {"up", "pc", "force", "entry", "state", "needed", "expected", "expected_start",
           "requested", "last_response_height", "last_request_time", "callbacks",
           "last_known_hash", "expect_response", "expect_height", "num_requested",
           "remote", "score", "idle_peer", "new_stripe"}

HasFields(x) == Fields \subseteq DOMAIN x /\ x.callbacks \in Nat

\* Somebody will come back to a connection whose handlers have returned.
Awaited(x) ==
    x.state = "synchronizing" =>
        x.callbacks > 0 \/ (x.expect_response # "none" /\ x.last_request_time # "unset")

\* The timer runs only while an answer is outstanding, and none is in standby.
Settled(x) ==
    /\ x.last_request_time # "unset" => x.expect_response # "none"
    /\ x.state = "standby" => x.last_request_time = "unset" /\ x.expect_response = "none"

Rested(x) == Awaited(x) /\ Settled(x)

\* In the middle of a handler no answer is outstanding.
Calm(x) ==
    x.last_request_time = "unset" /\ x.expect_response = "none" /\ x.state # "standby"

Busy(x) == HasFields(x) /\ Calm(x)

ResultOK(r, x) ==
    /\ HasFields(r.x) /\ r.x.up = x.up
    /\ QueueOK(r.q)
    /\ \/ r.x.pc = "download" /\ Calm(r.x)
       \/ r.x.pc = "idle" /\ (r.ok => Rested(r.x))

LEMMA ReturnOK ==
    ASSUME NEW x, HasFields(x)
    PROVE  LET y == Return(x)
           IN  /\ HasFields(y) /\ y.pc = "idle" /\ y.up = x.up
               /\ y.state = x.state /\ y.callbacks = x.callbacks
               /\ y.expect_response = x.expect_response
               /\ y.last_request_time = x.last_request_time
BY DEF Return, HasFields, Fields

\* A plain result is good when the context it leaves is.
LEMMA PlainResult ==
    ASSUME NEW ok, NEW x, NEW y, NEW q, NEW r, HasFields(y), y.up = x.up, QueueOK(q),
           ok => Rested(y),
           r.ok = ok, r.x = Return(y), r.q = q
    PROVE  ResultOK(r, x)
<1>1. Rested(y) => Rested(Return(y))
  BY ReturnOK DEF Rested, Awaited, Settled
<1> QED BY <1>1, ReturnOK DEF ResultOK

LEMMA NormalOK ==
    ASSUME NEW x, Busy(x)
    PROVE  LET y == set_state_normal(x) IN HasFields(y) /\ y.up = x.up /\ Rested(y)
BY DEF Busy, Calm, HasFields, Fields, set_state_normal, Rested, Awaited, Settled

LEMMA NothingNeededOK ==
    ASSUME NEW x, NEW q, Busy(x), QueueOK(q)
    PROVE  ResultOK(NothingNeeded(x, q), x)
<1> DEFINE r == NothingNeeded(x, q)
<1>1. CASE x.remote > get_next_needed_height(q, Height)
  <2>1. r.ok = FALSE /\ r.x = Return(x) /\ r.q = q
    BY <1>1 DEF NothingNeeded, Result
  <2> HIDE DEF r
  <2> QED BY <2>1, PlainResult DEF Busy, r
<1>2. CASE ~(x.remote > get_next_needed_height(q, Height))
  <2>1. r.ok = TRUE /\ r.x = Return(set_state_normal(x)) /\ r.q = q
    BY <1>2 DEF NothingNeeded, Result
  <2> HIDE DEF r
  <2> QED BY <2>1, PlainResult, NormalOK DEF r
<1> QED BY <1>1, <1>2

LEMMA RequestChainOK ==
    ASSUME NEW c, NEW y, NEW q, Busy(y), QueueOK(q)
    PROVE  ResultOK(RequestChain(c, y, q), y)
<1> DEFINE x == [y EXCEPT !.needed = <<>>]
           r == RequestChain(c, y, q)
           wait == [x EXCEPT !.state = "standby", !.callbacks = @ + 1]
           lead == x.last_known_hash \notin {NoHash, tip}
           ask == [x EXCEPT !.expect_height = IF lead THEN AnyHeight ELSE Height,
                            !.last_request_time = "recent",
                            !.expect_response = "chain"]
<1>1. Busy(x) /\ x.up = y.up
  BY DEF Busy, Calm, HasFields, Fields
<1> HIDE DEF x
<1>2. HasFields(wait) /\ wait.up = x.up /\ Rested(wait)
  BY <1>1 DEF Busy, Calm, HasFields, Fields, Rested, Awaited, Settled
<1>3. HasFields(ask) /\ ask.up = x.up /\ Rested(ask)
  BY <1>1 DEF Busy, Calm, HasFields, Fields, Rested, Awaited, Settled
<1>4. /\ r.q = q
      /\ \/ r.ok = TRUE /\ r.x = Return(wait)
         \/ r.ok = TRUE /\ r.x = Return(ask)
         \/ r.ok = TRUE /\ r.x = Return(set_state_normal(x))
         \/ r.ok = FALSE /\ r.x = Return(x)
  <2> HIDE DEF wait, ask
  <2>1. r = RequestChain(c, y, q)
    OBVIOUS
  <2> HIDE DEF r
  <2> QED BY <2>1 DEF RequestChain, Result, wait, ask, x, lead
<1> HIDE DEF wait, ask, r
<1>5. HasFields(set_state_normal(x)) /\ set_state_normal(x).up = x.up /\ Rested(set_state_normal(x))
  BY <1>1, NormalOK
<1> QED BY <1>1, <1>2, <1>3, <1>4, <1>5, PlainResult DEF Busy, r

LEMMA SendRequestOK ==
    ASSUME NEW c, NEW x, NEW q, NEW s, Busy(x), QueueOK(q)
    PROVE  ResultOK(SendRequest(c, x, q, s), x)
<1> DEFINE ask == [x EXCEPT !.requested = @ \cup Elems(s.hashes),
                            !.last_request_time = "recent",
                            !.expect_height = s.start,
                            !.expect_response = "objects",
                            !.num_requested = TRUE]
           r == SendRequest(c, x, q, s)
<1>1. HasFields(ask) /\ ask.up = x.up /\ Rested(ask)
  BY DEF Busy, Calm, HasFields, Fields, Rested, Awaited, Settled
<1>2. /\ r.q = q
      /\ \/ r.ok = FALSE /\ r.x = Return(x)
         \/ r.ok = TRUE /\ r.x = Return(ask)
  <2> HIDE DEF ask
  <2>1. r = SendRequest(c, x, q, s)
    OBVIOUS
  <2> HIDE DEF r
  <2> QED BY <2>1 DEF SendRequest, Result, ask
<1> HIDE DEF ask, r
<1> QED BY <1>1, <1>2, PlainResult DEF Busy, r

\* The hashes that are needed play no part in all this.
LEMMA NeededOK ==
    ASSUME NEW x, Busy(x), NEW needed
    PROVE  LET y == [x EXCEPT !.needed = needed] IN Busy(y) /\ y.up = x.up
BY DEF Busy, Calm, HasFields, Fields

LEMMA ReserveAndRequestOK ==
    ASSUME NEW c, NEW x, NEW skipped, NEW s, NEW q, NEW force, Busy(x), QueueOK(q)
    PROVE  ResultOK(ReserveAndRequest(c, x, skipped, s, q, force), x)
<1> DEFINE r == ReserveAndRequest(c, x, skipped, s, q, force)
           y1 == [x EXCEPT !.needed =
                     SubSeq(@, s.start - (x.last_response_height - Len(x.needed) + 1) + s.n + 1, Len(@))]
           y2 == [x EXCEPT !.needed = SelectSeq(@, LAMBDA b : b \notin Elems(Front(q).hashes))]
<1>1. Busy(y1) /\ y1.up = x.up /\ Busy(y2) /\ y2.up = x.up
  <2>1. Busy(y1) /\ y1.up = x.up
    BY NeededOK
  <2>2. Busy(y2) /\ y2.up = x.up
    BY NeededOK
  <2> QED BY <2>1, <2>2
<1>2. \/ r = NothingNeeded(x, q)
      \/ r = SendRequest(c, y1, reserve_span(q, s, c), s)
      \/ r = SendRequest(c, y2, q, Front(q))
      \/ r = Result(TRUE, set_state_normal(x), q)
      \/ r = Result(FALSE, x, q)
  BY DEF ReserveAndRequest
<1> HIDE DEF r, y1, y2
<1>3. CASE r = NothingNeeded(x, q)
  BY <1>3, NothingNeededOK DEF r
<1>4. CASE r = SendRequest(c, y1, reserve_span(q, s, c), s)
  <2>1. ResultOK(r, y1)
    BY <1>1, <1>4, SendRequestOK, ReserveOK
  <2> QED BY <1>1, <2>1 DEF ResultOK, r
<1>5. CASE r = SendRequest(c, y2, q, Front(q))
  <2>1. ResultOK(r, y2)
    BY <1>1, <1>5, SendRequestOK
  <2> QED BY <1>1, <2>1 DEF ResultOK, r
<1>6. CASE r = Result(TRUE, set_state_normal(x), q)
  <2>1. r.ok = TRUE /\ r.x = Return(set_state_normal(x)) /\ r.q = q
    BY <1>6 DEF Result
  <2> QED BY <2>1, NormalOK, PlainResult DEF r
<1>7. CASE r = Result(FALSE, x, q)
  <2>1. r.ok = FALSE /\ r.x = Return(x) /\ r.q = q
    BY <1>7 DEF Result
  <2> QED BY <2>1, PlainResult DEF r, Busy
<1> QED BY <1>2, <1>3, <1>4, <1>5, <1>6, <1>7

LEMMA DownloadOK ==
    ASSUME NEW c, NEW x, NEW q, NEW force, NEW sk, NEW s, Busy(x), QueueOK(q),
           Busy(sk.x), sk.x.up = x.up
    PROVE  ResultOK(Download(c, x, q, force, sk, s), x)
<1> DEFINE r == Download(c, x, q, force, sk, s)
           y == [x EXCEPT !.last_response_height = 0]
<1>1. Busy(y) /\ y.up = x.up
  BY DEF Busy, Calm, HasFields, Fields
<1>2. \/ r = RequestChain(c, x, q)
      \/ r = SendRequest(c, x, reset_next_span_time(q), Front(q))
      \/ r = RequestChain(c, y, q)
      \/ r = ReserveAndRequest(c, sk.x, sk.n > 0, s, q, force)
  BY DEF Download
<1> HIDE DEF r, y
<1>3. CASE r = RequestChain(c, x, q)
  BY <1>3, RequestChainOK DEF r
<1>4. CASE r = SendRequest(c, x, reset_next_span_time(q), Front(q))
  BY <1>4, SendRequestOK, ResetOK DEF r
<1>5. CASE r = RequestChain(c, y, q)
  <2>1. ResultOK(r, y)
    BY <1>1, <1>5, RequestChainOK
  <2> QED BY <1>1, <2>1 DEF ResultOK, r
<1>6. CASE r = ReserveAndRequest(c, sk.x, sk.n > 0, s, q, force)
  <2>1. ResultOK(r, sk.x)
    BY <1>6, ReserveAndRequestOK
  <2> QED BY <2>1 DEF ResultOK, r
<1> QED BY <1>2, <1>3, <1>4, <1>5, <1>6

LEMMA PauseOK ==
    ASSUME NEW c, NEW x, NEW q, Busy(x), QueueOK(q)
    PROVE  ResultOK(Pause(c, x, q), x)
<1> DEFINE r == Pause(c, x, q)
           y == [x EXCEPT !.state = "standby"]
           z == [y EXCEPT !.callbacks = @ + 1]
<1>1. HasFields(y) /\ y.up = x.up /\ Rested(y) /\ HasFields(z) /\ z.up = x.up /\ Rested(z)
  BY DEF Busy, Calm, HasFields, Fields, Rested, Awaited, Settled
<1>2. r = Result(TRUE, z, q) \/ r = Result(FALSE, x, q) \/ r = Result(TRUE, y, q)
  BY DEF Pause
<1> HIDE DEF r, y, z
<1>3. /\ r.q = q
      /\ \/ r.ok = TRUE /\ r.x = Return(z)
         \/ r.ok = FALSE /\ r.x = Return(x)
         \/ r.ok = TRUE /\ r.x = Return(y)
  BY <1>2 DEF Result
<1> QED BY <1>1, <1>3, PlainResult DEF Busy, r

LEMMA GoOnOK ==
    ASSUME NEW x, NEW q, NEW force, Busy(x), QueueOK(q)
    PROVE  ResultOK(GoOn(x, q, force), x)
<1> DEFINE y == [x EXCEPT !.pc = "download", !.force = force]
           r == GoOn(x, q, force)
<1>1. HasFields(y) /\ y.up = x.up /\ y.pc = "download" /\ Calm(y)
  BY DEF Busy, Calm, HasFields, Fields
<1>2. r.q = q /\ r.x = y
  BY DEF GoOn, Result
<1> HIDE DEF y, r
<1> QED BY <1>1, <1>2 DEF ResultOK, r

LEMMA ShouldDownloadOK ==
    ASSUME NEW c, NEW x, NEW skipped, NEW q, NEW faster, Busy(x), QueueOK(q)
    PROVE  ResultOK(ShouldDownload(c, x, skipped, q, faster), x)
<1> DEFINE r == ShouldDownload(c, x, skipped, q, faster)
           y == [x EXCEPT !.state = "synchronizing"]
<1>1. Busy(y) /\ y.up = x.up
  BY DEF Busy, Calm, HasFields, Fields
<1>2. \/ r = NothingNeeded(x, q)
      \/ r = Result(FALSE, x, q)
      \/ r = GoOn(y, q, TRUE) \/ r = GoOn(y, q, FALSE)
      \/ r = Pause(c, x, q)
  BY DEF ShouldDownload
<1> HIDE DEF r, y
<1>3. CASE r = NothingNeeded(x, q)
  BY <1>3, NothingNeededOK DEF r
<1>4. CASE r = Result(FALSE, x, q)
  <2>1. r.ok = FALSE /\ r.x = Return(x) /\ r.q = q
    BY <1>4 DEF Result
  <2> QED BY <2>1, PlainResult DEF r, Busy
<1>5. CASE r = GoOn(y, q, TRUE) \/ r = GoOn(y, q, FALSE)
  <2>1. ResultOK(r, y)
    BY <1>1, <1>5, GoOnOK
  <2> QED BY <1>1, <2>1 DEF ResultOK, r
<1>6. CASE r = Pause(c, x, q)
  BY <1>6, PauseOK DEF r
<1> QED BY <1>2, <1>3, <1>4, <1>5, <1>6

LEMMA SkipOK ==
    ASSUME NEW x, NEW q, NEW check_block_queue, Busy(x),
           NEW sk, sk = skip_unneeded_hashes(x, q, check_block_queue)
    PROVE  Busy(sk.x) /\ sk.x.up = x.up
BY DEF skip_unneeded_hashes, Busy, Calm, HasFields, Fields

-----------------------------------------------------------------------------
(* The invariant *)

\* Where try_add_next_blocks holds m_sync_lock
Adding == {"next", "verify", "commit", "remove", "stop"}

\* No handler returns early.
Tame == Bad = {} /\ Income = {}

CtxOK(x) ==
    /\ HasFields(x)
    /\ x.pc # "idle" => Calm(x)
    /\ x.up = "open" /\ x.pc = "idle" => Settled(x) /\ (Tame => Awaited(x))

CtxInv == DOMAIN ctx = Conn /\ \A c \in Conn : CtxOK(ctx[c])

\* One thread at a time, and the span it has in hand continues the chain.
LockInv == \A c \in Conn : ctx[c].pc \in Adding => adder = c

InHand == Linked(span.content) /\ span.content # <<>> /\ have_block(Parent(span.content[1]))

SpanInv ==
    /\ {"content", "failed", "orphaned"} \subseteq DOMAIN span
    /\ Tame => span.failed = FALSE
    /\ \A c \in Conn : ctx[c].pc \in {"verify", "commit"} => InHand

\* Only what failed is stored as invalid.
InvalidInv == invalid \subseteq Bad

IInv == CtxInv /\ QueueOK(queue) /\ LockInv /\ SpanInv /\ InvalidInv /\ OrphansAreOfInvalid

\* A step that leaves the lock and the chain alone
LEMMA Frame ==
    ASSUME IInv, CtxInv', QueueOK(queue'), UNCHANGED <<known, invalid, adder, span>>,
           \A c \in Conn :
              /\ ctx'[c].pc \in Adding => ctx[c].pc \in Adding
              /\ ctx'[c].pc \in {"verify", "commit"} => ctx[c].pc \in {"verify", "commit"}
    PROVE  IInv'
BY DEF IInv, LockInv, SpanInv, InHand, have_block, InvalidInv, OrphansAreOfInvalid, CtxInv

\* A step of c that changes nothing of the other contexts
LEMMA FrameOne ==
    ASSUME IInv, NEW c \in Conn, NEW x, ctx' = [ctx EXCEPT ![c] = x], CtxOK(x),
           QueueOK(queue'), UNCHANGED <<known, invalid, adder, span>>,
           x.pc \notin Adding
    PROVE  IInv'
<1>1. CtxInv'
  BY DEF IInv, CtxInv
<1>2. \A d \in Conn : ctx'[d].pc \in Adding => ctx'[d] = ctx[d]
  BY DEF IInv, CtxInv
<1>3. \A d \in Conn : ctx'[d].pc \in {"verify", "commit"} => ctx'[d] = ctx[d]
  BY <1>2 DEF Adding
<1> QED BY <1>1, <1>2, <1>3, Frame

\* A step of the adder that lets go of the lock
LEMMA FrameUnlock ==
    ASSUME IInv, NEW c \in Conn, NEW x, ctx' = [ctx EXCEPT ![c] = x], CtxOK(x),
           QueueOK(queue'), UNCHANGED <<known, invalid>>, Unlock, ctx[c].pc \in Adding,
           x.pc \notin Adding
    PROVE  IInv'
<1>1. CtxInv'
  BY DEF IInv, CtxInv
<1>2. \A d \in Conn : ctx'[d].pc \notin Adding
  BY SyncConstants DEF IInv, CtxInv, LockInv
<1>3. LockInv' /\ SpanInv'
  BY <1>2 DEF LockInv, SpanInv, Unlock, NoSpanToAdd, Adding
<1>4. InvalidInv' /\ OrphansAreOfInvalid'
  BY DEF IInv, InvalidInv, OrphansAreOfInvalid, Unlock, NoSpanToAdd
<1> QED BY <1>1, <1>3, <1>4 DEF IInv

LEMMA FlushOK ==
    ASSUME NEW q, QueueOK(q), NEW conn, NEW all
    PROVE  QueueOK(flush_spans(q, conn, all))
BY EraseOK DEF flush_spans

LEMMA RemoveOK ==
    ASSUME NEW q, QueueOK(q), NEW conn, NEW start
    PROVE  QueueOK(remove_spans(q, conn, start))
BY EraseOK DEF remove_spans

LEMMA StaleOK ==
    ASSUME NEW q, QueueOK(q), NEW S
    PROVE  QueueOK(flush_stale_spans(q, S))
BY EraseOK DEF flush_stale_spans

\* A connection that is dropped is in nobody's way.
LEMMA DroppedOK ==
    ASSUME NEW x, HasFields(x)
    PROVE  CtxOK(Dropped(x)) /\ Dropped(x).pc = "idle"
BY DEF Dropped, CtxOK, HasFields, Fields

-----------------------------------------------------------------------------
(* One lemma per action *)

LEMMA SameIndex ==
    \A c, d \in Conn : \A i \in DOMAIN Chain[c], j \in DOMAIN Chain[d] :
        Chain[c][i] = Chain[d][j] => i = j
BY SyncConstants

\* The first block of a chain has height zero, wherever it is looked up.
LEMMA GenesisHeight ==
    ASSUME NEW c \in Conn
    PROVE  Chain[c][1] \in Block /\ HeightOf[Chain[c][1]] = 0
<1> DEFINE g == Chain[c][1]
           I == UNION {DOMAIN Chain[d] : d \in Conn}
           P(i) == \E d \in Conn : i \in DOMAIN Chain[d] /\ Chain[d][i] = g
<1>1. 1 \in DOMAIN Chain[c]
  BY SyncConstants
<1>2. g \in Block
  BY <1>1 DEF Block, Elems
<1>3. 1 \in I /\ P(1)
  BY <1>1
<1>4. \A i : P(i) => i = 1
  <2>1. \A d \in Conn : \A i \in DOMAIN Chain[d], j \in DOMAIN Chain[c] : Chain[d][i] = Chain[c][j] => i = j
    BY SameIndex
  <2> QED BY <1>1, <2>1, Zenon
<1>5. (CHOOSE i \in I : P(i)) = 1
  <2> HIDE DEF I, P
  <2> QED BY <1>3, <1>4
<1>6. HeightOf[g] = (CHOOSE i \in I : P(i)) - 1
  BY <1>2 DEF HeightOf
<1> QED BY <1>2, <1>5, <1>6

LEMMA InitOK == Init => IInv
<1> SUFFICES ASSUME Init PROVE IInv
  OBVIOUS
<1>1. CtxOK(NewContext) /\ NewContext.pc = "idle"
  <2>1. HasFields(NewContext)
    BY DEF NewContext, HasFields, Fields
  <2>2. NewContext.pc = "idle" /\ Settled(NewContext) /\ Awaited(NewContext)
    BY DEF NewContext, Settled, Awaited
  <2> QED BY <2>1, <2>2 DEF CtxOK
<1>2. CtxInv /\ LockInv
  BY <1>1 DEF Init, CtxInv, LockInv, Adding
<1>3. QueueOK(queue)
  BY DEF Init, EmptyQueue, QueueOK, QueueShape, NoLeakIn, HaveBackedIn
<1>4. SpanInv
  BY <1>1 DEF Init, SpanInv, NoSpanToAdd
<1>5. OrphansAreOfInvalid /\ InvalidInv
  BY GenesisHeight DEF Init, OrphansAreOfInvalid, InvalidInv, NoSpanToAdd
<1> QED BY <1>2, <1>3, <1>4, <1>5 DEF IInv

LEMMA ReadyCtx ==
    ASSUME IInv, NEW c \in Conn
    PROVE  /\ CtxOK(ctx[c]) /\ HasFields(ctx[c])
           /\ Ready(c) => ctx[c].pc = "idle" /\ Settled(ctx[c])
BY DEF IInv, CtxInv, CtxOK, Ready

LEMMA SyncDataStep ==
    ASSUME IInv, NEW c \in Conn, NEW is_inital, process_payload_sync_data(c, is_inital)
    PROVE  IInv'
<1> DEFINE x == [ctx[c] EXCEPT !.remote = PeerHeight(c)]
           n == set_state_normal(x)
           w == [x EXCEPT !.state = "synchronizing", !.callbacks = @ + 1, !.num_requested = FALSE]
<1>1. ctx[c].pc = "idle" /\ HasFields(ctx[c]) /\ Settled(ctx[c])
  BY ReadyCtx DEF process_payload_sync_data
<1>2. CtxOK(n) /\ n.pc = "idle"
  BY <1>1 DEF CtxOK, HasFields, Fields, Settled, Awaited, set_state_normal
<1>3. CtxOK(w) /\ w.pc = "idle"
  BY <1>1 DEF CtxOK, HasFields, Fields, Settled, Awaited
<1>4. ctx' = [ctx EXCEPT ![c] = n] \/ ctx' = [ctx EXCEPT ![c] = w]
  BY DEF process_payload_sync_data
<1>5. QueueOK(queue') /\ UNCHANGED <<known, invalid, adder, span>>
  BY DEF process_payload_sync_data, IInv
<1> HIDE DEF n, w
<1> QED BY <1>2, <1>3, <1>4, <1>5, FrameOne DEF Adding

LEMMA CallbackStep ==
    ASSUME IInv, NEW c \in Conn, on_callback(c)
    PROVE  IInv'
<1> DEFINE a == [ctx[c] EXCEPT !.callbacks = @ - 1, !.idle_peer = FALSE]
           late == ctx[c].idle_peer /\ a.state = "synchronizing" /\ a.last_request_time = "old"
           k == IF late THEN [a EXCEPT !.score = @ - 1, !.last_request_time = "unset",
                                       !.expect_response = "none", !.expect_height = 0,
                                       !.requested = {}, !.state = "standby"]
                ELSE a
           x == [k EXCEPT !.new_stripe = FALSE,
                          !.state = IF k.new_stripe /\ k.state = "normal" THEN "synchronizing" ELSE @]
           d == [a EXCEPT !.score = @ - 1]
           ask == [x EXCEPT !.needed = <<>>, !.expect_height = Height,
                            !.last_request_time = "recent", !.expect_response = "chain"]
           go == [x EXCEPT !.state = "synchronizing", !.pc = "lock"]
<1>1. ctx[c].pc = "idle" /\ HasFields(ctx[c]) /\ Settled(ctx[c]) /\ ctx[c].callbacks > 0
  BY ReadyCtx DEF on_callback
<1>2. HasFields(a) /\ a.pc = "idle" /\ Settled(a)
  BY <1>1 DEF HasFields, Fields, Settled
<1> HIDE DEF a
<1>3. HasFields(k) /\ k.pc = "idle" /\ Settled(k) /\ HasFields(d)
  BY <1>2 DEF HasFields, Fields, Settled
<1> HIDE DEF k
<1>4. HasFields(x) /\ x.pc = "idle" /\ Settled(x)
  BY <1>3 DEF HasFields, Fields, Settled
<1>5. \/ ctx' = [ctx EXCEPT ![c] = Dropped(d)] /\ queue' = flush_spans(queue, c, FALSE)
      \/ /\ queue' = queue
         /\ \/ x.state = "synchronizing" /\ ctx' = [ctx EXCEPT ![c] = ask]
            \/ x.state = "standby" /\ ctx' = [ctx EXCEPT ![c] = go]
            \/ /\ x.state # "standby" /\ ctx' = [ctx EXCEPT ![c] = x]
               /\ ~(x.state = "synchronizing" /\ x.last_request_time = "unset")
  BY DEF on_callback, DropSelf, a, k
<1> HIDE DEF x, d
<1>6. x.state = "synchronizing" => CtxOK(ask) /\ ask.pc = "idle"
  BY <1>4 DEF CtxOK, HasFields, Fields, Settled, Awaited
<1>7. x.state = "standby" => CtxOK(go) /\ go.pc = "lock"
  BY <1>4 DEF CtxOK, HasFields, Fields, Settled, Awaited, Calm
<1>8. ~(x.state = "synchronizing" /\ x.last_request_time = "unset") => CtxOK(x)
  BY <1>4 DEF CtxOK, Settled, Awaited
<1>9. UNCHANGED <<known, invalid, adder, span>>
  BY DEF on_callback
<1>10. CtxOK(Dropped(d)) /\ Dropped(d).pc = "idle" /\ QueueOK(flush_spans(queue, c, FALSE)) /\ QueueOK(queue)
  BY <1>3, DroppedOK, FlushOK DEF IInv
<1> HIDE DEF ask, go
<1>11. CASE ctx' = [ctx EXCEPT ![c] = Dropped(d)] /\ queue' = flush_spans(queue, c, FALSE)
  BY <1>9, <1>10, <1>11, FrameOne DEF Adding
<1>12. CASE x.state = "synchronizing" /\ ctx' = [ctx EXCEPT ![c] = ask] /\ queue' = queue
  BY <1>6, <1>9, <1>10, <1>12, FrameOne DEF Adding
<1>13. CASE x.state = "standby" /\ ctx' = [ctx EXCEPT ![c] = go] /\ queue' = queue
  BY <1>7, <1>9, <1>10, <1>13, FrameOne DEF Adding
<1>14. CASE /\ ctx' = [ctx EXCEPT ![c] = x] /\ queue' = queue
            /\ ~(x.state = "synchronizing" /\ x.last_request_time = "unset")
  BY <1>4, <1>8, <1>9, <1>10, <1>14, FrameOne DEF Adding
<1> QED BY <1>5, <1>11, <1>12, <1>13, <1>14

\* A callback that is asked for is one more reason to wake up.
LEMMA OneMoreCallback ==
    ASSUME NEW x, CtxOK(x)
    PROVE  LET y == [x EXCEPT !.callbacks = @ + 1] IN CtxOK(y) /\ y.pc = x.pc
BY DEF CtxOK, HasFields, Fields, Calm, Settled, Awaited

LEMMA TimerStep ==
    ASSUME IInv, kick_idle_peers \/ check_standby_peers
    PROVE  IInv'
<1>1. \A c \in Conn : LET x == [ctx[c] EXCEPT !.idle_peer = TRUE]
                      IN  CtxOK(x) /\ x.pc = ctx[c].pc
  BY DEF IInv, CtxInv, CtxOK, HasFields, Fields, Calm, Settled, Awaited
<1>2. /\ DOMAIN ctx' = Conn
      /\ \A c \in Conn : \/ ctx'[c] = ctx[c]
                         \/ ctx'[c] = [ctx[c] EXCEPT !.callbacks = @ + 1]
                         \/ ctx'[c] = [[ctx[c] EXCEPT !.idle_peer = TRUE] EXCEPT !.callbacks = @ + 1]
  BY DEF kick_idle_peers, check_standby_peers, CallBack
<1>3. \A c \in Conn : CtxOK(ctx'[c]) /\ ctx'[c].pc = ctx[c].pc
  <2> TAKE c \in Conn
  <2> DEFINE x == [ctx[c] EXCEPT !.idle_peer = TRUE]
  <2>1. CtxOK(ctx[c]) /\ CtxOK(x) /\ x.pc = ctx[c].pc
    BY <1>1 DEF IInv, CtxInv
  <2>2. \/ ctx'[c] = ctx[c]
        \/ ctx'[c] = [ctx[c] EXCEPT !.callbacks = @ + 1]
        \/ ctx'[c] = [x EXCEPT !.callbacks = @ + 1]
    BY <1>2
  <2> HIDE DEF x
  <2> QED BY <2>1, <2>2, OneMoreCallback
<1>4. QueueOK(queue') /\ UNCHANGED <<known, invalid, adder, span>>
  BY DEF kick_idle_peers, check_standby_peers, CallBack, IInv
<1>5. CtxInv'
  BY <1>2, <1>3 DEF CtxInv, CtxOK, HasFields, Calm, Settled, Awaited
<1> QED BY <1>3, <1>4, <1>5, Frame

\* Closing a connection frees it of all duties.
LEMMA ClosingOK ==
    ASSUME NEW x, CtxOK(x)
    PROVE  LET y == [x EXCEPT !.up = "closing"] IN CtxOK(y) /\ y.pc = x.pc
BY DEF CtxOK, HasFields, Fields, Calm

LEMMA SearchStep ==
    ASSUME IInv, update_sync_search
    PROVE  IInv'
<1>1. PICK c \in Conn : /\ ctx' = [ctx EXCEPT ![c].up = "closing"]
                       /\ queue' = flush_spans(queue, c, FALSE)
  BY DEF update_sync_search, live
<1>2. \A d \in Conn : CtxOK(ctx'[d]) /\ ctx'[d].pc = ctx[d].pc
  BY <1>1, ClosingOK DEF IInv, CtxInv
<1>3. CtxInv'
  BY <1>1, <1>2 DEF IInv, CtxInv
<1>4. QueueOK(queue') /\ UNCHANGED <<known, invalid, adder, span>>
  BY <1>1, FlushOK DEF IInv, update_sync_search
<1> QED BY <1>2, <1>3, <1>4, Frame

LEMMA ChainEntryStep ==
    ASSUME IInv, NEW c \in Conn, handle_response_chain_entry(c)
    PROVE  IInv'
<1> DEFINE req == Head(chan[c])
           ids == Answer(c, req)
           a == [ctx[c] EXCEPT !.expect_response = "none"]
           x == [a EXCEPT !.last_request_time = "unset", !.remote = PeerHeight(c),
                          !.last_response_height = req.start + Len(ids) - 1,
                          !.expected_start = req.start, !.expected = ids, !.needed = ids]
           y == [x EXCEPT !.pc = "request", !.entry = TRUE]
<1>1. ctx[c].pc = "idle" /\ HasFields(ctx[c]) /\ Settled(ctx[c])
  BY ReadyCtx DEF handle_response_chain_entry
<1>2. HasFields(a) /\ a.state = ctx[c].state /\ a.expect_response = "none"
  BY <1>1 DEF HasFields, Fields
<1> HIDE DEF a, ids, req
<1>3. HasFields(x) /\ x.state = a.state /\ x.expect_response = "none" /\ x.last_request_time = "unset"
  BY <1>2 DEF HasFields, Fields
<1> HIDE DEF x
<1>4. ctx[c].state # "standby" => CtxOK(y) /\ y.pc = "request"
  BY <1>2, <1>3 DEF CtxOK, HasFields, Fields, Calm
<1> HIDE DEF y
<1>5. \/ ctx' = [ctx EXCEPT ![c] = Dropped(a)] /\ queue' = flush_spans(queue, c, FALSE)
      \/ /\ ctx' = [ctx EXCEPT ![c] = y] /\ queue' = queue
         /\ ctx[c].expect_response = "chain"
  BY DEF handle_response_chain_entry, DropSelf, a, x, y, ids, req
<1>6. UNCHANGED <<known, invalid, adder, span>>
  BY DEF handle_response_chain_entry
<1>7. QueueOK(queue) /\ QueueOK(flush_spans(queue, c, FALSE))
  BY FlushOK DEF IInv
<1>8. CASE ctx' = [ctx EXCEPT ![c] = Dropped(a)] /\ queue' = flush_spans(queue, c, FALSE)
  BY <1>2, <1>6, <1>7, <1>8, DroppedOK, FrameOne DEF Adding
<1>9. CASE /\ ctx' = [ctx EXCEPT ![c] = y] /\ queue' = queue
           /\ ctx[c].expect_response = "chain"
  <2>1. ctx[c].state # "standby"
    BY <1>1, <1>9 DEF Settled
  <2> QED BY <1>4, <1>6, <1>7, <1>9, <2>1, FrameOne DEF Adding
<1> QED BY <1>5, <1>8, <1>9

LEMMA ObjectsStep ==
    ASSUME IInv, NEW c \in Conn, handle_response_get_objects(c)
    PROVE  IInv'
<1> DEFINE r == Head(chan[c])
           blocks == Answer(c, r)
           x == [ctx[c] EXCEPT !.expect_response = "none", !.last_request_time = "unset"]
           y == [x EXCEPT !.remote = PeerHeight(c), !.requested = {},
                          !.last_known_hash = blocks[Len(blocks)], !.pc = "lock"]
<1>1. ctx[c].pc = "idle" /\ HasFields(ctx[c]) /\ Settled(ctx[c])
  BY ReadyCtx DEF handle_response_get_objects
<1>2. /\ HasFields(x) /\ x.state = ctx[c].state
      /\ x.expect_response = "none" /\ x.last_request_time = "unset"
  BY <1>1 DEF HasFields, Fields
<1> HIDE DEF x, blocks, r
<1>3. ctx[c].state # "standby" => CtxOK(y) /\ y.pc = "lock"
  BY <1>2 DEF CtxOK, HasFields, Fields, Calm
<1> HIDE DEF y
<1>4. \/ ctx' = [ctx EXCEPT ![c] = Dropped(x)] /\ queue' = flush_spans(queue, c, FALSE)
      \/ /\ ctx' = [ctx EXCEPT ![c] = y]
         /\ queue' = add_blocks(queue, HeightOf[blocks[1]], blocks, c)
         /\ ctx[c].expect_response = "objects" /\ blocks # <<>> /\ ValidObjects(x, blocks)
  BY DEF handle_response_get_objects, DropSelf, x, y, blocks, r
<1>5. UNCHANGED <<known, invalid, adder, span>>
  BY DEF handle_response_get_objects
<1>6. CASE ctx' = [ctx EXCEPT ![c] = Dropped(x)] /\ queue' = flush_spans(queue, c, FALSE)
  BY <1>2, <1>5, <1>6, DroppedOK, FlushOK, FrameOne DEF Adding, IInv
<1>7. CASE /\ ctx' = [ctx EXCEPT ![c] = y]
           /\ queue' = add_blocks(queue, HeightOf[blocks[1]], blocks, c)
           /\ ctx[c].expect_response = "objects" /\ blocks # <<>> /\ ValidObjects(x, blocks)
  <2>1. ctx[c].state # "standby"
    BY <1>1, <1>7 DEF Settled
  <2>2. HeightOf[blocks[1]] \in Nat /\ Linked(blocks)
    BY <1>7 DEF ValidObjects, Linked
  <2>3. QueueOK(queue')
    BY <1>7, <2>2, AddBlocksOK DEF IInv
  <2> QED BY <1>3, <1>5, <1>7, <2>1, <2>3, FrameOne DEF Adding
<1> QED BY <1>4, <1>6, <1>7

\* request_missing_objects and its caller
LEMMA ApplyStep ==
    ASSUME IInv, NEW c \in Conn, NEW r, NEW x, ResultOK(r, x), Apply(c, r)
    PROVE  IInv'
<1> DEFINE y == IF r.ok THEN r.x ELSE Dropped(r.x)
<1>1. CtxOK(y) /\ y.pc \notin Adding
  <2>1. CASE r.ok
    BY <2>1 DEF ResultOK, CtxOK, Rested, Adding
  <2>2. CASE ~r.ok
    BY <2>2, DroppedOK DEF ResultOK, Adding
  <2> QED BY <2>1, <2>2
<1>2. QueueOK(queue')
  BY FlushOK DEF ResultOK, Apply
<1>3. ctx' = [ctx EXCEPT ![c] = y] /\ UNCHANGED <<known, invalid, adder, span>>
  BY DEF Apply
<1> HIDE DEF y
<1> QED BY <1>1, <1>2, <1>3, FrameOne

LEMMA BusyCtx ==
    ASSUME IInv, NEW c \in Conn, ctx[c].pc # "idle"
    PROVE  Busy(ctx[c])
BY DEF IInv, CtxInv, CtxOK, Busy

LEMMA RequestMoreStep ==
    ASSUME IInv, NEW c \in Conn, RequestMore(c)
    PROVE  IInv'
<1> DEFINE q == flush_stale_spans(queue, live)
<1>1. Busy(ctx[c])
  BY BusyCtx DEF RequestMore, At
<1>2. QueueOK(q)
  BY StaleOK DEF IInv
<1> HIDE DEF q
<1>3. CASE ctx[c].force
  <2>1. Apply(c, GoOn(ctx[c], q, TRUE))
    BY <1>3 DEF RequestMore, q
  <2> QED BY <1>1, <1>2, <2>1, GoOnOK, ApplyStep
<1>4. CASE ~ctx[c].force
  <2> DEFINE sk == skip_unneeded_hashes(ctx[c], q, TRUE)
  <2>1. Busy(sk.x)
    BY <1>1, SkipOK
  <2>2. PICK faster \in BOOLEAN : Apply(c, ShouldDownload(c, sk.x, sk.n > 0, q, faster))
    BY <1>4 DEF RequestMore, q
  <2> HIDE DEF sk
  <2>3. ResultOK(ShouldDownload(c, sk.x, sk.n > 0, q, faster), sk.x)
    BY <1>2, <2>1, ShouldDownloadOK
  <2> QED BY <2>2, <2>3, ApplyStep
<1> QED BY <1>3, <1>4

LEMMA RequestStep ==
    ASSUME IInv, NEW c \in Conn, Request(c)
    PROVE  IInv'
<1> DEFINE sk == skip_unneeded_hashes(ctx[c], queue, FALSE)
<1>1. Busy(ctx[c])
  BY BusyCtx DEF Request, At
<1>2. Busy(sk.x) /\ sk.x.up = ctx[c].up
  <2> DEFINE check_block_queue == FALSE
             x == ctx[c]
  <2>1. sk = skip_unneeded_hashes(x, queue, check_block_queue) /\ Busy(x)
    BY <1>1
  <2> HIDE DEF sk, check_block_queue, x
  <2>2. Busy(sk.x) /\ sk.x.up = x.up
    BY <2>1, SkipOK
  <2> QED BY <2>2 DEF x
<1>3. PICK s : Apply(c, Download(c, ctx[c], queue, ctx[c].force, sk, s))
  BY DEF Request
<1> HIDE DEF sk
<1>4. ResultOK(Download(c, ctx[c], queue, ctx[c].force, sk, s), ctx[c])
  BY <1>1, <1>2, DownloadOK DEF IInv
<1> QED BY <1>3, <1>4, ApplyStep

\* The spans with blocks start at natural heights, so there is a first one.
LEMMA NextFilledOK ==
    ASSUME NEW q, QueueOK(q), FilledSpans(q) # {}
    PROVE  get_next_span(q) \in FilledSpans(q)
<1> DEFINE T == {s.start : s \in FilledSpans(q)}
<1>1. T \in SUBSET Nat /\ T # {}
  BY DEF QueueOK, QueueShape, SpanOK, FilledSpans
<1>2. PICK x \in T : \A y \in T : ~ (<<y, x>> \in OpToRel(<, Nat))
  <2> HIDE DEF T
  <2> QED BY <1>1, NatLessThanWellFounded, WFMin
<1>3. \A y \in T : y < x => <<y, x>> \in OpToRel(<, Nat)
  BY <1>1 DEF OpToRel
<1>4. \A y \in T : ~ (y < x)
  BY <1>2, <1>3, Zenon
<1>5. \A y \in T : x <= y
  <2> HIDE DEF T
  <2> QED BY <1>1, <1>4
<1>6. \E s \in FilledSpans(q) : \A t \in FilledSpans(q) : s.start <= t.start
  BY <1>5
<1> QED BY <1>6 DEF get_next_span

\* The handler goes on.
LEMMA GotoOK ==
    ASSUME NEW x, CtxOK(x), x.pc # "idle", NEW pc, pc # "idle"
    PROVE  CtxOK([x EXCEPT !.pc = pc]) /\ [x EXCEPT !.pc = pc].pc = pc
BY DEF CtxOK, HasFields, Fields, Calm

LEMMA TryLockStep ==
    ASSUME IInv, NEW c \in Conn, TryLock(c)
    PROVE  IInv'
<1> DEFINE x(pc) == [ctx[c] EXCEPT !.pc = pc]
<1>1. CtxOK(ctx[c]) /\ ctx[c].pc # "idle" /\ QueueOK(queue') /\ UNCHANGED <<known, invalid, span>>
  BY DEF IInv, CtxInv, TryLock, At
<1>2. CtxOK(x("request")) /\ x("request").pc = "request" /\ CtxOK(x("next")) /\ x("next").pc = "next"
  BY <1>1, GotoOK
<1>3. CASE ctx' = [ctx EXCEPT ![c] = x("request")] /\ adder' = adder
  BY <1>1, <1>2, <1>3, FrameOne DEF Adding
<1>4. CASE adder = NoConn /\ ctx' = [ctx EXCEPT ![c] = x("next")] /\ adder' = c
  <2> HIDE DEF x
  <2>1. CtxInv'
    BY <1>2, <1>4 DEF IInv, CtxInv
  <2>2. \A d \in Conn : d # c => ctx'[d] = ctx[d] /\ ctx[d].pc \notin Adding
    BY <1>4, SyncConstants DEF IInv, CtxInv, LockInv
  <2>3. ctx'[c].pc = "next"
    BY <1>2, <1>4 DEF IInv, CtxInv
  <2>4. LockInv' /\ SpanInv'
    BY <1>1, <1>4, <2>2, <2>3 DEF IInv, LockInv, SpanInv, Adding
  <2> QED BY <1>1, <2>1, <2>4 DEF IInv, InvalidInv, OrphansAreOfInvalid
<1> QED BY <1>3, <1>4 DEF TryLock, Goto

LEMMA NothingToAddStep ==
    ASSUME IInv, NEW c \in Conn, NothingToAdd(c)
    PROVE  IInv'
<1> DEFINE x == [ctx[c] EXCEPT !.pc = "stop"]
<1>1. CtxOK(x) /\ x.pc = "stop" /\ ctx[c].pc = "next"
  BY GotoOK DEF IInv, CtxInv, NothingToAdd, At
<1>2. ctx' = [ctx EXCEPT ![c] = x] /\ QueueOK(queue') /\ UNCHANGED <<known, invalid, adder, span>>
  BY DEF NothingToAdd, Goto, IInv
<1> HIDE DEF x
<1>3. CtxInv' /\ \A d \in Conn : d # c => ctx'[d] = ctx[d]
  BY <1>1, <1>2 DEF IInv, CtxInv
<1>4. ctx'[c].pc = "stop"
  BY <1>1, <1>2 DEF IInv, CtxInv
<1> QED BY <1>1, <1>2, <1>3, <1>4, Frame DEF Adding

LEMMA OldSpanStep ==
    ASSUME IInv, NEW c \in Conn, IgnoreOldSpan(c)
    PROVE  IInv'
<1>1. QueueOK(queue') /\ UNCHANGED <<ctx, known, invalid, adder, span>>
  BY RemoveOK DEF IgnoreOldSpan, IInv
<1>2. CtxInv'
  BY <1>1 DEF IInv, CtxInv
<1> QED BY <1>1, <1>2, Frame

LEMMA UnknownParentStep ==
    ASSUME IInv, NEW c \in Conn, UnknownParent(c)
    PROVE  IInv'
<1> DEFINE x == [ctx[c] EXCEPT !.pc = "request", !.needed = <<>>, !.last_response_height = 0]
           y == [ctx[c] EXCEPT !.pc = "request"]
<1>1. CtxOK(ctx[c]) /\ ctx[c].pc = "next"
  BY DEF IInv, CtxInv, UnknownParent, At
<1>2. CtxOK(x) /\ x.pc = "request"
  BY <1>1 DEF CtxOK, HasFields, Fields, Calm
<1>3. CtxOK(y) /\ y.pc = "request"
  BY <1>1, GotoOK
<1>4. CtxOK(Dropped(ctx[c])) /\ Dropped(ctx[c]).pc = "idle"
  BY <1>1, DroppedOK DEF CtxOK
<1>5. /\ Unlock /\ UNCHANGED <<known, invalid>>
      /\ \/ ctx' = [ctx EXCEPT ![c] = x]
         \/ ctx' = [ctx EXCEPT ![c] = Dropped(ctx[c])]
         \/ ctx' = [ctx EXCEPT ![c] = y]
  BY DEF UnknownParent, Goto
<1>6. QueueOK(queue')
  <2>1. \/ queue' = remove_spans(queue, NextFilled.conn, NextFilled.start)
        \/ queue' = flush_spans(queue, c, TRUE)
        \/ queue' = queue
    BY DEF UnknownParent
  <2> QED BY <2>1, RemoveOK, FlushOK DEF IInv
<1> HIDE DEF x, y
<1> QED BY <1>1, <1>2, <1>3, <1>4, <1>5, <1>6, FrameUnlock DEF Adding

LEMMA StopAddingStep ==
    ASSUME IInv, NEW c \in Conn, StopAdding(c)
    PROVE  IInv'
<1> DEFINE x == [ctx[c] EXCEPT !.pc = "request", !.force = TRUE]
           y == [ctx[c] EXCEPT !.pc = "request"]
           z == [ctx[c] EXCEPT !.pc = "idle"]
<1>1. CtxOK(ctx[c]) /\ ctx[c].pc = "stop" /\ Calm(ctx[c])
  BY DEF IInv, CtxInv, CtxOK, StopAdding, At
<1>2. CtxOK(x) /\ x.pc = "request"
  BY <1>1 DEF CtxOK, HasFields, Fields, Calm
<1>3. CtxOK(y) /\ y.pc = "request"
  BY <1>1, GotoOK
<1>4. CtxOK(Dropped(ctx[c])) /\ Dropped(ctx[c]).pc = "idle"
  BY <1>1, DroppedOK DEF CtxOK
<1>5. ~Tame => CtxOK(z) /\ z.pc = "idle"
  BY <1>1 DEF CtxOK, HasFields, Fields, Calm, Settled
<1>6. /\ Unlock /\ UNCHANGED <<known, invalid>>
      /\ \/ ctx' = [ctx EXCEPT ![c] = x]
         \/ ctx' = [ctx EXCEPT ![c] = Dropped(ctx[c])]
         \/ ctx' = [ctx EXCEPT ![c] = y]
         \/ ~Tame /\ ctx' = [ctx EXCEPT ![c] = z]
  BY DEF StopAdding, Goto, DropSelf, Tame
<1>7. QueueOK(queue')
  BY FlushOK DEF StopAdding, DropSelf, IInv
<1> HIDE DEF x, y, z
<1> QED BY <1>1, <1>2, <1>3, <1>4, <1>5, <1>6, <1>7, FrameUnlock DEF Adding

\* Only the adder is where the lock is held.
LEMMA OneAdder ==
    ASSUME IInv, NEW c \in Conn, ctx[c].pc \in Adding
    PROVE  adder = c /\ \A d \in Conn : d # c => ctx[d].pc \notin Adding
BY DEF IInv, LockInv

LEMMA PickSpanStep ==
    ASSUME IInv, NEW c \in Conn, PickSpan(c)
    PROVE  IInv'
<1> DEFINE x == [ctx[c] EXCEPT !.pc = "verify"]
<1>1. CtxOK(x) /\ x.pc = "verify" /\ ctx[c].pc = "next"
  BY GotoOK DEF IInv, CtxInv, PickSpan, At
<1>2. ctx' = [ctx EXCEPT ![c] = x] /\ QueueOK(queue') /\ UNCHANGED <<known, invalid, adder>>
  BY DEF PickSpan, Goto, IInv
<1> HIDE DEF x
<1>3. CtxInv' /\ ctx'[c].pc = "verify" /\ \A d \in Conn : d # c => ctx'[d] = ctx[d]
  BY <1>1, <1>2 DEF IInv, CtxInv
<1>4. NextFilled \in FilledSpans(queue)
  BY NextFilledOK DEF IInv, PickSpan, Nothing, NextFilled
<1>5. Linked(NextFilled.content) /\ NextFilled.content # <<>> /\ have_block(Parent(NextFilled.content[1]))
  BY <1>4 DEF IInv, QueueOK, QueueShape, SpanOK, FilledSpans, Filled, PickSpan, Prev
<1>6. /\ span'.content = NextFilled.content /\ span'.failed = FALSE /\ span'.orphaned = FALSE
      /\ {"content", "failed", "orphaned"} \subseteq DOMAIN span'
  BY DEF PickSpan
<1>7. InHand'
  BY <1>2, <1>5, <1>6 DEF InHand, have_block, Linked
<1>8. SpanInv' /\ LockInv'
  BY <1>1, <1>2, <1>3, <1>6, <1>7, OneAdder DEF SpanInv, LockInv, Adding
<1> QED BY <1>2, <1>3, <1>6, <1>8 DEF IInv, InvalidInv, OrphansAreOfInvalid

\* The first block that the core does not take is bad, or the span's parent is
\* not in a chain.
LEMMA FirstNotGoodIsBad ==
    ASSUME InHand, Parent(span.content[1]) \in known, NEW i \in FirstNotGood
    PROVE  span.content[i] \in Bad
<1>1. i \in 1..Len(span.content) /\ i \notin Good /\ \A j \in 1..(i - 1) : j \in Good
  BY DEF FirstNotGood, InHand, Linked
<1>2. PICK j \in 1..i : span.content[j] \in Bad
  BY <1>1 DEF Good, InHand, Linked
<1>3. \A k \in Good : k \in Nat /\ span.content[k] \notin Bad
  BY DEF Good, InHand, Linked
<1> QED BY <1>1, <1>2, <1>3

LEMMA VerifySpanStep ==
    ASSUME IInv, NEW c \in Conn, VerifySpan(c)
    PROVE  IInv'
<1>1. ctx[c].pc = "verify" /\ CtxOK(ctx[c]) /\ InHand /\ UNCHANGED <<known, adder>>
  BY DEF IInv, CtxInv, SpanInv, VerifySpan, At
<1>2. \A d \in Conn : /\ CtxOK(ctx'[d])
                      /\ IF d = c THEN ctx'[d].pc = "commit" ELSE ctx'[d].pc = ctx[d].pc
  <2> SUFFICES ASSUME NEW d \in Conn
               PROVE  /\ CtxOK(ctx'[d])
                      /\ IF d = c THEN ctx'[d].pc = "commit" ELSE ctx'[d].pc = ctx[d].pc
    OBVIOUS
  <2> DEFINE x == IF d = c THEN [ctx[d] EXCEPT !.pc = "commit"] ELSE ctx[d]
  <2>1. CtxOK(x) /\ x.pc = IF d = c THEN "commit" ELSE ctx[d].pc
    BY <1>1, GotoOK DEF IInv, CtxInv
  <2>2. ctx'[d] = x \/ ctx'[d] = [x EXCEPT !.up = "closing"]
    BY DEF VerifySpan
  <2> HIDE DEF x
  <2> QED BY <2>1, <2>2, ClosingOK
<1>3. CtxInv'
  BY <1>2 DEF VerifySpan, CtxInv
<1>4. QueueOK(queue')
  BY FlushOK DEF VerifySpan, IInv
<1>5. /\ span'.content = span.content /\ span'.orphaned = Orphaned
      /\ span'.failed = (Good # DOMAIN span.content)
      /\ {"content", "failed", "orphaned"} \subseteq DOMAIN span'
  BY DEF VerifySpan, IInv, SpanInv
<1>6. invalid \subseteq invalid' /\ InvalidInv'
  <2>1. CASE Orphaned
    BY <2>1 DEF VerifySpan, IInv, InvalidInv
  <2>2. CASE ~Orphaned
    <3>1. FirstNotGood # {} => Parent(span.content[1]) \in known
      BY <2>2 DEF Orphaned, FirstNotGood
    <3>2. \A i \in FirstNotGood : span.content[i] \in Bad
      BY <1>1, <3>1, FirstNotGoodIsBad
    <3> QED BY <2>2, <3>2 DEF VerifySpan, IInv, InvalidInv
  <2> QED BY <2>1, <2>2
<1>7. InHand'
  BY <1>1, <1>5, <1>6 DEF InHand, have_block, Linked
<1>8. Tame => span'.failed = FALSE
  <2> SUFFICES ASSUME Tame PROVE Good = DOMAIN span.content
    BY <1>5
  <2>1. invalid = {} /\ Bad = {}
    BY DEF Tame, IInv, InvalidInv
  <2> QED BY <1>1, <2>1 DEF InHand, have_block, Good
<1>9. OrphansAreOfInvalid'
  <2>1. ASSUME Orphaned
        PROVE  \E b \in invalid : b = Parent(span.content[1]) \/ b \in Elems(span.content)
    <3>1. CASE Parent(span.content[1]) \notin known
      BY <1>1, <3>1 DEF InHand, have_block
    <3>2. CASE \E i \in FirstNotGood : span.content[i] \in invalid
      BY <3>2 DEF FirstNotGood, Elems
    <3> QED BY <2>1, <3>1, <3>2 DEF Orphaned
  <2> QED BY <1>1, <1>5, <1>6, <2>1 DEF IInv, OrphansAreOfInvalid
<1>10. SpanInv' /\ LockInv'
  BY <1>1, <1>2, <1>5, <1>7, <1>8, OneAdder DEF SpanInv, LockInv, Adding
<1> QED BY <1>3, <1>4, <1>6, <1>9, <1>10 DEF IInv

\* The batch brings in the blocks of the span up to the first bad one: each
\* has its parent before it in the span, or in the chain.
LEMMA CommitSpanStep ==
    ASSUME IInv, NEW c \in Conn, CommitSpan(c)
    PROVE  IInv'
<1> DEFINE new == {span.content[i] : i \in Good}
           x == [ctx[c] EXCEPT !.pc = "remove"]
<1>1. ctx[c].pc = "commit" /\ InHand /\ CtxOK(x) /\ x.pc = "remove"
  BY GotoOK DEF IInv, CtxInv, SpanInv, CommitSpan, At
<1>2. /\ ctx' = [ctx EXCEPT ![c] = x] /\ known' = known \cup new
      /\ UNCHANGED <<queue, invalid, adder, span>>
  BY DEF CommitSpan, Goto
<1> HIDE DEF x
<1>3. CtxInv' /\ ctx'[c].pc = "remove" /\ \A d \in Conn : d # c => ctx'[d] = ctx[d]
  BY <1>1, <1>2 DEF IInv, CtxInv
<1>4. ASSUME NEW i \in Good
      PROVE  Parent(span.content[i]) \in known \cup new
  <2>1. span.content \in Seq(Block) /\ i \in 1..Len(span.content)
    BY <1>1 DEF InHand, Linked, Good
  <2>2. CASE i = 1
    BY <2>2 DEF Good
  <2>3. CASE i # 1
    <3>1. i \in 2..Len(span.content) /\ i - 1 \in DOMAIN span.content
      BY <2>1, <2>3
    <3>2. i - 1 \in Good
      BY <2>1, <3>1 DEF Good
    <3>3. Parent(span.content[i]) = span.content[i - 1]
      BY <1>1, <3>1 DEF InHand, Linked
    <3> QED BY <3>2, <3>3
  <2> QED BY <2>2, <2>3
<1>5. OrphansAreOfInvalid' /\ InvalidInv'
  BY <1>2, <1>4 DEF IInv, OrphansAreOfInvalid, InvalidInv
<1>6. SpanInv' /\ LockInv'
  BY <1>1, <1>2, <1>3, OneAdder DEF IInv, SpanInv, LockInv, Adding
<1> QED BY <1>2, <1>3, <1>5, <1>6 DEF IInv

\* The adder goes around the loop, or lets go of the lock; the connections it
\* tells of the new stripe only get a callback.
LEMMA RemoveSpanStep ==
    ASSUME IInv, NEW c \in Conn, RemoveSpan(c)
    PROVE  IInv'
<1>1. CtxOK(ctx[c]) /\ ctx[c].pc = "remove" /\ UNCHANGED <<known, invalid>> /\ DOMAIN ctx' = Conn
  BY DEF IInv, CtxInv, RemoveSpan, At
<1>2. QueueOK(queue')
  BY RemoveOK DEF RemoveSpan, IInv
<1>3. ASSUME NEW d \in Conn, d # c
      PROVE  CtxOK(ctx'[d]) /\ ctx'[d].pc = ctx[d].pc
  <2> DEFINE y == [ctx[d] EXCEPT !.new_stripe = TRUE]
  <2>1. CtxOK(y) /\ y.pc = ctx[d].pc /\ y.callbacks = ctx[d].callbacks
    BY DEF IInv, CtxInv, CtxOK, HasFields, Fields, Calm, Settled, Awaited
  <2>2. ctx'[d] = ctx[d] \/ ctx'[d] = [y EXCEPT !.callbacks = @ + 1]
    BY <1>3 DEF RemoveSpan, IInv, CtxInv, CtxOK, HasFields, Fields
  <2> HIDE DEF y
  <2> QED BY <2>1, <2>2, OneMoreCallback DEF IInv, CtxInv
<1>4. CASE span.failed
  <2> DEFINE x == [ctx[c] EXCEPT !.pc = "idle"]
  <2>1. ~Tame
    BY <1>4 DEF IInv, SpanInv
  <2>2. CtxOK(x) /\ x.pc = "idle" /\ ctx'[c] = x /\ Unlock
    BY <1>1, <1>4, <2>1 DEF CtxOK, HasFields, Fields, Calm, Settled, RemoveSpan
  <2> HIDE DEF x
  <2>3. CtxInv' /\ \A d \in Conn : ctx'[d].pc \notin Adding
    BY <1>1, <1>3, <2>2, OneAdder DEF CtxInv, Adding
  <2>4. LockInv' /\ SpanInv'
    BY <2>2, <2>3 DEF LockInv, SpanInv, Unlock, NoSpanToAdd, Adding
  <2>5. OrphansAreOfInvalid' /\ InvalidInv'
    BY <1>1, <2>2 DEF IInv, OrphansAreOfInvalid, InvalidInv, Unlock, NoSpanToAdd
  <2> QED BY <1>2, <2>3, <2>4, <2>5 DEF IInv
<1>5. CASE ~span.failed
  <2> DEFINE x == [ctx[c] EXCEPT !.pc = "next"]
  <2>1. CtxOK(x) /\ x.pc = "next" /\ ctx'[c] = x /\ UNCHANGED <<adder, span>>
    BY <1>1, <1>5, GotoOK DEF RemoveSpan
  <2> HIDE DEF x
  <2>2. CtxInv'
    BY <1>1, <1>3, <2>1 DEF CtxInv
  <2>3. \A d \in Conn :
           /\ ctx'[d].pc \in Adding => ctx[d].pc \in Adding
           /\ ctx'[d].pc \in {"verify", "commit"} => ctx[d].pc \in {"verify", "commit"}
    BY <1>1, <1>3, <2>1 DEF Adding
  <2> QED BY <1>1, <1>2, <2>1, <2>2, <2>3, Frame
<1> QED BY <1>4, <1>5

LEMMA CloseStep ==
    ASSUME IInv, NEW c \in Conn, on_connection_close(c)
    PROVE  IInv'
<1> DEFINE x == [NewContext EXCEPT !.up = "closed"]
<1>1. CtxOK(x) /\ x.pc = "idle"
  BY DEF NewContext, CtxOK, HasFields, Fields
<1>2. QueueOK(queue')
  BY FlushOK DEF on_connection_close, IInv
<1>3. ctx' = [ctx EXCEPT ![c] = x] /\ UNCHANGED <<known, invalid, adder, span>>
  BY DEF on_connection_close
<1> HIDE DEF x
<1> QED BY <1>1, <1>2, <1>3, FrameOne DEF Adding

\* A timer that runs belongs to a connection whose handlers have returned.
LEMMA RequestOldStep ==
    ASSUME IInv, NEW c \in Conn, RequestGetsOld(c)
    PROVE  IInv'
<1> DEFINE x == [ctx[c] EXCEPT !.last_request_time = "old"]
<1>1. CtxOK(ctx[c]) /\ ctx[c].pc = "idle"
  BY DEF RequestGetsOld, IInv, CtxInv, CtxOK, Calm
<1>2. CtxOK(x) /\ x.pc = "idle"
  BY <1>1 DEF RequestGetsOld, CtxOK, HasFields, Fields, Settled, Awaited
<1>3. ctx' = [ctx EXCEPT ![c] = x] /\ QueueOK(queue') /\ UNCHANGED <<known, invalid, adder, span>>
  BY DEF RequestGetsOld, IInv
<1> HIDE DEF x
<1> QED BY <1>2, <1>3, FrameOne DEF Adding

LEMMA SpanLateStep ==
    ASSUME IInv, SpanGetsLate
    PROVE  IInv'
<1>1. QueueOK(queue')
  BY LateOK DEF SpanGetsLate, IInv
<1> QED BY <1>1, Frame DEF SpanGetsLate, IInv, CtxInv

-----------------------------------------------------------------------------
(* The invariant is inductive *)

LEMMA NextOK == IInv /\ [Next]_vars => IInv'
<1> SUFFICES ASSUME IInv, [Next]_vars PROVE IInv'
  OBVIOUS
<1>1. ASSUME NEW c \in Conn, Handshake(c) \/ TimedSync(c) PROVE IInv'
  BY <1>1, SyncDataStep DEF Handshake, TimedSync
<1>2. ASSUME NEW c \in Conn, Response(c) PROVE IInv'
  BY <1>2, ChainEntryStep, ObjectsStep DEF Response
<1>3. ASSUME NEW c \in Conn, AddingStep(c) PROVE IInv'
  BY <1>3, TryLockStep, NothingToAddStep, OldSpanStep, UnknownParentStep, PickSpanStep,
     VerifySpanStep, CommitSpanStep, RemoveSpanStep, StopAddingStep, RequestMoreStep, RequestStep
     DEF AddingStep
<1>4. CASE AddingGetsOld \/ UNCHANGED vars
  BY <1>4, Frame DEF AddingGetsOld, vars, IInv, CtxInv
<1> QED BY <1>1, <1>2, <1>3, <1>4, CallbackStep, CloseStep, RequestOldStep, TimerStep,
           SearchStep, SpanLateStep DEF Next, OtherStep

\* Every handler of the protocol handler and every timer keeps the index of
\* the queue, the lock, the span in hand and the chain in step.
THEOREM Inductive == Spec => []IInv
BY InitOK, NextOK, PTL DEF Spec

\* block_queue never holds a hash as requested without a span that asks for
\* it, and what have() answers always rests on a span with blocks, however
\* connections, timers and the adding of blocks interleave.
THEOREM IndexesAlwaysFollowSpans == Spec => []IndexesFollowSpans
<1>1. IInv => NoLeak
  BY DEF IInv, QueueOK, NoLeakIn, NoLeak
<1>2. IInv => HaveBacked
  BY DEF IInv, QueueOK, HaveBackedIn, HaveBacked
<1>3. IInv => IndexesFollowSpans
  BY <1>1, <1>2 DEF IndexesFollowSpans
<1> QED BY <1>3, Inductive, PTL

\* Of peers that answer from chains of their own, on any forks and with any
\* bad blocks in them, try_add_next_blocks hands the core no block before its
\* parent: the core only has orphans to refuse where have_block took a block
\* that is stored as invalid for a known one.
THEOREM ParentsFirst == Spec => []OrphansAreOfInvalid
<1>1. IInv => OrphansAreOfInvalid
  BY DEF IInv
<1> QED BY <1>1, Inductive, PTL

\* Where no block fails verification and no connection is incoming, a
\* connection left synchronizing by its handlers has an answer or a callback
\* to come: the early returns of try_add_next_blocks are the only way to wedge.
THEOREM NobodyWaitsForNothing == ASSUME Tame PROVE Spec => []BackToDownload
<1>1. IInv => BackToDownload
  BY DEF IInv, CtxInv, CtxOK, Awaited, Ready, BackToDownload
<1> QED BY <1>1, Inductive, PTL
=============================================================================
