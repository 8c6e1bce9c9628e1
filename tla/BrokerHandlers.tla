---------------------------- MODULE BrokerHandlers ----------------------------
(***************************************************************************)
(* Every handler of roadcastd keeps the invariant of BrokerInv for the     *)
(* session it works on: requests, snapshot pages, completed writes,        *)
(* droppable messages and the distribution of a new sample.                *)
(***************************************************************************)
EXTENDS BrokerDelivery

\* Larger obligations take the provers longer than their default limits.
USE SMTT(30), ZenonT(30)

-----------------------------------------------------------------------------
(* Requests. *)

\* HELLO keeps the invariant.
LEMMA HelloInv ==
  ASSUME Inv, NEW s, IsSession(s, change_sequence),
         SessionInv(s, history, canon), s.phase = "active",
         NEW understood \in BOOLEAN
  PROVE  SessionInv(Hello(s, understood), history, canon)
<1> DEFINE w == Reply(s, Bare("WELCOME"))
           t == [w EXCEPT !.greeted = TRUE, !.hello_left = Off,
                          !.setup_left = SetupBeats]
<1>1. /\ "WELCOME" \in Types /\ change_sequence \in Nat
      /\ Bare("WELCOME") \in Messages(change_sequence)
  BY InvFacts, BareMessage DEF Types
<1>2. /\ IsSession(w, change_sequence)
      /\ SessionInv(w, history, canon)
  BY <1>1, ReplyTyped, ReplyInv
<1>3. Hello(s, understood) \in {client_close(s), t}
  BY DEF Hello
<1>4. Hello(s, understood) = t => w.phase # "closing" \/ t = client_close(s)
  BY DEF Hello
<1>5. w.phase # "closing" => w.phase = "active"
  <2>1. CASE Room(s) = 0
    BY <2>1 DEF Reply, client_close, FreeSession
  <2>2. CASE Room(s) # 0
    <3>1. Kept(s, w)
      BY <1>1, <2>2, BareQueued DEF Reply
    <3> QED
      BY <3>1 DEF Kept
  <2> QED
    BY <2>1, <2>2
<1> HIDE DEF w
<1>6. DOMAIN w = DOMAIN FreeSession
  BY <1>2 DEF IsSession
<1>7. /\ t.greeted /\ t.phase = w.phase /\ t.subscribed = w.subscribed
      /\ t.needs_resync = w.needs_resync /\ t.resync_queued = w.resync_queued
      /\ t.queue = w.queue /\ t.snapshot = w.snapshot
      /\ t.snapshot_seq = w.snapshot_seq /\ t.next_index = w.next_index
      /\ t.snapshot_active = w.snapshot_active
      /\ t.snapshot_complete = w.snapshot_complete
      /\ t.catchup_active = w.catchup_active /\ t.catchup_seq = w.catchup_seq
      /\ t.pending = w.pending /\ t.view = w.view
      /\ t.continuous = w.continuous
  BY <1>6 DEF FreeSession
<1> HIDE DEF t
<1>8. ASSUME w.phase # "closing" PROVE SessionInv(t, history, canon)
  <2>1. Shape(t)
    BY <1>2, <1>5, <1>7, <1>8 DEF SessionInv, Shape
  <2>2. Waiting(t) /\ Wire(t, history)
    BY <1>2, <1>7 DEF SessionInv, Waiting, Wire
  <2>3. \A i, v : Arrives(t, i, v) <=> Arrives(w, i, v)
    BY <1>7 DEF Arrives
  <2>4. ASSUME Coverage(w, canon) PROVE Coverage(t, canon)
    BY <1>7, <2>3, <2>4 DEF Coverage, Covered, Caught, Live
  <2> QED
    BY <1>2, <2>1, <2>2, <2>4 DEF SessionInv
<1> QED
  BY <1>3, <1>4, <1>8, FreeInv

\* PING and GET_SCHEMA keep the invariant.
LEMMA QueryInv ==
  ASSUME Inv, NEW s, IsSession(s, change_sequence),
         SessionInv(s, history, canon), NEW type \in {"PONG", "SCHEMA_CHUNK"}
  PROVE  SessionInv(Query(s, type), history, canon)
<1>1. type \in Types
  BY DEF Types
<1> QED
  BY <1>1, ReplyInv, FreeInv DEF Query

\* SUBSCRIBE_ALL keeps the invariant: the completed snapshot covers all items
\* and the first round sends what has changed since.
LEMMA SubscribeInv ==
  ASSUME Inv, NEW s, IsSession(s, change_sequence),
         SessionInv(s, history, canon), MaySubscribe(s)
  PROVE  SessionInv(SubscribeAll(s), history, canon)
<1> DEFINE t == [s EXCEPT !.catchup_active = TRUE]
<1>1. CASE ~(s.greeted /\ ~s.needs_resync /\ s.snapshot_complete)
  BY <1>1, FreeInv DEF SubscribeAll
<1>2. CASE s.greeted /\ ~s.needs_resync /\ s.snapshot_complete
  <2>1. SubscribeAll(s) = drive_subscription_catchup(begin_catchup_round(t))
    BY <1>2 DEF SubscribeAll, queue_subscription_catchup
  <2>2. DOMAIN s = DOMAIN FreeSession
    BY DEF IsSession
  <2>3. /\ t.catchup_active /\ t.greeted = s.greeted /\ t.phase = s.phase
        /\ t.needs_resync = s.needs_resync /\ t.subscribed = s.subscribed
        /\ t.snapshot_active = s.snapshot_active
        /\ t.snapshot_complete = s.snapshot_complete
        /\ t.continuous = s.continuous /\ t.next_index = s.next_index
        /\ t.queue = s.queue /\ t.view = s.view /\ t.snapshot = s.snapshot
    BY <2>2 DEF FreeSession
  <2>4. IsSession(t, change_sequence)
    BY DEF IsSession, FreeSession
  <2> HIDE DEF t
  <2>5. Shape(t)
    BY <1>2, <2>3 DEF SessionInv, Shape
  <2>6. \A k \in 1 .. Len(t.queue) : Truthful(t.queue[k], history)
    BY <2>3 DEF SessionInv, Wire
  <2>7. ASSUME Client # "pipelining", NEW i \in Items
        PROVE  Covered(t, i, canon)
    <3>1. ~s.catchup_active /\ ~s.needs_resync
      BY <1>2, <2>7 DEF MaySubscribe
    <3>2. i < s.next_index
      BY <1>2, BrokerConstants DEF SessionInv, Shape, Items
    <3>3. Covered(s, i, canon)
      BY <2>7, <3>1, <3>2 DEF SessionInv, Coverage
    <3> QED
      BY <2>3, <3>3, ArrivesKept DEF Covered
  <2>8. Catching(begin_catchup_round(t), history)
    BY <2>3, <2>4, <2>5, <2>6, <2>7, BeginRoundCatching
  <2>9. IsSession(begin_catchup_round(t), change_sequence)
    BY <2>4, InvFacts, BeginRoundTyped
  <2> QED
    BY <2>1, <2>8, <2>9, DriveInv
<1> QED
  BY <1>1, <1>2

-----------------------------------------------------------------------------
(* Snapshot pages. *)

\* One queued message delivers its items and leaves the others alone.
LEMMA OneQueued ==
  ASSUME NEW last \in Nat, NEW s, IsSession(s, last), NEW b \in Messages(last),
         NEW h, Room(s) # 0
  PROVE  LET e == Enqueue(s, <<b>>) IN
         /\ IsSession(e, last)
         /\ Kept(s, e)
         /\ Len(e.queue) = Len(s.queue) + 1
         /\ \A i, v : ~Mentions(b, i) /\ Arrives(s, i, v) => Arrives(e, i, v)
         /\ \A i : Mentions(b, i) => Arrives(e, i, b.items[i])
         /\ (\A k \in 1 .. Len(s.queue) : Truthful(s.queue[k], h))
              /\ Truthful(b, h) =>
              \A k \in 1 .. Len(e.queue) : Truthful(e.queue[k], h)
<1> DEFINE e == Enqueue(s, <<b>>)
<1>2. /\ <<b>> \in Seq(Messages(last))
      /\ Len(<<b>>) = 1
      /\ <<b>>[1] = b
  BY SingleSeq
<1>3. PICK n \in Nat : /\ Kept(s, e)
                       /\ IsSession(e, last)
                       /\ Grown(s, e.queue, <<b>>, n)
  BY Zenon, <1>2, EnqueueGrows, EnqueueTyped
<1> HIDE DEF e
<1>4. ASSUME NEW i, NEW v, ~Mentions(b, i), Arrives(s, i, v)
      PROVE  Arrives(e, i, v)
  <2>1. \A k \in 1 .. n : ~Mentions(<<b>>[k], i)
    BY <1>2, <1>3, <1>4 DEF Grown
  <2>2. e.view = s.view
    BY <1>3 DEF Kept
  <2> QED
    BY ZenonT(60), <1>2, <1>3, <1>4, <2>1, <2>2, GrownArrives
<1>5. ASSUME \A k \in 1 .. Len(s.queue) : Truthful(s.queue[k], h),
             Truthful(b, h)
      PROVE  \A k \in 1 .. Len(e.queue) : Truthful(e.queue[k], h)
  <2>1. \A k \in 1 .. Len(<<b>>) : Truthful(<<b>>[k], h)
    BY <1>2, <1>5
  <2> QED
    BY ZenonT(60), <1>2, <1>3, <1>5, <2>1, GrownTruthful
<1>6. /\ Len(s.queue) \in Nat /\ Len(e.queue) = Len(s.queue) + 1
      /\ e.queue[Len(s.queue) + 1] = b
  <2>1. n = 1 /\ Len(s.queue) \in Nat
    BY <1>2, <1>3, RoomType DEF Grown
  <2> QED
    BY <1>2, <1>3, <2>1 DEF Grown
<1>7. ASSUME NEW i, Mentions(b, i) PROVE Arrives(e, i, b.items[i])
  <2>1. /\ Len(e.queue) \in 1 .. Len(e.queue)
        /\ e.queue[Len(e.queue)] = b
        /\ \A j \in Len(e.queue) + 1 .. Len(e.queue) : ~Mentions(e.queue[j], i)
    BY <1>6
  <2>2. Same(i, b.items[i], b.items[i])
    BY SameRefl
  <2> QED
    BY <1>7, <2>1, <2>2 DEF Arrives, Reaches
<1> QED
  BY <1>3, <1>4, <1>5, <1>6, <1>7 DEF e

\* A snapshot page keeps the invariant: the items it carries are covered by the
\* frozen copy they come from.
LEMMA PageInv ==
  ASSUME NEW last \in Nat, NEW s, IsSession(s, last), NEW h, NEW now,
         SessionInv(s, h, now), s.snapshot_active, NEW type \in Types,
         NEW end \in 0 .. FrameCount + SignalCount
  PROVE  SessionInv(Page(s, type, end), h, now)
<1> DEFINE I == s.next_index .. end - 1
           values == [i \in I |-> s.snapshot[i]]
           b == PageOf(s, type, end)
           e == Enqueue(s, <<b>>)
           t == [e EXCEPT !.next_index = end,
                          !.snapshot_active = end < FrameCount + SignalCount,
                          !.snapshot_complete = end = FrameCount + SignalCount]
<1>1. I \in SUBSET Items /\ s.next_index \in Nat
  BY BrokerConstants DEF IsSession, Items
<1>2. values \in [I -> Known] /\ \A i \in I : values[i] = s.snapshot[i]
  BY <1>1 DEF IsSession
<1>3. b \in Messages(last) /\ b.items = values /\ b.seq = s.snapshot_seq
  BY PageMessage
<1> HIDE DEF I, values
<1>5. s.phase = "active"
  BY DEF SessionInv, Shape
<1>6. CASE Room(s) = 0
  <2>1. Page(s, type, end) = client_close(s)
    BY <1>6 DEF Page, Reply, client_close, FreeSession
  <2> QED
    BY <2>1, FreeInv
<1>7. CASE Room(s) # 0
  <2>0. Reply(s, b) = e
    BY <1>7 DEF Reply
  <2> HIDE DEF b
  <2>1. /\ IsSession(e, last)
        /\ Kept(s, e)
        /\ Len(e.queue) = Len(s.queue) + 1
        /\ \A i, v : ~Mentions(b, i) /\ Arrives(s, i, v) => Arrives(e, i, v)
        /\ \A i : Mentions(b, i) => Arrives(e, i, b.items[i])
        /\ (\A k \in 1 .. Len(s.queue) : Truthful(s.queue[k], h))
              /\ Truthful(b, h) =>
             \A k \in 1 .. Len(e.queue) : Truthful(e.queue[k], h)
    BY <1>3, <1>7, OneQueued
  <2> HIDE DEF e
  <2>2. Page(s, type, end) = t
    <3>1. e.phase = "active"
      BY <1>5, <2>1 DEF Kept
    <3> QED
      BY ZenonT(60), <2>0, <3>1 DEF Page, PageOf, b
  <2>3. DOMAIN e = DOMAIN FreeSession
    BY <2>1 DEF IsSession
  <2>4. /\ t.next_index = end
        /\ t.snapshot_active <=> end < FrameCount + SignalCount
        /\ t.snapshot_complete <=> end = FrameCount + SignalCount
        /\ t.phase = e.phase /\ t.greeted = e.greeted
        /\ t.subscribed = e.subscribed /\ t.needs_resync = e.needs_resync
        /\ t.resync_queued = e.resync_queued /\ t.queue = e.queue
        /\ t.snapshot = e.snapshot /\ t.snapshot_seq = e.snapshot_seq
        /\ t.catchup_active = e.catchup_active /\ t.view = e.view
        /\ t.continuous = e.continuous
    BY ZenonT(60), <2>3 DEF FreeSession
  <2> HIDE DEF t
  <2>5. /\ t.greeted /\ t.phase = "active" /\ ~t.continuous
        /\ ~t.catchup_active /\ t.snapshot = s.snapshot
        /\ t.snapshot_seq = s.snapshot_seq /\ t.subscribed = s.subscribed
        /\ t.needs_resync = s.needs_resync
    BY ZenonT(60), <1>5, <2>1, <2>4 DEF Kept, SessionInv, Shape
  <2>6. Shape(t)
    BY <2>4, <2>5, BrokerConstants DEF Shape
  <2>7. Waiting(t)
    <3>1. Len(t.queue) # 0
      BY <2>1, <2>4, RoomType
    <3>2. t.queue # <<>>
      BY <3>1
    <3> QED
      BY <2>5, <3>2 DEF Waiting
  <2>8. Wire(t, h)
    <3>1. Truthful(b, h)
      BY <1>1, <1>2, <1>3 DEF Truthful, SessionInv, Wire, Mirrors
    <3>2. \A k \in 1 .. Len(e.queue) : Truthful(e.queue[k], h)
      BY <2>1, <3>1 DEF SessionInv, Wire
    <3> QED
      BY <2>4, <2>5, <3>2 DEF SessionInv, Wire
  <2>9. ASSUME Client # "pipelining" PROVE Coverage(t, now)
    <3>1. ASSUME ~t.needs_resync, NEW i \in Items, i < end
          PROVE  Covered(t, i, now)
      <4>1. CASE i \in I
        <5>1. Mentions(b, i) /\ b.items[i] = s.snapshot[i]
          BY <1>2, <1>3, <4>1 DEF Mentions
        <5>2. Arrives(e, i, s.snapshot[i])
          BY <2>1, <5>1
        <5> QED
          BY <2>4, <2>5, <5>2, ArrivesKept DEF Covered
      <4>2. CASE i \notin I
        <5>1. ~Mentions(b, i)
          BY <1>2, <1>3, <4>2 DEF Mentions
        <5>2. i < s.next_index
          BY <1>1, <3>1, <4>2 DEF Items, I
        <5>3. ~s.needs_resync /\ ~s.catchup_active
          BY <2>5, <3>1 DEF SessionInv, Shape
        <5>4. Covered(s, i, now)
          BY <2>9, <5>2, <5>3 DEF SessionInv, Coverage
        <5>5. \A v : Arrives(s, i, v) => Arrives(t, i, v)
          BY ZenonT(60), <2>1, <2>4, <5>1, ArrivesKept
        <5> QED
          BY <2>5, <5>4, <5>5 DEF Covered
      <4> QED
        BY <4>1, <4>2
    <3> QED
      BY <2>4, <2>5, <3>1 DEF Coverage, Live
  <2> QED
    BY <2>2, <2>6, <2>7, <2>8, <2>9 DEF SessionInv
<1> QED
  BY <1>6, <1>7

\* A new transfer starts from a copy of the canonical state.
LEMMA BeginSnapshotInv ==
  ASSUME Inv, NEW s, IsSession(s, change_sequence),
         SessionInv(s, history, canon), s.greeted, ~s.catchup_active
  PROVE  SessionInv(begin_snapshot(s), history, canon)
<1> DEFINE t == begin_snapshot(s)
<1>1. DOMAIN s = DOMAIN FreeSession
  BY DEF IsSession
<1>2. /\ t.snapshot = canon /\ t.snapshot_seq = change_sequence
      /\ t.next_index = 0 /\ t.snapshot_active /\ ~t.snapshot_complete
      /\ ~t.needs_resync /\ ~t.resync_queued /\ ~t.continuous
      /\ t.phase = s.phase /\ t.greeted = s.greeted /\ t.queue = s.queue
      /\ t.view = s.view /\ t.catchup_active = s.catchup_active
      /\ t.subscribed = s.subscribed
  BY ZenonT(60), <1>1 DEF begin_snapshot, FreeSession
<1> HIDE DEF t
<1>3. Shape(t)
  BY <1>2 DEF SessionInv, Shape
<1>4. Waiting(t)
  BY <1>2 DEF Waiting
<1>5. Wire(t, history)
  BY <1>2, InvFacts DEF SessionInv, Wire
<1>6. Coverage(t, canon)
  <2>1. \A i \in Items : ~(i < 0)
    BY DEF Items
  <2> QED
    BY <1>2, <2>1 DEF Coverage, Live
<1> QED
  BY <1>3, <1>4, <1>5, <1>6 DEF SessionInv, t

\* While a catch-up is stalled there is no room for a page.
LEMMA StalledPage ==
  ASSUME NEW s, NEW last, IsSession(s, last), Waiting(s), s.catchup_active,
         NEW type, NEW end
  PROVE  Page(begin_snapshot(s), type, end) = client_close(s)
<1>1. DOMAIN s = DOMAIN FreeSession
  BY DEF IsSession
<1>2. begin_snapshot(s).queue = s.queue
  BY <1>1 DEF begin_snapshot, FreeSession
<1>3. Room(begin_snapshot(s)) = 0
  BY <1>2, RoomType, BrokerConstants DEF Waiting, Room
<1> QED
  BY <1>3 DEF Page, Reply, client_close, FreeSession

\* GET_SNAPSHOT keeps the invariant, whether it starts a transfer or continues
\* one.
LEMMA FrameChunkInv ==
  ASSUME Inv, NEW s, IsSession(s, change_sequence),
         SessionInv(s, history, canon), s.greeted, NEW start \in Frames
  PROVE  SessionInv(queue_frame_snapshot_chunk(s, start), history, canon)
<1> DEFINE end == PageEnd(start, FramesPerMessage, FrameCount)
           b == begin_snapshot(s)
<1>1. /\ end \in 0 .. FrameCount + SignalCount
      /\ "SNAPSHOT" \in Types
  <2>1. start \in Nat /\ FramesPerMessage \in Nat \ {0} /\ FrameCount \in Nat
    BY BrokerConstants DEF Frames
  <2>2. end \in 0 .. FrameCount
    BY <2>1, PageEndType
  <2> QED
    BY <2>2, BrokerConstants DEF Types
<1> HIDE DEF end
<1>2. change_sequence \in Nat /\ canon \in [Items -> Values]
  BY InvFacts
<1>3. CASE start = 0 /\ ~s.snapshot_active
  <2>1. queue_frame_snapshot_chunk(s, start)
          \in {client_close(s), Page(b, "SNAPSHOT", end)}
    BY <1>3 DEF queue_frame_snapshot_chunk, end
  <2>2. CASE s.catchup_active
    BY <2>1, <2>2, StalledPage, FreeInv DEF SessionInv
  <2>3. CASE ~s.catchup_active
    <3>1. SessionInv(b, history, canon) /\ IsSession(b, change_sequence)
      BY <1>2, <2>3, BeginSnapshotInv, BeginSnapshotTyped
    <3>2. b.snapshot_active
      BY DEF begin_snapshot, IsSession, FreeSession
    <3> HIDE DEF b
    <3>3. SessionInv(Page(b, "SNAPSHOT", end), history, canon)
      BY <1>1, <1>2, <3>1, <3>2, PageInv
    <3> QED
      BY <2>1, <3>3, FreeInv
  <2> QED
    BY <2>2, <2>3
<1>4. CASE ~(start = 0 /\ ~s.snapshot_active)
  <2>1. \/ queue_frame_snapshot_chunk(s, start) = client_close(s)
        \/ /\ s.snapshot_active
           /\ queue_frame_snapshot_chunk(s, start) = Page(s, "SNAPSHOT", end)
    BY <1>4 DEF queue_frame_snapshot_chunk, end
  <2>2. s.snapshot_active => SessionInv(Page(s, "SNAPSHOT", end), history, canon)
    BY <1>1, <1>2, PageInv
  <2> QED
    BY <2>1, <2>2, FreeInv
<1> QED
  BY <1>3, <1>4

\* GET_SIGNAL_SNAPSHOT keeps the invariant.
LEMMA SignalChunkInv ==
  ASSUME Inv, NEW s, IsSession(s, change_sequence),
         SessionInv(s, history, canon), NEW start \in 0 .. SignalCount - 1
  PROVE  SessionInv(queue_signal_snapshot_chunk(s, start), history, canon)
<1> DEFINE end == PageEnd(s.next_index, SignalsPerMessage,
                          FrameCount + SignalCount)
<1>1. end \in 0 .. FrameCount + SignalCount
  <2>1. /\ FrameCount + SignalCount \in Nat /\ SignalsPerMessage \in Nat \ {0}
        /\ s.next_index \in Nat
    BY BrokerConstants DEF IsSession
  <2> QED
    BY ZenonT(60), <2>1, PageEndType
<1> HIDE DEF end
<1>2. \/ queue_signal_snapshot_chunk(s, start) = client_close(s)
      \/ /\ s.snapshot_active
         /\ queue_signal_snapshot_chunk(s, start)
              = Page(s, "SIGNAL_SNAPSHOT_CHUNK", end)
  BY DEF queue_signal_snapshot_chunk, end
<1>3. "SIGNAL_SNAPSHOT_CHUNK" \in Types /\ change_sequence \in Nat
  BY InvFacts DEF Types
<1>4. s.snapshot_active =>
        SessionInv(Page(s, "SIGNAL_SNAPSHOT_CHUNK", end), history, canon)
  BY <1>1, <1>3, PageInv
<1> QED
  BY <1>2, <1>4, FreeInv

-----------------------------------------------------------------------------
(* A write completes. *)

\* What a completed write does to the fields of a session.
LEMMA FreedFields ==
  ASSUME NEW last, NEW s, IsSession(s, last), s.queue # <<>>
  PROVE  LET f == Freed(s) IN
         /\ f.queue = Tail(s.queue) /\ f.view = Apply(s.view, Head(s.queue))
         /\ f.phase = s.phase /\ f.greeted = s.greeted
         /\ f.subscribed = s.subscribed /\ f.needs_resync = s.needs_resync
         /\ f.resync_queued = s.resync_queued /\ f.snapshot = s.snapshot
         /\ f.snapshot_seq = s.snapshot_seq /\ f.next_index = s.next_index
         /\ f.snapshot_active = s.snapshot_active
         /\ f.snapshot_complete = s.snapshot_complete
         /\ f.catchup_active = s.catchup_active
         /\ f.catchup_seq = s.catchup_seq /\ f.pending = s.pending
         /\ f.continuous = s.continuous
  BY DEF Freed, IsSession, FreeSession

\* Sending the oldest message changes nothing about what arrives.
LEMMA FreedArrives ==
  ASSUME NEW last, NEW s, IsSession(s, last), s.queue # <<>>,
         NEW i \in Items, NEW v, Arrives(s, i, v)
  PROVE  Arrives(Freed(s), i, v)
<1>1. /\ s.queue \in Seq(Messages(last)) /\ Len(s.queue) \in Nat
      /\ Len(s.queue) # 0
  BY RoomType, EmptySeq DEF IsSession
<1>2. /\ Freed(s).queue = Tail(s.queue)
      /\ Freed(s).view = Apply(s.view, Head(s.queue))
  BY FreedFields
<1>3. Len(Tail(s.queue)) = Len(s.queue) - 1
  BY <1>1, HeadTailProperties
<1>4. Len(s.queue) \in 1 .. Len(s.queue)
  BY <1>1
<1>5. Reaches(Tail(s.queue), Len(s.queue) - 1, Apply(s.view, Head(s.queue)), i, v)
  BY <1>1, <1>4, ReachesTail DEF Arrives
<1> QED
  BY <1>2, <1>3, <1>5 DEF Arrives

\* A completed write leaves a truthful queue.
LEMMA FreedWire ==
  ASSUME NEW last, NEW s, IsSession(s, last), s.queue # <<>>,
         NEW h, Wire(s, h)
  PROVE  Wire(Freed(s), h)
<1>1. /\ s.queue \in Seq(Messages(last)) /\ Len(s.queue) \in Nat
      /\ Len(s.queue) # 0
  BY RoomType, EmptySeq DEF IsSession
<1>2. /\ Len(Tail(s.queue)) = Len(s.queue) - 1
      /\ \A k \in 1 .. Len(s.queue) - 1 : Tail(s.queue)[k] = s.queue[k + 1]
  BY <1>1, HeadTailProperties
<1>3. ASSUME NEW k \in 1 .. Len(Tail(s.queue))
      PROVE  Truthful(Tail(s.queue)[k], h)
  <2>1. /\ k \in 1 .. Len(s.queue) - 1 /\ k + 1 \in 1 .. Len(s.queue)
    BY <1>1, <1>2
  <2> QED
    BY <1>2, <2>1 DEF Wire
<1>4. /\ Freed(s).queue = Tail(s.queue)
      /\ Freed(s).snapshot = s.snapshot
      /\ Freed(s).snapshot_active = s.snapshot_active
      /\ Freed(s).snapshot_seq = s.snapshot_seq
      /\ Freed(s).catchup_active = s.catchup_active
      /\ Freed(s).catchup_seq = s.catchup_seq
  BY FreedFields
<1> QED
  BY <1>3, <1>4 DEF Wire

\* After a completed write a stalled catch-up can go on, and any other session
\* is settled.
LEMMA FreedSettled ==
  ASSUME NEW last, NEW s, IsSession(s, last), s.queue # <<>>,
         NEW h, NEW now, SessionInv(s, h, now)
  PROVE  /\ ~s.catchup_active => Settled(Freed(s), h, now)
         /\ s.catchup_active => Catching(Freed(s), h)
<1> DEFINE f == Freed(s)
<1>1. /\ f.phase = s.phase /\ f.greeted = s.greeted
      /\ f.subscribed = s.subscribed /\ f.needs_resync = s.needs_resync
      /\ f.resync_queued = s.resync_queued /\ f.snapshot = s.snapshot
      /\ f.snapshot_seq = s.snapshot_seq /\ f.next_index = s.next_index
      /\ f.snapshot_active = s.snapshot_active
      /\ f.snapshot_complete = s.snapshot_complete
      /\ f.catchup_active = s.catchup_active
      /\ f.catchup_seq = s.catchup_seq /\ f.pending = s.pending
      /\ f.continuous = s.continuous
  BY ZenonT(60), FreedFields
<1>2. \A i \in Items : \A v : Arrives(s, i, v) => Arrives(f, i, v)
  BY FreedArrives
<1>3. Wire(f, h)
  BY FreedWire DEF SessionInv
<1> HIDE DEF f
<1>4. Shape(f)
  BY <1>1 DEF SessionInv, Shape
<1>5. ASSUME Client # "pipelining" PROVE Coverage(f, now)
  <2>1. Coverage(s, now)
    BY <1>5 DEF SessionInv
  <2>2. \A i \in Items : Covered(s, i, now) => Covered(f, i, now)
    BY <1>1, <1>2 DEF Covered
  <2>3. Caught(s) => Caught(f)
    BY <1>1, <1>2 DEF Caught
  <2>4. Live(f) => \A i \in Items : Arrives(f, i, now[i])
    BY <1>1, <1>2, <2>1 DEF Coverage, Live
  <2> QED
    BY <1>1, <2>1, <2>2, <2>3, <2>4 DEF Coverage
<1> QED
  BY ZenonT(60), <1>1, <1>3, <1>4, <1>5 DEF Settled, Catching, Coverage, f

\* The resync notice is queued as soon as the queue is empty.
LEMMA ResyncInv ==
  ASSUME Inv, NEW s, IsSession(s, change_sequence), Settled(s, history, canon)
  PROVE  SessionInv(maybe_queue_resync(s), history, canon)
<1> DEFINE owed == s.greeted /\ s.needs_resync /\ ~s.resync_queued
                     /\ s.queue = <<>>
           e == Enqueue(s, <<Bare("RESYNC_REQUIRED")>>)
           t == [e EXCEPT !.resync_queued = TRUE]
<1>1. CASE ~owed
  <2>1. Waiting(s)
    BY <1>1 DEF Settled, Shape, Waiting
  <2>2. SessionInv(s, history, canon)
    BY <2>1 DEF Settled, SessionInv
  <2> QED
    BY <1>1, <2>2 DEF maybe_queue_resync
<1>2. CASE owed
  <2>1. Room(s) # 0
    BY <1>2, BrokerConstants DEF Room
  <2>2. change_sequence \in Nat /\ "RESYNC_REQUIRED" \in Types
    BY InvFacts DEF Types
  <2>3. SessionInv(e, history, canon) /\ IsSession(e, change_sequence)
    BY ZenonT(60), <2>1, <2>2, BareInv, BareQueued
  <2>4. maybe_queue_resync(s) = t
    BY <1>2 DEF maybe_queue_resync
  <2> HIDE DEF e
  <2>5. DOMAIN e = DOMAIN FreeSession
    BY <2>3 DEF IsSession
  <2>6. /\ t.resync_queued
        /\ t.phase = e.phase /\ t.greeted = e.greeted
        /\ t.subscribed = e.subscribed /\ t.needs_resync = e.needs_resync
        /\ t.queue = e.queue /\ t.snapshot = e.snapshot
        /\ t.snapshot_seq = e.snapshot_seq /\ t.next_index = e.next_index
        /\ t.snapshot_active = e.snapshot_active
        /\ t.snapshot_complete = e.snapshot_complete
        /\ t.catchup_active = e.catchup_active /\ t.catchup_seq = e.catchup_seq
        /\ t.pending = e.pending /\ t.view = e.view
        /\ t.continuous = e.continuous
    BY <2>5 DEF FreeSession
  <2> HIDE DEF t
  <2>7. Shape(t) /\ Waiting(t) /\ Wire(t, history)
    BY ZenonT(60), <2>3, <2>6 DEF SessionInv, Shape, Waiting, Wire
  <2>8. \A i, v : Arrives(t, i, v) <=> Arrives(e, i, v)
    BY <2>6 DEF Arrives
  <2>9. ASSUME Coverage(e, canon) PROVE Coverage(t, canon)
    BY <2>6, <2>8, <2>9 DEF Coverage, Covered, Caught, Live
  <2> QED
    BY <2>3, <2>4, <2>7, <2>9 DEF SessionInv
<1> QED
  BY <1>1, <1>2

\* on_client_write keeps the invariant.
LEMMA WriteInv ==
  ASSUME Inv, NEW s, IsSession(s, change_sequence),
         SessionInv(s, history, canon), s.queue # <<>>
  PROVE  SessionInv(on_client_write(s), history, canon)
<1> DEFINE f == Freed(s)
<1>1. /\ change_sequence \in Nat /\ canon \in [Items -> Values]
      /\ IsSession(f, change_sequence)
      /\ f.catchup_active = s.catchup_active
  BY InvFacts, FreedTyped, FreedFields
<1>2. CASE s.catchup_active
  <2>1. on_client_write(s) = maybe_queue_resync(drive_subscription_catchup(f))
    BY <1>1, <1>2 DEF on_client_write, Freed
  <2>2. Catching(f, history)
    BY <1>2, FreedSettled
  <2> HIDE DEF f
  <2>3. /\ SessionInv(drive_subscription_catchup(f), history, canon)
        /\ IsSession(drive_subscription_catchup(f), change_sequence)
    BY <1>1, <2>2, DriveInv, DriveTyped
  <2> QED
    BY <2>1, <2>3, InvSettled, ResyncInv
<1>3. CASE ~s.catchup_active
  <2>1. on_client_write(s) = maybe_queue_resync(f)
    BY <1>1, <1>3 DEF on_client_write, Freed
  <2>2. Settled(f, history, canon)
    BY <1>3, FreedSettled
  <2> QED
    BY <1>1, <2>1, <2>2, ResyncInv
<1> QED
  BY <1>2, <1>3

-----------------------------------------------------------------------------
(* Droppable messages: heartbeats and live updates. *)

\* A session that lost a message is left with a full queue and needs_resync,
\* whatever was queued of the update.
LEMMA OverflowInv ==
  ASSUME NEW last \in Nat, NEW s, IsSession(s, last), NEW h, NEW now,
         Shape(s), Wire(s, h), s.subscribed,
         NEW messages \in Seq(Messages(last)),
         \A k \in 1 .. Len(messages) : Truthful(messages[k], h),
         ~(Len(messages) <= Room(s)),
         s.catchup_active => Len(s.queue) = QueueSlots
  PROVE  SessionInv(Offer(s, messages), h, now)
<1> DEFINE e == Enqueue(s, messages)
           t == [e EXCEPT !.needs_resync = TRUE, !.subscribed = FALSE,
                          !.setup_left = SetupBeats]
<1>1. PICK n \in Nat : /\ Kept(s, e)
                       /\ IsSession(e, last)
                       /\ Grown(s, e.queue, messages, n)
  BY EnqueueGrows, EnqueueTyped
<1>2. Offer(s, messages) = t
  BY DEF Offer
<1> HIDE DEF e
<1>3. DOMAIN e = DOMAIN FreeSession
  BY ZenonT(60), <1>1 DEF IsSession
<1>4. /\ t.needs_resync /\ ~t.subscribed
      /\ t.phase = e.phase /\ t.greeted = e.greeted
      /\ t.resync_queued = e.resync_queued /\ t.queue = e.queue
      /\ t.snapshot = e.snapshot /\ t.snapshot_seq = e.snapshot_seq
      /\ t.next_index = e.next_index /\ t.snapshot_active = e.snapshot_active
      /\ t.snapshot_complete = e.snapshot_complete
      /\ t.catchup_active = e.catchup_active /\ t.catchup_seq = e.catchup_seq
      /\ t.view = e.view /\ t.continuous = e.continuous
  BY <1>3 DEF FreeSession
<1> HIDE DEF t
<1>5. Shape(t)
  BY ZenonT(60), <1>1, <1>4 DEF Kept, Shape
<1>6. Len(t.queue) = QueueSlots /\ t.queue # <<>>
  <2>1. n = Room(s) /\ Len(t.queue) = Len(s.queue) + n
    BY <1>1, <1>4, RoomType DEF Grown
  <2>2. Len(t.queue) = QueueSlots
    BY <2>1, RoomType, BrokerConstants DEF Room
  <2> QED
    BY <2>2, BrokerConstants
<1>7. Waiting(t)
  BY <1>6 DEF Waiting
<1>8. Wire(t, h)
  <2>1. \A k \in 1 .. Len(e.queue) : Truthful(e.queue[k], h)
    BY ZenonT(60), <1>1, GrownTruthful DEF Wire
  <2> QED
    BY <1>1, <1>4, <2>1 DEF Kept, Wire
<1>9. Coverage(t, now)
  BY ZenonT(60), <1>4 DEF Coverage, Caught, Live
<1> QED
  BY <1>2, <1>5, <1>7, <1>8, <1>9 DEF SessionInv

\* on_heartbeat keeps the invariant.
LEMMA BeatInv ==
  ASSUME Inv, NEW s, IsSession(s, change_sequence),
         SessionInv(s, history, canon)
  PROVE  SessionInv(Beat(s), history, canon)
<1> DEFINE t == [s EXCEPT !.hello_left = Elapse(@), !.setup_left = Elapse(@)]
           b == Bare("HEARTBEAT")
<1>1. \/ Beat(s) \in {s, t, client_close(t)}
      \/ t.subscribed /\ Beat(s) = Offer(t, <<b>>)
  BY DEF Beat
<1>2. IsSession(t, change_sequence)
  <2>1. s.hello_left \in Off .. HelloBeats /\ s.setup_left \in Off .. SetupBeats
    BY DEF IsSession
  <2>2. /\ Elapse(s.hello_left) \in Off .. HelloBeats
        /\ Elapse(s.setup_left) \in Off .. SetupBeats
    BY <2>1, BrokerConstants DEF Elapse, Off
  <2> QED
    BY <2>2 DEF IsSession, FreeSession
<1>3. Alike(s, t)
  BY DEF Alike, IsSession, FreeSession
<1> HIDE DEF t
<1>4. SessionInv(t, history, canon)
  BY <1>3, AlikeInv
<1>5. /\ change_sequence \in Nat /\ "HEARTBEAT" \in Types
      /\ b \in Messages(change_sequence) /\ DOMAIN b.items = {}
  BY InvFacts, BareMessage DEF Types
<1> HIDE DEF b
<1>6. /\ <<b>> \in Seq(Messages(change_sequence))
      /\ Len(<<b>>) = 1 /\ <<b>>[1] = b
  BY <1>5, SingleSeq
<1>7. ASSUME t.subscribed PROVE SessionInv(Offer(t, <<b>>), history, canon)
  <2>1. CASE 1 <= Room(t)
    <3>1. Room(t) # 0
      BY <2>1
    <3>2. Offer(t, <<b>>) = Enqueue(t, <<b>>)
      BY <1>6, <2>1 DEF Offer
    <3> QED
      BY <1>2, <1>4, <1>5, <3>1, <3>2, InvSettled, BareInv DEF b
  <2>2. CASE ~(1 <= Room(t))
    <3>1. \A k \in 1 .. Len(<<b>>) : Truthful(<<b>>[k], history)
      BY <1>5, <1>6 DEF Truthful
    <3>2. /\ Shape(t) /\ Wire(t, history)
          /\ t.catchup_active => Len(t.queue) = QueueSlots
      BY <1>4 DEF SessionInv, Waiting
    <3>3. ~(Len(<<b>>) <= Room(t))
      BY <1>6, <2>2
    <3> QED
      BY Zenon, <1>2, <1>5, <1>6, <1>7, <3>1, <3>2, <3>3, OverflowInv
  <2> QED
    BY <2>1, <2>2
<1> QED
  BY <1>1, <1>4, <1>7, FreeInv

-----------------------------------------------------------------------------
(* A new sample. *)

\* A record of past states only grows.
LEMMA WireMoves ==
  ASSUME NEW last \in Nat, NEW s, IsSession(s, last), NEW new,
         NEW S, NEW h \in Seq(S), Len(h) = last + 1, Wire(s, h)
  PROVE  Wire(s, Append(h, new))
<1> DEFINE g == Append(h, new)
<1>1. \A n \in 0 .. last : g[n + 1] = h[n + 1]
  OBVIOUS
<1> HIDE DEF g
<1>2. s.snapshot_seq \in 0 .. last /\ s.catchup_seq \in 0 .. last
  BY DEF IsSession
<1>3. ASSUME NEW k \in 1 .. Len(s.queue) PROVE Truthful(s.queue[k], g)
  <2>1. s.queue[k] \in Messages(last)
    BY DEF IsSession
  <2>2. s.queue[k].seq \in 0 .. last
    BY <2>1 DEF Messages
  <2>3. Truthful(s.queue[k], h)
    BY DEF Wire
  <2> QED
    BY <1>1, <2>2, <2>3 DEF Truthful
<1>4. \A state : \A n \in 0 .. last : Mirrors(state, h, n) => Mirrors(state, g, n)
  BY <1>1 DEF Mirrors
<1> QED
  BY <1>2, <1>3, <1>4 DEF Wire, g

\* A session the update is not offered to promises nothing about the present.
LEMMA UntoldInv ==
  ASSUME NEW s, NEW h, NEW g, NEW now, NEW new, SessionInv(s, h, now),
         Wire(s, g), ~(s.phase = "active" /\ s.subscribed /\ ~s.needs_resync)
  PROVE  SessionInv(s, g, new)
<1>1. ~s.subscribed \/ s.needs_resync
  BY DEF SessionInv, Shape
<1>2. ASSUME Client # "pipelining" PROVE Coverage(s, new)
  <2>1. Coverage(s, now)
    BY <1>2 DEF SessionInv
  <2>2. ~Live(s)
    BY <1>1 DEF Live
  <2>3. ASSUME ~s.needs_resync, NEW i, Covered(s, i, now)
        PROVE  Covered(s, i, new)
    BY <1>1, <2>3 DEF Covered
  <2> QED
    BY <2>1, <2>2, <2>3 DEF Coverage
<1> QED
  BY <1>2 DEF SessionInv

\* Nothing that counts as a change has happened.
LEMMA UnchangedInv ==
  ASSUME NEW last, NEW s, IsSession(s, last), NEW h, NEW now, NEW new,
         SessionInv(s, h, now), \A i \in Items : Same(i, now[i], new[i])
  PROVE  SessionInv(s, h, new)
<1>1. \A i \in Items : Arrives(s, i, now[i]) => Arrives(s, i, new[i])
  BY ArrivesSame
<1>2. \A i \in Items : Covered(s, i, now) => Covered(s, i, new)
  BY <1>1 DEF Covered
<1> QED
  BY <1>1, <1>2 DEF SessionInv, Coverage

\* distribute_latest_sample keeps the invariant of every session, now judged
\* against the new canonical state.
LEMMA BroadcastInv ==
  ASSUME Inv, NEW s, IsSession(s, change_sequence),
         SessionInv(s, history, canon), NEW new \in [Items -> Values],
         Changed(canon, new) # {}
  PROVE  SessionInv(Broadcast(s, Changed(canon, new), new),
                    Append(history, new), new)
<1> DEFINE P == Changed(canon, new)
           last == change_sequence + 1
           g == Append(history, new)
           b == Batches(P, new, last)
           e == Enqueue(s, b)
<1>1. /\ change_sequence \in Nat /\ last \in Nat /\ last \in 0 .. last
      /\ history \in Seq([Items -> Values])
      /\ Len(history) = change_sequence + 1
      /\ P \in SUBSET Items /\ new \in [Items -> Known]
      /\ \A i \in Items \ P : Same(i, canon[i], new[i])
  BY InvFacts, StateFacts, CanonKnown DEF Changed
<1>2. IsSession(s, last)
  BY <1>1, SessionMonotone
<1>3. Wire(s, g)
  BY <1>1, WireMoves DEF SessionInv
<1>4. Mirrors(new, g, last)
  <2>1. g[last + 1] = new
    BY <1>1
  <2> QED
    BY <2>1, SameRefl DEF Mirrors
<1> HIDE DEF g
<1>5. CASE ~(s.phase = "active" /\ s.subscribed /\ ~s.needs_resync)
  BY <1>3, <1>5, UntoldInv DEF Broadcast, g
<1>6. CASE s.phase = "active" /\ s.subscribed /\ ~s.needs_resync
  <2>1. Broadcast(s, P, new) = Offer(s, b)
    BY <1>6 DEF Broadcast
  <2>2. /\ b \in Seq(Messages(last)) /\ Len(b) = BatchCount(P)
        /\ \A k \in 1 .. BatchCount(P) : Truthful(b[k], g)
    BY Zenon, <1>1, <1>4, BatchesTyped, BatchesTruthful
  <2>3. BatchCount(P) \in Nat /\ BatchCount(P) # 0
    BY <1>1, BatchBound
  <2>4. /\ Shape(s)
        /\ s.catchup_active => Len(s.queue) = QueueSlots
    BY DEF SessionInv, Waiting
  <2>5. CASE ~(Len(b) <= Room(s))
    <3>1. SessionInv(Offer(s, b), g, new)
      BY <1>1, <1>2, <1>3, <1>6, <2>2, <2>4, <2>5, OverflowInv
    <3> QED
      BY <2>1, <3>1 DEF g
  <2>6. CASE Len(b) <= Room(s)
    <3>1. Offer(s, b) = e
      BY <2>6 DEF Offer
    <3>2. PICK n \in Nat : /\ Kept(s, e) /\ IsSession(e, last)
                           /\ Grown(s, e.queue, b, n)
      BY <1>2, <2>2, EnqueueGrows, EnqueueTyped
    <3>3. ~s.catchup_active
      <4>1. Room(s) \in Nat /\ Room(s) # 0
        BY <1>2, <2>2, <2>3, <2>6, RoomType
      <4>2. Len(s.queue) # QueueSlots
        BY <4>1, BrokerConstants DEF Room
      <4> QED
        BY <2>4, <4>2
    <3>4. e.view = s.view /\ ~e.needs_resync /\ ~e.catchup_active
          /\ e.subscribed /\ e.snapshot = s.snapshot
          /\ e.next_index = s.next_index
          /\ (e.continuous <=> s.continuous)
      BY ZenonT(60), <1>6, <3>2, <3>3 DEF Kept
    <3>5. /\ \A i, v : Arrives(s, i, v) /\ i \notin P => Arrives(e, i, v)
          /\ \A i \in P : BatchOf(P, i) <= Room(s) => Arrives(e, i, new[i])
      <4> HIDE DEF e
      <4> QED
        BY <1>1, <1>2, <3>2, <3>4, BatchesArrive
    <3> HIDE DEF e, b
    <3>6. \A i \in P : Arrives(e, i, new[i])
      <4>1. \A i \in P : BatchOf(P, i) \in 1 .. BatchCount(P)
        BY <1>1, BatchBound
      <4>2. Room(s) \in Nat
        BY <1>2, RoomType
      <4>3. \A i \in P : BatchOf(P, i) <= Room(s)
        BY <2>2, <2>3, <2>6, <4>1, <4>2
      <4> QED
        BY <3>5, <4>3
    <3>7. \A i \in Items : Arrives(s, i, canon[i]) => Arrives(e, i, new[i])
      BY <1>1, <1>2, <3>5, <3>6, ArrivesSame
    <3>8. Shape(e) /\ Waiting(e)
      BY Zenon, <2>4, <3>2, <3>4, KeptShape DEF Waiting
    <3>9. Wire(e, g)
      <4>1. \A k \in 1 .. Len(e.queue) : Truthful(e.queue[k], g)
        BY Zenon, <1>2, <1>3, <2>2, <3>2, GrownTruthful DEF Wire
      <4> QED
        BY ZenonT(60), <1>3, <3>2, <4>1, KeptWire
    <3>10. ASSUME Client # "pipelining" PROVE Coverage(e, new)
      <4>1. Coverage(s, canon)
        BY <3>10 DEF SessionInv
      <4>2. ASSUME NEW i \in Items, Covered(s, i, canon)
            PROVE  Covered(e, i, new)
        <5>1. CASE i \in P
          BY <3>4, <3>6, <5>1 DEF Covered
        <5>2. CASE i \notin P
          BY <3>4, <3>5, <3>7, <4>2, <5>2 DEF Covered
        <5> QED
          BY <5>1, <5>2
      <4>3. Live(e) => Live(s)
        BY Zenon, <1>6, <3>3, <3>4 DEF Live
      <4>4. Live(e) => \A i \in Items : Arrives(e, i, new[i])
        BY <3>7, <4>1, <4>3 DEF Coverage
      <4> QED
        BY <1>6, <3>3, <3>4, <4>1, <4>2, <4>4 DEF Coverage
    <3> QED
      BY <2>1, <3>1, <3>8, <3>9, <3>10 DEF SessionInv, g
  <2> QED
    BY <2>5, <2>6
<1> QED
  BY <1>5, <1>6

=============================================================================
