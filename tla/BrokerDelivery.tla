---------------------------- MODULE BrokerDelivery ----------------------------
(***************************************************************************)
(* What arrives at the client: the first part of the proof that the        *)
(* invariant of BrokerInv is inductive.                                    *)
(*                                                                         *)
(* Queueing, batches, catch-up rounds and replies each have a section that *)
(* shows which values reach the client and that what is queued is true.    *)
(***************************************************************************)
EXTENDS BrokerProofs

\* Larger obligations take the provers longer than their default limits.
USE SMTT(30), ZenonT(30)

-----------------------------------------------------------------------------
(* Queueing messages. *)

\* What was to arrive still does when no new message mentions the item.
LEMMA GrownArrives ==
  ASSUME NEW last, NEW s, IsSession(s, last), NEW t, t.view = s.view,
         NEW messages \in Seq(Messages(last)), NEW n, Grown(s, t.queue, messages, n),
         NEW i, NEW v, Arrives(s, i, v),
         \A k \in 1 .. n : ~Mentions(messages[k], i)
  PROVE  Arrives(t, i, v)
<1> DEFINE a == Len(s.queue)
           b == Len(t.queue)
<1>1. /\ a \in Nat /\ n \in Nat /\ b = a + n
      /\ \A k \in 1 .. a : t.queue[k] = s.queue[k]
      /\ \A k \in 1 .. n : t.queue[a + k] = messages[k]
  BY RoomType DEF Grown
<1>2. Reaches(s.queue, a, s.view, i, v)
  BY DEF Arrives
<1> HIDE DEF a, b
<1>3. ASSUME NEW k \in a + 1 .. b PROVE ~Mentions(t.queue[k], i)
  <2>1. k - a \in 1 .. n /\ k = a + (k - a)
    BY <1>1
  <2> QED
    BY ZenonT(60), <1>1, <2>1
<1>4. a \in Nat /\ b \in Nat /\ a <= b
  BY <1>1
<1>5. Reaches(t.queue, b, t.view, i, v)
  <2>1. \A k \in 1 .. a : t.queue[k] = s.queue[k]
    BY <1>1
  <2>2. \A k \in a + 1 .. b : ~Mentions(t.queue[k], i)
    BY <1>3
  <2>3. Reaches(s.queue, a, t.view, i, v)
    BY <1>2
  <2> QED
    BY ZenonT(60), <1>4, <2>1, <2>2, <2>3, ReachesKept
<1> QED
  BY <1>5 DEF Arrives, b

\* Truthful messages on a truthful queue leave it truthful.
LEMMA GrownTruthful ==
  ASSUME NEW last, NEW s, IsSession(s, last), NEW t, NEW h,
         NEW messages \in Seq(Messages(last)), NEW n, Grown(s, t.queue, messages, n),
         \A k \in 1 .. Len(s.queue) : Truthful(s.queue[k], h),
         \A k \in 1 .. Len(messages) : Truthful(messages[k], h)
  PROVE  \A k \in 1 .. Len(t.queue) : Truthful(t.queue[k], h)
<1> DEFINE a == Len(s.queue)
<1>1. /\ a \in Nat /\ n \in 0 .. Len(messages) /\ Len(t.queue) = a + n
      /\ \A k \in 1 .. a : t.queue[k] = s.queue[k]
      /\ \A k \in 1 .. n : t.queue[a + k] = messages[k]
  BY RoomType DEF Grown
<1>2. \A k \in 1 .. a : Truthful(s.queue[k], h)
  OBVIOUS
<1> HIDE DEF a
<1>3. ASSUME NEW k \in 1 .. Len(t.queue) PROVE Truthful(t.queue[k], h)
  <2>1. CASE k <= a
    BY <1>1, <1>2, <2>1
  <2>2. CASE k > a
    <3>1. k - a \in 1 .. n /\ k - a \in 1 .. Len(messages) /\ k = a + (k - a)
      BY <1>1, <2>2
    <3> QED
      BY ZenonT(60), <1>1, <3>1
  <2> QED
    BY <1>1, <2>1, <2>2
<1> QED
  BY <1>3

-----------------------------------------------------------------------------
(* The batches of an update or of a catch-up round. *)

\* An item is mentioned by the one batch it travels in, with its value.
LEMMA BatchMentions ==
  ASSUME NEW last \in Nat, NEW P \in SUBSET Items,
         NEW values \in [Items -> Known], NEW seq \in 0 .. last,
         NEW k \in 1 .. BatchCount(P), NEW i
  PROVE  /\ Mentions(Batches(P, values, seq)[k], i)
              <=> i \in P /\ BatchOf(P, i) = k
         /\ i \in P /\ BatchOf(P, i) = k
              => Batches(P, values, seq)[k].items[i] = values[i]
         /\ Batches(P, values, seq)[k].seq = seq
<1>1. DOMAIN Batches(P, values, seq)[k].items = {j \in P : BatchOf(P, j) = k}
  BY BatchShape
<1>2. /\ i \in P /\ BatchOf(P, i) = k
           => Batches(P, values, seq)[k].items[i] = values[i]
      /\ Batches(P, values, seq)[k].seq = seq
  BY BatchShape
<1> QED
  BY <1>1, <1>2 DEF Mentions

\* Batches cut from the canonical state of a change sequence, and stamped
\* with it, are truthful.
LEMMA BatchesTruthful ==
  ASSUME NEW last \in Nat, NEW P \in SUBSET Items,
         NEW values \in [Items -> Known], NEW seq \in 0 .. last,
         NEW h, Mirrors(values, h, seq)
  PROVE  \A k \in 1 .. BatchCount(P) : Truthful(Batches(P, values, seq)[k], h)
<1> SUFFICES ASSUME NEW k \in 1 .. BatchCount(P)
             PROVE  Truthful(Batches(P, values, seq)[k], h)
  OBVIOUS
<1> DEFINE m == Batches(P, values, seq)[k]
<1>1. \A i : /\ Mentions(m, i) => i \in P
             /\ Mentions(m, i) => m.items[i] = values[i]
             /\ m.seq = seq
  BY BatchMentions
<1> HIDE DEF m
<1>2. Truthful(m, h)
  BY <1>1 DEF Truthful, Mirrors, Mentions
<1> QED
  BY <1>2 DEF m

\* What the queued batches of an update deliver: their items take the new
\* values, all the others, and those cut off by the free slots, keep theirs.
LEMMA BatchesArrive ==
  ASSUME NEW last \in Nat, NEW s, IsSession(s, last), NEW P \in SUBSET Items,
         NEW values \in [Items -> Known], NEW seq \in 0 .. last,
         NEW t, t.view = s.view, NEW n \in Nat,
         Grown(s, t.queue, Batches(P, values, seq), n)
  PROVE  /\ \A i, v : /\ Arrives(s, i, v)
                      /\ i \notin P \/ BatchOf(P, i) > Room(s)
                      => Arrives(t, i, v)
         /\ \A i \in P : BatchOf(P, i) <= Room(s) => Arrives(t, i, values[i])
         /\ Len(t.queue) # QueueSlots => BatchCount(P) <= Room(s)
<1> DEFINE b == Batches(P, values, seq)
           a == Len(s.queue)
<1>1. b \in Seq(Messages(last)) /\ Len(b) = BatchCount(P) /\ BatchCount(P) \in Nat
  BY ZenonT(60), BatchesTyped, BatchBound
<1>2. /\ a \in Nat /\ Room(s) \in Nat /\ Room(s) = QueueSlots - a
      /\ QueueSlots \in Nat
  BY RoomType, BrokerConstants
<1>3. /\ n \in 0 .. BatchCount(P) /\ n <= Room(s)
      /\ n = BatchCount(P) \/ n = Room(s)
      /\ Len(t.queue) = a + n
      /\ \A k \in 1 .. n : t.queue[a + k] = b[k]
  BY <1>1 DEF Grown
<1>4. ASSUME NEW k \in 1 .. n, NEW i
      PROVE  /\ Mentions(b[k], i) <=> i \in P /\ BatchOf(P, i) = k
             /\ Mentions(b[k], i) => b[k].items[i] = values[i]
  <2>1. k \in 1 .. BatchCount(P)
    BY <1>1, <1>3
  <2> QED
    BY <2>1, BatchMentions
<1> HIDE DEF a
<1>5. ASSUME NEW i, NEW v, Arrives(s, i, v),
             i \notin P \/ BatchOf(P, i) > Room(s)
      PROVE  Arrives(t, i, v)
  <2>1. ASSUME NEW k \in 1 .. n PROVE ~Mentions(b[k], i)
    <3>1. k <= Room(s) /\ k \in Nat
      BY <1>2, <1>3
    <3>2. i \in P => BatchOf(P, i) # k
      BY <1>2, <1>5, <3>1
    <3> QED
      BY <1>4, <3>2
  <2> QED
    BY ZenonT(60), <1>1, <1>5, <2>1, GrownArrives
<1>6. ASSUME NEW i \in P, BatchOf(P, i) <= Room(s)
      PROVE  Arrives(t, i, values[i])
  <2> DEFINE k == BatchOf(P, i)
  <2>1. k \in 1 .. BatchCount(P)
    BY BatchBound
  <2> HIDE DEF k
  <2>2. k \in 1 .. n
    BY <1>1, <1>2, <1>3, <1>6, <2>1 DEF k
  <2>3. Mentions(b[k], i) /\ b[k].items[i] = values[i]
    BY <1>4, <2>2 DEF k
  <2>4. t.queue[a + k] = b[k] /\ a + k \in 1 .. Len(t.queue)
    BY <1>2, <1>3, <2>2
  <2>5. ASSUME NEW j \in a + k + 1 .. Len(t.queue)
        PROVE  ~Mentions(t.queue[j], i)
    <3>1. j - a \in 1 .. n /\ j = a + (j - a) /\ j - a # k
      BY <1>2, <1>3, <2>2
    <3>2. t.queue[j] = b[j - a]
      BY <1>3, <3>1
    <3> QED
      BY <1>4, <3>1, <3>2 DEF k
  <2>6. Same(i, t.queue[a + k].items[i], values[i])
    BY <2>3, <2>4, SameRefl
  <2> QED
    BY <2>3, <2>4, <2>5, <2>6 DEF Arrives, Reaches
<1>7. Len(t.queue) # QueueSlots => BatchCount(P) <= Room(s)
  BY <1>1, <1>2, <1>3
<1> QED
  BY <1>5, <1>6, <1>7

-----------------------------------------------------------------------------
(* Catch-up. *)

\* A session in the middle of its catch-up, the queue full or not.
Catching(s, h) ==
  /\ s.catchup_active
  /\ Shape(s)
  /\ Wire(s, h)
  /\ Client # "pipelining" => Caught(s)

\* The flags of a session are not disturbed by queueing.
LEMMA KeptShape ==
  ASSUME NEW s, NEW t, Kept(s, t), Shape(s)
  PROVE  Shape(t)
  BY DEF Kept, Shape

\* The frozen copy of a session is not disturbed by queueing.
LEMMA KeptWire ==
  ASSUME NEW s, NEW t, NEW h, Kept(s, t), Wire(s, h),
         \A k \in 1 .. Len(t.queue) : Truthful(t.queue[k], h)
  PROVE  Wire(t, h)
  BY DEF Kept, Wire

\* What the loop of a catch-up round does to a session.
LEMMA SendRoundEffect ==
  ASSUME NEW last \in Nat, NEW s, IsSession(s, last)
  PROVE  /\ Kept(s, SendRound(s))
         /\ SendRound(s).pending =
              {i \in s.pending : BatchOf(s.pending, i) > Room(s)}
         /\ \E n \in Nat :
              Grown(s, SendRound(s).queue,
                    Batches(s.pending, s.snapshot, s.catchup_seq), n)
<1> DEFINE b == Batches(s.pending, s.snapshot, s.catchup_seq)
           t == Enqueue(s, b)
           left == {i \in t.pending : BatchOf(t.pending, i) > Room(s)}
<1>1. b \in Seq(Messages(last))
  <2>1. /\ s.pending \in SUBSET Items /\ s.snapshot \in [Items -> Known]
        /\ s.catchup_seq \in 0 .. last
    BY DEF IsSession
  <2> QED
    BY ZenonT(60), <2>1, BatchesTyped
<1>2. SendRound(s) = [t EXCEPT !.pending = left]
  BY DEF SendRound
<1> HIDE DEF b
<1>3. /\ Kept(s, t) /\ t.pending = s.pending /\ IsSession(t, last)
      /\ \E n \in Nat : Grown(s, t.queue, b, n)
  BY <1>1, EnqueueGrows, EnqueueTyped
<1> HIDE DEF t
<1>4. left = {i \in s.pending : BatchOf(s.pending, i) > Room(s)}
  BY <1>3
<1> HIDE DEF left
<1>5. DOMAIN t = DOMAIN FreeSession
  BY <1>3 DEF IsSession
<1>6. SendRound(s).queue = t.queue /\ SendRound(s).pending = left
  BY <1>2, <1>5 DEF FreeSession
<1>7. Kept(t, SendRound(s))
  BY <1>2, <1>5 DEF FreeSession, Kept
<1>8. Kept(s, SendRound(s))
  BY <1>3, <1>7 DEF Kept
<1> QED
  BY <1>3, <1>4, <1>6, <1>8 DEF b

\* A catch-up round delivers the items it takes off the pending ones, and
\* leaves none pending unless the queue is full.
LEMMA SendRoundCatching ==
  ASSUME NEW last \in Nat, NEW s, IsSession(s, last), NEW h, Catching(s, h)
  PROVE  /\ Catching(SendRound(s), h)
         /\ Kept(s, SendRound(s))
         /\ Room(SendRound(s)) # 0 => SendRound(s).pending = {}
<1> DEFINE t == SendRound(s)
           P == s.pending
           b == Batches(P, s.snapshot, s.catchup_seq)
<1>1. PICK n \in Nat : /\ Kept(s, t)
                       /\ t.pending = {i \in P : BatchOf(P, i) > Room(s)}
                       /\ Grown(s, t.queue, b, n)
  BY SendRoundEffect
<1>2. /\ P \in SUBSET Items /\ s.snapshot \in [Items -> Known]
      /\ s.catchup_seq \in 0 .. last
  BY DEF IsSession
<1>3. IsSession(t, last)
  BY SendRoundTyped
<1> HIDE DEF t, P
<1>4. /\ \A i, v : /\ Arrives(s, i, v)
                   /\ i \notin P \/ BatchOf(P, i) > Room(s)
                   => Arrives(t, i, v)
      /\ \A i \in P : BatchOf(P, i) <= Room(s) => Arrives(t, i, s.snapshot[i])
      /\ Len(t.queue) # QueueSlots => BatchCount(P) <= Room(s)
  <2>1. t.view = s.view
    BY <1>1 DEF Kept
  <2> QED
    BY ZenonT(60), <1>1, <1>2, <2>1, BatchesArrive
<1>5. \A k \in 1 .. Len(t.queue) : Truthful(t.queue[k], h)
  <2>1. \A k \in 1 .. Len(s.queue) : Truthful(s.queue[k], h)
    BY DEF Catching, Wire
  <2>2. b \in Seq(Messages(last)) /\ Len(b) = BatchCount(P)
    BY ZenonT(60), <1>2, BatchesTyped
  <2>3. Mirrors(s.snapshot, h, s.catchup_seq)
    BY DEF Catching, Wire
  <2>4. \A k \in 1 .. BatchCount(P) : Truthful(b[k], h)
    BY <1>2, <2>3, BatchesTruthful
  <2> HIDE DEF b
  <2> QED
    BY Zenon, <1>1, <2>1, <2>2, <2>4, GrownTruthful
<1>6. Shape(t) /\ Wire(t, h) /\ t.catchup_active
  BY ZenonT(60), <1>1, <1>5, KeptShape, KeptWire DEF Catching, Kept
<1>7. ASSUME Client # "pipelining" PROVE Caught(t)
  <2> SUFFICES ASSUME ~t.needs_resync, NEW i \in Items \ t.pending
               PROVE  Arrives(t, i, t.snapshot[i])
    BY DEF Caught
  <2>1. t.snapshot = s.snapshot /\ ~s.needs_resync
    BY <1>1 DEF Kept
  <2>2. CASE i \in P
    <3>1. ~(BatchOf(P, i) > Room(s))
      BY <1>1, <2>2
    <3>2. BatchOf(P, i) \in Int /\ Room(s) \in Int
      <4>1. BatchOf(P, i) \in 1 .. BatchCount(P) /\ BatchCount(P) \in Nat
        BY <1>2, <2>2, BatchBound
      <4>2. Room(s) \in Nat
        BY RoomType
      <4> QED
        BY <4>1, <4>2
    <3> QED
      BY <1>4, <2>1, <2>2, <3>1, <3>2
  <2>3. CASE i \notin P
    <3>1. Arrives(s, i, s.snapshot[i])
      BY <1>7, <2>1, <2>3 DEF Catching, Caught, P
    <3> QED
      BY <1>4, <2>1, <2>3, <3>1
  <2> QED
    BY <2>2, <2>3
<1>8. ASSUME Room(t) # 0 PROVE t.pending = {}
  <2>1. Len(t.queue) # QueueSlots
    BY <1>3, <1>8, RoomType
  <2>2. BatchCount(P) <= Room(s) /\ BatchCount(P) \in Nat /\ Room(s) \in Nat
    BY <1>2, <1>4, <2>1, BatchBound, RoomType
  <2>3. \A i \in P : BatchOf(P, i) \in 1 .. BatchCount(P)
    BY <1>2, BatchBound
  <2>4. \A i \in P : ~(BatchOf(P, i) > Room(s))
    BY <2>2, <2>3
  <2> QED
    BY <1>1, <2>4
<1>9. Catching(t, h)
  BY <1>6, <1>7 DEF Catching
<1> QED
  BY <1>1, <1>8, <1>9 DEF t

\* Arrival depends on the queue and the view only.
LEMMA ArrivesKept ==
  ASSUME NEW s, NEW t, t.queue = s.queue, t.view = s.view, NEW i, NEW v,
         Arrives(s, i, v)
  PROVE  Arrives(t, i, v)
  BY DEF Arrives

\* ReachesSame for a whole queue.
LEMMA ArrivesSame ==
  ASSUME NEW last, NEW s, IsSession(s, last), NEW i, NEW v, NEW w,
         Arrives(s, i, v), Same(i, v, w)
  PROVE  Arrives(s, i, w)
<1>1. Len(s.queue) \in Nat
  BY RoomType
<1> QED
  BY <1>1, ReachesSame DEF Arrives

\* A new catch-up round starts with exactly the items that have changed since
\* the copy the previous one was sent from.
LEMMA BeginRoundCatching ==
  ASSUME Inv, NEW s, IsSession(s, change_sequence), s.catchup_active, Shape(s),
         \A k \in 1 .. Len(s.queue) : Truthful(s.queue[k], history),
         Client # "pipelining" /\ ~s.needs_resync =>
           \A i \in Items : Covered(s, i, canon)
  PROVE  /\ Catching(begin_catchup_round(s), history)
         /\ begin_catchup_round(s).snapshot = canon
<1> DEFINE t == begin_catchup_round(s)
<1>1. DOMAIN s = DOMAIN FreeSession
  BY DEF IsSession
<1>2. /\ t.queue = s.queue /\ t.view = s.view
      /\ t.pending = Changed(s.snapshot, canon) /\ t.snapshot = canon
      /\ t.catchup_seq = change_sequence
  BY <1>1 DEF begin_catchup_round, FreeSession
<1>3. /\ t.catchup_active /\ t.needs_resync = s.needs_resync
      /\ t.snapshot_active = s.snapshot_active
      /\ t.snapshot_complete = s.snapshot_complete
      /\ t.continuous = s.continuous /\ t.next_index = s.next_index
      /\ t.subscribed = s.subscribed /\ t.greeted = s.greeted
      /\ t.phase = s.phase
  BY <1>1 DEF begin_catchup_round, FreeSession
<1> HIDE DEF t
<1>4. Shape(t)
  BY <1>3 DEF Shape
<1>5. Wire(t, history)
  <2>1. ~t.snapshot_active
    BY <1>3, <1>4 DEF Shape
  <2>2. Mirrors(t.snapshot, history, t.catchup_seq)
    BY <1>2, InvFacts
  <2> QED
    BY <1>2, <2>1, <2>2 DEF Wire
<1>6. ASSUME Client # "pipelining" PROVE Caught(t)
  <2> SUFFICES ASSUME ~t.needs_resync, NEW i \in Items \ t.pending
               PROVE  Arrives(t, i, t.snapshot[i])
    BY DEF Caught
  <2>1. Same(i, s.snapshot[i], canon[i])
    BY <1>2 DEF Changed
  <2>2. Covered(s, i, canon)
    BY <1>3, <1>6
  <2>3. Arrives(s, i, canon[i])
    BY <2>1, <2>2, ArrivesSame DEF Covered
  <2> QED
    BY <1>2, <2>3, ArrivesKept
<1> QED
  BY <1>2, <1>3, <1>4, <1>5, <1>6 DEF Catching, t

\* A full queue in the middle of a catch-up is a state a callback may end in.
LEMMA StalledInv ==
  ASSUME Inv, NEW s, IsSession(s, change_sequence), Catching(s, history),
         Room(s) = 0
  PROVE  SessionInv(s, history, canon)
<1>1. Len(s.queue) = QueueSlots /\ s.queue # <<>>
  BY RoomType, BrokerConstants
<1>2. Waiting(s)
  BY <1>1 DEF Waiting
<1>3. ASSUME Client # "pipelining" PROVE Coverage(s, canon)
  BY <1>3 DEF Coverage, Catching, Live
<1> QED
  BY <1>2, <1>3 DEF SessionInv, Catching

\* A message without items changes nothing about what arrives.
LEMMA BareQueued ==
  ASSUME change_sequence \in Nat, NEW s, IsSession(s, change_sequence),
         NEW type \in Types, NEW h
  PROVE  LET e == Enqueue(s, <<Bare(type)>>) IN
         /\ IsSession(e, change_sequence)
         /\ Kept(s, e)
         /\ e.pending = s.pending
         /\ \A i, v : Arrives(s, i, v) => Arrives(e, i, v)
         /\ (\A k \in 1 .. Len(s.queue) : Truthful(s.queue[k], h)) =>
              \A k \in 1 .. Len(e.queue) : Truthful(e.queue[k], h)
         /\ Room(s) # 0 => Len(e.queue) = Len(s.queue) + 1
<1> DEFINE b == Bare(type)
           e == Enqueue(s, <<b>>)
<1>1. b \in Messages(change_sequence) /\ DOMAIN b.items = {}
  BY BareMessage
<1> HIDE DEF b
<1>2. /\ <<b>> \in Seq(Messages(change_sequence))
      /\ Len(<<b>>) = 1
      /\ <<b>>[1] = b
  BY <1>1, SingleSeq
<1>3. PICK n \in Nat : /\ Kept(s, e) /\ e.pending = s.pending
                       /\ IsSession(e, change_sequence)
                       /\ Grown(s, e.queue, <<b>>, n)
  BY Zenon, <1>2, EnqueueGrows, EnqueueTyped
<1> HIDE DEF e
<1>4. ASSUME NEW i, NEW v, Arrives(s, i, v) PROVE Arrives(e, i, v)
  <2>1. \A k \in 1 .. n : ~Mentions(<<b>>[k], i)
    BY <1>1, <1>2, <1>3 DEF Grown, Mentions
  <2>2. e.view = s.view
    BY <1>3 DEF Kept
  <2> QED
    BY ZenonT(60), <1>2, <1>3, <1>4, <2>1, <2>2, GrownArrives
<1>5. ASSUME \A k \in 1 .. Len(s.queue) : Truthful(s.queue[k], h)
      PROVE  \A k \in 1 .. Len(e.queue) : Truthful(e.queue[k], h)
  <2>1. \A k \in 1 .. Len(<<b>>) : Truthful(<<b>>[k], h)
    BY <1>1, <1>2 DEF Truthful
  <2> QED
    BY ZenonT(60), <1>2, <1>3, <1>5, <2>1, GrownTruthful
<1>6. ASSUME Room(s) # 0 PROVE Len(e.queue) = Len(s.queue) + 1
  BY <1>2, <1>3, <1>6 DEF Grown
<1>7. /\ IsSession(e, change_sequence) /\ Kept(s, e) /\ e.pending = s.pending
  BY <1>3
<1> QED
  BY <1>4, <1>5, <1>6, <1>7 DEF e, b

\* Behind SUBSCRIBED, everything the client holds is canonical.
LEMMA SubscribedInv ==
  ASSUME Inv, NEW s, IsSession(s, change_sequence), Catching(s, history),
         Room(s) # 0, s.pending = {}, s.snapshot = canon
  PROVE  SessionInv([Enqueue(s, <<Bare("SUBSCRIBED")>>) EXCEPT
                       !.catchup_active = FALSE, !.subscribed = TRUE,
                       !.setup_left = Off, !.continuous = TRUE],
                    history, canon)
<1> DEFINE e == Enqueue(s, <<Bare("SUBSCRIBED")>>)
           t == [e EXCEPT !.catchup_active = FALSE, !.subscribed = TRUE,
                          !.setup_left = Off, !.continuous = TRUE]
<1>1. "SUBSCRIBED" \in Types /\ change_sequence \in Nat
  BY InvFacts DEF Types
<1>2. /\ IsSession(e, change_sequence)
      /\ Kept(s, e)
      /\ \A i, v : Arrives(s, i, v) => Arrives(e, i, v)
      /\ (\A k \in 1 .. Len(s.queue) : Truthful(s.queue[k], history)) =>
           \A k \in 1 .. Len(e.queue) : Truthful(e.queue[k], history)
      /\ Len(e.queue) = Len(s.queue) + 1
  BY ZenonT(60), <1>1, BareQueued
<1> HIDE DEF e
<1>3. DOMAIN e = DOMAIN FreeSession
  BY <1>2 DEF IsSession
<1>4. /\ t.queue = e.queue /\ t.view = e.view /\ t.snapshot = e.snapshot
      /\ t.needs_resync = e.needs_resync
      /\ t.snapshot_active = e.snapshot_active
      /\ t.snapshot_complete = e.snapshot_complete
      /\ t.next_index = e.next_index /\ t.greeted = e.greeted
      /\ t.phase = e.phase
      /\ ~t.catchup_active /\ t.subscribed /\ t.continuous
  BY <1>3 DEF FreeSession
<1> HIDE DEF t
<1>5. /\ t.snapshot = canon
      /\ t.needs_resync = s.needs_resync
      /\ t.snapshot_active = s.snapshot_active
      /\ t.snapshot_complete = s.snapshot_complete
      /\ t.next_index = s.next_index /\ t.greeted = s.greeted
      /\ t.phase = s.phase
  BY <1>2, <1>4 DEF Kept
<1>6. Shape(t)
  BY <1>4, <1>5 DEF Shape, Catching
<1>7. Waiting(t)
  <2>1. Len(t.queue) = Len(s.queue) + 1 /\ Len(s.queue) \in Nat
    BY <1>2, <1>4, RoomType
  <2>2. t.queue # <<>>
    BY <2>1
  <2> QED
    BY <1>4, <2>2 DEF Waiting
<1>8. Wire(t, history)
  <2>1. \A k \in 1 .. Len(t.queue) : Truthful(t.queue[k], history)
    BY <1>2, <1>4 DEF Catching, Wire
  <2>2. ~t.snapshot_active
    BY <1>5 DEF Catching, Shape
  <2> QED
    BY <1>4, <2>1, <2>2 DEF Wire
<1>9. ASSUME Client # "pipelining" PROVE Coverage(t, canon)
  <2>1. ASSUME ~t.needs_resync, NEW i \in Items PROVE Arrives(t, i, canon[i])
    <3>1. Arrives(s, i, canon[i])
      BY <1>5, <1>9, <2>1 DEF Catching, Caught
    <3> QED
      BY <1>2, <1>4, <3>1, ArrivesKept
  <2> QED
    BY <1>4, <1>5, <2>1 DEF Coverage, Covered, Live
<1>10. SessionInv(t, history, canon)
  BY <1>6, <1>7, <1>8, <1>9 DEF SessionInv
<1> QED
  BY <1>10 DEF t, e

\* drive_subscription_catchup re-establishes the invariant, whether it stalls in
\* the first round, in the second, or completes.
LEMMA DriveInv ==
  ASSUME Inv, NEW s, IsSession(s, change_sequence), Catching(s, history)
  PROVE  SessionInv(drive_subscription_catchup(s), history, canon)
<1> DEFINE first == SendRound(s)
           again == begin_catchup_round(first)
           second == SendRound(again)
           done == [Enqueue(second, <<Bare("SUBSCRIBED")>>) EXCEPT
                      !.catchup_active = FALSE, !.subscribed = TRUE,
                      !.setup_left = Off, !.continuous = TRUE]
<1>1. change_sequence \in Nat /\ canon \in [Items -> Values]
  BY InvFacts
<1>2. /\ IsSession(first, change_sequence)
      /\ Catching(first, history)
      /\ Room(first) # 0 => first.pending = {}
  BY <1>1, SendRoundTyped, SendRoundCatching
<1>3. drive_subscription_catchup(s) =
        IF Room(first) = 0 THEN first
        ELSE IF Room(second) = 0 THEN second ELSE done
  BY DEF drive_subscription_catchup
<1> HIDE DEF first
<1>4. CASE Room(first) = 0
  BY <1>2, <1>3, <1>4, StalledInv
<1>5. CASE Room(first) # 0
  <2>1. Client # "pipelining" /\ ~first.needs_resync =>
          \A i \in Items : Covered(first, i, canon)
    BY <1>2, <1>5 DEF Catching, Caught, Covered
  <2>2. /\ IsSession(again, change_sequence)
        /\ Catching(again, history)
        /\ again.snapshot = canon
    BY <1>1, <1>2, <2>1, BeginRoundTyped, BeginRoundCatching DEF Catching, Wire
  <2> HIDE DEF again
  <2>3. /\ IsSession(second, change_sequence)
        /\ Catching(second, history)
        /\ Kept(again, second)
        /\ Room(second) # 0 => second.pending = {}
    BY <1>1, <2>2, SendRoundTyped, SendRoundCatching
  <2> HIDE DEF second
  <2>4. CASE Room(second) = 0
    BY <1>3, <1>5, <2>3, <2>4, StalledInv
  <2>5. CASE Room(second) # 0
    <3>1. second.snapshot = canon
      BY <2>2, <2>3 DEF Kept
    <3>2. SessionInv(done, history, canon)
      BY Zenon, <2>3, <2>5, <3>1, SubscribedInv
    <3> QED
      BY <1>3, <1>5, <2>5, <3>2
  <2> QED
    BY <2>4, <2>5
<1> QED
  BY <1>4, <1>5

-----------------------------------------------------------------------------
(* The callbacks keep the invariant of a session. *)

\* A session without history satisfies the invariant.
LEMMA IdleInv ==
  ASSUME NEW s, NEW h, NEW now, s.queue = <<>>, ~s.greeted, ~s.subscribed,
         ~s.needs_resync, ~s.snapshot_active, ~s.snapshot_complete,
         ~s.catchup_active, s.next_index = 0
  PROVE  SessionInv(s, h, now)
<1>1. Len(s.queue) = 0
  OBVIOUS
<1>2. Shape(s) /\ Waiting(s) /\ Wire(s, h)
  BY <1>1 DEF Shape, Waiting, Wire
<1>3. \A i \in Items : ~(i < s.next_index)
  BY DEF Items
<1>4. Coverage(s, now)
  BY <1>3 DEF Coverage, Live
<1> QED
  BY <1>2, <1>4 DEF SessionInv

\* So do an unused, a closing and a freshly accepted session.
LEMMA FreeInv ==
  ASSUME NEW s, NEW h, NEW now, NEW uid
  PROVE  /\ SessionInv(FreeSession, h, now)
         /\ SessionInv(client_close(s), h, now)
         /\ SessionInv(Accepted(uid), h, now)
<1>1. SessionInv(FreeSession, h, now)
  BY IdleInv DEF FreeSession
<1>2. SessionInv(client_close(s), h, now)
  BY IdleInv DEF FreeSession, client_close
<1>3. SessionInv(Accepted(uid), h, now)
  BY Zenon, IdleInv DEF FreeSession, Accepted
<1> QED
  BY <1>1, <1>2, <1>3

\* The invariant does not look at the deadlines.
Alike(s, t) ==
  /\ t.phase = s.phase
  /\ t.greeted = s.greeted
  /\ t.subscribed = s.subscribed
  /\ t.needs_resync = s.needs_resync
  /\ t.resync_queued = s.resync_queued
  /\ t.queue = s.queue
  /\ t.snapshot = s.snapshot
  /\ t.snapshot_seq = s.snapshot_seq
  /\ t.next_index = s.next_index
  /\ t.snapshot_active = s.snapshot_active
  /\ t.snapshot_complete = s.snapshot_complete
  /\ t.catchup_active = s.catchup_active
  /\ t.catchup_seq = s.catchup_seq
  /\ t.pending = s.pending
  /\ t.view = s.view
  /\ t.continuous = s.continuous

\* The deadlines of a session play no part in the invariant.
LEMMA AlikeInv ==
  ASSUME NEW s, NEW t, NEW h, NEW now, Alike(s, t), SessionInv(s, h, now)
  PROVE  SessionInv(t, h, now)
<1>1. Shape(t) /\ Waiting(t) /\ Wire(t, h)
  BY DEF Alike, SessionInv, Shape, Waiting, Wire
<1>2. \A i, v : Arrives(t, i, v) <=> Arrives(s, i, v)
  BY DEF Alike, Arrives
<1>3. ASSUME Coverage(s, now) PROVE Coverage(t, now)
  BY <1>2, <1>3 DEF Alike, Coverage, Covered, Caught, Live
<1> QED
  BY <1>1, <1>3 DEF SessionInv

\* What holds of a session inside a callback, before the resync notice.
Settled(s, h, now) ==
  /\ Shape(s)
  /\ s.catchup_active => Len(s.queue) = QueueSlots
  /\ Wire(s, h)
  /\ Client # "pipelining" => Coverage(s, now)

\* A session is settled between callbacks.
LEMMA InvSettled ==
  ASSUME NEW s, NEW h, NEW now, SessionInv(s, h, now)
  PROVE  Settled(s, h, now)
  BY DEF SessionInv, Settled, Waiting

\* Queueing a message without items, where there is room.
LEMMA BareInv ==
  ASSUME Inv, NEW s, IsSession(s, change_sequence),
         Settled(s, history, canon), NEW type \in Types, Room(s) # 0
  PROVE  SessionInv(Enqueue(s, <<Bare(type)>>), history, canon)
<1> DEFINE e == Enqueue(s, <<Bare(type)>>)
<1>1. /\ IsSession(e, change_sequence)
      /\ Kept(s, e) /\ e.pending = s.pending
      /\ \A i, v : Arrives(s, i, v) => Arrives(e, i, v)
      /\ (\A k \in 1 .. Len(s.queue) : Truthful(s.queue[k], history)) =>
           \A k \in 1 .. Len(e.queue) : Truthful(e.queue[k], history)
      /\ Len(e.queue) = Len(s.queue) + 1
  BY ZenonT(60), InvFacts, BareQueued
<1> HIDE DEF e
<1>2. e.queue # <<>> /\ ~s.catchup_active
  <2>1. Len(s.queue) \in Nat /\ Len(s.queue) # QueueSlots
    BY RoomType
  <2> QED
    BY <1>1, <2>1 DEF Settled
<1>3. Shape(e)
  BY <1>1, KeptShape DEF Settled
<1>4. Waiting(e)
  BY <1>1, <1>2 DEF Waiting, Kept
<1>5. Wire(e, history)
  BY ZenonT(60), <1>1, KeptWire DEF Settled, Wire
<1>6. ASSUME Coverage(s, canon) PROVE Coverage(e, canon)
  <2>1. \A i \in Items : Covered(s, i, canon) => Covered(e, i, canon)
    BY <1>1 DEF Covered, Kept
  <2> QED
    BY <1>1, <1>2, <1>6, <2>1 DEF Coverage, Live, Kept
<1>7. SessionInv(e, history, canon)
  BY <1>3, <1>4, <1>5, <1>6 DEF SessionInv, Settled
<1> QED
  BY <1>7 DEF e

\* A reply without items keeps the invariant.
LEMMA ReplyInv ==
  ASSUME Inv, NEW s, IsSession(s, change_sequence),
         SessionInv(s, history, canon), NEW type \in Types
  PROVE  SessionInv(Reply(s, Bare(type)), history, canon)
<1>1. CASE Room(s) = 0
  BY <1>1, FreeInv DEF Reply
<1>2. CASE Room(s) # 0
  BY <1>2, BareInv, InvSettled DEF Reply
<1> QED
  BY <1>1, <1>2

=============================================================================
