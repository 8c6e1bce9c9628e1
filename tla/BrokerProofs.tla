---------------------------- MODULE BrokerProofs ----------------------------
(***************************************************************************)
(* Type correctness of the event loop of roadcastd, for every value of the *)
(* constants.  One lemma per operator of Broker says that it takes a       *)
(* well-formed session to a well-formed session; the lemmas follow the     *)
(* order of Broker.  The last two sections hold what the other proof       *)
(* modules share: what arrives at the client and what queueing keeps.      *)
(***************************************************************************)
EXTENDS BrokerInv, FiniteSetTheorems, SequenceTheorems, TLAPS

\* Larger obligations take the provers longer than their default limits.
USE SMTT(30), ZenonT(30)

\* Rounding up: with a entries and b to a message, entry number r (from 0)
\* travels in a message that the rounded-up count includes.
LEMMA DivBounds ==
  ASSUME NEW a \in Nat, NEW b \in Nat \ {0}, NEW r \in Nat
  PROVE  /\ (a + b - 1) \div b \in Nat
         /\ r \div b \in Nat
         /\ r < a => 1 + r \div b <= (a + b - 1) \div b
  OBVIOUS

\* The items and every set of them are finite.
LEMMA FiniteItems ==
  ASSUME NEW P \in SUBSET Items
  PROVE  IsFiniteSet(P) /\ Cardinality(P) \in Nat
<1>1. IsFiniteSet(Items)
  BY FS_Interval, BrokerConstants DEF Items
<1>2. IsFiniteSet(P)
  BY <1>1, FS_Subset
<1> QED
  BY <1>2, FS_CardinalityType

\* The rank of an item among the items of P is below their number.
LEMMA RankBound ==
  ASSUME NEW P \in SUBSET Items, NEW i \in P
  PROVE  Rank(P, i) \in Nat /\ Rank(P, i) < Cardinality(P)
<1> DEFINE below == {j \in P : j < i}
<1>1. i \notin below
  BY BrokerConstants DEF Items
<1>2. below \subseteq P /\ below # P
  BY <1>1
<1>3. IsFiniteSet(P) /\ Cardinality(P) \in Nat /\ Cardinality(below) \in Nat
  BY FiniteItems
<1>4. Cardinality(below) <= Cardinality(P) /\ Cardinality(below) # Cardinality(P)
  BY <1>2, <1>3, FS_Subset
<1> QED
  BY <1>3, <1>4 DEF Rank

\* Every item of an update travels in one of its batches: the loops of
\* distribute_latest_sample and drive_subscription_catchup send them all.
LEMMA BatchBound ==
  ASSUME NEW P \in SUBSET Items
  PROVE  /\ FrameBatches(P) \in Nat
         /\ BatchCount(P) \in Nat
         /\ \A i \in P : BatchOf(P, i) \in 1 .. BatchCount(P)
<1> DEFINE F == P \cap Frames
           S == P \ Frames
<1>1. /\ F \in SUBSET Items /\ S \in SUBSET Items
  OBVIOUS
<1>2. Cardinality(F) \in Nat /\ Cardinality(S) \in Nat
  BY <1>1, FiniteItems
<1>3. FrameBatches(P) \in Nat
  BY <1>2, DivBounds, BrokerConstants DEF FrameBatches
<1>4. SignalBatches(P) \in Nat
  BY <1>2, DivBounds, BrokerConstants DEF SignalBatches
<1>5. BatchCount(P) \in Nat
  BY <1>3, <1>4 DEF BatchCount
<1>6. ASSUME NEW i \in P PROVE BatchOf(P, i) \in 1 .. BatchCount(P)
  <2>1. CASE i \in Frames
    <3>1. Rank(F, i) \in Nat /\ Rank(F, i) < Cardinality(F)
      BY <1>1, <2>1, RankBound
    <3>2. /\ Rank(F, i) \div FramesPerMessage \in Nat
          /\ 1 + Rank(F, i) \div FramesPerMessage <= FrameBatches(P)
      BY <3>1, <1>2, DivBounds, BrokerConstants DEF FrameBatches
    <3> QED
      BY <2>1, <3>2, <1>3, <1>4 DEF BatchOf, BatchCount
  <2>2. CASE i \notin Frames
    <3>1. Rank(S, i) \in Nat /\ Rank(S, i) < Cardinality(S)
      BY <1>1, <2>2, RankBound
    <3>2. /\ Rank(S, i) \div SignalsPerMessage \in Nat
          /\ 1 + Rank(S, i) \div SignalsPerMessage <= SignalBatches(P)
      BY <3>1, <1>2, DivBounds, BrokerConstants DEF SignalBatches
    <3> QED
      BY <2>2, <3>2, <1>3, <1>4 DEF BatchOf, BatchCount
  <2> QED
    BY <2>1, <2>2
<1> QED
  BY <1>3, <1>5, <1>6

-----------------------------------------------------------------------------
(* Messages. *)

\* A queue of one message.
LEMMA SingleSeq ==
  ASSUME NEW S, NEW x \in S
  PROVE  <<x>> \in Seq(S) /\ Len(<<x>>) = 1 /\ <<x>>[1] = x
  OBVIOUS

\* A message built from well-typed items is well-formed.
LEMMA ItemsOfMessage ==
  ASSUME NEW last \in Nat, NEW type \in Types, NEW seq \in 0 .. last,
         NEW I \in SUBSET Items, NEW f \in [I -> Known]
  PROVE  /\ Message(type, seq, f) \in Messages(last)
         /\ Message(type, seq, f).items = f
         /\ Message(type, seq, f).seq = seq
         /\ Message(type, seq, f).type = type
<1>1. f \in UNION {[J -> Known] : J \in SUBSET Items}
  OBVIOUS
<1> QED
  BY <1>1 DEF Message, Messages

\* A message without payload items is well-formed.
LEMMA BareMessage ==
  ASSUME NEW type \in Types, change_sequence \in Nat
  PROVE  /\ Bare(type) \in Messages(change_sequence)
         /\ DOMAIN Bare(type).items = {}
         /\ Bare(type).seq = change_sequence
         /\ Bare(type).type = type
<1>1. <<>> \in [{} -> Known] /\ DOMAIN <<>> = {}
  OBVIOUS
<1>2. <<>> \in UNION {[J -> Known] : J \in SUBSET Items}
  BY Zenon, <1>1
<1>3. change_sequence \in 0 .. change_sequence
  OBVIOUS
<1> QED
  BY <1>1, <1>2, <1>3 DEF Bare, Message, Messages

\* Batch k of an update carries exactly the items that travel in batch k.
LEMMA BatchShape ==
  ASSUME NEW last \in Nat, NEW P \in SUBSET Items,
         NEW values \in [Items -> Known], NEW seq \in 0 .. last,
         NEW k \in 1 .. BatchCount(P)
  PROVE  /\ Batches(P, values, seq)[k] \in Messages(last)
         /\ Batches(P, values, seq)[k].seq = seq
         /\ DOMAIN Batches(P, values, seq)[k].items =
              {i \in P : BatchOf(P, i) = k}
         /\ \A i \in P : BatchOf(P, i) = k =>
              Batches(P, values, seq)[k].items[i] = values[i]
<1> DEFINE part == [i \in {j \in P : BatchOf(P, j) = k} |-> values[i]]
           type == IF k <= FrameBatches(P) THEN "UPDATE_BATCH"
                                           ELSE "SIGNAL_UPDATE_BATCH"
<1>1. part \in [{j \in P : BatchOf(P, j) = k} -> Known]
  OBVIOUS
<1>2. type \in Types
  BY DEF Types
<1>3. {j \in P : BatchOf(P, j) = k} \in SUBSET Items
  OBVIOUS
<1>4. Batches(P, values, seq)[k] = Message(type, seq, part)
  BY DEF Batches
<1>5. /\ DOMAIN part = {i \in P : BatchOf(P, i) = k}
      /\ \A i \in P : BatchOf(P, i) = k => part[i] = values[i]
  OBVIOUS
<1> HIDE DEF part, type
<1>6. /\ Message(type, seq, part) \in Messages(last)
      /\ Message(type, seq, part).items = part
      /\ Message(type, seq, part).seq = seq
  BY <1>1, <1>2, <1>3, ItemsOfMessage
<1> QED
  BY <1>4, <1>5, <1>6

\* The batches of an update are well-formed messages.
LEMMA BatchesTyped ==
  ASSUME NEW last \in Nat, NEW P \in SUBSET Items,
         NEW values \in [Items -> Known], NEW seq \in 0 .. last
  PROVE  /\ Batches(P, values, seq) \in Seq(Messages(last))
         /\ Len(Batches(P, values, seq)) = BatchCount(P)
<1>1. BatchCount(P) \in Nat
  BY BatchBound
<1>2. \A k \in 1 .. BatchCount(P) :
        Batches(P, values, seq)[k] \in Messages(last)
  BY BatchShape
<1>3. Batches(P, values, seq) \in [1 .. BatchCount(P) -> Messages(last)]
  BY <1>2 DEF Batches
<1> QED
  BY <1>1, <1>3

-----------------------------------------------------------------------------
(* The operations on a session keep it well-formed. *)

\* The free slots of an output queue are a natural number.
LEMMA RoomType ==
  ASSUME NEW last, NEW s, IsSession(s, last)
  PROVE  /\ s.queue \in Seq(Messages(last))
         /\ Len(s.queue) \in 0 .. QueueSlots
         /\ Room(s) \in Nat
         /\ Room(s) = QueueSlots - Len(s.queue)
<1>1. s.queue \in Seq(Messages(last)) /\ Len(s.queue) <= QueueSlots
  BY DEF IsSession
<1>2. Len(s.queue) \in Nat
  BY <1>1
<1> QED
  BY <1>1, <1>2, BrokerConstants DEF Room

\* The queue q is that of s and the first n messages, n being all of them or
\* what fits.
Grown(s, q, messages, n) ==
  /\ n \in 0 .. Len(messages)
  /\ n <= Room(s)
  /\ n = Len(messages) \/ n = Room(s)
  /\ Len(q) = Len(s.queue) + n
  /\ \A k \in 1 .. Len(s.queue) : q[k] = s.queue[k]
  /\ \A k \in 1 .. n : q[Len(s.queue) + k] = messages[k]

\* Queueing appends a prefix of the messages, cut off by the free slots.
LEMMA EnqueueEffect ==
  ASSUME NEW last, NEW s, IsSession(s, last),
         NEW messages \in Seq(Messages(last))
  PROVE  \E n \in Nat, q \in Seq(Messages(last)) :
           /\ Enqueue(s, messages) = [s EXCEPT !.queue = q]
           /\ Len(q) <= QueueSlots
           /\ Grown(s, q, messages, n)
<1>1. /\ s.queue \in Seq(Messages(last)) /\ Len(s.queue) \in Nat
      /\ Room(s) \in Nat /\ Room(s) = QueueSlots - Len(s.queue)
  BY RoomType
<1>2. PICK n \in 0 .. Len(messages) :
        /\ n = IF Len(messages) < Room(s) THEN Len(messages) ELSE Room(s)
        /\ n <= Room(s)
        /\ n = Len(messages) \/ n = Room(s)
  <2>1. CASE Len(messages) < Room(s)
    BY <1>1, <2>1
  <2>2. CASE ~(Len(messages) < Room(s))
    BY <1>1, <2>2
  <2> QED
    BY <2>1, <2>2
<1>3. /\ SubSeq(messages, 1, n) \in Seq(Messages(last))
      /\ Len(SubSeq(messages, 1, n)) = n
      /\ \A k \in 1 .. n : SubSeq(messages, 1, n)[k] = messages[k]
  BY <1>2, SubSeqProperties
<1> DEFINE q == s.queue \o SubSeq(messages, 1, n)
<1>4. /\ q \in Seq(Messages(last))
      /\ Len(q) = Len(s.queue) + n
      /\ \A k \in 1 .. Len(s.queue) : q[k] = s.queue[k]
      /\ \A k \in 1 .. n : q[Len(s.queue) + k] = messages[k]
  BY <1>1, <1>2, <1>3, ConcatProperties
<1>5. Enqueue(s, messages) = [s EXCEPT !.queue = q]
  BY <1>2 DEF Enqueue
<1> HIDE DEF q
<1>6. Len(q) <= QueueSlots
  <2>1. n <= Room(s)
    BY <1>2
  <2>2. Len(q) = Len(s.queue) + n
    BY <1>4
  <2>3. QueueSlots \in Nat
    BY BrokerConstants
  <2> QED
    BY <1>1, <2>1, <2>2, <2>3
<1>7. Grown(s, q, messages, n)
  BY <1>2, <1>4 DEF Grown
<1>8. n \in Nat /\ q \in Seq(Messages(last))
  BY <1>4
<1> QED
  BY <1>5, <1>6, <1>7, <1>8

\* Queueing keeps a session well-formed: the queue stays within its slots.
LEMMA EnqueueTyped ==
  ASSUME NEW last, NEW s, IsSession(s, last),
         NEW messages \in Seq(Messages(last))
  PROVE  IsSession(Enqueue(s, messages), last)
<1>1. PICK q \in Seq(Messages(last)) :
        Enqueue(s, messages) = [s EXCEPT !.queue = q] /\ Len(q) <= QueueSlots
  BY EnqueueEffect
<1> QED
  BY <1>1 DEF IsSession, FreeSession

\* An unused entry of the session table is well-formed.
LEMMA FreeTyped ==
  ASSUME NEW last \in Nat
  PROVE  IsSession(FreeSession, last)
<1>1. [i \in Items |-> Unseen] \in [Items -> Known]
  BY DEF Known
<1>2. <<>> \in Seq(Messages(last)) /\ Len(<<>>) = 0
  OBVIOUS
<1> QED
  BY <1>1, <1>2, BrokerConstants DEF FreeSession, IsSession, Off

\* client_close leaves a well-formed entry.
LEMMA CloseTyped ==
  ASSUME NEW last \in Nat, NEW s
  PROVE  IsSession(client_close(s), last)
<1>1. IsSession(FreeSession, last)
  BY FreeTyped
<1>2. DOMAIN FreeSession = DOMAIN FreeSession \cup {"phase"}
  BY DEF FreeSession
<1> QED
  BY <1>1, <1>2 DEF IsSession, client_close

\* A reply, or the close when it does not fit, leaves a well-formed session.
LEMMA ReplyTyped ==
  ASSUME NEW last \in Nat, NEW s, IsSession(s, last),
         NEW message \in Messages(last)
  PROVE  IsSession(Reply(s, message), last)
<1>1. CASE Room(s) = 0
  BY <1>1, CloseTyped DEF Reply
<1>2. CASE Room(s) # 0
  <2>1. <<message>> \in Seq(Messages(last))
    OBVIOUS
  <2>2. IsSession(Enqueue(s, <<message>>), last)
    BY Zenon, <2>1, EnqueueTyped
  <2> QED
    BY <1>2, <2>2 DEF Reply
<1> QED
  BY <1>1, <1>2

\* A droppable message, queued or dropped, leaves a well-formed session.
LEMMA OfferTyped ==
  ASSUME NEW last \in Nat, NEW s, IsSession(s, last),
         NEW messages \in Seq(Messages(last))
  PROVE  IsSession(Offer(s, messages), last)
<1> DEFINE t == Enqueue(s, messages)
<1>1. IsSession(t, last)
  BY EnqueueTyped
<1>2. CASE Len(messages) <= Room(s)
  BY <1>1, <1>2 DEF Offer
<1>3. CASE ~(Len(messages) <= Room(s))
  <2>1. Offer(s, messages) = [t EXCEPT !.needs_resync = TRUE,
                                       !.subscribed = FALSE,
                                       !.setup_left = SetupBeats]
    BY <1>3 DEF Offer
  <2>2. SetupBeats \in Off .. SetupBeats
    BY BrokerConstants DEF Off
  <2> HIDE DEF t
  <2> QED
    BY <1>1, <2>1, <2>2 DEF IsSession, FreeSession
<1> QED
  BY <1>2, <1>3

\* A canonical state is something a client can hold.
LEMMA CanonKnown ==
  ASSUME NEW state \in [Items -> Values]
  PROVE  state \in [Items -> Known]
  BY DEF Known

\* begin_snapshot leaves a well-formed session.
LEMMA BeginSnapshotTyped ==
  ASSUME change_sequence \in Nat, canon \in [Items -> Values],
         NEW s, IsSession(s, change_sequence)
  PROVE  IsSession(begin_snapshot(s), change_sequence)
<1>1. canon \in [Items -> Known]
  BY CanonKnown
<1>2. /\ change_sequence \in 0 .. change_sequence
      /\ SetupBeats \in Off .. SetupBeats
      /\ 0 \in 0 .. FrameCount + SignalCount
  BY BrokerConstants DEF Off
<1> QED
  BY Zenon, <1>1, <1>2 DEF begin_snapshot, IsSession, FreeSession

\* The message of a snapshot page.
PageOf(s, type, end) ==
  Message(type, s.snapshot_seq,
          [i \in s.next_index .. end - 1 |-> s.snapshot[i]])

\* The page that queue_frame_snapshot_chunk or queue_signal_snapshot_chunk
\* builds is well-formed and carries the items of the frozen copy it covers.
LEMMA PageMessage ==
  ASSUME NEW last \in Nat, NEW s, IsSession(s, last), NEW type \in Types,
         NEW end \in 0 .. FrameCount + SignalCount
  PROVE  /\ PageOf(s, type, end) \in Messages(last)
         /\ PageOf(s, type, end).items =
              [i \in s.next_index .. end - 1 |-> s.snapshot[i]]
         /\ PageOf(s, type, end).seq = s.snapshot_seq
         /\ PageOf(s, type, end).type = type
<1> DEFINE I == s.next_index .. end - 1
           values == [i \in I |-> s.snapshot[i]]
           seq == s.snapshot_seq
<1>1. I \in SUBSET Items
  BY BrokerConstants DEF IsSession, Items
<1>2. values \in [I -> Known]
  BY <1>1 DEF IsSession
<1>3. seq \in 0 .. last
  BY DEF IsSession
<1>4. PageOf(s, type, end) = Message(type, seq, values)
  BY DEF PageOf
<1> HIDE DEF I, values, seq
<1>5. /\ Message(type, seq, values) \in Messages(last)
      /\ Message(type, seq, values).items = values
      /\ Message(type, seq, values).seq = seq
      /\ Message(type, seq, values).type = type
  BY <1>1, <1>2, <1>3, ItemsOfMessage
<1> QED
  BY Zenon, <1>4, <1>5 DEF I, values, seq

\* A snapshot page leaves a well-formed session.
LEMMA PageTyped ==
  ASSUME NEW last \in Nat, NEW s, IsSession(s, last), NEW type \in Types,
         NEW end \in 0 .. FrameCount + SignalCount
  PROVE  IsSession(Page(s, type, end), last)
<1> DEFINE queued == Reply(s, PageOf(s, type, end))
<1>4. PageOf(s, type, end) \in Messages(last)
  BY Zenon, PageMessage
<1>5. IsSession(queued, last)
  BY <1>4, ReplyTyped
<1>6. CASE queued.phase = "closing"
  BY <1>5, <1>6 DEF Page, PageOf
<1>7. CASE queued.phase # "closing"
  <2>1. Page(s, type, end) =
          [queued EXCEPT !.next_index = end,
             !.snapshot_active = end < FrameCount + SignalCount,
             !.snapshot_complete = end = FrameCount + SignalCount]
    BY <1>7 DEF Page, PageOf
  <2> HIDE DEF queued
  <2> QED
    BY <1>5, <2>1 DEF IsSession, FreeSession
<1> QED
  BY <1>6, <1>7

\* A page ends within the state and, before its end, makes progress.
LEMMA PageEndType ==
  ASSUME NEW start \in Nat, NEW size \in Nat \ {0}, NEW limit \in Nat
  PROVE  /\ PageEnd(start, size, limit) \in 0 .. limit
         /\ start < limit => start < PageEnd(start, size, limit)
  BY DEF PageEnd

\* queue_frame_snapshot_chunk leaves a well-formed session.
LEMMA FrameChunkTyped ==
  ASSUME change_sequence \in Nat, canon \in [Items -> Values],
         NEW s, IsSession(s, change_sequence), NEW start \in Frames
  PROVE  IsSession(queue_frame_snapshot_chunk(s, start), change_sequence)
<1> DEFINE t == IF start = 0 /\ ~s.snapshot_active THEN begin_snapshot(s) ELSE s
           end == PageEnd(start, FramesPerMessage, FrameCount)
<1>1. IsSession(t, change_sequence)
  <2>1. CASE start = 0 /\ ~s.snapshot_active
    BY <2>1, BeginSnapshotTyped
  <2>2. CASE ~(start = 0 /\ ~s.snapshot_active)
    BY <2>2
  <2> QED
    BY <2>1, <2>2
<1>2. end \in 0 .. FrameCount + SignalCount
  <2>1. end \in 0 .. FrameCount
    BY PageEndType, BrokerConstants DEF Frames
  <2> QED
    BY <2>1, BrokerConstants
<1>3. "SNAPSHOT" \in Types
  BY DEF Types
<1> HIDE DEF t, end
<1>4. IsSession(Page(t, "SNAPSHOT", end), change_sequence)
  BY <1>1, <1>2, <1>3, PageTyped
<1>5. IsSession(client_close(s), change_sequence)
  BY CloseTyped
<1>6. \/ queue_frame_snapshot_chunk(s, start) = Page(t, "SNAPSHOT", end)
      \/ queue_frame_snapshot_chunk(s, start) = client_close(s)
  BY DEF queue_frame_snapshot_chunk, t, end
<1> QED
  BY <1>4, <1>5, <1>6

\* queue_signal_snapshot_chunk leaves a well-formed session.
LEMMA SignalChunkTyped ==
  ASSUME NEW last \in Nat, NEW s, IsSession(s, last),
         NEW start \in 0 .. SignalCount - 1
  PROVE  IsSession(queue_signal_snapshot_chunk(s, start), last)
<1> DEFINE end == PageEnd(s.next_index, SignalsPerMessage,
                          FrameCount + SignalCount)
<1>1. end \in 0 .. FrameCount + SignalCount
  <2>1. s.next_index \in 0 .. FrameCount + SignalCount
    BY DEF IsSession
  <2>2. FrameCount + SignalCount \in Nat /\ SignalsPerMessage \in Nat \ {0}
    BY BrokerConstants
  <2>3. s.next_index \in Nat
    BY <2>1, <2>2
  <2> QED
    BY Zenon, <2>2, <2>3, PageEndType
<1>2. "SIGNAL_SNAPSHOT_CHUNK" \in Types
  BY DEF Types
<1> HIDE DEF end
<1>3. IsSession(Page(s, "SIGNAL_SNAPSHOT_CHUNK", end), last)
  BY <1>1, <1>2, PageTyped
<1>4. IsSession(client_close(s), last)
  BY CloseTyped
<1>5. \/ queue_signal_snapshot_chunk(s, start) =
             Page(s, "SIGNAL_SNAPSHOT_CHUNK", end)
      \/ queue_signal_snapshot_chunk(s, start) = client_close(s)
  BY DEF queue_signal_snapshot_chunk, end
<1> QED
  BY <1>3, <1>4, <1>5

\* The changed items are items.
LEMMA ChangedType ==
  ASSUME NEW old, NEW new
  PROVE  Changed(old, new) \in SUBSET Items
  BY DEF Changed

\* begin_catchup_round leaves a well-formed session.
LEMMA BeginRoundTyped ==
  ASSUME change_sequence \in Nat, canon \in [Items -> Values],
         NEW s, IsSession(s, change_sequence)
  PROVE  IsSession(begin_catchup_round(s), change_sequence)
<1>1. canon \in [Items -> Known]
  BY CanonKnown
<1>2. change_sequence \in 0 .. change_sequence
  OBVIOUS
<1>3. Changed(s.snapshot, canon) \in SUBSET Items
  BY ChangedType
<1> QED
  BY <1>1, <1>2, <1>3 DEF begin_catchup_round, IsSession, FreeSession

\* The batches of a catch-up round leave a well-formed session.
LEMMA SendRoundTyped ==
  ASSUME NEW last \in Nat, NEW s, IsSession(s, last)
  PROVE  IsSession(SendRound(s), last)
<1> DEFINE t == Enqueue(s, Batches(s.pending, s.snapshot, s.catchup_seq))
           left == {i \in t.pending : BatchOf(t.pending, i) > Room(s)}
<1>1. Batches(s.pending, s.snapshot, s.catchup_seq) \in Seq(Messages(last))
  <2>1. /\ s.pending \in SUBSET Items /\ s.snapshot \in [Items -> Known]
        /\ s.catchup_seq \in 0 .. last
    BY DEF IsSession
  <2> QED
    BY Zenon, <2>1, BatchesTyped
<1>2. IsSession(t, last)
  BY <1>1, EnqueueTyped
<1>3. SendRound(s) = [t EXCEPT !.pending = left]
  BY DEF SendRound
<1> HIDE DEF t
<1>4. left \in SUBSET Items
  BY <1>2 DEF IsSession
<1> HIDE DEF left
<1> QED
  BY <1>2, <1>3, <1>4 DEF IsSession, FreeSession

\* The end of the catch-up leaves a well-formed session.
LEMMA SubscribedTyped ==
  ASSUME change_sequence \in Nat, NEW s, IsSession(s, change_sequence)
  PROVE  IsSession([Enqueue(s, <<Bare("SUBSCRIBED")>>) EXCEPT
                      !.catchup_active = FALSE, !.subscribed = TRUE,
                      !.setup_left = Off, !.continuous = TRUE],
                   change_sequence)
<1> DEFINE t == Enqueue(s, <<Bare("SUBSCRIBED")>>)
<1>1. <<Bare("SUBSCRIBED")>> \in Seq(Messages(change_sequence))
  <2>1. Bare("SUBSCRIBED") \in Messages(change_sequence)
    BY BareMessage DEF Types
  <2> QED
    BY <2>1, SingleSeq
<1>2. IsSession(t, change_sequence)
  BY Zenon, <1>1, EnqueueTyped
<1>3. Off \in Off .. SetupBeats
  BY BrokerConstants DEF Off
<1> HIDE DEF t
<1>4. IsSession([t EXCEPT !.catchup_active = FALSE, !.subscribed = TRUE,
                          !.setup_left = Off, !.continuous = TRUE],
                change_sequence)
  BY <1>2, <1>3 DEF IsSession, FreeSession
<1> QED
  BY <1>4 DEF t

\* drive_subscription_catchup leaves a well-formed session.
LEMMA DriveTyped ==
  ASSUME change_sequence \in Nat, canon \in [Items -> Values],
         NEW s, IsSession(s, change_sequence)
  PROVE  IsSession(drive_subscription_catchup(s), change_sequence)
<1> DEFINE first == SendRound(s)
           second == SendRound(begin_catchup_round(first))
           done == [Enqueue(second, <<Bare("SUBSCRIBED")>>) EXCEPT
                      !.catchup_active = FALSE, !.subscribed = TRUE,
                      !.setup_left = Off, !.continuous = TRUE]
<1>1. IsSession(first, change_sequence)
  BY SendRoundTyped
<1>2. IsSession(begin_catchup_round(first), change_sequence)
  BY <1>1, BeginRoundTyped
<1>3. IsSession(second, change_sequence)
  BY <1>2, SendRoundTyped
<1>4. IsSession(done, change_sequence)
  BY Zenon, <1>3, SubscribedTyped
<1>5. drive_subscription_catchup(s) \in {first, second, done}
  BY DEF drive_subscription_catchup
<1> QED
  BY <1>1, <1>3, <1>4, <1>5

\* SUBSCRIBE_ALL leaves a well-formed session.
LEMMA SubscribeTyped ==
  ASSUME change_sequence \in Nat, canon \in [Items -> Values],
         NEW s, IsSession(s, change_sequence)
  PROVE  IsSession(SubscribeAll(s), change_sequence)
<1> DEFINE t == [s EXCEPT !.catchup_active = TRUE]
<1>1. IsSession(t, change_sequence)
  BY DEF IsSession, FreeSession
<1> HIDE DEF t
<1>2. IsSession(drive_subscription_catchup(begin_catchup_round(t)),
                change_sequence)
  BY <1>1, BeginRoundTyped, DriveTyped
<1>3. IsSession(client_close(s), change_sequence)
  BY CloseTyped
<1>4. SubscribeAll(s) \in {drive_subscription_catchup(begin_catchup_round(t)),
                           client_close(s)}
  BY DEF SubscribeAll, queue_subscription_catchup, t
<1> QED
  BY <1>2, <1>3, <1>4

\* HELLO leaves a well-formed session.
LEMMA HelloTyped ==
  ASSUME change_sequence \in Nat, NEW s, IsSession(s, change_sequence),
         NEW understood \in BOOLEAN
  PROVE  IsSession(Hello(s, understood), change_sequence)
<1> DEFINE welcomed == Reply(s, Bare("WELCOME"))
           t == [welcomed EXCEPT !.greeted = TRUE, !.hello_left = Off,
                                 !.setup_left = SetupBeats]
<1>1. IsSession(welcomed, change_sequence)
  <2>1. Bare("WELCOME") \in Messages(change_sequence)
    BY BareMessage DEF Types
  <2> QED
    BY <2>1, ReplyTyped
<1>2. Off \in Off .. HelloBeats /\ SetupBeats \in Off .. SetupBeats
  BY BrokerConstants DEF Off
<1>3. Hello(s, understood) \in {t, client_close(s)}
  BY DEF Hello
<1> HIDE DEF welcomed
<1>4. IsSession(t, change_sequence)
  BY <1>1, <1>2 DEF IsSession, FreeSession
<1> HIDE DEF t
<1>5. IsSession(client_close(s), change_sequence)
  BY CloseTyped
<1> QED
  BY <1>3, <1>4, <1>5

\* GET_SNAPSHOT leaves a well-formed session.
LEMMA GetSnapshotTyped ==
  ASSUME change_sequence \in Nat, canon \in [Items -> Values],
         NEW s, IsSession(s, change_sequence), NEW start \in Frames
  PROVE  IsSession(GetSnapshot(s, start), change_sequence)
  BY FrameChunkTyped, CloseTyped DEF GetSnapshot

\* GET_SIGNAL_SNAPSHOT leaves a well-formed session.
LEMMA GetSignalSnapshotTyped ==
  ASSUME NEW last \in Nat, NEW s, IsSession(s, last),
         NEW start \in 0 .. SignalCount - 1
  PROVE  IsSession(GetSignalSnapshot(s, start), last)
  BY SignalChunkTyped, CloseTyped DEF GetSignalSnapshot

\* PING and GET_SCHEMA leave a well-formed session.
LEMMA QueryTyped ==
  ASSUME change_sequence \in Nat, NEW s, IsSession(s, change_sequence),
         NEW type \in {"PONG", "SCHEMA_CHUNK"}
  PROVE  IsSession(Query(s, type), change_sequence)
<1>1. Bare(type) \in Messages(change_sequence)
  <2>1. type \in Types
    BY DEF Types
  <2> QED
    BY <2>1, BareMessage
<1>2. IsSession(Reply(s, Bare(type)), change_sequence)
  BY <1>1, ReplyTyped
<1> QED
  BY <1>2, CloseTyped DEF Query

\* Applying a message to what a client holds gives something it can hold.
LEMMA ApplyTyped ==
  ASSUME NEW last, NEW view \in [Items -> Known], NEW m \in Messages(last)
  PROVE  Apply(view, m) \in [Items -> Known]
<1>1. PICK I \in SUBSET Items : m.items \in [I -> Known]
  BY DEF Messages
<1> QED
  BY <1>1 DEF Apply

\* What a session is right after its oldest message has been written.
Freed(s) == [s EXCEPT !.queue = Tail(@), !.view = Apply(@, Head(s.queue))]

\* A completed write leaves a well-formed session.
LEMMA FreedTyped ==
  ASSUME NEW last, NEW s, IsSession(s, last), s.queue # <<>>
  PROVE  IsSession(Freed(s), last)
<1>1. /\ s.queue \in Seq(Messages(last)) /\ Len(s.queue) \in 0 .. QueueSlots
      /\ s.view \in [Items -> Known]
  BY RoomType DEF IsSession
<1>2. /\ Tail(s.queue) \in Seq(Messages(last))
      /\ Len(Tail(s.queue)) = Len(s.queue) - 1
      /\ Head(s.queue) \in Messages(last)
  BY <1>1, HeadTailProperties
<1>3. Apply(s.view, Head(s.queue)) \in [Items -> Known]
  BY <1>1, <1>2, ApplyTyped
<1>4. Len(Tail(s.queue)) <= QueueSlots
  BY <1>1, <1>2, BrokerConstants
<1> QED
  BY <1>2, <1>3, <1>4 DEF Freed, IsSession, FreeSession

\* maybe_queue_resync leaves a well-formed session.
LEMMA ResyncTyped ==
  ASSUME change_sequence \in Nat, NEW s, IsSession(s, change_sequence)
  PROVE  IsSession(maybe_queue_resync(s), change_sequence)
<1> DEFINE t == Enqueue(s, <<Bare("RESYNC_REQUIRED")>>)
<1>1. IsSession(t, change_sequence)
  <2>1. Bare("RESYNC_REQUIRED") \in Messages(change_sequence)
    BY BareMessage DEF Types
  <2>2. <<Bare("RESYNC_REQUIRED")>> \in Seq(Messages(change_sequence))
    BY <2>1, SingleSeq
  <2> QED
    BY Zenon, <2>2, EnqueueTyped
<1>2. maybe_queue_resync(s) \in {s, [t EXCEPT !.resync_queued = TRUE]}
  BY DEF maybe_queue_resync
<1> HIDE DEF t
<1>3. IsSession([t EXCEPT !.resync_queued = TRUE], change_sequence)
  BY <1>1 DEF IsSession, FreeSession
<1> QED
  BY Zenon, <1>2, <1>3

\* on_client_write leaves a well-formed session.
LEMMA WriteTyped ==
  ASSUME change_sequence \in Nat, canon \in [Items -> Values],
         NEW s, IsSession(s, change_sequence), s.queue # <<>>
  PROVE  IsSession(on_client_write(s), change_sequence)
<1>1. IsSession(Freed(s), change_sequence)
  BY FreedTyped
<1>2. IsSession(drive_subscription_catchup(Freed(s)), change_sequence)
  BY <1>1, DriveTyped
<1>3. on_client_write(s) \in
        {maybe_queue_resync(Freed(s)),
         maybe_queue_resync(drive_subscription_catchup(Freed(s)))}
  BY DEF on_client_write, Freed
<1> QED
  BY <1>1, <1>2, <1>3, ResyncTyped

\* on_heartbeat leaves a well-formed session.
LEMMA BeatTyped ==
  ASSUME change_sequence \in Nat, NEW s, IsSession(s, change_sequence)
  PROVE  IsSession(Beat(s), change_sequence)
<1> DEFINE t == [s EXCEPT !.hello_left = Elapse(@), !.setup_left = Elapse(@)]
<1>1. IsSession(t, change_sequence)
  <2>1. s.hello_left \in Off .. HelloBeats /\ s.setup_left \in Off .. SetupBeats
    BY DEF IsSession
  <2>2. /\ Elapse(s.hello_left) \in Off .. HelloBeats
        /\ Elapse(s.setup_left) \in Off .. SetupBeats
    BY <2>1, BrokerConstants DEF Elapse, Off
  <2> QED
    BY <2>2 DEF IsSession, FreeSession
<1>2. Beat(s) \in {s, t, client_close(t), Offer(t, <<Bare("HEARTBEAT")>>)}
  BY DEF Beat
<1> HIDE DEF t
<1>3. IsSession(client_close(t), change_sequence)
  BY CloseTyped
<1>4. IsSession(Offer(t, <<Bare("HEARTBEAT")>>), change_sequence)
  <2>1. Bare("HEARTBEAT") \in Messages(change_sequence)
    BY BareMessage DEF Types
  <2>2. <<Bare("HEARTBEAT")>> \in Seq(Messages(change_sequence))
    BY <2>1, SingleSeq
  <2> QED
    BY Zenon, <1>1, <2>2, OfferTyped
<1> QED
  BY <1>1, <1>2, <1>3, <1>4

\* A session stays well-formed when the change sequence grows.
LEMMA SessionMonotone ==
  ASSUME NEW last \in Nat, NEW s, IsSession(s, last)
  PROVE  IsSession(s, last + 1)
<1>1. /\ s.queue \in Seq(Messages(last))
      /\ s.snapshot_seq \in 0 .. last /\ s.catchup_seq \in 0 .. last
  BY DEF IsSession
<1>2. Messages(last) \subseteq Messages(last + 1)
  BY DEF Messages
<1>3. s.queue \in Seq(Messages(last + 1))
  BY <1>1, <1>2, SeqMonotonic
<1>4. s.snapshot_seq \in 0 .. last + 1 /\ s.catchup_seq \in 0 .. last + 1
  BY <1>1
<1> QED
  BY <1>3, <1>4 DEF IsSession

\* An update leaves a well-formed session.
LEMMA BroadcastTyped ==
  ASSUME change_sequence \in Nat, NEW s, IsSession(s, change_sequence),
         NEW changed \in SUBSET Items, NEW new \in [Items -> Values]
  PROVE  IsSession(Broadcast(s, changed, new), change_sequence + 1)
<1>1. IsSession(s, change_sequence + 1)
  BY SessionMonotone
<1>2. Batches(changed, new, change_sequence + 1)
        \in Seq(Messages(change_sequence + 1))
  <2>1. /\ change_sequence + 1 \in Nat
        /\ change_sequence + 1 \in 0 .. change_sequence + 1
    OBVIOUS
  <2> QED
    BY Zenon, <2>1, BatchesTyped, CanonKnown
<1>3. IsSession(Offer(s, Batches(changed, new, change_sequence + 1)),
                change_sequence + 1)
  <2>1. change_sequence + 1 \in Nat
    OBVIOUS
  <2> QED
    BY <1>1, <1>2, <2>1, OfferTyped
<1> QED
  BY <1>1, <1>3 DEF Broadcast

\* A session is well-formed when it is accepted.
LEMMA AcceptedTyped ==
  ASSUME NEW last \in Nat, NEW uid \in Uids
  PROVE  IsSession(Accepted(uid), last)
<1>1. IsSession(FreeSession, last)
  BY FreeTyped
<1>2. HelloBeats \in Off .. HelloBeats /\ SetupBeats \in Off .. SetupBeats
  BY BrokerConstants DEF Off
<1>3. DOMAIN FreeSession =
        DOMAIN FreeSession \cup {"phase", "peer_uid", "hello_left", "setup_left"}
  BY DEF FreeSession
<1> QED
  BY <1>1, <1>2, <1>3 DEF IsSession, Accepted

\* The facts about the state that the session lemmas start from.
LEMMA StateFacts ==
  ASSUME TypeOK
  PROVE  /\ change_sequence \in Nat
         /\ canon \in [Items -> Values]
         /\ history \in Seq([Items -> Values])
         /\ Len(history) = change_sequence + 1
         /\ \A c \in Slots : IsSession(clients[c], change_sequence)
  BY BrokerConstants DEF TypeOK, change_sequence

\* A request replaces the session by a well-formed one.
LEMMA RequestTyped ==
  ASSUME TypeOK, NEW c \in Slots, Request(c)
  PROVE  \E t : IsSession(t, change_sequence) /\ Step(c, t)
<1> DEFINE s == clients[c]
<1>1. /\ change_sequence \in Nat /\ canon \in [Items -> Values]
      /\ IsSession(s, change_sequence)
  BY StateFacts
<1>2. ASSUME NEW understood \in BOOLEAN, Step(c, Hello(s, understood))
      PROVE  \E t : IsSession(t, change_sequence) /\ Step(c, t)
  BY <1>1, <1>2, HelloTyped
<1>3. ASSUME NEW start \in Frames, Step(c, GetSnapshot(s, start))
      PROVE  \E t : IsSession(t, change_sequence) /\ Step(c, t)
  BY <1>1, <1>3, GetSnapshotTyped
<1>4. ASSUME NEW start \in 0 .. SignalCount - 1,
             Step(c, GetSignalSnapshot(s, start))
      PROVE  \E t : IsSession(t, change_sequence) /\ Step(c, t)
  BY <1>1, <1>4, GetSignalSnapshotTyped
<1>5. ASSUME Step(c, SubscribeAll(s))
      PROVE  \E t : IsSession(t, change_sequence) /\ Step(c, t)
  BY <1>1, <1>5, SubscribeTyped
<1>6. ASSUME NEW type \in {"PONG", "SCHEMA_CHUNK"}, Step(c, Query(s, type))
      PROVE  \E t : IsSession(t, change_sequence) /\ Step(c, t)
  BY <1>1, <1>6, QueryTyped
<1> QED
  BY <1>2, <1>3, <1>4, <1>5, <1>6 DEF Request

\* Replacing one session by a well-formed one keeps the state well-formed.
LEMMA StepTyped ==
  ASSUME TypeOK, NEW c \in Slots, NEW t, IsSession(t, change_sequence),
         clients' = [clients EXCEPT ![c] = t],
         UNCHANGED <<canon, history, shutting_down>>
  PROVE  TypeOK'
<1>1. change_sequence' = change_sequence
  BY DEF change_sequence
<1>2. DOMAIN clients' = Slots
  BY DEF TypeOK
<1>3. \A d \in Slots : IsSession(clients'[d], change_sequence)
  BY DEF TypeOK
<1>4. \A d \in Slots : IsSession(clients[d], change_sequence)'
  BY <1>1, <1>3
<1> QED
  BY <1>2, <1>4 DEF TypeOK

\* The event loop starts in a well-formed state.
LEMMA InitTyped == Init => TypeOK
<1> SUFFICES ASSUME Init PROVE TypeOK
  OBVIOUS
<1>1. /\ canon \in [Items -> Values]
      /\ history \in Seq([Items -> Values])
      /\ Len(history) = 1
  BY DEF Init
<1>2. Len(history) \in 1 .. MaxChanges + 1 /\ change_sequence \in Nat
  BY <1>1, BrokerConstants DEF change_sequence
<1>3. /\ DOMAIN clients = Slots
      /\ \A c \in Slots : IsSession(clients[c], change_sequence)
  BY <1>2, FreeTyped DEF Init
<1> QED
  BY Zenon, <1>1, <1>2, <1>3 DEF TypeOK, Init

\* Every callback keeps the state well-formed.
LEMMA NextTyped == TypeOK /\ [Next]_vars => TypeOK'
<1> SUFFICES ASSUME TypeOK, [Next]_vars PROVE TypeOK'
  OBVIOUS
<1>0. /\ change_sequence \in Nat
      /\ canon \in [Items -> Values]
      /\ history \in Seq([Items -> Values])
      /\ Len(history) = change_sequence + 1
      /\ \A c \in Slots : IsSession(clients[c], change_sequence)
  BY StateFacts
<1>1. ASSUME NEW c \in Slots, NEW uid \in Uids, NEW usable \in BOOLEAN,
             on_connection(c, uid, usable)
      PROVE  TypeOK'
  <2>1. /\ IsSession(Accepted(uid), change_sequence)
        /\ IsSession(client_close(clients[c]), change_sequence)
    BY <1>0, AcceptedTyped, CloseTyped
  <2>2. \E t \in {Accepted(uid), client_close(clients[c])} :
          clients' = [clients EXCEPT ![c] = t]
    BY Zenon, <1>1 DEF on_connection
  <2> QED
    BY Zenon, <1>1, <2>1, <2>2, StepTyped DEF on_connection
<1>2. ASSUME NEW c \in Slots, on_client_closed(c) PROVE TypeOK'
  BY Zenon, <1>0, <1>2, FreeTyped, StepTyped DEF on_client_closed
<1>3. ASSUME NEW c \in Slots, Disconnect(c) PROVE TypeOK'
  BY Zenon, <1>0, <1>3, CloseTyped, StepTyped DEF Disconnect, Step
<1>4. ASSUME NEW c \in Slots, Request(c) PROVE TypeOK'
  BY <1>4, RequestTyped, StepTyped DEF Step
<1>5. ASSUME NEW c \in Slots, WriteDone(c) PROVE TypeOK'
  BY Zenon, <1>0, <1>5, WriteTyped, StepTyped DEF WriteDone, Step
<1>6. ASSUME on_heartbeat PROVE TypeOK'
  <2>1. change_sequence' = change_sequence
    BY <1>6 DEF on_heartbeat, change_sequence
  <2>2. \A c \in Slots : IsSession(clients'[c], change_sequence)
    BY <1>0, <1>6, BeatTyped DEF on_heartbeat
  <2>3. \A c \in Slots : IsSession(clients[c], change_sequence)'
    BY <2>1, <2>2
  <2> QED
    BY <1>6, <2>3 DEF on_heartbeat, TypeOK
<1>7. ASSUME distribute_latest_sample PROVE TypeOK'
  <2>1. PICK new \in [Items -> Values] :
          /\ canon' = new
          /\ \/ UNCHANGED <<history, clients>>
             \/ /\ change_sequence < MaxChanges
                /\ history' = Append(history, new)
                /\ clients' = [c \in Slots |->
                     Broadcast(clients[c], Changed(canon, new), new)]
    BY <1>7 DEF distribute_latest_sample
  <2>2. CASE UNCHANGED <<history, clients>>
    <3>1. change_sequence' = change_sequence
      BY <2>2 DEF change_sequence
    <3>2. \A c \in Slots : IsSession(clients[c], change_sequence)'
      BY <1>0, <2>2, <3>1
    <3> QED
      BY <1>7, <2>1, <2>2, <3>2 DEF TypeOK, distribute_latest_sample
  <2>3. CASE /\ change_sequence < MaxChanges
             /\ history' = Append(history, new)
             /\ clients' = [c \in Slots |->
                  Broadcast(clients[c], Changed(canon, new), new)]
    <3>1. /\ history' \in Seq([Items -> Values])
          /\ Len(history') = Len(history) + 1
      BY <1>0, <2>3, AppendProperties
    <3>2. change_sequence' = change_sequence + 1
      BY <1>0, <3>1 DEF change_sequence
    <3>3. Len(history') \in 1 .. MaxChanges + 1
      BY <1>0, <2>3, <3>1, BrokerConstants
    <3>4. \A c \in Slots : IsSession(clients'[c], change_sequence + 1)
      BY <1>0, <2>3, ChangedType, BroadcastTyped
    <3>5. \A c \in Slots : IsSession(clients[c], change_sequence)'
      BY <3>2, <3>4
    <3> QED
      BY <1>7, <2>1, <2>3, <3>1, <3>3, <3>5
      DEF TypeOK, distribute_latest_sample
  <2> QED
    BY <2>1, <2>2, <2>3
<1>8. ASSUME server_shutdown PROVE TypeOK'
  <2>1. change_sequence' = change_sequence
    BY <1>8 DEF server_shutdown, change_sequence
  <2>2. \A c \in Slots : IsSession(clients'[c], change_sequence)
    BY <1>0, <1>8, CloseTyped DEF server_shutdown
  <2>3. \A c \in Slots : IsSession(clients[c], change_sequence)'
    BY <2>1, <2>2
  <2> QED
    BY <1>8, <2>3 DEF server_shutdown, TypeOK
<1>9. ASSUME UNCHANGED vars PROVE TypeOK'
  BY <1>9 DEF TypeOK, vars, change_sequence
<1> QED
  BY <1>1, <1>2, <1>3, <1>4, <1>5, <1>6, <1>7, <1>8, <1>9 DEF Next, Stopped

\* Every reachable state of the event loop is well-formed, and no output queue
\* outgrows its slots, for every size of the table, the state and the queues.
THEOREM TypeCorrect == Spec => []TypeOK
<1> QED
  BY InitTyped, NextTyped, PTL DEF Spec

\* The parts of the invariant that speak of the whole state.
LEMMA InvFacts ==
  ASSUME Inv
  PROVE  /\ TypeOK
         /\ change_sequence \in Nat
         /\ canon \in [Items -> Values]
         /\ canon \in [Items -> Known]
         /\ Mirrors(canon, history, change_sequence)
  BY StateFacts, CanonKnown DEF Inv

-----------------------------------------------------------------------------
(* What arrives at the client. *)

\* The comparison that detects changes is reflexive.
LEMMA SameRefl ==
  ASSUME NEW i, NEW v
  PROVE  Same(i, v, v)
  BY DEF Same

\* The comparison that detects changes is symmetric.
LEMMA SameSym ==
  ASSUME NEW i, NEW v, NEW w, Same(i, v, w)
  PROVE  Same(i, w, v)
  BY DEF Same

\* The comparison that detects changes is transitive: a value that was not
\* worth sending twice in a row is still not worth sending.
LEMMA SameTrans ==
  ASSUME NEW i, NEW u, NEW v, NEW w, Same(i, u, v), Same(i, v, w)
  PROVE  Same(i, u, w)
  BY DEF Same

\* What arrives may be replaced by a value that does not count as a change.
LEMMA ReachesSame ==
  ASSUME NEW q, NEW n \in Nat, NEW view, NEW i, NEW v, NEW w,
         Reaches(q, n, view, i, v), Same(i, v, w)
  PROVE  Reaches(q, n, view, i, w)
  BY SameTrans DEF Reaches

\* Messages that do not mention an item do not change what arrives of it.
LEMMA ReachesKept ==
  ASSUME NEW q, NEW r, NEW n \in Nat, NEW m \in Nat, n <= m,
         NEW view, NEW i, NEW v,
         \A k \in 1 .. n : r[k] = q[k],
         \A k \in n + 1 .. m : ~Mentions(r[k], i),
         Reaches(q, n, view, i, v)
  PROVE  Reaches(r, m, view, i, v)
<1>1. CASE \E k \in 1 .. n : /\ Mentions(q[k], i)
                             /\ Same(i, q[k].items[i], v)
                             /\ \A j \in k + 1 .. n : ~Mentions(q[j], i)
  <2>1. PICK k \in 1 .. n : /\ Mentions(q[k], i)
                            /\ Same(i, q[k].items[i], v)
                            /\ \A j \in k + 1 .. n : ~Mentions(q[j], i)
    BY <1>1
  <2>2. \A j \in k + 1 .. m : ~Mentions(r[j], i)
    <3>1. ASSUME NEW j \in k + 1 .. m PROVE ~Mentions(r[j], i)
      <4>1. CASE j <= n
        BY <2>1, <4>1
      <4>2. CASE j > n
        BY <4>2
      <4> QED
        BY <4>1, <4>2
    <3> QED
      BY <3>1
  <2> QED
    BY <2>1, <2>2 DEF Reaches
<1>2. CASE (\A k \in 1 .. n : ~Mentions(q[k], i)) /\ Same(i, view[i], v)
  <2>1. ASSUME NEW j \in 1 .. m PROVE ~Mentions(r[j], i)
    <3>1. CASE j <= n
      BY <1>2, <3>1
    <3>2. CASE j > n
      BY <3>2
    <3> QED
      BY <3>1, <3>2
  <2> QED
    BY <1>2, <2>1 DEF Reaches
<1> QED
  BY <1>1, <1>2 DEF Reaches

\* Applying the oldest message changes nothing about what arrives.
LEMMA ReachesTail ==
  ASSUME NEW S, NEW q \in Seq(S), q # <<>>, NEW n \in 1 .. Len(q),
         NEW view, NEW i \in Items, NEW v, Reaches(q, n, view, i, v)
  PROVE  Reaches(Tail(q), n - 1, Apply(view, Head(q)), i, v)
<1>1. /\ Len(q) \in Nat
      /\ \A k \in 1 .. Len(q) - 1 : Tail(q)[k] = q[k + 1]
      /\ Head(q) = q[1]
  BY HeadTailProperties
<1>2. Apply(view, Head(q))[i] = IF Mentions(q[1], i) THEN q[1].items[i]
                                                     ELSE view[i]
  BY <1>1 DEF Apply, Mentions
<1>3. CASE \E k \in 1 .. n : /\ Mentions(q[k], i)
                             /\ Same(i, q[k].items[i], v)
                             /\ \A j \in k + 1 .. n : ~Mentions(q[j], i)
  <2>1. PICK k \in 1 .. n : /\ Mentions(q[k], i)
                            /\ Same(i, q[k].items[i], v)
                            /\ \A j \in k + 1 .. n : ~Mentions(q[j], i)
    BY <1>3
  <2>2. \A j \in k .. n - 1 : ~Mentions(Tail(q)[j], i)
    BY <1>1, <2>1
  <2>3. CASE k = 1
    BY <1>2, <2>1, <2>2, <2>3 DEF Reaches
  <2>4. CASE k > 1
    <3>1. k - 1 \in 1 .. n - 1 /\ Tail(q)[k - 1] = q[k]
      BY <1>1, <2>4
    <3> QED
      BY <2>1, <2>2, <3>1 DEF Reaches
  <2> QED
    BY <2>3, <2>4
<1>4. CASE (\A k \in 1 .. n : ~Mentions(q[k], i)) /\ Same(i, view[i], v)
  BY <1>1, <1>2, <1>4 DEF Reaches
<1> QED
  BY Zenon, <1>3, <1>4 DEF Reaches

-----------------------------------------------------------------------------
(* What queueing keeps. *)

\* The two sessions differ at most in their queues and pending items.
Kept(s, t) ==
  /\ t.phase = s.phase
  /\ t.greeted = s.greeted
  /\ t.subscribed = s.subscribed
  /\ t.needs_resync = s.needs_resync
  /\ t.resync_queued = s.resync_queued
  /\ t.hello_left = s.hello_left
  /\ t.setup_left = s.setup_left
  /\ t.snapshot = s.snapshot
  /\ t.snapshot_seq = s.snapshot_seq
  /\ t.next_index = s.next_index
  /\ t.snapshot_active = s.snapshot_active
  /\ t.snapshot_complete = s.snapshot_complete
  /\ t.catchup_active = s.catchup_active
  /\ t.catchup_seq = s.catchup_seq
  /\ t.view = s.view
  /\ t.continuous = s.continuous

\* Queueing touches nothing of a session but its queue.
LEMMA EnqueueGrows ==
  ASSUME NEW last, NEW s, IsSession(s, last),
         NEW messages \in Seq(Messages(last))
  PROVE  /\ Kept(s, Enqueue(s, messages))
         /\ Enqueue(s, messages).pending = s.pending
         /\ \E n \in Nat : Grown(s, Enqueue(s, messages).queue, messages, n)
<1>1. PICK n \in Nat, q \in Seq(Messages(last)) :
        /\ Enqueue(s, messages) = [s EXCEPT !.queue = q]
        /\ Grown(s, q, messages, n)
  BY EnqueueEffect
<1>2. DOMAIN s = DOMAIN FreeSession
  BY DEF IsSession
<1>3. Enqueue(s, messages).queue = q
  BY <1>1, <1>2 DEF FreeSession
<1>4. Kept(s, Enqueue(s, messages)) /\ Enqueue(s, messages).pending = s.pending
  BY <1>1, <1>2 DEF FreeSession, Kept
<1> QED
  BY <1>1, <1>3, <1>4
=============================================================================
