--------------------------- MODULE BrokerSessions ---------------------------
(***************************************************************************)
(* What a callback may do to a session: the user it belongs to stays, the  *)
(* frozen copy of a snapshot in transfer stays, and a session that is not  *)
(* set up keeps a running deadline.  For every value of the constants; the *)
(* limit of sessions per user and the deadlines follow.                    *)
(*                                                                         *)
(* And what SUBSCRIBED and HEARTBEAT report to an orderly client: once it  *)
(* has applied everything before the message, it holds the complete state  *)
(* of the change sequence in its header.  A callback queues messages of    *)
(* other types, or ends with one of these when the session is live; that   *)
(* the live session is covered is Coverage of BrokerInv.                   *)
(***************************************************************************)
EXTENDS BrokerProofs, FiniteSetTheorems

\* Larger obligations take the provers longer than their default limits.
USE SMTT(30), ZenonT(30)

\* The fields that queueing messages leaves alone, apart from the copy.
Flags(s, t) ==
  /\ DOMAIN t = DOMAIN FreeSession
  /\ t.phase = s.phase /\ t.peer_uid = s.peer_uid
  /\ t.greeted = s.greeted /\ t.subscribed = s.subscribed
  /\ t.needs_resync = s.needs_resync
  /\ t.hello_left = s.hello_left /\ t.setup_left = s.setup_left
  /\ t.snapshot_active = s.snapshot_active
  /\ t.catchup_active = s.catchup_active
  /\ t.continuous = s.continuous

Copy(s, t) == t.snapshot = s.snapshot /\ t.snapshot_seq = s.snapshot_seq

\* How session s may become t.
Evolves(s, t) ==
  /\ t.phase = "active" => s.phase = "active" /\ t.peer_uid = s.peer_uid
  /\ s.snapshot_active /\ t.snapshot_active => Copy(s, t)

\* SetupWindow for one session, made inductive: a catch-up in progress and an
\* owed resynchronization exclude a subscription (of an orderly client), and
\* no snapshot is started under one.
Armed(s) ==
  /\ s.phase = "active" /\ ~s.greeted => s.hello_left # Off
  /\ s.phase = "active" /\ s.greeted /\ ~s.subscribed => s.setup_left # Off
  /\ Client = "orderly" =>
       /\ s.needs_resync => ~s.subscribed
       /\ s.catchup_active => ~s.subscribed /\ ~s.needs_resync
       /\ s.subscribed => s.continuous

-----------------------------------------------------------------------------
(* One callback. *)

\* The constants of the deadlines are not the value of a deadline not armed.
LEMMA BeatsArmed == HelloBeats # Off /\ SetupBeats # Off
  BY BrokerConstants DEF Off

\* client_close.
LEMMA CloseArmed ==
  ASSUME NEW s
  PROVE  /\ DOMAIN client_close(s) = DOMAIN FreeSession
         /\ client_close(s).phase = "closing"
         /\ Evolves(s, client_close(s)) /\ Armed(client_close(s))
<1>1. /\ DOMAIN client_close(s) = DOMAIN FreeSession
      /\ client_close(s).phase = "closing"
      /\ client_close(s).snapshot_active = FALSE
      /\ client_close(s).needs_resync = FALSE
      /\ client_close(s).catchup_active = FALSE
      /\ client_close(s).subscribed = FALSE
  BY DEF client_close, FreeSession
<1> QED
  BY <1>1 DEF Evolves, Armed

\* client_queue_message only appends.
LEMMA EnqueueKeeps ==
  ASSUME NEW s, DOMAIN s = DOMAIN FreeSession, NEW messages
  PROVE  Flags(s, Enqueue(s, messages)) /\ Copy(s, Enqueue(s, messages))
  BY DEF Enqueue, FreeSession, Flags, Copy

\* One round of the catch-up.
LEMMA SendRoundKeeps ==
  ASSUME NEW s, DOMAIN s = DOMAIN FreeSession
  PROVE  Flags(s, SendRound(s))
<1> DEFINE t == Enqueue(s, Batches(s.pending, s.snapshot, s.catchup_seq))
<1>1. Flags(s, t)
  BY EnqueueKeeps
<1>2. SendRound(s) = [t EXCEPT !.pending = {i \in @ : BatchOf(@, i) > Room(s)}]
  BY DEF SendRound
<1> HIDE DEF t
<1> QED
  BY <1>1, <1>2 DEF Flags, FreeSession

\* begin_catchup_round replaces the copy and nothing else of these.
LEMMA BeginRoundKeeps ==
  ASSUME NEW s, DOMAIN s = DOMAIN FreeSession
  PROVE  Flags(s, begin_catchup_round(s))
  BY DEF begin_catchup_round, Flags, FreeSession

\* A resumed catch-up leaves the flags alone or ends with SUBSCRIBED.
LEMMA DriveKeeps ==
  ASSUME NEW s, DOMAIN s = DOMAIN FreeSession
  PROVE  LET t == drive_subscription_catchup(s) IN
         \/ Flags(s, t)
         \/ /\ DOMAIN t = DOMAIN FreeSession
            /\ t.phase = s.phase /\ t.peer_uid = s.peer_uid
            /\ t.greeted = s.greeted /\ t.needs_resync = s.needs_resync
            /\ t.hello_left = s.hello_left
            /\ t.snapshot_active = s.snapshot_active
            /\ t.subscribed = TRUE /\ t.catchup_active = FALSE /\ t.continuous = TRUE
<1> DEFINE first == SendRound(s)
           begun == begin_catchup_round(first)
           second == SendRound(begun)
           last == Enqueue(second, <<Bare("SUBSCRIBED")>>)
<1>1. Flags(s, first)
  BY SendRoundKeeps
<1>2. Flags(first, begun)
  BY <1>1, BeginRoundKeeps DEF Flags
<1>3. Flags(begun, second)
  BY <1>2, SendRoundKeeps DEF Flags
<1>4. Flags(second, last)
  BY <1>3, EnqueueKeeps DEF Flags
<1>5. drive_subscription_catchup(s) =
        IF Room(first) = 0 THEN first
        ELSE IF Room(second) = 0 THEN second
        ELSE [last EXCEPT !.catchup_active = FALSE, !.subscribed = TRUE,
                          !.setup_left = Off, !.continuous = TRUE]
  BY DEF drive_subscription_catchup
<1> HIDE DEF first, begun, second, last
<1>6. Flags(s, second) /\ Flags(s, last)
  BY <1>1, <1>2, <1>3, <1>4 DEF Flags
<1>7. CASE Room(first) = 0
  BY <1>1, <1>5, <1>7
<1>8. CASE Room(first) # 0 /\ Room(second) = 0
  BY <1>5, <1>6, <1>8
<1>9. CASE Room(first) # 0 /\ Room(second) # 0
  <2> DEFINE t == [last EXCEPT !.catchup_active = FALSE, !.subscribed = TRUE,
                               !.setup_left = Off, !.continuous = TRUE]
  <2>1. drive_subscription_catchup(s) = t
    BY <1>5, <1>9
  <2>2. /\ DOMAIN t = DOMAIN FreeSession
        /\ t.phase = last.phase /\ t.peer_uid = last.peer_uid
        /\ t.greeted = last.greeted /\ t.needs_resync = last.needs_resync
        /\ t.hello_left = last.hello_left
        /\ t.snapshot_active = last.snapshot_active
        /\ t.subscribed = TRUE /\ t.catchup_active = FALSE /\ t.continuous = TRUE
    BY <1>6 DEF Flags, FreeSession
  <2> QED
    BY Zenon, <1>6, <2>1, <2>2 DEF Flags
<1> QED
  BY Zenon, <1>7, <1>8, <1>9

\* A reply, or the close when it does not fit.
LEMMA ReplyKeeps ==
  ASSUME NEW s, DOMAIN s = DOMAIN FreeSession, NEW message
  PROVE  LET t == Reply(s, message) IN
         \/ t = client_close(s)
         \/ Flags(s, t) /\ Copy(s, t)
  BY EnqueueKeeps DEF Reply

\* A droppable message: with room nothing else happens, without room the
\* subscription ends and the deadline of the resynchronization starts.
LEMMA OfferKeeps ==
  ASSUME NEW s, DOMAIN s = DOMAIN FreeSession, NEW messages,
         s.phase = "active" => s.greeted, Armed(s),
         Client = "orderly" => ~s.catchup_active
  PROVE  Evolves(s, Offer(s, messages)) /\ Armed(Offer(s, messages))
<1> DEFINE t == Enqueue(s, messages)
<1>1. Flags(s, t) /\ Copy(s, t)
  BY EnqueueKeeps
<1>2. CASE Len(messages) <= Room(s)
  <2>1. Offer(s, messages) = t
    BY <1>2 DEF Offer
  <2> HIDE DEF t
  <2> QED
    BY <1>1, <2>1 DEF Flags, Evolves, Copy, Armed
<1>3. CASE ~(Len(messages) <= Room(s))
  <2> DEFINE u == [t EXCEPT !.needs_resync = TRUE, !.subscribed = FALSE,
                            !.setup_left = SetupBeats]
  <2>1. Offer(s, messages) = u
    BY <1>3 DEF Offer
  <2> HIDE DEF t
  <2>2. /\ u.phase = t.phase /\ u.peer_uid = t.peer_uid
        /\ u.greeted = t.greeted /\ u.subscribed = FALSE
        /\ u.setup_left = SetupBeats
        /\ u.catchup_active = t.catchup_active
        /\ u.snapshot_active = t.snapshot_active /\ Copy(t, u)
    BY <1>1 DEF Flags, Copy, FreeSession
  <2> HIDE DEF u
  <2>3. Evolves(s, u)
    BY <1>1, <2>2 DEF Flags, Copy, Evolves
  <2>4. Armed(u)
    BY <1>1, <2>2, BeatsArmed DEF Flags, Armed
  <2> QED
    BY <2>1, <2>3, <2>4
<1> QED
  BY <1>2, <1>3

\* HELLO replaces the greeting deadline by that of the setup.
LEMMA HelloArmed ==
  ASSUME NEW s, DOMAIN s = DOMAIN FreeSession, s.phase = "active", Armed(s),
         NEW understood
  PROVE  Evolves(s, Hello(s, understood)) /\ Armed(Hello(s, understood))
<1> DEFINE r == Reply(s, Bare("WELCOME"))
           t == [r EXCEPT !.greeted = TRUE, !.hello_left = Off,
                          !.setup_left = SetupBeats]
<1>1. r = client_close(s) \/ (Flags(s, r) /\ Copy(s, r))
  BY ReplyKeeps
<1>2. CASE Hello(s, understood) = client_close(s)
  BY <1>2, CloseArmed
<1>3. CASE Hello(s, understood) # client_close(s)
  <2>1. Hello(s, understood) = t /\ r.phase # "closing"
    BY <1>3 DEF Hello
  <2>2. Flags(s, r) /\ Copy(s, r)
    BY <1>1, <2>1, CloseArmed
  <2> HIDE DEF r
  <2>3. /\ t.phase = r.phase /\ t.peer_uid = r.peer_uid
        /\ t.greeted = TRUE /\ t.setup_left = SetupBeats
        /\ t.subscribed = r.subscribed /\ t.needs_resync = r.needs_resync
        /\ t.catchup_active = r.catchup_active /\ t.continuous = r.continuous
        /\ t.snapshot_active = r.snapshot_active /\ Copy(r, t)
    BY <2>2 DEF Flags, Copy, FreeSession
  <2> HIDE DEF t
  <2>4. Evolves(s, t) /\ Armed(t)
    BY <2>2, <2>3, BeatsArmed DEF Flags, Copy, Evolves, Armed
  <2> QED
    BY <2>1, <2>4
<1> QED
  BY <1>2, <1>3

\* PING and GET_SCHEMA.
LEMMA QueryArmed ==
  ASSUME NEW s, DOMAIN s = DOMAIN FreeSession, Armed(s), NEW type
  PROVE  Evolves(s, Query(s, type)) /\ Armed(Query(s, type))
<1> DEFINE t == Query(s, type)
<1>1. t = client_close(s) \/ (Flags(s, t) /\ Copy(s, t))
  BY ReplyKeeps DEF Query
<1> HIDE DEF t
<1>2. Evolves(s, t) /\ Armed(t)
  BY <1>1, CloseArmed DEF Flags, Copy, Evolves, Armed
<1> QED
  BY <1>2 DEF t

\* One page: the position advances, the copy it is taken from stays.
LEMMA PageKeeps ==
  ASSUME NEW s, DOMAIN s = DOMAIN FreeSession, Armed(s), NEW type, NEW end
  PROVE  Evolves(s, Page(s, type, end)) /\ Armed(Page(s, type, end))
<1> DEFINE message == Message(type, s.snapshot_seq,
                        [i \in s.next_index .. end - 1 |-> s.snapshot[i]])
           r == Reply(s, message)
           t == [r EXCEPT !.next_index = end,
                   !.snapshot_active = end < FrameCount + SignalCount,
                   !.snapshot_complete = end = FrameCount + SignalCount]
<1>1. r = client_close(s) \/ (Flags(s, r) /\ Copy(s, r))
  BY ReplyKeeps
<1>2. Page(s, type, end) = IF r.phase = "closing" THEN r ELSE t
  BY DEF Page
<1> HIDE DEF message, r
<1>3. CASE r = client_close(s)
  BY <1>2, <1>3, CloseArmed
<1>4. CASE Flags(s, r) /\ Copy(s, r)
  <2>1. /\ t.phase = r.phase /\ t.peer_uid = r.peer_uid
        /\ t.greeted = r.greeted /\ t.hello_left = r.hello_left
        /\ t.setup_left = r.setup_left
        /\ t.subscribed = r.subscribed /\ t.needs_resync = r.needs_resync
        /\ t.catchup_active = r.catchup_active /\ t.continuous = r.continuous
        /\ Copy(r, t)
    BY <1>4 DEF Flags, Copy, FreeSession
  <2> HIDE DEF t
  <2>2. Evolves(s, t) /\ Armed(t)
    BY <1>4, <2>1 DEF Flags, Copy, Evolves, Armed
  <2>3. Evolves(s, r) /\ Armed(r)
    BY <1>4 DEF Flags, Copy, Evolves, Armed
  <2> QED
    BY <1>2, <2>2, <2>3
<1> QED
  BY <1>1, <1>3, <1>4

\* GET_SNAPSHOT freezes a new copy only when none is in transfer.
LEMMA GetSnapshotArmed ==
  ASSUME NEW s, DOMAIN s = DOMAIN FreeSession, Armed(s), MayRestart(s),
         NEW start
  PROVE  Evolves(s, GetSnapshot(s, start)) /\ Armed(GetSnapshot(s, start))
<1> DEFINE b == begin_snapshot(s)
           end == PageEnd(start, FramesPerMessage, FrameCount)
           t == GetSnapshot(s, start)
<1>1. /\ DOMAIN b = DOMAIN FreeSession
      /\ b.phase = s.phase /\ b.peer_uid = s.peer_uid
      /\ b.greeted = s.greeted /\ b.hello_left = s.hello_left
      /\ b.setup_left = SetupBeats /\ b.needs_resync = FALSE
      /\ b.subscribed = s.subscribed /\ b.catchup_active = s.catchup_active
  BY Zenon DEF begin_snapshot, FreeSession
<1>2. \/ t = client_close(s)
      \/ t = Page(s, "SNAPSHOT", end)
      \/ ~s.snapshot_active /\ t = Page(b, "SNAPSHOT", end)
  BY DEF GetSnapshot, queue_frame_snapshot_chunk
<1> HIDE DEF b, end, t
<1> SUFFICES Evolves(s, t) /\ Armed(t)
  BY DEF t
<1>3. Armed(b)
  BY <1>1, BeatsArmed DEF Armed, MayRestart
<1>4. CASE t = client_close(s)
  BY <1>4, CloseArmed
<1>5. CASE t = Page(s, "SNAPSHOT", end)
  BY <1>5, PageKeeps
<1>6. CASE ~s.snapshot_active /\ t = Page(b, "SNAPSHOT", end)
  <2>1. Evolves(b, t) /\ Armed(t)
    BY <1>1, <1>3, <1>6, PageKeeps
  <2>2. Evolves(s, t)
    BY <1>1, <1>6, <2>1 DEF Evolves
  <2> QED
    BY <2>1, <2>2
<1> QED
  BY <1>2, <1>4, <1>5, <1>6

\* GET_SIGNAL_SNAPSHOT.
LEMMA GetSignalSnapshotArmed ==
  ASSUME NEW s, DOMAIN s = DOMAIN FreeSession, Armed(s), NEW start
  PROVE  /\ Evolves(s, GetSignalSnapshot(s, start))
         /\ Armed(GetSignalSnapshot(s, start))
<1> DEFINE end == PageEnd(s.next_index, SignalsPerMessage,
                          FrameCount + SignalCount)
<1>1. \/ GetSignalSnapshot(s, start) = client_close(s)
      \/ GetSignalSnapshot(s, start) = Page(s, "SIGNAL_SNAPSHOT_CHUNK", end)
  BY DEF GetSignalSnapshot, queue_signal_snapshot_chunk
<1> HIDE DEF end
<1> QED
  BY <1>1, CloseArmed, PageKeeps

\* A catch-up, begun or resumed, belongs to a session without a transfer.
LEMMA DriveArmed ==
  ASSUME NEW s, DOMAIN s = DOMAIN FreeSession, Armed(s), ~s.snapshot_active,
         s.catchup_active
  PROVE  /\ DOMAIN drive_subscription_catchup(s) = DOMAIN FreeSession
         /\ Evolves(s, drive_subscription_catchup(s))
         /\ Armed(drive_subscription_catchup(s))
<1> DEFINE t == drive_subscription_catchup(s)
<1>1. \/ Flags(s, t)
      \/ /\ DOMAIN t = DOMAIN FreeSession
         /\ t.phase = s.phase /\ t.peer_uid = s.peer_uid
         /\ t.greeted = s.greeted /\ t.needs_resync = s.needs_resync
         /\ t.hello_left = s.hello_left
         /\ t.snapshot_active = s.snapshot_active
         /\ t.subscribed = TRUE /\ t.catchup_active = FALSE /\ t.continuous = TRUE
  BY Zenon, DriveKeeps
<1> HIDE DEF t
<1>2. DOMAIN t = DOMAIN FreeSession /\ Evolves(s, t)
  BY Zenon, <1>1 DEF Flags, Evolves
<1>3. Armed(t)
  BY Zenon, <1>1 DEF Flags, Armed
<1> QED
  BY <1>2, <1>3 DEF t

\* SUBSCRIBE_ALL.
LEMMA SubscribeArmed ==
  ASSUME NEW s, DOMAIN s = DOMAIN FreeSession, Shape(s), Armed(s),
         MaySubscribe(s)
  PROVE  Evolves(s, SubscribeAll(s)) /\ Armed(SubscribeAll(s))
<1> DEFINE a == [s EXCEPT !.catchup_active = TRUE]
           b == begin_catchup_round(a)
<1>1. CASE ~(s.greeted /\ ~s.needs_resync /\ s.snapshot_complete)
  BY <1>1, CloseArmed DEF SubscribeAll
<1>2. CASE s.greeted /\ ~s.needs_resync /\ s.snapshot_complete
  <2>1. SubscribeAll(s) = drive_subscription_catchup(b)
    BY <1>2 DEF SubscribeAll, queue_subscription_catchup
  <2>2. /\ DOMAIN a = DOMAIN FreeSession
        /\ a.phase = s.phase /\ a.peer_uid = s.peer_uid
        /\ a.greeted = s.greeted /\ a.subscribed = s.subscribed
        /\ a.needs_resync = s.needs_resync
        /\ a.hello_left = s.hello_left /\ a.setup_left = s.setup_left
        /\ a.snapshot_active = s.snapshot_active /\ a.catchup_active = TRUE
        /\ a.continuous = s.continuous
    BY DEF FreeSession
  <2> HIDE DEF a
  <2>3. Flags(a, b)
    BY <2>2, BeginRoundKeeps
  <2> HIDE DEF b
  <2>4. ~s.snapshot_active
    BY <1>2 DEF Shape
  <2>5. /\ DOMAIN b = DOMAIN FreeSession
        /\ b.phase = s.phase /\ b.peer_uid = s.peer_uid
        /\ ~b.snapshot_active /\ b.catchup_active
    BY <2>2, <2>3, <2>4 DEF Flags
  <2>6. Armed(b)
    BY <1>2, <2>2, <2>3 DEF Flags, Armed, MaySubscribe
  <2>7. /\ Evolves(b, drive_subscription_catchup(b))
        /\ Armed(drive_subscription_catchup(b))
    BY <2>5, <2>6, DriveArmed
  <2>8. Evolves(s, drive_subscription_catchup(b))
    BY <2>4, <2>5, <2>7 DEF Evolves
  <2> QED
    BY <2>1, <2>7, <2>8
<1> QED
  BY <1>1, <1>2

\* The write callback: the freed slot may resume a catch-up or carry the
\* resync notice.
LEMMA WriteArmed ==
  ASSUME NEW s, DOMAIN s = DOMAIN FreeSession, Shape(s), Armed(s)
  PROVE  Evolves(s, on_client_write(s)) /\ Armed(on_client_write(s))
<1> DEFINE f == [s EXCEPT !.queue = Tail(@), !.view = Apply(@, Head(s.queue))]
           d == IF f.catchup_active THEN drive_subscription_catchup(f) ELSE f
           r == Enqueue(d, <<Bare("RESYNC_REQUIRED")>>)
           t == on_client_write(s)
<1>1. Flags(s, f) /\ Copy(s, f)
  BY DEF Flags, Copy, FreeSession
<1>2. t = d \/ t = [r EXCEPT !.resync_queued = TRUE]
  BY DEF on_client_write, maybe_queue_resync
<1> HIDE DEF f, t
<1> SUFFICES Evolves(s, t) /\ Armed(t)
  BY DEF t
<1>3. Evolves(s, f) /\ Armed(f)
  BY <1>1 DEF Flags, Copy, Evolves, Armed
<1>4. DOMAIN f = DOMAIN FreeSession /\ (f.catchup_active => ~f.snapshot_active)
  BY <1>1 DEF Flags, Shape
<1>5. DOMAIN d = DOMAIN FreeSession /\ Evolves(s, d) /\ Armed(d)
  <2>1. CASE f.catchup_active
    <3>1. /\ DOMAIN d = DOMAIN FreeSession /\ Evolves(f, d) /\ Armed(d)
      BY <1>3, <1>4, <2>1, DriveArmed
    <3> HIDE DEF d
    <3>2. Evolves(s, d)
      BY <1>1, <1>4, <2>1, <3>1 DEF Evolves, Flags
    <3> QED
      BY <3>1, <3>2
  <2>2. CASE ~f.catchup_active
    BY <1>3, <1>4, <2>2
  <2> QED
    BY <2>1, <2>2
<1> HIDE DEF d
<1>6. Flags(d, r) /\ Copy(d, r)
  BY <1>5, EnqueueKeeps
<1> HIDE DEF r
<1>7. Flags(d, [r EXCEPT !.resync_queued = TRUE])
        /\ Copy(d, [r EXCEPT !.resync_queued = TRUE])
  BY <1>6 DEF Flags, Copy, FreeSession
<1>8. t = d \/ (Flags(d, t) /\ Copy(d, t))
  BY Zenon, <1>2, <1>7
<1> QED
  BY <1>5, <1>8 DEF Flags, Copy, Evolves, Armed

\* Elapsing time runs a deadline down to zero and does not disarm it.
LEMMA ElapseArmed ==
  ASSUME NEW left \in Int, left # Off
  PROVE  Elapse(left) # Off
  BY DEF Elapse, Off

\* The heartbeat timer.
LEMMA BeatArmed ==
  ASSUME NEW s, NEW last, IsSession(s, last), Shape(s), Armed(s)
  PROVE  Evolves(s, Beat(s)) /\ Armed(Beat(s))
<1> DEFINE t == [s EXCEPT !.hello_left = Elapse(@), !.setup_left = Elapse(@)]
<1>1. /\ DOMAIN s = DOMAIN FreeSession
      /\ s.hello_left \in Int /\ s.setup_left \in Int
  BY BrokerConstants DEF IsSession, Off
<1>2. /\ DOMAIN t = DOMAIN FreeSession
      /\ t.phase = s.phase /\ t.peer_uid = s.peer_uid
      /\ t.greeted = s.greeted /\ t.subscribed = s.subscribed
      /\ t.needs_resync = s.needs_resync
      /\ t.hello_left = Elapse(s.hello_left)
      /\ t.setup_left = Elapse(s.setup_left)
      /\ t.snapshot_active = s.snapshot_active
      /\ t.catchup_active = s.catchup_active /\ t.continuous = s.continuous
      /\ Copy(s, t)
  BY <1>1 DEF FreeSession, Copy
<1>3. \/ Beat(s) = s
      \/ Beat(s) = client_close(t)
      \/ Beat(s) = t
      \/ /\ Beat(s) = Offer(t, <<Bare("HEARTBEAT")>>)
         /\ t.greeted /\ t.subscribed /\ ~t.needs_resync
  BY DEF Beat
<1> HIDE DEF t
<1>4. Evolves(s, t)
  BY <1>2 DEF Evolves, Copy
<1>5. Armed(t)
  BY <1>1, <1>2, ElapseArmed DEF Armed
<1>6. CASE Beat(s) = s
  BY <1>6 DEF Evolves, Copy
<1>7. CASE Beat(s) = client_close(t)
  <2>1. client_close(t) = client_close(s)
    BY DEF client_close
  <2> QED
    BY <1>7, <2>1, CloseArmed
<1>8. CASE Beat(s) = t
  BY <1>4, <1>5, <1>8
<1>9. CASE /\ Beat(s) = Offer(t, <<Bare("HEARTBEAT")>>)
           /\ t.greeted /\ t.subscribed /\ ~t.needs_resync
  <2>1. Client = "orderly" => ~t.catchup_active
    BY <1>5, <1>9 DEF Armed
  <2>2. /\ Evolves(t, Offer(t, <<Bare("HEARTBEAT")>>))
        /\ Armed(Offer(t, <<Bare("HEARTBEAT")>>))
    BY <1>2, <1>5, <1>9, <2>1, OfferKeeps
  <2> QED
    BY <1>2, <1>9, <2>2 DEF Evolves, Copy
<1> QED
  BY <1>3, <1>6, <1>7, <1>8, <1>9

\* A new sample.
LEMMA BroadcastArmed ==
  ASSUME NEW s, DOMAIN s = DOMAIN FreeSession, Shape(s), Armed(s),
         NEW changed, NEW new
  PROVE  /\ Evolves(s, Broadcast(s, changed, new))
         /\ Armed(Broadcast(s, changed, new))
<1>1. CASE ~(s.phase = "active" /\ s.subscribed /\ ~s.needs_resync)
  BY <1>1 DEF Broadcast, Evolves, Copy
<1>2. CASE s.phase = "active" /\ s.subscribed /\ ~s.needs_resync
  <2>1. s.greeted /\ (Client = "orderly" => ~s.catchup_active)
    BY <1>2 DEF Shape, Armed
  <2> QED
    BY <1>2, <2>1, OfferKeeps DEF Broadcast
<1> QED
  BY <1>1, <1>2

\* A request.
LEMMA RequestArmed ==
  ASSUME NEW c \in Slots, Request(c), DOMAIN clients[c] = DOMAIN FreeSession,
         Shape(clients[c]), Armed(clients[c])
  PROVE  \E t : Step(c, t) /\ Evolves(clients[c], t) /\ Armed(t)
<1> DEFINE s == clients[c]
           Fits(t) == Step(c, t) /\ Evolves(clients[c], t) /\ Armed(t)
<1>1. ASSUME NEW understood \in BOOLEAN, Step(c, Hello(s, understood))
      PROVE  Fits(Hello(s, understood))
  <2>1. s.phase = "active"
    BY <1>1 DEF Step
  <2> QED
    BY <1>1, <2>1, HelloArmed
<1>2. ASSUME NEW start \in Frames, MayRestart(s), Step(c, GetSnapshot(s, start))
      PROVE  Fits(GetSnapshot(s, start))
  BY <1>2, GetSnapshotArmed
<1>3. ASSUME NEW start \in 0 .. SignalCount - 1,
             Step(c, GetSignalSnapshot(s, start))
      PROVE  Fits(GetSignalSnapshot(s, start))
  BY <1>3, GetSignalSnapshotArmed
<1>4. ASSUME MaySubscribe(s), Step(c, SubscribeAll(s))
      PROVE  Fits(SubscribeAll(s))
  BY <1>4, SubscribeArmed
<1>5. ASSUME NEW type, Step(c, Query(s, type))
      PROVE  Fits(Query(s, type))
  BY <1>5, QueryArmed
<1> QED
  BY <1>1, <1>2, <1>3, <1>4, <1>5 DEF Request

-----------------------------------------------------------------------------
(* Every callback. *)

AllArmed == \A c \in Slots : Armed(clients[c])

\* A connection accepted into entry c of the table.
Accepts(c, uid) ==
  /\ clients[c].phase = "free"
  /\ active_clients_for_uid(uid) < MaxClientsPerUid
  /\ clients' = [clients EXCEPT ![c] = Accepted(uid)]

\* Fresh and new entries.
LEMMA NewArmed ==
  /\ Armed(FreeSession) /\ FreeSession.phase = "free"
  /\ ~FreeSession.snapshot_active
  /\ \A uid : /\ Armed(Accepted(uid)) /\ ~Accepted(uid).snapshot_active
              /\ Accepted(uid).peer_uid = uid
  BY BeatsArmed DEF Armed, FreeSession, Accepted

\* Replacing one entry.
LEMMA StepArmed ==
  ASSUME TypeOK, AllArmed, NEW c \in Slots, NEW t, Armed(t),
         Evolves(clients[c], t), clients' = [clients EXCEPT ![c] = t]
  PROVE  AllArmed' /\ \A d \in Slots : Evolves(clients[d], clients'[d])
<1>1. \A d \in Slots : clients'[d] = IF d = c THEN t ELSE clients[d]
  BY DEF TypeOK
<1>2. \A d \in Slots : Armed(clients'[d])
  BY <1>1 DEF AllArmed
<1>3. \A d \in Slots : Evolves(clients[d], clients[d])
  BY DEF Evolves, Copy
<1>4. \A d \in Slots : Evolves(clients[d], clients'[d])
  BY <1>1, <1>3
<1> QED
  BY <1>2, <1>4 DEF AllArmed

\* Replacing them all.
LEMMA RoundArmed ==
  ASSUME \A d \in Slots : Armed(clients'[d]) /\ Evolves(clients[d], clients'[d])
  PROVE  AllArmed' /\ \A d \in Slots : Evolves(clients[d], clients'[d])
  BY DEF AllArmed

\* Every callback keeps the deadlines armed, and it accepts a connection or
\* lets every session evolve.
LEMMA NextArmed ==
  ASSUME Inv, AllArmed, [Next]_vars
  PROVE  /\ AllArmed'
         /\ \/ \A d \in Slots : Evolves(clients[d], clients'[d])
            \/ \E c \in Slots, uid \in Uids : Accepts(c, uid)
<1> DEFINE Goal == /\ AllArmed'
                   /\ \/ \A d \in Slots : Evolves(clients[d], clients'[d])
                      \/ \E c \in Slots, uid \in Uids : Accepts(c, uid)
<1>0. /\ TypeOK
      /\ \A c \in Slots : /\ IsSession(clients[c], change_sequence)
                          /\ DOMAIN clients[c] = DOMAIN FreeSession
                          /\ Shape(clients[c]) /\ Armed(clients[c])
  BY DEF Inv, TypeOK, SessionInv, AllArmed, IsSession, change_sequence
<1>1. ASSUME NEW c \in Slots, NEW uid \in Uids, NEW usable \in BOOLEAN,
             on_connection(c, uid, usable)
      PROVE  Goal
  <2>1. CASE clients' = [clients EXCEPT ![c] = client_close(clients[c])]
    BY Zenon, <1>0, <2>1, CloseArmed, StepArmed
  <2>2. CASE Accepts(c, uid)
    <3>1. \A d \in Slots : Armed(clients'[d])
      BY <1>0, <2>2, NewArmed DEF Accepts, TypeOK
    <3> QED
      BY <2>2, <3>1 DEF AllArmed
  <2> QED
    BY Zenon, <1>1, <2>1, <2>2 DEF on_connection, Accepts, Available
<1>2. ASSUME NEW c \in Slots, on_client_closed(c) PROVE Goal
  <2>1. Evolves(clients[c], FreeSession)
    BY NewArmed DEF Evolves
  <2> QED
    BY Zenon, <1>0, <1>2, <2>1, NewArmed, StepArmed DEF on_client_closed
<1>3. ASSUME NEW c \in Slots, Disconnect(c) PROVE Goal
  BY Zenon, <1>0, <1>3, CloseArmed, StepArmed DEF Disconnect, Step
<1>4. ASSUME NEW c \in Slots, Request(c) PROVE Goal
  <2>1. PICK t : Step(c, t) /\ Evolves(clients[c], t) /\ Armed(t)
    BY <1>0, <1>4, RequestArmed
  <2> QED
    BY Zenon, <1>0, <2>1, StepArmed DEF Step
<1>5. ASSUME NEW c \in Slots, WriteDone(c) PROVE Goal
  <2>1. /\ Evolves(clients[c], on_client_write(clients[c]))
        /\ Armed(on_client_write(clients[c]))
    BY <1>0, WriteArmed
  <2> QED
    BY ZenonT(60), <1>0, <1>5, <2>1, StepArmed DEF WriteDone, Step
<1>6. ASSUME on_heartbeat PROVE Goal
  <2>1. \A c \in Slots : clients'[c] = Beat(clients[c])
    BY <1>6 DEF on_heartbeat
  <2> QED
    BY <1>0, <2>1, BeatArmed, RoundArmed
<1>7. ASSUME distribute_latest_sample PROVE Goal
  <2>1. PICK new : \/ clients' = clients
                   \/ clients' = [c \in Slots |->
                        Broadcast(clients[c], Changed(canon, new), new)]
    BY <1>7 DEF distribute_latest_sample
  <2>2. CASE clients' = clients
    BY <1>0, <2>2, RoundArmed DEF Evolves, Copy
  <2>3. CASE clients' = [c \in Slots |->
                          Broadcast(clients[c], Changed(canon, new), new)]
    <3>1. \A c \in Slots : clients'[c] =
            Broadcast(clients[c], Changed(canon, new), new)
      BY <2>3
    <3> QED
      BY <1>0, <3>1, BroadcastArmed, RoundArmed
  <2> QED
    BY <2>1, <2>2, <2>3
<1>8. ASSUME server_shutdown PROVE Goal
  <2>1. \A c \in Slots : clients'[c] \in {clients[c], client_close(clients[c])}
    BY <1>8 DEF server_shutdown
  <2>2. \A c \in Slots : Evolves(clients[c], clients[c])
    BY DEF Evolves, Copy
  <2> QED
    BY <1>0, <2>1, <2>2, CloseArmed, RoundArmed
<1>9. ASSUME UNCHANGED vars PROVE Goal
  BY <1>0, <1>9, RoundArmed DEF Evolves, Copy, vars
<1> HIDE DEF Goal
<1>10. Goal
  BY <1>1, <1>2, <1>3, <1>4, <1>5, <1>6, <1>7, <1>8, <1>9 DEF Next, Stopped
<1> QED
  BY <1>10 DEF Goal

\* The entries of a user.
ActiveOf(uid) == {c \in Slots : clients[c].phase = "active"
                                  /\ clients[c].peer_uid = uid}

\* The table is finite, so are the entries of a user.
LEMMA ActiveFinite ==
  \A uid : IsFiniteSet(ActiveOf(uid)) /\ Cardinality(ActiveOf(uid)) \in Nat
<1>1. IsFiniteSet(Slots)
  BY BrokerConstants, FS_Interval DEF Slots
<1>2. \A uid : ActiveOf(uid) \subseteq Slots
  BY DEF ActiveOf
<1> QED
  BY <1>1, <1>2, FS_Subset, FS_CardinalityType

\* Only an accepted connection adds an entry to a user, and only below the
\* limit.
LEMMA LimitKept ==
  ASSUME Inv, PerUidLimit,
         \/ \A d \in Slots : Evolves(clients[d], clients'[d])
         \/ \E c \in Slots, uid \in Uids : Accepts(c, uid)
  PROVE  PerUidLimit'
<1> SUFFICES ASSUME NEW uid \in Uids
             PROVE  Cardinality(ActiveOf(uid)') <= MaxClientsPerUid
  BY DEF PerUidLimit, active_clients_for_uid, ActiveOf
<1> DEFINE old == ActiveOf(uid)
           new == {c \in Slots : clients'[c].phase = "active"
                                   /\ clients'[c].peer_uid = uid}
<1>0. /\ ActiveOf(uid)' = new /\ IsFiniteSet(old) /\ Cardinality(old) \in Nat
      /\ Cardinality(old) <= MaxClientsPerUid /\ MaxClientsPerUid \in Nat
      /\ DOMAIN clients = Slots
  BY Zenon, ActiveFinite, BrokerConstants
     DEF ActiveOf, PerUidLimit, active_clients_for_uid, Inv, TypeOK
<1>1. CASE new \subseteq old
  <2>1. IsFiniteSet(new) /\ Cardinality(new) <= Cardinality(old)
          /\ Cardinality(new) \in Nat
    BY <1>0, <1>1, FS_Subset, FS_CardinalityType
  <2> QED
    BY <1>0, <2>1
<1>2. CASE \A d \in Slots : Evolves(clients[d], clients'[d])
  <2>1. new \subseteq old
    BY <1>2 DEF Evolves, ActiveOf
  <2> QED
    BY <1>1, <2>1
<1>3. ASSUME NEW c \in Slots, NEW u \in Uids, Accepts(c, u)
      PROVE  Cardinality(ActiveOf(uid)') <= MaxClientsPerUid
  <2>1. /\ \A d \in Slots : clients'[d] =
             IF d = c THEN Accepted(u) ELSE clients[d]
        /\ Accepted(u).peer_uid = u /\ c \notin old
    BY <1>0, <1>3, NewArmed DEF Accepts, ActiveOf
  <2>2. CASE u # uid
    <3>1. new \subseteq old
      BY <2>1, <2>2 DEF ActiveOf
    <3> QED
      BY <1>1, <3>1
  <2>3. CASE u = uid
    <3>1. new \subseteq old \cup {c}
      BY <2>1 DEF ActiveOf
    <3>2. /\ IsFiniteSet(old \cup {c})
          /\ Cardinality(old \cup {c}) = Cardinality(old) + 1
      BY <1>0, <2>1, FS_AddElement
    <3>3. Cardinality(old) < MaxClientsPerUid
      BY <1>3, <2>3 DEF Accepts, active_clients_for_uid, ActiveOf
    <3>4. /\ IsFiniteSet(new) /\ Cardinality(new) \in Nat
          /\ Cardinality(new) <= Cardinality(old \cup {c})
      BY <3>1, <3>2, FS_Subset, FS_CardinalityType
    <3> QED
      BY <1>0, <3>2, <3>3, <3>4
  <2> QED
    BY <2>2, <2>3
<1> QED
  BY <1>2, <1>3

\* The table starts empty.
LEMMA InitArmed == Init => AllArmed /\ PerUidLimit
<1> SUFFICES ASSUME Init PROVE AllArmed /\ PerUidLimit
  OBVIOUS
<1>1. AllArmed
  BY NewArmed DEF Init, AllArmed
<1>2. \A uid : ActiveOf(uid) = {}
  BY NewArmed DEF Init, ActiveOf
<1>3. PerUidLimit
  BY <1>2, FS_EmptySet, BrokerConstants
     DEF PerUidLimit, active_clients_for_uid, ActiveOf
<1> QED
  BY <1>1, <1>3

\* Every callback keeps the frozen copy of a snapshot in transfer.
LEMMA StepFrozen ==
  ASSUME Inv, AllArmed, [Next]_vars, NEW c \in Slots,
         clients[c].snapshot_active, clients'[c].snapshot_active
  PROVE  /\ clients'[c].snapshot = clients[c].snapshot
         /\ clients'[c].snapshot_seq = clients[c].snapshot_seq
<1>1. CASE \A d \in Slots : Evolves(clients[d], clients'[d])
  BY <1>1 DEF Evolves, Copy
<1>2. CASE \E b \in Slots, uid \in Uids : Accepts(b, uid)
  <2>1. PICK b \in Slots, uid \in Uids : Accepts(b, uid)
    BY <1>2
  <2>2. clients'[c] = IF c = b THEN Accepted(uid) ELSE clients[c]
    BY <2>1 DEF Accepts, Inv, TypeOK
  <2> QED
    BY <2>2, NewArmed
<1> QED
  BY <1>1, <1>2, NextArmed
-----------------------------------------------------------------------------
(* What SUBSCRIBED and HEARTBEAT report. *)

Markers == {"SUBSCRIBED", "HEARTBEAT"}

\* MarkersTruthful for every position of a queue.
Marked(s, h) ==
  \A k \in 1 .. Len(s.queue) : s.queue[k].type \in Markers =>
    \A i \in Items :
      Reaches(s.queue, k - 1, s.view, i, h[s.queue[k].seq + 1][i])

\* For an orderly client, a catch-up in progress excludes a subscription and
\* an owed resynchronization, and nothing is missed under a subscription.
Exclusive(s) ==
  /\ s.catchup_active => ~s.subscribed /\ ~s.needs_resync
  /\ s.subscribed => s.continuous

\* From s to t, messages that report nothing are queued.
Plain(s, t) ==
  /\ t.view = s.view
  /\ Len(s.queue) <= Len(t.queue)
  /\ \A k \in 1 .. Len(s.queue) : t.queue[k] = s.queue[k]
  /\ \A k \in 1 .. Len(t.queue) :
       k > Len(s.queue) => t.queue[k].type \notin Markers

\* Likewise, and then a message that reports the current state.
Reports(s, t) ==
  /\ t.view = s.view
  /\ Len(s.queue) < Len(t.queue)
  /\ \A k \in 1 .. Len(s.queue) : t.queue[k] = s.queue[k]
  /\ \A k \in 1 .. Len(t.queue) - 1 :
       k > Len(s.queue) => t.queue[k].type \notin Markers
  /\ t.queue[Len(t.queue)].seq = change_sequence
  /\ DOMAIN t.queue[Len(t.queue)].items = {}
  /\ Live(t)

Tells(s, t) == t.queue = <<>> \/ Plain(s, t) \/ Reports(s, t)

-----------------------------------------------------------------------------
(* Markers in a queue. *)

\* Nothing queued is nothing reported.
LEMMA PlainRefl ==
  ASSUME NEW last, NEW s, IsSession(s, last), NEW t,
         t.queue = s.queue, t.view = s.view
  PROVE  Plain(s, t)
<1>1. Len(s.queue) \in Nat
  BY RoomType
<1> QED
  BY <1>1 DEF Plain

\* Queueing in two goes.
LEMMA PlainTrans ==
  ASSUME NEW last, NEW s, IsSession(s, last), NEW t, IsSession(t, last),
         NEW u, IsSession(u, last), Plain(s, t)
  PROVE  /\ Plain(t, u) => Plain(s, u)
         /\ Reports(t, u) => Reports(s, u)
<1>1. Len(s.queue) \in Nat /\ Len(t.queue) \in Nat /\ Len(u.queue) \in Nat
  BY RoomType
<1>2. Plain(t, u) => Plain(s, u)
  BY <1>1 DEF Plain
<1>3. Reports(t, u) => Reports(s, u)
  BY <1>1 DEF Plain, Reports
<1> QED
  BY <1>2, <1>3

\* client_queue_message with messages of other types.
LEMMA EnqueuePlain ==
  ASSUME NEW last, NEW s, IsSession(s, last),
         NEW messages \in Seq(Messages(last)),
         \A k \in 1 .. Len(messages) : messages[k].type \notin Markers
  PROVE  Plain(s, Enqueue(s, messages))
<1> DEFINE t == Enqueue(s, messages)
<1>1. t.view = s.view
  BY EnqueueGrows DEF Kept
<1>2. PICK n \in Nat : Grown(s, t.queue, messages, n)
  BY EnqueueGrows
<1>3. Len(s.queue) \in Nat
  BY RoomType
<1> HIDE DEF t
<1>4. ASSUME NEW k \in 1 .. Len(t.queue), k > Len(s.queue)
      PROVE  t.queue[k].type \notin Markers
  <2>1. k - Len(s.queue) \in 1 .. n /\ k - Len(s.queue) \in 1 .. Len(messages)
    BY <1>2, <1>3, <1>4 DEF Grown
  <2>2. t.queue[Len(s.queue) + (k - Len(s.queue))] = messages[k - Len(s.queue)]
    BY <1>2, <2>1 DEF Grown
  <2>3. Len(s.queue) + (k - Len(s.queue)) = k
    BY <1>3, <1>4
  <2> QED
    BY <2>1, <2>2, <2>3
<1>5. Plain(s, t)
  BY <1>1, <1>2, <1>3, <1>4 DEF Plain, Grown
<1> QED
  BY <1>5 DEF t

\* The batches of an update or of a round.
LEMMA BatchTypes ==
  ASSUME NEW P \in SUBSET Items, NEW values, NEW seq,
         NEW k \in 1 .. BatchCount(P)
  PROVE  Batches(P, values, seq)[k].type \notin Markers
  BY DEF Batches, Message, Markers

\* What was queued before keeps what comes before it.
LEMMA PrefixMarked ==
  ASSUME NEW s, NEW t, NEW h, Len(s.queue) \in Nat, t.view = s.view,
         \A k \in 1 .. Len(s.queue) : t.queue[k] = s.queue[k], Marked(s, h),
         NEW k \in 1 .. Len(s.queue), t.queue[k].type \in Markers,
         NEW i \in Items
  PROVE  Reaches(t.queue, k - 1, t.view, i, h[t.queue[k].seq + 1][i])
<1>1. t.queue[k] = s.queue[k] /\ \A j \in 1 .. k - 1 : t.queue[j] = s.queue[j]
  OBVIOUS
<1>2. Reaches(s.queue, k - 1, s.view, i, h[s.queue[k].seq + 1][i])
  BY <1>1 DEF Marked
<1>3. k - 1 \in Nat /\ k - 1 <= k - 1
  OBVIOUS
<1>4. \A j \in (k - 1) + 1 .. k - 1 : ~Mentions(t.queue[j], i)
  BY <1>3
<1>5. Reaches(t.queue, k - 1, s.view, i, h[s.queue[k].seq + 1][i])
  BY ZenonT(60), <1>1, <1>2, <1>3, <1>4, ReachesKept
<1> QED
  BY <1>1, <1>5

\* Messages of other types report nothing.
LEMMA PlainMarked ==
  ASSUME NEW s, NEW t, NEW h, Len(s.queue) \in Nat, Len(t.queue) \in Nat,
         Plain(s, t), Marked(s, h)
  PROVE  Marked(t, h)
<1>1. \A k \in 1 .. Len(t.queue) : t.queue[k].type \in Markers =>
        k \in 1 .. Len(s.queue)
  BY DEF Plain
<1>2. /\ t.view = s.view
      /\ \A k \in 1 .. Len(s.queue) : t.queue[k] = s.queue[k]
  BY DEF Plain
<1> QED
  BY ZenonT(60), <1>1, <1>2, PrefixMarked DEF Marked

\* What a callback tells is truthful: the invariant of the session after the
\* callback covers a live one.
LEMMA TellsMarked ==
  ASSUME Inv, Client = "orderly", NEW s, IsSession(s, change_sequence),
         NEW t, IsSession(t, change_sequence),
         SessionInv(t, history, canon), Marked(s, history), Tells(s, t)
  PROVE  Marked(t, history)
<1>0. /\ Len(s.queue) \in Nat /\ Len(t.queue) \in Nat
      /\ change_sequence \in Nat /\ Mirrors(canon, history, change_sequence)
  BY RoomType, InvFacts
<1>1. CASE t.queue = <<>>
  BY <1>1 DEF Marked
<1>2. CASE Plain(s, t)
  BY <1>0, <1>2, PlainMarked
<1>3. CASE Reports(s, t)
  <2> DEFINE n == Len(t.queue)
  <2>1. \A k \in 1 .. n : t.queue[k].type \in Markers =>
          k \in 1 .. Len(s.queue) \/ k = n
    BY <1>0, <1>3 DEF Reports
  <2>2. n \in 1 .. n /\ n - 1 \in Nat
    BY <1>0, <1>3 DEF Reports
  <2>3. ASSUME NEW i \in Items
        PROVE  Reaches(t.queue, n - 1, t.view, i,
                       history[t.queue[n].seq + 1][i])
    <3>1. Reaches(t.queue, n, t.view, i, canon[i])
      BY <1>3 DEF SessionInv, Coverage, Reports, Arrives
    <3>2. ~Mentions(t.queue[n], i) /\ t.queue[n].seq = change_sequence
      BY <1>3 DEF Reports, Mentions
    <3>3. Reaches(t.queue, n - 1, t.view, i, canon[i])
      BY <2>2, <3>1, <3>2 DEF Reaches
    <3>4. Same(i, canon[i], history[change_sequence + 1][i])
      BY <1>0 DEF Mirrors
    <3>5. Reaches(t.queue, n - 1, t.view, i, history[change_sequence + 1][i])
      BY <2>2, <3>3, <3>4, ReachesSame
    <3> QED
      BY <3>2, <3>5
  <2>4. /\ t.view = s.view
        /\ \A k \in 1 .. Len(s.queue) : t.queue[k] = s.queue[k]
    BY <1>3 DEF Reports
  <2> QED
    BY ZenonT(60), <1>0, <2>1, <2>3, <2>4, PrefixMarked DEF Marked
<1> QED
  BY <1>1, <1>2, <1>3 DEF Tells

-----------------------------------------------------------------------------
(* One callback and the markers. *)

\* A single message of another type.
LEMMA OnePlain ==
  ASSUME NEW last, NEW s, IsSession(s, last), NEW message \in Messages(last),
         message.type \notin Markers
  PROVE  Plain(s, Enqueue(s, <<message>>))
<1>1. /\ <<message>> \in Seq(Messages(last)) /\ Len(<<message>>) = 1
      /\ <<message>>[1] = message
  BY SingleSeq
<1>2. \A k \in 1 .. Len(<<message>>) : <<message>>[k].type \notin Markers
  BY <1>1
<1> QED
  BY ZenonT(60), <1>1, <1>2, EnqueuePlain

\* A reply of another type.
LEMMA ReplyTells ==
  ASSUME NEW last \in Nat, NEW s, IsSession(s, last),
         NEW message \in Messages(last), message.type \notin Markers
  PROVE  LET t == Reply(s, message) IN t.queue = <<>> \/ Plain(s, t)
<1>1. client_close(s).queue = <<>>
  BY DEF client_close, FreeSession
<1> QED
  BY <1>1, OnePlain DEF Reply

\* HELLO, PING and GET_SCHEMA.
LEMMA AnswersTell ==
  ASSUME change_sequence \in Nat, NEW s, IsSession(s, change_sequence)
  PROVE  /\ \A understood : Tells(s, Hello(s, understood))
         /\ \A type \in {"PONG", "SCHEMA_CHUNK"} : Tells(s, Query(s, type))
<1>1. client_close(s).queue = <<>>
  BY DEF client_close, FreeSession
<1>2. \A type \in {"WELCOME", "PONG", "SCHEMA_CHUNK"} :
        /\ Bare(type) \in Messages(change_sequence)
        /\ Bare(type).type \notin Markers
  BY BareMessage DEF Types, Markers
<1>3. \A type \in {"PONG", "SCHEMA_CHUNK"} : Tells(s, Query(s, type))
  BY <1>1, <1>2, ReplyTells DEF Query, Tells
<1>4. ASSUME NEW understood PROVE Tells(s, Hello(s, understood))
  <2> DEFINE r == Reply(s, Bare("WELCOME"))
             t == [r EXCEPT !.greeted = TRUE, !.hello_left = Off,
                            !.setup_left = SetupBeats]
  <2>1. Hello(s, understood) \in {client_close(s), t}
    BY DEF Hello
  <2>2. /\ r.queue = <<>> \/ Plain(s, r)
        /\ IsSession(r, change_sequence)
    BY <1>2, ReplyTells, ReplyTyped
  <2> HIDE DEF r
  <2>3. t.queue = r.queue /\ t.view = r.view
    BY <2>2 DEF IsSession, FreeSession
  <2> HIDE DEF t
  <2>4. Tells(s, t)
    BY <2>2, <2>3 DEF Tells, Plain
  <2> QED
    BY <1>1, <2>1, <2>4 DEF Tells
<1> QED
  BY <1>3, <1>4

\* A page of a snapshot.
LEMMA PageTells ==
  ASSUME NEW last \in Nat, NEW s, IsSession(s, last),
         NEW type \in {"SNAPSHOT", "SIGNAL_SNAPSHOT_CHUNK"},
         NEW end \in 0 .. FrameCount + SignalCount
  PROVE  Page(s, type, end).queue = <<>> \/ Plain(s, Page(s, type, end))
<1> DEFINE b == PageOf(s, type, end)
           r == Reply(s, b)
           t == [r EXCEPT !.next_index = end,
                          !.snapshot_active = end < FrameCount + SignalCount,
                          !.snapshot_complete = end = FrameCount + SignalCount]
<1>1. type \in Types /\ type \notin Markers
  BY DEF Types, Markers
<1>2. Page(s, type, end) \in {r, t}
  BY DEF Page, PageOf
<1>3. b.type = type
  BY DEF PageOf, Message
<1>4. b \in Messages(last) /\ b.type \notin Markers
  <2>1. PageOf(s, type, end) \in Messages(last)
    BY ZenonT(60), <1>1, PageMessage
  <2> QED
    BY ZenonT(60), <1>1, <1>3, <2>1
<1> HIDE DEF b
<1>5. (r.queue = <<>> \/ Plain(s, r)) /\ IsSession(r, last)
  BY <1>4, ReplyTells, ReplyTyped
<1> HIDE DEF r
<1>6. t.queue = r.queue /\ t.view = r.view
  BY <1>5 DEF IsSession, FreeSession
<1> HIDE DEF t
<1>7. t.queue = <<>> \/ Plain(s, t)
  BY <1>5, <1>6 DEF Plain
<1> QED
  BY <1>2, <1>5, <1>7

\* GET_SNAPSHOT and GET_SIGNAL_SNAPSHOT.
LEMMA SnapshotsTell ==
  ASSUME change_sequence \in Nat, canon \in [Items -> Values],
         NEW s, IsSession(s, change_sequence)
  PROVE  /\ \A start \in Frames : Tells(s, GetSnapshot(s, start))
         /\ \A start \in 0 .. SignalCount - 1 :
              Tells(s, GetSignalSnapshot(s, start))
<1>0. client_close(s).queue = <<>> /\ s.next_index \in Nat
  BY BrokerConstants DEF client_close, FreeSession, IsSession
<1>1. ASSUME NEW start \in Frames PROVE Tells(s, GetSnapshot(s, start))
  <2> DEFINE b == begin_snapshot(s)
             end == PageEnd(start, FramesPerMessage, FrameCount)
  <2>1. end \in 0 .. FrameCount + SignalCount
    BY BrokerConstants, PageEndType DEF Frames
  <2>2. GetSnapshot(s, start) \in {client_close(s), Page(s, "SNAPSHOT", end),
                                   Page(b, "SNAPSHOT", end)}
    BY DEF GetSnapshot, queue_frame_snapshot_chunk
  <2>3. IsSession(b, change_sequence)
    BY BeginSnapshotTyped
  <2>4. b.queue = s.queue /\ b.view = s.view
    BY DEF begin_snapshot, IsSession, FreeSession
  <2> HIDE DEF b, end
  <2>5. \/ Page(b, "SNAPSHOT", end).queue = <<>>
        \/ Plain(b, Page(b, "SNAPSHOT", end))
    BY <2>1, <2>3, PageTells
  <2>6. \/ Page(s, "SNAPSHOT", end).queue = <<>>
        \/ Plain(s, Page(s, "SNAPSHOT", end))
    BY <2>1, PageTells
  <2>7. Plain(b, Page(b, "SNAPSHOT", end)) => Plain(s, Page(b, "SNAPSHOT", end))
    BY <2>4 DEF Plain
  <2> QED
    BY <1>0, <2>2, <2>5, <2>6, <2>7 DEF Tells
<1>2. ASSUME NEW start \in 0 .. SignalCount - 1
      PROVE  Tells(s, GetSignalSnapshot(s, start))
  <2> DEFINE end == PageEnd(s.next_index, SignalsPerMessage,
                            FrameCount + SignalCount)
  <2>1. end \in 0 .. FrameCount + SignalCount
    <3>1. FrameCount + SignalCount \in Nat
      BY BrokerConstants
    <3> QED
      BY ZenonT(60), <1>0, <3>1, BrokerConstants, PageEndType
  <2>2. GetSignalSnapshot(s, start) \in
          {client_close(s), Page(s, "SIGNAL_SNAPSHOT_CHUNK", end)}
    BY DEF GetSignalSnapshot, queue_signal_snapshot_chunk
  <2> HIDE DEF end
  <2> QED
    BY <1>0, <2>1, <2>2, PageTells DEF Tells
<1> QED
  BY <1>1, <1>2

\* One round of a catch-up.
LEMMA RoundPlain ==
  ASSUME NEW last \in Nat, NEW s, IsSession(s, last)
  PROVE  Plain(s, SendRound(s)) /\ SendRound(s).needs_resync = s.needs_resync
<1> DEFINE B == Batches(s.pending, s.snapshot, s.catchup_seq)
           t == Enqueue(s, B)
<1>1. /\ s.pending \in SUBSET Items /\ s.snapshot \in [Items -> Known]
      /\ s.catchup_seq \in 0 .. last
  BY DEF IsSession
<1>2. B \in Seq(Messages(last)) /\ Len(B) = BatchCount(s.pending)
  BY <1>1, BatchesTyped
<1>3. \A k \in 1 .. Len(B) : B[k].type \notin Markers
  BY <1>1, <1>2, BatchTypes
<1>4. SendRound(s) = [t EXCEPT !.pending = {i \in @ : BatchOf(@, i) > Room(s)}]
  BY DEF SendRound
<1> HIDE DEF B
<1>5. Plain(s, t) /\ IsSession(t, last) /\ t.needs_resync = s.needs_resync
  BY <1>2, <1>3, EnqueuePlain, EnqueueTyped, EnqueueGrows DEF Kept
<1> HIDE DEF t
<1>6. /\ SendRound(s).queue = t.queue /\ SendRound(s).view = t.view
      /\ SendRound(s).needs_resync = t.needs_resync
  BY <1>4, <1>5 DEF IsSession, FreeSession
<1> QED
  BY <1>5, <1>6 DEF Plain

\* SUBSCRIBED or HEARTBEAT, queued for a session that is then live.
LEMMA MarkerReports ==
  ASSUME change_sequence \in Nat, NEW s, IsSession(s, change_sequence),
         Room(s) # 0, NEW type \in Markers, NEW t,
         t.queue = Enqueue(s, <<Bare(type)>>).queue, t.view = s.view, Live(t)
  PROVE  Reports(s, t)
<1>1. /\ Bare(type) \in Messages(change_sequence)
      /\ DOMAIN Bare(type).items = {} /\ Bare(type).seq = change_sequence
  BY BareMessage DEF Types, Markers
<1>2. /\ <<Bare(type)>> \in Seq(Messages(change_sequence))
      /\ Len(<<Bare(type)>>) = 1 /\ <<Bare(type)>>[1] = Bare(type)
  BY <1>1, SingleSeq
<1>3. PICK n \in Nat : Grown(s, t.queue, <<Bare(type)>>, n)
  BY ZenonT(60), <1>2, EnqueueGrows
<1>4. Len(s.queue) \in Nat /\ n = 1
  BY <1>2, <1>3, RoomType DEF Grown
<1>5. /\ Len(t.queue) = Len(s.queue) + 1
      /\ t.queue[Len(s.queue) + 1] = Bare(type)
      /\ \A k \in 1 .. Len(s.queue) : t.queue[k] = s.queue[k]
  BY <1>2, <1>3, <1>4 DEF Grown
<1> QED
  BY <1>1, <1>4, <1>5 DEF Reports

\* A catch-up, begun or resumed: SUBSCRIBED is the last message of the last
\* round.
LEMMA DriveTells ==
  ASSUME change_sequence \in Nat, canon \in [Items -> Values],
         NEW s, IsSession(s, change_sequence), ~s.needs_resync
  PROVE  LET t == drive_subscription_catchup(s) IN Plain(s, t) \/ Reports(s, t)
<1> DEFINE first == SendRound(s)
           begun == begin_catchup_round(first)
           second == SendRound(begun)
           e == Enqueue(second, <<Bare("SUBSCRIBED")>>)
           t == [e EXCEPT !.catchup_active = FALSE, !.subscribed = TRUE,
                          !.setup_left = Off, !.continuous = TRUE]
<1>1. drive_subscription_catchup(s) =
        IF Room(first) = 0 THEN first ELSE IF Room(second) = 0 THEN second
        ELSE t
  BY DEF drive_subscription_catchup
<1>2. Plain(s, first) /\ IsSession(first, change_sequence)
        /\ first.needs_resync = s.needs_resync
  BY RoundPlain, SendRoundTyped
<1> HIDE DEF first
<1>3. /\ IsSession(begun, change_sequence)
      /\ begun.needs_resync = first.needs_resync
      /\ begun.queue = first.queue /\ begun.view = first.view
  BY ZenonT(60), <1>2, BeginRoundTyped
     DEF begin_catchup_round, IsSession, FreeSession
<1>4. Plain(s, begun)
  BY <1>2, <1>3 DEF Plain
<1> HIDE DEF begun
<1>5. Plain(begun, second) /\ IsSession(second, change_sequence)
        /\ second.needs_resync = begun.needs_resync
  BY <1>3, RoundPlain, SendRoundTyped
<1> HIDE DEF second
<1>6. Plain(s, second)
  BY <1>3, <1>4, <1>5, PlainTrans
<1>7. CASE Room(first) # 0 /\ Room(second) # 0
  <2>1. Bare("SUBSCRIBED") \in Messages(change_sequence)
    BY BareMessage DEF Types
  <2>2. <<Bare("SUBSCRIBED")>> \in Seq(Messages(change_sequence))
    BY <2>1, SingleSeq
  <2>3. IsSession(e, change_sequence) /\ Kept(second, e)
    BY Zenon, <1>5, <2>2, EnqueueTyped, EnqueueGrows
  <2>4. IsSession(t, change_sequence)
    BY ZenonT(60), <1>5, SubscribedTyped
  <2>5. t.queue = e.queue /\ t.view = second.view /\ Live(t)
    BY <1>2, <1>3, <1>5, <2>3 DEF Kept, Live, IsSession, FreeSession
  <2>6. e.queue = Enqueue(second, <<Bare("SUBSCRIBED")>>).queue
    OBVIOUS
  <2> HIDE DEF e, t
  <2>7. Reports(second, t)
    BY <1>5, <1>7, <2>5, <2>6, MarkerReports DEF Markers
  <2>8. Reports(s, t)
    BY <1>5, <1>6, <2>4, <2>7, PlainTrans
  <2> QED
    BY <1>1, <1>7, <2>8
<1> HIDE DEF t
<1> QED
  BY <1>1, <1>2, <1>6, <1>7

\* SUBSCRIBE_ALL.
LEMMA SubscribeTells ==
  ASSUME change_sequence \in Nat, canon \in [Items -> Values],
         NEW s, IsSession(s, change_sequence)
  PROVE  Tells(s, SubscribeAll(s))
<1> DEFINE a == [s EXCEPT !.catchup_active = TRUE]
           b == begin_catchup_round(a)
<1>1. CASE ~(s.greeted /\ ~s.needs_resync /\ s.snapshot_complete)
  BY <1>1 DEF SubscribeAll, client_close, FreeSession, Tells
<1>2. CASE s.greeted /\ ~s.needs_resync /\ s.snapshot_complete
  <2>1. SubscribeAll(s) = drive_subscription_catchup(b)
    BY <1>2 DEF SubscribeAll, queue_subscription_catchup
  <2>2. IsSession(a, change_sequence)
    BY DEF IsSession, FreeSession
  <2>3. a.queue = s.queue /\ a.view = s.view /\ a.needs_resync = s.needs_resync
    BY DEF IsSession, FreeSession
  <2> HIDE DEF a
  <2>4. /\ IsSession(b, change_sequence)
        /\ b.queue = a.queue /\ b.view = a.view
        /\ b.needs_resync = a.needs_resync
    BY ZenonT(60), <2>2, BeginRoundTyped
       DEF begin_catchup_round, IsSession, FreeSession
  <2> HIDE DEF b
  <2>5. LET t == drive_subscription_catchup(b) IN Plain(b, t) \/ Reports(b, t)
    BY <1>2, <2>3, <2>4, DriveTells
  <2> QED
    BY <2>1, <2>3, <2>4, <2>5 DEF Tells, Plain, Reports
<1> QED
  BY <1>1, <1>2


\* What freeing a slot does to the fields that matter here.
LEMMA FreedQueue ==
  ASSUME NEW last, NEW s, IsSession(s, last), s.queue # <<>>
  PROVE  LET f == Freed(s) IN
         /\ f.queue = Tail(s.queue) /\ f.view = Apply(s.view, Head(s.queue))
         /\ f.needs_resync = s.needs_resync
         /\ f.catchup_active = s.catchup_active
  BY DEF Freed, IsSession, FreeSession

\* A message leaves the queue for the view.
LEMMA FreedMarked ==
  ASSUME NEW last, NEW s, IsSession(s, last), s.queue # <<>>, NEW h,
         Marked(s, h)
  PROVE  Marked(Freed(s), h)
<1> DEFINE f == Freed(s)
<1>1. /\ f.queue = Tail(s.queue) /\ f.view = Apply(s.view, Head(s.queue))
      /\ s.queue \in Seq(Messages(last))
  BY FreedQueue, RoomType
<1> HIDE DEF f
<1>2. /\ Len(s.queue) \in Nat /\ Len(f.queue) = Len(s.queue) - 1
      /\ \A k \in 1 .. Len(f.queue) : f.queue[k] = s.queue[k + 1]
  BY <1>1
<1>3. ASSUME NEW k \in 1 .. Len(f.queue), f.queue[k].type \in Markers,
             NEW i \in Items
      PROVE  Reaches(f.queue, k - 1, f.view, i, h[f.queue[k].seq + 1][i])
  <2>1. /\ k + 1 \in 1 .. Len(s.queue) /\ k \in 1 .. Len(s.queue)
        /\ (k + 1) - 1 = k /\ f.queue[k] = s.queue[k + 1]
    BY <1>2
  <2>2. Reaches(s.queue, k, s.view, i, h[s.queue[k + 1].seq + 1][i])
    BY <1>3, <2>1 DEF Marked
  <2> QED
    BY <1>1, <2>1, <2>2, ReachesTail
<1>4. Marked(f, h)
  BY <1>3 DEF Marked
<1> QED
  BY <1>4 DEF f

\* The write callback, after the slot is freed.
LEMMA WriteTells ==
  ASSUME change_sequence \in Nat, canon \in [Items -> Values],
         NEW s, IsSession(s, change_sequence), s.queue # <<>>,
         s.catchup_active => ~s.needs_resync
  PROVE  Tells(Freed(s), on_client_write(s))
<1> DEFINE f == Freed(s)
           d == IF f.catchup_active THEN drive_subscription_catchup(f) ELSE f
           r == Enqueue(d, <<Bare("RESYNC_REQUIRED")>>)
           t == [r EXCEPT !.resync_queued = TRUE]
<1>1. on_client_write(s) = maybe_queue_resync(d)
  BY DEF on_client_write, Freed
<1>2. IsSession(f, change_sequence) /\ (f.catchup_active => ~f.needs_resync)
  BY FreedTyped, FreedQueue
<1> HIDE DEF f
<1>3. IsSession(d, change_sequence) /\ (Plain(f, d) \/ Reports(f, d))
  BY <1>2, DriveTyped, DriveTells, PlainRefl
<1> HIDE DEF d
<1>4. CASE on_client_write(s) = d
  BY <1>3, <1>4 DEF Tells, f
<1>5. CASE on_client_write(s) # d
  <2>1. on_client_write(s) = t /\ d.needs_resync
    BY <1>1, <1>5 DEF maybe_queue_resync
  <2>2. Plain(f, d)
    BY <1>3, <2>1 DEF Reports, Live
  <2>3. /\ Bare("RESYNC_REQUIRED") \in Messages(change_sequence)
        /\ Bare("RESYNC_REQUIRED").type \notin Markers
    BY BareMessage DEF Types, Markers
  <2>4. Plain(d, r)
    BY <1>3, <2>3, OnePlain
  <2>5. IsSession(r, change_sequence)
    BY ZenonT(60), <1>3, <2>3, SingleSeq, EnqueueTyped
  <2> HIDE DEF r
  <2>6. Plain(f, r)
    BY <1>2, <1>3, <2>2, <2>4, <2>5, PlainTrans
  <2>7. t.queue = r.queue /\ t.view = r.view
    BY <2>5 DEF IsSession, FreeSession
  <2> HIDE DEF t
  <2>8. Plain(f, t)
    BY <2>6, <2>7 DEF Plain
  <2> QED
    BY <2>1, <2>8 DEF Tells, f
<1> QED
  BY <1>4, <1>5

\* The heartbeat timer: HEARTBEAT goes to live sessions of an orderly client.
LEMMA BeatTells ==
  ASSUME change_sequence \in Nat, Client = "orderly",
         NEW s, IsSession(s, change_sequence), Exclusive(s)
  PROVE  Tells(s, Beat(s))
<1> DEFINE t == [s EXCEPT !.hello_left = Elapse(@), !.setup_left = Elapse(@)]
           e == Enqueue(t, <<Bare("HEARTBEAT")>>)
           o == Offer(t, <<Bare("HEARTBEAT")>>)
<1>1. \/ Beat(s) = s \/ Beat(s) = t \/ Beat(s) = client_close(t)
      \/ Beat(s) = o /\ t.subscribed /\ ~t.needs_resync
  BY DEF Beat
<1>2. IsSession(t, change_sequence)
  <2>1. /\ s.hello_left \in Off .. HelloBeats
        /\ s.setup_left \in Off .. SetupBeats
    BY DEF IsSession
  <2>2. /\ Elapse(s.hello_left) \in Off .. HelloBeats
        /\ Elapse(s.setup_left) \in Off .. SetupBeats
    BY <2>1, BrokerConstants DEF Elapse, Off
  <2> QED
    BY <2>2 DEF IsSession, FreeSession
<1>3. /\ t.queue = s.queue /\ t.view = s.view
      /\ t.subscribed = s.subscribed /\ t.needs_resync = s.needs_resync
      /\ t.catchup_active = s.catchup_active /\ t.continuous = s.continuous
  BY DEF IsSession, FreeSession
<1>4. client_close(t).queue = <<>>
  BY DEF client_close, FreeSession
<1> HIDE DEF t
<1>5. Plain(s, s) /\ Plain(s, t)
  BY <1>3, PlainRefl
<1>6. ASSUME t.subscribed, ~t.needs_resync PROVE Tells(s, o)
  <2>1. Bare("HEARTBEAT") \in Messages(change_sequence)
    BY BareMessage DEF Types
  <2>2. /\ <<Bare("HEARTBEAT")>> \in Seq(Messages(change_sequence))
        /\ Len(<<Bare("HEARTBEAT")>>) = 1
    BY <2>1, SingleSeq
  <2>3. /\ IsSession(e, change_sequence) /\ Kept(t, e)
        /\ \E n \in Nat : Grown(t, e.queue, <<Bare("HEARTBEAT")>>, n)
    BY ZenonT(60), <1>2, <2>2, EnqueueTyped, EnqueueGrows
  <2>4. Room(t) \in Nat /\ Len(t.queue) \in Nat
    BY <1>2, RoomType
  <2>5. CASE Room(t) # 0
    <3>1. o = e
      BY <2>2, <2>4, <2>5 DEF Offer
    <3>2. e.view = t.view /\ Live(e)
      BY ZenonT(60), <1>3, <1>6, <2>3 DEF Kept, Live, Exclusive
    <3>3. Reports(t, e)
      BY <1>2, <2>5, <3>2, MarkerReports DEF Markers
    <3> QED
      BY <1>3, <3>1, <3>3 DEF Tells, Reports
  <2>6. CASE Room(t) = 0
    <3>1. o = [e EXCEPT !.needs_resync = TRUE, !.subscribed = FALSE,
                        !.setup_left = SetupBeats]
      BY <2>2, <2>6 DEF Offer
    <3>2. o.queue = e.queue /\ o.view = e.view
      BY ZenonT(60), <2>3, <3>1 DEF IsSession, FreeSession
    <3> HIDE DEF o, e
    <3>3. Plain(t, o)
      BY <2>2, <2>3, <2>4, <2>6, <3>2 DEF Plain, Grown, Kept
    <3> QED
      BY <1>3, <3>3 DEF Tells, Plain
  <2> QED
    BY <2>5, <2>6
<1> HIDE DEF o
<1> QED
  BY <1>1, <1>4, <1>5, <1>6 DEF Tells


\* A new sample: the states of the changes reported before do not move.
LEMMA BroadcastMarked ==
  ASSUME Inv, NEW s, IsSession(s, change_sequence), Marked(s, history),
         NEW changed \in SUBSET Items, NEW new \in [Items -> Values]
  PROVE  Marked(Broadcast(s, changed, new), Append(history, new))
<1> DEFINE h == Append(history, new)
           last == change_sequence + 1
           B == Batches(changed, new, last)
           e == Enqueue(s, B)
           t == Broadcast(s, changed, new)
<1>0. /\ change_sequence \in Nat /\ last \in Nat /\ last \in 0 .. last
      /\ history \in Seq([Items -> Values])
      /\ Len(history) = change_sequence + 1 /\ new \in [Items -> Known]
  BY StateFacts, CanonKnown DEF Inv
<1>1. Marked(s, h)
  <2>1. ASSUME NEW k \in 1 .. Len(s.queue)
        PROVE  h[s.queue[k].seq + 1] = history[s.queue[k].seq + 1]
    <3>1. s.queue \in Seq(Messages(change_sequence))
      BY RoomType
    <3>2. s.queue[k] \in Messages(change_sequence)
      BY <3>1
    <3>3. s.queue[k].seq \in 0 .. change_sequence
      BY <3>2 DEF Messages
    <3> QED
      BY <1>0, <3>3
  <2> HIDE DEF h
  <2> QED
    BY <2>1 DEF Marked
<1>2. IsSession(s, last)
  BY <1>0, SessionMonotone
<1>3. B \in Seq(Messages(last)) /\ Len(B) = BatchCount(changed)
  BY ZenonT(60), <1>0, BatchesTyped
<1>4. \A k \in 1 .. Len(B) : B[k].type \notin Markers
  BY <1>3, BatchTypes
<1>5. \/ t = s \/ t = e
      \/ t = [e EXCEPT !.needs_resync = TRUE, !.subscribed = FALSE,
                       !.setup_left = SetupBeats]
  BY DEF Broadcast, Offer
<1> HIDE DEF h, B, last, t
<1>6. Plain(s, e) /\ IsSession(e, last)
  BY <1>2, <1>3, <1>4, EnqueuePlain, EnqueueTyped
<1> HIDE DEF e
<1>7. t = s \/ (t.queue = e.queue /\ t.view = e.view)
  BY ZenonT(60), <1>5, <1>6 DEF IsSession, FreeSession
<1>8. t = s \/ Plain(s, t)
  BY <1>6, <1>7 DEF Plain
<1>9. Len(s.queue) \in Nat /\ Len(e.queue) \in Nat
  BY <1>2, <1>6, RoomType
<1>10. Marked(t, h)
  BY <1>1, <1>7, <1>8, <1>9, PlainMarked
<1> QED
  BY <1>10 DEF t, h

-----------------------------------------------------------------------------
(* Every callback and the markers. *)

AllMarked == \A c \in Slots : Marked(clients[c], history)

\* A session without messages reports nothing.
LEMMA EmptyMarked ==
  /\ \A h : Marked(FreeSession, h)
  /\ \A s, h : Marked(client_close(s), h)
  /\ \A uid, h : Marked(Accepted(uid), h)
<1>1. /\ FreeSession.queue = <<>>
      /\ \A s : client_close(s).queue = <<>>
      /\ \A uid : Accepted(uid).queue = <<>>
  BY DEF FreeSession, client_close, Accepted
<1>2. \A s, h : s.queue = <<>> => Marked(s, h)
  BY DEF Marked
<1> QED
  BY <1>1, <1>2

\* Replacing one entry.
LEMMA StepMarked ==
  ASSUME TypeOK, AllMarked, NEW c \in Slots, NEW t, Marked(t, history),
         clients' = [clients EXCEPT ![c] = t], history' = history
  PROVE  AllMarked'
<1>1. \A d \in Slots : Marked(clients'[d], history)
  BY DEF TypeOK, AllMarked
<1> QED
  BY <1>1 DEF AllMarked

\* A request.
LEMMA RequestMarked ==
  ASSUME Inv, Client = "orderly", Inv', AllMarked, NEW c \in Slots, Request(c)
  PROVE  AllMarked'
<1> DEFINE s == clients[c]
<1>0. /\ TypeOK /\ IsSession(s, change_sequence) /\ Marked(s, history)
      /\ change_sequence \in Nat /\ canon \in [Items -> Values]
  BY InvFacts, StateFacts DEF AllMarked
<1>1. ASSUME NEW t, Step(c, t), Tells(s, t) PROVE AllMarked'
  <2>1. /\ clients'[c] = t /\ history' = history /\ canon' = canon
        /\ clients' = [clients EXCEPT ![c] = t]
    BY <1>0, <1>1 DEF Step, TypeOK
  <2>2. IsSession(clients'[c], change_sequence')
          /\ SessionInv(clients'[c], history', canon')
    BY StateFacts DEF Inv, TypeOK
  <2>3. IsSession(t, change_sequence) /\ SessionInv(t, history, canon)
    BY <2>1, <2>2 DEF change_sequence
  <2>4. Marked(t, history)
    BY <1>0, <1>1, <2>3, TellsMarked
  <2> QED
    BY ZenonT(60), <1>0, <2>1, <2>4, StepMarked
<1>2. ASSUME NEW understood \in BOOLEAN, Step(c, Hello(s, understood))
      PROVE  AllMarked'
  BY <1>0, <1>1, <1>2, AnswersTell
<1>3. ASSUME NEW start \in Frames, Step(c, GetSnapshot(s, start))
      PROVE  AllMarked'
  BY <1>0, <1>1, <1>3, SnapshotsTell
<1>4. ASSUME NEW start \in 0 .. SignalCount - 1,
             Step(c, GetSignalSnapshot(s, start))
      PROVE  AllMarked'
  BY <1>0, <1>1, <1>4, SnapshotsTell
<1>5. ASSUME Step(c, SubscribeAll(s)) PROVE AllMarked'
  BY <1>0, <1>1, <1>5, SubscribeTells
<1>6. ASSUME NEW type \in {"PONG", "SCHEMA_CHUNK"}, Step(c, Query(s, type))
      PROVE  AllMarked'
  BY <1>0, <1>1, <1>6, AnswersTell
<1> QED
  BY <1>2, <1>3, <1>4, <1>5, <1>6 DEF Request


\* Every callback keeps what the queues report.
LEMMA NextMarked ==
  ASSUME Inv, Inv', Client = "orderly", AllMarked, [Next]_vars,
         \A c \in Slots : Exclusive(clients[c])
  PROVE  AllMarked'
<1>0. /\ TypeOK /\ change_sequence \in Nat /\ canon \in [Items -> Values]
      /\ \A c \in Slots : /\ IsSession(clients[c], change_sequence)
                          /\ SessionInv(clients[c], history, canon)
                          /\ Marked(clients[c], history)
                          /\ Exclusive(clients[c])
  BY InvFacts, StateFacts DEF Inv, AllMarked
<1>1. ASSUME NEW c \in Slots, NEW uid \in Uids, NEW usable \in BOOLEAN,
             on_connection(c, uid, usable)
      PROVE  AllMarked'
  <2>1. \E t \in {Accepted(uid), client_close(clients[c])} :
          clients' = [clients EXCEPT ![c] = t]
    BY ZenonT(60), <1>1 DEF on_connection
  <2> QED
    BY ZenonT(60), <1>0, <1>1, <2>1, EmptyMarked, StepMarked DEF on_connection
<1>2. ASSUME NEW c \in Slots, on_client_closed(c) \/ Disconnect(c)
      PROVE  AllMarked'
  BY <1>0, <1>2, EmptyMarked, StepMarked
     DEF on_client_closed, Disconnect, Step
<1>3. ASSUME NEW c \in Slots, Request(c) PROVE AllMarked'
  BY <1>3, RequestMarked
<1>4. ASSUME NEW c \in Slots, WriteDone(c) PROVE AllMarked'
  <2> DEFINE s == clients[c]
             t == on_client_write(s)
  <2>1. /\ s.queue # <<>> /\ clients' = [clients EXCEPT ![c] = t]
        /\ history' = history
    BY <1>4 DEF WriteDone, Step
  <2>2. IsSession(t, change_sequence) /\ SessionInv(t, history, canon)
    <3>1. clients'[c] = t /\ canon' = canon
      BY <1>0, <1>4, <2>1 DEF WriteDone, Step, TypeOK
    <3> QED
      BY <1>0, <2>1, <3>1, WriteTyped DEF Inv
  <2>3. IsSession(Freed(s), change_sequence) /\ Marked(Freed(s), history)
    BY <1>0, <2>1, FreedTyped, FreedMarked
  <2>4. s.catchup_active => ~s.needs_resync
    BY <1>0 DEF Exclusive
  <2>5. Tells(Freed(s), t)
    BY <1>0, <2>1, <2>4, WriteTells
  <2>6. Marked(t, history)
    BY <2>2, <2>3, <2>5, TellsMarked
  <2> QED
    BY ZenonT(60), <1>0, <2>1, <2>6, StepMarked
<1>5. ASSUME on_heartbeat PROVE AllMarked'
  <2>1. ASSUME NEW c \in Slots PROVE Marked(Beat(clients[c]), history)
    <3>1. clients'[c] = Beat(clients[c]) /\ UNCHANGED <<canon, history>>
      BY <1>5 DEF on_heartbeat
    <3>2. SessionInv(Beat(clients[c]), history, canon)
      BY <3>1 DEF Inv
    <3> QED
      BY <1>0, <3>2, BeatTyped, BeatTells, TellsMarked
  <2>2. \A c \in Slots : Marked(clients'[c], history')
    BY <1>5, <2>1 DEF on_heartbeat
  <2> QED
    BY <2>2 DEF AllMarked
<1>6. ASSUME distribute_latest_sample PROVE AllMarked'
  <2>1. PICK new \in [Items -> Values] :
          \/ UNCHANGED <<history, clients>>
          \/ /\ history' = Append(history, new)
             /\ clients' = [c \in Slots |->
                  Broadcast(clients[c], Changed(canon, new), new)]
    BY <1>6 DEF distribute_latest_sample
  <2>2. CASE UNCHANGED <<history, clients>>
    BY <2>2 DEF AllMarked
  <2>3. CASE /\ history' = Append(history, new)
             /\ clients' = [c \in Slots |->
                  Broadcast(clients[c], Changed(canon, new), new)]
    <3>1. \A c \in Slots :
            Marked(Broadcast(clients[c], Changed(canon, new), new),
                   Append(history, new))
      BY <1>0, ChangedType, BroadcastMarked
    <3>2. \A c \in Slots : Marked(clients'[c], history')
      BY <2>3, <3>1
    <3> QED
      BY <3>2 DEF AllMarked
  <2> QED
    BY <2>1, <2>2, <2>3
<1>7. ASSUME server_shutdown PROVE AllMarked'
  <2>1. \A c \in Slots : Marked(clients'[c], history')
    BY <1>0, <1>7, EmptyMarked DEF server_shutdown
  <2> QED
    BY <2>1 DEF AllMarked
<1>8. ASSUME UNCHANGED vars PROVE AllMarked'
  BY <1>8 DEF vars, AllMarked
<1> QED
  BY <1>1, <1>2, <1>3, <1>4, <1>5, <1>6, <1>7, <1>8 DEF Next, Stopped

\* A new session has nothing queued.
LEMMA InitMarked == Init => AllMarked
  BY EmptyMarked DEF Init, AllMarked

\* The first message of the queue is the next one the client reads.
LEMMA MarkedTruthful ==
  ASSUME Inv, AllMarked
  PROVE  MarkersTruthful
<1> SUFFICES ASSUME NEW c \in Slots, clients[c].queue # <<>>,
                    Head(clients[c].queue).type \in Markers,
                    NEW i \in Items
             PROVE  Same(i, clients[c].view[i],
                         history[Head(clients[c].queue).seq + 1][i])
  BY DEF MarkersTruthful, Markers
<1> DEFINE q == clients[c].queue
<1>1. q \in Seq(Messages(change_sequence))
  BY InvFacts, StateFacts, RoomType
<1>2. Head(q) = q[1] /\ 1 \in 1 .. Len(q) /\ 1 - 1 = 0
  BY <1>1
<1>3. Reaches(q, 0, clients[c].view, i, history[q[1].seq + 1][i])
  BY <1>2 DEF AllMarked, Marked
<1> QED
  BY <1>2, <1>3 DEF Reaches
=============================================================================
