------------------------------- MODULE Broker -------------------------------
(***************************************************************************)
(* The event-loop thread of roadcastd: the canonical state, the table of   *)
(* client sessions, and every callback that touches them (src/roadcastd.c).*)
(*                                                                         *)
(* libuv runs one callback at a time, so each callback is one action.  A   *)
(* session is the struct roadcast_client as a record; the functions of the *)
(* code that take a client pointer are operators from a session to the     *)
(* session they leave behind.                                              *)
(***************************************************************************)
EXTENDS Protocol

CONSTANTS
  MaxClients,         \* MAX_CLIENTS, the size of the session table
  Uids,               \* the users whose processes connect
  MaxClientsPerUid,   \* MAX_CLIENTS_PER_UID
  QueueSlots,         \* --client-queue-slots
  HelloBeats,         \* HELLO_TIMEOUT_NS in heartbeat intervals
  SetupBeats,         \* SETUP_TIMEOUT_NS in heartbeat intervals
  MaxChanges,         \* bound on change_sequence
  Client              \* how the client paces its requests, see MaySubscribe

ASSUME BrokerConstants ==
  /\ MaxClients \in Nat \ {0}
  /\ MaxClientsPerUid \in Nat \ {0}
  /\ FrameCount \in Nat \ {0}
  /\ SignalCount \in Nat \ {0}
  /\ FramesPerMessage \in Nat \ {0}
  /\ SignalsPerMessage \in Nat \ {0}
  /\ QueueSlots \in Nat \ {0}
  /\ HelloBeats \in Nat \ {0}
  /\ SetupBeats \in Nat \ {0}
  /\ MaxChanges \in Nat
  /\ None \notin Readings
  /\ Client \in {"orderly", "resubscribing", "pipelining"}

VARIABLES
  canon,          \* server->frames and server->signals
  history,        \* history[n + 1]: the canonical state of change_sequence n
  clients,        \* server->clients
  shutting_down

vars == <<canon, history, clients, shutting_down>>

-----------------------------------------------------------------------------
Slots == 1 .. MaxClients

change_sequence == Len(history) - 1

Bare(type) == Message(type, change_sequence, <<>>)

-----------------------------------------------------------------------------
(* The output queue of a session: one slot per message, in stream order.   *)
(* A slot holds CLIENT_MESSAGE_CAP bytes, so the byte limits of the code   *)
(* are reached only when no slot is free.                                  *)

Off == -1         \* a deadline of 0 in the code: not armed

FreeSession ==
  [phase |-> "free", peer_uid |-> None, greeted |-> FALSE,
   subscribed |-> FALSE, needs_resync |-> FALSE, resync_queued |-> FALSE,
   queue |-> <<>>, hello_left |-> Off, setup_left |-> Off,
   snapshot |-> [i \in Items |-> Unseen], snapshot_seq |-> 0,
   next_index |-> 0, snapshot_active |-> FALSE, snapshot_complete |-> FALSE,
   catchup_active |-> FALSE, catchup_seq |-> 0, pending |-> {},
   view |-> [i \in Items |-> Unseen], continuous |-> FALSE]

\* The fields of a closing session are never read again before
\* on_client_closed clears them.
client_close(s) == [FreeSession EXCEPT !.phase = "closing"]

Room(s) == QueueSlots - Len(s.queue)

\* As many of the messages as there are free slots.
Enqueue(s, messages) ==
  [s EXCEPT !.queue = @ \o SubSeq(messages, 1,
                            IF Len(messages) < Room(s) THEN Len(messages)
                                                       ELSE Room(s))]

\* client_queue_message with droppable = 0: every caller closes the session
\* when it fails.
Reply(s, message) ==
  IF Room(s) = 0 THEN client_close(s) ELSE Enqueue(s, <<message>>)

\* Mutants: what does not fit is dropped without a trace; the dropped session
\* gets no deadline; the last free slot is never used.
OfferSilently(s, messages) == Enqueue(s, messages)

OfferUnarmed(s, messages) ==
  IF Len(messages) <= Room(s)
  THEN Enqueue(s, messages)
  ELSE [Enqueue(s, messages) EXCEPT !.needs_resync = TRUE,
                                    !.subscribed = FALSE]

OfferShort(s, messages) ==
  IF Len(messages) < Room(s)
  THEN Enqueue(s, messages)
  ELSE [Enqueue(s, messages) EXCEPT !.needs_resync = TRUE,
                                    !.subscribed = FALSE,
                                    !.setup_left = SetupBeats]

\* client_queue_message with droppable = 1, for the batches of one update.
Offer(s, messages) ==
  IF Len(messages) <= Room(s)
  THEN Enqueue(s, messages)
  ELSE [Enqueue(s, messages) EXCEPT !.needs_resync = TRUE,
                                    !.subscribed = FALSE,
                                    !.setup_left = SetupBeats]

maybe_queue_resync(s) ==
  IF s.greeted /\ s.needs_resync /\ ~s.resync_queued /\ s.queue = <<>>
  THEN [Enqueue(s, <<Bare("RESYNC_REQUIRED")>>) EXCEPT !.resync_queued = TRUE]
  ELSE s

-----------------------------------------------------------------------------
(* Snapshot transfer.  next_index stands for snapshot_next_frame_index and,*)
(* once the frames are complete, for snapshot_next_index.                  *)

\* Mutant: the session still counts as due for a resynchronization.
begin_snapshot_still_due(s) ==
  [s EXCEPT !.snapshot = canon, !.snapshot_seq = change_sequence,
            !.next_index = 0, !.snapshot_active = TRUE,
            !.snapshot_complete = FALSE, !.setup_left = SetupBeats,
            !.resync_queued = FALSE, !.continuous = FALSE]

begin_snapshot(s) ==
  [s EXCEPT !.snapshot = canon, !.snapshot_seq = change_sequence,
            !.next_index = 0, !.snapshot_active = TRUE,
            !.snapshot_complete = FALSE, !.setup_left = SetupBeats,
            !.needs_resync = FALSE, !.resync_queued = FALSE,
            !.continuous = FALSE]

\* One page of the frozen snapshot, from next_index up to (not including) end.
Page(s, type, end) ==
  LET queued == Reply(s, Message(type, s.snapshot_seq,
                           [i \in s.next_index .. end - 1 |-> s.snapshot[i]]))
  IN  IF queued.phase = "closing" THEN queued
      ELSE [queued EXCEPT !.next_index = end,
                          !.snapshot_active = end < FrameCount + SignalCount,
                          !.snapshot_complete = end = FrameCount + SignalCount]

PageEnd(start, size, last) == IF start + size < last THEN start + size ELSE last

\* Mutant: a transfer in progress is restarted.
restart_frame_snapshot_chunk(s, start) ==
  LET t == IF start = 0 THEN begin_snapshot(s) ELSE s
  IN  IF t.snapshot_active /\ start = t.next_index /\ start < FrameCount
      THEN Page(t, "SNAPSHOT", PageEnd(start, FramesPerMessage, FrameCount))
      ELSE client_close(s)

queue_frame_snapshot_chunk(s, start) ==
  LET t == IF start = 0 /\ ~s.snapshot_active THEN begin_snapshot(s) ELSE s
  IN  IF t.snapshot_active /\ start = t.next_index /\ start < FrameCount
      THEN Page(t, "SNAPSHOT", PageEnd(start, FramesPerMessage, FrameCount))
      ELSE client_close(s)

queue_signal_snapshot_chunk(s, start) ==
  IF /\ s.snapshot_active
     /\ FrameCount + start = s.next_index
     /\ start < SignalCount
  THEN Page(s, "SIGNAL_SNAPSHOT_CHUNK",
            PageEnd(s.next_index, SignalsPerMessage, FrameCount + SignalCount))
  ELSE client_close(s)

-----------------------------------------------------------------------------
(* Subscription catch-up.  pending holds the items of the current round    *)
(* that are not queued yet.                                                *)

\* Mutant: a new round keeps the change sequence of the previous one.
begin_round_unlabelled(s) ==
  [s EXCEPT !.pending = Changed(s.snapshot, canon), !.snapshot = canon]

begin_catchup_round(s) ==
  [s EXCEPT !.pending = Changed(s.snapshot, canon), !.snapshot = canon,
            !.catchup_seq = change_sequence]

\* Mutant: batches carry the current change sequence, not the round's.
SendRoundRelabelled(s) ==
  [Enqueue(s, Batches(s.pending, s.snapshot, change_sequence)) EXCEPT
     !.pending = {i \in @ : BatchOf(@, i) > Room(s)}]

\* The loop of drive_subscription_catchup up to the end of the round or of
\* the free slots.
SendRound(s) ==
  [Enqueue(s, Batches(s.pending, s.snapshot, s.catchup_seq)) EXCEPT
     !.pending = {i \in @ : BatchOf(@, i) > Room(s)}]

\* Mutant: SUBSCRIBED follows the first round, however long it took.
drive_one_round(s) ==
  LET first == SendRound(s)
  IN  IF Room(first) = 0 THEN first
      ELSE [Enqueue(first, <<Bare("SUBSCRIBED")>>) EXCEPT
              !.catchup_active = FALSE, !.subscribed = TRUE,
              !.setup_left = Off, !.continuous = TRUE]

\* What the current round leaves room for is a second round; nothing can
\* change while the callback runs, so a third one is always empty.
drive_subscription_catchup(s) ==
  LET first == SendRound(s)
      second == SendRound(begin_catchup_round(first))
  IN  IF Room(first) = 0 THEN first
      ELSE IF Room(second) = 0 THEN second
      ELSE [Enqueue(second, <<Bare("SUBSCRIBED")>>) EXCEPT
              !.catchup_active = FALSE, !.subscribed = TRUE,
              !.setup_left = Off, !.continuous = TRUE]

queue_subscription_catchup(s) ==
  drive_subscription_catchup(
    begin_catchup_round([s EXCEPT !.catchup_active = TRUE]))

-----------------------------------------------------------------------------
(* Callbacks of one session. *)

\* process_command.  A request the code answers with -1 closes the session.
Hello(s, understood) ==
  LET welcomed == Reply(s, Bare("WELCOME"))
  IN  IF s.greeted \/ ~understood \/ welcomed.phase = "closing"
      THEN client_close(s)
      ELSE [welcomed EXCEPT !.greeted = TRUE, !.hello_left = Off,
                            !.setup_left = SetupBeats]

GetSnapshot(s, start) ==
  IF s.greeted THEN queue_frame_snapshot_chunk(s, start) ELSE client_close(s)

GetSignalSnapshot(s, start) ==
  IF s.greeted THEN queue_signal_snapshot_chunk(s, start) ELSE client_close(s)

SubscribeAll(s) ==
  IF s.greeted /\ ~s.needs_resync /\ s.snapshot_complete
  THEN queue_subscription_catchup(s)
  ELSE client_close(s)

\* PING and GET_SCHEMA: one stateless reply.
Query(s, type) ==
  IF s.greeted THEN Reply(s, Bare(type)) ELSE client_close(s)

\* Mutant: the write callback forgets the resync notice.
write_without_resync(s) ==
  LET freed == [s EXCEPT !.queue = Tail(@), !.view = Apply(@, Head(s.queue))]
  IN  IF freed.catchup_active THEN drive_subscription_catchup(freed) ELSE freed

\* The oldest message has been written to the socket.
on_client_write(s) ==
  LET freed == [s EXCEPT !.queue = Tail(@), !.view = Apply(@, Head(s.queue))]
  IN  maybe_queue_resync(IF freed.catchup_active
                         THEN drive_subscription_catchup(freed)
                         ELSE freed)

Elapse(left) == IF left > 0 THEN left - 1 ELSE left

\* Mutant: only the first setup is timed.
BeatFirstSetup(s) ==
  LET t == [s EXCEPT !.hello_left = Elapse(@), !.setup_left = Elapse(@)]
  IN  IF s.phase # "active" THEN s
      ELSE IF ~t.greeted /\ t.hello_left = 0 THEN client_close(t)
      ELSE IF /\ t.greeted /\ ~t.subscribed /\ ~t.needs_resync
              /\ t.setup_left = 0 THEN client_close(t)
      ELSE IF ~t.greeted \/ ~t.subscribed \/ t.needs_resync THEN t
      ELSE Offer(t, <<Bare("HEARTBEAT")>>)

\* on_heartbeat, for one session, one heartbeat interval after the last one.
Beat(s) ==
  LET t == [s EXCEPT !.hello_left = Elapse(@), !.setup_left = Elapse(@)]
  IN  IF s.phase # "active" THEN s
      ELSE IF ~t.greeted /\ t.hello_left = 0 THEN client_close(t)
      ELSE IF t.greeted /\ ~t.subscribed /\ t.setup_left = 0 THEN client_close(t)
      ELSE IF ~t.greeted \/ ~t.subscribed \/ t.needs_resync THEN t
      ELSE Offer(t, <<Bare("HEARTBEAT")>>)

\* The loop of distribute_latest_sample over the sessions: the changed items,
\* with the new values and the new change sequence.
Broadcast(s, changed, new) ==
  IF s.phase = "active" /\ s.subscribed /\ ~s.needs_resync
  THEN Offer(s, Batches(changed, new, change_sequence + 1))
  ELSE s

-----------------------------------------------------------------------------
(* Actions. *)

Init ==
  /\ canon \in [Items -> Values]
  /\ history = <<canon>>
  /\ clients = [c \in Slots |-> FreeSession]
  /\ shutting_down = FALSE

\* A callback of session c that leaves it as t.
Step(c, t) ==
  /\ clients[c].phase = "active"
  /\ clients' = [clients EXCEPT ![c] = t]
  /\ UNCHANGED <<canon, history, shutting_down>>

\* find_available_client takes the first free entry of the table.
Available(c) ==
  /\ clients[c].phase = "free"
  /\ \A d \in Slots : d < c => clients[d].phase # "free"

active_clients_for_uid(uid) ==
  Cardinality({c \in Slots : /\ clients[c].phase = "active"
                             /\ clients[c].peer_uid = uid})

\* on_connection: over the limit of the user, or when the socket cannot be
\* set up, the entry is closed at once.  Without a free entry the connection
\* is closed and nothing changes.
Accepted(uid) ==
  [FreeSession EXCEPT !.phase = "active", !.peer_uid = uid,
                      !.hello_left = HelloBeats, !.setup_left = SetupBeats]

\* Mutant: one session too many.
connection_off_by_one(c, uid, usable) ==
  /\ ~shutting_down
  /\ Available(c)
  /\ clients' = [clients EXCEPT ![c] =
       IF usable /\ active_clients_for_uid(uid) <= MaxClientsPerUid
       THEN Accepted(uid) ELSE client_close(@)]
  /\ UNCHANGED <<canon, history, shutting_down>>

on_connection(c, uid, usable) ==
  /\ ~shutting_down
  /\ Available(c)
  /\ clients' = [clients EXCEPT ![c] =
       IF usable /\ active_clients_for_uid(uid) < MaxClientsPerUid
       THEN Accepted(uid) ELSE client_close(@)]
  /\ UNCHANGED <<canon, history, shutting_down>>

on_client_closed(c) ==
  /\ clients[c].phase = "closing"
  /\ clients' = [clients EXCEPT ![c] = FreeSession]
  /\ UNCHANGED <<canon, history, shutting_down>>

\* The peer went away, a read or write failed, or the input is not a message.
Disconnect(c) == Step(c, client_close(clients[c]))

\* Which requests the client issues.  An "orderly" client, like client.c and
\* roadcastctl.c, starts a snapshot or a subscription only while it has none;
\* a "resubscribing" one may repeat them on a live session, but waits for
\* SUBSCRIBED before the next SUBSCRIBE_ALL; a "pipelining" one never waits.
MayRestart(s) == Client = "orderly" => ~s.subscribed

MaySubscribe(s) ==
  /\ Client = "orderly" => ~s.subscribed
  /\ Client # "pipelining" => ~s.catchup_active

Request(c) ==
  LET s == clients[c] IN
  \/ \E understood \in BOOLEAN : Step(c, Hello(s, understood))
  \/ \E start \in Frames : MayRestart(s) /\ Step(c, GetSnapshot(s, start))
  \/ \E start \in 0 .. SignalCount - 1 : Step(c, GetSignalSnapshot(s, start))
  \/ MaySubscribe(s) /\ Step(c, SubscribeAll(s))
  \/ \E type \in {"PONG", "SCHEMA_CHUNK"} : Step(c, Query(s, type))

WriteDone(c) ==
  /\ clients[c].queue # <<>>
  /\ Step(c, on_client_write(clients[c]))

on_heartbeat ==
  /\ ~shutting_down
  /\ clients' = [c \in Slots |-> Beat(clients[c])]
  /\ UNCHANGED <<canon, history, shutting_down>>

\* on_sample_notification with a new sample.  Signals are decoded again only
\* when some frame has changed.
distribute_latest_sample ==
  /\ ~shutting_down
  /\ \E new \in [Items -> Values] :
       LET changed == Changed(canon, new) IN
       /\ canon' = new
       /\ \/ /\ changed = {}
             /\ UNCHANGED <<history, clients>>
          \/ /\ changed \cap Frames # {}
             /\ change_sequence < MaxChanges
             /\ history' = Append(history, new)
             /\ clients' = [c \in Slots |->
                              Broadcast(clients[c], changed, new)]
  /\ UNCHANGED shutting_down

\* Mutant: the sessions are left open.
shutdown_listener_only ==
  /\ ~shutting_down
  /\ shutting_down' = TRUE
  /\ UNCHANGED <<canon, history, clients>>

server_shutdown ==
  /\ ~shutting_down
  /\ shutting_down' = TRUE
  /\ clients' = [c \in Slots |-> IF clients[c].phase = "active"
                                 THEN client_close(clients[c])
                                 ELSE clients[c]]
  /\ UNCHANGED <<canon, history>>

\* The loop has no handle left and uv_run returns.
Stopped ==
  /\ shutting_down
  /\ \A c \in Slots : clients[c].phase = "free"
  /\ UNCHANGED vars

Next ==
  \/ \E c \in Slots :
       \/ \E uid \in Uids, usable \in BOOLEAN : on_connection(c, uid, usable)
       \/ on_client_closed(c)
       \/ Disconnect(c)
       \/ Request(c)
       \/ WriteDone(c)
  \/ on_heartbeat
  \/ distribute_latest_sample
  \/ server_shutdown
  \/ Stopped

Spec == Init /\ [][Next]_vars

\* The heartbeat timer repeats and libuv runs the close callback of every
\* closed handle.  Nothing is assumed of the clients, not even that they read.
Fairness ==
  /\ WF_vars(on_heartbeat)
  /\ \A c \in Slots : WF_vars(on_client_closed(c))

FairSpec == Spec /\ Fairness

-----------------------------------------------------------------------------
(* Properties. *)

IsSession(s, last) ==
  /\ DOMAIN s = DOMAIN FreeSession
  /\ s.phase \in {"free", "active", "closing"}
  /\ s.peer_uid \in Uids \cup {None}
  /\ s.greeted \in BOOLEAN
  /\ s.subscribed \in BOOLEAN
  /\ s.needs_resync \in BOOLEAN
  /\ s.resync_queued \in BOOLEAN
  /\ s.queue \in Seq(Messages(last))
  /\ Len(s.queue) <= QueueSlots
  /\ s.hello_left \in Off .. HelloBeats
  /\ s.setup_left \in Off .. SetupBeats
  /\ s.snapshot \in [Items -> Known]
  /\ s.snapshot_seq \in 0 .. last
  /\ s.next_index \in 0 .. FrameCount + SignalCount
  /\ s.snapshot_active \in BOOLEAN
  /\ s.snapshot_complete \in BOOLEAN
  /\ s.catchup_active \in BOOLEAN
  /\ s.catchup_seq \in 0 .. last
  /\ s.pending \in SUBSET Items
  /\ s.view \in [Items -> Known]
  /\ s.continuous \in BOOLEAN

\* Type invariant: the fields stay in the ranges of struct roadcast_client and
\* no queue outgrows its slots.
TypeOK ==
  /\ canon \in [Items -> Values]
  /\ history \in Seq([Items -> Values])
  /\ Len(history) \in 1 .. MaxChanges + 1
  /\ DOMAIN clients = Slots
  /\ \A c \in Slots : IsSession(clients[c], change_sequence)
  /\ shutting_down \in BOOLEAN

\* What the client holds for item i once everything queued has reached it.
Arrives(s, i, v) == Reaches(s.queue, Len(s.queue), s.view, i, v)

\* A subscription is live while nothing was dropped and no snapshot or
\* catch-up has been started since its SUBSCRIBED.
Live(s) ==
  s.subscribed /\ s.continuous /\ ~s.needs_resync /\ ~s.catchup_active

\* PROTOCOL.md:70 "Changes that happen during snapshot transfer are not lost":
\* for a live session, the last value queued (or already sent) for every
\* frame and signal is the canonical one, whatever was paged, caught up and
\* broadcast before, in whatever order.
Fresh ==
  \A c \in Slots : Live(clients[c]) =>
    \A i \in Items : Arrives(clients[c], i, canon[i])

\* PROTOCOL.md:66-68: a value on the wire is the canonical value at the change
\* sequence in the header of its message, for snapshot pages (all of one
\* frozen state), catch-up batches and live batches alike.
WireTruth ==
  \A c \in Slots : \A k \in 1 .. Len(clients[c].queue) :
    LET m == clients[c].queue[k] IN
    \A i \in DOMAIN m.items : Same(i, m.items[i], history[m.seq + 1][i])

\* When the client reaches SUBSCRIBED or a HEARTBEAT, what it holds is the
\* complete canonical state of the change sequence the message reports: no
\* half of an update is ever reported as that change.
MarkersTruthful ==
  \A c \in Slots : LET q == clients[c].queue IN
    q # <<>> /\ Head(q).type \in {"SUBSCRIBED", "HEARTBEAT"} =>
      \A i \in Items :
        Same(i, clients[c].view[i], history[Head(q).seq + 1][i])

\* DECISIONS.md:172-175 (D-013): a session that has not subscribed, or needs
\* to resynchronize, has an armed deadline and is subject to it.
SetupWindow ==
  \A c \in Slots : LET s == clients[c] IN
    s.phase = "active" =>
      /\ ~s.greeted => s.hello_left # Off
      /\ s.greeted /\ (s.needs_resync \/ ~s.subscribed) =>
           ~s.subscribed /\ s.setup_left # Off

\* Only a write callback resumes a stalled catch-up or queues
\* RESYNC_REQUIRED, so a session waiting for either has a write outstanding.
WakeupPending ==
  \A c \in Slots : LET s == clients[c] IN
    s.catchup_active \/ (s.needs_resync /\ ~s.resync_queued) => s.queue # <<>>

\* PROTOCOL.md:66-68 "frozen together": between two pages of one transfer
\* nothing, a resumed catch-up included, touches the frozen copy.
SnapshotFrozen ==
  [][\A c \in Slots :
       clients[c].snapshot_active /\ clients'[c].snapshot_active =>
         /\ clients'[c].snapshot = clients[c].snapshot
         /\ clients'[c].snapshot_seq = clients[c].snapshot_seq]_vars

\* roadcastd.c:52 "One complete dense update plus one heartbeat, even before
\* write callbacks": with CLIENT_QUEUE_SLOTS slots, an update offered to a
\* session with at most one message outstanding never overflows.
DenseUpdateFits ==
  [][\A c \in Slots :
       Len(clients[c].queue) <= 1 /\ clients'[c].needs_resync =>
         clients[c].needs_resync]_vars

\* DECISIONS.md:169-170 (D-013): the sessions of one user, over all the slots
\* and whatever is still closing, stay within the limit.
PerUidLimit ==
  \A uid \in Uids : active_clients_for_uid(uid) <= MaxClientsPerUid

\* ARCHITECTURE.md:137-138 "the client already has the complete state": what
\* a live session is sent agrees with the canonical state in full, the
\* timestamps of the frames included.
CompleteState ==
  \A c \in Slots : LET s == clients[c] IN
    Live(s) /\ s.queue = <<>> => s.view = canon

\* A client that stops reading cannot keep its queue full for ever: the next
\* dropped message or the running setup deadline ends the session.
StalledReaderEvicted ==
  \A c \in Slots : (Len(clients[c].queue) = QueueSlots)
                     ~> (Len(clients[c].queue) < QueueSlots)

\* PROTOCOL.md:239-241: a session that lost continuity is resynchronized or
\* closed, even when nothing it was sent is ever read.
LostContinuityResolved ==
  \A c \in Slots : clients[c].needs_resync ~> ~clients[c].needs_resync

\* server_shutdown leaves no session behind, so the second uv_run returns.
ShutdownCompletes ==
  shutting_down ~> \A c \in Slots : clients[c].phase = "free"
=============================================================================
