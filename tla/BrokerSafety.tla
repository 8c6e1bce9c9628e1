---------------------------- MODULE BrokerSafety ----------------------------
(***************************************************************************)
(* The invariant of BrokerInv is inductive, and what it says, with those   *)
(* of BrokerSessions, of every behaviour of roadcastd for every value of   *)
(* the constants: the truth of what is on the wire, the freshness of what  *)
(* a subscriber holds, a wake-up for everything that waits, the deadlines, *)
(* the limits and the frozen copies of sessions.                           *)
(***************************************************************************)
EXTENDS BrokerHandlers, BrokerSessions

\* Larger obligations take the provers longer than their default limits.
USE SMTT(30), ZenonT(30)

-----------------------------------------------------------------------------
(* The invariant is inductive. *)

\* A request leaves the session within the invariant.
LEMMA RequestInv ==
  ASSUME Inv, NEW c \in Slots, Request(c)
  PROVE  \E t : SessionInv(t, history, canon) /\ Step(c, t)
<1> DEFINE s == clients[c]
<1>1. /\ IsSession(s, change_sequence) /\ SessionInv(s, history, canon)
      /\ change_sequence \in Nat
  BY InvFacts, StateFacts DEF Inv
<1>2. ASSUME NEW understood \in BOOLEAN, Step(c, Hello(s, understood))
      PROVE  \E t : SessionInv(t, history, canon) /\ Step(c, t)
  <2>1. s.phase = "active"
    BY <1>2 DEF Step
  <2> QED
    BY <1>1, <1>2, <2>1, HelloInv
<1>3. ASSUME NEW start \in Frames, Step(c, GetSnapshot(s, start))
      PROVE  \E t : SessionInv(t, history, canon) /\ Step(c, t)
  <2>1. SessionInv(GetSnapshot(s, start), history, canon)
    BY <1>1, FrameChunkInv, FreeInv DEF GetSnapshot
  <2> QED
    BY <1>3, <2>1
<1>4. ASSUME NEW start \in 0 .. SignalCount - 1,
             Step(c, GetSignalSnapshot(s, start))
      PROVE  \E t : SessionInv(t, history, canon) /\ Step(c, t)
  <2>1. SessionInv(GetSignalSnapshot(s, start), history, canon)
    BY <1>1, SignalChunkInv, FreeInv DEF GetSignalSnapshot
  <2> QED
    BY <1>4, <2>1
<1>5. ASSUME MaySubscribe(s), Step(c, SubscribeAll(s))
      PROVE  \E t : SessionInv(t, history, canon) /\ Step(c, t)
  BY <1>1, <1>5, SubscribeInv
<1>6. ASSUME NEW type \in {"PONG", "SCHEMA_CHUNK"}, Step(c, Query(s, type))
      PROVE  \E t : SessionInv(t, history, canon) /\ Step(c, t)
  BY <1>1, <1>6, QueryInv
<1> QED
  BY <1>2, <1>3, <1>4, <1>5, <1>6 DEF Request

\* A callback of one session touches no other one.
LEMMA StepInv ==
  ASSUME Inv, TypeOK', NEW c \in Slots, NEW t, SessionInv(t, history, canon),
         clients' = [clients EXCEPT ![c] = t],
         UNCHANGED <<canon, history, shutting_down>>
  PROVE  Inv'
<1>1. \A d \in Slots : SessionInv(clients'[d], history, canon)
  BY DEF Inv, TypeOK
<1>2. (\A d \in Slots : SessionInv(clients[d], history, canon))'
  BY <1>1
<1>3. Mirrors(canon, history, change_sequence)'
  BY InvFacts DEF change_sequence
<1> QED
  BY <1>2, <1>3 DEF Inv

\* The invariant holds before the first callback.
LEMMA InitInv == Init => Inv
<1> SUFFICES ASSUME Init PROVE Inv
  OBVIOUS
<1>1. TypeOK
  BY InitTyped
<1>2. \A c \in Slots : SessionInv(clients[c], history, canon)
  BY FreeInv DEF Init
<1>3. Mirrors(canon, history, change_sequence)
  <2>1. history[change_sequence + 1] = canon
    BY DEF Init, change_sequence
  <2> QED
    BY <2>1, SameRefl DEF Mirrors
<1> QED
  BY <1>1, <1>2, <1>3 DEF Inv

\* The state after a sample, whether or not it counts as a change.
LEMMA SampleInv ==
  ASSUME Inv, TypeOK', distribute_latest_sample
  PROVE  Inv'
<1>0. /\ change_sequence \in Nat /\ history \in Seq([Items -> Values])
      /\ Len(history) = change_sequence + 1
      /\ \A c \in Slots : IsSession(clients[c], change_sequence)
                            /\ SessionInv(clients[c], history, canon)
  BY StateFacts DEF Inv
<1>1. PICK new \in [Items -> Values] :
        /\ canon' = new
        /\ \/ /\ Changed(canon, new) = {}
              /\ UNCHANGED <<history, clients>>
           \/ /\ Changed(canon, new) # {}
              /\ history' = Append(history, new)
              /\ clients' = [c \in Slots |->
                   Broadcast(clients[c], Changed(canon, new), new)]
  BY DEF distribute_latest_sample
<1>2. CASE Changed(canon, new) = {} /\ UNCHANGED <<history, clients>>
  <2>1. \A i \in Items : Same(i, canon[i], new[i])
    BY <1>2 DEF Changed
  <2>2. \A c \in Slots : SessionInv(clients[c], history, new)
    BY <1>0, <2>1, UnchangedInv
  <2>3. (\A c \in Slots : SessionInv(clients[c], history, canon))'
    BY <1>1, <1>2, <2>2
  <2>4. Mirrors(new, history, change_sequence)
    BY <2>1, InvFacts, SameSym, SameTrans DEF Mirrors
  <2>5. Mirrors(canon, history, change_sequence)'
    BY <1>1, <1>2, <2>4 DEF change_sequence
  <2> QED
    BY <2>3, <2>5 DEF Inv
<1>3. CASE /\ Changed(canon, new) # {}
           /\ history' = Append(history, new)
           /\ clients' = [c \in Slots |->
                Broadcast(clients[c], Changed(canon, new), new)]
  <2>1. ASSUME NEW c \in Slots
        PROVE  SessionInv(clients'[c], Append(history, new), new)
    <3>1. clients'[c] = Broadcast(clients[c], Changed(canon, new), new)
      BY <1>3
    <3> QED
      BY <1>0, <1>3, <3>1, BroadcastInv
  <2>2. (\A c \in Slots : SessionInv(clients[c], history, canon))'
    BY <1>1, <1>3, <2>1
  <2>3. history'[Len(history')] = new /\ Len(history') \in Nat
    BY <1>0, <1>3
  <2>4. change_sequence' + 1 = Len(history')
    BY <2>3 DEF change_sequence
  <2>5. Mirrors(canon', history', change_sequence')
    BY <1>1, <2>3, <2>4, SameRefl DEF Mirrors
  <2> QED
    BY <2>2, <2>5 DEF Inv
<1> QED
  BY <1>1, <1>2, <1>3

\* Every callback keeps the invariant.
LEMMA NextInv == Inv /\ [Next]_vars => Inv'
<1> SUFFICES ASSUME Inv, [Next]_vars PROVE Inv'
  OBVIOUS
<1>0. /\ TypeOK' /\ change_sequence \in Nat /\ canon \in [Items -> Values]
      /\ \A c \in Slots : IsSession(clients[c], change_sequence)
                            /\ SessionInv(clients[c], history, canon)
  BY NextTyped, StateFacts DEF Inv
<1>1. ASSUME NEW c \in Slots, NEW uid \in Uids, NEW usable \in BOOLEAN,
             on_connection(c, uid, usable)
      PROVE  Inv'
  <2>1. \E t \in {Accepted(uid), client_close(clients[c])} :
          clients' = [clients EXCEPT ![c] = t]
    BY ZenonT(60), <1>1 DEF on_connection
  <2> QED
    BY ZenonT(60), <1>0, <1>1, <2>1, FreeInv, StepInv DEF on_connection
<1>2. ASSUME NEW c \in Slots, on_client_closed(c) PROVE Inv'
  BY ZenonT(60), <1>0, <1>2, FreeInv, StepInv DEF on_client_closed
<1>3. ASSUME NEW c \in Slots, Disconnect(c) PROVE Inv'
  BY ZenonT(60), <1>0, <1>3, FreeInv, StepInv DEF Disconnect, Step
<1>4. ASSUME NEW c \in Slots, Request(c) PROVE Inv'
  BY <1>0, <1>4, RequestInv, StepInv DEF Step
<1>5. ASSUME NEW c \in Slots, WriteDone(c) PROVE Inv'
  BY ZenonT(60), <1>0, <1>5, WriteInv, StepInv DEF WriteDone, Step
<1>6. ASSUME on_heartbeat PROVE Inv'
  <2>1. \A c \in Slots : SessionInv(clients'[c], history, canon)
    BY <1>0, <1>6, BeatInv DEF on_heartbeat
  <2>2. (\A c \in Slots : SessionInv(clients[c], history, canon))'
    BY <1>6, <2>1 DEF on_heartbeat
  <2>3. Mirrors(canon, history, change_sequence)'
    BY <1>6, InvFacts DEF on_heartbeat, change_sequence
  <2> QED
    BY <1>0, <2>2, <2>3 DEF Inv
<1>7. ASSUME distribute_latest_sample PROVE Inv'
  BY <1>0, <1>7, SampleInv
<1>8. ASSUME server_shutdown PROVE Inv'
  <2>1. \A c \in Slots : SessionInv(clients'[c], history, canon)
    BY <1>0, <1>8, FreeInv DEF server_shutdown
  <2>2. (\A c \in Slots : SessionInv(clients[c], history, canon))'
    BY <1>8, <2>1 DEF server_shutdown
  <2>3. Mirrors(canon, history, change_sequence)'
    BY <1>8, InvFacts DEF server_shutdown, change_sequence
  <2> QED
    BY <1>0, <2>2, <2>3 DEF Inv
<1>9. ASSUME UNCHANGED vars PROVE Inv'
  BY <1>0, <1>9 DEF Inv, vars, change_sequence
<1> QED
  BY <1>1, <1>2, <1>3, <1>4, <1>5, <1>6, <1>7, <1>8, <1>9 DEF Next, Stopped

-----------------------------------------------------------------------------
(* What it implies. *)

\* Between two callbacks every session satisfies the inductive invariant, for
\* every size of the table, the state, the messages and the queues.
THEOREM Inductive == Spec => []Inv
<1> QED
  BY InitInv, NextInv, PTL DEF Spec

\* PROTOCOL.md:66-68: whatever is on the wire is the canonical value of the
\* change sequence in the header of its message, however many changes the
\* broker saw while pages, catch-up batches and updates waited in the queues.
THEOREM WireTruthful == Spec => []WireTruth
<1>1. Inv => WireTruth
  BY Zenon DEF Inv, SessionInv, Wire, Truthful, WireTruth
<1> QED
  BY <1>1, Inductive, PTL

\* A stalled catch-up, and a session that is owed RESYNC_REQUIRED, always has
\* a write outstanding whose completion wakes it up.
THEOREM NoLostWakeup == Spec => []WakeupPending
<1>1. Inv => WakeupPending
  <2> SUFFICES ASSUME Inv, NEW c \in Slots
               PROVE  LET s == clients[c] IN
                      s.catchup_active \/ (s.needs_resync /\ ~s.resync_queued)
                        => s.queue # <<>>
    BY DEF WakeupPending
  <2>1. Waiting(clients[c])
    BY DEF Inv, SessionInv
  <2>2. Len(clients[c].queue) = QueueSlots => clients[c].queue # <<>>
    BY BrokerConstants
  <2> QED
    BY <2>1, <2>2 DEF Waiting
<1> QED
  BY <1>1, Inductive, PTL

\* PROTOCOL.md:70-73: no change is lost between the snapshot and the live
\* updates, nor between two live updates, provided the client waits for
\* SUBSCRIBED before it sends another SUBSCRIBE_ALL.
THEOREM NothingLost ==
  ASSUME Client # "pipelining"
  PROVE  Spec => []Fresh
<1>1. Inv => Fresh
  BY DEF Inv, SessionInv, Coverage, Fresh
<1> QED
  BY <1>1, Inductive, PTL
-----------------------------------------------------------------------------
(* Deadlines, limits, frozen copies and markers. *)
\* No callback disarms the deadline of a session that is not set up.
THEOREM DeadlinesArmed == Spec => []AllArmed
<1>1. Inv /\ AllArmed /\ [Next]_vars => AllArmed'
  BY NextArmed
<1> QED
  BY <1>1, InitArmed, Inductive, PTL DEF Spec

\* DECISIONS.md:172-175 (D-013): a session of an orderly client that has not
\* subscribed, or has to resynchronize, is subject to an armed deadline.
THEOREM WindowEnforced ==
  ASSUME Client = "orderly"
  PROVE  Spec => []SetupWindow
<1>1. AllArmed => SetupWindow
  BY DEF AllArmed, Armed, SetupWindow
<1> QED
  BY <1>1, DeadlinesArmed, PTL

\* DECISIONS.md:169-170 (D-013): however connections come and go, a user has
\* at most MAX_CLIENTS_PER_UID sessions.
THEOREM LimitEnforced == Spec => []PerUidLimit
<1>1. Inv /\ AllArmed /\ PerUidLimit /\ [Next]_vars => PerUidLimit'
  BY NextArmed, LimitKept
<1> QED
  BY <1>1, InitArmed, Inductive, DeadlinesArmed, PTL DEF Spec

\* PROTOCOL.md:66-68: whatever the client asks for and in whatever order, the
\* pages of one snapshot come from one frozen copy.
THEOREM CopyFrozen == Spec => SnapshotFrozen
<1> DEFINE Frozen ==
      \A c \in Slots :
        clients[c].snapshot_active /\ clients'[c].snapshot_active =>
          /\ clients'[c].snapshot = clients[c].snapshot
          /\ clients'[c].snapshot_seq = clients[c].snapshot_seq
<1>1. Inv /\ AllArmed /\ [Next]_vars => [Frozen]_vars
  BY StepFrozen
<1> QED
  BY <1>1, Inductive, DeadlinesArmed, PTL DEF Spec, SnapshotFrozen

\* What an orderly client holds when it reaches SUBSCRIBED or a HEARTBEAT is
\* the complete state of the change sequence the message reports, however
\* many rounds the catch-up took and whatever was dropped and resynchronized
\* before.
THEOREM MarkersHonest ==
  ASSUME Client = "orderly"
  PROVE  Spec => []MarkersTruthful
<1>1. Inv /\ Inv' /\ AllArmed /\ AllMarked /\ [Next]_vars => AllMarked'
  <2>1. AllArmed => \A c \in Slots : Exclusive(clients[c])
    BY DEF AllArmed, Armed, Exclusive
  <2> QED
    BY <2>1, NextMarked
<1>2. Inv /\ AllMarked => MarkersTruthful
  BY MarkedTruthful
<1> QED
  BY <1>1, <1>2, InitMarked, Inductive, DeadlinesArmed, PTL DEF Spec
=============================================================================
