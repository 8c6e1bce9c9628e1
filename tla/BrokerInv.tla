------------------------------ MODULE BrokerInv ------------------------------
(***************************************************************************)
(* The inductive invariant behind the safety properties of Broker: what    *)
(* holds of every session between two callbacks.  It is stated for one     *)
(* session s, the recorded states h and the canonical state now, so that a *)
(* broadcast can be judged against the states after it.                    *)
(***************************************************************************)
EXTENDS Broker

Mirrors(state, h, n) == \A i \in Items : Same(i, state[i], h[n + 1][i])

Truthful(m, h) == \A i \in DOMAIN m.items : Same(i, m.items[i], h[m.seq + 1][i])

\* How the flags of a session exclude and imply one another.
Shape(s) ==
  /\ s.snapshot_active => ~s.snapshot_complete /\ ~s.continuous
  /\ s.snapshot_complete => s.next_index = FrameCount + SignalCount
  /\ s.catchup_active => s.snapshot_complete
  /\ s.needs_resync \/ s.subscribed \/ s.snapshot_active \/ s.snapshot_complete
       => s.greeted
  /\ s.greeted => s.phase = "active"

\* Between callbacks a catch-up is stalled on a full queue, and a session that
\* is owed RESYNC_REQUIRED has a write outstanding.
Waiting(s) ==
  /\ s.catchup_active => Len(s.queue) = QueueSlots
  /\ s.needs_resync /\ ~s.resync_queued => s.queue # <<>>

\* The frozen copy a session sends from is the canonical state of the change
\* sequence it stamps on its messages.
Wire(s, h) ==
  /\ \A k \in 1 .. Len(s.queue) : Truthful(s.queue[k], h)
  /\ s.snapshot_active => Mirrors(s.snapshot, h, s.snapshot_seq)
  /\ s.catchup_active => Mirrors(s.snapshot, h, s.catchup_seq)

\* Every item already paged out has arrived as of the frozen copy or, on a
\* subscribed session, as of now; during catch-up only pending items have not.
Covered(s, i, now) ==
  \/ Arrives(s, i, s.snapshot[i])
  \/ s.subscribed /\ Arrives(s, i, now[i])

Caught(s) ==
  ~s.needs_resync => \A i \in Items \ s.pending : Arrives(s, i, s.snapshot[i])

Coverage(s, now) ==
  /\ ~s.needs_resync /\ ~s.catchup_active =>
       \A i \in Items : i < s.next_index => Covered(s, i, now)
  /\ s.catchup_active => Caught(s)
  /\ Live(s) => \A i \in Items : Arrives(s, i, now[i])

SessionInv(s, h, now) ==
  /\ Shape(s)
  /\ Waiting(s)
  /\ Wire(s, h)
  /\ Client # "pipelining" => Coverage(s, now)

Inv ==
  /\ TypeOK
  /\ Mirrors(canon, history, change_sequence)
  /\ \A c \in Slots : SessionInv(clients[c], history, canon)
=============================================================================
