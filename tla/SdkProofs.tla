----------------------------- MODULE SdkProofs ------------------------------
(***************************************************************************)
(* The client library against any server: the handle and its descriptor    *)
(* outlive the reader thread.  For every number of frames, signals, schema *)
(* chunks and deadlines, and whatever the server sends.                    *)
(***************************************************************************)
EXTENDS AnyServer, TLAPS

\* Larger obligations take the provers longer than their default limits.
USE SMTT(30), ZenonT(30)

\* The positions at which the code that talks to the server awaits a reply.
Awaiting == {"hello", "schema", "frames", "signals", "subscribe", "live"}

\* HandleOutlivesReader, made inductive: connect owns the client until the
\* thread exists, a wait happens only inside the code that talks to the
\* server, and only close takes the descriptor away from the thread.
Owned(c) ==
  /\ DOMAIN c = DOMAIN NewClient
  /\ c.app \in {"out", "failed", "closed"} => c.pc = "idle"
  /\ c.pc # "idle" => c.fd # "closed"
  /\ c.waiting => c.pc \in Awaiting
  /\ c.pc = "spawn" => c.app = "connect"

\* A step of the code that talks to the server: it goes on, or it ends.
Continues(c, d) ==
  /\ DOMAIN d = DOMAIN NewClient
  /\ d.app = c.app /\ d.fd = c.fd
  /\ d.pc \notin {"idle", "spawn"}
  /\ d.waiting => d.pc \in Awaiting

-----------------------------------------------------------------------------

\* A client whose engine goes on is still owned.
LEMMA ContinuesOwned ==
  ASSUME NEW c, Owned(c), c.pc # "idle", NEW d, Continues(c, d)
  PROVE  Owned(d)
  BY DEF Owned, Continues

\* The failure paths: connect releases what it owns, the thread only ends.
LEMMA FailsOwned ==
  ASSUME NEW c, Owned(c), c.pc # "idle", NEW why
  PROVE  Owned(Fails(c, why))
<1>1. CASE c.app = "connect"
  BY <1>1 DEF Fails, Owned, NewClient
<1>2. CASE c.app # "connect"
  <2> DEFINE d == Fails(c, why)
  <2>1. d = [mark_disconnected(c) EXCEPT !.pc = "ended", !.reason = why,
               !.waiting = FALSE, !.read_left = Unarmed,
               !.budget_left = Unarmed, !.sync = NoState]
    BY <1>2 DEF Fails
  <2>2. /\ DOMAIN d = DOMAIN NewClient /\ d.app = c.app /\ d.fd = c.fd
        /\ d.pc = "ended" /\ d.waiting = FALSE
    BY <2>1 DEF mark_disconnected, Owned, NewClient
  <2> HIDE DEF d
  <2>3. Owned(d)
    BY <2>2 DEF Owned
  <2> QED
    BY <2>3 DEF d
<1> QED
  BY <1>1, <1>2

\* Await and Resume.
LEMMA WaitsOwned ==
  ASSUME NEW c, DOMAIN c = DOMAIN NewClient
  PROVE  /\ LET d == Await(c) IN
              /\ DOMAIN d = DOMAIN NewClient /\ d.app = c.app /\ d.fd = c.fd
              /\ d.pc = c.pc /\ d.waiting = TRUE
         /\ LET d == Resume(c) IN
              /\ DOMAIN d = DOMAIN NewClient /\ d.app = c.app /\ d.fd = c.fd
              /\ d.pc = c.pc /\ d.waiting = FALSE
  BY DEF Await, Resume, NewClient

\* The fields a reply fills in are not the ones the invariant is about.
LEMMA FillsOwned ==
  ASSUME NEW c, DOMAIN c = DOMAIN NewClient, NEW state, NEW known, NEW left
  PROVE  LET Alike(d) == /\ DOMAIN d = DOMAIN NewClient
                         /\ d.app = c.app /\ d.fd = c.fd
                         /\ d.pc = c.pc /\ d.waiting = c.waiting
         IN  /\ Alike([c EXCEPT !.sync = state])
             /\ Alike([c EXCEPT !.cache = state])
             /\ Alike([c EXCEPT !.cache.seq = state])
             /\ Alike([c EXCEPT !.can_id_to_index = known])
             /\ Alike([c EXCEPT !.sync = state, !.budget_left = left])
  BY DEF NewClient

\* What a message does, at every position at which one is awaited.
LEMMA HandledOwned ==
  ASSUME NEW c, Owned(c), c.waiting, NEW m
  PROVE  Owned(Handled(c, m))
<1>0. /\ DOMAIN c = DOMAIN NewClient /\ c.pc \in Awaiting /\ c.pc # "idle"
  BY DEF Owned, Awaiting
<1>1. \A why : Owned(Fails(c, why))
  BY <1>0, FailsOwned
<1>2. ASSUME NEW d, DOMAIN d = DOMAIN NewClient, d.app = c.app, d.fd = c.fd,
             NEW step \in Awaiting, NEW position
      PROVE  Owned(Ask(d, step, position))
  <2> DEFINE a == Ask(d, step, position)
  <2>1. /\ DOMAIN a = DOMAIN NewClient /\ a.app = d.app /\ a.fd = d.fd
        /\ a.pc = step /\ a.waiting = FALSE
    BY <1>2 DEF Ask, NewClient
  <2> HIDE DEF a
  <2>2. Continues(c, a)
    BY <1>2, <2>1 DEF Continues, Awaiting
  <2>3. Owned(a)
    BY <1>0, <2>2, ContinuesOwned
  <2> QED
    BY <2>3 DEF a
<1>3. ASSUME NEW state PROVE LET d == [c EXCEPT !.sync = state] IN
        /\ DOMAIN d = DOMAIN NewClient /\ d.app = c.app /\ d.fd = c.fd
        /\ d.pc = c.pc /\ d.waiting = c.waiting
  BY ZenonT(60), <1>0, FillsOwned
<1>4. CASE c.pc = "hello"
  <2>1. Handled(c, m) \in {Ask(c, "schema", 0), Fails(c, "protocol")}
    BY <1>4 DEF Handled, perform_handshake
  <2>2. Owned(Ask(c, "schema", 0))
    BY <1>0, <1>2 DEF Awaiting
  <2> QED
    BY <1>1, <2>1, <2>2
<1>5. CASE c.pc = "schema"
  <2>1. Handled(c, m) \in {Ask(c, "schema", c.position + 1),
                           Ask([c EXCEPT !.sync = NoState], "frames", 0),
                           Fails(c, "protocol")}
    BY <1>5 DEF Handled, request_schema
  <2> QED
    BY Zenon, <1>0, <1>1, <1>2, <1>3, <2>1 DEF Awaiting
<1>6. CASE c.pc = "frames"
  <2> DEFINE end == c.position + Cardinality(DOMAIN m.items)
             p == Paged(c, m)
             q == [p EXCEPT !.can_id_to_index = Frames]
  <2>1. Handled(c, m) \in {Ask(p, "frames", end), Ask(q, "signals", end),
                           Fails(c, "protocol")}
    BY <1>6 DEF Handled, request_frame_snapshot
  <2>2. DOMAIN p = DOMAIN NewClient /\ p.app = c.app /\ p.fd = c.fd
    BY Zenon, <1>3 DEF Paged
  <2> HIDE DEF p
  <2>3. DOMAIN q = DOMAIN NewClient /\ q.app = c.app /\ q.fd = c.fd
    BY <2>2, FillsOwned
  <2> HIDE DEF q, end
  <2> QED
    BY <1>1, <1>2, <2>1, <2>2, <2>3 DEF Awaiting
<1>7. CASE c.pc = "signals"
  <2> DEFINE end == c.position + Cardinality(DOMAIN m.items)
             p == Paged(c, m)
  <2>1. Handled(c, m) \in {Ask(p, "signals", end), Ask(p, "subscribe", 0),
                           Fails(c, "protocol")}
    BY <1>7 DEF Handled, request_signal_snapshot
  <2>2. DOMAIN p = DOMAIN NewClient /\ p.app = c.app /\ p.fd = c.fd
    BY Zenon, <1>3 DEF Paged
  <2> HIDE DEF p, end
  <2> QED
    BY <1>1, <1>2, <2>1, <2>2 DEF Awaiting
<1>8. CASE c.pc = "subscribe"
  <2> DEFINE d == [c EXCEPT !.sync.seq = m.seq, !.pc = "commit",
                            !.waiting = FALSE, !.read_left = Unarmed]
             p == [c EXCEPT !.sync = Stored(c.sync, m, Nameable(c, m))]
  <2>1. Handled(c, m) \in {d, Await(p), Fails(c, "protocol")}
    BY <1>8 DEF Handled, complete_subscription
  <2>2. Continues(c, d)
    BY <1>0 DEF Continues, NewClient
  <2>3. /\ DOMAIN p = DOMAIN NewClient /\ p.app = c.app /\ p.fd = c.fd
        /\ p.pc = c.pc
    BY Zenon, <1>3
  <2> HIDE DEF d, p
  <2>4. Continues(c, Await(p))
    BY Zenon, <1>8, <2>3, WaitsOwned DEF Continues, Awaiting
  <2> QED
    BY <1>0, <1>1, <2>1, <2>2, <2>4, ContinuesOwned
<1>9. CASE c.pc = "live"
  <2> DEFINE p == [c EXCEPT !.cache = Stored(c.cache, m, Nameable(c, m))]
             h == [c EXCEPT !.cache.seq = m.seq]
             r == [c EXCEPT !.sync = NoState, !.budget_left = BudgetBeats]
  <2>1. Handled(c, m) \in {Resume(p), Fails(p, "protocol"), Resume(h),
                           Ask(r, "frames", 0), Fails(c, "protocol")}
    BY <1>9 DEF Handled, reader_thread_main, ApplyLive, apply_heartbeat,
                resynchronize
  <2>2. \A d \in {p, h, r} :
          /\ DOMAIN d = DOMAIN NewClient /\ d.app = c.app /\ d.fd = c.fd
          /\ d.pc = c.pc /\ d.waiting = c.waiting
    BY Zenon, <1>0 DEF NewClient
  <2> HIDE DEF p, h, r
  <2>3. Continues(c, Resume(p)) /\ Continues(c, Resume(h))
    BY Zenon, <1>9, <2>2, WaitsOwned DEF Continues
  <2>4. Owned(p)
    BY <2>2 DEF Owned
  <2>5. Owned(Fails(p, "protocol"))
    BY <1>0, <2>2, <2>4, FailsOwned
  <2> QED
    BY <1>0, <1>1, <1>2, <2>1, <2>2, <2>3, <2>5, ContinuesOwned DEF Awaiting
<1> QED
  BY <1>0, <1>4, <1>5, <1>6, <1>7, <1>8, <1>9 DEF Awaiting

\* Every step of the thread, the application, the server and the clock.
LEMMA NextOwned ==
  ASSUME Owned(sdk), [AnyNext]_anyVars
  PROVE  Owned(sdk')
<1>0. DOMAIN sdk = DOMAIN NewClient
  BY DEF Owned
<1>1. ASSUME sdk.pc # "idle", NEW why, sdk' = Fails(sdk, why)
      PROVE  Owned(sdk')
  BY <1>1, FailsOwned
<1>2. CASE send_message
  <2>1. sdk.pc \in Awaiting /\ sdk.pc # "idle" /\ sdk.pc # "spawn"
    BY <1>2 DEF send_message, Requests, Awaiting
  <2>2. Continues(sdk, Await(sdk))
    BY Zenon, <1>0, <2>1, WaitsOwned DEF Continues
  <2> QED
    BY <1>1, <1>2, <2>1, <2>2, ContinuesOwned DEF send_message
<1>3. CASE read_message
  BY <1>3, HandledOwned DEF read_message
<1>4. CASE read_end \/ read_timeout
  <2>1. sdk.pc # "idle"
    BY <1>4 DEF read_end, read_timeout, Expired, Owned, Awaiting
  <2> QED
    BY <1>1, <1>4, <2>1 DEF read_end, read_timeout
<1>5. CASE commit
  BY <1>5 DEF commit, commit_synchronization, Owned, NewClient, Awaiting
<1>6. CASE exhausted
  BY <1>1, <1>6 DEF exhausted
<1>7. CASE loop_head
  <2>1. Continues(sdk, Await(sdk))
    BY Zenon, <1>0, <1>7, WaitsOwned DEF Continues, Awaiting, loop_head
  <2> QED
    BY <1>1, <1>7, <2>1, ContinuesOwned DEF loop_head
<1>8. CASE roadcast_client_connect
  BY ZenonT(60), <1>8
     DEF roadcast_client_connect, Ask, Owned, NewClient, Awaiting
<1>9. CASE spawn
  <2>1. CASE sdk' = [sdk EXCEPT !.app = "use", !.pc = "live"]
    BY <1>9, <2>1 DEF spawn, Owned, NewClient, Awaiting
  <2> QED
    BY <1>1, <1>9, <2>1 DEF spawn
<1>10. CASE close
  BY ZenonT(60), <1>10
     DEF close, roadcast_client_close, Owned, NewClient, Awaiting
<1>11. CASE tick
  BY <1>0, <1>11 DEF tick, SdkElapsed, Owned, NewClient
<1>12. CASE accept \/ serve \/ hang_up \/ UNCHANGED anyVars
  BY <1>12 DEF accept, serve, hang_up, anyVars
<1> QED
  BY <1>2, <1>3, <1>4, <1>5, <1>6, <1>7, <1>8, <1>9, <1>10, <1>11, <1>12
     DEF AnyNext, SdkNext, Engine

-----------------------------------------------------------------------------

\* client.c:847-863: whatever the server does and wherever the reader thread
\* stands when roadcast_client_close begins, the descriptor is closed and the
\* handle is freed only when the thread has ended; and a connect that fails
\* leaves neither behind.
THEOREM NoUseAfterClose == AnySpec => []HandleOutlivesReader
<1>1. AnyInit => Owned(sdk)
  BY DEF AnyInit, SdkInit, Owned, NewClient
<1>2. Owned(sdk) /\ [AnyNext]_anyVars => Owned(sdk)'
  BY NextOwned
<1>3. Owned(sdk) => HandleOutlivesReader
  BY DEF Owned, HandleOutlivesReader
<1> QED
  BY <1>1, <1>2, <1>3, PTL DEF AnySpec

=============================================================================
