-------------------------------- MODULE Sdk ---------------------------------
(***************************************************************************)
(* The client library (src/client.c): the thread of the application that   *)
(* connects, uses and closes a handle, and the reader thread that applies  *)
(* the stream to the cache and resynchronizes it.                          *)
(*                                                                         *)
(* sdk is struct roadcast_client with the position of both threads: app    *)
(* for the application, pc for the code that talks to the server, which    *)
(* the application runs while it connects and the reader thread afterwards.*)
(* Functions that take the client pointer are operators from the client to *)
(* the client they leave behind.  A section under cache_lock is one step,  *)
(* so the accessors (roadcast_client_read_all and the others, which only   *)
(* copy under the lock) see the cache of some state of this module.        *)
(***************************************************************************)
EXTENDS Channel

CONSTANTS
  ReadBeats,      \* CLIENT_READ_TIMEOUT_MS in heartbeat intervals
  BudgetBeats,    \* CLIENT_SETUP_TIMEOUT_MS in heartbeat intervals
  SchemaChunks    \* the chunks the schema is transferred in

VARIABLE sdk

Unarmed == -1
NoState == [items |-> [i \in Items |-> Unseen], seq |-> 0]

\* calloc, before the socket exists.
NewClient ==
  [app |-> "out", pc |-> "idle", waiting |-> FALSE, position |-> 0,
   read_left |-> Unarmed, budget_left |-> Unarmed,
   sync |-> NoState, cache |-> NoState, connected |-> FALSE,
   can_id_to_index |-> {}, stop_requested |-> FALSE, fd |-> "none",
   reason |-> "none"]

-----------------------------------------------------------------------------
(* Waiting and failing. *)

\* The next request is to be sent.
Ask(c, step, position) ==
  [c EXCEPT !.pc = step, !.position = position, !.waiting = FALSE,
            !.read_left = Unarmed]

\* read_message starts: its own deadline is three seconds away, whatever is
\* left of the setup deadline.
Await(c) == [c EXCEPT !.waiting = TRUE, !.read_left = ReadBeats]

mark_disconnected(c) == [c EXCEPT !.connected = FALSE]

\* The failure path: of roadcast_client_connect, which closes the handle
\* itself (there is no reader to join), or of the reader thread.
Fails(c, why) ==
  IF c.app = "connect"
  THEN [NewClient EXCEPT !.app = "failed", !.fd = "closed", !.reason = why]
  ELSE [mark_disconnected(c) EXCEPT !.pc = "ended", !.reason = why,
          !.waiting = FALSE, !.read_left = Unarmed, !.budget_left = Unarmed,
          !.sync = NoState]

-----------------------------------------------------------------------------
(* Setup: each request and what its reply does. *)

perform_handshake(c, m) ==
  IF m.type = "WELCOME" THEN Ask(c, "schema", 0) ELSE Fails(c, "protocol")

request_schema(c, m) ==
  IF m.type # "SCHEMA_CHUNK" THEN Fails(c, "protocol")
  ELSE IF c.position + 1 < SchemaChunks THEN Ask(c, "schema", c.position + 1)
  ELSE Ask([c EXCEPT !.sync = NoState], "frames", 0)

\* The items of a page are the next ones and it is not empty.
IsPage(c, m, last) ==
  /\ DOMAIN m.items # {}
  /\ \E end \in c.position .. last : DOMAIN m.items = c.position .. end

Paged(c, m) ==
  [c EXCEPT !.sync = [items |-> Apply(c.sync.items, m), seq |-> m.seq]]

\* Mutant: the frames of a page go straight to the cache the application
\* reads.
snapshot_in_place(c, m) ==
  LET end == c.position + Cardinality(DOMAIN m.items) IN
  IF /\ m.type = "SNAPSHOT"
     /\ IsPage(c, m, FrameCount - 1)
     /\ c.position = 0 \/ m.seq = c.sync.seq
  THEN IF end < FrameCount
       THEN Ask(Paged(c, m), "frames", end)
       ELSE Ask([Paged(c, m) EXCEPT !.can_id_to_index = Frames,
                   !.cache.items = Apply(@, m)], "signals", end)
  ELSE Fails(c, "protocol")

\* Once the frames are complete the catch-up can name them by CAN id.
request_frame_snapshot(c, m) ==
  LET end == c.position + Cardinality(DOMAIN m.items) IN
  IF /\ m.type = "SNAPSHOT"
     /\ IsPage(c, m, FrameCount - 1)
     /\ c.position = 0 \/ m.seq = c.sync.seq
  THEN IF end < FrameCount
       THEN Ask(Paged(c, m), "frames", end)
       ELSE Ask([Paged(c, m) EXCEPT !.can_id_to_index = Frames],
                "signals", end)
  ELSE Fails(c, "protocol")

request_signal_snapshot(c, m) ==
  LET end == c.position + Cardinality(DOMAIN m.items) IN
  IF /\ m.type = "SIGNAL_SNAPSHOT_CHUNK"
     /\ IsPage(c, m, FrameCount + SignalCount - 1)
     /\ m.seq = c.sync.seq
  THEN IF end < FrameCount + SignalCount
       THEN Ask(Paged(c, m), "signals", end)
       ELSE Ask(Paged(c, m), "subscribe", 0)
  ELSE Fails(c, "protocol")

-----------------------------------------------------------------------------
(* Batches.  The entries up to the first one that names nothing the client *)
(* knows are stored, and then the batch is refused.                        *)

Refused(m, known) == DOMAIN m.items \ known # {}

Stored(state, m, known) ==
  LET taken == {i \in DOMAIN m.items :
                  \A j \in DOMAIN m.items : j <= i => j \in known}
  IN  [items |-> [i \in Items |-> IF i \in taken THEN m.items[i]
                                                 ELSE state.items[i]],
       seq |-> IF Refused(m, known) THEN state.seq ELSE m.seq]

\* What each kind of batch may name.
Nameable(c, m) ==
  IF m.type = "UPDATE_BATCH" THEN c.can_id_to_index ELSE Items \ Frames

\* Mutant: an update during the catch-up is left to the live stream.
subscription_skips_updates(c, m) ==
  IF m.type = "SUBSCRIBED"
  THEN [c EXCEPT !.sync.seq = m.seq, !.pc = "commit", !.waiting = FALSE,
                 !.read_left = Unarmed]
  ELSE IF m.type \in {"UPDATE_BATCH", "SIGNAL_UPDATE_BATCH"} THEN Await(c)
  ELSE Fails(c, "protocol")

complete_subscription(c, m) ==
  IF m.type = "SUBSCRIBED"
  THEN [c EXCEPT !.sync.seq = m.seq, !.pc = "commit", !.waiting = FALSE,
                 !.read_left = Unarmed]
  ELSE IF /\ m.type \in {"UPDATE_BATCH", "SIGNAL_UPDATE_BATCH"}
          /\ ~Refused(m, Nameable(c, m))
  THEN Await([c EXCEPT !.sync = Stored(c.sync, m, Nameable(c, m))])
  ELSE Fails(c, "protocol")

\* The copy under the lock, and what follows it: the reader thread is started
\* or goes on reading.
commit_synchronization(c) ==
  [c EXCEPT !.cache = c.sync, !.sync = NoState, !.connected = TRUE,
            !.can_id_to_index = Frames, !.budget_left = Unarmed,
            !.pc = IF c.app = "connect" THEN "spawn" ELSE "live"]

-----------------------------------------------------------------------------
(* The live stream. *)

Resume(c) == [c EXCEPT !.waiting = FALSE, !.read_left = Unarmed]

\* apply_live_frame_batch and apply_live_signal_batch store into the cache
\* itself, under the lock.
ApplyLive(c, m) ==
  LET stored == [c EXCEPT !.cache = Stored(c.cache, m, Nameable(c, m))]
  IN  IF Refused(m, Nameable(c, m)) THEN Fails(stored, "protocol")
                                             ELSE Resume(stored)

apply_heartbeat(c, m) == Resume([c EXCEPT !.cache.seq = m.seq])

resynchronize(c) ==
  Ask([c EXCEPT !.sync = NoState, !.budget_left = BudgetBeats], "frames", 0)

\* Mutant: the client asks for a new snapshot on its own when a change
\* sequence is skipped or repeated.
reader_resyncs_on_repeat(c, m) ==
  CASE m.type \in {"UPDATE_BATCH", "SIGNAL_UPDATE_BATCH"} ->
         IF m.seq = c.cache.seq THEN resynchronize(c) ELSE ApplyLive(c, m)
    [] m.type = "HEARTBEAT" -> apply_heartbeat(c, m)
    [] m.type = "RESYNC_REQUIRED" -> resynchronize(c)
    [] OTHER -> Fails(c, "protocol")

reader_thread_main(c, m) ==
  CASE m.type \in {"UPDATE_BATCH", "SIGNAL_UPDATE_BATCH"} -> ApplyLive(c, m)
    [] m.type = "HEARTBEAT" -> apply_heartbeat(c, m)
    [] m.type = "RESYNC_REQUIRED" -> resynchronize(c)
    [] OTHER -> Fails(c, "protocol")

Handled(c, m) ==
  CASE c.pc = "hello"     -> perform_handshake(c, m)
    [] c.pc = "schema"    -> request_schema(c, m)
    [] c.pc = "frames"    -> request_frame_snapshot(c, m)
    [] c.pc = "signals"   -> request_signal_snapshot(c, m)
    [] c.pc = "subscribe" -> complete_subscription(c, m)
    [] c.pc = "live"      -> reader_thread_main(c, m)

-----------------------------------------------------------------------------
(* The steps of the code that talks to the server. *)

\* A reset or closed connection, or a socket that roadcast_client_close has
\* shut down.
Hung == link = "cut" \/ sdk.fd # "open"

send_message ==
  /\ sdk.pc \in DOMAIN Requests /\ ~sdk.waiting
  /\ \/ /\ ~Hung
        /\ Sends(Requests[sdk.pc], StartOf(sdk.pc, sdk.position))
        /\ sdk' = Await(sdk)
     \/ /\ Hung
        /\ sdk' = Fails(sdk, "closed")
        /\ UNCHANGED channelVars

\* read_exact takes what has arrived before it looks at any deadline, and
\* what arrived before the connection went away before it notices that.
read_message ==
  /\ sdk.waiting
  /\ Reads
  /\ sdk' = Handled(sdk, Head(inbox))

\* Mutant: a read of zero bytes is retried.
read_end_retried ==
  /\ sdk.waiting /\ inbox = <<>> /\ sdk.fd # "open"
  /\ sdk' = Fails(sdk, "closed")
  /\ UNCHANGED channelVars

read_end ==
  /\ sdk.waiting /\ inbox = <<>> /\ Hung
  /\ sdk' = Fails(sdk, "closed")
  /\ UNCHANGED channelVars

\* Mutant: the later of the two deadlines counts.
ExpiredLater ==
  sdk.waiting /\ inbox = <<>> /\ {sdk.read_left, sdk.budget_left} = {0}

Expired == sdk.waiting /\ inbox = <<>> /\ 0 \in {sdk.read_left, sdk.budget_left}

\* wait_descriptor reports ETIMEDOUT.
read_timeout ==
  /\ Expired /\ ~Hung
  /\ sdk' = Fails(sdk, "timeout")
  /\ UNCHANGED channelVars

commit ==
  /\ sdk.pc = "commit"
  /\ sdk' = commit_synchronization(sdk)
  /\ UNCHANGED channelVars

\* calloc fails: for the catalog and the first synchronization, or in
\* resynchronize.
exhausted ==
  /\ sdk.pc \in {"schema", "frames"} /\ sdk.position = 0 /\ ~sdk.waiting
  /\ sdk' = Fails(sdk, "memory")
  /\ UNCHANGED channelVars

\* The loop of reader_thread_main tests stop_requested before each message.
loop_head ==
  /\ sdk.pc = "live" /\ ~sdk.waiting
  /\ sdk' = IF sdk.stop_requested THEN Fails(sdk, "stopped") ELSE Await(sdk)
  /\ UNCHANGED channelVars

Engine ==
  \/ send_message \/ read_message \/ read_end \/ read_timeout
  \/ commit \/ exhausted \/ loop_head

-----------------------------------------------------------------------------
(* The steps of the application. *)

\* roadcast_client_connect up to connect_socket, which succeeds or not.
roadcast_client_connect ==
  /\ sdk.app = "out"
  /\ \/ /\ sdk' = [Ask(NewClient, "hello", 0) EXCEPT !.app = "connect",
                     !.fd = "open", !.budget_left = BudgetBeats]
        /\ Dialled
     \/ /\ sdk' = [NewClient EXCEPT !.app = "failed", !.reason = "socket"]
        /\ UNCHANGED channelVars

\* pthread_create, the last step of roadcast_client_connect.
spawn ==
  /\ sdk.pc = "spawn"
  /\ sdk' \in {[sdk EXCEPT !.app = "use", !.pc = "live"],
               Fails(sdk, "thread")}
  /\ UNCHANGED channelVars

\* Mutant: the handle is released without joining the reader.
close_without_join ==
  \/ /\ sdk.app = "use"
     /\ sdk' = [sdk EXCEPT !.app = "stop", !.stop_requested = TRUE]
  \/ /\ sdk.app = "stop"
     /\ sdk' = [sdk EXCEPT !.app = "join", !.fd = "shut"]
  \/ /\ sdk.app = "join"
     /\ sdk' = [sdk EXCEPT !.app = "closed", !.fd = "closed"]

\* Mutant: only the flag is set, and the reader is expected to notice.
close_without_shutdown ==
  \/ /\ sdk.app = "use"
     /\ sdk' = [sdk EXCEPT !.app = "stop", !.stop_requested = TRUE]
  \/ /\ sdk.app = "stop"
     /\ sdk' = [sdk EXCEPT !.app = "join"]
  \/ /\ sdk.app = "join" /\ sdk.pc = "ended"
     /\ sdk' = [NewClient EXCEPT !.app = "closed", !.fd = "closed",
                                 !.reason = sdk.reason]

\* The flag, the shutdown and the join are three steps: the reader runs
\* between them.
roadcast_client_close ==
  \/ /\ sdk.app = "use"
     /\ sdk' = [sdk EXCEPT !.app = "stop", !.stop_requested = TRUE]
  \/ /\ sdk.app = "stop"
     /\ sdk' = [sdk EXCEPT !.app = "join", !.fd = "shut"]
  \/ /\ sdk.app = "join" /\ sdk.pc = "ended"
     /\ sdk' = [NewClient EXCEPT !.app = "closed", !.fd = "closed",
                                 !.reason = sdk.reason]

close == roadcast_client_close /\ UNCHANGED channelVars

SdkInit == sdk = NewClient

SdkNext == roadcast_client_connect \/ Engine \/ spawn \/ close

-----------------------------------------------------------------------------
(* One heartbeat interval passes for the deadlines of the client. *)

Sooner(left) == IF left > 0 THEN left - 1 ELSE left

SdkElapsed ==
  [sdk EXCEPT !.read_left = Sooner(@), !.budget_left = Sooner(@)]
=============================================================================
