-------------------------------- MODULE Ctl ---------------------------------
(***************************************************************************)
(* The command-line client (src/roadcastctl.c), a single thread: the same  *)
(* requests as the library, and a stream loop that stores the signals and  *)
(* counts the change sequences it did not see.  ctl holds its locals.      *)
(* --delay-before-subscribe, --pause-after-subscribe and the like are      *)
(* steps that are taken late.                                              *)
(***************************************************************************)
EXTENDS Channel

CONSTANTS
  PollBeats,      \* READ_TIMEOUT_MS in heartbeat intervals
  CtlChunks       \* the chunks the schema is transferred in

VARIABLE ctl

NoWait == -1

CtlStart ==
  [pc |-> "out", waiting |-> FALSE, position |-> 0, poll_left |-> NoWait,
   signals |-> [i \in Items |-> Unseen], change_sequence |-> 0,
   last_change_sequence |-> 0, sequence_gaps |-> 0, reason |-> "none"]

\* main returns, or its failure path does.
Exit(p, why) ==
  [p EXCEPT !.pc = "exited", !.waiting = FALSE, !.poll_left = NoWait,
            !.reason = why]

Turn(p, step, position) ==
  [p EXCEPT !.pc = step, !.position = position, !.waiting = FALSE,
            !.poll_left = NoWait]

Poll(p) == [p EXCEPT !.waiting = TRUE, !.poll_left = PollBeats]

-----------------------------------------------------------------------------
(* Setup. *)

ctl_welcome(p, m) ==
  IF m.type = "WELCOME" THEN Turn(p, "schema", 0) ELSE Exit(p, "protocol")

ctl_request_schema(p, m) ==
  IF m.type # "SCHEMA_CHUNK" THEN Exit(p, "protocol")
  ELSE IF p.position + 1 < CtlChunks THEN Turn(p, "schema", p.position + 1)
  ELSE Turn(p, "frames", 0)

Follows(p, m, last) ==
  /\ DOMAIN m.items # {}
  /\ \E end \in p.position .. last : DOMAIN m.items = p.position .. end

\* The frames themselves are not kept.
ctl_request_frame_snapshot(p, m) ==
  LET end == p.position + Cardinality(DOMAIN m.items) IN
  IF /\ m.type = "SNAPSHOT"
     /\ Follows(p, m, FrameCount - 1)
     /\ p.position = 0 \/ m.seq = p.change_sequence
  THEN Turn([p EXCEPT !.change_sequence = m.seq],
            IF end < FrameCount THEN "frames" ELSE "signals", end)
  ELSE Exit(p, "protocol")

Keep(p, m) ==
  [p EXCEPT !.signals = [i \in Items |->
     IF i \in DOMAIN m.items \ Frames THEN m.items[i] ELSE @[i]]]

ctl_request_signal_snapshot(p, m) ==
  LET end == p.position + Cardinality(DOMAIN m.items) IN
  IF /\ m.type = "SIGNAL_SNAPSHOT_CHUNK"
     /\ Follows(p, m, FrameCount + SignalCount - 1)
     /\ m.seq = p.change_sequence
  THEN IF end < FrameCount + SignalCount
       THEN Turn(Keep(p, m), "signals", end)
       ELSE Turn(Keep(p, m), "subscribe", 0)
  ELSE Exit(p, "protocol")

\* Mutant: after a resynchronization the loop goes on counting from the last
\* change it saw before.
ctl_keeps_counting(p, m) ==
  IF m.type = "SUBSCRIBED"
  THEN Turn([p EXCEPT !.change_sequence = m.seq,
                      !.last_change_sequence = IF @ = 0 THEN m.seq ELSE @],
            "stream", 0)
  ELSE IF m.type \in {"UPDATE_BATCH", "SIGNAL_UPDATE_BATCH"}
  THEN Poll(Keep(p, m))
  ELSE Exit(p, "protocol")

\* Both callers, main and its resynchronization branch, then count from the
\* change sequence of SUBSCRIBED.
ctl_complete_subscription(p, m) ==
  IF m.type = "SUBSCRIBED"
  THEN Turn([p EXCEPT !.change_sequence = m.seq,
                      !.last_change_sequence = m.seq], "stream", 0)
  ELSE IF m.type \in {"UPDATE_BATCH", "SIGNAL_UPDATE_BATCH"}
  THEN Poll(Keep(p, m))
  ELSE Exit(p, "protocol")

-----------------------------------------------------------------------------
(* The stream loop. *)

\* The first gap is as good as any other: the count stops at one.
observe_change_sequence(p, m) ==
  [p EXCEPT !.last_change_sequence = m.seq,
            !.sequence_gaps = IF @ = 0 /\ p.last_change_sequence # 0
                                 /\ m.seq \notin {p.last_change_sequence,
                                                  p.last_change_sequence + 1}
                              THEN 1 ELSE @]

StreamLoop(p, m) ==
  CASE m.type \in {"UPDATE_BATCH", "SIGNAL_UPDATE_BATCH"} ->
         Turn(observe_change_sequence(Keep(p, m), m), "stream", 0)
    [] m.type = "HEARTBEAT" -> Turn(observe_change_sequence(p, m), "stream", 0)
    [] m.type = "RESYNC_REQUIRED" -> Turn(p, "frames", 0)
    [] OTHER -> Exit(p, "protocol")

CtlHandled(p, m) ==
  CASE p.pc = "hello"     -> ctl_welcome(p, m)
    [] p.pc = "schema"    -> ctl_request_schema(p, m)
    [] p.pc = "frames"    -> ctl_request_frame_snapshot(p, m)
    [] p.pc = "signals"   -> ctl_request_signal_snapshot(p, m)
    [] p.pc = "subscribe" -> ctl_complete_subscription(p, m)
    [] p.pc = "stream"    -> StreamLoop(p, m)

-----------------------------------------------------------------------------
(* Steps. *)

ctl_connect ==
  /\ ctl.pc = "out"
  /\ \/ ctl' = Turn(ctl, "hello", 0) /\ Dialled
     \/ ctl' = Exit(ctl, "socket") /\ UNCHANGED channelVars

ctl_send_message ==
  /\ ctl.pc \in DOMAIN Requests /\ ~ctl.waiting
  /\ \/ /\ Sends(Requests[ctl.pc], StartOf(ctl.pc, ctl.position))
        /\ ctl' = Poll(ctl)
     \/ /\ link = "cut"
        /\ ctl' = Exit(ctl, "closed")
        /\ UNCHANGED channelVars

\* read_exact gives up on POLLHUP before it looks at what has arrived.
ctl_read_message ==
  /\ ctl.waiting
  /\ \/ /\ link # "cut"
        /\ Reads
        /\ ctl' = CtlHandled(ctl, Head(inbox))
     \/ /\ link = "cut"
        /\ ctl' = Exit(ctl, "closed")
        /\ UNCHANGED channelVars

CtlExpired == ctl.waiting /\ inbox = <<>> /\ ctl.poll_left = 0

ctl_read_timeout ==
  /\ CtlExpired /\ link # "cut"
  /\ ctl' = Exit(ctl, "timeout")
  /\ UNCHANGED channelVars

\* The head of the loop: another message, or --seconds are over (or the stall
\* of --stall-after-subscribe is).
ctl_loop_head ==
  /\ ctl.pc = "stream" /\ ~ctl.waiting
  /\ ctl' \in {Poll(ctl), Exit(ctl, "done")}
  /\ UNCHANGED channelVars

\* malloc or calloc fails.
ctl_exhausted ==
  /\ ctl.pc \in {"hello", "schema"} /\ ctl.position = 0 /\ ~ctl.waiting
  /\ ctl' = Exit(ctl, "memory")
  /\ UNCHANGED channelVars

CtlInit == ctl = CtlStart

CtlNext ==
  \/ ctl_connect \/ ctl_send_message \/ ctl_read_message \/ ctl_read_timeout
  \/ ctl_loop_head \/ ctl_exhausted

CtlElapsed ==
  [ctl EXCEPT !.poll_left = IF @ > 0 THEN @ - 1 ELSE @]
=============================================================================
