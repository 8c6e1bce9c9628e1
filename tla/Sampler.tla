------------------------------- MODULE Sampler -------------------------------
(***************************************************************************)
(* The sampler thread of roadcastd, what it hands to the event loop, and   *)
(* the canonical frames and signals the event loop derives from it         *)
(* (src/roadcastd.c).  The source is Source, the contract SourceSession    *)
(* implements.                                                             *)
(*                                                                         *)
(* The two threads share `published' under published_lock, the atomics     *)
(* source_state and stop_requested, and the uv_async handle, which         *)
(* coalesces: any number of sends before the callback runs are one call.   *)
(* The time of a sample is modelled by its sequence number: both come from *)
(* the same loop and only grow.                                            *)
(***************************************************************************)
EXTENDS Source, Integers, FiniteSets

CONSTANTS
  Zero,        \* the bytes of a frame that memset has cleared
  Signals,     \* the entries of ROADCAST_SIGNALS
  FrameOf,     \* signal -> its frame
  InvalidOf,   \* signal -> the signal that flags it invalid, or NoFlag
  NoFlag,
  Raw,         \* roadcast_decode_signal_raw: signal -> bytes -> raw value
  MaxSamples   \* bound on the sample sequence

ASSUME SamplerConstants ==
  /\ Zero \in Bytes
  /\ FrameOf \in [Signals -> FrameIds]
  /\ InvalidOf \in [Signals -> Signals \cup {NoFlag}]
  \* The catalog generator pairs a signal with a flag of the same message.
  /\ \A s \in Signals : InvalidOf[s] # NoFlag =>
                          FrameOf[InvalidOf[s]] = FrameOf[s]
  /\ DOMAIN Raw = Signals
  /\ MaxSamples \in Nat

VARIABLES
  \* The sampler thread.
  pc,                   \* where sampler_thread_main is
  sequence,             \* its local sample counter
  known_generation,     \* the generation before the current read
  working,              \* sampler->working
  \* Shared between the threads.
  source_state,
  published,            \* sampler->published and its sequence
  stop_requested,
  notified,             \* uv_async_send is pending on sample_notification
  \* The event loop.
  loop,                 \* what the event-loop thread is doing
  frames, signals,      \* server->frames and server->signals
  sample_sequence,
  \* History, for the properties: the bytes of the last delivery, and the
  \* frames seen to vary since the source was opened.
  last_bytes, varied

thread == <<pc, sequence, known_generation, working>>
server == <<frames, signals, sample_sequence>>
vars == <<sourceVars, thread, source_state, published, stop_requested,
          notified, loop, server, last_bytes, varied>>

-----------------------------------------------------------------------------
(* Frames. *)

States == {"never", "valid", "invalid", "unavailable"}

Observed(state, data, first, last) ==
  [state |-> state, data |-> data, first |-> first, last |-> last]

\* What roadcast_source_session_read leaves in `sampled'.
SampledState(bytes, f) == IF bytes[f] = Missing THEN "unavailable" ELSE "never"
SampledData(bytes, f) == IF bytes[f] = Missing THEN Zero ELSE bytes[f]

Baseline(bytes) ==
  [f \in FrameIds |->
     Observed(SampledState(bytes, f), SampledData(bytes, f), 0, 0)]

\* One frame of merge_sampled_frames without initialize.
MergeFrame(old, data, now) ==
  LET moved == data # old.data
      first == IF moved /\ old.first = 0 THEN now ELSE old.first
  IN  IF data = Missing THEN [old EXCEPT !.state = "unavailable"]
      ELSE Observed(IF first # 0 THEN "valid" ELSE "never", data, first,
                    IF moved THEN now ELSE old.last)

\* Mutant: a new source is merged into what the old one left.
merge_ignoring_source(old, bytes, now, initialize) ==
  [f \in FrameIds |-> MergeFrame(old[f], bytes[f], now)]

merge_sampled_frames(old, bytes, now, initialize) ==
  IF initialize THEN Baseline(bytes)
  ELSE [f \in FrameIds |-> MergeFrame(old[f], bytes[f], now)]

StateOf(result) ==
  CASE result \in {"waiting", "failed"} -> "UNAVAILABLE"
    [] result = "degraded"              -> "DEGRADED"
    [] result = "available"             -> "AVAILABLE"

-----------------------------------------------------------------------------
(* Signals. *)

FrameChanged(old, new, f) ==
  new[f].state # old[f].state \/ new[f].data # old[f].data

RawOf(s, frame) == Raw[s][frame.data]

\* The state of a signal decoded from its frame, its invalid flag applied.
DecodedState(s, fs) ==
  LET state == fs[FrameOf[s]].state IN
  IF /\ InvalidOf[s] # NoFlag /\ state = "valid"
     /\ RawOf(InvalidOf[s], fs[FrameOf[s]]) # 0
  THEN "invalid" ELSE state

\* roadcast_decode_signals, and the timestamps main gives its result.
decode_signals(fs) ==
  [s \in Signals |->
     Observed(DecodedState(s, fs), RawOf(s, fs[FrameOf[s]]), 0, 0)]

\* Mutant: the last change of a signal is its frame's.
ReconcileAlways(new, old, now) ==
  [new EXCEPT !.first = IF old.first # 0 THEN old.first ELSE now,
              !.last = now]

\* One signal of reconcile_signal_timestamps.
Reconcile(new, old, now) ==
  IF old.first # 0
  THEN IF new.state = "unavailable"
       THEN [old EXCEPT !.state = "unavailable"]
       ELSE [new EXCEPT !.first = old.first,
                        !.last = IF new.data = old.data /\ new.state = old.state
                                 THEN old.last ELSE now]
  ELSE IF new.state = "valid"
       THEN [new EXCEPT !.first = now, !.last = now]
       ELSE [new EXCEPT !.first = 0, !.last = 0]

\* Mutant: signals of a frame that only changed its state keep their values.
latest_signals_by_data(new, now) ==
  [s \in Signals |->
     LET f == FrameOf[s] IN
     Reconcile(IF new[f].data # frames[f].data
               THEN [signals[s] EXCEPT !.state = DecodedState(s, new),
                                       !.data = RawOf(s, new[f])]
               ELSE signals[s],
               signals[s], now)]

\* The signals distribute_latest_sample computes: those of changed frames
\* are decoded again, and every timestamp is reconciled.
latest_signals(new, now) ==
  [s \in Signals |->
     LET f == FrameOf[s] IN
     Reconcile(IF FrameChanged(frames, new, f)
               THEN [signals[s] EXCEPT !.state = DecodedState(s, new),
                                       !.data = RawOf(s, new[f])]
               ELSE signals[s],
               signals[s], now)]

-----------------------------------------------------------------------------
(* Reading the source: sampler_init once, then sampler_thread_main. *)

Init ==
  /\ SourceInit
  /\ pc = "init" /\ sequence = 0 /\ known_generation = 0
  /\ working = Baseline(Nothing)
  /\ source_state = "AVAILABLE"
  /\ published = [frames |-> Baseline(Nothing), sequence |-> 0]
  /\ stop_requested = FALSE /\ notified = FALSE
  /\ loop = "starting"
  /\ frames = Baseline(Nothing)
  /\ signals = decode_signals(frames)
  /\ sample_sequence = 0
  /\ last_bytes = Nothing /\ varied = {}

\* roadcast_source_session_read: perhaps an open, then one delivery or none.
ReadSource ==
  /\ pc \in {"init", "read"}
  /\ \/ /\ Open
        /\ last_bytes' = Nothing /\ varied' = {}
        /\ UNCHANGED pc
     \/ /\ Deliver
        /\ last_bytes' = outcome'.bytes
        /\ varied' = varied \cup
             {f \in FrameIds : last_bytes[f] \notin {Missing, outcome'.bytes[f]}}
        /\ pc' = IF pc = "init" THEN "init_merge" ELSE "merge"
     \/ /\ Refuse
        /\ UNCHANGED <<last_bytes, varied>>
        /\ pc' = IF pc = "init" THEN "init_merge" ELSE "merge"
  /\ UNCHANGED <<sequence, known_generation, working, source_state, published,
                 stop_requested, notified, loop, server>>

\* The rest of sampler_init, and main up to initialize_libuv.
sampler_init ==
  /\ pc = "init_merge"
  /\ working' = merge_sampled_frames(working, outcome.bytes, 0, TRUE)
  /\ source_state' = StateOf(outcome.result)
  /\ published' = [frames |-> working', sequence |-> 0]
  /\ frames' = working'
  /\ signals' = decode_signals(working')
  /\ pc' = "ready"
  /\ UNCHANGED <<sourceVars, sequence, known_generation, stop_requested,
                 notified, loop, sample_sequence, last_bytes, varied>>

\* sampler_start.  When the transport or the thread cannot be created, main
\* shuts down at once, without a thread to join.
sampler_start ==
  /\ pc = "ready"
  /\ \/ pc' = "sleep" /\ loop' = "running" /\ UNCHANGED stop_requested
     \/ pc' = "done" /\ loop' = "joining" /\ stop_requested' = TRUE
  /\ UNCHANGED <<sourceVars, sequence, known_generation, working,
                 source_state, published, notified, server, last_bytes,
                 varied>>

\* Mutant: a stopped thread keeps sleeping (continue in place of break).
WakeDeaf ==
  /\ pc = "sleep"
  /\ \/ /\ stop_requested
        /\ UNCHANGED <<pc, sequence, known_generation>>
     \/ /\ ~stop_requested
        /\ sequence < MaxSamples
        /\ sequence' = sequence + 1
        /\ known_generation' = generation
        /\ pc' = "read"
  /\ UNCHANGED <<sourceVars, working, source_state, published,
                 stop_requested, notified, loop, server, last_bytes, varied>>

Wake ==
  /\ pc = "sleep"
  /\ \/ /\ stop_requested
        /\ pc' = "done"
        /\ UNCHANGED <<sequence, known_generation>>
     \/ /\ ~stop_requested
        /\ sequence < MaxSamples
        /\ sequence' = sequence + 1
        /\ known_generation' = generation
        /\ pc' = "read"
  /\ UNCHANGED <<sourceVars, working, source_state, published,
                 stop_requested, notified, loop, server, last_bytes, varied>>

\* merge_sampled_frames and the store to source_state, which the event loop
\* can see before the sample.
Merge ==
  /\ pc = "merge"
  /\ working' = merge_sampled_frames(working, outcome.bytes, sequence,
                  Delivered(outcome) /\ generation # known_generation)
  /\ source_state' = StateOf(outcome.result)
  /\ pc' = "publish"
  /\ UNCHANGED <<sourceVars, sequence, known_generation, published,
                 stop_requested, notified, loop, server, last_bytes, varied>>

\* Mutant: a sample equal to the last one is not announced.
PublishQuietly ==
  /\ pc = "publish"
  /\ published' = [frames |-> working, sequence |-> sequence]
  /\ pc' = IF working = published.frames THEN "sleep" ELSE "notify"
  /\ UNCHANGED <<sourceVars, sequence, known_generation, working,
                 source_state, stop_requested, notified, loop, server,
                 last_bytes, varied>>

\* sampler_publish: the copy under published_lock, then uv_async_send.
Publish ==
  /\ pc = "publish"
  /\ published' = [frames |-> working, sequence |-> sequence]
  /\ pc' = "notify"
  /\ UNCHANGED <<sourceVars, sequence, known_generation, working,
                 source_state, stop_requested, notified, loop, server,
                 last_bytes, varied>>

Notify ==
  /\ pc = "notify"
  /\ notified' = TRUE
  /\ pc' = "sleep"
  /\ UNCHANGED <<sourceVars, sequence, known_generation, working,
                 source_state, published, stop_requested, loop, server,
                 last_bytes, varied>>

-----------------------------------------------------------------------------
(* The event loop. *)

\* libuv clears the pending flag of the handle before it calls back.
AsyncCallback ==
  /\ loop = "running"
  /\ notified
  /\ notified' = FALSE
  /\ loop' = "sampling"
  /\ UNCHANGED <<sourceVars, thread, source_state, published, stop_requested,
                 server, last_bytes, varied>>

\* What distribute_latest_sample does to the canonical state; Broker models
\* what it sends.  Without a changed frame the signals are left alone.
distribute_latest_sample ==
  /\ loop = "sampling"
  /\ loop' = "running"
  /\ LET latest == published.frames
     IN  \/ published.sequence <= sample_sequence /\ UNCHANGED server
         \/ /\ published.sequence > sample_sequence
            /\ sample_sequence' = published.sequence
            /\ frames' = latest
            /\ signals' = IF \E f \in FrameIds : FrameChanged(frames, latest, f)
                          THEN latest_signals(latest, published.sequence)
                          ELSE signals
  /\ UNCHANGED <<sourceVars, thread, source_state, published, stop_requested,
                 notified, last_bytes, varied>>

\* server_shutdown reaches sampler_stop, which sets the flag and joins.
server_shutdown ==
  /\ loop = "running"
  /\ stop_requested' = TRUE
  /\ loop' = "joining"
  /\ UNCHANGED <<sourceVars, thread, source_state, published, notified,
                 server, last_bytes, varied>>

\* Mutant: the thread is not waited for.
stop_without_join ==
  /\ loop = "joining"
  /\ loop' = "closed"
  /\ UNCHANGED <<sourceVars, thread, source_state, published, stop_requested,
                 notified, server, last_bytes, varied>>

\* pthread_join returns; the rest of server_shutdown closes the handles.
sampler_stop ==
  /\ loop = "joining"
  /\ pc = "done"
  /\ loop' = "closed"
  /\ UNCHANGED <<sourceVars, thread, source_state, published, stop_requested,
                 notified, server, last_bytes, varied>>

sampler_destroy ==
  /\ loop = "closed"
  /\ Close
  /\ loop' = "exited"
  /\ UNCHANGED <<thread, source_state, published, stop_requested, notified,
                 server, last_bytes, varied>>

Exited == loop = "exited" /\ UNCHANGED vars

Thread ==
  ReadSource \/ sampler_init \/ sampler_start \/ Wake \/ Merge \/ Publish
    \/ Notify
EventLoop ==
  AsyncCallback \/ distribute_latest_sample \/ sampler_stop \/ sampler_destroy

Next == Thread \/ EventLoop \/ server_shutdown \/ Exited

Spec == Init /\ [][Next]_vars

\* Both threads run; nothing is assumed of the signals that stop the daemon.
FairSpec == Spec /\ WF_vars(Thread) /\ WF_vars(EventLoop)

-----------------------------------------------------------------------------
(* Properties. *)

\* ARCHITECTURE.md:96-98 "frames must change again to become observed": a
\* frame is valid exactly when its bytes have varied since the source in use
\* was opened, whatever an earlier source delivered.
ValidMeansObserved ==
  pc \in {"publish", "notify", "sleep"} =>
    \A f \in FrameIds : working[f].state # "unavailable" =>
      (working[f].state = "valid" <=> f \in varied)

\* Decoding only the signals of changed frames, over samples that coalesce,
\* leaves what decoding all of them would; a signal that is unavailable may
\* keep an older raw value.
SignalsFollowFrames ==
  pc \notin {"init", "init_merge"} =>
    \A s \in Signals :
      /\ signals[s].state = DecodedState(s, frames)
      /\ signals[s].state # "unavailable" =>
           signals[s].data = RawOf(s, frames[FrameOf[s]])

\* The first observation of a signal is never forgotten, not even by a new
\* source, and its last change moves only with its value or its state.
SignalHistoryKept ==
  [][\A s \in Signals : signals[s].first # 0 =>
       /\ signals'[s].first = signals[s].first
       /\ signals'[s].last # signals[s].last =>
            \/ signals'[s].data # signals[s].data
            \/ signals'[s].state # signals[s].state]_vars

\* No wake-up is lost between uv_async_send and its callback: when nothing is
\* pending the event loop holds the newest sample, and the source state it
\* reports is the one of that sample.
NothingPending ==
  loop = "running" /\ pc = "sleep" /\ ~notified =>
    /\ frames = working
    /\ sample_sequence = sequence
    /\ (source_state = "UNAVAILABLE" <=>
          \A f \in FrameIds : frames[f].state = "unavailable")

\* sampler_stop joins before server_shutdown closes sample_notification: the
\* thread never signals a closed handle nor reads a closed source.
ThreadOutlived == loop \in {"closed", "exited"} => pc = "done"

\* The join in server_shutdown returns and the daemon ends.
StopCompletes == stop_requested ~> (loop = "exited")
=============================================================================
