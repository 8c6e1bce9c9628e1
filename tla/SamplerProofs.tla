---------------------------- MODULE SamplerProofs ----------------------------
(***************************************************************************)
(* What Sampler promises for any set of frames, signals and bytes and any  *)
(* number of samples and sources: no wake-up is lost between the threads,  *)
(* a frame is valid exactly when it was seen to vary, decoding the changed *)
(* frames is as good as decoding all, and the thread is outlived by what   *)
(* it uses.                                                                *)
(***************************************************************************)
EXTENDS Sampler, TLAPS

\* Larger obligations take the provers longer than their default limits.
USE SMTT(30), ZenonT(30)

Frame == [state : States, data : Bytes, first : Nat, last : Nat]

RawValues == {Raw[s][b] : s \in Signals, b \in Bytes}

Signal == [state : States, data : RawValues, first : Nat, last : Nat]

TypeOK ==
  /\ connected \in BOOLEAN
  /\ generation \in Nat
  /\ resolved \in SUBSET FrameIds
  /\ outcome \in [result : {"waiting", "failed", "degraded", "available"},
                  bytes : [FrameIds -> Bytes \cup {Missing}]]
  /\ pc \in {"init", "init_merge", "ready", "sleep", "read", "merge",
             "publish", "notify", "done"}
  /\ sequence \in Nat
  /\ known_generation \in Nat
  /\ working \in [FrameIds -> Frame]
  /\ source_state \in {"UNAVAILABLE", "DEGRADED", "AVAILABLE"}
  /\ published \in [frames : [FrameIds -> Frame], sequence : Nat]
  /\ stop_requested \in BOOLEAN
  /\ notified \in BOOLEAN
  /\ loop \in {"starting", "running", "sampling", "joining", "closed",
               "exited"}
  /\ frames \in [FrameIds -> Frame]
  /\ signals \in [Signals -> Signal]
  /\ sample_sequence \in Nat
  /\ last_bytes \in [FrameIds -> Bytes \cup {Missing}]
  /\ varied \in SUBSET FrameIds

-----------------------------------------------------------------------------
(* The hand-over between the threads. *)

Starting == {"init", "init_merge", "ready"}

\* The event loop starts with the thread and closes after it.
Phases ==
  /\ loop = "starting" <=> pc \in Starting
  /\ loop \in {"closed", "exited"} => pc = "done"

\* What is published is the newest merged sample, and what the event loop
\* has taken is what was published under the same number.
HandedOver ==
  /\ pc \in Starting => sequence = 0 /\ sample_sequence = 0
  /\ pc \in {"read", "merge", "publish"} => published.sequence < sequence
  /\ pc \in {"ready", "notify", "sleep"} =>
       published.frames = working /\ published.sequence = sequence
  /\ sample_sequence <= published.sequence
  /\ sample_sequence = published.sequence => frames = published.frames

\* A sample the running event loop has not taken is announced, or about to
\* be.
Announced ==
  loop = "running" /\ ~notified /\ pc # "notify" =>
    sample_sequence = published.sequence

-----------------------------------------------------------------------------
(* The frames. *)

\* A read delivers all resolved frames, of which there is one, or none.
Atomic ==
  /\ connected <=> resolved # {}
  /\ IF Delivered(outcome) THEN \E f \in FrameIds : outcome.bytes[f] # Missing
                           ELSE outcome.bytes = Nothing

Reported ==
  pc \in {"ready", "publish", "notify", "sleep"} =>
    (source_state = "UNAVAILABLE" <=>
       \A f \in FrameIds : working[f].state = "unavailable")

\* The merged sample tells of each frame of the source in use whether it has
\* varied, and keeps its last bytes.
Settled ==
  \A f \in FrameIds :
    IF f \in resolved
    THEN /\ last_bytes[f] = working[f].data
         /\ working[f].first # 0 <=> f \in varied
         /\ working[f].state = IF f \in varied THEN "valid" ELSE "never"
    ELSE working[f].state = "unavailable"

\* The source has been opened, and not read.
Fresh == connected /\ last_bytes = Nothing /\ varied = {}

\* What a read of the source has left for merge_sampled_frames.
ReadDone ==
  IF Delivered(outcome)
  THEN /\ connected
       /\ last_bytes = outcome.bytes
       /\ \A f \in FrameIds : outcome.bytes[f] # Missing <=> f \in resolved
       /\ IF generation # known_generation THEN varied = {}
          ELSE \A f \in resolved :
                 f \in varied <=>
                   working[f].first # 0 \/ outcome.bytes[f] # working[f].data
  ELSE ~connected

Merged ==
  /\ pc = "init" => last_bytes = Nothing /\ varied = {}
  /\ pc \in {"ready", "publish", "notify", "sleep"} => Settled
  /\ pc = "read" => \/ generation = known_generation /\ Settled
                    \/ generation > known_generation /\ Fresh
  /\ pc \in {"init_merge", "merge"} => ReadDone
  /\ known_generation <= generation
  /\ pc \in {"read", "merge"} => sequence # 0
  /\ connected => generation # 0
  /\ pc \in Starting => known_generation = 0

-----------------------------------------------------------------------------
(* The signals. *)

Unobserved ==
  pc \in {"init", "init_merge"} => \A s \in Signals : signals[s].first = 0

Inv ==
  /\ TypeOK
  /\ Phases
  /\ HandedOver
  /\ Announced
  /\ Atomic
  /\ Reported
  /\ Merged
  /\ Unobserved
  /\ SignalsFollowFrames

-----------------------------------------------------------------------------
(* Frames and signals are well formed. *)

\* The baseline of a source.
LEMMA BaselineType ==
  ASSUME NEW bytes \in [FrameIds -> Bytes \cup {Missing}]
  PROVE  Baseline(bytes) \in [FrameIds -> Frame]
<1>1. \A f \in FrameIds :
        Observed(SampledState(bytes, f), SampledData(bytes, f), 0, 0) \in Frame
  BY SamplerConstants
     DEF Observed, SampledState, SampledData, Frame, States
<1> QED
  BY <1>1 DEF Baseline

\* One merged frame.
LEMMA MergeType ==
  ASSUME NEW old \in Frame, NEW data \in Bytes \cup {Missing}, NEW now \in Nat
  PROVE  MergeFrame(old, data, now) \in Frame
  BY DEF MergeFrame, Observed, Frame, States

\* The merged frames.
LEMMA MergedType ==
  ASSUME NEW old \in [FrameIds -> Frame], NEW now \in Nat,
         NEW bytes \in [FrameIds -> Bytes \cup {Missing}],
         NEW initialize \in BOOLEAN
  PROVE  merge_sampled_frames(old, bytes, now, initialize)
           \in [FrameIds -> Frame]
<1>1. \A f \in FrameIds : MergeFrame(old[f], bytes[f], now) \in Frame
  BY MergeType
<1> QED
  BY <1>1, BaselineType DEF merge_sampled_frames

\* What a frame decodes to.
LEMMA DecodedType ==
  ASSUME NEW fs \in [FrameIds -> Frame], NEW s \in Signals
  PROVE  /\ DecodedState(s, fs) \in States
         /\ RawOf(s, fs[FrameOf[s]]) \in RawValues
  BY SamplerConstants DEF DecodedState, RawOf, RawValues, Frame, States

\* The signals of the first sample.
LEMMA DecodeType ==
  ASSUME NEW fs \in [FrameIds -> Frame]
  PROVE  /\ decode_signals(fs) \in [Signals -> Signal]
         /\ \A s \in Signals :
              /\ decode_signals(fs)[s].first = 0
              /\ decode_signals(fs)[s].state = DecodedState(s, fs)
              /\ decode_signals(fs)[s].data = RawOf(s, fs[FrameOf[s]])
<1>1. \A s \in Signals :
        Observed(DecodedState(s, fs), RawOf(s, fs[FrameOf[s]]), 0, 0) \in Signal
  BY DecodedType DEF Observed, Signal
<1> QED
  BY Zenon, <1>1 DEF decode_signals, Observed

\* What reconcile_signal_timestamps makes of one signal.
LEMMA ReconcileFacts ==
  ASSUME NEW new \in Signal, NEW old \in Signal, NEW now \in Nat
  PROVE  LET r == Reconcile(new, old, now)
         IN  /\ r \in Signal
             /\ r.state = new.state
             /\ new.state # "unavailable" => r.data = new.data
             /\ old.first # 0 =>
                  /\ r.first = old.first
                  /\ r.last # old.last =>
                       r.data # old.data \/ r.state # old.state
  BY Zenon DEF Reconcile, Signal, States

\* What distribute_latest_sample makes of one signal.
LEMMA LatestFacts ==
  ASSUME TypeOK, NEW new \in [FrameIds -> Frame], NEW now \in Nat
  PROVE  /\ latest_signals(new, now) \in [Signals -> Signal]
         /\ \A s \in Signals :
              LET r == latest_signals(new, now)[s]
                  changed == FrameChanged(frames, new, FrameOf[s])
              IN  /\ r.state = IF changed THEN DecodedState(s, new)
                                          ELSE signals[s].state
                  /\ r.state # "unavailable" =>
                       r.data = IF changed THEN RawOf(s, new[FrameOf[s]])
                                           ELSE signals[s].data
                  /\ signals[s].first # 0 =>
                       /\ r.first = signals[s].first
                       /\ r.last # signals[s].last =>
                            \/ r.data # signals[s].data
                            \/ r.state # signals[s].state
<1> DEFINE N(s) == IF FrameChanged(frames, new, FrameOf[s])
                   THEN [signals[s] EXCEPT !.state = DecodedState(s, new),
                                           !.data = RawOf(s, new[FrameOf[s]])]
                   ELSE signals[s]
<1>1. ASSUME NEW s \in Signals
      PROVE  /\ N(s) \in Signal /\ signals[s] \in Signal
             /\ N(s).state = IF FrameChanged(frames, new, FrameOf[s])
                             THEN DecodedState(s, new) ELSE signals[s].state
             /\ N(s).data = IF FrameChanged(frames, new, FrameOf[s])
                            THEN RawOf(s, new[FrameOf[s]]) ELSE signals[s].data
  <2>1. /\ signals[s] \in Signal
        /\ DecodedState(s, new) \in States
        /\ RawOf(s, new[FrameOf[s]]) \in RawValues
    BY DecodedType DEF TypeOK
  <2>2. CASE FrameChanged(frames, new, FrameOf[s])
    BY Zenon, <2>1, <2>2 DEF Signal
  <2>3. CASE ~FrameChanged(frames, new, FrameOf[s])
    BY <2>1, <2>3
  <2> QED
    BY <2>2, <2>3
<1>2. latest_signals(new, now) =
        [s \in Signals |-> Reconcile(N(s), signals[s], now)]
  BY DEF latest_signals
<1> HIDE DEF N
<1> DEFINE R(s) == Reconcile(N(s), signals[s], now)
<1>3. ASSUME NEW s \in Signals
      PROVE  /\ R(s) \in Signal
             /\ R(s).state = N(s).state
             /\ N(s).state # "unavailable" => R(s).data = N(s).data
             /\ signals[s].first # 0 =>
                  /\ R(s).first = signals[s].first
                  /\ R(s).last # signals[s].last =>
                       \/ R(s).data # signals[s].data
                       \/ R(s).state # signals[s].state
  BY Zenon, <1>1, ReconcileFacts
<1>4. latest_signals(new, now) = [s \in Signals |-> R(s)]
  BY <1>2
<1> HIDE DEF R
<1>5. /\ latest_signals(new, now) \in [Signals -> Signal]
      /\ \A s \in Signals : latest_signals(new, now)[s] = R(s)
  BY <1>3, <1>4
<1> QED
  BY <1>1, <1>3, <1>5

-----------------------------------------------------------------------------
(* The steps of the sampler thread. *)

\* roadcast_source_session_read opens the source.
LEMMA OpenInv ==
  ASSUME Inv, ReadSource, Open, UNCHANGED pc, last_bytes' = Nothing,
         varied' = {}
  PROVE  Inv'
<1>0. UNCHANGED <<pc, sequence, known_generation, working, source_state,
                  published, stop_requested, notified, loop, frames, signals,
                  sample_sequence, outcome>>
  BY DEF ReadSource, server, Open
<1>1. TypeOK'
  BY <1>0 DEF Inv, TypeOK, Open, Nothing
<1>2. Phases' /\ HandedOver' /\ Announced' /\ Reported' /\ Unobserved'
  BY <1>0
     DEF Inv, Phases, HandedOver, Announced, Reported, Unobserved
<1>3. Atomic'
  BY <1>0 DEF Inv, Atomic, Open
<1>4. Merged'
  BY <1>0 DEF Inv, TypeOK, Merged, Fresh, ReadSource, Open, Starting
<1>5. SignalsFollowFrames'
  BY <1>0 DEF Inv, SignalsFollowFrames
<1> QED
  BY <1>1, <1>2, <1>3, <1>4, <1>5 DEF Inv

\* The result of a read is delivered, or refused.
LEMMA ReadInv ==
  ASSUME Inv, ReadSource,
         pc' = IF pc = "init" THEN "init_merge" ELSE "merge",
         TypeOK', Atomic', ReadDone', UNCHANGED generation
  PROVE  Inv'
<1>0. /\ UNCHANGED <<sequence, known_generation, working, source_state,
                     published, stop_requested, notified, loop, frames,
                     signals, sample_sequence, generation>>
      /\ pc \in {"init", "read"}
      /\ connected' => connected
  BY DEF ReadSource, server, Open, Deliver, Refuse
<1>2. Phases' /\ HandedOver' /\ Announced' /\ Reported' /\ Unobserved'
  BY <1>0
     DEF Inv, Phases, HandedOver, Announced, Reported, Unobserved, Starting
<1>4. Merged'
  BY <1>0 DEF Inv, Merged, Starting
<1>5. SignalsFollowFrames'
  BY <1>0 DEF Inv, SignalsFollowFrames
<1> QED
  BY <1>2, <1>4, <1>5 DEF Inv

\* A delivery.
LEMMA DeliverInv ==
  ASSUME Inv, ReadSource, Deliver, last_bytes' = outcome'.bytes,
         varied' = varied \cup
           {f \in FrameIds : last_bytes[f] \notin {Missing, outcome'.bytes[f]}},
         pc' = IF pc = "init" THEN "init_merge" ELSE "merge"
  PROVE  Inv'
<1>0. /\ UNCHANGED <<sequence, known_generation, working, source_state,
                     published, stop_requested, notified, loop, frames,
                     signals, sample_sequence, connected, generation,
                     resolved>>
      /\ pc \in {"init", "read"} /\ connected /\ TypeOK
  BY DEF Inv, ReadSource, server, Deliver
<1>1. PICK result \in {"degraded", "available"}, data \in [resolved -> Bytes] :
        outcome' = [result |-> result,
                    bytes |-> [f \in FrameIds |->
                      IF f \in resolved THEN data[f] ELSE Missing]]
  BY Zenon DEF Deliver
<1>2. /\ Delivered(outcome')
      /\ outcome'.bytes \in [FrameIds -> Bytes \cup {Missing}]
      /\ \A f \in FrameIds : outcome'.bytes[f] # Missing <=> f \in resolved
      /\ outcome' \in [result : {"waiting", "failed", "degraded", "available"},
                        bytes : [FrameIds -> Bytes \cup {Missing}]]
  BY <1>1, SourceConstants DEF Delivered
<1>3. TypeOK'
  BY <1>0, <1>2 DEF TypeOK
<1>4. Atomic'
  BY <1>0, <1>2 DEF Inv, Atomic, TypeOK
<1>5. ReadDone'
  <2>1. CASE last_bytes = Nothing /\ varied = {} /\ generation # known_generation
    <3>1. varied' = {}
      BY <2>1 DEF Nothing
    <3> QED
      BY <1>0, <1>2, <2>1, <3>1 DEF ReadDone
  <2>2. CASE generation = known_generation /\ Settled
    <3>1. ASSUME NEW f \in resolved
          PROVE  f \in varied' <=>
                   working[f].first # 0 \/ outcome'.bytes[f] # working[f].data
      <4>1. f \in FrameIds /\ working[f].data # Missing
        BY <1>0, SourceConstants DEF TypeOK, Frame
      <4> QED
        BY <2>2, <4>1 DEF Settled
    <3> QED
      BY <1>0, <1>2, <2>2, <3>1 DEF ReadDone
  <2> QED
    BY <1>0, <2>1, <2>2 DEF Inv, Merged, Fresh, Starting, TypeOK
<1> QED
  BY <1>0, <1>3, <1>4, <1>5, ReadInv

\* A refusal: the session is no longer connected, and nothing is delivered.
LEMMA RefuseInv ==
  ASSUME Inv, ReadSource, Refuse, UNCHANGED <<last_bytes, varied>>,
         pc' = IF pc = "init" THEN "init_merge" ELSE "merge"
  PROVE  Inv'
<1>0. /\ UNCHANGED <<sequence, known_generation, working, source_state,
                     published, stop_requested, notified, loop, frames,
                     signals, sample_sequence, generation>>
      /\ pc \in {"init", "read"} /\ TypeOK
  BY DEF Inv, ReadSource, server, Refuse
<1>1. /\ outcome'.result \in {"waiting", "failed"}
      /\ outcome'.bytes = Nothing
      /\ outcome' \in [result : {"waiting", "failed", "degraded", "available"},
                        bytes : [FrameIds -> Bytes \cup {Missing}]]
      /\ ~connected' /\ resolved' = {}
  BY DEF Refuse, Nothing
<1>2. TypeOK'
  BY Zenon, <1>0, <1>1 DEF TypeOK, Refuse
<1>3. Atomic' /\ ReadDone'
  BY <1>1 DEF Atomic, ReadDone, Delivered
<1> QED
  BY <1>0, <1>2, <1>3, ReadInv

\* The first sample.
LEMMA InitializeInv ==
  ASSUME Inv, sampler_init
  PROVE  Inv'
<1>0. /\ UNCHANGED <<connected, generation, resolved, outcome, sequence,
                     known_generation, stop_requested, notified, loop,
                     sample_sequence, last_bytes, varied>>
      /\ pc = "init_merge" /\ pc' = "ready" /\ TypeOK
      /\ outcome.bytes \in [FrameIds -> Bytes \cup {Missing}]
  BY DEF Inv, TypeOK, sampler_init, sourceVars
<1>1. /\ working' = Baseline(outcome.bytes)
      /\ working' \in [FrameIds -> Frame]
      /\ published'.frames = working' /\ published'.sequence = 0
      /\ frames' = working'
      /\ signals' = decode_signals(working')
      /\ published' \in [frames : [FrameIds -> Frame], sequence : Nat]
  BY <1>0, BaselineType DEF sampler_init, merge_sampled_frames
<1>2. /\ source_state' \in {"UNAVAILABLE", "DEGRADED", "AVAILABLE"}
      /\ source_state' = "UNAVAILABLE" <=> ~Delivered(outcome)
  BY <1>0 DEF sampler_init, StateOf, Delivered, TypeOK
<1>3. TypeOK'
  BY <1>0, <1>1, <1>2, DecodeType DEF TypeOK
<1>4. Phases' /\ HandedOver' /\ Announced' /\ Unobserved'
  BY <1>0, <1>1
     DEF Inv, Phases, HandedOver, Announced, Unobserved, Starting
<1>5. \A f \in FrameIds :
        /\ working'[f].state = IF outcome.bytes[f] = Missing
                               THEN "unavailable" ELSE "never"
        /\ outcome.bytes[f] # Missing => working'[f].data = outcome.bytes[f]
        /\ working'[f].first = 0
  BY <1>1 DEF Baseline, Observed, SampledState, SampledData
<1>6. Atomic' /\ Reported'
  BY <1>0, <1>2, <1>5 DEF Inv, Atomic, Reported, Nothing
<1>7. Merged'
  <2>1. Settled'
    BY <1>0, <1>5
       DEF Inv, Merged, Atomic, ReadDone, Settled, Nothing, Starting, TypeOK
  <2> QED
    BY <1>0, <2>1 DEF Inv, Merged, Starting
<1>8. SignalsFollowFrames'
  BY <1>1, DecodeType DEF SignalsFollowFrames
<1> QED
  BY <1>3, <1>4, <1>6, <1>7, <1>8 DEF Inv

\* merge_sampled_frames on a later sample.
LEMMA MergeInv ==
  ASSUME Inv, Merge
  PROVE  Inv'
<1> DEFINE initialize == Delivered(outcome) /\ generation # known_generation
<1>0. /\ UNCHANGED <<connected, generation, resolved, outcome, sequence,
                     known_generation, published, stop_requested, notified,
                     loop, frames, signals, sample_sequence, last_bytes,
                     varied>>
      /\ pc = "merge" /\ pc' = "publish" /\ TypeOK /\ sequence # 0
      /\ outcome.bytes \in [FrameIds -> Bytes \cup {Missing}]
  BY DEF Inv, Merged, TypeOK, Merge, sourceVars, server
<1>1. /\ working' =
           merge_sampled_frames(working, outcome.bytes, sequence, initialize)
      /\ working' \in [FrameIds -> Frame]
  <2>1. working' =
          merge_sampled_frames(working, outcome.bytes, sequence, initialize)
    BY DEF Merge
  <2>2. initialize \in BOOLEAN
    OBVIOUS
  <2> HIDE DEF initialize
  <2>3. working \in [FrameIds -> Frame] /\ sequence \in Nat
    BY <1>0 DEF TypeOK
  <2> QED
    BY Zenon, <1>0, <2>1, <2>2, <2>3, MergedType
<1>2. /\ source_state' \in {"UNAVAILABLE", "DEGRADED", "AVAILABLE"}
      /\ source_state' = "UNAVAILABLE" <=> ~Delivered(outcome)
  BY <1>0 DEF Merge, StateOf, Delivered, TypeOK
<1>3. TypeOK'
  BY <1>0, <1>1, <1>2 DEF TypeOK
<1>4. Phases' /\ HandedOver' /\ Announced' /\ Unobserved'
  BY <1>0 DEF Inv, Phases, HandedOver, Announced, Unobserved, Starting
<1>5. ASSUME NEW f \in FrameIds
      PROVE  /\ outcome.bytes[f] = Missing => working'[f].state = "unavailable"
             /\ outcome.bytes[f] # Missing =>
                  /\ working'[f].data = outcome.bytes[f]
                  /\ working'[f].state =
                       IF working'[f].first # 0 THEN "valid" ELSE "never"
                  /\ working'[f].first # 0 <=>
                       /\ ~initialize
                       /\ \/ working[f].first # 0
                          \/ outcome.bytes[f] # working[f].data
  <2>0. working[f] \in Frame /\ sequence \in Nat \ {0}
    BY <1>0 DEF TypeOK
  <2>1. CASE initialize
    <3>1. working'[f] = Observed(SampledState(outcome.bytes, f),
                                 SampledData(outcome.bytes, f), 0, 0)
      BY <1>1, <2>1 DEF merge_sampled_frames, Baseline
    <3> QED
      BY <2>1, <3>1 DEF Observed, SampledState, SampledData
  <2>2. CASE ~initialize
    <3>1. working'[f] = MergeFrame(working[f], outcome.bytes[f], sequence)
      BY <1>1, <2>2 DEF merge_sampled_frames
    <3> QED
      BY <2>0, <2>2, <3>1 DEF MergeFrame, Observed, Frame
  <2> QED
    BY <2>1, <2>2
<1>6. Atomic' /\ Reported'
  <2>1. Atomic'
    BY <1>0 DEF Inv, Atomic
  <2>2. CASE Delivered(outcome)
    <3>1. PICK f \in FrameIds : outcome.bytes[f] # Missing
      BY <2>2 DEF Inv, Atomic
    <3>2. working'[f].state # "unavailable"
      BY <1>5, <3>1
    <3> QED
      BY <1>2, <2>1, <2>2, <3>2 DEF Reported
  <2>3. CASE ~Delivered(outcome)
    <3>1. \A f \in FrameIds : outcome.bytes[f] = Missing
      BY Zenon, <2>3 DEF Inv, Atomic, Nothing
    <3> QED
      BY <1>2, <1>5, <2>1, <2>3, <3>1 DEF Reported
  <2> QED
    BY <2>2, <2>3
<1>7. Merged'
  <2>1. ReadDone /\ Atomic
    BY <1>0 DEF Inv, Merged
  <2>2. Settled'
    <3>1. CASE Delivered(outcome)
      BY <1>0, <1>5, <2>1, <3>1 DEF ReadDone, Settled, TypeOK
    <3>2. CASE ~Delivered(outcome)
      BY <1>0, <1>5, <2>1, <3>2 DEF ReadDone, Settled, Atomic, Nothing
    <3> QED
      BY <3>1, <3>2
  <2> QED
    BY <1>0, <2>2 DEF Inv, Merged, Starting
<1>8. SignalsFollowFrames'
  BY <1>0 DEF Inv, SignalsFollowFrames
<1> QED
  BY <1>3, <1>4, <1>6, <1>7, <1>8 DEF Inv

\* The steps that read neither the source nor a sample: the start, the sleep
\* between two samples, sampler_publish and uv_async_send.
LEMMA ThreadInv ==
  ASSUME Inv, sampler_start \/ Wake \/ Publish \/ Notify
  PROVE  Inv'
<1>0. /\ UNCHANGED <<connected, generation, resolved, outcome, working,
                     source_state, frames, signals, sample_sequence,
                     last_bytes, varied>>
      /\ TypeOK
  BY DEF Inv, sampler_start, Wake, Publish, Notify, sourceVars, server
<1>1. Atomic' /\ Unobserved' /\ SignalsFollowFrames'
  BY <1>0 DEF Inv, Atomic, Unobserved, SignalsFollowFrames, sampler_start,
              Wake, Publish, Notify
<1>2. CASE sampler_start
  <2>1. TypeOK'
    BY Zenon, <1>0, <1>2 DEF TypeOK, sampler_start
  <2>2. Phases' /\ HandedOver' /\ Announced' /\ Reported'
    BY <1>0, <1>2
       DEF Inv, Phases, HandedOver, Announced, Reported, sampler_start,
           Starting
  <2>3. Merged'
    BY <1>0, <1>2 DEF Inv, Merged, Settled, sampler_start, Starting
  <2> QED
    BY <1>1, <2>1, <2>2, <2>3 DEF Inv
<1>3. CASE Wake
  <2>1. TypeOK'
    BY <1>0, <1>3 DEF TypeOK, Wake
  <2>2. Phases' /\ HandedOver' /\ Announced' /\ Reported'
    BY <1>0, <1>3
       DEF Inv, TypeOK, Phases, HandedOver, Announced, Reported, Wake,
           Starting
  <2>3. Merged'
    BY <1>0, <1>3 DEF Inv, TypeOK, Merged, Settled, Wake, Starting
  <2> QED
    BY <1>1, <2>1, <2>2, <2>3 DEF Inv
<1>4. CASE Publish
  <2>0. published'.frames = working /\ published'.sequence = sequence
    BY <1>4 DEF Publish
  <2>1. TypeOK'
    BY <1>0, <1>4 DEF TypeOK, Publish
  <2>2. Phases' /\ HandedOver' /\ Announced' /\ Reported'
    BY <1>0, <1>4, <2>0
       DEF Inv, TypeOK, Phases, HandedOver, Announced, Reported, Publish,
           Starting
  <2>3. Merged'
    BY <1>0, <1>4 DEF Inv, Merged, Settled, Publish, Starting
  <2> QED
    BY <1>1, <2>1, <2>2, <2>3 DEF Inv
<1>5. CASE Notify
  <2>1. TypeOK'
    BY <1>0, <1>5 DEF TypeOK, Notify
  <2>2. Phases' /\ HandedOver' /\ Announced' /\ Reported'
    BY <1>0, <1>5
       DEF Inv, Phases, HandedOver, Announced, Reported, Notify, Starting
  <2>3. Merged'
    BY <1>0, <1>5 DEF Inv, Merged, Settled, Notify, Starting
  <2> QED
    BY <1>1, <2>1, <2>2, <2>3 DEF Inv
<1> QED
  BY <1>2, <1>3, <1>4, <1>5

-----------------------------------------------------------------------------
(* The steps of the event loop. *)

\* distribute_latest_sample.
LEMMA DistributeInv ==
  ASSUME Inv, distribute_latest_sample
  PROVE  Inv'
<1>0. /\ UNCHANGED <<connected, generation, resolved, outcome, pc, sequence,
                     known_generation, working, source_state, published,
                     stop_requested, notified, last_bytes, varied>>
      /\ loop = "sampling" /\ loop' = "running" /\ TypeOK
      /\ published.frames \in [FrameIds -> Frame] /\ published.sequence \in Nat
      /\ pc \notin Starting
  BY DEF Inv, TypeOK, Phases, distribute_latest_sample, sourceVars, thread
<1>1. Phases' /\ Atomic' /\ Reported' /\ Unobserved'
  BY <1>0 DEF Inv, Phases, Atomic, Reported, Unobserved, Starting
<1>2. Merged'
  BY <1>0 DEF Inv, Merged, Settled, Fresh, ReadDone
<1>3. CASE published.sequence <= sample_sequence /\ UNCHANGED server
  <2>1. UNCHANGED <<frames, signals, sample_sequence>>
    BY <1>3 DEF server
  <2>2. TypeOK' /\ HandedOver' /\ SignalsFollowFrames'
    BY <1>0, <2>1 DEF Inv, TypeOK, HandedOver, SignalsFollowFrames
  <2>3. Announced'
    BY <1>0, <1>3, <2>1 DEF Inv, TypeOK, HandedOver, Announced
  <2> QED
    BY <1>1, <1>2, <2>2, <2>3 DEF Inv
<1>4. CASE /\ sample_sequence' = published.sequence
           /\ frames' = published.frames
           /\ signals' = IF \E f \in FrameIds :
                              FrameChanged(frames, published.frames, f)
                         THEN latest_signals(published.frames,
                                             published.sequence)
                         ELSE signals
  <2>1. TypeOK'
    <3>1. /\ latest_signals(published.frames, published.sequence)
               \in [Signals -> Signal]
          /\ signals \in [Signals -> Signal]
      BY <1>0, LatestFacts DEF TypeOK
    <3>2. signals' \in [Signals -> Signal]
      BY <1>4, <3>1
    <3> QED
      BY <1>0, <1>4, <3>2 DEF TypeOK
  <2>2. HandedOver' /\ Announced'
    <3>1. /\ sample_sequence' = published'.sequence
          /\ frames' = published'.frames
          /\ published'.sequence \in Nat
      BY <1>0, <1>4
    <3>2. HandedOver'
      BY <1>0, <3>1 DEF Inv, HandedOver, Starting
    <3>3. Announced'
      BY <3>1 DEF Announced
    <3> QED
      BY <3>2, <3>3
  <2>3. SignalsFollowFrames'
    <3> SUFFICES ASSUME NEW s \in Signals
                 PROVE  /\ signals'[s].state = DecodedState(s, frames')
                        /\ signals'[s].state # "unavailable" =>
                             signals'[s].data = RawOf(s, frames'[FrameOf[s]])
      BY DEF SignalsFollowFrames
    <3>1. FrameOf[s] \in FrameIds
      BY SamplerConstants
    <3>2. /\ signals[s].state = DecodedState(s, frames)
          /\ signals[s].state # "unavailable" =>
               signals[s].data = RawOf(s, frames[FrameOf[s]])
      BY <1>0 DEF Inv, SignalsFollowFrames, Starting
    <3>3. ~FrameChanged(frames, published.frames, FrameOf[s]) =>
            /\ DecodedState(s, frames') = DecodedState(s, frames)
            /\ RawOf(s, frames'[FrameOf[s]]) = RawOf(s, frames[FrameOf[s]])
      BY <1>4 DEF FrameChanged, DecodedState, RawOf
    <3>4. CASE signals' = latest_signals(published.frames, published.sequence)
      <4> DEFINE r == latest_signals(published.frames, published.sequence)[s]
      <4>1. /\ r.state = IF FrameChanged(frames, published.frames, FrameOf[s])
                         THEN DecodedState(s, published.frames)
                         ELSE signals[s].state
            /\ r.state # "unavailable" =>
                 r.data = IF FrameChanged(frames, published.frames, FrameOf[s])
                          THEN RawOf(s, published.frames[FrameOf[s]])
                          ELSE signals[s].data
        BY <1>0, LatestFacts
      <4>2. signals'[s] = r
        BY <3>4
      <4> HIDE DEF r
      <4> QED
        BY <1>4, <3>2, <3>3, <4>1, <4>2
    <3>5. CASE /\ signals' = signals
               /\ ~(\E f \in FrameIds :
                      FrameChanged(frames, published.frames, f))
      BY <3>1, <3>2, <3>3, <3>5
    <3> QED
      BY <1>4, <3>4, <3>5
  <2> QED
    BY <1>1, <1>2, <2>1, <2>2, <2>3 DEF Inv
<1> QED
  BY <1>3, <1>4 DEF distribute_latest_sample

\* The other callbacks, and the end of the daemon.
LEMMA LoopInv ==
  ASSUME Inv, AsyncCallback \/ server_shutdown \/ sampler_stop
              \/ sampler_destroy
  PROVE  Inv'
<1>0. /\ UNCHANGED <<generation, outcome, pc, sequence, known_generation,
                     working, source_state, published, frames, signals,
                     sample_sequence, last_bytes, varied>>
      /\ TypeOK
  BY DEF Inv, AsyncCallback, server_shutdown, sampler_stop, sampler_destroy,
         Close, sourceVars, thread, server
<1>1. TypeOK'
  BY ZenonT(60), <1>0
     DEF TypeOK, AsyncCallback, server_shutdown, sampler_stop,
         sampler_destroy, Close, sourceVars
<1>2. HandedOver' /\ Reported' /\ Unobserved' /\ SignalsFollowFrames'
  BY <1>0 DEF Inv, HandedOver, Reported, Unobserved, SignalsFollowFrames
<1>3. Phases' /\ Announced'
  BY <1>0 DEF Inv, Phases, Announced, AsyncCallback, server_shutdown,
              sampler_stop, sampler_destroy, Starting
<1>4. CASE UNCHANGED <<connected, resolved>>
  BY <1>0, <1>1, <1>2, <1>3, <1>4
     DEF Inv, Atomic, Merged, Settled, Fresh, ReadDone
<1>5. CASE sampler_destroy
  <2>1. pc = "done"
    BY <1>5 DEF Inv, Phases, sampler_destroy
  <2>2. ~connected' /\ resolved' = {}
    BY <1>5 DEF sampler_destroy, Close
  <2>3. Atomic' /\ Merged'
    BY <1>0, <2>1, <2>2 DEF Inv, Atomic, Merged, Starting
  <2> QED
    BY <1>1, <1>2, <1>3, <2>3 DEF Inv
<1> QED
  BY <1>4, <1>5
     DEF AsyncCallback, server_shutdown, sampler_stop, sourceVars

-----------------------------------------------------------------------------
(* What holds of every behaviour. *)

\* The initial state: nothing was read.
LEMMA InitInv == Init => Inv
<1> SUFFICES ASSUME Init PROVE Inv
  OBVIOUS
<1>0. /\ Nothing \in [FrameIds -> Bytes \cup {Missing}]
      /\ Baseline(Nothing) \in [FrameIds -> Frame]
      /\ published.frames = frames /\ published.sequence = 0
      /\ published \in [frames : [FrameIds -> Frame], sequence : Nat]
  BY BaselineType DEF Nothing, Init
<1>1. TypeOK
  BY Zenon, <1>0, DecodeType DEF Init, SourceInit, TypeOK
<1>2. Phases /\ HandedOver /\ Announced /\ Reported
  BY <1>0 DEF Init, Phases, HandedOver, Announced, Reported, Starting
<1>3. Atomic /\ Merged
  BY DEF Init, SourceInit, Atomic, Merged, Delivered, Starting
<1>4. Unobserved /\ SignalsFollowFrames
  BY <1>0, DecodeType DEF Init, Unobserved, SignalsFollowFrames
<1> QED
  BY <1>1, <1>2, <1>3, <1>4 DEF Inv

\* Every step keeps the invariant.
LEMMA NextInv == Inv /\ [Next]_vars => Inv'
<1> SUFFICES ASSUME Inv, [Next]_vars PROVE Inv'
  OBVIOUS
<1>1. CASE ReadSource
  BY Zenon, <1>1, OpenInv, DeliverInv, RefuseInv DEF ReadSource
<1>2. CASE UNCHANGED vars
  <2>1. UNCHANGED <<connected, generation, resolved, outcome, pc, sequence,
                    known_generation, working, source_state, published,
                    stop_requested, notified, loop, frames, signals,
                    sample_sequence, last_bytes, varied>>
    BY <1>2 DEF vars, sourceVars, thread, server
  <2>2. TypeOK' /\ Phases' /\ HandedOver' /\ Announced' /\ Reported'
    BY <2>1 DEF Inv, TypeOK, Phases, HandedOver, Announced, Reported
  <2>3. Atomic' /\ Merged'
    BY <2>1 DEF Inv, Atomic, Merged, Settled, Fresh, ReadDone
  <2>4. Unobserved' /\ SignalsFollowFrames'
    BY <2>1 DEF Inv, Unobserved, SignalsFollowFrames
  <2> QED
    BY <2>2, <2>3, <2>4 DEF Inv
<1> QED
  BY <1>1, <1>2, InitializeInv, MergeInv, ThreadInv, DistributeInv, LoopInv
     DEF Next, Thread, EventLoop, Exited

\* The threads hand over every sample, and the frames and signals tell what
\* the source in use has delivered.
THEOREM Inductive == Spec => []Inv
  BY InitInv, NextInv, PTL DEF Spec

\* ARCHITECTURE.md:96-98 "frames must change again to become observed":
\* whatever an earlier source delivered, and however often the source was
\* lost, a frame is valid exactly when its bytes have varied since the source
\* in use was opened.
THEOREM ObservedOnly == Spec => []ValidMeansObserved
<1>1. Inv => ValidMeansObserved
  BY DEF Inv, Merged, Settled, ValidMeansObserved
<1> QED
  BY <1>1, Inductive, PTL

\* Decoding only the signals of changed frames, over samples that coalesce,
\* leaves what decoding all of them would.
THEOREM SignalsCurrent == Spec => []SignalsFollowFrames
<1>1. Inv => SignalsFollowFrames
  BY DEF Inv
<1> QED
  BY <1>1, Inductive, PTL

\* No interleaving of sampler_publish, uv_async_send and the coalesced
\* callback loses a sample: when nothing is pending the event loop holds the
\* newest one, and reports the source state that belongs to it.
THEOREM NoLostSample == Spec => []NothingPending
<1>1. Inv => NothingPending
  BY DEF Inv, HandedOver, Announced, Reported, NothingPending
<1> QED
  BY <1>1, Inductive, PTL

\* sampler_stop joins before server_shutdown closes sample_notification and
\* sampler_destroy the source.
THEOREM JoinedBeforeClose == Spec => []ThreadOutlived
<1>1. Inv => ThreadOutlived
  BY DEF Inv, Phases, ThreadOutlived
<1> QED
  BY <1>1, Inductive, PTL

\* The first observation of a signal is never forgotten, not even by a new
\* source, and its last change moves only with its value or its state.
THEOREM HistoryKept == Spec => SignalHistoryKept
<1> DEFINE Kept ==
      \A s \in Signals : signals[s].first # 0 =>
        /\ signals'[s].first = signals[s].first
        /\ signals'[s].last # signals[s].last =>
             \/ signals'[s].data # signals[s].data
             \/ signals'[s].state # signals[s].state
<1>1. Inv /\ [Next]_vars => [Kept]_vars
  <2> SUFFICES ASSUME Inv, Next PROVE Kept
    OBVIOUS
  <2>1. CASE UNCHANGED signals
    BY <2>1
  <2>2. CASE sampler_init
    BY <2>2 DEF Inv, Unobserved, sampler_init
  <2>3. CASE distribute_latest_sample
    <3>1. CASE signals' =
                 latest_signals(published.frames, published.sequence)
      <4>1. /\ published.frames \in [FrameIds -> Frame]
            /\ published.sequence \in Nat
        BY DEF Inv, TypeOK
      <4> QED
        BY <3>1, <4>1, LatestFacts DEF Inv
    <3> QED
      BY <2>1, <2>3, <3>1 DEF distribute_latest_sample, server
  <2> QED
    BY <2>1, <2>2, <2>3
       DEF Next, Thread, EventLoop, ReadSource, sampler_start, Wake, Merge,
           Publish, Notify, AsyncCallback, sampler_stop, sampler_destroy,
           server_shutdown, Exited, vars, server
<1> QED
  BY <1>1, Inductive, PTL DEF Spec, SignalHistoryKept
=============================================================================
