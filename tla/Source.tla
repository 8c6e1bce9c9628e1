------------------------------- MODULE Source -------------------------------
(***************************************************************************)
(* What roadcast_source_session_read promises the sampler: the interface   *)
(* SourceSession implements and Sampler relies on.                         *)
(*                                                                         *)
(* A generation is one successful open of the source.  Within a generation *)
(* the set of frames that can be read is fixed, and a read delivers either *)
(* all of them or none: after a failure nothing is delivered before the    *)
(* next generation.                                                        *)
(***************************************************************************)
EXTENDS Naturals

CONSTANTS
  FrameIds,        \* the entries of ROADCAST_CAN_IDS
  Bytes,           \* the data a frame can hold
  Missing,         \* no data: the frame is ROADCAST_OBSERVATION_UNAVAILABLE
  MaxGenerations   \* bound on generation

ASSUME SourceConstants ==
  /\ Missing \notin Bytes
  /\ MaxGenerations \in Nat

VARIABLES
  connected,    \* session->connected
  generation,   \* session->generation
  resolved,     \* the frames whose address is known
  outcome       \* the result of the last read and the frames it filled in

sourceVars == <<connected, generation, resolved, outcome>>

Nothing == [f \in FrameIds |-> Missing]

\* The results ROADCAST_SOURCE_WAITING, -1, 1 and 0 are "waiting", "failed",
\* "degraded" and "available".
Delivered(o) == o.result \in {"degraded", "available"}

SourceInit ==
  /\ connected = FALSE
  /\ generation = 0
  /\ resolved = {}
  /\ outcome = [result |-> "waiting", bytes |-> Nothing]

Open ==
  /\ ~connected
  /\ generation < MaxGenerations
  /\ connected' = TRUE
  /\ generation' = generation + 1
  /\ resolved' \in (SUBSET FrameIds) \ {{}}
  /\ UNCHANGED outcome

\* Every resolved frame has data, and no other.
Deliver ==
  /\ connected
  /\ \E result \in {"degraded", "available"}, data \in [resolved -> Bytes] :
       outcome' = [result |-> result,
                   bytes |-> [f \in FrameIds |->
                     IF f \in resolved THEN data[f] ELSE Missing]]
  /\ UNCHANGED <<connected, generation, resolved>>

Refuse ==
  /\ connected' = FALSE
  /\ resolved' = {}
  /\ outcome' \in {[result |-> r, bytes |-> Nothing] :
                     r \in {"failed"} \cup
                           (IF connected THEN {} ELSE {"waiting"})}
  /\ UNCHANGED generation

\* The owner closes the session for good.
Close ==
  /\ connected' = FALSE
  /\ resolved' = {}
  /\ UNCHANGED <<generation, outcome>>

SourceNext == Open \/ Deliver \/ Refuse \/ Close

SourceSpec == SourceInit /\ [][SourceNext]_sourceVars
=============================================================================
