------------------------------ MODULE Protocol ------------------------------
(***************************************************************************)
(* What roadcastd and its clients exchange.                                *)
(*                                                                         *)
(* Frames and signals are both "items": the frames are numbered first and  *)
(* the signals after them, the order in which every batch carries them.    *)
(* The value of an item is what the code compares to detect a change (its  *)
(* reading) and the timestamps the item carries (its stamp).  A message is *)
(* its type, the change sequence in its header and the items it carries;   *)
(* Wire has the bytes.                                                     *)
(***************************************************************************)
EXTENDS Integers, Sequences, FiniteSets

CONSTANTS
  FrameCount,         \* ROADCAST_FRAME_COUNT
  SignalCount,        \* ROADCAST_SIGNAL_COUNT
  FramesPerMessage,   \* FRAMES_PER_MESSAGE
  SignalsPerMessage,  \* SIGNALS_PER_MESSAGE
  Readings,           \* what a source can deliver for an item
  Stamps,             \* the timestamps of an item
  None                \* the reading of an item nobody has sent yet

Items == 0 .. FrameCount + SignalCount - 1
Frames == 0 .. FrameCount - 1

Values == [reading : Readings, stamp : Stamps]
Unseen == [reading |-> None, stamp |-> 0]
Known == Values \cup {Unseen}

\* A frame has changed when its state or data has; a signal also when only
\* its timestamps have.
Same(i, v, w) == IF i \in Frames THEN v.reading = w.reading ELSE v = w

Changed(old, new) == {i \in Items : ~Same(i, old[i], new[i])}

Message(type, seq, items) == [type |-> type, seq |-> seq, items |-> items]

\* The batches that carry the items of P, lowest index first, frames before
\* signals: item i travels in batch BatchOf(P, i) of BatchCount(P).
Rank(P, i) == Cardinality({j \in P : j < i})
FrameBatches(P) ==
  (Cardinality(P \cap Frames) + FramesPerMessage - 1) \div FramesPerMessage
SignalBatches(P) ==
  (Cardinality(P \ Frames) + SignalsPerMessage - 1) \div SignalsPerMessage
BatchCount(P) == FrameBatches(P) + SignalBatches(P)
BatchOf(P, i) ==
  IF i \in Frames
  THEN 1 + Rank(P \cap Frames, i) \div FramesPerMessage
  ELSE 1 + FrameBatches(P) + Rank(P \ Frames, i) \div SignalsPerMessage

Batches(P, values, seq) ==
  [k \in 1 .. BatchCount(P) |->
     Message(IF k <= FrameBatches(P) THEN "UPDATE_BATCH"
                                     ELSE "SIGNAL_UPDATE_BATCH",
             seq,
             [i \in {j \in P : BatchOf(P, j) = k} |-> values[i]])]

\* What the client holds once it has applied a message in stream order.
Apply(view, message) ==
  [i \in Items |-> IF i \in DOMAIN message.items THEN message.items[i]
                                                 ELSE view[i]]

Types == {"WELCOME", "PONG", "SCHEMA_CHUNK", "SNAPSHOT",
          "SIGNAL_SNAPSHOT_CHUNK", "UPDATE_BATCH", "SIGNAL_UPDATE_BATCH",
          "SUBSCRIBED", "HEARTBEAT", "RESYNC_REQUIRED"}

Messages(last) ==
  [type : Types, seq : 0 .. last,
   items : UNION {[I -> Known] : I \in SUBSET Items}]

Mentions(message, i) == i \in DOMAIN message.items

\* What a client that holds view has for item i after the first n messages of
\* a queue is v.
Reaches(q, n, view, i, v) ==
  \/ \E k \in 1 .. n :
       /\ Mentions(q[k], i)
       /\ Same(i, q[k].items[i], v)
       /\ \A j \in k + 1 .. n : ~Mentions(q[j], i)
  \/ /\ \A k \in 1 .. n : ~Mentions(q[k], i)
     /\ Same(i, view[i], v)
=============================================================================
