------------------------------ MODULE MCSampler ------------------------------
(* Instances of Sampler for TLC. *)
EXTENDS Sampler

CONSTANTS f1, f2, speed, speed_invalid, gear

TwoFrames == {f1, f2}

\* f1 carries a value bit and the bit that flags it; f2 one value bit.
ThreeSignals == {speed, speed_invalid, gear}
TheFrameOf == [s \in ThreeSignals |-> IF s = gear THEN f2 ELSE f1]
TheInvalidOf ==
  [s \in ThreeSignals |-> IF s = speed THEN speed_invalid ELSE NoFlag]

TheRaw == [s \in ThreeSignals |->
             [b \in Bytes |-> IF s = speed_invalid THEN b \div 2 ELSE b % 2]]
=============================================================================
