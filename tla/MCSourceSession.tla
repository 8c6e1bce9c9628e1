--------------------------- MODULE MCSourceSession ---------------------------
(* Instances of SourceSession for TLC. *)
EXTENDS SourceSession

CONSTANTS f1, f2, p1, p2

TwoFrames == {f1, f2}
TwoPids == {p1, p2}

\* The VHAL, an older build of it that lacks a symbol, and any other program.
ThreePrograms ==
  {[named |-> TRUE, symbols |-> {f1, f2}],
   [named |-> TRUE, symbols |-> {f1}],
   [named |-> FALSE, symbols |-> {}]}
=============================================================================
