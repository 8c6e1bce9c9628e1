---------------------------- MODULE CatalogTable ----------------------------
(***************************************************************************)
(* The signal catalogue that scripts/generate-catalog.py writes into       *)
(* src/catalog_generated.c and include/roadcast_frames.h: which bits of    *)
(* which CAN frame make up each signal.  ROADCAST_SIGNALS lists the        *)
(* signals in the order of the C array, SIGNAL_PARTS[i] are the parts of   *)
(* ROADCAST_SIGNALS[i], most significant part first.  Both are sequences,  *)
(* so the C index i is position i + 1 here; indices stored inside a row    *)
(* (invalid_signal_index, frame_index) keep the value they have in C.      *)
(*                                                                         *)
(* The rows of one frame are adjacent in the C array, and each frame has   *)
(* one definition.  Stable ids are opaque strings of which only identity   *)
(* matters.  Scale and offset are left out: floating-point values, which   *)
(* are only carried along.  Every row of the array has is_signed 0.        *)
(***************************************************************************)
EXTENDS Integers, Sequences

ROADCAST_SIGNAL_COUNT == 815

\* UINT32_MAX in invalid_signal_index: the signal has no invalid flag.
NO_FLAG == -1

\* One part of a signal: bits consecutive bits of the 32-bit word at byte
\* word, the first of them offset bits below the word's top bit.
P(word, offset, bits) == [word |-> word, offset |-> offset, bits |-> bits]

\* One row of a frame's signals, and the row with what the frame's rows share.
R(id, name, unit, flag, width, calibrated) ==
    <<id, name, unit, flag, width, calibrated>>

F(can_id, frame_index, rows) ==
    [i \in 1..Len(rows) |->
        [stable_id |-> rows[i][1], name |-> rows[i][2], unit |-> rows[i][3],
         invalid_signal_index |-> rows[i][4], can_id |-> can_id,
         frame_index |-> frame_index, width |-> rows[i][5],
         is_signed |-> 0, calibrated |-> rows[i][6]]]

ROADCAST_CAN_IDS == <<
    \h085, \h0A6, \h0B7, \h0BA, \h0E0, \h114, \h122, \h123, \h124, \h125, \h128, \h12F, \h139,
    \h150, \h160, \h161, \h162, \h165, \h169, \h176, \h178, \h17A, \h17B, \h191, \h1A1, \h1A2,
    \h1A3, \h1A5, \h1A6, \h1B0, \h1E2, \h1EB, \h1F0, \h1FB, \h211, \h212, \h214, \h218, \h220,
    \h221, \h225, \h226, \h250, \h255, \h260, \h26D, \h26F, \h272, \h274, \h27F, \h281, \h283,
    \h284, \h285, \h286, \h287, \h288, \h28B, \h290, \h292, \h294, \h295, \h297, \h299, \h29A,
    \h29B, \h29F, \h2AB, \h2B1, \h2C1, \h2C2, \h2C3, \h2C4, \h2C5, \h2C6, \h2C8, \h2C9, \h2CA,
    \h2CD, \h2D2, \h2D8, \h2DF, \h2E0, \h2E2, \h2E4, \h2EA, \h2F1, \h2F2, \h2F4, \h2FC, \h2FD,
    \h2FE, \h2FF, \h315, \h339, \h354, \h359, \h374, \h380, \h390, \h392, \h3A2, \h3F0, \h3F1,
    \h3F6, \h3F7, \h3FD, \h3FE, \h680, \h7C1, \h7DF>>

SIGNAL_PARTS == <<
    <<P(0,31,1)>>, <<P(0,30,1)>>, <<P(0,24,1)>>, <<P(0,16,8)>>, <<P(0,8,8), P(0,0,4)>>,
    <<P(0,4,4), P(4,24,8)>>, <<P(4,21,3)>>, <<P(4,18,3)>>, <<P(4,16,2)>>, <<P(4,8,8)>>,
    <<P(4,6,2)>>, <<P(4,4,2)>>, <<P(4,2,2)>>, <<P(4,0,1)>>, <<P(0,31,1)>>, <<P(0,30,1)>>,
    <<P(0,29,1)>>, <<P(0,28,1)>>, <<P(0,26,2)>>, <<P(0,25,1)>>, <<P(0,24,1)>>, <<P(0,20,4)>>,
    <<P(0,19,1)>>, <<P(0,18,1)>>, <<P(0,16,2)>>, <<P(0,13,3)>>, <<P(0,12,1)>>, <<P(0,11,1)>>,
    <<P(0,10,1)>>, <<P(0,9,1)>>, <<P(0,8,1)>>, <<P(0,3,5)>>, <<P(0,2,1)>>, <<P(0,1,1)>>,
    <<P(4,27,5)>>, <<P(4,26,1)>>, <<P(4,25,1)>>, <<P(4,24,1)>>, <<P(4,22,2)>>, <<P(4,15,1)>>,
    <<P(4,14,1)>>, <<P(4,10,4)>>, <<P(4,9,1)>>, <<P(4,3,5)>>, <<P(4,1,2)>>, <<P(4,0,1)>>,
    <<P(0,30,2)>>, <<P(0,24,3)>>, <<P(0,22,2)>>, <<P(0,21,1)>>, <<P(0,20,1)>>, <<P(0,18,2)>>,
    <<P(0,16,2)>>, <<P(0,9,2)>>, <<P(0,8,1)>>, <<P(0,3,1)>>, <<P(0,0,3)>>, <<P(4,29,1)>>,
    <<P(4,28,1)>>, <<P(4,24,2)>>, <<P(4,22,1)>>, <<P(4,21,1)>>, <<P(4,19,2)>>, <<P(4,18,1)>>,
    <<P(4,17,1)>>, <<P(4,16,1)>>, <<P(4,13,3)>>, <<P(4,12,1)>>, <<P(4,7,1)>>, <<P(4,5,2)>>,
    <<P(4,4,1)>>, <<P(4,1,1)>>, <<P(4,0,1)>>, <<P(0,28,1)>>, <<P(0,16,8)>>, <<P(0,8,8)>>,
    <<P(0,6,1)>>, <<P(0,2,4)>>, <<P(4,31,1)>>, <<P(4,24,5)>>, <<P(4,16,8), P(4,8,5)>>,
    <<P(4,15,1)>>, <<P(4,6,1)>>, <<P(4,2,2)>>, <<P(0,30,1)>>, <<P(0,24,1)>>,
    <<P(0,16,8), P(0,8,5)>>, <<P(0,15,1)>>, <<P(0,13,1)>>, <<P(0,5,2)>>, <<P(0,3,2)>>, <<P(0,2,1)>>,
    <<P(0,1,1)>>, <<P(4,22,1)>>, <<P(4,19,2)>>, <<P(4,11,1)>>, <<P(0,25,1)>>, <<P(0,14,2)>>,
    <<P(0,12,2)>>, <<P(0,11,1)>>, <<P(0,10,1)>>, <<P(0,8,2)>>, <<P(0,6,2)>>, <<P(0,3,3)>>,
    <<P(4,20,4)>>, <<P(4,17,1)>>, <<P(4,16,1)>>, <<P(4,15,1)>>, <<P(4,8,7)>>, <<P(4,7,1)>>,
    <<P(4,6,1)>>, <<P(4,3,3)>>, <<P(4,0,3)>>, <<P(0,29,1)>>, <<P(0,28,1)>>, <<P(0,27,1)>>,
    <<P(0,25,2)>>, <<P(0,24,1)>>, <<P(0,12,4)>>, <<P(0,10,2)>>, <<P(0,9,1)>>, <<P(0,7,1)>>,
    <<P(0,6,1)>>, <<P(0,3,3)>>, <<P(0,0,3)>>, <<P(4,30,2)>>, <<P(4,28,2)>>, <<P(4,26,2)>>,
    <<P(4,24,2)>>, <<P(4,16,8)>>, <<P(4,8,8)>>, <<P(4,0,8)>>, <<P(0,31,1)>>, <<P(0,30,1)>>,
    <<P(0,29,1)>>, <<P(0,28,1)>>, <<P(0,26,2)>>, <<P(0,25,1)>>, <<P(0,24,1)>>, <<P(0,23,1)>>,
    <<P(0,22,1)>>, <<P(0,21,1)>>, <<P(0,20,1)>>, <<P(0,17,1)>>, <<P(0,16,1)>>, <<P(0,15,1)>>,
    <<P(0,12,2)>>, <<P(0,10,1)>>, <<P(0,9,1)>>, <<P(0,8,1)>>, <<P(4,10,2)>>, <<P(4,9,1)>>,
    <<P(0,31,1)>>, <<P(0,24,7)>>, <<P(0,23,1)>>, <<P(0,22,1)>>, <<P(0,19,3)>>, <<P(0,17,2)>>,
    <<P(0,16,1)>>, <<P(0,15,1)>>, <<P(0,8,7)>>, <<P(0,7,1)>>, <<P(0,6,1)>>, <<P(0,3,3)>>,
    <<P(0,1,2)>>, <<P(0,0,1)>>, <<P(4,31,1)>>, <<P(4,30,1)>>, <<P(4,28,2)>>, <<P(4,26,2)>>,
    <<P(4,25,1)>>, <<P(4,20,2)>>, <<P(4,15,1)>>, <<P(4,9,4)>>, <<P(4,6,2)>>, <<P(0,31,1)>>,
    <<P(0,24,7)>>, <<P(0,23,1)>>, <<P(0,22,1)>>, <<P(0,19,3)>>, <<P(0,17,2)>>, <<P(0,16,1)>>,
    <<P(0,15,1)>>, <<P(0,8,7)>>, <<P(0,7,1)>>, <<P(0,6,1)>>, <<P(0,3,3)>>, <<P(0,1,2)>>,
    <<P(0,0,1)>>, <<P(4,31,1)>>, <<P(4,30,1)>>, <<P(4,28,2)>>, <<P(4,26,2)>>, <<P(0,30,2)>>,
    <<P(0,28,1)>>, <<P(0,27,1)>>, <<P(0,26,1)>>, <<P(0,25,1)>>, <<P(0,24,1)>>, <<P(0,22,2)>>,
    <<P(0,20,1)>>, <<P(0,19,1)>>, <<P(0,18,1)>>, <<P(0,14,2)>>, <<P(0,12,1)>>, <<P(0,11,1)>>,
    <<P(0,10,1)>>, <<P(0,6,2)>>, <<P(0,5,1)>>, <<P(0,4,1)>>, <<P(0,3,1)>>, <<P(0,2,1)>>,
    <<P(0,0,2)>>, <<P(4,30,2)>>, <<P(4,22,2)>>, <<P(4,12,1)>>, <<P(4,8,2)>>,
    <<P(0,24,8), P(0,16,8)>>, <<P(0,8,8)>>, <<P(0,1,1)>>, <<P(0,0,1)>>, <<P(4,24,4)>>,
    <<P(4,16,8)>>, <<P(4,21,3)>>, <<P(4,16,3)>>, <<P(4,8,8)>>, <<P(4,4,1)>>,
    <<P(0,24,8), P(0,16,8), P(0,8,8)>>, <<P(0,0,8), P(4,24,4)>>, <<P(4,16,8), P(4,8,8)>>,
    <<P(0,24,8)>>, <<P(0,21,1)>>, <<P(4,14,2)>>, <<P(0,30,2)>>, <<P(0,28,2)>>, <<P(0,26,2)>>,
    <<P(0,24,2)>>, <<P(0,20,4)>>, <<P(0,17,3)>>, <<P(0,16,1)>>, <<P(0,15,1)>>, <<P(0,13,2)>>,
    <<P(0,11,1)>>, <<P(0,10,1)>>, <<P(0,9,1)>>, <<P(0,8,1)>>, <<P(0,3,5)>>, <<P(0,2,1)>>,
    <<P(0,1,1)>>, <<P(0,0,1)>>, <<P(4,27,5)>>, <<P(4,19,5)>>, <<P(4,17,2)>>, <<P(4,16,1)>>,
    <<P(4,11,5), P(4,0,4)>>, <<P(4,10,1)>>, <<P(4,8,2)>>, <<P(4,7,1)>>, <<P(4,4,3)>>, <<P(0,29,3)>>,
    <<P(0,26,3)>>, <<P(0,25,1)>>, <<P(0,24,1)>>, <<P(0,21,3)>>, <<P(0,19,2)>>, <<P(0,16,3)>>,
    <<P(0,13,3)>>, <<P(0,8,3)>>, <<P(0,5,3)>>, <<P(0,0,3)>>, <<P(4,29,3)>>, <<P(4,24,3)>>,
    <<P(4,21,3)>>, <<P(4,18,3)>>, <<P(4,13,3)>>, <<P(4,10,3)>>, <<P(0,24,8), P(0,16,5)>>,
    <<P(0,23,1)>>, <<P(0,21,2)>>, <<P(0,8,8), P(0,0,5)>>, <<P(0,7,1)>>, <<P(0,5,2)>>, <<P(4,12,4)>>,
    <<P(4,11,1)>>, <<P(4,10,1)>>, <<P(4,9,1)>>, <<P(4,0,8)>>, <<P(0,24,8), P(0,16,4)>>,
    <<P(0,20,4), P(0,8,8)>>, <<P(0,0,8), P(4,24,4)>>, <<P(4,28,4), P(4,16,8)>>, <<P(4,15,1)>>,
    <<P(4,14,1)>>, <<P(4,13,1)>>, <<P(4,12,1)>>, <<P(4,8,4)>>, <<P(4,0,8)>>,
    <<P(0,23,1), P(0,8,8)>>, <<P(4,24,8), P(4,16,1)>>, <<P(0,31,1)>>, <<P(0,29,2)>>, <<P(0,28,1)>>,
    <<P(0,27,1)>>, <<P(0,26,1)>>, <<P(0,25,1)>>, <<P(0,24,1)>>, <<P(0,7,1)>>, <<P(4,29,1)>>,
    <<P(0,18,1)>>, <<P(0,10,3)>>, <<P(0,4,4)>>, <<P(4,30,2)>>, <<P(0,27,1)>>, <<P(0,26,1)>>,
    <<P(0,25,1)>>, <<P(0,16,8), P(0,8,1)>>, <<P(0,0,8), P(4,24,1)>>, <<P(0,29,3)>>, <<P(0,26,2)>>,
    <<P(0,24,2)>>, <<P(0,16,8)>>, <<P(0,8,3)>>, <<P(0,6,2)>>, <<P(0,5,1)>>, <<P(0,3,2)>>,
    <<P(4,9,3)>>, <<P(4,8,1)>>, <<P(0,30,2)>>, <<P(0,28,2)>>, <<P(0,26,2)>>, <<P(0,24,2)>>,
    <<P(0,22,2)>>, <<P(0,20,2)>>, <<P(0,19,1)>>, <<P(0,18,1)>>, <<P(0,14,2)>>, <<P(0,12,2)>>,
    <<P(0,10,2)>>, <<P(0,9,1)>>, <<P(0,31,1)>>, <<P(0,27,3)>>, <<P(0,0,2)>>, <<P(4,22,2)>>,
    <<P(4,19,3)>>, <<P(4,14,2)>>, <<P(0,16,1)>>, <<P(0,12,4)>>, <<P(0,9,3)>>, <<P(0,5,3)>>,
    <<P(4,27,5)>>, <<P(0,27,4)>>, <<P(0,24,3)>>, <<P(0,21,3)>>, <<P(0,9,1)>>, <<P(0,8,1)>>,
    <<P(0,29,3)>>, <<P(0,24,3)>>, <<P(0,13,3)>>, <<P(0,8,3)>>, <<P(0,3,2)>>, <<P(4,29,3)>>,
    <<P(4,14,2)>>, <<P(4,12,2)>>, <<P(4,7,1)>>, <<P(0,31,1)>>, <<P(0,30,1)>>, <<P(0,29,1)>>,
    <<P(0,25,2)>>, <<P(0,23,1)>>, <<P(0,16,4)>>, <<P(0,8,8)>>, <<P(0,0,8)>>, <<P(0,15,1)>>,
    <<P(0,31,1), P(0,16,8), P(0,8,8)>>, <<P(0,30,1)>>, <<P(0,26,4)>>, <<P(0,0,8), P(4,24,8)>>,
    <<P(0,31,1), P(0,16,8), P(0,8,8)>>, <<P(0,27,4)>>, <<P(0,26,1)>>, <<P(0,0,8), P(4,24,8)>>,
    <<P(4,16,8)>>, <<P(0,24,8), P(0,16,4)>>, <<P(0,21,1)>>, <<P(0,8,8)>>, <<P(4,30,2)>>,
    <<P(4,22,2)>>, <<P(4,21,1)>>, <<P(4,16,4)>>, <<P(4,15,1)>>, <<P(4,14,1)>>,
    <<P(4,26,6), P(4,16,4)>>, <<P(0,24,8), P(0,16,2)>>, <<P(0,22,2)>>, <<P(0,21,1)>>, <<P(0,18,3)>>,
    <<P(0,8,8), P(0,0,4)>>, <<P(4,24,8)>>, <<P(4,16,8), P(4,8,4)>>, <<P(0,24,8), P(0,16,4)>>,
    <<P(0,20,4), P(0,8,8)>>, <<P(0,0,8)>>, <<P(4,24,8)>>, <<P(4,16,8), P(4,8,3)>>, <<P(4,11,1)>>,
    <<P(0,31,1)>>, <<P(0,24,7)>>, <<P(0,28,4)>>, <<P(0,26,2)>>, <<P(0,24,2)>>, <<P(4,16,2)>>,
    <<P(4,9,3)>>, <<P(0,24,8), P(0,16,6)>>, <<P(0,22,2), P(0,8,8)>>, <<P(4,19,5)>>, <<P(4,14,2)>>,
    <<P(4,8,2)>>, <<P(4,4,4)>>, <<P(4,3,1)>>, <<P(4,2,1)>>, <<P(4,18,6), P(4,8,8)>>,
    <<P(4,28,4), P(4,16,7)>>, <<P(4,23,1)>>, <<P(0,24,8), P(0,16,2)>>, <<P(0,22,2)>>, <<P(0,20,2)>>,
    <<P(0,16,8), P(0,8,4)>>, <<P(0,12,2)>>, <<P(4,24,8), P(4,16,2)>>, <<P(4,19,5), P(4,8,8)>>,
    <<P(0,16,8), P(0,8,5)>>, <<P(0,14,2)>>, <<P(0,11,1)>>, <<P(0,8,3)>>, <<P(0,4,1)>>, <<P(0,0,1)>>,
    <<P(4,19,3)>>, <<P(4,10,1)>>, <<P(0,30,2)>>, <<P(0,28,2)>>, <<P(0,26,2)>>, <<P(0,16,4)>>,
    <<P(0,13,3)>>, <<P(0,10,3)>>, <<P(4,18,3)>>, <<P(0,26,2)>>, <<P(0,23,1)>>, <<P(0,22,1)>>,
    <<P(0,21,1)>>, <<P(0,16,4)>>, <<P(0,12,1)>>, <<P(0,11,1)>>, <<P(0,9,1)>>, <<P(0,8,1)>>,
    <<P(0,6,1)>>, <<P(0,4,2)>>, <<P(0,2,2)>>, <<P(0,1,1)>>, <<P(4,24,8), P(4,16,3)>>, <<P(4,12,4)>>,
    <<P(4,11,1)>>, <<P(4,10,1)>>, <<P(4,0,8)>>, <<P(0,19,5)>>, <<P(0,1,2)>>, <<P(4,24,7)>>,
    <<P(0,30,2)>>, <<P(0,27,3)>>, <<P(0,24,1)>>, <<P(0,30,1)>>, <<P(0,26,1)>>, <<P(0,13,1)>>,
    <<P(4,30,2)>>, <<P(4,10,2)>>, <<P(4,31,1)>>, <<P(4,25,3)>>, <<P(4,24,1)>>, <<P(0,14,1)>>,
    <<P(0,5,1)>>, <<P(4,9,1)>>, <<P(4,7,1)>>, <<P(4,6,1)>>, <<P(4,5,1)>>, <<P(4,4,1)>>,
    <<P(4,3,1)>>, <<P(4,2,1)>>, <<P(4,1,1)>>, <<P(4,0,1)>>, <<P(0,30,2)>>, <<P(0,28,2)>>,
    <<P(0,26,2)>>, <<P(0,24,2)>>, <<P(0,22,2)>>, <<P(0,20,2)>>, <<P(0,19,1)>>, <<P(0,16,3)>>,
    <<P(0,24,8)>>, <<P(0,23,1)>>, <<P(0,21,2)>>, <<P(0,13,3)>>, <<P(0,7,1)>>, <<P(0,25,7)>>,
    <<P(0,23,1)>>, <<P(0,22,1)>>, <<P(0,19,1)>>, <<P(0,16,3)>>, <<P(0,19,2)>>, <<P(0,15,1)>>,
    <<P(0,14,1)>>, <<P(0,11,3)>>, <<P(0,8,3)>>, <<P(4,27,5), P(4,16,8)>>, <<P(4,24,4)>>,
    <<P(0,24,8)>>, <<P(0,16,8)>>, <<P(0,8,8)>>, <<P(0,0,8)>>, <<P(4,24,8)>>, <<P(4,16,8)>>,
    <<P(4,8,8)>>, <<P(4,0,8)>>, <<P(0,24,8)>>, <<P(0,16,8)>>, <<P(0,8,8)>>, <<P(0,0,8)>>,
    <<P(4,24,8)>>, <<P(4,16,8)>>, <<P(4,8,8)>>, <<P(4,0,8)>>, <<P(0,24,8)>>, <<P(0,16,8)>>,
    <<P(0,8,8)>>, <<P(0,0,8)>>, <<P(4,24,8)>>, <<P(4,16,8)>>, <<P(4,8,8)>>, <<P(4,6,2)>>,
    <<P(0,24,8), P(0,16,4)>>, <<P(0,26,6)>>, <<P(0,18,6)>>, <<P(0,11,5)>>, <<P(0,10,1)>>,
    <<P(0,3,5)>>, <<P(4,28,4)>>, <<P(4,18,6)>>, <<P(0,29,3)>>, <<P(0,28,1)>>, <<P(0,27,1)>>,
    <<P(0,26,1)>>, <<P(0,25,1)>>, <<P(0,24,1)>>, <<P(0,23,1)>>, <<P(0,22,1)>>, <<P(0,21,1)>>,
    <<P(0,20,1)>>, <<P(0,19,1)>>, <<P(0,18,1)>>, <<P(0,17,1)>>, <<P(0,16,1)>>, <<P(0,15,1)>>,
    <<P(0,14,1)>>, <<P(0,13,1)>>, <<P(0,11,2)>>, <<P(0,9,2)>>, <<P(0,6,2)>>, <<P(0,4,2)>>,
    <<P(0,2,2)>>, <<P(0,0,2)>>, <<P(4,30,2)>>, <<P(4,28,2)>>, <<P(4,23,1)>>, <<P(4,22,1)>>,
    <<P(4,21,1)>>, <<P(4,20,1)>>, <<P(4,19,1)>>, <<P(4,18,1)>>, <<P(4,17,1)>>, <<P(4,16,1)>>,
    <<P(4,14,2)>>, <<P(4,12,2)>>, <<P(4,10,2)>>, <<P(4,8,2)>>, <<P(0,8,8), P(0,0,3)>>,
    <<P(0,31,1)>>, <<P(0,30,1)>>, <<P(0,29,1)>>, <<P(0,28,1)>>, <<P(0,27,1)>>, <<P(0,26,1)>>,
    <<P(0,24,2)>>, <<P(0,17,1)>>, <<P(0,16,1)>>, <<P(4,12,4)>>, <<P(4,8,4)>>, <<P(4,4,4)>>,
    <<P(4,0,4)>>, <<P(0,11,1)>>, <<P(4,16,1)>>, <<P(4,14,1)>>, <<P(4,10,1)>>,
    <<P(0,16,8), P(0,8,2)>>, <<P(0,22,2)>>, <<P(0,14,2)>>, <<P(0,0,5)>>, <<P(4,24,5)>>,
    <<P(4,16,5)>>, <<P(0,24,8)>>, <<P(0,16,8)>>, <<P(0,8,8)>>, <<P(0,0,8)>>, <<P(4,30,2)>>,
    <<P(4,28,2)>>, <<P(4,26,2)>>, <<P(4,24,2)>>, <<P(4,22,2)>>, <<P(4,20,2)>>, <<P(4,18,2)>>,
    <<P(4,16,2)>>, <<P(4,8,2)>>, <<P(0,31,1)>>, <<P(0,30,1)>>, <<P(0,29,1)>>, <<P(0,24,2)>>,
    <<P(0,22,2)>>, <<P(0,18,3)>>, <<P(0,17,1)>>, <<P(0,16,1)>>, <<P(0,15,1)>>, <<P(0,14,1)>>,
    <<P(0,13,1)>>, <<P(0,10,3)>>, <<P(0,8,2)>>, <<P(0,4,4)>>, <<P(0,2,2)>>, <<P(4,28,4)>>,
    <<P(4,19,5)>>, <<P(4,17,2)>>, <<P(4,16,1)>>, <<P(4,11,5)>>, <<P(4,9,2)>>, <<P(4,6,2)>>,
    <<P(4,4,2)>>, <<P(4,2,2)>>, <<P(4,0,2)>>, <<P(0,25,1)>>, <<P(0,20,2)>>, <<P(0,19,1)>>,
    <<P(0,31,1)>>, <<P(0,30,1)>>, <<P(0,29,1)>>, <<P(0,27,2)>>, <<P(0,26,1)>>, <<P(0,13,3)>>,
    <<P(0,8,3)>>, <<P(0,28,4)>>, <<P(0,26,2)>>, <<P(0,24,2)>>, <<P(0,21,3)>>, <<P(0,19,2)>>,
    <<P(0,16,3)>>, <<P(0,8,8), P(0,0,4)>>, <<P(0,6,2)>>, <<P(0,4,2)>>, <<P(4,27,5)>>, <<P(4,24,3)>>,
    <<P(4,20,4)>>, <<P(4,19,1)>>, <<P(4,16,3)>>, <<P(4,10,6), P(4,0,8)>>, <<P(4,8,2)>>,
    <<P(0,31,1)>>, <<P(0,30,1)>>, <<P(0,29,1)>>, <<P(0,24,4)>>, <<P(0,17,3)>>, <<P(0,16,1)>>,
    <<P(0,13,3)>>, <<P(0,12,1)>>, <<P(0,11,1)>>, <<P(0,9,1)>>, <<P(0,8,1)>>, <<P(0,6,2)>>,
    <<P(0,4,2)>>, <<P(4,23,1)>>, <<P(4,22,1)>>, <<P(4,21,1)>>, <<P(4,20,1)>>, <<P(4,19,1)>>,
    <<P(4,18,1)>>, <<P(4,16,2)>>, <<P(4,15,1)>>, <<P(4,10,4)>>, <<P(4,8,2)>>, <<P(4,4,4)>>,
    <<P(4,3,1)>>, <<P(0,31,1)>>, <<P(0,30,1)>>, <<P(0,29,1)>>, <<P(0,28,1)>>, <<P(0,27,1)>>,
    <<P(0,16,8), P(0,8,8), P(0,0,8), P(4,24,8)>>, <<P(0,24,8), P(0,16,3)>>, <<P(0,19,5), P(0,8,5)>>,
    <<P(0,13,3), P(0,0,8)>>, <<P(4,24,8), P(4,16,3)>>, <<P(4,19,5), P(4,8,5)>>,
    <<P(4,13,3), P(4,0,7)>>, <<P(0,24,8), P(0,16,1)>>, <<P(0,17,7), P(0,8,4)>>,
    <<P(0,12,4), P(0,0,7)>>, <<P(0,7,1), P(4,24,8)>>, <<P(4,16,8), P(4,8,1)>>,
    <<P(4,9,7), P(4,0,4)>>, <<P(4,4,1)>>, <<P(0,24,2)>>, <<P(0,16,7)>>, <<P(0,29,3)>>,
    <<P(0,25,3)>>, <<P(0,24,1)>>, <<P(0,20,4)>>, <<P(0,16,4)>>, <<P(0,13,3)>>, <<P(0,8,5)>>,
    <<P(0,5,3)>>, <<P(0,2,3)>>, <<P(0,0,2)>>, <<P(4,28,4)>>, <<P(4,26,2)>>, <<P(4,25,1)>>,
    <<P(4,20,4)>>, <<P(4,18,2)>>, <<P(4,8,3)>>, <<P(0,26,1)>>, <<P(0,25,1)>>, <<P(0,24,1)>>,
    <<P(4,14,2)>>, <<P(4,12,2)>>, <<P(0,14,2)>>, <<P(0,0,2)>>, <<P(4,12,4)>>, <<P(4,0,8)>>,
    <<P(0,31,1)>>, <<P(0,30,1)>>, <<P(0,29,1)>>, <<P(0,28,1)>>, <<P(0,27,1)>>, <<P(0,26,1)>>,
    <<P(0,25,1)>>, <<P(0,24,1)>>, <<P(0,23,1)>>, <<P(0,22,1)>>, <<P(0,12,1)>>,
    <<P(4,8,8), P(4,0,5)>>, <<P(0,27,3)>>, <<P(4,24,8), P(4,16,2)>>, <<P(4,18,6), P(4,8,4)>>,
    <<P(0,28,4)>>, <<P(0,26,2)>>, <<P(0,24,2)>>, <<P(0,29,3)>>, <<P(0,22,1)>>, <<P(0,21,1)>>,
    <<P(0,17,4)>>, <<P(0,16,1)>>, <<P(0,7,1)>>, <<P(0,2,2)>>, <<P(0,12,1)>>, <<P(0,8,4)>>,
    <<P(0,28,4)>>, <<P(0,16,8), P(0,8,1)>>, <<P(0,9,7), P(0,0,2)>>, <<P(0,2,6), P(4,24,8)>>,
    <<P(4,11,1)>>, <<P(0,31,1)>>, <<P(0,30,1)>>, <<P(0,27,5)>>, <<P(0,24,3)>>, <<P(0,19,5)>>,
    <<P(0,17,2)>>, <<P(0,16,1)>>, <<P(0,13,3)>>, <<P(0,8,1)>>, <<P(0,6,2)>>, <<P(0,3,3)>>,
    <<P(0,0,3)>>, <<P(4,30,1)>>, <<P(4,17,7)>>, <<P(4,16,1)>>, <<P(4,12,4)>>, <<P(4,0,8)>>,
    <<P(4,31,1)>>, <<P(0,30,2)>>, <<P(0,28,1)>>, <<P(0,26,2)>>, <<P(4,4,4)>>, <<P(4,26,1)>>,
    <<P(0,5,1)>>, <<P(0,1,1)>>, <<P(4,14,2)>>, <<P(0,24,8), P(0,16,5)>>, <<P(0,23,1)>>,
    <<P(0,21,2)>>, <<P(0,8,8), P(0,0,5)>>, <<P(0,7,1)>>, <<P(0,5,2)>>, <<P(4,12,4)>>, <<P(4,0,8)>>,
    <<P(0,6,1)>>, <<P(0,5,1)>>, <<P(0,20,4), P(0,8,8)>>, <<P(0,2,1)>>, <<P(0,0,1)>>, <<P(4,24,8)>>,
    <<P(0,24,8), P(0,16,8), P(0,8,8), P(0,0,8), P(4,24,8), P(4,16,8), P(4,8,8), P(4,0,8)>>,
    <<P(0,24,8), P(0,16,8), P(0,8,8), P(0,0,8), P(4,24,8), P(4,16,8), P(4,8,8), P(4,0,8)>>>>

CAN_2F1 == F(\h2F1, 86, <<
    R("35bcb28678e8e5b8", "AC_ACCompReq", "", NO_FLAG, 1, 1),
    R("225f40cd316c8bd4", "AC_AmbientTemperatureInvalid", "", NO_FLAG, 1, 0),
    R("f1a28fbe51d37442", "AC_InsideTemperatureInvalid", "", NO_FLAG, 1, 0),
    R("16b577fc690d42d1", "AC_AmbientTemperature", "", 1, 8, 0),
    R("beb88bfebf6e5c11", "AC_PM25InDen", "", NO_FLAG, 12, 0),
    R("47e0c637a5a25132", "AC_PM25OutDen", "", NO_FLAG, 12, 0),
    R("684e482bc0c5bd39", "AC_AirInQLevel", "", NO_FLAG, 3, 0),
    R("43f3fae5a0ab2614", "AC_AirOutQLevel", "", NO_FLAG, 3, 0),
    R("8b7115e69c808a7f", "AC_PM25Sts", "", NO_FLAG, 2, 0),
    R("c73977972c3670f3", "AC_InsideTemperature", "", 2, 8, 0),
    R("155edc354fe928ce", "AC_ParkingClimateStatus", "", NO_FLAG, 2, 0),
    R("2ec7d55fe5f32c5a", "AC_ParkingClimateFailStatus", "", NO_FLAG, 2, 0),
    R("ff26e7f81d9c49bf", "AC_PM25PopupReq", "", NO_FLAG, 2, 0),
    R("7920719e96f5fb27", "AC_PTCHeatIndicator", "", NO_FLAG, 1, 0)>>)
CAN_2F2 == F(\h2F2, 87, <<
    R("d6d89e98425f6ff8", "AC_AutoState", "", NO_FLAG, 1, 0),
    R("9a7d39f2eef3b373", "AC_DisplayRequest", "", NO_FLAG, 1, 0),
    R("f4d65686f031207f", "AC_MaxAcState", "", NO_FLAG, 1, 0),
    R("224cec993171ead3", "AC_FrontDefrostState", "", NO_FLAG, 1, 0),
    R("026ad48f40d34e8d", "AC_IntakeAirState", "", NO_FLAG, 2, 0),
    R("2776e31f69951c90", "AC_AqsState", "", NO_FLAG, 1, 0),
    R("747b2bb1e499503e", "AC_RCPState", "", NO_FLAG, 1, 0),
    R("d7aa5ae8917379fb", "AC_BlowerLevel", "", NO_FLAG, 4, 1),
    R("03d4f18b295d2b4c", "AC_SYNCState", "", NO_FLAG, 1, 0),
    R("a3800a6fed46c14b", "AC_DualState", "", NO_FLAG, 1, 0),
    R("e9ebc6f25c94e63b", "AC_IONIZERState", "", NO_FLAG, 2, 0),
    R("7b4cc8931d7889bd", "AC_AirDistributionMode", "", NO_FLAG, 3, 0),
    R("ae131cd933b219e6", "AC_PressSoundReq", "", NO_FLAG, 1, 0),
    R("1a2735c9ddc6e8fa", "AC_OnState", "", NO_FLAG, 1, 1),
    R("b9331b2976ccc189", "AC_SeatHeatDispReq", "", NO_FLAG, 1, 0),
    R("543305caa777f162", "AC_RearKeyLockSts", "", NO_FLAG, 1, 0),
    R("ef39b91d5066e06a", "AC_ThirdPanelState", "", NO_FLAG, 1, 0),
    R("c56628076750c2b3", "AC_LeftSetTemperature", "degC", NO_FLAG, 5, 1),
    R("4839fe0c6c9f6494", "AC_VentilaDryResp", "", NO_FLAG, 1, 0),
    R("0b470a0c5db26253", "AC_AirCleanResp", "", NO_FLAG, 1, 0),
    R("5e53bd83d14353c8", "AC_RightSetTemperature", "", NO_FLAG, 5, 0),
    R("d218f27102bab692", "AC_ACSwToneSetSts", "", NO_FLAG, 1, 0),
    R("f035ba9d22971484", "AC_RCPLockReminder", "", NO_FLAG, 1, 0),
    R("9deed899fbe032b4", "AC_RemoteControlSt", "", NO_FLAG, 1, 0),
    R("41e09e372d1853b5", "AC_ADSResponse", "", NO_FLAG, 2, 0),
    R("d2c475a61291d626", "AC_DrvHeatSts", "", NO_FLAG, 1, 0),
    R("a911457974bbffef", "AC_PassHeatingSts", "", NO_FLAG, 1, 0),
    R("6038b41d42e89821", "AC_KeyTouchst", "", NO_FLAG, 4, 0),
    R("3978e482491a0c34", "AC_ECOClimateSts", "", NO_FLAG, 1, 0),
    R("94a6d96b7c0c23c0", "AC_keystate", "", NO_FLAG, 5, 0),
    R("7d7c00b6301928c6", "AC_ACComfortResp", "", NO_FLAG, 2, 0),
    R("48587cd49c2174db", "AC_CZISOpenResp", "", NO_FLAG, 1, 0)>>)
CAN_284 == F(\h284, 52, <<
    R("22efa008db68fa14", "BCM_RearDefrosterSts", "", NO_FLAG, 2, 1),
    R("f46968161c5bffcb", "BCM_WiperSts", "", NO_FLAG, 3, 0),
    R("05d323678b479f52", "BCM_HoodAjarStatus", "", NO_FLAG, 2, 0),
    R("bdcaa03f970e3142", "BCM_TrunkAjarStatus", "", NO_FLAG, 1, 0),
    R("fe40dcaa32be4e9b", "BCM_RearDefrostSwitch", "", NO_FLAG, 1, 0),
    R("e365810b044fb9ff", "BCM_IGNOFFUnlockDoorSelectResp", "", NO_FLAG, 2, 0),
    R("8dc450acc17cd38d", "BCM_FollowMeHomeTimeSelectResp", "", NO_FLAG, 2, 0),
    R("574c86d2f2ddfa83", "BCM_AutoCloseWindowSetResp", "", NO_FLAG, 2, 0),
    R("ee0f7174b5c38d56", "BCM_RKEUnlockSetResp", "", NO_FLAG, 1, 0),
    R("c1c4713be06fe3cb", "BCM_FlasherAnimControlSetResp", "", NO_FLAG, 1, 0),
    R("ad84530d74e0c2a1", "BCM_ATWS_St", "", NO_FLAG, 3, 0),
    R("91f4f630e5b081a8", "BCM_VehicleSearchWarningSetResp", "", NO_FLAG, 1, 0),
    R("d3ea10cc4181bd1d", "BCM_FrontWiperIdleModeSetResp", "", NO_FLAG, 1, 0),
    R("2f226ef6bc4745c6", "BCM_RLSModeSts", "", NO_FLAG, 2, 0),
    R("fa954d5753b0fc14", "BCM_RearCurtainConnectReverseSetResp", "", NO_FLAG, 1, 0),
    R("540830b390053601", "BCM_CornerLampSetResp", "", NO_FLAG, 1, 0),
    R("ad168dd42f5e9c37", "BCM_ATWarnTypeSetResp", "", NO_FLAG, 2, 0),
    R("f8c3f001f955ad27", "BCM_DayRunLightSetResp", "", NO_FLAG, 1, 0),
    R("fc59315a965a7cd5", "BCM_RearWiperAutoActiveAtReverseResp", "", NO_FLAG, 1, 0),
    R("eb65e8459958ccef", "BCM_ReverseGearInfo", "", NO_FLAG, 1, 0),
    R("bbca6d7516ace770", "BCM_PowerMode", "", NO_FLAG, 3, 0),
    R("c7e017c2d2de67c4", "BCM_ClutchPedalBottomPosSwitch", "", NO_FLAG, 1, 0),
    R("9db8beeae69976c6", "BCM_WindowVentilateSetResp", "", NO_FLAG, 1, 0),
    R("2a6f4dc22be8cecf", "BCM_HeadLightDelaySetResp", "", NO_FLAG, 2, 0),
    R("be5fa5d4a2900f66", "BCM_RoofLightConnectLightSensorSetResp", "", NO_FLAG, 1, 0),
    R("e8f8fda23997ac00", "BCM_SVC_ButtonPress", "", NO_FLAG, 1, 0),
    R("086f477d3eeed0db", "BCM_SunroofRollCloseSetResp", "", NO_FLAG, 1, 0)>>)
CAN_26D == F(\h26D, 45, <<
    R("911d8bcb63ffc42b", "IPK_FuelLowLevelWarning", "", NO_FLAG, 1, 0),
    R("27d5c6fc6ae43adb", "IPK_FuelLevelSts", "", NO_FLAG, 8, 0),
    R("a0078de50344e34b", "IPK_AverageVehicleSpeed", "", NO_FLAG, 8, 0),
    R("3050f548c25e3e7f", "IPK_MaintanceWarningSts", "", NO_FLAG, 1, 0),
    R("f8eb23506a5e481c", "IPK_LanguageMode", "", NO_FLAG, 4, 0),
    R("086b7af3c3fa4628", "IPK_HUDSwitchStatus", "", NO_FLAG, 1, 0),
    R("1fb0f43494cba295", "IPK_Backlightadjust", "", NO_FLAG, 5, 0),
    R("9c12c1568786e769", "IPK_vDisplay", "", NO_FLAG, 13, 0),
    R("a2a3124890d36d88", "IPK_OilLowPressure", "", NO_FLAG, 1, 0),
    R("c8b75ef4e4b840d2", "IPK_NaviHomeSwitch", "", NO_FLAG, 1, 0),
    R("215f3139ac866446", "IPK_SWOccupy", "", NO_FLAG, 2, 0)>>)
CAN_125 == F(\h125, 9, <<
    R("c776ce80bb92fd14", "ESC_BrakePedalSwitchStatus", "", NO_FLAG, 1, 0),
    R("a1b11e3e9b412b4c", "ESC_ESPFailed", "", NO_FLAG, 1, 0),
    R("cb230ca06ce15d68", "ESC_VehicleSpeed", "km/h", 88, 13, 1),
    R("b8f2a2250c8c53f8", "ESC_PATAResponse", "", NO_FLAG, 1, 0),
    R("3c159d3534ec5203", "ESC_VehicleSpeedInvalid", "", NO_FLAG, 1, 0),
    R("f327440f018e5006", "ESC_AVHStatus", "", NO_FLAG, 2, 0),
    R("e59caf4e4fb85ff2", "ESC_EPBStatus", "", NO_FLAG, 2, 0),
    R("876c2529dbbc2c58", "ESC_EPBErrorStatus", "", NO_FLAG, 1, 0),
    R("27478bea9b2d8781", "ESC_BrakePedalSwitchInvalid", "", NO_FLAG, 1, 0),
    R("3c7b9abbf05fd95f", "ESC_HHC_ErrorStatus", "", NO_FLAG, 1, 0),
    R("9fa41f6f14d8778f", "ESC_HDC_Active", "", NO_FLAG, 2, 0),
    R("09cee238148660ec", "ESC_HAZActive", "", NO_FLAG, 1, 0)>>)
CAN_287 == F(\h287, 55, <<
    R("ac296500a043b13f", "BCM_DoorControlLight_Resp", "", NO_FLAG, 1, 0),
    R("7f09a281d88f4fd4", "BCM_RoofControlStatus", "", NO_FLAG, 2, 0),
    R("e2a7a54f45d2a6f6", "BCM_CurtainControlStatus", "", NO_FLAG, 2, 0),
    R("7425dac06cf8e719", "BCM_CPDswback", "", NO_FLAG, 1, 0),
    R("ae7b0940d98601d8", "BCM_CPDsecswback", "", NO_FLAG, 1, 0),
    R("16218d9135ace619", "BCM_WashingStsRespond", "", NO_FLAG, 2, 0),
    R("2eff6cb086edcc22", "BCM_VehicleSpeedAutoLockSetResp", "", NO_FLAG, 2, 0),
    R("cd57a060dafe2bcc", "BCM_AnimLightTypeSetResp", "", NO_FLAG, 3, 0),
    R("db28d05acb92f073", "L_Sunroof_Operation_State", "", NO_FLAG, 4, 0),
    R("63a43df4e06b13f7", "BCM_SceneModeState", "", NO_FLAG, 1, 0),
    R("3c666b25c6698977", "BCM_AVM_ButtonPress", "", NO_FLAG, 1, 0),
    R("190195997b52b574", "BCM_sunroof_valid", "", NO_FLAG, 1, 0),
    R("690da8ff9485d635", "L_sunroof_Val_Opened", "", NO_FLAG, 7, 0),
    R("2a0232b3a22a180a", "L_sunroof_ap_event", "", NO_FLAG, 1, 0),
    R("b9e2b87e1b81fdb4", "BCM_sunroof_Error", "", NO_FLAG, 1, 0),
    R("74f8b32af60b6f15", "L_Rollo_Action_Status", "", NO_FLAG, 3, 0),
    R("374cabacdafb983f", "L_Sunroof_Position", "", NO_FLAG, 3, 0)>>)
CAN_2D2 == F(\h2D2, 79, <<
    R("810acc4d72f9118f", "DSCU_UserIDSavingPopUp", "", NO_FLAG, 1, 0),
    R("438baff8f65fca37", "DSCU_SceneModeState", "", NO_FLAG, 1, 0),
    R("2b26610b79710d07", "DSCU_SeatMemorySts", "", NO_FLAG, 1, 0),
    R("b6d0e661597d1002", "DSCU_RearMirrorReverseInclineSts", "", NO_FLAG, 2, 0),
    R("03e4d472f029f338", "DSCU_MmryScsIndReq", "", NO_FLAG, 1, 0),
    R("e9bb8abe63911674", "DSCU_PosnSt", "", NO_FLAG, 4, 0),
    R("8787062424a7e50d", "DSCU_EasyAccessResp", "", NO_FLAG, 2, 0),
    R("c202c917ebf7e430", "DSCU_MemorySet", "", NO_FLAG, 1, 0),
    R("8be8f0b0744f209b", "DSCU_DrvSeatAutoHeatResp", "", NO_FLAG, 1, 0),
    R("cd739e45c9ac5c80", "DSCU_PassSeatAutoHeatResp", "", NO_FLAG, 1, 0),
    R("984a9a3e8cd5f91d", "DSCU_DrvSeatTimeHeatResp", "", NO_FLAG, 3, 0),
    R("a3e2ec791c964982", "DSCU_PassSeatTimeHeatResp", "", NO_FLAG, 3, 0),
    R("5c3ceb576b6d2c93", "DSCU_DrvSeatAutoHeatLevelResp", "", NO_FLAG, 2, 0),
    R("c08087bceea0bd37", "DSCU_PassSeatAutoeHeatLevelResp", "", NO_FLAG, 2, 0),
    R("ad1463fb02bc41f9", "DSCU_UserIDPopUp", "", NO_FLAG, 2, 0),
    R("88302e13331b19fb", "DSCU_FaceIDPopUp", "", NO_FLAG, 2, 0),
    R("b2af82bc08d8d127", "DSCU_DrvrSeatLenPosPerc", "", NO_FLAG, 8, 0),
    R("7894851141f13e83", "DSCU_DrvrSeatBackrPosPerc", "", NO_FLAG, 8, 0),
    R("2e13bcf53a248f54", "DSCU_DrvrSeatHeiPosPerc", "", NO_FLAG, 8, 0)>>)
CAN_1F0 == F(\h1F0, 32, <<
    R("71f9bd0a55872e5a", "BCM_TurnIndicatorLeft", "", NO_FLAG, 1, 0),
    R("2033e4e038a69507", "BCM_GloveBoxSwReq", "", NO_FLAG, 1, 0),
    R("017aa4f026425b5f", "BCM_AntiPinchWarnSetResp", "", NO_FLAG, 1, 0),
    R("eccfec4bd2feb847", "BCM_TurnIndicatorRight", "", NO_FLAG, 1, 0),
    R("69e730d7c812d006", "BCM_TurnLeverSts", "", NO_FLAG, 2, 0),
    R("bf37b2bfe6a1eb1e", "BCM_HighBeamLeverSts", "", NO_FLAG, 1, 0),
    R("601e4811b69bf93d", "BCM_HighBeamRelayFailSts", "", NO_FLAG, 1, 0),
    R("e3e913cf3203f1ea", "BCM_LowBeamSts", "", NO_FLAG, 1, 0),
    R("11c0f8bcd0faaf06", "BCM_AutoLightSts", "", NO_FLAG, 1, 0),
    R("35da9fae134ad1de", "BCM_HighBeamSts", "", NO_FLAG, 1, 0),
    R("7ee75d2bedb94d22", "BCM_PositionLightSts", "", NO_FLAG, 1, 0),
    R("a0c9afaa24c3cad4", "BCM_FrontFogLightSts", "", NO_FLAG, 1, 0),
    R("56860abd547b2a35", "BCM_RearFogLightSts", "", NO_FLAG, 1, 0),
    R("46a5c5ebc41893d3", "BCM_LightLeftOn", "", NO_FLAG, 1, 0),
    R("9910131096972fd0", "BCM_FrontWinHeatSts", "", NO_FLAG, 2, 0),
    R("834d034d2a34571b", "BCM_GreatRainfallwarning", "", NO_FLAG, 1, 0),
    R("af7c7038ded68e90", "BCM_HeadlightOnwarning", "", NO_FLAG, 1, 0),
    R("7a3119b6d8e35237", "BCM_HazardSts", "", NO_FLAG, 1, 0),
    R("86548fa663ca6999", "BCM_SWHeatingSts", "", NO_FLAG, 2, 0),
    R("da7e199cb5f993a2", "BCM_FwashheatStatus", "", NO_FLAG, 1, 0)>>)
CAN_285 == F(\h285, 53, <<
    R("8634de65667aa831", "BCM_Drv_Wdw_valid", "", NO_FLAG, 1, 0),
    R("de47fb779e308d58", "BCM_Drv_Val_Wdw_Opened", "", NO_FLAG, 7, 0),
    R("6d39f929f516244d", "BCM_Drv_Wdw_OD_Sts", "", NO_FLAG, 1, 0),
    R("cde32629a55fa00f", "BCM_Drv_Wdw_Obs_InhibitSts", "", NO_FLAG, 1, 0),
    R("421ecd3ac46683e7", "BCM_Drv_Wdw_Running_Sts", "", NO_FLAG, 3, 0),
    R("f7de5598e50e8b6a", "BCM_Drv_Wdw_PositionSts", "", NO_FLAG, 2, 0),
    R("685c1a151d5be711", "BCM_Drv_Wdw_Error", "", NO_FLAG, 1, 0),
    R("084bf368ee9533c3", "BCM_RLD_Wdw_valid", "", NO_FLAG, 1, 0),
    R("6b51efa5917feb02", "BCM_RLD_Val_Wdw_Opened", "", NO_FLAG, 7, 0),
    R("af2a2fa14bed9b9f", "BCM_RLD_Wdw_OD_Sts", "", NO_FLAG, 1, 0),
    R("6a2f58f23e379f51", "BCM_RLD_Wdw_Obs_InhibitSts", "", NO_FLAG, 1, 0),
    R("7e37684a9da29a05", "BCM_RLD_Wdw_Running_Sts", "", NO_FLAG, 3, 0),
    R("ae0cbff8ba12d210", "BCM_RLD_Wdw_PositionSts", "", NO_FLAG, 2, 0),
    R("cb0bb7cebbb3e517", "BCM_RLD_Wdw_Error", "", NO_FLAG, 1, 0),
    R("e80bf1742006916f", "BCM_FrontLeftDoorAjarStatus", "", NO_FLAG, 1, 0),
    R("3f2627586a4f8308", "BCM_RearLeftDoorAjarStatus", "", NO_FLAG, 1, 0),
    R("0b76556414d78dc2", "BCM_DoorLockStatusRL", "", NO_FLAG, 2, 0),
    R("950e570f000795b8", "BCM_DoorLockStatusDrv", "", NO_FLAG, 2, 0),
    R("e94abadbd4041b52", "BCM_MechaKey_LockAction", "", NO_FLAG, 1, 0),
    R("b378fc9dcf51e0ec", "BCM_RearMirrorReverseInclineSts", "", NO_FLAG, 2, 0),
    R("e64166509121f8a7", "BCM_RearMirrorFoldSetResp", "", NO_FLAG, 1, 0),
    R("541891d08c4af732", "BCM_HeadlightAdjustmentSts", "", NO_FLAG, 4, 0),
    R("abfc17799134ba2a", "BCM_ExternalLockingReimnd", "", NO_FLAG, 2, 0)>>)
CAN_286 == F(\h286, 54, <<
    R("46306dab4fc098ea", "BCM_Pas_Wdw_valid", "", NO_FLAG, 1, 0),
    R("1ff7d0b8b7c41c55", "BCM_Pas_Val_Wdw_Opened", "", NO_FLAG, 7, 0),
    R("b2305ba6fd304630", "BCM_Pas_Wdw_OD_Sts", "", NO_FLAG, 1, 0),
    R("13175ee969d0c6ea", "BCM_Pas_Wdw_Obs_InhibitSts", "", NO_FLAG, 1, 0),
    R("2814d3c6cc700554", "BCM_Pas_Wdw_Running_Sts", "", NO_FLAG, 3, 0),
    R("4c101058b70b9c65", "BCM_Pas_Wdw_PositionSts", "", NO_FLAG, 2, 0),
    R("fa7c58a54e38dbbe", "BCM_Pas_Wdw_Error", "", NO_FLAG, 1, 0),
    R("72f967debf3cf4ca", "BCM_RRD_Wdw_valid", "", NO_FLAG, 1, 0),
    R("fbb5f2ecc8ef3e75", "BCM_RRD_Val_Wdw_Opened", "", NO_FLAG, 7, 0),
    R("2b3398af657fec90", "BCM_RRD_Wdw_OD_Sts", "", NO_FLAG, 1, 0),
    R("f8496ec9a3e3694a", "BCM_RRD_Wdw_Obs_InhibitSts", "", NO_FLAG, 1, 0),
    R("508eb3fb15676bf4", "BCM_RRD_Wdw_Running_Sts", "", NO_FLAG, 3, 0),
    R("d4d3995ff1afc345", "BCM_RRD_Wdw_PositionSts", "", NO_FLAG, 2, 0),
    R("9d1e94b8450567de", "BCM_RRD_Wdw_Error", "", NO_FLAG, 1, 0),
    R("37abb1ee664ae925", "BCM_FrontRightDoorAjarStatus", "", NO_FLAG, 1, 0),
    R("32a226886d997f36", "BCM_RearRightDoorAjarStatus", "", NO_FLAG, 1, 0),
    R("b2fca7fd4bb25fc5", "BCM_DoorLockStatusRR", "", NO_FLAG, 2, 0),
    R("ce5da507ad780298", "BCM_DoorLockStatusPass", "", NO_FLAG, 2, 0)>>)
CAN_2FD == F(\h2FD, 90, <<
    R("7d8bebba18c0ec57", "TPMS_FLTyreWarn", "", NO_FLAG, 2, 0),
    R("79289396b2443b02", "TPMS_FLTyre_Temperature", "", NO_FLAG, 1, 0),
    R("c30175ebf3503588", "TPMS_FLTyre_Fast_Leak", "", NO_FLAG, 1, 0),
    R("9043ce3605cfd40b", "TPMS_FLTyre_Sensor_Failure", "", NO_FLAG, 1, 0),
    R("897933d4f77b81a1", "BCM_PearlightResp", "", NO_FLAG, 1, 0),
    R("e9f68a48d3d68ac1", "TPMS_0x1F1_TimeoutFlag", "", NO_FLAG, 1, 0),
    R("01a0da0fe223bd25", "TPMS_FRTyreWarn", "", NO_FLAG, 2, 0),
    R("dcfebbc256deda88", "TPMS_FRTyre_Temperature", "", NO_FLAG, 1, 0),
    R("998d3e6304a6321e", "TPMS_FRTyre_Fast_Leak", "", NO_FLAG, 1, 0),
    R("167b560431072d15", "TPMS_FRTyre_Sensor_Failure", "", NO_FLAG, 1, 0),
    R("6529a18721dbd14b", "TPMS_RLTyreWarn", "", NO_FLAG, 2, 0),
    R("590f259fe95366c6", "TPMS_RLTyre_Temperature", "", NO_FLAG, 1, 0),
    R("308e121ab17c5f1c", "TPMS_RLTyre_Fast_Leak", "", NO_FLAG, 1, 0),
    R("4fb826aa0ff02d2f", "TPMS_RLTyre_Sensor_Failure", "", NO_FLAG, 1, 0),
    R("aa5c9e13879eb9d1", "TPMS_RRTyreWarn", "", NO_FLAG, 2, 0),
    R("f0c1ddd073fa77c9", "BCM_EnergyLevel", "", NO_FLAG, 1, 0),
    R("38e7643239f22e64", "TPMS_RRTyre_Temperature", "", NO_FLAG, 1, 0),
    R("32e665ea58ea1c5a", "TPMS_RRTyre_Fast_Leak", "", NO_FLAG, 1, 0),
    R("9b7c5ccd6fad6671", "TPMS_RRTyre_Sensor_Failure", "", NO_FLAG, 1, 0),
    R("129c1099ca6d7117", "BCM_DM_SwitchModeStsDispExt", "", NO_FLAG, 2, 0),
    R("2e62c09ce209257d", "TPMS_SystemSt", "", NO_FLAG, 2, 0),
    R("8acfae0735c26d12", "BCM_DMSVehicleMode", "", NO_FLAG, 2, 0),
    R("038c7b99c93af612", "BCM_0x283_TimeoutFlag", "", NO_FLAG, 1, 0),
    R("1efc50bbd3ec6647", "BCM_MMICustomSwitchSts", "", NO_FLAG, 2, 0)>>)
CAN_0E0 == F(\h0E0, 4, <<
    R("ae4ff20c4ee0a458", "SAS_SteerWheelAngle", "", NO_FLAG, 16, 0),
    R("a78c447ec620be43", "SAS_SteerWheelRotSpd", "", NO_FLAG, 8, 0),
    R("208afb745563d1f1", "SAS_CalibrationSts", "", NO_FLAG, 1, 0),
    R("58615932bccca07f", "SAS_FailureSts", "", NO_FLAG, 1, 0),
    R("4c701908b046080f", "SAS_Status_AliveCounter", "", NO_FLAG, 4, 0),
    R("c10affce69703583", "SAS_Status_Checksum", "", NO_FLAG, 8, 0)>>)
CAN_085 == F(\h085, 0, <<
    R("7f9d6733b543a3ff", "EMS_SSMStatus", "", NO_FLAG, 3, 0),
    R("68ac4d2691abd2aa", "EMS_EngStatus", "", NO_FLAG, 3, 0),
    R("7b68529699e46173", "EMS_AccelPedalPosition", "", 226, 8, 0),
    R("12ea04af8e6931c2", "EMS_AccelPedalPositionInvalid", "", NO_FLAG, 1, 0)>>)
CAN_3F1 == F(\h3F1, 103, <<
    R("2da04e5e8028c791", "IPK_IPKTotalOdometer", "", NO_FLAG, 24, 0),
    R("c92119ddfb8d4902", "IPK_DTEodometer", "", NO_FLAG, 12, 0),
    R("9af1b63a7e13e39b", "IPK_ServiceMaintainInterval", "", NO_FLAG, 16, 0)>>)
CAN_288 == F(\h288, 56, <<
    R("1f623d7bd6186f93", "EMS_EngineCoolantTemperature", "", NO_FLAG, 8, 0),
    R("c20d21d517682ef8", "EMS_EngineMILTelltale", "", NO_FLAG, 1, 0)>>)
CAN_28B == F(\h28B, 57, <<
    R("e1666b1181ed764a", "L_RS_RainfallLevel", "", NO_FLAG, 2, 0)>>)
CAN_374 == F(\h374, 97, <<
    R("cd0564f8f6852b56", "L_AFU_AFUSwitchResp", "", NO_FLAG, 2, 0),
    R("a76c3f0cd5787b8c", "L_AFU_FraganceTaste", "", NO_FLAG, 2, 0),
    R("bc6e7171eb7cf1b6", "L_AFU_FraganceConcentration", "", NO_FLAG, 2, 0),
    R("97085995369ce6bf", "L_AFU_FraganceBoxID", "", NO_FLAG, 2, 0),
    R("3f367b4f6fb2c3a4", "L_AFU_FraganceRatio", "", NO_FLAG, 4, 0),
    R("c5945cb6bfe1a449", "AC_KeySoundSts", "", NO_FLAG, 3, 0),
    R("1676eaff69d0c226", "AC_AQSReciInd", "", NO_FLAG, 1, 0),
    R("0cdda91da42bfdc7", "AC_AirFilterWarnResp", "", NO_FLAG, 1, 0),
    R("b383bd5f6ed4dec7", "AC_AirFilterWarnPopupReq", "", NO_FLAG, 2, 0),
    R("20d80f2254ef3a65", "AC_SceneModeState", "", NO_FLAG, 1, 0),
    R("c6cab2793e708fa8", "AC_GcleanState", "", NO_FLAG, 1, 0),
    R("3a1afe48554df349", "AC_VentilationOntimeState", "", NO_FLAG, 1, 0),
    R("07550d9379c91c5f", "AC_VentilationInvalid", "", NO_FLAG, 1, 0),
    R("022bc7d8249ba864", "L_AFU_AirFragCh1Type", "", NO_FLAG, 5, 0),
    R("d611a31355fba2d0", "AC_DeodorizeResp", "", NO_FLAG, 1, 0),
    R("c976eb40d5b9b868", "AC_ActiveACState", "", NO_FLAG, 1, 0),
    R("cdc49763d0b309a7", "AC_HEATMAX_St", "", NO_FLAG, 1, 0),
    R("9fca6d57dfc8b08d", "L_AFU_AirFragCh2Type", "", NO_FLAG, 5, 0),
    R("91fcb9399f05e902", "L_AFU_AirFragCh3Type", "", NO_FLAG, 5, 0),
    R("818c75bd43184ade", "L_AFU_FraganceChChgSts", "", NO_FLAG, 2, 0),
    R("b5d6ba08815e276a", "AC_ACForbiddenrReminder", "", NO_FLAG, 1, 0),
    R("ee68999a6e900fd9", "AC_AQM_CO2_Den", "", NO_FLAG, 9, 0),
    R("fcae31654857cb52", "AC_ION_POP_Req", "", NO_FLAG, 1, 0),
    R("65b893eb975a9228", "L_AFU_AirFragInitSts", "", NO_FLAG, 2, 0),
    R("6b9cbba1ddc0f7a7", "AC_AQM_CO2_Alarm", "", NO_FLAG, 1, 0),
    R("cd51218fa9c340f8", "AC_AQM_CO2_Level", "", NO_FLAG, 3, 0)>>)
CAN_390 == F(\h390, 99, <<
    R("efc2363d18642c38", "PAS_Buzzer_Alarm_Pattern", "", NO_FLAG, 3, 0),
    R("a38472dbe1a1480c", "PAS_PDC_MODE", "", NO_FLAG, 3, 0),
    R("fe7f40fc3e094d12", "PAS_PDC_ButtonPress", "", NO_FLAG, 1, 0),
    R("5bb0f9c1dc5ee767", "PAS_ParkingWarningBeef", "", NO_FLAG, 1, 0),
    R("999ad511961310b3", "PAS_PDC_DISTANCE_FL", "", NO_FLAG, 3, 0),
    R("82d0aef9c2643f53", "PAS_PDC_Failure", "", NO_FLAG, 2, 0),
    R("1525a5e20262fe24", "PAS_PDC_DISTANCE_FML", "", NO_FLAG, 3, 0),
    R("1525abe202630856", "PAS_PDC_DISTANCE_FMR", "", NO_FLAG, 3, 0),
    R("999af311961343ad", "PAS_PDC_DISTANCE_FR", "", NO_FLAG, 3, 0),
    R("9956f51195d97a47", "PAS_PDC_DISTANCE_RL", "", NO_FLAG, 3, 0),
    R("683991e1a0885708", "PAS_PDC_DISTANCE_RML", "", NO_FLAG, 3, 0),
    R("68397fe1a0883872", "PAS_PDC_DISTANCE_RMR", "", NO_FLAG, 3, 0),
    R("9956db1195d94e19", "PAS_PDC_DISTANCE_RR", "", NO_FLAG, 3, 0),
    R("bedf25e1d19e05d6", "PAS_PDC_DISTANCE_LSF", "", NO_FLAG, 3, 0),
    R("67e0abe1a03c5a60", "PAS_PDC_DISTANCE_RSF", "", NO_FLAG, 3, 0),
    R("bedf19e1d19df172", "PAS_PDC_DISTANCE_LSR", "", NO_FLAG, 3, 0),
    R("67e0bfe1a03c7c5c", "PAS_PDC_DISTANCE_RSR", "", NO_FLAG, 3, 0)>>)
CAN_123 == F(\h123, 7, <<
    R("355ac90c72dffd66", "ESC_RLWheelSpeedKPH", "km/h", NO_FLAG, 13, 1),
    R("ee958c5874674f64", "ESC_RLWheelSpeedInvalid", "", NO_FLAG, 1, 0),
    R("2986e54cbf063563", "ESC_RLWheelDirection", "", NO_FLAG, 2, 0),
    R("a100bb18c6b1d920", "ESC_RRWheelSpeedKPH", "km/h", NO_FLAG, 13, 1),
    R("f7bb24867bff7b02", "ESC_RRWheelSpeedInvalid", "", NO_FLAG, 1, 0),
    R("ece0b7e2a8055269", "ESC_RRWheelDirection", "", NO_FLAG, 2, 0),
    R("e73f0ea95232af0f", "ESC_RearWheelSpeedsKPH_AliveCounter", "", NO_FLAG, 4, 0),
    R("bdf3d74c6e9daf33", "ESC_HDC_Switch_Available", "", NO_FLAG, 1, 0),
    R("5b1372b62454a93f", "ESC_AVH_Switch_available", "", NO_FLAG, 1, 0),
    R("b0177b144d7dcb3a", "ESC_Autohold_SwitchSta", "", NO_FLAG, 1, 0),
    R("434af3353401ec83", "ESC_RearWheelSpeedsKPH_Checksum", "", NO_FLAG, 8, 0)>>)
CAN_124 == F(\h124, 8, <<
    R("f23babad9199ce93", "ESC_FLWheelSpeedRC", "", NO_FLAG, 12, 0),
    R("1cdd6b2b3eade8d9", "ESC_FRWheelSpeedRC", "", NO_FLAG, 12, 0),
    R("3a0cff69ae319a9f", "ESC_RLWheelSpeedRC", "", NO_FLAG, 12, 0),
    R("356109d9176a1e2d", "ESC_RRWheelSpeedRC", "", NO_FLAG, 12, 0),
    R("0503f76b6bfca7dd", "ESC_FLWheelSpeedRCSts", "", NO_FLAG, 1, 0),
    R("b98569a266199197", "ESC_FRWheelSpeedRCSts", "", NO_FLAG, 1, 0),
    R("31cf8a9a714b2019", "ESC_RLWheelSpeedRCSts", "", NO_FLAG, 1, 0),
    R("45ca73796ac761fb", "ESC_RRWheelSpeedRCSts", "", NO_FLAG, 1, 0),
    R("2e0120f0b1ff97de", "ESC_WheelSpeedsRC_AliveCounter", "", NO_FLAG, 4, 0),
    R("2f3c49759eda7dba", "ESC_WheelSpeedsRC_Checksum", "", NO_FLAG, 8, 0)>>)
CAN_3F6 == F(\h3F6, 104, <<
    R("dce641139bfb4963", "IPK_AverageFuelConsumptionOneCycel", "", NO_FLAG, 9, 0),
    R("ebb18a918f345211", "IPK_DayToSrv", "", NO_FLAG, 9, 0)>>)
CAN_2CA == F(\h2CA, 77, <<
    R("9b89a6b0cf671362", "HUD_HUDAciveResp", "", NO_FLAG, 1, 0),
    R("3264f790e04ac9de", "HUD_SystemStatus", "", NO_FLAG, 2, 0),
    R("7970b5da07401969", "HUD_SnowingModeActResp", "", NO_FLAG, 1, 0),
    R("528499ef7ffe2c25", "HUD_SafetyInfoDispResp", "", NO_FLAG, 1, 0),
    R("1b40e50b93ff1ba7", "HUD_NaviInfoDispResp", "", NO_FLAG, 1, 0),
    R("56a93503006dd8a9", "HUD_BTInfoDispResp", "", NO_FLAG, 1, 0),
    R("d0f6c701ecc32505", "HUD_SetButtonStatus", "", NO_FLAG, 1, 0),
    R("d5124c783cf5c80d", "HUD_UserIDSavingPopUp", "", NO_FLAG, 1, 0),
    R("872b29ae516e510e", "HUD_HUDVehDrvgDispResp", "", NO_FLAG, 1, 0)>>)
CAN_1B0 == F(\h1B0, 29, <<
    R("5569282d2428648e", "FCS_ALAD_SwitchStatus", "", NO_FLAG, 1, 0),
    R("2805913a71ba7150", "FCS_ALAD_Type", "", NO_FLAG, 3, 0),
    R("dd409198f7f3917a", "FCS_ALAD_Status", "", NO_FLAG, 4, 0),
    R("15af77e1ccf9ef74", "FCS_FCS_Status", "", NO_FLAG, 2, 0)>>)
CAN_299 == F(\h299, 63, <<
    R("a9dfa4649e440625", "PAS_AVP_RP_VideoTranCtrlReq", "", NO_FLAG, 1, 0),
    R("55fa6b69f8d023f6", "PDC_StopDisplayRequest_Rear", "", NO_FLAG, 1, 0),
    R("5b40d1e54bdfc22f", "PDC_StopDisplayRequest_Front", "", NO_FLAG, 1, 0),
    R("f36bb6de72700784", "PDC_NearestDistance_Rear", "", NO_FLAG, 9, 0),
    R("e76943b43ecd48b1", "PDC_NearestDistance_Front", "", NO_FLAG, 9, 0)>>)
CAN_2E0 == F(\h2E0, 82, <<
    R("ca33819a21ed5921", "FCS_IHBC_Status", "", NO_FLAG, 3, 0),
    R("1c345631c5df3a17", "FCS_IHBC_Switch", "", NO_FLAG, 2, 0),
    R("def2afad235e71c1", "FCS_SLIF_Switch", "", NO_FLAG, 2, 0),
    R("0a2a1abc1e98e648", "FCS_Sign_Speedlimit", "", NO_FLAG, 8, 0),
    R("03e075feaa0c2ebf", "FCS_SLIF_Status", "", NO_FLAG, 3, 0),
    R("30b12976a52a4db8", "FCS_SLIF_WarningMode", "", NO_FLAG, 2, 0),
    R("ef9aa7df8785569f", "FCS_SLIF_Warning", "", NO_FLAG, 1, 0),
    R("1fd59ef32d39d17f", "FCS_SLIF_WarningSwitch", "", NO_FLAG, 2, 0),
    R("7a128d1ba33d8324", "FCS_SLIF_WarningOffset", "", NO_FLAG, 3, 0),
    R("ebc7a14d76cf3d37", "FCS_SLIF_MiscSts", "", NO_FLAG, 1, 0)>>)
CAN_2E4 == F(\h2E4, 84, <<
    R("4a3a9a72d4b6a24d", "RSRS_SystemStatus", "", NO_FLAG, 2, 0),
    R("a7db4156dffa4295", "RSRS_LCA_Status", "", NO_FLAG, 2, 0),
    R("efdbdf0fbb3ca671", "RSRS_RCTA_Status", "", NO_FLAG, 2, 0),
    R("c8fa38cea224c359", "RSRS_RCW_Status", "", NO_FLAG, 2, 0),
    R("52b7815e4ff825f0", "RSRS_LCA_WarningLeft", "", NO_FLAG, 2, 0),
    R("9b60cee1227c4745", "RSRS_LCA_WarningRight", "", NO_FLAG, 2, 0),
    R("205190a4b51f41cc", "RSRS_RCTA_WarningLeft", "", NO_FLAG, 1, 0),
    R("f4d535900c46eab9", "RSRS_RCTA_WarningRight", "", NO_FLAG, 1, 0),
    R("c9044734f44bc6d7", "RSRS_DOW_Status", "", NO_FLAG, 2, 0),
    R("9fce1269c965485e", "RSRS_DOW_WarningLeft", "", NO_FLAG, 2, 0),
    R("59ea4cb545b4a7d3", "RSRS_DOW_WarningRight", "", NO_FLAG, 2, 0),
    R("362d72ebb44e400f", "RSRS_LCA_AudioSwitch", "", NO_FLAG, 1, 0)>>)
CAN_114 == F(\h114, 5, <<
    R("8413086be5919e62", "FCS_ELK_SwitchStatus", "", NO_FLAG, 1, 0),
    R("7e23a7673144617e", "FCS_ELK_Status", "", NO_FLAG, 3, 0)>>)
CAN_1A2 == F(\h1A2, 25, <<
    R("a22aa37abd1b9dad", "FRS_AEB_WarningType", "", NO_FLAG, 2, 0),
    R("ba960eae497303f3", "FRS_AEB_Switch", "", NO_FLAG, 2, 0),
    R("c41c31bb877fdcd5", "FRS_AEB_Status", "", NO_FLAG, 3, 0),
    R("17065e6340b15a65", "FRS_AEB_FCWSenlevel", "", NO_FLAG, 2, 0)>>)
CAN_1A3 == F(\h1A3, 26, <<
    R("bf27e5e84a528dce", "FRS_ALOD_SLIF_Response", "", NO_FLAG, 1, 0),
    R("016795478f5f18a6", "FRS_ALOD_Status", "", NO_FLAG, 4, 0),
    R("055275544c0431e9", "FRS_ALOD_ControlType", "", NO_FLAG, 3, 0),
    R("17a16f7065f06710", "FRS_ALOD_Warning", "", NO_FLAG, 3, 0),
    R("b8335928e8741ce0", "FRS_ALOD_Info", "", NO_FLAG, 5, 0)>>)
CAN_27F == F(\h27F, 49, <<
    R("ee9376bc9c914afc", "PEPS_RKECommand", "", NO_FLAG, 4, 0),
    R("cce67f30f9c2d67f", "PEPS_LOCK_CMD", "", NO_FLAG, 3, 0),
    R("a1a60140370dc0b1", "PEPS_FOB_NUM", "", NO_FLAG, 3, 0),
    R("0d6e42dfe69f29bc", "PEPS_Warning_Stop_Emergency", "", NO_FLAG, 1, 0),
    R("7c21f96443c4c3ed", "PEPS_Warning_Stop_Moving", "", NO_FLAG, 1, 0)>>)
CAN_2C1 == F(\h2C1, 69, <<
    R("f8377f1b20dd2462", "DSCU_DrvHeatSts", "", NO_FLAG, 3, 0),
    R("830c550ea37f4e6b", "DSCU_PassHeatingSts", "", NO_FLAG, 3, 0),
    R("db5cff8e0686c2d9", "DSCU_DrvVentSts", "", NO_FLAG, 3, 0),
    R("2e45ad898e25558b", "DSCU_PassVentSts_Reserved", "", NO_FLAG, 3, 0),
    R("6005719bc0dc6aa0", "HVSM_FwashheatSts", "", NO_FLAG, 2, 0),
    R("8440da74e0096b05", "DSCU_DrvMassageSts", "", NO_FLAG, 3, 0),
    R("0c70881c3f579873", "HVSM_SwHeatSts", "", NO_FLAG, 2, 0),
    R("8404e8ade4a17fcf", "HVSM_FrntWinHeatSts", "", NO_FLAG, 2, 0),
    R("45c5fb3c90242c68", "DSCU_RemoteControlSt", "", NO_FLAG, 1, 0)>>)
CAN_380 == F(\h380, 98, <<
    R("8fd62fd25a21cd5e", "ACU_DrvSeatbeltBucklestatus", "", NO_FLAG, 1, 0),
    R("f6fdc1f48227c1cf", "ACU_PassSeatbeltWarning", "", NO_FLAG, 1, 0),
    R("dc6584eb81473faf", "ACU_PassSeatOccupantSensorStat", "", NO_FLAG, 1, 0),
    R("d7203475b0d01388", "ACU_AirbagWarningStatus", "", NO_FLAG, 2, 0),
    R("c11a17be5313ce17", "ACU_DrvSeatbeltBuckleInvalid", "", NO_FLAG, 1, 0),
    R("d01763d0e91b644d", "ACU_ChimeTelltaleReq_AliveCounter", "", NO_FLAG, 4, 0),
    R("7f57a57d8d9db27d", "ACU_ChimeTelltaleReq_Checksum", "", NO_FLAG, 8, 0),
    R("760fd35cb56fb5de", "ACU_CrashOutputSts", "", NO_FLAG, 8, 0)>>)
CAN_150 == F(\h150, 13, <<
    R("625b8fc301107379", "EPS_EpasFailed", "", NO_FLAG, 1, 0)>>)
CAN_2C5 == F(\h2C5, 73, <<
    R("8ce3cda3b816c05a", "IPK_Trip1_km", "", NO_FLAG, 17, 0),
    R("d6f3f9a3bfd1c494", "IPK_OdometerSts", "", NO_FLAG, 1, 0),
    R("84beb6123eec1ec0", "IPK_RstTrip1", "", NO_FLAG, 4, 0),
    R("092bf84bb3a00676", "IPK_Trip1_Duration", "", NO_FLAG, 16, 0)>>)
CAN_2C6 == F(\h2C6, 74, <<
    R("61da0116de70cff0", "IPK_Trip2_km", "", NO_FLAG, 17, 0),
    R("a74bf50b947d834c", "IPK_RstTrip2", "", NO_FLAG, 4, 0),
    R("a6b1f940a612eb27", "IPK_Rst_Trip2Sts", "", NO_FLAG, 1, 0),
    R("e26450a1caccf30c", "IPK_Trip2_Duration", "", NO_FLAG, 16, 0),
    R("919110bc1968f99c", "IPK_Trip2_AverageVehicleSpeed", "", NO_FLAG, 8, 0)>>)
CAN_214 == F(\h214, 36, <<
    R("de8329499aead429", "VCU_EVDTEodometer", "", NO_FLAG, 12, 0),
    R("f13d4031d9599117", "VCU_ShowModeEnable", "", NO_FLAG, 1, 0),
    R("efd1b2f8a6ca9514", "VCU_Discharge_SOC_value", "", NO_FLAG, 8, 0),
    R("4f23c45adf8424dd", "VCU_HVMaintenanceSwtichStsResp", "", NO_FLAG, 2, 0),
    R("7d8923d5791e4b1e", "VCU_PtModAct", "", NO_FLAG, 2, 0),
    R("6ef83ca0542aa42b", "VCU_PtModBlkd", "", NO_FLAG, 1, 0),
    R("43d2303ca3ce8d4c", "VCU_EngFltIndcn", "", NO_FLAG, 4, 0),
    R("e5b2bfc56a6cc9ee", "VCU_SaveElecSwitchModeFctSts", "", NO_FLAG, 1, 0),
    R("6a03c662d37de6db", "VCU_SaveElecModeReq", "", NO_FLAG, 1, 0)>>)
CAN_17A == F(\h17A, 21, <<
    R("8fa84c96c0dbec21", "BMSH_BattSOC", "%", NO_FLAG, 10, 1)>>)
CAN_3A2 == F(\h3A2, 101, <<
    R("124cd6f775baf9bf", "VCU_PwrCnsAvg1", "", NO_FLAG, 10, 0),
    R("08680022f548c20e", "VCU_TrlrModPrpsnSts", "", NO_FLAG, 2, 0),
    R("fa1910a6171848ea", "VCU_TrlrModRemind", "", NO_FLAG, 1, 0),
    R("cefa0060a1a7173f", "VCU_GearRemind", "", NO_FLAG, 3, 0),
    R("768a1b3acd9aab2f", "VCU_EVDTEodometerDynDisChg", "", NO_FLAG, 12, 0),
    R("15c2b95385c674c0", "VCU_ChrgDischrgPwrAct", "kW", NO_FLAG, 8, 1),
    R("acc70e9d88102cdc", "VCU_EVDTEodometerDisChg", "", NO_FLAG, 12, 0)>>)
CAN_315 == F(\h315, 93, <<
    R("c27f1ec4cc44a87e", "VCU_EVDTEodometerDyn", "", NO_FLAG, 12, 0),
    R("5559faa9ef77df17", "VCU_DrvPwrAct", "kW", NO_FLAG, 12, 1),
    R("6f1c21ed383fcec8", "VCU_ThermalPwrAct", "kW", NO_FLAG, 8, 1),
    R("de0ea26337a2742b", "VCU_DCDCPwrAct", "", NO_FLAG, 8, 0),
    R("e3837551e3419003", "VCU_PwrCnsAvg", "", NO_FLAG, 11, 0),
    R("bc99bf27eb6f4d2f", "VCU_AvgCnsDstSg", "", NO_FLAG, 1, 0)>>)
CAN_2EA == F(\h2EA, 85, <<
    R("777e1f894e7a3635", "OBC_DischrgPwrExceedWarn", "", NO_FLAG, 1, 0),
    R("1c13df5696ac8192", "OBC_MaxACInpISetFdb", "", NO_FLAG, 7, 0)>>)
CAN_220 == F(\h220, 38, <<
    R("7fc23d317942a62f", "OBC_ChrgrSt", "", NO_FLAG, 4, 0),
    R("c69284e8ee442fd2", "OBC_OnBdFailSt", "", NO_FLAG, 2, 0),
    R("db13e21da108bdd3", "OBC_OnBdDisChrgrCCline_PHEV", "", NO_FLAG, 2, 0),
    R("dcd6fdaf1bd9cb61", "OBC_OnBdCCline", "", NO_FLAG, 2, 0),
    R("ef9f11558e3c3f24", "OBC_OnBdCPline", "", NO_FLAG, 3, 0)>>)
CAN_250 == F(\h250, 42, <<
    R("df1e12df281bbe5d", "BMSH_BattCurr", "A", NO_FLAG, 14, 1),
    R("190456d466e1a843", "BMSH_HVBusVolt", "V", NO_FLAG, 10, 1),
    R("e219c18aa7103428", "BMSH_stMode", "", NO_FLAG, 5, 0),
    R("1ade5e292f5b3611", "BMSH_FastChgCC2ConntState", "", NO_FLAG, 2, 0),
    R("5a8802c9b84b0096", "BMSH_BattFaultLampState", "", NO_FLAG, 2, 0),
    R("07aeb2bd7b9b7cc8", "BMSH_ChargeLEDCtrl", "", NO_FLAG, 4, 0),
    R("dd813255bc1167ee", "BMSH_0x178_TimeoutFlag", "", NO_FLAG, 1, 0),
    R("5f109bf5c077dbbe", "BMSH_0x211_TimeoutFlag", "", NO_FLAG, 1, 0)>>)
CAN_359 == F(\h359, 96, <<
    R("54353bf2a203e22b", "BMSH_DCDispCurr", "", NO_FLAG, 14, 0)>>)
CAN_17B == F(\h17B, 22, <<
    R("47f999229a1169e3", "BMSH_ACChgTimeRemain", "min", NO_FLAG, 11, 1),
    R("48c647ad2cfe56f7", "BMSH_ThermalOutofControl", "", NO_FLAG, 1, 0)>>)
CAN_0B7 == F(\h0B7, 2, <<
    R("c2b71d8ccc25d3e5", "BMSH_DCChgPwr", "", NO_FLAG, 10, 0),
    R("a4399b05416e5809", "BMSH_V2XdchaSwtFb", "", NO_FLAG, 2, 0),
    R("d1942a310fed2e89", "BMSH_DchaStopReasonIndcn", "", NO_FLAG, 2, 0)>>)
CAN_221 == F(\h221, 39, <<
    R("7203092430237524", "OBC_OnBdDisChrgrEnergy", "", NO_FLAG, 12, 0),
    R("3360740302c90b5e", "OBC_OnBdDisChrgrCCline_EV", "", NO_FLAG, 2, 0),
    R("fac0a4257f62ffc9", "OBC_iInAct", "A", NO_FLAG, 10, 1),
    R("832e364e51198ffd", "OBC_uInAct", "V", NO_FLAG, 13, 1)>>)
CAN_339 == F(\h339, 94, <<
    R("89a8ce65fa964797", "OBC_TotDischTime", "", NO_FLAG, 13, 0)>>)
CAN_162 == F(\h162, 16, <<
    R("1fff42632efd9b4d", "VCU_ePTModeSelect", "", NO_FLAG, 2, 0),
    R("f7772148a9dfe1d3", "VCU_NoPluginModStatus", "", NO_FLAG, 1, 0),
    R("63ef1067ce23c757", "VCU_ePTModeActual", "", NO_FLAG, 3, 0),
    R("a2fabed392ac0f1c", "VCU_DriverRemind", "", NO_FLAG, 1, 0),
    R("4eefe906483c04bd", "VCU_ePTReady", "", NO_FLAG, 1, 0),
    R("ef30b5a46a93617f", "VCU_ePTRegencyLevInd", "", NO_FLAG, 3, 1),
    R("438fecd7fc11dd22", "VCU_LimpHomeSts", "", NO_FLAG, 1, 0)>>)
CAN_2C3 == F(\h2C3, 71, <<
    R("ea53ed9fa6b23256", "CHM_FwashheatSts", "", NO_FLAG, 2, 0),
    R("e8dc32031d0b5981", "CHM_SwHeatSts", "", NO_FLAG, 2, 0),
    R("b43806a0c5c02fc5", "CHM_FwindheatSts", "", NO_FLAG, 2, 0),
    R("5c937ddeed521815", "TCM_SwHeat_ErrorState", "", NO_FLAG, 4, 0)>>)
CAN_283 == F(\h283, 51, <<
    R("e5e848195ca09539", "BCM_DM_TargetModeReq", "", NO_FLAG, 3, 1),
    R("606b33cbdc62a486", "BCM_DM_SwitchModeSts", "", NO_FLAG, 3, 0),
    R("7c9a37265661674e", "BCM_DM_SwitchModeStsDisp", "", NO_FLAG, 3, 0)>>)
CAN_274 == F(\h274, 48, <<
    R("dd82197443d7d3da", "PEPS_WarnEmergencyOFF", "", NO_FLAG, 2, 0),
    R("d1bf69cf18016875", "PEPS_AutoPoweroffSetResp", "", NO_FLAG, 1, 0),
    R("d91341b5fedbc9a2", "PEPS_PoweroffCancelResp", "", NO_FLAG, 1, 0),
    R("35ee9896ca0361c6", "PEPS_PoweroffWarning", "", NO_FLAG, 1, 0),
    R("bbf5ee4f4f8210f5", "PEPS_PowerKeepTimeSetResp", "", NO_FLAG, 4, 0)>>)
CAN_128 == F(\h128, 10, <<
    R("cff29850cb6676d9", "ESC_cst_status", "", NO_FLAG, 1, 0),
    R("d5b164be8cf9673b", "ESC_CST_Switch_available", "", NO_FLAG, 1, 0),
    R("393810e6631b49d9", "ESC_EPB_ApplyAvailable", "", NO_FLAG, 1, 0),
    R("6ad982a14466a05a", "ESC_EPB_ReleaseAvailable", "", NO_FLAG, 1, 0),
    R("fa8fc63202676825", "ESC_EPB_AutoApplyStatus", "", NO_FLAG, 1, 0),
    R("3be0d74f30544b35", "ESC_EPB_SoftSwitchAvailable", "", NO_FLAG, 2, 0),
    R("7cbf7686a9484979", "ESC_ISAStatus", "", NO_FLAG, 2, 0),
    R("6335f463cd669d44", "ESC_ISA_Switch_Available", "", NO_FLAG, 1, 0),
    R("1730ebe5a7a1117c", "ESC_RoadInclnRoadIncln", "%", NO_FLAG, 11, 1),
    R("0ffcd765f362d331", "ESC_Regen_AliveCounter", "", NO_FLAG, 4, 0),
    R("89b8499119d514af", "ESC_VBF_Switch_available", "", NO_FLAG, 1, 0),
    R("daa26e773949929d", "ESC_VBF_status", "", NO_FLAG, 1, 0),
    R("a30d8dbd1a7d10c9", "ESC_Regen_Checksum", "", NO_FLAG, 8, 0)>>)
CAN_165 == F(\h165, 17, <<
    R("69736532cc630200", "VCU_ModeGearDisplaySts", "", NO_FLAG, 5, 0),
    R("bc90dd3782ffd4fa", "VCU_SmartTravelingRejt", "", NO_FLAG, 2, 0),
    R("893f8af9c0bf199d", "VCU_SOCpointSetsts", "", NO_FLAG, 7, 0)>>)
CAN_1E2 == F(\h1E2, 30, <<
    R("dc28db8bd63ef7f5", "PEPS_PowerModeValidity", "", NO_FLAG, 2, 0),
    R("39b7346d02c1d3d7", "PEPS_PowerMode", "", NO_FLAG, 3, 0),
    R("02c9db6b6de8ea95", "PEPS_RemoteControlSt", "", NO_FLAG, 1, 0)>>)
CAN_12F == F(\h12F, 11, <<
    R("760f149f6aeb97da", "ESC_ParkingBrakeFail", "", NO_FLAG, 1, 0),
    R("3390ab93c2e936ee", "ESC_ISA_Disp_WithoutSeatbelt", "", NO_FLAG, 1, 0),
    R("bcc1d9daa48ef498", "ESC_ShowModeEnable", "", NO_FLAG, 1, 0),
    R("77961782d2df3554", "ESC_TrlrModBCSts", "", NO_FLAG, 2, 0)>>)
CAN_1A6 == F(\h1A6, 28, <<
    R("8fd4ecd7f6425be5", "FCS_Driveoff_Switch", "", NO_FLAG, 2, 0)>>)
CAN_1A5 == F(\h1A5, 27, <<
    R("86110b3aa9abac90", "VCU_StartActive", "", NO_FLAG, 1, 0),
    R("c4446bc1be182716", "VCU_CruiseControlSts", "", NO_FLAG, 3, 0),
    R("92d30e2c5ce999e7", "VCU_CruiseSwitchSts", "", NO_FLAG, 1, 0)>>)
CAN_272 == F(\h272, 47, <<
    R("90fd9118fcd89eb6", "BCM_Warning_LOW_BATTU", "", NO_FLAG, 1, 0),
    R("28e73dcf9e48c9b2", "PEPS_Warning_BatterySaving", "", NO_FLAG, 1, 0),
    R("fcb05a15449cd710", "PEPS_WelcomeLightSetResp", "", NO_FLAG, 1, 0),
    R("1b247bb37299bf3f", "PEPS_KeyInReminderCfgResult", "", NO_FLAG, 1, 0),
    R("0183db47e9a73e86", "PEPS_TrunkUnlockWithoutKeyCfgResult", "", NO_FLAG, 1, 0),
    R("4f2430133a614d86", "PEPS_TrunkUnlockDistanceCfgResult", "", NO_FLAG, 1, 0),
    R("e5da775a05ddfb2b", "PEPS_TerminalNotOFFWarnCfgResult", "", NO_FLAG, 1, 0),
    R("e83aec5149fa52ab", "PEPS_AnyDoorOpenWarnCfgResult", "", NO_FLAG, 1, 0),
    R("eb186897a9827bc5", "PEPS_APUCfgResult", "", NO_FLAG, 1, 0),
    R("b7cad1cb16c48b55", "PEPS_WALCfgResult", "", NO_FLAG, 1, 0),
    R("4c64222d11ced3aa", "PEPS_SATOCfgResult", "", NO_FLAG, 1, 0)>>)
CAN_1EB == F(\h1EB, 31, <<
    R("11b08547b83f8fa7", "iTPMS_FLTyreWarn", "", NO_FLAG, 2, 0),
    R("a5e6b50f92df9515", "iTPMS_FRTyreWarn", "", NO_FLAG, 2, 0),
    R("8d056cde21b4ca7b", "iTPMS_RLTyreWarn", "", NO_FLAG, 2, 0),
    R("c09bad6f5d9e78e1", "iTPMS_RRTyreWarn", "", NO_FLAG, 2, 0),
    R("9a0a1edb19cc9ae6", "iTPMS_comTyreWarn", "", NO_FLAG, 2, 0),
    R("dc38613894b9d4ed", "iTPMS_SystemSt", "", NO_FLAG, 2, 0),
    R("a0ed5f3ec113ed99", "iTPMSCalPsbl", "", NO_FLAG, 1, 0),
    R("f716b717a465ea5a", "iTPMSCalsts", "", NO_FLAG, 3, 0)>>)
CAN_2C8 == F(\h2C8, 75, <<
    R("d2ff9a5aca56a821", "PTG_OpenSts", "", NO_FLAG, 8, 0),
    R("c88565aab80c01db", "PTG_PinchEvent", "", NO_FLAG, 1, 0),
    R("62aae7e4846f6e67", "PTG_OperateSts", "", NO_FLAG, 2, 0),
    R("d65bcf8eaf0d2a9d", "PTG_TrunkUpBasicPositionResp", "", NO_FLAG, 3, 0),
    R("fdb2e6b629f9b56e", "PTG_SystemFault", "", NO_FLAG, 1, 0)>>)
CAN_290 == F(\h290, 58, <<
    R("756190e65f4a4d55", "L_Roll_Val_Opened", "", NO_FLAG, 7, 0),
    R("6f1d995e8a644ba3", "BCM_MusicRhythmSts", "", NO_FLAG, 1, 0),
    R("9bd286f4f38a3446", "BCM_ExtLightOutput", "", NO_FLAG, 1, 0),
    R("9944b055ca9d3a74", "BCM_FrontWiperServiceModeReqSts", "", NO_FLAG, 1, 0),
    R("37689a4355d89241", "BCM_FailReason2MMI", "", NO_FLAG, 3, 0)>>)
CAN_295 == F(\h295, 61, <<
    R("3ab1added3cdbeda", "TBOX_MMI_RemoteViewModeReq", "", NO_FLAG, 2, 0),
    R("d5d1418baf823097", "TBOX_RVSSts", "", NO_FLAG, 1, 0),
    R("bd81644a102b318a", "TBOX_VLSupdateSts", "", NO_FLAG, 1, 0),
    R("d12eb08456cd0d8b", "TBOX_MMI_RemoteViewChangeReq", "", NO_FLAG, 3, 0),
    R("dce8a4b1b5f39be6", "TBOX_MMI_TransmissionReq", "", NO_FLAG, 3, 0)>>)
CAN_178 == F(\h178, 20, <<
    R("b83ed7b04b0e06ef", "BMSH_BattVolt", "V", NO_FLAG, 13, 1)>>)
CAN_1A1 == F(\h1A1, 24, <<
    R("5ff49601e1b9ae0d", "FRS_ALOD_Mode", "", NO_FLAG, 4, 0)>>)
CAN_680 == F(\h680, 108, <<
    R("eacf9e688bb3e400", "Byte0_680", "", NO_FLAG, 8, 0),
    R("5c3cc68e909fe8b3", "Byte1_680", "", NO_FLAG, 8, 0),
    R("90506a610f396ffa", "Byte2_680", "", NO_FLAG, 8, 0),
    R("6dd93074986eb24d", "Byte3_680", "", NO_FLAG, 8, 0),
    R("bcd6ac9a89e8b884", "Byte4_680", "", NO_FLAG, 8, 0),
    R("9b55ee82f6cd4457", "Byte5_680", "", NO_FLAG, 8, 0),
    R("3f116aab5c47798e", "Byte6_680", "", NO_FLAG, 8, 0),
    R("c7a5b0bc714e23f1", "Byte7_680", "", NO_FLAG, 8, 0)>>)
CAN_3FE == F(\h3FE, 107, <<
    R("96f100288049369b", "DVR_WIFI_password_Byte0", "", NO_FLAG, 8, 0),
    R("96f0ff28804934e8", "DVR_WIFI_password_Byte1", "", NO_FLAG, 8, 0),
    R("96f1022880493a01", "DVR_WIFI_password_Byte2", "", NO_FLAG, 8, 0),
    R("96f101288049384e", "DVR_WIFI_password_Byte3", "", NO_FLAG, 8, 0),
    R("96f1042880493d67", "DVR_WIFI_password_Byte4", "", NO_FLAG, 8, 0),
    R("96f1032880493bb4", "DVR_WIFI_password_Byte5", "", NO_FLAG, 8, 0),
    R("96f10628804940cd", "DVR_WIFI_password_Byte6", "", NO_FLAG, 8, 0),
    R("96f1052880493f1a", "DVR_WIFI_password_Byte7", "", NO_FLAG, 8, 0)>>)
CAN_3FD == F(\h3FD, 106, <<
    R("5ff5ae5b4ebb8c52", "DVR_WIFI_Account_Byte0", "", NO_FLAG, 8, 0),
    R("5ff5af5b4ebb8e05", "DVR_WIFI_Account_Byte1", "", NO_FLAG, 8, 0),
    R("5ff5ac5b4ebb88ec", "DVR_WIFI_Account_Byte2", "", NO_FLAG, 8, 0),
    R("5ff5ad5b4ebb8a9f", "DVR_WIFI_Account_Byte3", "", NO_FLAG, 8, 0),
    R("5ff5aa5b4ebb8586", "DVR_WIFI_Account_Byte4", "", NO_FLAG, 8, 0),
    R("5ff5ab5b4ebb8739", "DVR_WIFI_Account_Byte5", "", NO_FLAG, 8, 0),
    R("5ff5a85b4ebb8220", "DVR_WIFI_Account_Byte6", "", NO_FLAG, 8, 0),
    R("3c717c272f739aa4", "DVR_WIFI_ConnectStatus", "", NO_FLAG, 2, 0)>>)
CAN_3F7 == F(\h3F7, 105, <<
    R("1476dad98e7d2e65", "IPK_EVDTEodometer", "", NO_FLAG, 12, 0)>>)
CAN_3F0 == F(\h3F0, 102, <<
    R("5959b9aa23ffa16b", "IPK_Second", "", NO_FLAG, 6, 0),
    R("5f67ddada76f31db", "IPK_Minute", "", NO_FLAG, 6, 0),
    R("9421a29b0e1b89dd", "IPK_Hour", "", NO_FLAG, 5, 0),
    R("e5561f9a16d59eb3", "IPK_TimeDisplayMode", "", NO_FLAG, 1, 0),
    R("e23dff85497fc12f", "IPK_Day", "", NO_FLAG, 5, 0),
    R("73b1fc4b8a758667", "IPK_Month", "", NO_FLAG, 4, 0),
    R("6b0f0317ce501fc6", "IPK_Year", "", NO_FLAG, 6, 0)>>)
CAN_392 == F(\h392, 100, <<
    R("ae1637d2931978f1", "PAS_SDW_MODE", "", NO_FLAG, 3, 0),
    R("e6818a6fa701a7d1", "PAS_SDW_Hatch_FR", "", NO_FLAG, 1, 0),
    R("e681946fa701b8cf", "PAS_SDW_Hatch_FL", "", NO_FLAG, 1, 0),
    R("afe4d4b8c7ea798a", "PAS_SDW_Hatch_FMR", "", NO_FLAG, 1, 0),
    R("afe4d6b8c7ea7cf0", "PAS_SDW_Hatch_FML", "", NO_FLAG, 1, 0),
    R("5d3d40b92a20d50e", "PAS_SDW_Hatch_RMR", "", NO_FLAG, 1, 0),
    R("5d3d2ab92a20afac", "PAS_SDW_Hatch_RML", "", NO_FLAG, 1, 0),
    R("e6c5826fa73b6705", "PAS_SDW_Hatch_RR", "", NO_FLAG, 1, 0),
    R("e6c5946fa73b859b", "PAS_SDW_Hatch_RL", "", NO_FLAG, 1, 0),
    R("651d42b152b55020", "PAS_SDW_Scan_FR", "", NO_FLAG, 1, 0),
    R("651d60b152b5831a", "PAS_SDW_Scan_FL", "", NO_FLAG, 1, 0),
    R("86719f4f8a705a2d", "PAS_SDW_Scan_FMR", "", NO_FLAG, 1, 0),
    R("8671814f8a702733", "PAS_SDW_Scan_FML", "", NO_FLAG, 1, 0),
    R("ee48b34fc53a0a69", "PAS_SDW_Scan_RMR", "", NO_FLAG, 1, 0),
    R("ee48ad4fc53a0037", "PAS_SDW_Scan_RML", "", NO_FLAG, 1, 0),
    R("65460ab152d7f60c", "PAS_SDW_Scan_RR", "", NO_FLAG, 1, 0),
    R("654620b152d81b6e", "PAS_SDW_Scan_RL", "", NO_FLAG, 1, 0),
    R("174e3389b10ebb02", "PAS_SDW_DISTANCE_FR", "", NO_FLAG, 2, 0),
    R("174e2589b10ea338", "PAS_SDW_DISTANCE_FL", "", NO_FLAG, 2, 0),
    R("a87034f7dbe1e65b", "PAS_SDW_DISTANCE_FMR", "", NO_FLAG, 2, 0),
    R("a87022f7dbe1c7c5", "PAS_SDW_DISTANCE_FML", "", NO_FLAG, 2, 0),
    R("104728f816ab6037", "PAS_SDW_DISTANCE_RMR", "", NO_FLAG, 2, 0),
    R("10472ef816ab6a69", "PAS_SDW_DISTANCE_RML", "", NO_FLAG, 2, 0),
    R("1776fb89b13160ee", "PAS_SDW_DISTANCE_RR", "", NO_FLAG, 2, 0),
    R("1776e589b1313b8c", "PAS_SDW_DISTANCE_RL", "", NO_FLAG, 2, 0),
    R("c3c9cd04dbb4ca3e", "PAS_PDC_Hatch_FR", "", NO_FLAG, 1, 0),
    R("c3c9d704dbb4db3c", "PAS_PDC_Hatch_FL", "", NO_FLAG, 1, 0),
    R("64d6cd4154531527", "PAS_PDC_Hatch_FMR", "", NO_FLAG, 1, 0),
    R("64d6b3415452e8f9", "PAS_PDC_Hatch_FML", "", NO_FLAG, 1, 0),
    R("122ff941b68ab6eb", "PAS_PDC_Hatch_RMR", "", NO_FLAG, 1, 0),
    R("12300741b68aceb5", "PAS_PDC_Hatch_RML", "", NO_FLAG, 1, 0),
    R("c40dc504dbee8972", "PAS_PDC_Hatch_RR", "", NO_FLAG, 1, 0),
    R("c40dd704dbeea808", "PAS_PDC_Hatch_RL", "", NO_FLAG, 1, 0),
    R("84476e7431856f4d", "PAS_SoundZone_FR", "", NO_FLAG, 2, 0),
    R("8447507431853c53", "PAS_SoundZone_FL", "", NO_FLAG, 2, 0),
    R("84035674314b79b9", "PAS_SoundZone_RR", "", NO_FLAG, 2, 0),
    R("84037074314ba5e7", "PAS_SoundZone_RL", "", NO_FLAG, 2, 0)>>)
CAN_354 == F(\h354, 95, <<
    R("3a705f9a4ec480e0", "BMSH_ChgTimeRemain", "", NO_FLAG, 11, 0)>>)
CAN_2FF == F(\h2FF, 92, <<
    R("b4fcab15fda014e0", "VIMS_MMI_GestureMuteResp", "", NO_FLAG, 1, 0),
    R("e2db9bcc66115832", "VIMS_MMI_CameraSoundReq", "", NO_FLAG, 1, 0),
    R("c5935a0438acf27c", "VIMS_MMI_MusicLikeReq", "", NO_FLAG, 1, 0),
    R("644f60ef3e8de172", "VIMS_MMI_RacingReq", "", NO_FLAG, 1, 0),
    R("1951c5e3d21d9423", "VIMS_MMI_MuteReq", "", NO_FLAG, 1, 0),
    R("afde08ebbd89616c", "VIMS_MMISystemStatus", "", NO_FLAG, 1, 0),
    R("9b9d25cf9d2d3ef8", "VIMS_MMI_CameraVideoResp", "", NO_FLAG, 2, 0),
    R("5af0d47c0fe1efcf", "VIMS_MMI_GestureMusicLikeResp", "", NO_FLAG, 1, 0),
    R("96ffe95dd0cff073", "VIMS_MMI_GestureRacingResp", "", NO_FLAG, 1, 0)>>)
CAN_2FE == F(\h2FE, 91, <<
    R("40445b33da542165", "L_AFU_FraganceRatioCh1", "", NO_FLAG, 4, 0),
    R("50718cc79f9ed88f", "AC_LeftSetTemperatureLevel", "", NO_FLAG, 4, 0),
    R("40445933da541dff", "L_AFU_FraganceRatioCh3", "", NO_FLAG, 4, 0),
    R("40445833da541c4c", "L_AFU_FraganceRatioCh2", "", NO_FLAG, 4, 0)>>)
CAN_2FC == F(\h2FC, 89, <<
    R("a79949ebc49f46bd", "PEPS_TrunkUnlockCfgResult", "", NO_FLAG, 1, 0),
    R("8f9e81342c0cccae", "PEPS_0x1E2_TimeoutFlag", "", NO_FLAG, 1, 0),
    R("09960f94c6d95b3d", "PEPS_0x272_TimeoutFlag", "", NO_FLAG, 1, 0),
    R("d668be0d1a85ce10", "PEPS_FMDMSetResp", "", NO_FLAG, 1, 0)>>)
CAN_2F4 == F(\h2F4, 88, <<
    R("78bf564a4d94b324", "BMSH_BattSOCDisp", "", NO_FLAG, 10, 0)>>)
CAN_2E2 == F(\h2E2, 83, <<
    R("74b2b290dbcc85a2", "VCU_InteEnergyMngStatus", "", NO_FLAG, 2, 0),
    R("46cd22d0b7546f56", "VCU_SaveModeSelect", "", NO_FLAG, 2, 0),
    R("fb79c8242b5f16be", "VCU_DivCourteously_Type", "", NO_FLAG, 5, 0),
    R("71379dcc03d1e410", "VCU_DivCourteously_Point", "", NO_FLAG, 5, 0),
    R("7c227a5202df291a", "VCU_DivCourteously_Reason", "", NO_FLAG, 5, 0)>>)
CAN_2DF == F(\h2DF, 81, <<
    R("1493cc5f3d6d6f8d", "DSCU_SLV_Position", "", NO_FLAG, 8, 0),
    R("dc96789d81541ea1", "DSCU_SHV_Position", "", NO_FLAG, 8, 0),
    R("995d1087c12d640f", "DSCU_SNV_Position", "", NO_FLAG, 8, 0),
    R("ed247eba384b1a18", "DSCU_LNV_Position", "", NO_FLAG, 8, 0),
    R("f524cf046678538e", "DSCU_SLV_CalibrationSts", "", NO_FLAG, 2, 0),
    R("9218e29f017ea3ba", "DSCU_SHV_CalibrationSts", "", NO_FLAG, 2, 0),
    R("cd068cb9631f5284", "DSCU_SNV_CalibrationSts", "", NO_FLAG, 2, 0),
    R("d880036a8a4c01db", "DSCU_LNV_CalibrationSts", "", NO_FLAG, 2, 0),
    R("017b311de641a347", "DSCU_SLV_Direction", "", NO_FLAG, 2, 0),
    R("0df58ac99c94428b", "DSCU_SHV_Direction", "", NO_FLAG, 2, 0),
    R("2cb561499457f0dd", "DSCU_SNV_Direction", "", NO_FLAG, 2, 0),
    R("f0ad24892f370374", "DSCU_LNV_Direction", "", NO_FLAG, 2, 0),
    R("a413a27cb1419556", "DSCU_AdjustMode", "", NO_FLAG, 2, 0)>>)
CAN_2D8 == F(\h2D8, 80, <<
    R("16f774b9e6d0087d", "DMM_SetrecognitionStsResp", "", NO_FLAG, 1, 0),
    R("6a6e1c5aa50e6608", "DMM_SetFatiguedetectionStsResp", "", NO_FLAG, 1, 0),
    R("81be5a7c0579b6c6", "DMM_SetUnsafeActStsResp", "", NO_FLAG, 1, 0),
    R("7ccb724eebf26a0a", "VIMS_FaceRecoPenReq", "", NO_FLAG, 2, 0),
    R("b6181c67d4c1d402", "DMM_RestoreFactorySettingsResult", "", NO_FLAG, 2, 0),
    R("e079bde0121b510c", "DMM_FrStatus", "", NO_FLAG, 3, 0),
    R("1f3ef9ddf4a56906", "DMM_SyncDriver1", "", NO_FLAG, 1, 0),
    R("1f3ef8ddf4a56753", "DMM_SyncDriver2", "", NO_FLAG, 1, 0),
    R("1f3ef7ddf4a565a0", "DMM_SyncDriver3", "", NO_FLAG, 1, 0),
    R("1f3efeddf4a57185", "DMM_SyncDriver4", "", NO_FLAG, 1, 0),
    R("1f3efdddf4a56fd2", "DMM_SyncDriver5", "", NO_FLAG, 1, 0),
    R("3e090701a6059e60", "DMM_FrUserID", "", NO_FLAG, 3, 0),
    R("eae78abbfcf02e24", "DMM_FrOprCode", "", NO_FLAG, 2, 0),
    R("3722f8ecdaa7b340", "DMM_FrRegisterProgressSts", "", NO_FLAG, 4, 0),
    R("28bf2999450c8ef3", "DMM_fatigue_Warning_status", "", NO_FLAG, 2, 0),
    R("322aa2bb29f63e70", "DMM_AtmosphereLamp_color", "", NO_FLAG, 4, 0),
    R("01e55e71f16f69b2", "DMM_AtmosphereLamp_brightness", "", NO_FLAG, 5, 0),
    R("4e39736f2d928270", "DMM_AtmosphereLamp_Randompattern", "", NO_FLAG, 2, 0),
    R("96874a0ada811377", "VIMS_DriverMoniterOpenReq", "", NO_FLAG, 1, 0),
    R("b5408dbe4f60be66", "DMM_BackLightad", "", NO_FLAG, 5, 0),
    R("153f46cd721d6aca", "DMM_IPK_theme", "", NO_FLAG, 2, 0),
    R("31a6fd636990debb", "DMM_IPK_Drivingmode", "", NO_FLAG, 2, 0),
    R("c25e045708bdf4ff", "DMM_FragranceSpecies", "", NO_FLAG, 2, 0),
    R("254562b2743e8340", "DMM_FragranceConcentration", "", NO_FLAG, 2, 0),
    R("2913141ed56db2ac", "DMM_FragranceSwitchEnable", "", NO_FLAG, 2, 0)>>)
CAN_2CD == F(\h2CD, 78, <<
    R("8a7d84c46cae1bd0", "ADB_AFSActiveResp", "", NO_FLAG, 1, 0)>>)
CAN_2C9 == F(\h2C9, 76, <<
    R("c33e6a55131af698", "AirPtcModeReq", "", NO_FLAG, 2, 0),
    R("b32f796df751167d", "AirPtcEnad", "", NO_FLAG, 1, 0)>>)
CAN_2C4 == F(\h2C4, 72, <<
    R("ae95d38810ccf3c5", "AVM_View_RGearModeResponse", "", NO_FLAG, 1, 0),
    R("936cf5f3ec559923", "AVM_View_DGearModeResponse", "", NO_FLAG, 1, 0),
    R("70a8d32af2a2f926", "AVM_PAS_TopViewSettingResponse", "", NO_FLAG, 1, 0),
    R("ca1a0910d198f60e", "AVM_PAS_VolumeLevelRequest", "", NO_FLAG, 2, 0),
    R("37d0b007c95bf1ea", "PAS_PDC_warning_mute", "", NO_FLAG, 1, 0)>>)
CAN_2C2 == F(\h2C2, 70, <<
    R("9f0da90c67e7031b", "RHVSM_DrvVentSts", "", NO_FLAG, 3, 0),
    R("fb4ecfb3c935e22c", "RHVSM_PassVentSts", "", NO_FLAG, 3, 0)>>)
CAN_2B1 == F(\h2B1, 68, <<
    R("1c6edbd07d40e872", "DVR_SystemSts", "", NO_FLAG, 4, 0),
    R("fe8e0bc8e4fa7bd4", "DVR_RecordingCycleSts", "", NO_FLAG, 2, 0),
    R("d6ec833303ce52a5", "DVR_TapeSts", "", NO_FLAG, 2, 0),
    R("1a6329e3870ec92a", "DVR_SDcardSts", "", NO_FLAG, 3, 0),
    R("88c16969f3497b5f", "DVR_ResolutionSts", "", NO_FLAG, 2, 0),
    R("318df96d5f7dcb7e", "DVR_SDFormatResult", "", NO_FLAG, 3, 0),
    R("6e61e27252556f4e", "DVR_SystemVersionSts", "", NO_FLAG, 12, 0),
    R("6b335c6f0d5dfd81", "DVR_HomeResult", "", NO_FLAG, 2, 0),
    R("7f67a2182c5774c3", "DVR_RestoreFactorySettingsResult", "", NO_FLAG, 2, 0),
    R("b8dfdb3e6afcf34e", "DVR_CommandRespList", "", NO_FLAG, 5, 0),
    R("06f7ec1fb7939b44", "DVR_EnterUpdateModeResult", "", NO_FLAG, 3, 0),
    R("201e661e3d24a3d4", "DVR_CurrentVideo_counts", "", NO_FLAG, 4, 0),
    R("10565c57e4ec0770", "DVR_ParkingCrashWarning", "", NO_FLAG, 1, 0),
    R("aa1025719f0ed1e1", "DVR_CommandResult", "", NO_FLAG, 3, 0),
    R("288e191835206d5a", "DVR_CurrentVideoLockStatus", "", NO_FLAG, 14, 0),
    R("f5e6a70408f6f8d5", "DVR_ControlRequest", "", NO_FLAG, 2, 0)>>)
CAN_2AB == F(\h2AB, 67, <<
    R("9769d6e544ba5c65", "AVM_status", "", NO_FLAG, 1, 0),
    R("69fb1f1e3b7a3b05", "AVM_MMI_Failure", "", NO_FLAG, 1, 0),
    R("ea66a3a5b89a1540", "AVM_APA_Failure", "", NO_FLAG, 1, 0),
    R("566ebd87e6866303", "AVM_ViewModeResp", "", NO_FLAG, 4, 0),
    R("c8888aaf92acbedb", "AVM_CarIconColorResp", "", NO_FLAG, 3, 0),
    R("f42abc35e926ef50", "AVM_TrunningEnterAVMFuncResp", "", NO_FLAG, 1, 0),
    R("a1d2a5cfaa6e722d", "AVM_ControlRequest", "", NO_FLAG, 3, 0),
    R("b128e0c037bcd836", "AVM_CarIconTransparentResp", "", NO_FLAG, 1, 0),
    R("5cacdb655530c239", "AVM_OnroadCalibResp", "", NO_FLAG, 1, 0),
    R("292e1b36ca57ca3c", "AVM_HighTrunningEnterAVMFuncResp", "", NO_FLAG, 1, 0),
    R("a47f13bb77440cb8", "AVM_PAS_ParkingWarningBeef", "", NO_FLAG, 1, 0),
    R("c24eef5a17f87eeb", "AVM_APA_Function_Select", "", NO_FLAG, 2, 0),
    R("2a1cbfe8c4d34c35", "AVM_PSC_Function_Select", "", NO_FLAG, 2, 0),
    R("f5ae678628eee91d", "AVM_DynamicPGS_Resp", "", NO_FLAG, 1, 0),
    R("0697e1e77c81f1b9", "AVM_SoftKeyResponse", "", NO_FLAG, 1, 0),
    R("83a025515b36e2b8", "AVM_FactoryMode", "", NO_FLAG, 1, 0),
    R("5f197c88c2bbf784", "AVM_BSD_StateResp", "", NO_FLAG, 1, 0),
    R("e6c73b96729c3264", "AVM_MODEnableResp", "", NO_FLAG, 1, 0),
    R("b052ec0a65aca82a", "AVM_PDEnableResp", "", NO_FLAG, 1, 0),
    R("d0fcccc03fdc38f6", "AVM_TurnONRequest", "", NO_FLAG, 2, 0),
    R("f10133f74b97edad", "AVM_3DTouringViewKeyResponse", "", NO_FLAG, 1, 0),
    R("f789516599a1946e", "AVM_CameraFltSts", "", NO_FLAG, 4, 0),
    R("0cc0833c0f4ec4b9", "AVM_RestoreFactorySettingsFeedback", "", NO_FLAG, 2, 0),
    R("fb609b99a858ab7b", "AVM_ViewModeRespExtend", "", NO_FLAG, 4, 0),
    R("11028e8cea6a9ec7", "AVM_ViewTouchBeef", "", NO_FLAG, 1, 0)>>)
CAN_29F == F(\h29F, 66, <<
    R("fe6e2802b44d5105", "ETC_SelfCheckSts", "", NO_FLAG, 1, 0),
    R("53316d16285a0b6e", "ETC_TamperSts", "", NO_FLAG, 1, 0),
    R("3c2f33e01b65b7ad", "ETC_DealFailure", "", NO_FLAG, 1, 0),
    R("2056edf609d98130", "ETC_TrafficSts", "", NO_FLAG, 1, 0),
    R("7cf32d9b272f1027", "ETC_ActiveSts", "", NO_FLAG, 1, 0),
    R("eda11f6ee33682fa", "ETC_DealSucAmount", "", NO_FLAG, 32, 0)>>)
CAN_29B == F(\h29B, 65, <<
    R("771cfc891b1d3f17", "DstToEmptyIndcdDstToEmpty1", "", NO_FLAG, 11, 0),
    R("4089fb3ab0b32c9f", "AcEgyDistbn", "", NO_FLAG, 10, 0),
    R("771cfd891b1d40ca", "DstToEmptyIndcdDstToEmpty2", "", NO_FLAG, 11, 0),
    R("4fbc20309efa4852", "TotDrvPwrAct", "kW", NO_FLAG, 11, 0),
    R("37865eeceefa3c0e", "ThmEgyDistbn", "", NO_FLAG, 10, 0),
    R("2ac031eeae5d2913", "HvConvPwrAct", "", NO_FLAG, 10, 0)>>)
CAN_29A == F(\h29A, 64, <<
    R("0794832e6b25e9dd", "FuCnsAvgIndcdFuCnsIndcdVal1", "", NO_FLAG, 9, 0),
    R("c4624f823829d50c", "PwrCnsAvgIndcdPwrCns1", "", NO_FLAG, 11, 0),
    R("c46252823829da25", "PwrCnsAvgIndcdPwrCns2", "", NO_FLAG, 11, 0),
    R("0794802e6b25e4c4", "FuCnsAvgIndcdFuCnsIndcdVal2", "", NO_FLAG, 9, 0),
    R("0794812e6b25e677", "FuCnsAvgIndcdFuCnsIndcdVal3", "", NO_FLAG, 9, 0),
    R("c46251823829d872", "PwrCnsAvgIndcdPwrCns3", "", NO_FLAG, 11, 0),
    R("eff3d152a220a9dd", "EgyAvgCnsDstSg", "", NO_FLAG, 1, 0)>>)
CAN_297 == F(\h297, 62, <<
    R("0eb1681b49f5c4cd", "TBOX_ALSwitchSet", "", NO_FLAG, 2, 0),
    R("ee99722bf785fb2d", "TBOX_ALColourSet", "", NO_FLAG, 7, 0)>>)
CAN_294 == F(\h294, 60, <<
    R("c1f7aa7bc97af4aa", "AVM_APA_SystemSts", "", NO_FLAG, 3, 0),
    R("8ab2c96072b16be0", "AVM_APA_AutoSearchSts", "", NO_FLAG, 3, 0),
    R("a3debbaba4b31ffa", "AVM_APA_ParkOutChkResult", "", NO_FLAG, 1, 0),
    R("325a4f3188e9d429", "AVM_APA_CurrentPathNum", "", NO_FLAG, 4, 0),
    R("6f18a91563786df4", "AVM_APA_TotalPathNum", "", NO_FLAG, 4, 0),
    R("ee6d0ed3a090c484", "AVM_APA_SuspendedReason", "", NO_FLAG, 3, 0),
    R("c3af8a9b195bc06b", "AVM_APA_AbortReason", "", NO_FLAG, 5, 0),
    R("9662b0ccd5c416cc", "AVM_APA_CurrentParkType", "", NO_FLAG, 3, 0),
    R("2a9e43a1f800396f", "AVM_APA_OverrideReason", "", NO_FLAG, 3, 0),
    R("fe8a86ddb5e33646", "AVM_APA_VehicleDirection", "", NO_FLAG, 2, 0),
    R("a2e721dff4f4f5b6", "AVM_APA_CurrentStepNum", "", NO_FLAG, 4, 0),
    R("a11881b779414736", "AVM_APA_TerminatedType", "", NO_FLAG, 2, 0),
    R("5bb00951c9a81942", "AVM_APA_ParkOutSystemStatus", "", NO_FLAG, 1, 0),
    R("b17fab7b33d886ea", "AVM_APA_VoicePrompts", "", NO_FLAG, 4, 0),
    R("149873c9f3eeeff3", "PAS_PrkgDockDisReq", "", NO_FLAG, 2, 0),
    R("adbbe42a4be03b27", "AVM_HalfScrnDispReq", "", NO_FLAG, 3, 0)>>)
CAN_292 == F(\h292, 59, <<
    R("9b70d27ad91e17b3", "TBOX_ShareModeSts", "", NO_FLAG, 1, 0),
    R("76b78ff0574aa353", "TBOX_Inquire_GPS", "", NO_FLAG, 1, 0),
    R("ae85c2736a46ed26", "TBOX_SystemSts", "", NO_FLAG, 1, 0),
    R("933f8b376222e9d6", "TBOX_GloveBoxPermission", "", NO_FLAG, 2, 0),
    R("ee14c777784fadaa", "TBOX_TrailerReminderStatus", "", NO_FLAG, 2, 0)>>)
CAN_281 == F(\h281, 50, <<
    R("55bb9a2e64cee3bd", "TCM_Req_TurnIndicationAct", "", NO_FLAG, 2, 0),
    R("289425fcb7e5b20d", "TCM_SW_Trip", "", NO_FLAG, 2, 0),
    R("4fa5bf7fabbdf234", "TCM_IntegrationSwtCtrl_AliveCounter", "", NO_FLAG, 4, 0),
    R("e5abd2631942031c", "TCM_IntegrationSwtCtrl_Checksum", "", NO_FLAG, 8, 0)>>)
CAN_26F == F(\h26F, 46, <<
    R("3df203c32e6923a3", "SWSM_Right_Bt_00", "", NO_FLAG, 1, 0),
    R("3df202c32e6921f0", "SWSM_Right_Bt_01", "", NO_FLAG, 1, 0),
    R("3df205c32e692709", "SWSM_Right_Bt_02", "", NO_FLAG, 1, 0),
    R("3df204c32e692556", "SWSM_Right_Bt_03", "", NO_FLAG, 1, 0),
    R("3df207c32e692a6f", "SWSM_Right_Bt_04", "", NO_FLAG, 1, 0),
    R("3df206c32e6928bc", "SWSM_Right_Bt_05", "", NO_FLAG, 1, 0),
    R("3df209c32e692dd5", "SWSM_Right_Bt_06", "", NO_FLAG, 1, 0),
    R("3df208c32e692c22", "SWSM_Right_Bt_07", "", NO_FLAG, 1, 0),
    R("94362cdd5878c318", "SWSM_Left_Bt_06", "", NO_FLAG, 1, 0),
    R("94362fdd5878c831", "SWSM_Left_Bt_05", "", NO_FLAG, 1, 0)>>)
CAN_260 == F(\h260, 44, <<
    R("5cf9322c91af0e29", "IPK_ThemeLinkSwitchStatus", "", NO_FLAG, 1, 0),
    R("693e5e34ced8a59d", "IPK_EngSpeedDisp", "", NO_FLAG, 13, 0)>>)
CAN_255 == F(\h255, 43, <<
    R("c7eeb79aadec57fb", "IdleChrgFctSts", "", NO_FLAG, 3, 0),
    R("5171c9f8c393d892", "DstEstimdToEmptyForDrvgElec", "", NO_FLAG, 10, 0),
    R("afaab3d190b36cd0", "DstEstimdToEmptyForDrvgElecPredTyp2", "", NO_FLAG, 10, 0)>>)
CAN_226 == F(\h226, 41, <<
    R("007486a554a7ab5b", "HP_BacklightLevelSts", "", NO_FLAG, 4, 0),
    R("67c742cb4a408cb6", "HP_AciveSts", "", NO_FLAG, 2, 0),
    R("2e265e4b1f165de2", "HP_BacklightMode", "", NO_FLAG, 2, 0)>>)
CAN_225 == F(\h225, 40, <<
    R("00fe11f189eca2cd", "IB_BrakeModeSetResponse", "", NO_FLAG, 3, 0)>>)
CAN_218 == F(\h218, 37, <<
    R("8af45e0c81919218", "TCU_WarningMsgRed", "", NO_FLAG, 1, 0),
    R("ad962d70c71e3335", "TCU_WarningMsgYellow", "", NO_FLAG, 1, 0),
    R("75d35f16661076df", "TCU_DriverRemind", "", NO_FLAG, 4, 0),
    R("1748e46252f55057", "TCU_WarningMsgGearboxOvertemp", "", NO_FLAG, 1, 0),
    R("0e95d7c76b768c24", "TCU_ParkFailureReport", "", NO_FLAG, 1, 0),
    R("5a7fa1520de6d5ba", "TCU_OvertempLevel", "", NO_FLAG, 2, 0)>>)
CAN_212 == F(\h212, 35, <<
    R("66f7e4009843ec42", "BMSH_RemindChargeFull", "", NO_FLAG, 1, 0),
    R("30fc366ca0b4445a", "BMSH_BookChargeRemind", "", NO_FLAG, 4, 0)>>)
CAN_211 == F(\h211, 34, <<
    R("3f681b0afeed9cda", "BMSH_ChargeEnable", "", NO_FLAG, 4, 0),
    R("5cc04351a4428b63", "BMSH_OBC_CellMaxChgVolt", "V", NO_FLAG, 9, 1),
    R("381ec6de989702a5", "BMSH_OBC_CellMinDischgVolt", "V", NO_FLAG, 9, 1),
    R("5293d1454c2c004c", "BMSH_ChargeOutVolSetP", "V", NO_FLAG, 14, 1),
    R("46aedd66935a4078", "BMSH_BookTrvlReq", "", NO_FLAG, 1, 0)>>)
CAN_1FB == F(\h1FB, 33, <<
    R("03421e9c66ac51a3", "LOGOWorkSts", "", NO_FLAG, 1, 0),
    R("8302ed550ca4bede", "LOGOErrorSts", "", NO_FLAG, 1, 0)>>)
CAN_191 == F(\h191, 23, <<
    R("f498df6bd9fe3495", "PAS_APA_Quit_Indication", "", NO_FLAG, 5, 0),
    R("501a1f88e7ddb904", "PAS_APA_Recover_INT_Indication", "", NO_FLAG, 3, 0),
    R("241b398bd1a89bb5", "PAS_APA_DrRqst", "", NO_FLAG, 5, 0),
    R("2aa46ef041ebcc47", "PAS_APA_Parkslot_State", "", NO_FLAG, 2, 0),
    R("440302e56ab651cc", "PAS_APA_ButtonPress", "", NO_FLAG, 1, 0),
    R("659d8f9614dc260a", "PAS_SVA_Mode", "", NO_FLAG, 3, 0),
    R("5035f04faace8407", "PAS_SVA_Status", "", NO_FLAG, 1, 0),
    R("2d2ad9b5eebf3933", "PAS_APA_SelectedSide", "", NO_FLAG, 2, 0),
    R("f9e15fb4fa0d712f", "PAS_APA_Indication", "", NO_FLAG, 3, 0),
    R("8804b3dca43e6b9b", "PAS_APA_Status", "", NO_FLAG, 3, 0),
    R("c03d6d1e071c9b11", "PAS_APA_EndCurrentVoiceReq", "", NO_FLAG, 1, 0),
    R("98234a8b2453c434", "PAS_APA_Process_bar", "", NO_FLAG, 7, 0),
    R("dc7d4bd323542aa7", "PAS_SVA_AudibleWarning", "", NO_FLAG, 1, 0),
    R("a0f6b9f48f5f98e4", "PAS_SVA_APA_Status_AliveCounter", "", NO_FLAG, 4, 0),
    R("c8cf5c197750544c", "PAS_SVA_APA_Status_Checksum", "", NO_FLAG, 8, 0)>>)
CAN_176 == F(\h176, 19, <<
    R("17a9c2ef069d6765", "IPU_DcDcActvd", "", NO_FLAG, 1, 0)>>)
CAN_169 == F(\h169, 18, <<
    R("73a39e476a9dfe2a", "VCU_EPedlModSts", "", NO_FLAG, 2, 0),
    R("424579f5641f2f51", "VCU_EpedlInhbnSts", "", NO_FLAG, 1, 0),
    R("bb6f182947e14c35", "VCU_EPedlDrvrIndcnMsg", "", NO_FLAG, 2, 0)>>)
CAN_161 == F(\h161, 15, <<
    R("d8fa49a2b30613dd", "DispOfPrpsnMod", "", NO_FLAG, 4, 0)>>)
CAN_160 == F(\h160, 14, <<
    R("a29762d481feeaae", "VCU_RegencyLevelSwReq", "", NO_FLAG, 1, 0)>>)
CAN_139 == F(\h139, 12, <<
    R("dad7dd0423e63ab2", "DDM_MmryScsIndReq", "", NO_FLAG, 1, 0),
    R("1e2b4afdc362c7b1", "DDM_MmryFailIndReq", "", NO_FLAG, 1, 0),
    R("15a8ddb10c005115", "DDM_RMirrorPlayBackStopCmd", "", NO_FLAG, 2, 0)>>)
CAN_122 == F(\h122, 6, <<
    R("2acd1412750e96eb", "ESC_FLWheelSpeedKPH", "km/h", NO_FLAG, 13, 1),
    R("5be8d20699755449", "ESC_FLWheelSpeedInvalid", "", NO_FLAG, 1, 0),
    R("e0915fa05ca1c740", "ESC_FLWheelDirection", "", NO_FLAG, 2, 0),
    R("769bedba4cf1821d", "ESC_FRWheelSpeedKPH", "km/h", NO_FLAG, 13, 1),
    R("1a9ff7a537fe8d97", "ESC_FRWheelSpeedInvalid", "", NO_FLAG, 1, 0),
    R("9d60c8c0214f7c4e", "ESC_FRWheelDirection", "", NO_FLAG, 2, 0),
    R("0168b6b0933ae401", "ESC_FrontWheelSpeedsKPH_AliveCounter", "", NO_FLAG, 4, 0),
    R("d1d520f6c440aa59", "ESC_FrontWheelSpeedsKPH_Checksum", "", NO_FLAG, 8, 0)>>)
CAN_0BA == F(\h0BA, 3, <<
    R("e34fdededd52391c", "VCU_GWRCSwtAvl", "", NO_FLAG, 1, 0),
    R("ae040bb467a20628", "VCU_GWRCResponse", "", NO_FLAG, 1, 0)>>)
CAN_0A6 == F(\h0A6, 1, <<
    R("97f2da24e51c04f0", "VCU_RegenTrqAct", "", NO_FLAG, 12, 0),
    R("c7938a99deb500f4", "VCU_RegenTrqActQualifier", "", NO_FLAG, 1, 0),
    R("0b834869bdf49864", "VCU_AccelPedalPositionInvalid", "", NO_FLAG, 1, 0),
    R("b0475b9e69ecb0e1", "VCU_AccelPedalPosition", "%", 811, 8, 1)>>)
CAN_7DF == F(\h7DF, 110, <<
    R("ec9d0189074261ad", "Diag_req", "", NO_FLAG, 64, 0)>>)
CAN_7C1 == F(\h7C1, 109, <<
    R("e1a80046d86ceff7", "Diag_req", "", NO_FLAG, 64, 0)>>)

ROADCAST_SIGNALS ==
    CAN_2F1 \o CAN_2F2 \o CAN_284 \o CAN_26D \o CAN_125 \o CAN_287 \o
    CAN_2D2 \o CAN_1F0 \o CAN_285 \o CAN_286 \o CAN_2FD \o CAN_0E0 \o
    CAN_085 \o CAN_3F1 \o CAN_288 \o CAN_28B \o CAN_374 \o CAN_390 \o
    CAN_123 \o CAN_124 \o CAN_3F6 \o CAN_2CA \o CAN_1B0 \o CAN_299 \o
    CAN_2E0 \o CAN_2E4 \o CAN_114 \o CAN_1A2 \o CAN_1A3 \o CAN_27F \o
    CAN_2C1 \o CAN_380 \o CAN_150 \o CAN_2C5 \o CAN_2C6 \o CAN_214 \o
    CAN_17A \o CAN_3A2 \o CAN_315 \o CAN_2EA \o CAN_220 \o CAN_250 \o
    CAN_359 \o CAN_17B \o CAN_0B7 \o CAN_221 \o CAN_339 \o CAN_162 \o
    CAN_2C3 \o CAN_283 \o CAN_274 \o CAN_128 \o CAN_165 \o CAN_1E2 \o
    CAN_12F \o CAN_1A6 \o CAN_1A5 \o CAN_272 \o CAN_1EB \o CAN_2C8 \o
    CAN_290 \o CAN_295 \o CAN_178 \o CAN_1A1 \o CAN_680 \o CAN_3FE \o
    CAN_3FD \o CAN_3F7 \o CAN_3F0 \o CAN_392 \o CAN_354 \o CAN_2FF \o
    CAN_2FE \o CAN_2FC \o CAN_2F4 \o CAN_2E2 \o CAN_2DF \o CAN_2D8 \o
    CAN_2CD \o CAN_2C9 \o CAN_2C4 \o CAN_2C2 \o CAN_2B1 \o CAN_2AB \o
    CAN_29F \o CAN_29B \o CAN_29A \o CAN_297 \o CAN_294 \o CAN_292 \o
    CAN_281 \o CAN_26F \o CAN_260 \o CAN_255 \o CAN_226 \o CAN_225 \o
    CAN_218 \o CAN_212 \o CAN_211 \o CAN_1FB \o CAN_191 \o CAN_176 \o
    CAN_169 \o CAN_161 \o CAN_160 \o CAN_139 \o CAN_122 \o CAN_0BA \o
    CAN_0A6 \o CAN_7DF \o CAN_7C1
=============================================================================
