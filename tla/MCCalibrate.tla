---------------------------- MODULE MCCalibrate -----------------------------
(* Images of three lines of lenses each way for TLC, in half pixels, with  *)
(* the distances of the lines and the limits of the code.  An image shows  *)
(* some of the lines and is shifted by half a pixel to either side; in a   *)
(* few images the first horizontal line has lost all its points or all but *)
(* one, or is where the second one is.                                     *)
EXTENDS Calibrate

(* The outermost points of a line are a little off. *)
MCLine(id, position) ==
    [subgrid |-> IF id % 2 = 0 THEN "A" ELSE "B", id |-> id,
     line |-> <<position - 3, position, position, position, position, position + 3>>]

MCGrid(h, v, shift) ==
    LET ids(S) == SetToSortSeq(S, <)
    IN  [horizontal |-> [n \in 1..Cardinality(h) |-> MCLine(ids(h)[n], 10 * ids(h)[n] + shift)],
         vertical |-> [n \in 1..Cardinality(v) |-> MCLine(ids(v)[n], 18 * ids(v)[n] - shift)]]

Mirrored(S) == {4 - id : id \in S}

MCGridShapes ==
    {MCGrid(S, Mirrored(S), -1) : S \in SUBSET (1..3) \ {{}}}
    \union {MCGrid(S, Mirrored(S), 1) : S \in {{1, 2}, 1..3}}
    \union {[MCGrid(1..3, 1..3, 0) EXCEPT !.horizontal[1].line = l] : l \in {<< >>, <<9>>, MCLine(2, 20).line}}

(* The third image was taken with the zoom and focus of the first one. *)
MCLenses == <<[zoom |-> 2, focus |-> 1, focallength |-> 3],
              [zoom |-> 1, focus |-> 2, focallength |-> 1],
              [zoom |-> 2, focus |-> 1, focallength |-> 2]>>

MCTilts == {-1, 1}
Limit17 == Whole(34)
Limit8 == Whole(16)
=============================================================================
