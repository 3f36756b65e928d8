---------------------------- MODULE MCPointGrid -----------------------------
(* A rotated lattice of Columns x Rows lenses for TLC, in units of half a  *)
(* pixel.  As in the images of the camera, columns are 5 pixels apart and  *)
(* image rows about 9; an image row holds the lenses of the even columns   *)
(* or of the odd ones.  The rotation is strong enough to move the lenses   *)
(* of a column by more than MAX_DIFF over the few rows there are.          *)
EXTENDS PointGrid

CONSTANTS Columns, Rows

Lens(c, r) == [x |-> 10 * c - r, y |-> 18 * r + c \div 2, column |-> c, row |-> r]

(* The scan meets lenses from top to bottom and from left to right: in two *)
(* image rows first those of the even columns, then those of the odd ones. *)
MCLattice ==
    LET even == (Columns + 1) \div 2
    IN  [n \in 1..(Columns * Rows) |->
            LET r == 2 * ((n - 1) \div Columns)
                k == (n - 1) % Columns
            IN  IF k < even THEN Lens(2 * k, r) ELSE Lens(2 * (k - even) + 1, r + 1)]

(* Up to two pixels to a side, up to four up or down: with three half      *)
(* pixels to a side a lens is within MAX_DIFF of the next column, with     *)
(* four the next lens of its own column is out of reach; with eight up or  *)
(* down a lens is out of reach of its own row.                             *)
MCShifts ==
    {[x |-> d, y |-> 0] : d \in -4..4} \union {[x |-> 0, y |-> d] : d \in {-8, -5, -1, 1, 5, 8}}
=============================================================================
