---------------------------- MODULE LensDetector ----------------------------
(***************************************************************************)
(* Lyli::Calibration::LensDetector (lib/calibration/lensdetector.cpp):     *)
(* finds the lenses in the thresholded image of a calibration shot.        *)
(*                                                                         *)
(* detect scans the mask row by row.  At a pixel of an object that was not *)
(* processed yet, findCentroid fills the object downwards, one run of      *)
(* pixels per row, up to MAX_LENS_SIZE rows and pixels to either side; it  *)
(* is meant for lenses, whose rows are single runs.  Every object becomes  *)
(* a point of the PointGrid; here the set of pixels it was computed from   *)
(* stands for it, though refineCentroid moves the point by what is bright  *)
(* around it.  All pixels of objects are equally bright, and wherever a    *)
(* centroid is refined something is.                                       *)
(***************************************************************************)
EXTENDS Preprocessing, Sequences

CONSTANTS
    Cols, Rows,     \* size of the (transposed) image
    MAX_LENS_SIZE,  \* 15 pixels in the code
    Reach           \* how far refineCentroid moves a centroid: 3 + 4 + 5 + 6 pixels

ASSUME LensDetectorAssumption ==
    /\ Cols \in Nat \ {0} /\ Rows \in Nat \ {0} /\ MAX_LENS_SIZE \in Nat \ {0}
    /\ Reach \in Nat

VARIABLES
    image,      \* the pixels of the image that belong to objects
    mask,       \* those of them that are marked OBJECT and not PROCESSED yet
    pc,         \* "check", "scan", "fill", "flat" or "final"
    scan,       \* the position of the scan, row * Cols + col
    start,      \* findCentroid: where it has started
    startx, endx, y,
    filled,     \* the pixels that contribute to the centroid
    points,     \* the points added to the PointGrid
    marks       \* OBJECT pixels overwritten by the mark of a centroid

fillVars == <<start, startx, endx, y, filled>>
vars == <<image, mask, pc, scan, fillVars, points, marks>>

Pixels == (0..(Cols - 1)) \X (0..(Rows - 1))
Position(p) == p[2] * Cols + p[1]

Init ==
    /\ image \in SUBSET Pixels
    /\ mask = {} /\ pc = "check" /\ scan = 0
    /\ start = <<0, 0>> /\ startx = 0 /\ endx = 0 /\ y = 0 /\ filled = {}
    /\ points = << >> /\ marks = {}

(* An image that is too dark or too bright yields an empty grid, which is  *)
(* not finalized.                                                          *)
SkipFlat ==
    /\ pc = "check"
    /\ pc' = "flat"
    /\ UNCHANGED <<image, mask, scan, fillVars, points, marks>>

(* The preprocessor computes the mask: FFTPreprocessor, ... *)
PreprocessFFT ==
    /\ pc = "check"
    /\ image' = Opened(image, Pixels)
    /\ mask' = image'
    /\ pc' = "scan"
    /\ UNCHANGED <<scan, fillVars, points, marks>>

(* ... or another one, of whose masks nothing is known. *)
Preprocess ==
    /\ pc = "check"
    /\ mask' = image
    /\ pc' = "scan"
    /\ UNCHANGED <<image, scan, fillVars, points, marks>>

(* The OBJECT pixels the scan has not passed. *)
Ahead == {p \in mask : Position(p) >= scan}

(* The scan has come to an object: findCentroid begins. *)
StartFill ==
    /\ pc = "scan"
    /\ \E p \in Ahead :
          /\ \A q \in Ahead : Position(p) <= Position(q)
          /\ p[1] # Cols - 1
          /\ scan' = Position(p) + 1
          /\ start' = p /\ startx' = p[1] /\ endx' = p[1] + 1 /\ y' = p[2]
    /\ filled' = {}
    /\ pc' = "fill"
    /\ UNCHANGED <<image, mask, points, marks>>

(* Where refineCentroid may move a centroid to: its discs of 3, 4, 5 and 6 *)
(* pixels, each about the mean of the one before, weigh what is bright     *)
(* there, whether it belongs to the object or to another one.              *)
Refined(c) == {p \in Pixels : \A k \in 1..2 : p[k] - c[k] \in (-Reach)..Reach}

(* The pixel under a refined centroid is overwritten in the mask. *)
Mark(c) ==
    \E p \in Refined(c) :
        /\ mask' = mask \ {p}
        /\ marks' = marks \union ({p} \intersect mask)

(* An object one pixel from the edge: findCentroid returns (0, 0) at once, *)
(* which detect refines, adds and marks like any other centroid.           *)
SkipEdge ==
    /\ pc = "scan"
    /\ \E p \in Ahead :
          /\ \A q \in Ahead : Position(p) <= Position(q)
          /\ p[1] = Cols - 1
          /\ scan' = Position(p) + 1
    /\ points' = Append(points, {})
    /\ Mark(<<0, 0>>)
    /\ UNCHANGED <<image, pc, fillVars>>

(* The end of the scan: the grid is finalized. *)
EndScan ==
    /\ pc = "scan"
    /\ Ahead = {}
    /\ pc' = "final"
    /\ UNCHANGED <<image, mask, scan, fillVars, points, marks>>

minx == Max({start[1] - MAX_LENS_SIZE, 0})
maxx == Min({start[1] + MAX_LENS_SIZE, Cols})
maxy == Min({start[2] + MAX_LENS_SIZE, Rows})

(* A run of OBJECT pixels in the current row. *)
Run(a, b) == \A x \in a..b : <<x, y>> \in mask

(* Wrong variant of FillLeft: the pixels to the left are left alone. *)
FillLeftNot(x) == x

(* Where filling to the left and to the right from an OBJECT pixel ends. *)
FillLeft(x) == Min({a \in minx..x : Run(a, x)} \union {x})
FillRight(x) == Max({b \in x..(maxx - 1) : Run(x, b)} \union {x - 1})

(* The pixels a..b of the row are processed; on to the next row. *)
Fill(a, b) ==
    /\ mask' = mask \ {<<x, y>> : x \in a..b}
    /\ filled' = filled \union {<<x, y>> : x \in a..b}
    /\ startx' = a /\ endx' = b /\ y' = y + 1

(* A row of the object: filled to both sides if its first candidate is an  *)
(* OBJECT pixel, otherwise to the right from the first one up to endx.     *)
FillRow ==
    /\ pc = "fill"
    /\ y < maxy
    /\ IF <<startx, y>> \in mask
       THEN Fill(FillLeft(startx), FillRight(startx))
       ELSE \E x \in startx..endx :
               /\ <<x, y>> \in mask
               /\ \A a \in startx..(x - 1) : <<a, y>> \notin mask
               /\ Fill(x, FillRight(x))
    /\ UNCHANGED <<image, pc, scan, start, points, marks>>

(* The pixel the centroid of a set of pixels is in. *)
Centroid(S) ==
    LET n == Cardinality(S)
        mean(k) == (2 * MapThenSumSet(LAMBDA p : p[k], S) + n) \div (2 * n)
    IN  <<mean(1), mean(2)>>

(* Wrong variant of StopFill: the search for the next run has no end. *)
StopFillAtLimit ==
    /\ pc = "fill"
    /\ y >= maxy
    /\ points' = Append(points, filled)
    /\ Mark(Centroid(filled))
    /\ pc' = "scan"
    /\ UNCHANGED <<image, scan, fillVars>>

(* The fill stops below the object or at the limit.  The centroid is       *)
(* refined and added to the grid, and its pixel is overwritten in the mask *)
(* (which was meant for debugging).                                        *)
StopFill ==
    /\ pc = "fill"
    /\ y >= maxy \/ \A x \in startx..endx : <<x, y>> \notin mask
    /\ points' = Append(points, filled)
    /\ Mark(Centroid(filled))
    /\ pc' = "scan"
    /\ UNCHANGED <<image, scan, fillVars>>

Next ==
    \/ SkipFlat \/ Preprocess \/ PreprocessFFT
    \/ StartFill \/ SkipEdge \/ FillRow \/ StopFill \/ EndScan

Spec == Init /\ [][Next]_vars
FairSpec == Spec /\ WF_vars(Next)

-----------------------------------------------------------------------------
(* findCentroid stays inside the image and its limits: the search for the  *)
(* next run always ends in the row it began in, because startx never       *)
(* passes endx.                                                            *)
SearchInRow == pc = "fill" => minx <= startx /\ startx <= endx /\ endx < Cols

Adjacent(p, q) ==
    \/ p[1] = q[1] /\ p[2] - q[2] \in {-1, 1}
    \/ p[2] = q[2] /\ p[1] - q[1] \in {-1, 1}

(* Reference: the object a pixel belongs to. *)
Component(pixels, p) ==
    LET grown[n \in 0..Cardinality(pixels)] ==
            IF n = 0 THEN {p}
            ELSE LET S == grown[n - 1]
                 IN  S \union {q \in pixels \ S : \E s \in S : Adjacent(s, q)}
    IN  grown[Cardinality(pixels)]
Components == {Component(image, p) : p \in image}

(* A lens: every row is a single run, within the limits seen from its      *)
(* first pixel, and clear of the last column.                              *)
IsLens(S) ==
    LET first == CHOOSE p \in S : \A q \in S : Position(p) <= Position(q)
    IN  /\ \A p, q \in S : p[2] = q[2] => \A x \in p[1]..q[1] : <<x, p[2]>> \in S
        /\ \A p \in S : /\ p[2] < first[2] + MAX_LENS_SIZE
                        /\ p[1] < first[1] + MAX_LENS_SIZE
                        /\ p[1] >= first[1] - MAX_LENS_SIZE
                        /\ p[1] < Cols - 1

(* A lens that the mark of no other object has hit becomes exactly one     *)
(* point, and the point is computed from exactly the pixels of the lens,   *)
(* however close to it other objects are and whatever their shape.         *)
OnePointPerLens ==
    pc = "final" =>
        \A S \in Components : IsLens(S) /\ S \intersect marks = {} =>
            \E k \in DOMAIN points :
                /\ points[k] = S
                /\ \A l \in DOMAIN points \ {k} : points[l] \intersect S = {}

(* Whatever the shape of the objects, also when lenses are fused, every    *)
(* pixel outside the last column that was not overwritten by a mark is     *)
(* counted, and none is counted twice.                                     *)
EveryPixelCounted ==
    pc = "final" =>
        /\ \A p \in image \ marks :
              p[1] < Cols - 1 => \E k \in DOMAIN points : p \in points[k]
        /\ \A k, l \in DOMAIN points : k # l => points[k] \intersect points[l] = {}

(* The cleared part of the spectrum is symmetric, so that the inverse      *)
(* transform of the rest is a real image.                                  *)
SpectrumSymmetric ==
    LET cleared == LowFrequencies(Cols, Rows)
    IN  pc = "check" => \A f \in cleared : <<(-f[1]) % Cols, (-f[2]) % Rows>> \in cleared

(* The grid is finalized without any point, which is undefined, only if    *)
(* the mask was empty.                                                     *)
FinalizedWithPoints == pc = "final" /\ points = << >> => image = {}

(* detect finds the lenses: the fill of findCentroid keeps to its limits,  *)
(* counts every pixel once, makes one point of every lens that no mark has *)
(* hit, and some point of every image that is not dark.                    *)
LensesFound == SearchInRow /\ EveryPixelCounted /\ OnePointPerLens /\ FinalizedWithPoints

(* detect comes to an end. *)
DetectEnds == <>(pc \in {"flat", "final"})
=============================================================================
