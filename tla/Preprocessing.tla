---------------------------- MODULE Preprocessing ---------------------------
(***************************************************************************)
(* FFTPreprocessor::preprocess (lib/calibration/fftpreprocessor.cpp): the  *)
(* mask of a calibration image.  Low frequencies are cleared in the        *)
(* spectrum of the image, what is brighter than the mean becomes an        *)
(* object, and short spurs of objects are removed by an opening.  The      *)
(* transforms and the threshold are OpenCV's; an image is the set of its   *)
(* bright pixels.                                                          *)
(***************************************************************************)
EXTENDS Integers, FiniteSets, FiniteSetsExt

CONSTANT HIGHPASS_CUTOFF    \* 10 in the code

ASSUME CutoffAssumption == HIGHPASS_CUTOFF \in Nat

(* The square root, rounded to the nearest integer. *)
RoundedRoot(n) == Max({0} \union {x \in 1..n : (2 * x - 1) * (2 * x - 1) <= 4 * n})

(* Wrong variant of LowFrequencies: the last column of the disc is left out. *)
LowFrequenciesOpen(cols, rows) ==
    UNION {LET x0 == RoundedRoot(HIGHPASS_CUTOFF * HIGHPASS_CUTOFF - y * y)
           IN  {<<x % cols, y % rows>> : x \in (-x0)..(x0 - 1)}
           : y \in (-HIGHPASS_CUTOFF)..HIGHPASS_CUTOFF}

(* The frequencies that are cleared: a disc about the corner of the        *)
(* spectrum, which continues on the opposite sides.                        *)
LowFrequencies(cols, rows) ==
    UNION {LET x0 == RoundedRoot(HIGHPASS_CUTOFF * HIGHPASS_CUTOFF - y * y)
           IN  {<<x % cols, y % rows>> : x \in (-x0)..x0}
           : y \in (-HIGHPASS_CUTOFF)..HIGHPASS_CUTOFF}

-----------------------------------------------------------------------------
(* The 3 x 3 kernel at a pixel; what lies beyond the border has no effect. *)
Kernel(p, pixels) == {q \in pixels : q[1] - p[1] \in -1..1 /\ q[2] - p[2] \in -1..1}

Eroded(S, pixels) == {p \in S : Kernel(p, pixels) \subseteq S}
Dilated(S, pixels) == UNION {Kernel(p, pixels) : p \in S}

(* morphologyEx with MORPH_OPEN. *)
Opened(S, pixels) == Dilated(Eroded(S, pixels), pixels)
=============================================================================
