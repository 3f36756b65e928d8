---------------------------- MODULE MCCalibrator ----------------------------
(* Instances of Calibrator for TLC: images i1 .. i5 with two lens          *)
(* configurations; i5 is too flat to be used.                              *)
EXTENDS Calibrator

CONSTANTS i1, i2, i3, i4, i5, wide, tele, camA, camB

MCLensOf == [i \in Images |-> IF i \in {i2, i3} THEN tele ELSE wide]

(* One image comes from another camera than the others. *)
TwoCameras == [i \in Images |-> IF i = i2 THEN camB ELSE camA]
=============================================================================
