-------------------------- MODULE MCDownloadSession -------------------------
(* Instances of DownloadSession for TLC: one or two cameras with up to two *)
(* photos each.                                                            *)
EXTENDS DownloadSession

(* The first camera has two photos, a second one has one. *)
MCPhotoCount == [d \in Devices |-> IF d = 1 THEN 2 ELSE 1]

(* All photos taken at different seconds. *)
DistinctTimes == [p \in Photos |-> 10 * p[1] + p[2]]
=============================================================================
