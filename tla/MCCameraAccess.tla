--------------------------- MODULE MCCameraAccess ---------------------------
(* Instances of CameraAccess for TLC: two threads or one, a short file f1  *)
(* and a file f2.  The packet counter has 3 values instead of 256.         *)
EXTENDS CameraAccess

CONSTANTS f1, f2, LongFile

(* f2 has LongFile full packets; LongFile = PacketValues - 1 is the        *)
(* longest file the counter can address.                                   *)
MCFullPackets ==
    [r \in Contents |-> CASE r = f2 -> LongFile
                          [] r = "list" -> 1
                          [] OTHER -> 0]
=============================================================================
