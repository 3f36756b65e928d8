-------------------------------- MODULE Disk --------------------------------
(***************************************************************************)
(* The files the command line program and the viewer of the GUI share: the *)
(* directory images are downloaded to, calibrated from and shown from.  A  *)
(* file that was opened for writing but not written to its end is partial. *)
(***************************************************************************)
EXTENDS Integers, Sequences, SequencesExt

CONSTANTS
    Photos,         \* the names of the photos on the camera, by their id
    CalibImages,    \* the names of the calibration images there (62 in the code)
    Others          \* other files there, for option -f

ASSUME DiskAssumption ==
    /\ Photos \in Seq(STRING)
    /\ CalibImages \in Seq(STRING) \ {<< >>}
    /\ Others \subseteq STRING /\ IsFiniteSet(Others)

VARIABLES
    files,          \* the files downloaded, by name and extension
    calibration,    \* calibration.json
    flat            \* the pictures made by option -p

disk == <<files, calibration, flat>>

FileStates == {"absent", "partial", "whole"}

Images == ToSet(Photos) \union ToSet(CalibImages)

(* What option -d, -t or -f downloads for a name. *)
PhotoFiles(name) == <<<<name, "TXT">>, <<name, "128">>, <<name, "RAW">>>>
CalibFiles(name) == <<<<name, "TXT">>, <<name, "RAW">>>>

Files ==
    (UNION {ToSet(PhotoFiles(name)) : name \in Images}) \union {<<name, "">> : name \in Others}

(* Some time ago the calibration images were downloaded, or not. *)
DiskInit ==
    /\ \E earlier \in {{}, UNION {ToSet(CalibFiles(name)) : name \in ToSet(CalibImages)}} :
          files = [f \in Files |-> IF f \in earlier THEN "whole" ELSE "absent"]
    /\ calibration = "absent"
    /\ flat = [i \in Images |-> "absent"]

(* The images opendir and QFileSystemModel find. *)
Present == {i \in Images : files[<<i, "RAW">>] # "absent"}
=============================================================================
