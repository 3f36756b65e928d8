--------------------------- MODULE CalibrationFlow --------------------------
(***************************************************************************)
(* CameraCalibrator::onCameraChanged (ui/cameraview/cameracalibrator.cpp)  *)
(* with LyliConfig (ui/config/lyliconfig.cpp), for one camera: check       *)
(* whether the camera has calibration data, otherwise ask for a cache      *)
(* directory, download the calibration images into it, feed them to a      *)
(* Calibrator and store the result.                                        *)
(*                                                                         *)
(* The disk outlives the process.  Every file is created (truncated) and   *)
(* written in two steps, so a crash, or a USB transfer that throws, leaves *)
(* a partial file.  Whether opening and writing succeed is never checked.  *)
(* Calibrator is taken at its outcome; modules Calibrator and Calibrate    *)
(* model how it comes about.                                               *)
(***************************************************************************)
EXTENDS Integers, FiniteSets

CONSTANTS
    NumImages,      \* calibration images on the camera, 62 in the code
    Flat,           \* those of them too flat to yield a grid
    Unmatched,      \* the sets of images none of whose lines is in most of them
    MaxCrashes,     \* bound on the number of crashes
    MaxFailures,    \* bound on the number of files that cannot be opened or written
    MaxRuns         \* bound on the number of attempts

ASSUME FlowAssumption ==
    /\ NumImages \in Nat \ {0}
    /\ MaxCrashes \in Nat /\ MaxFailures \in Nat /\ MaxRuns \in Nat

Images == 1..NumImages
Parts == {"txt", "raw"}

(* The serial number as the camera reports it; an unreadable metadata file *)
(* yields the empty one.                                                   *)
Keys == {"serial", "empty"}

VARIABLES
    cacheDir,   \* disk: "absent", "base" (exists) or "serial" (with the camera's subdirectory)
    cache,      \* disk: every calibration file, "absent", "partial" or "whole"
    config,     \* disk: <serial>.json, "absent", "partial" or "whole"
    source,     \* the images the stored calibration was computed from
    pc,         \* where onCameraChanged is
    next,       \* downloadCalib: the image it is at
    grids,      \* Calibrator: the images whose grids were added
    key,        \* Calibrator: m_serial
    crashes, failures, runs

vars == <<cacheDir, cache, config, source, pc, next, grids, key, crashes, failures, runs>>
disk == <<cacheDir, cache, config, source>>

Init ==
    /\ cacheDir \in {"absent", "base", "serial"}
    /\ cache = [i \in Images |-> [p \in Parts |-> "absent"]]
    /\ config = [k \in Keys |-> "absent"]
    /\ source = {}
    /\ pc = "idle" /\ next = 1 /\ grids = {} /\ key = "empty"
    /\ crashes = 0 /\ failures = 0 /\ runs = 0

Goto(step) == pc' = step

(* An operation on a file fails, which nobody notices. *)
Fail == failures < MaxFailures /\ failures' = failures + 1

(* A camera is selected: onCameraChanged reads the calibration data.  A    *)
(* file that is there counts, whether or not it parses; what is left of a  *)
(* matrix in a truncated one may fail an assertion, which ends the process.*)
CheckCalibration ==
    /\ pc = "idle"
    /\ runs < MaxRuns
    /\ runs' = runs + 1
    /\ \/ config["serial"] = "absent" /\ Goto("wizard")
       \/ config["serial"] # "absent" /\ Goto("calibrated")
       \/ config["serial"] = "partial" /\ Goto("idle")
    /\ UNCHANGED <<disk, next, grids, key, crashes, failures>>

(* The camera has calibration data; nothing is left to do. *)
AlreadyCalibrated ==
    /\ pc = "calibrated"
    /\ Goto("idle")
    /\ UNCHANGED <<disk, next, grids, key, crashes, failures, runs>>

(* The wizard is finished or dismissed, which makes no difference.  The    *)
(* subdirectory is created together with a cache directory that is absent, *)
(* if they can be created.                                                 *)
LeaveWizard ==
    /\ pc = "wizard"
    /\ cacheDir' \in {cacheDir} \union (IF cacheDir = "absent" THEN {"serial"} ELSE {})
    /\ Goto("txt")
    /\ next' = 1
    /\ UNCHANGED <<cache, config, source, grids, key, crashes, failures, runs>>

(* downloadCalib: a file that exists is skipped; otherwise it is opened,   *)
(* which fails if its directory does not exist.                            *)
OpenFile(part, writing, done) ==
    /\ pc = part
    /\ \/ /\ cache[next][part] # "absent"
          /\ Goto(done)
          /\ UNCHANGED <<cache, failures>>
       \/ /\ cache[next][part] = "absent"
          /\ Goto(writing)
          /\ \/ /\ cacheDir = "serial"
                /\ cache' = [cache EXCEPT ![next][part] = "partial"]
                /\ UNCHANGED failures
             \/ /\ IF cacheDir = "serial" THEN Fail ELSE UNCHANGED failures
                /\ UNCHANGED cache
    /\ UNCHANGED <<cacheDir, config, source, next, grids, key, crashes, runs>>

(* downloadCalib: the file is fetched from the camera and written, if it   *)
(* is open.                                                                *)
WriteFile(part, writing, done) ==
    /\ pc = writing
    /\ Goto(done)
    /\ \/ /\ cache[next][part] = "partial"
          /\ cache' = [cache EXCEPT ![next][part] = "whole"]
          /\ UNCHANGED failures
       \/ /\ IF cache[next][part] = "partial" THEN Fail ELSE UNCHANGED failures
          /\ UNCHANGED cache
    /\ UNCHANGED <<cacheDir, config, source, next, grids, key, crashes, runs>>

OpenTxt == OpenFile("txt", "txtwrite", "raw")
WriteTxt == WriteFile("txt", "txtwrite", "raw")
OpenRaw == OpenFile("raw", "rawwrite", "next")
WriteRaw == WriteFile("raw", "rawwrite", "next")

(* Wrong variant of NextImage: the loop does not advance. *)
NextImageStuck ==
    /\ pc = "next"
    /\ IF next = NumImages THEN Goto("preprocess") ELSE Goto("txt")
    /\ UNCHANGED <<disk, next, grids, key, crashes, failures, runs>>

(* downloadCalib: the next image, or preprocessing after the last one. *)
NextImage ==
    /\ pc = "next"
    /\ IF next = NumImages THEN Goto("preprocess") /\ UNCHANGED next
                           ELSE Goto("txt") /\ next' = next + 1
    /\ UNCHANGED <<disk, grids, key, crashes, failures, runs>>

(* Wrong variant of Cancel: Abort is noticed while a file is written. *)
CancelAnywhere ==
    /\ pc \in {"txtwrite", "rawwrite", "next"}
    /\ Goto("idle")
    /\ UNCHANGED <<disk, next, grids, key, crashes, failures, runs>>

(* downloadCalib: the user pressed Abort, which is noticed after an image. *)
Cancel ==
    /\ pc = "next"
    /\ Goto("idle")
    /\ UNCHANGED <<disk, next, grids, key, crashes, failures, runs>>

(* The serial numbers an image's metadata may yield.  Of a truncated file  *)
(* the reader keeps what comes before the point where parsing fails.       *)
KeysOf(i) == IF cache[i]["txt"] = "whole" THEN {"serial"} ELSE Keys

(* Images in the directory with metadata.  A truncated image yields a grid *)
(* or looks flat, whatever the whole one would do.                         *)
Readable == {i \in Images : cache[i]["raw"] # "absent" /\ cache[i]["txt"] # "absent"}
Truncated == {i \in Readable : cache[i]["raw"] = "partial"}
Detectable == (Readable \ Flat) \union Truncated
Surely == Detectable \ Truncated

(* preprocess: all images are added in some order.  A camera serial number *)
(* in front of an empty one makes addGrid throw, which ends the flow.  A   *)
(* truncated image in which no lens, or no line of lenses, is found makes  *)
(* finalize run beyond the list of points.                                 *)
Preprocess ==
    /\ pc = "preprocess"
    /\ \/ /\ Truncated # {}
          /\ Goto("undefined")
          /\ UNCHANGED <<grids, key>>
       \/ \E used \in SUBSET Detectable : \E found \in [used -> Keys] :
             /\ Surely \subseteq used
             /\ \A i \in used : found[i] \in KeysOf(i)
             /\ LET keys == {found[i] : i \in used} IN
                \/ /\ Cardinality(keys) = 2
                   /\ Goto("idle")
                   /\ UNCHANGED <<grids, key>>
                \/ /\ Goto("calibrate")
                   /\ grids' = used
                   /\ key' = IF "serial" \in keys THEN "serial" ELSE "empty"
    /\ UNCHANGED <<disk, next, crashes, failures, runs>>

(* calibrate: averages the grids, starting from the first one, and         *)
(* measures them against the lines that are left.                          *)
Calibrate ==
    /\ pc = "calibrate"
    /\ Goto(IF grids = {} \/ grids \in Unmatched THEN "undefined" ELSE "store")
    /\ UNCHANGED <<disk, next, grids, key, crashes, failures, runs>>

(* storeCalibrationData: <serial>.json is truncated, *)
OpenConfig ==
    /\ pc = "store"
    /\ \/ /\ config' = [config EXCEPT ![key] = "partial"]
          /\ Goto("storewrite")
          /\ UNCHANGED failures
       \/ Fail /\ Goto("idle") /\ UNCHANGED config
    /\ UNCHANGED <<cacheDir, cache, source, next, grids, key, crashes, runs>>

(* and written. *)
WriteConfig ==
    /\ pc = "storewrite"
    /\ Goto("idle")
    /\ \/ /\ config' = [config EXCEPT ![key] = "whole"]
          /\ source' = IF key = "serial" THEN grids ELSE source
          /\ UNCHANGED failures
       \/ Fail /\ UNCHANGED <<config, source>>
    /\ UNCHANGED <<cacheDir, cache, next, grids, key, crashes, runs>>

(* The process dies: killed, or by an exception of the USB library that    *)
(* nobody catches.                                                         *)
Crash ==
    /\ pc \notin {"idle", "undefined"}
    /\ crashes < MaxCrashes
    /\ crashes' = crashes + 1
    /\ Goto("idle")
    /\ UNCHANGED <<disk, next, grids, key, failures, runs>>

Step ==
    \/ AlreadyCalibrated \/ OpenTxt \/ WriteTxt \/ OpenRaw \/ WriteRaw \/ NextImage
    \/ Preprocess \/ Calibrate \/ OpenConfig \/ WriteConfig

Next == CheckCalibration \/ LeaveWizard \/ Cancel \/ Crash \/ Step

Spec == Init /\ [][Next]_vars

(* The GUI thread works while it does not wait for the user. *)
FairSpec == Spec /\ WF_vars(Step)

-----------------------------------------------------------------------------
FileStates == {"absent", "partial", "whole"}

(* However often the user aborts the download and starts again, a          *)
(* calibration is stored only under the camera's own serial number, and    *)
(* was computed from all images of the camera that are not flat.  Every    *)
(* crash and every failed operation on a file costs one image at most.     *)
Losses == crashes + failures
StoredIsComplete ==
    /\ Losses = 0 => config["empty"] = "absent"
    /\ config["serial"] = "whole" => Cardinality((Images \ Flat) \ source) <= Losses

(* A crash, like a failed operation, spoils at most one file: there are    *)
(* never more partial files than there were of both, apart from the one    *)
(* being written, though downloadCalib takes them for whole ones for ever. *)
Partial ==
    {f \in Images \X Parts : cache[f[1]][f[2]] = "partial"}
        \union {f \in {0} \X Keys : config[f[2]] = "partial"}
OneSpoiltPerLoss ==
    Cardinality(Partial) <=
        Losses + IF pc \in {"txtwrite", "rawwrite", "storewrite"} THEN 1 ELSE 0

(* preprocess and calibrate leave defined behaviour only on a truncated    *)
(* image, on images no line of which is in most of them, and without any   *)
(* grid: when the download had no directory to write to, or every image    *)
(* that is not flat was lost.                                              *)
UndefinedCaused ==
    pc = "undefined" =>
        \/ Truncated # {}
        \/ grids \in Unmatched
        \/ cacheDir # "serial"
        \/ Cardinality(Images \ Flat) <= Losses

(* What crashes and failures at any step of any attempt do to the cache,   *)
(* to the stored calibration and to the calibration in work is bounded by  *)
(* their number.                                                           *)
CrashDamageBounded == StoredIsComplete /\ OneSpoiltPerLoss /\ UndefinedCaused

(* Once the user has left the wizard an attempt comes to its end. *)
AttemptEnds == pc = "txt" ~> pc \in {"idle", "undefined"}

-----------------------------------------------------------------------------
(* The invariant behind CrashDamageBounded. *)

Downloading == {"txt", "txtwrite", "raw", "rawwrite", "next"}
Storing == {"calibrate", "store", "storewrite"}

TypeOK ==
    /\ cacheDir \in {"absent", "base", "serial"}
    /\ cache \in [Images -> [Parts -> FileStates]]
    /\ config \in [Keys -> FileStates]
    /\ source \subseteq Images
    /\ pc \in {"idle", "calibrated", "wizard", "preprocess", "undefined"}
                 \union Downloading \union Storing
    /\ next \in Images
    /\ grids \subseteq Images
    /\ key \in Keys
    /\ crashes \in 0..MaxCrashes
    /\ failures \in 0..MaxFailures
    /\ runs \in 0..MaxRuns

(* Without its directory no file was ever written. *)
DirInv ==
    cacheDir # "serial" => \A i \in Images, p \in Parts : cache[i][p] = "absent"

(* Only the file being written may be partial without a loss. *)
Opened ==
    IF pc = "txtwrite" THEN cache[next]["txt"] = "partial"
    ELSE pc = "rawwrite" /\ cache[next]["raw"] = "partial"
WriteInv == pc = "storewrite" => config[key] = "partial"

(* The files the download has passed or cannot write any more, and those   *)
(* of them that are not there: each is the loss of a failed operation.     *)
Passed ==
    IF pc \in Downloading
    THEN {f \in Images \X Parts :
             \/ f[1] < next
             \/ f[1] = next /\ pc # "txt" /\ f[2] = "txt"
             \/ f[1] = next /\ pc \in {"rawwrite", "next"} /\ f[2] = "raw"}
    ELSE IF pc = "preprocess" THEN Images \X Parts ELSE {}
Gaps == {f \in Passed : cacheDir = "serial" /\ cache[f[1]][f[2]] = "absent"}

Writing == pc = "storewrite" \/ Opened
SpoiltInv == Cardinality(Partial \union Gaps) <= Losses + IF Writing THEN 1 ELSE 0

(* The grids in work lack no more images than were lost, and have the      *)
(* camera's serial number unless there was a loss.                         *)
GridsInv ==
    /\ pc \in Storing =>
          /\ cacheDir # "serial" => grids = {}
          /\ cacheDir = "serial" => Cardinality((Images \ Flat) \ grids) <= Losses
          /\ Losses = 0 /\ grids # {} => key = "serial"
    /\ pc \in {"store", "storewrite"} => grids # {}
    /\ UndefinedCaused

IndInv ==
    TypeOK /\ DirInv /\ WriteInv /\ GridsInv /\ SpoiltInv /\ StoredIsComplete
=============================================================================
