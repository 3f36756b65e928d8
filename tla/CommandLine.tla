----------------------------- MODULE CommandLine ----------------------------
(***************************************************************************)
(* The command line program (lib/main.cpp).  main reads its options twice: *)
(* first to prepare the camera if any option needs one, then to execute    *)
(* them.  Nothing catches the exceptions of the USB library or of OpenCV:  *)
(* they end the process, as a crash or the user may at any moment, and     *)
(* leave the files it was writing partial.  Nothing looks whether a file   *)
(* was opened or written either: what fails is passed over.                *)
(***************************************************************************)
EXTENDS Disk, FileList, FiniteSets

CONSTANTS
    Invocations,    \* command lines: sequences of options with their arguments
    Missing,        \* the names option -f may have that the camera lacks
    FlatImages,     \* images too flat to yield a grid
    Unmatched,      \* the sets of images none of whose lines is in most of them
    Workers,        \* threads of parallel_for_each
    MaxRuns,        \* bound on the number of invocations
    MaxFaults       \* bound on crashes, and files lost at a time, together

Options == [letter : STRING, id : Nat, arg : STRING]

(* The list of a camera describes its photos, and there is memory for it.  *)
ASSUME ProgramAssumption ==
    /\ Invocations \subseteq Seq(Options)
    /\ \A options \in Invocations : \A k \in DOMAIN options :
          options[k].letter = "f" => options[k].arg \in Others
    /\ \A list \in Listings : list.linelen > 0 =>
          (list.size - FirstEntry(list)) \div list.linelen <= Len(Photos)
    /\ Len(Photos) <= MaxPhotos
    /\ Missing \subseteq {<<name, "">> : name \in Others}
    /\ Workers \in Nat /\ MaxRuns \in Nat /\ MaxFaults \in Nat

VARIABLES
    pc,             \* where main is; "idle" if the program is not running
    args, optind,   \* the options and the one getopt is at
    cameras,        \* the number of cameras found
    camera,         \* whether the camera was prepared
    hung,           \* whether the camera has stopped answering
    todo,           \* the files still to be downloaded
    tasks, busy,    \* process: images not begun yet, and in work
    loaded,         \* process: the line grid read from calibration.json
    status,         \* how the invocation ended
    lost,           \* files that could not be opened or written, and have not since
    runs, crashes

past == <<args, cameras, runs, crashes>>
control == <<args, cameras, runs, crashes, lost>>
work == <<todo, tasks, busy, loaded>>
cliVars == <<pc, optind, camera, hung, status, control, work, listVars>>

CliInit ==
    /\ pc = "idle" /\ args = << >> /\ optind = 1
    /\ cameras = 0 /\ camera = FALSE /\ hung = FALSE
    /\ todo = << >> /\ tasks = {} /\ busy = {} /\ loaded = "empty"
    /\ status = "none" /\ lost = {} /\ runs = 0 /\ crashes = 0
    /\ listing = NoList /\ pos = 0 /\ photos = << >>

Goto(step) == pc' = step

Ended(result) == pc' = "ended" /\ status' = result

(* The other files the program writes, besides those it downloads. *)
CalibrationFile == <<"calibration", "json">>
Picture(i) == <<i, "png">>

(* The file cannot be opened, or not be written. *)
Fails(file) ==
    /\ crashes + Cardinality(lost \union {file}) <= MaxFaults
    /\ lost' = lost \union {file}

CameraOptions == {"i", "l", "d", "t", "f"}
Option == args[optind]

-----------------------------------------------------------------------------
(* The program is started with options; without any it only prints help.   *)
(* The cameras present are found at once.                                  *)
Invoke(options) ==
    /\ pc = "idle" /\ runs < MaxRuns
    /\ runs' = runs + 1
    /\ cameras' \in {0, 1}
    /\ args' = options
    /\ IF options = << >> THEN Ended("success") ELSE Goto("prepare") /\ UNCHANGED status
    /\ UNCHANGED <<disk, optind, camera, hung, work, listVars, crashes, lost>>

(* The process is gone, and so are its variables. *)
Vanish ==
    /\ pc = "ended"
    /\ pc' = "idle" /\ args' = << >> /\ optind' = 1
    /\ cameras' = 0 /\ camera' = FALSE /\ hung' = FALSE
    /\ todo' = << >> /\ tasks' = {} /\ busy' = {} /\ loaded' = "empty"
    /\ status' = "none"
    /\ listing' = NoList /\ pos' = 0 /\ photos' = << >>
    /\ UNCHANGED <<disk, runs, crashes, lost>>

(* Wrong variant of Prepare: -t is forgotten. *)
PrepareSome ==
    /\ pc = "prepare"
    /\ IF optind > Len(args) THEN Goto("execute") /\ optind' = 1 /\ UNCHANGED <<camera, status>>
       ELSE IF Option.letter \notin CameraOptions \ {"t"}
            THEN optind' = optind + 1 /\ UNCHANGED <<pc, camera, status>>
            ELSE IF cameras = 0 THEN Ended("failure") /\ UNCHANGED <<optind, camera>>
                 ELSE ~hung /\ camera' = TRUE /\ optind' = optind + 1 /\ UNCHANGED <<pc, status>>
    /\ UNCHANGED <<disk, hung, control, work, listVars>>

(* The first pass: prepareCamera waits until the camera is ready. *)
Prepare ==
    /\ pc = "prepare"
    /\ IF optind > Len(args) THEN Goto("execute") /\ optind' = 1 /\ UNCHANGED <<camera, status>>
       ELSE IF Option.letter \notin CameraOptions
            THEN optind' = optind + 1 /\ UNCHANGED <<pc, camera, status>>
            ELSE IF cameras = 0 THEN Ended("failure") /\ UNCHANGED <<optind, camera>>
                 ELSE ~hung /\ camera' = TRUE /\ optind' = optind + 1 /\ UNCHANGED <<pc, status>>
    /\ UNCHANGED <<disk, hung, control, work, listVars>>

(* The second pass: an option is executed.  -i goes on with the next one,  *)
(* the others end the program; a directory that cannot be entered does so  *)
(* with success.                                                           *)
Executes(letters) == pc = "execute" /\ optind <= Len(args) /\ Option.letter \in letters

UseCamera(step) == IF camera THEN Goto(step) ELSE Goto("undefined")

PrintInformation ==
    /\ Executes({"i"}) /\ ~hung
    /\ UseCamera("execute")
    /\ optind' = optind + 1
    /\ UNCHANGED <<disk, camera, hung, status, control, work, listVars>>

RequestList ==
    /\ Executes({"l", "d"})
    /\ UseCamera("receive")
    /\ UNCHANGED <<disk, optind, camera, hung, status, control, work, listVars>>

downloadFile ==
    /\ Executes({"f"})
    /\ UseCamera("open")
    /\ todo' = <<<<Option.arg, "">>>>
    /\ UNCHANGED <<disk, optind, camera, hung, status, control, tasks, busy, loaded, listVars>>

(* The files of all calibration images, one image after the other. *)
CalibDownloads ==
    [n \in 1..(2 * Len(CalibImages)) |-> CalibFiles(CalibImages[(n + 1) \div 2])[IF n % 2 = 1 THEN 1 ELSE 2]]

downloadCalib ==
    /\ Executes({"t"}) /\ Option.arg = "dir"
    /\ UseCamera("open")
    /\ todo' = CalibDownloads
    /\ UNCHANGED <<disk, optind, camera, hung, status, control, tasks, busy, loaded, listVars>>

NoDirectory ==
    /\ Executes({"t", "c", "p"}) /\ Option.arg # "dir"
    /\ Ended("success")
    /\ UNCHANGED <<disk, optind, camera, hung, control, work, listVars>>

EndOptions ==
    /\ pc = "execute"
    /\ \/ optind > Len(args) /\ Ended("success")
       \/ Executes({"?"}) /\ Ended("failure")
    /\ UNCHANGED <<disk, optind, camera, hung, control, work, listVars>>

-----------------------------------------------------------------------------
(* listFiles and downloadImage. *)
Receive ==
    /\ pc = "receive" /\ ~hung
    /\ ReceiveList
    /\ Goto("parse")
    /\ UNCHANGED <<disk, optind, camera, hung, status, control, work>>

(* parseLine may read beyond the end of the list. *)
Parse ==
    /\ pc = "parse"
    /\ ParseEntry
    /\ Goto(IF Inside THEN "parse" ELSE "undefined")
    /\ UNCHANGED <<disk, optind, camera, hung, status, control, work>>

(* The process ends because there is no memory for the list. *)
NoMemory ==
    /\ pc = "parse" /\ MoreEntries /\ Len(photos) = MaxPhotos
    /\ Ended("memory")
    /\ UNCHANGED <<disk, optind, camera, hung, control, work, listVars>>

(* The list is printed, or the photo is looked up in it, whether or not    *)
(* there is a photo of this id.                                            *)
UseList ==
    /\ pc = "parse" /\ ~MoreEntries
    /\ IF Option.letter = "l" THEN Ended("success") /\ UNCHANGED todo
       ELSE IF Option.id + 1 \notin DOMAIN photos
            THEN Goto("undefined") /\ UNCHANGED <<status, todo>>
            ELSE /\ Goto("open")
                 /\ todo' = PhotoFiles(Photos[Option.id + 1])
                 /\ UNCHANGED status
    /\ UNCHANGED <<disk, optind, camera, hung, control, tasks, busy, loaded, listVars>>

(* Wrong variant of OpenFile: all files are created at once. *)
OpenFileAll ==
    /\ pc = "open"
    /\ files' = [f \in Files |-> IF f \in ToSet(todo) THEN "partial" ELSE files[f]]
    /\ Goto("transfer")
    /\ UNCHANGED <<calibration, flat, optind, camera, hung, status, control, work, listVars>>

(* A file is created or truncated ... *)
OpenFile ==
    /\ pc = "open"
    /\ \/ /\ files' = [files EXCEPT ![Head(todo)] = "partial"]
          /\ lost' = lost \ {Head(todo)}
       \/ Fails(Head(todo)) /\ UNCHANGED files
    /\ Goto("transfer")
    /\ UNCHANGED <<calibration, flat, optind, camera, hung, status, past, work, listVars>>

(* ... fetched from the camera and closed.  If it could not be opened the  *)
(* data are dropped; for a name it lacks the camera sends nothing, or once *)
(* more what it was asked for before.                                      *)
TransferFile ==
    /\ pc = "transfer" /\ ~hung
    /\ IF Head(todo) \in lost \union Missing
       THEN UNCHANGED <<files, lost>>
       ELSE \/ files' = [files EXCEPT ![Head(todo)] = "whole"] /\ UNCHANGED lost
            \/ Fails(Head(todo)) /\ UNCHANGED files
    /\ todo' = Tail(todo)
    /\ IF Len(todo) = 1 THEN Ended("success") ELSE Goto("open") /\ UNCHANGED status
    /\ UNCHANGED <<calibration, flat, optind, camera, hung, past, tasks, busy, loaded, listVars>>

-----------------------------------------------------------------------------
(* calibrate: images without metadata and images that are too flat are     *)
(* skipped.  A truncated image yields a grid or looks flat, whatever the   *)
(* whole one would do, or finalize runs beyond its points; truncated       *)
(* metadata may lack the serial number: two images are then taken for two  *)
(* cameras'.  Without a grid the behaviour is undefined, and if no line is *)
(* in most of the grids.                                                   *)
Usable == {i \in Present : files[<<i, "TXT">>] # "absent"}
Truncated == {i \in Usable : files[<<i, "RAW">>] = "partial"}
Surely == Usable \ (FlatImages \union Truncated)

calibrate ==
    /\ Executes({"c"}) /\ Option.arg = "dir"
    /\ \/ Truncated # {} /\ Goto("undefined") /\ UNCHANGED status
       \/ \E used \in SUBSET (Surely \union Truncated) :
             /\ Surely \subseteq used
             /\ \/ /\ Goto(IF used = {} \/ used \in Unmatched THEN "undefined" ELSE "store")
                   /\ UNCHANGED status
                \/ /\ \E i \in used : files[<<i, "TXT">>] = "partial"
                   /\ Cardinality(used) > 1
                   /\ Ended("failure")
    /\ UNCHANGED <<disk, optind, camera, hung, control, work, listVars>>

(* The result goes to a new calibration.json. *)
OpenCalibration ==
    /\ pc = "store"
    /\ \/ /\ calibration' = "partial" /\ lost' = lost \ {CalibrationFile}
          /\ Goto("write") /\ UNCHANGED status
       \/ Fails(CalibrationFile) /\ Ended("success") /\ UNCHANGED calibration
    /\ UNCHANGED <<files, flat, optind, camera, hung, past, work, listVars>>

WriteCalibration ==
    /\ pc = "write"
    /\ \/ calibration' = "whole" /\ UNCHANGED lost
       \/ Fails(CalibrationFile) /\ UNCHANGED calibration
    /\ Ended("success")
    /\ UNCHANGED <<files, flat, optind, camera, hung, past, work, listVars>>

-----------------------------------------------------------------------------
(* What the line grid may be: a missing file is an empty object, and of a  *)
(* truncated file the reader keeps the beginning.  An odd grid has an odd  *)
(* number of vertical lines.                                               *)
GridSizes ==
    CASE calibration = "whole" -> {"full", "odd"}
      [] calibration = "partial" -> {"empty", "short"}
      [] calibration = "absent" -> {"empty"}

(* process: the images and the calibration data, in whatever state; all    *)
(* images share the line grid that was read.  If the file ends within the  *)
(* data of a lens, an assertion ends the process.                          *)
process ==
    /\ Executes({"p"}) /\ Option.arg = "dir"
    /\ tasks' = Present /\ busy' = {}
    /\ loaded' \in GridSizes
    /\ \/ Goto("process") /\ UNCHANGED status
       \/ calibration = "partial" /\ Ended("assertion")
    /\ UNCHANGED <<disk, optind, camera, hung, control, todo, listVars>>

(* A worker takes an image and begins to write its picture.  With an empty *)
(* grid the picture is empty, and OpenCV throws when its colours are       *)
(* converted; with an odd number of vertical lines, which a grid that was  *)
(* cut short may have, too, the last crossing may lie outside the picture. *)
StartImage(i) ==
    /\ pc = "process" /\ i \in tasks /\ Cardinality(busy) < Workers
    /\ tasks' = tasks \ {i}
    /\ CASE loaded = "empty" -> Ended("exception") /\ UNCHANGED <<busy, flat, lost>>
         [] OTHER ->
              \/ /\ busy' = busy \union {i}
                 /\ flat' = [flat EXCEPT ![i] = "partial"]
                 /\ lost' = lost \ {Picture(i)}
                 /\ UNCHANGED <<pc, status>>
              \/ Fails(Picture(i)) /\ UNCHANGED <<busy, flat, pc, status>>
              \/ loaded # "full" /\ Goto("undefined") /\ UNCHANGED <<busy, flat, lost, status>>
    /\ UNCHANGED <<files, calibration, optind, camera, hung, past, todo, loaded, listVars>>

(* Wrong variant of FinishImage: the image is queued again. *)
FinishImageAgain(i) ==
    /\ pc = "process" /\ i \in busy
    /\ busy' = busy \ {i} /\ tasks' = tasks \union {i}
    /\ flat' = [flat EXCEPT ![i] = "whole"]
    /\ UNCHANGED <<files, calibration, pc, optind, camera, hung, status, control, todo, loaded, listVars>>

(* The picture is written, as far as it can be. *)
FinishImage(i) ==
    /\ pc = "process" /\ i \in busy
    /\ busy' = busy \ {i}
    /\ \/ flat' = [flat EXCEPT ![i] = "whole"] /\ UNCHANGED lost
       \/ Fails(Picture(i)) /\ UNCHANGED flat
    /\ UNCHANGED <<files, calibration, pc, optind, camera, hung, status, past, todo, tasks, loaded, listVars>>

(* Wrong variant of EndProcess: images in work are not waited for. *)
EndProcessEarly ==
    /\ pc = "process" /\ tasks = {}
    /\ Ended("success")
    /\ UNCHANGED <<disk, optind, camera, hung, control, work, listVars>>

(* parallel_for_each returns when all images are done. *)
EndProcess ==
    /\ pc = "process" /\ tasks = {} /\ busy = {}
    /\ Ended("success")
    /\ UNCHANGED <<disk, optind, camera, hung, control, work, listVars>>

-----------------------------------------------------------------------------
Active == pc \notin {"idle", "ended", "undefined"}
Waiting == pc \in {"receive", "transfer"} \/ (pc = "prepare" /\ cameras > 0) \/ Executes({"i"})

(* The process dies: killed, or by an exception of a transfer. *)
Crash ==
    /\ Active /\ crashes + Cardinality(lost) < MaxFaults
    /\ crashes' = crashes + 1
    /\ Ended("crash")
    /\ UNCHANGED <<disk, optind, camera, hung, args, cameras, runs, lost, work, listVars>>

(* The camera stops answering; transfers have no timeout. *)
Hang ==
    /\ Waiting /\ ~hung
    /\ hung' = TRUE
    /\ UNCHANGED <<disk, pc, optind, camera, status, control, work, listVars>>

CliStep ==
    \/ Prepare \/ PrintInformation \/ RequestList \/ downloadFile \/ downloadCalib
    \/ NoDirectory \/ EndOptions
    \/ Receive \/ Parse \/ NoMemory \/ UseList \/ OpenFile \/ TransferFile
    \/ calibrate \/ OpenCalibration \/ WriteCalibration
    \/ process \/ EndProcess
    \/ \E i \in Images : StartImage(i) \/ FinishImage(i)

CliNext ==
    \/ \E options \in Invocations : Invoke(options)
    \/ CliStep \/ Vanish
    \/ Crash \/ Hang
=============================================================================
