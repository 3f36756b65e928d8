----------------------------- MODULE Calibrator -----------------------------
(***************************************************************************)
(* Lyli::Calibration::Calibrator (lib/calibration/calibrator.cpp) together *)
(* with the parallel loop that feeds it: tbb::parallel_for_each over the   *)
(* images of a directory, in the command line tool (calibrate in           *)
(* lib/main.cpp) and in the GUI (CameraCalibrator::preprocess).            *)
(*                                                                         *)
(* Every worker reads an image and its metadata, detects the lens grid and *)
(* calls addGrid.  addGrid compares the camera serial number outside of    *)
(* dataAccessMutex and stores it, the grid and the cluster entry inside.   *)
(***************************************************************************)
EXTENDS Integers, Sequences, FiniteSets, Functions

CONSTANTS
    Workers,    \* TBB worker threads
    NoWorker,
    Images,     \* the base names of the *.RAW files of the directory
    NoImage,
    Lenses,     \* lens configurations: (zoom step, focus step)
    Serials,    \* camera serial numbers
    NoSerial,   \* the empty string: metadata without a serial number
    SerialOf,   \* serial number in the metadata of every image
    LensOf,     \* lens configuration in the metadata of every image
    Usable      \* images with a metadata file and enough contrast

ASSUME WorkersAssumption == NoWorker \notin Workers /\ IsFiniteSet(Workers)
ASSUME ImagesAssumption ==
    /\ NoImage \notin Images
    /\ Usable \subseteq Images
    /\ LensOf \in [Images -> Lenses]
ASSUME SerialsAssumption ==
    /\ NoSerial \notin Serials
    /\ SerialOf \in [Images -> Serials \union {NoSerial}]

VARIABLES
    todo,       \* images no worker has taken yet
    pc,         \* where each worker is
    image,      \* the image each worker processes
    thrown,     \* a CameraDiffersException was thrown: TBB starts no new task
    m_serial,
    mutex,      \* dataAccessMutex: its owner or NoWorker
    pointGridList,  \* the grids added so far, each known by its image
    clusterMap,     \* for every lens configuration, positions in pointGridList
    stage       \* "preprocess", "failed", "undefined" or "done"

vars == <<todo, pc, image, thrown, m_serial, mutex, pointGridList, clusterMap, stage>>

LockedSteps == {"serial", "grid", "cluster", "release"}
Steps == LockedSteps \union {"idle", "check", "lock"}

Init ==
    /\ todo = Images
    /\ pc = [w \in Workers |-> "idle"]
    /\ image = [w \in Workers |-> NoImage]
    /\ thrown = FALSE
    /\ m_serial = NoSerial
    /\ mutex = NoWorker
    /\ pointGridList = << >>
    /\ clusterMap = [l \in Lenses |-> << >>]
    /\ stage = "preprocess"

Goto(w, step) == pc' = [pc EXCEPT ![w] = step]

(* A worker takes an image, reads its files and detects its lenses.  An    *)
(* image without metadata or with a flat (empty) grid is skipped.          *)
TakeImage(w, i) ==
    /\ stage = "preprocess"
    /\ pc[w] = "idle"
    /\ ~thrown
    /\ i \in todo
    /\ todo' = todo \ {i}
    /\ IF i \in Usable
       THEN Goto(w, "check") /\ image' = [image EXCEPT ![w] = i]
       ELSE UNCHANGED <<pc, image>>
    /\ UNCHANGED <<thrown, m_serial, mutex, pointGridList, clusterMap, stage>>

(* addGrid, before the lock.  m_serial is read while another worker may be *)
(* assigning it: as the length of the string is stored last, the read      *)
(* finds it empty or complete.                                             *)
CheckSerial(w) ==
    /\ pc[w] = "check"
    /\ IF m_serial # NoSerial /\ m_serial # SerialOf[image[w]]
       THEN thrown' = TRUE /\ Goto(w, "idle") /\ image' = [image EXCEPT ![w] = NoImage]
       ELSE Goto(w, "lock") /\ UNCHANGED <<thrown, image>>
    /\ UNCHANGED <<todo, m_serial, mutex, pointGridList, clusterMap, stage>>

(* Wrong variant of Lock: the mutex is taken from its owner. *)
LockUnguarded(w) ==
    /\ pc[w] = "lock"
    /\ mutex' = w
    /\ Goto(w, "serial")
    /\ UNCHANGED <<todo, image, thrown, m_serial, pointGridList, clusterMap, stage>>

(* tbb::spin_mutex::scoped_lock lock(pimpl->dataAccessMutex) *)
Lock(w) ==
    /\ pc[w] = "lock"
    /\ mutex = NoWorker
    /\ mutex' = w
    /\ Goto(w, "serial")
    /\ UNCHANGED <<todo, image, thrown, m_serial, pointGridList, clusterMap, stage>>

(* The first serial number is kept. *)
SetSerial(w) ==
    /\ pc[w] = "serial"
    /\ m_serial' = IF m_serial = NoSerial THEN SerialOf[image[w]] ELSE m_serial
    /\ Goto(w, "grid")
    /\ UNCHANGED <<todo, image, thrown, mutex, pointGridList, clusterMap, stage>>

(* pointGridList.push_back(pointGrid) *)
StoreGrid(w) ==
    /\ pc[w] = "grid"
    /\ pointGridList' = Append(pointGridList, image[w])
    /\ Goto(w, "cluster")
    /\ UNCHANGED <<todo, image, thrown, m_serial, mutex, clusterMap, stage>>

(* clusterMap[lens].push_back(pointGridList.size() - 1); positions start   *)
(* at 1 here.                                                              *)
StoreCluster(w) ==
    /\ pc[w] = "cluster"
    /\ clusterMap' = [clusterMap EXCEPT ![LensOf[image[w]]] =
                         Append(@, Len(pointGridList))]
    /\ Goto(w, "release")
    /\ UNCHANGED <<todo, image, thrown, m_serial, mutex, pointGridList, stage>>

(* lock.release(); the task ends. *)
Release(w) ==
    /\ pc[w] = "release"
    /\ mutex' = NoWorker
    /\ Goto(w, "idle")
    /\ image' = [image EXCEPT ![w] = NoImage]
    /\ UNCHANGED <<todo, thrown, m_serial, pointGridList, clusterMap, stage>>

(* Wrong variant of Finish: the loop's caller goes on while tasks run. *)
FinishEarly ==
    /\ stage = "preprocess"
    /\ thrown \/ todo = {}
    /\ stage' = IF thrown THEN "failed"
                ELSE IF pointGridList = << >> THEN "undefined"
                ELSE "done"
    /\ UNCHANGED <<todo, pc, image, thrown, m_serial, mutex, pointGridList, clusterMap>>

(* Wrong variant of Finish: all images are waited for after an exception. *)
FinishAll ==
    /\ stage = "preprocess"
    /\ \A w \in Workers : pc[w] = "idle"
    /\ todo = {}
    /\ stage' = IF thrown THEN "failed"
                ELSE IF pointGridList = << >> THEN "undefined"
                ELSE "done"
    /\ UNCHANGED <<todo, pc, image, thrown, m_serial, mutex, pointGridList, clusterMap>>

(* parallel_for_each returns when every task has ended, and rethrows: the  *)
(* caller gives up.  Otherwise calibrate() computes the result; averageGrids *)
(* starts from the first grid, which must exist.                           *)
Finish ==
    /\ stage = "preprocess"
    /\ \A w \in Workers : pc[w] = "idle"
    /\ thrown \/ todo = {}
    /\ stage' = IF thrown THEN "failed"
                ELSE IF pointGridList = << >> THEN "undefined"
                ELSE "done"
    /\ UNCHANGED <<todo, pc, image, thrown, m_serial, mutex, pointGridList, clusterMap>>

AddGrid(w) ==
    \/ CheckSerial(w) \/ Lock(w) \/ SetSerial(w) \/ StoreGrid(w)
    \/ StoreCluster(w) \/ Release(w)

Next ==
    \/ Finish
    \/ \E w \in Workers : AddGrid(w) \/ \E i \in Images : TakeImage(w, i)

Spec == Init /\ [][Next]_vars

(* Workers in a task run, idle ones take work, and the loop's caller goes on. *)
Fairness ==
    /\ \A w \in Workers : WF_vars(AddGrid(w)) /\ WF_vars(\E i \in Images : TakeImage(w, i))
    /\ WF_vars(Finish)

FairSpec == Spec /\ Fairness

(* The result of calibrate(): the serial number and one entry for every    *)
(* lens configuration that has a cluster.                                  *)
CalibrationData ==
    [serial |-> m_serial, lenses |-> {l \in Lenses : clusterMap[l] # << >>}]

-----------------------------------------------------------------------------
(* Type correctness. *)
TypeOK ==
    /\ todo \subseteq Images
    /\ pc \in [Workers -> Steps]
    /\ image \in [Workers -> Images \union {NoImage}]
    /\ thrown \in BOOLEAN
    /\ m_serial \in Serials \union {NoSerial}
    /\ mutex \in Workers \union {NoWorker}
    /\ pointGridList \in Seq(Images)
    /\ clusterMap \in [Lenses -> Seq(Nat)]
    /\ stage \in {"preprocess", "failed", "undefined", "done"}

(* Whenever nobody is inside addGrid's locked part, the clusters partition *)
(* the positions of pointGridList: every grid is in the cluster of its own *)
(* lens configuration, exactly once, and in no other.                      *)
ClustersPartitionGrids ==
    mutex = NoWorker =>
        \A l \in Lenses :
            /\ Range(clusterMap[l]) =
                  {k \in 1..Len(pointGridList) : LensOf[pointGridList[k]] = l}
            /\ \A j, k \in 1..Len(clusterMap[l]) :
                  j < k => clusterMap[l][j] < clusterMap[l][k]

(* A finished calibration used every usable image exactly once and covers  *)
(* exactly the lens configurations of those images: no grid is lost or     *)
(* stored twice by the parallel loop.                                      *)
EveryImageUsed ==
    stage = "done" =>
        /\ Range(pointGridList) = Usable
        /\ Len(pointGridList) = Cardinality(Usable)
        /\ CalibrationData.lenses = {LensOf[i] : i \in Usable}

(* All grids of a calibration are of one camera, as addGrid's contract     *)
(* says (calibrator.h:59-63).                                              *)
SameCamera ==
    \A j, k \in 1..Len(pointGridList) :
        SerialOf[pointGridList[j]] = SerialOf[pointGridList[k]]

(* What the check outside the lock really gives when every image has a     *)
(* serial number: grids of other cameras only come from workers that had   *)
(* passed the check before the first serial number was stored, so there    *)
(* are fewer of them than workers.                                         *)
Strangers == {k \in 1..Len(pointGridList) : SerialOf[pointGridList[k]] # m_serial}
FewStrangers ==
    (\A i \in Usable : SerialOf[i] # NoSerial) =>
        \/ Strangers = {}
        \/ Cardinality(Strangers) < Cardinality(Workers)

(* What the workers put together is what the images call for: a finished   *)
(* calibration has every grid once, and few that the check of the serial   *)
(* number in addGrid should have kept out.                                 *)
GridsExplained == EveryImageUsed /\ FewStrangers

(* The parallel loop and the calibration come to an end. *)
CalibrationEnds == <>(stage # "preprocess")

-----------------------------------------------------------------------------
(* The invariant behind ClustersPartitionGrids. *)

(* A worker is inside the locked part exactly when it owns the mutex. *)
LockInv == \A w \in Workers : pc[w] \in LockedSteps <=> mutex = w

(* A worker in a task has an image; between its two stores its grid is the *)
(* last one of the list.                                                   *)
TaskInv ==
    \A w \in Workers :
        /\ pc[w] # "idle" => image[w] \in Images
        /\ pc[w] = "cluster" =>
              /\ Len(pointGridList) > 0
              /\ pointGridList[Len(pointGridList)] = image[w]

(* The number of grids that have been put into a cluster. *)
Clustered ==
    IF \E w \in Workers : pc[w] = "cluster"
    THEN Len(pointGridList) - 1 ELSE Len(pointGridList)

(* The clusters partition the first n positions of the list of grids. *)
Partition(n) ==
    \A l \in Lenses :
        /\ Range(clusterMap[l]) = {k \in 1..n : LensOf[pointGridList[k]] = l}
        /\ \A j, k \in 1..Len(clusterMap[l]) :
              j < k => clusterMap[l][j] < clusterMap[l][k]

IndInv == TypeOK /\ LockInv /\ TaskInv /\ Partition(Clustered)

-----------------------------------------------------------------------------
(* The invariants behind GridsExplained. *)

(* A worker holds an image whose grid is not stored yet. *)
Storing(w) == pc[w] \in {"check", "lock", "serial", "grid"}

(* A usable image is in exactly one place: not yet taken, in the hands of  *)
(* one worker, or once in the list of grids.  Only an exception loses one. *)
UsedInv ==
    /\ \A w \in Workers :
          Storing(w) => image[w] \in Usable /\ image[w] \notin todo \union Range(pointGridList)
    /\ \A v, w \in Workers : Storing(v) /\ Storing(w) /\ v # w => image[v] # image[w]
    /\ Range(pointGridList) \subseteq Usable \ todo
    /\ \A j, k \in 1..Len(pointGridList) : pointGridList[j] = pointGridList[k] => j = k
    /\ ~thrown => \A i \in Usable :
          i \in todo \/ i \in Range(pointGridList) \/ \E w \in Workers : Storing(w) /\ image[w] = i
    /\ stage = "done" => ~thrown /\ todo = {} /\ \A w \in Workers : pc[w] = "idle"

(* Workers that have passed the check with a serial number other than the  *)
(* one that is stored: they had found none.                                *)
Passed ==
    {w \in Workers : pc[w] \in {"lock", "serial", "grid"} /\ SerialOf[image[w]] # m_serial}

(* The worker that stored the serial number is not one of those that bring *)
(* a stranger, and whoever has brought one must pass the check again.      *)
StrangerInv ==
    (\A i \in Usable : SerialOf[i] # NoSerial) =>
        IF m_serial = NoSerial
        THEN /\ pointGridList = << >>
             /\ \A w \in Workers : pc[w] \notin {"grid", "cluster", "release"}
        ELSE Cardinality(Strangers) + Cardinality(Passed) < Cardinality(Workers)
=============================================================================
