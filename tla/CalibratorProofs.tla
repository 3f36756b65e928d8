-------------------------- MODULE CalibratorProofs --------------------------
(***************************************************************************)
(* Proofs about Calibrator, for any number of workers, images, cameras and *)
(* lens configurations.                                                    *)
(***************************************************************************)
EXTENDS Calibrator, FiniteSetTheorems, TLAPS

LEMMA TypeLockInit == Init => TypeOK /\ LockInv /\ TaskInv
<1> SUFFICES ASSUME Init PROVE TypeOK /\ LockInv /\ TaskInv
  OBVIOUS
<1>1. TypeOK
  <2>1. << >> \in Seq(Images) /\ << >> \in Seq(Nat)
    OBVIOUS
  <2>2. clusterMap \in [Lenses -> Seq(Nat)]
    BY <2>1 DEF Init
  <2>3. thrown \in BOOLEAN
    BY DEF Init
  <2> QED
    BY <2>1, <2>2, <2>3 DEF Init, TypeOK, Steps
<1>2. LockInv
  BY WorkersAssumption DEF Init, LockInv, LockedSteps
<1>3. TaskInv
  BY DEF Init, TaskInv
<1> QED
  BY <1>1, <1>2, <1>3

(* Type correctness, the discipline of dataAccessMutex and the link from a *)
(* worker to the grid it stores are kept by every step.                    *)
LEMMA TypeLockStep ==
    ASSUME TypeOK, LockInv, TaskInv, [Next]_vars
    PROVE  TypeOK' /\ LockInv' /\ TaskInv'
<1> USE WorkersAssumption, ImagesAssumption, SerialsAssumption
<1> USE DEF TypeOK, LockInv, TaskInv, Goto, Steps, LockedSteps
<1>1. ASSUME NEW w \in Workers, NEW i \in Images, TakeImage(w, i)
      PROVE  TypeOK' /\ LockInv' /\ TaskInv'
  BY <1>1, ZenonT(60) DEF TakeImage
<1>2. ASSUME NEW w \in Workers, AddGrid(w)
      PROVE  TypeOK' /\ LockInv' /\ TaskInv'
  <2>1. CASE CheckSerial(w)
    <3>1. thrown' \in BOOLEAN
      BY <2>1 DEF CheckSerial
    <3>2. CASE pc' = [pc EXCEPT ![w] = "idle"] /\ image' = [image EXCEPT ![w] = NoImage]
      BY <2>1, <3>1, <3>2 DEF CheckSerial
    <3>3. CASE pc' = [pc EXCEPT ![w] = "lock"] /\ image' = image
      BY <2>1, <3>1, <3>3 DEF CheckSerial
    <3> QED
      BY <2>1, <3>2, <3>3 DEF CheckSerial
  <2>2. CASE Lock(w)
    BY <2>2 DEF Lock
  <2>3. CASE SetSerial(w)
    BY <2>3 DEF SetSerial
  <2>4. CASE StoreGrid(w)
    <3>1. /\ Append(pointGridList, image[w]) \in Seq(Images)
          /\ Len(pointGridList') = Len(pointGridList) + 1
          /\ pointGridList'[Len(pointGridList')] = image[w]
      BY <2>4 DEF StoreGrid
    <3>2. \A v \in Workers : v # w => pc[v] # "cluster"
      BY <2>4 DEF StoreGrid
    <3>3. TypeOK'
      BY <2>4, <3>1 DEF StoreGrid
    <3>4. LockInv'
      BY <2>4 DEF StoreGrid
    <3>5. TaskInv'
      BY <2>4, <3>1, <3>2 DEF StoreGrid
    <3> QED
      BY <3>3, <3>4, <3>5
  <2>5. CASE StoreCluster(w)
    <3>1. clusterMap' \in [Lenses -> Seq(Nat)]
      BY <2>5 DEF StoreCluster
    <3> QED
      BY <2>5, <3>1 DEF StoreCluster
  <2>6. CASE Release(w)
    BY <2>6 DEF Release
  <2> QED
    BY <1>2, <2>1, <2>2, <2>3, <2>4, <2>5, <2>6 DEF AddGrid
<1>3. CASE Finish
  BY <1>3 DEF Finish
<1>4. CASE UNCHANGED vars
  BY <1>4 DEF vars
<1> QED
  BY <1>1, <1>2, <1>3, <1>4 DEF Next

(* Appending an element adds it to the range of a sequence. *)
LEMMA RangeAppend ==
    ASSUME NEW S, NEW s \in Seq(S), NEW x \in S
    PROVE  Range(Append(s, x)) = Range(s) \union {x}
<1> DEFINE a == Append(s, x)
<1>1. /\ Len(a) = Len(s) + 1
      /\ a[Len(s) + 1] = x
      /\ \A k \in 1..Len(s) : a[k] = s[k]
      /\ Len(s) \in Nat
  OBVIOUS
<1> HIDE DEF a
<1>2. 1..Len(a) = (1..Len(s)) \union {Len(s) + 1}
  BY <1>1
<1>3. Range(a) = Range(s) \union {x}
  BY <1>1, <1>2 DEF Range
<1> QED
  BY <1>3 DEF a

(* Clusters always partition the grids that have been put into one. *)
LEMMA PartitionStep ==
    ASSUME TypeOK, LockInv, TaskInv, Partition(Clustered), [Next]_vars
    PROVE  Partition(Clustered)'
<1> DEFINE n == Len(pointGridList)
<1> USE DEF TypeOK, Goto
<1>0. n \in Nat
  OBVIOUS
<1>1. ASSUME UNCHANGED <<pointGridList, clusterMap>>, Clustered' = Clustered
      PROVE  Partition(Clustered)'
  BY <1>1 DEF Partition
<1>2. ASSUME NEW w \in Workers, StoreGrid(w)
      PROVE  Partition(Clustered)'
  <2>1. \A v \in Workers : pc[v] # "cluster"
    BY <1>2 DEF StoreGrid, LockInv, LockedSteps
  <2>2. Clustered = n
    BY <2>1 DEF Clustered
  <2>3. image[w] \in Images
    BY <1>2 DEF StoreGrid, TaskInv
  <2>4. /\ Len(pointGridList') = n + 1
        /\ \A k \in 1..n : pointGridList'[k] = pointGridList[k]
    BY <1>2, <2>3 DEF StoreGrid
  <2>5. Clustered' = n
    BY <1>0, <1>2, <2>4 DEF Clustered, StoreGrid
  <2>6. clusterMap' = clusterMap
    BY <1>2 DEF StoreGrid
  <2> HIDE DEF n
  <2>7. \A l \in Lenses : {k \in 1..n : LensOf[pointGridList'[k]] = l}
                           = {k \in 1..n : LensOf[pointGridList[k]] = l}
    BY <2>4
  <2> QED
    BY <2>2, <2>5, <2>6, <2>7 DEF Partition
<1>3. ASSUME NEW w \in Workers, StoreCluster(w)
      PROVE  Partition(Clustered)'
  <2> DEFINE m == LensOf[image[w]]
  <2>1. /\ image[w] \in Images
        /\ m \in Lenses
        /\ n > 0
        /\ pointGridList[n] = image[w]
    BY <1>3, ImagesAssumption DEF StoreCluster, TaskInv
  <2>2. Clustered = n - 1
    BY <1>3 DEF StoreCluster, Clustered
  <2>3. pointGridList' = pointGridList
    BY <1>3 DEF StoreCluster
  <2>4. \A v \in Workers : pc'[v] # "cluster"
    BY <1>3 DEF StoreCluster, LockInv, LockedSteps
  <2>5. Clustered' = n
    BY <2>3, <2>4 DEF Clustered
  <2>6. clusterMap' = [clusterMap EXCEPT ![m] = Append(@, n)]
    BY <1>3 DEF StoreCluster
  <2> SUFFICES ASSUME NEW l \in Lenses
               PROVE  /\ Range(clusterMap'[l]) = {k \in 1..n : LensOf[pointGridList[k]] = l}
                      /\ \A j, k \in 1..Len(clusterMap'[l]) :
                            j < k => clusterMap'[l][j] < clusterMap'[l][k]
    BY <2>3, <2>5 DEF Partition, Range
  <2>7. /\ clusterMap[l] \in Seq(Nat)
        /\ Range(clusterMap[l]) = {k \in 1..(n - 1) : LensOf[pointGridList[k]] = l}
        /\ \A j, k \in 1..Len(clusterMap[l]) :
              j < k => clusterMap[l][j] < clusterMap[l][k]
    BY <2>2 DEF Partition
  <2> HIDE DEF n
  <2>8. 1..n = (1..(n - 1)) \union {n}
    BY <1>0, <2>1
  <2>9. CASE l = m
    <3>1. clusterMap'[l] = Append(clusterMap[l], n)
      BY <2>1, <2>6, <2>9
    <3>2. Range(clusterMap'[l]) = Range(clusterMap[l]) \union {n}
      BY <1>0, <2>7, <3>1, RangeAppend
    <3>3. \A k \in 1..Len(clusterMap[l]) : clusterMap[l][k] < n
      <4> TAKE k \in 1..Len(clusterMap[l])
      <4>1. clusterMap[l][k] \in Range(clusterMap[l])
        BY DEF Range
      <4>2. clusterMap[l][k] \in 1..(n - 1)
        BY <2>7, <4>1
      <4> QED
        BY <1>0, <4>2
    <3>4. /\ Len(clusterMap'[l]) = Len(clusterMap[l]) + 1
          /\ \A k \in 1..Len(clusterMap[l]) : clusterMap'[l][k] = clusterMap[l][k]
          /\ clusterMap'[l][Len(clusterMap[l]) + 1] = n
      BY <1>0, <2>7, <3>1
    <3>5. Range(clusterMap'[l]) = {k \in 1..n : LensOf[pointGridList[k]] = l}
      BY <2>1, <2>7, <2>8, <2>9, <3>2
    <3>6. ASSUME NEW j \in 1..Len(clusterMap'[l]), NEW k \in 1..Len(clusterMap'[l]), j < k
          PROVE  clusterMap'[l][j] < clusterMap'[l][k]
      <4>1. Len(clusterMap[l]) \in Nat
        BY <2>7
      <4>2. j \in 1..Len(clusterMap[l])
        BY <3>4, <3>6, <4>1
      <4>3. k \in 1..Len(clusterMap[l]) \/ k = Len(clusterMap[l]) + 1
        BY <3>4, <3>6, <4>1
      <4> QED
        BY <2>7, <3>3, <3>4, <3>6, <4>2, <4>3
    <3> QED
      BY <3>5, <3>6
  <2>10. CASE l # m
    <3>1. clusterMap'[l] = clusterMap[l]
      BY <2>6, <2>10
    <3>2. {k \in 1..n : LensOf[pointGridList[k]] = l}
            = {k \in 1..(n - 1) : LensOf[pointGridList[k]] = l}
      BY <2>1, <2>8, <2>10
    <3> QED
      BY <2>7, <3>1, <3>2
  <2> QED
    BY <2>9, <2>10
<1>4. ASSUME NEW w \in Workers, AddGrid(w), ~StoreGrid(w), ~StoreCluster(w)
      PROVE  Partition(Clustered)'
  <2>1. UNCHANGED <<pointGridList, clusterMap>>
    BY <1>4 DEF AddGrid, CheckSerial, Lock, SetSerial, Release
  <2>2. \A v \in Workers : (pc[v] = "cluster") = (pc'[v] = "cluster")
    BY <1>4 DEF AddGrid, CheckSerial, Lock, SetSerial, Release
  <2>3. Clustered' = Clustered
    BY <2>1, <2>2 DEF Clustered
  <2> QED
    BY <1>1, <2>1, <2>3
<1>5. ASSUME NEW w \in Workers, NEW i \in Images, TakeImage(w, i)
      PROVE  Partition(Clustered)'
  <2>1. UNCHANGED <<pointGridList, clusterMap>>
    BY <1>5 DEF TakeImage
  <2>2. \A v \in Workers : (pc[v] = "cluster") = (pc'[v] = "cluster")
    BY <1>5 DEF TakeImage
  <2>3. Clustered' = Clustered
    BY <2>1, <2>2 DEF Clustered
  <2> QED
    BY <1>1, <2>1, <2>3
<1>6. CASE Finish \/ UNCHANGED vars
  BY <1>1, <1>6 DEF Finish, vars, Clustered
<1> QED
  BY <1>2, <1>3, <1>4, <1>5, <1>6 DEF Next

(* The inductive invariant holds. *)
LEMMA Invariance == Spec => []IndInv
<1>1. Init => IndInv
  <2> SUFFICES ASSUME Init PROVE Partition(Clustered)
    BY TypeLockInit DEF IndInv
  <2>1. Clustered = 0
    BY DEF Init, Clustered
  <2>2. \A l \in Lenses : clusterMap[l] = << >>
    BY DEF Init
  <2> QED
    BY <2>1, <2>2 DEF Partition, Range
<1>2. IndInv /\ [Next]_vars => IndInv'
  BY TypeLockStep, PartitionStep DEF IndInv
<1> QED
  BY <1>1, <1>2, PTL DEF Spec

(* For any number of workers and images, whenever no worker is inside      *)
(* addGrid's locked part the clusters partition the list of grids: the     *)
(* spin mutex makes the two stores and the position between them one step. *)
THEOREM ClustersCorrect == Spec => []ClustersPartitionGrids
<1>1. IndInv => ClustersPartitionGrids
  <2> SUFFICES ASSUME IndInv, mutex = NoWorker
               PROVE  Partition(Len(pointGridList))
    BY DEF ClustersPartitionGrids, Partition
  <2>1. \A w \in Workers : pc[w] # "cluster"
    BY WorkersAssumption DEF IndInv, LockInv, LockedSteps
  <2> QED
    BY <2>1 DEF IndInv, Clustered
<1> QED
  BY <1>1, Invariance, PTL

-----------------------------------------------------------------------------
(* Every usable image stays in exactly one place. *)
LEMMA UsedStep ==
    ASSUME TypeOK, LockInv, TaskInv, UsedInv, [Next]_vars
    PROVE  UsedInv'
<1> USE DEF TypeOK, Goto, Storing
<1>0. ImagesAssumption /\ WorkersAssumption
  BY ImagesAssumption, WorkersAssumption
<1>1. ASSUME NEW w \in Workers, NEW i \in Images, TakeImage(w, i)
      PROVE  UsedInv'
  <2>1. stage = "preprocess" /\ stage' = stage /\ thrown' = thrown /\ ~thrown
        /\ pointGridList' = pointGridList /\ todo' = todo \ {i} /\ i \in todo /\ pc[w] = "idle"
    BY <1>1 DEF TakeImage
  <2>2. Range(pointGridList)' = Range(pointGridList)
    BY <2>1 DEF Range
  <2>3. CASE i \in Usable
    <3>1. pc' = [pc EXCEPT ![w] = "check"] /\ image' = [image EXCEPT ![w] = i]
      BY <1>1, <2>3 DEF TakeImage
    <3> QED
      BY <2>1, <2>2, <2>3, <3>1 DEF UsedInv
  <2>4. CASE i \notin Usable
    <3>1. pc' = pc /\ image' = image
      BY <1>1, <2>4 DEF TakeImage
    <3> QED
      BY <2>1, <2>2, <2>4, <3>1 DEF UsedInv
  <2> QED
    BY <2>3, <2>4
<1>2. ASSUME NEW w \in Workers, StoreGrid(w)
      PROVE  UsedInv'
  <2>1. image[w] \in Images
    BY <1>2 DEF StoreGrid, TaskInv
  <2>2. /\ pc[w] = "grid" /\ pc' = [pc EXCEPT ![w] = "cluster"]
        /\ pointGridList' = Append(pointGridList, image[w])
        /\ UNCHANGED <<todo, image, thrown, stage>>
    BY <1>2 DEF StoreGrid
  <2>3. Range(pointGridList)' = Range(pointGridList) \union {image[w]}
    BY <2>1, <2>2, RangeAppend
  <2>4. \A j, k \in 1..Len(pointGridList') :
           pointGridList'[j] = pointGridList'[k] => j = k
    <3>1. /\ Len(pointGridList') = Len(pointGridList) + 1
          /\ Len(pointGridList) \in Nat
          /\ pointGridList'[Len(pointGridList) + 1] = image[w]
          /\ \A k \in 1..Len(pointGridList) : pointGridList'[k] = pointGridList[k]
      BY <2>1, <2>2
    <3>2. \A k \in 1..Len(pointGridList) : pointGridList[k] # image[w]
      BY <2>2 DEF UsedInv, Range
    <3> QED
      BY <3>1, <3>2 DEF UsedInv
  <2>5. stage' # "done"
    BY <2>2 DEF UsedInv
  <2> QED
    BY <2>2, <2>3, <2>4, <2>5 DEF UsedInv
<1>3. ASSUME NEW w \in Workers, CheckSerial(w)
      PROVE  UsedInv'
  <2>1. UNCHANGED <<todo, pointGridList, stage>> /\ pc[w] = "check"
    BY <1>3 DEF CheckSerial
  <2>2. stage # "done"
    BY <2>1 DEF UsedInv
  <2>3. Range(pointGridList)' = Range(pointGridList)
    BY <2>1 DEF Range
  <2>4. CASE thrown' /\ pc' = [pc EXCEPT ![w] = "idle"] /\ image' = [image EXCEPT ![w] = NoImage]
    BY <2>1, <2>2, <2>3, <2>4 DEF UsedInv
  <2>5. CASE UNCHANGED <<thrown, image>> /\ pc' = [pc EXCEPT ![w] = "lock"]
    BY <2>1, <2>2, <2>3, <2>5 DEF UsedInv
  <2> QED
    BY <1>3, <2>4, <2>5 DEF CheckSerial
<1>4. ASSUME NEW w \in Workers, AddGrid(w), ~CheckSerial(w), ~StoreGrid(w)
      PROVE  UsedInv'
  <2>1. UNCHANGED <<todo, pointGridList, stage, thrown>>
    BY <1>4 DEF AddGrid, Lock, SetSerial, StoreCluster, Release
  <2>2. \A v \in Workers : Storing(v)' = Storing(v) /\ (Storing(v) => image'[v] = image[v])
    BY <1>4 DEF AddGrid, Lock, SetSerial, StoreCluster, Release
  <2>3. Range(pointGridList)' = Range(pointGridList)
    BY <2>1 DEF Range
  <2>4. stage # "done"
    BY <1>4 DEF UsedInv, AddGrid, Lock, SetSerial, StoreCluster, Release
  <2> HIDE DEF Storing
  <2> QED
    BY <2>1, <2>2, <2>3, <2>4 DEF UsedInv
<1>5. CASE Finish
  <2>1. UNCHANGED <<todo, pc, image, thrown, pointGridList>>
    BY <1>5 DEF Finish
  <2>2. Range(pointGridList)' = Range(pointGridList)
    BY <2>1 DEF Range
  <2>3. stage' = "done" => ~thrown /\ todo = {} /\ \A w \in Workers : pc[w] = "idle"
    BY <1>5 DEF Finish
  <2> QED
    BY <2>1, <2>2, <2>3 DEF UsedInv
<1>6. CASE UNCHANGED vars
  <2>1. Range(pointGridList)' = Range(pointGridList)
    BY <1>6 DEF vars, Range
  <2> QED
    BY <1>6, <2>1 DEF vars, UsedInv
<1> QED
  BY <1>1, <1>2, <1>3, <1>4, <1>5, <1>6 DEF Next

(* The sets that StrangerInv counts are finite. *)
LEMMA StrangersFinite ==
    ASSUME TypeOK
    PROVE  /\ IsFiniteSet(Strangers) /\ Cardinality(Strangers) \in Nat
           /\ IsFiniteSet(Passed) /\ Cardinality(Passed) \in Nat
           /\ IsFiniteSet(Workers) /\ Cardinality(Workers) \in Nat
<1>1. Len(pointGridList) \in Nat
  BY DEF TypeOK
<1>2. IsFiniteSet(1..Len(pointGridList))
  BY <1>1, FS_Interval
<1>3. IsFiniteSet(Strangers)
  BY <1>2, FS_Subset DEF Strangers
<1>4. IsFiniteSet(Workers)
  BY WorkersAssumption
<1>5. IsFiniteSet(Passed)
  BY <1>4, FS_Subset DEF Passed
<1> QED
  BY <1>3, <1>4, <1>5, FS_CardinalityType

(* Grids of other cameras and workers that may still bring one are, taken  *)
(* together, never as many as the workers.                                 *)
LEMMA StrangerStep ==
    ASSUME TypeOK, TypeOK', LockInv, TaskInv, UsedInv, StrangerInv, [Next]_vars
    PROVE  StrangerInv'
<1> DEFINE Bound == Cardinality(Strangers) + Cardinality(Passed) < Cardinality(Workers)
<1> SUFFICES ASSUME \A i \in Usable : SerialOf[i] # NoSerial
             PROVE  IF m_serial' = NoSerial
                    THEN /\ pointGridList' = << >>
                         /\ \A w \in Workers : pc'[w] \notin {"grid", "cluster", "release"}
                    ELSE Bound'
  BY DEF StrangerInv
<1> USE DEF TypeOK, Goto
<1>1. ASSUME UNCHANGED <<m_serial, pointGridList>>, Passed' \subseteq Passed, Bound
      PROVE  Bound'
  <2>1. Strangers' = Strangers
    BY <1>1 DEF Strangers
  <2>2. Cardinality(Passed') <= Cardinality(Passed)
    BY <1>1, FS_Subset, StrangersFinite
  <2>3. Cardinality(Passed') \in Nat /\ Cardinality(Passed) \in Nat
        /\ Cardinality(Strangers) \in Nat /\ Cardinality(Workers) \in Nat
    BY <1>1, StrangersFinite, FS_Subset, FS_CardinalityType
  <2> QED
    BY <1>1, <2>1, <2>2, <2>3
<1>2. ASSUME NEW w \in Workers, NEW i \in Images, TakeImage(w, i)
      PROVE  StrangerInv'
  <2>1. UNCHANGED <<m_serial, pointGridList>>
    BY <1>2 DEF TakeImage
  <2>2. \A v \in Workers : (pc'[v] = pc[v] /\ image'[v] = image[v]) \/ pc'[v] = "check"
    BY <1>2 DEF TakeImage
  <2>3. Passed' \subseteq Passed
    BY <2>1, <2>2 DEF Passed
  <2> QED
    BY <1>1, <2>1, <2>2, <2>3 DEF StrangerInv
<1>3. ASSUME NEW w \in Workers, CheckSerial(w)
      PROVE  StrangerInv'
  <2>1. UNCHANGED <<m_serial, pointGridList>>
    BY <1>3 DEF CheckSerial
  <2>2. \A v \in Workers : v # w => pc'[v] = pc[v] /\ image'[v] = image[v]
    BY <1>3 DEF CheckSerial
  <2>3. pc'[w] \in {"idle", "lock"}
    BY <1>3 DEF CheckSerial
  <2>4. CASE m_serial = NoSerial
    BY <2>1, <2>2, <2>3, <2>4 DEF StrangerInv
  <2>5. CASE m_serial # NoSerial
    <3>1. pc'[w] = "lock" => SerialOf[image'[w]] = m_serial
      BY <1>3, <2>5 DEF CheckSerial
    <3>2. Passed' \subseteq Passed
      BY <2>1, <2>2, <2>3, <3>1 DEF Passed
    <3> QED
      BY <1>1, <2>1, <2>5, <3>2 DEF StrangerInv
  <2> QED
    BY <2>4, <2>5
<1>4. ASSUME NEW w \in Workers, SetSerial(w)
      PROVE  StrangerInv'
  <2>1. UNCHANGED <<pointGridList, image>> /\ pc[w] = "serial" /\ pc' = [pc EXCEPT ![w] = "grid"]
    BY <1>4 DEF SetSerial
  <2>2. CASE m_serial # NoSerial
    <3>1. m_serial' = m_serial
      BY <1>4, <2>2 DEF SetSerial
    <3>2. Passed' \subseteq Passed
      BY <2>1, <3>1 DEF Passed
    <3> QED
      BY <1>1, <2>1, <2>2, <3>1, <3>2 DEF StrangerInv
  <2>3. CASE m_serial = NoSerial
    <3>1. m_serial' = SerialOf[image[w]]
      BY <1>4, <2>3 DEF SetSerial
    <3>2. image[w] \in Usable
      BY <2>1 DEF UsedInv, Storing
    <3>3. m_serial' # NoSerial
      BY <3>1, <3>2
    <3>4. pointGridList' = << >>
      BY <2>1, <2>3 DEF StrangerInv
    <3>5. Strangers' = {}
      BY <3>4 DEF Strangers
    <3>6. Passed' \subseteq Workers \ {w}
      BY <2>1, <3>1 DEF Passed
    <3>7. /\ Cardinality(Passed') <= Cardinality(Workers \ {w})
          /\ Cardinality(Passed') \in Nat
          /\ Cardinality(Workers \ {w}) = Cardinality(Workers) - 1
          /\ Cardinality(Workers) \in Nat
      BY <3>6, StrangersFinite, FS_RemoveElement, FS_Subset, FS_CardinalityType
    <3>8. Cardinality(Strangers') = 0
      BY <3>5, FS_EmptySet
    <3>9. Bound'
      BY <3>7, <3>8
    <3> QED
      BY <3>3, <3>9 DEF StrangerInv
  <2> QED
    BY <2>2, <2>3
<1>5. ASSUME NEW w \in Workers, StoreGrid(w)
      PROVE  StrangerInv'
  <2>1. /\ UNCHANGED <<m_serial, image>>
        /\ pc[w] = "grid" /\ pc' = [pc EXCEPT ![w] = "cluster"]
        /\ pointGridList' = Append(pointGridList, image[w])
    BY <1>5 DEF StoreGrid
  <2>2. m_serial # NoSerial /\ Bound
    BY <2>1 DEF StrangerInv
  <2>3. image[w] \in Images
    BY <2>1 DEF TaskInv
  <2>4. /\ Len(pointGridList') = Len(pointGridList) + 1
        /\ Len(pointGridList) \in Nat
        /\ pointGridList'[Len(pointGridList) + 1] = image[w]
        /\ \A k \in 1..Len(pointGridList) : pointGridList'[k] = pointGridList[k]
    BY <2>1, <2>3
  <2>5. CASE SerialOf[image[w]] = m_serial
    <3>1. Strangers' = Strangers
      BY <2>1, <2>4, <2>5 DEF Strangers
    <3>2. Passed' = Passed
      BY <2>1, <2>5 DEF Passed
    <3> QED
      BY <2>1, <2>2, <3>1, <3>2 DEF StrangerInv
  <2>6. CASE SerialOf[image[w]] # m_serial
    <3>1. Strangers' = Strangers \union {Len(pointGridList) + 1}
      BY <2>1, <2>4, <2>6 DEF Strangers
    <3>2. Passed' = Passed \ {w} /\ w \in Passed
      BY <2>1, <2>6 DEF Passed
    <3>3. Len(pointGridList) + 1 \notin Strangers
      BY <2>4 DEF Strangers
    <3>4. /\ Cardinality(Strangers') = Cardinality(Strangers) + 1
          /\ Cardinality(Passed') = Cardinality(Passed) - 1
      BY <3>1, <3>2, <3>3, StrangersFinite, FS_AddElement, FS_RemoveElement
    <3>5. Bound'
      BY <2>2, <3>4, StrangersFinite
    <3> QED
      BY <2>1, <2>2, <3>5 DEF StrangerInv
  <2> QED
    BY <2>5, <2>6
<1>6. ASSUME NEW w \in Workers, Lock(w) \/ StoreCluster(w) \/ Release(w)
      PROVE  StrangerInv'
  <2>1. UNCHANGED <<m_serial, pointGridList>>
    BY <1>6 DEF Lock, StoreCluster, Release
  <2>2. Passed' \subseteq Passed
    BY <1>6, <2>1 DEF Passed, Lock, StoreCluster, Release
  <2>3. \A v \in Workers : pc'[v] \in {"grid", "cluster", "release"} =>
                              pc[v] \in {"grid", "cluster", "release"}
    BY <1>6 DEF Lock, StoreCluster, Release
  <2> QED
    BY <1>1, <2>1, <2>2, <2>3 DEF StrangerInv
<1>7. CASE Finish \/ UNCHANGED vars
  <2>1. UNCHANGED <<m_serial, pointGridList, pc, image>>
    BY <1>7 DEF Finish, vars
  <2>2. Passed' \subseteq Passed
    BY <2>1 DEF Passed
  <2> QED
    BY <1>1, <2>1, <2>2 DEF StrangerInv
<1> QED
  BY <1>2, <1>3, <1>4, <1>5, <1>6, <1>7 DEF Next, AddGrid, StrangerInv

(* Both invariants hold. *)
LEMMA UsedInvariance == Spec => [](UsedInv /\ StrangerInv)
<1>1. Init => UsedInv /\ StrangerInv
  <2> SUFFICES ASSUME Init PROVE UsedInv /\ StrangerInv
    OBVIOUS
  <2>1. Range(pointGridList) = {}
    BY DEF Init, Range
  <2> QED
    BY <2>1, ImagesAssumption DEF Init, UsedInv, StrangerInv, Storing
<1>2. IndInv /\ IndInv' /\ UsedInv /\ StrangerInv /\ [Next]_vars => UsedInv' /\ StrangerInv'
  BY UsedStep, StrangerStep DEF IndInv
<1> QED
  BY <1>1, <1>2, Invariance, PTL DEF Spec

(* For any number of workers and images: a calibration that is computed at *)
(* all uses every usable image exactly once and covers exactly the lens    *)
(* configurations of these images; and if all images name their camera,    *)
(* the unlocked check of addGrid lets fewer grids of other cameras pass    *)
(* than there are workers.                                                 *)
THEOREM GridsCorrect == Spec => []GridsExplained
<1>1. IndInv /\ UsedInv => EveryImageUsed
  <2> SUFFICES ASSUME IndInv, UsedInv, stage = "done"
               PROVE  /\ Range(pointGridList) = Usable
                      /\ Len(pointGridList) = Cardinality(Usable)
                      /\ CalibrationData.lenses = {LensOf[i] : i \in Usable}
    BY DEF EveryImageUsed
  <2> DEFINE n == Len(pointGridList)
  <2>1. ~thrown /\ todo = {} /\ \A w \in Workers : pc[w] = "idle"
    BY DEF UsedInv
  <2>2. Range(pointGridList) = Usable
    BY <2>1 DEF UsedInv, Storing
  <2>3. n \in Nat /\ pointGridList \in [1..n -> Usable]
    <3>1. n \in Nat /\ DOMAIN pointGridList = 1..n /\ pointGridList \in [1..n -> Images]
      BY DEF IndInv, TypeOK
    <3>2. \A k \in 1..n : pointGridList[k] \in Usable
      BY <2>2, <3>1 DEF Range
    <3> QED
      BY <3>1, <3>2
  <2>4. pointGridList \in Bijection(1..n, Usable)
    <3>1. \A j, k \in 1..n : pointGridList[j] = pointGridList[k] => j = k
      BY DEF UsedInv
    <3>2. \A i \in Usable : \E k \in 1..n : pointGridList[k] = i
      BY <2>2, <2>3 DEF Range
    <3> HIDE DEF n
    <3> QED
      BY <2>3, <3>1, <3>2 DEF Bijection, Injection, Surjection, IsInjective
  <2>5. Len(pointGridList) = Cardinality(Usable)
    BY <2>3, <2>4, FS_CountingElements DEF ExistsBijection
  <2>6. \A l \in Lenses : clusterMap[l] # << >> <=> \E k \in 1..n : LensOf[pointGridList[k]] = l
    <3>1. Partition(n)
      BY <2>1 DEF IndInv, Clustered
    <3>2. \A l \in Lenses : clusterMap[l] # << >> <=> Range(clusterMap[l]) # {}
      BY DEF IndInv, TypeOK, Range
    <3> QED
      BY <3>1, <3>2 DEF Partition
  <2>7. CalibrationData.lenses = {l \in Lenses : clusterMap[l] # << >>}
    BY DEF CalibrationData
  <2>8. CalibrationData.lenses = {LensOf[i] : i \in Usable}
    <3>1. \A l \in Lenses : clusterMap[l] # << >> <=> \E i \in Usable : LensOf[i] = l
      BY <2>2, <2>3, <2>6 DEF Range
    <3> QED
      BY <2>7, <3>1, ImagesAssumption
  <2> QED
    BY <2>2, <2>5, <2>8
<1>2. IndInv /\ StrangerInv => FewStrangers
  <2> SUFFICES ASSUME IndInv, StrangerInv, \A i \in Usable : SerialOf[i] # NoSerial
               PROVE  Strangers = {} \/ Cardinality(Strangers) < Cardinality(Workers)
    BY DEF FewStrangers
  <2>1. CASE m_serial = NoSerial
    BY <2>1 DEF StrangerInv, Strangers
  <2>2. CASE m_serial # NoSerial
    BY <2>2, StrangersFinite DEF StrangerInv, IndInv
  <2> QED
    BY <2>1, <2>2
<1> QED
  BY <1>1, <1>2, Invariance, UsedInvariance, PTL DEF GridsExplained
=============================================================================
