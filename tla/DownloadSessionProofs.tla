------------------------ MODULE DownloadSessionProofs -----------------------
(***************************************************************************)
(* Proofs about DownloadSession, for any number of cameras, photos and     *)
(* downloads.                                                              *)
(***************************************************************************)
EXTENDS DownloadSession, FiniteSetTheorems, WellFoundedInduction, TLAPS

(* The lowest of the rows still to be downloaded is one of them. *)
LEMMA MinRow ==
    ASSUME NEW S \in SUBSET Nat, S # {}
    PROVE  Min(S) \in S /\ \A k \in S : Min(S) <= k
<1>1. \E x \in S : \A y \in S : ~(<<y, x>> \in OpToRel(<, Nat))
  BY NatLessThanWellFounded, WFMin
<1>2. PICK x \in S : \A y \in S : ~(<<y, x>> \in OpToRel(<, Nat))
  BY <1>1
<1>3. \A y \in S : ~(y < x)
  BY <1>2, Zenon DEF OpToRel
<1>4. \A y \in S : x <= y
  BY <1>3
<1> QED
  BY <1>4 DEF Min

(* The rows of a list form a finite set of numbers. *)
LEMMA RowsOfList ==
    ASSUME NEW n \in Nat, NEW S \in SUBSET (1..n)
    PROVE  S \in Rows
<1>1. IsFiniteSet(1..n)
  BY FS_Interval
<1>2. IsFiniteSet(S)
  BY <1>1, FS_Subset
<1> QED
  BY <1>2 DEF Rows

(* Taking the lowest row leaves one row less. *)
LEMMA FewerRows ==
    ASSUME NEW S \in Rows, S # {}
    PROVE  /\ S \ {Min(S)} \in Rows
           /\ Cardinality(S) \in Nat /\ Cardinality(S \ {Min(S)}) = Cardinality(S) - 1
<1>1. Min(S) \in S
  BY MinRow DEF Rows
<1>2. IsFiniteSet(S) /\ S \in SUBSET Nat
  BY DEF Rows
<1>3. IsFiniteSet(S \ {Min(S)}) /\ Cardinality(S \ {Min(S)}) = Cardinality(S) - 1
  BY <1>1, <1>2, FS_RemoveElement
<1> QED
  BY <1>2, <1>3, FS_CardinalityType DEF Rows

(* Every item of a listed camera is about one of that camera's photos. *)
LEMMA ItemType ==
    ASSUME NEW c \in Cameras, NEW k \in 1..PhotoCount[c.dev]
    PROVE  Item(c, k) \in Items
<1>1. c.dev \in Devices
  BY DEF Cameras
<1>2. <<c.dev, k>> \in Photos
  BY <1>1 DEF Photos
<1> QED
  BY <1>2 DEF Item, Items

(* Changing the current camera keeps the types. *)
LEMMA ChangeType ==
    ASSUME NEW list \in Seq(Cameras), NEW i \in DOMAIN list, ChangeCurrentCamera(i, list),
           m_current \in Nat, fileList \in Seq(Items), fill \in Cameras \union {NoCamera}
    PROVE  m_current' \in Nat /\ fileList' \in Seq(Items) /\ fill' \in Cameras \union {NoCamera}
<1>1. i \in Nat /\ list[i] \in Cameras /\ << >> \in Seq(Items)
  OBVIOUS
<1>2. \/ m_current' = i /\ fileList' = << >> /\ fill' = list[i]
      \/ UNCHANGED <<m_current, fileList, fill>>
  BY DEF ChangeCurrentCamera
<1> QED
  BY <1>1, <1>2

(* The opened cameras form a list of cameras. *)
LEMMA OpenedType ==
    ASSUME NEW opened \in SUBSET Devices, NEW list \in OpenedCameras(opened), gen \in Nat
    PROVE  /\ list \in Seq(Cameras)
           /\ Len(list) = Cardinality(opened)
           /\ opened # {} => 1 \in DOMAIN list
           /\ \A i \in DOMAIN list : list[i].gen = gen + 1
<1>1. Cardinality(opened) \in Nat /\ (opened # {} => Cardinality(opened) # 0)
  BY SessionAssumption, FS_Subset, FS_CardinalityType, FS_EmptySet
<1>2. list \in [1..Cardinality(opened) -> Cameras] /\ \A i \in DOMAIN list : list[i].gen = gen + 1
  BY DEF OpenedCameras, Cameras
<1> QED
  BY <1>1, <1>2

(* A thumbnail is cached in its item and nowhere else. *)
LEMMA Painted ==
    ASSUME fileList \in Seq(Items), NEW r \in DOMAIN fileList, PaintThumbnail(r)
    PROVE  /\ fileList' \in Seq(Items)
           /\ DOMAIN fileList' = DOMAIN fileList
           /\ \A q \in DOMAIN fileList : /\ fileList'[q].camera = fileList[q].camera
                                        /\ fileList'[q].photo = fileList[q].photo
<1> DEFINE painted == [fileList[r] EXCEPT !.thumb = TRUE]
<1>1. fileList[r] \in Items
  OBVIOUS
<1>2. painted \in Items /\ painted.camera = fileList[r].camera /\ painted.photo = fileList[r].photo
  BY <1>1 DEF Items
<1>3. fileList' = fileList \/ fileList' = [fileList EXCEPT ![r] = painted]
  BY DEF PaintThumbnail
<1> HIDE DEF painted
<1> QED
  BY <1>2, <1>3

(* A photo is appended behind the others. *)
LEMMA PhotoAppended ==
    ASSUME fileList \in Seq(Items), fill \in Cameras \union {NoCamera}, AppendPhoto
    PROVE  /\ fileList' \in Seq(Items)
           /\ DOMAIN fileList' = DOMAIN fileList \union {Len(fileList) + 1}
           /\ \A q \in DOMAIN fileList : fileList'[q] = fileList[q]
           /\ fileList'[Len(fileList) + 1].camera = fill
           /\ fileList'[Len(fileList) + 1].photo[2] = Len(fileList) + 1
<1> DEFINE k == Len(fileList) + 1
           new == Item(fill, k)
<1>1. fill \in Cameras /\ k \in 1..PhotoCount[fill.dev]
  <2>1. fill \in Cameras /\ fill.dev \in Devices
    BY DEF AppendPhoto, Cameras
  <2>2. PhotoCount[fill.dev] \in Nat
    BY <2>1, SessionAssumption
  <2>3. Len(fileList) \in Nat /\ Len(fileList) < PhotoCount[fill.dev]
    BY DEF AppendPhoto
  <2> QED
    BY <2>1, <2>2, <2>3
<1>2. new \in Items
  BY <1>1, ItemType
<1>3. new.camera = fill /\ new.photo[2] = k
  BY DEF Item
<1>4. fileList' = Append(fileList, new)
  BY DEF AppendPhoto
<1> HIDE DEF new
<1> QED
  BY <1>2, <1>3, <1>4

(* What the outcomes of saving a file have in common. *)
LEMMA OutcomeType ==
    ASSUME TypeOK, NEW before \in Contents, NEW after, Outcome(before, after),
           item.photo \in Contents
    PROVE  after \in Contents /\ failures' \in Nat
BY DEF Outcome, TypeOK, Contents

(* Type correctness is kept by every step. *)
LEMMA TypeStep ==
    ASSUME TypeOK, [Next]_vars
    PROVE  TypeOK'
<1> USE DEF contextVars, guiVars, threadVars, GuiFree, UserFree, AtStep, Post
<1>1. CASE Show
  BY <1>1, SessionAssumption DEF Show, TypeOK, Signals
<1>2. CASE CloseWindow
  BY <1>2 DEF CloseWindow, TypeOK
<1>3. CASE CloseWizard
  BY <1>3 DEF CloseWizard, TypeOK
<1>4. CASE CancelDialog
  BY <1>4 DEF CancelDialog, TypeOK
<1>5. ASSUME NEW i \in DOMAIN cameraList, ActivateCamera(i)
      PROVE  TypeOK'
  <2>1. m_current' \in Nat /\ fileList' \in Seq(Items) /\ fill' \in Cameras \union {NoCamera}
    BY <1>5, ChangeType DEF ActivateCamera, TypeOK
  <2> QED
    BY <1>5, <2>1 DEF ActivateCamera, TypeOK
<1>6. ASSUME NEW mode \in {"all", "selected"}, ClickDownload(mode)
      PROVE  TypeOK'
  BY <1>6 DEF ClickDownload, TypeOK
<1>7. ASSUME NEW selected \in SUBSET DOMAIN fileList, AcceptDialog(selected)
      PROVE  TypeOK'
  <2>0. Len(fileList) \in Nat /\ DOMAIN fileList = 1..Len(fileList)
    BY DEF TypeOK
  <2>1. selected \in Rows
    BY <2>0, RowsOfList
  <2>2. connected' \in Seq(Downloaders)
    BY <1>7, <2>1 DEF AcceptDialog, TypeOK, Downloaders
  <2> QED
    BY <1>7, <2>2 DEF AcceptDialog, TypeOK
<1>8. CASE HandleInit
  <2>1. PICK opened \in SUBSET Devices : \E list \in OpenedCameras(opened) :
          /\ cameraList' = list
          /\ IF opened # {} THEN ChangeCurrentCamera(1, list)
                            ELSE UNCHANGED <<m_current, fileList, fill>>
    BY <1>8 DEF HandleInit
  <2>2. PICK list \in OpenedCameras(opened) :
          /\ cameraList' = list
          /\ IF opened # {} THEN ChangeCurrentCamera(1, list)
                            ELSE UNCHANGED <<m_current, fileList, fill>>
    BY <2>1
  <2>3. list \in Seq(Cameras) /\ (opened # {} => 1 \in DOMAIN list)
    BY OpenedType DEF TypeOK
  <2>4. m_current' \in Nat /\ fileList' \in Seq(Items) /\ fill' \in Cameras \union {NoCamera}
    BY <2>2, <2>3, ChangeType DEF TypeOK
  <2> QED
    BY <1>8, <2>2, <2>3, <2>4 DEF HandleInit, TypeOK
<1>9. CASE HandleStarted \/ HandleProgress \/ HandleFinished
  <2>1. events \in Seq(Signals) /\ events # << >> /\ bar \in Bars
    BY <1>9 DEF HandleStarted, HandleProgress, HandleFinished, TypeOK
  <2>2. Tail(events) \in Seq(Signals) /\ Head(events) \in Signals
    BY <2>1
  <2>3. bar' \in Bars
    <3>1. Head(events).n \in Nat
      BY <2>2 DEF Signals
    <3>2. CASE HandleStarted
      BY <2>1, <3>1, <3>2 DEF HandleStarted, Bars
    <3>3. CASE HandleProgress
      BY <2>1, <3>1, <3>3 DEF HandleProgress, Bars
    <3>4. CASE HandleFinished
      BY <2>1, <3>4 DEF HandleFinished, Bars
    <3> QED
      BY <1>9, <3>2, <3>3, <3>4
  <2> QED
    BY <1>9, <2>2, <2>3 DEF HandleStarted, HandleProgress, HandleFinished, TypeOK
<1>11. CASE AppendPhoto
  <2>1. fileList' \in Seq(Items)
    BY <1>11, PhotoAppended DEF TypeOK
  <2> QED
    BY <1>11, <2>1 DEF AppendPhoto, TypeOK
<1>12. CASE FillList
  <2>1. fill \in Cameras
    BY <1>12 DEF FillList, TypeOK
  <2>2. wizards' \in Seq(Cameras)
    <3>1. wizards \in Seq(Cameras) /\ wizards' \in {wizards, Append(wizards, fill)}
      BY <1>12 DEF FillList, TypeOK
    <3> QED
      BY <2>1, <3>1
  <2> QED
    BY <1>12, <2>2 DEF FillList, TypeOK
<1>13. CASE ThreadJoined
  BY <1>13 DEF ThreadJoined, TypeOK
<1>14. CASE EmitStarted
  BY <1>14 DEF EmitStarted, TypeOK
<1>15. CASE BeginDownload
  <2>1. todo \in Seq(Downloaders) /\ todo # << >> /\ fileList \in Seq(Items) /\ events \in Seq(Signals)
    BY <1>15 DEF BeginDownload, TypeOK
  <2>2. Head(todo).rows \in Rows /\ DOMAIN fileList \in Rows
    <3>1. Head(todo) \in Downloaders /\ Len(fileList) \in Nat /\ DOMAIN fileList = 1..Len(fileList)
      BY <2>1
    <3> QED
      BY <3>1, RowsOfList DEF Downloaders
  <2>3. rows' \in Rows /\ events' = Append(events, [kind |-> "started", n |-> Cardinality(rows')])
    BY <1>15, <2>2 DEF BeginDownload
  <2>4. Cardinality(rows') \in Nat
    BY <2>3, FS_CardinalityType DEF Rows
  <2>5. events' \in Seq(Signals)
    BY <2>1, <2>3, <2>4 DEF Signals
  <2> QED
    BY <1>15, <2>1, <2>3, <2>5 DEF BeginDownload, TypeOK
<1>16. CASE FetchPhoto
  <2>1. Min(rows) \in DOMAIN fileList => fileList[Min(rows)] \in Items
    BY DEF TypeOK
  <2> QED
    BY <1>16, <2>1 DEF FetchPhoto, TypeOK
<1>17. CASE FetchTime
  <2>1. ASSUME Min(rows) \in DOMAIN fileList
        PROVE  TimeOf[fileList[Min(rows)].photo] \in Times \intersect Nat
    <3>1. fileList[Min(rows)] \in Items
      BY <2>1 DEF TypeOK
    <3>2. fileList[Min(rows)].photo \in Photos
      BY <3>1 DEF Items
    <3> QED
      BY <3>2, SessionAssumption DEF Times
  <2> QED
    BY <1>17, <2>1 DEF FetchTime, TypeOK
<1>18. CASE WriteMetadata
  <2>1. item.photo \in Contents /\ files \in [Times -> [txt : Contents, raw : Contents]]
    BY <1>18 DEF WriteMetadata, TypeOK, Items, Contents
  <2>2. files' \in [Times -> [txt : Contents, raw : Contents]] /\ failures' \in Nat
    <3>1. CASE Alive(item.camera)
      <4>1. name \in Times /\ files[name].txt \in Contents
        BY <1>18, <2>1 DEF WriteMetadata, TypeOK
      <4>2. PICK after : /\ Outcome(files[name].txt, after)
                         /\ files' = [files EXCEPT ![name].txt = after]
        BY <1>18, <3>1 DEF WriteMetadata
      <4>3. after \in Contents /\ failures' \in Nat
        BY <2>1, <4>1, <4>2, OutcomeType
      <4> QED
        BY <2>1, <4>1, <4>2, <4>3
    <3>2. CASE ~Alive(item.camera)
      BY <1>18, <2>1, <3>2 DEF WriteMetadata, TypeOK
    <3> QED
      BY <3>1, <3>2
  <2> QED
    BY <1>18, <2>2 DEF WriteMetadata, TypeOK
<1>19. CASE WriteImage
  <2>1. rows' \in Rows
    BY <1>19, FewerRows DEF WriteImage, TypeOK
  <2>2. item.photo \in Contents /\ files \in [Times -> [txt : Contents, raw : Contents]]
    BY <1>19 DEF WriteImage, TypeOK, Items, Contents
  <2>3. files' \in [Times -> [txt : Contents, raw : Contents]] /\ failures' \in Nat
    <3>1. CASE Alive(item.camera)
      <4>1. name \in Times /\ files[name].raw \in Contents
        BY <1>19, <2>2 DEF WriteImage, TypeOK
      <4>2. PICK after : /\ Outcome(files[name].raw, after)
                         /\ files' = [files EXCEPT ![name].raw = after]
        BY <1>19, <3>1 DEF WriteImage
      <4>3. after \in Contents /\ failures' \in Nat
        BY <2>2, <4>1, <4>2, OutcomeType
      <4> QED
        BY <2>2, <4>1, <4>2, <4>3
    <3>2. CASE ~Alive(item.camera)
      BY <1>19, <2>2, <3>2 DEF WriteImage, TypeOK
    <3> QED
      BY <3>1, <3>2
  <2>4. count' \in Nat /\ events' \in Seq(Signals)
    <3>1. count \in Nat /\ events \in Seq(Signals)
      BY DEF TypeOK
    <3>2. [kind |-> "progress", n |-> count + 1] \in Signals
      BY <3>1 DEF Signals
    <3>3. \/ UNCHANGED <<count, events>>
          \/ count' = count + 1 /\ events' = Append(events, [kind |-> "progress", n |-> count + 1])
      BY <1>19 DEF WriteImage
    <3> QED
      BY <3>1, <3>2, <3>3, SMTT(40)
  <2> QED
    BY <1>19, <2>1, <2>3, <2>4 DEF WriteImage, TypeOK
<1>20. CASE EndDownload
  <2>1. todo \in Seq(Downloaders) /\ todo # << >> /\ events \in Seq(Signals)
    BY <1>20 DEF EndDownload, TypeOK
  <2>2. Tail(todo) \in Seq(Downloaders) /\ events' \in Seq(Signals)
    BY <1>20, <2>1 DEF EndDownload, Signals
  <2> QED
    BY <1>20, <2>2 DEF EndDownload, TypeOK
<1>21. CASE EnterLoop
  BY <1>21 DEF EnterLoop, TypeOK
<1>22. ASSUME NEW r \in DOMAIN fileList, PaintThumbnail(r)
       PROVE  TypeOK'
  <2>1. fileList' \in Seq(Items)
    BY <1>22, Painted DEF TypeOK
  <2> QED
    BY <1>22, <2>1 DEF PaintThumbnail, TypeOK
<1>23. CASE UNCHANGED vars
  BY <1>23 DEF vars, TypeOK
<1> QED
  BY <1>1, <1>2, <1>3, <1>4, <1>5, <1>6, <1>7, <1>8, <1>9, <1>11, <1>12, <1>13, <1>14, <1>15,
     <1>16, <1>17, <1>18, <1>19, <1>20, <1>21, <1>22, <1>23
     DEF Next, UserAction, GuiStep, DownloadStep

(* Nothing but the download thread moves the download. *)
LEMMA OtherThread ==
    ASSUME [Next]_vars, ~BeginDownload, ~FetchPhoto, ~FetchTime, ~WriteMetadata, ~WriteImage,
           ~EndDownload
    PROVE  UNCHANGED <<step, rows, count, item, name, files, failures, completed>>
<1> USE DEF contextVars, guiVars, threadVars
<1>1. CASE UserAction
  BY <1>1 DEF UserAction, Show, CloseWindow, CloseWizard, CancelDialog, ActivateCamera,
              ClickDownload, AcceptDialog
<1>2. CASE GuiStep
  BY <1>2 DEF GuiStep, HandleInit, HandleStarted, HandleProgress, HandleFinished, AppendPhoto,
              FillList, ThreadJoined
<1>3. CASE EmitStarted \/ EnterLoop \/ (\E r \in DOMAIN fileList : PaintThumbnail(r)) \/ UNCHANGED vars
  BY <1>3 DEF EmitStarted, EnterLoop, PaintThumbnail, vars
<1> QED
  BY <1>1, <1>2, <1>3 DEF Next, DownloadStep

(* A failed open or write breaks one pair at most. *)
LEMMA BrokenStep ==
    ASSUME TypeOK, PairInv,
           \/ Broken' \subseteq Broken /\ failures' = failures
           \/ Broken' \subseteq Broken \union {name} /\ failures' = failures + 1
    PROVE  PairInv'
<1>1. /\ IsFiniteSet(Broken) /\ Cardinality(Broken) \in Nat
      /\ failures \in Nat /\ Cardinality(Broken) <= failures
  BY FS_CardinalityType DEF PairInv, TypeOK
<1>2. CASE Broken' \subseteq Broken /\ failures' = failures
  <2>1. IsFiniteSet(Broken') /\ Cardinality(Broken') \in Nat /\ Cardinality(Broken') <= Cardinality(Broken)
    BY <1>1, <1>2, FS_Subset, FS_CardinalityType
  <2> QED
    BY <1>1, <1>2, <2>1 DEF PairInv
<1>3. CASE Broken' \subseteq Broken \union {name} /\ failures' = failures + 1
  <2>1. /\ IsFiniteSet(Broken \union {name})
        /\ \/ Cardinality(Broken \union {name}) = Cardinality(Broken)
           \/ Cardinality(Broken \union {name}) = Cardinality(Broken) + 1
    BY <1>1, FS_AddElement
  <2>2. /\ IsFiniteSet(Broken') /\ Cardinality(Broken') \in Nat
        /\ Cardinality(Broken') <= Cardinality(Broken \union {name})
    BY <1>3, <2>1, FS_Subset, FS_CardinalityType
  <2> QED
    BY <1>1, <1>3, <2>1, <2>2 DEF PairInv
<1> QED
  BY <1>2, <1>3

(* Whatever happens to the photo list: the two files written for one name  *)
(* hold the same photo, once both are written.                             *)
LEMMA PairStep ==
    ASSUME TypeOK, PairInv, [Next]_vars
    PROVE  PairInv'
<1> USE DEF contextVars, guiVars, threadVars
<1>1. CASE WriteMetadata /\ Alive(item.camera)
  <2>1. /\ files \in [Times -> [txt : Contents, raw : Contents]] /\ name \in Times
        /\ step = "txt" /\ step' = "raw" /\ UNCHANGED <<name, item>>
    BY <1>1 DEF TypeOK, WriteMetadata, AtStep
  <2>2. PICK after : /\ Outcome(files[name].txt, after)
                     /\ files' = [files EXCEPT ![name].txt = after]
    BY <1>1 DEF WriteMetadata
  <2>3. \A t \in Times : t # name => files'[t] = files[t]
    BY <2>1, <2>2
  <2>4. files'[name].txt = after
    BY <2>1, <2>2
  <2>5. Broken' \subseteq Broken \union {name}
    BY <2>1, <2>3 DEF Broken
  <2>6. after = item.photo => Broken' \subseteq Broken
    BY <2>1, <2>3, <2>4 DEF Broken
  <2> QED
    BY <2>2, <2>5, <2>6, BrokenStep DEF Outcome
<1>2. CASE WriteImage /\ Alive(item.camera)
  <2>1. /\ files \in [Times -> [txt : Contents, raw : Contents]] /\ name \in Times
        /\ step = "raw" /\ step' = "photo" /\ UNCHANGED name
    BY <1>2 DEF TypeOK, WriteImage, AtStep
  <2>2. PICK after : /\ Outcome(files[name].raw, after)
                     /\ files' = [files EXCEPT ![name].raw = after]
    BY <1>2 DEF WriteImage
  <2>3. \A t \in Times : t # name => files'[t] = files[t]
    BY <2>1, <2>2
  <2>4. files'[name].raw = after /\ files'[name].txt = files[name].txt
    BY <2>1, <2>2
  <2>5. Broken' \subseteq Broken \union {name}
    BY <2>1, <2>3 DEF Broken
  <2>6. after = item.photo => Broken' \subseteq Broken
    BY <2>1, <2>3, <2>4 DEF Broken
  <2> QED
    BY <2>2, <2>5, <2>6, BrokenStep DEF Outcome
<1>3. ASSUME UNCHANGED <<files, failures, item, step, name>>
      PROVE  PairInv'
  <2>1. Broken' = Broken
    BY <1>3 DEF Broken
  <2> QED
    BY <1>3, <2>1, BrokenStep
<1>4. ASSUME UNCHANGED <<files, failures>>, step # "raw", step' # "raw"
      PROVE  PairInv'
  <2>1. Broken' = Broken
    BY <1>4 DEF Broken
  <2> QED
    BY <1>4, <2>1, BrokenStep
<1>5. CASE \/ WriteMetadata /\ ~Alive(item.camera)
           \/ WriteImage /\ ~Alive(item.camera)
  <2>1. UNCHANGED <<files, failures, item, step, name>>
    BY <1>5 DEF WriteMetadata, WriteImage
  <2> QED
    BY <1>3, <2>1
<1>6. CASE BeginDownload \/ FetchPhoto \/ FetchTime \/ EndDownload
  <2>1. UNCHANGED <<files, failures>> /\ step # "raw" /\ step' # "raw"
    BY <1>6 DEF BeginDownload, FetchPhoto, FetchTime, EndDownload, AtStep
  <2> QED
    BY <1>4, <2>1
<1> QED
  BY <1>1, <1>2, <1>3, <1>5, <1>6, OtherThread

-----------------------------------------------------------------------------
(* The queue of signals. *)

(* A signal that is appended is the last of its kind, and changes nothing  *)
(* for other kinds.                                                        *)
LEMMA Appended ==
    ASSUME events \in Seq(Signals), NEW e \in Signals, events' = Append(events, e), NEW K
    PROVE  /\ e.kind \in K => /\ ~Handled(K)'
                              /\ \A k \in DOMAIN events' : IsLast(k, K)' => events'[k] = e
           /\ e.kind \notin K =>
                 /\ Handled(K)' => Handled(K)
                 /\ \A k \in DOMAIN events' : IsLast(k, K)' =>
                       k \in DOMAIN events /\ IsLast(k, K) /\ events'[k] = events[k]
<1>1. /\ DOMAIN events' = 1..(Len(events) + 1) /\ DOMAIN events = 1..Len(events) /\ Len(events) \in Nat
      /\ events'[Len(events) + 1] = e
      /\ \A k \in 1..Len(events) : events'[k] = events[k]
  OBVIOUS
<1> QED
  BY <1>1 DEF Handled, IsLast, IsKind

(* Taking a signal off the queue moves the others up. *)
LEMMA Taken ==
    ASSUME events \in Seq(Signals), events # << >>, events' = Tail(events), NEW K
    PROVE  /\ Handled(K)' => Handled(K) \/ IsLast(1, K)
           /\ \A k \in DOMAIN events' : IsLast(k, K)' =>
                 k + 1 \in DOMAIN events /\ IsLast(k + 1, K) /\ events'[k] = events[k + 1]
           /\ 1 \in DOMAIN events /\ events[1] = Head(events)
<1>1. /\ DOMAIN events' = 1..(Len(events) - 1) /\ DOMAIN events = 1..Len(events)
      /\ Len(events) \in Nat /\ Len(events) > 0
      /\ \A k \in DOMAIN events' : events'[k] = events[k + 1]
      /\ events[1] = Head(events)
  OBVIOUS
<1>2. ASSUME Handled(K)' PROVE Handled(K) \/ IsLast(1, K)
  <2>1. \A k \in DOMAIN events : k > 1 => events[k].kind \notin K
    <3> SUFFICES ASSUME NEW k \in DOMAIN events, k > 1
                 PROVE  events[k].kind \notin K
      OBVIOUS
    <3>1. k - 1 \in DOMAIN events' /\ events'[k - 1] = events[k]
      BY <1>1
    <3> QED
      BY <1>2, <3>1 DEF Handled, IsKind
  <2> QED
    BY <1>1, <2>1 DEF Handled, IsLast, IsKind
<1>3. ASSUME NEW k \in DOMAIN events', IsLast(k, K)'
      PROVE  k + 1 \in DOMAIN events /\ IsLast(k + 1, K) /\ events'[k] = events[k + 1]
  <2>1. k + 1 \in DOMAIN events /\ events'[k] = events[k + 1] /\ events'[k].kind \in K
    BY <1>1, <1>3 DEF IsLast, IsKind
  <2>2. \A j \in DOMAIN events : j > k + 1 => events[j].kind \notin K
    <3> SUFFICES ASSUME NEW j \in DOMAIN events, j > k + 1
                 PROVE  events[j].kind \notin K
      OBVIOUS
    <3>1. j - 1 \in DOMAIN events' /\ j - 1 > k /\ events'[j - 1] = events[j]
      BY <1>1
    <3> QED
      BY <1>3, <3>1 DEF IsLast, IsKind
  <2> QED
    BY <2>1, <2>2 DEF IsLast, IsKind
<1> QED
  BY <1>1, <1>2, <1>3

(* Of the kinds that are queued there is a last one. *)
LEMMA LastOfKinds ==
    ASSUME events \in Seq(Signals), NEW K, ~Handled(K)
    PROVE  \E k \in DOMAIN events : IsLast(k, K)
<1> DEFINE Places == {k \in DOMAIN events : events[k].kind \in K}
           Behind == {Len(events) - k : k \in Places}
<1>1. DOMAIN events = 1..Len(events) /\ Len(events) \in Nat /\ Places # {}
  BY DEF Handled, IsKind
<1>2. Behind \in SUBSET Nat /\ Behind # {}
  BY <1>1
<1>3. Min(Behind) \in Behind /\ \A b \in Behind : Min(Behind) <= b
  BY <1>2, MinRow
<1>4. PICK k \in Places : \A b \in Behind : Len(events) - k <= b
  BY <1>3
<1>5. \A j \in Places : j <= k
  <2> SUFFICES ASSUME NEW j \in Places PROVE j <= k
    OBVIOUS
  <2>1. Len(events) - k <= Len(events) - j
    BY <1>4
  <2> QED
    BY <1>1, <2>1
<1> QED
  BY <1>1, <1>5 DEF IsLast, IsKind

(* A signal the form does not listen to leaves its part of the queue. *)
LEMMA OtherSignal ==
    ASSUME TypeOK, FormInv, UNCHANGED <<buttons, bar, step, count, rows, completed>>,
           \/ events' = events
           \/ events' = Append(events, [kind |-> "init", n |-> 0])
           \/ events # << >> /\ Head(events).kind = "init" /\ events' = Tail(events)
    PROVE  FormInv'
<1>1. events \in Seq(Signals) /\ [kind |-> "init", n |-> 0] \in Signals
  BY DEF TypeOK, Signals
<1>2. ASSUME NEW K \in {{"started", "finished"}, {"started"}, {"started", "progress"}}
      PROVE  /\ Handled(K)' => Handled(K)
             /\ \A k \in DOMAIN events' : IsLast(k, K)' =>
                   \E j \in DOMAIN events : IsLast(j, K) /\ events'[k] = events[j]
  <2>1. "init" \notin K
    OBVIOUS
  <2>2. CASE events' = events
    BY <2>2 DEF Handled, IsLast, IsKind
  <2>3. CASE events' = Append(events, [kind |-> "init", n |-> 0])
    BY <1>1, <2>1, <2>3, Appended
  <2>4. CASE events # << >> /\ Head(events).kind = "init" /\ events' = Tail(events)
    <3>1. ~IsLast(1, K)
      BY <1>1, <2>1, <2>4 DEF IsLast, IsKind
    <3> QED
      BY <1>1, <2>4, <3>1, Taken
  <2> QED
    BY <2>2, <2>3, <2>4
<1>3. ButtonInv'
  BY <1>2 DEF FormInv, ButtonInv, Downloading
<1>4. RangeInv'
  BY <1>2 DEF FormInv, RangeInv, Begun, Downloading, Total
<1>5. ValueInv'
  BY <1>2 DEF FormInv, ValueInv, Begun, Downloading
<1> QED
  BY <1>3, <1>4, <1>5 DEF FormInv, RestInv

(* The form handles the signals in the order of the download thread. *)
LEMMA FormHandles ==
    ASSUME TypeOK, FormInv, HandleStarted \/ HandleProgress \/ HandleFinished
    PROVE  FormInv'
<1>1. /\ events \in Seq(Signals) /\ events # << >> /\ events' = Tail(events)
      /\ bar \in Bars /\ count \in Nat
      /\ UNCHANGED <<step, count, rows, completed>>
  BY DEF TypeOK, HandleStarted, HandleProgress, HandleFinished, threadVars
<1>2. ASSUME NEW K
      PROVE  /\ Handled(K)' => Handled(K) \/ IsLast(1, K)
             /\ \A k \in DOMAIN events' : IsLast(k, K)' =>
                   k + 1 \in DOMAIN events /\ IsLast(k + 1, K) /\ events'[k] = events[k + 1]
  BY <1>1, Taken
<1>3. 1 \in DOMAIN events /\ events[1] = Head(events)
  BY <1>1
<1>4. Cardinality(rows) \in Nat
  BY FS_CardinalityType DEF TypeOK, Rows
<1>5. ButtonInv'
  <2>1. ASSUME Handled({"started", "finished"})'
        PROVE  (buttons' <=> ~Downloading') /\ (bar'.enabled <=> Downloading')
    <3>1. CASE HandleProgress
      <4>1. Handled({"started", "finished"}) /\ UNCHANGED buttons /\ bar'.enabled = bar.enabled
        BY <1>1, <1>2, <1>3, <2>1, <3>1 DEF HandleProgress, IsLast, IsKind, Bars
      <4> QED
        BY <1>1, <4>1 DEF FormInv, ButtonInv, Downloading
    <3>2. CASE HandleStarted
      <4>1. IsLast(1, {"started", "finished"}) /\ events[1].kind = "started"
        BY <1>2, <1>3, <2>1, <3>2 DEF HandleStarted, Handled, IsKind
      <4>2. Downloading
        BY <1>3, <4>1 DEF FormInv, ButtonInv
      <4> QED
        BY <1>1, <3>2, <4>2 DEF HandleStarted, Downloading
    <3>3. CASE HandleFinished
      <4>1. IsLast(1, {"started", "finished"}) /\ events[1].kind = "finished"
        BY <1>2, <1>3, <2>1, <3>3 DEF HandleFinished, Handled, IsKind
      <4>2. ~Downloading
        BY <1>3, <4>1 DEF FormInv, ButtonInv
      <4> QED
        BY <1>1, <3>3, <4>2 DEF HandleFinished, Downloading, Bars
    <3> QED
      BY <3>1, <3>2, <3>3
  <2> QED
    BY <1>1, <1>2, <2>1 DEF FormInv, ButtonInv, Downloading
<1>6. RangeInv'
  <2>1. ASSUME Begun, Handled({"started"})'
        PROVE  bar'.max = Total
    <3>1. CASE HandleStarted
      <4>1. IsLast(1, {"started"})
        BY <1>2, <1>3, <2>1, <3>1 DEF HandleStarted, Handled, IsKind
      <4>2. bar'.max = events[1].n
        BY <1>3, <3>1 DEF HandleStarted
      <4> QED
        BY <1>3, <2>1, <4>1, <4>2 DEF FormInv, RangeInv
    <3>2. CASE HandleProgress \/ HandleFinished
      <4>1. Handled({"started"}) /\ bar'.max = bar.max
        BY <1>1, <1>2, <1>3, <2>1, <3>2 DEF HandleProgress, HandleFinished, IsLast, IsKind, Bars
      <4> QED
        BY <2>1, <4>1 DEF FormInv, RangeInv
    <3> QED
      BY <3>1, <3>2
  <2> QED
    BY <1>1, <1>2, <2>1 DEF FormInv, RangeInv, Begun, Downloading, Total
<1>7. ValueInv'
  <2>1. ASSUME Begun, count > 0, Handled({"started", "progress"})'
        PROVE  bar'.value = count
    <3>1. CASE HandleStarted
      <4>1. IsLast(1, {"started", "progress"}) /\ events[1].kind = "started"
        BY <1>2, <1>3, <2>1, <3>1 DEF HandleStarted, Handled, IsKind
      <4> QED
        BY <1>3, <2>1, <4>1 DEF FormInv, ValueInv
    <3>2. CASE HandleProgress
      <4>1. IsLast(1, {"started", "progress"}) /\ Handled({"started"})
        BY <1>2, <1>3, <2>1, <3>2, ZenonT(60) DEF HandleProgress, Handled, IsLast, IsKind
      <4>2. events[1].n = count /\ bar.max = Total
        BY <1>3, <2>1, <4>1 DEF FormInv, ValueInv, RangeInv
      <4>3. count <= Total
        BY <1>1, <1>4 DEF Total
      <4> QED
        BY <1>1, <1>3, <3>2, <4>2, <4>3 DEF HandleProgress, Bars
    <3>3. CASE HandleFinished
      <4>1. Handled({"started", "progress"}) /\ bar'.value = bar.value
        BY <1>1, <1>2, <1>3, <2>1, <3>3 DEF HandleFinished, IsLast, IsKind, Bars
      <4> QED
        BY <2>1, <4>1 DEF FormInv, ValueInv
    <3> QED
      BY <3>1, <3>2, <3>3
  <2> QED
    BY <1>1, <1>2, <2>1 DEF FormInv, ValueInv, Begun, Downloading
<1> QED
  BY <1>1, <1>5, <1>6, <1>7 DEF FormInv, RestInv

(* The download thread signals what it has done. *)
LEMMA FormSignals ==
    ASSUME TypeOK, TypeOK', FormInv, BeginDownload \/ WriteImage \/ EndDownload
    PROVE  FormInv'
<1>1. events \in Seq(Signals) /\ count \in Nat /\ rows \in Rows /\ completed \in Nat
  BY DEF TypeOK
<1>2. Cardinality(rows) \in Nat /\ Cardinality(rows') \in Nat
  BY FS_CardinalityType DEF TypeOK, Rows
<1>3. CASE BeginDownload
  <2> DEFINE e == [kind |-> "started", n |-> Cardinality(rows')]
  <2>1. /\ events' = Append(events, e) /\ e \in Signals
        /\ count' = 0 /\ step' = "photo" /\ UNCHANGED <<buttons, bar, completed>>
    BY <1>2, <1>3 DEF BeginDownload, Post, guiVars, Signals
  <2>2. ASSUME NEW K \in {{"started", "finished"}, {"started"}, {"started", "progress"}}
        PROVE  ~Handled(K)' /\ \A k \in DOMAIN events' : IsLast(k, K)' => events'[k] = e
    BY <1>1, <2>1, Appended
  <2> QED
    BY <1>2, <2>1, <2>2 DEF FormInv, ButtonInv, RangeInv, ValueInv, RestInv, Begun, Downloading, Total
<1>4. CASE WriteImage
  <2>1. CASE ~Alive(item.camera)
    <3>1. UNCHANGED <<events, buttons, bar, step, count, rows, completed>>
      BY <1>4, <2>1 DEF WriteImage, guiVars
    <3> QED
      BY <3>1, OtherSignal
  <2>2. CASE Alive(item.camera)
    <3> DEFINE e == [kind |-> "progress", n |-> count + 1]
    <3>1. /\ events' = Append(events, e) /\ e \in Signals
          /\ count' = count + 1 /\ step = "raw" /\ step' = "photo" /\ rows' = rows \ {Min(rows)}
          /\ UNCHANGED <<buttons, bar, completed>>
      BY <1>1, <1>4, <2>2 DEF WriteImage, AtStep, Post, guiVars, Signals
    <3>2. ASSUME NEW K \in {{"started", "finished"}, {"started"}}
          PROVE  /\ Handled(K)' => Handled(K)
                 /\ \A k \in DOMAIN events' : IsLast(k, K)' =>
                       k \in DOMAIN events /\ IsLast(k, K) /\ events'[k] = events[k]
      <4>1. e.kind \notin K
        OBVIOUS
      <4> QED
        BY <1>1, <3>1, <4>1, Appended
    <3>3. /\ ~Handled({"started", "progress"})'
          /\ \A k \in DOMAIN events' : IsLast(k, {"started", "progress"})' => events'[k] = e
      BY <1>1, <3>1, Appended
    <3>4. Total' = Total
      <4>1. rows # {}
        BY <3>1 DEF TypeOK
      <4>2. Cardinality(rows') = Cardinality(rows) - 1
        BY <1>1, <3>1, <4>1, FewerRows
      <4> QED
        BY <1>1, <1>2, <3>1, <4>2 DEF Total
    <3>5. ButtonInv'
      BY <3>1, <3>2 DEF FormInv, ButtonInv, Downloading
    <3>6. RangeInv'
      BY <3>1, <3>2, <3>4 DEF FormInv, RangeInv, Begun, Downloading
    <3>7. ValueInv'
      BY <3>1, <3>3 DEF ValueInv
    <3> QED
      BY <3>1, <3>5, <3>6, <3>7 DEF FormInv, RestInv
  <2> QED
    BY <2>1, <2>2
<1>5. CASE EndDownload
  <2> DEFINE e == [kind |-> "finished", n |-> 0]
  <2>1. /\ events' = Append(events, e) /\ e \in Signals
        /\ completed' = completed + 1 /\ step = "photo" /\ step' = "begin" /\ rows = {}
        /\ UNCHANGED <<buttons, bar, count, rows>>
    BY <1>5 DEF EndDownload, AtStep, Post, guiVars, Signals
  <2>2. ASSUME NEW K \in {{"started"}, {"started", "progress"}}
        PROVE  /\ Handled(K)' => Handled(K)
               /\ \A k \in DOMAIN events' : IsLast(k, K)' =>
                     k \in DOMAIN events /\ IsLast(k, K) /\ events'[k] = events[k]
    <3>1. e.kind \notin K
      OBVIOUS
    <3> QED
      BY <1>1, <2>1, <3>1, Appended
  <2>3. /\ ~Handled({"started", "finished"})'
        /\ \A k \in DOMAIN events' : IsLast(k, {"started", "finished"})' => events'[k] = e
    BY <1>1, <2>1, Appended
  <2>4. ButtonInv'
    BY <2>1, <2>3 DEF ButtonInv, Downloading
  <2>5. RangeInv'
    BY <2>1, <2>2 DEF FormInv, RangeInv, Begun, Downloading, Total
  <2>6. ValueInv'
    BY <2>1, <2>2 DEF FormInv, ValueInv, Begun, Downloading
  <2> QED
    BY <2>1, <2>4, <2>5, <2>6 DEF FormInv, RestInv
<1> QED
  BY <1>3, <1>4, <1>5

(* Every step keeps the form in agreement with the download thread. *)
LEMMA FormStep ==
    ASSUME TypeOK, TypeOK', FormInv, [Next]_vars
    PROVE  FormInv'
<1> USE DEF contextVars, guiVars, threadVars
<1>1. CASE Show \/ HandleInit
  BY <1>1, OtherSignal DEF Show, HandleInit
<1>2. CASE HandleStarted \/ HandleProgress \/ HandleFinished
  BY <1>2, FormHandles
<1>3. CASE BeginDownload \/ WriteImage \/ EndDownload
  BY <1>3, FormSignals
<1>4. CASE FetchPhoto \/ FetchTime \/ WriteMetadata
  <2>1. UNCHANGED <<events, buttons, bar, count, rows, completed>> /\ Downloading /\ Downloading'
    BY <1>4 DEF FetchPhoto, FetchTime, WriteMetadata, AtStep, Downloading
  <2> QED
    BY <2>1 DEF FormInv, ButtonInv, RangeInv, ValueInv, RestInv, Begun, Downloading, Total,
                Handled, IsLast, IsKind
<1>5. CASE CloseWindow \/ CloseWizard \/ CancelDialog \/ AppendPhoto \/ FillList \/ ThreadJoined
           \/ EmitStarted \/ EnterLoop \/ UNCHANGED vars
  BY <1>5, OtherSignal DEF CloseWindow, CloseWizard, CancelDialog, AppendPhoto, FillList,
                           ThreadJoined, EmitStarted, EnterLoop, vars
<1>6. ASSUME NEW i, ActivateCamera(i) PROVE FormInv'
  BY <1>6, OtherSignal DEF ActivateCamera
<1>7. ASSUME NEW mode, ClickDownload(mode) PROVE FormInv'
  BY <1>7, OtherSignal DEF ClickDownload
<1>8. ASSUME NEW selected, AcceptDialog(selected) PROVE FormInv'
  BY <1>8, OtherSignal DEF AcceptDialog
<1>9. ASSUME NEW r, PaintThumbnail(r) PROVE FormInv'
  BY <1>9, OtherSignal DEF PaintThumbnail
<1> QED
  BY <1>1, <1>2, <1>3, <1>4, <1>5, <1>6, <1>7, <1>8, <1>9 DEF Next, UserAction, GuiStep, DownloadStep

-----------------------------------------------------------------------------
(* Sessions in which the window is shown once. *)

(* Building the camera list when nothing refers to a camera yet. *)
LEMMA OnceInit ==
    ASSUME TypeOK, TypeOK', OnceInv, HandleInit
    PROVE  /\ OnceInv'
           /\ gen = 0 /\ fileList = << >> /\ fileList' = << >> /\ wizards = << >>
           /\ fill = NoCamera /\ ~Fetching
<1>1. /\ events \in Seq(Signals) /\ events # << >> /\ Head(events).kind = "init"
      /\ events' = Tail(events) /\ gen' = gen + 1
      /\ UNCHANGED <<shows, wizards, item, step>>
  BY DEF TypeOK, HandleInit, guiVars, threadVars
<1>2. 1 \in DOMAIN events /\ IsKind(1, {"init"})
  BY <1>1 DEF IsKind
<1>3. gen = 0 /\ shows # 0
  BY <1>2 DEF OnceInv, InitInv, Handled
<1>4. wizards = << >> /\ fileList = << >> /\ fill = NoCamera /\ ~Fetching
  <2>1. \A c \in Cameras : ~Alive(c)
    BY <1>3 DEF Alive, Cameras
  <2>2. DOMAIN wizards = {} /\ DOMAIN fileList = {}
    <3>0. wizards \in Seq(Cameras) /\ fileList \in Seq(Items)
      BY DEF TypeOK
    <3>1. \A i \in DOMAIN wizards : wizards[i] \in Cameras
      BY <3>0
    <3>2. \A i \in DOMAIN fileList : fileList[i] \in Items
      BY <3>0
    <3>3. \A i \in DOMAIN fileList : fileList[i].camera \in Cameras
      BY <3>2 DEF Items
    <3> QED
      BY <2>1, <3>1, <3>3 DEF OnceInv, RefInv, PointersValid
  <2>3. fill = NoCamera /\ ~Fetching
    BY <2>1 DEF OnceInv, RefInv, TypeOK, Items, Fetching
  <2> QED
    BY <2>2, <2>3 DEF TypeOK
<1>5. Handled({"init"})'
  <2> SUFFICES ASSUME NEW k \in DOMAIN events', events'[k].kind = "init"
               PROVE  FALSE
    BY DEF Handled, IsKind
  <2>1. k + 1 \in DOMAIN events /\ events[k + 1].kind = "init" /\ k + 1 # 1
    BY <1>1
  <2> QED
    BY <1>2, <2>1 DEF OnceInv, InitInv, IsKind
<1>6. PICK opened \in SUBSET Devices : \E list \in OpenedCameras(opened) :
         /\ cameraList' = list
         /\ IF opened # {} THEN ChangeCurrentCamera(1, list)
                           ELSE UNCHANGED <<m_current, fileList, fill>>
  BY DEF HandleInit
<1>7. PICK list \in OpenedCameras(opened) :
         /\ cameraList' = list
         /\ IF opened # {} THEN ChangeCurrentCamera(1, list)
                           ELSE UNCHANGED <<m_current, fileList, fill>>
  BY <1>6
<1>8. (opened # {} => 1 \in DOMAIN list) /\ \A i \in DOMAIN list : list[i].gen = gen'
  BY <1>1, OpenedType DEF TypeOK
<1>9. fileList' = << >> /\ (fill' = NoCamera \/ fill'.gen = gen')
  BY <1>4, <1>7, <1>8 DEF ChangeCurrentCamera
<1> QED
  BY <1>1, <1>3, <1>4, <1>5, <1>7, <1>8, <1>9
     DEF OnceInv, InitInv, RefInv, PointersValid, Alive, Fetching, Handled, IsKind

(* The other signals do not matter for the camera list. *)
LEMMA InitKept ==
    ASSUME TypeOK, InitInv, UNCHANGED <<gen, shows>>,
           \/ events' = events
           \/ \E e \in Signals : e.kind # "init" /\ events' = Append(events, e)
           \/ events # << >> /\ events' = Tail(events)
    PROVE  InitInv'
<1>0. events \in Seq(Signals)
  BY DEF TypeOK
<1>1. CASE events' = events
  BY <1>1 DEF InitInv, Handled, IsKind
<1>2. ASSUME NEW e \in Signals, e.kind # "init", events' = Append(events, e)
      PROVE  InitInv'
  <2>1. \A k \in DOMAIN events' : IsKind(k, {"init"})' => k \in DOMAIN events /\ IsKind(k, {"init"})
    BY <1>0, <1>2 DEF IsKind
  <2> QED
    BY <2>1 DEF InitInv, Handled
<1>3. CASE events # << >> /\ events' = Tail(events)
  <2>1. \A k \in DOMAIN events' : IsKind(k, {"init"})' => k + 1 \in DOMAIN events /\ IsKind(k + 1, {"init"})
    BY <1>0, <1>3 DEF IsKind
  <2>2. \A k \in DOMAIN events' : k \in Nat
    BY <1>0, <1>3
  <2> QED
    BY <2>1, <2>2 DEF InitInv, Handled
<1> QED
  BY <1>1, <1>2, <1>3

(* All cameras the session refers to stay in the camera list. *)
LEMMA OnceStep ==
    ASSUME MaxShows <= 1, TypeOK, TypeOK', OnceInv, [Next]_vars
    PROVE  OnceInv'
<1> USE DEF contextVars, guiVars, threadVars
<1>1. CASE Show
  <2>1. shows = 0 /\ shows' = 1 /\ gen = 0 /\ Handled({"init"}) /\ events \in Seq(Signals)
    BY <1>1, SessionAssumption DEF Show, TypeOK, OnceInv, InitInv
  <2>2. /\ UNCHANGED <<gen, cameraList, fileList, fill, wizards, step, item>>
        /\ events' = Append(events, [kind |-> "init", n |-> 0])
    BY <1>1 DEF Show
  <2>3. \A j \in DOMAIN events' : IsKind(j, {"init"})' => j = Len(events) + 1
    BY <2>1, <2>2 DEF Handled, IsKind
  <2>4. InitInv'
    BY <2>1, <2>2, <2>3 DEF InitInv
  <2> QED
    BY <2>2, <2>4 DEF OnceInv, RefInv, PointersValid, Alive, Fetching
<1>2. CASE HandleInit
  BY <1>2, OnceInit
<1>3. InitInv' \/ Show \/ HandleInit
  <2>1. CASE BeginDownload \/ WriteImage \/ EndDownload
    <3>1. UNCHANGED <<gen, shows>>
      BY <2>1 DEF BeginDownload, WriteImage, EndDownload
    <3>2. \/ events' = events
          \/ \E e \in Signals : e.kind # "init" /\ events' = Append(events, e)
      <4>1. CASE BeginDownload
        <5>1. Cardinality(rows') \in Nat
          BY FS_CardinalityType DEF TypeOK, Rows
        <5>2. events' = Append(events, [kind |-> "started", n |-> Cardinality(rows')])
          BY <4>1 DEF BeginDownload, Post
        <5> QED
          BY <5>1, <5>2 DEF Signals
      <4>2. CASE WriteImage
        <5>1. events' = events \/ events' = Append(events, [kind |-> "progress", n |-> count + 1])
          BY <4>2 DEF WriteImage, Post
        <5>2. [kind |-> "progress", n |-> count + 1] \in Signals
          BY DEF Signals, TypeOK
        <5> QED
          BY <5>1, <5>2
      <4>3. CASE EndDownload
        BY <4>3 DEF EndDownload, Post, Signals
      <4> QED
        BY <2>1, <4>1, <4>2, <4>3
    <3> QED
      BY <3>1, <3>2, InitKept DEF OnceInv
  <2>2. CASE HandleStarted \/ HandleProgress \/ HandleFinished
    BY <2>2, InitKept DEF OnceInv, HandleStarted, HandleProgress, HandleFinished
  <2>3. CASE UserAction /\ ~Show
    BY <2>3, InitKept DEF OnceInv, UserAction, CloseWindow, CloseWizard, CancelDialog,
                          ActivateCamera, ClickDownload, AcceptDialog
  <2>4. CASE AppendPhoto \/ FillList \/ ThreadJoined \/ EmitStarted \/ FetchPhoto \/ FetchTime \/ WriteMetadata
             \/ EnterLoop \/ (\E r \in DOMAIN fileList : PaintThumbnail(r)) \/ UNCHANGED vars
    BY <2>4, InitKept DEF OnceInv, AppendPhoto, FillList, ThreadJoined, EmitStarted, FetchPhoto, FetchTime,
                          WriteMetadata, EnterLoop, PaintThumbnail, vars
  <2> QED
    BY <2>1, <2>2, <2>3, <2>4 DEF Next, GuiStep, DownloadStep, UserAction
<1>4. ASSUME ~Show, ~HandleInit
      PROVE  RefInv'
  <2> USE DEF OnceInv, RefInv, PointersValid, Alive, Fetching
  <2>1. ASSUME NEW i \in DOMAIN cameraList, ActivateCamera(i)
        PROVE  RefInv'
    BY <2>1 DEF ActivateCamera, ChangeCurrentCamera
  <2>9. CASE AppendPhoto
    <3>1. /\ Alive(fill) /\ fileList \in Seq(Items) /\ fill \in Cameras \union {NoCamera}
          /\ UNCHANGED <<gen, cameraList, fill, wizards, step, item>>
      BY <2>9 DEF AppendPhoto, TypeOK
    <3>2. /\ DOMAIN fileList' = DOMAIN fileList \union {Len(fileList) + 1}
          /\ \A q \in DOMAIN fileList : fileList'[q] = fileList[q]
          /\ fileList'[Len(fileList) + 1].camera = fill
      BY <2>9, <3>1, PhotoAppended
    <3>3. \A r \in DOMAIN fileList' : Alive(fileList'[r].camera)
      BY <3>1, <3>2
    <3> QED
      BY <3>1, <3>3
  <2>2. CASE FillList
    <3>1. fill # NoCamera /\ fill \in Cameras /\ Alive(fill)
      BY <2>2 DEF FillList, TypeOK
    <3>2. wizards \in Seq(Cameras) /\ wizards' \in {wizards, Append(wizards, fill)}
      BY <2>2 DEF FillList, TypeOK
    <3>3. \A i \in DOMAIN wizards' : Alive(wizards'[i])
      BY <3>1, <3>2
    <3> QED
      BY <2>2, <3>1, <3>3 DEF FillList
  <2>3. CASE CloseWizard
    <3>1. \A i \in DOMAIN wizards' : i \in DOMAIN wizards /\ wizards'[i] = wizards[i]
      BY <2>3 DEF CloseWizard, TypeOK
    <3> QED
      BY <2>3, <3>1 DEF CloseWizard
  <2>4. ASSUME NEW r \in DOMAIN fileList, PaintThumbnail(r)
        PROVE  RefInv'
    <3>1. /\ DOMAIN fileList' = DOMAIN fileList
          /\ \A q \in DOMAIN fileList : fileList'[q].camera = fileList[q].camera
      BY <2>4, Painted DEF TypeOK
    <3> QED
      BY <2>4, <3>1 DEF PaintThumbnail
  <2>5. CASE FetchPhoto
    BY <2>5 DEF FetchPhoto
  <2>6. CASE FetchTime \/ WriteMetadata \/ WriteImage \/ BeginDownload \/ EndDownload
    BY <2>6 DEF FetchTime, WriteMetadata, WriteImage, BeginDownload, EndDownload, AtStep
  <2>7. CASE HandleStarted \/ HandleProgress \/ HandleFinished \/ ThreadJoined \/ EmitStarted \/ EnterLoop
    BY <2>7 DEF HandleStarted, HandleProgress, HandleFinished, ThreadJoined, EmitStarted, EnterLoop
  <2>8. CASE CloseWindow \/ CancelDialog \/ (\E mode \in {"all", "selected"} : ClickDownload(mode))
             \/ (\E selected \in SUBSET DOMAIN fileList : AcceptDialog(selected)) \/ UNCHANGED vars
    BY <2>8 DEF CloseWindow, CancelDialog, ClickDownload, AcceptDialog, vars
  <2> QED
    BY <1>4, <2>1, <2>2, <2>3, <2>4, <2>5, <2>6, <2>7, <2>8, <2>9
       DEF Next, UserAction, GuiStep, DownloadStep
<1> QED
  BY <1>1, <1>2, <1>3, <1>4 DEF OnceInv

-----------------------------------------------------------------------------
(* Sessions with a single camera in which the window is shown once. *)

(* With one camera the photo list is filled at most once, row by row. *)
LEMMA ListStep ==
    ASSUME NEW d, Devices = {d}, TypeOK, TypeOK', OnceInv, ListInv, [Next]_vars
    PROVE  /\ ListInv'
           /\ DOMAIN fileList \subseteq DOMAIN fileList'
           /\ \A r \in DOMAIN fileList : fileList'[r].photo = fileList[r].photo
<1> USE DEF contextVars, guiVars, threadVars
<1>1. CASE HandleInit
  <2>1. /\ fileList = << >> /\ fileList' = << >>
        /\ UNCHANGED <<rows, todo, connected>>
    BY <1>1, OnceInit DEF HandleInit
  <2>2. PICK opened \in SUBSET Devices : \E list \in OpenedCameras(opened) :
           /\ cameraList' = list
           /\ IF opened # {} THEN ChangeCurrentCamera(1, list)
                             ELSE UNCHANGED <<m_current, fileList, fill>>
    BY <1>1 DEF HandleInit
  <2>3. PICK list \in OpenedCameras(opened) :
           /\ cameraList' = list
           /\ IF opened # {} THEN ChangeCurrentCamera(1, list)
                             ELSE UNCHANGED <<m_current, fileList, fill>>
    BY <2>2
  <2>4. list \in Seq(Cameras) /\ Len(list) = Cardinality(opened)
    BY OpenedType DEF TypeOK
  <2>5. CASE opened = {}
    <3>1. Len(list) = 0
      BY <2>4, <2>5, FS_EmptySet
    <3> QED
      BY <2>1, <2>3, <2>4, <2>5, <3>1 DEF ListInv
  <2>6. CASE opened = {d}
    <3>1. Len(list) = 1
      BY <2>4, <2>6, FS_Singleton
    <3>2. m_current' = 1
      BY <2>3, <2>6, <3>1 DEF ChangeCurrentCamera
    <3> QED
      BY <2>1, <2>3, <3>1, <3>2 DEF ListInv
  <2> QED
    BY <2>5, <2>6
<1>2. ASSUME NEW i \in DOMAIN cameraList, ActivateCamera(i)
      PROVE  FALSE
  <2>0. cameraList \in Seq(Cameras) /\ Len(cameraList) <= 1
    BY DEF ListInv, TypeOK
  <2>1. i = 1 /\ cameraList # << >>
    BY <2>0
  <2> QED
    BY <1>2, <2>1 DEF ActivateCamera, ListInv
<1>3. CASE AppendPhoto
  <2>1. UNCHANGED <<rows, todo, connected, cameraList, m_current>>
    BY <1>3 DEF AppendPhoto
  <2>2. /\ DOMAIN fileList \subseteq DOMAIN fileList'
        /\ \A q \in DOMAIN fileList : fileList'[q] = fileList[q]
        /\ \A q \in DOMAIN fileList' : q \in DOMAIN fileList \/ fileList'[q].photo[2] = q
    BY <1>3, PhotoAppended DEF TypeOK
  <2> QED
    BY <2>1, <2>2 DEF ListInv
<1>12. CASE FillList
  BY <1>12 DEF FillList, ListInv
<1>4. ASSUME NEW r \in DOMAIN fileList, PaintThumbnail(r)
      PROVE  /\ ListInv'
             /\ DOMAIN fileList \subseteq DOMAIN fileList'
             /\ \A q \in DOMAIN fileList : fileList'[q].photo = fileList[q].photo
  <2>1. /\ DOMAIN fileList' = DOMAIN fileList
        /\ \A q \in DOMAIN fileList : fileList'[q].photo = fileList[q].photo
    BY <1>4, Painted DEF TypeOK
  <2>2. fill = NoCamera /\ UNCHANGED <<cameraList, m_current, fill, rows, todo, connected>>
    BY <1>4 DEF PaintThumbnail, GuiFree
  <2> QED
    BY <2>1, <2>2 DEF ListInv
<1>5. ASSUME NEW selected \in SUBSET DOMAIN fileList, AcceptDialog(selected)
      PROVE  ListInv' /\ fileList' = fileList
  <2>1. /\ connected' = Append(connected, [mode |-> dialog, rows |-> selected])
        /\ connected \in Seq(Downloaders)
        /\ UNCHANGED <<cameraList, m_current, fileList, fill, rows, todo>>
    BY <1>5 DEF AcceptDialog, TypeOK
  <2>2. \A k \in DOMAIN connected' : connected'[k].rows \subseteq DOMAIN fileList
    BY <2>1 DEF ListInv
  <2> QED
    BY <2>1, <2>2 DEF ListInv
<1>6. CASE BeginDownload
  <2>1. /\ todo \in Seq(Downloaders) /\ todo # << >>
        /\ rows' = IF Head(todo).mode = "all" THEN DOMAIN fileList ELSE Head(todo).rows
        /\ UNCHANGED <<cameraList, m_current, fileList, fill, todo, connected>>
    BY <1>6 DEF BeginDownload, TypeOK
  <2>2. 1 \in DOMAIN todo /\ Head(todo) = todo[1]
    BY <2>1
  <2> QED
    BY <2>1, <2>2 DEF ListInv
<1>7. CASE EndDownload
  <2>1. /\ todo \in Seq(Downloaders) /\ todo # << >> /\ todo' = Tail(todo)
        /\ UNCHANGED <<cameraList, m_current, fileList, fill, rows, connected>>
    BY <1>7 DEF EndDownload, TypeOK, AtStep
  <2>2. \A k \in DOMAIN todo' : k + 1 \in DOMAIN todo /\ todo'[k] = todo[k + 1]
    BY <2>1
  <2> QED
    BY <2>1, <2>2 DEF ListInv
<1>8. CASE WriteImage \/ EmitStarted
  BY <1>8 DEF WriteImage, EmitStarted, ListInv
<1>9. CASE FetchPhoto \/ FetchTime \/ WriteMetadata \/ EnterLoop
  BY <1>9 DEF FetchPhoto, FetchTime, WriteMetadata, EnterLoop, ListInv
<1>10. CASE HandleStarted \/ HandleProgress \/ HandleFinished \/ ThreadJoined
  BY <1>10 DEF HandleStarted, HandleProgress, HandleFinished, ThreadJoined, ListInv
<1>11. CASE Show \/ CloseWindow \/ CloseWizard \/ CancelDialog
            \/ (\E mode \in {"all", "selected"} : ClickDownload(mode)) \/ UNCHANGED vars
  BY <1>11 DEF Show, CloseWindow, CloseWizard, CancelDialog, ClickDownload, ListInv, vars
<1> QED
  BY <1>1, <1>2, <1>3, <1>4, <1>5, <1>6, <1>7, <1>8, <1>9, <1>10, <1>11, <1>12
     DEF Next, UserAction, GuiStep, DownloadStep

(* Both reads of a row yield the same photo. *)
LEMMA NameStep ==
    ASSUME NEW d, Devices = {d}, TypeOK, TypeOK', OnceInv, ListInv, NameInv, [Next]_vars
    PROVE  NameInv'
<1> USE DEF contextVars, guiVars, threadVars, AtStep, Fetching
<1>0. Fetching => Min(rows) \in DOMAIN fileList
  BY MinRow DEF TypeOK, ListInv, Rows
<1>1. ASSUME UNCHANGED <<step, rows, item, name>>
      PROVE  NameInv'
  BY <1>0, <1>1, ListStep DEF NameInv
<1>2. CASE FetchPhoto
  BY <1>2 DEF FetchPhoto, NameInv
<1>3. CASE FetchTime
  BY <1>3 DEF FetchTime, NameInv
<1>4. CASE WriteMetadata
  BY <1>4 DEF WriteMetadata, NameInv
<1>5. CASE WriteImage
  BY <1>5 DEF WriteImage, NameInv
<1>6. CASE BeginDownload \/ EndDownload
  BY <1>6 DEF BeginDownload, EndDownload, NameInv
<1> QED
  BY <1>1, <1>2, <1>3, <1>4, <1>5, <1>6, OtherThread

(* No step of either thread goes wrong. *)
LEMMA DefinedStep ==
    ASSUME TypeOK, OnceInv, ListInv, NoUndefined, [Next]_vars
    PROVE  NoUndefined'
<1> USE DEF contextVars, guiVars, threadVars, AtStep, NoUndefined
<1>0. rows # {} => Min(rows) \in DOMAIN fileList
  BY MinRow DEF TypeOK, ListInv, Rows
<1>1. CASE CloseWizard
  <2>1. wizards \in Seq(Cameras) /\ wizards # << >>
    BY <1>1 DEF CloseWizard, TypeOK
  <2>2. Len(wizards) \in DOMAIN wizards
    BY <2>1
  <2> QED
    BY <1>1, <2>2 DEF CloseWizard, OnceInv, RefInv
<1>2. ASSUME NEW r \in DOMAIN fileList, PaintThumbnail(r)
      PROVE  NoUndefined'
  BY <1>2 DEF PaintThumbnail, OnceInv, RefInv, PointersValid
<1>3. CASE FetchPhoto
  BY <1>0, <1>3 DEF FetchPhoto
<1>4. CASE FetchTime
  BY <1>0, <1>4 DEF FetchTime, TypeOK
<1>5. CASE WriteMetadata
  BY <1>5 DEF WriteMetadata, OnceInv, RefInv, Fetching
<1>6. CASE WriteImage
  BY <1>6 DEF WriteImage, OnceInv, RefInv, Fetching
<1>7. CASE UserAction /\ ~CloseWizard
  BY <1>7 DEF UserAction, Show, CloseWindow, CancelDialog, ActivateCamera, ClickDownload, AcceptDialog
<1>8. CASE GuiStep
  BY <1>8 DEF GuiStep, HandleInit, HandleStarted, HandleProgress, HandleFinished, AppendPhoto,
              FillList, ThreadJoined
<1>9. CASE EmitStarted \/ BeginDownload \/ EndDownload \/ EnterLoop \/ UNCHANGED vars
  BY <1>9 DEF EmitStarted, BeginDownload, EndDownload, EnterLoop, vars
<1> QED
  BY <1>1, <1>2, <1>3, <1>4, <1>5, <1>6, <1>7, <1>8, <1>9 DEF Next, DownloadStep

(* What WriteImage makes of the output directory. *)
LEMMA ImageWritten ==
    ASSUME TypeOK, OnceInv, NameInv, WriteImage
    PROVE  /\ files' \in [Times -> [txt : Contents, raw : Contents]]
           /\ name \in Times /\ name = TimeOf[item.photo]
           /\ item.photo \in Photos /\ item.photo # NoPhoto
           /\ \/ files'[name].raw = item.photo /\ failures' = failures
              \/ files'[name].raw \in {files[name].raw, NoPhoto} /\ failures' = failures + 1
           /\ \A t \in Times : t # name => files'[t].raw = files[t].raw
<1>1. step = "raw" /\ item \in Items /\ name \in Times
  BY DEF WriteImage, AtStep, TypeOK
<1>2. item.photo \in Photos
  BY <1>1 DEF Items
<1>3. item.photo # NoPhoto
  BY <1>2, SessionAssumption DEF Photos, NoPhoto
<1>4. PICK after : /\ Outcome(files[name].raw, after)
                   /\ files' = [files EXCEPT ![name].raw = after]
  BY <1>1 DEF WriteImage, OnceInv, RefInv, Fetching
<1>5. files \in [Times -> [txt : Contents, raw : Contents]] /\ item.photo \in Contents
  BY <1>2 DEF TypeOK, Contents
<1>6. after \in Contents
  BY <1>1, <1>4, <1>5, OutcomeType
<1>7. files'[name].raw = after
  BY <1>1, <1>4, <1>5
<1> QED
  BY <1>1, <1>2, <1>3, <1>4, <1>5, <1>6, <1>7 DEF NameInv, Outcome

(* Every image gets a name of its own, so as many are saved as downloaded  *)
(* without a failure.                                                      *)
LEMMA SavedStep ==
    ASSUME NEW d, Devices = {d}, \A p, q \in Photos : TimeOf[p] = TimeOf[q] => p = q,
           TypeOK, TypeOK', OnceInv, ListInv, NameInv, NamesIntact, SavedInv, [Next]_vars
    PROVE  NamesIntact' /\ SavedInv'
<1> USE DEF contextVars, guiVars, threadVars, AtStep
<1>0. /\ rows \in SUBSET Nat /\ files \in [Times -> [txt : Contents, raw : Contents]]
      /\ count \in Nat /\ failures \in Nat /\ failures' \in Nat
  BY DEF TypeOK, Rows
<1>1. ASSUME \A t \in Times : files'[t].raw = files[t].raw
      PROVE  NamesIntact' /\ Saved' = Saved
  BY <1>1 DEF NamesIntact, Saved
<1>2. CASE WriteImage
  <2>1. step = "raw" /\ rows # {} /\ item \in Items
    BY <1>2 DEF WriteImage, TypeOK
  <2>2. Min(rows) \in rows /\ Min(rows) \in DOMAIN fileList
    BY <1>0, <2>1, MinRow DEF ListInv
  <2>3. item.photo[2] = Min(rows)
    BY <2>1, <2>2 DEF NameInv, ListInv, Fetching
  <2>4. /\ name \in Times /\ name = TimeOf[item.photo] /\ item.photo \in Photos
        /\ item.photo # NoPhoto
        /\ \/ files'[name].raw = item.photo /\ failures' = failures
           \/ files'[name].raw \in {files[name].raw, NoPhoto} /\ failures' = failures + 1
        /\ \A t \in Times : t # name => files'[t].raw = files[t].raw
    BY <1>2, ImageWritten
  <2>5. NamesIntact'
    BY <2>4 DEF NamesIntact
  <2>7. /\ rows' = rows \ {Min(rows)} /\ count' = count + 1 /\ completed' = completed
        /\ step' = "photo"
    BY <1>2, <2>1 DEF WriteImage, OnceInv, RefInv, Fetching
  <2>8. CASE completed = 0
    <3>1. name \notin Saved
      <4> SUFFICES ASSUME name \in Saved PROVE FALSE
        OBVIOUS
      <4>1. files[name].raw \in Photos /\ TimeOf[files[name].raw] = name
        BY <1>0, <2>4 DEF Saved, NamesIntact, Contents
      <4>2. files[name].raw = item.photo
        BY <2>4, <4>1
      <4> QED
        BY <2>2, <2>3, <2>8, <4>2 DEF SavedInv
    <3>2. /\ IsFiniteSet(Saved) /\ Cardinality(Saved) \in Nat
          /\ Cardinality(Saved) <= count /\ count <= Cardinality(Saved) + failures
      BY <2>8, FS_CardinalityType DEF SavedInv
    <3>3. CASE files'[name].raw = item.photo /\ failures' = failures
      <4>1. Saved' = Saved \union {name}
        BY <2>4, <3>3 DEF Saved
      <4>2. IsFiniteSet(Saved') /\ Cardinality(Saved') = Cardinality(Saved) + 1
        BY <3>1, <3>2, <4>1, FS_AddElement
      <4>3. \A t \in Saved' : files'[t].raw[2] \notin rows'
        <5>1. \A t \in Saved : files[t].raw[2] \notin rows /\ t # name /\ t \in Times
          BY <2>8, <3>1 DEF SavedInv, Saved
        <5> QED
          BY <2>3, <2>4, <2>7, <3>3, <4>1, <5>1
      <4>4. Cardinality(Saved') <= count' /\ count' <= Cardinality(Saved') + failures'
        BY <1>0, <2>7, <3>2, <3>3, <4>2
      <4> QED
        BY <2>5, <2>7, <2>8, <4>2, <4>3, <4>4 DEF SavedInv
    <3>4. CASE files'[name].raw \in {files[name].raw, NoPhoto} /\ failures' = failures + 1
      <4>1. Saved' = Saved
        BY <2>4, <3>1, <3>4 DEF Saved
      <4>2. Cardinality(Saved') <= count' /\ count' <= Cardinality(Saved') + failures'
        BY <1>0, <2>7, <3>2, <3>4, <4>1
      <4>3. \A t \in Saved' : files'[t].raw[2] \notin rows'
        <5>1. \A t \in Saved : files[t].raw[2] \notin rows /\ t # name /\ t \in Times
          BY <2>8, <3>1 DEF SavedInv, Saved
        <5> QED
          BY <2>4, <2>7, <4>1, <5>1
      <4> QED
        BY <2>5, <2>7, <2>8, <3>2, <4>1, <4>2, <4>3 DEF SavedInv
    <3> QED
      BY <2>4, <2>5, <3>3, <3>4
  <2>9. CASE completed # 0
    BY <2>5, <2>7, <2>9 DEF SavedInv
  <2> QED
    BY <2>8, <2>9
<1>3. CASE WriteMetadata
  <2>1. /\ UNCHANGED <<rows, count, completed>> /\ step # "begin" /\ step' # "begin"
        /\ failures' \in {failures, failures + 1}
    BY <1>3 DEF WriteMetadata, Outcome
  <2>2. \A t \in Times : files'[t].raw = files[t].raw
    BY <1>0, <1>3 DEF WriteMetadata
  <2>3. Saved' = Saved /\ NamesIntact'
    BY <1>1, <2>2
  <2>4. completed = 0 =>
            /\ IsFiniteSet(Saved) /\ Cardinality(Saved) \in Nat
            /\ Cardinality(Saved) <= count /\ count <= Cardinality(Saved) + failures'
    BY <1>0, <2>1, FS_CardinalityType DEF SavedInv
  <2> QED
    BY <2>1, <2>2, <2>3, <2>4 DEF SavedInv, Saved
<1>4. CASE FetchPhoto \/ FetchTime
  <2>1. UNCHANGED <<files, failures, rows, count, completed>> /\ step # "begin" /\ step' # "begin"
    BY <1>4 DEF FetchPhoto, FetchTime
  <2> QED
    BY <1>1, <2>1 DEF SavedInv
<1>5. CASE BeginDownload
  <2>1. UNCHANGED <<files, failures, completed>> /\ count' = 0 /\ step = "begin" /\ step' = "photo"
    BY <1>5 DEF BeginDownload
  <2>2. Saved' = Saved /\ NamesIntact'
    BY <1>1, <2>1
  <2>3. completed = 0 => Saved = {}
    <3> SUFFICES ASSUME completed = 0 PROVE Saved = {}
      OBVIOUS
    <3>1. IsFiniteSet(Saved) /\ Cardinality(Saved) <= 0 /\ Cardinality(Saved) \in Nat
      BY <2>1, FS_CardinalityType DEF SavedInv
    <3> QED
      BY <3>1, FS_EmptySet
  <2>4. Cardinality({}) = 0 /\ IsFiniteSet({})
    BY FS_EmptySet
  <2> QED
    BY <1>0, <2>1, <2>2, <2>3, <2>4 DEF SavedInv
<1>6. CASE EndDownload
  <2>1. UNCHANGED <<files, failures, count>> /\ completed' = completed + 1 /\ step = "photo" /\ step' = "begin"
    BY <1>6 DEF EndDownload
  <2>2. Saved' = Saved /\ NamesIntact'
    BY <1>1, <2>1
  <2>3. completed \in Nat
    BY DEF TypeOK
  <2> QED
    BY <2>1, <2>2, <2>3 DEF SavedInv
<1>7. CASE UNCHANGED <<step, rows, count, item, name, files, failures, completed>>
  BY <1>1, <1>7 DEF SavedInv
<1> QED
  BY <1>2, <1>3, <1>4, <1>5, <1>6, <1>7, OtherThread

-----------------------------------------------------------------------------
(* The initial state satisfies every part of the invariants. *)
LEMMA Initially ==
    ASSUME Init
    PROVE  /\ TypeOK /\ PairInv /\ FormInv /\ OnceInv
           /\ ListInv /\ NameInv /\ NamesIntact /\ SavedInv /\ NoUndefined
<1> USE DEF Init
<1>1. {} \in Rows /\ Cardinality({}) = 0 /\ IsFiniteSet({})
  BY FS_EmptySet DEF Rows
<1>2. TypeOK
  <2>1. bar \in Bars /\ files \in [Times -> [txt : Contents, raw : Contents]]
    BY DEF Bars, Contents
  <2>2. shows \in 0..MaxShows
    BY SessionAssumption
  <2>3. /\ cameraList \in Seq(Cameras) /\ fileList \in Seq(Items) /\ wizards \in Seq(Cameras)
        /\ events \in Seq(Signals) /\ connected \in Seq(Downloaders) /\ todo \in Seq(Downloaders)
    OBVIOUS
  <2>4. rows \in Rows /\ fill \in Cameras \union {NoCamera} /\ item \in Items \union {NoItem}
    BY <1>1
  <2> QED
    BY <2>1, <2>2, <2>3, <2>4 DEF TypeOK
<1>3. FormInv
  BY DEF FormInv, ButtonInv, RangeInv, ValueInv, RestInv, Begun, Downloading, Handled, IsLast, IsKind
<1>4. OnceInv
  BY DEF OnceInv, InitInv, RefInv, PointersValid, Handled, IsKind, Fetching
<1>5. PairInv
  <2>1. Broken = {}
    BY DEF Broken
  <2> QED
    BY <1>1, <2>1 DEF PairInv
<1>8. ListInv /\ NameInv /\ NoUndefined
  BY DEF ListInv, NameInv, NoUndefined, Fetching
<1>6. Saved = {} /\ NamesIntact
  BY DEF Saved, NamesIntact
<1>7. SavedInv
  BY <1>1, <1>6 DEF SavedInv
<1> QED
  BY <1>2, <1>3, <1>4, <1>5, <1>6, <1>7, <1>8

(* What holds in every session. *)
LEMMA Invariance == Spec => [](TypeOK /\ PairInv /\ FormInv)
<1>1. Init => TypeOK /\ PairInv /\ FormInv
  BY Initially
<1>2. TypeOK /\ PairInv /\ FormInv /\ [Next]_vars => (TypeOK /\ PairInv /\ FormInv)'
  BY TypeStep, PairStep, FormStep
<1> QED
  BY <1>1, <1>2, PTL DEF Spec

(* In every session, with any number of cameras, photos, show events and   *)
(* downloads, and with the photo list replaced at any moment: between two  *)
(* photos, the metadata and the image file of a name hold the same photo,  *)
(* except for one name at most for every open or write that failed.        *)
(* downloadFile reads the row for both files only once.                    *)
THEOREM PairsKept == Spec => []PairsIntact
<1>1. PairInv => PairsIntact
  <2> SUFFICES ASSUME PairInv, step \in {"begin", "photo"}
               PROVE  Cardinality({t \in Times : files[t].txt # files[t].raw}) <= failures
    BY DEF PairsIntact
  <2>1. {t \in Times : files[t].txt # files[t].raw} = Broken
    BY DEF Broken
  <2> QED
    BY <2>1 DEF PairInv
<1> QED
  BY <1>1, Invariance, PTL

(* In every session the form follows the download thread through the       *)
(* queued signals: while a download runs the buttons are disabled as soon  *)
(* as its started signal is handled, and when the thread rests and the     *)
(* queue is empty the progress bar is disabled and full.                   *)
THEOREM FormFollows == Spec => []FormFollowsDownload
<1>1. TypeOK /\ FormInv => FormFollowsDownload
  <2> SUFFICES ASSUME TypeOK, FormInv
               PROVE  ButtonsOffWhileDownloading /\ QuietAfterDownload
    BY DEF FormFollowsDownload
  <2>1. ButtonsOffWhileDownloading
    <3> SUFFICES ASSUME Downloading, \A k \in DOMAIN events : events[k].kind # "started"
                 PROVE  ~buttons
      BY DEF ButtonsOffWhileDownloading
    <3>1. CASE Handled({"started", "finished"})
      BY <3>1 DEF FormInv, ButtonInv
    <3>2. CASE ~Handled({"started", "finished"})
      <4>1. PICK k \in DOMAIN events : IsLast(k, {"started", "finished"})
        BY <3>2, LastOfKinds DEF TypeOK
      <4>2. events[k].kind # "started"
        OBVIOUS
      <4> QED
        BY <4>1, <4>2 DEF FormInv, ButtonInv
    <3> QED
      BY <3>1, <3>2
  <2>2. QuietAfterDownload
    <3> SUFFICES ASSUME completed > 0, thread = "loop", events = << >>
                 PROVE  ~bar.enabled /\ (bar.max > 0 => bar.value = bar.max)
      BY DEF QuietAfterDownload
    <3>1. \A K : Handled(K)
      BY DEF Handled
    <3>2. ~Downloading /\ Begun /\ rows = {}
      BY DEF TypeOK, Downloading, Begun, FormInv, RestInv
    <3>3. ~bar.enabled /\ bar.max = Total
      BY <3>1, <3>2 DEF FormInv, ButtonInv, RangeInv
    <3>4. Total = count /\ count \in Nat
      BY <3>2, FS_EmptySet DEF Total, TypeOK
    <3>5. count > 0 => bar.value = count
      BY <3>1, <3>2 DEF FormInv, ValueInv
    <3> QED
      BY <3>3, <3>4, <3>5
  <2> QED
    BY <2>1, <2>2
<1> QED
  BY <1>1, Invariance, PTL

(* With a single camera and a window shown once, neither thread ever       *)
(* dereferences a destroyed camera or reads beyond the photo list, for any *)
(* number of photos and downloads: the list is filled once, so rows stay   *)
(* valid from the moment they are selected.                                *)
THEOREM SingleCameraDefined ==
    ASSUME MaxShows <= 1, NEW CONSTANT d, Devices = {d}
    PROVE  Spec => []NoUndefined
<1> DEFINE Inv == TypeOK /\ OnceInv /\ ListInv /\ NoUndefined
<1>1. Init => Inv
  BY Initially
<1>2. Inv /\ [Next]_vars => Inv'
  BY TypeStep, OnceStep, ListStep, DefinedStep
<1>3. Inv => NoUndefined
  OBVIOUS
<1> QED
  BY <1>1, <1>2, <1>3, PTL DEF Spec

(* With a single camera, a window shown once and photos taken at different *)
(* seconds, every image is saved under the time of its own photo, and the  *)
(* first download saves as many images as it counted, less at most those   *)
(* whose files could not be opened or written, for any number of photos,   *)
(* downloads and failures.                                                 *)
THEOREM SingleCameraSaved ==
    ASSUME MaxShows <= 1, NEW CONSTANT d, Devices = {d},
           \A p, q \in Photos : TimeOf[p] = TimeOf[q] => p = q
    PROVE  Spec => []PhotosSaved
<1> DEFINE Inv == TypeOK /\ OnceInv /\ ListInv /\ NameInv /\ NamesIntact /\ SavedInv
<1>1. Init => Inv
  BY Initially
<1>2. Inv /\ [Next]_vars => Inv'
  BY TypeStep, OnceStep, ListStep, NameStep, SavedStep
<1>3. Inv => PhotosSaved
  BY DEF PhotosSaved, EveryPhotoSaved, SavedInv
<1> QED
  BY <1>1, <1>2, <1>3, PTL DEF Spec
=============================================================================
