------------------------ MODULE CalibrationFlowProofs -----------------------
(***************************************************************************)
(* Proofs about CalibrationFlow, for any number of images, crashes and     *)
(* attempts and any set of flat images.                                    *)
(***************************************************************************)
EXTENDS CalibrationFlow, FiniteSetTheorems, TLAPS

(* Type correctness is kept by every step. *)
LEMMA TypeStep ==
    ASSUME TypeOK, [Next]_vars
    PROVE  TypeOK'
<1> USE FlowAssumption DEF TypeOK, Goto, disk, Downloading, Storing
<1>1. CASE CheckCalibration
  BY <1>1 DEF CheckCalibration
<1>2. CASE LeaveWizard
  BY <1>2 DEF LeaveWizard, Images
<1>3. CASE Cancel
  BY <1>3 DEF Cancel
<1>4. CASE Crash
  BY <1>4 DEF Crash
<1>5. CASE AlreadyCalibrated
  BY <1>5 DEF AlreadyCalibrated
<1>6. CASE OpenTxt \/ OpenRaw
  <2>1. cache' \in [Images -> [Parts -> FileStates]]
    BY <1>6 DEF OpenTxt, OpenRaw, OpenFile, FileStates, Parts
  <2>2. failures' \in 0..MaxFailures
    BY <1>6 DEF OpenTxt, OpenRaw, OpenFile, Fail
  <2> QED
    BY <1>6, <2>1, <2>2 DEF OpenTxt, OpenRaw, OpenFile
<1>7. CASE WriteTxt \/ WriteRaw
  <2>1. cache' \in [Images -> [Parts -> FileStates]]
    BY <1>7 DEF WriteTxt, WriteRaw, WriteFile, FileStates, Parts
  <2>2. failures' \in 0..MaxFailures
    BY <1>7 DEF WriteTxt, WriteRaw, WriteFile, Fail
  <2> QED
    BY <1>7, <2>1, <2>2 DEF WriteTxt, WriteRaw, WriteFile
<1>8. CASE NextImage
  BY <1>8 DEF NextImage, Images
<1>9. CASE Preprocess
  BY <1>9 DEF Preprocess, Detectable, Truncated, Readable, Keys
<1>10. CASE Calibrate
  BY <1>10 DEF Calibrate
<1>11. CASE OpenConfig
  BY <1>11 DEF OpenConfig, FileStates, Fail
<1>12. CASE WriteConfig
  BY <1>12 DEF WriteConfig, FileStates, Fail
<1>13. CASE UNCHANGED vars
  BY <1>13 DEF vars
<1> QED
  BY <1>1, <1>2, <1>3, <1>4, <1>5, <1>6, <1>7, <1>8, <1>9, <1>10, <1>11, <1>12, <1>13
     DEF Next, Step

(* Files are only written into a directory that exists, and the            *)
(* configuration in work is partial.                                       *)
LEMMA DirStep ==
    ASSUME TypeOK, DirInv, WriteInv, [Next]_vars
    PROVE  DirInv' /\ WriteInv'
<1> USE DEF DirInv, WriteInv, TypeOK, Goto, disk
<1>1. CASE OpenTxt \/ OpenRaw
  BY <1>1 DEF OpenTxt, OpenRaw, OpenFile, Parts
<1>2. CASE WriteTxt \/ WriteRaw
  <2>1. cacheDir # "serial" => cache' = cache
    BY <1>2 DEF WriteTxt, WriteRaw, WriteFile, Parts
  <2> QED
    BY <1>2, <2>1 DEF WriteTxt, WriteRaw, WriteFile
<1>3. CASE OpenConfig
  BY <1>3 DEF OpenConfig
<1>4. CASE WriteConfig
  BY <1>4 DEF WriteConfig
<1>5. CASE LeaveWizard
  BY <1>5 DEF LeaveWizard
<1>6. CASE CheckCalibration \/ Cancel \/ Crash \/ AlreadyCalibrated \/ NextImage
           \/ Preprocess \/ Calibrate
  BY <1>6, ZenonT(60) DEF CheckCalibration, Cancel, Crash, AlreadyCalibrated, NextImage,
                          Preprocess, Calibrate
<1>7. CASE UNCHANGED vars
  BY <1>7 DEF vars
<1> QED
  BY <1>1, <1>2, <1>3, <1>4, <1>5, <1>6, <1>7 DEF Next, Step

(* There are finitely many files. *)
Lost == Partial \union Gaps

LEMMA LostFinite == /\ IsFiniteSet(Partial) /\ Cardinality(Partial) \in Nat
                    /\ IsFiniteSet(Lost) /\ Cardinality(Lost) \in Nat
<1>1. IsFiniteSet(Images) /\ IsFiniteSet(Parts) /\ IsFiniteSet({0}) /\ IsFiniteSet(Keys)
  <2>1. IsFiniteSet(Images)
    BY FlowAssumption, FS_Interval DEF Images
  <2>2. IsFiniteSet({"txt"}) /\ IsFiniteSet({"serial"}) /\ IsFiniteSet({0})
    BY FS_Singleton
  <2>3. IsFiniteSet({"txt"} \union {"raw"}) /\ IsFiniteSet({"serial"} \union {"empty"})
    BY <2>2, FS_AddElement
  <2>4. {"txt"} \union {"raw"} = Parts /\ {"serial"} \union {"empty"} = Keys
    BY DEF Parts, Keys
  <2> QED
    BY <2>1, <2>2, <2>3, <2>4
<1>2. IsFiniteSet((Images \X Parts) \union ({0} \X Keys))
  BY <1>1, FS_Product, FS_Union
<1>3. Partial \subseteq (Images \X Parts) \union ({0} \X Keys)
  BY DEF Partial
<1>4. Lost \subseteq (Images \X Parts) \union ({0} \X Keys)
  BY <1>3 DEF Lost, Gaps, Passed
<1> QED
  BY <1>2, <1>3, <1>4, FS_Subset, FS_CardinalityType

(* Which files are lost. *)
LEMMA LostFiles ==
    ASSUME TypeOK
    PROVE  /\ \A i \in Images, p \in Parts :
                  <<i, p>> \in Lost <=> \/ cache[i][p] = "partial"
                                        \/ <<i, p>> \in Gaps
           /\ \A k \in Keys : <<0, k>> \in Lost <=> config[k] = "partial"
BY FlowAssumption DEF Lost, Gaps, Passed, Partial, Images

(* Sums of natural numbers. *)
LEMMA Sums == \A a, b \in Nat : /\ a + b \in Nat
                                /\ a + (b + 1) = (a + b) + 1
                                /\ (a + 1) + b = (a + b) + 1
OBVIOUS

(* How a step counts a loss. *)
LEMMA LossesStep ==
    ASSUME TypeOK, TypeOK'
    PROVE  /\ Losses \in Nat /\ Losses' \in Nat
           /\ crashes' = crashes /\ failures' = failures => Losses' = Losses
           /\ crashes' = crashes /\ failures' = failures + 1 => Losses' = Losses + 1
           /\ crashes' = crashes + 1 /\ failures' = failures => Losses' = Losses + 1
<1>1. crashes \in Nat /\ failures \in Nat
  BY FlowAssumption DEF TypeOK
<1>2. crashes' \in Nat /\ failures' \in Nat
  BY FlowAssumption DEF TypeOK
<1>3. Losses \in Nat
  BY <1>1, Sums DEF Losses
<1>4. Losses' \in Nat
  BY <1>2, Sums, ZenonT(60) DEF Losses
<1>5. crashes' = crashes /\ failures' = failures => Losses' = Losses
  BY DEF Losses
<1>6. crashes' = crashes /\ failures' = failures + 1 => Losses' = Losses + 1
  BY <1>1, Sums, ZenonT(60) DEF Losses
<1>7. crashes' = crashes + 1 /\ failures' = failures => Losses' = Losses + 1
  BY <1>1, Sums, ZenonT(60) DEF Losses
<1> QED
  BY <1>3, <1>4, <1>5, <1>6, <1>7

(* The number of lost files stays within the bound: a file counts for the  *)
(* step that writes it, and for the crash or the failure if that step does *)
(* not come, or not to its end.                                            *)
LEMMA LostStep ==
    ASSUME TypeOK, TypeOK', WriteInv, SpoiltInv, [Next]_vars
    PROVE  SpoiltInv'
<1>b. /\ Losses \in Nat /\ Losses' \in Nat
      /\ crashes' = crashes /\ failures' = failures => Losses' = Losses
      /\ crashes' = crashes /\ failures' = failures + 1 => Losses' = Losses + 1
      /\ crashes' = crashes + 1 /\ failures' = failures => Losses' = Losses + 1
  BY LossesStep
<1> USE DEF TypeOK, Goto
<1>0. Cardinality(Lost) \in Nat /\ Cardinality(Lost') \in Nat /\ IsFiniteSet(Lost) /\ IsFiniteSet(Lost')
  <2>1. Cardinality(Lost) \in Nat /\ IsFiniteSet(Lost)
    BY LostFinite
  <2>2. (IsFiniteSet(Lost) /\ Cardinality(Lost) \in Nat)'
    BY LostFinite, PTL
  <2> QED
    BY <2>1, <2>2
<1>a. /\ SpoiltInv <=> Cardinality(Lost) <= Losses + IF Writing THEN 1 ELSE 0
      /\ SpoiltInv' <=> Cardinality(Lost') <= Losses' + IF Writing' THEN 1 ELSE 0
  BY DEF SpoiltInv, Lost
<1>1. ASSUME NEW f, Lost' \subseteq Lost \union {f}, ~Writing,
             (Losses' = Losses /\ Writing') \/ Losses' = Losses + 1
      PROVE  SpoiltInv'
  <2>1. /\ IsFiniteSet(Lost \union {f})
        /\ Cardinality(Lost \union {f}) =
              IF f \in Lost THEN Cardinality(Lost) ELSE Cardinality(Lost) + 1
    BY <1>0, FS_AddElement
  <2>2. Cardinality(Lost') <= Cardinality(Lost \union {f})
    BY <1>1, <2>1, FS_Subset
  <2> QED
    BY <1>0, <1>a, <1>b, <1>1, <2>1, <2>2
<1>2. ASSUME NEW f \in Lost, Lost' \subseteq Lost \ {f}, Losses' = Losses
      PROVE  SpoiltInv'
  <2>1. /\ IsFiniteSet(Lost \ {f})
        /\ Cardinality(Lost \ {f}) = Cardinality(Lost) - 1
    BY <1>0, <1>2, FS_RemoveElement
  <2>2. Cardinality(Lost') <= Cardinality(Lost \ {f})
    BY <1>2, <2>1, FS_Subset
  <2>3. Cardinality(Lost') <= Losses
    BY <1>0, <1>a, <1>b, <2>1, <2>2
  <2> QED
    BY <1>0, <1>a, <1>b, <1>2, <2>3
<1>3. ASSUME Lost' \subseteq Lost, Losses' >= Losses, Writing => Writing' \/ Losses' > Losses
      PROVE  SpoiltInv'
  <2>1. Cardinality(Lost') <= Cardinality(Lost)
    BY <1>0, <1>3, FS_Subset
  <2> QED
    BY <1>0, <1>a, <1>b, <1>3, <2>1
<1>4. CASE OpenTxt \/ OpenRaw
  <2> DEFINE part == IF pc = "txt" THEN "txt" ELSE "raw"
             f == <<next, part>>
  <2>1. /\ pc \in {"txt", "raw"} /\ UNCHANGED <<cacheDir, config, crashes, next>> /\ ~Writing
        /\ part \in Parts
    BY <1>4 DEF OpenTxt, OpenRaw, OpenFile, Writing, Opened, Parts
  <2>2. CASE cache[next][part] # "absent"
    <3>1. /\ UNCHANGED <<cache, failures>>
          /\ (pc = "txt" /\ pc' = "raw") \/ (pc = "raw" /\ pc' = "next")
      BY <1>4, <2>1, <2>2 DEF OpenTxt, OpenRaw, OpenFile
    <3>2. Partial' = Partial
      BY <2>1, <3>1 DEF Partial
    <3>3. Gaps' \subseteq Gaps
      BY <2>1, <2>2, <3>1 DEF Gaps, Passed, Downloading
    <3> QED
      BY <1>3, <1>b, <2>1, <3>1, <3>2, <3>3 DEF Lost
  <2>3. CASE cache[next][part] = "absent"
    <3>1. /\ (pc = "txt" /\ pc' = "txtwrite") \/ (pc = "raw" /\ pc' = "rawwrite")
          /\ \/ cacheDir = "serial" /\ cache' = [cache EXCEPT ![next][part] = "partial"] /\ failures' = failures
             \/ cache' = cache /\ failures' = IF cacheDir = "serial" THEN failures + 1 ELSE failures
      BY <1>4, <2>1, <2>3 DEF OpenTxt, OpenRaw, OpenFile, Fail
    <3>2. CASE cacheDir = "serial" /\ cache' = [cache EXCEPT ![next][part] = "partial"] /\ failures' = failures
      <4>1. Partial' \subseteq Partial \union {f}
        BY <2>1, <3>2 DEF Partial
      <4>2. Gaps' \subseteq Gaps
        BY <2>1, <3>1, <3>2 DEF Gaps, Passed, Downloading
      <4>3. Writing'
        BY <2>1, <3>1, <3>2 DEF Writing, Opened
      <4> QED
        BY <1>1, <1>b, <2>1, <3>2, <4>1, <4>2, <4>3 DEF Lost
    <3>3. CASE cache' = cache /\ cacheDir = "serial" /\ failures' = failures + 1
      <4>1. Partial' = Partial
        BY <2>1, <3>3 DEF Partial
      <4>2. Gaps' \subseteq Gaps \union {f}
        BY <2>1, <3>1, <3>3 DEF Gaps, Passed, Downloading
      <4>3. Losses' = Losses + 1
        BY <1>b, <2>1, <3>3, FlowAssumption
      <4> QED
        BY <1>1, <2>1, <4>1, <4>2, <4>3 DEF Lost
    <3>4. CASE cache' = cache /\ cacheDir # "serial" /\ failures' = failures
      <4>1. Lost' \subseteq Lost
        BY <2>1, <3>4 DEF Lost, Partial, Gaps
      <4> QED
        BY <1>3, <1>b, <2>1, <3>4, <4>1
    <3> QED
      BY <3>1, <3>2, <3>3, <3>4
  <2> QED
    BY <2>2, <2>3
<1>5. CASE WriteTxt \/ WriteRaw
  <2> DEFINE part == IF pc = "txtwrite" THEN "txt" ELSE "raw"
             f == <<next, part>>
  <2>1. /\ (pc = "txtwrite" /\ pc' = "raw") \/ (pc = "rawwrite" /\ pc' = "next")
        /\ UNCHANGED <<cacheDir, config, crashes, next>>
        /\ part \in Parts
        /\ Writing <=> cache[next][part] = "partial"
    BY <1>5 DEF WriteTxt, WriteRaw, WriteFile, Writing, Opened, Parts
  <2>2. \/ /\ cache[next][part] = "partial" /\ failures' = failures
           /\ cache' = [cache EXCEPT ![next][part] = "whole"]
        \/ cache' = cache /\ failures' = IF cache[next][part] = "partial" THEN failures + 1 ELSE failures
    BY <1>5, <2>1 DEF WriteTxt, WriteRaw, WriteFile, Fail
  <2>3. CASE /\ cache[next][part] = "partial" /\ failures' = failures
             /\ cache' = [cache EXCEPT ![next][part] = "whole"]
    <3>1. f \in Lost
      BY <2>1, <2>3, LostFiles
    <3>2. Partial' \subseteq Partial \ {f}
      BY <2>1, <2>3, FlowAssumption DEF Partial, Images
    <3>3. Gaps' \subseteq Gaps \ {f}
      BY <2>1, <2>3 DEF Gaps, Passed, Downloading
    <3> QED
      BY <1>2, <1>b, <2>1, <2>3, <3>1, <3>2, <3>3 DEF Lost
  <2>4. CASE cache' = cache /\ failures' = IF cache[next][part] = "partial" THEN failures + 1 ELSE failures
    <3>1. Partial' = Partial
      BY <2>1, <2>4 DEF Partial
    <3>2. Gaps' \subseteq Gaps
      BY <2>1, <2>4 DEF Gaps, Passed, Downloading
    <3>3. Losses' >= Losses /\ (Writing => Losses' > Losses)
      BY <1>b, <2>1, <2>4, FlowAssumption
    <3> QED
      BY <1>3, <3>1, <3>2, <3>3 DEF Lost
  <2> QED
    BY <2>2, <2>3, <2>4
<1>6. CASE NextImage
  <2>1. UNCHANGED <<cacheDir, cache, config, crashes, failures>> /\ pc = "next"
    BY <1>6 DEF NextImage, disk
  <2>2. Partial' = Partial
    BY <2>1 DEF Partial
  <2>3. \/ pc' = "preprocess" /\ next = NumImages
        \/ pc' = "txt" /\ next' = next + 1
    BY <1>6 DEF NextImage
  <2>4. Passed = {f \in Images \X Parts : f[1] <= next}
    BY <2>1, FlowAssumption DEF Passed, Downloading, Images, Parts
  <2>5. Passed' \subseteq {f \in Images \X Parts : f[1] <= next}
    BY <2>3, FlowAssumption DEF Passed, Downloading, Images, Parts
  <2>6. Gaps' \subseteq Gaps
    BY <2>1, <2>4, <2>5 DEF Gaps
  <2> QED
    BY <1>3, <1>b, <2>1, <2>2, <2>6 DEF Lost, Writing, Opened
<1>7. CASE OpenConfig
  <2>1. pc = "store" /\ UNCHANGED <<cache, crashes, cacheDir>> /\ ~Writing /\ Gaps' = {}
    BY <1>7 DEF OpenConfig, Writing, Opened, Gaps, Passed, Downloading
  <2>2. CASE failures' = failures
    <3>1. Partial' \subseteq Partial \union {<<0, key>>} /\ Writing'
      BY <1>7, <2>2 DEF OpenConfig, Partial, Fail, Writing
    <3> QED
      BY <1>1, <1>b, <2>1, <2>2, <3>1 DEF Lost
  <2>3. CASE failures' # failures
    <3>1. Partial' = Partial /\ failures' = failures + 1
      BY <1>7, <2>1, <2>3 DEF OpenConfig, Partial, Fail
    <3> QED
      BY <1>3, <1>b, <2>1, <3>1, FlowAssumption DEF Lost
  <2> QED
    BY <2>2, <2>3
<1>8. CASE WriteConfig
  <2>1. pc = "storewrite" /\ UNCHANGED <<cache, crashes, cacheDir>> /\ config[key] = "partial"
        /\ Gaps' = {} /\ pc' = "idle"
    BY <1>8 DEF WriteConfig, WriteInv, Gaps, Passed, Downloading
  <2>2. CASE failures' = failures
    <3>1. <<0, key>> \in Lost
      BY <2>1, LostFiles
    <3>2. Partial' \subseteq Partial \ {<<0, key>>}
      BY <1>8, <2>2, FlowAssumption DEF WriteConfig, Partial, Images, Fail
    <3> QED
      BY <1>2, <1>b, <2>1, <2>2, <3>1, <3>2 DEF Lost
  <2>3. CASE failures' # failures
    <3>1. Partial' = Partial /\ failures' = failures + 1
      BY <1>8, <2>1, <2>3 DEF WriteConfig, Partial, Fail
    <3> QED
      BY <1>3, <1>b, <2>1, <3>1, FlowAssumption DEF Lost
  <2> QED
    BY <2>2, <2>3
<1>9. CASE Crash
  <2>1. UNCHANGED <<cache, config, cacheDir, failures>> /\ crashes' = crashes + 1 /\ Gaps' = {}
    BY <1>9 DEF Crash, disk, Gaps, Passed, Downloading
  <2> QED
    BY <1>3, <1>b, <2>1, FlowAssumption DEF Lost, Partial
<1>10. CASE Preprocess \/ Calibrate \/ CheckCalibration \/ LeaveWizard \/ Cancel \/ AlreadyCalibrated
  <2>1. UNCHANGED <<cache, config, crashes, failures>> /\ ~Writing
    BY <1>10 DEF Preprocess, Calibrate, CheckCalibration, LeaveWizard, Cancel, AlreadyCalibrated,
                 disk, Writing, Opened
  <2>2. Gaps' = {}
    <3>1. pc' \in {"idle", "calibrated", "wizard", "calibrate", "undefined", "store"} \/ (pc' = "txt" /\ next' = 1)
      BY <1>10 DEF Preprocess, Calibrate, CheckCalibration, LeaveWizard, Cancel, AlreadyCalibrated
    <3>2. \A f \in Images \X Parts : ~(f[1] < 1)
      BY DEF Images
    <3> QED
      BY <3>1, <3>2 DEF Gaps, Passed, Downloading
  <2> QED
    BY <1>3, <1>b, <2>1, <2>2 DEF Lost, Partial
<1>11. CASE UNCHANGED vars
  <2>1. Lost' = Lost /\ Writing' = Writing /\ Losses' = Losses
    BY <1>b, <1>11 DEF vars, Lost, Partial, Gaps, Passed, Writing, Opened
  <2> QED
    BY <1>3, <1>b, <2>1
<1> QED
  BY <1>4, <1>5, <1>6, <1>7, <1>8, <1>9, <1>10, <1>11 DEF Next, Step

(* When the download has ended no more images are lost than files. *)
LEMMA LostImages ==
    ASSUME TypeOK, SpoiltInv, ~Writing, NEW S \in SUBSET Images,
           \A i \in S : \E p \in Parts : <<i, p>> \in Lost
    PROVE  Cardinality(S) <= Losses
<1> DEFINE f == [i \in S |-> <<i, CHOOSE p \in Parts : <<i, p>> \in Lost>>]
<1>1. \A i \in S : f[i] \in Lost /\ f[i][1] = i
  OBVIOUS
<1>2. f \in Injection(S, Lost)
  <2>1. f \in [S -> Lost]
    BY <1>1
  <2>2. \A i, j \in S : f[i] = f[j] => i = j
    BY <1>1
  <2> HIDE DEF f
  <2> QED
    BY <2>1, <2>2 DEF Injection, IsInjective
<1>3. Cardinality(S) <= Cardinality(Lost) /\ IsFiniteSet(S)
  BY <1>2, LostFinite, FS_Injection
<1>4. Cardinality(S) \in Nat /\ Cardinality(Lost) <= Losses /\ Losses \in Nat
  BY <1>3, FS_CardinalityType, FlowAssumption DEF SpoiltInv, Lost, TypeOK, Losses
<1> QED
  BY <1>3, <1>4, LostFinite

(* preprocess yields grids that lack at most one image for every loss, and *)
(* that carry the camera's serial number if there was none.                *)
LEMMA PreprocessGrids ==
    ASSUME TypeOK, DirInv, SpoiltInv, Preprocess, pc' = "calibrate"
    PROVE  /\ cacheDir # "serial" => grids' = {}
           /\ cacheDir = "serial" => Cardinality((Images \ Flat) \ grids') <= Losses
           /\ Losses = 0 /\ grids' # {} => key' = "serial"
<1>1. PICK used \in SUBSET Detectable : \E found \in [used -> Keys] :
         /\ Surely \subseteq used
         /\ \A i \in used : found[i] \in KeysOf(i)
         /\ grids' = used
         /\ key' = IF "serial" \in {found[i] : i \in used} THEN "serial" ELSE "empty"
  BY DEF Preprocess, Goto
<1>2. PICK found \in [used -> Keys] :
         /\ Surely \subseteq used
         /\ \A i \in used : found[i] \in KeysOf(i)
         /\ grids' = used
         /\ key' = IF "serial" \in {found[i] : i \in used} THEN "serial" ELSE "empty"
  BY <1>1
<1>3. pc = "preprocess" /\ ~Writing
  BY DEF Preprocess, Writing, Opened
<1>4. CASE cacheDir # "serial"
  <2>1. Detectable = {}
    BY <1>4 DEF DirInv, Detectable, Truncated, Readable, Parts
  <2> QED
    BY <1>2, <1>4, <2>1
<1>5. CASE cacheDir = "serial"
  <2>1. \A i \in Images, p \in Parts : cache[i][p] # "whole" => <<i, p>> \in Lost
    <3>1. Passed = Images \X Parts
      BY <1>3 DEF Passed, Downloading
    <3> QED
      BY <1>5, <3>1 DEF Lost, Gaps, Partial, TypeOK, FileStates
  <2> DEFINE S == (Images \ Flat) \ used
  <2>2. \A i \in S : \E p \in Parts : <<i, p>> \in Lost
    <3>1. \A i \in S : cache[i]["raw"] # "whole" \/ cache[i]["txt"] # "whole"
      BY <1>2 DEF Surely, Detectable, Truncated, Readable
    <3> QED
      BY <2>1, <3>1 DEF Parts
  <2>3. Cardinality(S) <= Losses
    BY <1>3, <2>2, LostImages
  <2>4. ASSUME Losses = 0, used # {}
        PROVE  key' = "serial"
    <3>1. Cardinality(Lost) = 0
      BY <1>3, <2>4, LostFinite DEF SpoiltInv, Lost
    <3>2. Lost = {}
      BY <3>1, LostFinite, FS_EmptySet
    <3>3. \A i \in used : cache[i]["txt"] = "whole"
      BY <2>1, <3>2 DEF Detectable, Truncated, Readable, Parts
    <3>4. \A i \in used : found[i] = "serial"
      BY <1>2, <3>3 DEF KeysOf
    <3> QED
      BY <1>2, <2>4, <3>4
  <2> QED
    BY <1>2, <1>5, <2>3, <2>4
<1> QED
  BY <1>4, <1>5

(* What is calibrated and stored is complete up to the losses. *)
LEMMA StoredStep ==
    ASSUME TypeOK, TypeOK', DirInv, SpoiltInv, GridsInv, StoredIsComplete, [Next]_vars
    PROVE  GridsInv' /\ StoredIsComplete'
<1> DEFINE Missing(s) == Cardinality((Images \ Flat) \ s)
<1>0. /\ Missing(grids) \in Nat /\ Missing(source) \in Nat /\ Losses \in Nat /\ Losses' \in Nat
      /\ crashes' = crashes /\ failures' = failures => Losses' = Losses
      /\ crashes' = crashes /\ failures' = failures + 1 => Losses' = Losses + 1
      /\ crashes' = crashes + 1 /\ failures' = failures => Losses' = Losses + 1
  <2>1. IsFiniteSet(Images)
    BY FlowAssumption, FS_Interval DEF Images
  <2>2. IsFiniteSet((Images \ Flat) \ grids) /\ IsFiniteSet((Images \ Flat) \ source)
    BY <2>1, FS_Subset
  <2> QED
    BY <2>2, LossesStep, FS_CardinalityType
<1>1. CASE Preprocess
  <2>1. UNCHANGED <<cacheDir, cache, config, source, crashes, failures>>
        /\ pc' \in {"idle", "calibrate", "undefined"} /\ Losses' = Losses
    BY <1>1 DEF Preprocess, disk, Goto, Losses
  <2>2. StoredIsComplete'
    BY <2>1 DEF StoredIsComplete
  <2>3. CASE pc' = "calibrate"
    BY <1>1, <2>1, <2>2, <2>3, PreprocessGrids DEF GridsInv, UndefinedCaused, Storing
  <2>4. CASE pc' = "undefined"
    <3>1. Truncated # {}
      BY <1>1, <2>4 DEF Preprocess, Goto
    <3>2. Truncated' = Truncated
      BY <2>1 DEF Truncated, Readable
    <3> QED
      BY <2>2, <2>4, <3>1, <3>2 DEF GridsInv, UndefinedCaused, Storing
  <2>5. CASE pc' = "idle"
    BY <2>2, <2>5 DEF GridsInv, UndefinedCaused, Storing
  <2> QED
    BY <2>1, <2>3, <2>4, <2>5
<1>2. CASE Calibrate
  <2>1. UNCHANGED <<cacheDir, cache, config, source, grids, key, crashes, failures>> /\ pc = "calibrate"
        /\ pc' = (IF grids = {} \/ grids \in Unmatched THEN "undefined" ELSE "store") /\ Losses' = Losses
    BY <1>2 DEF Calibrate, disk, Goto, Losses
  <2>2. StoredIsComplete'
    BY <2>1 DEF StoredIsComplete
  <2>3. /\ cacheDir # "serial" => grids = {}
        /\ cacheDir = "serial" => Missing(grids) <= Losses
        /\ Losses = 0 /\ grids # {} => key = "serial"
    BY <2>1 DEF GridsInv, Storing
  <2>4. CASE grids = {}
    <3>1. (Images \ Flat) \ grids = Images \ Flat
      BY <2>4
    <3> QED
      BY <2>1, <2>2, <2>3, <2>4, <3>1 DEF GridsInv, UndefinedCaused, Storing
  <2>5. CASE grids # {}
    BY <2>1, <2>2, <2>3, <2>5 DEF GridsInv, UndefinedCaused, Storing
  <2> QED
    BY <2>4, <2>5
<1>3. CASE OpenConfig
  <2>1. UNCHANGED <<cacheDir, source, grids, key, crashes>> /\ pc = "store" /\ Losses' >= Losses
        /\ key \in Keys
    BY <1>0, <1>3 DEF OpenConfig, Fail, TypeOK
  <2>2. /\ cacheDir # "serial" => grids = {}
        /\ cacheDir = "serial" => Missing(grids) <= Losses
        /\ Losses = 0 /\ grids # {} => key = "serial"
        /\ grids # {}
    BY <2>1 DEF GridsInv, Storing
  <2>3. CASE failures' = failures /\ config' = [config EXCEPT ![key] = "partial"] /\ pc' = "storewrite"
    <3>1. Losses' = Losses
      BY <1>0, <2>1, <2>3
    <3>2. StoredIsComplete'
      BY <2>1, <2>2, <2>3, <3>1 DEF StoredIsComplete, Keys, TypeOK
    <3> QED
      BY <2>1, <2>2, <2>3, <3>1, <3>2 DEF GridsInv, UndefinedCaused, Storing
  <2>4. CASE failures' = failures + 1 /\ config' = config /\ pc' = "idle"
    <3>1. Losses' > 0 /\ Losses' \in Nat
      BY <1>0, <2>1, <2>4, FlowAssumption DEF TypeOK
    <3>2. StoredIsComplete'
      BY <1>0, <2>1, <2>4, <3>1 DEF StoredIsComplete
    <3> QED
      BY <2>4, <3>2 DEF GridsInv, UndefinedCaused, Storing
  <2> QED
    BY <1>3, <2>3, <2>4 DEF OpenConfig, Fail, Goto
<1>4. CASE WriteConfig
  <2>1. UNCHANGED <<cacheDir, grids, key, crashes>> /\ pc = "storewrite" /\ pc' = "idle" /\ Losses' >= Losses
        /\ key \in Keys
    BY <1>0, <1>4 DEF WriteConfig, Fail, TypeOK, Goto
  <2>2. GridsInv'
    BY <2>1 DEF GridsInv, UndefinedCaused, Storing
  <2>3. /\ cacheDir = "serial" /\ Missing(grids) <= Losses
        /\ Losses = 0 => key = "serial"
    BY <2>1 DEF GridsInv, Storing
  <2>4. CASE /\ failures' = failures /\ config' = [config EXCEPT ![key] = "whole"]
             /\ source' = IF key = "serial" THEN grids ELSE source
    <3>1. Losses' = Losses
      BY <1>0, <2>1, <2>4
    <3> QED
      BY <2>1, <2>2, <2>3, <2>4, <3>1 DEF StoredIsComplete, Keys, TypeOK
  <2>5. CASE failures' = failures + 1 /\ config' = config /\ source' = source
    <3>1. Losses' > 0
      BY <1>0, <2>1, <2>5, FlowAssumption DEF TypeOK
    <3> QED
      BY <1>0, <2>1, <2>2, <2>5, <3>1 DEF StoredIsComplete
  <2> QED
    BY <1>4, <2>4, <2>5 DEF WriteConfig, Fail
<1>5. CASE Crash
  <2>1. UNCHANGED <<config, source, failures>> /\ pc' = "idle" /\ crashes' = crashes + 1
    BY <1>5 DEF Crash, disk, Goto
  <2>2. Losses' > 0 /\ Losses' >= Losses
    BY <1>0, <2>1, FlowAssumption DEF TypeOK
  <2> QED
    BY <1>0, <2>1, <2>2 DEF StoredIsComplete, GridsInv, UndefinedCaused, Storing
<1>6. CASE LeaveWizard \/ CheckCalibration \/ Cancel \/ AlreadyCalibrated \/ NextImage
  <2>1. UNCHANGED <<config, source, crashes, failures>> /\ pc' \notin Storing \union {"undefined"}
    BY <1>6 DEF LeaveWizard, CheckCalibration, Cancel, AlreadyCalibrated, NextImage, disk, Goto, Storing
  <2> QED
    BY <2>1 DEF StoredIsComplete, GridsInv, UndefinedCaused, Storing, Losses
<1>7. CASE OpenTxt \/ OpenRaw \/ WriteTxt \/ WriteRaw
  <2>1. UNCHANGED <<config, source, crashes>> /\ failures' \in {failures, failures + 1}
        /\ pc' \notin Storing \union {"undefined"}
    BY <1>7 DEF OpenTxt, OpenRaw, OpenFile, WriteTxt, WriteRaw, WriteFile, Fail, Goto, Storing
  <2>2. Losses' >= Losses
    BY <1>0, <2>1, FlowAssumption DEF TypeOK
  <2> QED
    BY <1>0, <2>1, <2>2 DEF StoredIsComplete, GridsInv, UndefinedCaused, Storing
<1>8. CASE UNCHANGED vars
  <2>1. Truncated' = Truncated /\ Losses' = Losses
    BY <1>8 DEF vars, Truncated, Readable, Losses
  <2> QED
    BY <1>8, <2>1 DEF vars, StoredIsComplete, GridsInv, UndefinedCaused
<1> QED
  BY <1>1, <1>2, <1>3, <1>4, <1>5, <1>6, <1>7, <1>8 DEF Next, Step

(* The inductive invariant holds. *)
LEMMA Invariance == Spec => []IndInv
<1>1. Init => IndInv
  <2> SUFFICES ASSUME Init PROVE IndInv
    OBVIOUS
  <2>1. TypeOK
    BY FlowAssumption DEF Init, TypeOK, Images, Keys, FileStates
  <2>2. Partial \union Gaps = {}
    BY DEF Init, Partial, Gaps, Passed, Downloading
  <2>3. SpoiltInv
    BY <2>2, FS_EmptySet DEF Init, SpoiltInv, Writing, Opened, Losses
  <2> QED
    BY <2>1, <2>3 DEF Init, IndInv, DirInv, WriteInv, GridsInv, StoredIsComplete, UndefinedCaused,
                      Storing, Keys
<1>2. IndInv /\ [Next]_vars => IndInv'
  BY TypeStep, DirStep, LostStep, StoredStep DEF IndInv
<1> QED
  BY <1>1, <1>2, PTL DEF Spec

(* For any number of images, crashes, failures and attempts, and wherever  *)
(* in onCameraChanged the process dies or a file cannot be opened or       *)
(* written: a stored calibration lacks at most one image for every loss    *)
(* and, without one, is stored under the camera's own serial number; every *)
(* loss spoils at most one file; and the flow leaves defined behaviour     *)
(* only on an image a loss has truncated, on images without common lines,  *)
(* or if there is no image to use at all.                                  *)
THEOREM DamageBounded == Spec => []CrashDamageBounded
<1>1. IndInv => CrashDamageBounded
  <2> SUFFICES ASSUME IndInv PROVE OneSpoiltPerLoss
    BY DEF IndInv, CrashDamageBounded, GridsInv
  <2>1. Cardinality(Partial) <= Cardinality(Lost)
    BY LostFinite, FS_Subset DEF Lost
  <2>2. Cardinality(Lost) <= Losses + IF Writing THEN 1 ELSE 0
    BY DEF IndInv, SpoiltInv, Lost
  <2>3. Losses \in Nat
    BY FlowAssumption DEF IndInv, TypeOK, Losses
  <2> QED
    BY <2>1, <2>2, <2>3, LostFinite DEF OneSpoiltPerLoss, Writing, Opened
<1> QED
  BY <1>1, Invariance, PTL
=============================================================================
