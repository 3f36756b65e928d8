--------------------------- MODULE ProgramsProofs ---------------------------
(***************************************************************************)
(* Proofs about Programs, for any directory, any command lines and any     *)
(* number of invocations, crashes, workers and images opened.              *)
(***************************************************************************)
EXTENDS Programs, FiniteSetTheorems, TLAPS

-----------------------------------------------------------------------------
(* The files of the directory. *)

(* The files of a name. *)
LEMMA NamedFiles ==
    ASSUME NEW i
    PROVE  /\ ToSet(PhotoFiles(i)) = {<<i, "TXT">>, <<i, "128">>, <<i, "RAW">>}
           /\ ToSet(CalibFiles(i)) = {<<i, "TXT">>, <<i, "RAW">>}
BY DEF ToSet, PhotoFiles, CalibFiles

(* Every image has its three files. *)
LEMMA ImageFiles ==
    ASSUME NEW i \in Images
    PROVE  <<i, "TXT">> \in Files /\ <<i, "128">> \in Files /\ <<i, "RAW">> \in Files
<1>1. \A e \in {"TXT", "128", "RAW"} : <<i, e>> \in ToSet(PhotoFiles(i))
  BY DEF ToSet, PhotoFiles
<1> QED
  BY <1>1 DEF Files

(* They are files of the directory. *)
LEMMA FilesOf ==
    ASSUME NEW i \in Images
    PROVE  ToSet(PhotoFiles(i)) \subseteq Files /\ ToSet(CalibFiles(i)) \subseteq Files
<1>1. <<i, "TXT">> \in Files /\ <<i, "128">> \in Files /\ <<i, "RAW">> \in Files
  BY ImageFiles
<1>2. /\ ToSet(PhotoFiles(i)) = {<<i, "TXT">>, <<i, "128">>, <<i, "RAW">>}
      /\ ToSet(CalibFiles(i)) = {<<i, "TXT">>, <<i, "RAW">>}
  BY NamedFiles
<1> QED
  BY <1>1, <1>2

(* The photos and the calibration images are images. *)
LEMMA ImageNames ==
    /\ \A k \in DOMAIN Photos : Photos[k] \in Images
    /\ \A k \in DOMAIN CalibImages : CalibImages[k] \in Images
BY DEF Images, ToSet

(* There are finitely many images and files. *)
LEMMA FiniteDisk == IsFiniteSet(Images) /\ IsFiniteSet(Files)
<1>1. \A s \in Seq(STRING) : IsFiniteSet(ToSet(s))
  <2> SUFFICES ASSUME NEW s \in Seq(STRING) PROVE IsFiniteSet({s[k] : k \in 1..Len(s)})
    BY DEF ToSet
  <2>1. IsFiniteSet(1..Len(s))
    BY FS_Interval
  <2> DEFINE f == [k \in 1..Len(s) |-> s[k]]
  <2>2. f \in Surjection(1..Len(s), {s[k] : k \in 1..Len(s)})
    BY DEF Surjection
  <2> QED
    BY <2>1, <2>2, FS_Surjection
<1>2. IsFiniteSet(Images)
  BY <1>1, DiskAssumption, FS_Union DEF Images
<1>3. IsFiniteSet({"TXT", "128", "RAW", ""})
  <2>1. IsFiniteSet({"TXT"})
    BY FS_Singleton
  <2>2. IsFiniteSet({"TXT"} \union {"128"})
    BY <2>1, FS_AddElement
  <2>3. IsFiniteSet(({"TXT"} \union {"128"}) \union {"RAW"})
    BY <2>2, FS_AddElement
  <2>4. IsFiniteSet((({"TXT"} \union {"128"}) \union {"RAW"}) \union {""})
    BY <2>3, FS_AddElement
  <2>5. (({"TXT"} \union {"128"}) \union {"RAW"}) \union {""} = {"TXT", "128", "RAW", ""}
    OBVIOUS
  <2> QED
    BY <2>4, <2>5
<1>4. IsFiniteSet((Images \union Others) \X {"TXT", "128", "RAW", ""})
  BY <1>2, <1>3, DiskAssumption, FS_Union, FS_Product
<1>5. Files \subseteq (Images \union Others) \X {"TXT", "128", "RAW", ""}
  <2> SUFFICES ASSUME NEW f \in Files
               PROVE  f \in (Images \union Others) \X {"TXT", "128", "RAW", ""}
    OBVIOUS
  <2>1. ASSUME NEW i \in Images, f \in ToSet(PhotoFiles(i))
        PROVE  \E n \in Images \union Others, e \in {"TXT", "128", "RAW", ""} : f = <<n, e>>
    <3>1. f \in {<<i, "TXT">>, <<i, "128">>, <<i, "RAW">>}
      BY <2>1, NamedFiles
    <3>2. \E e \in {"TXT", "128", "RAW", ""} : f = <<i, e>>
      BY <3>1
    <3> QED
      BY <3>2
  <2>2. ASSUME NEW i \in Others, f = <<i, "">>
        PROVE  \E n \in Images \union Others, e \in {"TXT", "128", "RAW", ""} : f = <<n, e>>
    BY <2>2
  <2>3. \/ \E i \in Images : f \in ToSet(PhotoFiles(i))
        \/ \E i \in Others : f = <<i, "">>
    BY Zenon DEF Files
  <2>4. PICK n \in Images \union Others, e \in {"TXT", "128", "RAW", ""} : f = <<n, e>>
    BY <2>1, <2>2, <2>3
  <2>5. <<n, e>> \in (Images \union Others) \X {"TXT", "128", "RAW", ""}
    OBVIOUS
  <2> QED
    BY <2>4, <2>5
<1> QED
  BY <1>2, <1>4, <1>5, FS_Subset

(* What is downloaded for one photo, or for a file. *)
LEMMA PhotoDownloads ==
    ASSUME NEW i \in Images
    PROVE  /\ PhotoFiles(i) \in Seq(Files) /\ PhotoFiles(i) # << >>
           /\ \A n \in DOMAIN PhotoFiles(i) : PhotoFiles(i)[n][2] = "RAW" =>
                 \E m \in DOMAIN PhotoFiles(i) : m < n /\ PhotoFiles(i)[m] = <<PhotoFiles(i)[n][1], "TXT">>
<1>1. <<i, "TXT">> \in Files /\ <<i, "128">> \in Files /\ <<i, "RAW">> \in Files
  BY ImageFiles
<1> QED
  BY <1>1 DEF PhotoFiles

(* What is downloaded for the calibration images: all their files, and     *)
(* the metadata in front of every image.                                   *)
LEMMA CalibrationDownloads ==
    /\ CalibDownloads \in Seq(Files) /\ CalibDownloads # << >>
    /\ \A n \in DOMAIN CalibDownloads : CalibDownloads[n][2] = "RAW" =>
          \E m \in DOMAIN CalibDownloads : m < n /\ CalibDownloads[m] = <<CalibDownloads[n][1], "TXT">>
    /\ UNION {ToSet(CalibFiles(i)) : i \in ToSet(CalibImages)} \subseteq ToSet(CalibDownloads)
<1> DEFINE N == Len(CalibImages)
<1>1. N \in Nat /\ N > 0 /\ DOMAIN CalibImages = 1..N
  BY DiskAssumption
<1>2. DOMAIN CalibDownloads = 1..(2 * N)
  BY DEF CalibDownloads
<1>3. \A k \in 1..N : /\ CalibDownloads[2 * k - 1] = <<CalibImages[k], "TXT">>
                      /\ CalibDownloads[2 * k] = <<CalibImages[k], "RAW">>
  <2> SUFFICES ASSUME NEW k \in 1..N
               PROVE  /\ CalibDownloads[2 * k - 1] = <<CalibImages[k], "TXT">>
                      /\ CalibDownloads[2 * k] = <<CalibImages[k], "RAW">>
    OBVIOUS
  <2>1. /\ 2 * k - 1 \in 1..(2 * N) /\ 2 * k \in 1..(2 * N)
        /\ ((2 * k - 1) + 1) \div 2 = k /\ (2 * k + 1) \div 2 = k
        /\ (2 * k - 1) % 2 = 1 /\ (2 * k) % 2 # 1
    BY <1>1
  <2> QED
    BY <2>1 DEF CalibDownloads, CalibFiles
<1>4. \A n \in 1..(2 * N) : \E k \in 1..N : n = 2 * k - 1 \/ n = 2 * k
  <2> SUFFICES ASSUME NEW n \in 1..(2 * N)
               PROVE  \E k \in 1..N : n = 2 * k - 1 \/ n = 2 * k
    OBVIOUS
  <2>1. (n + 1) \div 2 \in 1..N /\ (n = 2 * ((n + 1) \div 2) - 1 \/ n = 2 * ((n + 1) \div 2))
    BY <1>1
  <2> QED
    BY <2>1
<1>5. \A n \in 1..(2 * N) : CalibDownloads[n] \in Files
  <2> SUFFICES ASSUME NEW n \in 1..(2 * N) PROVE CalibDownloads[n] \in Files
    OBVIOUS
  <2>1. PICK k \in 1..N : n = 2 * k - 1 \/ n = 2 * k
    BY <1>4
  <2>2. CalibImages[k] \in Images
    BY <1>1, ImageNames
  <2>3. CalibDownloads[n] \in {<<CalibImages[k], "TXT">>, <<CalibImages[k], "RAW">>}
    BY <1>3, <2>1
  <2> QED
    BY <2>2, <2>3, ImageFiles
<1>6. CalibDownloads \in Seq(Files) /\ CalibDownloads # << >>
  <2>1. CalibDownloads \in [1..(2 * N) -> Files]
    BY <1>5 DEF CalibDownloads
  <2> QED
    BY <1>1, <2>1
<1>7. ASSUME NEW n \in DOMAIN CalibDownloads, CalibDownloads[n][2] = "RAW"
      PROVE  \E m \in DOMAIN CalibDownloads : m < n /\ CalibDownloads[m] = <<CalibDownloads[n][1], "TXT">>
  <2>1. PICK k \in 1..N : n = 2 * k - 1 \/ n = 2 * k
    BY <1>2, <1>4
  <2>2. n = 2 * k
    BY <1>3, <1>7, <2>1
  <2>3. 2 * k - 1 \in DOMAIN CalibDownloads /\ 2 * k - 1 < n
    BY <1>1, <1>2, <2>2
  <2>4. CalibDownloads[n] = <<CalibImages[k], "RAW">>
    BY <1>3, <2>2
  <2>5. CalibDownloads[2 * k - 1] = <<CalibImages[k], "TXT">>
    BY <1>3
  <2> QED
    BY <2>3, <2>4, <2>5
<1>8. UNION {ToSet(CalibFiles(i)) : i \in ToSet(CalibImages)} \subseteq ToSet(CalibDownloads)
  <2>1. ASSUME NEW k \in 1..N
        PROVE  ToSet(CalibFiles(CalibImages[k])) \subseteq ToSet(CalibDownloads)
    <3>1. 2 * k - 1 \in DOMAIN CalibDownloads /\ 2 * k \in DOMAIN CalibDownloads
      BY <1>1, <1>2
    <3> QED
      BY <1>3, <3>1, NamedFiles, ZenonT(60) DEF ToSet
  <2>2. \A i \in ToSet(CalibImages) : \E k \in 1..N : i = CalibImages[k]
    BY <1>1 DEF ToSet
  <2> QED
    BY <2>1, <2>2
<1> QED
  BY <1>6, <1>7, <1>8

-----------------------------------------------------------------------------
(* The program. *)

(* What the assumption says of the command lines, and of the numbers. *)
LEMMA CommandLines ==
    ASSUME NEW options \in Invocations
    PROVE  /\ options \in Seq(Options)
           /\ \A k \in DOMAIN options : options[k].letter = "f" => options[k].arg \in Others
BY ProgramAssumption, Zenon

LEMMA Bounds ==
    /\ Len(Photos) <= MaxPhotos /\ Workers \in Nat
    /\ \A list \in Listings : list.linelen > 0 =>
          (list.size - FirstEntry(list)) \div list.linelen <= Len(Photos)
BY ProgramAssumption, Zenon

(* The names of what can be lost are different ones. *)
LEMMA Names ==
    /\ \A f \in Files : f # CalibrationFile /\ \A i \in Images : f # Picture(i)
    /\ \A i \in Images : Picture(i) # CalibrationFile /\ \A j \in Images : Picture(i) = Picture(j) => i = j
<1>1. ASSUME NEW f \in Files PROVE f[2] \in {"TXT", "128", "RAW", ""}
  <2>1. ASSUME NEW i \in Images, f \in ToSet(PhotoFiles(i)) PROVE f[2] \in {"TXT", "128", "RAW", ""}
    <3>1. f \in {<<i, "TXT">>, <<i, "128">>, <<i, "RAW">>}
      BY <2>1, NamedFiles
    <3>2. f[2] = "TXT" \/ f[2] = "128" \/ f[2] = "RAW"
      BY <3>1
    <3> QED
      BY <3>2
  <2>2. ASSUME NEW i \in Others, f = <<i, "">> PROVE f[2] \in {"TXT", "128", "RAW", ""}
    BY <2>2
  <2>3. \/ \E i \in Images : f \in ToSet(PhotoFiles(i))
        \/ \E i \in Others : f = <<i, "">>
    BY Zenon DEF Files
  <2> QED
    BY <2>1, <2>2, <2>3
<1>2. CalibrationFile[2] = "json" /\ \A i \in Images : Picture(i)[1] = i /\ Picture(i)[2] = "png"
  BY DEF CalibrationFile, Picture
<1> QED
  BY <1>1, <1>2

(* The viewer changes nothing the program works with. *)
LEMMA ViewerQuiet ==
    ASSUME [Next]_vars
    PROVE  CliNext \/ UNCHANGED <<disk, cliVars>>
BY DEF Next, vars, OpenRaw, OpenMetadata, ShowImage, Dereference, CloseViewer, ViewerZoom,
       zoomIn, zoomOut, zoomFit, zoomOriginal, resizeEvent, Zoom

(* The parts of an option. *)
LEMMA OptionType ==
    ASSUME args \in Seq(Options), optind \in Nat \ {0}, optind <= Len(args)
    PROVE  /\ optind \in DOMAIN args /\ Option \in Options
           /\ Option.letter \in STRING /\ Option.id \in Nat /\ Option.arg \in STRING
<1>1. optind \in DOMAIN args /\ Option \in Options
  BY DEF Option
<1> QED
  BY <1>1 DEF Options

(* The quotient of two numbers lies between its multiples. *)
LEMMA Quotient ==
    ASSUME NEW a \in Nat, NEW b \in Nat \ {0}, NEW n \in Nat, n * b <= a
    PROVE  n <= a \div b /\ (a < n * b + b => a \div b = n)
<1> DEFINE q == a \div b
<1>1. q \in Nat /\ b * q <= a /\ a < b * q + b
  OBVIOUS
<1>2. ASSUME q < n PROVE FALSE
  <2>1. b * (q + 1) <= b * n
    BY <1>1, <1>2
  <2> QED
    BY <1>1, <2>1
<1>3. ASSUME a < n * b + b, n < q PROVE FALSE
  <2>1. b * (n + 1) <= b * q
    BY <1>1, <1>3
  <2> QED
    BY <1>1, <1>3, <2>1
<1> QED
  BY <1>1, <1>2, <1>3

(* A list of a bytes, of which n entries of length b were read: where the  *)
(* loop ends, and where it goes on.                                        *)
LEMMA Loop ==
    ASSUME NEW a \in Nat, NEW b \in Nat, NEW n \in Nat, n * b <= a
    PROVE  /\ a < n * b + b => b > 0 /\ n = a \div b
           /\ b > 0 /\ n * b + b <= a => n + 1 <= a \div b
           /\ b > 0 => a \div b \in Nat
<1>1. n * b \in Nat /\ (n + 1) * b = n * b + b
  OBVIOUS
<1>2. ASSUME a < n * b + b PROVE b > 0 /\ n = a \div b
  <2>1. b > 0
    BY <1>1, <1>2
  <2> QED
    BY <1>2, <2>1, Quotient
<1>3. ASSUME b > 0, n * b + b <= a PROVE n + 1 <= a \div b
  <2>1. n + 1 \in Nat /\ (n + 1) * b <= a
    BY <1>1, <1>3
  <2> QED
    BY <1>3, <2>1, Quotient
<1> QED
  BY <1>2, <1>3

(* When the loop of parseFileList ends, it has found the entries of the    *)
(* list, which are no more than the camera has photos.                     *)
LEMMA ListEnd ==
    ASSUME TypeOK, ParseInv, pc = "parse"
    PROVE  /\ ~MoreEntries => /\ listing.linelen > 0
                             /\ Len(photos) = (listing.size - FirstEntry(listing)) \div listing.linelen
                             /\ DOMAIN photos \subseteq DOMAIN Photos
           /\ listing.linelen > 0 /\ MoreEntries => Len(photos) < MaxPhotos
<1>1. /\ listing \in Listings /\ listing.linelen \in Nat /\ listing.size \in Nat
      /\ FirstEntry(listing) \in Nat /\ Len(photos) \in Nat /\ DOMAIN photos = 1..Len(photos)
      /\ pos = FirstEntry(listing) + Len(photos) * listing.linelen /\ pos <= listing.size
  BY DEF ParseInv, TypeOK, Entry, Lists, FirstEntry, HEADER_SIZE
<1>2. Len(Photos) \in Nat /\ DOMAIN Photos = 1..Len(Photos) /\ MaxPhotos \in Nat /\ Len(Photos) <= MaxPhotos
  BY DiskAssumption, ListAssumption, Bounds
<1>3. PICK L \in Nat : L = listing.linelen
  BY <1>1
<1>4. PICK n \in Nat : n = Len(photos)
  BY <1>1
<1>5. PICK first \in Nat : first = FirstEntry(listing)
  BY <1>1
<1>6. PICK size \in Nat : size = listing.size
  BY <1>1
<1>7. n * L \in Nat /\ pos = first + n * L /\ pos <= size
  BY <1>1, <1>3, <1>4, <1>5, <1>6
<1>8. PICK a \in Nat : a = size - first /\ n * L <= a
  BY <1>7
<1>9. L > 0 => a \div L <= Len(Photos)
  BY <1>1, <1>3, <1>5, <1>6, <1>8, Bounds
<1>10. MoreEntries <=> n * L + L <= a
  BY <1>3, <1>6, <1>7, <1>8 DEF MoreEntries
<1>11. /\ ~MoreEntries => L > 0 /\ n = a \div L
       /\ L > 0 /\ MoreEntries => n + 1 <= a \div L
       /\ L > 0 => a \div L \in Nat
  BY <1>7, <1>8, <1>10, Loop
<1>12. ~MoreEntries => DOMAIN photos \subseteq DOMAIN Photos
  BY <1>1, <1>2, <1>4, <1>9, <1>11
<1>13. L > 0 /\ MoreEntries => n < MaxPhotos
  BY <1>2, <1>9, <1>11
<1> QED
  BY <1>3, <1>4, <1>5, <1>6, <1>8, <1>11, <1>12, <1>13

(* Type correctness is kept by every step. *)
LEMMA TypeStep ==
    ASSUME TypeOK, OptionInv, TodoInv, ParseInv, [Next]_vars
    PROVE  TypeOK'
<1> USE DEF disk, control, past, work, cliVars, listVars, Goto, Ended
<1> DEFINE CanBeLost == Files \union {CalibrationFile} \union {Picture(i) : i \in Images}
<1>0. lost \subseteq CanBeLost /\ \A f \in CanBeLost : Fails(f) => lost' \subseteq CanBeLost
  BY DEF TypeOK, Fails
<1>1. ASSUME NEW options \in Invocations, Invoke(options)
      PROVE  TypeOK'
  <2>1. args' \in Seq(Options) /\ pc' \in {"ended", "prepare"}
    BY <1>1, CommandLines DEF Invoke
  <2> QED
    BY <1>1, <2>1 DEF Invoke, TypeOK
<1>2. CASE Vanish
  <2>1. listing' \in Lists
    BY <1>2 DEF Vanish, NoList, Lists
  <2>2. args' \in Seq(Options) /\ todo' \in Seq(Files) /\ photos' \in Seq(Photo)
    BY <1>2 DEF Vanish
  <2>3. /\ pc' = "idle" /\ optind' = 1 /\ tasks' = {} /\ busy' = {}
        /\ loaded' = "empty" /\ pos' = 0 /\ UNCHANGED <<disk, crashes, lost>>
    BY <1>2 DEF Vanish
  <2>4. camera' \in BOOLEAN
    BY <1>2, Zenon DEF Vanish
  <2> QED
    BY <2>1, <2>2, <2>3, <2>4 DEF TypeOK
<1>3. CASE Prepare
  <2>1. /\ pc' \in {"execute", "prepare", "ended"} /\ optind' \in {1, optind, optind + 1}
        /\ camera' = camera \/ camera' = TRUE
        /\ UNCHANGED <<disk, hung, control, work, listVars>>
    BY <1>3 DEF Prepare
  <2>2. optind \in Nat \ {0} /\ camera \in BOOLEAN
    BY DEF TypeOK
  <2>3. optind' \in Nat \ {0}
    BY <2>1, <2>2
  <2>4. camera' \in BOOLEAN
    BY <2>1, <2>2, Zenon
  <2> QED
    BY <2>1, <2>3, <2>4 DEF TypeOK
<1>4. CASE PrintInformation
  <2>1. /\ pc' \in {"execute", "undefined"} /\ optind' = optind + 1
        /\ UNCHANGED <<disk, camera, hung, control, work, listVars>>
    BY <1>4 DEF PrintInformation, UseCamera
  <2>2. optind' \in Nat \ {0}
    BY <2>1 DEF TypeOK
  <2> QED
    BY <2>1, <2>2 DEF TypeOK
<1>19. CASE RequestList
  BY <1>19 DEF RequestList, UseCamera, TypeOK
<1>20. CASE NoDirectory
  BY <1>20 DEF NoDirectory, TypeOK
<1>21. CASE EndOptions
  BY <1>21 DEF EndOptions, TypeOK
<1>5. CASE downloadFile
  <2>0. args \in Seq(Options) /\ optind \in Nat \ {0} /\ optind <= Len(args) /\ Option.letter = "f"
    BY <1>5 DEF downloadFile, Executes, TypeOK
  <2>1. optind \in DOMAIN args
    BY <2>0
  <2>2. <<Option.arg, "">> \in Files
    <3>1. Option.arg \in Others
      BY <2>0, <2>1 DEF OptionInv, Option
    <3> QED
      BY <3>1 DEF Files
  <2>3. \A f \in Files : <<f>> \in Seq(Files)
    OBVIOUS
  <2>4. todo' \in Seq(Files)
    BY <1>5, <2>2, <2>3, Zenon DEF downloadFile
  <2> QED
    BY <1>5, <2>4 DEF downloadFile, UseCamera, TypeOK
<1>6. CASE downloadCalib
  BY <1>6, CalibrationDownloads DEF downloadCalib, UseCamera, TypeOK
<1>7. CASE Receive
  <2>1. listing' \in Lists /\ pos' \in Nat /\ photos' \in Seq(Photo)
    BY <1>7, ListAssumption DEF Receive, ReceiveList, FirstEntry, HEADER_SIZE, Lists
  <2> QED
    BY <1>7, <2>1 DEF Receive, TypeOK
<1>8. CASE Parse
  <2>1. pos \in Nat /\ listing \in Lists /\ listing.linelen \in Nat /\ listing.size \in Nat
    BY DEF TypeOK, Lists
  <2>2. [at |-> pos, inside |-> Inside] \in Photo
    BY <2>1 DEF Photo, Inside
  <2>3. pos' \in Nat /\ photos' \in Seq(Photo)
    BY <1>8, <2>1, <2>2 DEF Parse, ParseEntry, TypeOK
  <2> QED
    BY <1>8, <2>3 DEF Parse, ParseEntry, TypeOK
<1>9. CASE NoMemory
  BY <1>9 DEF NoMemory, TypeOK
<1>10. CASE UseList
  <2>1. CASE todo' = todo
    BY <1>10, <2>1 DEF UseList, TypeOK
  <2>2. CASE todo' # todo
    <3>1. Option.id + 1 \in DOMAIN photos /\ todo' = PhotoFiles(Photos[Option.id + 1])
      BY <1>10, <2>2 DEF UseList
    <3>2. DOMAIN photos \subseteq DOMAIN Photos
      BY <1>10, ListEnd DEF UseList
    <3>3. todo' \in Seq(Files)
      BY <3>1, <3>2, ImageNames, PhotoDownloads
    <3> QED
      BY <1>10, <3>3 DEF UseList, TypeOK
  <2> QED
    BY <2>1, <2>2
<1>11. CASE OpenFile
  <2>1. todo \in Seq(Files) /\ todo # << >>
    BY <1>11 DEF OpenFile, TypeOK, TodoInv
  <2>2. Head(todo) \in CanBeLost
    BY <2>1
  <2>3. lost' \subseteq CanBeLost
    BY <1>0, <1>11, <2>2 DEF OpenFile
  <2> QED
    BY <1>11, <2>3 DEF OpenFile, TypeOK, FileStates
<1>12. CASE TransferFile
  <2>1. todo \in Seq(Files) /\ todo # << >>
    BY <1>12 DEF TransferFile, TypeOK, TodoInv
  <2>2. Tail(todo) \in Seq(Files) /\ Head(todo) \in CanBeLost
    BY <2>1
  <2>3. lost' \subseteq CanBeLost
    BY <1>0, <1>12, <2>2 DEF TransferFile
  <2> QED
    BY <1>12, <2>2, <2>3 DEF TransferFile, TypeOK, FileStates
<1>13. CASE calibrate
  BY <1>13 DEF calibrate, TypeOK
<1>14. CASE OpenCalibration \/ WriteCalibration
  <2>1. lost' \subseteq CanBeLost
    BY <1>0, <1>14 DEF OpenCalibration, WriteCalibration
  <2> QED
    BY <1>14, <2>1 DEF OpenCalibration, WriteCalibration, TypeOK, FileStates
<1>22. CASE EndProcess \/ Crash \/ Hang
  BY <1>22 DEF EndProcess, Crash, Hang, TypeOK
<1>15. CASE process
  BY <1>15 DEF process, GridSizes, TypeOK, FileStates, Present
<1>16. ASSUME NEW i \in Images, StartImage(i)
       PROVE  TypeOK'
  <2>1. lost' \subseteq CanBeLost
    BY <1>0, <1>16 DEF StartImage
  <2> QED
    BY <1>16, <2>1 DEF StartImage, TypeOK, FileStates
<1>17. ASSUME NEW i \in Images, FinishImage(i)
       PROVE  TypeOK'
  <2>1. lost' \subseteq CanBeLost
    BY <1>0, <1>17 DEF FinishImage
  <2> QED
    BY <1>17, <2>1 DEF FinishImage, TypeOK, FileStates
<1>18. CASE UNCHANGED <<disk, cliVars>>
  BY <1>18 DEF TypeOK
<1> QED
  BY <1>1, <1>2, <1>3, <1>4, <1>5, <1>6, <1>7, <1>8, <1>9, <1>10, <1>11, <1>12, <1>13, <1>14, <1>15,
     <1>16, <1>17, <1>18, <1>19, <1>20, <1>21, <1>22, ViewerQuiet DEF CliNext, CliStep

(* After the first pass an action of main keeps the options and the        *)
(* camera, and does not return to it.                                      *)
LEMMA SecondPass ==
    ASSUME CliStep, ~Prepare
    PROVE  /\ pc \notin {"idle", "prepare", "ended", "undefined"} /\ pc' \notin {"idle", "prepare"}
           /\ UNCHANGED <<args, camera>>
<1> USE DEF control, past, Goto, Ended, Executes, UseCamera
<1>1. CASE PrintInformation \/ RequestList \/ downloadFile \/ downloadCalib \/ NoDirectory \/ EndOptions
  BY <1>1 DEF PrintInformation, RequestList, downloadFile, downloadCalib, NoDirectory, EndOptions
<1>2. CASE Receive \/ Parse \/ NoMemory \/ UseList \/ OpenFile \/ TransferFile
  BY <1>2 DEF Receive, Parse, NoMemory, UseList, OpenFile, TransferFile
<1>3. CASE calibrate \/ OpenCalibration \/ WriteCalibration \/ process \/ EndProcess
  BY <1>3 DEF calibrate, OpenCalibration, WriteCalibration, process, EndProcess
<1>4. ASSUME NEW i \in Images, StartImage(i) \/ FinishImage(i)
      PROVE  /\ pc \notin {"idle", "prepare", "ended", "undefined"} /\ pc' \notin {"idle", "prepare"}
             /\ UNCHANGED <<args, camera>>
  BY <1>4 DEF StartImage, FinishImage
<1> QED
  BY <1>1, <1>2, <1>3, <1>4 DEF CliStep

(* The camera is ready for the options in front of optind, and after the   *)
(* first pass for all of them.                                             *)
LEMMA CameraStep ==
    ASSUME TypeOK, CameraInv, OptionInv, [Next]_vars
    PROVE  CameraInv'
<1> USE DEF control, Goto, Ended
<1>0. args \in Seq(Options) /\ DOMAIN args = 1..Len(args) /\ optind \in Nat \ {0}
  BY DEF TypeOK
<1>1. ASSUME NEW options \in Invocations, Invoke(options)
      PROVE  CameraInv'
  <2>1. options \in Seq(Options) /\ DOMAIN options = 1..Len(options)
    BY CommandLines
  <2>2. optind' = 1 /\ args' = options /\ pc' \in {"prepare", "ended"}
    BY <1>1 DEF Invoke, OptionInv
  <2> QED
    BY <2>1, <2>2 DEF CameraInv
<1>2. CASE Vanish \/ Crash
  BY <1>2 DEF Vanish, Crash, CameraInv
<1>3. CASE Prepare
  <2>1. pc = "prepare" /\ args' = args
    BY <1>3 DEF Prepare
  <2>2. \A k \in DOMAIN args : k < optind /\ args[k].letter \in CameraOptions => camera
    BY <2>1 DEF CameraInv
  <2>3. CASE optind > Len(args)
    <3>1. pc' = "execute" /\ camera' = camera
      BY <1>3, <2>3 DEF Prepare
    <3>2. \A k \in DOMAIN args : k < optind
      BY <1>0, <2>3
    <3> QED
      BY <2>1, <2>2, <3>1, <3>2 DEF CameraInv
  <2>4. CASE ~(optind > Len(args)) /\ Option.letter \notin CameraOptions
    <3>1. pc' = "prepare" /\ camera' = camera /\ optind' = optind + 1
      BY <1>3, <2>1, <2>4 DEF Prepare
    <3>2. \A k \in DOMAIN args : k < optind + 1 => k < optind \/ k = optind
      BY <1>0
    <3> QED
      BY <2>1, <2>2, <2>4, <3>1, <3>2 DEF CameraInv, Option
  <2>5. CASE ~(optind > Len(args)) /\ Option.letter \in CameraOptions
    BY <1>3, <2>1, <2>5 DEF Prepare, CameraInv
  <2> QED
    BY <2>3, <2>4, <2>5
<1>4. CASE CliStep /\ ~Prepare
  BY <1>4, SecondPass DEF CameraInv
<1>5. CASE Hang \/ UNCHANGED <<disk, cliVars>>
  BY <1>5 DEF Hang, cliVars, CameraInv
<1> QED
  BY <1>1, <1>2, <1>3, <1>4, <1>5, ViewerQuiet DEF CliNext

(* Where main is tells the option it executes. *)
LEMMA OptionStep ==
    ASSUME TypeOK, CameraInv, OptionInv, ParseInv, [Next]_vars
    PROVE  OptionInv'
<1> USE DEF control, Goto, Ended, Option
<1>0. \A k \in DOMAIN args : args[k].letter = "f" => args[k].arg \in Others
  BY DEF OptionInv
<1>1. ASSUME NEW options \in Invocations, Invoke(options)
      PROVE  OptionInv'
  <2>1. \A k \in DOMAIN options : options[k].letter = "f" => options[k].arg \in Others
    BY CommandLines
  <2>2. args' = options /\ pc' \in {"prepare", "ended"} /\ (pc' # "ended" => status' = "none")
    BY <1>1 DEF Invoke, OptionInv
  <2> QED
    BY <2>1, <2>2 DEF OptionInv
<1>2. CASE Vanish
  BY <1>2 DEF Vanish, OptionInv
<1>3. CASE Crash
  BY <1>3 DEF Crash, OptionInv
<1>4. CASE Hang \/ UNCHANGED <<disk, cliVars>>
  BY <1>4 DEF Hang, cliVars, OptionInv
<1>5. CASE Prepare
  BY <1>5 DEF Prepare, OptionInv
<1>6. CASE CliStep /\ ~Prepare
  <2>1. args' = args /\ pc # "idle" /\ pc # "ended" /\ status = "none"
    BY <1>6, SecondPass DEF OptionInv
  <2>2. CASE PrintInformation \/ RequestList \/ downloadFile \/ NoDirectory \/ EndOptions
    BY <2>1, <2>2 DEF PrintInformation, RequestList, downloadFile, NoDirectory, EndOptions,
       Executes, UseCamera, OptionInv
  <2>3. CASE downloadCalib
    BY <2>1, <2>3 DEF downloadCalib, Executes, UseCamera, OptionInv
  <2>4. CASE Receive \/ Parse \/ NoMemory
    BY <2>1, <2>4 DEF Receive, Parse, NoMemory, OptionInv
  <2>5. CASE UseList
    <3>1. DOMAIN photos \subseteq DOMAIN Photos
      BY <2>5, ListEnd DEF UseList
    <3> QED
      BY <2>1, <2>5, <3>1 DEF UseList, OptionInv
  <2>6. CASE OpenFile \/ TransferFile
    BY <2>1, <2>6 DEF OpenFile, TransferFile, OptionInv
  <2>7. CASE calibrate
    BY <2>1, <2>7 DEF calibrate, Executes, OptionInv
  <2>8. CASE OpenCalibration \/ WriteCalibration \/ EndProcess
    BY <2>1, <2>8 DEF OpenCalibration, WriteCalibration, EndProcess, OptionInv
  <2>9. CASE process
    BY <2>1, <2>9 DEF process, Executes, OptionInv
  <2>10. ASSUME NEW i \in Images, StartImage(i) \/ FinishImage(i)
         PROVE  OptionInv'
    BY <2>1, <2>10 DEF StartImage, FinishImage, OptionInv
  <2> QED
    BY <1>6, <2>2, <2>3, <2>4, <2>5, <2>6, <2>7, <2>8, <2>9, <2>10 DEF CliStep
<1> QED
  BY <1>1, <1>2, <1>3, <1>4, <1>5, <1>6, ViewerQuiet DEF CliNext

(* The partial files and pictures are finitely many. *)
LEMMA PartialFinite ==
    /\ IsFiniteSet(PartialFiles) /\ IsFiniteSet(PartialFlat)
    /\ IsFiniteSet(Damaged) /\ Cardinality(Damaged) \in Nat
<1>1. PartialFiles \subseteq Files /\ PartialFlat \subseteq Images /\ Damaged \subseteq PartialFiles
  BY DEF PartialFiles, PartialFlat, Damaged
<1>2. IsFiniteSet(PartialFiles) /\ IsFiniteSet(PartialFlat)
  BY <1>1, FiniteDisk, FS_Subset
<1>3. IsFiniteSet(Damaged)
  BY <1>1, <1>2, FS_Subset
<1> QED
  BY <1>2, <1>3, FS_CardinalityType

(* The camera lacks no file of an image. *)
LEMMA NotMissing ==
    ASSUME NEW f, f[2] # ""
    PROVE  f \notin Missing
<1>1. \A name : <<name, "">>[2] = ""
  OBVIOUS
<1>2. Missing \subseteq {<<name, "">> : name \in Others}
  BY ProgramAssumption, Zenon
<1> QED
  BY <1>1, <1>2, Zenon

(* A RAW file that is not being downloaded is partial only after a crash   *)
(* or a failed write.                                                      *)
LEMMA PartialRaw ==
    ASSUME TypeOK, SpoiltInv, pc # "transfer", NEW i \in Images, files[<<i, "RAW">>] = "partial"
    PROVE  crashes > 0 \/ <<i, "RAW">> \in lost
<1>1. crashes \in Nat /\ IsFiniteSet(Damaged) /\ Cardinality(Damaged) \in Nat
  BY PartialFinite DEF TypeOK
<1>2. <<i, "RAW">> \in PartialFiles
  BY ImageFiles DEF PartialFiles
<1>3. <<i, "RAW">> \notin Missing
  <2>1. <<i, "RAW">>[2] # ""
    OBVIOUS
  <2> QED
    BY <2>1, NotMissing
<1>4. CASE <<i, "RAW">> \notin lost
  <2>1. <<i, "RAW">> \in Damaged
    BY <1>2, <1>3, <1>4 DEF Damaged, InWork
  <2>2. Cardinality(Damaged) # 0
    BY <1>1, <2>1, FS_EmptySet
  <2> QED
    BY <1>1, <2>2 DEF SpoiltInv
<1> QED
  BY <1>4

(* The same for calibration.json. *)
LEMMA PartialCalibration ==
    ASSUME TypeOK, SpoiltInv, pc # "write", calibration = "partial"
    PROVE  crashes > 0 \/ CalibrationFile \in lost
<1>1. crashes \in Nat /\ Cardinality(Damaged) \in Nat
  BY PartialFinite DEF TypeOK
<1> QED
  BY <1>1 DEF SpoiltInv, CalibrationDamaged

(* What undefined behaviour is due to. *)
LEMMA UndefinedStep ==
    ASSUME TypeOK, CameraInv, OptionInv, ParseInv, SpoiltInv, FlatInv, UndefinedExplained, [Next]_vars
    PROVE  UndefinedExplained'
<1> USE DEF control, past, disk, listVars, Goto, Ended, Option
<1>1. CASE pc = "undefined"
  <2>1. UNCHANGED <<disk, cliVars>>
    <3>1. ~CliStep
      BY <1>1, SecondPass DEF Prepare
    <3> QED
      BY <1>1, <3>1, ViewerQuiet DEF CliNext, Invoke, Vanish, Crash, Active, Hang, Waiting, Executes
  <2> QED
    BY <1>1, <2>1 DEF UndefinedExplained, cliVars, work, Surely, Truncated, Usable, Present
<1>2. CASE pc # "undefined" /\ pc' = "undefined"
  <2>1. CliStep /\ ~Prepare
    BY <1>2, ViewerQuiet DEF CliNext, Invoke, Vanish, Crash, Hang, Prepare, cliVars
  <2>2. args' = args /\ args \in Seq(Options) /\ optind \in Nat \ {0}
    BY <2>1, SecondPass DEF TypeOK
  <2>3. ASSUME Executes(CameraOptions) PROVE camera
    <3>1. optind \in DOMAIN args
      BY <2>3 DEF Executes, TypeOK
    <3> QED
      BY <2>3, <3>1 DEF Executes, CameraInv
  <2>4. UseList \/ calibrate \/ Parse \/ \E i \in Images : StartImage(i)
    <3>1. ~PrintInformation /\ ~RequestList /\ ~downloadFile /\ ~downloadCalib
      BY <1>2, <2>3 DEF PrintInformation, RequestList, downloadFile, downloadCalib, UseCamera, Executes, CameraOptions
    <3>2. ~NoDirectory /\ ~EndOptions /\ ~Receive /\ ~NoMemory /\ ~OpenFile /\ ~TransferFile
      BY <1>2 DEF NoDirectory, EndOptions, Receive, NoMemory, OpenFile, TransferFile
    <3>3. ~OpenCalibration /\ ~WriteCalibration /\ ~process /\ ~EndProcess
      BY <1>2 DEF OpenCalibration, WriteCalibration, process, EndProcess
    <3>4. \A i \in Images : ~FinishImage(i)
      BY <1>2 DEF FinishImage
    <3> QED
      BY <2>1, <3>1, <3>2, <3>3, <3>4 DEF CliStep
  <2>5. CASE UseList
    <3>1. optind <= Len(args)
      BY <2>5 DEF UseList, OptionInv
    <3>2. Option.letter = "d" /\ Option.id \in Nat /\ Option.id + 1 \notin DOMAIN photos
      BY <1>2, <2>2, <2>5, <3>1, OptionType DEF UseList, OptionInv
    <3>3. DOMAIN photos = 1..Len(photos) /\ Len(photos) \in Nat
      BY DEF TypeOK
    <3>4. Option.id >= Len(photos)
      BY <3>2, <3>3
    <3> QED
      BY <2>2, <2>5, <3>2, <3>4 DEF UseList, UndefinedExplained
  <2>6. CASE calibrate
    <3>1. Option.letter = "c" /\ pc = "execute" /\ UNCHANGED <<optind, files, crashes, lost>>
      BY <2>6 DEF calibrate, Executes
    <3>2. CASE Truncated # {}
      <4>1. PICK i \in Images : files[<<i, "RAW">>] = "partial"
        BY <3>2 DEF Truncated, Usable, Present
      <4>2. crashes > 0 \/ <<i, "RAW">> \in lost
        BY <3>1, <4>1, PartialRaw
      <4> QED
        BY <2>2, <3>1, <4>2 DEF UndefinedExplained
    <3>3. CASE Truncated = {}
      <4>1. PICK used \in SUBSET (Surely \union Truncated) : Surely \subseteq used /\ (used = {} \/ used \in Unmatched)
        BY <1>2, <2>6, <3>3 DEF calibrate
      <4>2. used = Surely
        BY <3>3, <4>1
      <4>3. Surely' = Surely
        BY <3>1 DEF Surely, Truncated, Usable, Present
      <4> QED
        BY <2>2, <3>1, <4>1, <4>2, <4>3 DEF UndefinedExplained
    <3> QED
      BY <3>2, <3>3
  <2>7. CASE Parse
    <3>1. /\ ~Inside /\ MoreEntries /\ pc = "parse" /\ UNCHANGED <<listing, optind>>
      BY <1>2, <2>7 DEF Parse, ParseEntry
    <3>2. pos \in Nat /\ listing.linelen \in Nat /\ listing.size \in Nat
      BY DEF TypeOK, Lists
    <3>3. listing.linelen < ENTRY_SIZE
      BY <3>1, <3>2 DEF Inside, MoreEntries, ENTRY_SIZE
    <3> QED
      BY <2>2, <3>1, <3>3 DEF UndefinedExplained, OptionInv
  <2>8. ASSUME NEW i \in Images, StartImage(i)
        PROVE  UndefinedExplained'
    <3>1. /\ pc = "process" /\ loaded \notin {"empty", "full"} /\ UNCHANGED <<optind, loaded, crashes, lost>>
      BY <1>2, <2>8 DEF StartImage
    <3>2. Option.letter = "p" /\ (loaded = "odd" \/ loaded = "short")
      BY <3>1 DEF OptionInv, TypeOK
    <3>3. loaded = "short" => crashes > 0 \/ CalibrationFile \in lost
      BY <3>1 DEF FlatInv
    <3> QED
      BY <2>2, <3>1, <3>2, <3>3 DEF UndefinedExplained
  <2> QED
    BY <2>4, <2>5, <2>6, <2>7, <2>8
<1> QED
  BY <1>1, <1>2 DEF UndefinedExplained

(* The entries parsed are those of the list up to pos. *)
LEMMA ParseStep ==
    ASSUME TypeOK, ParseInv, [Next]_vars
    PROVE  ParseInv'
<1> USE DEF listVars, control, past, Goto, Ended
<1>1. CASE Receive
  <2>1. /\ listing' \in Listings /\ listing'.linelen \in Nat /\ FirstEntry(listing') \in Nat
        /\ FirstEntry(listing') <= listing'.size
    BY <1>1, ListAssumption DEF Receive, ReceiveList, Lists, FirstEntry, HEADER_SIZE
  <2>2. photos' = << >> /\ pos' = FirstEntry(listing')
    BY <1>1 DEF Receive, ReceiveList
  <2>3. Len(photos') = 0 /\ DOMAIN photos' = {}
    BY <2>2
  <2>4. FirstEntry(listing') + 0 * listing'.linelen = FirstEntry(listing')
    BY <2>1
  <2> QED
    BY <2>1, <2>2, <2>3, <2>4 DEF ParseInv, Entry
<1>2. CASE Parse /\ pc' = "parse"
  <2>0. pc = "parse" /\ Inside /\ photos \in Seq(Photo) /\ pos \in Nat /\ listing \in Lists /\ listing' = listing
    BY <1>2 DEF Parse, ParseEntry, TypeOK
  <2>1. PICK L \in Nat : L = listing.linelen
    BY <2>0 DEF Lists
  <2>2. PICK size \in Nat : size = listing.size
    BY <2>0 DEF Lists
  <2>3. PICK first \in Nat : first = FirstEntry(listing)
    BY <2>0 DEF Lists, FirstEntry, HEADER_SIZE
  <2>4. PICK n \in Nat : n = Len(photos) /\ DOMAIN photos = 1..n
    BY <2>0
  <2>5. \A k : Entry(k) = first + k * L /\ Entry(k)' = first + k * L
    BY <2>0, <2>1, <2>3 DEF Entry
  <2>6. /\ listing \in Listings /\ pos = first + n * L /\ pos + L <= size
        /\ \A k \in 1..n : /\ photos[k].at = first + (k - 1) * L /\ first + (k - 1) * L + L <= size
                           /\ photos[k].inside
    BY <1>2, <2>0, <2>1, <2>2, <2>4, <2>5 DEF ParseInv, Parse, ParseEntry, MoreEntries
  <2>7. PICK e : e = [at |-> pos, inside |-> Inside]
    OBVIOUS
  <2>8. e \in Photo /\ e.at = pos /\ e.inside
    BY <2>0, <2>7 DEF Photo, Inside
  <2>9. photos' = Append(photos, e) /\ pos' = pos + L
    BY <1>2, <2>1, <2>7 DEF Parse, ParseEntry
  <2>10. /\ Len(photos') = n + 1 /\ DOMAIN photos' = 1..(n + 1)
         /\ \A k \in 1..n : photos'[k] = photos[k]
         /\ photos'[n + 1] = e
    BY <2>0, <2>4, <2>8, <2>9
  <2>11. n * L \in Nat /\ (n + 1) * L = n * L + L /\ (n + 1) - 1 = n
    OBVIOUS
  <2>12. pos' = first + (n + 1) * L /\ pos' <= size
    BY <2>6, <2>9, <2>11
  <2>13. ASSUME NEW k \in DOMAIN photos'
         PROVE  /\ photos'[k].at = first + (k - 1) * L /\ first + (k - 1) * L + L <= size
                /\ photos'[k].inside
    <3>1. CASE k \in 1..n
      BY <2>6, <2>10, <3>1
    <3>2. CASE k = n + 1
      BY <2>6, <2>8, <2>10, <2>11, <3>2
    <3> QED
      BY <2>10, <3>1, <3>2
  <2> QED
    BY <2>0, <2>1, <2>2, <2>5, <2>6, <2>10, <2>12, <2>13 DEF ParseInv
<1>3. CASE pc' # "parse"
  BY <1>3 DEF ParseInv
<1>4. CASE pc = "parse" /\ UNCHANGED <<pc, listVars>>
  BY <1>4 DEF ParseInv, Entry
<1>5. Receive \/ Parse \/ pc' # "parse" \/ (pc = "parse" /\ UNCHANGED <<pc, listVars>>)
  <2>1. CASE CliStep
    <3>1. CASE \/ Prepare \/ PrintInformation \/ RequestList \/ downloadFile \/ downloadCalib
               \/ NoDirectory \/ EndOptions \/ NoMemory \/ UseList \/ OpenFile \/ TransferFile
      BY <3>1 DEF Prepare, PrintInformation, RequestList, downloadFile, downloadCalib, NoDirectory, EndOptions,
         NoMemory, UseList, OpenFile, TransferFile, UseCamera
    <3>2. CASE calibrate \/ OpenCalibration \/ WriteCalibration \/ process \/ EndProcess
      BY <3>2 DEF calibrate, OpenCalibration, WriteCalibration, process, EndProcess
    <3>3. ASSUME NEW i \in Images, StartImage(i) \/ FinishImage(i) PROVE pc' # "parse"
      BY <3>3 DEF StartImage, FinishImage
    <3> QED
      BY <2>1, <3>1, <3>2, <3>3 DEF CliStep
  <2>2. CASE (\E options \in Invocations : Invoke(options)) \/ Vanish \/ Crash
    BY <2>2 DEF Invoke, Vanish, Crash
  <2>3. CASE Hang \/ UNCHANGED <<disk, cliVars>>
    BY <2>3 DEF Hang, cliVars
  <2> QED
    BY <2>1, <2>2, <2>3, ViewerQuiet DEF CliNext
<1> QED
  BY <1>1, <1>2, <1>3, <1>4, <1>5

(* The program runs out of memory only with entries of no length. *)
LEMMA MemoryStep ==
    ASSUME TypeOK, OptionInv, ParseInv, status = "memory" => listing.linelen = 0, [Next]_vars
    PROVE  (status = "memory" => listing.linelen = 0)'
<1> USE DEF listVars, Goto, Ended
<1>1. CASE NoMemory
  <2>1. ~(listing.linelen > 0) /\ listing' = listing
    BY <1>1, ListEnd DEF NoMemory, TypeOK
  <2>2. listing.linelen \in Nat
    BY DEF TypeOK, Lists
  <2> QED
    BY <2>1, <2>2
<1>2. CASE status' # "memory"
  BY <1>2
<1>3. CASE UNCHANGED <<status, listing>>
  BY <1>3
<1>4. NoMemory \/ status' # "memory" \/ UNCHANGED <<status, listing>>
  <2>1. CASE CliStep
    <3>1. CASE \/ Prepare \/ PrintInformation \/ RequestList \/ downloadFile \/ downloadCalib
               \/ NoDirectory \/ EndOptions \/ UseList \/ OpenFile \/ TransferFile
      BY <3>1 DEF Prepare, PrintInformation, RequestList, downloadFile, downloadCalib, NoDirectory, EndOptions,
         UseList, OpenFile, TransferFile
    <3>2. CASE calibrate \/ OpenCalibration \/ WriteCalibration \/ process \/ EndProcess
      BY <3>2 DEF calibrate, OpenCalibration, WriteCalibration, process, EndProcess
    <3>3. ASSUME NEW i \in Images, StartImage(i) \/ FinishImage(i)
          PROVE  status' # "memory" \/ UNCHANGED <<status, listing>>
      BY <3>3 DEF StartImage, FinishImage
    <3>4. CASE Receive \/ Parse
      BY <3>4 DEF Receive, Parse, OptionInv
    <3> QED
      BY <2>1, <3>1, <3>2, <3>3, <3>4 DEF CliStep
  <2>2. CASE (\E options \in Invocations : Invoke(options)) \/ Vanish \/ Crash
    BY <2>2 DEF Invoke, Vanish, Crash
  <2>3. CASE Hang \/ UNCHANGED <<disk, cliVars>>
    BY <2>3 DEF Hang, cliVars
  <2> QED
    BY <2>1, <2>2, <2>3, ViewerQuiet DEF CliNext
<1> QED
  BY <1>1, <1>2, <1>3, <1>4

-----------------------------------------------------------------------------
(* The directory. *)

(* Steps that have nothing to do with the files: they leave the work in    *)
(* hand alone, or there is none before and after them.                     *)
Aside ==
    /\ UNCHANGED <<disk, crashes, lost>>
    /\ \/ UNCHANGED <<pc, args, optind, todo, tasks, busy, loaded>>
       \/ /\ pc \notin {"open", "transfer", "write", "process", "undefined"}
          /\ pc' \notin {"open", "transfer", "write", "process"}

(* The steps of the system as far as the files are concerned. *)
LEMMA Steps ==
    ASSUME [Next]_vars
    PROVE  \/ Aside \/ Crash
           \/ downloadFile \/ downloadCalib \/ UseList \/ OpenFile \/ TransferFile
           \/ OpenCalibration \/ WriteCalibration \/ process \/ EndProcess
           \/ \E i \in Images : StartImage(i) \/ FinishImage(i)
<1> USE DEF control, past, work, Goto, Ended, Aside, Executes
<1>1. CASE (\E options \in Invocations : Invoke(options)) \/ Vanish
  BY <1>1 DEF Invoke, Vanish
<1>2. CASE Prepare \/ PrintInformation \/ RequestList \/ NoDirectory \/ EndOptions
  BY <1>2 DEF Prepare, PrintInformation, RequestList, NoDirectory, EndOptions, UseCamera
<1>3. CASE Receive \/ Parse \/ NoMemory \/ calibrate
  BY <1>3 DEF Receive, Parse, NoMemory, calibrate
<1>4. CASE Hang \/ UNCHANGED <<disk, cliVars>>
  BY <1>4 DEF Hang, cliVars
<1> QED
  BY <1>1, <1>2, <1>3, <1>4, ViewerQuiet DEF CliNext, CliStep

(* A file is given by its name and its extension; every name with a RAW    *)
(* file has metadata.                                                      *)
LEMMA FilePair ==
    ASSUME NEW f \in Files
    PROVE  /\ f = <<f[1], f[2]>>
           /\ f[2] \in {"TXT", "RAW"} => f[1] \in Images
           /\ f[2] = "RAW" => <<f[1], "TXT">> \in Files
<1>1. CASE \E i \in Images : f \in ToSet(PhotoFiles(i))
  <2>1. PICK i \in Images : f \in ToSet(PhotoFiles(i))
    BY <1>1
  <2>2. f \in {<<i, "TXT">>, <<i, "128">>, <<i, "RAW">>}
    BY <2>1, NamedFiles
  <2>3. f = <<f[1], f[2]>> /\ f[1] = i
    BY <2>2
  <2> QED
    BY <2>3, ImageFiles
<1>2. CASE \E i \in Others : f = <<i, "">>
  <2>1. PICK i \in Others : f = <<i, "">>
    BY <1>2
  <2>2. f[1] = i /\ f[2] = ""
    BY <2>1
  <2> QED
    BY <2>1, <2>2
<1>3. \/ \E i \in Images : f \in ToSet(PhotoFiles(i))
      \/ \E i \in Others : f = <<i, "">>
  BY Zenon DEF Files
<1> QED
  BY <1>1, <1>2, <1>3

(* The list of files to download, its first file and the rest. *)
LEMMA Queue ==
    ASSUME todo \in Seq(Files), todo # << >>
    PROVE  /\ Len(todo) \in Nat \ {0} /\ DOMAIN todo = 1..Len(todo)
           /\ Head(todo) \in Files /\ Head(todo) = todo[1]
           /\ Tail(todo) \in Seq(Files) /\ DOMAIN Tail(todo) = 1..(Len(todo) - 1)
           /\ \A n \in DOMAIN Tail(todo) : Tail(todo)[n] = todo[n + 1]
           /\ Tail(todo) = << >> <=> Len(todo) = 1
           /\ ToSet(todo) = {Head(todo)} \union ToSet(Tail(todo))
<1>1. Len(todo) \in Nat \ {0} /\ DOMAIN todo = 1..Len(todo) /\ Head(todo) \in Files /\ Head(todo) = todo[1]
  OBVIOUS
<1>2. /\ Tail(todo) \in Seq(Files) /\ DOMAIN Tail(todo) = 1..(Len(todo) - 1)
      /\ \A n \in DOMAIN Tail(todo) : Tail(todo)[n] = todo[n + 1]
      /\ Len(Tail(todo)) = Len(todo) - 1
  OBVIOUS
<1>3. Tail(todo) = << >> <=> Len(todo) = 1
  <2>1. Tail(todo) = << >> <=> Len(Tail(todo)) = 0
    BY <1>2
  <2> QED
    BY <1>1, <1>2, <2>1
<1>4. ASSUME NEW f \in ToSet(todo) PROVE f = Head(todo) \/ f \in ToSet(Tail(todo))
  <2>1. PICK n \in 1..Len(todo) : f = todo[n]
    BY <1>1 DEF ToSet
  <2>2. CASE n # 1
    <3>1. n - 1 \in DOMAIN Tail(todo) /\ Tail(todo)[n - 1] = f
      BY <1>1, <1>2, <2>1, <2>2
    <3> QED
      BY <3>1 DEF ToSet
  <2> QED
    BY <1>1, <2>1, <2>2
<1>5. Head(todo) \in ToSet(todo)
  BY <1>1 DEF ToSet
<1>6. ASSUME NEW f \in ToSet(Tail(todo)) PROVE f \in ToSet(todo)
  <2>1. PICK n \in DOMAIN Tail(todo) : f = Tail(todo)[n]
    BY DEF ToSet
  <2>2. n + 1 \in DOMAIN todo /\ todo[n + 1] = f
    BY <1>1, <1>2, <2>1
  <2> QED
    BY <2>2 DEF ToSet
<1>7. ToSet(todo) = {Head(todo)} \union ToSet(Tail(todo))
  BY <1>4, <1>5, <1>6
<1> QED
  BY <1>1, <1>2, <1>3, <1>7

(* A list of one file. *)
LEMMA OneFile ==
    ASSUME NEW f
    PROVE  ToSet(<<f>>) = {f} /\ <<f>> # << >> /\ \A n \in DOMAIN <<f>> : <<f>>[n] = f
BY DEF ToSet

(* What an option asks for are files of the camera. *)
LEMMA WantedFiles ==
    ASSUME TypeOK, OptionInv, pc \in {"open", "transfer"}
    PROVE  Wanted \subseteq Files
<1>1. args \in Seq(Options) /\ optind \in Nat \ {0} /\ optind <= Len(args)
  BY DEF TypeOK, OptionInv
<1>2. optind \in DOMAIN args
  BY <1>1
<1>3. CASE Option.letter = "d"
  <2>1. Photos[Option.id + 1] \in Images
    BY <1>3, ImageNames DEF OptionInv
  <2> QED
    BY <1>3, <2>1, FilesOf DEF Wanted
<1>4. CASE Option.letter = "f"
  <2>1. Option.arg \in Others
    BY <1>2, <1>4 DEF OptionInv, Option
  <2>2. <<Option.arg, "">> \in Files
    BY <2>1 DEF Files
  <2> QED
    BY <1>4, <2>2 DEF Wanted
<1>5. CASE Option.letter \notin {"d", "f"}
  <2>1. \A i \in ToSet(CalibImages) : i \in Images
    BY DEF Images
  <2>2. \A i \in ToSet(CalibImages) : ToSet(CalibFiles(i)) \subseteq Files
    BY <2>1, FilesOf
  <2> QED
    BY <1>5, <2>2 DEF Wanted
<1> QED
  BY <1>3, <1>4, <1>5

(* A step that creates a file, or fails to, and one that completes it, or  *)
(* does not.                                                               *)
LEMMA OpenEffect ==
    ASSUME TypeOK, TodoInv, OpenFile
    PROVE  /\ todo \in Seq(Files) /\ todo # << >> /\ pc = "open" /\ pc' = "transfer"
           /\ Head(todo) \in Files /\ files \in [Files -> FileStates]
           /\ \/ files'[Head(todo)] = "partial" /\ lost' = lost \ {Head(todo)}
              \/ files' = files /\ lost' = lost \union {Head(todo)}
           /\ \A f \in Files : f # Head(todo) => files'[f] = files[f] /\ (f \in lost' <=> f \in lost)
           /\ \A f : f \notin Files => (f \in lost' <=> f \in lost)
           /\ UNCHANGED <<calibration, flat, args, optind, crashes, todo, tasks, busy, loaded>>
<1>1. todo \in Seq(Files) /\ todo # << >> /\ files \in [Files -> FileStates]
  BY DEF TypeOK, TodoInv, OpenFile
<1>2. Head(todo) \in Files
  BY <1>1
<1>3. \/ files' = [files EXCEPT ![Head(todo)] = "partial"] /\ lost' = lost \ {Head(todo)}
      \/ files' = files /\ lost' = lost \union {Head(todo)}
  BY DEF OpenFile, Fails
<1> QED
  BY <1>1, <1>2, <1>3 DEF OpenFile, Goto, past, work

LEMMA TransferEffect ==
    ASSUME TypeOK, TodoInv, TransferFile
    PROVE  /\ todo \in Seq(Files) /\ todo # << >> /\ pc = "transfer" /\ pc' \in {"open", "ended"}
           /\ Head(todo) \in Files /\ files \in [Files -> FileStates]
           /\ \/ files'[Head(todo)] = "whole" /\ lost' = lost
              \/ files' = files /\ Head(todo) \in lost' \union Missing
           /\ lost' = lost \/ lost' = lost \union {Head(todo)}
           /\ \A f \in Files : f # Head(todo) => files'[f] = files[f] /\ (f \in lost' <=> f \in lost)
           /\ \A f : f \notin Files => (f \in lost' <=> f \in lost)
           /\ todo' = Tail(todo) /\ (pc' = "open" <=> Len(todo) # 1)
           /\ UNCHANGED <<calibration, flat, args, optind, crashes, tasks, busy, loaded>>
<1>1. todo \in Seq(Files) /\ todo # << >> /\ files \in [Files -> FileStates]
  BY DEF TypeOK, TodoInv, TransferFile
<1>2. Head(todo) \in Files
  BY <1>1
<1>3. \/ files' = [files EXCEPT ![Head(todo)] = "whole"] /\ lost' = lost
      \/ files' = files /\ lost' = lost /\ Head(todo) \in lost \union Missing
      \/ files' = files /\ lost' = lost \union {Head(todo)}
  BY DEF TransferFile, Fails
<1>4. /\ \/ files'[Head(todo)] = "whole" /\ lost' = lost
         \/ files' = files /\ Head(todo) \in lost' \union Missing
      /\ lost' = lost \/ lost' = lost \union {Head(todo)}
      /\ \A f \in Files : f # Head(todo) => files'[f] = files[f]
  BY <1>1, <1>2, <1>3
<1>5. /\ pc = "transfer" /\ pc' \in {"open", "ended"} /\ todo' = Tail(todo) /\ (pc' = "open" <=> Len(todo) # 1)
      /\ UNCHANGED <<calibration, flat, args, optind, crashes, tasks, busy, loaded>>
  BY DEF TransferFile, Goto, Ended, past
<1> QED
  BY <1>1, <1>2, <1>4, <1>5

(* What was asked for is whole, or still on the list. *)
LEMMA TodoStep ==
    ASSUME TypeOK, OptionInv, ParseInv, TodoInv, [Next]_vars
    PROVE  TodoInv'
<1>1. CASE downloadFile
  <2>1. /\ todo' = <<<<Option.arg, "">>>> /\ Option.letter = "f" /\ Option' = Option
    BY <1>1 DEF downloadFile, Executes, Option, control, past
  <2>2. Wanted' = {<<Option.arg, "">>}
    BY <2>1 DEF Wanted
  <2>3. ToSet(todo') = {<<Option.arg, "">>} /\ todo' # << >>
    BY <2>1, OneFile, Zenon
  <2> QED
    BY <2>2, <2>3 DEF TodoInv
<1>2. CASE downloadCalib
  <2>1. todo' = CalibDownloads /\ Option.letter = "t" /\ Option' = Option
    BY <1>2 DEF downloadCalib, Executes, Option, control, past
  <2>2. Wanted' = UNION {ToSet(CalibFiles(i)) : i \in ToSet(CalibImages)}
    BY <2>1 DEF Wanted
  <2> QED
    BY <2>1, <2>2, CalibrationDownloads DEF TodoInv
<1>3. CASE UseList
  <2>1. CASE pc' = "open"
    <3>1. /\ todo' = PhotoFiles(Photos[Option.id + 1]) /\ Option.letter = "d" /\ Option' = Option
          /\ Option.id + 1 \in DOMAIN photos
      BY <1>3, <2>1 DEF UseList, OptionInv, Option, control, past, Goto, Ended
    <3>2. DOMAIN photos \subseteq DOMAIN Photos
      BY <1>3, ListEnd DEF UseList
    <3>3. todo' # << >>
      BY <3>1, <3>2, ImageNames, PhotoDownloads
    <3> QED
      BY <3>1, <3>3 DEF Wanted, TodoInv
  <2>2. CASE pc' # "open"
    BY <1>3, <2>2 DEF UseList, TodoInv, Goto, Ended
  <2> QED
    BY <2>1, <2>2
<1>4. CASE OpenFile
  <2>1. /\ todo \in Seq(Files) /\ todo # << >> /\ pc = "open" /\ pc' = "transfer" /\ todo' = todo
        /\ \A f \in Files : f # Head(todo) => files'[f] = files[f] /\ (f \in lost' <=> f \in lost)
        /\ Wanted' = Wanted
    BY <1>4, OpenEffect DEF Wanted, Option
  <2>2. Wanted \subseteq Files /\ Head(todo) \in ToSet(todo)
    BY <2>1, WantedFiles, Queue
  <2> QED
    BY <2>1, <2>2 DEF TodoInv
<1>5. CASE TransferFile
  <2>1. /\ todo \in Seq(Files) /\ todo # << >> /\ pc = "transfer" /\ todo' = Tail(todo)
        /\ files'[Head(todo)] = "whole" \/ Head(todo) \in lost' \union Missing
        /\ pc' \in {"open", "ended"} /\ (pc' = "open" <=> Len(todo) # 1)
        /\ \A f \in Files : f # Head(todo) => files'[f] = files[f] /\ (f \in lost' <=> f \in lost)
        /\ Wanted' = Wanted
    BY <1>5, TransferEffect DEF Wanted, Option
  <2>2. Wanted \subseteq Files /\ ToSet(todo) = {Head(todo)} \union ToSet(Tail(todo))
    BY <2>1, WantedFiles, Queue
  <2>3. Tail(todo) = << >> <=> Len(todo) = 1
    BY <2>1, Queue
  <2> QED
    BY <2>1, <2>2, <2>3 DEF TodoInv
<1>6. CASE Aside
  BY <1>6 DEF Aside, TodoInv, Wanted, Option, disk
<1>7. CASE pc' \notin {"open", "transfer"}
  BY <1>7 DEF TodoInv
<1>8. CASE \/ Crash \/ OpenCalibration \/ WriteCalibration \/ process \/ EndProcess
           \/ \E i \in Images : StartImage(i) \/ FinishImage(i)
  BY <1>7, <1>8 DEF Crash, OpenCalibration, WriteCalibration, process, EndProcess, StartImage, FinishImage,
     Goto, Ended
<1> QED
  BY <1>1, <1>2, <1>3, <1>4, <1>5, <1>6, <1>8, Steps

(* Metadata stay in front of their image. *)
LEMMA OrderStep ==
    ASSUME TypeOK, OptionInv, ParseInv, TodoInv, OrderInv, [Next]_vars
    PROVE  OrderInv'
<1>1. CASE downloadFile
  <2>1. todo' = <<<<Option.arg, "">>>>
    BY <1>1 DEF downloadFile
  <2>2. \A n \in DOMAIN todo' : todo'[n] = <<Option.arg, "">>
    BY <2>1, OneFile, Zenon
  <2>3. \A a : <<a, "">>[2] # "RAW"
    OBVIOUS
  <2>4. \A n \in DOMAIN todo' : todo'[n][2] # "RAW"
    BY <2>2, <2>3, Zenon
  <2> QED
    BY <2>4 DEF OrderInv
<1>2. CASE downloadCalib
  <2>1. todo' = CalibDownloads
    BY <1>2 DEF downloadCalib
  <2> QED
    BY <2>1, CalibrationDownloads DEF OrderInv
<1>3. CASE UseList
  <2>1. CASE pc' = "open"
    <3>1. todo' = PhotoFiles(Photos[Option.id + 1]) /\ Option.id + 1 \in DOMAIN photos
      BY <1>3, <2>1 DEF UseList, Goto, Ended
    <3>2. DOMAIN photos \subseteq DOMAIN Photos
      BY <1>3, ListEnd DEF UseList
    <3> QED
      BY <3>1, <3>2, ImageNames, PhotoDownloads DEF OrderInv
  <2>2. CASE pc' # "open"
    BY <1>3, <2>2 DEF UseList, OrderInv, Goto, Ended
  <2> QED
    BY <2>1, <2>2
<1>4. CASE OpenFile
  <2>1. /\ todo \in Seq(Files) /\ todo # << >> /\ pc = "open" /\ todo' = todo
        /\ \A f \in Files : f # Head(todo) => files'[f] = files[f] /\ (f \in lost' <=> f \in lost)
    BY <1>4, OpenEffect
  <2>2. DOMAIN todo = 1..Len(todo) /\ Len(todo) \in Nat \ {0} /\ Head(todo) = todo[1]
    BY <2>1, Queue
  <2> SUFFICES ASSUME NEW n \in 1..Len(todo), todo[n][2] = "RAW"
               PROVE  \/ files'[<<todo[n][1], "TXT">>] = "whole" \/ <<todo[n][1], "TXT">> \in lost'
                      \/ \E m \in 1..Len(todo) : m < n /\ todo[m] = <<todo[n][1], "TXT">>
    BY <2>1, <2>2 DEF OrderInv
  <2>3. todo[n] \in Files
    BY <2>1, <2>2
  <2>4. <<todo[n][1], "TXT">> \in Files
    BY <2>3, FilePair
  <2>5. CASE Head(todo) = <<todo[n][1], "TXT">>
    <3>1. todo[1][2] = "TXT"
      BY <2>2, <2>5
    <3>2. n # 1
      BY <3>1
    <3> QED
      BY <2>2, <2>5, <3>2
  <2>6. CASE Head(todo) # <<todo[n][1], "TXT">>
    BY <2>1, <2>2, <2>4, <2>6 DEF OrderInv
  <2> QED
    BY <2>5, <2>6
<1>5. CASE TransferFile
  <2>1. /\ todo \in Seq(Files) /\ todo # << >> /\ pc = "transfer" /\ todo' = Tail(todo)
        /\ files'[Head(todo)] = "whole" \/ Head(todo) \in lost' \union Missing
        /\ lost \subseteq lost'
        /\ \A f \in Files : f # Head(todo) => files'[f] = files[f] /\ (f \in lost' <=> f \in lost)
    BY <1>5, TransferEffect
  <2>2. /\ DOMAIN todo = 1..Len(todo) /\ Len(todo) \in Nat \ {0} /\ Head(todo) = todo[1]
        /\ DOMAIN Tail(todo) = 1..(Len(todo) - 1)
        /\ \A n \in DOMAIN Tail(todo) : Tail(todo)[n] = todo[n + 1]
    BY <2>1, Queue
  <2> SUFFICES ASSUME NEW n \in DOMAIN Tail(todo), Tail(todo)[n][2] = "RAW"
               PROVE  \/ files'[<<Tail(todo)[n][1], "TXT">>] = "whole" \/ <<Tail(todo)[n][1], "TXT">> \in lost'
                      \/ \E m \in DOMAIN Tail(todo) : m < n /\ Tail(todo)[m] = <<Tail(todo)[n][1], "TXT">>
    BY <2>1 DEF OrderInv
  <2>3. n \in Nat /\ n + 1 \in DOMAIN todo /\ todo[n + 1] = Tail(todo)[n] /\ todo[n + 1] \in Files
    BY <2>1, <2>2
  <2>4. <<todo[n + 1][1], "TXT">> \in Files
    BY <2>3, FilePair
  <2>7. <<todo[n + 1][1], "TXT">> \notin Missing
    <3>1. <<todo[n + 1][1], "TXT">>[2] # ""
      OBVIOUS
    <3> QED
      BY <3>1, NotMissing
  <2>5. CASE files[<<todo[n + 1][1], "TXT">>] = "whole" \/ <<todo[n + 1][1], "TXT">> \in lost
    BY <2>1, <2>3, <2>4, <2>5, <2>7
  <2>6. CASE \E m \in DOMAIN todo : m < n + 1 /\ todo[m] = <<todo[n + 1][1], "TXT">>
    <3>1. PICK m \in DOMAIN todo : m < n + 1 /\ todo[m] = <<todo[n + 1][1], "TXT">>
      BY <2>6
    <3>2. CASE m = 1
      <4>1. Head(todo) = <<todo[n + 1][1], "TXT">>
        BY <2>2, <3>1, <3>2
      <4>2. files'[Head(todo)] = "whole" \/ Head(todo) \in lost'
        BY <2>1, <2>7, <4>1
      <4> QED
        BY <2>3, <4>1, <4>2
    <3>3. CASE m # 1
      <4>1. m - 1 \in DOMAIN Tail(todo) /\ m - 1 < n /\ Tail(todo)[m - 1] = todo[m]
        BY <2>2, <2>3, <3>1, <3>3
      <4> QED
        BY <2>3, <3>1, <4>1
    <3> QED
      BY <3>2, <3>3
  <2> QED
    BY <2>1, <2>3, <2>5, <2>6 DEF OrderInv
<1>6. CASE Aside
  BY <1>6 DEF Aside, OrderInv, disk
<1>7. CASE pc' \notin {"open", "transfer"}
  BY <1>7 DEF OrderInv
<1>8. CASE \/ Crash \/ OpenCalibration \/ WriteCalibration \/ process \/ EndProcess
           \/ \E i \in Images : StartImage(i) \/ FinishImage(i)
  BY <1>7, <1>8 DEF Crash, OpenCalibration, WriteCalibration, process, EndProcess, StartImage, FinishImage,
     Goto, Ended
<1> QED
  BY <1>1, <1>2, <1>3, <1>4, <1>5, <1>6, <1>8, Steps

(* The file in work is partial, if it could be opened. *)
LEMMA WriteStep ==
    ASSUME TypeOK, TodoInv, WriteInv, [Next]_vars
    PROVE  WriteInv'
<1>1. CASE OpenFile
  BY <1>1, OpenEffect DEF WriteInv
<1>2. CASE TransferFile
  BY <1>2, TransferEffect DEF WriteInv
<1>3. CASE OpenCalibration
  BY <1>3 DEF OpenCalibration, WriteInv, Goto, Ended
<1>4. CASE Aside
  BY <1>4 DEF Aside, WriteInv, disk
<1>5. CASE pc' \notin {"transfer", "write"}
  BY <1>5 DEF WriteInv
<1>6. CASE Crash \/ downloadFile \/ downloadCalib \/ UseList \/ WriteCalibration \/ process \/ EndProcess
  BY <1>5, <1>6 DEF Crash, downloadFile, downloadCalib, UseList, WriteCalibration, process, EndProcess,
     UseCamera, Goto, Ended
<1>7. ASSUME NEW i \in Images, StartImage(i) \/ FinishImage(i) PROVE WriteInv'
  BY <1>5, <1>7 DEF StartImage, FinishImage, Goto, Ended
<1> QED
  BY <1>1, <1>2, <1>3, <1>4, <1>6, <1>7, Steps

(* Steps that change no downloaded file and neither begin nor end the      *)
(* transfer of one; of the files only pictures and calibration.json may be *)
(* lost in them.                                                           *)
LEMMA FilesAside ==
    ASSUME TypeOK, [Next]_vars, ~OpenFile, ~TransferFile, ~Crash
    PROVE  /\ UNCHANGED <<files, crashes>>
           /\ (pc \notin {"transfer", "open"} /\ pc' # "transfer") \/ UNCHANGED <<pc, todo>>
           /\ \A f \in Files : f \in lost' <=> f \in lost
<1> USE DEF Goto, Ended, disk, control, past
<1>0. /\ \A f \in Files : f # CalibrationFile /\ \A i \in Images : f # Picture(i)
      /\ \A f : Fails(f) => lost' = lost \union {f}
  BY Names DEF Fails
<1>1. CASE Aside
  BY <1>1 DEF Aside
<1>2. CASE downloadFile \/ downloadCalib \/ UseList
  BY <1>2 DEF downloadFile, downloadCalib, UseList, Executes, UseCamera
<1>3. CASE process \/ EndProcess
  BY <1>3 DEF process, EndProcess, Executes
<1>4. CASE OpenCalibration \/ WriteCalibration
  <2>1. lost' = lost \/ lost' = lost \ {CalibrationFile} \/ lost' = lost \union {CalibrationFile}
    BY <1>0, <1>4 DEF OpenCalibration, WriteCalibration
  <2>2. \A f \in Files : f \in lost' <=> f \in lost
    BY <1>0, <2>1
  <2> QED
    BY <1>4, <2>2 DEF OpenCalibration, WriteCalibration
<1>5. ASSUME NEW i \in Images, StartImage(i) \/ FinishImage(i)
      PROVE  /\ UNCHANGED <<files, crashes>>
             /\ (pc \notin {"transfer", "open"} /\ pc' # "transfer") \/ UNCHANGED <<pc, todo>>
             /\ \A f \in Files : f \in lost' <=> f \in lost
  <2>1. lost' = lost \/ lost' = lost \ {Picture(i)} \/ lost' = lost \union {Picture(i)}
    BY <1>0, <1>5 DEF StartImage, FinishImage
  <2>2. \A f \in Files : f \in lost' <=> f \in lost
    BY <1>0, <2>1
  <2> QED
    BY <1>5, <2>2 DEF StartImage, FinishImage
<1> QED
  BY <1>1, <1>2, <1>3, <1>4, <1>5, Steps

(* Metadata are there before the image, as long as nothing crashes and     *)
(* they can be written.                                                    *)
LEMMA MetadataStep ==
    ASSUME TypeOK, TodoInv, OrderInv, WriteInv, MetadataFirst, [Next]_vars
    PROVE  MetadataFirst'
<1> USE DEF MetadataFile
<1>1. CASE OpenFile
  <2>1. /\ todo \in Seq(Files) /\ todo # << >> /\ pc = "open" /\ pc' = "transfer" /\ Head(todo) \in Files
        /\ \A f \in Files : f # Head(todo) => files'[f] = files[f] /\ (f \in lost' <=> f \in lost)
        /\ todo' = todo /\ crashes' = crashes
    BY <1>1, OpenEffect
  <2>2. 1 \in DOMAIN todo /\ Head(todo) = todo[1] /\ DOMAIN todo \subseteq Nat \ {0}
    BY <2>1, Queue
  <2> SUFFICES ASSUME crashes = 0, NEW i \in Images, files'[<<i, "RAW">>] # "absent"
               PROVE  \/ files'[<<i, "TXT">>] = "whole" \/ <<i, "TXT">> \in lost'
                      \/ Head(todo)[1] = i /\ Head(todo)[2] = "TXT"
    BY <2>1 DEF MetadataFirst, Present, Downloading
  <2>3. <<i, "RAW">> \in Files /\ <<i, "TXT">> \in Files
    BY ImageFiles
  <2>4. CASE Head(todo) = <<i, "RAW">>
    <3>1. todo[1][1] = i /\ todo[1][2] = "RAW" /\ Head(todo) # <<i, "TXT">>
      BY <2>2, <2>4
    <3>2. ~\E m \in DOMAIN todo : m < 1
      BY <2>2
    <3>3. files[<<i, "TXT">>] = "whole" \/ <<i, "TXT">> \in lost
      BY <2>1, <2>2, <3>1, <3>2 DEF OrderInv
    <3> QED
      BY <2>1, <2>3, <3>1, <3>3
  <2>5. CASE Head(todo) = <<i, "TXT">>
    BY <2>5
  <2>6. CASE Head(todo) # <<i, "RAW">> /\ Head(todo) # <<i, "TXT">>
    <3>1. files[<<i, "RAW">>] # "absent" /\ i \in Present
      BY <2>1, <2>3, <2>6 DEF Present
    <3>2. files[<<i, "TXT">>] = "whole" \/ <<i, "TXT">> \in lost
      BY <2>1, <3>1 DEF MetadataFirst, Downloading
    <3> QED
      BY <2>1, <2>3, <2>6, <3>2
  <2> QED
    BY <2>4, <2>5, <2>6
<1>2. CASE TransferFile
  <2>1. /\ todo \in Seq(Files) /\ todo # << >> /\ pc = "transfer" /\ Head(todo) \in Files
        /\ files'[Head(todo)] = "whole" \/ files' = files
        /\ files'[Head(todo)] = "whole" \/ Head(todo) \in lost' \union Missing
        /\ \A f \in Files : f # Head(todo) => files'[f] = files[f] /\ (f \in lost' <=> f \in lost)
        /\ crashes' = crashes /\ lost \subseteq lost'
    BY <1>2, TransferEffect
  <2>2. Head(todo) = <<Head(todo)[1], Head(todo)[2]>> /\ (files[Head(todo)] = "partial" \/ Head(todo) \in lost)
    BY <2>1, FilePair DEF WriteInv
  <2> SUFFICES ASSUME crashes = 0, NEW i \in Images, files'[<<i, "RAW">>] # "absent"
               PROVE  files'[<<i, "TXT">>] = "whole" \/ <<i, "TXT">> \in lost'
    BY <2>1 DEF MetadataFirst, Present
  <2>3. <<i, "RAW">> \in Files /\ <<i, "TXT">> \in Files /\ <<i, "TXT">> \notin Missing
    <3>1. <<i, "TXT">>[2] # ""
      OBVIOUS
    <3> QED
      BY <3>1, ImageFiles, NotMissing
  <2>4. CASE Head(todo) = <<i, "TXT">>
    BY <2>1, <2>3, <2>4
  <2>5. CASE Head(todo) # <<i, "TXT">>
    <3>1. files[<<i, "RAW">>] # "absent"
      BY <1>2, <2>1, <2>2, <2>3 DEF TransferFile
    <3>2. ~(Head(todo)[1] = i /\ Head(todo)[2] = "TXT")
      BY <2>2, <2>5
    <3>3. files[<<i, "TXT">>] = "whole" \/ <<i, "TXT">> \in lost
      BY <3>1, <3>2 DEF MetadataFirst, Present, Downloading
    <3> QED
      BY <2>1, <2>3, <2>5, <3>3
  <2> QED
    BY <2>4, <2>5
<1>3. CASE Crash
  <2>1. crashes' # 0
    BY <1>3 DEF Crash, TypeOK
  <2> QED
    BY <2>1 DEF MetadataFirst
<1>4. CASE ~OpenFile /\ ~TransferFile /\ ~Crash
  <2>1. /\ UNCHANGED <<files, crashes>> /\ ((pc # "transfer" /\ pc' # "transfer") \/ UNCHANGED <<pc, todo>>)
        /\ \A f \in Files : f \in lost' <=> f \in lost
    BY <1>4, FilesAside
  <2>2. \A i \in Images : (Downloading(i) /\ Head(todo)[2] = "TXT") <=> (Downloading(i) /\ Head(todo)[2] = "TXT")'
    BY <2>1 DEF Downloading
  <2>3. Present' = Present
    BY <2>1 DEF Present
  <2>4. Present \subseteq Images /\ \A i \in Images : <<i, "TXT">> \in Files
    BY ImageFiles DEF Present
  <2> QED
    BY <2>1, <2>2, <2>3, <2>4 DEF MetadataFirst
<1> QED
  BY <1>1, <1>2, <1>3, <1>4

(* A crash spoils one file at most. *)
LEMMA SpoiltStep ==
    ASSUME TypeOK, TodoInv, WriteInv, SpoiltInv, [Next]_vars
    PROVE  SpoiltInv'
<1>0. /\ crashes \in Nat /\ Cardinality(Damaged) \in Nat /\ IsFiniteSet(Damaged)
      /\ Cardinality(Damaged') \in Nat
  <2>1. (IsFiniteSet(Damaged) /\ Cardinality(Damaged) \in Nat)'
    BY PartialFinite, PTL
  <2> QED
    BY <2>1, PartialFinite DEF TypeOK
<1>1. ASSUME Damaged' \subseteq Damaged, CalibrationDamaged' => CalibrationDamaged, crashes' = crashes
      PROVE  SpoiltInv'
  <2>1. Cardinality(Damaged') <= Cardinality(Damaged)
    BY <1>0, <1>1, FS_Subset
  <2> QED
    BY <1>0, <1>1, <2>1 DEF SpoiltInv
<1>2. PartialFiles \subseteq Files /\ CalibrationFile \notin Files
  BY Names DEF PartialFiles
<1>3. CASE OpenFile
  <2>1. /\ pc = "open" /\ pc' = "transfer" /\ UNCHANGED <<calibration, crashes, todo>>
        /\ \A f \in Files : f # Head(todo) => files'[f] = files[f] /\ (f \in lost' <=> f \in lost)
        /\ \A f : f \notin Files => (f \in lost' <=> f \in lost)
    BY <1>3, OpenEffect
  <2>2. Damaged' \subseteq Damaged
    BY <2>1 DEF Damaged, PartialFiles, InWork
  <2>3. CalibrationDamaged' => CalibrationDamaged
    BY <1>2, <2>1 DEF CalibrationDamaged
  <2> QED
    BY <1>1, <2>1, <2>2, <2>3
<1>4. CASE TransferFile
  <2>1. /\ pc = "transfer" /\ pc' \in {"open", "ended"} /\ UNCHANGED <<calibration, crashes>>
        /\ files'[Head(todo)] = "whole" \/ Head(todo) \in lost' \union Missing
        /\ \A f \in Files : f # Head(todo) => files'[f] = files[f] /\ (f \in lost' <=> f \in lost)
        /\ \A f : f \notin Files => (f \in lost' <=> f \in lost)
    BY <1>4, TransferEffect
  <2>2. Damaged' \subseteq Damaged
    BY <2>1 DEF Damaged, PartialFiles, InWork
  <2>3. CalibrationDamaged' => CalibrationDamaged
    BY <1>2, <2>1 DEF CalibrationDamaged
  <2> QED
    BY <1>1, <2>1, <2>2, <2>3
<1>5. CASE Crash
  <2>1. pc' = "ended" /\ UNCHANGED <<files, calibration, todo, lost>> /\ crashes' = crashes + 1
    BY <1>5 DEF Crash, Ended, disk, work
  <2>2. CASE pc = "transfer"
    <3>1. Damaged' \subseteq Damaged \union {Head(todo)}
      BY <2>1, <2>2 DEF Damaged, PartialFiles, InWork
    <3>2. /\ IsFiniteSet(Damaged \union {Head(todo)})
          /\ Cardinality(Damaged \union {Head(todo)}) =
                IF Head(todo) \in Damaged THEN Cardinality(Damaged) ELSE Cardinality(Damaged) + 1
      BY <1>0, FS_AddElement
    <3>3. Cardinality(Damaged') <= Cardinality(Damaged \union {Head(todo)})
      BY <3>1, <3>2, FS_Subset
    <3>4. Cardinality(Damaged') <= Cardinality(Damaged) + 1
      BY <1>0, <3>2, <3>3
    <3>5. CalibrationDamaged' => CalibrationDamaged
      BY <2>1, <2>2 DEF CalibrationDamaged
    <3> QED
      BY <1>0, <2>1, <3>4, <3>5 DEF SpoiltInv
  <2>3. CASE pc # "transfer"
    <3>1. Damaged' \subseteq Damaged
      BY <2>1, <2>3 DEF Damaged, PartialFiles, InWork
    <3>2. Cardinality(Damaged') <= Cardinality(Damaged)
      BY <1>0, <3>1, FS_Subset
    <3>3. CalibrationDamaged' => CalibrationDamaged \/ pc = "write"
      BY <2>1 DEF CalibrationDamaged
    <3> QED
      BY <1>0, <2>1, <3>2, <3>3 DEF SpoiltInv, CalibrationDamaged
  <2> QED
    BY <2>2, <2>3
<1>6. CASE ~OpenFile /\ ~TransferFile /\ ~Crash
  <2>1. /\ UNCHANGED <<files, crashes>> /\ ((pc # "transfer" /\ pc' # "transfer") \/ UNCHANGED <<pc, todo>>)
        /\ \A f \in Files : f \in lost' <=> f \in lost
    BY <1>6, FilesAside
  <2>2. Damaged' \subseteq Damaged
    BY <1>2, <2>1 DEF Damaged, PartialFiles, InWork
  <2>3. CalibrationDamaged' => CalibrationDamaged
    <3> USE DEF CalibrationDamaged, Goto, Ended, disk, control, past
    <3>1. CASE OpenCalibration \/ WriteCalibration
      BY <3>1 DEF OpenCalibration, WriteCalibration, Fails
    <3>2. CASE Aside
      BY <3>2 DEF Aside
    <3>3. CASE downloadFile \/ downloadCalib \/ UseList \/ process \/ EndProcess
      BY <3>3 DEF downloadFile, downloadCalib, UseList, process, EndProcess, Executes
    <3>4. ASSUME NEW i \in Images, StartImage(i) \/ FinishImage(i)
          PROVE  CalibrationDamaged' => CalibrationDamaged
      <4>1. CalibrationFile \in lost <=> CalibrationFile \in lost'
        <5>1. CalibrationFile # Picture(i)
          BY Names
        <5>2. lost' = lost \/ lost' = lost \ {Picture(i)} \/ lost' = lost \union {Picture(i)}
          BY <3>4 DEF StartImage, FinishImage, Fails
        <5> QED
          BY <5>1, <5>2
      <4>2. pc = "process" /\ calibration' = calibration
        BY <3>4 DEF StartImage, FinishImage
      <4> QED
        BY <4>1, <4>2
    <3> QED
      BY <1>6, <3>1, <3>2, <3>3, <3>4, Steps
  <2> QED
    BY <1>1, <2>1, <2>2, <2>3
<1> QED
  BY <1>3, <1>4, <1>5, <1>6

-----------------------------------------------------------------------------
(* The pictures. *)

(* A picture is begun, or cannot be opened; one is finished, or cannot be  *)
(* written.                                                                *)
LEMMA StartEffect ==
    ASSUME TypeOK, NEW i \in Images, StartImage(i), pc' = "process"
    PROVE  /\ \/ /\ PartialFlat' = PartialFlat \union {i} /\ busy' = busy \union {i}
                 /\ flat'[i] = "partial" /\ lost' = lost \ {Picture(i)}
              \/ UNCHANGED <<flat, busy>> /\ lost' = lost \union {Picture(i)}
           /\ tasks' = tasks \ {i}
           /\ i \in tasks /\ Cardinality(busy) < Workers /\ pc = "process" /\ loaded # "empty"
           /\ \A j \in Images : j # i => flat'[j] = flat[j]
           /\ UNCHANGED <<files, calibration, loaded, crashes>>
BY DEF StartImage, Fails, TypeOK, PartialFlat, past, Ended, Goto

LEMMA FinishEffect ==
    ASSUME TypeOK, NEW i \in Images, FinishImage(i)
    PROVE  /\ \/ flat'[i] = "whole" /\ lost' = lost
              \/ UNCHANGED flat /\ lost' = lost \union {Picture(i)}
           /\ busy' = busy \ {i} /\ tasks' = tasks
           /\ pc = "process" /\ pc' = "process"
           /\ \A j \in Images : j # i => flat'[j] = flat[j]
           /\ UNCHANGED <<files, calibration, loaded, crashes>>
BY DEF FinishImage, Fails, TypeOK, past

(* Of what is lost only a worker's step changes whether a picture is. *)
LEMMA PicturesAside ==
    ASSUME TypeOK, TodoInv, OpenFile \/ TransferFile \/ OpenCalibration \/ WriteCalibration
    PROVE  /\ UNCHANGED <<flat, crashes>> /\ pc' # "process" /\ pc # "process"
           /\ \A i \in Images : Picture(i) \in lost' <=> Picture(i) \in lost
<1>1. CASE OpenFile
  BY <1>1, OpenEffect, Names
<1>2. CASE TransferFile
  BY <1>2, TransferEffect, Names
<1>3. CASE OpenCalibration \/ WriteCalibration
  <2>1. lost' = lost \/ lost' = lost \ {CalibrationFile} \/ lost' = lost \union {CalibrationFile}
    BY <1>3 DEF OpenCalibration, WriteCalibration, Fails
  <2>2. UNCHANGED <<flat, crashes>> /\ pc' # "process" /\ pc # "process"
    BY <1>3 DEF OpenCalibration, WriteCalibration, past, Goto, Ended
  <2> QED
    BY <2>1, <2>2, Names
<1> QED
  BY <1>1, <1>2, <1>3

(* A crash spoils the pictures in work, of which every worker has one. *)
LEMMA FlatStep ==
    ASSUME TypeOK, TodoInv, SpoiltInv, FlatInv, [Next]_vars
    PROVE  FlatInv'
<1>0. /\ crashes \in Nat /\ Workers \in Nat /\ Workers * crashes \in Nat
      /\ IsFiniteSet(PartialFlat) /\ IsFiniteSet(Left) /\ Cardinality(Left) \in Nat
      /\ IsFiniteSet(busy) /\ Cardinality(busy) \in Nat
  <2>1. busy \subseteq Images /\ Left \subseteq PartialFlat
    BY DEF TypeOK, Left
  <2>2. IsFiniteSet(busy) /\ IsFiniteSet(PartialFlat) /\ IsFiniteSet(Left)
    BY <2>1, FiniteDisk, PartialFinite, FS_Subset
  <2>3. crashes \in Nat /\ Workers \in Nat
    BY Bounds DEF TypeOK
  <2> QED
    BY <2>2, <2>3, FS_CardinalityType
<1>1. ASSUME Left' \subseteq Left, crashes' = crashes
      PROVE  Cardinality(Left') <= Workers * crashes' /\ Cardinality(Left') \in Nat
  <2>1. IsFiniteSet(Left') /\ Cardinality(Left') <= Cardinality(Left)
    BY <1>0, <1>1, FS_Subset
  <2>2. Cardinality(Left') \in Nat
    BY <2>1, FS_CardinalityType
  <2> QED
    BY <1>0, <1>1, <2>1, <2>2 DEF FlatInv
<1>10. PartialFlat \subseteq Images /\ \A i, j \in Images : Picture(i) = Picture(j) => i = j
  BY Names DEF PartialFlat
<1>6. ASSUME pc' # "process", UNCHANGED <<flat, crashes>>, pc = "process" => busy = {} \/ (pc' = "undefined" /\ busy' = busy),
             \A i \in Images : Picture(i) \in lost' <=> Picture(i) \in lost, pc # "undefined"
      PROVE  FlatInv'
  <2>1. Left' \subseteq Left
    BY <1>6, <1>10 DEF Left, PartialFlat
  <2> QED
    BY <1>1, <1>6, <2>1 DEF FlatInv
<1>2. CASE process
  <2>1. /\ pc = "execute" /\ UNCHANGED <<disk, crashes, lost>> /\ busy' = {} /\ tasks' = Present
        /\ loaded' \in GridSizes /\ pc' \in {"process", "ended"}
    BY <1>2 DEF process, Goto, Ended, Executes, control, past
  <2>2. Left' \subseteq Left /\ Present' = Present
    BY <2>1 DEF Left, PartialFlat, disk, Present
  <2>3. Cardinality(busy') <= Workers
    BY <1>0, <2>1, FS_EmptySet
  <2>4. loaded' = "short" => calibration = "partial"
    BY <2>1 DEF GridSizes, TypeOK, FileStates
  <2>5. loaded' = "short" => crashes > 0 \/ CalibrationFile \in lost
    BY <2>1, <2>4, PartialCalibration
  <2> QED
    BY <1>1, <2>1, <2>2, <2>3, <2>5 DEF FlatInv
<1>3. ASSUME NEW i \in Images, StartImage(i), pc' = "process"
      PROVE  FlatInv'
  <2>1. /\ \/ /\ PartialFlat' = PartialFlat \union {i} /\ busy' = busy \union {i}
              /\ flat'[i] = "partial" /\ lost' = lost \ {Picture(i)}
           \/ UNCHANGED <<flat, busy>> /\ lost' = lost \union {Picture(i)}
        /\ tasks' = tasks \ {i}
        /\ i \in tasks /\ Cardinality(busy) < Workers /\ pc = "process" /\ loaded # "empty"
        /\ \A j \in Images : j # i => flat'[j] = flat[j]
        /\ UNCHANGED <<files, calibration, loaded, crashes>>
    BY <1>3, StartEffect
  <2>2. Present' = Present /\ Present \subseteq Images /\ CalibrationFile # Picture(i) /\ busy \subseteq Images
    BY <2>1, Names DEF Present, TypeOK
  <2>3. /\ loaded' = "short" => crashes' > 0 \/ CalibrationFile \in lost'
        /\ busy' # {} => loaded' # "empty"
        /\ tasks' \intersect busy' = {}
    BY <2>1, <2>2 DEF FlatInv
  <2>4. CASE /\ PartialFlat' = PartialFlat \union {i} /\ busy' = busy \union {i}
             /\ flat'[i] = "partial" /\ lost' = lost \ {Picture(i)}
    <3>1. Left' \subseteq Left
      BY <1>3, <1>10, <2>1, <2>4 DEF Left
    <3>2. Cardinality(busy') <= Workers
      <4>1. Cardinality(busy') = IF i \in busy THEN Cardinality(busy) ELSE Cardinality(busy) + 1
        BY <1>0, <2>4, FS_AddElement
      <4> QED
        BY <1>0, <2>1, <4>1
    <3>3. \A j \in busy' : flat'[j] = "partial" /\ Picture(j) \notin lost'
      BY <2>1, <2>2, <2>4 DEF FlatInv
    <3>4. \A j \in Present : j \in tasks' \union busy' \/ flat'[j] = "whole" \/ Picture(j) \in lost'
      BY <1>10, <2>1, <2>2, <2>4 DEF FlatInv
    <3> QED
      BY <1>1, <1>3, <2>1, <2>2, <2>3, <3>1, <3>2, <3>3, <3>4 DEF FlatInv
  <2>5. CASE UNCHANGED <<flat, busy>> /\ lost' = lost \union {Picture(i)} /\ i \notin busy
    <3>1. Left' \subseteq Left
      BY <1>3, <2>1, <2>5 DEF Left, PartialFlat
    <3>2. \A j \in busy' : flat'[j] = "partial" /\ Picture(j) \notin lost'
      BY <1>10, <2>1, <2>2, <2>5 DEF FlatInv
    <3>3. \A j \in Present : j \in tasks' \union busy' \/ flat'[j] = "whole" \/ Picture(j) \in lost'
      BY <2>1, <2>2, <2>5 DEF FlatInv
    <3> QED
      BY <1>0, <1>1, <1>3, <2>1, <2>2, <2>3, <2>5, <3>1, <3>2, <3>3 DEF FlatInv
  <2>6. i \notin busy
    BY <2>1 DEF FlatInv
  <2> QED
    BY <2>1, <2>4, <2>5, <2>6
<1>4. ASSUME NEW i \in Images, FinishImage(i)
      PROVE  FlatInv'
  <2>1. /\ \/ flat'[i] = "whole" /\ lost' = lost
           \/ UNCHANGED flat /\ lost' = lost \union {Picture(i)}
        /\ busy' = busy \ {i} /\ tasks' = tasks
        /\ pc = "process" /\ pc' = "process"
        /\ \A j \in Images : j # i => flat'[j] = flat[j]
        /\ UNCHANGED <<files, calibration, loaded, crashes>>
    BY <1>4, FinishEffect
  <2>2. Present' = Present /\ Present \subseteq Images /\ CalibrationFile # Picture(i) /\ busy \subseteq Images
    BY <2>1, Names DEF Present, TypeOK
  <2>3. Left' \subseteq Left
    BY <2>1 DEF Left, PartialFlat
  <2>4. Cardinality(busy') <= Workers
    <3>1. Cardinality(busy') <= Cardinality(busy) /\ IsFiniteSet(busy')
      BY <1>0, <2>1, FS_Subset
    <3>2. Cardinality(busy') \in Nat
      BY <3>1, FS_CardinalityType
    <3> QED
      BY <1>0, <2>1, <3>1, <3>2 DEF FlatInv
  <2>5. \A j \in busy' : flat'[j] = "partial" /\ Picture(j) \notin lost'
    BY <1>10, <2>1, <2>2 DEF FlatInv
  <2>6. \A j \in Present : j \in tasks' \union busy' \/ flat'[j] = "whole" \/ Picture(j) \in lost'
    BY <2>1, <2>2 DEF FlatInv
  <2>7. /\ loaded' = "short" => crashes' > 0 \/ CalibrationFile \in lost'
        /\ busy' # {} => loaded' # "empty"
        /\ tasks' \intersect busy' = {}
    BY <2>1, <2>2 DEF FlatInv
  <2> QED
    BY <1>1, <2>1, <2>2, <2>3, <2>4, <2>5, <2>6, <2>7 DEF FlatInv
<1>5. CASE Crash
  <2>1. pc' = "ended" /\ UNCHANGED <<disk, busy, lost>> /\ crashes' = crashes + 1 /\ pc # "undefined"
    BY <1>5 DEF Crash, Ended, work, Active
  <2> DEFINE Bare == {i \in PartialFlat : Picture(i) \notin lost}
  <2>2. Left' \subseteq Bare /\ IsFiniteSet(Bare)
    <3>1. Left' \subseteq Bare /\ Bare \subseteq PartialFlat
      BY <2>1 DEF Left, PartialFlat, disk
    <3> QED
      BY <1>0, <3>1, FS_Subset
  <2>3. Cardinality(Bare) <= Workers * crashes + Workers
    <3>1. CASE pc = "process"
      <4>1. Bare \subseteq Left \union busy /\ Cardinality(busy) <= Workers /\ Cardinality(Left) <= Workers * crashes
        BY <3>1 DEF FlatInv, Left
      <4>2. /\ Cardinality(Left \union busy) = Cardinality(Left) + Cardinality(busy) - Cardinality(Left \intersect busy)
            /\ IsFiniteSet(Left \union busy)
        BY <1>0, FS_Union
      <4>3. Cardinality(Left \intersect busy) \in Nat /\ Cardinality(Bare) \in Nat /\ Cardinality(Left \union busy) \in Nat
        <5>1. IsFiniteSet(Left \intersect busy)
          BY <1>0, FS_Subset
        <5> QED
          BY <2>2, <4>2, <5>1, FS_CardinalityType
      <4>4. Cardinality(Bare) <= Cardinality(Left \union busy)
        BY <4>1, <4>2, FS_Subset
      <4> HIDE DEF Bare
      <4> QED
        BY <1>0, <4>1, <4>2, <4>3, <4>4
    <3>2. CASE pc # "process"
      <4>1. Bare = Left /\ Cardinality(Left) <= Workers * crashes
        BY <2>1, <3>2 DEF FlatInv, Left
      <4> QED
        BY <1>0, <4>1
    <3> QED
      BY <3>1, <3>2
  <2> HIDE DEF Bare
  <2>4. Workers * crashes' = Workers * crashes + Workers
    BY <1>0, <2>1
  <2>5. Cardinality(Left') <= Cardinality(Bare) /\ IsFiniteSet(Left')
    BY <2>2, FS_Subset
  <2>6. Cardinality(Left') \in Nat /\ Cardinality(Bare) \in Nat
    BY <2>2, <2>5, FS_CardinalityType
  <2>7. Cardinality(Left') <= Workers * crashes'
    BY <1>0, <2>3, <2>4, <2>5, <2>6
  <2> QED
    BY <2>1, <2>7 DEF FlatInv
<1>7. ASSUME NEW i \in Images, StartImage(i), pc' # "process"
      PROVE  FlatInv'
  <2>1. /\ pc = "process" /\ UNCHANGED <<flat, crashes, lost, busy>>
        /\ loaded = "empty" \/ pc' = "undefined"
    BY <1>7 DEF StartImage, Ended, Goto, past
  <2>2. busy = {} \/ pc' = "undefined"
    BY <2>1 DEF FlatInv
  <2> QED
    BY <1>6, <1>7, <2>1, <2>2
<1>8. CASE downloadFile \/ downloadCalib \/ UseList \/ EndProcess
  <2>1. /\ UNCHANGED <<flat, crashes, lost>> /\ pc' # "process" /\ pc # "undefined"
        /\ pc = "process" => busy = {}
    BY <1>8 DEF downloadFile, downloadCalib, UseList, EndProcess, UseCamera, Executes, Goto, Ended, control, past, disk
  <2> QED
    BY <1>6, <2>1
<1>11. CASE OpenFile \/ TransferFile \/ OpenCalibration \/ WriteCalibration
  <2>1. pc # "undefined"
    BY <1>11 DEF OpenFile, TransferFile, OpenCalibration, WriteCalibration
  <2> QED
    BY <1>6, <1>11, <2>1, PicturesAside
<1>9. CASE Aside
  <2>1. CASE UNCHANGED <<disk, crashes, lost, pc, tasks, busy, loaded>>
    BY <2>1 DEF FlatInv, Left, PartialFlat, Present, disk
  <2>2. CASE UNCHANGED <<disk, crashes, lost>> /\ pc # "process" /\ pc' # "process" /\ pc # "undefined"
    BY <1>6, <2>2 DEF disk
  <2> QED
    BY <1>9, <2>1, <2>2 DEF Aside
<1> QED
  BY <1>2, <1>3, <1>4, <1>5, <1>7, <1>8, <1>9, <1>11, Steps

(* The program ends with success only when what was asked for is there, or *)
(* could not be written.                                                   *)
LEMMA SuccessStep ==
    ASSUME TypeOK, OptionInv, TodoInv, FlatInv, SuccessMeansDone, [Next]_vars
    PROVE  SuccessMeansDone'
<1> USE DEF Option
<1>1. CASE pc = "ended"
  <2>1. Vanish \/ UNCHANGED <<disk, cliVars>>
    <3>1. ~CliStep
      BY <1>1, SecondPass DEF Prepare
    <3> QED
      BY <1>1, <3>1, ViewerQuiet DEF CliNext, Invoke, Crash, Active, Hang, Waiting, Executes
  <2>2. CASE Vanish
    BY <2>2 DEF Vanish, SuccessMeansDone
  <2>3. CASE UNCHANGED <<disk, cliVars>>
    <3>1. UNCHANGED <<files, calibration, flat, pc, args, optind, status, lost>> /\ Present' = Present
      BY <2>3 DEF disk, cliVars, control, past, Present
    <3> QED
      BY <3>1 DEF SuccessMeansDone
  <2> QED
    BY <2>1, <2>2, <2>3
<1>2. CASE ~(pc' = "ended" /\ status' = "success" /\ optind' <= Len(args'))
  BY <1>2 DEF SuccessMeansDone
<1>3. CASE pc # "ended" /\ pc' = "ended" /\ status' = "success" /\ optind' <= Len(args')
  <2> USE DEF Goto, Ended, control, past, disk
  <2>1. status = "none" /\ args \in Seq(Options) /\ optind \in Nat \ {0} /\ Len(args) \in Nat
    BY <1>3 DEF OptionInv, TypeOK
  <2>2. NoDirectory \/ UseList \/ TransferFile \/ OpenCalibration \/ WriteCalibration \/ EndProcess
    <3>1. ~\E options \in Invocations : Invoke(options)
      BY <1>3, <2>1 DEF Invoke
    <3>2. ~Vanish /\ ~Crash /\ ~Hang /\ ~(UNCHANGED <<disk, cliVars>>)
      BY <1>3, <2>1 DEF Vanish, Crash, Hang, cliVars
    <3>3. /\ ~Prepare /\ ~PrintInformation /\ ~RequestList /\ ~downloadFile /\ ~downloadCalib /\ ~EndOptions
          /\ ~Receive /\ ~Parse /\ ~NoMemory /\ ~OpenFile
      BY <1>3, <2>1 DEF Prepare, PrintInformation, RequestList, downloadFile, downloadCalib, EndOptions, Receive, Parse,
         NoMemory, OpenFile, UseCamera, Executes
    <3>4. ~calibrate /\ ~process
      BY <1>3, <2>1 DEF calibrate, process
    <3>5. \A i \in Images : ~StartImage(i) /\ ~FinishImage(i)
      BY <1>3, <2>1 DEF StartImage, FinishImage
    <3> QED
      BY <3>1, <3>2, <3>3, <3>4, <3>5, ViewerQuiet DEF CliNext, CliStep
  <2>3. CASE NoDirectory
    <3>1. Option' = Option /\ Option.letter \in {"t", "c", "p"} /\ Option.arg # "dir"
      BY <2>3 DEF NoDirectory, Executes
    <3> QED
      BY <3>1 DEF SuccessMeansDone
  <2>4. CASE UseList
    <3>1. Option' = Option /\ Option.letter = "l"
      BY <1>3, <2>4 DEF UseList
    <3> QED
      BY <3>1 DEF SuccessMeansDone
  <2>5. CASE TransferFile
    <3>1. /\ todo \in Seq(Files) /\ todo # << >> /\ pc = "transfer" /\ Len(todo) = 1 /\ Option' = Option
          /\ files'[Head(todo)] = "whole" \/ Head(todo) \in lost' \union Missing
          /\ \A f \in Files : f # Head(todo) => files'[f] = files[f] /\ (f \in lost' <=> f \in lost)
      BY <1>3, <2>5, TransferEffect
    <3>2. ToSet(todo) = {Head(todo)}
      <4>1. ToSet(todo) = {Head(todo)} \union ToSet(Tail(todo)) /\ Tail(todo) = << >>
        BY <3>1, Queue
      <4>2. ToSet(Tail(todo)) = {}
        BY <4>1 DEF ToSet
      <4> QED
        BY <4>1, <4>2
    <3>3. Wanted \subseteq Files
      BY <3>1, WantedFiles
    <3>4. \A f \in Wanted : files'[f] = "whole" \/ f \in lost' \union Missing
      BY <3>1, <3>2, <3>3 DEF TodoInv
    <3>5. Option.letter \in {"d", "t", "f"} /\ (Option.letter = "t" => Option.arg = "dir")
      BY <3>1 DEF OptionInv
    <3>9. \A i : \A f \in ToSet(PhotoFiles(i)) \union ToSet(CalibFiles(i)) : f \notin Missing
      <4>1. ASSUME NEW i, NEW f \in ToSet(PhotoFiles(i)) \union ToSet(CalibFiles(i)) PROVE f \notin Missing
        <5>1. f \in {<<i, "TXT">>, <<i, "128">>, <<i, "RAW">>}
          BY <4>1, NamedFiles
        <5>2. f[2] = "TXT" \/ f[2] = "128" \/ f[2] = "RAW"
          BY <5>1
        <5> QED
          BY <5>2, NotMissing
      <4> QED
        BY <4>1
    <3>6. CASE Option.letter = "d"
      BY <3>1, <3>4, <3>6, <3>9 DEF SuccessMeansDone, Wanted
    <3>7. CASE Option.letter = "f"
      BY <3>1, <3>4, <3>7 DEF SuccessMeansDone, Wanted
    <3>8. CASE Option.letter = "t"
      <4>1. \A i \in ToSet(CalibImages) : \A f \in ToSet(CalibFiles(i)) : f \in Wanted
        BY <3>8 DEF Wanted
      <4> QED
        BY <3>1, <3>4, <3>5, <3>8, <3>9, <4>1 DEF SuccessMeansDone
    <3> QED
      BY <3>5, <3>6, <3>7, <3>8
  <2>6. CASE OpenCalibration \/ WriteCalibration
    <3>1. Option' = Option /\ Option.letter = "c" /\ (calibration' = "whole" \/ CalibrationFile \in lost')
      BY <1>3, <2>6 DEF OpenCalibration, WriteCalibration, Fails, OptionInv
    <3> QED
      BY <3>1 DEF SuccessMeansDone
  <2>7. CASE EndProcess
    <3>1. Option' = Option /\ Option.letter = "p" /\ Present' = Present /\ UNCHANGED <<flat, lost>>
      BY <2>7 DEF EndProcess, OptionInv, Present
    <3>2. \A i \in Present : flat[i] = "whole" \/ Picture(i) \in lost
      BY <2>7 DEF EndProcess, FlatInv
    <3> QED
      BY <3>1, <3>2 DEF SuccessMeansDone
  <2> QED
    BY <2>2, <2>3, <2>4, <2>5, <2>6, <2>7
<1> QED
  BY <1>1, <1>2, <1>3

-----------------------------------------------------------------------------
(* The theorems about the program. *)

ProgramInv ==
    /\ TypeOK /\ CliInv /\ UndefinedExplained /\ SuccessMeansDone
    /\ status = "memory" => listing.linelen = 0

(* Initially no program runs, and the directory is as it was left. *)
LEMMA ProgramInit ==
    ASSUME Init
    PROVE  ProgramInv
<1> USE DEF Init, CliInit
<1>0. pc = "idle" /\ status = "none" /\ args = << >> /\ optind = 1 /\ crashes = 0 /\ calibration = "absent" /\ lost = {}
  BY DEF DiskInit
<1>1. PICK earlier \in {{}, UNION {ToSet(CalibFiles(name)) : name \in ToSet(CalibImages)}} :
         files = [f \in Files |-> IF f \in earlier THEN "whole" ELSE "absent"]
  BY DEF DiskInit
<1>2. files \in [Files -> FileStates] /\ \A f \in Files : files[f] # "partial"
  BY <1>1 DEF FileStates
<1>3. flat \in [Images -> FileStates] /\ \A i \in Images : flat[i] # "partial"
  BY DEF DiskInit, FileStates
<1>4. TypeOK
  <2>1. args \in Seq(Options) /\ todo \in Seq(Files) /\ photos \in Seq(Photo) /\ listing \in Lists
    BY DEF NoList, Lists
  <2>2. camera \in BOOLEAN
    BY Zenon
  <2>3. calibration \in FileStates
    BY <1>0 DEF FileStates
  <2> QED
    BY <1>0, <1>2, <1>3, <2>1, <2>2, <2>3 DEF TypeOK
<1>5. CameraInv /\ OptionInv /\ ParseInv /\ TodoInv /\ OrderInv /\ WriteInv
  BY <1>0 DEF CameraInv, OptionInv, ParseInv, TodoInv, OrderInv, WriteInv
<1>6. SpoiltInv /\ FlatInv
  <2>1. Damaged = {} /\ Left = {}
    BY <1>2, <1>3 DEF Damaged, PartialFiles, PartialFlat, Left
  <2>2. Workers * 0 = 0
    BY Bounds
  <2> QED
    BY <1>0, <2>1, <2>2, FS_EmptySet DEF SpoiltInv, CalibrationDamaged, FlatInv
<1>7. MetadataFirst
  <2> SUFFICES ASSUME NEW i \in Images, files[<<i, "RAW">>] # "absent"
               PROVE  files[<<i, "TXT">>] = "whole"
    BY DEF MetadataFirst, MetadataFile, Present
  <2>1. <<i, "RAW">> \in Files /\ <<i, "TXT">> \in Files
    BY ImageFiles
  <2>2. <<i, "RAW">> \in earlier
    BY <1>1, <2>1
  <2>3. PICK name \in ToSet(CalibImages) : <<i, "RAW">> \in ToSet(CalibFiles(name))
    BY <1>1, <2>2, Zenon
  <2>4. name = i
    BY <2>3, NamedFiles
  <2>5. <<i, "TXT">> \in ToSet(CalibFiles(i))
    BY NamedFiles
  <2>6. <<i, "TXT">> \in earlier
    BY <1>1, <2>2, <2>3, <2>4, <2>5, Zenon
  <2> QED
    BY <1>1, <2>1, <2>6
<1> QED
  BY <1>0, <1>4, <1>5, <1>6, <1>7 DEF ProgramInv, CliInv, UndefinedExplained, SuccessMeansDone

(* Every step keeps the invariant. *)
LEMMA ProgramStep ==
    ASSUME ProgramInv, [Next]_vars
    PROVE  ProgramInv'
<1>1. /\ TypeOK /\ CameraInv /\ OptionInv /\ ParseInv /\ TodoInv /\ OrderInv /\ WriteInv
      /\ SpoiltInv /\ FlatInv /\ MetadataFirst /\ UndefinedExplained /\ SuccessMeansDone
      /\ status = "memory" => listing.linelen = 0
  BY DEF ProgramInv, CliInv
<1>2. TypeOK' /\ CameraInv' /\ OptionInv' /\ ParseInv'
  BY <1>1, TypeStep, CameraStep, OptionStep, ParseStep
<1>3. TodoInv' /\ OrderInv' /\ WriteInv' /\ MetadataFirst'
  BY <1>1, TodoStep, OrderStep, WriteStep, MetadataStep
<1>4. SpoiltInv' /\ FlatInv'
  BY <1>1, SpoiltStep, FlatStep
<1>5. UndefinedExplained' /\ SuccessMeansDone'
  BY <1>1, UndefinedStep, SuccessStep
<1>6. (status = "memory" => listing.linelen = 0)'
  BY <1>1, MemoryStep
<1> QED
  BY <1>2, <1>3, <1>4, <1>5, <1>6 DEF ProgramInv, CliInv

LEMMA ProgramInvariant == Spec => []ProgramInv
<1>1. ProgramInv /\ [Next]_vars => ProgramInv'
  BY ProgramStep
<1> QED
  BY <1>1, ProgramInit, PTL DEF Spec

(* parseFileList finds the entries of the list, all of them and no others, *)
(* and reads nothing beyond its end without undefined behaviour; only a    *)
(* list whose entries have no length fills the memory.                     *)
THEOREM ListCorrect == Spec => []ListParsed
<1>1. ProgramInv => ListParsed
  <2> SUFFICES ASSUME ProgramInv PROVE ListParsed
    OBVIOUS
  <2>1. TypeOK /\ ParseInv /\ (status = "memory" => listing.linelen = 0)
    BY DEF ProgramInv, CliInv
  <2>2. ASSUME pc = "parse", ~MoreEntries, listing.linelen > 0
        PROVE  /\ Len(photos) = (listing.size - FirstEntry(listing)) \div listing.linelen
               /\ \A n \in DOMAIN photos :
                     photos[n].at = FirstEntry(listing) + (n - 1) * listing.linelen /\ photos[n].inside
    <3>1. Len(photos) = (listing.size - FirstEntry(listing)) \div listing.linelen
      BY <2>1, <2>2, ListEnd
    <3> QED
      BY <2>1, <2>2, <3>1 DEF ParseInv, Entry
  <2> QED
    BY <2>1, <2>2 DEF ListParsed
<1> QED
  BY <1>1, ProgramInvariant, PTL

(* Undefined behaviour is met only for the causes listed: entries shorter  *)
(* than parseLine reads, the id of a photo that is not listed, nothing fit *)
(* for calibration, grids of odd size, and the files that crashes, failed  *)
(* opens and failed writes leave incomplete.                               *)
THEOREM UndefinedBounded == Spec => []UndefinedExplained
<1>1. ProgramInv => UndefinedExplained
  BY DEF ProgramInv
<1> QED
  BY <1>1, ProgramInvariant, PTL

(* A crash of main spoils one file, or one picture of every worker, and a  *)
(* failed open or write only its own file; until the first crash every     *)
(* image has its metadata, unless they could not be written.               *)
THEOREM DirectoryConsistent == Spec => []FilesConsistent
<1>1. ProgramInv => FilesConsistent
  <2> SUFFICES ASSUME ProgramInv PROVE FilesConsistent
    OBVIOUS
  <2>1. TypeOK /\ SpoiltInv /\ FlatInv /\ MetadataFirst
    BY DEF ProgramInv, CliInv
  <2>2. Cardinality(DamagedFlat) <= Workers * crashes
    <3>1. DamagedFlat \subseteq Left /\ Left \subseteq PartialFlat
      BY DEF Left, DamagedFlat
    <3>2. IsFiniteSet(Left)
      BY <3>1, PartialFinite, FS_Subset
    <3>3. Cardinality(DamagedFlat) <= Cardinality(Left) /\ IsFiniteSet(DamagedFlat)
      BY <3>1, <3>2, FS_Subset
    <3>4. Cardinality(DamagedFlat) \in Nat /\ Cardinality(Left) \in Nat
      BY <3>2, <3>3, FS_CardinalityType
    <3>5. Workers \in Nat /\ crashes \in Nat
      BY <2>1, Bounds DEF TypeOK
    <3>6. Workers * crashes \in Nat
      BY <3>5
    <3> QED
      BY <2>1, <3>3, <3>4, <3>6 DEF FlatInv
  <2>3. pc = "process" => \A i \in busy : flat[i] = "partial"
    BY <2>1 DEF FlatInv
  <2> QED
    BY <2>1, <2>2, <2>3 DEF FilesConsistent, DamageBounded, SpoiltInv
<1> QED
  BY <1>1, ProgramInvariant, PTL

(* The program ends with success only if what was asked for is there,      *)
(* except for what could not be opened or written and what the camera      *)
(* lacks; pictures are made only with calibration data, damaged ones after *)
(* a crash or a failed write.                                              *)
THEOREM ResultsThere == Spec => []ResultsComplete
<1>1. ProgramInv => ResultsComplete
  <2> SUFFICES ASSUME ProgramInv PROVE ResultsComplete
    OBVIOUS
  <2>1. TypeOK /\ FlatInv /\ SuccessMeansDone
    BY DEF ProgramInv, CliInv
  <2>2. PicturesCalibrated
    BY <2>1 DEF PicturesCalibrated, FlatInv, TypeOK
  <2> QED
    BY <2>1, <2>2 DEF ResultsComplete
<1> QED
  BY <1>1, ProgramInvariant, PTL

-----------------------------------------------------------------------------
(* The metadata: the serial number of a camera is found in a whole file. *)

(* Short sequences, and what is appended to a sequence. *)
LEMMA ShortSequences ==
    ASSUME NEW a, NEW b, NEW c, NEW d, NEW e
    PROVE  /\ <<a>> \in Seq({a}) /\ Len(<<a>>) = 1
           /\ <<a, b>> \in Seq({a, b}) /\ Len(<<a, b>>) = 2 /\ <<a, b>>[1] = a
           /\ <<a, b, c>> \in Seq({a, b, c}) /\ Len(<<a, b, c>>) = 3 /\ <<a, b, c>>[1] = a
           /\ <<a, b, c, d, e>> \in Seq({a, b, c, d, e}) /\ Len(<<a, b, c, d, e>>) = 5
OBVIOUS

LEMMA Concatenation ==
    ASSUME NEW S, NEW s \in Seq(S), NEW R, NEW t \in Seq(R)
    PROVE  /\ s \o t \in Seq(S \union R) /\ Len(s \o t) = Len(s) + Len(t)
           /\ \A n \in 1..Len(s) : (s \o t)[n] = s[n]
<1>1. s \in Seq(S \union R) /\ t \in Seq(S \union R) /\ Len(s) \in Nat /\ Len(t) \in Nat
  OBVIOUS
<1>2. s \o t \in Seq(S \union R) /\ Len(s \o t) = Len(s) + Len(t)
  BY <1>1
<1>3. \A n \in 1..Len(s) : (s \o t)[n] = s[n]
  BY <1>1
<1> QED
  BY <1>2, <1>3

(* The path of a frame and what is in it. *)
LEMMA OneMore ==
    ASSUME NEW S, NEW s \in Seq(S), NEW a
    PROVE  Len(s \o <<a>>) = Len(s) + 1
<1>1. <<a>> \in Seq({a}) /\ Len(<<a>>) = 1
  BY ShortSequences, Zenon
<1> QED
  BY <1>1, Concatenation

LEMMA After ==
    ASSUME NEW S, NEW s \in Seq(S), NEW R, NEW t \in Seq(R), NEW k \in Nat, k = Len(s), Len(t) > 0
    PROVE  (s \o t)[k + 1] = t[1]
<1>1. s \in Seq(S \union R) /\ t \in Seq(S \union R) /\ Len(t) \in Nat
  OBVIOUS
<1>2. k + 1 \in 1..(k + Len(t)) /\ ~(k + 1 <= k) /\ (k + 1) - k = 1
  BY <1>1
<1> QED
  BY <1>1, <1>2

LEMMA InFrame ==
    ASSUME NEW R, NEW t \in Seq(R), Len(t) > 0
    PROVE  \E S : Frame \o t \in Seq(S) /\ Len(Frame \o t) = 5 + Len(t) /\ (Frame \o t)[6] = t[1]
<1>1. PICK S : Frame \in Seq(S) /\ Len(Frame) = 5
  <2>1. Frame \in Seq({"master", "picture", "frameArray", "0", "frame"}) /\ Len(Frame) = 5
    BY ShortSequences, Zenon DEF Frame
  <2> QED
    BY <2>1
<1>2. PICK f \in Seq(S) : f = Frame
  BY <1>1
<1>3. PICK k \in Nat : k = Len(f)
  OBVIOUS
<1>4. f \o t \in Seq(S \union R) /\ Len(f \o t) = k + Len(t)
  BY <1>3, Concatenation
<1>5. (f \o t)[k + 1] = t[1]
  BY <1>3, After
<1>6. k = 5
  BY <1>1, <1>2, <1>3
<1>7. k + 1 = 6
  BY <1>6
<1> QED
  BY <1>2, <1>4, <1>5, <1>6, <1>7

(* A class of the public metadata. *)
Public(class) == (\E S : class \in Seq(S)) /\ Len(class) \in Nat /\ Len(class) >= 7 /\ class[6] = "metadata"

LEMMA PublicWithin ==
    ASSUME NEW class, Public(class), NEW R, NEW rest \in Seq(R)
    PROVE  Public(class \o rest) /\ Len(class \o rest) = Len(class) + Len(rest)
<1>1. PICK S : class \in Seq(S)
  BY DEF Public
<1>2. 6 \in 1..Len(class) /\ Len(rest) \in Nat
  BY DEF Public
<1>3. class \o rest \in Seq(S \union R) /\ Len(class \o rest) = Len(class) + Len(rest) /\ (class \o rest)[6] = class[6]
  BY <1>1, <1>2, Concatenation
<1> QED
  BY <1>2, <1>3 DEF Public

LEMMA PublicParts ==
    ASSUME NEW class, Public(class), NEW a, NEW b, NEW c
    PROVE  Public(class \o <<a>>) /\ Public(class \o <<a, b>>) /\ Public(class \o <<a, b, c>>)
<1>1. <<a>> \in Seq({a}) /\ <<a, b>> \in Seq({a, b}) /\ <<a, b, c>> \in Seq({a, b, c})
  BY ShortSequences, Zenon
<1> QED
  BY <1>1, PublicWithin, Zenon

(* An accessor of such a class. *)
Outside(a) == Len(a.path) \in Nat /\ Len(a.path) >= 8 /\ a.path[6] = "metadata"

LEMMA PublicAccessors ==
    ASSUME NEW class, Public(class), NEW kind, NEW names
    PROVE  \A a \in Accessors(class, kind, names) : Outside(a)
<1> SUFFICES ASSUME NEW a \in Accessors(class, kind, names) PROVE Outside(a)
  OBVIOUS
<1>0. PICK name \in names : a = [path |-> class \o <<name>>, kind |-> kind]
  BY Zenon DEF Accessors
<1>1. a.path = class \o <<name>>
  BY <1>0
<1>2. <<name>> \in Seq({name}) /\ Len(<<name>>) = 1
  BY ShortSequences, Zenon
<1>3. Public(class \o <<name>>) /\ Len(class \o <<name>>) = Len(class) + 1
  BY <1>2, PublicWithin
<1> QED
  BY <1>1, <1>3 DEF Outside, Public

LEMMA PublicClasses ==
    /\ Public(ImageClass) /\ Public(RawDetails) /\ Public(PixelFormat)
    /\ Public(Devices) /\ Public(Sensor) /\ Public(Lens) /\ Public(Mla)
    /\ Public(Frame \o <<"metadata", "modes">>) /\ Public(Frame \o <<"metadata", "camera">>)
<1>1. \A s : Public(Frame \o <<"metadata", s>>)
  <2> SUFFICES ASSUME NEW s PROVE Public(Frame \o <<"metadata", s>>)
    OBVIOUS
  <2>1. /\ <<"metadata", s>> \in Seq({"metadata", s}) /\ Len(<<"metadata", s>>) = 2
        /\ <<"metadata", s>>[1] = "metadata"
    BY ShortSequences, Zenon
  <2>2. Len(<<"metadata", s>>) > 0
    BY <2>1
  <2>3. \E S : /\ Frame \o <<"metadata", s>> \in Seq(S) /\ Len(Frame \o <<"metadata", s>>) = 5 + Len(<<"metadata", s>>)
               /\ (Frame \o <<"metadata", s>>)[6] = <<"metadata", s>>[1]
    BY <2>1, <2>2, InFrame
  <2> QED
    BY <2>1, <2>3 DEF Public
<1>2. Public(ImageClass) /\ Public(Devices)
  BY <1>1, Zenon DEF ImageClass, Devices
<1>3. Public(RawDetails) /\ Public(Sensor) /\ Public(Lens) /\ Public(Mla)
  BY <1>2, PublicParts, Zenon DEF RawDetails, Sensor, Lens, Mla
<1>4. Public(PixelFormat)
  BY <1>3, PublicParts, Zenon DEF PixelFormat
<1> QED
  BY <1>1, <1>2, <1>3, <1>4, Zenon

(* The accessors of every class but the private ones. *)
LEMMA OutsideAccessors ==
    \A a \in AllAccessors : Outside(a) \/ a \in PrivateAccessors
<1>1. \A a \in ImageAccessors : Outside(a)
  <2>1. Public(PixelFormat \o <<"black">>) /\ Public(PixelFormat \o <<"white">>)
    BY PublicClasses, PublicParts, Zenon
  <2>2. Public(RawDetails \o <<"pixelPacking">>) /\ Public(RawDetails \o <<"mosaic">>)
    BY PublicClasses, PublicParts, Zenon
  <2> QED
    BY <2>1, <2>2, PublicClasses, PublicAccessors DEF ImageAccessors
<1>2. \A a \in ColorAccessors : Outside(a)
  <2>1. Public(ImageClass \o <<"color">>) /\ Public(ImageClass \o <<"color", "whiteBalanceGain">>)
    BY PublicClasses, PublicParts, Zenon
  <2> QED
    BY <2>1, PublicClasses, PublicAccessors DEF ColorAccessors
<1>3. \A a \in SensorAccessors : Outside(a)
  <2>1. Public(Devices \o <<"clock">>) /\ Public(Sensor \o <<"mosaic">>) /\ Public(Sensor \o <<"analogGain">>)
    BY PublicClasses, PublicParts, Zenon
  <2> QED
    BY <2>1, PublicClasses, PublicAccessors DEF SensorAccessors
<1>4. \A a \in LensAccessors : Outside(a)
  <2>1. Public(Lens \o <<"exitPupilOffset">>)
    BY PublicClasses, PublicParts, Zenon
  <2> QED
    BY <2>1, PublicClasses, PublicAccessors DEF LensAccessors
<1>5. \A a \in OtherDevices : Outside(a)
  <2>1. /\ Public(Devices \o <<"ndfilter">>) /\ Public(Devices \o <<"shutter">>) /\ Public(Devices \o <<"soc">>)
        /\ Public(Devices \o <<"accelerometer", "sampleArray", "0">>)
    BY PublicClasses, PublicParts, Zenon
  <2>2. Public(Mla \o <<"scaleFactor">>) /\ Public(Mla \o <<"sensorOffset">>)
    BY PublicClasses, PublicParts, Zenon
  <2> QED
    BY <2>1, <2>2, PublicClasses, PublicAccessors DEF OtherDevices
<1>6. \A a \in ModesAccessors : Outside(a)
  BY PublicClasses, PublicAccessors DEF ModesAccessors
<1> QED
  BY <1>1, <1>2, <1>3, <1>4, <1>5, <1>6 DEF AllAccessors

(* The path of the serial number is no other accessor's, and no prefix of  *)
(* it is.                                                                  *)
LEMMA SerialPath ==
    /\ (\E S : SerialNumber.path \in Seq(S)) /\ Len(SerialNumber.path) = 8
    /\ \A a \in AllAccessors : Len(a.path) \in Nat /\ Len(a.path) >= 8 /\ (a.path = SerialNumber.path => a = SerialNumber)
<1>1. \A x, y : \E S : /\ Frame \o <<"privateMetadata", x, y>> \in Seq(S)
                       /\ Len(Frame \o <<"privateMetadata", x, y>>) = 8
                       /\ (Frame \o <<"privateMetadata", x, y>>)[6] = "privateMetadata"
  <2> SUFFICES ASSUME NEW x, NEW y
               PROVE  \E S : /\ Frame \o <<"privateMetadata", x, y>> \in Seq(S)
                             /\ Len(Frame \o <<"privateMetadata", x, y>>) = 8
                             /\ (Frame \o <<"privateMetadata", x, y>>)[6] = "privateMetadata"
    OBVIOUS
  <2>1. PICK t : t = <<"privateMetadata", x, y>>
    OBVIOUS
  <2>2. t \in Seq({"privateMetadata", x, y}) /\ Len(t) = 3 /\ t[1] = "privateMetadata"
    BY <2>1, ShortSequences, Zenon
  <2>3. Len(t) > 0
    BY <2>2
  <2>4. \E S : Frame \o t \in Seq(S) /\ Len(Frame \o t) = 5 + Len(t) /\ (Frame \o t)[6] = t[1]
    BY <2>2, <2>3, InFrame
  <2> QED
    BY <2>1, <2>2, <2>4
<1>2. SerialNumber.path = Frame \o <<"privateMetadata", "camera", "serialNumber">>
  BY DEF SerialNumber
<1>3. (\E S : SerialNumber.path \in Seq(S)) /\ Len(SerialNumber.path) = 8 /\ SerialNumber.path[6] = "privateMetadata"
  BY <1>1, <1>2, Zenon
<1>4. ASSUME NEW a \in AllAccessors
      PROVE  Len(a.path) \in Nat /\ Len(a.path) >= 8 /\ (a.path = SerialNumber.path => a = SerialNumber)
  <2>1. CASE Outside(a)
    <3>1. a.path # SerialNumber.path
      <4>1. "metadata" # "privateMetadata"
        OBVIOUS
      <4> QED
        BY <1>3, <2>1, <4>1, Zenon DEF Outside
    <3> QED
      BY <2>1, <3>1 DEF Outside
  <2>2. CASE a = SerialNumber
    <3>1. Len(a.path) = 8
      BY <1>3, <2>2, Zenon
    <3> QED
      BY <2>2, <3>1
  <2>3. CASE a \in Accessors(Frame \o <<"privateMetadata", "devices", "sensor">>, "string", {"sensorSerial"})
    <3>1. a = [path |-> (Frame \o <<"privateMetadata", "devices", "sensor">>) \o <<"sensorSerial">>, kind |-> "string"]
      BY <2>3, Zenon DEF Accessors
    <3>2. a.path = (Frame \o <<"privateMetadata", "devices", "sensor">>) \o <<"sensorSerial">>
      BY <3>1
    <3>3. PICK c, S : c = Frame \o <<"privateMetadata", "devices", "sensor">> /\ c \in Seq(S) /\ Len(c) = 8
      BY <1>1, Zenon
    <3>4. Len(c \o <<"sensorSerial">>) = Len(c) + 1
      BY <3>3, OneMore, Zenon
    <3>5. Len(a.path) = 9
      BY <3>2, <3>3, <3>4
    <3>6. a.path # SerialNumber.path
      <4>1. 9 # 8
        OBVIOUS
      <4> QED
        BY <1>3, <3>5, <4>1, Zenon
    <3> QED
      BY <3>5, <3>6
  <2> QED
    BY <2>1, <2>2, <2>3, OutsideAccessors DEF PrivateAccessors
<1> QED
  BY <1>3, <1>4

(* The beginnings of a path, and the whole of it. *)
LEMMA PathPrefixes ==
    ASSUME NEW S, NEW path \in Seq(S), Len(path) > 0
    PROVE  /\ path \in Ancestors(path)
           /\ \A p \in Ancestors(path) : p # path => Len(p) \in Nat /\ Len(p) < Len(path)
<1>1. \A n \in 1..Len(path) : SubSeq(path, 1, n) \in Seq(S) /\ Len(SubSeq(path, 1, n)) = n
  OBVIOUS
<1>2. SubSeq(path, 1, Len(path)) = path
  OBVIOUS
<1>3. Len(path) \in 1..Len(path)
  OBVIOUS
<1>4. path \in Ancestors(path)
  BY <1>2, <1>3 DEF Ancestors
<1>5. ASSUME NEW p \in Ancestors(path), p # path PROVE Len(p) \in Nat /\ Len(p) < Len(path)
  <2>1. PICK n \in 1..Len(path) : p = SubSeq(path, 1, n)
    BY DEF Ancestors
  <2>2. n # Len(path)
    BY <1>2, <1>5, <2>1
  <2>3. Len(p) = n
    BY <1>1, <2>1
  <2> QED
    BY <2>2, <2>3
<1> QED
  BY <1>4, <1>5

(* What serialNumber returns of a whole file. *)
LEMMA SerialRead == SerialOf("whole") = "serial"
<1> DEFINE tree == TreeOf(AllAccessors)
           path == SerialNumber.path
           leaves == {a.path : a \in AllAccessors}
           nodes == UNION {Ancestors(p) : p \in leaves}
<1>1. tree = [p \in nodes |-> IF p \in leaves THEN (CHOOSE a \in AllAccessors : a.path = p).kind ELSE "object"]
  BY DEF TreeOf
<1>2. SerialNumber \in AllAccessors
  BY DEF AllAccessors, PrivateAccessors
<1>3. path \in leaves
  BY <1>2
<1>4. path \in Ancestors(path) /\ \A p \in Ancestors(path) : p # path => Len(p) \in Nat /\ Len(p) < 8
  <2>1. PICK S : path \in Seq(S) /\ Len(path) = 8
    BY SerialPath
  <2>2. Len(path) > 0
    BY <2>1
  <2>3. path \in Ancestors(path) /\ \A p \in Ancestors(path) : p # path => Len(p) \in Nat /\ Len(p) < Len(path)
    BY <2>1, <2>2, PathPrefixes
  <2> QED
    BY <2>1, <2>3
<1>5. path \in nodes
  BY <1>3, <1>4
<1>6. tree[path] = "string"
  <2>1. \A a \in AllAccessors : a.path = path => a = SerialNumber
    BY SerialPath
  <2>2. (CHOOSE a \in AllAccessors : a.path = path) = SerialNumber
    BY <1>2, <2>1
  <2>3. tree[path] = (CHOOSE a \in AllAccessors : a.path = path).kind
    BY <1>1, <1>3, <1>5
  <2>4. SerialNumber.kind = "string"
    BY DEF SerialNumber
  <2> QED
    BY <2>2, <2>3, <2>4
<1>7. \A p \in Ancestors(path) : p # path /\ p \in DOMAIN tree => tree[p] = "object"
  <2> SUFFICES ASSUME NEW p \in Ancestors(path), p # path, p \in nodes
               PROVE  p \notin leaves
    BY <1>1
  <2>1. Len(p) \in Nat /\ Len(p) < 8
    BY <1>4
  <2>2. \A a \in AllAccessors : Len(a.path) \in Nat /\ Len(a.path) >= 8
    BY SerialPath
  <2> QED
    BY <2>1, <2>2
<1>8. path \in DOMAIN tree /\ tree[path] = SerialNumber.kind /\ tree[path] # "null"
  BY <1>1, <1>5, <1>6 DEF SerialNumber
<1>9. Get(tree, SerialNumber) = "value"
  BY <1>7, <1>8 DEF Get
<1>10. Parsed["whole"] = tree
  BY DEF Parsed
<1> QED
  BY <1>9, <1>10 DEF SerialOf

-----------------------------------------------------------------------------
(* The decoded image. *)

(* The number of a pixel in the file.  The width is even, so the first of  *)
(* the two pixels of a group has an even column.                           *)
Index(p) == p[2] * Width + p[1]

LEMMA Halves == \E h, k \in Nat : /\ Width = 2 * h /\ Width * Height = 2 * k /\ FileLength = 3 * k
                                  /\ h > 1
<1>1. PICK h \in Nat : Width = 2 * h
  <2>1. Width = 2 * (Width \div 2) /\ Width \div 2 \in Nat
    BY SizeAssumption
  <2> QED
    BY <2>1
<1>2. PICK k \in Nat : k = h * Height
  BY <1>1, SizeAssumption
<1>3. Width * Height = 2 * k
  BY <1>1, <1>2, SizeAssumption
<1>4. 3 * Width * Height = 2 * (3 * k)
  <2>1. 3 * Width * Height = 3 * (Width * Height)
    BY SizeAssumption
  <2> QED
    BY <1>3, <2>1
<1>5. FileLength = 3 * k
  BY <1>4 DEF FileLength
<1>6. h > 1
  BY <1>1, SizeAssumption
<1> QED
  BY <1>1, <1>3, <1>5, <1>6

LEMMA Indices ==
    ASSUME NEW p \in Pixels, NEW k \in Nat, Width * Height = 2 * k
    PROVE  /\ Index(p) \in Nat /\ Index(p) < 2 * k /\ Index(p) \div 2 \in 0..(k - 1)
           /\ p[1] % 2 = 0 => Index(p) = 2 * (Index(p) \div 2)
           /\ p[1] % 2 = 1 => Index(p) = 2 * (Index(p) \div 2) + 1
<1>1. PICK h, l \in Nat : Width = 2 * h
  BY Halves
<1>2. PICK x \in 0..(Width - 1), y \in 0..(Height - 1) : p = <<x, y>>
  BY DEF Pixels
<1>3. PICK m \in Nat : m = y * h
  BY <1>1, <1>2, SizeAssumption
<1>4. y * Width = 2 * m
  BY <1>1, <1>2, <1>3
<1>5. Index(p) = 2 * m + x /\ x \in Nat /\ p[1] = x
  BY <1>2, <1>4, SizeAssumption DEF Index
<1>6. 2 * m + x < 2 * k
  <2>1. y * Width <= (Height - 1) * Width
    <3>1. PICK d \in Nat : Height - 1 = y + d
      <4>1. Height - 1 - y \in Nat /\ Height - 1 = y + (Height - 1 - y)
        BY <1>2, SizeAssumption
      <4> QED
        BY <4>1
    <3>2. (y + d) * Width = y * Width + d * Width /\ d * Width >= 0 /\ y * Width \in Int /\ d * Width \in Int
      BY <1>2, <3>1, SizeAssumption
    <3> QED
      BY <3>1, <3>2
  <2>2. (Height - 1) * Width = Width * Height - Width
    BY SizeAssumption
  <2> QED
    BY <1>2, <1>4, <2>1, <2>2, SizeAssumption
<1> QED
  BY <1>3, <1>5, <1>6

(* The byte that is used is one of the file ... *)
LEMMA BufDefined ==
    ASSUME NEW n \in Nat, n >= 3, NEW file, file \in [1..n -> 0..255], Len(file) = n,
           NEW g \in Nat, g > 0, NEW j \in 1..3
    PROVE  Buf(file, g, j) \in 0..255
<1>1. PICK r \in Nat : r = (n - j) \div 3
  OBVIOUS
<1>2. 3 * r <= n - j
  BY <1>1
<1> DEFINE last == IF g < r + 1 THEN g ELSE r + 1
<1>3. last \in 1..(r + 1)
  OBVIOUS
<1>4. 3 * (last - 1) + j \in 1..n
  BY <1>2, <1>3
<1>5. Buf(file, g, j) = IF last = 0 THEN Undef ELSE file[3 * (last - 1) + j]
  BY <1>1 DEF Buf
<1> HIDE DEF last
<1> QED
  BY <1>3, <1>4, <1>5

(* ... and the one at its place if the file is whole. *)
LEMMA BufWhole ==
    ASSUME NEW k \in Nat, NEW file, Len(file) = 3 * k, NEW h \in 0..(k - 1), NEW j \in 1..3
    PROVE  Buf(file, h + 1, j) = file[3 * h + j]
<1>1. (3 * k - j) \div 3 = k - 1 /\ ~(3 * k < j)
  OBVIOUS
<1>2. (IF h + 1 < (k - 1) + 1 THEN h + 1 ELSE (k - 1) + 1) = h + 1
  OBVIOUS
<1>3. (h + 1) - 1 = h /\ h + 1 # 0
  OBVIOUS
<1> QED
  BY <1>1, <1>2, <1>3 DEF Buf

(* The two pixels of three bytes, as they are put together of half bytes. *)
Joined(h, m, l) == 256 * h + 16 * m + l

LEMMA PixelValues ==
    ASSUME NEW a \in 0..255, NEW b \in 0..255, NEW c \in 0..255
    PROVE  /\ FirstPixel(a, b) = 16 * Joined(a \div 16, a % 16, b \div 16)
           /\ SecondPixel(b, c) = 16 * Joined(b % 16, c \div 16, c % 16)
           /\ FirstPixel(a, b) \in Nat /\ SecondPixel(b, c) \in Nat
<1>1. Undef \notin {a, b} /\ Undef \notin {b, c}
  BY DEF Undef
<1>2. FirstPixel(a, b) = 256 * a + (b - (b % 16)) /\ SecondPixel(b, c) = 4096 * (b % 16) + 16 * c
  BY <1>1 DEF FirstPixel, SecondPixel
<1>3. a = 16 * (a \div 16) + (a % 16) /\ a \div 16 \in Nat /\ a % 16 \in Nat
  OBVIOUS
<1>4. b = 16 * (b \div 16) + (b % 16) /\ b \div 16 \in Nat /\ b % 16 \in Nat
  OBVIOUS
<1>5. c = 16 * (c \div 16) + (c % 16) /\ c \div 16 \in Nat /\ c % 16 \in Nat
  OBVIOUS
<1> QED
  BY <1>2, <1>3, <1>4, <1>5 DEF Joined

(* What the constructor's loop stores for a pixel. *)
Stored(file, p) ==
    LET g == Index(p) \div 2 + 1
    IN  IF p[1] % 2 = 0 THEN FirstPixel(Buf(file, g, 1), Buf(file, g, 2))
        ELSE SecondPixel(Buf(file, g, 2), Buf(file, g, 3))
Colour(p) == getColorIndex(p[1], p[2])

LEMMA Loaded ==
    ASSUME NEW file
    PROVE  Load(file) = [p \in Pixels |-> [c \in 0..2 |-> IF c = Colour(p) THEN Stored(file, p) ELSE Undef]]
BY DEF Load, Stored, Colour, Index

LEMMA StoredDefined ==
    ASSUME NEW n \in Nat, n >= 3, NEW file, file \in [1..n -> 0..255], Len(file) = n, NEW p \in Pixels
    PROVE  Stored(file, p) \in Nat
<1>1. PICK h, k \in Nat : Width * Height = 2 * k
  BY Halves
<1>2. PICK g \in Nat : g = Index(p) \div 2 + 1 /\ g > 0
  BY <1>1, Indices
<1>3. \A j \in 1..3 : Buf(file, g, j) \in 0..255
  BY <1>2, BufDefined
<1>4. FirstPixel(Buf(file, g, 1), Buf(file, g, 2)) \in Nat /\ SecondPixel(Buf(file, g, 2), Buf(file, g, 3)) \in Nat
  <2>1. Buf(file, g, 1) \in 0..255 /\ Buf(file, g, 2) \in 0..255 /\ Buf(file, g, 3) \in 0..255
    BY <1>3
  <2> QED
    BY <2>1, PixelValues, ZenonT(60)
<1> QED
  BY <1>2, <1>4 DEF Stored

LEMMA StoredWhole ==
    ASSUME NEW file \in [1..FileLength -> 0..255], Len(file) = FileLength, NEW p \in Pixels
    PROVE  Stored(file, p) = 16 * Sample(file, p)
<1>1. PICK w, k \in Nat : Width * Height = 2 * k /\ FileLength = 3 * k
  BY Halves
<1>2. PICK h \in 0..(k - 1) : h = Index(p) \div 2
  BY <1>1, Indices
<1>3. \A j \in 1..3 : Buf(file, h + 1, j) = file[3 * h + j] /\ file[3 * h + j] \in 0..255
  <2>1. \A j \in 1..3 : 3 * h + j \in 1..FileLength
    BY <1>1
  <2>2. \A j \in 1..3 : Buf(file, h + 1, j) = file[3 * h + j]
    <3> SUFFICES ASSUME NEW j \in 1..3 PROVE Buf(file, h + 1, j) = file[3 * h + j]
      OBVIOUS
    <3>1. Len(file) = 3 * k
      BY <1>1
    <3> QED
      BY <3>1, BufWhole, ZenonT(60)
  <2> QED
    BY <2>1, <2>2
<1>4. PICK a, b, c \in 0..255 : a = file[3 * h + 1] /\ b = file[3 * h + 2] /\ c = file[3 * h + 3]
  <2>1. 1 \in 1..3 /\ 2 \in 1..3 /\ 3 \in 1..3
    OBVIOUS
  <2> QED
    BY <1>3, <2>1, ZenonT(60)
<1>5. Stored(file, p) = IF p[1] % 2 = 0 THEN FirstPixel(a, b) ELSE SecondPixel(b, c)
  <2>1. Buf(file, h + 1, 1) = a /\ Buf(file, h + 1, 2) = b /\ Buf(file, h + 1, 3) = c
    BY <1>3, <1>4
  <2>2. Stored(file, p) = IF p[1] % 2 = 0 THEN FirstPixel(Buf(file, h + 1, 1), Buf(file, h + 1, 2))
                          ELSE SecondPixel(Buf(file, h + 1, 2), Buf(file, h + 1, 3))
    BY <1>2, Zenon DEF Stored
  <2> QED
    BY <2>1, <2>2, Zenon
<1>6. Sample(file, p) = Joined(Nibble(file, 3 * Index(p)), Nibble(file, 3 * Index(p) + 1),
                               Nibble(file, 3 * Index(p) + 2))
  BY DEF Sample, Index, Joined
<1>7. CASE p[1] % 2 = 0
  <2>1. Index(p) = 2 * h
    BY <1>1, <1>2, <1>7, Indices
  <2>2. /\ (3 * Index(p)) % 2 = 0 /\ (3 * Index(p)) \div 2 + 1 = 3 * h + 1
        /\ (3 * Index(p) + 1) % 2 # 0 /\ (3 * Index(p) + 1) \div 2 + 1 = 3 * h + 1
        /\ (3 * Index(p) + 2) % 2 = 0 /\ (3 * Index(p) + 2) \div 2 + 1 = 3 * h + 2
    BY <2>1
  <2>3. Sample(file, p) = Joined(a \div 16, a % 16, b \div 16)
    BY <1>4, <1>6, <2>2 DEF Nibble
  <2>4. FirstPixel(a, b) = 16 * Joined(a \div 16, a % 16, b \div 16)
    BY PixelValues, ZenonT(60)
  <2> QED
    BY <1>5, <1>7, <2>3, <2>4
<1>8. CASE p[1] % 2 # 0
  <2>0. p[1] % 2 = 1
    BY <1>8, SizeAssumption DEF Pixels
  <2>1. Index(p) = 2 * h + 1
    BY <1>1, <1>2, <2>0, Indices
  <2>2. /\ (3 * Index(p)) % 2 # 0 /\ (3 * Index(p)) \div 2 + 1 = 3 * h + 2
        /\ (3 * Index(p) + 1) % 2 = 0 /\ (3 * Index(p) + 1) \div 2 + 1 = 3 * h + 3
        /\ (3 * Index(p) + 2) % 2 # 0 /\ (3 * Index(p) + 2) \div 2 + 1 = 3 * h + 3
    BY <2>1
  <2>3. Sample(file, p) = Joined(b % 16, c \div 16, c % 16)
    BY <1>4, <1>6, <2>2 DEF Nibble
  <2>4. SecondPixel(b, c) = 16 * Joined(b % 16, c \div 16, c % 16)
    BY PixelValues, ZenonT(60)
  <2> QED
    BY <1>5, <1>8, <2>3, <2>4
<1> QED
  BY <1>7, <1>8

(* The values of a channel that are in the file, and what lies between     *)
(* them.                                                                   *)
Values(file, c) == {Stored(file, q) : q \in {q \in Pixels : Colour(q) = c}}
Between(file, v, c) ==
    /\ v \in Nat
    /\ \E a \in Values(file, c) : a <= v
    /\ \E b \in Values(file, c) : v <= b

(* While demosaic is at work every pixel keeps its own channel. *)
Own(file, data) ==
    \A q \in Pixels : DOMAIN data[q] = 0..2 /\ data[q][Colour(q)] = Stored(file, q)

LEMMA MeanOfTwo ==
    ASSUME NEW file, NEW c, NEW a \in Values(file, c), NEW b \in Values(file, c), Values(file, c) \subseteq Nat
    PROVE  Between(file, (a + b) \div 2, c)
<1>1. a \in Nat /\ b \in Nat
  OBVIOUS
<1>2. /\ (a + b) \div 2 \in Nat
      /\ a <= (a + b) \div 2 \/ b <= (a + b) \div 2
      /\ (a + b) \div 2 <= a \/ (a + b) \div 2 <= b
  BY <1>1
<1> QED
  BY <1>2 DEF Between

LEMMA MeanOfFour ==
    ASSUME NEW file, NEW c, NEW a \in Values(file, c), NEW b \in Values(file, c),
           NEW d \in Values(file, c), NEW e \in Values(file, c), Values(file, c) \subseteq Nat
    PROVE  Between(file, (a + b + d + e) \div 4, c)
<1>1. a \in Nat /\ b \in Nat /\ d \in Nat /\ e \in Nat
  OBVIOUS
<1> DEFINE m == (a + b + d + e) \div 4
<1>2. m \in Nat /\ 4 * m <= a + b + d + e /\ a + b + d + e < 4 * m + 4
  BY <1>1
<1>3. a <= m \/ b <= m \/ d <= m \/ e <= m
  BY <1>1, <1>2
<1>4. m <= a \/ m <= b \/ m <= d \/ m <= e
  BY <1>1, <1>2
<1> QED
  BY <1>2, <1>3, <1>4 DEF Between

(* The interpolations of the four passes read own channels only. *)
Reads(p, offsets, c) ==
    \A k \in DOMAIN offsets :
        LET q == <<p[1] + offsets[k][1], p[2] + offsets[k][2]>>
        IN  q \in Pixels /\ Colour(q) = c

LEMMA InterpolateTwo ==
    ASSUME NEW file, NEW data, Own(file, data), NEW c \in 0..2, Values(file, c) \subseteq Nat,
           NEW p, NEW offsets, DOMAIN offsets = 1..2, Reads(p, offsets, c)
    PROVE  Between(file, Interpolate(data, p, offsets, c), c)
<1> DEFINE values == [k \in DOMAIN offsets |-> data[<<p[1] + offsets[k][1], p[2] + offsets[k][2]>>][c]]
<1>1. \A k \in 1..2 : values[k] \in Values(file, c)
  BY DEF Own, Values, Reads
<1>2. DOMAIN values = 1..2 /\ Len(values) = 2
  OBVIOUS
<1>3. Interpolate(data, p, offsets, c) =
          IF \E k \in DOMAIN values : values[k] = Undef THEN Undef
          ELSE IF Len(values) = 2 THEN (values[1] + values[2]) \div 2
          ELSE (values[1] + values[2] + values[3] + values[4]) \div 4
  BY DEF Interpolate
<1> HIDE DEF values
<1>4. values[1] \in Values(file, c) /\ values[2] \in Values(file, c)
  BY <1>1
<1>5. ~\E k \in DOMAIN values : values[k] = Undef
  BY <1>1, <1>2 DEF Undef
<1>6. Interpolate(data, p, offsets, c) = (values[1] + values[2]) \div 2
  BY <1>2, <1>3, <1>5
<1> QED
  BY <1>4, <1>6, MeanOfTwo

LEMMA InterpolateFour ==
    ASSUME NEW file, NEW data, Own(file, data), NEW c \in 0..2, Values(file, c) \subseteq Nat,
           NEW p, NEW offsets, DOMAIN offsets = 1..4, Reads(p, offsets, c)
    PROVE  Between(file, Interpolate(data, p, offsets, c), c)
<1> DEFINE values == [k \in DOMAIN offsets |-> data[<<p[1] + offsets[k][1], p[2] + offsets[k][2]>>][c]]
<1>1. \A k \in 1..4 : values[k] \in Values(file, c)
  BY DEF Own, Values, Reads
<1>2. DOMAIN values = 1..4 /\ Len(values) = 4
  OBVIOUS
<1>3. Interpolate(data, p, offsets, c) =
          IF \E k \in DOMAIN values : values[k] = Undef THEN Undef
          ELSE IF Len(values) = 2 THEN (values[1] + values[2]) \div 2
          ELSE (values[1] + values[2] + values[3] + values[4]) \div 4
  BY DEF Interpolate
<1> HIDE DEF values
<1>4. values[1] \in Values(file, c) /\ values[2] \in Values(file, c) /\ values[3] \in Values(file, c) /\ values[4] \in Values(file, c)
  BY <1>1
<1>5. ~\E k \in DOMAIN values : values[k] = Undef
  BY <1>1, <1>2 DEF Undef
<1>6. Interpolate(data, p, offsets, c) = (values[1] + values[2] + values[3] + values[4]) \div 4
  BY <1>2, <1>3, <1>5
<1> QED
  BY <1>4, <1>6, MeanOfFour

(* The pixels around one that is not at the border, and their colours. *)
Inner(p) == p \in Pixels /\ p[1] \in 1..(COL_MAX - 1) /\ p[2] \in 1..(ROW_MAX - 1)

LEMMA Neighbours ==
    ASSUME NEW p, Inner(p), NEW dx \in -1..1, NEW dy \in -1..1
    PROVE  /\ <<p[1] + dx, p[2] + dy>> \in Pixels
           /\ Colour(<<p[1] + dx, p[2] + dy>>) = getColorIndex(p[1] + dx, p[2] + dy)
BY SizeAssumption DEF Inner, Pixels, COL_MAX, ROW_MAX, Colour

LEMMA Parities ==
    ASSUME NEW x \in Int
    PROVE  /\ x % 2 = 0 => (x + 1) % 2 = 1 /\ (x + (-1)) % 2 = 1 /\ (x + 0) % 2 = 0
           /\ x % 2 = 1 => (x + 1) % 2 = 0 /\ (x + (-1)) % 2 = 0 /\ (x + 0) % 2 = 1
           /\ x % 2 \in {0, 1}
           /\ (x - 1) % 2 = 0 <=> x % 2 = 1
           /\ (x - 2) % 2 = 0 <=> x % 2 = 0
OBVIOUS

(* What the passes read for a pixel, by the parities of its coordinates. *)
LEMMA PassReads ==
    ASSUME NEW p, Inner(p)
    PROVE  /\ p[1] % 2 = 0 /\ p[2] % 2 = 1 => Reads(p, Beside, 0) /\ Reads(p, Above, 2)
           /\ p[1] % 2 = 1 /\ p[2] % 2 = 0 => Reads(p, Above, 0) /\ Reads(p, Beside, 2)
           /\ p[1] % 2 = 0 /\ p[2] % 2 = 0 => Reads(p, Diagonal, 0) /\ Reads(p, Around, 1)
           /\ p[1] % 2 = 1 /\ p[2] % 2 = 1 => Reads(p, Diagonal, 2) /\ Reads(p, Around, 1)
           /\ DOMAIN Beside = 1..2 /\ DOMAIN Above = 1..2 /\ DOMAIN Diagonal = 1..4 /\ DOMAIN Around = 1..4
<1>1. p[1] \in Int /\ p[2] \in Int
  BY SizeAssumption DEF Inner
<1> DEFINE q(dx, dy) == <<p[1] + dx, p[2] + dy>>
<1>2. \A dx, dy \in -1..1 : q(dx, dy) \in Pixels /\ Colour(q(dx, dy)) = getColorIndex(p[1] + dx, p[2] + dy)
  BY Neighbours
<1>3. /\ q(-1, 0) \in Pixels /\ q(1, 0) \in Pixels /\ q(0, -1) \in Pixels /\ q(0, 1) \in Pixels
      /\ q(-1, 1) \in Pixels /\ q(-1, -1) \in Pixels /\ q(1, 1) \in Pixels /\ q(1, -1) \in Pixels
  BY <1>2
<1>4. /\ Colour(q(-1, 0)) = getColorIndex(p[1] + (-1), p[2] + 0) /\ Colour(q(1, 0)) = getColorIndex(p[1] + 1, p[2] + 0)
      /\ Colour(q(0, -1)) = getColorIndex(p[1] + 0, p[2] + (-1)) /\ Colour(q(0, 1)) = getColorIndex(p[1] + 0, p[2] + 1)
      /\ Colour(q(-1, 1)) = getColorIndex(p[1] + (-1), p[2] + 1) /\ Colour(q(-1, -1)) = getColorIndex(p[1] + (-1), p[2] + (-1))
      /\ Colour(q(1, 1)) = getColorIndex(p[1] + 1, p[2] + 1) /\ Colour(q(1, -1)) = getColorIndex(p[1] + 1, p[2] + (-1))
  BY <1>2
<1> HIDE DEF q
<1>5. \A o, r, c : /\ q(o[1], o[2]) \in Pixels /\ Colour(q(o[1], o[2])) = c
                   /\ q(r[1], r[2]) \in Pixels /\ Colour(q(r[1], r[2])) = c
                   => Reads(p, <<o, r>>, c)
  BY DEF Reads, q
<1>6. \A o, r, s, t, c : /\ q(o[1], o[2]) \in Pixels /\ Colour(q(o[1], o[2])) = c
                         /\ q(r[1], r[2]) \in Pixels /\ Colour(q(r[1], r[2])) = c
                         /\ q(s[1], s[2]) \in Pixels /\ Colour(q(s[1], s[2])) = c
                         /\ q(t[1], t[2]) \in Pixels /\ Colour(q(t[1], t[2])) = c
                         => Reads(p, <<o, r, s, t>>, c)
  BY DEF Reads, q
<1>7. Around = <<<<-1, 0>>, <<1, 0>>, <<0, -1>>, <<0, 1>>>>
  BY DEF Around
<1>8. ASSUME NEW c, Colour(q(-1, 0)) = c, Colour(q(1, 0)) = c PROVE Reads(p, Beside, c)
  BY <1>3, <1>5, <1>8 DEF Beside
<1>9. ASSUME NEW c, Colour(q(0, -1)) = c, Colour(q(0, 1)) = c PROVE Reads(p, Above, c)
  BY <1>3, <1>5, <1>9 DEF Above
<1>10. ASSUME NEW c, Colour(q(-1, 1)) = c, Colour(q(-1, -1)) = c, Colour(q(1, 1)) = c, Colour(q(1, -1)) = c
       PROVE  Reads(p, Diagonal, c)
  BY <1>3, <1>6, <1>10 DEF Diagonal
<1>11. ASSUME NEW c, Colour(q(-1, 0)) = c, Colour(q(1, 0)) = c, Colour(q(0, -1)) = c, Colour(q(0, 1)) = c
       PROVE  Reads(p, Around, c)
  BY <1>3, <1>6, <1>7, <1>11
<1>12. ASSUME p[1] % 2 = 0, p[2] % 2 = 1 PROVE Reads(p, Beside, 0) /\ Reads(p, Above, 2)
  <2>1. Colour(q(-1, 0)) = 0 /\ Colour(q(1, 0)) = 0 /\ Colour(q(0, -1)) = 2 /\ Colour(q(0, 1)) = 2
    BY <1>1, <1>4, <1>12, Parities DEF getColorIndex
  <2> QED
    BY <1>8, <1>9, <1>12, <2>1
<1>13. ASSUME p[1] % 2 = 1, p[2] % 2 = 0 PROVE Reads(p, Above, 0) /\ Reads(p, Beside, 2)
  <2>1. Colour(q(-1, 0)) = 2 /\ Colour(q(1, 0)) = 2 /\ Colour(q(0, -1)) = 0 /\ Colour(q(0, 1)) = 0
    BY <1>1, <1>4, <1>13, Parities DEF getColorIndex
  <2> QED
    BY <1>8, <1>9, <1>13, <2>1
<1>14. ASSUME p[1] % 2 = 0, p[2] % 2 = 0 PROVE Reads(p, Diagonal, 0) /\ Reads(p, Around, 1)
  <2>1. Colour(q(-1, 0)) = 1 /\ Colour(q(1, 0)) = 1 /\ Colour(q(0, -1)) = 1 /\ Colour(q(0, 1)) = 1
    BY <1>1, <1>4, <1>14, Parities DEF getColorIndex
  <2>2. Colour(q(-1, 1)) = 0 /\ Colour(q(-1, -1)) = 0 /\ Colour(q(1, 1)) = 0 /\ Colour(q(1, -1)) = 0
    BY <1>1, <1>4, <1>14, Parities DEF getColorIndex
  <2> QED
    BY <1>10, <1>11, <1>14, <2>1, <2>2
<1>15. ASSUME p[1] % 2 = 1, p[2] % 2 = 1 PROVE Reads(p, Diagonal, 2) /\ Reads(p, Around, 1)
  <2>1. Colour(q(-1, 0)) = 1 /\ Colour(q(1, 0)) = 1 /\ Colour(q(0, -1)) = 1 /\ Colour(q(0, 1)) = 1
    BY <1>1, <1>4, <1>15, Parities DEF getColorIndex
  <2>2. Colour(q(-1, 1)) = 2 /\ Colour(q(-1, -1)) = 2 /\ Colour(q(1, 1)) = 2 /\ Colour(q(1, -1)) = 2
    BY <1>1, <1>4, <1>15, Parities DEF getColorIndex
  <2> QED
    BY <1>10, <1>11, <1>15, <2>1, <2>2
<1>16. DOMAIN Beside = 1..2 /\ DOMAIN Above = 1..2 /\ DOMAIN Diagonal = 1..4 /\ DOMAIN Around = 1..4
  BY <1>7 DEF Beside, Above, Diagonal
<1> QED
  BY <1>12, <1>13, <1>14, <1>15, <1>16

(* A pixel all of whose channels have a value. *)
Filled(file, data, p) == \A c \in 0..2 : Between(file, data[p][c], c)

(* The passes. *)
LEMMA RedLinesPass ==
    ASSUME NEW file, NEW data, Own(file, data), \A c \in 0..2 : Values(file, c) \subseteq Nat
    PROVE  /\ Own(file, RedLines(data))
           /\ \A p \in Pixels : InPass(p, 2, 1) => Filled(file, RedLines(data), p)
           /\ \A p \in Pixels : ~InPass(p, 2, 1) => RedLines(data)[p] = data[p]
<1>1. \A p \in Pixels : ~InPass(p, 2, 1) => RedLines(data)[p] = data[p]
  BY DEF RedLines
<1>2. ASSUME NEW p \in Pixels, InPass(p, 2, 1)
      PROVE  /\ DOMAIN RedLines(data)[p] = 0..2 /\ RedLines(data)[p][1] = data[p][1] /\ Colour(p) = 1
             /\ Filled(file, RedLines(data), p)
  <2>1. Inner(p) /\ p[1] \in Int /\ p[2] \in Int
    BY <1>2, SizeAssumption DEF InPass, Inner, Pixels, COL_MAX, ROW_MAX
  <2>2. p[1] % 2 = 0 /\ p[2] % 2 = 1
    BY <1>2, <2>1, Parities DEF InPass
  <2>3. Colour(p) = 1
    BY <2>2 DEF Colour, getColorIndex
  <2>4. Between(file, Interpolate(data, p, Beside, 0), 0)
    BY <2>1, <2>2, PassReads, InterpolateTwo
  <2>5. Between(file, Interpolate(data, p, Above, 2), 2)
    BY <2>1, <2>2, PassReads, InterpolateTwo
  <2>6. RedLines(data)[p] = [data[p] EXCEPT ![0] = Interpolate(data, p, Beside, 0),
                                    ![2] = Interpolate(data, p, Above, 2)]
    BY <1>2 DEF RedLines
  <2>7. DOMAIN data[p] = 0..2 /\ data[p][1] = Stored(file, p)
    BY <2>3 DEF Own
  <2>8. Between(file, data[p][1], 1)
    <3>1. data[p][1] \in Values(file, 1) /\ Values(file, 1) \subseteq Nat
      BY <2>3, <2>7 DEF Values
    <3>2. data[p][1] \in Nat /\ data[p][1] <= data[p][1]
      BY <3>1
    <3> QED
      BY <3>1, <3>2 DEF Between
  <2>9. /\ DOMAIN RedLines(data)[p] = 0..2 /\ RedLines(data)[p][1] = data[p][1]
        /\ RedLines(data)[p][0] = Interpolate(data, p, Beside, 0)
        /\ RedLines(data)[p][2] = Interpolate(data, p, Above, 2)
    BY <2>6, <2>7
  <2>10. \A c \in 0..2 : c = 0 \/ c = 1 \/ c = 2
    OBVIOUS
  <2> QED
    BY <2>3, <2>4, <2>5, <2>8, <2>9, <2>10 DEF Filled
<1>3. Own(file, RedLines(data))
  BY <1>1, <1>2 DEF Own
<1> QED
  BY <1>1, <1>2, <1>3

LEMMA BlueLinesPass ==
    ASSUME NEW file, NEW data, Own(file, data), \A c \in 0..2 : Values(file, c) \subseteq Nat
    PROVE  /\ Own(file, BlueLines(data))
           /\ \A p \in Pixels : InPass(p, 1, 2) => Filled(file, BlueLines(data), p)
           /\ \A p \in Pixels : ~InPass(p, 1, 2) => BlueLines(data)[p] = data[p]
<1>1. \A p \in Pixels : ~InPass(p, 1, 2) => BlueLines(data)[p] = data[p]
  BY DEF BlueLines
<1>2. ASSUME NEW p \in Pixels, InPass(p, 1, 2)
      PROVE  /\ DOMAIN BlueLines(data)[p] = 0..2 /\ BlueLines(data)[p][1] = data[p][1] /\ Colour(p) = 1
             /\ Filled(file, BlueLines(data), p)
  <2>1. Inner(p) /\ p[1] \in Int /\ p[2] \in Int
    BY <1>2, SizeAssumption DEF InPass, Inner, Pixels, COL_MAX, ROW_MAX
  <2>2. p[1] % 2 = 1 /\ p[2] % 2 = 0
    BY <1>2, <2>1, Parities DEF InPass
  <2>3. Colour(p) = 1
    BY <2>2 DEF Colour, getColorIndex
  <2>4. Between(file, Interpolate(data, p, Above, 0), 0)
    BY <2>1, <2>2, PassReads, InterpolateTwo
  <2>5. Between(file, Interpolate(data, p, Beside, 2), 2)
    BY <2>1, <2>2, PassReads, InterpolateTwo
  <2>6. BlueLines(data)[p] = [data[p] EXCEPT ![0] = Interpolate(data, p, Above, 0),
                                    ![2] = Interpolate(data, p, Beside, 2)]
    BY <1>2 DEF BlueLines
  <2>7. DOMAIN data[p] = 0..2 /\ data[p][1] = Stored(file, p)
    BY <2>3 DEF Own
  <2>8. Between(file, data[p][1], 1)
    <3>1. data[p][1] \in Values(file, 1) /\ Values(file, 1) \subseteq Nat
      BY <2>3, <2>7 DEF Values
    <3>2. data[p][1] \in Nat /\ data[p][1] <= data[p][1]
      BY <3>1
    <3> QED
      BY <3>1, <3>2 DEF Between
  <2>9. /\ DOMAIN BlueLines(data)[p] = 0..2 /\ BlueLines(data)[p][1] = data[p][1]
        /\ BlueLines(data)[p][0] = Interpolate(data, p, Above, 0)
        /\ BlueLines(data)[p][2] = Interpolate(data, p, Beside, 2)
    BY <2>6, <2>7
  <2>10. \A c \in 0..2 : c = 0 \/ c = 1 \/ c = 2
    OBVIOUS
  <2> QED
    BY <2>3, <2>4, <2>5, <2>8, <2>9, <2>10 DEF Filled
<1>3. Own(file, BlueLines(data))
  BY <1>1, <1>2 DEF Own
<1> QED
  BY <1>1, <1>2, <1>3

LEMMA RedMiddlePass ==
    ASSUME NEW file, NEW data, Own(file, data), \A c \in 0..2 : Values(file, c) \subseteq Nat
    PROVE  /\ Own(file, RedMiddle(data))
           /\ \A p \in Pixels : InPass(p, 2, 2) => Filled(file, RedMiddle(data), p)
           /\ \A p \in Pixels : ~InPass(p, 2, 2) => RedMiddle(data)[p] = data[p]
<1>1. \A p \in Pixels : ~InPass(p, 2, 2) => RedMiddle(data)[p] = data[p]
  BY DEF RedMiddle
<1>2. ASSUME NEW p \in Pixels, InPass(p, 2, 2)
      PROVE  /\ DOMAIN RedMiddle(data)[p] = 0..2 /\ RedMiddle(data)[p][2] = data[p][2] /\ Colour(p) = 2
             /\ Filled(file, RedMiddle(data), p)
  <2>1. Inner(p) /\ p[1] \in Int /\ p[2] \in Int
    BY <1>2, SizeAssumption DEF InPass, Inner, Pixels, COL_MAX, ROW_MAX
  <2>2. p[1] % 2 = 0 /\ p[2] % 2 = 0
    BY <1>2, <2>1, Parities DEF InPass
  <2>3. Colour(p) = 2
    BY <2>2 DEF Colour, getColorIndex
  <2>4. Between(file, Interpolate(data, p, Diagonal, 0), 0)
    BY <2>1, <2>2, PassReads, InterpolateFour
  <2>5. Between(file, Interpolate(data, p, Around, 1), 1)
    BY <2>1, <2>2, PassReads, InterpolateFour
  <2>6. RedMiddle(data)[p] = [data[p] EXCEPT ![0] = Interpolate(data, p, Diagonal, 0),
                                    ![1] = Interpolate(data, p, Around, 1)]
    BY <1>2 DEF RedMiddle
  <2>7. DOMAIN data[p] = 0..2 /\ data[p][2] = Stored(file, p)
    BY <2>3 DEF Own
  <2>8. Between(file, data[p][2], 2)
    <3>1. data[p][2] \in Values(file, 2) /\ Values(file, 2) \subseteq Nat
      BY <2>3, <2>7 DEF Values
    <3>2. data[p][2] \in Nat /\ data[p][2] <= data[p][2]
      BY <3>1
    <3> QED
      BY <3>1, <3>2 DEF Between
  <2>9. /\ DOMAIN RedMiddle(data)[p] = 0..2 /\ RedMiddle(data)[p][2] = data[p][2]
        /\ RedMiddle(data)[p][0] = Interpolate(data, p, Diagonal, 0)
        /\ RedMiddle(data)[p][1] = Interpolate(data, p, Around, 1)
    BY <2>6, <2>7
  <2>10. \A c \in 0..2 : c = 0 \/ c = 1 \/ c = 2
    OBVIOUS
  <2> QED
    BY <2>3, <2>4, <2>5, <2>8, <2>9, <2>10 DEF Filled
<1>3. Own(file, RedMiddle(data))
  BY <1>1, <1>2 DEF Own
<1> QED
  BY <1>1, <1>2, <1>3

LEMMA BlueMiddlePass ==
    ASSUME NEW file, NEW data, Own(file, data), \A c \in 0..2 : Values(file, c) \subseteq Nat
    PROVE  /\ Own(file, BlueMiddle(data))
           /\ \A p \in Pixels : InPass(p, 1, 1) => Filled(file, BlueMiddle(data), p)
           /\ \A p \in Pixels : ~InPass(p, 1, 1) => BlueMiddle(data)[p] = data[p]
<1>1. \A p \in Pixels : ~InPass(p, 1, 1) => BlueMiddle(data)[p] = data[p]
  BY DEF BlueMiddle
<1>2. ASSUME NEW p \in Pixels, InPass(p, 1, 1)
      PROVE  /\ DOMAIN BlueMiddle(data)[p] = 0..2 /\ BlueMiddle(data)[p][0] = data[p][0] /\ Colour(p) = 0
             /\ Filled(file, BlueMiddle(data), p)
  <2>1. Inner(p) /\ p[1] \in Int /\ p[2] \in Int
    BY <1>2, SizeAssumption DEF InPass, Inner, Pixels, COL_MAX, ROW_MAX
  <2>2. p[1] % 2 = 1 /\ p[2] % 2 = 1
    BY <1>2, <2>1, Parities DEF InPass
  <2>3. Colour(p) = 0
    BY <2>2 DEF Colour, getColorIndex
  <2>4. Between(file, Interpolate(data, p, Diagonal, 2), 2)
    BY <2>1, <2>2, PassReads, InterpolateFour
  <2>5. Between(file, Interpolate(data, p, Around, 1), 1)
    BY <2>1, <2>2, PassReads, InterpolateFour
  <2>6. BlueMiddle(data)[p] = [data[p] EXCEPT ![2] = Interpolate(data, p, Diagonal, 2),
                                    ![1] = Interpolate(data, p, Around, 1)]
    BY <1>2 DEF BlueMiddle
  <2>7. DOMAIN data[p] = 0..2 /\ data[p][0] = Stored(file, p)
    BY <2>3 DEF Own
  <2>8. Between(file, data[p][0], 0)
    <3>1. data[p][0] \in Values(file, 0) /\ Values(file, 0) \subseteq Nat
      BY <2>3, <2>7 DEF Values
    <3>2. data[p][0] \in Nat /\ data[p][0] <= data[p][0]
      BY <3>1
    <3> QED
      BY <3>1, <3>2 DEF Between
  <2>9. /\ DOMAIN BlueMiddle(data)[p] = 0..2 /\ BlueMiddle(data)[p][0] = data[p][0]
        /\ BlueMiddle(data)[p][2] = Interpolate(data, p, Diagonal, 2)
        /\ BlueMiddle(data)[p][1] = Interpolate(data, p, Around, 1)
    BY <2>6, <2>7
  <2>10. \A c \in 0..2 : c = 0 \/ c = 1 \/ c = 2
    OBVIOUS
  <2> QED
    BY <2>3, <2>4, <2>5, <2>8, <2>9, <2>10 DEF Filled
<1>3. Own(file, BlueMiddle(data))
  BY <1>1, <1>2 DEF Own
<1> QED
  BY <1>1, <1>2, <1>3

(* The borders copy pixels that are not at the border. *)
LEMMA BordersFilled ==
    ASSUME NEW file, NEW data, \A p \in Pixels : Inner(p) => Filled(file, data, p)
    PROVE  /\ \A p \in Pixels : Filled(file, Borders(data), p)
           /\ \A p \in Pixels : Inner(p) => Borders(data)[p] = data[p]
<1> DEFINE nx(p) == IF p[1] = 0 THEN 1 ELSE IF p[1] = COL_MAX THEN COL_MAX - 1 ELSE p[1]
           ny(p) == IF p[2] = 0 THEN 1 ELSE IF p[2] = ROW_MAX THEN ROW_MAX - 1 ELSE p[2]
<1>1. \A p \in Pixels : Borders(data)[p] = data[<<nx(p), ny(p)>>]
  BY DEF Borders
<1>2. \A p \in Pixels : Inner(<<nx(p), ny(p)>>) /\ <<nx(p), ny(p)>> \in Pixels
  <2> SUFFICES ASSUME NEW p \in Pixels PROVE Inner(<<nx(p), ny(p)>>)
    BY DEF Inner
  <2>1. p[1] \in 0..COL_MAX /\ p[2] \in 0..ROW_MAX /\ COL_MAX = Width - 1 /\ ROW_MAX = Height - 1
    BY DEF Pixels, COL_MAX, ROW_MAX
  <2>2. nx(p) \in 1..(COL_MAX - 1) /\ ny(p) \in 1..(ROW_MAX - 1)
    BY <2>1, SizeAssumption, ViewerAssumption
  <2>3. nx(p) \in 0..(Width - 1) /\ ny(p) \in 0..(Height - 1)
    BY <2>1, <2>2, SizeAssumption
  <2> QED
    BY <2>2, <2>3 DEF Inner, Pixels
<1>3. \A p \in Pixels : Inner(p) => <<nx(p), ny(p)>> = p
  <2> SUFFICES ASSUME NEW p \in Pixels, Inner(p) PROVE <<nx(p), ny(p)>> = p
    OBVIOUS
  <2>1. nx(p) = p[1] /\ ny(p) = p[2]
    BY SizeAssumption DEF Inner, COL_MAX, ROW_MAX
  <2>2. p = <<p[1], p[2]>>
    BY DEF Pixels
  <2> QED
    BY <2>1, <2>2
<1> HIDE DEF nx, ny
<1> QED
  BY <1>1, <1>2, <1>3 DEF Filled

(* Every pixel that is not at the border is filled by one of the passes    *)
(* and left alone by the others.                                           *)
LEMMA Demosaiced ==
    ASSUME NEW file, \A c \in 0..2 : Values(file, c) \subseteq Nat
    PROVE  /\ \A p \in Pixels : Filled(file, RawImageOf(file), p)
           /\ \A p \in Pixels : Inner(p) => RawImageOf(file)[p][Colour(p)] = Stored(file, p)
<1> DEFINE d0 == Load(file)
           d1 == RedLines(d0)
           d2 == BlueLines(d1)
           d3 == RedMiddle(d2)
           d4 == BlueMiddle(d3)
<1>0. Own(file, d0)
  <2>1. \A p \in Pixels : Colour(p) \in 0..2
    BY DEF Colour, getColorIndex
  <2> QED
    BY <2>1, Loaded DEF Own
<1> HIDE DEF d0
<1>1. /\ Own(file, d1)
      /\ \A p \in Pixels : InPass(p, 2, 1) => Filled(file, d1, p)
  BY <1>0, RedLinesPass, Zenon
<1> HIDE DEF d1
<1>2. /\ Own(file, d2)
      /\ \A p \in Pixels : InPass(p, 1, 2) => Filled(file, d2, p)
      /\ \A p \in Pixels : ~InPass(p, 1, 2) => d2[p] = d1[p]
  BY <1>1, BlueLinesPass, Zenon
<1> HIDE DEF d2
<1>3. /\ Own(file, d3)
      /\ \A p \in Pixels : InPass(p, 2, 2) => Filled(file, d3, p)
      /\ \A p \in Pixels : ~InPass(p, 2, 2) => d3[p] = d2[p]
  BY <1>2, RedMiddlePass, Zenon
<1> HIDE DEF d3
<1>4. /\ Own(file, d4)
      /\ \A p \in Pixels : InPass(p, 1, 1) => Filled(file, d4, p)
      /\ \A p \in Pixels : ~InPass(p, 1, 1) => d4[p] = d3[p]
  BY <1>3, BlueMiddlePass, Zenon
<1>5. RawImageOf(file) = Borders(d4)
  BY DEF RawImageOf, demosaic, d0, d1, d2, d3
<1> HIDE DEF d4
<1>6. ASSUME NEW p \in Pixels, Inner(p) PROVE Filled(file, d4, p)
  <2>1. p[1] \in Int /\ p[2] \in Int /\ p[1] >= 1 /\ p[1] < COL_MAX /\ p[2] >= 1 /\ p[2] < ROW_MAX
    BY <1>6, SizeAssumption DEF Inner, COL_MAX, ROW_MAX
  <2>2. (p[1] % 2 = 0 => p[1] >= 2) /\ (p[2] % 2 = 0 => p[2] >= 2)
    BY <2>1
  <2>3. /\ InPass(p, 2, 1) <=> p[1] % 2 = 0 /\ p[2] % 2 = 1
        /\ InPass(p, 1, 2) <=> p[1] % 2 = 1 /\ p[2] % 2 = 0
        /\ InPass(p, 2, 2) <=> p[1] % 2 = 0 /\ p[2] % 2 = 0
        /\ InPass(p, 1, 1) <=> p[1] % 2 = 1 /\ p[2] % 2 = 1
    BY <2>1, <2>2, Parities DEF InPass
  <2>4. p[1] % 2 \in {0, 1} /\ p[2] % 2 \in {0, 1}
    BY <2>1, Parities
  <2> QED
    BY <1>1, <1>2, <1>3, <1>4, <2>3, <2>4 DEF Filled
<1> QED
  BY <1>4, <1>5, <1>6, BordersFilled DEF Own

(* A whole file is a sequence of bytes. *)
LEMMA WholeFile ==
    ASSUME NEW i \in Images, FileLength \in Nat
    PROVE  Bytes[i] \in Seq(0..255) /\ Len(Bytes[i]) = FileLength
<1>1. PICK n \in Nat : n = FileLength
  OBVIOUS
<1>2. Bytes[i] \in [1..n -> 0..255]
  BY <1>1, ViewerAssumption
<1>3. PICK s \in [1..n -> 0..255] : s = Bytes[i]
  BY <1>2
<1>4. s \in Seq(0..255) /\ Len(s) = n
  OBVIOUS
<1> QED
  BY <1>1, <1>3, <1>4

(* Of a file without a whole group of bytes the last one was never read,   *)
(* and no pass changes the red value of the first inner pixel.             *)
LEMMA ShortFile ==
    ASSUME NEW file, Len(file) \in 0..2
    PROVE  <<1, 1>> \in Pixels /\ RawImageOf(file)[<<1, 1>>][0] = Undef
<1> DEFINE p == <<1, 1>>
           first == Load(file)
           red == RedLines(first)
           blue == BlueLines(red)
           middle == RedMiddle(blue)
           last == BlueMiddle(middle)
<1>1. p \in Pixels /\ COL_MAX > 1 /\ ROW_MAX > 1
  BY SizeAssumption DEF Pixels, COL_MAX, ROW_MAX
<1>2. Stored(file, p) = Undef
  <2>1. PICK w, k \in Nat : Width * Height = 2 * k
    BY Halves
  <2>2. PICK g \in Nat : g = Index(p) \div 2 + 1 /\ g > 0
    BY <1>1, <2>1, Indices
  <2>3. Buf(file, g, 3) = Undef
    BY <2>2 DEF Buf
  <2>4. Stored(file, p) = SecondPixel(Buf(file, g, 2), Buf(file, g, 3))
    BY <2>2 DEF Stored
  <2> QED
    BY <2>3, <2>4 DEF SecondPixel
<1>3. /\ first[p] = [c \in 0..2 |-> IF c = Colour(p) THEN Stored(file, p) ELSE Undef]
      /\ first[p][0] = Undef
  BY <1>1, <1>2, Loaded
<1>4. ~InPass(p, 2, 1) /\ ~InPass(p, 1, 2) /\ ~InPass(p, 2, 2)
  BY DEF InPass
<1>5. red[p] = first[p]
  BY <1>1, <1>4 DEF RedLines
<1>6. blue[p] = red[p]
  BY <1>1, <1>4 DEF BlueLines
<1>7. middle[p] = blue[p]
  BY <1>1, <1>4 DEF RedMiddle
<1>8. last[p][0] = middle[p][0]
  BY <1>1, <1>3, <1>5, <1>6, <1>7 DEF BlueMiddle
<1>9. Borders(last)[p] = last[p]
  BY <1>1 DEF Borders
<1>10. RawImageOf(file) = Borders(last)
  BY DEF RawImageOf, demosaic
<1> QED
  BY <1>1, <1>3, <1>5, <1>6, <1>7, <1>8, <1>9, <1>10

(* A file leaves no value undefined just if it has a whole group of bytes; *)
(* of a whole file every value is a sample or lies between samples.        *)
LEMMA DecodedLengths ==
    ASSUME NEW i \in Images
    PROVE  Decoded[i] = Prefixed \union {FileLength}
<1>1. ASSUME NEW n \in Prefixed \union {FileLength}, n >= 3
      PROVE  \A c \in 0..2 : Values(SubSeq(Bytes[i], 1, n), c) \subseteq Nat
  <2>1. FileLength \in Nat /\ n \in 0..FileLength
    BY Halves, ViewerAssumption
  <2>2. \A k \in 1..n : Bytes[i][k] \in 0..255
    <3>1. \A k \in 1..FileLength : Bytes[i][k] \in 0..255
      BY ViewerAssumption, ZenonT(60)
    <3>2. 1..n \subseteq 1..FileLength
      BY <2>1
    <3> QED
      BY <3>1, <3>2
  <2>3. SubSeq(Bytes[i], 1, n) = [k \in 1..n |-> Bytes[i][k]]
    <3>1. Bytes[i] \in Seq(0..255) /\ Len(Bytes[i]) = FileLength
      BY <2>1, WholeFile
    <3> QED
      BY <2>1, <3>1
  <2> DEFINE file == [k \in 1..n |-> Bytes[i][k]]
  <2>4. file \in [1..n -> 0..255]
    BY <2>2
  <2>5. n \in Nat
    BY <2>1
  <2>6. Len(file) = n
    BY <2>5
  <2>7. SubSeq(Bytes[i], 1, n) = file
    BY <2>3
  <2> HIDE DEF file
  <2>8. \A p \in Pixels : Stored(file, p) \in Nat
    BY <1>1, <2>4, <2>5, <2>6, StoredDefined
  <2> QED
    BY <2>7, <2>8 DEF Values
<1>2. ASSUME NEW n \in Prefixed \union {FileLength}, n >= 3
      PROVE  \A p \in Pixels, c \in 0..2 : RawImageOf(SubSeq(Bytes[i], 1, n))[p][c] # Undef
  <2>1. \A p \in Pixels, c \in 0..2 : RawImageOf(SubSeq(Bytes[i], 1, n))[p][c] \in Nat
    BY <1>1, <1>2, Demosaiced DEF Filled, Between
  <2> QED
    BY <2>1 DEF Undef
<1>3. ASSUME NEW p \in Pixels, NEW c \in 0..2
      PROVE  LET file == Bytes[i]
                 image == RawImageOf(SubSeq(file, 1, FileLength))
             IN  /\ \E v \in Samples(file, c) : v <= image[p][c]
                 /\ \E v \in Samples(file, c) : image[p][c] <= v
                 /\ (p[1] \in 1..(Width - 2) /\ p[2] \in 1..(Height - 2)
                     /\ c = getColorIndex(p[1], p[2])) => image[p][c] = 16 * Sample(file, p)
  <2>1. PICK h, k \in Nat : Width = 2 * h /\ Width * Height = 2 * k /\ FileLength = 3 * k
    BY Halves
  <2>2. FileLength \in Nat /\ FileLength >= 3
    <3>1. Width * Height # 0
      BY SizeAssumption
    <3>2. k # 0
      BY <2>1, <3>1
    <3> QED
      BY <2>1, <3>2
  <2>3. Bytes[i] \in [1..FileLength -> 0..255]
    BY ViewerAssumption
  <2>4. Bytes[i] \in Seq(0..255) /\ Len(Bytes[i]) = FileLength
    BY <2>2, WholeFile
  <2>5. SubSeq(Bytes[i], 1, FileLength) = Bytes[i]
    BY <2>2, <2>3, <2>4
  <2>6. \A q \in Pixels : Stored(Bytes[i], q) = 16 * Sample(Bytes[i], q)
    BY <2>3, <2>4, StoredWhole
  <2>7. Values(Bytes[i], c) = Samples(Bytes[i], c)
    BY <2>6 DEF Values, Samples, Colour
  <2>8. /\ Filled(Bytes[i], RawImageOf(Bytes[i]), p)
        /\ Inner(p) => RawImageOf(Bytes[i])[p][Colour(p)] = Stored(Bytes[i], p)
    <3>1. \A d \in 0..2 : Values(Bytes[i], d) \subseteq Nat
      BY <1>1, <2>2, <2>5
    <3> QED
      BY <3>1, Demosaiced
  <2>9. Between(Bytes[i], RawImageOf(Bytes[i])[p][c], c)
    BY <2>8 DEF Filled
  <2>10. p[1] \in 1..(Width - 2) /\ p[2] \in 1..(Height - 2) => Inner(p)
    BY SizeAssumption DEF Inner, COL_MAX, ROW_MAX
  <2>11. c = getColorIndex(p[1], p[2]) => c = Colour(p)
    BY DEF Colour
  <2> QED
    BY <2>5, <2>6, <2>7, <2>8, <2>9, <2>10, <2>11 DEF Between
<1>4. ASSUME NEW n \in Prefixed \union {FileLength}, ~(n >= 3)
      PROVE  \E p \in Pixels, c \in 0..2 : RawImageOf(SubSeq(Bytes[i], 1, n))[p][c] = Undef
  <2>1. FileLength \in Nat /\ n \in 0..FileLength
    BY Halves, ViewerAssumption
  <2>2. Bytes[i] \in Seq(0..255) /\ Len(Bytes[i]) = FileLength
    BY <2>1, WholeFile
  <2>3. Len(SubSeq(Bytes[i], 1, n)) \in 0..2
    BY <1>4, <2>1, <2>2
  <2>4. /\ <<1, 1>> \in Pixels
        /\ RawImageOf(SubSeq(Bytes[i], 1, n))[<<1, 1>>][0] = Undef
    BY <2>3, ShortFile, ZenonT(60)
  <2>5. 0 \in 0..2
    OBVIOUS
  <2> QED
    BY <2>4, <2>5, ZenonT(60)
<1>5. ASSUME NEW n \in Prefixed \union {FileLength}
      PROVE  (\A p \in Pixels, c \in 0..2 : RawImageOf(SubSeq(Bytes[i], 1, n))[p][c] # Undef) <=> n >= 3
  BY <1>2, <1>4
<1> QED
  BY <1>3, <1>5, ZenonT(60) DEF Decoded

-----------------------------------------------------------------------------
(* The accessors. *)

(* The names of classes and of values; none is both. *)
ClassNames ==
    {"master", "picture", "frameArray", "0", "frame", "metadata", "image", "rawDetails", "pixelFormat",
     "black", "white", "pixelPacking", "mosaic", "color", "whiteBalanceGain", "devices", "clock",
     "sensor", "analogGain", "lens", "exitPupilOffset", "ndfilter", "shutter", "soc", "accelerometer",
     "sampleArray", "mla", "scaleFactor", "sensorOffset", "modes", "camera", "privateMetadata"}
ValueNames ==
    {"width", "height", "orientation", "representation", "rightShift", "r", "gr", "gb", "b", "endianness",
     "bitsPerPixel", "tile", "upperLeftPixel", "gamma", "modulationExposureBias", "limitExposureBias",
     "zuluTime", "iso", "pixelPitch", "infinityLambda", "focalLength", "fNumber", "temperature",
     "zoomStep", "focusStep", "temperatureAdc", "zoomStepperOffset", "focusStepperOffset", "z",
     "exposureBias", "mechanism", "frameExposureDuration", "pixelExposureDuration", "x", "y", "time",
     "tiling", "config", "lensPitch", "rotation", "creative", "exposureDurationMode", "isoMode",
     "ndFilterMode", "manualControls", "exposureLock", "exposureDurationSpec", "isoSpec", "overscan",
     "make", "model", "firmware", "serialNumber", "sensorSerial"}

LEMMA NamesApart == ClassNames \cap ValueNames = {}
BY DEF ClassNames, ValueNames

IsValue(path) == \E class \in Seq(ClassNames), name \in ValueNames : path = class \o <<name>>

(* The path of a value does not lead on to another value. *)
LEMMA NoValueWithin ==
    ASSUME NEW p, IsValue(p), NEW q, IsValue(q), q \in Ancestors(p)
    PROVE  q = p
<1>1. PICK c \in Seq(ClassNames), v \in ValueNames : p = c \o <<v>>
  BY DEF IsValue
<1>2. PICK d \in Seq(ClassNames), w \in ValueNames : q = d \o <<w>>
  BY DEF IsValue
<1> DEFINE S == ClassNames \union ValueNames
<1>3. c \in Seq(S) /\ d \in Seq(S) /\ <<v>> \in Seq(S) /\ <<w>> \in Seq(S)
      /\ Len(c) \in Nat /\ Len(d) \in Nat
  OBVIOUS
<1> HIDE DEF S
<1>4. /\ p \in Seq(S) /\ Len(p) = Len(c) + 1 /\ \A k \in 1..Len(c) : p[k] = c[k]
      /\ q \in Seq(S) /\ Len(q) = Len(d) + 1 /\ q[Len(q)] = w
  BY <1>1, <1>2, <1>3
<1>5. PICK n \in 1..Len(p) : q = SubSeq(p, 1, n)
  BY DEF Ancestors
<1>6. Len(q) = n /\ q[n] = p[n]
  BY <1>4, <1>5
<1>7. CASE n = Len(p)
  BY <1>4, <1>5, <1>7
<1>8. CASE n # Len(p)
  <2>1. n \in 1..Len(c)
    BY <1>3, <1>4, <1>8
  <2>2. p[n] = c[n] /\ c[n] \in ClassNames
    BY <1>4, <2>1
  <2> QED
    BY <1>4, <1>6, <2>2, NamesApart
<1> QED
  BY <1>7, <1>8

(* Looking one value up leaves every other as it was, in any tree. *)
LEMMA OthersKept ==
    ASSUME NEW tree, NEW a, NEW b, IsValue(a.path), IsValue(b.path)
    PROVE  Get(Touched(tree, a.path), b) = Get(tree, b)
<1> DEFINE t == Touched(tree, a.path)
           D == DOMAIN tree
           A == Ancestors(a.path)
<1>1. /\ DOMAIN t = D \union A
      /\ \A p \in D \union A : t[p] = IF p \in A /\ p # a.path /\ (p \notin D \/ tree[p] = "null")
                                      THEN "object" ELSE IF p \in D THEN tree[p] ELSE "null"
  BY DEF Touched
<1> HIDE DEF t
<1>2. b.path \in A => b.path = a.path
  BY NoValueWithin
<1>3. (\E p \in Ancestors(b.path) : p # b.path /\ p \in D /\ tree[p] \notin {"object", "null"})
        <=> (\E p \in Ancestors(b.path) : p # b.path /\ p \in DOMAIN t /\ t[p] \notin {"object", "null"})
  BY <1>1
<1>4. (b.path \notin D \/ tree[b.path] = "null") <=> (b.path \notin DOMAIN t \/ t[b.path] = "null")
  BY <1>1, <1>2
<1>5. b.path \in D => t[b.path] = tree[b.path]
  BY <1>1, <1>2
<1> DEFINE inside(u) == \E p \in Ancestors(b.path) : p # b.path /\ p \in DOMAIN u /\ u[p] \notin {"object", "null"}
           result(u) == IF inside(u) THEN "exception"
                        ELSE IF b.path \notin DOMAIN u \/ u[b.path] = "null" THEN "default"
                        ELSE IF u[b.path] = b.kind THEN "value" ELSE "exception"
<1>6. \A u : Get(u, b) = result(u)
  <2> SUFFICES ASSUME NEW u PROVE Get(u, b) = result(u)
    OBVIOUS
  <2>1. (\E p \in {p \in Ancestors(b.path) : p # b.path /\ p \in DOMAIN u} : u[p] \notin {"object", "null"}) <=> inside(u)
    OBVIOUS
  <2> HIDE DEF inside
  <2> QED
    BY <2>1 DEF Get
<1>7. inside(t) <=> inside(tree)
  BY <1>3
<1> HIDE DEF inside
<1>8. result(t) = result(tree)
  BY <1>4, <1>5, <1>7
<1> QED
  BY <1>6, <1>8 DEF t

-----------------------------------------------------------------------------
LEMMA OneClass ==
    ASSUME NEW class \in Seq(ClassNames), NEW name \in ClassNames
    PROVE  class \o <<name>> \in Seq(ClassNames)
OBVIOUS

LEMMA TwoClasses ==
    ASSUME NEW class \in Seq(ClassNames), NEW name \in ClassNames, NEW within \in ClassNames
    PROVE  class \o <<name, within>> \in Seq(ClassNames)
OBVIOUS

LEMMA ThreeClasses ==
    ASSUME NEW class \in Seq(ClassNames), NEW name \in ClassNames, NEW within \in ClassNames, NEW inner \in ClassNames
    PROVE  class \o <<name, within, inner>> \in Seq(ClassNames)
OBVIOUS

InClass(accessors) == \A a \in accessors : IsValue(a.path)

LEMMA ClassAccessors ==
    ASSUME NEW class \in Seq(ClassNames), NEW kind, NEW names \in SUBSET ValueNames
    PROVE  InClass(Accessors(class, kind, names))
<1> SUFFICES ASSUME NEW a \in Accessors(class, kind, names) PROVE IsValue(a.path)
  BY DEF InClass
<1>1. PICK name \in names : a = [path |-> class \o <<name>>, kind |-> kind]
  BY DEF Accessors
<1>2. a.path = class \o <<name>>
  BY <1>1
<1> QED
  BY <1>2 DEF IsValue

LEMMA FrameClass == Frame \in Seq(ClassNames)
<1>1. \A a, b, c, d, e \in ClassNames : <<a, b, c, d, e>> \in Seq(ClassNames)
  OBVIOUS
<1>2. {"master", "picture", "frameArray", "0", "frame"} \subseteq ClassNames
  BY DEF ClassNames
<1> QED
  BY <1>1, <1>2 DEF Frame

(* The classes of the accessors are made of names of classes. *)
LEMMA ImageClasses ==
    /\ ImageClass \in Seq(ClassNames)
    /\ RawDetails \in Seq(ClassNames)
    /\ PixelFormat \in Seq(ClassNames)
    /\ PixelFormat \o <<"black">> \in Seq(ClassNames)
    /\ PixelFormat \o <<"white">> \in Seq(ClassNames)
    /\ RawDetails \o <<"pixelPacking">> \in Seq(ClassNames)
    /\ RawDetails \o <<"mosaic">> \in Seq(ClassNames)
    /\ ImageClass \o <<"color">> \in Seq(ClassNames)
    /\ ImageClass \o <<"color", "whiteBalanceGain">> \in Seq(ClassNames)
<1>1. {"metadata", "image", "rawDetails", "pixelFormat", "black", "white", "pixelPacking", "mosaic", "color", "whiteBalanceGain"} \subseteq ClassNames
  BY DEF ClassNames
<1>2. ImageClass \in Seq(ClassNames)
  BY <1>1, FrameClass, TwoClasses DEF ImageClass
<1>3. RawDetails \in Seq(ClassNames)
  BY <1>1, <1>2, OneClass DEF RawDetails
<1>4. PixelFormat \in Seq(ClassNames)
  BY <1>1, <1>3, OneClass DEF PixelFormat
<1>5. PixelFormat \o <<"black">> \in Seq(ClassNames)
  BY <1>1, <1>4, OneClass
<1>6. PixelFormat \o <<"white">> \in Seq(ClassNames)
  BY <1>1, <1>4, OneClass
<1>7. RawDetails \o <<"pixelPacking">> \in Seq(ClassNames)
  BY <1>1, <1>3, OneClass
<1>8. RawDetails \o <<"mosaic">> \in Seq(ClassNames)
  BY <1>1, <1>3, OneClass
<1>9. ImageClass \o <<"color">> \in Seq(ClassNames)
  BY <1>1, <1>2, OneClass
<1>10. ImageClass \o <<"color", "whiteBalanceGain">> \in Seq(ClassNames)
  BY <1>1, <1>2, TwoClasses
<1> QED
  BY <1>2, <1>3, <1>4, <1>5, <1>6, <1>7, <1>8, <1>9, <1>10

LEMMA DeviceClasses ==
    /\ Devices \in Seq(ClassNames)
    /\ Devices \o <<"clock">> \in Seq(ClassNames)
    /\ Devices \o <<"ndfilter">> \in Seq(ClassNames)
    /\ Devices \o <<"shutter">> \in Seq(ClassNames)
    /\ Devices \o <<"soc">> \in Seq(ClassNames)
    /\ Devices \o <<"accelerometer", "sampleArray", "0">> \in Seq(ClassNames)
    /\ Sensor \in Seq(ClassNames)
    /\ Sensor \o <<"mosaic">> \in Seq(ClassNames)
    /\ Sensor \o <<"analogGain">> \in Seq(ClassNames)
    /\ Lens \in Seq(ClassNames)
    /\ Lens \o <<"exitPupilOffset">> \in Seq(ClassNames)
    /\ Mla \in Seq(ClassNames)
    /\ Mla \o <<"scaleFactor">> \in Seq(ClassNames)
    /\ Mla \o <<"sensorOffset">> \in Seq(ClassNames)
<1>1. {"metadata", "devices", "clock", "ndfilter", "shutter", "soc", "accelerometer", "sampleArray", "0", "sensor", "mosaic", "analogGain", "lens", "exitPupilOffset", "mla", "scaleFactor", "sensorOffset"} \subseteq ClassNames
  BY DEF ClassNames
<1>2. Devices \in Seq(ClassNames)
  BY <1>1, FrameClass, TwoClasses DEF Devices
<1>3. Devices \o <<"clock">> \in Seq(ClassNames)
  BY <1>1, <1>2, OneClass
<1>4. Devices \o <<"ndfilter">> \in Seq(ClassNames)
  BY <1>1, <1>2, OneClass
<1>5. Devices \o <<"shutter">> \in Seq(ClassNames)
  BY <1>1, <1>2, OneClass
<1>6. Devices \o <<"soc">> \in Seq(ClassNames)
  BY <1>1, <1>2, OneClass
<1>7. Devices \o <<"accelerometer", "sampleArray", "0">> \in Seq(ClassNames)
  BY <1>1, <1>2, ThreeClasses
<1>8. Sensor \in Seq(ClassNames)
  BY <1>1, <1>2, OneClass DEF Sensor
<1>9. Sensor \o <<"mosaic">> \in Seq(ClassNames)
  BY <1>1, <1>8, OneClass
<1>10. Sensor \o <<"analogGain">> \in Seq(ClassNames)
  BY <1>1, <1>8, OneClass
<1>11. Lens \in Seq(ClassNames)
  BY <1>1, <1>2, OneClass DEF Lens
<1>12. Lens \o <<"exitPupilOffset">> \in Seq(ClassNames)
  BY <1>1, <1>11, OneClass
<1>13. Mla \in Seq(ClassNames)
  BY <1>1, <1>2, OneClass DEF Mla
<1>14. Mla \o <<"scaleFactor">> \in Seq(ClassNames)
  BY <1>1, <1>13, OneClass
<1>15. Mla \o <<"sensorOffset">> \in Seq(ClassNames)
  BY <1>1, <1>13, OneClass
<1> QED
  BY <1>2, <1>3, <1>4, <1>5, <1>6, <1>7, <1>8, <1>9, <1>10, <1>11, <1>12, <1>13, <1>14, <1>15

LEMMA OtherClasses ==
    /\ Frame \o <<"metadata", "modes">> \in Seq(ClassNames)
    /\ Frame \o <<"metadata", "camera">> \in Seq(ClassNames)
    /\ Frame \o <<"privateMetadata", "devices", "sensor">> \in Seq(ClassNames)
    /\ Frame \o <<"privateMetadata", "camera">> \in Seq(ClassNames)
<1>1. {"metadata", "modes", "camera", "privateMetadata", "devices", "sensor"} \subseteq ClassNames
  BY DEF ClassNames
<1>2. Frame \o <<"metadata", "modes">> \in Seq(ClassNames)
  BY <1>1, FrameClass, TwoClasses
<1>3. Frame \o <<"metadata", "camera">> \in Seq(ClassNames)
  BY <1>1, FrameClass, TwoClasses
<1>4. Frame \o <<"privateMetadata", "devices", "sensor">> \in Seq(ClassNames)
  BY <1>1, FrameClass, ThreeClasses
<1>5. Frame \o <<"privateMetadata", "camera">> \in Seq(ClassNames)
  BY <1>1, FrameClass, TwoClasses
<1> QED
  BY <1>2, <1>3, <1>4, <1>5

LEMMA InnerName ==
    ASSUME NEW S, NEW class \in Seq(S), NEW a, NEW b, NEW c
    PROVE  class \o <<a, b, c>> = (class \o <<a, b>>) \o <<c>>
<1> DEFINE R == S \union {a, b, c}
<1>1. class \in Seq(R) /\ <<a, b, c>> \in Seq(R) /\ <<a, b>> \in Seq(R) /\ <<c>> \in Seq(R)
  OBVIOUS
<1> HIDE DEF R
<1> QED
  BY <1>1, SMTT(40)

LEMMA ImageAccessorsIn == InClass(ImageAccessors)
<1>1. InClass(Accessors(ImageClass, "int", {"width", "height", "orientation"}))
  <2>1. {"width", "height", "orientation"} \in SUBSET ValueNames
    BY DEF ValueNames
  <2> QED
    BY <2>1, ImageClasses, ClassAccessors, Zenon
<1>2. InClass(Accessors(ImageClass, "string", {"representation"}))
  <2>1. {"representation"} \in SUBSET ValueNames
    BY DEF ValueNames
  <2> QED
    BY <2>1, ImageClasses, ClassAccessors, Zenon
<1>3. InClass(Accessors(PixelFormat, "int", {"rightShift"}))
  <2>1. {"rightShift"} \in SUBSET ValueNames
    BY DEF ValueNames
  <2> QED
    BY <2>1, ImageClasses, ClassAccessors, Zenon
<1>4. InClass(Accessors(PixelFormat \o <<"black">>, "int", Channels))
  <2>1. Channels \in SUBSET ValueNames
    BY DEF ValueNames, Channels
  <2> QED
    BY <2>1, ImageClasses, ClassAccessors, Zenon
<1>5. InClass(Accessors(PixelFormat \o <<"white">>, "int", Channels))
  <2>1. Channels \in SUBSET ValueNames
    BY DEF ValueNames, Channels
  <2> QED
    BY <2>1, ImageClasses, ClassAccessors, Zenon
<1>6. InClass(Accessors(RawDetails \o <<"pixelPacking">>, "string", {"endianness"}))
  <2>1. {"endianness"} \in SUBSET ValueNames
    BY DEF ValueNames
  <2> QED
    BY <2>1, ImageClasses, ClassAccessors, Zenon
<1>7. InClass(Accessors(RawDetails \o <<"pixelPacking">>, "int", {"bitsPerPixel"}))
  <2>1. {"bitsPerPixel"} \in SUBSET ValueNames
    BY DEF ValueNames
  <2> QED
    BY <2>1, ImageClasses, ClassAccessors, Zenon
<1>8. InClass(Accessors(RawDetails \o <<"mosaic">>, "string", {"tile", "upperLeftPixel"}))
  <2>1. {"tile", "upperLeftPixel"} \in SUBSET ValueNames
    BY DEF ValueNames
  <2> QED
    BY <2>1, ImageClasses, ClassAccessors, Zenon
<1> QED
  BY <1>1, <1>2, <1>3, <1>4, <1>5, <1>6, <1>7, <1>8 DEF InClass, ImageAccessors

LEMMA ColorAccessorsIn == InClass(ColorAccessors)
<1>1. InClass(Accessors(ImageClass \o <<"color">>, "float", {"gamma"}))
  <2>1. {"gamma"} \in SUBSET ValueNames
    BY DEF ValueNames
  <2> QED
    BY <2>1, ImageClasses, ClassAccessors, Zenon
<1>2. InClass(Accessors(ImageClass \o <<"color", "whiteBalanceGain">>, "float", Channels))
  <2>1. Channels \in SUBSET ValueNames
    BY DEF ValueNames, Channels
  <2> QED
    BY <2>1, ImageClasses, ClassAccessors, Zenon
<1>3. InClass(Accessors(ImageClass, "float", {"modulationExposureBias", "limitExposureBias"}))
  <2>1. {"modulationExposureBias", "limitExposureBias"} \in SUBSET ValueNames
    BY DEF ValueNames
  <2> QED
    BY <2>1, ImageClasses, ClassAccessors, Zenon
<1> QED
  BY <1>1, <1>2, <1>3 DEF InClass, ColorAccessors

LEMMA SensorAccessorsIn == InClass(SensorAccessors)
<1>1. InClass(Accessors(Devices \o <<"clock">>, "string", {"zuluTime"}))
  <2>1. {"zuluTime"} \in SUBSET ValueNames
    BY DEF ValueNames
  <2> QED
    BY <2>1, DeviceClasses, ClassAccessors, Zenon
<1>2. InClass(Accessors(Sensor, "int", {"bitsPerPixel", "iso"}))
  <2>1. {"bitsPerPixel", "iso"} \in SUBSET ValueNames
    BY DEF ValueNames
  <2> QED
    BY <2>1, DeviceClasses, ClassAccessors, Zenon
<1>3. InClass(Accessors(Sensor \o <<"mosaic">>, "string", {"tile", "upperLeftPixel"}))
  <2>1. {"tile", "upperLeftPixel"} \in SUBSET ValueNames
    BY DEF ValueNames
  <2> QED
    BY <2>1, DeviceClasses, ClassAccessors, Zenon
<1>4. InClass(Accessors(Sensor \o <<"analogGain">>, "float", Channels))
  <2>1. Channels \in SUBSET ValueNames
    BY DEF ValueNames, Channels
  <2> QED
    BY <2>1, DeviceClasses, ClassAccessors, Zenon
<1>5. InClass(Accessors(Sensor, "float", {"pixelPitch"}))
  <2>1. {"pixelPitch"} \in SUBSET ValueNames
    BY DEF ValueNames
  <2> QED
    BY <2>1, DeviceClasses, ClassAccessors, Zenon
<1> QED
  BY <1>1, <1>2, <1>3, <1>4, <1>5 DEF InClass, SensorAccessors

LEMMA LensAccessorsIn == InClass(LensAccessors)
<1>1. InClass(Accessors(Lens, "float", {"infinityLambda", "focalLength", "fNumber", "temperature"}))
  <2>1. {"infinityLambda", "focalLength", "fNumber", "temperature"} \in SUBSET ValueNames
    BY DEF ValueNames
  <2> QED
    BY <2>1, DeviceClasses, ClassAccessors, Zenon
<1>2. InClass(Accessors(Lens, "int", {"zoomStep", "focusStep", "temperatureAdc", "zoomStepperOffset", "focusStepperOffset"}))
  <2>1. {"zoomStep", "focusStep", "temperatureAdc", "zoomStepperOffset", "focusStepperOffset"} \in SUBSET ValueNames
    BY DEF ValueNames
  <2> QED
    BY <2>1, DeviceClasses, ClassAccessors, Zenon
<1>3. InClass(Accessors(Lens \o <<"exitPupilOffset">>, "float", {"z"}))
  <2>1. {"z"} \in SUBSET ValueNames
    BY DEF ValueNames
  <2> QED
    BY <2>1, DeviceClasses, ClassAccessors, Zenon
<1> QED
  BY <1>1, <1>2, <1>3 DEF InClass, LensAccessors

LEMMA OtherDevicesIn == InClass(OtherDevices)
<1>1. InClass(Accessors(Devices \o <<"ndfilter">>, "float", {"exposureBias"}))
  <2>1. {"exposureBias"} \in SUBSET ValueNames
    BY DEF ValueNames
  <2> QED
    BY <2>1, DeviceClasses, ClassAccessors, Zenon
<1>2. InClass(Accessors(Devices \o <<"shutter">>, "string", {"mechanism"}))
  <2>1. {"mechanism"} \in SUBSET ValueNames
    BY DEF ValueNames
  <2> QED
    BY <2>1, DeviceClasses, ClassAccessors, Zenon
<1>3. InClass(Accessors(Devices \o <<"shutter">>, "float", {"frameExposureDuration", "pixelExposureDuration"}))
  <2>1. {"frameExposureDuration", "pixelExposureDuration"} \in SUBSET ValueNames
    BY DEF ValueNames
  <2> QED
    BY <2>1, DeviceClasses, ClassAccessors, Zenon
<1>4. InClass(Accessors(Devices \o <<"soc">>, "float", {"temperature"}))
  <2>1. {"temperature"} \in SUBSET ValueNames
    BY DEF ValueNames
  <2> QED
    BY <2>1, DeviceClasses, ClassAccessors, Zenon
<1>5. InClass(Accessors(Devices \o <<"soc">>, "int", {"temperatureAdc"}))
  <2>1. {"temperatureAdc"} \in SUBSET ValueNames
    BY DEF ValueNames
  <2> QED
    BY <2>1, DeviceClasses, ClassAccessors, Zenon
<1>6. InClass(Accessors(Devices \o <<"accelerometer", "sampleArray", "0">>, "float", {"x", "y", "z", "time"}))
  <2>1. {"x", "y", "z", "time"} \in SUBSET ValueNames
    BY DEF ValueNames
  <2> QED
    BY <2>1, DeviceClasses, ClassAccessors, Zenon
<1>7. InClass(Accessors(Mla, "string", {"tiling", "config"}))
  <2>1. {"tiling", "config"} \in SUBSET ValueNames
    BY DEF ValueNames
  <2> QED
    BY <2>1, DeviceClasses, ClassAccessors, Zenon
<1>8. InClass(Accessors(Mla, "float", {"lensPitch", "rotation"}))
  <2>1. {"lensPitch", "rotation"} \in SUBSET ValueNames
    BY DEF ValueNames
  <2> QED
    BY <2>1, DeviceClasses, ClassAccessors, Zenon
<1>9. InClass(Accessors(Mla \o <<"scaleFactor">>, "float", {"x", "y"}))
  <2>1. {"x", "y"} \in SUBSET ValueNames
    BY DEF ValueNames
  <2> QED
    BY <2>1, DeviceClasses, ClassAccessors, Zenon
<1>10. InClass(Accessors(Mla \o <<"sensorOffset">>, "float", {"x", "y", "z"}))
  <2>1. {"x", "y", "z"} \in SUBSET ValueNames
    BY DEF ValueNames
  <2> QED
    BY <2>1, DeviceClasses, ClassAccessors, Zenon
<1> QED
  BY <1>1, <1>2, <1>3, <1>4, <1>5, <1>6, <1>7, <1>8, <1>9, <1>10 DEF InClass, OtherDevices

LEMMA ModesAccessorsIn == InClass(ModesAccessors)
<1>1. InClass(Accessors(Frame \o <<"metadata", "modes">>, "string", {"creative", "exposureDurationMode", "isoMode", "ndFilterMode"}))
  <2>1. {"creative", "exposureDurationMode", "isoMode", "ndFilterMode"} \in SUBSET ValueNames
    BY DEF ValueNames
  <2> QED
    BY <2>1, OtherClasses, ClassAccessors, Zenon
<1>2. InClass(Accessors(Frame \o <<"metadata", "modes">>, "bool", {"manualControls", "exposureLock"}))
  <2>1. {"manualControls", "exposureLock"} \in SUBSET ValueNames
    BY DEF ValueNames
  <2> QED
    BY <2>1, OtherClasses, ClassAccessors, Zenon
<1>3. InClass(Accessors(Frame \o <<"metadata", "modes">>, "float", {"exposureDurationSpec", "isoSpec", "overscan"}))
  <2>1. {"exposureDurationSpec", "isoSpec", "overscan"} \in SUBSET ValueNames
    BY DEF ValueNames
  <2> QED
    BY <2>1, OtherClasses, ClassAccessors, Zenon
<1>4. InClass(Accessors(Frame \o <<"metadata", "camera">>, "string", {"make", "model", "firmware"}))
  <2>1. {"make", "model", "firmware"} \in SUBSET ValueNames
    BY DEF ValueNames
  <2> QED
    BY <2>1, OtherClasses, ClassAccessors, Zenon
<1> QED
  BY <1>1, <1>2, <1>3, <1>4 DEF InClass, ModesAccessors

LEMMA PrivateAccessorsIn == InClass(PrivateAccessors)
<1>1. InClass(Accessors(Frame \o <<"privateMetadata", "devices", "sensor">>, "string", {"sensorSerial"}))
  <2>1. {"sensorSerial"} \in SUBSET ValueNames
    BY DEF ValueNames
  <2> QED
    BY <2>1, OtherClasses, ClassAccessors, Zenon
<1>2. IsValue(SerialNumber.path)
  <2>1. Frame \o <<"privateMetadata", "camera">> \in Seq(ClassNames)
    BY OtherClasses
  <2>2. "serialNumber" \in ValueNames
    BY DEF ValueNames
  <2>3. SerialNumber.path = (Frame \o <<"privateMetadata", "camera">>) \o <<"serialNumber">>
    <3>1. SerialNumber.path = Frame \o <<"privateMetadata", "camera", "serialNumber">>
      BY DEF SerialNumber
    <3> QED
      BY <3>1, FrameClass, InnerName
  <2> QED
    BY <2>1, <2>2, <2>3 DEF IsValue
<1> QED
  BY <1>1, <1>2 DEF InClass, PrivateAccessors

LEMMA EveryAccessor == InClass(AllAccessors)
BY ImageAccessorsIn, ColorAccessorsIn, SensorAccessorsIn, LensAccessorsIn, OtherDevicesIn, ModesAccessorsIn,
   PrivateAccessorsIn DEF InClass, AllAccessors

LEMMA AllUndisturbed == Undisturbed = FileStates
<1>1. \A meta \in FileStates, a, b \in AllAccessors : Get(Touched(Parsed[meta], a.path), b) = Get(Parsed[meta], b)
  BY EveryAccessor, OthersKept DEF InClass
<1> QED
  BY <1>1 DEF Undisturbed

-----------------------------------------------------------------------------
(* The viewer. *)

(* A number no QImage has. *)
LEMMA FreeNumber ==
    ASSUME NEW m \in Nat, heap = {m} \ {0}
    PROVE  NewImage \in Nat /\ NewImage \notin {0, m}
<1>1. CASE m = 0
  <2>1. heap = {} /\ Cardinality(heap) = 0
    BY <1>1, FS_EmptySet
  <2>2. 1 \in 1..(Cardinality(heap) + 1) /\ 1 \notin heap
    BY <2>1
  <2>3. NewImage \in 1..(Cardinality(heap) + 1)
    BY <2>2 DEF NewImage
  <2> QED
    BY <1>1, <2>1, <2>3
<1>2. CASE m # 0
  <2>0. heap = {m}
    BY <1>2
  <2>1. heap = {m} /\ Cardinality(heap) = 1
    BY <2>0, FS_Singleton, Zenon
  <2>2. \E n \in 1..(Cardinality(heap) + 1) : n \notin heap
    <3>1. 1 \in 1..(Cardinality(heap) + 1) /\ 2 \in 1..(Cardinality(heap) + 1)
      BY <2>1
    <3> QED
      BY <2>1, <3>1
  <2>3. NewImage \in 1..(Cardinality(heap) + 1) /\ NewImage \notin heap
    BY <2>2 DEF NewImage
  <2> QED
    BY <2>1, <2>3
<1> QED
  BY <1>1, <1>2

(* No file disappears, and crashes are not forgotten. *)
LEMMA FilesStay ==
    ASSUME TypeOK, TodoInv, [Next]_vars
    PROVE  Present \subseteq Present' /\ crashes' \in Nat /\ (crashes > 0 => crashes' > 0)
<1>1. \A i \in Images : <<i, "RAW">> \in Files
  BY ImageFiles
<1>2. crashes \in Nat
  BY DEF TypeOK
<1>3. CASE OpenFile
  BY <1>1, <1>2, <1>3, OpenEffect DEF Present
<1>4. CASE TransferFile
  BY <1>1, <1>2, <1>4, TransferEffect DEF Present
<1>5. CASE Crash
  BY <1>2, <1>5 DEF Crash, Present, disk
<1>6. CASE ~OpenFile /\ ~TransferFile /\ ~Crash
  BY <1>2, <1>6, FilesAside DEF Present
<1> QED
  BY <1>3, <1>4, <1>5, <1>6

(* What is read of the metadata beside an image. *)
LEMMA MetadataRead ==
    ASSUME TypeOK, ViewerInv, NEW torn \in BOOLEAN, OpenMetadata(torn)
    PROVE  /\ opened' \in Opened /\ opened'.torn = torn
           /\ opened'.image = opened.image /\ opened'.raw = opened.raw
           /\ opened'.serial = "" => files[<<opened.image, "TXT">>] # "whole"
<1>1. PICK meta \in (IF files[MetadataFile(opened.image)] = "partial" THEN {"partial", "absent"}
                     ELSE {files[MetadataFile(opened.image)]}) :
        \E config \in FileStates :
          \E size \in (CASE config = "absent" -> {Width}
                        [] config = "partial" -> {0, ArraySize}
                        [] config = "whole" -> {ArraySize}) :
              opened' = [opened EXCEPT !.meta = meta, !.serial = SerialOf(meta), !.torn = torn,
                           !.size = size, !.kind = IF config = "absent" THEN "raw" ELSE "lightfield"]
  BY DEF OpenMetadata
<1>2. PICK config \in FileStates :
          \E size \in (CASE config = "absent" -> {Width}
                        [] config = "partial" -> {0, ArraySize}
                        [] config = "whole" -> {ArraySize}) :
              opened' = [opened EXCEPT !.meta = meta, !.serial = SerialOf(meta), !.torn = torn,
                           !.size = size, !.kind = IF config = "absent" THEN "raw" ELSE "lightfield"]
  BY <1>1
<1>3. PICK size \in (CASE config = "absent" -> {Width}
                      [] config = "partial" -> {0, ArraySize}
                      [] config = "whole" -> {ArraySize}) :
              opened' = [opened EXCEPT !.meta = meta, !.serial = SerialOf(meta), !.torn = torn,
                           !.size = size, !.kind = IF config = "absent" THEN "raw" ELSE "lightfield"]
  BY <1>2
<1>4. size \in Nat
  <2>1. size \in {Width, 0, ArraySize}
    BY <1>3 DEF FileStates
  <2> QED
    BY <2>1, SizeAssumption, ViewerAssumption
<1>5. viewer = "opening" /\ opened.image \in Images /\ opened \in Opened
  BY DEF OpenMetadata, ViewerInv, OpenedInv, Present
<1>6. files[MetadataFile(opened.image)] \in FileStates /\ MetadataFile(opened.image) = <<opened.image, "TXT">>
  BY <1>5, ImageFiles DEF MetadataFile, TypeOK
<1>7. meta \in FileStates /\ (meta = "whole" <=> files[<<opened.image, "TXT">>] = "whole")
  BY <1>1, <1>6 DEF FileStates
<1>8. SerialOf(meta) \in {"", "serial"}
  BY DEF SerialOf
<1>9. meta = "whole" => SerialOf(meta) = "serial"
  BY SerialRead, Zenon
<1>10. PICK serial \in {"", "serial"} : serial = SerialOf(meta)
  BY <1>8
<1>11. PICK kind \in {"raw", "lightfield"} : kind = IF config = "absent" THEN "raw" ELSE "lightfield"
  OBVIOUS
<1>12. opened' = [opened EXCEPT !.meta = meta, !.serial = serial, !.torn = torn, !.size = size, !.kind = kind]
  BY <1>3, <1>10, <1>11
<1>13. /\ opened' \in Opened /\ opened'.torn = torn /\ opened'.serial = serial
       /\ opened'.image = opened.image /\ opened'.raw = opened.raw
  BY <1>4, <1>5, <1>7, <1>12 DEF Opened
<1> QED
  BY <1>7, <1>9, <1>10, <1>13

(* The steps of the viewer. *)
LEMMA OwnerStep ==
    ASSUME OwnerInv, [Next]_vars
    PROVE  OwnerInv'
<1>1. ASSUME NEW i \in Images, OpenRaw(i)
      PROVE  OwnerInv'
  BY <1>1 DEF OpenRaw, OwnerInv
<1>2. ASSUME NEW torn, OpenMetadata(torn)
      PROVE  OwnerInv'
  <2>1. /\ viewer = "opening" /\ viewer' = "assigning" /\ temporary' = NewImage /\ heap' = heap \union {NewImage}
        /\ m_image' = m_image
    BY <1>2 DEF OpenMetadata
  <2>2. m_image \in Nat /\ heap = {m_image} \ {0}
    BY <2>1 DEF OwnerInv
  <2>3. NewImage \in Nat /\ NewImage \notin {0, m_image}
    BY <2>2, FreeNumber
  <2> QED
    BY <2>1, <2>2, <2>3 DEF OwnerInv
<1>3. CASE ShowImage
  <2>1. /\ viewer = "assigning" /\ viewer' = "idle" /\ heap' = heap \ {m_image} /\ m_image' = temporary /\ temporary' = 0
    BY <1>3 DEF ShowImage, MoveAssign
  <2>2. /\ heap = ({m_image} \ {0}) \union {temporary} /\ temporary \notin {0, m_image}
        /\ m_image \in Nat /\ temporary \in Nat
    BY <2>1 DEF OwnerInv
  <2>3. heap' = {temporary} \ {0}
    BY <2>1, <2>2
  <2> QED
    BY <2>1, <2>2, <2>3 DEF OwnerInv
<1>4. CASE Dereference
  BY <1>4 DEF Dereference, OwnerInv
<1>5. CASE CloseViewer
  <2>1. heap = {m_image} \ {0} /\ heap' = heap \ {m_image} /\ viewer' = "closed" /\ UNCHANGED <<m_image, temporary>>
    BY <1>5 DEF CloseViewer, OwnerInv
  <2>2. heap' = {}
    BY <2>1
  <2> QED
    BY <2>1, <2>2 DEF OwnerInv
<1>6. CASE UNCHANGED <<viewer, m_image, temporary, heap>>
  BY <1>6 DEF OwnerInv
<1>7. CASE ViewerZoom
  BY <1>6, <1>7 DEF ViewerZoom, zoomIn, zoomOut, zoomFit, zoomOriginal, resizeEvent, Zoom
<1>8. CASE UNCHANGED viewerVars
  BY <1>6, <1>8 DEF viewerVars
<1> QED
  BY <1>1, <1>2, <1>3, <1>4, <1>5, <1>7, <1>8 DEF Next, vars

LEMMA ZoomStep ==
    ASSUME opened \in Opened, ZoomInv, [Next]_vars
    PROVE  ZoomInv'
<1>1. CASE UNCHANGED <<pixmap, zoomVars>>
  BY <1>1 DEF ZoomInv, zoomVars
<1>2. ASSUME NEW i \in Images, OpenRaw(i)
      PROVE  ZoomInv'
  BY <1>1, <1>2 DEF OpenRaw
<1>3. ASSUME NEW torn, OpenMetadata(torn)
      PROVE  ZoomInv'
  BY <1>1, <1>3 DEF OpenMetadata
<1>4. CASE ShowImage
  <2>1. pixmap' = opened.size /\ UNCHANGED zoomVars
    BY <1>4 DEF ShowImage
  <2>2. opened.size \in Nat
    BY DEF Opened
  <2>3. pixmap' \in Int /\ pixmap' # -1
    BY <2>1, <2>2
  <2> QED
    BY <2>1, <2>3 DEF ZoomInv, zoomVars
<1>5. CASE Dereference \/ CloseViewer \/ UNCHANGED viewerVars
  BY <1>1, <1>5 DEF Dereference, CloseViewer, viewerVars
<1>6. CASE ViewerZoom
  <2>1. pixmap' = pixmap /\ scaleImage(m_scale')
    BY <1>6 DEF ViewerZoom, zoomIn, zoomOut, zoomFit, zoomOriginal, resizeEvent, Zoom, scaleImage
  <2>2. CASE pixmap = -1
    <3>1. scaled' = scaled /\ ~scaled
      BY <2>1, <2>2 DEF scaleImage, ZoomInv
    <3> QED
      BY <2>1, <3>1 DEF ZoomInv
  <2>3. CASE pixmap # -1
    <3>1. zoomable' = Less(m_scale', Whole(3))
      BY <2>1, <2>3 DEF scaleImage
    <3> QED
      BY <2>1, <2>3, <3>1 DEF ZoomInv
  <2> QED
    BY <2>2, <2>3
<1> QED
  BY <1>2, <1>3, <1>4, <1>5, <1>6 DEF Next, vars

LEMMA ViewerStep ==
    ASSUME TypeOK, TodoInv, MetadataFirst, ViewerInv, [Next]_vars
    PROVE  ViewerInv'
<1>0. /\ opened \in Opened /\ OwnerInv /\ ZoomInv /\ OwnCalibration /\ OpenedInv
      /\ crashes \in Nat
  BY DEF ViewerInv, TypeOK
<1>1. OwnerInv' /\ ZoomInv'
  BY <1>0, OwnerStep, ZoomStep
<1>2. Present \subseteq Present' /\ crashes' \in Nat /\ (crashes > 0 => crashes' > 0)
  BY FilesStay
<1>3. CASE UNCHANGED <<viewer, opened>>
  BY <1>0, <1>1, <1>2, <1>3 DEF ViewerInv, OwnCalibration, OpenedInv
<1>4. ASSUME NEW i \in Images, OpenRaw(i)
      PROVE  ViewerInv'
  <2>1. viewer' = "opening" /\ i \in Present
    BY <1>4 DEF OpenRaw
  <2>2. PICK n \in (IF files[<<i, "RAW">>] = "whole" THEN {FileLength} ELSE Prefixed) :
          opened' = [Nothing EXCEPT !.image = i, !.raw = n]
    BY <1>4 DEF OpenRaw
  <2>3. opened' \in Opened /\ opened'.image = i /\ opened'.raw = n
    BY <2>2 DEF Nothing, Opened, FileStates
  <2>4. OpenedInv'
    BY <1>2, <2>1, <2>2, <2>3 DEF OpenedInv
  <2> QED
    BY <1>1, <2>1, <2>3, <2>4 DEF ViewerInv, OwnCalibration
<1>5. CASE OpenMetadata(Torn(opened.image))
  <2>1. viewer = "opening" /\ viewer' = "assigning" /\ opened.image \in Present
    BY <1>0, <1>5 DEF OpenMetadata, OpenedInv
  <2>2. PICK torn \in BOOLEAN : torn = Torn(opened.image)
    BY DEF Torn, Downloading
  <2>3. OpenMetadata(torn)
    BY <1>5, <2>2
  <2>4. /\ opened' \in Opened /\ opened'.torn = torn
        /\ opened'.image = opened.image /\ opened'.raw = opened.raw
        /\ opened'.serial = "" => files[<<opened.image, "TXT">>] # "whole"
    BY <2>3, MetadataRead
  <2>5. crashes = 0 => files[<<opened.image, "TXT">>] = "whole" \/ torn
    BY <2>1, <2>2 DEF MetadataFirst, MetadataFile, Torn
  <2>6. opened'.serial = "" => crashes' > 0 \/ opened'.torn
    <3>1. crashes = 0 \/ crashes' > 0
      BY <1>0, <1>2
    <3> QED
      BY <2>4, <2>5, <3>1, Zenon
  <2>7. OpenedInv'
    BY <1>0, <2>1, <2>4 DEF OpenedInv
  <2> QED
    BY <1>1, <2>1, <2>4, <2>6, <2>7 DEF ViewerInv, OwnCalibration
<1>6. CASE ShowImage
  <2>1. opened' = Nothing /\ viewer' = "idle"
    BY <1>6 DEF ShowImage
  <2>2. opened' \in Opened
    BY <2>1 DEF Nothing, Opened, FileStates
  <2> QED
    BY <1>1, <2>1, <2>2 DEF ViewerInv, OwnCalibration, OpenedInv
<1>7. CASE Dereference \/ CloseViewer
  BY <1>0, <1>1, <1>7 DEF Dereference, CloseViewer, ViewerInv, OwnCalibration, OpenedInv
<1>8. CASE ViewerZoom \/ UNCHANGED viewerVars
  BY <1>3, <1>8 DEF ViewerZoom, zoomIn, zoomOut, zoomFit, zoomOriginal, resizeEvent, Zoom, viewerVars
<1> QED
  BY <1>4, <1>5, <1>6, <1>7, <1>8 DEF Next, vars

LEMMA ViewerInvariant == Spec => []ViewerInv
<1>1. Init => ViewerInv
  <2> SUFFICES ASSUME Init PROVE ViewerInv
    OBVIOUS
  <2>1. opened \in Opened
    BY DEF Init, ViewerInit, Nothing, Opened, FileStates
  <2>2. OwnerInv
    BY DEF Init, ViewerInit, OwnerInv
  <2>3. ZoomInv /\ OwnCalibration /\ OpenedInv
    BY DEF Init, ViewerInit, ZoomInv, OwnCalibration, OpenedInv
  <2> QED
    BY <2>1, <2>2, <2>3 DEF ViewerInv
<1>2. ProgramInv /\ ViewerInv /\ [Next]_vars => ViewerInv'
  BY ViewerStep DEF ProgramInv, CliInv
<1> QED
  BY <1>1, <1>2, ProgramInvariant, PTL DEF Spec

(* However images are opened while their files are being written: every    *)
(* QImage has one owner, the button to zoom in agrees with the scale, and  *)
(* an image is shown with data of its camera.                              *)
THEOREM ViewerCorrect == Spec => []ViewerConsistent
<1>1. ViewerInv => ViewerConsistent
  BY DEF ViewerInv, OwnerInv, ZoomInv, ViewerConsistent, ImagesOwned, ZoomConsistent
<1> QED
  BY <1>1, ViewerInvariant, PTL

(* Of every image that is shown, of any size and with any bytes, the       *)
(* constructor and demosaic have set every channel of every pixel: to its  *)
(* sample where the file has one, otherwise to a value between samples of  *)
(* the channel.  A truncated file leaves values undefined if and only if   *)
(* it is shorter than three bytes.                                         *)
THEOREM RawCorrect == Spec => []RawDecoded
<1>1. ViewerInv => RawDecoded
  BY DecodedLengths DEF ViewerInv, OpenedInv, RawDecoded
<1> QED
  BY <1>1, ViewerInvariant, PTL

(* However an image is opened, and whether its metadata are whole, partial *)
(* or absent: looking any value up, with operator[] inserting the nodes    *)
(* that are missing, leaves what every accessor returns as it was.         *)
THEOREM AccessorsCorrect == Spec => []AccessorsIndependent
<1>1. ViewerInv => AccessorsIndependent
  BY AllUndisturbed DEF ViewerInv, Opened, AccessorsIndependent
<1> QED
  BY <1>1, ViewerInvariant, PTL

=============================================================================
