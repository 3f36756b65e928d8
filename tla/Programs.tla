------------------------------ MODULE Programs ------------------------------
(***************************************************************************)
(* The command line program and the viewer at work on the same directory:  *)
(* images are downloaded, calibrated and processed by the one and, at any  *)
(* moment, opened by the other.                                            *)
(***************************************************************************)
EXTENDS CommandLine, Viewer

vars == <<disk, cliVars, viewerVars>>

Init == DiskInit /\ CliInit /\ ViewerInit

(* Whether the program is writing a file of an image, and whether the      *)
(* image's metadata are not complete for this reason or another one that   *)
(* needs no crash.                                                         *)
Downloading(i) == pc = "transfer" /\ Head(todo)[1] = i
Torn(i) == Downloading(i) \/ MetadataFile(i) \in lost

(* Zooming neither reads nor changes what the program does, so it is only  *)
(* interleaved with a program that has done its work.                      *)
Next ==
    \/ CliNext /\ UNCHANGED viewerVars
    \/ /\ \/ \E i \in Images : OpenRaw(i)
          \/ OpenMetadata(Torn(opened.image))
          \/ ShowImage \/ Dereference \/ CloseViewer
          \/ ViewerZoom /\ pc = "idle" /\ runs = MaxRuns
       /\ UNCHANGED cliVars

(* The program works on, unless the camera has stopped answering. *)
Spec == Init /\ [][Next]_vars /\ WF_vars(CliStep /\ UNCHANGED viewerVars)

-----------------------------------------------------------------------------
(* parseFileList finds the entries of the list, all of them and no others, *)
(* and does not go on once it has read beyond the end.  Only a list whose  *)
(* entries have no length fills the memory.                                *)
ListParsed ==
    /\ pc = "parse" /\ ~MoreEntries /\ listing.linelen > 0 =>
          /\ Len(photos) = (listing.size - FirstEntry(listing)) \div listing.linelen
          /\ \A n \in DOMAIN photos :
                photos[n].at = FirstEntry(listing) + (n - 1) * listing.linelen /\ photos[n].inside
    /\ status = "memory" => listing.linelen = 0

(* The camera has been prepared whenever an option uses it.  Undefined     *)
(* behaviour is met only with a list whose entries are shorter than        *)
(* parseLine expects and with the id of a photo that is not listed; if of  *)
(* the images in the directory none is fit for calibration, or no line is  *)
(* in most of them; with line grids of odd size; and with files a crash or *)
(* a failed write has left incomplete.                                     *)
UndefinedExplained ==
    pc = "undefined" =>
        \/ Option.letter \in {"l", "d"} /\ listing.linelen < ENTRY_SIZE
        \/ Option.letter = "d" /\ Option.id >= Len(photos)
        \/ Option.letter = "c" /\ (Surely = {} \/ Surely \in Unmatched)
        \/ Option.letter = "c" /\ (crashes > 0 \/ \E i \in Images : <<i, "RAW">> \in lost)
        \/ Option.letter = "p" /\ loaded = "odd"
        \/ Option.letter = "p" /\ loaded = "short" /\ (crashes > 0 \/ CalibrationFile \in lost)

(* Files and pictures that are neither whole nor being written, although   *)
(* nothing has failed and the camera has them.                             *)
PartialFiles == {f \in Files : files[f] = "partial"}
PartialFlat == {i \in Images : flat[i] = "partial"}
InWork == IF pc = "transfer" THEN {Head(todo)} ELSE {}
Damaged == PartialFiles \ (Missing \union lost \union InWork)
DamagedFlat == {i \in PartialFlat \ busy : Picture(i) \notin lost}
CalibrationDamaged == calibration = "partial" /\ pc # "write" /\ CalibrationFile \notin lost

(* A crash spoils the file being written, or the pictures being made, and  *)
(* nothing else; a failed open or write its own file.                      *)
DamageBounded ==
    /\ Cardinality(Damaged) + (IF CalibrationDamaged THEN 1 ELSE 0) <= crashes
    /\ Cardinality(DamagedFlat) <= Workers * crashes
    /\ pc = "process" => \A i \in busy : flat[i] = "partial"

(* An image whose RAW file is in the directory has its metadata there,     *)
(* except while they are downloaded once more or if they could not be      *)
(* written: metadata come first.                                           *)
MetadataFirst ==
    crashes = 0 => \A i \in Present :
        \/ files[MetadataFile(i)] = "whole" \/ MetadataFile(i) \in lost
        \/ Downloading(i) /\ Head(todo)[2] = "TXT"

(* Downloads and their interruptions leave the directory in a state later  *)
(* invocations and the viewer can use.                                     *)
FilesConsistent == DamageBounded /\ MetadataFirst

(* The program reports success whether or not it could write its files;    *)
(* but then all that was asked for is there, except for what could not be  *)
(* opened or written and for what the camera lacks.                        *)
SuccessMeansDone ==
    LET Done(f) == files[f] = "whole" \/ f \in lost
    IN  pc = "ended" /\ status = "success" /\ optind <= Len(args) =>
        CASE Option.letter = "d" -> \A f \in ToSet(PhotoFiles(Photos[Option.id + 1])) : Done(f)
          [] Option.letter = "f" -> Done(<<Option.arg, "">>) \/ <<Option.arg, "">> \in Missing
          [] Option.letter = "t" /\ Option.arg = "dir" ->
                \A i \in ToSet(CalibImages) : \A f \in ToSet(CalibFiles(i)) : Done(f)
          [] Option.letter = "c" /\ Option.arg = "dir" ->
                calibration = "whole" \/ CalibrationFile \in lost
          [] Option.letter = "p" /\ Option.arg = "dir" ->
                \A i \in Present : flat[i] = "whole" \/ Picture(i) \in lost
          [] OTHER -> TRUE

(* Pictures are made with calibration data only, and with damaged ones     *)
(* only after a crash or a failed write.                                   *)
PicturesCalibrated ==
    pc = "process" /\ busy # {} =>
        \/ loaded \in {"full", "odd"}
        \/ loaded = "short" /\ (crashes > 0 \/ CalibrationFile \in lost)

(* An invocation leaves complete results, made from complete ones: those   *)
(* of process from those an earlier calibrate left.                        *)
ResultsComplete == SuccessMeansDone /\ PicturesCalibrated

(* Every invocation ends, unless the camera stops answering: nothing else  *)
(* is waited for.                                                          *)
InvocationEnds == Active ~> (~Active \/ hung)

(* The QImage of the form is the only one: none is leaked, deleted twice   *)
(* or used after it was deleted.                                           *)
ImagesOwned ==
    /\ viewer \in {"idle", "dead"} => heap = {m_image} \ {0}
    /\ viewer = "closed" => heap = {}

(* Once a picture was scaled, the button to zoom in agrees with the scale. *)
ZoomConsistent == viewer = "idle" /\ scaled => (zoomable <=> Less(m_scale, Whole(3)))

(* The calibration data without a serial number are applied only to an     *)
(* image whose metadata a crash has damaged, that is being downloaded, or  *)
(* whose metadata could not be written.                                    *)
OwnCalibration ==
    viewer = "assigning" /\ opened.kind = "lightfield" /\ opened.serial = "" => crashes > 0 \/ opened.torn

(* However images are opened, moved, zoomed, saved and closed, while their *)
(* files are being written or not: the picture on the form is the one that *)
(* exists, its buttons fit it, and it was made with data of its camera.    *)
ViewerConsistent == ImagesOwned /\ ZoomConsistent /\ OwnCalibration

-----------------------------------------------------------------------------
(* Reference for RawImage: the file is a sequence of half bytes, three to  *)
(* a pixel.                                                                *)
Nibble(file, n) ==
    IF n % 2 = 0 THEN file[n \div 2 + 1] \div 16 ELSE file[n \div 2 + 1] % 16
Sample(file, p) ==
    LET k == 3 * (p[2] * Width + p[1])
    IN  256 * Nibble(file, k) + 16 * Nibble(file, k + 1) + Nibble(file, k + 2)
Samples(file, c) == {16 * Sample(file, p) : p \in {q \in Pixels : getColorIndex(q[1], q[2]) = c}}

(* The lengths of an image's file for which the decoded image is right. *)
Decoded ==
    [i \in Images |-> {n \in Prefixed \union {FileLength} :
        LET file == Bytes[i]
            image == RawImageOf(SubSeq(file, 1, n))
        IN  /\ (\A p \in Pixels, c \in 0..2 : image[p][c] # Undef) <=> n >= 3
            /\ n = FileLength =>
                  \A p \in Pixels, c \in 0..2 :
                      /\ \E v \in Samples(file, c) : v <= image[p][c]
                      /\ \E v \in Samples(file, c) : image[p][c] <= v
                      /\ (p[1] \in 1..(Width - 2) /\ p[2] \in 1..(Height - 2)
                          /\ c = getColorIndex(p[1], p[2])) => image[p][c] = 16 * Sample(file, p)}]

(* An image that is shown has a value in every channel of every pixel: the *)
(* sample itself at its place, otherwise a value between the samples of    *)
(* the channel.  Of a truncated file no pixel is left undefined as long as *)
(* it has its first three bytes, because the rest repeats what was read;   *)
(* of a shorter one, as a download that has only opened its file leaves    *)
(* it, pixels are made of bytes that were never read.                      *)
RawDecoded == viewer = "assigning" => opened.raw \in Decoded[opened.image]

(* The metadata whose accessors do not disturb one another. *)
Undisturbed ==
    {meta \in FileStates :
        \A a \in AllAccessors :
            LET touched == Touched(Parsed[meta], a.path)
            IN  \A b \in AllAccessors : Get(touched, b) = Get(Parsed[meta], b)}

(* An accessor leaves what the others return as it was, although it        *)
(* inserts the nodes it does not find.                                     *)
AccessorsIndependent == viewer = "assigning" => opened.meta \in Undisturbed

-----------------------------------------------------------------------------
(* The invariants behind these properties. *)

Photo == [at : Nat, inside : BOOLEAN]

TypeOK ==
    /\ files \in [Files -> FileStates]
    /\ calibration \in FileStates
    /\ flat \in [Images -> FileStates]
    /\ pc \in {"idle", "prepare", "execute", "receive", "parse", "open", "transfer", "store",
                "write", "process", "undefined", "ended"}
    /\ args \in Seq(Options)
    /\ optind \in Nat \ {0}
    /\ camera \in BOOLEAN
    /\ todo \in Seq(Files)
    /\ tasks \in SUBSET Images
    /\ busy \in SUBSET Images
    /\ loaded \in {"full", "odd", "short", "empty"}
    /\ lost \subseteq Files \union {CalibrationFile} \union {Picture(i) : i \in Images}
    /\ crashes \in Nat
    /\ listing \in Lists
    /\ pos \in Nat
    /\ photos \in Seq(Photo)

(* The first pass prepares the camera for the options in front of it, so   *)
(* all the second one meets have theirs.                                   *)
CameraInv ==
    /\ pc \notin {"idle", "prepare", "ended"} =>
          \A k \in DOMAIN args : args[k].letter \in CameraOptions => camera
    /\ pc = "prepare" =>
          \A k \in DOMAIN args : k < optind /\ args[k].letter \in CameraOptions => camera

(* Where main is tells the option it executes. *)
OptionInv ==
    /\ pc = "idle" => optind = 1
    /\ pc # "ended" => status = "none"
    /\ pc \in {"receive", "parse"} => optind <= Len(args) /\ Option.letter \in {"l", "d"}
    /\ pc \in {"open", "transfer"} =>
          /\ optind <= Len(args) /\ Option.letter \in {"d", "t", "f"}
          /\ Option.letter = "t" => Option.arg = "dir"
          /\ Option.letter = "d" => Option.id + 1 \in DOMAIN Photos
    /\ pc \in {"store", "write"} => optind <= Len(args) /\ Option.letter = "c" /\ Option.arg = "dir"
    /\ pc = "process" => optind <= Len(args) /\ Option.letter = "p" /\ Option.arg = "dir"
    /\ \A k \in DOMAIN args : args[k].letter = "f" => args[k].arg \in Others

(* The list is parsed up to the entry parseFileList is at. *)
Entry(n) == FirstEntry(listing) + n * listing.linelen
ParseInv ==
    pc = "parse" =>
        /\ listing \in Listings
        /\ pos = Entry(Len(photos)) /\ pos <= listing.size
        /\ \A n \in DOMAIN photos :
              /\ photos[n].at = Entry(n - 1) /\ Entry(n - 1) + listing.linelen <= listing.size
              /\ photos[n].inside

(* What an option downloads; what is not on the list any more is done. *)
Wanted ==
    IF Option.letter = "d" THEN ToSet(PhotoFiles(Photos[Option.id + 1]))
    ELSE IF Option.letter = "f" THEN {<<Option.arg, "">>}
    ELSE UNION {ToSet(CalibFiles(i)) : i \in ToSet(CalibImages)}
TodoInv ==
    pc \in {"open", "transfer"} =>
        /\ todo # << >>
        /\ \A f \in Wanted : f \in ToSet(todo) \/ files[f] = "whole" \/ f \in lost \union Missing

(* Metadata come in front of their image. *)
OrderInv ==
    pc \in {"open", "transfer"} =>
        \A n \in DOMAIN todo : todo[n][2] = "RAW" =>
            \/ files[<<todo[n][1], "TXT">>] = "whole" \/ <<todo[n][1], "TXT">> \in lost
            \/ \E m \in DOMAIN todo : m < n /\ todo[m] = <<todo[n][1], "TXT">>

(* The file in work is partial, if it could be opened. *)
WriteInv ==
    /\ pc = "transfer" => files[Head(todo)] = "partial" \/ Head(todo) \in lost
    /\ pc = "write" => calibration = "partial" /\ CalibrationFile \notin lost

SpoiltInv == Cardinality(Damaged) + (IF CalibrationDamaged THEN 1 ELSE 0) <= crashes

(* Pictures in work are partial; what an earlier invocation has left so is *)
(* due to a crash.                                                         *)
Left ==
    {i \in PartialFlat \ (IF pc \in {"process", "undefined"} THEN busy ELSE {}) : Picture(i) \notin lost}
FlatInv ==
    /\ Cardinality(Left) <= Workers * crashes
    /\ pc = "process" =>
          /\ loaded = "short" => crashes > 0 \/ CalibrationFile \in lost
          /\ \A i \in busy : flat[i] = "partial" /\ Picture(i) \notin lost
          /\ Cardinality(busy) <= Workers /\ tasks \intersect busy = {}
          /\ busy # {} => loaded # "empty"
          /\ \A i \in Present : i \in tasks \union busy \/ flat[i] = "whole" \/ Picture(i) \in lost

CliInv ==
    /\ CameraInv /\ OptionInv /\ ParseInv /\ TodoInv /\ OrderInv /\ WriteInv
    /\ SpoiltInv /\ FlatInv /\ MetadataFirst

Opened ==
    [image : Images \union {""}, raw : {0, FileLength} \union Prefixed, meta : FileStates, serial : {"", "serial"},
     kind : {"none", "raw", "lightfield"}, size : Nat, torn : BOOLEAN]

(* Every QImage has one owner: the form, or the temporary moved to it. *)
OwnerInv ==
    /\ m_image \in Nat /\ temporary \in Nat
    /\ viewer \in {"idle", "opening", "assigning", "dead", "closed"}
    /\ viewer \in {"idle", "opening", "dead"} => heap = {m_image} \ {0}
    /\ viewer = "assigning" => /\ heap = ({m_image} \ {0}) \union {temporary}
                               /\ temporary \notin {0, m_image}
    /\ viewer = "closed" => heap = {}

(* Once a picture was scaled there is one, and the button agrees with it. *)
ZoomInv ==
    /\ pixmap \in Int
    /\ scaled => pixmap # -1 /\ (zoomable <=> Less(m_scale, Whole(3)))

(* The image being opened is one of the directory. *)
OpenedInv ==
    /\ viewer = "opening" => opened.image \in Present
    /\ viewer \in {"opening", "assigning"} =>
          opened.image \in Images /\ opened.raw \in Prefixed \union {FileLength}

ViewerInv == opened \in Opened /\ OwnerInv /\ ZoomInv /\ OwnCalibration /\ OpenedInv
=============================================================================
