------------------------------- MODULE Viewer -------------------------------
(***************************************************************************)
(* The image viewer of the GUI (ui/imageview/viewerform.cpp) and its       *)
(* LytroImage (lytroimage.cpp).  Opening an image reads the RAW file, the  *)
(* metadata beside it and the calibration data of the camera these name.   *)
(*                                                                         *)
(* QImages on the heap have numbers, 0 is the null pointer.  Pictures are  *)
(* square here; NaN stands for the infinite scale that fits a picture      *)
(* without pixels.                                                         *)
(***************************************************************************)
EXTENDS Disk, Rationals, RawImage, Metadata, FiniteSets

CONSTANTS
    Bytes,          \* the RAW file of every image
    Prefixed,       \* lengths a partial RAW file may have
    ArraySize,      \* the size of a light-field image
    AreaSize,       \* the size of the scroll area
    MaxViews,       \* bound on the number of images opened
    MaxZooms        \* bound on the number of zooms

(* Two pixels take three bytes. *)
FileLength == (3 * Width * Height) \div 2

ASSUME ViewerAssumption ==
    /\ ArraySize \in Nat
    /\ Bytes \in [Images -> [1..FileLength -> 0..255]]
    /\ Prefixed \subseteq 0..FileLength

VARIABLES
    viewer,         \* "idle", "opening", "assigning", "dead" or "closed"
    opened,         \* LytroImage(file): the image and what was read of it
    temporary,      \* LytroImage(file): its QImage
    m_image,        \* the QImage of the form's LytroImage
    heap,           \* the QImages that exist
    pixmap,         \* the size of the picture shown, or -1
    m_scale,
    zoomable,       \* whether buttonZoomIn is enabled
    scaled,         \* whether a picture was ever scaled
    views, zooms

zoomVars == <<m_scale, zoomable, scaled, zooms>>
viewerVars == <<viewer, opened, temporary, m_image, heap, pixmap, zoomVars, views>>

Nothing == [image |-> "", raw |-> 0, meta |-> "absent", serial |-> "", kind |-> "none",
            size |-> 0, torn |-> FALSE]

ViewerInit ==
    /\ viewer = "idle" /\ opened = Nothing /\ temporary = 0
    /\ m_image = 0 /\ heap = {} /\ pixmap = -1
    /\ m_scale = Whole(1) /\ zoomable = TRUE /\ scaled = FALSE
    /\ views = 0 /\ zooms = 0

-----------------------------------------------------------------------------
(* The metadata as they may be parsed; of a partial file the reader keeps  *)
(* some part, but not the private metadata at its end.                     *)
Parsed == [whole |-> TreeOf(AllAccessors),
           partial |-> TreeOf(ImageAccessors \union ColorAccessors \union SensorAccessors),
           absent |-> << >>]
SerialOf(meta) == IF Get(Parsed[meta], SerialNumber) = "value" THEN "serial" ELSE ""

(* fileViewClicked: LytroImage(file) reads the image, *)
OpenRaw(i) ==
    /\ viewer = "idle" /\ views < MaxViews /\ i \in Present
    /\ \E n \in (IF files[<<i, "RAW">>] = "whole" THEN {FileLength} ELSE Prefixed) :
          opened' = [Nothing EXCEPT !.image = i, !.raw = n]
    /\ viewer' = "opening"
    /\ views' = views + 1
    /\ UNCHANGED <<disk, temporary, m_image, heap, pixmap, zoomVars>>

(* The extension of the image's file is replaced. *)
MetadataFile(i) == <<i, "TXT">>

NewImage == CHOOSE n \in 1..(Cardinality(heap) + 1) : n \notin heap

(* then its metadata and the calibration data, which other parts of the    *)
(* GUI store: a file that is there counts.  A QImage is made of the        *)
(* light-field image or, without calibration data, of the image itself.    *)
(* With an empty line grid it has no pixels.  torn tells whether the       *)
(* metadata were incomplete without a crash.                               *)
OpenMetadata(torn) ==
    /\ viewer = "opening"
    /\ \E meta \in (IF files[MetadataFile(opened.image)] = "partial" THEN {"partial", "absent"}
                    ELSE {files[MetadataFile(opened.image)]}),
         config \in FileStates :
          \E size \in (CASE config = "absent" -> {Width}
                        [] config = "partial" -> {0, ArraySize}
                        [] config = "whole" -> {ArraySize}) :
              opened' = [opened EXCEPT !.meta = meta, !.serial = SerialOf(meta), !.torn = torn,
                           !.size = size, !.kind = IF config = "absent" THEN "raw" ELSE "lightfield"]
    /\ temporary' = NewImage
    /\ heap' = heap \union {NewImage}
    /\ viewer' = "assigning"
    /\ UNCHANGED <<disk, m_image, pixmap, zoomVars, views>>

(* Wrong variant of MoveAssign: the previous image is not deleted. *)
MoveAssignKeep == heap' = heap /\ m_image' = temporary /\ temporary' = 0

(* operator=(LytroImage&&): the previous image is deleted, the new one     *)
(* taken over; nothing is left for the destructor of the temporary.        *)
MoveAssign == heap' = heap \ {m_image} /\ m_image' = temporary /\ temporary' = 0

(* The picture is shown; the form is not scaled to it. *)
ShowImage ==
    /\ viewer = "assigning"
    /\ MoveAssign
    /\ pixmap' = opened.size /\ opened' = Nothing
    /\ viewer' = "idle"
    /\ UNCHANGED <<disk, zoomVars, views>>

-----------------------------------------------------------------------------
scaleImage(scale) ==
    IF pixmap = -1 THEN UNCHANGED <<zoomable, scaled>>
    ELSE zoomable' = Less(scale, Whole(3)) /\ scaled' = TRUE

Zoom(scale) ==
    /\ viewer = "idle" /\ zooms < MaxZooms
    /\ zooms' = zooms + 1
    /\ m_scale' = scale
    /\ UNCHANGED <<disk, viewer, opened, temporary, m_image, heap, pixmap, views>>

zoomIn == zoomable /\ Zoom(Times(m_scale, Ratio(5, 4))) /\ scaleImage(m_scale')
zoomOut == Zoom(Times(m_scale, Ratio(3, 4))) /\ scaleImage(m_scale')
zoomFit == pixmap # -1 /\ Zoom(Ratio(AreaSize, pixmap)) /\ scaleImage(m_scale')

zoomOriginal == Zoom(Whole(1)) /\ scaleImage(m_scale')

resizeEvent ==
    /\ viewer = "idle"
    /\ scaleImage(m_scale)
    /\ UNCHANGED <<disk, viewer, opened, temporary, m_image, heap, pixmap, m_scale, zooms, views>>

(* zoomFit and saveAs dereference a null pointer if there is no image. *)
Dereference ==
    /\ viewer = "idle"
    /\ m_image = 0
    /\ viewer' = "dead"
    /\ UNCHANGED <<disk, opened, temporary, m_image, heap, pixmap, zoomVars, views>>

(* The destructors of the form and of its LytroImage. *)
CloseViewer ==
    /\ viewer = "idle"
    /\ heap' = heap \ {m_image}
    /\ viewer' = "closed"
    /\ UNCHANGED <<disk, opened, temporary, m_image, pixmap, zoomVars, views>>

ViewerZoom == zoomIn \/ zoomOut \/ zoomFit \/ zoomOriginal \/ resizeEvent
=============================================================================
