------------------------------ MODULE Metadata ------------------------------
(***************************************************************************)
(* Lyli::Image::Metadata (lib/image/metadata.cpp, generated from           *)
(* metadata.txt): typed access to the JSON metadata of an image.           *)
(*                                                                         *)
(* The classes nested in Metadata share one tree.  An accessor is const,   *)
(* but looks its value up with operator[] of a tree that is not: on the    *)
(* way it inserts every node that is missing, as null.                     *)
(*                                                                         *)
(* A tree maps the paths that exist to what is there: "object", "null" or  *)
(* the kind of a value.                                                    *)
(***************************************************************************)
EXTENDS Sequences, Functions

(* master/picture/frameArray[0]/frame *)
Frame == <<"master", "picture", "frameArray", "0", "frame">>

(* The accessors of one class for values of one kind. *)
Accessors(class, kind, names) == {[path |-> class \o <<name>>, kind |-> kind] : name \in names}

Channels == {"r", "gr", "gb", "b"}

-----------------------------------------------------------------------------
(* metadata/image *)
ImageClass == Frame \o <<"metadata", "image">>
RawDetails == ImageClass \o <<"rawDetails">>
PixelFormat == RawDetails \o <<"pixelFormat">>

ImageAccessors ==
    UNION {Accessors(ImageClass, "int", {"width", "height", "orientation"}),
           Accessors(ImageClass, "string", {"representation"}),
           Accessors(PixelFormat, "int", {"rightShift"}),
           Accessors(PixelFormat \o <<"black">>, "int", Channels),
           Accessors(PixelFormat \o <<"white">>, "int", Channels),
           Accessors(RawDetails \o <<"pixelPacking">>, "string", {"endianness"}),
           Accessors(RawDetails \o <<"pixelPacking">>, "int", {"bitsPerPixel"}),
           Accessors(RawDetails \o <<"mosaic">>, "string", {"tile", "upperLeftPixel"})}

ColorAccessors ==
    UNION {Accessors(ImageClass \o <<"color">>, "float", {"gamma"}),
           Accessors(ImageClass \o <<"color", "whiteBalanceGain">>, "float", Channels),
           Accessors(ImageClass, "float", {"modulationExposureBias", "limitExposureBias"})}

(* metadata/devices *)
Devices == Frame \o <<"metadata", "devices">>
Sensor == Devices \o <<"sensor">>
Lens == Devices \o <<"lens">>
Mla == Devices \o <<"mla">>

SensorAccessors ==
    UNION {Accessors(Devices \o <<"clock">>, "string", {"zuluTime"}),
           Accessors(Sensor, "int", {"bitsPerPixel", "iso"}),
           Accessors(Sensor \o <<"mosaic">>, "string", {"tile", "upperLeftPixel"}),
           Accessors(Sensor \o <<"analogGain">>, "float", Channels),
           Accessors(Sensor, "float", {"pixelPitch"})}

(* Wrong variant of LensAccessors: an accessor for the class within. *)
LensAccessorsOffset ==
    UNION {Accessors(Lens, "int", {"zoomStep", "focusStep", "exitPupilOffset"}),
           Accessors(Lens \o <<"exitPupilOffset">>, "float", {"z"})}

LensAccessors ==
    UNION {Accessors(Lens, "float", {"infinityLambda", "focalLength", "fNumber", "temperature"}),
           Accessors(Lens, "int", {"zoomStep", "focusStep", "temperatureAdc",
                                   "zoomStepperOffset", "focusStepperOffset"}),
           Accessors(Lens \o <<"exitPupilOffset">>, "float", {"z"})}

OtherDevices ==
    UNION {Accessors(Devices \o <<"ndfilter">>, "float", {"exposureBias"}),
           Accessors(Devices \o <<"shutter">>, "string", {"mechanism"}),
           Accessors(Devices \o <<"shutter">>, "float", {"frameExposureDuration", "pixelExposureDuration"}),
           Accessors(Devices \o <<"soc">>, "float", {"temperature"}),
           Accessors(Devices \o <<"soc">>, "int", {"temperatureAdc"}),
           Accessors(Devices \o <<"accelerometer", "sampleArray", "0">>, "float", {"x", "y", "z", "time"}),
           Accessors(Mla, "string", {"tiling", "config"}),
           Accessors(Mla, "float", {"lensPitch", "rotation"}),
           Accessors(Mla \o <<"scaleFactor">>, "float", {"x", "y"}),
           Accessors(Mla \o <<"sensorOffset">>, "float", {"x", "y", "z"})}

(* metadata/modes and metadata/camera *)
ModesAccessors ==
    LET modes == Frame \o <<"metadata", "modes">>
    IN  UNION {Accessors(modes, "string", {"creative", "exposureDurationMode", "isoMode", "ndFilterMode"}),
               Accessors(modes, "bool", {"manualControls", "exposureLock"}),
               Accessors(modes, "float", {"exposureDurationSpec", "isoSpec", "overscan"}),
               Accessors(Frame \o <<"metadata", "camera">>, "string", {"make", "model", "firmware"})}

(* privateMetadata *)
SerialNumber == [path |-> Frame \o <<"privateMetadata", "camera", "serialNumber">>, kind |-> "string"]

PrivateAccessors ==
    Accessors(Frame \o <<"privateMetadata", "devices", "sensor">>, "string", {"sensorSerial"})
        \union {SerialNumber}

AllAccessors ==
    UNION {ImageAccessors, ColorAccessors, SensorAccessors, LensAccessors, OtherDevices,
           ModesAccessors, PrivateAccessors}

-----------------------------------------------------------------------------
Ancestors(path) == {SubSeq(path, 1, n) : n \in 1..Len(path)}

(* read: the tree of a file that holds these values.  What comes after an  *)
(* error is not parsed, and the error is not reported.                     *)
TreeOf(accessors) ==
    LET leaves == {a.path : a \in accessors}
        nodes == UNION {Ancestors(path) : path \in leaves}
    IN  [path \in nodes |->
            IF path \in leaves THEN (CHOOSE a \in accessors : a.path = path).kind ELSE "object"]

(* operator[] along a path: nodes that are missing or null become objects, *)
(* the last one null.                                                      *)
Touched(tree, path) ==
    [p \in DOMAIN tree \union Ancestors(path) |->
        IF p \in Ancestors(path) /\ p # path /\ (p \notin DOMAIN tree \/ tree[p] = "null")
        THEN "object"
        ELSE IF p \in DOMAIN tree THEN tree[p] ELSE "null"]

(* What an accessor returns: the value, the default of its type for null,  *)
(* or an exception, for a value of another type or an object.              *)
Get(tree, accessor) ==
    LET path == accessor.path
        way == {p \in Ancestors(path) : p # path /\ p \in DOMAIN tree}
    IN  IF \E p \in way : tree[p] \notin {"object", "null"} THEN "exception"
        ELSE IF path \notin DOMAIN tree \/ tree[path] = "null" THEN "default"
        ELSE IF tree[path] = accessor.kind THEN "value" ELSE "exception"
=============================================================================
