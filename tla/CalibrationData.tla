-------------------------- MODULE CalibrationData ---------------------------
(***************************************************************************)
(* The result of a calibration (lib/calibration/calibrationdata.cpp) and   *)
(* its JSON form (serialize and deserialize there, in linegrid.cpp and in  *)
(* serialization.h/.cpp).                                                  *)
(*                                                                         *)
(* An object is a record of what its Impl holds.  JSON numbers are         *)
(* fractions, arrays are sequences, objects are records; Null is the JSON  *)
(* null, which has no members and no elements.                             *)
(***************************************************************************)
EXTENDS Rationals, Ordering, Sequences, SequencesExt, TLC

-----------------------------------------------------------------------------
(* jsoncpp. *)

Null == << >>

(* A double that is not a number is written as null. *)
Number(r) == IF Defined(r) THEN r ELSE Null
String(s) == [string |-> s]

(* value["name"]: null if there is no such member. *)
Member(value, name) == IF name \in DOMAIN value THEN value[name] ELSE Null
Element(value, k) == IF k \in DOMAIN value THEN value[k] ELSE Null

asDouble(value) == IF DOMAIN value = {} THEN Zero ELSE value
asInt(value) == asDouble(value).num
asString(value) == IF DOMAIN value = {} THEN "" ELSE value.string

-----------------------------------------------------------------------------
(* cv::Vec and cv::Mat *)

SerializeVec(vec) == [k \in DOMAIN vec |-> Number(vec[k])]
DeserializeVec(value, cn) == [k \in 1..cn |-> asDouble(Element(value, k))]

SerializeMat(mat) == [k \in DOMAIN mat |-> [l \in DOMAIN mat[k] |-> Number(mat[k][l])]]

(* The size of the first row is that of all. *)
DeserializeMat(value) ==
    [k \in DOMAIN value |-> [l \in DOMAIN value[1] |-> asDouble(Element(value[k], l))]]

-----------------------------------------------------------------------------
(* LineGrid: deserialize appends to the lines that are there. *)

SubGrids == <<"A", "B">>    \* SUBGRID_A is 0, SUBGRID_B is 1

SerializeLine(line) ==
    [subgrid |-> Whole(IF line.subgrid = "A" THEN 0 ELSE 1), position |-> Number(line.position)]

DeserializeLine(value) ==
    [subgrid |-> SubGrids[asInt(Member(value, "subgrid")) + 1],
     position |-> asDouble(Member(value, "position"))]

SerializeGrid(grid) ==
    [horizontal |-> [n \in DOMAIN grid.horizontal |-> SerializeLine(grid.horizontal[n])],
     vertical |-> [n \in DOMAIN grid.vertical |-> SerializeLine(grid.vertical[n])]]

DeserializeGrid(grid, value) ==
    LET read(list) == [n \in DOMAIN list |-> DeserializeLine(list[n])]
    IN  [horizontal |-> grid.horizontal \o read(Member(value, "horizontal")),
         vertical |-> grid.vertical \o read(Member(value, "vertical"))]

-----------------------------------------------------------------------------
(* ArrayParameters, LensParameters and LensConfiguration. *)

ArrayParameters(grid, translation, rotation) ==
    [grid |-> grid, translation |-> translation, rotation |-> rotation]

DefaultArray ==
    ArrayParameters([horizontal |-> << >>, vertical |-> << >>], <<Zero, Zero>>, Zero)

SerializeArray(array) ==
    [translation |-> SerializeVec(array.translation),
     rotation |-> Number(array.rotation),
     grid |-> SerializeGrid(array.grid)]

DeserializeArray(array, value) ==
    ArrayParameters(DeserializeGrid(array.grid, Member(value, "grid")),
                    DeserializeVec(Member(value, "translation"), 2),
                    asDouble(Member(value, "rotation")))

LensParameters(cameraMatrix, distCoeffs) ==
    [cameraMatrix |-> cameraMatrix, distCoeffs |-> distCoeffs]

SerializeParameters(lens) ==
    [cameraMatrix |-> SerializeMat(lens.cameraMatrix), distCoeffs |-> SerializeMat(lens.distCoeffs)]

DeserializeParameters(value) ==
    LensParameters(DeserializeMat(Member(value, "cameraMatrix")),
                   DeserializeMat(Member(value, "distCoeffs")))

LensConfiguration(zoom, focus) == [zoom |-> zoom, focus |-> focus]

SerializeConfiguration(config) ==
    [zoomStep |-> Whole(config.zoom), focusStep |-> Whole(config.focus)]

(* Wrong variant of DeserializeConfiguration: the steps are exchanged. *)
DeserializeConfigurationSwapped(value) ==
    LensConfiguration(asInt(Member(value, "focusStep")), asInt(Member(value, "zoomStep")))

DeserializeConfiguration(value) ==
    LensConfiguration(asInt(Member(value, "zoomStep")), asInt(Member(value, "focusStep")))

-----------------------------------------------------------------------------
(* CalibrationData *)

(* The order of lens configurations. *)
LensBefore(a, b) ==
    \/ a[1].zoom < b[1].zoom
    \/ a[1].zoom = b[1].zoom /\ a[1].focus < b[1].focus

(* std::sort; the order of equal configurations is left open there. *)
SortedLens(lens) ==
    LET before == {p \in (DOMAIN lens) \X (DOMAIN lens) :
                      \/ LensBefore(lens[p[1]], lens[p[2]])
                      \/ ~LensBefore(lens[p[2]], lens[p[1]]) /\ p[1] < p[2]}
        order == Arranged(DOMAIN lens, before)
    IN  [n \in DOMAIN lens |-> lens[order[n]]]

(* The constructor, and the copy constructor: lens is a list of pairs of a *)
(* configuration and its parameters, and is sorted.                        *)
NewCalibrationData(serial, array, lens) ==
    [serial |-> serial, array |-> array, lens |-> SortedLens(lens)]

DefaultCalibrationData == [serial |-> "", array |-> DefaultArray, lens |-> << >>]

SerializeData(data) ==
    [serial |-> String(data.serial),
     array |-> SerializeArray(data.array),
     lens |-> [k \in DOMAIN data.lens |->
                 [configuration |-> SerializeConfiguration(data.lens[k][1]),
                  parameters |-> SerializeParameters(data.lens[k][2])]]]

(* Lens parameters are appended to those of the object and not sorted. *)
DeserializeData(data, value) ==
    LET lens == Member(value, "lens")
    IN  [serial |-> asString(Member(value, "serial")),
         array |-> DeserializeArray(data.array, Member(value, "array")),
         lens |-> data.lens \o
            [k \in DOMAIN lens |->
                <<DeserializeConfiguration(Member(lens[k], "configuration")),
                  DeserializeParameters(Member(lens[k], "parameters"))>>]]
=============================================================================
