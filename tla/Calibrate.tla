----------------------------- MODULE Calibrate ------------------------------
(***************************************************************************)
(* Calibrator::calibrate (lib/calibration/calibrator.cpp), from the point  *)
(* grids that addGrid collected to the calibration data in a file, back in *)
(* memory, and to the light-field image that is made with them.            *)
(*                                                                         *)
(* The lens array is tilted by the same small angle in every image.  The   *)
(* geometry is that of the code to first order in this angle: a line that  *)
(* is tilted by t moves by t * d over a distance d.                        *)
(***************************************************************************)
EXTENDS GridMath, CalibrationData, LightfieldImage

CONSTANTS
    GridShapes,     \* point grids; every line has the id of its line of lenses
    GridCounts,     \* how many point grids a calibration may have
    Tilts,          \* angles of the lens array
    Lenses,         \* zoom step, focus step and focal length for the grids in turn
    Serial,
    IMAGE_SIZE,     \* 3280 pixels in the code
    SENSOR_SIZE

(* A line of a point grid: its subgrid, the id of its line of lenses and   *)
(* the coordinates of its points.                                          *)
PointLines == [subgrid : {"A", "B"}, id : Int, line : Seq(Int)]

(* Lenses were found in every image, and a point grid that is not empty    *)
(* has lines of both kinds.                                                *)
ASSUME CalibrateAssumption ==
    /\ GridCounts \subseteq 1..Len(Lenses)
    /\ Lenses \in Seq([zoom : Int, focus : Int, focallength : Int])
    /\ Tilts \subseteq Int
    /\ IMAGE_SIZE \in Nat /\ SENSOR_SIZE \in Nat \ {0}
    /\ \A shape \in GridShapes : shape \in [Axes -> Seq(PointLines) \ {<< >>}]

VARIABLES
    pointGridList,
    tilt,
    pc,             \* the next call of calibrate
    linegrids,      \* the line grids of the point grids
    at,             \* averageGrids: the grid, axis and line its loops are at
    maps,           \* its maps, by axis
    target, mappers,        \* what averageGrids returns
    rotation, translation,
    clusters,       \* entries of clusterMap that the loop has not met yet
    lensCalib,
    data,           \* the calibration data
    file,           \* its JSON form
    restored        \* the calibration data read from there

inputs == <<pointGridList, tilt>>
average == <<linegrids, at, maps, target, mappers>>
outputs == <<clusters, lensCalib, data, file, restored>>
vars == <<inputs, pc, average, rotation, translation, outputs>>

(* clusterMap: a lens for every zoom and focus, that of the first grid     *)
(* which addGrid got with them.                                            *)
Configuration(g) == LensConfiguration(Lenses[g].zoom, Lenses[g].focus)
Clusters(count) ==
    {Lenses[g] : g \in {k \in 1..count : \A h \in 1..(k - 1) : Configuration(h) # Configuration(k)}}

Init ==
    /\ pointGridList \in UNION {[1..n -> GridShapes] : n \in GridCounts}
    /\ tilt \in Tilts
    /\ pc = "linegrids" /\ linegrids = << >>
    /\ at = [grid |-> 1, axis |-> "horizontal", line |-> 1]
    /\ maps = [axis \in Axes |-> {}]
    /\ target = NoLines /\ mappers = << >>
    /\ rotation = Zero /\ translation = <<Zero, Zero>>
    /\ clusters = Clusters(Len(pointGridList)) /\ lensCalib = << >>
    /\ data = DefaultCalibrationData /\ file = Null /\ restored = DefaultCalibrationData

-----------------------------------------------------------------------------
CreateLineGrids ==
    /\ pc = "linegrids"
    /\ linegrids' = [g \in DOMAIN pointGridList |-> LineGridOf(pointGridList[g])]
    /\ pc' = "average"
    /\ UNCHANGED <<inputs, at, maps, target, mappers, rotation, translation, outputs>>

(* averageGrids: for every grid come its horizontal lines, then its        *)
(* vertical ones.                                                          *)
NextLine ==
    IF at.line < Len(linegrids[at.grid][at.axis]) THEN [at EXCEPT !.line = @ + 1]
    ELSE IF at.axis = "horizontal" THEN [at EXCEPT !.axis = "vertical", !.line = 1]
    ELSE [grid |-> at.grid + 1, axis |-> "horizontal", line |-> 1]

(* The map of the axis gets a new value. *)
PutMap(map) ==
    /\ maps' = [maps EXCEPT ![at.axis] = map]
    /\ at' = NextLine
    /\ UNCHANGED <<inputs, pc, linegrids, target, mappers, rotation, translation, outputs>>

NewLine == linegrids[at.grid][at.axis][at.line]
Referee == <<at.grid, at.line>>

(* The maps start with the lines of the first grid, ... *)
StartAverage ==
    /\ pc = "average" /\ at.grid = 1
    /\ PutMap(Emplace(maps[at.axis], LineEntry(NewLine, Referee)))

(* ... those of the others are inserted ... *)
MergeLine ==
    /\ pc = "average" /\ at.grid \in 2..Len(pointGridList)
    /\ PutMap(insertLine(maps[at.axis], NewLine, Referee, LIMIT(at.axis)))

(* ... and the lines most grids have in common are the result.             *)
FinishAverage ==
    /\ pc = "average" /\ at.grid > Len(pointGridList)
    /\ target' = TargetOf(maps, linegrids)
    /\ mappers' = MappersOf(maps, linegrids)
    /\ pc' = "rotation"
    /\ UNCHANGED <<inputs, linegrids, at, maps, rotation, translation, outputs>>

-----------------------------------------------------------------------------
HALF == IMAGE_SIZE \div 2

(* findLineParams and parametricToGeneral: the angle of the fitted line    *)
(* and its distance from the corner of the image.  Lines are known at the  *)
(* middle of the image; a horizontal line (constant x) that is tilted by t *)
(* is farther from the corner, a vertical one nearer.                      *)
Fitted(line, sign) ==
    [angle |-> Whole(tilt),
     offset |-> Plus(MeanOfPoints(line), Whole(sign * HALF * tilt))]

(* Rotation about the corner. *)
rotateGeneralLine(line, angle) == [line EXCEPT !.angle = Plus(@, angle)]

(* Where a line meets the line across: (direction[1], -direction[0],       *)
(* -IMAGE_SIZE / 2) is x = HALF for vertical lines, but y = -HALF for      *)
(* horizontal ones.                                                        *)
Crossing(line) == Plus(line.offset, Times(Whole(HALF), line.angle))

(* calibrateRotation: acos yields the angle without its sign. *)
calibrateRotation(grids) ==
    filteredAverage([g \in DOMAIN grids |->
        filteredAverage([n \in DOMAIN grids[g].vertical |-> Magnitude(Whole(tilt))])])

(* Wrong variant of findTranslation: lines are compared by their own index. *)
findTranslationUnmapped(lines, sign, angle, targetLines, mapping) ==
    filteredAverage([n \in DOMAIN lines |->
        Minus(Crossing(rotateGeneralLine(Fitted(lines[n].line, sign), angle)),
              targetLines[IF n <= Len(targetLines) THEN n ELSE 1].position)])

(* findTranslation: the distances of lines from their target lines. *)
findTranslation(lines, sign, angle, targetLines, mapping) ==
    filteredAverage([n \in DOMAIN lines |->
        Minus(Crossing(rotateGeneralLine(Fitted(lines[n].line, sign), angle)),
              targetLines[mapping[n]].position)])

(* Wrong variant of Readable: the line after the target line is read. *)
ReadableNext(lines, targetLines, mapping) ==
    \A n \in DOMAIN lines : lines[n].line # << >> /\ mapping[n] + 1 \in DOMAIN targetLines

(* The first point of every line is read, and so is its target line. *)
Readable(lines, targetLines, mapping) ==
    \A n \in DOMAIN lines : lines[n].line # << >> /\ mapping[n] \in DOMAIN targetLines

CalibrateRotation ==
    /\ pc = "rotation"
    /\ rotation' = calibrateRotation(pointGridList)
    /\ pc' = "translation"
    /\ UNCHANGED <<inputs, average, translation, outputs>>

(* calibrateTranslation: calibrate passes -rotation, which is negated once *)
(* more.                                                                   *)
CalibrateTranslation ==
    /\ pc = "translation"
    /\ IF \A g \in DOMAIN pointGridList :
             /\ Readable(pointGridList[g].horizontal, target.horizontal, mappers[g].horizontal)
             /\ Readable(pointGridList[g].vertical, target.vertical, mappers[g].vertical)
       THEN /\ translation' =
                 <<filteredAverage([g \in DOMAIN pointGridList |->
                       findTranslation(pointGridList[g].horizontal, 1, rotation,
                                       target.horizontal, mappers[g].horizontal)]),
                   filteredAverage([g \in DOMAIN pointGridList |->
                       findTranslation(pointGridList[g].vertical, -1, rotation,
                                       target.vertical, mappers[g].vertical)])>>
            /\ pc' = "lens"
       ELSE pc' = "undefined" /\ UNCHANGED translation
    /\ UNCHANGED <<inputs, average, rotation, outputs>>

-----------------------------------------------------------------------------
estimateCameraMatrix(lens) ==
    LET focalLengthPx == Ratio(lens.focallength * IMAGE_SIZE, SENSOR_SIZE)
        center == Ratio(IMAGE_SIZE, 2)
    IN  <<<<focalLengthPx, Zero, center>>, <<Zero, focalLengthPx, center>>, <<Zero, Zero, Whole(1)>>>>

NoDistortion == [k \in 1..8 |-> <<Zero>>]

(* The clusters are met in the order of their hashes. *)
AddLens(lens) ==
    /\ pc = "lens" /\ lens \in clusters
    /\ clusters' = clusters \ {lens}
    /\ lensCalib' = Append(lensCalib,
          <<LensConfiguration(lens.zoom, lens.focus),
            LensParameters(estimateCameraMatrix(lens), NoDistortion)>>)
    /\ UNCHANGED <<inputs, pc, average, rotation, translation, data, file, restored>>

(* The loop ends and the calibration data are constructed. *)
Construct ==
    /\ pc = "lens" /\ clusters = {}
    /\ data' = NewCalibrationData(Serial, ArrayParameters(target, translation, rotation), lensCalib)
    /\ lensCalib' = << >>
    /\ pc' = "store"
    /\ UNCHANGED <<inputs, average, rotation, translation, clusters, file, restored>>

(* The caller writes the data to a file ... *)
Store ==
    /\ pc = "store"
    /\ file' = SerializeData(data)
    /\ pc' = "read"
    /\ UNCHANGED <<inputs, average, rotation, translation, clusters, lensCalib, data, restored>>

(* ... which is read into a new object when an image is processed. *)
Read ==
    /\ pc = "read"
    /\ restored' = DeserializeData(DefaultCalibrationData, file)
    /\ pc' = "done"
    /\ UNCHANGED <<inputs, average, rotation, translation, clusters, lensCalib, data, file>>

Next ==
    \/ CreateLineGrids \/ StartAverage \/ MergeLine \/ FinishAverage
    \/ CalibrateRotation \/ CalibrateTranslation
    \/ \E lens \in clusters : AddLens(lens)
    \/ Construct \/ Store \/ Read

Spec == Init /\ [][Next]_vars

-----------------------------------------------------------------------------
LineOf(axis, r) == pointGridList[r[1]][axis][r[2]]
PositionOf(axis, r) == linegrids[r[1]][axis][r[2]].position

(* The lines of all grids, as pairs of grid and index. *)
AllLines(axis) == UNION {{<<g, k>> : k \in DOMAIN pointGridList[g][axis]} : g \in DOMAIN pointGridList}
FirstLines(axis) == {r \in AllLines(axis) : r[1] = 1}

MeanPosition(axis, refs) == MeanOf([n \in DOMAIN refs |-> PositionOf(axis, refs[n])])

(* Every line has points enough for a position. *)
Sound(axis) == \A r \in AllLines(axis) : Len(LineOf(axis, r).line) > 1

(* The lines averageGrids has met so far. *)
Met(axis) ==
    {r \in AllLines(axis) :
        \/ r[1] < at.grid
        \/ r[1] = at.grid /\ (r[2] < at.line \/ at.axis = "vertical") /\ axis = "horizontal"
        \/ r[1] = at.grid /\ r[2] < at.line /\ at.axis = "vertical" /\ axis = "vertical"}

(* Lines of the first grid at the position of an earlier one. *)
Repeated(axis) ==
    {r \in FirstLines(axis) :
        \E q \in FirstLines(axis) : q[2] < r[2] /\ Same(PositionOf(axis, q), PositionOf(axis, r))}

(* insertLine loses nothing: while it moves entries of the map to the new  *)
(* average, every line met so far is in exactly one entry, once, entries   *)
(* keep different keys, and each is at the mean of its lines.  Only of     *)
(* lines of the first grid that have the same position one is kept.        *)
LinesAccounted ==
    \A axis \in Axes : pc = "average" /\ Sound(axis) =>
        /\ UNION {ToSet(e.referees) : e \in maps[axis]} = Met(axis) \ Repeated(axis)
        /\ \A e \in maps[axis] :
              /\ IsInjective(e.referees) /\ e.counter = Len(e.referees)
              /\ Same(e.line.position, MeanPosition(axis, e.referees))
        /\ \A e, f \in maps[axis] : e # f =>
              /\ ToSet(e.referees) \intersect ToSet(f.referees) = {}
              /\ ~Same(e.line.position, f.line.position)

-----------------------------------------------------------------------------
(* The lines of lenses seen in more than half of the images. *)
Copies(axis, id) == {r \in AllLines(axis) : LineOf(axis, r).id = id}
Common(axis) ==
    {id \in {LineOf(axis, r).id : r \in AllLines(axis)} :
        2 * Cardinality(Copies(axis, id)) > Len(pointGridList)}

(* The images show one array: a line of lenses is at most once in each, at *)
(* about the same place, and the lines are in the same order.              *)
Regular(axis) ==
    \A q, r \in AllLines(axis) :
        LET gap(s) == Gap(PositionOf(axis, q), PositionOf(axis, s))
        IN  /\ LineOf(axis, q).id < LineOf(axis, r).id => Less(PositionOf(axis, q), PositionOf(axis, r))
            /\ LineOf(axis, q).id = LineOf(axis, r).id =>
                  /\ q[1] = r[1] => q = r
                  /\ Less(gap(r), LIMIT(axis))
                  /\ \A s \in AllLines(axis) : LineOf(axis, s).id # LineOf(axis, q).id => Less(gap(r), gap(s))

(* LIMIT_HORIZONTAL is more than the distance of two lines, so that a line *)
(* which the first image lacks is merged with its neighbour; vertical      *)
(* lines are farther apart than LIMIT_VERTICAL.                            *)
Anchored(axis) ==
    \A r \in AllLines(axis) : \E q \in FirstLines(axis) : LineOf(axis, q).id = LineOf(axis, r).id
Apart(axis) ==
    \A q, r \in AllLines(axis) : LineOf(axis, q).id # LineOf(axis, r).id =>
        AtMost(LIMIT(axis), Gap(PositionOf(axis, q), PositionOf(axis, r)))

Recognizable(axis) == Sound(axis) /\ Regular(axis) /\ (Anchored(axis) \/ Apart(axis))

(* averageGrids finds the lines of lenses again, whatever the order of the *)
(* grids: the target has the lines seen in most images, in order and at    *)
(* the mean of their positions, and the mappers lead every line of every   *)
(* grid there (and lines that were dropped to the first one).              *)
LatticeAveraged ==
    pc = "rotation" =>
        \A axis \in Axes : Recognizable(axis) =>
            LET index(id) == Cardinality({c \in Common(axis) : c < id}) + 1
            IN  /\ Len(target[axis]) = Cardinality(Common(axis))
                /\ \A id \in Common(axis) : \E e \in maps[axis] :
                      /\ IsInjective(e.referees) /\ ToSet(e.referees) = Copies(axis, id)
                      /\ Same(target[axis][index(id)].position, MeanPosition(axis, e.referees))
                /\ \A r \in AllLines(axis) :
                      mappers[r[1]][axis][r[2]] =
                          IF LineOf(axis, r).id \in Common(axis) THEN index(LineOf(axis, r).id) ELSE 1

(* calibrateTranslation reads no line that is not there, unless a point    *)
(* grid has a line without a position, or no line is left in the target,   *)
(* which images of one array cause only if no line is in most of them.     *)
ReadsExplained ==
    pc = "undefined" => \E axis \in Axes :
        \/ ~Sound(axis)
        \/ target[axis] = << >> /\ (Recognizable(axis) => Common(axis) = {})

(* How far lines are from the mean of the lines of the same lenses, in the *)
(* entry averageGrids made of these.                                       *)
Distances(axis) ==
    {Minus(MeanOfPoints(LineOf(axis, p[1]).line), MeanPosition(axis, p[2].referees)) :
        p \in {q \in AllLines(axis) \X maps[axis] :
                  /\ IsInjective(q[2].referees)
                  /\ ToSet(q[2].referees) = Copies(axis, LineOf(axis, q[1]).id)}}

(* If no line was dropped, the rotation is the size of the tilt, and the   *)
(* translation is that of the rotation about the corner up to the distance *)
(* of some line from the mean of the lines it belongs with.  Stated for    *)
(* arrays that are not tilted to the positive side: there the angle has    *)
(* lost its sign and lines are turned away from their target.              *)
ArrayMeasured ==
    /\ pc = "store" /\ tilt <= 0
    /\ \A axis \in Axes : /\ Recognizable(axis)
                           /\ \A r \in AllLines(axis) : LineOf(axis, r).id \in Common(axis)
    => /\ Same(data.array.rotation, Whole(-tilt))
       /\ \A axis \in Axes :
            LET sign == IF axis = "horizontal" THEN 1 ELSE -1
                measured == Minus(data.array.translation[IF axis = "horizontal" THEN 1 ELSE 2],
                                  Whole(sign * HALF * tilt))
            IN  /\ \E d \in Distances(axis) : AtMost(d, measured)
                /\ \E d \in Distances(axis) : AtMost(measured, d)

(* Every configuration of the images has one entry, and the entries are in *)
(* ascending order, whatever the order of the hash map; the parameters are *)
(* those of the first image with the configuration.                        *)
LensComplete ==
    pc = "store" =>
        /\ {entry[1] : entry \in ToSet(data.lens)} = {Configuration(g) : g \in DOMAIN pointGridList}
        /\ \A j \in DOMAIN data.lens : \E g \in DOMAIN pointGridList :
              /\ data.lens[j] = <<Configuration(g), LensParameters(estimateCameraMatrix(Lenses[g]), NoDistortion)>>
              /\ \A h \in 1..(g - 1) : Configuration(h) # Configuration(g)
        /\ \A j, k \in DOMAIN data.lens : j < k =>
              LET a == data.lens[j][1]
                  b == data.lens[k][1]
              IN  a.zoom < b.zoom \/ (a.zoom = b.zoom /\ a.focus < b.focus)

(* What is read back is what was stored, except that a position or         *)
(* translation which is not a number has become zero.                      *)
RoundTrip ==
    LET number(r) == IF Defined(r) THEN r ELSE Zero
        list(lines) == [n \in DOMAIN lines |-> [lines[n] EXCEPT !.position = number(@)]]
    IN  pc = "done" =>
            restored = [data EXCEPT
                !.array = [grid |-> [horizontal |-> list(@.grid.horizontal),
                                     vertical |-> list(@.grid.vertical)],
                           translation |-> [k \in 1..2 |-> number(@.translation[k])],
                           rotation |-> number(@.rotation)]]

(* Nothing is lost between calibrate and the program that reads its file:  *)
(* every lens configuration is there, and comes back from JSON.            *)
DataRestored == LensComplete /\ RoundTrip

(* A light-field image made with these data has a pixel for every lens of  *)
(* an array whose lines take turns in belonging to the two subgrids, and   *)
(* each pixel is taken from exactly one lens.  With an odd number of       *)
(* vertical lines, and only then, the samples of the last of them go one   *)
(* row too far: they replace the first pixel of the next row, or, below    *)
(* the last row, are written past the end of the image.                    *)
SamplesPlaced ==
    LET grid == restored.array.grid
        last == Len(grid.vertical)
        turns(lines) == \A n \in 1..(Len(lines) - 1) : lines[n].subgrid # lines[n + 1].subgrid
        same(v, h) == grid.vertical[v].subgrid = grid.horizontal[h].subgrid
    IN  pc = "done" =>
            /\ \A c \in Outside(grid) :
                  c[1] = last /\ last % 2 = 1 /\ (c[2] = Len(grid.horizontal) \/ last = 1)
            /\ turns(grid.vertical) =>
                  \A pixel \in ImagePixels(grid) :
                      IF last % 2 = 1 /\ pixel[1] = 0 /\ pixel[2] > 0 /\ same(last, pixel[2])
                      THEN Shown(grid, pixel) = <<last, pixel[2]>>
                      ELSE \E v \in {2 * pixel[1] + 1, 2 * pixel[1] + 2} :
                              /\ SourcesOf(grid, pixel) = {<<v, pixel[2] + 1>>}
                              /\ same(v, pixel[2] + 1)
=============================================================================
