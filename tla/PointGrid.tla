----------------------------- MODULE PointGrid ------------------------------
(***************************************************************************)
(* Lyli::Calibration::PointGrid (lib/calibration/pointgrid.cpp): joins the *)
(* lens centroids found in an image to horizontal and vertical lines.      *)
(*                                                                         *)
(* LensDetector scans the image row by row and adds the centroids in that  *)
(* order; finalize sweeps over them.  It starts in the first third, builds *)
(* new lines from a few points there, extends them with the points that    *)
(* follow and then, backwards, with those that precede.  A second sweep    *)
(* over the horizontal lines yields the vertical ones, separately for the  *)
(* lines of even and odd index, as the lens array is hexagonal.  Points    *)
(* that are not on both kinds of lines are thrown away.                    *)
(*                                                                         *)
(* Positions are integers.  The input is a lattice of lenses, scanned in   *)
(* order, of which up to MaxDefects are missing or out of place.           *)
(***************************************************************************)
EXTENDS Ordering, Sequences, SequencesExt

CONSTANTS
    Lattice,        \* the lenses in scan order: records of x, y, column and row
    ImageSizes,     \* how many of them an image may show
    Shifts,         \* displacements of a centroid: records of x and y
    MaxDefects,     \* bound on the lenses that are missing or displaced
    MAX_DIFF,       \* 3 pixels in the code
    CONSTRUCT_LIM,  \* 20 pixels in the code
    Header          \* number of lines that vertical lines are built from, 6 in the code

ASSUME PointGridAssumption ==
    /\ Lattice \in Seq([x : Int, y : Int, column : Int, row : Int])
    /\ Shifts \subseteq [x : Int, y : Int]
    /\ MaxDefects \in Nat /\ MAX_DIFF \in Nat /\ CONSTRUCT_LIM \in Nat \ {0}
    /\ Header \in Nat \ {0, 1}

VARIABLES
    scanned,        \* number of lenses the scan has passed
    defects,        \* number of those that were missing or displaced
    accumulator,    \* the points in the order in which they were added
    storage,        \* the points that are kept, as positions in accumulator
    phase,          \* where finalize is
    i,              \* its loop variable, counted from 1
    j,              \* its inner loop variable
    lineMap,        \* tmpLineMap
    lineMapOdd,     \* tmpLineMapOdd
    lineMapEven,    \* tmpLineMapEven
    linesHorizontal,
    linesVertical,
    horizontalLine, \* the index of the horizontal line of every point
    verticalLine    \* the index of its vertical line

points == <<scanned, defects, accumulator>>
maps == <<lineMap, lineMapOdd, lineMapEven>>
lines == <<linesHorizontal, linesVertical, horizontalLine, verticalLine>>
vars == <<points, storage, phase, i, j, maps, lines>>

Init ==
    /\ scanned = 0 /\ defects = 0 /\ accumulator = << >> /\ storage = {}
    /\ phase = "add" /\ i = 0 /\ j = 1
    /\ lineMap = << >> /\ lineMapOdd = << >> /\ lineMapEven = << >>
    /\ linesHorizontal = << >> /\ linesVertical = << >>
    /\ horizontalLine = << >> /\ verticalLine = << >>

-----------------------------------------------------------------------------
(* Line maps: a std::map from the position of a line to its points.        *)

Distance(a, b) == IF a < b THEN b - a ELSE a - b

(* The key closest to a position: the one above unless that below is       *)
(* strictly closer.                                                        *)
Closest(map, position) ==
    CHOOSE k \in DOMAIN map :
        \A l \in DOMAIN map \ {k} :
            \/ Distance(k, position) < Distance(l, position)
            \/ Distance(k, position) = Distance(l, position) /\ k > l

(* The point joins the line with this key, whose key becomes its position. *)
Join(map, key, position, point) ==
    [k \in (DOMAIN map \ {key}) \union {position} |->
        IF k = position THEN Append(map[key], point) ELSE map[k]]

NewLine(map, position, point) ==
    [k \in DOMAIN map \union {position} |->
        IF k = position THEN <<point>> ELSE map[k]]

(* Wrong variant of mapAddConstruct: a line takes points of its position only. *)
mapAddConstructExact(map, position, point) ==
    IF position \notin DOMAIN map
    THEN NewLine(map, position, point)
    ELSE Join(map, position, position, point)

mapAddConstruct(map, position, point) ==
    IF DOMAIN map = {} \/ Distance(Closest(map, position), position) > MAX_DIFF
    THEN NewLine(map, position, point)
    ELSE Join(map, Closest(map, position), position, point)

(* Wrong variant of mapAdd: half the tolerance. *)
mapAddTight(map, position, point) ==
    LET key == Closest(map, position) IN
    IF Distance(key, position) < MAX_DIFF \div 2
    THEN Join(map, key, position, point) ELSE map

mapAdd(map, position, point) ==
    IF Distance(Closest(map, position), position) < MAX_DIFF
    THEN Join(map, Closest(map, position), position, point) ELSE map

(* Every line gets the position of its first point as its key.  Of several *)
(* lines with the same first position only the first one is inserted.      *)
FirstPointKeys(map, axis) ==
    LET front(k) == accumulator[map[k][1]][axis] IN
    [f \in {front(k) : k \in DOMAIN map} |->
        map[CHOOSE k \in DOMAIN map :
               front(k) = f /\ \A l \in DOMAIN map : front(l) = f => k <= l]]

(* The numbers of a set in ascending order. *)
Ascending(S) == Arranged(S, {p \in S \X S : p[1] < p[2]})

(* The points of a line at these positions, in this order. *)
Picked(line, order) == [n \in DOMAIN order |-> line[order[n]]]

(* std::sort; it leaves the order of equal coordinates open, here it is    *)
(* the one in which the points have joined the line.                       *)
Sorted(line, axis) ==
    LET at(n) == accumulator[line[n]][axis]
        before == {p \in (DOMAIN line) \X (DOMAIN line) :
                      at(p[1]) < at(p[2]) \/ (at(p[1]) = at(p[2]) /\ p[1] < p[2])}
    IN  Picked(line, Arranged(DOMAIN line, before))

X(p) == accumulator[p].x
Y(p) == accumulator[p].y
-----------------------------------------------------------------------------
(* addPoint: the centroid of the next lens, perhaps displaced. *)
AddPoint(shift) ==
    /\ phase = "add"
    /\ scanned < Len(Lattice)
    /\ defects' = IF shift = [x |-> 0, y |-> 0] THEN defects ELSE defects + 1
    /\ defects' <= MaxDefects
    /\ scanned' = scanned + 1
    /\ accumulator' = Append(accumulator,
          LET lens == Lattice[scanned + 1]
          IN  [x |-> lens.x + shift.x, y |-> lens.y + shift.y,
               column |-> lens.column, row |-> lens.row])
    /\ storage' = storage \union {Len(accumulator) + 1}
    /\ UNCHANGED <<phase, i, j, maps, lines>>

(* The next lens is too dark to be detected. *)
MissLens ==
    /\ phase = "add"
    /\ scanned < Len(Lattice)
    /\ defects < MaxDefects
    /\ scanned' = scanned + 1
    /\ defects' = defects + 1
    /\ UNCHANGED <<accumulator, storage, phase, i, j, maps, lines>>

(* accumulator.size() / 3, counted from 1 *)
ConstructStart == Len(accumulator) \div 3 + 1

(* finalize reads the point it starts from, also if there is none. *)
Finalize ==
    /\ phase = "add"
    /\ scanned \in ImageSizes
    /\ phase' = IF accumulator = << >> THEN "undefined" ELSE "construct"
    /\ i' = ConstructStart
    /\ UNCHANGED <<points, storage, j, maps, lines>>

(* Lines are constructed from the points near the start.  The loop does    *)
(* not look for the end of the accumulator.                                *)
ConstructPoint ==
    /\ phase = "construct"
    /\ IF i > Len(accumulator)
       THEN phase' = "undefined" /\ UNCHANGED <<i, lineMap>>
       ELSE IF Y(i) < Y(ConstructStart) + CONSTRUCT_LIM
       THEN /\ lineMap' = mapAddConstruct(lineMap, X(i), i)
            /\ i' = i + 1
            /\ UNCHANGED phase
       ELSE phase' = "follow" /\ UNCHANGED <<i, lineMap>>
    /\ UNCHANGED <<points, storage, j, lineMapOdd, lineMapEven, lines>>

(* The following points are added to the lines; then the keys are changed  *)
(* to those of the first points.                                           *)
FollowPoint ==
    /\ phase = "follow"
    /\ IF i <= Len(accumulator)
       THEN /\ lineMap' = mapAdd(lineMap, X(i), i)
            /\ i' = i + 1
            /\ UNCHANGED phase
       ELSE /\ lineMap' = FirstPointKeys(lineMap, "x")
            /\ i' = ConstructStart
            /\ phase' = "precede"
    /\ UNCHANGED <<points, storage, j, lineMapOdd, lineMapEven, lines>>

(* The preceding points are added in reverse, beginning with the point the *)
(* construction has started from.                                          *)
PrecedePoint ==
    /\ phase = "precede"
    /\ i > 0
    /\ lineMap' = mapAdd(lineMap, X(i), i)
    /\ i' = i - 1
    /\ UNCHANGED <<points, storage, phase, j, lineMapOdd, lineMapEven, lines>>

(* Wrong variant of VerticalStart: the last third. *)
VerticalStartLate(n) == (2 * n) \div 3 + 1

(* linesHorizontal.size() / 3, counted from 1 *)
VerticalStart(n) == n \div 3 + 1

(* The horizontal lines are sorted and stored in the order of their keys. *)
StoreHorizontal ==
    /\ phase = "precede"
    /\ i = 0
    /\ LET keys == Ascending(DOMAIN lineMap) IN
       linesHorizontal' = [n \in DOMAIN keys |->
           [subgrid |-> IF n % 2 = 1 THEN "A" ELSE "B",
            line |-> Sorted(lineMap[keys[n]], "y")]]
    /\ phase' = "vconstruct"
    /\ i' = VerticalStart(Cardinality(DOMAIN lineMap))
    /\ lineMap' = << >>
    /\ UNCHANGED <<points, storage, j, lineMapOdd, lineMapEven, linesVertical,
                   horizontalLine, verticalLine>>

(* verticalLineConstructor: point j of horizontal line i goes to the map   *)
(* of the line's parity.  Indices start at 0 in the code: line 1 is an     *)
(* "odd" one.  After its last point the loop moves by step.                *)
AddLinePoint(construct, step) ==
    LET line == linesHorizontal[i].line
        p == line[j]
        Add(map) == IF construct THEN mapAddConstruct(map, Y(p), p) ELSE mapAdd(map, Y(p), p)
    IN  IF j > Len(line)
        THEN i' = i + step /\ j' = 1 /\ UNCHANGED <<lineMapOdd, lineMapEven>>
        ELSE /\ j' = j + 1
             /\ lineMapOdd' = IF i % 2 = 1 THEN Add(lineMapOdd) ELSE lineMapOdd
             /\ lineMapEven' = IF i % 2 = 0 THEN Add(lineMapEven) ELSE lineMapEven
             /\ UNCHANGED i

(* Vertical lines are constructed from Header lines, as many as there may be. *)
ConstructLine ==
    /\ phase = "vconstruct"
    /\ IF i = VerticalStart(Len(linesHorizontal)) + Header
       THEN phase' = "vfollow" /\ UNCHANGED <<i, j, lineMapOdd, lineMapEven>>
       ELSE IF i > Len(linesHorizontal)
       THEN phase' = "undefined" /\ UNCHANGED <<i, j, lineMapOdd, lineMapEven>>
       ELSE AddLinePoint(TRUE, 1) /\ UNCHANGED phase
    /\ UNCHANGED <<points, storage, lineMap, lines>>

(* The points of the following lines are added, and the keys are changed. *)
FollowLine ==
    /\ phase = "vfollow"
    /\ IF i <= Len(linesHorizontal)
       THEN AddLinePoint(FALSE, 1) /\ UNCHANGED phase
       ELSE /\ lineMapOdd' = FirstPointKeys(lineMapOdd, "y")
            /\ lineMapEven' = FirstPointKeys(lineMapEven, "y")
            /\ i' = VerticalStart(Len(linesHorizontal))
            /\ phase' = "vprecede"
            /\ UNCHANGED j
    /\ UNCHANGED <<points, storage, lineMap, lines>>

(* The preceding lines, in reverse and beginning with the first one again. *)
PrecedeLine ==
    /\ phase = "vprecede"
    /\ i > 0
    /\ AddLinePoint(FALSE, -1)
    /\ UNCHANGED <<points, storage, phase, lineMap, lines>>

(* The lines of both maps are merged in the order of their keys; of two    *)
(* equal keys the even line comes first.                                   *)
Merged ==
    LET keys == ((DOMAIN lineMapEven) \X {"B"}) \union ((DOMAIN lineMapOdd) \X {"A"})
        before == {p \in keys \X keys :
                      p[1][1] < p[2][1] \/ (p[1][1] = p[2][1] /\ p[1][2] = "B" /\ p[2][2] = "A")}
        order == Arranged(keys, before)
    IN  [n \in DOMAIN order |->
            [subgrid |-> order[n][2],
             line |-> Sorted((IF order[n][2] = "A" THEN lineMapOdd ELSE lineMapEven)[order[n][1]],
                             "x")]]

StoreVertical ==
    /\ phase = "vprecede"
    /\ i = 0
    /\ linesVertical' = Merged
    /\ lineMapOdd' = << >> /\ lineMapEven' = << >>
    /\ phase' = "remove"
    /\ UNCHANGED <<points, storage, i, j, lineMap, linesHorizontal, horizontalLine,
                   verticalLine>>

(* The points on some line of a list. *)
On(list) == UNION {ToSet(list[n].line) : n \in DOMAIN list}

(* Wrong variant of RemovePoints: points on no vertical line stay in their *)
(* horizontal line.                                                        *)
RemovePointsOnce ==
    /\ phase = "remove"
    /\ storage' = storage \intersect On(linesHorizontal) \intersect On(linesVertical)
    /\ phase' = "link"
    /\ UNCHANGED <<points, i, j, maps, lines>>

(* Points that are on no horizontal line are removed from the storage,     *)
(* those on no vertical line from their horizontal line, too.              *)
RemovePoints ==
    /\ phase = "remove"
    /\ linesHorizontal' = [n \in DOMAIN linesHorizontal |->
          [linesHorizontal[n] EXCEPT !.line =
              Picked(@, Ascending({m \in DOMAIN @ : @[m] \in On(linesVertical)}))]]
    /\ storage' = storage \intersect On(linesHorizontal) \intersect On(linesVertical)
    /\ phase' = "link"
    /\ UNCHANGED <<points, i, j, maps, linesVertical, horizontalLine, verticalLine>>

(* The last line of a list that holds the point; 0 if there is none. *)
LastLine(list, p) ==
    LET holding == {n \in DOMAIN list : p \in ToSet(list[n].line)}
    IN  IF holding = {} THEN 0 ELSE Max(holding)

(* The points are linked to their lines. *)
SetLinks ==
    /\ phase = "link"
    /\ verticalLine' = [p \in storage |-> LastLine(linesVertical, p)]
    /\ horizontalLine' = [p \in storage |-> LastLine(linesHorizontal, p)]
    /\ phase' = "done"
    /\ UNCHANGED <<points, storage, i, j, maps, linesHorizontal, linesVertical>>

(* The copy constructor: the points of the lines are looked up among the   *)
(* copies of the stored points; 0 is the null pointer.                     *)
Copy ==
    /\ phase = "done"
    /\ LET copied(list) == [n \in DOMAIN list |->
               [list[n] EXCEPT !.line =
                   [m \in DOMAIN @ |-> IF @[m] \in storage THEN @[m] ELSE 0]]]
       IN  /\ linesHorizontal' = copied(linesHorizontal)
           /\ linesVertical' = copied(linesVertical)
    /\ phase' = "copied"
    /\ UNCHANGED <<points, storage, i, j, maps, horizontalLine, verticalLine>>

Next ==
    \/ \E shift \in Shifts : AddPoint(shift)
    \/ MissLens
    \/ Finalize \/ ConstructPoint \/ FollowPoint \/ PrecedePoint \/ StoreHorizontal
    \/ ConstructLine \/ FollowLine \/ PrecedeLine \/ StoreVertical
    \/ RemovePoints \/ SetLinks \/ Copy

Spec == Init /\ [][Next]_vars

-----------------------------------------------------------------------------
Ids == 1..Len(accumulator)
Finished == phase \in {"done", "copied"}
CompleteImage == scanned = Len(Lattice)

(* Lines of all columns are built from the points near the start. *)
HeaderComplete ==
    {Lattice[n].column : n \in DOMAIN Lattice} =
        {accumulator[p].column : p \in {p \in Ids : p >= ConstructStart
                                         /\ Y(p) < Y(ConstructStart) + CONSTRUCT_LIM}}

(* Whatever points were added: in the finished grid, and in its copy, the  *)
(* points that are kept are those of the horizontal lines and those of the *)
(* vertical lines, so that no line refers to a point that was erased; each *)
(* is on one horizontal line only, and its indices name lines it is on.    *)
OnBothLines ==
    Finished =>
        /\ On(linesHorizontal) = storage
        /\ On(linesVertical) = storage
        /\ \A p \in storage :
              /\ {n \in DOMAIN linesHorizontal : p \in ToSet(linesHorizontal[n].line)}
                    = {horizontalLine[p]}
              /\ verticalLine[p] \in DOMAIN linesVertical
              /\ p \in ToSet(linesVertical[verticalLine[p]].line)

(* Lines cross in points of their own subgrid only: of the hexagonal       *)
(* array, a vertical line has the lenses of every second horizontal line.  *)
SubgridsAgree ==
    Finished =>
        \A n \in DOMAIN linesHorizontal, m \in DOMAIN linesVertical :
            ToSet(linesHorizontal[n].line) \intersect ToSet(linesVertical[m].line) # {} =>
                linesHorizontal[n].subgrid = linesVertical[m].subgrid

(* The lines of a list have their points in the order of this coordinate. *)
Ordered(list, axis) ==
    \A n \in DOMAIN list : \A m, k \in DOMAIN list[n].line :
        m < k => accumulator[list[n].line[m]][axis] <= accumulator[list[n].line[k]][axis]

(* finalize and the copy constructor leave a consistent grid: points and   *)
(* lines refer to each other, none to a point that was erased, lines cross *)
(* within their subgrid, and their points are in order although they grow  *)
(* at both ends and some points are added twice.                           *)
GridConsistent ==
    /\ OnBothLines /\ SubgridsAgree
    /\ Finished => Ordered(linesHorizontal, "y") /\ Ordered(linesVertical, "x")

-----------------------------------------------------------------------------
(* The points whose lens was found elsewhere, and the others near a point. *)
Displaced == {p \in Ids : \A n \in DOMAIN Lattice : Lattice[n] # accumulator[p]}
Around(p) ==
    {q \in Ids \ {p} : /\ Distance(accumulator[q].column, accumulator[p].column) <= 2
                       /\ Distance(accumulator[q].row, accumulator[p].row) <= 2}

(* Whether the position of a point still tells its line: the points around *)
(* it that are within the tolerance are those of its line.                 *)
InPlace(p, axis, line) ==
    \A q \in Around(p) :
        LET distance == Distance(accumulator[p][axis], accumulator[q][axis])
        IN  IF accumulator[p][line] = accumulator[q][line]
            THEN distance < MAX_DIFF ELSE distance > MAX_DIFF
InColumn(p) == InPlace(p, "x", "column")
InRow(p) == InPlace(p, "y", "row")

(* Horizontal lines are the columns of the (transposed) image and in their *)
(* order, vertical lines are its rows, unless a lens is so far out of      *)
(* place that it tells another line.  A column none of whose lenses was    *)
(* found near the start has no line; that loss is not made good.           *)
LinesMatch ==
    Finished /\ CompleteImage /\ HeaderComplete /\ (\A p \in Displaced : InColumn(p) /\ InRow(p)) =>
        \A p, q \in storage :
            /\ horizontalLine[p] < horizontalLine[q] <=>
                  accumulator[p].column < accumulator[q].column
            /\ verticalLine[p] < verticalLine[q] <=>
                  accumulator[p].row < accumulator[q].row

(* No point is on two vertical lines, although those of the first line are *)
(* added a second time after the keys were changed, ...                    *)
OneVerticalLine ==
    Finished => \A p \in storage :
        {n \in DOMAIN linesVertical : p \in ToSet(linesVertical[n].line)} = {verticalLine[p]}

(* ... and lines have their points in the order of the lenses.             *)
LinesInOrder ==
    Finished /\ CompleteImage => Ordered(linesHorizontal, "row") /\ Ordered(linesVertical, "column")

(* The sweep recovers the lattice of the lenses. *)
LatticeRecovered == LinesMatch /\ OneVerticalLine /\ LinesInOrder

(* If every lens was found, lenses that are out of place cost points near  *)
(* them only, and none as long as their positions tell their lines.  The   *)
(* key of a line follows its points, so that the next ones may be out of   *)
(* its reach: a lens too far up or down costs points of its own image row; *)
(* one too far aside costs points of its column and, as these may join the *)
(* line beside, of the columns next to it.                                 *)
LossConfined ==
    Finished /\ Len(accumulator) = Len(Lattice) =>
        \A p \in Ids \ storage : \E q \in Displaced :
            \/ ~InRow(q) /\ accumulator[p].row = accumulator[q].row
            \/ ~InColumn(q) /\ Distance(accumulator[p].column, accumulator[q].column) <= 1

(* In a complete image no loop of finalize leaves the points or lines it   *)
(* runs over.                                                              *)
CompleteImageDefined == CompleteImage => phase # "undefined"
=============================================================================
