------------------------------ MODULE GridMath ------------------------------
(***************************************************************************)
(* Line grids (lib/calibration/linegrid.cpp), their average with the       *)
(* mapping of line indices to it (gridmath.cpp, gridmapper.cpp), and the   *)
(* averages over lines and grids that Calibrator::calibrate takes          *)
(* (calibrator.cpp, mathutil.h).                                           *)
(*                                                                         *)
(* A point grid is given by its lines, each with a subgrid and the         *)
(* coordinates of its points: x for horizontal lines, y for vertical ones. *)
(* Indices start at 1.                                                     *)
(***************************************************************************)
EXTENDS Rationals, Ordering, Sequences, FiniteSets, SequencesExt

CONSTANTS
    LIMIT_HORIZONTAL,   \* 17 pixels in the code
    LIMIT_VERTICAL      \* 8 pixels

ASSUME LimitAssumption ==
    \A limit \in {LIMIT_HORIZONTAL, LIMIT_VERTICAL} : limit \in [num : Nat \ {0}, den : Nat \ {0}]

Axes == {"horizontal", "vertical"}
LIMIT(axis) == IF axis = "horizontal" THEN LIMIT_HORIZONTAL ELSE LIMIT_VERTICAL

SumOf(values) ==
    LET sum[n \in 0..Len(values)] == IF n = 0 THEN Zero ELSE Plus(sum[n - 1], values[n])
    IN  sum[Len(values)]

MeanOf(values) == Over(SumOf(values), Len(values))
MeanOfPoints(line) == MeanOf([n \in DOMAIN line |-> Whole(line[n])])

-----------------------------------------------------------------------------
(* LineGrid(pointGrid): a line is as far out as the points in its middle   *)
(* third are on average.  Of a vertical line every other point counts.  A  *)
(* line of one point has no middle third, and PointGrid keeps lines all of *)
(* whose points it removed.                                                *)

MiddleThird(line) == SubSeq(line, Len(line) \div 3 + 1, (2 * Len(line)) \div 3)

EveryOther(line) ==
    LET third == Len(line) \div 3
        start == third - (third % 2)
    IN  [n \in 1..(((2 * Len(line)) \div 3 - start + 1) \div 2) |-> line[start + 2 * n - 1]]

LineGridOf(pointGrid) ==
    [axis \in Axes |-> [n \in DOMAIN pointGrid[axis] |->
        LET line == pointGrid[axis][n].line
        IN  [subgrid |-> pointGrid[axis][n].subgrid,
             position |-> MeanOfPoints(IF axis = "horizontal" THEN MiddleThird(line) ELSE EveryOther(line))]]]

NoLines == [axis \in Axes |-> << >>]

-----------------------------------------------------------------------------
(* LineMap: the entries of a std::map, whose keys are the positions of     *)
(* their lines.                                                            *)

LineEntry(line, referee) == [line |-> line, counter |-> 1, referees |-> <<referee>>]

(* emplace: no effect if the map has an equivalent key.  NaN is neither    *)
(* less nor greater than any key, so that it counts as equivalent to all.  *)
Emplace(map, entry) ==
    LET key == entry.line.position
        equivalent(k) == ~Less(k, key) /\ ~Less(key, k)
    IN  IF \E e \in map : equivalent(e.line.position) THEN map ELSE map \union {entry}

(* lower_bound and the entry in front of it: the entry next to a position, *)
(* the one below if it is strictly closer.                                 *)
Nearest(map, entry, position) ==
    \A e \in map \ {entry} :
        LET diff(f) == Gap(f.line.position, position)
        IN  \/ Less(diff(entry), diff(e))
            \/ AtMost(diff(entry), diff(e)) /\ AtMost(position, entry.line.position)

(* Wrong variant of Merged: the mean of the entry and the line. *)
MergedPlain(entry, line, referee) ==
    [line |-> [entry.line EXCEPT !.position = Over(Plus(@, line.position), 2)],
     counter |-> entry.counter + 1,
     referees |-> Append(entry.referees, referee)]

(* The average of all lines of the entry and one more. *)
Merged(entry, line, referee) ==
    [line |-> [entry.line EXCEPT !.position =
                  Over(Plus(Times(Whole(entry.counter), @), line.position), entry.counter + 1)],
     counter |-> entry.counter + 1,
     referees |-> Append(entry.referees, referee)]

(* Wrong variant of Within: lines on the limit are merged as well. *)
WithinWide(map, line, limit) ==
    {e \in map : Nearest(map, e, line.position) /\ AtMost(Gap(e.line.position, line.position), limit)}

(* The entry a line is merged with, if it is near enough. *)
Within(map, line, limit) ==
    {e \in map : Nearest(map, e, line.position) /\ Less(Gap(e.line.position, line.position), limit)}

(* The map must not be empty: its end would be read. *)
insertLine(map, line, referee, limit) ==
    IF Within(map, line, limit) = {} THEN Emplace(map, LineEntry(line, referee))
    ELSE LET e == CHOOSE e \in Within(map, line, limit) : TRUE
         IN  Emplace(map \ {e}, Merged(e, line, referee))

(* Entries seen more often than half the number of grids, by their keys. *)
Kept(map, size) == {e \in map : e.counter > size \div 2}
Ascending(map) ==
    Arranged(map, {p \in map \X map : Less(p[1].line.position, p[2].line.position)})
KeptLines(map, size) == Ascending(Kept(map, size))

(* The mapping of the lines of one grid: the index of the entry that was   *)
(* kept and has the line among its referees.  What was not kept stays at   *)
(* the value GridMapper's vectors start with, the first index.             *)
Mapping(kept, grid, count) ==
    [n \in 1..count |->
        LET homes == {k \in DOMAIN kept : <<grid, n>> \in ToSet(kept[k].referees)}
        IN  IF homes = {} THEN 1 ELSE CHOOSE k \in homes : \A l \in homes : l <= k]

MappersOf(maps, grids) ==
    [g \in DOMAIN grids |->
        [axis \in Axes |-> Mapping(KeptLines(maps[axis], Len(grids)), g, Len(grids[g][axis]))]]

TargetOf(maps, grids) ==
    [axis \in Axes |-> LET kept == KeptLines(maps[axis], Len(grids))
                       IN  [k \in DOMAIN kept |-> kept[k].line]]

-----------------------------------------------------------------------------
(* filteredAverage(values, 2.0): the mean of the values that are at most   *)
(* two sigma from the mean.  Not a number if there is none.                *)

Square(p) == Times(p, p)

(* Where the values are that are not filtered out. *)
Near(values) ==
    LET EX == MeanOf(values)
        EX2 == MeanOf([k \in DOMAIN values |-> Square(values[k])])
        limit == Times(Whole(4), Minus(EX2, Square(EX)))
    IN  {k \in DOMAIN values : AtMost(Square(Minus(values[k], EX)), limit)}

filteredAverage(values) ==
    LET near == Near(values)
        order == Arranged(near, {p \in near \X near : p[1] < p[2]})
    IN  MeanOf([n \in DOMAIN order |-> values[order[n]]])
=============================================================================
