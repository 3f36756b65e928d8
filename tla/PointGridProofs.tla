-------------------------- MODULE PointGridProofs ---------------------------
(***************************************************************************)
(* Theorems about PointGrid, for any points in any order: what finalize    *)
(* leaves is a consistent grid, and so is its copy.                        *)
(***************************************************************************)
EXTENDS PointGrid, FiniteSetTheorems, SequenceTheorems, WellFoundedInduction, NaturalsInduction, TLAPS

LEMMA LeastNat ==
    ASSUME NEW T \in SUBSET Nat, T # {}
    PROVE  \E n \in T : \A m \in T : n <= m
<1> DEFINE R == {ss \in Nat \X Nat : ss[1] < ss[2]}
<1>1. IsWellFoundedOn(R, Nat)
    BY NatLessThanWellFounded, Zenon DEF OpToRel
<1> HIDE DEF R
<1>2. PICK n \in T : \A m \in T : ~(<<m, n>> \in R)
    BY <1>1, WFMin
<1>3. \A m \in T : ~(m < n)
    BY <1>2 DEF R
<1> QED
    BY <1>3

(* The order of the elements of a finite set. *)

StrictOrder(S, below) ==
    /\ \A e \in S : <<e, e>> \notin below
    /\ \A e, f, g \in S : <<e, f>> \in below /\ <<f, g>> \in below => <<e, g>> \in below
    /\ \A e, f \in S : e # f => <<e, f>> \in below \/ <<f, e>> \in below

(* An element that comes before another one has a lower rank. *)
LEMMA RankGrows ==
    ASSUME NEW S, IsFiniteSet(S), NEW below, StrictOrder(S, below), NEW e \in S
    PROVE  /\ Rank(S, below, e) \in 0..(Cardinality(S) - 1)
           /\ \A f \in S : <<e, f>> \in below => Rank(S, below, e) < Rank(S, below, f)
<1> DEFINE before(f) == {d \in S : <<d, f>> \in below}
<1>1. \A f \in S : IsFiniteSet(before(f)) /\ Cardinality(before(f)) \in Nat
  <2> SUFFICES ASSUME NEW f \in S PROVE IsFiniteSet(before(f)) /\ Cardinality(before(f)) \in Nat
    OBVIOUS
  <2>1. before(f) \in SUBSET S
    OBVIOUS
  <2> HIDE DEF before
  <2>2. IsFiniteSet(before(f))
    BY <2>1, FS_Subset
  <2> QED
    BY <2>2, FS_CardinalityType
<1>2. \A f \in S : Rank(S, below, f) = Cardinality(before(f))
  BY DEF Rank
<1>3. Cardinality(before(e)) < Cardinality(S)
  <2>1. before(e) \in SUBSET S /\ e \notin before(e)
    BY DEF StrictOrder
  <2> HIDE DEF before
  <2>2. Cardinality(before(e)) <= Cardinality(S) /\ (Cardinality(S) = Cardinality(before(e)) => S = before(e))
    BY <2>1, FS_Subset
  <2>3. Cardinality(S) \in Nat
    BY FS_CardinalityType
  <2> QED
    BY <1>1, <2>1, <2>2, <2>3
<1>4. ASSUME NEW f \in S, <<e, f>> \in below
      PROVE  Cardinality(before(e)) < Cardinality(before(f))
  <2>1. before(e) \in SUBSET before(f) /\ e \in before(f) /\ e \notin before(e)
    BY <1>4 DEF StrictOrder
  <2> HIDE DEF before
  <2>2. /\ Cardinality(before(e)) <= Cardinality(before(f))
        /\ Cardinality(before(f)) = Cardinality(before(e)) => before(f) = before(e)
    BY <1>1, <2>1, FS_Subset
  <2> QED
    BY <1>1, <2>1, <2>2
<1>5. Cardinality(S) \in Nat
  BY FS_CardinalityType
<1> HIDE DEF before
<1> QED
  BY <1>1, <1>2, <1>3, <1>4, <1>5

(* Every place is taken by one element. *)
LEMMA ArrangedOrder ==
    ASSUME NEW S, IsFiniteSet(S), NEW below, StrictOrder(S, below)
    PROVE  /\ Cardinality(S) \in Nat
           /\ Arranged(S, below) \in [1..Cardinality(S) -> S]
           /\ \A k \in 1..Cardinality(S) : Rank(S, below, Arranged(S, below)[k]) = k - 1
           /\ \A k, l \in 1..Cardinality(S) :
                 k < l => <<Arranged(S, below)[k], Arranged(S, below)[l]>> \in below
           /\ \A e \in S : /\ Rank(S, below, e) + 1 \in 1..Cardinality(S)
                           /\ Arranged(S, below)[Rank(S, below, e) + 1] = e
<1> DEFINE rank == [e \in S |-> Rank(S, below, e)]
           T == 0..(Cardinality(S) - 1)
           place == Arranged(S, below)
<1>1. Cardinality(S) \in Nat
  BY FS_CardinalityType
<1>2. IsFiniteSet(T) /\ Cardinality(T) = Cardinality(S)
  <2>1. IsFiniteSet(T) /\ Cardinality(T) = IF 0 > Cardinality(S) - 1 THEN 0 ELSE (Cardinality(S) - 1) - 0 + 1
    BY <1>1, FS_Interval
  <2> QED
    BY <1>1, <2>1
<1>3. \A e \in S : Rank(S, below, e) \in T
  BY RankGrows
<1>4. \A e, f \in S : e # f => Rank(S, below, e) # Rank(S, below, f)
  <2> SUFFICES ASSUME NEW e \in S, NEW f \in S, e # f PROVE Rank(S, below, e) # Rank(S, below, f)
    OBVIOUS
  <2>1. Rank(S, below, e) \in Int /\ Rank(S, below, f) \in Int
    BY <1>1, <1>3
  <2>2. CASE <<e, f>> \in below
    <3>1. Rank(S, below, e) < Rank(S, below, f)
      BY <2>2, RankGrows
    <3> QED
      BY <2>1, <3>1
  <2>3. CASE <<f, e>> \in below
    <3>1. Rank(S, below, f) < Rank(S, below, e)
      BY <2>3, RankGrows
    <3> QED
      BY <2>1, <3>1
  <2> QED
    BY <2>2, <2>3 DEF StrictOrder
<1>5. rank \in Injection(S, T)
  <2>1. rank \in [S -> T]
    BY <1>3
  <2>2. \A e, f \in S : rank[e] = rank[f] => e = f
    BY <1>4
  <2> HIDE DEF rank, T
  <2> QED
    BY <2>1, <2>2 DEF Injection, IsInjective
<1>6. rank \in Surjection(S, T)
  <2> HIDE DEF rank, T
  <2> QED
    BY <1>2, <1>5, FS_Injection
<1>7. \A n \in 1..Cardinality(S) : \E e \in S : Rank(S, below, e) = n - 1
  <2>1. \A t \in T : \E e \in S : rank[e] = t
    BY <1>6 DEF Surjection
  <2>2. \A n \in 1..Cardinality(S) : n - 1 \in T
    BY <1>1
  <2> QED
    BY <2>1, <2>2
<1>8. \A n \in 1..Cardinality(S) : place[n] \in S /\ Rank(S, below, place[n]) = n - 1
  BY <1>7 DEF Arranged
<1>9. place \in [1..Cardinality(S) -> S]
  BY <1>8 DEF Arranged
<1>10. ASSUME NEW k \in 1..Cardinality(S), NEW l \in 1..Cardinality(S), k < l
       PROVE  <<place[k], place[l]>> \in below
  <2> HIDE DEF place, rank
  <2>1. place[k] \in S /\ place[l] \in S /\ Rank(S, below, place[k]) = k - 1 /\ Rank(S, below, place[l]) = l - 1
    BY <1>8
  <2>2. place[k] # place[l]
    BY <1>1, <1>10, <2>1
  <2>3. CASE <<place[l], place[k]>> \in below
    <3>1. Rank(S, below, place[l]) < Rank(S, below, place[k])
      BY <2>1, <2>3, RankGrows
    <3> QED
      BY <1>1, <1>10, <2>1, <3>1
  <2> QED
    BY <2>1, <2>2, <2>3 DEF StrictOrder
<1>11. ASSUME NEW e \in S
       PROVE  Rank(S, below, e) + 1 \in 1..Cardinality(S) /\ place[Rank(S, below, e) + 1] = e
  <2> HIDE DEF place, rank
  <2>1. Rank(S, below, e) + 1 \in 1..Cardinality(S)
    BY <1>1, <1>3
  <2>2. Rank(S, below, place[Rank(S, below, e) + 1]) = Rank(S, below, e)
    BY <1>1, <1>3, <1>8, <2>1
  <2> QED
    BY <1>4, <1>8, <2>1, <2>2
<1> HIDE DEF place, rank, T
<1>12. place = Arranged(S, below)
  BY DEF place
<1> QED
  BY <1>1, <1>8, <1>9, <1>10, <1>11, <1>12

-----------------------------------------------------------------------------
(* Numbers in ascending order. *)

LEMMA AscendingOrder ==
    ASSUME NEW S \in SUBSET Int, IsFiniteSet(S)
    PROVE  /\ Cardinality(S) \in Nat
           /\ Ascending(S) \in [1..Cardinality(S) -> S]
           /\ \A n, m \in 1..Cardinality(S) : n < m => Ascending(S)[n] < Ascending(S)[m]
           /\ \A e \in S : \E n \in 1..Cardinality(S) : Ascending(S)[n] = e
<1> DEFINE below == {p \in S \X S : p[1] < p[2]}
<1>1. \A a, b \in S : <<a, b>> \in below <=> a < b
  OBVIOUS
<1>2. Ascending(S) = Arranged(S, below)
  BY DEF Ascending
<1> HIDE DEF below
<1>3. StrictOrder(S, below)
  BY <1>1 DEF StrictOrder
<1>4. /\ Cardinality(S) \in Nat
      /\ Arranged(S, below) \in [1..Cardinality(S) -> S]
      /\ \A n, m \in 1..Cardinality(S) : n < m => <<Arranged(S, below)[n], Arranged(S, below)[m]>> \in below
      /\ \A e \in S : /\ Rank(S, below, e) + 1 \in 1..Cardinality(S)
                       /\ Arranged(S, below)[Rank(S, below, e) + 1] = e
  BY <1>3, ArrangedOrder
<1>5. \A n \in 1..Cardinality(S) : Arranged(S, below)[n] \in S
  BY <1>4
<1> QED
  BY <1>1, <1>2, <1>4, <1>5

(* A finite set has a least and a greatest number. *)
LEMMA Extremes ==
    ASSUME NEW S \in SUBSET Int, IsFiniteSet(S), S # {}
    PROVE  /\ \E a \in S : \A e \in S : a <= e
           /\ \E b \in S : \A e \in S : e <= b
<1>1. /\ Cardinality(S) \in Nat
      /\ Ascending(S) \in [1..Cardinality(S) -> S]
      /\ \A n, m \in 1..Cardinality(S) : n < m => Ascending(S)[n] < Ascending(S)[m]
      /\ \A e \in S : \E n \in 1..Cardinality(S) : Ascending(S)[n] = e
  BY AscendingOrder
<1>2. Cardinality(S) >= 1
  <2>1. PICK e \in S : TRUE
    OBVIOUS
  <2>2. PICK n \in 1..Cardinality(S) : Ascending(S)[n] = e
    BY <1>1
  <2> QED
    BY <1>1, <2>2
<1>3. 1 \in 1..Cardinality(S) /\ Cardinality(S) \in 1..Cardinality(S)
  BY <1>1, <1>2
<1>4. \A e \in S : Ascending(S)[1] <= e /\ e <= Ascending(S)[Cardinality(S)]
  <2> SUFFICES ASSUME NEW e \in S PROVE Ascending(S)[1] <= e /\ e <= Ascending(S)[Cardinality(S)]
    OBVIOUS
  <2>1. PICK n \in 1..Cardinality(S) : Ascending(S)[n] = e
    BY <1>1
  <2>2. n = 1 \/ Ascending(S)[1] < e
    BY <1>1, <1>3, <2>1
  <2>3. n = Cardinality(S) \/ e < Ascending(S)[Cardinality(S)]
    BY <1>1, <1>3, <2>1
  <2>4. Ascending(S)[1] \in Int /\ Ascending(S)[Cardinality(S)] \in Int /\ e \in Int
    BY <1>1, <1>3
  <2> QED
    BY <2>1, <2>2, <2>3, <2>4
<1>5. Ascending(S)[1] \in S /\ Ascending(S)[Cardinality(S)] \in S
  BY <1>1, <1>3
<1> QED
  BY <1>4, <1>5

(* The points of a line at chosen places. *)

PointsAt(line, S) == {line[m] : m \in S}

(* What is picked from a line of P in an order that covers S. *)
PicksAll(line, S, order, n, P) ==
    /\ Picked(line, order) \in Seq(P)
    /\ DOMAIN Picked(line, order) = 1..n
    /\ \A k \in 1..n : Picked(line, order)[k] = line[order[k]]
    /\ ToSet(Picked(line, order)) = PointsAt(line, S)

LEMMA PickedLine ==
    ASSUME NEW P, NEW line \in Seq(P), NEW S \in SUBSET DOMAIN line, NEW n \in Nat,
           NEW order \in [1..n -> S], \A m \in S : \E k \in 1..n : order[k] = m
    PROVE  PicksAll(line, S, order, n, P)
<1>1. Picked(line, order) = [k \in 1..n |-> line[order[k]]]
  BY DEF Picked
<1>2. \A k \in 1..n : line[order[k]] \in P
  <2>1. \A m \in DOMAIN line : line[m] \in P
    BY ElementOfSeq
  <2> QED
    BY <2>1
<1>3. Picked(line, order) \in Seq(P) /\ DOMAIN Picked(line, order) = 1..n
  BY <1>1, <1>2
<1>4. \A k \in 1..n : Picked(line, order)[k] = line[order[k]]
  BY <1>1
<1>5. ToSet(Picked(line, order)) \subseteq PointsAt(line, S)
  <2> SUFFICES ASSUME NEW k \in 1..n PROVE Picked(line, order)[k] \in PointsAt(line, S)
    BY <1>3 DEF ToSet
  <2> QED
    BY <1>4 DEF PointsAt
<1>6. PointsAt(line, S) \subseteq ToSet(Picked(line, order))
  <2> SUFFICES ASSUME NEW m \in S PROVE line[m] \in ToSet(Picked(line, order))
    BY DEF PointsAt
  <2>1. PICK k \in 1..n : order[k] = m
    OBVIOUS
  <2> QED
    BY <1>3, <1>4, <2>1 DEF ToSet
<1> QED
  BY <1>3, <1>4, <1>5, <1>6 DEF PicksAll

Coordinates == [x : Int, y : Int, column : Int, row : Int]
Located == accumulator \in Seq(Coordinates)

LEMMA PositionType ==
    ASSUME Located, NEW p \in Ids
    PROVE  X(p) \in Int /\ Y(p) \in Int /\ \A axis \in {"x", "y"} : accumulator[p][axis] \in Int
<1>1. accumulator[p] \in Coordinates
  BY DEF Located, Ids
<1> QED
  BY <1>1 DEF X, Y, Coordinates

(* Sorting a line keeps its points. *)
LEMMA SortedLine ==
    ASSUME Located, NEW axis \in {"x", "y"}, NEW line \in Seq(Ids)
    PROVE  /\ Sorted(line, axis) \in Seq(Ids)
           /\ ToSet(Sorted(line, axis)) = ToSet(line)
           /\ \A n, m \in DOMAIN Sorted(line, axis) :
                 n < m => accumulator[Sorted(line, axis)[n]][axis] <= accumulator[Sorted(line, axis)[m]][axis]
<1> DEFINE S == DOMAIN line
           at(n) == accumulator[line[n]][axis]
           before == {p \in S \X S : at(p[1]) < at(p[2]) \/ (at(p[1]) = at(p[2]) /\ p[1] < p[2])}
           order == Arranged(S, before)
<1>1. S = 1..Len(line) /\ Len(line) \in Nat
  OBVIOUS
<1>2. IsFiniteSet(S) /\ S \subseteq Int
  BY <1>1, FS_Interval
<1>3. \A n \in S : at(n) \in Int
  <2>1. \A n \in S : line[n] \in Ids
    BY ElementOfSeq
  <2> QED
    BY <2>1, PositionType
<1>4. \A n, m \in S : <<n, m>> \in before <=> (at(n) < at(m) \/ (at(n) = at(m) /\ n < m))
  OBVIOUS
<1>5. Sorted(line, axis) = Picked(line, order)
  BY DEF Sorted
<1>6. ToSet(line) = PointsAt(line, S)
  BY DEF ToSet, PointsAt
<1> HIDE DEF S, before, at
<1>7. StrictOrder(S, before)
  <2>1. \A e, f \in S : e # f => <<e, f>> \in before \/ <<f, e>> \in before
    BY <1>2, <1>3, <1>4
  <2>2. \A e, f, g \in S : <<e, f>> \in before /\ <<f, g>> \in before => <<e, g>> \in before
    BY <1>2, <1>3, <1>4
  <2>3. \A e \in S : <<e, e>> \notin before
    BY <1>2, <1>3, <1>4
  <2> QED
    BY <2>1, <2>2, <2>3 DEF StrictOrder
<1>8. /\ Cardinality(S) \in Nat
      /\ order \in [1..Cardinality(S) -> S]
      /\ \A n, m \in 1..Cardinality(S) : n < m => <<order[n], order[m]>> \in before
      /\ \A e \in S : /\ Rank(S, before, e) + 1 \in 1..Cardinality(S)
                      /\ order[Rank(S, before, e) + 1] = e
  BY <1>2, <1>7, ArrangedOrder
<1> HIDE DEF order
<1>9. \A m \in S : \E k \in 1..Cardinality(S) : order[k] = m
  BY <1>8
<1>10. S \in SUBSET DOMAIN line
  BY DEF S
<1>11. /\ Picked(line, order) \in Seq(Ids)
       /\ DOMAIN Picked(line, order) = 1..Cardinality(S)
       /\ \A k \in 1..Cardinality(S) : Picked(line, order)[k] = line[order[k]]
       /\ ToSet(Picked(line, order)) = PointsAt(line, S)
  <2>1. Cardinality(S) \in Nat
    BY <1>8
  <2>2. order \in [1..Cardinality(S) -> S]
    BY <1>8
  <2>3. PicksAll(line, S, order, Cardinality(S), Ids)
    BY <1>9, <1>10, <2>1, <2>2, PickedLine
  <2> QED
    BY <2>3 DEF PicksAll
<1>12. ASSUME NEW n \in DOMAIN Sorted(line, axis), NEW m \in DOMAIN Sorted(line, axis), n < m
       PROVE  accumulator[Sorted(line, axis)[n]][axis] <= accumulator[Sorted(line, axis)[m]][axis]
  <2>1. n \in 1..Cardinality(S) /\ m \in 1..Cardinality(S)
    BY <1>5, <1>11
  <2>2. order[n] \in S /\ order[m] \in S
    BY <1>8, <2>1
  <2>3. <<order[n], order[m]>> \in before
    BY <1>8, <1>12, <2>1
  <2>4. at(order[n]) <= at(order[m])
    BY <1>3, <1>4, <2>2, <2>3
  <2>5. Sorted(line, axis)[n] = line[order[n]] /\ Sorted(line, axis)[m] = line[order[m]]
    BY <1>5, <1>11, <2>1
  <2> QED
    BY <2>4, <2>5 DEF at
<1> QED
  BY <1>5, <1>6, <1>11, <1>12

(* The points of a line that are in a set, in the order of the line. *)
Kept(line, T) == Picked(line, Ascending({m \in DOMAIN line : line[m] \in T}))

LEMMA KeptLine ==
    ASSUME NEW P, NEW line \in Seq(P), NEW T
    PROVE  /\ Kept(line, T) \in Seq(P)
           /\ ToSet(Kept(line, T)) = ToSet(line) \intersect T
           /\ \A n, m \in DOMAIN Kept(line, T) : n < m =>
                 \E k, l \in DOMAIN line : k < l /\ Kept(line, T)[n] = line[k] /\ Kept(line, T)[m] = line[l]
<1> DEFINE S == {m \in DOMAIN line : line[m] \in T}
           order == Ascending(S)
<1>1. S \in SUBSET DOMAIN line /\ S \in SUBSET Int /\ DOMAIN line = 1..Len(line) /\ Len(line) \in Nat
  OBVIOUS
<1>2. IsFiniteSet(DOMAIN line)
  BY <1>1, FS_Interval
<1>3. Kept(line, T) = Picked(line, order)
  BY DEF Kept
<1>4. PointsAt(line, S) = ToSet(line) \intersect T
  BY DEF ToSet, PointsAt
<1> HIDE DEF S
<1>5. IsFiniteSet(S)
  BY <1>1, <1>2, FS_Subset
<1>6. /\ Cardinality(S) \in Nat
      /\ order \in [1..Cardinality(S) -> S]
      /\ \A n, m \in 1..Cardinality(S) : n < m => order[n] < order[m]
      /\ \A e \in S : \E n \in 1..Cardinality(S) : order[n] = e
  BY <1>1, <1>5, AscendingOrder
<1> HIDE DEF order
<1>7. /\ Picked(line, order) \in Seq(P)
      /\ DOMAIN Picked(line, order) = 1..Cardinality(S)
      /\ \A k \in 1..Cardinality(S) : Picked(line, order)[k] = line[order[k]]
      /\ ToSet(Picked(line, order)) = PointsAt(line, S)
  <2>1. S \in SUBSET DOMAIN line
    BY <1>1
  <2>2. Cardinality(S) \in Nat
    BY <1>6
  <2>3. order \in [1..Cardinality(S) -> S]
    BY <1>6
  <2>4. \A m \in S : \E k \in 1..Cardinality(S) : order[k] = m
    BY <1>6
  <2>5. PicksAll(line, S, order, Cardinality(S), P)
    BY <2>1, <2>2, <2>3, <2>4, PickedLine
  <2> QED
    BY <2>5 DEF PicksAll
<1>8. \A k \in 1..Cardinality(S) : order[k] \in DOMAIN line
  BY <1>1, <1>6
<1> QED
  BY <1>3, <1>4, <1>6, <1>7, <1>8

-----------------------------------------------------------------------------
(* Line maps. *)

LineMap(map, P) ==
    /\ IsFiniteSet(DOMAIN map) /\ DOMAIN map \subseteq Int
    /\ map \in [DOMAIN map -> Seq(P) \ {<< >>}]

(* No point is on two lines. *)
Separate(map) ==
    \A k, l \in DOMAIN map : \A p \in ToSet(map[k]) : p \in ToSet(map[l]) => k = l

(* The map new is map after a point came to a position: it has joined a    *)
(* line, whose key has moved, or it has begun one.                         *)
Joined(map, new, position, point) ==
    /\ position \in DOMAIN new /\ DOMAIN new \subseteq DOMAIN map \union {position}
    /\ new = [k \in DOMAIN new |-> new[k]]
    /\ \A k \in DOMAIN new \ {position} : new[k] = map[k]
    /\ \/ position \notin DOMAIN map /\ new[position] = <<point>>
       \/ \E key \in DOMAIN map :
             /\ key \notin DOMAIN new \ {position}
             /\ position \in DOMAIN map => key = position
             /\ new[position] = Append(map[key], point)

LEMMA AppendPoints ==
    ASSUME NEW P, NEW line \in Seq(P), NEW p \in P
    PROVE  /\ Append(line, p) \in Seq(P) \ {<< >>}
           /\ ToSet(Append(line, p)) = ToSet(line) \union {p}
           /\ line # << >> => Append(line, p)[1] = line[1]
<1>1. /\ Append(line, p) \in Seq(P) /\ Len(Append(line, p)) = Len(line) + 1
      /\ \A n \in 1..Len(line) : Append(line, p)[n] = line[n]
      /\ Append(line, p)[Len(line) + 1] = p
      /\ DOMAIN Append(line, p) = 1..(Len(line) + 1) /\ DOMAIN line = 1..Len(line) /\ Len(line) \in Nat
  OBVIOUS
<1>2. ToSet(Append(line, p)) = ToSet(line) \union {p}
  <2>1. \A n \in 1..(Len(line) + 1) : n \in 1..Len(line) \/ n = Len(line) + 1
    BY <1>1
  <2>2. \A n \in 1..Len(line) : n \in 1..(Len(line) + 1)
    BY <1>1
  <2>3. Len(line) + 1 \in 1..(Len(line) + 1)
    BY <1>1
  <2> QED
    BY <1>1, <2>1, <2>2, <2>3 DEF ToSet
<1>3. line # << >> => Append(line, p)[1] = line[1]
  BY <1>1
<1>4. Append(line, p) # << >>
  BY <1>1
<1> QED
  BY <1>1, <1>2, <1>3, <1>4

LEMMA ClosestKey ==
    ASSUME NEW map, DOMAIN map \subseteq Int, DOMAIN map # {}, NEW position \in Int
    PROVE  /\ Closest(map, position) \in DOMAIN map
           /\ position \in DOMAIN map => Closest(map, position) = position
<1> DEFINE S == DOMAIN map
           closest(k) == \A l \in S \ {k} :
                            \/ Distance(k, position) < Distance(l, position)
                            \/ Distance(k, position) = Distance(l, position) /\ k > l
           T == {n \in Nat : \E k \in S : Distance(k, position) = n}
<1>1. \A k \in S : Distance(k, position) \in Nat /\ (Distance(k, position) = 0 => k = position)
  BY DEF Distance
<1>2. PICK n \in T : \A m \in T : n <= m
  <2>1. T # {}
    BY <1>1
  <2> HIDE DEF T
  <2>2. T \in SUBSET Nat
    BY DEF T
  <2> QED
    BY <2>1, <2>2, LeastNat
<1>3. \A l \in S : n <= Distance(l, position)
  BY <1>1, <1>2
<1>4. \E k \in S : closest(k)
  <2>1. PICK k \in S : Distance(k, position) = n
    BY <1>2
  <2>2. CASE position + n \in S
    <3>1. Distance(position + n, position) = n
      BY DEF Distance
    <3>2. \A l \in S \ {position + n} : n < Distance(l, position) \/ (n = Distance(l, position) /\ position + n > l)
      BY <1>3 DEF Distance
    <3> QED
      BY <2>2, <3>1, <3>2
  <2>3. CASE position + n \notin S
    <3>1. \A l \in S \ {k} : n < Distance(l, position)
      BY <1>3, <2>1, <2>3 DEF Distance
    <3> QED
      BY <2>1, <3>1
  <2> QED
    BY <2>2, <2>3
<1>5. Closest(map, position) \in S /\ closest(Closest(map, position))
  BY <1>4 DEF Closest
<1>6. position \in S => Closest(map, position) = position
  <2> SUFFICES ASSUME position \in S, Closest(map, position) # position PROVE FALSE
    OBVIOUS
  <2>1. Distance(position, position) = 0
    BY DEF Distance
  <2>2. Distance(Closest(map, position), position) \in Nat
    BY <1>1, <1>5
  <2>3. \/ Distance(Closest(map, position), position) < 0
        \/ Distance(Closest(map, position), position) = 0
    BY <1>5, <2>1
  <2> QED
    BY <1>1, <1>5, <2>2, <2>3
<1> QED
  BY <1>5, <1>6

LEMMA JoinJoined ==
    ASSUME NEW map, NEW key \in DOMAIN map, NEW position, position \in DOMAIN map => key = position, NEW point
    PROVE  Joined(map, Join(map, key, position, point), position, point)
<1> DEFINE new == Join(map, key, position, point)
<1>1. DOMAIN new = (DOMAIN map \ {key}) \union {position}
  BY DEF Join
<1>2. \A k \in DOMAIN new : new[k] = IF k = position THEN Append(map[key], point) ELSE map[k]
  BY DEF Join
<1>3. new = [k \in DOMAIN new |-> new[k]]
  BY DEF Join
<1> HIDE DEF new
<1> QED
  BY <1>1, <1>2, <1>3 DEF Joined, new

LEMMA NewLineJoined ==
    ASSUME NEW map, NEW position, position \notin DOMAIN map, NEW point
    PROVE  Joined(map, NewLine(map, position, point), position, point)
<1> DEFINE new == NewLine(map, position, point)
<1>1. DOMAIN new = DOMAIN map \union {position}
  BY DEF NewLine
<1>2. \A k \in DOMAIN new : new[k] = IF k = position THEN <<point>> ELSE map[k]
  BY DEF NewLine
<1>3. new = [k \in DOMAIN new |-> new[k]]
  BY DEF NewLine
<1> HIDE DEF new
<1> QED
  BY <1>1, <1>2, <1>3 DEF Joined, new

(* What mapAddConstruct and mapAdd do to a map. *)
LEMMA PointConstructs ==
    ASSUME NEW P, NEW map, LineMap(map, P), NEW position \in Int, NEW point
    PROVE  Joined(map, mapAddConstruct(map, position, point), position, point)
<1>1. CASE DOMAIN map = {}
  BY <1>1, NewLineJoined DEF mapAddConstruct
<1>2. CASE DOMAIN map # {} /\ Distance(Closest(map, position), position) > MAX_DIFF
  <2>1. Closest(map, position) = position => Distance(Closest(map, position), position) = 0
    BY DEF Distance
  <2>2. position \notin DOMAIN map
    <3>1. position \in DOMAIN map => Closest(map, position) = position
      BY <1>2, ClosestKey DEF LineMap
    <3>2. MAX_DIFF \in Nat
      BY PointGridAssumption
    <3> QED
      BY <1>2, <2>1, <3>1, <3>2
  <2> QED
    BY <1>2, <2>2, NewLineJoined DEF mapAddConstruct
<1>3. CASE DOMAIN map # {} /\ ~(Distance(Closest(map, position), position) > MAX_DIFF)
  <2>1. /\ Closest(map, position) \in DOMAIN map
        /\ position \in DOMAIN map => Closest(map, position) = position
    BY <1>3, ClosestKey DEF LineMap
  <2>2. mapAddConstruct(map, position, point) = Join(map, Closest(map, position), position, point)
    BY <1>3 DEF mapAddConstruct
  <2> QED
    BY <2>1, <2>2, JoinJoined
<1> QED
  BY <1>1, <1>2, <1>3

LEMMA PointAdds ==
    ASSUME NEW P, NEW map, LineMap(map, P), DOMAIN map # {}, NEW position \in Int, NEW point
    PROVE  \/ mapAdd(map, position, point) = map
           \/ Joined(map, mapAdd(map, position, point), position, point)
<1>1. /\ Closest(map, position) \in DOMAIN map
      /\ position \in DOMAIN map => Closest(map, position) = position
  BY ClosestKey DEF LineMap
<1>2. Joined(map, Join(map, Closest(map, position), position, point), position, point)
  BY <1>1, JoinJoined
<1> QED
  BY <1>2 DEF mapAdd

LEMMA JoinedMap ==
    ASSUME NEW P, NEW Q, P \subseteq Q, NEW map, LineMap(map, P), NEW position \in Int, NEW point \in Q,
           NEW new, Joined(map, new, position, point)
    PROVE  LineMap(new, Q) /\ DOMAIN new # {}
<1>1. \A k \in DOMAIN map : map[k] \in Seq(P) \ {<< >>} /\ map[k] \in Seq(Q) \ {<< >>}
  <2>1. \A k \in DOMAIN map : map[k] \in Seq(P) \ {<< >>}
    BY DEF LineMap
  <2>2. Seq(P) \subseteq Seq(Q)
    OBVIOUS
  <2> QED
    BY <2>1, <2>2
<1>2. new[position] \in Seq(Q) \ {<< >>}
  <2>1. \A key \in DOMAIN map : Append(map[key], point) \in Seq(Q) \ {<< >>}
    BY <1>1, AppendPoints
  <2>2. <<point>> \in Seq(Q) \ {<< >>}
    OBVIOUS
  <2> QED
    BY <2>1, <2>2 DEF Joined
<1>3. \A k \in DOMAIN new : new[k] \in Seq(Q) \ {<< >>}
  BY <1>1, <1>2 DEF Joined
<1>4. IsFiniteSet(DOMAIN new)
  <2>1. IsFiniteSet(DOMAIN map \union {position})
    BY FS_AddElement DEF LineMap
  <2> QED
    BY <2>1, FS_Subset DEF Joined
<1>5. DOMAIN new \subseteq Int
  BY DEF Joined, LineMap
<1>6. new \in [DOMAIN new -> Seq(Q) \ {<< >>}]
  BY <1>3 DEF Joined
<1> QED
  BY <1>4, <1>5, <1>6 DEF Joined, LineMap

(* Where the points of the new map come from. *)
Grown(map, new, position, point, k) ==
    \/ k \in DOMAIN map \ {position} /\ new[k] = map[k]
    \/ k = position /\ new[k] = <<point>> /\ position \notin DOMAIN map
    \/ /\ k = position
       /\ \E key \in DOMAIN map :
             /\ key \notin DOMAIN new \ {position}
             /\ position \in DOMAIN map => key = position
             /\ ToSet(new[k]) = ToSet(map[key]) \union {point}
             /\ new[k][1] = map[key][1]

LEMMA JoinedPoints ==
    ASSUME NEW P, NEW map, LineMap(map, P), NEW position, NEW point \in P,
           NEW new, Joined(map, new, position, point), NEW k \in DOMAIN new
    PROVE  Grown(map, new, position, point, k)
<1>1. CASE k # position
  BY <1>1 DEF Joined, Grown
<1>2. CASE k = position
  <2>1. \A key \in DOMAIN map : map[key] \in Seq(P) \ {<< >>}
    BY DEF LineMap
  <2>2. ASSUME NEW key \in DOMAIN map, new[k] = Append(map[key], point)
        PROVE  ToSet(new[k]) = ToSet(map[key]) \union {point} /\ new[k][1] = map[key][1]
    BY <2>1, <2>2, AppendPoints
  <2> QED
    BY <1>2, <2>2 DEF Joined, Grown
<1> QED
  BY <1>1, <1>2

LEMMA JoinedSeparate ==
    ASSUME NEW P, NEW map, LineMap(map, P), Separate(map), NEW position, NEW point \in P,
           \A k \in DOMAIN map : point \in ToSet(map[k]) => k = position,
           NEW new, Joined(map, new, position, point)
    PROVE  Separate(new)
<1> SUFFICES ASSUME NEW k \in DOMAIN new, NEW l \in DOMAIN new, NEW p \in ToSet(new[k]), p \in ToSet(new[l]), k # l
             PROVE  FALSE
  BY DEF Separate
<1>1. ASSUME NEW a \in DOMAIN new, NEW b \in DOMAIN new, p \in ToSet(new[a]), p \in ToSet(new[b]),
             a = position, b # position
      PROVE  FALSE
  <2>1. b \in DOMAIN map \ {position} /\ p \in ToSet(map[b]) /\ b \in DOMAIN new \ {position}
    BY <1>1 DEF Joined
  <2>2. p # point
    BY <2>1
  <2>3. CASE new[a] = <<point>>
    <3>1. ToSet(<<point>>) = {point}
      BY DEF ToSet
    <3> QED
      BY <1>1, <2>2, <2>3, <3>1
  <2>4. CASE \E key \in DOMAIN map : key \notin DOMAIN new \ {position} /\ ToSet(new[a]) = ToSet(map[key]) \union {point}
    <3>1. PICK key \in DOMAIN map : key \notin DOMAIN new \ {position} /\ ToSet(new[a]) = ToSet(map[key]) \union {point}
      BY <2>4
    <3>2. p \in ToSet(map[key])
      BY <1>1, <2>2, <3>1
    <3>3. key = b
      BY <2>1, <3>2 DEF Separate
    <3> QED
      BY <2>1, <3>1, <3>3
  <2> QED
    <3>1. \/ new[a] = <<point>>
          \/ \E key \in DOMAIN map : /\ key \notin DOMAIN new \ {position}
                                    /\ ToSet(new[a]) = ToSet(map[key]) \union {point}
      <4>1. Grown(map, new, position, point, a)
        BY JoinedPoints
      <4> QED
        BY <1>1, <4>1 DEF Grown
    <3> QED
      BY <2>3, <2>4, <3>1
<1>2. CASE k = position
  BY <1>1, <1>2
<1>3. CASE l = position
  BY <1>1, <1>3
<1>4. CASE k # position /\ l # position
  BY <1>4 DEF Joined, Separate
<1> QED
  BY <1>2, <1>3, <1>4

(* Changing the keys loses no map property, and gives every line the key   *)
(* of its first point.                                                     *)
FrontOf(map, axis, k) == accumulator[map[k][1]][axis]

LEMMA FirstKeys ==
    ASSUME Located, NEW axis \in {"x", "y"}, NEW P \in SUBSET Ids, NEW map, LineMap(map, P)
    PROVE  /\ LineMap(FirstPointKeys(map, axis), P)
           /\ DOMAIN map # {} => DOMAIN FirstPointKeys(map, axis) # {}
           /\ \A f \in DOMAIN FirstPointKeys(map, axis) : \E k \in DOMAIN map :
                 FirstPointKeys(map, axis)[f] = map[k] /\ f = FrontOf(map, axis, k)
           /\ Separate(map) => Separate(FirstPointKeys(map, axis))
<1> DEFINE fronts == {FrontOf(map, axis, k) : k \in DOMAIN map}
           least(f, k) == FrontOf(map, axis, k) = f /\ \A l \in DOMAIN map : FrontOf(map, axis, l) = f => k <= l
           new == FirstPointKeys(map, axis)
<1>1. new = [f \in fronts |-> map[CHOOSE k \in DOMAIN map : least(f, k)]]
  BY Zenon DEF FirstPointKeys, FrontOf
<1>2. ASSUME NEW f \in fronts PROVE \E k \in DOMAIN map : least(f, k)
  <2> DEFINE S == {k \in DOMAIN map : FrontOf(map, axis, k) = f}
  <2>1. S \in SUBSET DOMAIN map /\ S # {}
    OBVIOUS
  <2>2. IsFiniteSet(DOMAIN map) /\ DOMAIN map \subseteq Int
    BY DEF LineMap
  <2> HIDE DEF S
  <2>3. \E a \in S : \A e \in S : a <= e
    BY <2>1, <2>2, FS_Subset, Extremes
  <2> QED
    BY <2>3 DEF S
<1> DEFINE old(f) == CHOOSE k \in DOMAIN map : least(f, k)
<1>3. \A f \in fronts : old(f) \in DOMAIN map /\ FrontOf(map, axis, old(f)) = f
  BY <1>2
<1> HIDE DEF old, least
<1>4. DOMAIN new = fronts /\ \A f \in fronts : new[f] = map[old(f)]
  BY <1>1 DEF old
<1>5. \A k \in DOMAIN map : FrontOf(map, axis, k) \in Int
  <2> SUFFICES ASSUME NEW k \in DOMAIN map PROVE FrontOf(map, axis, k) \in Int
    OBVIOUS
  <2>1. map[k] \in Seq(P) /\ map[k] # << >>
    BY DEF LineMap
  <2>2. map[k][1] \in P
    BY <2>1
  <2> QED
    BY <2>2, PositionType DEF FrontOf
<1>6. IsFiniteSet(fronts)
  <2>1. IsFiniteSet(DOMAIN map)
    BY DEF LineMap
  <2> DEFINE front == [k \in DOMAIN map |-> FrontOf(map, axis, k)]
  <2>2. front \in Surjection(DOMAIN map, fronts)
    BY DEF Surjection
  <2> HIDE DEF front, fronts
  <2> QED
    BY <2>1, <2>2, FS_Surjection
<1>7. fronts \subseteq Int
  BY <1>5
<1>8. \A f \in fronts : new[f] \in Seq(P) \ {<< >>}
  BY <1>3, <1>4 DEF LineMap
<1>9. DOMAIN map # {} => fronts # {}
  OBVIOUS
<1>10. new = [f \in DOMAIN new |-> new[f]]
  BY <1>1
<1> HIDE DEF new, fronts
<1>11. LineMap(new, P)
  <2>1. new \in [DOMAIN new -> Seq(P) \ {<< >>}]
    BY <1>4, <1>8, <1>10
  <2> QED
    BY <1>4, <1>6, <1>7, <2>1 DEF LineMap
<1>12. Separate(map) => Separate(new)
  <2> SUFFICES ASSUME Separate(map), NEW f \in fronts, NEW g \in fronts,
                      NEW p \in ToSet(new[f]), p \in ToSet(new[g])
               PROVE  f = g
    BY <1>4 DEF Separate
  <2>1. old(f) = old(g)
    BY <1>3, <1>4 DEF Separate
  <2> QED
    BY <1>3, <2>1
<1>13. \A f \in DOMAIN new : \E k \in DOMAIN map : new[f] = map[k] /\ f = FrontOf(map, axis, k)
  BY <1>3, <1>4
<1> QED
  BY <1>4, <1>9, <1>11, <1>12, <1>13 DEF new

-----------------------------------------------------------------------------
(* The inductive invariant. *)

Lines == [subgrid : {"A", "B"}, line : Seq(Ids)]

(* The lines of a list have no point in common. *)
Apart(list) ==
    \A n, m \in DOMAIN list : \A p \in ToSet(list[n].line) : p \in ToSet(list[m].line) => n = m

(* The points on horizontal lines of a subgrid. *)
OfSubgrid(s) ==
    UNION {ToSet(linesHorizontal[n].line) : n \in {m \in DOMAIN linesHorizontal : linesHorizontal[m].subgrid = s}}

Horizontal == {"construct", "follow", "precede"}
Vertical == {"vconstruct", "vfollow", "vprecede"}
Linked == {"done", "copied"}

(* The points. *)
PointInv ==
    /\ phase \in {"add", "undefined", "remove", "link"} \union Horizontal \union Vertical \union Linked
    /\ scanned \in 0..Len(Lattice) /\ Located
    /\ phase \notin {"add", "undefined"} => accumulator # << >>
    /\ phase \notin {"undefined", "link", "done", "copied"} => storage = Ids
    /\ phase \in {"add"} \union Horizontal => lineMapOdd = << >> /\ lineMapEven = << >> /\ j = 1
    /\ phase = "add" => lineMap = << >>

StartFirst(map) ==
    \A k \in DOMAIN map : ConstructStart \in ToSet(map[k]) => map[k][1] = ConstructStart

(* The sweep over the points: no point is on two lines.  The point it      *)
(* starts from is the first one of its line, so that it joins this line    *)
(* when it is added again.                                                 *)
SweepInv ==
    /\ phase \in {"construct", "follow"} =>
          /\ i \in ConstructStart..(Len(accumulator) + 1)
          /\ phase = "follow" => i > ConstructStart
          /\ i > ConstructStart => DOMAIN lineMap # {}
          /\ LineMap(lineMap, ConstructStart..(i - 1)) /\ Separate(lineMap) /\ StartFirst(lineMap)
    /\ phase = "precede" =>
          /\ i \in 0..ConstructStart
          /\ DOMAIN lineMap # {} /\ LineMap(lineMap, Ids) /\ Separate(lineMap)
          /\ \A k \in DOMAIN lineMap : \A p \in ToSet(lineMap[k]) : p > i \/ (p = i /\ k = X(i))

(* The horizontal lines. *)
HorizontalInv ==
    phase \in Vertical \union {"remove"} =>
        /\ linesHorizontal \in Seq(Lines) /\ linesHorizontal # << >>
        /\ \A n \in DOMAIN linesHorizontal :
              /\ linesHorizontal[n].subgrid = IF n % 2 = 1 THEN "A" ELSE "B"
              /\ linesHorizontal[n].line # << >>
        /\ Apart(linesHorizontal) /\ Ordered(linesHorizontal, "y")

(* The sweep over the horizontal lines: both maps have a line when points  *)
(* are added to the closest one.                                           *)
VerticalInv ==
    /\ phase \in Vertical =>
          /\ i \in Nat /\ j \in Nat \ {0}
          /\ LineMap(lineMapOdd, OfSubgrid("A")) /\ LineMap(lineMapEven, OfSubgrid("B"))
    /\ phase = "vconstruct" =>
          /\ VerticalStart(Len(linesHorizontal)) <= i /\ i <= VerticalStart(Len(linesHorizontal)) + Header
          /\ \A n \in VerticalStart(Len(linesHorizontal))..i : n < i \/ j > 1 =>
                DOMAIN (IF n % 2 = 1 THEN lineMapOdd ELSE lineMapEven) # {}
    /\ phase \in {"vfollow", "vprecede"} => DOMAIN lineMapOdd # {} /\ DOMAIN lineMapEven # {}
    /\ phase = "vfollow" => i > 0
    /\ phase = "vprecede" => i <= Len(linesHorizontal)
    /\ phase = "remove" =>
          /\ linesVertical \in Seq(Lines) /\ Ordered(linesVertical, "x")
          /\ \A m \in DOMAIN linesVertical :
                ToSet(linesVertical[m].line) \subseteq OfSubgrid(linesVertical[m].subgrid)

(* The finished grid. *)
GridInv ==
    /\ phase \in {"link"} \union Linked =>
          /\ linesHorizontal \in Seq(Lines) /\ linesVertical \in Seq(Lines)
          /\ On(linesHorizontal) = storage /\ On(linesVertical) = storage
          /\ Apart(linesHorizontal)
          /\ \A n \in DOMAIN linesHorizontal, m \in DOMAIN linesVertical :
                ToSet(linesHorizontal[n].line) \intersect ToSet(linesVertical[m].line) # {} =>
                    linesHorizontal[n].subgrid = linesVertical[m].subgrid
          /\ Ordered(linesHorizontal, "y") /\ Ordered(linesVertical, "x")
    /\ phase \in Linked => OnBothLines

Inv == PointInv /\ SweepInv /\ HorizontalInv /\ VerticalInv /\ GridInv

LEMMA EmptyMap ==
    ASSUME NEW P
    PROVE  LineMap(<< >>, P) /\ Separate(<< >>) /\ DOMAIN << >> = {}
<1>1. DOMAIN << >> = {}
  OBVIOUS
<1>2. << >> \in [DOMAIN << >> -> Seq(P) \ {<< >>}]
  <2>1. << >> \in [{} -> Seq(P) \ {<< >>}]
    OBVIOUS
  <2> QED
    BY <1>1, <2>1
<1>3. IsFiniteSet(DOMAIN << >>)
  BY <1>1, FS_EmptySet
<1> QED
  BY <1>1, <1>2, <1>3 DEF LineMap, Separate

LEMMA LineMapWider ==
    ASSUME NEW P, NEW Q, P \subseteq Q, NEW map, LineMap(map, P)
    PROVE  LineMap(map, Q)
<1>1. Seq(P) \subseteq Seq(Q)
  OBVIOUS
<1> QED
  BY <1>1 DEF LineMap

LEMMA Starts ==
    ASSUME Located, accumulator # << >>
    PROVE  ConstructStart \in Ids /\ Ids \subseteq Int /\ Ids = 1..Len(accumulator) /\ Len(accumulator) \in Nat \ {0}
<1>1. Len(accumulator) \in Nat \ {0}
  BY DEF Located
<1>2. ConstructStart \in 1..Len(accumulator)
  BY <1>1 DEF ConstructStart
<1> QED
  BY <1>1, <1>2 DEF Ids

LEMMA VerticalStarts ==
    ASSUME NEW n \in Nat
    PROVE  VerticalStart(n) \in Nat \ {0} /\ (n > 0 => VerticalStart(n) \in 1..n)
BY DEF VerticalStart

LEMMA InitInv == Init => Inv
<1> SUFFICES ASSUME Init PROVE Inv
  OBVIOUS
<1>1. phase = "add" /\ accumulator = << >> /\ storage = {} /\ scanned = 0
      /\ lineMap = << >> /\ lineMapOdd = << >> /\ lineMapEven = << >> /\ j = 1
  BY DEF Init
<1>2. Ids = {} /\ Located
  BY <1>1 DEF Ids, Located
<1>3. Len(Lattice) \in Nat
  BY PointGridAssumption
<1>4. PointInv
  BY <1>1, <1>2, <1>3 DEF PointInv
<1> QED
  BY <1>1, <1>4 DEF Inv, SweepInv, HorizontalInv, VerticalInv, GridInv, Horizontal, Vertical, Linked

LEMMA AddPointInv ==
    ASSUME Inv, NEW shift \in Shifts, AddPoint(shift)
    PROVE  Inv'
<1>1. phase = "add" /\ phase' = "add" /\ scanned < Len(Lattice) /\ scanned' = scanned + 1
      /\ lineMap' = << >> /\ lineMapOdd' = << >> /\ lineMapEven' = << >> /\ j' = 1
      /\ storage' = storage \union {Len(accumulator) + 1}
  BY DEF AddPoint, maps, lines, Inv, PointInv
<1> DEFINE lens == Lattice[scanned + 1]
           point == [x |-> lens.x + shift.x, y |-> lens.y + shift.y, column |-> lens.column, row |-> lens.row]
<1>2. scanned \in Nat /\ Len(Lattice) \in Nat /\ Lattice \in Seq(Coordinates) /\ Located /\ storage = Ids
  BY <1>1, PointGridAssumption DEF Inv, PointInv, Coordinates
<1>3. lens \in Coordinates
  BY <1>1, <1>2
<1>4. shift.x \in Int /\ shift.y \in Int
  BY PointGridAssumption
<1>5. point \in Coordinates
  BY <1>3, <1>4 DEF Coordinates
<1>6. accumulator' = Append(accumulator, point)
  BY DEF AddPoint
<1> HIDE DEF point
<1>7. Located' /\ Len(accumulator') = Len(accumulator) + 1 /\ Len(accumulator) \in Nat
  BY <1>2, <1>5, <1>6 DEF Located
<1>8. storage' = Ids'
  BY <1>1, <1>2, <1>7 DEF Ids
<1>9. PointInv'
  BY <1>1, <1>2, <1>7, <1>8 DEF PointInv
<1> QED
  BY <1>1, <1>9 DEF Inv, SweepInv, HorizontalInv, VerticalInv, GridInv, Horizontal, Vertical, Linked

LEMMA MissLensInv ==
    ASSUME Inv, MissLens
    PROVE  Inv'
<1>1. phase = "add" /\ phase' = "add" /\ scanned < Len(Lattice) /\ scanned' = scanned + 1
      /\ lineMap' = << >> /\ lineMapOdd' = << >> /\ lineMapEven' = << >> /\ j' = 1
      /\ UNCHANGED <<accumulator, storage>>
  BY DEF MissLens, maps, lines, Inv, PointInv
<1>2. scanned \in Nat /\ Len(Lattice) \in Nat /\ Located /\ storage = Ids
  BY <1>1, PointGridAssumption DEF Inv, PointInv
<1>3. Located' /\ storage' = Ids'
  BY <1>1, <1>2 DEF Located, Ids
<1>4. PointInv'
  BY <1>1, <1>2, <1>3 DEF PointInv
<1> QED
  BY <1>1, <1>4 DEF Inv, SweepInv, HorizontalInv, VerticalInv, GridInv, Horizontal, Vertical, Linked

LEMMA FinalizeInv ==
    ASSUME Inv, Finalize
    PROVE  Inv'
<1>1. phase = "add" /\ UNCHANGED <<scanned, accumulator, storage, lineMap, lineMapOdd, lineMapEven, j>>
      /\ phase' = (IF accumulator = << >> THEN "undefined" ELSE "construct")
      /\ i' = ConstructStart
  BY DEF Finalize, points, maps
<1>2. /\ scanned \in 0..Len(Lattice) /\ Located /\ storage = Ids
      /\ lineMap = << >> /\ lineMapOdd = << >> /\ lineMapEven = << >> /\ j = 1
  BY <1>1 DEF Inv, PointInv
<1>3. Located' /\ Ids' = Ids /\ ConstructStart' = ConstructStart
  BY <1>1, <1>2 DEF Located, Ids, ConstructStart
<1>4. PointInv'
  BY <1>1, <1>2, <1>3 DEF PointInv, Horizontal
<1>5. SweepInv'
  <2> SUFFICES ASSUME phase' = "construct" PROVE SweepInv'
    BY <1>1 DEF SweepInv
  <2>1. ConstructStart \in 1..Len(accumulator) /\ Len(accumulator) \in Nat
    BY <1>1, <1>2, Starts
  <2>2. i' \in ConstructStart'..(Len(accumulator') + 1) /\ ~(i' > ConstructStart')
    BY <1>1, <1>3, <2>1
  <2>3. lineMap' = << >>
    BY <1>1, <1>2
  <2>4. LineMap(lineMap', ConstructStart'..(i' - 1)) /\ Separate(lineMap') /\ DOMAIN lineMap' = {}
    BY <2>3, EmptyMap
  <2> QED
    BY <2>2, <2>4 DEF SweepInv, StartFirst
<1> QED
  BY <1>1, <1>4, <1>5 DEF Inv, HorizontalInv, VerticalInv, GridInv, Vertical, Linked

(* A point after the start comes to the lines built from those before it. *)
LEMMA SweepStep ==
    ASSUME Located, accumulator # << >>, NEW p \in Ids, ConstructStart <= p,
           NEW map, LineMap(map, ConstructStart..(p - 1)), Separate(map), StartFirst(map),
           NEW new, Joined(map, new, X(p), p)
    PROVE  /\ LineMap(new, ConstructStart..p) /\ DOMAIN new # {}
           /\ Separate(new) /\ StartFirst(new)
<1> DEFINE start == ConstructStart
           P == start..(p - 1)
           Q == start..p
<1>1. start \in Int /\ p \in Int
  BY Starts
<1>2. P \subseteq Q /\ p \in Q /\ p \notin P
  BY <1>1
<1>3. X(p) \in Int
  BY PositionType
<1>4. \A k \in DOMAIN map : map[k] \in Seq(P) /\ map[k] # << >>
  BY DEF LineMap
<1>5. \A k \in DOMAIN map : ToSet(map[k]) \subseteq P /\ map[k][1] \in P
  <2> HIDE DEF P
  <2> QED
    BY <1>4 DEF ToSet
<1>6. LineMap(map, Q)
  <2>1. LineMap(map, P)
    OBVIOUS
  <2> HIDE DEF P, Q
  <2> QED
    BY <1>2, <2>1, LineMapWider
<1>7. LineMap(new, Q) /\ DOMAIN new # {}
  <2> HIDE DEF P, Q
  <2> QED
    BY <1>2, <1>3, <1>6, JoinedMap
<1>8. Separate(new)
  <2>1. \A k \in DOMAIN map : p \notin ToSet(map[k])
    BY <1>2, <1>5
  <2> HIDE DEF P, Q
  <2> QED
    BY <1>2, <1>6, <2>1, JoinedSeparate
<1>9. StartFirst(new)
  <2> SUFFICES ASSUME NEW k \in DOMAIN new, start \in ToSet(new[k]) PROVE new[k][1] = start
    BY DEF StartFirst
  <2> HIDE DEF P, Q
  <2>1. Grown(map, new, X(p), p, k)
    BY <1>2, <1>6, JoinedPoints
  <2>2. CASE k \in DOMAIN map /\ new[k] = map[k]
    BY <2>2 DEF StartFirst
  <2>3. CASE new[k] = <<p>>
    <3>1. ToSet(<<p>>) = {p} /\ <<p>>[1] = p
      BY DEF ToSet
    <3> QED
      BY <2>3, <3>1
  <2>4. CASE \E key \in DOMAIN map : ToSet(new[k]) = ToSet(map[key]) \union {p} /\ new[k][1] = map[key][1]
    <3>1. PICK key \in DOMAIN map : ToSet(new[k]) = ToSet(map[key]) \union {p} /\ new[k][1] = map[key][1]
      BY <2>4
    <3>2. start # p
      BY <1>1, <1>5, <3>1 DEF P
    <3> QED
      BY <3>1, <3>2 DEF StartFirst
  <2> QED
    BY <2>1, <2>2, <2>3, <2>4 DEF Grown
<1> QED
  BY <1>7, <1>8, <1>9

LEMMA ConstructPointInv ==
    ASSUME Inv, ConstructPoint
    PROVE  Inv'
<1>1. phase = "construct" /\ UNCHANGED <<scanned, accumulator, storage, lineMapOdd, lineMapEven, j>>
  BY DEF ConstructPoint, points
<1>2. /\ scanned \in 0..Len(Lattice) /\ Located /\ storage = Ids /\ accumulator # << >>
      /\ lineMapOdd = << >> /\ lineMapEven = << >> /\ j = 1
  BY <1>1 DEF Inv, PointInv, Horizontal
<1>3. Located' /\ Ids' = Ids /\ ConstructStart' = ConstructStart
  BY <1>1, <1>2 DEF Located, Ids, ConstructStart
<1>4. /\ i \in ConstructStart..(Len(accumulator) + 1)
      /\ i > ConstructStart => DOMAIN lineMap # {}
      /\ LineMap(lineMap, ConstructStart..(i - 1)) /\ Separate(lineMap) /\ StartFirst(lineMap)
  BY <1>1 DEF Inv, SweepInv
<1>5. ConstructStart \in 1..Len(accumulator) /\ Len(accumulator) \in Nat /\ Ids = 1..Len(accumulator)
  BY <1>2, Starts
<1>6. phase' \in {"construct", "follow", "undefined"}
  BY <1>1 DEF ConstructPoint
<1>7. PointInv'
  BY <1>1, <1>2, <1>3, <1>6 DEF PointInv, Horizontal
<1>8. SweepInv'
  <2>1. CASE i > Len(accumulator)
    BY <2>1 DEF ConstructPoint, SweepInv
  <2>2. CASE ~(i > Len(accumulator)) /\ Y(i) < Y(ConstructStart) + CONSTRUCT_LIM
    <3>1. i \in Ids /\ ConstructStart <= i /\ ConstructStart \in Int /\ i \in Int
      BY <1>4, <1>5, <2>2
    <3>2. lineMap' = mapAddConstruct(lineMap, X(i), i) /\ i' = i + 1 /\ phase' = "construct"
      BY <1>1, <2>2 DEF ConstructPoint
    <3>3. Joined(lineMap, lineMap', X(i), i)
      <4>1. X(i) \in Int
        BY <1>2, <3>1, PositionType
      <4> QED
        BY <1>4, <3>2, <4>1, PointConstructs
    <3>4. /\ LineMap(lineMap', ConstructStart..i) /\ DOMAIN lineMap' # {}
          /\ Separate(lineMap') /\ StartFirst(lineMap')
      BY <1>2, <1>4, <3>1, <3>3, SweepStep
    <3>5. i' \in ConstructStart'..(Len(accumulator') + 1) /\ ConstructStart'..(i' - 1) = ConstructStart..i
      BY <1>1, <1>3, <1>5, <3>1, <3>2
    <3>6. StartFirst(lineMap)'
      BY <1>3, <3>4 DEF StartFirst
    <3> QED
      BY <3>2, <3>4, <3>5, <3>6 DEF SweepInv
  <2>3. CASE ~(i > Len(accumulator)) /\ ~(Y(i) < Y(ConstructStart) + CONSTRUCT_LIM)
    <3>1. UNCHANGED <<i, lineMap>> /\ phase' = "follow"
      BY <2>3 DEF ConstructPoint
    <3>2. i # ConstructStart
      <4>1. Y(ConstructStart) \in Int
        BY <1>2, <1>5, PositionType
      <4> QED
        BY <2>3, <4>1, PointGridAssumption
    <3>3. i' > ConstructStart'
      BY <1>3, <1>4, <1>5, <3>1, <3>2
    <3>4. i' \in ConstructStart'..(Len(accumulator') + 1) /\ ConstructStart'..(i' - 1) = ConstructStart..(i - 1)
      BY <1>1, <1>3, <1>4, <3>1
    <3>5. LineMap(lineMap', ConstructStart'..(i' - 1)) /\ Separate(lineMap') /\ DOMAIN lineMap' # {}
      BY <1>3, <1>4, <3>1, <3>3, <3>4
    <3>6. StartFirst(lineMap)'
      BY <1>3, <1>4, <3>1 DEF StartFirst
    <3> QED
      BY <3>1, <3>3, <3>4, <3>5, <3>6 DEF SweepInv
  <2> QED
    BY <2>1, <2>2, <2>3
<1> QED
  BY <1>6, <1>7, <1>8 DEF Inv, HorizontalInv, VerticalInv, GridInv, Vertical, Linked

LEMMA FollowPointInv ==
    ASSUME Inv, FollowPoint
    PROVE  Inv'
<1>1. phase = "follow" /\ UNCHANGED <<scanned, accumulator, storage, lineMapOdd, lineMapEven, j>>
  BY DEF FollowPoint, points
<1>2. /\ scanned \in 0..Len(Lattice) /\ Located /\ storage = Ids /\ accumulator # << >>
      /\ lineMapOdd = << >> /\ lineMapEven = << >> /\ j = 1
  BY <1>1 DEF Inv, PointInv, Horizontal
<1>3. Located' /\ Ids' = Ids /\ ConstructStart' = ConstructStart
  BY <1>1, <1>2 DEF Located, Ids, ConstructStart
<1>4. /\ i \in ConstructStart..(Len(accumulator) + 1) /\ i > ConstructStart /\ DOMAIN lineMap # {}
      /\ LineMap(lineMap, ConstructStart..(i - 1)) /\ Separate(lineMap) /\ StartFirst(lineMap)
  BY <1>1 DEF Inv, SweepInv
<1>5. ConstructStart \in 1..Len(accumulator) /\ Len(accumulator) \in Nat /\ Ids = 1..Len(accumulator)
  BY <1>2, Starts
<1>6. phase' \in {"follow", "precede"}
  BY <1>1 DEF FollowPoint
<1>7. PointInv'
  BY <1>1, <1>2, <1>3, <1>6 DEF PointInv, Horizontal
<1>8. SweepInv'
  <2>1. CASE i <= Len(accumulator)
    <3>1. i \in Ids /\ ConstructStart <= i /\ ConstructStart \in Int /\ i \in Int
      BY <1>4, <1>5, <2>1
    <3>2. lineMap' = mapAdd(lineMap, X(i), i) /\ i' = i + 1 /\ phase' = "follow"
      BY <1>1, <2>1 DEF FollowPoint
    <3>3. lineMap' = lineMap \/ Joined(lineMap, lineMap', X(i), i)
      <4>1. X(i) \in Int
        BY <1>2, <3>1, PositionType
      <4> QED
        BY <1>4, <3>2, <4>1, PointAdds
    <3>4. /\ LineMap(lineMap', ConstructStart..i) /\ DOMAIN lineMap' # {}
          /\ Separate(lineMap') /\ StartFirst(lineMap')
      <4>1. CASE lineMap' = lineMap
        <5>1. ConstructStart..(i - 1) \subseteq ConstructStart..i
          BY <3>1
        <5>2. LineMap(lineMap, ConstructStart..i)
          BY <1>4, <5>1, LineMapWider
        <5> QED
          BY <1>4, <4>1, <5>2
      <4>2. CASE Joined(lineMap, lineMap', X(i), i)
        BY <1>2, <1>4, <3>1, <4>2, SweepStep
      <4> QED
        BY <3>3, <4>1, <4>2
    <3>5. /\ i' \in ConstructStart'..(Len(accumulator') + 1) /\ i' > ConstructStart'
          /\ ConstructStart'..(i' - 1) = ConstructStart..i
      BY <1>1, <1>3, <1>4, <1>5, <2>1, <3>1, <3>2
    <3>6. StartFirst(lineMap)'
      BY <1>3, <3>4 DEF StartFirst
    <3> QED
      BY <3>2, <3>4, <3>5, <3>6 DEF SweepInv
  <2>2. CASE ~(i <= Len(accumulator))
    <3>1. lineMap' = FirstPointKeys(lineMap, "x") /\ i' = ConstructStart /\ phase' = "precede"
      BY <1>1, <2>2 DEF FollowPoint
    <3> DEFINE P == ConstructStart..(i - 1)
    <3>2. P \subseteq Ids /\ \A p \in P : p \in Int /\ (p > ConstructStart \/ p = ConstructStart)
      BY <1>4, <1>5
    <3>3. LineMap(lineMap, P)
      BY <1>4
    <3> HIDE DEF P
    <3>4. /\ LineMap(lineMap', P) /\ DOMAIN lineMap' # {} /\ Separate(lineMap')
          /\ \A f \in DOMAIN lineMap' : \E k \in DOMAIN lineMap :
                lineMap'[f] = lineMap[k] /\ f = FrontOf(lineMap, "x", k)
      <4>1. P \in SUBSET Ids /\ "x" \in {"x", "y"}
        BY <3>2
      <4>2. /\ LineMap(FirstPointKeys(lineMap, "x"), P)
            /\ DOMAIN lineMap # {} => DOMAIN FirstPointKeys(lineMap, "x") # {}
            /\ \A f \in DOMAIN FirstPointKeys(lineMap, "x") : \E k \in DOMAIN lineMap :
                  FirstPointKeys(lineMap, "x")[f] = lineMap[k] /\ f = FrontOf(lineMap, "x", k)
            /\ Separate(lineMap) => Separate(FirstPointKeys(lineMap, "x"))
        BY <1>2, <3>3, <4>1, FirstKeys
      <4> QED
        BY <1>4, <3>1, <4>2
    <3>5. LineMap(lineMap', Ids)
      BY <3>2, <3>4, LineMapWider
    <3>6. ASSUME NEW f \in DOMAIN lineMap', NEW p \in ToSet(lineMap'[f])
          PROVE  p > ConstructStart \/ (p = ConstructStart /\ f = X(ConstructStart))
      <4>1. PICK k \in DOMAIN lineMap : lineMap'[f] = lineMap[k] /\ f = FrontOf(lineMap, "x", k)
        BY <3>4
      <4>2. lineMap'[f] \in Seq(P)
        BY <3>4 DEF LineMap
      <4>3. p \in P
        BY <4>2 DEF ToSet
      <4>4. p = ConstructStart => f = X(ConstructStart)
        BY <1>4, <3>6, <4>1 DEF StartFirst, FrontOf, X
      <4> QED
        BY <3>2, <4>3, <4>4
    <3>7. i' \in 0..ConstructStart' /\ ~(phase' \in {"construct", "follow"}) /\ X(i)' = X(ConstructStart)
      BY <1>1, <1>3, <1>5, <3>1 DEF X
    <3>8. \A f \in DOMAIN lineMap' : \A p \in ToSet(lineMap'[f]) : p > i' \/ (p = i' /\ f = X(i)')
      BY <3>1, <3>6, <3>7
    <3> QED
      BY <1>3, <3>4, <3>5, <3>7, <3>8 DEF SweepInv
  <2> QED
    BY <2>1, <2>2
<1> QED
  BY <1>6, <1>7, <1>8 DEF Inv, HorizontalInv, VerticalInv, GridInv, Vertical, Linked

LEMMA PrecedePointInv ==
    ASSUME Inv, PrecedePoint
    PROVE  Inv'
<1>1. /\ phase = "precede" /\ phase' = "precede" /\ i > 0 /\ i' = i - 1
      /\ lineMap' = mapAdd(lineMap, X(i), i)
      /\ UNCHANGED <<scanned, accumulator, storage, lineMapOdd, lineMapEven, j>>
  BY DEF PrecedePoint, points
<1>2. /\ scanned \in 0..Len(Lattice) /\ Located /\ storage = Ids /\ accumulator # << >>
      /\ lineMapOdd = << >> /\ lineMapEven = << >> /\ j = 1
  BY <1>1 DEF Inv, PointInv, Horizontal
<1>3. Located' /\ Ids' = Ids /\ ConstructStart' = ConstructStart
  BY <1>1, <1>2 DEF Located, Ids, ConstructStart
<1>4. /\ i \in 0..ConstructStart
      /\ DOMAIN lineMap # {} /\ LineMap(lineMap, Ids) /\ Separate(lineMap)
      /\ \A k \in DOMAIN lineMap : \A p \in ToSet(lineMap[k]) : p > i \/ (p = i /\ k = X(i))
  BY <1>1 DEF Inv, SweepInv
<1>5. ConstructStart \in 1..Len(accumulator) /\ Len(accumulator) \in Nat /\ Ids = 1..Len(accumulator)
  BY <1>2, Starts
<1>6. i \in Ids /\ i \in Int
  BY <1>1, <1>4, <1>5
<1>7. X(i) \in Int
  BY <1>2, <1>6, PositionType
<1>8. lineMap' = lineMap \/ Joined(lineMap, lineMap', X(i), i)
  BY <1>1, <1>4, <1>7, PointAdds
<1>9. PointInv'
  BY <1>1, <1>2, <1>3 DEF PointInv, Horizontal
<1>10. /\ DOMAIN lineMap' # {} /\ LineMap(lineMap', Ids) /\ Separate(lineMap')
       /\ \A k \in DOMAIN lineMap' : \A p \in ToSet(lineMap'[k]) : p >= i
  <2>1. \A k \in DOMAIN lineMap : ToSet(lineMap[k]) \subseteq Ids
    <3>1. \A k \in DOMAIN lineMap : lineMap[k] \in Seq(Ids)
      BY <1>4 DEF LineMap
    <3> QED
      BY <3>1 DEF ToSet
  <2>2. \A k \in DOMAIN lineMap : \A p \in ToSet(lineMap[k]) : p >= i
    BY <1>4, <1>5, <1>6, <2>1
  <2>3. CASE lineMap' = lineMap
    BY <1>4, <2>2, <2>3
  <2>4. CASE Joined(lineMap, lineMap', X(i), i)
    <3>1. LineMap(lineMap', Ids) /\ DOMAIN lineMap' # {}
      BY <1>4, <1>6, <1>7, <2>4, JoinedMap
    <3>2. \A k \in DOMAIN lineMap : i \in ToSet(lineMap[k]) => k = X(i)
      BY <1>4, <1>6
    <3>3. Separate(lineMap')
      BY <1>4, <1>6, <2>4, <3>2, JoinedSeparate
    <3>4. ASSUME NEW k \in DOMAIN lineMap', NEW p \in ToSet(lineMap'[k]) PROVE p >= i
      <4>1. Grown(lineMap, lineMap', X(i), i, k)
        BY <1>4, <1>6, <2>4, JoinedPoints
      <4>2. CASE k \in DOMAIN lineMap /\ lineMap'[k] = lineMap[k]
        BY <2>2, <4>2
      <4>3. CASE lineMap'[k] = <<i>>
        <5>1. ToSet(<<i>>) = {i}
          BY DEF ToSet
        <5> QED
          BY <1>6, <4>3, <5>1
      <4>4. CASE \E key \in DOMAIN lineMap : ToSet(lineMap'[k]) = ToSet(lineMap[key]) \union {i}
        BY <1>6, <2>2, <4>4
      <4> QED
        BY <4>1, <4>2, <4>3, <4>4 DEF Grown
    <3> QED
      BY <3>1, <3>3, <3>4
  <2> QED
    BY <1>8, <2>3, <2>4
<1>11. SweepInv'
  <2>1. i' \in 0..ConstructStart'
    BY <1>1, <1>3, <1>4, <1>5
  <2>2. \A k \in DOMAIN lineMap' : \A p \in ToSet(lineMap'[k]) : p > i'
    <3> SUFFICES ASSUME NEW k \in DOMAIN lineMap', NEW p \in ToSet(lineMap'[k]) PROVE p > i'
      OBVIOUS
    <3>1. p >= i
      BY <1>10
    <3>2. lineMap'[k] \in Seq(Ids)
      BY <1>10 DEF LineMap
    <3>3. p \in Int
      BY <1>5, <3>2 DEF ToSet
    <3> QED
      BY <1>1, <1>6, <3>1, <3>3
  <2> QED
    BY <1>1, <1>3, <1>10, <2>1, <2>2 DEF SweepInv
<1> QED
  BY <1>1, <1>9, <1>11 DEF Inv, HorizontalInv, VerticalInv, GridInv, Vertical, Linked

LEMMA NoPoints ==
    ASSUME NEW P, NEW line \in Seq(P)
    PROVE  line = << >> <=> ToSet(line) = {}
<1>1. DOMAIN line = 1..Len(line) /\ Len(line) \in Nat
  OBVIOUS
<1>2. CASE line = << >>
  BY <1>1, <1>2 DEF ToSet
<1>3. CASE line # << >>
  <2>1. 1 \in DOMAIN line
    BY <1>3
  <2> QED
    BY <1>3, <2>1 DEF ToSet
<1> QED
  BY <1>2, <1>3

LEMMA StoreHorizontalInv ==
    ASSUME Inv, StoreHorizontal
    PROVE  Inv'
<1> DEFINE keys == Ascending(DOMAIN lineMap)
           N == Cardinality(DOMAIN lineMap)
           stored == [n \in DOMAIN keys |->
                         [subgrid |-> IF n % 2 = 1 THEN "A" ELSE "B", line |-> Sorted(lineMap[keys[n]], "y")]]
<1>1. /\ phase = "precede" /\ phase' = "vconstruct" /\ i' = VerticalStart(N) /\ j' = j
      /\ linesHorizontal' = stored
      /\ UNCHANGED <<scanned, accumulator, storage, lineMapOdd, lineMapEven>>
  BY DEF StoreHorizontal, points
<1>2. /\ scanned \in 0..Len(Lattice) /\ Located /\ storage = Ids /\ accumulator # << >>
      /\ lineMapOdd = << >> /\ lineMapEven = << >> /\ j = 1
  BY <1>1 DEF Inv, PointInv, Horizontal
<1>3. Located' /\ Ids' = Ids
  BY <1>1, <1>2 DEF Located, Ids
<1>4. DOMAIN lineMap # {} /\ LineMap(lineMap, Ids) /\ Separate(lineMap)
  BY <1>1 DEF Inv, SweepInv
<1>5. DOMAIN lineMap \in SUBSET Int /\ IsFiniteSet(DOMAIN lineMap)
  BY <1>4 DEF LineMap
<1>6. /\ N \in Nat /\ keys \in [1..N -> DOMAIN lineMap]
      /\ \A n, m \in 1..N : n < m => keys[n] < keys[m]
      /\ \A e \in DOMAIN lineMap : \E n \in 1..N : keys[n] = e
  BY <1>5, AscendingOrder
<1>7. N > 0
  <2>1. PICK e \in DOMAIN lineMap : TRUE
    BY <1>4
  <2>2. PICK n \in 1..N : keys[n] = e
    BY <1>6
  <2> HIDE DEF N, keys
  <2> QED
    BY <1>6, <2>2
<1> HIDE DEF keys, N
<1>8. \A n, m \in 1..N : keys[n] = keys[m] => n = m
  <2> SUFFICES ASSUME NEW n \in 1..N, NEW m \in 1..N, keys[n] = keys[m] PROVE n = m
    OBVIOUS
  <2>1. keys[n] \in Int /\ n \in Int /\ m \in Int
    BY <1>5, <1>6
  <2>2. ~(n < m) /\ ~(m < n)
    BY <1>6, <2>1
  <2> QED
    BY <2>1, <2>2
<1>9. ASSUME NEW n \in 1..N
      PROVE  LET line == Sorted(lineMap[keys[n]], "y")
             IN  /\ keys[n] \in DOMAIN lineMap /\ line \in Seq(Ids) /\ line # << >>
                 /\ ToSet(line) = ToSet(lineMap[keys[n]])
                 /\ \A m, k \in DOMAIN line : m < k => accumulator[line[m]]["y"] <= accumulator[line[k]]["y"]
  <2>1. keys[n] \in DOMAIN lineMap
    BY <1>6
  <2>2. lineMap[keys[n]] \in Seq(Ids) /\ lineMap[keys[n]] # << >>
    BY <1>4, <2>1 DEF LineMap
  <2>3. "y" \in {"x", "y"}
    OBVIOUS
  <2> DEFINE sorted == Sorted(lineMap[keys[n]], "y")
  <2>4. /\ sorted \in Seq(Ids) /\ ToSet(sorted) = ToSet(lineMap[keys[n]])
        /\ \A m, k \in DOMAIN sorted : m < k => accumulator[sorted[m]]["y"] <= accumulator[sorted[k]]["y"]
    BY <1>2, <2>2, <2>3, SortedLine
  <2>5. sorted # << >>
    BY <2>2, <2>4, NoPoints
  <2> QED
    BY <2>1, <2>4, <2>5
<1>10. /\ DOMAIN stored = 1..N
       /\ \A n \in 1..N : stored[n] = [subgrid |-> IF n % 2 = 1 THEN "A" ELSE "B",
                                      line |-> Sorted(lineMap[keys[n]], "y")]
  BY <1>6
<1>18. \A n \in 1..N : /\ stored[n].subgrid = (IF n % 2 = 1 THEN "A" ELSE "B")
                       /\ stored[n].line = Sorted(lineMap[keys[n]], "y")
  BY <1>10
<1>11. stored \in Seq(Lines) /\ stored # << >> /\ Len(stored) = N
  <2>1. \A n \in 1..N : stored[n] \in Lines
    BY <1>9, <1>10, <1>18 DEF Lines
  <2>2. stored = [n \in 1..N |-> stored[n]]
    BY <1>10
  <2> HIDE DEF stored
  <2>3. stored \in Seq(Lines) /\ DOMAIN stored = 1..N
    BY <1>6, <2>1, <2>2
  <2>4. Len(stored) = N
    BY <1>6, <2>3
  <2> QED
    BY <1>7, <2>3, <2>4
<1> HIDE DEF stored
<1>12. \A n \in DOMAIN stored :
          /\ stored[n].subgrid = IF n % 2 = 1 THEN "A" ELSE "B"
          /\ stored[n].line # << >>
  BY <1>9, <1>10, <1>18
<1>13. Apart(stored)
  <2> SUFFICES ASSUME NEW n \in 1..N, NEW m \in 1..N, NEW p \in ToSet(stored[n].line), p \in ToSet(stored[m].line)
               PROVE  n = m
    BY <1>10 DEF Apart
  <2>1. keys[n] \in DOMAIN lineMap /\ keys[m] \in DOMAIN lineMap
    BY <1>9
  <2>2. p \in ToSet(lineMap[keys[n]]) /\ p \in ToSet(lineMap[keys[m]])
    BY <1>9, <1>10, <1>18
  <2>3. keys[n] = keys[m]
    BY <1>4, <2>1, <2>2 DEF Separate
  <2> QED
    BY <1>8, <2>3
<1>14. Ordered(stored, "y")
  BY <1>9, <1>10, <1>18 DEF Ordered
<1>15. HorizontalInv'
  <2>1. Lines' = Lines
    BY <1>3 DEF Lines
  <2>2. Ordered(linesHorizontal, "y")'
    BY <1>1, <1>14 DEF Ordered
  <2> QED
    BY <1>1, <1>11, <1>12, <1>13, <2>1, <2>2 DEF HorizontalInv
<1>16. VerticalInv'
  <2>1. i' = VerticalStart(Len(linesHorizontal')) /\ i' \in Nat \ {0} /\ j' = 1
    BY <1>1, <1>2, <1>6, <1>11, VerticalStarts
  <2>2. /\ VerticalStart(Len(linesHorizontal')) <= i' /\ i' <= VerticalStart(Len(linesHorizontal')) + Header
        /\ \A n \in VerticalStart(Len(linesHorizontal'))..i' : ~(n < i') /\ ~(j' > 1)
    BY <2>1, PointGridAssumption
  <2>3. LineMap(lineMapOdd', OfSubgrid("A")') /\ LineMap(lineMapEven', OfSubgrid("B")')
    BY <1>1, <1>2, EmptyMap
  <2> QED
    BY <1>1, <2>1, <2>2, <2>3 DEF VerticalInv
<1>17. PointInv'
  BY <1>1, <1>2, <1>3 DEF PointInv, Vertical, Horizontal
<1> QED
  BY <1>1, <1>15, <1>16, <1>17 DEF Inv, SweepInv, GridInv, Vertical, Linked

-----------------------------------------------------------------------------
(* The sweep over the horizontal lines. *)

LEMMA HorizontalKept ==
    ASSUME HorizontalInv, phase \in Vertical \union {"remove"}, UNCHANGED <<accumulator, linesHorizontal>>
    PROVE  HorizontalInv'
<1>1. Ids' = Ids /\ Lines' = Lines
  BY DEF Ids, Lines
<1>2. /\ linesHorizontal \in Seq(Lines) /\ linesHorizontal # << >>
      /\ \A n \in DOMAIN linesHorizontal :
            /\ linesHorizontal[n].subgrid = IF n % 2 = 1 THEN "A" ELSE "B"
            /\ linesHorizontal[n].line # << >>
      /\ Apart(linesHorizontal) /\ Ordered(linesHorizontal, "y")
  BY DEF HorizontalInv
<1>3. Ordered(linesHorizontal, "y")'
  BY <1>2 DEF Ordered
<1> QED
  BY <1>1, <1>2, <1>3 DEF HorizontalInv

(* One step of verticalLineConstructor. *)
LEMMA LinePoint ==
    ASSUME Located, linesHorizontal \in Seq(Lines), i \in DOMAIN linesHorizontal, j \in Nat \ {0},
           linesHorizontal[i].subgrid = (IF i % 2 = 1 THEN "A" ELSE "B"),
           LineMap(lineMapOdd, OfSubgrid("A")), LineMap(lineMapEven, OfSubgrid("B")),
           NEW construct \in BOOLEAN, NEW step,
           construct \/ (DOMAIN lineMapOdd # {} /\ DOMAIN lineMapEven # {}),
           AddLinePoint(construct, step)
    PROVE  \/ /\ j > Len(linesHorizontal[i].line) /\ i' = i + step /\ j' = 1
              /\ UNCHANGED <<lineMapOdd, lineMapEven>>
           \/ /\ i' = i /\ j' = j + 1
              /\ LineMap(lineMapOdd', OfSubgrid("A")) /\ LineMap(lineMapEven', OfSubgrid("B"))
              /\ DOMAIN lineMapOdd # {} => DOMAIN lineMapOdd' # {}
              /\ DOMAIN lineMapEven # {} => DOMAIN lineMapEven' # {}
              /\ DOMAIN (IF i % 2 = 1 THEN lineMapOdd' ELSE lineMapEven') # {}
<1> DEFINE line == linesHorizontal[i].line
           p == line[j]
           add(map) == IF construct THEN mapAddConstruct(map, Y(p), p) ELSE mapAdd(map, Y(p), p)
<1>1. CASE j > Len(line)
  BY <1>1 DEF AddLinePoint
<1>2. CASE ~(j > Len(line))
  <2>1. /\ i' = i /\ j' = j + 1
        /\ lineMapOdd' = IF i % 2 = 1 THEN add(lineMapOdd) ELSE lineMapOdd
        /\ lineMapEven' = IF i % 2 = 0 THEN add(lineMapEven) ELSE lineMapEven
    BY <1>2 DEF AddLinePoint
  <2>2. linesHorizontal[i] \in Lines
    OBVIOUS
  <2>3. line \in Seq(Ids) /\ j \in DOMAIN line
    BY <1>2, <2>2 DEF Lines
  <2>4. p \in Ids /\ p \in ToSet(line)
    <3> HIDE DEF line
    <3> QED
      BY <2>3 DEF ToSet
  <2>5. Y(p) \in Int
    BY <2>4, PositionType
  <2>6. p \in OfSubgrid(linesHorizontal[i].subgrid)
    BY <2>4 DEF OfSubgrid
  <2>7. i \in Nat /\ (i % 2 = 0 \/ i % 2 = 1)
    OBVIOUS
  <2> HIDE DEF p, line
  <2>8. ASSUME NEW map, NEW P, LineMap(map, P), p \in P, construct \/ DOMAIN map # {}
        PROVE  LineMap(add(map), P) /\ DOMAIN add(map) # {}
    <3>1. CASE construct
      <4>1. Joined(map, mapAddConstruct(map, Y(p), p), Y(p), p)
        BY <2>5, <2>8, PointConstructs
      <4> QED
        BY <2>5, <2>8, <3>1, <4>1, JoinedMap
    <3>2. CASE ~construct
      <4>1. \/ mapAdd(map, Y(p), p) = map
            \/ Joined(map, mapAdd(map, Y(p), p), Y(p), p)
        BY <2>5, <2>8, <3>2, PointAdds
      <4>2. CASE mapAdd(map, Y(p), p) = map
        BY <2>8, <3>2, <4>2
      <4>3. CASE Joined(map, mapAdd(map, Y(p), p), Y(p), p)
        BY <2>5, <2>8, <3>2, <4>3, JoinedMap
      <4> QED
        BY <4>1, <4>2, <4>3
    <3> QED
      BY <3>1, <3>2
  <2> HIDE DEF add
  <2>9. CASE i % 2 = 1
    <3>1. lineMapOdd' = add(lineMapOdd) /\ lineMapEven' = lineMapEven /\ p \in OfSubgrid("A")
      BY <2>1, <2>6, <2>9
    <3>2. LineMap(add(lineMapOdd), OfSubgrid("A")) /\ DOMAIN add(lineMapOdd) # {}
      BY <2>8, <3>1
    <3> QED
      BY <2>1, <2>9, <3>1, <3>2
  <2>10. CASE i % 2 = 0
    <3>1. lineMapOdd' = lineMapOdd /\ lineMapEven' = add(lineMapEven) /\ p \in OfSubgrid("B") /\ i % 2 # 1
      BY <2>1, <2>6, <2>10
    <3>2. LineMap(add(lineMapEven), OfSubgrid("B")) /\ DOMAIN add(lineMapEven) # {}
      BY <2>8, <3>1
    <3> QED
      BY <2>1, <2>10, <3>1, <3>2
  <2> QED
    BY <2>7, <2>9, <2>10
<1> QED
  BY <1>1, <1>2

(* What the sweep leaves alone. *)
LEMMA VerticalFrame ==
    ASSUME Inv, phase \in Vertical, phase' \in Vertical \union {"remove", "undefined"},
           UNCHANGED <<points, storage, linesHorizontal>>
    PROVE  /\ PointInv' /\ HorizontalInv' /\ SweepInv' /\ GridInv'
           /\ OfSubgrid("A")' = OfSubgrid("A") /\ OfSubgrid("B")' = OfSubgrid("B")
           /\ Located /\ Located' /\ Ids' = Ids /\ storage = Ids
<1>1. UNCHANGED <<scanned, accumulator>>
  BY DEF points
<1>2. /\ scanned \in 0..Len(Lattice) /\ Located /\ storage = Ids /\ accumulator # << >>
  BY DEF Inv, PointInv, Vertical
<1>3. Located' /\ Ids' = Ids
  BY <1>1, <1>2 DEF Located, Ids
<1>4. PointInv'
  BY <1>1, <1>2, <1>3 DEF PointInv, Vertical, Horizontal
<1>5. HorizontalInv'
  BY <1>1, HorizontalKept DEF Inv
<1>6. SweepInv' /\ GridInv'
  BY DEF SweepInv, GridInv, Vertical, Linked
<1>7. OfSubgrid("A")' = OfSubgrid("A") /\ OfSubgrid("B")' = OfSubgrid("B")
  BY DEF OfSubgrid
<1> QED
  BY <1>2, <1>3, <1>4, <1>5, <1>6, <1>7

LEMMA HorizontalLines ==
    ASSUME Inv, phase \in Vertical
    PROVE  /\ linesHorizontal \in Seq(Lines) /\ Len(linesHorizontal) \in Nat \ {0}
           /\ DOMAIN linesHorizontal = 1..Len(linesHorizontal)
           /\ \A n \in DOMAIN linesHorizontal :
                 /\ linesHorizontal[n].subgrid = IF n % 2 = 1 THEN "A" ELSE "B"
                 /\ Len(linesHorizontal[n].line) \in Nat \ {0}
           /\ VerticalStart(Len(linesHorizontal)) \in 1..Len(linesHorizontal)
           /\ i \in Nat /\ j \in Nat \ {0}
           /\ LineMap(lineMapOdd, OfSubgrid("A")) /\ LineMap(lineMapEven, OfSubgrid("B"))
<1>1. /\ linesHorizontal \in Seq(Lines) /\ linesHorizontal # << >>
      /\ \A n \in DOMAIN linesHorizontal :
            /\ linesHorizontal[n].subgrid = IF n % 2 = 1 THEN "A" ELSE "B"
            /\ linesHorizontal[n].line # << >>
  BY DEF Inv, HorizontalInv
<1>2. Len(linesHorizontal) \in Nat \ {0} /\ DOMAIN linesHorizontal = 1..Len(linesHorizontal)
  BY <1>1
<1>3. \A n \in DOMAIN linesHorizontal : Len(linesHorizontal[n].line) \in Nat \ {0}
  <2> SUFFICES ASSUME NEW n \in DOMAIN linesHorizontal PROVE Len(linesHorizontal[n].line) \in Nat \ {0}
    OBVIOUS
  <2>2. linesHorizontal[n] \in Lines
    BY <1>1
  <2>1. linesHorizontal[n].line \in Seq(Ids) /\ linesHorizontal[n].line # << >>
    BY <1>1, <2>2 DEF Lines
  <2> QED
    BY <2>1
<1>4. VerticalStart(Len(linesHorizontal)) \in 1..Len(linesHorizontal)
  BY <1>2, VerticalStarts
<1>5. /\ i \in Nat /\ j \in Nat \ {0}
      /\ LineMap(lineMapOdd, OfSubgrid("A")) /\ LineMap(lineMapEven, OfSubgrid("B"))
  BY DEF Inv, VerticalInv
<1> QED
  BY <1>1, <1>2, <1>3, <1>4, <1>5

LEMMA ConstructLineInv ==
    ASSUME Inv, ConstructLine
    PROVE  Inv'
<1> DEFINE start == VerticalStart(Len(linesHorizontal))
           mapOf(n) == IF n % 2 = 1 THEN lineMapOdd ELSE lineMapEven
<1>1. /\ phase = "vconstruct" /\ phase' \in {"vconstruct", "vfollow", "undefined"}
      /\ UNCHANGED <<points, storage, lineMap, linesHorizontal>>
  BY DEF ConstructLine, lines
<1>2. phase \in Vertical /\ phase' \in Vertical \union {"remove", "undefined"}
  BY <1>1 DEF Vertical
<1>3. /\ PointInv' /\ HorizontalInv' /\ SweepInv' /\ GridInv' /\ Located
      /\ OfSubgrid("A")' = OfSubgrid("A") /\ OfSubgrid("B")' = OfSubgrid("B")
  BY <1>1, <1>2, VerticalFrame
<1>4. /\ linesHorizontal \in Seq(Lines) /\ Len(linesHorizontal) \in Nat \ {0}
      /\ DOMAIN linesHorizontal = 1..Len(linesHorizontal)
      /\ \A n \in DOMAIN linesHorizontal :
            /\ linesHorizontal[n].subgrid = IF n % 2 = 1 THEN "A" ELSE "B"
            /\ Len(linesHorizontal[n].line) \in Nat \ {0}
      /\ start \in 1..Len(linesHorizontal)
      /\ i \in Nat /\ j \in Nat \ {0}
      /\ LineMap(lineMapOdd, OfSubgrid("A")) /\ LineMap(lineMapEven, OfSubgrid("B"))
  BY <1>2, HorizontalLines
<1>5. /\ start <= i /\ i <= start + Header
      /\ \A n \in start..i : n < i \/ j > 1 => DOMAIN mapOf(n) # {}
  BY <1>1 DEF Inv, VerticalInv
<1>6. start' = start /\ Header \in Nat /\ Header > 1
  BY <1>1, PointGridAssumption
<1> HIDE DEF start, mapOf
<1>7. CASE i = start + Header
  <2>1. phase' = "vfollow" /\ UNCHANGED <<i, j, lineMapOdd, lineMapEven>>
    BY <1>1, <1>7 DEF ConstructLine, start
  <2>2. start \in start..i /\ start < i /\ start + 1 \in start..i /\ start + 1 < i
    BY <1>4, <1>6, <1>7
  <2>3. DOMAIN mapOf(start) # {} /\ DOMAIN mapOf(start + 1) # {}
    BY <1>5, <2>2
  <2>4. start % 2 = 1 <=> (start + 1) % 2 # 1
    BY <1>4
  <2>5. DOMAIN lineMapOdd # {} /\ DOMAIN lineMapEven # {}
    BY <2>3, <2>4 DEF mapOf
  <2>6. VerticalInv'
    BY <1>3, <1>4, <1>5, <2>1, <2>2, <2>5 DEF VerticalInv
  <2> QED
    BY <1>3, <2>6 DEF Inv
<1>8. CASE i # start + Header /\ i > Len(linesHorizontal)
  <2>1. phase' = "undefined"
    BY <1>8 DEF ConstructLine, start
  <2>2. VerticalInv'
    BY <2>1 DEF VerticalInv, Vertical
  <2> QED
    BY <1>3, <2>2 DEF Inv
<1>9. CASE i # start + Header /\ ~(i > Len(linesHorizontal))
  <2>1. AddLinePoint(TRUE, 1) /\ phase' = "vconstruct"
    BY <1>1, <1>9 DEF ConstructLine, start
  <2>2. i \in DOMAIN linesHorizontal /\ i \in start..i
    BY <1>4, <1>5, <1>9
  <2>3. linesHorizontal[i].subgrid = (IF i % 2 = 1 THEN "A" ELSE "B")
    BY <1>4, <2>2
  <2>4. \/ /\ j > Len(linesHorizontal[i].line) /\ i' = i + 1 /\ j' = 1
           /\ UNCHANGED <<lineMapOdd, lineMapEven>>
        \/ /\ i' = i /\ j' = j + 1
           /\ LineMap(lineMapOdd', OfSubgrid("A")) /\ LineMap(lineMapEven', OfSubgrid("B"))
           /\ DOMAIN lineMapOdd # {} => DOMAIN lineMapOdd' # {}
           /\ DOMAIN lineMapEven # {} => DOMAIN lineMapEven' # {}
           /\ DOMAIN (IF i % 2 = 1 THEN lineMapOdd' ELSE lineMapEven') # {}
    BY <1>3, <1>4, <2>1, <2>2, <2>3, LinePoint
  <2>5. VerticalInv'
    <3>1. CASE j > Len(linesHorizontal[i].line) /\ i' = i + 1 /\ j' = 1 /\ UNCHANGED <<lineMapOdd, lineMapEven>>
      <4>1. j > 1
        BY <1>4, <2>2, <3>1
      <4>2. i' \in Nat /\ start <= i' /\ i' <= start + Header
        BY <1>4, <1>5, <1>6, <1>9, <3>1
      <4>3. \A n \in start..i' : n < i' \/ j' > 1 => DOMAIN mapOf(n) # {}
        <5> SUFFICES ASSUME NEW n \in start..i', n < i' \/ j' > 1 PROVE DOMAIN mapOf(n) # {}
          OBVIOUS
        <5>1. n \in start..i /\ (n < i \/ j > 1)
          BY <1>4, <3>1, <4>1
        <5> QED
          BY <1>5, <5>1
      <4>4. \A n \in start'..i' : n < i' \/ j' > 1 =>
                DOMAIN (IF n % 2 = 1 THEN lineMapOdd' ELSE lineMapEven') # {}
        BY <1>6, <3>1, <4>3 DEF mapOf
      <4>5. LineMap(lineMapOdd', OfSubgrid("A")') /\ LineMap(lineMapEven', OfSubgrid("B")')
        BY <1>3, <1>4, <3>1
      <4> QED
        BY <1>6, <2>1, <3>1, <4>2, <4>4, <4>5 DEF VerticalInv, start
    <3>2. CASE /\ i' = i /\ j' = j + 1
               /\ LineMap(lineMapOdd', OfSubgrid("A")) /\ LineMap(lineMapEven', OfSubgrid("B"))
               /\ DOMAIN lineMapOdd # {} => DOMAIN lineMapOdd' # {}
               /\ DOMAIN lineMapEven # {} => DOMAIN lineMapEven' # {}
               /\ DOMAIN (IF i % 2 = 1 THEN lineMapOdd' ELSE lineMapEven') # {}
      <4>1. \A n \in start..i : n < i => DOMAIN (IF n % 2 = 1 THEN lineMapOdd' ELSE lineMapEven') # {}
        BY <1>5, <3>2 DEF mapOf
      <4>2. \A n \in start..i : n < i \/ n = i
        BY <1>4
      <4>3. \A n \in start'..i' : DOMAIN (IF n % 2 = 1 THEN lineMapOdd' ELSE lineMapEven') # {}
        BY <1>6, <3>2, <4>1, <4>2
      <4>4. LineMap(lineMapOdd', OfSubgrid("A")') /\ LineMap(lineMapEven', OfSubgrid("B")')
        BY <1>3, <3>2
      <4>5. i' \in Nat /\ j' \in Nat \ {0} /\ start' <= i' /\ i' <= start' + Header
        BY <1>4, <1>5, <1>6, <3>2
      <4> QED
        BY <2>1, <4>3, <4>4, <4>5 DEF VerticalInv, start
    <3> QED
      BY <2>4, <3>1, <3>2
  <2> QED
    BY <1>3, <2>5 DEF Inv
<1> QED
  BY <1>7, <1>8, <1>9

LEMMA SubgridPoints ==
    ASSUME linesHorizontal \in Seq(Lines), NEW s
    PROVE  OfSubgrid(s) \in SUBSET Ids
<1>1. ASSUME NEW n \in DOMAIN linesHorizontal PROVE ToSet(linesHorizontal[n].line) \subseteq Ids
  <2>1. linesHorizontal[n] \in Lines
    OBVIOUS
  <2>2. linesHorizontal[n].line \in Seq(Ids)
    BY <2>1 DEF Lines
  <2> QED
    BY <2>2 DEF ToSet
<1> QED
  BY <1>1 DEF OfSubgrid

LEMMA FollowLineInv ==
    ASSUME Inv, FollowLine
    PROVE  Inv'
<1>1. /\ phase = "vfollow" /\ phase' \in {"vfollow", "vprecede"}
      /\ UNCHANGED <<points, storage, lineMap, linesHorizontal>>
  BY DEF FollowLine, lines
<1>2. phase \in Vertical /\ phase' \in Vertical \union {"remove", "undefined"}
  BY <1>1 DEF Vertical
<1>3. /\ PointInv' /\ HorizontalInv' /\ SweepInv' /\ GridInv' /\ Located
      /\ OfSubgrid("A")' = OfSubgrid("A") /\ OfSubgrid("B")' = OfSubgrid("B")
  BY <1>1, <1>2, VerticalFrame
<1>4. /\ linesHorizontal \in Seq(Lines) /\ Len(linesHorizontal) \in Nat \ {0}
      /\ DOMAIN linesHorizontal = 1..Len(linesHorizontal)
      /\ \A n \in DOMAIN linesHorizontal :
            /\ linesHorizontal[n].subgrid = IF n % 2 = 1 THEN "A" ELSE "B"
            /\ Len(linesHorizontal[n].line) \in Nat \ {0}
      /\ VerticalStart(Len(linesHorizontal)) \in 1..Len(linesHorizontal)
      /\ i \in Nat /\ j \in Nat \ {0}
      /\ LineMap(lineMapOdd, OfSubgrid("A")) /\ LineMap(lineMapEven, OfSubgrid("B"))
  BY <1>2, HorizontalLines
<1>5. i > 0 /\ DOMAIN lineMapOdd # {} /\ DOMAIN lineMapEven # {}
  BY <1>1 DEF Inv, VerticalInv
<1>6. CASE i <= Len(linesHorizontal)
  <2>1. AddLinePoint(FALSE, 1) /\ phase' = "vfollow"
    BY <1>1, <1>6 DEF FollowLine
  <2>2. i \in DOMAIN linesHorizontal
    BY <1>4, <1>5, <1>6
  <2>3. linesHorizontal[i].subgrid = (IF i % 2 = 1 THEN "A" ELSE "B")
    BY <1>4, <2>2
  <2>4. \/ /\ j > Len(linesHorizontal[i].line) /\ i' = i + 1 /\ j' = 1
           /\ UNCHANGED <<lineMapOdd, lineMapEven>>
        \/ /\ i' = i /\ j' = j + 1
           /\ LineMap(lineMapOdd', OfSubgrid("A")) /\ LineMap(lineMapEven', OfSubgrid("B"))
           /\ DOMAIN lineMapOdd # {} => DOMAIN lineMapOdd' # {}
           /\ DOMAIN lineMapEven # {} => DOMAIN lineMapEven' # {}
           /\ DOMAIN (IF i % 2 = 1 THEN lineMapOdd' ELSE lineMapEven') # {}
    BY <1>3, <1>4, <1>5, <2>1, <2>2, <2>3, LinePoint
  <2>5. /\ LineMap(lineMapOdd', OfSubgrid("A")') /\ LineMap(lineMapEven', OfSubgrid("B")')
        /\ DOMAIN lineMapOdd' # {} /\ DOMAIN lineMapEven' # {}
    BY <1>3, <1>4, <1>5, <2>4
  <2>6. i' \in Nat /\ i' > 0 /\ j' \in Nat \ {0}
    BY <1>4, <1>5, <2>4
  <2>7. VerticalInv'
    BY <2>1, <2>5, <2>6 DEF VerticalInv
  <2> QED
    BY <1>3, <2>7 DEF Inv
<1>7. CASE ~(i <= Len(linesHorizontal))
  <2>1. /\ lineMapOdd' = FirstPointKeys(lineMapOdd, "y") /\ lineMapEven' = FirstPointKeys(lineMapEven, "y")
        /\ i' = VerticalStart(Len(linesHorizontal)) /\ j' = j /\ phase' = "vprecede"
    BY <1>1, <1>7 DEF FollowLine
  <2>2. OfSubgrid("A") \in SUBSET Ids /\ OfSubgrid("B") \in SUBSET Ids /\ "y" \in {"x", "y"}
    BY <1>4, SubgridPoints
  <2>3. LineMap(lineMapOdd', OfSubgrid("A")) /\ DOMAIN lineMapOdd' # {}
    BY <1>3, <1>4, <1>5, <2>1, <2>2, FirstKeys
  <2>4. LineMap(lineMapEven', OfSubgrid("B")) /\ DOMAIN lineMapEven' # {}
    BY <1>3, <1>4, <1>5, <2>1, <2>2, FirstKeys
  <2>5. i' \in Nat /\ i' <= Len(linesHorizontal') /\ j' \in Nat \ {0}
    BY <1>1, <1>4, <2>1
  <2>6. VerticalInv'
    BY <1>3, <2>1, <2>3, <2>4, <2>5 DEF VerticalInv
  <2> QED
    BY <1>3, <2>6 DEF Inv
<1> QED
  BY <1>6, <1>7

LEMMA PrecedeLineInv ==
    ASSUME Inv, PrecedeLine
    PROVE  Inv'
<1>1. /\ phase = "vprecede" /\ phase' = "vprecede" /\ i > 0 /\ AddLinePoint(FALSE, -1)
      /\ UNCHANGED <<points, storage, lineMap, linesHorizontal>>
  BY DEF PrecedeLine, lines
<1>2. phase \in Vertical /\ phase' \in Vertical \union {"remove", "undefined"}
  BY <1>1 DEF Vertical
<1>3. /\ PointInv' /\ HorizontalInv' /\ SweepInv' /\ GridInv' /\ Located
      /\ OfSubgrid("A")' = OfSubgrid("A") /\ OfSubgrid("B")' = OfSubgrid("B")
  BY <1>1, <1>2, VerticalFrame
<1>4. /\ linesHorizontal \in Seq(Lines) /\ Len(linesHorizontal) \in Nat \ {0}
      /\ DOMAIN linesHorizontal = 1..Len(linesHorizontal)
      /\ \A n \in DOMAIN linesHorizontal :
            /\ linesHorizontal[n].subgrid = IF n % 2 = 1 THEN "A" ELSE "B"
            /\ Len(linesHorizontal[n].line) \in Nat \ {0}
      /\ VerticalStart(Len(linesHorizontal)) \in 1..Len(linesHorizontal)
      /\ i \in Nat /\ j \in Nat \ {0}
      /\ LineMap(lineMapOdd, OfSubgrid("A")) /\ LineMap(lineMapEven, OfSubgrid("B"))
  BY <1>2, HorizontalLines
<1>5. i <= Len(linesHorizontal) /\ DOMAIN lineMapOdd # {} /\ DOMAIN lineMapEven # {}
  BY <1>1 DEF Inv, VerticalInv
<1>6. i \in DOMAIN linesHorizontal
  BY <1>1, <1>4, <1>5
<1>7. linesHorizontal[i].subgrid = (IF i % 2 = 1 THEN "A" ELSE "B")
  BY <1>4, <1>6
<1>8. \/ /\ j > Len(linesHorizontal[i].line) /\ i' = i + (-1) /\ j' = 1
         /\ UNCHANGED <<lineMapOdd, lineMapEven>>
      \/ /\ i' = i /\ j' = j + 1
         /\ LineMap(lineMapOdd', OfSubgrid("A")) /\ LineMap(lineMapEven', OfSubgrid("B"))
         /\ DOMAIN lineMapOdd # {} => DOMAIN lineMapOdd' # {}
         /\ DOMAIN lineMapEven # {} => DOMAIN lineMapEven' # {}
         /\ DOMAIN (IF i % 2 = 1 THEN lineMapOdd' ELSE lineMapEven') # {}
  BY <1>1, <1>3, <1>4, <1>5, <1>6, <1>7, LinePoint
<1>9. /\ LineMap(lineMapOdd', OfSubgrid("A")') /\ LineMap(lineMapEven', OfSubgrid("B")')
      /\ DOMAIN lineMapOdd' # {} /\ DOMAIN lineMapEven' # {}
  BY <1>3, <1>4, <1>5, <1>8
<1>10. i' \in Nat /\ i' <= Len(linesHorizontal') /\ j' \in Nat \ {0}
  BY <1>1, <1>4, <1>5, <1>8
<1>11. VerticalInv'
  BY <1>1, <1>9, <1>10 DEF VerticalInv
<1> QED
  BY <1>3, <1>11 DEF Inv

-----------------------------------------------------------------------------
(* The vertical lines are stored, and points that are on no line removed.  *)

LEMMA MergedLines ==
    ASSUME Located, LineMap(lineMapOdd, OfSubgrid("A")), LineMap(lineMapEven, OfSubgrid("B")),
           OfSubgrid("A") \in SUBSET Ids, OfSubgrid("B") \in SUBSET Ids
    PROVE  /\ Merged \in Seq(Lines) /\ Ordered(Merged, "x")
           /\ \A m \in DOMAIN Merged : ToSet(Merged[m].line) \subseteq OfSubgrid(Merged[m].subgrid)
<1> DEFINE keys == ((DOMAIN lineMapEven) \X {"B"}) \union ((DOMAIN lineMapOdd) \X {"A"})
           before == {p \in keys \X keys :
                         p[1][1] < p[2][1] \/ (p[1][1] = p[2][1] /\ p[1][2] = "B" /\ p[2][2] = "A")}
           order == Arranged(keys, before)
           N == Cardinality(keys)
           lineOf(e) == (IF e[2] = "A" THEN lineMapOdd ELSE lineMapEven)[e[1]]
<1>1. IsFiniteSet(keys)
  <2>1. IsFiniteSet(DOMAIN lineMapEven) /\ IsFiniteSet(DOMAIN lineMapOdd)
    BY DEF LineMap
  <2>2. IsFiniteSet({"A"}) /\ IsFiniteSet({"B"})
    BY FS_Singleton
  <2>3. IsFiniteSet((DOMAIN lineMapEven) \X {"B"}) /\ IsFiniteSet((DOMAIN lineMapOdd) \X {"A"})
    BY <2>1, <2>2, FS_Product
  <2> QED
    BY <2>3, FS_Union
<1>2. \A e \in keys : e[1] \in Int /\ e[2] \in {"A", "B"} /\ e = <<e[1], e[2]>>
  BY DEF LineMap
<1>3. \A e, f \in keys : <<e, f>> \in before <=> (e[1] < f[1] \/ (e[1] = f[1] /\ e[2] = "B" /\ f[2] = "A"))
  OBVIOUS
<1>4. \A e \in keys : (e[2] = "A" /\ e[1] \in DOMAIN lineMapOdd) \/ (e[2] = "B" /\ e[1] \in DOMAIN lineMapEven)
  OBVIOUS
<1>5. Merged = [n \in DOMAIN order |-> [subgrid |-> order[n][2], line |-> Sorted(lineOf(order[n]), "x")]]
  BY DEF Merged
<1> HIDE DEF keys, before
<1>6. StrictOrder(keys, before)
  <2>1. \A e, f \in keys : e # f => <<e, f>> \in before \/ <<f, e>> \in before
    <3> SUFFICES ASSUME NEW e \in keys, NEW f \in keys, e # f PROVE <<e, f>> \in before \/ <<f, e>> \in before
      OBVIOUS
    <3>1. e[1] # f[1] \/ e[2] # f[2]
      BY <1>2
    <3>2. /\ e[1] \in Int /\ f[1] \in Int
          /\ e[2] = "A" \/ e[2] = "B"
          /\ f[2] = "A" \/ f[2] = "B"
      BY <1>2
    <3> QED
      BY <1>3, <3>1, <3>2
  <2>2. \A e, f, g \in keys : <<e, f>> \in before /\ <<f, g>> \in before => <<e, g>> \in before
    <3> SUFFICES ASSUME NEW e \in keys, NEW f \in keys, NEW g \in keys, <<e, f>> \in before, <<f, g>> \in before
                 PROVE  <<e, g>> \in before
      OBVIOUS
    <3>1. e[1] \in Int /\ f[1] \in Int /\ g[1] \in Int
      BY <1>2
    <3> QED
      BY <1>3, <3>1
  <2>3. \A e \in keys : <<e, e>> \notin before
    BY <1>2, <1>3
  <2> QED
    BY <2>1, <2>2, <2>3 DEF StrictOrder
<1>7. N \in Nat /\ order \in [1..N -> keys]
  BY <1>1, <1>6, ArrangedOrder
<1> HIDE DEF order, N, lineOf
<1>8. ASSUME NEW n \in 1..N
      PROVE  /\ Merged[n].subgrid \in {"A", "B"} /\ Merged[n].line \in Seq(Ids) /\ Merged[n] \in Lines
             /\ ToSet(Merged[n].line) \subseteq OfSubgrid(Merged[n].subgrid)
             /\ \A m, k \in DOMAIN Merged[n].line :
                   m < k => accumulator[Merged[n].line[m]]["x"] <= accumulator[Merged[n].line[k]]["x"]
  <2>1. PICK e \in keys : e = order[n]
    BY <1>7
  <2>2. Merged[n] = [subgrid |-> e[2], line |-> Sorted(lineOf(e), "x")]
    BY <1>5, <1>7, <2>1
  <2>3. e[2] \in {"A", "B"} /\ lineOf(e) \in Seq(OfSubgrid(e[2])) /\ OfSubgrid(e[2]) \in SUBSET Ids
    BY <1>4, <2>1 DEF LineMap, lineOf
  <2>4. lineOf(e) \in Seq(Ids) /\ ToSet(lineOf(e)) \subseteq OfSubgrid(e[2])
    <3>1. ToSet(lineOf(e)) \subseteq OfSubgrid(e[2])
      BY <2>3 DEF ToSet
    <3>2. Seq(OfSubgrid(e[2])) \subseteq Seq(Ids)
      BY <2>3
    <3> QED
      BY <2>3, <3>1, <3>2
  <2> DEFINE line == Sorted(lineOf(e), "x")
  <2>5. /\ line \in Seq(Ids) /\ ToSet(line) = ToSet(lineOf(e))
        /\ \A m, k \in DOMAIN line : m < k => accumulator[line[m]]["x"] <= accumulator[line[k]]["x"]
    <3>1. "x" \in {"x", "y"}
      OBVIOUS
    <3> QED
      BY <2>4, <3>1, SortedLine
  <2> HIDE DEF line
  <2>6. Merged[n] = [subgrid |-> e[2], line |-> line]
    BY <2>2 DEF line
  <2>7. Merged[n].subgrid = e[2] /\ Merged[n].line = line
    BY <2>6
  <2> QED
    BY <2>3, <2>4, <2>5, <2>6, <2>7 DEF Lines
<1>9. DOMAIN Merged = 1..N /\ Merged = [n \in 1..N |-> Merged[n]]
  BY <1>5, <1>7
<1>10. Merged \in Seq(Lines)
  BY <1>7, <1>8, <1>9
<1> QED
  BY <1>8, <1>9, <1>10 DEF Ordered

LEMMA StoreVerticalInv ==
    ASSUME Inv, StoreVertical
    PROVE  Inv'
<1>1. /\ phase = "vprecede" /\ phase' = "remove" /\ linesVertical' = Merged
      /\ UNCHANGED <<points, storage, linesHorizontal>>
  BY DEF StoreVertical
<1>2. phase \in Vertical /\ phase' \in Vertical \union {"remove", "undefined"}
  BY <1>1 DEF Vertical
<1>3. /\ PointInv' /\ HorizontalInv' /\ SweepInv' /\ GridInv' /\ Located /\ Ids' = Ids
      /\ OfSubgrid("A")' = OfSubgrid("A") /\ OfSubgrid("B")' = OfSubgrid("B")
  BY <1>1, <1>2, VerticalFrame
<1>4. linesHorizontal \in Seq(Lines) /\ LineMap(lineMapOdd, OfSubgrid("A")) /\ LineMap(lineMapEven, OfSubgrid("B"))
  BY <1>2, HorizontalLines
<1>5. OfSubgrid("A") \in SUBSET Ids /\ OfSubgrid("B") \in SUBSET Ids
  BY <1>4, SubgridPoints
<1>6. /\ Merged \in Seq(Lines) /\ Ordered(Merged, "x")
      /\ \A m \in DOMAIN Merged : ToSet(Merged[m].line) \subseteq OfSubgrid(Merged[m].subgrid)
  BY <1>3, <1>4, <1>5, MergedLines
<1>7. Lines' = Lines /\ accumulator' = accumulator
  BY <1>1, <1>3 DEF Lines, points
<1>8. Ordered(linesVertical, "x")'
  BY <1>1, <1>6, <1>7 DEF Ordered
<1>9. ASSUME NEW m \in DOMAIN linesVertical'
      PROVE  ToSet(linesVertical'[m].line) \subseteq OfSubgrid(linesVertical[m].subgrid)'
  <2>1. ToSet(linesVertical'[m].line) \subseteq OfSubgrid(linesVertical'[m].subgrid)
    BY <1>1, <1>6
  <2> QED
    BY <1>1, <2>1 DEF OfSubgrid
<1>10. VerticalInv'
  BY <1>1, <1>6, <1>7, <1>8, <1>9 DEF VerticalInv, Vertical
<1> QED
  BY <1>3, <1>10 DEF Inv

LEMMA RemovePointsInv ==
    ASSUME Inv, RemovePoints
    PROVE  Inv'
<1> DEFINE T == On(linesVertical)
           removed == [n \in DOMAIN linesHorizontal |->
                          [linesHorizontal[n] EXCEPT !.line = Kept(linesHorizontal[n].line, T)]]
<1>1. /\ phase = "remove" /\ phase' = "link"
      /\ linesHorizontal' = removed
      /\ storage' = storage \intersect On(linesHorizontal) \intersect T
      /\ UNCHANGED <<scanned, accumulator, linesVertical>>
  BY DEF RemovePoints, Kept, points
<1>2. /\ scanned \in 0..Len(Lattice) /\ Located /\ storage = Ids /\ accumulator # << >>
  BY <1>1 DEF Inv, PointInv, Horizontal
<1>3. Located' /\ Ids' = Ids /\ Lines' = Lines
  BY <1>1, <1>2 DEF Located, Ids, Lines
<1>4. linesHorizontal \in Seq(Lines) /\ Apart(linesHorizontal) /\ Ordered(linesHorizontal, "y")
  BY <1>1 DEF Inv, HorizontalInv
<1>5. /\ linesVertical \in Seq(Lines) /\ Ordered(linesVertical, "x")
      /\ \A m \in DOMAIN linesVertical :
            ToSet(linesVertical[m].line) \subseteq OfSubgrid(linesVertical[m].subgrid)
  BY <1>1 DEF Inv, VerticalInv
<1>6. On(linesVertical) \subseteq On(linesHorizontal) /\ On(linesHorizontal) \subseteq Ids
  <2>1. \A s : OfSubgrid(s) \subseteq On(linesHorizontal)
    BY DEF OfSubgrid, On
  <2>2. On(linesVertical) \subseteq On(linesHorizontal)
    BY <1>5, <2>1 DEF On
  <2>3. \A n \in DOMAIN linesHorizontal : ToSet(linesHorizontal[n].line) \subseteq Ids
    <3> SUFFICES ASSUME NEW n \in DOMAIN linesHorizontal PROVE ToSet(linesHorizontal[n].line) \subseteq Ids
      OBVIOUS
    <3>1. linesHorizontal[n] \in Lines
      BY <1>4
    <3>2. linesHorizontal[n].line \in Seq(Ids)
      BY <3>1 DEF Lines
    <3> QED
      BY <3>2 DEF ToSet
  <2> QED
    BY <2>2, <2>3 DEF On
<1> HIDE DEF T
<1>7. ASSUME NEW n \in DOMAIN linesHorizontal
      PROVE  LET old == linesHorizontal[n].line
                 new == Kept(linesHorizontal[n].line, T)
             IN  /\ removed[n] = [subgrid |-> linesHorizontal[n].subgrid, line |-> new]
                 /\ removed[n] \in Lines /\ removed[n].line = new /\ removed[n].subgrid = linesHorizontal[n].subgrid
                 /\ ToSet(removed[n].line) = ToSet(old) \intersect T
                 /\ \A m, k \in DOMAIN removed[n].line : m < k =>
                       accumulator[removed[n].line[m]]["y"] <= accumulator[removed[n].line[k]]["y"]
  <2> DEFINE old == linesHorizontal[n].line
             new == Kept(linesHorizontal[n].line, T)
  <2>1. linesHorizontal[n] \in Lines
    BY <1>4
  <2>2. old \in Seq(Ids) /\ linesHorizontal[n].subgrid \in {"A", "B"}
    BY <2>1 DEF Lines
  <2>3. removed[n] = [linesHorizontal[n] EXCEPT !.line = new]
    OBVIOUS
  <2>4. removed[n] = [subgrid |-> linesHorizontal[n].subgrid, line |-> new]
    BY <2>1, <2>3 DEF Lines
  <2> HIDE DEF removed
  <2>5. /\ new \in Seq(Ids) /\ ToSet(new) = ToSet(old) \intersect T
        /\ \A m, k \in DOMAIN new : m < k => \E a, b \in DOMAIN old : a < b /\ new[m] = old[a] /\ new[k] = old[b]
    BY <2>2, KeptLine
  <2>6. \A a, b \in DOMAIN old : a < b => accumulator[old[a]]["y"] <= accumulator[old[b]]["y"]
    BY <1>4 DEF Ordered
  <2> HIDE DEF old, new
  <2>7. \A m, k \in DOMAIN new : m < k => accumulator[new[m]]["y"] <= accumulator[new[k]]["y"]
    <3> SUFFICES ASSUME NEW m \in DOMAIN new, NEW k \in DOMAIN new, m < k
                 PROVE  accumulator[new[m]]["y"] <= accumulator[new[k]]["y"]
      OBVIOUS
    <3>1. PICK a \in DOMAIN old : \E b \in DOMAIN old : a < b /\ new[m] = old[a] /\ new[k] = old[b]
      BY <2>5
    <3>2. PICK b \in DOMAIN old : a < b /\ new[m] = old[a] /\ new[k] = old[b]
      BY <3>1
    <3> QED
      BY <2>6, <3>2
  <2>8. removed[n].line = new /\ removed[n].subgrid = linesHorizontal[n].subgrid /\ removed[n] \in Lines
    BY <2>2, <2>4, <2>5 DEF Lines
  <2> QED
    BY <2>4, <2>5, <2>7, <2>8 DEF old, new
<1>8. DOMAIN removed = DOMAIN linesHorizontal /\ removed = [n \in DOMAIN linesHorizontal |-> removed[n]]
  OBVIOUS
<1> HIDE DEF removed
<1>9. removed \in Seq(Lines)
  <2>1. Len(linesHorizontal) \in Nat /\ DOMAIN linesHorizontal = 1..Len(linesHorizontal)
    BY <1>4
  <2> QED
    BY <1>7, <1>8, <2>1
<1>10. On(removed) = On(linesHorizontal) \intersect T
  BY <1>7, <1>8 DEF On
<1>11. storage' = T /\ On(removed) = T
  BY <1>1, <1>2, <1>6, <1>10 DEF T
<1>12. Apart(removed)
  <2> SUFFICES ASSUME NEW n \in DOMAIN removed, NEW m \in DOMAIN removed,
                      NEW p \in ToSet(removed[n].line), p \in ToSet(removed[m].line)
               PROVE  n = m
    BY DEF Apart
  <2>1. n \in DOMAIN linesHorizontal /\ m \in DOMAIN linesHorizontal
    BY <1>8
  <2>2. p \in ToSet(linesHorizontal[n].line) /\ p \in ToSet(linesHorizontal[m].line)
    BY <1>7, <2>1
  <2>3. Apart(linesHorizontal)
    BY <1>4
  <2> QED
    BY <2>1, <2>2, <2>3 DEF Apart
<1>13. Ordered(removed, "y")
  BY <1>7, <1>8 DEF Ordered
<1>14. ASSUME NEW n \in DOMAIN removed, NEW m \in DOMAIN linesVertical,
              ToSet(removed[n].line) \intersect ToSet(linesVertical[m].line) # {}
       PROVE  removed[n].subgrid = linesVertical[m].subgrid
  <2>1. PICK p \in ToSet(removed[n].line) : p \in ToSet(linesVertical[m].line)
    BY <1>14
  <2>2. n \in DOMAIN linesHorizontal /\ p \in ToSet(linesHorizontal[n].line)
    BY <1>7, <1>8
  <2>3. p \in OfSubgrid(linesVertical[m].subgrid)
    BY <1>5, <2>1
  <2>4. PICK k \in DOMAIN linesHorizontal :
            linesHorizontal[k].subgrid = linesVertical[m].subgrid /\ p \in ToSet(linesHorizontal[k].line)
    BY <2>3 DEF OfSubgrid
  <2>5. k = n
    BY <1>4, <2>2, <2>4 DEF Apart
  <2> QED
    BY <1>7, <2>2, <2>4, <2>5
<1>15. GridInv'
  <2>1. Ordered(linesHorizontal, "y")' /\ Ordered(linesVertical, "x")'
    BY <1>1, <1>5, <1>13 DEF Ordered
  <2>2. On(linesHorizontal)' = storage' /\ On(linesVertical)' = storage'
    BY <1>1, <1>11 DEF On, T
  <2> QED
    BY <1>1, <1>3, <1>5, <1>9, <1>12, <1>14, <2>1, <2>2 DEF GridInv, Linked
<1>16. PointInv'
  BY <1>1, <1>2, <1>3 DEF PointInv, Horizontal
<1> QED
  BY <1>1, <1>15, <1>16 DEF Inv, SweepInv, HorizontalInv, VerticalInv, Vertical

(* What the grid keeps once it is complete. *)
LEMMA GridFacts ==
    ASSUME Inv, phase \in {"link"} \union Linked
    PROVE  /\ linesHorizontal \in Seq(Lines) /\ linesVertical \in Seq(Lines)
           /\ On(linesHorizontal) = storage /\ On(linesVertical) = storage
           /\ Apart(linesHorizontal)
           /\ \A n \in DOMAIN linesHorizontal, m \in DOMAIN linesVertical :
                 ToSet(linesHorizontal[n].line) \intersect ToSet(linesVertical[m].line) # {} =>
                     linesHorizontal[n].subgrid = linesVertical[m].subgrid
           /\ Ordered(linesHorizontal, "y") /\ Ordered(linesVertical, "x")
BY DEF Inv, GridInv

(* It stays as it is while the points get their links and it is copied. *)
LEMMA GridFrame ==
    ASSUME Inv, phase \in {"link"} \union Linked, phase' \in Linked,
           UNCHANGED <<points, storage, linesHorizontal, linesVertical>>, OnBothLines'
    PROVE  Inv'
<1>1. UNCHANGED <<scanned, accumulator>>
  BY DEF points
<1>2. /\ scanned \in 0..Len(Lattice) /\ Located /\ accumulator # << >>
  BY DEF Inv, PointInv, Linked
<1>3. Located' /\ Ids' = Ids /\ Lines' = Lines
  BY <1>1, <1>2 DEF Located, Ids, Lines
<1>4. PointInv'
  BY <1>1, <1>2, <1>3 DEF PointInv, Horizontal, Linked
<1>5. Ordered(linesHorizontal, "y")' /\ Ordered(linesVertical, "x")'
  BY <1>1, GridFacts DEF Ordered
<1>6. On(linesHorizontal)' = storage' /\ On(linesVertical)' = storage'
  BY GridFacts DEF On
<1>7. GridInv'
  BY <1>3, <1>5, <1>6, GridFacts DEF GridInv
<1> QED
  BY <1>4, <1>7 DEF Inv, SweepInv, HorizontalInv, VerticalInv, Vertical, Linked

(* A point on some line of a list is on the line its index names. *)
LEMMA LastLineHolds ==
    ASSUME NEW list \in Seq(Lines), NEW p \in On(list)
    PROVE  LastLine(list, p) \in DOMAIN list /\ p \in ToSet(list[LastLine(list, p)].line)
<1> DEFINE holding == {n \in DOMAIN list : p \in ToSet(list[n].line)}
<1>1. DOMAIN list = 1..Len(list) /\ Len(list) \in Nat
  OBVIOUS
<1>2. IsFiniteSet(DOMAIN list)
  BY <1>1, FS_Interval
<1>3. holding \in SUBSET DOMAIN list /\ holding \in SUBSET Int /\ holding # {}
  BY <1>1 DEF On
<1>4. LastLine(list, p) = IF holding = {} THEN 0 ELSE Max(holding)
  BY DEF LastLine
<1> HIDE DEF holding
<1>5. IsFiniteSet(holding)
  BY <1>2, <1>3, FS_Subset
<1>6. \E b \in holding : \A e \in holding : e <= b
  BY <1>3, <1>5, Extremes
<1>7. Max(holding) \in holding
  BY <1>3, <1>6 DEF Max
<1> QED
  BY <1>3, <1>4, <1>7 DEF holding

LEMMA SetLinksInv ==
    ASSUME Inv, SetLinks
    PROVE  Inv'
<1>1. /\ phase = "link" /\ phase' = "done"
      /\ verticalLine' = [p \in storage |-> LastLine(linesVertical, p)]
      /\ horizontalLine' = [p \in storage |-> LastLine(linesHorizontal, p)]
      /\ UNCHANGED <<points, storage, linesHorizontal, linesVertical>>
  BY DEF SetLinks
<1>2. /\ linesHorizontal \in Seq(Lines) /\ linesVertical \in Seq(Lines)
      /\ On(linesHorizontal) = storage /\ On(linesVertical) = storage
      /\ Apart(linesHorizontal)
  BY <1>1, GridFacts
<1>3. ASSUME NEW p \in storage
      PROVE  /\ {n \in DOMAIN linesHorizontal : p \in ToSet(linesHorizontal[n].line)} = {horizontalLine'[p]}
             /\ verticalLine'[p] \in DOMAIN linesVertical
             /\ p \in ToSet(linesVertical[verticalLine'[p]].line)
  <2>1. /\ horizontalLine'[p] \in DOMAIN linesHorizontal
        /\ p \in ToSet(linesHorizontal[horizontalLine'[p]].line)
    BY <1>1, <1>2, LastLineHolds
  <2>2. /\ verticalLine'[p] \in DOMAIN linesVertical
        /\ p \in ToSet(linesVertical[verticalLine'[p]].line)
    BY <1>1, <1>2, LastLineHolds
  <2>3. \A n \in DOMAIN linesHorizontal : p \in ToSet(linesHorizontal[n].line) => n = horizontalLine'[p]
    BY <1>2, <2>1 DEF Apart
  <2> QED
    BY <2>1, <2>2, <2>3
<1>4. On(linesHorizontal)' = storage' /\ On(linesVertical)' = storage'
  BY <1>1, <1>2 DEF On
<1>5. OnBothLines'
  BY <1>1, <1>3, <1>4 DEF OnBothLines
<1> QED
  BY <1>1, <1>5, GridFrame DEF Linked

LEMMA CopyInv ==
    ASSUME Inv, Copy
    PROVE  Inv'
<1> DEFINE copied(list) == [n \in DOMAIN list |->
               [list[n] EXCEPT !.line =
                   [m \in DOMAIN @ |-> IF @[m] \in storage THEN @[m] ELSE 0]]]
<1>1. /\ phase = "done" /\ phase' = "copied"
      /\ linesHorizontal' = copied(linesHorizontal) /\ linesVertical' = copied(linesVertical)
      /\ UNCHANGED <<points, storage, horizontalLine, verticalLine>>
  BY DEF Copy
<1>2. /\ linesHorizontal \in Seq(Lines) /\ linesVertical \in Seq(Lines)
      /\ On(linesHorizontal) = storage /\ On(linesVertical) = storage
  BY <1>1, GridFacts DEF Linked
<1>3. ASSUME NEW list \in Seq(Lines), On(list) = storage
      PROVE  copied(list) = list
  <2>1. ASSUME NEW n \in DOMAIN list
        PROVE  copied(list)[n] = list[n]
    <3> DEFINE line == list[n].line
               new == [m \in DOMAIN line |-> IF line[m] \in storage THEN line[m] ELSE 0]
    <3>1. list[n] \in Lines
      BY <1>3
    <3>2. copied(list)[n] = [list[n] EXCEPT !.line = new]
      OBVIOUS
    <3>3. line \in Seq(Ids)
      BY <3>1 DEF Lines
    <3>4. \A m \in DOMAIN line : line[m] \in storage
      BY <1>3 DEF On, ToSet
    <3>5. new = line
      <4>1. line = [m \in DOMAIN line |-> line[m]]
        <5> HIDE DEF line
        <5> QED
          BY <3>3
      <4> HIDE DEF line
      <4> QED
        BY <3>4, <4>1
    <3> HIDE DEF new, copied
    <3> QED
      BY <3>1, <3>2, <3>5 DEF Lines
  <2>2. DOMAIN copied(list) = DOMAIN list /\ copied(list) = [n \in DOMAIN list |-> copied(list)[n]]
    OBVIOUS
  <2>3. list = [n \in DOMAIN list |-> list[n]]
    OBVIOUS
  <2> HIDE DEF copied
  <2> QED
    BY <2>1, <2>2, <2>3
<1>4. linesHorizontal' = linesHorizontal /\ linesVertical' = linesVertical
  BY <1>1, <1>2, <1>3
<1>5. OnBothLines
  BY <1>1 DEF Inv, GridInv, Linked
<1>6. OnBothLines'
  <2>1. Finished /\ Finished'
    BY <1>1 DEF Finished
  <2>2. On(linesHorizontal)' = On(linesHorizontal) /\ On(linesVertical)' = On(linesVertical)
    BY <1>4 DEF On
  <2>3. storage' = storage /\ horizontalLine' = horizontalLine /\ verticalLine' = verticalLine
    BY <1>1
  <2> QED
    BY <1>4, <1>5, <2>1, <2>2, <2>3 DEF OnBothLines
<1> QED
  BY <1>1, <1>4, <1>6, GridFrame DEF Linked

LEMMA Invariant == Spec => []Inv
<1>1. Inv /\ Next => Inv'
  BY AddPointInv, MissLensInv, FinalizeInv, ConstructPointInv, FollowPointInv, PrecedePointInv, StoreHorizontalInv,
     ConstructLineInv, FollowLineInv, PrecedeLineInv, StoreVerticalInv, RemovePointsInv, SetLinksInv, CopyInv
     DEF Next
<1>2. Inv /\ UNCHANGED vars => Inv'
  <2> SUFFICES ASSUME Inv, UNCHANGED vars PROVE Inv'
    OBVIOUS
  <2>1. /\ UNCHANGED <<scanned, defects, accumulator, storage, phase, i, j, lineMap, lineMapOdd, lineMapEven>>
        /\ UNCHANGED <<linesHorizontal, linesVertical, horizontalLine, verticalLine>>
    BY DEF vars, points, maps, lines
  <2>2. Ids' = Ids /\ Lines' = Lines /\ ConstructStart' = ConstructStart /\ Located' = Located
    BY <2>1 DEF Ids, Lines, ConstructStart, Located
  <2>3. PointInv'
    BY <2>1, <2>2 DEF Inv, PointInv
  <2>4. SweepInv'
    BY <2>1, <2>2 DEF Inv, SweepInv, StartFirst, X
  <2>5. HorizontalInv'
    BY <2>1, <2>2 DEF Inv, HorizontalInv, Ordered
  <2>6. VerticalInv'
    <3>1. \A s : OfSubgrid(s)' = OfSubgrid(s)
      BY <2>1 DEF OfSubgrid
    <3>2. Ordered(linesVertical, "x")' <=> Ordered(linesVertical, "x")
      BY <2>1 DEF Ordered
    <3> QED
      BY <2>1, <2>2, <3>1, <3>2 DEF Inv, VerticalInv
  <2>7. GridInv'
    <3>1. /\ Ordered(linesHorizontal, "y")' <=> Ordered(linesHorizontal, "y")
          /\ Ordered(linesVertical, "x")' <=> Ordered(linesVertical, "x")
      BY <2>1 DEF Ordered
    <3>2. On(linesHorizontal)' = On(linesHorizontal) /\ On(linesVertical)' = On(linesVertical)
      BY <2>1 DEF On
    <3>3. OnBothLines' <=> OnBothLines
      BY <2>1, <3>2 DEF OnBothLines, Finished
    <3> QED
      BY <2>1, <2>2, <3>1, <3>2, <3>3 DEF Inv, GridInv
  <2> QED
    BY <2>3, <2>4, <2>5, <2>6, <2>7 DEF Inv
<1> QED
  BY <1>1, <1>2, InitInv, PTL DEF Spec

(* Whatever points an image yields: finalize leaves a grid whose points    *)
(* and lines refer to each other and to nothing that was erased, whose     *)
(* lines cross within their subgrid only and have their points in order;   *)
(* and so does the copy constructor.                                       *)
THEOREM GridCorrect == Spec => []GridConsistent
<1>1. Inv => GridConsistent
  <2> SUFFICES ASSUME Inv PROVE GridConsistent
    OBVIOUS
  <2>1. CASE Finished
    <3>1. phase \in Linked /\ OnBothLines
      BY <2>1 DEF Finished, Linked, Inv, GridInv
    <3>2. SubgridsAgree /\ Ordered(linesHorizontal, "y") /\ Ordered(linesVertical, "x")
      BY <3>1, GridFacts DEF SubgridsAgree
    <3> QED
      BY <3>1, <3>2 DEF GridConsistent
  <2>2. CASE ~Finished
    BY <2>2 DEF GridConsistent, OnBothLines, SubgridsAgree
  <2> QED
    BY <2>1, <2>2
<1> QED
  BY <1>1, Invariant, PTL

=============================================================================
