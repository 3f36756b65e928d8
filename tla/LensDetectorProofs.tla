------------------------- MODULE LensDetectorProofs -------------------------
(***************************************************************************)
(* Theorems about LensDetector, for images of any size, any size of lenses *)
(* and any cutoff.                                                         *)
(***************************************************************************)
EXTENDS LensDetector, FiniteSetTheorems, WellFoundedInduction, TLAPS

(* Every set of natural numbers has a least element, which is what the     *)
(* arguments below use for induction.                                      *)
LEMMA LeastNat ==
    ASSUME NEW T \in SUBSET Nat, T # {}
    PROVE  \E n \in T : \A m \in T : n <= m
<1> DEFINE R == {ss \in Nat \X Nat : ss[1] < ss[2]}
<1>1. IsWellFoundedOn(R, Nat)
    BY NatLessThanWellFounded, Zenon DEF OpToRel
<1> HIDE DEF R
<1>2. PICK n \in T : \A m \in T : ~(<<m, n>> \in R)
    BY <1>1, WFMin
<1>3. \A m \in T : ~(m < n)
    BY <1>2 DEF R
<1> QED
    BY <1>3

(* The minimum of a set of integers that is bounded from below. *)
LEMMA MinInt ==
    ASSUME NEW S \in SUBSET Int, S # {}, NEW b \in Int, \A z \in S : b <= z
    PROVE  Min(S) \in S /\ \A z \in S : Min(S) <= z
<1> DEFINE T == {n \in Nat : b + n \in S}
<1>1. PICK s \in S : TRUE
    OBVIOUS
<1>2. s - b \in T
    OBVIOUS
<1>3. PICK n \in T : \A m \in T : n <= m
    BY <1>2, LeastNat
<1>4. ASSUME NEW z \in S PROVE b + n <= z
    <2>1. z - b \in T
        OBVIOUS
    <2> QED
        BY <2>1, <1>3
<1> QED
    BY <1>3, <1>4 DEF Min

(* The maximum of a set of integers that is bounded from above. *)
LEMMA MaxInt ==
    ASSUME NEW S \in SUBSET Int, S # {}, NEW b \in Int, \A z \in S : z <= b
    PROVE  Max(S) \in S /\ \A z \in S : z <= Max(S)
<1> DEFINE T == {n \in Nat : b - n \in S}
<1>1. PICK s \in S : TRUE
    OBVIOUS
<1>2. b - s \in T
    OBVIOUS
<1>3. PICK n \in T : \A m \in T : n <= m
    BY <1>2, LeastNat
<1>4. ASSUME NEW z \in S PROVE z <= b - n
    <2>1. b - z \in T
        OBVIOUS
    <2>2. z \in Int /\ n \in Int
        BY <1>3
    <2>3. n <= b - z
        <3> HIDE DEF T
        <3> QED
            BY <2>1, <1>3
    <2> QED
        BY <2>2, <2>3
<1> QED
    BY <1>3, <1>4 DEF Max

-----------------------------------------------------------------------------
(* The preprocessor. *)

(* Opening adds no pixel. *)
LEMMA OpenedWithin ==
    ASSUME NEW S, NEW pixels \in SUBSET (Int \X Int), S \subseteq pixels
    PROVE  Opened(S, pixels) \subseteq S
<1>1. \A p \in pixels : p \in Kernel(p, pixels)
    BY DEF Kernel
<1>2. \A p \in pixels : Kernel(p, pixels) \subseteq S => p \in S
    BY <1>1
<1> QED
    BY <1>2 DEF Opened, Dilated, Eroded

LEMMA PixelsAreIntegers == Pixels \subseteq Int \X Int
BY LensDetectorAssumption DEF Pixels

(* The image never leaves its pixels. *)
ImageInv == image \subseteq Pixels

LEMMA ImageInvariant == Spec => []ImageInv
<1>1. Init => ImageInv
    BY DEF Init, ImageInv
<1>2. ImageInv /\ [Next]_vars => ImageInv'
    BY OpenedWithin, PixelsAreIntegers
       DEF ImageInv, Next, vars, SkipFlat, Preprocess, PreprocessFFT, StartFill, SkipEdge,
           FillRow, Fill, StopFill, Mark, EndScan
<1> QED
    BY <1>1, <1>2, PTL DEF Spec

(* A residue is determined by its range. *)
LEMMA ResidueUnique ==
    ASSUME NEW a \in Int, NEW m \in Nat \ {0}, NEW k \in Int, NEW r \in 0..(m - 1),
           a = m * k + r
    PROVE  a % m = r
<1> DEFINE d == a \div m
           t == a % m
<1>1. a = m * d + t /\ d \in Int /\ t \in 0..(m - 1)
    OBVIOUS
<1> HIDE DEF d, t
<1>2. m * (k - d) = t - r
    BY <1>1
<1>3. k - d < 1
    <2>1. k - d >= 1 => m * (k - d) >= m
        BY <1>1
    <2> QED
        BY <2>1, <1>1, <1>2
<1>4. k - d > -1
    <2>1. k - d <= -1 => m * (k - d) <= -m
        BY <1>1
    <2> QED
        BY <2>1, <1>1, <1>2
<1>5. k = d
    BY <1>1, <1>3, <1>4
<1> QED
    BY <1>1, <1>5 DEF t

(* Negation modulo m. *)
LEMMA NegatedResidue ==
    ASSUME NEW x \in Int, NEW m \in Nat \ {0}
    PROVE  (-(x % m)) % m = (-x) % m
<1>1. x = m * (x \div m) + (x % m) /\ x \div m \in Int /\ x % m \in 0..(m - 1)
    OBVIOUS
<1> DEFINE q == x \div m
           r == x % m
<1> HIDE DEF q, r
<1>2. CASE r = 0
    <2>1. -x = m * (-q) + 0 /\ -r = m * 0 + 0
        BY <1>1, <1>2 DEF q, r
    <2>2. 0 \in 0..(m - 1) /\ -q \in Int /\ -r \in Int /\ -x \in Int
        BY <1>1 DEF q, r
    <2>3. (-x) % m = 0
        BY <2>1, <2>2, ResidueUnique, ZenonT(60)
    <2>4. (-r) % m = 0
        BY <2>1, <2>2, ResidueUnique
    <2> QED
        BY <2>3, <2>4 DEF r
<1>3. CASE r # 0
    <2>1. -x = m * (-q - 1) + (m - r)
        BY <1>1 DEF q, r
    <2>2. -r = m * (-1) + (m - r)
        BY <1>1 DEF q, r
    <2>3. m - r \in 0..(m - 1) /\ -q - 1 \in Int /\ -r \in Int /\ -1 \in Int /\ -x \in Int
        BY <1>1, <1>3 DEF q, r
    <2>4. (-x) % m = m - r
        BY <2>1, <2>3, ResidueUnique
    <2>5. (-r) % m = m - r
        BY <2>2, <2>3, ResidueUnique
    <2> QED
        BY <2>4, <2>5 DEF r
<1> QED
    BY <1>2, <1>3

LEMMA RootIsNatural == ASSUME NEW n \in Int PROVE RoundedRoot(n) \in Nat
<1> DEFINE S == {0} \union {x \in 1..n : (2 * x - 1) * (2 * x - 1) <= 4 * n}
<1>1. Max(S) \in S
    <2>1. PICK b \in Int : 0 <= b /\ n <= b
        OBVIOUS
    <2>2. S \in SUBSET Int /\ S # {} /\ \A z \in S : z <= b
        BY <2>1
    <2> HIDE DEF S
    <2> QED
        BY <2>1, <2>2, MaxInt
<1> QED
    BY <1>1 DEF RoundedRoot

(* The disc is symmetric, although the height of the columns is rounded    *)
(* and the disc is wrapped around an image of any size.                    *)
LEMMA DiscSymmetric ==
    ASSUME NEW cols \in Nat \ {0}, NEW rows \in Nat \ {0},
           NEW f \in LowFrequencies(cols, rows)
    PROVE  <<(-f[1]) % cols, (-f[2]) % rows>> \in LowFrequencies(cols, rows)
<1> DEFINE C == HIGHPASS_CUTOFF
           Root(v) == RoundedRoot(C * C - v * v)
<1>1. C \in Nat
    BY CutoffAssumption
<1>2. PICK v \in (-C)..C : \E x \in (-Root(v))..Root(v) : f = <<x % cols, v % rows>>
    BY DEF LowFrequencies
<1>3. PICK x \in (-Root(v))..Root(v) : f = <<x % cols, v % rows>>
    BY <1>2
<1>4. v \in Int /\ -v \in (-C)..C /\ Root(-v) = Root(v)
    <2>1. v \in Int /\ -v \in (-C)..C
        BY <1>1
    <2>2. (-v) * (-v) = v * v
        BY <2>1
    <2> QED
        BY <2>1, <2>2
<1>5. Root(v) \in Nat
    BY <1>1, <1>4, RootIsNatural
<1>6. x \in Int /\ -x \in (-Root(v))..Root(v)
    <2> HIDE DEF Root
    <2> QED
        BY <1>5
<1>7. <<(-f[1]) % cols, (-f[2]) % rows>> = <<(-x) % cols, (-v) % rows>>
    BY <1>3, <1>4, <1>6, NegatedResidue
<1>8. \E w \in (-C)..C : \E z \in (-Root(w))..Root(w) :
          <<(-x) % cols, (-v) % rows>> = <<z % cols, w % rows>>
    BY <1>4, <1>6
<1> QED
    BY <1>7, <1>8 DEF LowFrequencies

(* SpectrumSymmetric: what FFTPreprocessor clears is symmetric for every   *)
(* cutoff and every size of the image.                                     *)
THEOREM ClearedSymmetric == Spec => []SpectrumSymmetric
<1>1. SpectrumSymmetric
    BY DiscSymmetric, LensDetectorAssumption DEF SpectrumSymmetric
<1> QED
    BY <1>1, PTL

-----------------------------------------------------------------------------
(* The objects of an image: Component is the least set that contains a     *)
(* pixel and all neighbours of its pixels.                                 *)

(* One round of growing. *)
Grow(pixels, S) == S \union {q \in pixels \ S : \E s \in S : Adjacent(s, q)}

(* g is the function that Component defines recursively, up to n. *)
IsGrown(pixels, g, p, n) ==
    /\ g \in [0..n -> SUBSET pixels]
    /\ g[0] = {p}
    /\ \A k \in 1..n : g[k] = Grow(pixels, g[k - 1])

LEMMA GrownExists ==
    ASSUME NEW pixels, NEW p \in pixels, NEW n \in Nat
    PROVE  \E g : IsGrown(pixels, g, p, n)
<1> DEFINE T == {m \in Nat : ~\E g : IsGrown(pixels, g, p, m)}
<1>1. SUFFICES ASSUME T # {} PROVE FALSE
    OBVIOUS
<1>2. PICK m \in T : \A k \in T : m <= k
    BY <1>1, LeastNat
<1>3. m # 0
    <2> DEFINE g == [k \in 0..0 |-> {p}]
    <2>1. IsGrown(pixels, g, p, 0)
        BY DEF IsGrown
    <2> QED
        BY <2>1
<1>4. m - 1 \in Nat /\ m - 1 \notin T
    BY <1>2, <1>3
<1>5. PICK g : IsGrown(pixels, g, p, m - 1)
    BY <1>4
<1> DEFINE h == [k \in 0..m |-> IF k = m THEN Grow(pixels, g[m - 1]) ELSE g[k]]
<1>6. h \in [0..m -> SUBSET pixels]
    BY <1>4, <1>5 DEF IsGrown, Grow
<1>7. h[0] = {p}
    BY <1>3, <1>4, <1>5 DEF IsGrown
<1>8. ASSUME NEW k \in 1..m PROVE h[k] = Grow(pixels, h[k - 1])
    <2>1. CASE k = m
        BY <2>1, <1>4
    <2>2. CASE k # m
        <3>1. k \in 1..(m - 1) /\ k \in 0..m /\ k - 1 \in 0..m /\ k - 1 # m
            BY <2>2, <1>4
        <3> QED
            BY <3>1, <2>2, <1>5 DEF IsGrown
    <2> QED
        BY <2>1, <2>2
<1>9. IsGrown(pixels, h, p, m)
    BY <1>6, <1>7, <1>8 DEF IsGrown
<1> QED
    BY <1>2, <1>9

(* Component is the last of the sets. *)
LEMMA ComponentGrown ==
    ASSUME NEW pixels, IsFiniteSet(pixels), NEW p \in pixels
    PROVE  \E g : IsGrown(pixels, g, p, Cardinality(pixels)) /\ Component(pixels, p) = g[Cardinality(pixels)]
<1> DEFINE N == Cardinality(pixels)
           Def(g) == [n \in 0..N |->
                         IF n = 0 THEN {p}
                         ELSE LET S == g[n - 1]
                              IN  S \union {q \in pixels \ S : \E s \in S : Adjacent(s, q)}]
           f == CHOOSE g : g = Def(g)
<1>1. N \in Nat
    BY FS_CardinalityType
<1>2. PICK g : IsGrown(pixels, g, p, N)
    BY <1>1, GrownExists
<1>3. g = Def(g)
    <2>1. \A n \in 0..N : n = 0 \/ n \in 1..N
        BY <1>1
    <2> QED
        BY <2>1, <1>2, Zenon DEF IsGrown, Grow
<1>4. f = Def(f)
    <2> HIDE DEF Def
    <2> QED
        BY <1>3, Zenon
<1>5. Component(pixels, p) = f[N]
    BY DEF Component
<1> HIDE DEF f
<1>6. IsGrown(pixels, f, p, N)
    <2> DEFINE T == {n \in 0..N : f[n] \notin SUBSET pixels}
    <2>1. \A n \in 1..N : f[n] = Grow(pixels, f[n - 1])
        <3> TAKE n \in 1..N
        <3>1. n \in 0..N /\ n # 0
            BY <1>1
        <3>2. f[n] = Def(f)[n]
            BY <1>4
        <3> QED
            BY <3>1, <3>2, Zenon DEF Grow
    <2>2. f[0] = {p}
        BY <1>4, <1>1
    <2>3. T = {}
        <3>1. SUFFICES ASSUME T # {} PROVE FALSE
            OBVIOUS
        <3>2. PICK m \in T : \A k \in T : m <= k
            <4>1. T \in SUBSET Nat
                BY <1>1
            <4> HIDE DEF T
            <4> QED
                BY <4>1, <3>1, LeastNat
        <3>3. m \in 1..N
            BY <2>2, <3>2, <1>1
        <3>4. f[m - 1] \subseteq pixels
            BY <3>2, <3>3, <1>1
        <3>5. Grow(pixels, f[m - 1]) \subseteq pixels
            BY <3>4 DEF Grow
        <3> QED
            BY <3>2, <3>3, <3>5, <2>1
    <2>4. f \in [0..N -> SUBSET pixels]
        <3>1. f = [n \in 0..N |-> f[n]]
            BY <1>4
        <3> QED
            BY <3>1, <2>3
    <2> QED
        BY <2>1, <2>2, <2>4 DEF IsGrown
<1> QED
    BY <1>5, <1>6

(* A set of pixels with all neighbours its pixels have among pixels. *)
Closed(pixels, A) == \A s \in A : \A q \in pixels : Adjacent(s, q) => q \in A

(* A component is part of every closed set with its first pixel. *)
LEMMA ComponentLeast ==
    ASSUME NEW pixels, IsFiniteSet(pixels), NEW p \in pixels, NEW A, p \in A, Closed(pixels, A)
    PROVE  Component(pixels, p) \subseteq A
<1> DEFINE N == Cardinality(pixels)
<1>1. N \in Nat
    BY FS_CardinalityType
<1>2. PICK g : IsGrown(pixels, g, p, N) /\ Component(pixels, p) = g[N]
    BY ComponentGrown
<1> DEFINE T == {n \in 0..N : ~(g[n] \subseteq A)}
<1>3. T = {}
    <2>1. SUFFICES ASSUME T # {} PROVE FALSE
        OBVIOUS
    <2>2. PICK m \in T : \A k \in T : m <= k
        <3>1. T \in SUBSET Nat
            BY <1>1
        <3> HIDE DEF T
        <3> QED
            BY <3>1, <2>1, LeastNat
    <2>3. m \in 1..N
        BY <2>2, <1>1, <1>2 DEF IsGrown
    <2>4. m - 1 \in 0..N /\ g[m - 1] \subseteq A
        BY <2>2, <2>3, <1>1
    <2>5. Grow(pixels, g[m - 1]) \subseteq A
        BY <2>4 DEF Grow, Closed
    <2> QED
        BY <2>2, <2>3, <2>5, <1>2 DEF IsGrown
<1> QED
    BY <1>1, <1>2, <1>3

(* As long as a set grows it has more pixels than there were rounds, so it *)
(* is closed before the rounds are over.                                   *)
LEMMA ComponentClosed ==
    ASSUME NEW pixels, IsFiniteSet(pixels), NEW p \in pixels
    PROVE  /\ p \in Component(pixels, p)
           /\ Component(pixels, p) \subseteq pixels
           /\ Closed(pixels, Component(pixels, p))
<1> DEFINE N == Cardinality(pixels)
<1>1. N \in Nat
    BY FS_CardinalityType
<1>2. PICK g : IsGrown(pixels, g, p, N) /\ Component(pixels, p) = g[N]
    BY ComponentGrown
<1>3. \A n \in 0..N : g[n] \subseteq pixels /\ IsFiniteSet(g[n]) /\ Cardinality(g[n]) \in Nat
    BY <1>2, FS_Subset, FS_CardinalityType DEF IsGrown
<1> DEFINE T == {n \in 0..N : ~(p \in g[n] /\ (Closed(pixels, g[n]) \/ Cardinality(g[n]) >= n + 1))}
<1>4. T = {}
    <2>1. SUFFICES ASSUME T # {} PROVE FALSE
        OBVIOUS
    <2>2. PICK m \in T : \A k \in T : m <= k
        <3>1. T \in SUBSET Nat
            BY <1>1
        <3> HIDE DEF T
        <3> QED
            BY <3>1, <2>1, LeastNat
    <2>3. m # 0
        <3>1. g[0] = {p} /\ Cardinality({p}) = 1
            BY <1>2, FS_Singleton DEF IsGrown
        <3> QED
            BY <3>1, <2>2
    <2>4. m - 1 \in 0..N /\ m \in 1..N /\ m \in Nat
        BY <2>2, <2>3, <1>1
    <2>5. p \in g[m - 1] /\ (Closed(pixels, g[m - 1]) \/ Cardinality(g[m - 1]) >= m)
        BY <2>2, <2>4
    <2>6. g[m] = Grow(pixels, g[m - 1])
        BY <2>4, <1>2 DEF IsGrown
    <2>7. p \in g[m]
        BY <2>5, <2>6 DEF Grow
    <2>8. CASE Closed(pixels, g[m - 1])
        <3>1. g[m] = g[m - 1]
            BY <2>6, <2>8 DEF Grow, Closed
        <3> QED
            BY <3>1, <2>2, <2>7, <2>8
    <2>9. CASE ~Closed(pixels, g[m - 1])
        <3>1. PICK q \in pixels : q \notin g[m - 1] /\ q \in g[m]
            BY <2>6, <2>9 DEF Grow, Closed
        <3>2. g[m - 1] \subseteq g[m] /\ g[m - 1] # g[m]
            BY <3>1, <2>6 DEF Grow
        <3>3. Cardinality(g[m - 1]) < Cardinality(g[m])
            <4>1. IsFiniteSet(g[m]) /\ Cardinality(g[m - 1]) \in Nat /\ Cardinality(g[m]) \in Nat
                BY <1>3, <2>4
            <4>2. Cardinality(g[m - 1]) <= Cardinality(g[m])
                BY <3>2, <4>1, FS_Subset
            <4>3. Cardinality(g[m - 1]) = Cardinality(g[m]) => g[m - 1] = g[m]
                BY <3>2, <4>1, FS_Subset
            <4> QED
                BY <4>1, <4>2, <4>3, <3>2
        <3>4. Cardinality(g[m]) >= m + 1
            BY <3>3, <2>4, <2>5, <2>9, <1>3
        <3> QED
            BY <3>4, <2>2, <2>7
    <2> QED
        BY <2>8, <2>9
<1>5. Cardinality(g[N]) <= N
    BY <1>1, <1>3, FS_Subset
<1>6. N \in 0..N /\ N \notin T
    BY <1>1, <1>4
<1>7. p \in g[N] /\ (Closed(pixels, g[N]) \/ Cardinality(g[N]) >= N + 1)
    BY <1>6
<1> QED
    BY <1>1, <1>2, <1>3, <1>5, <1>7

(* Components are equal or disjoint. *)
LEMMA ComponentSame ==
    ASSUME NEW pixels, IsFiniteSet(pixels), pixels \subseteq Pixels, NEW p \in pixels, NEW q \in pixels,
           NEW r, r \in Component(pixels, p), r \in Component(pixels, q)
    PROVE  Component(pixels, p) = Component(pixels, q)
<1>1. \A s, t \in pixels : Adjacent(s, t) => Adjacent(t, s)
    BY LensDetectorAssumption DEF Adjacent, Pixels
<1>2. ASSUME NEW u \in pixels, NEW v \in pixels, NEW w, w \in Component(pixels, u), w \in Component(pixels, v)
      PROVE  Component(pixels, u) \subseteq Component(pixels, v)
    <2>1. SUFFICES ASSUME u \notin Component(pixels, v) PROVE FALSE
        BY ComponentLeast, ComponentClosed
    <2> DEFINE A == Component(pixels, u) \ Component(pixels, v)
    <2>2. Closed(pixels, A)
        BY <1>1, ComponentClosed DEF Closed
    <2>3. u \in A
        BY <2>1, ComponentClosed
    <2>4. Component(pixels, u) \subseteq A
        BY <2>2, <2>3, ComponentLeast
    <2> QED
        BY <2>4, <1>2
<1> QED
    BY <1>2

-----------------------------------------------------------------------------
(* Positions and limits of the fill. *)

(* Positions order pixels by rows, then by columns. *)
LEMMA PositionOrder ==
    ASSUME NEW p \in Pixels, NEW q \in Pixels
    PROVE  /\ Position(p) \in Nat
           /\ p[2] < q[2] => Position(p) < Position(q)
           /\ Position(p) <= Position(q) => p[2] <= q[2]
           /\ p[2] = q[2] => (Position(p) < Position(q) <=> p[1] < q[1])
           /\ Position(p) = Position(q) => p = q
<1>1. /\ p[1] \in 0..(Cols - 1) /\ p[2] \in Nat /\ q[1] \in 0..(Cols - 1) /\ q[2] \in Nat
      /\ p = <<p[1], p[2]>> /\ q = <<q[1], q[2]>> /\ Cols \in Nat
    BY LensDetectorAssumption DEF Pixels
<1>2. ASSUME NEW a \in Nat, NEW b \in Nat, a < b PROVE a * Cols + Cols <= b * Cols
    <2>1. PICK d \in Nat : b = a + 1 + d
        <3>1. b - a - 1 \in Nat /\ b = a + 1 + (b - a - 1)
            BY <1>2
        <3> QED
            BY <3>1
    <2>2. b * Cols = a * Cols + Cols + d * Cols /\ d * Cols \in Nat /\ a * Cols \in Nat
        BY <2>1, <1>1
    <2> QED
        BY <2>2, <1>1
<1>3. p[2] * Cols \in Nat /\ q[2] * Cols \in Nat
    BY <1>1
<1>4. p[2] < q[2] => Position(p) < Position(q)
    BY <1>1, <1>2, <1>3 DEF Position
<1>5. q[2] < p[2] => Position(q) < Position(p)
    BY <1>1, <1>2, <1>3 DEF Position
<1>6. p[2] = q[2] => (Position(p) < Position(q) <=> p[1] < q[1])
    BY <1>1, <1>3 DEF Position
<1>7. Position(p) \in Nat /\ Position(q) \in Nat
    BY <1>1, <1>3 DEF Position
<1>8. p[2] = q[2] /\ Position(p) = Position(q) => p[1] = q[1]
    BY <1>1, <1>3 DEF Position
<1> QED
    BY <1>1, <1>4, <1>5, <1>6, <1>7, <1>8

LEMMA PixelsFinite == IsFiniteSet(Pixels)
<1> DEFINE A == 0..(Cols - 1)
           B == 0..(Rows - 1)
<1>1. IsFiniteSet(A) /\ IsFiniteSet(B)
    BY FS_Interval, LensDetectorAssumption
<1>2. Pixels = A \X B
    BY DEF Pixels
<1> HIDE DEF A, B
<1> QED
    BY <1>1, <1>2, FS_Product

(* minx, maxx and maxy are the limits they are meant to be. *)
LEMMA Limits ==
    ASSUME start \in Pixels
    PROVE  /\ minx \in Nat /\ maxx \in Nat /\ maxy \in Nat
           /\ minx <= start[1] /\ start[1] < maxx /\ maxx <= Cols
           /\ start[2] < maxy /\ maxy <= Rows
           /\ \A x \in Nat : x >= start[1] - MAX_LENS_SIZE => x >= minx
           /\ \A x \in Int : x < start[1] + MAX_LENS_SIZE /\ x < Cols => x < maxx
           /\ \A x \in Int : x < start[2] + MAX_LENS_SIZE /\ x < Rows => x < maxy
<1>1. /\ start[1] \in 0..(Cols - 1) /\ start[2] \in 0..(Rows - 1)
      /\ Cols \in Nat /\ Rows \in Nat /\ MAX_LENS_SIZE \in Nat \ {0}
    BY LensDetectorAssumption DEF Pixels
<1>2. ASSUME NEW a \in Int, NEW b \in Int
      PROVE  /\ Max({a, b}) \in {a, b} /\ Max({a, b}) >= a /\ Max({a, b}) >= b
             /\ Min({a, b}) \in {a, b} /\ Min({a, b}) <= a /\ Min({a, b}) <= b
    <2>1. PICK lo \in Int : lo <= a /\ lo <= b
        OBVIOUS
    <2>2. PICK hi \in Int : a <= hi /\ b <= hi
        OBVIOUS
    <2>3. {a, b} \in SUBSET Int /\ {a, b} # {}
        OBVIOUS
    <2>4. Min({a, b}) \in {a, b} /\ \A z \in {a, b} : Min({a, b}) <= z
        BY <2>1, <2>3, MinInt
    <2>5. Max({a, b}) \in {a, b} /\ \A z \in {a, b} : z <= Max({a, b})
        BY <2>2, <2>3, MaxInt
    <2> QED
        BY <2>4, <2>5
<1>3. minx \in {start[1] - MAX_LENS_SIZE, 0} /\ minx >= start[1] - MAX_LENS_SIZE /\ minx >= 0
    <2>1. start[1] - MAX_LENS_SIZE \in Int /\ 0 \in Int
        BY <1>1
    <2> QED
        BY <2>1, <1>2 DEF minx
<1>4. maxx \in {start[1] + MAX_LENS_SIZE, Cols} /\ maxx <= start[1] + MAX_LENS_SIZE /\ maxx <= Cols
    <2>1. start[1] + MAX_LENS_SIZE \in Int /\ Cols \in Int
        BY <1>1
    <2> QED
        BY <2>1, <1>2 DEF maxx
<1>5. maxy \in {start[2] + MAX_LENS_SIZE, Rows} /\ maxy <= start[2] + MAX_LENS_SIZE /\ maxy <= Rows
    <2>1. start[2] + MAX_LENS_SIZE \in Int /\ Rows \in Int
        BY <1>1
    <2> QED
        BY <2>1, <1>2 DEF maxy
<1> QED
    BY <1>1, <1>3, <1>4, <1>5

LEMMA StartInLimits == start \in Pixels => minx <= start[1] /\ start[1] < maxx
BY Limits

(* The fill to the left comes as far as the mask and the limit allow. *)
LEMMA LeftEnd ==
    ASSUME start \in Pixels, NEW x \in Int, minx <= x, <<x, y>> \in mask
    PROVE  /\ FillLeft(x) \in minx..x
           /\ Run(FillLeft(x), x)
           /\ FillLeft(x) = minx \/ <<FillLeft(x) - 1, y>> \notin mask
<1> DEFINE S == {a \in minx..x : Run(a, x)} \union {x}
           a == FillLeft(x)
<1>1. minx \in Int
    BY Limits
<1>2. S \in SUBSET Int /\ S # {} /\ \A z \in S : minx <= z
    BY <1>1
<1>3. a \in S /\ \A z \in S : a <= z
    <2>1. a = Min(S)
        BY DEF FillLeft
    <2> HIDE DEF S, a
    <2> QED
        BY <2>1, <1>1, <1>2, MinInt
<1>4. Run(x, x)
    BY DEF Run
<1>5. a \in minx..x /\ Run(a, x)
    <2> HIDE DEF a
    <2> QED
        BY <1>3, <1>4, <1>1
<1>6. a # minx => <<a - 1, y>> \notin mask
    <2> HIDE DEF a
    <2>1. SUFFICES ASSUME a # minx, <<a - 1, y>> \in mask PROVE FALSE
        OBVIOUS
    <2>2. a - 1 \in minx..x /\ a \in Int
        BY <2>1, <1>1, <1>5
    <2>3. Run(a - 1, x)
        BY <2>1, <2>2, <1>5 DEF Run
    <2>4. a - 1 \in S
        BY <2>2, <2>3
    <2>5. a <= a - 1
        BY <2>4, <1>3
    <2> QED
        BY <2>2, <2>5
<1> QED
    BY <1>5, <1>6

(* The fill to the right comes as far as the mask and the limit allow. *)
LEMMA RightEnd ==
    ASSUME start \in Pixels, NEW x \in Int, x < maxx, <<x, y>> \in mask
    PROVE  /\ FillRight(x) \in x..(maxx - 1)
           /\ Run(x, FillRight(x))
           /\ FillRight(x) = maxx - 1 \/ <<FillRight(x) + 1, y>> \notin mask
<1> DEFINE S == {b \in x..(maxx - 1) : Run(x, b)} \union {x - 1}
           b == FillRight(x)
<1>1. maxx \in Int
    BY Limits
<1>2. S \in SUBSET Int /\ S # {} /\ \A z \in S : z <= maxx - 1
    BY <1>1
<1>3. b \in S /\ \A z \in S : z <= b
    <2>1. b = Max(S) /\ maxx - 1 \in Int
        BY <1>1 DEF FillRight
    <2> HIDE DEF S, b
    <2> QED
        BY <2>1, <1>2, MaxInt
<1>4. x \in S
    BY <1>1 DEF Run
<1>5. b \in x..(maxx - 1) /\ Run(x, b)
    <2>1. x <= b
        <3> HIDE DEF b, S
        <3> QED
            BY <1>3, <1>4
    <2> HIDE DEF b
    <2> QED
        BY <2>1, <1>3, <1>1
<1>6. b # maxx - 1 => <<b + 1, y>> \notin mask
    <2> HIDE DEF b
    <2>1. SUFFICES ASSUME b # maxx - 1, <<b + 1, y>> \in mask PROVE FALSE
        OBVIOUS
    <2>2. b + 1 \in x..(maxx - 1) /\ b \in Int
        BY <2>1, <1>1, <1>5
    <2>3. Run(x, b + 1)
        BY <2>1, <2>2, <1>5 DEF Run
    <2>4. b + 1 \in S
        BY <2>2, <2>3
    <2>5. b + 1 <= b
        BY <2>4, <1>3
    <2> QED
        BY <2>2, <2>5
<1> QED
    BY <1>5, <1>6

-----------------------------------------------------------------------------
(* The inductive invariant. *)

DetectTypes ==
    /\ image \in SUBSET Pixels /\ mask \in SUBSET image
    /\ pc \in {"check", "scan", "fill", "flat", "final"}
    /\ scan \in Nat
    /\ start \in Pixels /\ startx \in Int /\ endx \in Int /\ y \in Nat
    /\ filled \in SUBSET Pixels
    /\ points \in Seq(SUBSET Pixels)
    /\ pc = "check" => points = << >> /\ scan = 0 /\ marks = {}

(* The fill is in its limits.  The first row, whose endx may lie beyond    *)
(* them, is always filled, since it begins with an OBJECT pixel.           *)
FillInv ==
    pc = "fill" =>
        /\ start[1] < Cols - 1 /\ scan = Position(start) + 1
        /\ minx <= startx /\ startx <= endx /\ startx < maxx /\ endx < Cols
        /\ start[2] <= y
        /\ y = start[2] => startx = start[1] /\ start \in mask /\ filled = {}
        /\ y > start[2] => endx < maxx /\ start \notin mask /\ start \in filled

(* What a row of the fill does. *)
Row(a, b) == {<<x, y>> : x \in a..b}
RowFilled(a, b) ==
    /\ minx <= a /\ a <= b /\ b < maxx
    /\ startx' = a /\ endx' = b /\ y' = y + 1
    /\ Row(a, b) \subseteq mask
    /\ mask' = mask \ Row(a, b) /\ filled' = filled \union Row(a, b)
    /\ \E x \in a..b : x \in startx..endx
    /\ a = minx \/ <<a - 1, y>> \notin mask
    /\ b = maxx - 1 \/ <<b + 1, y>> \notin mask
    /\ y = start[2] => start[1] \in a..b

LEMMA RowEffect ==
    ASSUME DetectTypes, FillInv, FillRow
    PROVE  \E a, b \in Int : RowFilled(a, b)
<1>1. pc = "fill" /\ start \in Pixels /\ startx \in Int /\ endx \in Int
    BY DEF DetectTypes, FillRow
<1>2. /\ minx <= startx /\ startx <= endx /\ startx < maxx
      /\ y = start[2] => startx = start[1] /\ <<startx, y>> \in mask
      /\ y # start[2] => endx < maxx
    <2>1. start = <<start[1], start[2]>>
        BY <1>1 DEF Pixels
    <2> QED
        BY <1>1, <2>1 DEF FillInv, DetectTypes, Pixels
<1>3. minx \in Int /\ maxx \in Int
    BY <1>1, Limits
<1>4. CASE <<startx, y>> \in mask
    <2> DEFINE a == FillLeft(startx)
               b == FillRight(startx)
    <2>1. a \in minx..startx /\ Run(a, startx) /\ (a = minx \/ <<a - 1, y>> \notin mask)
        BY <1>1, <1>2, <1>4, LeftEnd
    <2>2. b \in startx..(maxx - 1) /\ Run(startx, b) /\ (b = maxx - 1 \/ <<b + 1, y>> \notin mask)
        BY <1>1, <1>2, <1>4, RightEnd
    <2>3. Fill(a, b)
        BY <1>4 DEF FillRow
    <2> HIDE DEF a, b
    <2>4. a \in Int /\ b \in Int /\ a <= b /\ startx \in a..b
        BY <2>1, <2>2, <1>1, <1>3
    <2>5. Row(a, b) \subseteq mask
        BY <2>1, <2>2, <2>4, <1>1, <1>3 DEF Run, Row
    <2>6. RowFilled(a, b)
        BY <2>1, <2>2, <2>3, <2>4, <2>5, <1>1, <1>2, <1>3 DEF RowFilled, Fill, Row
    <2> QED
        BY <2>4, <2>6
<1>5. CASE <<startx, y>> \notin mask
    <2>1. PICK x \in startx..endx :
              /\ <<x, y>> \in mask
              /\ \A z \in startx..(x - 1) : <<z, y>> \notin mask
              /\ Fill(x, FillRight(x))
        BY <1>5 DEF FillRow
    <2> DEFINE b == FillRight(x)
    <2>2. x \in Int /\ x < maxx /\ x # startx /\ y # start[2]
        BY <1>1, <1>2, <1>3, <1>5, <2>1
    <2>3. b \in x..(maxx - 1) /\ Run(x, b) /\ (b = maxx - 1 \/ <<b + 1, y>> \notin mask)
        BY <2>1, <2>2, <1>1, RightEnd
    <2>4. Fill(x, b)
        BY <2>1
    <2> HIDE DEF b
    <2>5. b \in Int /\ x <= b /\ x \in x..b
        BY <2>2, <2>3, <1>3
    <2>6. Row(x, b) \subseteq mask
        BY <2>3 DEF Run, Row
    <2>7. <<x - 1, y>> \notin mask
        BY <2>1, <2>2, <1>1
    <2>8. minx <= x
        BY <2>2, <1>1, <1>2, <1>3
    <2>9. RowFilled(x, b)
        BY <2>1, <2>2, <2>3, <2>4, <2>5, <2>6, <2>7, <2>8, <1>3 DEF RowFilled, Fill, Row
    <2> QED
        BY <2>2, <2>5, <2>9
<1> QED
    BY <1>4, <1>5

(* A step of the program: any action, or none. *)
LEMMA StepCases ==
    ASSUME [Next]_vars
    PROVE  \/ UNCHANGED vars \/ SkipFlat \/ Preprocess \/ PreprocessFFT
           \/ StartFill \/ SkipEdge \/ FillRow \/ StopFill \/ EndScan
BY DEF Next

LEMMA TypeStep ==
    ASSUME DetectTypes, FillInv, [Next]_vars
    PROVE  DetectTypes'
<1> USE DEF DetectTypes
<1>1. CASE UNCHANGED vars
    BY <1>1 DEF vars, fillVars
<1>2. CASE SkipFlat
    BY <1>2 DEF SkipFlat, fillVars
<1>3. CASE Preprocess
    BY <1>3 DEF Preprocess, fillVars
<1>4. CASE PreprocessFFT
    <2>1. image' \subseteq Pixels
        BY <1>4, OpenedWithin, PixelsAreIntegers DEF PreprocessFFT
    <2> QED
        BY <2>1, <1>4 DEF PreprocessFFT, fillVars
<1>5. CASE StartFill
    <2>1. PICK p \in mask : /\ scan' = Position(p) + 1
                            /\ start' = p /\ startx' = p[1] /\ endx' = p[1] + 1 /\ y' = p[2]
        BY <1>5 DEF StartFill, Ahead
    <2>2. p \in Pixels /\ p[1] \in Int /\ p[2] \in Nat /\ Position(p) \in Nat
        BY PositionOrder, LensDetectorAssumption DEF Pixels
    <2> QED
        BY <2>1, <2>2, <1>5 DEF StartFill
<1>6. CASE SkipEdge
    <2>1. PICK p \in mask : scan' = Position(p) + 1
        BY <1>6 DEF SkipEdge, Ahead
    <2>2. Position(p) \in Nat
        BY PositionOrder
    <2>3. mask' \subseteq mask /\ points' = Append(points, {})
        BY <1>6 DEF SkipEdge, Mark
    <2> QED
        BY <2>1, <2>2, <2>3, <1>6 DEF SkipEdge, fillVars
<1>7. CASE FillRow
    <2>1. PICK a, b \in Int : RowFilled(a, b)
        BY <1>7, RowEffect
    <2>2. Row(a, b) \subseteq Pixels
        BY <2>1 DEF RowFilled
    <2> QED
        BY <2>1, <2>2, <1>7 DEF RowFilled, FillRow
<1>8. CASE StopFill
    <2>1. mask' \subseteq mask
        BY <1>8 DEF StopFill, Mark
    <2>2. points' \in Seq(SUBSET Pixels)
        BY <1>8 DEF StopFill
    <2> QED
        BY <2>1, <2>2, <1>8 DEF StopFill, fillVars
<1>9. CASE EndScan
    BY <1>9 DEF EndScan, fillVars
<1> QED
    BY StepCases, <1>1, <1>2, <1>3, <1>4, <1>5, <1>6, <1>7, <1>8, <1>9

LEMMA FillStep ==
    ASSUME DetectTypes, DetectTypes', FillInv, [Next]_vars
    PROVE  FillInv'
<1>1. CASE UNCHANGED vars
    BY <1>1 DEF vars, fillVars, FillInv, minx, maxx, maxy
<1>2. CASE StartFill
    <2>1. PICK p \in mask : /\ scan' = Position(p) + 1 /\ p[1] # Cols - 1
                            /\ start' = p /\ startx' = p[1] /\ endx' = p[1] + 1 /\ y' = p[2]
        BY <1>2 DEF StartFill, Ahead
    <2>2. p \in Pixels /\ p[1] \in 0..(Cols - 1) /\ Cols \in Nat /\ p[2] \in Nat
        BY LensDetectorAssumption, SMTT(40) DEF Pixels, DetectTypes
    <2>3. (start \in Pixels => minx <= start[1] /\ start[1] < maxx)'
        BY StartInLimits, PTL
    <2>4. filled' = {} /\ mask' = mask
        BY <1>2 DEF StartFill
    <2> QED
        BY <2>1, <2>2, <2>3, <2>4 DEF FillInv
<1>3. CASE FillRow
    <2>1. PICK a, b \in Int : RowFilled(a, b)
        BY <1>3, RowEffect
    <2>2. UNCHANGED <<start, scan, pc>> /\ pc = "fill" /\ start \in Pixels /\ y \in Nat
        BY <1>3 DEF FillRow, DetectTypes
    <2>3. minx' = minx /\ maxx' = maxx
        BY <2>2 DEF minx, maxx
    <2>4. maxx \in Nat /\ maxx <= Cols /\ Cols \in Nat
        BY <2>2, Limits, LensDetectorAssumption
    <2>5. start \notin mask' /\ start \in filled'
        <3>1. CASE y = start[2]
            <4>1. start = <<start[1], y>> /\ start[1] \in a..b
                BY <2>1, <2>2, <3>1 DEF Pixels, RowFilled
            <4>2. start \in Row(a, b)
                BY <4>1 DEF Row
            <4> QED
                BY <4>2, <2>1 DEF RowFilled
        <3>2. CASE y # start[2]
            <4>1. start[2] <= y /\ start[2] \in Int
                BY <2>2, LensDetectorAssumption DEF FillInv, Pixels
            <4>2. start \notin mask /\ start \in filled
                BY <4>1, <2>2, <3>2 DEF FillInv
            <4> QED
                BY <4>2, <2>1 DEF RowFilled
        <3> QED
            BY <3>1, <3>2
    <2>6. start[2] < y' /\ start[2] \in Int /\ y' \in Int
        BY <2>1, <2>2, LensDetectorAssumption DEF RowFilled, FillInv, Pixels
    <2>7. minx <= a /\ a <= b /\ b < maxx /\ startx' = a /\ endx' = b
        BY <2>1 DEF RowFilled
    <2>8. start[1] < Cols - 1 /\ scan = Position(start) + 1
        BY <2>2 DEF FillInv
    <2>9. start'[1] < Cols - 1 /\ scan' = Position(start') + 1
        BY <2>2, <2>8
    <2>10. /\ minx' <= startx' /\ startx' <= endx' /\ startx' < maxx' /\ endx' < Cols
           /\ endx' < maxx'
        BY <2>3, <2>4, <2>7
    <2> QED
        BY <2>2, <2>5, <2>6, <2>9, <2>10 DEF FillInv
<1>4. CASE SkipFlat \/ Preprocess \/ PreprocessFFT \/ SkipEdge \/ StopFill \/ EndScan
    BY <1>4 DEF FillInv, SkipFlat, Preprocess, PreprocessFFT, SkipEdge, StopFill, EndScan
<1> QED
    BY StepCases, <1>1, <1>2, <1>3, <1>4

-----------------------------------------------------------------------------
(* Where the pixels of the image are: in the mask, overwritten by a mark,  *)
(* in one point or in the fill, and in one of these at most.               *)
Scanning == pc \in {"scan", "fill", "final"}
CountInv ==
    Scanning =>
        /\ \A p \in image : \/ p \in mask \/ p \in marks
                            \/ \E k \in DOMAIN points : p \in points[k]
                            \/ pc = "fill" /\ p \in filled
        /\ \A k \in DOMAIN points : /\ points[k] \intersect mask = {}
                                    /\ pc = "fill" => points[k] \intersect filled = {}
        /\ \A k, l \in DOMAIN points : k # l => points[k] \intersect points[l] = {}
        /\ pc = "fill" => filled \intersect mask = {}

(* What the scan has passed is processed or in the last column, and it has *)
(* passed nothing without adding a point.                                  *)
ScanInv ==
    Scanning =>
        /\ \A p \in mask : Position(p) < scan => p[1] = Cols - 1 \/ (pc = "fill" /\ p = start)
        /\ pc = "final" => \A p \in mask : p[1] = Cols - 1
        /\ pc # "fill" /\ points = << >> => scan = 0 /\ mask = image
        /\ pc = "final" /\ points = << >> => image = {}

(* A lens that no mark has hit, and a lens the fill is working on: the     *)
(* rows above y are filled, the last of them from startx to endx.          *)
Whole(S) == S \in Components /\ IsLens(S) /\ S \intersect marks = {}
InFill(S) ==
    /\ pc = "fill" /\ S = Component(image, start)
    /\ \A p \in S : Position(start) <= Position(p)
    /\ \A p \in S : p \in mask \/ p \in filled
    /\ filled = {p \in S : p[2] < y}
    /\ y > start[2] => {p \in S : p[2] = y - 1} = {<<x, y - 1>> : x \in startx..endx}

(* The fill stays in the object it began in, whatever its shape, and a     *)
(* lens is untouched, being filled, or a point.                            *)
LensInv ==
    Scanning =>
        /\ pc = "fill" =>
              /\ start \in image
              /\ filled \subseteq Component(image, start)
              /\ y > start[2] => \A x \in startx..endx : <<x, y - 1>> \in filled
        /\ \A S : Whole(S) => \/ S \subseteq mask /\ (pc = "fill" => start \notin S)
                              \/ \E k \in DOMAIN points : points[k] = S
                              \/ InFill(S)

DetectInv == DetectTypes /\ FillInv /\ CountInv /\ ScanInv /\ LensInv

(* The fill never stops in its first row. *)
LEMMA StopBelow ==
    ASSUME DetectTypes, FillInv, StopFill
    PROVE  y > start[2] /\ start \notin mask /\ start \in filled
<1>1. pc = "fill" /\ start \in Pixels /\ y \in Nat /\ startx \in Int /\ endx \in Int
    BY DEF StopFill, DetectTypes
<1>2. start = <<start[1], start[2]>> /\ start[2] \in Int
    BY <1>1, LensDetectorAssumption DEF Pixels
<1>3. y # start[2]
    <2>1. SUFFICES ASSUME y = start[2] PROVE FALSE
        OBVIOUS
    <2>2. y < maxy
        BY <1>1, <2>1, Limits
    <2>3. <<startx, y>> \in mask /\ startx \in startx..endx
        BY <1>1, <1>2, <2>1 DEF FillInv
    <2>4. maxy \in Nat
        BY <1>1, Limits
    <2> QED
        BY <2>2, <2>3, <2>4, <1>1 DEF StopFill
<1> QED
    BY <1>1, <1>2, <1>3 DEF FillInv

(* Appending a point that is disjoint from the others. *)
LEMMA PointAdded ==
    ASSUME NEW S, NEW s \in Seq(S), NEW e \in S,
           \A k, l \in DOMAIN s : k # l => s[k] \intersect s[l] = {},
           \A k \in DOMAIN s : s[k] \intersect e = {}
    PROVE  /\ \A k, l \in DOMAIN Append(s, e) :
                  k # l => Append(s, e)[k] \intersect Append(s, e)[l] = {}
           /\ \A k \in DOMAIN Append(s, e) : (k \in DOMAIN s /\ Append(s, e)[k] = s[k]) \/ Append(s, e)[k] = e
           /\ \A k \in DOMAIN s : k \in DOMAIN Append(s, e) /\ Append(s, e)[k] = s[k]
           /\ \E k \in DOMAIN Append(s, e) : Append(s, e)[k] = e
           /\ Append(s, e) # << >>
<1> DEFINE t == Append(s, e)
<1>1. /\ DOMAIN s = 1..Len(s) /\ DOMAIN t = 1..(Len(s) + 1) /\ Len(s) \in Nat
      /\ \A k \in 1..Len(s) : t[k] = s[k]
      /\ t[Len(s) + 1] = e
    OBVIOUS
<1> HIDE DEF t
<1>2. \A k \in DOMAIN t : (k \in DOMAIN s /\ t[k] = s[k]) \/ (k = Len(s) + 1 /\ t[k] = e)
    BY <1>1
<1>3. \A k, l \in DOMAIN t : k # l => t[k] \intersect t[l] = {}
    BY <1>2
<1>4. \A k \in DOMAIN s : k \in DOMAIN t /\ t[k] = s[k]
    BY <1>1
<1>5. Len(s) + 1 \in DOMAIN t
    BY <1>1
<1>6. t # << >>
    BY <1>5
<1> QED
    BY <1>1, <1>2, <1>3, <1>4, <1>5, <1>6 DEF t

LEMMA CountStep ==
    ASSUME DetectTypes, FillInv, CountInv, [Next]_vars
    PROVE  CountInv'
<1> USE DEF CountInv, Scanning
<1>1. CASE UNCHANGED vars
    BY <1>1 DEF vars, fillVars
<1>2. CASE SkipFlat
    BY <1>2 DEF SkipFlat
<1>3. CASE Preprocess \/ PreprocessFFT
    <2>1. mask' = image' /\ points' = << >> /\ pc' = "scan"
        BY <1>3 DEF Preprocess, PreprocessFFT, DetectTypes
    <2> QED
        BY <2>1
<1>4. CASE StartFill
    BY <1>4 DEF StartFill
<1>5. CASE EndScan
    BY <1>5 DEF EndScan
<1>6. CASE SkipEdge
    <2>1. PICK c : mask' = mask \ {c} /\ marks' = marks \union ({c} \intersect mask)
        BY <1>6 DEF SkipEdge, Mark
    <2>2. pc = "scan" /\ pc' = "scan" /\ image' = image /\ points' = Append(points, {})
        BY <1>6 DEF SkipEdge
    <2>3. points \in Seq(SUBSET Pixels) /\ {} \in SUBSET Pixels
        BY DEF DetectTypes
    <2>4. /\ \A k, l \in DOMAIN points' : k # l => points'[k] \intersect points'[l] = {}
          /\ \A k \in DOMAIN points' : (k \in DOMAIN points /\ points'[k] = points[k]) \/ points'[k] = {}
          /\ \A k \in DOMAIN points : k \in DOMAIN points' /\ points'[k] = points[k]
        BY <2>2, <2>3, PointAdded
    <2> QED
        BY <2>1, <2>2, <2>4
<1>7. CASE FillRow
    <2>1. PICK a, b \in Int : RowFilled(a, b)
        BY <1>7, RowEffect
    <2>2. UNCHANGED <<image, marks, points, pc>> /\ pc = "fill"
        BY <1>7 DEF FillRow
    <2>3. /\ mask' = mask \ Row(a, b) /\ filled' = filled \union Row(a, b)
          /\ Row(a, b) \subseteq mask
        BY <2>1 DEF RowFilled
    <2> QED
        BY <2>2, <2>3
<1>8. CASE StopFill
    <2>1. /\ pc = "fill" /\ pc' = "scan" /\ image' = image /\ points' = Append(points, filled)
        BY <1>8 DEF StopFill
    <2>9. PICK c : mask' = mask \ {c} /\ marks' = marks \union ({c} \intersect mask)
        BY <1>8 DEF StopFill, Mark
    <2>2. points \in Seq(SUBSET Pixels) /\ filled \in SUBSET Pixels
        BY DEF DetectTypes
    <2>3. /\ \A k, l \in DOMAIN points : k # l => points[k] \intersect points[l] = {}
          /\ \A k \in DOMAIN points : points[k] \intersect filled = {}
        BY <2>1
    <2>4. /\ \A k, l \in DOMAIN points' : k # l => points'[k] \intersect points'[l] = {}
          /\ \A k \in DOMAIN points' : (k \in DOMAIN points /\ points'[k] = points[k]) \/ points'[k] = filled
          /\ \A k \in DOMAIN points : k \in DOMAIN points' /\ points'[k] = points[k]
          /\ \E k \in DOMAIN points' : points'[k] = filled
        BY <2>1, <2>2, <2>3, PointAdded
    <2> QED
        BY <2>1, <2>4, <2>9
<1> QED
    BY StepCases, <1>1, <1>2, <1>3, <1>4, <1>5, <1>6, <1>7, <1>8

LEMMA ScanStep ==
    ASSUME DetectTypes, FillInv, ScanInv, [Next]_vars
    PROVE  ScanInv'
<1> USE DEF ScanInv, Scanning
<1>1. CASE UNCHANGED vars
    BY <1>1 DEF vars, fillVars
<1>2. CASE SkipFlat
    BY <1>2 DEF SkipFlat
<1>3. CASE Preprocess \/ PreprocessFFT
    <2>1. mask' = image' /\ points' = << >> /\ pc' = "scan" /\ scan' = 0
        BY <1>3 DEF Preprocess, PreprocessFFT, DetectTypes
    <2>2. \A p \in mask' : Position(p) \in Nat
        <3>1. image' \subseteq Pixels
            BY <1>3, OpenedWithin, PixelsAreIntegers DEF Preprocess, PreprocessFFT, DetectTypes
        <3> QED
            BY <3>1, <2>1, PositionOrder
    <2> QED
        BY <2>1, <2>2
<1>4. CASE StartFill \/ SkipEdge
    <2>1. pc = "scan" /\ image' = image /\ mask' \subseteq mask
        BY <1>4 DEF StartFill, SkipEdge, Mark
    <2>2. PICK p \in Ahead : /\ \A q \in Ahead : Position(p) <= Position(q)
                             /\ scan' = Position(p) + 1
                             /\ (StartFill /\ start' = p) \/ (SkipEdge /\ p[1] = Cols - 1)
        BY <1>4 DEF StartFill, SkipEdge
    <2>3. ASSUME NEW q \in mask, Position(q) < scan'
          PROVE  q[1] = Cols - 1 \/ q = p
        <3>1. p \in Pixels /\ q \in Pixels /\ Position(p) \in Nat /\ Position(q) \in Nat
            BY <2>2, PositionOrder DEF Ahead, DetectTypes
        <3>2. CASE Position(q) < scan
            BY <3>2, <2>1
        <3>3. CASE Position(q) >= scan
            <4>1. Position(p) <= Position(q)
                BY <3>3, <2>2 DEF Ahead
            <4>2. Position(p) = Position(q)
                BY <4>1, <3>1, <2>2, <2>3
            <4> QED
                BY <4>2, <3>1, PositionOrder
        <3> QED
            BY <3>1, <3>2, <3>3 DEF DetectTypes
    <2>4. CASE StartFill
        <3>1. pc' = "fill" /\ start' = p
            BY <2>2, <2>4 DEF StartFill, SkipEdge
        <3> QED
            BY <3>1, <2>1, <2>3
    <2>5. CASE SkipEdge
        <3>1. pc' = "scan" /\ p[1] = Cols - 1 /\ points' = Append(points, {})
            BY <2>1, <2>2, <2>5 DEF StartFill, SkipEdge
        <3>2. points' # << >>
            <4>1. points \in Seq(SUBSET Pixels) /\ {} \in SUBSET Pixels
                BY DEF DetectTypes
            <4> QED
                BY <3>1, <4>1
        <3> QED
            BY <3>1, <3>2, <2>1, <2>3
    <2> QED
        BY <1>4, <2>4, <2>5
<1>5. CASE EndScan
    <2>1. /\ pc = "scan" /\ pc' = "final" /\ UNCHANGED <<image, mask, scan, points>>
          /\ \A p \in mask : ~(Position(p) >= scan)
        BY <1>5 DEF EndScan, Ahead
    <2>2. \A p \in mask : Position(p) \in Nat
        BY PositionOrder DEF DetectTypes
    <2>3. \A p \in mask : Position(p) < scan
        BY <2>1, <2>2 DEF DetectTypes
    <2>4. points = << >> => mask = {}
        BY <2>1, <2>2
    <2> QED
        BY <2>1, <2>3, <2>4
<1>6. CASE FillRow
    <2>1. PICK a, b \in Int : RowFilled(a, b)
        BY <1>6, RowEffect
    <2> QED
        BY <2>1, <1>6 DEF RowFilled, FillRow
<1>7. CASE StopFill
    <2>1. /\ pc = "fill" /\ pc' = "scan" /\ image' = image /\ scan' = scan /\ mask' \subseteq mask
          /\ points' = Append(points, filled)
        BY <1>7 DEF StopFill, Mark
    <2>2. start \notin mask
        BY <1>7, StopBelow
    <2>3. points' # << >>
        <3>1. points \in Seq(SUBSET Pixels) /\ filled \in SUBSET Pixels
            BY DEF DetectTypes
        <3> QED
            BY <3>1, <2>1
    <2> QED
        BY <2>1, <2>2, <2>3
<1> QED
    BY StepCases, <1>1, <1>2, <1>3, <1>4, <1>5, <1>6, <1>7

-----------------------------------------------------------------------------
(* Images of lenses. *)

(* A run of pixels that meets a closed set lies in it. *)
LEMMA RunInside ==
    ASSUME NEW pixels, NEW S, Closed(pixels, S),
           NEW a \in Int, NEW b \in Int, NEW r \in Int, NEW x \in a..b,
           \A z \in a..b : <<z, r>> \in pixels, <<x, r>> \in S
    PROVE  \A z \in a..b : <<z, r>> \in S
<1>1. ASSUME NEW z \in a..b, <<z, r>> \in S, z + 1 \in a..b PROVE <<z + 1, r>> \in S
    <2>1. Adjacent(<<z, r>>, <<z + 1, r>>)
        BY DEF Adjacent
    <2> QED
        BY <1>1, <2>1 DEF Closed
<1>2. ASSUME NEW z \in a..b, <<z, r>> \in S, z - 1 \in a..b PROVE <<z - 1, r>> \in S
    <2>1. Adjacent(<<z, r>>, <<z - 1, r>>)
        BY DEF Adjacent
    <2> QED
        BY <1>2, <2>1 DEF Closed
<1> DEFINE R == {n \in Nat : x + n \in a..b /\ <<x + n, r>> \notin S}
           L == {n \in Nat : x - n \in a..b /\ <<x - n, r>> \notin S}
<1>3. R = {}
    <2>1. SUFFICES ASSUME R # {} PROVE FALSE
        OBVIOUS
    <2>2. PICK m \in R : \A k \in R : m <= k
        BY <2>1, LeastNat
    <2>3. m # 0
        BY <2>2
    <2>4. m - 1 \in Nat /\ m - 1 \notin R /\ x + (m - 1) \in a..b /\ (x + (m - 1)) + 1 = x + m
        BY <2>2, <2>3
    <2>5. <<x + (m - 1), r>> \in S
        BY <2>4
    <2> QED
        BY <2>2, <2>4, <2>5, <1>1
<1>4. L = {}
    <2>1. SUFFICES ASSUME L # {} PROVE FALSE
        OBVIOUS
    <2>2. PICK m \in L : \A k \in L : m <= k
        BY <2>1, LeastNat
    <2>3. m # 0
        BY <2>2
    <2>4. m - 1 \in Nat /\ m - 1 \notin L /\ x - (m - 1) \in a..b /\ (x - (m - 1)) - 1 = x - m
        BY <2>2, <2>3
    <2>5. <<x - (m - 1), r>> \in S
        BY <2>4
    <2> QED
        BY <2>2, <2>4, <2>5, <1>2
<1> TAKE z \in a..b
<1>5. CASE z >= x
    <2>1. z - x \in Nat /\ x + (z - x) = z
        BY <1>5
    <2>2. \A n \in Nat : x + n \in a..b => <<x + n, r>> \in S
        BY <1>3
    <2> QED
        BY <2>1, <2>2
<1>6. CASE z < x
    <2>1. x - z \in Nat /\ x - (x - z) = z
        BY <1>6
    <2>2. \A n \in Nat : x - n \in a..b => <<x - n, r>> \in S
        BY <1>4
    <2> QED
        BY <2>1, <2>2
<1> QED
    BY <1>5, <1>6

(* What a lens is, seen from its first pixel. *)
LEMMA LensShape ==
    ASSUME NEW S \in SUBSET Pixels, NEW p \in S, \A q \in S : Position(p) <= Position(q), IsLens(S)
    PROVE  /\ \A u, v \in S : u[2] = v[2] => \A x \in u[1]..v[1] : <<x, u[2]>> \in S
           /\ \A u \in S : /\ u[2] < p[2] + MAX_LENS_SIZE
                            /\ u[1] < p[1] + MAX_LENS_SIZE
                            /\ u[1] >= p[1] - MAX_LENS_SIZE
<1> DEFINE first == CHOOSE u \in S : \A q \in S : Position(u) <= Position(q)
<1>1. first \in S /\ \A q \in S : Position(first) <= Position(q)
    BY Zenon
<1>2. first = p
    <2>1. Position(first) <= Position(p) /\ Position(p) <= Position(first)
        BY <1>1
    <2>2. Position(first) \in Nat /\ Position(p) \in Nat /\ first \in Pixels /\ p \in Pixels
        BY <1>1, PositionOrder
    <2> HIDE DEF first
    <2>3. Position(first) = Position(p)
        BY <2>1, <2>2
    <2> QED
        BY <2>2, <2>3, PositionOrder
<1> QED
    BY <1>2 DEF IsLens

(* Objects are disjoint: what has a pixel of an object is that object. *)
LEMMA ObjectOf ==
    ASSUME DetectTypes
    PROVE  /\ \A p \in image : /\ p \in Component(image, p) /\ Component(image, p) \in Components
                               /\ Closed(image, Component(image, p))
           /\ \A S \in Components : S # {} /\ S \subseteq image
           /\ \A S \in Components : \A p \in S : S = Component(image, p)
<1>1. IsFiniteSet(image) /\ image \subseteq Pixels
    BY PixelsFinite, FS_Subset DEF DetectTypes
<1>2. \A p \in image : /\ p \in Component(image, p) /\ Component(image, p) \subseteq image
                       /\ Closed(image, Component(image, p))
    BY <1>1, ComponentClosed
<1>3. ASSUME NEW S \in Components, NEW p \in S PROVE S = Component(image, p)
    <2>1. PICK q \in image : S = Component(image, q)
        BY DEF Components
    <2> QED
        BY <2>1, <1>1, <1>2, <1>3, ComponentSame
<1> QED
    BY <1>2, <1>3 DEF Components

(* The rest of LensInv during a fill, with S for the lens. *)
FillState(S) ==
    /\ S = Component(image, start) /\ S \in Components
    /\ S \subseteq image /\ start \in S /\ Closed(image, S)
    /\ \A u, v \in S : u[2] = v[2] => \A x \in u[1]..v[1] : <<x, u[2]>> \in S
    /\ \A u \in S : /\ u \in Pixels /\ u = <<u[1], u[2]>> /\ u[1] \in Nat /\ u[2] \in Nat
                     /\ minx <= u[1] /\ u[1] < maxx /\ u[2] < maxy
                     /\ start[2] <= u[2]
    /\ filled = {p \in S : p[2] < y}
    /\ y > start[2] => {p \in S : p[2] = y - 1} = {<<x, y - 1>> : x \in startx..endx}
    /\ \A u \in S : u \in mask \/ u \in filled

LEMMA LensInWork ==
    ASSUME DetectTypes, LensInv, NEW S, Whole(S), InFill(S)
    PROVE  FillState(S)
<1>1. image \subseteq Pixels /\ Scanning /\ start \in image
    BY DEF DetectTypes, Scanning, InFill, LensInv
<1>2. S \in Components /\ IsLens(S) /\ S = Component(image, start)
    BY DEF Whole, InFill
<1>3. start \in S /\ S \subseteq image /\ Closed(image, S)
    BY <1>1, <1>2, ObjectOf
<1>4. /\ \A u, v \in S : u[2] = v[2] => \A x \in u[1]..v[1] : <<x, u[2]>> \in S
      /\ \A u \in S : /\ u[2] < start[2] + MAX_LENS_SIZE
                       /\ u[1] < start[1] + MAX_LENS_SIZE
                       /\ u[1] >= start[1] - MAX_LENS_SIZE
    <2>1. S \in SUBSET Pixels /\ \A q \in S : Position(start) <= Position(q)
        BY <1>1, <1>3 DEF InFill
    <2> QED
        BY <2>1, <1>2, <1>3, LensShape
<1>5. ASSUME NEW u \in S
      PROVE  /\ u \in Pixels /\ u = <<u[1], u[2]>> /\ u[1] \in Nat /\ u[2] \in Nat
             /\ minx <= u[1] /\ u[1] < maxx /\ u[2] < maxy
             /\ start[2] <= u[2]
    <2>1. /\ u \in Pixels /\ u = <<u[1], u[2]>> /\ u[1] \in Nat /\ u[2] \in Nat
          /\ u[1] < Cols /\ u[2] < Rows
        BY <1>1, <1>3, LensDetectorAssumption DEF Pixels
    <2>2. start \in Pixels
        BY <1>1
    <2>3. minx <= u[1] /\ u[1] < maxx /\ u[2] < maxy
        <3>1. minx \in Nat /\ u[1] >= minx
            BY <2>1, <2>2, <1>4, Limits
        <3>2. u[1] < maxx /\ u[2] < maxy
            BY <2>1, <2>2, <1>4, Limits
        <3> QED
            BY <3>1, <3>2, <2>1
    <2>4. start[2] <= u[2]
        BY <2>1, <2>2, PositionOrder DEF InFill
    <2> QED
        BY <2>1, <2>3, <2>4
<1>6. /\ filled = {p \in S : p[2] < y}
      /\ y > start[2] => {p \in S : p[2] = y - 1} = {<<x, y - 1>> : x \in startx..endx}
      /\ \A u \in S : u \in mask \/ u \in filled
    BY DEF InFill
<1> QED
    BY <1>2, <1>3, <1>4, <1>5, <1>6 DEF FillState

(* A row of the fill lies in the object, whatever its shape. *)
LEMMA RowInside ==
    ASSUME DetectTypes, FillInv, LensInv, pc = "fill",
           NEW a \in Int, NEW b \in Int, RowFilled(a, b)
    PROVE  Row(a, b) \subseteq Component(image, start)
<1> DEFINE S == Component(image, start)
<1>1. start \in image /\ filled \subseteq S
      /\ (y > start[2] => \A x \in startx..endx : <<x, y - 1>> \in filled)
    BY DEF LensInv, Scanning
<1>2. start \in S /\ Closed(image, S)
    BY <1>1, ObjectOf
<1> HIDE DEF S
<1>3. y \in Nat /\ startx \in Int /\ endx \in Int /\ start \in Pixels /\ mask \subseteq image
    BY DEF DetectTypes
<1>4. \A x \in a..b : <<x, y>> \in mask
    BY DEF RowFilled, Row
<1>5. \E x \in a..b : <<x, y>> \in S
    <2>1. CASE y = start[2]
        <3>1. start = <<start[1], y>> /\ start[1] \in a..b
            BY <2>1, <1>3 DEF RowFilled, Pixels
        <3> QED
            BY <3>1, <1>2
    <2>2. CASE y # start[2]
        <3>1. y > start[2]
            BY <2>2, <1>3, LensDetectorAssumption DEF FillInv, Pixels
        <3>2. PICK x \in a..b : x \in startx..endx
            BY DEF RowFilled
        <3>3. <<x, y - 1>> \in S
            BY <3>1, <3>2, <1>1
        <3>4. Adjacent(<<x, y - 1>>, <<x, y>>)
            BY <3>2, <1>3 DEF Adjacent
        <3>5. <<x, y>> \in image
            BY <3>2, <1>3, <1>4
        <3> QED
            BY <3>2, <3>3, <3>4, <3>5, <1>2 DEF Closed
    <2> QED
        BY <2>1, <2>2
<1>6. \A z \in a..b : <<z, y>> \in S
    <2>1. \A z \in a..b : <<z, y>> \in image
        BY <1>3, <1>4
    <2>2. Closed(image, S) /\ y \in Int
        BY <1>2, <1>3
    <2>3. PICK m \in a..b : <<m, y>> \in S
        BY <1>5
    <2> QED
        BY <2>1, <2>2, <2>3, RunInside
<1> QED
    BY <1>6 DEF Row, S

(* A row of the fill is the row of the lens: no pixel is missed at either  *)
(* end, and none of another lens is taken.                                 *)
LEMMA RowOfLens ==
    ASSUME DetectTypes, FillInv, LensInv, pc = "fill", NEW S, Whole(S), InFill(S),
           NEW a \in Int, NEW b \in Int, RowFilled(a, b)
    PROVE  Row(a, b) = {p \in S : p[2] = y}
<1>1. FillState(S)
    BY LensInWork
<1>2. y \in Nat /\ startx \in Int /\ endx \in Int /\ start \in Pixels /\ mask \subseteq image
    BY DEF DetectTypes
<1>3. minx \in Int /\ maxx \in Int
    BY <1>2, Limits
<1>4. Row(a, b) \subseteq S
    BY <1>1, RowInside DEF FillState
<1>6. PICK m \in a..b : <<m, y>> \in S
    <2>1. a \in a..b
        BY DEF RowFilled
    <2> QED
        BY <2>1, <1>4 DEF Row
<1>8. ASSUME NEW p \in S, p[2] = y PROVE p \in Row(a, b)
    <2>1. p = <<p[1], y>> /\ p[1] \in Int /\ minx <= p[1] /\ p[1] < maxx
        BY <1>8, <1>1 DEF FillState
    <2>2. \A x : <<x, y>> \in S => <<x, y>> \in mask
        <3> SUFFICES ASSUME NEW x, <<x, y>> \in S PROVE <<x, y>> \in mask
            OBVIOUS
        <3>1. <<x, y>> \notin filled
            BY <1>1, <1>2 DEF FillState
        <3> QED
            BY <3>1, <1>1 DEF FillState
    <2>3. ~(p[1] < a)
        <3>1. SUFFICES ASSUME p[1] < a PROVE FALSE
            OBVIOUS
        <3>2. a - 1 \in p[1]..m
            BY <3>1, <2>1, <1>6
        <3>3. <<a - 1, y>> \in S
            <4>1. <<m, y>>[1] = m /\ <<m, y>>[2] = y
                OBVIOUS
            <4> QED
                BY <4>1, <3>2, <1>1, <1>6, <1>8 DEF FillState
        <3>4. a # minx
            BY <3>1, <2>1, <1>3
        <3> QED
            BY <3>3, <3>4, <2>2 DEF RowFilled
    <2>4. ~(p[1] > b)
        <3>1. SUFFICES ASSUME p[1] > b PROVE FALSE
            OBVIOUS
        <3>2. b + 1 \in m..p[1]
            BY <3>1, <2>1, <1>6
        <3>3. <<b + 1, y>> \in S
            <4>1. <<m, y>>[1] = m /\ <<m, y>>[2] = y
                OBVIOUS
            <4> QED
                BY <4>1, <3>2, <1>1, <1>6, <1>8 DEF FillState
        <3>4. b # maxx - 1
            BY <3>1, <2>1, <1>3
        <3> QED
            BY <3>3, <3>4, <2>2 DEF RowFilled
    <2>5. p[1] \in a..b
        BY <2>1, <2>3, <2>4
    <2> QED
        BY <2>1, <2>5 DEF Row
<1>9. \A p \in Row(a, b) : p[2] = y
    BY DEF Row
<1> QED
    BY <1>4, <1>8, <1>9

(* When the fill of a lens stops, the whole lens is filled. *)
LEMMA LensFilled ==
    ASSUME DetectTypes, FillInv, LensInv, StopFill, NEW S, Whole(S), InFill(S)
    PROVE  filled = S
<1>2. FillState(S)
    BY LensInWork
<1>3. y > start[2] /\ start \in filled
    BY StopBelow
<1>4. y \in Nat /\ startx \in Int /\ endx \in Int /\ start \in Pixels
    BY DEF DetectTypes
<1>5. IsFiniteSet(image) /\ start \in image /\ S = Component(image, start)
    BY <1>2, PixelsFinite, FS_Subset DEF DetectTypes, FillState
<1>6. maxy \in Nat
    BY <1>4, Limits
<1>7. S \subseteq filled
    <2>1. CASE y >= maxy
        BY <2>1, <1>2, <1>4, <1>6 DEF FillState
    <2>2. CASE \A x \in startx..endx : <<x, y>> \notin mask
        <3>1. ASSUME NEW u \in filled, NEW v \in image, Adjacent(u, v) PROVE v \in filled
            <4>1. u \in S /\ u[2] < y /\ v \in S
                BY <3>1, <1>2 DEF FillState, Closed
            <4>2. /\ u[1] \in Nat /\ u[2] \in Nat /\ u = <<u[1], u[2]>>
                  /\ v[1] \in Nat /\ v[2] \in Nat /\ v = <<v[1], v[2]>>
                BY <4>1, <1>2 DEF FillState
            <4>3. SUFFICES ASSUME v[2] >= y PROVE FALSE
                BY <4>1, <4>2, <1>2, <1>4 DEF FillState
            <4>4. u[2] = y - 1 /\ v[2] = y /\ u[1] = v[1]
                BY <4>1, <4>2, <4>3, <3>1, <1>4 DEF Adjacent
            <4>5. u[1] \in startx..endx
                <5>1. u \in {<<x, y - 1>> : x \in startx..endx}
                    BY <4>1, <4>4, <1>2, <1>3 DEF FillState
                <5> QED
                    BY <5>1
            <4>6. v \notin filled
                BY <4>4, <1>2, <1>4 DEF FillState
            <4>7. <<v[1], y>> \in mask
                BY <4>1, <4>2, <4>4, <4>6, <1>2 DEF FillState
            <4> QED
                BY <4>4, <4>5, <4>7, <2>2
        <3>2. Closed(image, filled)
            BY <3>1 DEF Closed
        <3> QED
            BY <3>2, <1>3, <1>5, ComponentLeast
    <2> QED
        BY <2>1, <2>2 DEF StopFill
<1> QED
    BY <1>7, <1>2 DEF FillState

(* A mark spares the lenses it does not hit. *)
LEMMA MarkSpares ==
    ASSUME NEW c, Mark(c), image' = image
    PROVE  \A S : Whole(S)' => Whole(S) /\ (S \subseteq mask => S \subseteq mask')
<1>1. PICK p : mask' = mask \ {p} /\ marks' = marks \union ({p} \intersect mask)
    BY DEF Mark
<1>2. Components' = Components
    BY DEF Components
<1> QED
    BY <1>1, <1>2 DEF Whole

(* A lens that is found stays found when a point is added. *)
LEMMA FoundStays ==
    ASSUME DetectTypes, NEW e, e \in SUBSET Pixels, points' = Append(points, e)
    PROVE  /\ \A S : (\E k \in DOMAIN points : points[k] = S) => \E k \in DOMAIN points' : points'[k] = S
           /\ \E k \in DOMAIN points' : points'[k] = e
<1>1. points \in Seq(SUBSET Pixels)
    BY DEF DetectTypes
<1>2. /\ \A k \in 1..Len(points) : points'[k] = points[k]
      /\ DOMAIN points = 1..Len(points) /\ DOMAIN points' = 1..(Len(points) + 1)
      /\ points'[Len(points) + 1] = e /\ Len(points) \in Nat
    BY <1>1
<1>3. \A k \in 1..Len(points) : k \in 1..(Len(points) + 1)
    BY <1>2
<1>4. Len(points) + 1 \in 1..(Len(points) + 1)
    BY <1>2
<1> QED
    BY <1>2, <1>3, <1>4

(* The beginning of a fill: a lens is begun with its first pixel. *)
LEMMA LensStarted ==
    ASSUME DetectTypes, ScanInv, StartFill, NEW S \in Components, IsLens(S), S \subseteq mask, start' \in S
    PROVE  InFill(S)'
<1>1. PICK p \in Ahead : /\ \A q \in Ahead : Position(p) <= Position(q)
                         /\ start' = p /\ y' = p[2]
    BY DEF StartFill
<1>2. /\ pc = "scan" /\ pc' = "fill" /\ filled' = {} /\ mask' = mask /\ image' = image
      /\ p \in Pixels /\ p \in S /\ S \subseteq Pixels
    BY <1>1, ObjectOf DEF StartFill, Ahead, DetectTypes
<1>3. S = Component(image, p)
    BY <1>2, ObjectOf
<1>4. ASSUME NEW q \in S PROVE Position(p) <= Position(q)
    <2>1. q \in Pixels /\ Position(q) \in Nat /\ scan \in Nat
        BY <1>2, PositionOrder DEF DetectTypes
    <2>2. ~(Position(q) < scan)
        <3>1. q[1] # Cols - 1
            <4>1. q[1] < Cols - 1
                BY DEF IsLens
            <4> QED
                BY <4>1, LensDetectorAssumption
        <3> QED
            BY <3>1, <1>2 DEF ScanInv, Scanning
    <2>3. q \in Ahead
        BY <2>1, <2>2 DEF Ahead
    <2> QED
        BY <2>3, <1>1
<1>5. ASSUME NEW q \in S PROVE ~(q[2] < p[2])
    <2>1. p \in Pixels /\ q \in Pixels
        BY <1>2
    <2>2. p[2] <= q[2] /\ p[2] \in Int /\ q[2] \in Int
        BY <2>1, <1>4, PositionOrder, LensDetectorAssumption DEF Pixels
    <2> QED
        BY <2>2
<1>6. ~(p[2] > p[2])
    BY <1>2, LensDetectorAssumption DEF Pixels
<1>7. {} = {q \in S : q[2] < p[2]}
    BY <1>5
<1>8. \A q \in S : Position(start') <= Position(q)
    BY <1>1, <1>4
<1> QED
    BY <1>1, <1>2, <1>3, <1>6, <1>7, <1>8 DEF InFill, Position

(* A row of the fill of a lens. *)
LEMMA LensRow ==
    ASSUME DetectTypes, FillInv, LensInv, FillRow, NEW S, Whole(S), InFill(S),
           NEW a \in Int, NEW b \in Int, RowFilled(a, b)
    PROVE  InFill(S)'
<1>1. pc = "fill" /\ UNCHANGED <<image, pc, start>> /\ y \in Nat
    BY DEF FillRow, DetectTypes
<1>2. Row(a, b) = {p \in S : p[2] = y}
    BY <1>1, RowOfLens
<1>3. /\ S = Component(image, start) /\ \A p \in S : Position(start) <= Position(p)
      /\ filled = {p \in S : p[2] < y} /\ \A p \in S : p \in mask \/ p \in filled
    BY DEF InFill
<1>4. \A p \in S : p[2] \in Nat
    BY ObjectOf, LensDetectorAssumption DEF Whole, DetectTypes, Pixels
<1>5. filled' = {p \in S : p[2] < y'}
    <2>1. filled' = filled \union Row(a, b) /\ y' = y + 1
        BY DEF RowFilled
    <2>2. \A p \in S : p[2] < y + 1 <=> (p[2] < y \/ p[2] = y)
        BY <1>1, <1>4
    <2> QED
        BY <2>1, <2>2, <1>2, <1>3
<1>6. {p \in S : p[2] = y' - 1} = {<<x, y' - 1>> : x \in startx'..endx'}
    <2>1. y' - 1 = y /\ startx' = a /\ endx' = b
        BY <1>1 DEF RowFilled
    <2> QED
        BY <2>1, <1>2 DEF Row
<1>7. \A p \in S : p \in mask' \/ p \in filled'
    BY <1>3 DEF RowFilled
<1>8. \A p \in S : Position(start') <= Position(p)
    BY <1>1, <1>3
<1>9. pc' = "fill" /\ S = Component(image', start')
    BY <1>1, <1>3
<1> QED
    BY <1>5, <1>6, <1>7, <1>8, <1>9 DEF InFill, Position

LEMMA ObjectsInImage == DetectTypes => \A S \in Components : S \subseteq image
BY ObjectOf

LEMMA LensStep ==
    ASSUME DetectTypes, FillInv, ScanInv, LensInv, [Next]_vars
    PROVE  LensInv'
<1>1. CASE SkipFlat
    BY <1>1 DEF SkipFlat, LensInv, Scanning
<1>2. CASE Preprocess \/ PreprocessFFT
    <2>1. mask' = image' /\ pc' = "scan"
        BY <1>2 DEF Preprocess, PreprocessFFT
    <2>2. DetectTypes'
        BY TypeStep
    <2>3. \A S : Whole(S)' => S \subseteq image'
        <3>1. (\A S \in Components : S \subseteq image)'
            BY <2>2, ObjectsInImage, PTL
        <3> QED
            BY <3>1 DEF Whole
    <2> QED
        BY <2>1, <2>3 DEF LensInv
<1>3. CASE UNCHANGED vars
    <2>1. Scanning' = Scanning /\ UNCHANGED <<pc, image, start, filled, y, startx, endx, mask, marks, points>>
        BY <1>3 DEF vars, fillVars, Scanning
    <2>2. \A S : Whole(S)' = Whole(S)
        BY <2>1 DEF Whole, Components
    <2>3. \A S : InFill(S)' = InFill(S)
        BY <2>1 DEF InFill, Position
    <2> QED
        BY <2>1, <2>2, <2>3 DEF LensInv
<1>4. CASE StartFill
    <2>1. pc = "scan" /\ pc' = "fill" /\ UNCHANGED <<image, mask, points, marks>> /\ filled' = {}
        BY <1>4 DEF StartFill
    <2>2. start' \in image /\ ~(y' > start'[2])
        <3>1. PICK p \in Ahead : start' = p /\ y' = p[2]
            BY <1>4 DEF StartFill
        <3> QED
            BY <3>1, LensDetectorAssumption DEF Ahead, DetectTypes, Pixels
    <2>3. ASSUME NEW S, Whole(S)'
          PROVE  \/ S \subseteq mask' /\ start' \notin S
                 \/ \E k \in DOMAIN points' : points'[k] = S
                 \/ InFill(S)'
        <3>1. Whole(S)
            BY <2>1, <2>3 DEF Whole, Components
        <3>2. S \subseteq mask \/ \E k \in DOMAIN points : points[k] = S
            BY <3>1, <2>1 DEF LensInv, Scanning, InFill
        <3> QED
            BY <3>1, <3>2, <2>1, <1>4, LensStarted DEF Whole
    <2> QED
        BY <2>1, <2>2, <2>3 DEF LensInv
<1>5. CASE SkipEdge
    <2>1. pc = "scan" /\ pc' = "scan" /\ image' = image /\ points' = Append(points, {}) /\ Mark(<<0, 0>>)
        BY <1>5 DEF SkipEdge
    <2>2. \A S : Whole(S)' => Whole(S) /\ (S \subseteq mask => S \subseteq mask')
        BY <2>1, MarkSpares
    <2>3. \A S : (\E k \in DOMAIN points : points[k] = S) => \E k \in DOMAIN points' : points'[k] = S
        <3>1. {} \in SUBSET Pixels
            OBVIOUS
        <3> QED
            BY <3>1, <2>1, FoundStays
    <2>4. \A S : Whole(S) => S \subseteq mask \/ \E k \in DOMAIN points : points[k] = S
        BY <2>1 DEF LensInv, Scanning, InFill
    <2> QED
        BY <2>1, <2>2, <2>3, <2>4 DEF LensInv
<1>6. CASE FillRow
    <2>1. PICK a, b \in Int : RowFilled(a, b)
        BY <1>6, RowEffect
    <2>2. pc = "fill" /\ UNCHANGED <<image, pc, start, points, marks>>
        BY <1>6 DEF FillRow
    <2> DEFINE C == Component(image, start)
    <2>3. start \in image /\ filled \subseteq C
        BY <2>2 DEF LensInv, Scanning
    <2>4. Row(a, b) \subseteq C
        BY <2>1, <2>2, RowInside
    <2>5. C = Component(image', start')
        BY <2>2
    <2>6. filled' \subseteq C
        BY <2>1, <2>3, <2>4 DEF RowFilled
    <2>7. \A x \in startx'..endx' : <<x, y' - 1>> \in filled'
        <3>1. y' - 1 = y /\ startx' = a /\ endx' = b /\ filled' = filled \union Row(a, b)
            BY <2>1 DEF RowFilled, DetectTypes
        <3> QED
            BY <3>1 DEF Row
    <2>8. ASSUME NEW S, Whole(S)'
          PROVE  \/ S \subseteq mask' /\ start' \notin S
                 \/ \E k \in DOMAIN points' : points'[k] = S
                 \/ InFill(S)'
        <3>1. Whole(S)
            BY <2>2, <2>8 DEF Whole, Components
        <3>2. CASE S \subseteq mask /\ start \notin S
            <4>1. S \intersect C = {}
                <5>1. SUFFICES ASSUME NEW q \in S, q \in C PROVE FALSE
                    OBVIOUS
                <5>2. S = Component(image, q) /\ C = Component(image, q) /\ start \in C
                    BY <5>1, <3>1, <2>3, ObjectOf DEF Whole
                <5> QED
                    BY <5>2, <3>2
            <4>2. mask' = mask \ Row(a, b)
                BY <2>1 DEF RowFilled
            <4> QED
                BY <4>1, <4>2, <2>2, <2>4, <3>2
        <3>3. CASE InFill(S)
            BY <3>1, <3>3, <2>1, <1>6, LensRow
        <3> QED
            BY <3>1, <3>2, <3>3, <2>2 DEF LensInv, Scanning
    <2> HIDE DEF C
    <2> QED
        BY <2>2, <2>3, <2>5, <2>6, <2>7, <2>8 DEF LensInv
<1>7. CASE StopFill
    <2>1. /\ pc = "fill" /\ pc' = "scan" /\ image' = image /\ points' = Append(points, filled)
          /\ Mark(Centroid(filled))
        BY <1>7 DEF StopFill
    <2>2. \A S : Whole(S)' => Whole(S) /\ (S \subseteq mask => S \subseteq mask')
        BY <2>1, MarkSpares
    <2>3. /\ \A S : (\E k \in DOMAIN points : points[k] = S) => \E k \in DOMAIN points' : points'[k] = S
          /\ \E k \in DOMAIN points' : points'[k] = filled
        <3>1. filled \in SUBSET Pixels
            BY DEF DetectTypes
        <3> QED
            BY <3>1, <2>1, FoundStays
    <2>4. \A S : Whole(S) =>
              S \subseteq mask \/ S = filled \/ \E k \in DOMAIN points : points[k] = S
        <3>1. ASSUME NEW S, Whole(S), InFill(S) PROVE S = filled
            BY <3>1, <1>7, LensFilled
        <3>2. \A S : Whole(S) =>
                  S \subseteq mask \/ InFill(S) \/ \E k \in DOMAIN points : points[k] = S
            BY <2>1 DEF LensInv, Scanning
        <3> QED
            BY <3>1, <3>2
    <2> QED
        BY <2>1, <2>2, <2>3, <2>4 DEF LensInv
<1>8. CASE EndScan
    <2>1. pc = "scan" /\ pc' = "final" /\ UNCHANGED <<image, mask, points, marks>>
        BY <1>8 DEF EndScan
    <2>2. \A S : Whole(S)' = Whole(S)
        BY <2>1 DEF Whole, Components
    <2>3. \A S : Whole(S) => S \subseteq mask \/ \E k \in DOMAIN points : points[k] = S
        BY <2>1 DEF LensInv, Scanning, InFill
    <2> QED
        BY <2>1, <2>2, <2>3 DEF LensInv
<1> QED
    BY StepCases, <1>1, <1>2, <1>3, <1>4, <1>5, <1>6, <1>7, <1>8

LEMMA DetectInvariant == Spec => []DetectInv
<1>1. Init => DetectInv
    <2> SUFFICES ASSUME Init PROVE DetectInv
        OBVIOUS
    <2>1. <<0, 0>> \in Pixels
        BY LensDetectorAssumption DEF Pixels
    <2>2. DetectTypes
        BY <2>1 DEF Init, DetectTypes
    <2>3. FillInv /\ CountInv /\ ScanInv /\ LensInv
        BY DEF Init, FillInv, CountInv, ScanInv, LensInv, Scanning
    <2> QED
        BY <2>2, <2>3 DEF DetectInv
<1>2. DetectInv /\ [Next]_vars => DetectInv'
    BY TypeStep, FillStep, CountStep, ScanStep, LensStep DEF DetectInv
<1> QED
    BY <1>1, <1>2, PTL DEF Spec

(* The points of a finished scan include every lens no mark has hit. *)
LEMMA PointsAreLenses ==
    ASSUME DetectInv
    PROVE  OnePointPerLens
<1> USE DEF DetectInv
<1>1. SUFFICES ASSUME pc = "final", NEW S \in Components, IsLens(S), S \intersect marks = {}
               PROVE  \E k \in DOMAIN points :
                          /\ points[k] = S
                          /\ \A l \in DOMAIN points \ {k} : points[l] \intersect S = {}
    BY DEF OnePointPerLens
<1>2. Scanning /\ Whole(S)
    BY <1>1 DEF Scanning, Whole
<1>3. ~(S \subseteq mask)
    <2>1. PICK p \in S : p[1] < Cols - 1
        BY <1>1, ObjectOf DEF IsLens
    <2>2. \A q \in mask : q[1] = Cols - 1
        BY <1>1, <1>2 DEF ScanInv
    <2> QED
        BY <2>1, <2>2, LensDetectorAssumption
<1>4. PICK k \in DOMAIN points : points[k] = S
    BY <1>1, <1>2, <1>3 DEF LensInv, InFill
<1>5. \A l \in DOMAIN points : l # k => points[l] \intersect S = {}
    BY <1>2, <1>4 DEF CountInv
<1> QED
    BY <1>4, <1>5

(* LensesFound: for every image, findCentroid keeps to its limits, every   *)
(* pixel outside the last column is counted once unless a mark overwrote   *)
(* it, and every lens no mark has hit becomes exactly one point, made of   *)
(* exactly its pixels, wherever refineCentroid puts the marks.             *)
THEOREM DetectCorrect == Spec => []LensesFound
<1>1. DetectInv => LensesFound
    <2> SUFFICES ASSUME DetectInv PROVE LensesFound
        OBVIOUS
    <2>1. SearchInRow
        BY DEF DetectInv, FillInv, SearchInRow
    <2>2. EveryPixelCounted
        <3>1. SUFFICES ASSUME pc = "final" PROVE EveryPixelCounted
            BY DEF EveryPixelCounted
        <3>2. \A p \in mask : p[1] = Cols - 1
            BY <3>1 DEF DetectInv, ScanInv, Scanning
        <3> QED
            BY <3>1, <3>2, LensDetectorAssumption DEF EveryPixelCounted, DetectInv, CountInv, Scanning
    <2>3. FinalizedWithPoints
        BY DEF DetectInv, ScanInv, Scanning, FinalizedWithPoints
    <2> QED
        BY <2>1, <2>2, <2>3, PointsAreLenses DEF LensesFound
<1> QED
    BY <1>1, DetectInvariant, PTL
=============================================================================
