-------------------------- MODULE CalibrateProofs ---------------------------
(***************************************************************************)
(* Theorems about Calibrate, for any number of images, any lines and any   *)
(* limits.                                                                 *)
(***************************************************************************)
EXTENDS Calibrate, FiniteSetTheorems, SequenceTheorems, NaturalsInduction, WellFoundedInduction, TLAPS

(* Every set of natural numbers has a least element, which is what the     *)
(* arguments below use for induction.                                      *)
LEMMA LeastNat ==
    ASSUME NEW T \in SUBSET Nat, T # {}
    PROVE  \E n \in T : \A m \in T : n <= m
<1> DEFINE R == {ss \in Nat \X Nat : ss[1] < ss[2]}
<1>1. IsWellFoundedOn(R, Nat)
    BY NatLessThanWellFounded, Zenon DEF OpToRel
<1> HIDE DEF R
<1>2. PICK n \in T : \A m \in T : ~(<<m, n>> \in R)
    BY <1>1, WFMin
<1>3. \A m \in T : ~(m < n)
    BY <1>2 DEF R
<1> QED
    BY <1>3

-----------------------------------------------------------------------------
(* The greatest common divisor. *)

Divides(d, n) == \E k \in Nat : n = d * k
Common2(a, b) == {d \in Nat : Divides(d, a) /\ Divides(d, b)}
Greatest(S) == IF \E d \in S : \A e \in S : e <= d THEN CHOOSE d \in S : \A e \in S : e <= d ELSE 0

LEMMA Division ==
    ASSUME NEW a \in Nat, NEW b \in Nat, b # 0
    PROVE  \E q \in Nat : a = b * q + (a % b) /\ a % b \in 0..(b - 1)
<1>1. a % b \in 0..(b - 1) /\ a \div b \in Nat /\ a = b * (a \div b) + (a % b)
  OBVIOUS
<1> QED
  BY <1>1

LEMMA DivisorsKept ==
    ASSUME NEW a \in Nat, NEW b \in Nat, b # 0
    PROVE  Common2(a, b) = Common2(b, a % b)
<1>1. PICK q \in Nat : a = b * q + (a % b) /\ a % b \in 0..(b - 1)
  BY Division
<1>2. PICK r \in Nat : r = a % b
  BY <1>1
<1>3. ASSUME NEW d \in Nat, NEW k \in Nat, NEW l \in Nat, a = d * k, b = d * l
      PROVE  \E m \in Nat : r = d * m
  <2>1. d > 0 
    BY <1>3
  <2>2. PICK x \in Nat : x = l * q
    OBVIOUS
  <2>3. b * q = d * x
    BY <1>3, <2>2
  <2>4. r = d * k - d * x
    BY <1>1, <1>2, <1>3, <2>3
  <2>5. r = d * (k - x)
    BY <2>4
  <2>6. k - x >= 0
    <3>1. CASE k - x < 0
      <4>1. d * (k - x) < 0
        BY <2>1, <3>1
      <4> QED
        BY <2>5, <4>1
    <3> QED
      BY <3>1
  <2> QED
    BY <2>5, <2>6
<1>4. ASSUME NEW d \in Nat, NEW l \in Nat, NEW m \in Nat, b = d * l, r = d * m
      PROVE  \E k \in Nat : a = d * k
  <2>1. a = (d * l) * q + d * m
    BY <1>1, <1>2, <1>4
  <2>2. PICK x \in Nat : x = l * q
    OBVIOUS
  <2>3. (d * l) * q = d * x
    BY <2>2
  <2>4. a = d * (x + m)
    BY <2>1, <2>3
  <2> QED
    BY <2>4
<1> QED
  BY <1>2, <1>3, <1>4, ZenonT(60) DEF Common2, Divides

LEMMA GreatestWithZero ==
    ASSUME NEW a \in Nat
    PROVE  Greatest(Common2(a, 0)) = a
<1>1. \A d \in Nat : Divides(d, 0)
  <2>1. \A d \in Nat : 0 = d * 0
    OBVIOUS
  <2> QED
    BY <2>1 DEF Divides
<1>2. CASE a = 0
  <2>1. Common2(a, 0) = Nat
    BY <1>1, <1>2 DEF Common2
  <2>2. ~\E d \in Nat : \A e \in Nat : e <= d
    <3> SUFFICES ASSUME NEW d \in Nat, \A e \in Nat : e <= d PROVE FALSE
      OBVIOUS
    <3>1. d + 1 <= d
      OBVIOUS
    <3> QED
      BY <3>1
  <2> QED
    BY <1>2, <2>1, <2>2 DEF Greatest
<1>3. CASE a # 0
  <2>1. a \in Common2(a, 0)
    <3>1. a = a * 1
      OBVIOUS
    <3> QED
      BY <1>1, <3>1 DEF Common2, Divides
  <2>2. \A d \in Common2(a, 0) : d \in Nat /\ d <= a
    <3> SUFFICES ASSUME NEW d \in Nat, NEW k \in Nat, a = d * k PROVE d <= a
      BY DEF Common2, Divides
    <3>1. k >= 1
      BY <1>3
    <3> QED
      BY <3>1
  <2> DEFINE S == Common2(a, 0)
  <2>3. a \in S /\ \A d \in S : (\A e \in S : e <= d) <=> d = a
    BY <2>1, <2>2
  <2> HIDE DEF S
  <2>4. PICK c : c = CHOOSE d \in S : \A e \in S : e <= d
    OBVIOUS
  <2>5. c \in S /\ \A e \in S : e <= c
    <3>1. \A e \in S : e <= a
      BY <2>3, Zenon
    <3>2. \E d \in S : \A e \in S : e <= d
      BY <2>3, <3>1, Zenon
    <3> QED
      BY <2>4, <3>2, Zenon
  <2>6. c = a /\ Greatest(S) = c
    BY <2>3, <2>4, <2>5 DEF Greatest
  <2> QED
    BY <2>6 DEF S
<1> QED
  BY <1>2, <1>3

LEMMA GcdEquation ==
    ASSUME NEW a \in Nat, NEW b \in Nat
    PROVE  gcd[<<a, b>>] = IF b = 0 THEN a ELSE gcd[<<b, a % b>>]
<1> DEFINE F(f) == [p \in Nat \X Nat |-> IF p[2] = 0 THEN p[1] ELSE f[<<p[2], p[1] % p[2]>>]]
           w == [p \in Nat \X Nat |-> Greatest(Common2(p[1], p[2]))]
<1>1. w = F(w)
  <2>1. ASSUME NEW p \in Nat \X Nat PROVE w[p] = F(w)[p]
    <3>1. CASE p[2] = 0
      BY <3>1, GreatestWithZero
    <3>2. CASE p[2] # 0
      <4>1. p[1] % p[2] \in Nat
        BY <3>2
      <4>2. w[<<p[2], p[1] % p[2]>>] = Greatest(Common2(p[2], p[1] % p[2]))
        BY <4>1
      <4>3. Common2(p[1], p[2]) = Common2(p[2], p[1] % p[2])
        BY <3>2, DivisorsKept
      <4>4. F(w)[p] = w[<<p[2], p[1] % p[2]>>]
        BY <3>2
      <4>5. w[p] = Greatest(Common2(p[1], p[2]))
        OBVIOUS
      <4> QED
        BY <4>2, <4>3, <4>4, <4>5
    <3> QED
      BY <3>1, <3>2
  <2> HIDE DEF Greatest
  <2> QED
    BY <2>1
<1>2. gcd = CHOOSE f : f = F(f)
  BY DEF gcd
<1>3. gcd = F(gcd)
  <2> HIDE DEF F, w
  <2> QED
    BY <1>1, <1>2
<1>4. <<a, b>> \in Nat \X Nat
  OBVIOUS
<1>5. gcd[<<a, b>>] = F(gcd)[<<a, b>>]
  BY <1>3, Zenon
<1> QED
  BY <1>4, <1>5

LEMMA GcdDivides ==
    ASSUME NEW a \in Nat, NEW b \in Nat
    PROVE  /\ gcd[<<a, b>>] \in Nat /\ Divides(gcd[<<a, b>>], a) /\ Divides(gcd[<<a, b>>], b)
           /\ a # 0 \/ b # 0 => gcd[<<a, b>>] > 0
<1> DEFINE Good(x, y) == /\ gcd[<<x, y>>] \in Nat /\ gcd[<<x, y>>] \in Common2(x, y)
                         /\ x # 0 \/ y # 0 => gcd[<<x, y>>] > 0
           Bad == {y \in Nat : \E x \in Nat : ~Good(x, y)}
<1>1. Bad = {}
  <2> SUFFICES ASSUME Bad # {} PROVE FALSE
    OBVIOUS
  <2>1. PICK y \in Bad : \A z \in Bad : y <= z
    BY LeastNat
  <2>2. PICK x \in Nat : ~Good(x, y)
    OBVIOUS
  <2>3. CASE y = 0
    <3>1. gcd[<<x, y>>] = x
      BY <2>3, GcdEquation
    <3>2. x = x * 1 /\ 0 = x * 0
      OBVIOUS
    <3> QED
      BY <2>2, <2>3, <3>1, <3>2 DEF Common2, Divides
  <2>4. CASE y # 0
    <3>1. gcd[<<x, y>>] = gcd[<<y, x % y>>]
      BY <2>4, GcdEquation
    <3>2. x % y \in Nat /\ x % y < y
      BY <2>4
    <3>3. x % y \notin Bad
      BY <2>1, <3>2
    <3>4. Good(y, x % y)
      BY <3>2, <3>3
    <3>5. Common2(x, y) = Common2(y, x % y)
      BY <2>4, DivisorsKept
    <3> QED
      BY <2>2, <2>4, <3>1, <3>4, <3>5
  <2> QED
    BY <2>3, <2>4
<1>2. Good(a, b)
  BY <1>1
<1> QED
  BY <1>2 DEF Common2

-----------------------------------------------------------------------------
(* Fractions. *)

Fraction == [num : Int, den : Nat]
Proper == {p \in Fraction : p.den > 0}

LEMMA Quotients ==
    ASSUME NEW g \in Nat, g > 0, NEW k \in Int
    PROVE  (g * k) \div g = k
OBVIOUS

LEMMA RatioValue ==
    ASSUME NEW n \in Int, NEW d \in Nat, d > 0
    PROVE  Ratio(n, d) \in Proper /\ Ratio(n, d).num * d = n * Ratio(n, d).den
<1>1. Abs(n) \in Nat /\ Abs(d) = d
  BY DEF Abs
<1> DEFINE g == gcd[<<Abs(n), d>>]
<1>2. g \in Nat /\ g > 0 /\ Divides(g, Abs(n)) /\ Divides(g, d)
  BY <1>1, GcdDivides
<1>3. Ratio(n, d) = [num |-> n \div g, den |-> d \div g]
  <2>1. Ratio(n, d) = [num |-> 1 * (n \div g), den |-> d \div g]
    BY <1>1 DEF Ratio
  <2>2. n \div g \in Int
    BY <1>2
  <2> QED
    BY <2>1, <2>2
<1> HIDE DEF g
<1>4. PICK l \in Nat : d = g * l
  BY <1>2 DEF Divides
<1>5. PICK k \in Int : n = g * k
  <2>1. PICK m \in Nat : Abs(n) = g * m
    BY <1>2 DEF Divides
  <2>2. n = g * m \/ n = g * (-m)
    BY <1>2, <2>1 DEF Abs
  <2> QED
    BY <2>2
<1>6. n \div g = k /\ d \div g = l
  BY <1>2, <1>4, <1>5, Quotients
<1>7. l > 0
  BY <1>2, <1>4
<1>8. k * d = n * l
  BY <1>2, <1>4, <1>5
<1> QED
  BY <1>3, <1>6, <1>7, <1>8 DEF Proper, Fraction

(* p is m over D. *)
Is(p, m, D) == m * p.den = p.num * D

(* Every fraction has a multiple of its denominator. *)
LEMMA Multiple ==
    ASSUME NEW p \in Proper, NEW E \in Nat, E > 0
    PROVE  \E m \in Int : Is(p, m, p.den * E)
<1>1. p.num \in Int /\ p.den \in Nat
  BY DEF Proper, Fraction
<1>2. (p.num * E) * p.den = p.num * (p.den * E) /\ p.num * E \in Int
  BY <1>1
<1> QED
  BY <1>2 DEF Is

LEMMA IsUnique ==
    ASSUME NEW p \in Proper, NEW D \in Nat, D > 0, NEW m \in Int, NEW n \in Int, Is(p, m, D), Is(p, n, D)
    PROVE  m = n
<1>1. p.num \in Int /\ p.den \in Nat /\ p.den > 0
  BY DEF Proper, Fraction
<1>2. (m - n) * p.den = 0
  BY <1>1 DEF Is
<1> QED
  BY <1>1, <1>2

LEMMA PlusIs ==
    ASSUME NEW p \in Proper, NEW q \in Proper, NEW D \in Nat, D > 0, NEW m \in Int, NEW n \in Int,
           Is(p, m, D), Is(q, n, D)
    PROVE  Plus(p, q) \in Proper /\ Is(Plus(p, q), m + n, D)
<1>1. PICK pn \in Int, pd \in Nat, qn \in Int, qd \in Nat :
         pn = p.num /\ pd = p.den /\ qn = q.num /\ qd = q.den /\ pd > 0 /\ qd > 0
  BY DEF Proper, Fraction
<1> DEFINE g == gcd[<<pd, qd>>]
<1>2. g \in Nat /\ g > 0 /\ Divides(g, pd) /\ Divides(g, qd)
  BY <1>1, GcdDivides
<1>3. Plus(p, q) = Ratio(pn * (qd \div g) + qn * (pd \div g), (pd \div g) * qd)
  <2>1. p.den * q.den # 0
    BY <1>1
  <2> QED
    BY <1>1, <2>1 DEF Plus
<1> HIDE DEF g
<1>4. PICK a \in Nat, b \in Nat : pd = g * a /\ qd = g * b
  BY <1>2 DEF Divides
<1>5. a > 0 /\ b > 0
  BY <1>1, <1>2, <1>4
<1>6. pd \div g = a /\ qd \div g = b
  BY <1>2, <1>4, Quotients
<1>7. PICK N \in Int, E \in Nat : N = pn * b + qn * a /\ E = a * qd /\ E > 0
  <2>1. pn * b + qn * a \in Int /\ a * qd \in Nat /\ a * qd > 0
    BY <1>1, <1>5
  <2> QED
    BY <2>1
<1>8. Plus(p, q) = Ratio(N, E)
  BY <1>3, <1>6, <1>7
<1>9. PICK R \in Proper : R = Plus(p, q) /\ R.num * E = N * R.den
  BY <1>7, <1>8, RatioValue
<1>10. PICK rn \in Int, rd \in Nat : rn = R.num /\ rd = R.den /\ rd > 0
  BY DEF Proper, Fraction
<1>11. m * (g * a) = pn * D /\ n * (g * b) = qn * D
  BY <1>1, <1>4 DEF Is
<1>12. (m + n) * rd * E = rn * D * E
  <2>1. E = a * g * b
    BY <1>4, <1>7, <1>2, <1>5
  <2>2. (m + n) * E = (m * (g * a)) * b + (n * (g * b)) * a
    BY <2>1, <1>2, <1>5
  <2>3. (m + n) * E = (pn * D) * b + (qn * D) * a
    BY <1>11, <2>2
  <2>4. (m + n) * E = D * N
    BY <1>7, <2>3
  <2>5. rn * E = N * rd
    BY <1>9, <1>10
  <2>6. (m + n) * rd * E = ((m + n) * E) * rd
    BY <1>10, <1>7
  <2>7. ((m + n) * E) * rd = D * (N * rd)
    BY <2>4, <1>10, <1>7
  <2>8. D * (N * rd) = rn * D * E
    BY <2>5, <1>10, <1>7
  <2> QED
    BY <2>6, <2>7, <2>8
<1>13. (m + n) * rd = rn * D
  <2>1. PICK u \in Int, v \in Int : u = (m + n) * rd /\ v = rn * D
    BY <1>10
  <2>2. (u - v) * E = 0
    BY <2>1, <1>12, <1>7
  <2>3. u = v
    BY <2>2, <1>7
  <2> QED
    BY <2>1, <2>3
<1> QED
  BY <1>9, <1>10, <1>13 DEF Is

LEMMA NegativeIs ==
    ASSUME NEW p \in Proper, NEW D \in Nat, NEW m \in Int, Is(p, m, D)
    PROVE  [p EXCEPT !.num = -@] \in Proper /\ Is([p EXCEPT !.num = -@], -m, D)
<1>1. p.num \in Int /\ p.den \in Nat /\ p.den > 0
  BY DEF Proper, Fraction
<1>2. [p EXCEPT !.num = -@] \in Proper /\ [p EXCEPT !.num = -@].num = -(p.num) /\ [p EXCEPT !.num = -@].den = p.den
  BY <1>1 DEF Proper, Fraction
<1>3. (-m) * p.den = (-(p.num)) * D
  BY <1>1 DEF Is
<1> QED
  BY <1>2, <1>3 DEF Is

LEMMA MinusIs ==
    ASSUME NEW p \in Proper, NEW q \in Proper, NEW D \in Nat, D > 0, NEW m \in Int, NEW n \in Int,
           Is(p, m, D), Is(q, n, D)
    PROVE  Minus(p, q) \in Proper /\ Is(Minus(p, q), m - n, D)
<1> DEFINE r == [q EXCEPT !.num = -@]
<1>1. r \in Proper /\ Is(r, -n, D)
  BY NegativeIs
<1>2. Minus(p, q) = Plus(p, r)
  BY DEF Minus
<1> HIDE DEF r
<1>3. Plus(p, r) \in Proper /\ Is(Plus(p, r), m + (-n), D)
  BY <1>1, PlusIs
<1>4. m + (-n) = m - n
  OBVIOUS
<1> QED
  BY <1>2, <1>3, <1>4

LEMMA MagnitudeIs ==
    ASSUME NEW p \in Proper, NEW D \in Nat, D > 0, NEW m \in Int, Is(p, m, D)
    PROVE  Magnitude(p) \in Proper /\ Is(Magnitude(p), Abs(m), D)
<1>1. PICK n \in Int, d \in Nat : n = p.num /\ d = p.den /\ d > 0
  BY DEF Proper, Fraction
<1>2. Magnitude(p) = [p EXCEPT !.num = Abs(n)]
  BY <1>1 DEF Magnitude
<1>3. Magnitude(p).num = Abs(n) /\ Magnitude(p).den = d /\ Magnitude(p) \in Proper
  <2>1. Abs(n) \in Int
    BY DEF Abs
  <2> QED
    BY <1>1, <1>2, <2>1 DEF Proper, Fraction
<1>4. m * d = n * D
  BY <1>1 DEF Is
<1>5. (m >= 0 <=> n >= 0) /\ (m < 0 <=> n < 0)
  BY <1>1, <1>4
<1>6. Abs(m) * d = Abs(n) * D
  <2>1. CASE m >= 0
    BY <1>4, <1>5, <2>1 DEF Abs
  <2>2. CASE m < 0
    <3>1. (-m) * d = (-n) * D
      BY <1>4
    <3> QED
      BY <1>5, <2>2, <3>1 DEF Abs
  <2> QED
    BY <2>1, <2>2
<1> QED
  BY <1>3, <1>6 DEF Is

LEMMA LessIs ==
    ASSUME NEW p \in Proper, NEW q \in Proper, NEW D \in Nat, D > 0, NEW m \in Int, NEW n \in Int,
           Is(p, m, D), Is(q, n, D)
    PROVE  (Less(p, q) <=> m < n) /\ (AtMost(p, q) <=> m <= n)
<1>1. Minus(p, q) \in Proper /\ Is(Minus(p, q), m - n, D)
  BY MinusIs
<1>2. PICK rn \in Int, rd \in Nat : rn = Minus(p, q).num /\ rd = Minus(p, q).den /\ rd > 0
  BY <1>1 DEF Proper, Fraction
<1>3. PICK z \in Int : z = m - n
  OBVIOUS
<1>4. z * rd = rn * D
  BY <1>1, <1>2, <1>3 DEF Is
<1>5. (rn < 0 <=> z < 0) /\ (rn <= 0 <=> z <= 0)
  BY <1>2, <1>4
<1>6. Defined(p) /\ Defined(q)
  BY DEF Defined, Proper
<1> QED
  BY <1>2, <1>3, <1>5, <1>6 DEF Less, AtMost

-----------------------------------------------------------------------------
(* The order of the elements of a finite set. *)

StrictOrder(S, below) ==
    /\ \A e \in S : <<e, e>> \notin below
    /\ \A e, f, g \in S : <<e, f>> \in below /\ <<f, g>> \in below => <<e, g>> \in below
    /\ \A e, f \in S : e # f => <<e, f>> \in below \/ <<f, e>> \in below

(* An element that comes before another one has a lower rank. *)
LEMMA RankGrows ==
    ASSUME NEW S, IsFiniteSet(S), NEW below, StrictOrder(S, below), NEW e \in S
    PROVE  /\ Rank(S, below, e) \in 0..(Cardinality(S) - 1)
           /\ \A f \in S : <<e, f>> \in below => Rank(S, below, e) < Rank(S, below, f)
<1> DEFINE before(f) == {d \in S : <<d, f>> \in below}
<1>1. \A f \in S : IsFiniteSet(before(f)) /\ Cardinality(before(f)) \in Nat
  <2> SUFFICES ASSUME NEW f \in S PROVE IsFiniteSet(before(f)) /\ Cardinality(before(f)) \in Nat
    OBVIOUS
  <2>1. before(f) \in SUBSET S
    OBVIOUS
  <2> HIDE DEF before
  <2>2. IsFiniteSet(before(f))
    BY <2>1, FS_Subset
  <2> QED
    BY <2>2, FS_CardinalityType
<1>2. \A f \in S : Rank(S, below, f) = Cardinality(before(f))
  BY DEF Rank
<1>3. Cardinality(before(e)) < Cardinality(S)
  <2>1. before(e) \in SUBSET S /\ e \notin before(e)
    BY DEF StrictOrder
  <2> HIDE DEF before
  <2>2. Cardinality(before(e)) <= Cardinality(S) /\ (Cardinality(S) = Cardinality(before(e)) => S = before(e))
    BY <2>1, FS_Subset
  <2>3. Cardinality(S) \in Nat
    BY FS_CardinalityType
  <2> QED
    BY <1>1, <2>1, <2>2, <2>3
<1>4. ASSUME NEW f \in S, <<e, f>> \in below
      PROVE  Cardinality(before(e)) < Cardinality(before(f))
  <2>1. before(e) \in SUBSET before(f) /\ e \in before(f) /\ e \notin before(e)
    BY <1>4 DEF StrictOrder
  <2> HIDE DEF before
  <2>2. /\ Cardinality(before(e)) <= Cardinality(before(f))
        /\ Cardinality(before(f)) = Cardinality(before(e)) => before(f) = before(e)
    BY <1>1, <2>1, FS_Subset
  <2> QED
    BY <1>1, <2>1, <2>2
<1>5. Cardinality(S) \in Nat
  BY FS_CardinalityType
<1> HIDE DEF before
<1> QED
  BY <1>1, <1>2, <1>3, <1>4, <1>5

(* Every place is taken by one element. *)
LEMMA ArrangedOrder ==
    ASSUME NEW S, IsFiniteSet(S), NEW below, StrictOrder(S, below)
    PROVE  /\ Cardinality(S) \in Nat
           /\ Arranged(S, below) \in [1..Cardinality(S) -> S]
           /\ \A i \in 1..Cardinality(S) : Rank(S, below, Arranged(S, below)[i]) = i - 1
           /\ \A i, j \in 1..Cardinality(S) :
                 i < j => <<Arranged(S, below)[i], Arranged(S, below)[j]>> \in below
           /\ \A e \in S : /\ Rank(S, below, e) + 1 \in 1..Cardinality(S)
                           /\ Arranged(S, below)[Rank(S, below, e) + 1] = e
<1> DEFINE rank == [e \in S |-> Rank(S, below, e)]
           T == 0..(Cardinality(S) - 1)
           place == Arranged(S, below)
<1>1. Cardinality(S) \in Nat
  BY FS_CardinalityType
<1>2. IsFiniteSet(T) /\ Cardinality(T) = Cardinality(S)
  <2>1. IsFiniteSet(T) /\ Cardinality(T) = IF 0 > Cardinality(S) - 1 THEN 0 ELSE (Cardinality(S) - 1) - 0 + 1
    BY <1>1, FS_Interval, SMTT(40)
  <2> QED
    BY <1>1, <2>1
<1>3. \A e \in S : Rank(S, below, e) \in T
  BY RankGrows
<1>4. \A e, f \in S : e # f => Rank(S, below, e) # Rank(S, below, f)
  <2> SUFFICES ASSUME NEW e \in S, NEW f \in S, e # f PROVE Rank(S, below, e) # Rank(S, below, f)
    OBVIOUS
  <2>1. Rank(S, below, e) \in Int /\ Rank(S, below, f) \in Int
    BY <1>1, <1>3
  <2>2. CASE <<e, f>> \in below
    <3>1. Rank(S, below, e) < Rank(S, below, f)
      BY <2>2, RankGrows
    <3> QED
      BY <2>1, <3>1
  <2>3. CASE <<f, e>> \in below
    <3>1. Rank(S, below, f) < Rank(S, below, e)
      BY <2>3, RankGrows
    <3> QED
      BY <2>1, <3>1
  <2> QED
    BY <2>2, <2>3 DEF StrictOrder
<1>5. rank \in Injection(S, T)
  <2>1. rank \in [S -> T]
    BY <1>3
  <2>2. \A e, f \in S : rank[e] = rank[f] => e = f
    BY <1>4
  <2> HIDE DEF rank, T
  <2> QED
    BY <2>1, <2>2 DEF Injection, IsInjective
<1>6. rank \in Surjection(S, T)
  <2> HIDE DEF rank, T
  <2> QED
    BY <1>2, <1>5, FS_Injection
<1>7. \A n \in 1..Cardinality(S) : \E e \in S : Rank(S, below, e) = n - 1
  <2>1. \A t \in T : \E e \in S : rank[e] = t
    BY <1>6 DEF Surjection
  <2>2. \A n \in 1..Cardinality(S) : n - 1 \in T
    BY <1>1
  <2> QED
    BY <2>1, <2>2
<1>8. \A n \in 1..Cardinality(S) : place[n] \in S /\ Rank(S, below, place[n]) = n - 1
  BY <1>7 DEF Arranged
<1>9. place \in [1..Cardinality(S) -> S]
  BY <1>8 DEF Arranged
<1>10. ASSUME NEW i \in 1..Cardinality(S), NEW j \in 1..Cardinality(S), i < j
       PROVE  <<place[i], place[j]>> \in below
  <2> HIDE DEF place, rank
  <2>1. place[i] \in S /\ place[j] \in S /\ Rank(S, below, place[i]) = i - 1 /\ Rank(S, below, place[j]) = j - 1
    BY <1>8
  <2>2. place[i] # place[j]
    BY <1>1, <1>10, <2>1
  <2>3. CASE <<place[j], place[i]>> \in below
    <3>1. Rank(S, below, place[j]) < Rank(S, below, place[i])
      BY <2>1, <2>3, RankGrows
    <3> QED
      BY <1>1, <1>10, <2>1, <3>1
  <2> QED
    BY <2>1, <2>2, <2>3 DEF StrictOrder
<1>11. ASSUME NEW e \in S
       PROVE  Rank(S, below, e) + 1 \in 1..Cardinality(S) /\ place[Rank(S, below, e) + 1] = e
  <2> HIDE DEF place, rank
  <2>1. Rank(S, below, e) + 1 \in 1..Cardinality(S)
    BY <1>1, <1>3
  <2>2. Rank(S, below, place[Rank(S, below, e) + 1]) = Rank(S, below, e)
    BY <1>1, <1>3, <1>8, <2>1
  <2> QED
    BY <1>4, <1>8, <2>1, <2>2
<1> HIDE DEF place, rank, T
<1>12. place = Arranged(S, below)
  BY DEF place
<1> QED
  BY <1>1, <1>8, <1>9, <1>10, <1>11, <1>12

-----------------------------------------------------------------------------
(* Arithmetic yields fractions. *)

LEMMA RatioFraction ==
    ASSUME NEW n \in Int, NEW d \in Nat
    PROVE  Ratio(n, d) \in Fraction
<1>1. CASE d = 0
  BY <1>1 DEF Ratio, NaN, Fraction
<1>2. CASE d > 0
  BY <1>2, RatioValue DEF Proper
<1> QED
  BY <1>1, <1>2

LEMMA CommonDenominator ==
    ASSUME NEW p \in Proper, NEW q \in Proper
    PROVE  \E D \in Nat : D > 0 /\ \E m, n \in Int : Is(p, m, D) /\ Is(q, n, D)
<1>1. PICK pd \in Nat, qd \in Nat : pd = p.den /\ qd = q.den /\ pd > 0 /\ qd > 0
  BY DEF Proper, Fraction
<1>2. \E m \in Int : Is(p, m, pd * qd)
  BY <1>1, Multiple
<1>3. \E n \in Int : Is(q, n, qd * pd)
  BY <1>1, Multiple
<1>4. pd * qd = qd * pd /\ pd * qd \in Nat /\ pd * qd > 0
  BY <1>1
<1> QED
  BY <1>2, <1>3, <1>4

LEMMA PlusProper ==
    ASSUME NEW p \in Proper, NEW q \in Proper
    PROVE  Plus(p, q) \in Proper
BY CommonDenominator, PlusIs

LEMMA PlusFraction ==
    ASSUME NEW p \in Fraction, NEW q \in Fraction
    PROVE  Plus(p, q) \in Fraction
<1>1. CASE p \in Proper /\ q \in Proper
  BY <1>1, PlusProper DEF Proper
<1>2. CASE ~(p \in Proper /\ q \in Proper)
  <2>1. p.den \in Nat /\ q.den \in Nat
    BY DEF Fraction
  <2>2. p.den = 0 \/ q.den = 0
    BY <1>2, <2>1 DEF Proper
  <2>3. p.den * q.den = 0
    BY <2>1, <2>2
  <2> QED
    BY <2>3 DEF Plus, NaN, Fraction
<1> QED
  BY <1>1, <1>2

LEMMA TimesFraction ==
    ASSUME NEW p \in Fraction, NEW q \in Fraction
    PROVE  Times(p, q) \in Fraction
<1>1. p.num \in Int /\ q.num \in Int /\ p.den \in Nat /\ q.den \in Nat
  BY DEF Fraction
<1>2. p.num * q.num \in Int /\ p.den * q.den \in Nat
  BY <1>1
<1> QED
  BY <1>2, RatioFraction DEF Times

LEMMA OverFraction ==
    ASSUME NEW p \in Fraction, NEW n \in Nat
    PROVE  Over(p, n) \in Fraction
<1>1. p.num \in Int /\ p.den \in Nat
  BY DEF Fraction
<1>2. p.den * n \in Nat
  BY <1>1
<1> QED
  BY <1>1, <1>2, RatioFraction DEF Over

LEMMA WholeProper ==
    ASSUME NEW n \in Int
    PROVE  Whole(n) \in Proper
BY DEF Whole, Proper, Fraction

-----------------------------------------------------------------------------
(* Sums. *)

(* s are the partial sums of v. *)
Partial(s, v) ==
    /\ s \in [0..Len(v) -> Proper]
    /\ s[0] = Zero
    /\ \A k \in 1..Len(v) : s[k] = Plus(s[k - 1], v[k])

LEMMA PartialExists ==
    ASSUME NEW v \in Seq(Proper)
    PROVE  \E s : Partial(s, v)
<1> DEFINE upto(s, n) == /\ s \in [0..n -> Proper] /\ s[0] = Zero
                         /\ \A k \in 1..n : s[k] = Plus(s[k - 1], v[k])
           Bad == {n \in 0..Len(v) : ~\E s : upto(s, n)}
<1>1. Len(v) \in Nat /\ \A k \in 1..Len(v) : v[k] \in Proper
  OBVIOUS
<1>2. Bad = {}
  <2> SUFFICES ASSUME Bad # {} PROVE FALSE
    OBVIOUS
  <2>1. PICK n \in Bad : \A m \in Bad : n <= m
    <3>1. Bad \in SUBSET Nat
      BY <1>1
    <3> HIDE DEF Bad
    <3> QED
      BY <3>1, LeastNat
  <2>2. CASE n = 0
    <3>1. upto([k \in 0..0 |-> Zero], 0)
      BY WholeProper DEF Zero
    <3> QED
      BY <2>2, <3>1
  <2>3. CASE n # 0
    <3>1. n \in Nat /\ n - 1 \in 0..Len(v) /\ n \in 1..Len(v) /\ n - 1 \notin Bad
      BY <1>1, <2>1, <2>3, SMTT(40)
    <3>2. PICK s : upto(s, n - 1)
      BY <3>1
    <3> DEFINE t == [k \in 0..n |-> IF k = n THEN Plus(s[n - 1], v[n]) ELSE s[k]]
    <3>3. Plus(s[n - 1], v[n]) \in Proper
      <4>1. s[n - 1] \in Proper /\ v[n] \in Proper
        BY <1>1, <3>1, <3>2
      <4> QED
        BY <4>1, PlusProper
    <3>4. \A k \in 0..n : k # n => k \in 0..(n - 1)
      BY <3>1
    <3>5. t \in [0..n -> Proper]
      BY <3>2, <3>3, <3>4
    <3>6. \A k \in 1..n : t[k] = Plus(t[k - 1], v[k])
      <4> SUFFICES ASSUME NEW k \in 1..n PROVE t[k] = Plus(t[k - 1], v[k])
        OBVIOUS
      <4>1. k - 1 \in 0..n /\ k - 1 # n /\ k \in 0..n
        BY <3>1
      <4>2. t[k - 1] = s[k - 1]
        BY <4>1
      <4>3. CASE k = n
        BY <3>1, <4>2, <4>3
      <4>4. CASE k # n
        <5>1. k \in 1..(n - 1)
          BY <3>1, <4>4
        <5>2. t[k] = s[k] /\ s[k] = Plus(s[k - 1], v[k])
          BY <3>2, <4>1, <4>4, <5>1
        <5> QED
          BY <4>2, <5>2
      <4> QED
        BY <4>3, <4>4
    <3>7. t[0] = Zero
      BY <3>1, <3>2
    <3> HIDE DEF t
    <3>8. upto(t, n)
      BY <3>5, <3>6, <3>7
    <3> QED
      BY <3>8
  <2> QED
    BY <2>2, <2>3
<1>3. \E s : upto(s, Len(v))
  BY <1>1, <1>2
<1> QED
  BY <1>3 DEF Partial

Steps(s, v, n) == \A k \in 1..n : s[k] = Plus(s[k - 1], v[k])

LEMMA PartialUnique ==
    ASSUME NEW v, NEW n \in Nat, NEW s, NEW t, s[0] = t[0], Steps(s, v, n), Steps(t, v, n)
    PROVE  \A k \in 0..n : s[k] = t[k]
<1> DEFINE Bad == {k \in 0..n : s[k] # t[k]}
<1> SUFFICES ASSUME Bad # {} PROVE FALSE
  OBVIOUS
<1>1. PICK k \in Bad : \A m \in Bad : k <= m
  <2>1. Bad \in SUBSET Nat
    OBVIOUS
  <2> HIDE DEF Bad
  <2> QED
    BY <2>1, LeastNat
<1>2. k \in 0..n /\ k # 0
  OBVIOUS
<1>3. k \in 1..n /\ k - 1 \in 0..n /\ ~(k <= k - 1)
  BY <1>2
<1>4. s[k - 1] = t[k - 1]
  BY <1>1, <1>3
<1>5. s[k] = t[k]
  BY <1>3, <1>4 DEF Steps
<1> QED
  BY <1>5

LEMMA SumPartial ==
    ASSUME NEW v \in Seq(Proper), NEW s, Partial(s, v)
    PROVE  SumOf(v) = s[Len(v)] /\ SumOf(v) \in Proper
<1> DEFINE F(f) == [n \in 0..Len(v) |-> IF n = 0 THEN Zero ELSE Plus(f[n - 1], v[n])]
<1>1. Len(v) \in Nat
  OBVIOUS
<1>2. s = F(s)
  BY <1>1 DEF Partial
<1>3. SumOf(v) = (CHOOSE f : f = F(f))[Len(v)]
  BY DEF SumOf
<1>4. PICK f : f = F(f) /\ SumOf(v) = f[Len(v)]
  <2> HIDE DEF F
  <2> QED
    BY <1>2, <1>3
<1>5. f[0] = Zero /\ \A k \in 1..Len(v) : f[k] = Plus(f[k - 1], v[k])
  <2>1. \A k \in 0..Len(v) : f[k] = F(f)[k]
    BY <1>4, Zenon
  <2> QED
    BY <1>1, <2>1
<1>6. \A k \in 0..Len(v) : f[k] = s[k]
  <2>1. Steps(f, v, Len(v)) /\ Steps(s, v, Len(v))
    BY <1>5 DEF Partial, Steps
  <2>2. f[0] = s[0]
    BY <1>5 DEF Partial
  <2> QED
    BY <1>1, <2>1, <2>2, PartialUnique
<1> QED
  BY <1>1, <1>4, <1>6 DEF Partial

LEMMA SumProper ==
    ASSUME NEW v \in Seq(Proper)
    PROVE  SumOf(v) \in Proper
BY PartialExists, SumPartial

LEMMA SumAppend ==
    ASSUME NEW v \in Seq(Proper), NEW x \in Proper
    PROVE  SumOf(Append(v, x)) = Plus(SumOf(v), x)
<1>1. PICK s : Partial(s, Append(v, x))
  <2>1. Append(v, x) \in Seq(Proper)
    OBVIOUS
  <2> QED
    BY <2>1, PartialExists
<1>2. Append(v, x) \in Seq(Proper) /\ Len(Append(v, x)) = Len(v) + 1 /\ Len(v) \in Nat
      /\ Append(v, x)[Len(v) + 1] = x /\ \A k \in 1..Len(v) : Append(v, x)[k] = v[k]
  OBVIOUS
<1>3. SumOf(Append(v, x)) = s[Len(v) + 1] /\ s[Len(v) + 1] = Plus(s[Len(v)], x)
  <2>1. SumOf(Append(v, x)) = s[Len(Append(v, x))]
    BY <1>1, <1>2, SumPartial
  <2>2. Len(v) + 1 \in 1..Len(Append(v, x))
    BY <1>2
  <2>3. s[Len(v) + 1] = Plus(s[(Len(v) + 1) - 1], Append(v, x)[Len(v) + 1])
    BY <1>1, <2>2 DEF Partial
  <2>4. (Len(v) + 1) - 1 = Len(v)
    BY <1>2
  <2> QED
    BY <1>2, <2>1, <2>3, <2>4
<1> DEFINE t == [k \in 0..Len(v) |-> s[k]]
<1>4. Partial(t, v)
  <2>1. \A k \in 0..Len(v) : s[k] \in Proper
    BY <1>1, <1>2 DEF Partial
  <2>2. \A k \in 1..Len(v) : s[k] = Plus(s[k - 1], v[k])
    BY <1>1, <1>2 DEF Partial
  <2>3. \A k \in 1..Len(v) : k - 1 \in 0..Len(v) /\ k \in 0..Len(v)
    BY <1>2
  <2>4. 0 \in 0..Len(v) /\ s[0] = Zero
    BY <1>1, <1>2 DEF Partial
  <2> QED
    BY <2>1, <2>2, <2>3, <2>4 DEF Partial
<1>5. SumOf(v) = t[Len(v)] /\ t[Len(v)] = s[Len(v)]
  <2>1. Len(v) \in 0..Len(v)
    BY <1>2
  <2>2. t[Len(v)] = s[Len(v)]
    BY <2>1
  <2> HIDE DEF t
  <2> QED
    BY <1>4, <2>2, SumPartial
<1> QED
  BY <1>3, <1>5

-----------------------------------------------------------------------------
(* The lines of a grid and the entries of a map. *)

Lines == [subgrid : {"A", "B"}, position : Fraction]
Entries == [line : Lines, counter : Nat, referees : Seq(Nat \X Nat)]

LEMMA MeanFraction ==
    ASSUME NEW v \in Seq(Proper)
    PROVE  MeanOf(v) \in Fraction /\ (Len(v) > 0 => MeanOf(v) \in Proper)
<1>1. PICK n \in Int, d \in Nat : d > 0 /\ n = SumOf(v).num /\ d = SumOf(v).den
  BY SumProper DEF Proper, Fraction
<1>2. Len(v) \in Nat
  OBVIOUS
<1>3. MeanOf(v) = Ratio(n, d * Len(v))
  BY <1>1 DEF MeanOf, Over
<1>4. d * Len(v) \in Nat /\ (Len(v) > 0 => d * Len(v) > 0)
  BY <1>1, <1>2
<1> QED
  BY <1>3, <1>4, RatioFraction, RatioValue

LEMMA MeanOfPointsFraction ==
    ASSUME NEW line \in Seq(Int)
    PROVE  MeanOfPoints(line) \in Fraction /\ (Len(line) > 0 => MeanOfPoints(line) \in Proper)
<1> DEFINE v == [n \in DOMAIN line |-> Whole(line[n])]
<1>1. DOMAIN line = 1..Len(line) /\ Len(line) \in Nat /\ \A n \in 1..Len(line) : line[n] \in Int
  OBVIOUS
<1>2. v \in Seq(Proper) /\ Len(v) = Len(line)
  BY <1>1, WholeProper
<1>3. MeanOfPoints(line) = MeanOf(v)
  BY DEF MeanOfPoints
<1> HIDE DEF v
<1> QED
  BY <1>2, <1>3, MeanFraction

LEMMA MiddleThirdType ==
    ASSUME NEW line \in Seq(Int)
    PROVE  /\ MiddleThird(line) \in Seq(Int) /\ EveryOther(line) \in Seq(Int)
           /\ Len(line) > 1 => Len(MiddleThird(line)) > 0 /\ Len(EveryOther(line)) > 0
<1>1. PICK L \in Nat : L = Len(line) /\ DOMAIN line = 1..L /\ \A n \in 1..L : line[n] \in Int
  OBVIOUS
<1>2. PICK a \in Nat, b \in Nat : a = L \div 3 /\ b = (2 * L) \div 3 /\ b <= L /\ a <= b /\ (L > 1 => a < b)
  OBVIOUS
<1>3. PICK s \in Nat : s = a - (a % 2) /\ s <= a
  OBVIOUS
<1>4. PICK c \in Nat : c = (b - s + 1) \div 2 /\ s + 2 * c <= b + 1 /\ (L > 1 => c > 0)
  <2>1. (b - s + 1) \div 2 \in Nat /\ s + 2 * ((b - s + 1) \div 2) <= b + 1
    BY <1>2, <1>3
  <2>2. L > 1 => (b - s + 1) \div 2 > 0
    BY <1>2, <1>3
  <2> QED
    BY <2>1, <2>2
<1>5. MiddleThird(line) = SubSeq(line, a + 1, b)
  BY <1>1, <1>2 DEF MiddleThird
<1>6. SubSeq(line, a + 1, b) \in Seq(Int) /\ Len(SubSeq(line, a + 1, b)) = b - a
  <2>1. a + 1 \in 1..(Len(line) + 1) /\ b \in (a + 1) - 1..Len(line)
    BY <1>1, <1>2
  <2> QED
    BY <1>2, <2>1, SubSeqProperties
<1>7. EveryOther(line) = [n \in 1..c |-> line[s + 2 * n - 1]]
  BY <1>1, <1>2, <1>3, <1>4 DEF EveryOther
<1>8. \A n \in 1..c : s + 2 * n - 1 \in 1..L
  BY <1>2, <1>3, <1>4
<1>9. [n \in 1..c |-> line[s + 2 * n - 1]] \in Seq(Int) /\ Len([n \in 1..c |-> line[s + 2 * n - 1]]) = c
  BY <1>1, <1>4, <1>8
<1> QED
  BY <1>1, <1>2, <1>4, <1>5, <1>6, <1>7, <1>9, SMTT(40)

LEMMA LineGridType ==
    ASSUME NEW shape \in GridShapes
    PROVE  /\ LineGridOf(shape) \in [Axes -> Seq(Lines)]
           /\ \A axis \in Axes :
                 /\ shape[axis] \in Seq(PointLines) /\ shape[axis] # << >>
                 /\ Len(LineGridOf(shape)[axis]) = Len(shape[axis])
                 /\ \A k \in 1..Len(shape[axis]) :
                       Len(shape[axis][k].line) > 1 => LineGridOf(shape)[axis][k].position \in Proper
<1>1. shape \in [Axes -> Seq(PointLines) \ {<< >>}]
  BY CalibrateAssumption
<1> SUFFICES ASSUME NEW axis \in Axes
             PROVE  /\ LineGridOf(shape)[axis] \in Seq(Lines)
                    /\ shape[axis] \in Seq(PointLines) /\ shape[axis] # << >>
                    /\ Len(LineGridOf(shape)[axis]) = Len(shape[axis])
                    /\ \A k \in 1..Len(shape[axis]) :
                          Len(shape[axis][k].line) > 1 => LineGridOf(shape)[axis][k].position \in Proper
  BY DEF LineGridOf
<1>2. PICK lines \in Seq(PointLines) : lines = shape[axis] /\ lines # << >>
  BY <1>1
<1> DEFINE points(k) == IF axis = "horizontal" THEN MiddleThird(lines[k].line) ELSE EveryOther(lines[k].line)
           made(k) == [subgrid |-> lines[k].subgrid, position |-> MeanOfPoints(points(k))]
<1>3. Len(lines) \in Nat /\ DOMAIN lines = 1..Len(lines)
  OBVIOUS
<1>4. LineGridOf(shape)[axis] = [k \in 1..Len(lines) |-> made(k)]
  BY <1>2, <1>3 DEF LineGridOf
<1>5. ASSUME NEW k \in 1..Len(lines)
      PROVE  made(k) \in Lines /\ (Len(lines[k].line) > 1 => made(k).position \in Proper)
  <2>1. lines[k] \in PointLines
    BY <1>3
  <2>2. lines[k].subgrid \in {"A", "B"} /\ lines[k].line \in Seq(Int)
    BY <2>1 DEF PointLines
  <2>3. points(k) \in Seq(Int) /\ (Len(lines[k].line) > 1 => Len(points(k)) > 0)
    BY <2>2, MiddleThirdType
  <2> HIDE DEF points
  <2>4. MeanOfPoints(points(k)) \in Fraction /\ (Len(points(k)) > 0 => MeanOfPoints(points(k)) \in Proper)
    BY <2>3, MeanOfPointsFraction
  <2> QED
    BY <2>2, <2>3, <2>4 DEF Lines
<1> HIDE DEF made
<1>6. [k \in 1..Len(lines) |-> made(k)] \in Seq(Lines) /\ Len([k \in 1..Len(lines) |-> made(k)]) = Len(lines)
  BY <1>3, <1>5
<1> QED
  BY <1>2, <1>3, <1>4, <1>5, <1>6

-----------------------------------------------------------------------------
(* Maps. *)

Position(e) == e.line.position

Ordered(map) ==
    \A e, f \in map : e # f => Less(Position(e), Position(f)) \/ Less(Position(f), Position(e))

MapOK(map) == map \in SUBSET Entries /\ IsFiniteSet(map) /\ Ordered(map)

LEMMA EmplaceOK ==
    ASSUME NEW map, MapOK(map), NEW entry \in Entries
    PROVE  MapOK(Emplace(map, entry))
<1>1. CASE Emplace(map, entry) = map
  BY <1>1
<1>2. CASE Emplace(map, entry) # map
  <2>1. /\ Emplace(map, entry) = map \union {entry}
        /\ \A e \in map : Less(Position(e), Position(entry)) \/ Less(Position(entry), Position(e))
    BY <1>2 DEF Emplace, Position
  <2>2. IsFiniteSet(map \union {entry})
    BY FS_AddElement DEF MapOK
  <2>3. Ordered(map \union {entry})
    BY <2>1 DEF MapOK, Ordered
  <2> QED
    BY <2>1, <2>2, <2>3 DEF MapOK
<1> QED
  BY <1>1, <1>2

LEMMA MergedType ==
    ASSUME NEW e \in Entries, NEW line \in Lines, NEW referee \in Nat \X Nat
    PROVE  Merged(e, line, referee) \in Entries /\ LineEntry(line, referee) \in Entries
<1>1. e.line \in Lines /\ e.line.position \in Fraction /\ e.line.subgrid \in {"A", "B"} /\ e.counter \in Nat
      /\ e.referees \in Seq(Nat \X Nat) /\ line.position \in Fraction
  BY DEF Entries, Lines
<1> DEFINE position == Over(Plus(Times(Whole(e.counter), e.line.position), line.position), e.counter + 1)
<1>2. position \in Fraction
  <2>1. Whole(e.counter) \in Fraction
    BY <1>1, WholeProper DEF Proper
  <2>2. Times(Whole(e.counter), e.line.position) \in Fraction
    BY <1>1, <2>1, TimesFraction
  <2>3. Plus(Times(Whole(e.counter), e.line.position), line.position) \in Fraction
    BY <1>1, <2>2, PlusFraction
  <2>4. e.counter + 1 \in Nat
    BY <1>1
  <2> QED
    BY <2>3, <2>4, OverFraction
<1>3. Merged(e, line, referee) =
         [line |-> [e.line EXCEPT !.position = position], counter |-> e.counter + 1,
          referees |-> Append(e.referees, referee)]
  BY DEF Merged
<1> HIDE DEF position
<1>4. [e.line EXCEPT !.position = position] \in Lines
  BY <1>1, <1>2 DEF Lines
<1>5. Append(e.referees, referee) \in Seq(Nat \X Nat) /\ <<referee>> \in Seq(Nat \X Nat)
  BY <1>1
<1> QED
  BY <1>1, <1>3, <1>4, <1>5 DEF Entries, LineEntry

LEMMA insertLineOK ==
    ASSUME NEW map, MapOK(map), NEW line \in Lines, NEW referee \in Nat \X Nat, NEW limit
    PROVE  MapOK(insertLine(map, line, referee, limit))
<1>1. CASE Within(map, line, limit) = {}
  <2>1. insertLine(map, line, referee, limit) = Emplace(map, LineEntry(line, referee))
    BY <1>1 DEF insertLine
  <2>2. LineEntry(line, referee) \in Entries
    BY DEF LineEntry, Entries
  <2> QED
    BY <2>1, <2>2, EmplaceOK
<1>2. CASE Within(map, line, limit) # {}
  <2>1. PICK e \in Within(map, line, limit) :
           insertLine(map, line, referee, limit) = Emplace(map \ {e}, Merged(e, line, referee))
    BY <1>2 DEF insertLine
  <2>2. e \in map /\ e \in Entries
    BY DEF Within, MapOK
  <2>3. Merged(e, line, referee) \in Entries
    BY <2>2, MergedType
  <2>4. MapOK(map \ {e})
    <3>1. IsFiniteSet(map \ {e})
      BY FS_RemoveElement DEF MapOK
    <3> QED
      BY <3>1 DEF MapOK, Ordered
  <2> QED
    BY <2>1, <2>3, <2>4, EmplaceOK
<1> QED
  BY <1>1, <1>2

(* Positions are ordered. *)
LEMMA CommonDenominator3 ==
    ASSUME NEW p \in Proper, NEW q \in Proper, NEW r \in Proper
    PROVE  \E D \in Nat : D > 0 /\ \E m, n, o \in Int : Is(p, m, D) /\ Is(q, n, D) /\ Is(r, o, D)
<1>1. PICK pd \in Nat, qd \in Nat, rd \in Nat :
         pd = p.den /\ qd = q.den /\ rd = r.den /\ pd > 0 /\ qd > 0 /\ rd > 0
  BY DEF Proper, Fraction
<1>2. PICK x \in Nat, y \in Nat, z \in Nat :
         x = qd * rd /\ y = pd * rd /\ z = pd * qd /\ x > 0 /\ y > 0 /\ z > 0
  BY <1>1
<1>3. \E m \in Int : Is(p, m, pd * x)
  BY <1>1, <1>2, Multiple
<1>4. \E n \in Int : Is(q, n, qd * y)
  BY <1>1, <1>2, Multiple
<1>5. \E o \in Int : Is(r, o, rd * z)
  BY <1>1, <1>2, Multiple
<1>6. pd * x = qd * y /\ pd * x = rd * z
  BY <1>2
<1>7. pd * x \in Nat /\ pd * x > 0
  BY <1>1, <1>2
<1> QED
  BY <1>3, <1>4, <1>5, <1>6, <1>7

LEMMA LessOrder ==
    ASSUME NEW p \in Fraction, NEW q \in Fraction, NEW r \in Fraction
    PROVE  /\ ~Less(p, p)
           /\ Less(p, q) /\ Less(q, r) => Less(p, r)
           /\ Less(p, q) => ~Less(q, p)
<1>1. ASSUME NEW s \in Fraction, Defined(s) PROVE s \in Proper
  BY <1>1 DEF Fraction, Proper, Defined
<1>2. ~Less(p, p)
  <2>1. CASE p \in Proper
    <3>1. PICK D \in Nat : D > 0 /\ \E m, n \in Int : Is(p, m, D) /\ Is(p, n, D)
      BY <2>1, CommonDenominator
    <3>2. PICK m \in Int : Is(p, m, D)
      BY <3>1
    <3>3. Less(p, p) <=> m < m
      BY <2>1, <3>1, <3>2, LessIs
    <3> QED
      BY <3>3
  <2> QED
    BY <1>1, <2>1 DEF Less
<1>3. Less(p, q) => ~Less(q, p)
  <2> SUFFICES ASSUME Less(p, q) PROVE ~Less(q, p)
    OBVIOUS
  <2>1. p \in Proper /\ q \in Proper
    BY <1>1 DEF Less
  <2>2. PICK D \in Nat : D > 0 /\ \E m, n \in Int : Is(p, m, D) /\ Is(q, n, D)
    BY <2>1, CommonDenominator
  <2>3. PICK m \in Int, n \in Int : Is(p, m, D) /\ Is(q, n, D)
    BY <2>2
  <2>4. (Less(p, q) <=> m < n) /\ (Less(q, p) <=> n < m)
    BY <2>1, <2>2, <2>3, LessIs
  <2> QED
    BY <2>4
<1>4. Less(p, q) /\ Less(q, r) => Less(p, r)
  <2> SUFFICES ASSUME Less(p, q), Less(q, r) PROVE Less(p, r)
    OBVIOUS
  <2>1. p \in Proper /\ q \in Proper /\ r \in Proper
    BY <1>1 DEF Less
  <2>2. PICK D \in Nat : D > 0 /\ \E m, n, o \in Int : Is(p, m, D) /\ Is(q, n, D) /\ Is(r, o, D)
    BY <2>1, CommonDenominator3
  <2>3. PICK m \in Int, n \in Int, o \in Int : Is(p, m, D) /\ Is(q, n, D) /\ Is(r, o, D)
    BY <2>2
  <2>4. (Less(p, q) <=> m < n) /\ (Less(q, r) <=> n < o) /\ (Less(p, r) <=> m < o)
    BY <2>1, <2>2, <2>3, LessIs
  <2> QED
    BY <2>4
<1> QED
  BY <1>2, <1>3, <1>4

Below(map) == {p \in map \X map : Less(p[1].line.position, p[2].line.position)}

LEMMA BelowOrder ==
    ASSUME NEW map, MapOK(map)
    PROVE  StrictOrder(map, Below(map))
<1>1. \A e, f \in map : <<e, f>> \in Below(map) <=> Less(Position(e), Position(f))
  BY DEF Below, Position
<1>2. \A e \in map : Position(e) \in Fraction
  BY DEF MapOK, Entries, Lines, Position
<1>3. \A e \in map : ~Less(Position(e), Position(e))
  BY <1>2, LessOrder
<1>4. \A e, f, g \in map : Less(Position(e), Position(f)) /\ Less(Position(f), Position(g)) => Less(Position(e), Position(g))
  BY <1>2, LessOrder
<1> QED
  BY <1>1, <1>3, <1>4 DEF StrictOrder, MapOK, Ordered

LEMMA KeptOK ==
    ASSUME NEW map, MapOK(map), NEW size
    PROVE  MapOK(Kept(map, size))
<1>1. Kept(map, size) \in SUBSET map
  BY DEF Kept
<1>2. IsFiniteSet(Kept(map, size))
  BY <1>1, FS_Subset DEF MapOK
<1> QED
  BY <1>1, <1>2 DEF MapOK, Ordered

LEMMA AscendingOrder ==
    ASSUME NEW map, MapOK(map)
    PROVE  /\ Cardinality(map) \in Nat
           /\ Ascending(map) \in [1..Cardinality(map) -> map]
           /\ \A i \in 1..Cardinality(map) : Rank(map, Below(map), Ascending(map)[i]) = i - 1
           /\ \A i, j \in 1..Cardinality(map) :
                 i < j => Less(Position(Ascending(map)[i]), Position(Ascending(map)[j]))
           /\ \A e \in map : /\ Rank(map, Below(map), e) + 1 \in 1..Cardinality(map)
                             /\ Ascending(map)[Rank(map, Below(map), e) + 1] = e
<1>1. Ascending(map) = Arranged(map, Below(map))
  BY DEF Ascending, Below
<1>2. IsFiniteSet(map) /\ StrictOrder(map, Below(map))
  BY BelowOrder DEF MapOK
<1>3. /\ Cardinality(map) \in Nat
      /\ Ascending(map) \in [1..Cardinality(map) -> map]
      /\ \A i \in 1..Cardinality(map) : Rank(map, Below(map), Ascending(map)[i]) = i - 1
      /\ \A i, j \in 1..Cardinality(map) :
            i < j => <<Ascending(map)[i], Ascending(map)[j]>> \in Below(map)
      /\ \A e \in map : /\ Rank(map, Below(map), e) + 1 \in 1..Cardinality(map)
                        /\ Ascending(map)[Rank(map, Below(map), e) + 1] = e
  BY <1>1, <1>2, ArrangedOrder
<1>4. \A e, f : <<e, f>> \in Below(map) => Less(Position(e), Position(f))
  BY DEF Below, Position
<1> QED
  BY <1>3, <1>4

LEMMA TargetType ==
    ASSUME NEW grids, NEW m, \A axis \in Axes : MapOK(m[axis])
    PROVE  /\ TargetOf(m, grids) \in [Axes -> Seq(Lines)]
           /\ \A axis \in Axes :
                 LET kept == Kept(m[axis], Len(grids))
                 IN  /\ Len(TargetOf(m, grids)[axis]) = Cardinality(kept)
                     /\ \A k \in 1..Cardinality(kept) : TargetOf(m, grids)[axis][k] = Ascending(kept)[k].line
<1> SUFFICES ASSUME NEW axis \in Axes
             PROVE  LET kept == Kept(m[axis], Len(grids))
                    IN  /\ TargetOf(m, grids)[axis] \in Seq(Lines)
                        /\ Len(TargetOf(m, grids)[axis]) = Cardinality(kept)
                        /\ \A k \in 1..Cardinality(kept) : TargetOf(m, grids)[axis][k] = Ascending(kept)[k].line
  BY DEF TargetOf
<1>1. PICK kept : kept = Kept(m[axis], Len(grids)) /\ MapOK(kept)
  BY KeptOK
<1>2. TargetOf(m, grids)[axis] = [k \in DOMAIN Ascending(kept) |-> Ascending(kept)[k].line]
  BY <1>1 DEF TargetOf, KeptLines
<1>3. Cardinality(kept) \in Nat /\ DOMAIN Ascending(kept) = 1..Cardinality(kept)
      /\ \A k \in 1..Cardinality(kept) : Ascending(kept)[k] \in kept
  BY <1>1, AscendingOrder
<1>4. \A k \in 1..Cardinality(kept) : Ascending(kept)[k].line \in Lines
  BY <1>1, <1>3 DEF MapOK, Entries
<1> QED
  BY <1>1, <1>2, <1>3, <1>4

-----------------------------------------------------------------------------
(* The loops of averageGrids, and what they work on. *)

Count == Len(pointGridList)

InputInv ==
    /\ Count \in GridCounts /\ pointGridList \in [1..Count -> GridShapes]
    /\ tilt \in Int
    /\ pc # "linegrids" => linegrids = [g \in 1..Count |-> LineGridOf(pointGridList[g])]

AtInv ==
    /\ at \in [grid : 1..(Count + 1), axis : Axes, line : Nat \ {0}]
    /\ at.grid = Count + 1 => at.axis = "horizontal" /\ at.line = 1
    /\ at.grid # Count + 1 => at.line \in 1..Len(pointGridList[at.grid][at.axis])

MapInv ==
    /\ maps \in [Axes -> SUBSET Entries]
    /\ \A axis \in Axes : MapOK(maps[axis])
    /\ target \in [Axes -> Seq(Lines)]

TypeInv == InputInv /\ AtInv /\ MapInv

LEMMA CountFacts ==
    ASSUME InputInv
    PROVE  Count \in Nat /\ Count > 0 /\ Count \in 1..Len(Lenses) /\ DOMAIN pointGridList = 1..Count
<1>1. Count \in 1..Len(Lenses)
  BY CalibrateAssumption DEF InputInv
<1>2. Len(Lenses) \in Nat
  BY CalibrateAssumption
<1> QED
  BY <1>1, <1>2 DEF InputInv

LEMMA LineGrids ==
    ASSUME InputInv, pc # "linegrids", NEW g \in 1..Count, NEW axis \in Axes
    PROVE  /\ pointGridList[g][axis] \in Seq(PointLines) /\ Len(pointGridList[g][axis]) > 0
           /\ linegrids[g][axis] \in Seq(Lines)
           /\ Len(linegrids[g][axis]) = Len(pointGridList[g][axis])
           /\ \A k \in 1..Len(pointGridList[g][axis]) :
                 Len(pointGridList[g][axis][k].line) > 1 => linegrids[g][axis][k].position \in Proper
<1>1. PICK shape \in GridShapes : shape = pointGridList[g]
  BY DEF InputInv
<1>2. linegrids[g] = LineGridOf(shape)
  BY <1>1 DEF InputInv
<1>3. /\ LineGridOf(shape) \in [Axes -> Seq(Lines)]
      /\ shape[axis] \in Seq(PointLines) /\ shape[axis] # << >>
      /\ Len(LineGridOf(shape)[axis]) = Len(shape[axis])
      /\ \A k \in 1..Len(shape[axis]) :
            Len(shape[axis][k].line) > 1 => LineGridOf(shape)[axis][k].position \in Proper
  BY LineGridType
<1>4. Len(shape[axis]) > 0
  BY <1>3
<1> QED
  BY <1>1, <1>2, <1>3, <1>4

LEMMA PointGridLines ==
    ASSUME InputInv, NEW g \in 1..Count, NEW axis \in Axes
    PROVE  pointGridList[g][axis] \in Seq(PointLines) /\ Len(pointGridList[g][axis]) \in Nat
           /\ Len(pointGridList[g][axis]) > 0
<1>1. PICK shape \in GridShapes : shape = pointGridList[g]
  BY DEF InputInv
<1>2. shape[axis] \in Seq(PointLines) /\ shape[axis] # << >>
  BY LineGridType
<1> QED
  BY <1>1, <1>2

LEMMA InitType ==
    ASSUME Init
    PROVE  TypeInv
<1>1. PICK n \in GridCounts : pointGridList \in [1..n -> GridShapes]
  BY DEF Init
<1>2. n \in Nat
  BY CalibrateAssumption
<1>3. Count = n
  BY <1>1, <1>2 DEF Count
<1>4. InputInv
  <2>1. tilt \in Int
    BY CalibrateAssumption DEF Init
  <2> QED
    BY <1>1, <1>3, <2>1 DEF InputInv, Init
<1>5. AtInv
  <2>1. Count \in Nat /\ Count > 0
    BY <1>4, CountFacts
  <2>2. at = [grid |-> 1, axis |-> "horizontal", line |-> 1] /\ "horizontal" \in Axes
    BY DEF Init, Axes
  <2>3. Len(pointGridList[1]["horizontal"]) \in Nat /\ Len(pointGridList[1]["horizontal"]) > 0
    BY <1>4, <2>1, <2>2, PointGridLines
  <2> QED
    BY <2>1, <2>2, <2>3 DEF AtInv
<1>6. MapInv
  <2>1. MapOK({})
    BY FS_EmptySet DEF MapOK, Ordered
  <2>2. \A axis \in Axes : maps[axis] = {} /\ maps = [a \in Axes |-> {}] /\ target = [a \in Axes |-> << >>]
    BY DEF Init, NoLines
  <2> QED
    BY <2>1, <2>2 DEF MapInv, Init, NoLines
<1> QED
  BY <1>4, <1>5, <1>6 DEF TypeInv

LEMMA NextLineType ==
    ASSUME TypeInv, pc = "average", at.grid \in 1..Count
    PROVE  /\ NextLine \in [grid : 1..(Count + 1), axis : Axes, line : Nat \ {0}]
           /\ NextLine.grid = Count + 1 => NextLine.axis = "horizontal" /\ NextLine.line = 1
           /\ NextLine.grid # Count + 1 =>
                 NextLine.line \in 1..Len(pointGridList[NextLine.grid][NextLine.axis])
<1>1. InputInv /\ Count \in Nat /\ Count > 0
  BY CountFacts DEF TypeInv
<1>2. at \in [grid : 1..(Count + 1), axis : Axes, line : Nat \ {0}] /\ at.grid # Count + 1
      /\ at.line \in 1..Len(pointGridList[at.grid][at.axis])
  BY <1>1 DEF TypeInv, AtInv
<1>3. \A g \in 1..Count, axis \in Axes : Len(pointGridList[g][axis]) \in Nat /\ Len(pointGridList[g][axis]) > 0
  BY <1>1, PointGridLines
<1>4. Len(linegrids[at.grid][at.axis]) = Len(pointGridList[at.grid][at.axis])
  BY <1>1, <1>2, LineGrids
<1>5. CASE at.line < Len(linegrids[at.grid][at.axis])
  <2>1. NextLine = [at EXCEPT !.line = at.line + 1]
    BY <1>5 DEF NextLine
  <2>2. NextLine.grid = at.grid /\ NextLine.axis = at.axis /\ NextLine.line = at.line + 1
    BY <1>2, <2>1
  <2>3. at.line + 1 \in 1..Len(pointGridList[at.grid][at.axis]) /\ at.line + 1 \in Nat \ {0}
    <3>1. PICK n \in Nat : n = Len(pointGridList[at.grid][at.axis])
      BY <1>2, <1>3
    <3>2. PICK k \in Nat : k = at.line
      BY <1>2
    <3> QED
      BY <1>4, <1>5, <3>1, <3>2
  <2>4. NextLine \in [grid : 1..(Count + 1), axis : Axes, line : Nat \ {0}]
    BY <1>2, <2>1, <2>3
  <2>5. NextLine.line \in 1..Len(pointGridList[NextLine.grid][NextLine.axis])
    BY <2>2, <2>3, Zenon
  <2>6. NextLine.grid # Count + 1
    BY <1>2, <2>2, Zenon
  <2> QED
    BY <2>4, <2>5, <2>6, Zenon
<1>6. CASE ~(at.line < Len(linegrids[at.grid][at.axis])) /\ at.axis = "horizontal"
  <2>1. NextLine = [at EXCEPT !.axis = "vertical", !.line = 1]
    BY <1>6 DEF NextLine
  <2>2. "vertical" \in Axes
    BY DEF Axes
  <2>3. NextLine.grid = at.grid /\ NextLine.axis = "vertical" /\ NextLine.line = 1
    BY <1>2, <2>1
  <2>4. 1 \in 1..Len(pointGridList[at.grid]["vertical"])
    BY <1>3, <2>2
  <2>5. NextLine.line \in 1..Len(pointGridList[NextLine.grid][NextLine.axis])
    BY <2>3, <2>4, Zenon
  <2>6. NextLine.grid # Count + 1
    BY <1>2, <2>3, Zenon
  <2>7. NextLine \in [grid : 1..(Count + 1), axis : Axes, line : Nat \ {0}]
    <3>1. NextLine = [grid |-> at.grid, axis |-> "vertical", line |-> 1]
      BY <1>2, <2>1
    <3> QED
      BY <1>2, <2>2, <3>1
  <2> QED
    BY <2>5, <2>6, <2>7, Zenon
<1>7. CASE ~(at.line < Len(linegrids[at.grid][at.axis])) /\ at.axis # "horizontal"
  <2>1. NextLine = [grid |-> at.grid + 1, axis |-> "horizontal", line |-> 1] /\ "horizontal" \in Axes
    BY <1>7 DEF NextLine, Axes
  <2>2. at.grid + 1 \in 1..(Count + 1)
    BY <1>1
  <2>3. at.grid + 1 # Count + 1 => 1 \in 1..Len(pointGridList[at.grid + 1]["horizontal"])
    <3>1. at.grid + 1 # Count + 1 => at.grid + 1 \in 1..Count
      BY <1>1
    <3> QED
      BY <1>3, <2>1, <3>1
  <2> QED
    BY <2>1, <2>2, <2>3
<1> QED
  BY <1>5, <1>6, <1>7

(* A line that is put into its map. *)
LEMMA NewLineType ==
    ASSUME TypeInv, pc = "average", at.grid \in 1..Count
    PROVE  /\ NewLine \in Lines /\ Referee \in Nat \X Nat /\ at.axis \in Axes
           /\ at.line \in 1..Len(pointGridList[at.grid][at.axis])
           /\ Len(pointGridList[at.grid][at.axis][at.line].line) > 1 => NewLine.position \in Proper
<1>1. InputInv /\ Count \in Nat
  BY CountFacts DEF TypeInv
<1>2. at.axis \in Axes /\ at.grid \in Nat /\ at.line \in Nat /\ at.line \in 1..Len(pointGridList[at.grid][at.axis])
  BY <1>1 DEF TypeInv, AtInv
<1>3. /\ linegrids[at.grid][at.axis] \in Seq(Lines)
      /\ Len(linegrids[at.grid][at.axis]) = Len(pointGridList[at.grid][at.axis])
      /\ \A k \in 1..Len(pointGridList[at.grid][at.axis]) :
            Len(pointGridList[at.grid][at.axis][k].line) > 1 => linegrids[at.grid][at.axis][k].position \in Proper
  BY <1>1, <1>2, LineGrids
<1>4. linegrids[at.grid][at.axis][at.line] \in Lines
  <2>1. PICK lines \in Seq(Lines) : lines = linegrids[at.grid][at.axis]
    BY <1>3
  <2>2. at.line \in 1..Len(lines)
    BY <1>2, <1>3, <2>1
  <2> QED
    BY <2>1, <2>2
<1> QED
  BY <1>2, <1>3, <1>4 DEF NewLine, Referee

LEMMA PutMapType ==
    ASSUME TypeInv, pc = "average", at.grid \in 1..Count, NEW map, MapOK(map), PutMap(map)
    PROVE  TypeInv'
<1>1. pointGridList' = pointGridList /\ tilt' = tilt /\ linegrids' = linegrids /\ pc' = pc /\ target' = target
  BY DEF PutMap, inputs
<1>2. InputInv' /\ Count' = Count
  BY <1>1 DEF TypeInv, InputInv, Count
<1>3. AtInv'
  <2>1. at' = NextLine
    BY DEF PutMap
  <2> QED
    BY <1>1, <1>2, <2>1, NextLineType DEF AtInv
<1>4. MapInv'
  <2>1. maps' = [maps EXCEPT ![at.axis] = map] /\ at.axis \in Axes
    BY NewLineType DEF PutMap
  <2>2. map \in SUBSET Entries
    BY DEF MapOK
  <2>3. \A axis \in Axes : maps'[axis] = IF axis = at.axis THEN map ELSE maps[axis]
    BY <2>1 DEF TypeInv, MapInv
  <2>4. \A axis \in Axes : MapOK(maps'[axis])
    BY <2>3 DEF TypeInv, MapInv
  <2>5. maps' \in [Axes -> SUBSET Entries]
    BY <2>1, <2>2 DEF TypeInv, MapInv
  <2> QED
    BY <1>1, <2>4, <2>5 DEF TypeInv, MapInv
<1> QED
  BY <1>2, <1>3, <1>4 DEF TypeInv

LEMMA UnchangedType ==
    ASSUME TypeInv, UNCHANGED <<inputs, average>>, pc # "linegrids", pc' # "linegrids"
    PROVE  TypeInv'
<1>1. /\ pointGridList' = pointGridList /\ tilt' = tilt /\ linegrids' = linegrids /\ at' = at
      /\ maps' = maps /\ target' = target
  BY DEF inputs, average
<1>2. InputInv' /\ Count' = Count
  BY <1>1 DEF TypeInv, InputInv, Count
<1>3. AtInv'
  BY <1>1, <1>2 DEF TypeInv, AtInv
<1>4. MapInv'
  BY <1>1 DEF TypeInv, MapInv
<1> QED
  BY <1>2, <1>3, <1>4 DEF TypeInv

LEMMA NextType ==
    ASSUME TypeInv, [Next]_vars
    PROVE  TypeInv'
<1>1. InputInv /\ Count \in Nat /\ Count > 0 /\ DOMAIN pointGridList = 1..Count
  BY CountFacts DEF TypeInv
<1>2. CASE CreateLineGrids
  <2>1. /\ pointGridList' = pointGridList /\ tilt' = tilt /\ at' = at /\ maps' = maps /\ target' = target
        /\ linegrids' = [g \in DOMAIN pointGridList |-> LineGridOf(pointGridList[g])]
    BY <1>2 DEF CreateLineGrids, inputs
  <2>2. InputInv' /\ Count' = Count
    BY <1>1, <2>1 DEF InputInv, Count
  <2>3. AtInv' /\ MapInv'
    BY <2>1, <2>2 DEF TypeInv, AtInv, MapInv
  <2> QED
    BY <2>2, <2>3 DEF TypeInv
<1>3. CASE StartAverage
  <2>1. pc = "average" /\ at.grid \in 1..Count
    BY <1>1, <1>3 DEF StartAverage
  <2>2. NewLine \in Lines /\ Referee \in Nat \X Nat /\ at.axis \in Axes
    BY <2>1, NewLineType
  <2>3. LineEntry(NewLine, Referee) \in Entries
    BY <2>2 DEF LineEntry, Entries
  <2>4. MapOK(maps[at.axis])
    BY <2>2 DEF TypeInv, MapInv
  <2>5. MapOK(Emplace(maps[at.axis], LineEntry(NewLine, Referee)))
    BY <2>3, <2>4, EmplaceOK
  <2> QED
    BY <1>3, <2>1, <2>5, PutMapType DEF StartAverage
<1>4. CASE MergeLine
  <2>1. pc = "average" /\ at.grid \in 1..Count
    BY <1>1, <1>4 DEF MergeLine, Count
  <2>2. NewLine \in Lines /\ Referee \in Nat \X Nat /\ at.axis \in Axes
    BY <2>1, NewLineType
  <2>3. MapOK(maps[at.axis])
    BY <2>2 DEF TypeInv, MapInv
  <2>4. MapOK(insertLine(maps[at.axis], NewLine, Referee, LIMIT(at.axis)))
    BY <2>2, <2>3, insertLineOK
  <2> QED
    BY <1>4, <2>1, <2>4, PutMapType DEF MergeLine
<1>5. CASE FinishAverage
  <2>1. /\ pointGridList' = pointGridList /\ tilt' = tilt /\ linegrids' = linegrids /\ at' = at /\ maps' = maps
        /\ pc # "linegrids" /\ target' = TargetOf(maps, linegrids)
    BY <1>5 DEF FinishAverage, inputs
  <2>2. InputInv' /\ Count' = Count
    BY <2>1 DEF TypeInv, InputInv, Count
  <2>3. target' \in [Axes -> Seq(Lines)]
    BY <2>1, TargetType DEF TypeInv, MapInv
  <2>4. AtInv' /\ MapInv'
    BY <2>1, <2>2, <2>3 DEF TypeInv, AtInv, MapInv
  <2> QED
    BY <2>2, <2>4 DEF TypeInv
<1>6. CASE CalibrateRotation
  <2>1. UNCHANGED <<inputs, average>> /\ pc # "linegrids" /\ pc' # "linegrids"
    BY <1>6 DEF CalibrateRotation
  <2> QED
    BY <2>1, UnchangedType
<1>7. CASE CalibrateTranslation
  <2>1. UNCHANGED <<inputs, average>> /\ pc # "linegrids" /\ pc' # "linegrids"
    BY <1>7 DEF CalibrateTranslation
  <2> QED
    BY <2>1, UnchangedType
<1>8. CASE \E lens \in clusters : AddLens(lens)
  <2>1. UNCHANGED <<inputs, average>> /\ pc # "linegrids" /\ pc' # "linegrids"
    BY <1>8 DEF AddLens
  <2> QED
    BY <2>1, UnchangedType
<1>9. CASE Construct \/ Store \/ Read
  <2>1. UNCHANGED <<inputs, average>> /\ pc # "linegrids" /\ pc' # "linegrids"
    BY <1>9 DEF Construct, Store, Read
  <2> QED
    BY <2>1, UnchangedType
<1>10. CASE UNCHANGED vars
  <2>1. /\ pointGridList' = pointGridList /\ tilt' = tilt /\ linegrids' = linegrids /\ at' = at
        /\ maps' = maps /\ target' = target /\ pc' = pc
    BY <1>10 DEF vars, inputs, average
  <2>2. InputInv' /\ Count' = Count
    BY <2>1 DEF TypeInv, InputInv, Count
  <2>3. AtInv' /\ MapInv'
    BY <2>1, <2>2 DEF TypeInv, AtInv, MapInv
  <2> QED
    BY <2>2, <2>3 DEF TypeInv
<1> QED
  BY <1>2, <1>3, <1>4, <1>5, <1>6, <1>7, <1>8, <1>9, <1>10 DEF Next

LEMMA TypeInvariant == Spec => []TypeInv
<1>1. Init => TypeInv
  BY InitType
<1>2. TypeInv /\ [Next]_vars => TypeInv'
  BY NextType
<1> QED
  BY <1>1, <1>2, PTL DEF Spec

-----------------------------------------------------------------------------
(* What JSON gives back. *)

Shape(r) == DOMAIN r = {"num", "den"}
Read0(r) == IF Defined(r) THEN r ELSE Zero

LEMMA RatioShape ==
    ASSUME NEW n, NEW d
    PROVE  Shape(Ratio(n, d))
BY DEF Shape, Ratio, NaN

LEMMA AverageShape ==
    ASSUME NEW v
    PROVE  Shape(filteredAverage(v))
<1>1. PICK w : filteredAverage(v) = Over(SumOf(w), Len(w))
  BY DEF filteredAverage, MeanOf
<1> QED
  BY <1>1, RatioShape DEF Over

LEMMA ProperShape ==
    ASSUME NEW p \in Fraction
    PROVE  Shape(p)
BY DEF Fraction, Shape

LEMMA NumberRead ==
    ASSUME NEW r, Shape(r)
    PROVE  asDouble(Number(r)) = Read0(r)
<1>1. DOMAIN Null = {}
  BY DEF Null
<1>2. DOMAIN r # {}
  BY DEF Shape
<1> QED
  BY <1>1, <1>2 DEF asDouble, Number, Read0

LEMMA MatRead ==
    ASSUME NEW r \in Nat \ {0}, NEW c \in Nat, NEW mat \in [1..r -> [1..c -> Proper]]
    PROVE  DeserializeMat(SerializeMat(mat)) = mat
<1> DEFINE value == SerializeMat(mat)
<1>1. value = [k \in 1..r |-> [l \in 1..c |-> Number(mat[k][l])]]
  BY DEF SerializeMat
<1>2. DOMAIN value = 1..r /\ DOMAIN value[1] = 1..c
  BY <1>1
<1>3. \A k \in 1..r, l \in 1..c : asDouble(Element(value[k], l)) = mat[k][l]
  <2> SUFFICES ASSUME NEW k \in 1..r, NEW l \in 1..c PROVE asDouble(Element(value[k], l)) = mat[k][l]
    OBVIOUS
  <2>1. Element(value[k], l) = Number(mat[k][l])
    BY <1>1 DEF Element
  <2>2. PICK x \in Proper : x = mat[k][l]
    OBVIOUS
  <2>3. Shape(x) /\ Defined(x)
    BY ProperShape DEF Proper, Fraction, Defined
  <2>4. asDouble(Number(x)) = Read0(x)
    BY <2>3, NumberRead
  <2> QED
    BY <2>1, <2>2, <2>3, <2>4 DEF Read0
<1>4. DeserializeMat(value) = [k \in 1..r |-> [l \in 1..c |-> asDouble(Element(value[k], l))]]
  BY <1>2 DEF DeserializeMat
<1> HIDE DEF value
<1>5. DeserializeMat(value) = [k \in 1..r |-> [l \in 1..c |-> mat[k][l]]]
  BY <1>3, <1>4
<1>6. [k \in 1..r |-> [l \in 1..c |-> mat[k][l]]] = mat
  OBVIOUS
<1> QED
  BY <1>5, <1>6 DEF value

LEMMA MatricesRead ==
    ASSUME NEW lens \in [zoom : Int, focus : Int, focallength : Int]
    PROVE  LET p == LensParameters(estimateCameraMatrix(lens), NoDistortion)
           IN  DeserializeParameters(SerializeParameters(p)) = p
<1> DEFINE mat == estimateCameraMatrix(lens)
           focal == Ratio(lens.focallength * IMAGE_SIZE, SENSOR_SIZE)
           center == Ratio(IMAGE_SIZE, 2)
           p == LensParameters(mat, NoDistortion)
<1>1. focal \in Proper /\ center \in Proper /\ Zero \in Proper /\ Whole(1) \in Proper
  <2>1. lens.focallength * IMAGE_SIZE \in Int /\ IMAGE_SIZE \in Int /\ SENSOR_SIZE \in Nat /\ SENSOR_SIZE > 0
    BY CalibrateAssumption
  <2> QED
    BY <2>1, RatioValue, WholeProper DEF Zero
<1>2. mat = <<<<focal, Zero, center>>, <<Zero, focal, center>>, <<Zero, Zero, Whole(1)>>>>
  BY DEF estimateCameraMatrix
<1> HIDE DEF mat, focal, center
<1>3. mat \in [1..3 -> [1..3 -> Proper]]
  <2>1. \A a, b, c \in Proper : <<a, b, c>> \in [1..3 -> Proper]
    OBVIOUS
  <2> QED
    BY <1>1, <1>2, <2>1
<1>4. NoDistortion \in [1..8 -> [1..1 -> Proper]]
  BY <1>1 DEF NoDistortion
<1>5. DeserializeMat(SerializeMat(mat)) = mat /\ DeserializeMat(SerializeMat(NoDistortion)) = NoDistortion
  <2>1. 3 \in Nat \ {0} /\ 3 \in Nat /\ 8 \in Nat \ {0} /\ 1 \in Nat
    OBVIOUS
  <2>2. DeserializeMat(SerializeMat(mat)) = mat
    BY <1>3, <2>1, MatRead, Zenon
  <2>3. DeserializeMat(SerializeMat(NoDistortion)) = NoDistortion
    BY <1>4, <2>1, MatRead, Zenon
  <2> QED
    BY <2>2, <2>3
<1>6. p = [cameraMatrix |-> mat, distCoeffs |-> NoDistortion]
  BY DEF LensParameters
<1> DEFINE value == SerializeParameters(p)
<1>7. value = [cameraMatrix |-> SerializeMat(mat), distCoeffs |-> SerializeMat(NoDistortion)]
  BY <1>6 DEF SerializeParameters
<1>8. Member(value, "cameraMatrix") = SerializeMat(mat) /\ Member(value, "distCoeffs") = SerializeMat(NoDistortion)
  BY <1>7 DEF Member
<1>9. DeserializeParameters(value) = p
  BY <1>5, <1>6, <1>8 DEF DeserializeParameters, LensParameters
<1> QED
  BY <1>9 DEF mat

LEMMA ConfigurationRead ==
    ASSUME NEW z \in Int, NEW f \in Int
    PROVE  DeserializeConfiguration(SerializeConfiguration(LensConfiguration(z, f))) = LensConfiguration(z, f)
<1> DEFINE value == SerializeConfiguration(LensConfiguration(z, f))
<1>1. value = [zoomStep |-> Whole(z), focusStep |-> Whole(f)]
  BY DEF SerializeConfiguration, LensConfiguration
<1>2. Member(value, "zoomStep") = Whole(z) /\ Member(value, "focusStep") = Whole(f)
  BY <1>1 DEF Member
<1>3. asInt(Whole(z)) = z /\ asInt(Whole(f)) = f
  BY DEF asInt, asDouble, Whole
<1> QED
  BY <1>2, <1>3 DEF DeserializeConfiguration

Relined(lines) == [n \in DOMAIN lines |-> [lines[n] EXCEPT !.position = Read0(@)]]

LEMMA LineRead ==
    ASSUME NEW line \in Lines
    PROVE  /\ DeserializeLine(SerializeLine(line)) = [line EXCEPT !.position = Read0(@)]
           /\ [line EXCEPT !.position = Read0(@)] \in Lines
<1>1. line.subgrid \in {"A", "B"} /\ line.position \in Fraction
  BY DEF Lines
<1> DEFINE value == SerializeLine(line)
           k == IF line.subgrid = "A" THEN 0 ELSE 1
<1>2. Member(value, "subgrid") = Whole(k) /\ Member(value, "position") = Number(line.position)
  BY DEF SerializeLine, Member
<1>3. asInt(Whole(k)) = k
  BY DEF asInt, asDouble, Whole
<1>4. SubGrids[k + 1] = line.subgrid
  BY <1>1 DEF SubGrids
<1>5. asDouble(Number(line.position)) = Read0(line.position)
  BY <1>1, ProperShape, NumberRead
<1>6. DeserializeLine(value) = [subgrid |-> line.subgrid, position |-> Read0(line.position)]
  BY <1>2, <1>3, <1>4, <1>5 DEF DeserializeLine
<1>7. Read0(line.position) \in Fraction
  BY <1>1, WholeProper DEF Read0, Zero, Proper
<1> HIDE DEF value, k
<1>8. [line EXCEPT !.position = Read0(@)] = [subgrid |-> line.subgrid, position |-> Read0(line.position)]
  BY DEF Lines
<1> QED
  BY <1>1, <1>6, <1>7, <1>8 DEF value, Lines

LEMMA GridRead ==
    ASSUME NEW grid \in [Axes -> Seq(Lines)]
    PROVE  DeserializeGrid([horizontal |-> << >>, vertical |-> << >>], SerializeGrid(grid)) =
               [horizontal |-> Relined(grid.horizontal), vertical |-> Relined(grid.vertical)]
           /\ Relined(grid.horizontal) \in Seq(Lines) /\ Relined(grid.vertical) \in Seq(Lines)
<1> DEFINE value == SerializeGrid(grid)
           read(list) == [n \in DOMAIN list |-> DeserializeLine(list[n])]
<1>1. ASSUME NEW lines \in Seq(Lines)
      PROVE  /\ read([n \in DOMAIN lines |-> SerializeLine(lines[n])]) = Relined(lines)
             /\ Relined(lines) \in Seq(Lines)
  <2>1. DOMAIN lines = 1..Len(lines) /\ Len(lines) \in Nat /\ \A n \in DOMAIN lines : lines[n] \in Lines
    OBVIOUS
  <2>2. \A n \in DOMAIN lines : /\ DeserializeLine(SerializeLine(lines[n])) = [lines[n] EXCEPT !.position = Read0(@)]
                                /\ [lines[n] EXCEPT !.position = Read0(@)] \in Lines
    BY <2>1, LineRead
  <2>3. read([n \in DOMAIN lines |-> SerializeLine(lines[n])])
           = [n \in DOMAIN lines |-> DeserializeLine(SerializeLine(lines[n]))]
    OBVIOUS
  <2>4. read([n \in DOMAIN lines |-> SerializeLine(lines[n])]) = Relined(lines)
    BY <2>2, <2>3 DEF Relined
  <2>5. Relined(lines) \in [1..Len(lines) -> Lines]
    BY <2>1, <2>2 DEF Relined
  <2> QED
    BY <2>1, <2>4, <2>5
<1>2. grid["horizontal"] \in Seq(Lines) /\ grid["vertical"] \in Seq(Lines)
  BY DEF Axes
<1>3. /\ Member(value, "horizontal") = [n \in DOMAIN grid.horizontal |-> SerializeLine(grid.horizontal[n])]
      /\ Member(value, "vertical") = [n \in DOMAIN grid.vertical |-> SerializeLine(grid.vertical[n])]
  BY DEF SerializeGrid, Member
<1>4. /\ read(Member(value, "horizontal")) = Relined(grid.horizontal) /\ Relined(grid.horizontal) \in Seq(Lines)
      /\ read(Member(value, "vertical")) = Relined(grid.vertical) /\ Relined(grid.vertical) \in Seq(Lines)
  <2> HIDE DEF read, value
  <2> QED
    BY <1>1, <1>2, <1>3
<1>5. DeserializeGrid([horizontal |-> << >>, vertical |-> << >>], value) =
         [horizontal |-> << >> \o read(Member(value, "horizontal")), vertical |-> << >> \o read(Member(value, "vertical"))]
  BY DEF DeserializeGrid
<1> HIDE DEF read, value
<1>6. << >> \o Relined(grid.horizontal) = Relined(grid.horizontal) /\ << >> \o Relined(grid.vertical) = Relined(grid.vertical)
  BY <1>4, ConcatEmptySeq
<1> QED
  BY <1>4, <1>5, <1>6 DEF value

-----------------------------------------------------------------------------
(* The loop over the lens configurations. *)

Pair(l) == <<LensConfiguration(l.zoom, l.focus), LensParameters(estimateCameraMatrix(l), NoDistortion)>>
Pairs == {Pair(l) : l \in Clusters(Count)}

Ascends(lens) == \A j, k \in 1..Len(lens) : j < k => LensBefore(lens[j], lens[k])
Covers(lens, S) ==
    /\ \A k \in 1..Len(lens) : \E l \in S : lens[k] = Pair(l)
    /\ \A l \in S : \E k \in 1..Len(lens) : lens[k] = Pair(l)
Distinct(lens) == \A j, k \in 1..Len(lens) : j # k => lens[j][1] # lens[k][1]

(* Different clusters have different configurations. *)
LEMMA ClusterFacts ==
    ASSUME InputInv, NEW l \in Clusters(Count)
    PROVE  /\ l \in [zoom : Int, focus : Int, focallength : Int]
           /\ \E g \in 1..Count : l = Lenses[g] /\ \A h \in 1..(g - 1) : Configuration(h) # Configuration(g)
           /\ \A m \in Clusters(Count) : m # l => Pair(m)[1] # Pair(l)[1]
<1>1. Count \in Nat /\ Count \in 1..Len(Lenses) /\ Len(Lenses) \in Nat
      /\ \A g \in 1..Len(Lenses) : Lenses[g] \in [zoom : Int, focus : Int, focallength : Int]
  <2>1. Count \in Nat /\ Count \in 1..Len(Lenses)
    BY CountFacts
  <2>2. PICK T : T = [zoom : Int, focus : Int, focallength : Int] /\ Lenses \in Seq(T)
    BY CalibrateAssumption
  <2>3. Len(Lenses) \in Nat /\ \A g \in 1..Len(Lenses) : Lenses[g] \in T
    BY <2>2, LenProperties, ElementOfSeq
  <2> QED
    BY <2>1, <2>2, <2>3
<1>2. \A m \in Clusters(Count) : \E g \in 1..Count :
         m = Lenses[g] /\ \A h \in 1..(g - 1) : Configuration(h) # Configuration(g)
  BY DEF Clusters
<1>3. l \in [zoom : Int, focus : Int, focallength : Int]
  BY <1>1, <1>2
<1>4. ASSUME NEW m \in Clusters(Count), m # l PROVE Pair(m)[1] # Pair(l)[1]
  <2>1. PICK g \in 1..Count : l = Lenses[g] /\ \A h \in 1..(g - 1) : Configuration(h) # Configuration(g)
    BY <1>2
  <2>2. PICK k \in 1..Count : m = Lenses[k] /\ \A h \in 1..(k - 1) : Configuration(h) # Configuration(k)
    BY <1>2
  <2>3. Pair(l)[1] = Configuration(g) /\ Pair(m)[1] = Configuration(k)
    BY <2>1, <2>2 DEF Pair, Configuration
  <2>4. k # g
    BY <1>4, <2>1, <2>2
  <2>5. k \in 1..(g - 1) \/ g \in 1..(k - 1)
    BY <1>1, <2>4
  <2> QED
    BY <2>1, <2>2, <2>3, <2>5
<1> QED
  BY <1>2, <1>3, <1>4

LEMMA SortedLensOrder ==
    ASSUME NEW P, NEW lens \in Seq(P), \A p \in P : p[1].zoom \in Int /\ p[1].focus \in Int
    PROVE  /\ SortedLens(lens) \in Seq(P) /\ Len(SortedLens(lens)) = Len(lens)
           /\ \A k \in 1..Len(lens) : \E j \in 1..Len(lens) : SortedLens(lens)[k] = lens[j]
           /\ \A j \in 1..Len(lens) : \E k \in 1..Len(lens) : SortedLens(lens)[k] = lens[j]
           /\ (\A j, k \in 1..Len(lens) : j # k => LensBefore(lens[j], lens[k]) \/ LensBefore(lens[k], lens[j]))
                 => Ascends(SortedLens(lens))
<1> DEFINE L == Len(lens)
           first(i, j) == LensBefore(lens[i], lens[j]) \/ (~LensBefore(lens[j], lens[i]) /\ i < j)
           before == {p \in (DOMAIN lens) \X (DOMAIN lens) :
                         \/ LensBefore(lens[p[1]], lens[p[2]])
                         \/ ~LensBefore(lens[p[2]], lens[p[1]]) /\ p[1] < p[2]}
           order == Arranged(1..L, before)
<1>1. L \in Nat /\ DOMAIN lens = 1..L /\ \A k \in 1..L : lens[k] \in P
  OBVIOUS
<1>2. \A i, j \in 1..L : <<i, j>> \in before <=> first(i, j)
  BY <1>1
<1>3. IsFiniteSet(1..L) /\ Cardinality(1..L) = L
  <2>1. IsFiniteSet(1..L) /\ Cardinality(1..L) = IF 1 > L THEN 0 ELSE L - 1 + 1
    BY <1>1, FS_Interval, SMTT(40)
  <2> QED
    BY <1>1, <2>1
<1>4. \A i \in 1..L : lens[i][1].zoom \in Int /\ lens[i][1].focus \in Int
  BY <1>1
<1>5. StrictOrder(1..L, before)
  <2>1. ASSUME NEW i \in 1..L PROVE ~first(i, i)
    BY <1>1, <1>4 DEF LensBefore
  <2>2. ASSUME NEW i \in 1..L, NEW j \in 1..L, i # j PROVE first(i, j) \/ first(j, i)
    BY <1>1, <1>4, <2>2 DEF LensBefore
  <2>3. ASSUME NEW i \in 1..L, NEW j \in 1..L, NEW k \in 1..L, first(i, j), first(j, k) PROVE first(i, k)
    <3>1. PICK zi \in Int, zj \in Int, zk \in Int, fi \in Int, fj \in Int, fk \in Int :
             /\ zi = lens[i][1].zoom /\ zj = lens[j][1].zoom /\ zk = lens[k][1].zoom
             /\ fi = lens[i][1].focus /\ fj = lens[j][1].focus /\ fk = lens[k][1].focus
      BY <1>4
    <3>2. \A x, y \in P : LensBefore(x, y) <=>
             x[1].zoom < y[1].zoom \/ (x[1].zoom = y[1].zoom /\ x[1].focus < y[1].focus)
      BY DEF LensBefore
    <3>3. /\ LensBefore(lens[i], lens[j]) <=> zi < zj \/ (zi = zj /\ fi < fj)
          /\ LensBefore(lens[j], lens[i]) <=> zj < zi \/ (zj = zi /\ fj < fi)
          /\ LensBefore(lens[j], lens[k]) <=> zj < zk \/ (zj = zk /\ fj < fk)
          /\ LensBefore(lens[k], lens[j]) <=> zk < zj \/ (zk = zj /\ fk < fj)
          /\ LensBefore(lens[i], lens[k]) <=> zi < zk \/ (zi = zk /\ fi < fk)
          /\ LensBefore(lens[k], lens[i]) <=> zk < zi \/ (zk = zi /\ fk < fi)
      BY <1>1, <3>1, <3>2
    <3>4. i \in Int /\ j \in Int /\ k \in Int
      BY <1>1
    <3> QED
      BY <2>3, <3>3, <3>4
  <2> HIDE DEF before, first
  <2> QED
    BY <1>2, <2>1, <2>2, <2>3 DEF StrictOrder
<1>6. SortedLens(lens) = [n \in 1..L |-> lens[order[n]]]
  BY <1>1 DEF SortedLens
<1> HIDE DEF before, first
<1>7. /\ order \in [1..L -> 1..L]
      /\ \A i, j \in 1..L : i < j => <<order[i], order[j]>> \in before
      /\ \A e \in 1..L : Rank(1..L, before, e) + 1 \in 1..L /\ order[Rank(1..L, before, e) + 1] = e
  BY <1>3, <1>5, ArrangedOrder
<1> HIDE DEF order
<1>8. SortedLens(lens) \in [1..L -> P]
  BY <1>1, <1>6, <1>7
<1>9. SortedLens(lens) \in Seq(P) /\ Len(SortedLens(lens)) = L
  BY <1>1, <1>8
<1>10. ASSUME \A j, k \in 1..L : j # k => LensBefore(lens[j], lens[k]) \/ LensBefore(lens[k], lens[j])
       PROVE  Ascends(SortedLens(lens))
  <2> SUFFICES ASSUME NEW j \in 1..L, NEW k \in 1..L, j < k
               PROVE  LensBefore(SortedLens(lens)[j], SortedLens(lens)[k])
    BY <1>9 DEF Ascends
  <2>1. order[j] \in 1..L /\ order[k] \in 1..L /\ first(order[j], order[k])
    BY <1>2, <1>7
  <2>2. ~first(order[k], order[j])
    <3>1. ~(<<order[j], order[j]>> \in before)
      BY <1>5, <2>1 DEF StrictOrder
    <3>2. <<order[j], order[k]>> \in before
      BY <1>7
    <3> QED
      BY <1>2, <1>5, <2>1, <3>1, <3>2 DEF StrictOrder
  <2>3. order[j] # order[k]
    BY <2>1, <2>2
  <2>4. LensBefore(lens[order[j]], lens[order[k]])
    BY <1>10, <2>1, <2>2, <2>3 DEF first
  <2> QED
    BY <1>6, <2>4
<1>11. \A k \in 1..L : SortedLens(lens)[k] = lens[order[k]] /\ order[k] \in 1..L
  BY <1>6, <1>7
<1>12. \A j \in 1..L : \E k \in 1..L : SortedLens(lens)[k] = lens[j]
  BY <1>7, <1>11, SMTT(40)
<1> QED
  BY <1>9, <1>10, <1>11, <1>12

Stored == {"store", "read", "done"}

LensInv ==
    /\ clusters \in SUBSET Clusters(Count)
    /\ pc \notin Stored =>
          /\ lensCalib \in Seq(Pairs) /\ Covers(lensCalib, Clusters(Count) \ clusters)
          /\ Distinct(lensCalib)

DataInv ==
    /\ Shape(rotation)
    /\ translation = <<translation[1], translation[2]>> /\ Shape(translation[1]) /\ Shape(translation[2])
    /\ pc \in Stored =>
          /\ data = [serial |-> Serial, array |-> ArrayParameters(target, translation, rotation), lens |-> data.lens]
          /\ data.lens \in Seq(Pairs) /\ Covers(data.lens, Clusters(Count)) /\ Ascends(data.lens)
    /\ pc \in {"read", "done"} => file = SerializeData(data)
    /\ pc = "done" => restored = DeserializeData(DefaultCalibrationData, file)

FileInv == LensInv /\ DataInv

LEMMA PairFacts ==
    ASSUME InputInv
    PROVE  \A p \in Pairs : p[1].zoom \in Int /\ p[1].focus \in Int
<1> SUFFICES ASSUME NEW l \in Clusters(Count) PROVE Pair(l)[1].zoom \in Int /\ Pair(l)[1].focus \in Int
  BY DEF Pairs
<1>1. l.zoom \in Int /\ l.focus \in Int
  BY ClusterFacts
<1> QED
  BY <1>1 DEF Pair, LensConfiguration

(* Entries of different configurations are comparable. *)
LEMMA DistinctCompared ==
    ASSUME InputInv, NEW lens \in Seq(Pairs), Distinct(lens)
    PROVE  \A j, k \in 1..Len(lens) : j # k => LensBefore(lens[j], lens[k]) \/ LensBefore(lens[k], lens[j])
<1> SUFFICES ASSUME NEW j \in 1..Len(lens), NEW k \in 1..Len(lens), j # k
             PROVE  LensBefore(lens[j], lens[k]) \/ LensBefore(lens[k], lens[j])
  OBVIOUS
<1>1. lens[j] \in Pairs /\ lens[k] \in Pairs
  OBVIOUS
<1>2. PICK l \in Clusters(Count) : lens[j] = Pair(l)
  BY <1>1 DEF Pairs
<1>3. PICK m \in Clusters(Count) : lens[k] = Pair(m)
  BY <1>1 DEF Pairs
<1>4. Pair(l)[1] = [zoom |-> l.zoom, focus |-> l.focus] /\ Pair(m)[1] = [zoom |-> m.zoom, focus |-> m.focus]
  BY DEF Pair, LensConfiguration
<1>5. l.zoom \in Int /\ l.focus \in Int /\ m.zoom \in Int /\ m.focus \in Int
  BY ClusterFacts
<1>6. l.zoom # m.zoom \/ l.focus # m.focus
  BY <1>2, <1>3, <1>4 DEF Distinct
<1> QED
  BY <1>2, <1>3, <1>4, <1>5, <1>6 DEF LensBefore

LEMMA InitFile ==
    ASSUME Init
    PROVE  FileInv
<1>1. LensInv
  <2>1. clusters = Clusters(Count) /\ lensCalib = << >>
    BY DEF Init, Count
  <2> QED
    BY <2>1 DEF LensInv, Covers, Distinct
<1>2. DataInv
  <2>1. Shape(Zero)
    BY DEF Shape, Zero, Whole
  <2>2. rotation = Zero /\ translation = <<Zero, Zero>> /\ pc = "linegrids"
    BY DEF Init
  <2> QED
    BY <2>1, <2>2 DEF DataInv, Stored
<1> QED
  BY <1>1, <1>2 DEF FileInv

LEMMA NextFile ==
    ASSUME TypeInv, FileInv, [Next]_vars
    PROVE  FileInv'
<1>1. InputInv
  BY DEF TypeInv
<1>2. pointGridList' = pointGridList /\ Count' = Count /\ Clusters(Count)' = Clusters(Count) /\ Pairs' = Pairs
  <2>1. pointGridList' = pointGridList
    BY DEF Next, CreateLineGrids, StartAverage, MergeLine, PutMap, FinishAverage, CalibrateRotation,
           CalibrateTranslation, AddLens, Construct, Store, Read, vars, inputs
  <2>2. Count' = Count
    BY <2>1 DEF Count
  <2>3. Clusters(Count)' = Clusters(Count)
    BY <2>2 DEF Clusters, Configuration
  <2> QED
    BY <2>1, <2>2, <2>3 DEF Pairs, Pair
<1>3. ASSUME UNCHANGED <<outputs, rotation, translation>>, pc \notin Stored, pc' \notin Stored
      PROVE  FileInv'
  <2>1. clusters' = clusters /\ lensCalib' = lensCalib /\ rotation' = rotation /\ translation' = translation
    BY <1>3 DEF outputs
  <2>2. LensInv'
    BY <1>2, <1>3, <2>1 DEF FileInv, LensInv, Covers, Distinct, Pair
  <2>3. DataInv'
    BY <1>3, <2>1 DEF FileInv, DataInv, Stored
  <2> QED
    BY <2>2, <2>3 DEF FileInv
<1>4. CASE CreateLineGrids \/ StartAverage \/ MergeLine \/ FinishAverage
  <2>1. UNCHANGED <<outputs, rotation, translation>> /\ pc \notin Stored /\ pc' \notin Stored
    BY <1>4 DEF CreateLineGrids, StartAverage, MergeLine, PutMap, FinishAverage, Stored
  <2> QED
    BY <1>3, <2>1
<1>5. CASE CalibrateRotation
  <2>1. /\ clusters' = clusters /\ lensCalib' = lensCalib /\ translation' = translation
        /\ pc \notin Stored /\ pc' \notin Stored /\ rotation' = calibrateRotation(pointGridList)
    BY <1>5 DEF CalibrateRotation, outputs, Stored
  <2>2. Shape(rotation')
    BY <2>1, AverageShape DEF calibrateRotation
  <2>3. LensInv'
    BY <1>2, <2>1 DEF FileInv, LensInv, Covers, Distinct, Pair
  <2>4. DataInv'
    BY <2>1, <2>2 DEF FileInv, DataInv, Stored
  <2> QED
    BY <2>3, <2>4 DEF FileInv
<1>6. CASE CalibrateTranslation
  <2>1. /\ clusters' = clusters /\ lensCalib' = lensCalib /\ rotation' = rotation
        /\ pc \notin Stored /\ pc' \notin Stored
    BY <1>6 DEF CalibrateTranslation, outputs, Stored
  <2>2. translation' = <<translation'[1], translation'[2]>> /\ Shape(translation'[1]) /\ Shape(translation'[2])
    <3>1. CASE translation' = translation
      BY <3>1 DEF FileInv, DataInv
    <3>2. CASE translation' # translation
      <4>1. PICK v, w : translation' = <<filteredAverage(v), filteredAverage(w)>>
        BY <1>6, <3>2 DEF CalibrateTranslation
      <4>2. Shape(filteredAverage(v)) /\ Shape(filteredAverage(w))
        BY AverageShape
      <4> QED
        BY <4>1, <4>2
    <3> QED
      BY <3>1, <3>2
  <2>3. LensInv'
    BY <1>2, <2>1 DEF FileInv, LensInv, Covers, Distinct, Pair
  <2>4. DataInv'
    BY <2>1, <2>2 DEF FileInv, DataInv, Stored
  <2> QED
    BY <2>3, <2>4 DEF FileInv
<1>7. ASSUME NEW lens \in clusters, AddLens(lens) PROVE FileInv'
  <2>1. /\ pc = "lens" /\ clusters' = clusters \ {lens} /\ lensCalib' = Append(lensCalib, Pair(lens))
        /\ pc' = pc /\ translation' = translation /\ rotation' = rotation
    BY <1>7 DEF AddLens, Pair
  <2>2. /\ clusters \in SUBSET Clusters(Count) /\ lensCalib \in Seq(Pairs)
        /\ Covers(lensCalib, Clusters(Count) \ clusters) /\ Distinct(lensCalib)
    BY <2>1 DEF FileInv, LensInv, Stored
  <2>3. lens \in Clusters(Count) /\ Pair(lens) \in Pairs
    BY <2>2 DEF Pairs
  <2>4. /\ Append(lensCalib, Pair(lens)) \in Seq(Pairs) /\ Len(lensCalib) \in Nat
        /\ Len(Append(lensCalib, Pair(lens))) = Len(lensCalib) + 1
        /\ Append(lensCalib, Pair(lens))[Len(lensCalib) + 1] = Pair(lens)
        /\ \A k \in 1..Len(lensCalib) : Append(lensCalib, Pair(lens))[k] = lensCalib[k]
    BY <2>2, <2>3
  <2> DEFINE new == Append(lensCalib, Pair(lens))
             L == Len(lensCalib)
  <2>5. \A k \in 1..(L + 1) : k # L + 1 => k \in 1..L
    BY <2>4
  <2>6. \A k \in 1..L : k \in 1..(L + 1)
    BY <2>4
  <2>7. L + 1 \in 1..(L + 1)
    BY <2>4
  <2> HIDE DEF new, L
  <2>8. Covers(new, Clusters(Count) \ (clusters \ {lens}))
    <3>1. ASSUME NEW k \in 1..(L + 1) PROVE \E l \in Clusters(Count) \ (clusters \ {lens}) : new[k] = Pair(l)
      BY <2>2, <2>3, <2>4, <2>5 DEF new, L, Covers
    <3>2. ASSUME NEW l \in Clusters(Count) \ (clusters \ {lens}) PROVE \E k \in 1..(L + 1) : new[k] = Pair(l)
      <4>1. CASE l = lens
        BY <2>4, <2>7, <4>1 DEF new, L
      <4>2. CASE l # lens
        <5>1. PICK k \in 1..L : lensCalib[k] = Pair(l)
          BY <2>2, <4>2 DEF Covers, L
        <5> QED
          BY <2>4, <2>6, <5>1 DEF new, L
      <4> QED
        BY <4>1, <4>2
    <3> QED
      BY <2>4, <3>1, <3>2 DEF Covers, new, L
  <2>9. Distinct(new)
    <3>1. ASSUME NEW k \in 1..L PROVE new[k][1] # new[L + 1][1]
      <4>1. PICK l \in Clusters(Count) \ clusters : lensCalib[k] = Pair(l)
        BY <2>2 DEF Covers, L
      <4>2. l # lens
        OBVIOUS
      <4>3. Pair(l)[1] # Pair(lens)[1]
        BY <1>1, <2>3, <4>2, ClusterFacts
      <4> QED
        BY <2>4, <4>1, <4>3 DEF new, L
    <3>2. ASSUME NEW j \in 1..L, NEW k \in 1..L, j # k PROVE new[j][1] # new[k][1]
      BY <2>2, <2>4, <3>2 DEF new, L, Distinct
    <3>3. Len(new) = L + 1
      BY <2>4 DEF new, L
    <3> QED
      BY <2>5, <3>1, <3>2, <3>3 DEF Distinct
  <2>10. LensInv'
    <3>1. clusters' \in SUBSET Clusters(Count)
      BY <2>1, <2>2
    <3>2. lensCalib' = new /\ new \in Seq(Pairs)
      BY <2>1, <2>4 DEF new
    <3>3. Covers(lensCalib', Clusters(Count)' \ clusters')
      BY <1>2, <2>1, <2>8, <3>2
    <3>4. Distinct(lensCalib')
      BY <2>9, <3>2
    <3>5. lensCalib' \in Seq(Pairs')
      BY <1>2, <3>2
    <3> QED
      BY <1>2, <3>1, <3>3, <3>4, <3>5 DEF LensInv, Covers, Distinct
  <2>11. DataInv'
    BY <2>1 DEF FileInv, DataInv, Stored
  <2> QED
    BY <2>10, <2>11 DEF FileInv
<1>8. CASE Construct
  <2>1. /\ pc = "lens" /\ clusters = {} /\ clusters' = clusters /\ pc' = "store"
        /\ translation' = translation /\ rotation' = rotation /\ target' = target
        /\ data' = NewCalibrationData(Serial, ArrayParameters(target, translation, rotation), lensCalib)
    BY <1>8 DEF Construct, average
  <2>2. lensCalib \in Seq(Pairs) /\ Covers(lensCalib, Clusters(Count)) /\ Distinct(lensCalib)
    BY <2>1 DEF FileInv, LensInv, Stored
  <2> DEFINE sorted == SortedLens(lensCalib)
  <2>3. /\ sorted \in Seq(Pairs) /\ Len(sorted) = Len(lensCalib)
        /\ \A k \in 1..Len(lensCalib) : \E j \in 1..Len(lensCalib) : sorted[k] = lensCalib[j]
        /\ \A j \in 1..Len(lensCalib) : \E k \in 1..Len(lensCalib) : sorted[k] = lensCalib[j]
        /\ (\A j, k \in 1..Len(lensCalib) :
               j # k => LensBefore(lensCalib[j], lensCalib[k]) \/ LensBefore(lensCalib[k], lensCalib[j]))
              => Ascends(sorted)
    BY <1>1, <2>2, PairFacts, SortedLensOrder
  <2>4. Ascends(sorted)
    BY <1>1, <2>2, <2>3, DistinctCompared
  <2> HIDE DEF sorted
  <2>5. Covers(sorted, Clusters(Count))
    <3>1. \A k \in 1..Len(sorted) : \E l \in Clusters(Count) : sorted[k] = Pair(l)
      <4> SUFFICES ASSUME NEW k \in 1..Len(sorted) PROVE \E l \in Clusters(Count) : sorted[k] = Pair(l)
        OBVIOUS
      <4>1. PICK j \in 1..Len(lensCalib) : sorted[k] = lensCalib[j]
        BY <2>3
      <4>2. PICK l \in Clusters(Count) : lensCalib[j] = Pair(l)
        BY <2>2 DEF Covers
      <4> QED
        BY <4>1, <4>2
    <3>2. \A l \in Clusters(Count) : \E k \in 1..Len(sorted) : sorted[k] = Pair(l)
      BY <2>2, <2>3, ZenonT(60) DEF Covers
    <3> QED
      BY <3>1, <3>2 DEF Covers
  <2>6. data' = [serial |-> Serial, array |-> ArrayParameters(target, translation, rotation), lens |-> sorted]
    BY <2>1 DEF NewCalibrationData, sorted
  <2>7. DataInv'
    <3>1. data'.lens = sorted
      BY <2>6
    <3>2. data' = [serial |-> Serial, array |-> ArrayParameters(target', translation', rotation'), lens |-> data'.lens]
      BY <2>1, <2>6, <3>1
    <3>3. Covers(sorted, Clusters(Count))' <=> Covers(sorted', Clusters(Count))
      BY <1>2 DEF Covers, Pair
    <3>4. data'.lens \in Seq(Pairs') /\ Covers(data.lens, Clusters(Count))' /\ Ascends(data.lens)'
      BY <1>2, <2>3, <2>4, <2>5, <3>1 DEF Covers, Pair, Ascends, LensBefore
    <3> QED
      BY <2>1, <3>2, <3>4 DEF FileInv, DataInv, Stored
  <2>8. LensInv'
    BY <1>2, <2>1 DEF FileInv, LensInv, Stored
  <2> QED
    BY <2>7, <2>8 DEF FileInv
<1>9. CASE Store
  <2>1. /\ pc = "store" /\ pc' = "read" /\ clusters' = clusters /\ data' = data /\ file' = SerializeData(data)
        /\ translation' = translation /\ rotation' = rotation /\ target' = target
    BY <1>9 DEF Store, average
  <2>2. DataInv'
    BY <1>2, <2>1 DEF FileInv, DataInv, Stored, Covers, Pair, Ascends
  <2>3. LensInv'
    BY <1>2, <2>1 DEF FileInv, LensInv, Stored
  <2> QED
    BY <2>2, <2>3 DEF FileInv
<1>10. CASE Read
  <2>1. /\ pc = "read" /\ pc' = "done" /\ clusters' = clusters /\ data' = data /\ file' = file
        /\ restored' = DeserializeData(DefaultCalibrationData, file)
        /\ translation' = translation /\ rotation' = rotation /\ target' = target
    BY <1>10 DEF Read, average
  <2>2. DataInv'
    BY <1>2, <2>1 DEF FileInv, DataInv, Stored, Covers, Pair, Ascends
  <2>3. LensInv'
    BY <1>2, <2>1 DEF FileInv, LensInv, Stored
  <2> QED
    BY <2>2, <2>3 DEF FileInv
<1>11. CASE UNCHANGED vars
  <2>1. /\ pc' = pc /\ clusters' = clusters /\ data' = data /\ file' = file /\ restored' = restored
        /\ lensCalib' = lensCalib /\ translation' = translation /\ rotation' = rotation /\ target' = target
    BY <1>11 DEF vars, average, outputs
  <2>2. DataInv'
    BY <1>2, <2>1 DEF FileInv, DataInv, Stored, Covers, Pair, Ascends
  <2>3. LensInv'
    BY <1>2, <2>1 DEF FileInv, LensInv, Stored, Covers, Distinct, Pair
  <2> QED
    BY <2>2, <2>3 DEF FileInv
<1> QED
  BY <1>4, <1>5, <1>6, <1>7, <1>8, <1>9, <1>10, <1>11 DEF Next

LEMMA FileInvariant == Spec => [](TypeInv /\ FileInv)
<1>1. Init => TypeInv /\ FileInv
  BY InitType, InitFile
<1>2. (TypeInv /\ FileInv) /\ [Next]_vars => (TypeInv /\ FileInv)'
  BY NextType, NextFile
<1> QED
  BY <1>1, <1>2, PTL DEF Spec

LEMMA ArrayRead ==
    ASSUME NEW grid \in [Axes -> Seq(Lines)], NEW t1, NEW t2, NEW r, Shape(t1), Shape(t2), Shape(r)
    PROVE  DeserializeArray(DefaultArray, SerializeArray(ArrayParameters(grid, <<t1, t2>>, r))) =
              [grid |-> [horizontal |-> Relined(grid.horizontal), vertical |-> Relined(grid.vertical)],
               translation |-> <<Read0(t1), Read0(t2)>>,
               rotation |-> Read0(r)]
<1> DEFINE array == ArrayParameters(grid, <<t1, t2>>, r)
           value == SerializeArray(array)
<1>1. array = [grid |-> grid, translation |-> <<t1, t2>>, rotation |-> r]
  BY DEF ArrayParameters
<1>2. value = [translation |-> SerializeVec(<<t1, t2>>), rotation |-> Number(r), grid |-> SerializeGrid(grid)]
  <2>1. array.translation = <<t1, t2>> /\ array.rotation = r /\ array.grid = grid
    BY DEF ArrayParameters
  <2> HIDE DEF array
  <2>2. value = [translation |-> SerializeVec(array.translation), rotation |-> Number(array.rotation),
                 grid |-> SerializeGrid(array.grid)]
    BY DEF SerializeArray
  <2> HIDE DEF value
  <2> QED
    BY <2>1, <2>2
<1> HIDE DEF array, value
<1>3. /\ Member(value, "translation") = SerializeVec(<<t1, t2>>) /\ Member(value, "rotation") = Number(r)
      /\ Member(value, "grid") = SerializeGrid(grid)
  BY <1>2 DEF Member
<1>4. DeserializeVec(SerializeVec(<<t1, t2>>), 2) = <<Read0(t1), Read0(t2)>>
  <2> DEFINE v == SerializeVec(<<t1, t2>>)
  <2>1. DOMAIN v = 1..2 /\ v[1] = Number(t1) /\ v[2] = Number(t2)
    BY DEF SerializeVec
  <2> HIDE DEF v
  <2>2. Element(v, 1) = Number(t1) /\ Element(v, 2) = Number(t2)
    BY <2>1 DEF Element
  <2>3. asDouble(Element(v, 1)) = Read0(t1) /\ asDouble(Element(v, 2)) = Read0(t2)
    BY <2>2, NumberRead
  <2>4. DeserializeVec(v, 2) = [k \in 1..2 |-> asDouble(Element(v, k))]
    BY DEF DeserializeVec
  <2> QED
    BY <2>3, <2>4 DEF v
<1>5. asDouble(Number(r)) = Read0(r)
  BY NumberRead
<1>6. DefaultArray.grid = [horizontal |-> << >>, vertical |-> << >>]
  BY DEF DefaultArray, ArrayParameters
<1>7. DeserializeGrid(DefaultArray.grid, SerializeGrid(grid)) =
         [horizontal |-> Relined(grid.horizontal), vertical |-> Relined(grid.vertical)]
  BY <1>6, GridRead
<1> QED
  BY <1>3, <1>4, <1>5, <1>7 DEF DeserializeArray, ArrayParameters, value, array

LEMMA LensRead ==
    ASSUME InputInv, NEW lens \in Seq(Pairs), NEW k \in 1..Len(lens)
    PROVE  <<DeserializeConfiguration(SerializeConfiguration(lens[k][1])),
             DeserializeParameters(SerializeParameters(lens[k][2]))>> = lens[k]
<1>1. PICK l \in Clusters(Count) : lens[k] = Pair(l)
  <2>1. lens[k] \in Pairs
    BY ElementOfSeq
  <2> QED
    BY <2>1 DEF Pairs
<1>2. l \in [zoom : Int, focus : Int, focallength : Int]
  BY ClusterFacts
<1>3. lens[k][1] = LensConfiguration(l.zoom, l.focus)
      /\ lens[k][2] = LensParameters(estimateCameraMatrix(l), NoDistortion)
      /\ lens[k] = <<lens[k][1], lens[k][2]>>
  BY <1>1 DEF Pair
<1>4. DeserializeConfiguration(SerializeConfiguration(lens[k][1])) = lens[k][1]
  BY <1>2, <1>3, ConfigurationRead
<1>5. DeserializeParameters(SerializeParameters(lens[k][2])) = lens[k][2]
  BY <1>2, <1>3, MatricesRead
<1> QED
  BY <1>3, <1>4, <1>5

(* The data that come back from the file. *)
LEMMA Restored ==
    ASSUME TypeInv, FileInv, pc = "done"
    PROVE  restored = [serial |-> Serial,
                       array |-> [grid |-> [horizontal |-> Relined(target.horizontal),
                                            vertical |-> Relined(target.vertical)],
                                  translation |-> <<Read0(translation[1]), Read0(translation[2])>>,
                                  rotation |-> Read0(rotation)],
                       lens |-> data.lens]
<1>1. /\ data = [serial |-> Serial, array |-> ArrayParameters(target, translation, rotation), lens |-> data.lens]
      /\ data.lens \in Seq(Pairs) /\ file = SerializeData(data)
      /\ restored = DeserializeData(DefaultCalibrationData, file)
      /\ Shape(rotation) /\ Shape(translation[1]) /\ Shape(translation[2])
      /\ translation = <<translation[1], translation[2]>>
  BY DEF FileInv, DataInv, Stored
<1>2. PICK lens \in Seq(Pairs) : lens = data.lens
  BY <1>1
<1> DEFINE pairs == [k \in DOMAIN lens |->
                 [configuration |-> SerializeConfiguration(lens[k][1]),
                  parameters |-> SerializeParameters(lens[k][2])]]
           array == ArrayParameters(target, translation, rotation)
<1>3. data.serial = Serial /\ data.array = array
  BY <1>1
<1>4. file = [serial |-> String(Serial), array |-> SerializeArray(array), lens |-> pairs]
  <2>1. SerializeData(data) = [serial |-> String(data.serial), array |-> SerializeArray(data.array), lens |-> pairs]
    BY <1>2 DEF SerializeData
  <2> HIDE DEF pairs, array
  <2> QED
    BY <1>1, <1>3, <2>1
<1>5. Member(file, "serial") = String(Serial) /\ Member(file, "array") = SerializeArray(array)
      /\ Member(file, "lens") = pairs
  <2> HIDE DEF pairs, array
  <2> QED
    BY <1>4 DEF Member
<1>6. asString(String(Serial)) = Serial
  BY DEF asString, String
<1>7. DeserializeArray(DefaultArray, SerializeArray(array)) =
        [grid |-> [horizontal |-> Relined(target.horizontal), vertical |-> Relined(target.vertical)],
         translation |-> <<Read0(translation[1]), Read0(translation[2])>>,
         rotation |-> Read0(rotation)]
  <2>1. PICK t1, t2 : translation = <<t1, t2>> /\ t1 = translation[1] /\ t2 = translation[2]
    BY <1>1
  <2>2. target \in [Axes -> Seq(Lines)]
    BY DEF TypeInv, MapInv
  <2>3. DeserializeArray(DefaultArray, SerializeArray(ArrayParameters(target, <<t1, t2>>, rotation))) =
              [grid |-> [horizontal |-> Relined(target.horizontal), vertical |-> Relined(target.vertical)],
               translation |-> <<Read0(t1), Read0(t2)>>,
               rotation |-> Read0(rotation)]
    <3>1. Shape(t1) /\ Shape(t2) /\ Shape(rotation)
      BY <1>1, <2>1
    <3> QED
      BY <2>2, <3>1, ArrayRead, Zenon
  <2> QED
    BY <2>1, <2>3
<1> DEFINE back == [k \in DOMAIN pairs |->
                <<DeserializeConfiguration(Member(pairs[k], "configuration")),
                  DeserializeParameters(Member(pairs[k], "parameters"))>>]
<1>8. back = lens
  <2>1. DOMAIN lens = 1..Len(lens) /\ DOMAIN pairs = DOMAIN lens /\ DOMAIN back = DOMAIN lens
    OBVIOUS
  <2>2. ASSUME NEW k \in DOMAIN lens PROVE back[k] = lens[k]
    <3>1. pairs[k] = [configuration |-> SerializeConfiguration(lens[k][1]),
                      parameters |-> SerializeParameters(lens[k][2])]
      OBVIOUS
    <3>2. Member(pairs[k], "configuration") = SerializeConfiguration(lens[k][1])
          /\ Member(pairs[k], "parameters") = SerializeParameters(lens[k][2])
      <4> HIDE DEF pairs
      <4> QED
        BY <3>1 DEF Member
    <3>3. back[k] = <<DeserializeConfiguration(Member(pairs[k], "configuration")),
                      DeserializeParameters(Member(pairs[k], "parameters"))>>
      OBVIOUS
    <3>4. <<DeserializeConfiguration(SerializeConfiguration(lens[k][1])),
            DeserializeParameters(SerializeParameters(lens[k][2]))>> = lens[k]
      BY <2>1, LensRead DEF TypeInv
    <3> HIDE DEF back, pairs
    <3> QED
      BY <3>2, <3>3, <3>4
  <2>3. back = [k \in DOMAIN lens |-> back[k]]
    BY <2>1
  <2>4. lens = [k \in DOMAIN lens |-> lens[k]]
    OBVIOUS
  <2> HIDE DEF back, pairs
  <2> QED
    BY <2>2, <2>3, <2>4
<1>9. << >> \o lens = lens
  BY ConcatEmptySeq
<1>10. DeserializeData(DefaultCalibrationData, file) =
         [serial |-> asString(Member(file, "serial")),
          array |-> DeserializeArray(DefaultArray, Member(file, "array")),
          lens |-> << >> \o back]
  BY <1>5 DEF DeserializeData, DefaultCalibrationData
<1> HIDE DEF back, pairs, array
<1> QED
  BY <1>1, <1>2, <1>5, <1>6, <1>7, <1>8, <1>9, <1>10

LEMMA LensCompleteHolds ==
    ASSUME TypeInv, FileInv
    PROVE  LensComplete
<1> SUFFICES ASSUME pc = "store" PROVE LensComplete
  BY DEF LensComplete
<1>1. InputInv /\ Count \in Nat /\ DOMAIN pointGridList = 1..Count
  BY CountFacts DEF TypeInv
<1>2. PICK lens \in Seq(Pairs) : lens = data.lens /\ Covers(lens, Clusters(Count)) /\ Ascends(lens)
  BY DEF FileInv, DataInv, Stored
<1>3. DOMAIN lens = 1..Len(lens)
  OBVIOUS
<1>4. ASSUME NEW j \in DOMAIN lens
      PROVE  \E g \in 1..Count :
                /\ lens[j] = <<Configuration(g), LensParameters(estimateCameraMatrix(Lenses[g]), NoDistortion)>>
                /\ \A h \in 1..(g - 1) : Configuration(h) # Configuration(g)
  <2>1. PICK l \in Clusters(Count) : lens[j] = Pair(l)
    BY <1>2, <1>3 DEF Covers
  <2>2. PICK g \in 1..Count : l = Lenses[g] /\ \A h \in 1..(g - 1) : Configuration(h) # Configuration(g)
    BY <1>1, ClusterFacts
  <2>3. Pair(l) = <<Configuration(g), LensParameters(estimateCameraMatrix(Lenses[g]), NoDistortion)>>
    BY <2>2 DEF Pair, Configuration
  <2> QED
    BY <2>1, <2>2, <2>3
<1>5. ASSUME NEW g \in 1..Count PROVE \E j \in DOMAIN lens : lens[j][1] = Configuration(g)
  <2> DEFINE T == {h \in 1..Count : Configuration(h) = Configuration(g)}
  <2>1. T \in SUBSET Nat /\ g \in T
    BY <1>1
  <2>2. PICK h \in T : \A k \in T : h <= k
    <3> HIDE DEF T
    <3> QED
      BY <2>1, LeastNat
  <2>3. h \in 1..Count /\ Configuration(h) = Configuration(g)
    OBVIOUS
  <2>4. \A k \in 1..(h - 1) : Configuration(k) # Configuration(h)
    <3> SUFFICES ASSUME NEW k \in 1..(h - 1), Configuration(k) = Configuration(h) PROVE FALSE
      OBVIOUS
    <3>1. k \in T /\ ~(h <= k)
      BY <1>1, <2>3
    <3> QED
      BY <2>2, <3>1
  <2>5. Lenses[h] \in Clusters(Count)
    BY <2>3, <2>4 DEF Clusters
  <2>6. PICK j \in DOMAIN lens : lens[j] = Pair(Lenses[h])
    BY <1>2, <1>3, <2>5 DEF Covers
  <2>7. lens[j][1] = Configuration(h)
    BY <2>6 DEF Pair, Configuration
  <2> QED
    BY <2>3, <2>7
<1>6. {entry[1] : entry \in ToSet(lens)} = {Configuration(g) : g \in 1..Count}
  <2>1. ToSet(lens) = {lens[j] : j \in DOMAIN lens}
    BY DEF ToSet
  <2>2. ASSUME NEW j \in DOMAIN lens PROVE \E g \in 1..Count : lens[j][1] = Configuration(g)
    BY <1>4
  <2>3. {entry[1] : entry \in ToSet(lens)} \subseteq {Configuration(g) : g \in 1..Count}
    BY <2>1, <2>2
  <2>4. {Configuration(g) : g \in 1..Count} \subseteq {entry[1] : entry \in ToSet(lens)}
    <3> SUFFICES ASSUME NEW g \in 1..Count PROVE \E entry \in ToSet(lens) : Configuration(g) = entry[1]
      OBVIOUS
    <3>1. PICK j \in DOMAIN lens : lens[j][1] = Configuration(g)
      BY <1>5
    <3>2. lens[j] \in ToSet(lens)
      BY <2>1
    <3> QED
      BY <3>1, <3>2
  <2> QED
    BY <2>3, <2>4
<1>7. \A j, k \in DOMAIN lens : j < k =>
         lens[j][1].zoom < lens[k][1].zoom \/ (lens[j][1].zoom = lens[k][1].zoom /\ lens[j][1].focus < lens[k][1].focus)
  BY <1>2, <1>3 DEF Ascends, LensBefore
<1> QED
  BY <1>1, <1>2, <1>4, <1>6, <1>7 DEF LensComplete

LEMMA RoundTripHolds ==
    ASSUME TypeInv, FileInv
    PROVE  RoundTrip
<1> SUFFICES ASSUME pc = "done" PROVE RoundTrip
  BY DEF RoundTrip
<1>1. restored = [serial |-> Serial,
                  array |-> [grid |-> [horizontal |-> Relined(target.horizontal),
                                       vertical |-> Relined(target.vertical)],
                             translation |-> <<Read0(translation[1]), Read0(translation[2])>>,
                             rotation |-> Read0(rotation)],
                  lens |-> data.lens]
  BY Restored
<1>2. /\ data = [serial |-> Serial, array |-> ArrayParameters(target, translation, rotation), lens |-> data.lens]
  BY DEF FileInv, DataInv, Stored
<1>3. data.array.grid = target /\ data.array.translation = translation /\ data.array.rotation = rotation
  BY <1>2 DEF ArrayParameters
<1> DEFINE new == [grid |-> [horizontal |-> Relined(data.array.grid.horizontal),
                             vertical |-> Relined(data.array.grid.vertical)],
                   translation |-> [k \in 1..2 |-> Read0(data.array.translation[k])],
                   rotation |-> Read0(data.array.rotation)]
<1>4. [k \in 1..2 |-> Read0(data.array.translation[k])] = <<Read0(translation[1]), Read0(translation[2])>>
  BY <1>3
<1>5. restored.array = new
  BY <1>1, <1>3, <1>4
<1>6. restored = [data EXCEPT !.array = new]
  <2> HIDE DEF new
  <2>1. restored = [serial |-> Serial, array |-> new, lens |-> data.lens]
    BY <1>1, <1>5
  <2>2. [data EXCEPT !.array = new] = [serial |-> Serial, array |-> new, lens |-> data.lens]
    BY <1>2
  <2> QED
    BY <2>1, <2>2
<1> QED
  BY <1>6 DEF RoundTrip, Relined, Read0

(* DataRestored: every lens configuration of the images comes out of       *)
(* calibrate once, in order and with the parameters of the first image     *)
(* that has it, whatever the order of clusterMap, and what the program     *)
(* reads from the calibration file is what calibrate returned.             *)
THEOREM DataCorrect == Spec => []DataRestored
<1>1. TypeInv /\ FileInv => DataRestored
  BY LensCompleteHolds, RoundTripHolds DEF DataRestored
<1> QED
  BY <1>1, FileInvariant, PTL

-----------------------------------------------------------------------------
(* The light-field image. *)

LEMMA Halves ==
    ASSUME NEW n \in Nat
    PROVE  n \div 2 \in Nat /\ (n = 2 * (n \div 2) \/ n = 2 * (n \div 2) + 1)
<1>1. n = 2 * (n \div 2) + (n % 2) /\ n % 2 \in 0..1 /\ n \div 2 \in Nat
  OBVIOUS
<1> QED
  BY <1>1

(* Rows of pixels behind each other: a column too far is the first one of  *)
(* the next row.                                                           *)
SamePlace(C, a, x, b, y) == a * C + x = b * C + y

LEMMA SameAddress ==
    ASSUME NEW C \in Nat, NEW a \in Nat, NEW b \in Nat, NEW x \in 0..C, NEW y \in 0..(C - 1),
           SamePlace(C, a, x, b, y)
    PROVE  (a = b /\ x = y) \/ (b = a + 1 /\ x = C /\ y = 0)
<1>0. a * C + x = b * C + y
  BY DEF SamePlace
<1>1. C > 0
  OBVIOUS
<1>2. CASE a = b
  BY <1>0, <1>2
<1>3. CASE a < b
  <2>1. PICK k \in Nat : b = a + 1 + k
    <3>1. b - a - 1 \in Nat /\ b = a + 1 + (b - a - 1)
      BY <1>3
    <3> QED
      BY <3>1
  <2>2. b * C = a * C + C + k * C /\ a * C \in Int /\ k * C \in Int
    BY <2>1, SMTT(40)
  <2>3. x = C + k * C + y
    BY <1>0, <2>2
  <2>4. k = 0
    <3> SUFFICES ASSUME k > 0 PROVE FALSE
      OBVIOUS
    <3>1. k * C >= C
      BY SMTT(40)
    <3> QED
      BY <1>1, <2>2, <2>3, <3>1
  <2>5. k * C = 0
    BY <2>4
  <2> QED
    BY <2>1, <2>3, <2>4, <2>5
<1>4. CASE b < a
  <2>1. PICK k \in Nat : a = b + 1 + k
    <3>1. a - b - 1 \in Nat /\ a = b + 1 + (a - b - 1)
      BY <1>4
    <3> QED
      BY <3>1
  <2>2. a * C = b * C + C + k * C /\ b * C \in Int /\ k * C \in Int
    BY <2>1, SMTT(40)
  <2>3. C + k * C + x = y
    BY <1>0, <2>2
  <2>4. k * C >= 0
    BY SMTT(40)
  <2> QED
    BY <2>2, <2>3, <2>4
<1> QED
  BY <1>2, <1>3, <1>4

(* The last address of an image. *)
LEMMA LastAddress ==
    ASSUME NEW C \in Nat \ {0}, NEW H \in Nat, NEW h \in 1..H, NEW q \in 0..C,
           (h - 1) * C + q >= C * H
    PROVE  h = H /\ q = C
<1>1. PICK k \in Nat : H = h + k
  <2>1. H - h \in Nat /\ H = h + (H - h)
    OBVIOUS
  <2> QED
    BY <2>1
<1>2. C * H = (h - 1) * C + C + k * C /\ (h - 1) * C \in Int /\ k * C \in Int
  BY <1>1, SMTT(40)
<1>3. q >= C + k * C
  BY <1>2
<1>4. k = 0
  <2> SUFFICES ASSUME k > 0 PROVE FALSE
    OBVIOUS
  <2>1. k * C >= C
    BY SMTT(40)
  <2> QED
    BY <1>2, <1>3, <2>1
<1>5. k * C = 0
  BY <1>4
<1> QED
  BY <1>1, <1>3, <1>4, <1>5

(* Where the sample of a crossing goes to. *)
LEMMA CrossingIs ==
    ASSUME NEW grid, grid.vertical \in Seq(Lines), grid.horizontal \in Seq(Lines), NEW c \in Sampled(grid)
    PROVE  \E v \in 1..Len(grid.vertical), h \in 1..Len(grid.horizontal), q \in 0..ImageCols(grid) :
              /\ c = <<v, h>> /\ grid.vertical[v].subgrid = grid.horizontal[h].subgrid
              /\ v = 2 * q + 1 \/ v = 2 * q + 2
              /\ q = ImageCols(grid) => v = Len(grid.vertical) /\ v % 2 = 1
              /\ PixelOf(grid, c) = (h - 1) * ImageCols(grid) + q
<1>1. PICK V \in Nat : V = Len(grid.vertical) /\ DOMAIN grid.vertical = 1..V
  OBVIOUS
<1>2. PICK H \in Nat : H = Len(grid.horizontal) /\ DOMAIN grid.horizontal = 1..H
  OBVIOUS
<1>3. PICK v \in 1..V, h \in 1..H :
         c = <<v, h>> /\ grid.vertical[v].subgrid = grid.horizontal[h].subgrid
  BY <1>1, <1>2 DEF Sampled
<1>4. PICK q \in Nat : q = (v - 1) \div 2 /\ (v - 1 = 2 * q \/ v - 1 = 2 * q + 1)
  BY Halves
<1>5. PICK w \in Nat : w = V \div 2 /\ w = ImageCols(grid) /\ (V = 2 * w \/ V = 2 * w + 1)
  BY <1>1, Halves DEF ImageCols
<1>6. v = 2 * q + 1 \/ v = 2 * q + 2
  BY <1>4
<1>7. q \in 0..w /\ (q = w => v = V /\ v = 2 * w + 1)
  BY <1>4, <1>5
<1>8. PixelOf(grid, c) = (h - 1) * ImageCols(grid) + q
  BY <1>3, <1>4 DEF PixelOf, Address
<1>9. q = w => v % 2 = 1
  BY <1>5, <1>7
<1> QED
  BY <1>1, <1>2, <1>3, <1>5, <1>6, <1>7, <1>8, <1>9

LEMMA OutsideOdd ==
    ASSUME NEW grid, grid.vertical \in Seq(Lines), grid.horizontal \in Seq(Lines), NEW c \in Outside(grid)
    PROVE  /\ c[1] = Len(grid.vertical) /\ Len(grid.vertical) % 2 = 1
           /\ c[2] = Len(grid.horizontal) \/ Len(grid.vertical) = 1
<1>1. PICK v \in 1..Len(grid.vertical), h \in 1..Len(grid.horizontal), q \in 0..ImageCols(grid) :
         /\ c = <<v, h>> /\ (v = 2 * q + 1 \/ v = 2 * q + 2)
         /\ q = ImageCols(grid) => v = Len(grid.vertical) /\ v % 2 = 1
         /\ PixelOf(grid, c) = (h - 1) * ImageCols(grid) + q
  BY CrossingIs DEF Outside
<1>2. PICK C \in Nat : C = ImageCols(grid)
  <2>1. Len(grid.vertical) \in Nat
    OBVIOUS
  <2>2. Len(grid.vertical) \div 2 \in Nat
    BY <2>1, Halves
  <2> QED
    BY <2>2 DEF ImageCols
<1>3. PICK H \in Nat : H = Len(grid.horizontal) /\ H = ImageRows(grid)
  BY DEF ImageRows
<1>4. (h - 1) * C + q >= C * H
  BY <1>1, <1>2, <1>3 DEF Outside
<1>5. CASE C = 0
  <2>1. q = 0
    BY <1>2, <1>5
  <2>2. v = Len(grid.vertical) /\ v % 2 = 1
    BY <1>1, <1>2, <1>5, <2>1
  <2>3. v = 1
    <3>1. v = 1 \/ v = 2
      BY <1>1, <2>1
    <3>2. 2 % 2 = 0
      OBVIOUS
    <3> QED
      BY <2>2, <3>1, <3>2
  <2> QED
    BY <1>1, <2>2, <2>3
<1>6. CASE C # 0
  <2>1. h = H /\ q = C
    BY <1>2, <1>3, <1>4, <1>6, LastAddress
  <2> QED
    BY <1>1, <1>2, <1>3, <2>1
<1> QED
  BY <1>5, <1>6

(* The crossings written to a pixel are the one of its own lens and, for   *)
(* the first pixel of a row, that of the last of an odd number of lines.   *)
LEMMA PixelSources ==
    ASSUME NEW grid, grid.vertical \in Seq(Lines), grid.horizontal \in Seq(Lines),
           \A n \in 1..(Len(grid.vertical) - 1) : grid.vertical[n].subgrid # grid.vertical[n + 1].subgrid,
           NEW pixel \in ImagePixels(grid)
    PROVE  LET last == Len(grid.vertical)
               same(v, h) == grid.vertical[v].subgrid = grid.horizontal[h].subgrid
               over == last % 2 = 1 /\ pixel[1] = 0 /\ pixel[2] > 0 /\ same(last, pixel[2])
           IN  \E v \in {2 * pixel[1] + 1, 2 * pixel[1] + 2} :
                  /\ same(v, pixel[2] + 1) /\ v \in 1..last
                  /\ SourcesOf(grid, pixel) =
                        {<<v, pixel[2] + 1>>} \union (IF over THEN {<<last, pixel[2]>>} ELSE {})
                  /\ over => v < last /\ last \in Nat
<1> DEFINE same(v, h) == grid.vertical[v].subgrid = grid.horizontal[h].subgrid
<1>1. PICK V \in Nat : V = Len(grid.vertical) /\ DOMAIN grid.vertical = 1..V
         /\ \A n \in 1..V : grid.vertical[n] \in Lines
  OBVIOUS
<1>2. PICK H \in Nat : H = Len(grid.horizontal) /\ DOMAIN grid.horizontal = 1..H
         /\ \A n \in 1..H : grid.horizontal[n] \in Lines
  OBVIOUS
<1>b. PICK C \in Nat : C = ImageCols(grid) /\ C = V \div 2 /\ (V = 2 * C \/ V = 2 * C + 1)
  BY <1>1, Halves DEF ImageCols
<1>3. PICK x \in 0..(C - 1), y \in 0..(H - 1) : pixel = <<x, y>>
  <2>1. ImagePixels(grid) = (0..(C - 1)) \X (0..(H - 1))
    BY <1>b, <1>2 DEF ImagePixels, ImageRows
  <2> QED
    BY <2>1
<1>4. x \in Nat /\ y \in Nat /\ y + 1 \in 1..H
  BY <1>1, <1>2, <1>b
<1>5. 2 * x + 1 \in 1..V /\ 2 * x + 2 \in 1..V /\ 2 * x + 1 \in 1..(V - 1)
  BY <1>b, <1>3, <1>4
<1>6. grid.vertical[2 * x + 1].subgrid # grid.vertical[2 * x + 2].subgrid
  <2>1. (2 * x + 1) + 1 = 2 * x + 2
    BY <1>4
  <2> QED
    BY <1>1, <1>5, <2>1
<1>7. PICK v \in {2 * x + 1, 2 * x + 2} :
         same(v, y + 1) /\ \A w \in {2 * x + 1, 2 * x + 2} : w # v => ~same(w, y + 1)
  <2>1. /\ grid.vertical[2 * x + 1].subgrid \in {"A", "B"} /\ grid.vertical[2 * x + 2].subgrid \in {"A", "B"}
        /\ grid.horizontal[y + 1].subgrid \in {"A", "B"}
    BY <1>1, <1>2, <1>4, <1>5 DEF Lines
  <2> QED
    BY <1>6, <2>1
<1> DEFINE over == V % 2 = 1 /\ x = 0 /\ y > 0 /\ same(V, y)
<1>8. Address(grid, pixel) = y * C + x
  BY <1>b, <1>3 DEF Address
<1>9. ASSUME NEW c \in SourcesOf(grid, pixel)
      PROVE  c = <<v, y + 1>> \/ (over /\ c = <<V, y>>)
  <2>0. c \in Sampled(grid) /\ PixelOf(grid, c) = y * C + x
    BY <1>8 DEF SourcesOf
  <2>1. PICK a \in 1..V, b \in 1..H, q \in 0..C :
           /\ c = <<a, b>> /\ same(a, b)
           /\ a = 2 * q + 1 \/ a = 2 * q + 2
           /\ q = C => a = V /\ a % 2 = 1
           /\ PixelOf(grid, c) = (b - 1) * C + q
    <3>1. PICK a \in 1..Len(grid.vertical), b \in 1..Len(grid.horizontal), q \in 0..ImageCols(grid) :
             /\ c = <<a, b>> /\ grid.vertical[a].subgrid = grid.horizontal[b].subgrid
             /\ a = 2 * q + 1 \/ a = 2 * q + 2
             /\ q = ImageCols(grid) => a = Len(grid.vertical) /\ a % 2 = 1
             /\ PixelOf(grid, c) = (b - 1) * ImageCols(grid) + q
      BY <2>0, CrossingIs
    <3>2. a \in 1..V /\ b \in 1..H /\ q \in 0..C
      BY <1>1, <1>2, <1>b, <3>1
    <3>3. /\ c = <<a, b>> /\ same(a, b)
          /\ a = 2 * q + 1 \/ a = 2 * q + 2
          /\ q = C => a = V /\ a % 2 = 1
          /\ PixelOf(grid, c) = (b - 1) * C + q
      BY <1>1, <1>b, <3>1
    <3> QED
      BY <3>2, <3>3, Zenon
  <2>2. PICK r \in Nat : r = b - 1
    OBVIOUS
  <2>3. SamePlace(C, r, q, y, x)
    BY <2>0, <2>1, <2>2 DEF SamePlace
  <2>4. (r = y /\ q = x) \/ (y = r + 1 /\ q = C /\ x = 0)
    <3>1. q \in 0..C /\ x \in 0..(C - 1) /\ r \in Nat /\ y \in Nat /\ C \in Nat
      BY <1>b, <1>3, <1>4, <2>1, <2>2
    <3> QED
      BY <2>3, <3>1, SameAddress
  <2>5. CASE r = y /\ q = x
    <3>1. b = y + 1 /\ a \in {2 * x + 1, 2 * x + 2}
      BY <2>1, <2>2, <2>5
    <3>2. a = v
      BY <1>7, <2>1, <3>1
    <3> QED
      BY <2>1, <3>1, <3>2
  <2>6. CASE y = r + 1 /\ q = C /\ x = 0
    <3>1. b = y /\ y > 0 /\ a = V /\ V % 2 = 1
      BY <2>1, <2>2, <2>6
    <3> QED
      BY <2>1, <2>6, <3>1
  <2> QED
    BY <2>4, <2>5, <2>6
<1>10. <<v, y + 1>> \in SourcesOf(grid, pixel)
  <2>1. v \in 1..V
    BY <1>5, <1>7
  <2>2. <<v, y + 1>> \in Sampled(grid)
    BY <1>1, <1>2, <1>4, <1>7, <2>1 DEF Sampled
  <2>3. (v - 1) \div 2 = x /\ (y + 1) - 1 = y
    BY <1>4
  <2>4. PixelOf(grid, <<v, y + 1>>) = Address(grid, pixel)
    BY <1>3, <2>3 DEF PixelOf
  <2> QED
    BY <2>2, <2>4 DEF SourcesOf
<1>11. ASSUME over PROVE <<V, y>> \in SourcesOf(grid, pixel)
  <2>1. V \in 1..V /\ y \in 1..H /\ same(V, y) /\ V = 2 * C + 1
    <3>1. V % 2 = 1 /\ y > 0 /\ same(V, y)
      BY <1>11
    <3>2. (2 * C) % 2 = 0
      BY <1>b
    <3>3. V = 2 * C + 1
      BY <1>b, <3>1, <3>2
    <3>4. V \in 1..V /\ y \in 1..H
      BY <1>1, <1>2, <1>3, <1>5, <3>1
    <3> QED
      BY <3>1, <3>3, <3>4
  <2>2. <<V, y>> \in Sampled(grid)
    BY <1>1, <1>2, <2>1 DEF Sampled
  <2>3. (V - 1) \div 2 = C
    BY <2>1
  <2>4. PixelOf(grid, <<V, y>>) = (y - 1) * C + C
    BY <1>b, <2>3 DEF PixelOf, Address
  <2>5. (y - 1) * C + C = y * C + 0
    BY <1>4, SMTT(40)
  <2> QED
    BY <1>8, <1>11, <2>2, <2>4, <2>5 DEF SourcesOf
<1>12. SourcesOf(grid, pixel) = {<<v, y + 1>>} \union (IF over THEN {<<V, y>>} ELSE {})
  BY <1>9, <1>10, <1>11
<1>13. pixel[1] = x /\ pixel[2] = y /\ v \in 1..V
  BY <1>3, <1>5, <1>7
<1>14. over => v < V
  <2> SUFFICES ASSUME over PROVE v < V
    OBVIOUS
  <2>1. V = 2 * C + 1 /\ C >= 1
    BY <1>b, <1>3
  <2> QED
    BY <1>7, <2>1
<1> QED
  BY <1>1, <1>7, <1>12, <1>13, <1>14

(* SamplesPlaced: of a light-field image that is made with the data from   *)
(* the file every pixel is taken from the lens where its lines cross, from *)
(* no other and from one only, unless the number of vertical lines is odd: *)
(* then the first pixel of a row shows the last lens of the row above it   *)
(* whenever there is one, and only the lens below the last row leads past  *)
(* the end of the image.                                                   *)
THEOREM SamplesCorrect == Spec => []SamplesPlaced
<1>1. ASSUME TypeInv, FileInv PROVE SamplesPlaced
  <2> SUFFICES ASSUME pc = "done" PROVE SamplesPlaced
    BY DEF SamplesPlaced
  <2>1. PICK grid : grid = restored.array.grid
    OBVIOUS
  <2>2. target \in [Axes -> Seq(Lines)]
    BY <1>1 DEF TypeInv, MapInv
  <2>3. grid.horizontal \in Seq(Lines) /\ grid.vertical \in Seq(Lines)
    <3>1. Relined(target.horizontal) \in Seq(Lines) /\ Relined(target.vertical) \in Seq(Lines)
      BY <2>2, GridRead
    <3>2. restored.array.grid = [horizontal |-> Relined(target.horizontal), vertical |-> Relined(target.vertical)]
      BY <1>1, Restored
    <3> QED
      BY <2>1, <3>1, <3>2
  <2>4. \A c \in Outside(grid) :
           /\ c[1] = Len(grid.vertical) /\ Len(grid.vertical) % 2 = 1
           /\ c[2] = Len(grid.horizontal) \/ Len(grid.vertical) = 1
    BY <2>3, OutsideOdd
  <2> DEFINE last == Len(grid.vertical)
             same(v, h) == grid.vertical[v].subgrid = grid.horizontal[h].subgrid
             over(pixel) == last % 2 = 1 /\ pixel[1] = 0 /\ pixel[2] > 0 /\ same(last, pixel[2])
  <2>5. ASSUME \A n \in 1..(Len(grid.vertical) - 1) : grid.vertical[n].subgrid # grid.vertical[n + 1].subgrid,
               NEW pixel \in ImagePixels(grid)
        PROVE  IF over(pixel)
               THEN Shown(grid, pixel) = <<last, pixel[2]>>
               ELSE \E v \in {2 * pixel[1] + 1, 2 * pixel[1] + 2} :
                       SourcesOf(grid, pixel) = {<<v, pixel[2] + 1>>} /\ same(v, pixel[2] + 1)
    <3>1. PICK v \in {2 * pixel[1] + 1, 2 * pixel[1] + 2} :
             /\ same(v, pixel[2] + 1) /\ v \in 1..last
             /\ SourcesOf(grid, pixel) =
                   {<<v, pixel[2] + 1>>} \union (IF over(pixel) THEN {<<last, pixel[2]>>} ELSE {})
             /\ over(pixel) => v < last /\ last \in Nat
      BY <2>3, <2>5, PixelSources
    <3> HIDE DEF over, last, same
    <3>2. CASE over(pixel)
      <4>1. SourcesOf(grid, pixel) = {<<v, pixel[2] + 1>>, <<last, pixel[2]>>}
        BY <3>1, <3>2
      <4>2. pixel[2] \in Nat
        BY <2>5, <2>3 DEF ImagePixels, ImageRows
      <4>3. v \in Nat /\ last \in Nat /\ v < last /\ pixel[2] + 1 \in Nat
        <5>1. v \in 1..last /\ last \in Nat /\ v < last
          BY <3>1, <3>2
        <5> QED
          BY <4>2, <5>1
      <4>4. Shown(grid, pixel) = <<last, pixel[2]>>
        <5> DEFINE Later(c) == \A e \in SourcesOf(grid, pixel) :
                                  e[1] < c[1] \/ (e[1] = c[1] /\ e[2] <= c[2])
                   own == <<v, pixel[2] + 1>>
                   foreign == <<last, pixel[2]>>
        <5>1. own[1] < foreign[1] /\ ~(foreign[1] < own[1]) /\ foreign[1] # own[1]
              /\ foreign[2] <= foreign[2]
          BY <4>2, <4>3
        <5>2. SourcesOf(grid, pixel) = {own, foreign}
          BY <4>1
        <5> HIDE DEF own, foreign
        <5>3. Later(foreign) /\ ~Later(own) /\ foreign \in SourcesOf(grid, pixel)
          BY <5>1, <5>2
        <5>4. \A c \in SourcesOf(grid, pixel) : Later(c) => c = foreign
          BY <5>2, <5>3
        <5>5. Shown(grid, pixel) = CHOOSE c \in SourcesOf(grid, pixel) : Later(c)
          BY DEF Shown
        <5> HIDE DEF Later
        <5>6. Shown(grid, pixel) = foreign
          BY <5>3, <5>4, <5>5
        <5> QED
          BY <5>6 DEF foreign
      <4> QED
        BY <3>2, <4>4
    <3>3. CASE ~over(pixel)
      BY <3>1, <3>3
    <3> QED
      BY <3>2, <3>3
  <2> QED
    BY <2>1, <2>4, <2>5 DEF SamplesPlaced
<1> QED
  BY <1>1, FileInvariant, PTL

-----------------------------------------------------------------------------
(* Means. *)

LEMMA ScaleIs ==
    ASSUME NEW p \in Proper, NEW m \in Int, NEW D \in Nat, Is(p, m, D), NEW k \in Nat
    PROVE  Is(p, m * k, D * k)
<1>1. PICK n \in Int, d \in Nat : n = p.num /\ d = p.den
  BY DEF Proper, Fraction
<1>2. m * d = n * D
  BY <1>1 DEF Is
<1>3. (m * k) * d = (m * d) * k /\ n * (D * k) = (n * D) * k
  BY <1>1
<1> QED
  BY <1>1, <1>2, <1>3 DEF Is

LEMMA OverIs ==
    ASSUME NEW p \in Proper, NEW m \in Int, NEW D \in Nat, D > 0, Is(p, m, D), NEW k \in Nat, k > 0
    PROVE  Over(p, k) \in Proper /\ Is(Over(p, k), m, D * k)
<1>1. PICK n \in Int, d \in Nat : n = p.num /\ d = p.den /\ d > 0
  BY DEF Proper, Fraction
<1>2. PICK e \in Nat : e = d * k /\ e > 0
  BY <1>1
<1>3. Over(p, k) = Ratio(n, e)
  BY <1>1, <1>2 DEF Over
<1>4. Ratio(n, e) \in Proper /\ Ratio(n, e).num * e = n * Ratio(n, e).den
  BY <1>2, RatioValue
<1>5. PICK a \in Int, b \in Nat : a = Ratio(n, e).num /\ b = Ratio(n, e).den /\ a * e = n * b
  BY <1>4 DEF Proper, Fraction
<1>6. m * d = n * D
  BY <1>1 DEF Is
<1>7. m * b = a * (D * k)
  <2>1. (m * b) * d = (m * d) * b
    BY <1>1, <1>5
  <2>2. (m * b) * d = (n * b) * D
    BY <1>1, <1>5, <1>6, <2>1
  <2>3. (m * b) * d = (a * (d * k)) * D
    BY <1>2, <1>5, <2>2
  <2>4. (a * (d * k)) * D = (a * (D * k)) * d
    BY <1>1, <1>5
  <2>5. PICK x \in Int, y \in Int : x = m * b /\ y = a * (D * k)
    BY <1>5
  <2>6. x * d = y * d
    BY <2>3, <2>4, <2>5
  <2>7. x = y
    BY <1>1, <2>6
  <2> QED
    BY <2>5, <2>7
<1> QED
  BY <1>3, <1>4, <1>5, <1>7 DEF Is

LEMMA TimesIs ==
    ASSUME NEW p \in Proper, NEW m \in Int, NEW D \in Nat, D > 0, Is(p, m, D), NEW k \in Nat
    PROVE  Times(Whole(k), p) \in Proper /\ Is(Times(Whole(k), p), k * m, D)
<1>1. PICK n \in Int, d \in Nat : n = p.num /\ d = p.den /\ d > 0
  BY DEF Proper, Fraction
<1>2. PICK e \in Int : e = k * n
  BY <1>1
<1>3. Times(Whole(k), p) = Ratio(e, d)
  <2>1. Whole(k).num = k /\ Whole(k).den = 1 /\ 1 * d = d
    BY <1>1 DEF Whole
  <2> QED
    BY <1>1, <1>2, <2>1 DEF Times
<1>4. Ratio(e, d) \in Proper /\ Ratio(e, d).num * d = e * Ratio(e, d).den
  BY <1>1, <1>2, RatioValue
<1>5. PICK a \in Int, b \in Nat : a = Ratio(e, d).num /\ b = Ratio(e, d).den /\ a * d = e * b
  BY <1>4 DEF Proper, Fraction
<1>6. m * d = n * D
  BY <1>1 DEF Is
<1>7. (k * m) * b = a * D
  <2>1. PICK x \in Int, y \in Int : x = (k * m) * b /\ y = a * D
    BY <1>5
  <2>2. x * d = (k * (m * d)) * b
    BY <1>1, <1>5, <2>1
  <2>3. x * d = (k * (n * D)) * b
    BY <1>6, <2>2
  <2>4. x * d = (e * b) * D
    BY <1>1, <1>2, <1>5, <2>3
  <2>5. x * d = (a * d) * D
    BY <1>5, <2>4
  <2>6. x * d = y * d
    BY <1>1, <1>5, <2>1, <2>5
  <2>7. x = y
    BY <1>1, <2>6
  <2> QED
    BY <2>1, <2>7
<1> QED
  BY <1>3, <1>4, <1>5, <1>7 DEF Is

LEMMA SameIs ==
    ASSUME NEW p \in Proper, NEW q \in Proper, NEW D \in Nat, D > 0, NEW m \in Int, NEW n \in Int,
           Is(p, m, D), Is(q, n, D)
    PROVE  Same(p, q) <=> m = n
<1>1. (AtMost(p, q) <=> m <= n) /\ (AtMost(q, p) <=> n <= m)
  BY LessIs
<1> QED
  BY <1>1 DEF Same

LEMMA GapIs ==
    ASSUME NEW p \in Proper, NEW q \in Proper, NEW D \in Nat, D > 0, NEW m \in Int, NEW n \in Int,
           Is(p, m, D), Is(q, n, D)
    PROVE  Gap(p, q) \in Proper /\ Is(Gap(p, q), Abs(m - n), D)
<1>1. Minus(p, q) \in Proper /\ Is(Minus(p, q), m - n, D)
  BY MinusIs
<1>2. PICK z \in Int : z = m - n
  OBVIOUS
<1>3. Magnitude(Minus(p, q)) \in Proper /\ Is(Magnitude(Minus(p, q)), Abs(z), D)
  BY <1>1, <1>2, MagnitudeIs
<1> QED
  BY <1>2, <1>3 DEF Gap

(* A number among the values of a mean takes it along as insertLine does. *)
LEMMA MeanAppend ==
    ASSUME NEW v \in Seq(Proper), Len(v) > 0, NEW x \in Proper, NEW p \in Proper, Same(p, MeanOf(v))
    PROVE  LET q == Over(Plus(Times(Whole(Len(v)), p), x), Len(v) + 1)
           IN  q \in Proper /\ Same(q, MeanOf(Append(v, x)))
<1>1. PICK n \in Nat : n = Len(v) /\ n > 0
  OBVIOUS
<1>2. PICK S \in Proper : S = SumOf(v)
  BY SumProper
<1>3. PICK D \in Nat : D > 0 /\ \E mp, mx, ms \in Int : Is(p, mp, D) /\ Is(x, mx, D) /\ Is(S, ms, D)
  BY CommonDenominator3
<1>4. PICK mp \in Int, mx \in Int, ms \in Int : Is(p, mp, D) /\ Is(x, mx, D) /\ Is(S, ms, D)
  BY <1>3
<1>5. MeanOf(v) = Over(S, n)
  BY <1>1, <1>2 DEF MeanOf
<1>6. Over(S, n) \in Proper /\ Is(Over(S, n), ms, D * n)
  BY <1>1, <1>3, <1>4, OverIs
<1>7. Is(p, mp * n, D * n)
  BY <1>1, <1>4, ScaleIs
<1>8. D * n \in Nat /\ D * n > 0 /\ mp * n \in Int
  BY <1>1, <1>3
<1>9. mp * n = ms
  BY <1>5, <1>6, <1>7, <1>8, SameIs
<1> DEFINE t == Times(Whole(n), p)
           w == Plus(t, x)
           q == Over(w, n + 1)
           u == Plus(S, x)
<1>10. t \in Proper /\ Is(t, n * mp, D)
  BY <1>1, <1>3, <1>4, TimesIs
<1>11. n * mp \in Int /\ n * mp = ms
  BY <1>1, <1>9
<1> HIDE DEF t
<1>12. w \in Proper /\ Is(w, ms + mx, D)
  BY <1>3, <1>4, <1>10, <1>11, PlusIs
<1>13. u \in Proper /\ Is(u, ms + mx, D)
  BY <1>3, <1>4, PlusIs
<1> HIDE DEF w, u
<1>14. n + 1 \in Nat /\ n + 1 > 0 /\ ms + mx \in Int
  BY <1>1
<1>15. q \in Proper /\ Is(q, ms + mx, D * (n + 1))
  BY <1>3, <1>12, <1>14, OverIs
<1>16. Over(u, n + 1) \in Proper /\ Is(Over(u, n + 1), ms + mx, D * (n + 1))
  BY <1>3, <1>13, <1>14, OverIs
<1>17. MeanOf(Append(v, x)) = Over(u, n + 1)
  <2>1. Len(Append(v, x)) = n + 1
    BY <1>1
  <2>2. SumOf(Append(v, x)) = u
    BY <1>2, SumAppend DEF u
  <2> QED
    BY <2>1, <2>2 DEF MeanOf
<1>18. D * (n + 1) \in Nat /\ D * (n + 1) > 0
  BY <1>3, <1>14
<1> HIDE DEF q
<1>19. Same(q, Over(u, n + 1))
  BY <1>14, <1>15, <1>16, <1>18, SameIs
<1>20. q = Over(Plus(Times(Whole(Len(v)), p), x), Len(v) + 1)
  BY <1>1 DEF q, w, t
<1> QED
  BY <1>15, <1>17, <1>19, <1>20

LEMMA MeanSingle ==
    ASSUME NEW p \in Proper
    PROVE  Same(p, MeanOf(<<p>>))
<1>1. PICK D \in Nat : D > 0 /\ \E m, n \in Int : Is(p, m, D) /\ Is(p, n, D)
  BY CommonDenominator
<1>2. PICK m \in Int : Is(p, m, D)
  BY <1>1
<1>3. << >> \in Seq(Proper) /\ <<p>> = Append(<< >>, p) /\ Len(<<p>>) = 1
  OBVIOUS
<1>4. SumOf(<< >>) = Zero
  <2> DEFINE s == [k \in 0..0 |-> Zero]
  <2>1. Partial(s, << >>)
    <3>1. Len(<< >>) = 0
      OBVIOUS
    <3> QED
      BY <3>1, WholeProper DEF Partial, Zero
  <2>2. s[Len(<< >>)] = Zero
    OBVIOUS
  <2> HIDE DEF s
  <2> QED
    BY <1>3, <2>1, <2>2, SumPartial
<1>5. SumOf(<<p>>) = Plus(Zero, p)
  BY <1>3, <1>4, SumAppend
<1>6. Zero \in Proper /\ Is(Zero, 0, D)
  BY <1>1, WholeProper DEF Zero, Is, Whole
<1>7. Plus(Zero, p) \in Proper /\ Is(Plus(Zero, p), 0 + m, D)
  BY <1>1, <1>2, <1>6, PlusIs
<1>8. Is(Plus(Zero, p), m, D)
  BY <1>7
<1>9. Over(Plus(Zero, p), 1) \in Proper /\ Is(Over(Plus(Zero, p), 1), m, D * 1)
  BY <1>1, <1>7, <1>8, OverIs
<1>10. Is(Over(Plus(Zero, p), 1), m, D)
  BY <1>1, <1>9
<1>11. MeanOf(<<p>>) = Over(Plus(Zero, p), 1)
  BY <1>3, <1>5 DEF MeanOf
<1> QED
  BY <1>1, <1>2, <1>9, <1>10, <1>11, SameIs

-----------------------------------------------------------------------------
(* The lines averageGrids has met. *)

LEMMA AllLinesFacts ==
    ASSUME InputInv, NEW axis \in Axes, NEW r
    PROVE  r \in AllLines(axis) <=>
              \E g \in 1..Count : \E k \in 1..Len(pointGridList[g][axis]) : r = <<g, k>>
<1>1. DOMAIN pointGridList = 1..Count
  BY CountFacts
<1>2. \A g \in 1..Count : DOMAIN pointGridList[g][axis] = 1..Len(pointGridList[g][axis])
  <2> SUFFICES ASSUME NEW g \in 1..Count PROVE DOMAIN pointGridList[g][axis] = 1..Len(pointGridList[g][axis])
    OBVIOUS
  <2>1. PICK lines \in Seq(PointLines) : lines = pointGridList[g][axis]
    BY PointGridLines
  <2> QED
    BY <2>1
<1> QED
  BY <1>1, <1>2 DEF AllLines

(* Met, for loops that are at a. *)
MetAt(a, axis, g, k) ==
    \/ g < a.grid
    \/ g = a.grid /\ (k < a.line \/ a.axis = "vertical") /\ axis = "horizontal"
    \/ g = a.grid /\ k < a.line /\ a.axis = "vertical" /\ axis = "vertical"

LEMMA MetNext ==
    ASSUME TypeInv, pc = "average", at.grid \in 1..Count, NEW axis \in Axes,
           NEW g \in 1..Count, NEW k \in 1..Len(pointGridList[g][axis])
    PROVE  MetAt(NextLine, axis, g, k) <=> MetAt(at, axis, g, k) \/ (axis = at.axis /\ g = at.grid /\ k = at.line)
<1>1. InputInv /\ Count \in Nat
  BY CountFacts DEF TypeInv
<1>2. PICK ag \in 1..Count, aa \in Axes, al \in Nat : at = [grid |-> ag, axis |-> aa, line |-> al]
  BY DEF TypeInv, AtInv
<1>3. PICK L \in Nat : L = Len(pointGridList[ag][aa]) /\ al \in 1..L
  <2>1. at.line \in 1..Len(pointGridList[at.grid][at.axis])
    BY NewLineType
  <2>2. Len(pointGridList[ag][aa]) \in Nat
    BY <1>1, PointGridLines
  <2> QED
    BY <1>2, <2>1, <2>2
<1>4. Len(linegrids[ag][aa]) = L
  BY <1>1, <1>3, LineGrids
<1>5. at.grid = ag /\ at.axis = aa /\ at.line = al
  BY <1>2
<1>6. k \in Nat /\ g \in Nat /\ ag \in Nat
  <2>1. Len(pointGridList[g][axis]) \in Nat
    BY <1>1, PointGridLines
  <2> QED
    BY <1>1, <2>1
<1>7. axis \in {"horizontal", "vertical"} /\ aa \in {"horizontal", "vertical"}
  BY DEF Axes
<1>8. g = ag /\ axis = aa => k <= L
  BY <1>3
<1>9. CASE al < L
  <2>1. NextLine = [grid |-> ag, axis |-> aa, line |-> al + 1]
    BY <1>2, <1>4, <1>5, <1>9 DEF NextLine
  <2>2. NextLine.grid = ag /\ NextLine.axis = aa /\ NextLine.line = al + 1
    BY <2>1
  <2> QED
    BY <1>3, <1>5, <1>6, <1>7, <2>2 DEF MetAt
<1>10. CASE ~(al < L) /\ aa = "horizontal"
  <2>1. NextLine = [grid |-> ag, axis |-> "vertical", line |-> 1]
    BY <1>2, <1>4, <1>5, <1>10 DEF NextLine
  <2>2. NextLine.grid = ag /\ NextLine.axis = "vertical" /\ NextLine.line = 1
    BY <2>1
  <2> QED
    BY <1>3, <1>5, <1>6, <1>7, <1>8, <1>10, <2>2 DEF MetAt
<1>11. CASE ~(al < L) /\ aa = "vertical"
  <2>1. NextLine = [grid |-> ag + 1, axis |-> "horizontal", line |-> 1]
    BY <1>2, <1>4, <1>5, <1>11 DEF NextLine
  <2>2. NextLine.grid = ag + 1 /\ NextLine.axis = "horizontal" /\ NextLine.line = 1
    BY <2>1
  <2> QED
    BY <1>3, <1>5, <1>6, <1>7, <1>8, <1>11, <2>2 DEF MetAt
<1> QED
  BY <1>7, <1>9, <1>10, <1>11

LEMMA MetFacts ==
    ASSUME InputInv, NEW axis \in Axes, NEW r
    PROVE  r \in Met(axis) <=>
              \E g \in 1..Count : \E k \in 1..Len(pointGridList[g][axis]) : r = <<g, k>> /\ MetAt(at, axis, g, k)
<1>1. r \in Met(axis) <=> r \in AllLines(axis) /\ MetAt(at, axis, r[1], r[2])
  BY DEF Met, MetAt
<1>2. ASSUME NEW g \in 1..Count, NEW k \in 1..Len(pointGridList[g][axis]), r = <<g, k>>
      PROVE  r[1] = g /\ r[2] = k
  BY <1>2
<1> QED
  BY <1>1, <1>2, AllLinesFacts

(* Positions of sound lines. *)
LEMMA SoundPositions ==
    ASSUME InputInv, pc # "linegrids", NEW axis \in Axes, Sound(axis), NEW r \in AllLines(axis)
    PROVE  PositionOf(axis, r) \in Proper /\ r \in Nat \X Nat
<1>0. PICK g \in 1..Count : \E k \in 1..Len(pointGridList[g][axis]) : r = <<g, k>>
  BY AllLinesFacts
<1>1. PICK k \in 1..Len(pointGridList[g][axis]) : r = <<g, k>>
  BY <1>0
<1>2. Len(pointGridList[g][axis][k].line) > 1
  BY <1>1 DEF Sound, LineOf
<1>3. linegrids[g][axis][k].position \in Proper
  BY <1>2, LineGrids
<1>4. g \in Nat /\ k \in Nat
  <2>1. Count \in Nat /\ Len(pointGridList[g][axis]) \in Nat
    BY CountFacts, PointGridLines
  <2> QED
    BY <2>1
<1> QED
  BY <1>1, <1>3, <1>4 DEF PositionOf

Positions(axis, refs) == [n \in DOMAIN refs |-> PositionOf(axis, refs[n])]

LEMMA PositionsAppend ==
    ASSUME InputInv, pc # "linegrids", NEW axis \in Axes, Sound(axis),
           NEW refs \in Seq(AllLines(axis)), NEW r \in AllLines(axis)
    PROVE  /\ Positions(axis, refs) \in Seq(Proper) /\ Len(Positions(axis, refs)) = Len(refs)
           /\ Positions(axis, Append(refs, r)) = Append(Positions(axis, refs), PositionOf(axis, r))
<1>1. \A q \in AllLines(axis) : PositionOf(axis, q) \in Proper
  BY SoundPositions
<1>2. Len(refs) \in Nat /\ DOMAIN refs = 1..Len(refs) /\ \A n \in 1..Len(refs) : refs[n] \in AllLines(axis)
  BY ElementOfSeq, LenProperties
<1>3. Positions(axis, refs) \in [1..Len(refs) -> Proper]
  BY <1>1, <1>2 DEF Positions
<1>4. Positions(axis, refs) \in Seq(Proper) /\ Len(Positions(axis, refs)) = Len(refs)
  BY <1>2, <1>3
<1>5. /\ Append(refs, r) \in Seq(AllLines(axis)) /\ Len(Append(refs, r)) = Len(refs) + 1
      /\ \A n \in 1..Len(refs) : Append(refs, r)[n] = refs[n]
      /\ Append(refs, r)[Len(refs) + 1] = r
  BY AppendProperties
<1> DEFINE a == Positions(axis, Append(refs, r))
           b == Append(Positions(axis, refs), PositionOf(axis, r))
<1>6. DOMAIN Append(refs, r) = 1..(Len(refs) + 1)
  BY <1>2, <1>5
<1>7. a = [n \in 1..(Len(refs) + 1) |-> PositionOf(axis, Append(refs, r)[n])]
  BY <1>6 DEF Positions
<1>8. /\ b \in Seq(Proper) /\ Len(b) = Len(refs) + 1
      /\ \A n \in 1..Len(refs) : b[n] = Positions(axis, refs)[n]
      /\ b[Len(refs) + 1] = PositionOf(axis, r)
  <2>1. PositionOf(axis, r) \in Proper
    BY <1>1
  <2>2. PICK v \in Seq(Proper) : v = Positions(axis, refs) /\ Len(v) = Len(refs)
    BY <1>4
  <2> QED
    BY <2>1, <2>2, AppendProperties
<1>9. \A n \in 1..(Len(refs) + 1) : b[n] = PositionOf(axis, Append(refs, r)[n])
  <2> SUFFICES ASSUME NEW n \in 1..(Len(refs) + 1) PROVE b[n] = PositionOf(axis, Append(refs, r)[n])
    OBVIOUS
  <2> HIDE DEF b
  <2>1. CASE n = Len(refs) + 1
    BY <1>5, <1>8, <2>1
  <2>2. CASE n # Len(refs) + 1
    <3>1. n \in 1..Len(refs)
      BY <1>2, <2>2
    <3>2. Positions(axis, refs)[n] = PositionOf(axis, refs[n])
      BY <1>2, <3>1 DEF Positions
    <3> QED
      BY <1>5, <1>8, <3>1, <3>2
  <2> QED
    BY <2>1, <2>2
<1>10. b = [n \in 1..(Len(refs) + 1) |-> b[n]]
  <2> HIDE DEF b
  <2>1. Len(refs) + 1 = Len(b)
    BY <1>8
  <2> QED
    BY <1>8, <2>1
<1> HIDE DEF a, b
<1>11. a = b
  BY <1>7, <1>9, <1>10
<1> QED
  BY <1>4, <1>11 DEF a, b

-----------------------------------------------------------------------------
(* Positions that are the same, and the positions insertLine compares. *)

LEMMA SameFacts ==
    ASSUME NEW p \in Proper, NEW q \in Proper, NEW r \in Proper
    PROVE  /\ Same(p, p)
           /\ Same(p, q) <=> ~Less(p, q) /\ ~Less(q, p)
           /\ Same(p, q) <=> Same(q, p)
           /\ Same(p, q) /\ Same(q, r) => Same(p, r)
           /\ Less(p, q) => AtMost(p, q)
<1>1. PICK D \in Nat : D > 0 /\ \E m, n, o \in Int : Is(p, m, D) /\ Is(q, n, D) /\ Is(r, o, D)
  BY CommonDenominator3
<1>2. PICK m \in Int, n \in Int, o \in Int : Is(p, m, D) /\ Is(q, n, D) /\ Is(r, o, D)
  BY <1>1
<1>3. (Less(p, q) <=> m < n) /\ (AtMost(p, q) <=> m <= n) /\ (Less(q, p) <=> n < m)
  BY <1>1, <1>2, LessIs
<1>4. (Same(p, q) <=> m = n) /\ (Same(q, p) <=> n = m)
  BY <1>1, <1>2, SameIs
<1>5. (Same(q, r) <=> n = o) /\ (Same(p, r) <=> m = o) /\ (Same(p, p) <=> m = m)
  BY <1>1, <1>2, SameIs
<1> QED
  BY <1>3, <1>4, <1>5

LEMMA GapProper ==
    ASSUME NEW p \in Proper, NEW q \in Proper
    PROVE  Gap(p, q) \in Proper
BY CommonDenominator, GapIs

LEMMA LimitProper ==
    ASSUME NEW axis
    PROVE  LIMIT(axis) \in Proper /\ LIMIT(axis).num > 0
<1>1. LIMIT(axis) \in [num : Nat \ {0}, den : Nat \ {0}]
  BY LimitAssumption DEF LIMIT
<1> QED
  BY <1>1 DEF Proper, Fraction

(* A position that is the same as another one is next to it. *)
LEMMA SameNearer ==
    ASSUME NEW p \in Proper, NEW q \in Proper, NEW x \in Proper, NEW limit \in Proper, limit.num > 0,
           Same(p, x), ~Same(q, p)
    PROVE  Less(Gap(p, x), Gap(q, x)) /\ Less(Gap(p, x), limit)
<1>1. PICK D \in Nat : D > 0 /\ \E m, n, o \in Int : Is(p, m, D) /\ Is(q, n, D) /\ Is(x, o, D)
  BY CommonDenominator3
<1>2. PICK m \in Int, n \in Int, o \in Int : Is(p, m, D) /\ Is(q, n, D) /\ Is(x, o, D)
  BY <1>1
<1>3. m = o /\ n # m
  <2>1. (Same(p, x) <=> m = o) /\ (Same(q, p) <=> n = m)
    BY <1>1, <1>2, SameIs
  <2> QED
    BY <2>1
<1>4. Gap(p, x) \in Proper /\ Is(Gap(p, x), Abs(m - o), D)
  BY <1>1, <1>2, GapIs
<1>5. Gap(q, x) \in Proper /\ Is(Gap(q, x), Abs(n - o), D)
  BY <1>1, <1>2, GapIs
<1>6. Abs(m - o) = 0 /\ Abs(n - o) \in Int /\ 0 < Abs(n - o)
  BY <1>3 DEF Abs
<1>7. Less(Gap(p, x), Gap(q, x))
  <2>1. Is(Gap(p, x), 0, D)
    BY <1>4, <1>6
  <2> QED
    BY <1>1, <1>4, <1>5, <1>6, <2>1, LessIs
<1>8. Less(Gap(p, x), limit)
  <2>1. PICK ln \in Int, ld \in Nat : ln = limit.num /\ ld = limit.den /\ ld > 0 /\ ln > 0
    BY DEF Proper, Fraction
  <2>2. PICK gn \in Int, gd \in Nat : gn = Gap(p, x).num /\ gd = Gap(p, x).den /\ gd > 0
    BY <1>4 DEF Proper, Fraction
  <2>3. gn * D = 0
    BY <1>4, <1>6, <2>2 DEF Is
  <2>4. gn = 0
    BY <1>1, <2>3
  <2>5. Is(limit, ln, ld) /\ Is(Gap(p, x), 0, ld)
    BY <2>1, <2>2, <2>4 DEF Is
  <2> QED
    BY <1>4, <2>1, <2>5, LessIs
<1> QED
  BY <1>7, <1>8

(* The mean of n lines at p and one at x is not at q, if p is the next one *)
(* to x of the two.                                                        *)
LEMMA MeanNotAt ==
    ASSUME NEW p \in Proper, NEW q \in Proper, NEW x \in Proper, NEW n \in Nat, n > 0,
           AtMost(Gap(p, x), Gap(q, x)), ~Same(p, q)
    PROVE  LET new == Over(Plus(Times(Whole(n), p), x), n + 1)
           IN  new \in Proper /\ ~Same(q, new)
<1>1. PICK D \in Nat : D > 0 /\ \E mp, mq, mx \in Int : Is(p, mp, D) /\ Is(q, mq, D) /\ Is(x, mx, D)
  BY CommonDenominator3
<1>2. PICK mp \in Int, mq \in Int, mx \in Int : Is(p, mp, D) /\ Is(q, mq, D) /\ Is(x, mx, D)
  BY <1>1
<1> DEFINE t == Times(Whole(n), p)
           w == Plus(t, x)
           new == Over(w, n + 1)
<1>3. t \in Proper /\ Is(t, n * mp, D)
  BY <1>1, <1>2, TimesIs
<1> HIDE DEF t
<1>4. n * mp \in Int
  OBVIOUS
<1>5. w \in Proper /\ Is(w, n * mp + mx, D)
  BY <1>1, <1>2, <1>3, <1>4, PlusIs
<1> HIDE DEF w
<1>6. PICK z \in Int : z = n * mp + mx
  BY <1>4
<1>7. new \in Proper /\ Is(new, z, D * (n + 1))
  BY <1>1, <1>5, <1>6, OverIs
<1> HIDE DEF new
<1>8. Is(q, mq * (n + 1), D * (n + 1))
  <2>1. n + 1 \in Nat
    OBVIOUS
  <2> QED
    BY <1>1, <1>2, <2>1, ScaleIs
<1>9. D * (n + 1) \in Nat /\ D * (n + 1) > 0 /\ mq * (n + 1) \in Int
  BY <1>1
<1>10. Same(q, new) <=> mq * (n + 1) = z
  BY <1>7, <1>8, <1>9, SameIs
<1>11. mp # mq
  BY <1>1, <1>2, SameIs
<1>12. Abs(mp - mx) <= Abs(mq - mx)
  <2>1. Gap(p, x) \in Proper /\ Is(Gap(p, x), Abs(mp - mx), D)
    BY <1>1, <1>2, GapIs
  <2>2. Gap(q, x) \in Proper /\ Is(Gap(q, x), Abs(mq - mx), D)
    BY <1>1, <1>2, GapIs
  <2>3. Abs(mp - mx) \in Int /\ Abs(mq - mx) \in Int
    BY DEF Abs
  <2> QED
    BY <1>1, <2>1, <2>2, <2>3, LessIs
<1>13. mq * (n + 1) # z
  <2>1. PICK a \in Int, b \in Int : a = mp - mx /\ b = mq - mx
    OBVIOUS
  <2>2. Abs(a) <= Abs(b) /\ a # b
    BY <1>11, <1>12, <2>1
  <2>3. mq * (n + 1) - z = b * (n + 1) - n * a
    BY <1>6, <2>1
  <2>4. b * (n + 1) # n * a
    <3>1. CASE b = 0
      BY <2>2, <3>1 DEF Abs
    <3>2. CASE b > 0
      <4>1. n * a <= n * b
        <5>1. a <= b
          BY <2>2, <3>2 DEF Abs
        <5>2. PICK d \in Nat : b = a + d
          BY <5>1
        <5>3. n * b = n * a + n * d /\ n * d >= 0
          BY <5>2
        <5> QED
          BY <5>3
      <4>2. b * (n + 1) = n * b + b
        OBVIOUS
      <4> QED
        BY <3>2, <4>1, <4>2
    <3>3. CASE b < 0
      <4>1. n * b <= n * a
        <5>1. b <= a
          BY <2>2, <3>3 DEF Abs
        <5>2. PICK d \in Nat : a = b + d
          BY <5>1
        <5>3. n * a = n * b + n * d /\ n * d >= 0
          BY <5>2
        <5> QED
          BY <5>3
      <4>2. b * (n + 1) = n * b + b
        OBVIOUS
      <4> QED
        BY <3>3, <4>1, <4>2
    <3> QED
      BY <3>1, <3>2, <3>3
  <2> QED
    BY <1>9, <2>3, <2>4
<1> QED
  BY <1>7, <1>10, <1>13 DEF new, w, t

-----------------------------------------------------------------------------
(* The lines of the entries of a map. *)

EntryOK(axis, e) ==
    /\ e \in Entries /\ Position(e) \in Proper
    /\ e.referees \in Seq(AllLines(axis)) /\ Len(e.referees) > 0
    /\ IsInjective(e.referees) /\ e.counter = Len(e.referees)
    /\ Same(Position(e), MeanPosition(axis, e.referees))

Accounted(axis, map, lines) ==
    /\ \A e \in map : EntryOK(axis, e)
    /\ UNION {ToSet(e.referees) : e \in map} = lines
    /\ \A e, f \in map : e # f => ToSet(e.referees) \intersect ToSet(f.referees) = {}

(* A line of axis as the loops have it. *)
LineAt(axis, line, r) == r \in AllLines(axis) /\ line \in Lines /\ line.position = PositionOf(axis, r)

LEMMA EmplaceAccounted ==
    ASSUME NEW axis, NEW map, NEW lines, Accounted(axis, map, lines), NEW entry, EntryOK(axis, entry),
           ToSet(entry.referees) \intersect lines = {},
           \A e \in map : ~Same(Position(e), Position(entry))
    PROVE  Accounted(axis, Emplace(map, entry), lines \union ToSet(entry.referees))
<1>1. \A e \in map : Less(Position(e), Position(entry)) \/ Less(Position(entry), Position(e))
  BY SameFacts DEF Accounted, EntryOK
<1>2. Emplace(map, entry) = map \union {entry}
  BY <1>1 DEF Emplace, Position
<1>3. \A e \in map : ToSet(e.referees) \subseteq lines
  BY DEF Accounted
<1>4. UNION {ToSet(e.referees) : e \in map \union {entry}} = lines \union ToSet(entry.referees)
  <2>1. UNION {ToSet(e.referees) : e \in map} = lines
    BY DEF Accounted
  <2> QED
    BY <2>1
<1>5. \A e, f \in map \union {entry} : e # f => ToSet(e.referees) \intersect ToSet(f.referees) = {}
  BY <1>3 DEF Accounted
<1>6. \A e \in map \union {entry} : EntryOK(axis, e)
  BY DEF Accounted
<1> QED
  BY <1>2, <1>4, <1>5, <1>6 DEF Accounted

LEMMA RemoveAccounted ==
    ASSUME NEW axis, NEW map, NEW lines, Accounted(axis, map, lines), NEW e \in map
    PROVE  Accounted(axis, map \ {e}, lines \ ToSet(e.referees))
<1>1. UNION {ToSet(f.referees) : f \in map} = lines
      /\ \A f \in map \ {e} : ToSet(e.referees) \intersect ToSet(f.referees) = {}
  BY DEF Accounted
<1>2. UNION {ToSet(f.referees) : f \in map \ {e}} = lines \ ToSet(e.referees)
  BY <1>1
<1> QED
  BY <1>2 DEF Accounted

LEMMA SingleOK ==
    ASSUME InputInv, pc # "linegrids", NEW axis \in Axes, Sound(axis), NEW r, NEW line, LineAt(axis, line, r)
    PROVE  /\ EntryOK(axis, LineEntry(line, r)) /\ ToSet(LineEntry(line, r).referees) = {r}
           /\ Position(LineEntry(line, r)) = line.position /\ LineEntry(line, r).referees = <<r>>
<1>1. r \in AllLines(axis) /\ r \in Nat \X Nat /\ line \in Lines /\ line.position \in Proper
      /\ PositionOf(axis, r) = line.position
  BY SoundPositions DEF LineAt
<1> DEFINE e == LineEntry(line, r)
<1>2. /\ e \in Entries /\ Position(e) = line.position /\ e.referees = <<r>> /\ e.counter = 1
  BY <1>1 DEF LineEntry, Entries, Position
<1>3. <<r>> \in Seq(AllLines(axis)) /\ Len(<<r>>) = 1 /\ DOMAIN <<r>> = {1} /\ <<r>>[1] = r
  BY <1>1
<1>4. MeanPosition(axis, <<r>>) = MeanOf(<<line.position>>)
  <2>1. [n \in DOMAIN <<r>> |-> PositionOf(axis, <<r>>[n])] = <<line.position>>
    BY <1>1, <1>3
  <2> QED
    BY <2>1 DEF MeanPosition
<1>5. Same(line.position, MeanOf(<<line.position>>))
  BY <1>1, MeanSingle
<1>6. IsInjective(<<r>>) /\ ToSet(<<r>>) = {r}
  BY <1>3 DEF IsInjective, ToSet
<1> HIDE DEF e
<1>7. EntryOK(axis, e)
  BY <1>1, <1>2, <1>3, <1>4, <1>5, <1>6 DEF EntryOK
<1> QED
  BY <1>2, <1>6, <1>7 DEF e

LEMMA MergedOK ==
    ASSUME InputInv, pc # "linegrids", NEW axis \in Axes, Sound(axis), NEW r, NEW line, LineAt(axis, line, r),
           NEW e, EntryOK(axis, e), r \notin ToSet(e.referees)
    PROVE  /\ EntryOK(axis, Merged(e, line, r))
           /\ ToSet(Merged(e, line, r).referees) = ToSet(e.referees) \union {r}
           /\ Position(Merged(e, line, r)) = Over(Plus(Times(Whole(e.counter), Position(e)), line.position), e.counter + 1)
           /\ Merged(e, line, r).referees = Append(e.referees, r)
<1>1. r \in AllLines(axis) /\ r \in Nat \X Nat /\ line \in Lines /\ line.position \in Proper
      /\ PositionOf(axis, r) = line.position
  BY SoundPositions DEF LineAt
<1>2. PICK refs \in Seq(AllLines(axis)), n \in Nat : refs = e.referees /\ n = Len(refs) /\ n > 0
  BY DEF EntryOK
<1>3. e.line \in Lines /\ e.counter = n /\ Position(e) \in Proper /\ Position(e) = e.line.position
  BY <1>2 DEF EntryOK, Entries, Position
<1> DEFINE new == Merged(e, line, r)
           position == Over(Plus(Times(Whole(n), Position(e)), line.position), n + 1)
<1>4. new.line = [e.line EXCEPT !.position = position] /\ new.counter = n + 1 /\ new.referees = Append(refs, r)
  BY <1>2, <1>3 DEF Merged
<1>5. Position(new) = position
  BY <1>3, <1>4 DEF Position, Lines
<1>6. new \in Entries
  BY <1>1, MergedType DEF EntryOK
<1> HIDE DEF new
<1>7. /\ Positions(axis, refs) \in Seq(Proper) /\ Len(Positions(axis, refs)) = n
      /\ Positions(axis, Append(refs, r)) = Append(Positions(axis, refs), line.position)
  BY <1>1, <1>2, PositionsAppend
<1>8. Same(Position(e), MeanOf(Positions(axis, refs)))
  BY <1>2 DEF EntryOK, MeanPosition, Positions
<1>9. position \in Proper /\ Same(position, MeanOf(Append(Positions(axis, refs), line.position)))
  BY <1>1, <1>2, <1>3, <1>7, <1>8, MeanAppend
<1> HIDE DEF position
<1>10. Same(Position(new), MeanPosition(axis, new.referees))
  BY <1>4, <1>5, <1>7, <1>9 DEF MeanPosition, Positions
<1>11. /\ Append(refs, r) \in Seq(AllLines(axis)) /\ Len(Append(refs, r)) = n + 1
       /\ \A k \in 1..n : Append(refs, r)[k] = refs[k]
       /\ Append(refs, r)[n + 1] = r /\ DOMAIN Append(refs, r) = 1..(n + 1) /\ DOMAIN refs = 1..n
  BY <1>1, <1>2, AppendProperties
<1>12. ToSet(refs) = {refs[k] : k \in 1..n}
  BY <1>11 DEF ToSet
<1>13. ToSet(Append(refs, r)) = ToSet(refs) \union {r}
  <2>1. ToSet(Append(refs, r)) = {Append(refs, r)[k] : k \in 1..(n + 1)}
    BY <1>11 DEF ToSet
  <2>2. 1..(n + 1) = (1..n) \union {n + 1}
    OBVIOUS
  <2> QED
    BY <1>11, <1>12, <2>1, <2>2
<1>14. IsInjective(Append(refs, r))
  <2>1. \A a, b \in 1..n : refs[a] = refs[b] => a = b
    BY <1>2, <1>11 DEF EntryOK, IsInjective
  <2>2. \A a \in 1..n : refs[a] # r
    BY <1>2, <1>12
  <2>3. \A a \in 1..(n + 1) : a \in 1..n \/ a = n + 1
    OBVIOUS
  <2> QED
    BY <1>11, <2>1, <2>2, <2>3 DEF IsInjective
<1>15. EntryOK(axis, new)
  BY <1>2, <1>4, <1>5, <1>6, <1>9, <1>10, <1>11, <1>14 DEF EntryOK
<1> QED
  BY <1>2, <1>3, <1>4, <1>5, <1>13, <1>15 DEF new, position

LEMMA insertLineAccounted ==
    ASSUME InputInv, pc # "linegrids", NEW axis \in Axes, Sound(axis), NEW r, NEW line, LineAt(axis, line, r),
           NEW map, NEW lines, Ordered(map), Accounted(axis, map, lines), r \notin lines
    PROVE  Accounted(axis, insertLine(map, line, r, LIMIT(axis)), lines \union {r})
<1> DEFINE limit == LIMIT(axis)
<1>1. limit \in Proper /\ limit.num > 0
  BY LimitProper
<1> HIDE DEF limit
<1>2. line.position \in Proper
  BY SoundPositions DEF LineAt
<1>3. \A e \in map : Position(e) \in Proper /\ EntryOK(axis, e)
  BY DEF Accounted, EntryOK
<1>4. \A e, f \in map : e # f => ~Same(Position(f), Position(e))
  BY <1>3, SameFacts DEF Ordered
<1>5. CASE Within(map, line, limit) = {}
  <2>1. insertLine(map, line, r, limit) = Emplace(map, LineEntry(line, r))
    BY <1>5 DEF insertLine
  <2>2. EntryOK(axis, LineEntry(line, r)) /\ ToSet(LineEntry(line, r).referees) = {r}
        /\ Position(LineEntry(line, r)) = line.position
    BY SingleOK
  <2>3. ASSUME NEW e \in map, Same(Position(e), line.position)
        PROVE  FALSE
    <3>1. \A f \in map \ {e} : Less(Gap(Position(e), line.position), Gap(Position(f), line.position))
      BY <1>1, <1>2, <1>3, <1>4, <2>3, SameNearer
    <3>2. Less(Gap(Position(e), line.position), limit)
      <4>3. PICK w \in Proper : ~Same(w, Position(e))
        <5>1. PICK k \in Int, d \in Nat : k = Position(e).num /\ d = Position(e).den /\ d > 0
          BY <1>3 DEF Proper, Fraction
        <5>2. [num |-> k + d, den |-> d] \in Proper /\ Is([num |-> k + d, den |-> d], k + d, d)
          BY <5>1 DEF Proper, Fraction, Is
        <5>3. Is(Position(e), k, d)
          BY <5>1 DEF Is
        <5>4. Same([num |-> k + d, den |-> d], Position(e)) <=> k + d = k
          BY <1>3, <5>1, <5>2, <5>3, SameIs
        <5> QED
          BY <5>1, <5>2, <5>4
      <4> QED
        BY <1>1, <1>2, <1>3, <2>3, <4>3, SameNearer
    <3>3. e \in Within(map, line, limit)
      BY <3>1, <3>2 DEF Within, Nearest, Position
    <3> QED
      BY <1>5, <3>3
  <2>4. Accounted(axis, Emplace(map, LineEntry(line, r)), lines \union {r})
    BY <2>2, <2>3, EmplaceAccounted
  <2> QED
    BY <2>1, <2>4 DEF limit
<1>6. CASE Within(map, line, limit) # {}
  <2>1. PICK e \in Within(map, line, limit) :
           insertLine(map, line, r, limit) = Emplace(map \ {e}, Merged(e, line, r))
    BY <1>6 DEF insertLine
  <2>2. e \in map /\ EntryOK(axis, e) /\ Nearest(map, e, line.position)
    BY <1>3 DEF Within
  <2>3. ToSet(e.referees) \subseteq lines
    BY <2>2 DEF Accounted
  <2>4. /\ EntryOK(axis, Merged(e, line, r))
        /\ ToSet(Merged(e, line, r).referees) = ToSet(e.referees) \union {r}
        /\ Position(Merged(e, line, r)) = Over(Plus(Times(Whole(e.counter), Position(e)), line.position), e.counter + 1)
    BY <2>2, <2>3, MergedOK
  <2>5. Accounted(axis, map \ {e}, lines \ ToSet(e.referees))
    BY <2>2, RemoveAccounted
  <2>6. PICK n \in Nat : n = e.counter /\ n > 0
    BY <2>2 DEF EntryOK
  <2>7. ASSUME NEW f \in map \ {e}
        PROVE  ~Same(Position(f), Position(Merged(e, line, r)))
    <3>1. AtMost(Gap(Position(e), line.position), Gap(Position(f), line.position))
      <4>1. \/ Less(Gap(Position(e), line.position), Gap(Position(f), line.position))
            \/ AtMost(Gap(Position(e), line.position), Gap(Position(f), line.position))
        BY <2>2 DEF Nearest, Position
      <4>2. Gap(Position(e), line.position) \in Proper /\ Gap(Position(f), line.position) \in Proper
        BY <1>2, <1>3, <2>2, GapProper
      <4> QED
        BY <4>1, <4>2, SameFacts
    <3>2. ~Same(Position(e), Position(f))
      BY <1>4, <2>2
    <3> QED
      BY <1>2, <1>3, <2>2, <2>4, <2>6, <3>1, <3>2, MeanNotAt
  <2>8. Accounted(axis, Emplace(map \ {e}, Merged(e, line, r)), (lines \ ToSet(e.referees)) \union (ToSet(e.referees) \union {r}))
    <3>1. (ToSet(e.referees) \union {r}) \intersect (lines \ ToSet(e.referees)) = {}
      OBVIOUS
    <3> QED
      BY <2>4, <2>5, <2>7, <3>1, EmplaceAccounted
  <2>9. (lines \ ToSet(e.referees)) \union (ToSet(e.referees) \union {r}) = lines \union {r}
    BY <2>3
  <2> QED
    BY <2>1, <2>8, <2>9 DEF limit
<1> QED
  BY <1>5, <1>6

-----------------------------------------------------------------------------
(* The inductive invariant: while there are only lines of the first grid,  *)
(* every entry is one of them.                                             *)

Originals(axis, map) ==
    \A e \in map : \E r \in AllLines(axis) : e.referees = <<r>> /\ Position(e) = PositionOf(axis, r)

AxisInv(axis) ==
    Sound(axis) =>
        /\ Accounted(axis, maps[axis], Met(axis) \ Repeated(axis))
        /\ at.grid = 1 => Originals(axis, maps[axis])

AccInv ==
    /\ pc = "linegrids" =>
          maps = [axis \in Axes |-> {}] /\ at = [grid |-> 1, axis |-> "horizontal", line |-> 1]
    /\ pc # "linegrids" => \A axis \in Axes : AxisInv(axis)

(* What the definitions above have in common does not change once the line *)
(* grids are there.                                                        *)
LEMMA Steady ==
    ASSUME pointGridList' = pointGridList, linegrids' = linegrids, NEW axis
    PROVE  /\ AllLines(axis)' = AllLines(axis) /\ (Sound(axis)' <=> Sound(axis))
           /\ Repeated(axis)' = Repeated(axis)
           /\ \A r : PositionOf(axis, r)' = PositionOf(axis, r)
           /\ \A e : EntryOK(axis, e)' <=> EntryOK(axis, e)
<1>1. AllLines(axis)' = AllLines(axis)
  BY DEF AllLines
<1>2. \A r : LineOf(axis, r)' = LineOf(axis, r) /\ PositionOf(axis, r)' = PositionOf(axis, r)
  BY DEF LineOf, PositionOf
<1>3. Sound(axis)' <=> Sound(axis)
  BY <1>1, <1>2 DEF Sound
<1>4. FirstLines(axis)' = FirstLines(axis)
  BY <1>1 DEF FirstLines
<1>5. Repeated(axis)' = Repeated(axis)
  BY <1>2, <1>4 DEF Repeated
<1>6. \A refs : MeanPosition(axis, refs)' = MeanPosition(axis, refs)
  BY <1>2 DEF MeanPosition
<1>7. \A e : EntryOK(axis, e)' <=> EntryOK(axis, e)
  BY <1>1, <1>6 DEF EntryOK
<1> QED
  BY <1>1, <1>2, <1>3, <1>5, <1>7

LEMMA AxisSteady ==
    ASSUME pointGridList' = pointGridList, linegrids' = linegrids, NEW axis, NEW map, maps'[axis] = map,
           Sound(axis) => /\ Accounted(axis, map, Met(axis)' \ Repeated(axis))
                          /\ at'.grid = 1 => Originals(axis, map)
    PROVE  AxisInv(axis)'
<1>1. /\ AllLines(axis)' = AllLines(axis) /\ (Sound(axis)' <=> Sound(axis))
      /\ Repeated(axis)' = Repeated(axis)
      /\ \A r : PositionOf(axis, r)' = PositionOf(axis, r)
      /\ \A e : EntryOK(axis, e)' <=> EntryOK(axis, e)
  BY Steady
<1> SUFFICES ASSUME Sound(axis)
             PROVE  /\ Accounted(axis, maps[axis], Met(axis) \ Repeated(axis))'
                    /\ at'.grid = 1 => Originals(axis, maps[axis])'
  BY <1>1 DEF AxisInv
<1>2. Accounted(axis, maps[axis], Met(axis) \ Repeated(axis))'
  BY <1>1 DEF Accounted
<1>3. at'.grid = 1 => Originals(axis, maps[axis])'
  BY <1>1 DEF Originals, Position
<1> QED
  BY <1>2, <1>3

(* The line the loops are at, and the lines met with it. *)
LEMMA NewLineAt ==
    ASSUME TypeInv, pc = "average", at.grid \in 1..Count
    PROVE  /\ LineAt(at.axis, NewLine, Referee) /\ Referee \notin Met(at.axis)
           /\ Referee = <<at.grid, at.line>>
<1>1. InputInv /\ Count \in Nat
  BY CountFacts DEF TypeInv
<1>2. at.axis \in Axes /\ at.line \in 1..Len(pointGridList[at.grid][at.axis]) /\ NewLine \in Lines
  BY NewLineType
<1>3. Referee = <<at.grid, at.line>> /\ Referee[1] = at.grid /\ Referee[2] = at.line
  BY DEF Referee
<1>4. Referee \in AllLines(at.axis)
  BY <1>1, <1>2, <1>3, AllLinesFacts
<1>5. PositionOf(at.axis, Referee) = NewLine.position
  BY <1>3 DEF PositionOf, NewLine
<1>6. Referee \notin Met(at.axis)
  <2>1. at.grid \in Nat /\ at.line \in Nat
    BY <1>1 DEF TypeInv, AtInv
  <2>2. ~(at.grid < at.grid) /\ ~(at.line < at.line)
    BY <2>1
  <2> QED
    BY <1>3, <2>2 DEF Met
<1> QED
  BY <1>2, <1>3, <1>4, <1>5, <1>6 DEF LineAt

LEMMA MetGrows ==
    ASSUME TypeInv, pc = "average", at.grid \in 1..Count, pointGridList' = pointGridList, at' = NextLine,
           NEW axis \in Axes
    PROVE  Met(axis)' = IF axis = at.axis THEN Met(axis) \union {Referee} ELSE Met(axis)
<1>1. InputInv
  BY DEF TypeInv
<1>2. \A r : r \in Met(axis) <=>
          \E g \in 1..Count : \E k \in 1..Len(pointGridList[g][axis]) : r = <<g, k>> /\ MetAt(at, axis, g, k)
  BY <1>1, MetFacts
<1>3. AllLines(axis)' = AllLines(axis)
  BY DEF AllLines
<1>4. \A r : r \in Met(axis)' <=> r \in AllLines(axis) /\ MetAt(NextLine, axis, r[1], r[2])
  BY <1>3 DEF Met, MetAt
<1>5. \A r : r \in AllLines(axis) <=> \E g \in 1..Count : \E k \in 1..Len(pointGridList[g][axis]) : r = <<g, k>>
  BY <1>1, AllLinesFacts
<1>6. \A r : r \in Met(axis)' <=>
          \E g \in 1..Count : \E k \in 1..Len(pointGridList[g][axis]) : r = <<g, k>> /\ MetAt(NextLine, axis, g, k)
  <2>1. \A g, k : <<g, k>>[1] = g /\ <<g, k>>[2] = k
    OBVIOUS
  <2> QED
    BY <1>4, <1>5, <2>1
<1>7. \A g \in 1..Count : \A k \in 1..Len(pointGridList[g][axis]) :
          MetAt(NextLine, axis, g, k) <=> MetAt(at, axis, g, k) \/ (axis = at.axis /\ g = at.grid /\ k = at.line)
  BY MetNext
<1>8. Referee = <<at.grid, at.line>> /\ at.line \in 1..Len(pointGridList[at.grid][at.axis])
  BY NewLineAt, NewLineType
<1>9. CASE axis = at.axis
  <2>1. \A r : r \in Met(axis)' <=> r \in Met(axis) \/ r = Referee
    BY <1>2, <1>6, <1>7, <1>8, <1>9
  <2> QED
    BY <1>9, <2>1
<1>10. CASE axis # at.axis
  <2>1. \A r : r \in Met(axis)' <=> r \in Met(axis)
    BY <1>2, <1>6, <1>7, <1>10
  <2> QED
    BY <1>10, <2>1
<1> QED
  BY <1>9, <1>10

(* A line of the first grid has the key of an entry if and only if an      *)
(* earlier line is at its position.                                        *)
LEMMA KeyRepeated ==
    ASSUME TypeInv, pc = "average", at.grid = 1, at.grid \in 1..Count, AxisInv(at.axis), Sound(at.axis)
    PROVE  Referee \in Repeated(at.axis) <=> \E e \in maps[at.axis] : Same(Position(e), NewLine.position)
<1>1. InputInv /\ pc # "linegrids" /\ Count \in Nat
  BY CountFacts DEF TypeInv
<1>2. PICK axis \in Axes : axis = at.axis
  BY NewLineType
<1>3. /\ LineAt(axis, NewLine, Referee) /\ Referee = <<1, at.line>>
      /\ Referee[1] = 1 /\ Referee[2] = at.line /\ at.line \in Nat
  BY <1>1, <1>2, NewLineAt DEF TypeInv, AtInv
<1>4. /\ Accounted(axis, maps[axis], Met(axis) \ Repeated(axis)) /\ Originals(axis, maps[axis])
      /\ Sound(axis)
  BY <1>2 DEF AxisInv
<1>5. Referee \in FirstLines(axis) /\ NewLine.position = PositionOf(axis, Referee)
  BY <1>3 DEF LineAt, FirstLines
<1>6. \A r \in AllLines(axis) : PositionOf(axis, r) \in Proper /\ r \in Nat \X Nat
  BY <1>1, <1>4, SoundPositions
<1>7. NewLine.position \in Proper
  BY <1>5, <1>6 DEF FirstLines
<1>8. ASSUME NEW r \in FirstLines(axis)
      PROVE  r \in Met(axis) <=> r[2] < at.line
  <2>1. r \in AllLines(axis) /\ r[1] = 1
    BY DEF FirstLines
  <2>2. axis \in {"horizontal", "vertical"}
    BY DEF Axes
  <2> QED
    BY <1>2, <2>1, <2>2 DEF Met
<1>9. ASSUME NEW e \in maps[axis], Same(Position(e), NewLine.position)
      PROVE  Referee \in Repeated(axis)
  <2>1. PICK q \in AllLines(axis) : e.referees = <<q>> /\ Position(e) = PositionOf(axis, q)
    BY <1>4 DEF Originals
  <2>2. q \in ToSet(e.referees)
    <3>1. DOMAIN <<q>> = {1} /\ <<q>>[1] = q
      OBVIOUS
    <3> QED
      BY <2>1, <3>1 DEF ToSet
  <2>3. q \in Met(axis)
    BY <1>4, <2>2 DEF Accounted
  <2>4. q[1] \in 1..Count
    <3>1. PICK g \in 1..Count : \E k \in 1..Len(pointGridList[g][axis]) : q = <<g, k>>
      BY <1>1, AllLinesFacts
    <3> QED
      BY <3>1
  <2>5. q[1] = 1
    BY <1>1, <2>3, <2>4 DEF Met
  <2>6. q \in FirstLines(axis) /\ q[2] < at.line
    BY <1>8, <2>3, <2>5 DEF FirstLines
  <2> QED
    BY <1>3, <1>5, <1>9, <2>1, <2>6 DEF Repeated
<1>10. ASSUME Referee \in Repeated(axis)
       PROVE  \E e \in maps[axis] : Same(Position(e), NewLine.position)
  <2> DEFINE T == {q[2] : q \in {r \in FirstLines(axis) : r[2] < at.line /\ Same(PositionOf(axis, r), NewLine.position)}}
  <2>1. T \in SUBSET Nat
    BY <1>6 DEF FirstLines
  <2>2. T # {}
    BY <1>3, <1>5, <1>10 DEF Repeated
  <2>3. PICK n \in T : \A m \in T : n <= m
    BY <2>1, <2>2, LeastNat
  <2>4. PICK q \in FirstLines(axis) : q[2] = n /\ q[2] < at.line /\ Same(PositionOf(axis, q), NewLine.position)
    BY <2>3
  <2>5. q \notin Repeated(axis)
    <3> SUFFICES ASSUME NEW p \in FirstLines(axis), p[2] < q[2], Same(PositionOf(axis, p), PositionOf(axis, q))
                 PROVE  FALSE
      BY DEF Repeated
    <3>1. PositionOf(axis, p) \in Proper /\ PositionOf(axis, q) \in Proper /\ p[2] \in Nat /\ q[2] \in Nat
      BY <1>6 DEF FirstLines
    <3>2. Same(PositionOf(axis, p), NewLine.position)
      BY <1>7, <2>4, <3>1, SameFacts
    <3>3. p[2] < at.line
      BY <1>3, <2>4, <3>1
    <3>4. p[2] \in T
      BY <3>2, <3>3
    <3> QED
      BY <2>3, <2>4, <3>1, <3>4
  <2>6. q \in Met(axis) \ Repeated(axis)
    BY <1>8, <2>4, <2>5
  <2>7. PICK e \in maps[axis] : q \in ToSet(e.referees)
    BY <1>4, <2>6 DEF Accounted
  <2>8. PICK p \in AllLines(axis) : e.referees = <<p>> /\ Position(e) = PositionOf(axis, p)
    BY <1>4 DEF Originals
  <2>9. p = q
    <3>1. DOMAIN <<p>> = {1} /\ <<p>>[1] = p
      OBVIOUS
    <3> QED
      BY <2>7, <2>8, <3>1 DEF ToSet
  <2> QED
    BY <2>4, <2>8, <2>9
<1> QED
  BY <1>2, <1>9, <1>10

LEMMA StartAccounted ==
    ASSUME TypeInv, pc = "average", at.grid = 1, at.grid \in 1..Count, AxisInv(at.axis), Sound(at.axis)
    PROVE  LET map == Emplace(maps[at.axis], LineEntry(NewLine, Referee))
           IN  /\ Accounted(at.axis, map, (Met(at.axis) \union {Referee}) \ Repeated(at.axis))
               /\ Originals(at.axis, map)
<1>1. InputInv /\ pc # "linegrids"
  BY DEF TypeInv
<1>2. PICK axis \in Axes : axis = at.axis
  BY NewLineType
<1>3. LineAt(axis, NewLine, Referee) /\ Referee \notin Met(axis)
  BY <1>2, NewLineAt
<1>4. /\ Accounted(axis, maps[axis], Met(axis) \ Repeated(axis)) /\ Originals(axis, maps[axis])
      /\ Sound(axis)
  BY <1>2 DEF AxisInv
<1> DEFINE entry == LineEntry(NewLine, Referee)
<1>5. /\ EntryOK(axis, entry) /\ ToSet(entry.referees) = {Referee}
      /\ Position(entry) = NewLine.position /\ entry.referees = <<Referee>>
  BY <1>1, <1>3, <1>4, SingleOK
<1> HIDE DEF entry
<1>6. \A e \in maps[axis] : Position(e) \in Proper
  BY <1>4 DEF Accounted, EntryOK
<1>7. Position(entry) \in Proper
  BY <1>5 DEF EntryOK
<1>8. CASE Referee \in Repeated(axis)
  <2>1. PICK e \in maps[axis] : Same(Position(e), Position(entry))
    BY <1>2, <1>5, <1>8, KeyRepeated
  <2>2. ~Less(Position(e), Position(entry)) /\ ~Less(Position(entry), Position(e))
    BY <1>6, <1>7, <2>1, SameFacts
  <2>3. Emplace(maps[axis], entry) = maps[axis]
    BY <2>2 DEF Emplace, Position
  <2>4. (Met(axis) \union {Referee}) \ Repeated(axis) = Met(axis) \ Repeated(axis)
    BY <1>8
  <2> QED
    BY <1>2, <1>4, <2>3, <2>4 DEF entry
<1>9. CASE Referee \notin Repeated(axis)
  <2>1. \A e \in maps[axis] : ~Same(Position(e), Position(entry))
    BY <1>2, <1>5, <1>9, KeyRepeated
  <2>2. ToSet(entry.referees) \intersect (Met(axis) \ Repeated(axis)) = {}
    BY <1>3, <1>5
  <2>3. Accounted(axis, Emplace(maps[axis], entry), (Met(axis) \ Repeated(axis)) \union ToSet(entry.referees))
    BY <1>4, <1>5, <2>1, <2>2, EmplaceAccounted
  <2>4. (Met(axis) \ Repeated(axis)) \union ToSet(entry.referees) = (Met(axis) \union {Referee}) \ Repeated(axis)
    BY <1>5, <1>9
  <2>5. \A e \in Emplace(maps[axis], entry) : e \in maps[axis] \/ e = entry
    BY DEF Emplace
  <2>6. Originals(axis, Emplace(maps[axis], entry))
    BY <1>3, <1>4, <1>5, <2>5 DEF Originals, LineAt
  <2> QED
    BY <1>2, <2>3, <2>4, <2>6 DEF entry
<1> QED
  BY <1>8, <1>9

LEMMA MergeAccounted ==
    ASSUME TypeInv, pc = "average", at.grid # 1, at.grid \in 1..Count, AxisInv(at.axis), Sound(at.axis)
    PROVE  Accounted(at.axis, insertLine(maps[at.axis], NewLine, Referee, LIMIT(at.axis)),
                     (Met(at.axis) \union {Referee}) \ Repeated(at.axis))
<1>1. InputInv /\ pc # "linegrids"
  BY DEF TypeInv
<1>2. PICK axis \in Axes : axis = at.axis
  BY NewLineType
<1>3. LineAt(axis, NewLine, Referee) /\ Referee \notin Met(axis) /\ Referee[1] # 1
  BY <1>2, NewLineAt
<1>4. Accounted(axis, maps[axis], Met(axis) \ Repeated(axis)) /\ Sound(axis)
  BY <1>2 DEF AxisInv
<1>5. Ordered(maps[axis])
  BY DEF TypeInv, MapInv, MapOK
<1>6. Referee \notin Repeated(axis)
  BY <1>3 DEF Repeated, FirstLines
<1>7. Accounted(axis, insertLine(maps[axis], NewLine, Referee, LIMIT(axis)), (Met(axis) \ Repeated(axis)) \union {Referee})
  BY <1>1, <1>3, <1>4, <1>5, insertLineAccounted
<1>8. (Met(axis) \ Repeated(axis)) \union {Referee} = (Met(axis) \union {Referee}) \ Repeated(axis)
  BY <1>6
<1> QED
  BY <1>2, <1>7, <1>8

(* A line is put into its map. *)
LEMMA PutMapAccounted ==
    ASSUME TypeInv, AccInv, pc = "average", at.grid \in 1..Count, NEW map, PutMap(map),
           Sound(at.axis) =>
               /\ Accounted(at.axis, map, (Met(at.axis) \union {Referee}) \ Repeated(at.axis))
               /\ at.grid = 1 => Originals(at.axis, map)
    PROVE  AccInv'
<1>1. pointGridList' = pointGridList /\ linegrids' = linegrids /\ pc' = pc /\ at' = NextLine
      /\ maps' = [maps EXCEPT ![at.axis] = map]
  BY DEF PutMap, inputs
<1>2. at.axis \in Axes /\ \A axis \in Axes : maps'[axis] = IF axis = at.axis THEN map ELSE maps[axis]
  BY <1>1, NewLineType DEF TypeInv, MapInv
<1>3. at'.grid = 1 => at.grid = 1
  <2>1. PICK g \in Nat, a \in Axes, l \in Nat : at = [grid |-> g, axis |-> a, line |-> l] /\ g > 0
    BY CountFacts DEF TypeInv, AtInv
  <2>2. NextLine \in {[grid |-> g, axis |-> a, line |-> l + 1], [grid |-> g, axis |-> "vertical", line |-> 1],
                      [grid |-> g + 1, axis |-> "horizontal", line |-> 1]}
    BY <2>1 DEF NextLine
  <2>3. NextLine.grid = g \/ NextLine.grid = g + 1
    BY <2>2
  <2> QED
    BY <1>1, <2>1, <2>3
<1>4. ASSUME NEW axis \in Axes
      PROVE  AxisInv(axis)'
  <2>1. Met(axis)' = IF axis = at.axis THEN Met(axis) \union {Referee} ELSE Met(axis)
    BY <1>1, MetGrows
  <2>2. AxisInv(axis)
    BY DEF AccInv
  <2>3. CASE axis = at.axis
    <3>1. Met(axis)' \ Repeated(axis) = (Met(axis) \union {Referee}) \ Repeated(axis) /\ maps'[axis] = map
      BY <1>2, <2>1, <2>3
    <3>2. Sound(axis) => /\ Accounted(axis, map, Met(axis)' \ Repeated(axis))
                         /\ at'.grid = 1 => Originals(axis, map)
      BY <1>3, <2>3, <3>1
    <3> QED
      BY <1>1, <3>1, <3>2, AxisSteady
  <2>4. CASE axis # at.axis
    <3>1. Met(axis)' = Met(axis) /\ maps'[axis] = maps[axis]
      BY <1>2, <2>1, <2>4
    <3>2. Sound(axis) => /\ Accounted(axis, maps[axis], Met(axis)' \ Repeated(axis))
                         /\ at'.grid = 1 => Originals(axis, maps[axis])
      BY <1>3, <2>2, <3>1 DEF AxisInv
    <3> QED
      BY <1>1, <3>1, <3>2, AxisSteady
  <2> QED
    BY <2>3, <2>4
<1> QED
  BY <1>1, <1>4 DEF AccInv

LEMMA UnchangedAccounted ==
    ASSUME AccInv, pc # "linegrids", pc' # "linegrids", pointGridList' = pointGridList, linegrids' = linegrids,
           at' = at, maps' = maps
    PROVE  AccInv'
<1>1. ASSUME NEW axis \in Axes
      PROVE  AxisInv(axis)'
  <2>1. Met(axis)' = Met(axis)
    BY DEF Met, AllLines
  <2>2. Sound(axis) => /\ Accounted(axis, maps[axis], Met(axis)' \ Repeated(axis))
                       /\ at'.grid = 1 => Originals(axis, maps[axis])
    BY <2>1 DEF AccInv, AxisInv
  <2> QED
    BY <2>2, AxisSteady
<1> QED
  BY <1>1 DEF AccInv

LEMMA NextAccounted ==
    ASSUME TypeInv, AccInv, [Next]_vars
    PROVE  AccInv'
<1>1. Count \in Nat /\ Count > 0 /\ Count = Len(pointGridList)
  BY CountFacts DEF TypeInv, Count
<1>2. CASE CreateLineGrids
  <2>1. /\ pc = "linegrids" /\ pc' = "average" /\ pointGridList' = pointGridList /\ at' = at /\ maps' = maps
        /\ maps = [axis \in Axes |-> {}] /\ at = [grid |-> 1, axis |-> "horizontal", line |-> 1]
    BY <1>2 DEF CreateLineGrids, inputs, AccInv
  <2>2. ASSUME NEW axis \in Axes
        PROVE  AxisInv(axis)'
    <3>1. maps'[axis] = {}
      BY <2>1
    <3>2. Met(axis) = {}
      <4>1. ASSUME NEW r \in Met(axis) PROVE FALSE
        <5>1. PICK g \in 1..Count : \E k \in 1..Len(pointGridList[g][axis]) : r = <<g, k>> /\ MetAt(at, axis, g, k)
          BY <4>1, MetFacts DEF TypeInv
        <5>2. PICK k \in 1..Len(pointGridList[g][axis]) : MetAt(at, axis, g, k)
          BY <5>1
        <5>3. Len(pointGridList[g][axis]) \in Nat
          BY PointGridLines DEF TypeInv
        <5> QED
          BY <1>1, <2>1, <5>2, <5>3 DEF MetAt
      <4> QED
        BY <4>1
    <3>3. Met(axis)' = {}
      BY <2>1, <3>2 DEF Met, AllLines
    <3> QED
      BY <3>1, <3>3 DEF AxisInv, Accounted, Originals
  <2> QED
    BY <2>1, <2>2 DEF AccInv
<1>3. CASE StartAverage
  <2>1. pc = "average" /\ at.grid = 1 /\ at.grid \in 1..Count
        /\ PutMap(Emplace(maps[at.axis], LineEntry(NewLine, Referee)))
    BY <1>1, <1>3 DEF StartAverage
  <2>2. AxisInv(at.axis)
    BY <2>1, NewLineType DEF AccInv
  <2> QED
    BY <2>1, <2>2, StartAccounted, PutMapAccounted
<1>4. CASE MergeLine
  <2>1. pc = "average" /\ at.grid # 1 /\ at.grid \in 1..Count
        /\ PutMap(insertLine(maps[at.axis], NewLine, Referee, LIMIT(at.axis)))
    BY <1>1, <1>4 DEF MergeLine
  <2>2. AxisInv(at.axis)
    BY <2>1, NewLineType DEF AccInv
  <2> QED
    BY <2>1, <2>2, MergeAccounted, PutMapAccounted
<1>5. CASE FinishAverage
  <2>1. /\ pc # "linegrids" /\ pc' # "linegrids" /\ pointGridList' = pointGridList /\ linegrids' = linegrids
        /\ at' = at /\ maps' = maps
    BY <1>5 DEF FinishAverage, inputs
  <2> QED
    BY <2>1, UnchangedAccounted
<1>6. CASE \/ CalibrateRotation \/ CalibrateTranslation \/ \E lens \in clusters : AddLens(lens)
           \/ Construct \/ Store \/ Read
  <2>1. /\ pc # "linegrids" /\ pc' # "linegrids" /\ pointGridList' = pointGridList /\ linegrids' = linegrids
        /\ at' = at /\ maps' = maps
    BY <1>6 DEF CalibrateRotation, CalibrateTranslation, AddLens, Construct, Store, Read, inputs, average
  <2> QED
    BY <2>1, UnchangedAccounted
<1>7. CASE UNCHANGED vars
  <2>1. pc' = pc /\ pointGridList' = pointGridList /\ linegrids' = linegrids /\ at' = at /\ maps' = maps
    BY <1>7 DEF vars, inputs, average
  <2>2. CASE pc = "linegrids"
    BY <2>1, <2>2 DEF AccInv
  <2>3. CASE pc # "linegrids"
    BY <2>1, <2>3, UnchangedAccounted
  <2> QED
    BY <2>2, <2>3
<1> QED
  BY <1>2, <1>3, <1>4, <1>5, <1>6, <1>7 DEF Next

LEMMA AccountInvariant == Spec => [](TypeInv /\ AccInv)
<1>1. Init => AccInv
  BY DEF Init, AccInv
<1>2. TypeInv /\ AccInv /\ [Next]_vars => AccInv'
  BY NextAccounted
<1> QED
  BY <1>1, <1>2, TypeInvariant, PTL DEF Spec

(* insertLine loses nothing, however many images there are and wherever    *)
(* their lines lie: as averageGrids moves entries of its map to their new  *)
(* average, every line it has met is in one entry, once, entries keep      *)
(* different keys, and each is at the mean of its lines.                   *)
THEOREM AccountsCorrect == Spec => []LinesAccounted
<1>1. TypeInv /\ AccInv => LinesAccounted
  <2> SUFFICES ASSUME TypeInv, AccInv, NEW axis \in Axes, pc = "average", Sound(axis)
               PROVE  /\ UNION {ToSet(e.referees) : e \in maps[axis]} = Met(axis) \ Repeated(axis)
                      /\ \A e \in maps[axis] :
                            /\ IsInjective(e.referees) /\ e.counter = Len(e.referees)
                            /\ Same(e.line.position, MeanPosition(axis, e.referees))
                      /\ \A e, f \in maps[axis] : e # f =>
                            /\ ToSet(e.referees) \intersect ToSet(f.referees) = {}
                            /\ ~Same(e.line.position, f.line.position)
    BY DEF LinesAccounted
  <2>1. Accounted(axis, maps[axis], Met(axis) \ Repeated(axis)) /\ Ordered(maps[axis])
    BY DEF AccInv, AxisInv, TypeInv, MapInv, MapOK
  <2>2. \A e, f \in maps[axis] : e # f => ~Same(Position(e), Position(f))
    BY <2>1, SameFacts DEF Ordered, Accounted, EntryOK
  <2> QED
    BY <2>1, <2>2 DEF Accounted, EntryOK, Position
<1> QED
  BY <1>1, AccountInvariant, PTL

-----------------------------------------------------------------------------
(* Distances from a position that lies between two others. *)

LEMMA CommonDenominator4 ==
    ASSUME NEW p \in Proper, NEW q \in Proper, NEW r \in Proper, NEW s \in Proper
    PROVE  \E D \in Nat : D > 0 /\ \E m, n, o, l \in Int : Is(p, m, D) /\ Is(q, n, D) /\ Is(r, o, D) /\ Is(s, l, D)
<1>1. PICK E \in Nat : E > 0 /\ \E m, n, o \in Int : Is(p, m, E) /\ Is(q, n, E) /\ Is(r, o, E)
  BY CommonDenominator3
<1>2. PICK m \in Int, n \in Int, o \in Int : Is(p, m, E) /\ Is(q, n, E) /\ Is(r, o, E)
  BY <1>1
<1>3. PICK sn \in Int, sd \in Nat : sn = s.num /\ sd = s.den /\ sd > 0
  BY DEF Proper, Fraction
<1>4. Is(p, m * sd, E * sd) /\ Is(q, n * sd, E * sd) /\ Is(r, o * sd, E * sd)
  BY <1>2, <1>3, ScaleIs
<1>5. Is(s, sn * E, E * sd)
  <2>1. (sn * E) * sd = sn * (E * sd)
    OBVIOUS
  <2> QED
    BY <1>3, <2>1 DEF Is
<1>6. E * sd \in Nat /\ E * sd > 0 /\ m * sd \in Int /\ n * sd \in Int /\ o * sd \in Int /\ sn * E \in Int
  BY <1>1, <1>3
<1> QED
  BY <1>4, <1>5, <1>6

LEMMA AtMostOrder ==
    ASSUME NEW p \in Proper, NEW q \in Proper, NEW r \in Proper
    PROVE  /\ AtMost(p, q) /\ AtMost(q, r) => AtMost(p, r)
           /\ AtMost(p, q) /\ Less(q, r) => Less(p, r)
           /\ Less(p, q) /\ AtMost(q, r) => Less(p, r)
           /\ AtMost(p, q) <=> ~Less(q, p)
           /\ AtMost(p, p)
<1>1. PICK D \in Nat : D > 0 /\ \E m, n, o \in Int : Is(p, m, D) /\ Is(q, n, D) /\ Is(r, o, D)
  BY CommonDenominator3
<1>2. PICK m \in Int, n \in Int, o \in Int : Is(p, m, D) /\ Is(q, n, D) /\ Is(r, o, D)
  BY <1>1
<1>3. (Less(p, q) <=> m < n) /\ (AtMost(p, q) <=> m <= n) /\ (Less(q, p) <=> n < m)
  BY <1>1, <1>2, LessIs
<1>4. (Less(q, r) <=> n < o) /\ (AtMost(q, r) <=> n <= o)
  BY <1>1, <1>2, LessIs
<1>5. (Less(p, r) <=> m < o) /\ (AtMost(p, r) <=> m <= o) /\ (AtMost(p, p) <=> m <= m)
  BY <1>1, <1>2, LessIs
<1> QED
  BY <1>3, <1>4, <1>5

LEMMA GapBetween ==
    ASSUME NEW lo \in Proper, NEW p \in Proper, NEW hi \in Proper, NEW x \in Proper,
           AtMost(lo, p), AtMost(p, hi)
    PROVE  /\ AtMost(Gap(p, x), Gap(x, lo)) \/ AtMost(Gap(p, x), Gap(x, hi))
           /\ Less(x, lo) => AtMost(Gap(x, lo), Gap(p, x))
           /\ Less(hi, x) => AtMost(Gap(x, hi), Gap(p, x))
<1>1. PICK D \in Nat : D > 0 /\ \E m, n, o, l \in Int : Is(lo, m, D) /\ Is(p, n, D) /\ Is(hi, o, D) /\ Is(x, l, D)
  BY CommonDenominator4
<1>2. PICK m \in Int, n \in Int, o \in Int, l \in Int : Is(lo, m, D) /\ Is(p, n, D) /\ Is(hi, o, D) /\ Is(x, l, D)
  BY <1>1
<1>3. m <= n /\ n <= o
  <2>1. (AtMost(lo, p) <=> m <= n) /\ (AtMost(p, hi) <=> n <= o)
    BY <1>1, <1>2, LessIs
  <2> QED
    BY <2>1
<1>4. (Less(x, lo) <=> l < m) /\ (Less(hi, x) <=> o < l)
  BY <1>1, <1>2, LessIs
<1>5. PICK a \in Int, b \in Int, c \in Int : a = Abs(n - l) /\ b = Abs(l - m) /\ c = Abs(l - o)
  <2>1. Abs(n - l) \in Int /\ Abs(l - m) \in Int /\ Abs(l - o) \in Int
    BY DEF Abs
  <2> QED
    BY <2>1
<1>6. Gap(p, x) \in Proper /\ Is(Gap(p, x), a, D)
  BY <1>1, <1>2, <1>5, GapIs
<1>7. Gap(x, lo) \in Proper /\ Is(Gap(x, lo), b, D)
  BY <1>1, <1>2, <1>5, GapIs
<1>8. Gap(x, hi) \in Proper /\ Is(Gap(x, hi), c, D)
  BY <1>1, <1>2, <1>5, GapIs
<1>9. (AtMost(Gap(p, x), Gap(x, lo)) <=> a <= b) /\ (AtMost(Gap(x, lo), Gap(p, x)) <=> b <= a)
  BY <1>1, <1>6, <1>7, LessIs
<1>10. (AtMost(Gap(p, x), Gap(x, hi)) <=> a <= c) /\ (AtMost(Gap(x, hi), Gap(p, x)) <=> c <= a)
  BY <1>1, <1>6, <1>8, LessIs
<1>11. (a <= b \/ a <= c) /\ (l < m => b <= a) /\ (o < l => c <= a)
  BY <1>3, <1>5 DEF Abs
<1> QED
  BY <1>4, <1>9, <1>10, <1>11

(* The new average is between the old one and the line. *)
LEMMA MeanBetween ==
    ASSUME NEW p \in Proper, NEW x \in Proper, NEW n \in Nat, n > 0
    PROVE  LET new == Over(Plus(Times(Whole(n), p), x), n + 1)
           IN  /\ new \in Proper
               /\ \/ AtMost(p, new) /\ AtMost(new, x)
                  \/ AtMost(x, new) /\ AtMost(new, p)
<1>1. PICK D \in Nat : D > 0 /\ \E mp, mx \in Int : Is(p, mp, D) /\ Is(x, mx, D)
  BY CommonDenominator
<1>2. PICK mp \in Int, mx \in Int : Is(p, mp, D) /\ Is(x, mx, D)
  BY <1>1
<1> DEFINE t == Times(Whole(n), p)
           w == Plus(t, x)
           new == Over(w, n + 1)
<1>3. t \in Proper /\ Is(t, n * mp, D)
  BY <1>1, <1>2, TimesIs
<1> HIDE DEF t
<1>4. n * mp \in Int /\ n + 1 \in Nat /\ n + 1 > 0
  OBVIOUS
<1>5. w \in Proper /\ Is(w, n * mp + mx, D)
  BY <1>1, <1>2, <1>3, <1>4, PlusIs
<1> HIDE DEF w
<1>6. PICK z \in Int : z = n * mp + mx
  BY <1>4
<1>7. new \in Proper /\ Is(new, z, D * (n + 1))
  BY <1>1, <1>4, <1>5, <1>6, OverIs
<1> HIDE DEF new
<1>8. PICK a \in Int, b \in Int, E \in Nat : a = mp * (n + 1) /\ b = mx * (n + 1) /\ E = D * (n + 1) /\ E > 0
  BY <1>1
<1>9. Is(p, a, E) /\ Is(x, b, E) /\ Is(new, z, E)
  BY <1>1, <1>2, <1>4, <1>7, <1>8, ScaleIs
<1>10. (AtMost(p, new) <=> a <= z) /\ (AtMost(new, p) <=> z <= a)
  BY <1>7, <1>8, <1>9, LessIs
<1>11. (AtMost(x, new) <=> b <= z) /\ (AtMost(new, x) <=> z <= b)
  BY <1>7, <1>8, <1>9, LessIs
<1>12. (a <= z /\ z <= b) \/ (b <= z /\ z <= a)
  <2>1. a = n * mp + mp /\ b = n * mx + mx
    BY <1>8
  <2>2. CASE mp <= mx
    <3>1. PICK d \in Nat : mx = mp + d
      BY <2>2
    <3>2. n * mx = n * mp + n * d /\ n * d >= 0
      BY <3>1
    <3> QED
      BY <1>6, <2>1, <2>2, <3>2
  <2>3. CASE mx < mp
    <3>1. PICK d \in Nat : mp = mx + d
      BY <2>3
    <3>2. n * mp = n * mx + n * d /\ n * d >= 0
      BY <3>1
    <3> QED
      BY <1>6, <2>1, <2>3, <3>2
  <2> QED
    BY <2>2, <2>3
<1> QED
  BY <1>7, <1>10, <1>11, <1>12 DEF new, w, t

-----------------------------------------------------------------------------
(* The lines of lenses: entries keep to one of them each, if the images    *)
(* show one array.  An average lies between two of its lines, and so are   *)
(* the distances from it.                                                  *)

IdOf(axis, r) == LineOf(axis, r).id

Spanned(axis, e) ==
    \E lo, hi \in ToSet(e.referees) :
        AtMost(PositionOf(axis, lo), Position(e)) /\ AtMost(Position(e), PositionOf(axis, hi))

OfId(axis, e, id) == \A r \in ToSet(e.referees) : IdOf(axis, r) = id

Pure(axis, map) ==
    /\ \A e \in map : Spanned(axis, e) /\ \E id \in Int : OfId(axis, e, id)
    /\ \A e, f \in map : e # f =>
          \A q \in ToSet(e.referees), r \in ToSet(f.referees) : IdOf(axis, q) # IdOf(axis, r)

LEMMA LineIds ==
    ASSUME InputInv, NEW axis \in Axes, NEW r \in AllLines(axis)
    PROVE  IdOf(axis, r) \in Int
<1>1. PICK g \in 1..Count : \E k \in 1..Len(pointGridList[g][axis]) : r = <<g, k>>
  BY AllLinesFacts
<1>2. PICK k \in 1..Len(pointGridList[g][axis]) : r = <<g, k>>
  BY <1>1
<1>3. PICK lines \in Seq(PointLines) : lines = pointGridList[g][axis]
  BY PointGridLines
<1>4. lines[k] \in PointLines
  BY <1>2, <1>3, ElementOfSeq
<1>5. LineOf(axis, r) = lines[k]
  BY <1>2, <1>3 DEF LineOf
<1> QED
  BY <1>4, <1>5 DEF IdOf, PointLines

LEMMA RegularFacts ==
    ASSUME NEW axis \in Axes, Regular(axis), NEW q \in AllLines(axis), NEW r \in AllLines(axis)
    PROVE  /\ IdOf(axis, q) < IdOf(axis, r) => Less(PositionOf(axis, q), PositionOf(axis, r))
           /\ IdOf(axis, q) = IdOf(axis, r) =>
                 /\ q[1] = r[1] => q = r
                 /\ Less(Gap(PositionOf(axis, q), PositionOf(axis, r)), LIMIT(axis))
                 /\ \A s \in AllLines(axis) : IdOf(axis, s) # IdOf(axis, q) =>
                       Less(Gap(PositionOf(axis, q), PositionOf(axis, r)), Gap(PositionOf(axis, q), PositionOf(axis, s)))
BY DEF Regular, IdOf

LEMMA NoneRepeated ==
    ASSUME InputInv, pc # "linegrids", NEW axis \in Axes, Sound(axis), Regular(axis)
    PROVE  Repeated(axis) = {}
<1> SUFFICES ASSUME NEW q \in FirstLines(axis), NEW r \in FirstLines(axis), q[2] < r[2],
                    Same(PositionOf(axis, q), PositionOf(axis, r))
             PROVE  FALSE
  BY DEF Repeated
<1>1. /\ q \in AllLines(axis) /\ r \in AllLines(axis) /\ q[1] = r[1]
      /\ IdOf(axis, q) \in Int /\ IdOf(axis, r) \in Int
      /\ PositionOf(axis, q) \in Proper /\ PositionOf(axis, r) \in Proper
      /\ q \in Nat \X Nat /\ r \in Nat \X Nat
  BY LineIds, SoundPositions DEF FirstLines
<1>2. ~Less(PositionOf(axis, q), PositionOf(axis, r)) /\ ~Less(PositionOf(axis, r), PositionOf(axis, q))
  BY <1>1, SameFacts
<1>3. IdOf(axis, q) = IdOf(axis, r)
  BY <1>1, <1>2, RegularFacts
<1>4. q = r
  BY <1>1, <1>3, RegularFacts
<1> QED
  BY <1>1, <1>4

LEMMA RefereesOfEntry ==
    ASSUME NEW axis, NEW e, EntryOK(axis, e)
    PROVE  ToSet(e.referees) \subseteq AllLines(axis) /\ ToSet(e.referees) # {}
<1>1. PICK refs \in Seq(AllLines(axis)) : refs = e.referees /\ Len(refs) > 0
  BY DEF EntryOK
<1>2. DOMAIN refs = 1..Len(refs) /\ Len(refs) \in Nat /\ \A k \in 1..Len(refs) : refs[k] \in AllLines(axis)
  BY <1>1, ElementOfSeq, LenProperties
<1>3. refs[1] \in ToSet(refs)
  BY <1>1, <1>2 DEF ToSet
<1> QED
  BY <1>1, <1>2, <1>3 DEF ToSet

LEMMA EmplacePure ==
    ASSUME NEW axis, NEW map, Pure(axis, map), NEW entry, Spanned(axis, entry), NEW id \in Int, OfId(axis, entry, id),
           \A e \in map : \A r \in ToSet(e.referees) : IdOf(axis, r) # id
    PROVE  Pure(axis, Emplace(map, entry))
<1>1. Emplace(map, entry) = map \/ Emplace(map, entry) = map \union {entry}
  BY DEF Emplace
<1>2. Pure(axis, map \union {entry})
  BY DEF Pure, OfId
<1> QED
  BY <1>1, <1>2

(* Distances of a line from the entries. *)
LEMMA EntryGaps ==
    ASSUME InputInv, pc # "linegrids", NEW axis \in Axes, Sound(axis), Regular(axis),
           NEW x \in AllLines(axis), NEW e, EntryOK(axis, e), Spanned(axis, e), NEW id \in Int, OfId(axis, e, id)
    PROVE  LET px == PositionOf(axis, x)
           IN  /\ px \in Proper /\ Gap(Position(e), px) \in Proper
               /\ IdOf(axis, x) = id =>
                     \E r \in ToSet(e.referees) : AtMost(Gap(Position(e), px), Gap(px, PositionOf(axis, r)))
               /\ IdOf(axis, x) # id =>
                     \E r \in ToSet(e.referees) : AtMost(Gap(px, PositionOf(axis, r)), Gap(Position(e), px))
<1>1. PICK lo \in ToSet(e.referees), hi \in ToSet(e.referees) :
         AtMost(PositionOf(axis, lo), Position(e)) /\ AtMost(Position(e), PositionOf(axis, hi))
  BY DEF Spanned
<1>2. lo \in AllLines(axis) /\ hi \in AllLines(axis)
  BY RefereesOfEntry
<1>3. PICK p \in Proper, px \in Proper, pl \in Proper, ph \in Proper :
         p = Position(e) /\ px = PositionOf(axis, x) /\ pl = PositionOf(axis, lo) /\ ph = PositionOf(axis, hi)
  BY <1>2, SoundPositions DEF EntryOK
<1>4. Gap(p, px) \in Proper
  BY GapProper
<1>5. /\ AtMost(Gap(p, px), Gap(px, pl)) \/ AtMost(Gap(p, px), Gap(px, ph))
      /\ Less(px, pl) => AtMost(Gap(px, pl), Gap(p, px))
      /\ Less(ph, px) => AtMost(Gap(px, ph), Gap(p, px))
  BY <1>1, <1>3, GapBetween
<1>6. IdOf(axis, lo) = id /\ IdOf(axis, hi) = id /\ IdOf(axis, x) \in Int
  BY LineIds DEF OfId
<1>7. IdOf(axis, x) # id => Less(px, pl) \/ Less(ph, px)
  <2>1. CASE IdOf(axis, x) < id
    BY <1>2, <1>3, <1>6, <2>1, RegularFacts
  <2>2. CASE id < IdOf(axis, x)
    BY <1>2, <1>3, <1>6, <2>2, RegularFacts
  <2> QED
    BY <1>6, <2>1, <2>2
<1> QED
  BY <1>3, <1>4, <1>5, <1>7

LEMMA SinglePure ==
    ASSUME InputInv, pc # "linegrids", NEW axis \in Axes, Sound(axis), NEW r, NEW line, LineAt(axis, line, r)
    PROVE  OfId(axis, LineEntry(line, r), IdOf(axis, r)) /\ Spanned(axis, LineEntry(line, r))
<1>1. /\ ToSet(LineEntry(line, r).referees) = {r} /\ Position(LineEntry(line, r)) = line.position
      /\ line.position = PositionOf(axis, r) /\ line.position \in Proper
  BY SingleOK, SoundPositions DEF LineAt
<1>2. AtMost(line.position, line.position)
  BY <1>1, AtMostOrder
<1> QED
  BY <1>1, <1>2 DEF OfId, Spanned

LEMMA insertLinePure ==
    ASSUME InputInv, pc # "linegrids", NEW axis \in Axes, Recognizable(axis), NEW r, NEW line, LineAt(axis, line, r),
           NEW map, NEW lines, Accounted(axis, map, lines), Pure(axis, map), r \notin lines,
           Anchored(axis) => \E q \in lines : IdOf(axis, q) = IdOf(axis, r)
    PROVE  Pure(axis, insertLine(map, line, r, LIMIT(axis)))
<1>1. Sound(axis) /\ Regular(axis) /\ (Anchored(axis) \/ Apart(axis))
  BY DEF Recognizable
<1>2. PICK limit \in Proper : limit = LIMIT(axis)
  BY LimitProper
<1>3. r \in AllLines(axis) /\ line.position = PositionOf(axis, r) /\ IdOf(axis, r) \in Int
  BY LineIds DEF LineAt
<1>4. PICK px \in Proper, id \in Int : px = line.position /\ id = IdOf(axis, r)
  BY <1>1, <1>3, SoundPositions
<1>5. \A e \in map : EntryOK(axis, e) /\ Spanned(axis, e) /\ \E i \in Int : OfId(axis, e, i)
  BY DEF Accounted, Pure
<1>6. CASE \E q \in lines : IdOf(axis, q) = id
  <2>0. PICK e \in map : \E q \in ToSet(e.referees) : IdOf(axis, q) = id
    <3>1. UNION {ToSet(f.referees) : f \in map} = lines
      BY DEF Accounted
    <3> QED
      BY <1>6, <3>1
  <2>1. PICK q \in ToSet(e.referees) : IdOf(axis, q) = id
    BY <2>0
  <2>2. EntryOK(axis, e) /\ Spanned(axis, e) /\ OfId(axis, e, id)
    BY <1>5, <2>1 DEF OfId
  <2>3. Gap(Position(e), px) \in Proper
        /\ \E s \in ToSet(e.referees) : AtMost(Gap(Position(e), px), Gap(px, PositionOf(axis, s)))
    BY <1>1, <1>3, <1>4, <2>2, EntryGaps
  <2>4. PICK s \in ToSet(e.referees) : AtMost(Gap(Position(e), px), Gap(px, PositionOf(axis, s)))
    BY <2>3
  <2>5. s \in AllLines(axis) /\ IdOf(axis, s) = id /\ PositionOf(axis, s) \in Proper
    BY <1>1, <2>2, RefereesOfEntry, SoundPositions DEF OfId
  <2>6. PICK gs \in Proper : gs = Gap(px, PositionOf(axis, s))
    BY <2>5, GapProper
  <2>7. Less(Gap(Position(e), px), limit)
    <3>1. Less(gs, limit)
      BY <1>1, <1>2, <1>3, <1>4, <2>5, <2>6, RegularFacts
    <3> QED
      BY <2>3, <2>4, <2>6, <3>1, AtMostOrder
  <2>8. ASSUME NEW f \in map \ {e}
        PROVE  Less(Gap(Position(e), px), Gap(Position(f), px)) /\ Gap(Position(f), px) \in Proper
    <3>1. EntryOK(axis, f) /\ Spanned(axis, f)
      BY <1>5
    <3>2. PICK i \in Int : OfId(axis, f, i)
      BY <1>5
    <3>3. i # id
      <4>1. PICK t \in ToSet(f.referees) : TRUE
        BY <3>1, RefereesOfEntry
      <4> QED
        BY <2>1, <3>2, <4>1 DEF Pure, OfId
    <3>4. Gap(Position(f), px) \in Proper
          /\ \E t \in ToSet(f.referees) : AtMost(Gap(px, PositionOf(axis, t)), Gap(Position(f), px))
      BY <1>1, <1>3, <1>4, <3>1, <3>2, <3>3, EntryGaps
    <3>5. PICK t \in ToSet(f.referees) : AtMost(Gap(px, PositionOf(axis, t)), Gap(Position(f), px))
      BY <3>4
    <3>6. t \in AllLines(axis) /\ IdOf(axis, t) # id /\ PositionOf(axis, t) \in Proper
      BY <1>1, <3>1, <3>2, <3>3, RefereesOfEntry, SoundPositions DEF OfId
    <3>7. PICK gt \in Proper : gt = Gap(px, PositionOf(axis, t))
      BY <3>6, GapProper
    <3>8. Less(gs, gt)
      BY <1>1, <1>3, <1>4, <2>5, <2>6, <3>6, <3>7, RegularFacts
    <3>9. Less(Gap(Position(e), px), gt)
      BY <2>3, <2>4, <2>6, <3>8, AtMostOrder
    <3> QED
      BY <2>3, <3>4, <3>5, <3>7, <3>9, AtMostOrder
  <2>9. Within(map, line, limit) = {e}
    <3>1. e \in Within(map, line, limit)
      BY <1>4, <2>7, <2>8 DEF Within, Nearest, Position
    <3>2. ASSUME NEW f \in Within(map, line, limit), f # e
          PROVE  FALSE
      <4>1. f \in map /\ Nearest(map, f, px)
        BY <1>4 DEF Within
      <4>2. Less(Gap(Position(f), px), Gap(Position(e), px)) \/ AtMost(Gap(Position(f), px), Gap(Position(e), px))
        BY <3>2, <4>1 DEF Nearest, Position
      <4>3. Less(Gap(Position(e), px), Gap(Position(f), px)) /\ Gap(Position(f), px) \in Proper
        BY <2>8, <3>2, <4>1
      <4> QED
        BY <2>3, <4>2, <4>3, AtMostOrder, SameFacts
    <3> QED
      BY <3>1, <3>2
  <2>10. insertLine(map, line, r, limit) = Emplace(map \ {e}, Merged(e, line, r))
    BY <2>9 DEF insertLine
  <2>11. r \notin ToSet(e.referees)
    BY DEF Accounted
  <2>12. /\ ToSet(Merged(e, line, r).referees) = ToSet(e.referees) \union {r}
         /\ Position(Merged(e, line, r)) = Over(Plus(Times(Whole(e.counter), Position(e)), px), e.counter + 1)
    BY <1>1, <1>4, <2>2, <2>11, MergedOK
  <2> DEFINE new == Merged(e, line, r)
  <2>13. OfId(axis, new, id)
    BY <1>4, <2>2, <2>12 DEF OfId
  <2>14. Spanned(axis, new)
    <3>1. PICK lo \in ToSet(e.referees), hi \in ToSet(e.referees) :
             AtMost(PositionOf(axis, lo), Position(e)) /\ AtMost(Position(e), PositionOf(axis, hi))
      BY <2>2 DEF Spanned
    <3>2. PositionOf(axis, lo) \in Proper /\ PositionOf(axis, hi) \in Proper /\ Position(e) \in Proper
      BY <1>1, <2>2, RefereesOfEntry, SoundPositions DEF EntryOK
    <3>3. PICK n \in Nat : n = e.counter /\ n > 0
      BY <2>2 DEF EntryOK
    <3>4. /\ Position(new) \in Proper
          /\ \/ AtMost(Position(e), Position(new)) /\ AtMost(Position(new), px)
             \/ AtMost(px, Position(new)) /\ AtMost(Position(new), Position(e))
      <4> DEFINE w == Over(Plus(Times(Whole(n), Position(e)), px), n + 1)
      <4>1. /\ w \in Proper
            /\ \/ AtMost(Position(e), w) /\ AtMost(w, px)
               \/ AtMost(px, w) /\ AtMost(w, Position(e))
        BY <3>2, <3>3, MeanBetween
      <4>2. Position(new) = w
        BY <2>12, <3>3
      <4> HIDE DEF w, new
      <4> QED
        BY <4>1, <4>2
    <3> HIDE DEF new
    <3>5. CASE AtMost(Position(e), Position(new)) /\ AtMost(Position(new), px)
      <4>1. AtMost(PositionOf(axis, lo), Position(new))
        BY <3>1, <3>2, <3>4, <3>5, AtMostOrder
      <4> QED
        BY <1>3, <1>4, <2>12, <3>5, <4>1 DEF Spanned, new
    <3>6. CASE AtMost(px, Position(new)) /\ AtMost(Position(new), Position(e))
      <4>1. AtMost(Position(new), PositionOf(axis, hi))
        BY <3>1, <3>2, <3>4, <3>6, AtMostOrder
      <4> QED
        BY <1>3, <1>4, <2>12, <3>6, <4>1 DEF Spanned, new
    <3> QED
      BY <3>4, <3>5, <3>6
  <2>15. Pure(axis, map \ {e})
    BY DEF Pure
  <2>16. \A f \in map \ {e} : \A t \in ToSet(f.referees) : IdOf(axis, t) # id
    BY <2>1 DEF Pure
  <2> HIDE DEF new
  <2>17. Pure(axis, Emplace(map \ {e}, new))
    BY <2>13, <2>14, <2>15, <2>16, EmplacePure
  <2> QED
    BY <1>2, <2>10, <2>17 DEF new
<1>7. CASE ~\E q \in lines : IdOf(axis, q) = id
  <2>1. Apart(axis)
    BY <1>1, <1>4, <1>7
  <2>2. ASSUME NEW f \in map
        PROVE  \A t \in ToSet(f.referees) : IdOf(axis, t) # id
    BY <1>7 DEF Accounted
  <2>3. ASSUME NEW f \in map
        PROVE  ~Less(Gap(Position(f), px), limit)
    <3>1. EntryOK(axis, f) /\ Spanned(axis, f)
      BY <1>5
    <3>2. PICK i \in Int : OfId(axis, f, i)
      BY <1>5
    <3>3. i # id
      <4>1. PICK t \in ToSet(f.referees) : TRUE
        BY <3>1, RefereesOfEntry
      <4> QED
        BY <2>2, <3>2, <4>1 DEF OfId
    <3>4. Gap(Position(f), px) \in Proper
          /\ \E t \in ToSet(f.referees) : AtMost(Gap(px, PositionOf(axis, t)), Gap(Position(f), px))
      BY <1>1, <1>3, <1>4, <3>1, <3>2, <3>3, EntryGaps
    <3>5. PICK t \in ToSet(f.referees) : AtMost(Gap(px, PositionOf(axis, t)), Gap(Position(f), px))
      BY <3>4
    <3>6. t \in AllLines(axis) /\ IdOf(axis, t) # id /\ PositionOf(axis, t) \in Proper
      BY <1>1, <2>2, <3>1, RefereesOfEntry, SoundPositions
    <3>7. PICK gt \in Proper : gt = Gap(px, PositionOf(axis, t))
      BY <3>6, GapProper
    <3>8. AtMost(limit, gt)
      BY <1>2, <1>3, <1>4, <2>1, <3>6, <3>7 DEF Apart, IdOf
    <3> QED
      BY <3>4, <3>5, <3>7, <3>8, AtMostOrder
  <2>4. Within(map, line, limit) = {}
    BY <1>4, <2>3 DEF Within, Position
  <2>5. insertLine(map, line, r, limit) = Emplace(map, LineEntry(line, r))
    BY <2>4 DEF insertLine
  <2>6. OfId(axis, LineEntry(line, r), id) /\ Spanned(axis, LineEntry(line, r))
    BY <1>1, <1>4, SinglePure
  <2> QED
    BY <1>2, <2>2, <2>5, <2>6, EmplacePure
<1> QED
  BY <1>6, <1>7

(* The inductive invariant, and what averageGrids returns. *)
LatticeInv ==
    /\ pc # "linegrids" => \A axis \in Axes : Recognizable(axis) => Pure(axis, maps[axis])
    /\ pc \notin {"linegrids", "average"} =>
          at.grid = Count + 1 /\ target = TargetOf(maps, linegrids) /\ mappers = MappersOf(maps, linegrids)

LEMMA PureSteady ==
    ASSUME pointGridList' = pointGridList, linegrids' = linegrids, NEW axis, NEW map, maps'[axis] = map,
           Recognizable(axis) => Pure(axis, map)
    PROVE  Recognizable(axis)' => Pure(axis, maps[axis])'
<1>1. /\ AllLines(axis)' = AllLines(axis) /\ (Sound(axis)' <=> Sound(axis))
      /\ \A r : PositionOf(axis, r)' = PositionOf(axis, r)
  BY Steady
<1>2. \A r : LineOf(axis, r)' = LineOf(axis, r) /\ IdOf(axis, r)' = IdOf(axis, r)
  BY DEF LineOf, IdOf
<1>3. FirstLines(axis)' = FirstLines(axis)
  BY <1>1 DEF FirstLines
<1>4. Regular(axis)' <=> Regular(axis)
  BY <1>1, <1>2 DEF Regular
<1>5. (Anchored(axis)' <=> Anchored(axis)) /\ (Apart(axis)' <=> Apart(axis))
  BY <1>1, <1>2, <1>3 DEF Anchored, Apart
<1>6. Recognizable(axis)' <=> Recognizable(axis)
  BY <1>1, <1>4, <1>5 DEF Recognizable
<1>7. \A e : Spanned(axis, e)' <=> Spanned(axis, e)
  BY <1>1 DEF Spanned, Position
<1>8. \A e, id : OfId(axis, e, id)' <=> OfId(axis, e, id)
  BY <1>2 DEF OfId
<1>9. Pure(axis, map) => Pure(axis, maps[axis])'
  BY <1>2, <1>7, <1>8 DEF Pure
<1> QED
  BY <1>6, <1>9

LEMMA StartPure ==
    ASSUME TypeInv, pc = "average", at.grid = 1, at.grid \in 1..Count, AxisInv(at.axis), Recognizable(at.axis),
           Pure(at.axis, maps[at.axis])
    PROVE  Pure(at.axis, Emplace(maps[at.axis], LineEntry(NewLine, Referee)))
<1>1. InputInv /\ pc # "linegrids"
  BY DEF TypeInv
<1>2. PICK axis \in Axes : axis = at.axis
  BY NewLineType
<1>3. Sound(axis) /\ Regular(axis)
  BY <1>2 DEF Recognizable
<1>4. LineAt(axis, NewLine, Referee) /\ Referee \notin Met(axis) /\ Referee = <<1, at.line>>
  BY <1>2, NewLineAt
<1>5. Referee \in AllLines(axis) /\ IdOf(axis, Referee) \in Int /\ Referee[1] = 1
  BY <1>1, <1>4, LineIds DEF LineAt
<1>6. Accounted(axis, maps[axis], Met(axis) \ Repeated(axis))
  BY <1>2, <1>3 DEF AxisInv
<1>7. ASSUME NEW e \in maps[axis], NEW t \in ToSet(e.referees), IdOf(axis, t) = IdOf(axis, Referee)
      PROVE  FALSE
  <2>1. t \in Met(axis) /\ t \in AllLines(axis)
    BY <1>6 DEF Accounted, Met
  <2>2. t[1] \in 1..Count
    <3>1. PICK g \in 1..Count : \E k \in 1..Len(pointGridList[g][axis]) : t = <<g, k>>
      BY <1>1, <2>1, AllLinesFacts
    <3> QED
      BY <3>1
  <2>3. t[1] = 1
    BY <2>1, <2>2, CountFacts DEF Met
  <2>4. t = Referee
    BY <1>3, <1>5, <1>7, <2>1, <2>3, RegularFacts
  <2> QED
    BY <1>4, <2>1, <2>4
<1>8. OfId(axis, LineEntry(NewLine, Referee), IdOf(axis, Referee)) /\ Spanned(axis, LineEntry(NewLine, Referee))
  BY <1>1, <1>3, <1>4, SinglePure
<1> QED
  BY <1>2, <1>5, <1>7, <1>8, EmplacePure

LEMMA MergePure ==
    ASSUME TypeInv, pc = "average", at.grid # 1, at.grid \in 1..Count, AxisInv(at.axis), Recognizable(at.axis),
           Pure(at.axis, maps[at.axis])
    PROVE  Pure(at.axis, insertLine(maps[at.axis], NewLine, Referee, LIMIT(at.axis)))
<1>1. InputInv /\ pc # "linegrids"
  BY DEF TypeInv
<1>2. PICK axis \in Axes : axis = at.axis
  BY NewLineType
<1>3. Sound(axis) /\ Regular(axis) /\ Recognizable(axis)
  BY <1>2 DEF Recognizable
<1>4. LineAt(axis, NewLine, Referee) /\ Referee \notin Met(axis) /\ Referee \in AllLines(axis)
  BY <1>2, NewLineAt DEF LineAt
<1>5. Accounted(axis, maps[axis], Met(axis) \ Repeated(axis))
  BY <1>2, <1>3 DEF AxisInv
<1>6. Repeated(axis) = {}
  BY <1>1, <1>3, NoneRepeated
<1>7. Anchored(axis) => \E q \in Met(axis) \ Repeated(axis) : IdOf(axis, q) = IdOf(axis, Referee)
  <2>1. ASSUME Anchored(axis) PROVE \E q \in Met(axis) : IdOf(axis, q) = IdOf(axis, Referee)
    <3>1. PICK q \in FirstLines(axis) : IdOf(axis, q) = IdOf(axis, Referee)
      BY <1>4, <2>1 DEF Anchored, IdOf
    <3>2. 1 < at.grid
      BY CountFacts, <1>1
    <3>3. q \in Met(axis)
      BY <3>2 DEF FirstLines, Met
    <3> QED
      BY <3>1, <3>3
  <2> QED
    BY <1>6, <2>1
<1>8. Pure(axis, insertLine(maps[axis], NewLine, Referee, LIMIT(axis)))
  BY <1>1, <1>2, <1>3, <1>4, <1>5, <1>7, insertLinePure
<1> QED
  BY <1>2, <1>8

LEMMA PutMapPure ==
    ASSUME TypeInv, LatticeInv, pc = "average", at.grid \in 1..Count, NEW map, PutMap(map),
           Recognizable(at.axis) => Pure(at.axis, map)
    PROVE  LatticeInv'
<1>1. pointGridList' = pointGridList /\ linegrids' = linegrids /\ pc' = pc
      /\ maps' = [maps EXCEPT ![at.axis] = map]
  BY DEF PutMap, inputs
<1>2. at.axis \in Axes /\ \A axis \in Axes : maps'[axis] = IF axis = at.axis THEN map ELSE maps[axis]
  BY <1>1, NewLineType DEF TypeInv, MapInv
<1>3. ASSUME NEW axis \in Axes
      PROVE  Recognizable(axis)' => Pure(axis, maps[axis])'
  <2>1. PICK m : m = maps'[axis] /\ (Recognizable(axis) => Pure(axis, m))
    BY <1>2 DEF LatticeInv
  <2> QED
    BY <1>1, <2>1, PureSteady
<1> QED
  BY <1>1, <1>3 DEF LatticeInv

LEMMA UnchangedPure ==
    ASSUME LatticeInv, pc # "linegrids", pointGridList' = pointGridList, linegrids' = linegrids, maps' = maps,
           pc' \notin {"linegrids", "average"} =>
              at'.grid = Count + 1 /\ target' = TargetOf(maps, linegrids) /\ mappers' = MappersOf(maps, linegrids)
    PROVE  LatticeInv'
<1>1. ASSUME NEW axis \in Axes
      PROVE  Recognizable(axis)' => Pure(axis, maps[axis])'
  <2>1. maps'[axis] = maps[axis] /\ (Recognizable(axis) => Pure(axis, maps[axis]))
    BY DEF LatticeInv
  <2> QED
    BY <2>1, PureSteady
<1>2. Count' = Count
  BY DEF Count
<1> QED
  BY <1>1, <1>2 DEF LatticeInv

LEMMA NextPure ==
    ASSUME TypeInv, AccInv, LatticeInv, [Next]_vars
    PROVE  LatticeInv'
<1>1. Count \in Nat /\ Count > 0 /\ Count = Len(pointGridList)
  BY CountFacts DEF TypeInv, Count
<1>2. CASE CreateLineGrids
  <2>1. pc' = "average" /\ maps' = [axis \in Axes |-> {}]
    BY <1>2 DEF CreateLineGrids, AccInv
  <2>2. \A axis \in Axes : maps'[axis] = {}
    BY <2>1
  <2> QED
    BY <2>1, <2>2 DEF LatticeInv, Pure
<1>3. CASE StartAverage
  <2>1. pc = "average" /\ at.grid = 1 /\ at.grid \in 1..Count
        /\ PutMap(Emplace(maps[at.axis], LineEntry(NewLine, Referee)))
    BY <1>1, <1>3 DEF StartAverage
  <2>2. AxisInv(at.axis) /\ (Recognizable(at.axis) => Pure(at.axis, maps[at.axis]))
    BY <2>1, NewLineType DEF AccInv, LatticeInv
  <2> QED
    BY <2>1, <2>2, StartPure, PutMapPure
<1>4. CASE MergeLine
  <2>1. pc = "average" /\ at.grid # 1 /\ at.grid \in 1..Count
        /\ PutMap(insertLine(maps[at.axis], NewLine, Referee, LIMIT(at.axis)))
    BY <1>1, <1>4 DEF MergeLine
  <2>2. AxisInv(at.axis) /\ (Recognizable(at.axis) => Pure(at.axis, maps[at.axis]))
    BY <2>1, NewLineType DEF AccInv, LatticeInv
  <2> QED
    BY <2>1, <2>2, MergePure, PutMapPure
<1>5. CASE FinishAverage
  <2>1. /\ pc # "linegrids" /\ pointGridList' = pointGridList /\ linegrids' = linegrids
        /\ at' = at /\ maps' = maps /\ target' = TargetOf(maps, linegrids) /\ mappers' = MappersOf(maps, linegrids)
        /\ at.grid > Count
    BY <1>1, <1>5 DEF FinishAverage, inputs
  <2>2. at.grid = Count + 1
    BY <1>1, <2>1 DEF TypeInv, AtInv
  <2> QED
    BY <2>1, <2>2, UnchangedPure
<1>6. CASE \/ CalibrateRotation \/ CalibrateTranslation \/ \E lens \in clusters : AddLens(lens)
           \/ Construct \/ Store \/ Read
  <2>1. /\ pc \notin {"linegrids", "average"} /\ pointGridList' = pointGridList /\ linegrids' = linegrids
        /\ at' = at /\ maps' = maps /\ target' = target /\ mappers' = mappers
    BY <1>6 DEF CalibrateRotation, CalibrateTranslation, AddLens, Construct, Store, Read, inputs, average
  <2>2. at'.grid = Count + 1 /\ target' = TargetOf(maps, linegrids) /\ mappers' = MappersOf(maps, linegrids)
    BY <2>1 DEF LatticeInv
  <2> QED
    BY <2>1, <2>2, UnchangedPure
<1>7. CASE UNCHANGED vars
  <2>1. /\ pc' = pc /\ pointGridList' = pointGridList /\ linegrids' = linegrids /\ at' = at /\ maps' = maps
        /\ target' = target /\ mappers' = mappers
    BY <1>7 DEF vars, inputs, average
  <2>2. CASE pc = "linegrids"
    BY <2>1, <2>2 DEF LatticeInv
  <2>3. CASE pc # "linegrids"
    BY <2>1, <2>3, UnchangedPure DEF LatticeInv
  <2> QED
    BY <2>2, <2>3
<1> QED
  BY <1>2, <1>3, <1>4, <1>5, <1>6, <1>7 DEF Next

LEMMA LatticeInvariant == Spec => [](TypeInv /\ AccInv /\ LatticeInv)
<1>1. Init => LatticeInv
  BY DEF Init, LatticeInv
<1>2. TypeInv /\ AccInv /\ LatticeInv /\ [Next]_vars => LatticeInv'
  BY NextPure
<1> QED
  BY <1>1, <1>2, AccountInvariant, PTL DEF Spec

-----------------------------------------------------------------------------
(* What averageGrids returns, once it has met all lines. *)

IdIn(axis, e) == CHOOSE id \in Int : OfId(axis, e, id)

Finished(axis, map) ==
    /\ Recognizable(axis) /\ Accounted(axis, map, AllLines(axis)) /\ Pure(axis, map) /\ MapOK(map)

LEMMA InjectiveLength ==
    ASSUME NEW S, NEW s \in Seq(S), IsInjective(s)
    PROVE  Cardinality(ToSet(s)) = Len(s)
<1>1. Len(s) \in Nat /\ DOMAIN s = 1..Len(s)
  BY LenProperties
<1>2. ToSet(s) = {s[k] : k \in 1..Len(s)}
  BY <1>1 DEF ToSet
<1>3. s \in [1..Len(s) -> ToSet(s)]
  BY <1>1, <1>2
<1>4. s \in Bijection(1..Len(s), ToSet(s))
  BY <1>1, <1>2, <1>3 DEF Bijection, Injection, Surjection, IsInjective
<1> QED
  BY <1>1, <1>4, FS_CountingElements DEF ExistsBijection

LEMMA FinalEntry ==
    ASSUME InputInv, pc # "linegrids", NEW axis \in Axes, NEW map, Finished(axis, map), NEW e \in map
    PROVE  /\ IdIn(axis, e) \in Int /\ OfId(axis, e, IdIn(axis, e))
           /\ ToSet(e.referees) = Copies(axis, IdIn(axis, e))
           /\ \E r \in AllLines(axis) : IdOf(axis, r) = IdIn(axis, e)
           /\ e.counter = Cardinality(Copies(axis, IdIn(axis, e))) /\ e.counter \in Nat
<1>1. EntryOK(axis, e) /\ \E id \in Int : OfId(axis, e, id)
  BY DEF Finished, Accounted, Pure
<1>2. PICK id \in Int : id = IdIn(axis, e) /\ OfId(axis, e, id)
  BY <1>1 DEF IdIn
<1>3. ToSet(e.referees) \subseteq AllLines(axis) /\ ToSet(e.referees) # {}
  BY <1>1, RefereesOfEntry
<1>4. \A r \in AllLines(axis) : \E f \in map : r \in ToSet(f.referees)
  <2>1. UNION {ToSet(f.referees) : f \in map} = AllLines(axis)
    BY DEF Finished, Accounted
  <2> QED
    BY <2>1
<1>5. ASSUME NEW r \in AllLines(axis), IdOf(axis, r) = id
      PROVE  r \in ToSet(e.referees)
  <2>1. PICK f \in map : r \in ToSet(f.referees)
    BY <1>4
  <2>2. PICK q \in ToSet(e.referees) : IdOf(axis, q) = id
    BY <1>2, <1>3 DEF OfId
  <2>3. f = e
    BY <1>5, <2>1, <2>2 DEF Finished, Pure
  <2> QED
    BY <2>1, <2>3
<1>6. ToSet(e.referees) = Copies(axis, id)
  BY <1>2, <1>3, <1>5 DEF Copies, OfId, IdOf
<1>7. e.counter = Cardinality(ToSet(e.referees)) /\ e.counter \in Nat
  BY <1>1, InjectiveLength DEF EntryOK
<1>8. \E r \in AllLines(axis) : IdOf(axis, r) = id
  BY <1>2, <1>3 DEF OfId
<1> QED
  BY <1>2, <1>6, <1>7, <1>8

(* Entries are in the order of their lines of lenses. *)
LEMMA FinalOrder ==
    ASSUME InputInv, pc # "linegrids", NEW axis \in Axes, NEW map, Finished(axis, map), NEW e \in map, NEW f \in map
    PROVE  /\ IdIn(axis, e) < IdIn(axis, f) => Less(Position(e), Position(f))
           /\ IdIn(axis, e) = IdIn(axis, f) => e = f
           /\ Less(Position(e), Position(f)) => IdIn(axis, e) < IdIn(axis, f)
<1>1. Sound(axis) /\ Regular(axis)
  BY DEF Finished, Recognizable
<1>2. ASSUME NEW a \in map, NEW b \in map, IdIn(axis, a) < IdIn(axis, b)
      PROVE  Less(Position(a), Position(b))
  <2>1. EntryOK(axis, a) /\ EntryOK(axis, b) /\ Spanned(axis, a) /\ Spanned(axis, b)
    BY DEF Finished, Accounted, Pure
  <2>2. PICK hi \in ToSet(a.referees) : AtMost(Position(a), PositionOf(axis, hi))
    BY <2>1 DEF Spanned
  <2>3. PICK lo \in ToSet(b.referees) : AtMost(PositionOf(axis, lo), Position(b))
    BY <2>1 DEF Spanned
  <2>4. hi \in AllLines(axis) /\ lo \in AllLines(axis)
    BY <2>1, RefereesOfEntry
  <2>5. IdOf(axis, hi) < IdOf(axis, lo)
    BY <1>2, FinalEntry DEF OfId
  <2>6. Less(PositionOf(axis, hi), PositionOf(axis, lo))
    BY <1>1, <2>4, <2>5, RegularFacts
  <2>7. PICK p \in Proper, q \in Proper, h \in Proper, l \in Proper :
           p = Position(a) /\ q = Position(b) /\ h = PositionOf(axis, hi) /\ l = PositionOf(axis, lo)
    BY <1>1, <2>1, <2>4, SoundPositions DEF EntryOK
  <2>8. Less(p, l)
    BY <2>2, <2>6, <2>7, AtMostOrder
  <2>9. Less(p, q)
    BY <2>3, <2>7, <2>8, AtMostOrder
  <2> QED
    BY <2>7, <2>9
<1>3. IdIn(axis, e) = IdIn(axis, f) => e = f
  <2>1. PICK q \in ToSet(e.referees), r \in ToSet(f.referees) : TRUE
    BY RefereesOfEntry DEF Finished, Accounted
  <2>2. IdOf(axis, q) = IdIn(axis, e) /\ IdOf(axis, r) = IdIn(axis, f)
    BY FinalEntry DEF OfId
  <2> QED
    BY <2>2 DEF Finished, Pure
<1>4. Less(Position(e), Position(f)) => IdIn(axis, e) < IdIn(axis, f)
  <2>1. IdIn(axis, e) \in Int /\ IdIn(axis, f) \in Int
    BY FinalEntry
  <2>2. Position(e) \in Fraction /\ Position(f) \in Fraction
    BY DEF Finished, Accounted, EntryOK, Proper
  <2>3. Less(Position(e), Position(f)) => ~Less(Position(f), Position(e)) /\ e # f
    BY <2>2, LessOrder
  <2> QED
    BY <1>2, <1>3, <2>1, <2>3
<1> QED
  BY <1>2, <1>3, <1>4

LEMMA KeptCommon ==
    ASSUME InputInv, pc # "linegrids", NEW axis \in Axes, NEW map, Finished(axis, map)
    PROVE  /\ \A e \in map : e \in Kept(map, Count) <=> IdIn(axis, e) \in Common(axis)
           /\ \A id \in Common(axis) : \E e \in Kept(map, Count) : IdIn(axis, e) = id
           /\ Common(axis) \subseteq Int
<1>1. Count \in Nat /\ Count = Len(pointGridList)
  BY CountFacts DEF Count
<1>2. ASSUME NEW e \in map
      PROVE  e \in Kept(map, Count) <=> IdIn(axis, e) \in Common(axis)
  <2>1. PICK n \in Nat : n = e.counter /\ n = Cardinality(Copies(axis, IdIn(axis, e)))
    BY FinalEntry
  <2>2. n > Count \div 2 <=> 2 * n > Count
    BY <1>1, Halves
  <2>3. IdIn(axis, e) \in {LineOf(axis, r).id : r \in AllLines(axis)}
    BY FinalEntry DEF IdOf
  <2> QED
    BY <1>1, <2>1, <2>2, <2>3 DEF Kept, Common
<1>3. ASSUME NEW id \in Common(axis)
      PROVE  (\E e \in Kept(map, Count) : IdIn(axis, e) = id) /\ id \in Int
  <2>1. PICK r \in AllLines(axis) : id = IdOf(axis, r)
    BY DEF Common, IdOf
  <2>2. PICK e \in map : r \in ToSet(e.referees)
    <3>1. UNION {ToSet(f.referees) : f \in map} = AllLines(axis)
      BY DEF Finished, Accounted
    <3> QED
      BY <3>1
  <2>3. IdIn(axis, e) = id /\ IdIn(axis, e) \in Int
    BY <2>1, <2>2, FinalEntry DEF OfId
  <2> QED
    BY <1>2, <2>3
<1> QED
  BY <1>2, <1>3

LEMMA KeptIndex ==
    ASSUME InputInv, pc # "linegrids", NEW axis \in Axes, NEW map, Finished(axis, map), NEW kept, kept = Kept(map, Count)
    PROVE  /\ MapOK(kept) /\ kept \subseteq map
           /\ Cardinality(kept) = Cardinality(Common(axis))
           /\ \A e \in kept : Rank(kept, Below(kept), e) = Cardinality({c \in Common(axis) : c < IdIn(axis, e)})
<1>1. MapOK(kept) /\ kept \subseteq map /\ IsFiniteSet(kept)
  BY KeptOK DEF Finished, Kept, MapOK
<1>2. /\ \A e \in kept : IdIn(axis, e) \in Common(axis)
      /\ \A id \in Common(axis) : \E e \in kept : IdIn(axis, e) = id
  BY <1>1, KeptCommon
<1>3. \A e, f \in kept : IdIn(axis, e) = IdIn(axis, f) => e = f
  BY <1>1, FinalOrder
<1>4. ASSUME NEW S \in SUBSET kept, NEW T \in SUBSET Common(axis),
             \A e \in S : IdIn(axis, e) \in T, \A id \in T : \E e \in S : IdIn(axis, e) = id
      PROVE  Cardinality(T) = Cardinality(S)
  <2> DEFINE h == [e \in S |-> IdIn(axis, e)]
  <2>1. h \in [S -> T] /\ DOMAIN h = S /\ \A e \in S : h[e] = IdIn(axis, e)
    BY <1>4
  <2> HIDE DEF h
  <2>2. h \in Bijection(S, T)
    <3>1. h \in Injection(S, T)
      BY <1>3, <2>1 DEF Injection, IsInjective
    <3>2. h \in Surjection(S, T)
      BY <1>4, <2>1 DEF Surjection
    <3> QED
      BY <3>1, <3>2 DEF Bijection
  <2>3. IsFiniteSet(S)
    BY <1>1, FS_Subset
  <2> QED
    BY <2>2, <2>3, FS_Bijection DEF ExistsBijection
<1>5. Cardinality(kept) = Cardinality(Common(axis))
  BY <1>2, <1>4
<1>6. ASSUME NEW e \in kept
      PROVE  Rank(kept, Below(kept), e) = Cardinality({c \in Common(axis) : c < IdIn(axis, e)})
  <2> DEFINE S == {f \in kept : <<f, e>> \in Below(kept)}
             T == {c \in Common(axis) : c < IdIn(axis, e)}
  <2>1. \A f \in kept : f \in S <=> IdIn(axis, f) < IdIn(axis, e)
    <3>1. \A f \in kept : <<f, e>> \in Below(kept) <=> Less(Position(f), Position(e))
      BY DEF Below, Position
    <3> QED
      BY <1>1, <3>1, FinalOrder
  <2>2. \A f \in S : IdIn(axis, f) \in T
    BY <1>2, <2>1
  <2>3. \A id \in T : \E f \in S : IdIn(axis, f) = id
    BY <1>2, <2>1
  <2>4. S \in SUBSET kept /\ T \in SUBSET Common(axis) /\ Rank(kept, Below(kept), e) = Cardinality(S)
    BY DEF Rank
  <2> HIDE DEF S, T
  <2>5. Cardinality(T) = Cardinality(S)
    BY <1>4, <2>2, <2>3, <2>4
  <2> QED
    BY <2>4, <2>5 DEF T
<1> QED
  BY <1>1, <1>5, <1>6

(* The mapping of a line: where its entry is, if that was kept. *)
Homes(kept, r) == {k \in DOMAIN kept : r \in ToSet(kept[k].referees)}
Place(homes) == IF homes = {} THEN 1 ELSE CHOOSE k \in homes : \A l \in homes : l <= k

LEMMA MappingAt ==
    ASSUME InputInv, pc # "linegrids", NEW m, \A a \in Axes : MapOK(m[a]), NEW axis \in Axes,
           NEW g \in 1..Count, NEW n \in 1..Len(pointGridList[g][axis]), NEW kept, kept = Kept(m[axis], Count)
    PROVE  /\ MappersOf(m, linegrids)[g][axis][n] = Place(Homes(Ascending(kept), <<g, n>>))
           /\ DOMAIN Ascending(kept) = 1..Cardinality(kept)
<1>1. DOMAIN linegrids = 1..Count /\ Len(linegrids) = Count
  BY CountFacts DEF InputInv
<1>2. Len(linegrids[g][axis]) = Len(pointGridList[g][axis])
  BY LineGrids
<1>3. MapOK(kept)
  BY KeptOK
<1>4. KeptLines(m[axis], Len(linegrids)) = Ascending(kept) /\ DOMAIN Ascending(kept) = 1..Cardinality(kept)
  BY <1>1, <1>3, AscendingOrder DEF KeptLines
<1>5. MappersOf(m, linegrids)[g][axis] = Mapping(Ascending(kept), g, Len(pointGridList[g][axis]))
  BY <1>1, <1>2, <1>4 DEF MappersOf
<1>6. Mapping(Ascending(kept), g, Len(pointGridList[g][axis])) =
         [k \in 1..Len(pointGridList[g][axis]) |-> Place(Homes(Ascending(kept), <<g, k>>))]
  BY Zenon DEF Mapping, Homes, Place
<1> QED
  BY <1>4, <1>5, <1>6

LEMMA MetAll ==
    ASSUME TypeInv, at.grid = Count + 1, NEW axis \in Axes
    PROVE  Met(axis) = AllLines(axis)
<1>1. InputInv /\ Count \in Nat
  BY CountFacts DEF TypeInv
<1>2. ASSUME NEW r \in AllLines(axis)
      PROVE  r[1] < at.grid
  <2>1. PICK g \in 1..Count : \E k \in 1..Len(pointGridList[g][axis]) : r = <<g, k>>
    BY <1>1, AllLinesFacts
  <2> QED
    BY <1>1, <2>1
<1> QED
  BY <1>2 DEF Met

LEMMA LatticeFinished ==
    ASSUME TypeInv, AccInv, LatticeInv, pc \notin {"linegrids", "average"}, NEW axis \in Axes, Recognizable(axis)
    PROVE  Finished(axis, maps[axis])
<1>1. InputInv /\ pc # "linegrids" /\ Sound(axis) /\ Regular(axis) /\ at.grid = Count + 1
  BY DEF TypeInv, Recognizable, LatticeInv
<1>2. Met(axis) \ Repeated(axis) = AllLines(axis)
  BY <1>1, MetAll, NoneRepeated
<1> QED
  BY <1>1, <1>2 DEF Finished, AccInv, AxisInv, LatticeInv, TypeInv, MapInv

(* The index in the target of a line that was kept. *)
Index(axis, id) == Cardinality({c \in Common(axis) : c < id}) + 1

LEMMA LatticeFound ==
    ASSUME TypeInv, AccInv, LatticeInv, pc \notin {"linegrids", "average"}, NEW axis \in Axes, Recognizable(axis)
    PROVE  /\ Len(target[axis]) = Cardinality(Common(axis))
           /\ \A id \in Common(axis) : Index(axis, id) \in 1..Len(target[axis])
           /\ \A id \in Common(axis) : \E e \in maps[axis] :
                 /\ IsInjective(e.referees) /\ ToSet(e.referees) = Copies(axis, id)
                 /\ Same(target[axis][Index(axis, id)].position, MeanPosition(axis, e.referees))
           /\ \A r \in AllLines(axis) :
                 mappers[r[1]][axis][r[2]] =
                     IF LineOf(axis, r).id \in Common(axis) THEN Index(axis, LineOf(axis, r).id) ELSE 1
<1>1. InputInv /\ pc # "linegrids" /\ Count \in Nat /\ Len(linegrids) = Count
  BY CountFacts DEF TypeInv, InputInv
<1>2. PICK map : map = maps[axis] /\ Finished(axis, map) /\ \A a \in Axes : MapOK(maps[a])
  BY LatticeFinished DEF TypeInv, MapInv
<1>3. PICK kept : kept = Kept(map, Count)
  OBVIOUS
<1>4. /\ MapOK(kept) /\ kept \subseteq map
      /\ Cardinality(kept) = Cardinality(Common(axis))
      /\ \A e \in kept : Rank(kept, Below(kept), e) + 1 = Index(axis, IdIn(axis, e))
  BY <1>1, <1>2, <1>3, KeptIndex DEF Index
<1>5. /\ Cardinality(kept) \in Nat
      /\ \A k \in 1..Cardinality(kept) : Ascending(kept)[k] \in kept /\ Rank(kept, Below(kept), Ascending(kept)[k]) = k - 1
      /\ \A e \in kept : /\ Index(axis, IdIn(axis, e)) \in 1..Cardinality(kept)
                         /\ Ascending(kept)[Index(axis, IdIn(axis, e))] = e
  BY <1>4, AscendingOrder
<1>6. /\ Len(target[axis]) = Cardinality(kept)
      /\ \A k \in 1..Cardinality(kept) : target[axis][k] = Ascending(kept)[k].line
  BY <1>1, <1>2, <1>3, TargetType DEF LatticeInv
<1>7. ASSUME NEW id \in Common(axis)
      PROVE  /\ Index(axis, id) \in 1..Len(target[axis])
             /\ \E e \in maps[axis] :
                   /\ IsInjective(e.referees) /\ ToSet(e.referees) = Copies(axis, id)
                   /\ Same(target[axis][Index(axis, id)].position, MeanPosition(axis, e.referees))
  <2>1. PICK e \in kept : IdIn(axis, e) = id
    BY <1>1, <1>2, <1>3, KeptCommon
  <2>2. ToSet(e.referees) = Copies(axis, id)
    BY <1>1, <1>2, <1>4, <2>1, FinalEntry
  <2>3. target[axis][Index(axis, id)] = e.line /\ Index(axis, id) \in 1..Len(target[axis])
    BY <1>5, <1>6, <2>1
  <2>4. IsInjective(e.referees) /\ Same(e.line.position, MeanPosition(axis, e.referees))
    BY <1>2, <1>4 DEF Finished, Accounted, EntryOK, Position
  <2> QED
    BY <1>2, <1>4, <2>2, <2>3, <2>4
<1>8. ASSUME NEW r \in AllLines(axis)
      PROVE  mappers[r[1]][axis][r[2]] =
                 IF IdOf(axis, r) \in Common(axis) THEN Index(axis, IdOf(axis, r)) ELSE 1
  <2>0. PICK g \in 1..Count : \E n \in 1..Len(pointGridList[g][axis]) : r = <<g, n>>
    BY <1>1, AllLinesFacts
  <2>1. PICK n \in 1..Len(pointGridList[g][axis]) : r = <<g, n>>
    BY <2>0
  <2> DEFINE homes == Homes(Ascending(kept), r)
  <2>2. mappers[g][axis][n] = Place(homes) /\ DOMAIN Ascending(kept) = 1..Cardinality(kept)
    <3>1. mappers = MappersOf(maps, linegrids)
      BY DEF LatticeInv
    <3>2. kept = Kept(maps[axis], Count)
      BY <1>2, <1>3
    <3> QED
      BY <1>1, <1>2, <2>1, <3>1, <3>2, MappingAt
  <2>3. ASSUME NEW k \in homes
        PROVE  IdOf(axis, r) \in Common(axis) /\ k = Index(axis, IdOf(axis, r))
    <3>1. PICK e \in kept : e = Ascending(kept)[k] /\ r \in ToSet(e.referees) /\ Rank(kept, Below(kept), e) = k - 1
      BY <1>5, <2>2 DEF Homes
    <3>2. IdIn(axis, e) = IdOf(axis, r) /\ IdIn(axis, e) \in Common(axis)
      <4>1. OfId(axis, e, IdIn(axis, e))
        BY <1>1, <1>2, <1>4, FinalEntry
      <4>2. IdIn(axis, e) \in Common(axis)
        BY <1>1, <1>2, <1>3, <1>4, KeptCommon
      <4> QED
        BY <3>1, <4>1, <4>2 DEF OfId
    <3>3. k = Index(axis, IdIn(axis, e))
      <4>1. k \in Nat
        BY <1>5, <2>2 DEF Homes
      <4>2. Rank(kept, Below(kept), e) + 1 = k
        BY <3>1, <4>1
      <4> QED
        BY <1>4, <4>2
    <3> QED
      BY <3>2, <3>3
  <2>4. ASSUME IdOf(axis, r) \in Common(axis)
        PROVE  Index(axis, IdOf(axis, r)) \in homes
    <3>1. PICK e \in kept : IdIn(axis, e) = IdOf(axis, r)
      BY <1>1, <1>2, <1>3, <2>4, KeptCommon
    <3>2. r \in ToSet(e.referees)
      <4>1. ToSet(e.referees) = Copies(axis, IdOf(axis, r))
        BY <1>1, <1>2, <1>4, <3>1, FinalEntry
      <4> QED
        BY <4>1 DEF Copies, IdOf
    <3>3. /\ Index(axis, IdOf(axis, r)) \in 1..Cardinality(kept)
          /\ Ascending(kept)[Index(axis, IdOf(axis, r))] = e
      BY <1>5, <3>1
    <3> QED
      BY <2>2, <3>2, <3>3 DEF Homes
  <2> HIDE DEF homes
  <2>5. CASE IdOf(axis, r) \in Common(axis)
    <3>1. homes = {Index(axis, IdOf(axis, r))} /\ Index(axis, IdOf(axis, r)) \in Nat
      <4>1. Index(axis, IdOf(axis, r)) \in 1..Cardinality(kept)
        BY <2>2, <2>4, <2>5 DEF homes, Homes
      <4> QED
        BY <2>3, <2>4, <2>5, <4>1
    <3>2. PICK i \in Nat : i = Index(axis, IdOf(axis, r)) /\ homes = {i}
      BY <3>1
    <3>3. Place(homes) = i
      BY <3>2 DEF Place
    <3> QED
      BY <2>1, <2>2, <2>5, <3>2, <3>3
  <2>6. CASE IdOf(axis, r) \notin Common(axis)
    <3>1. homes = {}
      BY <2>3, <2>6
    <3> QED
      BY <2>1, <2>2, <2>6, <3>1 DEF Place
  <2> QED
    BY <2>5, <2>6
<1> QED
  BY <1>4, <1>6, <1>7, <1>8 DEF IdOf

(* averageGrids finds the lines of lenses again, in any number of images   *)
(* of one array: its target has the lines that most images show, in order  *)
(* and at the mean of their positions, and its mappers lead every line     *)
(* there.                                                                  *)
THEOREM LatticeCorrect == Spec => []LatticeAveraged
<1>1. TypeInv /\ AccInv /\ LatticeInv => LatticeAveraged
  BY LatticeFound DEF LatticeAveraged, Index
<1> QED
  BY <1>1, LatticeInvariant, PTL

-----------------------------------------------------------------------------
(* The lines calibrateTranslation reads. *)

LEMMA GreatestPlace ==
    ASSUME NEW n \in Nat, NEW S \in SUBSET (1..n), S # {}
    PROVE  \E k \in S : \A l \in S : l <= k
<1> DEFINE T == {n - k : k \in S}
<1>1. T \in SUBSET Nat /\ T # {}
  <2>1. \A k \in S : n - k \in Nat
    OBVIOUS
  <2> QED
    BY <2>1
<1>2. PICK t \in T : \A u \in T : t <= u
  BY <1>1, LeastNat
<1>3. PICK k \in S : t = n - k
  OBVIOUS
<1>4. \A l \in S : n - k <= n - l
  BY <1>2, <1>3
<1> QED
  BY <1>4

LEMMA LinesReadable ==
    ASSUME TypeInv, LatticeInv, pc \notin {"linegrids", "average"}, NEW axis \in Axes, Sound(axis),
           target[axis] # << >>, NEW g \in 1..Count
    PROVE  Readable(pointGridList[g][axis], target[axis], mappers[g][axis])
<1>1. InputInv /\ pc # "linegrids" /\ Count \in Nat /\ Len(linegrids) = Count
  BY CountFacts DEF TypeInv, InputInv
<1>2. PICK lines \in Seq(PointLines) : lines = pointGridList[g][axis]
  BY <1>1, PointGridLines
<1>3. PICK kept : kept = Kept(maps[axis], Count) /\ MapOK(kept)
  BY KeptOK DEF TypeInv, MapInv
<1>4. target = TargetOf(maps, linegrids) /\ mappers = MappersOf(maps, linegrids) /\ \A a \in Axes : MapOK(maps[a])
  BY DEF LatticeInv, TypeInv, MapInv
<1>5. target[axis] \in Seq(Lines) /\ Len(target[axis]) = Cardinality(kept)
  BY <1>1, <1>3, <1>4, TargetType
<1>6. PICK count \in Nat : count = Cardinality(kept) /\ count > 0 /\ DOMAIN target[axis] = 1..count
  <2>1. PICK t \in Seq(Lines) : t = target[axis] /\ t # << >>
    BY <1>5
  <2>2. Len(t) \in Nat /\ Len(t) > 0 /\ DOMAIN t = 1..Len(t)
    BY <2>1
  <2> QED
    BY <1>5, <2>1, <2>2
<1>7. ASSUME NEW n \in 1..Len(lines)
      PROVE  lines[n].line # << >> /\ mappers[g][axis][n] \in 1..count
  <2>1. Len(LineOf(axis, <<g, n>>).line) > 1
    BY <1>1, <1>2, AllLinesFacts DEF Sound
  <2>2. lines[n].line # << >>
    <3>1. LineOf(axis, <<g, n>>) = lines[n]
      BY <1>2 DEF LineOf
    <3>2. Len(<< >>) = 0
      OBVIOUS
    <3> QED
      BY <2>1, <3>1, <3>2
  <2> DEFINE homes == Homes(Ascending(kept), <<g, n>>)
  <2>3. mappers[g][axis][n] = Place(homes) /\ homes \in SUBSET (1..count)
    <3>1. n \in 1..Len(pointGridList[g][axis])
      BY <1>2
    <3>2. mappers[g][axis][n] = Place(homes) /\ DOMAIN Ascending(kept) = 1..Cardinality(kept)
      BY <1>1, <1>3, <1>4, <3>1, MappingAt
    <3>3. homes \in SUBSET DOMAIN Ascending(kept)
      BY DEF Homes
    <3> QED
      BY <1>6, <3>2, <3>3
  <2> HIDE DEF homes
  <2>4. Place(homes) \in 1..count
    <3>1. CASE homes = {}
      BY <1>6, <3>1 DEF Place
    <3>2. CASE homes # {}
      <4>1. \E k \in homes : \A l \in homes : l <= k
        BY <2>3, <3>2, GreatestPlace
      <4> QED
        BY <2>3, <3>2, <4>1 DEF Place
    <3> QED
      BY <3>1, <3>2
  <2> QED
    BY <2>2, <2>3, <2>4
<1>8. DOMAIN lines = 1..Len(lines)
  BY <1>2
<1> QED
  BY <1>2, <1>6, <1>7, <1>8 DEF Readable

ReadInv ==
    pc = "undefined" =>
        \E g \in DOMAIN pointGridList : \E axis \in Axes :
            ~Readable(pointGridList[g][axis], target[axis], mappers[g][axis])

LEMMA NextRead ==
    ASSUME ReadInv, [Next]_vars
    PROVE  ReadInv'
<1>1. CASE CalibrateTranslation
  <2>1. /\ pointGridList' = pointGridList /\ target' = target /\ mappers' = mappers
    BY <1>1 DEF CalibrateTranslation, inputs, average
  <2>2. pc' = "undefined" =>
          \E g \in DOMAIN pointGridList : \E axis \in Axes :
              ~Readable(pointGridList[g][axis], target[axis], mappers[g][axis])
    BY <1>1 DEF CalibrateTranslation, Axes
  <2> QED
    BY <2>1, <2>2 DEF ReadInv, Readable
<1>2. CASE UNCHANGED vars
  <2>1. /\ pointGridList' = pointGridList /\ target' = target /\ mappers' = mappers /\ pc' = pc
    BY <1>2 DEF vars, inputs, average
  <2> QED
    BY <2>1 DEF ReadInv, Readable
<1>3. CASE \/ CreateLineGrids \/ StartAverage \/ MergeLine \/ FinishAverage \/ CalibrateRotation
           \/ Construct \/ Store \/ Read \/ \E lens \in clusters : AddLens(lens)
  <2>1. pc' # "undefined"
    BY <1>3 DEF CreateLineGrids, StartAverage, MergeLine, PutMap, FinishAverage, CalibrateRotation, AddLens,
                Construct, Store, Read
  <2> QED
    BY <2>1 DEF ReadInv
<1> QED
  BY <1>1, <1>2, <1>3 DEF Next

(* calibrateTranslation reads no line that is not there, unless a point    *)
(* grid has a line without a position, or no line is left in the target;   *)
(* with images of one array this takes that no line is in most of them.    *)
THEOREM ReadsCorrect == Spec => []ReadsExplained
<1>1. TypeInv /\ AccInv /\ LatticeInv /\ ReadInv => ReadsExplained
  <2> SUFFICES ASSUME TypeInv, AccInv, LatticeInv, ReadInv, pc = "undefined"
               PROVE  \E axis \in Axes : \/ ~Sound(axis)
                                         \/ target[axis] = << >> /\ (Recognizable(axis) => Common(axis) = {})
    BY DEF ReadsExplained
  <2>1. PICK g \in DOMAIN pointGridList : \E axis \in Axes :
            ~Readable(pointGridList[g][axis], target[axis], mappers[g][axis])
    BY DEF ReadInv
  <2>2. PICK axis \in Axes : ~Readable(pointGridList[g][axis], target[axis], mappers[g][axis])
    BY <2>1
  <2>3. g \in 1..Count /\ InputInv /\ pc # "linegrids" /\ Len(linegrids) = Count
    BY CountFacts DEF TypeInv, InputInv
  <2>4. CASE ~Sound(axis)
    BY <2>4
  <2>5. CASE Sound(axis)
    <3>1. target[axis] = << >>
      BY <2>2, <2>3, <2>5, LinesReadable
    <3>2. ASSUME Recognizable(axis), Common(axis) # {} PROVE FALSE
      <4>1. Finished(axis, maps[axis])
        BY <3>2, LatticeFinished
      <4>2. PICK e : e \in Kept(maps[axis], Count)
        BY <2>3, <3>2, <4>1, KeptCommon
      <4>3. Len(target[axis]) = Cardinality(Kept(maps[axis], Count))
        BY <2>3, TargetType DEF LatticeInv, TypeInv, MapInv
      <4>4. Cardinality(Kept(maps[axis], Count)) # 0
        <5>1. IsFiniteSet(Kept(maps[axis], Count))
          BY KeptOK DEF TypeInv, MapInv, MapOK
        <5> QED
          BY <4>2, <5>1, FS_EmptySet
      <4> QED
        BY <3>1, <4>3, <4>4
    <3> QED
      BY <3>1, <3>2
  <2> QED
    BY <2>4, <2>5
<1>2. Init => ReadInv
  BY DEF Init, ReadInv
<1>3. ReadInv /\ [Next]_vars => ReadInv'
  BY NextRead
<1> QED
  BY <1>1, <1>2, <1>3, LatticeInvariant, PTL DEF Spec

-----------------------------------------------------------------------------
(* Sums of whole numbers. *)

LEMMA UpTo ==
    ASSUME NEW n \in Nat, NEW T, 0 \in T, \A k \in 1..n : k - 1 \in T => k \in T
    PROVE  \A k \in 0..n : k \in T
<1> DEFINE Bad == {k \in 0..n : k \notin T}
<1> SUFFICES ASSUME Bad # {} PROVE FALSE
  OBVIOUS
<1>1. PICK k \in Bad : \A m \in Bad : k <= m
  <2>1. Bad \in SUBSET Nat
    OBVIOUS
  <2> HIDE DEF Bad
  <2> QED
    BY <2>1, LeastNat
<1>2. k \in 1..n /\ k - 1 \in 0..n /\ ~(k <= k - 1)
  OBVIOUS
<1>3. k - 1 \in T
  BY <1>1, <1>2
<1> QED
  BY <1>2, <1>3

(* s are the sums of the first whole numbers of f. *)
Adds(s, f, n) == s \in [0..n -> Int] /\ s[0] = 0 /\ \A k \in 1..n : s[k] = s[k - 1] + f[k]

LEMMA AddsExists ==
    ASSUME NEW n \in Nat, NEW f \in [1..n -> Int]
    PROVE  \E s : Adds(s, f, n)
<1> DEFINE T == {m \in 0..n : \E s : Adds(s, f, m)}
<1>1. 0 \in T
  <2>1. Adds([k \in 0..0 |-> 0], f, 0)
    BY DEF Adds
  <2> QED
    BY <2>1
<1>2. ASSUME NEW m \in 1..n, m - 1 \in T
      PROVE  m \in T
  <2>1. PICK s : Adds(s, f, m - 1)
    BY <1>2
  <2>2. m - 1 \in Nat /\ m \in Nat /\ f[m] \in Int /\ s[m - 1] \in Int
    BY <2>1 DEF Adds
  <2> DEFINE t == [k \in 0..m |-> IF k = m THEN s[m - 1] + f[m] ELSE s[k]]
  <2>3. \A k \in 0..m : k # m => k \in 0..(m - 1)
    BY <2>2
  <2>4. t \in [0..m -> Int] /\ t[0] = 0
    BY <2>1, <2>2, <2>3 DEF Adds
  <2>5. \A k \in 1..m : t[k] = t[k - 1] + f[k]
    <3> SUFFICES ASSUME NEW k \in 1..m PROVE t[k] = t[k - 1] + f[k]
      OBVIOUS
    <3>1. k - 1 \in 0..m /\ k - 1 # m /\ k \in 0..m
      BY <2>2
    <3>2. t[k - 1] = s[k - 1]
      BY <3>1
    <3>3. CASE k = m
      BY <3>1, <3>2, <3>3
    <3>4. CASE k # m
      <4>1. k \in 1..(m - 1)
        BY <2>2, <3>4
      <4> QED
        BY <2>1, <3>1, <3>2, <3>4, <4>1 DEF Adds
    <3> QED
      BY <3>3, <3>4
  <2> HIDE DEF t
  <2>6. Adds(t, f, m)
    BY <2>4, <2>5 DEF Adds
  <2> QED
    BY <2>6
<1>3. \A k \in 0..n : k \in T
  <2> HIDE DEF T
  <2> QED
    BY <1>1, <1>2, UpTo
<1> QED
  BY <1>3

(* A sum of numbers that are not negative is not negative; one of positive *)
(* numbers is positive.                                                    *)
LEMMA AddsSign ==
    ASSUME NEW n \in Nat, NEW f, NEW s, Adds(s, f, n), \A k \in 1..n : f[k] \in Int /\ f[k] >= 0
    PROVE  s[n] \in Int /\ s[n] >= 0 /\ ((n > 0 /\ \A k \in 1..n : f[k] > 0) => s[n] > 0)
<1> DEFINE T == {k \in 0..n : s[k] >= 0}
<1>1. \A k \in 0..n : s[k] \in Int
  BY DEF Adds
<1>2. 0 \in T
  BY DEF Adds
<1>3. ASSUME NEW k \in 1..n, k - 1 \in T
      PROVE  k \in T
  <2>1. s[k] = s[k - 1] + f[k] /\ f[k] \in Int /\ f[k] >= 0 /\ s[k - 1] \in Int /\ s[k - 1] >= 0
    BY <1>1, <1>3 DEF Adds
  <2> QED
    BY <2>1
<1>4. \A k \in 0..n : k \in T
  <2> HIDE DEF T
  <2> QED
    BY <1>2, <1>3, UpTo
<1>5. ASSUME n > 0, \A k \in 1..n : f[k] > 0
      PROVE  s[n] > 0
  <2>1. n \in 1..n /\ n - 1 \in 0..n
    BY <1>5
  <2>2. s[n] = s[n - 1] + f[n] /\ s[n - 1] >= 0 /\ s[n - 1] \in Int /\ f[n] > 0 /\ f[n] \in Int
    BY <1>1, <1>4, <1>5, <2>1 DEF Adds
  <2> QED
    BY <2>2
<1> QED
  BY <1>1, <1>4, <1>5

(* The products of a rescaled sum, whichever factor is taken first. *)
LEMMA Reassociated ==
  ASSUME NEW x \in Int, NEW y \in Int, NEW z \in Int
  PROVE  (x * y) * z = x * (y * z)
OBVIOUS

(* Sums are linear. *)
LEMMA Linear ==
    ASSUME NEW x \in Int, NEW y \in Int, NEW c \in Int, NEW a \in Int, NEW b \in Int, NEW d \in Int, NEW e \in Int,
           NEW k \in Int
    PROVE  x * (a + d) + y * (b + e) + c * k = (x * a + y * b + c * (k - 1)) + (x * d + y * e + c)
OBVIOUS

Weighed(x, a, y, b, c, n) == x * a + y * b + c * n

Combines(h, x, f, s, y, g, t, c, n) ==
    /\ n \in Nat /\ x \in Int /\ y \in Int /\ c \in Int
    /\ f \in [1..n -> Int] /\ g \in [1..n -> Int] /\ Adds(s, f, n) /\ Adds(t, g, n)
    /\ h \in [1..n -> Int]
    /\ \A k \in 1..n : h[k] = x * f[k] + y * g[k] + c

LEMMA AddsCombine ==
    ASSUME NEW n, NEW h, NEW x, NEW f, NEW s, NEW y, NEW g, NEW t, NEW c, Combines(h, x, f, s, y, g, t, c, n)
    PROVE  \E u : Adds(u, h, n) /\ u[n] = Weighed(x, s[n], y, t[n], c, n)
<1>0. /\ n \in Nat /\ x \in Int /\ y \in Int /\ c \in Int
      /\ f \in [1..n -> Int] /\ g \in [1..n -> Int] /\ Adds(s, f, n) /\ Adds(t, g, n)
      /\ h \in [1..n -> Int]
  BY DEF Combines
<1> USE <1>0
<1> DEFINE u == [k \in 0..n |-> x * s[k] + y * t[k] + c * k]
<1>1. \A k \in 0..n : s[k] \in Int /\ t[k] \in Int
  BY DEF Adds
<1>2. u \in [0..n -> Int]
  BY <1>1, SMTT(40)
<1>3. u[0] = 0
  <2>1. s[0] = 0 /\ t[0] = 0 /\ 0 \in 0..n
    BY DEF Adds
  <2> QED
    BY <2>1
<1>4. ASSUME NEW k \in 1..n
      PROVE  u[k] = u[k - 1] + h[k]
  <2>1. k - 1 \in 0..n /\ k \in 0..n /\ k \in Int
    OBVIOUS
  <2>2. PICK a \in Int, b \in Int, d \in Int, e \in Int : a = s[k - 1] /\ b = t[k - 1] /\ d = f[k] /\ e = g[k]
    BY <1>1, <2>1
  <2>3. s[k] = a + d /\ t[k] = b + e
    BY <2>2 DEF Adds
  <2>4. u[k] = x * (a + d) + y * (b + e) + c * k
    BY <2>1, <2>3
  <2>5. u[k - 1] = x * a + y * b + c * (k - 1)
    BY <2>1, <2>2
  <2>6. h[k] = x * d + y * e + c
    BY <2>2 DEF Combines
  <2> HIDE DEF u
  <2>7. a \in Int /\ b \in Int /\ d \in Int /\ e \in Int
    BY <2>2
  <2>8. x * (a + d) + y * (b + e) + c * k = (x * a + y * b + c * (k - 1)) + (x * d + y * e + c)
    BY <2>1, <2>7, Linear
  <2> QED
    BY <2>4, <2>5, <2>6, <2>8
<1>5. u[n] = Weighed(x, s[n], y, t[n], c, n)
  BY DEF Weighed
<1> HIDE DEF u
<1>6. Adds(u, h, n)
  BY <1>2, <1>3, <1>4 DEF Adds
<1> QED
  BY <1>5, <1>6

(* Some number is at most the mean, and some is at least the mean. *)
LEMMA Opposite ==
    ASSUME NEW n \in Int, NEW a \in Int
    PROVE  (-n) * a = -(n * a) /\ n * a + (-a) * n = 0 /\ (-n) * a + a * n = 0
OBVIOUS

LEMMA AddsMean ==
    ASSUME NEW n \in Nat, n > 0, NEW f \in [1..n -> Int], NEW s, Adds(s, f, n)
    PROVE  /\ \E k \in 1..n : n * f[k] <= s[n]
           /\ \E k \in 1..n : s[n] <= n * f[k]
<1>1. PICK S \in Int : S = s[n]
  BY DEF Adds
<1>2. \A k \in 1..n : f[k] \in Int /\ n * f[k] \in Int
  OBVIOUS
<1>3. ASSUME NEW x \in Int, NEW c \in Int, x * S + c * n = 0
      PROVE  ~\A k \in 1..n : x * f[k] + c > 0
  <2> SUFFICES ASSUME \A k \in 1..n : x * f[k] + c > 0 PROVE FALSE
    OBVIOUS
  <2> DEFINE h == [k \in 1..n |-> x * f[k] + c]
  <2>1. \A k \in 1..n : x * f[k] \in Int
    BY <1>2
  <2>2. h \in [1..n -> Int] /\ \A k \in 1..n : h[k] = x * f[k] + c
    BY <2>1
  <2> HIDE DEF h
  <2>3. PICK y \in Int : y = 0
    OBVIOUS
  <2>4. PICK u : Adds(u, h, n) /\ u[n] = x * s[n] + y * s[n] + c * n
    <3>1. \A k \in 1..n : h[k] = x * f[k] + y * f[k] + c
      <4> TAKE k \in 1..n
      <4>1. y * f[k] = 0
        BY <1>2, <2>3
      <4> QED
        BY <2>1, <2>2, <4>1
    <3>2. Combines(h, x, f, s, y, f, s, c, n)
      BY <2>2, <2>3, <3>1 DEF Combines
    <3>3. PICK u : Adds(u, h, n) /\ u[n] = Weighed(x, s[n], y, s[n], c, n)
      BY <3>2, AddsCombine
    <3> QED
      BY <3>3 DEF Weighed
  <2>5. u[n] = x * S + c * n
    <3>1. S \in Int
      BY <1>1
    <3>2. y * S = 0 /\ x * S \in Int
      BY <2>3, <3>1
    <3> QED
      BY <1>1, <2>4, <3>2, SMTT(40)
  <2>6. \A k \in 1..n : h[k] \in Int /\ h[k] > 0 /\ h[k] >= 0
    BY <2>2, SMTT(40)
  <2>7. u[n] > 0
    BY <2>4, <2>6, AddsSign
  <2> QED
    BY <1>3, <2>5, <2>7
<1>4. S \in Int
  BY <1>1
<1>5. ASSUME \A k \in 1..n : ~(n * f[k] <= S) PROVE FALSE
  <2>1. n * S + (-S) * n = 0 /\ -S \in Int /\ n \in Int
    BY <1>4, Opposite
  <2>2. \A k \in 1..n : n * f[k] + (-S) > 0
    <3> TAKE k \in 1..n
    <3>1. PICK z \in Int : z = n * f[k]
      BY <1>2
    <3>2. ~(z <= S)
      BY <1>5, <3>1
    <3> QED
      BY <1>4, <3>1, <3>2
  <2> QED
    BY <1>3, <2>1, <2>2
<1>6. ASSUME \A k \in 1..n : ~(S <= n * f[k]) PROVE FALSE
  <2>1. (-n) * S + S * n = 0 /\ -n \in Int
    BY <1>4, Opposite
  <2>2. \A k \in 1..n : (-n) * f[k] + S > 0
    <3> TAKE k \in 1..n
    <3>1. PICK z \in Int : z = n * f[k]
      BY <1>2
    <3>2. (-n) * f[k] = -z
      BY <1>2, <3>1, Opposite
    <3>3. ~(S <= z)
      BY <1>6, <3>1
    <3> QED
      BY <1>4, <3>1, <3>2, <3>3
  <2> QED
    BY <1>3, <1>4, <2>1, <2>2
<1> QED
  BY <1>1, <1>5, <1>6

(* Some number is at most two sigma from the mean: b are the sums of the   *)
(* squares.                                                                *)
LEMMA Binomial ==
    ASSUME NEW n \in Int, NEW a \in Int, NEW S \in Int
    PROVE  (n * a - S) * (n * a - S) = (n * n) * (a * a) + (-(2 * (n * S))) * a + S * S
OBVIOUS

LEMMA Deviations ==
    ASSUME NEW n \in Int, NEW B \in Int, NEW S \in Int
    PROVE  /\ (n * n) * B + (-(2 * (n * S))) * S + (S * S) * n = n * (n * B - S * S)
           /\ (n * n) * B + (-(2 * (n * S))) * S + (S * S - 4 * (n * B - S * S)) * n = -(3 * (n * (n * B - S * S)))
OBVIOUS

LEMMA SquarePositive ==
    ASSUME NEW z \in Int
    PROVE  z * z \in Int /\ z * z >= 0
OBVIOUS

LEMMA AddsNear ==
    ASSUME NEW n \in Nat, n > 0, NEW f \in [1..n -> Int], NEW s, Adds(s, f, n),
           NEW g \in [1..n -> Int], \A k \in 1..n : g[k] = f[k] * f[k], NEW b, Adds(b, g, n)
    PROVE  \E k \in 1..n : (n * f[k] - s[n]) * (n * f[k] - s[n]) <= 4 * (n * b[n] - s[n] * s[n])
<1>1. PICK S \in Int, B \in Int : S = s[n] /\ B = b[n]
  BY DEF Adds
<1>2. S \in Int /\ B \in Int /\ n \in Int
  BY <1>1
<1>3. PICK W \in Int : W = n * B - S * S
  BY <1>2
<1>4. PICK x \in Int, y \in Int, q \in Int : x = n * n /\ y = -(2 * (n * S)) /\ q = S * S
  BY <1>2
<1>5. W \in Int /\ x \in Int /\ y \in Int /\ q \in Int
  BY <1>3, <1>4
<1> DEFINE square(k) == (n * f[k] - S) * (n * f[k] - S)
<1>6. ASSUME NEW k \in 1..n
      PROVE  square(k) = x * g[k] + y * f[k] + q /\ square(k) >= 0 /\ square(k) \in Int
  <2>1. PICK a \in Int : a = f[k] /\ g[k] = a * a
    OBVIOUS
  <2>2. a \in Int
    BY <2>1
  <2>3. (n * a - S) * (n * a - S) = (n * n) * (a * a) + (-(2 * (n * S))) * a + S * S
    BY <1>2, <2>2, Binomial
  <2>4. n * a - S \in Int
    BY <1>2, <2>2
  <2>5. (n * a - S) * (n * a - S) >= 0 /\ (n * a - S) * (n * a - S) \in Int
    BY <2>4, SquarePositive
  <2> QED
    BY <1>4, <2>1, <2>3, <2>5
<1>7. x * B + y * S + q * n = n * W /\ x * B + y * S + (q - 4 * W) * n = -(3 * (n * W))
  BY <1>2, <1>3, <1>4, Deviations
<1>8. \A k \in 1..n : x * g[k] \in Int /\ y * f[k] \in Int
  BY <1>5
<1>9. ASSUME NEW c \in Int, \A k \in 1..n : x * g[k] + y * f[k] + c >= 0
      PROVE  /\ x * B + y * S + c * n >= 0
             /\ (\A k \in 1..n : x * g[k] + y * f[k] + c > 0) => x * B + y * S + c * n > 0
  <2> DEFINE h == [k \in 1..n |-> x * g[k] + y * f[k] + c]
  <2>1. h \in [1..n -> Int] /\ \A k \in 1..n : h[k] = x * g[k] + y * f[k] + c
    <3>1. \A k \in 1..n : x * g[k] + y * f[k] + c \in Int
      <4> TAKE k \in 1..n
      <4>1. PICK p \in Int, r \in Int : p = x * g[k] /\ r = y * f[k]
        BY <1>8
      <4> QED
        BY <4>1
    <3> QED
      BY <3>1
  <2> HIDE DEF h
  <2>2. PICK u : Adds(u, h, n) /\ u[n] = x * b[n] + y * s[n] + c * n
    <3>1. Combines(h, x, g, b, y, f, s, c, n)
      BY <1>5, <2>1 DEF Combines
    <3>2. PICK u : Adds(u, h, n) /\ u[n] = Weighed(x, b[n], y, s[n], c, n)
      BY <3>1, AddsCombine
    <3> QED
      BY <3>2 DEF Weighed
  <2>3. \A k \in 1..n : h[k] \in Int /\ h[k] >= 0
    BY <1>9, <2>1
  <2>4. u[n] >= 0 /\ ((\A k \in 1..n : h[k] > 0) => u[n] > 0)
    BY <2>2, <2>3, AddsSign
  <2> QED
    BY <1>1, <2>1, <2>2, <2>4
<1>10. W >= 0
  <2>1. \A k \in 1..n : x * g[k] + y * f[k] + q >= 0
    BY <1>6
  <2>2. n * W >= 0
    BY <1>5, <1>7, <1>9, <2>1
  <2> QED
    BY <1>5, <2>2
<1>11. ASSUME \A k \in 1..n : ~(square(k) <= 4 * W) PROVE FALSE
  <2>1. PICK c \in Int : c = q - 4 * W
    BY <1>5
  <2>2. ASSUME NEW k \in 1..n PROVE x * g[k] + y * f[k] + c > 0 /\ x * g[k] + y * f[k] + c >= 0
    <3>1. PICK z \in Int, p \in Int, r \in Int : z = square(k) /\ p = x * g[k] /\ r = y * f[k]
      BY <1>6, <1>8
    <3>2. z = p + r + q /\ ~(z <= 4 * W)
      BY <1>6, <1>11, <3>1
    <3>3. p + r + c > 0
      BY <1>5, <2>1, <3>2
    <3>4. p + r + c >= 0
      BY <2>1, <3>3
    <3> QED
      BY <3>1, <3>3, <3>4
  <2>3. x * B + y * S + c * n > 0
    BY <1>9, <2>2
  <2>4. -(3 * (n * W)) > 0
    BY <1>7, <2>1, <2>3
  <2>5. n * W >= 0 /\ n * W \in Int
    BY <1>5, <1>10
  <2> QED
    BY <2>4, <2>5
<1> QED
  BY <1>1, <1>3, <1>11

-----------------------------------------------------------------------------
(* Sums and means of fractions with a common denominator. *)

(* The values are a over D. *)
Scaled(v, a, D) ==
    /\ D \in Nat /\ D > 0 /\ a \in [1..Len(v) -> Int]
    /\ \A k \in 1..Len(v) : Is(v[k], a[k], D)

LEMMA ScaledExists ==
    ASSUME NEW v \in Seq(Proper)
    PROVE  \E D, a : Scaled(v, a, D)
<1> DEFINE upto(n, D, a) == /\ D \in Nat /\ D > 0 /\ a \in [1..n -> Int]
                            /\ \A k \in 1..n : Is(v[k], a[k], D)
           T == {n \in 0..Len(v) : \E D, a : upto(n, D, a)}
<1>1. Len(v) \in Nat /\ \A k \in 1..Len(v) : v[k] \in Proper
  OBVIOUS
<1>2. 0 \in T
  <2>1. upto(0, 1, [k \in 1..0 |-> 0])
    OBVIOUS
  <2>2. 1 \in Nat /\ 0 \in 0..Len(v)
    BY <1>1
  <2> QED
    BY <2>1, <2>2
<1>3. ASSUME NEW n \in 1..Len(v), n - 1 \in T
      PROVE  n \in T
  <2>0. \E D, a : upto(n - 1, D, a)
    BY <1>3
  <2>1. PICK D, a : upto(n - 1, D, a)
    BY <2>0
  <2>2. n \in Nat /\ n - 1 \in Nat /\ n \in 0..Len(v) /\ D \in Nat /\ D > 0
    BY <1>1, <2>1
  <2>3. PICK xn \in Int, xd \in Nat : xn = v[n].num /\ xd = v[n].den /\ xd > 0
    BY <1>1 DEF Proper, Fraction
  <2> DEFINE E == D * xd
             b == [k \in 1..n |-> IF k = n THEN xn * D ELSE a[k] * xd]
  <2>4. E \in Nat /\ E > 0
    BY <2>2, <2>3
  <2>5. \A k \in 1..n : k # n => k \in 1..(n - 1)
    BY <2>2
  <2>6. \A k \in 1..(n - 1) : a[k] \in Int /\ Is(v[k], a[k], D) /\ v[k] \in Proper
    BY <1>1, <2>1
  <2>7. b \in [1..n -> Int]
    BY <2>2, <2>3, <2>5, <2>6
  <2>8. ASSUME NEW k \in 1..n
        PROVE  Is(v[k], b[k], E)
    <3>1. CASE k = n
      <4>1. (xn * D) * xd = xn * (D * xd)
        <5>1. xn \in Int /\ D \in Int /\ xd \in Int
          BY <2>2, <2>3
        <5> QED
          BY <5>1, Reassociated, ZenonT(60)
      <4>2. b[k] = xn * D
        BY <3>1
      <4> QED
        BY <2>3, <3>1, <4>1, <4>2 DEF Is
    <3>2. CASE k # n
      <4>1. k \in 1..(n - 1) /\ b[k] = a[k] * xd
        BY <2>5, <3>2
      <4>2. Is(v[k], a[k] * xd, D * xd)
        BY <2>2, <2>3, <2>6, <4>1, ScaleIs
      <4> QED
        BY <4>1, <4>2
    <3> QED
      BY <3>1, <3>2
  <2> HIDE DEF b, E
  <2>9. upto(n, E, b)
    BY <2>4, <2>7, <2>8
  <2> QED
    BY <2>2, <2>4, <2>9
<1>4. \A n \in 0..Len(v) : n \in T
  <2> HIDE DEF T
  <2> QED
    BY <1>1, <1>2, <1>3, UpTo
<1>5. PICK D, a : upto(Len(v), D, a)
  <2>1. Len(v) \in T
    <3> HIDE DEF T
    <3> QED
      BY <1>1, <1>4
  <2> QED
    BY <2>1
<1> QED
  BY <1>5 DEF Scaled

LEMMA SumIs ==
    ASSUME NEW v \in Seq(Proper), NEW D, NEW a, Scaled(v, a, D), NEW s, Adds(s, a, Len(v))
    PROVE  SumOf(v) \in Proper /\ Is(SumOf(v), s[Len(v)], D)
<1>1. Len(v) \in Nat /\ \A k \in 1..Len(v) : v[k] \in Proper
  OBVIOUS
<1>2. PICK p : Partial(p, v)
  BY PartialExists
<1> DEFINE T == {k \in 0..Len(v) : Is(p[k], s[k], D)}
<1>3. 0 \in T
  <2>1. p[0] = Zero /\ s[0] = 0 /\ 0 \in 0..Len(v)
    BY <1>1, <1>2 DEF Partial, Adds
  <2>2. Is(Zero, 0, D)
    BY DEF Zero, Whole, Is, Scaled
  <2> QED
    BY <2>1, <2>2
<1>4. ASSUME NEW k \in 1..Len(v), k - 1 \in T
      PROVE  k \in T
  <2>1. k - 1 \in 0..Len(v) /\ k \in 0..Len(v)
    BY <1>1
  <2>2. p[k] = Plus(p[k - 1], v[k]) /\ p[k - 1] \in Proper /\ v[k] \in Proper
    BY <1>1, <1>2, <2>1 DEF Partial
  <2>3. s[k] = s[k - 1] + a[k] /\ s[k - 1] \in Int /\ a[k] \in Int
    BY <2>1 DEF Adds, Scaled
  <2>4. Is(p[k - 1], s[k - 1], D) /\ Is(v[k], a[k], D) /\ D \in Nat /\ D > 0
    BY <1>4 DEF Scaled
  <2>5. Is(Plus(p[k - 1], v[k]), s[k - 1] + a[k], D)
    BY <2>2, <2>3, <2>4, PlusIs
  <2> QED
    BY <2>1, <2>2, <2>3, <2>5
<1>5. \A k \in 0..Len(v) : k \in T
  <2> HIDE DEF T
  <2> QED
    BY <1>1, <1>3, <1>4, UpTo
<1>6. Is(p[Len(v)], s[Len(v)], D)
  BY <1>1, <1>5
<1> QED
  BY <1>2, <1>6, SumPartial

LEMMA MeanIs ==
    ASSUME NEW v \in Seq(Proper), Len(v) > 0, NEW D, NEW a, Scaled(v, a, D), NEW s, Adds(s, a, Len(v))
    PROVE  MeanOf(v) \in Proper /\ Is(MeanOf(v), s[Len(v)], D * Len(v))
<1>1. SumOf(v) \in Proper /\ Is(SumOf(v), s[Len(v)], D)
  BY SumIs
<1>2. Len(v) \in Nat /\ D \in Nat /\ D > 0 /\ s[Len(v)] \in Int
  BY DEF Scaled, Adds
<1> QED
  BY <1>1, <1>2, OverIs DEF MeanOf

(* A mean lies between the values. *)
LEMMA MeanInside ==
    ASSUME NEW v \in Seq(Proper), Len(v) > 0
    PROVE  /\ MeanOf(v) \in Proper
           /\ \E k \in 1..Len(v) : AtMost(v[k], MeanOf(v))
           /\ \E k \in 1..Len(v) : AtMost(MeanOf(v), v[k])
<1>1. PICK n \in Nat : n = Len(v) /\ n > 0
  OBVIOUS
<1>2. PICK D, a : Scaled(v, a, D)
  BY ScaledExists
<1>3. PICK s : Adds(s, a, n)
  BY <1>1, <1>2, AddsExists DEF Scaled
<1>4. MeanOf(v) \in Proper /\ Is(MeanOf(v), s[n], D * n)
  BY <1>1, <1>2, <1>3, MeanIs
<1>5. D * n \in Nat /\ D * n > 0 /\ s[n] \in Int
  BY <1>1, <1>2, <1>3 DEF Scaled, Adds
<1>6. ASSUME NEW k \in 1..n
      PROVE  (AtMost(v[k], MeanOf(v)) <=> n * a[k] <= s[n]) /\ (AtMost(MeanOf(v), v[k]) <=> s[n] <= n * a[k])
  <2>1. v[k] \in Proper /\ a[k] \in Int /\ Is(v[k], a[k], D) /\ D \in Nat
    BY <1>1, <1>2 DEF Scaled
  <2>2. Is(v[k], a[k] * n, D * n)
    BY <1>1, <2>1, ScaleIs
  <2>3. PICK x \in Int : x = a[k] * n /\ x = n * a[k]
    BY <2>1
  <2> QED
    BY <1>4, <1>5, <2>1, <2>2, <2>3, LessIs
<1>7. (\E k \in 1..n : n * a[k] <= s[n]) /\ (\E k \in 1..n : s[n] <= n * a[k])
  BY <1>1, <1>2, <1>3, AddsMean DEF Scaled
<1> QED
  BY <1>1, <1>4, <1>6, <1>7

-----------------------------------------------------------------------------
(* filteredAverage. *)

LEMMA SquareIs ==
    ASSUME NEW p \in Proper, NEW m \in Int, NEW D \in Nat, D > 0, Is(p, m, D)
    PROVE  Square(p) \in Proper /\ Is(Square(p), m * m, D * D)
<1>1. PICK n \in Int, d \in Nat : n = p.num /\ d = p.den /\ d > 0
  BY DEF Proper, Fraction
<1>2. n \in Int /\ d \in Nat /\ d > 0
  BY <1>1
<1>3. PICK N \in Int, E \in Nat : N = n * n /\ E = d * d /\ E > 0
  <2>1. n * n \in Int /\ d * d \in Nat /\ d * d > 0
    BY <1>2
  <2> QED
    BY <2>1
<1>4. Square(p) = Ratio(N, E)
  BY <1>1, <1>3 DEF Square, Times
<1>5. Ratio(N, E) \in Proper /\ Ratio(N, E).num * E = N * Ratio(N, E).den
  BY <1>3, RatioValue
<1>6. PICK a \in Int, b \in Nat : a = Ratio(N, E).num /\ b = Ratio(N, E).den /\ a * E = N * b
  BY <1>5 DEF Proper, Fraction
<1>7. a \in Int /\ b \in Nat /\ N \in Int /\ E \in Nat /\ E > 0 /\ a * E = N * b
  BY <1>3, <1>6
<1>8. m * d = n * D
  BY <1>1 DEF Is
<1>9. (m * m) * E = N * (D * D)
  <2>1. (m * m) * (d * d) = (m * d) * (m * d)
    BY <1>2
  <2>2. (n * D) * (n * D) = (n * n) * (D * D)
    BY <1>2
  <2> QED
    BY <1>3, <1>8, <2>1, <2>2
<1>10. (m * m) * b = a * (D * D)
  <2>1. PICK x \in Int, y \in Int, q \in Int, r \in Int : x = (m * m) * b /\ y = a * (D * D) /\ q = m * m /\ r = D * D
    BY <1>7
  <2>2. q \in Int /\ r \in Int
    BY <2>1
  <2>3. (q * b) * E = (q * E) * b /\ (N * r) * b = (N * b) * r /\ (a * E) * r = (a * r) * E
    BY <1>7, <2>2
  <2>4. x * E = y * E
    BY <1>7, <1>9, <2>1, <2>3
  <2>5. x \in Int /\ y \in Int
    BY <2>1
  <2>6. x = y
    BY <1>7, <2>4, <2>5
  <2> QED
    BY <2>1, <2>6
<1> QED
  BY <1>4, <1>5, <1>6, <1>10 DEF Is

(* Some value is not filtered out. *)
LEMMA SomeNear ==
    ASSUME NEW v \in Seq(Proper), Len(v) > 0
    PROVE  Near(v) \in SUBSET (1..Len(v)) /\ Near(v) # {}
<1>1. PICK n \in Nat : n = Len(v) /\ n > 0
  OBVIOUS
<1>2. n \in Nat /\ n > 0 /\ \A k \in 1..n : v[k] \in Proper
  BY <1>1
<1>3. PICK D, a : Scaled(v, a, D)
  BY ScaledExists
<1>4. D \in Nat /\ D > 0 /\ a \in [1..n -> Int] /\ \A k \in 1..n : Is(v[k], a[k], D)
  BY <1>1, <1>3 DEF Scaled
<1>5. PICK s : Adds(s, a, n)
  BY <1>2, <1>4, AddsExists
<1> DEFINE sq == [k \in 1..n |-> a[k] * a[k]]
           w == [k \in DOMAIN v |-> Square(v[k])]
<1>6. sq \in [1..n -> Int] /\ \A k \in 1..n : sq[k] = a[k] * a[k]
  BY <1>4
<1>7. \A k \in 1..n : Square(v[k]) \in Proper /\ Is(Square(v[k]), sq[k], D * D)
  BY <1>2, <1>4, <1>6, SquareIs
<1>8. w \in Seq(Proper) /\ Len(w) = n /\ \A k \in 1..n : w[k] = Square(v[k])
  BY <1>1, <1>7
<1> HIDE DEF sq
<1>9. PICK b : Adds(b, sq, n)
  BY <1>2, <1>6, AddsExists
<1>10. D * D \in Nat /\ D * D > 0 /\ D * n \in Nat /\ D * n > 0
  BY <1>2, <1>4
<1>11. Scaled(w, sq, D * D)
  <2> HIDE DEF w
  <2> QED
    BY <1>6, <1>7, <1>8, <1>10 DEF Scaled
<1> DEFINE EX == MeanOf(v)
           EX2 == MeanOf(w)
           variance == Minus(EX2, Square(EX))
           limit == Times(Whole(4), variance)
<1>12. Near(v) = {k \in DOMAIN v : AtMost(Square(Minus(v[k], EX)), limit)}
  BY DEF Near
<1> HIDE DEF w, EX, EX2, variance, limit
<1>13. PICK S \in Int, B \in Int : S = s[n] /\ B = b[n]
  BY <1>5, <1>9 DEF Adds
<1>14. S \in Int /\ B \in Int
  BY <1>13
<1>15. EX \in Proper /\ Is(EX, S, D * n)
  BY <1>1, <1>3, <1>5, <1>13, MeanIs DEF EX
<1>16. EX2 \in Proper /\ Is(EX2, B, (D * D) * n)
  BY <1>1, <1>8, <1>9, <1>11, <1>13, MeanIs DEF EX2
<1>17. PICK E \in Nat : E = (D * n) * (D * n) /\ E > 0
  <2>1. PICK z \in Nat : z = D * n /\ z > 0
    BY <1>10
  <2>2. z \in Nat /\ z > 0
    BY <2>1
  <2>3. z * z \in Nat /\ z * z > 0
    BY <2>2
  <2> QED
    BY <2>1, <2>3
<1>18. Is(EX2, B * n, E)
  <2>1. (D * D) * n \in Nat
    BY <1>2, <1>10
  <2>2. Is(EX2, B * n, ((D * D) * n) * n)
    BY <1>2, <1>14, <1>16, <2>1, ScaleIs
  <2>3. ((D * D) * n) * n = (D * n) * (D * n)
    BY <1>2, <1>4
  <2> QED
    BY <1>17, <2>2, <2>3
<1>19. Square(EX) \in Proper /\ Is(Square(EX), S * S, E)
  BY <1>10, <1>14, <1>15, <1>17, SquareIs
<1>20. PICK W \in Int : W = B * n - S * S
  BY <1>2, <1>14
<1>21. variance \in Proper /\ Is(variance, W, E)
  <2>1. B * n \in Int /\ S * S \in Int
    BY <1>2, <1>14
  <2>2. Minus(EX2, Square(EX)) \in Proper /\ Is(Minus(EX2, Square(EX)), B * n - S * S, E)
    BY <1>16, <1>17, <1>18, <1>19, <2>1, MinusIs
  <2> QED
    BY <1>20, <2>2 DEF variance
<1>22. limit \in Proper /\ Is(limit, 4 * W, E)
  BY <1>17, <1>20, <1>21, TimesIs DEF limit
<1>23. ASSUME NEW k \in 1..n
       PROVE  AtMost(Square(Minus(v[k], EX)), limit) <=> (n * a[k] - S) * (n * a[k] - S) <= 4 * W
  <2>1. PICK x \in Int : x = a[k]
    BY <1>4
  <2>2. x \in Int
    BY <2>1
  <2>3. x * n \in Int /\ x * n = n * x
    BY <1>2, <2>2
  <2>4. Is(v[k], x * n, D * n) /\ v[k] \in Proper
    BY <1>2, <1>4, <2>1, <2>2, ScaleIs
  <2>5. PICK z \in Int : z = n * x - S
    BY <1>14, <2>3
  <2>6. Minus(v[k], EX) \in Proper /\ Is(Minus(v[k], EX), z, D * n)
    <3>1. Minus(v[k], EX) \in Proper /\ Is(Minus(v[k], EX), x * n - S, D * n)
      BY <1>10, <1>14, <1>15, <2>3, <2>4, MinusIs
    <3> QED
      BY <2>3, <2>5, <3>1
  <2>7. Square(Minus(v[k], EX)) \in Proper /\ Is(Square(Minus(v[k], EX)), z * z, E)
    BY <1>10, <1>17, <2>5, <2>6, SquareIs
  <2>8. z * z \in Int /\ 4 * W \in Int
    BY <1>20, <2>5
  <2>9. AtMost(Square(Minus(v[k], EX)), limit) <=> z * z <= 4 * W
    BY <1>17, <1>22, <2>7, <2>8, LessIs
  <2> QED
    BY <2>1, <2>5, <2>9
<1>24. PICK k \in 1..n : (n * a[k] - S) * (n * a[k] - S) <= 4 * W
  <2>1. \E k \in 1..n : (n * a[k] - s[n]) * (n * a[k] - s[n]) <= 4 * (n * b[n] - s[n] * s[n])
    BY <1>2, <1>4, <1>5, <1>6, <1>9, AddsNear
  <2>2. n * b[n] - s[n] * s[n] = W
    <3>1. n * B = B * n
      BY <1>2, <1>14
    <3> QED
      BY <1>13, <1>20, <3>1
  <2> QED
    BY <1>13, <2>1, <2>2
<1>25. k \in Near(v)
  BY <1>1, <1>12, <1>23, <1>24
<1> QED
  BY <1>1, <1>12, <1>25

(* What is left lies around the average. *)
LEMMA FilteredInside ==
    ASSUME NEW v \in Seq(Proper), Len(v) > 0
    PROVE  /\ filteredAverage(v) \in Proper
           /\ \E k \in 1..Len(v) : AtMost(v[k], filteredAverage(v))
           /\ \E k \in 1..Len(v) : AtMost(filteredAverage(v), v[k])
<1> DEFINE near == Near(v)
           below == {p \in near \X near : p[1] < p[2]}
           order == Arranged(near, below)
           left == [n \in DOMAIN order |-> v[order[n]]]
<1>1. filteredAverage(v) = MeanOf(left)
  BY DEF filteredAverage
<1>2. near \in SUBSET (1..Len(v)) /\ near # {}
  BY SomeNear
<1>3. IsFiniteSet(near)
  <2>1. IsFiniteSet(1..Len(v))
    BY FS_Interval
  <2> HIDE DEF near
  <2> QED
    BY <1>2, <2>1, FS_Subset
<1>4. StrictOrder(near, below)
  <2>1. near \subseteq Int
    <3> HIDE DEF near
    <3> QED
      BY <1>2
  <2> HIDE DEF near
  <2> QED
    BY <2>1 DEF StrictOrder
<1> HIDE DEF near, below
<1>5. PICK n \in Nat : n = Cardinality(near) /\ n > 0 /\ order \in [1..n -> near]
  <2>1. Cardinality(near) \in Nat /\ order \in [1..Cardinality(near) -> near]
    BY <1>3, <1>4, ArrangedOrder
  <2>2. Cardinality(near) # 0
    BY <1>2, <1>3, FS_EmptySet
  <2> HIDE DEF order
  <2> QED
    BY <2>1, <2>2
<1> HIDE DEF order
<1>6. \A k \in 1..n : order[k] \in 1..Len(v) /\ v[order[k]] \in Proper
  <2>1. \A m \in 1..Len(v) : v[m] \in Proper
    OBVIOUS
  <2>2. \A k \in 1..n : order[k] \in 1..Len(v)
    BY <1>2, <1>5
  <2> QED
    BY <2>1, <2>2
<1>7. left \in Seq(Proper) /\ Len(left) = n /\ \A k \in 1..n : left[k] = v[order[k]]
  BY <1>5, <1>6
<1> HIDE DEF left
<1>8. /\ MeanOf(left) \in Proper
      /\ \E k \in 1..n : AtMost(left[k], MeanOf(left))
      /\ \E k \in 1..n : AtMost(MeanOf(left), left[k])
  BY <1>5, <1>7, MeanInside
<1> QED
  BY <1>1, <1>6, <1>7, <1>8

LEMMA FilteredConstant ==
    ASSUME NEW v \in Seq(Proper), Len(v) > 0, NEW c \in Proper, \A k \in 1..Len(v) : Same(v[k], c)
    PROVE  filteredAverage(v) \in Proper /\ Same(filteredAverage(v), c)
<1>1. filteredAverage(v) \in Proper
  BY FilteredInside
<1>2. PICK i \in 1..Len(v), j \in 1..Len(v) : AtMost(v[i], filteredAverage(v)) /\ AtMost(filteredAverage(v), v[j])
  BY FilteredInside
<1>3. v[i] \in Proper /\ v[j] \in Proper
  OBVIOUS
<1>4. AtMost(c, v[i]) /\ AtMost(v[j], c)
  BY <1>2 DEF Same
<1>5. AtMost(c, filteredAverage(v))
  BY <1>1, <1>2, <1>3, <1>4, AtMostOrder
<1>6. AtMost(filteredAverage(v), c)
  BY <1>1, <1>2, <1>3, <1>4, AtMostOrder
<1> QED
  BY <1>1, <1>5, <1>6 DEF Same

-----------------------------------------------------------------------------
(* The rotation and the translation. *)

LEMMA WholeIs ==
    ASSUME NEW k \in Int, NEW D \in Nat
    PROVE  Is(Whole(k), k * D, D)
BY DEF Is, Whole

(* A fraction that is a whole number. *)
LEMMA SameWhole ==
    ASSUME NEW p \in Proper, NEW k \in Int, Same(p, Whole(k)), NEW D \in Nat
    PROVE  Is(p, k * D, D)
<1>1. PICK n \in Int, d \in Nat : n = p.num /\ d = p.den /\ d > 0
  BY DEF Proper, Fraction
<1>2. n \in Int /\ d \in Nat /\ d > 0
  BY <1>1
<1>3. Is(p, n, d)
  BY <1>1 DEF Is
<1>4. Is(Whole(k), k * d, d) /\ k * d \in Int /\ Whole(k) \in Proper
  BY <1>2, WholeIs, WholeProper
<1>5. n = k * d
  BY <1>2, <1>3, <1>4, SameIs
<1>6. (k * D) * d = (k * d) * D
  BY <1>2
<1> QED
  BY <1>1, <1>5, <1>6 DEF Is

LEMMA RotationIs ==
    ASSUME InputInv, tilt <= 0
    PROVE  calibrateRotation(pointGridList) \in Proper /\ Same(calibrateRotation(pointGridList), Whole(-tilt))
<1>1. tilt \in Int /\ -tilt \in Int
  BY DEF InputInv
<1>2. Whole(tilt) \in Proper /\ Whole(-tilt) \in Proper /\ Magnitude(Whole(tilt)) = Whole(-tilt)
  <2>1. Abs(tilt) = -tilt
    BY <1>1 DEF Abs
  <2>2. Magnitude(Whole(tilt)) = Whole(-tilt)
    BY <2>1 DEF Magnitude, Whole
  <2> QED
    BY <1>1, <2>2, WholeProper
<1>3. Same(Whole(-tilt), Whole(-tilt))
  BY <1>2, SameFacts
<1> DEFINE angles(g) == [n \in DOMAIN pointGridList[g].vertical |-> Magnitude(Whole(tilt))]
           v == [g \in DOMAIN pointGridList |-> filteredAverage(angles(g))]
<1>4. calibrateRotation(pointGridList) = filteredAverage(v)
  BY DEF calibrateRotation
<1>5. Count \in Nat /\ Count > 0 /\ DOMAIN pointGridList = 1..Count
  BY CountFacts
<1>6. ASSUME NEW g \in 1..Count
      PROVE  filteredAverage(angles(g)) \in Proper /\ Same(filteredAverage(angles(g)), Whole(-tilt))
  <2>1. PICK lines \in Seq(PointLines) : lines = pointGridList[g].vertical /\ Len(lines) > 0
    BY PointGridLines DEF Axes
  <2>2. angles(g) = [n \in 1..Len(lines) |-> Whole(-tilt)]
    BY <1>2, <2>1
  <2> HIDE DEF angles
  <2>3. angles(g) \in Seq(Proper) /\ Len(angles(g)) = Len(lines) /\ \A n \in 1..Len(lines) : angles(g)[n] = Whole(-tilt)
    BY <1>2, <2>1, <2>2
  <2> QED
    BY <1>2, <1>3, <2>1, <2>3, FilteredConstant
<1> HIDE DEF angles
<1>7. v \in Seq(Proper) /\ Len(v) = Count /\ \A g \in 1..Count : v[g] = filteredAverage(angles(g))
  BY <1>5, <1>6
<1> HIDE DEF v
<1> QED
  BY <1>2, <1>4, <1>5, <1>6, <1>7, FilteredConstant

(* The distance of a line from its target, as findTranslation has it. *)
Moved(line, sign, angle, position) == Minus(Crossing(rotateGeneralLine(Fitted(line, sign), angle)), position)

LEMMA MovedIs ==
    ASSUME tilt \in Int, NEW line, MeanOfPoints(line) \in Proper, NEW sign \in Int,
           NEW angle \in Proper, Same(angle, Whole(-tilt)),
           NEW position \in Proper, NEW mean \in Proper, Same(position, mean), NEW moved \in Proper
    PROVE  LET value == Moved(line, sign, angle, position)
               off == Minus(MeanOfPoints(line), mean)
               measured == Minus(moved, Whole(sign * HALF * tilt))
           IN  /\ value \in Proper
               /\ AtMost(value, moved) <=> AtMost(off, measured)
               /\ AtMost(moved, value) <=> AtMost(measured, off)
<1>1. PICK middle \in Proper : middle = MeanOfPoints(line)
  OBVIOUS
<1>2. HALF \in Nat
  BY CalibrateAssumption DEF HALF
<1>3. PICK shift \in Int : shift = sign * HALF * tilt
  BY <1>2
<1>4. PICK D \in Nat : D > 0 /\ \E mm, mp, me, mo \in Int :
                          Is(middle, mm, D) /\ Is(position, mp, D) /\ Is(mean, me, D) /\ Is(moved, mo, D)
  BY CommonDenominator4
<1>5. PICK mm \in Int, mp \in Int, me \in Int, mo \in Int :
         Is(middle, mm, D) /\ Is(position, mp, D) /\ Is(mean, me, D) /\ Is(moved, mo, D)
  BY <1>4
<1>6. mm \in Int /\ mp \in Int /\ me \in Int /\ mo \in Int /\ D \in Nat /\ D > 0 /\ mp = me
  BY <1>4, <1>5, SameIs
<1>7. PICK w \in Int : w = shift * D
  BY <1>6
<1>8. Whole(shift) \in Proper /\ Is(Whole(shift), w, D)
  BY <1>6, <1>7, WholeIs, WholeProper
<1> DEFINE offset == Plus(middle, Whole(shift))
           turned == Plus(Whole(tilt), angle)
           along == Times(Whole(HALF), turned)
           crossing == Plus(offset, along)
<1>9. Moved(line, sign, angle, position) = Minus(crossing, position)
  BY <1>1, <1>3 DEF Moved, Crossing, rotateGeneralLine, Fitted
<1> HIDE DEF offset, turned, along, crossing
<1>10. offset \in Proper /\ Is(offset, mm + w, D)
  BY <1>5, <1>6, <1>7, <1>8, PlusIs DEF offset
<1>11. turned \in Proper /\ Is(turned, 0, D)
  <2>1. -tilt \in Int
    OBVIOUS
  <2>2. Is(Whole(tilt), tilt * D, D) /\ Is(angle, (-tilt) * D, D) /\ Whole(tilt) \in Proper
    BY <1>6, <2>1, WholeIs, WholeProper, SameWhole
  <2>3. tilt * D \in Int /\ (-tilt) * D \in Int /\ tilt * D + (-tilt) * D = 0
    BY <1>6
  <2>4. turned \in Proper /\ Is(turned, tilt * D + (-tilt) * D, D)
    BY <1>6, <2>2, <2>3, PlusIs DEF turned
  <2> QED
    BY <2>3, <2>4
<1>12. along \in Proper /\ Is(along, 0, D)
  <2>1. HALF * 0 = 0
    BY <1>2
  <2>2. along \in Proper /\ Is(along, HALF * 0, D)
    BY <1>2, <1>6, <1>11, TimesIs DEF along
  <2> QED
    BY <2>1, <2>2
<1>13. crossing \in Proper /\ Is(crossing, mm + w, D)
  <2>1. PICK z \in Int : z = mm + w
    BY <1>6, <1>7
  <2>2. crossing \in Proper /\ Is(crossing, z + 0, D)
    BY <1>6, <1>10, <1>12, <2>1, PlusIs DEF crossing
  <2>3. z + 0 = z
    BY <2>1
  <2> QED
    BY <2>1, <2>2, <2>3
<1>14. PICK x \in Int, y \in Int, z \in Int : x = (mm + w) - me /\ y = mm - me /\ z = mo - w
  BY <1>6, <1>7
<1>15. Minus(crossing, position) \in Proper /\ Is(Minus(crossing, position), x, D)
  <2>1. mm + w \in Int
    BY <1>6, <1>7
  <2> QED
    BY <1>5, <1>6, <1>13, <1>14, <2>1, MinusIs
<1>16. Minus(middle, mean) \in Proper /\ Is(Minus(middle, mean), y, D)
  BY <1>5, <1>6, <1>14, MinusIs
<1>17. Minus(moved, Whole(shift)) \in Proper /\ Is(Minus(moved, Whole(shift)), z, D)
  BY <1>5, <1>6, <1>7, <1>8, <1>14, MinusIs
<1>18. (AtMost(Minus(crossing, position), moved) <=> x <= mo) /\ (AtMost(moved, Minus(crossing, position)) <=> mo <= x)
  BY <1>5, <1>6, <1>14, <1>15, LessIs
<1>19. /\ AtMost(Minus(middle, mean), Minus(moved, Whole(shift))) <=> y <= z
       /\ AtMost(Minus(moved, Whole(shift)), Minus(middle, mean)) <=> z <= y
  BY <1>6, <1>14, <1>16, <1>17, LessIs
<1>20. (x <= mo <=> y <= z) /\ (mo <= x <=> z <= y)
  BY <1>6, <1>7, <1>14
<1> QED
  BY <1>1, <1>3, <1>9, <1>15, <1>18, <1>19, <1>20

(* A fraction with a mean behind it, not the NaN of an empty line, is a proper one (mathutil.h). *)
LEMMA DefinedProper ==
  ASSUME NEW p \in Fraction, Defined(p)
  PROVE  p \in Proper
<1>1. p.den \in Nat /\ p.den # 0
  BY DEF Fraction, Defined
<1> QED
  BY <1>1 DEF Proper

(* The lines that are measured, and the entries they belong to. *)
LEMMA LineMoved ==
    ASSUME TypeInv, AccInv, LatticeInv, pc \notin {"linegrids", "average"}, NEW axis \in Axes, Recognizable(axis),
           NEW g \in 1..Count, NEW n \in 1..Len(pointGridList[g][axis]),
           LineOf(axis, <<g, n>>).id \in Common(axis)
    PROVE  LET position == target[axis][mappers[g][axis][n]].position
               middle == MeanOfPoints(pointGridList[g][axis][n].line)
           IN  /\ position \in Proper /\ middle \in Proper
               /\ \E mean \in Proper : Same(position, mean) /\ Minus(middle, mean) \in Distances(axis)
<1> DEFINE r == <<g, n>>
           position == target[axis][mappers[g][axis][n]].position
<1>1. InputInv /\ pc # "linegrids" /\ Count \in Nat /\ Sound(axis)
  BY CountFacts DEF TypeInv, Recognizable
<1>2. r \in AllLines(axis)
  BY <1>1, AllLinesFacts
<1>3. LineOf(axis, r) = pointGridList[g][axis][n] /\ LineOf(axis, r).id \in Common(axis)
  BY DEF LineOf
<1>4. mappers[g][axis][n] = Index(axis, LineOf(axis, r).id)
  <2>1. mappers[r[1]][axis][r[2]] = Index(axis, LineOf(axis, r).id)
    BY <1>2, LatticeFound
  <2> QED
    BY <2>1
<1>5. PICK e \in maps[axis] :
         /\ IsInjective(e.referees) /\ ToSet(e.referees) = Copies(axis, LineOf(axis, r).id)
         /\ Same(position, MeanPosition(axis, e.referees))
  <2>1. \E e \in maps[axis] :
           /\ IsInjective(e.referees) /\ ToSet(e.referees) = Copies(axis, LineOf(axis, r).id)
           /\ Same(target[axis][Index(axis, LineOf(axis, r).id)].position, MeanPosition(axis, e.referees))
    BY LatticeFound
  <2> QED
    BY <1>4, <2>1
<1> HIDE DEF r
<1>6. EntryOK(axis, e)
  <2>1. Finished(axis, maps[axis])
    BY LatticeFinished
  <2> QED
    BY <2>1 DEF Finished, Accounted
<1>7. PICK refs \in Seq(AllLines(axis)) : refs = e.referees /\ Len(refs) > 0
  BY <1>6 DEF EntryOK
<1>8. MeanPosition(axis, refs) \in Proper
  <2>1. Positions(axis, refs) \in Seq(Proper) /\ Len(Positions(axis, refs)) = Len(refs)
    BY <1>1, <1>2, PositionsAppend
  <2>2. MeanPosition(axis, refs) = MeanOf(Positions(axis, refs))
    BY DEF MeanPosition, Positions
  <2> QED
    BY <1>7, <2>1, <2>2, MeanFraction
<1>9. position \in Proper
  <2>1. PICK lines \in Seq(Lines) : lines = target[axis]
    BY DEF TypeInv, MapInv
  <2>2. position \in Fraction
    <3>1. PICK i \in 1..Len(lines) : i = Index(axis, LineOf(axis, r).id)
      BY <1>3, <2>1, LatticeFound
    <3>2. lines[i] \in Lines
      OBVIOUS
    <3> QED
      BY <1>4, <2>1, <3>1, <3>2 DEF Lines
  <2>3. Defined(position)
    BY <1>5 DEF Same, AtMost
  <2> QED
    BY <2>2, <2>3, DefinedProper
<1>10. MeanOfPoints(LineOf(axis, r).line) \in Proper
  <2>1. PICK lines \in Seq(PointLines) : lines = pointGridList[g][axis]
    BY <1>1, PointGridLines
  <2>2. lines[n] \in PointLines
    BY <2>1
  <2>3. LineOf(axis, r).line \in Seq(Int)
    BY <1>3, <2>1, <2>2 DEF PointLines
  <2>4. Len(LineOf(axis, r).line) > 1
    BY <1>1, <1>2 DEF Sound
  <2>5. Len(LineOf(axis, r).line) > 0
    BY <2>3, <2>4
  <2> QED
    BY <2>3, <2>5, MeanOfPointsFraction
<1>11. Minus(MeanOfPoints(LineOf(axis, r).line), MeanPosition(axis, e.referees)) \in Distances(axis)
  <2> DEFINE p == <<r, e>>
  <2>1. p[1] = r /\ p[2] = e
    OBVIOUS
  <2>2. p \in AllLines(axis) \X maps[axis]
    BY <1>2, <1>5
  <2> HIDE DEF p
  <2>3. p \in {q \in AllLines(axis) \X maps[axis] :
                  /\ IsInjective(q[2].referees)
                  /\ ToSet(q[2].referees) = Copies(axis, LineOf(axis, q[1]).id)}
    BY <1>5, <2>1, <2>2
  <2> QED
    BY <2>1, <2>3 DEF Distances
<1> QED
  BY <1>3, <1>5, <1>7, <1>8, <1>9, <1>10, <1>11

(* The translation, once it is there. *)
Found(axis, sign) ==
    filteredAverage([g \in DOMAIN pointGridList |->
        findTranslation(pointGridList[g][axis], sign, rotation, target[axis], mappers[g][axis])])

MeasureInv ==
    /\ pc \notin {"linegrids", "average", "rotation"} => rotation = calibrateRotation(pointGridList)
    /\ pc \in Stored \union {"lens"} => translation = <<Found("horizontal", 1), Found("vertical", -1)>>

LEMMA NextMeasure ==
    ASSUME MeasureInv, [Next]_vars
    PROVE  MeasureInv'
<1>1. CASE CreateLineGrids \/ StartAverage \/ MergeLine \/ FinishAverage
  <2>1. pc' \in {"average", "rotation"}
    BY <1>1 DEF CreateLineGrids, StartAverage, MergeLine, PutMap, FinishAverage
  <2> QED
    BY <2>1 DEF MeasureInv, Stored
<1>2. CASE CalibrateRotation
  <2>1. /\ pc' = "translation" /\ rotation' = calibrateRotation(pointGridList)
        /\ pointGridList' = pointGridList /\ tilt' = tilt
    BY <1>2 DEF CalibrateRotation, inputs
  <2>2. calibrateRotation(pointGridList)' = calibrateRotation(pointGridList)
    BY <2>1 DEF calibrateRotation
  <2> QED
    BY <2>1, <2>2 DEF MeasureInv, Stored
<1>3. CASE CalibrateTranslation
  <2>1. /\ pc = "translation" /\ pc' \in {"lens", "undefined"} /\ rotation' = rotation
        /\ pointGridList' = pointGridList /\ tilt' = tilt /\ target' = target /\ mappers' = mappers
    BY <1>3 DEF CalibrateTranslation, inputs, average
  <2>2. pc' = "lens" => translation' = <<Found("horizontal", 1), Found("vertical", -1)>>
    BY <1>3 DEF CalibrateTranslation, Found
  <2>3. /\ calibrateRotation(pointGridList)' = calibrateRotation(pointGridList)
        /\ \A axis \in Axes : \A sign \in {1, -1} : Found(axis, sign)' = Found(axis, sign)
    BY <2>1 DEF calibrateRotation, Found, findTranslation, Fitted, Crossing, rotateGeneralLine
  <2> QED
    BY <2>1, <2>2, <2>3 DEF MeasureInv, Stored, Axes
<1>4. CASE (\E lens \in clusters : AddLens(lens)) \/ Construct \/ Store \/ Read \/ UNCHANGED vars
  <2>1. /\ rotation' = rotation /\ translation' = translation
        /\ pointGridList' = pointGridList /\ tilt' = tilt /\ target' = target /\ mappers' = mappers
    BY <1>4 DEF AddLens, Construct, Store, Read, vars, inputs, average, outputs
  <2>2. pc' = pc \/ pc \in Stored \union {"lens"}
    BY <1>4 DEF AddLens, Construct, Store, Read, vars, Stored
  <2>3. /\ calibrateRotation(pointGridList)' = calibrateRotation(pointGridList)
        /\ \A axis \in Axes : \A sign \in {1, -1} : Found(axis, sign)' = Found(axis, sign)
    BY <2>1 DEF calibrateRotation, Found, findTranslation, Fitted, Crossing, rotateGeneralLine
  <2> QED
    BY <2>1, <2>2, <2>3 DEF MeasureInv, Stored, Axes
<1> QED
  BY <1>1, <1>2, <1>3, <1>4 DEF Next

(* A translation is as far off as some lines are, on either side. *)
LEMMA FoundInside ==
    ASSUME TypeInv, AccInv, LatticeInv, MeasureInv, pc \in Stored, tilt <= 0,
           NEW axis \in Axes, Recognizable(axis), \A r \in AllLines(axis) : LineOf(axis, r).id \in Common(axis),
           NEW sign \in {1, -1}
    PROVE  LET measured == Minus(Found(axis, sign), Whole(sign * HALF * tilt))
           IN  /\ \E d \in Distances(axis) : AtMost(d, measured)
               /\ \E d \in Distances(axis) : AtMost(measured, d)
<1>1. /\ InputInv /\ pc \notin {"linegrids", "average", "rotation"} /\ tilt \in Int /\ sign \in Int
      /\ Count \in Nat /\ Count > 0 /\ DOMAIN pointGridList = 1..Count
  BY CountFacts DEF TypeInv, InputInv, Stored
<1>2. rotation \in Proper /\ Same(rotation, Whole(-tilt))
  BY <1>1, RotationIs DEF MeasureInv
<1> DEFINE position(g, n) == target[axis][mappers[g][axis][n]].position
           middle(g, n) == MeanOfPoints(pointGridList[g][axis][n].line)
           value(g, n) == Moved(pointGridList[g][axis][n].line, sign, rotation, position(g, n))
           values(g) == [n \in DOMAIN pointGridList[g][axis] |-> value(g, n)]
           v == [g \in DOMAIN pointGridList |-> filteredAverage(values(g))]
           found == Found(axis, sign)
           measured == Minus(found, Whole(sign * HALF * tilt))
<1>3. found = filteredAverage(v)
  BY DEF Found, findTranslation, Moved
<1>4. ASSUME NEW g \in 1..Count, NEW n \in 1..Len(pointGridList[g][axis])
      PROVE  /\ position(g, n) \in Proper /\ middle(g, n) \in Proper
             /\ \E mean \in Proper : Same(position(g, n), mean) /\ Minus(middle(g, n), mean) \in Distances(axis)
  <2>1. LineOf(axis, <<g, n>>).id \in Common(axis)
    BY <1>1, AllLinesFacts
  <2> QED
    BY <1>1, <2>1, LineMoved
<1>5. ASSUME NEW g \in 1..Count, NEW n \in 1..Len(pointGridList[g][axis]), NEW moved \in Proper
      PROVE  /\ value(g, n) \in Proper
             /\ \E d \in Distances(axis) :
                   /\ AtMost(value(g, n), moved) => AtMost(d, Minus(moved, Whole(sign * HALF * tilt)))
                   /\ AtMost(moved, value(g, n)) => AtMost(Minus(moved, Whole(sign * HALF * tilt)), d)
  <2>1. PICK mean \in Proper : Same(position(g, n), mean) /\ Minus(middle(g, n), mean) \in Distances(axis)
    BY <1>4
  <2>2. /\ value(g, n) \in Proper
        /\ AtMost(value(g, n), moved) <=>
              AtMost(Minus(middle(g, n), mean), Minus(moved, Whole(sign * HALF * tilt)))
        /\ AtMost(moved, value(g, n)) <=>
              AtMost(Minus(moved, Whole(sign * HALF * tilt)), Minus(middle(g, n), mean))
    <3>1. PICK line : line = pointGridList[g][axis][n].line
      OBVIOUS
    <3>2. PICK place \in Proper : place = position(g, n)
      BY <1>4
    <3>3. MeanOfPoints(line) \in Proper /\ Same(place, mean)
      BY <1>4, <2>1, <3>1, <3>2
    <3>4. PICK angle \in Proper : angle = rotation /\ Same(angle, Whole(-tilt))
      BY <1>2
    <3>5. LET was == Moved(line, sign, angle, place)
              off == Minus(MeanOfPoints(line), mean)
              whole == Minus(moved, Whole(sign * HALF * tilt))
          IN  /\ was \in Proper
              /\ AtMost(was, moved) <=> AtMost(off, whole)
              /\ AtMost(moved, was) <=> AtMost(whole, off)
      <4> HIDE DEF position, middle, value, values, v, found, measured
      <4>1. tilt \in Int /\ sign \in Int
        BY <1>1
      <4> QED
        BY <4>1, <3>3, <3>4, MovedIs
    <3>6. value(g, n) = Moved(line, sign, angle, place) /\ middle(g, n) = MeanOfPoints(line)
      BY <3>1, <3>4, <3>2
    <3> HIDE DEF value, middle
    <3> QED
      BY <3>5, <3>6
  <2> QED
    BY <2>1, <2>2
<1>6. ASSUME NEW g \in 1..Count
      PROVE  \E L \in Nat : /\ L = Len(pointGridList[g][axis]) /\ L > 0
                            /\ values(g) \in Seq(Proper) /\ Len(values(g)) = L
                            /\ \A n \in 1..L : values(g)[n] = value(g, n)
  <2>1. PICK lines \in Seq(PointLines) : lines = pointGridList[g][axis] /\ Len(lines) > 0
    BY <1>1, PointGridLines
  <2>2. DOMAIN pointGridList[g][axis] = 1..Len(lines) /\ Len(lines) \in Nat
    BY <2>1
  <2> HIDE DEF value
  <2>3. \A n \in 1..Len(lines) : value(g, n) \in Proper
    BY <1>5, <2>1, WholeProper
  <2>4. values(g) \in [1..Len(lines) -> Proper]
    BY <2>2, <2>3
  <2> QED
    BY <2>1, <2>2, <2>4
<1> HIDE DEF values, value
<1>7. ASSUME NEW g \in 1..Count
      PROVE  /\ filteredAverage(values(g)) \in Proper
             /\ \E n \in 1..Len(pointGridList[g][axis]) : AtMost(value(g, n), filteredAverage(values(g)))
             /\ \E n \in 1..Len(pointGridList[g][axis]) : AtMost(filteredAverage(values(g)), value(g, n))
  <2>1. PICK L \in Nat : /\ L = Len(pointGridList[g][axis]) /\ L > 0
                         /\ values(g) \in Seq(Proper) /\ Len(values(g)) = L
                         /\ \A n \in 1..L : values(g)[n] = value(g, n)
    BY <1>6
  <2> QED
    BY <2>1, FilteredInside
<1>8. v \in Seq(Proper) /\ Len(v) = Count /\ \A g \in 1..Count : v[g] = filteredAverage(values(g))
  BY <1>1, <1>7
<1> HIDE DEF v, found
<1>9. /\ found \in Proper
      /\ \E g \in 1..Count : AtMost(filteredAverage(values(g)), found)
      /\ \E g \in 1..Count : AtMost(found, filteredAverage(values(g)))
  BY <1>1, <1>3, <1>8, FilteredInside
<1>10. \E d \in Distances(axis) : AtMost(d, measured)
  <2>1. PICK g \in 1..Count : AtMost(filteredAverage(values(g)), found)
    BY <1>9
  <2>2. PICK n \in 1..Len(pointGridList[g][axis]) : AtMost(value(g, n), filteredAverage(values(g)))
    BY <1>7
  <2>3. value(g, n) \in Proper /\ filteredAverage(values(g)) \in Proper
    BY <1>5, <1>7, <1>9
  <2>4. AtMost(value(g, n), found)
    BY <1>9, <2>1, <2>2, <2>3, AtMostOrder
  <2> QED
    BY <1>5, <1>9, <2>4
<1>11. \E d \in Distances(axis) : AtMost(measured, d)
  <2>1. PICK g \in 1..Count : AtMost(found, filteredAverage(values(g)))
    BY <1>9
  <2>2. PICK n \in 1..Len(pointGridList[g][axis]) : AtMost(filteredAverage(values(g)), value(g, n))
    BY <1>7
  <2>3. value(g, n) \in Proper /\ filteredAverage(values(g)) \in Proper
    BY <1>5, <1>7, <1>9
  <2>4. AtMost(found, value(g, n))
    BY <1>9, <2>1, <2>2, <2>3, AtMostOrder
  <2> QED
    BY <1>5, <1>9, <2>4
<1> QED
  BY <1>10, <1>11 DEF found

(* For any number of images of one array that is not tilted to the         *)
(* positive side, of which no line was dropped: calibrateRotation finds    *)
(* the size of the tilt, and calibrateTranslation the translation that     *)
(* belongs to it, up to the distance of some line from the mean of the     *)
(* lines it belongs with.                                                  *)
THEOREM ArrayCorrect == Spec => []ArrayMeasured
<1>1. TypeInv /\ AccInv /\ LatticeInv /\ FileInv /\ MeasureInv => ArrayMeasured
  <2> SUFFICES ASSUME TypeInv, AccInv, LatticeInv, FileInv, MeasureInv, pc = "store", tilt <= 0,
                      \A axis \in Axes : /\ Recognizable(axis)
                                         /\ \A r \in AllLines(axis) : LineOf(axis, r).id \in Common(axis)
               PROVE  ArrayMeasured
    BY DEF ArrayMeasured
  <2>1. pc \in Stored /\ InputInv
    BY DEF Stored, TypeInv
  <2>2. data.array = ArrayParameters(target, translation, rotation)
    BY <2>1 DEF FileInv, DataInv
  <2>3. /\ data.array.rotation = rotation /\ data.array.translation = translation
        /\ rotation = calibrateRotation(pointGridList)
        /\ translation[1] = Found("horizontal", 1) /\ translation[2] = Found("vertical", -1)
    BY <2>1, <2>2 DEF ArrayParameters, MeasureInv, Stored
  <2>4. Same(data.array.rotation, Whole(-tilt))
    BY <2>1, <2>3, RotationIs
  <2>5. ASSUME NEW axis \in Axes
        PROVE  LET sign == IF axis = "horizontal" THEN 1 ELSE -1
                   measured == Minus(data.array.translation[IF axis = "horizontal" THEN 1 ELSE 2],
                                     Whole(sign * HALF * tilt))
               IN  /\ \E d \in Distances(axis) : AtMost(d, measured)
                   /\ \E d \in Distances(axis) : AtMost(measured, d)
    <3>1. CASE axis = "horizontal"
      BY <2>1, <2>3, <3>1, FoundInside
    <3>2. CASE axis = "vertical"
      BY <2>1, <2>3, <3>2, FoundInside
    <3> QED
      BY <3>1, <3>2 DEF Axes
  <2> QED
    BY <2>4, <2>5 DEF ArrayMeasured
<1>2. Init => MeasureInv
  BY DEF Init, MeasureInv, Stored
<1>3. MeasureInv /\ [Next]_vars => MeasureInv'
  BY NextMeasure
<1> QED
  BY <1>1, <1>2, <1>3, LatticeInvariant, FileInvariant, PTL DEF Spec

=============================================================================
