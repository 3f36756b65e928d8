----------------------------- MODULE Rationals ------------------------------
(* Exact fractions in lowest terms, for values the code keeps in double.   *)
(* NaN is what a division by zero yields; it spreads through arithmetic,   *)
(* and every comparison with it is false.                                  *)
EXTENDS Integers

Abs(n) == IF n < 0 THEN -n ELSE n

gcd[p \in Nat \X Nat] == IF p[2] = 0 THEN p[1] ELSE gcd[<<p[2], p[1] % p[2]>>]

NaN == [num |-> 0, den |-> 0]

Ratio(n, d) ==
    IF d = 0 THEN NaN
    ELSE LET g == gcd[<<Abs(n), Abs(d)>>]
             s == IF d < 0 THEN -1 ELSE 1
         IN  [num |-> s * (n \div g), den |-> Abs(d) \div g]

Whole(n) == [num |-> n, den |-> 1]
Zero == Whole(0)

(* Over the least common denominator, which keeps the numbers small. *)
Plus(p, q) ==
    IF p.den * q.den = 0 THEN NaN
    ELSE LET g == gcd[<<p.den, q.den>>]
         IN  Ratio(p.num * (q.den \div g) + q.num * (p.den \div g), (p.den \div g) * q.den)
Minus(p, q) == Plus(p, [q EXCEPT !.num = -@])
Times(p, q) == Ratio(p.num * q.num, p.den * q.den)
Over(p, n) == Ratio(p.num, p.den * n)
Magnitude(p) == [p EXCEPT !.num = Abs(@)]

Defined(p) == p.den # 0
Less(p, q) == Defined(p) /\ Defined(q) /\ Minus(p, q).num < 0
AtMost(p, q) == Defined(p) /\ Defined(q) /\ Minus(p, q).num <= 0
Same(p, q) == AtMost(p, q) /\ AtMost(q, p)
Gap(p, q) == Magnitude(Minus(p, q))
=============================================================================
