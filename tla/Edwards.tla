------------------------------ MODULE Edwards -------------------------------
(***************************************************************************)
(* The group of edwards25519 as ed25519_ref10.c computes in it: the four   *)
(* representations of a point and the conversions between them, the        *)
(* encodings, and the checks of an encoded point. And the multiplication   *)
(* of a point by a scalar: the two recodings of a scalar into signed       *)
(* digits, the four loops of ed25519_ref10.c, the ladder of                *)
(* x25519_ref10.c, and the functions of the API above them.                *)
(*                                                                         *)
(* The formulas are those of the source, over the integers modulo P in     *)
(* place of 2^255 - 19. P is of the same shape (below a power of two by    *)
(* 19, and 5 modulo 8), the curve has the same equation and the same       *)
(* cofactor 8. An encoding of 32 bytes is a number below 2 * Cap: the      *)
(* coordinate below Cap = 2^255, and the sign bit above it.                *)
(*                                                                         *)
(* A scalar has Bits bits where the source has 256. Scalars are numbers:   *)
(* the arithmetic of sc25519 is remainders modulo L here; the limbs it is  *)
(* computed with are the module Limbs.                                     *)
(***************************************************************************)
EXTENDS Integers, Sequences, SequencesExt

CONSTANTS
    P,          \* the prime of the field
    Cap,        \* the values of a coordinate as encoded: the power of two above P
    LowByte,    \* the values of the first byte of an encoding
    A, D,       \* the constants of the two forms of the curve
    L,          \* the order of the main subgroup
    BaseY,      \* the coordinate y of the base point
    Group       \* the points of the curve, as the multiples 0, 1, 2... of a generator

ASSUME FieldAssumption == Cap = 128 /\ P = Cap - 19 /\ Cap % LowByte = 0
ASSUME CurveAssumption == D \in 1..(P-1) /\ (D * (A + 2)) % P = (P - A + 2) % P

Fe == 0..(P-1)
a ++ b == (a + b) % P
a -- b == (a - b) % P
a ** b == (a * b) % P
NegUnreduced(a) == -a
Neg(a) == (-a) % P
Sq(a) == a ** a
IsNegative(a) == a % 2 = 1
Abs(a) == IF IsNegative(a) THEN Neg(a) ELSE a

(* Powers, by the chains of the source: their first part gives a to a     *)
(* number of ones, 250 of them there, and 2 in a field of 7 bits; what     *)
(* follows them is the same.  The module Limbs has the first part.         *)
Sq2(a) == Sq(Sq(a))
Ones(a) == Sq(a) ** a
Eleven(a) == (Sq2(Sq(a)) ** a) ** Sq(a)
inverse == [a \in Fe |-> Sq(Sq2(Sq2(Ones(a)))) ** Eleven(a)]
fe25519_invert(a) == inverse[a]
pow22523 == [a \in Fe |-> Sq2(Ones(a)) ** a]
fe25519_pow22523(a) == pow22523[a]
legendre == [a \in Fe |-> Sq(Sq2(Sq(Ones(a))) ** (Sq(a) ** a))]
fe25519_notsquare(a) == (legendre[a] \div LowByte) % 2 = 1

sqrtm1 == 2^((P - 1) \div 4) % P
EvenRoot(a) == CHOOSE r \in Fe : Sq(r) = a /\ ~IsNegative(r)
(* What constants.h tabulates.                                             *)
constants ==
    [d2 |-> 2 ** D, sqrtadm1 |-> EvenRoot((-D - 1) % P),
     invsqrtamd |-> EvenRoot(inverse[(-1 - D) % P]),
     onemsqd |-> 1 -- Sq(D), sqdmone |-> Sq(D -- 1)]

-----------------------------------------------------------------------------
(* The group by definition: the affine points, added by the law of the     *)
(* curve.  The tables of the source are stated with it, and the results    *)
(* are compared with it.                                                   *)
Order == 8 * L
AffineSum(p, q) ==
    LET t == D ** ((p[1] ** q[1]) ** (p[2] ** q[2]))
    IN << ((p[1] ** q[2]) ++ (q[1] ** p[2])) ** inverse[1 ++ t],
          ((p[2] ** q[2]) ++ (p[1] ** q[1])) ** inverse[1 -- t] >>
ASSUME GroupAssumption ==
    /\ Len(Group) = Order /\ Group[1] = <<0, 1>> /\ IsInjective(Group)
    /\ \A k \in 1..Order : AffineSum(Group[k], Group[2]) = Group[(k % Order) + 1]
multiple(k) == Group[(k % Order) + 1]
logOf == [a \in Range(Group) |-> CHOOSE k \in 0..(Order-1) : multiple(k) = a]
Affine(p) == <<p.X ** inverse[p.Z], p.Y ** inverse[p.Z]>>
LogOf(p) == logOf[Affine(p)]
Point(k) == [X |-> multiple(k)[1], Y |-> multiple(k)[2], Z |-> 1, T |-> multiple(k)[1] ** multiple(k)[2]]
Encoding(k) == multiple(k)[2] + (IF IsNegative(multiple(k)[1]) THEN Cap ELSE 0)

-----------------------------------------------------------------------------
(* Points: p3 = (X : Y : Z : T) with T Z = X Y, p2 without T, p1p1 =       *)
(* ((X : Z), (Y : T)), and two forms prepared for being added.             *)
p3_0 == [X |-> 0, Y |-> 1, Z |-> 1, T |-> 0]
p2_0 == [X |-> 0, Y |-> 1, Z |-> 1]
ToP2(p) == [X |-> p.X ** p.T, Y |-> p.Y ** p.Z, Z |-> p.Z ** p.T]
ToP3(p) == [X |-> p.X ** p.T, Y |-> p.Y ** p.Z, Z |-> p.Z ** p.T, T |-> p.X ** p.Y]
ToCached(p) ==
    [plus |-> p.Y ++ p.X, minus |-> p.Y -- p.X, Z |-> p.Z, T2d |-> p.T ** constants.d2]
ToPrecomp(p) ==
    LET recip == fe25519_invert(p.Z)
        x == p.X ** recip
        y == p.Y ** recip
    IN [plus |-> y ++ x, minus |-> y -- x, Z |-> 1, T2d |-> (x ** y) ** constants.d2]

(* Both additions and both subtractions: of a prepared point with the Z it *)
(* has, or with Z = 1 for a tabulated one, where a doubling replaces the   *)
(* multiplication by it.                                                   *)
Combine(a, b, z, t, plus) ==
    [X |-> a -- b, Y |-> a ++ b,
     Z |-> IF plus THEN z ++ t ELSE z -- t, T |-> IF plus THEN z -- t ELSE z ++ t]
ge25519_add(p, q) ==
    LET zz == p.Z ** q.Z
    IN Combine((p.Y ++ p.X) ** q.plus, (p.Y -- p.X) ** q.minus,
               zz ++ zz, q.T2d ** p.T, TRUE)
ge25519_sub(p, q) ==
    LET zz == p.Z ** q.Z
    IN Combine((p.Y ++ p.X) ** q.minus, (p.Y -- p.X) ** q.plus,
               zz ++ zz, q.T2d ** p.T, FALSE)
ge25519_madd(p, q) ==
    Combine((p.Y ++ p.X) ** q.plus, (p.Y -- p.X) ** q.minus,
            p.Z ++ p.Z, q.T2d ** p.T, TRUE)
MsubUnswapped(p, q) ==
    Combine((p.Y ++ p.X) ** q.plus, (p.Y -- p.X) ** q.minus,
            p.Z ++ p.Z, q.T2d ** p.T, FALSE)
ge25519_msub(p, q) ==
    Combine((p.Y ++ p.X) ** q.minus, (p.Y -- p.X) ** q.plus,
            p.Z ++ p.Z, q.T2d ** p.T, FALSE)
ge25519_p2_dbl(p) ==
    LET xx == Sq(p.X)
        yy == Sq(p.Y)
    IN [X |-> Sq(p.X ++ p.Y) -- (yy ++ xx), Y |-> yy ++ xx, Z |-> yy -- xx,
        T |-> (2 ** Sq(p.Z)) -- (yy -- xx)]

-----------------------------------------------------------------------------
(* Encodings.                                                              *)
Sign(s) == s >= Cap
Coordinate(s) == s % Cap
fe25519_frombytes(s) == Coordinate(s) % P

ge25519_p3_tobytes(h) ==
    LET recip == fe25519_invert(h.Z)
    IN (h.Y ** recip) + (IF IsNegative(h.X ** recip) THEN Cap ELSE 0)
ge25519_tobytes(h) ==
    LET recip == fe25519_invert(h.Z)
    IN (h.Y ** recip) + (IF IsNegative(h.X ** recip) THEN Cap ELSE 0)

(* Decoding leaves a point in h also when it fails.                        *)
ge25519_frombytes(s) ==
    LET y == fe25519_frombytes(s)
        u == Sq(y) -- 1
        v == (D ** Sq(y)) ++ 1
        x == u ** fe25519_pow22523(u ** v)
        vxx == Sq(x) ** v
        root == IF vxx = u THEN x ELSE x ** sqrtm1
        X == IF IsNegative(root) # Sign(s) THEN Neg(root) ELSE root
    IN [ok |-> vxx = u \/ vxx = Neg(u), h |-> [X |-> X, Y |-> y, Z |-> 1, T |-> X ** y]]
ge25519_frombytes_negate_vartime(s) ==
    LET y == fe25519_frombytes(s)
        u == Sq(y) -- 1
        v == (D ** Sq(y)) ++ 1
        v3 == Sq(v) ** v
        x == (fe25519_pow22523((Sq(v3) ** v) ** u) ** v3) ** u
        vxx == Sq(x) ** v
        root == IF vxx = u THEN x ELSE x ** sqrtm1
        X == IF IsNegative(root) = Sign(s) THEN Neg(root) ELSE root
    IN [ok |-> vxx = u \/ vxx = Neg(u), h |-> [X |-> X, Y |-> y, Z |-> 1, T |-> X ** y]]

(* Whether the coordinate is below P, decided on its bytes: it is not when *)
(* all the bytes but the first are ones and the first is not small enough. *)
CanonicalOffByOne(s) ==
    ~ (Coordinate(s) \div LowByte = Cap \div LowByte - 1 /\ Coordinate(s) % LowByte > LowByte - 19)
ge25519_is_canonical(s) ==
    ~ (Coordinate(s) \div LowByte = Cap \div LowByte - 1 /\ Coordinate(s) % LowByte >= LowByte - 19)

(* The coordinates of the points of order 1, 2, 4 and 8, and two of them   *)
(* not reduced; the sign is not looked at.                                 *)
order8 == {y \in Fe : D ** Sq(Sq(y)) ++ (Sq(y) ++ Sq(y)) = 1}
ge25519_has_small_order(s) == Coordinate(s) \in {0, 1, P - 1, P, P + 1} \cup order8

ge25519_is_on_curve(p) ==
    LET x2 == Sq(p.X)
        y2 == Sq(p.Y)
        z2 == Sq(p.Z)
    IN (y2 -- x2) ** z2 = ((x2 ** y2) ** D) ++ Sq(z2)

-----------------------------------------------------------------------------
CONSTANTS
    Bits,       \* bits of a scalar
    aslide      \* the digits of L, a table of ge25519_mul_l

ASSUME BitsAssumption == Bits \in Nat /\ Bits % 8 = 0 /\ Bits > 0 /\ 2 * L < 2^(Bits - 4)

Scalar == 0..(2^Bits - 1)
bit(a, i) == (a \div 2^i) % 2
Down(n) == [i \in 1..n |-> n - i]

-----------------------------------------------------------------------------
(* Digits of -8..8, one for every four bits.                               *)
Nibbles == Bits \div 4
Recode(a) ==
    LET nibble(i) == (a \div 16^i) % 16
        carry[i \in 0..Nibbles] == IF i = 0 THEN 0 ELSE (nibble(i-1) + carry[i-1] + 8) \div 16
    IN [i \in 0..(Nibbles-1) |->
            nibble(i) + carry[i] - (IF i = Nibbles - 1 THEN 0 ELSE 16 * carry[i+1])]

(* Digits 0 and odd digits of -15..15, one for every bit: a digit takes in *)
(* the next six bits while it can; a bit that would take it beyond 15 is   *)
(* subtracted instead, and carried to the first 0 above.                   *)
Carried(r, j) ==
    LET clear == {k \in j..(Bits-1) : r[k] = 0}
        first == IF clear = {} THEN Bits ELSE CHOOSE k \in clear : \A m \in clear : k <= m
    IN [k \in DOMAIN r |-> IF k < j \/ k > first THEN r[k] ELSE IF k = first THEN 1 ELSE 0]
AbsorbWide(s, i, b) ==
    LET ribs == s.r[i+b] * 2^b
    IN IF s.done \/ i + b >= Bits \/ s.r[i+b] = 0 THEN s
       ELSE IF s.r[i] + ribs <= 17 THEN [s EXCEPT !.r[i] = @ + ribs, !.r[i+b] = 0]
       ELSE IF s.r[i] - ribs < -17 THEN [s EXCEPT !.done = TRUE]
       ELSE [s EXCEPT !.r = Carried([@ EXCEPT ![i] = @ - ribs], i + b)]
Absorb(s, i, b) ==
    LET ribs == s.r[i+b] * 2^b
    IN IF s.done \/ i + b >= Bits \/ s.r[i+b] = 0 THEN s
       ELSE IF s.r[i] + ribs <= 15 THEN [s EXCEPT !.r[i] = @ + ribs, !.r[i+b] = 0]
       ELSE IF s.r[i] - ribs < -15 THEN [s EXCEPT !.done = TRUE]
       ELSE [s EXCEPT !.r = Carried([@ EXCEPT ![i] = @ - ribs], i + b)]
slide_vartime(a) ==
    LET digit(r, i) ==
            IF r[i] = 0 THEN r
            ELSE FoldLeft(LAMBDA s, b : Absorb(s, i, b), [r |-> r, done |-> FALSE], <<1, 2, 3, 4, 5, 6>>).r
    IN FoldLeft(digit, [i \in 0..(Bits-1) |-> bit(a, i)], Reverse(Down(Bits)))

-----------------------------------------------------------------------------
(* The point that a digit selects from a table of eight multiples: the     *)
(* neutral one if no multiple has its absolute value.                      *)
Entry(table, b) ==
    IF b \in 1..8 THEN table[b] ELSE [plus |-> 1, minus |-> 1, Z |-> 1, T2d |-> 0]
ChosenHalfNegated(table, b) ==
    LET t == Entry(table, IF b < 0 THEN -b ELSE b)
    IN IF b < 0 THEN [t EXCEPT !.plus = t.minus, !.minus = t.plus] ELSE t
Chosen(table, b) ==
    LET t == Entry(table, IF b < 0 THEN -b ELSE b)
    IN IF b < 0 THEN [t EXCEPT !.plus = t.minus, !.minus = t.plus, !.T2d = Neg(@)] ELSE t
cmov8_cached(cached, b) == Chosen(cached, b)
cmov8(precomp, b) == Chosen(precomp, b)

Doubled(p) == ToP3(ge25519_p2_dbl(p))
Plus(p, cached) == ToP3(ge25519_add(p, cached))
Multiples(p) ==
    LET p2 == Doubled(p)
        p3 == Plus(p, ToCached(p2))
        p4 == Doubled(p2)
        p5 == Plus(p, ToCached(p4))
        p6 == Doubled(p3)
        p7 == Plus(p, ToCached(p6))
        p8 == Doubled(p4)
    IN <<ToCached(p), ToCached(p2), ToCached(p3), ToCached(p4),
         ToCached(p5), ToCached(p6), ToCached(p7), ToCached(p8)>>
Sixteenfold(r) ==
    ToP3(ge25519_p2_dbl(ToP2(ge25519_p2_dbl(ToP2(ge25519_p2_dbl(ToP2(ge25519_p2_dbl(ToP2(r)))))))))

ge25519_scalarmult(a, p) ==
    LET e == Recode(a)
        pi == Multiples(p)
        plus(h, i) == ge25519_add(h, cmov8_cached(pi, e[i]))
        h == FoldLeft(LAMBDA h, i : Sixteenfold(plus(h, i + 1)), p3_0, Down(Nibbles - 1))
    IN ToP3(plus(h, 0))

(* What base.h and base2.h tabulate: the multiples (j+1) 256^i of the base *)
(* point, and its first odd multiples.                                     *)
BaseLog == CHOOSE k \in 0..(Order-1) : multiple(k)[2] = BaseY /\ ~IsNegative(multiple(k)[1])
base == [i \in 0..(Bits \div 8 - 1) |-> [j \in 1..8 |-> ToPrecomp(Point(j * 256^i * BaseLog))]]
Bi == [j \in 1..8 |-> ToPrecomp(Point((2*j - 1) * BaseLog))]
ge25519_cmov8_base(pos, b) == cmov8(base[pos], b)

(* The odd digits first, then sixteen times that, then the even ones.      *)
ge25519_scalarmult_base(a) ==
    LET e == Recode(a)
        plus(h, i) == ToP3(ge25519_madd(h, ge25519_cmov8_base(i \div 2, e[i])))
        half == [i \in 1..(Nibbles \div 2) |-> 2 * i - 2]
        odd == FoldLeft(LAMBDA h, i : plus(h, i + 1), p3_0, half)
        times16 == ToP3(ge25519_p2_dbl(ToP2(ge25519_p2_dbl(ToP2(ge25519_p2_dbl(ToP2(ge25519_p2_dbl(odd))))))))
    IN FoldLeft(plus, times16, half)

OddMultiples(p) ==
    LET p2 == Doubled(p)
        a1 == ToCached(p)
        a3 == ToCached(Plus(p2, a1))
        a5 == ToCached(Plus(p2, a3))
        a7 == ToCached(Plus(p2, a5))
        a9 == ToCached(Plus(p2, a7))
        a11 == ToCached(Plus(p2, a9))
        a13 == ToCached(Plus(p2, a11))
    IN <<a1, a3, a5, a7, a9, a11, a13, ToCached(Plus(p2, a13))>>

(* One digit of A and one of B after every doubling, from the first digit  *)
(* that is not 0.                                                          *)
ge25519_double_scalarmult_vartime(a, p, b) ==
    LET adigit == slide_vartime(a)
        bdigit == slide_vartime(b)
        Ai == OddMultiples(p)
        withA(t, i) ==
            IF adigit[i] > 0 THEN ge25519_add(ToP3(t), Ai[1 + adigit[i] \div 2])
            ELSE IF adigit[i] < 0 THEN ge25519_sub(ToP3(t), Ai[1 + (-adigit[i]) \div 2])
            ELSE t
        withB(t, i) ==
            IF bdigit[i] > 0 THEN ge25519_madd(ToP3(t), Bi[1 + bdigit[i] \div 2])
            ELSE IF bdigit[i] < 0 THEN ge25519_msub(ToP3(t), Bi[1 + (-bdigit[i]) \div 2])
            ELSE t
        digits == {i \in 0..(Bits-1) : adigit[i] # 0 \/ bdigit[i] # 0}
        top == IF digits = {} THEN 0 ELSE 1 + CHOOSE i \in digits : \A k \in digits : k <= i
    IN FoldLeft(LAMBDA r, i : ToP2(withB(withA(ge25519_p2_dbl(r), i), i)), p2_0, Down(top))

ge25519_mul_l(p) ==
    LET Ai == OddMultiples(p)
        step(r, i) ==
            LET t == ge25519_p2_dbl(r)
            IN IF aslide[i] > 0 THEN ToP3(ge25519_add(ToP3(t), Ai[1 + aslide[i] \div 2]))
               ELSE IF aslide[i] < 0 THEN ToP3(ge25519_sub(ToP3(t), Ai[1 + (-aslide[i]) \div 2]))
               ELSE ToP3(t)
    IN FoldLeft(step, p3_0, Down(Bits - 3))
ge25519_is_on_main_subgroup(p) == ge25519_mul_l(p).X = 0
=============================================================================
