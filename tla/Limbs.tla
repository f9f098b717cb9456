-------------------------------- MODULE Limbs --------------------------------
(***************************************************************************)
(* The arithmetic below the curve: the scalars of sc25519 in limbs of 21   *)
(* bits, the field in ten limbs of 26 and 25 bits or in five of 51.  The   *)
(* order of the carries and of the folds is that of the source, and so is  *)
(* what each adds where; the limbs are narrower, and the moduli as much    *)
(* smaller: 2^(12 W21) - C21, where C21 is given by six digits as in the   *)
(* source, and 2^(10 W25 + 5) - C19 = 2^(5 W51) - C19.  That a product     *)
(* fits in 64 bits depends on the widths of the source; it is not said     *)
(* here.                                                                   *)
(*                                                                         *)
(* Limb i of a number s is s[i + 1].  The powers that are computed by      *)
(* fixed sequences of multiplications are at the end.                      *)
(***************************************************************************)
EXTENDS Loops, SequencesExt

CONSTANTS
    W21, C21,   \* the width of a scalar's limb; 2^(12 W21) as six limbs modulo the order
    W25, W51,   \* the widths of the odd limbs of ten, and of the limbs of five
    C19         \* what 2^255 is modulo the prime: 19

ASSUME LimbsAssumption == Len(C21) = 6 /\ 10 * W25 + 5 = 5 * W51 /\ C19 \in 1..19

(* Takes from limb i what is above w bits and adds it f times to limb j.   *)
Carry(s, i, w, half, j, f) ==
    LET c == (s[i+1] + half) \div 2^w IN [s EXCEPT ![i+1] = @ - c * 2^w, ![j+1] = @ + c * f]
Total(Term(_), ks) == Each(LAMBDA t, k : t + Term(k), 0, ks)
Build(Limb(_), n) == Each(LAMBDA s, k : Append(s, Limb(k - 1)), <<>>, Upto(1, 1, n))

-----------------------------------------------------------------------------
(* Scalars: twelve limbs; a product has twenty-four.                       *)
Round21(s, i) == Carry(s, i, W21, 2^(W21 - 1), i + 1, 1)
Floor21(s, i) == Carry(s, i, W21, 0, i + 1, 1)
Fold(s, k) ==
    [s EXCEPT ![k-11] = @ + s[k+1] * C21[1], ![k-10] = @ + s[k+1] * C21[2],
              ![k-9]  = @ + s[k+1] * C21[3], ![k-8]  = @ + s[k+1] * C21[4],
              ![k-7]  = @ + s[k+1] * C21[5], ![k-6]  = @ + s[k+1] * C21[6], ![k+1] = 0]
Rounds(s, first, n) == Each(Round21, s, Upto(first, 2, n))
FoldedTwice(s) ==
    LET high == Each(Fold, s, <<23, 22, 21, 20, 19, 18>>)
        carried == Rounds(Rounds(high, 6, 6), 7, 5)
    IN Each(Fold, carried, <<17, 16, 15, 14, 13, 12>>)
FinishOnce(s) ==
    LET carried == Rounds(Rounds(s, 0, 6), 1, 6)
    IN Each(Floor21, Fold(carried, 12), Upto(0, 1, 11))
Finish(s) ==
    LET carried == Rounds(Rounds(s, 0, 6), 1, 6)
        once == Each(Floor21, Fold(carried, 12), Upto(0, 1, 12))
    IN Each(Floor21, Fold(once, 12), Upto(0, 1, 11))
Reduced(s) == SubSeq(Finish(FoldedTwice(s)), 1, 12)

Product21(a, b) ==
    Build(LAMBDA k : Total(LAMBDA i : a[i] * b[k + 2 - i],
                           Upto(IF k < 12 THEN 1 ELSE k - 10, 1, IF k < 12 THEN k + 1 ELSE 23 - k)), 23)
    \o <<0>>
limbs_reduce(s) == Reduced(s)
limbs_mul(a, b) == Reduced(Rounds(Rounds(Product21(a, b), 0, 12), 1, 11))
limbs_muladd(a, b, c) ==
    LET s == Build(LAMBDA k : Product21(a, b)[k+1] + (IF k < 12 THEN c[k+1] ELSE 0), 24)
    IN Reduced(Rounds(Rounds(s, 0, 12), 1, 11))

(* Where the limbs are taken from: the first byte read, how many, and the  *)
(* shift, for the limbs 0 to 7, which repeat every 21 bytes.               *)
Loads21 == << <<0, 3, 0>>, <<2, 4, 5>>, <<5, 3, 2>>, <<7, 4, 7>>, <<10, 4, 4>>, <<13, 3, 1>>,
              <<15, 4, 6>>, <<18, 3, 3>> >>
ASSUME Loads21Assumption ==
    \A i \in 1..8 : 8 * Loads21[i][1] + Loads21[i][3] = 21 * (i - 1) /\ 8 * Loads21[i][2] - Loads21[i][3] >= 21

-----------------------------------------------------------------------------
(* The field in ten limbs, with signs.                                     *)
Width(i) == IF i % 2 = 0 THEN W25 + 1 ELSE W25
Carry25(s, i) ==
    Carry(s, i, Width(i), 2^(Width(i) - 1), (i + 1) % 10, IF i = 9 THEN C19 ELSE 1)
FewCarries == <<9, 1, 3, 5, 7, 0, 2, 4, 6, 8>>
MulCarries == <<0, 4, 1, 5, 2, 6, 3, 7, 4, 8, 9, 0>>
Times25(i, j) == (IF i % 2 = 1 /\ j % 2 = 1 THEN 2 ELSE 1) * (IF i + j >= 10 THEN C19 ELSE 1)
Product25(f, g) ==
    Build(LAMBDA k : Total(LAMBDA i : LET j == (k - i) % 10 IN Times25(i, j) * f[i+1] * g[j+1], Upto(0, 1, 10)), 10)
(* Every product of two different limbs once, doubled.                     *)
Square25(f) ==
    LET term(k, i) ==
            LET j == (k - i) % 10
            IN IF i > j THEN 0 ELSE (IF i = j THEN 1 ELSE 2) * Times25(i, j) * f[i+1] * f[j+1]
    IN Build(LAMBDA k : Total(LAMBDA i : term(k, i), Upto(0, 1, 10)), 10)
fe25_add(f, g) == Build(LAMBDA k : f[k+1] + g[k+1], 10)
fe25_sub(f, g) == Build(LAMBDA k : f[k+1] - g[k+1], 10)
fe25_mul(f, g) == Each(Carry25, Product25(f, g), MulCarries)
fe25_sq(f) == Each(Carry25, Square25(f), MulCarries)
fe25_sq2(f) == LET h == Square25(f) IN Each(Carry25, fe25_add(h, h), MulCarries)
fe25_mul32(f, n) == Each(Carry25, Build(LAMBDA k : f[k+1] * n, 10), FewCarries)
(* The limbs as loaded have more bits than their place.                    *)
fe25_frombytes(loaded) == Each(Carry25, loaded, FewCarries)
Quotient25(h) ==
    Each(LAMBDA q, i : (h[i+1] + q) \div 2^Width(i),
             (C19 * h[10] + 2^(W25 - 1)) \div 2^W25, Upto(0, 1, 10))
FloorCarry25(s, i) == Carry(s, i, Width(i), 0, i + 1, 1)
ReduceUnrounded(h) ==
    LET q == Each(LAMBDA p, i : (h[i+1] + p) \div 2^Width(i), 0, Upto(0, 1, 10))
    IN SubSeq(Each(FloorCarry25, [h EXCEPT ![1] = @ + C19 * q] \o <<0>>, Upto(0, 1, 10)), 1, 10)
fe25_reduce(h) ==
    LET shifted == [h EXCEPT ![1] = @ + C19 * Quotient25(h)] \o <<0>>
    IN SubSeq(Each(FloorCarry25, shifted, Upto(0, 1, 10)), 1, 10)

(* What frombytes loads: first byte, bytes, bits of them left out at the   *)
(* top, and the shift to the left.                                         *)
Loads25 == << <<0, 4, 0, 0>>, <<4, 3, 0, 6>>, <<7, 3, 0, 5>>, <<10, 3, 0, 3>>, <<13, 3, 0, 2>>,
              <<16, 4, 0, 0>>, <<20, 3, 0, 7>>, <<23, 3, 0, 5>>, <<26, 3, 0, 4>>, <<29, 3, 1, 2>> >>
ASSUME Loads25Assumption ==
    /\ \A i \in 1..10 : 8 * Loads25[i][1] - Loads25[i][4] = 51 * ((i - 1) \div 2) + 26 * ((i - 1) % 2)
    /\ \A i \in 1..9 : Loads25[i][1] + Loads25[i][2] = Loads25[i+1][1]
    /\ 8 * (Loads25[10][1] + Loads25[10][2]) - Loads25[10][3] = 255

-----------------------------------------------------------------------------
(* The field in five limbs, without signs.                                 *)
Carry51(s, i) == Carry(s, i, W51, 0, (i + 1) % 5, IF i = 4 THEN C19 ELSE 1)
Masked(s) == [s EXCEPT ![5] = @ % 2^W51]
Product51(f, g) ==
    Build(LAMBDA k : Total(LAMBDA i : LET j == (k - i) % 5
                                      IN (IF i + j >= 5 THEN C19 ELSE 1) * f[i+1] * g[j+1], Upto(0, 1, 5)), 5)
fe51_add(f, g) == Build(LAMBDA k : f[k+1] + g[k+1], 5)
SubUncarried(f, g) ==
    Build(LAMBDA k : (f[k+1] + 2^(W51 + 1) - (IF k = 0 THEN 2 * C19 ELSE 2)) - g[k+1], 5)
(* The subtrahend is carried, and taken from twice the prime.              *)
fe51_sub(f, g) ==
    LET h == Each(Carry51, g, Upto(0, 1, 5))
    IN Build(LAMBDA k : (f[k+1] + 2^(W51 + 1) - (IF k = 0 THEN 2 * C19 ELSE 2)) - h[k+1], 5)
fe51_mul(f, g) == Each(Carry51, Product51(f, g), <<0, 1, 2, 3, 4, 0, 1>>)
fe51_sq2(f) == LET r == Product51(f, f) IN Each(Carry51, fe51_add(r, r), <<0, 1, 2, 3, 4, 0, 1>>)
fe51_mul32(f, n) == Each(Carry51, Build(LAMBDA k : f[k+1] * n, 5), Upto(0, 1, 5))
(* Carried twice; then a number from P on is brought to 2^255 and dropped  *)
(* there, by adding 19 and taking it off again.                            *)
fe51_reduce(f) ==
    LET all(s) == Each(Carry51, s, Upto(0, 1, 5))
        up == all([all(all(f)) EXCEPT ![1] = @ + C19])
        off == Build(LAMBDA k : up[k+1] + 2^W51 - (IF k = 0 THEN C19 ELSE 1), 5)
    IN Masked(Each(Carry51, off, Upto(0, 1, 4)))

-----------------------------------------------------------------------------
(* Powers by fixed sequences of multiplications, as the exponents they     *)
(* make: a multiplication adds exponents and a squaring doubles one.  The  *)
(* exponents are of the size of the source, 2^255; they are computed       *)
(* modulo q, for several q whose product is above 2^256.                   *)
(* A tower: n squarings, then a multiplication.                            *)
Mul(x, y, q) == (x + y) % q
RECURSIVE Squared(_, _, _)
Squared(x, n, q) == IF n <= 8 THEN (x * 2^n) % q ELSE Squared((x * 256) % q, n - 8, q)
sqmul(x, n, y, q) == Mul(Squared(x, n, q), y, q)

(* 2^250 - 1, from 9 and 11, as both invert and pow22523 make it.          *)
Ones250(t9, t11, q) ==
    LET e5 == Mul(t9, Squared(t11, 1, q), q)
        e10 == sqmul(e5, 5, e5, q)
        e20 == sqmul(e10, 10, e10, q)
        e40 == sqmul(e20, 20, e20, q)
        e50 == sqmul(e40, 10, e10, q)
        e100 == sqmul(e50, 50, e50, q)
        e200 == sqmul(e100, 100, e100, q)
    IN sqmul(e200, 50, e50, q)
Nine(q) == Mul(1, Squared(2 % q, 2, q), q)
invert_exponent(q) ==
    LET t11 == Mul(2, Nine(q), q) IN sqmul(Ones250(Nine(q), t11, q), 5, t11, q)
pow22523_exponent(q) == sqmul(Ones250(Nine(q), Mul(2, Nine(q), q), q), 2, 1, q)
notsquare_exponent(q) ==
    LET e4 == sqmul(3, 2, 3, q)
        e8 == sqmul(e4, 4, e4, q)
        u == sqmul(e8, 2, 3, q)
        v == sqmul(sqmul(u, 10, u, q), 10, u, q)
        w == sqmul(v, 30, v, q)
        x == sqmul(w, 60, w, q)
        y == sqmul(sqmul(x, 120, x, q), 10, u, q)
    IN Squared(sqmul(y, 3, 3, q), 1, q)

(* The small powers of sc25519_invert are named by their bits there; here  *)
(* by number.  Each is the sum of two that were made before.               *)
SmallPowers ==
    << <<2, 1, 1>>, <<3, 1, 2>>, <<4, 1, 3>>, <<8, 4, 4>>, <<10, 2, 8>>, <<11, 1, 10>>, <<16, 8, 8>>,
       <<22, 11, 11>>, <<32, 10, 22>>, <<38, 16, 22>>, <<64, 32, 32>>, <<80, 16, 64>>, <<83, 3, 80>>,
       <<99, 16, 83>>, <<103, 4, 99>>, <<107, 4, 103>>, <<147, 64, 83>>, <<151, 4, 147>>, <<189, 38, 151>>,
       <<211, 22, 189>>, <<231, 80, 151>>, <<235, 4, 231>>, <<245, 10, 235>> >>
ASSUME SmallPowersAssumption ==
    \A k \in 1..Len(SmallPowers) :
        /\ SmallPowers[k][1] = SmallPowers[k][2] + SmallPowers[k][3]
        /\ {SmallPowers[k][2], SmallPowers[k][3]} \subseteq {1} \cup {SmallPowers[j][1] : j \in 1..(k-1)}
WithoutThe245(q) ==
    LET first == sqmul(sqmul(Mul(11, 245, q), 126, 83, q), 9, 2, q)
        steps == << <<7, 103>>, <<9, 245>>, <<11, 189>>, <<8, 231>>, <<9, 107>>, <<6, 11>>, <<14, 147>>,
                    <<10, 99>>, <<9, 151>>, <<10, 245>>, <<8, 211>>, <<8, 235>> >>
    IN FoldLeft(LAMBDA e, s : sqmul(e, s[1], s[2], q), first, steps)
sc_invert_exponent(q) ==
    LET first == sqmul(sqmul(Mul(11, 245, q), 126, 83, q), 9, 2, q)
        steps == << <<7, 103>>, <<9, 245>>, <<11, 189>>, <<8, 231>>, <<9, 107>>, <<6, 11>>, <<14, 147>>,
                    <<10, 99>>, <<9, 151>>, <<10, 245>>, <<8, 211>>, <<8, 235>> >>
    IN FoldLeft(LAMBDA e, s : sqmul(e, s[1], s[2], q), Mul(first, 245, q), steps)

-----------------------------------------------------------------------------
(* The order of the group as the source writes it: the bytes of            *)
(* core_ed25519.c from the top, and the digits of ge25519_mul_l, those     *)
(* that are not 0, with their places.                                      *)
LBytes == <<16, 0, 0, 0, 0, 0, 0, 0, 0, 0, 0, 0, 0, 0, 0, 0, 20, 222, 249, 222, 162, 247, 156, 214,
            88, 18, 99, 26, 92, 245, 211, 237>>
LDigits == << <<0, 13>>, <<5, -1>>, <<10, -11>>, <<17, -5>>, <<24, -3>>,
              <<29, -13>>, <<34, 7>>, <<40, 3>>, <<45, -13>>,
              <<50, 5>>, <<59, 11>>, <<65, 11>>, <<70, -13>>,
              <<77, -3>>, <<83, -1>>, <<88, 3>>, <<93, -11>>,
              <<101, 15>>, <<107, -1>>, <<112, -1>>, <<117, 7>>,
              <<122, 5>>, <<252, 1>> >>
order_by_bytes(q) == FoldLeft(LAMBDA v, b : (v * 256 + b) % q, 0, LBytes)
order_by_digits(q) == FoldLeft(LAMBDA v, d : (v + Squared(1, d[1], q) * d[2]) % q, 0, LDigits)
(* And the fold of Limbs, with the six numbers of sc25519_reduce.          *)
order_by_fold(q) ==
    LET c == <<666643, 470296, 654183, -997805, 136657, -683901>>
    IN (Squared(1, 252, q) - FoldLeft(LAMBDA v, k : (Squared(v, 21, q) + c[k]) % q, 0, <<6, 5, 4, 3, 2, 1>>)) % q
=============================================================================
