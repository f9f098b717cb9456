------------------------------ MODULE CurveApi ------------------------------
(***************************************************************************)
(* The functions of the API over the two forms of the curve: X25519, the   *)
(* group and the scalars of edwards25519, Elligator 2, Ed25519, and        *)
(* ristretto255: the encoding of the points of edwards25519 up to their    *)
(* torsion, the map from hashes, and the functions of its API.             *)
(*                                                                         *)
(* Calls return a record: ok for the result 0, and out for what the        *)
(* function wrote.                                                         *)
(***************************************************************************)
EXTENDS Edwards

Clamp(n) == (n % 2^(Bits - 2)) - (n % 8) + 2^(Bits - 2)
TopKept(n) == n
TopCleared(n) == n % 2^(Bits - 1)
Failed == [ok |-> FALSE, out |-> 0]

-----------------------------------------------------------------------------
(* X25519.                                                                 *)
a24 == (A + 2) ** fe25519_invert(4)
order8u == {u \in Fe : Sq(Sq(u) -- 1) = (4 ** u) ** ((Sq(u) ++ (A ** u)) ++ 1)}
has_small_order(s) == Coordinate(s) \in {0, 1, P - 1, P, P + 1} \cup order8u

Swapped(w, b) == IF b = 1 THEN [x2 |-> w.x3, z2 |-> w.z3, x3 |-> w.x2, z3 |-> w.z2] ELSE w
LadderStep(x1, w) ==
    LET da == (w.x3 -- w.z3) ** (w.x2 ++ w.z2)
        cb == (w.x3 ++ w.z3) ** (w.x2 -- w.z2)
        bb == Sq(w.x2 -- w.z2)
        aa == Sq(w.x2 ++ w.z2)
        e  == aa -- bb
    IN [x2 |-> aa ** bb, z2 |-> e ** (bb ++ (e ** a24)), x3 |-> Sq(da ++ cb), z3 |-> x1 ** Sq(da -- cb)]

(* The exchange is put off to the next bit, which may undo it.             *)
Exchanged(s, b) == Swapped(s.w, b)
ExchangeLate(s, b) == Swapped(s.w, (s.swap + b) % 2)
Ladder(t, x1) ==
    LET step(s, i) == [w |-> LadderStep(x1, ExchangeLate(s, bit(t, i))), swap |-> bit(t, i)]
        s == FoldLeft(step, [w |-> [x2 |-> 1, z2 |-> 0, x3 |-> x1, z3 |-> 1], swap |-> 0], Down(Bits - 1))
    IN Swapped(s.w, s.swap)
crypto_scalarmult_curve25519_ref10(n, p) ==
    IF has_small_order(p) THEN Failed
    ELSE LET w == Ladder(Clamp(n), fe25519_frombytes(p))
         IN [ok |-> TRUE, out |-> w.x2 ** fe25519_invert(w.z2)]
X25519Unchecked(n, p) == crypto_scalarmult_curve25519_ref10(n, p)
crypto_scalarmult_curve25519(n, p) ==
    LET r == crypto_scalarmult_curve25519_ref10(n, p)
    IN [ok |-> r.ok /\ r.out # 0, out |-> r.out]

edwards_to_montgomery(h) == (h.Z ++ h.Y) ** fe25519_invert(h.Z -- h.Y)
crypto_scalarmult_curve25519_base(n) ==
    [ok |-> TRUE, out |-> edwards_to_montgomery(ge25519_scalarmult_base(Clamp(n)))]

-----------------------------------------------------------------------------
(* Points of edwards25519.                                                 *)
ValidInAnyForm(s) ==
    /\ ~ge25519_has_small_order(s)
    /\ ge25519_frombytes(s).ok /\ ge25519_is_on_main_subgroup(ge25519_frombytes(s).h)
crypto_core_ed25519_is_valid_point(s) ==
    /\ ge25519_is_canonical(s) /\ ~ge25519_has_small_order(s)
    /\ ge25519_frombytes(s).ok
    /\ ge25519_is_on_curve(ge25519_frombytes(s).h)
    /\ ge25519_is_on_main_subgroup(ge25519_frombytes(s).h)

Decoded(s) == ge25519_frombytes(s).ok /\ ge25519_is_on_curve(ge25519_frombytes(s).h)
crypto_core_ed25519_add(p, q) ==
    IF ~(Decoded(p) /\ Decoded(q)) THEN Failed
    ELSE [ok |-> TRUE, out |-> ge25519_p3_tobytes(
             ToP3(ge25519_add(ge25519_frombytes(p).h, ToCached(ge25519_frombytes(q).h))))]
SubReversed(p, q) ==
    IF ~(Decoded(p) /\ Decoded(q)) THEN Failed
    ELSE [ok |-> TRUE, out |-> ge25519_p3_tobytes(
             ToP3(ge25519_sub(ge25519_frombytes(q).h, ToCached(ge25519_frombytes(p).h))))]
crypto_core_ed25519_sub(p, q) ==
    IF ~(Decoded(p) /\ Decoded(q)) THEN Failed
    ELSE [ok |-> TRUE, out |-> ge25519_p3_tobytes(
             ToP3(ge25519_sub(ge25519_frombytes(p).h, ToCached(ge25519_frombytes(q).h))))]

is_inf(s) == Coordinate(s) = 1
(* The scalar is looked at again after the result is written: by then it   *)
(* is the result, when the caller passes one array for both.               *)
Finished(q, n, inPlace) == [ok |-> ~is_inf(q) /\ (IF inPlace THEN q ELSE n) # 0, out |-> q]
crypto_scalarmult_ed25519(n, p, clamp, inPlace) ==
    IF \/ ~ge25519_is_canonical(p) \/ ge25519_has_small_order(p)
       \/ ~ge25519_frombytes(p).ok \/ ~ge25519_is_on_main_subgroup(ge25519_frombytes(p).h)
    THEN Failed
    ELSE Finished(ge25519_p3_tobytes(ge25519_scalarmult(
                      TopCleared(IF clamp THEN Clamp(n) ELSE n), ge25519_frombytes(p).h)), n, inPlace)
crypto_scalarmult_ed25519_base(n, clamp, inPlace) ==
    Finished(ge25519_p3_tobytes(ge25519_scalarmult_base(TopCleared(IF clamp THEN Clamp(n) ELSE n))), n, inPlace)

-----------------------------------------------------------------------------
(* Scalars.                                                                *)
CanonicalByBits(s) == s < 2^(Bits - 3)
sc25519_is_canonical(s) ==
    LET digit(v, i) == (v \div 16^i) % 16
        step(c, i) == [less |-> c.less \/ (c.same /\ digit(s, i) < digit(L, i)),
                       same |-> c.same /\ digit(s, i) = digit(L, i)]
    IN FoldLeft(step, [less |-> FALSE, same |-> TRUE], Down(Nibbles)).less
sc25519_reduce(s) == s % L
sc25519_mul(a, b) == (a * b) % L
sc25519_muladd(a, b, c) == (a * b + c) % L
sc25519_invert(s) ==
    LET p[i \in 0..(L - 2)] == IF i = 0 THEN 1 ELSE (p[i-1] * s) % L IN p[L - 2]

(* Draws are repeated until one of them is kept.                           *)
crypto_core_ed25519_scalar_random(draw) ==
    LET r == draw % 2^(Bits - 3) IN [ok |-> sc25519_is_canonical(r) /\ r # 0, out |-> r]
crypto_core_ed25519_scalar_invert(s) == [ok |-> s # 0, out |-> sc25519_invert(s)]
NegateShort(s) == sc25519_reduce((L + 2^Bits - s) % 2^Bits)
crypto_core_ed25519_scalar_negate(s) == sc25519_reduce(L * 2^Bits - s)
crypto_core_ed25519_scalar_complement(s) == sc25519_reduce(L * 2^Bits + 1 - s)
crypto_core_ed25519_scalar_add(x, y) == sc25519_reduce((x + y) % 2^Bits)
crypto_core_ed25519_scalar_sub(x, y) ==
    crypto_core_ed25519_scalar_add(x, crypto_core_ed25519_scalar_negate(y))

-----------------------------------------------------------------------------
(* Elligator 2: from a number to a point of the main subgroup.             *)
ge25519_clear_cofactor(p) ==
    ToP3(ge25519_p2_dbl(ToP2(ge25519_p2_dbl(ToP2(ge25519_p2_dbl(p))))))
Elligator2Unshifted(r, sign) ==
    LET x0 == Neg(fe25519_invert((2 ** Sq(r)) ++ 1) ** A)
        gx == (Sq(x0) ** A) ++ ((Sq(x0) ** x0) ++ x0)
        x == IF fe25519_notsquare(gx) THEN Neg(x0) ELSE x0
        point == ge25519_frombytes(((x -- 1) ** fe25519_invert(x ++ 1)) + (IF sign THEN Cap ELSE 0))
    IN [ok |-> point.ok, out |-> ge25519_p3_tobytes(ge25519_clear_cofactor(point.h))]
ge25519_elligator2(r, sign) ==
    LET rr2 == fe25519_invert((2 ** Sq(r)) ++ 1)
        x0 == Neg(rr2 ** A)
        gx == (Sq(x0) ** A) ++ ((Sq(x0) ** x0) ++ x0)
        x == IF fe25519_notsquare(gx) THEN Neg(x0) -- A ELSE x0
        yed == (x -- 1) ** fe25519_invert(x ++ 1)
        point == ge25519_frombytes(yed + (IF sign THEN Cap ELSE 0))
    IN [ok |-> point.ok, out |-> ge25519_p3_tobytes(ge25519_clear_cofactor(point.h))]
ge25519_from_uniform(s) == ge25519_elligator2(fe25519_frombytes(s), Sign(s))

(* The two halves of a hash, each with its bytes reversed: the lower one   *)
(* gives the sign, too, and the top bit of the upper one counts.           *)
ge25519_from_hash(upper, lower) ==
    LET f == fe25519_frombytes(upper) + (IF Sign(upper) THEN 19 ELSE 0) + 38 * fe25519_frombytes(lower)
    IN ge25519_elligator2(f % P, Sign(lower))
-----------------------------------------------------------------------------
(***************************************************************************)
(* Ed25519: key pairs, signing and verifying, the conversion of the keys   *)
(* for X25519, and the older scheme of obsolete.c.                         *)
(*                                                                         *)
(* SHA-512 is the constant operator Hash, of the domain (the prefix of a   *)
(* prehashed message or nothing) and of what is hashed.  A secret key is   *)
(* the record of the two halves of the hash of its seed (a scalar and a    *)
(* prefix) and of the public key that is stored behind the seed.           *)
(***************************************************************************)
CONSTANT Hash(_, _)

crypto_sign_ed25519_seed_keypair(scalar, prefix) ==
    LET pk == ge25519_p3_tobytes(ge25519_scalarmult_base(Clamp(scalar)))
    IN [pk |-> pk, sk |-> [scalar |-> scalar, prefix |-> prefix, pk |-> pk]]

(* The nonce is a hash of the prefix and the message; the public key is    *)
(* put in the place of S while R and it are hashed.                        *)
DetachedHalfPrehashed(m, sk, prehashed) ==
    LET nonce == sc25519_reduce(Hash(prehashed, <<sk.prefix, m>>))
        R == ge25519_p3_tobytes(ge25519_scalarmult_base(nonce))
        hram == sc25519_reduce(Hash(FALSE, <<R, sk.pk, m>>))
    IN [R |-> R, S |-> sc25519_muladd(hram, Clamp(sk.scalar), nonce)]
crypto_sign_ed25519_detached(m, sk, prehashed) ==
    LET nonce == sc25519_reduce(Hash(prehashed, <<sk.prefix, m>>))
        R == ge25519_p3_tobytes(ge25519_scalarmult_base(nonce))
        hram == sc25519_reduce(Hash(prehashed, <<R, sk.pk, m>>))
    IN [R |-> R, S |-> sc25519_muladd(hram, Clamp(sk.scalar), nonce)]

crypto_sign_ed25519_verify_detached(sig, m, pk, prehashed) ==
    LET minusA == ge25519_frombytes_negate_vartime(pk)
        h == sc25519_reduce(Hash(prehashed, <<sig.R, pk, m>>))
    IN /\ sc25519_is_canonical(sig.S) /\ ~ge25519_has_small_order(sig.R)
       /\ ge25519_is_canonical(pk) /\ ~ge25519_has_small_order(pk)
       /\ minusA.ok
       /\ ge25519_tobytes(ge25519_double_scalarmult_vartime(h, minusA.h, sig.S)) = sig.R

(* A message is given out, and its length, only if its signature is right. *)
(* What is too short leaves the buffer of the message alone; that the rest *)
(* exceeds the maximum cannot be where lengths and sizes have 64 bits.     *)
crypto_sign_ed25519_open(sm, pk) ==
    IF sm.len < 64 THEN [ok |-> FALSE, mlen |-> 0]
    ELSE IF ~crypto_sign_ed25519_verify_detached(sm.sig, sm.m, pk, FALSE)
    THEN [ok |-> FALSE, m |-> 0, mlen |-> 0]
    ELSE [ok |-> TRUE, m |-> sm.m, mlen |-> sm.len - 64]
crypto_sign_ed25519(m, mlen, sk) ==
    [sig |-> crypto_sign_ed25519_detached(m, sk, FALSE), m |-> m, len |-> mlen + 64]

PkToCurveOfAny(pk) ==
    LET a == ge25519_frombytes_negate_vartime(pk)
    IN IF ~a.ok \/ ~ge25519_is_on_main_subgroup(a.h) THEN Failed
       ELSE [ok |-> TRUE, out |-> (1 ++ a.h.Y) ** fe25519_invert(1 -- a.h.Y)]
crypto_sign_ed25519_pk_to_curve25519(pk) ==
    LET a == ge25519_frombytes_negate_vartime(pk)
    IN IF ge25519_has_small_order(pk) \/ ~a.ok \/ ~ge25519_is_on_main_subgroup(a.h) THEN Failed
       ELSE [ok |-> TRUE, out |-> (1 ++ a.h.Y) ** fe25519_invert(1 -- a.h.Y)]
crypto_sign_ed25519_sk_to_curve25519(sk) == Clamp(sk.scalar)

-----------------------------------------------------------------------------
(* obsolete.c: the secret key is the hash itself, the challenge does not   *)
(* cover the public key, and S = h r + a in place of h a + r.              *)
batch_keypair(scalar, prefix) ==
    LET a == Clamp(scalar)
    IN [pk |-> ge25519_p3_tobytes(ge25519_scalarmult_base(a)), sk |-> [scalar |-> a, prefix |-> prefix]]
crypto_sign_edwards25519sha512batch(m, sk) ==
    LET nonce == sc25519_reduce(Hash(FALSE, <<sk.prefix, m>>))
        R == ge25519_p3_tobytes(ge25519_scalarmult_base(nonce))
        hram == sc25519_reduce(Hash(FALSE, <<R, m>>))
    IN [R |-> R, m |-> m, S |-> sc25519_muladd(hram, nonce, sk.scalar)]
Negated(s) == IF Sign(s) THEN s - Cap ELSE s + Cap
crypto_sign_edwards25519sha512batch_open(sm, pk) ==
    LET minusA == ge25519_frombytes_negate_vartime(pk)
        minusR == ge25519_frombytes_negate_vartime(sm.R)
        h == sc25519_reduce(Hash(FALSE, <<sm.R, sm.m>>))
        cs == ge25519_add(ge25519_scalarmult(h, minusR.h), ToCached(minusA.h))
    IN /\ sm.S < 2^(Bits - 3)
       /\ ~ge25519_has_small_order(pk) /\ minusA.ok
       /\ ~ge25519_has_small_order(sm.R) /\ minusR.ok
       /\ Negated(ge25519_tobytes(ToP2(cs))) = ge25519_p3_tobytes(ge25519_scalarmult_base(sm.S))

-----------------------------------------------------------------------------
ristretto255_sqrt_ratio_m1(u, v) ==
    LET v3 == Sq(v) ** v
        x == (fe25519_pow22523((Sq(v3) ** v) ** u) ** v3) ** u
        vxx == Sq(x) ** v
        flipped == vxx ++ u = 0 \/ vxx ++ (u ** sqrtm1) = 0
    IN [square |-> vxx -- u = 0 \/ vxx ++ u = 0, root |-> Abs(IF flipped THEN x ** sqrtm1 ELSE x)]

ristretto255_is_canonical(s) == ge25519_is_canonical(s) /\ ~Sign(s) /\ s % 2 = 0
ristretto255_frombytes(s) ==
    LET ss == Sq(fe25519_frombytes(s))
        u1 == 1 -- ss
        u2 == 1 ++ ss
        v == Neg(D ** Sq(u1)) -- Sq(u2)
        inv == ristretto255_sqrt_ratio_m1(1, v ** Sq(u2))
        x == inv.root ** u2
        X == Abs(2 ** (x ** fe25519_frombytes(s)))
        Y == u1 ** ((inv.root ** x) ** v)
    IN IF ~ristretto255_is_canonical(s) THEN [ok |-> FALSE, h |-> p3_0]
       ELSE [ok |-> inv.square /\ ~IsNegative(X ** Y) /\ Y # 0,
             h |-> [X |-> X, Y |-> Y, Z |-> 1, T |-> X ** Y]]

TobytesUnrotated(h) ==
    LET u2 == h.X ** h.Y
        root == ristretto255_sqrt_ratio_m1(1, ((h.Z ++ h.Y) ** (h.Z -- h.Y)) ** Sq(u2)).root
        z_inv == ((root ** ((h.Z ++ h.Y) ** (h.Z -- h.Y))) ** (root ** u2)) ** h.T
    IN Abs((root ** u2) ** (h.Z -- (IF IsNegative(h.X ** z_inv) THEN Neg(h.Y) ELSE h.Y)))
ristretto255_p3_tobytes(h) ==
    LET u1 == (h.Z ++ h.Y) ** (h.Z -- h.Y)
        u2 == h.X ** h.Y
        root == ristretto255_sqrt_ratio_m1(1, u1 ** Sq(u2)).root
        den1 == root ** u1
        den2 == root ** u2
        z_inv == (den1 ** den2) ** h.T
        rotate == IsNegative(h.T ** z_inv)
        x == IF rotate THEN h.Y ** sqrtm1 ELSE h.X
        y == IF rotate THEN h.X ** sqrtm1 ELSE h.Y
        den == IF rotate THEN den1 ** constants.invsqrtamd ELSE den2
    IN Abs(den ** (h.Z -- (IF IsNegative(x ** z_inv) THEN Neg(y) ELSE y)))

ElligatorKeepingOne(t) ==
    LET r == sqrtm1 ** Sq(t)
        v == (Neg(1) -- (r ** D)) ** (r ++ D)
        ratio == ristretto255_sqrt_ratio_m1((r ++ 1) ** constants.onemsqd, v)
        s == IF ratio.square THEN ratio.root ELSE Neg(Abs(ratio.root ** t))
        n == ((Neg(1) ** (r -- 1)) ** constants.sqdmone) -- v
    IN [X |-> ((s ++ s) ** v) ** (1 ++ Sq(s)), Y |-> (1 -- Sq(s)) ** (n ** constants.sqrtadm1),
        Z |-> (n ** constants.sqrtadm1) ** (1 ++ Sq(s)), T |-> ((s ++ s) ** v) ** (1 -- Sq(s))]
ristretto255_elligator(t) ==
    LET r == sqrtm1 ** Sq(t)
        u == (r ++ 1) ** constants.onemsqd
        v == (Neg(1) -- (r ** D)) ** (r ++ D)
        ratio == ristretto255_sqrt_ratio_m1(u, v)
        s == IF ratio.square THEN ratio.root ELSE Neg(Abs(ratio.root ** t))
        c == IF ratio.square THEN Neg(1) ELSE r
        n == ((c ** (r -- 1)) ** constants.sqdmone) -- v
        w0 == (s ++ s) ** v
        w1 == n ** constants.sqrtadm1
        w2 == 1 -- Sq(s)
        w3 == 1 ++ Sq(s)
    IN [X |-> w0 ** w3, Y |-> w2 ** w1, Z |-> w1 ** w3, T |-> w0 ** w2]
ristretto255_from_hash(first, second) ==
    ristretto255_p3_tobytes(ToP3(ge25519_add(
        ristretto255_elligator(fe25519_frombytes(first)),
        ToCached(ristretto255_elligator(fe25519_frombytes(second))))))

crypto_core_ristretto255_is_valid_point(s) == ristretto255_frombytes(s).ok
crypto_core_ristretto255_add(p, q) ==
    IF ~(ristretto255_frombytes(p).ok /\ ristretto255_frombytes(q).ok) THEN Failed
    ELSE [ok |-> TRUE, out |-> ristretto255_p3_tobytes(
             ToP3(ge25519_add(ristretto255_frombytes(p).h, ToCached(ristretto255_frombytes(q).h))))]
crypto_core_ristretto255_sub(p, q) ==
    IF ~(ristretto255_frombytes(p).ok /\ ristretto255_frombytes(q).ok) THEN Failed
    ELSE [ok |-> TRUE, out |-> ristretto255_p3_tobytes(
             ToP3(ge25519_sub(ristretto255_frombytes(p).h, ToCached(ristretto255_frombytes(q).h))))]

crypto_scalarmult_ristretto255(n, p) ==
    IF ~ristretto255_frombytes(p).ok THEN Failed
    ELSE LET q == ristretto255_p3_tobytes(ge25519_scalarmult(TopCleared(n), ristretto255_frombytes(p).h))
         IN [ok |-> q # 0, out |-> q]
crypto_scalarmult_ristretto255_base(n) ==
    LET q == ristretto255_p3_tobytes(ge25519_scalarmult_base(TopCleared(n)))
    IN [ok |-> q # 0, out |-> q]
=============================================================================
