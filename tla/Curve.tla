-------------------------------- MODULE Curve --------------------------------
(***************************************************************************)
(* What the functions of Edwards and CurveApi promise.  A walk goes from   *)
(* point to point by the additions and doublings, in whatever              *)
(* representation they leave the point in; an application calls a function *)
(* with an input out of Inputs.  Both are compared with a group that is    *)
(* defined apart from the code: the affine points, added by the law of the *)
(* curve.                                                                  *)
(***************************************************************************)
EXTENDS CurveApi, Limbs

CONSTANTS
    Inputs,     \* the calls, records with the name of the function in op
    Answer(_),  \* what a call returns: Result, see MCCurve
    Strides,    \* what the walk adds: these multiples of the generator
    Factors21,  \* the prime factors of the modulus of the scalars in limbs
    Factors25   \* and of the modulus of the field in limbs

VARIABLES
    h, n,       \* the walk: a point as p3, and the multiple it should be
    call, out   \* a call and what it returned, or NoCall and nothing

vars == <<h, n, call, out>>
NoCall == [op |-> "none"]
Pending == [op |-> "pending"]

-----------------------------------------------------------------------------
AllEncodings == 0..(2 * Cap - 1)
(* The point an encoding stands for, where it does.                        *)
Denotes(s, k) == multiple(k)[2] = Coordinate(s) % P
                 /\ (IsNegative(multiple(k)[1]) = Sign(s) \/ multiple(k)[1] = 0)
Montgomery(k) == (1 ++ multiple(k)[2]) ** inverse[1 -- multiple(k)[2]]

-----------------------------------------------------------------------------
(* The walk.                                                               *)
Walking == call = NoCall /\ UNCHANGED <<call, out>>
To(p, k) == h' = p /\ n' = k % Order
Add(k) == Walking /\ To(ToP3(ge25519_add(h, ToCached(Point(k)))), n + k)
Sub(k) == Walking /\ To(ToP3(ge25519_sub(h, ToCached(Point(k)))), n + Order - k)
Madd(k) == Walking /\ To(ToP3(ge25519_madd(h, ToPrecomp(Point(k)))), n + k)
Msub(k) == Walking /\ To(ToP3(ge25519_msub(h, ToPrecomp(Point(k)))), n + Order - k)
Dbl == Walking /\ To(Doubled(h), 2 * n)
AddItself == Walking /\ To(ToP3(ge25519_add(h, ToCached(h))), 2 * n)
Recoded == Walking /\ To(ge25519_frombytes(ge25519_p3_tobytes(h)).h, n)
Negate == Walking /\ To(ge25519_frombytes_negate_vartime(ge25519_p3_tobytes(h)).h, Order - n)

-----------------------------------------------------------------------------
(* The calls: each function of the input's kind, and its results.          *)
Verified(c, sig, pk) == crypto_sign_ed25519_verify_detached(sig, c.m, pk, c.ph)
Result(c) ==
  CASE c.op = "digits" -> [e |-> Recode(c.a), slide |-> slide_vartime(c.a)]
    [] c.op = "mult" -> [p |-> ge25519_scalarmult(c.a, Point(c.k)), b |-> ge25519_scalarmult_base(c.a)]
    [] c.op = "double" -> [p |-> ge25519_tobytes(ge25519_double_scalarmult_vartime(c.a, Point(c.k), c.b))]
    [] c.op = "dh" ->
         LET a == crypto_scalarmult_curve25519(c.a, c.u)
             b == crypto_scalarmult_curve25519(c.b, c.u)
         IN [a |-> a, b |-> b, ab |-> crypto_scalarmult_curve25519(c.a, b.out),
             ba |-> crypto_scalarmult_curve25519(c.b, a.out),
             base |-> crypto_scalarmult_curve25519_base(c.a)]
    [] c.op = "point" ->
         [p |-> ge25519_frombytes(c.s), q |-> ge25519_frombytes_negate_vartime(c.s),
          canonical |-> ge25519_is_canonical(c.s), small |-> ge25519_has_small_order(c.s),
          valid |-> crypto_core_ed25519_is_valid_point(c.s),
          conv |-> crypto_sign_ed25519_pk_to_curve25519(c.s),
          up |-> ge25519_from_uniform(c.s), rv |-> crypto_core_ristretto255_is_valid_point(c.s),
          r |-> ristretto255_frombytes(c.s)]
    [] c.op = "edwards" ->
         [add |-> crypto_core_ed25519_add(c.s, c.t), sub |-> crypto_core_ed25519_sub(c.s, c.t),
          hash |-> ge25519_from_hash(c.s, c.t),
          radd |-> crypto_core_ristretto255_add(c.s, c.t), rsub |-> crypto_core_ristretto255_sub(c.s, c.t),
          rhash |-> ristretto255_from_hash(c.s, c.t)]
    [] c.op = "times" ->
         [q |-> crypto_scalarmult_ed25519(c.a, c.s, c.clamp, c.inPlace),
          b |-> crypto_scalarmult_ed25519_base(c.a, c.clamp, c.inPlace),
          r |-> crypto_scalarmult_ristretto255(c.a, c.s), rb |-> crypto_scalarmult_ristretto255_base(c.a)]
    [] c.op = "scalars" ->
         [neg |-> crypto_core_ed25519_scalar_negate(c.a), comp |-> crypto_core_ed25519_scalar_complement(c.a),
          add |-> crypto_core_ed25519_scalar_add(c.a, c.b), sub |-> crypto_core_ed25519_scalar_sub(c.a, c.b),
          inv |-> crypto_core_ed25519_scalar_invert(c.a), canonical |-> sc25519_is_canonical(c.a),
          random |-> crypto_core_ed25519_scalar_random(c.a)]
    [] c.op = "sign" ->
         LET key == crypto_sign_ed25519_seed_keypair(c.a, c.prefix)
             sig == crypto_sign_ed25519_detached(c.m, key.sk, c.ph)
             old == batch_keypair(c.a, c.prefix)
             sm == crypto_sign_edwards25519sha512batch(c.m, old.sk)
         IN [pk |-> key.pk, sig |-> sig, good |-> Verified(c, sig, key.pk),
             others |-> {S \in c.tries : Verified(c, [sig EXCEPT !.S = S], key.pk)},
             curve |-> crypto_sign_ed25519_pk_to_curve25519(key.pk),
             own |-> crypto_scalarmult_curve25519_base(crypto_sign_ed25519_sk_to_curve25519(key.sk)),
             openable |-> crypto_sign_ed25519(c.m, c.prefix, key.sk).sig.R # Encoding(0),
             open |-> crypto_sign_ed25519_open(crypto_sign_ed25519(c.m, c.prefix, key.sk), key.pk),
             old |-> sm, oldGood |-> crypto_sign_edwards25519sha512batch_open(sm, old.pk)]
    [] c.op = "chain" ->
         [invert |-> invert_exponent(c.q), pow22523 |-> pow22523_exponent(c.q),
          notsquare |-> notsquare_exponent(c.q), sc |-> sc_invert_exponent(c.q),
          orders |-> {order_by_bytes(c.q), order_by_digits(c.q), order_by_fold(c.q)}]
    [] c.op = "limbs21" ->
         [mul |-> limbs_mul(c.a, c.b), muladd |-> limbs_muladd(c.a, c.b, c.c),
          reduce |-> limbs_reduce(c.a \o c.b)]
    [] c.op = "limbs25" ->
         [mul |-> fe25_mul(c.f, c.g), sq |-> fe25_sq(c.f), sq2 |-> fe25_sq2(c.f), mul32 |-> fe25_mul32(c.f, c.n),
          sum |-> fe25_add(c.f, c.g), diff |-> fe25_sub(c.f, c.g), loaded |-> fe25_frombytes(c.f),
          reduced |-> fe25_reduce(c.g)]
    [] c.op = "limbs51" ->
         [mul |-> fe51_mul(c.f, c.g), sq2 |-> fe51_sq2(c.f), mul32 |-> fe51_mul32(c.f, c.n),
          sum |-> fe51_add(c.f, c.g), diff |-> fe51_sub(c.f, c.g), reduced |-> fe51_reduce(c.f)]
Compute == call # NoCall /\ out = Pending /\ out' = Answer(call) /\ UNCHANGED <<h, n, call>>
Return == out # Pending /\ call # NoCall /\ out' = Pending /\ UNCHANGED <<h, n, call>>

Init ==
    /\ h = p3_0 /\ n = 0 /\ out = Pending
    /\ call \in {NoCall} \cup Inputs
Next ==
    \/ \E k \in Strides : Add(k) \/ Sub(k) \/ Madd(k) \/ Msub(k)
    \/ Dbl \/ AddItself \/ Recoded \/ Negate
    \/ Compute \/ Return
Spec == Init /\ [][Next]_vars

-----------------------------------------------------------------------------
Returned(op) == call.op = op /\ out # Pending
Value(digits, w) == FoldLeft(LAMBDA v, i : v * w + digits[i], 0, Down(Cardinality(DOMAIN digits)))

(* Type invariant: coordinates are reduced, the walk knows where it is.    *)
TypeOK ==
    /\ h \in [X : Fe, Y : Fe, Z : Fe \ {0}, T : Fe] /\ n \in 0..(Order - 1)
    /\ out = Pending \/ call # NoCall

(* However a point came about, by mixed additions, subtractions, doublings *)
(* and conversions of ed25519_ref10.c, it is the multiple it should be,    *)
(* and T stays consistent with X, Y and Z; the formulas have no exception, *)
(* not for equal or opposite points nor for those of small order.          *)
WalkIsExact == Affine(h) = multiple(n) /\ h.T ** h.Z = h.X ** h.Y

(* Both recodings of ed25519_ref10.c give digits in their range that add   *)
(* up to the scalar, as long as it is below 2^255 or 2^253.                *)
DigitsAddUp ==
    Returned("digits") =>
        /\ call.a < 2^(Bits-1) => /\ Value(out.e, 16) = call.a
                                  /\ \A i \in DOMAIN out.e : out.e[i] \in -8..8
        /\ call.a < 2^(Bits-3) => /\ Value(out.slide, 2) = call.a
                                  /\ \A i \in DOMAIN out.slide :
                                        out.slide[i] = 0 \/ (out.slide[i] % 2 = 1 /\ out.slide[i] \in -15..15)

(* The loops over those digits multiply: a p by a table of eight multiples *)
(* made on the spot, a B by the table of base.h, a p + b B by both kinds   *)
(* of odd multiples.                                                       *)
MultiplesAreRight ==
    /\ Returned("mult") => /\ Affine(out.p) = multiple(call.a * call.k)
                           /\ Affine(out.b) = multiple(call.a * BaseLog)
    /\ Returned("double") => out.p = Encoding(call.a * call.k + call.b * BaseLog)

(* X25519: two parties agree whatever the point they start from, and an    *)
(* error for one is an error for both; a point of the curve is multiplied  *)
(* by the clamped scalar; the base point's multiples come from the other   *)
(* form of the curve and must be the same.                                 *)
PartiesAgree ==
    Returned("dh") =>
        /\ out.a.ok /\ out.b.ok /\ out.ab.ok => out.ba = out.ab
        /\ (out.a.ok /\ out.b.ok) => out.ba.ok = out.ab.ok
        /\ \A k \in 1..(Order-1) :
              Montgomery(k) = Coordinate(call.u) % P /\ out.a.ok =>
                  out.a.out = Montgomery((Clamp(call.a) * k) % Order)
        /\ (Clamp(call.a) * BaseLog) % Order # 0 =>
              out.base.out = Montgomery((Clamp(call.a) * BaseLog) % Order)

(* No result of X25519 is 0: points of small order, reduced or not, are    *)
(* refused before, and only points of the twist or of the full order whose *)
(* multiple vanishes can be refused after.                                 *)
SmallOrderIsRefused ==
    Returned("dh") =>
        \A k \in 1..(Order-1) :
            Montgomery(k) = Coordinate(call.u) % P => (out.a.ok <=> (Clamp(call.a) * k) % Order # 0)

(* An encoding is decoded to the point it stands for, or refused; the      *)
(* checks of canonical form and of small order, which look at bytes only,  *)
(* say what they are named for.                                            *)
DecodingIsRight ==
    Returned("point") =>
        /\ out.canonical <=> Coordinate(call.s) < P
        /\ out.p.ok <=> \E k \in 0..(Order-1) : Denotes(call.s, k)
        /\ out.p.ok => Denotes(call.s, LogOf(out.p.h)) /\ out.p.h.T = out.p.h.X ** out.p.h.Y
        /\ out.q.ok = out.p.ok
        /\ out.p.ok => LogOf(out.q.h) = (Order - LogOf(out.p.h)) % Order
        /\ out.p.ok => (out.small <=> (8 * LogOf(out.p.h)) % Order = 0)

(* A point that crypto_core_ed25519_is_valid_point accepts has one form,   *)
(* has not small order, and 2 L times it is nothing.                       *)
ValidPointsAreLarge ==
    /\ Returned("point") => (out.valid => /\ call.s = Encoding(LogOf(out.p.h))
                                          /\ (2 * L * LogOf(out.p.h)) % Order = 0
                                          /\ (8 * LogOf(out.p.h)) % Order # 0)
    /\ Returned("point") => (out.p.ok /\ out.canonical /\ (L * LogOf(out.p.h)) % Order = 0 /\ ~out.small =>
                                out.valid \/ call.s # Encoding(LogOf(out.p.h)))

-----------------------------------------------------------------------------
(* What two encodings of points are to the calls that combine them.        *)
LogIn(s) == LogOf(ge25519_frombytes(s).h)
ClassIn(s) == LogOf(ristretto255_frombytes(s).h) % (2 * L)
Good(p) == ge25519_frombytes(p).ok
RGood(p) == ristretto255_frombytes(p).ok

(* Encoded points are added and subtracted as the points they stand for,   *)
(* in whatever of their forms; a string that is no point is an error.      *)
PointsAddUp ==
    Returned("edwards") =>
        /\ out.add.ok = (Good(call.s) /\ Good(call.t)) /\ out.sub.ok = out.add.ok
        /\ out.add.ok => /\ out.add.out = Encoding(LogIn(call.s) + LogIn(call.t))
                         /\ out.sub.out = Encoding(LogIn(call.s) + Order - LogIn(call.t))

(* Elligator 2 never gives a number that is no point, on which the source  *)
(* would abort, and what it gives is in the main subgroup.                 *)
ElligatorNeverAborts ==
    /\ Returned("point") => out.up.ok /\ LogIn(out.up.out) % 8 = 0
    /\ Returned("edwards") => out.hash.ok /\ LogIn(out.hash.out) % 8 = 0

(* crypto_scalarmult_ed25519 gives the multiple of a point that is valid   *)
(* and nothing of any other; the result is the same when it overwrites the *)
(* scalar, except for the scalar 0.                                        *)
EdwardsTimes ==
    LET a == TopCleared(IF call.clamp THEN Clamp(call.a) ELSE call.a)
        valid == crypto_core_ed25519_is_valid_point(call.s)
        given(r, k) == /\ r.ok <=> (a * k) % Order # 0 /\ (call.a # 0 \/ (call.inPlace /\ r.out # 0))
                       /\ r.ok => r.out = Encoding(a * k)
    IN Returned("times") =>
           /\ IF valid THEN given(out.q, LogIn(call.s)) ELSE ~out.q.ok
           /\ given(out.b, BaseLog)

(* A ristretto255 code stands for four points of the group, whichever of   *)
(* them and in whatever representation it was made from; a string that is  *)
(* accepted is the only code of what it stands for.                        *)
OneCodePerClass ==
    /\ n % 2 = 0 => LET s == ristretto255_p3_tobytes(h)
                     IN RGood(s) /\ ClassIn(s) = n % (2 * L)
    /\ Returned("point") => (out.rv => ristretto255_p3_tobytes(out.r.h) = call.s /\ LogOf(out.r.h) % 2 = 0)

(* The operations on codes are those on the classes, and always give codes.*)
CodesAddUp ==
    /\ Returned("edwards") =>
          /\ RGood(out.rhash)
          /\ out.radd.ok = (RGood(call.s) /\ RGood(call.t)) /\ out.rsub.ok = out.radd.ok
          /\ out.radd.ok => /\ RGood(out.radd.out) /\ RGood(out.rsub.out)
                            /\ ClassIn(out.radd.out) = (ClassIn(call.s) + ClassIn(call.t)) % (2 * L)
                            /\ ClassIn(out.rsub.out) = (ClassIn(call.s) + 2 * L - ClassIn(call.t)) % (2 * L)
    /\ Returned("times") =>
          /\ out.r.ok <=> RGood(call.s) /\ (TopCleared(call.a) * ClassIn(call.s)) % (2 * L) # 0
          /\ out.r.ok => ClassIn(out.r.out) = (TopCleared(call.a) * ClassIn(call.s)) % (2 * L)
          /\ out.rb.ok => ClassIn(out.rb.out) = (TopCleared(call.a) * BaseLog) % (2 * L)

(* Scalars are the integers modulo L: the difference with a multiple of L  *)
(* that is taken before reducing does not borrow, the comparison by digits *)
(* is the order, and a random scalar is neither 0 nor without inverse.     *)
ScalarsAreAField ==
    Returned("scalars") =>
        /\ (out.neg + call.a) % L = 0 /\ (out.comp + call.a) % L = 1
        /\ out.canonical <=> call.a < L
        /\ (call.a < L /\ call.b < L) => /\ out.add = (call.a + call.b) % L
                                         /\ (out.sub + call.b) % L = call.a
        /\ out.inv.ok /\ call.a % L # 0 => (out.inv.out * call.a) % L = 1
        /\ out.random.ok => out.random.out \in 1..(L-1)

(* A signature is accepted, and the message given out, under the key it    *)
(* was made with, under both schemes, unless the nonce or the key is a     *)
(* multiple of L; and unless S is one, in the older scheme, which          *)
(* compares with the opposite point by turning the sign bit.               *)
HonestSignaturesVerify ==
    Returned("sign") /\ out.pk # Encoding(0) =>
        /\ out.sig.R # Encoding(0) => out.good
        /\ out.openable => out.open = [ok |-> TRUE, m |-> call.m, mlen |-> call.prefix]
        /\ out.old.R # Encoding(0) /\ out.old.S % L # 0 => out.oldGood

(* Nobody can make another signature of one by adding L to S.              *)
OneSignature == Returned("sign") => out.others \subseteq {out.sig.S}

(* A key pair for signatures and the one converted from it belong together.*)
KeysConvert ==
    Returned("sign") => /\ out.curve.ok <=> out.pk # Encoding(0)
                        /\ out.curve.ok => out.curve.out = out.own.out

(* The fixed sequences of multiplications raise to the powers they are for,*)
(* P - 2, (P - 5)/8, (P - 1)/2 and L - 2, and the three forms in which the *)
(* source has L are the same number.                                       *)
ChainsRaise ==
    Returned("chain") =>
        LET q == call.q
        IN /\ out.invert = (Squared(1, 255, q) - 21) % q /\ out.pow22523 = (Squared(1, 252, q) - 3) % q
           /\ out.notsquare = (Squared(1, 254, q) - 10) % q
           /\ out.orders = {order_by_bytes(q)} /\ out.sc = (order_by_bytes(q) - 2) % q

(* The number that limbs are, modulo q; Place is what limb i is multiplied *)
(* by in the next.                                                         *)
Number(s, Place(_), q) == Each(LAMBDA v, i : (((v * 2^Place(i)) % q) + s[i+1]) % q, 0, Down(Len(s)))
Times(x, y, q) ==
    LET high == (((x * (y \div 1024)) % q) * 512) % q IN (2 * high + ((x * (y % 1024)) % q)) % q
Below(s, t) == \E i \in DOMAIN s : s[i] < t[i] /\ \A j \in DOMAIN s : j > i => s[j] = t[j]

(* The scalars' limbs give the product, the product and sum, and the       *)
(* remainder, each in the one form below the order, whatever the carries.  *)
Place21(i) == W21
Order21 ==
    Each(Floor21, <<-C21[1], -C21[2], -C21[3], -C21[4], -C21[5], -C21[6], 0, 0, 0, 0, 0, 2^W21>>,
         Upto(0, 1, 11))
ScalarLimbsAreExact ==
    Returned("limbs21") =>
        /\ \A q \in Factors21 :
              LET num(s) == Number(s, Place21, q)
              IN /\ num(out.mul) = Times(num(call.a), num(call.b), q)
                 /\ num(out.muladd) = (Times(num(call.a), num(call.b), q) + num(call.c)) % q
                 /\ num(out.reduce) = num(call.a \o call.b)
        /\ \A s \in {out.mul, out.muladd, out.reduce} :
              /\ \A i \in 1..11 : s[i] \in 0..(2^W21 - 1)
              /\ s[12] >= 0 /\ Below(s, Order21)

(* Ten limbs: the schedules of carries keep the number modulo the prime,   *)
(* and bring each limb to half of its width, but limbs 1 and 5, which get  *)
(* the last carries; the reduction gives the one form below the prime.     *)
Place25(i) == IF i = 9 THEN W25 ELSE Width(i)
Prime25(i) == IF i = 0 THEN 2^Width(0) - C19 ELSE 2^Width(i) - 1
TenLimbsAreExact ==
    Returned("limbs25") =>
        /\ \A q \in Factors25 :
              LET num(s) == Number(s, Place25, q)
                  f == num(call.f)
                  g == num(call.g)
              IN /\ num(out.mul) = Times(f, g, q) /\ num(out.sq) = Times(f, f, q)
                 /\ num(out.sq2) = (2 * Times(f, f, q)) % q /\ num(out.mul32) = Times(f, call.n, q)
                 /\ num(out.sum) = (f + g) % q /\ num(out.diff) = (f - g) % q
                 /\ num(out.loaded) = f /\ num(out.reduced) = g
        /\ \A s \in {out.mul, out.sq, out.sq2}, i \in (0..9) \ {1, 5} :
              s[i+1] \in -(2^(Width(i) - 1))..(2^(Width(i) - 1))
        /\ \A i \in 0..9 : out.reduced[i+1] \in 0..(2^Width(i) - 1)
        /\ Below(out.reduced, Build(Prime25, 10))

(* Five limbs: the same, without signs: no limb of a difference is below 0.*)
Place51(i) == W51
Prime51(i) == IF i = 0 THEN 2^W51 - C19 ELSE 2^W51 - 1
FiveLimbsAreExact ==
    Returned("limbs51") =>
        /\ \A q \in Factors25 :
              LET num(s) == Number(s, Place51, q)
                  f == num(call.f)
                  g == num(call.g)
              IN /\ num(out.mul) = Times(f, g, q) /\ num(out.sq2) = (2 * Times(f, f, q)) % q
                 /\ num(out.mul32) = Times(f, call.n, q) /\ num(out.sum) = (f + g) % q
                 /\ num(out.diff) = (f - g) % q /\ num(out.reduced) = f
        /\ \A i \in 1..5 : out.diff[i] >= 0
        /\ \A i \in 1..5 : out.reduced[i] \in 0..(2^W51 - 1)
        /\ Below(out.reduced, Build(Prime51, 5))

(* What the ChangeLog of 1.0.14 says of crypto_sign_ed25519_pk_to_curve25519.*)
OnlyMainSubgroupConverts ==
    Returned("point") => (out.conv.ok => (L * LogOf(out.p.h)) % Order = 0)

-----------------------------------------------------------------------------
(* Whatever way a multiple of a point is found, by additions, by signed    *)
(* digits or by tables, it is that multiple: in ge25519_scalarmult, its    *)
(* variants for the base and for two scalars, and the calls made of them.  *)
EveryMultipleIsRight == TypeOK /\ WalkIsExact /\ DigitsAddUp /\ MultiplesAreRight /\ EdwardsTimes

(* Points go in and out encoded: an encoding is one of the point, nothing  *)
(* of small order passes where it must not, and sums, hashes and codes of  *)
(* ristretto255 are those of the group.                                    *)
EncodedPointsAreRight ==
    /\ SmallOrderIsRefused /\ DecodingIsRight /\ ValidPointsAreLarge
    /\ PointsAddUp /\ ElligatorNeverAborts /\ OneCodePerClass /\ CodesAddUp

(* Signatures that were made are accepted, in one form only, and scalars   *)
(* are computed with modulo the order.  Two parties come to one key, with  *)
(* keys for X25519 or converted ones.                                      *)
KeysAndSignaturesAgree ==
    /\ ScalarsAreAField /\ HonestSignaturesVerify /\ OneSignature
    /\ PartiesAgree /\ KeysConvert

(* Every form of the arithmetic, with ten limbs, five or twelve digits or  *)
(* by a chain of multiplications, gives the one result that is reduced.    *)
FieldsAreExact == ChainsRaise /\ ScalarLimbsAreExact /\ TenLimbsAreExact /\ FiveLimbsAreExact
=============================================================================
