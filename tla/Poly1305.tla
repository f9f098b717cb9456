------------------------------ MODULE Poly1305 ------------------------------
(***************************************************************************)
(* Poly1305: the portable code in limbs of 26 bits, the one in limbs of 44 *)
(* and 42, and the vector code that takes two blocks at once.  The numbers *)
(* are smaller: for the first and the last a byte has 7 bits, a block 4    *)
(* bytes, a limb 6 bits, and the modulus is 2^30 - 5; for the second 13, 2 *)
(* and 10 and 8, and 2^28 - 5.  As in the source a block is two bits       *)
(* shorter than the modulus and one bit is set after it.  In the vector    *)
(* code a lane holds a number modulo the modulus, not its limbs.           *)
(***************************************************************************)
EXTENDS Loops

CONSTANTS Clamp32, Clamp64   \* the bits of the limbs of r that are kept

ASSUME PolyAssumption == Len(Clamp32) = 5 /\ Len(Clamp64) = 3

Of32 == [byte |-> 7, block |-> 4, modulus |-> 30]
Of64 == [byte |-> 13, block |-> 2, modulus |-> 28]
PowerOf2 == [n \in 0..30 |-> 2^n]
BitsOf(x, from, n) == (x \div PowerOf2[from]) % PowerOf2[n]
ValueOf(g, bytes) == Each(LAMBDA v, k : v + bytes[k] * PowerOf2[g.byte * (k - 1)], 0, Upto(1, 1, Len(bytes)))

-----------------------------------------------------------------------------
(* Limbs of 26 bits.                                                       *)
L26 == 64
Limbs32(v) == <<BitsOf(v, 0, 6), BitsOf(v, 6, 6), BitsOf(v, 12, 6), BitsOf(v, 18, 6), BitsOf(v, 24, 4)>>
Empty(g, r, h, pad) ==
    [r |-> r, h |-> h, pad |-> pad, leftover |-> 0, buffer |-> [k \in 1..g.block |-> 0], final |-> FALSE]
init32(key) ==
    LET r == Limbs32(ValueOf(Of32, SubSeq(key, 1, 4)))
    IN Empty(Of32, [i \in 1..5 |-> And8(r[i], Clamp32[i])], <<0, 0, 0, 0, 0>>, SubSeq(key, 5, 8))
(* What is past the last limb comes back five times.                       *)
Row32(h, r, k) ==
    LET times(i) == h[i] * (IF i <= k THEN r[k - i + 1] ELSE 5 * r[k - i + 6])
    IN times(1) + times(2) + times(3) + times(4) + times(5)
Carried32(d1, d2, d3, d4, d5) ==
    LET e2 == d2 + d1 \div L26
        e3 == d3 + e2 \div L26
        e4 == d4 + e3 \div L26
        e5 == d5 + e4 \div L26
        h1 == (d1 % L26) + 5 * (e5 \div L26)
    IN <<h1 % L26, (e2 % L26) + h1 \div L26, e3 % L26, e4 % L26, e5 % L26>>
block32(st, bytes) ==
    LET m == Limbs32(ValueOf(Of32, bytes))
        hibit == IF st.final THEN 0 ELSE 16
        h == <<st.h[1] + m[1], st.h[2] + m[2], st.h[3] + m[3], st.h[4] + m[4], st.h[5] + m[5] + hibit>>
        d(k) == Row32(h, st.r, k)
    IN [st EXCEPT !.h = Carried32(d(1), d(2), d(3), d(4), d(5))]
(* From the second limb on, and around once.                               *)
FullyCarried32(h) ==
    LET e3 == h[3] + h[2] \div L26
        e4 == h[4] + e3 \div L26
        e5 == h[5] + e4 \div L26
        e1 == h[1] + 5 * (e5 \div L26)
    IN <<e1 % L26, (h[2] % L26) + e1 \div L26, e3 % L26, e4 % L26, e5 % L26>>
(* h - p, if it is not negative.                                           *)
Subtracted32(h) ==
    LET g1 == h[1] + 5
        g2 == h[2] + g1 \div L26
        g3 == h[3] + g2 \div L26
        g4 == h[4] + g3 \div L26
        g5 == h[5] + g4 \div L26 - L26
    IN IF g5 >= 0 THEN <<g1 % L26, g2 % L26, g3 % L26, g4 % L26, g5>> ELSE h
Words32(h) == [k \in 1..4 |-> Or8(h[k] \div PowerOf2[k-1], (h[k+1] * PowerOf2[7-k]) % 128) % 128]
mac32(st) ==
    LET h == Words32(Subtracted32(FullyCarried32(st.h)))
        f1 == h[1] + st.pad[1]
        f2 == h[2] + st.pad[2] + f1 \div 128
        f3 == h[3] + st.pad[3] + f2 \div 128
        f4 == h[4] + st.pad[4] + f3 \div 128
    IN <<f1 % 128, f2 % 128, f3 % 128, f4 % 128>>

-----------------------------------------------------------------------------
(* Limbs of 44 and 42 bits: three times 44 is two bits more than the       *)
(* modulus has.                                                            *)
L44 == 1024
L42 == 256
Limbs64(t) == <<t[1] % L44, t[1] \div L44 + ((t[2] * 8) % L44), t[2] \div 128>>
init64(key) ==
    LET r == Limbs64(key) IN Empty(Of64, [i \in 1..3 |-> And16(r[i], Clamp64[i])], <<0, 0, 0>>, SubSeq(key, 3, 4))
block64(st, bytes) ==
    LET m == Limbs64(bytes) r == st.r
        h == <<st.h[1] + m[1], st.h[2] + m[2], st.h[3] + m[3] + IF st.final THEN 0 ELSE 64>>
        s1 == r[2] * 20 s2 == r[3] * 20
        d1 == h[1] * r[1] + h[2] * s2 + h[3] * s1
        d2 == h[1] * r[2] + h[2] * r[1] + h[3] * s2 + d1 \div L44
        d3 == h[1] * r[3] + h[2] * r[2] + h[3] * r[1] + d2 \div L44
        h1 == (d1 % L44) + 5 * (d3 \div L42)
    IN [st EXCEPT !.h = <<h1 % L44, (d2 % L44) + h1 \div L44, d3 % L42>>]
(* From the second limb on, around, and around again.                      *)
FullyCarried64(h) ==
    LET around(x) ==
            LET e3 == x[3] + x[2] \div L44
                e1 == x[1] + 5 * (e3 \div L42)
            IN <<e1 % L44, (x[2] % L44) + e1 \div L44, e3 % L42>>
    IN around(around(h))
Subtracted64(h) ==
    LET g1 == h[1] + 5
        g2 == h[2] + g1 \div L44
        g3 == h[3] + g2 \div L44 - L42
    IN IF g3 >= 0 THEN <<g1 % L44, g2 % L44, g3>> ELSE h
mac64(st) ==
    LET h == Subtracted64(FullyCarried64(st.h)) t == Limbs64(st.pad)
        f1 == h[1] + t[1]
        f2 == h[2] + t[2] + f1 \div L44
        f3 == (h[3] + t[3] + f2 \div L44) % L42
    IN <<(f1 % L44) + ((f2 % 8) * L44), ((f2 % L44) \div 8) + ((f3 * 128) % 8192)>>

-----------------------------------------------------------------------------
(* Two lanes: blocks by turns, each multiplied by a power of r.            *)
Modulus == PowerOf2[30] - 5
PlusP(a, b) == IF a + b >= Modulus THEN a + b - Modulus ELSE a + b
Unset == -1    \* a power that init did not compute
TimesP(a, b) ==
    IF Unset \in {a, b} THEN Unset
    ELSE LET step(z, i) == LET y == PlusP(z, z) IN IF BitsOf(b, 30 - i, 1) = 1 THEN PlusP(y, a) ELSE y
         IN Each(step, 0, Upto(1, 1, 30))
AddLanes(x, y) == IF Unset \in {x[1], x[2]} THEN x ELSE <<PlusP(x[1], y[1]), PlusP(x[2], y[2])>>
TimesLanes(x, r) == <<TimesP(x[1], r[1]), TimesP(x[2], r[2])>>
poly1305_block_copy31(src, n) ==
    LET piece(s, bit) == IF BitsOf(n, bit, 1) = 1 THEN s \o SubSeq(src, Len(s) + 1, Len(s) + PowerOf2[bit]) ELSE s
        copied == Each(piece, <<>>, <<2, 1, 0>>)
    IN [k \in 1..8 |-> IF k <= Len(copied) THEN copied[k] ELSE 0]
(* bytes is 0 for a message in parts: then every power may be wanted.      *)
poly1305_init_ext(key, bytes) ==
    LET v == Limbs32(ValueOf(Of32, SubSeq(key, 1, 4)))
        of(i) == And8(v[i], Clamp32[i])
        r == of(1) + L26 * (of(2) + L26 * (of(3) + L26 * (of(4) + L26 * of(5))))
        r2 == TimesP(r, r)
    IN [H |-> <<0, 0>>, R |-> r, R2 |-> IF bytes = 0 \/ bytes > 4 THEN r2 ELSE Unset,
        R4 |-> IF bytes = 0 \/ bytes >= 24 THEN TimesP(r2, r2) ELSE Unset,
        pad |-> SubSeq(key, 5, 8), started |-> FALSE, shift |-> 0, last |-> "none",
        leftover |-> 0, buffer |-> [k \in 1..8 |-> 0]]
(* The bit after the block: of both lanes, of the first, of neither.       *)
HIBIT(st) == [lane \in 1..2 |-> IF 8 * lane <= 16 - st.shift THEN PowerOf2[28] ELSE 0]
LanesAt(st, m, k) ==
    LET lane(i) == ValueOf(Of32, SubSeq(m, k + 4 * (i - 1), k + 4 * i - 1)) + HIBIT(st)[i] IN <<lane(1), lane(2)>>
PowersOf(st) ==
    CASE st.last = "r2_r" -> <<st.R2, st.R>> [] st.last = "r_1" -> <<st.R, 1>> [] st.last = "none" -> <<st.R2, st.R2>>
FourBlocks(st, h, m, k) ==
    LET fours == AddLanes(TimesLanes(h, <<st.R4, st.R4>>), LanesAt(st, m, k + 8))
    IN AddLanes(fours, TimesLanes(LanesAt(st, m, k), PowersOf(st)))
TwoBlocks(st, h, m, k) == AddLanes(TimesLanes(h, PowersOf(st)), LanesAt(st, m, k))
sse2_blocks(st, m) ==
    LET from == IF st.started THEN 1 ELSE 9
        h0 == IF st.started THEN st.H ELSE LanesAt(st, m, 1)
        fours == (Len(m) - from + 1) \div 16
        h4 == Each(LAMBDA h, k : FourBlocks(st, h, m, k), h0, Upto(from, 16, fours))
        at == from + 16 * fours
    IN [st EXCEPT !.H = IF at <= Len(m) THEN TwoBlocks(st, h4, m, at) ELSE h4, !.started = TRUE]
(* Without a message: the lanes times their last powers, and their sum.    *)
sse2_sum(st) ==
    LET h == TimesLanes(st.H, PowersOf(st)) IN IF Unset \in {h[1], h[2]} THEN Unset ELSE PlusP(h[1], h[2])
poly1305_finish_ext(st, m, leftover) ==
    LET copied == poly1305_block_copy31(m, leftover)
        final == IF leftover # 4 THEN [copied EXCEPT ![leftover + 1] = 1] ELSE copied
        closed == IF leftover = 0 THEN st
                  ELSE sse2_blocks([st EXCEPT !.shift = IF leftover >= 4 THEN 8 ELSE 16], final)
        last == IF leftover = 0 \/ leftover > 4 THEN "r2_r" ELSE "r_1"
        h == IF closed.started THEN sse2_sum([closed EXCEPT !.last = last]) ELSE 0
        mac == ((h % PowerOf2[28]) + ValueOf(Of32, st.pad)) % PowerOf2[28]
    IN IF h = Unset THEN <<Unset>> ELSE [k \in 1..4 |-> BitsOf(mac, 7 * (k - 1), 7)]
-----------------------------------------------------------------------------
(* The bytes of an update that do not fill a block wait for the next.      *)
BlockSize(impl) == CASE impl = "32" -> 4 [] impl = "64" -> 2 [] impl = "sse2" -> 8
OneMore(impl, st, block) == IF impl = "32" THEN block32(st, block) ELSE block64(st, block)
poly1305_blocks(impl, st, m) ==
    LET size == BlockSize(impl)
    IN IF impl = "sse2" THEN sse2_blocks(st, m)
       ELSE Each(LAMBDA s, k : OneMore(impl, s, SubSeq(m, k, k + size - 1)), st, Upto(1, size, Len(m) \div size))
Filling(st, m) ==
    [st EXCEPT !.leftover = @ + Len(m),
               !.buffer = [k \in DOMAIN @ |-> IF k > st.leftover /\ k <= st.leftover + Len(m) THEN m[k - st.leftover] ELSE @[k]]]
FullThenStored(impl, st, m) ==
    LET full == Len(m) - (Len(m) % BlockSize(impl))
        after == IF full > 0 THEN poly1305_blocks(impl, st, SubSeq(m, 1, full)) ELSE st
    IN Filling(after, SubSeq(m, full + 1, Len(m)))
Wanted(impl, st, m) == LET want == BlockSize(impl) - st.leftover IN IF want > Len(m) THEN Len(m) ELSE want
(* Mutant: what was left over is still counted after its block.            *)
UpdatedTwice(impl, st, m) ==
    LET want == Wanted(impl, st, m)
        filled == Filling(st, SubSeq(m, 1, want))
    IN IF st.leftover = 0 THEN FullThenStored(impl, st, m)
       ELSE IF filled.leftover < BlockSize(impl) THEN filled
       ELSE FullThenStored(impl, poly1305_blocks(impl, filled, filled.buffer), SubSeq(m, want + 1, Len(m)))
poly1305_update(impl, st, m) ==
    LET want == Wanted(impl, st, m)
        filled == Filling(st, SubSeq(m, 1, want))
        done == [poly1305_blocks(impl, filled, filled.buffer) EXCEPT !.leftover = 0]
    IN IF st.leftover = 0 THEN FullThenStored(impl, st, m)
       ELSE IF filled.leftover < BlockSize(impl) THEN filled
       ELSE FullThenStored(impl, done, SubSeq(m, want + 1, Len(m)))
(* A 1 after the last bytes, zeros after it, and no bit after the block.   *)
LastBlock(impl, st) ==
    [k \in 1..BlockSize(impl) |-> IF k <= st.leftover THEN st.buffer[k] ELSE IF k = st.leftover + 1 THEN 1 ELSE 0]
Closed(impl, st) ==
    IF st.leftover = 0 THEN st ELSE OneMore(impl, [st EXCEPT !.final = TRUE], LastBlock(impl, st))
poly1305_init(impl, key) ==
    CASE impl = "32" -> init32(key) [] impl = "64" -> init64(key) [] impl = "sse2" -> poly1305_init_ext(key, 0)
poly1305_finish(impl, st) ==
    CASE impl = "32" -> mac32(Closed(impl, st)) [] impl = "64" -> mac64(Closed(impl, st))
    [] impl = "sse2" -> poly1305_finish_ext(st, st.buffer, st.leftover)
(* In one call.                                                            *)
onetimeauth_sse2(m, key) ==
    LET st == poly1305_init_ext(key, Len(m))
        blocks == Len(m) - (Len(m) % 8)
        after == IF blocks > 0 THEN sse2_blocks(st, SubSeq(m, 1, blocks)) ELSE st
    IN poly1305_finish_ext(after, SubSeq(m, blocks + 1, Len(m)), Len(m) - blocks)
onetimeauth_donna(impl, m, key) == poly1305_finish(impl, poly1305_update(impl, poly1305_init(impl, key), m))
(* The parts of a message, one update each.                                *)
InParts(impl, key, parts) ==
    poly1305_finish(impl, Each(LAMBDA st, m : poly1305_update(impl, st, m), poly1305_init(impl, key), parts))
InOne(impl, key, m) == IF impl = "sse2" THEN onetimeauth_sse2(m, key) ELSE onetimeauth_donna(impl, m, key)
=============================================================================
