------------------------------- MODULE Argon2 --------------------------------
(***************************************************************************)
(* How Argon2 fills its memory and hashes with it.  A block has 8 words of *)
(* 16 bits, so that the halves of a pseudo-random value, and the widths    *)
(* of the arithmetic on positions, are of 8 bits, one block of addresses   *)
(* serves 8 blocks, and the long hash goes on where 4 bytes are not        *)
(* enough.  The permutation of a block is a constant here; the end of the  *)
(* module has the one of the source.  Memory is what mmap gives: zeros.    *)
(***************************************************************************)
EXTENDS Loops, SequencesExt

CONSTANTS
    BlockMixed(_),     \* the permutation, on the words of a block
    Blake(_, _),       \* crypto_generichash_blake2b: so many bytes, of this
    Argon2Limits       \* of each input, the least and the greatest

ARGON2_SYNC_POINTS == 4
QWords == 8
HashMax == 4

(* The long hash.                                                          *)
HashedAgain(s) == LET h == Blake(HashMax, s.last) IN [out |-> s.out \o SubSeq(h, 1, HashMax \div 2), last |-> h]
(* Mutant: the loop goes on when a whole hash is left, too.                *)
LongTurnsAtLeast(outlen) == (outlen - HashMax \div 2 - HashMax + 2) \div (HashMax \div 2)
(* The turns of the loop while more than a hash is to be produced.         *)
LongTurns(outlen) ==
    LET toproduce == outlen - HashMax \div 2
    IN IF toproduce > HashMax THEN (toproduce - HashMax + 1) \div (HashMax \div 2) ELSE 0
blake2b_long(outlen, in) ==
    IF outlen <= HashMax THEN Blake(outlen, <<outlen>> \o in)
    ELSE LET first == Blake(HashMax, <<outlen>> \o in)
             s == Each(LAMBDA t, i : HashedAgain(t), [out |-> SubSeq(first, 1, HashMax \div 2), last |-> first], Upto(1, 1, LongTurns(outlen)))
         IN s.out \o Blake(outlen - Len(s.out), s.last)

(* Blocks.                                                                 *)
load_block(bytes) == Listed(LAMBDA k : bytes[2 * k - 1] + 256 * bytes[2 * k], QWords)
store_block(b) == Listed(LAMBDA k : (b[(k + 1) \div 2] \div (IF k % 2 = 1 THEN 1 ELSE 256)) % 256, 2 * QWords)
xor_block(a, b) == Listed(LAMBDA k : Xor16(a[k], b[k]), QWords)
ZeroWords == [k \in 1..QWords |-> 0]
fill_block(prev, ref) == LET r == xor_block(ref, prev) IN xor_block(r, BlockMixed(r))
fill_block_with_xor(prev, ref, next) == LET r == xor_block(ref, prev) IN xor_block(xor_block(r, next), BlockMixed(r))

-----------------------------------------------------------------------------
(* Positions.  An instance has passes, memory_blocks, segment_length,      *)
(* lane_length, lanes and type.                                            *)
HalfWidth == 256
Wrapped(n) == n % HalfWidth
(* Mutant: another lane may be read up to its last block even if the       *)
(* current block is the first of its segment.                              *)
AreaWithLast(inst, pass, slice, index, same_lane) ==
    IF pass = 0 /\ slice = 0 THEN Wrapped(index - 1)
    ELSE LET finished == IF pass = 0 THEN slice * inst.segment_length ELSE inst.lane_length - inst.segment_length
         IN Wrapped(IF same_lane THEN finished + index - 1 ELSE finished)
(* The size of the reference area.                                         *)
reference_area_size(inst, pass, slice, index, same_lane) ==
    IF pass = 0 /\ slice = 0 THEN Wrapped(index - 1)
    ELSE LET finished == IF pass = 0 THEN slice * inst.segment_length ELSE inst.lane_length - inst.segment_length
         IN Wrapped(IF same_lane THEN finished + index - 1 ELSE IF index = 0 THEN finished - 1 ELSE finished)
index_alpha(inst, pass, slice, index, rand, same_lane) ==
    LET area == reference_area_size(inst, pass, slice, index, same_lane)
        squared == (rand * rand) \div HalfWidth
        relative == area - 1 - (area * squared) \div HalfWidth
        start == IF pass = 0 \/ slice = ARGON2_SYNC_POINTS - 1 THEN 0 ELSE (slice + 1) * inst.segment_length
    IN (start + relative) % inst.lane_length

(* The addresses that do not depend on the data, a block of them at a time. *)
AddressBlock(inst, pass, lane, slice, counter) ==
    LET input == <<pass, lane, slice, inst.memory_blocks, inst.passes, inst.type, counter, 0>>
    IN fill_block_with_xor(ZeroWords, fill_block_with_xor(ZeroWords, input, ZeroWords), ZeroWords)
generate_addresses(inst, pass, lane, slice) ==
    LET turn(s, i) ==
            LET counter == IF i % QWords = 0 THEN s.counter + 1 ELSE s.counter
                block == IF i % QWords = 0 THEN AddressBlock(inst, pass, lane, slice, counter) ELSE s.block
            IN [counter |-> counter, block |-> block, rands |-> Append(s.rands, block[(i % QWords) + 1])]
    IN Each(turn, [counter |-> 0, block |-> ZeroWords, rands |-> <<>>], Upto(0, 1, inst.segment_length)).rands

(* The types.                                                              *)
Argon2_i == 1
Argon2_id == 2
(* Mutant: the first half of every pass is independent of the data.        *)
IndependentEachPass(type, pass, slice) == type = Argon2_i \/ slice < ARGON2_SYNC_POINTS \div 2
data_independent_addressing(type, pass, slice) ==
    ~(type = Argon2_id /\ (pass # 0 \/ slice >= ARGON2_SYNC_POINTS \div 2))
StartingIndex(pass, slice) == IF pass = 0 /\ slice = 0 THEN 2 ELSE 0
(* The offset before curr, when a segment begins.                          *)
PrevOffset(inst, curr) == IF curr % inst.lane_length = 0 THEN curr + inst.lane_length - 1 ELSE curr - 1
(* The offset of the reference block.                                      *)
Referred(inst, pass, lane, slice, i, rand) ==
    LET ref_lane == IF pass = 0 /\ slice = 0 THEN lane ELSE (rand \div HalfWidth) % inst.lanes
    IN inst.lane_length * ref_lane + index_alpha(inst, pass, slice, i, rand % HalfWidth, ref_lane = lane)
Segment(inst, pass, lane, slice, memory) ==
    LET independent == data_independent_addressing(inst.type, pass, slice)
        curr == lane * inst.lane_length + slice * inst.segment_length + StartingIndex(pass, slice)
    IN [curr |-> curr, prev |-> PrevOffset(inst, curr), memory |-> memory, state |-> memory[PrevOffset(inst, curr)],
        rands |-> IF independent THEN generate_addresses(inst, pass, lane, slice) ELSE <<>>]
(* One turn of the loop.  The code for vectors keeps the block before in   *)
(* state; the portable code reads it again.                                *)
SegmentTurn(s, i, inst, pass, lane, slice, vectors) ==
    LET prev == IF s.curr % inst.lane_length = 1 THEN s.curr - 1 ELSE s.prev
        before == IF vectors THEN s.state ELSE s.memory[prev]
        rand == IF s.rands # <<>> THEN s.rands[i + 1] ELSE s.memory[prev][1]
        ref == s.memory[Referred(inst, pass, lane, slice, i, rand)]
        new == IF pass # 0 THEN fill_block_with_xor(before, ref, s.memory[s.curr]) ELSE fill_block(before, ref)
    IN [s EXCEPT !.curr = @ + 1, !.prev = prev + 1, !.memory[s.curr] = new, !.state = new]
SegmentFilled(inst, pass, lane, slice, memory, vectors) ==
    LET start == StartingIndex(pass, slice)
    IN Each(LAMBDA s, i : SegmentTurn(s, i, inst, pass, lane, slice, vectors), Segment(inst, pass, lane, slice, memory),
            Upto(start, 1, inst.segment_length - start)).memory
argon2_fill_segment_ref(inst, pass, lane, slice, memory) ==
    SegmentFilled(inst, pass, lane, slice, memory, FALSE)
argon2_fill_segment_ssse3(inst, pass, lane, slice, memory) ==
    SegmentFilled(inst, pass, lane, slice, memory, TRUE)
fill_segment(vectors, inst, pass, lane, slice, memory) ==
    IF vectors THEN argon2_fill_segment_ssse3(inst, pass, lane, slice, memory) ELSE argon2_fill_segment_ref(inst, pass, lane, slice, memory)
argon2_fill_memory_blocks(vectors, inst, pass, memory) ==
    Each(LAMBDA mem, n : fill_segment(vectors, inst, pass, n % inst.lanes, n \div inst.lanes, mem), memory,
         Upto(0, 1, ARGON2_SYNC_POINTS * inst.lanes))

-----------------------------------------------------------------------------
(* A context has outlen, pwd, salt, secret, ad, t_cost, m_cost and lanes;  *)
(* threads is lanes.                                                       *)
Exceeds(name, n) == IF n < Argon2Limits[name][1] THEN "low" ELSE IF n > Argon2Limits[name][2] THEN "high" ELSE "ok"
argon2_validate_inputs(c) ==
    LET checks == <<<<"OUTPUT", Exceeds("outlen", c.outlen) # "ok">>, <<"PWD", Exceeds("pwd", Len(c.pwd)) # "ok">>,
                    <<"SALT", Exceeds("salt", Len(c.salt)) # "ok">>, <<"LANES", Exceeds("lanes", c.lanes) # "ok">>,
                    <<"MEMORY", Exceeds("memory", c.m_cost) # "ok" \/ c.m_cost < 8 * c.lanes>>,
                    <<"TIME", Exceeds("time", c.t_cost) # "ok">>>>
        failed == SelectSeq(checks, LAMBDA k : k[2])
    IN IF failed = <<>> THEN "OK" ELSE Head(failed)[1]
(* Mutant: the lengths are left out.                                       *)
PrehashUnmeasured(c, type) ==
    <<c.lanes, c.outlen, c.m_cost, c.t_cost, 19, type>> \o c.pwd \o c.salt \o c.secret \o c.ad
(* What argon2_initial_hash hashes.                                        *)
Prehash(c, type) ==
    <<c.lanes, c.outlen, c.m_cost, c.t_cost, 19, type, Len(c.pwd)>> \o c.pwd \o <<Len(c.salt)>> \o c.salt
    \o <<Len(c.secret)>> \o c.secret \o <<Len(c.ad)>> \o c.ad
argon2_initial_hash(c, type) == Blake(HashMax, Prehash(c, type))
argon2_fill_first_blocks(blockhash, inst) ==
    [k \in 0..(inst.memory_blocks - 1) |->
        LET place == k % inst.lane_length
        IN IF place < 2 THEN load_block(blake2b_long(2 * QWords, blockhash \o <<place, k \div inst.lane_length>>)) ELSE ZeroWords]
(* The memory that the context asks for, in whole segments.                *)
Instance(c, type) ==
    LET least == 2 * ARGON2_SYNC_POINTS * c.lanes
        segment_length == (IF c.m_cost < least THEN least ELSE c.m_cost) \div (c.lanes * ARGON2_SYNC_POINTS)
    IN [passes |-> c.t_cost, memory_blocks |-> segment_length * c.lanes * ARGON2_SYNC_POINTS, segment_length |-> segment_length,
        lane_length |-> segment_length * ARGON2_SYNC_POINTS, lanes |-> c.lanes, type |-> type]
argon2_finalize(inst, outlen, memory) ==
    LET last(l) == memory[l * inst.lane_length + inst.lane_length - 1]
        blockhash == Each(LAMBDA b, l : xor_block(b, last(l)), last(0), Upto(1, 1, inst.lanes - 1))
    IN blake2b_long(outlen, store_block(blockhash))
Argon2Memory(vectors, c, type) ==
    LET inst == Instance(c, type)
        first == argon2_fill_first_blocks(argon2_initial_hash(c, type), inst)
    IN Each(LAMBDA mem, pass : argon2_fill_memory_blocks(vectors, inst, pass, mem), first, Upto(0, 1, inst.passes))
(* What argon2_ctx leaves in out, if it can allocate its memory.           *)
Argon2Hash(vectors, c, type) == argon2_finalize(Instance(c, type), c.outlen, Argon2Memory(vectors, c, type))
-----------------------------------------------------------------------------
(***************************************************************************)
(* The permutation that BlockMixed stands for, and the compression of two  *)
(* blocks around it, by the portable code and by the code for vectors of   *)
(* 2, 4 and 8 words.  Here a block has its 128 words, but a byte of a word *)
(* is one bit: a word has 8 bits, its halves 4, and rotations by 32, 24,   *)
(* 16 and 63 are by 4, 3, 2 and 7.  What exchanges words, halves or bytes  *)
(* is as in the source.                                                    *)
(***************************************************************************)
FBlaMkaTable ==
    [k \in 0..65535 |-> LET x == k \div 256 y == k % 256 IN (x + y + 2 * (x % 16) * (y % 16)) % 256]
fBlaMka(x, y) == FBlaMkaTable[256 * x + y]
RotrTable == [k \in 0..2047 |-> LET x == k \div 8 n == k % 8 IN (x \div 2^n + x * 2^(8 - n)) % 256]
ROTR64(x, n) == RotrTable[8 * x + n]
(* Byte k of the result is byte order[k] of the word.                      *)
ByBytes(order) == [x \in 0..255 |-> FoldLeft(LAMBDA y, k : y + ((x \div 2^order[k]) % 2) * 2^(k - 1), 0, [k \in 1..8 |-> k])]
r16 == ByBytes(<<2, 3, 4, 5, 6, 7, 0, 1>>)
r24 == ByBytes(<<3, 4, 5, 6, 7, 0, 1, 2>>)
r32 == ByBytes(<<4, 5, 6, 7, 0, 1, 2, 3>>)
r63 == [x \in 0..255 |-> Xor8(x \div 128, (x + x) % 256)]
RotByShuffle(x, n) == CASE n = 4 -> r32[x] [] n = 3 -> r24[x] [] n = 2 -> r16[x] [] n = 7 -> r63[x]
RotBy(rot, x, n) == IF rot = "shuffle" THEN RotByShuffle(x, n) ELSE ROTR64(x, n)

(* Half of G on four vectors of words, at once.                            *)
HalfOf(a, b, c, d, turnD, turnB, rot) ==
    LET a1 == fBlaMka(a, b)
        d1 == RotBy(rot, Xor8(d, a1), turnD)
        c1 == fBlaMka(c, d1)
    IN <<a1, RotBy(rot, Xor8(b, c1), turnB), c1, d1>>
HalfG(q, turnD, turnB, rot) ==
    LET words == Listed(LAMBDA j : HalfOf(q[1][j], q[2][j], q[3][j], q[4][j], turnD, turnB, rot), Len(q[1]))
        vector(k) == Listed(LAMBDA j : words[j][k], Len(q[1]))
    IN <<vector(1), vector(2), vector(3), vector(4)>>
GVectors(q, rot) == HalfG(HalfG(q, 4, 3, rot), 2, 7, rot)
(* Both groups, A0 to D0 and A1 to D1.                                     *)
GTwice(qs, rot) == <<GVectors(qs[1], rot), GVectors(qs[2], rot)>>

-----------------------------------------------------------------------------
(* Portable: one round on 16 words.                                        *)
GAt(v, a, b, c, d) ==
    LET q == GVectors(<<<<v[a + 1]>>, <<v[b + 1]>>, <<v[c + 1]>>, <<v[d + 1]>>>>, "shift")
    IN [v EXCEPT ![a + 1] = q[1][1], ![b + 1] = q[2][1], ![c + 1] = q[3][1], ![d + 1] = q[4][1]]
BLAKE2_ROUND_NOMSG(v) ==
    FoldLeft(LAMBDA w, g : GAt(w, g[1], g[2], g[3], g[4]), v,
             <<<<0, 4, 8, 12>>, <<1, 5, 9, 13>>, <<2, 6, 10, 14>>, <<3, 7, 11, 15>>,
               <<0, 5, 10, 15>>, <<1, 6, 11, 12>>, <<2, 7, 8, 13>>, <<3, 4, 9, 14>>>>)

(* Two words to a vector.                                                  *)
alignr(hi, lo) == <<lo[2], hi[1]>>
DiagonalizeBy2(qs) ==
    LET B0 == qs[1][2] B1 == qs[2][2] D0 == qs[1][4] D1 == qs[2][4]
    IN <<<<qs[1][1], alignr(B1, B0), qs[2][3], alignr(D0, D1)>>, <<qs[2][1], alignr(B0, B1), qs[1][3], alignr(D1, D0)>>>>
UndiagonalizeBy2(qs) ==
    LET B0 == qs[1][2] B1 == qs[2][2] D0 == qs[1][4] D1 == qs[2][4]
    IN <<<<qs[1][1], alignr(B0, B1), qs[2][3], alignr(D1, D0)>>, <<qs[2][1], alignr(B1, B0), qs[1][3], alignr(D0, D1)>>>>
BLAKE2_ROUND_ssse3(v) ==
    LET qs == GTwice(DiagonalizeBy2(GTwice(<<<<v[1], v[3], v[5], v[7]>>, <<v[2], v[4], v[6], v[8]>>>>, "shuffle")), "shuffle")
        u == UndiagonalizeBy2(qs)
    IN <<u[1][1], u[2][1], u[1][2], u[2][2], u[1][3], u[2][3], u[1][4], u[2][4]>>

(* Four words to a vector.  The order is that of _MM_SHUFFLE, which names  *)
(* the word of the highest place first; each four of eight words alike.    *)
permute4x64(v, z, y, x, w) ==
    LET four(at) == <<v[at + w + 1], v[at + x + 1], v[at + y + 1], v[at + z + 1]>>
    IN IF Len(v) = 4 THEN four(0) ELSE four(0) \o four(4)
(* Words 1 and 3 of the second vector, or words 0 and 2.                   *)
blendCC(a, b) == <<a[1], b[2], a[3], b[4]>>
blend33(a, b) == <<b[1], a[2], b[3], a[4]>>
DiagonalizeBy4(q) == <<q[1], permute4x64(q[2], 0, 3, 2, 1), permute4x64(q[3], 1, 0, 3, 2), permute4x64(q[4], 2, 1, 0, 3)>>
UndiagonalizeBy4(q) == <<q[1], permute4x64(q[2], 2, 1, 0, 3), permute4x64(q[3], 1, 0, 3, 2), permute4x64(q[4], 0, 3, 2, 1)>>
Crossed(v) == permute4x64(v, 2, 3, 0, 1)
DIAGONALIZE_2(qs) ==
    LET B0 == qs[1][2] B1 == qs[2][2] D0 == qs[1][4] D1 == qs[2][4]
    IN <<<<qs[1][1], Crossed(blend33(B0, B1)), qs[2][3], Crossed(blendCC(D0, D1))>>,
         <<qs[2][1], Crossed(blendCC(B0, B1)), qs[1][3], Crossed(blend33(D0, D1))>>>>
UNDIAGONALIZE_2(qs) ==
    LET B0 == qs[1][2] B1 == qs[2][2] D0 == qs[1][4] D1 == qs[2][4]
    IN <<<<qs[1][1], Crossed(blendCC(B0, B1)), qs[2][3], Crossed(blend33(D0, D1))>>,
         <<qs[2][1], Crossed(blend33(B0, B1)), qs[1][3], Crossed(blendCC(D0, D1))>>>>
(* Arguments in the order A0, A1, B0, B1 and so on, and back.              *)
InTwo(v) == <<<<v[1], v[3], v[5], v[7]>>, <<v[2], v[4], v[6], v[8]>>>>
InOrder(qs) == <<qs[1][1], qs[2][1], qs[1][2], qs[2][2], qs[1][3], qs[2][3], qs[1][4], qs[2][4]>>
BLAKE2_ROUND_1_avx2(v) ==
    LET qs == GTwice(InTwo(v), "shuffle")
        ds == GTwice(<<DiagonalizeBy4(qs[1]), DiagonalizeBy4(qs[2])>>, "shuffle")
    IN InOrder(<<UndiagonalizeBy4(ds[1]), UndiagonalizeBy4(ds[2])>>)
(* Mutant: the blends are not exchanged on the way back.                   *)
BLAKE2_ROUND_2_uncrossed(v) ==
    InOrder(DIAGONALIZE_2(GTwice(DIAGONALIZE_2(GTwice(InTwo(v), "shuffle")), "shuffle")))
BLAKE2_ROUND_2_avx2(v) ==
    InOrder(UNDIAGONALIZE_2(GTwice(DIAGONALIZE_2(GTwice(InTwo(v), "shuffle")), "shuffle")))

(* Eight words to a vector.                                                *)
SwappedHalves(p) == <<SubSeq(p[1], 1, 4) \o SubSeq(p[2], 1, 4), SubSeq(p[1], 5, 8) \o SubSeq(p[2], 5, 8)>>
permutexvar(v) == <<v[1], v[2], v[5], v[6], v[3], v[4], v[7], v[8]>>
SWAP_QUARTERS(p) == LET s == SwappedHalves(p) IN <<permutexvar(s[1]), permutexvar(s[2])>>
UNSWAP_QUARTERS(p) == SwappedHalves(<<permutexvar(p[1]), permutexvar(p[2])>>)
BLAKE2_ROUND_avx512f(qs) ==
    LET ds == GTwice(<<DiagonalizeBy4(GVectors(qs[1], "shift")), DiagonalizeBy4(GVectors(qs[2], "shift"))>>, "shift")
    IN <<UndiagonalizeBy4(ds[1]), UndiagonalizeBy4(ds[2])>>
BLAKE2_ROUND_1_avx512f(v) ==
    LET pair(i, j) == SwappedHalves(<<v[i], v[j]>>)
        ab0 == pair(1, 3) cd0 == pair(2, 4) ab1 == pair(5, 7) cd1 == pair(6, 8)
        r == BLAKE2_ROUND_avx512f(<<<<ab0[1], ab0[2], cd0[1], cd0[2]>>, <<ab1[1], ab1[2], cd1[1], cd1[2]>>>>)
        back(i, a, b) == SwappedHalves(<<r[i][a], r[i][b]>>)
        p == back(1, 1, 2) q == back(1, 3, 4) s == back(2, 1, 2) t == back(2, 3, 4)
    IN <<p[1], q[1], p[2], q[2], s[1], t[1], s[2], t[2]>>
BLAKE2_ROUND_2_avx512f(v) ==
    LET pairs == [k \in 1..4 |-> SWAP_QUARTERS(<<v[2 * k - 1], v[2 * k]>>)]
        r == BLAKE2_ROUND_avx512f(<<[k \in 1..4 |-> pairs[k][1]], [k \in 1..4 |-> pairs[k][2]]>>)
        back == [k \in 1..4 |-> UNSWAP_QUARTERS(<<r[1][k], r[2][k]>>)]
    IN [k \in 1..8 |-> back[(k + 1) \div 2][IF k % 2 = 1 THEN 1 ELSE 2]]

-----------------------------------------------------------------------------
(* The vectors of a state, of the given width, that At(0) to At(len - 1)   *)
(* name, replaced by what the round makes of them.                         *)
RoundOn(st, width, Round(_), At(_), len) ==
    LET r == Round([j \in 1..len |-> SubSeq(st, width * At(j - 1) + 1, width * At(j - 1) + width)])
        at == [k \in {At(j) : j \in 0..(len - 1)} |-> CHOOSE j \in 1..len : At(j - 1) = k]
        word(k) == LET n == (k - 1) \div width IN IF n \in DOMAIN at THEN r[at[n]][((k - 1) % width) + 1] ELSE st[k]
    IN Listed(word, 128)
(* n rounds, the i-th of them on the vectors At(i, 0) to At(i, len - 1).   *)
RoundsOn(st, width, Round(_), At(_, _), n, len) ==
    Each(LAMBDA s, i : RoundOn(s, width, Round, LAMBDA j : At(i, j), len), st, Upto(0, 1, n))
PortableRound(v) == LET w == BLAKE2_ROUND_NOMSG([k \in 1..16 |-> v[k][1]]) IN [k \in 1..16 |-> <<w[k]>>]
Blamka_ref(st) ==
    LET rows == RoundsOn(st, 1, PortableRound, LAMBDA i, j : 16 * i + j, 8, 16)
    IN RoundsOn(rows, 1, PortableRound, LAMBDA i, j : 2 * i + 16 * (j \div 2) + (j % 2), 8, 16)
Blamka_ssse3(st) ==
    LET rows == RoundsOn(st, 2, BLAKE2_ROUND_ssse3, LAMBDA i, j : 8 * i + j, 8, 8)
    IN RoundsOn(rows, 2, BLAKE2_ROUND_ssse3, LAMBDA i, j : 8 * j + i, 8, 8)
Blamka_avx2(st) ==
    LET rows == RoundsOn(st, 4, BLAKE2_ROUND_1_avx2, LAMBDA i, j : 8 * i + <<0, 4, 1, 5, 2, 6, 3, 7>>[j + 1], 4, 8)
    IN RoundsOn(rows, 4, BLAKE2_ROUND_2_avx2, LAMBDA i, j : 4 * j + i, 4, 8)
Blamka_avx512f(st) ==
    LET rows == RoundsOn(st, 8, BLAKE2_ROUND_1_avx512f, LAMBDA i, j : 8 * i + j, 2, 8)
    IN RoundsOn(rows, 8, BLAKE2_ROUND_2_avx512f, LAMBDA i, j : 2 * j + i, 2, 8)

XorBlocks(a, b) == [k \in DOMAIN a |-> Xor8(a[k], b[k])]
BlamkaWith(impl, st) ==
    CASE impl = "ref" -> Blamka_ref(st) [] impl = "ssse3" -> Blamka_ssse3(st)
      [] impl = "avx2" -> Blamka_avx2(st) [] impl = "avx512f" -> Blamka_avx512f(st)
fill_blamka(impl, prev, ref) ==
    LET r == XorBlocks(ref, prev) IN XorBlocks(BlamkaWith(impl, r), r)
fill_blamka_with_xor(impl, prev, ref, next) ==
    LET r == XorBlocks(ref, prev) IN XorBlocks(BlamkaWith(impl, r), XorBlocks(r, next))
=============================================================================
