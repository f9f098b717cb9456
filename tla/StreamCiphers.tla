---------------------------- MODULE StreamCiphers ----------------------------
(***************************************************************************)
(* ChaCha20 and Salsa20: the portable code, and the vector code for eight  *)
(* and four blocks at once, for one block by rows or diagonals, and for    *)
(* what is left over.  A word has eight bits here and is not divided: a    *)
(* block is sixteen words, a length is a number of words, and a counter is *)
(* a low and a high word.                                                  *)
(***************************************************************************)
EXTENDS Loops

CONSTANTS
    StreamRounds,   \* ROUNDS, 20
    ChaChaTurns, SalsaTurns,   \* the four rotations of a quarter of a round
    Sigma           \* "expand 32-byte k", four words

ASSUME StreamAssumption == StreamRounds % 4 = 0 /\ Len(Sigma) = 4

BlockWords == 16
StreamBlocks(len) == (len + BlockWords - 1) \div BlockWords
TwoTo == <<1, 2, 4, 8, 16, 32, 64, 128, 256>>
Plus(a, b) == (a + b) % 256
Turned(x, n) == ((x * TwoTo[n+1]) % 256) + x \div TwoTo[9-n]
(* Rows of four words.                                                     *)
PlusRow(a, b) == <<Plus(a[1], b[1]), Plus(a[2], b[2]), Plus(a[3], b[3]), Plus(a[4], b[4])>>
XorRow(a, b) == <<Xor8(a[1], b[1]), Xor8(a[2], b[2]), Xor8(a[3], b[3]), Xor8(a[4], b[4])>>
TurnedRow(a, n) == <<Turned(a[1], n), Turned(a[2], n), Turned(a[3], n), Turned(a[4], n)>>
Shuffled(a, imm) == <<a[(imm % 4) + 1], a[((imm \div 4) % 4) + 1], a[((imm \div 16) % 4) + 1], a[(imm \div 64) + 1]>>
RowsOf(x) == <<SubSeq(x, 1, 4), SubSeq(x, 5, 8), SubSeq(x, 9, 12), SubSeq(x, 13, 16)>>
XorWords(a, b) == Listed(LAMBDA k : Xor8(a[k], b[k]), Len(a))

-----------------------------------------------------------------------------
(* A quarter of a round, of the words numbered from 0.                     *)
ChaChaQuarter(x, q) ==
    LET a == x[q[1]+1] b == x[q[2]+1] c == x[q[3]+1] d == x[q[4]+1]
        a1 == Plus(a, b)   d1 == Turned(Xor8(d, a1), ChaChaTurns[1])
        c1 == Plus(c, d1)  b1 == Turned(Xor8(b, c1), ChaChaTurns[2])
        a2 == Plus(a1, b1) d2 == Turned(Xor8(d1, a2), ChaChaTurns[3])
        c2 == Plus(c1, d2) b2 == Turned(Xor8(b1, c2), ChaChaTurns[4])
    IN [x EXCEPT ![q[1]+1] = a2, ![q[2]+1] = b2, ![q[3]+1] = c2, ![q[4]+1] = d2]
ChaChaQuarters ==
    << <<0, 4, 8, 12>>, <<1, 5, 9, 13>>, <<2, 6, 10, 14>>, <<3, 7, 11, 15>>,
       <<0, 5, 10, 15>>, <<1, 6, 11, 12>>, <<2, 7, 8, 13>>, <<3, 4, 9, 14>> >>
SalsaQuarter(x, q) ==
    LET a == x[q[1]+1] b == x[q[2]+1] c == x[q[3]+1] d == x[q[4]+1]
        b1 == Xor8(b, Turned(Plus(a, d), SalsaTurns[1]))
        c1 == Xor8(c, Turned(Plus(b1, a), SalsaTurns[2]))
        d1 == Xor8(d, Turned(Plus(c1, b1), SalsaTurns[3]))
        a1 == Xor8(a, Turned(Plus(d1, c1), SalsaTurns[4]))
    IN [x EXCEPT ![q[1]+1] = a1, ![q[2]+1] = b1, ![q[3]+1] = c1, ![q[4]+1] = d1]
SalsaColumns == << <<0, 4, 8, 12>>, <<5, 9, 13, 1>>, <<10, 14, 2, 6>>, <<15, 3, 7, 11>> >>
SalsaRows == << <<0, 1, 2, 3>>, <<5, 6, 7, 4>>, <<10, 11, 8, 9>>, <<15, 12, 13, 14>> >>
ChaChaRounds(x, rounds) == Each(LAMBDA s, i : Each(ChaChaQuarter, s, ChaChaQuarters), x, Upto(1, 1, rounds \div 2))
SalsaRounds(x, rounds) ==
    Each(LAMBDA s, i : Each(SalsaQuarter, s, SalsaColumns \o SalsaRows), x, Upto(1, 1, rounds \div 2))
RoundsOf(cipher, x) == IF cipher = "chacha" THEN ChaChaRounds(x, StreamRounds) ELSE SalsaRounds(x, StreamRounds)
PlusWords(a, b) == Listed(LAMBDA k : Plus(a[k], b[k]), Len(a))

(* ChaCha20 by rows: after half a double round the rows are turned so that *)
(* the next half works on the diagonals, and turned back.                  *)
ChaChaRowHalf(x, there, back) ==
    LET a1 == PlusRow(x[1], x[2]) d1 == TurnedRow(XorRow(x[4], a1), ChaChaTurns[1])
        c1 == PlusRow(x[3], d1)   b1 == TurnedRow(XorRow(x[2], c1), ChaChaTurns[2])
        a2 == PlusRow(a1, b1)     d2 == TurnedRow(XorRow(d1, a2), ChaChaTurns[3])
        c2 == PlusRow(c1, d2)     b2 == TurnedRow(XorRow(b1, c2), ChaChaTurns[4])
    IN <<Shuffled(a2, there), b2, Shuffled(c2, back), Shuffled(d2, 78)>>
chacha_by_rows(x) ==
    LET double(s, i) == ChaChaRowHalf(ChaChaRowHalf(s, 147, 57), 57, 147)
        r == Each(double, RowsOf(x), Upto(1, 1, StreamRounds \div 2))
    IN PlusWords(r[1] \o r[2] \o r[3] \o r[4], x)
(* Salsa20 by diagonals: p and q are those that a half turns; they change  *)
(* places for the next half.  What is added is taken before it is turned.  *)
SalsaDiagHalf(d, p, q) ==
    LET p1 == XorRow(d[p], TurnedRow(PlusRow(d[q], d[1]), SalsaTurns[1]))
        c1 == XorRow(d[3], TurnedRow(PlusRow(d[1], p1), SalsaTurns[2]))
        q1 == XorRow(d[q], TurnedRow(PlusRow(p1, c1), SalsaTurns[3]))
        a1 == XorRow(d[1], TurnedRow(PlusRow(c1, q1), SalsaTurns[4]))
    IN [d EXCEPT ![1] = a1, ![3] = Shuffled(c1, 78), ![p] = Shuffled(p1, 147), ![q] = Shuffled(q1, 57)]
SalsaDiagonals(x) ==
    LET four(s, i) == SalsaDiagHalf(SalsaDiagHalf(SalsaDiagHalf(SalsaDiagHalf(s, 4, 2), 2, 4), 4, 2), 2, 4)
    IN Each(four, RowsOf(x), Upto(1, 1, StreamRounds \div 4))
(* The place of the words of the diagonals in a block: ONEQUAD.            *)
FromDiagonals(r) ==
    <<r[1][1], r[2][2], r[3][3], r[4][4], r[4][1], r[1][2], r[2][3], r[3][4],
      r[3][1], r[4][2], r[1][3], r[2][4], r[2][1], r[3][2], r[4][3], r[1][4]>>
salsa_by_diagonals(x) ==
    LET d == SalsaDiagonals(x) x0 == RowsOf(x)
    IN FromDiagonals(<<PlusRow(d[1], x0[1]), PlusRow(d[2], x0[2]), PlusRow(d[3], x0[3]), PlusRow(d[4], x0[4])>>)

-----------------------------------------------------------------------------
(* Four or eight blocks at once: a vector has a word of each.  The vectors *)
(* of eight are two halves of four to all that moves words around.         *)
Unpacked32(a, b, k) ==
    IF Len(a) = 4 THEN <<a[k], b[k], a[k+1], b[k+1]>>
    ELSE <<a[k], b[k], a[k+1], b[k+1], a[k+4], b[k+4], a[k+5], b[k+5]>>
Unpacked64(a, b, k) ==
    IF Len(a) = 4 THEN <<a[k], a[k+1], b[k], b[k+1]>>
    ELSE <<a[k], a[k+1], b[k], b[k+1], a[k+4], a[k+5], b[k+4], b[k+5]>>
unpacklo(a, b) == Unpacked32(a, b, 1)
unpackhi(a, b) == Unpacked32(a, b, 3)
Permuted(v) == IF Len(v) = 4 THEN v ELSE <<v[1], v[2], v[5], v[6], v[3], v[4], v[7], v[8]>>
(* The numbers n, n + 1, ... of 2 words as a vector of low and high words. *)
CounterWords(n, from, count) ==
    Each(LAMBDA v, i : v \o <<(n + i) % 256, ((n + i) \div 256) % 256>>, <<>>, Upto(from, 1, count))
(* Mutant: as if the halves were one.                                      *)
CounterVectorsUnpermuted(n, lanes) ==
    LET t8 == CounterWords(n, 0, lanes \div 2) t9 == CounterWords(n, lanes \div 2, lanes \div 2)
        z8 == unpacklo(t8, t9) z9 == unpackhi(t8, t9)
    IN <<unpacklo(z8, z9), unpackhi(z8, z9)>>
CounterVectors(n, lanes) ==
    LET t8 == CounterWords(n, 0, lanes \div 2) t9 == CounterWords(n, lanes \div 2, lanes \div 2)
        z8 == unpacklo(t8, t9) z9 == unpackhi(t8, t9)
    IN <<Permuted(unpacklo(z8, z9)), Permuted(unpackhi(z8, z9))>>
(* Four vectors transposed: the four words of each block.                  *)
OneQuad(z, q) ==
    LET a == unpacklo(z[q], z[q+1])   b == unpacklo(z[q+2], z[q+3])
        c == unpackhi(z[q], z[q+1])   d == unpackhi(z[q+2], z[q+3])
    IN <<Unpacked64(a, b, 1), Unpacked64(a, b, 3), Unpacked64(c, d, 1), Unpacked64(c, d, 3)>>
(* Two such, for eight blocks: the lower halves are of the first four.     *)
OneOcto(z, q) ==
    LET x == OneQuad(z, q) y == OneQuad(z, q + 4)
        half(k, h) == SubSeq(x[k], 4 * h + 1, 4 * h + 4) \o SubSeq(y[k], 4 * h + 1, 4 * h + 4)
    IN <<half(1, 0), half(2, 0), half(3, 0), half(4, 0), half(1, 1), half(2, 1), half(3, 1), half(4, 1)>>
Stored(z, lanes) ==
    IF lanes = 4
    THEN LET q == <<OneQuad(z, 1), OneQuad(z, 5), OneQuad(z, 9), OneQuad(z, 13)>>
         IN Each(LAMBDA s, l : s \o q[1][l] \o q[2][l] \o q[3][l] \o q[4][l], <<>>, Upto(1, 1, 4))
    ELSE LET q == <<OneOcto(z, 1), OneOcto(z, 9)>>
         IN Each(LAMBDA s, l : s \o q[1][l] \o q[2][l], <<>>, Upto(1, 1, 8))
(* orig: the vectors a group starts from.  low and high are the numbers of *)
(* the words of the counter.                                               *)
Lanes(cipher, orig, lanes) ==
    LET of(l) == Listed(LAMBDA j : orig[j][l], 16)
        done == Listed(LAMBDA l : PlusWords(RoundsOf(cipher, of(l)), of(l)), lanes)
    IN Stored(Listed(LAMBDA j : Listed(LAMBDA l : done[l][j], lanes), 16), lanes)
SalsaOrder == <<0, 5, 10, 15, 12, 1, 6, 11, 8, 13, 2, 7, 4, 9, 14, 3>>   \* TR
CounterAt(cipher) == IF cipher = "chacha" THEN <<13, 14>> ELSE <<9, 14>>
CounterOf(cipher, x) == x[CounterAt(cipher)[1]] + 256 * x[CounterAt(cipher)[2]]
Advanced(cipher, x, n) ==
    LET c == CounterOf(cipher, x) + n
    IN [x EXCEPT ![CounterAt(cipher)[1]] = c % 256, ![CounterAt(cipher)[2]] = (c \div 256) % 256]
Group8or4(cipher, x, lanes) ==
    LET counters == CounterVectors(CounterOf(cipher, x), lanes)
        at(j) == IF cipher = "chacha" THEN j ELSE SalsaOrder[j] + 1
        counter(j) == IF cipher = "chacha" THEN j - 12 ELSE j - 8
        same(w) == Listed(LAMBDA l : w, lanes)
    IN Lanes(cipher, Listed(LAMBDA j : IF counter(j) \in {1, 2} THEN counters[counter(j)] ELSE same(x[at(j)]), 16), lanes)
OneBlock(cipher, x) == IF cipher = "chacha" THEN chacha_by_rows(x) ELSE salsa_by_diagonals(x)
(* In the order u8 (AVX2 only), u4, u1, u0, as long as there is enough.    *)
RECURSIVE VectorStream(_, _, _, _)
VectorStream(cipher, widest, x, len) ==
    LET lanes == IF len >= 8 * BlockWords /\ widest = 8 THEN 8 ELSE IF len >= 4 * BlockWords THEN 4 ELSE 1
    IN IF len = 0 THEN <<>>
       ELSE IF lanes = 1 /\ len < BlockWords THEN SubSeq(OneBlock(cipher, x), 1, len)
       ELSE (IF lanes = 1 THEN OneBlock(cipher, x) ELSE Group8or4(cipher, x, lanes))
            \o VectorStream(cipher, widest, Advanced(cipher, x, lanes), len - lanes * BlockWords)

-----------------------------------------------------------------------------
(* The portable code.  ChaCha20 keeps its words; Salsa20 has the nonce and *)
(* the counter in in, whose carry goes from each byte to the next: words   *)
(* here.                                                                   *)
ChaChaAfter(x) ==
    LET low == Plus(x[13], 1) IN [x EXCEPT ![13] = low, ![14] = IF low = 0 THEN Plus(@, 1) ELSE @]
RECURSIVE chacha20_encrypt_bytes(_, _)
chacha20_encrypt_bytes(x, len) ==
    IF len = 0 THEN <<>>
    ELSE LET block == PlusWords(ChaChaRounds(x, StreamRounds), x)
         IN IF len <= BlockWords THEN SubSeq(block, 1, len)
            ELSE block \o chacha20_encrypt_bytes(ChaChaAfter(x), len - BlockWords)
crypto_core_salsa(in, k, c, rounds) ==
    LET x == <<c[1], k[1], k[2], k[3], k[4], c[2], in[1], in[2], in[3], in[4], c[3], k[5], k[6], k[7], k[8], c[4]>>
    IN PlusWords(SalsaRounds(x, rounds), x)
SalsaAfter(in) ==
    LET carried(s, i) == LET u == s.u + s.in[i] IN [in |-> [s.in EXCEPT ![i] = u % 256], u |-> u \div 256]
    IN Each(carried, [in |-> in, u |-> 1], <<3, 4>>).in
RECURSIVE salsa_stream(_, _, _, _)
salsa_stream(in, k, len, rounds) ==
    IF len = 0 THEN <<>>
    ELSE LET block == crypto_core_salsa(in, k, Sigma, rounds)
         IN IF len < BlockWords THEN SubSeq(block, 1, len)
            ELSE block \o salsa_stream(SalsaAfter(in), k, len - BlockWords, rounds)

chacha_keysetup(k) == Sigma \o k
chacha_ivsetup(iv, ic) == <<ic % 256, ic \div 256, iv[1], iv[2]>>
chacha_ietf_ivsetup(iv, ic) == <<ic, iv[1], iv[2], iv[3]>>
(* Word j of the block is the word TR[j] of the input.                     *)
salsa_setup(k, iv, ic) ==
    LET w == <<Sigma[1], k[1], k[2], k[3], k[4], Sigma[2], iv[1], iv[2], ic % 256, ic \div 256,
               Sigma[3], k[5], k[6], k[7], k[8], Sigma[4]>>
    IN Listed(LAMBDA p : w[CHOOSE j \in 1..16 : SalsaOrder[j] = p - 1], 16)
(* width: 1 for the portable code, 4 with SSE, 8 with AVX2.                *)
chacha_xor_ic(width, m, setup) ==
    XorWords(m, IF width = 1 THEN chacha20_encrypt_bytes(setup, Len(m)) ELSE VectorStream("chacha", width, setup, Len(m)))
salsa_xor_ic(width, m, n, ic, k) ==
    XorWords(m, IF width = 1 THEN salsa_stream(n \o <<ic % 256, ic \div 256>>, k, Len(m), StreamRounds)
                ELSE VectorStream("salsa", width, salsa_setup(k, n, ic), Len(m)))

-----------------------------------------------------------------------------
(* The calls.                                                              *)
Zeros(len) == [k \in 1..len |-> 0]
crypto_stream_chacha20_xor_ic(width, m, n, ic, k) ==
    chacha_xor_ic(width, m, chacha_keysetup(k) \o chacha_ivsetup(n, ic))
crypto_stream_chacha20(width, len, n, k) == crypto_stream_chacha20_xor_ic(width, Zeros(len), n, 0, k)
crypto_stream_chacha20_ietf_ext_xor_ic(width, m, n, ic, k) ==
    chacha_xor_ic(width, m, chacha_keysetup(k) \o chacha_ietf_ivsetup(n, ic))
crypto_stream_chacha20_ietf_xor_ic(width, m, n, ic, k) ==
    IF ic > 256 - StreamBlocks(Len(m)) THEN "misuse"
    ELSE crypto_stream_chacha20_ietf_ext_xor_ic(width, m, n, ic, k)
crypto_stream_salsa20_xor_ic(width, m, n, ic, k) == salsa_xor_ic(width, m, n, ic, k)
crypto_stream_salsa2012_xor(m, n, k) == XorWords(m, salsa_stream(n \o <<0, 0>>, k, Len(m), StreamRounds \div 2))
crypto_stream_salsa208_xor(m, n, k) == XorWords(m, salsa_stream(n \o <<0, 0>>, k, Len(m), StreamRounds \div 2 - 2))
(* The key for a long nonce: the rounds without the addition of the input. *)
crypto_core_hchacha20(in, k, c) ==
    LET x == ChaChaRounds(c \o k \o in, StreamRounds) IN SubSeq(x, 1, 4) \o SubSeq(x, 13, 16)
crypto_core_hsalsa20(in, k, c) ==
    LET x == SalsaRounds(<<c[1], k[1], k[2], k[3], k[4], c[2], in[1], in[2], in[3], in[4], c[3], k[5], k[6], k[7], k[8], c[4]>>,
                         StreamRounds)
    IN <<x[1], x[6], x[11], x[16]>> \o SubSeq(x, 7, 10)
crypto_stream_xchacha20_xor_ic(width, m, n, ic, k) ==
    crypto_stream_chacha20_xor_ic(width, m, SubSeq(n, 5, 6), ic, crypto_core_hchacha20(SubSeq(n, 1, 4), k, Sigma))
crypto_stream_xsalsa20_xor_ic(width, m, n, ic, k) ==
    crypto_stream_salsa20_xor_ic(width, m, SubSeq(n, 5, 6), ic, crypto_core_hsalsa20(SubSeq(n, 1, 4), k, Sigma))
=============================================================================
