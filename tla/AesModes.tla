------------------------------ MODULE AesModes ------------------------------
(***************************************************************************)
(* AES256-GCM as the two accelerated implementations compute it, and       *)
(* AEGIS-128L and AEGIS-256.                                               *)
(*                                                                         *)
(* GCM takes counters and blocks in groups of Parallel, of four and of     *)
(* two, sums the hash of a group before one reduction, and has the hash of *)
(* the wide groups one step behind the encryption. The two implementations *)
(* differ in Parallel, 7 with AES-NI and 6 on ARM, and in where the round  *)
(* keys are added.                                                         *)
(*                                                                         *)
(* A byte has four bits here and a block of GCM four bytes, held as the    *)
(* two halves of the number that REV128 makes of it, the high one first.   *)
(* The last CounterBits bits of a block are its counter, the others the    *)
(* nonce. A round is the table MidRound, the last one FinalRound; the      *)
(* source has fourteen rounds.                                             *)
(*                                                                         *)
(* A block of AEGIS has two bytes; a round of AES is the table AesTable    *)
(* there, its key added after. A variant is "128l", with eight blocks of   *)
(* state and two to a step, or "256", with six and one.                    *)
(***************************************************************************)
EXTENDS Loops

CONSTANTS
    Rounds,       \* ROUNDS
    MidRound, FinalRound,    \* what a round does to half a block, before its key is added
    SubWord,      \* the S-box, of a word of the key: a nibble
    CounterBits   \* 32

ASSUME AesGcmAssumption == Rounds \in 2..14 /\ CounterBits \in 2..8

Halves == 0..255
ZeroBlock == <<0, 0>>
XorB(a, b) == <<Xor8(a[1], b[1]), Xor8(a[2], b[2])>>
SwapHalves(b) == <<b[2], b[1]>>
Nibbles(b) == <<b[1] \div 16, b[1] % 16, b[2] \div 16, b[2] % 16>>
OfNibbles(s) == <<16 * s[1] + s[2], 16 * s[3] + s[4]>>
(* A message is its blocks, the last filled with zeros, and its length in  *)
(* bytes.                                                                  *)
BlocksOf(len) == (len + 3) \div 4
CutBlock(b, left) == OfNibbles([k \in 1..4 |-> IF k <= left THEN Nibbles(b)[k] ELSE 0])

-----------------------------------------------------------------------------
(* The key: two halves of four words, from the last four words to the next.*)
Rcon == <<1, 2, 4, 8, 3, 6, 12>>
RotWord(w) == ((w * 2) % 16) + w \div 8
RunningXor(t) ==
    LET a == Xor4(t[1], t[2]) b == Xor4(a, t[3]) IN <<t[1], a, b, Xor4(b, t[4])>>
Mixed4(t, w) == [k \in 1..4 |-> Xor4(t[k], w)]
ExpandOne(s, rc) ==
    [keys |-> Append(s.keys, s.t2), t2 |-> s.t2,
     t1 |-> Mixed4(RunningXor(s.t1), Xor4(RotWord(SubWord[s.t2[4]]), rc))]
ExpandTwo(s, rc) ==
    [keys |-> Append(s.keys, s.t1), t1 |-> s.t1, t2 |-> Mixed4(RunningXor(s.t2), SubWord[s.t1[4]])]
expand256(key) ==
    LET pair(s, k) == IF k = 7 THEN ExpandOne(s, Rcon[7]) ELSE ExpandTwo(ExpandOne(s, Rcon[k]), Rcon[k])
        t1 == SubSeq(key, 1, 4)
        done == Each(pair, [keys |-> <<t1>>, t1 |-> t1, t2 |-> SubSeq(key, 5, 8)], Upto(1, 1, 7))
    IN [k \in 1..15 |-> OfNibbles(Append(done.keys, done.t1)[k])]

(* A block: with AES-NI a round ends with its key, on ARM it begins so.    *)
AesRound(b) == <<MidRound[b[2]], MidRound[Xor8(b[1], b[2])]>>
AesLastRound(b) == <<FinalRound[b[2]], FinalRound[Xor8(b[1], b[2])]>>
encrypt_aesni(rkeys, b) ==
    LET rounds == Each(LAMBDA t, i : XorB(AesRound(t), rkeys[i+1]), XorB(b, rkeys[1]), Upto(1, 1, Rounds - 1))
    IN XorB(AesLastRound(rounds), rkeys[Rounds+1])
encrypt_arm(rkeys, b) ==
    LET rounds == Each(LAMBDA t, i : AesRound(XorB(t, rkeys[i+1])), b, Upto(0, 1, Rounds - 1))
    IN XorB(AesLastRound(XorB(rounds, rkeys[Rounds])), rkeys[Rounds+1])
aes_encrypt(st, b) == IF st.arm THEN encrypt_arm(st.rkeys, b) ELSE encrypt_aesni(st.rkeys, b)

-----------------------------------------------------------------------------
(* The hash.  The bits of a block are the coefficients from x^0 down; the  *)
(* modulus is x^16 + x^5 + x^3 + x + 1 for x^128 + x^7 + x^2 + x + 1, and  *)
(* Poly is 0xc2 << 56: the terms of 1/x of the upper half.                 *)
Poly == 168
TwoHalves(n) == <<n \div 256, n % 256>>
clsq128(x) == [hi |-> TwoHalves(Clmul8(x[1], x[1])), lo |-> TwoHalves(Clmul8(x[2], x[2])), mid |-> ZeroBlock]
clmul128(x, y) ==
    [hi |-> TwoHalves(Clmul8(x[1], y[1])), lo |-> TwoHalves(Clmul8(x[2], y[2])),
     mid |-> TwoHalves(Xor16(Clmul8(x[1], y[2]), Clmul8(x[2], y[1])))]
gcm_reduce(x) ==
    LET hi == <<x.hi[1], Xor8(x.hi[2], x.mid[1])>>
        lo == <<Xor8(x.lo[1], x.mid[2]), x.lo[2]>>
        b == XorB(SwapHalves(lo), TwoHalves(Clmul8(lo[2], Poly)))
        d == XorB(SwapHalves(b), TwoHalves(Clmul8(b[2], Poly)))
    IN XorB(d, hi)
(* H, shifted by one so that the product comes out in its place, and its   *)
(* powers: hx[i] is the power i + 1.                                       *)
ShiftedKey(h) ==
    LET n == 256 * h[1] + h[2] IN XorB(TwoHalves((2 * n) % 65536), IF n >= 32768 THEN <<Poly, 1>> ELSE ZeroBlock)
precomp_for_block_count(h0, count) ==
    LET h == ShiftedKey(h0)
        two(hx, i) == hx \o <<gcm_reduce(clmul128(hx[i], h)), gcm_reduce(clsq128(hx[i \div 2 + 1]))>>
    IN Each(two, <<h, gcm_reduce(clsq128(h))>>, Upto(2, 2, (count - 2) \div 2))
(* n blocks at once: each with its power, one reduction.                   *)
XorI(u, t) == [hi |-> XorB(u.hi, t.hi), lo |-> XorB(u.lo, t.lo), mid |-> XorB(u.mid, t.mid)]
(* Adds blocks with the powers from top down to the sum u, which begins    *)
(* with the hash so far.                                                   *)
NoSum == [hi |-> ZeroBlock, lo |-> ZeroBlock, mid |-> ZeroBlock]
Summed(st, u, blocks, top) ==
    Each(LAMBDA v, j : XorI(v, clmul128(blocks[j], st.hx[top+1-j])), u, Upto(1, 1, Len(blocks)))
Begun(acc, blocks) == <<XorB(acc, blocks[1])>> \o Tail(blocks)
Absorbed(st, acc, blocks) == gcm_reduce(Summed(st, NoSum, Begun(acc, blocks), Len(blocks)))
RECURSIVE gh_ad_blocks(_, _, _)
gh_ad_blocks(st, acc, blocks) ==
    IF blocks = <<>> THEN acc
    ELSE LET n == CHOOSE g \in {2 * st.par, st.par, 4, 2, 1} :
                      /\ g <= Len(blocks)
                      /\ \A o \in {2 * st.par, st.par, 4, 2} : o <= Len(blocks) => o <= g
         IN gh_ad_blocks(st, Absorbed(st, acc, SubSeq(blocks, 1, n)), SubSeq(blocks, n + 1, Len(blocks)))

-----------------------------------------------------------------------------
(* The message.  What is done to it is a sequence of steps: n blocks are   *)
(* encrypted, or n blocks from one on are added to the hash with the       *)
(* powers from top down; the first power is the last of its sum.           *)
EncStep(n) == <<"encrypt", n, 0, 0>>
HashStep(from, n, top) == <<"hash", n, from, top>>
RECURSIVE InPairs(_, _, _), InWide(_, _, _), SmallGroups(_, _)
(* The encryption is ahead of the hash by one group, which is added after  *)
(* the last.                                                               *)
InPairs(par, i, len) ==
    IF i + 2 * par <= len
    THEN <<EncStep(par), HashStep(i - par, par, 2 * par), EncStep(par), HashStep(i, par, par)>> \o InPairs(par, i + 2 * par, len)
    ELSE <<HashStep(i - par, par, par)>>
InWide(par, i, len) ==
    IF i + par <= len THEN <<EncStep(par), HashStep(i - par, par, par)>> \o InWide(par, i + par, len)
    ELSE <<HashStep(i - par, par, par)>>
(* Blocks one by one up to the last, which stays for the end, if full too. *)
SmallGroups(i, left) ==
    LET n == IF left >= 16 THEN 4 ELSE IF left >= 8 THEN 2 ELSE 1
    IN IF left <= 4 THEN <<>> ELSE <<EncStep(n), HashStep(i, n, n)>> \o SmallGroups(i + n, left - 4 * n)
EncryptSteps(par, len) ==
    LET full == len \div 4
        pairs == full >= 2 * par
        i == IF pairs THEN par + 2 * par * ((full - par) \div (2 * par)) ELSE 0
        wide == full - i >= par
        k == IF wide THEN i + par * ((full - i) \div par) ELSE i
    IN (IF pairs THEN <<EncStep(par)>> \o InPairs(par, par, full) ELSE <<>>)
       \o (IF wide THEN <<EncStep(par)>> \o InWide(par, i + par, full) ELSE <<>>)
       \o SmallGroups(k, len - 4 * k)
(* Decryption adds a group to the hash before it is overwritten.           *)
RECURSIVE DecryptSteps(_, _, _)
DecryptSteps(par, i, left) ==
    LET n == IF left >= 4 * par THEN par ELSE IF left >= 16 THEN 4 ELSE IF left >= 8 THEN 2 ELSE 1
    IN IF left >= 8 * par
       THEN <<HashStep(i, par, 2 * par), EncStep(par), HashStep(i + par, par, par), EncStep(par)>>
            \o DecryptSteps(par, i + 2 * par, left - 8 * par)
       ELSE IF left <= 4 THEN <<>> ELSE <<HashStep(i, n, n), EncStep(n)>> \o DecryptSteps(par, i + n, left - 4 * n)

CounterBlock(npub, n) == TwoHalves(npub * 2^CounterBits + n)
(* ADD64x2: a carry out of the counter would reach the nonce.              *)
Add64(c, n) == <<c[1], (c[2] + n) % 256>>
CounterStream(st, counter, blocks) ==
    Listed(LAMBDA j : XorB(blocks[j], aes_encrypt(st, Add64(counter, j - 1))), Len(blocks))
(* What is at the blocks of the source: what was written there, if the    *)
(* call works in place.                                                    *)
ReadAt(call, dst, from, n) ==
    [k \in 1..n |-> IF call.inPlace /\ from + k <= Len(dst) THEN dst[from+k] ELSE call.text[from+k]]
GcmRun(st, steps, call, acc0) ==
    LET encrypted(s, n) ==
            [s EXCEPT !.dst = @ \o CounterStream(st, Add64(CounterBlock(call.npub, 2), Len(@)), ReadAt(call, @, Len(@), n))]
        hashed(s, from, n, top) ==
            LET read == IF call.open THEN ReadAt(call, s.dst, from, n) ELSE SubSeq(s.dst, from + 1, from + n)
                u == IF s.u = <<>> THEN Summed(st, NoSum, Begun(s.acc, read), top) ELSE Summed(st, s.u[1], read, top)
            IN IF top = n THEN [s EXCEPT !.acc = gcm_reduce(u), !.u = <<>>] ELSE [s EXCEPT !.u = <<u>>]
    IN Each(LAMBDA s, k : IF k[1] = "encrypt" THEN encrypted(s, k[2]) ELSE hashed(s, k[3], k[2], k[4]),
            [dst |-> <<>>, acc |-> acc0, u |-> <<>>], steps)
FinalBlock(adlen, len) == <<(4 * adlen) % 256, (4 * len) % 256>>
(* The rest, up to a block, goes with the final block; and the tag.        *)
GcmGeneric(st, steps, call) ==
    LET s == GcmRun(st, steps, call, gh_ad_blocks(st, ZeroBlock, call.ad))
        done == Len(s.dst)
        left == call.len - 4 * done
        last == CutBlock(XorB(call.text[done+1], aes_encrypt(st, Add64(CounterBlock(call.npub, 2), done))), left)
        final == <<FinalBlock(call.adlen, call.len)>>
        hashed == IF left = 0 THEN final ELSE <<IF call.open THEN call.text[done+1] ELSE last>> \o final
    IN [text |-> IF left = 0 THEN s.dst ELSE Append(s.dst, last),
        mac |-> XorB(aes_encrypt(st, CounterBlock(call.npub, 1)), gh_ad_blocks(st, s.acc, hashed))]
aes_gcm_encrypt_generic(st, call) == GcmGeneric(st, EncryptSteps(st.par, call.len), call)
aes_gcm_decrypt_generic(st, call) == GcmGeneric(st, DecryptSteps(st.par, 0, call.len), call)

-----------------------------------------------------------------------------
(* The calls.  A message of as many blocks as the counter has numbers, but *)
(* two, is refused, with a tag and a text that are not one.                *)
crypto_aead_aes256gcm_beforenm(par, arm, k) ==
    LET st == [par |-> par, arm |-> arm, rkeys |-> expand256(k), hx |-> <<>>]
    IN [st EXCEPT !.hx = precomp_for_block_count(aes_encrypt(st, ZeroBlock), 2 * par)]
RequiredAnyway(adlen, len) == BlocksOf(adlen) + BlocksOf(len) + 1
required_blocks(adlen, len) ==
    IF BlocksOf(len) >= 2^CounterBits - 2 THEN 0 ELSE BlocksOf(adlen) + BlocksOf(len) + 1
Filled(byte, len) ==
    [k \in 1..BlocksOf(len) |-> CutBlock(<<17 * byte, 17 * byte>>, len - 4 * (k - 1))]
gcm_encrypt_detached_afternm(st, call) ==
    IF required_blocks(call.adlen, call.len) = 0
    THEN [ret |-> -1, text |-> Filled(0, call.len), mac |-> <<221, 221>>]
    ELSE LET g == aes_gcm_encrypt_generic(st, call) IN [ret |-> 0, text |-> g.text, mac |-> g.mac]
gcm_verify_mac(st, call, mac) ==
    LET acc == gh_ad_blocks(st, gh_ad_blocks(st, gh_ad_blocks(st, ZeroBlock, call.ad), call.text),
                            <<FinalBlock(call.adlen, call.len)>>)
    IN IF \/ required_blocks(call.adlen, call.len) = 0
          \/ XorB(aes_encrypt(st, CounterBlock(call.npub, 1)), acc) # mac
       THEN -1 ELSE 0
gcm_decrypt_leaving_text(st, call, mac) ==
    LET g == aes_gcm_decrypt_generic(st, call) IN [ret |-> IF g.mac = mac THEN 0 ELSE -1, text |-> g.text]
gcm_decrypt_detached_afternm(st, call, mac) ==
    IF required_blocks(call.adlen, call.len) = 0 THEN [ret |-> -1, text |-> call.text]
    ELSE LET g == aes_gcm_decrypt_generic(st, call)
         IN IF g.mac = mac THEN [ret |-> 0, text |-> g.text] ELSE [ret |-> -1, text |-> Filled(13, call.len)]
(* Combined with the tag, as bytes.  The length of the text is 0 on        *)
(* failure, but not in encrypt_afternm.                                    *)
Blocked(s) ==
    Listed(LAMBDA k : OfNibbles([j \in 1..4 |-> IF 4*k-4+j <= Len(s) THEN s[4*k-4+j] ELSE 0]), BlocksOf(Len(s)))
Unblocked(blocks, len) == SubSeq(Each(LAMBDA s, b : s \o Nibbles(b), <<>>, blocks), 1, len)
crypto_aead_aes256gcm_encrypt_afternm(st, call) ==
    LET e == gcm_encrypt_detached_afternm(st, call)
    IN [ret |-> e.ret, c |-> Unblocked(e.text, call.len) \o Nibbles(e.mac), clen |-> call.len + 4]
crypto_aead_aes256gcm_encrypt(par, arm, k, call) ==
    LET e == crypto_aead_aes256gcm_encrypt_afternm(crypto_aead_aes256gcm_beforenm(par, arm, k), call)
    IN [e EXCEPT !.clen = IF e.ret = 0 THEN @ ELSE 0]
crypto_aead_aes256gcm_decrypt_afternm(st, call, c) ==
    IF Len(c) < 4 THEN [ret |-> -1, m |-> <<>>, mlen |-> 0]
    ELSE LET mlen == Len(c) - 4
             d == gcm_decrypt_detached_afternm(st, [call EXCEPT !.text = Blocked(SubSeq(c, 1, mlen)), !.len = mlen],
                                               OfNibbles(SubSeq(c, mlen + 1, mlen + 4)))
         IN [ret |-> d.ret, m |-> Unblocked(d.text, mlen), mlen |-> IF d.ret = 0 THEN mlen ELSE 0]
crypto_aead_aes256gcm_decrypt(par, arm, k, call, c) ==
    crypto_aead_aes256gcm_decrypt_afternm(crypto_aead_aes256gcm_beforenm(par, arm, k), call, c)
-----------------------------------------------------------------------------
(***************************************************************************)
(* The round of AES in software, with tables, and the key schedule's step  *)
(* on ARM: which byte goes where.  Blocks have 16 bytes of eight bits; the *)
(* S-box is a table of any values, SBox.  A word is its four bytes, the    *)
(* lowest first.                                                           *)
(***************************************************************************)
CONSTANTS SBox

Xtime(b) == IF b < 128 THEN 2 * b ELSE Xor8((2 * b) % 256, 27)
(* An entry of the table: a column's first byte times 2, 1, 1 and 3.       *)
_aes_lut(b) == LET s == SBox[b] IN <<Xtime(s), s, s, Xor8(Xtime(s), s)>>
(* The entries are read in strides, all that have the wanted one's place   *)
(* in its stride.                                                          *)
SOFTAES_STRIDE == 16
Looked(ix) ==
    LET t == [i \in 0..(256 \div SOFTAES_STRIDE - 1) |-> _aes_lut(i * SOFTAES_STRIDE + (ix % SOFTAES_STRIDE))]
    IN t[ix \div SOFTAES_STRIDE]
RotrBytes(w, n) == [k \in 1..4 |-> w[((k - 1 + n) % 4) + 1]]
RotlBytes(w, n) == [k \in 1..4 |-> w[((k - 1 - n) % 4) + 1]]
XorW(a, b) == [k \in 1..4 |-> Xor8(a[k], b[k])]
(* ix[r+1][j+1] is the byte of the block that goes to row r of column j.   *)
_encrypt(ix) ==
    LET word(j) == Each(LAMBDA w, r : XorW(w, RotlBytes(Looked(ix[r+1][j]), r)), <<0, 0, 0, 0>>, <<0, 1, 2, 3>>)
    IN Listed(word, 4)
softaes_block_encrypt(block, rk) ==
    LET ix == << <<block[1][1], block[2][1], block[3][1], block[4][1]>>,
                 <<block[2][2], block[3][2], block[4][2], block[1][2]>>,
                 <<block[3][3], block[4][3], block[1][3], block[2][3]>>,
                 <<block[4][4], block[1][4], block[2][4], block[3][4]>> >>
        out == _encrypt(ix)
    IN Listed(LAMBDA j : XorW(out[j], rk[j]), 4)

(* vaeseq with a key of zero: the bytes moved and replaced.                *)
vaeseq(b) == [k \in 0..15 |-> SBox[b[((k + 4 * (k % 4)) % 16) + 1]]]
ArmShuffle == <<4, 1, 14, 11, 1, 14, 11, 4, 12, 9, 6, 3, 9, 6, 3, 12>>
AES_KEYGEN(b, rc) ==
    LET a == vaeseq(b)
    IN [k \in 0..15 |-> IF k \in {4, 12} THEN Xor8(a[ArmShuffle[k+1]], rc) ELSE a[ArmShuffle[k+1]]]

-----------------------------------------------------------------------------
CONSTANTS AesTable, AegisMax   \* MESSAGEBYTES_MAX

AES_ENC(a, key) == Xor8(AesTable[a], key)
Sum8(s) == Each(Xor8, 0, s)
Rate(v) == IF v = "128l" THEN 2 ELSE 1
C0 == 29
C1 == 142

(* The state of a variant moves by one block; the data of a step go to the *)
(* first block, and of AEGIS-128L also to the fifth.                       *)
Moved(s) == Listed(LAMBDA i : AES_ENC(s[IF i = 1 THEN Len(s) ELSE i - 1], s[i]), Len(s))
aegis128l_update(s, d1, d2) == [Moved(s) EXCEPT ![1] = Xor8(@, d1), ![5] = Xor8(@, d2)]
aegis256_update(s, d) == [Moved(s) EXCEPT ![1] = Xor8(@, d)]
AegisUpdate(v, s, d) == IF v = "128l" THEN aegis128l_update(s, d[1], d[2]) ELSE aegis256_update(s, d[1])

aegis128l_init(key, nonce) ==
    LET k == key[1] n == nonce[1] kn == Xor8(k, n)
        s == <<kn, C1, C0, C1, kn, Xor8(k, C0), Xor8(k, C1), Xor8(k, C0)>>
    IN Each(LAMBDA t, i : aegis128l_update(t, n, k), s, Upto(1, 1, 10))
aegis256_init(key, nonce) ==
    LET kn == <<Xor8(key[1], nonce[1]), Xor8(key[2], nonce[2])>>
        s == <<kn[1], kn[2], C1, C0, Xor8(key[1], C0), Xor8(key[2], C1)>>
        step(t, i) == aegis256_update(t, <<key[1], key[2], kn[1], kn[2]>>[(i % 4) + 1])
    IN Each(step, s, Upto(0, 1, 16))
(* What is added to the text.                                              *)
Mask(v, s) ==
    IF v = "128l"
    THEN <<Sum8(<<s[7], s[2], And8(s[3], s[4])>>), Sum8(<<s[6], s[3], And8(s[7], s[8])>>)>>
    ELSE <<Sum8(<<s[6], s[5], s[2], And8(s[3], s[4])>>)>>

(* The lengths: a block of half adlen and half mlen.                       *)
MlenAlone(adlen, mlen) == mlen % 256
Lengths(adlen, mlen) == 16 * (adlen % 16) + (mlen % 16)
aegis128l_mac(maclen, adlen, mlen, state) ==
    LET tmp == Xor8(Lengths(adlen, mlen), state[3])
        s == Each(LAMBDA t, i : aegis128l_update(t, tmp, tmp), state, Upto(1, 1, 7))
    IN IF maclen = 16 THEN <<Sum8(SubSeq(s, 1, 7))>>
       ELSE IF maclen = 32 THEN <<Sum8(SubSeq(s, 1, 4)), Sum8(SubSeq(s, 5, 8))>> ELSE <<0>>
aegis256_mac(maclen, adlen, mlen, state) ==
    LET tmp == Xor8(Lengths(adlen, mlen), state[4])
        s == Each(LAMBDA t, i : aegis256_update(t, tmp), state, Upto(1, 1, 7))
    IN IF maclen = 16 THEN <<Sum8(s)>>
       ELSE IF maclen = 32 THEN <<Sum8(SubSeq(s, 1, 3)), Sum8(SubSeq(s, 4, 6))>> ELSE <<0>>

-----------------------------------------------------------------------------
(* Bytes in groups of Rate blocks, the last filled with zeros.             *)
Padded(s, k) == IF k <= Len(s) THEN s[k] ELSE 0
Group(v, s, g) ==
    LET at == 2 * Rate(v) * (g - 1)
    IN [j \in 1..Rate(v) |-> 16 * Padded(s, at + 2 * j - 1) + Padded(s, at + 2 * j)]
Groups(v, len) == (len + 2 * Rate(v) - 1) \div (2 * Rate(v))
GroupBytes(g) == Each(LAMBDA s, b : s \o <<b \div 16, b % 16>>, <<>>, g)
Absorb(v, s, ad) == Each(LAMBDA t, g : AegisUpdate(v, t, Group(v, ad, g)), s, Upto(1, 1, Groups(v, Len(ad))))
(* Only what there is of the last group is written, and what is absorbed   *)
(* of it is the message with zeros, whichever of the two was read.         *)
aegis_enc(v, s, m) ==
    LET step(t, g) ==
            LET in == Group(v, m, g) mask == Mask(v, t.s)
            IN [s |-> AegisUpdate(v, t.s, in), text |-> t.text \o GroupBytes([j \in 1..Rate(v) |-> Xor8(in[j], mask[j])])]
        r == Each(step, [s |-> s, text |-> <<>>], Upto(1, 1, Groups(v, Len(m))))
    IN [s |-> r.s, text |-> SubSeq(r.text, 1, Len(m))]
aegis_dec_unpadded(v, s, c) ==
    LET step(t, g) ==
            LET in == Group(v, c, g) mask == Mask(v, t.s)
                bytes == GroupBytes([j \in 1..Rate(v) |-> Xor8(in[j], mask[j])])
            IN [s |-> AegisUpdate(v, t.s, Group(v, bytes, 1)), text |-> t.text \o bytes]
        r == Each(step, [s |-> s, text |-> <<>>], Upto(1, 1, Groups(v, Len(c))))
    IN [s |-> r.s, text |-> SubSeq(r.text, 1, Len(c))]
aegis_dec(v, s, c) ==
    LET step(t, g) ==
            LET in == Group(v, c, g) mask == Mask(v, t.s)
                bytes == GroupBytes([j \in 1..Rate(v) |-> Xor8(in[j], mask[j])])
                there == IF Len(c) - Len(t.text) < Len(bytes) THEN Len(c) - Len(t.text) ELSE Len(bytes)
                kept == SubSeq(bytes, 1, there)
            IN [s |-> AegisUpdate(v, t.s, Group(v, kept, 1)), text |-> t.text \o kept]
    IN Each(step, [s |-> s, text |-> <<>>], Upto(1, 1, Groups(v, Len(c))))

Started(v, key, npub, ad) ==
    Absorb(v, IF v = "128l" THEN aegis128l_init(key, npub) ELSE aegis256_init(key, npub), ad)
AegisMac(v, maclen, adlen, mlen, s) ==
    IF v = "128l" THEN aegis128l_mac(maclen, adlen, mlen, s) ELSE aegis256_mac(maclen, adlen, mlen, s)
aegis_encrypt_detached(v, maclen, m, ad, npub, key) ==
    LET r == aegis_enc(v, Started(v, key, npub, ad), m)
    IN [c |-> r.text, mac |-> AegisMac(v, maclen, Len(ad), Len(m), r.s)]
(* A failure wipes the message; without a place for it, only the tag is    *)
(* compared.  A tag of another length than 16 or 32 is never right.        *)
aegis_decrypt_detached(v, maclen, c, mac, ad, npub, key, m) ==
    LET r == aegis_dec(v, Started(v, key, npub, ad), c)
        right == maclen \in {16, 32} /\ AegisMac(v, maclen, Len(ad), Len(c), r.s) = mac
    IN [ret |-> IF right THEN 0 ELSE -1,
        m |-> IF ~m THEN <<>> ELSE IF right THEN r.text ELSE [k \in 1..Len(c) |-> 0]]

(* The calls, with a tag of 32 bytes: four here.  A message that is too    *)
(* long stops the program when it is to be encrypted.                      *)
crypto_aead_aegis_encrypt(v, m, ad, npub, key) ==
    IF Len(m) > AegisMax \/ Len(ad) > AegisMax THEN [ret |-> "misuse", c |-> <<>>, clen |-> 0]
    ELSE LET e == aegis_encrypt_detached(v, 32, m, ad, npub, key)
         IN [ret |-> 0, c |-> e.c \o GroupBytes(e.mac), clen |-> Len(m) + 4]
crypto_aead_aegis_decrypt(v, c, ad, npub, key, m) ==
    IF Len(c) < 4 \/ Len(c) - 4 > AegisMax \/ Len(ad) > AegisMax THEN [ret |-> -1, m |-> <<>>, mlen |-> 0]
    ELSE LET len == Len(c) - 4
             mac == SubSeq(c, len + 1, len + 4)
             d == aegis_decrypt_detached(v, 32, SubSeq(c, 1, len), <<16 * mac[1] + mac[2], 16 * mac[3] + mac[4]>>,
                                         ad, npub, key, m)
         IN [ret |-> d.ret, m |-> d.m, mlen |-> IF d.ret = 0 THEN len ELSE 0]
=============================================================================
