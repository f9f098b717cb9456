----------------------------- MODULE KeyedHashes -----------------------------
(***************************************************************************)
(* What is made with a hash and a key: HMAC, HKDF, subkeys, session keys   *)
(* and the short hash, and the comparison of two authenticators.  A block  *)
(* of SHA-256 has 4 bytes and a digest 2, those of SHA-512 have 8 and 4; a *)
(* byte that counts has 4 values.  A byte that BLAKE2b gives is what it is *)
(* of: the input, the length of the digest and its place in it.  For the   *)
(* short hash a byte has 2 bits and a word, as in the source, 8 bytes.     *)
(***************************************************************************)
EXTENDS Boxes

CONSTANTS Digest(_, _)   \* SHA-256 or SHA-512 of bytes: HashSize bytes

HashBlock == [sha256 |-> 4, sha512 |-> 8]
HashSize == [sha256 |-> 2, sha512 |-> 4]
HmacKeyBytes == 2
CounterValues == 4
SessionKeyBytes == 2

Blake2b(n, input) == [k \in 1..n |-> [of |-> input, len |-> n, at |-> k]]

-----------------------------------------------------------------------------
(* HMAC: a state is what the inner and the outer hash have taken.          *)
PadBlock(h, pad, key) == Listed(LAMBDA k : IF k <= Len(key) THEN Xor8(pad, key[k]) ELSE pad, HashBlock[h])
Keyed(h, taken, key) == [h |-> h, ictx |-> taken \o PadBlock(h, 54, key), octx |-> PadBlock(h, 92, key)]
(* Mutant: the inner hash is not begun again after the key.                *)
hmac_init_unreset(h, key) ==
    IF Len(key) > HashBlock[h] THEN Keyed(h, key, Digest(h, key)) ELSE Keyed(h, <<>>, key)
hmac_init(h, key) == Keyed(h, <<>>, IF Len(key) > HashBlock[h] THEN Digest(h, key) ELSE key)
hmac_update(st, in) == [st EXCEPT !.ictx = @ \o in]
hmac_final(st) == Digest(st.h, st.octx \o Digest(st.h, st.ictx))
hmac_parts(h, key, parts) == hmac_final(Each(hmac_update, hmac_init(h, key), parts))
crypto_auth_hmac(h, in, k) == hmac_final(hmac_update(hmac_init(h, SubSeq(k, 1, HmacKeyBytes)), in))
crypto_auth_hmacsha512256(in, k) == SubSeq(crypto_auth_hmac("sha512", in, k), 1, HashSize["sha512"] \div 2)
crypto_auth_hmac_verify(h, mac, in, k) == IF mac = crypto_auth_hmac(h, in, k) THEN 0 ELSE -1

(* HKDF.                                                                   *)
hkdf_extract(h, salt, parts) == hmac_parts(h, salt, parts)
HkdfMax(h) == (CounterValues - 1) * HashSize[h]
ExpandTurn(h, prk, ctx, s) ==
    LET st == hmac_init(h, prk)
        chained == IF s.out = <<>> THEN st ELSE hmac_update(st, SubSeq(s.out, Len(s.out) - HashSize[h] + 1, Len(s.out)))
    IN [out |-> s.out \o hmac_final(hmac_update(hmac_update(chained, ctx), <<s.counter>>)),
        counter |-> (s.counter + 1) % CounterValues]
(* The blocks that fit, then one for what is left.                         *)
Expanded(h, prk, ctx, outLen, fit) ==
    LET whole == Each(LAMBDA s, i : ExpandTurn(h, prk, ctx, s), [out |-> <<>>, counter |-> 1], Upto(1, 1, fit))
        left == outLen % HashSize[h]
    IN IF left = 0 THEN whole.out ELSE SubSeq(ExpandTurn(h, prk, ctx, whole).out, 1, Len(whole.out) + left)
(* Mutant: a block that ends where the output does is not made.            *)
hkdf_expand_short(h, outLen, ctx, prk) ==
    IF outLen > HkdfMax(h) THEN [ret |-> -1]
    ELSE [ret |-> 0, out |-> Expanded(h, prk, ctx, outLen, IF outLen = 0 THEN 0 ELSE (outLen - 1) \div HashSize[h])]
hkdf_expand(h, outLen, ctx, prk) ==
    IF outLen > HkdfMax(h) THEN [ret |-> -1]
    ELSE [ret |-> 0, out |-> Expanded(h, prk, ctx, outLen, outLen \div HashSize[h])]

(* Subkeys: of 2 to 5 bytes here, the number of a subkey and the context   *)
(* have 2 bytes and the salt and the personalization of BLAKE2b 4.         *)
SubkeyMin == 2
SubkeyMax == 5
kdf_blake2b_derive_from_key(len, id, ctx, key) ==
    LET salt == <<id % CounterValues, id \div CounterValues, 0, 0>>
    IN IF len < SubkeyMin \/ len > SubkeyMax THEN [ret |-> -1]
       ELSE [ret |-> 0, subkey |-> Blake2b(len, [key |-> key, salt |-> salt, personal |-> ctx \o <<0, 0>>])]

-----------------------------------------------------------------------------
(* Session keys.  mem has a buffer for every pointer that is not NULL.     *)
SharedKeys(own_sk, other_pk, client_pk, server_pk) ==
    LET q == Shared(own_sk, other_pk)
    IN IF q = Zeros(8) THEN [ret |-> -1]
       ELSE [ret |-> 0, keys |-> Blake2b(2 * SessionKeyBytes, q \o client_pk \o server_pk)]
(* Byte by byte, first to one buffer and then to the other.                *)
KeysWritten(mem, first, second, keys) ==
    LET write(m, i) == LET m1 == [m EXCEPT ![first][i] = keys[i]] IN [m1 EXCEPT ![second][i] = keys[i + SessionKeyBytes]]
    IN Each(write, mem, Upto(1, 1, SessionKeyBytes))
OneForBoth(p, other) == IF p = NULL THEN other ELSE p
crypto_kx_client_session_keys(mem, rx, tx, client_pk, client_sk, server_pk) ==
    LET rx1 == OneForBoth(rx, tx)
        tx1 == OneForBoth(tx, rx1)
        shared == SharedKeys(client_sk, server_pk, client_pk, server_pk)
    IN IF rx1 = NULL THEN [ret |-> Misuse, mem |-> mem]
       ELSE IF shared.ret # 0 THEN [ret |-> -1, mem |-> mem]
       ELSE [ret |-> 0, mem |-> KeysWritten(mem, rx1, tx1, shared.keys)]
(* Mutant: the server hashes its own public key first.                     *)
server_keys_own_first(mem, rx, tx, server_pk, server_sk, client_pk) ==
    LET rx1 == OneForBoth(rx, tx)
        tx1 == OneForBoth(tx, rx1)
        shared == SharedKeys(server_sk, client_pk, server_pk, client_pk)
    IN IF rx1 = NULL THEN [ret |-> Misuse, mem |-> mem]
       ELSE IF shared.ret # 0 THEN [ret |-> -1, mem |-> mem]
       ELSE [ret |-> 0, mem |-> KeysWritten(mem, tx1, rx1, shared.keys)]
crypto_kx_server_session_keys(mem, rx, tx, server_pk, server_sk, client_pk) ==
    LET rx1 == OneForBoth(rx, tx)
        tx1 == OneForBoth(tx, rx1)
        shared == SharedKeys(server_sk, client_pk, client_pk, server_pk)
    IN IF rx1 = NULL THEN [ret |-> Misuse, mem |-> mem]
       ELSE IF shared.ret # 0 THEN [ret |-> -1, mem |-> mem]
       ELSE [ret |-> 0, mem |-> KeysWritten(mem, tx1, rx1, shared.keys)]

-----------------------------------------------------------------------------
(* Two strings of n bytes compared: by bytes, by vectors of 16.            *)
verify_by_bytes(x, y) ==
    LET d == Each(LAMBDA z, k : Or8(z, Xor8(x[k], y[k])), 0, Upto(1, 1, Len(x)))
    IN ((((d + 65535) % 65536) \div 256) % 2) - 1
(* Mutant: the first vector alone.                                         *)
verify_first_vector(x, y) ==
    LET zero(lane) == \A k \in 4 * lane + 1..4 * lane + 4 : Xor8(x[k], y[k]) = 0
        mask == Each(LAMBDA m, lane : m + IF zero(lane) THEN 15 * 16^lane ELSE 0, 0, <<0, 1, 2, 3>>)
    IN (mask + 1) \div 65536 - 1
verify_by_vectors(x, y) ==
    LET z == Listed(LAMBDA k : Each(LAMBDA a, i : Or8(a, Xor8(x[i], y[i])), 0, Upto(k, 16, Len(x) \div 16)), 16)
        zero(lane) == \A k \in 4 * lane + 1..4 * lane + 4 : z[k] = 0
        mask == Each(LAMBDA m, lane : m + IF zero(lane) THEN 15 * 16^lane ELSE 0, 0, <<0, 1, 2, 3>>)
    IN (mask + 1) \div 65536 - 1

-----------------------------------------------------------------------------
(* SipHash.  The words it begins with are others, and the rotations by 13, *)
(* 16, 17, 21 and 32 are by 3, 4, 7, 5 and 8.                              *)
SipBegin == <<29557, 25711, 27769, 29797>>
SipBeginX == <<29557, 25731, 27769, 29797>>
SipPlus(a, b) == (a + b) % 65536
ROTL16(x, n) == ((x * 2^n) % 65536) + x \div 2^(16 - n)
LOAD_LE(bytes) == Each(LAMBDA w, k : w + bytes[k] * 4^(k - 1), 0, Upto(1, 1, Len(bytes)))
STORE_LE(w) == [k \in 1..8 |-> (w \div 4^(k - 1)) % 4]
SIPROUND(v) ==
    LET a0 == SipPlus(v[1], v[2]) a1 == Xor16(ROTL16(v[2], 3), a0)
        a2 == SipPlus(v[3], v[4]) a3 == Xor16(ROTL16(v[4], 4), a2)
        b0 == SipPlus(ROTL16(a0, 8), a3) b3 == Xor16(ROTL16(a3, 5), b0)
        b2 == SipPlus(a2, a1) b1 == Xor16(ROTL16(a1, 7), b2)
    IN <<b0, b1, ROTL16(b2, 8), b3>>
SipRounds(v, n) == Each(LAMBDA u, i : SIPROUND(u), v, Upto(1, 1, n))
SipWord(v, m) == [SipRounds([v EXCEPT ![4] = Xor16(@, m)], 2) EXCEPT ![1] = Xor16(@, m)]
SipStart(begin, k) ==
    LET k0 == LOAD_LE(SubSeq(k, 1, 8)) k1 == LOAD_LE(SubSeq(k, 9, 16))
    IN <<Xor16(begin[1], k0), Xor16(begin[2], k1), Xor16(begin[3], k0), Xor16(begin[4], k1)>>
(* The last word: the bytes left, and the length above them.               *)
SipLast(in) == (Len(in) % 4) * 4^7 + LOAD_LE(SubSeq(in, Len(in) - (Len(in) % 8) + 1, Len(in)))
SipAbsorbed(begin, in, k) ==
    LET words == Each(LAMBDA v, at : SipWord(v, LOAD_LE(SubSeq(in, at, at + 7))), SipStart(begin, k), Upto(1, 8, Len(in) \div 8))
    IN SipWord(words, SipLast(in))
SipOut(v) == STORE_LE(Xor16(Xor16(v[1], v[2]), Xor16(v[3], v[4])))
crypto_shorthash_siphash24(in, k) ==
    LET v == SipAbsorbed(SipBegin, in, k) IN SipOut(SipRounds([v EXCEPT ![3] = Xor16(@, 3)], 4))
crypto_shorthash_siphashx24(in, k) ==
    LET v == SipAbsorbed(SipBeginX, in, k)
        low == SipRounds([v EXCEPT ![3] = Xor16(@, 2)], 4)
    IN SipOut(low) \o SipOut(SipRounds([low EXCEPT ![2] = Xor16(@, 1)], 4))
=============================================================================
