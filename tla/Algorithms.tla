------------------------------ MODULE Algorithms ------------------------------
(***************************************************************************)
(* The algorithms of the library as the source computes them, on small     *)
(* words and blocks, against definitions of what they compute: the calls   *)
(* of the module Calls, but for those that it has itself.                  *)
(***************************************************************************)
EXTENDS Calls, AesModes, StreamCiphers, Boxes, KeyedHashes, Poly1305, PwHash, Scrypt

CONSTANT LowOrder   \* a public key whose product with any secret is zero

-----------------------------------------------------------------------------
(* AES256-GCM.                                                             *)
(* A message, ad or key of the given length, the same for the same seed.   *)
Sample(seed, len) == [k \in 1..len |-> (seed * k * 37 + seed * seed * 11 + k * k * 5 + (k * seed) \div 3) % 16]
GcmCall(c, text, open, inPlace) ==
    [text |-> text, len |-> c.mlen, ad |-> Blocked(Sample(c.npub + 7, c.adlen)), adlen |-> c.adlen,
     npub |-> c.npub, open |-> open, inPlace |-> inPlace]
Altered(b) == <<b[1], Xor8(b[2], 64)>>
Gcm(c) ==
    LET key == Sample(c.key, 8)
        st == crypto_aead_aes256gcm_beforenm(c.par, c.arm, key)
        m == Blocked(Sample(c.npub + 3, c.mlen))
        enc == crypto_aead_aes256gcm_encrypt(c.par, c.arm, key, GcmCall(c, m, FALSE, c.inPlace))
        text == Blocked(SubSeq(enc.c, 1, c.mlen))
        mac == OfNibbles(SubSeq(enc.c, c.mlen + 1, c.mlen + 4))
        other == IF text = <<>> THEN <<>> ELSE <<Altered(text[1])>> \o Tail(text)
        open(t, tag) == gcm_decrypt_detached_afternm(st, GcmCall(c, t, TRUE, c.inPlace), tag)
        verify(t) == gcm_verify_mac(st, GcmCall(c, t, TRUE, FALSE), mac)
    IN [m |-> m, enc |-> enc, forged |-> open(text, Altered(mac)), altered |-> open(other, mac),
        verified |-> verify(text), refused |-> verify(other),
        opened |-> crypto_aead_aes256gcm_decrypt(c.par, c.arm, key, GcmCall(c, <<>>, TRUE, c.inPlace), enc.c)]

(* AEGIS: with the ad or the message one zero longer, too.                 *)
AegisOf(c) ==
    LET key == Sample(c.key, 2) npub == Sample(c.key + 1, 2)
        ad == Sample(c.key + 2, c.adlen)
        m == Sample(c.key + 3, c.mlen)
        enc(text, a) == crypto_aead_aegis_encrypt(c.v, text, a, npub, key)
        e == enc(m, ad)
        dec(cipher, a, place) == crypto_aead_aegis_decrypt(c.v, cipher, a, npub, key, place)
        forged == [e.c EXCEPT ![c.forge] = 15 - @]
    IN [m |-> m, enc |-> e, dec |-> dec(e.c, ad, TRUE), verified |-> dec(e.c, ad, FALSE),
        forged |-> dec(forged, ad, TRUE), refused |-> dec(forged, ad, FALSE),
        longer |-> enc(m \o <<0>>, ad), padded |-> enc(m, ad \o <<0>>)]
AesOf(c) ==
    LET bytes(seed) == [k \in 1..16 |-> (seed * k * 97 + k * k * 13 + seed * 41) % 256]
        words(b) == [j \in 1..4 |-> SubSeq(b, 4 * j - 3, 4 * j)]
        b == bytes(c.seed) rk == bytes(c.seed + 5)
    IN [b |-> b, rk |-> rk, round |-> softaes_block_encrypt(words(b), words(rk)), keygen |-> AES_KEYGEN(b, c.seed)]

(* Words of eight bits.                                                    *)
Words8(seed, len) == [k \in 1..len |-> (seed * k * 37 + seed * 59 + k * k * 11 + (k * seed) \div 5) % 256]
StreamOf(c) ==
    LET k == Words8(c.seed, 8) n == Words8(c.seed + 1, 6) m == Words8(c.seed + 2, c.len)
        of(width) ==
            CASE c.cipher = "chacha" -> crypto_stream_chacha20_xor_ic(width, m, SubSeq(n, 1, 2), c.ic, k)
            [] c.cipher = "ietf" -> crypto_stream_chacha20_ietf_xor_ic(width, m, SubSeq(n, 1, 3), c.ic, k)
            [] c.cipher = "salsa" -> crypto_stream_salsa20_xor_ic(width, m, SubSeq(n, 1, 2), c.ic, k)
            [] c.cipher = "xchacha" -> crypto_stream_xchacha20_xor_ic(width, m, n, c.ic, k)
            [] c.cipher = "xsalsa" -> crypto_stream_xsalsa20_xor_ic(width, m, n, c.ic, k)
    IN [k |-> k, n |-> n, m |-> m, ref |-> of(1), sse |-> of(4), avx |-> of(8)]

(* Boxes, in memory of which every word is known: the text at From, its    *)
(* output gap words from there, and back again; and a box that is altered. *)
From == 40
Memory(seed) == [k \in 1..96 |-> (seed + 7 * k) % 256]
AlteredAt(mem, a) == [mem EXCEPT ![a + 1] = 255 - @]
Holding(seed, m) == Laid(Memory(seed), From, m)
BoxOf(c) ==
    LET k == Words8(c.seed, 8) n == Words8(c.seed + 1, 6) m == Words8(c.seed + 2, c.mlen)
        to == From + c.gap len == c.mlen + MacBytes
        closed == crypto_secretbox_easy(c.p, Holding(c.seed, m), to, From, c.mlen, n, k)
        altered == AlteredAt(closed.mem, to + (c.seed % len))
        open(mem, at, clen) == crypto_secretbox_open_easy(c.p, mem, at, to, clen, n, k)
    IN [k |-> k, n |-> n, m |-> m, closed |-> closed, opened |-> open(closed.mem, From, len),
        verified |-> open(closed.mem, NULL, len), altered |-> altered, refused |-> open(altered, From, len),
        short |-> open(closed.mem, From, 3),
        padded |-> crypto_secretbox_xsalsa20poly1305(Zeros(8) \o m, n, k),
        padback |-> crypto_secretbox_xsalsa20poly1305_open(Zeros(4) \o Loaded(closed.mem, to, len), n, k)]
SealOf(c) ==
    LET e == crypto_box_keypair(c.esk) b == crypto_box_seed_keypair(c.seed) other == crypto_box_keypair(c.esk + 3)
        m == Words8(c.seed + 2, c.mlen) n == Words8(c.seed + 1, 6)
        to == From + c.gap len == c.mlen + MacBytes
        mem == Holding(c.seed, m)
        sealed == crypto_box_seal(c.p, mem, to, From, c.mlen, b.pk, c.esk)
        box == crypto_box_easy(c.p, mem, to, From, c.mlen, n, b.pk, e.sk)
        open(pk, sk, nonce) == crypto_box_open_easy(c.p, box.mem, From, to, len, nonce, pk, sk)
    IN [m |-> m, mem |-> mem, sealed |-> sealed, box |-> box,
        unsealed |-> crypto_box_seal_open(c.p, sealed.mem, From, to, c.mlen + SealBytes, b.pk, b.sk),
        stolen |-> crypto_box_seal_open(c.p, sealed.mem, From, to, c.mlen + SealBytes, other.pk, other.sk),
        cut |-> crypto_box_seal_open(c.p, sealed.mem, From, to, SealBytes - 1, b.pk, b.sk),
        received |-> open(e.pk, b.sk, n), returned |-> open(b.pk, e.sk, n), misaddressed |-> open(e.pk, other.sk, n),
        afternm |-> crypto_box_easy_afternm(c.p, mem, to, From, c.mlen, n, crypto_box_beforenm(c.p, e.pk, b.sk).k),
        opened |-> crypto_box_open_easy_afternm(c.p, box.mem, From, to, len, n, crypto_box_beforenm(c.p, b.pk, e.sk).k),
        low |-> crypto_box_easy(c.p, mem, to, From, c.mlen, n, LowOrder, b.sk),
        lowseal |-> crypto_box_seal(c.p, mem, to, From, c.mlen, LowOrder, c.esk),
        padded |-> crypto_box(Zeros(8) \o m, n, b.pk, e.sk),
        padback |-> crypto_box_open(Zeros(4) \o Loaded(box.mem, to, len), n, e.pk, b.sk)]
AeadOf(c) ==
    LET k == Words8(c.seed, 8) n == Words8(c.seed + 1, 6) m == Words8(c.seed + 2, c.mlen) ad == Words8(c.seed + 3, c.adlen)
        to == IF c.inPlace THEN From ELSE 4
        closed == crypto_aead_encrypt(c.v, Holding(c.seed, m), to, From, c.mlen, ad, n, k)
        altered == AlteredAt(closed.mem, to + (c.alter % (c.mlen + MacBytes)))
        open(mem, at, clen, a) == crypto_aead_decrypt(c.v, mem, at, to, clen, a, n, k)
        len == c.mlen + MacBytes
    IN [to |-> to, k |-> k, n |-> n, m |-> m, ad |-> ad, closed |-> closed, opened |-> open(closed.mem, From, len, ad),
        verified |-> open(closed.mem, NULL, len, ad), altered |-> altered, refused |-> open(altered, From, len, ad),
        unverified |-> open(altered, NULL, len, ad), otherad |-> open(closed.mem, From, len, ad \o <<0>>),
        short |-> open(closed.mem, From, 3, ad)]
AbsorbedOf(c) == [absorbed |-> {AeadAbsorbed(c.v, pair[1], pair[2]) : pair \in c.texts \X c.texts}]

(* Poly1305 of parts of the given lengths.  The edge: with r = 1, the sum  *)
(* of three blocks is seed - 1 more than the modulus.                        *)
Geometry(impl) == IF impl = "64" THEN Of64 ELSE Of32
Filler(g, fill, seed) ==
    LET top == PowerOf2[g.byte] - 1
    IN [k \in 1..60 |-> CASE fill = "max" -> top
                        [] fill = "mixed" -> (seed * k * 37 + seed * 59 + k * k * 1101) % (top + 1)
                        [] fill = "edge" -> IF k = 1 THEN top - 5 + seed ELSE IF k <= g.block THEN top ELSE 0]
PolyCall(c) ==
    LET g == Geometry(c.impl)
        r == IF c.fill = "edge" THEN [k \in 1..g.block |-> IF k = 1 THEN 1 ELSE 0] ELSE SubSeq(Filler(g, c.key, c.seed), 1, g.block)
        key == r \o SubSeq(Filler(g, c.key, c.seed + 1), 1, g.block)
        text == Filler(g, c.fill, c.seed)
        total == Each(LAMBDA n, len : n + len, 0, c.lens)
        parts == Each(LAMBDA s, len : [at |-> s.at + len, parts |-> Append(s.parts, SubSeq(text, s.at + 1, s.at + len))],
                      [at |-> 0, parts |-> <<>>], c.lens).parts
    IN [key |-> key, m |-> SubSeq(text, 1, total), parts |-> InParts(c.impl, key, parts),
        one |-> InOne(c.impl, key, SubSeq(text, 1, total))]

(* Argon2: the compression, the positions, the memory and the strings.     *)
BlamkaOf(c) ==
    LET prev == Words8(c.seed, 128) ref == Words8(c.seed + 1, 128) next == Words8(c.seed + 2, 128)
    IN [r |-> XorBlocks(ref, prev), next |-> next, filled |-> fill_blamka(c.impl, prev, ref),
        over |-> fill_blamka_with_xor(c.impl, prev, ref, next)]
Shape(segment_length, lanes, passes, type) ==
    [passes |-> passes, memory_blocks |-> 4 * segment_length * lanes, segment_length |-> segment_length,
     lane_length |-> 4 * segment_length, lanes |-> lanes, type |-> type]
AlphaOf(c) ==
    LET inst == Shape(c.segment_length, 2, 2, Argon2_i)
    IN [at |-> [rand \in 0..255 |-> index_alpha(inst, c.pass, c.slice, c.index, rand, c.same)]]
ArgonContext(c) == Context(Words8(c.seed, 3), Words8(c.seed + 1, 4), c.outlen, c.t, c.m, c.lanes)
ArgonOf(c) ==
    LET context == ArgonContext(c)
    IN [portable |-> Argon2Memory(FALSE, context, c.type), vectors |-> Argon2Memory(TRUE, context, c.type),
        tag |-> Argon2Hash(TRUE, context, c.type)]
LongOf(c) == [hash |-> blake2b_long(c.len, Words8(c.seed, 5))]
PrehashOf(c) ==
    LET context(pwd, salt, outlen, secret, ad) == [Context(pwd, salt, outlen, 1, 8, 1) EXCEPT !.secret = secret, !.ad = ad]
    IN [hashed |-> {Prehash(context(p, s, o, x, a), t) : p, s \in c.texts, o \in {1, 2}, x, a \in c.optional, t \in {Argon2_i, Argon2_id}}]
StoredOf(c) ==
    LET made == crypto_pwhash_str(Heap(c.fails), c.passwd, c.salt, c.ops, c.mem, c.type)
        verify(passwd, fails) == crypto_pwhash_str_verify(Heap(fails), made.text, passwd, c.ulong_max)
        rehash(ops, mem, fails) == crypto_pwhash_str_needs_rehash(Heap(fails), made.text, ops, mem, c.ulong_max)
    IN [made |-> made, right |-> verify(c.passwd, 0), wrong |-> verify(Append(c.passwd, 0), 0),
        failing |-> verify(c.passwd, c.later), same |-> rehash(c.ops, c.mem, 0), slower |-> rehash(c.ops + 1, c.mem, 0),
        larger |-> rehash(c.ops, c.mem + Kilobyte, 0), unread |-> rehash(c.ops, c.mem, 1),
        raw |-> crypto_pwhash(Heap(c.fails), HashBytes, c.passwd, FALSE, c.salt, c.ops, c.mem, c.type),
        onto |-> crypto_pwhash(Heap(c.fails), HashBytes, c.passwd, TRUE, c.salt, c.ops, c.mem, c.type)]
PwStringOf(c) ==
    LET d == argon2_decode_string(c.str, Len(c.str), c.type, c.ulong_max)
        context == Context(<<>>, d.c.salt, Len(d.c.out), d.c.t_cost, d.c.m_cost, d.c.lanes)
        written(room) == argon2_encode_string(room, [context EXCEPT !.out = d.c.out], c.type)
    IN [ret |-> d.ret, c |-> d.c, again |-> IF d.ret = "OK" THEN [room \in 0..(Len(c.str) + 2) |-> written(room)] ELSE <<>>]

(* scrypt: a key by either of the implementations, the memory that costs   *)
(* need, the costs for limits, and the strings.                            *)
ScryptOf(c) ==
    LET kdf(impl) == escrypt_kdf(impl, Words8(c.seed, 3), Words8(c.seed + 1, 4), c.n, c.r, c.p, c.buflen, "")
    IN [portable |-> kdf("nosse"), vectors |-> kdf("sse")]
CostsOf(c) == [need |-> [rp \in c.r \X c.p |-> Need(c.n, rp[1], rp[2], c.buflen)]]
PickedOf(c) == [picked |-> [mem \in c.mem |-> pickparams(c.ops, mem)]]
ScryptStrOf(c) ==
    LET made == crypto_pwhash_scrypt_str("nosse", c.passwd, c.salt, c.ops, c.mem, c.fails)
        verify(impl, str, passwd, fails) == crypto_pwhash_scrypt_str_verify(impl, str, passwd, fails)
        rehash(str, ops, mem) == crypto_pwhash_scrypt_str_needs_rehash(str, ops, mem)
        raw(onto) == crypto_pwhash_scrypt("sse", 5, c.passwd, onto, c.salt, c.ops, c.mem, c.fails)
    IN [made |-> made, raw |-> raw(FALSE), onto |-> raw(TRUE)]
       @@ IF made.ret # 0 THEN <<>>
          ELSE [portable |-> verify("nosse", made.str, c.passwd, ""), vectors |-> verify("sse", made.str, c.passwd, ""),
                wrong |-> verify("sse", made.str, Append(c.passwd, 0), ""), failing |-> verify("sse", made.str, c.passwd, "alloc"),
                same |-> rehash(made.str, c.ops, c.mem), slower |-> rehash(made.str, 4 * c.ops, c.mem),
                larger |-> rehash(made.str, c.ops, 8 * c.mem), unread |-> rehash([made.str EXCEPT ![2] = 54], c.ops, c.mem)]
ScryptChangedOf(c) ==
    LET str == crypto_pwhash_scrypt_str("nosse", c.passwd, c.salt, c.ops, c.mem, "").str changed == [str EXCEPT ![c.at] = c.char]
    IN [changed |-> changed # str, ret |-> crypto_pwhash_scrypt_str_verify("sse", changed, c.passwd, "")]

(* Keyed hashes.                                                           *)
HmacOf(c) ==
    LET key == Words8(c.seed, c.keylen) text == Words8(c.seed + 1, c.len) k == Words8(c.seed + 2, HmacKeyBytes)
        mac == crypto_auth_hmac(c.h, text, k)
    IN [key |-> key, k |-> k, text |-> text, mac |-> mac, half |-> crypto_auth_hmacsha512256(text, k),
        parts |-> [cut \in 0..c.len |-> hmac_parts(c.h, key, <<SubSeq(text, 1, cut), SubSeq(text, cut + 1, c.len)>>)],
        verified |-> crypto_auth_hmac_verify(c.h, mac, text, k),
        refused |-> crypto_auth_hmac_verify(c.h, [mac EXCEPT ![1] = 255 - @], text, k)]
HkdfOf(c) ==
    LET salt == Words8(c.seed, c.saltlen) ikm == Words8(c.seed + 1, 5) ctx == Words8(c.seed + 2, c.ctxlen)
        prk == hkdf_extract(c.h, salt, <<SubSeq(ikm, 1, 2), SubSeq(ikm, 3, 5)>>)
    IN [salt |-> salt, ikm |-> ikm, ctx |-> ctx, prk |-> prk, expanded |-> hkdf_expand(c.h, c.outlen, ctx, prk)]
SubkeysOf(c) ==
    [derived |-> {kdf_blake2b_derive_from_key(c.len, id, ctx, key) : id \in c.ids, ctx \in c.ctxs, key \in c.keys}]
KxOf(c) ==
    LET mem == <<Blake2b(SessionKeyBytes, "client"), Blake2b(SessionKeyBytes, "server")>>
        cpk == Public(c.csk) spk == Public(c.ssk)
        client(rx, tx, pk) == crypto_kx_client_session_keys(mem, rx, tx, cpk, c.csk, pk)
        server(rx, tx, pk) == crypto_kx_server_session_keys(mem, rx, tx, spk, c.ssk, pk)
    IN [mem |-> mem, client |-> client(1, 2, spk), server |-> server(1, 2, cpk),
        oneEach |-> <<client(1, NULL, spk), client(NULL, 1, spk), server(1, NULL, cpk), server(NULL, 1, cpk)>>,
        none |-> {client(NULL, NULL, spk), server(NULL, NULL, cpk)}, low |-> {client(1, 2, LowOrder), server(1, 2, LowOrder)},
        other |-> crypto_kx_client_session_keys(mem, 1, 2, cpk, c.csk, Public(c.ssk + 1))]
VerifyOf(c) ==
    LET x == Words8(c.seed, c.n)
        y(at, bits) == [x EXCEPT ![at[1]] = Xor8(@, bits[1]), ![at[2]] = Xor8(@, bits[2])]
    IN [x |-> x, compared |-> [d \in c.at \X c.bits |->
           [y |-> y(d[1], d[2]), bytes |-> verify_by_bytes(x, y(d[1], d[2])), vectors |-> verify_by_vectors(x, y(d[1], d[2]))]]]
SipOf(c) ==
    LET in == [k \in 1..c.len |-> (c.seed * k + k * k * 3 + k \div 5) % 4] key == [k \in 1..16 |-> (c.seed + k * 7 + k \div 3) % 4]
    IN [in |-> in, key |-> key, short |-> crypto_shorthash_siphash24(in, key), long |-> crypto_shorthash_siphashx24(in, key)]

-----------------------------------------------------------------------------
Result(c) ==
    CASE c.op = "gcm" -> Gcm(c)
    [] c.op = "aegis" -> AegisOf(c)
    [] c.op = "aes" -> AesOf(c)
    [] c.op = "stream" -> StreamOf(c)
    [] c.op = "box" -> BoxOf(c)
    [] c.op = "seal" -> SealOf(c)
    [] c.op = "aead" -> AeadOf(c)
    [] c.op = "absorbed" -> AbsorbedOf(c)
    [] c.op = "poly" -> PolyCall(c)
    [] c.op = "hex" -> HexOf(c)
    [] c.op = "base64" -> Base64Of(c)
    [] c.op = "chars" -> CharsOf(c)
    [] c.op = "padding" -> PaddingOf(c)
    [] c.op = "numbers" -> NumbersOf(c)
    [] c.op = "uniform" -> UniformOf(c)
    [] c.op = "blamka" -> BlamkaOf(c)
    [] c.op = "alpha" -> AlphaOf(c)
    [] c.op = "argon" -> ArgonOf(c)
    [] c.op = "long" -> LongOf(c)
    [] c.op = "prehash" -> PrehashOf(c)
    [] c.op = "stored" -> StoredOf(c)
    [] c.op = "pwstring" -> PwStringOf(c)
    [] c.op = "scrypt" -> ScryptOf(c)
    [] c.op = "costs" -> CostsOf(c)
    [] c.op = "picked" -> PickedOf(c)
    [] c.op = "scryptstr" -> ScryptStrOf(c)
    [] c.op = "scryptchanged" -> ScryptChangedOf(c)
    [] c.op = "hmac" -> HmacOf(c)
    [] c.op = "hkdf" -> HkdfOf(c)
    [] c.op = "subkeys" -> SubkeysOf(c)
    [] c.op = "kx" -> KxOf(c)
    [] c.op = "verify" -> VerifyOf(c)
    [] c.op = "sip" -> SipOf(c)
-----------------------------------------------------------------------------
(* What they should compute.                                               *)
(* FIPS 197: a word of the key is the one eight before it and the last.    *)
RefKey(key) ==
    LET next(w, i) ==
            LET last == IF i % 8 = 0 THEN Xor4(RotWord(SubWord[w[i]]), Rcon[i \div 8])
                        ELSE IF i % 8 = 4 THEN SubWord[w[i]] ELSE w[i]
            IN Append(w, Xor4(w[i-7], last))
        w == Each(next, key, Upto(8, 1, 52))
    IN Listed(LAMBDA k : OfNibbles(SubSeq(w, 4*k-3, 4*k)), 15)
RefAes(rkeys, b) == encrypt_aesni(rkeys, b)
(* SP 800-38D: multiplication by the powers of x, bit by bit.              *)
RefPowers(h) ==
    LET half(v) == IF v % 2 = 0 THEN v \div 2 ELSE Xor16(v \div 2, 54272)
    IN Each(LAMBDA s, i : Append(s, half(s[i])), <<256 * h[1] + h[2]>>, Upto(1, 1, 15))
RefGhash(h, blocks) ==
    LET v == RefPowers(h)
        times(x) == Each(LAMBDA z, i : IF (x \div 2^(16-i)) % 2 = 1 THEN Xor16(z, v[i]) ELSE z, 0, Upto(1, 1, 16))
        y == Each(LAMBDA a, b : times(Xor16(a, 256 * b[1] + b[2])), 0, blocks)
    IN TwoHalves(y)
RefGcm(c, m) ==
    LET rkeys == RefKey(Sample(c.key, 8))
        j(n) == TwoHalves(c.npub * 2^CounterBits + n)
        text == Listed(LAMBDA k : CutBlock(XorB(m[k], RefAes(rkeys, j(k + 1))), c.mlen - 4 * (k - 1)), Len(m))
        hashed == Blocked(Sample(c.npub + 7, c.adlen)) \o text \o <<<<(4 * c.adlen) % 256, (4 * c.mlen) % 256>>>>
        mac == XorB(RefAes(rkeys, j(1)), RefGhash(RefAes(rkeys, <<0, 0>>), hashed))
    IN [ret |-> 0, c |-> Unblocked(text, c.mlen) \o Nibbles(mac), clen |-> c.mlen + 4]

(* Both implementations of AES256-GCM encrypt every length, at whatever    *)
(* place it falls in their groups of 14, 12, 7, 6, 4 and 2 blocks, as      *)
(* counter mode with the hash of one block after the other, and refuse a   *)
(* message whose counter would reach the nonce.                            *)
GcmIsCounterModeAndHash ==
    Done("gcm") =>
        IF BlocksOf(call.mlen) < 2^CounterBits - 2 THEN out.enc = RefGcm(call, out.m)
        ELSE out.enc.ret = -1 /\ out.enc.clen = 0
(* Decryption, in place too, returns the message; with another tag or text *)
(* it fails, as the verification without decryption does, and leaves no    *)
(* byte of the message.                                                    *)
GcmOpensItsOwn ==
    Done("gcm") =>
        IF out.enc.ret = -1 THEN out.opened.ret = -1 /\ out.verified = -1
        ELSE /\ out.opened = [ret |-> 0, m |-> Unblocked(out.m, call.mlen), mlen |-> call.mlen]
             /\ out.verified = 0
             /\ out.forged = [ret |-> -1, text |-> Filled(13, call.mlen)]
             /\ call.mlen > 0 => out.altered = out.forged /\ out.refused = -1

(* AEGIS opens what it closed, whatever the last group is short of, and    *)
(* compares the tag as well without a place for the message; an altered    *)
(* text or tag fails and leaves zeros.                                     *)
AegisOpensItsOwn ==
    Done("aegis") =>
        /\ out.dec = [ret |-> 0, m |-> out.m, mlen |-> call.mlen]
        /\ out.verified = [ret |-> 0, m |-> <<>>, mlen |-> call.mlen]
        /\ out.forged = [ret |-> -1, m |-> [k \in 1..call.mlen |-> 0], mlen |-> 0]
        /\ out.refused.ret = -1
(* A zero more at the end of the message or of the ad fills the same group *)
(* and changes the tag, though not the text before it.                     *)
AegisLengthsCount ==
    Done("aegis") =>
        LET tag(e) == SubSeq(e.c, e.clen - 3, e.clen)
        IN /\ tag(out.longer) # tag(out.enc) /\ tag(out.padded) # tag(out.enc)
           /\ SubSeq(out.longer.c, 1, call.mlen) = SubSeq(out.enc.c, 1, call.mlen)
(* FIPS 197 on bytes: rows shifted, columns mixed; and the assistant of    *)
(* the key schedule as the other processor has it.                         *)
RefColumn(b, j) ==
    LET s(r) == SBox[b[4 * ((j + r) % 4) + r + 1]]
        mixed(r) == Xor8(Xor8(Xtime(s(r)), Xor8(Xtime(s((r + 1) % 4)), s((r + 1) % 4))),
                         Xor8(s((r + 2) % 4), s((r + 3) % 4)))
    IN <<mixed(0), mixed(1), mixed(2), mixed(3)>>
RefKeygen(b, rc) ==
    LET s(k) == SBox[b[k+1]]
        half(k) == <<s(k), s(k+1), s(k+2), s(k+3), Xor8(s(k+1), rc), s(k+2), s(k+3), s(k)>>
    IN half(4) \o half(12)
AesIsAes ==
    Done("aes") =>
        /\ \A j \in 0..3 : out.round[j+1] = XorW(RefColumn(out.b, j), SubSeq(out.rk, 4 * j + 1, 4 * j + 4))
        /\ \A k \in 0..15 : out.keygen[k] = RefKeygen(out.b, call.seed)[k+1]

(* Block number n of a stream, by itself.                                  *)
ChaChaBlock(k, counter) == LET x == Sigma \o k \o counter IN PlusWords(ChaChaRounds(x, StreamRounds), x)
LowHigh(n) == <<n % 256, (n \div 256) % 256>>
RefBlock(c, k, nonce, n) ==
    CASE c.cipher = "chacha" -> ChaChaBlock(k, LowHigh(n) \o SubSeq(nonce, 1, 2))
    [] c.cipher = "ietf" -> ChaChaBlock(k, <<n>> \o SubSeq(nonce, 1, 3))
    [] c.cipher = "salsa" -> crypto_core_salsa(SubSeq(nonce, 1, 2) \o LowHigh(n), k, Sigma, StreamRounds)
(* A long nonce: the key is a block without what was added at the end, of  *)
(* the words that are not secret.                                          *)
Minus(x, y) == [j \in 1..8 |-> (x[j] - y[j]) % 256]
At8(x, places) == [j \in 1..8 |-> x[places[j]]]
RefSubkey(c, k, nonce) ==
    LET in == SubSeq(nonce, 1, 4)
    IN IF c.cipher = "xchacha" THEN Minus(At8(ChaChaBlock(k, in), <<1, 2, 3, 4, 13, 14, 15, 16>>), Sigma \o in)
       ELSE Minus(At8(crypto_core_salsa(in, k, Sigma, StreamRounds), <<1, 6, 11, 16, 7, 8, 9, 10>>), Sigma \o in)
RefStream(c, k, nonce, m) ==
    LET stream == Each(LAMBDA s, n : s \o RefBlock(c, k, nonce, n), <<>>, Upto(c.ic, 1, StreamBlocks(Len(m))))
    IN XorWords(m, stream)
(* The portable, the SSE and the AVX2 code make the same stream, at every  *)
(* length and through a carry of the counter anywhere in a group: block    *)
(* after block of the cipher at the numbers that follow each other.  For a *)
(* long nonce the key is the one that the cipher's block has.              *)
AllMake(stream) == {out.ref, out.sse, out.avx} = {stream}
StreamBy(cipher, k, nonce) == AllMake(RefStream([cipher |-> cipher, ic |-> call.ic], k, nonce, out.m))
StreamsAreBlocksInOrder ==
    Done("stream") =>
        IF call.cipher = "ietf" /\ call.ic + StreamBlocks(call.len) > 256 THEN AllMake("misuse")
        ELSE IF call.cipher \in {"xchacha", "xsalsa"}
        THEN StreamBy(IF call.cipher = "xchacha" THEN "chacha" ELSE "salsa", RefSubkey(call, out.k, out.n), SubSeq(out.n, 5, 6))
        ELSE StreamBy(call.cipher, out.k, out.n)
(* A box by its definition: the first half of block 0 of the stream is the *)
(* key of the authenticator, and the text has the words after it.          *)
Tagged(xored) == PolyOf(SubSeq(xored, 1, 8), SubSeq(xored, 9, Len(xored))) \o SubSeq(xored, 9, Len(xored))
RefBox(c, k, n, m) ==
    LET long == IF c.p = "salsa" THEN "xsalsa" ELSE "xchacha"
    IN Tagged(RefStream([cipher |-> c.p, ic |-> 0], RefSubkey([cipher |-> long], k, n), SubSeq(n, 5, 6), Zeros(8) \o m))
(* Only the words from a on are changed, to s.                             *)
OnlyWrites(before, r, a, s) == r.ret = 0 /\ r.mem = Laid(before, a, s)
Refuses(before, r) == r.ret = -1 /\ r.mem = before
(* crypto_secretbox_easy and its opening work wherever input and output    *)
(* overlap: what is written is the box by its definition, and the message, *)
(* and nothing around them.  A box with a word altered, or too short, is   *)
(* refused with nothing written, and no place for the message is needed to *)
(* verify.  The old functions with room for the key make the same boxes.   *)
ClosesAs(box, to) ==
    /\ OnlyWrites(Holding(call.seed, out.m), out.closed, to, box)
    /\ OnlyWrites(out.closed.mem, out.opened, From, out.m)
    /\ OnlyWrites(out.closed.mem, out.verified, to, box)
    /\ Refuses(out.altered, out.refused) /\ Refuses(out.closed.mem, out.short)
    /\ call.p = "salsa" => /\ out.padded = [ret |-> 0, c |-> Zeros(4) \o box]
                            /\ out.padback = [ret |-> 0, m |-> Zeros(8) \o out.m]
BoxesIgnoreOverlap ==
    Done("box") =>
        IF call.mlen > MaxText THEN out.closed = [ret |-> Misuse, mem |-> Holding(call.seed, out.m)]
        ELSE ClosesAs(RefBox(call, out.k, out.n, out.m), From + call.gap)
(* A public key box opens for its receiver with the sender's public key,   *)
(* and for the sender, but for no other pair; the shared key computed      *)
(* before makes the same box; a sealed box opens for its receiver alone,   *)
(* however the message and the box overlap; a public key of low order and  *)
(* a box too short are refused, with nothing of the message written.       *)
SealedOpensForItsReceiver ==
    Done("seal") =>
        LET to == From + call.gap IN
        /\ OnlyWrites(out.sealed.mem, out.unsealed, From, out.m)
        /\ Refuses(out.sealed.mem, out.stolen) /\ Refuses(out.sealed.mem, out.cut)
        /\ Loaded(out.sealed.mem, to, 8) = Public(call.esk)
        /\ OnlyWrites(out.box.mem, out.received, From, out.m) /\ out.returned = out.received
        /\ Refuses(out.box.mem, out.misaddressed)
        /\ out.afternm = out.box /\ out.opened = out.received
        /\ Refuses(out.mem, out.low)
        /\ out.lowseal.ret = -1 /\ out.lowseal.mem = Laid(out.mem, to, Public(call.esk))
        /\ call.p = "salsa" => /\ out.padded = [ret |-> 0, c |-> Zeros(4) \o Loaded(out.box.mem, to, call.mlen + MacBytes)]
                                /\ out.padback = [ret |-> 0, m |-> Zeros(8) \o out.m]
(* RFC 8439 and its two variants: the key of the authenticator is the      *)
(* beginning of block 0, the text has the blocks from 1 on.                *)
Authenticated(key, text) == text \o PolyOf(key, AeadAbsorbed(call.v, out.ad, text))
AeadBy(cipher, k, n) ==
    Authenticated(SubSeq(RefBlock([cipher |-> cipher], k, n, 0), 1, 8), RefStream([cipher |-> cipher, ic |-> 1], k, n, out.m))
RefAead ==
    IF call.v = "xchacha" THEN AeadBy("ietf", RefSubkey([cipher |-> "xchacha"], out.k, out.n), <<0, out.n[5], out.n[6]>>)
    ELSE AeadBy(call.v, out.k, out.n)
(* Decryption verifies before it writes, in place too: the message comes   *)
(* back, while an altered text or tag or another ad leaves zeros instead   *)
(* of the message, and what is too short leaves the memory as it was.      *)
(* Without a place for the message it only verifies.                       *)
AeadVerifiesFirst ==
    Done("aead") =>
        LET cleared(mem, r) == r = [ret |-> -1, mem |-> Laid(mem, From, Zeros(call.mlen)), mlen |-> 0]
        IN /\ OnlyWrites(Holding(call.seed, out.m), out.closed, out.to, RefAead) /\ out.closed.clen = call.mlen + MacBytes
           /\ OnlyWrites(out.closed.mem, out.opened, From, out.m) /\ out.opened.mlen = call.mlen
           /\ out.verified = [ret |-> 0, mem |-> out.closed.mem, mlen |-> call.mlen]
           /\ cleared(out.altered, out.refused) /\ cleared(out.closed.mem, out.otherad)
           /\ Refuses(out.altered, out.unverified) /\ Refuses(out.closed.mem, out.short)
(* What the authenticator is given tells apart every two pairs of an ad    *)
(* and a text, wherever one ends and the other begins, also where words of *)
(* theirs look like the padding or like the lengths.                       *)
AeadTellsApart == Done("absorbed") => Cardinality(out.absorbed) = Cardinality(call.texts) * Cardinality(call.texts)
(* RFC 8439: the blocks, with a bit after each, are the coefficients of a  *)
(* polynomial at r, and the rest of the key is added to its value.         *)
RefTimes(g, a, b) ==
    LET p == PowerOf2[g.modulus] - 5
        twice(z) == (z + z) % p
        step(z, i) == IF BitsOf(b, g.modulus - i, 1) = 1 THEN (twice(z) + a) % p ELSE twice(z)
    IN Each(step, 0, Upto(1, 1, g.modulus))
RefPoly(impl, key, m) ==
    LET g == Geometry(impl)
        limbs == IF impl = "64" THEN init64(key).r ELSE init32(key).r
        r == IF impl = "64" THEN limbs[1] + L44 * (limbs[2] + L44 * limbs[3])
             ELSE limbs[1] + L26 * (limbs[2] + L26 * (limbs[3] + L26 * (limbs[4] + L26 * limbs[5])))
        coefficient(k) == LET b == SubSeq(m, k, IF k + g.block - 1 > Len(m) THEN Len(m) ELSE k + g.block - 1)
                          IN ValueOf(g, b) + PowerOf2[g.byte * Len(b)]
        blocks == (Len(m) + g.block - 1) \div g.block
        h == Each(LAMBDA y, k : RefTimes(g, (y + coefficient(k)) % (PowerOf2[g.modulus] - 5), r), 0, Upto(1, g.block, blocks))
        mac == ((h % PowerOf2[g.modulus - 2]) + ValueOf(g, SubSeq(key, g.block + 1, 2 * g.block))) % PowerOf2[g.modulus - 2]
    IN [k \in 1..g.block |-> BitsOf(mac, g.byte * (k - 1), g.byte)]
(* Every implementation gives the value of that polynomial, in one call    *)
(* and in parts, whatever the parts leave over for each other, also when   *)
(* the value is just below or above the modulus; the vector code asks for  *)
(* no power of r that it did not compute.                                  *)
PolyIsPolynomial ==
    Done("poly") => out.parts = RefPoly(call.impl, out.key, out.m) /\ out.one = out.parts
-----------------------------------------------------------------------------
(* Argon2, as RFC 9106 has it: the permutation, register (i, j) being the  *)
(* words 2j and 2j + 1 of row i.                                           *)
RefG(m, is) ==
    LET f(x, y) == (x + y + 2 * (x % 16) * (y % 16)) % 256
        turned(x, n) == (x \div 2^n) + ((x * 2^(8 - n)) % 256)
        half(q, d, b) ==
            LET a1 == f(q[1], q[2]) d1 == turned(Xor8(q[4], a1), d) c1 == f(q[3], d1) IN <<a1, turned(Xor8(q[2], c1), b), c1, d1>>
        q == half(half([k \in 1..4 |-> m[is[k]]], 4, 3), 2, 7)
    IN [m EXCEPT ![is[1]] = q[1], ![is[2]] = q[2], ![is[3]] = q[3], ![is[4]] = q[4]]
RefP(st, places) ==
    LET cell(r, c) == 4 * r + (c % 4) + 1
        columns == Each(LAMBDA m, c : RefG(m, [r \in 1..4 |-> cell(r - 1, c)]), [k \in 1..16 |-> st[places[k]]], Upto(0, 1, 4))
        diagonals == Each(LAMBDA m, c : RefG(m, [r \in 1..4 |-> cell(r - 1, c + r - 1)]), columns, Upto(0, 1, 4))
        at == [p \in {places[k] : k \in 1..16} |-> CHOOSE k \in 1..16 : places[k] = p]
    IN [p \in 1..128 |-> IF p \in DOMAIN at THEN diagonals[at[p]] ELSE st[p]]
RefPermutation(st) ==
    LET register(i, j, h) == 16 * i + 2 * j + h + 1
        rows == Each(LAMBDA s, i : RefP(s, [k \in 1..16 |-> register(i, (k - 1) \div 2, (k - 1) % 2)]), st, Upto(0, 1, 8))
    IN Each(LAMBDA s, j : RefP(s, [k \in 1..16 |-> register((k - 1) \div 2, j, (k - 1) % 2)]), rows, Upto(0, 1, 8))
(* The portable compression and those for vectors are the same function,   *)
(* that of the RFC: nothing is exchanged that is not exchanged back, in    *)
(* the rounds on rows and in those on columns.                             *)
FilledBy(p) == out.filled = XorBlocks(p, out.r) /\ out.over = XorBlocks(p, XorBlocks(out.r, out.next))
CompressionsAgree == Done("blamka") => FilledBy(RefPermutation(out.r))
(* The columns that may be referred to, in the order they were made: the   *)
(* last three segments that all lanes have finished, in the same lane      *)
(* those of this segment as well, and not the one that is the previous     *)
(* block, or may be made while another lane begins the segment.            *)
Window(inst, pass, slice, index, same) ==
    LET segment(n) == [k \in 1..inst.segment_length |-> (n % 4) * inst.segment_length + k - 1]
        finished == IF pass = 0 THEN FoldLeft(LAMBDA w, n : w \o segment(n), <<>>, Upto(0, 1, slice))
                    ELSE segment(slice + 1) \o segment(slice + 2) \o segment(slice + 3)
        own == IF same THEN SubSeq(segment(slice), 1, index) ELSE <<>>
        all == finished \o own
    IN IF same \/ index = 0 THEN SubSeq(all, 1, Len(all) - 1) ELSE all
(* The one of a window that a random number, here a byte, stands for.      *)
Chosen(window, low) == window[Len(window) - (Len(window) * ((low * low) \div 256)) \div 256]
(* What index_alpha's comment says: a block refers to one of its window,   *)
(* so never to one that another lane makes meanwhile, to itself, to one    *)
(* not made yet or to the previous one, and to those made last the most.   *)
ReferencesAreInTheWindow ==
    Done("alpha") =>
        LET window == Window(Shape(call.segment_length, 2, 2, Argon2_i), call.pass, call.slice, call.index, call.same)
        IN \A rand \in 0..255 : out.at[rand] = Chosen(window, rand)
(* The memory of the RFC: the lanes take turns at each index, the last     *)
(* lane first.                                                             *)
AddedToMixed(r) == xor_block(r, BlockMixed(r))
RefCompress(a, b) == AddedToMixed(xor_block(a, b))
RefRandom(before, inst, pass, slice, index, lane) ==
    LET z == <<pass, lane, slice, inst.memory_blocks, inst.passes, inst.type, (index \div 8) + 1, 0>>
    IN IF inst.type = Argon2_i \/ (pass = 0 /\ slice < 2) THEN RefCompress(ZeroWords, RefCompress(ZeroWords, z))[(index % 8) + 1]
       ELSE before[1]
RefColumnOf(inst, pass, slice, index, lane, l, j) == Chosen(Window(inst, pass, slice, index, l = lane), j % 256)
RefReferred(mem, inst, pass, slice, index, lane, j) ==
    LET l == IF pass = 0 /\ slice = 0 THEN lane ELSE (j \div 256) % inst.lanes
    IN mem[<<l, RefColumnOf(inst, pass, slice, index, lane, l, j)>>]
RefBlockAt(mem, inst, pass, slice, index, lane) ==
    LET col == slice * inst.segment_length + index
        before == mem[<<lane, (col - 1) % inst.lane_length>>]
        put(new) == [mem EXCEPT ![<<lane, col>>] = IF pass = 0 THEN new ELSE xor_block(new, @)]
    IN put(RefCompress(before, RefReferred(mem, inst, pass, slice, index, lane, RefRandom(before, inst, pass, slice, index, lane))))
RefMemory(context, type) ==
    LET inst == Shape(context.m_cost \div (4 * context.lanes), context.lanes, context.t_cost, type)
        h0 == argon2_initial_hash(context, type)
        first == [p \in (0..context.lanes - 1) \X (0..inst.lane_length - 1) |->
                     IF p[2] < 2 THEN load_block(blake2b_long(16, h0 \o <<p[2], p[1]>>)) ELSE ZeroWords]
        slices == Upto(0, 1, 4 * inst.passes)
        slice(mem, n) ==
            LET skipped == IF n = 0 THEN 2 * inst.lanes ELSE 0
            IN Each(LAMBDA m, k : RefBlockAt(m, inst, n \div 4, n % 4, k \div inst.lanes, inst.lanes - 1 - (k % inst.lanes)), mem,
                    Upto(skipped, 1, inst.segment_length * inst.lanes - skipped))
    IN Each(slice, first, slices)
(* The memory is that of the RFC, whichever code fills it and in whichever *)
(* order the lanes of a slice are filled, for every pass, and the hash is  *)
(* that of the last column.                                                *)
MemoryIs(ref, context) ==
    LET q == 4 * (context.m_cost \div (4 * context.lanes))
        last == FoldLeft(LAMBDA b, l : xor_block(b, ref[<<l, q - 1>>]), ref[<<0, q - 1>>], Upto(1, 1, context.lanes - 1))
    IN /\ out.portable = [k \in 0..(q * context.lanes - 1) |-> ref[<<k \div q, k % q>>]]
       /\ out.vectors = out.portable
       /\ out.tag = blake2b_long(context.outlen, store_block(last))
MemoryIsThatOfTheRfc ==
    Done("argon") => MemoryIs(RefMemory(ArgonContext(call), call.type), ArgonContext(call))
(* The long hash is the first halves of a chain of hashes, and the whole   *)
(* of its last one, cut to length.                                         *)
LongHashIsChained ==
    Done("long") =>
        LET x == <<call.len>> \o Words8(call.seed, 5)
            r == (call.len + 1) \div 2 - 2
            v[i \in 1..(r + 1)] == IF i = 1 THEN Blake(IF r < 1 THEN call.len ELSE 4, x) ELSE Blake(IF i = r + 1 THEN call.len - 2 * r ELSE 4, v[i - 1])
        IN out.hash = IF call.len <= 4 THEN Blake(call.len, x)
                      ELSE FoldLeft(LAMBDA y, i : y \o SubSeq(v[i], 1, 2), <<>>, Upto(1, 1, r)) \o v[r + 1]
(* No two inputs of Argon2 are hashed as the same bytes, wherever one text *)
(* ends and the next begins.                                               *)
InputsAreToldApart ==
    Done("prehash") =>
        LET n == Cardinality(call.texts) o == Cardinality(call.optional) IN Cardinality(out.hashed) = 4 * n * n * o * o
(* A string that was made verifies with its password and no other, and is  *)
(* made anew when the costs differ.  Whichever allocation fails: the call  *)
(* fails, nothing of the hash is left and nothing stays allocated.         *)
StoredHashesVerify ==
    Done("stored") =>
        LET refused == PwRefused(call.type, call.passwd, call.ops, call.mem)
            made == IF refused \/ call.fails \in 1..4 THEN -1 ELSE 0
        IN /\ out.made.ret = made /\ out.raw.ret = made /\ out.onto.ret = -1
           /\ made = -1 => out.made.text = <<>> /\ out.raw.hash \in {Random, Zeros(HashBytes)}
           /\ \A r \in {out.made, out.raw, out.onto, out.right, out.wrong, out.failing, out.same, out.unread} : r.h.live = {}
           /\ made = 0 =>
                 /\ out.right.ret = 0 /\ out.wrong.ret = -1 /\ out.failing.ret = IF call.later \in 1..8 THEN -1 ELSE 0
                 /\ out.same.ret = 0 /\ out.slower.ret = 1 /\ out.larger.ret = 1 /\ out.unread.ret = -1
                 /\ out.raw.hash # Random
(* A string is read only if it is exactly what is written for what it      *)
(* says, with parameters in their ranges, and it is written only to a      *)
(* buffer that it fits in.                                                 *)
HashStringsAreOneToOne ==
    Done("pwstring") /\ out.ret = "OK" =>
        /\ \A n \in {out.c.m_cost, out.c.t_cost, out.c.lanes} : n \in 1..Uint32Max
        /\ out.c.m_cost >= 8 * out.c.lanes
        /\ \A room \in DOMAIN out.again :
              IF room > Len(call.str) THEN out.again[room].ret = "OK" /\ out.again[room].text = call.str
              ELSE out.again[room].ret # "OK"

-----------------------------------------------------------------------------
(* scrypt as the RFC has it, one block after another.                      *)
RefBlockMix(b, r) ==
    LET y == Each(LAMBDA s, i : Append(s, salsa20_8(XorWords(s[i + 1], Block16(b, i)))), <<Block16(b, 2 * r - 1)>>, Upto(0, 1, 2 * r))
    IN Each(LAMBDA s, i : s \o y[i + 2], <<>>, Upto(0, 2, r) \o Upto(1, 2, r))
RefRoMix(b, r, n) ==
    LET v == Each(LAMBDA s, i : Append(s, RefBlockMix(s[i], r)), <<b>>, Upto(1, 1, n))
        at(x) == (x[16 * (2 * r - 1) + 1] + 256 * x[16 * (2 * r - 1) + 2]) % n
    IN Each(LAMBDA x, i : RefBlockMix(XorWords(x, v[at(x) + 1]), r), v[n + 1], Upto(1, 1, n))
RefPbkdf(passwd, salt, len) ==
    SubSeq(Each(LAMBDA s, i : s \o PrfOf(passwd, salt \o <<i>>), <<>>, Upto(1, 1, len)), 1, len)
(* Both implementations, whose words lie in other orders, make the key of  *)
(* the RFC.                                                                *)
ScryptIsThatOfTheRfc ==
    Done("scrypt") =>
        LET passwd == Words8(call.seed, 3) size == 32 * call.r
            b == RefPbkdf(passwd, Words8(call.seed + 1, 4), size * call.p)
            mixed == Each(LAMBDA s, i : s \o RefRoMix(SubSeq(b, size * i + 1, size * (i + 1)), call.r, call.n), <<>>, Upto(0, 1, call.p))
        IN /\ out.portable = [ret |-> 0, buf |-> RefPbkdf(passwd, mixed, call.buflen)]
           /\ out.vectors = out.portable
(* The memory that is asked for is what the costs need, never what is left *)
(* of a sum that wrapped: such costs are refused, as are those that are    *)
(* none, and no others.                                                    *)
CostsAreNotWrapped ==
    Done("costs") =>
        \A rp \in call.r \X call.p :
            LET all == 32 * rp[1] * (rp[2] + call.n + 2) + 16
                valid == call.n \in {2^k : k \in 1..7} /\ rp[1] < RpLimit /\ rp[2] < RpLimit /\ rp[1] * rp[2] \in 1..RpLimit - 1 /\ call.buflen <= Uint32Max * DigestWords
            IN out.need[rp] = IF valid /\ all <= SizeMax THEN all ELSE -1
(* What is picked is allowed, keeps both limits where any N does, and      *)
(* could not be doubled.                                                   *)
PickedCostsFit ==
    Done("picked") =>
        \A mem \in call.mem :
            LET c == out.picked[mem] n == 2^c.N_log2 ops == IF call.ops < OpsMin THEN OpsMin ELSE call.ops
            IN /\ c.N_log2 >= 1 /\ c.p >= 1 /\ c.r * c.p < RpLimit
               /\ n = 2 \/ 32 * c.r * n <= mem
               /\ 4 * c.r * c.p * n <= ops
               /\ 32 * c.r * 2 * n > mem \/ 4 * c.r * 2 * n > ops
(* A string verifies by whichever implementation, and no longer when one   *)
(* of its characters is another.                                           *)
ScryptStringsVerify ==
    /\ Done("scryptchanged") => out.ret = IF out.changed THEN -1 ELSE 0
    /\ Done("scryptstr") =>
        /\ out.made.ret = (IF call.fails = "alloc" THEN -1 ELSE 0) /\ out.onto.ret = -1
        /\ out.raw.ret = IF call.fails = "" THEN 0 ELSE -1
        /\ out.made.ret = 0 =>
              /\ Len(out.made.str) = ScryptStrBytes
              /\ out.portable = 0 /\ out.vectors = 0 /\ out.wrong = -1 /\ out.failing = -1
              /\ out.same = 0 /\ out.slower = 1 /\ out.unread = -1
              /\ out.larger = IF pickparams(call.ops, 8 * call.mem) = pickparams(call.ops, call.mem) THEN 0 ELSE 1

-----------------------------------------------------------------------------
(* HMAC by its definition, for keys of every length; whichever the parts a *)
(* text comes in.                                                          *)
RefHmac(h, key, text) ==
    LET short == IF Len(key) > HashBlock[h] THEN Digest(h, key) ELSE key
        padded == short \o Zeros(HashBlock[h] - Len(short))
        masked(pad) == [k \in 1..HashBlock[h] |-> Xor8(padded[k], pad)]
    IN Digest(h, masked(92) \o Digest(h, masked(54) \o text))
HmacIsThatOfTheRfc ==
    Done("hmac") =>
        /\ \A cut \in 0..call.len : out.parts[cut] = RefHmac(call.h, out.key, out.text)
        /\ out.mac = RefHmac(call.h, out.k, out.text)
        /\ out.half = SubSeq(RefHmac("sha512", out.k, out.text), 1, 2)
        /\ out.verified = 0 /\ out.refused = -1
(* HKDF: T(1), T(2), ... cut to length; as much as the counter counts, and *)
(* nothing more.                                                           *)
HkdfIsThatOfTheRfc ==
    Done("hkdf") =>
        LET t[i \in 0..CounterValues] == IF i = 0 THEN <<>> ELSE RefHmac(call.h, out.prk, t[i - 1] \o out.ctx \o <<i>>)
            all == t[1] \o t[2] \o t[3]
        IN /\ out.prk = RefHmac(call.h, out.salt, out.ikm)
           /\ out.expanded = IF call.outlen <= Len(all) THEN [ret |-> 0, out |-> SubSeq(all, 1, call.outlen)] ELSE [ret |-> -1]
(* No two subkeys are the same, whatever their numbers, contexts and keys. *)
SubkeysAreToldApart ==
    Done("subkeys") =>
        IF call.len \in SubkeyMin..SubkeyMax
        THEN Cardinality(out.derived) = Cardinality(call.ids \X call.ctxs \X call.keys) /\ \A d \in out.derived : d.ret = 0
        ELSE out.derived = {[ret |-> -1]}
(* What one side sends with the other receives with, and the two keys are  *)
(* different; other peers have others.  Whoever asks for one key gets the  *)
(* same.  With a key of low order nothing is written.                      *)
SessionKeysMatch ==
    Done("kx") =>
        /\ out.client.ret = 0 /\ out.server.ret = 0
        /\ out.client.mem[1] = out.server.mem[2] /\ out.client.mem[2] = out.server.mem[1]
        /\ out.client.mem[1] # out.client.mem[2]
        /\ \A k \in 1..4 : out.oneEach[k] = [ret |-> 0, mem |-> <<out.client.mem[2], out.mem[2]>>]
        /\ out.none = {[ret |-> Misuse, mem |-> out.mem]} /\ out.low = {[ret |-> -1, mem |-> out.mem]}
        /\ {out.other.mem[1], out.other.mem[2]} \cap {out.client.mem[1], out.client.mem[2]} = {}
(* Strings are equal, by bytes and by vectors, when they are.              *)
VerifyIsEquality ==
    Done("verify") =>
        \A d \in DOMAIN out.compared :
            LET v == out.compared[d] ret == IF v.y = out.x THEN 0 ELSE -1 IN v.bytes = ret /\ v.vectors = ret
(* SipHash by its definition: rounds of two halves, over the padded words. *)
HalfRound(v, a, b, c, d, s, t) ==
    LET a1 == SipPlus(v[a], v[b]) c1 == SipPlus(v[c], v[d])
    IN [v EXCEPT ![a] = ROTL16(a1, 8), ![b] = Xor16(ROTL16(@, s), a1), ![c] = c1, ![d] = Xor16(ROTL16(@, t), c1)]
RefSipRound(v, i) == HalfRound(HalfRound(v, 1, 2, 3, 4, 3, 4), 3, 2, 1, 4, 7, 5)
RefSip(begin, mask, more, in, key) ==
    LET value(bytes) == Each(LAMBDA w, k : 4 * w + bytes[k], 0, Upto(8, -1, 8))
        padded == in \o Zeros(7 - (Len(in) % 8)) \o <<Len(in) % 4>>
        word(v, at) ==
            LET m == value(SubSeq(padded, at, at + 7)) w == Each(RefSipRound, [v EXCEPT ![4] = Xor16(@, m)], <<1, 2>>)
            IN [w EXCEPT ![1] = Xor16(@, m)]
        keyed(k, from) == Xor16(begin[k], value(SubSeq(key, from, from + 7)))
        start == <<keyed(1, 1), keyed(2, 9), keyed(3, 1), keyed(4, 9)>>
        absorbed == Each(word, start, Upto(1, 8, Len(padded) \div 8))
        low == Each(RefSipRound, [absorbed EXCEPT ![3] = Xor16(@, mask)], Upto(1, 1, 4))
        high == Each(RefSipRound, [low EXCEPT ![2] = Xor16(@, 1)], Upto(1, 1, 4))
        bytes(v) == LET w == Xor16(Xor16(v[1], v[2]), Xor16(v[3], v[4])) IN [k \in 1..8 |-> (w \div 4^(k - 1)) % 4]
    IN bytes(low) \o IF more THEN bytes(high) ELSE <<>>
SipHashIsThatOfThePaper ==
    Done("sip") =>
        /\ out.short = RefSip(SipBegin, 3, FALSE, out.in, out.key)
        /\ out.long = RefSip(SipBeginX, 2, TRUE, out.in, out.key)

-----------------------------------------------------------------------------
(* AES-256 on either processor and in software, GCM and AEGIS made of it:  *)
(* each is what its standard defines, opens what it closed, and gives      *)
(* nothing out of what was altered.                                        *)
AesModesAreRight ==
    GcmIsCounterModeAndHash /\ GcmOpensItsOwn /\ AegisOpensItsOwn /\ AegisLengthsCount /\ AesIsAes

(* Boxes, sealed boxes and the AEADs of ChaCha20 give the message to who   *)
(* has the key and to nobody else, wherever their buffers overlap.         *)
BoxesOpenForTheirReader ==
    BoxesIgnoreOverlap /\ SealedOpensForItsReceiver /\ AeadVerifiesFirst /\ AeadTellsApart

(* The stream ciphers and Poly1305, by portable and by vector code, are    *)
(* the functions that their papers define: keystream blocks in the order   *)
(* of their counter, and a polynomial of the blocks.                       *)
CiphersAreRight == StreamsAreBlocksInOrder /\ PolyIsPolynomial

(* Argon2 and scrypt fill their memory as the RFCs define, by whichever of *)
(* the implementations and at whichever costs that are allowed.  A stored  *)
(* hash is read as it was written, and verifies its password unless an     *)
(* allocation fails, which leaves nothing behind.                          *)
PasswordHashesAreRight ==
    /\ CompressionsAgree /\ ReferencesAreInTheWindow /\ MemoryIsThatOfTheRfc
    /\ LongHashIsChained /\ InputsAreToldApart
    /\ ScryptIsThatOfTheRfc /\ CostsAreNotWrapped /\ PickedCostsFit
    /\ StoredHashesVerify /\ HashStringsAreOneToOne /\ ScryptStringsVerify

(* Authenticators, and keys made of keys: each is what its standard has,   *)
(* two that are for different uses are different, and the two sides of an  *)
(* exchange have the same.                                                 *)
DerivedKeysAreRight ==
    /\ HmacIsThatOfTheRfc /\ HkdfIsThatOfTheRfc /\ SubkeysAreToldApart /\ SessionKeysMatch
    /\ VerifyIsEquality /\ SipHashIsThatOfThePaper
=============================================================================
