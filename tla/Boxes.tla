-------------------------------- MODULE Boxes --------------------------------
(***************************************************************************)
(* Secret key boxes, the authenticated encryption with ChaCha20 and the    *)
(* public key boxes, composed of the streams and of an authenticator.  As  *)
(* for the streams a block is 16 words: an authenticator or its block has  *)
(* 4, a key 8, a long nonce 6.  Memory is a sequence of words, a pointer   *)
(* the number of words before what it points at, so that input and output  *)
(* may overlap.  p is the primitive, "salsa" or "chacha"; v is the variant *)
(* of the encryption, "chacha", "ietf" or "xchacha".  A read of a stream   *)
(* function is done before its writes: its input and output are the same   *)
(* or apart.                                                               *)
(***************************************************************************)
EXTENDS StreamCiphers

CONSTANTS
    PolyOf(_, _),               \* Poly1305 with a key of what was absorbed
    Public(_), Shared(_, _),    \* multiplication of the base by a secret, of a public key by a secret
    BlakeNonce(_),              \* crypto_generichash of two keys, as long as a nonce
    HashedSeed(_),              \* the first half of crypto_hash_sha512 of a seed
    MaxText                     \* MESSAGEBYTES_MAX

MacBytes == 4
ZeroBytes == 8
NULL == -1
Misuse == -99     \* sodium_misuse: the call does not return

Loaded(mem, a, len) == SubSeq(mem, a + 1, a + len)
Laid(mem, a, s) == SubSeq(mem, 1, a) \o s \o SubSeq(mem, a + Len(s) + 1, Len(mem))
Overlap(a, b, len) == (a > b /\ a - b < len) \/ (b > a /\ b - a < len)

-----------------------------------------------------------------------------
(* Secret key boxes.                                                       *)
StreamXor(p, m, n, ic, k) ==
    IF p = "salsa" THEN crypto_stream_salsa20_xor_ic(1, m, n, ic, k) ELSE crypto_stream_chacha20_xor_ic(1, m, n, ic, k)
Subkey(p, n, k) ==
    IF p = "salsa" THEN crypto_core_hsalsa20(SubSeq(n, 1, 4), k, Sigma) ELSE crypto_core_hchacha20(SubSeq(n, 1, 4), k, Sigma)
(* Mutant: the text is left where it overlaps.                             *)
NotMoved(mem, to, from, len) == [mem |-> mem, at |-> from]
MovedApart(mem, to, from, len) ==
    IF Overlap(to, from, len) THEN [mem |-> Laid(mem, to, Loaded(mem, from, len)), at |-> to]
    ELSE [mem |-> mem, at |-> from]
(* The first half of block 0 is the key of the authenticator, the other    *)
(* half is for the first words of the text.                                *)
BoxText(p, mem, to, from, len, n, subkey) ==
    LET src == MovedApart(mem, to, from, len)
        len0 == IF len > BlockWords - ZeroBytes THEN BlockWords - ZeroBytes ELSE len
        block0 == StreamXor(p, Zeros(ZeroBytes) \o Loaded(src.mem, src.at, len0), SubSeq(n, 5, 6), 0, subkey)
        begun == Laid(src.mem, to, SubSeq(block0, ZeroBytes + 1, ZeroBytes + len0))
        rest == StreamXor(p, Loaded(begun, src.at + len0, len - len0), SubSeq(n, 5, 6), 1, subkey)
    IN [key |-> SubSeq(block0, 1, ZeroBytes), mem |-> IF len > len0 THEN Laid(begun, to + len0, rest) ELSE begun]

crypto_secretbox_detached(p, mem, c, mac, m, mlen, n, k) ==
    LET t == BoxText(p, mem, c, m, mlen, n, Subkey(p, n, k))
    IN [ret |-> 0, mem |-> Laid(t.mem, mac, PolyOf(t.key, Loaded(t.mem, c, mlen)))]
crypto_secretbox_easy(p, mem, c, m, mlen, n, k) ==
    IF mlen > MaxText THEN [ret |-> Misuse, mem |-> mem]
    ELSE crypto_secretbox_detached(p, mem, c + MacBytes, c, m, mlen, n, k)
crypto_secretbox_open_detached(p, mem, m, c, mac, clen, n, k) ==
    LET subkey == Subkey(p, n, k)
        key == StreamXor(p, Zeros(ZeroBytes), SubSeq(n, 5, 6), 0, subkey)
    IN IF Loaded(mem, mac, MacBytes) # PolyOf(key, Loaded(mem, c, clen)) THEN [ret |-> -1, mem |-> mem]
       ELSE IF m = NULL THEN [ret |-> 0, mem |-> mem]
       ELSE [ret |-> 0, mem |-> BoxText(p, mem, m, c, clen, n, subkey).mem]
crypto_secretbox_open_easy(p, mem, m, c, clen, n, k) ==
    IF clen < MacBytes THEN [ret |-> -1, mem |-> mem]
    ELSE crypto_secretbox_open_detached(p, mem, m, c + MacBytes, c, clen - MacBytes, n, k)
(* With room for the key before the text, and zeros in it.                 *)
crypto_secretbox_xsalsa20poly1305(m, n, k) ==
    LET c == crypto_stream_xsalsa20_xor_ic(1, m, n, 0, k) text == SubSeq(c, 9, Len(c))
    IN IF Len(m) < ZeroBytes THEN [ret |-> -1]
       ELSE [ret |-> 0, c |-> Zeros(4) \o PolyOf(SubSeq(c, 1, 8), text) \o text]
crypto_secretbox_xsalsa20poly1305_open(c, n, k) ==
    LET subkey == crypto_stream_xsalsa20_xor_ic(1, Zeros(8), n, 0, k)
        m == crypto_stream_xsalsa20_xor_ic(1, c, n, 0, k)
    IN IF Len(c) < ZeroBytes THEN [ret |-> -1]
       ELSE IF PolyOf(subkey, SubSeq(c, 9, Len(c))) # SubSeq(c, 5, 8) THEN [ret |-> -1]
       ELSE [ret |-> 0, m |-> Zeros(8) \o SubSeq(m, 9, Len(m))]

-----------------------------------------------------------------------------
(* Authenticated encryption with additional data.                          *)
AeadXor(v, m, n, ic, k) ==
    CASE v = "chacha" -> crypto_stream_chacha20_xor_ic(1, m, n, ic, k)
    [] v = "ietf" -> crypto_stream_chacha20_ietf_xor_ic(1, m, n, ic, k)
    [] v = "xchacha" -> crypto_stream_chacha20_ietf_ext_xor_ic(1, m, n, ic, k)
pad0(len) == Zeros((MacBytes - (len % MacBytes)) % MacBytes)
slen(len) == <<len % 256, len \div 256>>
(* Mutant: the length of the ad is left out.                               *)
AbsorbedWithoutAdlen(v, ad, c) ==
    IF v = "chacha" THEN ad \o c \o slen(Len(c)) ELSE ad \o pad0(Len(ad)) \o c \o pad0(Len(c)) \o slen(Len(c))
AeadAbsorbed(v, ad, c) ==
    IF v = "chacha" THEN ad \o slen(Len(ad)) \o c \o slen(Len(c))
    ELSE ad \o pad0(Len(ad)) \o c \o pad0(Len(c)) \o slen(Len(ad)) \o slen(Len(c))
AeadMac(v, ad, c, n, k) == PolyOf(SubSeq(AeadXor(v, Zeros(BlockWords), n, 0, k), 1, 8), AeadAbsorbed(v, ad, c))

encrypt_detached(v, mem, c, mac, m, mlen, ad, n, k) ==
    LET closed == Laid(mem, c, AeadXor(v, Loaded(mem, m, mlen), n, 1, k))
    IN [ret |-> 0, mem |-> Laid(closed, mac, AeadMac(v, ad, Loaded(closed, c, mlen), n, k))]
(* Mutant: the text is opened before it is verified.                       *)
decrypt_before_verify(v, mem, m, c, clen, mac, ad, n, k) ==
    LET opened == IF m = NULL THEN mem ELSE Laid(mem, m, AeadXor(v, Loaded(mem, c, clen), n, 1, k))
    IN [ret |-> IF AeadMac(v, ad, Loaded(opened, c, clen), n, k) = Loaded(opened, mac, MacBytes) THEN 0 ELSE -1,
        mem |-> opened]
decrypt_detached(v, mem, m, c, clen, mac, ad, n, k) ==
    LET ret == IF AeadMac(v, ad, Loaded(mem, c, clen), n, k) = Loaded(mem, mac, MacBytes) THEN 0 ELSE -1
    IN [ret |-> ret,
        mem |-> IF m = NULL THEN mem
                ELSE Laid(mem, m, IF ret # 0 THEN Zeros(clen) ELSE AeadXor(v, Loaded(mem, c, clen), n, 1, k))]
(* A long nonce: the key of its first part, and a word 0 before the rest.  *)
AeadKey(v, n, k) == IF v = "xchacha" THEN crypto_core_hchacha20(SubSeq(n, 1, 4), k, Sigma) ELSE k
AeadNonce(v, n) ==
    CASE v = "chacha" -> SubSeq(n, 1, 2) [] v = "ietf" -> SubSeq(n, 1, 3) [] v = "xchacha" -> <<0, n[5], n[6]>>
crypto_aead_encrypt_detached(v, mem, c, mac, m, mlen, ad, n, k) ==
    encrypt_detached(v, mem, c, mac, m, mlen, ad, AeadNonce(v, n), AeadKey(v, n, k))
crypto_aead_decrypt_detached(v, mem, m, c, clen, mac, ad, n, k) ==
    decrypt_detached(v, mem, m, c, clen, mac, ad, AeadNonce(v, n), AeadKey(v, n, k))
crypto_aead_encrypt(v, mem, c, m, mlen, ad, n, k) ==
    LET r == crypto_aead_encrypt_detached(v, mem, c, c + mlen, m, mlen, ad, n, k)
    IN IF mlen > MaxText THEN [ret |-> Misuse, mem |-> mem, clen |-> 0]
       ELSE [ret |-> r.ret, mem |-> r.mem, clen |-> IF r.ret = 0 THEN mlen + MacBytes ELSE 0]
crypto_aead_decrypt(v, mem, m, c, clen, ad, n, k) ==
    LET r == IF clen < MacBytes THEN [ret |-> -1, mem |-> mem]
             ELSE crypto_aead_decrypt_detached(v, mem, m, c, clen - MacBytes, c + clen - MacBytes, ad, n, k)
    IN [ret |-> r.ret, mem |-> r.mem, mlen |-> IF r.ret = 0 THEN clen - MacBytes ELSE 0]

-----------------------------------------------------------------------------
(* Public key boxes.                                                       *)
crypto_box_keypair(sk) == [pk |-> Public(sk), sk |-> sk]
crypto_box_seed_keypair(seed) == crypto_box_keypair(HashedSeed(seed))
crypto_box_beforenm(p, pk, sk) ==
    LET s == Shared(sk, pk)
    IN IF s = Zeros(8) THEN [ret |-> -1] ELSE [ret |-> 0, k |-> Subkey(p, Zeros(4), s)]

crypto_box_detached_afternm(p, mem, c, mac, m, mlen, n, k) == crypto_secretbox_detached(p, mem, c, mac, m, mlen, n, k)
crypto_box_detached(p, mem, c, mac, m, mlen, n, pk, sk) ==
    LET before == crypto_box_beforenm(p, pk, sk)
    IN IF before.ret # 0 THEN [ret |-> -1, mem |-> mem] ELSE crypto_box_detached_afternm(p, mem, c, mac, m, mlen, n, before.k)
crypto_box_easy_afternm(p, mem, c, m, mlen, n, k) ==
    IF mlen > MaxText THEN [ret |-> Misuse, mem |-> mem]
    ELSE crypto_box_detached_afternm(p, mem, c + MacBytes, c, m, mlen, n, k)
crypto_box_easy(p, mem, c, m, mlen, n, pk, sk) ==
    IF mlen > MaxText THEN [ret |-> Misuse, mem |-> mem]
    ELSE crypto_box_detached(p, mem, c + MacBytes, c, m, mlen, n, pk, sk)
crypto_box_open_detached_afternm(p, mem, m, c, mac, clen, n, k) ==
    crypto_secretbox_open_detached(p, mem, m, c, mac, clen, n, k)
crypto_box_open_detached(p, mem, m, c, mac, clen, n, pk, sk) ==
    LET before == crypto_box_beforenm(p, pk, sk)
    IN IF before.ret # 0 THEN [ret |-> -1, mem |-> mem] ELSE crypto_box_open_detached_afternm(p, mem, m, c, mac, clen, n, before.k)
crypto_box_open_easy_afternm(p, mem, m, c, clen, n, k) ==
    IF clen < MacBytes THEN [ret |-> -1, mem |-> mem]
    ELSE crypto_box_open_detached_afternm(p, mem, m, c + MacBytes, c, clen - MacBytes, n, k)
crypto_box_open_easy(p, mem, m, c, clen, n, pk, sk) ==
    IF clen < MacBytes THEN [ret |-> -1, mem |-> mem]
    ELSE crypto_box_open_detached(p, mem, m, c + MacBytes, c, clen - MacBytes, n, pk, sk)
crypto_box(m, n, pk, sk) ==
    LET before == crypto_box_beforenm("salsa", pk, sk)
    IN IF before.ret # 0 THEN [ret |-> -1] ELSE crypto_secretbox_xsalsa20poly1305(m, n, before.k)
crypto_box_open(c, n, pk, sk) ==
    LET before == crypto_box_beforenm("salsa", pk, sk)
    IN IF before.ret # 0 THEN [ret |-> -1] ELSE crypto_secretbox_xsalsa20poly1305_open(c, n, before.k)

(* Sealed: from a key pair made for this box, whose public part is before  *)
(* the box and, with the other's, makes the nonce.                         *)
SealBytes == 8 + MacBytes
seal_nonce(pk1, pk2) == BlakeNonce(pk1 \o pk2)
(* Mutant: the ephemeral key is laid down before the message is read.      *)
seal_key_first(p, mem, c, m, mlen, pk, esk) ==
    LET e == crypto_box_keypair(esk)
    IN crypto_box_easy(p, Laid(mem, c, e.pk), c + 8, m, mlen, seal_nonce(e.pk, pk), pk, e.sk)
crypto_box_seal(p, mem, c, m, mlen, pk, esk) ==
    LET e == crypto_box_keypair(esk)
        r == crypto_box_easy(p, mem, c + 8, m, mlen, seal_nonce(e.pk, pk), pk, e.sk)
    IN IF r.ret = Misuse THEN r ELSE [r EXCEPT !.mem = Laid(@, c, e.pk)]
crypto_box_seal_open(p, mem, m, c, clen, pk, sk) ==
    LET epk == Loaded(mem, c, 8)
    IN IF clen < SealBytes THEN [ret |-> -1, mem |-> mem]
       ELSE crypto_box_open_easy(p, mem, m, c + 8, clen - 8, seal_nonce(epk, pk), epk, sk)
=============================================================================
