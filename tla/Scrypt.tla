-------------------------------- MODULE Scrypt --------------------------------
(***************************************************************************)
(* Password hashing with scrypt: the mixing of the portable code and of    *)
(* the code for vectors, the memory it is done in, its costs from limits,  *)
(* and the strings that keep a hash.  A word of Salsa20 has 8 bits, and    *)
(* one byte: what counts 4 bytes to a word in the source counts one here,  *)
(* and a digest has 8 bytes.  A size_t is at most 1023, r * p less than 64 *)
(* and not 2^30, an ops limit not less than 32 and not 32768; r is 2 where *)
(* it is picked.  A salt and the hash in a string have 4 bytes, their      *)
(* encodings 6 characters.                                                 *)
(***************************************************************************)
EXTENDS PwHash, StreamCiphers

CONSTANTS PrfOf(_, _)   \* HMAC-SHA256 with a key, of a text: DigestWords bytes

SizeMax == 1023
RpLimit == 64
OpsMin == 32
DigestWords == 8
SaltWords == 4
BytesMin == 2

-----------------------------------------------------------------------------
(* The mixing.                                                             *)
Block16(b, i) == SubSeq(b, 16 * i + 1, 16 * i + 16)
salsa20_8(b) == PlusWords(SalsaRounds(b, StreamRounds), b)
(* Two blocks a turn: the first goes to the first half.                    *)
blockmix_salsa8(b, r) ==
    LET turn(s, i) ==
            LET x1 == salsa20_8(XorWords(s.x, Block16(b, i))) x2 == salsa20_8(XorWords(x1, Block16(b, i + 1)))
            IN [x |-> x2, low |-> s.low \o x1, high |-> s.high \o x2]
        s == Each(turn, [x |-> Block16(b, 2 * r - 1), low |-> <<>>, high |-> <<>>], Upto(0, 2, r))
    IN s.low \o s.high
integerify(b, r, second) == b[16 * (2 * r - 1) + 1] + 256 * b[16 * (2 * r - 1) + second]
smix_nosse(b, r, n) ==
    LET fill(s, i) ==
            LET y == blockmix_salsa8(s.x, r) IN [v |-> s.v \o <<s.x, y>>, x |-> blockmix_salsa8(y, r)]
        filled == Each(fill, [v |-> <<>>, x |-> b], Upto(0, 2, n \div 2))
        mixed(x) == blockmix_salsa8(XorWords(x, filled.v[(integerify(x, r, 2) % n) + 1]), r)
    IN Each(LAMBDA x, i : mixed(mixed(x)), filled.x, Upto(0, 2, n \div 2))

(* By vectors: the diagonals of a block are its rows.                      *)
ARX(out, in1, in2, turn) == XorRow(out, TurnedRow(PlusRow(in1, in2), SalsaTurns[turn]))
SALSA20_2ROUNDS(x) ==
    LET c1 == ARX(x[2], x[1], x[4], 1) c2 == ARX(x[3], c1, x[1], 2)
        c3 == ARX(x[4], c2, c1, 3)     c0 == ARX(x[1], c3, c2, 4)
        d1 == Shuffled(c1, 147) d2 == Shuffled(c2, 78) d3 == Shuffled(c3, 57)
        r3 == ARX(d3, c0, d1, 1) r2 == ARX(d2, r3, c0, 2)
        r1 == ARX(d1, r2, r3, 3) r0 == ARX(c0, r1, r2, 4)
    IN <<r0, Shuffled(r1, 57), Shuffled(r2, 78), Shuffled(r3, 147)>>
SALSA20_8_XOR(x, in) ==
    LET y == XorWords(x, in)
        z == Each(LAMBDA s, i : SALSA20_2ROUNDS(s), RowsOf(y), Upto(1, 1, StreamRounds \div 2))
    IN PlusWords(z[1] \o z[2] \o z[3] \o z[4], y)
(* Block i goes to place i / 2 of its half.                                *)
blockmix_salsa8_sse(b, r) ==
    LET turn(s, i) ==
            LET x == SALSA20_8_XOR(s.x, Block16(b, i)) at == IF i % 2 = 0 THEN i \div 2 ELSE r + i \div 2
            IN [x |-> x, out |-> SubSeq(s.out, 1, 16 * at) \o x \o SubSeq(s.out, 16 * at + 17, 32 * r)]
    IN Each(turn, [x |-> Block16(b, 2 * r - 1), out |-> b], Upto(0, 1, 2 * r)).out
(* What is returned is the first word of the last block.                   *)
blockmix_salsa8_xor(b1, b2, r) ==
    LET out == blockmix_salsa8_sse(XorWords(b1, b2), r) IN [out |-> out, low |-> out[16 * (2 * r - 1) + 1]]
DiagonalOrder(b, r) == Listed(LAMBDA k : b[16 * ((k - 1) \div 16) + ((5 * ((k - 1) % 16)) % 16) + 1], 32 * r)
(* The store: k of the source, 5 i modulo 16 of the result.                *)
StraightOrder(x, r) == Listed(LAMBDA k : x[16 * ((k - 1) \div 16) + ((13 * ((k - 1) % 16)) % 16) + 1], 32 * r)
(* Mutant: the last step of the filling is missing.                        *)
smix_sse_early(b, r, n) ==
    LET v == Each(LAMBDA s, i : Append(s, blockmix_salsa8_sse(s[i], r)), <<DiagonalOrder(b, r)>>, Upto(1, 1, n - 1))
        x == v[n]
        mix(s, i) == LET m == blockmix_salsa8_xor(s.x, v[(s.j % n) + 1], r) IN [x |-> m.out, j |-> m.low]
    IN StraightOrder(Each(mix, [x |-> x, j |-> integerify(x, r, 14)], Upto(0, 1, n)).x, r)
smix_sse(b, r, n) ==
    LET v == Each(LAMBDA s, i : Append(s, blockmix_salsa8_sse(s[i], r)), <<DiagonalOrder(b, r)>>, Upto(1, 1, n - 1))
        x == blockmix_salsa8_sse(v[n], r)
        mix(s, i) == LET m == blockmix_salsa8_xor(s.x, v[(s.j % n) + 1], r) IN [x |-> m.out, j |-> m.low]
    IN StraightOrder(Each(mix, [x |-> x, j |-> integerify(x, r, 14)], Upto(0, 1, n)).x, r)

-----------------------------------------------------------------------------
(* Keys from a password, and the memory.                                   *)
PbkdfBlock(passwd, salt, c, i) ==
    LET u1 == PrfOf(passwd, salt \o <<i>>)
        again(s, j) == LET u == PrfOf(passwd, s.u) IN [u |-> u, t |-> XorWords(s.t, u)]
    IN Each(again, [u |-> u1, t |-> u1], Upto(2, 1, c - 1)).t
escrypt_PBKDF2_SHA256(passwd, salt, c, dkLen) ==
    SubSeq(Each(LAMBDA s, i : s \o PbkdfBlock(passwd, salt, c, i), <<>>,
                Upto(1, 1, (dkLen + DigestWords - 1) \div DigestWords)), 1, dkLen)
(* The bytes of B, V and XY together, or why they cannot be had.  r and p  *)
(* may be too large to multiply.                                           *)
RefusedCosts(n, r, p, buflen) ==
    \/ buflen > Uint32Max * DigestWords
    \/ p > 0 /\ r > (RpLimit - 1) \div p
    \/ n > Uint32Max \/ n < 2 \/ n \notin {2^k : k \in 1..8}
    \/ r = 0 \/ p = 0
    \/ r > (SizeMax \div 32) \div p
    \/ SizeMax \div 64 <= Uint32Max /\ r > SizeMax \div 64
    \/ n > (SizeMax \div 32) \div r
WrappedSize(n) == n % (SizeMax + 1)
(* Mutant: the sum is not looked at.                                       *)
NeedUnlooked(n, r, p, buflen) ==
    IF RefusedCosts(n, r, p, buflen) THEN -1 ELSE WrappedSize(32 * r * p + 32 * r * n + 64 * r + 16)
Need(n, r, p, buflen) ==
    LET v == WrappedSize(32 * r * n)
        bv == WrappedSize(32 * r * p + v)
        xy == WrappedSize(64 * r + 16)
        all == WrappedSize(bv + xy)
    IN IF RefusedCosts(n, r, p, buflen) \/ bv < v \/ all < xy THEN -1 ELSE all
smix(impl, b, r, n) == IF impl = "sse" THEN smix_sse(b, r, n) ELSE smix_nosse(b, r, n)
(* fails is the system call that does: "alloc", "free" or neither.         *)
escrypt_kdf(impl, passwd, salt, n, r, p, buflen, fails) ==
    LET b == escrypt_PBKDF2_SHA256(passwd, salt, 1, 32 * r * p)
        mixed == Each(LAMBDA s, i : s \o smix(impl, SubSeq(b, 32 * r * i + 1, 32 * r * (i + 1)), r, n), <<>>, Upto(0, 1, p))
    IN IF Need(n, r, p, buflen) = -1 \/ fails = "alloc" THEN [ret |-> -1]
       ELSE [ret |-> 0, buf |-> escrypt_PBKDF2_SHA256(passwd, mixed, 1, buflen)]
crypto_pwhash_scrypt_ll(impl, passwd, salt, n, r, p, buflen, fails) ==
    LET done == escrypt_kdf(impl, passwd, salt, n, r, p, buflen, fails)
    IN IF fails = "free" THEN [ret |-> -1] ELSE done

-----------------------------------------------------------------------------
(* The costs from the limits.  N_log2 grows until N is more than half of   *)
(* what may be.                                                            *)
PickedR == 2
(* Mutant: N grows until it is more than what may be.                      *)
LeastLogAbove(maxN) == CHOOSE k \in 1..10 : 2^k > maxN /\ \A j \in 1..k - 1 : 2^j <= maxN
LeastLog(maxN) == CHOOSE k \in 1..10 : 2^k > maxN \div 2 /\ \A j \in 1..k - 1 : 2^j <= maxN \div 2
N_log2For(maxN) == LeastLog(maxN)
pickparams(opslimit, memlimit) ==
    LET ops == IF opslimit < OpsMin THEN OpsMin ELSE opslimit
        byOps == N_log2For(ops \div (PickedR * 4))
        byMem == N_log2For(memlimit \div (PickedR * 32))
        maxrp == (ops \div 4) \div 2^byMem
    IN IF ops < memlimit \div 8 THEN [N_log2 |-> byOps, r |-> PickedR, p |-> 1]
       ELSE [N_log2 |-> byMem, r |-> PickedR, p |-> (IF maxrp > RpLimit - 1 THEN RpLimit - 1 ELSE maxrp) \div PickedR]

crypto_pwhash_scrypt(impl, outlen, passwd, onto, salt, opslimit, memlimit, fails) ==
    LET c == pickparams(opslimit, memlimit)
    IN IF outlen < BytesMin \/ onto THEN [ret |-> -1]
       ELSE crypto_pwhash_scrypt_ll(impl, passwd, salt, 2^c.N_log2, c.r, c.p, outlen, fails)

(* Strings: characters by their codes.                                     *)
itoa64(n) == IF n < 12 THEN 46 + n ELSE IF n < 38 THEN 53 + n ELSE 59 + n
encode64_uint32(n, bits) == [k \in 1..((bits + 5) \div 6) |-> itoa64((n \div 64^(k - 1)) % 64)]
encode64(bytes) ==
    LET group(s, at) ==
            LET three == SubSeq(bytes, at, IF at + 2 > Len(bytes) THEN Len(bytes) ELSE at + 2)
            IN s \o encode64_uint32(Each(LAMBDA v, k : v + three[k] * 256^(k - 1), 0, Upto(1, 1, Len(three))), 8 * Len(three))
    IN Each(group, <<>>, Upto(1, 3, (Len(bytes) + 2) \div 3))
(* The end of the table is found for the character 0.                      *)
decode64_one(char) ==
    LET places == {n \in 0..63 : itoa64(n) = char}
    IN IF char = 0 THEN 64 ELSE IF places = {} THEN -1 ELSE CHOOSE n \in places : TRUE
decode64_uint32(str, at) ==
    LET ones == [k \in 1..5 |-> decode64_one(str[at + k])]
    IN IF \E k \in 1..5 : ones[k] = -1 THEN -1 ELSE Each(LAMBDA v, k : v + ones[k] * 64^(k - 1), 0, Upto(1, 1, 5))
Prefix == <<36, 55, 36>>   \* "$7$"
PrefixLen == 14
BYTES2CHARS(bytes) == (8 * bytes + 5) \div 6
HashLen == BYTES2CHARS(SaltWords)
ScryptStrBytes == PrefixLen + HashLen + 1 + HashLen + 1
escrypt_parse_setting(str) ==
    LET logn == decode64_one(str[4]) r == decode64_uint32(str, 4) p == decode64_uint32(str, 9)
    IN IF SubSeq(str, 1, 3) # Prefix \/ -1 \in {logn, r, p} THEN [ok |-> FALSE] ELSE [ok |-> TRUE, N_log2 |-> logn, r |-> r, p |-> p]
escrypt_gensalt_r(c, salt) ==
    Prefix \o <<itoa64(c.N_log2)>> \o encode64_uint32(c.r, 30) \o encode64_uint32(c.p, 30) \o encode64(salt)
SaltOf(str) ==
    LET rest == SubSeq(str, PrefixLen + 1, Len(str)) ends == {k \in 1..Len(rest) : rest[k] = Dollar}
    IN IF ends = {} THEN rest ELSE SubSeq(rest, 1, (CHOOSE k \in ends : \A j \in ends : j <= k) - 1)
(* The buffer is of random bytes until the text is in it.                  *)
escrypt_r(impl, passwd, setting, buflen, fails) ==
    LET c == escrypt_parse_setting(setting)
        salt == SaltOf(setting)
        need == PrefixLen + Len(salt) + 1 + HashLen + 1
        hash == escrypt_kdf(impl, passwd, salt, IF c.N_log2 > 30 THEN 2^30 ELSE 2^c.N_log2, c.r, c.p, SaltWords, fails)
        text == SubSeq(setting, 1, PrefixLen + Len(salt)) \o <<Dollar>> \o encode64(hash.buf) \o <<0>>
    IN IF ~c.ok \/ need > buflen THEN [ok |-> FALSE] ELSE IF hash.ret # 0 THEN [ok |-> FALSE]
       ELSE [ok |-> TRUE, buf |-> text \o [k \in 1..buflen - need |-> Random[1]]]
crypto_pwhash_scrypt_str(impl, passwd, salt, opslimit, memlimit, fails) ==
    LET r == escrypt_r(impl, passwd, escrypt_gensalt_r(pickparams(opslimit, memlimit), salt), ScryptStrBytes, fails)
    IN IF r.ok THEN [ret |-> 0, str |-> r.buf] ELSE [ret |-> -1]
(* str has a character 0 somewhere.                                        *)
sodium_strnlen(str, maxlen) ==
    LET ends == {k \in 1..Len(str) : str[k] = 0} n == CHOOSE k \in ends : \A j \in ends : k <= j
    IN IF ends = {} \/ n > maxlen THEN maxlen ELSE n - 1
crypto_pwhash_scrypt_str_verify(impl, str, passwd, fails) ==
    LET r == escrypt_r(impl, passwd, SubSeq(str, 1, ScryptStrBytes - 1), ScryptStrBytes, fails)
    IN IF sodium_strnlen(str, ScryptStrBytes) # ScryptStrBytes - 1 \/ ~r.ok THEN -1
       ELSE IF r.buf = SubSeq(str, 1, ScryptStrBytes) THEN 0 ELSE -1
crypto_pwhash_scrypt_str_needs_rehash(str, opslimit, memlimit) ==
    LET want == pickparams(opslimit, memlimit) has == escrypt_parse_setting(str)
    IN IF sodium_strnlen(str, ScryptStrBytes) # ScryptStrBytes - 1 \/ ~has.ok THEN -1
       ELSE IF has = [ok |-> TRUE, N_log2 |-> want.N_log2, r |-> want.r, p |-> want.p] THEN 0 ELSE 1
=============================================================================
