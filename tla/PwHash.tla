------------------------------- MODULE PwHash -------------------------------
(***************************************************************************)
(* Password hashing on top of Argon2: its allocations, the strings that    *)
(* keep a hash, and what they are checked with.  A literal of the string   *)
(* is one character; digits, base64 and the d of argon2id are themselves.  *)
(* A uint32_t is at most 255, a kilobyte has 4 bytes, and a buffer of      *)
(* random bytes is Random.                                                 *)
(***************************************************************************)
EXTENDS Argon2, Codecs, SequencesExt, TLC

CONSTANTS
    PwLimits,       \* of each type: ops, mem and passwd, from the least to the greatest
    HashBytes, StrBytes

Uint32Max == 255
Kilobyte == 4
Random == <<-1>>
(* The number of calls of malloc, calloc and mmap so far, the one of them  *)
(* that fails, and what is allocated.                                      *)
Heap(failing) == [n |-> 0, failing |-> failing, live |-> {}]
AllocFails(h) == h.n + 1 = h.failing
Alloc(h, name) == [h EXCEPT !.n = @ + 1, !.live = IF AllocFails(h) THEN @ ELSE @ \cup {name}]
FreeAll(h, names) == [h EXCEPT !.live = @ \ names]

(* Mutant: the memory could not be had, and pseudo_rands stays.            *)
InitializeLeaving(h) ==
    LET a == Alloc(h, "pseudo_rands") b == Alloc(a, "region") c == Alloc(b, "memory")
    IN IF AllocFails(h) THEN [ok |-> FALSE, h |-> a] ELSE IF AllocFails(a) THEN [ok |-> FALSE, h |-> b]
       ELSE IF AllocFails(b) THEN [ok |-> FALSE, h |-> FreeAll(c, {"region"})] ELSE [ok |-> TRUE, h |-> c]
allocate_memory(h) ==
    LET b == Alloc(h, "region") c == Alloc(b, "memory")
    IN IF AllocFails(h) THEN [ok |-> FALSE, h |-> b]
       ELSE IF AllocFails(b) THEN [ok |-> FALSE, h |-> FreeAll(c, {"region"})] ELSE [ok |-> TRUE, h |-> c]
argon2_free_instance(h) == FreeAll(h, {"pseudo_rands", "memory", "region"})
argon2_initialize(h) ==
    LET a == Alloc(h, "pseudo_rands") m == allocate_memory(a)
    IN IF AllocFails(h) THEN [ok |-> FALSE, h |-> a] ELSE IF m.ok THEN m ELSE [m EXCEPT !.h = argon2_free_instance(@)]
argon2_ctx(h, c, type) ==
    LET valid == argon2_validate_inputs(c) init == argon2_initialize(h)
    IN IF valid # "OK" THEN [ret |-> valid, h |-> h, out |-> <<>>]
       ELSE IF type \notin {Argon2_i, Argon2_id} THEN [ret |-> "TYPE", h |-> h, out |-> <<>>]
       ELSE IF ~init.ok THEN [ret |-> "ALLOCATION", h |-> init.h, out |-> <<>>]
       ELSE [ret |-> "OK", h |-> argon2_free_instance(init.h), out |-> Argon2Hash(TRUE, c, type)]

-----------------------------------------------------------------------------
(* Strings.  "$argon2i", "$v=", "$m=", ",t=" and ",p=" are one character   *)
(* each, and "$argon2id" is "$argon2i" and d.                              *)
LitArgon2i == 1000
LitV == 1001
LitM == 1002
LitT == 1003
LitP == 1004
Dollar == 36
NoPadding == 3
TypeName(type) == IF type = Argon2_id THEN <<LitArgon2i, 100>> ELSE <<LitArgon2i>>
u32_to_string(n) ==
    LET digits == {k \in 0..9 : k = 0 \/ 10^k <= n} len == Cardinality(digits)
    IN [k \in 1..len |-> 48 + ((n \div 10^(len - k)) % 10)]
(* s has the text so far and the room left, with the end of the string.    *)
SS(s, text) ==
    IF s.ret # "OK" THEN s ELSE IF Len(text) >= s.room THEN [s EXCEPT !.ret = "ENCODING"]
    ELSE [s EXCEPT !.text = @ \o text, !.room = @ - Len(text)]
SB(s, bytes) ==
    LET code == sodium_bin2base64(s.room, bytes, NoPadding)
        text == SelectSeq(code, LAMBDA c : c # 0)
    IN IF s.ret # "OK" THEN s ELSE IF code = <<Misused>> THEN [s EXCEPT !.ret = "misuse"]
       ELSE [s EXCEPT !.text = @ \o text, !.room = @ - Len(text)]
argon2_encode_string(dst_len, c, type) ==
    LET named == SS([ret |-> "OK", text |-> <<>>, room |-> dst_len], TypeName(type) \o <<LitV>>)
        valid == IF named.ret = "OK" THEN [named EXCEPT !.ret = argon2_validate_inputs(c)] ELSE named
        costs == FoldLeft(SS, valid, <<u32_to_string(19), <<LitM>>, u32_to_string(c.m_cost), <<LitT>>, u32_to_string(c.t_cost),
                                       <<LitP>>, u32_to_string(c.lanes), <<Dollar>>>>)
    IN SB(SS(SB(costs, c.salt), <<Dollar>>), c.out)

(* str is what is left to read; d has the context so far.                  *)
DecodingFailed(d) == [d EXCEPT !.ret = "DECODING"]
CC(d, prefix) ==
    IF d.ret # "OK" THEN d ELSE IF SubSeq(d.str, 1, Len(prefix)) # prefix THEN DecodingFailed(d)
    ELSE [d EXCEPT !.str = SubSeq(@, Len(prefix) + 1, Len(@))]
DigitTurn(s, c, ulong_max) ==
    LET digit == c - 48
    IN IF s.stop \/ s.over THEN s
       ELSE IF c \notin 48..57 THEN [s EXCEPT !.stop = TRUE]
       ELSE IF s.acc > ulong_max \div 10 \/ digit > ulong_max - s.acc * 10 THEN [s EXCEPT !.over = TRUE]
       ELSE [s EXCEPT !.acc = @ * 10 + digit, !.n = @ + 1]
(* Mutant: leading zeros are read.                                         *)
decode_padded(str, ulong_max) ==
    LET s == FoldLeft(LAMBDA t, c : DigitTurn(t, c, ulong_max), [acc |-> 0, n |-> 0, stop |-> FALSE, over |-> FALSE], str)
    IN IF s.over \/ s.n = 0 THEN [v |-> -1, n |-> 0] ELSE [v |-> s.acc, n |-> s.n]
(* The number and how many digits it has; -1 if there is none.             *)
decode_decimal(str, ulong_max) ==
    LET s == FoldLeft(LAMBDA t, c : DigitTurn(t, c, ulong_max), [acc |-> 0, n |-> 0, stop |-> FALSE, over |-> FALSE], str)
    IN IF s.over \/ s.n = 0 \/ (str[1] = 48 /\ s.n # 1) THEN [v |-> -1, n |-> 0] ELSE [v |-> s.acc, n |-> s.n]
DECIMAL_U32(d, field, ulong_max) ==
    LET number == decode_decimal(d.str, ulong_max)
    IN IF d.ret # "OK" THEN d ELSE IF number.v = -1 \/ number.v > Uint32Max THEN DecodingFailed(d)
       ELSE [d EXCEPT !.str = SubSeq(@, number.n + 1, Len(@)), !.c[field] = number.v]
BIN(d, max, field) ==
    LET bin == sodium_base642bin(max, d.str, {}, TRUE, NoPadding, FALSE)
    IN IF d.ret # "OK" THEN d ELSE IF bin.ret # 0 THEN DecodingFailed(d)
       ELSE [d EXCEPT !.str = SubSeq(@, bin.end + 1, Len(@)), !.c[field] = bin.bin]
(* max bytes of salt and of hash fit.                                      *)
argon2_decode_string(str, max, type, ulong_max) ==
    LET begun == [ret |-> "OK", str |-> str,
                  c |-> [version |-> 0, m_cost |-> 0, t_cost |-> 0, lanes |-> 0, salt |-> <<>>, out |-> <<>>, pwd |-> <<>>]]
        versioned == DECIMAL_U32(CC(CC(begun, TypeName(type)), <<LitV>>), "version", ulong_max)
        checked == IF versioned.ret = "OK" /\ versioned.c.version # 19 THEN [versioned EXCEPT !.ret = "TYPE"] ELSE versioned
        m == DECIMAL_U32(CC(checked, <<LitM>>), "m_cost", ulong_max)
        t == DECIMAL_U32(CC(m, <<LitT>>), "t_cost", ulong_max)
        p == DECIMAL_U32(CC(t, <<LitP>>), "lanes", ulong_max)
        s == BIN(CC(BIN(CC(p, <<Dollar>>), max, "salt"), <<Dollar>>), max, "out")
        valid == argon2_validate_inputs([s.c EXCEPT !.version = 0] @@ [outlen |-> Len(s.c.out)])
    IN IF s.ret # "OK" THEN s ELSE IF valid # "OK" THEN [s EXCEPT !.ret = valid]
       ELSE IF s.str # <<>> THEN DecodingFailed(s) ELSE s

-----------------------------------------------------------------------------
(* pwd is hashed; hash and encoded say what is asked for.                  *)
argon2_hash(h, c, hash, encodedlen, type) ==
    LET out == Alloc(h, "out") ctx == argon2_ctx(out, c, type)
        str == argon2_encode_string(encodedlen, [c EXCEPT !.out = ctx.out], type)
        done(ret, hashed, text) == [ret |-> ret, h |-> FreeAll(ctx.h, {"out"}), hash |-> hashed, text |-> text]
        before == IF hash THEN Random ELSE <<>>
    IN IF Len(c.pwd) > Argon2Limits.pwd[2] \/ c.outlen > Argon2Limits.outlen[2] \/ Len(c.salt) > Argon2Limits.salt[2]
       THEN [ret |-> "TOO LONG", h |-> h, hash |-> before, text |-> <<>>]
       ELSE IF AllocFails(h) THEN [ret |-> "ALLOCATION", h |-> out, hash |-> before, text |-> <<>>]
       ELSE IF ctx.ret # "OK" THEN done(ctx.ret, before, <<>>)
       ELSE IF encodedlen > 0 /\ str.ret # "OK" THEN done(IF str.ret = "misuse" THEN "misuse" ELSE "ENCODING", before, <<>>)
       ELSE done("OK", IF hash THEN ctx.out ELSE <<>>, IF encodedlen > 0 THEN str.text ELSE <<>>)
Context(pwd, salt, outlen, ops, mem, lanes) ==
    [pwd |-> pwd, salt |-> salt, secret |-> <<>>, ad |-> <<>>, outlen |-> outlen, t_cost |-> ops, m_cost |-> mem, lanes |-> lanes, out |-> <<>>]
argon2_verify(h, str, pwd, type, ulong_max) ==
    LET three == Alloc(Alloc(Alloc(h, "ad"), "salt"), "ctx.out") four == Alloc(three, "verified")
        d == argon2_decode_string(str, Len(str), type, ulong_max)
        c == Context(pwd, d.c.salt, Len(d.c.out), d.c.t_cost, d.c.m_cost, d.c.lanes)
        r == argon2_hash(four, c, TRUE, 0, type)
        buffers == {"ad", "salt", "ctx.out", "verified"}
    IN IF ~({"ad", "salt", "ctx.out"} \subseteq three.live) THEN [ret |-> "ALLOCATION", h |-> FreeAll(three, buffers)]
       ELSE IF AllocFails(three) THEN [ret |-> "ALLOCATION", h |-> FreeAll(four, buffers)]
       ELSE IF d.ret # "OK" THEN [ret |-> d.ret, h |-> FreeAll(four, buffers)]
       ELSE [ret |-> IF r.ret = "OK" /\ sodium_memcmp(r.hash, d.c.out) # 0 THEN "MISMATCH" ELSE r.ret, h |-> FreeAll(r.h, buffers)]

-----------------------------------------------------------------------------
(* The functions of the library.                                           *)
OutOf(limits, n) == n < limits[1] \/ n > limits[2]
PwRefused(type, passwd, ops, mem) ==
    OutOf(PwLimits[type].passwd, Len(passwd)) \/ OutOf(PwLimits[type].ops, ops) \/ OutOf(PwLimits[type].mem, mem)
crypto_pwhash(h, outlen, passwd, same, salt, ops, mem, type) ==
    LET r == argon2_hash(h, Context(passwd, salt, outlen, ops, mem \div Kilobyte, 1), TRUE, 0, type)
        zeros == [k \in 1..outlen |-> 0]
    IN IF type \notin DOMAIN PwLimits THEN [ret |-> -1, h |-> h, hash |-> <<>>]
       ELSE IF OutOf(Argon2Limits.outlen, outlen) \/ PwRefused(type, passwd, ops, mem) \/ same THEN [ret |-> -1, h |-> h, hash |-> zeros]
       ELSE [ret |-> IF r.ret = "OK" THEN 0 ELSE -1, h |-> r.h, hash |-> r.hash]
(* salt is what randombytes_buf gives.                                     *)
crypto_pwhash_str(h, passwd, salt, ops, mem, type) ==
    LET r == argon2_hash(h, Context(passwd, salt, HashBytes, ops, mem \div Kilobyte, 1), FALSE, StrBytes, type)
    IN IF PwRefused(type, passwd, ops, mem) THEN [ret |-> -1, h |-> h, text |-> <<>>]
       ELSE [ret |-> IF r.ret = "OK" THEN 0 ELSE -1, h |-> r.h, text |-> r.text]
(* What begins with "$": the prefixes end with it.                         *)
Dollars == {Dollar, LitArgon2i, LitV, LitM}
TypeOf(str) ==
    IF Len(str) > 2 /\ SubSeq(str, 1, 2) = <<LitArgon2i, 100>> /\ str[3] \in Dollars THEN Argon2_id
    ELSE IF Len(str) > 1 /\ str[1] = LitArgon2i /\ str[2] \in Dollars THEN Argon2_i ELSE 0
crypto_pwhash_str_verify(h, str, passwd, ulong_max) ==
    LET r == argon2_verify(h, str, passwd, TypeOf(str), ulong_max)
    IN IF TypeOf(str) = 0 \/ Len(passwd) > PwLimits[TypeOf(str)].passwd[2] THEN [ret |-> -1, h |-> h]
       ELSE [ret |-> IF r.ret = "OK" THEN 0 ELSE -1, h |-> r.h]
OtherCosts(c, ops, mem) == c.t_cost # ops \/ c.m_cost # mem \div Kilobyte
crypto_pwhash_str_needs_rehash(h, str, ops, mem, ulong_max) ==
    LET d == argon2_decode_string(str, Len(str), TypeOf(str), ulong_max) fodder == Alloc(h, "fodder")
    IN IF TypeOf(str) = 0 \/ ops > Uint32Max \/ mem \div Kilobyte > Uint32Max \/ Len(str) >= StrBytes THEN [ret |-> -1, h |-> h]
       ELSE IF AllocFails(h) THEN [ret |-> -1, h |-> fodder]
       ELSE [ret |-> IF d.ret # "OK" THEN -1 ELSE IF OtherCosts(d.c, ops, mem) THEN 1 ELSE 0, h |-> FreeAll(fodder, {"fodder"})]
=============================================================================
