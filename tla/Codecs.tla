------------------------------- MODULE Codecs -------------------------------
(***************************************************************************)
(* The conversions of codecs.c.  A character is its code, and ignore the   *)
(* set of those that strchr finds: with the terminator 0, unless it is the *)
(* null pointer.  errno is left out.  As in Numbers, what a loop has made   *)
(* is a function of the number of its turns.                               *)
(***************************************************************************)
EXTENDS Numbers, FiniteSets

Passed(ret, s, end) == [ret |-> ret, bin |-> s, len |-> Len(s), end |-> end]

-----------------------------------------------------------------------------
(* Hexadecimal.                                                            *)
HexDigit(b) == (87 + b + (Top(Minus16(b, 10)) - And8(Top(Minus16(b, 10)), 38))) % 256
sodium_bin2hex(maxlen, bin) ==
    IF Len(bin) >= Uint \div 2 \/ maxlen <= 2 * Len(bin) THEN <<Misused>>
    ELSE [j \in 1..2*Len(bin)+1 |->
             IF j > 2 * Len(bin) THEN 0 ELSE HexDigit(IF j % 2 = 1 THEN bin[(j + 1) \div 2] \div 16 ELSE bin[j \div 2] % 16)]
(* What a character is worth, or -1.                                       *)
HexValue(c) ==
    LET num == Xor8(c, 48)
        num0 == Top(Minus16(num, 10))
        alpha == ((c - And8(c, 32)) - 55) % 256
        alpha0 == Top(Xor16(Minus16(alpha, 10), Minus16(alpha, 16)))
    IN IF Or8(num0, alpha0) = 0 THEN -1 ELSE Or8(And8(num0, num), And8(alpha0, alpha))
(* Mutant: characters are ignored between two digits of a byte, too.       *)
SkipsAnywhere(half, c, ignore) == c \in ignore
Skips(half, c, ignore) == half = -1 /\ c \in ignore
(* One turn of the loop; half is the digit that waits for its other half.  *)
HexTurn(s, c, maxlen, ignore) ==
    LET v == HexValue(c)
    IN IF s.stop THEN s
       ELSE IF v = -1 THEN IF Skips(s.half, c, ignore) THEN [s EXCEPT !.pos = @ + 1] ELSE [s EXCEPT !.stop = TRUE]
       ELSE IF Len(s.bin) >= maxlen THEN [s EXCEPT !.stop = TRUE, !.ret = -1]
       ELSE IF s.half = -1 THEN [s EXCEPT !.half = v, !.pos = @ + 1]
       ELSE [s EXCEPT !.bin = Append(@, 16 * s.half + v), !.half = -1, !.pos = @ + 1]
(* A digit without its other half is not taken.                            *)
HexRest(s) == IF s.half # -1 THEN [s EXCEPT !.pos = @ - 1, !.ret = -1] ELSE s
(* With the pointer hex_end, or without.                                   *)
Ended(s, len, hasEnd) ==
    Passed(IF ~hasEnd /\ s.pos # len THEN -1 ELSE s.ret, IF s.ret # 0 THEN <<>> ELSE s.bin, s.pos)
sodium_hex2bin(maxlen, hex, ignore, hasEnd) ==
    LET begun == [bin |-> <<>>, half |-> -1, pos |-> 0, ret |-> 0, stop |-> FALSE]
        s[k \in 0..Len(hex)] == IF k = 0 THEN begun ELSE HexTurn(s[k - 1], hex[k], maxlen, ignore)
    IN Ended(HexRest(s[Len(hex)]), Len(hex), hasEnd)

-----------------------------------------------------------------------------
(* Base64.  The comparisons, on unsigned int.                              *)
EQ(x, y) == 255 - Top(Minus16(0, Xor16(x, y)))
GT(x, y) == Top(Minus16(y, x))
GE(x, y) == 255 - GT(y, x)
LT(x, y) == GT(y, x)
LE(x, y) == GE(y, x)
AnyOf(m) == Or8(Or8(Or8(Or8(m[1], m[2]), m[3]), m[4]), m[5])
Urlsafe(variant) == (variant \div 4) % 2 = 1
Unpadded(variant) == (variant \div 2) % 2 = 1
Last2(variant) == IF Urlsafe(variant) THEN <<45, 95>> ELSE <<43, 47>>
b64_byte_to_char(x, variant) ==
    AnyOf(<<And8(LT(x, 26), x + 65), And8(And8(GE(x, 26), LT(x, 52)), (x + 71) % 256), And8(And8(GE(x, 52), LT(x, 62)), (x - 4) % 256),
            And8(EQ(x, 62), Last2(variant)[1]), And8(EQ(x, 63), Last2(variant)[2])>>)
Within(c, from, to, shift) == And8(And8(GE(c, from), LE(c, to)), (c - shift) % 256)
b64_char_to_byte(c, variant) ==
    LET x == AnyOf(<<Within(c, 65, 90, 65), Within(c, 97, 122, 71), Within(c, 48, 57, -4),
                     And8(EQ(c, Last2(variant)[1]), 62), And8(EQ(c, Last2(variant)[2]), 63)>>)
    IN Or8(x, And8(EQ(x, 0), 255 - EQ(c, 65)))
(* A char that is signed, converted to unsigned int.                       *)
CharOf(b, signed) == IF signed /\ b >= 128 THEN b + Uint - 256 ELSE b
sodium_base64_check_variant(variant) == variant \in {1, 3, 5, 7}
EncodedLen(len, variant) ==
    4 * (len \div 3) + (IF len % 3 = 0 THEN 0 ELSE IF Unpadded(variant) THEN 2 + (len % 3) \div 2 ELSE 4)
sodium_base64_encoded_len(len, variant) ==
    IF sodium_base64_check_variant(variant) THEN EncodedLen(len, variant) + 1 ELSE Misused
(* A character for the first 6 bits of acc, if there are as many; there    *)
(* are less than 14.                                                       *)
Sextet(s, variant) ==
    IF s.bits < 6 THEN s
    ELSE [acc |-> s.acc, bits |-> s.bits - 6,
          b64 |-> Append(s.b64, b64_byte_to_char((s.acc \div 2^(s.bits - 6)) % 64, variant))]
EncodeTurn(s, b, variant) ==
    Sextet(Sextet([acc |-> (s.acc * 256 + b) % Uint, bits |-> s.bits + 8, b64 |-> s.b64], variant), variant)
sodium_bin2base64(maxlen, bin, variant) ==
    LET b64_len == EncodedLen(Len(bin), variant)
        loop[k \in 0..Len(bin)] ==
            IF k = 0 THEN [acc |-> 0, bits |-> 0, b64 |-> <<>>] ELSE EncodeTurn(loop[k - 1], bin[k], variant)
        s == loop[Len(bin)]
        code == IF s.bits = 0 THEN s.b64 ELSE Append(s.b64, b64_byte_to_char((s.acc * 2^(6 - s.bits)) % 64, variant))
    IN IF ~sodium_base64_check_variant(variant) \/ maxlen <= b64_len THEN <<Misused>>
       ELSE code \o [k \in 1..(b64_len - Len(code)) |-> 61] \o [k \in 1..(maxlen - b64_len) |-> 0]
(* From position pos on, padding_len more characters = are to come.        *)
PaddingTurn(s, c, ignore) ==
    IF s.stop \/ s.left = 0 THEN s
    ELSE IF c = 61 THEN [s EXCEPT !.left = @ - 1, !.pos = @ + 1]
    ELSE IF c \in ignore THEN [s EXCEPT !.pos = @ + 1]
    ELSE [s EXCEPT !.stop = TRUE]
skip_padding(b64, pos, ignore, padding_len) ==
    LET n == Len(b64) - pos
        s[k \in 0..n] ==
            IF k = 0 THEN [left |-> padding_len, pos |-> pos, stop |-> FALSE] ELSE PaddingTurn(s[k - 1], b64[pos + k], ignore)
    IN [ret |-> IF s[n].left = 0 THEN 0 ELSE -1, pos |-> s[n].pos]
Base64Turn(s, b, maxlen, ignore, variant, signed) ==
    LET d == b64_char_to_byte(CharOf(b, signed), variant)
        acc == (s.acc * 64 + d) % Uint
    IN IF s.stop THEN s
       ELSE IF d = 255 THEN IF b \in ignore THEN [s EXCEPT !.pos = @ + 1] ELSE [s EXCEPT !.stop = TRUE]
       ELSE IF s.bits < 2 THEN [s EXCEPT !.acc = acc, !.bits = @ + 6, !.pos = @ + 1]
       ELSE IF Len(s.bin) >= maxlen THEN [s EXCEPT !.acc = acc, !.bits = @ - 2, !.stop = TRUE, !.ret = -1]
       ELSE [s EXCEPT !.acc = acc, !.bits = @ - 2, !.bin = Append(@, (acc \div 2^(s.bits - 2)) % 256), !.pos = @ + 1]
(* Mutant: the bits left over need not be zero.                            *)
TooManyLeft(s) == s.bits > 4
(* Bits left over that no encoding leaves.                                 *)
Leftover(s) == s.bits > 4 \/ s.acc % 2^s.bits # 0
(* What is done with the bits left over and with the padding.              *)
Base64Rest(s, b64, ignore, variant) ==
    IF Leftover(s) THEN [s EXCEPT !.ret = -1]
    ELSE IF s.ret # 0 \/ Unpadded(variant) THEN s
    ELSE LET skipped == skip_padding(b64, s.pos, ignore, s.bits \div 2) IN [s EXCEPT !.ret = skipped.ret, !.pos = skipped.pos]
(* Where those characters to ignore end that come after position pos.      *)
Trailed(b64, pos, ignore) ==
    CHOOSE e \in pos..Len(b64) : (\A j \in pos+1..e : b64[j] \in ignore) /\ (e = Len(b64) \/ b64[e + 1] \notin ignore)
sodium_base642bin(maxlen, b64, ignore, hasEnd, variant, signed) ==
    LET begun == [acc |-> 0, bits |-> 0, bin |-> <<>>, pos |-> 0, ret |-> 0, stop |-> FALSE]
        loop[k \in 0..Len(b64)] ==
            IF k = 0 THEN begun ELSE Base64Turn(loop[k - 1], b64[k], maxlen, ignore, variant, signed)
        s == Base64Rest(loop[Len(b64)], b64, ignore, variant)
    IN IF ~sodium_base64_check_variant(variant) THEN Passed(Misused, <<>>, 0)
       ELSE Ended(IF s.ret = 0 THEN [s EXCEPT !.pos = Trailed(b64, @, ignore)] ELSE s, Len(b64), hasEnd)
=============================================================================
