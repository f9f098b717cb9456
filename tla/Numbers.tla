------------------------------- MODULE Numbers -------------------------------
(***************************************************************************)
(* The padding, the comparisons and the arithmetic of utils.c, and         *)
(* randombytes_uniform.  What a loop has computed is a function of the     *)
(* number of its turns.  A uint64_t of the assembly has 2 bytes and its    *)
(* uint32_t 1, so that lengths of 8, 12, 24 and 64 are 2, 3, 6 and 16; a   *)
(* random word has 8 bits.                                                 *)
(***************************************************************************)
EXTENDS Words

Misused == -99     \* sodium_misuse: the call does not return

-----------------------------------------------------------------------------
(* Padding: buf is the memory from the start of the buffer on, of which    *)
(* max bytes may be used.                                                  *)
(* Mutant: every block size is taken for a power of two.                   *)
PadLengthMasked(len, blocksize) == blocksize - 1 - And16(len, blocksize - 1)
PadLength(len, blocksize) ==
    blocksize - 1 - (IF And16(blocksize, blocksize - 1) = 0 THEN And16(len, blocksize - 1) ELSE len % blocksize)
(* 255 if i = xpadlen, else 0.                                             *)
Barrier(i, xpadlen) == Top(Minus16(Xor16(i, xpadlen), 1))
Tailed(buf, last, blocksize, xpadlen) ==
    LET mask[i \in 0..blocksize] == IF i = 0 THEN 0 ELSE Or8(mask[i - 1], Barrier(i - 1, xpadlen))
        byte(k, i) == Or8(And8(buf[k], mask[i]), And8(128, Barrier(i, xpadlen)))
    IN [k \in 1..Len(buf) |-> IF last + 1 - k \in 0..blocksize - 1 THEN byte(k, last + 1 - k) ELSE buf[k]]
sodium_pad(buf, len, blocksize, max) ==
    LET xpadlen == PadLength(len, blocksize)
    IN IF blocksize = 0 THEN [ret |-> -1, buf |-> buf, len |-> -1]
       ELSE IF Uint - 1 - len <= xpadlen THEN [ret |-> Misused, buf |-> buf, len |-> -1]
       ELSE IF len + xpadlen >= max THEN [ret |-> -1, buf |-> buf, len |-> -1]
       ELSE [ret |-> 0, buf |-> Tailed(buf, len + xpadlen, blocksize, xpadlen), len |-> len + xpadlen + 1]
UnpadTurn(s, c, i) ==
    LET barrier == Top(And16(And16(Minus16(s.acc, 1), Minus16(s.pad_len, 1)), Minus16(Xor8(c, 128), 1))) % 2
    IN [acc |-> Or8(s.acc, c), pad_len |-> Or16(s.pad_len, And16(i, Neg16(barrier))), valid |-> Or8(s.valid, barrier)]
sodium_unpad(buf, padded, blocksize) ==
    LET s[i \in 0..blocksize] ==
            IF i = 0 THEN [acc |-> 0, pad_len |-> 0, valid |-> 0] ELSE UnpadTurn(s[i - 1], buf[padded - (i - 1)], i - 1)
    IN IF padded < blocksize \/ blocksize = 0 THEN [ret |-> -1, len |-> -1]
       ELSE [ret |-> s[blocksize].valid - 1, len |-> padded - 1 - s[blocksize].pad_len]

-----------------------------------------------------------------------------
(* Numbers as bytes, the low one first.                                    *)
sodium_memcmp(b1, b2) ==
    LET d[k \in 0..Len(b1)] == IF k = 0 THEN 0 ELSE Or8(d[k - 1], Xor8(b1[k], b2[k]))
    IN (Top(Minus16(d[Len(b1)], 1)) % 2) - 1
CompareTurn(s, x1, x2) ==
    [gt |-> Or8(s.gt, And8(Top(Minus16(x2, x1)), s.eq)), eq |-> And8(s.eq, Top(Minus16(Xor8(x2, x1), 1)))]
sodium_compare(b1, b2) ==
    LET len == Len(b1)
        s[i \in 0..len] == IF i = 0 THEN [gt |-> 0, eq |-> 1] ELSE CompareTurn(s[i - 1], b1[len + 1 - i], b2[len + 1 - i])
    IN s[len].gt + s[len].gt + s[len].eq - 1
sodium_is_zero(n) ==
    LET d[k \in 0..Len(n)] == IF k = 0 THEN 0 ELSE Or8(d[k - 1], n[k]) IN Top(Minus16(d[Len(n)], 1)) % 2
(* Byte by byte.                                                           *)
Looped(a, b, carry) ==
    LET c[k \in 0..Len(a)] == IF k = 0 THEN carry ELSE (c[k - 1] + a[k] + b[k]) \div 256
    IN [k \in 1..Len(a) |-> (c[k - 1] + a[k] + b[k]) % 256]
LoopedSub(a, b) ==
    LET c[k \in 0..Len(a)] == IF k = 0 THEN 0 ELSE Top(Minus16(a[k], b[k] + c[k - 1])) % 2
    IN [k \in 1..Len(a) |-> (a[k] - b[k] - c[k - 1]) % 256]
(* The chain of add and adc, over words of two bytes; the last may be one  *)
(* of one byte.                                                            *)
Words2(a) == (Len(a) + 1) \div 2
Values(a, w) == IF 2 * w > Len(a) THEN 256 ELSE Uint
WordAt(a, w) == IF 2 * w > Len(a) THEN a[2 * w - 1] ELSE a[2 * w - 1] + 256 * a[2 * w]
ByteOf(word, k) == IF k % 2 = 1 THEN word % 256 ELSE (word \div 256) % 256
Chained(a, b, carry) ==
    LET c[w \in 0..Words2(a)] == IF w = 0 THEN carry ELSE (WordAt(a, w) + WordAt(b, w) + c[w - 1]) \div Values(a, w)
        sum(w) == WordAt(a, w) + WordAt(b, w) + c[w - 1]
    IN [k \in 1..Len(a) |-> ByteOf(sum((k + 1) \div 2), k)]
Borrowed(a, b) ==
    LET c[w \in 0..Words2(a)] == IF w = 0 THEN 0 ELSE IF WordAt(a, w) - WordAt(b, w) - c[w - 1] < 0 THEN 1 ELSE 0
        difference(w) == (WordAt(a, w) - WordAt(b, w) - c[w - 1]) % Values(a, w)
    IN [k \in 1..Len(a) |-> ByteOf(difference((k + 1) \div 2), k)]
Zeroed(a) == [k \in 1..Len(a) |-> 0]
sodium_increment(asm, n) ==
    IF ~asm \/ Len(n) \notin {2, 3, 6} THEN Looped(n, Zeroed(n), 1)
    ELSE IF Len(n) = 6 THEN Chained(n, <<1, 0, 0, 0, 0, 0>>, 0) ELSE Chained(n, Zeroed(n), 1)
(* Mutant: the second word is added without the carry of the first.        *)
added_apart(asm, a, b) ==
    IF asm /\ Len(a) = 6 THEN Looped(SubSeq(a, 1, 2), SubSeq(b, 1, 2), 0) \o Looped(SubSeq(a, 3, 6), SubSeq(b, 3, 6), 0) ELSE Looped(a, b, 0)
sodium_add(asm, a, b) ==
    IF asm /\ Len(a) \in {2, 3, 6} THEN Chained(a, b, 0) ELSE Looped(a, b, 0)
sodium_sub(asm, a, b) ==
    IF asm /\ Len(a) = 16 THEN Borrowed(a, b) ELSE LoopedSub(a, b)

-----------------------------------------------------------------------------
(* The number that randombytes_uniform makes of the words it is given, one *)
(* after the other; -1 if it asks for more.                                *)
(* Mutant: no word is rejected.                                            *)
NoneRejected(upper_bound) == 0
Rejected(upper_bound) == ((256 - upper_bound) % 256) % upper_bound
randombytes_uniform(upper_bound, words) ==
    IF upper_bound < 2 THEN 0
    ELSE LET kept == {k \in 1..Len(words) : words[k] >= Rejected(upper_bound)}
         IN IF kept = {} THEN -1 ELSE words[CHOOSE k \in kept : \A j \in kept : k <= j] % upper_bound
=============================================================================
