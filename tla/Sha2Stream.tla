----------------------------- MODULE Sha2Stream -----------------------------
(***************************************************************************)
(* The buffering, counting and padding of SHA-512 and SHA-256               *)
(* (hash_sha512_cp.c, hash_sha256_cp.c): init, update and final on one      *)
(* state, the input in any pieces.  A byte of the input is its position, 1, *)
(* 2, ...; the compression function is not modelled, only what it is        *)
(* applied to.  SHA-256 differs in having one counter word.                 *)
(***************************************************************************)
EXTENDS Integers, Sequences

CONSTANTS
    Words,     \* the words in the counters considered: 2 in SHA-512, 1 in SHA-256
    Block,     \* the bytes of a block: 128 and 64
    LengthAt,  \* where in the last block the count is: 112 and 56
    Bits,      \* the bits in a byte: 8
    Word,      \* what a word of the counter counts to: 2^64
    MaxInput   \* bound: the bytes of input to one state

\* What they must satisfy.
Sha2Parameters ==
    /\ Block \in Nat \ {0} /\ LengthAt \in 1..Block - 1
    /\ Bits \in Nat \ {0}
    /\ Word \in Nat /\ Word > 0 /\ Word % (Bits * Block) = 0
    /\ Words \subseteq {1, 2}
    /\ MaxInput \in Nat

VARIABLES
    words,   \* which of the two algorithms the state is for
    buf,     \* state->buf
    count,   \* state->count, the low word and the high word, in bits
    h,       \* what the compression function has been applied to
    taken,   \* the bytes of input so far
    state,   \* "wiped", or "ready" after init
    digest   \* what the last digest was made of

sha2Vars == <<words, buf, count, h, taken, state, digest>>

Mark == -1  \* the byte 0x80 that padding begins with
ZeroByte == 0

-----------------------------------------------------------------------------

Sha2Init ==
    /\ words \in Words
    /\ buf = [j \in 1..Block |-> ZeroByte]
    /\ count = <<0, 0>>
    /\ h = <<>> /\ digest = <<>>
    /\ taken = 0
    /\ state = "wiped"

\* crypto_hash_sha512_init: the buffer keeps what it contains.
InitHash ==
    /\ count' = <<0, 0>>
    /\ h' = <<>> /\ digest' = <<>>
    /\ taken' = 0
    /\ state' = "ready"
    /\ UNCHANGED <<words, buf>>

\* The bytes in the buffer, from the low word of the counter.
Buffered == (count[1] \div Bits) % Block

\* Mutant: the carry is not added.
CountedLow(n) ==
    <<(count[1] + (n * Bits)) % Word, IF words = 2 THEN count[2] + (n * Bits) \div Word ELSE 0>>

\* count after n more bytes: the sum's low word is smaller than what was added to it
\* just when it has wrapped.
BitsCounted(n) ==
    LET added == (n * Bits) % Word
        low   == (count[1] + added) % Word
        carry == IF low < added THEN 1 ELSE 0
    IN  <<low, IF words = 2 THEN count[2] + carry + (n * Bits) \div Word ELSE 0>>

\* The next n bytes of the input.
Input(n) == [j \in 1..n |-> taken + j]

\* b with the bytes of s from place k + 1 on.
Overwritten(b, k, s) ==
    [j \in 1..Block |-> IF k < j /\ j <= k + Len(s) THEN s[j - k] ELSE b[j]]

Whole(b) == [bytes |-> b, length |-> <<>>]

Taking(n) == state = "ready" /\ taken + n <= MaxInput /\ taken' = taken + n

\* The input does not complete a block.
UpdateShort(n) ==
    /\ Taking(n)
    /\ n < Block - Buffered
    /\ count' = BitsCounted(n)
    /\ buf' = Overwritten(buf, Buffered, Input(n))
    /\ UNCHANGED <<words, h, state, digest>>

\* The block in the buffer is completed and compressed, then every whole block of the
\* input in place; the rest is left at the start of the buffer.
UpdateLong(n) ==
    LET fill  == Block - Buffered
        first == Overwritten(buf, Buffered, Input(fill))
        more  == (n - fill) \div Block
        rest  == SubSeq(Input(n), fill + more * Block + 1, n)
    IN  /\ Taking(n)
        /\ n >= fill
        /\ count' = BitsCounted(n)
        /\ h' = h \o <<Whole(first)>> \o
                [k \in 1..more |->
                   Whole([j \in 1..Block |-> Input(n)[fill + (k - 1) * Block + j]])]
        /\ buf' = Overwritten(first, 0, rest)
        /\ UNCHANGED <<words, state, digest>>

Pad == [j \in 1..Block |-> IF j = 1 THEN Mark ELSE ZeroByte]

\* The last compression, of the block b up to the count; then the state is wiped.  The
\* code does not tell a wiped state from one after init: that it is not used before the
\* next init is the caller's part.
Finish(b, hashes) ==
    /\ state = "ready"
    /\ digest' = Append(hashes, [bytes |-> SubSeq(b, 1, LengthAt), length |-> count])
    /\ state' = "wiped"
    /\ buf' = [j \in 1..Block |-> ZeroByte]
    /\ count' = <<0, 0>>
    /\ h' = <<>>
    /\ UNCHANGED <<words, taken>>

\* The count fits behind the padding.
FinalShort ==
    /\ Buffered < LengthAt
    /\ Finish(Overwritten(buf, Buffered, SubSeq(Pad, 1, LengthAt - Buffered)), h)

\* It does not: the padded block is compressed, and a block of zeros takes the count.
FinalLong ==
    LET padded == Overwritten(buf, Buffered, SubSeq(Pad, 1, Block - Buffered)) IN
    /\ Buffered >= LengthAt
    /\ Finish(Overwritten(padded, 0, [j \in 1..LengthAt |-> ZeroByte]), Append(h, Whole(padded)))

Sha2Next ==
    \/ InitHash
    \/ \E n \in 0..MaxInput : UpdateShort(n) \/ UpdateLong(n)
    \/ FinalShort \/ FinalLong

Sha2Spec == Sha2Init /\ [][Sha2Next]_sha2Vars

-----------------------------------------------------------------------------

\* Every variable has its type, the counter words their width.
Sha2TypeOK ==
    /\ words \in Words
    /\ buf \in [1..Block -> Mark..MaxInput]
    /\ count \in (0..Word - 1) \X Nat
    /\ taken \in 0..MaxInput
    /\ state \in {"wiped", "ready"}

\* The padded message of n bytes as the standard has it: the input, the mark, as few
\* zeros as make room for the count at the end of a block, and the count in bits.
Padded(n) ==
    LET blocks == (n + 1 + (Block - LengthAt) + Block - 1) \div Block
        byte(i) == IF i <= n THEN i ELSE IF i = n + 1 THEN Mark ELSE ZeroByte
        length == <<(n * Bits) % Word, IF words = 2 THEN (n * Bits) \div Word ELSE 0>>
    IN  [k \in 1..blocks |->
           IF k < blocks THEN Whole([j \in 1..Block |-> byte((k - 1) * Block + j)])
           ELSE [bytes |-> [j \in 1..LengthAt |-> byte((k - 1) * Block + j)],
                 length |-> length]]

\* A digest is of the padded input, in whatever pieces it came: no byte is lost, doubled
\* or left over from an earlier block or an earlier use of the state, and the count is
\* right through a carry between its words.
DigestIsOfPadded == digest # <<>> => digest = Padded(taken)
=============================================================================
