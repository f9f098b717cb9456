--------------------------- MODULE Blake2bStream ---------------------------
(***************************************************************************)
(* The buffering of BLAKE2b, blake2b-ref.c: init, update and final on one   *)
(* state, the input in any pieces.  A byte of the input is its position, 1, *)
(* 2, ...; the padded key block, if there is a key, comes first.  What the  *)
(* compression function has been applied to is a sequence of records; the   *)
(* function itself is not modelled.  A turn of the loop of blake2b_update   *)
(* is a step.                                                               *)
(***************************************************************************)
EXTENDS Integers, Sequences

CONSTANTS
    Block,    \* BLAKE2B_BLOCKBYTES
    Word,     \* what a word of the counter t counts to: 2^64
    MaxInput  \* bound: the bytes of input to one state

ASSUME Blake2bAssumption ==
    /\ Block \in Nat \ {0}
    /\ Word \in Nat /\ Word > Block
    /\ MaxInput \in Nat

VARIABLES
    buf,       \* S->buf, two blocks
    buflen,    \* S->buflen
    t,         \* S->t, the low word and the high word
    f0,        \* S->f[0] # 0: the last block has been compressed
    h,         \* what has been compressed
    taken,     \* the bytes of input that blake2b_update has copied
    inlen,     \* what it has still to copy of the current call's input
    state,     \* "none", "ready", "update" inside blake2b_update
    digests    \* history: what each digest produced since init was made of

vars == <<buf, buflen, t, f0, h, taken, inlen, state, digests>>

Room == 2 * Block

Zero == 0  \* a byte of padding

-----------------------------------------------------------------------------

Init ==
    /\ buf = [j \in 1..Room |-> Zero]
    /\ buflen = 0
    /\ t = <<0, 0>>
    /\ f0 = FALSE
    /\ h = <<>>
    /\ taken = 0
    /\ inlen = 0
    /\ state = "none"
    /\ digests = <<>>

\* blake2b_init: everything from t to last_node is cleared.
Start ==
    /\ buf' = [j \in 1..Room |-> Zero]
    /\ buflen' = 0
    /\ t' = <<0, 0>>
    /\ f0' = FALSE
    /\ h' = <<>>
    /\ taken' = 0
    /\ digests' = <<>>

InitUnkeyed ==
    /\ state \in {"none", "ready"}
    /\ Start
    /\ state' = "ready" /\ inlen' = 0

\* blake2b_init_key feeds the key, padded to a block, as the first input.
InitKey ==
    /\ state \in {"none", "ready"}
    /\ Block <= MaxInput
    /\ Start
    /\ state' = "update" /\ inlen' = Block

\* Mutant: the words are not limited.
CountedWide(inc) ==
    LET low == t[1] + inc
    IN  <<low, IF low < inc THEN t[2] + 1 ELSE t[2]>>

\* t after inc more bytes: the low word carries into the high one.
Counted(inc) ==
    LET low == (t[1] + inc) % Word
    IN  <<low, IF low < inc THEN t[2] + 1 ELSE t[2]>>

\* A call of blake2b_update with n bytes.
Update(n) ==
    /\ state = "ready"
    /\ taken + n <= MaxInput
    /\ state' = IF n > 0 THEN "update" ELSE "ready"
    /\ inlen' = n
    /\ UNCHANGED <<buf, buflen, t, f0, h, taken, digests>>

\* n bytes of the input, copied behind the first k of the buffer.
Copied(k, n) ==
    [j \in 1..Room |-> IF k < j /\ j <= k + n THEN taken + j - k ELSE buf[j]]

Compression(b, count, last) ==
    [block |-> [j \in 1..Block |-> b[j]], t |-> count, last |-> last]

\* The second block of b moved to the place of the first.
Shifted(b) == [j \in 1..Room |-> IF j <= Block THEN b[j + Block] ELSE b[j]]

\* Mutant: the buffer is not moved.
FillUnshifted ==
    LET fill == Room - buflen IN
    /\ state = "update"
    /\ inlen > fill
    /\ buf' = Copied(buflen, fill)
    /\ buflen' = Room - Block
    /\ t' = Counted(Block)
    /\ h' = Append(h, Compression(Copied(buflen, fill), Counted(Block), f0))
    /\ taken' = taken + fill
    /\ inlen' = inlen - fill
    /\ UNCHANGED <<f0, state, digests>>

\* More input than fits: the buffer is filled and its first block compressed.
Fill ==
    LET fill == Room - buflen IN
    /\ state = "update"
    /\ inlen > fill
    /\ buf' = Shifted(Copied(buflen, fill))
    /\ buflen' = Room - Block
    /\ t' = Counted(Block)
    /\ h' = Append(h, Compression(Copied(buflen, fill), Counted(Block), f0))
    /\ taken' = taken + fill
    /\ inlen' = inlen - fill
    /\ UNCHANGED <<f0, state, digests>>

\* The rest fits: it is kept, even if it completes a block, which may be the last.
Keep ==
    /\ state = "update"
    /\ inlen <= Room - buflen
    /\ buf' = Copied(buflen, inlen)
    /\ buflen' = buflen + inlen
    /\ taken' = taken + inlen
    /\ inlen' = 0
    /\ state' = "ready"
    /\ UNCHANGED <<t, f0, h, digests>>

\* The last compression, of the k bytes at the start of b, padded; count and hashes are
\* those before it.  The buffer and the chaining value are wiped, the rest stays.
FinalBlock(b, k, count, hashes) ==
    LET padded == [j \in 1..Room |-> IF j <= k THEN b[j] ELSE Zero]
        done == Append(hashes, Compression(padded, count, TRUE))
    IN  /\ digests' = Append(digests, done)
        /\ h' = <<>>
        /\ buf' = [j \in 1..Room |-> Zero]
        /\ buflen' = k
        /\ t' = count
        /\ f0' = TRUE

FinalOne ==
    /\ state = "ready" /\ ~f0
    /\ buflen <= Block
    /\ FinalBlock(buf, buflen, Counted(buflen), h)
    /\ UNCHANGED <<taken, inlen, state>>

\* Two blocks, or one and a part, are left: the first is not the last.
FinalTwo ==
    LET k == buflen - Block
        mid == Counted(Block)
        low == (mid[1] + k) % Word
    IN  /\ state = "ready" /\ ~f0
        /\ buflen > Block
        /\ FinalBlock(Shifted(buf), k, <<low, IF low < k THEN mid[2] + 1 ELSE mid[2]>>,
                      Append(h, Compression(buf, mid, FALSE)))
        /\ UNCHANGED <<taken, inlen, state>>

\* Mutant: the flag of the last block is not looked at.
FinalTwice ==
    /\ state = "ready" /\ f0 /\ buflen <= Block
    /\ FinalBlock(buf, buflen, Counted(buflen), h)
    /\ UNCHANGED <<taken, inlen, state>>

\* After the last block final returns -1.
FinalAgain ==
    /\ state = "ready" /\ f0
    /\ UNCHANGED vars

Next ==
    \/ InitUnkeyed \/ InitKey
    \/ \E n \in 0..MaxInput : Update(n)
    \/ Fill \/ Keep
    \/ FinalOne \/ FinalTwo \/ FinalAgain

Spec == Init /\ [][Next]_vars

-----------------------------------------------------------------------------

\* Every variable has its type; the buffer does not overflow.
TypeOK ==
    /\ buf \in [1..Room -> 0..MaxInput]
    /\ buflen \in 0..Room
    /\ t \in (0..Word - 1) \X Nat
    /\ f0 \in BOOLEAN
    /\ taken \in 0..MaxInput
    /\ inlen \in 0..MaxInput
    /\ taken + inlen <= MaxInput
    /\ state \in {"none", "ready", "update"}

\* The blocks of an input of n bytes: the last one is full unless the input does not
\* divide, and is there even if the input is empty.
Blocks(n) ==
    LET count == IF n = 0 THEN 1 ELSE (n + Block - 1) \div Block
        end(k) == IF k = count THEN n ELSE k * Block
    IN  [k \in 1..count |->
           [block |-> [j \in 1..Block |-> IF (k - 1) * Block + j <= n THEN (k - 1) * Block + j
                                          ELSE Zero],
            t |-> <<end(k) % Word, end(k) \div Word>>,
            last |-> k = count]]

\* A digest is of the whole input up to then and of nothing else, in whatever pieces it
\* came: every block once and in order, the last one flagged and padded, the bytes
\* counted without the padding, through a carry between the words of the counter.  It is
\* the only one of a state until that is initialized again: final after final is refused,
\* also when blake2b_update is called in between.
DigestIsOfInput ==
    [][digests' # digests => digests' = <<>> \/ digests' = <<Blocks(taken)>>]_vars
=============================================================================
