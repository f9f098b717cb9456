------------------------- MODULE HashStreams_proofs -------------------------
(***************************************************************************)
(* Theorems about the two hash streams, Blake2bStream and Sha2Stream, for   *)
(* blocks, bytes and counter words of any size and any input, in any        *)
(* pieces: what is digested is the input, split, padded and counted as it   *)
(* has to be.  Their invariants say what has been compressed, what is in    *)
(* the buffer and what the counter counts, each by the number of bytes      *)
(* taken so far.                                                            *)
(***************************************************************************)
EXTENDS Blake2bStream, SequenceTheorems, TLAPS

-----------------------------------------------------------------------------
\* Arithmetic.

LEMMA Division ==
    ASSUME NEW m \in Nat \ {0}, NEW q \in Nat, NEW r \in 0..m - 1, NEW a, a = q * m + r
    PROVE  a \div m = q /\ a % m = r
  OBVIOUS

LEMMA Divided ==
    ASSUME NEW m \in Nat \ {0}, NEW a \in Nat
    PROVE  /\ a \div m \in Nat /\ a % m \in 0..m - 1
           /\ a = (a \div m) * m + (a % m)
  OBVIOUS

LEMMA Times ==
    ASSUME NEW a \in Nat, NEW b \in Nat
    PROVE  a * b \in Nat
  OBVIOUS

LEMMA Distributes ==
    ASSUME NEW a \in Int, NEW b \in Int, NEW m \in Int
    PROVE  (a + b) * m = a * m + b * m
  OBVIOUS

LEMMA Bounded ==
    ASSUME NEW a \in Nat, NEW b \in Nat, NEW m \in Nat, a <= b
    PROVE  a * m <= b * m
<1>1. (b - a) * m >= 0
  OBVIOUS
<1> QED
  BY <1>1

\* The low word of a sum in words of m has wrapped just when it is smaller than what was
\* added to it.
LEMMA Carry ==
    ASSUME NEW m \in Nat \ {0}, NEW a \in Nat, NEW b \in Nat,
           NEW low, low = ((a % m) + (b % m)) % m
    PROVE  /\ low = (a + b) % m
           /\ (a + b) \div m = (a \div m) + (b \div m) + (IF low < b % m THEN 1 ELSE 0)
<1> DEFINE q == a \div m
           r == a % m
           p == b \div m
           s == b % m
           sum == a + b
<1>1. /\ q \in Nat /\ r \in 0..m - 1 /\ a = q * m + r
      /\ p \in Nat /\ s \in 0..m - 1 /\ b = p * m + s
  BY Divided
<1>2. low = (r + s) % m /\ sum = a + b
  OBVIOUS
<1> HIDE DEF q, r, p, s, sum
<1>3. sum = (p + q) * m + (r + s)
  BY <1>1, <1>2, Distributes
<1>4. CASE r + s < m
  <2> DEFINE x == r + s
             n == p + q
  <2>1. /\ x = 0 * m + x /\ sum = n * m + x /\ x \in 0..m - 1 /\ n \in Nat
        /\ ~(x < s)
    BY <1>1, <1>3, <1>4
  <2>2. low = x % m
    BY <1>2
  <2> HIDE DEF x, n
  <2>3. x % m = x /\ sum \div m = n /\ sum % m = x
    BY <2>1, Division
  <2>4. low = sum % m /\ sum \div m = q + p + (IF low < s THEN 1 ELSE 0)
    BY <1>1, <2>1, <2>2, <2>3 DEF n
  <2> QED
    BY <2>4 DEF q, p, s, sum
<1>5. CASE r + s >= m
  <2> DEFINE y == r + s
             x == y - m
             n == p + q + 1
  <2>1. x \in 0..m - 1 /\ y = 1 * m + x /\ n \in Nat /\ x < s
    BY <1>1, <1>5
  <2>2. (p + q) * m + m = n * m
    BY <1>1
  <2>3. sum = n * m + x
    BY <1>1, <1>3, <2>2
  <2>4. low = y % m
    BY <1>2
  <2> HIDE DEF x, y, n
  <2>5. y % m = x /\ sum \div m = n /\ sum % m = x
    BY <2>1, <2>3, Division
  <2>6. low = sum % m /\ sum \div m = q + p + (IF low < s THEN 1 ELSE 0)
    BY <1>1, <2>1, <2>4, <2>5 DEF n
  <2> QED
    BY <2>6 DEF q, p, s, sum
<1> QED
  BY <1>1, <1>4, <1>5

\* The same by names that hide the arithmetic.
LowOfSum(low, a, b, m) == low = ((a % m) + (b % m)) % m
CarriesIn(low, a, b, m) ==
    /\ low = (a + b) % m
    /\ (a + b) \div m = (a \div m) + (b \div m) + (IF low < b % m THEN 1 ELSE 0)

LEMMA CarryOf ==
    ASSUME NEW m \in Nat \ {0}, NEW a \in Nat, NEW b \in Nat, NEW low, LowOfSum(low, a, b, m)
    PROVE  CarriesIn(low, a, b, m)
  BY Carry DEF LowOfSum, CarriesIn

-----------------------------------------------------------------------------
\* BLAKE2b.

\* The words of a counter of n.
Count(n) == <<n % Word, n \div Word>>

\* Block k of an input that goes on after it.
FullBlock(k) ==
    [block |-> [j \in 1..Block |-> (k - 1) * Block + j], t |-> Count(k * Block),
     last |-> FALSE]

Records == [block : [1..Block -> Nat], t : Nat \X Nat, last : BOOLEAN]

Compressed(hashes) ==
    /\ hashes \in Seq(Records)
    /\ \A k \in 1..Len(hashes) : hashes[k] = FullBlock(k)

\* A state in which no digest has been made: what was compressed are the blocks in front
\* of what is in the buffer, all that was taken is in the one or the other, and a whole
\* block at least is kept of an input that is longer than one.
Streaming ==
    /\ Compressed(h)
    /\ taken = Len(h) * Block + buflen
    /\ t = Count(Len(h) * Block)
    /\ \A j \in 1..buflen : buf[j] = Len(h) * Block + j
    /\ Len(h) > 0 => buflen >= Block
    /\ digests = <<>>

Blake2bInv == TypeOK /\ (~f0 => Streaming)

LEMMA Positive ==
    /\ Block \in Nat \ {0} /\ Word \in Nat \ {0} /\ Block < Word /\ MaxInput \in Nat
    /\ Room = 2 * Block /\ Room \in Nat
  BY Blake2bAssumption DEF Room

LEMMA CountType ==
    ASSUME NEW n \in Nat
    PROVE  Count(n) \in (0..Word - 1) \X Nat
  BY Positive DEF Count

LEMMA CountedIsCount ==
    ASSUME NEW n \in Nat, NEW inc \in 0..Block, NEW low, low = ((n % Word) + inc) % Word
    PROVE  <<low, IF low < inc THEN (n \div Word) + 1 ELSE n \div Word>> = Count(n + inc)
<1>1. inc \in Nat /\ inc = 0 * Word + inc /\ inc \in 0..Word - 1 /\ n \div Word \in Nat
  BY Positive
<1>2. inc \div Word = 0 /\ inc % Word = inc
  BY <1>1, Positive, Division
<1>3. low = ((n % Word) + (inc % Word)) % Word
  BY <1>2
<1>4. /\ low = (n + inc) % Word
      /\ (n + inc) \div Word = (n \div Word) + (inc \div Word)
                              + (IF low < inc % Word THEN 1 ELSE 0)
  BY <1>1, <1>3, Positive, Carry
<1> QED
  BY <1>1, <1>2, <1>4 DEF Count

LEMMA CountedBy ==
    ASSUME NEW n \in Nat, NEW inc \in 0..Block, t = Count(n)
    PROVE  Counted(inc) = Count(n + inc)
  BY CountedIsCount DEF Counted, Count

LEMMA FullBlockType ==
    ASSUME NEW k \in Nat \ {0}
    PROVE  FullBlock(k) \in Records
<1>1. Count(k * Block) \in Nat \X Nat
  BY Positive, CountType
<1>2. [j \in 1..Block |-> (k - 1) * Block + j] \in [1..Block -> Nat]
  BY Positive
<1> QED
  BY <1>1, <1>2 DEF FullBlock, Records

\* One more block.
LEMMA CompressedNext ==
    ASSUME NEW hashes, Compressed(hashes), NEW more, more = FullBlock(Len(hashes) + 1)
    PROVE  /\ Len(hashes) \in Nat
           /\ Compressed(Append(hashes, more)) /\ Len(Append(hashes, more)) = Len(hashes) + 1
<1>1. hashes \in Seq(Records) /\ Len(hashes) \in Nat
  BY DEF Compressed
<1>2. more \in Records
  BY <1>1, FullBlockType
<1>3. /\ Append(hashes, more) \in Seq(Records)
      /\ Len(Append(hashes, more)) = Len(hashes) + 1
      /\ \A k \in 1..Len(hashes) + 1 :
           Append(hashes, more)[k] = IF k <= Len(hashes) THEN hashes[k] ELSE more
  BY <1>1, <1>2
<1> QED
  BY <1>1, <1>3 DEF Compressed

\* The last block completes the input.
LEMMA CompressedAll ==
    ASSUME NEW hashes, Compressed(hashes), NEW k \in 0..Block, NEW n,
           n = Len(hashes) * Block + k, k = 0 => Len(hashes) = 0,
           NEW b, \A j \in 1..k : b[j] = Len(hashes) * Block + j,
           NEW padded, padded = [j \in 1..Room |-> IF j <= k THEN b[j] ELSE Zero]
    PROVE  Append(hashes, Compression(padded, Count(n), TRUE)) = Blocks(n)
<1> DEFINE c == Len(hashes)
           last == Compression(padded, Count(n), TRUE)
           count == IF n = 0 THEN 1 ELSE (n + Block - 1) \div Block
           end(i) == IF i = count THEN n ELSE i * Block
           block(i) ==
             [block |-> [j \in 1..Block |-> IF (i - 1) * Block + j <= n
                                            THEN (i - 1) * Block + j ELSE Zero],
              t |-> <<end(i) % Word, end(i) \div Word>>,
              last |-> i = count]
           all == [i \in 1..count |-> block(i)]
<1>1. hashes \in Seq(Records) /\ c \in Nat /\ n \in Nat /\ k \in Nat
  BY Positive DEF Compressed
<1>2. count = c + 1
  <2>1. CASE n = 0
    BY <1>1, <2>1, Positive
  <2>2. CASE n # 0
    <3>1. k # 0
      BY <1>1, <2>2, Positive
    <3> DEFINE a == n + Block - 1
               q == c + 1
               r == k - 1
    <3>2. a = q * Block + r /\ r \in 0..Block - 1 /\ q \in Nat /\ Block \in Nat \ {0}
      BY <1>1, <3>1, Positive
    <3> HIDE DEF a, q, r
    <3>3. a \div Block = q
      BY <3>2, Division
    <3> QED
      BY <2>2, <3>3 DEF a, q
  <2> QED
    BY <2>1, <2>2
<1>3. last \in Records
  <2>1. \A j \in 1..Block : padded[j] \in Nat
    BY <1>1, Positive DEF Zero
  <2>2. Count(n) \in Nat \X Nat
    BY <1>1, CountType
  <2> QED
    BY <2>1, <2>2 DEF Compression, Records
<1>4. \A i \in 1..c : block(i) = hashes[i]
  <2> SUFFICES ASSUME NEW i \in 1..c PROVE block(i) = hashes[i]
    OBVIOUS
  <2>1. i # count /\ i \in Nat /\ i \in 1..Len(hashes)
    BY <1>1, <1>2
  <2>2. \A j \in 1..Block : (i - 1) * Block + j <= n
    <3>1. i * Block <= c * Block /\ (i - 1) * Block + Block = i * Block
      BY <1>1, <2>1, Positive, Bounded
    <3> QED
      BY <1>1, <2>1, <3>1, Positive
  <2>3. hashes[i] = FullBlock(i)
    BY <2>1 DEF Compressed
  <2> HIDE DEF count
  <2>4. [j \in 1..Block |-> IF (i - 1) * Block + j <= n THEN (i - 1) * Block + j ELSE Zero]
        = [j \in 1..Block |-> (i - 1) * Block + j]
    BY <2>2
  <2> QED
    BY <2>1, <2>3, <2>4 DEF FullBlock, Count
<1>5. block(c + 1) = last
  <2>1. \A j \in 1..Block : (c * Block + j <= n) <=> (j <= k)
    BY <1>1, Positive
  <2>2. \A j \in 1..Block : padded[j] = IF c * Block + j <= n THEN c * Block + j ELSE Zero
    BY <1>1, <2>1, Positive
  <2>3. (c + 1) - 1 = c
    BY <1>1
  <2>4. [j \in 1..Block |-> IF ((c + 1) - 1) * Block + j <= n
                            THEN ((c + 1) - 1) * Block + j ELSE Zero]
        = [j \in 1..Block |-> padded[j]]
    BY <2>2, <2>3
  <2> QED
    BY <1>2, <2>4 DEF Compression, Count
<1> HIDE DEF last, block, count, c
<1>6. all \in Seq(Records) /\ Len(all) = c + 1
  <2>1. \A i \in 1..c : hashes[i] \in Records
    BY <1>1 DEF c
  <2>2. \A i \in 1..c + 1 : block(i) \in Records
    BY <1>1, <1>3, <1>4, <1>5, <2>1
  <2>3. all \in [1..c + 1 -> Records]
    BY <1>2, <2>2
  <2> HIDE DEF all
  <2> QED
    BY <1>1, <2>3
<1>7. /\ Append(hashes, last) \in Seq(Records) /\ Len(Append(hashes, last)) = c + 1
      /\ \A i \in 1..c + 1 : Append(hashes, last)[i] = IF i <= c THEN hashes[i] ELSE last
  BY <1>1, <1>3 DEF c
<1>8. \A i \in 1..c + 1 : Append(hashes, last)[i] = all[i]
  BY <1>1, <1>2, <1>4, <1>5, <1>7
<1>9. Append(hashes, last) = all
  BY <1>6, <1>7, <1>8, SeqEqual
<1> QED
  BY <1>9 DEF all, block, count, end, last, Blocks

LEMMA CopiedType ==
    ASSUME TypeOK, NEW k \in 0..Room, NEW n \in 0..MaxInput, taken + n <= MaxInput
    PROVE  /\ Copied(k, n) \in [1..Room -> 0..MaxInput]
           /\ \A j \in 1..Room : k < j /\ j <= k + n => Copied(k, n)[j] = taken + j - k
           /\ \A j \in 1..Room : j <= k => Copied(k, n)[j] = buf[j]
<1>1. Room \in Nat /\ MaxInput \in Nat /\ taken \in Nat
  BY Positive DEF TypeOK
<1>2. \A j \in 1..Room : k < j /\ j <= k + n => taken + j - k \in 0..MaxInput
  BY <1>1
<1>3. \A j \in 1..Room : buf[j] \in 0..MaxInput
  BY DEF TypeOK
<1> QED
  BY <1>1, <1>2, <1>3 DEF Copied

LEMMA ShiftedType ==
    ASSUME NEW b \in [1..Room -> 0..MaxInput]
    PROVE  /\ Shifted(b) \in [1..Room -> 0..MaxInput]
           /\ \A j \in 1..Block : Shifted(b)[j] = b[j + Block]
<1>1. \A j \in 1..Block : j + Block \in 1..Room /\ j \in 1..Room
  BY Positive
<1>2. \A j \in 1..Room : j <= Block => j + Block \in 1..Room /\ j \in 1..Block
  BY Positive
<1>3. \A j \in 1..Room : (IF j <= Block THEN b[j + Block] ELSE b[j]) \in 0..MaxInput
  BY <1>2
<1>4. \A j \in 1..Block : j \in 1..Room /\ j <= Block
  BY <1>1, Positive
<1> QED
  BY <1>3, <1>4 DEF Shifted

LEMMA CountedType ==
    ASSUME TypeOK, NEW inc \in 0..Room
    PROVE  Counted(inc) \in (0..Word - 1) \X Nat
<1>1. t[1] \in Nat /\ t[2] \in Nat /\ inc \in Nat
  BY Positive DEF TypeOK
<1> DEFINE a == t[1] + inc
<1>2. a % Word \in 0..Word - 1
  <2>1. a \in Nat
    BY <1>1
  <2> HIDE DEF a
  <2> QED
    BY <2>1, Positive
<1> QED
  BY <1>1, <1>2 DEF Counted

LEMMA StartType ==
    ASSUME TypeOK, Start, state' \in {"ready", "update"}, inlen' \in 0..MaxInput
    PROVE  Blake2bInv'
<1>1. /\ buf' = [j \in 1..Room |-> Zero] /\ buflen' = 0 /\ t' = <<0, 0>> /\ f0' = FALSE
      /\ h' = <<>> /\ taken' = 0 /\ digests' = <<>>
  BY DEF Start
<1>0. inlen' \in 0..MaxInput
  OBVIOUS
<1>2. <<0, 0>> = Count(0)
  BY Positive DEF Count
<1>3. TypeOK'
  <2>1. buf' \in [1..Room -> 0..MaxInput]
    BY <1>1, Positive DEF Zero
  <2>2. t' \in (0..Word - 1) \X Nat
    BY <1>1, Positive
  <2>3. buflen' \in 0..Room /\ taken' \in 0..MaxInput /\ taken' + inlen' <= MaxInput
    <3>1. buflen' \in 0..Room /\ taken' \in 0..MaxInput
      BY <1>1, Positive
    <3>2. \A n \in 0..MaxInput : 0 + n <= MaxInput
      BY Positive
    <3> QED
      BY <1>0, <1>1, <3>1, <3>2
  <2>4. f0' \in BOOLEAN /\ state' \in {"none", "ready", "update"}
    BY <1>1
  <2> QED
    BY <2>1, <2>2, <2>3, <2>4 DEF TypeOK
<1>4. Streaming'
  BY <1>1, <1>2, Positive DEF Streaming, Compressed
<1> QED
  BY <1>3, <1>4 DEF Blake2bInv

LEMMA StepOfUpdate ==
    ASSUME Blake2bInv, NEW n \in 0..MaxInput, Update(n)
    PROVE  Blake2bInv'
<1>1. TypeOK'
  BY DEF Blake2bInv, Update, TypeOK
<1>2. ~f0' => Streaming'
  BY DEF Blake2bInv, Update, Streaming, Compressed
<1> QED
  BY <1>1, <1>2 DEF Blake2bInv

\* The first block of a buffer that is full is the one after those compressed.
LEMMA FirstBlock ==
    ASSUME Streaming, NEW b, \A j \in 1..Block : b[j] = Len(h) * Block + j, Len(h) \in Nat
    PROVE  Compression(b, Count((Len(h) + 1) * Block), FALSE) = FullBlock(Len(h) + 1)
<1>1. (Len(h) + 1) - 1 = Len(h)
  OBVIOUS
<1>2. [j \in 1..Block |-> b[j]] = [j \in 1..Block |-> ((Len(h) + 1) - 1) * Block + j]
  BY <1>1
<1> QED
  BY <1>2 DEF Compression, FullBlock

LEMMA StepOfFill ==
    ASSUME Blake2bInv, Fill
    PROVE  Blake2bInv'
<1> DEFINE fill == Room - buflen
           full == Copied(buflen, fill)
           c == Len(h)
<1>1. /\ state = "update" /\ inlen > fill /\ buf' = Shifted(full) /\ buflen' = Room - Block
      /\ t' = Counted(Block) /\ h' = Append(h, Compression(full, Counted(Block), f0))
      /\ taken' = taken + fill /\ inlen' = inlen - fill
      /\ UNCHANGED <<f0, state, digests>>
  BY DEF Fill
<1>2. /\ TypeOK /\ buflen \in 0..Room /\ taken \in Nat /\ inlen \in Nat
      /\ taken + inlen <= MaxInput /\ fill \in 0..Room /\ MaxInput \in Nat
  BY Positive DEF Blake2bInv, TypeOK
<1>3. fill \in 0..MaxInput /\ taken + fill <= MaxInput
  BY <1>1, <1>2, Positive
<1>4. /\ full \in [1..Room -> 0..MaxInput]
      /\ \A j \in 1..Room : buflen < j /\ j <= buflen + fill => full[j] = taken + j - buflen
      /\ \A j \in 1..Room : j <= buflen => full[j] = buf[j]
  BY <1>2, <1>3, CopiedType
<1> HIDE DEF full
<1>5. TypeOK'
  <2>1. buf' \in [1..Room -> 0..MaxInput]
    BY <1>1, <1>4, ShiftedType
  <2>2. t' \in (0..Word - 1) \X Nat
    BY <1>1, <1>2, Positive, CountedType
  <2>3. buflen' \in 0..Room
    BY <1>1, Positive
  <2>4. taken' \in 0..MaxInput /\ inlen' \in 0..MaxInput /\ taken' + inlen' <= MaxInput
    BY <1>1, <1>2, <1>3, Positive
  <2> QED
    BY <1>1, <2>1, <2>2, <2>3, <2>4 DEF Blake2bInv, TypeOK
<1>6. ASSUME ~f0' PROVE Streaming'
  <2>1. Streaming /\ ~f0 /\ f0 = FALSE
    BY <1>1, <1>6 DEF Blake2bInv, TypeOK
  <2>2. c \in Nat /\ taken = c * Block + buflen /\ h \in Seq(Records)
    BY <2>1 DEF Streaming, Compressed
  <2>3. \A j \in 1..Room : full[j] = c * Block + j
    <3> SUFFICES ASSUME NEW j \in 1..Room PROVE full[j] = c * Block + j
      OBVIOUS
    <3>1. CASE j <= buflen
      BY <1>2, <1>4, <2>1, <3>1 DEF Streaming
    <3>2. CASE j > buflen
      BY <1>2, <1>4, <2>2, <3>2, Positive
    <3> QED
      BY <1>2, <3>1, <3>2
  <2>4. Counted(Block) = Count((c + 1) * Block)
    <3>1. c * Block \in Nat /\ c * Block + Block = (c + 1) * Block /\ Block \in 0..Block
      BY <2>2, Positive
    <3>2. Counted(Block) = Count(c * Block + Block)
      BY <2>1, <3>1, CountedBy DEF Streaming
    <3> QED
      BY <3>1, <3>2
  <2>5. \A j \in 1..Block : full[j] = c * Block + j
    BY <2>3, Positive
  <2>6. Compression(full, Counted(Block), f0) = FullBlock(c + 1)
    BY <2>1, <2>2, <2>4, <2>5, FirstBlock
  <2>7. Compressed(h') /\ Len(h') = c + 1
    BY <1>1, <2>1, <2>6, CompressedNext DEF Streaming
  <2>8. taken' = Len(h') * Block + buflen' /\ buflen' = Block
    BY <1>1, <1>2, <2>2, <2>7, Positive
  <2>9. \A j \in 1..buflen' : buf'[j] = Len(h') * Block + j
    <3> SUFFICES ASSUME NEW j \in 1..Block PROVE buf'[j] = (c + 1) * Block + j
      BY <2>7, <2>8
    <3>1. j + Block \in 1..Room
      BY Positive
    <3>2. Shifted(full)[j] = full[j + Block]
      BY <1>4, ShiftedType
    <3>3. buf'[j] = c * Block + (j + Block)
      BY <1>1, <2>3, <3>1, <3>2
    <3> QED
      BY <2>2, <3>3, Positive
  <2> QED
    BY <1>1, <2>1, <2>4, <2>7, <2>8, <2>9, Positive DEF Streaming
<1> QED
  BY <1>5, <1>6 DEF Blake2bInv

LEMMA StepOfKeep ==
    ASSUME Blake2bInv, Keep
    PROVE  Blake2bInv'
<1>1. /\ state = "update" /\ inlen <= Room - buflen /\ buf' = Copied(buflen, inlen)
      /\ buflen' = buflen + inlen /\ taken' = taken + inlen /\ inlen' = 0 /\ state' = "ready"
      /\ UNCHANGED <<t, f0, h, digests>>
  BY DEF Keep
<1>2. /\ TypeOK /\ buflen \in 0..Room /\ taken \in Nat /\ inlen \in 0..MaxInput
      /\ inlen \in Nat /\ taken + inlen <= MaxInput /\ MaxInput \in Nat /\ Room \in Nat
  BY Positive DEF Blake2bInv, TypeOK
<1>3. /\ buf' \in [1..Room -> 0..MaxInput]
      /\ \A j \in 1..Room : buflen < j /\ j <= buflen + inlen => buf'[j] = taken + j - buflen
      /\ \A j \in 1..Room : j <= buflen => buf'[j] = buf[j]
  BY <1>1, <1>2, CopiedType
<1>4. buflen' \in 0..Room /\ taken' \in 0..MaxInput
  BY <1>1, <1>2
<1>5. TypeOK'
  BY <1>1, <1>2, <1>3, <1>4 DEF TypeOK
<1>6. ASSUME ~f0' PROVE Streaming'
  <2>1. Streaming /\ Len(h) \in Nat
    BY <1>1, <1>6 DEF Blake2bInv, Streaming, Compressed
  <2>2. \A j \in 1..buflen' : buf'[j] = Len(h) * Block + j
    <3> SUFFICES ASSUME NEW j \in 1..buflen' PROVE buf'[j] = Len(h) * Block + j
      OBVIOUS
    <3>1. CASE j <= buflen
      <4>1. j \in 1..buflen /\ j \in 1..Room
        BY <1>2, <1>4, <3>1
      <4> QED
        BY <1>3, <2>1, <4>1 DEF Streaming
    <3>2. CASE j > buflen
      <4>1. j \in 1..Room /\ j <= buflen + inlen
        BY <1>1, <1>2, <1>4, <3>2
      <4>2. buf'[j] = taken + j - buflen
        BY <1>3, <3>2, <4>1
      <4>3. taken = Len(h) * Block + buflen /\ Len(h) * Block \in Nat
        BY <2>1, Positive DEF Streaming
      <4> QED
        BY <1>2, <4>1, <4>2, <4>3
    <3> QED
      BY <1>2, <3>1, <3>2
  <2>3. taken' = Len(h) * Block + buflen' /\ (Len(h) > 0 => buflen' >= Block)
    BY <1>1, <1>2, <2>1, Positive DEF Streaming
  <2> QED
    BY <1>1, <2>1, <2>2, <2>3 DEF Streaming, Compressed
<1> QED
  BY <1>5, <1>6 DEF Blake2bInv

\* The buffer, padded, is the last block; what was taken is counted.
LEMMA StepOfFinalOne ==
    ASSUME Blake2bInv, FinalOne
    PROVE  Blake2bInv' /\ digests' = <<Blocks(taken)>>
<1> DEFINE c == Len(h)
           padded == [j \in 1..Room |-> IF j <= buflen THEN buf[j] ELSE Zero]
           done == Append(h, Compression(padded, Counted(buflen), TRUE))
<1>1. /\ state = "ready" /\ ~f0 /\ buflen <= Block /\ digests' = Append(digests, done)
      /\ h' = <<>> /\ buf' = [j \in 1..Room |-> Zero] /\ buflen' = buflen
      /\ t' = Counted(buflen) /\ f0' = TRUE /\ UNCHANGED <<taken, inlen, state>>
  BY DEF FinalOne, FinalBlock
<1>2. TypeOK /\ Streaming /\ buflen \in 0..Block /\ buflen \in 0..Room /\ c \in Nat
  <2>1. TypeOK /\ Streaming
    BY <1>1 DEF Blake2bInv
  <2>2. buflen \in 0..Room
    BY <2>1 DEF TypeOK
  <2>3. c \in Nat
    BY <2>1 DEF Streaming, Compressed
  <2> QED
    BY <1>1, <2>1, <2>2, <2>3, Positive
<1>3. /\ taken = c * Block + buflen /\ c * Block \in Nat /\ (buflen = 0 => c = 0)
      /\ \A j \in 1..buflen : buf[j] = c * Block + j
  BY <1>2, Positive DEF Streaming
<1>4. TypeOK'
  <2>1. buf' \in [1..Room -> 0..MaxInput]
    BY <1>1, Positive DEF Zero
  <2>2. t' \in (0..Word - 1) \X Nat
    BY <1>1, <1>2, CountedType
  <2> QED
    BY <1>1, <1>2, <2>1, <2>2 DEF TypeOK
<1>5. Counted(buflen) = Count(taken)
  <2>1. t = Count(c * Block)
    BY <1>2 DEF Streaming
  <2>2. Counted(buflen) = Count(c * Block + buflen)
    BY <1>2, <1>3, <2>1, CountedBy
  <2> QED
    BY <1>3, <2>2
<1>6. done = Blocks(taken)
  <2>1. Compressed(h)
    BY <1>2 DEF Streaming
  <2> HIDE DEF padded
  <2>2. padded = [j \in 1..Room |-> IF j <= buflen THEN buf[j] ELSE Zero]
    BY DEF padded
  <2>3. Append(h, Compression(padded, Count(taken), TRUE)) = Blocks(taken)
    BY <1>2, <1>3, <2>1, <2>2, CompressedAll
  <2> QED
    BY <1>5, <2>3
<1>7. digests' = <<done>>
  BY <1>1, <1>2 DEF Streaming
<1> QED
  BY <1>1, <1>4, <1>6, <1>7 DEF Blake2bInv

\* The first of two blocks is compressed as one of those before the last.
LEMMA StepOfFinalTwo ==
    ASSUME Blake2bInv, FinalTwo
    PROVE  Blake2bInv' /\ digests' = <<Blocks(taken)>>
<1> DEFINE c == Len(h)
           k == buflen - Block
           mid == Counted(Block)
           low == (mid[1] + k) % Word
           count == <<low, IF low < k THEN mid[2] + 1 ELSE mid[2]>>
           rest == Shifted(buf)
           more == Append(h, Compression(buf, mid, FALSE))
           padded == [j \in 1..Room |-> IF j <= k THEN rest[j] ELSE Zero]
           done == Append(more, Compression(padded, count, TRUE))
<1>1. /\ state = "ready" /\ ~f0 /\ buflen > Block /\ digests' = Append(digests, done)
      /\ h' = <<>> /\ buf' = [j \in 1..Room |-> Zero] /\ buflen' = k
      /\ t' = count /\ f0' = TRUE /\ UNCHANGED <<taken, inlen, state>>
  BY DEF FinalTwo, FinalBlock
<1>2. /\ TypeOK /\ Streaming /\ buflen \in 0..Room /\ k \in 1..Block /\ c \in Nat
      /\ buf \in [1..Room -> 0..MaxInput]
  <2>1. TypeOK /\ Streaming
    BY <1>1 DEF Blake2bInv
  <2>2. buflen \in 0..Room /\ buf \in [1..Room -> 0..MaxInput]
    BY <2>1 DEF TypeOK
  <2>3. c \in Nat
    BY <2>1 DEF Streaming, Compressed
  <2>4. k \in 1..Block
    BY <1>1, <2>2, Positive
  <2> QED
    BY <2>1, <2>2, <2>3, <2>4
<1>3. /\ taken = c * Block + buflen /\ c * Block \in Nat /\ (c + 1) * Block \in Nat
      /\ c * Block + Block = (c + 1) * Block /\ taken = (c + 1) * Block + k
      /\ \A j \in 1..buflen : buf[j] = c * Block + j
  BY <1>2, Positive DEF Streaming
<1>4. mid = Count((c + 1) * Block)
  <2>1. Block \in 0..Block
    BY Positive
  <2>2. mid = Count(c * Block + Block)
    BY <1>2, <1>3, <2>1, CountedBy DEF Streaming
  <2> QED
    BY <1>3, <2>2
<1>5. count = Count(taken) /\ taken \in Nat
  <2> DEFINE n == (c + 1) * Block
  <2>1. mid[1] = n % Word /\ mid[2] = n \div Word
    BY <1>4 DEF Count
  <2>2. low = ((n % Word) + k) % Word
    BY <2>1
  <2>4. n \in Nat /\ k \in 0..Block /\ taken = n + k
    BY <1>2, <1>3
  <2> HIDE DEF n, low, k
  <2>3. <<low, IF low < k THEN (n \div Word) + 1 ELSE n \div Word>> = Count(taken)
    BY <2>2, <2>4, CountedIsCount
  <2> QED
    BY <1>2, <2>1, <2>3, <2>4
<1>6. Compressed(more) /\ Len(more) = c + 1
  <2>1. \A j \in 1..Block : buf[j] = c * Block + j
    <3>1. \A j \in 1..Block : j \in 1..buflen
      BY <1>1, <1>2, Positive
    <3> QED
      BY <1>3, <3>1
  <2>2. Compression(buf, mid, FALSE) = FullBlock(c + 1)
    BY <1>2, <1>4, <2>1, FirstBlock
  <2> QED
    BY <1>2, <2>2, CompressedNext DEF Streaming
<1>7. \A j \in 1..k : rest[j] = (c + 1) * Block + j
  <2> SUFFICES ASSUME NEW j \in 1..k PROVE rest[j] = (c + 1) * Block + j
    OBVIOUS
  <2>1. j \in 1..Block /\ j + Block \in 1..buflen
    BY <1>2, Positive
  <2>2. rest[j] = buf[j + Block]
    BY <1>2, <2>1, ShiftedType
  <2>3. buf[j + Block] = c * Block + (j + Block)
    BY <1>3, <2>1
  <2> QED
    BY <1>2, <1>3, <2>1, <2>2, <2>3, Positive
<1>8. TypeOK'
  <2>1. buf' \in [1..Room -> 0..MaxInput]
    BY <1>1, Positive DEF Zero
  <2>2. t' \in (0..Word - 1) \X Nat
    BY <1>1, <1>5, CountType
  <2>3. buflen' \in 0..Room
    BY <1>1, <1>2, Positive
  <2> QED
    BY <1>1, <1>2, <2>1, <2>2, <2>3 DEF TypeOK
<1>9. done = Blocks(taken)
  <2> HIDE DEF padded, more, rest, k, count
  <2>1. padded = [j \in 1..Room |-> IF j <= k THEN rest[j] ELSE Zero]
    BY DEF padded
  <2>2. k \in 0..Block /\ k # 0 /\ taken = Len(more) * Block + k
    BY <1>2, <1>3, <1>6
  <2>3. \A j \in 1..k : rest[j] = Len(more) * Block + j
    BY <1>6, <1>7
  <2>4. Compressed(more)
    BY <1>6
  <2>5. Append(more, Compression(padded, Count(taken), TRUE)) = Blocks(taken)
    BY <2>1, <2>2, <2>3, <2>4, CompressedAll
  <2> QED
    BY <1>5, <2>5
<1>10. digests' = <<done>>
  BY <1>1, <1>2 DEF Streaming
<1> QED
  BY <1>1, <1>8, <1>9, <1>10 DEF Blake2bInv

LEMMA Blake2bInvInit == Init => Blake2bInv
<1> SUFFICES ASSUME Init PROVE Blake2bInv
  OBVIOUS
<1>1. /\ buf = [j \in 1..Room |-> Zero] /\ buflen = 0 /\ t = <<0, 0>> /\ f0 = FALSE
      /\ h = <<>> /\ taken = 0 /\ inlen = 0 /\ state = "none" /\ digests = <<>>
  BY DEF Init
<1>2. TypeOK
  <2>1. buf \in [1..Room -> 0..MaxInput]
    BY <1>1, Positive DEF Zero
  <2>2. t \in (0..Word - 1) \X Nat
    BY <1>1, Positive
  <2>3. buflen \in 0..Room /\ taken \in 0..MaxInput /\ inlen \in 0..MaxInput
        /\ taken + inlen <= MaxInput
    BY <1>1, Positive
  <2> QED
    BY <1>1, <2>1, <2>2, <2>3 DEF TypeOK
<1>3. Streaming
  BY <1>1, Positive DEF Streaming, Compressed, Count
<1> QED
  BY <1>2, <1>3 DEF Blake2bInv

LEMMA Blake2bInvStep ==
    ASSUME Blake2bInv, [Next]_vars
    PROVE  /\ Blake2bInv'
           /\ digests' # digests => digests' = <<>> \/ digests' = <<Blocks(taken)>>
<1>1. CASE InitUnkeyed
  <2>1. TypeOK /\ Start /\ state' = "ready" /\ inlen' = 0 /\ digests' = <<>>
    BY <1>1 DEF InitUnkeyed, Start, Blake2bInv
  <2> QED
    BY <2>1, StartType, Positive
<1>2. CASE InitKey
  <2>1. TypeOK /\ Start /\ state' = "update" /\ inlen' = Block /\ digests' = <<>>
        /\ Block <= MaxInput
    BY <1>2 DEF InitKey, Start, Blake2bInv
  <2> QED
    BY <2>1, StartType, Positive
<1>3. ASSUME NEW n \in 0..MaxInput, Update(n) PROVE Blake2bInv' /\ digests' = digests
  BY <1>3, StepOfUpdate DEF Update
<1>4. CASE Fill
  BY <1>4, StepOfFill DEF Fill
<1>5. CASE Keep
  BY <1>5, StepOfKeep DEF Keep
<1>6. CASE FinalOne
  BY <1>6, StepOfFinalOne
<1>7. CASE FinalTwo
  BY <1>7, StepOfFinalTwo
<1>8. CASE UNCHANGED vars
  BY <1>8 DEF vars, Blake2bInv, TypeOK, Streaming, Compressed
<1> QED
  BY <1>1, <1>2, <1>3, <1>4, <1>5, <1>6, <1>7, <1>8 DEF Next, FinalAgain

\* Every variable has its type: in particular no turn of the loop and no digest leaves
\* more in the buffer than its two blocks hold.
THEOREM Blake2bTypeCorrect == Spec => []TypeOK
<1>1. Blake2bInv => TypeOK
  BY DEF Blake2bInv
<1>2. Blake2bInv /\ [Next]_vars => Blake2bInv'
  BY Blake2bInvStep
<1> QED
  BY <1>1, <1>2, Blake2bInvInit, PTL DEF Spec

\* A digest of BLAKE2b is of every block of the input once and in order, the last one
\* padded and flagged, the bytes counted through a carry, in whatever pieces the input
\* came; and a state makes one digest.
THEOREM DigestIsOfInputTheorem == Spec => DigestIsOfInput
<1>1. Blake2bInv /\ [Next]_vars => Blake2bInv'
  BY Blake2bInvStep
<1>2. Blake2bInv /\ [Next]_vars =>
        [digests' # digests => digests' = <<>> \/ digests' = <<Blocks(taken)>>]_vars
  BY Blake2bInvStep
<1> QED
  BY <1>1, <1>2, Blake2bInvInit, PTL DEF Spec, DigestIsOfInput

-----------------------------------------------------------------------------
\* SHA-2.  Its constants and variables have names of their own here.

CONSTANTS SWords, SBlock, SLengthAt, SBits, SWord, SMaxInput

VARIABLES words, sbuf, scount, sh, staken, sstate, sdigest

INSTANCE Sha2Stream
    WITH Words <- SWords, Block <- SBlock, LengthAt <- SLengthAt, Bits <- SBits, Word <- SWord,
         MaxInput <- SMaxInput, buf <- sbuf, count <- scount, h <- sh, taken <- staken,
         state <- sstate, digest <- sdigest

\* The words of the counter after n bytes.
LengthOf(n) == <<(n * SBits) % SWord, IF words = 2 THEN (n * SBits) \div SWord ELSE 0>>

\* Block k of the input.
InputBlock(k) == [j \in 1..SBlock |-> (k - 1) * SBlock + j]

SRecords ==
    [bytes : [1..SBlock -> Int] \cup [1..SLengthAt -> Int],
     length : {<<>>} \cup (Nat \X Nat)]

\* hashes are the first c blocks of the input.
Hashed(hashes, c) ==
    /\ hashes \in Seq(SRecords) /\ Len(hashes) = c
    /\ \A k \in 1..c : hashes[k] = Whole(InputBlock(k))

\* A state between init and final: of what was taken the whole blocks were compressed, the
\* rest is at the start of the buffer, and all of it is counted.
Hashing ==
    /\ scount = LengthOf(staken)
    /\ Hashed(sh, staken \div SBlock)
    /\ \A j \in 1..(staken % SBlock) : sbuf[j] = (staken \div SBlock) * SBlock + j
    /\ sdigest = <<>>

Sha2Inv ==
    /\ Sha2TypeOK
    /\ sstate = "ready" => Hashing
    /\ sstate = "wiped" => sdigest = <<>> \/ sdigest = Padded(staken)

LEMMA SPositive ==
    ASSUME Sha2Parameters
    PROVE  /\ SBlock \in Nat \ {0} /\ SBits \in Nat \ {0} /\ SWord \in Nat \ {0}
           /\ SLengthAt \in Nat /\ 1 <= SLengthAt /\ SLengthAt < SBlock
           /\ SMaxInput \in Nat /\ SWords \subseteq {1, 2}
           /\ SBits * SBlock \in Nat \ {0} /\ SWord % (SBits * SBlock) = 0
  BY DEF Sha2Parameters

LEMMA LengthType ==
    ASSUME Sha2Parameters, NEW n \in Nat
    PROVE  LengthOf(n) \in (0..SWord - 1) \X Nat
<1> DEFINE a == n * SBits
<1>1. a \in Nat
  BY SPositive
<1> HIDE DEF a
<1>2. a % SWord \in 0..SWord - 1 /\ a \div SWord \in Nat
  BY <1>1, SPositive, Divided
<1> QED
  BY <1>2 DEF LengthOf, a

\* The counter does not wrap within a block: its low word tells how much is buffered.
LEMMA BufferedIs ==
    ASSUME Sha2Parameters, staken \in Nat, scount = LengthOf(staken)
    PROVE  Buffered = staken % SBlock
<1> DEFINE a == staken * SBits
           x == a % SWord
           q == a \div SWord
           m == SWord \div (SBits * SBlock)
           z == q * m
           y == staken - z * SBlock
<1>1. a \in Nat /\ SBits \in Nat \ {0} /\ SBlock \in Nat \ {0} /\ SWord \in Nat \ {0}
  BY SPositive
<1>2. x \in 0..SWord - 1 /\ q \in Nat /\ a = q * SWord + x
  <2> HIDE DEF a
  <2> QED
    BY <1>1, Divided
<1>3. m \in Nat /\ SWord = m * (SBits * SBlock)
  <2> DEFINE d == SBits * SBlock
  <2>1. d \in Nat \ {0} /\ SWord % d = 0
    BY SPositive
  <2> HIDE DEF d
  <2>2. SWord \div d \in Nat /\ SWord = (SWord \div d) * d + 0
    BY <1>1, <2>1, Divided
  <2> QED
    BY <1>1, <2>1, <2>2 DEF d
<1>4. scount[1] = x
  BY DEF LengthOf
<1>5. a = staken * SBits
  OBVIOUS
<1> HIDE DEF a, x, q, m
<1>6. z \in Nat
  BY <1>2, <1>3
<1>7. q * SWord = (z * SBlock) * SBits
  BY <1>1, <1>2, <1>3
<1>8. x = y * SBits /\ y \in Int
  <2> HIDE DEF z
  <2>1. z * SBlock \in Nat
    BY <1>1, <1>6
  <2> DEFINE w == z * SBlock
  <2>2. w \in Nat /\ a = w * SBits + x /\ y = staken - w
    BY <1>2, <1>7, <2>1
  <2> HIDE DEF w
  <2>3. (staken - w) * SBits = staken * SBits - w * SBits
    BY <1>1, <2>2
  <2> QED
    BY <1>1, <1>2, <1>5, <2>2, <2>3
<1>9. staken = z * SBlock + y
  BY <1>1, <1>6
<1> HIDE DEF y, z
<1>10. y >= 0
  BY <1>1, <1>2, <1>8
<1>11. x = y * SBits + 0 /\ y \in Nat /\ 0 \in 0..SBits - 1
  BY <1>1, <1>8, <1>10
<1>12. x \div SBits = y
  BY <1>1, <1>11, Division
<1>13. y % SBlock \in 0..SBlock - 1 /\ y \div SBlock \in Nat
       /\ y = (y \div SBlock) * SBlock + (y % SBlock)
  BY <1>1, <1>11, Divided
<1>14. staken % SBlock = y % SBlock
  <2> DEFINE u == y \div SBlock
             v == y % SBlock
             n == z + u
  <2>1. v \in 0..SBlock - 1 /\ u \in Nat /\ y = u * SBlock + v /\ n \in Nat
    BY <1>6, <1>13
  <2> HIDE DEF u, v
  <2>2. staken = n * SBlock + v
    BY <1>1, <1>6, <1>9, <2>1
  <2> HIDE DEF n
  <2>3. staken % SBlock = v
    BY <1>1, <2>1, <2>2, Division
  <2> QED
    BY <2>3 DEF v
<1> QED
  BY <1>4, <1>12, <1>14 DEF Buffered

LEMMA SCounted ==
    ASSUME Sha2Parameters, staken \in Nat, NEW n \in Nat, scount = LengthOf(staken)
    PROVE  BitsCounted(n) = LengthOf(staken + n)
<1> DEFINE a == staken * SBits
           b == n * SBits
           added == b % SWord
           low == (scount[1] + added) % SWord
           carry == IF low < added THEN 1 ELSE 0
<1>1. a \in Nat /\ b \in Nat /\ a + b = (staken + n) * SBits
  BY SPositive
<1>2. scount[1] = a % SWord /\ (words = 2 => scount[2] = a \div SWord)
  BY DEF LengthOf
<1>3. low = ((a % SWord) + (b % SWord)) % SWord
  BY <1>2
<1>4. /\ low = (a + b) % SWord
      /\ (a + b) \div SWord = (a \div SWord) + (b \div SWord) + carry
  <2>1. SWord \in Nat \ {0} /\ LowOfSum(low, a, b, SWord)
    BY <1>3, SPositive DEF LowOfSum
  <2>2. a \in Nat /\ b \in Nat
    BY <1>1
  <2> HIDE DEF a, b, low
  <2>3. CarriesIn(low, a, b, SWord)
    BY <2>1, <2>2, CarryOf
  <2> QED
    BY <2>3 DEF CarriesIn
<1>5. (a \div SWord) \in Nat /\ (b \div SWord) \in Nat /\ carry \in Nat
  <2> HIDE DEF a, b, low
  <2>1. (a \div SWord) \in Nat /\ (b \div SWord) \in Nat
    BY <1>1, SPositive, Divided
  <2> QED
    BY <2>1
<1>6. BitsCounted(n) = <<low, IF words = 2 THEN scount[2] + carry + (b \div SWord) ELSE 0>>
  BY DEF BitsCounted
<1>7. words = 2 => scount[2] + carry + (b \div SWord) = (a + b) \div SWord
  <2> HIDE DEF a, b, carry
  <2> QED
    BY <1>2, <1>4, <1>5
<1> QED
  BY <1>1, <1>4, <1>6, <1>7 DEF LengthOf

LEMMA InputIs ==
    ASSUME NEW n \in Nat, staken \in Nat
    PROVE  /\ Input(n) \in Seq(Nat) /\ Len(Input(n)) = n
           /\ \A j \in 1..n : Input(n)[j] = staken + j
<1>1. [j \in 1..n |-> staken + j] \in [1..n -> Nat]
  OBVIOUS
<1> QED
  BY <1>1 DEF Input

Bytes == -1..SMaxInput

\* What is put into the buffer behind the first k bytes.
LEMMA OverwrittenType ==
    ASSUME Sha2Parameters, NEW b \in [1..SBlock -> Bytes], NEW k \in Nat, NEW s,
           Len(s) \in Nat, \A i \in 1..Len(s) : s[i] \in Bytes
    PROVE  /\ Overwritten(b, k, s) \in [1..SBlock -> Bytes]
           /\ \A j \in 1..SBlock :
                Overwritten(b, k, s)[j] =
                  IF k < j /\ j <= k + Len(s) THEN s[j - k] ELSE b[j]
<1>1. \A j \in 1..SBlock :
        (IF k < j /\ j <= k + Len(s) THEN s[j - k] ELSE b[j]) \in Bytes
  <2> SUFFICES ASSUME NEW j \in 1..SBlock, k < j /\ j <= k + Len(s) PROVE s[j - k] \in Bytes
    OBVIOUS
  <2>1. j - k \in 1..Len(s)
    BY SPositive
  <2> QED
    BY <2>1
<1> QED
  BY <1>1 DEF Overwritten

LEMMA InputBlockType ==
    ASSUME Sha2Parameters, NEW b \in [1..SBlock -> Int]
    PROVE  Whole(b) \in SRecords
  BY DEF Whole, SRecords

LEMMA StepOfInitHash ==
    ASSUME Sha2Parameters, Sha2Inv, InitHash
    PROVE  Sha2Inv'
<1>1. /\ scount' = <<0, 0>> /\ sh' = <<>> /\ sdigest' = <<>> /\ staken' = 0
      /\ sstate' = "ready" /\ UNCHANGED <<words, sbuf>>
  BY DEF InitHash
<1>2. Sha2TypeOK'
  <2>1. 0 \in 0..SWord - 1 /\ 0 \in 0..SMaxInput
    BY SPositive
  <2> QED
    BY <1>1, <2>1 DEF Sha2Inv, Sha2TypeOK
<1>3. 0 \div SBlock = 0 /\ 0 % SBlock = 0 /\ 0 * SBits = 0 /\ 0 \div SWord = 0 /\ 0 % SWord = 0
  BY SPositive
<1>4. Hashing'
  <2>1. scount' = LengthOf(staken)'
    BY <1>1, <1>3 DEF LengthOf
  <2>2. Hashed(sh', staken' \div SBlock)
    BY <1>1, <1>3 DEF Hashed
  <2>3. \A j \in 1..(staken' % SBlock) : FALSE
    BY <1>1, <1>3
  <2> QED
    BY <1>1, <2>1, <2>2, <2>3 DEF Hashing, Hashed
<1> QED
  BY <1>1, <1>2, <1>4 DEF Sha2Inv

\* What an update starts from.
LEMMA Updating ==
    ASSUME Sha2Parameters, Sha2Inv, sstate = "ready"
    PROVE  /\ Hashing /\ staken \in Nat /\ words \in SWords /\ sbuf \in [1..SBlock -> Bytes]
           /\ Buffered = staken % SBlock
           /\ staken \div SBlock \in Nat /\ staken % SBlock \in 0..SBlock - 1
           /\ staken = (staken \div SBlock) * SBlock + (staken % SBlock)
<1>1. /\ Hashing /\ staken \in Nat /\ words \in SWords /\ sbuf \in [1..SBlock -> Bytes]
  BY DEF Sha2Inv, Sha2TypeOK, Mark, Bytes
<1>2. Buffered = staken % SBlock
  BY <1>1, BufferedIs DEF Hashing
<1> QED
  BY <1>1, <1>2, SPositive, Divided

LEMMA StepOfUpdateShort ==
    ASSUME Sha2Parameters, Sha2Inv, NEW n \in 0..SMaxInput, UpdateShort(n)
    PROVE  Sha2Inv'
<1> DEFINE c == staken \div SBlock
           k == staken % SBlock
           all == k + n
<1>1. /\ sstate = "ready" /\ staken + n <= SMaxInput /\ staken' = staken + n
      /\ n < SBlock - Buffered /\ scount' = BitsCounted(n)
      /\ sbuf' = Overwritten(sbuf, Buffered, Input(n))
      /\ UNCHANGED <<words, sh, sstate, sdigest>>
  BY DEF UpdateShort, Taking
<1>2. /\ Hashing /\ staken \in Nat /\ words \in SWords /\ sbuf \in [1..SBlock -> Bytes]
      /\ Buffered = k /\ c \in Nat /\ k \in 0..SBlock - 1 /\ staken = c * SBlock + k
      /\ n \in Nat /\ SBlock \in Nat \ {0} /\ SMaxInput \in Nat
  BY <1>1, Updating, SPositive
<1> HIDE DEF c, k
<1>3. all \in 0..SBlock - 1 /\ staken + n = c * SBlock + all
  BY <1>1, <1>2
<1>4. staken' \div SBlock = c /\ staken' % SBlock = all
  <2>1. staken' = c * SBlock + all /\ all \in 0..SBlock - 1
    BY <1>1, <1>3
  <2> HIDE DEF all
  <2> QED
    BY <1>2, <2>1, Division
<1>5. /\ Len(Input(n)) = n
      /\ \A j \in 1..n : Input(n)[j] = staken + j
      /\ \A j \in 1..n : Input(n)[j] \in Bytes
  <2>1. /\ Len(Input(n)) = n
        /\ \A j \in 1..n : Input(n)[j] = staken + j
    BY <1>2, InputIs
  <2>2. \A j \in 1..n : staken + j \in Bytes
    BY <1>1, <1>2 DEF Bytes
  <2> QED
    BY <2>1, <2>2
<1>6. /\ sbuf' \in [1..SBlock -> Bytes]
      /\ \A j \in 1..SBlock : sbuf'[j] = IF k < j /\ j <= k + n THEN Input(n)[j - k]
                                         ELSE sbuf[j]
  <2> DEFINE s == Input(n)
  <2>1. Len(s) = n /\ Len(s) \in Nat /\ \A i \in 1..Len(s) : s[i] \in Bytes
    BY <1>2, <1>5
  <2>2. sbuf' = Overwritten(sbuf, k, s) /\ k \in Nat
    BY <1>1, <1>2
  <2> HIDE DEF s
  <2>3. /\ sbuf' \in [1..SBlock -> Bytes]
        /\ \A j \in 1..SBlock : sbuf'[j] = IF k < j /\ j <= k + Len(s) THEN s[j - k]
                                           ELSE sbuf[j]
    BY <1>2, <2>1, <2>2, OverwrittenType
  <2> QED
    BY <2>1, <2>3 DEF s
<1>7. scount' = LengthOf(staken')
  <2>1. scount = LengthOf(staken)
    BY <1>2 DEF Hashing
  <2> QED
    BY <1>1, <1>2, <2>1, SCounted
<1>8. Sha2TypeOK'
  <2>1. scount' \in (0..SWord - 1) \X Nat
    <3>1. staken' \in Nat
      BY <1>1, <1>2
    <3> QED
      BY <1>7, <3>1, LengthType
  <2>2. staken' \in 0..SMaxInput
    BY <1>1, <1>2
  <2> QED
    BY <1>1, <1>2, <1>6, <2>1, <2>2 DEF Sha2TypeOK, Mark, Bytes
<1>9. Hashing'
  <2>1. \A j \in 1..all : sbuf'[j] = c * SBlock + j
    <3> SUFFICES ASSUME NEW j \in 1..all PROVE sbuf'[j] = c * SBlock + j
      OBVIOUS
    <3>1. j \in 1..SBlock /\ j <= k + n
      BY <1>2, <1>3
    <3>2. CASE j <= k
      <4>1. sbuf'[j] = sbuf[j] /\ j \in 1..k
        BY <1>2, <1>6, <3>1, <3>2
      <4> QED
        BY <1>2, <4>1 DEF Hashing, c, k
    <3>3. CASE j > k
      <4>1. j - k \in 1..n
        BY <1>2, <3>1, <3>3
      <4>2. sbuf'[j] = staken + (j - k)
        BY <1>5, <1>6, <3>1, <3>3, <4>1
      <4>3. c * SBlock \in Nat
        BY <1>2
      <4> QED
        BY <1>2, <3>1, <4>2, <4>3
    <3> QED
      BY <1>2, <3>1, <3>2, <3>3
  <2>2. Hashed(sh', c)
    BY <1>1, <1>2 DEF Hashing, c
  <2>3. scount' = LengthOf(staken)'
    BY <1>1, <1>7 DEF LengthOf
  <2> HIDE DEF all
  <2> QED
    BY <1>1, <1>2, <1>4, <2>1, <2>2, <2>3 DEF Hashing, Hashed
<1> QED
  BY <1>1, <1>8, <1>9 DEF Sha2Inv

\* One more block.
LEMMA HashedNext ==
    ASSUME Sha2Parameters, NEW hashes, NEW c \in Nat, Hashed(hashes, c),
           NEW more, more = Whole(InputBlock(c + 1))
    PROVE  /\ hashes \o <<more>> = Append(hashes, more)
           /\ Hashed(Append(hashes, more), c + 1)
<1>1. InputBlock(c + 1) \in [1..SBlock -> Int]
  BY SPositive DEF InputBlock
<1>2. more \in SRecords
  BY <1>1, InputBlockType
<1>3. hashes \in Seq(SRecords) /\ Len(hashes) = c
  BY DEF Hashed
<1>4. /\ Append(hashes, more) \in Seq(SRecords) /\ Len(Append(hashes, more)) = c + 1
      /\ \A i \in 1..c + 1 : Append(hashes, more)[i] = IF i <= c THEN hashes[i] ELSE more
  BY <1>2, <1>3
<1>5. hashes \o <<more>> = Append(hashes, more)
  BY <1>2, <1>3
<1>6. \A i \in 1..c + 1 : Append(hashes, more)[i] = Whole(InputBlock(i))
  <2> SUFFICES ASSUME NEW i \in 1..c + 1
               PROVE  Append(hashes, more)[i] = Whole(InputBlock(i))
    OBVIOUS
  <2>1. CASE i <= c
    BY <1>4, <2>1 DEF Hashed
  <2>2. CASE i = c + 1
    BY <1>4, <2>2
  <2>3. i <= c \/ i = c + 1
    OBVIOUS
  <2> QED
    BY <2>1, <2>2, <2>3
<1> QED
  BY <1>4, <1>5, <1>6 DEF Hashed

LEMMA HashedMore ==
    ASSUME Sha2Parameters, NEW hashes, NEW c \in Nat, Hashed(hashes, c), NEW m \in Nat,
           NEW more, more \in [1..m -> SRecords],
           \A i \in 1..m : more[i] = Whole(InputBlock(c + i))
    PROVE  Hashed(hashes \o more, c + m)
<1>1. hashes \in Seq(SRecords) /\ Len(hashes) = c
  BY DEF Hashed
<1>2. more \in Seq(SRecords) /\ Len(more) = m
  OBVIOUS
<1>3. /\ hashes \o more \in Seq(SRecords) /\ Len(hashes \o more) = c + m
      /\ \A i \in 1..c + m : (hashes \o more)[i] = IF i <= c THEN hashes[i] ELSE more[i - c]
  BY <1>1, <1>2, ConcatProperties
<1>4. ASSUME NEW i \in 1..c + m PROVE (hashes \o more)[i] = Whole(InputBlock(i))
  <2>1. CASE i <= c
    BY <1>3, <2>1 DEF Hashed
  <2>2. CASE i > c
    <3>1. i - c \in 1..m /\ c + (i - c) = i
      BY <2>2
    <3> QED
      BY <1>3, <2>2, <3>1
  <2>3. i <= c \/ i > c
    OBVIOUS
  <2> QED
    BY <2>1, <2>2, <2>3
<1> QED
  BY <1>3, <1>4 DEF Hashed

LEMMA StepOfUpdateLong ==
    ASSUME Sha2Parameters, Sha2Inv, NEW n \in 0..SMaxInput, UpdateLong(n)
    PROVE  Sha2Inv'
<1> DEFINE c == staken \div SBlock
           k == staken % SBlock
           fill == SBlock - Buffered
           first == Overwritten(sbuf, Buffered, Input(fill))
           more == (n - fill) \div SBlock
           r == (n - fill) % SBlock
           input == Input(n)
           block(i) == [j \in 1..SBlock |-> input[fill + (i - 1) * SBlock + j]]
           blocks == [i \in 1..more |-> Whole(block(i))]
           rest == SubSeq(input, fill + more * SBlock + 1, n)
<1>1. /\ sstate = "ready" /\ staken + n <= SMaxInput /\ staken' = staken + n
      /\ n >= fill /\ scount' = BitsCounted(n)
      /\ sh' = sh \o <<Whole(first)>> \o blocks
      /\ sbuf' = Overwritten(first, 0, rest)
      /\ UNCHANGED <<words, sstate, sdigest>>
  BY DEF UpdateLong, Taking
<1>2. /\ Hashing /\ staken \in Nat /\ words \in SWords /\ sbuf \in [1..SBlock -> Bytes]
      /\ Buffered = k /\ c \in Nat /\ k \in 0..SBlock - 1 /\ staken = c * SBlock + k
      /\ n \in Nat /\ SBlock \in Nat \ {0} /\ SMaxInput \in Nat
  BY <1>1, Updating, SPositive
<1>3. fill = SBlock - k /\ fill \in Nat \ {0} /\ first = Overwritten(sbuf, k, Input(fill))
  BY <1>2
<1>4. more \in Nat /\ r \in 0..SBlock - 1 /\ n - fill = more * SBlock + r
  <2> DEFINE a == n - fill
  <2>1. a \in Nat
    BY <1>1, <1>2, <1>3
  <2> HIDE DEF a
  <2>2. /\ a \div SBlock \in Nat /\ a % SBlock \in 0..SBlock - 1
        /\ a = (a \div SBlock) * SBlock + (a % SBlock)
    BY <1>2, <2>1, Divided
  <2> QED
    BY <2>2 DEF a
<1>5. /\ Len(input) = n
      /\ \A j \in 1..n : input[j] = staken + j
      /\ \A j \in 1..n : input[j] \in Bytes
  <2>1. Len(input) = n /\ \A j \in 1..n : input[j] = staken + j
    BY <1>2, InputIs
  <2>2. \A j \in 1..n : staken + j \in Bytes
    BY <1>1, <1>2 DEF Bytes
  <2> QED
    BY <2>1, <2>2
<1> HIDE DEF c, k, more, r, fill, input
<1>6. /\ first \in [1..SBlock -> Bytes]
      /\ \A j \in 1..SBlock : first[j] = c * SBlock + j
  <2> DEFINE s == Input(fill)
  <2>1. Len(s) = fill /\ \A j \in 1..fill : s[j] = staken + j
    BY <1>2, <1>3, InputIs
  <2>2. \A j \in 1..fill : staken + j \in Bytes
    BY <1>1, <1>2, <1>3 DEF Bytes
  <2>3. Len(s) \in Nat /\ \A i \in 1..Len(s) : s[i] \in Bytes
    BY <1>3, <2>1, <2>2
  <2>4. first = Overwritten(sbuf, k, s) /\ k \in Nat
    BY <1>2, <1>3
  <2> HIDE DEF s, first
  <2>5. /\ first \in [1..SBlock -> Bytes]
        /\ \A j \in 1..SBlock :
             first[j] = IF k < j /\ j <= k + Len(s) THEN s[j - k] ELSE sbuf[j]
    BY <1>2, <2>3, <2>4, OverwrittenType
  <2>6. ASSUME NEW j \in 1..SBlock PROVE first[j] = c * SBlock + j
    <3>1. CASE j <= k
      <4>1. first[j] = sbuf[j] /\ j \in 1..k
        BY <1>2, <2>5, <3>1
      <4> QED
        BY <1>2, <4>1 DEF Hashing, c, k
    <3>2. CASE j > k
      <4>1. j - k \in 1..fill /\ j <= k + fill
        BY <1>2, <1>3, <3>2
      <4>2. first[j] = staken + (j - k)
        BY <2>1, <2>5, <3>2, <4>1
      <4>3. c * SBlock \in Nat
        BY <1>2
      <4> QED
        BY <1>2, <4>2, <4>3
    <3> QED
      BY <1>2, <3>1, <3>2
  <2> QED
    BY <2>5, <2>6
<1> HIDE DEF first
<1>7. c * SBlock \in Nat /\ more * SBlock \in Nat /\ staken + fill = (c + 1) * SBlock
  BY <1>2, <1>3, <1>4
<1> DEFINE last == (c + 1) + more
<1>8. /\ staken' = last * SBlock + r /\ last \in Nat
      /\ staken + fill + more * SBlock = last * SBlock
  <2>1. last * SBlock = (c + 1) * SBlock + more * SBlock
    BY <1>2, <1>4, Distributes
  <2>2. last * SBlock \in Nat /\ last \in Nat
    BY <1>2, <1>4
  <2> DEFINE all == last * SBlock
             front == (c + 1) * SBlock
             mid == more * SBlock
  <2>3. all = front + mid /\ all \in Nat /\ mid \in Nat /\ r \in Nat /\ fill \in Nat
        /\ staken \in Nat /\ staken + fill = front /\ n - fill = mid + r /\ n \in Nat
        /\ staken' = staken + n
    BY <1>1, <1>2, <1>3, <1>4, <1>7, <2>1, <2>2
  <2> HIDE DEF last, all, front, mid
  <2>4. staken' = all + r /\ (staken + fill) + mid = all
    BY <2>3
  <2> QED
    BY <2>2, <2>4 DEF all, mid
<1>9. staken' \div SBlock = last /\ staken' % SBlock = r
  <2>1. staken' = last * SBlock + r /\ last \in Nat /\ r \in 0..SBlock - 1
    BY <1>4, <1>8
  <2> HIDE DEF last
  <2> QED
    BY <1>2, <2>1, Division
<1>10. scount' = LengthOf(staken')
  <2>1. scount = LengthOf(staken)
    BY <1>2 DEF Hashing
  <2> QED
    BY <1>1, <1>2, <2>1, SCounted
<1>11. Hashed(sh', last)
  <2>1. first = InputBlock(c + 1)
    <3>1. (c + 1) - 1 = c
      BY <1>2
    <3>2. first = [j \in 1..SBlock |-> first[j]]
      BY <1>6
    <3> QED
      BY <1>6, <3>1, <3>2 DEF InputBlock
  <2>2. /\ sh \o <<Whole(first)>> = Append(sh, Whole(first))
        /\ Hashed(Append(sh, Whole(first)), c + 1)
    <3>1. Hashed(sh, c)
      BY <1>2 DEF Hashing, c
    <3> QED
      BY <1>2, <2>1, <3>1, HashedNext
  <2>3. ASSUME NEW i \in 1..more
        PROVE  block(i) = InputBlock((c + 1) + i)
    <3>1. i \in Nat /\ (i - 1) * SBlock \in Nat /\ i * SBlock <= more * SBlock
          /\ i * SBlock = (i - 1) * SBlock + SBlock
      <4>1. i \in Nat /\ i <= more /\ i - 1 \in Nat
        BY <1>4
      <4> QED
        BY <1>2, <1>4, <4>1, Bounded
    <3>2. (((c + 1) + i) - 1) * SBlock = (c + 1) * SBlock + (i - 1) * SBlock
      BY <1>2, <3>1
    <3>3. ASSUME NEW j \in 1..SBlock
          PROVE  input[fill + (i - 1) * SBlock + j] = (((c + 1) + i) - 1) * SBlock + j
      <4> DEFINE at == fill + (i - 1) * SBlock + j
                 before == (i - 1) * SBlock
      <4>1. before \in Nat /\ before + SBlock <= more * SBlock /\ at = fill + before + j
        BY <3>1
      <4> HIDE DEF before, at
      <4>2. at \in 1..n
        BY <1>1, <1>2, <1>3, <1>4, <1>7, <4>1
      <4>3. input[at] = staken + at
        BY <1>5, <4>2
      <4>4. staken + at = (c + 1) * SBlock + before + j
        BY <1>2, <1>3, <1>7, <4>1
      <4> QED
        BY <1>2, <3>1, <3>2, <4>3, <4>4 DEF at, before
    <3> QED
      BY <3>3 DEF InputBlock
  <2> DEFINE bs == blocks
  <2>4. /\ bs \in [1..more -> SRecords]
        /\ \A i \in 1..more : bs[i] = Whole(InputBlock((c + 1) + i))
    <3>1. \A i \in 1..more : InputBlock((c + 1) + i) \in [1..SBlock -> Int]
      BY <1>2, <1>4 DEF InputBlock
    <3>2. \A i \in 1..more : Whole(InputBlock((c + 1) + i)) \in SRecords
      BY <3>1, InputBlockType
    <3> HIDE DEF block
    <3> QED
      BY <2>3, <3>2
  <2>5. sh' = Append(sh, Whole(first)) \o bs
    BY <1>1, <2>2
  <2> HIDE DEF bs
  <2>6. c + 1 \in Nat
    BY <1>2
  <2> QED
    BY <1>4, <2>2, <2>4, <2>5, <2>6, HashedMore
<1>12. Len(rest) = r /\ \A j \in 1..r : rest[j] = last * SBlock + j /\ rest[j] \in Bytes
  <2> DEFINE m == fill + more * SBlock + 1
  <2>1. m \in Nat /\ n - m + 1 = r /\ m >= 1 /\ r \in Nat /\ m = fill + more * SBlock + 1
    BY <1>2, <1>3, <1>4, <1>7
  <2> HIDE DEF m
  <2>2. \A i \in m..n : input[i] \in Bytes
    BY <1>2, <1>5, <2>1
  <2>3. /\ Len(SubSeq(input, m, n)) = IF m <= n THEN n - m + 1 ELSE 0
        /\ \A i \in 1..n - m + 1 : SubSeq(input, m, n)[i] = input[m + i - 1]
    BY <1>2, <2>1, <2>2, SubSeqProperties
  <2>4. rest = SubSeq(input, m, n)
    BY DEF m
  <2>5. Len(rest) = r /\ \A j \in 1..r : rest[j] = input[m + j - 1]
    BY <1>2, <2>1, <2>3, <2>4
  <2>6. ASSUME NEW j \in 1..r PROVE rest[j] = last * SBlock + j /\ rest[j] \in Bytes
    <3>1. m + j - 1 \in 1..n
      BY <1>2, <2>1
    <3>2. rest[j] = staken + (m + j - 1) /\ rest[j] \in Bytes
      BY <1>5, <2>5, <3>1
    <3> DEFINE all == last * SBlock
               mid == more * SBlock
    <3>3. /\ (staken + fill) + mid = all /\ mid \in Nat /\ staken \in Nat /\ fill \in Nat
          /\ m = (fill + mid) + 1 /\ j \in Nat
      BY <1>2, <1>3, <1>4, <1>7, <1>8, <2>1
    <3> HIDE DEF all, mid
    <3>4. staken + (m + j - 1) = all + j
      BY <3>3
    <3> QED
      BY <3>2, <3>4 DEF all
  <2> QED
    BY <2>5, <2>6
<1>13. /\ sbuf' \in [1..SBlock -> Bytes]
       /\ \A j \in 1..r : sbuf'[j] = last * SBlock + j
  <2>1. sbuf' = Overwritten(first, 0, rest) /\ 0 \in Nat
    BY <1>1
  <2> HIDE DEF rest
  <2>2. Len(rest) \in Nat /\ \A i \in 1..Len(rest) : rest[i] \in Bytes
    BY <1>4, <1>12
  <2>3. /\ sbuf' \in [1..SBlock -> Bytes]
        /\ \A j \in 1..SBlock :
             sbuf'[j] = IF 0 < j /\ j <= 0 + Len(rest) THEN rest[j - 0] ELSE first[j]
    BY <1>6, <2>1, <2>2, OverwrittenType
  <2>4. \A j \in 1..r : j \in 1..SBlock /\ 0 < j /\ j <= 0 + r /\ j - 0 = j
    BY <1>2, <1>4
  <2> QED
    BY <1>12, <2>3, <2>4
<1>14. Sha2TypeOK'
  <2>1. staken' \in 0..SMaxInput /\ staken' \in Nat
    BY <1>1, <1>2
  <2>2. scount' \in (0..SWord - 1) \X Nat
    BY <1>10, <2>1, LengthType
  <2> QED
    BY <1>1, <1>2, <1>13, <2>1, <2>2 DEF Sha2TypeOK, Mark, Bytes
<1>15. Hashing'
  <2>1. scount' = LengthOf(staken)'
    BY <1>1, <1>10 DEF LengthOf
  <2>2. sdigest' = <<>>
    BY <1>1, <1>2 DEF Hashing
  <2> HIDE DEF last
  <2> QED
    BY <1>9, <1>11, <1>13, <2>1, <2>2 DEF Hashing, Hashed
<1> QED
  BY <1>1, <1>14, <1>15 DEF Sha2Inv

\* Byte i of what is left of the input after padding.
Byte(i) == IF i <= staken THEN i ELSE IF i = staken + 1 THEN Mark ELSE ZeroByte

LEMMA ByteType ==
    ASSUME NEW i \in Nat
    PROVE  Byte(i) \in Int
  BY DEF Byte, Mark, ZeroByte

\* The sequence of records that pads the input.
LEMMA PaddedIs ==
    ASSUME Sha2Parameters, NEW c \in Nat, NEW k \in 0..SBlock - 1, staken = c * SBlock + k,
           NEW blocks \in Nat \ {0}, blocks = IF k < SLengthAt THEN c + 1 ELSE c + 2,
           NEW d, d \in Seq(SRecords), Len(d) = blocks,
           \A i \in 1..blocks - 1 :
             d[i] = Whole([j \in 1..SBlock |-> Byte((i - 1) * SBlock + j)]),
           d[blocks] = [bytes |-> [j \in 1..SLengthAt |-> Byte((blocks - 1) * SBlock + j)],
                        length |-> LengthOf(staken)]
    PROVE  d = Padded(staken)
<1> DEFINE count == (staken + 1 + (SBlock - SLengthAt) + SBlock - 1) \div SBlock
           record(i) ==
             IF i < count THEN Whole([j \in 1..SBlock |-> Byte((i - 1) * SBlock + j)])
             ELSE [bytes |-> [j \in 1..SLengthAt |-> Byte((i - 1) * SBlock + j)],
                   length |-> LengthOf(staken)]
           all == [i \in 1..count |-> record(i)]
<1>1. /\ SBlock \in Nat \ {0} /\ SLengthAt \in Nat /\ 1 <= SLengthAt /\ SLengthAt < SBlock
      /\ k \in Nat /\ k < SBlock /\ c * SBlock \in Nat /\ staken \in Nat
  <2>1. SBlock \in Nat \ {0} /\ SLengthAt \in Nat /\ 1 <= SLengthAt /\ SLengthAt < SBlock
    BY SPositive
  <2>2. c * SBlock \in Nat
    BY <2>1
  <2> QED
    BY <2>1, <2>2
<1>2. count = blocks
  <2> DEFINE a == staken + 1 + (SBlock - SLengthAt) + SBlock - 1
  <2>1. CASE k < SLengthAt
    <3> DEFINE r == k + (SBlock - SLengthAt)
               q == c + 1
    <3>1. a = q * SBlock + r /\ r \in 0..SBlock - 1 /\ q \in Nat
      BY <1>1, <2>1
    <3> HIDE DEF a, r, q
    <3>2. a \div SBlock = q
      BY <1>1, <3>1, Division
    <3> QED
      BY <2>1, <3>2 DEF a, q
  <2>2. CASE k >= SLengthAt
    <3> DEFINE r == k - SLengthAt
               q == c + 2
    <3>1. a = q * SBlock + r /\ r \in 0..SBlock - 1 /\ q \in Nat
      BY <1>1, <2>2
    <3> HIDE DEF a, r, q
    <3>2. a \div SBlock = q
      BY <1>1, <3>1, Division
    <3> QED
      BY <1>1, <2>2, <3>2 DEF a, q
  <2> QED
    BY <1>1, <2>1, <2>2
<1>3. Padded(staken) = all
  BY DEF Padded, Byte, LengthOf
<1> HIDE DEF count
<1>4. \A i \in 1..blocks : d[i] = record(i)
  <2> SUFFICES ASSUME NEW i \in 1..blocks PROVE d[i] = record(i)
    OBVIOUS
  <2>1. CASE i < blocks
    <3>1. i \in 1..blocks - 1
      BY <2>1
    <3> QED
      BY <1>2, <2>1, <3>1
  <2>2. CASE i = blocks
    <3>1. ~(blocks < blocks)
      OBVIOUS
    <3> QED
      BY <1>2, <2>2, <3>1
  <2>3. i < blocks \/ i = blocks
    OBVIOUS
  <2> QED
    BY <2>1, <2>2, <2>3
<1> HIDE DEF record
<1>5. all \in Seq(SRecords) /\ Len(all) = blocks
  <2>1. \A i \in 1..blocks : d[i] \in SRecords
    BY ElementOfSeq
  <2>2. all \in [1..blocks -> SRecords]
    BY <1>2, <1>4, <2>1
  <2> HIDE DEF all
  <2> QED
    BY <2>2
<1>6. \A i \in 1..blocks : d[i] = all[i]
  BY <1>2, <1>4
<1>7. d = all
  <2> HIDE DEF all
  <2> QED
    BY <1>5, <1>6, SeqEqual
<1> QED
  BY <1>3, <1>7

\* The mark, behind the first k bytes, and zeros.
LEMMA PadBehind ==
    ASSUME Sha2Parameters, NEW c \in Nat, NEW k \in 0..SBlock - 1, staken = c * SBlock + k,
           NEW m \in 1..SBlock - k, sbuf \in [1..SBlock -> Bytes],
           \A j \in 1..k : sbuf[j] = c * SBlock + j,
           NEW b, b = Overwritten(sbuf, k, SubSeq(Pad, 1, m))
    PROVE  /\ b \in [1..SBlock -> Bytes]
           /\ \A j \in 1..k + m : b[j] = Byte(c * SBlock + j)
<1>1. /\ SBlock \in Nat \ {0} /\ k \in Nat /\ m \in Nat /\ k + m <= SBlock
      /\ c * SBlock \in Nat
  BY SPositive
<1> DEFINE s == SubSeq(Pad, 1, m)
<1>2. \A j \in 1..SBlock : Pad[j] = IF j = 1 THEN -1 ELSE 0
  BY DEF Pad, Mark, ZeroByte
<1>3. -1 \in Bytes /\ 0 \in Bytes
  BY SPositive DEF Bytes
<1>4. Len(s) = m /\ \A i \in 1..m : s[i] = IF i = 1 THEN -1 ELSE 0
  <2>1. \A i \in 1..m : Pad[i] \in Bytes /\ i \in 1..SBlock
    BY <1>1, <1>2, <1>3
  <2>2. /\ Len(s) = IF 1 <= m THEN m - 1 + 1 ELSE 0
        /\ \A i \in 1..m - 1 + 1 : s[i] = Pad[1 + i - 1]
    BY <1>1, <2>1, SubSeqProperties
  <2>3. m - 1 + 1 = m /\ \A i \in 1..m : 1 + i - 1 = i
    BY <1>1
  <2> QED
    BY <1>1, <1>2, <2>1, <2>2, <2>3
<1>5. Len(s) \in Nat /\ \A i \in 1..Len(s) : s[i] \in Bytes
  <2> HIDE DEF s
  <2> QED
    BY <1>1, <1>3, <1>4
<1>6. b = Overwritten(sbuf, k, s)
  OBVIOUS
<1> HIDE DEF s
<1>7. /\ b \in [1..SBlock -> Bytes]
      /\ \A j \in 1..SBlock : b[j] = IF k < j /\ j <= k + Len(s) THEN s[j - k] ELSE sbuf[j]
  BY <1>1, <1>5, <1>6, OverwrittenType
<1>8. ASSUME NEW j \in 1..k + m PROVE b[j] = Byte(c * SBlock + j)
  <2>1. j \in Nat /\ j \in 1..SBlock /\ j <= k + Len(s)
    BY <1>1, <1>4
  <2>2. CASE j <= k
    <3>1. b[j] = sbuf[j] /\ j \in 1..k
      BY <1>1, <1>7, <2>1, <2>2
    <3>2. c * SBlock + j <= staken
      BY <1>1, <2>1, <2>2
    <3> QED
      BY <3>1, <3>2 DEF Byte
  <2>3. CASE j > k
    <3>1. b[j] = s[j - k] /\ j - k \in 1..m
      BY <1>1, <1>7, <2>1, <2>3
    <3>2. b[j] = IF j - k = 1 THEN -1 ELSE 0
      BY <1>4, <3>1
    <3>3. ~(c * SBlock + j <= staken) /\ (c * SBlock + j = staken + 1 <=> j - k = 1)
      BY <1>1, <2>1, <2>3
    <3> QED
      BY <3>2, <3>3 DEF Byte, Mark, ZeroByte
  <2>4. j <= k \/ j > k
    BY <1>1, <2>1
  <2> QED
    BY <2>2, <2>3, <2>4
<1> QED
  BY <1>7, <1>8

\* The first bytes of a block, as its last compression takes them.
LEMMA FirstBytes ==
    ASSUME Sha2Parameters, NEW b \in [1..SBlock -> Bytes]
    PROVE  SubSeq(b, 1, SLengthAt) = [j \in 1..SLengthAt |-> b[j]]
<1>1. SLengthAt \in Nat /\ 1 <= SLengthAt /\ \A j \in 1..SLengthAt : j \in 1..SBlock
  BY SPositive
<1> DEFINE s == SubSeq(b, 1, SLengthAt)
           f == [j \in 1..SLengthAt |-> b[j]]
<1>2. \A j \in 1..SLengthAt : b[j] \in Bytes
  BY <1>1
<1>3. /\ s \in Seq(Bytes)
      /\ Len(s) = IF 1 <= SLengthAt THEN SLengthAt - 1 + 1 ELSE 0
      /\ \A i \in 1..SLengthAt - 1 + 1 : s[i] = b[1 + i - 1]
  BY <1>1, <1>2, SubSeqProperties
<1>4. SLengthAt - 1 + 1 = SLengthAt /\ \A i \in 1..SLengthAt : 1 + i - 1 = i
  BY <1>1
<1>5. f \in [1..SLengthAt -> Bytes] /\ \A i \in 1..SLengthAt : f[i] = b[i]
  BY <1>2
<1> HIDE DEF s, f
<1>6. f \in Seq(Bytes) /\ Len(f) = SLengthAt
  BY <1>1, <1>5
<1>7. Len(s) = SLengthAt /\ \A i \in 1..SLengthAt : s[i] = f[i]
  BY <1>1, <1>3, <1>4, <1>5
<1>8. s = f
  BY <1>3, <1>6, <1>7, SeqEqual
<1> QED
  BY <1>8 DEF s, f

\* What finish makes of a padded input whose last block is b.
LEMMA StepOfFinish ==
    ASSUME Sha2Parameters, Sha2Inv, NEW c \in Nat, NEW k \in 0..SBlock - 1,
           staken = c * SBlock + k, scount = LengthOf(staken),
           NEW blocks \in Nat, blocks = IF k < SLengthAt THEN c ELSE c + 1,
           NEW hashes, hashes \in Seq(SRecords), Len(hashes) = blocks,
           \A i \in 1..blocks :
             hashes[i] = Whole([j \in 1..SBlock |-> Byte((i - 1) * SBlock + j)]),
           NEW b \in [1..SBlock -> Bytes],
           \A j \in 1..SLengthAt : b[j] = Byte(blocks * SBlock + j),
           Finish(b, hashes)
    PROVE  Sha2Inv'
<1> DEFINE last == [bytes |-> SubSeq(b, 1, SLengthAt), length |-> scount]
<1>1. /\ sdigest' = Append(hashes, last) /\ sstate' = "wiped"
      /\ sbuf' = [j \in 1..SBlock |-> ZeroByte] /\ scount' = <<0, 0>> /\ sh' = <<>>
      /\ UNCHANGED <<words, staken>>
  BY DEF Finish
<1>2. /\ words \in SWords /\ staken \in 0..SMaxInput /\ staken \in Nat
  BY SPositive DEF Sha2Inv, Sha2TypeOK
<1>3. (blocks + 1) - 1 = blocks /\ blocks + 1 \in Nat \ {0}
  OBVIOUS
<1>4. last = [bytes |-> [j \in 1..SLengthAt |-> Byte(((blocks + 1) - 1) * SBlock + j)],
              length |-> LengthOf(staken)]
  <2>1. SubSeq(b, 1, SLengthAt) = [j \in 1..SLengthAt |-> b[j]]
    BY FirstBytes
  <2>2. [j \in 1..SLengthAt |-> b[j]]
        = [j \in 1..SLengthAt |-> Byte(((blocks + 1) - 1) * SBlock + j)]
    BY <1>3
  <2> QED
    BY <2>1, <2>2
<1>5. last \in SRecords
  <2>1. \A j \in 1..SLengthAt : b[j] \in Int
    <3>1. Bytes \subseteq Int
      BY SPositive DEF Bytes
    <3>2. \A j \in 1..SLengthAt : j \in 1..SBlock
      BY SPositive
    <3>3. \A j \in 1..SLengthAt : b[j] \in Bytes
      BY <3>2
    <3> QED
      BY <3>1, <3>3
  <2>2. [j \in 1..SLengthAt |-> b[j]] \in [1..SLengthAt -> Int]
    BY <2>1
  <2>3. SubSeq(b, 1, SLengthAt) \in [1..SLengthAt -> Int]
    BY <2>2, FirstBytes
  <2>4. scount \in Nat \X Nat
    BY <1>2, SPositive, LengthType
  <2> QED
    BY <2>3, <2>4 DEF SRecords
<1> HIDE DEF last
<1> DEFINE d == Append(hashes, last)
<1>6. /\ d \in Seq(SRecords) /\ Len(d) = blocks + 1
      /\ \A i \in 1..blocks + 1 : d[i] = IF i <= blocks THEN hashes[i] ELSE last
  BY <1>5
<1>7. d = Padded(staken)
  <2> HIDE DEF d
  <2> DEFINE n == blocks + 1
  <2>1. n \in Nat \ {0} /\ n = (IF k < SLengthAt THEN c + 1 ELSE c + 2) /\ n - 1 = blocks
    OBVIOUS
  <2>2. d \in Seq(SRecords) /\ Len(d) = n
    BY <1>6
  <2>3. \A i \in 1..n - 1 :
          d[i] = Whole([j \in 1..SBlock |-> Byte((i - 1) * SBlock + j)])
    <3>1. \A i \in 1..blocks : d[i] = hashes[i]
      BY <1>6
    <3> QED
      BY <2>1, <3>1
  <2>4. d[n] = [bytes |-> [j \in 1..SLengthAt |-> Byte((n - 1) * SBlock + j)],
                length |-> LengthOf(staken)]
    <3>1. d[blocks + 1] = last
      BY <1>6
    <3> QED
      BY <1>4, <3>1
  <2> HIDE DEF n
  <2> QED
    BY <2>1, <2>2, <2>3, <2>4, PaddedIs
<1>8. Padded(staken)' = Padded(staken)
  BY <1>1 DEF Padded
<1>9. Sha2TypeOK'
  <2>1. sbuf' \in [1..SBlock -> Bytes]
    BY <1>1, SPositive DEF Bytes, ZeroByte
  <2>2. scount' \in (0..SWord - 1) \X Nat
    BY <1>1, SPositive
  <2> QED
    BY <1>1, <1>2, <2>1, <2>2 DEF Sha2TypeOK, Mark, Bytes
<1> QED
  BY <1>1, <1>7, <1>8, <1>9 DEF Sha2Inv

\* What final starts from.
LEMMA Finishing ==
    ASSUME Sha2Parameters, Hashing, staken \in Nat, NEW c, c = staken \div SBlock
    PROVE  /\ sh \in Seq(SRecords) /\ Len(sh) = c
           /\ \A i \in 1..c :
                sh[i] = Whole([j \in 1..SBlock |-> Byte((i - 1) * SBlock + j)])
<1>1. Hashed(sh, c)
  BY DEF Hashing
<1>2. c \in Nat /\ SBlock \in Nat /\ c * SBlock <= staken
  <2>1. /\ c \in Nat /\ staken % SBlock \in 0..SBlock - 1
        /\ staken = c * SBlock + (staken % SBlock)
    BY SPositive, Divided
  <2> QED
    BY <2>1, SPositive
<1>3. ASSUME NEW i \in 1..c
      PROVE  InputBlock(i) = [j \in 1..SBlock |-> Byte((i - 1) * SBlock + j)]
  <2>1. i \in Nat /\ i <= c /\ i - 1 \in Nat
    BY <1>2
  <2>2. i * SBlock <= c * SBlock /\ i * SBlock = (i - 1) * SBlock + SBlock
        /\ (i - 1) * SBlock \in Nat /\ c * SBlock \in Nat
    BY <1>2, <2>1, Bounded
  <2>3. \A j \in 1..SBlock : (i - 1) * SBlock + j <= staken
    BY <1>2, <2>2
  <2> QED
    BY <2>3 DEF InputBlock, Byte
<1> QED
  BY <1>1, <1>3 DEF Hashed

LEMMA StepOfSha2FinalOne ==
    ASSUME Sha2Parameters, Sha2Inv, FinalShort
    PROVE  Sha2Inv'
<1> DEFINE c == staken \div SBlock
           k == staken % SBlock
           m == SLengthAt - k
           b == Overwritten(sbuf, k, SubSeq(Pad, 1, m))
<1>1. sstate = "ready"
  BY DEF FinalShort, Finish
<1>2. /\ Hashing /\ staken \in Nat /\ sbuf \in [1..SBlock -> Bytes]
      /\ Buffered = k /\ c \in Nat /\ k \in 0..SBlock - 1 /\ staken = c * SBlock + k
  BY <1>1, Updating
<1>3. k < SLengthAt /\ Finish(b, sh)
  BY <1>2 DEF FinalShort
<1>4. m \in 1..SBlock - k /\ k + m = SLengthAt
  <2>1. m = SLengthAt - k
    OBVIOUS
  <2>2. /\ k \in Nat /\ k < SLengthAt /\ SLengthAt \in Nat /\ SBlock \in Nat
        /\ SLengthAt <= SBlock
    BY <1>2, <1>3, SPositive
  <2> HIDE DEF k, m
  <2> QED
    BY <2>1, <2>2
<1>5. \A j \in 1..k : sbuf[j] = c * SBlock + j
  BY <1>2 DEF Hashing
<1>6. /\ sh \in Seq(SRecords) /\ Len(sh) = c
      /\ \A i \in 1..c :
           sh[i] = Whole([j \in 1..SBlock |-> Byte((i - 1) * SBlock + j)])
  BY <1>2, Finishing
<1>7. scount = LengthOf(staken)
  BY <1>2 DEF Hashing
<1>8. b = Overwritten(sbuf, k, SubSeq(Pad, 1, m))
  OBVIOUS
<1> HIDE DEF c, k, m, b
<1>9. /\ b \in [1..SBlock -> Bytes]
      /\ \A j \in 1..k + m : b[j] = Byte(c * SBlock + j)
  BY <1>2, <1>4, <1>5, <1>8, PadBehind
<1>10. \A j \in 1..SLengthAt : b[j] = Byte(c * SBlock + j)
  BY <1>4, <1>9
<1>11. c = IF k < SLengthAt THEN c ELSE c + 1
  BY <1>3
<1> QED
  BY <1>2, <1>3, <1>6, <1>7, <1>9, <1>10, <1>11, StepOfFinish

LEMMA StepOfSha2FinalTwo ==
    ASSUME Sha2Parameters, Sha2Inv, FinalLong
    PROVE  Sha2Inv'
<1> DEFINE c == staken \div SBlock
           k == staken % SBlock
           m == SBlock - k
           padded == Overwritten(sbuf, k, SubSeq(Pad, 1, m))
           zeros == [j \in 1..SLengthAt |-> ZeroByte]
           b == Overwritten(padded, 0, zeros)
           hashes == Append(sh, Whole(padded))
<1>1. sstate = "ready"
  BY DEF FinalLong, Finish
<1>2. /\ Hashing /\ staken \in Nat /\ sbuf \in [1..SBlock -> Bytes]
      /\ Buffered = k /\ c \in Nat /\ k \in 0..SBlock - 1 /\ staken = c * SBlock + k
  BY <1>1, Updating
<1>3. k >= SLengthAt /\ Finish(b, hashes)
  BY <1>2 DEF FinalLong
<1>4. m \in 1..SBlock - k /\ k + m = SBlock
  <2>1. m = SBlock - k
    OBVIOUS
  <2>2. k \in Nat /\ k < SBlock /\ SBlock \in Nat
    BY <1>2, SPositive
  <2> HIDE DEF k, m
  <2> QED
    BY <2>1, <2>2
<1>5. \A j \in 1..k : sbuf[j] = c * SBlock + j
  BY <1>2 DEF Hashing
<1>6. /\ sh \in Seq(SRecords) /\ Len(sh) = c
      /\ \A i \in 1..c :
           sh[i] = Whole([j \in 1..SBlock |-> Byte((i - 1) * SBlock + j)])
  BY <1>2, Finishing
<1>7. scount = LengthOf(staken)
  BY <1>2 DEF Hashing
<1>8. padded = Overwritten(sbuf, k, SubSeq(Pad, 1, m))
  OBVIOUS
<1>9. /\ zeros \in [1..SLengthAt -> Bytes] /\ Len(zeros) = SLengthAt
      /\ \A i \in 1..SLengthAt : zeros[i] = 0
  <2>1. SLengthAt \in Nat /\ 0 \in Bytes
    BY SPositive DEF Bytes
  <2> QED
    BY <2>1 DEF ZeroByte
<1>10. b = Overwritten(padded, 0, zeros) /\ hashes = Append(sh, Whole(padded))
  OBVIOUS
<1> HIDE DEF c, k, m, padded, zeros, b, hashes
<1>11. /\ padded \in [1..SBlock -> Bytes]
       /\ \A j \in 1..SBlock : padded[j] = Byte(c * SBlock + j)
  <2>1. /\ padded \in [1..SBlock -> Bytes]
        /\ \A j \in 1..k + m : padded[j] = Byte(c * SBlock + j)
    <3>1. m \in 1..SBlock - k
      BY <1>4
    <3>2. /\ c \in Nat /\ k \in 0..SBlock - 1 /\ staken = c * SBlock + k
          /\ sbuf \in [1..SBlock -> Bytes]
      BY <1>2
    <3> QED
      BY <1>5, <1>8, <3>1, <3>2, PadBehind
  <2> QED
    BY <1>4, <2>1
<1>12. /\ b \in [1..SBlock -> Bytes]
       /\ \A j \in 1..SBlock :
            b[j] = IF 0 < j /\ j <= 0 + Len(zeros) THEN zeros[j - 0] ELSE padded[j]
  <2>1. Len(zeros) \in Nat /\ \A i \in 1..Len(zeros) : zeros[i] \in Bytes
    BY <1>9, SPositive
  <2>2. padded \in [1..SBlock -> Bytes] /\ 0 \in Nat
    BY <1>11
  <2> DEFINE written == Overwritten(padded, 0, zeros)
  <2>3. /\ written \in [1..SBlock -> Bytes]
        /\ \A j \in 1..SBlock :
             written[j] = IF 0 < j /\ j <= 0 + Len(zeros) THEN zeros[j - 0] ELSE padded[j]
    BY <2>1, <2>2, OverwrittenType
  <2> QED
    BY <1>10, <2>3
<1>13. \A j \in 1..SLengthAt : b[j] = Byte((c + 1) * SBlock + j)
  <2> SUFFICES ASSUME NEW j \in 1..SLengthAt PROVE b[j] = Byte((c + 1) * SBlock + j)
    OBVIOUS
  <2>1. /\ j \in Nat /\ j \in 1..SBlock /\ 0 < j /\ j <= 0 + Len(zeros) /\ j - 0 = j
    BY <1>9, SPositive
  <2>2. b[j] = 0
    BY <1>9, <1>12, <2>1
  <2>3. /\ ~((c + 1) * SBlock + j <= staken) /\ (c + 1) * SBlock + j # staken + 1
    <3>1. (c + 1) * SBlock = c * SBlock + SBlock /\ c * SBlock \in Nat /\ SBlock \in Nat
      BY <1>2, SPositive
    <3> QED
      BY <1>2, <2>1, <3>1
  <2> QED
    BY <2>2, <2>3 DEF Byte, ZeroByte
<1>14. Whole(padded) \in SRecords
  <2>1. padded \in [1..SBlock -> Int]
    BY <1>11 DEF Bytes
  <2> QED
    BY <2>1, InputBlockType
<1>15. Whole(padded)
         = Whole([j \in 1..SBlock |-> Byte(((c + 1) - 1) * SBlock + j)])
  <2>1. (c + 1) - 1 = c
    BY <1>2
  <2>2. padded = [j \in 1..SBlock |-> padded[j]]
    BY <1>11
  <2>3. [j \in 1..SBlock |-> padded[j]]
        = [j \in 1..SBlock |-> Byte(((c + 1) - 1) * SBlock + j)]
    BY <1>11, <2>1
  <2> QED
    BY <2>2, <2>3
<1>16. /\ hashes \in Seq(SRecords) /\ Len(hashes) = c + 1
       /\ \A i \in 1..c + 1 : hashes[i] = IF i <= c THEN sh[i] ELSE Whole(padded)
  BY <1>2, <1>6, <1>10, <1>14
<1> DEFINE blocks == c + 1
<1>17. \A i \in 1..blocks :
         hashes[i] = Whole([j \in 1..SBlock |-> Byte((i - 1) * SBlock + j)])
  <2> SUFFICES ASSUME NEW i \in 1..blocks
               PROVE hashes[i] =
                       Whole([j \in 1..SBlock |-> Byte((i - 1) * SBlock + j)])
    OBVIOUS
  <2>1. CASE i <= c
    <3>1. i \in 1..c /\ hashes[i] = sh[i]
      BY <1>2, <1>16, <2>1
    <3> QED
      BY <1>6, <3>1
  <2>2. CASE i = c + 1
    <3>1. hashes[i] = Whole(padded)
      BY <1>2, <1>16, <2>2
    <3> QED
      BY <1>15, <2>2, <3>1
  <2>3. i <= c \/ i = c + 1
    BY <1>2
  <2> QED
    BY <2>1, <2>2, <2>3
<1>18. blocks \in Nat /\ Len(hashes) = blocks /\ blocks = IF k < SLengthAt THEN c ELSE c + 1
  BY <1>2, <1>3, <1>16, SPositive
<1>19. \A j \in 1..SLengthAt : b[j] = Byte(blocks * SBlock + j)
  BY <1>13
<1> HIDE DEF blocks
<1> QED
  BY <1>2, <1>3, <1>7, <1>12, <1>16, <1>17, <1>18, <1>19, StepOfFinish

LEMMA Sha2InvInit ==
    ASSUME Sha2Parameters, Sha2Init
    PROVE  Sha2Inv
<1>1. /\ words \in SWords /\ sbuf = [j \in 1..SBlock |-> ZeroByte] /\ scount = <<0, 0>>
      /\ sdigest = <<>> /\ staken = 0 /\ sstate = "wiped"
  BY DEF Sha2Init
<1>2. sbuf \in [1..SBlock -> Bytes]
  BY <1>1, SPositive DEF Bytes, ZeroByte
<1>3. scount \in (0..SWord - 1) \X Nat /\ staken \in 0..SMaxInput
  BY <1>1, SPositive
<1>4. Sha2TypeOK
  BY <1>1, <1>2, <1>3 DEF Sha2TypeOK, Mark, Bytes
<1> QED
  BY <1>1, <1>4 DEF Sha2Inv

LEMMA Sha2InvStep ==
    ASSUME Sha2Parameters, Sha2Inv, [Sha2Next]_sha2Vars
    PROVE  Sha2Inv'
<1>1. CASE InitHash
  BY <1>1, StepOfInitHash
<1>2. ASSUME NEW n \in 0..SMaxInput, UpdateShort(n) PROVE Sha2Inv'
  BY <1>2, StepOfUpdateShort
<1>3. ASSUME NEW n \in 0..SMaxInput, UpdateLong(n) PROVE Sha2Inv'
  BY <1>3, StepOfUpdateLong
<1>4. CASE FinalShort
  BY <1>4, StepOfSha2FinalOne
<1>5. CASE FinalLong
  BY <1>5, StepOfSha2FinalTwo
<1>6. CASE UNCHANGED sha2Vars
  <2>1. UNCHANGED <<words, sbuf, scount, sh, staken, sstate, sdigest>>
    BY <1>6 DEF sha2Vars
  <2>2. Sha2TypeOK'
    BY <2>1 DEF Sha2Inv, Sha2TypeOK
  <2>3. sstate' = "ready" => Hashing'
    BY <2>1 DEF Sha2Inv, Hashing, Hashed, LengthOf
  <2>4. sstate' = "wiped" => sdigest' = <<>> \/ sdigest' = Padded(staken)'
    BY <2>1 DEF Sha2Inv, Padded
  <2> QED
    BY <2>2, <2>3, <2>4 DEF Sha2Inv
<1> QED
  BY <1>1, <1>2, <1>3, <1>4, <1>5, <1>6 DEF Sha2Next

\* Every variable of a SHA-2 state has its type, the words of the counter their width.
THEOREM Sha2TypeCorrect ==
    ASSUME Sha2Parameters
    PROVE  Sha2Spec => []Sha2TypeOK
<1>1. Sha2Init => Sha2Inv
  BY Sha2InvInit
<1>2. Sha2Inv /\ [Sha2Next]_sha2Vars => Sha2Inv'
  BY Sha2InvStep
<1>3. Sha2Inv => Sha2TypeOK
  BY DEF Sha2Inv
<1> QED
  BY <1>1, <1>2, <1>3, PTL DEF Sha2Spec

\* A digest of SHA-256 or SHA-512 is of the input padded and counted as the standard has
\* it, in whatever pieces it came and whatever the buffer held before.
THEOREM DigestIsOfPaddedTheorem ==
    ASSUME Sha2Parameters
    PROVE  Sha2Spec => []DigestIsOfPadded
<1>1. Sha2Init => Sha2Inv
  BY Sha2InvInit
<1>2. Sha2Inv /\ [Sha2Next]_sha2Vars => Sha2Inv'
  BY Sha2InvStep
<1>3. Sha2Inv => DigestIsOfPadded
  BY DEF Sha2Inv, Sha2TypeOK, Hashing, DigestIsOfPadded
<1> QED
  BY <1>1, <1>2, <1>3, PTL DEF Sha2Spec

=============================================================================
