--------------------------- MODULE Numbers_proofs ---------------------------
(***************************************************************************)
(* Theorems about Calls for numbers, buffers and blocks of any length the   *)
(* memory has: sodium_add, sodium_sub and sodium_increment add and subtract *)
(* in assembly and in C, sodium_compare, sodium_memcmp and sodium_is_zero   *)
(* order and tell apart (utils.c), what sodium_pad adds sodium_unpad takes  *)
(* off, every number below the bound of randombytes_uniform takes as many   *)
(* words as any other (randombytes.c), sodium_hex2bin reads a text as far   *)
(* as it is pairs of digits that fit, so all that sodium_bin2hex writes,    *)
(* and sodium_base642bin reads what sodium_bin2base64 writes and nothing    *)
(* else (codecs.c).  A loop of the code is a recursive function over its    *)
(* turns: it exists (LoopExists), and what a turn keeps holds of all of     *)
(* them (TurnInduction).                                                    *)
(***************************************************************************)
EXTENDS Calls, WellFoundedInduction, FunctionTheorems, FiniteSetTheorems, TLAPS

-----------------------------------------------------------------------------
(* Induction.                                                              *)

\* A set of numbers that has 0 and, with each, the next has all of them.
LEMMA SetInduction ==
    ASSUME NEW S, 0 \in S, \A n \in Nat : n \in S => n + 1 \in S
    PROVE  Nat \subseteq S
<1>1. ASSUME NEW T, T \subseteq Nat, T # {}
      PROVE  \E x \in T : \A y \in T : ~(y < x)
  <2>1. \E x \in T : \A y \in T : ~(<<y, x>> \in OpToRel(<, Nat))
    <3>1. IsWellFoundedOn(OpToRel(<, Nat), Nat)
      BY NatLessThanWellFounded, Zenon
    <3> DEFINE R == OpToRel(<, Nat)
    <3> HIDE DEF R
    <3> QED
      BY <1>1, <3>1, WFMin, Zenon DEF R
  <2> QED
    BY <1>1, <2>1 DEF OpToRel
<1>2. SUFFICES ASSUME Nat \ S # {} PROVE FALSE
  OBVIOUS
<1>3. PICK x \in Nat \ S : \A y \in Nat \ S : ~(y < x)
  BY <1>1, <1>2
<1>4. x # 0 /\ x - 1 \in Nat /\ x - 1 < x
  BY <1>3
<1>5. x - 1 \in S
  BY <1>3, <1>4
<1> QED
  BY <1>3, <1>4, <1>5

\* The same up to a bound: what holds of 0 and passes from each turn of a
\* loop to the next holds of all of its turns.
LEMMA TurnInduction ==
    ASSUME NEW n \in Nat, NEW S, 0 \in S,
           \A k \in 0..n : k < n /\ k \in S => k + 1 \in S
    PROVE  0..n \subseteq S
<1> DEFINE T == {k \in Nat : k <= n => k \in S}
<1>1. 0 \in T
  OBVIOUS
<1>2. \A k \in Nat : k \in T => k + 1 \in T
  OBVIOUS
<1> HIDE DEF T
<1>3. Nat \subseteq T
  BY <1>1, <1>2, SetInduction
<1> QED
  BY <1>3 DEF T

\* A loop that starts at x and whose turn k makes st[<<k, v>>] of v computes
\* something: there is a function of the number of turns, with its values.
Turns(g, n, x, st) == [k \in 0..n |-> IF k = 0 THEN x ELSE st[<<k, g[k - 1]>>]]

Steps(n, V) == [(1..n) \X V -> V]

\* A loop of n turns that start with x and stay in V has a function that
\* gives the value of each turn, so that a recursive function computes what
\* its definition says.
LEMMA LoopExists ==
    ASSUME NEW V, NEW n \in Nat, NEW x \in V, NEW st \in Steps(n, V)
    PROVE  \E g \in [0..n -> V] : g = Turns(g, n, x, st)
<1>0. st \in [(1..n) \X V -> V]
  BY DEF Steps
<1> DEFINE Begun(m, g) == /\ g \in [0..m -> V]
                          /\ g[0] = x
                          /\ \A k \in 1..m : g[k] = st[<<k, g[k - 1]>>]
           S == {m \in 0..n : \E g : Begun(m, g)}
<1>1. 0 \in S
  <2>1. 0..0 = {0} /\ 1..0 = {}
    OBVIOUS
  <2>2. Begun(0, [k \in 0..0 |-> x])
    BY <2>1
  <2> HIDE DEF Begun
  <2> QED
    BY <2>2
<1>2. ASSUME NEW m \in 0..n, m < n, m \in S
      PROVE  m + 1 \in S
  <2>1. PICK g : Begun(m, g)
    BY <1>2
  <2> DEFINE h == [k \in 0..m+1 |-> IF k <= m THEN g[k] ELSE st[<<m + 1, g[m]>>]]
  <2>2. h \in [0..m+1 -> V]
    BY <1>0, <1>2, <2>1
  <2>3. h[0] = x
    BY <2>1
  <2>4. ASSUME NEW k \in 1..m+1 PROVE h[k] = st[<<k, h[k - 1]>>]
    <3>1. m \in Nat /\ k \in Nat /\ k - 1 \in 0..m+1 /\ k \in 0..m+1 /\ k - 1 <= m
      BY <1>2
    <3>2. h[k - 1] = g[k - 1]
      BY <3>1
    <3>3. CASE k <= m
      <4>1. h[k] = g[k] /\ k \in 1..m
        BY <3>1, <3>3
      <4> QED
        BY <2>1, <3>2, <4>1
    <3>4. CASE k = m + 1
      <4>1. h[k] = st[<<k, g[k - 1]>>]
        BY <3>1, <3>4
      <4> QED
        BY <3>2, <4>1
    <3> QED
      BY <3>1, <3>3, <3>4
  <2>5. m + 1 \in 0..n
    BY <1>2
  <2> HIDE DEF h
  <2>6. Begun(m + 1, h)
    BY <2>2, <2>3, <2>4
  <2> HIDE DEF Begun
  <2> QED
    BY <2>5, <2>6
<1> HIDE DEF S
<1>3. 0..n \subseteq S
  BY <1>1, <1>2, TurnInduction
<1>4. PICK g : Begun(n, g)
  BY <1>3 DEF S
<1>5. g = Turns(g, n, x, st)
  <2>1. g = [k \in 0..n |-> g[k]]
    BY <1>4
  <2>2. \A k \in 0..n : g[k] = IF k = 0 THEN x ELSE st[<<k, g[k - 1]>>]
    BY <1>4
  <2> QED
    BY <2>1, <2>2 DEF Turns
<1> QED
  BY <1>4, <1>5

-----------------------------------------------------------------------------
(* Quotients and remainders.                                               *)
LEMMA Parts ==
    ASSUME NEW m \in Nat \ {0}, NEW a \in Nat
    PROVE  a \div m \in Nat /\ a % m \in 0..m-1 /\ a = m * (a \div m) + (a % m)
<1>1. a \div m \in Nat /\ a % m \in 0..m-1
  OBVIOUS
<1>2. a = m * (a \div m) + (a % m)
  OBVIOUS
<1> QED
  BY <1>1, <1>2

\* A quotient and a remainder are those of the number they make.
LEMMA Whole ==
    ASSUME NEW m \in Nat \ {0}, NEW q \in Nat, NEW r \in 0..m-1
    PROVE  (m * q + r) \div m = q /\ (m * q + r) % m = r
<1> DEFINE a == m * q + r
<1>1. a \in Int /\ a = q * m + r
  OBVIOUS
<1> HIDE DEF a
<1>2. a \div m = q /\ a % m = r
  BY <1>1
<1> QED
  BY <1>2 DEF a

\* A number one width at most outside of a word wraps around once.
LEMMA Wrapped ==
    ASSUME NEW m \in Nat \ {0}, NEW x \in Int
    PROVE  (0 <= x /\ x < m => x % m = x) /\ (-m <= x /\ x < 0 => x % m = x + m)
<1>1. -m <= x /\ x < 0 => x % m = x + m
  OBVIOUS
<1>2. 0 <= x /\ x < m => x % m = x
  OBVIOUS
<1> QED
  BY <1>1, <1>2

\* A size_t has sixteen bits here.
LEMMA UintIs ==
    Uint = 65536
BY DEF Uint

\* The last size_t is SIZE_MAX.
LEMMA WordsEnd ==
    \A k \in Int : k <= Uint - 1 <=> k <= 65535
BY DEF Uint

\* There is at least one size_t.
LEMMA UintIsNat ==
    Uint \in Nat \ {0}
BY DEF Uint

\* size_t subtraction adds 2^16 to what is below 0.
LEMMA MinusWraps ==
    ASSUME NEW a \in 0..Uint-1, NEW b \in 0..Uint-1
    PROVE  Minus16(a, b) = (IF a < b THEN a - b + Uint ELSE a - b) /\ Minus16(a, b) \in 0..Uint-1
<1>1. Uint \in Nat \ {0}
  BY UintIsNat
<1>2. PICK x \in Int : x = a - b
  BY <1>1
<1>3. (0 <= x /\ x < Uint => x % Uint = x) /\ (-Uint <= x /\ x < 0 => x % Uint = x + Uint)
  BY <1>1, Wrapped
<1>4. Minus16(a, b) = x % Uint
  BY <1>2 DEF Minus16
<1>5. CASE a < b
  <2>1. -Uint <= x /\ x < 0 /\ x + Uint \in 0..Uint-1
    BY <1>1, <1>2, <1>5
  <2> QED
    BY <1>2, <1>3, <1>4, <1>5, <2>1
<1>6. CASE ~(a < b)
  <2>1. 0 <= x /\ x < Uint /\ x \in 0..Uint-1
    BY <1>1, <1>2, <1>6
  <2> QED
    BY <1>2, <1>3, <1>4, <1>6, <2>1
<1> QED
  BY <1>5, <1>6

-----------------------------------------------------------------------------
(* Words: what the tables hold, of four bits, of eight and of sixteen.     *)
And4(a, b) == And4Table[16 * a + b]
Both(x, y) == IF x = 1 THEN y ELSE 0

\* & of nibbles is & of their four bits, as the table of nibbles says.
LEMMA And4Bits ==
    ASSUME NEW a \in 0..15, NEW b \in 0..15
    PROVE  And4(a, b) = Both(a % 2, b % 2) + 2 * Both((a \div 2) % 2, (b \div 2) % 2)
                        + 4 * Both((a \div 4) % 2, (b \div 4) % 2) + 8 * Both(a \div 8, b \div 8)
<1>1. \A x, y \in 0..1 : x * y = Both(x, y)
  BY DEF Both
<1>2. /\ a % 2 \in 0..1 /\ (a \div 2) % 2 \in 0..1 /\ (a \div 4) % 2 \in 0..1 /\ a \div 8 \in 0..1
      /\ b % 2 \in 0..1 /\ (b \div 2) % 2 \in 0..1 /\ (b \div 4) % 2 \in 0..1 /\ b \div 8 \in 0..1
  OBVIOUS
<1>3. 16 * a + b \in 0..255 /\ (16 * a + b) \div 16 = a /\ (16 * a + b) % 16 = b
  OBVIOUS
<1>4. And4(a, b) = Bits4(LAMBDA x, y : x * y, a, b)
  BY <1>3, Zenon DEF And4, And4Table
<1>5. Bits4(LAMBDA x, y : x * y, a, b)
      = (a % 2) * (b % 2) + 2 * (((a \div 2) % 2) * ((b \div 2) % 2))
        + 4 * (((a \div 4) % 2) * ((b \div 4) % 2)) + 8 * ((a \div 8) * (b \div 8))
  BY DEF Bits4
<1>6. /\ (a % 2) * (b % 2) = Both(a % 2, b % 2)
      /\ ((a \div 2) % 2) * ((b \div 2) % 2) = Both((a \div 2) % 2, (b \div 2) % 2)
      /\ ((a \div 4) % 2) * ((b \div 4) % 2) = Both((a \div 4) % 2, (b \div 4) % 2)
      /\ (a \div 8) * (b \div 8) = Both(a \div 8, b \div 8)
  BY <1>1, <1>2
<1> QED
  BY <1>4, <1>5, <1>6, Zenon

\* The conjunction of two nibbles is no more than each, and what it leaves
\* out of the two of them fits; with 0 and 15 it is 0 and the nibble.
LEMMA And4Facts ==
    ASSUME NEW a \in 0..15, NEW b \in 0..15
    PROVE  /\ And4(a, b) \in 0..15 /\ And4(a, b) <= a /\ And4(a, b) <= b
           /\ a + b - And4(a, b) <= 15
           /\ And4(a, b) = And4(b, a)
           /\ And4(a, 0) = 0 /\ And4(a, 15) = a /\ And4(a, a) = a
           /\ a + b - 2 * And4(a, b) = 0 => a = b
           /\ And4(a, b) % 2 = Both(a % 2, b % 2)
<1> DEFINE a0 == a % 2  a1 == (a \div 2) % 2  a2 == (a \div 4) % 2  a3 == a \div 8
           b0 == b % 2  b1 == (b \div 2) % 2  b2 == (b \div 4) % 2  b3 == b \div 8
<1>1. /\ a0 \in 0..1 /\ a1 \in 0..1 /\ a2 \in 0..1 /\ a3 \in 0..1
      /\ a = a0 + 2 * a1 + 4 * a2 + 8 * a3
  OBVIOUS
<1>2. /\ b0 \in 0..1 /\ b1 \in 0..1 /\ b2 \in 0..1 /\ b3 \in 0..1
      /\ b = b0 + 2 * b1 + 4 * b2 + 8 * b3
  OBVIOUS
<1>3. And4(a, b) = Both(a0, b0) + 2 * Both(a1, b1) + 4 * Both(a2, b2) + 8 * Both(a3, b3)
  BY And4Bits
<1>4. And4(b, a) = Both(b0, a0) + 2 * Both(b1, a1) + 4 * Both(b2, a2) + 8 * Both(b3, a3)
  BY And4Bits
<1>5. And4(a, a) = Both(a0, a0) + 2 * Both(a1, a1) + 4 * Both(a2, a2) + 8 * Both(a3, a3)
  BY And4Bits
<1>6. And4(a, 0) = Both(a0, 0) + 2 * Both(a1, 0) + 4 * Both(a2, 0) + 8 * Both(a3, 0)
  <2>1. 0 \in 0..15 /\ 0 % 2 = 0 /\ 0 \div 2 = 0 /\ 0 \div 4 = 0 /\ 0 \div 8 = 0
    OBVIOUS
  <2> HIDE DEF a0, a1, a2, a3
  <2>2. And4(a, 0) = Both(a0, 0 % 2) + 2 * Both(a1, (0 \div 2) % 2) + 4 * Both(a2, (0 \div 4) % 2) + 8 * Both(a3, 0 \div 8)
    BY And4Bits, <2>1 DEF a0, a1, a2, a3
  <2> QED
    BY <2>1, <2>2
<1>7. And4(a, 15) = Both(a0, 1) + 2 * Both(a1, 1) + 4 * Both(a2, 1) + 8 * Both(a3, 1)
  <2>1. 15 \in 0..15 /\ 15 % 2 = 1 /\ (15 \div 2) % 2 = 1 /\ (15 \div 4) % 2 = 1 /\ 15 \div 8 = 1
    OBVIOUS
  <2> HIDE DEF a0, a1, a2, a3
  <2>2. And4(a, 15) = Both(a0, 15 % 2) + 2 * Both(a1, (15 \div 2) % 2) + 4 * Both(a2, (15 \div 4) % 2) + 8 * Both(a3, 15 \div 8)
    BY And4Bits, <2>1 DEF a0, a1, a2, a3
  <2> QED
    BY <2>1, <2>2
<1> HIDE DEF a0, a1, a2, a3, b0, b1, b2, b3
<1>8. And4(a, b) \in 0..15 /\ And4(a, b) <= a /\ And4(a, b) <= b /\ a + b - And4(a, b) <= 15
  BY <1>1, <1>2, <1>3 DEF Both
<1>9. And4(a, b) = And4(b, a)
  BY <1>1, <1>2, <1>3, <1>4 DEF Both
<1>10. And4(a, 0) = 0 /\ And4(a, 15) = a /\ And4(a, a) = a
  BY <1>1, <1>5, <1>6, <1>7 DEF Both
<1>11. a + b - 2 * And4(a, b) = 0 => a = b
  BY <1>1, <1>2, <1>3 DEF Both
<1>12. And4(a, b) % 2 = Both(a0, b0)
  BY <1>1, <1>2, <1>3 DEF Both
<1> QED
  BY <1>8, <1>9, <1>10, <1>11, <1>12 DEF a0, b0

\* & takes nibbles to a nibble that is no larger than either.
LEMMA And4Bounds ==
    ASSUME NEW a \in 0..15, NEW b \in 0..15
    PROVE  And4(a, b) \in 0..15 /\ And4(a, b) <= a /\ And4(a, b) <= b /\ a + b - And4(a, b) <= 15
BY And4Facts

\* & with 0 is 0, with all ones the nibble, with itself itself.
LEMMA And4Whole ==
    ASSUME NEW a \in 0..15
    PROVE  And4(a, 0) = 0 /\ And4(a, 15) = a /\ And4(a, a) = a /\ And4(0, a) = 0 /\ And4(15, a) = a
<1>1. \A x, y \in 0..15 : And4(x, y) = And4(y, x)
  BY And4Facts
<1>2. And4(a, 0) = 0 /\ And4(a, 15) = a /\ And4(a, a) = a
  BY And4Facts
<1>3. And4(0, a) = And4(a, 0) /\ And4(15, a) = And4(a, 15)
  <2>1. 0 \in 0..15 /\ 15 \in 0..15
    OBVIOUS
  <2> QED
    BY <1>1, <2>1
<1> QED
  BY <1>2, <1>3

\* Nibbles whose ^ is 0 are the same.
LEMMA And4Equal ==
    ASSUME NEW a \in 0..15, NEW b \in 0..15, a + b - 2 * And4(a, b) = 0
    PROVE  a = b
BY And4Facts

\* The last bit of & is & of the last bits.
LEMMA And4Odd ==
    ASSUME NEW a \in 0..15, NEW b \in 0..15
    PROVE  And4(a, b) % 2 = Both(a % 2, b % 2)
BY And4Facts, Zenon

Halves(a, p, q) == a \in 0..255 /\ p \in 0..15 /\ q \in 0..15 /\ a = 16 * p + q

\* Each byte has two nibbles.
LEMMA Nibbles ==
    ASSUME NEW a \in 0..255
    PROVE  \E p, q \in 0..15 : Halves(a, p, q)
<1>1. a \div 16 \in Nat /\ a % 16 \in 0..15 /\ a = 16 * (a \div 16) + (a % 16)
  BY Parts
<1>2. a \div 16 \in 0..15
  BY <1>1
<1> QED
  BY <1>1, <1>2 DEF Halves

\* x ^ y is x + y without twice x & y.
LEMMA Xor4And ==
    ASSUME NEW x \in 0..15, NEW y \in 0..15
    PROVE  Xor4(x, y) = x + y - 2 * And4(x, y)
<1>1. 16 * x + y \in 0..255 /\ (16 * x + y) \div 16 = x /\ (16 * x + y) % 16 = y
  OBVIOUS
<1> QED
  BY <1>1 DEF Xor4, Xor4Table, And4

\* The tables of bytes, by their nibbles.
LEMMA InWord ==
    ASSUME NEW k \in Int, 0 <= k, k <= 65535
    PROVE  k \in 0..Uint-1
<1>1. Uint \in Nat /\ k <= Uint - 1
  BY DEF Uint
<1> QED
  BY <1>1

\* The tables of bytes, by their nibbles.
LEMMA Xor8Nibbles ==
    ASSUME NEW a, NEW b, NEW p, NEW q, NEW r, NEW s, Halves(a, p, q), Halves(b, r, s)
    PROVE  Xor8(a, b) = 16 * Xor4(p, r) + Xor4(q, s)
<1>0. /\ a \in 0..255 /\ p \in 0..15 /\ q \in 0..15 /\ a = 16 * p + q
      /\ b \in 0..255 /\ r \in 0..15 /\ s \in 0..15 /\ b = 16 * r + s
  BY DEF Halves
<1>1. ASSUME NEW k \in Int, k = 256 * a + b
      PROVE  Xor8Table[k] = 16 * Xor4(p, r) + Xor4(q, s)
  <2>1. 0 <= k /\ k <= 65535
    BY <1>0, <1>1
  <2>2. k \in 0..Uint-1
    BY <2>1, InWord
  <2>3. k \div 4096 = p
    BY <1>0, <1>1
  <2>4. k \div 256 = a
    BY <1>0, <1>1
  <2>5. a % 16 = q
    BY <1>0
  <2>6. k \div 16 = 16 * a + r
    BY <1>0, <1>1
  <2>7. (16 * a + r) % 16 = r
    BY <1>0
  <2>8. k % 16 = s
    BY <1>0, <1>1
  <2>9. Xor8Table[k] = 16 * Xor4(k \div 4096, (k \div 16) % 16) + Xor4((k \div 256) % 16, k % 16)
    BY <2>2 DEF Xor8Table
  <2>10. (k \div 16) % 16 = r /\ (k \div 256) % 16 = q
    BY <2>4, <2>5, <2>6, <2>7
  <2> QED
    BY <2>3, <2>8, <2>9, <2>10
<1>2. 256 * a + b \in Int
  BY <1>0
<1> QED
  BY <1>1, <1>2 DEF Xor8

\* & of bytes is & of their nibbles.
LEMMA And8Nibbles ==
    ASSUME NEW a, NEW b, NEW p, NEW q, NEW r, NEW s, Halves(a, p, q), Halves(b, r, s)
    PROVE  /\ And8(a, b) = 16 * And4(p, r) + And4(q, s)
           /\ Xor8(a, b) = a + b - 2 * And8(a, b)
<1>0. /\ a \in 0..255 /\ p \in 0..15 /\ q \in 0..15 /\ a = 16 * p + q
      /\ b \in 0..255 /\ r \in 0..15 /\ s \in 0..15 /\ b = 16 * r + s
  BY DEF Halves
<1>1. And4(p, r) \in 0..15 /\ And4(q, s) \in 0..15
  BY <1>0, And4Bounds
<1>2. Xor8(a, b) = 16 * Xor4(p, r) + Xor4(q, s)
  BY Xor8Nibbles
<1>3. Xor4(p, r) = p + r - 2 * And4(p, r)
  BY <1>0, Xor4And
<1>4. Xor4(q, s) = q + s - 2 * And4(q, s)
  BY <1>0, Xor4And
<1>a. \A x, y \in 0..15 : 16 * (p + r - 2 * x) + (q + s - 2 * y) = (16 * p + q) + (16 * r + s) - 2 * (16 * x + y)
  BY <1>0
<1>5. ASSUME NEW n \in Nat, n = 16 * And4(p, r) + And4(q, s)
      PROVE  And8(a, b) = n /\ Xor8(a, b) = a + b - 2 * n
  <2>a. Xor8(a, b) = 16 * (p + r - 2 * And4(p, r)) + (q + s - 2 * And4(q, s))
    BY <1>2, <1>3, <1>4
  <2>b. Xor8(a, b) = (16 * p + q) + (16 * r + s) - 2 * (16 * And4(p, r) + And4(q, s))
    BY <1>1, <1>a, <2>a, Zenon
  <2>1. Xor8(a, b) = a + b - 2 * n
    BY <1>0, <1>5, <2>b, Zenon
  <2>2. (a + b - Xor8(a, b)) = 2 * n
    BY <1>0, <2>1
  <2>3. (2 * n) \div 2 = n
    OBVIOUS
  <2> QED
    BY <2>1, <2>2, <2>3 DEF And8
<1>6. 16 * And4(p, r) + And4(q, s) \in Nat
  BY <1>1
<1> QED
  BY <1>5, <1>6

\* & takes bytes to a byte that is no larger than either.
LEMMA And8Bounds ==
    ASSUME NEW a \in 0..255, NEW b \in 0..255
    PROVE  And8(a, b) \in 0..255 /\ And8(a, b) <= a /\ And8(a, b) <= b /\ a + b - And8(a, b) <= 255
<1>1. PICK p, q \in 0..15 : Halves(a, p, q)
  BY Nibbles
<1>2. PICK r, s \in 0..15 : Halves(b, r, s)
  BY Nibbles
<1>3. And8(a, b) = 16 * And4(p, r) + And4(q, s)
  BY <1>1, <1>2, And8Nibbles
<1>4. And4(p, r) \in 0..15 /\ And4(p, r) <= p /\ And4(p, r) <= r /\ p + r - And4(p, r) <= 15
  BY And4Bounds
<1>5. And4(q, s) \in 0..15 /\ And4(q, s) <= q /\ And4(q, s) <= s /\ q + s - And4(q, s) <= 15
  BY And4Bounds
<1>6. a = 16 * p + q /\ b = 16 * r + s
  BY <1>1, <1>2 DEF Halves
<1>7. And8(a, b) \in Nat
  BY <1>3, <1>4, <1>5
<1>8. And8(a, b) <= a /\ And8(a, b) <= b
  BY <1>3, <1>4, <1>5, <1>6, <1>7
<1>9. a + b - And8(a, b) <= 255
  BY <1>3, <1>4, <1>5, <1>6, <1>7
<1>10. And8(a, b) \in 0..255
  BY <1>7, <1>8
<1> QED
  BY <1>8, <1>9, <1>10, Zenon

\* The same under a name, to be cited of bytes that are terms themselves.
Smaller(a, b) ==
    And8(a, b) \in 0..255 /\ And8(a, b) <= a /\ And8(a, b) <= b /\ a + b - And8(a, b) <= 255

\* The same under one name, to be cited for any two bytes.
LEMMA And8Within ==
    ASSUME NEW a \in 0..255, NEW b \in 0..255
    PROVE  Smaller(a, b)
BY And8Bounds, Zenon DEF Smaller

\* x ^ y is x + y without twice x & y, of bytes.
LEMMA Xor8And ==
    ASSUME NEW a \in 0..255, NEW b \in 0..255
    PROVE  Xor8(a, b) = a + b - 2 * And8(a, b)
<1>1. PICK p, q \in 0..15 : Halves(a, p, q)
  BY Nibbles
<1>2. PICK r, s \in 0..15 : Halves(b, r, s)
  BY Nibbles
<1> QED
  BY <1>1, <1>2, And8Nibbles

\* & with 0 is 0, with 255 the byte, with itself itself.
LEMMA And8Whole ==
    ASSUME NEW a \in 0..255
    PROVE  And8(a, 0) = 0 /\ And8(a, 255) = a /\ And8(a, a) = a /\ And8(0, a) = 0 /\ And8(255, a) = a
<1>1. PICK p, q \in 0..15 : Halves(a, p, q)
  BY Nibbles
<1>2. /\ And4(p, 0) = 0 /\ And4(p, 15) = p /\ And4(p, p) = p /\ And4(0, p) = 0 /\ And4(15, p) = p
  BY And4Whole
<1>3. And4(q, 0) = 0 /\ And4(q, 15) = q /\ And4(q, q) = q /\ And4(0, q) = 0 /\ And4(15, q) = q
  BY And4Whole
<1>4. Halves(0, 0, 0) /\ Halves(255, 15, 15)
  BY DEF Halves
<1>5. And8(a, 0) = 16 * And4(p, 0) + And4(q, 0) /\ And8(0, a) = 16 * And4(0, p) + And4(0, q)
  BY <1>1, <1>4, And8Nibbles
<1>6. And8(a, 255) = 16 * And4(p, 15) + And4(q, 15) /\ And8(255, a) = 16 * And4(15, p) + And4(15, q)
  BY <1>1, <1>4, And8Nibbles
<1>7. And8(a, a) = 16 * And4(p, p) + And4(q, q)
  BY <1>1, And8Nibbles
<1>8. a = 16 * p + q
  BY <1>1 DEF Halves
<1> QED
  BY <1>2, <1>3, <1>5, <1>6, <1>7, <1>8

\* The last bit of & is & of the last bits, of bytes.
LEMMA And8Odd ==
    ASSUME NEW a \in 0..255, NEW b \in 0..255
    PROVE  And8(a, b) % 2 = Both(a % 2, b % 2)
<1>1. PICK p, q \in 0..15 : Halves(a, p, q)
  BY Nibbles
<1>2. PICK r, s \in 0..15 : Halves(b, r, s)
  BY Nibbles
<1>3. And8(a, b) = 16 * And4(p, r) + And4(q, s)
  BY <1>1, <1>2, And8Nibbles
<1>4. And4(p, r) \in 0..15 /\ And4(q, s) \in 0..15
  BY And4Bounds
<1>5. And4(q, s) % 2 = Both(q % 2, s % 2)
  BY And4Odd
<1>6. \A x, y \in 0..15 : (16 * x + y) % 2 = y % 2
  OBVIOUS
<1>7. a % 2 = q % 2 /\ b % 2 = s % 2
  BY <1>1, <1>2, <1>6 DEF Halves
<1> QED
  BY <1>3, <1>4, <1>5, <1>6, <1>7

\* ^ of two bytes is a byte, and 0 only when they are the same: what
\* sodium_memcmp and sodium_compare rest on.
LEMMA Xor8Equal ==
    ASSUME NEW a \in 0..255, NEW b \in 0..255
    PROVE  Xor8(a, b) \in 0..255 /\ (Xor8(a, b) = 0 <=> a = b)
<1>1. Xor8(a, b) = a + b - 2 * And8(a, b)
  BY Xor8And, Zenon
<1>2. And8(a, b) \in 0..255 /\ And8(a, b) <= a /\ And8(a, b) <= b /\ a + b - And8(a, b) <= 255
  BY And8Bounds, Zenon
<1>3. a = b => And8(a, b) = a
  BY And8Whole
<1>4. Xor8(a, b) \in 0..255
  <2>1. Xor8(a, b) \in Int /\ Xor8(a, b) >= 0 /\ Xor8(a, b) <= 255
    BY <1>1, <1>2
  <2> QED
    BY <2>1
<1>5. Xor8(a, b) = 0 => a = b
  BY <1>1, <1>2
<1>6. a = b => Xor8(a, b) = 0
  BY <1>1, <1>3
<1> QED
  BY <1>4, <1>5, <1>6

Differs(a, b) == Xor8(a, b) \in 0..255 /\ (Xor8(a, b) = 0 <=> a = b)

\* The same under one name, to be cited for any two bytes.
LEMMA Xor8Differs ==
    ASSUME NEW a \in 0..255, NEW b \in 0..255
    PROVE  Differs(a, b)
BY Xor8Equal, Zenon DEF Differs

\* Or, of bytes.
LEMMA Or8Facts ==
    ASSUME NEW a \in 0..255, NEW b \in 0..255
    PROVE  Or8(a, b) \in 0..255 /\ (Or8(a, b) = 0 <=> a = 0 /\ b = 0)
<1>1. And8(a, b) \in 0..255 /\ And8(a, b) <= a /\ And8(a, b) <= b /\ a + b - And8(a, b) <= 255
  BY And8Bounds
<1>2. Or8(a, b) = a + b - And8(a, b)
  BY DEF Or8
<1>3. Or8(a, b) \in Nat
  BY <1>1, <1>2
<1>4. Or8(a, b) <= 255 /\ Or8(a, b) >= a /\ Or8(a, b) >= b
  BY <1>1, <1>2
<1>5. a = 0 /\ b = 0 => Or8(a, b) = 0
  <2>1. 0 \in 0..255
    OBVIOUS
  <2>2. And8(0, 0) = 0
    BY <2>1, And8Whole, Zenon
  <2> QED
    BY <1>2, <2>2
<1> QED
  BY <1>3, <1>4, <1>5

Joins(a, b) == Or8(a, b) \in 0..255 /\ (Or8(a, b) = 0 <=> a = 0 /\ b = 0)

\* | of two bytes is a byte, and 0 only when both are.
LEMMA Or8Joins ==
    ASSUME NEW a \in 0..255, NEW b \in 0..255
    PROVE  Joins(a, b)
BY Or8Facts, Zenon DEF Joins

\* | with 0 changes nothing, and 255 stays 255.
LEMMA Or8Whole ==
    ASSUME NEW a \in 0..255
    PROVE  Or8(a, 0) = a /\ Or8(0, a) = a /\ Or8(255, a) = 255
<1>1. And8(a, 0) = 0 /\ And8(0, a) = 0 /\ And8(255, a) = a
  BY And8Whole, Zenon
<1> QED
  BY <1>1 DEF Or8

-----------------------------------------------------------------------------
(* Words of sixteen bits, by their bytes.                                  *)
BytesOf(a, p, q) == a \in 0..Uint-1 /\ p \in 0..255 /\ q \in 0..255 /\ a = 256 * p + q

\* Each word has two bytes.
LEMMA BytesOfWord ==
    ASSUME NEW a \in 0..Uint-1
    PROVE  BytesOf(a, a \div 256, a % 256)
<1>0. a \in Nat /\ a <= Uint - 1
  BY UintIsNat
<1>1. a \in Nat /\ a <= 65535
  BY <1>0, WordsEnd
<1>2. a \div 256 \in Nat /\ a % 256 \in 0..255 /\ a = 256 * (a \div 256) + (a % 256)
  BY <1>1, Parts
<1>3. a \div 256 \in 0..255
  BY <1>1, <1>2
<1> QED
  BY <1>2, <1>3 DEF BytesOf

\* Any two bytes make a word.
LEMMA WordOfBytes ==
    ASSUME NEW p \in 0..255, NEW q \in 0..255
    PROVE  BytesOf(256 * p + q, p, q)
<1>1. 256 * p + q \in 0..Uint-1
  <2>1. 256 * p + q \in Int /\ 0 <= 256 * p + q /\ 256 * p + q <= 65535
    OBVIOUS
  <2> QED
    BY <2>1, InWord
<1> QED
  BY <1>1 DEF BytesOf

\* Division finds the bytes of a word.
LEMMA BytesOfDivided ==
    ASSUME NEW a, NEW p, NEW q, BytesOf(a, p, q)
    PROVE  a \div 256 = p /\ a % 256 = q /\ Top(a) = p
<1>1. a \in Int /\ p \in 0..255 /\ q \in 0..255 /\ a = 256 * p + q
  BY UintIsNat DEF BytesOf
<1>2. a \div 256 = p
  BY <1>1
<1>3. a % 256 = q
  BY <1>1
<1>4. p % 256 = p
  BY <1>1
<1> QED
  BY <1>2, <1>3, <1>4 DEF Top

\* Words are compared by their bytes.
LEMMA BytesCompared ==
    ASSUME NEW a, NEW b, NEW p, NEW q, NEW r, NEW s, BytesOf(a, p, q), BytesOf(b, r, s)
    PROVE  (p <= r /\ q <= s => a <= b) /\ (a = b <=> p = r /\ q = s)
BY DEF BytesOf

\* The bytes of 0 and of SIZE_MAX.
LEMMA BytesOfEnds ==
    BytesOf(0, 0, 0) /\ BytesOf(Uint - 1, 255, 255)
<1>1. 0 \in 0..Uint-1 /\ 0 \in 0..255 /\ 255 \in 0..255
  BY DEF Uint
<1>2. Uint - 1 = 256 * 255 + 255 /\ 0 = 256 * 0 + 0
  BY DEF Uint
<1>3. Uint \in Nat \ {0}
  BY DEF Uint
<1>4. Uint - 1 \in 0..Uint-1
  BY <1>3
<1> QED
  BY <1>1, <1>2, <1>4 DEF BytesOf

\* What and and exclusive or make of two words.
LEMMA And16Bytes ==
    ASSUME NEW a, NEW b, NEW p, NEW q, NEW r, NEW s, BytesOf(a, p, q), BytesOf(b, r, s)
    PROVE  /\ BytesOf(And16(a, b), And8(p, r), And8(q, s))
           /\ BytesOf(Xor16(a, b), Xor8(p, r), Xor8(q, s))
<1>1. p \in 0..255 /\ q \in 0..255 /\ r \in 0..255 /\ s \in 0..255
  BY Zenon DEF BytesOf
<1>2. And8(p, r) \in 0..255 /\ And8(q, s) \in 0..255
  BY <1>1, And8Within, Zenon DEF Smaller
<1>3. Xor8(p, r) \in 0..255 /\ Xor8(q, s) \in 0..255
  BY <1>1, Xor8Differs, Zenon DEF Differs
<1>4. a \div 256 = p /\ a % 256 = q /\ b \div 256 = r /\ b % 256 = s
  BY BytesOfDivided
<1>5. BytesOf(256 * And8(p, r) + And8(q, s), And8(p, r), And8(q, s))
  BY <1>2, WordOfBytes, Zenon
<1>6. BytesOf(256 * Xor8(p, r) + Xor8(q, s), Xor8(p, r), Xor8(q, s))
  BY <1>3, WordOfBytes, Zenon
<1> QED
  BY <1>4, <1>5, <1>6 DEF And16, Xor16

\* & takes words to a word that is no larger than either.
LEMMA And16InWord ==
    ASSUME NEW a \in 0..Uint-1, NEW b \in 0..Uint-1
    PROVE  And16(a, b) \in 0..Uint-1 /\ And16(a, b) <= a /\ And16(a, b) <= b
<1> DEFINE p == a \div 256  q == a % 256  r == b \div 256  s == b % 256
<1>1. BytesOf(a, p, q) /\ BytesOf(b, r, s)
  BY BytesOfWord
<1> HIDE DEF p, q, r, s
<1>2. BytesOf(And16(a, b), And8(p, r), And8(q, s))
  BY <1>1, And16Bytes
<1>3. /\ p \in 0..255 /\ q \in 0..255 /\ r \in 0..255 /\ s \in 0..255
      /\ a = 256 * p + q /\ b = 256 * r + s /\ And16(a, b) = 256 * And8(p, r) + And8(q, s)
  BY <1>1, <1>2 DEF BytesOf
<1>a. p \in 0..255 /\ q \in 0..255 /\ r \in 0..255 /\ s \in 0..255
  BY <1>3
<1>b. Smaller(p, r) /\ Smaller(q, s)
  BY <1>a, And8Within, Zenon
<1>4. And8(p, r) \in 0..255 /\ And8(p, r) <= p /\ And8(p, r) <= r
  BY <1>b DEF Smaller
<1>5. And8(q, s) \in 0..255 /\ And8(q, s) <= q /\ And8(q, s) <= s
  BY <1>b DEF Smaller
<1>6. And16(a, b) <= a /\ And16(a, b) <= b
  BY <1>1, <1>2, <1>4, <1>5, BytesCompared
<1> QED
  BY <1>2, <1>6 DEF BytesOf

\* & with 0 is 0, and with all ones the word.
LEMMA And16Whole ==
    ASSUME NEW a \in 0..Uint-1
    PROVE  And16(a, 0) = 0 /\ And16(a, Uint - 1) = a
<1> DEFINE p == a \div 256  q == a % 256
<1>1. BytesOf(a, p, q)
  BY BytesOfWord
<1> HIDE DEF p, q
<1>2. BytesOf(0, 0, 0) /\ BytesOf(Uint - 1, 255, 255)
  BY BytesOfEnds
<1>3. /\ BytesOf(And16(a, 0), And8(p, 0), And8(q, 0))
      /\ BytesOf(And16(a, Uint - 1), And8(p, 255), And8(q, 255))
  BY <1>1, <1>2, And16Bytes
<1>4. p \in 0..255 /\ q \in 0..255 /\ a = 256 * p + q
  BY <1>1 DEF BytesOf
<1>5. And8(p, 0) = 0 /\ And8(q, 0) = 0 /\ And8(p, 255) = p /\ And8(q, 255) = q
  BY <1>4, And8Whole
<1>6. And16(a, 0) = 256 * 0 + 0 /\ And16(a, Uint - 1) = 256 * p + q
  BY <1>3, <1>5 DEF BytesOf
<1> QED
  BY <1>4, <1>6

\* ^ of two words is a word, and 0 only when they are the same.
LEMMA Xor16Equal ==
    ASSUME NEW a \in 0..Uint-1, NEW b \in 0..Uint-1
    PROVE  Xor16(a, b) \in 0..Uint-1 /\ (Xor16(a, b) = 0 <=> a = b)
<1> DEFINE p == a \div 256  q == a % 256  r == b \div 256  s == b % 256
<1>1. BytesOf(a, p, q) /\ BytesOf(b, r, s)
  BY BytesOfWord
<1> HIDE DEF p, q, r, s
<1>2. BytesOf(Xor16(a, b), Xor8(p, r), Xor8(q, s))
  BY <1>1, And16Bytes
<1>3. /\ p \in 0..255 /\ q \in 0..255 /\ r \in 0..255 /\ s \in 0..255
      /\ a = 256 * p + q /\ b = 256 * r + s /\ Xor16(a, b) = 256 * Xor8(p, r) + Xor8(q, s)
  BY <1>1, <1>2 DEF BytesOf
<1>a. p \in 0..255 /\ q \in 0..255 /\ r \in 0..255 /\ s \in 0..255
  BY <1>3
<1>b. Differs(p, r) /\ Differs(q, s)
  BY <1>a, Xor8Differs
<1>4. Xor8(p, r) \in 0..255 /\ (Xor8(p, r) = 0 <=> p = r)
  BY <1>b DEF Differs
<1>5. Xor8(q, s) \in 0..255 /\ (Xor8(q, s) = 0 <=> q = s)
  BY <1>b DEF Differs
<1>6. Xor16(a, b) = 0 <=> Xor8(p, r) = 0 /\ Xor8(q, s) = 0
  BY <1>2, BytesOfEnds, BytesCompared
<1>7. a = b <=> p = r /\ q = s
  BY <1>1, BytesCompared
<1> QED
  BY <1>2, <1>4, <1>5, <1>6, <1>7 DEF BytesOf

-----------------------------------------------------------------------------
(* What a comparison with 0 leaves: the top byte of x - 1.                 *)
LEMMA LessOne ==
    ASSUME NEW x \in 0..255
    PROVE  Top(Minus16(x, 1)) = IF x = 0 THEN 255 ELSE 0
<1>1. x \in 0..Uint-1 /\ 1 \in 0..Uint-1
  BY InWord
<1>2. Minus16(x, 1) = IF x < 1 THEN x - 1 + Uint ELSE x - 1
  BY <1>1, MinusWraps
<1>3. CASE x = 0
  <2>1. Minus16(x, 1) = Uint - 1
    BY <1>2, <1>3, UintIsNat
  <2> QED
    BY <1>3, <2>1, BytesOfEnds, BytesOfDivided
<1>4. CASE x # 0
  <2>1. x - 1 \in 0..255 /\ Minus16(x, 1) = x - 1 /\ x - 1 \in 0..Uint-1
    BY <1>1, <1>2, <1>4, UintIsNat
  <2>2. BytesOf(x - 1, 0, x - 1)
    BY <2>1 DEF BytesOf
  <2> QED
    BY <1>4, <2>1, <2>2, BytesOfDivided
<1> QED
  BY <1>3, <1>4, Zenon

\* The top byte of a difference is its borrow.
LEMMA TopOfDifference ==
    ASSUME NEW x \in 0..255, NEW y \in 0..256
    PROVE  Top(Minus16(x, y)) = IF x < y THEN 255 ELSE 0
<1>1. x \in 0..Uint-1 /\ y \in 0..Uint-1
  BY InWord
<1>2. Minus16(x, y) = IF x < y THEN x - y + Uint ELSE x - y
  BY <1>1, MinusWraps
<1>3. CASE x < y
  <2>1. x - y + 256 \in 0..255 /\ Uint - 1 = 65535 /\ x - y + Uint \in 0..Uint-1
    <3>1. Uint - 1 = 65535 /\ Uint \in Nat
      BY DEF Uint
    <3>2. x - y + 256 \in 0..255
      BY <1>3
    <3>3. 0 <= x - y + Uint
      BY <1>3, <3>1
    <3>4. x - y + Uint <= Uint - 1
      BY <1>3, <3>1
    <3> QED
      BY <3>1, <3>2, <3>3, <3>4
  <2>2. x - y + Uint = 256 * 255 + (x - y + 256)
    BY <2>1, UintIsNat
  <2>3. BytesOf(x - y + Uint, 255, x - y + 256)
    BY <2>1, <2>2 DEF BytesOf
  <2> QED
    BY <1>2, <1>3, <2>3, BytesOfDivided
<1>4. CASE ~(x < y)
  <2>1. x - y \in 0..255 /\ Minus16(x, y) = x - y /\ x - y \in 0..Uint-1
    BY <1>1, <1>2, <1>4, UintIsNat
  <2>2. BytesOf(x - y, 0, x - y)
    BY <2>1 DEF BytesOf
  <2> QED
    BY <1>4, <2>1, <2>2, BytesOfDivided
<1> QED
  BY <1>3, <1>4, Zenon

-----------------------------------------------------------------------------
(* Comparisons.                                                            *)
LEMMA LenOfBytes ==
    ASSUME NEW n \in Nat, NEW b \in Bytes(n)
    PROVE  Len(b) = n
BY DEF Bytes

\* The disjunction of the first k of n bytes is 0 if they are.
LEMMA OrOfBytes ==
    ASSUME NEW n \in Nat, NEW e \in [1..n -> 0..255],
           NEW d, d[0] = 0, \A k \in 1..n : d[k] = Or8(d[k - 1], e[k])
    PROVE  d[n] \in 0..255 /\ (d[n] = 0 <=> \A k \in 1..n : e[k] = 0)
<1> DEFINE S == {k \in 0..n : d[k] \in 0..255 /\ (d[k] = 0 <=> \A j \in 1..k : e[j] = 0)}
<1>6. 0 \in S
  OBVIOUS
<1>7. ASSUME NEW k \in 0..n, k < n, k \in S PROVE k + 1 \in S
  <2>1. d[k + 1] = Or8(d[k], e[k + 1]) /\ k + 1 \in 1..n /\ k + 1 \in 0..n
    BY <1>7
  <2>2. d[k] \in 0..255
    BY <1>7
  <2>3. e[k + 1] \in 0..255
    BY <2>1
  <2>4. d[k] = 0 <=> \A j \in 1..k : e[j] = 0
    BY <1>7
  <2>5. Or8(d[k], e[k + 1]) \in 0..255 /\ (Or8(d[k], e[k + 1]) = 0 <=> d[k] = 0 /\ e[k + 1] = 0)
    <3>1. Joins(d[k], e[k + 1])
      BY <2>2, <2>3, Or8Joins, Zenon
    <3> QED
      BY <3>1, Zenon DEF Joins
  <2>6. 1..k+1 = (1..k) \cup {k + 1}
    BY <2>1
  <2>7. d[k + 1] = 0 <=> \A j \in 1..k+1 : e[j] = 0
    BY <2>1, <2>4, <2>5, <2>6
  <2> QED
    BY <2>1, <2>5, <2>7
<1> HIDE DEF S
<1>8. n \in S
  <2>1. 0..n \subseteq S
    BY <1>6, <1>7, TurnInduction
  <2> QED
    BY <2>1
<1> QED
  BY <1>8 DEF S

\* What the loop of sodium_memcmp computes.
LEMMA MemcmpLoop ==
    ASSUME NEW n \in Nat, NEW a \in Bytes(n), NEW b \in Bytes(n)
    PROVE  \E d : /\ d[0] = 0 /\ \A k \in 1..n : d[k] = Or8(d[k - 1], Xor8(a[k], b[k]))
                  /\ sodium_memcmp(a, b) = (Top(Minus16(d[n], 1)) % 2) - 1
<1> DEFINE V == 0..255
           st == [p \in (1..n) \X (0..255) |-> Or8(p[2], Xor8(a[p[1]], b[p[1]]))]
           F(g) == [k \in 0..n |-> IF k = 0 THEN 0 ELSE Or8(g[k - 1], Xor8(a[k], b[k]))]
           d == CHOOSE g : g = F(g)
<1>1. st \in Steps(n, V)
  <2>1. \A k \in 1..n, v \in 0..255 : Or8(v, Xor8(a[k], b[k])) \in 0..255
    <3> SUFFICES ASSUME NEW k \in 1..n, NEW v \in 0..255 PROVE Or8(v, Xor8(a[k], b[k])) \in 0..255
      BY Zenon
    <3>1. a[k] \in 0..255 /\ b[k] \in 0..255
      BY DEF Bytes
    <3>2. Xor8(a[k], b[k]) \in 0..255
      BY <3>1, Xor8Equal, Zenon
    <3> QED
      BY <3>2, Or8Facts, Zenon
  <2> QED
    BY <2>1, Zenon DEF Steps
<1>2. \E g \in [0..n -> V] : g = Turns(g, n, 0, st)
  <2>1. 0 \in V
    OBVIOUS
  <2> HIDE DEF V, st
  <2> QED
    BY <1>1, <2>1, LoopExists
<1>3. \E g : g = F(g)
  <2>1. PICK g \in [0..n -> V] : g = Turns(g, n, 0, st)
    BY <1>2
  <2>2. \A k \in 0..n : k # 0 => st[<<k, g[k - 1]>>] = Or8(g[k - 1], Xor8(a[k], b[k]))
    OBVIOUS
  <2>3. Turns(g, n, 0, st) = F(g)
    BY <2>2 DEF Turns
  <2> QED
    BY <2>1, <2>3
<1>4. d = F(d)
  BY <1>3
<1>5. d[0] = 0 /\ \A k \in 1..n : d[k] = Or8(d[k - 1], Xor8(a[k], b[k]))
  <2> HIDE DEF d
  <2>1. F(d)[0] = 0 /\ \A k \in 1..n : F(d)[k] = Or8(d[k - 1], Xor8(a[k], b[k]))
    OBVIOUS
  <2> HIDE DEF F
  <2> QED
    BY <1>4, <2>1
<1>6. sodium_memcmp(a, b) = (Top(Minus16(d[n], 1)) % 2) - 1
  <2>1. Len(a) = n
    BY LenOfBytes
  <2> QED
    BY <2>1 DEF sodium_memcmp
<1> HIDE DEF d
<1> QED
  BY <1>5, <1>6

\* sodium_memcmp compares.
LEMMA MemcmpCompares ==
    ASSUME NEW n \in Nat, NEW a \in Bytes(n), NEW b \in Bytes(n)
    PROVE  sodium_memcmp(a, b) = IF a = b THEN 0 ELSE -1
<1>1. PICK d : /\ d[0] = 0 /\ \A k \in 1..n : d[k] = Or8(d[k - 1], Xor8(a[k], b[k]))
               /\ sodium_memcmp(a, b) = (Top(Minus16(d[n], 1)) % 2) - 1
  BY MemcmpLoop
<1>2. \A k \in 1..n : a[k] \in 0..255 /\ b[k] \in 0..255
  BY DEF Bytes
<1>3. \A k \in 1..n : Xor8(a[k], b[k]) \in 0..255 /\ (Xor8(a[k], b[k]) = 0 <=> a[k] = b[k])
  BY <1>2, Xor8Equal, Zenon
<1> DEFINE e == [k \in 1..n |-> Xor8(a[k], b[k])]
<1>4. e \in [1..n -> 0..255]
  BY <1>3
<1>5. \A k \in 1..n : d[k] = Or8(d[k - 1], e[k])
  BY <1>1
<1>6. \A k \in 1..n : e[k] = 0 <=> a[k] = b[k]
  BY <1>3
<1> HIDE DEF e
<1>7. d[n] \in 0..255 /\ (d[n] = 0 <=> \A k \in 1..n : e[k] = 0)
  BY <1>1, <1>4, <1>5, OrOfBytes, Zenon
<1>8. a = b <=> \A k \in 1..n : a[k] = b[k]
  BY DEF Bytes
<1>9. Top(Minus16(d[n], 1)) = IF a = b THEN 255 ELSE 0
  BY <1>6, <1>7, <1>8, LessOne
<1>10. 255 % 2 = 1 /\ 0 % 2 = 0
  OBVIOUS
<1> QED
  BY <1>1, <1>9, <1>10

\* What the loop of sodium_is_zero computes.
LEMMA IsZeroLoop ==
    ASSUME NEW n \in Nat, NEW a \in Bytes(n)
    PROVE  \E d : /\ d[0] = 0 /\ \A k \in 1..n : d[k] = Or8(d[k - 1], a[k])
                  /\ sodium_is_zero(a) = Top(Minus16(d[n], 1)) % 2
<1> DEFINE V == 0..255
           st == [p \in (1..n) \X (0..255) |-> Or8(p[2], a[p[1]])]
           F(g) == [k \in 0..n |-> IF k = 0 THEN 0 ELSE Or8(g[k - 1], a[k])]
           d == CHOOSE g : g = F(g)
<1>1. st \in Steps(n, V)
  <2>1. \A k \in 1..n, v \in 0..255 : Or8(v, a[k]) \in 0..255
    <3>1. \A k \in 1..n : a[k] \in 0..255
      BY DEF Bytes
    <3> QED
      BY <3>1, Or8Facts, Zenon
  <2> QED
    BY <2>1, Zenon DEF Steps
<1>2. \E g \in [0..n -> V] : g = Turns(g, n, 0, st)
  <2>1. 0 \in V
    OBVIOUS
  <2> HIDE DEF V, st
  <2> QED
    BY <1>1, <2>1, LoopExists
<1>3. \E g : g = F(g)
  <2>1. PICK g \in [0..n -> V] : g = Turns(g, n, 0, st)
    BY <1>2
  <2>2. \A k \in 0..n : k # 0 => st[<<k, g[k - 1]>>] = Or8(g[k - 1], a[k])
    OBVIOUS
  <2>3. Turns(g, n, 0, st) = F(g)
    BY <2>2 DEF Turns
  <2> QED
    BY <2>1, <2>3
<1>4. d = F(d)
  BY <1>3
<1>5. d[0] = 0 /\ \A k \in 1..n : d[k] = Or8(d[k - 1], a[k])
  <2> HIDE DEF d
  <2>1. F(d)[0] = 0 /\ \A k \in 1..n : F(d)[k] = Or8(d[k - 1], a[k])
    OBVIOUS
  <2> HIDE DEF F
  <2> QED
    BY <1>4, <2>1
<1>6. sodium_is_zero(a) = Top(Minus16(d[n], 1)) % 2
  <2>1. Len(a) = n
    BY LenOfBytes
  <2> QED
    BY <2>1 DEF sodium_is_zero
<1> HIDE DEF d
<1> QED
  BY <1>5, <1>6

\* sodium_is_zero finds zeros.
LEMMA IsZeroFindsZeros ==
    ASSUME NEW n \in Nat, NEW a \in Bytes(n)
    PROVE  sodium_is_zero(a) = IF a = Zeroed(a) THEN 1 ELSE 0
<1>1. PICK d : /\ d[0] = 0 /\ \A k \in 1..n : d[k] = Or8(d[k - 1], a[k])
               /\ sodium_is_zero(a) = Top(Minus16(d[n], 1)) % 2
  BY IsZeroLoop
<1>2. a \in [1..n -> 0..255]
  BY DEF Bytes
<1>3. d[n] \in 0..255 /\ (d[n] = 0 <=> \A k \in 1..n : a[k] = 0)
  BY <1>1, <1>2, OrOfBytes
<1>4. Zeroed(a) = [k \in 1..n |-> 0]
  BY LenOfBytes DEF Zeroed
<1>5. a = Zeroed(a) <=> \A k \in 1..n : a[k] = 0
  BY <1>2, <1>4
<1>6. Top(Minus16(d[n], 1)) = IF a = Zeroed(a) THEN 255 ELSE 0
  BY <1>3, <1>5, LessOne
<1>7. 255 % 2 = 1 /\ 0 % 2 = 0
  OBVIOUS
<1> QED
  BY <1>1, <1>6, <1>7

\* A turn of sodium_compare.
Bit == 0..1
\* A turn of sodium_compare keeps a difference that a higher byte has made
\* and otherwise takes that of its own byte.
LEMMA CompareTurnFacts ==
    ASSUME NEW s \in [gt : Bit, eq : Bit], NEW x \in 0..255, NEW y \in 0..255
    PROVE  CompareTurn(s, x, y) = [gt |-> IF s.gt = 1 \/ (s.eq = 1 /\ x > y) THEN 1 ELSE 0,
                                   eq |-> IF s.eq = 1 /\ x = y THEN 1 ELSE 0]
<1>1. s.gt \in 0..1 /\ s.eq \in 0..1 /\ s.gt \in 0..255 /\ s.eq \in 0..255
  BY DEF Bit
<1>2. Top(Minus16(y, x)) = IF y < x THEN 255 ELSE 0
  <2>1. x \in 0..256
    OBVIOUS
  <2> QED
    BY <2>1, TopOfDifference, Zenon
<1>3. Xor8(y, x) \in 0..255 /\ (Xor8(y, x) = 0 <=> x = y)
  <2>1. Differs(y, x)
    BY Xor8Differs, Zenon
  <2> QED
    BY <2>1 DEF Differs
<1>4. Top(Minus16(Xor8(y, x), 1)) = IF x = y THEN 255 ELSE 0
  BY <1>3, LessOne
<1>5. And8(255, s.eq) = s.eq /\ And8(0, s.eq) = 0 /\ And8(s.eq, 255) = s.eq /\ And8(s.eq, 0) = 0
  BY <1>1, And8Whole
<1>6. Or8(s.gt, 0) = s.gt /\ Or8(0, s.eq) = s.eq
  <2>1. \A v \in 0..255 : Or8(v, 0) = v /\ Or8(0, v) = v
    BY Or8Whole
  <2> QED
    BY <1>1, <2>1
<1>7. Or8(1, 1) = 1
  <2>1. 1 \in 0..255
    OBVIOUS
  <2>2. And8(1, 1) = 1
    BY <2>1, And8Whole
  <2> QED
    BY <2>2 DEF Or8
<1>8. And8(s.eq, Top(Minus16(Xor8(y, x), 1))) = IF s.eq = 1 /\ x = y THEN 1 ELSE 0
  BY <1>1, <1>4, <1>5
<1>9. And8(Top(Minus16(y, x)), s.eq) = IF s.eq = 1 /\ x > y THEN 1 ELSE 0
  BY <1>1, <1>2, <1>5
<1>10. Or8(s.gt, And8(Top(Minus16(y, x)), s.eq)) = IF s.gt = 1 \/ (s.eq = 1 /\ x > y) THEN 1 ELSE 0
  BY <1>1, <1>6, <1>7, <1>9
<1> QED
  BY <1>8, <1>10 DEF CompareTurn

\* What the loop of sodium_compare computes, from the last byte to the first.
LEMMA CompareLoop ==
    ASSUME NEW n \in Nat, NEW a \in Bytes(n), NEW b \in Bytes(n)
    PROVE  \E s : /\ s[0] = [gt |-> 0, eq |-> 1]
                  /\ \A k \in 1..n : s[k] = CompareTurn(s[k - 1], a[n + 1 - k], b[n + 1 - k])
                  /\ sodium_compare(a, b) = s[n].gt + s[n].gt + s[n].eq - 1
<1> DEFINE V == [gt : Bit, eq : Bit]
           st == [p \in (1..n) \X V |-> CompareTurn(p[2], a[n + 1 - p[1]], b[n + 1 - p[1]])]
           x == [gt |-> 0, eq |-> 1]
           F(g) == [k \in 0..n |-> IF k = 0 THEN [gt |-> 0, eq |-> 1] ELSE CompareTurn(g[k - 1], a[n + 1 - k], b[n + 1 - k])]
           s == CHOOSE g : g = F(g)
<1>1. st \in Steps(n, V)
  <2>1. \A k \in 1..n, v \in V : CompareTurn(v, a[n + 1 - k], b[n + 1 - k]) \in V
    <3> SUFFICES ASSUME NEW k \in 1..n, NEW v \in V PROVE CompareTurn(v, a[n + 1 - k], b[n + 1 - k]) \in V
      OBVIOUS
    <3>1. a[n + 1 - k] \in 0..255 /\ b[n + 1 - k] \in 0..255
      BY DEF Bytes
    <3> DEFINE p == a[n + 1 - k]  q == b[n + 1 - k]
    <3> HIDE DEF p, q
    <3>2. p \in 0..255 /\ q \in 0..255
      BY <3>1 DEF p, q
    <3>3. CompareTurn(v, p, q) = [gt |-> IF v.gt = 1 \/ (v.eq = 1 /\ p > q) THEN 1 ELSE 0,
                                  eq |-> IF v.eq = 1 /\ p = q THEN 1 ELSE 0]
      BY <3>2, CompareTurnFacts, Zenon
    <3>4. CompareTurn(v, p, q) \in V
      BY <3>3 DEF Bit
    <3> QED
      BY <3>4 DEF p, q
  <2> HIDE DEF V
  <2> QED
    BY <2>1 DEF Steps
<1>2. \E g \in [0..n -> V] : g = Turns(g, n, x, st)
  <2>1. x \in V
    BY DEF Bit
  <2> HIDE DEF V, st, x
  <2> QED
    BY <1>1, <2>1, LoopExists
<1>3. \E g : g = F(g)
  <2>1. PICK g \in [0..n -> V] : g = Turns(g, n, x, st)
    BY <1>2
  <2> HIDE DEF V
  <2>2. \A k \in 0..n : k # 0 => st[<<k, g[k - 1]>>] = CompareTurn(g[k - 1], a[n + 1 - k], b[n + 1 - k])
    BY <2>1
  <2>3. Turns(g, n, x, st) = F(g)
    BY <2>2 DEF Turns
  <2> HIDE DEF F
  <2> QED
    BY <2>1, <2>3
<1>4. s = F(s)
  BY <1>3
<1>5. s[0] = x /\ \A k \in 1..n : s[k] = CompareTurn(s[k - 1], a[n + 1 - k], b[n + 1 - k])
  <2> HIDE DEF s
  <2>1. F(s)[0] = x /\ \A k \in 1..n : F(s)[k] = CompareTurn(s[k - 1], a[n + 1 - k], b[n + 1 - k])
    OBVIOUS
  <2> HIDE DEF F
  <2> QED
    BY <1>4, <2>1
<1>6. sodium_compare(a, b) = s[n].gt + s[n].gt + s[n].eq - 1
  <2>1. Len(a) = n
    BY LenOfBytes
  <2> QED
    BY <2>1 DEF sodium_compare
<1> HIDE DEF s
<1> QED
  BY <1>5, <1>6

\* One number is below another of n bytes from place m on.
LowFrom(a, b, m, n) == \E k \in m..n : a[k] < b[k] /\ \A j \in k+1..n : a[j] = b[j]
SameFrom(a, b, m, n) == \A k \in m..n : a[k] = b[k]

\* Whether numbers are equal or ordered from a byte up is what that byte
\* says, unless a higher one has said it.
LEMMA FromBelow ==
    ASSUME NEW n \in Nat, NEW a \in Bytes(n), NEW b \in Bytes(n), NEW m \in 1..n
    PROVE  /\ SameFrom(a, b, m, n) <=> a[m] = b[m] /\ SameFrom(a, b, m + 1, n)
           /\ LowFrom(a, b, m, n) <=> LowFrom(a, b, m + 1, n) \/ (a[m] < b[m] /\ SameFrom(a, b, m + 1, n))
<1>1. m..n = {m} \cup (m+1..n)
  OBVIOUS
<1>2. SameFrom(a, b, m, n) <=> a[m] = b[m] /\ SameFrom(a, b, m + 1, n)
  BY <1>1 DEF SameFrom
<1>3. LowFrom(a, b, m, n) <=> LowFrom(a, b, m + 1, n) \/ (a[m] < b[m] /\ SameFrom(a, b, m + 1, n))
  BY <1>1 DEF SameFrom, LowFrom
<1> QED
  BY <1>2, <1>3

\* sodium_compare orders.
LEMMA CompareOrders ==
    ASSUME NEW n \in Nat, NEW a \in Bytes(n), NEW b \in Bytes(n)
    PROVE  sodium_compare(a, b) = IF Low(a, b) THEN -1 ELSE IF Low(b, a) THEN 1 ELSE 0
<1>1. PICK s : /\ s[0] = [gt |-> 0, eq |-> 1]
               /\ \A k \in 1..n : s[k] = CompareTurn(s[k - 1], a[n + 1 - k], b[n + 1 - k])
               /\ sodium_compare(a, b) = s[n].gt + s[n].gt + s[n].eq - 1
  BY CompareLoop
<1> DEFINE Same(k) == SameFrom(a, b, n + 1 - k, n)
           Below(k) == LowFrom(a, b, n + 1 - k, n)
           Above(k) == LowFrom(b, a, n + 1 - k, n)
           S == {k \in 0..n : /\ s[k] \in [gt : Bit, eq : Bit]
                              /\ \/ Same(k) /\ ~Below(k) /\ ~Above(k) /\ s[k].gt = 0 /\ s[k].eq = 1
                                 \/ ~Same(k) /\ Below(k) /\ ~Above(k) /\ s[k].gt = 0 /\ s[k].eq = 0
                                 \/ ~Same(k) /\ ~Below(k) /\ Above(k) /\ s[k].gt = 1 /\ s[k].eq = 0}
<1>2. 0 \in S
  <2>1. Same(0) /\ ~Below(0) /\ ~Above(0)
    BY DEF SameFrom, LowFrom
  <2> HIDE DEF Same, Below, Above
  <2> QED
    BY <1>1, <2>1 DEF Bit
<1>3. ASSUME NEW k \in 0..n, k < n, k \in S PROVE k + 1 \in S
  <2> DEFINE m == n + 1 - (k + 1)  p == a[m]  q == b[m]
  <2>1. m \in 1..n /\ n + 1 - k = m + 1 /\ k + 1 \in 1..n /\ k + 1 \in 0..n /\ (k + 1) - 1 = k
    BY <1>3
  <2> HIDE DEF m
  <2>2. p \in 0..255 /\ q \in 0..255
    BY <2>1 DEF Bytes
  <2>3. /\ Same(k + 1) <=> p = q /\ Same(k)
        /\ Below(k + 1) <=> Below(k) \/ (p < q /\ Same(k))
    BY <2>1, FromBelow DEF m
  <2>4. SameFrom(b, a, m, n) <=> q = p /\ SameFrom(b, a, m + 1, n)
    BY <2>1, FromBelow
  <2>5. Above(k + 1) <=> Above(k) \/ (q < p /\ Same(k))
    <3>1. SameFrom(b, a, m + 1, n) <=> SameFrom(a, b, m + 1, n)
      BY DEF SameFrom
    <3>2. LowFrom(b, a, m, n) <=> LowFrom(b, a, m + 1, n) \/ (b[m] < a[m] /\ SameFrom(b, a, m + 1, n))
      BY <2>1, FromBelow
    <3> QED
      BY <2>1, <3>1, <3>2 DEF m
  <2>6. s[k + 1] = CompareTurn(s[k], p, q)
    BY <1>1, <2>1 DEF m
  <2> HIDE DEF p, q, Same, Below, Above
  <2>7. s[k] \in [gt : Bit, eq : Bit]
    BY <1>3
  <2>8. s[k + 1] = [gt |-> IF s[k].gt = 1 \/ (s[k].eq = 1 /\ p > q) THEN 1 ELSE 0,
                    eq |-> IF s[k].eq = 1 /\ p = q THEN 1 ELSE 0]
    BY <2>2, <2>6, <2>7, CompareTurnFacts, Zenon
  <2>9. s[k + 1] \in [gt : Bit, eq : Bit]
    BY <2>8 DEF Bit
  <2>10. /\ s[k + 1].gt = IF s[k].gt = 1 \/ (s[k].eq = 1 /\ p > q) THEN 1 ELSE 0
         /\ s[k + 1].eq = IF s[k].eq = 1 /\ p = q THEN 1 ELSE 0
    BY <2>8
  <2>11. \/ Same(k) /\ ~Below(k) /\ ~Above(k) /\ s[k].gt = 0 /\ s[k].eq = 1
         \/ ~Same(k) /\ Below(k) /\ ~Above(k) /\ s[k].gt = 0 /\ s[k].eq = 0
         \/ ~Same(k) /\ ~Below(k) /\ Above(k) /\ s[k].gt = 1 /\ s[k].eq = 0
    BY <1>3
  <2>12. \/ Same(k + 1) /\ ~Below(k + 1) /\ ~Above(k + 1) /\ s[k + 1].gt = 0 /\ s[k + 1].eq = 1
         \/ ~Same(k + 1) /\ Below(k + 1) /\ ~Above(k + 1) /\ s[k + 1].gt = 0 /\ s[k + 1].eq = 0
         \/ ~Same(k + 1) /\ ~Below(k + 1) /\ Above(k + 1) /\ s[k + 1].gt = 1 /\ s[k + 1].eq = 0
    BY <2>2, <2>3, <2>5, <2>10, <2>11
  <2> QED
    BY <2>1, <2>9, <2>12
<1> HIDE DEF S
<1>4. n \in S
  <2>1. 0..n \subseteq S
    BY <1>2, <1>3, TurnInduction
  <2> QED
    BY <2>1
<1>5. (Low(a, b) <=> Below(n)) /\ (Low(b, a) <=> Above(n))
  BY LenOfBytes DEF Low, LowFrom
<1> HIDE DEF Same, Below, Above
<1>6. \/ ~Below(n) /\ ~Above(n) /\ s[n].gt = 0 /\ s[n].eq = 1
      \/ Below(n) /\ ~Above(n) /\ s[n].gt = 0 /\ s[n].eq = 0
      \/ ~Below(n) /\ Above(n) /\ s[n].gt = 1 /\ s[n].eq = 0
  BY <1>4 DEF S
<1> QED
  BY <1>1, <1>5, <1>6

-----------------------------------------------------------------------------
(* Sums and differences.                                                   *)

\* In one place the bytes p and q and the carry c make the byte r and the carry d.
Place(p, q, c, r, d) ==
    /\ p \in 0..255 /\ q \in 0..255 /\ r \in 0..255 /\ c \in Bit /\ d \in Bit
    /\ r + 256 * d = p + q + c
\* The bytes of z are those of x + y and of a carry into the first place,
\* with the carries c out of the places.
Carried(n, x, y, carry, c, z) ==
    c[0] = carry /\ \A k \in 1..n : Place(x[k], y[k], c[k - 1], z[k], c[k])

\* The byte and the carry of a sum are its remainder and its quotient by
\* 256.
LEMMA PlaceByte ==
    ASSUME NEW p, NEW q, NEW c, NEW r, NEW d, Place(p, q, c, r, d)
    PROVE  r = (p + q + c) % 256 /\ d = (p + q + c) \div 256
<1>1. /\ p \in 0..255 /\ q \in 0..255 /\ r \in 0..255 /\ c \in 0..1 /\ d \in 0..1
      /\ p + q + c = 256 * d + r
  BY DEF Place, Bit
<1>2. ASSUME NEW t \in Int, t = 256 * d + r PROVE t % 256 = r /\ t \div 256 = d
  BY <1>1, <1>2
<1> QED
  BY <1>1, <1>2

\* The carry of a sum is a bit, and comes from below only when the bytes add
\* to 255.
LEMMA PlaceCarry ==
    ASSUME NEW p, NEW q, NEW c, NEW r, NEW d, Place(p, q, c, r, d)
    PROVE  d \in Bit /\ d = IF p + q = 255 THEN c ELSE IF p + q > 255 THEN 1 ELSE 0
<1>1. /\ p \in 0..255 /\ q \in 0..255 /\ r \in 0..255
      /\ p + q + c = 256 * d + r
  BY DEF Place, Bit
<1>2. (c = 0 \/ c = 1) /\ (d = 0 \/ d = 1)
  BY DEF Place, Bit
<1>3. CASE d = 0
  <2>1. c = 0 \/ c = 1
    BY <1>2
  <2> QED
    BY <1>1, <1>3, <2>1 DEF Bit
<1>4. CASE d = 1
  <2>1. c = 0 \/ c = 1
    BY <1>2
  <2> QED
    BY <1>1, <1>4, <2>1 DEF Bit
<1> QED
  BY <1>2, <1>3, <1>4

\* The byte that was added and the carry follow from the sum.
LEMMA PlaceOnce ==
    ASSUME NEW p, NEW q, NEW c, NEW r, NEW d, NEW w, NEW e, Place(p, q, c, r, d), Place(w, q, c, r, e)
    PROVE  d = e /\ p = w
<1>1. /\ p \in 0..255 /\ q \in 0..255 /\ r \in 0..255 /\ w \in 0..255 /\ c \in Int
      /\ p + q + c = 256 * d + r /\ w + q + c = 256 * e + r
  BY DEF Place, Bit
<1>2. (d = 0 \/ d = 1) /\ (e = 0 \/ e = 1)
  BY DEF Place, Bit
<1>3. d = e
  <2>1. ASSUME d = 0, e = 1 PROVE FALSE
    <3>1. p + q + c = r /\ w + q + c = 256 + r
      BY <1>1, <2>1
    <3> QED
      BY <1>1, <3>1
  <2>2. ASSUME d = 1, e = 0 PROVE FALSE
    <3>1. p + q + c = 256 + r /\ w + q + c = r
      BY <1>1, <2>2
    <3> QED
      BY <1>1, <3>1
  <2> QED
    BY <1>2, <2>1, <2>2
<1>4. p + q + c = w + q + c
  BY <1>1, <1>3
<1> QED
  BY <1>1, <1>3, <1>4

\* The highest place of some.
LEMMA Highest ==
    ASSUME NEW n \in Nat, NEW T, T \subseteq 0..n, T # {}
    PROVE  \E m \in T : \A j \in T : j <= m
<1> DEFINE S == {k \in 0..n : (\E j \in T : j <= k) => \E m \in T : m <= k /\ \A j \in T : j <= k => j <= m}
<1>1. 0 \in S
  OBVIOUS
<1>2. ASSUME NEW k \in 0..n, k < n, k \in S PROVE k + 1 \in S
  <2>1. k + 1 \in 0..n /\ \A j \in T : j <= k + 1 <=> j <= k \/ j = k + 1
    BY <1>2
  <2>2. CASE k + 1 \in T
    BY <2>1, <2>2
  <2>3. CASE k + 1 \notin T
    <3>1. \A j \in T : j <= k + 1 <=> j <= k
      BY <2>1, <2>3
    <3> QED
      BY <1>2, <2>1, <3>1
  <2> QED
    BY <2>2, <2>3
<1> HIDE DEF S
<1>3. n \in S
  <2>1. 0..n \subseteq S
    BY <1>1, <1>2, TurnInduction
  <2> QED
    BY <2>1
<1>4. \A j \in T : j <= n
  OBVIOUS
<1>5. (\E j \in T : j <= n) => \E m \in T : m <= n /\ \A j \in T : j <= n => j <= m
  BY <1>3 DEF S
<1> QED
  BY <1>4, <1>5

\* The carry into the place after k: out of k, if it decides.
LEMMA CarryOver ==
    ASSUME NEW n \in Nat, NEW x \in Bytes(n), NEW y \in Bytes(n), NEW carry, NEW k \in 1..n
    PROVE  CarryInto(x, y, carry, k + 1)
           = IF x[k] + y[k] = 255 THEN CarryInto(x, y, carry, k) ELSE IF x[k] + y[k] > 255 THEN 1 ELSE 0
<1> DEFINE D(m) == {j \in 1..m-1 : x[j] + y[j] # 255}
           Top1(m) == CHOOSE i \in D(m) : \A h \in D(m) : h <= i
<1>1. D(k + 1) = D(k) \cup (IF x[k] + y[k] = 255 THEN {} ELSE {k})
  <2>1. (k + 1) - 1 = k /\ 1..k = (1..k-1) \cup {k}
    OBVIOUS
  <2> QED
    BY <2>1
<1>2. /\ CarryInto(x, y, carry, k + 1) = IF D(k + 1) = {} THEN carry ELSE IF x[Top1(k + 1)] + y[Top1(k + 1)] > 255 THEN 1 ELSE 0
      /\ CarryInto(x, y, carry, k) = IF D(k) = {} THEN carry ELSE IF x[Top1(k)] + y[Top1(k)] > 255 THEN 1 ELSE 0
  BY DEF CarryInto
<1>3. CASE x[k] + y[k] = 255
  <2>1. D(k + 1) = D(k)
    BY <1>1, <1>3
  <2>2. Top1(k + 1) = Top1(k)
    <3> HIDE DEF D
    <3> QED
      BY <2>1
  <2> HIDE DEF D, Top1
  <2> QED
    BY <1>2, <1>3, <2>1, <2>2
<1>4. CASE x[k] + y[k] # 255
  <2>1. k \in D(k + 1) /\ \A h \in D(k + 1) : h <= k
    BY <1>4
  <2>2. D(k + 1) \subseteq Int
    OBVIOUS
  <2>3. Top1(k + 1) = k
    <3> HIDE DEF D
    <3>1. \A i \in D(k + 1) : (\A h \in D(k + 1) : h <= i) => i = k
      BY <2>1, <2>2
    <3> QED
      BY <2>1, <3>1
  <2>4. D(k + 1) # {}
    BY <2>1
  <2> HIDE DEF D, Top1
  <2> QED
    BY <1>2, <1>4, <2>3, <2>4
<1> QED
  BY <1>3, <1>4

\* What is carried from place to place is the sum.
LEMMA CarriedIsAdded ==
    ASSUME NEW n \in Nat, NEW x \in Bytes(n), NEW y \in Bytes(n), NEW z \in Bytes(n),
           NEW carry \in Bit, NEW c, Carried(n, x, y, carry, c, z)
    PROVE  z = Added(x, y, carry)
<1> DEFINE S == {k \in 0..n : c[k] \in Bit /\ c[k] = CarryInto(x, y, carry, k + 1)}
<1>2. 0 \in S
  <2>1. CarryInto(x, y, carry, 1) = carry
    <3>1. {j \in 1..1-1 : x[j] + y[j] # 255} = {}
      OBVIOUS
    <3> QED
      BY <3>1 DEF CarryInto
  <2> QED
    BY <2>1 DEF Carried
<1>3. ASSUME NEW k \in 0..n, k < n, k \in S PROVE k + 1 \in S
  <2>1. k + 1 \in 1..n /\ k + 1 \in 0..n /\ (k + 1) - 1 = k
    BY <1>3
  <2>2. Place(x[k + 1], y[k + 1], c[k], z[k + 1], c[k + 1])
    BY <2>1 DEF Carried
  <2>3. c[k + 1] \in Bit
        /\ c[k + 1] = IF x[k + 1] + y[k + 1] = 255 THEN c[k] ELSE IF x[k + 1] + y[k + 1] > 255 THEN 1 ELSE 0
    BY <2>2, PlaceCarry
  <2>4. CarryInto(x, y, carry, (k + 1) + 1)
        = IF x[k + 1] + y[k + 1] = 255 THEN CarryInto(x, y, carry, k + 1) ELSE IF x[k + 1] + y[k + 1] > 255 THEN 1 ELSE 0
    BY <2>1, CarryOver
  <2> QED
    BY <1>3, <2>1, <2>3, <2>4
<1> HIDE DEF S
<1>4. 0..n \subseteq S
  BY <1>2, <1>3, TurnInduction
<1>5. \A k \in 1..n : z[k] = (x[k] + y[k] + CarryInto(x, y, carry, k)) % 256
  <2> SUFFICES ASSUME NEW k \in 1..n PROVE z[k] = (x[k] + y[k] + CarryInto(x, y, carry, k)) % 256
    OBVIOUS
  <2>1. k - 1 \in 0..n /\ (k - 1) + 1 = k
    OBVIOUS
  <2>2. c[k - 1] = CarryInto(x, y, carry, k)
    BY <1>4, <2>1 DEF S
  <2>3. Place(x[k], y[k], c[k - 1], z[k], c[k])
    BY DEF Carried
  <2>4. z[k] = (x[k] + y[k] + c[k - 1]) % 256
    BY <2>3, PlaceByte
  <2> QED
    BY <2>2, <2>4
<1>6. Added(x, y, carry) = [k \in 1..n |-> (x[k] + y[k] + CarryInto(x, y, carry, k)) % 256]
  BY LenOfBytes DEF Added
<1>7. z = [k \in 1..n |-> z[k]]
  BY DEF Bytes
<1> QED
  BY <1>5, <1>6, <1>7

\* Two numbers that make the same sum with a third are the same.
LEMMA CarriedOnce ==
    ASSUME NEW n \in Nat, NEW x \in Bytes(n), NEW w \in Bytes(n), NEW y \in Bytes(n), NEW z \in Bytes(n),
           NEW c, NEW d, Carried(n, x, y, 0, c, z), Carried(n, w, y, 0, d, z)
    PROVE  w = x
<1>2. ASSUME NEW k \in 1..n, c[k - 1] = d[k - 1] PROVE c[k] = d[k] /\ x[k] = w[k]
  <2>1. Place(x[k], y[k], c[k - 1], z[k], c[k]) /\ Place(w[k], y[k], c[k - 1], z[k], d[k])
    BY <1>2 DEF Carried
  <2> QED
    BY <2>1, PlaceOnce
<1> DEFINE S == {k \in 0..n : c[k] = d[k]}
<1>3. 0 \in S
  BY DEF Carried
<1>4. ASSUME NEW k \in 0..n, k < n, k \in S PROVE k + 1 \in S
  <2>1. k + 1 \in 1..n /\ k + 1 \in 0..n /\ (k + 1) - 1 = k
    BY <1>4
  <2> QED
    BY <1>2, <1>4, <2>1
<1> HIDE DEF S
<1>5. 0..n \subseteq S
  BY <1>3, <1>4, TurnInduction
<1>6. \A k \in 1..n : x[k] = w[k]
  <2> SUFFICES ASSUME NEW k \in 1..n PROVE x[k] = w[k]
    OBVIOUS
  <2>1. k - 1 \in 0..n
    OBVIOUS
  <2>2. c[k - 1] = d[k - 1]
    BY <1>5, <2>1 DEF S
  <2> QED
    BY <1>2, <2>2
<1> QED
  BY <1>6 DEF Bytes

\* What a turn of sodium_add leaves is a sum of bytes.
LEMMA PlaceMade ==
    ASSUME NEW p \in 0..255, NEW q \in 0..255, NEW c \in Bit
    PROVE  Place(p, q, c, (c + p + q) % 256, (c + p + q) \div 256)
<1>1. c \in 0..1
  BY DEF Bit
<1>2. PICK t \in Nat : t = c + p + q
  BY <1>1
<1>3. t % 256 \in 0..255 /\ t \div 256 \in Nat /\ t = 256 * (t \div 256) + (t % 256)
  BY Parts
<1>4. t \div 256 \in 0..1
  BY <1>1, <1>2, <1>3
<1>5. Place(p, q, c, t % 256, t \div 256)
  BY <1>1, <1>2, <1>3, <1>4 DEF Place, Bit
<1> QED
  BY <1>2, <1>5

\* What a turn of sodium_sub leaves is what, added back, gives the byte it
\* took from.
LEMMA PlaceTaken ==
    ASSUME NEW p \in 0..255, NEW q \in 0..255, NEW c \in Bit
    PROVE  Place((p - q - c) % 256, q, c, p, IF p < q + c THEN 1 ELSE 0)
<1>1. c \in 0..1
  BY DEF Bit
<1>2. PICK t \in Int : t = p - q - c
  BY <1>1
<1>3. (0 <= t /\ t < 256 => t % 256 = t) /\ (-256 <= t /\ t < 0 => t % 256 = t + 256)
  BY Wrapped
<1>4. CASE p < q + c
  <2>1. -256 <= t /\ t < 0 /\ t + 256 \in 0..255
    BY <1>1, <1>2, <1>4
  <2>2. t % 256 = t + 256
    BY <1>3, <2>1
  <2>3. Place(t % 256, q, c, p, 1)
    BY <1>1, <1>2, <2>1, <2>2 DEF Place, Bit
  <2> QED
    BY <1>2, <1>4, <2>3
<1>5. CASE ~(p < q + c)
  <2>1. 0 <= t /\ t < 256 /\ t \in 0..255
    BY <1>1, <1>2, <1>5
  <2>2. t % 256 = t
    BY <1>3, <2>1
  <2>3. Place(t % 256, q, c, p, 0)
    BY <1>1, <1>2, <2>1, <2>2 DEF Place, Bit
  <2> QED
    BY <1>2, <1>5, <2>3
<1> QED
  BY <1>4, <1>5

\* The loop of sodium_add and sodium_increment.
LEMMA LoopedLoop ==
    ASSUME NEW n \in Nat, NEW a \in Bytes(n), NEW b \in Bytes(n), NEW carry \in Bit
    PROVE  \E c : /\ c[0] = carry /\ \A k \in 1..n : c[k] = (c[k - 1] + a[k] + b[k]) \div 256
                  /\ Looped(a, b, carry) = [k \in 1..n |-> (c[k - 1] + a[k] + b[k]) % 256]
<1> DEFINE st == [p \in (1..n) \X Bit |-> (p[2] + a[p[1]] + b[p[1]]) \div 256]
           F(g) == [k \in 0..n |-> IF k = 0 THEN carry ELSE (g[k - 1] + a[k] + b[k]) \div 256]
           c == CHOOSE g : g = F(g)
<1>1. st \in Steps(n, Bit)
  <2>1. \A k \in 1..n, v \in Bit : (v + a[k] + b[k]) \div 256 \in Bit
    <3> SUFFICES ASSUME NEW k \in 1..n, NEW v \in Bit PROVE (v + a[k] + b[k]) \div 256 \in Bit
      OBVIOUS
    <3>1. a[k] \in 0..255 /\ b[k] \in 0..255
      BY DEF Bytes
    <3>2. Place(a[k], b[k], v, (v + a[k] + b[k]) % 256, (v + a[k] + b[k]) \div 256)
      BY <3>1, PlaceMade, Zenon
    <3> QED
      BY <3>2 DEF Place
  <2> QED
    BY <2>1 DEF Steps
<1>2. \E g \in [0..n -> Bit] : g = Turns(g, n, carry, st)
  <2> HIDE DEF st
  <2> QED
    BY <1>1, LoopExists
<1>3. \E g : g = F(g)
  <2>1. PICK g \in [0..n -> Bit] : g = Turns(g, n, carry, st)
    BY <1>2
  <2>2. \A k \in 0..n : k # 0 => st[<<k, g[k - 1]>>] = (g[k - 1] + a[k] + b[k]) \div 256
    OBVIOUS
  <2>3. Turns(g, n, carry, st) = F(g)
    BY <2>2 DEF Turns
  <2> QED
    BY <2>1, <2>3
<1>4. c = F(c)
  BY <1>3
<1>5. c[0] = carry /\ \A k \in 1..n : c[k] = (c[k - 1] + a[k] + b[k]) \div 256
  <2> HIDE DEF c
  <2>1. F(c)[0] = carry /\ \A k \in 1..n : F(c)[k] = (c[k - 1] + a[k] + b[k]) \div 256
    OBVIOUS
  <2> HIDE DEF F
  <2> QED
    BY <1>4, <2>1
<1>6. Looped(a, b, carry) = [k \in 1..n |-> (c[k - 1] + a[k] + b[k]) % 256]
  <2>1. Len(a) = n
    BY LenOfBytes
  <2> QED
    BY <2>1 DEF Looped
<1> HIDE DEF c
<1> QED
  BY <1>5, <1>6

\* The portable loop of sodium_add and sodium_increment leaves a sum with
\* carries.
LEMMA LoopedCarries ==
    ASSUME NEW n \in Nat, NEW a \in Bytes(n), NEW b \in Bytes(n), NEW carry \in Bit
    PROVE  Looped(a, b, carry) \in Bytes(n) /\ \E c : Carried(n, a, b, carry, c, Looped(a, b, carry))
<1>1. PICK c : /\ c[0] = carry /\ \A k \in 1..n : c[k] = (c[k - 1] + a[k] + b[k]) \div 256
               /\ Looped(a, b, carry) = [k \in 1..n |-> (c[k - 1] + a[k] + b[k]) % 256]
  BY LoopedLoop
<1> DEFINE z == Looped(a, b, carry)
<1>2. \A k \in 1..n : z[k] = (c[k - 1] + a[k] + b[k]) % 256
  BY <1>1
<1>3. z = [k \in 1..n |-> z[k]]
  BY <1>1
<1> HIDE DEF z
<1>4. ASSUME NEW k \in 1..n, c[k - 1] \in Bit PROVE Place(a[k], b[k], c[k - 1], z[k], c[k])
  <2>1. a[k] \in 0..255 /\ b[k] \in 0..255
    BY DEF Bytes
  <2>2. Place(a[k], b[k], c[k - 1], (c[k - 1] + a[k] + b[k]) % 256, (c[k - 1] + a[k] + b[k]) \div 256)
    BY <1>4, <2>1, PlaceMade, Zenon
  <2> QED
    BY <1>1, <1>2, <2>2
<1> DEFINE S == {k \in 0..n : c[k] \in Bit}
<1>5. 0 \in S
  BY <1>1
<1>6. ASSUME NEW k \in 0..n, k < n, k \in S PROVE k + 1 \in S
  <2>1. k + 1 \in 1..n /\ k + 1 \in 0..n /\ (k + 1) - 1 = k
    BY <1>6
  <2>2. Place(a[k + 1], b[k + 1], c[k], z[k + 1], c[k + 1])
    BY <1>4, <1>6, <2>1
  <2> QED
    BY <2>1, <2>2 DEF Place
<1> HIDE DEF S
<1>7. 0..n \subseteq S
  BY <1>5, <1>6, TurnInduction
<1>8. \A k \in 1..n : Place(a[k], b[k], c[k - 1], z[k], c[k])
  <2> SUFFICES ASSUME NEW k \in 1..n PROVE Place(a[k], b[k], c[k - 1], z[k], c[k])
    OBVIOUS
  <2>1. k - 1 \in 0..n
    OBVIOUS
  <2>2. c[k - 1] \in Bit
    BY <1>7, <2>1 DEF S
  <2> QED
    BY <1>4, <2>2
<1>9. Carried(n, a, b, carry, c, z)
  BY <1>1, <1>8 DEF Carried
<1>10. z \in Bytes(n)
  <2>1. \A k \in 1..n : z[k] \in 0..255
    BY <1>8 DEF Place
  <2> QED
    BY <1>3, <2>1 DEF Bytes
<1> QED
  BY <1>9, <1>10 DEF z

\* The loop of sodium_sub.
LEMMA LoopedSubLoop ==
    ASSUME NEW n \in Nat, NEW a \in Bytes(n), NEW b \in Bytes(n)
    PROVE  \E c : /\ c[0] = 0 /\ \A k \in 1..n : c[k] = Top(Minus16(a[k], b[k] + c[k - 1])) % 2
                  /\ LoopedSub(a, b) = [k \in 1..n |-> (a[k] - b[k] - c[k - 1]) % 256]
<1> DEFINE st == [p \in (1..n) \X Bit |-> Top(Minus16(a[p[1]], b[p[1]] + p[2])) % 2]
           F(g) == [k \in 0..n |-> IF k = 0 THEN 0 ELSE Top(Minus16(a[k], b[k] + g[k - 1])) % 2]
           c == CHOOSE g : g = F(g)
<1>1. st \in Steps(n, Bit)
  <2>1. \A x \in Int : x % 2 \in Bit
    BY DEF Bit
  <2>2. \A k \in 1..n, v \in Bit : Top(Minus16(a[k], b[k] + v)) % 2 \in Bit
    <3> SUFFICES ASSUME NEW k \in 1..n, NEW v \in Bit PROVE Top(Minus16(a[k], b[k] + v)) % 2 \in Bit
      OBVIOUS
    <3>1. a[k] \in 0..255 /\ b[k] \in 0..255 /\ v \in 0..1
      BY DEF Bytes, Bit
    <3>2. b[k] + v \in 0..256
      BY <3>1
    <3>3. Top(Minus16(a[k], b[k] + v)) = IF a[k] < b[k] + v THEN 255 ELSE 0
      BY <3>1, <3>2, TopOfDifference, Zenon
    <3>4. Top(Minus16(a[k], b[k] + v)) \in Int
      BY <3>3
    <3> QED
      BY <2>1, <3>4
  <2> QED
    BY <2>2 DEF Steps
<1>2. \E g \in [0..n -> Bit] : g = Turns(g, n, 0, st)
  <2>1. 0 \in Bit
    BY DEF Bit
  <2> HIDE DEF st
  <2> QED
    BY <1>1, <2>1, LoopExists
<1>3. \E g : g = F(g)
  <2>1. PICK g \in [0..n -> Bit] : g = Turns(g, n, 0, st)
    BY <1>2
  <2>2. \A k \in 0..n : k # 0 => st[<<k, g[k - 1]>>] = Top(Minus16(a[k], b[k] + g[k - 1])) % 2
    OBVIOUS
  <2>3. Turns(g, n, 0, st) = F(g)
    BY <2>2 DEF Turns
  <2> QED
    BY <2>1, <2>3
<1>4. c = F(c)
  BY <1>3
<1>5. c[0] = 0 /\ \A k \in 1..n : c[k] = Top(Minus16(a[k], b[k] + c[k - 1])) % 2
  <2> HIDE DEF c
  <2>1. F(c)[0] = 0 /\ \A k \in 1..n : F(c)[k] = Top(Minus16(a[k], b[k] + c[k - 1])) % 2
    OBVIOUS
  <2> HIDE DEF F
  <2> QED
    BY <1>4, <2>1
<1>6. LoopedSub(a, b) = [k \in 1..n |-> (a[k] - b[k] - c[k - 1]) % 256]
  <2>1. Len(a) = n
    BY LenOfBytes
  <2> QED
    BY <2>1 DEF LoopedSub
<1> HIDE DEF c
<1> QED
  BY <1>5, <1>6

\* The portable loop of sodium_sub leaves what, added back, gives the
\* number.
LEMMA LoopedSubTakes ==
    ASSUME NEW n \in Nat, NEW a \in Bytes(n), NEW b \in Bytes(n)
    PROVE  LoopedSub(a, b) \in Bytes(n) /\ \E c : Carried(n, LoopedSub(a, b), b, 0, c, a)
<1>1. PICK c : /\ c[0] = 0 /\ \A k \in 1..n : c[k] = Top(Minus16(a[k], b[k] + c[k - 1])) % 2
               /\ LoopedSub(a, b) = [k \in 1..n |-> (a[k] - b[k] - c[k - 1]) % 256]
  BY LoopedSubLoop
<1> DEFINE z == LoopedSub(a, b)
<1>2. \A k \in 1..n : z[k] = (a[k] - b[k] - c[k - 1]) % 256
  BY <1>1
<1>3. z = [k \in 1..n |-> z[k]]
  BY <1>1
<1> HIDE DEF z
<1>4. ASSUME NEW k \in 1..n, c[k - 1] \in Bit PROVE Place(z[k], b[k], c[k - 1], a[k], c[k])
  <2>1. a[k] \in 0..255 /\ b[k] \in 0..255
    BY DEF Bytes
  <2>2. b[k] + c[k - 1] \in 0..256
    BY <1>4, <2>1 DEF Bit
  <2>3. Top(Minus16(a[k], b[k] + c[k - 1])) = IF a[k] < b[k] + c[k - 1] THEN 255 ELSE 0
    BY <2>1, <2>2, TopOfDifference, Zenon
  <2>4. 255 % 2 = 1 /\ 0 % 2 = 0
    OBVIOUS
  <2>5. c[k] = IF a[k] < b[k] + c[k - 1] THEN 1 ELSE 0
    BY <1>1, <2>3, <2>4
  <2>6. Place((a[k] - b[k] - c[k - 1]) % 256, b[k], c[k - 1], a[k], IF a[k] < b[k] + c[k - 1] THEN 1 ELSE 0)
    <3>1. \A c0 \in Bit : Place((a[k] - b[k] - c0) % 256, b[k], c0, a[k], IF a[k] < b[k] + c0 THEN 1 ELSE 0)
      BY <2>1, PlaceTaken, Zenon
    <3> QED
      BY <1>4, <3>1, Zenon
  <2> QED
    BY <1>2, <2>5, <2>6
<1> DEFINE S == {k \in 0..n : c[k] \in Bit}
<1>5. 0 \in S
  BY <1>1 DEF Bit
<1>6. ASSUME NEW k \in 0..n, k < n, k \in S PROVE k + 1 \in S
  <2>1. k + 1 \in 1..n /\ k + 1 \in 0..n /\ (k + 1) - 1 = k
    BY <1>6
  <2>2. Place(z[k + 1], b[k + 1], c[k], a[k + 1], c[k + 1])
    BY <1>4, <1>6, <2>1
  <2> QED
    BY <2>1, <2>2 DEF Place
<1> HIDE DEF S
<1>7. 0..n \subseteq S
  BY <1>5, <1>6, TurnInduction
<1>8. \A k \in 1..n : Place(z[k], b[k], c[k - 1], a[k], c[k])
  <2> SUFFICES ASSUME NEW k \in 1..n PROVE Place(z[k], b[k], c[k - 1], a[k], c[k])
    OBVIOUS
  <2>1. k - 1 \in 0..n
    OBVIOUS
  <2>2. c[k - 1] \in Bit
    BY <1>7, <2>1 DEF S
  <2> QED
    BY <1>4, <2>2
<1>9. Carried(n, z, b, 0, c, a)
  BY <1>1, <1>8 DEF Carried
<1>10. z \in Bytes(n)
  <2>1. \A k \in 1..n : z[k] \in 0..255
    BY <1>8 DEF Place
  <2> QED
    BY <1>3, <2>1 DEF Bytes
<1> QED
  BY <1>9, <1>10 DEF z

-----------------------------------------------------------------------------
(* Words of two bytes: two places at once.                                 *)
WordOf(s, r, v, e) ==
    r \in 0..255 /\ v \in 0..255 /\ e \in Bit /\ s \in Int /\ s = (r + 256 * v) + 65536 * e

\* The sum of two words is the sums of their bytes, with the carry of the
\* lower in the higher.
LEMMA WordPlaces ==
    ASSUME NEW p, NEW q, NEW c, NEW r, NEW d, NEW t, NEW u, NEW v, NEW e,
           Place(p, q, c, r, d), Place(t, u, d, v, e)
    PROVE  WordOf((p + 256 * t) + (q + 256 * u) + c, r, v, e)
<1>1. p + q + c = r + 256 * d /\ t + u + d = v + 256 * e
  BY DEF Place
<1>2. /\ p \in Int /\ q \in Int /\ c \in Int /\ r \in Int /\ d \in Int
      /\ t \in Int /\ u \in Int /\ v \in Int /\ e \in Int
  BY DEF Place, Bit
<1>3. (p + 256 * t) + (q + 256 * u) + c = (r + 256 * v) + 65536 * e
  BY <1>1, <1>2
<1>4. r \in 0..255 /\ v \in 0..255 /\ e \in Bit
  BY DEF Place
<1> QED
  BY <1>2, <1>3, <1>4 DEF WordOf

\* The bytes of a word and what is above it.
LEMMA WordParts ==
    ASSUME NEW s, NEW r, NEW v, NEW e, WordOf(s, r, v, e)
    PROVE  ByteOf(s, 1) = r /\ ByteOf(s, 2) = v /\ s \div Uint = e
<1>0. r \in 0..255 /\ v \in 0..255 /\ e \in 0..1 /\ s \in Int /\ s = (r + 256 * v) + 65536 * e
  BY DEF WordOf, Bit
<1>1. s = 256 * (v + 256 * e) + r /\ v + 256 * e \in Nat
  BY <1>0
<1>2. s \div 256 = v + 256 * e /\ s % 256 = r
  <2>1. PICK w \in Nat : w = v + 256 * e
    BY <1>1
  <2>2. s = 256 * w + r
    BY <1>1, <2>1
  <2>3. s \div 256 = w /\ s % 256 = r
    BY <1>0, <2>1, <2>2
  <2> QED
    BY <2>1, <2>3
<1>3. (v + 256 * e) % 256 = v
  <2>1. e = 0 \/ e = 1
    BY <1>0
  <2>2. v % 256 = v /\ (v + 256) % 256 = v
    BY <1>0
  <2> QED
    BY <1>0, <2>1, <2>2
<1>4. 1 % 2 = 1 /\ 2 % 2 = 0
  OBVIOUS
<1>5. s \div Uint = e
  <2>1. PICK w \in Nat : w = r + 256 * v
    BY <1>0
  <2>2. w <= 65535 /\ s = 65536 * e + w
    BY <1>0, <2>1
  <2>3. s \div 65536 = e
    BY <1>0, <2>1, <2>2
  <2> QED
    BY <2>3 DEF Uint
<1> QED
  BY <1>2, <1>3, <1>4, <1>5 DEF ByteOf

\* An odd and an even place in a word.
LEMMA PlacesOfWord ==
    ASSUME NEW n \in Nat, NEW k \in 1..n
    PROVE  \E w \in 1..((n + 1) \div 2) :
               /\ (k + 1) \div 2 = w
               /\ (k = 2 * w - 1 /\ k % 2 = 1) \/ (k = 2 * w /\ k % 2 = 0 /\ 2 * w <= n)
<1> DEFINE w == (k + 1) \div 2
<1>1. w \in Nat /\ (k = 2 * w - 1 \/ k = 2 * w)
  OBVIOUS
<1>2. w <= (n + 1) \div 2 /\ 1 <= w
  OBVIOUS
<1>3. k = 2 * w - 1 => k % 2 = 1
  OBVIOUS
<1>4. k = 2 * w => k % 2 = 0
  OBVIOUS
<1>5. k = 2 * w => 2 * w <= n
  OBVIOUS
<1>6. (n + 1) \div 2 \in Nat
  OBVIOUS
<1> HIDE DEF w
<1>7. w \in 1..((n + 1) \div 2)
  BY <1>1, <1>2, <1>6
<1> QED
  BY <1>1, <1>3, <1>4, <1>5, <1>7 DEF w

-----------------------------------------------------------------------------
(* The chains of words.                                                    *)

\* One word of a sum: the carry out of it, and its bytes.
SumOf(a, b, c, w) == WordAt(a, w) + WordAt(b, w) + c

SumPlaces(a, b, c, w, d) ==
    /\ Place(a[2 * w - 1], b[2 * w - 1], c, ByteOf(SumOf(a, b, c, w), 1), d)
    /\ Place(a[2 * w], b[2 * w], d, ByteOf(SumOf(a, b, c, w), 2), SumOf(a, b, c, w) \div Values(a, w))
    /\ d = (c + a[2 * w - 1] + b[2 * w - 1]) \div 256

\* A whole word of the chain that adds with carry is the sums of its two
\* bytes.
LEMMA SumOfWord ==
    ASSUME NEW n \in Nat, NEW a \in Bytes(n), NEW b \in Bytes(n), NEW c \in Bit,
           NEW w \in Nat, 1 <= w, 2 * w <= n
    PROVE  \E d \in Bit : SumPlaces(a, b, c, w, d)
<1> DEFINE p == a[2 * w - 1]  q == b[2 * w - 1]  t == a[2 * w]  u == b[2 * w]
           r == (c + p + q) % 256  d == (c + p + q) \div 256
           v == (d + t + u) % 256  e == (d + t + u) \div 256
           s == SumOf(a, b, c, w)
<1>1. Len(a) = n /\ Len(b) = n
  BY LenOfBytes
<1>2. p \in 0..255 /\ q \in 0..255 /\ t \in 0..255 /\ u \in 0..255
  <2>1. \A k \in 1..n : a[k] \in 0..255 /\ b[k] \in 0..255
    BY DEF Bytes
  <2>2. 2 * w - 1 \in 1..n /\ 2 * w \in 1..n
    OBVIOUS
  <2> QED
    BY <2>1, <2>2
<1>3. WordAt(a, w) = p + 256 * t /\ WordAt(b, w) = q + 256 * u /\ Values(a, w) = Uint
  BY <1>1 DEF WordAt, Values
<1> HIDE DEF p, q, t, u
<1>4. Place(p, q, c, r, d)
  BY <1>2, PlaceMade, Zenon
<1>5. d \in Bit
  BY <1>4 DEF Place
<1>6. Place(t, u, d, v, e)
  <2> HIDE DEF d
  <2> QED
    BY <1>2, <1>5, PlaceMade, Zenon
<1> HIDE DEF r, d, v, e
<1>7. WordOf(s, r, v, e)
  BY <1>3, <1>4, <1>6, WordPlaces DEF SumOf
<1> HIDE DEF s
<1>10. ByteOf(s, 1) = r /\ ByteOf(s, 2) = v /\ s \div Uint = e
  BY <1>7, WordParts
<1>11. d = (c + p + q) \div 256
  BY DEF d
<1> QED
  BY <1>3, <1>4, <1>5, <1>6, <1>10, <1>11 DEF s, p, q, t, u, SumPlaces

\* A carry may be added first.
LEMMA LastFirst ==
    ASSUME NEW x \in 0..255, NEW y \in 0..255, NEW c \in Bit
    PROVE  x + y + c = c + x + y
<1>1. c \in 0..1
  BY DEF Bit
<1> QED
  BY <1>1

\* A last word of one byte.
LEMMA SumOfLast ==
    ASSUME NEW n \in Nat, NEW a \in Bytes(n), NEW b \in Bytes(n), NEW c \in Bit,
           NEW w \in Nat, n = 2 * w - 1
    PROVE  Place(a[n], b[n], c, ByteOf(SumOf(a, b, c, w), 1), SumOf(a, b, c, w) \div Values(a, w))
<1>1. Len(a) = n /\ Len(b) = n /\ n \in 1..n /\ 2 * w > n
  BY LenOfBytes
<1>2. WordAt(a, w) = a[n] /\ WordAt(b, w) = b[n] /\ Values(a, w) = 256
  BY <1>1 DEF WordAt, Values
<1>3. a[n] \in 0..255 /\ b[n] \in 0..255
  BY <1>1 DEF Bytes
<1>4. Place(a[n], b[n], c, (c + a[n] + b[n]) % 256, (c + a[n] + b[n]) \div 256)
  BY <1>3, PlaceMade, Zenon
<1>5. SumOf(a, b, c, w) = c + a[n] + b[n]
  <2>1. SumOf(a, b, c, w) = a[n] + b[n] + c
    BY <1>2 DEF SumOf
  <2>2. a[n] + b[n] + c = c + a[n] + b[n]
    BY <1>3, LastFirst, Zenon
  <2> QED
    BY <2>1, <2>2, Zenon
<1>6. 1 % 2 = 1
  OBVIOUS
<1> QED
  BY <1>2, <1>4, <1>5, <1>6 DEF ByteOf

\* The chain of sodium_add and sodium_increment.
ChainOf(n, a, b, carry, c) ==
    /\ c[0] = carry
    /\ \A w \in 1..((n + 1) \div 2) : c[w] = SumOf(a, b, c[w - 1], w) \div Values(a, w)
    /\ Chained(a, b, carry) = [k \in 1..n |-> ByteOf(SumOf(a, b, c[((k + 1) \div 2) - 1], (k + 1) \div 2), k)]

\* The chain of words has a carry for each word.
LEMMA ChainedLoop ==
    ASSUME NEW n \in Nat, NEW a \in Bytes(n), NEW b \in Bytes(n), NEW carry \in Bit
    PROVE  \E c : ChainOf(n, a, b, carry, c)
<1> DEFINE m == (n + 1) \div 2
           st == [p \in (1..m) \X Bit |-> SumOf(a, b, p[2], p[1]) \div Values(a, p[1])]
           F(g) == [k \in 0..m |-> IF k = 0 THEN carry ELSE SumOf(a, b, g[k - 1], k) \div Values(a, k)]
           c == CHOOSE g : g = F(g)
<1>0. m \in Nat
  OBVIOUS
<1>1. st \in Steps(m, Bit)
  <2>1. \A w \in 1..m, v \in Bit : SumOf(a, b, v, w) \div Values(a, w) \in Bit
    <3> SUFFICES ASSUME NEW w \in 1..m, NEW v \in Bit PROVE SumOf(a, b, v, w) \div Values(a, w) \in Bit
      OBVIOUS
    <3>1. CASE 2 * w <= n
      <4>1. w \in Nat /\ 1 <= w
        OBVIOUS
      <4>2. PICK d \in Bit : SumPlaces(a, b, v, w, d)
        BY <3>1, <4>1, SumOfWord
      <4> QED
        BY <4>2 DEF SumPlaces, Place
    <3>2. CASE 2 * w > n
      <4>1. w \in Nat /\ n = 2 * w - 1
        BY <3>2
      <4>2. Place(a[n], b[n], v, ByteOf(SumOf(a, b, v, w), 1), SumOf(a, b, v, w) \div Values(a, w))
        BY <4>1, SumOfLast
      <4> QED
        BY <4>2 DEF Place
    <3> QED
      BY <3>1, <3>2
  <2> HIDE DEF m
  <2> QED
    BY <2>1 DEF Steps
<1> HIDE DEF m
<1>2. \E g \in [0..m -> Bit] : g = Turns(g, m, carry, st)
  <2> HIDE DEF st
  <2> QED
    BY <1>0, <1>1, LoopExists
<1>3. \E g : g = F(g)
  <2>1. PICK g \in [0..m -> Bit] : g = Turns(g, m, carry, st)
    BY <1>2
  <2>2. \A k \in 0..m : k # 0 => st[<<k, g[k - 1]>>] = SumOf(a, b, g[k - 1], k) \div Values(a, k)
    BY <1>0
  <2>3. Turns(g, m, carry, st) = F(g)
    BY <2>2 DEF Turns
  <2> QED
    BY <2>1, <2>3
<1>4. c = F(c)
  BY <1>3
<1>5. c[0] = carry /\ \A k \in 1..m : c[k] = SumOf(a, b, c[k - 1], k) \div Values(a, k)
  <2> HIDE DEF c
  <2>1. F(c)[0] = carry /\ \A k \in 1..m : F(c)[k] = SumOf(a, b, c[k - 1], k) \div Values(a, k)
    BY <1>0
  <2> HIDE DEF F
  <2> QED
    BY <1>4, <2>1
<1>6. Chained(a, b, carry) = [k \in 1..n |-> ByteOf(SumOf(a, b, c[((k + 1) \div 2) - 1], (k + 1) \div 2), k)]
  <2>1. Len(a) = n /\ Words2(a) = m
    BY LenOfBytes DEF Words2, m
  <2> QED
    BY <2>1 DEF Chained, SumOf
<1> HIDE DEF c
<1> QED
  BY <1>5, <1>6 DEF m, ChainOf

\* Halves of the number of a place.
LEMMA Halved ==
    ASSUME NEW w \in Nat, 1 <= w
    PROVE  /\ (2 * w) % 2 = 0 /\ (2 * w) \div 2 = w /\ (2 * w + 1) \div 2 = w
           /\ (2 * w - 1) % 2 = 1 /\ (2 * w - 1) \div 2 = w - 1 /\ ((2 * w - 1) + 1) \div 2 = w
<1>1. (2 * w) % 2 = 0 /\ (2 * w) \div 2 = w
  OBVIOUS
<1>2. (2 * w + 1) \div 2 = w
  OBVIOUS
<1>3. (2 * w - 1) % 2 = 1 /\ (2 * w - 1) \div 2 = w - 1
  OBVIOUS
<1>4. ((2 * w - 1) + 1) \div 2 = w
  OBVIOUS
<1> QED
  BY <1>1, <1>2, <1>3, <1>4

\* A byte is the lower or the higher of its word as its place is odd or
\* even.
LEMMA ByteOfParity ==
    ASSUME NEW s, NEW k \in Int
    PROVE  ByteOf(s, k) = IF k % 2 = 1 THEN ByteOf(s, 1) ELSE ByteOf(s, 2)
<1>1. 1 % 2 = 1 /\ 2 % 2 # 1
  OBVIOUS
<1> QED
  BY <1>1 DEF ByteOf

\* The carries between the bytes of words with the carries c between them.
BytesCarry(n, a, b, c) ==
    [k \in 0..n |-> IF k % 2 = 0 THEN c[k \div 2]
                    ELSE IF k = n THEN c[(k + 1) \div 2]
                    ELSE (c[(k - 1) \div 2] + a[k] + b[k]) \div 256]

\* The carries of bytes at the places of a word.
LEMMA BytesCarryAt ==
    ASSUME NEW n \in Nat, NEW a, NEW b, NEW c, NEW w \in Nat, 1 <= w
    PROVE  /\ 2 * w <= n => /\ BytesCarry(n, a, b, c)[2 * w - 2] = c[w - 1]
                            /\ BytesCarry(n, a, b, c)[2 * w - 1] = (c[w - 1] + a[2 * w - 1] + b[2 * w - 1]) \div 256
                            /\ BytesCarry(n, a, b, c)[2 * w] = c[w]
           /\ n = 2 * w - 1 => /\ BytesCarry(n, a, b, c)[n - 1] = c[w - 1]
                               /\ BytesCarry(n, a, b, c)[n] = c[w]
<1>1. /\ (2 * w) % 2 = 0 /\ (2 * w) \div 2 = w
      /\ (2 * w - 1) % 2 = 1 /\ ((2 * w - 1) + 1) \div 2 = w
  BY Halved
<1>2. (2 * w - 2) % 2 = 0 /\ (2 * w - 2) \div 2 = w - 1
  OBVIOUS
<1>3. ((2 * w - 1) - 1) \div 2 = w - 1
  OBVIOUS
<1>4. CASE 2 * w <= n
  <2>1. 2 * w \in 0..n /\ 2 * w - 1 \in 0..n /\ 2 * w - 2 \in 0..n /\ 2 * w - 1 # n /\ n # 2 * w - 1
    BY <1>4
  <2>2. BytesCarry(n, a, b, c)[2 * w - 2] = c[w - 1]
    BY <1>2, <2>1 DEF BytesCarry
  <2>3. BytesCarry(n, a, b, c)[2 * w - 1] = (c[w - 1] + a[2 * w - 1] + b[2 * w - 1]) \div 256
    BY <1>1, <1>3, <2>1 DEF BytesCarry
  <2>4. BytesCarry(n, a, b, c)[2 * w] = c[w]
    BY <1>1, <2>1 DEF BytesCarry
  <2> QED
    BY <1>4, <2>1, <2>2, <2>3, <2>4
<1>5. CASE n = 2 * w - 1
  <2>1. n \in 0..n /\ n - 1 \in 0..n /\ n - 1 = 2 * w - 2
    BY <1>5
  <2>2. BytesCarry(n, a, b, c)[n - 1] = c[w - 1]
    BY <1>2, <2>1 DEF BytesCarry
  <2>3. BytesCarry(n, a, b, c)[n] = c[w]
    BY <1>1, <1>5, <2>1 DEF BytesCarry
  <2> QED
    BY <1>5, <2>2, <2>3
<1> QED
  BY <1>4, <1>5

\* The chain of words leaves a sum with carries, whether the last word is
\* whole or one byte.
LEMMA ChainedCarries ==
    ASSUME NEW n \in Nat, NEW a \in Bytes(n), NEW b \in Bytes(n), NEW carry \in Bit
    PROVE  Chained(a, b, carry) \in Bytes(n) /\ \E c : Carried(n, a, b, carry, c, Chained(a, b, carry))
<1> DEFINE m == (n + 1) \div 2
           z == Chained(a, b, carry)
<1>0. m \in Nat
  OBVIOUS
<1>a. PICK c : ChainOf(n, a, b, carry, c)
  BY ChainedLoop
<1>1. /\ c[0] = carry /\ \A w \in 1..m : c[w] = SumOf(a, b, c[w - 1], w) \div Values(a, w)
      /\ z = [k \in 1..n |-> ByteOf(SumOf(a, b, c[((k + 1) \div 2) - 1], (k + 1) \div 2), k)]
  BY <1>a DEF ChainOf
<1>2. z = [k \in 1..n |-> z[k]]
  BY <1>1
<1>3. \A k \in 1..n : z[k] = ByteOf(SumOf(a, b, c[((k + 1) \div 2) - 1], (k + 1) \div 2), k)
  BY <1>1
<1> HIDE DEF m, z
<1> DEFINE e == BytesCarry(n, a, b, c)
<1>4. ASSUME NEW w \in 1..m, c[w - 1] \in Bit, 2 * w <= n
      PROVE  /\ c[w] \in Bit
             /\ Place(a[2 * w - 1], b[2 * w - 1], e[2 * w - 2], z[2 * w - 1], e[2 * w - 1])
             /\ Place(a[2 * w], b[2 * w], e[2 * w - 1], z[2 * w], e[2 * w])
  <2>1. w \in Nat /\ 1 <= w /\ 2 * w - 1 \in 1..n /\ 2 * w \in 1..n
    BY <1>0, <1>4
  <2> DEFINE s == SumOf(a, b, c[w - 1], w)
  <2>0. PICK d \in Bit : SumPlaces(a, b, c[w - 1], w, d)
    BY <1>4, <2>1, SumOfWord
  <2>2. /\ Place(a[2 * w - 1], b[2 * w - 1], c[w - 1], ByteOf(s, 1), d)
        /\ Place(a[2 * w], b[2 * w], d, ByteOf(s, 2), s \div Values(a, w))
        /\ d = (c[w - 1] + a[2 * w - 1] + b[2 * w - 1]) \div 256
    BY <2>0 DEF SumPlaces
  <2>3. c[w] = s \div Values(a, w)
    BY <1>1
  <2>4. /\ (2 * w - 1) % 2 = 1 /\ ((2 * w - 1) + 1) \div 2 = w
        /\ (2 * w) % 2 = 0 /\ (2 * w + 1) \div 2 = w
    BY <2>1, Halved
  <2>5. z[2 * w - 1] = ByteOf(s, 2 * w - 1) /\ z[2 * w] = ByteOf(s, 2 * w)
    BY <1>3, <2>1, <2>4
  <2> HIDE DEF s
  <2>6. ByteOf(s, 2 * w - 1) = ByteOf(s, 1) /\ ByteOf(s, 2 * w) = ByteOf(s, 2)
    BY <2>1, <2>4, ByteOfParity
  <2>7. e[2 * w - 2] = c[w - 1] /\ e[2 * w - 1] = d /\ e[2 * w] = c[w]
    BY <1>4, <2>1, <2>2, BytesCarryAt
  <2> HIDE DEF e
  <2>8. c[w] \in Bit
    BY <2>2, <2>3 DEF Place
  <2> QED
    BY <2>2, <2>3, <2>5, <2>6, <2>7, <2>8
<1>5. ASSUME NEW w \in 1..m, c[w - 1] \in Bit, n = 2 * w - 1
      PROVE  c[w] \in Bit /\ Place(a[n], b[n], e[n - 1], z[n], e[n])
  <2>1. w \in Nat /\ 1 <= w /\ n \in 1..n
    BY <1>0, <1>5
  <2> DEFINE s == SumOf(a, b, c[w - 1], w)
  <2>2. Place(a[n], b[n], c[w - 1], ByteOf(s, 1), s \div Values(a, w))
    BY <1>5, <2>1, SumOfLast
  <2>3. c[w] = s \div Values(a, w)
    BY <1>1
  <2>4. (2 * w - 1) % 2 = 1 /\ ((2 * w - 1) + 1) \div 2 = w
    BY <2>1, Halved
  <2>5. z[n] = ByteOf(s, n)
    BY <1>3, <1>5, <2>1, <2>4
  <2> HIDE DEF s
  <2>6. ByteOf(s, n) = ByteOf(s, 1)
    BY <1>5, <2>1, <2>4, ByteOfParity
  <2>7. e[n - 1] = c[w - 1] /\ e[n] = c[w]
    BY <1>5, <2>1, BytesCarryAt
  <2> HIDE DEF e
  <2>8. c[w] \in Bit
    BY <2>2, <2>3 DEF Place
  <2> QED
    BY <2>2, <2>3, <2>5, <2>6, <2>7, <2>8
<1> DEFINE S == {w \in 0..m : c[w] \in Bit}
<1>6. 0 \in S
  BY <1>0, <1>1
<1>7. ASSUME NEW k \in 0..m, k < m, k \in S PROVE k + 1 \in S
  <2>1. k + 1 \in 1..m /\ k + 1 \in 0..m /\ (k + 1) - 1 = k
    BY <1>0, <1>7
  <2>2. 2 * (k + 1) <= n \/ n = 2 * (k + 1) - 1
    BY <1>0, <1>7 DEF m
  <2>3. c[(k + 1) - 1] \in Bit
    BY <1>7, <2>1
  <2>4. c[k + 1] \in Bit
    BY <1>4, <1>5, <2>1, <2>2, <2>3
  <2> QED
    BY <2>1, <2>4
<1> HIDE DEF S
<1>8. 0..m \subseteq S
  BY <1>0, <1>6, <1>7, TurnInduction
<1>9. \A w \in 1..m : c[w - 1] \in Bit
  <2>1. \A w \in 1..m : w - 1 \in 0..m
    BY <1>0
  <2> QED
    BY <1>8, <2>1 DEF S
<1>10. \A k \in 1..n : Place(a[k], b[k], e[k - 1], z[k], e[k])
  <2> SUFFICES ASSUME NEW k \in 1..n PROVE Place(a[k], b[k], e[k - 1], z[k], e[k])
    OBVIOUS
  <2>1. PICK w \in 1..m : (k = 2 * w - 1 /\ k % 2 = 1) \/ (k = 2 * w /\ k % 2 = 0 /\ 2 * w <= n)
    BY PlacesOfWord DEF m
  <2>2. c[w - 1] \in Bit
    BY <1>9
  <2>3. w \in Int /\ (2 * w - 1) - 1 = 2 * w - 2
    BY <1>0
  <2> HIDE DEF e
  <2>4. CASE k = 2 * w
    BY <1>4, <2>1, <2>2, <2>3, <2>4
  <2>5. CASE k = 2 * w - 1 /\ 2 * w <= n
    BY <1>4, <2>1, <2>2, <2>3, <2>5
  <2>6. CASE k = 2 * w - 1 /\ ~(2 * w <= n)
    <3>1. n = 2 * w - 1
      BY <2>3, <2>6
    <3> QED
      BY <1>5, <2>2, <2>6, <3>1
  <2> QED
    BY <2>1, <2>4, <2>5, <2>6
<1>11. e[0] = carry
  <2>1. 0 % 2 = 0 /\ 0 \div 2 = 0 /\ 0 \in 0..n
    OBVIOUS
  <2> QED
    BY <1>1, <2>1 DEF BytesCarry
<1> HIDE DEF e
<1>12. Carried(n, a, b, carry, e, z)
  BY <1>10, <1>11 DEF Carried
<1>13. z \in Bytes(n)
  <2>1. \A k \in 1..n : z[k] \in 0..255
    BY <1>10 DEF Place
  <2> QED
    BY <1>2, <2>1 DEF Bytes
<1> QED
  BY <1>12, <1>13 DEF z

\* One word of a difference: the borrow out of it, and its bytes.
DifferenceOf(a, b, c, w) == WordAt(a, w) - WordAt(b, w) - c
BorrowOf(a, b, c, w) == IF DifferenceOf(a, b, c, w) < 0 THEN 1 ELSE 0
DifferenceWord(a, b, c, w) == DifferenceOf(a, b, c, w) % Values(a, w)
DifferencePlaces(a, b, c, w, d) ==
    /\ Place(ByteOf(DifferenceWord(a, b, c, w), 1), b[2 * w - 1], c, a[2 * w - 1], d)
    /\ Place(ByteOf(DifferenceWord(a, b, c, w), 2), b[2 * w], d, a[2 * w], BorrowOf(a, b, c, w))
    /\ d = IF a[2 * w - 1] < b[2 * w - 1] + c THEN 1 ELSE 0

\* A word less a word that is more than it wraps around.
Wrapping(x, r, v, e) ==
    x \in Int /\ r \in 0..255 /\ v \in 0..255 /\ e \in Bit /\ x = (r + 256 * v) - 65536 * e

\* A borrow is a difference below 0, and the word that is left wraps around.
LEMMA WordTaken ==
    ASSUME NEW x, NEW r, NEW v, NEW e, Wrapping(x, r, v, e)
    PROVE  (IF x < 0 THEN 1 ELSE 0) = e /\ WordOf(x % Uint, r, v, 0)
<1>0. x \in Int /\ r \in 0..255 /\ v \in 0..255 /\ x = (r + 256 * v) - 65536 * e
  BY DEF Wrapping
<1>1. Uint \in Nat \ {0} /\ Uint = 65536
  BY DEF Uint
<1>2. (0 <= x /\ x < Uint => x % Uint = x) /\ (-Uint <= x /\ x < 0 => x % Uint = x + Uint)
  BY <1>0, <1>1, Wrapped
<1>3. 0 <= r + 256 * v /\ r + 256 * v <= 65535
  BY <1>0
<1>4. e = 0 \/ e = 1
  BY DEF Wrapping, Bit
<1>5. CASE e = 0
  <2>1. x = r + 256 * v
    BY <1>0, <1>5
  <2>2. x % Uint = x
    BY <1>1, <1>2, <1>3, <2>1
  <2>3. ~(x < 0)
    BY <1>0, <1>3, <2>1
  <2> QED
    BY <1>5, <1>0, <2>1, <2>2, <2>3 DEF WordOf, Bit
<1>6. CASE e = 1
  <2>1. x = r + 256 * v - 65536
    BY <1>0, <1>6
  <2>2. x < 0 /\ -Uint <= x
    BY <1>0, <1>1, <1>3, <2>1
  <2>3. x % Uint = r + 256 * v
    BY <1>0, <1>1, <1>2, <2>1, <2>2
  <2> QED
    BY <1>0, <1>3, <1>6, <2>2, <2>3 DEF WordOf, Bit
<1> QED
  BY <1>4, <1>5, <1>6

\* A whole word of the chain that subtracts with borrow is the differences
\* of its two bytes.
LEMMA DifferenceOfWord ==
    ASSUME NEW n \in Nat, NEW a \in Bytes(n), NEW b \in Bytes(n), NEW c \in Bit,
           NEW w \in Nat, 1 <= w, 2 * w <= n
    PROVE  \E d \in Bit : DifferencePlaces(a, b, c, w, d)
<1> DEFINE p == a[2 * w - 1]  q == b[2 * w - 1]  t == a[2 * w]  u == b[2 * w]
           r == (p - q - c) % 256  d == IF p < q + c THEN 1 ELSE 0
           v == (t - u - d) % 256  e == IF t < u + d THEN 1 ELSE 0
           s == DifferenceOf(a, b, c, w)
<1>1. Len(a) = n /\ Len(b) = n
  BY LenOfBytes
<1>2. p \in 0..255 /\ q \in 0..255 /\ t \in 0..255 /\ u \in 0..255
  <2>1. \A k \in 1..n : a[k] \in 0..255 /\ b[k] \in 0..255
    BY DEF Bytes
  <2>2. 2 * w - 1 \in 1..n /\ 2 * w \in 1..n
    OBVIOUS
  <2> QED
    BY <2>1, <2>2
<1>3. WordAt(a, w) = p + 256 * t /\ WordAt(b, w) = q + 256 * u /\ Values(a, w) = Uint
  BY <1>1 DEF WordAt, Values
<1> HIDE DEF p, q, t, u
<1>4. Place(r, q, c, p, d)
  BY <1>2, PlaceTaken, Zenon
<1>5. d \in Bit
  BY DEF Bit
<1>6. Place(v, u, d, t, e)
  <2> HIDE DEF d
  <2> QED
    BY <1>2, <1>5, PlaceTaken, Zenon
<1>11. d = IF p < q + c THEN 1 ELSE 0
  OBVIOUS
<1> HIDE DEF r, d, v, e
<1>7. WordOf((r + 256 * v) + (q + 256 * u) + c, p, t, e)
  BY <1>4, <1>6, WordPlaces
<1>8. r \in 0..255 /\ v \in 0..255 /\ e \in Bit /\ c \in 0..1
  BY <1>4, <1>6 DEF Place, Bit
<1>9. s \in Int /\ s = (r + 256 * v) - 65536 * e
  <2>1. (r + 256 * v) + (q + 256 * u) + c = (p + 256 * t) + 65536 * e
    BY <1>7 DEF WordOf
  <2>2. s = (p + 256 * t) - (q + 256 * u) - c
    BY <1>3 DEF DifferenceOf
  <2>3. e \in Int
    BY <1>8 DEF Bit
  <2> QED
    BY <1>2, <1>8, <2>1, <2>2, <2>3
<1> HIDE DEF s
<1>10. (IF s < 0 THEN 1 ELSE 0) = e /\ WordOf(s % Uint, r, v, 0)
  <2>1. Wrapping(s, r, v, e)
    BY <1>8, <1>9 DEF Wrapping
  <2> QED
    BY <2>1, WordTaken
<1>12. ByteOf(s % Uint, 1) = r /\ ByteOf(s % Uint, 2) = v
  BY <1>10, WordParts
<1> QED
  BY <1>3, <1>4, <1>5, <1>6, <1>10, <1>11, <1>12 DEF s, p, q, t, u, DifferencePlaces, DifferenceWord, BorrowOf

\* The chain of sodium_sub.
BorrowChain(n, a, b, c) ==
    /\ c[0] = 0
    /\ \A w \in 1..((n + 1) \div 2) : c[w] = BorrowOf(a, b, c[w - 1], w)
    /\ Borrowed(a, b) = [k \in 1..n |-> ByteOf(DifferenceWord(a, b, c[((k + 1) \div 2) - 1], (k + 1) \div 2), k)]

\* The chain of words has a borrow for each word.
LEMMA BorrowedLoop ==
    ASSUME NEW n \in Nat, NEW a \in Bytes(n), NEW b \in Bytes(n)
    PROVE  \E c : BorrowChain(n, a, b, c)
<1> DEFINE m == (n + 1) \div 2
           st == [p \in (1..m) \X Bit |-> BorrowOf(a, b, p[2], p[1])]
           F(g) == [k \in 0..m |-> IF k = 0 THEN 0 ELSE IF WordAt(a, k) - WordAt(b, k) - g[k - 1] < 0 THEN 1 ELSE 0]
           c == CHOOSE g : g = F(g)
<1>0. m \in Nat
  OBVIOUS
<1>1. st \in Steps(m, Bit)
  <2>1. \A w \in 1..m, v \in Bit : BorrowOf(a, b, v, w) \in Bit
    BY DEF Bit, BorrowOf
  <2> HIDE DEF m
  <2> QED
    BY <2>1 DEF Steps
<1> HIDE DEF m
<1>2. \E g \in [0..m -> Bit] : g = Turns(g, m, 0, st)
  <2>1. 0 \in Bit
    BY DEF Bit
  <2> HIDE DEF st
  <2> QED
    BY <1>0, <1>1, <2>1, LoopExists
<1>3. \E g : g = F(g)
  <2>1. PICK g \in [0..m -> Bit] : g = Turns(g, m, 0, st)
    BY <1>2
  <2>2. \A k \in 0..m : k # 0 => st[<<k, g[k - 1]>>] = IF WordAt(a, k) - WordAt(b, k) - g[k - 1] < 0 THEN 1 ELSE 0
    BY <1>0 DEF BorrowOf, DifferenceOf
  <2>3. Turns(g, m, 0, st) = F(g)
    BY <2>2 DEF Turns
  <2> HIDE DEF F
  <2> QED
    BY <2>1, <2>3
<1>4. c = F(c)
  BY <1>3
<1>5. c[0] = 0 /\ \A k \in 1..m : c[k] = BorrowOf(a, b, c[k - 1], k)
  <2> HIDE DEF c
  <2>1. F(c)[0] = 0 /\ \A k \in 1..m : F(c)[k] = BorrowOf(a, b, c[k - 1], k)
    BY <1>0 DEF BorrowOf, DifferenceOf
  <2> HIDE DEF F
  <2> QED
    BY <1>4, <2>1
<1>6. Borrowed(a, b) = [k \in 1..n |-> ByteOf(DifferenceWord(a, b, c[((k + 1) \div 2) - 1], (k + 1) \div 2), k)]
  <2>1. Len(a) = n /\ Words2(a) = m
    BY LenOfBytes DEF Words2, m
  <2> QED
    BY <2>1 DEF Borrowed, DifferenceWord, DifferenceOf
<1> HIDE DEF c
<1> QED
  BY <1>5, <1>6 DEF m, BorrowChain

\* The borrows between the bytes of words with the borrows c between them.
BytesBorrow(n, a, b, c) ==
    [k \in 0..n |-> IF k % 2 = 0 THEN c[k \div 2] ELSE IF a[k] < b[k] + c[(k - 1) \div 2] THEN 1 ELSE 0]

BorrowsAt(n, a, b, c, w) ==
    /\ BytesBorrow(n, a, b, c)[2 * w - 2] = c[w - 1]
    /\ BytesBorrow(n, a, b, c)[2 * w - 1] = IF a[2 * w - 1] < b[2 * w - 1] + c[w - 1] THEN 1 ELSE 0
    /\ BytesBorrow(n, a, b, c)[2 * w] = c[w]

\* The borrows of bytes at the places of a word.
LEMMA BytesBorrowAt ==
    ASSUME NEW n \in Nat, NEW a, NEW b, NEW c, NEW w \in Nat, 1 <= w
    PROVE  2 * w <= n => BorrowsAt(n, a, b, c, w)
<1>0. SUFFICES ASSUME 2 * w <= n PROVE BorrowsAt(n, a, b, c, w)
  OBVIOUS
<1>1. (2 * w) % 2 = 0 /\ (2 * w) \div 2 = w /\ (2 * w - 1) % 2 = 1
  BY Halved
<1>2. (2 * w - 2) % 2 = 0 /\ (2 * w - 2) \div 2 = w - 1
  OBVIOUS
<1>3. ((2 * w - 1) - 1) \div 2 = w - 1
  OBVIOUS
<1>4. 2 * w \in 0..n /\ 2 * w - 1 \in 0..n /\ 2 * w - 2 \in 0..n
  BY <1>0
<1>5. BytesBorrow(n, a, b, c)[2 * w - 2] = c[w - 1]
  BY <1>2, <1>4 DEF BytesBorrow
<1>6. BytesBorrow(n, a, b, c)[2 * w - 1] = IF a[2 * w - 1] < b[2 * w - 1] + c[w - 1] THEN 1 ELSE 0
  BY <1>1, <1>3, <1>4 DEF BytesBorrow
<1>7. BytesBorrow(n, a, b, c)[2 * w] = c[w]
  BY <1>1, <1>4 DEF BytesBorrow
<1> QED
  BY <1>5, <1>6, <1>7 DEF BorrowsAt

\* The chain of words leaves what, added back, gives the number.
LEMMA BorrowedTakes ==
    ASSUME NEW n \in Nat, NEW a \in Bytes(n), NEW b \in Bytes(n), n % 2 = 0
    PROVE  Borrowed(a, b) \in Bytes(n) /\ \E c : Carried(n, Borrowed(a, b), b, 0, c, a)
<1> DEFINE m == (n + 1) \div 2
           z == Borrowed(a, b)
<1>0. m \in Nat /\ n = 2 * m
  OBVIOUS
<1>a. PICK c : BorrowChain(n, a, b, c)
  BY BorrowedLoop
<1>1. /\ c[0] = 0 /\ \A w \in 1..m : c[w] = BorrowOf(a, b, c[w - 1], w)
      /\ z = [k \in 1..n |-> ByteOf(DifferenceWord(a, b, c[((k + 1) \div 2) - 1], (k + 1) \div 2), k)]
  BY <1>a DEF BorrowChain
<1>2. z = [k \in 1..n |-> z[k]]
  BY <1>1
<1>3. \A k \in 1..n : z[k] = ByteOf(DifferenceWord(a, b, c[((k + 1) \div 2) - 1], (k + 1) \div 2), k)
  BY <1>1
<1> HIDE DEF m, z
<1> DEFINE e == BytesBorrow(n, a, b, c)
<1>4. \A w \in 0..m : c[w] \in Bit
  <2>1. \A w \in 1..m : c[w] \in Bit
    BY <1>1 DEF BorrowOf, Bit
  <2>2. c[0] \in Bit
    BY <1>1 DEF Bit
  <2> QED
    BY <1>0, <2>1, <2>2
<1>5. ASSUME NEW w \in 1..m
      PROVE  /\ Place(z[2 * w - 1], b[2 * w - 1], e[2 * w - 2], a[2 * w - 1], e[2 * w - 1])
             /\ Place(z[2 * w], b[2 * w], e[2 * w - 1], a[2 * w], e[2 * w])
  <2>1. w \in Nat /\ 1 <= w /\ 2 * w <= n /\ 2 * w - 1 \in 1..n /\ 2 * w \in 1..n /\ w - 1 \in 0..m
    BY <1>0
  <2> DEFINE s == DifferenceWord(a, b, c[w - 1], w)
  <2>0. PICK d \in Bit : DifferencePlaces(a, b, c[w - 1], w, d)
    BY <1>4, <2>1, DifferenceOfWord
  <2>2. /\ Place(ByteOf(s, 1), b[2 * w - 1], c[w - 1], a[2 * w - 1], d)
        /\ Place(ByteOf(s, 2), b[2 * w], d, a[2 * w], c[w])
        /\ d = IF a[2 * w - 1] < b[2 * w - 1] + c[w - 1] THEN 1 ELSE 0
    BY <1>1, <2>0 DEF DifferencePlaces
  <2>4. /\ (2 * w - 1) % 2 = 1 /\ ((2 * w - 1) + 1) \div 2 = w
        /\ (2 * w) % 2 = 0 /\ (2 * w + 1) \div 2 = w
    BY <2>1, Halved
  <2>5. z[2 * w - 1] = ByteOf(s, 2 * w - 1) /\ z[2 * w] = ByteOf(s, 2 * w)
    BY <1>3, <2>1, <2>4
  <2> HIDE DEF s
  <2>6. ByteOf(s, 2 * w - 1) = ByteOf(s, 1) /\ ByteOf(s, 2 * w) = ByteOf(s, 2)
    BY <2>1, <2>4, ByteOfParity
  <2>7. e[2 * w - 2] = c[w - 1] /\ e[2 * w - 1] = d /\ e[2 * w] = c[w]
    <3>1. /\ e[2 * w - 2] = c[w - 1] /\ e[2 * w] = c[w]
          /\ e[2 * w - 1] = IF a[2 * w - 1] < b[2 * w - 1] + c[w - 1] THEN 1 ELSE 0
      <4>1. BorrowsAt(n, a, b, c, w)
        BY <2>1, BytesBorrowAt
      <4> QED
        BY <4>1 DEF BorrowsAt
    <3> HIDE DEF e
    <3> QED
      BY <2>2, <3>1
  <2> HIDE DEF e
  <2> QED
    BY <2>2, <2>5, <2>6, <2>7
<1>10. \A k \in 1..n : Place(z[k], b[k], e[k - 1], a[k], e[k])
  <2> SUFFICES ASSUME NEW k \in 1..n PROVE Place(z[k], b[k], e[k - 1], a[k], e[k])
    OBVIOUS
  <2>1. PICK w \in 1..m : (k = 2 * w - 1 /\ k % 2 = 1) \/ (k = 2 * w /\ k % 2 = 0 /\ 2 * w <= n)
    BY PlacesOfWord DEF m
  <2>3. w \in Int /\ (2 * w - 1) - 1 = 2 * w - 2
    BY <1>0
  <2> HIDE DEF e
  <2>4. CASE k = 2 * w
    BY <1>5, <2>1, <2>3, <2>4
  <2>5. CASE k = 2 * w - 1
    BY <1>5, <2>1, <2>3, <2>5
  <2> QED
    BY <2>1, <2>4, <2>5
<1>11. e[0] = 0
  <2>1. 0 % 2 = 0 /\ 0 \div 2 = 0 /\ 0 \in 0..n
    OBVIOUS
  <2> QED
    BY <1>1, <2>1 DEF BytesBorrow
<1> HIDE DEF e
<1>12. Carried(n, z, b, 0, e, a)
  BY <1>10, <1>11 DEF Carried
<1>13. z \in Bytes(n)
  <2>1. \A k \in 1..n : z[k] \in 0..255
    BY <1>10 DEF Place
  <2> QED
    BY <1>2, <2>1 DEF Bytes
<1> QED
  BY <1>12, <1>13 DEF z

-----------------------------------------------------------------------------
(* What utils.c does with numbers.                                         *)
LEMMA AddAdds ==
    ASSUME NEW n \in Nat, NEW a \in Bytes(n), NEW b \in Bytes(n), NEW asm \in BOOLEAN
    PROVE  /\ sodium_add(asm, a, b) \in Bytes(n)
           /\ \E c : Carried(n, a, b, 0, c, sodium_add(asm, a, b))
<1>1. 0 \in Bit
  BY DEF Bit
<1>2. Looped(a, b, 0) \in Bytes(n) /\ \E c : Carried(n, a, b, 0, c, Looped(a, b, 0))
  BY <1>1, LoopedCarries
<1>3. Chained(a, b, 0) \in Bytes(n) /\ \E c : Carried(n, a, b, 0, c, Chained(a, b, 0))
  BY <1>1, ChainedCarries
<1>4. sodium_add(asm, a, b) = Looped(a, b, 0) \/ sodium_add(asm, a, b) = Chained(a, b, 0)
  BY DEF sodium_add
<1> QED
  BY <1>2, <1>3, <1>4

\* sodium_sub leaves what, added back, gives the number, in assembly and in
\* C.
LEMMA SubTakes ==
    ASSUME NEW n \in Nat, NEW a \in Bytes(n), NEW b \in Bytes(n), NEW asm \in BOOLEAN
    PROVE  /\ sodium_sub(asm, a, b) \in Bytes(n)
           /\ \E c : Carried(n, sodium_sub(asm, a, b), b, 0, c, a)
<1>1. LoopedSub(a, b) \in Bytes(n) /\ \E c : Carried(n, LoopedSub(a, b), b, 0, c, a)
  BY LoopedSubTakes
<1>2. CASE asm /\ Len(a) = 16
  <2>1. n = 16
    BY <1>2, LenOfBytes
  <2>2. n % 2 = 0
    BY <2>1
  <2>3. Borrowed(a, b) \in Bytes(n) /\ \E c : Carried(n, Borrowed(a, b), b, 0, c, a)
    BY <2>2, BorrowedTakes
  <2>4. sodium_sub(asm, a, b) = Borrowed(a, b)
    BY <1>2 DEF sodium_sub
  <2> QED
    BY <2>3, <2>4
<1>3. CASE ~(asm /\ Len(a) = 16)
  <2>1. sodium_sub(asm, a, b) = LoopedSub(a, b)
    BY <1>3 DEF sodium_sub
  <2> QED
    BY <1>1, <2>1
<1> QED
  BY <1>2, <1>3

\* sodium_increment adds 1, in assembly and in C.
LEMMA IncrementAddsOne ==
    ASSUME NEW n \in Nat, NEW a \in Bytes(n), NEW asm \in BOOLEAN
    PROVE  sodium_increment(asm, a) = Added(a, Zeroed(a), 1)
<1> DEFINE zero == Zeroed(a)
           one == <<1, 0, 0, 0, 0, 0>>
<1>1. Len(a) = n
  BY LenOfBytes
<1>2. zero \in Bytes(n) /\ \A k \in 1..n : zero[k] = 0
  BY <1>1 DEF Zeroed, Bytes
<1> HIDE DEF zero
<1>3. 1 \in Bit /\ 0 \in Bit
  BY DEF Bit
<1>4. \A z \in Bytes(n) : \A c : Carried(n, a, zero, 1, c, z) => z = Added(a, zero, 1)
  BY <1>2, <1>3, CarriedIsAdded
<1>5. Looped(a, zero, 1) = Added(a, zero, 1)
  <2>1. Looped(a, zero, 1) \in Bytes(n) /\ \E c : Carried(n, a, zero, 1, c, Looped(a, zero, 1))
    BY <1>2, <1>3, LoopedCarries
  <2> QED
    BY <1>4, <2>1
<1>6. Chained(a, zero, 1) = Added(a, zero, 1)
  <2>1. Chained(a, zero, 1) \in Bytes(n) /\ \E c : Carried(n, a, zero, 1, c, Chained(a, zero, 1))
    BY <1>2, <1>3, ChainedCarries
  <2> QED
    BY <1>4, <2>1
<1>7. ASSUME n = 6 PROVE Chained(a, one, 0) = Added(a, zero, 1)
  <2>1. one \in Bytes(n) /\ one[1] = 1 /\ \A k \in 2..n : one[k] = 0
    BY <1>7 DEF Bytes
  <2> HIDE DEF one
  <2>2. Chained(a, one, 0) \in Bytes(n) /\ \E c : Carried(n, a, one, 0, c, Chained(a, one, 0))
    BY <1>3, <2>1, ChainedCarries
  <2> DEFINE z == Chained(a, one, 0)
  <2>3. PICK c : Carried(n, a, one, 0, c, z)
    BY <2>2
  <2> HIDE DEF z
  <2> DEFINE d == [k \in 0..n |-> IF k = 0 THEN 1 ELSE c[k]]
  <2>4. d[0] = 1 /\ \A k \in 1..n : d[k] = c[k]
    OBVIOUS
  <2> HIDE DEF d
  <2>5. \A k \in 1..n : Place(a[k], zero[k], d[k - 1], z[k], d[k])
    <3> SUFFICES ASSUME NEW k \in 1..n PROVE Place(a[k], zero[k], d[k - 1], z[k], d[k])
      OBVIOUS
    <3>1. Place(a[k], one[k], c[k - 1], z[k], c[k])
      BY <2>3 DEF Carried
    <3>2. zero[k] = 0 /\ d[k] = c[k]
      BY <1>2, <2>4
    <3>3. CASE k = 1
      <4>1. one[k] = 1 /\ c[k - 1] = 0 /\ d[k - 1] = 1
        BY <2>1, <2>3, <2>4, <3>3 DEF Carried
      <4>2. Place(a[k], 1, 0, z[k], c[k])
        BY <3>1, <4>1
      <4>3. Place(a[k], 0, 1, z[k], c[k])
        BY <4>2 DEF Place, Bit
      <4> QED
        BY <3>2, <4>1, <4>3
    <3>4. CASE k # 1
      <4>1. k \in 2..n /\ k - 1 \in 1..n
        BY <3>4
      <4>2. one[k] = 0 /\ d[k - 1] = c[k - 1]
        BY <2>1, <2>4, <4>1
      <4> QED
        BY <3>1, <3>2, <4>2
    <3> QED
      BY <3>3, <3>4
  <2>6. Carried(n, a, zero, 1, d, z)
    BY <2>4, <2>5 DEF Carried
  <2> QED
    BY <1>4, <2>2, <2>6 DEF z
<1>8. CASE ~asm \/ Len(a) \notin {2, 3, 6}
  BY <1>5, <1>8 DEF sodium_increment, zero
<1>9. CASE ~(~asm \/ Len(a) \notin {2, 3, 6}) /\ Len(a) = 6
  BY <1>1, <1>7, <1>9 DEF sodium_increment, zero
<1>10. CASE ~(~asm \/ Len(a) \notin {2, 3, 6}) /\ Len(a) # 6
  BY <1>6, <1>10 DEF sodium_increment, zero
<1> QED
  BY <1>8, <1>9, <1>10

-----------------------------------------------------------------------------
(* Calls.                                                                  *)
Answered == call \in Inputs /\ out \in {Nothing, Answer(call)}

\* A call keeps its inputs, and what it leaves is its result.
LEMMA CallsAreAnswered ==
    Spec => []Answered
<1>1. Init => Answered
  BY DEF Init, Answered
<1>2. Answered /\ [Next]_vars => Answered'
  BY DEF Answered, Next, Compute, Return, vars
<1> QED
  BY <1>1, <1>2, PTL DEF Spec

\* What any call of the arithmetic and the comparisons leaves is right.
LEMMA NumbersOfCall ==
    Answered => NumbersAreNumbers
<1> SUFFICES ASSUME Answered, call.op = "numbers", out # Nothing
             PROVE  NumbersAreNumbers
  BY DEF NumbersAreNumbers, Done
<1> DEFINE a == call.a  b == call.b  n == Len(call.a)  asm == call.asm
           sum == sodium_add(asm, a, b)  difference == sodium_sub(asm, a, b)  back == sodium_sub(asm, sum, b)
<1>1. out = NumbersOf(call) /\ asm \in BOOLEAN /\ n \in Nat /\ a \in Bytes(n) /\ b \in Bytes(n)
  BY InputsAreBytes, AnswersAreResults DEF Answered
<1>2. /\ out.sum = sum /\ out.difference = difference /\ out.next = sodium_increment(asm, a)
      /\ out.back = back /\ out.order = sodium_compare(a, b) /\ out.differ = sodium_memcmp(a, b)
      /\ out.zero = sodium_is_zero(a)
  BY <1>1 DEF NumbersOf
<1>3. NumbersAreNumbers <=>
        /\ out.sum = Added(a, b, 0) /\ out.next = Added(a, Zeroed(a), 1)
        /\ out.back = a /\ Added(out.difference, b, 0) = a
        /\ out.order = IF Low(a, b) THEN -1 ELSE IF Low(b, a) THEN 1 ELSE 0
        /\ out.differ = IF a = b THEN 0 ELSE -1
        /\ out.zero = IF a = Zeroed(a) THEN 1 ELSE 0
  BY DEF NumbersAreNumbers, Done
<1> HIDE DEF a, b, n, asm
<1>4. sum \in Bytes(n) /\ \E c : Carried(n, a, b, 0, c, sum)
  BY <1>1, AddAdds
<1>5. difference \in Bytes(n) /\ \E c : Carried(n, difference, b, 0, c, a)
  BY <1>1, SubTakes
<1> HIDE DEF sum, difference
<1>6. back \in Bytes(n) /\ \E c : Carried(n, back, b, 0, c, sum)
  BY <1>1, <1>4, SubTakes
<1> HIDE DEF back
<1>7. 0 \in Bit
  BY DEF Bit
<1>8. sum = Added(a, b, 0)
  BY <1>1, <1>4, <1>7, CarriedIsAdded
<1>9. Added(difference, b, 0) = a
  BY <1>1, <1>5, <1>7, CarriedIsAdded
<1>10. back = a
  BY <1>1, <1>4, <1>6, CarriedOnce
<1>11. sodium_increment(asm, a) = Added(a, Zeroed(a), 1)
  BY <1>1, IncrementAddsOne
<1>12. sodium_compare(a, b) = IF Low(a, b) THEN -1 ELSE IF Low(b, a) THEN 1 ELSE 0
  BY <1>1, CompareOrders
<1>13. sodium_memcmp(a, b) = IF a = b THEN 0 ELSE -1
  BY <1>1, MemcmpCompares
<1>14. sodium_is_zero(a) = IF a = Zeroed(a) THEN 1 ELSE 0
  BY <1>1, IsZeroFindsZeros
<1> QED
  BY <1>2, <1>3, <1>8, <1>9, <1>10, <1>11, <1>12, <1>13, <1>14

\* The arithmetic and the comparisons of utils.c are those of numbers, for
\* numbers of any length, byte by byte and in the chains of words.
THEOREM ArithmeticStaysRight ==
    Spec => []NumbersAreNumbers
BY CallsAreAnswered, NumbersOfCall, PTL

-----------------------------------------------------------------------------
(* randombytes_uniform.                                                    *)

\* Of a product, one factor less is less.
LEMMA Multiples ==
    ASSUME NEW u \in Nat \ {0}, NEW d \in Nat, NEW p \in Nat
    PROVE  u * d \in Nat /\ (d < p => u * d + u <= u * p) /\ (u * d < u * p => d < p)
<1>1. u * d \in Nat
  OBVIOUS
<1>2. ASSUME d < p PROVE u * d + u <= u * p
  <2>1. PICK x \in Nat : p = d + 1 + x
    <3>1. p - d - 1 \in Nat /\ p = d + 1 + (p - d - 1)
      BY <1>2
    <3> QED
      BY <3>1
  <2>2. u * p = u * d + u + u * x /\ u * x \in Nat
    BY <2>1
  <2> QED
    BY <1>1, <2>2
<1>3. ASSUME p <= d PROVE u * p <= u * d
  <2>1. PICK x \in Nat : d = p + x
    <3>1. d - p \in Nat /\ d = p + (d - p)
      BY <1>3
    <3> QED
      BY <3>1
  <2>2. u * d = u * p + u * x /\ u * x \in Nat
    BY <2>1
  <2> QED
    BY <2>2
<1>4. u * p \in Nat
  OBVIOUS
<1> QED
  BY <1>1, <1>2, <1>3, <1>4

\* The word of place d among those that leave e: with and without the R that
\* are rejected.
Word(u, R, d, e) == u * d + e + R

\* The remainder of the e-th word of the d-th run of u words that are kept.
LEMMA ResidueOf ==
    ASSUME NEW u \in Nat \ {0}, NEW R \in 0..u-1, NEW d \in Nat, NEW e \in 0..u-1
    PROVE  /\ Word(u, R, d, e) \in Nat /\ Word(u, R, d, e) >= R
           /\ Word(u, R, d, e) % u = IF e + R < u THEN e + R ELSE e + R - u
<1>0. u * d \in Nat
  OBVIOUS
<1>1. Word(u, R, d, e) \in Nat /\ Word(u, R, d, e) >= R
  BY <1>0 DEF Word
<1>2. CASE e + R < u
  <2>1. e + R \in 0..u-1
    BY <1>2
  <2>2. (u * d + (e + R)) % u = e + R
    BY <2>1, Whole
  <2>3. u * d + (e + R) = Word(u, R, d, e)
    BY <1>0 DEF Word
  <2> QED
    BY <1>1, <1>2, <2>2, <2>3
<1>3. CASE ~(e + R < u)
  <2>1. e + R - u \in 0..u-1 /\ d + 1 \in Nat
    BY <1>3
  <2>2. (u * (d + 1) + (e + R - u)) % u = e + R - u
    BY <2>1, Whole
  <2>3. u * (d + 1) = u * d + u
    OBVIOUS
  <2>4. u * (d + 1) + (e + R - u) = Word(u, R, d, e)
    BY <1>0, <2>3 DEF Word
  <2> QED
    BY <1>1, <1>3, <2>2, <2>4
<1> QED
  BY <1>2, <1>3

\* Each word that is kept is one of a run.
LEMMA WordFound ==
    ASSUME NEW u \in Nat \ {0}, NEW R \in 0..u-1, NEW t \in Nat, t >= R
    PROVE  \E d \in Nat, e \in 0..u-1 : t = Word(u, R, d, e)
<1>1. t - R \in Nat
  OBVIOUS
<1>2. (t - R) \div u \in Nat /\ (t - R) % u \in 0..u-1 /\ t - R = u * ((t - R) \div u) + ((t - R) % u)
  BY <1>1, Parts
<1> DEFINE d == (t - R) \div u  e == (t - R) % u
<1> HIDE DEF d, e
<1>3. d \in Nat /\ e \in 0..u-1 /\ t - R = u * d + e
  BY <1>2 DEF d, e
<1>4. u * d \in Nat
  BY <1>3
<1>5. t = u * d + e + R
  BY <1>3, <1>4
<1> QED
  BY <1>3, <1>5 DEF Word

\* Of p runs of u words after the R that are rejected, each number below u is
\* made of p.
LEMMA Residues ==
    ASSUME NEW u \in Nat \ {0}, NEW p \in Nat, NEW R \in 0..u-1, NEW v \in 0..u-1
    PROVE  Cardinality({r \in 0..u*p+R-1 : r >= R /\ r % u = v}) = p
<1> DEFINE w == IF v >= R THEN v - R ELSE v - R + u
           S == 0..p-1
           T == {r \in 0..u*p+R-1 : r >= R /\ r % u = v}
           F == [d \in S |-> Word(u, R, d, w)]
<1>1. w \in 0..u-1 /\ v = (IF w + R < u THEN w + R ELSE w + R - u)
  OBVIOUS
<1>2. \A e \in 0..u-1 : v = (IF e + R < u THEN e + R ELSE e + R - u) => e = w
  OBVIOUS
<1> HIDE DEF w
<1>3. ASSUME NEW d \in S PROVE F[d] = Word(u, R, d, w) /\ F[d] \in T
  <2>1. d \in Nat /\ p \in Nat /\ d < p
    OBVIOUS
  <2>2. u * d \in Nat /\ u * d + u <= u * p /\ u * p \in Nat
    BY <2>1, Multiples
  <2>3. Word(u, R, d, w) \in Nat /\ Word(u, R, d, w) >= R /\ Word(u, R, d, w) % u = v
    BY <1>1, <2>1, ResidueOf
  <2>4. Word(u, R, d, w) <= u * p + R - 1
    BY <1>1, <2>2 DEF Word
  <2>5. Word(u, R, d, w) \in 0..u*p+R-1
    BY <2>2, <2>3, <2>4
  <2> QED
    BY <2>3, <2>5
<1>4. F \in [S -> T]
  BY <1>3
<1>5. ASSUME NEW a \in S, NEW b \in S, F[a] = F[b] PROVE a = b
  <2>1. a \in Nat /\ b \in Nat
    OBVIOUS
  <2>2. Word(u, R, a, w) = Word(u, R, b, w)
    BY <1>3, <1>5
  <2>3. u * a \in Nat /\ u * b \in Nat
    BY <2>1
  <2>4. u * a + w = u * b + w
    BY <1>1, <2>2, <2>3 DEF Word
  <2>5. (u * a + w) \div u = a /\ (u * b + w) \div u = b
    BY <1>1, <2>1, Whole
  <2> QED
    BY <2>4, <2>5
<1>6. ASSUME NEW t \in T PROVE \E d \in S : F[d] = t
  <2>1. t \in Nat /\ t >= R /\ t % u = v /\ t <= u * p + R - 1
    OBVIOUS
  <2>2. PICK d \in Nat, e \in 0..u-1 : t = Word(u, R, d, e)
    BY <2>1, WordFound
  <2>3. e = w
    BY <1>2, <2>1, <2>2, ResidueOf
  <2>4. u * d < u * p
    <3>1. u * d \in Nat /\ u * p \in Nat
      OBVIOUS
    <3>2. t = u * d + e + R
      BY <2>2 DEF Word
    <3> QED
      BY <2>1, <3>1, <3>2
  <2>5. d < p
    BY <2>4, Multiples
  <2>6. d \in S
    BY <2>5
  <2> QED
    BY <1>3, <2>2, <2>3, <2>6
<1> HIDE DEF F, T
<1>7. F \in Bijection(S, T)
  BY <1>4, <1>5, <1>6, Fun_IsBij
<1>8. ExistsBijection(S, T)
  BY <1>7, Fun_ExistsBij
<1>9. IsFiniteSet(S) /\ Cardinality(S) = p
  <2>1. 0 \in Int /\ p - 1 \in Int
    OBVIOUS
  <2>2. IsFiniteSet(0..p-1) /\ Cardinality(0..p-1) = IF 0 > p - 1 THEN 0 ELSE p - 1 - 0 + 1
    BY <2>1, FS_Interval
  <2> QED
    BY <2>2
<1>10. Cardinality(T) = p
  BY <1>8, <1>9, FS_Bijection
<1> QED
  BY <1>10 DEF T

\* What is rejected leaves a multiple of the bound, which is not nothing.
LEMMA RejectedIsRest ==
    ASSUME NEW u \in Nat, 2 <= u, u <= 255
    PROVE  Rejected(u) \in 0..u-1 /\ \E p \in Nat : 256 = u * p + Rejected(u) /\ u <= u * p
<1>1. PICK x \in Nat : x = 256 - u /\ x < 256 /\ u \in Nat \ {0}
  <2>1. 256 - u \in Nat /\ 256 - u < 256 /\ u \in Nat \ {0}
    OBVIOUS
  <2> QED
    BY <2>1
<1>2. x % 256 = x
  BY <1>1
<1>3. Rejected(u) = x % u
  BY <1>1, <1>2 DEF Rejected
<1> DEFINE q == x \div u
<1>4. q \in Nat /\ Rejected(u) \in 0..u-1 /\ x = u * q + Rejected(u)
  <2>1. x \in Nat /\ u \in Nat \ {0}
    BY <1>1
  <2>2. x \div u \in Nat /\ x % u \in 0..u-1 /\ x = u * (x \div u) + (x % u)
    BY <2>1, Parts
  <2> QED
    BY <1>3, <2>2
<1> HIDE DEF q
<1>5. u * (q + 1) = u * q + u /\ u * q \in Nat /\ q + 1 \in Nat
  BY <1>1, <1>4
<1>6. 256 = u * (q + 1) + Rejected(u) /\ u <= u * (q + 1)
  BY <1>1, <1>4, <1>5
<1> QED
  BY <1>4, <1>5, <1>6

\* The first word is taken if it is not rejected, and the next word if it is.
LEMMA SizeUpTo ==
    ASSUME NEW n \in Nat
    PROVE  Cardinality(0..n) = n + 1
<1>1. 0 \in Int /\ n \in Int
  OBVIOUS
<1>2. Cardinality(0..n) = IF 0 > n THEN 0 ELSE n - 0 + 1
  BY <1>1, FS_Interval
<1> QED
  BY <1>2

\* Below 2 there is nothing to choose.
LEMMA SmallBound ==
    ASSUME NEW u \in Nat, u < 2, NEW words
    PROVE  randombytes_uniform(u, words) = 0
BY DEF randombytes_uniform

\* A word below the minimum is rejected, and one that is not gives its
\* remainder.
LEMMA FirstWord ==
    ASSUME NEW u \in Nat, 2 <= u, u <= 255, NEW r \in 0..255
    PROVE  randombytes_uniform(u, <<r>>) = IF r >= Rejected(u) THEN r % u ELSE -1
<1> DEFINE kept == {k \in 1..1 : <<r>>[k] >= Rejected(u)}
<1>1. Len(<<r>>) = 1 /\ 1..1 = {1} /\ <<r>>[1] = r
  OBVIOUS
<1>2. randombytes_uniform(u, <<r>>) =
        IF kept = {} THEN -1 ELSE <<r>>[CHOOSE k \in kept : \A j \in kept : k <= j] % u
  BY <1>1 DEF randombytes_uniform
<1>3. kept = IF r >= Rejected(u) THEN {1} ELSE {}
  BY <1>1
<1> HIDE DEF kept
<1>4. CASE r >= Rejected(u)
  <2>1. (CHOOSE k \in {1} : \A j \in {1} : k <= j) = 1
    OBVIOUS
  <2> QED
    BY <1>1, <1>2, <1>3, <1>4, <2>1
<1>5. CASE ~(r >= Rejected(u))
  BY <1>2, <1>3, <1>5
<1> QED
  BY <1>4, <1>5

\* After a word 0, which is rejected unless none is, the next decides.
LEMMA SecondWord ==
    ASSUME NEW u \in Nat, 2 <= u, u <= 255, NEW r \in 0..255
    PROVE  randombytes_uniform(u, <<0, r>>) =
             IF Rejected(u) = 0 THEN 0 ELSE IF r >= Rejected(u) THEN r % u ELSE -1
<1> DEFINE words == <<0, r>>
           kept == {k \in 1..2 : words[k] >= Rejected(u)}
<1>0. Rejected(u) \in Nat
  BY RejectedIsRest
<1>1. Len(words) = 2 /\ 1..2 = {1, 2} /\ words[1] = 0 /\ words[2] = r
  OBVIOUS
<1> HIDE DEF words
<1>2. randombytes_uniform(u, words) =
        IF kept = {} THEN -1 ELSE words[CHOOSE k \in kept : \A j \in kept : k <= j] % u
  BY <1>1 DEF randombytes_uniform
<1>3. (Rejected(u) = 0 => 1 \in kept) /\ (Rejected(u) # 0 => kept = IF r >= Rejected(u) THEN {2} ELSE {})
  BY <1>0, <1>1
<1>4. kept \subseteq {1, 2}
  BY <1>1
<1> HIDE DEF kept
<1>5. CASE Rejected(u) = 0
  <2> DEFINE Least(k) == \A j \in kept : k <= j
  <2>a. 1 \in kept /\ Least(1)
    BY <1>3, <1>4, <1>5
  <2>b. \A k \in kept : Least(k) => k = 1
    BY <1>4, <2>a
  <2> HIDE DEF Least
  <2>c. (CHOOSE k \in kept : Least(k)) = 1
    BY <2>a, <2>b
  <2>1. (CHOOSE k \in kept : \A j \in kept : k <= j) = 1
    BY <2>c DEF Least
  <2>2. 0 % u = 0
    OBVIOUS
  <2> QED
    BY <1>1, <1>2, <1>3, <1>5, <2>1, <2>2 DEF words
<1>6. CASE Rejected(u) # 0
  <2>1. (CHOOSE k \in {2} : \A j \in {2} : k <= j) = 2
    OBVIOUS
  <2>2. randombytes_uniform(u, words) = IF r >= Rejected(u) THEN r % u ELSE -1
    BY <1>1, <1>2, <1>3, <1>6, <2>1
  <2> QED
    BY <1>6, <2>2 DEF words
<1> QED
  BY <1>5, <1>6

\* The numbers that are made of each word, f, and of each word after one of
\* 0, g: what is promised of them.
Tables(u, f, g) ==
    \A r \in 0..255 : f[r] = randombytes_uniform(u, <<r>>) /\ g[r] = randombytes_uniform(u, <<0, r>>)
WordsFor(f, v) == Cardinality({r \in 0..255 : f[r] = v})
Uniform(f, g, bound) ==
    /\ \A v \in 0..bound-1 : WordsFor(f, v) = WordsFor(f, 0)
    /\ WordsFor(f, -1) < 128 /\ WordsFor(f, -1) + bound * WordsFor(f, 0) = 256
    /\ \A r \in 0..255 : g[r] = IF f[0] # -1 THEN f[0] ELSE f[r]

\* One number takes all words.
LEMMA UniformOfOne ==
    ASSUME NEW u \in Nat, u < 2, NEW f, NEW g, Tables(u, f, g)
    PROVE  Uniform(f, g, 1)
<1>1. \A r \in 0..255 : f[r] = 0 /\ g[r] = 0
  <2>1. \A words : randombytes_uniform(u, words) = 0
    BY SmallBound
  <2> QED
    BY <2>1, Zenon DEF Tables
<1>2. {r \in 0..255 : f[r] = 0} = 0..255 /\ {r \in 0..255 : f[r] = -1} = {}
  BY <1>1
<1>3. Cardinality(0..255) = 256
  <2>1. 255 \in Nat /\ 255 + 1 = 256
    OBVIOUS
  <2> QED
    BY <2>1, SizeUpTo
<1>4. WordsFor(f, 0) = 256 /\ WordsFor(f, -1) = 0
  BY <1>2, <1>3, FS_EmptySet DEF WordsFor
<1>5. \A r \in 0..255 : g[r] = IF f[0] # -1 THEN f[0] ELSE f[r]
  <2>1. 0 \in 0..255
    OBVIOUS
  <2> QED
    BY <1>1, <2>1
<1>6. 0..1-1 = {0}
  OBVIOUS
<1>7. 0 < 128 /\ 0 + 1 * 256 = 256
  OBVIOUS
<1>8. ASSUME NEW v \in 0..1-1 PROVE WordsFor(f, v) = WordsFor(f, 0)
  <2>1. v = 0
    BY <1>6
  <2> QED
    BY <2>1, Zenon
<1>9. WordsFor(f, -1) < 128 /\ WordsFor(f, -1) + 1 * WordsFor(f, 0) = 256
  <2>1. \A x, y : x = 256 /\ y = 0 => y < 128 /\ y + 1 * x = 256
    OBVIOUS
  <2> QED
    BY <1>4, <2>1, Zenon
<1> QED
  BY <1>5, <1>8, <1>9, Zenon DEF Uniform

\* Of more, each takes as many, and the words that are left over are rejected.
LEMMA UniformOfMore ==
    ASSUME NEW u \in Nat, 2 <= u, u <= 255, NEW f, NEW g, Tables(u, f, g)
    PROVE  Uniform(f, g, u)
<1> DEFINE R == Rejected(u)
<1>1. PICK p \in Nat : R \in 0..u-1 /\ 256 = u * p + R /\ u <= u * p
  BY RejectedIsRest
<1>2. \A r \in 0..255 : /\ f[r] = IF r >= R THEN r % u ELSE -1
                        /\ g[r] = IF R = 0 THEN 0 ELSE IF r >= R THEN r % u ELSE -1
  <2>1. \A r \in 0..255 : f[r] = IF r >= R THEN r % u ELSE -1
    BY FirstWord, Zenon DEF Tables
  <2>2. \A r \in 0..255 : g[r] = IF R = 0 THEN 0 ELSE IF r >= R THEN r % u ELSE -1
    BY SecondWord, Zenon DEF Tables
  <2> HIDE DEF R
  <2> QED
    BY <2>1, <2>2, Zenon
<1> HIDE DEF R
<1>a. u \in Nat \ {0} /\ p \in Nat /\ R \in 0..u-1
  BY <1>1
<1>b. u * p \in Nat
  BY <1>a, Multiples
<1>3. R \in Nat /\ R <= 255 /\ R < 128
  BY <1>1, <1>a, <1>b
<1>4. ASSUME NEW v \in 0..u-1 PROVE WordsFor(f, v) = p
  <2>1. {r \in 0..255 : f[r] = v} = {r \in 0..255 : r >= R /\ r % u = v}
    <3>1. \A r \in 0..255 : f[r] = v <=> r >= R /\ r % u = v
      <4>1. v # -1
        BY <1>a
      <4> QED
        BY <1>2, <4>1
    <3> QED
      BY <3>1
  <2>2. Cardinality({r \in 0..u*p+R-1 : r >= R /\ r % u = v}) = p
    BY <1>a, Residues
  <2>3. u * p + R - 1 = 255
    BY <1>1, <1>b, <1>3
  <2> QED
    BY <2>1, <2>2, <2>3 DEF WordsFor
<1>5. WordsFor(f, -1) = R
  <2>1. {r \in 0..255 : f[r] = -1} = {r \in 0..255 : ~(r >= R)}
    <3>1. \A r \in 0..255 : r % u # -1
      BY <1>a
    <3>2. \A r \in 0..255 : f[r] = -1 <=> ~(r >= R)
      BY <1>2, <3>1, Zenon
    <3> QED
      BY <3>2
  <2>2. {r \in 0..255 : ~(r >= R)} = 0..R-1
    BY <1>3
  <2>3. Cardinality(0..R-1) = R
    <3>1. 0 \in Int /\ R - 1 \in Int
      BY <1>3
    <3>2. Cardinality(0..R-1) = IF 0 > R - 1 THEN 0 ELSE R - 1 - 0 + 1
      BY <3>1, FS_Interval
    <3> QED
      BY <1>3, <3>2
  <2> QED
    BY <2>1, <2>2, <2>3 DEF WordsFor
<1>6. 0 \in 0..u-1
  BY <1>a
<1>7. ASSUME NEW r \in 0..255 PROVE g[r] = IF f[0] # -1 THEN f[0] ELSE f[r]
  <2>1. f[0] = IF R = 0 THEN 0 ELSE -1
    <3>1. 0 % u = 0 /\ 0 \in 0..255 /\ (0 >= R <=> R = 0)
      BY <1>3, <1>a
    <3> QED
      BY <1>2, <3>1
  <2>2. f[r] = (IF r >= R THEN r % u ELSE -1) /\ g[r] = IF R = 0 THEN 0 ELSE IF r >= R THEN r % u ELSE -1
    BY <1>2, Zenon
  <2> QED
    BY <2>1, <2>2
<1>8. WordsFor(f, 0) = p
  BY <1>4, <1>6
<1>9. R + u * p = 256
  BY <1>1, <1>b, <1>3
<1>10. \A v \in 0..u-1 : WordsFor(f, v) = WordsFor(f, 0)
  BY <1>4, <1>8, Zenon
<1>11. WordsFor(f, -1) < 128
  BY <1>3, <1>5
<1>12. WordsFor(f, -1) + u * WordsFor(f, 0) = 256
  BY <1>5, <1>8, <1>9
<1> QED
  BY <1>7, <1>10, <1>11, <1>12, Zenon DEF Uniform

\* What any call of randombytes_uniform makes of a word is as likely as any
\* other number below the bound.
LEMMA UniformOfCall ==
    Answered => UniformIsUniform
<1> SUFFICES ASSUME Answered, call.op = "uniform", out # Nothing
             PROVE  UniformIsUniform
  BY Zenon DEF UniformIsUniform, Done
<1> DEFINE u == call.bound  f == out.first  g == out.second
<1>1. u \in 0..255 /\ out = UniformOf(call)
  BY InputsAreBytes, AnswersAreResults DEF Answered
<1>2. /\ f = [r \in 0..255 |-> randombytes_uniform(u, <<r>>)]
      /\ g = [r \in 0..255 |-> randombytes_uniform(u, <<0, r>>)]
  BY <1>1, Zenon DEF UniformOf
<1>3. UniformIsUniform <=> Uniform(f, g, IF u < 2 THEN 1 ELSE u)
  BY Zenon DEF UniformIsUniform, Done, Uniform, WordsFor
<1> HIDE DEF u, f, g
<1>4. Tables(u, f, g)
  BY <1>2, Zenon DEF Tables
<1>5. u \in Nat /\ u <= 255
  BY <1>1
<1>6. CASE u < 2
  BY <1>3, <1>4, <1>5, <1>6, UniformOfOne
<1>7. CASE ~(u < 2)
  <2>1. 2 <= u
    BY <1>5, <1>7
  <2> QED
    BY <1>3, <1>4, <1>5, <1>7, <2>1, UniformOfMore
<1> QED
  BY <1>6, <1>7, Zenon

\* Numbers below a bound that are drawn from uniform words are uniform, for
\* every bound: no more words are rejected than must be.
THEOREM UniformStaysUniform ==
    Spec => []UniformIsUniform
BY CallsAreAnswered, UniformOfCall, PTL

-----------------------------------------------------------------------------
(* Padding.                                                                *)

\* A nibble, a byte and a word that shares no bit with what is one less is a
\* power of two, and what is one less is the mask of the remainders.
LEMMA And4Others ==
    /\ And4(3, 2) # 0 /\ And4(5, 4) # 0 /\ And4(6, 5) # 0 /\ And4(7, 6) # 0
    /\ And4(9, 8) # 0 /\ And4(10, 9) # 0 /\ And4(11, 10) # 0 /\ And4(12, 11) # 0
    /\ And4(13, 12) # 0 /\ And4(14, 13) # 0 /\ And4(15, 14) # 0
<1> DEFINE And4Of(x, y) == Both(x % 2, y % 2) + 2 * Both((x \div 2) % 2, (y \div 2) % 2)
                        + 4 * Both((x \div 4) % 2, (y \div 4) % 2) + 8 * Both(x \div 8, y \div 8)
<1>1. \A x, y \in 0..15 : And4(x, y) = And4Of(x, y)
  BY And4Bits
<1>2. /\ And4Of(3, 2) # 0 /\ And4Of(5, 4) # 0 /\ And4Of(6, 5) # 0 /\ And4Of(7, 6) # 0
      /\ And4Of(9, 8) # 0 /\ And4Of(10, 9) # 0 /\ And4Of(11, 10) # 0 /\ And4Of(12, 11) # 0
      /\ And4Of(13, 12) # 0 /\ And4Of(14, 13) # 0 /\ And4Of(15, 14) # 0
  BY DEF Both
<1> HIDE DEF And4Of
<1> QED
  BY <1>1, <1>2

Power(b) == b = 1 \/ b = 2 \/ b = 4 \/ b = 8

\* A nibble with no bit in common with the one before it is a power of two.
LEMMA And4Power ==
    ASSUME NEW b \in 1..15, And4(b, b - 1) = 0
    PROVE  Power(b)
<1>1. b \in {1, 2, 3, 4, 5, 6, 7, 8, 9, 10, 11, 12, 13, 14, 15}
  OBVIOUS
<1> QED
  BY <1>1, And4Others DEF Power

\* The masks of the powers of two give remainders, of nibbles.
LEMMA And4Masks ==
    ASSUME NEW a \in 0..15
    PROVE  And4(a, 0) = a % 1 /\ And4(a, 1) = a % 2 /\ And4(a, 3) = a % 4 /\ And4(a, 7) = a % 8
<1> DEFINE a0 == a % 2  a1 == (a \div 2) % 2  a2 == (a \div 4) % 2  a3 == a \div 8
<1>1. /\ a0 \in 0..1 /\ a1 \in 0..1 /\ a2 \in 0..1 /\ a3 \in 0..1
      /\ a % 4 = a0 + 2 * a1 /\ a % 8 = a0 + 2 * a1 + 4 * a2 /\ a % 1 = 0
  OBVIOUS
<1> DEFINE And4Of(y) == Both(a0, y % 2) + 2 * Both(a1, (y \div 2) % 2)
                        + 4 * Both(a2, (y \div 4) % 2) + 8 * Both(a3, y \div 8)
<1>2. \A y \in 0..15 : And4(a, y) = And4Of(y)
  BY And4Bits
<1>3. \A x \in 0..1 : Both(x, 0) = 0 /\ Both(x, 1) = x
  BY DEF Both
<1> HIDE DEF a1, a2, a3
<1>4. And4Of(1) = a0 /\ And4Of(3) = a0 + 2 * a1 /\ And4Of(7) = a0 + 2 * a1 + 4 * a2
  <2> HIDE DEF a0
  <2>1. /\ And4Of(1) = Both(a0, 1) + 2 * Both(a1, 0) + 4 * Both(a2, 0) + 8 * Both(a3, 0)
        /\ And4Of(3) = Both(a0, 1) + 2 * Both(a1, 1) + 4 * Both(a2, 0) + 8 * Both(a3, 0)
        /\ And4Of(7) = Both(a0, 1) + 2 * Both(a1, 1) + 4 * Both(a2, 1) + 8 * Both(a3, 0)
    OBVIOUS
  <2> HIDE DEF And4Of
  <2> QED
    BY <1>1, <1>3, <2>1
<1> HIDE DEF And4Of
<1>5. 1 \in 0..15 /\ 3 \in 0..15 /\ 7 \in 0..15
  OBVIOUS
<1> QED
  BY <1>1, <1>2, <1>4, <1>5, And4Whole

\* The mask of any power of two gives the remainder, of nibbles.
LEMMA And4Remainder ==
    ASSUME NEW b \in 1..15, NEW a \in 0..15, And4(b, b - 1) = 0
    PROVE  And4(a, b - 1) = a % b
<1>1. Power(b)
  BY And4Power
<1> QED
  BY <1>1, And4Masks DEF Power

\* The remainder of a number of two digits, of the base g: by a number of one
\* digit that divides g, and by a number whose low digit is 0.
LEMMA RemainderOfLow ==
    ASSUME NEW g \in Nat, NEW s \in Nat \ {0}, NEW p \in Nat, NEW q \in Nat, \E m \in Nat : g = s * m
    PROVE  (g * p + q) % s = q % s
<1>1. PICK m \in Nat : g = s * m
  OBVIOUS
<1> DEFINE d == q \div s  e == q % s
<1>2. d \in Nat /\ e \in 0..s-1 /\ q = s * d + e
  BY Parts
<1> HIDE DEF d, e
<1>3. g * p = s * (m * p) /\ m * p \in Nat
  BY <1>1
<1>4. g * p + q = s * (m * p + d) + e
  <2>1. s * (m * p + d) = s * (m * p) + s * d
    BY <1>2, <1>3
  <2>2. s * (m * p) \in Nat /\ s * d \in Nat /\ g * p \in Nat
    BY <1>2, <1>3
  <2> QED
    BY <1>2, <1>3, <2>1, <2>2
<1>5. (s * (m * p + d) + e) % s = e
  BY <1>2, <1>3, Whole
<1> QED
  BY <1>4, <1>5 DEF e

\* The remainder by a multiple of g leaves what is below g alone.
LEMMA RemainderOfHigh ==
    ASSUME NEW g \in Nat \ {0}, NEW r \in Nat \ {0}, NEW p \in Nat, NEW q \in 0..g-1
    PROVE  (g * p + q) % (g * r) = g * (p % r) + q
<1> DEFINE m == p \div r  t == p % r
<1>1. m \in Nat /\ t \in 0..r-1 /\ p = r * m + t
  BY Parts
<1> HIDE DEF m, t
<1>2. g * t \in Nat /\ g * r \in Nat /\ g * t + g <= g * r
  <2>1. t \in Nat /\ t < r
    BY <1>1
  <2>2. g * r \in Nat
    OBVIOUS
  <2> QED
    BY <2>1, <2>2, Multiples
<1>3. g * t + q \in 0..(g * r)-1 /\ g * r \in Nat \ {0}
  BY <1>2
<1>4. ((g * r) * m + (g * t + q)) % (g * r) = g * t + q
  BY <1>1, <1>3, Whole
<1>5. g * p = (g * r) * m + g * t
  BY <1>1
<1>6. g * p \in Nat /\ (g * r) * m \in Nat
  BY <1>1
<1>7. g * p + q = (g * r) * m + (g * t + q)
  BY <1>2, <1>5, <1>6
<1> QED
  BY <1>4, <1>7 DEF t

Divides(b, g) == \E m \in Nat : g = b * m

\* Powers of two divide the sizes of a byte and of a word.
LEMMA PowersDivide ==
    ASSUME NEW b, Power(b)
    PROVE  b \in 1..15 /\ Divides(b, 16) /\ Divides(b, 256) /\ Divides(16 * b, 256)
<1>1. \A m \in Nat : (16 = b * m => Divides(b, 16)) /\ (256 = b * m => Divides(b, 256)) /\ (256 = 16 * b * m => Divides(16 * b, 256))
  BY DEF Divides, Power
<1>2. CASE b = 1
  <2>1. 16 = b * 16 /\ 256 = b * 256 /\ 256 = 16 * b * 16
    BY <1>2
  <2> QED
    BY <1>1, <1>2, <2>1
<1>3. CASE b = 2
  <2>1. 16 = b * 8 /\ 256 = b * 128 /\ 256 = 16 * b * 8
    BY <1>3
  <2> QED
    BY <1>1, <1>3, <2>1
<1>4. CASE b = 4
  <2>1. 16 = b * 4 /\ 256 = b * 64 /\ 256 = 16 * b * 4
    BY <1>4
  <2> QED
    BY <1>1, <1>4, <2>1
<1>5. CASE b = 8
  <2>1. 16 = b * 2 /\ 256 = b * 32 /\ 256 = 16 * b * 2
    BY <1>5
  <2> QED
    BY <1>1, <1>5, <2>1
<1> QED
  BY <1>2, <1>3, <1>4, <1>5 DEF Power

Masks(b) == Divides(b, 256) /\ \A a \in 0..255 : And8(a, b - 1) = a % b

\* The mask of any power of two gives the remainder, of bytes.
LEMMA And8Remainder ==
    ASSUME NEW b \in 0..255, b # 0, And8(b, b - 1) = 0
    PROVE  Masks(b)
<1>1. PICK r, s \in 0..15 : Halves(b, r, s)
  BY Nibbles
<1>2. b = 16 * r + s
  BY <1>1 DEF Halves
<1>3. CASE s # 0
  <2>1. Halves(b - 1, r, s - 1)
    BY <1>2, <1>3 DEF Halves
  <2>2. And8(b, b - 1) = 16 * And4(r, r) + And4(s, s - 1)
    BY <1>1, <2>1, And8Nibbles
  <2>3. And4(r, r) = r
    BY And4Whole
  <2>4. s \in 1..15 /\ s - 1 \in 0..15
    BY <1>3
  <2>5. And4(s, s - 1) \in 0..15
    BY <2>4, And4Bounds
  <2>6. r = 0 /\ And4(s, s - 1) = 0
    BY <2>2, <2>3, <2>5
  <2>7. b = s
    BY <1>2, <2>6
  <2>8. Power(s)
    BY <2>4, <2>6, And4Power
  <2>9. Divides(s, 16) /\ Divides(s, 256)
    BY <2>8, PowersDivide
  <2>10. ASSUME NEW a \in 0..255 PROVE And8(a, b - 1) = a % b
    <3>1. PICK p, q \in 0..15 : Halves(a, p, q)
      BY Nibbles, Zenon
    <3>2. And8(a, b - 1) = 16 * And4(p, r) + And4(q, s - 1)
      BY <2>1, <3>1, And8Nibbles
    <3>3. And4(p, 0) = 0
      BY And4Whole
    <3>4. And4(q, s - 1) = q % s
      BY <2>4, <2>6, And4Remainder
    <3>5. q % s \in Nat
      BY <2>4
    <3>6. And8(a, b - 1) = q % s
      BY <2>6, <3>2, <3>3, <3>4, <3>5
    <3>7. (16 * p + q) % s = q % s
      <4>1. s \in Nat \ {0} /\ p \in Nat /\ q \in Nat /\ 16 \in Nat
        BY <2>4
      <4>2. \E m \in Nat : 16 = s * m
        BY <2>9 DEF Divides
      <4> QED
        BY <4>1, <4>2, RemainderOfLow
    <3>8. a = 16 * p + q
      BY <3>1 DEF Halves
    <3> QED
      BY <2>7, <3>6, <3>7, <3>8, Zenon
  <2> QED
    BY <2>7, <2>9, <2>10 DEF Masks
<1>4. CASE s = 0
  <2>1. r \in 1..15 /\ r - 1 \in 0..15 /\ b = 16 * r
    BY <1>2, <1>4
  <2>2. Halves(b - 1, r - 1, 15)
    BY <2>1 DEF Halves
  <2>3. And8(b, b - 1) = 16 * And4(r, r - 1) + And4(s, 15)
    BY <1>1, <2>2, And8Nibbles
  <2>4. And4(r, r - 1) \in 0..15 /\ And4(s, 15) \in 0..15
    <3>1. 15 \in 0..15
      OBVIOUS
    <3> QED
      BY <2>1, <3>1, And4Bounds
  <2>5. And4(r, r - 1) = 0
    BY <2>3, <2>4
  <2>6. Power(r)
    BY <2>1, <2>5, And4Power
  <2>7. Divides(16 * r, 256)
    BY <2>6, PowersDivide
  <2>8. ASSUME NEW a \in 0..255 PROVE And8(a, b - 1) = a % b
    <3>1. PICK p, q \in 0..15 : Halves(a, p, q)
      BY Nibbles
    <3>2. And8(a, b - 1) = 16 * And4(p, r - 1) + And4(q, 15)
      BY <2>2, <3>1, And8Nibbles
    <3>3. And4(q, 15) = q
      BY And4Whole
    <3>4. And4(p, r - 1) = p % r
      BY <2>1, <2>5, And4Remainder
    <3>5. (16 * p + q) % (16 * r) = 16 * (p % r) + q
      <4>1. 16 \in Nat \ {0} /\ r \in Nat \ {0} /\ p \in Nat /\ q \in 0..16-1
        BY <2>1
      <4> QED
        BY <4>1, RemainderOfHigh
    <3>6. a = 16 * p + q
      BY <3>1 DEF Halves
    <3>7. And8(a, b - 1) = 16 * (p % r) + q
      BY <3>2, <3>3, <3>4
    <3> QED
      BY <2>1, <3>5, <3>6, <3>7
  <2> QED
    BY <2>1, <2>7, <2>8 DEF Masks
<1> QED
  BY <1>3, <1>4, Zenon

\* The mask of any power of two gives the remainder, of words: the test and
\* the mask of sodium_pad.
LEMMA And16Remainder ==
    ASSUME NEW b \in 0..Uint-1, b # 0, And16(b, b - 1) = 0, NEW a \in 0..Uint-1
    PROVE  And16(a, b - 1) = a % b
<1> DEFINE r == b \div 256  s == b % 256  p == a \div 256  q == a % 256
<1>1. BytesOf(b, r, s) /\ BytesOf(a, p, q)
  BY BytesOfWord
<1> HIDE DEF r, s, p, q
<1>2. /\ r \in 0..255 /\ s \in 0..255 /\ b = 256 * r + s
      /\ p \in 0..255 /\ q \in 0..255 /\ a = 256 * p + q
  BY <1>1 DEF BytesOf
<1>3. BytesOf(0, 0, 0)
  BY BytesOfEnds
<1>4. b - 1 \in 0..Uint-1
  BY UintIsNat
<1>5. CASE s # 0
  <2>1. BytesOf(b - 1, r, s - 1)
    BY <1>2, <1>4, <1>5 DEF BytesOf
  <2>2. BytesOf(And16(b, b - 1), And8(r, r), And8(s, s - 1))
    BY <1>1, <2>1, And16Bytes
  <2>3. And8(r, r) = 0 /\ And8(s, s - 1) = 0
    BY <1>3, <2>2, BytesCompared
  <2>4. r = 0
    BY <1>2, <2>3, And8Whole
  <2>5. b = s
    BY <1>2, <2>4
  <2>6. Divides(s, 256) /\ And8(q, s - 1) = q % s
    <3>1. Masks(s)
      BY <1>2, <1>5, <2>3, And8Remainder
    <3> QED
      BY <1>2, <3>1 DEF Masks
  <2>7. BytesOf(And16(a, b - 1), And8(p, r), And8(q, s - 1))
    BY <1>1, <2>1, And16Bytes
  <2>8. And8(p, r) = 0
    BY <1>2, <2>4, And8Whole
  <2>9. And16(a, b - 1) = q % s
    <3>1. And16(a, b - 1) = 256 * And8(p, r) + And8(q, s - 1)
      BY <2>7 DEF BytesOf
    <3>2. q % s \in Nat
      BY <1>2, <1>5
    <3> QED
      BY <2>6, <2>8, <3>1, <3>2
  <2>10. (256 * p + q) % s = q % s
    <3>1. 256 \in Nat /\ s \in Nat \ {0} /\ p \in Nat /\ q \in Nat
      BY <1>2, <1>5
    <3>2. \E m \in Nat : 256 = s * m
      BY <2>6 DEF Divides
    <3> QED
      BY <3>1, <3>2, RemainderOfLow
  <2> QED
    BY <1>2, <2>5, <2>9, <2>10
<1>6. CASE s = 0
  <2>1. r # 0 /\ r - 1 \in 0..255 /\ b = 256 * r
    BY <1>2, <1>6
  <2>2. b - 1 = 256 * (r - 1) + 255 /\ 255 \in 0..255
    BY <1>2, <2>1
  <2>3. BytesOf(b - 1, r - 1, 255)
    BY <1>4, <2>1, <2>2 DEF BytesOf
  <2>4. BytesOf(And16(b, b - 1), And8(r, r - 1), And8(s, 255))
    BY <1>1, <2>3, And16Bytes
  <2>5. And8(r, r - 1) = 0
    BY <1>3, <2>4, BytesCompared
  <2>6. And8(p, r - 1) = p % r
    <3>1. Masks(r)
      BY <1>2, <2>1, <2>5, And8Remainder
    <3> QED
      BY <1>2, <3>1 DEF Masks
  <2>7. BytesOf(And16(a, b - 1), And8(p, r - 1), And8(q, 255))
    BY <1>1, <2>3, And16Bytes
  <2>8. And8(q, 255) = q
    BY <1>2, And8Whole
  <2>9. And16(a, b - 1) = 256 * (p % r) + q
    <3>1. And16(a, b - 1) = 256 * And8(p, r - 1) + And8(q, 255)
      BY <2>7 DEF BytesOf
    <3> QED
      BY <2>6, <2>8, <3>1
  <2>10. (256 * p + q) % (256 * r) = 256 * (p % r) + q
    <3> DEFINE g == 256
    <3>1. g \in Nat \ {0} /\ r \in Nat \ {0} /\ p \in Nat /\ q \in 0..g-1
      BY <1>2, <2>1
    <3> HIDE DEF g
    <3>2. (g * p + q) % (g * r) = g * (p % r) + q
      BY <3>1, RemainderOfHigh
    <3> QED
      BY <3>2 DEF g
  <2> QED
    BY <1>2, <2>1, <2>9, <2>10
<1> QED
  BY <1>5, <1>6

\* The padding fills the block that the last byte and its mark are in.
LEMMA PadLengthFills ==
    ASSUME NEW len \in 0..Uint-1, NEW b \in 0..Uint-1, b # 0
    PROVE  /\ PadLength(len, b) = b - 1 - (len % b) /\ len % b \in 0..b-1 /\ len % b <= len
           /\ len + PadLength(len, b) + 1 = Total(len, b) /\ PadLength(len, b) \in 0..b-1
<1>1. PadLength(len, b) = b - 1 - (len % b)
  BY And16Remainder DEF PadLength
<1>2. b \in Nat \ {0} /\ len \in Nat
  BY UintIsNat
<1>3. len \div b \in Nat /\ len % b \in 0..b-1 /\ len = b * (len \div b) + (len % b)
  BY <1>2, Parts
<1>4. b * (len \div b) \in Nat
  BY <1>2, <1>3
<1>5. len % b <= len
  BY <1>2, <1>3, <1>4
<1> QED
  BY <1>1, <1>2, <1>3, <1>5 DEF Total

\* The barrier is up at the mark, and down at all other places of a block.
LEMMA BarrierAtMark ==
    ASSUME NEW i \in 0..255, NEW x \in 0..255
    PROVE  Barrier(i, x) = IF i = x THEN 255 ELSE 0
<1>1. i \in 0..Uint-1 /\ x \in 0..Uint-1
  BY InWord
<1>2. BytesOf(i, 0, i) /\ BytesOf(x, 0, x)
  BY <1>1 DEF BytesOf
<1>3. BytesOf(Xor16(i, x), Xor8(0, 0), Xor8(i, x))
  BY <1>2, And16Bytes
<1>4. Xor8(0, 0) = 0
  <2>1. 0 \in 0..255
    OBVIOUS
  <2> QED
    BY <2>1, Xor8Equal, Zenon
<1>5. Xor8(i, x) \in 0..255 /\ (Xor8(i, x) = 0 <=> i = x)
  BY Xor8Equal, Zenon
<1>6. Xor16(i, x) = Xor8(i, x)
  <2>1. Xor16(i, x) = 256 * Xor8(0, 0) + Xor8(i, x)
    BY <1>3 DEF BytesOf
  <2> QED
    BY <1>4, <1>5, <2>1
<1>7. Top(Minus16(Xor8(i, x), 1)) = IF Xor8(i, x) = 0 THEN 255 ELSE 0
  BY <1>5, LessOne
<1> QED
  BY <1>5, <1>6, <1>7 DEF Barrier

\* What the loop of sodium_pad computes: TailByte is what it makes of the byte
\* i places before the last one, with the mask that the turns have collected.
TailByte(v, mask, i, x) == Or8(And8(v, mask), And8(128, Barrier(i, x)))
MaskTurns(b, x, m) == m[0] = 0 /\ \A i \in 1..b : m[i] = Or8(m[i - 1], Barrier(i - 1, x))
MaskAt(i, x) == IF i > x THEN 255 ELSE 0
MaskRight(b, x, m) == \A i \in 0..b : m[i] = MaskAt(i, x)
TailOf(n, buf, last, b, x, m) ==
    [k \in 1..n |-> IF last + 1 - k \in 0..b-1 THEN TailByte(buf[k], m[last + 1 - k], last + 1 - k, x) ELSE buf[k]]
TailTurns(buf, last, b, x) ==
    \E m : MaskTurns(b, x, m) /\ Tailed(buf, last, b, x) = TailOf(Len(buf), buf, last, b, x, m)
TailRight(v, i, x) == TailByte(v, MaskAt(i, x), i, x) = IF i > x THEN v ELSE IF i = x THEN 128 ELSE 0

\* The result of sodium_pad's loop over the last block is that of its turns.
LEMMA TailLoop ==
    ASSUME NEW b \in Nat, b <= 256, NEW x \in 0..255, NEW buf, NEW last
    PROVE  TailTurns(buf, last, b, x)
<1> DEFINE V == 0..255
           st == [p \in (1..b) \X (0..255) |-> Or8(p[2], Barrier(p[1] - 1, x))]
           F(g) == [i \in 0..b |-> IF i = 0 THEN 0 ELSE Or8(g[i - 1], Barrier(i - 1, x))]
           d == CHOOSE g : g = F(g)
<1>1. st \in Steps(b, V)
  <2>1. \A i \in 1..b, v \in 0..255 : Or8(v, Barrier(i - 1, x)) \in 0..255
    <3> SUFFICES ASSUME NEW i \in 1..b, NEW v \in 0..255 PROVE Or8(v, Barrier(i - 1, x)) \in 0..255
      BY Zenon
    <3>1. i - 1 \in 0..255 /\ 0 \in 0..255 /\ 255 \in 0..255
      OBVIOUS
    <3>a. \A j \in 0..255 : Barrier(j, x) = 0 \/ Barrier(j, x) = 255
      BY BarrierAtMark
    <3>2. Barrier(i - 1, x) \in 0..255
      BY <3>1, <3>a
    <3> QED
      BY <3>2, Or8Facts, Zenon
  <2> QED
    BY <2>1, Zenon DEF Steps
<1>2. \E g \in [0..b -> V] : g = Turns(g, b, 0, st)
  <2>1. 0 \in V
    OBVIOUS
  <2> HIDE DEF V, st
  <2> QED
    BY <1>1, <2>1, LoopExists
<1>3. \E g : g = F(g)
  <2>1. PICK g \in [0..b -> V] : g = Turns(g, b, 0, st)
    BY <1>2
  <2>2. \A i \in 0..b : i # 0 => st[<<i, g[i - 1]>>] = Or8(g[i - 1], Barrier(i - 1, x))
    OBVIOUS
  <2>3. Turns(g, b, 0, st) = F(g)
    BY <2>2 DEF Turns
  <2> QED
    BY <2>1, <2>3
<1>4. d = F(d)
  BY <1>3
<1>5. d[0] = 0 /\ \A i \in 1..b : d[i] = Or8(d[i - 1], Barrier(i - 1, x))
  <2> HIDE DEF d
  <2>1. F(d)[0] = 0 /\ \A i \in 1..b : F(d)[i] = Or8(d[i - 1], Barrier(i - 1, x))
    OBVIOUS
  <2> HIDE DEF F
  <2> QED
    BY <1>4, <2>1
<1>6. Tailed(buf, last, b, x) = TailOf(Len(buf), buf, last, b, x, d)
  BY DEF Tailed, TailOf, TailByte
<1> HIDE DEF d
<1>7. MaskTurns(b, x, d)
  BY <1>5 DEF MaskTurns
<1> QED
  BY <1>6, <1>7 DEF TailTurns

\* The mask is empty up to the mark and full behind it.
LEMMA MaskFound ==
    ASSUME NEW b \in Nat, b <= 256, NEW x \in 0..255, NEW m, MaskTurns(b, x, m)
    PROVE  MaskRight(b, x, m)
<1>0. m[0] = 0 /\ \A i \in 1..b : m[i] = Or8(m[i - 1], Barrier(i - 1, x))
  BY DEF MaskTurns
<1> DEFINE S == {i \in 0..b : m[i] = IF i > x THEN 255 ELSE 0}
<1>1. 0 \in S
  BY <1>0
<1>2. ASSUME NEW i \in 0..b, i < b, i \in S PROVE i + 1 \in S
  <2>1. m[i + 1] = Or8(m[i], Barrier(i, x)) /\ i + 1 \in 0..b /\ i \in 0..255
    <3>1. i + 1 \in 1..b /\ i + 1 - 1 = i /\ i \in 0..255
      BY <1>2
    <3> QED
      BY <1>0, <3>1
  <2>2. Barrier(i, x) = IF i = x THEN 255 ELSE 0
    BY <2>1, BarrierAtMark, Zenon
  <2>3. m[i] = IF i > x THEN 255 ELSE 0
    BY <1>2
  <2>4. Or8(255, 0) = 255 /\ Or8(0, 255) = 255 /\ Or8(0, 0) = 0
    <3>1. 0 \in 0..255 /\ 255 \in 0..255
      OBVIOUS
    <3> QED
      BY <3>1, Or8Whole
  <2>5. m[i + 1] = IF i + 1 > x THEN 255 ELSE 0
    BY <2>1, <2>2, <2>3, <2>4
  <2> QED
    BY <2>1, <2>5
<1> HIDE DEF S
<1>3. 0..b \subseteq S
  BY <1>1, <1>2, TurnInduction
<1> QED
  BY <1>3 DEF S, MaskAt, MaskRight

\* The byte that the mask leaves is the mark at its place, 0 after it, and
\* the byte of the buffer before it.
LEMMA TailByteFound ==
    ASSUME NEW v \in 0..255, NEW i \in 0..255, NEW x \in 0..255
    PROVE  TailRight(v, i, x)
<1>1. Barrier(i, x) = IF i = x THEN 255 ELSE 0
  BY BarrierAtMark, Zenon
<1>2. And8(v, 255) = v /\ And8(v, 0) = 0
  BY And8Whole
<1>3. And8(128, 255) = 128 /\ And8(128, 0) = 0 /\ Or8(0, 128) = 128
  <2>1. 128 \in 0..255
    OBVIOUS
  <2> QED
    BY <2>1, And8Whole, Or8Whole
<1>4. Or8(v, 0) = v
  BY Or8Whole
<1>5. Or8(0, 0) = 0
  <2>1. 0 \in 0..255
    OBVIOUS
  <2> QED
    BY <2>1, Or8Whole
<1> QED
  BY <1>1, <1>2, <1>3, <1>4, <1>5 DEF TailByte, MaskAt, TailRight

\* sodium_pad writes the mark and zeros up to the end of the block, and nothing
\* before or behind them.
LEMMA TailedIsPadded ==
    ASSUME NEW n \in Nat, n <= MemoryMax, NEW buf \in Bytes(n),
           NEW len \in Nat, NEW b \in Nat, NEW x \in Nat, x < b, b - 1 - x <= len, len + x + 1 <= n
    PROVE  Tailed(buf, len + x, b, x) = PaddedTo(buf, len, len + x + 1)
<1>1. b <= 256 /\ x \in 0..255 /\ Len(buf) = n
  <2>1. b <= n /\ n <= 256
    BY DEF MemoryMax
  <2> QED
    BY <2>1, LenOfBytes
<1> DEFINE last == len + x
<1>2. PICK m : MaskTurns(b, x, m) /\ Tailed(buf, last, b, x) = TailOf(Len(buf), buf, last, b, x, m)
  <2>1. b <= 256 /\ x \in 0..255
    BY <1>1
  <2> HIDE DEF last
  <2>2. TailTurns(buf, last, b, x)
    BY <2>1, TailLoop
  <2> QED
    BY <2>2 DEF TailTurns
<1>3. \A i \in 0..b : m[i] = MaskAt(i, x)
  <2>1. MaskRight(b, x, m)
    BY <1>1, <1>2, MaskFound, Zenon
  <2> QED
    BY <2>1 DEF MaskRight
<1>4. ASSUME NEW k \in 1..n, NEW i \in 0..b-1, i = last + 1 - k
      PROVE  TailByte(buf[k], m[i], i, x) = IF k <= len THEN buf[k] ELSE IF k = len + 1 THEN 128 ELSE 0
  <2>1. i \in 0..255 /\ i \in 0..b /\ (i > x <=> k <= len) /\ (i = x <=> k = len + 1)
    BY <1>1, <1>4
  <2>2. buf[k] \in 0..255
    BY DEF Bytes
  <2>3. TailByte(buf[k], MaskAt(i, x), i, x) = IF i > x THEN buf[k] ELSE IF i = x THEN 128 ELSE 0
    <3>1. i \in 0..255
      BY <2>1
    <3>2. x \in 0..255
      BY <1>1
    <3>3. TailRight(buf[k], i, x)
      BY <2>2, <3>1, <3>2, TailByteFound, Zenon
    <3> QED
      BY <3>3 DEF TailRight
  <2>4. m[i] = MaskAt(i, x)
    BY <1>3, <2>1
  <2> HIDE DEF last
  <2> QED
    BY <2>1, <2>3, <2>4
<1>5. ASSUME NEW k \in 1..n
      PROVE  (last + 1 - k \notin 0..b-1 => k <= len \/ k > len + x + 1) /\ (last + 1 - k \in 0..b-1 => k <= len + x + 1)
  BY <1>1
<1>6. ASSUME NEW k \in 1..n
      PROVE  (IF last + 1 - k \in 0..b-1 THEN TailByte(buf[k], m[last + 1 - k], last + 1 - k, x) ELSE buf[k])
             = IF k <= len \/ k > len + x + 1 THEN buf[k] ELSE IF k = len + 1 THEN 128 ELSE 0
  <2> HIDE DEF last
  <2>1. CASE last + 1 - k \in 0..b-1
    <3>1. PICK i \in 0..b-1 : i = last + 1 - k
      BY <2>1
    <3>2. TailByte(buf[k], m[i], i, x) = IF k <= len THEN buf[k] ELSE IF k = len + 1 THEN 128 ELSE 0
      BY <1>4, <3>1
    <3> QED
      BY <1>5, <2>1, <3>1, <3>2
  <2>2. CASE last + 1 - k \notin 0..b-1
    BY <1>5, <2>2
  <2> QED
    BY <2>1, <2>2
<1> HIDE DEF last
<1>7. TailOf(n, buf, last, b, x, m) = PaddedTo(buf, len, len + x + 1)
  BY <1>1, <1>6 DEF TailOf, PaddedTo
<1> QED
  BY <1>1, <1>2, <1>7 DEF last

\* What sodium_pad returns and leaves, with room for the padding and without.
PadRight(n, buf, len, b, max, p) ==
    LET total == Total(len, b)
    IN /\ p.ret = IF total > Uint - 1 THEN Misused ELSE IF total > max THEN -1 ELSE 0
       /\ IF p.ret # 0 THEN p.buf = buf ELSE p.len = total /\ p.buf = PaddedTo(buf, len, total)
       /\ p.ret = 0 => total <= n /\ b <= total /\ total - b <= len /\ len < total /\ total \in Nat

\* sodium_pad pads, fails or stops as its lengths say.
LEMMA PadPads ==
    ASSUME NEW n \in Nat, n <= MemoryMax, NEW buf \in Bytes(n), NEW len \in 0..Uint-1,
           NEW b \in 0..Uint-1, b # 0, NEW max \in 0..n
    PROVE  PadRight(n, buf, len, b, max, sodium_pad(buf, len, b, max))
<1> DEFINE x == PadLength(len, b)  total == Total(len, b)  p == sodium_pad(buf, len, b, max)
<1>1. /\ x = b - 1 - (len % b) /\ len % b \in 0..b-1 /\ len % b <= len
      /\ len + x + 1 = total /\ x \in 0..b-1
  BY PadLengthFills
<1>2. p = IF Uint - 1 - len <= x THEN [ret |-> Misused, buf |-> buf, len |-> -1]
          ELSE IF len + x >= max THEN [ret |-> -1, buf |-> buf, len |-> -1]
          ELSE [ret |-> 0, buf |-> Tailed(buf, len + x, b, x), len |-> len + x + 1]
  BY DEF sodium_pad
<1> HIDE DEF x, p, total
<1>3. len \in Nat /\ b \in Nat /\ x \in Nat /\ max \in Nat /\ x < b /\ b - 1 - x <= len /\ total \in Nat /\ Uint \in Nat
  <2>1. len \in Nat /\ b \in Nat /\ max \in Nat /\ Uint \in Nat
    BY UintIsNat
  <2> QED
    BY <1>1, <2>1
<1>4. CASE Uint - 1 - len <= x
  <2>1. total > Uint - 1
    BY <1>1, <1>3, <1>4
  <2>2. p.ret = Misused /\ p.buf = buf /\ Misused # 0
    BY <1>2, <1>4 DEF Misused
  <2> QED
    BY <2>1, <2>2 DEF PadRight, total, p
<1>5. CASE ~(Uint - 1 - len <= x) /\ len + x >= max
  <2>1. ~(total > Uint - 1) /\ total > max
    BY <1>1, <1>3, <1>5
  <2>2. p.ret = -1 /\ p.buf = buf /\ -1 # 0
    BY <1>2, <1>5
  <2> QED
    BY <2>1, <2>2 DEF PadRight, total, p
<1>6. CASE ~(Uint - 1 - len <= x) /\ ~(len + x >= max)
  <2>1. ~(total > Uint - 1) /\ ~(total > max) /\ len + x + 1 <= n
    BY <1>1, <1>3, <1>6
  <2>2. p.ret = 0 /\ p.buf = Tailed(buf, len + x, b, x) /\ p.len = total
    BY <1>1, <1>2, <1>6
  <2>3. Tailed(buf, len + x, b, x) = PaddedTo(buf, len, len + x + 1)
    BY <1>3, <2>1, TailedIsPadded
  <2>4. p.buf = PaddedTo(buf, len, total)
    BY <1>1, <2>2, <2>3
  <2>5. total <= n /\ b <= total /\ total - b <= len /\ len < total
    BY <1>1, <1>3, <2>1
  <2> QED
    BY <1>3, <2>1, <2>2, <2>4, <2>5 DEF PadRight, total, p
<1> QED
  BY <1>4, <1>5, <1>6

-----------------------------------------------------------------------------
(* sodium_unpad.                                                           *)

\* Of three bytes, none that is not 0 lets the barrier up.
LEMMA LessOneWide ==
    ASSUME NEW x \in 0..255
    PROVE  /\ Minus16(x, 1) \in 0..Uint-1 /\ (x = 0 => Minus16(x, 1) = Uint - 1)
           /\ (x # 0 => Minus16(x, 1) <= 255)
<1>1. x \in 0..Uint-1 /\ 1 \in 0..Uint-1
  BY InWord
<1>2. Minus16(x, 1) = (IF x < 1 THEN x - 1 + Uint ELSE x - 1) /\ Minus16(x, 1) \in 0..Uint-1
  BY <1>1, MinusWraps
<1> QED
  BY <1>2, UintIsNat

\* The top byte of a word of one byte is 0.
LEMMA SmallTop ==
    ASSUME NEW w \in 0..Uint-1, w <= 255
    PROVE  Top(w) = 0
<1>1. w \in 0..255
  BY UintIsNat
<1>2. BytesOf(w, 0, w)
  BY <1>1 DEF BytesOf
<1> QED
  BY <1>2, BytesOfDivided

Barriers(x, y, z) ==
    Top(And16(And16(Minus16(x, 1), Minus16(y, 1)), Minus16(z, 1))) = IF x = 0 /\ y = 0 /\ z = 0 THEN 255 ELSE 0

\* Three bytes less 1 have their top bits in common only when all three are
\* 0.
LEMMA BarrierOfThree ==
    ASSUME NEW x \in 0..255, NEW y \in 0..255, NEW z \in 0..255
    PROVE  Barriers(x, y, z)
<1> DEFINE a == Minus16(x, 1)  b == Minus16(y, 1)  c == Minus16(z, 1)
<1>1. a \in 0..Uint-1 /\ (x = 0 => a = Uint - 1) /\ (x # 0 => a <= 255)
  BY LessOneWide
<1>2. b \in 0..Uint-1 /\ (y = 0 => b = Uint - 1) /\ (y # 0 => b <= 255)
  BY LessOneWide
<1>3. c \in 0..Uint-1 /\ (z = 0 => c = Uint - 1) /\ (z # 0 => c <= 255)
  BY LessOneWide
<1> HIDE DEF a, b, c
<1> DEFINE v == And16(a, b)  w == And16(And16(a, b), c)
<1>4. v \in 0..Uint-1 /\ v <= a /\ v <= b
  BY <1>1, <1>2, And16InWord
<1>5. w \in 0..Uint-1 /\ w <= v /\ w <= c
  BY <1>3, <1>4, And16InWord
<1>6. CASE x = 0 /\ y = 0 /\ z = 0
  <2>1. a = Uint - 1 /\ b = Uint - 1 /\ c = Uint - 1 /\ Uint - 1 \in 0..Uint-1
    BY <1>1, <1>2, <1>3, <1>6
  <2>2. And16(Uint - 1, Uint - 1) = Uint - 1
    BY <2>1, And16Whole
  <2>3. w = Uint - 1
    BY <2>1, <2>2
  <2>4. Top(Uint - 1) = 255
    BY BytesOfEnds, BytesOfDivided
  <2> QED
    BY <1>6, <2>3, <2>4 DEF a, b, c, Barriers
<1>7. CASE ~(x = 0 /\ y = 0 /\ z = 0)
  <2> HIDE DEF v, w
  <2>1. a \in Int /\ b \in Int /\ c \in Int /\ v \in Int /\ w \in Int
    BY <1>1, <1>2, <1>3, <1>4, <1>5, UintIsNat
  <2>2. w <= 255
    BY <1>1, <1>2, <1>3, <1>4, <1>5, <1>7, <2>1
  <2>3. Top(w) = 0
    BY <1>5, <2>2, SmallTop
  <2> QED
    BY <1>7, <2>3 DEF a, b, c, v, w, Barriers
<1> QED
  BY <1>6, <1>7

\* | takes words to a word.
LEMMA Or16InWord ==
    ASSUME NEW a \in 0..Uint-1, NEW b \in 0..Uint-1
    PROVE  Or16(a, b) \in 0..Uint-1
<1> DEFINE p == a \div 256  q == a % 256  r == b \div 256  s == b % 256
<1>1. BytesOf(a, p, q) /\ BytesOf(b, r, s)
  BY BytesOfWord
<1> HIDE DEF p, q, r, s
<1>2. BytesOf(And16(a, b), And8(p, r), And8(q, s))
  BY <1>1, And16Bytes
<1>3. /\ p \in 0..255 /\ q \in 0..255 /\ r \in 0..255 /\ s \in 0..255
      /\ a = 256 * p + q /\ b = 256 * r + s /\ And16(a, b) = 256 * And8(p, r) + And8(q, s)
  BY <1>1, <1>2 DEF BytesOf
<1>a. p \in 0..255 /\ q \in 0..255 /\ r \in 0..255 /\ s \in 0..255
  BY <1>3
<1>b. Smaller(p, r) /\ Smaller(q, s)
  BY <1>a, And8Within
<1>4. And8(p, r) \in 0..255 /\ And8(p, r) <= p /\ p + r - And8(p, r) <= 255
  BY <1>b DEF Smaller
<1>5. And8(q, s) \in 0..255 /\ And8(q, s) <= q /\ q + s - And8(q, s) <= 255
  BY <1>b DEF Smaller
<1>6. Or16(a, b) \in Int /\ 0 <= Or16(a, b) /\ Or16(a, b) <= 65535
  <2> DEFINE x == And8(p, r)  y == And8(q, s)
  <2>1. x \in 0..255 /\ x <= p /\ p + r - x <= 255
    BY <1>4
  <2>2. y \in 0..255 /\ y <= q /\ q + s - y <= 255
    BY <1>5
  <2>3. a = 256 * p + q /\ b = 256 * r + s /\ And16(a, b) = 256 * x + y
    BY <1>3
  <2>4. Or16(a, b) = a + b - And16(a, b)
    BY DEF Or16
  <2> HIDE DEF x, y
  <2>5. Or16(a, b) = (256 * p + q) + (256 * r + s) - (256 * x + y)
    BY <2>3, <2>4
  <2> QED
    BY <1>3, <2>1, <2>2, <2>5
<1> QED
  BY <1>6, InWord

\* What a turn of sodium_unpad makes of the bytes so far, acc, the place of
\* the mark, pad_len, and whether there is one, valid.
Unpads == [acc : 0..255, pad_len : 0..Uint-1, valid : 0..255]
BarrierOf(s, c) ==
    Top(And16(And16(Minus16(s.acc, 1), Minus16(s.pad_len, 1)), Minus16(Xor8(c, 128), 1))) % 2

\* What a turn of sodium_unpad does to each of its variables.
LEMMA TurnOfBarrier ==
    ASSUME NEW s, NEW c, NEW i
    PROVE  /\ UnpadTurn(s, c, i).acc = Or8(s.acc, c)
           /\ UnpadTurn(s, c, i).pad_len = Or16(s.pad_len, And16(i, Neg16(BarrierOf(s, c))))
           /\ UnpadTurn(s, c, i).valid = Or8(s.valid, BarrierOf(s, c))
           /\ UnpadTurn(s, c, i) = [acc |-> Or8(s.acc, c), pad_len |-> Or16(s.pad_len, And16(i, Neg16(BarrierOf(s, c)))),
                                    valid |-> Or8(s.valid, BarrierOf(s, c))]
BY DEF UnpadTurn, BarrierOf

\* The barrier of sodium_unpad is a bit.
LEMMA BarrierIsBit ==
    ASSUME NEW s \in Unpads, NEW c \in 0..255
    PROVE  BarrierOf(s, c) \in 0..1
<1> DEFINE w == And16(And16(Minus16(s.acc, 1), Minus16(s.pad_len, 1)), Minus16(Xor8(c, 128), 1))
<1>1. s.acc \in 0..255 /\ s.pad_len \in 0..Uint-1
  BY DEF Unpads
<1>2. 1 \in 0..Uint-1
  BY InWord
<1>3. Minus16(s.acc, 1) \in 0..Uint-1
  BY <1>1, LessOneWide
<1>4. Minus16(s.pad_len, 1) \in 0..Uint-1
  BY <1>1, <1>2, MinusWraps
<1>5. Minus16(Xor8(c, 128), 1) \in 0..Uint-1
  <2>1. \A x \in 0..255 : Differs(c, x)
    BY Xor8Differs, Zenon
  <2>a. 128 \in 0..255
    OBVIOUS
  <2>2. Xor8(c, 128) \in 0..255
    BY <2>1, <2>a, Zenon DEF Differs
  <2> QED
    BY <2>2, LessOneWide, Zenon
<1>6. w \in 0..Uint-1
  <2>1. And16(Minus16(s.acc, 1), Minus16(s.pad_len, 1)) \in 0..Uint-1
    BY <1>3, <1>4, And16InWord
  <2> QED
    BY <1>5, <2>1, And16InWord
<1> HIDE DEF w
<1>7. Top(w) \in Nat
  <2>1. BytesOf(w, w \div 256, w % 256)
    BY <1>6, BytesOfWord
  <2> DEFINE p == w \div 256  q == w % 256
  <2>a. p \in 0..255
    BY <2>1 DEF BytesOf
  <2> HIDE DEF p, q
  <2>b. Top(w) = p
    BY <2>1, BytesOfDivided DEF p, q
  <2>2. Top(w) = p /\ p \in Nat
    BY <2>a, <2>b
  <2> QED
    BY <2>2
<1>8. \A t \in Nat : t % 2 \in 0..1
  OBVIOUS
<1> QED
  BY <1>7, <1>8 DEF BarrierOf, w

\* A turn of sodium_unpad keeps the widths of its variables.
LEMMA UnpadTurnStays ==
    ASSUME NEW s \in Unpads, NEW c \in 0..255, NEW i \in 0..255
    PROVE  UnpadTurn(s, c, i) \in Unpads
<1>1. BarrierOf(s, c) \in 0..1
  BY BarrierIsBit
<1>2. s.acc \in 0..255 /\ s.pad_len \in 0..Uint-1 /\ s.valid \in 0..255
  BY DEF Unpads
<1>3. Or8(s.acc, c) \in 0..255
  BY <1>2, Or8Facts, Zenon
<1>4. BarrierOf(s, c) \in 0..255
  BY <1>1
<1>5. Or8(s.valid, BarrierOf(s, c)) \in 0..255
  BY <1>2, <1>4, Or8Facts, Zenon
<1>6. Neg16(BarrierOf(s, c)) \in 0..Uint-1
  <2>1. 0 \in 0..Uint-1 /\ BarrierOf(s, c) \in 0..Uint-1
    BY <1>1, InWord
  <2> QED
    BY <2>1, MinusWraps DEF Neg16
<1>7. i \in 0..Uint-1
  BY InWord
<1>8. And16(i, Neg16(BarrierOf(s, c))) \in 0..Uint-1
  BY <1>6, <1>7, And16InWord
<1>9. Or16(s.pad_len, And16(i, Neg16(BarrierOf(s, c)))) \in 0..Uint-1
  BY <1>2, <1>8, Or16InWord
<1> QED
  BY <1>3, <1>5, <1>9, TurnOfBarrier DEF Unpads

\* The barrier comes down at the mark: at the first byte that is not 0, if it
\* is 128.
LEMMA BarrierOfTurn ==
    ASSUME NEW s, s.acc \in 0..255, s.pad_len \in 0..255, NEW c \in 0..255
    PROVE  BarrierOf(s, c) = IF s.acc = 0 /\ s.pad_len = 0 /\ c = 128 THEN 1 ELSE 0
<1>1. 128 \in 0..255 /\ 255 % 2 = 1 /\ 0 % 2 = 0
  OBVIOUS
<1>a. \A x \in 0..255 : Xor8(c, x) \in 0..255 /\ (Xor8(c, x) = 0 <=> c = x)
  BY Xor8Equal, Zenon
<1>2. Xor8(c, 128) \in 0..255 /\ (Xor8(c, 128) = 0 <=> c = 128)
  BY <1>1, <1>a, Zenon
<1> DEFINE z == Xor8(c, 128)
<1> HIDE DEF z
<1>3. z \in 0..255 /\ (z = 0 <=> c = 128)
  BY <1>2 DEF z
<1>4. Top(And16(And16(Minus16(s.acc, 1), Minus16(s.pad_len, 1)), Minus16(z, 1)))
      = IF s.acc = 0 /\ s.pad_len = 0 /\ z = 0 THEN 255 ELSE 0
  <2> DEFINE x == s.acc  y == s.pad_len
  <2>1. x \in 0..255 /\ y \in 0..255
    OBVIOUS
  <2> HIDE DEF x, y
  <2>2. z \in 0..255
    BY <1>3
  <2>3. Barriers(x, y, z)
    BY <2>1, <2>2, BarrierOfThree, Zenon
  <2> QED
    BY <2>3 DEF x, y, Barriers
<1>5. BarrierOf(s, c) = (IF s.acc = 0 /\ s.pad_len = 0 /\ z = 0 THEN 255 ELSE 0) % 2
  BY <1>4 DEF BarrierOf, z
<1> QED
  BY <1>1, <1>3, <1>5

\* What the barrier leaves of the place: nothing, or all of it.
LEMMA PlaceKept ==
    ASSUME NEW pad_len \in 0..255, NEW i \in 0..255
    PROVE  /\ Or16(pad_len, And16(i, Neg16(0))) = pad_len
           /\ Or16(0, And16(i, Neg16(1))) = i
<1>1. pad_len \in 0..Uint-1 /\ i \in 0..Uint-1 /\ 0 \in 0..Uint-1 /\ 1 \in 0..Uint-1
  BY InWord
<1>2. Neg16(0) = 0
  BY <1>1, MinusWraps DEF Neg16
<1>3. Neg16(1) = Uint - 1
  BY <1>1, MinusWraps, UintIsNat DEF Neg16
<1>4. And16(i, 0) = 0 /\ And16(i, Uint - 1) = i
  BY <1>1, And16Whole
<1>5. And16(pad_len, 0) = 0
  BY <1>1, And16Whole
<1>6. And16(0, i) = 0
  BY <1>1, And16InWord, UintIsNat
<1>7. Or16(pad_len, 0) = pad_len /\ Or16(0, i) = i
  BY <1>5, <1>6 DEF Or16
<1> QED
  BY <1>2, <1>3, <1>4, <1>7

\* The bytes of a block from its last one on, and the mark among them: a 128
\* after zeros only.
Block(buf, padded, b) == [j \in 0..b-1 |-> buf[padded - j]]
Quiet(v, i) == \A h \in 0..i-1 : v[h] = 0
MarkAt(v, j) == v[j] = 128 /\ Quiet(v, j)
\* What sodium_unpad knows after i turns.
Seen(v, i, s) ==
    /\ s \in Unpads /\ (s.acc = 0 <=> Quiet(v, i))
    /\ \/ s.valid = 1 /\ s.pad_len \in 0..i-1 /\ MarkAt(v, s.pad_len)
       \/ s.valid = 0 /\ s.pad_len = 0 /\ \A j \in 0..i-1 : ~MarkAt(v, j)

\* A turn of sodium_unpad keeps what its variables say of the bytes it has
\* seen.
LEMMA UnpadStep ==
    ASSUME NEW b \in Nat, b <= 256, NEW v \in [0..b-1 -> 0..255], NEW i \in 0..b-1, NEW s, Seen(v, i, s)
    PROVE  Seen(v, i + 1, UnpadTurn(s, v[i], i))
<1> DEFINE c == v[i]  t == UnpadTurn(s, c, i)  barrier == BarrierOf(s, c)
<1>1. c \in 0..255 /\ i \in 0..255 /\ i \in Nat
  OBVIOUS
<1>2. /\ s \in Unpads /\ (s.acc = 0 <=> Quiet(v, i))
      /\ \/ s.valid = 1 /\ s.pad_len \in 0..i-1 /\ MarkAt(v, s.pad_len)
         \/ s.valid = 0 /\ s.pad_len = 0 /\ \A j \in 0..i-1 : ~MarkAt(v, j)
  BY DEF Seen
<1>3. s.acc \in 0..255 /\ s.pad_len \in 0..255
  <2>1. s.acc \in 0..255
    BY <1>2 DEF Unpads
  <2>2. \A j \in 0..i-1 : j \in 0..255
    BY <1>1
  <2>3. s.pad_len = 0 \/ s.pad_len \in 0..i-1
    BY <1>2
  <2>4. 0 \in 0..255
    OBVIOUS
  <2> QED
    BY <2>1, <2>2, <2>3, <2>4
<1>4. 0..i = (0..i-1) \cup {i} /\ i + 1 - 1 = i
  BY <1>1
<1>5. Quiet(v, i + 1) <=> Quiet(v, i) /\ c = 0
  BY <1>4 DEF Quiet
<1>6. MarkAt(v, i) <=> Quiet(v, i) /\ c = 128
  BY DEF MarkAt
<1>7. barrier = IF s.acc = 0 /\ s.pad_len = 0 /\ c = 128 THEN 1 ELSE 0
  BY <1>1, <1>3, BarrierOfTurn
<1>8. ASSUME Quiet(v, i), NEW j \in 0..i-1 PROVE ~MarkAt(v, j)
  BY <1>8 DEF Quiet, MarkAt
<1>9. barrier = IF MarkAt(v, i) THEN 1 ELSE 0
  <2>1. Quiet(v, i) => s.pad_len = 0 /\ s.valid = 0
    BY <1>2, <1>8
  <2> QED
    BY <1>2, <1>6, <1>7, <2>1
<1>10. t \in Unpads
  BY <1>1, <1>2, UnpadTurnStays, Zenon
<1>11. t.acc = Or8(s.acc, c) /\ t.pad_len = Or16(s.pad_len, And16(i, Neg16(barrier))) /\ t.valid = Or8(s.valid, barrier)
  BY TurnOfBarrier
<1> HIDE DEF t, c, barrier
<1>12. t.acc = 0 <=> Quiet(v, i + 1)
  <2>1. c \in 0..255 /\ s.acc \in 0..255
    BY <1>1, <1>3
  <2>2. \A x \in 0..255, y \in 0..255 : Or8(x, y) = 0 <=> x = 0 /\ y = 0
    BY Or8Facts, Zenon
  <2>3. Or8(s.acc, c) = 0 <=> s.acc = 0 /\ c = 0
    BY <2>1, <2>2, Zenon
  <2> QED
    BY <1>2, <1>5, <1>11, <2>3
<1>13. Or16(s.pad_len, And16(i, Neg16(0))) = s.pad_len /\ Or16(0, And16(i, Neg16(1))) = i
  BY <1>1, <1>3, PlaceKept, Zenon
<1>14. Or8(0, 1) = 1 /\ Or8(0, 0) = 0 /\ Or8(1, 0) = 1
  <2>1. 0 \in 0..255 /\ 1 \in 0..255
    OBVIOUS
  <2> QED
    BY <2>1, Or8Whole
<1>15. CASE MarkAt(v, i)
  <2>1. Quiet(v, i)
    BY <1>6, <1>15
  <2>2. s.valid = 0 /\ s.pad_len = 0
    BY <1>2, <1>8, <2>1
  <2>3. t.valid = 1 /\ t.pad_len = i
    BY <1>9, <1>11, <1>13, <1>14, <1>15, <2>2
  <2>4. i \in 0..i+1-1
    BY <1>1
  <2> QED
    BY <1>10, <1>12, <1>15, <2>3, <2>4 DEF Seen, t, c
<1>16. CASE ~MarkAt(v, i)
  <2>1. t.pad_len = s.pad_len
    BY <1>9, <1>11, <1>13, <1>16
  <2>2. (s.valid = 1 => t.valid = 1) /\ (s.valid = 0 => t.valid = 0)
    BY <1>9, <1>11, <1>14, <1>16
  <2>3. s.pad_len \in 0..i-1 => s.pad_len \in 0..i+1-1
    BY <1>1
  <2>4. \A j \in 0..i+1-1 : j = i \/ j \in 0..i-1
    BY <1>1
  <2>5. \/ t.valid = 1 /\ t.pad_len \in 0..i+1-1 /\ MarkAt(v, t.pad_len)
        \/ t.valid = 0 /\ t.pad_len = 0 /\ \A j \in 0..i+1-1 : ~MarkAt(v, j)
    BY <1>2, <1>16, <2>1, <2>2, <2>3, <2>4
  <2> QED
    BY <1>10, <1>12, <2>5 DEF Seen, t, c
<1> QED
  BY <1>15, <1>16

\* What the loop of sodium_unpad computes.
Begun == [acc |-> 0, pad_len |-> 0, valid |-> 0]
UnpadTurns(v, b, s) == s[0] = Begun /\ \A i \in 1..b : s[i] = UnpadTurn(s[i - 1], v[i - 1], i - 1)
UnpadOf(buf, padded, b) ==
    \E s : /\ UnpadTurns(Block(buf, padded, b), b, s)
           /\ sodium_unpad(buf, padded, b) = [ret |-> s[b].valid - 1, len |-> padded - 1 - s[b].pad_len]

\* sodium_unpad's result is that of its last turn.
LEMMA UnpadLoop ==
    ASSUME NEW n \in Nat, n <= MemoryMax, NEW buf \in Bytes(n), NEW padded \in 0..n,
           NEW b \in Nat, b # 0, b <= padded
    PROVE  UnpadOf(buf, padded, b)
<1> DEFINE W == 0..255
           v == Block(buf, padded, b)
           V == Unpads
           st == [p \in (1..b) \X V |-> UnpadTurn(p[2], buf[padded - (p[1] - 1)], p[1] - 1)]
           F(g) == [i \in 0..b |-> IF i = 0 THEN [acc |-> 0, pad_len |-> 0, valid |-> 0]
                                   ELSE UnpadTurn(g[i - 1], buf[padded - (i - 1)], i - 1)]
           d == CHOOSE g : g = F(g)
<1>0. b <= 256
  BY DEF MemoryMax
<1>1. st \in Steps(b, V)
  <2>1. ASSUME NEW i \in 1..b, NEW s \in V PROVE UnpadTurn(s, buf[padded - (i - 1)], i - 1) \in V
    <3>1. padded - (i - 1) \in 1..n /\ i - 1 \in 0..255
      BY <1>0
    <3>2. buf[padded - (i - 1)] \in 0..255
      BY <3>1 DEF Bytes
    <3> QED
      BY <3>1, <3>2, UnpadTurnStays, Zenon
  <2> HIDE DEF V
  <2> QED
    BY <2>1 DEF Steps
<1>2. \E g \in [0..b -> V] : g = Turns(g, b, Begun, st)
  <2>1. Begun \in V
    <3>1. 0 \in 0..Uint-1 /\ 0 \in 0..255
      BY InWord
    <3> QED
      BY <3>1 DEF Begun, Unpads
  <2> HIDE DEF V, st
  <2> QED
    BY <1>1, <2>1, LoopExists
<1>3. \E g : g = F(g)
  <2>1. PICK g \in [0..b -> V] : g = Turns(g, b, Begun, st)
    BY <1>2
  <2>2. \A i \in 0..b : i # 0 => st[<<i, g[i - 1]>>] = UnpadTurn(g[i - 1], buf[padded - (i - 1)], i - 1)
    <3> SUFFICES ASSUME NEW i \in 0..b, i # 0 PROVE st[<<i, g[i - 1]>>] = UnpadTurn(g[i - 1], buf[padded - (i - 1)], i - 1)
      OBVIOUS
    <3>1. i \in 1..b /\ i - 1 \in 0..b
      OBVIOUS
    <3>2. g[i - 1] \in V
      BY <3>1
    <3> HIDE DEF V
    <3> QED
      BY <3>1, <3>2
  <2> HIDE DEF st
  <2>3. Turns(g, b, Begun, st) = F(g)
    BY <2>2 DEF Turns, Begun
  <2> QED
    BY <2>1, <2>3
<1>4. d = F(d)
  BY <1>3
<1>5. d[0] = Begun /\ \A i \in 1..b : d[i] = UnpadTurn(d[i - 1], buf[padded - (i - 1)], i - 1)
  <2> HIDE DEF d
  <2>1. F(d)[0] = Begun /\ \A i \in 1..b : F(d)[i] = UnpadTurn(d[i - 1], buf[padded - (i - 1)], i - 1)
    BY DEF Begun
  <2> HIDE DEF F
  <2> QED
    BY <1>4, <2>1
<1>6. sodium_unpad(buf, padded, b) = [ret |-> d[b].valid - 1, len |-> padded - 1 - d[b].pad_len]
  <2>1. ~(padded < b \/ b = 0)
    OBVIOUS
  <2> QED
    BY <2>1 DEF sodium_unpad
<1>7. \A i \in 1..b : v[i - 1] = buf[padded - (i - 1)]
  BY DEF Block
<1> HIDE DEF d, v
<1>8. UnpadTurns(v, b, d)
  BY <1>5, <1>7 DEF UnpadTurns
<1> QED
  BY <1>6, <1>8 DEF UnpadOf, v

\* The mark of a block is the mark of the buffer, counted from the end.
LEMMA MarkOfBlock ==
    ASSUME NEW buf, NEW padded \in Nat, NEW b \in Nat, b <= padded, NEW j \in 0..b-1
    PROVE  MarkAt(Block(buf, padded, b), j) <=> padded - j \in Marks(buf, padded)
<1> DEFINE v == Block(buf, padded, b)
<1>1. \A h \in 0..b-1 : v[h] = buf[padded - h]
  BY DEF Block
<1>2. padded - j \in 1..padded
  OBVIOUS
<1> HIDE DEF v
<1>3. ASSUME MarkAt(v, j), NEW k \in padded-j+1..padded PROVE buf[k] = 0
  <2>1. padded - k \in 0..j-1 /\ padded - k \in 0..b-1 /\ padded - (padded - k) = k
    BY <1>3
  <2>2. v[padded - k] = 0
    BY <1>3, <2>1 DEF MarkAt, Quiet
  <2> QED
    BY <1>1, <2>1, <2>2
<1>4. ASSUME \A k \in padded-j+1..padded : buf[k] = 0, NEW h \in 0..j-1 PROVE v[h] = 0
  <2>1. h \in 0..b-1 /\ padded - h \in padded-j+1..padded
    OBVIOUS
  <2> QED
    BY <1>1, <1>4, <2>1
<1>5. MarkAt(v, j) => padded - j \in Marks(buf, padded)
  BY <1>1, <1>2, <1>3 DEF MarkAt, Marks
<1>6. padded - j \in Marks(buf, padded) => MarkAt(v, j)
  BY <1>1, <1>4 DEF MarkAt, Quiet, Marks
<1> QED
  BY <1>5, <1>6 DEF v

\* What sodium_unpad returns: the place of the mark, if it is in the last block.
UnpadRight(buf, padded, b, u) ==
    IF padded >= b /\ \E k \in Marks(buf, padded) : k > padded - b
    THEN \E k \in Marks(buf, padded) : u = [ret |-> 0, len |-> k - 1]
    ELSE u.ret = -1

\* sodium_unpad finds the last mark that only zeros follow, when it is in
\* the last block.
LEMMA UnpadFinds ==
    ASSUME NEW n \in Nat, n <= MemoryMax, NEW buf \in Bytes(n), NEW padded \in 0..n, NEW b \in Nat, b # 0
    PROVE  UnpadRight(buf, padded, b, sodium_unpad(buf, padded, b))
<1> DEFINE v == Block(buf, padded, b)
<1>1. CASE padded < b
  <2>1. sodium_unpad(buf, padded, b) = [ret |-> -1, len |-> -1]
    BY <1>1 DEF sodium_unpad
  <2> QED
    BY <1>1, <2>1 DEF UnpadRight
<1>2. CASE ~(padded < b)
  <2>1. b <= padded /\ b <= 256 /\ padded \in Nat
    BY <1>2 DEF MemoryMax
  <2>2. PICK s : /\ UnpadTurns(v, b, s)
                 /\ sodium_unpad(buf, padded, b) = [ret |-> s[b].valid - 1, len |-> padded - 1 - s[b].pad_len]
    BY <2>1, UnpadLoop DEF UnpadOf
  <2>3. v \in [0..b-1 -> 0..255]
    <3>1. \A j \in 0..b-1 : padded - j \in 1..n
      BY <2>1
    <3> QED
      BY <3>1 DEF Block, Bytes
  <2> HIDE DEF v
  <2>4. s[0] = Begun /\ \A i \in 1..b : s[i] = UnpadTurn(s[i - 1], v[i - 1], i - 1)
    BY <2>2 DEF UnpadTurns
  <2> DEFINE S == {i \in 0..b : Seen(v, i, s[i])}
  <2>5. 0 \in S
    <3>1. 0 \in 0..Uint-1 /\ 0 \in 0..255 /\ 0..0-1 = {}
      BY InWord
    <3>2. Seen(v, 0, Begun)
      BY <3>1 DEF Seen, Begun, Unpads, Quiet
    <3> QED
      BY <2>4, <3>2
  <2>6. ASSUME NEW i \in 0..b, i < b, i \in S PROVE i + 1 \in S
    <3>1. i + 1 \in 1..b /\ i + 1 - 1 = i /\ i \in 0..b-1 /\ i + 1 \in 0..b
      BY <2>6
    <3>2. s[i + 1] = UnpadTurn(s[i], v[i], i)
      BY <2>4, <3>1
    <3>3. Seen(v, i + 1, UnpadTurn(s[i], v[i], i))
      BY <2>1, <2>3, <2>6, <3>1, UnpadStep
    <3> QED
      BY <3>1, <3>2, <3>3
  <2> HIDE DEF S
  <2>7. 0..b \subseteq S
    BY <2>5, <2>6, TurnInduction
  <2>8. Seen(v, b, s[b])
    BY <2>7 DEF S
  <2>9. \A j \in 0..b-1 : MarkAt(v, j) <=> padded - j \in Marks(buf, padded)
    BY <2>1, MarkOfBlock DEF v
  <2>10. CASE s[b].valid = 1 /\ s[b].pad_len \in 0..b-1 /\ MarkAt(v, s[b].pad_len)
    <3> DEFINE j == s[b].pad_len
    <3>1. j \in 0..b-1 /\ padded - j \in Marks(buf, padded)
      BY <2>9, <2>10
    <3>2. padded - j > padded - b /\ padded - 1 - j = padded - j - 1 /\ 1 - 1 = 0
      BY <2>1, <3>1
    <3>3. sodium_unpad(buf, padded, b) = [ret |-> 0, len |-> padded - j - 1]
      BY <2>2, <2>10, <3>2
    <3> HIDE DEF j
    <3> QED
      BY <2>1, <3>1, <3>2, <3>3 DEF UnpadRight
  <2>11. CASE s[b].valid = 0 /\ \A j \in 0..b-1 : ~MarkAt(v, j)
    <3>1. ASSUME NEW k \in Marks(buf, padded), k > padded - b PROVE FALSE
      <4>1. k \in 1..padded
        BY DEF Marks
      <4>2. padded - k \in 0..b-1 /\ padded - (padded - k) = k
        BY <2>1, <3>1, <4>1
      <4> QED
        BY <2>9, <2>11, <4>2
    <3>2. sodium_unpad(buf, padded, b).ret = -1
      BY <2>2, <2>11
    <3> QED
      BY <3>1, <3>2 DEF UnpadRight
  <2> QED
    BY <2>8, <2>10, <2>11 DEF Seen
<1> QED
  BY <1>1, <1>2

\* sodium_unpad takes off what sodium_pad has put on.
LEMMA PaddedComesOff ==
    ASSUME NEW n \in Nat, n <= MemoryMax, NEW buf \in Bytes(n), NEW len \in Nat, NEW total \in Nat,
           NEW b \in Nat, b # 0, total <= n, b <= total, total - b <= len, len < total
    PROVE  sodium_unpad(PaddedTo(buf, len, total), total, b) = [ret |-> 0, len |-> len]
<1> DEFINE p == PaddedTo(buf, len, total)
<1>1. Len(buf) = n
  BY LenOfBytes
<1>2. p \in Bytes(n) /\ \A k \in 1..n : p[k] = IF k <= len \/ k > total THEN buf[k] ELSE IF k = len + 1 THEN 128 ELSE 0
  <2>1. \A k \in 1..n : buf[k] \in 0..255
    BY DEF Bytes
  <2>2. p = [k \in 1..n |-> IF k <= len \/ k > total THEN buf[k] ELSE IF k = len + 1 THEN 128 ELSE 0]
    BY <1>1 DEF PaddedTo
  <2>3. 0 \in 0..255 /\ 128 \in 0..255
    OBVIOUS
  <2> HIDE DEF p
  <2> QED
    BY <2>1, <2>2, <2>3 DEF Bytes
<1> HIDE DEF p
<1>3. total \in 0..n /\ len + 1 \in 1..n /\ len + 1 \in 1..total /\ ~(len + 1 <= len) /\ ~(len + 1 > total)
  OBVIOUS
<1>4. len + 1 \in Marks(p, total)
  <2>1. p[len + 1] = 128
    BY <1>2, <1>3
  <2>2. ASSUME NEW k \in len+2..total PROVE p[k] = 0
    <3>1. k \in 1..n /\ ~(k <= len) /\ ~(k > total) /\ k # len + 1
      BY <2>2
    <3> QED
      BY <1>2, <3>1
  <2>3. len + 1 + 1 = len + 2
    OBVIOUS
  <2> QED
    BY <1>3, <2>1, <2>2, <2>3 DEF Marks
<1>5. ASSUME NEW k \in Marks(p, total) PROVE k = len + 1
  <2>1. k \in 1..total /\ p[k] = 128 /\ \A j \in k+1..total : p[j] = 0
    BY DEF Marks
  <2>2. CASE k < len + 1
    <3>1. len + 1 \in k+1..total
      BY <2>1, <2>2
    <3>2. p[len + 1] = 128
      BY <1>2, <1>3
    <3> QED
      BY <2>1, <3>1, <3>2
  <2>3. CASE k > len + 1
    <3>1. k \in 1..n /\ ~(k <= len) /\ ~(k > total) /\ k # len + 1
      BY <2>1, <2>3
    <3>2. p[k] = 0
      BY <1>2, <3>1
    <3> QED
      BY <2>1, <3>2
  <2> QED
    BY <2>1, <2>2, <2>3
<1>6. UnpadRight(p, total, b, sodium_unpad(p, total, b))
  BY <1>2, <1>3, UnpadFinds
<1>7. total >= b /\ len + 1 > total - b /\ len + 1 - 1 = len
  OBVIOUS
<1>8. \E k \in Marks(p, total) : sodium_unpad(p, total, b) = [ret |-> 0, len |-> k - 1]
  BY <1>4, <1>6, <1>7 DEF UnpadRight
<1>9. sodium_unpad(p, total, b) = [ret |-> 0, len |-> len]
  BY <1>5, <1>7, <1>8
<1> QED
  BY <1>9 DEF p

\* What any call of sodium_pad and sodium_unpad leaves is right.
LEMMA PaddingOfCall ==
    Answered => PaddingComesOff
<1> SUFFICES ASSUME Answered, call.op = "padding", out # Nothing
             PROVE  PaddingComesOff
  BY DEF PaddingComesOff, Done
<1> DEFINE n == Len(call.buf)  buf == call.buf  len == call.len  b == call.blocksize  max == call.max
           padded == sodium_pad(buf, len, b, max)  total == Total(len, b)
<1>1. /\ n \in Nat /\ n <= MemoryMax /\ buf \in Bytes(n) /\ len \in 0..Uint-1 /\ b \in 0..Uint-1
      /\ max \in 0..n /\ call.padded \in 0..n /\ out = PaddingOf(call)
  <2>1. call \in Inputs /\ out = Answer(call)
    BY DEF Answered
  <2>a. Answer(call) = PaddingOf(call)
    BY <2>1, AnswersAreResults, Zenon
  <2>2. out = PaddingOf(call)
    BY <2>1, <2>a, Zenon
  <2>3. n \in 0..MemoryMax /\ MemoryMax \in Nat
    BY <2>1, InputsAreBytes DEF MemoryMax
  <2> QED
    BY <2>1, <2>2, <2>3, InputsAreBytes
<1>2. /\ out.padded = padded /\ out.unpadded = sodium_unpad(buf, call.padded, b)
      /\ out.back = IF padded.ret = 0 THEN sodium_unpad(padded.buf, padded.len, b) ELSE padded
  BY <1>1 DEF PaddingOf
<1>3. PaddingComesOff <=>
        IF b = 0 THEN out.padded.ret = -1 /\ out.unpadded.ret = -1
        ELSE /\ out.padded.ret = IF total > Uint - 1 THEN Misused ELSE IF total > max THEN -1 ELSE 0
             /\ IF out.padded.ret # 0 THEN out.padded.buf = buf
                ELSE /\ out.padded.len = total /\ out.back = [ret |-> 0, len |-> len]
                     /\ out.padded.buf = PaddedTo(buf, len, total)
             /\ UnpadRight(buf, call.padded, b, out.unpadded)
  BY DEF PaddingComesOff, Done, UnpadRight
<1> HIDE DEF n, buf, len, b, max
<1>4. CASE b = 0
  <2>1. padded.ret = -1
    BY <1>4 DEF sodium_pad
  <2>2. out.unpadded.ret = -1
    BY <1>2, <1>4 DEF sodium_unpad
  <2> QED
    BY <1>2, <1>3, <1>4, <2>1, <2>2
<1>5. CASE b # 0
  <2>1. PadRight(n, buf, len, b, max, padded)
    BY <1>1, <1>5, PadPads
  <2> HIDE DEF padded, total
  <2>2. /\ padded.ret = IF total > Uint - 1 THEN Misused ELSE IF total > max THEN -1 ELSE 0
        /\ IF padded.ret # 0 THEN padded.buf = buf ELSE padded.len = total /\ padded.buf = PaddedTo(buf, len, total)
        /\ padded.ret = 0 => total <= n /\ b <= total /\ total - b <= len /\ len < total /\ total \in Nat
    BY <2>1 DEF PadRight, total
  <2>3. len \in Nat /\ b \in Nat
    BY <1>1, UintIsNat
  <2>4. UnpadRight(buf, call.padded, b, out.unpadded)
    BY <1>1, <1>2, <1>5, <2>3, UnpadFinds
  <2>5. ASSUME padded.ret = 0 PROVE out.back = [ret |-> 0, len |-> len]
    <3>1. out.back = sodium_unpad(PaddedTo(buf, len, total), total, b)
      BY <1>2, <2>2, <2>5
    <3>2. sodium_unpad(PaddedTo(buf, len, total), total, b) = [ret |-> 0, len |-> len]
      BY <1>1, <1>5, <2>2, <2>3, <2>5, PaddedComesOff
    <3> QED
      BY <3>1, <3>2
  <2> QED
    BY <1>2, <1>3, <1>5, <2>2, <2>4, <2>5
<1> QED
  BY <1>4, <1>5

\* Padding comes off, of any buffer and with any size of a block, whether it
\* is a power of two or not; and the mark that is found is the last one.
THEOREM PaddingStaysRight ==
    Spec => []PaddingComesOff
BY CallsAreAnswered, PaddingOfCall, PTL

-----------------------------------------------------------------------------
(* Hexadecimal digits.                                                     *)

\* A difference of bytes has a top byte of 255 if it is below 0, else 0.
Under(a, b) == Top(Minus16(a, b)) = IF a < b THEN 255 ELSE 0

LEMMA TopUnder ==
    ASSUME NEW a \in 0..255, NEW b \in 0..255
    PROVE  Under(a, b)
<1>1. b \in 0..256
  OBVIOUS
<1> QED
  BY <1>1, TopOfDifference, Zenon DEF Under

\* What sodium_bin2hex writes of half a byte.
LEMMA DigitOfHalf ==
    ASSUME NEW b \in 0..15
    PROVE  HexDigit(b) = IF b < 10 THEN 48 + b ELSE 87 + b
<1>1. Under(b, 10)
  <2>1. b \in 0..255 /\ 10 \in 0..255
    OBVIOUS
  <2> QED
    BY <2>1, TopUnder, Zenon
<1>2. And8(255, 38) = 38 /\ And8(0, 38) = 0
  <2>1. 38 \in 0..255
    OBVIOUS
  <2> QED
    BY <2>1, And8Whole, Zenon
<1>3. CASE b < 10
  <2>1. Top(Minus16(b, 10)) = 255
    BY <1>1, <1>3 DEF Under
  <2>2. (87 + b + (255 - 38)) % 256 = 48 + b
    <3>1. 87 + b + (255 - 38) = 256 * 1 + (48 + b) /\ 48 + b \in 0..255
      OBVIOUS
    <3> QED
      BY <3>1
  <2> QED
    BY <1>2, <1>3, <2>1, <2>2 DEF HexDigit
<1>4. CASE ~(b < 10)
  <2>1. Top(Minus16(b, 10)) = 0
    BY <1>1, <1>4 DEF Under
  <2>2. (87 + b + (0 - 0)) % 256 = 87 + b
    OBVIOUS
  <2> QED
    BY <1>2, <1>4, <2>1, <2>2 DEF HexDigit
<1> QED
  BY <1>3, <1>4

\* The second bit of a nibble.
LEMMA And4Two ==
    ASSUME NEW p \in 0..15
    PROVE  And4(p, 2) = IF p \in {2, 3, 6, 7, 10, 11, 14, 15} THEN 2 ELSE 0
<1>1. 2 \in 0..15 /\ 2 % 2 = 0 /\ (2 \div 2) % 2 = 1 /\ (2 \div 4) % 2 = 0 /\ 2 \div 8 = 0
  OBVIOUS
<1> DEFINE p0 == p % 2  p1 == (p \div 2) % 2  p2 == (p \div 4) % 2  p3 == p \div 8
<1>2. /\ p0 \in 0..1 /\ p1 \in 0..1 /\ p2 \in 0..1 /\ p3 \in 0..1
      /\ p1 = 1 <=> p \in {2, 3, 6, 7, 10, 11, 14, 15}
  OBVIOUS
<1>3. And4(p, 2) = Both(p0, 2 % 2) + 2 * Both(p1, (2 \div 2) % 2) + 4 * Both(p2, (2 \div 4) % 2) + 8 * Both(p3, 2 \div 8)
  BY <1>1, And4Bits
<1> HIDE DEF p0, p1, p2, p3
<1>4. And4(p, 2) = Both(p0, 0) + 2 * Both(p1, 1) + 4 * Both(p2, 0) + 8 * Both(p3, 0)
  BY <1>1, <1>3
<1>5. Both(p0, 0) = 0 /\ Both(p2, 0) = 0 /\ Both(p3, 0) = 0 /\ Both(p1, 1) = p1
  BY <1>2 DEF Both
<1> QED
  BY <1>2, <1>4, <1>5

\* A character without bit 5, which tells upper from lower case.
Upper(c) == c - And8(c, 32)
LEMMA UpperCase ==
    ASSUME NEW c \in 0..255
    PROVE  /\ Upper(c) \in 0..255
           /\ Upper(c) \in 65..70 <=> c \in (65..70) \cup (97..102)
           /\ Upper(c) \in 65..70 => Upper(c) - 55 = Worth(c)
<1>1. PICK p, q \in 0..15 : Halves(c, p, q)
  BY Nibbles
<1>2. p \in 0..15 /\ q \in 0..15 /\ c = 16 * p + q
  BY <1>1 DEF Halves
<1>3. Halves(32, 2, 0)
  BY DEF Halves
<1>4. And8(c, 32) = 16 * And4(p, 2) + And4(q, 0)
  BY <1>1, <1>3, And8Nibbles
<1>5. And4(p, 2) = IF p \in {2, 3, 6, 7, 10, 11, 14, 15} THEN 2 ELSE 0
  BY <1>2, And4Two
<1>6. And4(q, 0) = 0
  BY <1>2, And4Whole
<1>7. Upper(c) = 16 * (IF p \in {2, 3, 6, 7, 10, 11, 14, 15} THEN p - 2 ELSE p) + q
  BY <1>2, <1>4, <1>5, <1>6 DEF Upper
<1>8. Upper(c) \in 0..255
  BY <1>2, <1>7
<1>9. Upper(c) \in 65..70 <=> (p = 4 \/ p = 6) /\ q \in 1..6
  BY <1>2, <1>7
<1>10. (p = 4 \/ p = 6) /\ q \in 1..6 <=> c \in (65..70) \cup (97..102)
  BY <1>2
<1>11. ASSUME Upper(c) \in 65..70 PROVE Upper(c) - 55 = Worth(c)
  <2>1. (p = 4 \/ p = 6) /\ q \in 1..6
    BY <1>9, <1>11
  <2>2. Upper(c) - 55 = 9 + q
    BY <1>2, <1>7, <2>1
  <2>3. Worth(c) = 9 + q
    BY <1>2, <2>1 DEF Worth
  <2> QED
    BY <2>2, <2>3
<1> QED
  BY <1>8, <1>9, <1>10, <1>11

\* A character xor 48 is below 10 if it is a decimal digit, and then its value.
Decimals(c, num) ==
    num \in 0..255 /\ (num < 10 <=> c \in 48..57) /\ (num < 10 => num = Worth(c))
LEMMA Decimal ==
    ASSUME NEW c \in 0..255
    PROVE  Decimals(c, Xor8(c, 48))
<1>1. PICK p, q \in 0..15 : Halves(c, p, q)
  BY Nibbles
<1>2. p \in 0..15 /\ q \in 0..15 /\ c = 16 * p + q
  BY <1>1 DEF Halves
<1>3. Halves(48, 3, 0)
  BY DEF Halves
<1>4. Xor8(c, 48) = 16 * Xor4(p, 3) + Xor4(q, 0)
  BY <1>1, <1>3, Xor8Nibbles
<1>5. Xor4(p, 3) = p + 3 - 2 * And4(p, 3) /\ Xor4(q, 0) = q + 0 - 2 * And4(q, 0)
  <2>1. 3 \in 0..15 /\ 0 \in 0..15
    OBVIOUS
  <2> QED
    BY <1>2, <2>1, Xor4And, Zenon
<1>6. And4(q, 0) = 0
  BY <1>2, And4Whole
<1>7. And4(p, 3) \in 0..15 /\ And4(p, 3) <= p /\ And4(p, 3) <= 3 /\ p + 3 - And4(p, 3) <= 15
  BY <1>2, And4Bounds
<1>8. p + 3 - 2 * And4(p, 3) = 0 => p = 3
  BY <1>2, And4Equal
<1>9. And4(3, 3) = 3
  BY And4Whole
<1>10. Xor4(q, 0) = q
  BY <1>2, <1>5, <1>6
<1>11. Xor4(p, 3) \in 0..15 /\ (Xor4(p, 3) = 0 <=> p = 3)
  BY <1>2, <1>5, <1>7, <1>8, <1>9
<1>12. Xor8(c, 48) = 16 * Xor4(p, 3) + q
  BY <1>4, <1>10
<1>13. Xor8(c, 48) \in 0..255 /\ (Xor8(c, 48) < 10 <=> p = 3 /\ q < 10)
  BY <1>2, <1>11, <1>12
<1>14. p = 3 /\ q < 10 <=> c \in 48..57
  BY <1>2
<1>15. ASSUME p = 3, q < 10 PROVE Xor8(c, 48) = Worth(c)
  <2>1. Xor8(c, 48) = q
    BY <1>2, <1>11, <1>12, <1>15
  <2>2. Worth(c) = q
    BY <1>2, <1>15 DEF Worth
  <2> QED
    BY <2>1, <2>2
<1> QED
  BY <1>13, <1>14, <1>15 DEF Decimals

\* ^ with 0 changes nothing.
LEMMA Xor8Zero ==
    ASSUME NEW a \in 0..255
    PROVE  Xor8(0, a) = a
<1>1. 0 \in 0..255
  OBVIOUS
<1>2. And8(0, a) = 0
  BY And8Whole, Zenon
<1>3. Xor8(0, a) = 0 + a - 2 * And8(0, a)
  BY <1>1, Xor8And, Zenon
<1> QED
  BY <1>2, <1>3

\* The letters among the digits: the xor of two differences has a top byte of 255
\* between 10 and 15.
Lettered(alpha) == Top(Xor16(Minus16(alpha, 10), Minus16(alpha, 16))) = IF alpha \in 10..15 THEN 255 ELSE 0
LEMMA BetweenTenAndSixteen ==
    ASSUME NEW alpha \in 0..255
    PROVE  Lettered(alpha)
<1> DEFINE a == Minus16(alpha, 10)  b == Minus16(alpha, 16)
<1>1. Under(alpha, 10) /\ Under(alpha, 16)
  <2>1. 10 \in 0..255 /\ 16 \in 0..255
    OBVIOUS
  <2> QED
    BY <2>1, TopUnder, Zenon
<1>2. a \in 0..Uint-1 /\ b \in 0..Uint-1
  <2>1. alpha \in 0..Uint-1 /\ 10 \in 0..Uint-1 /\ 16 \in 0..Uint-1
    BY InWord
  <2> QED
    BY <2>1, MinusWraps
<1>a. (Top(a) = IF alpha < 10 THEN 255 ELSE 0) /\ (Top(b) = IF alpha < 16 THEN 255 ELSE 0)
  BY <1>1 DEF Under
<1> HIDE DEF a, b
<1>3. BytesOf(a, a \div 256, a % 256) /\ BytesOf(b, b \div 256, b % 256)
  BY <1>2, BytesOfWord
<1>4. Top(a) = a \div 256 /\ Top(b) = b \div 256
  BY <1>3, BytesOfDivided
<1>5. BytesOf(Xor16(a, b), Xor8(a \div 256, b \div 256), Xor8(a % 256, b % 256))
  BY <1>3, And16Bytes
<1>6. Top(Xor16(a, b)) = Xor8(Top(a), Top(b))
  BY <1>4, <1>5, BytesOfDivided
<1>7. Xor8(0, 0) = 0 /\ Xor8(255, 255) = 0 /\ Xor8(0, 255) = 255
  <2>1. 0 \in 0..255 /\ 255 \in 0..255
    OBVIOUS
  <2>2. Differs(0, 0) /\ Differs(255, 255)
    BY <2>1, Xor8Differs, Zenon
  <2>5. Xor8(0, 255) = 255
    BY <2>1, Xor8Zero, Zenon
  <2> QED
    BY <2>2, <2>5 DEF Differs
<1>8. CASE alpha < 10
  <2>1. Top(a) = 255 /\ Top(b) = 255
    BY <1>a, <1>8
  <2>2. Top(Xor16(a, b)) = 0
    BY <1>6, <1>7, <2>1, Zenon
  <2> QED
    BY <1>8, <2>2 DEF Lettered, a, b
<1>9. CASE alpha \in 10..15
  <2>1. Top(a) = 0 /\ Top(b) = 255
    BY <1>a, <1>9
  <2>2. Top(Xor16(a, b)) = 255
    BY <1>6, <1>7, <2>1, Zenon
  <2> QED
    BY <1>9, <2>2 DEF Lettered, a, b
<1>10. CASE alpha >= 16
  <2>1. Top(a) = 0 /\ Top(b) = 0
    BY <1>a, <1>10
  <2>2. Top(Xor16(a, b)) = 0
    BY <1>6, <1>7, <2>1, Zenon
  <2> QED
    BY <1>10, <2>2 DEF Lettered, a, b
<1> QED
  BY <1>8, <1>9, <1>10

\* What sodium_hex2bin finds a character worth.
Valued(c) == HexValue(c) = IF c \in HexDigits THEN Worth(c) ELSE -1
LEMMA ValueOfCharacter ==
    ASSUME NEW c \in 0..255
    PROVE  Valued(c)
<1> DEFINE num == Xor8(c, 48)  num0 == Top(Minus16(num, 10))
           alpha == (Upper(c) - 55) % 256
           alpha0 == Top(Xor16(Minus16(alpha, 10), Minus16(alpha, 16)))
<1>1. num \in 0..255 /\ (num < 10 <=> c \in 48..57) /\ (num < 10 => num = Worth(c))
  <2>1. Decimals(c, num)
    BY Decimal, Zenon
  <2> HIDE DEF num
  <2> QED
    BY <2>1 DEF Decimals
<1>2. /\ Upper(c) \in 0..255
      /\ Upper(c) \in 65..70 <=> c \in (65..70) \cup (97..102)
      /\ Upper(c) \in 65..70 => Upper(c) - 55 = Worth(c)
  BY UpperCase
<1>3. /\ alpha \in 0..255 /\ (alpha \in 10..15 <=> Upper(c) \in 65..70)
      /\ alpha \in 10..15 => alpha = Upper(c) - 55
  BY <1>2
<1>4. HexValue(c) = IF Or8(num0, alpha0) = 0 THEN -1 ELSE Or8(And8(num0, num), And8(alpha0, alpha))
  BY DEF HexValue, Upper
<1>5. num0 = IF num < 10 THEN 255 ELSE 0
  <2>1. 10 \in 0..255
    OBVIOUS
  <2>2. Under(num, 10)
    BY <1>1, <2>1, TopUnder, Zenon
  <2> QED
    BY <2>2 DEF Under
<1>6. alpha0 = IF alpha \in 10..15 THEN 255 ELSE 0
  BY <1>3, BetweenTenAndSixteen DEF Lettered
<1> HIDE DEF num, num0, alpha, alpha0
<1>7. And8(255, num) = num /\ And8(0, num) = 0 /\ And8(255, alpha) = alpha /\ And8(0, alpha) = 0
  BY <1>1, <1>3, And8Whole, Zenon
<1>8. Or8(0, alpha) = alpha /\ Or8(num, 0) = num /\ Or8(255, 0) = 255 /\ Or8(0, 255) = 255 /\ Or8(0, 0) = 0
  <2>1. 0 \in 0..255 /\ 255 \in 0..255
    OBVIOUS
  <2> QED
    BY <1>1, <1>3, <2>1, Or8Whole, Zenon
<1>9. CASE c \in 48..57
  <2>1. num0 = 255 /\ alpha0 = 0 /\ c \in HexDigits /\ num = Worth(c)
    BY <1>1, <1>2, <1>3, <1>5, <1>6, <1>9 DEF HexDigits
  <2> QED
    BY <1>4, <1>7, <1>8, <2>1 DEF Valued
<1>10. CASE c \in (65..70) \cup (97..102)
  <2>1. num0 = 0 /\ alpha0 = 255 /\ c \in HexDigits /\ alpha = Worth(c)
    BY <1>1, <1>2, <1>3, <1>5, <1>6, <1>10 DEF HexDigits
  <2> QED
    BY <1>4, <1>7, <1>8, <2>1 DEF Valued
<1>11. CASE c \notin HexDigits
  <2>1. num0 = 0 /\ alpha0 = 0
    BY <1>1, <1>2, <1>3, <1>5, <1>6, <1>11 DEF HexDigits
  <2> QED
    BY <1>4, <1>8, <1>11, <2>1 DEF Valued
<1> QED
  BY <1>9, <1>10, <1>11 DEF HexDigits

\* What sodium_bin2hex writes of half a byte is read as that half.
LEMMA DigitReads ==
    ASSUME NEW b \in 0..15
    PROVE  HexDigit(b) \in 0..255 /\ HexDigit(b) \in HexDigits /\ Worth(HexDigit(b)) = b
<1>1. HexDigit(b) = IF b < 10 THEN 48 + b ELSE 87 + b
  BY DigitOfHalf
<1> QED
  BY <1>1 DEF HexDigits, Worth

\* What a digit is worth is half a byte.
LEMMA WorthOfDigit ==
    ASSUME NEW c \in HexDigits
    PROVE  Worth(c) \in 0..15
BY DEF HexDigits, Worth

-----------------------------------------------------------------------------
(* The characters of a set in a beginning of a text.                       *)

\* There are finitely many of them.
PlacesIn(text, n, set) == {k \in 1..n : text[k] \in set}
LEMMA CountIsFinite ==
    ASSUME NEW set, NEW text, NEW n \in Nat
    PROVE  IsFiniteSet(PlacesIn(text, n, set)) /\ CountIn(text, n, set) \in Nat
<1>1. IsFiniteSet(1..n)
  BY FS_Interval
<1>2. PlacesIn(text, n, set) \in SUBSET (1..n)
  BY DEF PlacesIn
<1>3. IsFiniteSet(PlacesIn(text, n, set))
  BY <1>1, <1>2, FS_Subset
<1> QED
  BY <1>3, FS_CardinalityType DEF CountIn, PlacesIn

\* There are none to begin with.
LEMMA NoneCounted ==
    ASSUME NEW set, NEW text
    PROVE  CountIn(text, 0, set) = 0
<1>1. {k \in 1..0 : text[k] \in set} = {}
  OBVIOUS
<1> QED
  BY <1>1, FS_EmptySet DEF CountIn

\* A character more counts if it is of the set.
LEMMA CountNext ==
    ASSUME NEW set, NEW text, NEW n \in Nat
    PROVE  CountIn(text, n + 1, set) = IF text[n + 1] \in set THEN CountIn(text, n, set) + 1 ELSE CountIn(text, n, set)
<1> DEFINE S == PlacesIn(text, n, set)
<1>1. IsFiniteSet(S)
  BY CountIsFinite
<1>2. CountIn(text, n, set) = Cardinality(S) /\ CountIn(text, n + 1, set) = Cardinality(PlacesIn(text, n + 1, set))
  BY DEF CountIn, PlacesIn
<1>3. n + 1 \notin S
  BY DEF PlacesIn
<1>4. CASE text[n + 1] \in set
  <2>1. PlacesIn(text, n + 1, set) = S \cup {n + 1}
    BY <1>4 DEF PlacesIn
  <2> HIDE DEF S
  <2>2. Cardinality(S \cup {n + 1}) = Cardinality(S) + 1
    BY <1>1, <1>3, FS_AddElement
  <2> QED
    BY <1>2, <1>4, <2>1, <2>2
<1>5. CASE text[n + 1] \notin set
  <2>1. PlacesIn(text, n + 1, set) = S
    BY <1>5 DEF PlacesIn
  <2> QED
    BY <1>2, <1>5, <2>1
<1> QED
  BY <1>4, <1>5

\* They are no fewer in a longer beginning.
LEMMA CountGrows ==
    ASSUME NEW set, NEW text, NEW i \in Nat, NEW n \in Nat, i <= n
    PROVE  CountIn(text, i, set) <= CountIn(text, n, set)
<1>1. PlacesIn(text, i, set) \in SUBSET PlacesIn(text, n, set)
  BY DEF PlacesIn
<1>2. Cardinality(PlacesIn(text, i, set)) <= Cardinality(PlacesIn(text, n, set))
  BY <1>1, CountIsFinite, FS_Subset
<1> QED
  BY <1>2 DEF CountIn, PlacesIn

\* Each has a number of its own: its place is where that many are reached.
LEMMA PlaceOfNumber ==
    ASSUME NEW set, NEW text, Len(text) \in Nat, NEW k \in 1..Len(text), text[k] \in set
    PROVE  PlaceOf(text, CountIn(text, k, set), set) = k
<1>1. ASSUME NEW i \in 1..Len(text), NEW h \in 1..Len(text), i < h, text[h] \in set
      PROVE  CountIn(text, i, set) < CountIn(text, h, set)
  <2>1. h - 1 \in Nat /\ h - 1 + 1 = h /\ i \in Nat /\ i <= h - 1
    BY <1>1
  <2>2. CountIn(text, i, set) <= CountIn(text, h - 1, set)
    BY <2>1, CountGrows
  <2>3. CountIn(text, h, set) = CountIn(text, h - 1, set) + 1
    BY <1>1, <2>1, CountNext
  <2>4. CountIn(text, i, set) \in Nat /\ CountIn(text, h - 1, set) \in Nat
    BY <2>1, CountIsFinite
  <2> QED
    BY <2>2, <2>3, <2>4
<1>2. \A i \in 1..Len(text) : CountIn(text, i, set) \in Nat
  BY CountIsFinite
<1>3. ASSUME NEW i \in 1..Len(text), text[i] \in set, CountIn(text, i, set) = CountIn(text, k, set)
      PROVE  i = k
  <2>1. ~(i < k)
    BY <1>1, <1>2, <1>3
  <2>2. ~(k < i)
    BY <1>1, <1>2, <1>3
  <2> QED
    BY <2>1, <2>2
<1> QED
  BY <1>3 DEF PlaceOf

\* In a text of nothing else they are as many as its characters.
LEMMA AllCounted ==
    ASSUME NEW set, NEW text, NEW n \in Nat, \A k \in 1..n : text[k] \in set, NEW k \in 0..n
    PROVE  CountIn(text, k, set) = k
<1>1. {i \in 1..k : text[i] \in set} = 1..k
  OBVIOUS
<1>2. Cardinality(1..k) = k
  BY FS_Interval
<1> QED
  BY <1>1, <1>2 DEF CountIn

\* There is a place for each number that is reached.
LEMMA PlaceIsReached ==
    ASSUME NEW set, NEW text, NEW n \in Nat, NEW j \in 1..CountIn(text, n, set)
    PROVE  \E k \in 1..n : text[k] \in set /\ CountIn(text, k, set) = j
<1> DEFINE S == {m \in 0..n : \A i \in 1..CountIn(text, m, set) : \E k \in 1..m : text[k] \in set /\ CountIn(text, k, set) = i}
<1>1. 0 \in S
  <2>1. CountIn(text, 0, set) = 0
    BY NoneCounted
  <2> QED
    BY <2>1
<1>2. ASSUME NEW m \in 0..n, m < n, m \in S PROVE m + 1 \in S
  <2> SUFFICES ASSUME NEW i \in 1..CountIn(text, m + 1, set)
               PROVE  \E k \in 1..m+1 : text[k] \in set /\ CountIn(text, k, set) = i
    BY <1>2
  <2>1. CountIn(text, m + 1, set) = IF text[m + 1] \in set THEN CountIn(text, m, set) + 1 ELSE CountIn(text, m, set)
    BY CountNext
  <2>2. CountIn(text, m, set) \in Nat
    BY CountIsFinite
  <2>3. CASE i \in 1..CountIn(text, m, set)
    <3>1. PICK k \in 1..m : text[k] \in set /\ CountIn(text, k, set) = i
      BY <1>2, <2>3
    <3> QED
      BY <3>1
  <2>4. CASE i \notin 1..CountIn(text, m, set)
    <3>1. text[m + 1] \in set /\ i = CountIn(text, m + 1, set)
      BY <2>1, <2>2, <2>4
    <3> QED
      BY <3>1
  <2> QED
    BY <2>3, <2>4
<1> HIDE DEF S
<1>3. 0..n \subseteq S
  BY <1>1, <1>2, TurnInduction
<1> QED
  BY <1>3 DEF S

\* What is at the place of a number.
LEMMA CountedAtPlace ==
    ASSUME NEW set, NEW text, Len(text) \in Nat, NEW n \in 0..Len(text), NEW j \in 1..CountIn(text, n, set)
    PROVE  /\ PlaceOf(text, j, set) \in 1..n /\ text[PlaceOf(text, j, set)] \in set
           /\ CountIn(text, PlaceOf(text, j, set), set) = j
<1>1. PICK k \in 1..n : text[k] \in set /\ CountIn(text, k, set) = j
  BY PlaceIsReached
<1>2. PlaceOf(text, j, set) = k
  BY <1>1, PlaceOfNumber
<1> QED
  BY <1>1, <1>2

\* Two texts that begin alike count alike.
LEMMA CountAlike ==
    ASSUME NEW set, NEW text, NEW other, NEW n \in Nat, \A k \in 1..n : text[k] = other[k], NEW k \in 0..n
    PROVE  CountIn(text, k, set) = CountIn(other, k, set)
<1>1. {i \in 1..k : text[i] \in set} = {i \in 1..k : other[i] \in set}
  OBVIOUS
<1> QED
  BY <1>1 DEF CountIn

-----------------------------------------------------------------------------
(* The digits in a beginning of a text.                                    *)

LEMMA DigitsAreFinite ==
    ASSUME NEW text, NEW n \in Nat
    PROVE  DigitsIn(text, n) \in Nat
BY CountIsFinite DEF DigitsIn

\* No digit is in the empty beginning.
LEMMA NoDigits ==
    ASSUME NEW text
    PROVE  DigitsIn(text, 0) = 0
BY NoneCounted DEF DigitsIn

\* A digit more, or none.
LEMMA DigitsNext ==
    ASSUME NEW text, NEW n \in Nat
    PROVE  DigitsIn(text, n + 1) = IF text[n + 1] \in HexDigits THEN DigitsIn(text, n) + 1 ELSE DigitsIn(text, n)
BY CountNext DEF DigitsIn

\* Longer beginnings have more digits.
LEMMA DigitsGrow ==
    ASSUME NEW text, NEW i \in Nat, NEW n \in Nat, i <= n
    PROVE  DigitsIn(text, i) <= DigitsIn(text, n)
BY CountGrows DEF DigitsIn

\* Which digit is where.
LEMMA DigitOfNumber ==
    ASSUME NEW text, Len(text) \in Nat, NEW k \in 1..Len(text), text[k] \in HexDigits
    PROVE  Digit(text, DigitsIn(text, k)) = k
BY PlaceOfNumber DEF DigitsIn, Digit

\* Each digit has its place.
LEMMA AllDigits ==
    ASSUME NEW text, NEW n \in Nat, \A k \in 1..n : text[k] \in HexDigits, NEW k \in 0..n
    PROVE  DigitsIn(text, k) = k
BY AllCounted DEF DigitsIn

-----------------------------------------------------------------------------
(* The loop of sodium_hex2bin.                                             *)

Binaries == Seq(0..255)
HexStates == [bin : Binaries, half : -1..15, pos : Nat, ret : {0, -1}, stop : BOOLEAN]
HexBegun == [bin |-> <<>>, half |-> -1, pos |-> 0, ret |-> 0, stop |-> FALSE]

\* A turn, by what the character is.
HexTurned(s, c, maxlen, ignore, t) ==
    t = IF s.stop THEN s
        ELSE IF c \notin HexDigits
        THEN IF s.half = -1 /\ c \in ignore THEN [s EXCEPT !.pos = @ + 1] ELSE [s EXCEPT !.stop = TRUE]
        ELSE IF Len(s.bin) >= maxlen THEN [s EXCEPT !.stop = TRUE, !.ret = -1]
        ELSE IF s.half = -1 THEN [s EXCEPT !.half = Worth(c), !.pos = @ + 1]
        ELSE [s EXCEPT !.bin = Append(@, 16 * s.half + Worth(c)), !.half = -1, !.pos = @ + 1]
LEMMA TurnOfCharacter ==
    ASSUME NEW s, NEW c \in 0..255, NEW maxlen, NEW ignore
    PROVE  HexTurned(s, c, maxlen, ignore, HexTurn(s, c, maxlen, ignore))
<1>1. Valued(c)
  BY ValueOfCharacter
<1>2. CASE c \in HexDigits
  <2>1. Worth(c) \in 0..15
    BY <1>2, WorthOfDigit
  <2>2. HexValue(c) = Worth(c) /\ HexValue(c) # -1
    BY <1>1, <1>2, <2>1 DEF Valued
  <2> QED
    BY <1>2, <2>2 DEF HexTurn, HexTurned
<1>3. CASE c \notin HexDigits
  <2>1. HexValue(c) = -1
    BY <1>1, <1>3 DEF Valued
  <2> QED
    BY <1>3, <2>1 DEF HexTurn, HexTurned, Skips
<1> QED
  BY <1>2, <1>3

\* A sequence with one more.
LEMMA AppendStays ==
    ASSUME NEW S, NEW q \in Seq(S), NEW b \in S
    PROVE  /\ Append(q, b) \in Seq(S) /\ Len(Append(q, b)) = Len(q) + 1 /\ Len(q) \in Nat
           /\ \A j \in 1..Len(q) : Append(q, b)[j] = q[j]
           /\ Append(q, b)[Len(q) + 1] = b
OBVIOUS

\* Its values.
LEMMA HexTurnStays ==
    ASSUME NEW s \in HexStates, NEW c \in 0..255, NEW maxlen, NEW ignore
    PROVE  HexTurn(s, c, maxlen, ignore) \in HexStates
<1> DEFINE t == HexTurn(s, c, maxlen, ignore)
<1>1. HexTurned(s, c, maxlen, ignore, t)
  BY TurnOfCharacter
<1>2. c \in HexDigits => Worth(c) \in 0..15
  BY WorthOfDigit
<1> HIDE DEF t
<1>3. s.bin \in Binaries /\ s.half \in -1..15 /\ s.pos \in Nat /\ s.ret \in {0, -1} /\ s.stop \in BOOLEAN
  BY DEF HexStates
<1>4. ASSUME c \in HexDigits, s.half # -1
      PROVE  Append(s.bin, 16 * s.half + Worth(c)) \in Binaries
  <2> DEFINE b == 16 * s.half + Worth(c)
  <2>1. b \in 0..255
    BY <1>2, <1>3, <1>4
  <2> HIDE DEF b
  <2>2. s.bin \in Seq(0..255)
    BY <1>3 DEF Binaries
  <2>3. Append(s.bin, b) \in Seq(0..255)
    BY <2>1, <2>2, AppendStays
  <2> QED
    BY <2>3 DEF b, Binaries
<1>5. s.pos + 1 \in Nat /\ -1 \in -1..15
  BY <1>3
<1>6. t = s => t \in HexStates
  OBVIOUS
<1>7. t = [s EXCEPT !.pos = @ + 1] => t \in HexStates
  BY <1>5 DEF HexStates
<1>8. t = [s EXCEPT !.stop = TRUE] => t \in HexStates
  BY DEF HexStates
<1>9. t = [s EXCEPT !.stop = TRUE, !.ret = -1] => t \in HexStates
  BY Zenon DEF HexStates
<1>10. c \in HexDigits /\ t = [s EXCEPT !.half = Worth(c), !.pos = @ + 1] => t \in HexStates
  <2>1. c \in HexDigits => Worth(c) \in -1..15
    BY <1>2
  <2> QED
    BY <1>5, <2>1 DEF HexStates
<1>11. ASSUME c \in HexDigits, s.half # -1, t = [s EXCEPT !.bin = Append(@, 16 * s.half + Worth(c)), !.half = -1, !.pos = @ + 1]
       PROVE  t \in HexStates
  <2> DEFINE more == Append(s.bin, 16 * s.half + Worth(c))
  <2>1. more \in Binaries /\ t = [s EXCEPT !.bin = more, !.half = -1, !.pos = @ + 1]
    BY <1>4, <1>11
  <2> HIDE DEF more
  <2> QED
    BY <1>5, <2>1 DEF HexStates
<1>12. t \in HexStates
  BY <1>1, <1>6, <1>7, <1>8, <1>9, <1>10, <1>11 DEF HexTurned
<1> QED
  BY <1>12 DEF t

\* What the turns make.
HexTurns(text, maxlen, ignore, s) ==
    s[0] = HexBegun /\ \A k \in 1..Len(text) : s[k] = HexTurn(s[k - 1], text[k], maxlen, ignore)
HexLoopOf(text, maxlen, ignore) ==
    \E s : /\ HexTurns(text, maxlen, ignore, s)
           /\ \A hasEnd : sodium_hex2bin(maxlen, text, ignore, hasEnd) = Ended(HexRest(s[Len(text)]), Len(text), hasEnd)

\* sodium_hex2bin's result is that of its last turn.
LEMMA HexLoop ==
    ASSUME NEW text, Len(text) \in Nat, text \in Bytes(Len(text)), NEW maxlen, NEW ignore
    PROVE  HexLoopOf(text, maxlen, ignore)
<1> DEFINE n == Len(text)
           V == HexStates
           st == [p \in (1..n) \X V |-> HexTurn(p[2], text[p[1]], maxlen, ignore)]
           F(g) == [k \in 0..n |-> IF k = 0 THEN [bin |-> <<>>, half |-> -1, pos |-> 0, ret |-> 0, stop |-> FALSE]
                                   ELSE HexTurn(g[k - 1], text[k], maxlen, ignore)]
           d == CHOOSE g : g = F(g)
<1>1. st \in Steps(n, V)
  <2>1. ASSUME NEW k \in 1..n, NEW s \in V PROVE HexTurn(s, text[k], maxlen, ignore) \in V
    <3>1. text[k] \in 0..255
      BY DEF Bytes
    <3> QED
      BY <3>1, HexTurnStays, Zenon
  <2> HIDE DEF V
  <2> QED
    BY <2>1 DEF Steps
<1>2. \E g \in [0..n -> V] : g = Turns(g, n, HexBegun, st)
  <2>1. HexBegun \in V
    BY DEF HexBegun, HexStates, Binaries
  <2> HIDE DEF V, st
  <2> QED
    BY <1>1, <2>1, LoopExists
<1>3. \E g : g = F(g)
  <2>1. PICK g \in [0..n -> V] : g = Turns(g, n, HexBegun, st)
    BY <1>2
  <2>2. \A k \in 0..n : k # 0 => st[<<k, g[k - 1]>>] = HexTurn(g[k - 1], text[k], maxlen, ignore)
    <3> SUFFICES ASSUME NEW k \in 0..n, k # 0 PROVE st[<<k, g[k - 1]>>] = HexTurn(g[k - 1], text[k], maxlen, ignore)
      OBVIOUS
    <3>1. k \in 1..n /\ k - 1 \in 0..n
      OBVIOUS
    <3>2. g[k - 1] \in V
      BY <3>1
    <3> HIDE DEF V
    <3> QED
      BY <3>1, <3>2
  <2> HIDE DEF st
  <2>3. Turns(g, n, HexBegun, st) = F(g)
    BY <2>2 DEF Turns, HexBegun
  <2> QED
    BY <2>1, <2>3
<1>4. d = F(d)
  BY <1>3
<1>5. d[0] = HexBegun /\ \A k \in 1..n : d[k] = HexTurn(d[k - 1], text[k], maxlen, ignore)
  <2> HIDE DEF d
  <2>1. F(d)[0] = HexBegun /\ \A k \in 1..n : F(d)[k] = HexTurn(d[k - 1], text[k], maxlen, ignore)
    BY DEF HexBegun
  <2> HIDE DEF F
  <2> QED
    BY <1>4, <2>1
<1>6. \A hasEnd : sodium_hex2bin(maxlen, text, ignore, hasEnd) = Ended(HexRest(d[n]), n, hasEnd)
  BY DEF sodium_hex2bin
<1> HIDE DEF d
<1>7. HexTurns(text, maxlen, ignore, d)
  BY <1>5 DEF HexTurns
<1> QED
  BY <1>6, <1>7 DEF HexLoopOf

\* What a byte read from a text is: its digits 2j - 1 and 2j.
Pair(text, j) == 16 * Worth(text[Digit(text, 2 * j - 1)]) + Worth(text[Digit(text, 2 * j)])
\* A character that may be read.
Taking(text, i, ignore) == text[i] \in HexDigits \/ (text[i] \in ignore /\ DigitsIn(text, i) % 2 = 0)
\* What has been read of a text: pairs of digits that fit, and perhaps one more.
HexTaken(text, s, maxlen, ignore) ==
    /\ s.pos <= Len(text) /\ \A i \in 1..s.pos : Taking(text, i, ignore)
    /\ DigitsIn(text, s.pos) = 2 * Len(s.bin) + (IF s.half = -1 THEN 0 ELSE 1)
    /\ Len(s.bin) <= maxlen
    /\ s.half # -1 => /\ Len(s.bin) < maxlen /\ s.pos > 0
                      /\ text[s.pos] \in HexDigits /\ s.half = Worth(text[s.pos])
    /\ \A j \in 1..Len(s.bin) : s.bin[j] = Pair(text, j)
\* Why it went no further than it is, after k turns.
HexStopped(text, k, s, maxlen, ignore) ==
    IF ~s.stop THEN s.pos = k /\ s.ret = 0
    ELSE /\ s.pos < k
         /\ IF text[s.pos + 1] \in HexDigits THEN s.half = -1 /\ Len(s.bin) = maxlen /\ s.ret = -1
            ELSE ~(s.half = -1 /\ text[s.pos + 1] \in ignore) /\ s.ret = 0
Reading(text, k, s, maxlen, ignore) ==
    s \in HexStates /\ HexTaken(text, s, maxlen, ignore) /\ HexStopped(text, k, s, maxlen, ignore)

\* A turn reads the next character or stops before it.
LEMMA HexTurnReads ==
    ASSUME NEW text, Len(text) \in Nat, text \in Bytes(Len(text)), NEW maxlen \in Nat, NEW ignore,
           NEW k \in 0..Len(text), k < Len(text), NEW s, Reading(text, k, s, maxlen, ignore)
    PROVE  Reading(text, k + 1, HexTurn(s, text[k + 1], maxlen, ignore), maxlen, ignore)
<1> DEFINE n == Len(text)  c == text[k + 1]  t == HexTurn(s, c, maxlen, ignore)
<1>1. n \in Nat /\ k \in Nat /\ k + 1 \in 1..n
  OBVIOUS
<1>2. c \in 0..255
  BY <1>1 DEF Bytes
<1>3. t \in HexStates /\ HexTurned(s, c, maxlen, ignore, t)
  BY <1>2, HexTurnStays, TurnOfCharacter DEF Reading
<1>4. s \in HexStates /\ HexTaken(text, s, maxlen, ignore) /\ HexStopped(text, k, s, maxlen, ignore)
  BY DEF Reading
<1>5. /\ s.bin \in Binaries /\ s.half \in -1..15 /\ s.pos \in Nat /\ s.ret \in {0, -1} /\ s.stop \in BOOLEAN
      /\ Len(s.bin) \in Nat
  BY <1>4 DEF HexStates, Binaries
<1>6. DigitsIn(text, k + 1) = IF c \in HexDigits THEN DigitsIn(text, k) + 1 ELSE DigitsIn(text, k)
  BY <1>1, DigitsNext
<1> HIDE DEF c, t, n
<1>7. HexTaken(text, t, maxlen, ignore) /\ HexStopped(text, k + 1, t, maxlen, ignore)
  <2>1. CASE s.stop
    <3>1. t = s
      BY <1>3, <2>1 DEF HexTurned
    <3> QED
      BY <1>1, <1>4, <1>5, <2>1, <3>1 DEF HexStopped
  <2>2. CASE ~s.stop
    <3>1. s.pos = k /\ s.ret = 0 /\ c = text[s.pos + 1]
      BY <1>4, <2>2 DEF HexStopped, c
    <3>2. DigitsIn(text, k) = 2 * Len(s.bin) + (IF s.half = -1 THEN 0 ELSE 1)
      BY <1>4, <3>1 DEF HexTaken
    <3>3. CASE c \notin HexDigits /\ s.half = -1 /\ c \in ignore
      <4>1. t = [s EXCEPT !.pos = @ + 1]
        BY <1>3, <2>2, <3>3 DEF HexTurned
      <4>2. t.pos = k + 1 /\ t.bin = s.bin /\ t.half = s.half /\ t.ret = s.ret /\ t.stop = s.stop
        BY <1>4, <3>1, <4>1 DEF HexStates
      <4>3. Taking(text, k + 1, ignore)
        BY <1>5, <1>6, <3>2, <3>3 DEF Taking, c
      <4>4. \A i \in 1..t.pos : Taking(text, i, ignore)
        BY <1>4, <3>1, <4>2, <4>3 DEF HexTaken
      <4>5. DigitsIn(text, t.pos) = 2 * Len(t.bin) + (IF t.half = -1 THEN 0 ELSE 1)
        BY <1>6, <3>2, <3>3, <4>2
      <4>6. HexTaken(text, t, maxlen, ignore)
        BY <1>1, <1>4, <3>3, <4>2, <4>4, <4>5 DEF HexTaken, n
      <4> QED
        BY <2>2, <3>1, <4>2, <4>6 DEF HexStopped
    <3>4. CASE c \notin HexDigits /\ ~(s.half = -1 /\ c \in ignore)
      <4>1. t = [s EXCEPT !.stop = TRUE]
        BY <1>3, <2>2, <3>4 DEF HexTurned
      <4>2. t.pos = s.pos /\ t.bin = s.bin /\ t.half = s.half /\ t.ret = s.ret /\ t.stop = TRUE
        BY <1>4, <4>1 DEF HexStates
      <4>3. HexTaken(text, t, maxlen, ignore)
        BY <1>4, <4>2 DEF HexTaken
      <4> QED
        BY <1>1, <3>1, <3>4, <4>2, <4>3 DEF HexStopped
    <3>5. CASE c \in HexDigits /\ Len(s.bin) >= maxlen
      <4>1. t = [s EXCEPT !.stop = TRUE, !.ret = -1]
        BY <1>3, <2>2, <3>5 DEF HexTurned
      <4>2. t.pos = s.pos /\ t.bin = s.bin /\ t.half = s.half /\ t.ret = -1 /\ t.stop = TRUE
        BY <1>4, <4>1 DEF HexStates
      <4>3. HexTaken(text, t, maxlen, ignore)
        BY <1>4, <4>2 DEF HexTaken
      <4>4. Len(s.bin) = maxlen /\ s.half = -1
        BY <1>4, <1>5, <3>5 DEF HexTaken
      <4> QED
        BY <1>1, <3>1, <3>5, <4>2, <4>3, <4>4 DEF HexStopped
    <3>6. CASE c \in HexDigits /\ ~(Len(s.bin) >= maxlen) /\ s.half = -1
      <4>1. t = [s EXCEPT !.half = Worth(c), !.pos = @ + 1]
        BY <1>3, <2>2, <3>6 DEF HexTurned
      <4>2. t.pos = k + 1 /\ t.bin = s.bin /\ t.half = Worth(c) /\ t.ret = s.ret /\ t.stop = s.stop
        BY <1>4, <3>1, <4>1 DEF HexStates
      <4>3. Worth(c) \in 0..15
        BY <3>6, WorthOfDigit
      <4>a. c = text[k + 1] /\ k + 1 \in Nat /\ t.pos > 0
        BY <1>1, <4>2 DEF c
      <4>4. \A i \in 1..t.pos : Taking(text, i, ignore)
        <5>1. \A i \in 1..k : Taking(text, i, ignore)
          BY <1>4, <3>1 DEF HexTaken
        <5>2. Taking(text, k + 1, ignore)
          BY <3>6, <4>a DEF Taking
        <5> QED
          BY <1>1, <4>2, <5>1, <5>2
      <4>5. DigitsIn(text, t.pos) = 2 * Len(t.bin) + (IF t.half = -1 THEN 0 ELSE 1)
        <5>1. DigitsIn(text, k + 1) = 2 * Len(s.bin) + 1
          BY <1>6, <3>2, <3>6
        <5>2. t.half # -1
          BY <4>2, <4>3
        <5> QED
          BY <4>2, <5>1, <5>2
      <4>6. t.half # -1 => Len(t.bin) < maxlen /\ t.pos > 0 /\ text[t.pos] \in HexDigits /\ t.half = Worth(text[t.pos])
        <5>1. Len(t.bin) < maxlen
          BY <1>5, <3>6, <4>2
        <5>2. text[t.pos] = c
          BY <4>2, <4>a
        <5> QED
          BY <3>6, <4>2, <4>a, <5>1, <5>2
      <4>7. HexTaken(text, t, maxlen, ignore)
        <5>1. t.pos <= Len(text)
          BY <1>1, <4>2 DEF n
        <5>2. Len(t.bin) <= maxlen /\ \A j \in 1..Len(t.bin) : t.bin[j] = Pair(text, j)
          BY <1>4, <4>2 DEF HexTaken
        <5> QED
          BY <4>4, <4>5, <4>6, <5>1, <5>2 DEF HexTaken
      <4> QED
        BY <2>2, <3>1, <4>2, <4>7 DEF HexStopped
    <3>7. CASE c \in HexDigits /\ ~(Len(s.bin) >= maxlen) /\ s.half # -1
      <4>a. t = [s EXCEPT !.bin = Append(@, 16 * s.half + Worth(c)), !.half = -1, !.pos = @ + 1]
        <5>1. ~s.stop /\ ~(c \notin HexDigits) /\ ~(Len(s.bin) >= maxlen) /\ ~(s.half = -1)
          BY <2>2, <3>7
        <5> QED
          BY <1>3, <5>1 DEF HexTurned
      <4> DEFINE b == 16 * s.half + Worth(c)  m == Len(s.bin)
      <4>1. t = [s EXCEPT !.bin = Append(@, b), !.half = -1, !.pos = @ + 1]
        BY <4>a
      <4>2. Worth(c) \in 0..15 /\ b \in 0..255
        <5>1. Worth(c) \in 0..15
          BY <3>7, WorthOfDigit
        <5>2. s.half \in 0..15
          BY <1>5, <3>7
        <5>3. \A p \in 0..15 : \A q \in 0..15 : 16 * p + q \in 0..255
          OBVIOUS
        <5> QED
          BY <5>1, <5>2, <5>3, Zenon
      <4>3. b = Pair(text, m + 1)
        <5>1. k \in 1..Len(text) /\ text[k] \in HexDigits /\ s.half = Worth(text[k])
          BY <1>4, <3>1, <3>7 DEF HexTaken
        <5>2. Digit(text, DigitsIn(text, k)) = k /\ Digit(text, DigitsIn(text, k + 1)) = k + 1
          BY <1>1, <3>7, <5>1, DigitOfNumber DEF c, n
        <5>3. DigitsIn(text, k) = 2 * (m + 1) - 1 /\ DigitsIn(text, k + 1) = 2 * (m + 1)
          BY <1>5, <1>6, <3>2, <3>7
        <5> HIDE DEF m
        <5> QED
          BY <5>1, <5>2, <5>3 DEF Pair, c
      <4> HIDE DEF b
      <4>4. /\ Len(Append(s.bin, b)) = m + 1 /\ Append(s.bin, b)[m + 1] = b
            /\ \A j \in 1..m : Append(s.bin, b)[j] = s.bin[j]
        BY <1>5, <4>2, AppendStays DEF Binaries
      <4>5. t.pos = k + 1 /\ t.bin = Append(s.bin, b) /\ t.half = -1 /\ t.ret = s.ret /\ t.stop = s.stop
        BY <1>4, <3>1, <4>1 DEF HexStates
      <4>6. \A i \in 1..t.pos : Taking(text, i, ignore)
        BY <1>4, <3>1, <3>7, <4>5 DEF HexTaken, Taking, c
      <4>7. DigitsIn(text, t.pos) = 2 * Len(t.bin) + (IF t.half = -1 THEN 0 ELSE 1)
        BY <1>5, <1>6, <3>2, <3>7, <4>4, <4>5
      <4>8. ASSUME NEW j \in 1..Len(t.bin) PROVE t.bin[j] = Pair(text, j)
        <5>1. CASE j \in 1..m
          BY <1>4, <4>4, <4>5, <5>1 DEF HexTaken
        <5>2. CASE j = m + 1
          BY <4>3, <4>4, <4>5, <5>2
        <5> QED
          BY <1>5, <4>4, <4>5, <5>1, <5>2
      <4>9. Len(t.bin) <= maxlen
        BY <1>5, <3>7, <4>4, <4>5
      <4>10. HexTaken(text, t, maxlen, ignore)
        BY <1>1, <4>5, <4>6, <4>7, <4>8, <4>9 DEF HexTaken, n
      <4> QED
        BY <2>2, <3>1, <4>5, <4>10 DEF HexStopped
    <3> QED
      BY <3>3, <3>4, <3>5, <3>6, <3>7
  <2> QED
    BY <2>1, <2>2
<1> QED
  BY <1>3, <1>7 DEF Reading, t, c

\* And the last turn has read what there is to read.
LEMMA HexTurnsRead ==
    ASSUME NEW text, Len(text) \in Nat, text \in Bytes(Len(text)), NEW maxlen \in Nat, NEW ignore,
           NEW s, HexTurns(text, maxlen, ignore, s)
    PROVE  Reading(text, Len(text), s[Len(text)], maxlen, ignore)
<1> DEFINE n == Len(text)
           S == {k \in 0..n : Reading(text, k, s[k], maxlen, ignore)}
<1>1. 0 \in S
  <2>1. s[0] = HexBegun
    BY DEF HexTurns
  <2>2. HexBegun \in HexStates
    BY DEF HexBegun, HexStates, Binaries
  <2>3. DigitsIn(text, 0) = 0
    BY NoDigits
  <2>4. HexTaken(text, HexBegun, maxlen, ignore) /\ HexStopped(text, 0, HexBegun, maxlen, ignore)
    BY <2>3 DEF HexTaken, HexStopped, HexBegun
  <2> QED
    BY <2>1, <2>2, <2>4 DEF Reading
<1>2. ASSUME NEW k \in 0..n, k < n, k \in S PROVE k + 1 \in S
  <2>1. s[k + 1] = HexTurn(s[k], text[k + 1], maxlen, ignore)
    <3>1. k + 1 \in 1..n /\ k + 1 - 1 = k
      BY <1>2
    <3> QED
      BY <3>1 DEF HexTurns
  <2>2. Reading(text, k, s[k], maxlen, ignore)
    BY <1>2
  <2>3. Reading(text, k + 1, s[k + 1], maxlen, ignore)
    BY <1>2, <2>1, <2>2, HexTurnReads
  <2> QED
    BY <1>2, <2>3
<1>3. n \in Nat
  OBVIOUS
<1> HIDE DEF S
<1>4. 0..n \subseteq S
  BY <1>1, <1>2, <1>3, TurnInduction
<1> QED
  BY <1>3, <1>4 DEF S

\* The longest beginning of a text that is pairs of digits and fits.
Ends(text, e, maxlen, ignore) ==
    e \in 0..Len(text) /\ Fits(text, e, maxlen, ignore) /\ \A i \in e+1..Len(text) : ~Fits(text, i, maxlen, ignore)
\* No digit is in the way of more.
Good(text, e) == e = Len(text) \/ text[e + 1] \notin HexDigits

\* There is one.
LEMMA EndIsHexEnd ==
    ASSUME NEW text, Len(text) \in Nat, NEW maxlen, NEW ignore, NEW e, Ends(text, e, maxlen, ignore)
    PROVE  HexEnd(text, maxlen, ignore) = e
<1> DEFINE n == Len(text)  P(i) == Fits(text, i, maxlen, ignore)
<1>1. n \in Nat /\ e \in 0..n /\ P(e) /\ \A i \in e+1..n : ~P(i)
  BY DEF Ends
<1>2. HexEnd(text, maxlen, ignore) = CHOOSE m \in 0..n : P(m) /\ \A i \in m+1..n : ~P(i)
  BY DEF HexEnd
<1> HIDE DEF P, n
<1>3. ASSUME NEW m \in 0..n, P(m), \A i \in m+1..n : ~P(i) PROVE m = e
  <2>1. ~(m < e)
    BY <1>1, <1>3
  <2>2. ~(e < m)
    BY <1>1, <1>3
  <2> QED
    BY <1>1, <2>1, <2>2
<1> QED
  BY <1>1, <1>2, <1>3

\* What is left of the last turn without a half byte.
RestRead(text, r, maxlen, ignore) ==
    /\ Ends(text, r.pos, maxlen, ignore)
    /\ r.ret = IF Good(text, r.pos) THEN 0 ELSE -1
    /\ r.bin = RefHex(text, r.pos)

\* The bytes read are the pairs of digits.
LEMMA BytesAreRefHex ==
    ASSUME NEW text, NEW q \in Binaries, NEW e, DigitsIn(text, e) = 2 * Len(q),
           \A j \in 1..Len(q) : q[j] = Pair(text, j)
    PROVE  q = RefHex(text, e)
<1>1. Len(q) \in Nat /\ q = [j \in 1..Len(q) |-> q[j]]
  BY DEF Binaries
<1>a. \A x \in Nat : (2 * x) \div 2 = x
  OBVIOUS
<1>2. DigitsIn(text, e) \div 2 = Len(q)
  BY <1>1, <1>a, Zenon
<1>3. RefHex(text, e) = [j \in 1..Len(q) |-> Pair(text, j)]
  BY <1>2 DEF RefHex, Pair
<1> QED
  BY <1>1, <1>3

\* A digit that waits for its other half when the text ends, or stops, is left.
LEMMA HexRestReads ==
    ASSUME NEW text, Len(text) \in Nat, NEW maxlen \in Nat, NEW ignore,
           NEW s, Reading(text, Len(text), s, maxlen, ignore)
    PROVE  RestRead(text, HexRest(s), maxlen, ignore)
<1> DEFINE n == Len(text)  r == HexRest(s)
<1>1. s \in HexStates /\ HexTaken(text, s, maxlen, ignore) /\ HexStopped(text, n, s, maxlen, ignore)
  BY DEF Reading
<1>2. /\ s.bin \in Binaries /\ s.half \in -1..15 /\ s.pos \in Nat /\ s.ret \in {0, -1} /\ s.stop \in BOOLEAN
      /\ Len(s.bin) \in Nat /\ n \in Nat
  BY <1>1 DEF HexStates, Binaries
<1>3. /\ s.pos \in 0..n /\ \A i \in 1..s.pos : Taking(text, i, ignore)
      /\ DigitsIn(text, s.pos) = 2 * Len(s.bin) + (IF s.half = -1 THEN 0 ELSE 1)
      /\ Len(s.bin) <= maxlen
      /\ s.half # -1 => s.pos > 0 /\ text[s.pos] \in HexDigits
      /\ \A j \in 1..Len(s.bin) : s.bin[j] = Pair(text, j)
  BY <1>1, <1>2 DEF HexTaken
<1>a. \A x \in Nat : (2 * x) % 2 = 0 /\ (2 * x + 1) % 2 = 1
  OBVIOUS
<1>b. RestRead(text, r, maxlen, ignore) => RestRead(text, HexRest(s), maxlen, ignore)
  OBVIOUS
<1>c. n = Len(text) /\ r = HexRest(s)
  OBVIOUS
<1> HIDE DEF r, n
<1>d. SUFFICES RestRead(text, r, maxlen, ignore)
  BY <1>b
<1>4. CASE s.half = -1
  <2>1. r = s /\ r.pos = s.pos /\ r.ret = s.ret /\ r.bin = s.bin
    BY <1>4, <1>c DEF HexRest
  <2>2. DigitsIn(text, s.pos) = 2 * Len(s.bin)
    BY <1>2, <1>3, <1>4
  <2>a. DigitsIn(text, s.pos) % 2 = 0 /\ DigitsIn(text, s.pos) <= 2 * maxlen
    <3>1. Len(s.bin) \in Nat /\ Len(s.bin) <= maxlen
      BY <1>2, <1>3
    <3>2. (2 * Len(s.bin)) % 2 = 0
      BY <1>a, <3>1
    <3>3. 2 * Len(s.bin) <= 2 * maxlen
      BY <3>1
    <3> QED
      BY <2>2, <3>2, <3>3
  <2>3. Fits(text, s.pos, maxlen, ignore)
    BY <1>3, <2>a DEF Fits, Readable, Taking
  <2>4. r.bin = RefHex(text, r.pos)
    BY <1>2, <1>3, <2>1, <2>2, BytesAreRefHex
  <2>5. CASE ~s.stop
    <3>1. s.pos = n /\ s.ret = 0
      BY <1>1, <2>5 DEF HexStopped
    <3> QED
      BY <1>2, <1>3, <2>1, <2>3, <2>4, <3>1 DEF RestRead, Ends, Good, n
  <2>6. CASE s.stop
    <3>1. s.pos < n /\ s.pos + 1 \in 1..n
      BY <1>1, <1>2, <2>6 DEF HexStopped
    <3>2. CASE text[s.pos + 1] \in HexDigits
      <4>1. Len(s.bin) = maxlen /\ s.ret = -1
        BY <1>1, <2>6, <3>2 DEF HexStopped
      <4>2. DigitsIn(text, s.pos + 1) = 2 * maxlen + 1
        BY <1>2, <2>2, <3>2, <4>1, DigitsNext
      <4>3. ASSUME NEW i \in s.pos+1..n PROVE ~Fits(text, i, maxlen, ignore)
        <5>1. i \in Nat /\ s.pos + 1 \in Nat /\ s.pos + 1 <= i
          BY <1>2
        <5>2. DigitsIn(text, s.pos + 1) <= DigitsIn(text, i) /\ DigitsIn(text, i) \in Nat
          BY <5>1, DigitsGrow, DigitsAreFinite
        <5> QED
          BY <4>2, <5>2 DEF Fits
      <4>4. ~Good(text, s.pos)
        BY <1>2, <3>1, <3>2 DEF Good, n
      <4> QED
        BY <1>3, <2>1, <2>3, <2>4, <4>1, <4>3, <4>4 DEF RestRead, Ends, n
    <3>3. CASE text[s.pos + 1] \notin HexDigits
      <4>1. text[s.pos + 1] \notin ignore /\ s.ret = 0
        BY <1>1, <1>4, <2>6, <3>3 DEF HexStopped
      <4>2. ASSUME NEW i \in s.pos+1..n PROVE ~Fits(text, i, maxlen, ignore)
        <5>1. s.pos + 1 \in 1..i
          BY <1>2
        <5> QED
          BY <3>3, <4>1, <5>1 DEF Fits, Readable
      <4>3. Good(text, s.pos)
        BY <3>3 DEF Good
      <4> QED
        BY <1>3, <2>1, <2>3, <2>4, <4>1, <4>2, <4>3 DEF RestRead, Ends, n
    <3> QED
      BY <3>2, <3>3
  <2> QED
    BY <2>5, <2>6
<1>5. CASE s.half # -1
  <2> DEFINE e == s.pos - 1
  <2>1. r.pos = e /\ r.ret = -1 /\ r.bin = s.bin
    BY <1>1, <1>5, <1>c DEF HexRest, HexStates
  <2>2. e \in Nat /\ e + 1 = s.pos /\ e \in 0..n /\ e # n /\ text[e + 1] \in HexDigits
    BY <1>2, <1>3, <1>5
  <2> HIDE DEF e
  <2>3. DigitsIn(text, e + 1) = 2 * Len(s.bin) + 1 /\ DigitsIn(text, e) \in Nat
    <3>1. DigitsIn(text, s.pos) = 2 * Len(s.bin) + 1
      BY <1>3, <1>5
    <3> QED
      BY <2>2, <3>1, DigitsAreFinite
  <2>4. DigitsIn(text, e) = 2 * Len(s.bin)
    <3>1. DigitsIn(text, e + 1) = DigitsIn(text, e) + 1
      BY <2>2, DigitsNext
    <3> QED
      BY <1>2, <2>3, <3>1
  <2>a. DigitsIn(text, e) % 2 = 0 /\ DigitsIn(text, e) <= 2 * maxlen
    <3>1. Len(s.bin) \in Nat /\ Len(s.bin) <= maxlen
      BY <1>2, <1>3
    <3>2. (2 * Len(s.bin)) % 2 = 0
      BY <1>a, <3>1
    <3>3. 2 * Len(s.bin) <= 2 * maxlen
      BY <3>1
    <3> QED
      BY <2>4, <3>2, <3>3
  <2>b. \A i \in 1..e : Taking(text, i, ignore)
    BY <1>2, <1>3, <2>2
  <2>5. Fits(text, e, maxlen, ignore)
    BY <2>2, <2>a, <2>b DEF Fits, Readable, Taking
  <2>6. r.bin = RefHex(text, r.pos)
    BY <1>2, <1>3, <2>1, <2>4, BytesAreRefHex
  <2>7. ASSUME NEW i \in e+1..n PROVE ~Fits(text, i, maxlen, ignore)
    <3>1. CASE i = e + 1
      <4>1. DigitsIn(text, i) % 2 = 1
        BY <1>2, <1>a, <2>3, <3>1
      <4> QED
        BY <4>1 DEF Fits, Readable
    <3>2. CASE i # e + 1
      <4>1. s.pos < n /\ s.pos + 1 \in 1..i
        BY <1>2, <2>2, <3>2
      <4>2. s.stop /\ text[s.pos + 1] \notin HexDigits
        BY <1>1, <1>2, <1>5, <4>1 DEF HexStopped
      <4>3. DigitsIn(text, s.pos + 1) = 2 * Len(s.bin) + 1
        BY <1>2, <2>2, <2>3, <4>2, DigitsNext
      <4>4. DigitsIn(text, s.pos + 1) % 2 = 1
        BY <1>2, <1>a, <4>3
      <4> QED
        BY <4>1, <4>2, <4>4 DEF Fits, Readable
    <3> QED
      BY <3>1, <3>2
  <2>8. ~Good(text, e)
    BY <2>2 DEF Good, n
  <2> QED
    BY <2>1, <2>2, <2>5, <2>6, <2>7, <2>8 DEF RestRead, Ends, n
<1> QED
  BY <1>4, <1>5

\* sodium_hex2bin reads to the end of what there is to read.
HexReadOf(text, maxlen, ignore) ==
    LET e == HexEnd(text, maxlen, ignore)
    IN /\ Ends(text, e, maxlen, ignore)
       /\ \A hasEnd \in BOOLEAN :
            sodium_hex2bin(maxlen, text, ignore, hasEnd) =
              Passed(IF Good(text, e) /\ (hasEnd \/ e = Len(text)) THEN 0 ELSE -1,
                     IF Good(text, e) THEN RefHex(text, e) ELSE <<>>, e)
LEMMA Hex2binReads ==
    ASSUME NEW text, Len(text) \in Nat, text \in Bytes(Len(text)), NEW maxlen \in Nat, NEW ignore
    PROVE  HexReadOf(text, maxlen, ignore)
<1> DEFINE n == Len(text)
<1>1. HexLoopOf(text, maxlen, ignore)
  BY HexLoop
<1>2. PICK s : /\ HexTurns(text, maxlen, ignore, s)
               /\ \A hasEnd : sodium_hex2bin(maxlen, text, ignore, hasEnd) = Ended(HexRest(s[n]), n, hasEnd)
  BY <1>1 DEF HexLoopOf
<1>3. Reading(text, n, s[n], maxlen, ignore)
  BY <1>2, HexTurnsRead
<1> DEFINE r == HexRest(s[n])
<1>4. RestRead(text, r, maxlen, ignore)
  BY <1>3, HexRestReads
<1> HIDE DEF r
<1>5. /\ Ends(text, r.pos, maxlen, ignore)
      /\ r.ret = IF Good(text, r.pos) THEN 0 ELSE -1
      /\ r.bin = RefHex(text, r.pos)
  BY <1>4 DEF RestRead
<1>6. HexEnd(text, maxlen, ignore) = r.pos
  BY <1>5, EndIsHexEnd
<1>7. ASSUME NEW hasEnd \in BOOLEAN
      PROVE  sodium_hex2bin(maxlen, text, ignore, hasEnd) =
               Passed(IF Good(text, r.pos) /\ (hasEnd \/ r.pos = n) THEN 0 ELSE -1,
                      IF Good(text, r.pos) THEN RefHex(text, r.pos) ELSE <<>>, r.pos)
  <2>1. sodium_hex2bin(maxlen, text, ignore, hasEnd) = Ended(r, n, hasEnd)
    BY <1>2 DEF r
  <2>2. Ended(r, n, hasEnd) = Passed(IF ~hasEnd /\ r.pos # n THEN -1 ELSE r.ret, IF r.ret # 0 THEN <<>> ELSE r.bin, r.pos)
    BY DEF Ended
  <2>3. (IF ~hasEnd /\ r.pos # n THEN -1 ELSE r.ret) = IF Good(text, r.pos) /\ (hasEnd \/ r.pos = n) THEN 0 ELSE -1
    BY <1>5
  <2>4. (IF r.ret # 0 THEN <<>> ELSE r.bin) = IF Good(text, r.pos) THEN RefHex(text, r.pos) ELSE <<>>
    BY <1>5
  <2> QED
    BY <2>1, <2>2, <2>3, <2>4
<1> QED
  BY <1>5, <1>6, <1>7 DEF HexReadOf

\* The halves of bytes, in the order in which sodium_bin2hex writes them.
HalfOf(bin, j) == IF j % 2 = 1 THEN bin[(j + 1) \div 2] \div 16 ELSE bin[j \div 2] % 16
LEMMA HalvesOfBytes ==
    ASSUME NEW n \in Nat, NEW bin \in Bytes(n)
    PROVE  /\ \A j \in 1..2*n : HalfOf(bin, j) \in 0..15
           /\ \A j \in 1..n : 16 * HalfOf(bin, 2 * j - 1) + HalfOf(bin, 2 * j) = bin[j]
<1>1. \A i \in 1..n : bin[i] \in 0..255
  BY DEF Bytes
<1>2. ASSUME NEW j \in 1..2*n PROVE HalfOf(bin, j) \in 0..15
  <2>1. CASE j % 2 = 1
    <3>1. (j + 1) \div 2 \in 1..n
      BY <2>1
    <3>2. bin[(j + 1) \div 2] \in 0..255
      BY <1>1, <3>1
    <3> QED
      BY <2>1, <3>2 DEF HalfOf
  <2>2. CASE j % 2 # 1
    <3>1. j \div 2 \in 1..n
      BY <2>2
    <3>2. bin[j \div 2] \in 0..255
      BY <1>1, <3>1
    <3> QED
      BY <2>2, <3>2 DEF HalfOf
  <2> QED
    BY <2>1, <2>2
<1>3. ASSUME NEW j \in 1..n PROVE 16 * HalfOf(bin, 2 * j - 1) + HalfOf(bin, 2 * j) = bin[j]
  <2>1. (2 * j - 1) % 2 = 1 /\ (2 * j - 1 + 1) \div 2 = j /\ (2 * j) % 2 = 0 /\ (2 * j) \div 2 = j
    OBVIOUS
  <2>2. HalfOf(bin, 2 * j - 1) = bin[j] \div 16 /\ HalfOf(bin, 2 * j) = bin[j] % 16
    BY <2>1 DEF HalfOf
  <2>3. bin[j] \in 0..255
    BY <1>1
  <2>4. ASSUME NEW x \in 0..255 PROVE 16 * (x \div 16) + (x % 16) = x
    OBVIOUS
  <2> QED
    BY <2>2, <2>3, <2>4
<1> QED
  BY <1>2, <1>3

\* What sodium_bin2hex writes: a digit for every half, and the terminator.
HexText(n, bin) == [j \in 1..2*n |-> HexDigit(HalfOf(bin, j))]
HexWritten(n, bin, hex) == Len(hex) = 2 * n + 1 /\ SubSeq(hex, 1, Len(hex) - 1) = HexText(n, bin)
LEMMA Bin2hexWrites ==
    ASSUME NEW n \in Nat, NEW bin \in Bytes(n), NEW room \in Nat
    PROVE  IF room = 0 \/ n >= Uint \div 2 THEN sodium_bin2hex(2 * n + room, bin) = <<Misused>>
           ELSE HexWritten(n, bin, sodium_bin2hex(2 * n + room, bin))
<1> DEFINE hex == sodium_bin2hex(2 * n + room, bin)
           half(j) == HexDigit(HalfOf(bin, j))
<1>1. Len(bin) = n
  BY LenOfBytes
<1>2. CASE room = 0 \/ n >= Uint \div 2
  <2>1. Len(bin) >= Uint \div 2 \/ 2 * n + room <= 2 * Len(bin)
    BY <1>1, <1>2
  <2> QED
    BY <1>2, <2>1 DEF sodium_bin2hex
<1>3. CASE ~(room = 0 \/ n >= Uint \div 2)
  <2>1. ~(Len(bin) >= Uint \div 2 \/ 2 * n + room <= 2 * Len(bin))
    BY <1>1, <1>3
  <2>2. hex = [j \in 1..2*n+1 |-> IF j > 2 * n THEN 0 ELSE half(j)]
    BY <1>1, <2>1 DEF sodium_bin2hex, HalfOf
  <2> HIDE DEF hex, half
  <2>3. Len(hex) = 2 * n + 1
    BY <2>2
  <2>4. SubSeq(hex, 1, 2 * n) = [j \in 1..2*n |-> hex[j]]
    OBVIOUS
  <2>5. \A j \in 1..2*n : hex[j] = half(j)
    BY <2>2
  <2>6. SubSeq(hex, 1, 2 * n) = [j \in 1..2*n |-> half(j)]
    BY <2>4, <2>5
  <2>7. HexWritten(n, bin, hex)
    BY <2>3, <2>6 DEF HexWritten, HexText, half
  <2> QED
    BY <1>3, <2>7 DEF hex
<1> QED
  BY <1>2, <1>3

\* It is read back.
LEMMA HexTextReadsBack ==
    ASSUME NEW n \in Nat, NEW bin \in Bytes(n)
    PROVE  sodium_hex2bin(n, HexText(n, bin), {}, FALSE) = Passed(0, bin, 2 * n)
<1> DEFINE text == HexText(n, bin)  m == 2 * n
<1>1. m \in Nat /\ m % 2 = 0 /\ m \div 2 = n
  OBVIOUS
<1>2. ASSUME NEW k \in 1..m
      PROVE  text[k] \in 0..255 /\ text[k] \in HexDigits /\ Worth(text[k]) = HalfOf(bin, k)
  <2>1. HalfOf(bin, k) \in 0..15
    BY HalvesOfBytes
  <2>2. text[k] = HexDigit(HalfOf(bin, k))
    BY DEF HexText
  <2> HIDE DEF text
  <2> QED
    BY <2>1, <2>2, DigitReads
<1>3. text \in Bytes(m)
  <2>1. text = [k \in 1..m |-> text[k]]
    BY DEF HexText
  <2> HIDE DEF text
  <2> QED
    BY <1>2, <2>1 DEF Bytes
<1>4. Len(text) = m
  BY <1>1, <1>3, LenOfBytes
<1> HIDE DEF text, m
<1>5. ASSUME NEW k \in 0..m PROVE DigitsIn(text, k) = k
  BY <1>1, <1>2, AllDigits
<1>6. Ends(text, m, n, {})
  <2>1. DigitsIn(text, m) = m
    BY <1>1, <1>5
  <2>2. Fits(text, m, n, {})
    BY <1>1, <1>2, <2>1 DEF Fits, Readable, m
  <2> QED
    BY <1>1, <1>4, <2>2 DEF Ends
<1>7. HexReadOf(text, n, {})
  <2>1. text \in Bytes(Len(text)) /\ Len(text) \in Nat
    BY <1>1, <1>3, <1>4
  <2> QED
    BY <2>1, Hex2binReads
<1>8. HexEnd(text, n, {}) = m
  BY <1>1, <1>4, <1>6, EndIsHexEnd
<1>9. Good(text, m) /\ FALSE \in BOOLEAN
  BY <1>4 DEF Good
<1>10. sodium_hex2bin(n, text, {}, FALSE) = Passed(0, RefHex(text, m), m)
  BY <1>4, <1>7, <1>8, <1>9 DEF HexReadOf
<1>11. RefHex(text, m) = bin
  <2>1. RefHex(text, m) = [j \in 1..n |-> Pair(text, j)]
    <3>1. DigitsIn(text, m) \div 2 = n
      BY <1>1, <1>5
    <3> QED
      BY <3>1 DEF RefHex, Pair
  <2>2. ASSUME NEW j \in 1..n PROVE Pair(text, j) = bin[j]
    <3>1. 2 * j - 1 \in 1..m /\ 2 * j \in 1..m /\ 2 * j - 1 \in 0..m /\ 2 * j \in 0..m
      BY DEF m
    <3>2. DigitsIn(text, 2 * j - 1) = 2 * j - 1 /\ DigitsIn(text, 2 * j) = 2 * j
      BY <1>5, <3>1
    <3>3. ASSUME NEW k \in 1..m, DigitsIn(text, k) = k PROVE Digit(text, k) = k
      BY <1>1, <1>2, <1>4, <3>3, DigitOfNumber
    <3>4. Digit(text, 2 * j - 1) = 2 * j - 1 /\ Digit(text, 2 * j) = 2 * j
      BY <3>1, <3>2, <3>3
    <3>5. Worth(text[2 * j - 1]) = HalfOf(bin, 2 * j - 1) /\ Worth(text[2 * j]) = HalfOf(bin, 2 * j)
      BY <1>2, <3>1
    <3>6. 16 * HalfOf(bin, 2 * j - 1) + HalfOf(bin, 2 * j) = bin[j]
      BY HalvesOfBytes
    <3> QED
      BY <3>4, <3>5, <3>6 DEF Pair
  <2>3. bin = [j \in 1..n |-> bin[j]]
    BY DEF Bytes
  <2> QED
    BY <2>1, <2>2, <2>3
<1> QED
  BY <1>10, <1>11 DEF text, m

\* What any call of the hexadecimal conversions leaves is right.
LEMMA HexOfCall ==
    Answered => HexReadsPairs
<1> SUFFICES ASSUME Answered, call.op = "hex", out # Nothing
             PROVE  HexReadsPairs
  BY DEF HexReadsPairs, Done
<1> DEFINE n == Len(call.bin)  bin == call.bin  room == call.room  text == call.text
           maxlen == call.maxlen  ignore == call.ignore
           hex == sodium_bin2hex(2 * n + room, bin)  e == HexEnd(text, maxlen, ignore)
<1>1. /\ n \in Nat /\ bin \in Bytes(n) /\ room \in Nat /\ Len(text) \in Nat /\ text \in Bytes(Len(text))
      /\ maxlen \in Nat /\ out = HexOf(call)
  <2>1. call \in Inputs /\ out = Answer(call)
    BY DEF Answered
  <2>2. Answer(call) = HexOf(call)
    BY <2>1, AnswersAreResults, Zenon
  <2> QED
    BY <2>1, <2>2, InputsAreBytes
<1>2. /\ out.hex = hex /\ out.back = sodium_hex2bin(n, SubSeq(hex, 1, Len(hex) - 1), {}, FALSE)
      /\ out.read = sodium_hex2bin(maxlen, text, ignore, TRUE)
      /\ out.whole = sodium_hex2bin(maxlen, text, ignore, FALSE)
  BY <1>1 DEF HexOf
<1>3. HexReadsPairs <=>
        /\ out.read = Passed(IF Good(text, e) THEN 0 ELSE -1, IF Good(text, e) THEN RefHex(text, e) ELSE <<>>, e)
        /\ out.whole = [out.read EXCEPT !.ret = IF Good(text, e) /\ e = Len(text) THEN 0 ELSE -1]
        /\ IF room = 0 \/ n >= Uint \div 2 THEN out.hex = <<Misused>>
           ELSE out.back = Passed(0, bin, 2 * n) /\ Len(out.hex) = 2 * n + 1
  BY DEF HexReadsPairs, Done, Good
<1> HIDE DEF n, bin, room, text, maxlen, ignore, hex
<1>4. HexReadOf(text, maxlen, ignore)
  BY <1>1, Hex2binReads
<1> HIDE DEF e
<1>5. \A hasEnd \in BOOLEAN :
        sodium_hex2bin(maxlen, text, ignore, hasEnd) =
          Passed(IF Good(text, e) /\ (hasEnd \/ e = Len(text)) THEN 0 ELSE -1,
                 IF Good(text, e) THEN RefHex(text, e) ELSE <<>>, e)
  BY <1>4 DEF HexReadOf, e
<1> DEFINE read == IF Good(text, e) THEN RefHex(text, e) ELSE <<>>
<1>6. out.read = Passed(IF Good(text, e) THEN 0 ELSE -1, read, e)
  BY <1>2, <1>5
<1>7. out.whole = Passed(IF Good(text, e) /\ e = Len(text) THEN 0 ELSE -1, read, e)
  BY <1>2, <1>5
<1> HIDE DEF read
<1>8. out.whole = [out.read EXCEPT !.ret = IF Good(text, e) /\ e = Len(text) THEN 0 ELSE -1]
  BY <1>6, <1>7 DEF Passed
<1>9. IF room = 0 \/ n >= Uint \div 2 THEN out.hex = <<Misused>>
      ELSE out.back = Passed(0, bin, 2 * n) /\ Len(out.hex) = 2 * n + 1
  <2>1. IF room = 0 \/ n >= Uint \div 2 THEN hex = <<Misused>> ELSE HexWritten(n, bin, hex)
    BY <1>1, Bin2hexWrites DEF hex
  <2>2. sodium_hex2bin(n, HexText(n, bin), {}, FALSE) = Passed(0, bin, 2 * n)
    BY <1>1, HexTextReadsBack
  <2> QED
    BY <1>2, <2>1, <2>2 DEF HexWritten
<1> QED
  BY <1>3, <1>6, <1>8, <1>9 DEF read

\* Hexadecimal texts of any length are read as far as they are pairs of digits
\* that fit, and what is written of any bytes is read back.
THEOREM HexStaysRight ==
    Spec => []HexReadsPairs
BY CallsAreAnswered, HexOfCall, PTL

-----------------------------------------------------------------------------
\* What utils.c, randombytes.c and the first half of codecs.c compute without
\* branches, byte by byte or word by word, is right for every input.
THEOREM NumbersStayRight ==
    Spec => []NumbersAreRight
<1>1. Answered => NumbersAreRight
  BY PaddingOfCall, NumbersOfCall, UniformOfCall, HexOfCall DEF NumbersAreRight
<1> QED
  BY <1>1, CallsAreAnswered, PTL

-----------------------------------------------------------------------------
(* Comparisons of base64.                                                  *)

Variants == {1, 3, 5, 7}
Flag(f, b) == f = IF b THEN 255 ELSE 0

\* 0xFF for true and 0 for false, of bytes.
LEMMA Orders ==
    ASSUME NEW x \in 0..255, NEW y \in 0..255
    PROVE  /\ GT(x, y) = IF x > y THEN 255 ELSE 0
           /\ LT(x, y) = IF x < y THEN 255 ELSE 0
           /\ GE(x, y) = IF x >= y THEN 255 ELSE 0
           /\ LE(x, y) = IF x <= y THEN 255 ELSE 0
<1>1. Under(x, y) /\ Under(y, x)
  BY TopUnder, Zenon
<1>2. /\ GT(x, y) = IF x > y THEN 255 ELSE 0
      /\ GT(y, x) = IF x < y THEN 255 ELSE 0
  BY <1>1 DEF Under, GT
<1> QED
  BY <1>2 DEF LT, GE, LE

\* EQ, of bytes.
LEMMA Equals ==
    ASSUME NEW x \in 0..255, NEW y \in 0..255
    PROVE  EQ(x, y) = IF x = y THEN 255 ELSE 0
<1> DEFINE z == Xor8(x, y)
<1>1. Differs(x, y)
  BY Xor8Differs, Zenon
<1>2. z \in 0..255 /\ (z = 0 <=> x = y)
  BY <1>1 DEF Differs
<1>3. Xor16(x, y) = z
  <2>1. x \div 256 = 0 /\ y \div 256 = 0 /\ x % 256 = x /\ y % 256 = y
    OBVIOUS
  <2>2. Differs(0, 0)
    <3>1. 0 \in 0..255
      OBVIOUS
    <3> QED
      BY <3>1, Xor8Differs, Zenon
  <2>3. Xor8(0, 0) = 0
    BY <2>2 DEF Differs
  <2> QED
    BY <1>2, <2>1, <2>3 DEF Xor16
<1> HIDE DEF z
<1>4. Under(0, z)
  <2>1. 0 \in 0..255
    OBVIOUS
  <2> QED
    BY <1>2, <2>1, TopUnder, Zenon
<1>5. Top(Minus16(0, z)) = IF x = y THEN 0 ELSE 255
  BY <1>2, <1>4 DEF Under
<1> QED
  BY <1>3, <1>5 DEF EQ

\* What & and | make of 0xFF, of 0 and of bytes.
LEMMA Flags ==
    ASSUME NEW a \in 0..255
    PROVE  /\ And8(255, a) = a /\ And8(0, a) = 0
           /\ Or8(0, a) = a /\ Or8(a, 0) = a
BY And8Whole, Or8Whole, Zenon

\* The disjunction of five of which one is not 0.
LEMMA AnyOfOne ==
    ASSUME NEW a \in 0..255
    PROVE  /\ AnyOf(<<a, 0, 0, 0, 0>>) = a /\ AnyOf(<<0, a, 0, 0, 0>>) = a /\ AnyOf(<<0, 0, a, 0, 0>>) = a
           /\ AnyOf(<<0, 0, 0, a, 0>>) = a /\ AnyOf(<<0, 0, 0, 0, a>>) = a
<1>1. Or8(0, a) = a /\ Or8(a, 0) = a
  BY Flags
<1>2. 0 \in 0..255
  OBVIOUS
<1>3. Or8(0, 0) = 0
  BY <1>2, Flags, Zenon
<1> QED
  BY <1>1, <1>3 DEF AnyOf

\* The character of each number of 6 bits is that of the alphabet.
LEMMA CharacterOfNumber ==
    ASSUME NEW x \in 0..63, NEW variant \in Variants
    PROVE  b64_byte_to_char(x, variant) = Alphabet(variant)[x]
<1> DEFINE l == Last2(variant)
<1>1. l[1] \in 0..255 /\ l[2] \in 0..255
  BY DEF Last2
<1>2. Alphabet(variant)[x] = IF x < 26 THEN 65 + x ELSE IF x < 52 THEN 71 + x ELSE IF x < 62 THEN x - 4 ELSE l[x - 61]
  BY DEF Alphabet
<1> HIDE DEF l
<1>3. x \in 0..255 /\ 26 \in 0..255 /\ 52 \in 0..255 /\ 62 \in 0..255 /\ 63 \in 0..255
  OBVIOUS
<1>4. /\ LT(x, 26) = IF x < 26 THEN 255 ELSE 0
      /\ GE(x, 26) = IF x >= 26 THEN 255 ELSE 0
      /\ LT(x, 52) = IF x < 52 THEN 255 ELSE 0
      /\ GE(x, 52) = IF x >= 52 THEN 255 ELSE 0
      /\ LT(x, 62) = IF x < 62 THEN 255 ELSE 0
  BY <1>3, Orders, Zenon
<1>5. EQ(x, 62) = (IF x = 62 THEN 255 ELSE 0) /\ EQ(x, 63) = (IF x = 63 THEN 255 ELSE 0)
  <2>1. EQ(x, 62) = IF x = 62 THEN 255 ELSE 0
    BY <1>3, Equals, Zenon
  <2>2. EQ(x, 63) = IF x = 63 THEN 255 ELSE 0
    BY <1>3, Equals, Zenon
  <2> QED
    BY <2>1, <2>2
<1> DEFINE u == x + 65  v == (x + 71) % 256  w == (x - 4) % 256
<1>6. /\ u \in 0..255 /\ v \in 0..255 /\ w \in 0..255 /\ 255 \in 0..255 /\ 0 \in 0..255
      /\ v = x + 71 /\ (x >= 4 => w = x - 4)
  OBVIOUS
<1>7. b64_byte_to_char(x, variant) =
        AnyOf(<<And8(LT(x, 26), u), And8(And8(GE(x, 26), LT(x, 52)), v), And8(And8(GE(x, 52), LT(x, 62)), w),
                And8(EQ(x, 62), l[1]), And8(EQ(x, 63), l[2])>>)
  BY DEF b64_byte_to_char, l
<1> HIDE DEF v, w
<1>a. u = 65 + x
  OBVIOUS
<1> HIDE DEF u
<1>8. /\ And8(255, u) = u /\ And8(0, u) = 0 /\ And8(255, v) = v /\ And8(0, v) = 0 /\ And8(255, w) = w /\ And8(0, w) = 0
      /\ And8(255, l[1]) = l[1] /\ And8(0, l[1]) = 0 /\ And8(255, l[2]) = l[2] /\ And8(0, l[2]) = 0
      /\ And8(255, 255) = 255 /\ And8(255, 0) = 0 /\ And8(0, 255) = 0 /\ And8(0, 0) = 0
  <2>1. /\ And8(255, u) = u /\ And8(0, u) = 0 /\ And8(255, v) = v /\ And8(0, v) = 0 /\ And8(255, w) = w /\ And8(0, w) = 0
    BY <1>6, Flags, Zenon
  <2>2. /\ And8(255, l[1]) = l[1] /\ And8(0, l[1]) = 0 /\ And8(255, l[2]) = l[2] /\ And8(0, l[2]) = 0
    BY <1>1, Flags, Zenon
  <2>3. And8(255, 255) = 255 /\ And8(255, 0) = 0 /\ And8(0, 255) = 0 /\ And8(0, 0) = 0
    BY <1>6, Flags, Zenon
  <2> QED
    BY <2>1, <2>2, <2>3
<1>9. CASE x < 26
  <2>1. b64_byte_to_char(x, variant) = AnyOf(<<u, 0, 0, 0, 0>>)
    BY <1>4, <1>5, <1>7, <1>8, <1>9
  <2>2. AnyOf(<<u, 0, 0, 0, 0>>) = u
    BY <1>1, <1>6, AnyOfOne, Zenon
  <2> QED
    BY <1>2, <1>6, <1>9, <1>a, <2>1, <2>2
<1>10. CASE x >= 26 /\ x < 52
  <2>1. b64_byte_to_char(x, variant) = AnyOf(<<0, v, 0, 0, 0>>)
    BY <1>4, <1>5, <1>7, <1>8, <1>10
  <2>2. AnyOf(<<0, v, 0, 0, 0>>) = v
    BY <1>1, <1>6, AnyOfOne, Zenon
  <2> QED
    BY <1>2, <1>6, <1>10, <2>1, <2>2
<1>11. CASE x >= 52 /\ x < 62
  <2>1. b64_byte_to_char(x, variant) = AnyOf(<<0, 0, w, 0, 0>>)
    BY <1>4, <1>5, <1>7, <1>8, <1>11
  <2>2. AnyOf(<<0, 0, w, 0, 0>>) = w
    BY <1>1, <1>6, AnyOfOne, Zenon
  <2> QED
    BY <1>2, <1>6, <1>11, <2>1, <2>2
<1>12. CASE x = 62
  <2>1. b64_byte_to_char(x, variant) = AnyOf(<<0, 0, 0, l[1], 0>>)
    BY <1>4, <1>5, <1>7, <1>8, <1>12
  <2>2. AnyOf(<<0, 0, 0, l[1], 0>>) = l[1]
    BY <1>1, <1>6, AnyOfOne, Zenon
  <2> QED
    BY <1>1, <1>2, <1>12, <2>1, <2>2
<1>13. CASE x = 63
  <2>1. b64_byte_to_char(x, variant) = AnyOf(<<0, 0, 0, 0, l[2]>>)
    BY <1>4, <1>5, <1>7, <1>8, <1>13
  <2>2. AnyOf(<<0, 0, 0, 0, l[2]>>) = l[2]
    BY <1>1, <1>6, AnyOfOne, Zenon
  <2> QED
    BY <1>1, <1>2, <1>13, <2>1, <2>2
<1> QED
  BY <1>9, <1>10, <1>11, <1>12, <1>13

\* The place of a character in the alphabet.
Rank(c, variant) ==
    IF c \in 65..90 THEN c - 65 ELSE IF c \in 97..122 THEN c - 71 ELSE IF c \in 48..57 THEN c + 4
    ELSE IF c = Last2(variant)[1] THEN 62 ELSE IF c = Last2(variant)[2] THEN 63 ELSE 255
\* What there is at the place of a character.
RankedAs(c, variant) ==
    /\ c \in Letters(variant) => Rank(c, variant) \in 0..63 /\ Alphabet(variant)[Rank(c, variant)] = c
    /\ c \notin Letters(variant) => Rank(c, variant) = 255
LEMMA CharacterIsRanked ==
    ASSUME NEW c \in 0..255, NEW variant \in Variants
    PROVE  RankedAs(c, variant)
<1> DEFINE l == Last2(variant)  k == Rank(c, variant)
<1>1. l = <<43, 47>> \/ l = <<45, 95>>
  BY DEF Last2
<1>2. \A x \in 0..63 : Alphabet(variant)[x] = IF x < 26 THEN 65 + x ELSE IF x < 52 THEN 71 + x ELSE IF x < 62 THEN x - 4 ELSE l[x - 61]
  BY DEF Alphabet
<1>3. k = IF c \in 65..90 THEN c - 65 ELSE IF c \in 97..122 THEN c - 71 ELSE IF c \in 48..57 THEN c + 4
          ELSE IF c = l[1] THEN 62 ELSE IF c = l[2] THEN 63 ELSE 255
  BY DEF Rank
<1>4. \A d : d \in Letters(variant) <=> \E x \in 0..63 : Alphabet(variant)[x] = d
  BY DEF Letters
<1> HIDE DEF l, k
<1>5. k \in 0..63 \/ k = 255
  BY <1>3
<1>6. ASSUME k \in 0..63 PROVE Alphabet(variant)[k] = c
  BY <1>1, <1>2, <1>3, <1>6
<1>7. ASSUME NEW x \in 0..63, Alphabet(variant)[x] = c PROVE k \in 0..63
  BY <1>1, <1>2, <1>3, <1>7
<1>8. c \in Letters(variant) => k \in 0..63
  BY <1>4, <1>7
<1>9. k \in 0..63 => c \in Letters(variant)
  BY <1>4, <1>6
<1> QED
  BY <1>5, <1>6, <1>8, <1>9 DEF k, RankedAs

LEMMA RankOfLetter ==
    ASSUME NEW c \in 0..255, NEW variant \in Variants
    PROVE  /\ c \in Letters(variant) => Rank(c, variant) \in 0..63 /\ Alphabet(variant)[Rank(c, variant)] = c
           /\ c \notin Letters(variant) => Rank(c, variant) = 255
<1>1. RankedAs(c, variant)
  BY CharacterIsRanked
<1> QED
  BY <1>1, Zenon DEF RankedAs

\* One range of characters.
Ranged(c, from, to, shift) == Within(c, from, to, shift) = IF c \in from..to THEN (c - shift) % 256 ELSE 0
LEMMA WithinRange ==
    ASSUME NEW c \in 0..255, NEW from \in 0..255, NEW to \in 0..255, NEW shift \in Int
    PROVE  Ranged(c, from, to, shift)
<1> DEFINE v == (c - shift) % 256
<1>1. v \in 0..255 /\ 0 \in 0..255 /\ 255 \in 0..255
  OBVIOUS
<1>2. Within(c, from, to, shift) = And8(And8(GE(c, from), LE(c, to)), v)
  BY DEF Within
<1> HIDE DEF v
<1>3. GE(c, from) = (IF c >= from THEN 255 ELSE 0) /\ LE(c, to) = (IF c <= to THEN 255 ELSE 0)
  BY Orders, Zenon
<1>4. /\ And8(255, v) = v /\ And8(0, v) = 0
      /\ And8(255, 255) = 255 /\ And8(255, 0) = 0 /\ And8(0, 255) = 0 /\ And8(0, 0) = 0
  BY <1>1, Flags, Zenon
<1> QED
  BY <1>2, <1>3, <1>4 DEF v, Ranged

\* The number of each character is its place in the alphabet.
LEMMA NumberOfCharacter ==
    ASSUME NEW c \in 0..255, NEW variant \in Variants
    PROVE  b64_char_to_byte(c, variant) = Rank(c, variant)
<1> DEFINE l == Last2(variant)
           x == AnyOf(<<Within(c, 65, 90, 65), Within(c, 97, 122, 71), Within(c, 48, 57, -4),
                        And8(EQ(c, l[1]), 62), And8(EQ(c, l[2]), 63)>>)
<1>1. l = <<43, 47>> \/ l = <<45, 95>>
  BY DEF Last2
<1>2. Rank(c, variant) =
          IF c \in 65..90 THEN c - 65 ELSE IF c \in 97..122 THEN c - 71 ELSE IF c \in 48..57 THEN c + 4
          ELSE IF c = l[1] THEN 62 ELSE IF c = l[2] THEN 63 ELSE 255
  BY DEF Rank
<1>3. b64_char_to_byte(c, variant) = Or8(x, And8(EQ(x, 0), 255 - EQ(c, 65)))
  BY DEF b64_char_to_byte
<1> DEFINE m == <<Within(c, 65, 90, 65), Within(c, 97, 122, 71), Within(c, 48, 57, -4),
                  And8(EQ(c, l[1]), 62), And8(EQ(c, l[2]), 63)>>
<1>4. x = AnyOf(m)
  OBVIOUS
<1>5. /\ Within(c, 65, 90, 65) = IF c \in 65..90 THEN c - 65 ELSE 0
      /\ Within(c, 97, 122, 71) = IF c \in 97..122 THEN c - 71 ELSE 0
      /\ Within(c, 48, 57, -4) = IF c \in 48..57 THEN c + 4 ELSE 0
  <2>1. 65 \in 0..255 /\ 90 \in 0..255 /\ 97 \in 0..255 /\ 122 \in 0..255 /\ 48 \in 0..255 /\ 57 \in 0..255
        /\ 65 \in Int /\ 71 \in Int /\ -4 \in Int
    OBVIOUS
  <2>2. Ranged(c, 65, 90, 65) /\ Ranged(c, 97, 122, 71) /\ Ranged(c, 48, 57, -4)
    BY <2>1, WithinRange, Zenon
  <2> QED
    BY <2>2 DEF Ranged
<1>6. And8(EQ(c, l[1]), 62) = (IF c = l[1] THEN 62 ELSE 0) /\ And8(EQ(c, l[2]), 63) = (IF c = l[2] THEN 63 ELSE 0)
  <2>1. l[1] \in 0..255 /\ l[2] \in 0..255 /\ 62 \in 0..255 /\ 63 \in 0..255
    BY <1>1
  <2>2. EQ(c, l[1]) = (IF c = l[1] THEN 255 ELSE 0) /\ EQ(c, l[2]) = (IF c = l[2] THEN 255 ELSE 0)
    BY <2>1, Equals, Zenon
  <2>3. And8(255, 62) = 62 /\ And8(0, 62) = 0 /\ And8(255, 63) = 63 /\ And8(0, 63) = 0
    BY <2>1, Flags, Zenon
  <2> QED
    BY <2>2, <2>3
<1>7. EQ(c, 65) = IF c = 65 THEN 255 ELSE 0
  <2>1. 65 \in 0..255
    OBVIOUS
  <2> QED
    BY <2>1, Equals, Zenon
<1>8. m = IF c \in 65..90 THEN <<c - 65, 0, 0, 0, 0>> ELSE IF c \in 97..122 THEN <<0, c - 71, 0, 0, 0>>
          ELSE IF c \in 48..57 THEN <<0, 0, c + 4, 0, 0>> ELSE IF c = l[1] THEN <<0, 0, 0, 62, 0>>
          ELSE IF c = l[2] THEN <<0, 0, 0, 0, 63>> ELSE <<0, 0, 0, 0, 0>>
  BY <1>1, <1>5, <1>6
<1> HIDE DEF l, m
<1>9. x = IF Rank(c, variant) = 255 THEN 0 ELSE Rank(c, variant)
  <2> DEFINE k == IF Rank(c, variant) = 255 THEN 0 ELSE Rank(c, variant)
  <2>1. k \in 0..255
    BY <1>2
  <2>2. \/ m = <<k, 0, 0, 0, 0>> \/ m = <<0, k, 0, 0, 0>> \/ m = <<0, 0, k, 0, 0>>
        \/ m = <<0, 0, 0, k, 0>> \/ m = <<0, 0, 0, 0, k>>
    BY <1>2, <1>8
  <2> HIDE DEF k
  <2>3. AnyOf(m) = k
    BY <2>1, <2>2, AnyOfOne, Zenon
  <2> QED
    BY <1>4, <2>3 DEF k
<1> HIDE DEF x
<1>10. Rank(c, variant) \in 0..255 /\ (c = 65 => Rank(c, variant) = 0) /\ (Rank(c, variant) = 0 => c = 65)
  BY <1>1, <1>2
<1>11. x \in 0..255 /\ 0 \in 0..255 /\ 255 \in 0..255
  BY <1>9, <1>10
<1>12. EQ(x, 0) = IF x = 0 THEN 255 ELSE 0
  BY <1>11, Equals, Zenon
<1>13. /\ And8(255, 255) = 255 /\ And8(255, 0) = 0 /\ And8(0, 255) = 0 /\ And8(0, 0) = 0
       /\ Or8(0, 255) = 255 /\ Or8(x, 0) = x
  BY <1>11, Flags, Zenon
<1>14. CASE Rank(c, variant) = 255
  <2>1. x = 0 /\ c # 65
    BY <1>9, <1>10, <1>14
  <2>2. EQ(x, 0) = 255 /\ 255 - EQ(c, 65) = 255
    BY <1>7, <1>12, <2>1
  <2> QED
    BY <1>3, <1>13, <1>14, <2>1, <2>2
<1>15. CASE Rank(c, variant) # 255
  <2>1. x = Rank(c, variant)
    BY <1>9, <1>15
  <2>2. And8(EQ(x, 0), 255 - EQ(c, 65)) = 0
    <3>1. CASE x = 0
      <4>1. c = 65
        BY <1>10, <2>1, <3>1
      <4>2. 255 - EQ(c, 65) = 0 /\ EQ(x, 0) = 255
        BY <1>7, <1>12, <3>1, <4>1
      <4> QED
        BY <1>13, <4>2
    <3>2. CASE x # 0
      <4>1. 255 - EQ(c, 65) \in {0, 255} /\ EQ(x, 0) = 0
        BY <1>7, <1>12, <3>2
      <4> QED
        BY <1>13, <4>1
    <3> QED
      BY <3>1, <3>2
  <2> QED
    BY <1>3, <1>13, <2>1, <2>2
<1> QED
  BY <1>14, <1>15

-----------------------------------------------------------------------------
(* Bytes as numbers of 6 bits.                                             *)

\* 6 bits of a byte a that b follows.
Shifted(a, b) ==
    /\ ((256 * a + b) \div 1024) % 64 = a \div 4
    /\ ((256 * a + b) \div 256) % 64 = a % 64
    /\ ((256 * a + b) \div 64) % 64 = 4 * (a % 16) + (b \div 64)
    /\ ((256 * a + b) \div 16) % 64 = 16 * (a % 4) + (b \div 16)
    /\ ((256 * a + b) \div 4) % 64 = b \div 4
    /\ ((256 * a + b) \div 1) % 64 = b % 64
LEMMA ShiftedPair ==
    ASSUME NEW a \in 0..255, NEW b \in 0..255
    PROVE  Shifted(a, b)
<1>1. ((256 * a + b) \div 1024) % 64 = a \div 4 /\ ((256 * a + b) \div 256) % 64 = a % 64
  OBVIOUS
<1>2. ((256 * a + b) \div 64) % 64 = 4 * (a % 16) + (b \div 64)
  OBVIOUS
<1>3. ((256 * a + b) \div 16) % 64 = 16 * (a % 4) + (b \div 16)
  OBVIOUS
<1>4. ((256 * a + b) \div 4) % 64 = b \div 4
  OBVIOUS
<1>5. (256 * a + b) \div 1 = 256 * a + b /\ (256 * a + b) % 64 = b % 64
  OBVIOUS
<1> QED
  BY <1>1, <1>2, <1>3, <1>4, <1>5 DEF Shifted
\* What they make is 6 bits.
InSixes(a, b) ==
    /\ 4 * (a % 16) + (b \div 64) \in 0..63 /\ 16 * (a % 4) + (b \div 16) \in 0..63
    /\ b \div 4 \in 0..63 /\ b % 64 \in 0..63
LEMMA SixesInRange ==
    ASSUME NEW a \in 0..255, NEW b \in 0..255
    PROVE  InSixes(a, b)
BY DEF InSixes

\* What is left of a word by a byte more.
WordShifted(x, b) ==
    /\ x % 256 \in 0..255 /\ (x * 256 + b) % Uint = 256 * (x % 256) + b
    /\ (x % 256) % 4 = x % 4 /\ (x % 256) % 16 = x % 16
    /\ (x * 256 + b) % Uint \in 0..Uint-1
LEMMA ShiftedWord ==
    ASSUME NEW x \in 0..Uint-1, NEW b \in 0..255
    PROVE  WordShifted(x, b)
<1>1. x \in Int /\ (x \div 256) \in Int /\ (x % 256) \in 0..255 /\ x = 256 * (x \div 256) + (x % 256)
  BY SMTT(30) DEF Uint
<1>2. x * 256 + b = 65536 * (x \div 256) + (256 * (x % 256) + b)
  BY <1>1, SMT
<1>3. (x % 256) % 4 = x % 4 /\ (x % 256) % 16 = x % 16
  <2>1. x \in Nat
    BY SMT DEF Uint
  <2> QED
    BY <2>1
<1> DEFINE h == x \div 256  l == x % 256
<1>4. h \in Int /\ l \in 0..255
  BY <1>1
<1> HIDE DEF h, l
<1>5. (65536 * h + (256 * l + b)) % 65536 = 256 * l + b
  BY <1>4, SMT
<1>6. (x * 256 + b) % Uint = 256 * (x % 256) + b
  <2>1. (Uint * h + (256 * l + b)) % Uint = 256 * l + b
    BY <1>5, SMT DEF Uint
  <2>2. x * 256 + b = Uint * h + (256 * l + b)
    BY <1>2, SMT DEF Uint, h, l
  <2> QED
    BY <2>1, <2>2, Zenon DEF l
<1>7. (x * 256 + b) % Uint \in 0..Uint-1
  <2> DEFINE z == (x * 256 + b) % Uint
  <2>1. z = 256 * l + b
    BY <1>6 DEF l
  <2> HIDE DEF z
  <2>2. z \in Int /\ 0 <= z /\ z <= 65535
    BY <1>4, <2>1, SMT
  <2>3. z \in 0..Uint-1
    BY <2>2, InWord
  <2> QED
    BY <2>3 DEF z
<1> QED
  BY <1>1, <1>3, <1>6, <1>7 DEF WordShifted

\* How many numbers of 6 bits are complete in k bytes.
InThirds(k) ==
    LET q == k \div 3 m == (4 * k) \div 3
    IN /\ q \in Nat /\ m \in Nat
       /\ k % 3 = 0 => m = 4 * q /\ (4 * (k + 1)) \div 3 = m + 1 /\ (k + 1) % 3 = 1 /\ k = 3 * q
       /\ k % 3 = 1 => m = 4 * q + 1 /\ (4 * (k + 1)) \div 3 = m + 1 /\ (k + 1) % 3 = 2 /\ k = 3 * q + 1
       /\ k % 3 = 2 => m = 4 * q + 2 /\ (4 * (k + 1)) \div 3 = m + 2 /\ (k + 1) % 3 = 0 /\ k = 3 * q + 2
LEMMA ThirdsOf ==
    ASSUME NEW k \in Nat
    PROVE  InThirds(k)
<1> DEFINE q == k \div 3
<1>1. q \in Nat /\ k % 3 \in 0..2 /\ k = 3 * q + (k % 3)
  OBVIOUS
<1> HIDE DEF q
<1>2. CASE k % 3 = 0
  <2>1. k = 3 * q
    BY <1>1, <1>2
  <2>2. (4 * k) \div 3 = 4 * q /\ (4 * (k + 1)) \div 3 = 4 * q + 1 /\ (k + 1) % 3 = 1
    BY <1>1, <2>1
  <2> QED
    BY <1>1, <1>2, <2>1, <2>2 DEF q, InThirds
<1>3. CASE k % 3 = 1
  <2>1. k = 3 * q + 1
    BY <1>1, <1>3
  <2>2. (4 * k) \div 3 = 4 * q + 1 /\ (4 * (k + 1)) \div 3 = 4 * q + 1 + 1 /\ (k + 1) % 3 = 2
    BY <1>1, <2>1
  <2> QED
    BY <1>1, <1>3, <2>1, <2>2 DEF q, InThirds
<1>4. CASE k % 3 = 2
  <2>1. k = 3 * q + 2
    BY <1>1, <1>4
  <2>2. (4 * k) \div 3 = 4 * q + 2 /\ (4 * (k + 1)) \div 3 = 4 * q + 2 + 2 /\ (k + 1) % 3 = 0
    BY <1>1, <2>1
  <2> QED
    BY <1>1, <1>4, <2>1, <2>2 DEF q, InThirds
<1> QED
  BY <1>1, <1>2, <1>3, <1>4 DEF InThirds

\* The byte at k, and zeros after the last.
ByteAt(bin, k) == IF k > Len(bin) THEN 0 ELSE bin[k]
SixBitsOf(bin, q) ==
    /\ SixBits(bin, 4 * q) = ByteAt(bin, 3 * q + 1) \div 4
    /\ SixBits(bin, 4 * q + 1) = 16 * (ByteAt(bin, 3 * q + 1) % 4) + (ByteAt(bin, 3 * q + 2) \div 16)
    /\ SixBits(bin, 4 * q + 2) = 4 * (ByteAt(bin, 3 * q + 2) % 16) + (ByteAt(bin, 3 * q + 3) \div 64)
    /\ SixBits(bin, 4 * q + 3) = ByteAt(bin, 3 * q + 3) % 64

\* Three bytes are four numbers.
LEMMA ByteAtIsByte ==
    ASSUME NEW n \in Nat, NEW bin \in Bytes(n), NEW k \in Nat \ {0}
    PROVE  ByteAt(bin, k) \in 0..255
<1>1. Len(bin) = n
  BY LenOfBytes
<1>2. k <= n => bin[k] \in 0..255
  BY DEF Bytes
<1> QED
  BY <1>1, <1>2 DEF ByteAt

\* Three bytes are four numbers.
LEMMA FourOfThree ==
    ASSUME NEW n \in Nat, NEW bin \in Bytes(n), NEW q \in Nat
    PROVE  SixBitsOf(bin, q)
<1> DEFINE a == ByteAt(bin, 3 * q + 1)  b == ByteAt(bin, 3 * q + 2)  c == ByteAt(bin, 3 * q + 3)  d == ByteAt(bin, 3 * q + 4)
<1>1. a \in 0..255 /\ b \in 0..255 /\ c \in 0..255 /\ d \in 0..255
  BY ByteAtIsByte
<1>3. /\ (6 * (4 * q)) \div 8 = 3 * q /\ (6 * (4 * q)) % 8 = 0
      /\ (6 * (4 * q + 1)) \div 8 = 3 * q /\ (6 * (4 * q + 1)) % 8 = 6
      /\ (6 * (4 * q + 2)) \div 8 = 3 * q + 1 /\ (6 * (4 * q + 2)) % 8 = 4
      /\ (6 * (4 * q + 3)) \div 8 = 3 * q + 2 /\ (6 * (4 * q + 3)) % 8 = 2
  OBVIOUS
<1>4. 2^(10 - 0) = 1024 /\ 2^(10 - 6) = 16 /\ 2^(10 - 4) = 64 /\ 2^(10 - 2) = 256
  OBVIOUS
<1>5. /\ 4 * q \in Nat /\ 4 * q + 1 \in Nat /\ 4 * q + 2 \in Nat /\ 4 * q + 3 \in Nat
      /\ 3 * q \in Nat /\ 3 * q + 1 \in Nat /\ 3 * q + 2 \in Nat
      /\ 3 * q + 0 = 3 * q /\ 3 * q + 1 + 1 = 3 * q + 2 /\ 3 * q + 2 + 1 = 3 * q + 3 /\ 3 * q + 2 + 1 + 1 = 3 * q + 4
  OBVIOUS
<1>6. SixBits(bin, 4 * q) = a \div 4
  <2>1. SixBits(bin, 4 * q) = ((256 * ByteAt(bin, 3 * q + 1) + ByteAt(bin, 3 * q + 1 + 1)) \div 2^(10 - 0)) % 64
    BY <1>3, <1>5, Zenon DEF SixBits, ByteAt
  <2>2. SixBits(bin, 4 * q) = ((256 * a + b) \div 1024) % 64
    BY <1>4, <2>1
  <2>3. Shifted(a, b)
    BY <1>1, ShiftedPair, Zenon
  <2> HIDE DEF a, b
  <2> QED
    BY <2>2, <2>3 DEF Shifted
<1>7. SixBits(bin, 4 * q + 1) = 16 * (a % 4) + (b \div 16)
  <2>1. SixBits(bin, 4 * q + 1) = ((256 * ByteAt(bin, 3 * q + 1) + ByteAt(bin, 3 * q + 1 + 1)) \div 2^(10 - 6)) % 64
    BY <1>3, <1>5, Zenon DEF SixBits, ByteAt
  <2>2. SixBits(bin, 4 * q + 1) = ((256 * a + b) \div 16) % 64
    BY <1>4, <1>5, <2>1, Zenon
  <2>3. Shifted(a, b)
    BY <1>1, ShiftedPair
  <2> HIDE DEF a, b
  <2> QED
    BY <2>2, <2>3 DEF Shifted
<1>8. SixBits(bin, 4 * q + 2) = 4 * (b % 16) + (c \div 64)
  <2>1. SixBits(bin, 4 * q + 2) = ((256 * ByteAt(bin, 3 * q + 1 + 1) + ByteAt(bin, 3 * q + 1 + 1 + 1)) \div 2^(10 - 4)) % 64
    BY <1>3, <1>5, Zenon DEF SixBits, ByteAt
  <2>2. SixBits(bin, 4 * q + 2) = ((256 * b + c) \div 64) % 64
    BY <1>4, <1>5, <2>1, Zenon
  <2>3. Shifted(b, c)
    BY <1>1, ShiftedPair, Zenon
  <2> HIDE DEF b, c
  <2> QED
    BY <2>2, <2>3 DEF Shifted
<1>9. SixBits(bin, 4 * q + 3) = c % 64
  <2>1. SixBits(bin, 4 * q + 3) = ((256 * ByteAt(bin, 3 * q + 2 + 1) + ByteAt(bin, 3 * q + 2 + 1 + 1)) \div 2^(10 - 2)) % 64
    BY <1>3, <1>5, Zenon DEF SixBits, ByteAt
  <2>2. SixBits(bin, 4 * q + 3) = ((256 * c + d) \div 256) % 64
    BY <1>4, <1>5, <2>1, Zenon
  <2>3. Shifted(c, d)
    BY <1>1, ShiftedPair, Zenon
  <2> HIDE DEF c, d
  <2> QED
    BY <2>2, <2>3 DEF Shifted
<1> QED
  BY <1>6, <1>7, <1>8, <1>9 DEF SixBitsOf

\* Each of them is a number of 6 bits.
LEMMA SixBitsInRange ==
    ASSUME NEW n \in Nat, NEW bin \in Bytes(n), NEW j \in Nat
    PROVE  SixBits(bin, j) \in 0..63
<1> DEFINE q == j \div 4  a == ByteAt(bin, 3 * q + 1)  b == ByteAt(bin, 3 * q + 2)  c == ByteAt(bin, 3 * q + 3)
<1>1. q \in Nat /\ (j = 4 * q \/ j = 4 * q + 1 \/ j = 4 * q + 2 \/ j = 4 * q + 3)
  OBVIOUS
<1> HIDE DEF q
<1>2. a \in 0..255 /\ b \in 0..255 /\ c \in 0..255
  BY <1>1, ByteAtIsByte
<1>3. SixBitsOf(bin, q)
  BY <1>1, FourOfThree
<1>4. /\ SixBits(bin, 4 * q) = a \div 4 /\ SixBits(bin, 4 * q + 1) = 16 * (a % 4) + (b \div 16)
      /\ SixBits(bin, 4 * q + 2) = 4 * (b % 16) + (c \div 64) /\ SixBits(bin, 4 * q + 3) = c % 64
  BY <1>3 DEF SixBitsOf
<1> HIDE DEF a, b, c
<1>5. a \div 4 \in 0..63 /\ 16 * (a % 4) + (b \div 16) \in 0..63 /\ 4 * (b % 16) + (c \div 64) \in 0..63 /\ c % 64 \in 0..63
  BY <1>2
<1> QED
  BY <1>1, <1>4, <1>5

-----------------------------------------------------------------------------
(* The loop of sodium_bin2base64.                                          *)

\* A letter is a character.
LEMMA LettersAreBytes ==
    ASSUME NEW x \in 0..63, NEW variant \in Variants
    PROVE  Alphabet(variant)[x] \in 0..255 /\ Alphabet(variant)[x] \in Letters(variant)
<1>1. Last2(variant) = <<43, 47>> \/ Last2(variant) = <<45, 95>>
  BY DEF Last2
<1> QED
  BY <1>1 DEF Alphabet, Letters

EncStates == [acc : 0..Uint-1, bits : {0, 2, 4}, b64 : Binaries]
EncBegun == [acc |-> 0, bits |-> 0, b64 |-> <<>>]
\* A character more, of x.
Written(q, x, variant) == Append(q, Alphabet(variant)[x])
LEMMA WrittenStays ==
    ASSUME NEW q \in Binaries, NEW x \in 0..63, NEW variant \in Variants
    PROVE  Written(q, x, variant) \in Binaries
<1> DEFINE c == Alphabet(variant)[x]
<1>1. c \in 0..255 /\ q \in Seq(0..255)
  BY LettersAreBytes DEF Binaries
<1> HIDE DEF c
<1>2. Append(q, c) \in Seq(0..255)
  BY <1>1, AppendStays
<1> QED
  BY <1>2, Zenon DEF Binaries, Written, c

\* A turn writes the 6 bits that are complete, and keeps the others.
EncTurned(s, b, variant, t) ==
    LET a == (s.acc * 256 + b) % Uint
    IN t = IF s.bits = 0 THEN [acc |-> a, bits |-> 2, b64 |-> Written(s.b64, b \div 4, variant)]
           ELSE IF s.bits = 2 THEN [acc |-> a, bits |-> 4, b64 |-> Written(s.b64, 16 * (s.acc % 4) + (b \div 16), variant)]
           ELSE [acc |-> a, bits |-> 0, b64 |-> Written(Written(s.b64, 4 * (s.acc % 16) + (b \div 64), variant), b % 64, variant)]
SextetIs(a, k, q, variant) ==
    Sextet([acc |-> a, bits |-> k, b64 |-> q], variant) =
      IF k < 6 THEN [acc |-> a, bits |-> k, b64 |-> q]
      ELSE [acc |-> a, bits |-> k - 6, b64 |-> Append(q, b64_byte_to_char((a \div 2^(k - 6)) % 64, variant))]
LEMMA SextetOf ==
    ASSUME NEW a, NEW k, NEW q, NEW variant
    PROVE  SextetIs(a, k, q, variant)
BY DEF Sextet, SextetIs

\* A turn of the loop of sodium_bin2base64.
LEMMA EncTurn ==
    ASSUME NEW s \in EncStates, NEW b \in 0..255, NEW variant \in Variants
    PROVE  EncTurned(s, b, variant, EncodeTurn(s, b, variant)) /\ EncodeTurn(s, b, variant) \in EncStates
<1> DEFINE a == (s.acc * 256 + b) % Uint
           first == [acc |-> a, bits |-> s.bits + 8, b64 |-> s.b64]
           t == EncodeTurn(s, b, variant)
<1>1. s.acc \in 0..Uint-1 /\ s.bits \in {0, 2, 4} /\ s.b64 \in Binaries
  BY SMT DEF EncStates
<1>2. t = Sextet(Sextet(first, variant), variant)
  BY DEF EncodeTurn
<1> DEFINE l == s.acc % 256
<1>b. l \in 0..255 /\ a = 256 * l + b /\ l % 4 = s.acc % 4 /\ l % 16 = s.acc % 16
  <2>1. WordShifted(s.acc, b)
    BY <1>1, ShiftedWord, Zenon
  <2> QED
    BY <2>1 DEF WordShifted
<1>f. Shifted(l, b)
  BY <1>b, ShiftedPair, Zenon
<1>c. a \in 0..Uint-1
  <2>1. WordShifted(s.acc, b)
    BY <1>1, ShiftedWord
  <2> QED
    BY <2>1 DEF WordShifted
<1> HIDE DEF a, l
<1>3. /\ (a \div 4) % 64 = b \div 4
      /\ (a \div 16) % 64 = 16 * (s.acc % 4) + (b \div 16)
      /\ (a \div 64) % 64 = 4 * (s.acc % 16) + (b \div 64)
      /\ (a \div 1) % 64 = b % 64
  BY <1>b, <1>f DEF Shifted
<1>4. /\ b \div 4 \in 0..63 /\ 16 * (s.acc % 4) + (b \div 16) \in 0..63
      /\ 4 * (s.acc % 16) + (b \div 64) \in 0..63 /\ b % 64 \in 0..63
  <2>1. InSixes(l, b)
    BY <1>b, SixesInRange, Zenon
  <2> QED
    BY <1>b, <2>1 DEF InSixes
<1>e. \A x \in 0..63 : b64_byte_to_char(x, variant) = Alphabet(variant)[x]
  BY CharacterOfNumber
<1>a. 2^0 = 1 /\ 2^2 = 4 /\ 2^4 = 16 /\ 2^6 = 64
  OBVIOUS
<1> HIDE DEF t
<1>5. CASE s.bits = 0
  <2> DEFINE q == Append(s.b64, b64_byte_to_char((a \div 2^2) % 64, variant))
  <2>1. q = Written(s.b64, b \div 4, variant)
    <3>1. (a \div 2^2) % 64 = b \div 4
      BY <1>3, <1>a
    <3>2. b64_byte_to_char(b \div 4, variant) = Alphabet(variant)[b \div 4]
      BY <1>4, <1>e
    <3> QED
      BY <3>1, <3>2 DEF Written
  <2>2. SextetIs(a, 8, s.b64, variant) /\ SextetIs(a, 2, q, variant)
    BY SextetOf
  <2>3. first = [acc |-> a, bits |-> 8, b64 |-> s.b64]
    BY <1>5
  <2> HIDE DEF q
  <2>4. Sextet(first, variant) = [acc |-> a, bits |-> 2, b64 |-> q]
    <3>1. 8 - 6 = 2 /\ ~(8 < 6)
      OBVIOUS
    <3> QED
      BY <2>2, <2>3, <3>1 DEF SextetIs, q
  <2>5. t = [acc |-> a, bits |-> 2, b64 |-> q]
    BY <1>2, <2>2, <2>4 DEF SextetIs
  <2>6. q \in Binaries
    BY <1>1, <1>4, <2>1, WrittenStays
  <2>7. t \in EncStates
    BY <1>c, <2>5, <2>6, SMT DEF EncStates
  <2> QED
    BY <1>5, <2>1, <2>5, <2>7 DEF EncTurned, a, t
<1>6. CASE s.bits = 2
  <2> DEFINE q == Append(s.b64, b64_byte_to_char((a \div 2^4) % 64, variant))
  <2>1. q = Written(s.b64, 16 * (s.acc % 4) + (b \div 16), variant)
    <3>1. (a \div 2^4) % 64 = 16 * (s.acc % 4) + (b \div 16)
      BY <1>3, <1>a
    <3>2. b64_byte_to_char(16 * (s.acc % 4) + (b \div 16), variant) = Alphabet(variant)[16 * (s.acc % 4) + (b \div 16)]
      BY <1>4, <1>e
    <3> QED
      BY <3>1, <3>2 DEF Written
  <2>2. SextetIs(a, 10, s.b64, variant) /\ SextetIs(a, 4, q, variant)
    BY SextetOf
  <2>3. first = [acc |-> a, bits |-> 10, b64 |-> s.b64]
    BY <1>6
  <2> HIDE DEF q
  <2>4. Sextet(first, variant) = [acc |-> a, bits |-> 4, b64 |-> q]
    <3>1. 10 - 6 = 4 /\ ~(10 < 6)
      OBVIOUS
    <3> QED
      BY <2>2, <2>3, <3>1 DEF SextetIs, q
  <2>5. t = [acc |-> a, bits |-> 4, b64 |-> q]
    BY <1>2, <2>2, <2>4 DEF SextetIs
  <2>6. q \in Binaries
    BY <1>1, <1>4, <2>1, WrittenStays
  <2>7. t \in EncStates
    BY <1>c, <2>5, <2>6, SMT DEF EncStates
  <2> QED
    BY <1>6, <2>1, <2>5, <2>7 DEF EncTurned, a, t
<1>7. CASE s.bits = 4
  <2> DEFINE q == Append(s.b64, b64_byte_to_char((a \div 2^6) % 64, variant))
             r == Append(q, b64_byte_to_char((a \div 2^0) % 64, variant))
             v == Written(s.b64, 4 * (s.acc % 16) + (b \div 64), variant)
  <2>1. q = v /\ r = Written(q, b % 64, variant)
    <3>1. (a \div 2^6) % 64 = 4 * (s.acc % 16) + (b \div 64) /\ (a \div 2^0) % 64 = b % 64
      BY <1>3, <1>a
    <3>2. /\ b64_byte_to_char(4 * (s.acc % 16) + (b \div 64), variant) = Alphabet(variant)[4 * (s.acc % 16) + (b \div 64)]
          /\ b64_byte_to_char(b % 64, variant) = Alphabet(variant)[b % 64]
      BY <1>4, <1>e
    <3> QED
      BY <3>1, <3>2 DEF Written
  <2>2. SextetIs(a, 12, s.b64, variant) /\ SextetIs(a, 6, q, variant)
    BY SextetOf
  <2>3. first = [acc |-> a, bits |-> 12, b64 |-> s.b64]
    BY <1>7
  <2>9. v \in Binaries
    BY <1>1, <1>4, WrittenStays
  <2> HIDE DEF q, r, v
  <2>4. Sextet(first, variant) = [acc |-> a, bits |-> 6, b64 |-> q]
    <3>1. 12 - 6 = 6 /\ ~(12 < 6)
      OBVIOUS
    <3> QED
      BY <2>2, <2>3, <3>1 DEF SextetIs, q
  <2>5. t = [acc |-> a, bits |-> 0, b64 |-> r]
    <3>1. 6 - 6 = 0 /\ ~(6 < 6)
      OBVIOUS
    <3> QED
      BY <1>2, <2>2, <2>4, <3>1 DEF SextetIs, r
  <2>6. r \in Binaries
    BY <1>4, <2>1, <2>9, WrittenStays
  <2>7. t \in EncStates
    BY <1>c, <2>5, <2>6, SMT DEF EncStates
  <2> QED
    BY <1>7, <2>1, <2>5, <2>7 DEF EncTurned, a, t, v
<1> QED
  BY <1>1, <1>5, <1>6, <1>7

\* What k turns have written, and what they have left over.
Writing(bin, k, s, variant) ==
    /\ s \in EncStates
    /\ s.bits = 2 * (k % 3)
    /\ s.bits = 2 => s.acc % 4 = bin[k] % 4
    /\ s.bits = 4 => s.acc % 16 = bin[k] % 16
    /\ Len(s.b64) = (4 * k) \div 3
    /\ \A j \in 1..((4 * k) \div 3) : s.b64[j] = Alphabet(variant)[SixBits(bin, j - 1)]
LEMMA WrittenIs ==
    ASSUME NEW q \in Binaries, NEW x, NEW variant, Alphabet(variant)[x] \in 0..255
    PROVE  /\ Len(Written(q, x, variant)) = Len(q) + 1 /\ Len(q) \in Nat
           /\ \A j \in 1..Len(q) : Written(q, x, variant)[j] = q[j]
           /\ Written(q, x, variant)[Len(q) + 1] = Alphabet(variant)[x]
BY AppendStays DEF Written, Binaries

\* A turn keeps that what is written is that of the bytes so far.
LEMMA EncTurnWrites ==
    ASSUME NEW n \in Nat, NEW bin \in Bytes(n), NEW variant \in Variants,
           NEW k \in 0..n, k < n, NEW s, Writing(bin, k, s, variant)
    PROVE  Writing(bin, k + 1, EncodeTurn(s, bin[k + 1], variant), variant)
<1> DEFINE b == bin[k + 1]  t == EncodeTurn(s, b, variant)  A(j) == Alphabet(variant)[SixBits(bin, j)]
           m == (4 * k) \div 3  q == k \div 3
<1>1. b \in 0..255 /\ Len(bin) = n
  BY LenOfBytes DEF Bytes
<1>2. s \in EncStates /\ s.bits = 2 * (k % 3) /\ (s.bits = 2 => s.acc % 4 = bin[k] % 4) /\ (s.bits = 4 => s.acc % 16 = bin[k] % 16)
      /\ Len(s.b64) = m /\ \A j \in 1..m : s.b64[j] = A(j - 1)
  BY DEF Writing
<1>3. EncTurned(s, b, variant, t) /\ t \in EncStates
  BY <1>1, <1>2, EncTurn
<1>4. s.acc \in 0..Uint-1 /\ s.bits \in {0, 2, 4} /\ s.b64 \in Binaries
  BY <1>2, SMT DEF EncStates
<1>5. SixBitsOf(bin, q) /\ q \in Nat /\ m \in Nat
  BY FourOfThree
<1>6. ASSUME NEW j \in 1..n PROVE ByteAt(bin, j) = bin[j]
  BY <1>1, <1>6 DEF ByteAt
<1>7. \A j \in Nat : A(j) \in 0..255
  BY SixBitsInRange, LettersAreBytes
<1>8. t.acc % 4 = b % 4 /\ t.acc % 16 = b % 16
  <2> DEFINE l == s.acc % 256
  <2>1. t.acc = (s.acc * 256 + b) % Uint
    <3> HIDE DEF b, t
    <3>1. s.bits = 0 => t.acc = (s.acc * 256 + b) % Uint
      BY <1>3 DEF EncTurned
    <3>2. s.bits = 2 => t.acc = (s.acc * 256 + b) % Uint
      BY <1>3 DEF EncTurned
    <3>3. s.bits # 0 /\ s.bits # 2 => t.acc = (s.acc * 256 + b) % Uint
      BY <1>3 DEF EncTurned
    <3> QED
      BY <3>1, <3>2, <3>3
  <2> HIDE DEF b, t
  <2>2. l \in 0..255 /\ t.acc = 256 * l + b
    <3>1. WordShifted(s.acc, b)
      BY <1>1, <1>4, ShiftedWord
    <3> QED
      BY <2>1, <3>1 DEF WordShifted, l
  <2> HIDE DEF l
  <2> QED
    BY <1>1, <2>2
<1>b. b = bin[k + 1] /\ (4 * k) \div 3 = m
  OBVIOUS
<1>c. \A j : A(j) = Alphabet(variant)[SixBits(bin, j)]
  OBVIOUS
<1>d. Writing(bin, k + 1, t, variant) <=>
        /\ t.bits = 2 * ((k + 1) % 3)
        /\ Len(t.b64) = (4 * (k + 1)) \div 3
        /\ \A j \in 1..((4 * (k + 1)) \div 3) : t.b64[j] = A(j - 1)
  BY <1>3, <1>8 DEF Writing
<1>t. InThirds(k)
  BY ThirdsOf
<1> HIDE DEF b, t, A
<1>9. CASE k % 3 = 0
  <2>1. s.bits = 0 /\ m = 4 * q /\ (4 * (k + 1)) \div 3 = m + 1 /\ (k + 1) % 3 = 1 /\ k + 1 = 3 * q + 1
    BY <1>2, <1>9, <1>t DEF InThirds
  <2> HIDE DEF m, q
  <2>2. b = ByteAt(bin, 3 * q + 1)
    BY <1>6, <1>b, <2>1
  <2>3. A(m) = Alphabet(variant)[b \div 4]
    BY <1>5, <1>c, <2>1, <2>2 DEF SixBitsOf
  <2>4. t.bits = 2 /\ t.b64 = Written(s.b64, b \div 4, variant)
    BY <1>3, <2>1 DEF EncTurned
  <2>5. Len(t.b64) = m + 1 /\ (\A j \in 1..m : t.b64[j] = s.b64[j]) /\ t.b64[m + 1] = A(m)
    <3>1. Alphabet(variant)[b \div 4] \in 0..255
      BY <1>5, <1>7, <2>3
    <3>2. Len(Written(s.b64, b \div 4, variant)) = Len(s.b64) + 1
          /\ (\A j \in 1..Len(s.b64) : Written(s.b64, b \div 4, variant)[j] = s.b64[j])
          /\ Written(s.b64, b \div 4, variant)[Len(s.b64) + 1] = Alphabet(variant)[b \div 4]
      BY <1>4, <3>1, WrittenIs
    <3> QED
      BY <1>2, <2>3, <2>4, <3>2
  <2>6. \A j \in 1..m+1 : t.b64[j] = A(j - 1)
    BY <1>2, <1>5, <2>5
  <2> QED
    BY <1>d, <2>1, <2>4, <2>5, <2>6, SMTT(30) DEF t, b
<1>10. CASE k % 3 = 1
  <2>1. s.bits = 2 /\ m = 4 * q + 1 /\ (4 * (k + 1)) \div 3 = m + 1 /\ (k + 1) % 3 = 2 /\ k + 1 = 3 * q + 2 /\ k = 3 * q + 1
    BY <1>2, <1>10, <1>t DEF InThirds
  <2> HIDE DEF m, q
  <2>2. b = ByteAt(bin, 3 * q + 2) /\ bin[k] = ByteAt(bin, 3 * q + 1)
    BY <1>5, <1>6, <1>b, <2>1
  <2>a. s.acc % 4 = ByteAt(bin, 3 * q + 1) % 4
    BY <1>2, <2>1, <2>2
  <2>3. A(m) = Alphabet(variant)[16 * (s.acc % 4) + (b \div 16)]
    BY <1>5, <1>c, <2>1, <2>2, <2>a DEF SixBitsOf
  <2>4. t.bits = 4 /\ t.b64 = Written(s.b64, 16 * (s.acc % 4) + (b \div 16), variant)
    BY <1>3, <2>1 DEF EncTurned
  <2>5. Len(t.b64) = m + 1 /\ (\A j \in 1..m : t.b64[j] = s.b64[j]) /\ t.b64[m + 1] = A(m)
    <3>1. Alphabet(variant)[16 * (s.acc % 4) + (b \div 16)] \in 0..255
      BY <1>5, <1>7, <2>3
    <3>2. Len(Written(s.b64, 16 * (s.acc % 4) + (b \div 16), variant)) = Len(s.b64) + 1
          /\ (\A j \in 1..Len(s.b64) : Written(s.b64, 16 * (s.acc % 4) + (b \div 16), variant)[j] = s.b64[j])
          /\ Written(s.b64, 16 * (s.acc % 4) + (b \div 16), variant)[Len(s.b64) + 1] = Alphabet(variant)[16 * (s.acc % 4) + (b \div 16)]
      BY <1>4, <3>1, WrittenIs
    <3> QED
      BY <1>2, <2>3, <2>4, <3>2
  <2>6. \A j \in 1..m+1 : t.b64[j] = A(j - 1)
    BY <1>2, <1>5, <2>5
  <2> QED
    BY <1>d, <2>1, <2>4, <2>5, <2>6 DEF t, b
<1>11. CASE k % 3 = 2
  <2>1. s.bits = 4 /\ m = 4 * q + 2 /\ (4 * (k + 1)) \div 3 = m + 2 /\ (k + 1) % 3 = 0 /\ k + 1 = 3 * q + 3 /\ k = 3 * q + 2
    <3>1. m = 4 * q + 2 /\ (4 * (k + 1)) \div 3 = m + 2 /\ (k + 1) % 3 = 0 /\ k = 3 * q + 2
      BY <1>11, <1>t DEF InThirds
    <3> QED
      BY <1>2, <1>5, <1>11, <3>1
  <2> HIDE DEF m, q
  <2>2. b = ByteAt(bin, 3 * q + 3) /\ bin[k] = ByteAt(bin, 3 * q + 2)
    BY <1>5, <1>6, <1>b, <2>1
  <2>a. s.acc % 16 = ByteAt(bin, 3 * q + 2) % 16
    BY <1>2, <2>1, <2>2
  <2> DEFINE v == Written(s.b64, 4 * (s.acc % 16) + (b \div 64), variant)
  <2>3. A(m) = Alphabet(variant)[4 * (s.acc % 16) + (b \div 64)]
    BY <1>5, <1>c, <2>1, <2>2, <2>a DEF SixBitsOf
  <2>b. A(m + 1) = Alphabet(variant)[b % 64]
    <3>1. m + 1 = 4 * q + 3
      BY <1>5, <2>1
    <3> QED
      BY <1>5, <1>c, <2>2, <3>1 DEF SixBitsOf
  <2>4. t.bits = 0 /\ t.b64 = Written(v, b % 64, variant)
    BY <1>3, <2>1 DEF EncTurned
  <2>5. v \in Binaries /\ Len(v) = m + 1 /\ (\A j \in 1..m : v[j] = s.b64[j]) /\ v[m + 1] = A(m)
    <3>1. Alphabet(variant)[4 * (s.acc % 16) + (b \div 64)] \in 0..255
      BY <1>5, <1>7, <2>3
    <3>2. 4 * (s.acc % 16) + (b \div 64) \in 0..63
      <4>1. s.acc % 256 \in 0..255 /\ (s.acc % 256) % 16 = s.acc % 16
        <5>1. WordShifted(s.acc, b)
          BY <1>1, <1>4, ShiftedWord
        <5> QED
          BY <5>1 DEF WordShifted
      <4>2. InSixes(s.acc % 256, b)
        BY <1>1, <4>1, SixesInRange, Zenon
      <4> QED
        BY <4>1, <4>2 DEF InSixes
    <3>3. v \in Binaries
      BY <1>4, <3>2, WrittenStays
    <3>4. Len(v) = Len(s.b64) + 1 /\ (\A j \in 1..Len(s.b64) : v[j] = s.b64[j])
          /\ v[Len(s.b64) + 1] = Alphabet(variant)[4 * (s.acc % 16) + (b \div 64)]
      <4> DEFINE x == 4 * (s.acc % 16) + (b \div 64)
      <4>1. v = Written(s.b64, x, variant) /\ Alphabet(variant)[x] \in 0..255
        BY <3>1
      <4> HIDE DEF v, x
      <4>2. Len(v) = Len(s.b64) + 1 /\ (\A j \in 1..Len(s.b64) : v[j] = s.b64[j])
            /\ v[Len(s.b64) + 1] = Alphabet(variant)[x]
        BY <1>4, <4>1, WrittenIs
      <4> QED
        BY <4>2 DEF x
    <3> QED
      BY <1>2, <2>3, <3>3, <3>4
  <2> HIDE DEF v
  <2>6. Len(t.b64) = m + 2 /\ (\A j \in 1..m+1 : t.b64[j] = v[j]) /\ t.b64[m + 2] = A(m + 1)
    <3>1. Alphabet(variant)[b % 64] \in 0..255
      BY <1>5, <1>7, <2>b
    <3>2. Len(Written(v, b % 64, variant)) = Len(v) + 1
          /\ (\A j \in 1..Len(v) : Written(v, b % 64, variant)[j] = v[j])
          /\ Written(v, b % 64, variant)[Len(v) + 1] = Alphabet(variant)[b % 64]
      BY <2>5, <3>1, WrittenIs
    <3>3. Len(v) + 1 = m + 2
      BY <1>5, <2>5
    <3> QED
      BY <2>4, <2>5, <2>b, <3>2, <3>3
  <2>7. \A j \in 1..m+2 : t.b64[j] = A(j - 1)
    BY <1>2, <1>5, <2>5, <2>6
  <2> QED
    BY <1>d, <2>1, <2>4, <2>6, <2>7 DEF t, b
<1> QED
  BY <1>9, <1>10, <1>11

-----------------------------------------------------------------------------
(* Sequences of bytes.                                                     *)

LEMMA ElementOf ==
    ASSUME NEW S, NEW q \in Seq(S), NEW j \in 1..Len(q)
    PROVE  q[j] \in S
OBVIOUS

\* A sequence of bytes is a function of them.
LEMMA BinariesAreBytes ==
    ASSUME NEW q \in Binaries
    PROVE  Len(q) \in Nat /\ q \in Bytes(Len(q)) /\ q = [j \in 1..Len(q) |-> q[j]] /\ \A j \in 1..Len(q) : q[j] \in 0..255
<1>1. Len(q) \in Nat /\ \A j \in 1..Len(q) : q[j] \in 0..255
  <2>1. q \in Seq(0..255)
    BY DEF Binaries
  <2>2. \A j \in 1..Len(q) : q[j] \in 0..255
    BY <2>1, ElementOf
  <2> QED
    BY <2>1, <2>2
<1>2. q = [j \in 1..Len(q) |-> q[j]]
  BY DEF Binaries
<1>3. q \in Bytes(Len(q))
  BY <1>1, <1>2 DEF Bytes
<1> QED
  BY <1>1, <1>2, <1>3

\* And such a function is a sequence.
LEMMA BytesAreBinaries ==
    ASSUME NEW n \in Nat, NEW q \in Bytes(n)
    PROVE  q \in Binaries /\ Len(q) = n
BY DEF Binaries, Bytes

\* Sequences of the same bytes are the same.
LEMMA Alike ==
    ASSUME NEW q \in Binaries, NEW r \in Binaries, Len(q) = Len(r), \A j \in 1..Len(q) : q[j] = r[j]
    PROVE  q = r
BY DEF Binaries

Lengthened(q, b) ==
    /\ Append(q, b) \in Binaries /\ Len(Append(q, b)) = Len(q) + 1
    /\ \A j \in 1..Len(q) : Append(q, b)[j] = q[j]
    /\ Append(q, b)[Len(q) + 1] = b
LEMMA OneMore ==
    ASSUME NEW q \in Binaries, NEW b \in 0..255
    PROVE  Lengthened(q, b)
<1>1. q \in Seq(0..255)
  BY DEF Binaries
<1>2. Append(q, b) \in Seq(0..255)
  BY <1>1, AppendStays
<1>3. /\ Len(Append(q, b)) = Len(q) + 1
      /\ \A j \in 1..Len(q) : Append(q, b)[j] = q[j]
      /\ Append(q, b)[Len(q) + 1] = b
  BY <1>1, AppendStays
<1> QED
  BY <1>2, <1>3 DEF Lengthened, Binaries

\* The bytes of two sequences.
LEMMA Joined ==
    ASSUME NEW q \in Binaries, NEW r \in Binaries
    PROVE  /\ q \o r \in Binaries /\ Len(q \o r) = Len(q) + Len(r) /\ Len(q) \in Nat /\ Len(r) \in Nat
           /\ \A j \in 1..Len(q) : (q \o r)[j] = q[j]
           /\ \A j \in 1..Len(r) : (q \o r)[Len(q) + j] = r[j]
BY DEF Binaries

\* A byte over and over.
LEMMA Repeated ==
    ASSUME NEW n \in Nat, NEW x \in 0..255
    PROVE  [k \in 1..n |-> x] \in Binaries /\ Len([k \in 1..n |-> x]) = n
BY DEF Binaries

\* The bytes of a beginning.
LEMMA BeginningOf ==
    ASSUME NEW q \in Binaries, NEW n \in 0..Len(q)
    PROVE  SubSeq(q, 1, n) \in Binaries /\ Len(SubSeq(q, 1, n)) = n /\ \A j \in 1..n : SubSeq(q, 1, n)[j] = q[j]
<1>a. Len(q) \in Nat /\ \A j \in 1..Len(q) : q[j] \in 0..255
  BY BinariesAreBytes
<1>1. n \in Nat /\ \A j \in 1..n : q[j] \in 0..255
  BY <1>a
<1>2. SubSeq(q, 1, n) = [j \in 1..n |-> q[j]]
  BY <1>1 DEF Binaries
<1> DEFINE r == [j \in 1..n |-> q[j]]
<1>3. r \in Bytes(n) /\ \A j \in 1..n : r[j] = q[j]
  BY <1>1 DEF Bytes
<1> HIDE DEF r
<1>4. r \in Binaries /\ Len(r) = n
  BY <1>1, <1>3, BytesAreBinaries
<1> QED
  BY <1>2, <1>3, <1>4 DEF r

-----------------------------------------------------------------------------
(* The whole of sodium_bin2base64.                                         *)

EncTurns(bin, variant, d) ==
    d[0] = EncBegun /\ \A k \in 1..Len(bin) : d[k] = EncodeTurn(d[k - 1], bin[k], variant)
\* What comes of the last turn.
EncDone(s, bin, variant, maxlen) ==
    LET b64_len == EncodedLen(Len(bin), variant)
        code == IF s.bits = 0 THEN s.b64 ELSE Append(s.b64, b64_byte_to_char((s.acc * 2^(6 - s.bits)) % 64, variant))
    IN code \o [k \in 1..(b64_len - Len(code)) |-> 61] \o [k \in 1..(maxlen - b64_len) |-> 0]
EncLoopOf(bin, variant) ==
    \E d : /\ EncTurns(bin, variant, d)
           /\ \A maxlen : sodium_bin2base64(maxlen, bin, variant) =
                IF ~sodium_base64_check_variant(variant) \/ maxlen <= EncodedLen(Len(bin), variant) THEN <<Misused>>
                ELSE EncDone(d[Len(bin)], bin, variant, maxlen)

LEMMA EncLoop ==
    ASSUME NEW n \in Nat, NEW bin \in Bytes(n), NEW variant \in Variants
    PROVE  EncLoopOf(bin, variant)
<1> DEFINE V == EncStates
           st == [p \in (1..n) \X V |-> EncodeTurn(p[2], bin[p[1]], variant)]
           F(g) == [k \in 0..n |-> IF k = 0 THEN [acc |-> 0, bits |-> 0, b64 |-> <<>>] ELSE EncodeTurn(g[k - 1], bin[k], variant)]
           d == CHOOSE g : g = F(g)
<1>0. Len(bin) = n
  BY LenOfBytes
<1>1. st \in Steps(n, V)
  <2>1. ASSUME NEW k \in 1..n, NEW s \in V PROVE EncodeTurn(s, bin[k], variant) \in V
    <3>1. bin[k] \in 0..255
      BY DEF Bytes
    <3> QED
      BY <3>1, EncTurn, Zenon
  <2> HIDE DEF V
  <2> QED
    BY <2>1 DEF Steps
<1>2. \E g \in [0..n -> V] : g = Turns(g, n, EncBegun, st)
  <2>1. EncBegun \in V
    <3>1. 0 \in 0..Uint-1 /\ <<>> \in Binaries
      BY UintIsNat DEF Binaries
    <3> QED
      BY <3>1 DEF EncBegun, EncStates
  <2> HIDE DEF V, st
  <2> QED
    BY <1>1, <2>1, LoopExists
<1>3. \E g : g = F(g)
  <2>1. PICK g \in [0..n -> V] : g = Turns(g, n, EncBegun, st)
    BY <1>2
  <2>2. \A k \in 0..n : k # 0 => st[<<k, g[k - 1]>>] = EncodeTurn(g[k - 1], bin[k], variant)
    <3> SUFFICES ASSUME NEW k \in 0..n, k # 0 PROVE st[<<k, g[k - 1]>>] = EncodeTurn(g[k - 1], bin[k], variant)
      OBVIOUS
    <3>1. k \in 1..n /\ k - 1 \in 0..n
      OBVIOUS
    <3>2. g[k - 1] \in V
      BY <3>1
    <3> HIDE DEF V
    <3> QED
      BY <3>1, <3>2
  <2> HIDE DEF st
  <2>3. Turns(g, n, EncBegun, st) = F(g)
    BY <2>2 DEF Turns, EncBegun
  <2> QED
    BY <2>1, <2>3
<1>4. d = F(d)
  BY <1>3
<1>5. d[0] = EncBegun /\ \A k \in 1..n : d[k] = EncodeTurn(d[k - 1], bin[k], variant)
  <2> HIDE DEF d
  <2>1. F(d)[0] = EncBegun /\ \A k \in 1..n : F(d)[k] = EncodeTurn(d[k - 1], bin[k], variant)
    BY DEF EncBegun
  <2> HIDE DEF F
  <2> QED
    BY <1>4, <2>1
<1>6. \A maxlen : sodium_bin2base64(maxlen, bin, variant) =
        IF ~sodium_base64_check_variant(variant) \/ maxlen <= EncodedLen(Len(bin), variant) THEN <<Misused>>
        ELSE EncDone(d[n], bin, variant, maxlen)
  BY <1>0 DEF sodium_bin2base64, EncDone
<1> HIDE DEF d
<1>7. EncTurns(bin, variant, d)
  BY <1>0, <1>5 DEF EncTurns
<1> QED
  BY <1>0, <1>6, <1>7 DEF EncLoopOf

\* So all turns write those of all bytes.
LEMMA EncTurnsWrite ==
    ASSUME NEW n \in Nat, NEW bin \in Bytes(n), NEW variant \in Variants, NEW d, EncTurns(bin, variant, d)
    PROVE  Writing(bin, n, d[n], variant)
<1> DEFINE S == {k \in 0..n : Writing(bin, k, d[k], variant)}
<1>0. Len(bin) = n
  BY LenOfBytes
<1>1. 0 \in S
  <2>1. d[0] = EncBegun
    BY DEF EncTurns
  <2>2. EncBegun \in EncStates
    <3>1. 0 \in 0..Uint-1 /\ <<>> \in Binaries
      BY UintIsNat DEF Binaries
    <3> QED
      BY <3>1 DEF EncBegun, EncStates
  <2>3. 0 % 3 = 0 /\ (4 * 0) \div 3 = 0
    OBVIOUS
  <2>4. Writing(bin, 0, EncBegun, variant)
    BY <2>2, <2>3 DEF Writing, EncBegun
  <2> QED
    BY <2>1, <2>4
<1>2. ASSUME NEW k \in 0..n, k < n, k \in S PROVE k + 1 \in S
  <2>1. d[k + 1] = EncodeTurn(d[k], bin[k + 1], variant)
    <3>1. k + 1 \in 1..n /\ k + 1 - 1 = k
      BY <1>2
    <3> QED
      BY <1>0, <3>1 DEF EncTurns
  <2>2. Writing(bin, k, d[k], variant)
    BY <1>2
  <2>3. Writing(bin, k + 1, d[k + 1], variant)
    BY <1>2, <2>1, <2>2, EncTurnWrites
  <2> QED
    BY <1>2, <2>3
<1> HIDE DEF S
<1>4. 0..n \subseteq S
  BY <1>1, <1>2, TurnInduction
<1> QED
  BY <1>4 DEF S

\* The lengths of an encoding: letters, and characters =.
LengthsOf(n, variant) ==
    LET m == (4 * n + 2) \div 3 p == (3 - (n % 3)) % 3
    IN /\ m \in Nat /\ p \in 0..2 /\ EncodedLen(n, variant) \in Nat
       /\ m = (4 * n) \div 3 + (IF n % 3 = 0 THEN 0 ELSE 1)
       /\ EncodedLen(n, variant) = m + (IF Unpadded(variant) THEN 0 ELSE p)
LEMMA EncodedLengths ==
    ASSUME NEW n \in Nat, NEW variant \in Variants
    PROVE  LengthsOf(n, variant)
<1> DEFINE q == n \div 3
<1>1. q \in Nat /\ (n = 3 * q \/ n = 3 * q + 1 \/ n = 3 * q + 2)
  OBVIOUS
<1>2. EncodedLen(n, variant) = 4 * q + (IF n % 3 = 0 THEN 0 ELSE IF Unpadded(variant) THEN 2 + ((n % 3) \div 2) ELSE 4)
  BY DEF EncodedLen
<1> HIDE DEF q
<1>3. CASE n = 3 * q
  <2>1. n % 3 = 0 /\ (4 * n + 2) \div 3 = 4 * q /\ (3 - 0) % 3 = 0 /\ (4 * n) \div 3 = 4 * q
    BY <1>1, <1>3
  <2> QED
    BY <1>1, <1>2, <2>1 DEF LengthsOf
<1>4. CASE n = 3 * q + 1
  <2>1. n % 3 = 1 /\ (4 * n + 2) \div 3 = 4 * q + 2 /\ (3 - 1) % 3 = 2 /\ (4 * n) \div 3 = 4 * q + 1 /\ 1 \div 2 = 0
    BY <1>1, <1>4
  <2> QED
    BY <1>1, <1>2, <2>1 DEF LengthsOf
<1>5. CASE n = 3 * q + 2
  <2>1. n % 3 = 2 /\ (4 * n + 2) \div 3 = 4 * q + 3 /\ (3 - 2) % 3 = 1 /\ (4 * n) \div 3 = 4 * q + 2 /\ 2 \div 2 = 1
    BY <1>1, <1>5
  <2> QED
    BY <1>1, <1>2, <2>1 DEF LengthsOf
<1> QED
  BY <1>1, <1>3, <1>4, <1>5

\* The letters of an encoding.
LEMMA RefBase64Is ==
    ASSUME NEW n \in Nat, NEW bin \in Bytes(n), NEW variant \in Variants
    PROVE  LET m == (4 * n + 2) \div 3
           IN /\ RefBase64(bin, variant) \in Binaries /\ Len(RefBase64(bin, variant)) = m
              /\ \A j \in 1..m : RefBase64(bin, variant)[j] = Alphabet(variant)[SixBits(bin, j - 1)]
<1> DEFINE m == (4 * n + 2) \div 3  A(j) == Alphabet(variant)[SixBits(bin, j - 1)]  r == [j \in 1..m |-> A(j)]
<1>1. Len(bin) = n /\ m \in Nat
  BY LenOfBytes
<1>2. \A j \in 1..m : A(j) \in 0..255
  BY SixBitsInRange, LettersAreBytes
<1>3. RefBase64(bin, variant) = r
  BY <1>1 DEF RefBase64
<1> HIDE DEF A, m
<1>4. r \in Bytes(m) /\ \A j \in 1..m : r[j] = A(j)
  BY <1>2 DEF Bytes
<1> HIDE DEF r
<1>5. r \in Binaries /\ Len(r) = m
  BY <1>1, <1>4, BytesAreBinaries
<1> QED
  BY <1>3, <1>4, <1>5 DEF m, A

\* What sodium_bin2base64 writes is the encoding, and zeros.
LEMMA LastTurnWrites ==
    ASSUME NEW n \in Nat, NEW bin \in Bytes(n), NEW variant \in Variants, NEW s, Writing(bin, n, s, variant)
    PROVE  RefBase64(bin, variant) =
             IF s.bits = 0 THEN s.b64 ELSE Append(s.b64, b64_byte_to_char((s.acc * 2^(6 - s.bits)) % 64, variant))
<1> DEFINE m == (4 * n) \div 3  A(j) == Alphabet(variant)[SixBits(bin, j - 1)]  q == n \div 3  R == RefBase64(bin, variant)
<1>1. s \in EncStates /\ s.bits = 2 * (n % 3) /\ (s.bits = 2 => s.acc % 4 = bin[n] % 4) /\ (s.bits = 4 => s.acc % 16 = bin[n] % 16)
      /\ Len(s.b64) = m /\ \A j \in 1..m : s.b64[j] = A(j)
  BY DEF Writing
<1>2. s.acc \in 0..Uint-1 /\ s.bits \in {0, 2, 4} /\ s.b64 \in Binaries
  BY <1>1, SMT DEF EncStates
<1>3. R \in Binaries /\ Len(R) = (4 * n + 2) \div 3 /\ \A j \in 1..((4 * n + 2) \div 3) : R[j] = A(j)
  BY RefBase64Is
<1>4. (4 * n + 2) \div 3 = m + (IF n % 3 = 0 THEN 0 ELSE 1) /\ m \in Nat
  BY EncodedLengths DEF LengthsOf
<1>5. SixBitsOf(bin, q) /\ q \in Nat
  BY FourOfThree
<1>t. InThirds(n)
  BY ThirdsOf
<1>6. Len(bin) = n
  BY LenOfBytes
<1>7. Alphabet(variant)[SixBits(bin, m)] \in 0..255
  <2>1. SixBits(bin, m) \in 0..63
    BY <1>4, SixBitsInRange
  <2> QED
    BY <2>1, LettersAreBytes
<1>8. \A x \in 0..63 : b64_byte_to_char(x, variant) = Alphabet(variant)[x]
  BY CharacterOfNumber
<1>a. A(m + 1) = Alphabet(variant)[SixBits(bin, m)]
  BY <1>4
<1> HIDE DEF R, A
<1>9. CASE n % 3 = 0
  <2>1. s.bits = 0 /\ Len(R) = m
    BY <1>1, <1>3, <1>4, <1>9
  <2>2. R = s.b64
    BY <1>1, <1>2, <1>3, <1>4, <1>9, <2>1, Alike
  <2> QED
    BY <2>1, <2>2 DEF R
<1>10. ASSUME n % 3 # 0, (s.acc * 2^(6 - s.bits)) % 64 = SixBits(bin, m)
       PROVE  R = Append(s.b64, b64_byte_to_char((s.acc * 2^(6 - s.bits)) % 64, variant))
  <2> DEFINE c == b64_byte_to_char((s.acc * 2^(6 - s.bits)) % 64, variant)  r == Append(s.b64, c)
  <2>1. c = A(m + 1)
    <3>1. SixBits(bin, m) \in 0..63
      BY <1>4, SixBitsInRange
    <3> QED
      BY <1>8, <1>10, <1>a, <3>1
  <2> HIDE DEF c
  <2>2. c \in 0..255
    BY <1>7, <1>a, <2>1
  <2>a. Lengthened(s.b64, c)
    BY <1>2, <2>2, OneMore
  <2>3. r \in Binaries /\ Len(r) = m + 1 /\ (\A j \in 1..m : r[j] = s.b64[j]) /\ r[m + 1] = c
    BY <1>1, <2>a DEF Lengthened
  <2> HIDE DEF r
  <2>4. \A j \in 1..m+1 : r[j] = A(j)
    BY <1>1, <1>4, <2>1, <2>3
  <2>5. r \in Binaries /\ Len(R) = m + 1
    BY <1>3, <1>4, <1>10, <2>3
  <2>6. \A j \in 1..m+1 : R[j] = A(j)
    BY <1>3, <1>4, <1>10
  <2>7. R = r
    BY <1>3, <2>3, <2>4, <2>5, <2>6, Alike
  <2> QED
    BY <2>7 DEF r, c
<1>11. CASE n % 3 = 1
  <2>1. m = 4 * q + 1 /\ n = 3 * q + 1
    BY <1>11, <1>t DEF InThirds
  <2>2. ByteAt(bin, 3 * q + 1) = bin[n] /\ ByteAt(bin, 3 * q + 2) = 0 /\ bin[n] \in 0..255
    <3>1. n \in 1..n
      BY <1>11
    <3>2. bin[n] \in 0..255
      BY <3>1 DEF Bytes
    <3> QED
      BY <1>5, <1>6, <2>1, <3>2 DEF ByteAt
  <2>3. SixBits(bin, m) = 16 * (bin[n] % 4) + (0 \div 16)
    BY <1>5, <2>1, <2>2 DEF SixBitsOf
  <2>4. s.bits = 2 /\ s.acc % 4 = bin[n] % 4
    BY <1>1, <1>11
  <2>5. 2^(6 - 2) = 16 /\ 0 \div 16 = 0
    OBVIOUS
  <2>6. \A x \in Nat : (x * 16) % 64 = 16 * (x % 4)
    OBVIOUS
  <2>7. s.acc \in Nat
    BY <1>2, UintIsNat
  <2>8. (s.acc * 2^(6 - s.bits)) % 64 = (s.acc * 16) % 64
    BY <2>4, <2>5
  <2>9. (s.acc * 16) % 64 = 16 * (bin[n] % 4)
    BY <2>4, <2>6, <2>7
  <2>10. 16 * (bin[n] % 4) + 0 = 16 * (bin[n] % 4)
    BY <2>2
  <2> QED
    BY <1>10, <1>11, <2>3, <2>4, <2>5, <2>8, <2>9, <2>10 DEF R
<1>12. CASE n % 3 = 2
  <2>1. m = 4 * q + 2 /\ n = 3 * q + 2
    BY <1>12, <1>t DEF InThirds
  <2>2. ByteAt(bin, 3 * q + 2) = bin[n] /\ ByteAt(bin, 3 * q + 3) = 0 /\ bin[n] \in 0..255
    <3>1. n \in 1..n
      BY <1>12
    <3>2. bin[n] \in 0..255
      BY <3>1 DEF Bytes
    <3> QED
      BY <1>5, <1>6, <2>1, <3>2 DEF ByteAt
  <2>3. SixBits(bin, m) = 4 * (bin[n] % 16) + (0 \div 64)
    BY <1>5, <2>1, <2>2 DEF SixBitsOf
  <2>4. s.bits = 4 /\ s.acc % 16 = bin[n] % 16
    BY <1>1, <1>12
  <2>5. 2^(6 - 4) = 4 /\ 0 \div 64 = 0
    OBVIOUS
  <2>6. \A x \in Nat : (x * 4) % 64 = 4 * (x % 16)
    OBVIOUS
  <2>7. s.acc \in Nat
    BY <1>2, UintIsNat
  <2>8. (s.acc * 2^(6 - s.bits)) % 64 = (s.acc * 4) % 64
    BY <2>4, <2>5
  <2>9. (s.acc * 4) % 64 = 4 * (bin[n] % 16)
    BY <2>4, <2>6, <2>7
  <2>10. 4 * (bin[n] % 16) + 0 = 4 * (bin[n] % 16)
    BY <2>2
  <2> QED
    BY <1>10, <1>12, <2>3, <2>4, <2>5, <2>8, <2>9, <2>10 DEF R
<1> QED
  BY <1>9, <1>11, <1>12

\* The encoding is a text of the length of sodium_base64_encoded_len.
EncodedText(bin, n, variant) ==
    LET m == (4 * n + 2) \div 3 e == Encoded(bin, variant)
    IN /\ e \in Binaries /\ Len(e) = EncodedLen(n, variant) /\ m <= Len(e)
       /\ \A j \in 1..m : e[j] = Alphabet(variant)[SixBits(bin, j - 1)]
       /\ \A j \in m+1..Len(e) : e[j] = 61
LEMMA EncodedIsText ==
    ASSUME NEW n \in Nat, NEW bin \in Bytes(n), NEW variant \in Variants
    PROVE  EncodedText(bin, n, variant)
<1> DEFINE m == (4 * n + 2) \div 3  R == RefBase64(bin, variant)
           p == IF Unpadded(variant) THEN 0 ELSE (3 - (n % 3)) % 3
           pads == [k \in 1..p |-> 61]  e == R \o pads
           A(j) == Alphabet(variant)[SixBits(bin, j - 1)]
<1>1. Len(bin) = n
  BY LenOfBytes
<1>2. m \in Nat /\ p \in Nat /\ EncodedLen(n, variant) = m + p
  BY EncodedLengths DEF LengthsOf
<1>3. R \in Binaries /\ Len(R) = m /\ \A j \in 1..m : R[j] = A(j)
  BY RefBase64Is
<1>4. Encoded(bin, variant) = e
  <2>1. CASE Unpadded(variant)
    <3>1. pads = <<>>
      BY <2>1
    <3> QED
      BY <2>1, <3>1 DEF Encoded
  <2>2. CASE ~Unpadded(variant)
    <3>1. pads = Pads(n)
      BY <2>2 DEF Pads
    <3> QED
      BY <1>1, <2>2, <3>1 DEF Encoded
  <2> QED
    BY <2>1, <2>2
<1>5. \A j \in 1..p : pads[j] = 61
  OBVIOUS
<1> HIDE DEF m, R, p, A
<1>6. pads \in Binaries /\ Len(pads) = p
  <2>1. 61 \in 0..255
    OBVIOUS
  <2> QED
    BY <1>2, <2>1, Repeated
<1> HIDE DEF pads
<1>7. /\ e \in Binaries /\ Len(e) = m + p
      /\ \A j \in 1..m : e[j] = R[j]
      /\ \A j \in 1..p : e[m + j] = pads[j]
  BY <1>3, <1>6, Joined
<1> HIDE DEF e
<1>8. ASSUME NEW j \in m+1..m+p PROVE e[j] = 61
  <2>1. j - m \in 1..p /\ m + (j - m) = j
    BY <1>2
  <2> QED
    BY <1>5, <1>7, <2>1
<1>9. m <= m + p
  BY <1>2
<1> QED
  BY <1>2, <1>3, <1>4, <1>7, <1>8, <1>9 DEF EncodedText, m, A

Base64Written(n, bin, variant, room) ==
    sodium_bin2base64(EncodedLen(n, variant) + room, bin, variant) =
      IF room = 0 THEN <<Misused>> ELSE Encoded(bin, variant) \o [k \in 1..room |-> 0]
LEMMA Bin2base64Writes ==
    ASSUME NEW n \in Nat, NEW bin \in Bytes(n), NEW variant \in Variants, NEW room \in Nat
    PROVE  Base64Written(n, bin, variant, room)
<1> DEFINE len == EncodedLen(n, variant)  maxlen == len + room  R == RefBase64(bin, variant)
           p == IF Unpadded(variant) THEN 0 ELSE (3 - (n % 3)) % 3
<1>1. Len(bin) = n /\ EncLoopOf(bin, variant)
  BY LenOfBytes, EncLoop
<1>2. PICK d : /\ EncTurns(bin, variant, d)
               /\ \A l : sodium_bin2base64(l, bin, variant) =
                    IF ~sodium_base64_check_variant(variant) \/ l <= EncodedLen(Len(bin), variant) THEN <<Misused>>
                    ELSE EncDone(d[Len(bin)], bin, variant, l)
  BY <1>1 DEF EncLoopOf
<1> DEFINE s == d[n]
<1>3. Writing(bin, n, s, variant)
  BY <1>2, EncTurnsWrite
<1>4. len \in Nat /\ len = Len(R) + p /\ p \in Nat
  <2>1. LengthsOf(n, variant) /\ Len(R) = (4 * n + 2) \div 3
    BY EncodedLengths, RefBase64Is
  <2> QED
    BY <2>1 DEF LengthsOf
<1>5. sodium_base64_check_variant(variant)
  BY DEF sodium_base64_check_variant, Variants
<1>6. R = IF s.bits = 0 THEN s.b64 ELSE Append(s.b64, b64_byte_to_char((s.acc * 2^(6 - s.bits)) % 64, variant))
  BY <1>3, LastTurnWrites
<1>7. EncDone(s, bin, variant, maxlen) = R \o [k \in 1..(len - Len(R)) |-> 61] \o [k \in 1..(maxlen - len) |-> 0]
  BY <1>1, <1>6 DEF EncDone
<1> HIDE DEF s
<1>8. len - Len(R) = p /\ maxlen - len = room /\ (maxlen <= len <=> room = 0)
  <2>1. Len(R) \in Nat
    BY RefBase64Is, BinariesAreBytes
  <2> HIDE DEF len, R, p
  <2> QED
    BY <1>4, <2>1
<1>9. Encoded(bin, variant) = R \o [k \in 1..p |-> 61]
  <2>1. CASE Unpadded(variant)
    <3>1. [k \in 1..p |-> 61] = <<>>
      BY <2>1
    <3> QED
      BY <2>1, <3>1 DEF Encoded
  <2>2. CASE ~Unpadded(variant)
    <3>1. [k \in 1..p |-> 61] = Pads(n)
      BY <2>2 DEF Pads
    <3> QED
      BY <1>1, <2>2, <3>1 DEF Encoded
  <2> QED
    BY <2>1, <2>2
<1>10. sodium_bin2base64(maxlen, bin, variant) = IF maxlen <= len THEN <<Misused>> ELSE EncDone(s, bin, variant, maxlen)
  BY <1>1, <1>2, <1>5 DEF s
<1> HIDE DEF len, R, p
<1>11. EncDone(s, bin, variant, maxlen) = Encoded(bin, variant) \o [k \in 1..room |-> 0]
  BY <1>7, <1>8, <1>9
<1> QED
  BY <1>8, <1>10, <1>11 DEF Base64Written, len

-----------------------------------------------------------------------------
(* The loop of sodium_base642bin.                                          *)

LEMMA WordsOver ==
    ASSUME NEW h \in Int, NEW z \in Int, 0 <= z, z <= 65535
    PROVE  (65536 * h + z) % 65536 = z
BY SMT
\* What a word and 6 bits more are.
SixMore(x, d) ==
    LET a == (x * 64 + d) % Uint
    IN /\ a \in 0..Uint-1 /\ a % 4 = d % 4 /\ a % 16 = d % 16 /\ a % 64 = d
       /\ a % 256 = 64 * (x % 4) + d
       /\ (a \div 4) % 256 = 16 * (x % 16) + (d \div 4)
       /\ (a \div 16) % 256 = 4 * (x % 64) + (d \div 16)
LEMMA SixBitsMore ==
    ASSUME NEW x \in 0..Uint-1, NEW d \in 0..63
    PROVE  SixMore(x, d)
<1> DEFINE h == x \div 1024  l == x % 1024  a == (x * 64 + d) % Uint  z == 64 * l + d
<1>1. x \in Nat
  BY SMT DEF Uint
<1>2. h \in Int /\ l \in 0..1023 /\ x = 1024 * h + l
  BY <1>1
<1>3. l % 4 = x % 4 /\ l % 16 = x % 16 /\ l % 64 = x % 64
  BY <1>1
<1> HIDE DEF h, l
<1>4. x * 64 + d = 65536 * h + (64 * l + d)
  BY <1>2, SMT
<1>5. (65536 * h + z) % 65536 = z
  <2>1. h \in Int /\ z \in Int /\ 0 <= z /\ z <= 65535
    BY <1>2, SMT
  <2> HIDE DEF z
  <2> QED
    BY <2>1, WordsOver, SMT
<1>6. a = z
  <2>1. x * 64 + d = 65536 * h + z
    BY <1>4
  <2> HIDE DEF z
  <2>2. (x * 64 + d) % 65536 = z
    BY <1>5, <2>1
  <2> QED
    BY <2>2, SMT DEF Uint
<1>7. z \in Int /\ 0 <= z /\ z <= 65535
  BY <1>2, SMT
<1>8. z \in 0..Uint-1
  <2> HIDE DEF z
  <2> QED
    BY <1>7, InWord
<1>9. z % 4 = d % 4 /\ z % 16 = d % 16 /\ z % 64 = d
  BY <1>2
<1>10. z % 256 = 64 * (l % 4) + d
  BY <1>2
<1>11. (z \div 4) % 256 = 16 * (l % 16) + (d \div 4)
  BY <1>2
<1>12. (z \div 16) % 256 = 4 * (l % 64) + (d \div 16)
  BY <1>2
<1> HIDE DEF a, z
<1> QED
  BY <1>3, <1>6, <1>8, <1>9, <1>10, <1>11, <1>12 DEF SixMore, a

AccWords == 0..Uint-1
BitsLeft == {0, 2, 4, 6}
DecStates == [acc : AccWords, bits : BitsLeft, bin : Binaries, pos : Nat, ret : {0, -1}, stop : BOOLEAN]
DecBegun == [acc |-> 0, bits |-> 0, bin |-> <<>>, pos |-> 0, ret |-> 0, stop |-> FALSE]
\* The byte that 6 bits d complete.
DecByte(s, d) ==
    IF s.bits = 6 THEN 4 * (s.acc % 64) + (d \div 16)
    ELSE IF s.bits = 4 THEN 16 * (s.acc % 16) + (d \div 4) ELSE 64 * (s.acc % 4) + d
DecByteInRange(s, d) == DecByte(s, d) \in 0..255
\* A turn by the character.
DecTurned(s, b, maxlen, ignore, variant, t) ==
    LET d == Rank(b, variant) a == (s.acc * 64 + d) % Uint
    IN t = IF s.stop THEN s
           ELSE IF b \notin Letters(variant) THEN IF b \in ignore THEN [s EXCEPT !.pos = @ + 1] ELSE [s EXCEPT !.stop = TRUE]
           ELSE IF s.bits = 0 THEN [s EXCEPT !.acc = a, !.bits = @ + 6, !.pos = @ + 1]
           ELSE IF Len(s.bin) >= maxlen THEN [s EXCEPT !.acc = a, !.bits = @ - 2, !.stop = TRUE, !.ret = -1]
           ELSE [s EXCEPT !.acc = a, !.bits = @ - 2, !.bin = Append(@, DecByte(s, d)), !.pos = @ + 1]
LEMMA DecByteIs ==
    ASSUME NEW s \in DecStates, NEW d \in 0..63, s.bits # 0
    PROVE  ((((s.acc * 64 + d) % Uint) \div 2^(s.bits - 2)) % 256 = DecByte(s, d)) /\ DecByteInRange(s, d)
<1> DEFINE x == s.acc  a == (x * 64 + d) % Uint
<1>1. x \in 0..Uint-1 /\ s.bits \in {0, 2, 4, 6}
  BY SMT DEF DecStates, AccWords, BitsLeft
<1>2. SixMore(x, d)
  BY <1>1, SixBitsMore
<1>3. /\ a % 256 = 64 * (x % 4) + d
      /\ (a \div 4) % 256 = 16 * (x % 16) + (d \div 4)
      /\ (a \div 16) % 256 = 4 * (x % 64) + (d \div 16)
  BY <1>2 DEF SixMore
<1>4. a \in Nat /\ x \in Nat
  BY <1>1, <1>2, UintIsNat DEF SixMore
<1>5. 2^(2 - 2) = 1 /\ 2^(4 - 2) = 4 /\ 2^(6 - 2) = 16
  OBVIOUS
<1> HIDE DEF a, x
<1>6. a \div 1 = a
  BY <1>4
<1>7. 64 * (x % 4) + d \in 0..255 /\ 16 * (x % 16) + (d \div 4) \in 0..255 /\ 4 * (x % 64) + (d \div 16) \in 0..255
  BY <1>4
<1>8. CASE s.bits = 2
  <2>1. DecByte(s, d) = 64 * (x % 4) + d
    BY <1>8 DEF DecByte, x
  <2>2. (a \div 2^(s.bits - 2)) % 256 = a % 256
    BY <1>5, <1>6, <1>8
  <2> QED
    BY <1>3, <1>7, <2>1, <2>2 DEF a, x, DecByteInRange
<1>9. CASE s.bits = 4
  <2>1. DecByte(s, d) = 16 * (x % 16) + (d \div 4)
    BY <1>9 DEF DecByte, x
  <2>2. (a \div 2^(s.bits - 2)) % 256 = (a \div 4) % 256
    BY <1>5, <1>9
  <2> QED
    BY <1>3, <1>7, <2>1, <2>2 DEF a, x, DecByteInRange
<1>10. CASE s.bits = 6
  <2>1. DecByte(s, d) = 4 * (x % 64) + (d \div 16)
    BY <1>10 DEF DecByte, x
  <2>2. (a \div 2^(s.bits - 2)) % 256 = (a \div 16) % 256
    BY <1>5, <1>10
  <2> QED
    BY <1>3, <1>7, <2>1, <2>2 DEF a, x, DecByteInRange
<1> QED
  BY <1>1, <1>8, <1>9, <1>10

\* A turn of the loop of sodium_base642bin.
LEMMA DecTurn ==
    ASSUME NEW s \in DecStates, NEW b \in 0..255, NEW maxlen, NEW ignore, NEW variant \in Variants
    PROVE  DecTurned(s, b, maxlen, ignore, variant, Base64Turn(s, b, maxlen, ignore, variant, FALSE))
<1> DEFINE t == Base64Turn(s, b, maxlen, ignore, variant, FALSE)  d == Rank(b, variant)  a == (s.acc * 64 + d) % Uint
<1>1. b64_char_to_byte(b, variant) = d
  BY NumberOfCharacter
<1>2. CharOf(b, FALSE) = b
  BY DEF CharOf
<1>3. (b \in Letters(variant) => d \in 0..63) /\ (b \notin Letters(variant) => d = 255)
  BY RankOfLetter
<1> HIDE DEF d
<1>4. t = IF s.stop THEN s
          ELSE IF d = 255 THEN IF b \in ignore THEN [s EXCEPT !.pos = @ + 1] ELSE [s EXCEPT !.stop = TRUE]
          ELSE IF s.bits < 2 THEN [s EXCEPT !.acc = a, !.bits = @ + 6, !.pos = @ + 1]
          ELSE IF Len(s.bin) >= maxlen THEN [s EXCEPT !.acc = a, !.bits = @ - 2, !.stop = TRUE, !.ret = -1]
          ELSE [s EXCEPT !.acc = a, !.bits = @ - 2, !.bin = Append(@, (a \div 2^(s.bits - 2)) % 256), !.pos = @ + 1]
  BY <1>1, <1>2, Zenon DEF Base64Turn
<1>5. s.bits \in {0, 2, 4, 6}
  BY SMT DEF DecStates, BitsLeft
<1>6. s.bits < 2 <=> s.bits = 0
  BY <1>5
<1>7. d = 255 <=> b \notin Letters(variant)
  BY <1>3
<1>8. ASSUME b \in Letters(variant), s.bits # 0
      PROVE  (a \div 2^(s.bits - 2)) % 256 = DecByte(s, d)
  BY <1>3, <1>8, DecByteIs
<1> HIDE DEF t, a
<1>9. t = IF s.stop THEN s
          ELSE IF b \notin Letters(variant) THEN IF b \in ignore THEN [s EXCEPT !.pos = @ + 1] ELSE [s EXCEPT !.stop = TRUE]
          ELSE IF s.bits = 0 THEN [s EXCEPT !.acc = a, !.bits = @ + 6, !.pos = @ + 1]
          ELSE IF Len(s.bin) >= maxlen THEN [s EXCEPT !.acc = a, !.bits = @ - 2, !.stop = TRUE, !.ret = -1]
          ELSE [s EXCEPT !.acc = a, !.bits = @ - 2, !.bin = Append(@, DecByte(s, d)), !.pos = @ + 1]
  <2>1. CASE b \in Letters(variant) /\ s.bits # 0
    BY <1>4, <1>6, <1>7, <1>8, <2>1, Zenon
  <2>2. CASE ~(b \in Letters(variant) /\ s.bits # 0)
    BY <1>4, <1>6, <1>7, <2>2, Zenon
  <2> QED
    BY <2>1, <2>2
<1> QED
  BY <1>9, Zenon DEF DecTurned, t, a, d

\* It keeps the types.
LEMMA DecTurnStays ==
    ASSUME NEW s \in DecStates, NEW b \in 0..255, NEW maxlen, NEW ignore, NEW variant \in Variants
    PROVE  Base64Turn(s, b, maxlen, ignore, variant, FALSE) \in DecStates
<1> DEFINE t == Base64Turn(s, b, maxlen, ignore, variant, FALSE)  d == Rank(b, variant)  a == (s.acc * 64 + d) % Uint
<1>1. DecTurned(s, b, maxlen, ignore, variant, t)
  BY DecTurn
<1> HIDE DEF t
<1>2. s.acc \in 0..Uint-1 /\ s.bits \in {0, 2, 4, 6} /\ s.bin \in Binaries /\ s.pos \in Nat
  BY SMT DEF DecStates, AccWords, BitsLeft
<1>3. b \in Letters(variant) => d \in 0..63
  BY RankOfLetter
<1> HIDE DEF d
<1>4. b \in Letters(variant) => a \in 0..Uint-1
  <2>1. b \in Letters(variant) => SixMore(s.acc, d)
    BY <1>2, <1>3, SixBitsMore
  <2> QED
    BY <2>1 DEF SixMore
<1> HIDE DEF a
<1>5. s.pos + 1 \in Nat
  BY <1>2
<1>6. t = s => t \in DecStates
  OBVIOUS
<1>7. t = [s EXCEPT !.pos = @ + 1] => t \in DecStates
  <2> DEFINE p == s.pos + 1
  <2>1. p \in Nat /\ [s EXCEPT !.pos = @ + 1] = [s EXCEPT !.pos = p]
    BY <1>5
  <2> HIDE DEF p
  <2> QED
    BY <2>1 DEF DecStates
<1>8. t = [s EXCEPT !.stop = TRUE] => t \in DecStates
  BY DEF DecStates
<1>9. ASSUME b \in Letters(variant), s.bits = 0, t = [s EXCEPT !.acc = a, !.bits = @ + 6, !.pos = @ + 1]
      PROVE  t \in DecStates
  <2>1. s.bits + 6 \in BitsLeft /\ a \in AccWords
    BY <1>4, <1>9, SMT DEF AccWords, BitsLeft
  <2> QED
    BY <1>5, <1>9, <2>1 DEF DecStates
<1>10. ASSUME b \in Letters(variant), s.bits # 0, t = [s EXCEPT !.acc = a, !.bits = @ - 2, !.stop = TRUE, !.ret = -1]
       PROVE  t \in DecStates
  <2>1. s.bits - 2 \in BitsLeft /\ a \in AccWords
    BY <1>2, <1>4, <1>10, SMT DEF AccWords, BitsLeft
  <2> QED
    BY <1>5, <1>10, <2>1 DEF DecStates
<1>11. ASSUME b \in Letters(variant), s.bits # 0, t = [s EXCEPT !.acc = a, !.bits = @ - 2, !.bin = Append(@, DecByte(s, d)), !.pos = @ + 1]
       PROVE  t \in DecStates
  <2>1. s.bits - 2 \in BitsLeft /\ a \in AccWords
    BY <1>2, <1>4, <1>11, SMT DEF AccWords, BitsLeft
  <2>2. DecByte(s, d) \in 0..255
    BY <1>3, <1>11, DecByteIs DEF DecByteInRange
  <2>3. Append(s.bin, DecByte(s, d)) \in Binaries
    BY <1>2, <2>2, OneMore DEF Lengthened
  <2> DEFINE more == Append(s.bin, DecByte(s, d))
  <2>4. more \in Binaries /\ t = [s EXCEPT !.acc = a, !.bits = @ - 2, !.bin = more, !.pos = @ + 1]
    BY <1>11, <2>3
  <2> HIDE DEF more
  <2> QED
    BY <1>5, <2>1, <2>4 DEF DecStates
<1>12. t \in DecStates
  BY <1>1, <1>6, <1>7, <1>8, <1>9, <1>10, <1>11, Zenon DEF DecTurned, a, d
<1> QED
  BY <1>12 DEF t

\* What the turns make.
DecTurns(text, maxlen, ignore, variant, s) ==
    s[0] = DecBegun /\ \A k \in 1..Len(text) : s[k] = Base64Turn(s[k - 1], text[k], maxlen, ignore, variant, FALSE)
\* What comes of the last turn.
DecDone(last, text, ignore, hasEnd, variant) ==
    LET s == Base64Rest(last, text, ignore, variant)
    IN IF ~sodium_base64_check_variant(variant) THEN Passed(Misused, <<>>, 0)
       ELSE Ended(IF s.ret = 0 THEN [s EXCEPT !.pos = Trailed(text, @, ignore)] ELSE s, Len(text), hasEnd)
DecLoopOf(text, maxlen, ignore, variant) ==
    \E s : /\ DecTurns(text, maxlen, ignore, variant, s)
           /\ \A hasEnd : sodium_base642bin(maxlen, text, ignore, hasEnd, variant, FALSE) =
                            DecDone(s[Len(text)], text, ignore, hasEnd, variant)

\* sodium_base642bin's result is that of its last turn.
LEMMA DecLoop ==
    ASSUME NEW n \in Nat, NEW text \in Bytes(n), NEW maxlen, NEW ignore, NEW variant \in Variants
    PROVE  DecLoopOf(text, maxlen, ignore, variant)
<1> DEFINE V == DecStates
           T(s, b) == Base64Turn(s, b, maxlen, ignore, variant, FALSE)
           st == [p \in (1..n) \X V |-> T(p[2], text[p[1]])]
           F(g) == [k \in 0..n |-> IF k = 0 THEN [acc |-> 0, bits |-> 0, bin |-> <<>>, pos |-> 0, ret |-> 0, stop |-> FALSE]
                                   ELSE T(g[k - 1], text[k])]
           d == CHOOSE g : g = F(g)
<1>0. Len(text) = n
  BY LenOfBytes
<1>1. st \in Steps(n, V)
  <2>1. ASSUME NEW k \in 1..n, NEW s \in V PROVE T(s, text[k]) \in V
    <3>1. text[k] \in 0..255
      BY DEF Bytes
    <3> QED
      BY <3>1, DecTurnStays, Zenon
  <2> HIDE DEF V, T
  <2> QED
    BY <2>1 DEF Steps
<1>2. \E g \in [0..n -> V] : g = Turns(g, n, DecBegun, st)
  <2>1. DecBegun \in V
    <3>1. 0 \in 0..Uint-1 /\ <<>> \in Binaries
      BY UintIsNat DEF Binaries
    <3> QED
      BY <3>1 DEF DecBegun, DecStates, AccWords, BitsLeft
  <2> HIDE DEF V, st
  <2> QED
    BY <1>1, <2>1, LoopExists
<1>3. \E g : g = F(g)
  <2>1. PICK g \in [0..n -> V] : g = Turns(g, n, DecBegun, st)
    BY <1>2
  <2>2. \A k \in 0..n : k # 0 => st[<<k, g[k - 1]>>] = T(g[k - 1], text[k])
    <3> SUFFICES ASSUME NEW k \in 0..n, k # 0 PROVE st[<<k, g[k - 1]>>] = T(g[k - 1], text[k])
      OBVIOUS
    <3>1. k \in 1..n /\ k - 1 \in 0..n
      OBVIOUS
    <3>2. g[k - 1] \in V
      BY <3>1
    <3> HIDE DEF V, T
    <3> QED
      BY <3>1, <3>2
  <2> HIDE DEF st, T
  <2>3. Turns(g, n, DecBegun, st) = F(g)
    BY <2>2 DEF Turns, DecBegun
  <2> QED
    BY <2>1, <2>3
<1>4. d = F(d)
  BY <1>3
<1>5. d[0] = DecBegun /\ \A k \in 1..n : d[k] = T(d[k - 1], text[k])
  <2> HIDE DEF d, T
  <2>1. F(d)[0] = DecBegun /\ \A k \in 1..n : F(d)[k] = T(d[k - 1], text[k])
    BY DEF DecBegun
  <2> HIDE DEF F
  <2> QED
    BY <1>4, <2>1
<1>6. \A hasEnd : sodium_base642bin(maxlen, text, ignore, hasEnd, variant, FALSE) = DecDone(d[n], text, ignore, hasEnd, variant)
  BY <1>0 DEF sodium_base642bin, DecDone
<1> HIDE DEF d
<1>7. DecTurns(text, maxlen, ignore, variant, d)
  BY <1>0, <1>5 DEF DecTurns
<1> QED
  BY <1>0, <1>6, <1>7 DEF DecLoopOf

-----------------------------------------------------------------------------
(* What is kept of a text without the characters to ignore.                *)

KeptNumber(text, n, ignore) ==
    /\ KeptIn(text, n, ignore) \in Nat /\ KeptIn(text, 0, ignore) = 0
    /\ KeptIn(text, n + 1, ignore) = IF text[n + 1] \in (0..255) \ ignore THEN KeptIn(text, n, ignore) + 1 ELSE KeptIn(text, n, ignore)
LEMMA KeptNext ==
    ASSUME NEW text, NEW n \in Nat, NEW ignore
    PROVE  KeptNumber(text, n, ignore)
<1> DEFINE S == (0..255) \ ignore
<1>1. CountIn(text, n, S) \in Nat
  BY CountIsFinite
<1>2. CountIn(text, 0, S) = 0
  BY NoneCounted
<1>3. CountIn(text, n + 1, S) = IF text[n + 1] \in S THEN CountIn(text, n, S) + 1 ELSE CountIn(text, n, S)
  BY CountNext
<1> QED
  BY <1>1, <1>2, <1>3 DEF KeptNumber, KeptIn

\* The last that is kept so far.
LEMMA KeptLast ==
    ASSUME NEW text, Len(text) \in Nat, NEW k \in 1..Len(text), NEW ignore, text[k] \in (0..255) \ ignore
    PROVE  KeptAt(text, KeptIn(text, k, ignore), ignore) = text[k]
<1>1. PlaceOf(text, CountIn(text, k, (0..255) \ ignore), (0..255) \ ignore) = k
  BY PlaceOfNumber
<1> QED
  BY <1>1 DEF KeptAt, KeptIn

\* What 6 bits the character of a number stands for.
SixAt(text, j, ignore, variant) == Rank(KeptAt(text, j, ignore), variant)
\* The byte that they make.
ReadByte(text, i, ignore, variant) ==
    LET q == (i - 1) \div 3  v(j) == SixAt(text, 4 * q + j, ignore, variant)
    IN IF i % 3 = 1 THEN 4 * v(1) + (v(2) \div 16)
       ELSE IF i % 3 = 2 THEN 16 * (v(2) % 16) + (v(3) \div 4) ELSE 64 * (v(3) % 4) + v(4)

\* How many bytes m characters complete.
QuartersOf(m) ==
    LET q == m \div 4 n == (3 * m) \div 4
    IN /\ q \in Nat /\ n \in Nat
       /\ m % 4 = 0 => m = 4 * q /\ n = 3 * q /\ (3 * (m + 1)) \div 4 = n /\ (m + 1) % 4 = 1
       /\ m % 4 = 1 => m = 4 * q + 1 /\ n = 3 * q /\ (3 * (m + 1)) \div 4 = n + 1 /\ (m + 1) % 4 = 2
       /\ m % 4 = 2 => m = 4 * q + 2 /\ n = 3 * q + 1 /\ (3 * (m + 1)) \div 4 = n + 1 /\ (m + 1) % 4 = 3
       /\ m % 4 = 3 => m = 4 * q + 3 /\ n = 3 * q + 2 /\ (3 * (m + 1)) \div 4 = n + 1 /\ (m + 1) % 4 = 0
       /\ m % 4 \in 0..3
LEMMA Quarters ==
    ASSUME NEW m \in Nat
    PROVE  QuartersOf(m)
<1> DEFINE q == m \div 4
<1>1. q \in Nat /\ m % 4 \in 0..3 /\ m = 4 * q + (m % 4)
  OBVIOUS
<1> HIDE DEF q
<1>2. CASE m % 4 = 0
  <2>1. m = 4 * q
    BY <1>1, <1>2
  <2>2. (3 * m) \div 4 = 3 * q /\ (3 * (m + 1)) \div 4 = 3 * q /\ (m + 1) % 4 = 1
    BY <1>1, <2>1
  <2> QED
    BY <1>1, <1>2, <2>1, <2>2 DEF q, QuartersOf
<1>3. CASE m % 4 = 1
  <2>1. m = 4 * q + 1
    BY <1>1, <1>3
  <2>2. (3 * m) \div 4 = 3 * q /\ (3 * (m + 1)) \div 4 = 3 * q + 1 /\ (m + 1) % 4 = 2
    BY <1>1, <2>1
  <2> QED
    BY <1>1, <1>3, <2>1, <2>2 DEF q, QuartersOf
<1>4. CASE m % 4 = 2
  <2>1. m = 4 * q + 2
    BY <1>1, <1>4
  <2>2. (3 * m) \div 4 = 3 * q + 1 /\ (3 * (m + 1)) \div 4 = 3 * q + 1 + 1 /\ (m + 1) % 4 = 3
    BY <1>1, <2>1
  <2> QED
    BY <1>1, <1>4, <2>1, <2>2 DEF q, QuartersOf
<1>5. CASE m % 4 = 3
  <2>1. m = 4 * q + 3
    BY <1>1, <1>5
  <2>2. (3 * m) \div 4 = 3 * q + 2 /\ (3 * (m + 1)) \div 4 = 3 * q + 2 + 1 /\ (m + 1) % 4 = 0
    BY <1>1, <2>1
  <2> QED
    BY <1>1, <1>5, <2>1, <2>2 DEF q, QuartersOf
<1> QED
  BY <1>1, <1>2, <1>3, <1>4, <1>5

\* The bits left over of m characters.
BitsOver(text, s, m, ignore, variant) ==
    LET v == SixAt(text, m, ignore, variant)
    IN /\ m % 4 = 0 => s.bits = 0
       /\ m % 4 = 1 => s.bits = 6 /\ s.acc % 64 = v
       /\ m % 4 = 2 => s.bits = 4 /\ s.acc % 16 = v % 16
       /\ m % 4 = 3 => s.bits = 2 /\ s.acc % 4 = v % 4

\* They and the character that comes next make the byte.
LEMMA ByteRead ==
    ASSUME NEW text, NEW ignore, NEW variant, NEW m \in Nat, NEW s, BitsOver(text, s, m, ignore, variant), m % 4 # 0
    PROVE  DecByte(s, SixAt(text, m + 1, ignore, variant)) = ReadByte(text, (3 * m) \div 4 + 1, ignore, variant)
<1> DEFINE n == (3 * m) \div 4  q == m \div 4  V(j) == SixAt(text, j, ignore, variant)
<1>1. QuartersOf(m)
  BY Quarters
<1>2. q \in Nat /\ n \in Nat /\ m % 4 \in 0..3
  BY <1>1 DEF QuartersOf
<1>3. /\ m % 4 = 1 => m = 4 * q + 1 /\ n = 3 * q
      /\ m % 4 = 2 => m = 4 * q + 2 /\ n = 3 * q + 1
      /\ m % 4 = 3 => m = 4 * q + 3 /\ n = 3 * q + 2
  BY <1>1 DEF QuartersOf
<1>4. ReadByte(text, n + 1, ignore, variant) =
        LET p == (n + 1 - 1) \div 3
        IN IF (n + 1) % 3 = 1 THEN 4 * V(4 * p + 1) + (V(4 * p + 2) \div 16)
           ELSE IF (n + 1) % 3 = 2 THEN 16 * (V(4 * p + 2) % 16) + (V(4 * p + 3) \div 4) ELSE 64 * (V(4 * p + 3) % 4) + V(4 * p + 4)
  BY DEF ReadByte
<1>5. /\ m % 4 = 1 => s.bits = 6 /\ s.acc % 64 = V(m)
      /\ m % 4 = 2 => s.bits = 4 /\ s.acc % 16 = V(m) % 16
      /\ m % 4 = 3 => s.bits = 2 /\ s.acc % 4 = V(m) % 4
  BY DEF BitsOver
<1> HIDE DEF n, q, V
<1>6. CASE m % 4 = 1
  <2>1. m = 4 * q + 1 /\ m + 1 = 4 * q + 2 /\ (n + 1 - 1) \div 3 = q /\ (n + 1) % 3 = 1
    BY <1>2, <1>3, <1>6
  <2>2. ReadByte(text, n + 1, ignore, variant) = 4 * V(4 * q + 1) + (V(4 * q + 2) \div 16)
    BY <1>4, <2>1
  <2>3. DecByte(s, V(m + 1)) = 4 * V(m) + (V(m + 1) \div 16)
    BY <1>5, <1>6 DEF DecByte
  <2> QED
    BY <2>1, <2>2, <2>3, Zenon DEF n, V
<1>7. CASE m % 4 = 2
  <2>1. m = 4 * q + 2 /\ m + 1 = 4 * q + 3 /\ (n + 1 - 1) \div 3 = q /\ (n + 1) % 3 = 2
    BY <1>2, <1>3, <1>7
  <2>2. ReadByte(text, n + 1, ignore, variant) = 16 * (V(4 * q + 2) % 16) + (V(4 * q + 3) \div 4)
    BY <1>4, <2>1
  <2>3. DecByte(s, V(m + 1)) = 16 * (V(m) % 16) + (V(m + 1) \div 4)
    BY <1>5, <1>7 DEF DecByte
  <2> QED
    BY <2>1, <2>2, <2>3, Zenon DEF n, V
<1>8. CASE m % 4 = 3
  <2>1. m = 4 * q + 3 /\ m + 1 = 4 * q + 4 /\ (n + 1 - 1) \div 3 = q /\ (n + 1) % 3 = 0
    BY <1>2, <1>3, <1>8
  <2>2. ReadByte(text, n + 1, ignore, variant) = 64 * (V(4 * q + 3) % 4) + V(4 * q + 4)
    BY <1>4, <2>1
  <2>3. DecByte(s, V(m + 1)) = 64 * (V(m) % 4) + V(m + 1)
    BY <1>5, <1>8 DEF DecByte
  <2> QED
    BY <2>1, <2>2, <2>3, Zenon DEF n, V
<1> QED
  BY <1>2, <1>6, <1>7, <1>8

\* The bits left over with a character more.
LEMMA BitsNext ==
    ASSUME NEW text, NEW ignore, NEW variant, NEW m \in Nat, NEW s, NEW t,
           BitsOver(text, s, m, ignore, variant),
           t.bits = IF s.bits = 0 THEN 6 ELSE s.bits - 2,
           LET d == SixAt(text, m + 1, ignore, variant) IN t.acc % 4 = d % 4 /\ t.acc % 16 = d % 16 /\ t.acc % 64 = d
    PROVE  BitsOver(text, t, m + 1, ignore, variant)
<1> DEFINE d == SixAt(text, m + 1, ignore, variant)
<1>1. t.acc % 4 = d % 4 /\ t.acc % 16 = d % 16 /\ t.acc % 64 = d
  OBVIOUS
<1> HIDE DEF d
<1>2. m % 4 \in 0..3 /\ (m % 4 = 0 => (m + 1) % 4 = 1) /\ (m % 4 = 1 => (m + 1) % 4 = 2)
      /\ (m % 4 = 2 => (m + 1) % 4 = 3) /\ (m % 4 = 3 => (m + 1) % 4 = 0)
  OBVIOUS
<1>3. /\ m % 4 = 0 => s.bits = 0
      /\ m % 4 = 1 => s.bits = 6
      /\ m % 4 = 2 => s.bits = 4
      /\ m % 4 = 3 => s.bits = 2
  BY DEF BitsOver
<1>4. /\ m % 4 = 0 => t.bits = 6
      /\ m % 4 = 1 => t.bits = 4
      /\ m % 4 = 2 => t.bits = 2
      /\ m % 4 = 3 => t.bits = 0
  BY <1>3
<1> QED
  BY <1>1, <1>2, <1>4 DEF BitsOver, d

-----------------------------------------------------------------------------
(* What has been read.                                                     *)

\* Nothing that base64 is written in is ignored.
Apart(ignore, variant) == ignore \cap (Letters(variant) \cup {61}) = {}
LEMMA LettersAreKept ==
    ASSUME NEW variant \in Variants, NEW ignore, Apart(ignore, variant), NEW b \in Letters(variant)
    PROVE  b \in (0..255) \ ignore /\ b # 61 /\ b \in 0..255
<1>1. PICK x \in 0..63 : b = Alphabet(variant)[x]
  BY Zenon DEF Letters
<1>2. b \in 0..255
  BY <1>1, LettersAreBytes
<1>3. b # 61
  <2>1. Last2(variant) = <<43, 47>> \/ Last2(variant) = <<45, 95>>
    BY DEF Last2
  <2> QED
    BY <1>1, <2>1 DEF Alphabet
<1> QED
  BY <1>2, <1>3 DEF Apart

\* The characters so far are letters or ignored, their bytes are read.
DecTaken(text, s, maxlen, ignore, variant) ==
    LET m == KeptIn(text, s.pos, ignore)
    IN /\ s.pos <= Len(text) /\ \A i \in 1..s.pos : text[i] \in Letters(variant) \cup ignore
       /\ Len(s.bin) = (3 * m) \div 4 /\ Len(s.bin) <= maxlen
       /\ \A i \in 1..Len(s.bin) : s.bin[i] = ReadByte(text, i, ignore, variant)
       /\ s.ret = 0 => BitsOver(text, s, m, ignore, variant)
\* Why it went no further than it is, after k turns.
DecStopped(text, k, s, maxlen, ignore, variant) ==
    IF ~s.stop THEN s.pos = k /\ s.ret = 0
    ELSE /\ s.pos < k
         /\ IF text[s.pos + 1] \in Letters(variant)
            THEN s.ret = -1 /\ Len(s.bin) = maxlen /\ KeptIn(text, s.pos, ignore) % 4 # 0
            ELSE s.ret = 0 /\ text[s.pos + 1] \notin ignore
Decoding(text, k, s, maxlen, ignore, variant) ==
    s \in DecStates /\ DecTaken(text, s, maxlen, ignore, variant) /\ DecStopped(text, k, s, maxlen, ignore, variant)

LEMMA DecTurnReads ==
    ASSUME NEW n \in Nat, NEW text \in Bytes(n), NEW maxlen \in Nat, NEW variant \in Variants, NEW ignore, Apart(ignore, variant),
           NEW k \in 0..n, k < n, NEW s, Decoding(text, k, s, maxlen, ignore, variant)
    PROVE  Decoding(text, k + 1, Base64Turn(s, text[k + 1], maxlen, ignore, variant, FALSE), maxlen, ignore, variant)
<1> DEFINE c == text[k + 1]  t == Base64Turn(s, c, maxlen, ignore, variant, FALSE)
           d == Rank(c, variant)  a == (s.acc * 64 + d) % Uint
           m == KeptIn(text, k, ignore)  L == Letters(variant)
<1>1. Len(text) = n /\ k \in Nat /\ k + 1 \in 1..n
  BY LenOfBytes
<1>2. c \in 0..255
  BY <1>1 DEF Bytes
<1>3. s \in DecStates /\ DecTaken(text, s, maxlen, ignore, variant) /\ DecStopped(text, k, s, maxlen, ignore, variant)
  BY DEF Decoding
<1>4. t \in DecStates /\ DecTurned(s, c, maxlen, ignore, variant, t)
  BY <1>2, <1>3, DecTurn, DecTurnStays
<1>5. s.acc \in 0..Uint-1 /\ s.bits \in {0, 2, 4, 6} /\ s.bin \in Binaries /\ s.pos \in Nat /\ s.ret \in {0, -1}
      /\ s.stop \in BOOLEAN /\ Len(s.bin) \in Nat
  <2>1. s.acc \in 0..Uint-1 /\ s.bits \in {0, 2, 4, 6} /\ s.bin \in Binaries /\ s.pos \in Nat /\ s.ret \in {0, -1} /\ s.stop \in BOOLEAN
    BY <1>3, SMT DEF DecStates, AccWords, BitsLeft
  <2> QED
    BY <2>1, BinariesAreBytes, Zenon
<1>6. t = IF s.stop THEN s
          ELSE IF c \notin L THEN IF c \in ignore THEN [s EXCEPT !.pos = @ + 1] ELSE [s EXCEPT !.stop = TRUE]
          ELSE IF s.bits = 0 THEN [s EXCEPT !.acc = a, !.bits = @ + 6, !.pos = @ + 1]
          ELSE IF Len(s.bin) >= maxlen THEN [s EXCEPT !.acc = a, !.bits = @ - 2, !.stop = TRUE, !.ret = -1]
          ELSE [s EXCEPT !.acc = a, !.bits = @ - 2, !.bin = Append(@, DecByte(s, d)), !.pos = @ + 1]
  BY <1>4, Zenon DEF DecTurned
<1>7. m \in Nat /\ KeptIn(text, k + 1, ignore) = IF c \in (0..255) \ ignore THEN m + 1 ELSE m
  <2>1. KeptNumber(text, k, ignore)
    BY <1>1, KeptNext
  <2> QED
    BY <2>1 DEF KeptNumber
<1>8. c \in L => /\ c \in (0..255) \ ignore /\ d \in 0..63 /\ KeptIn(text, k + 1, ignore) = m + 1
                 /\ SixAt(text, m + 1, ignore, variant) = d
                 /\ a % 4 = d % 4 /\ a % 16 = d % 16 /\ a % 64 = d
  <2> SUFFICES ASSUME c \in L
               PROVE  /\ c \in (0..255) \ ignore /\ d \in 0..63 /\ KeptIn(text, k + 1, ignore) = m + 1
                      /\ SixAt(text, m + 1, ignore, variant) = d
                      /\ a % 4 = d % 4 /\ a % 16 = d % 16 /\ a % 64 = d
    OBVIOUS
  <2>1. c \in (0..255) \ ignore
    BY LettersAreKept
  <2>2. KeptIn(text, k + 1, ignore) = m + 1
    BY <1>7, <2>1
  <2>3. d \in 0..63
    BY <1>2, RankOfLetter
  <2>4. SixMore(s.acc, d)
    BY <1>5, <2>3, SixBitsMore
  <2>5. KeptAt(text, KeptIn(text, k + 1, ignore), ignore) = text[k + 1]
    BY <1>1, <2>1, KeptLast
  <2>6. SixAt(text, m + 1, ignore, variant) = d
    BY <2>2, <2>5 DEF SixAt
  <2> QED
    BY <2>1, <2>2, <2>3, <2>4, <2>6 DEF SixMore
<1>9. ~s.stop => /\ s.pos = k /\ s.ret = 0 /\ c = text[s.pos + 1]
                 /\ \A i \in 1..k : text[i] \in L \cup ignore
                 /\ Len(s.bin) = (3 * m) \div 4 /\ Len(s.bin) <= maxlen
                 /\ \A i \in 1..Len(s.bin) : s.bin[i] = ReadByte(text, i, ignore, variant)
                 /\ BitsOver(text, s, m, ignore, variant)
  <2> SUFFICES ASSUME ~s.stop
               PROVE  /\ s.pos = k /\ s.ret = 0 /\ c = text[s.pos + 1]
                      /\ \A i \in 1..k : text[i] \in L \cup ignore
                      /\ Len(s.bin) = (3 * m) \div 4 /\ Len(s.bin) <= maxlen
                      /\ \A i \in 1..Len(s.bin) : s.bin[i] = ReadByte(text, i, ignore, variant)
                      /\ BitsOver(text, s, m, ignore, variant)
    OBVIOUS
  <2>1. s.pos = k /\ s.ret = 0
    BY <1>3 DEF DecStopped
  <2> QED
    BY <1>3, <2>1 DEF DecTaken
<1>10. QuartersOf(m)
  BY <1>7, Quarters
<1>11. m % 4 \in 0..3 /\ (m % 4 = 0 => (3 * (m + 1)) \div 4 = (3 * m) \div 4) /\ (m % 4 # 0 => (3 * (m + 1)) \div 4 = (3 * m) \div 4 + 1)
  BY <1>10 DEF QuartersOf
<1>12. ~s.stop => (s.bits = 0 <=> m % 4 = 0)
  BY <1>9, <1>11 DEF BitsOver
<1>13. \A q \in 1..k+1 : q \in 1..k \/ q = k + 1
  BY <1>1
<1>14. c = text[k + 1]
  OBVIOUS
<1> HIDE DEF c, t, d, a, m, L
<1>15. DecTaken(text, t, maxlen, ignore, variant) /\ DecStopped(text, k + 1, t, maxlen, ignore, variant)
  <2>1. CASE s.stop
    <3>1. t = s
      BY <1>6, <2>1
    <3>2. k < k + 1
      BY <1>1
    <3> QED
      BY <1>1, <1>3, <1>5, <2>1, <3>1, <3>2 DEF DecStopped
  <2>2. CASE ~s.stop /\ c \notin L /\ c \in ignore
    <3>1. t = [s EXCEPT !.pos = @ + 1]
      BY <1>6, <2>2
    <3>2. t.pos = k + 1 /\ t.bin = s.bin /\ t.acc = s.acc /\ t.bits = s.bits /\ t.ret = 0 /\ ~t.stop
      BY <1>3, <1>9, <2>2, <3>1, SMT DEF DecStates
    <3>3. KeptIn(text, t.pos, ignore) = m
      BY <1>7, <2>2, <3>2
    <3>4. \A i \in 1..t.pos : text[i] \in L \cup ignore
      BY <1>9, <1>13, <1>14, <2>2, <3>2
    <3>5. BitsOver(text, t, m, ignore, variant)
      BY <1>9, <2>2, <3>2 DEF BitsOver
    <3>6. DecTaken(text, t, maxlen, ignore, variant)
      BY <1>1, <1>9, <2>2, <3>2, <3>3, <3>4, <3>5 DEF DecTaken, L
    <3> QED
      BY <3>2, <3>6 DEF DecStopped
  <2>3. CASE ~s.stop /\ c \notin L /\ c \notin ignore
    <3>1. t = [s EXCEPT !.stop = TRUE]
      BY <1>6, <2>3
    <3>2. t.pos = k /\ t.bin = s.bin /\ t.acc = s.acc /\ t.bits = s.bits /\ t.ret = 0 /\ t.stop
      BY <1>3, <1>9, <2>3, <3>1, SMT DEF DecStates
    <3>3. BitsOver(text, t, m, ignore, variant)
      BY <1>9, <2>3, <3>2 DEF BitsOver
    <3>4. DecTaken(text, t, maxlen, ignore, variant)
      BY <1>1, <1>9, <2>3, <3>2, <3>3 DEF DecTaken, L, m
    <3>5. k < k + 1
      BY <1>1
    <3> QED
      BY <1>14, <2>3, <3>2, <3>4, <3>5 DEF DecStopped, L
  <2>4. CASE ~s.stop /\ c \in L /\ s.bits = 0
    <3>1. t = [s EXCEPT !.acc = a, !.bits = @ + 6, !.pos = @ + 1]
      BY <1>6, <2>4
    <3>2. t.pos = k + 1 /\ t.bin = s.bin /\ t.acc = a /\ t.bits = 6 /\ t.ret = 0 /\ ~t.stop
      BY <1>3, <1>9, <2>4, <3>1, SMT DEF DecStates
    <3>3. KeptIn(text, t.pos, ignore) = m + 1
      BY <1>8, <2>4, <3>2
    <3>4. \A i \in 1..t.pos : text[i] \in L \cup ignore
      BY <1>9, <1>13, <1>14, <2>4, <3>2
    <3>5. BitsOver(text, t, m + 1, ignore, variant)
      <4>1. t.acc % 4 = d % 4 /\ t.acc % 16 = d % 16 /\ t.acc % 64 = d
        BY <1>8, <2>4, <3>2
      <4>2. SixAt(text, m + 1, ignore, variant) = d
        BY <1>8, <2>4
      <4>3. t.bits = IF s.bits = 0 THEN 6 ELSE s.bits - 2
        BY <2>4, <3>2
      <4>4. BitsOver(text, s, m, ignore, variant)
        BY <1>9, <2>4
      <4> QED
        BY <1>7, <4>1, <4>2, <4>3, <4>4, BitsNext
    <3>6. Len(t.bin) = (3 * (m + 1)) \div 4
      BY <1>9, <1>11, <1>12, <2>4, <3>2
    <3>7. DecTaken(text, t, maxlen, ignore, variant)
      BY <1>1, <1>9, <2>4, <3>2, <3>3, <3>4, <3>5, <3>6 DEF DecTaken, L
    <3> QED
      BY <3>2, <3>7 DEF DecStopped
  <2>5. CASE ~s.stop /\ c \in L /\ s.bits # 0 /\ Len(s.bin) >= maxlen
    <3>1. t = [s EXCEPT !.acc = a, !.bits = @ - 2, !.stop = TRUE, !.ret = -1]
      BY <1>6, <2>5
    <3>2. t.pos = k /\ t.bin = s.bin /\ t.ret = -1 /\ t.stop
      BY <1>3, <1>9, <2>5, <3>1, SMT DEF DecStates
    <3>3. DecTaken(text, t, maxlen, ignore, variant)
      BY <1>1, <1>9, <2>5, <3>2 DEF DecTaken, L, m
    <3>4. Len(t.bin) = maxlen /\ m % 4 # 0 /\ k < k + 1
      BY <1>1, <1>5, <1>9, <1>12, <2>5, <3>2
    <3> QED
      BY <1>14, <2>5, <3>2, <3>3, <3>4 DEF DecStopped, L, m
  <2>6. CASE ~s.stop /\ c \in L /\ s.bits # 0 /\ ~(Len(s.bin) >= maxlen)
    <3> DEFINE b == DecByte(s, d)  more == Append(s.bin, b)
    <3>1. t = [s EXCEPT !.acc = a, !.bits = @ - 2, !.bin = more, !.pos = @ + 1]
      BY <1>6, <2>6
    <3>2. b \in 0..255
      BY <1>3, <1>8, <2>6, DecByteIs DEF DecByteInRange
    <3>3. m % 4 # 0 /\ BitsOver(text, s, m, ignore, variant) /\ d = SixAt(text, m + 1, ignore, variant)
      BY <1>8, <1>9, <1>12, <2>6
    <3>4. b = ReadByte(text, (3 * m) \div 4 + 1, ignore, variant)
      BY <1>7, <3>3, ByteRead
    <3> HIDE DEF b
    <3>5. Lengthened(s.bin, b)
      BY <1>5, <3>2, OneMore
    <3>6. Len(more) = Len(s.bin) + 1 /\ (\A i \in 1..Len(s.bin) : more[i] = s.bin[i]) /\ more[Len(s.bin) + 1] = b
      BY <3>5 DEF Lengthened
    <3> HIDE DEF more
    <3>7. t.pos = k + 1 /\ t.bin = more /\ t.acc = a /\ t.bits = s.bits - 2 /\ t.ret = 0 /\ ~t.stop
      BY <1>3, <1>9, <2>6, <3>1, SMT DEF DecStates
    <3>8. KeptIn(text, t.pos, ignore) = m + 1
      BY <1>8, <2>6, <3>7
    <3>9. \A i \in 1..t.pos : text[i] \in L \cup ignore
      BY <1>9, <1>13, <1>14, <2>6, <3>7
    <3>10. BitsOver(text, t, m + 1, ignore, variant)
      <4>1. t.acc % 4 = d % 4 /\ t.acc % 16 = d % 16 /\ t.acc % 64 = d
        BY <1>8, <2>6, <3>7
      <4>2. t.bits = IF s.bits = 0 THEN 6 ELSE s.bits - 2
        BY <2>6, <3>7
      <4> QED
        BY <1>7, <3>3, <4>1, <4>2, BitsNext
    <3>11. Len(s.bin) = (3 * m) \div 4 /\ Len(t.bin) = (3 * (m + 1)) \div 4 /\ Len(t.bin) = Len(s.bin) + 1
      BY <1>9, <1>11, <2>6, <3>3, <3>6, <3>7
    <3>12. Len(t.bin) <= maxlen
      BY <1>5, <2>6, <3>11
    <3>13. ASSUME NEW i \in 1..Len(t.bin) PROVE t.bin[i] = ReadByte(text, i, ignore, variant)
      <4>1. CASE i \in 1..Len(s.bin)
        BY <1>9, <2>6, <3>6, <3>7, <4>1
      <4>2. CASE i = Len(s.bin) + 1
        BY <3>4, <3>6, <3>7, <3>11, <4>2
      <4> QED
        BY <1>5, <3>11, <4>1, <4>2
    <3>14. DecTaken(text, t, maxlen, ignore, variant)
      BY <1>1, <3>7, <3>8, <3>9, <3>10, <3>11, <3>12, <3>13 DEF DecTaken, L
    <3> QED
      BY <3>7, <3>14 DEF DecStopped
  <2> QED
    BY <2>1, <2>2, <2>3, <2>4, <2>5, <2>6
<1> QED
  BY <1>4, <1>15 DEF Decoding, t, c

\* And the last turn has read what there is to read.
LEMMA DecTurnsRead ==
    ASSUME NEW n \in Nat, NEW text \in Bytes(n), NEW maxlen \in Nat, NEW variant \in Variants, NEW ignore, Apart(ignore, variant),
           NEW s, DecTurns(text, maxlen, ignore, variant, s)
    PROVE  Decoding(text, n, s[n], maxlen, ignore, variant)
<1> DEFINE S == {k \in 0..n : Decoding(text, k, s[k], maxlen, ignore, variant)}
<1>0. Len(text) = n
  BY LenOfBytes
<1>1. 0 \in S
  <2>1. s[0] = DecBegun
    BY DEF DecTurns
  <2>2. DecBegun \in DecStates
    <3>1. 0 \in 0..Uint-1 /\ <<>> \in Binaries
      BY UintIsNat DEF Binaries
    <3> QED
      BY <3>1 DEF DecBegun, DecStates, AccWords, BitsLeft
  <2>3. KeptIn(text, 0, ignore) = 0
    <3>1. KeptNumber(text, 0, ignore)
      BY KeptNext
    <3> QED
      BY <3>1 DEF KeptNumber
  <2>4. 0 % 4 = 0 /\ (3 * 0) \div 4 = 0
    OBVIOUS
  <2>5. DecTaken(text, DecBegun, maxlen, ignore, variant)
    BY <1>0, <2>3, <2>4 DEF DecTaken, DecBegun, BitsOver
  <2>6. DecStopped(text, 0, DecBegun, maxlen, ignore, variant)
    BY DEF DecStopped, DecBegun
  <2> QED
    BY <2>1, <2>2, <2>5, <2>6 DEF Decoding
<1>2. ASSUME NEW k \in 0..n, k < n, k \in S PROVE k + 1 \in S
  <2>1. s[k + 1] = Base64Turn(s[k], text[k + 1], maxlen, ignore, variant, FALSE)
    <3>1. k + 1 \in 1..n /\ k + 1 - 1 = k
      BY <1>2
    <3> DEFINE T(p, b) == Base64Turn(p, b, maxlen, ignore, variant, FALSE)
    <3>2. \A i \in 1..n : s[i] = T(s[i - 1], text[i])
      BY <1>0 DEF DecTurns
    <3> HIDE DEF T
    <3>3. s[k + 1] = T(s[k], text[k + 1])
      BY <3>1, <3>2
    <3> QED
      BY <3>3 DEF T
  <2>2. Decoding(text, k, s[k], maxlen, ignore, variant)
    BY <1>2
  <2>3. Decoding(text, k + 1, s[k + 1], maxlen, ignore, variant)
    BY <1>2, <2>1, <2>2, DecTurnReads
  <2> QED
    BY <1>2, <2>3
<1> HIDE DEF S
<1>3. 0..n \subseteq S
  BY <1>1, <1>2, TurnInduction
<1> QED
  BY <1>3 DEF S

-----------------------------------------------------------------------------
(* Bytes and numbers of 6 bits determine each other.                       *)

\* The number of a letter of the alphabet.
LEMMA RankOfAlphabet ==
    ASSUME NEW x \in 0..63, NEW variant \in Variants
    PROVE  Rank(Alphabet(variant)[x], variant) = x
<1> DEFINE l == Last2(variant)
<1>1. l = <<43, 47>> \/ l = <<45, 95>>
  BY DEF Last2
<1>2. Alphabet(variant)[x] = IF x < 26 THEN 65 + x ELSE IF x < 52 THEN 71 + x ELSE IF x < 62 THEN x - 4 ELSE l[x - 61]
  BY DEF Alphabet
<1>3. \A c : Rank(c, variant) = IF c \in 65..90 THEN c - 65 ELSE IF c \in 97..122 THEN c - 71 ELSE IF c \in 48..57 THEN c + 4
          ELSE IF c = l[1] THEN 62 ELSE IF c = l[2] THEN 63 ELSE 255
  BY DEF Rank
<1> HIDE DEF l
<1> QED
  BY <1>1, <1>2, <1>3

\* The bits left over of m characters that no encoding leaves.
Loose(text, m, ignore, variant) ==
    LET v == SixAt(text, m, ignore, variant)
    IN m % 4 = 1 \/ (m % 4 = 2 /\ v % 16 # 0) \/ (m % 4 = 3 /\ v % 4 # 0)
\* How many characters = come after m letters.
PadsAfter(m) == IF m % 4 = 2 THEN 2 ELSE IF m % 4 = 3 THEN 1 ELSE 0

\* The lengths of m letters without such bits.
LettersLength(m) ==
    LET n == (3 * m) \div 4 q == m \div 4
    IN /\ q \in Nat /\ n \in Nat /\ (4 * n + 2) \div 3 = m /\ (3 - (n % 3)) % 3 = PadsAfter(m)
       /\ (m = 4 * q /\ n = 3 * q) \/ (m = 4 * q + 2 /\ n = 3 * q + 1) \/ (m = 4 * q + 3 /\ n = 3 * q + 2)
LEMMA LengthOfLetters ==
    ASSUME NEW m \in Nat, m % 4 # 1
    PROVE  LettersLength(m)
<1> DEFINE n == (3 * m) \div 4  q == m \div 4
<1>1. QuartersOf(m)
  BY Quarters
<1>2. q \in Nat /\ n \in Nat /\ m % 4 \in 0..3
  BY <1>1 DEF QuartersOf
<1>3. /\ m % 4 = 0 => m = 4 * q /\ n = 3 * q
      /\ m % 4 = 2 => m = 4 * q + 2 /\ n = 3 * q + 1
      /\ m % 4 = 3 => m = 4 * q + 3 /\ n = 3 * q + 2
  BY <1>1 DEF QuartersOf
<1> HIDE DEF n, q
<1>4. CASE m % 4 = 0
  <2>1. n = 3 * q /\ m = 4 * q
    BY <1>3, <1>4
  <2>2. (4 * n + 2) \div 3 = m /\ n % 3 = 0 /\ (3 - 0) % 3 = 0
    BY <1>2, <2>1
  <2> QED
    BY <1>2, <1>4, <2>1, <2>2 DEF n, q, LettersLength, PadsAfter
<1>5. CASE m % 4 = 2
  <2>1. n = 3 * q + 1 /\ m = 4 * q + 2
    BY <1>3, <1>5
  <2>2. (4 * n + 2) \div 3 = m /\ n % 3 = 1 /\ (3 - 1) % 3 = 2
    BY <1>2, <2>1
  <2> QED
    BY <1>2, <1>5, <2>1, <2>2 DEF n, q, LettersLength, PadsAfter
<1>6. CASE m % 4 = 3
  <2>1. n = 3 * q + 2 /\ m = 4 * q + 3
    BY <1>3, <1>6
  <2>2. (4 * n + 2) \div 3 = m /\ n % 3 = 2 /\ (3 - 2) % 3 = 1
    BY <1>2, <2>1
  <2> QED
    BY <1>2, <1>6, <2>1, <2>2 DEF n, q, LettersLength, PadsAfter
<1> QED
  BY <1>2, <1>4, <1>5, <1>6

\* And of an encoding of n bytes.
EncodingLength(n) ==
    LET m == (4 * n + 2) \div 3
    IN m \in Nat /\ m % 4 # 1 /\ (3 * m) \div 4 = n /\ (3 - (n % 3)) % 3 = PadsAfter(m)
LEMMA LengthOfEncoding ==
    ASSUME NEW n \in Nat
    PROVE  EncodingLength(n)
<1> DEFINE q == n \div 3  m == (4 * n + 2) \div 3
<1>1. q \in Nat /\ (n = 3 * q \/ n = 3 * q + 1 \/ n = 3 * q + 2)
  OBVIOUS
<1> HIDE DEF q
<1>2. CASE n = 3 * q
  <2>1. m = 4 * q
    BY <1>1, <1>2
  <2> HIDE DEF m
  <2>2. m \in Nat /\ m % 4 = 0 /\ (3 * m) \div 4 = n /\ n % 3 = 0 /\ (3 - 0) % 3 = 0
    BY <1>1, <1>2, <2>1
  <2> QED
    BY <2>2 DEF EncodingLength, PadsAfter, m
<1>3. CASE n = 3 * q + 1
  <2>1. m = 4 * q + 2
    BY <1>1, <1>3
  <2> HIDE DEF m
  <2>2. m \in Nat /\ m % 4 = 2 /\ (3 * m) \div 4 = n /\ n % 3 = 1 /\ (3 - 1) % 3 = 2
    BY <1>1, <1>3, <2>1
  <2> QED
    BY <2>2 DEF EncodingLength, PadsAfter, m
<1>4. CASE n = 3 * q + 2
  <2>1. m = 4 * q + 3
    BY <1>1, <1>4
  <2> HIDE DEF m
  <2>2. m \in Nat /\ m % 4 = 3 /\ (3 * m) \div 4 = n /\ n % 3 = 2 /\ (3 - 2) % 3 = 1
    BY <1>1, <1>4, <2>1
  <2> QED
    BY <2>2 DEF EncodingLength, PadsAfter, m
<1> QED
  BY <1>1, <1>2, <1>3, <1>4

\* Four numbers of 6 bits and three bytes.
Split(v, w) ==
    /\ (4 * v + (w \div 16)) \div 4 = v /\ (4 * v + (w \div 16)) % 4 = w \div 16
    /\ (16 * (v % 16) + (w \div 4)) \div 16 = v % 16 /\ (16 * (v % 16) + (w \div 4)) % 16 = w \div 4
    /\ (64 * (v % 4) + w) \div 64 = v % 4 /\ (64 * (v % 4) + w) % 64 = w
    /\ 16 * (v \div 16) + (v % 16) = v /\ 4 * (v \div 4) + (v % 4) = v
LEMMA ThreeOfFour ==
    ASSUME NEW v \in 0..63, NEW w \in 0..63
    PROVE  Split(v, w)
BY DEF Split
ReadsThree(text, q, ignore, variant) ==
    LET v(j) == SixAt(text, 4 * q + j, ignore, variant)
    IN /\ ReadByte(text, 3 * q + 1, ignore, variant) = 4 * v(1) + (v(2) \div 16)
       /\ ReadByte(text, 3 * q + 2, ignore, variant) = 16 * (v(2) % 16) + (v(3) \div 4)
       /\ ReadByte(text, 3 * q + 3, ignore, variant) = 64 * (v(3) % 4) + v(4)
LEMMA ThreeRead ==
    ASSUME NEW text, NEW q \in Nat, NEW ignore, NEW variant
    PROVE  ReadsThree(text, q, ignore, variant)
<1>1. /\ (3 * q + 1 - 1) \div 3 = q /\ (3 * q + 1) % 3 = 1
      /\ (3 * q + 2 - 1) \div 3 = q /\ (3 * q + 2) % 3 = 2
      /\ (3 * q + 3 - 1) \div 3 = q /\ (3 * q + 3) % 3 = 0
  OBVIOUS
<1> DEFINE V(j) == SixAt(text, j, ignore, variant)
           R(i, p) == IF i % 3 = 1 THEN 4 * V(4 * p + 1) + (V(4 * p + 2) \div 16)
                      ELSE IF i % 3 = 2 THEN 16 * (V(4 * p + 2) % 16) + (V(4 * p + 3) \div 4) ELSE 64 * (V(4 * p + 3) % 4) + V(4 * p + 4)
<1>2. \A i : ReadByte(text, i, ignore, variant) = R(i, (i - 1) \div 3)
  BY DEF ReadByte
<1>3. /\ R(3 * q + 1, q) = 4 * V(4 * q + 1) + (V(4 * q + 2) \div 16)
      /\ R(3 * q + 2, q) = 16 * (V(4 * q + 2) % 16) + (V(4 * q + 3) \div 4)
      /\ R(3 * q + 3, q) = 64 * (V(4 * q + 3) % 4) + V(4 * q + 4)
  <2> HIDE DEF V
  <2> QED
    BY <1>1
<1>4. /\ ReadByte(text, 3 * q + 1, ignore, variant) = R(3 * q + 1, q)
      /\ ReadByte(text, 3 * q + 2, ignore, variant) = R(3 * q + 2, q)
      /\ ReadByte(text, 3 * q + 3, ignore, variant) = R(3 * q + 3, q)
  <2> HIDE DEF R
  <2> QED
    BY <1>1, <1>2
<1> QED
  BY <1>3, <1>4 DEF ReadsThree

\* The bytes that are read from the letters have their numbers.
LEMMA BytesHaveSixes ==
    ASSUME NEW text, NEW ignore, NEW variant, NEW m \in Nat, ~Loose(text, m, ignore, variant),
           \A j \in 1..m : SixAt(text, j, ignore, variant) \in 0..63,
           NEW bin \in Binaries, Len(bin) = (3 * m) \div 4,
           \A i \in 1..Len(bin) : bin[i] = ReadByte(text, i, ignore, variant),
           NEW j \in 1..m
    PROVE  SixBits(bin, j - 1) = SixAt(text, j, ignore, variant)
<1> DEFINE n == (3 * m) \div 4  V(i) == SixAt(text, i, ignore, variant)  q == (j - 1) \div 4
           B1 == ByteAt(bin, 3 * q + 1)  B2 == ByteAt(bin, 3 * q + 2)  B3 == ByteAt(bin, 3 * q + 3)
<1>1. /\ m % 4 # 1 /\ (m % 4 = 2 => V(m) % 16 = 0) /\ (m % 4 = 3 => V(m) % 4 = 0)
  BY DEF Loose
<1>2. LettersLength(m)
  BY <1>1, LengthOfLetters
<1>3. \E h \in Nat : (m = 4 * h /\ n = 3 * h) \/ (m = 4 * h + 2 /\ n = 3 * h + 1) \/ (m = 4 * h + 3 /\ n = 3 * h + 2)
  BY <1>2 DEF LettersLength
<1>4. q \in Nat /\ (j = 4 * q + 1 \/ j = 4 * q + 2 \/ j = 4 * q + 3 \/ j = 4 * q + 4)
  OBVIOUS
<1>5. n \in Nat
  BY <1>3
<1>6. bin \in Bytes(n) /\ Len(bin) = n
  BY BinariesAreBytes
<1>7. SixBitsOf(bin, q)
  BY <1>4, <1>5, <1>6, FourOfThree
<1>8. \A i \in 1..m : V(i) \in 0..63
  OBVIOUS
<1>9. /\ ReadByte(text, 3 * q + 1, ignore, variant) = 4 * V(4 * q + 1) + (V(4 * q + 2) \div 16)
      /\ ReadByte(text, 3 * q + 2, ignore, variant) = 16 * (V(4 * q + 2) % 16) + (V(4 * q + 3) \div 4)
      /\ ReadByte(text, 3 * q + 3, ignore, variant) = 64 * (V(4 * q + 3) % 4) + V(4 * q + 4)
  <2>1. ReadsThree(text, q, ignore, variant)
    BY <1>4, ThreeRead
  <2> QED
    BY <2>1 DEF ReadsThree
<1>10. \A i \in 1..n : bin[i] = ReadByte(text, i, ignore, variant)
  OBVIOUS
<1> HIDE DEF n, V, q
<1>11. 3 * q + 1 <= n => B1 = 4 * V(4 * q + 1) + (V(4 * q + 2) \div 16)
  <2> SUFFICES ASSUME 3 * q + 1 <= n PROVE B1 = 4 * V(4 * q + 1) + (V(4 * q + 2) \div 16)
    OBVIOUS
  <2>1. 3 * q + 1 \in 1..n 
    BY <1>4, <1>5
  <2>3. B1 = bin[3 * q + 1]
    BY <1>4, <1>5, <1>6, <2>1 DEF ByteAt
  <2> QED
    BY <1>9, <1>10, <2>1, <2>3
<1>12. 3 * q + 2 <= n => B2 = 16 * (V(4 * q + 2) % 16) + (V(4 * q + 3) \div 4)
  <2> SUFFICES ASSUME 3 * q + 2 <= n PROVE B2 = 16 * (V(4 * q + 2) % 16) + (V(4 * q + 3) \div 4)
    OBVIOUS
  <2>1. 3 * q + 2 \in 1..n 
    BY <1>4, <1>5
  <2>3. B2 = bin[3 * q + 2]
    BY <1>4, <1>5, <1>6, <2>1 DEF ByteAt
  <2> QED
    BY <1>9, <1>10, <2>1, <2>3
<1>13. 3 * q + 3 <= n => B3 = 64 * (V(4 * q + 3) % 4) + V(4 * q + 4)
  <2> SUFFICES ASSUME 3 * q + 3 <= n PROVE B3 = 64 * (V(4 * q + 3) % 4) + V(4 * q + 4)
    OBVIOUS
  <2>1. 3 * q + 3 \in 1..n 
    BY <1>4, <1>5
  <2>3. B3 = bin[3 * q + 3]
    BY <1>4, <1>5, <1>6, <2>1 DEF ByteAt
  <2> QED
    BY <1>9, <1>10, <2>1, <2>3
<1>14. (3 * q + 2 > n => B2 = 0) /\ (3 * q + 3 > n => B3 = 0)
  BY <1>4, <1>5, <1>6 DEF ByteAt
<1>15. /\ SixBits(bin, 4 * q) = B1 \div 4
       /\ SixBits(bin, 4 * q + 1) = 16 * (B1 % 4) + (B2 \div 16)
       /\ SixBits(bin, 4 * q + 2) = 4 * (B2 % 16) + (B3 \div 64)
       /\ SixBits(bin, 4 * q + 3) = B3 % 64
  BY <1>7 DEF SixBitsOf
<1> HIDE DEF B1, B2, B3
<1>16. CASE j = 4 * q + 1
  <2>1. 4 * q + 1 \in 1..m /\ 4 * q + 2 \in 1..m /\ 3 * q + 1 <= n
    BY <1>3, <1>4, <1>16
  <2>2. V(4 * q + 1) \in 0..63 /\ V(4 * q + 2) \in 0..63
    BY <1>8, <2>1, Zenon
  <2>s. Split(V(4 * q + 1), V(4 * q + 2))
    BY <2>2, ThreeOfFour, Zenon
  <2>3. B1 \div 4 = V(4 * q + 1)
    BY <1>11, <2>1, <2>s DEF Split
  <2>4. j - 1 = 4 * q
    BY <1>4, <1>16
  <2> QED
    BY <1>15, <1>16, <2>3, <2>4 DEF V
<1>17. CASE j = 4 * q + 2
  <2>1. 4 * q + 1 \in 1..m /\ 4 * q + 2 \in 1..m /\ 3 * q + 1 <= n
    BY <1>3, <1>4, <1>17
  <2>2. V(4 * q + 1) \in 0..63 /\ V(4 * q + 2) \in 0..63
    BY <1>8, <2>1
  <2>s. Split(V(4 * q + 1), V(4 * q + 2))
    BY <2>2, ThreeOfFour
  <2>3. B1 % 4 = V(4 * q + 2) \div 16
    BY <1>11, <2>1, <2>s DEF Split
  <2>4. B2 \div 16 = V(4 * q + 2) % 16
    <3>1. CASE 3 * q + 2 <= n
      <4>1. 4 * q + 3 \in 1..m
        BY <1>3, <1>4, <1>17, <3>1
      <4>2. V(4 * q + 3) \in 0..63
        BY <1>8, <4>1
      <4> QED
        <5>1. Split(V(4 * q + 2), V(4 * q + 3))
          BY <2>2, <4>2, ThreeOfFour, Zenon
        <5> QED
          BY <1>12, <3>1, <5>1, Zenon DEF Split
    <3>2. CASE 3 * q + 2 > n
      <4>1. m = 4 * q + 2
        BY <1>3, <1>4, <1>17, <3>2
      <4>2. m % 4 = 2 /\ 0 \div 16 = 0
        BY <1>4, <4>1
      <4> QED
        BY <1>1, <1>14, <3>2, <4>1, <4>2
    <3> QED
      BY <1>4, <1>5, <3>1, <3>2
  <2>5. j - 1 = 4 * q + 1
    BY <1>4, <1>17
  <2>6. 16 * (V(4 * q + 2) \div 16) + (V(4 * q + 2) % 16) = V(4 * q + 2)
    <3>1. Split(V(4 * q + 2), V(4 * q + 2))
      BY <2>2, ThreeOfFour, Zenon
    <3> QED
      BY <3>1, Zenon DEF Split
  <2> QED
    BY <1>15, <1>17, <2>3, <2>4, <2>5, <2>6 DEF V
<1>18. CASE j = 4 * q + 3
  <2>1. 4 * q + 2 \in 1..m /\ 4 * q + 3 \in 1..m /\ 3 * q + 2 <= n
    BY <1>3, <1>4, <1>18
  <2>2. V(4 * q + 2) \in 0..63 /\ V(4 * q + 3) \in 0..63
    BY <1>8, <2>1, Zenon
  <2>s. Split(V(4 * q + 2), V(4 * q + 3))
    BY <2>2, ThreeOfFour, Zenon
  <2>3. B2 % 16 = V(4 * q + 3) \div 4
    BY <1>12, <2>1, <2>s DEF Split
  <2>4. B3 \div 64 = V(4 * q + 3) % 4
    <3>1. CASE 3 * q + 3 <= n
      <4>1. 4 * q + 4 \in 1..m
        BY <1>3, <1>4, <1>18, <3>1
      <4>2. V(4 * q + 4) \in 0..63
        BY <1>8, <4>1
      <4> QED
        <5>1. Split(V(4 * q + 3), V(4 * q + 4))
          BY <2>2, <4>2, ThreeOfFour, Zenon
        <5> QED
          BY <1>13, <3>1, <5>1, Zenon DEF Split
    <3>2. CASE 3 * q + 3 > n
      <4>1. m = 4 * q + 3
        BY <1>3, <1>4, <1>18, <3>2
      <4>2. m % 4 = 3 /\ 0 \div 64 = 0
        BY <1>4, <4>1
      <4> QED
        BY <1>1, <1>14, <3>2, <4>1, <4>2
    <3> QED
      BY <1>4, <1>5, <3>1, <3>2
  <2>5. j - 1 = 4 * q + 2
    BY <1>4, <1>18
  <2>6. 4 * (V(4 * q + 3) \div 4) + (V(4 * q + 3) % 4) = V(4 * q + 3)
    <3>1. Split(V(4 * q + 3), V(4 * q + 3))
      BY <2>2, ThreeOfFour, Zenon
    <3> QED
      BY <3>1, Zenon DEF Split
  <2> QED
    BY <1>15, <1>18, <2>3, <2>4, <2>5, <2>6 DEF V
<1>19. CASE j = 4 * q + 4
  <2>1. 4 * q + 3 \in 1..m /\ 4 * q + 4 \in 1..m /\ 3 * q + 3 <= n
    BY <1>3, <1>4, <1>19
  <2>2. V(4 * q + 3) \in 0..63 /\ V(4 * q + 4) \in 0..63
    BY <1>8, <2>1, Zenon
  <2>s. Split(V(4 * q + 3), V(4 * q + 4))
    BY <2>2, ThreeOfFour, Zenon
  <2>3. B3 % 64 = V(4 * q + 4)
    BY <1>13, <2>1, <2>s DEF Split
  <2>4. j - 1 = 4 * q + 3
    BY <1>4, <1>19
  <2> QED
    BY <1>15, <1>19, <2>3, <2>4 DEF V
<1> QED
  BY <1>4, <1>16, <1>17, <1>18, <1>19

\* Three bytes from four numbers of 6 bits.
Meet(a, b, c) ==
    /\ 4 * (a \div 4) + ((16 * (a % 4) + (b \div 16)) \div 16) = a
    /\ 16 * ((16 * (a % 4) + (b \div 16)) % 16) + ((4 * (b % 16) + (c \div 64)) \div 4) = b
    /\ 64 * ((4 * (b % 16) + (c \div 64)) % 4) + (c % 64) = c
    /\ (b = 0 => (16 * (a % 4) + (b \div 16)) % 16 = 0) /\ (c = 0 => (4 * (b % 16) + (c \div 64)) % 4 = 0)
LEMMA ThreeMeet ==
    ASSUME NEW a \in 0..255, NEW b \in 0..255, NEW c \in 0..255
    PROVE  Meet(a, b, c)
<1>1. 4 * (a \div 4) + ((16 * (a % 4) + (b \div 16)) \div 16) = a
  OBVIOUS
<1>2. 16 * ((16 * (a % 4) + (b \div 16)) % 16) + ((4 * (b % 16) + (c \div 64)) \div 4) = b
  OBVIOUS
<1>3. 64 * ((4 * (b % 16) + (c \div 64)) % 4) + (c % 64) = c
  OBVIOUS
<1>4. (b = 0 => (16 * (a % 4) + (b \div 16)) % 16 = 0) /\ (c = 0 => (4 * (b % 16) + (c \div 64)) % 4 = 0)
  OBVIOUS
<1> QED
  BY <1>1, <1>2, <1>3, <1>4 DEF Meet

\* Letters that have the numbers of bytes are read as those bytes, and leave nothing over.
LEMMA SixesHaveBytes ==
    ASSUME NEW text, NEW ignore, NEW variant, NEW n \in Nat, NEW b \in Bytes(n),
           \A j \in 1..((4 * n + 2) \div 3) : SixAt(text, j, ignore, variant) = SixBits(b, j - 1)
    PROVE  /\ \A i \in 1..n : ReadByte(text, i, ignore, variant) = b[i]
           /\ ~Loose(text, (4 * n + 2) \div 3, ignore, variant)
<1> DEFINE m == (4 * n + 2) \div 3  V(j) == SixAt(text, j, ignore, variant)
<1>1. EncodingLength(n)
  BY LengthOfEncoding
<1>2. m \in Nat /\ m % 4 # 1 /\ (3 * m) \div 4 = n
  BY <1>1 DEF EncodingLength
<1>3. LettersLength(m)
  BY <1>2, LengthOfLetters
<1>4. PICK h \in Nat : (m = 4 * h /\ n = 3 * h) \/ (m = 4 * h + 2 /\ n = 3 * h + 1) \/ (m = 4 * h + 3 /\ n = 3 * h + 2)
  BY <1>2, <1>3 DEF LettersLength
<1>5. \A j \in 1..m : V(j) = SixBits(b, j - 1)
  OBVIOUS
<1>6. Len(b) = n
  BY LenOfBytes
<1> HIDE DEF m, V
<1>7. ASSUME NEW q \in Nat
      PROVE  LET B1 == ByteAt(b, 3 * q + 1) B2 == ByteAt(b, 3 * q + 2) B3 == ByteAt(b, 3 * q + 3)
             IN /\ 4 * q + 1 \in 1..m => V(4 * q + 1) = B1 \div 4
                /\ 4 * q + 2 \in 1..m => V(4 * q + 2) = 16 * (B1 % 4) + (B2 \div 16)
                /\ 4 * q + 3 \in 1..m => V(4 * q + 3) = 4 * (B2 % 16) + (B3 \div 64)
                /\ 4 * q + 4 \in 1..m => V(4 * q + 4) = B3 % 64
  <2>1. SixBitsOf(b, q)
    BY <1>7, FourOfThree
  <2>2. 4 * q + 1 - 1 = 4 * q /\ 4 * q + 2 - 1 = 4 * q + 1 /\ 4 * q + 3 - 1 = 4 * q + 2 /\ 4 * q + 4 - 1 = 4 * q + 3
    BY <1>7
  <2>3. /\ 4 * q + 1 \in 1..m => V(4 * q + 1) = SixBits(b, 4 * q)
        /\ 4 * q + 2 \in 1..m => V(4 * q + 2) = SixBits(b, 4 * q + 1)
        /\ 4 * q + 3 \in 1..m => V(4 * q + 3) = SixBits(b, 4 * q + 2)
        /\ 4 * q + 4 \in 1..m => V(4 * q + 4) = SixBits(b, 4 * q + 3)
    BY <1>5, <2>2
  <2> QED
    BY <2>1, <2>3 DEF SixBitsOf
<1>8. ASSUME NEW q \in Nat
      PROVE  Meet(ByteAt(b, 3 * q + 1), ByteAt(b, 3 * q + 2), ByteAt(b, 3 * q + 3))
  <2>1. ByteAt(b, 3 * q + 1) \in 0..255 /\ ByteAt(b, 3 * q + 2) \in 0..255 /\ ByteAt(b, 3 * q + 3) \in 0..255
    BY <1>8, ByteAtIsByte
  <2> QED
    BY <2>1, ThreeMeet, Zenon
<1>9. ASSUME NEW i \in 1..n PROVE ReadByte(text, i, ignore, variant) = b[i]
  <2> DEFINE q == (i - 1) \div 3  B1 == ByteAt(b, 3 * q + 1)  B2 == ByteAt(b, 3 * q + 2)  B3 == ByteAt(b, 3 * q + 3)
  <2>1. q \in Nat /\ (i = 3 * q + 1 \/ i = 3 * q + 2 \/ i = 3 * q + 3)
    OBVIOUS
  <2> HIDE DEF q
  <2>2. ReadsThree(text, q, ignore, variant)
    BY <2>1, ThreeRead
  <2>3. /\ ReadByte(text, 3 * q + 1, ignore, variant) = 4 * V(4 * q + 1) + (V(4 * q + 2) \div 16)
        /\ ReadByte(text, 3 * q + 2, ignore, variant) = 16 * (V(4 * q + 2) % 16) + (V(4 * q + 3) \div 4)
        /\ ReadByte(text, 3 * q + 3, ignore, variant) = 64 * (V(4 * q + 3) % 4) + V(4 * q + 4)
    BY <2>2 DEF ReadsThree, V
  <2>4. /\ 4 * q + 1 \in 1..m => V(4 * q + 1) = B1 \div 4
        /\ 4 * q + 2 \in 1..m => V(4 * q + 2) = 16 * (B1 % 4) + (B2 \div 16)
        /\ 4 * q + 3 \in 1..m => V(4 * q + 3) = 4 * (B2 % 16) + (B3 \div 64)
        /\ 4 * q + 4 \in 1..m => V(4 * q + 4) = B3 % 64
    BY <1>7, <2>1
  <2>5. Meet(B1, B2, B3)
    BY <1>8, <2>1
  <2>6. \A k \in 1..n : ByteAt(b, k) = b[k]
    BY <1>6 DEF ByteAt
  <2>7. CASE i = 3 * q + 1
    <3>1. 4 * q + 1 \in 1..m /\ 4 * q + 2 \in 1..m
      BY <1>4, <2>1, <2>7
    <3>2. B1 = b[i]
      BY <2>6, <2>7
    <3>3. 4 * (B1 \div 4) + ((16 * (B1 % 4) + (B2 \div 16)) \div 16) = B1
      BY <2>5 DEF Meet
    <3> HIDE DEF B1, B2, B3
    <3>4. 4 * V(4 * q + 1) + (V(4 * q + 2) \div 16) = B1
      BY <2>4, <3>1, <3>3
    <3> QED
      BY <2>3, <2>7, <3>2, <3>4
  <2>8. CASE i = 3 * q + 2
    <3>1. 4 * q + 2 \in 1..m /\ 4 * q + 3 \in 1..m
      BY <1>4, <2>1, <2>8
    <3>2. B2 = b[i]
      BY <2>6, <2>8
    <3>3. 16 * ((16 * (B1 % 4) + (B2 \div 16)) % 16) + ((4 * (B2 % 16) + (B3 \div 64)) \div 4) = B2
      BY <2>5 DEF Meet
    <3> HIDE DEF B1, B2, B3
    <3>4. 16 * (V(4 * q + 2) % 16) + (V(4 * q + 3) \div 4) = B2
      BY <2>4, <3>1, <3>3
    <3> QED
      BY <2>3, <2>8, <3>2, <3>4
  <2>9. CASE i = 3 * q + 3
    <3>1. 4 * q + 3 \in 1..m /\ 4 * q + 4 \in 1..m
      BY <1>4, <2>1, <2>9
    <3>2. B3 = b[i]
      BY <2>6, <2>9
    <3>3. 64 * ((4 * (B2 % 16) + (B3 \div 64)) % 4) + (B3 % 64) = B3
      BY <2>5 DEF Meet
    <3> HIDE DEF B1, B2, B3
    <3>4. 64 * (V(4 * q + 3) % 4) + V(4 * q + 4) = B3
      BY <2>4, <3>1, <3>3
    <3> QED
      BY <2>3, <2>9, <3>2, <3>4
  <2> QED
    BY <2>1, <2>7, <2>8, <2>9
<1>10. (m % 4 = 2 => V(m) % 16 = 0) /\ (m % 4 = 3 => V(m) % 4 = 0)
  <2> DEFINE B1 == ByteAt(b, 3 * h + 1)  B2 == ByteAt(b, 3 * h + 2)  B3 == ByteAt(b, 3 * h + 3)
  <2>1. /\ 4 * h + 2 \in 1..m => V(4 * h + 2) = 16 * (B1 % 4) + (B2 \div 16)
        /\ 4 * h + 3 \in 1..m => V(4 * h + 3) = 4 * (B2 % 16) + (B3 \div 64)
    BY <1>7
  <2>2. Meet(B1, B2, B3)
    BY <1>8
  <2>3. (B2 = 0 => (16 * (B1 % 4) + (B2 \div 16)) % 16 = 0) /\ (B3 = 0 => (4 * (B2 % 16) + (B3 \div 64)) % 4 = 0)
    BY <2>2 DEF Meet
  <2>4. (3 * h + 2 > n => B2 = 0) /\ (3 * h + 3 > n => B3 = 0)
    BY <1>6 DEF ByteAt
  <2> HIDE DEF B1, B2, B3
  <2>5. CASE m = 4 * h
    <3>1. m % 4 = 0
      BY <2>5
    <3> QED
      BY <3>1
  <2>6. CASE m = 4 * h + 2 /\ n = 3 * h + 1
    <3>1. m % 4 = 2 /\ 4 * h + 2 \in 1..m /\ 3 * h + 2 > n
      BY <2>6
    <3> QED
      BY <2>1, <2>3, <2>4, <2>6, <3>1
  <2>7. CASE m = 4 * h + 3 /\ n = 3 * h + 2
    <3>1. m % 4 = 3 /\ 4 * h + 3 \in 1..m /\ 3 * h + 3 > n
      BY <2>7
    <3> QED
      BY <2>1, <2>3, <2>4, <2>7, <3>1
  <2> QED
    BY <1>4, <2>5, <2>6, <2>7
<1>11. ~Loose(text, m, ignore, variant)
  BY <1>2, <1>10 DEF Loose, V
<1> QED
  BY <1>9, <1>11 DEF m

-----------------------------------------------------------------------------
(* The text that is kept.                                                  *)

\* Kept characters are where they are counted.
LEMMA KeptIsThere ==
    ASSUME NEW n \in Nat, NEW text \in Bytes(n), NEW ignore, NEW e \in 0..n, NEW j \in 1..KeptIn(text, e, ignore)
    PROVE  \E k \in 1..e : /\ KeptAt(text, j, ignore) = text[k] /\ text[k] \in (0..255) \ ignore
                           /\ KeptIn(text, k, ignore) = j
<1> DEFINE set == (0..255) \ ignore
<1>1. Len(text) = n
  BY LenOfBytes
<1>2. j \in 1..CountIn(text, e, set)
  BY DEF KeptIn
<1>3. /\ PlaceOf(text, j, set) \in 1..e /\ text[PlaceOf(text, j, set)] \in set
      /\ CountIn(text, PlaceOf(text, j, set), set) = j
  <2>1. Len(text) \in Nat /\ e \in 0..Len(text)
    BY <1>1
  <2> HIDE DEF set
  <2> QED
    BY <1>2, <2>1, CountedAtPlace
<1> QED
  BY <1>3 DEF KeptIn, KeptAt

\* The text kept, as a text.
LEMMA KeptIsText ==
    ASSUME NEW n \in Nat, NEW text \in Bytes(n), NEW ignore, NEW e \in 0..n
    PROVE  /\ Kept(text, e, ignore) \in Binaries /\ Len(Kept(text, e, ignore)) = KeptIn(text, e, ignore)
           /\ KeptIn(text, e, ignore) \in Nat
           /\ \A j \in 1..KeptIn(text, e, ignore) : Kept(text, e, ignore)[j] = KeptAt(text, j, ignore)
<1> DEFINE m == KeptIn(text, e, ignore)  K == Kept(text, e, ignore)
<1>1. m \in Nat
  <2>1. KeptNumber(text, e, ignore)
    BY KeptNext
  <2> QED
    BY <2>1 DEF KeptNumber
<1>2. \A j \in 1..m : KeptAt(text, j, ignore) \in 0..255
  BY KeptIsThere
<1>3. K = [j \in 1..m |-> KeptAt(text, j, ignore)]
  BY DEF Kept
<1> HIDE DEF K, m
<1>4. K \in Bytes(m) /\ \A j \in 1..m : K[j] = KeptAt(text, j, ignore)
  BY <1>2, <1>3 DEF Bytes
<1>5. K \in Binaries /\ Len(K) = m
  BY <1>1, <1>4, BytesAreBinaries
<1> QED
  BY <1>1, <1>4, <1>5 DEF K, m

\* The letters of a beginning that has them, and then characters =.
Lettered64(text, e, m, ignore, variant) ==
    /\ KeptIn(text, e, ignore) = m + (IF Unpadded(variant) THEN 0 ELSE PadsAfter(m))
    /\ \A j \in 1..m : KeptAt(text, j, ignore) \in Letters(variant)
    /\ \A j \in m+1..KeptIn(text, e, ignore) : KeptAt(text, j, ignore) = 61

\* A letter has a number.
OfRank(c, variant) == Rank(c, variant) \in 0..63 /\ Alphabet(variant)[Rank(c, variant)] = c
LEMMA LetterHasRank ==
    ASSUME NEW variant \in Variants, NEW c \in Letters(variant)
    PROVE  OfRank(c, variant)
<1>1. c \in 0..255
  <2>1. PICK x \in 0..63 : c = Alphabet(variant)[x]
    BY DEF Letters
  <2> QED
    BY <2>1, LettersAreBytes
<1>2. RankedAs(c, variant)
  BY <1>1, CharacterIsRanked, Zenon
<1> QED
  BY <1>2, Zenon DEF OfRank, RankedAs

\* What is read is kept as the encoding of its bytes.
LEMMA ReadIsEncoded ==
    ASSUME NEW n \in Nat, NEW text \in Bytes(n), NEW variant \in Variants, NEW ignore, Apart(ignore, variant),
           NEW e \in 0..n, NEW m \in Nat, Lettered64(text, e, m, ignore, variant), ~Loose(text, m, ignore, variant),
           NEW bin \in Binaries, Len(bin) = (3 * m) \div 4,
           \A i \in 1..Len(bin) : bin[i] = ReadByte(text, i, ignore, variant)
    PROVE  Kept(text, e, ignore) = Encoded(bin, variant)
<1> DEFINE K == Kept(text, e, ignore)  E == Encoded(bin, variant)  l == Len(bin)  M == KeptIn(text, e, ignore)
<1>1. K \in Binaries /\ Len(K) = M /\ M \in Nat /\ \A j \in 1..M : K[j] = KeptAt(text, j, ignore)
  BY KeptIsText
<1>2. bin \in Bytes(l) /\ l \in Nat
  BY BinariesAreBytes
<1>3. EncodedText(bin, l, variant)
  BY <1>2, EncodedIsText
<1>4. LettersLength(m)
  BY LengthOfLetters DEF Loose
<1>5. (4 * l + 2) \div 3 = m /\ (3 - (l % 3)) % 3 = PadsAfter(m) /\ PadsAfter(m) \in 0..2
  BY <1>4 DEF LettersLength, PadsAfter
<1>6. E \in Binaries /\ Len(E) = EncodedLen(l, variant)
      /\ (\A j \in 1..m : E[j] = Alphabet(variant)[SixBits(bin, j - 1)]) /\ (\A j \in m+1..Len(E) : E[j] = 61)
  BY <1>3, <1>5 DEF EncodedText
<1>7. EncodedLen(l, variant) = m + (IF Unpadded(variant) THEN 0 ELSE PadsAfter(m))
  BY <1>2, <1>5, EncodedLengths, Zenon DEF LengthsOf
<1>8. M = m + (IF Unpadded(variant) THEN 0 ELSE PadsAfter(m)) /\ (\A j \in 1..m : KeptAt(text, j, ignore) \in Letters(variant))
      /\ (\A j \in m+1..M : KeptAt(text, j, ignore) = 61)
  BY DEF Lettered64
<1>9. \A j \in 1..m : SixAt(text, j, ignore, variant) \in 0..63 /\ Alphabet(variant)[SixAt(text, j, ignore, variant)] = KeptAt(text, j, ignore)
  <2> SUFFICES ASSUME NEW j \in 1..m
               PROVE  SixAt(text, j, ignore, variant) \in 0..63 /\ Alphabet(variant)[SixAt(text, j, ignore, variant)] = KeptAt(text, j, ignore)
    OBVIOUS
  <2>1. KeptAt(text, j, ignore) \in Letters(variant)
    BY <1>8
  <2> QED
    <3>1. Rank(KeptAt(text, j, ignore), variant) \in 0..63
          /\ Alphabet(variant)[Rank(KeptAt(text, j, ignore), variant)] = KeptAt(text, j, ignore)
      <4>1. OfRank(KeptAt(text, j, ignore), variant)
        BY <2>1, LetterHasRank
      <4> QED
        BY <4>1 DEF OfRank
    <3> QED
      BY <3>1 DEF SixAt
<1>10. \A j \in 1..m : SixBits(bin, j - 1) = SixAt(text, j, ignore, variant)
  BY <1>9, BytesHaveSixes
<1> HIDE DEF K, E, M, l
<1>11. ASSUME NEW j \in 1..M PROVE K[j] = E[j]
  <2>1. CASE j \in 1..m
    <3>1. E[j] = Alphabet(variant)[SixAt(text, j, ignore, variant)]
      BY <1>6, <1>10, <2>1
    <3> QED
      BY <1>1, <1>9, <2>1, <3>1
  <2>2. CASE j \in m+1..M
    BY <1>1, <1>6, <1>7, <1>8, <2>2
  <2> QED
    BY <1>1, <2>1, <2>2
<1>12. Len(K) = Len(E)
  BY <1>1, <1>6, <1>7, <1>8
<1>13. K = E
  BY <1>1, <1>6, <1>11, <1>12, Alike
<1> QED
  BY <1>13 DEF K, E

-----------------------------------------------------------------------------
(* The padding, and the characters to ignore at the end.                   *)

\* What is ignored is not counted.
LEMMA KeptSame ==
    ASSUME NEW text, NEW ignore, NEW i \in Nat, NEW e \in Nat, i <= e, \A j \in i+1..e : text[j] \in ignore
    PROVE  KeptIn(text, e, ignore) = KeptIn(text, i, ignore)
<1>1. {k \in 1..e : text[k] \in (0..255) \ ignore} = {k \in 1..i : text[k] \in (0..255) \ ignore}
  <2>1. ASSUME NEW k \in 1..e, text[k] \in (0..255) \ ignore PROVE k \in 1..i
    BY <2>1
  <2>2. \A k \in 1..i : k \in 1..e
    OBVIOUS
  <2> QED
    BY <2>1, <2>2
<1> QED
  BY <1>1 DEF KeptIn, CountIn
\* A longer beginning keeps no less.
LEMMA KeptGrows ==
    ASSUME NEW text, NEW ignore, NEW i \in Nat, NEW e \in Nat, i <= e
    PROVE  KeptIn(text, i, ignore) <= KeptIn(text, e, ignore) /\ KeptIn(text, i, ignore) \in Nat /\ KeptIn(text, e, ignore) \in Nat
<1>1. CountIn(text, i, (0..255) \ ignore) <= CountIn(text, e, (0..255) \ ignore)
  BY CountGrows
<1>2. CountIn(text, i, (0..255) \ ignore) \in Nat /\ CountIn(text, e, (0..255) \ ignore) \in Nat
  BY CountIsFinite
<1> QED
  BY <1>1, <1>2 DEF KeptIn
\* The next character that is not ignored is counted.
LEMMA KeptOneMore ==
    ASSUME NEW n \in Nat, NEW text \in Bytes(n), NEW ignore, NEW e \in 0..n, e < n, text[e + 1] \notin ignore
    PROVE  /\ KeptIn(text, e + 1, ignore) = KeptIn(text, e, ignore) + 1 /\ KeptIn(text, e, ignore) \in Nat
           /\ KeptAt(text, KeptIn(text, e, ignore) + 1, ignore) = text[e + 1]
           /\ KeptIn(text, e, ignore) + 1 \in 1..KeptIn(text, n, ignore)
<1>1. e + 1 \in 1..n /\ Len(text) = n /\ e + 1 <= n /\ e + 1 \in Nat
  BY LenOfBytes
<1>2. text[e + 1] \in (0..255) \ ignore
  BY <1>1 DEF Bytes
<1>3. KeptNumber(text, e, ignore)
  BY KeptNext
<1>4. KeptIn(text, e + 1, ignore) = KeptIn(text, e, ignore) + 1 /\ KeptIn(text, e, ignore) \in Nat
  BY <1>2, <1>3 DEF KeptNumber
<1>5. KeptAt(text, KeptIn(text, e + 1, ignore), ignore) = text[e + 1]
  BY <1>1, <1>2, KeptLast
<1>6. KeptIn(text, e + 1, ignore) <= KeptIn(text, n, ignore) /\ KeptIn(text, n, ignore) \in Nat
  BY <1>1, KeptGrows
<1> QED
  BY <1>4, <1>5, <1>6

\* Where the characters to ignore end.
TrailEnds(text, n, pos, e, ignore) ==
    e \in pos..n /\ (\A j \in pos+1..e : text[j] \in ignore) /\ (e = n \/ text[e + 1] \notin ignore)
LEMMA TrailedEnds ==
    ASSUME NEW n \in Nat, NEW text, Len(text) = n, NEW pos \in 0..n, NEW ignore
    PROVE  TrailEnds(text, n, pos, Trailed(text, pos, ignore), ignore)
<1> DEFINE P(e) == (\A j \in pos+1..e : text[j] \in ignore) /\ (e = n \/ text[e + 1] \notin ignore)
           T == {e \in 0..n : pos <= e /\ \A j \in pos+1..e : text[j] \in ignore}
<1>1. T \subseteq 0..n /\ pos \in T
  OBVIOUS
<1>2. PICK m \in T : \A j \in T : j <= m
  <2> HIDE DEF T
  <2> QED
    BY <1>1, Highest
<1>3. m \in pos..n /\ \A j \in pos+1..m : text[j] \in ignore
  BY <1>2
<1>4. ASSUME m # n, text[m + 1] \in ignore PROVE FALSE
  <2>1. m + 1 \in 0..n /\ pos <= m + 1
    BY <1>3, <1>4
  <2>2. \A j \in pos+1..m+1 : text[j] \in ignore
    BY <1>3, <1>4
  <2>3. m + 1 \in T
    BY <2>1, <2>2
  <2> HIDE DEF T
  <2>4. m + 1 <= m
    BY <1>2, <2>3
  <2> QED
    BY <1>3, <2>4
<1>5. P(m)
  BY <1>3, <1>4
<1>6. Trailed(text, pos, ignore) = CHOOSE e \in pos..n : P(e)
  BY DEF Trailed
<1> HIDE DEF P
<1>7. Trailed(text, pos, ignore) \in pos..n /\ P(Trailed(text, pos, ignore))
  BY <1>3, <1>5, <1>6
<1> QED
  BY <1>7 DEF TrailEnds, P

PadStates == [left : Nat, pos : Nat, stop : BOOLEAN]
LEMMA PadTurnStays ==
    ASSUME NEW s \in PadStates, NEW c, NEW ignore
    PROVE  PaddingTurn(s, c, ignore) \in PadStates
<1> DEFINE t == PaddingTurn(s, c, ignore)
<1>1. t = IF s.stop \/ s.left = 0 THEN s
          ELSE IF c = 61 THEN [s EXCEPT !.left = @ - 1, !.pos = @ + 1]
          ELSE IF c \in ignore THEN [s EXCEPT !.pos = @ + 1]
          ELSE [s EXCEPT !.stop = TRUE]
  BY DEF PaddingTurn
<1>2. s.left \in Nat /\ s.pos \in Nat
  BY DEF PadStates
<1> HIDE DEF t
<1>3. t = [s EXCEPT !.left = @ - 1, !.pos = @ + 1] /\ s.left # 0 => t \in PadStates
  <2> DEFINE x == s.left - 1  y == s.pos + 1
  <2>1. s.left # 0 => x \in Nat
    BY <1>2
  <2>2. y \in Nat
    BY <1>2
  <2>3. [s EXCEPT !.left = @ - 1, !.pos = @ + 1] = [s EXCEPT !.left = x, !.pos = y]
    BY DEF PadStates
  <2> HIDE DEF x, y
  <2>4. x \in Nat => [s EXCEPT !.left = x, !.pos = y] \in PadStates
    BY <2>2 DEF PadStates
  <2> QED
    BY <2>1, <2>3, <2>4
<1>4. t = [s EXCEPT !.pos = @ + 1] => t \in PadStates
  BY <1>2 DEF PadStates
<1>5. t = [s EXCEPT !.stop = TRUE] => t \in PadStates
  BY DEF PadStates
<1>6. t \in PadStates
  BY <1>1, <1>3, <1>4, <1>5
<1> QED
  BY <1>6 DEF t

\* What the turns make.
PadTurns(text, pos, ignore, p, s) ==
    /\ s[0] = [left |-> p, pos |-> pos, stop |-> FALSE]
    /\ \A k \in 1..(Len(text) - pos) : s[k] = PaddingTurn(s[k - 1], text[pos + k], ignore)
SkipLoopOf(text, pos, ignore, p) ==
    \E s : /\ PadTurns(text, pos, ignore, p, s)
           /\ skip_padding(text, pos, ignore, p) =
                [ret |-> IF s[Len(text) - pos].left = 0 THEN 0 ELSE -1, pos |-> s[Len(text) - pos].pos]
LEMMA SkipLoop ==
    ASSUME NEW text, Len(text) \in Nat, NEW pos \in 0..Len(text), NEW ignore, NEW p \in Nat
    PROVE  SkipLoopOf(text, pos, ignore, p)
<1> DEFINE n == Len(text) - pos
           V == PadStates
           T(s, k) == PaddingTurn(s, text[pos + k], ignore)
           Z == [left |-> p, pos |-> pos, stop |-> FALSE]
           st == [q \in (1..n) \X V |-> T(q[2], q[1])]
           F(g) == [k \in 0..n |-> IF k = 0 THEN [left |-> p, pos |-> pos, stop |-> FALSE] ELSE PaddingTurn(g[k - 1], text[pos + k], ignore)]
           d == CHOOSE g : g = F(g)
<1>0. n \in Nat
  OBVIOUS
<1>1. st \in Steps(n, V)
  <2>1. ASSUME NEW k \in 1..n, NEW s \in V PROVE T(s, k) \in V
    BY PadTurnStays, Zenon
  <2> HIDE DEF V, T
  <2> QED
    BY <2>1 DEF Steps
<1>2. \E g \in [0..n -> V] : g = Turns(g, n, Z, st)
  <2>1. Z \in V
    BY DEF PadStates
  <2> HIDE DEF V, st, Z, n
  <2> QED
    BY <1>0, <1>1, <2>1, LoopExists
<1>3. \E g : g = F(g)
  <2>1. PICK g \in [0..n -> V] : g = Turns(g, n, Z, st)
    BY <1>2
  <2>2. \A k \in 0..n : k # 0 => st[<<k, g[k - 1]>>] = T(g[k - 1], k)
    <3> SUFFICES ASSUME NEW k \in 0..n, k # 0 PROVE st[<<k, g[k - 1]>>] = T(g[k - 1], k)
      OBVIOUS
    <3>1. k \in 1..n /\ k - 1 \in 0..n
      BY <1>0
    <3>2. g[k - 1] \in V
      BY <3>1
    <3> HIDE DEF V, T, n
    <3> QED
      BY <3>1, <3>2
  <2> HIDE DEF st
  <2>3. Turns(g, n, Z, st) = F(g)
    BY <2>2 DEF Turns
  <2> QED
    BY <2>1, <2>3
<1>4. d = F(d)
  BY <1>3
<1>5. d[0] = [left |-> p, pos |-> pos, stop |-> FALSE] /\ \A k \in 1..n : d[k] = PaddingTurn(d[k - 1], text[pos + k], ignore)
  <2> HIDE DEF d, n
  <2>1. F(d)[0] = [left |-> p, pos |-> pos, stop |-> FALSE] /\ \A k \in 1..n : F(d)[k] = PaddingTurn(d[k - 1], text[pos + k], ignore)
    BY <1>0
  <2> HIDE DEF F
  <2> QED
    BY <1>4, <2>1
<1>6. skip_padding(text, pos, ignore, p) = [ret |-> IF d[n].left = 0 THEN 0 ELSE -1, pos |-> d[n].pos]
  BY DEF skip_padding
<1> HIDE DEF d
<1>7. PadTurns(text, pos, ignore, p, d)
  BY <1>5 DEF PadTurns
<1> QED
  BY <1>6, <1>7 DEF SkipLoopOf

\* What k turns have skipped.
Skipping(text, pos, k, s, p, ignore) ==
    /\ s \in PadStates /\ s.pos \in pos..(pos + k)
    /\ KeptIn(text, s.pos, ignore) + s.left = KeptIn(text, pos, ignore) + p
    /\ \A i \in pos+1..s.pos : text[i] \in ignore \cup {61}
    /\ ~s.stop /\ s.left # 0 => s.pos = pos + k
    /\ s.stop => s.left # 0 /\ s.pos < pos + k /\ text[s.pos + 1] \notin ignore \cup {61}
LEMMA PadTurnSkips ==
    ASSUME NEW n \in Nat, NEW text \in Bytes(n), NEW pos \in 0..n, NEW ignore, 61 \notin ignore, NEW p \in Nat,
           NEW k \in Nat, pos + k < n, NEW s, Skipping(text, pos, k, s, p, ignore)
    PROVE  Skipping(text, pos, k + 1, PaddingTurn(s, text[pos + (k + 1)], ignore), p, ignore)
<1> DEFINE c == text[pos + (k + 1)]  t == PaddingTurn(s, c, ignore)  K(i) == KeptIn(text, i, ignore)
<1>1. /\ s \in PadStates /\ s.pos \in pos..(pos + k)
      /\ K(s.pos) + s.left = K(pos) + p
      /\ \A i \in pos+1..s.pos : text[i] \in ignore \cup {61}
      /\ ~s.stop /\ s.left # 0 => s.pos = pos + k
      /\ s.stop => s.left # 0 /\ s.pos < pos + k /\ text[s.pos + 1] \notin ignore \cup {61}
  BY DEF Skipping
<1>2. s.left \in Nat /\ s.pos \in Nat /\ s.stop \in BOOLEAN
  BY <1>1 DEF PadStates
<1>3. t \in PadStates
  BY <1>1, PadTurnStays
<1>4. t = IF s.stop \/ s.left = 0 THEN s
          ELSE IF c = 61 THEN [s EXCEPT !.left = @ - 1, !.pos = @ + 1]
          ELSE IF c \in ignore THEN [s EXCEPT !.pos = @ + 1]
          ELSE [s EXCEPT !.stop = TRUE]
  BY DEF PaddingTurn
<1>5. K(pos + (k + 1)) = (IF c \in (0..255) \ ignore THEN K(pos + k) + 1 ELSE K(pos + k)) /\ K(pos + k) \in Nat
  <2>1. KeptNumber(text, pos + k, ignore)
    BY KeptNext
  <2>2. pos + k + 1 = pos + (k + 1)
    OBVIOUS
  <2> QED
    BY <2>1, <2>2 DEF KeptNumber
<1>6. c \in 0..255
  <2>1. pos + (k + 1) \in 1..n
    OBVIOUS
  <2> QED
    BY <2>1 DEF Bytes
<1>7. Skipping(text, pos, k + 1, t, p, ignore) <=>
        /\ t.pos \in pos..(pos + (k + 1))
        /\ K(t.pos) + t.left = K(pos) + p
        /\ \A i \in pos+1..t.pos : text[i] \in ignore \cup {61}
        /\ ~t.stop /\ t.left # 0 => t.pos = pos + (k + 1)
        /\ t.stop => t.left # 0 /\ t.pos < pos + (k + 1) /\ text[t.pos + 1] \notin ignore \cup {61}
  BY <1>3 DEF Skipping
<1>8. c = text[pos + (k + 1)] /\ pos + k + 1 = pos + (k + 1)
  OBVIOUS
<1> HIDE DEF c, t, K
<1>9. CASE s.stop \/ s.left = 0
  <2>1. t = s
    BY <1>4, <1>9
  <2>2. s.pos \in pos..(pos + (k + 1)) /\ (s.stop => s.pos < pos + (k + 1))
    BY <1>1, <1>2
  <2> QED
    BY <1>1, <1>7, <1>9, <2>1, <2>2 DEF c, t
<1>10. CASE ~s.stop /\ s.left # 0 /\ c = 61
  <2>1. t = [s EXCEPT !.left = @ - 1, !.pos = @ + 1] /\ s.pos = pos + k
    BY <1>1, <1>4, <1>10
  <2>2. t.pos = pos + (k + 1) /\ t.left = s.left - 1 /\ ~t.stop
    BY <1>1, <1>10, <2>1 DEF PadStates
  <2>3. K(t.pos) = K(pos + k) + 1
    BY <1>5, <1>6, <1>10, <2>2
  <2>4. K(t.pos) + t.left = K(pos) + p
    BY <1>1, <1>2, <1>5, <2>1, <2>2, <2>3
  <2>5. \A i \in pos+1..t.pos : text[i] \in ignore \cup {61}
    <3> SUFFICES ASSUME NEW i \in pos+1..t.pos PROVE text[i] \in ignore \cup {61}
      OBVIOUS
    <3>1. CASE i = pos + (k + 1)
      BY <1>8, <1>10, <3>1
    <3>2. CASE i # pos + (k + 1)
      <4>1. i \in pos+1..s.pos
        BY <2>1, <2>2, <3>2
      <4> QED
        BY <1>1, <4>1
    <3> QED
      BY <3>1, <3>2
  <2>6. t.pos \in pos..(pos + (k + 1))
    BY <2>2
  <2> QED
    BY <1>7, <2>2, <2>4, <2>5, <2>6 DEF c, t
<1>11. CASE ~s.stop /\ s.left # 0 /\ c # 61 /\ c \in ignore
  <2>1. t = [s EXCEPT !.pos = @ + 1] /\ s.pos = pos + k
    BY <1>1, <1>4, <1>11
  <2>2. t.pos = pos + (k + 1) /\ t.left = s.left /\ ~t.stop
    BY <1>1, <1>11, <2>1 DEF PadStates
  <2>3. K(t.pos) = K(pos + k)
    BY <1>5, <1>11, <2>2
  <2>4. K(t.pos) + t.left = K(pos) + p
    BY <1>1, <2>1, <2>2, <2>3
  <2>5. \A i \in pos+1..t.pos : text[i] \in ignore \cup {61}
    BY <1>1, <1>8, <1>11, <2>1, <2>2
  <2>6. t.pos \in pos..(pos + (k + 1))
    BY <2>2
  <2> QED
    BY <1>7, <2>2, <2>4, <2>5, <2>6 DEF c, t
<1>12. CASE ~s.stop /\ s.left # 0 /\ c # 61 /\ c \notin ignore
  <2>1. t = [s EXCEPT !.stop = TRUE] /\ s.pos = pos + k
    BY <1>1, <1>4, <1>12
  <2>2. t.pos = pos + k /\ t.left = s.left /\ t.stop
    BY <1>1, <1>12, <2>1 DEF PadStates
  <2>3. t.pos \in pos..(pos + (k + 1)) /\ t.pos < pos + (k + 1) /\ t.pos + 1 = pos + (k + 1)
    BY <2>2
  <2>4. text[t.pos + 1] \notin ignore \cup {61}
    BY <1>8, <1>12, <2>3
  <2> QED
    BY <1>1, <1>7, <1>12, <2>1, <2>2, <2>3, <2>4 DEF c, t
<1> QED
  BY <1>9, <1>10, <1>11, <1>12

\* What skip_padding skips: p characters = and others to ignore, or all there are.
Skipped(text, n, pos, p, ignore, r) ==
    /\ r.pos \in pos..n /\ r.ret \in {0, -1}
    /\ \A i \in pos+1..r.pos : text[i] \in ignore \cup {61}
    /\ r.ret = 0 => KeptIn(text, r.pos, ignore) = KeptIn(text, pos, ignore) + p
    /\ r.ret # 0 => /\ KeptIn(text, r.pos, ignore) < KeptIn(text, pos, ignore) + p
                    /\ r.pos = n \/ text[r.pos + 1] \notin ignore \cup {61}
LEMMA PaddingSkipped ==
    ASSUME NEW n \in Nat, NEW text \in Bytes(n), NEW pos \in 0..n, NEW ignore, 61 \notin ignore, NEW p \in Nat
    PROVE  Skipped(text, n, pos, p, ignore, skip_padding(text, pos, ignore, p))
<1> DEFINE l == n - pos  r == skip_padding(text, pos, ignore, p)
<1>1. Len(text) = n /\ l \in Nat /\ pos + l = n
  BY LenOfBytes
<1>2. SkipLoopOf(text, pos, ignore, p)
  BY <1>1, SkipLoop
<1>3. PICK s : /\ PadTurns(text, pos, ignore, p, s)
               /\ r = [ret |-> IF s[l].left = 0 THEN 0 ELSE -1, pos |-> s[l].pos]
  BY <1>1, <1>2 DEF SkipLoopOf
<1> DEFINE S == {k \in 0..l : Skipping(text, pos, k, s[k], p, ignore)}
<1>4. 0 \in S
  <2>1. s[0] = [left |-> p, pos |-> pos, stop |-> FALSE]
    BY <1>3 DEF PadTurns
  <2>2. Skipping(text, pos, 0, s[0], p, ignore)
    BY <2>1 DEF Skipping, PadStates
  <2> QED
    BY <1>1, <2>2
<1> HIDE DEF l, r
<1>5. ASSUME NEW k \in 0..l, k < l, k \in S PROVE k + 1 \in S
  <2> DEFINE T(x, b) == PaddingTurn(x, b, ignore)
  <2>1. \A i \in 1..l : s[i] = T(s[i - 1], text[pos + i])
    BY <1>1, <1>3 DEF PadTurns, l
  <2> HIDE DEF T
  <2>2. k \in Nat /\ pos + k < n /\ k + 1 \in 1..l /\ k + 1 - 1 = k /\ k + 1 \in 0..l
    BY <1>1, <1>5
  <2>3. s[k + 1] = T(s[k], text[pos + (k + 1)])
    BY <2>1, <2>2
  <2>4. Skipping(text, pos, k, s[k], p, ignore)
    BY <1>5
  <2>5. Skipping(text, pos, k + 1, s[k + 1], p, ignore)
    BY <2>2, <2>3, <2>4, PadTurnSkips DEF T
  <2> QED
    BY <2>2, <2>5
<1>6. l \in S
  <2> HIDE DEF S
  <2>1. 0..l \subseteq S
    BY <1>1, <1>4, <1>5, TurnInduction
  <2> QED
    BY <1>1, <2>1
<1>7. Skipping(text, pos, l, s[l], p, ignore)
  BY <1>6
<1> DEFINE z == s[l]
<1>8. /\ z \in PadStates /\ z.pos \in pos..n
      /\ KeptIn(text, z.pos, ignore) + z.left = KeptIn(text, pos, ignore) + p
      /\ \A i \in pos+1..z.pos : text[i] \in ignore \cup {61}
      /\ ~z.stop /\ z.left # 0 => z.pos = n
      /\ z.stop => z.left # 0 /\ z.pos < n /\ text[z.pos + 1] \notin ignore \cup {61}
  BY <1>1, <1>7 DEF Skipping
<1>9. r.ret = (IF z.left = 0 THEN 0 ELSE -1) /\ r.pos = z.pos
  BY <1>3
<1> HIDE DEF z, S
<1>10. z.left \in Nat /\ KeptIn(text, z.pos, ignore) \in Nat /\ KeptIn(text, pos, ignore) \in Nat
  <2>1. z.left \in Nat /\ z.pos \in Nat /\ pos \in Nat /\ z.pos <= z.pos /\ pos <= pos
    BY <1>8 DEF PadStates
  <2> QED
    BY <2>1, KeptGrows
<1>11. Skipped(text, n, pos, p, ignore, r)
  BY <1>8, <1>9, <1>10 DEF Skipped
<1> QED
  BY <1>11 DEF r

-----------------------------------------------------------------------------
(* What sodium_base642bin makes of it.                                     *)

\* The bits left over, from the last letter.
LeftOf(text, m, s, ignore, variant) ==
    /\ Leftover(s) <=> Loose(text, m, ignore, variant)
    /\ ~Loose(text, m, ignore, variant) => s.bits \div 2 = PadsAfter(m)
LEMMA BitsAreLeft ==
    ASSUME NEW text, NEW m \in Nat, NEW s, s.acc \in Nat, NEW ignore, NEW variant, BitsOver(text, s, m, ignore, variant)
    PROVE  LeftOf(text, m, s, ignore, variant)
<1> DEFINE v == SixAt(text, m, ignore, variant)  acc == s.acc
<1>1. /\ m % 4 = 0 => s.bits = 0
      /\ m % 4 = 1 => s.bits = 6 /\ acc % 64 = v
      /\ m % 4 = 2 => s.bits = 4 /\ acc % 16 = v % 16
      /\ m % 4 = 3 => s.bits = 2 /\ acc % 4 = v % 4
  BY DEF BitsOver
<1>2. Loose(text, m, ignore, variant) <=> m % 4 = 1 \/ (m % 4 = 2 /\ v % 16 # 0) \/ (m % 4 = 3 /\ v % 4 # 0)
  BY DEF Loose
<1>3. Leftover(s) <=> s.bits > 4 \/ acc % 2^s.bits # 0
  BY DEF Leftover
<1>4. m % 4 \in 0..3 /\ 2^0 = 1 /\ 2^2 = 4 /\ 2^4 = 16 /\ acc \in Nat /\ acc % 1 = 0
  OBVIOUS
<1> HIDE DEF v, acc
<1>5. CASE m % 4 = 0
  <2>1. s.bits = 0 /\ (Loose(text, m, ignore, variant) <=> FALSE)
    BY <1>1, <1>2, <1>5
  <2>2. acc % 2^s.bits = acc % 1 /\ ~(s.bits > 4)
    BY <1>4, <2>1
  <2>3. Leftover(s) <=> Loose(text, m, ignore, variant)
    BY <1>1, <1>3, <1>4, <1>5, <2>1, <2>2
  <2>4. s.bits \div 2 = PadsAfter(m)
    BY <1>5, <2>1 DEF PadsAfter
  <2> QED
    BY <2>3, <2>4 DEF LeftOf
<1>6. CASE m % 4 = 1
  <2>1. s.bits = 6 /\ (Loose(text, m, ignore, variant) <=> TRUE)
    BY <1>1, <1>2, <1>6
  <2>2. Leftover(s)
    BY <1>3, <2>1
  <2> QED
    BY <2>1, <2>2 DEF LeftOf
<1>7. CASE m % 4 = 2
  <2>1. s.bits = 4 /\ (Loose(text, m, ignore, variant) <=> (v % 16 # 0))
    BY <1>1, <1>2, <1>7
  <2>2. acc % 2^s.bits = acc % 16 /\ ~(s.bits > 4)
    BY <1>4, <2>1
  <2>3. Leftover(s) <=> Loose(text, m, ignore, variant)
    BY <1>1, <1>3, <1>4, <1>7, <2>1, <2>2
  <2>4. s.bits \div 2 = PadsAfter(m)
    BY <1>7, <2>1 DEF PadsAfter
  <2> QED
    BY <2>3, <2>4 DEF LeftOf
<1>8. CASE m % 4 = 3
  <2>1. s.bits = 2 /\ (Loose(text, m, ignore, variant) <=> (v % 4 # 0))
    BY <1>1, <1>2, <1>8
  <2>2. acc % 2^s.bits = acc % 4 /\ ~(s.bits > 4)
    BY <1>4, <2>1
  <2>3. Leftover(s) <=> Loose(text, m, ignore, variant)
    BY <1>1, <1>3, <1>4, <1>8, <2>1, <2>2
  <2>4. s.bits \div 2 = PadsAfter(m)
    BY <1>8, <2>1 DEF PadsAfter
  <2> QED
    BY <2>3, <2>4 DEF LeftOf
<1> QED
  BY <1>4, <1>5, <1>6, <1>7, <1>8

\* The state after the last loop.
Final(last, text, ignore, variant) ==
    LET s == Base64Rest(last, text, ignore, variant)
    IN IF s.ret = 0 THEN [s EXCEPT !.pos = Trailed(text, @, ignore)] ELSE s
FinalOf(text, s, f, ignore, variant) ==
    LET m == KeptIn(text, s.pos, ignore)
        skip == skip_padding(text, s.pos, ignore, PadsAfter(m))
    IN /\ f.bin = s.bin
       /\ s.ret # 0 \/ Loose(text, m, ignore, variant) => f.ret = -1 /\ f.pos = s.pos
       /\ s.ret = 0 /\ ~Loose(text, m, ignore, variant) /\ Unpadded(variant) => f.ret = 0 /\ f.pos = Trailed(text, s.pos, ignore)
       /\ s.ret = 0 /\ ~Loose(text, m, ignore, variant) /\ ~Unpadded(variant) =>
            f.ret = skip.ret /\ f.pos = IF skip.ret = 0 THEN Trailed(text, skip.pos, ignore) ELSE skip.pos
LEMMA FinalIs ==
    ASSUME NEW n \in Nat, NEW text \in Bytes(n), NEW maxlen, NEW variant \in Variants, NEW ignore,
           NEW s, Decoding(text, n, s, maxlen, ignore, variant)
    PROVE  FinalOf(text, s, Final(s, text, ignore, variant), ignore, variant)
<1> DEFINE m == KeptIn(text, s.pos, ignore)  skip == skip_padding(text, s.pos, ignore, PadsAfter(m))
           r == Base64Rest(s, text, ignore, variant)  f == Final(s, text, ignore, variant)
           loose == Loose(text, m, ignore, variant)
<1>1. s \in DecStates /\ (s.ret = 0 => BitsOver(text, s, m, ignore, variant))
  BY DEF Decoding, DecTaken
<1>2. s.acc \in Nat /\ s.ret \in {0, -1} /\ s.pos \in Nat
  <2>1. s.acc \in 0..Uint-1 /\ s.ret \in {0, -1} /\ s.pos \in Nat
    BY <1>1, SMT DEF DecStates, AccWords
  <2> QED
    BY <2>1, UintIsNat
<1>3. m \in Nat
  <2>1. s.pos <= s.pos
    BY <1>2
  <2> QED
    BY <1>2, <2>1, KeptGrows
<1>4. s.ret = 0 => LeftOf(text, m, s, ignore, variant)
  <2> HIDE DEF m
  <2> QED
    BY <1>1, <1>2, <1>3, BitsAreLeft
<1>5. s.ret = 0 => (Leftover(s) <=> loose) /\ (~loose => s.bits \div 2 = PadsAfter(m))
  BY <1>4 DEF LeftOf
<1>6. r = IF Leftover(s) THEN [s EXCEPT !.ret = -1]
          ELSE IF s.ret # 0 \/ Unpadded(variant) THEN s
          ELSE [s EXCEPT !.ret = skip_padding(text, s.pos, ignore, s.bits \div 2).ret, !.pos = skip_padding(text, s.pos, ignore, s.bits \div 2).pos]
  BY DEF Base64Rest
<1>7. f = IF r.ret = 0 THEN [r EXCEPT !.pos = Trailed(text, @, ignore)] ELSE r
  BY DEF Final
<1> HIDE DEF r, f, loose, m
<1>8. s.ret # 0 \/ loose => r.ret = -1 /\ r.pos = s.pos /\ r.bin = s.bin
  <2>1. CASE Leftover(s)
    BY <1>1, <1>6, <2>1, SMT DEF DecStates
  <2>2. CASE ~Leftover(s)
    BY <1>2, <1>5, <1>6, <2>2
  <2> QED
    BY <2>1, <2>2
<1>9. s.ret = 0 /\ ~loose /\ Unpadded(variant) => r = s
  BY <1>5, <1>6
<1>10. s.ret = 0 /\ ~loose /\ ~Unpadded(variant) => r = [s EXCEPT !.ret = skip.ret, !.pos = skip.pos]
  BY <1>5, <1>6
<1>11. s.ret = 0 /\ ~loose /\ ~Unpadded(variant) => r.ret = skip.ret /\ r.pos = skip.pos /\ r.bin = s.bin
  <2> DEFINE x == skip.ret  y == skip.pos
  <2>1. s.ret = 0 /\ ~loose /\ ~Unpadded(variant) => r = [s EXCEPT !.ret = x, !.pos = y]
    BY <1>10
  <2> HIDE DEF skip, x, y
  <2>3. s = [acc |-> s.acc, bits |-> s.bits, bin |-> s.bin, pos |-> s.pos, ret |-> s.ret, stop |-> s.stop]
    BY <1>1, SMT DEF DecStates
  <2>2. s.ret = 0 /\ ~loose /\ ~Unpadded(variant) => r.ret = x /\ r.pos = y /\ r.bin = s.bin
    BY <2>1, <2>3
  <2> QED
    BY <2>2 DEF x, y
<1>12. \A p : [r EXCEPT !.pos = p].bin = r.bin /\ [r EXCEPT !.pos = p].ret = r.ret
  BY <1>6
<1>13. (r.ret # 0 => f = r) /\ (r.ret = 0 => f.bin = r.bin /\ f.ret = r.ret /\ f.pos = Trailed(text, r.pos, ignore))
  <2> DEFINE x == skip_padding(text, s.pos, ignore, s.bits \div 2).ret
             y == skip_padding(text, s.pos, ignore, s.bits \div 2).pos
             e == Trailed(text, r.pos, ignore)
  <2>1. r = [s EXCEPT !.ret = -1] \/ r = s \/ r = [s EXCEPT !.ret = x, !.pos = y]
    BY <1>6
  <2>2. r.ret = 0 => f = [r EXCEPT !.pos = e]
    BY <1>7
  <2> HIDE DEF x, y, e
  <2>3. s = [acc |-> s.acc, bits |-> s.bits, bin |-> s.bin, pos |-> s.pos, ret |-> s.ret, stop |-> s.stop]
    BY <1>1, SMT DEF DecStates
  <2>4. \E u, v : r = [acc |-> s.acc, bits |-> s.bits, bin |-> s.bin, pos |-> u, ret |-> v, stop |-> s.stop]
    BY <2>1, <2>3
  <2>5. r.ret = 0 => f.bin = r.bin /\ f.ret = r.ret /\ f.pos = e
    BY <2>2, <2>4
  <2>6. r.ret = 0 => f.bin = r.bin /\ f.ret = r.ret /\ f.pos = Trailed(text, r.pos, ignore)
    BY <2>5 DEF e
  <2> QED
    BY <1>7, <2>6
<1>14. f.bin = s.bin
  BY <1>2, <1>8, <1>9, <1>11, <1>13
<1>15. s.ret # 0 \/ loose => f.ret = -1 /\ f.pos = s.pos
  BY <1>8, <1>13
<1>16. s.ret = 0 /\ ~loose /\ Unpadded(variant) => f.ret = 0 /\ f.pos = Trailed(text, s.pos, ignore)
  BY <1>9, <1>13
<1>17. s.ret = 0 /\ ~loose /\ ~Unpadded(variant) =>
         f.ret = skip.ret /\ f.pos = IF skip.ret = 0 THEN Trailed(text, skip.pos, ignore) ELSE skip.pos
  BY <1>11, <1>13
<1> QED
  BY <1>14, <1>15, <1>16, <1>17 DEF FinalOf, loose, f, m

\* Where what is counted ends, what is to be ignored ends, too.
LEMMA NoMoreKept ==
    ASSUME NEW n \in Nat, NEW text \in Bytes(n), NEW ignore, NEW q \in 0..n, KeptIn(text, q, ignore) = KeptIn(text, n, ignore)
    PROVE  Trailed(text, q, ignore) = n
<1> DEFINE e == Trailed(text, q, ignore)
<1>1. Len(text) = n
  BY LenOfBytes
<1>2. TrailEnds(text, n, q, e, ignore)
  BY <1>1, TrailedEnds
<1> HIDE DEF e
<1>3. e \in q..n /\ (\A j \in q+1..e : text[j] \in ignore) /\ (e = n \/ text[e + 1] \notin ignore)
  BY <1>2 DEF TrailEnds
<1>4. KeptIn(text, e, ignore) = KeptIn(text, q, ignore)
  BY <1>3, KeptSame
<1>5. ASSUME e # n PROVE FALSE
  <2>1. e \in 0..n /\ e < n /\ text[e + 1] \notin ignore
    BY <1>3, <1>5
  <2>2. KeptIn(text, e, ignore) + 1 \in 1..KeptIn(text, n, ignore) /\ KeptIn(text, e, ignore) \in Nat
    BY <2>1, KeptOneMore
  <2> QED
    BY <1>4, <2>2
<1> QED
  BY <1>5 DEF e

-----------------------------------------------------------------------------
(* What is read is the encoding of the bytes read.                         *)
ReadWhole(text, n, f, maxlen, ignore, variant) ==
    /\ f.ret \in {0, -1} /\ f.pos \in 0..n /\ f.bin \in Binaries
    /\ f.ret = 0 => Kept(text, f.pos, ignore) = Encoded(f.bin, variant) /\ Len(f.bin) <= maxlen
LEMMA FinalReads ==
    ASSUME NEW n \in Nat, NEW text \in Bytes(n), NEW maxlen \in Nat, NEW variant \in Variants, NEW ignore, Apart(ignore, variant),
           NEW s, Decoding(text, n, s, maxlen, ignore, variant), NEW f, FinalOf(text, s, f, ignore, variant)
    PROVE  ReadWhole(text, n, f, maxlen, ignore, variant)
<1> DEFINE K(i) == KeptIn(text, i, ignore)  m == K(s.pos)
           skip == skip_padding(text, s.pos, ignore, PadsAfter(m))
           q == IF Unpadded(variant) THEN s.pos ELSE skip.pos
           loose == Loose(text, m, ignore, variant)
           p == IF Unpadded(variant) THEN 0 ELSE PadsAfter(m)
           L == Letters(variant)
<1>1. Len(text) = n /\ 61 \notin ignore /\ (0..255) \cap L \cap ignore = {}
  <2>1. Len(text) = n
    BY LenOfBytes
  <2> QED
    BY <2>1 DEF Apart
<1>2. s \in DecStates /\ DecTaken(text, s, maxlen, ignore, variant)
  BY DEF Decoding
<1>3. s.pos \in 0..n /\ s.bin \in Binaries /\ s.ret \in {0, -1}
  <2>1. s.bin \in Binaries /\ s.pos \in Nat /\ s.ret \in {0, -1}
    BY <1>2, SMT DEF DecStates
  <2>2. s.pos <= n
    BY <1>1, <1>2 DEF DecTaken
  <2> QED
    BY <2>1, <2>2
<1>4. /\ \A i \in 1..s.pos : text[i] \in L \cup ignore
      /\ Len(s.bin) = (3 * m) \div 4 /\ Len(s.bin) <= maxlen
      /\ \A i \in 1..Len(s.bin) : s.bin[i] = ReadByte(text, i, ignore, variant)
  BY <1>2 DEF DecTaken
<1>5. /\ f.bin = s.bin
      /\ s.ret # 0 \/ loose => f.ret = -1 /\ f.pos = s.pos
      /\ s.ret = 0 /\ ~loose /\ Unpadded(variant) => f.ret = 0 /\ f.pos = Trailed(text, s.pos, ignore)
      /\ s.ret = 0 /\ ~loose /\ ~Unpadded(variant) =>
           f.ret = skip.ret /\ f.pos = IF skip.ret = 0 THEN Trailed(text, skip.pos, ignore) ELSE skip.pos
  BY DEF FinalOf
<1>6. m \in Nat
  <2>1. s.pos \in Nat /\ s.pos <= s.pos
    BY <1>3
  <2> QED
    BY <2>1, KeptGrows
<1>7. PadsAfter(m) \in Nat
  BY DEF PadsAfter
<1>8. Skipped(text, n, s.pos, PadsAfter(m), ignore, skip)
  <2> HIDE DEF m
  <2> QED
    BY <1>1, <1>3, <1>7, PaddingSkipped
<1>9. /\ skip.pos \in s.pos..n /\ skip.ret \in {0, -1}
      /\ \A i \in s.pos+1..skip.pos : text[i] \in ignore \cup {61}
      /\ skip.ret = 0 => K(skip.pos) = m + PadsAfter(m)
  BY <1>8 DEF Skipped
<1> HIDE DEF m, skip, K, loose
<1>10. q \in s.pos..n /\ q \in 0..n /\ \A i \in s.pos+1..q : text[i] \in ignore \cup {61}
  BY <1>3, <1>9
<1>11. s.ret = 0 /\ ~loose /\ (Unpadded(variant) \/ skip.ret = 0) => K(q) = m + p /\ f.ret = 0 /\ f.pos = Trailed(text, q, ignore)
  BY <1>5, <1>6, <1>9 DEF m
<1> HIDE DEF q, p
<1>12. TrailEnds(text, n, q, Trailed(text, q, ignore), ignore)
  BY <1>1, <1>10, TrailedEnds
<1>13. f.ret \in {0, -1} /\ f.pos \in 0..n /\ f.bin \in Binaries
  <2>1. Trailed(text, q, ignore) \in 0..n
    BY <1>10, <1>12 DEF TrailEnds
  <2> QED
    BY <1>3, <1>5, <1>9, <1>11, <2>1
<1>14. ASSUME f.ret = 0 PROVE Kept(text, f.pos, ignore) = Encoded(f.bin, variant) /\ Len(f.bin) <= maxlen
  <2> DEFINE e == f.pos
  <2>1. s.ret = 0 /\ ~loose /\ K(q) = m + p /\ e = Trailed(text, q, ignore)
    BY <1>5, <1>11, <1>14
  <2>2. e \in q..n /\ (\A j \in q+1..e : text[j] \in ignore) /\ e \in 0..n
    BY <1>10, <1>12, <2>1 DEF TrailEnds
  <2> HIDE DEF e
  <2>3. K(e) = m + p
    BY <1>10, <2>1, <2>2, KeptSame DEF K
  <2>4. ASSUME NEW j \in 1..m PROVE KeptAt(text, j, ignore) \in L
    <3>1. PICK k \in 1..s.pos : KeptAt(text, j, ignore) = text[k] /\ text[k] \in (0..255) \ ignore
      BY <1>3, KeptIsThere DEF m, K
    <3> QED
      BY <1>4, <3>1
  <2>5. ASSUME NEW j \in m+1..K(e) PROVE KeptAt(text, j, ignore) = 61
    <3>1. j \in 1..KeptIn(text, e, ignore)
      BY <1>6 DEF K
    <3>2. PICK k \in 1..e : KeptAt(text, j, ignore) = text[k] /\ text[k] \in (0..255) \ ignore /\ KeptIn(text, k, ignore) = j
      BY <2>2, <3>1, KeptIsThere
    <3>3. ASSUME k <= s.pos PROVE FALSE
      <4>1. KeptIn(text, k, ignore) <= KeptIn(text, s.pos, ignore)
        BY <1>3, <3>3, KeptGrows
      <4> QED
        BY <1>6, <3>2, <4>1 DEF m, K
    <3>4. k \in s.pos+1..q \/ k \in q+1..e
      BY <1>3, <1>10, <2>2, <3>3
    <3> QED
      BY <1>10, <2>2, <3>2, <3>4
  <2>6. Lettered64(text, e, m, ignore, variant)
    BY <2>3, <2>4, <2>5 DEF Lettered64, K, p
  <2>7. Kept(text, e, ignore) = Encoded(s.bin, variant)
    BY <1>3, <1>4, <1>6, <2>1, <2>2, <2>6, ReadIsEncoded DEF loose
  <2> QED
    BY <1>4, <1>5, <2>7 DEF e
<1> QED
  BY <1>13, <1>14 DEF ReadWhole

-----------------------------------------------------------------------------
(* Every encoding that fits is read.                                       *)

\* A text that is the encoding of bytes.
KeptAs(text, n, nb, b, ignore, variant) ==
    LET M == (4 * nb + 2) \div 3
    IN /\ KeptIn(text, n, ignore) = M + (IF Unpadded(variant) THEN 0 ELSE PadsAfter(M))
       /\ \A j \in 1..M : KeptAt(text, j, ignore) \in Letters(variant)
       /\ \A j \in 1..M : SixAt(text, j, ignore, variant) = SixBits(b, j - 1)
       /\ \A j \in M+1..KeptIn(text, n, ignore) : KeptAt(text, j, ignore) = 61
LEMMA EncodedIsKept ==
    ASSUME NEW n \in Nat, NEW text \in Bytes(n), NEW ignore, NEW variant \in Variants, NEW nb \in Nat, NEW b \in Bytes(nb),
           Kept(text, n, ignore) = Encoded(b, variant)
    PROVE  KeptAs(text, n, nb, b, ignore, variant)
<1> DEFINE M == (4 * nb + 2) \div 3  e == Encoded(b, variant)  K == KeptIn(text, n, ignore)
<1>1. e \in Binaries /\ Len(e) = EncodedLen(nb, variant) /\ M <= Len(e)
      /\ (\A j \in 1..M : e[j] = Alphabet(variant)[SixBits(b, j - 1)])
      /\ (\A j \in M+1..Len(e) : e[j] = 61)
  BY EncodedIsText DEF EncodedText
<1>2. M \in Nat /\ EncodedLen(nb, variant) = M + (IF Unpadded(variant) THEN 0 ELSE (3 - (nb % 3)) % 3)
  <2>1. LengthsOf(nb, variant)
    BY EncodedLengths
  <2> QED
    BY <2>1 DEF LengthsOf
<1>3. (3 - (nb % 3)) % 3 = PadsAfter(M)
  <2>1. EncodingLength(nb)
    BY LengthOfEncoding
  <2> QED
    BY <2>1 DEF EncodingLength
<1>4. Len(e) = K /\ K \in Nat /\ \A j \in 1..K : e[j] = KeptAt(text, j, ignore)
  <2>1. n \in 0..n
    OBVIOUS
  <2> QED
    BY <2>1, KeptIsText
<1> HIDE DEF M, e, K
<1>5. ASSUME NEW j \in 1..M
      PROVE  KeptAt(text, j, ignore) \in Letters(variant) /\ SixAt(text, j, ignore, variant) = SixBits(b, j - 1)
  <2>1. j \in 1..K /\ j - 1 \in Nat
    BY <1>1, <1>2, <1>4
  <2>2. SixBits(b, j - 1) \in 0..63
    BY <2>1, SixBitsInRange
  <2>3. KeptAt(text, j, ignore) = Alphabet(variant)[SixBits(b, j - 1)]
    BY <1>1, <1>4, <2>1, Zenon
  <2>4. KeptAt(text, j, ignore) \in Letters(variant)
    BY <2>2, <2>3, LettersAreBytes
  <2>5. Rank(KeptAt(text, j, ignore), variant) = SixBits(b, j - 1)
    BY <2>2, <2>3, RankOfAlphabet
  <2> QED
    BY <2>4, <2>5 DEF SixAt
<1>6. ASSUME NEW j \in M+1..K PROVE KeptAt(text, j, ignore) = 61
  <2>1. j \in 1..K /\ j \in M+1..Len(e)
    BY <1>2, <1>4
  <2> QED
    BY <1>1, <1>4, <2>1, SMTT(30)
<1>7. K = M + (IF Unpadded(variant) THEN 0 ELSE PadsAfter(M))
  BY <1>1, <1>2, <1>3, <1>4
<1> QED
  BY <1>5, <1>6, <1>7 DEF KeptAs, K, M

\* How far the loop goes in such a text.
LEMMA EncodedIsTaken ==
    ASSUME NEW n \in Nat, NEW text \in Bytes(n), NEW maxlen \in Nat, NEW variant \in Variants, NEW ignore, Apart(ignore, variant),
           NEW nb \in Nat, NEW b \in Bytes(nb), nb <= maxlen, KeptAs(text, n, nb, b, ignore, variant),
           NEW s, Decoding(text, n, s, maxlen, ignore, variant)
    PROVE  s.ret = 0 /\ KeptIn(text, s.pos, ignore) = (4 * nb + 2) \div 3 /\ s.bin = b /\ s.pos \in 0..n
<1> DEFINE K(i) == KeptIn(text, i, ignore)  m == K(s.pos)  M == (4 * nb + 2) \div 3  N == K(n)  L == Letters(variant)
<1>1. Len(text) = n /\ 61 \notin L /\ L \cap ignore = {}
  <2>1. Len(text) = n
    BY LenOfBytes
  <2>2. 61 \notin L
    BY LettersAreKept
  <2> QED
    BY <2>1, <2>2 DEF Apart
<1>2. s \in DecStates /\ DecTaken(text, s, maxlen, ignore, variant) /\ DecStopped(text, n, s, maxlen, ignore, variant)
  BY DEF Decoding
<1>3. s.pos \in 0..n /\ s.bin \in Binaries /\ s.ret \in {0, -1} /\ s.stop \in BOOLEAN
  <2>1. s.bin \in Binaries /\ s.pos \in Nat /\ s.ret \in {0, -1} /\ s.stop \in BOOLEAN
    BY <1>2, SMT DEF DecStates
  <2>2. s.pos <= n
    BY <1>1, <1>2 DEF DecTaken
  <2> QED
    BY <2>1, <2>2
<1>4. /\ \A i \in 1..s.pos : text[i] \in L \cup ignore
      /\ Len(s.bin) = (3 * m) \div 4 /\ Len(s.bin) <= maxlen
      /\ \A i \in 1..Len(s.bin) : s.bin[i] = ReadByte(text, i, ignore, variant)
  BY <1>2 DEF DecTaken
<1>5. M \in Nat /\ (3 * M) \div 4 = nb
  <2>1. EncodingLength(nb)
    BY LengthOfEncoding
  <2> QED
    BY <2>1 DEF EncodingLength
<1>6. /\ \A j \in 1..M : KeptAt(text, j, ignore) \in L
      /\ \A j \in 1..M : SixAt(text, j, ignore, variant) = SixBits(b, j - 1)
      /\ \A j \in M+1..N : KeptAt(text, j, ignore) = 61
      /\ N = M + (IF Unpadded(variant) THEN 0 ELSE PadsAfter(M))
  BY DEF KeptAs
<1>7. m <= N /\ m \in Nat /\ N \in Nat
  BY <1>3, KeptGrows
<1>8. QuartersOf(m)
  BY <1>7, Quarters
<1> HIDE DEF m, M, N, K
<1>9. m <= M
  <2> SUFFICES ASSUME m > M PROVE FALSE
    BY <1>5, <1>7
  <2>1. m \in M+1..N /\ m \in 1..m
    BY <1>5, <1>7
  <2>2. PICK k \in 1..s.pos : KeptAt(text, m, ignore) = text[k] /\ text[k] \in (0..255) \ ignore
    BY <1>3, <2>1, KeptIsThere DEF m, K
  <2> QED
    BY <1>1, <1>4, <1>6, <2>1, <2>2
<1>10. m = M /\ s.ret = 0
  <2>1. CASE ~s.stop
    <3>1. s.pos = n /\ s.ret = 0
      BY <1>2, <2>1 DEF DecStopped
    <3>2. m = N
      BY <3>1 DEF m, N
    <3>3. N >= M
      BY <1>5, <1>6 DEF PadsAfter
    <3> QED
      BY <1>5, <1>7, <1>9, <3>1, <3>2, <3>3
  <2>2. CASE s.stop
    <3> DEFINE c == text[s.pos + 1]
    <3>1. /\ s.pos < n
          /\ c \in L => s.ret = -1 /\ Len(s.bin) = maxlen /\ m % 4 # 0
          /\ c \notin L => s.ret = 0 /\ c \notin ignore
      BY <1>2, <2>2 DEF DecStopped, m, K
    <3>2. c \notin ignore
      BY <1>1, <3>1
    <3>3. KeptAt(text, m + 1, ignore) = c /\ m + 1 \in 1..N
      <4>1. /\ KeptAt(text, KeptIn(text, s.pos, ignore) + 1, ignore) = text[s.pos + 1]
            /\ KeptIn(text, s.pos, ignore) + 1 \in 1..KeptIn(text, n, ignore)
        BY <1>3, <3>1, <3>2, KeptOneMore
      <4> QED
        BY <4>1 DEF m, K, N
    <3> HIDE DEF c
    <3>4. CASE c \in L
      <4>1. m + 1 \in 1..M
        BY <1>1, <1>5, <1>6, <1>7, <3>3, <3>4
      <4>2. Len(s.bin) = maxlen /\ m % 4 # 0
        BY <3>1, <3>4
      <4>3. (3 * (m + 1)) \div 4 = (3 * m) \div 4 + 1 /\ (3 * m) \div 4 \in Nat
        BY <1>8, <4>2 DEF QuartersOf
      <4>4. (3 * (m + 1)) \div 4 <= (3 * M) \div 4
        BY <1>5, <1>7, <4>1
      <4> QED
        BY <1>4, <1>5, <4>2, <4>3, <4>4
    <3>5. CASE c \notin L
      <4>1. m + 1 \notin 1..M
        BY <1>6, <3>3, <3>5
      <4> QED
        BY <1>5, <1>7, <1>9, <3>1, <3>5, <4>1
    <3> QED
      BY <3>4, <3>5
  <2> QED
    BY <1>3, <2>1, <2>2
<1>11. \A i \in 1..nb : ReadByte(text, i, ignore, variant) = b[i]
  <2>1. \A j \in 1..((4 * nb + 2) \div 3) : SixAt(text, j, ignore, variant) = SixBits(b, j - 1)
    BY <1>6 DEF M
  <2>2. /\ \A i \in 1..nb : ReadByte(text, i, ignore, variant) = b[i]
        /\ ~Loose(text, (4 * nb + 2) \div 3, ignore, variant)
    BY <2>1, SixesHaveBytes, Zenon
  <2> QED
    BY <2>2
<1>12. s.bin = b
  <2>1. Len(s.bin) = nb
    BY <1>4, <1>5, <1>10
  <2>2. b \in Binaries /\ Len(b) = nb
    BY BytesAreBinaries
  <2>3. \A i \in 1..Len(s.bin) : s.bin[i] = b[i]
    BY <1>4, <1>11, <2>1
  <2> QED
    BY <1>3, <2>1, <2>2, <2>3, Alike
<1> QED
  BY <1>3, <1>10, <1>12 DEF m, M, K

\* An encoding that fits is read to its end.
LEMMA FinalReadsEncoded ==
    ASSUME NEW n \in Nat, NEW text \in Bytes(n), NEW maxlen \in Nat, NEW variant \in Variants, NEW ignore, Apart(ignore, variant),
           NEW nb \in Nat, NEW b \in Bytes(nb), nb <= maxlen, Kept(text, n, ignore) = Encoded(b, variant),
           NEW s, Decoding(text, n, s, maxlen, ignore, variant), NEW f, FinalOf(text, s, f, ignore, variant)
    PROVE  f.ret = 0 /\ f.pos = n /\ f.bin = b
<1> DEFINE K(i) == KeptIn(text, i, ignore)  M == (4 * nb + 2) \div 3  N == K(n)
           p == PadsAfter(M)  skip == skip_padding(text, s.pos, ignore, p)
<1>1. KeptAs(text, n, nb, b, ignore, variant)
  BY EncodedIsKept
<1>2. s.ret = 0 /\ K(s.pos) = M /\ s.bin = b /\ s.pos \in 0..n
  BY <1>1, EncodedIsTaken
<1>3. /\ \A j \in 1..M : SixAt(text, j, ignore, variant) = SixBits(b, j - 1)
      /\ \A j \in M+1..N : KeptAt(text, j, ignore) = 61
      /\ N = M + (IF Unpadded(variant) THEN 0 ELSE p)
  BY <1>1 DEF KeptAs
<1>4. ~Loose(text, M, ignore, variant)
  BY <1>3, SixesHaveBytes
<1>5. M \in Nat /\ p \in Nat
  <2>1. EncodingLength(nb)
    BY LengthOfEncoding
  <2> QED
    BY <2>1 DEF EncodingLength, PadsAfter
<1>6. /\ f.bin = s.bin
      /\ Unpadded(variant) => f.ret = 0 /\ f.pos = Trailed(text, s.pos, ignore)
      /\ ~Unpadded(variant) => f.ret = skip.ret /\ f.pos = IF skip.ret = 0 THEN Trailed(text, skip.pos, ignore) ELSE skip.pos
  BY <1>2, <1>4 DEF FinalOf
<1>7. 61 \notin ignore
  BY DEF Apart
<1> HIDE DEF M, p
<1>8. Skipped(text, n, s.pos, p, ignore, skip)
  BY <1>2, <1>5, <1>7, PaddingSkipped
<1> HIDE DEF skip
<1>9. /\ skip.pos \in s.pos..n /\ skip.ret \in {0, -1}
      /\ skip.ret = 0 => K(skip.pos) = K(s.pos) + p
      /\ skip.ret # 0 => K(skip.pos) < K(s.pos) + p /\ (skip.pos = n \/ text[skip.pos + 1] \notin ignore \cup {61})
  BY <1>8 DEF Skipped
<1>10. CASE Unpadded(variant)
  <2>1. K(s.pos) = N
    BY <1>2, <1>3, <1>5, <1>10
  <2>2. Trailed(text, s.pos, ignore) = n
    BY <1>2, <2>1, NoMoreKept
  <2> QED
    BY <1>2, <1>6, <1>10, <2>2
<1>11. CASE ~Unpadded(variant)
  <2>1. N = M + p
    BY <1>3, <1>11
  <2>2. skip.pos \in 0..n
    BY <1>2, <1>9
  <2>3. ASSUME skip.ret # 0 PROVE FALSE
    <3>1. K(skip.pos) < N
      BY <1>2, <1>9, <2>1, <2>3
    <3>2. skip.pos # n
      <4>1. N \in Nat
        BY <1>5, <2>1
      <4> QED
        BY <3>1, <4>1
    <3>3. skip.pos < n /\ text[skip.pos + 1] \notin ignore /\ text[skip.pos + 1] # 61
      BY <1>9, <2>2, <2>3, <3>2
    <3>4. /\ KeptAt(text, KeptIn(text, skip.pos, ignore) + 1, ignore) = text[skip.pos + 1]
          /\ KeptIn(text, skip.pos, ignore) + 1 \in 1..KeptIn(text, n, ignore)
      BY <2>2, <3>3, KeptOneMore
    <3>5. KeptIn(text, s.pos, ignore) <= KeptIn(text, skip.pos, ignore) /\ KeptIn(text, skip.pos, ignore) \in Nat
      <4>1. s.pos \in Nat /\ skip.pos \in Nat /\ s.pos <= skip.pos
        BY <1>2, <1>9
      <4> QED
        BY <4>1, KeptGrows
    <3>6. KeptIn(text, skip.pos, ignore) + 1 \in M+1..N
      BY <1>2, <1>5, <3>4, <3>5
    <3> QED
      BY <1>3, <3>3, <3>4, <3>6
  <2>4. K(skip.pos) = N
    BY <1>2, <1>9, <2>1, <2>3
  <2>5. Trailed(text, skip.pos, ignore) = n
    BY <2>2, <2>4, NoMoreKept
  <2> QED
    BY <1>2, <1>6, <1>11, <2>3, <2>5
<1> QED
  BY <1>10, <1>11

-----------------------------------------------------------------------------
(* What a call of sodium_base642bin returns, and what is read again.       *)

\* What is read of a text is the encoding of what comes of it, and an encoding
\* that fits is read.
Base64ReadOf(text, n, maxlen, ignore, variant) ==
    \E f : /\ \A hasEnd \in BOOLEAN :
                 sodium_base642bin(maxlen, text, ignore, hasEnd, variant, FALSE) = Ended(f, n, hasEnd)
           /\ ReadWhole(text, n, f, maxlen, ignore, variant)
           /\ \A nb \in Nat : \A b \in Bytes(nb) :
                 nb <= maxlen /\ Kept(text, n, ignore) = Encoded(b, variant) => f.ret = 0 /\ f.pos = n /\ f.bin = b
LEMMA Base642binReads ==
    ASSUME NEW n \in Nat, NEW text \in Bytes(n), NEW maxlen \in Nat, NEW variant \in Variants, NEW ignore, Apart(ignore, variant)
    PROVE  Base64ReadOf(text, n, maxlen, ignore, variant)
<1>1. DecLoopOf(text, maxlen, ignore, variant)
  BY DecLoop
<1>2. PICK s : /\ DecTurns(text, maxlen, ignore, variant, s)
               /\ \A hasEnd : sodium_base642bin(maxlen, text, ignore, hasEnd, variant, FALSE) =
                                DecDone(s[Len(text)], text, ignore, hasEnd, variant)
  BY <1>1 DEF DecLoopOf
<1>3. Len(text) = n
  BY BytesAreBinaries
<1> DEFINE t == s[n]  f == Final(t, text, ignore, variant)
<1>4. Decoding(text, n, t, maxlen, ignore, variant)
  BY <1>2, DecTurnsRead
<1>5. sodium_base64_check_variant(variant)
  BY DEF sodium_base64_check_variant, Variants
<1>6. \A hasEnd \in BOOLEAN : sodium_base642bin(maxlen, text, ignore, hasEnd, variant, FALSE) = Ended(f, n, hasEnd)
  <2> TAKE hasEnd \in BOOLEAN
  <2>1. sodium_base642bin(maxlen, text, ignore, hasEnd, variant, FALSE) = DecDone(t, text, ignore, hasEnd, variant)
    BY <1>2, <1>3
  <2> HIDE DEF t
  <2>2. DecDone(t, text, ignore, hasEnd, variant) = Ended(f, n, hasEnd)
    BY <1>3, <1>5 DEF DecDone, Final
  <2> QED
    BY <2>1, <2>2
<1> HIDE DEF t, f
<1>7. FinalOf(text, t, f, ignore, variant)
  BY <1>4, FinalIs DEF f
<1>8. ReadWhole(text, n, f, maxlen, ignore, variant)
  BY <1>4, <1>7, FinalReads
<1>9. ASSUME NEW nb \in Nat, NEW b \in Bytes(nb), nb <= maxlen, Kept(text, n, ignore) = Encoded(b, variant)
      PROVE  f.ret = 0 /\ f.pos = n /\ f.bin = b
  BY <1>4, <1>7, <1>9, FinalReadsEncoded
<1> QED
  BY <1>6, <1>8, <1>9 DEF Base64ReadOf

\* What is kept of a beginning of a text is kept of it alone.
LEMMA KeptOfBeginning ==
    ASSUME NEW n \in Nat, NEW text \in Bytes(n), NEW ignore, NEW e \in 0..n
    PROVE  /\ SubSeq(text, 1, e) \in Bytes(e) /\ Len(SubSeq(text, 1, e)) = e
           /\ Kept(SubSeq(text, 1, e), e, ignore) = Kept(text, e, ignore)
<1> DEFINE p == SubSeq(text, 1, e)  K == KeptIn(text, e, ignore)
<1>1. text \in Binaries /\ Len(text) = n
  BY BytesAreBinaries
<1>2. p \in Binaries /\ Len(p) = e /\ \A j \in 1..e : p[j] = text[j]
  BY <1>1, BeginningOf
<1> HIDE DEF p
<1>3. p \in Bytes(e)
  BY <1>2, BinariesAreBytes
<1>4. ASSUME NEW k \in 0..e PROVE KeptIn(p, k, ignore) = KeptIn(text, k, ignore)
  <2> DEFINE set == (0..255) \ ignore
  <2> HIDE DEF set
  <2>1. e \in Nat /\ \A j \in 1..e : p[j] = text[j]
    BY <1>2
  <2>2. CountIn(p, k, set) = CountIn(text, k, set)
    BY <2>1, CountAlike
  <2> QED
    BY <2>2 DEF KeptIn, set
<1>5. e \in 0..e
  OBVIOUS
<1>6. KeptIn(p, e, ignore) = K
  BY <1>4, <1>5
<1>7. /\ Kept(text, e, ignore) \in Binaries /\ Len(Kept(text, e, ignore)) = K
      /\ \A j \in 1..K : Kept(text, e, ignore)[j] = KeptAt(text, j, ignore)
  BY KeptIsText
<1>8. /\ Kept(p, e, ignore) \in Binaries /\ Len(Kept(p, e, ignore)) = K
      /\ \A j \in 1..K : Kept(p, e, ignore)[j] = KeptAt(p, j, ignore)
  BY <1>3, <1>5, <1>6, KeptIsText
<1>9. ASSUME NEW j \in 1..K PROVE KeptAt(p, j, ignore) = KeptAt(text, j, ignore)
  <2>1. PICK k \in 1..e : /\ KeptAt(text, j, ignore) = text[k] /\ text[k] \in (0..255) \ ignore
                          /\ KeptIn(text, k, ignore) = j
    BY KeptIsThere DEF K
  <2>2. p[k] = text[k] /\ KeptIn(p, k, ignore) = j
    BY <1>2, <1>4, <2>1
  <2>3. KeptAt(p, KeptIn(p, k, ignore), ignore) = p[k]
    BY <1>2, <2>1, <2>2, KeptLast, SMTT(30)
  <2> QED
    BY <2>1, <2>2, <2>3
<1>10. Kept(p, e, ignore) = Kept(text, e, ignore)
  <2> DEFINE q == Kept(p, e, ignore)  r == Kept(text, e, ignore)
  <2>1. q \in Binaries /\ r \in Binaries /\ Len(q) = Len(r) /\ \A j \in 1..Len(q) : q[j] = r[j]
    BY <1>7, <1>8, <1>9
  <2> HIDE DEF q, r
  <2>2. q = r
    BY <2>1, Alike
  <2> QED
    BY <2>2 DEF q, r
<1> QED
  BY <1>2, <1>3, <1>10 DEF p

\* With nothing to ignore a text is kept whole.
LEMMA KeptWhole ==
    ASSUME NEW n \in Nat, NEW text \in Bytes(n)
    PROVE  Kept(text, n, {}) = text
<1>1. text \in Binaries /\ Len(text) = n /\ \A k \in 1..n : text[k] \in 0..255
  BY BytesAreBinaries DEF Bytes
<1>2. ASSUME NEW k \in 0..n PROVE KeptIn(text, k, {}) = k
  <2>1. {i \in 1..k : text[i] \in (0..255) \ {}} = 1..k
    BY <1>1
  <2>2. Cardinality(1..k) = k
    <3>1. Cardinality(1..k) = IF 1 > k THEN 0 ELSE k - 1 + 1
      BY FS_Interval
    <3> QED
      BY <3>1
  <2> QED
    BY <2>1, <2>2 DEF KeptIn, CountIn
<1>3. n \in 0..n /\ KeptIn(text, n, {}) = n
  BY <1>2
<1>4. /\ Kept(text, n, {}) \in Binaries /\ Len(Kept(text, n, {})) = n
      /\ \A j \in 1..n : Kept(text, n, {})[j] = KeptAt(text, j, {})
  BY <1>3, KeptIsText
<1>5. ASSUME NEW k \in 1..n PROVE KeptAt(text, k, {}) = text[k]
  <2>1. KeptIn(text, k, {}) = k
    BY <1>2
  <2>2. KeptAt(text, KeptIn(text, k, {}), {}) = text[k]
    BY <1>1, KeptLast
  <2> QED
    BY <2>1, <2>2
<1> DEFINE q == Kept(text, n, {})
<1>6. q \in Binaries /\ Len(q) = Len(text) /\ \A j \in 1..Len(q) : q[j] = text[j]
  BY <1>1, <1>4, <1>5
<1> HIDE DEF q
<1>7. q = text
  BY <1>1, <1>6, Alike
<1> QED
  BY <1>7 DEF q

\* What is written is read again.
LEMMA EncodedReadsBack ==
    ASSUME NEW n \in Nat, NEW bin \in Bytes(n), NEW variant \in Variants
    PROVE  sodium_base642bin(n, Encoded(bin, variant), {}, FALSE, variant, FALSE) = Passed(0, bin, Len(Encoded(bin, variant)))
<1> DEFINE e == Encoded(bin, variant)  l == Len(e)
<1>1. EncodedText(bin, n, variant)
  BY EncodedIsText
<1>2. e \in Binaries
  BY <1>1 DEF EncodedText
<1> HIDE DEF e
<1>3. l \in Nat /\ e \in Bytes(l)
  BY <1>2, BinariesAreBytes
<1> HIDE DEF l
<1>4. Kept(e, l, {}) = e
  BY <1>3, KeptWhole
<1>5. Apart({}, variant)
  BY DEF Apart
<1>6. Base64ReadOf(e, l, n, {}, variant)
  BY <1>3, <1>5, Base642binReads
<1>7. PICK f : /\ sodium_base642bin(n, e, {}, FALSE, variant, FALSE) = Ended(f, l, FALSE)
               /\ \A nb \in Nat : \A b \in Bytes(nb) :
                    nb <= n /\ Kept(e, l, {}) = Encoded(b, variant) => f.ret = 0 /\ f.pos = l /\ f.bin = b
  BY <1>6 DEF Base64ReadOf
<1>8. f.ret = 0 /\ f.pos = l /\ f.bin = bin
  BY <1>4, <1>7 DEF e
<1>9. Ended(f, l, FALSE) = Passed(0, bin, l)
  BY <1>8 DEF Ended
<1> QED
  BY <1>7, <1>9 DEF e, l

\* Only the zeros are cut off what is written.
LEMMA WrittenIsCut ==
    ASSUME NEW e \in Binaries, NEW room \in Nat
    PROVE  SubSeq(e \o [k \in 1..room |-> 0], 1, Len(e)) = e
<1> DEFINE z == [k \in 1..room |-> 0]  w == e \o z  q == SubSeq(w, 1, Len(e))
<1>1. z \in Binaries /\ Len(z) = room
  <2>1. 0 \in 0..255
    OBVIOUS
  <2> QED
    BY <2>1, Repeated
<1> HIDE DEF z
<1>2. w \in Binaries /\ Len(w) = Len(e) + room /\ Len(e) \in Nat /\ \A j \in 1..Len(e) : w[j] = e[j]
  BY <1>1, Joined
<1> HIDE DEF w
<1>3. q \in Binaries /\ Len(q) = Len(e) /\ \A j \in 1..Len(e) : q[j] = w[j]
  BY <1>2, BeginningOf
<1> HIDE DEF q
<1>4. q = e
  BY <1>2, <1>3, Alike
<1> QED
  BY <1>4, Zenon DEF q, w, z

-----------------------------------------------------------------------------
(* The calls of base64.                                                    *)

\* The fields of a result, and of one with another return value.
LEMMA PassedFields ==
    ASSUME NEW ret, NEW q, NEW end, NEW other
    PROVE  /\ Passed(ret, q, end).ret = ret /\ Passed(ret, q, end).bin = q
           /\ Passed(ret, q, end).len = Len(q) /\ Passed(ret, q, end).end = end
           /\ [Passed(ret, q, end) EXCEPT !.ret = other] = Passed(other, q, end)
BY DEF Passed

\* What a call reads, and how the parts of its result hang together.
ReadTogether(text, n, maxlen, ignore, variant, read, whole, prefix, code) ==
    LET good == read.ret = 0
    IN /\ good => /\ Kept(text, read.end, ignore) = Encoded(read.bin, variant) /\ read.len <= maxlen
                  /\ code = Encoded(read.bin, variant) \o <<0>> /\ prefix = read
       /\ ~good => read.len = 0
       /\ whole = [read EXCEPT !.ret = IF good /\ read.end = n THEN 0 ELSE -1]
       /\ \A nb \in Nat : \A b \in Bytes(nb) :
             Kept(text, n, ignore) = Encoded(b, variant) /\ nb <= maxlen => good /\ read.end = n /\ read.bin = b
LEMMA ReadsTogether ==
    ASSUME NEW n \in Nat, NEW text \in Bytes(n), NEW maxlen \in Nat, NEW variant \in Variants, NEW ignore, Apart(ignore, variant),
           NEW read, read = sodium_base642bin(maxlen, text, ignore, TRUE, variant, FALSE),
           NEW whole, whole = sodium_base642bin(maxlen, text, ignore, FALSE, variant, FALSE),
           NEW prefix, prefix = sodium_base642bin(maxlen, SubSeq(text, 1, read.end), ignore, FALSE, variant, FALSE),
           NEW code, code = sodium_bin2base64(EncodedLen(read.len, variant) + 1, read.bin, variant)
    PROVE  ReadTogether(text, n, maxlen, ignore, variant, read, whole, prefix, code)
<1>1. Base64ReadOf(text, n, maxlen, ignore, variant)
  BY Base642binReads
<1>2. PICK f : /\ \A hasEnd \in BOOLEAN : sodium_base642bin(maxlen, text, ignore, hasEnd, variant, FALSE) = Ended(f, n, hasEnd)
               /\ ReadWhole(text, n, f, maxlen, ignore, variant)
               /\ \A nb \in Nat : \A b \in Bytes(nb) :
                    nb <= maxlen /\ Kept(text, n, ignore) = Encoded(b, variant) => f.ret = 0 /\ f.pos = n /\ f.bin = b
  BY <1>1 DEF Base64ReadOf
<1>3. /\ f.ret \in {0, -1} /\ f.pos \in 0..n /\ f.bin \in Binaries
      /\ f.ret = 0 => Kept(text, f.pos, ignore) = Encoded(f.bin, variant) /\ Len(f.bin) <= maxlen
  BY <1>2 DEF ReadWhole
<1> DEFINE r == IF f.ret # 0 THEN <<>> ELSE f.bin
<1>4. read = Passed(f.ret, r, f.pos)
  <2>1. read = Ended(f, n, TRUE)
    BY <1>2
  <2> QED
    BY <2>1 DEF Ended
<1>5. whole = Passed(IF f.pos # n THEN -1 ELSE f.ret, r, f.pos)
  <2>1. whole = Ended(f, n, FALSE)
    BY <1>2
  <2> QED
    BY <2>1 DEF Ended
<1>6. /\ read.ret = f.ret /\ read.end = f.pos
      /\ f.ret = 0 => read.bin = f.bin /\ read.len = Len(f.bin)
      /\ f.ret # 0 => read.len = 0
  <2>1. (f.ret = 0 => r = f.bin) /\ (f.ret # 0 => Len(r) = 0)
    OBVIOUS
  <2> HIDE DEF r
  <2>2. read.ret = f.ret /\ read.end = f.pos /\ read.bin = r /\ read.len = Len(r)
    <3> DEFINE q == Passed(f.ret, r, f.pos)
    <3>1. q.ret = f.ret /\ q.end = f.pos /\ q.bin = r /\ q.len = Len(r)
      BY PassedFields
    <3>2. read = q
      BY <1>4
    <3> HIDE DEF q
    <3> QED
      BY <3>1, <3>2
  <2> QED
    BY <2>1, <2>2
<1> HIDE DEF r
<1>7. whole = [read EXCEPT !.ret = IF f.ret = 0 /\ f.pos = n THEN 0 ELSE -1]
  <2> DEFINE w == IF f.pos # n THEN -1 ELSE f.ret
  <2>1. w = IF f.ret = 0 /\ f.pos = n THEN 0 ELSE -1
    BY <1>3
  <2> HIDE DEF w
  <2>2. Passed(w, r, f.pos) = [Passed(f.ret, r, f.pos) EXCEPT !.ret = w]
    BY PassedFields
  <2> QED
    BY <1>4, <1>5, <2>1, <2>2 DEF w
<1>8. ASSUME f.ret = 0
      PROVE  code = Encoded(f.bin, variant) \o <<0>> /\ prefix = read
  <2> DEFINE l == Len(f.bin)  e == f.pos  p == SubSeq(text, 1, e)
  <2>1. l \in Nat /\ f.bin \in Bytes(l)
    BY <1>3, BinariesAreBytes
  <2>2. code = Encoded(f.bin, variant) \o [k \in 1..1 |-> 0]
    <3>1. code = sodium_bin2base64(EncodedLen(l, variant) + 1, f.bin, variant)
      BY <1>6, <1>8
    <3> DEFINE z(room) == [k \in 1..room |-> 0]
    <3> HIDE DEF l
    <3>2. Base64Written(l, f.bin, variant, 1)
      BY <2>1, Bin2base64Writes
    <3>3. sodium_bin2base64(EncodedLen(l, variant) + 1, f.bin, variant) =
            IF 1 = 0 THEN <<Misused>> ELSE Encoded(f.bin, variant) \o z(1)
      BY <3>2, Zenon DEF Base64Written
    <3>4. (IF 1 = 0 THEN <<Misused>> ELSE Encoded(f.bin, variant) \o z(1)) = Encoded(f.bin, variant) \o z(1)
      <4>1. 1 # 0
        OBVIOUS
      <4> QED
        BY <4>1, Zenon
    <3> QED
      BY <3>1, <3>3, <3>4, Zenon
  <2>3. [k \in 1..1 |-> 0] = <<0>>
    OBVIOUS
  <2>4. prefix = sodium_base642bin(maxlen, p, ignore, FALSE, variant, FALSE)
    BY <1>6
  <2>5. e \in Nat /\ p \in Bytes(e) /\ Kept(p, e, ignore) = Kept(text, e, ignore)
    BY <1>3, KeptOfBeginning
  <2>6. Kept(p, e, ignore) = Encoded(f.bin, variant) /\ l <= maxlen
    BY <1>3, <1>8, <2>5
  <2> HIDE DEF p, l, e
  <2>7. Base64ReadOf(p, e, maxlen, ignore, variant)
    BY <2>5, Base642binReads
  <2>8. PICK g : /\ sodium_base642bin(maxlen, p, ignore, FALSE, variant, FALSE) = Ended(g, e, FALSE)
                 /\ \A nb \in Nat : \A b \in Bytes(nb) :
                      nb <= maxlen /\ Kept(p, e, ignore) = Encoded(b, variant) => g.ret = 0 /\ g.pos = e /\ g.bin = b
    BY <2>7 DEF Base64ReadOf
  <2>9. g.ret = 0 /\ g.pos = e /\ g.bin = f.bin
    BY <2>1, <2>6, <2>8
  <2>10. prefix = Passed(0, f.bin, f.pos)
    BY <2>4, <2>8, <2>9 DEF Ended, e
  <2>11. r = f.bin
    BY <1>8 DEF r
  <2>12. read = Passed(0, f.bin, f.pos)
    BY <1>4, <1>8, <2>11
  <2> QED
    BY <2>2, <2>3, <2>10, <2>12, Zenon
<1>9. ASSUME NEW nb \in Nat, NEW b \in Bytes(nb), Kept(text, n, ignore) = Encoded(b, variant), nb <= maxlen
      PROVE  f.ret = 0 /\ f.pos = n /\ f.bin = b
  BY <1>2, <1>9
<1>10. \A nb \in Nat : \A b \in Bytes(nb) :
         Kept(text, n, ignore) = Encoded(b, variant) /\ nb <= maxlen => read.ret = 0 /\ read.end = n /\ read.bin = b
  BY <1>6, <1>9
<1> QED
  BY <1>3, <1>6, <1>7, <1>8, <1>10 DEF ReadTogether

\* What any call of base64 leaves is right.
LEMMA Base64OfCall ==
    Answered => Base64IsOneToOne
<1> SUFFICES ASSUME Answered, call.op = "base64", out # Nothing
             PROVE  Base64IsOneToOne
  BY DEF Base64IsOneToOne, Done
<1> DEFINE n == Len(call.bin)  bin == call.bin  room == call.room  text == call.text  l == Len(call.text)
           maxlen == call.maxlen  ignore == call.ignore  variant == call.variant
           b64 == sodium_bin2base64(EncodedLen(n, variant) + room, bin, variant)
           cut == IF room = 0 THEN 0 ELSE sodium_base64_encoded_len(n, variant) - 1
           read == sodium_base642bin(maxlen, text, ignore, TRUE, variant, FALSE)
           whole == sodium_base642bin(maxlen, text, ignore, FALSE, variant, FALSE)
           prefix == sodium_base642bin(maxlen, SubSeq(text, 1, read.end), ignore, FALSE, variant, FALSE)
           code == sodium_bin2base64(EncodedLen(read.len, variant) + 1, read.bin, variant)
<1>1. /\ n \in Nat /\ bin \in Bytes(n) /\ room \in Nat /\ l \in Nat /\ text \in Bytes(l)
      /\ maxlen \in Nat /\ variant \in Variants /\ Apart(ignore, variant) /\ out = Base64Of(call)
  <2>1. call \in Inputs /\ out = Answer(call)
    BY DEF Answered
  <2>2. Answer(call) = Base64Of(call)
    BY <2>1, AnswersAreResults, Zenon
  <2> QED
    BY <2>1, <2>2, InputsAreBytes DEF Variants, Apart
<1>2. /\ out.b64 = b64 /\ out.back = sodium_base642bin(n, SubSeq(b64, 1, cut), {}, FALSE, variant, FALSE)
      /\ out.read = read /\ out.whole = whole /\ out.prefix = prefix /\ out.code = code
  BY <1>1 DEF Base64Of
<1>3. Base64IsOneToOne <=>
        LET good == out.read.ret = 0
            all == good /\ out.read.end = l
        IN /\ IF room = 0 THEN out.b64 = <<Misused>>
              ELSE /\ out.b64 = Encoded(bin, variant) \o [k \in 1..room |-> 0]
                   /\ out.back = Passed(0, bin, Len(Encoded(bin, variant)))
           /\ good => /\ Kept(text, out.read.end, ignore) = Encoded(out.read.bin, variant) /\ out.read.len <= maxlen
                      /\ out.code = Encoded(out.read.bin, variant) \o <<0>> /\ out.prefix = out.read
           /\ ~good => out.read.len = 0
           /\ out.whole = [out.read EXCEPT !.ret = IF all THEN 0 ELSE -1]
           /\ (Kept(text, l, ignore) = Encoded(bin, variant) /\ n <= maxlen) => all /\ out.read.bin = bin
  BY DEF Base64IsOneToOne, Done
<1> HIDE DEF n, bin, room, text, l, maxlen, ignore, variant
<1>4. ReadTogether(text, l, maxlen, ignore, variant, read, whole, prefix, code)
  BY <1>1, ReadsTogether
<1>5. Base64Written(n, bin, variant, room)
  BY <1>1, Bin2base64Writes
<1> HIDE DEF read, whole, prefix, code
<1>6. IF room = 0 THEN b64 = <<Misused>> ELSE b64 = Encoded(bin, variant) \o [k \in 1..room |-> 0]
  BY <1>5, Zenon DEF Base64Written
<1>7. ASSUME room # 0
      PROVE  out.back = Passed(0, bin, Len(Encoded(bin, variant)))
  <2> DEFINE e == Encoded(bin, variant)
  <2>1. EncodedText(bin, n, variant)
    BY <1>1, EncodedIsText
  <2>2. e \in Binaries /\ Len(e) = EncodedLen(n, variant)
    BY <2>1 DEF EncodedText
  <2>3. sodium_base64_check_variant(variant)
    BY <1>1 DEF sodium_base64_check_variant, Variants
  <2> HIDE DEF e, b64
  <2>4. Len(e) \in Nat
    BY <2>2, BinariesAreBytes
  <2>5. sodium_base64_encoded_len(n, variant) = Len(e) + 1
    BY <2>2, <2>3 DEF sodium_base64_encoded_len
  <2>6. cut = Len(e)
    <3>1. cut = sodium_base64_encoded_len(n, variant) - 1
      BY <1>7
    <3> HIDE DEF cut
    <3> QED
      BY <2>4, <2>5, <3>1
  <2>7. b64 = e \o [k \in 1..room |-> 0]
    BY <1>6, <1>7, Zenon DEF e
  <2>8. SubSeq(e \o [k \in 1..room |-> 0], 1, Len(e)) = e
    BY <1>1, <2>2, WrittenIsCut
  <2> HIDE DEF cut
  <2>9. SubSeq(b64, 1, cut) = e
    BY <2>6, <2>7, <2>8, Zenon
  <2>10. sodium_base642bin(n, e, {}, FALSE, variant, FALSE) = Passed(0, bin, Len(e))
    BY <1>1, EncodedReadsBack DEF e
  <2> QED
    BY <1>2, <2>9, <2>10 DEF e
<1> HIDE DEF b64, cut
<1> DEFINE good == read.ret = 0
<1>8. /\ good => /\ Kept(text, read.end, ignore) = Encoded(read.bin, variant) /\ read.len <= maxlen
                 /\ code = Encoded(read.bin, variant) \o <<0>> /\ prefix = read
      /\ ~good => read.len = 0
      /\ whole = [read EXCEPT !.ret = IF good /\ read.end = l THEN 0 ELSE -1]
      /\ (Kept(text, l, ignore) = Encoded(bin, variant) /\ n <= maxlen) => good /\ read.end = l /\ read.bin = bin
  BY <1>1, <1>4, Zenon DEF ReadTogether
<1>9. IF room = 0 THEN out.b64 = <<Misused>>
      ELSE /\ out.b64 = Encoded(bin, variant) \o [k \in 1..room |-> 0]
           /\ out.back = Passed(0, bin, Len(Encoded(bin, variant)))
  BY <1>2, <1>6, <1>7, Zenon
<1> QED
  BY <1>2, <1>3, <1>8, <1>9, Zenon

\* A char that is not negative is its byte.
LEMMA CharIsByte ==
    ASSUME NEW b \in 0..255, NEW signed, signed => b \in 0..127
    PROVE  CharOf(b, signed) = b
BY DEF CharOf

\* What any call of the comparisons leaves is right, unless a char is negative.
LEMMA CharsOfCall ==
    ASSUME \A c \in Inputs : c.op = "chars" => ~c.signed \/ c.bytes \subseteq 0..127
    PROVE  Answered => ComparisonsAreRight
<1> SUFFICES ASSUME Answered, call.op = "chars", out # Nothing
             PROVE  ComparisonsAreRight
  BY DEF ComparisonsAreRight, Done
<1> DEFINE bytes == call.bytes  signed == call.signed  variant == call.variant
           same == [b \in bytes |-> {y \in {43, 45, 47, 65, 95} : EQ(CharOf(b, signed), y) # 0}]
           byte == [b \in bytes |-> b64_char_to_byte(CharOf(b, signed), variant)]
           char == [x \in 0..63 |-> b64_byte_to_char(x, variant)]
<1>1. /\ bytes \subseteq 0..255 /\ variant \in Variants /\ (signed => bytes \subseteq 0..127) /\ out = CharsOf(call)
  <2>1. call \in Inputs /\ out = Answer(call)
    BY DEF Answered
  <2>2. Answer(call) = CharsOf(call)
    BY <2>1, AnswersAreResults, Zenon
  <2>3. ~call.signed \/ call.bytes \subseteq 0..127
    BY <2>1, Zenon
  <2>4. call.bytes \subseteq 0..255 /\ call.signed \in BOOLEAN /\ call.variant \in {1, 3, 5, 7}
    BY <2>1, InputsAreBytes, Zenon
  <2> QED
    BY <2>1, <2>2, <2>3, <2>4 DEF Variants
<1>2. out.same = same /\ out.byte = byte /\ out.char = char
  BY <1>1 DEF CharsOf
<1>3. ComparisonsAreRight <=>
        /\ out.same = [b \in bytes |-> {y \in {43, 45, 47, 65, 95} : y = b}]
        /\ out.char = Alphabet(variant)
        /\ \A b \in bytes : IF b \in Letters(variant) THEN out.byte[b] \in 0..63 /\ Alphabet(variant)[out.byte[b]] = b
                            ELSE out.byte[b] = 255
  BY DEF ComparisonsAreRight, Done
<1>4. ASSUME NEW b \in bytes PROVE b \in 0..255 /\ CharOf(b, signed) = b
  <2>1. b \in 0..255 /\ (signed => b \in 0..127)
    BY <1>1
  <2> QED
    BY <2>1, CharIsByte
<1> HIDE DEF bytes, signed, variant
<1>5. same = [b \in bytes |-> {y \in {43, 45, 47, 65, 95} : y = b}]
  <2>1. ASSUME NEW b \in bytes, NEW y \in {43, 45, 47, 65, 95}
        PROVE  EQ(CharOf(b, signed), y) # 0 <=> y = b
    <3>1. CharOf(b, signed) = b /\ b \in 0..255 /\ y \in 0..255
      BY <1>4
    <3>2. EQ(b, y) = IF b = y THEN 255 ELSE 0
      BY <3>1, Equals, Zenon
    <3> QED
      BY <3>1, <3>2
  <2> QED
    BY <2>1
<1>6. char = Alphabet(variant)
  <2>1. \A x \in 0..63 : b64_byte_to_char(x, variant) = Alphabet(variant)[x]
    BY <1>1, CharacterOfNumber
  <2>2. Alphabet(variant) = [x \in 0..63 |-> Alphabet(variant)[x]]
    BY DEF Alphabet
  <2> QED
    BY <2>1, <2>2
<1>7. ASSUME NEW b \in bytes
      PROVE  IF b \in Letters(variant) THEN byte[b] \in 0..63 /\ Alphabet(variant)[byte[b]] = b ELSE byte[b] = 255
  <2>1. b \in 0..255 /\ CharOf(b, signed) = b
    BY <1>4
  <2>2. b64_char_to_byte(b, variant) = Rank(b, variant)
    BY <1>1, <2>1, NumberOfCharacter
  <2>3. byte[b] = Rank(b, variant)
    BY <2>1, <2>2
  <2> HIDE DEF byte
  <2>4. RankedAs(b, variant)
    <3>1. b \in 0..255 /\ variant \in Variants
      BY <1>1, <2>1
    <3> QED
      BY <3>1, CharacterIsRanked, Zenon
  <2> QED
    BY <2>3, <2>4, Zenon DEF RankedAs
<1> HIDE DEF same, byte, char
<1> QED
  BY <1>2, <1>3, <1>5, <1>6, <1>7

\* What is written of bytes in base64 is the encoding of RFC 4648 and is read
\* back, all that is read is the encoding of what comes of it, and every encoding
\* that fits is read: sodium_bin2base64 and sodium_base642bin of codecs.c.
THEOREM Base64StaysOneToOne ==
    Spec => []Base64IsOneToOne
BY CallsAreAnswered, Base64OfCall, PTL

\* So with the comparisons: all that codecs.c does with base64 is right, where
\* no char is negative.
THEOREM CodecsStayRight ==
    ASSUME \A c \in Inputs : c.op = "chars" => ~c.signed \/ c.bytes \subseteq 0..127
    PROVE  Spec => []CodecsAreRight
<1>1. Answered => CodecsAreRight
  BY Base64OfCall, CharsOfCall DEF CodecsAreRight
<1> QED
  BY <1>1, CallsAreAnswered, PTL
=============================================================================
