------------------------------- MODULE Words --------------------------------
(***************************************************************************)
(* Exclusive or, and, or, and the product without carries, of small words, *)
(* as tables: what the machine does to words of 32 and 64 bits.  The       *)
(* tables are written without recursion, so that TLC computes each once.   *)
(* And the arithmetic of unsigned int and size_t, which have 16 bits here. *)
(***************************************************************************)
EXTENDS Integers, Sequences

Uint == 65536
Bits4(f(_, _), a, b) ==
    f(a % 2, b % 2) + 2 * f((a \div 2) % 2, (b \div 2) % 2)
    + 4 * f((a \div 4) % 2, (b \div 4) % 2) + 8 * f(a \div 8, b \div 8)
(* The pair a, b of words of w bits is at a * 2^w + b.                     *)
And4Table == [k \in 0..255 |-> Bits4(LAMBDA x, y : x * y, k \div 16, k % 16)]
Xor4Table == [k \in 0..255 |-> (k \div 16) + (k % 16) - 2 * And4Table[k]]
Xor4(a, b) == Xor4Table[16 * a + b]
Xor8Table ==
    [k \in 0..Uint-1 |-> 16 * Xor4(k \div 4096, (k \div 16) % 16) + Xor4((k \div 256) % 16, k % 16)]
Xor8(a, b) == Xor8Table[256 * a + b]
And8(a, b) == (a + b - Xor8(a, b)) \div 2
Or8(a, b) == a + b - And8(a, b)
Xor16(a, b) == 256 * Xor8(a \div 256, b \div 256) + Xor8(a % 256, b % 256)
And16(a, b) == 256 * And8(a \div 256, b \div 256) + And8(a % 256, b % 256)
Or16(a, b) == a + b - And16(a, b)
Clmul4Table ==
    [k \in 0..255 |->
        LET b == k % 16
            times(n, bit) == IF bit = 1 THEN n * (k \div 16) ELSE 0
        IN Xor8(Xor8(times(1, b % 2), times(2, (b \div 2) % 2)), Xor8(times(4, (b \div 4) % 2), times(8, b \div 8)))]
Clmul4(a, b) == Clmul4Table[16 * a + b]
Clmul8(a, b) ==
    Xor16(256 * Clmul4(a \div 16, b \div 16) + Clmul4(a % 16, b % 16),
          16 * Xor8(Clmul4(a \div 16, b % 16), Clmul4(a % 16, b \div 16)))

Minus16(a, b) == (a - b) % Uint
(* The low byte of the high one: what >> 8, and the width of a char, leave. *)
Top(x) == (x \div 256) % 256
Neg16(x) == Minus16(0, x)
=============================================================================
