------------------------------- MODULE MCCurve -------------------------------
EXTENDS Curve
MCGroup ==
    << <<0, 1>>, <<4, 19>>, <<69, 65>>, <<85, 77>>, <<52, 71>>, <<29, 20>>,
       <<19, 58>>, <<94, 84>>, <<63, 52>>, <<1, 73>>, <<95, 6>>, <<91, 87>>,
       <<44, 88>>, <<21, 70>>, <<70, 74>>, <<37, 49>>, <<89, 26>>,
       <<11, 76>>, <<81, 101>>, <<47, 59>>, <<61, 27>>, <<6, 24>>,
       <<54, 28>>, <<34, 29>>, <<74, 12>>, <<82, 86>>, <<33, 0>>, <<82, 23>>,
       <<74, 97>>, <<34, 80>>, <<54, 81>>, <<6, 85>>, <<61, 82>>, <<47, 50>>,
       <<81, 8>>, <<11, 33>>, <<89, 83>>, <<37, 60>>, <<70, 35>>, <<21, 39>>,
       <<44, 21>>, <<91, 22>>, <<95, 103>>, <<1, 36>>, <<63, 57>>,
       <<94, 25>>, <<19, 51>>, <<29, 89>>, <<52, 38>>, <<85, 32>>,
       <<69, 44>>, <<4, 90>>, <<0, 108>>, <<105, 90>>, <<40, 44>>,
       <<24, 32>>, <<57, 38>>, <<80, 89>>, <<90, 51>>, <<15, 25>>,
       <<46, 57>>, <<108, 36>>, <<14, 103>>, <<18, 22>>, <<65, 21>>,
       <<88, 39>>, <<39, 35>>, <<72, 60>>, <<20, 83>>, <<98, 33>>, <<28, 8>>,
       <<62, 50>>, <<48, 82>>, <<103, 85>>, <<55, 81>>, <<75, 80>>,
       <<35, 97>>, <<27, 23>>, <<76, 0>>, <<27, 86>>, <<35, 12>>, <<75, 29>>,
       <<55, 28>>, <<103, 24>>, <<48, 27>>, <<62, 59>>, <<28, 101>>,
       <<98, 76>>, <<20, 26>>, <<72, 49>>, <<39, 74>>, <<88, 70>>,
       <<65, 88>>, <<18, 87>>, <<14, 6>>, <<108, 73>>, <<46, 52>>,
       <<15, 84>>, <<90, 58>>, <<80, 20>>, <<57, 71>>, <<24, 77>>,
       <<40, 65>>, <<105, 19>> >>
(* L = 13 = 16 - 3.                                                        *)
mcslide == [i \in 0..(Bits-1) |-> IF i = 0 THEN -3 ELSE IF i = 4 THEN 1 ELSE 0]
MCHash(domain, x) == 
    LET p == IF domain THEN 31 ELSE 17
    IN FoldLeft(LAMBDA v, y : (v * p + y * 7 + 5) % 65536, 3, x)
Corner == {a + 16 * b + 256 * c + 4096 * d : a, b, c \in {0, 1, 7, 8, 15}, d \in {0, 3, 7}}
(* 2^72 less this is 107 * 317 * 733 * 4211 * 31039 * 1453181.             *)
MCC21 == <<21, 14, 21, -30, 4, -21>>
(* Limbs at their ends, in patterns, and mixed ones.                       *)
Mixed(seed, len, w) == [k \in 1..len |-> ((seed * k * 977 + seed * seed * 331 + k * k * 7919) \div 8) % 2^w]
Twelve == {<<a, b, c, a, b, c, a, b, c, a, b, t>> : a, b, c \in {0, 31, 63}, t \in {0, 64, 1023}}
          \cup {Mixed(k, 12, 6) : k \in 1..30}
Ten == {<<a, b, c, d, a, b, c, d, a, t>> : a, c \in {-32, 0, 32}, b, d \in {-16, 1, 16}, t \in {-16, 0, 17}}
       \cup {Mixed(k, 10, 5) : k \in 1..20}
Prime10 == {<<61 + a, 31, 63, 31, 63, 31, 63, 31, 63, 31 + b>> : a \in {-1, 0, 1, 2}, b \in {0, -1}} \cup {<<0, 0, 0, 0, 0, 0, 0, 0, 0, 0>>}
Five == {<<a, b, b, c, d>> : a, b, c, d \in {0, 1, 2044, 2045, 2047}} \cup {<<a, 2047, 2047, 2047, 2047>> : a \in 2044..4095}
        \cup {Mixed(k, 5, 12) : k \in 1..30}
MCPoints == [op : {"point"}, s : AllEncodings]
MCInputs ==
    MCPoints
    \cup [op : {"chain"}, q : {4194301, 4194287, 4194277, 4194271, 4194247, 4194217, 4194199, 4194191, 4194187, 4194181, 4194173, 4194167}]
    \cup [op : {"limbs21"}, a : Twelve, b : {<<0, 0, 0, 0, 0, 0, 0, 0, 0, 0, 0, 0>>, <<63, 63, 63, 63, 63, 63, 63, 63, 63, 63, 63, 1023>>} \cup {Mixed(k, 12, 6) : k \in 31..36},
           c : {Mixed(40, 12, 6)}]
    \cup [op : {"limbs25"}, f : Ten, g : Prime10 \cup {Mixed(50, 10, 5)}, n : {15}]
    \cup [op : {"limbs51"}, f : Five, g : {Mixed(60, 5, 12), <<4095, 4095, 4095, 4095, 4095>>}, n : {15}]
    \cup [op : {"digits"}, a : 0..(2^(Bits-1)-1)]
    \cup [op : {"mult"}, a : Corner, k : {0, 1, 8, 13, 103}]
    \cup [op : {"double"}, a : {0, 1, 2, 15, 16, 31, 255, 2047, 8191, 5461}, b : {0, 1, 12, 31, 4095, 8191, 2730}, k : {1, 8, 26, 52}]
    \cup [op : {"dh"}, a : {0, 5, 8, 1000, 65535}, b : {3, 16, 4096}, u : AllEncodings]
    \cup [op : {"edwards"}, s : AllEncodings, t : {0, 1, 12, 27, 30, 39, 98, 111, 127, 145, 186, 249}]
    \cup [op : {"times"}, a : {0, 1, 8, 13, 1000, 32768, 65535}, s : AllEncodings, clamp : BOOLEAN, inPlace : BOOLEAN]
    \cup [op : {"scalars"}, a : (0..30) \cup {65535, 8192, 8205, 32767, 40000}, b : (0..13) \cup {65535, 25000}]
    \cup [op : {"sign"}, a : {0, 8, 16, 1000, 65535}, prefix : 0..5, m : {1, 2}, ph : BOOLEAN, tries : {(0..40) \cup {8192, 65535}}]
(* What a call returns.  TLC profiles an operator at each place where it   *)
(* is named, but not beyond a constant: the body is a LET for that reason.  *)
MCAnswer(c) == LET result == Result(c) IN result
=============================================================================
