----------------------------- MODULE MCAlgorithms -----------------------------
EXTENDS Algorithms, SequencesExt
MCMid == [k \in 0..255 |-> (k * 167 + (k \div 16) * 31 + 99) % 256]
MCFinal == [k \in 0..255 |-> (k * 59 + (k \div 8) * 13 + 41) % 256]
MCSub == [k \in 0..15 |-> (k * 7 + k \div 4 + 3) % 16]
MCGcm ==
    [op : {"gcm"}, par : {7}, arm : {FALSE}, key : {2}, npub : {5}, inPlace : {TRUE}, adlen : {5},
     mlen : {n \in 0..170 : n % 12 = 5} \cup {0, 48, 96, 156}]
    \cup [op : {"gcm"}, par : {6}, arm : {TRUE}, key : {3}, npub : {300}, inPlace : {FALSE}, adlen : {0, 61},
          mlen : {n \in 0..150 : n % 12 = 3} \cup {244, 245}]
MCAes == [op : {"aes"}, seed : 0..40]
MCAegis ==
    [op : {"aegis"}, v : {"128l", "256"}, key : {1}, adlen : 0..9, mlen : {0, 4, 7}, forge : {1, 4}]
    \cup [op : {"aegis"}, v : {"128l", "256"}, key : {4}, adlen : {2, 3}, mlen : 0..13, forge : {3}]
MCChaChaTurns == <<4, 3, 2, 1>>
MCSalsaTurns == <<2, 3, 5, 7>>
MCSigma == <<97, 110, 50, 116>>
MCStream ==
    [op : {"stream"}, cipher : {"chacha", "salsa"}, seed : {3}, ic : {0, 65531}, len : {n \in 0..240 : n % 48 \in {0, 5, 21}}]
    \cup [op : {"stream"}, cipher : {"ietf"}, seed : {4}, ic : {248, 250, 251, 255}, len : {0, 16, 17, 64, 70, 128}]
    \cup [op : {"stream"}, cipher : {"xchacha", "xsalsa"}, seed : {5}, ic : {0, 252}, len : {3, 100}]
MCBox ==
    [op : {"box"}, p : {"salsa", "chacha"}, seed : {2}, gap : {-27, -9, -5, -1, 0, 3, 4, 8, 25}, mlen : {0, 1, 8, 9, 27}]
    \cup [op : {"box"}, p : {"salsa", "chacha"}, seed : {4}, gap : {-2}, mlen : {30, 31}]
MCSeal ==
    [op : {"seal"}, p : {"salsa", "chacha"}, seed : {6}, esk : {11}, gap : {-20, -12, -3, 0, 2, 8, 20}, mlen : {0, 3, 10}]
MCAead ==
    [op : {"aead"}, v : {"chacha", "ietf", "xchacha"}, seed : {8}, inPlace : BOOLEAN, alter : {0, 5}, adlen : {0, 3}, mlen : {0, 1, 18}]
MCTexts == UNION {[1..len -> 0..2] : len \in 0..3} \cup {Zeros(len) : len \in 4..9}
MCAbsorbed == [op : {"absorbed"}, v : {"chacha", "ietf", "xchacha"}, texts : {MCTexts}]
(* Two hashes of two bytes each.                                           *)
MCHash(x, a) == FoldLeft(LAMBDA h, w : (h * a + w + 1) % 46337, a + Len(x), x)
MCPolyOf(key, x) ==
    LET h == MCHash(key \o x, 271) g == MCHash(key \o x, 8191) IN <<h % 256, h \div 256, g % 256, g \div 256>>
MCBlakeNonce(x) == SubSeq(MCPolyOf(<<1>>, x) \o MCPolyOf(<<2>>, x), 1, 6)
(* Powers of 3 modulo 257, as keys of eight words; 0 is of low order.      *)
MCPower(b, e) == Each(LAMBDA y, i : (y * y * (IF (e \div 2^i) % 2 = 1 THEN b ELSE 1)) % 257, 1, Upto(15, -1, 16))
MCPublic(sk) == [k \in 1..8 |-> IF k = 1 THEN MCPower(3, sk) ELSE 3 * k]
MCShared(sk, pk) == LET s == MCPower(pk[1], sk) IN [k \in 1..8 |-> (s * k) % 256]
MCHashedSeed(seed) == seed * 5 + 1
MCLowOrder == <<0, 0, 0, 0, 0, 0, 0, 0>>
MCClamp32 == <<15, 24, 48, 32, 1>>
MCClamp64 == <<255, 961, 60>>
MCLens == {<<a, b>> : a, b \in {0, 1, 3, 4, 5, 8, 9, 16, 23}} \cup {<<2, 1, 1, 3, 9>>, <<7, 1, 24, 5>>, <<24, 24, 3>>, <<31, 1, 16>>}
MCPoly ==
    [op : {"poly"}, impl : {"32", "64", "sse2"}, key : {"max", "mixed"}, fill : {"max", "mixed"}, seed : {3}, lens : MCLens]
    \cup [op : {"poly"}, impl : {"32", "64", "sse2"}, key : {"mixed"}, fill : {"edge"}, seed : 0..5, lens : {<<10, 2>>, <<12>>, <<3, 3>>, <<6>>}]
(* Digits, a letter after them, and what may be ignored.                   *)
MCStrings(chars, len) == UNION {[1..n -> chars] : n \in 0..len}
(* Texts of five characters, of which the first is a digit.               *)
MCLonger(first, chars) == {<<first>> \o rest : rest \in [1..4 -> chars]}
MCBytes == {<<>>, <<9>>, <<159, 250>>, <<0, 255, 170>>, <<251, 240, 241, 10>>}
MCHex ==
    [op : {"hex"}, bin : MCBytes, room : {0, 1}, text : {<<>>}, maxlen : {0}, ignore : {{}}]
    \cup [op : {"hex"}, bin : {<<>>}, room : {1}, text : MCStrings({48, 70, 58, 0}, 4) \cup MCLonger(48, {48, 58, 0}), maxlen : {2}, ignore : {{}, {0, 58}}]
    \cup [op : {"hex"}, bin : {<<>>}, room : {1}, text : MCStrings({57, 97, 103, 32, 64}, 3), maxlen : {1}, ignore : {{}, {0, 32}}]
MCBase64 ==
    [op : {"base64"}, bin : MCBytes, room : {0, 1, 3}, text : {<<>>}, maxlen : {0}, ignore : {{}}, variant : {1, 3, 5, 7}]
    \cup [op : {"base64"}, bin : {<<0>>}, room : {1}, text : MCStrings({65, 103, 10, 61}, 4) \cup MCLonger(65, {65, 10, 61}), maxlen : {2}, ignore : {{0, 10}}, variant : {1}]
    \cup [op : {"base64"}, bin : {<<0>>}, room : {1}, text : MCStrings({65, 103, 10, 61}, 3), maxlen : {1}, ignore : {{}, {0, 10}}, variant : {1, 3}]
    \cup [op : {"base64"}, bin : {<<251>>}, room : {1}, text : MCStrings({47, 119, 95, 61}, 3) \cup {<<47, 119, 61, 61>>, <<95, 119, 61, 61>>},
          maxlen : {2}, ignore : {{0}}, variant : {1, 5, 7}]
    \cup [op : {"base64"}, bin : {<<4, 16, 255>>}, room : {1}, text : MCStrings({47, 119, 61}, 2) \cup {<<66, 66, 68, 47>>, <<66, 66, 68, 95>>},
          maxlen : {2, 3}, ignore : {{0}}, variant : {1, 5, 7}]
MCChars ==
    [op : {"chars"}, bytes : {0..255}, signed : {FALSE}, variant : {1, 3, 5, 7}]
    \cup [op : {"chars"}, bytes : {0..127}, signed : {TRUE}, variant : {1, 3, 5, 7}]
(* Where a char is signed, the bytes that no alphabet has.                 *)
MCSignedChars ==
    [op : {"chars"}, bytes : {{b} : b \in 0..255}, signed : {TRUE}, variant : {1}]
MCPadding ==
    [op : {"padding"}, buf : {<<b>> \o [k \in 1..9 |-> 128] \o <<7>> : b \in {0, 9}}, len : 0..9, blocksize : (0..9) \ {5, 6}, max : {4, 8, 9, 10}, padded : {0}]
    \cup [op : {"padding"}, buf : {<<128, 0, 1, 128>>}, len : {65530, 65533}, blocksize : {0, 1, 2, 3, 4}, max : {4}, padded : {0}]
    \cup [op : {"padding"}, buf : [1..4 -> {0, 1, 128}], len : {65530}, blocksize : {0, 1, 2, 3, 4}, max : {4}, padded : {1, 2, 4}]
MCNumber(len) == {[k \in 1..len |-> IF k \in s THEN 255 ELSE 0] : s \in SUBSET (1..(IF len > 4 THEN 4 ELSE len))}
MCNumbers ==
    UNION {[op : {"numbers"}, asm : BOOLEAN, a : MCNumber(len), b : MCNumber(len) \cup {[k \in 1..len |-> (k * 97) % 256], [k \in 1..len |-> IF k = 1 THEN 1 ELSE 0]}] :
           len \in {1, 2, 3, 6}}
    \cup [op : {"numbers"}, asm : BOOLEAN, a : MCNumber(16), b : MCNumber(16) \cup {[k \in 1..16 |-> (k * 97) % 256]}]
MCUniform == [op : {"uniform"}, bound : 0..255]
MCCodecs == MCUniform \cup MCChars \cup MCNumbers \cup MCPadding \cup MCHex \cup MCBase64
(* The hash of n bytes, and a permutation of a block.                      *)
MCBlake(n, x) == Listed(LAMBDA k : MCHash(x \o <<k, n>>, 271 + k) % 256, n)
MCBlockMixed(b) ==
    Listed(LAMBDA k : (b[k] * 5 + b[(k % 8) + 1] * 3 + (b[((k + 2) % 8) + 1] \div 16) * 41 + 7001 * k + 12345) % 65536, 8)
MCArgon2Limits ==
    [outlen |-> <<2, 200>>, pwd |-> <<0, 200>>, salt |-> <<1, 200>>, lanes |-> <<1, 31>>, memory |-> <<8, 250>>, time |-> <<1, 255>>]
MCPwLimits ==
    <<[ops |-> <<3, 255>>, mem |-> <<32, 1000>>, passwd |-> <<0, 200>>], [ops |-> <<1, 255>>, mem |-> <<32, 1000>>, passwd |-> <<0, 200>>]>>
MCBlamka == [op : {"blamka"}, impl : {"ref", "ssse3", "avx2", "avx512f"}, seed : 1..4]
MCAlpha ==
    {c \in [op : {"alpha"}, segment_length : {2, 3, 5}, pass : {0, 1}, slice : 0..3, index : 0..4, same : BOOLEAN] :
        c.index < c.segment_length /\ (c.pass = 0 /\ c.slice = 0 => c.index >= 2 /\ c.same)}
MCArgon ==
    [op : {"argon"}, type : {1, 2}, lanes : {1}, m : {8, 13}, t : {1, 3}, seed : {4}, outlen : {9}]
    \cup [op : {"argon"}, type : {1, 2}, lanes : {1}, m : {36}, t : {2}, seed : {4}, outlen : {4}]
    \cup [op : {"argon"}, type : {1, 2}, lanes : {2, 3}, m : {24, 40}, t : {2}, seed : {2}, outlen : {6}]
MCLong == [op : {"long"}, len : 1..24, seed : {1, 5}]
MCPrehash == [op : {"prehash"}, texts : {UNION {[1..n -> 0..1] : n \in 0..3}}, optional : {{<<>>, <<0>>, <<1>>}}]
MCStored ==
    [op : {"stored"}, type : {1}, ops : {2, 3}, mem : {31, 32, 52}, passwd : {<<1, 2>>}, salt : {<<5, 6>>}, fails : {0, 5}, later : {0}, ulong_max : {255}]
    \cup [op : {"stored"}, type : {2}, ops : {1}, mem : {32, 38}, passwd : {<<0>>}, salt : {<<9, 250>>}, fails : {0}, later : 0..9, ulong_max : {2999}]
    \cup [op : {"stored"}, type : {2}, ops : {1}, mem : {32}, passwd : {<<0>>}, salt : {<<9, 250>>}, fails : 1..4, later : {0}, ulong_max : {2999}]
    \cup [op : {"stored"}, type : {2}, ops : {256}, mem : {32}, passwd : {<<0>>}, salt : {<<9, 250>>}, fails : {0}, later : {0}, ulong_max : {2999}]
(* A string, one of its parts replaced.                                    *)
MCPieces == <<<<1000, 100>>, <<1001>>, <<49, 57>>, <<1002>>, <<57>>, <<1003>>, <<51>>, <<1004>>, <<49>>, <<36>>, <<81, 65>>, <<36>>, <<81, 65, 69>>>>
MCReplaced(k, by) == FoldLeft(LAMBDA s, piece : s \o piece, <<>>, [MCPieces EXCEPT ![k] = by])
MCBinaries == {<<>>, <<81>>, <<81, 65>>, <<81, 66>>, <<81, 65, 69>>, <<81, 65, 70>>, <<81, 65, 69, 66>>, <<81, 65, 61>>, <<81, 65, 32>>, <<0>>}
MCPwString ==
    [op : {"pwstring"}, type : {2}, ulong_max : {255, 2999},
     str : {MCReplaced(k, by) : k \in {3, 5, 7, 9}, by \in MCStrings({48, 49, 50, 53, 58}, 3) \cup {<<56>>, <<49, 53, 48, 48>>, <<51, 48, 48, 48>>, <<50, 57, 57, 57, 57>>}}]
    \cup [op : {"pwstring"}, type : {1, 2}, ulong_max : {2999},
           str : {MCReplaced(k, by) : k \in {11, 13}, by \in MCBinaries} \cup {MCReplaced(1, by) : by \in {<<1000>>, <<100>>, <<>>}}
                 \cup {MCReplaced(k, <<>>) : k \in 1..13} \cup {MCReplaced(13, <<81, 65, 69, 36>>), MCReplaced(9, <<50>>)}]
MCPrfOf(key, text) ==
    LET h == MCHash(key \o text, 271) g == MCHash(text \o key, 577) IN Listed(LAMBDA k : (h * k + g * (9 - k) + h \div 200) % 256, 8)
MCScrypt ==
    [op : {"scrypt"}, seed : {7}, n : {2, 4}, r : {1, 2}, p : {1}, buflen : {19}]
    \cup [op : {"scrypt"}, seed : {3}, n : {8}, r : {2}, p : {1}, buflen : {2}]
    \cup [op : {"scrypt"}, seed : {3}, n : {2}, r : {3}, p : {2}, buflen : {8}]
MCCosts ==
    [op : {"costs"}, n : {0, 1, 2, 3, 4, 8, 12, 16, 64, 128, 256}, r : {0..33 \cup {63, 64, 1073741823}}, p : {0..33 \cup {63, 64, 1073741823}}, buflen : {2, 2040, 2041}]
MCPicked == [op : {"picked"}, ops : {0, 31, 32, 33, 50, 64, 90, 300, 1000, 6000}, mem : {0..1200}]
MCScryptStr ==
    [op : {"scryptchanged"}, passwd : {<<7, 9>>}, salt : {<<1, 200, 30, 4>>}, ops : {32}, mem : {256}, at : {1, 4, 9, 15, 28}, char : {0}]
    \cup [op : {"scryptstr"}, passwd : {<<>>}, salt : {<<0, 0, 0, 9>>}, ops : {32}, mem : {128}, fails : {"", "alloc", "free"}]
    \cup [op : {"scryptstr"}, passwd : {<<5>>}, salt : {<<1, 2, 3, 255>>}, ops : {32}, mem : {256, 520}, fails : {""}]
MCDigest(h, x) == MCBlake(IF h = "sha256" THEN 2 ELSE 4, x)
MCKeyed ==
    [op : {"hmac"}, h : {"sha256", "sha512"}, seed : {1}, keylen : 0..11, len : {0, 3, 4, 9}]
    \cup [op : {"hkdf"}, h : {"sha256", "sha512"}, seed : {3}, saltlen : {0, 9}, ctxlen : {2}, outlen : 0..14]
    \cup [op : {"subkeys"}, len : 0..7, ids : {0..15}, ctxs : {{<<0, 0>>, <<0, 1>>, <<1, 0>>}}, keys : {{<<1>>, <<2>>}}]
    \cup [op : {"kx"}, csk : 2..5, ssk : 2..6]
    \cup [op : {"verify"}, n : {16, 32, 64}, seed : {4}, at : {{<<a, b>> : a \in {1, 7, 16}, b \in {2, 13, 16}}}, bits : {{<<0, 0>>, <<1, 0>>, <<0, 128>>, <<64, 64>>}}]
    \cup [op : {"verify"}, n : {32, 64}, seed : {5}, at : {{<<a, a + 16>> : a \in 1..16}}, bits : {{<<1, 1>>, <<255, 1>>, <<0, 2>>}}]
    \cup [op : {"sip"}, seed : 1..4, len : 0..24]
MCPasswords ==
    MCAlpha \cup MCLong \cup MCPrehash \cup MCCosts \cup MCPicked \cup MCBlamka \cup MCStored \cup MCScryptStr \cup MCPwString \cup MCArgon \cup MCScrypt
MCCiphers == MCAbsorbed \cup MCAead \cup MCBox \cup MCSeal \cup MCPoly \cup MCStream \cup MCAes \cup MCGcm \cup MCAegis
MCInputs == MCCodecs \cup MCCiphers \cup MCKeyed \cup MCPasswords
(* What a call returns.  TLC profiles an operator at each place where it   *)
(* is named, but not beyond a constant: the body is a LET for that reason.  *)
MCAnswer(c) == LET result == Result(c) IN result
=============================================================================
