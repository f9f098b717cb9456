-------------------------------- MODULE Calls --------------------------------
(***************************************************************************)
(* A call of a function that keeps nothing: it is chosen at the start, and *)
(* its result is what the code returns and leaves behind.  And the calls   *)
(* of the functions of Numbers and of the hexadecimal conversions of       *)
(* Codecs, with what they promise.                                         *)
(***************************************************************************)
EXTENDS Codecs

CONSTANTS
    Inputs,     \* the calls: records with a field op
    Answer(_)   \* what a call returns: Result of Algorithms, see MCAlgorithms

VARIABLES call, out
vars == <<call, out>>

Nothing == [none |-> 1]
Init == call \in Inputs /\ out = Nothing
Compute == out = Nothing /\ out' = Answer(call) /\ UNCHANGED call
Return == out # Nothing /\ out' = Nothing /\ UNCHANGED call
Next == Compute \/ Return
Spec == Init /\ [][Next]_vars
Done(op) == call.op = op /\ out # Nothing

-----------------------------------------------------------------------------
(* Padding of a buffer, and of what a buffer may hold.                     *)
PaddingOf(c) ==
    LET padded == sodium_pad(c.buf, c.len, c.blocksize, c.max)
    IN [padded |-> padded, back |-> IF padded.ret = 0 THEN sodium_unpad(padded.buf, padded.len, c.blocksize) ELSE padded,
        unpadded |-> sodium_unpad(c.buf, c.padded, c.blocksize)]
NumbersOf(c) ==
    [sum |-> sodium_add(c.asm, c.a, c.b), difference |-> sodium_sub(c.asm, c.a, c.b), next |-> sodium_increment(c.asm, c.a),
     back |-> sodium_sub(c.asm, sodium_add(c.asm, c.a, c.b), c.b),
     order |-> sodium_compare(c.a, c.b), differ |-> sodium_memcmp(c.a, c.b), zero |-> sodium_is_zero(c.a)]
UniformOf(c) ==
    [first |-> [r \in 0..255 |-> randombytes_uniform(c.bound, <<r>>)],
     second |-> [r \in 0..255 |-> randombytes_uniform(c.bound, <<0, r>>)]]

HexOf(c) ==
    LET hex == sodium_bin2hex(2 * Len(c.bin) + c.room, c.bin)
        read(hasEnd) == sodium_hex2bin(c.maxlen, c.text, c.ignore, hasEnd)
    IN [hex |-> hex, back |-> sodium_hex2bin(Len(c.bin), SubSeq(hex, 1, Len(hex) - 1), {}, FALSE),
        read |-> read(TRUE), whole |-> read(FALSE)]

(* The texts are read with the pointer to the end, and without.            *)
Base64Of(c) ==
    LET b64 == sodium_bin2base64(EncodedLen(Len(c.bin), c.variant) + c.room, c.bin, c.variant)
        read(b, hasEnd) == sodium_base642bin(c.maxlen, b, c.ignore, hasEnd, c.variant, FALSE)
        len == sodium_base64_encoded_len(Len(c.bin), c.variant) - 1
        back == sodium_base642bin(Len(c.bin), SubSeq(b64, 1, IF c.room = 0 THEN 0 ELSE len), {}, FALSE, c.variant, FALSE)
        again == read(c.text, TRUE)
    IN [b64 |-> b64, back |-> back, read |-> again, whole |-> read(c.text, FALSE),
        prefix |-> read(SubSeq(c.text, 1, again.end), FALSE),
        code |-> sodium_bin2base64(EncodedLen(again.len, c.variant) + 1, again.bin, c.variant)]
CharsOf(c) ==
    LET given(b) == CharOf(b, c.signed)
    IN [byte |-> [b \in c.bytes |-> b64_char_to_byte(given(b), c.variant)],
        char |-> [x \in 0..63 |-> b64_byte_to_char(x, c.variant)],
        same |-> [b \in c.bytes |-> {y \in {43, 45, 47, 65, 95} : EQ(given(b), y) # 0}]]

(* RFC 4648, as a number of 6 bits each.                                   *)
Alphabet(variant) == [k \in 0..63 |-> IF k < 26 THEN 65 + k ELSE IF k < 52 THEN 71 + k ELSE IF k < 62 THEN k - 4 ELSE Last2(variant)[k - 61]]
Letters(variant) == {Alphabet(variant)[k] : k \in 0..63}

(* No buffer has more bytes: of a size_t of 64 bits this is 2^56, as far   *)
(* as the mask of sodium_pad goes.                                         *)
MemoryMax == 256
Bytes(len) == [1..len -> 0..255]
(* What callers pass: numbers of one length, lengths of buffers that are   *)
(* as long, and nothing to ignore that base64 is written in.               *)
ASSUME InputsAreBytes ==
    \A c \in Inputs :
        /\ c.op = "numbers" => c.asm \in BOOLEAN /\ Len(c.a) \in Nat /\ {c.a, c.b} \subseteq Bytes(Len(c.a))
        /\ c.op = "padding" => /\ Len(c.buf) \in 0..MemoryMax /\ c.buf \in Bytes(Len(c.buf))
                               /\ c.len \in 0..Uint-1 /\ c.blocksize \in 0..Uint-1
                               /\ c.max \in 0..Len(c.buf) /\ c.padded \in 0..Len(c.buf)
        /\ c.op = "uniform" => c.bound \in 0..255
        /\ c.op = "hex" => /\ Len(c.bin) \in Nat /\ c.bin \in Bytes(Len(c.bin)) /\ c.room \in Nat
                           /\ Len(c.text) \in Nat /\ c.text \in Bytes(Len(c.text)) /\ c.maxlen \in Nat
        /\ c.op = "base64" => /\ Len(c.bin) \in Nat /\ c.bin \in Bytes(Len(c.bin)) /\ c.room \in Nat
                              /\ Len(c.text) \in Nat /\ c.text \in Bytes(Len(c.text)) /\ c.maxlen \in Nat
                              /\ c.variant \in {1, 3, 5, 7} /\ c.ignore \cap (Letters(c.variant) \cup {61}) = {}
        /\ c.op = "chars" => c.bytes \subseteq 0..255 /\ c.signed \in BOOLEAN /\ c.variant \in {1, 3, 5, 7}
ASSUME AnswersAreResults ==
    \A c \in Inputs :
        /\ c.op = "numbers" => Answer(c) = NumbersOf(c)
        /\ c.op = "padding" => Answer(c) = PaddingOf(c)
        /\ c.op = "uniform" => Answer(c) = UniformOf(c)
        /\ c.op = "hex" => Answer(c) = HexOf(c)
        /\ c.op = "base64" => Answer(c) = Base64Of(c)
        /\ c.op = "chars" => Answer(c) = CharsOf(c)

-----------------------------------------------------------------------------
(* sodium_pad adds 1 to blocksize bytes, 0x80 and zeros, to a multiple of  *)
(* the block, changes nothing before or after them and does nothing        *)
(* without room for them; sodium_unpad finds the length again.  In any     *)
(* buffer it finds the last 0x80 that only zeros follow, if it is in the   *)
(* last block, and fails otherwise.                                        *)
Total(len, blocksize) == len - (len % blocksize) + blocksize
Marks(buf, padded) == {k \in 1..padded : buf[k] = 128 /\ \A j \in k+1..padded : buf[j] = 0}
PaddedTo(buf, len, total) ==
    [k \in 1..Len(buf) |-> IF k <= len \/ k > total THEN buf[k] ELSE IF k = len + 1 THEN 128 ELSE 0]
PaddingComesOff ==
    Done("padding") =>
        LET total == Total(call.len, call.blocksize)
            padded == out.padded
        IN IF call.blocksize = 0 THEN padded.ret = -1 /\ out.unpadded.ret = -1
           ELSE /\ padded.ret = IF total > Uint - 1 THEN Misused ELSE IF total > call.max THEN -1 ELSE 0
                /\ IF padded.ret # 0 THEN padded.buf = call.buf
                   ELSE /\ padded.len = total /\ out.back = [ret |-> 0, len |-> call.len]
                        /\ padded.buf = PaddedTo(call.buf, call.len, total)
                /\ IF call.padded >= call.blocksize /\ \E k \in Marks(call.buf, call.padded) : k > call.padded - call.blocksize
                   THEN \E k \in Marks(call.buf, call.padded) : out.unpadded = [ret |-> 0, len |-> k - 1]
                   ELSE out.unpadded.ret = -1
(* a + b + carry modulo 256^Len(a), by the carry into each place: there is *)
(* one if the highest place below that does not just pass a carry on has   *)
(* more than a byte.                                                       *)
CarryInto(a, b, carry, k) ==
    LET differ == {j \in 1..k-1 : a[j] + b[j] # 255}
    IN IF differ = {} THEN carry
       ELSE LET j == CHOOSE i \in differ : \A h \in differ : h <= i IN IF a[j] + b[j] > 255 THEN 1 ELSE 0
Added(a, b, carry) == [k \in 1..Len(a) |-> (a[k] + b[k] + CarryInto(a, b, carry, k)) % 256]
Low(a, b) == \E k \in 1..Len(a) : a[k] < b[k] /\ \A j \in k+1..Len(a) : a[j] = b[j]
(* The bytes are numbers modulo 256 to their length, the low byte first,   *)
(* whichever words the assembly takes them in: sums, differences and       *)
(* successors carry through, and the order is that of the numbers.         *)
NumbersAreNumbers ==
    Done("numbers") =>
        LET a == call.a b == call.b zero == Zeroed(call.a)
        IN /\ out.sum = Added(a, b, 0) /\ out.next = Added(a, zero, 1)
           /\ out.back = a /\ Added(out.difference, b, 0) = a
           /\ out.order = IF Low(a, b) THEN -1 ELSE IF Low(b, a) THEN 1 ELSE 0
           /\ out.differ = IF a = b THEN 0 ELSE -1
           /\ out.zero = IF a = zero THEN 1 ELSE 0
(* randombytes_uniform makes each number below the bound of as many words, *)
(* rejects fewer words than it keeps and goes on to the next one if it     *)
(* does, also for bounds that divide the number of words.                  *)
UniformIsUniform ==
    Done("uniform") =>
        LET words(v) == Cardinality({r \in 0..255 : out.first[r] = v})
            bound == IF call.bound < 2 THEN 1 ELSE call.bound
        IN /\ \A v \in 0..bound-1 : words(v) = words(0)
           /\ words(-1) < 128 /\ words(-1) + bound * words(0) = 256
           /\ \A r \in 0..255 : out.second[r] = IF out.first[0] # -1 THEN out.first[0] ELSE out.first[r]

-----------------------------------------------------------------------------
(* A beginning of n characters of a text is pairs of digits, between which *)
(* there may be characters to ignore.                                      *)
HexDigits == (48..57) \cup (65..70) \cup (97..102)
CountIn(text, n, set) == Cardinality({k \in 1..n : text[k] \in set})
PlaceOf(text, j, set) == CHOOSE k \in 1..Len(text) : text[k] \in set /\ CountIn(text, k, set) = j
DigitsIn(text, n) == CountIn(text, n, HexDigits)
Readable(text, n, ignore) ==
    /\ \A k \in 1..n : text[k] \in HexDigits \/ (text[k] \in ignore /\ DigitsIn(text, k) % 2 = 0)
    /\ DigitsIn(text, n) % 2 = 0
Worth(c) == IF c <= 57 THEN c - 48 ELSE IF c <= 70 THEN c - 55 ELSE c - 87
Digit(text, j) == PlaceOf(text, j, HexDigits)
RefHex(text, n) ==
    [j \in 1..(DigitsIn(text, n) \div 2) |-> 16 * Worth(text[Digit(text, 2 * j - 1)]) + Worth(text[Digit(text, 2 * j)])]
(* sodium_hex2bin reads the longest beginning of a text that is pairs of   *)
(* digits and fits; hex_end is where that ends.  It fails, with a length   *)
(* of 0, if a digit comes next: one without its pair, or without room.     *)
(* Without hex_end it fails, too, if anything comes next, but with the     *)
(* length of what it read.  What sodium_bin2hex writes is read back; it    *)
(* writes nothing without room for the terminator, or of what has no       *)
(* length in hexadecimal.                                                  *)
Fits(text, n, maxlen, ignore) == Readable(text, n, ignore) /\ DigitsIn(text, n) <= 2 * maxlen
HexEnd(text, maxlen, ignore) ==
    CHOOSE n \in 0..Len(text) : Fits(text, n, maxlen, ignore) /\ \A i \in n+1..Len(text) : ~Fits(text, i, maxlen, ignore)
HexReadsPairs ==
    Done("hex") =>
        LET text == call.text
            end == HexEnd(text, call.maxlen, call.ignore)
            good == end = Len(text) \/ text[end + 1] \notin HexDigits
        IN /\ out.read = Passed(IF good THEN 0 ELSE -1, IF good THEN RefHex(text, end) ELSE <<>>, end)
           /\ out.whole = [out.read EXCEPT !.ret = IF good /\ end = Len(text) THEN 0 ELSE -1]
           /\ IF call.room = 0 \/ Len(call.bin) >= Uint \div 2 THEN out.hex = <<Misused>>
              ELSE out.back = Passed(0, call.bin, 2 * Len(call.bin)) /\ Len(out.hex) = 2 * Len(call.bin) + 1

(* Buffers are padded to blocks and found again, numbers of many bytes are *)
(* added, subtracted and compared as numbers, numbers below a bound that   *)
(* are drawn from uniform words are uniform, and hexadecimal is read as    *)
(* far as it goes: what utils.c, randombytes.c and the first half of       *)
(* codecs.c compute without branches, byte by byte or word by word.        *)
NumbersAreRight == PaddingComesOff /\ NumbersAreNumbers /\ UniformIsUniform /\ HexReadsPairs

-----------------------------------------------------------------------------
(* Bits 6j to 6j + 5 of the bytes and of zeros after them.                 *)
SixBits(bin, j) ==
    LET byte(k) == IF k > Len(bin) THEN 0 ELSE bin[k]
        first == (6 * j) \div 8 + 1
    IN ((256 * byte(first) + byte(first + 1)) \div 2^(10 - ((6 * j) % 8))) % 64
RefBase64(bin, variant) == [j \in 1..((4 * Len(bin) + 2) \div 3) |-> Alphabet(variant)[SixBits(bin, j - 1)]]
Pads(len) == [k \in 1..((3 - (len % 3)) % 3) |-> 61]
Encoded(bin, variant) == RefBase64(bin, variant) \o IF Unpadded(variant) THEN <<>> ELSE Pads(Len(bin))
(* A beginning of n characters of a text, without those to ignore.         *)
KeptIn(text, n, ignore) == CountIn(text, n, (0..255) \ ignore)
KeptAt(text, j, ignore) == text[PlaceOf(text, j, (0..255) \ ignore)]
Kept(text, n, ignore) == [j \in 1..KeptIn(text, n, ignore) |-> KeptAt(text, j, ignore)]
(* A message and its encoding determine each other: sodium_bin2base64      *)
(* writes what the RFC has, and what sodium_base642bin reads to its end    *)
(* is, without the characters to ignore, that encoding of the bytes, bit   *)
(* for bit and with the padding of the variant: it fails for any other     *)
(* text, and for none that is so, wherever there are characters to ignore. *)
(* With the pointer to the end it reads a beginning of the text that it    *)
(* would read alone.                                                       *)
Base64IsOneToOne ==
    Done("base64") =>
        LET encoded(bin) == Encoded(bin, call.variant)
            kept(n) == Kept(call.text, n, call.ignore)
            read == out.read.ret = 0
            whole == read /\ out.read.end = Len(call.text)
        IN /\ IF call.room = 0 THEN out.b64 = <<Misused>>
              ELSE /\ out.b64 = encoded(call.bin) \o [k \in 1..call.room |-> 0]
                   /\ out.back = Passed(0, call.bin, Len(encoded(call.bin)))
           /\ read => /\ kept(out.read.end) = encoded(out.read.bin) /\ out.read.len <= call.maxlen
                      /\ out.code = encoded(out.read.bin) \o <<0>> /\ out.prefix = out.read
           /\ ~read => out.read.len = 0
           /\ out.whole = [out.read EXCEPT !.ret = IF whole THEN 0 ELSE -1]
           /\ (kept(Len(call.text)) = encoded(call.bin) /\ Len(call.bin) <= call.maxlen) => whole /\ out.read.bin = call.bin
(* The comments before the macros: they compare, and return 0xFF for true  *)
(* and 0 for false; so that a character has a value if it is of the        *)
(* alphabet, the place it has there, and else none, 0xFF.                  *)
ComparisonsAreRight ==
    Done("chars") =>
        /\ out.same = [b \in call.bytes |-> {y \in {43, 45, 47, 65, 95} : y = b}]
        /\ out.char = Alphabet(call.variant)
        /\ \A b \in call.bytes :
              IF b \in Letters(call.variant) THEN out.byte[b] \in 0..63 /\ Alphabet(call.variant)[out.byte[b]] = b ELSE out.byte[b] = 255

(* What is written in base64 comes back, nothing that is not so written is *)
(* read, and comparisons without branches are what they are named for.     *)
CodecsAreRight == Base64IsOneToOne /\ ComparisonsAreRight
=============================================================================
