------------------------- MODULE GuardedHeap_proofs -------------------------
(***************************************************************************)
(* Theorems about GuardedHeap for any sizes of pages, canaries, words and   *)
(* memory, any number of blocks and any failures of mprotect.  One          *)
(* inductive invariant, HeapInv, carries them: what sodium_free and the     *)
(* sodium_mprotect_* compute from a bare pointer is what sodium_malloc laid *)
(* out behind it.                                                           *)
(***************************************************************************)
EXTENDS GuardedHeap, TLAPS

-----------------------------------------------------------------------------
\* Arithmetic of pages.

LEMMA Constants ==
    /\ PageSize \in Nat \ {0} /\ CanarySize \in Nat \ {0} /\ CanarySize < PageSize
    /\ WordSize \in Nat \ {0} /\ LastPage \in Nat \ {0} /\ LastPage * PageSize \in Nat
    /\ Words \subseteq Nat
  BY HeapAssumption DEF Words

LEMMA PageBounds ==
    ASSUME NEW a \in Int
    PROVE  /\ PageOf(a) \in Int
           /\ PageOf(a) * PageSize <= a
           /\ a < PageOf(a) * PageSize + PageSize
  BY HeapAssumption DEF PageOf

LEMMA Remainder ==
    ASSUME NEW a \in Int
    PROVE  /\ a % PageSize \in 0..PageSize - 1
           /\ a = PageOf(a) * PageSize + (a % PageSize)
  BY HeapAssumption DEF PageOf

LEMMA PageIsUnique ==
    ASSUME NEW a \in Int, NEW p \in Int, p * PageSize <= a, a < p * PageSize + PageSize
    PROVE  PageOf(a) = p
  BY HeapAssumption DEF PageOf

LEMMA PagesAreMonotone ==
    ASSUME NEW p \in Int, NEW q \in Int, p <= q
    PROVE  p * PageSize <= q * PageSize
<1>1. PageSize \in Nat
  BY HeapAssumption
<1>2. (q - p) * PageSize >= 0
  BY <1>1
<1>3. (q - p) * PageSize = q * PageSize - p * PageSize
  BY <1>1
<1> QED
  BY <1>1, <1>2, <1>3

LEMMA PagesAdd ==
    ASSUME NEW p \in Int, NEW q \in Int
    PROVE  (p + q) * PageSize = p * PageSize + q * PageSize
  BY HeapAssumption

\* A sum below SIZE_MAX less a page is rounded to the next whole number of pages.
LEMMA RoundingUp ==
    ASSUME NEW s \in Nat, s + PageSize - 1 < WordSize
    PROVE  /\ PageRound(s) \div PageSize \in Nat
           /\ PageRound(s) = (PageRound(s) \div PageSize) * PageSize
           /\ s <= PageRound(s) /\ PageRound(s) < s + PageSize
<1> DEFINE up == s + PageSize - 1
<1>1. PageSize \in Nat \ {0} /\ WordSize \in Nat
  BY HeapAssumption
<1>2. up \in Nat /\ up % WordSize = up
  BY <1>1
<1>3. PageRound(s) = up - (up % PageSize)
  BY <1>2 DEF PageRound
<1> HIDE DEF up
<1>4. PageOf(up) \in Int /\ PageRound(s) = PageOf(up) * PageSize
  <2>1. up \in Int
    BY <1>2
  <2>2. up % PageSize \in 0..PageSize - 1 /\ up = PageOf(up) * PageSize + (up % PageSize)
    BY <2>1, Remainder
  <2>3. PageOf(up) \in Int
    BY <2>1, PageBounds
  <2> QED
    BY <1>1, <1>3, <2>1, <2>2, <2>3
<1>5. PageOf(up) * PageSize <= up /\ up < PageOf(up) * PageSize + PageSize
  BY <1>2, PageBounds
<1>6. PageOf(PageOf(up) * PageSize) = PageOf(up)
  BY <1>1, <1>4, PageIsUnique
<1>7. PageOf(up) \in Nat
  BY <1>1, <1>2 DEF PageOf
<1>8. PageRound(s) \div PageSize = PageOf(up)
  BY <1>4, <1>6 DEF PageOf
<1> QED
  BY <1>1, <1>4, <1>5, <1>7, <1>8 DEF up

\* Multiples of a page leave no room between SIZE_MAX + 1 and the page after it.
LEMMA NoPageBetween ==
    ASSUME NEW m \in Nat, m * PageSize < WordSize + PageSize
    PROVE  m * PageSize <= WordSize
<1>1. WordSize = (WordSize \div PageSize) * PageSize /\ WordSize \div PageSize \in Nat
  BY HeapAssumption
<1>2. CASE m <= WordSize \div PageSize
  BY <1>1, <1>2, PagesAreMonotone
<1>3. CASE m >= WordSize \div PageSize + 1
  <2>1. (WordSize \div PageSize + 1) * PageSize <= m * PageSize
    BY <1>1, <1>3, PagesAreMonotone
  <2>2. (WordSize \div PageSize + 1) * PageSize = WordSize + PageSize
    BY <1>1, PagesAdd, HeapAssumption
  <2> QED
    BY <2>1, <2>2, HeapAssumption
<1> QED
  BY <1>1, <1>2, <1>3

\* What sodium_malloc computes, for a size that it accepts and a mapping the kernel made:
\* no sum has wrapped, but for one that is 0 and is not mapped.
LEMMA SumsFit ==
    ASSUME NEW size \in Words, size < WordSize - 1 - 4 * PageSize,
           NEW base \in MmapAt(Total(size)),
           NEW n, n = Unprotected(size) \div PageSize
    PROVE  /\ n \in Nat \ {0}
           /\ Unprotected(size) = n * PageSize /\ Unprotected(size) \in Words
           /\ (CanarySize + size) % WordSize = CanarySize + size
           /\ n * PageSize < CanarySize + size + PageSize
           /\ CanarySize + size <= n * PageSize
           /\ base \in Pages /\ base + 2 + n \in Pages
           /\ \A q \in base..base + 2 + n : prot[q] = "unmapped"
<1>1. /\ size \in Nat /\ CanarySize \in Nat /\ PageSize \in Nat /\ WordSize \in Nat
      /\ CanarySize >= 1 /\ CanarySize < PageSize
  BY HeapAssumption DEF Words
<1>2. (CanarySize + size) % WordSize = CanarySize + size
  BY <1>1
<1>3. /\ n \in Nat /\ Unprotected(size) = n * PageSize
      /\ CanarySize + size <= n * PageSize
      /\ n * PageSize < CanarySize + size + PageSize
  BY <1>1, <1>2, RoundingUp DEF Unprotected
<1>4. n # 0
  BY <1>1, <1>3
<1>5. 3 * PageSize + Unprotected(size) = (n + 3) * PageSize
  BY <1>1, <1>3, PagesAdd
<1>6. (n + 3) * PageSize \in Nat /\ (n + 3) * PageSize < WordSize + PageSize
  BY <1>1, <1>3, <1>5
<1>7. Total(size) = (n + 3) * PageSize
  <2>1. CASE (n + 3) * PageSize < WordSize
    BY <1>1, <1>5, <1>6, <2>1 DEF Total
  <2>2. CASE (n + 3) * PageSize >= WordSize
    <3>1. (n + 3) * PageSize = WordSize
      <4>1. n + 3 \in Nat
        BY <1>3
      <4>2. (n + 3) * PageSize <= WordSize
        BY <1>6, <4>1, NoPageBetween
      <4> QED
        BY <1>1, <1>6, <2>2, <4>2
    <3>2. Total(size) = 0
      BY <1>1, <1>5, <3>1 DEF Total
    <3> QED
      BY <3>2 DEF MmapAt
  <2> QED
    BY <1>1, <1>6, <2>1, <2>2
<1>8. Total(size) \div PageSize = n + 3
  <2>1. PageOf((n + 3) * PageSize) = n + 3
    BY <1>3, <1>6, PageIsUnique, HeapAssumption
  <2> QED
    BY <1>7, <2>1 DEF PageOf
<1>9. /\ base \in Pages /\ base + 2 + n \in Pages
      /\ \A q \in base..base + 2 + n : prot[q] = "unmapped"
  <2>1. base \in Int /\ base + (n + 3) - 1 = base + 2 + n
    BY <1>3 DEF MmapAt, Pages
  <2> QED
    BY <1>8, <2>1 DEF MmapAt
<1>10. n * PageSize < WordSize
  <2>1. Total(size) < WordSize
    BY <1>1, <1>5, <1>6, HeapAssumption DEF Total
  <2> QED
    BY <1>1, <1>3, <1>5, <1>7, <2>1
<1> QED
  BY <1>1, <1>2, <1>3, <1>4, <1>9, <1>10 DEF Words

-----------------------------------------------------------------------------
\* The inductive invariant.

\* The writable pages that the header tells of, and the guard page behind them.
Length(b) == header[Base(b.ptr)] \div PageSize
Behind(b) == Base(b.ptr) + 2 + Length(b)

\* A block ends where the guard page behind it begins, wherever the pages are found to
\* be from its pointer.
Placed(b) ==
    /\ Base(b.ptr) \in Pages
    /\ Length(b) \in Nat \ {0}
    /\ Behind(b) \in Pages
    /\ b.ptr + b.size = Behind(b) * PageSize

\* Its pages are mapped, those in use have one protection, and the guard page none.
Guarded(b) ==
    /\ \A p \in AllPages(b.ptr) : prot[p] # "unmapped"
    /\ \E mode \in Modes : \A p \in UnprotectedPages(b.ptr) : prot[p] = mode
    /\ b.guarded => prot[Behind(b)] = "none"

\* No two blocks share a page.
Apart == \A b, c \in blocks : b # c => AllPages(b.ptr) \cap AllPages(c.ptr) = {}

\* A page that is mapped is one of a block.
Owned == \A p \in Pages : prot[p] # "unmapped" => \E b \in blocks : p \in AllPages(b.ptr)

\* The canary of a block is gone if and only if the application wrote in front of it.
Marked ==
    /\ damaged \subseteq blocks
    /\ \A b \in blocks : b \in damaged <=> ~Intact(b)
    /\ status = "out of bounds" => damaged # {}

HeapInv ==
    /\ TypeOK
    /\ \A b \in blocks : Placed(b) /\ Guarded(b)
    /\ Apart
    /\ Owned
    /\ Marked


-----------------------------------------------------------------------------
\* What the invariant says about where things are.

LEMMA Layout ==
    ASSUME TypeOK, NEW b \in blocks, Placed(b)
    PROVE  /\ b.ptr \in Nat /\ b.size \in Nat
           /\ Base(b.ptr) \in Int /\ Behind(b) \in Int
           /\ UnprotectedPage(b.ptr) = Base(b.ptr) + 2
           /\ AllPages(b.ptr) = Base(b.ptr)..Behind(b)
           /\ UnprotectedPages(b.ptr) = Base(b.ptr) + 2..Behind(b) - 1
           /\ AllPages(b.ptr) \subseteq Pages
           /\ (Base(b.ptr) + 2) * PageSize <= b.ptr - CanarySize
           /\ b.ptr - CanarySize < (Base(b.ptr) + 2) * PageSize + PageSize
<1>1. b.ptr \in Nat /\ b.size \in Nat /\ CanarySize \in Nat
  <2>1. b \in [ptr : Words, size : Words, guarded : BOOLEAN]
    BY DEF TypeOK
  <2> QED
    BY <2>1, Constants
<1>2. UnprotectedPage(b.ptr) \in Int
  BY <1>1, PageBounds DEF UnprotectedPage
<1>3. UnprotectedPage(b.ptr) = Base(b.ptr) + 2 /\ Base(b.ptr) \in Int
  BY <1>2 DEF Base
<1>4. Base(b.ptr) \in Pages /\ Behind(b) \in Pages /\ Length(b) \in Nat
  BY DEF Placed
<1>5. AllPages(b.ptr) = Base(b.ptr)..Behind(b)
  BY DEF AllPages, Behind, Length
<1>6. UnprotectedPages(b.ptr) = Base(b.ptr) + 2..Behind(b) - 1
  BY <1>3, <1>4 DEF UnprotectedPages, Behind, Length
<1>7. AllPages(b.ptr) \subseteq Pages
  BY <1>4, <1>5, HeapAssumption DEF Pages
<1>8. /\ (Base(b.ptr) + 2) * PageSize <= b.ptr - CanarySize
      /\ b.ptr - CanarySize < (Base(b.ptr) + 2) * PageSize + PageSize
  <2>1. b.ptr - CanarySize \in Int
    BY <1>1
  <2> QED
    BY <1>3, <2>1, PageBounds DEF UnprotectedPage
<1> QED
  BY <1>1, <1>3, <1>4, <1>5, <1>6, <1>7, <1>8 DEF Pages

LEMMA PageBetween ==
    ASSUME NEW p \in Int, NEW q \in Int, NEW a \in Int,
           p * PageSize <= a, a < q * PageSize
    PROVE  PageOf(a) \in p..q - 1
<1>1. PageOf(a) \in Int /\ PageOf(a) * PageSize <= a /\ a < PageOf(a) * PageSize + PageSize
  BY PageBounds
<1>2. PageOf(a) >= p
  <2> SUFFICES ASSUME PageOf(a) + 1 <= p PROVE FALSE
    BY <1>1
  <2>1. (PageOf(a) + 1) * PageSize <= p * PageSize
    BY <1>1, PagesAreMonotone
  <2>2. (PageOf(a) + 1) * PageSize = PageOf(a) * PageSize + PageSize
    BY <1>1, PagesAdd, HeapAssumption
  <2> QED
    BY <1>1, <2>1, <2>2, HeapAssumption
<1>3. PageOf(a) <= q - 1
  <2> SUFFICES ASSUME q <= PageOf(a) PROVE FALSE
    BY <1>1
  <2>1. q * PageSize <= PageOf(a) * PageSize
    BY <1>1, PagesAreMonotone
  <2> QED
    BY <1>1, <2>1, HeapAssumption
<1> QED
  BY <1>1, <1>2, <1>3

\* The application reaches no further than the pages of its block.
LEMMA ReachIsOwn ==
    ASSUME TypeOK, NEW b \in blocks, Placed(b), NEW off \in Reach(b)
    PROVE  b.ptr + off \in Int /\ PageOf(b.ptr + off) \in AllPages(b.ptr)
<1>1. /\ PageSize \in Nat \ {0} /\ CanarySize \in Nat \ {0} /\ LastPage * PageSize \in Nat
      /\ CanarySize < PageSize
  BY Constants
<1>2. /\ b.ptr \in Nat /\ b.size \in Nat /\ Base(b.ptr) \in Int /\ Behind(b) \in Int
      /\ AllPages(b.ptr) = Base(b.ptr)..Behind(b)
      /\ (Base(b.ptr) + 2) * PageSize <= b.ptr - CanarySize
  BY Layout
<1>3. b.ptr + b.size = Behind(b) * PageSize
  BY DEF Placed
<1>4. off \in Int /\ off >= -PageSize /\ off <= b.size + PageSize - 1
  BY <1>1, <1>2 DEF Reach, Min2
<1>5. b.ptr + off \in Int
  BY <1>2, <1>4
<1>6. (Base(b.ptr) + 2) * PageSize = (Base(b.ptr) + 1) * PageSize + PageSize
  BY <1>1, <1>2, PagesAdd
<1>7. (Base(b.ptr) + 1) * PageSize <= b.ptr + off
  BY <1>1, <1>2, <1>4, <1>6
<1>8. (Behind(b) + 1) * PageSize = Behind(b) * PageSize + PageSize
  BY <1>1, <1>2, PagesAdd
<1>9. b.ptr + off < (Behind(b) + 1) * PageSize
  <2>1. b.ptr + off < b.ptr + b.size + PageSize
    BY <1>1, <1>2, <1>4
  <2> QED
    BY <1>3, <1>8, <2>1
<1>10. Base(b.ptr) + 1 \in Int /\ Behind(b) + 1 \in Int
  BY <1>2
<1>11. PageOf(b.ptr + off) \in Base(b.ptr) + 1..Behind(b)
  <2> DEFINE p == Base(b.ptr) + 1
             q == Behind(b) + 1
             a == b.ptr + off
  <2>1. p \in Int /\ q \in Int /\ a \in Int /\ p * PageSize <= a /\ a < q * PageSize
    BY <1>5, <1>7, <1>9, <1>10
  <2> HIDE DEF p, q, a
  <2>2. PageOf(a) \in p..q - 1
    BY <2>1, PageBetween
  <2> QED
    BY <1>2, <2>2 DEF p, q, a
<1> QED
  BY <1>2, <1>5, <1>11

\* The bytes of a canary are in the pages of its block.
LEMMA CanaryIsOwn ==
    ASSUME TypeOK, NEW b \in blocks, Placed(b), NEW a \in b.ptr - CanarySize..b.ptr - 1
    PROVE  PageOf(a) \in AllPages(b.ptr)
<1>1. CanarySize \in Nat /\ PageSize \in Nat
  BY HeapAssumption
<1>2. /\ b.ptr \in Nat /\ b.size \in Nat /\ Base(b.ptr) \in Int /\ Behind(b) \in Int
      /\ AllPages(b.ptr) = Base(b.ptr)..Behind(b)
      /\ (Base(b.ptr) + 2) * PageSize <= b.ptr - CanarySize
  BY Layout
<1>3. b.ptr + b.size = Behind(b) * PageSize
  BY DEF Placed
<1>4. a \in Int /\ (Base(b.ptr) + 2) * PageSize <= a /\ a < Behind(b) * PageSize
  BY <1>1, <1>2, <1>3
<1>5. Base(b.ptr) + 2 \in Int
  BY <1>2
<1>6. PageOf(a) \in Base(b.ptr) + 2..Behind(b) - 1
  BY <1>2, <1>4, <1>5, PageBetween
<1> QED
  BY <1>2, <1>6

\* The page in front of a block that Base finds is its own.
LEMMA BaseIsOwn ==
    ASSUME TypeOK, NEW b \in blocks, Placed(b)
    PROVE  Base(b.ptr) \in AllPages(b.ptr) /\ Behind(b) \in AllPages(b.ptr)
  BY Layout DEF Placed, Behind


-----------------------------------------------------------------------------
\* Each operation keeps the invariant.

\* A process that ends leaves memory as it is, and says that there was damage only if
\* there was.
LEMMA StepOfStatus ==
    ASSUME HeapInv, UNCHANGED <<prot, header, canaries, blocks, damaged>>,
           status' \in {"running", "fault", "out of bounds"},
           status' = "out of bounds" => damaged # {}
    PROVE  HeapInv'
<1>1. TypeOK'
  BY DEF HeapInv, TypeOK
<1>2. ASSUME NEW b \in blocks PROVE Placed(b)' /\ Guarded(b)'
  BY DEF HeapInv, Placed, Guarded, Length, Behind, AllPages, UnprotectedPages
<1>3. Apart'
  BY DEF HeapInv, Apart, AllPages
<1>4. Owned'
  BY DEF HeapInv, Owned, AllPages
<1>5. Marked'
  BY DEF HeapInv, Marked, Intact
<1> QED
  BY <1>1, <1>2, <1>3, <1>4, <1>5 DEF HeapInv

LEMMA StepOfProtect ==
    ASSUME HeapInv, NEW b \in blocks, NEW mode \in Modes, ProtectBlock(b, mode)
    PROVE  HeapInv'
<1>1. PICK succeeds \in Outcomes :
        prot' = [p \in Pages |->
                   IF succeeds /\ p \in UnprotectedPages(b.ptr) THEN mode ELSE prot[p]]
  BY DEF ProtectBlock, Mprotect
<1>2. UNCHANGED <<header, canaries, blocks, damaged, status>>
  BY DEF ProtectBlock
<1>3. TypeOK' /\ Marked'
  BY <1>1, <1>2 DEF HeapInv, TypeOK, Modes, Marked, Intact
<1>4. \A c \in blocks :
        /\ Placed(c)' /\ AllPages(c.ptr)' = AllPages(c.ptr)
        /\ UnprotectedPages(c.ptr)' = UnprotectedPages(c.ptr) /\ Behind(c)' = Behind(c)
  BY <1>2 DEF HeapInv, Placed, Length, Behind, AllPages, UnprotectedPages
<1>5. Apart'
  BY <1>2, <1>4 DEF HeapInv, Apart
<1>6. /\ AllPages(b.ptr) = Base(b.ptr)..Behind(b) /\ AllPages(b.ptr) \subseteq Pages
      /\ UnprotectedPages(b.ptr) = Base(b.ptr) + 2..Behind(b) - 1
      /\ Base(b.ptr) \in Int /\ Behind(b) \in Int
  BY Layout DEF HeapInv
<1>7. UnprotectedPages(b.ptr) \subseteq AllPages(b.ptr) /\ Behind(b) \notin UnprotectedPages(b.ptr)
  BY <1>6
<1>8. \A p \in Pages : prot'[p] # "unmapped" <=> prot[p] # "unmapped"
  BY <1>1, <1>7 DEF HeapInv, Guarded, Modes
<1>9. Owned'
  BY <1>2, <1>4, <1>8 DEF HeapInv, Owned
<1>10. ASSUME NEW c \in blocks PROVE Guarded(c)'
  <2>1. /\ Guarded(c) /\ AllPages(c.ptr) \subseteq Pages /\ Behind(c) \in AllPages(c.ptr)
        /\ UnprotectedPages(c.ptr) \subseteq AllPages(c.ptr)
    BY Layout, BaseIsOwn DEF HeapInv
  <2>2. \A p \in AllPages(c.ptr) : prot'[p] # "unmapped"
    BY <1>8, <2>1 DEF Guarded
  <2>3. CASE c = b
    <3>1. \E m \in Modes : \A p \in UnprotectedPages(b.ptr) : prot'[p] = m
      BY <1>1, <1>6, <1>7, <2>1, <2>3 DEF Guarded
    <3>2. prot'[Behind(b)] = prot[Behind(b)]
      BY <1>1, <1>7, <2>1, <2>3
    <3> QED
      BY <1>4, <2>1, <2>2, <2>3, <3>1, <3>2 DEF Guarded
  <2>4. CASE c # b
    <3>1. \A p \in AllPages(c.ptr) : prot'[p] = prot[p]
      BY <1>1, <1>7, <2>1, <2>4 DEF HeapInv, Apart
    <3> QED
      BY <1>4, <2>1, <3>1 DEF Guarded
  <2> QED
    BY <2>3, <2>4
<1> QED
  BY <1>2, <1>3, <1>4, <1>5, <1>9, <1>10 DEF HeapInv

LEMMA StepOfFree ==
    ASSUME HeapInv, NEW b \in blocks, FreeDone(b)
    PROVE  HeapInv'
<1> DEFINE own == AllPages(b.ptr)
<1>1. /\ prot' = [p \in Pages |-> IF p \in own THEN "unmapped" ELSE prot[p]]
      /\ header' = [p \in Pages |-> IF p \in own THEN 0 ELSE header[p]]
      /\ canaries' = {c \in canaries : PageOf(c) \notin own}
      /\ blocks' = blocks \ {b}
      /\ UNCHANGED <<damaged, status>>
  BY DEF FreeDone, Unmapped
<1>2. Intact(b)
  BY DEF FreeDone
<1>3. TypeOK'
  <2>1. 0 \in Words
    BY Constants DEF Words
  <2> QED
    BY <1>1, <2>1 DEF HeapInv, TypeOK
<1> HIDE DEF own
<1>4. ASSUME NEW c \in blocks, c # b
      PROVE  /\ AllPages(c.ptr) \cap own = {} /\ AllPages(c.ptr) \subseteq Pages
             /\ Base(c.ptr) \in AllPages(c.ptr) /\ Behind(c) \in AllPages(c.ptr)
             /\ UnprotectedPages(c.ptr) \subseteq AllPages(c.ptr)
             /\ Placed(c) /\ Guarded(c)
  <2>1. TypeOK /\ Placed(c) /\ Guarded(c) /\ Apart
    BY DEF HeapInv
  <2>2. AllPages(c.ptr) \cap own = {}
    BY <1>4, <2>1 DEF Apart, own
  <2>3. Base(c.ptr) \in AllPages(c.ptr) /\ Behind(c) \in AllPages(c.ptr)
    BY <2>1, BaseIsOwn
  <2>4. /\ AllPages(c.ptr) \subseteq Pages /\ AllPages(c.ptr) = Base(c.ptr)..Behind(c)
        /\ UnprotectedPages(c.ptr) = Base(c.ptr) + 2..Behind(c) - 1
        /\ Base(c.ptr) \in Int /\ Behind(c) \in Int
    BY <2>1, Layout
  <2>5. UnprotectedPages(c.ptr) \subseteq AllPages(c.ptr)
    BY <2>4
  <2> QED
    BY <2>1, <2>2, <2>3, <2>4, <2>5
<1>5. ASSUME NEW c \in blocks, c # b
      PROVE  /\ Length(c)' = Length(c) /\ Behind(c)' = Behind(c)
             /\ AllPages(c.ptr)' = AllPages(c.ptr)
             /\ UnprotectedPages(c.ptr)' = UnprotectedPages(c.ptr)
  <2>1. header'[Base(c.ptr)] = header[Base(c.ptr)]
    BY <1>1, <1>4, <1>5
  <2> QED
    BY <2>1 DEF Length, Behind, AllPages, UnprotectedPages
<1>6. ASSUME NEW c \in blocks, c # b PROVE Placed(c)' /\ Guarded(c)'
  <2>1. \A p \in AllPages(c.ptr) : prot'[p] = prot[p]
    BY <1>1, <1>4, <1>6
  <2>2. Placed(c)'
    BY <1>4, <1>5, <1>6 DEF Placed
  <2>3. Guarded(c)'
    BY <1>4, <1>5, <1>6, <2>1 DEF Guarded
  <2> QED
    BY <2>2, <2>3
<1>7. Apart'
  BY <1>1, <1>5 DEF HeapInv, Apart
<1>8. Owned'
  <2> SUFFICES ASSUME NEW p \in Pages, prot'[p] # "unmapped"
               PROVE  \E c \in blocks' : p \in AllPages(c.ptr)'
    BY DEF Owned
  <2>1. p \notin own /\ prot[p] # "unmapped"
    BY <1>1
  <2>2. PICK c \in blocks : p \in AllPages(c.ptr)
    BY <2>1 DEF HeapInv, Owned
  <2>3. c # b
    BY <2>1, <2>2 DEF own
  <2> QED
    BY <1>1, <1>5, <2>2, <2>3
<1>9. Marked'
  <2>1. b \notin damaged /\ damaged \subseteq blocks
    BY <1>2 DEF HeapInv, Marked
  <2>2. ASSUME NEW c \in blocks, c # b PROVE Intact(c)' <=> Intact(c)
    <3>1. PageOf(c.ptr - CanarySize) \in AllPages(c.ptr)
      <4>1. TypeOK /\ Placed(c) /\ c.ptr \in Nat
        BY <1>4, <2>2, Layout DEF HeapInv
      <4>2. c.ptr - CanarySize \in c.ptr - CanarySize..c.ptr - 1
        BY <4>1, Constants
      <4> QED
        BY <4>1, <4>2, CanaryIsOwn
    <3> QED
      BY <1>1, <1>4, <2>2, <3>1 DEF Intact
  <2> QED
    BY <1>1, <2>1, <2>2 DEF HeapInv, Marked
<1> QED
  BY <1>1, <1>3, <1>6, <1>7, <1>8, <1>9 DEF HeapInv

LEMMA StepOfWrite ==
    ASSUME HeapInv, NEW b \in blocks, NEW off \in Reach(b), Write(b, off)
    PROVE  HeapInv'
<1>1. /\ canaries' = {c \in canaries : b.ptr + off \notin c..c + CanarySize - 1}
      /\ damaged' = IF off \in (-CanarySize)..(-1) THEN damaged \cup {b} ELSE damaged
      /\ UNCHANGED <<prot, header, blocks, status>>
  BY DEF Write
<1>2. TypeOK'
  BY <1>1 DEF HeapInv, TypeOK
<1>3. /\ \A c \in blocks : Placed(c)' /\ Guarded(c)'
      /\ Apart' /\ Owned'
  BY <1>1 DEF HeapInv, Placed, Guarded, Apart, Owned, Length, Behind, AllPages, UnprotectedPages
<1>4. b.ptr + off \in Int /\ PageOf(b.ptr + off) \in AllPages(b.ptr)
  BY ReachIsOwn DEF HeapInv
<1>5. b.ptr \in Nat /\ off \in Int /\ CanarySize \in Nat
  BY Layout, Constants DEF HeapInv, Reach, Min2
<1>6. ASSUME NEW c \in blocks, c # b PROVE Intact(c)' <=> Intact(c)
  <2>1. c.ptr \in Nat /\ AllPages(c.ptr) \cap AllPages(b.ptr) = {}
    BY <1>6, Layout DEF HeapInv, Apart
  <2>2. b.ptr + off \notin c.ptr - CanarySize..c.ptr - 1
    BY <1>4, <1>6, <2>1, CanaryIsOwn DEF HeapInv
  <2>3. c.ptr - CanarySize + CanarySize - 1 = c.ptr - 1
    BY <1>5, <2>1
  <2> QED
    BY <1>1, <2>2, <2>3 DEF Intact
<1>7. Intact(b)' <=> Intact(b) /\ off \notin (-CanarySize)..(-1)
  <2>1. b.ptr + off \in b.ptr - CanarySize..b.ptr - CanarySize + CanarySize - 1
          <=> off \in (-CanarySize)..(-1)
    BY <1>5
  <2> QED
    BY <1>1, <2>1 DEF Intact
<1>8. Marked'
  BY <1>1, <1>6, <1>7 DEF HeapInv, Marked
<1> QED
  BY <1>1, <1>2, <1>3, <1>8 DEF HeapInv

\* sodium_malloc of as many bytes as are wanted.
LEMMA StepOfMalloc ==
    ASSUME HeapInv, NEW size \in Words, Malloc(size, size)
    PROVE  HeapInv'
<1>1. CASE UNCHANGED vars
  <2>1. status' \in {"running", "fault", "out of bounds"}
    BY <1>1 DEF HeapInv, TypeOK, vars
  <2>2. status' = "out of bounds" => damaged # {}
    BY <1>1 DEF HeapInv, Marked, vars
  <2> QED
    BY <1>1, <2>1, <2>2, StepOfStatus DEF vars
<1>2. ASSUME size < WordSize - 1 - 4 * PageSize,
             NEW base \in MmapAt(Total(size)), MallocAt(size, size, base)
      PROVE  HeapInv'
  <2> DEFINE n == Unprotected(size) \div PageSize
             behind == base + 2 + n
             canary == behind * PageSize - (CanarySize + size)
             own == base..behind
  <2>1. /\ n \in Nat \ {0}
        /\ Unprotected(size) = n * PageSize /\ Unprotected(size) \in Words
        /\ (CanarySize + size) % WordSize = CanarySize + size
        /\ n * PageSize < CanarySize + size + PageSize
        /\ CanarySize + size <= n * PageSize
        /\ base \in Pages /\ behind \in Pages
        /\ \A q \in own : prot[q] = "unmapped"
    BY <1>2, SumsFit
  <2>2. PICK front \in Outcomes, back \in Outcomes, recorded \in Outcomes :
          /\ prot' = Mprotect(Mprotect(Mprotect(Mprotect(prot, own, "write", TRUE),
                                                {base + 1}, "none", front),
                                       {behind}, "none", back),
                              {base}, "read", recorded)
          /\ header' = [header EXCEPT ![base] = Unprotected(size)]
          /\ canaries' = canaries \cup {canary}
          /\ blocks' = blocks \cup {[ptr |-> canary + CanarySize, size |-> size,
                                     guarded |-> back]}
          /\ UNCHANGED <<damaged, status>>
    BY <1>2, <2>1 DEF MallocAt
  <2>3. /\ PageSize \in Nat \ {0} /\ CanarySize \in Nat \ {0} /\ CanarySize < PageSize
        /\ WordSize \in Nat \ {0} /\ size \in Nat /\ Words \subseteq Nat
    BY Constants DEF Words
  <2>4. base \in Nat \ {0} /\ behind \in Nat /\ base + 3 <= behind /\ own \subseteq Pages
    BY <2>1, HeapAssumption DEF Pages
  \* where the canary and the block come to be
  <2>5. behind * PageSize = (base + 2) * PageSize + n * PageSize
    BY <2>1, <2>4, PagesAdd
  <2>6. behind * PageSize < WordSize
    <3>1. (LastPage + 1) * PageSize <= WordSize /\ behind + 1 <= LastPage + 1
          /\ LastPage \in Nat
      BY <2>1, <2>4, HeapAssumption DEF Pages
    <3>2. (behind + 1) * PageSize <= (LastPage + 1) * PageSize
      BY <2>4, <3>1, PagesAreMonotone
    <3>3. (behind + 1) * PageSize = behind * PageSize + PageSize
      BY <2>3, <2>4, PagesAdd
    <3> QED
      BY <2>3, <2>4, <3>1, <3>2, <3>3
  <2>7. 0 <= (base + 2) * PageSize
    BY <2>3, <2>4
  <2>8. /\ canary \in Nat /\ canary < WordSize
        /\ (base + 2) * PageSize <= canary /\ canary < (base + 2) * PageSize + PageSize
        /\ canary + CanarySize \in Nat /\ canary + CanarySize = behind * PageSize - size
        /\ canary + CanarySize < WordSize
    <3> DEFINE x == behind * PageSize
               y == (base + 2) * PageSize
               z == n * PageSize
    <3>1. x \in Int /\ y \in Int /\ z \in Int
      BY <2>1, <2>3, <2>4
    <3>2. /\ x = y + z /\ x < WordSize /\ 0 <= y /\ z < CanarySize + size + PageSize
          /\ CanarySize + size <= z /\ canary = x - (CanarySize + size)
      BY <2>1, <2>5, <2>6, <2>7
    <3> HIDE DEF x, y, z, canary
    <3>3. /\ canary \in Nat /\ canary < WordSize
          /\ y <= canary /\ canary < y + PageSize
          /\ canary + CanarySize \in Nat /\ canary + CanarySize = x - size
          /\ canary + CanarySize < WordSize
      BY <2>3, <3>1, <3>2
    <3> QED
      BY <3>3 DEF x, y
  <2>9. PageOf(canary) = base + 2
    <3> DEFINE p == base + 2
    <3>1. p \in Int /\ canary \in Int /\ p * PageSize <= canary
          /\ canary < p * PageSize + PageSize
      BY <2>4, <2>8
    <3> HIDE DEF p, canary
    <3>2. PageOf(canary) = p
      BY <3>1, PageIsUnique
    <3> QED
      BY <3>2 DEF p
  <2> DEFINE new == [ptr |-> canary + CanarySize, size |-> size, guarded |-> back]
  <2>10. /\ new.ptr = canary + CanarySize /\ new.size = size /\ new.guarded = back
         /\ new \in [ptr : Words, size : Words, guarded : BOOLEAN]
         /\ back \in BOOLEAN
    <3>1. canary + CanarySize \in Words
      BY <2>3, <2>8 DEF Words
    <3>2. back \in BOOLEAN
      BY DEF Outcomes
    <3> QED
      BY <3>1, <3>2
  <2>11. new.ptr - CanarySize = canary
    BY <2>3, <2>8
  <2>12. blocks' = blocks \cup {new} /\ canaries' = canaries \cup {canary}
    BY <2>2
  <2>13. header' = [header EXCEPT ![base] = n * PageSize] /\ damaged' = damaged
         /\ status' = status
    BY <2>1, <2>2
  \* the protections
  <2>14. /\ prot' \in [Pages -> Modes \cup {"unmapped"}]
         /\ \A p \in Pages \ own : prot'[p] = prot[p]
         /\ \A p \in own : prot'[p] # "unmapped"
         /\ \A p \in base + 2..behind - 1 : prot'[p] = "write"
         /\ back => prot'[behind] = "none"
    <3>1. prot \in [Pages -> Modes \cup {"unmapped"}]
      BY DEF HeapInv, TypeOK
    <3>2. \A p \in Pages : prot'[p] =
            IF recorded /\ p = base THEN "read"
            ELSE IF back /\ p = behind THEN "none"
            ELSE IF front /\ p = base + 1 THEN "none"
            ELSE IF p \in own THEN "write" ELSE prot[p]
      BY <2>2 DEF Mprotect
    <3>3. prot' \in [Pages -> Modes \cup {"unmapped"}]
      BY <2>2, <3>1 DEF Mprotect, Modes
    <3>4. base \in own /\ base + 1 \in own /\ behind \in own /\ behind # base
          /\ base + 2..behind - 1 \subseteq own
      BY <2>4
    <3>5. \A p \in base + 2..behind - 1 : p # base /\ p # base + 1 /\ p # behind
      BY <2>4
    <3> HIDE DEF own, behind
    <3> QED
      BY <2>4, <3>2, <3>3, <3>4, <3>5
  <2> HIDE DEF canary, behind, own, new, n
  \* the new block
  <2>15. Base(new.ptr) = base /\ UnprotectedPage(new.ptr) = base + 2
    BY <2>4, <2>9, <2>11 DEF Base, UnprotectedPage
  <2>16. header'[base] = n * PageSize /\ header' \in [Pages -> Words]
    BY <2>1, <2>13 DEF HeapInv, TypeOK
  <2>17. Length(new)' = n /\ Behind(new)' = behind
    <3>1. PageOf(n * PageSize) = n
      <4>1. n \in Int /\ n * PageSize \in Int
        BY <2>1, <2>3
      <4> QED
        BY <2>3, <4>1, PageIsUnique
    <3> QED
      BY <2>15, <2>16, <3>1 DEF Length, Behind, behind, PageOf
  <2>18. /\ AllPages(new.ptr)' = own
         /\ UnprotectedPages(new.ptr)' = base + 2..behind - 1
    <3>1. header'[base] \div PageSize = n
      BY <2>15, <2>17 DEF Length
    <3>2. base + 2 + n - 1 = behind - 1
      BY <2>1, <2>4 DEF behind
    <3> QED
      BY <2>15, <3>1, <3>2 DEF AllPages, UnprotectedPages, own, behind
  <2>19. Placed(new)'
    <3>1. new.ptr + new.size = behind * PageSize
      BY <2>3, <2>8, <2>10, <2>4
    <3> QED
      BY <2>1, <2>15, <2>17, <3>1 DEF Placed
  <2>20. Guarded(new)'
    BY <2>10, <2>14, <2>17, <2>18 DEF Guarded, Modes
  \* the others
  <2>21. ASSUME NEW c \in blocks
         PROVE  /\ AllPages(c.ptr) \cap own = {} /\ AllPages(c.ptr) \subseteq Pages
                /\ Base(c.ptr) \in AllPages(c.ptr) /\ Behind(c) \in AllPages(c.ptr)
                /\ UnprotectedPages(c.ptr) \subseteq AllPages(c.ptr)
                /\ TypeOK /\ Placed(c) /\ Guarded(c) /\ c.ptr \in Nat
    <3>1. TypeOK /\ Placed(c) /\ Guarded(c)
      BY DEF HeapInv
    <3>2. AllPages(c.ptr) \cap own = {}
      BY <2>1, <3>1 DEF Guarded
    <3>3. Base(c.ptr) \in AllPages(c.ptr) /\ Behind(c) \in AllPages(c.ptr)
      BY <3>1, BaseIsOwn
    <3>4. /\ AllPages(c.ptr) \subseteq Pages /\ AllPages(c.ptr) = Base(c.ptr)..Behind(c)
          /\ UnprotectedPages(c.ptr) = Base(c.ptr) + 2..Behind(c) - 1
          /\ Base(c.ptr) \in Int /\ Behind(c) \in Int /\ c.ptr \in Nat
      BY <3>1, Layout
    <3>5. UnprotectedPages(c.ptr) \subseteq AllPages(c.ptr)
      BY <3>4
    <3> QED
      BY <3>1, <3>2, <3>3, <3>4, <3>5
  <2>22. base \in own /\ base + 2 \in own
    BY <2>4 DEF own
  <2>23. ASSUME NEW c \in blocks
         PROVE  /\ Length(c)' = Length(c) /\ Behind(c)' = Behind(c)
                /\ AllPages(c.ptr)' = AllPages(c.ptr)
                /\ UnprotectedPages(c.ptr)' = UnprotectedPages(c.ptr)
    <3>1. header'[Base(c.ptr)] = header[Base(c.ptr)]
      BY <2>13, <2>21, <2>22 DEF HeapInv, TypeOK
    <3> QED
      BY <3>1 DEF Length, Behind, AllPages, UnprotectedPages
  <2>24. ASSUME NEW c \in blocks PROVE Placed(c)' /\ Guarded(c)'
    <3>1. \A p \in AllPages(c.ptr) : prot'[p] = prot[p]
      BY <2>14, <2>21
    <3>2. Placed(c)'
      BY <2>21, <2>23 DEF Placed
    <3>3. Guarded(c)'
      BY <2>21, <2>23, <3>1 DEF Guarded
    <3> QED
      BY <3>2, <3>3
  <2>25. new \notin blocks
    <3>1. new \in blocks => base \in AllPages(new.ptr)
      BY <2>15, <2>21
    <3> QED
      BY <2>21, <2>22, <3>1
  <2>26. Apart'
    <3> SUFFICES ASSUME NEW b \in blocks', NEW c \in blocks', b # c
                 PROVE  AllPages(b.ptr)' \cap AllPages(c.ptr)' = {}
      BY DEF Apart
    <3>1. CASE b \in blocks /\ c \in blocks
      BY <2>23, <3>1 DEF HeapInv, Apart
    <3>2. CASE b = new /\ c \in blocks
      BY <2>18, <2>21, <2>23, <3>2
    <3>3. CASE b \in blocks /\ c = new
      BY <2>18, <2>21, <2>23, <3>3
    <3> QED
      BY <2>12, <3>1, <3>2, <3>3
  <2>27. Owned'
    <3> SUFFICES ASSUME NEW p \in Pages, prot'[p] # "unmapped"
                 PROVE  \E c \in blocks' : p \in AllPages(c.ptr)'
      BY DEF Owned
    <3>1. CASE p \in own
      BY <2>12, <2>18, <3>1
    <3>2. CASE p \notin own
      <4>1. PICK c \in blocks : p \in AllPages(c.ptr)
        BY <2>14, <3>2 DEF HeapInv, Owned
      <4> QED
        BY <2>12, <2>23, <4>1
    <3> QED
      BY <3>1, <3>2
  <2>28. Marked'
    <3>1. damaged \subseteq blocks
      BY DEF HeapInv, Marked
    <3>2. Intact(new)'
      BY <2>11, <2>12 DEF Intact
    <3>3. ASSUME NEW c \in blocks PROVE Intact(c)' <=> Intact(c)
      <4>1. c.ptr - CanarySize \in c.ptr - CanarySize..c.ptr - 1
        BY <2>3, <2>21
      <4>2. PageOf(c.ptr - CanarySize) \in AllPages(c.ptr)
        BY <2>21, <4>1, CanaryIsOwn
      <4>3. c.ptr - CanarySize # canary
        BY <2>9, <2>21, <2>22, <4>2
      <4> QED
        BY <2>12, <4>3 DEF Intact
    <3> QED
      BY <2>12, <2>13, <2>25, <3>1, <3>2, <3>3 DEF HeapInv, Marked
  <2>29. TypeOK'
    <3>1. canary \in Words
      BY <2>3, <2>8 DEF Words
    <3> QED
      BY <2>10, <2>12, <2>13, <2>14, <2>16, <3>1 DEF HeapInv, TypeOK
  <2> QED
    BY <2>12, <2>19, <2>20, <2>24, <2>26, <2>27, <2>28, <2>29 DEF HeapInv
<1> QED
  BY <1>1, <1>2 DEF Malloc, MallocFails

\* The check of sodium_allocarray is enough for the product not to wrap.
LEMMA ProductFits ==
    ASSUME NEW count \in Words, NEW size \in Words,
           count > 0 => size < (WordSize - 1) \div count
    PROVE  /\ (count * size) % WordSize = count * size
           /\ count * size \in Words
<1>1. count \in Nat /\ size \in Nat /\ WordSize \in Nat \ {0}
  BY Constants DEF Words
<1>2. count * size \in Nat /\ count * size < WordSize
  <2>1. CASE count = 0
    BY <1>1, <2>1
  <2>2. CASE count > 0
    <3> DEFINE d == (WordSize - 1) \div count
    <3>1. d \in Nat /\ d * count <= WordSize - 1
      BY <1>1, <2>2
    <3>2. size <= d
      BY <1>1, <2>2, <3>1
    <3> HIDE DEF d
    <3>3. (d - size) * count >= 0 /\ (d - size) * count = d * count - size * count
      BY <1>1, <3>1, <3>2
    <3>4. count * size = size * count /\ count * size \in Nat
      BY <1>1
    <3> QED
      BY <1>1, <3>1, <3>3, <3>4
  <2> QED
    BY <1>1, <2>1, <2>2
<1> DEFINE p == count * size
<1>3. p \in Nat /\ p < WordSize
  BY <1>2
<1> HIDE DEF p
<1>4. p % WordSize = p /\ p \in Words
  BY <1>1, <1>3 DEF Words
<1> QED
  BY <1>4 DEF p

LEMMA HeapInvStep ==
    ASSUME HeapInv, [Next]_vars
    PROVE  HeapInv'
<1>1. CASE UNCHANGED vars
  <2>1. status' \in {"running", "fault", "out of bounds"}
    BY <1>1 DEF HeapInv, TypeOK, vars
  <2>2. status' = "out of bounds" => damaged # {}
    BY <1>1 DEF HeapInv, Marked, vars
  <2> QED
    BY <1>1, <2>1, <2>2, StepOfStatus DEF vars
<1>2. Sizes \subseteq Words /\ Counts \subseteq Words
  BY HeapAssumption DEF Words
<1>3. ASSUME NEW size \in Sizes, Malloc(size, size) PROVE HeapInv'
  BY <1>2, <1>3, StepOfMalloc
<1>4. ASSUME NEW count \in Counts, NEW size \in Sizes, Allocarray(count, size)
      PROVE  HeapInv'
  <2>1. CASE MallocFails
    BY <1>1, <2>1 DEF MallocFails
  <2>2. CASE /\ count > 0 => size < (WordSize - 1) \div count
             /\ Malloc((count * size) % WordSize, count * size)
    <3> DEFINE p == count * size
    <3>1. p % WordSize = p /\ p \in Words
      BY <1>2, <2>2, ProductFits
    <3>2. Malloc(p, p)
      BY <2>2, <3>1
    <3> HIDE DEF p
    <3> QED
      BY <3>1, <3>2, StepOfMalloc
  <2> QED
    BY <1>4, <2>1, <2>2 DEF Allocarray
<1>5. ASSUME NEW b \in blocks, NEW mode \in Modes, ProtectBlock(b, mode) PROVE HeapInv'
  BY <1>5, StepOfProtect
<1>6. ASSUME NEW b \in blocks, FreeDone(b) PROVE HeapInv'
  BY <1>6, StepOfFree
<1>7. ASSUME NEW b \in blocks, FreeOutOfBounds(b) PROVE HeapInv'
  <2>1. b \in damaged
    BY <1>7 DEF FreeOutOfBounds, HeapInv, Marked
  <2> QED
    BY <1>7, <2>1, StepOfStatus DEF FreeOutOfBounds
<1>8. ASSUME NEW b \in blocks, FreeFaults(b) PROVE HeapInv'
  BY <1>8, StepOfStatus DEF FreeFaults
<1>9. ASSUME NEW b \in blocks, NEW off \in Reach(b), AccessFaults(b, off) PROVE HeapInv'
  BY <1>9, StepOfStatus DEF AccessFaults
<1>10. ASSUME NEW b \in blocks, NEW off \in Reach(b), Write(b, off) PROVE HeapInv'
  BY <1>10, StepOfWrite
<1> QED
  BY <1>1, <1>3, <1>4, <1>5, <1>6, <1>7, <1>8, <1>9, <1>10 DEF Next

LEMMA HeapInvInit == Init => HeapInv
<1>1. 0 \in Words
  BY Constants DEF Words
<1> QED
  BY <1>1 DEF Init, HeapInv, TypeOK, Apart, Owned, Marked

LEMMA HeapInvAlways == Spec => []HeapInv
  BY HeapInvInit, HeapInvStep, PTL DEF Spec

-----------------------------------------------------------------------------
\* What follows from it.

\* Every variable has its type.
THEOREM HeapTypeCorrect == Spec => []TypeOK
<1>1. HeapInv => TypeOK
  BY DEF HeapInv
<1> QED
  BY <1>1, HeapInvAlways, PTL

\* A pointer that sodium_malloc or sodium_allocarray returns is to as many bytes as were
\* asked for and a canary in front of them, in pages of one protection that no other block
\* has, whatever was allocated, protected, freed and overwritten since.
THEOREM BlockIsWholeTheorem == Spec => []BlockIsWhole
<1>1. ASSUME HeapInv PROVE BlockIsWhole
  <2> SUFFICES ASSUME NEW b \in blocks
               PROVE  /\ {PageOf(b.ptr - CanarySize), PageOf(b.ptr + b.size - 1)}
                            \subseteq UnprotectedPages(b.ptr)
                      /\ \E mode \in Modes :
                           \A p \in UnprotectedPages(b.ptr) : p \in Pages /\ prot[p] = mode
                      /\ \A c \in blocks \ {b} : AllPages(b.ptr) \cap AllPages(c.ptr) = {}
    BY DEF BlockIsWhole
  <2>1. TypeOK /\ Placed(b) /\ Guarded(b) /\ Apart
    BY <1>1 DEF HeapInv
  <2>2. /\ b.ptr \in Nat /\ b.size \in Nat
        /\ Base(b.ptr) \in Int /\ Behind(b) \in Int
        /\ AllPages(b.ptr) = Base(b.ptr)..Behind(b) /\ AllPages(b.ptr) \subseteq Pages
        /\ UnprotectedPages(b.ptr) = Base(b.ptr) + 2..Behind(b) - 1
        /\ (Base(b.ptr) + 2) * PageSize <= b.ptr - CanarySize
    BY <2>1, Layout
  <2>3. b.ptr + b.size = Behind(b) * PageSize
    BY <2>1 DEF Placed
  <2>4. ASSUME NEW a \in Int, (Base(b.ptr) + 2) * PageSize <= a, a < Behind(b) * PageSize
        PROVE  PageOf(a) \in UnprotectedPages(b.ptr)
    <3> DEFINE p == Base(b.ptr) + 2
    <3>1. p \in Int
      BY <2>2
    <3> QED
      BY <2>2, <2>4, <3>1, PageBetween
  <2>5. /\ b.ptr - CanarySize \in Int /\ b.ptr + b.size - 1 \in Int
        /\ b.ptr - CanarySize < b.ptr + b.size /\ b.ptr + b.size - 1 < b.ptr + b.size
        /\ b.ptr - CanarySize <= b.ptr + b.size - 1
    <3> DEFINE x == b.ptr
               y == b.size
    <3>1. x \in Nat /\ y \in Nat /\ CanarySize \in Nat /\ CanarySize >= 1
      BY <2>2, Constants
    <3> HIDE DEF x, y
    <3>2. /\ x - CanarySize \in Int /\ x + y - 1 \in Int
          /\ x - CanarySize < x + y /\ x + y - 1 < x + y /\ x - CanarySize <= x + y - 1
      BY <3>1
    <3> QED
      BY <3>2 DEF x, y
  <2>6. (Base(b.ptr) + 2) * PageSize <= b.ptr + b.size - 1
    BY <2>2, <2>5, Constants
  <2>7. {PageOf(b.ptr - CanarySize), PageOf(b.ptr + b.size - 1)} \subseteq UnprotectedPages(b.ptr)
    BY <2>2, <2>3, <2>4, <2>5, <2>6
  <2>8. UnprotectedPages(b.ptr) \subseteq Pages
    BY <2>2
  <2> QED
    BY <2>1, <2>7, <2>8 DEF Guarded, Apart
<1> QED
  BY <1>1, HeapInvAlways, PTL

\* An access up to a page behind a block that has its guard page faults.
THEOREM OverrunFaultsTheorem == Spec => []OverrunFaults
<1>1. ASSUME HeapInv PROVE OverrunFaults
  <2> SUFFICES ASSUME NEW b \in blocks, b.guarded, NEW off \in 0..PageSize - 1
               PROVE  Mode(b.ptr + b.size + off) = "none"
    BY DEF OverrunFaults
  <2>1. TypeOK /\ Placed(b) /\ Guarded(b)
    BY <1>1 DEF HeapInv
  <2> DEFINE x == Behind(b) * PageSize
             a == b.ptr + b.size + off
  <2>2. Behind(b) \in Int /\ PageSize \in Nat /\ off \in Nat /\ off < PageSize /\ x \in Int
    BY <2>1, Layout, Constants
  <2>3. a = x + off
    BY <2>1 DEF Placed
  <2> HIDE DEF x
  <2>4. a \in Int /\ x <= a /\ a < x + PageSize
    BY <2>2, <2>3
  <2> HIDE DEF a
  <2>5. PageOf(a) = Behind(b)
    BY <2>2, <2>4, PageIsUnique DEF x
  <2> QED
    BY <2>1, <2>5 DEF Mode, Guarded, Placed, a
<1> QED
  BY <1>1, HeapInvAlways, PTL

\* sodium_free reports a damaged canary if there is one, and only then.
THEOREM DamageIsNoticedTheorem == Spec => []DamageIsNoticed
<1>1. HeapInv => DamageIsNoticed
  BY DEF HeapInv, Marked, DamageIsNoticed
<1> QED
  BY <1>1, HeapInvAlways, PTL

\* The pages that are mapped are those of the blocks in use.
THEOREM NothingLeaksTheorem == Spec => []NothingLeaks
<1>1. ASSUME HeapInv PROVE NothingLeaks
  <2>1. ASSUME NEW b \in blocks, NEW p \in AllPages(b.ptr)
        PROVE  p \in Pages /\ prot[p] # "unmapped"
    <3>1. TypeOK /\ Placed(b) /\ Guarded(b)
      BY <1>1 DEF HeapInv
    <3>2. AllPages(b.ptr) \subseteq Pages
      BY <3>1, Layout
    <3> QED
      BY <3>1, <3>2 DEF Guarded
  <2>2. ASSUME NEW p \in Pages, prot[p] # "unmapped"
        PROVE  \E b \in blocks : p \in AllPages(b.ptr)
    BY <1>1, <2>2 DEF HeapInv, Owned
  <2> QED
    BY <2>1, <2>2 DEF NothingLeaks
<1> QED
  BY <1>1, HeapInvAlways, PTL

=============================================================================
