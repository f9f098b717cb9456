---------------------------- MODULE GuardedHeap ----------------------------
(***************************************************************************)
(* sodium_malloc, sodium_allocarray, sodium_free and sodium_mprotect_*      *)
(* (sodium/utils.c): every block gets a mapping of its own, laid out as     *)
(*                                                                          *)
(*     size (read only) | guard | padding, canary, block | guard            *)
(*                                                                          *)
(* so that the block ends where the last guard page begins.  The            *)
(* application also makes stray accesses, up to a page from its block.      *)
(* Sizes and lengths are words, and wrap as size_t does.  Modelled: the     *)
(* build with mmap and mprotect, after sodium_init.                         *)
(***************************************************************************)
EXTENDS Integers, FiniteSets

CONSTANTS
    PageSize,         \* the size of a page, a power of two
    CanarySize,       \* CANARY_SIZE
    WordSize,         \* SIZE_MAX + 1
    LastPage,         \* bound: the last page the kernel maps; it never maps page 0
    Sizes,            \* the sizes the application asks for
    Counts,           \* the lengths of the arrays it asks for
    MprotectMayFail,  \* whether mprotect() may fail, as it does without memory
    MaxBlocks         \* bound: the blocks in use at one time

ASSUME HeapAssumption ==
    /\ PageSize \in Nat \ {0} /\ WordSize \in Nat
    /\ CanarySize \in 1..PageSize - 1
    /\ WordSize % PageSize = 0 /\ WordSize > 4 * PageSize
    /\ LastPage \in Nat \ {0} /\ (LastPage + 1) * PageSize <= WordSize
    /\ Sizes \subseteq 0..WordSize - 1
    /\ Counts \subseteq 0..WordSize - 1
    /\ MprotectMayFail \in BOOLEAN
    /\ MaxBlocks \in Nat

Pages == 1..LastPage

VARIABLES
    prot,      \* prot[p] is the protection of page p, "unmapped" if there is no such page
    header,    \* header[p] is the number the first bytes of page p hold
    canaries,  \* where in memory there is an intact canary
    blocks,    \* the blocks the application has: where, of what size, with what guard
    damaged,   \* history: the blocks the application wrote just in front of
    status     \* "running", or how the process ended: "fault" or "out of bounds"

vars == <<prot, header, canaries, blocks, damaged, status>>

Min2(a, b) == IF a < b THEN a ELSE b

PageOf(address) == address \div PageSize

\* _page_round
PageRound(size) ==
    LET up == (size + PageSize - 1) % WordSize
    IN  up - (up % PageSize)

\* The lengths _sodium_malloc computes: of the writable pages, and of all pages.
Unprotected(size) == PageRound((CanarySize + size) % WordSize)
Total(size) == (3 * PageSize + Unprotected(size)) % WordSize

\* mprotect() on a set of pages; the code ignores its result but where it returns it.
Mprotect(f, pages, mode, succeeds) ==
    [p \in Pages |-> IF succeeds /\ p \in pages THEN mode ELSE f[p]]

Outcomes == IF MprotectMayFail THEN BOOLEAN ELSE {TRUE}

\* mmap() of a length: where there is room for it, and nowhere if the length is 0.
MmapAt(length) ==
    {p \in Pages : /\ length > 0
                   /\ p + length \div PageSize - 1 \in Pages
                   /\ \A q \in p..p + length \div PageSize - 1 : prot[q] = "unmapped"}

-----------------------------------------------------------------------------

Init ==
    /\ prot = [p \in Pages |-> "unmapped"]
    /\ header = [p \in Pages |-> 0]
    /\ canaries = {}
    /\ blocks = {} /\ damaged = {}
    /\ status = "running"

(***************************************************************************)
(* sodium_malloc of size bytes, for an application that wants wanted bytes. *)
(***************************************************************************)
MallocFails == UNCHANGED vars   \* NULL, with ENOMEM or because mmap failed

MallocAt(size, wanted, base) ==
    LET unprotected == base + 2
        behind == unprotected + Unprotected(size) \div PageSize
        canary == behind * PageSize - ((CanarySize + size) % WordSize)
        mapped == Mprotect(prot, base..behind, "write", TRUE)
    IN  \E front \in Outcomes, back \in Outcomes, recorded \in Outcomes :
          /\ prot' = Mprotect(Mprotect(Mprotect(mapped, {base + 1}, "none", front),
                                       {behind}, "none", back),
                              {base}, "read", recorded)
          /\ header' = [header EXCEPT ![base] = Unprotected(size)]
          /\ canaries' = canaries \cup {canary}
          /\ blocks' = blocks \cup {[ptr |-> canary + CanarySize, size |-> wanted,
                                     guarded |-> back]}
          /\ UNCHANGED <<damaged, status>>

\* Mutant: sizes near SIZE_MAX are not refused.
MallocUnchecked(size, wanted) ==
    \/ MallocFails
    \/ \E base \in MmapAt(Total(size)) : MallocAt(size, wanted, base)

Malloc(size, wanted) ==
    \/ MallocFails
    \/ /\ size < WordSize - 1 - 4 * PageSize
       /\ \E base \in MmapAt(Total(size)) : MallocAt(size, wanted, base)

\* Mutant: the product is not checked.
AllocarrayUnchecked(count, size) ==
    Malloc((count * size) % WordSize, count * size)

\* sodium_allocarray
Allocarray(count, size) ==
    \/ MallocFails
    \/ /\ count > 0 => size < (WordSize - 1) \div count
       /\ Malloc((count * size) % WordSize, count * size)

(***************************************************************************)
(* Finding the mapping of a block from its pointer alone.                   *)
(***************************************************************************)
UnprotectedPage(ptr) == PageOf(ptr - CanarySize)
Base(ptr) == UnprotectedPage(ptr) - 2
UnprotectedPages(ptr) ==
    UnprotectedPage(ptr)..UnprotectedPage(ptr) + header[Base(ptr)] \div PageSize - 1
AllPages(ptr) ==
    Base(ptr)..Base(ptr) + 2 + header[Base(ptr)] \div PageSize

Modes == {"none", "read", "write"}

\* Mutant: the guard pages are given the protection too.
ProtectMapping(b, mode) ==
    /\ \E succeeds \in Outcomes :
         prot' = Mprotect(prot, AllPages(b.ptr) \ {Base(b.ptr)}, mode, succeeds)
    /\ UNCHANGED <<header, canaries, blocks, damaged, status>>

\* sodium_mprotect_noaccess, _readonly and _readwrite
ProtectBlock(b, mode) ==
    /\ \E succeeds \in Outcomes :
         prot' = Mprotect(prot, UnprotectedPages(b.ptr), mode, succeeds)
    /\ UNCHANGED <<header, canaries, blocks, damaged, status>>

(***************************************************************************)
(* sodium_free.  What the mapping's pages are once it has tried to make     *)
(* them writable decides whether it can read the canary and wipe the block. *)
(***************************************************************************)
Opened(b, succeeds) ==
    Mprotect(prot, AllPages(b.ptr), "write", succeeds)[UnprotectedPage(b.ptr)]

Intact(b) == b.ptr - CanarySize \in canaries

Unmapped(b, pages) ==
    /\ prot' = [p \in Pages |-> IF p \in pages THEN "unmapped" ELSE prot[p]]
    /\ header' = [p \in Pages |-> IF p \in pages THEN 0 ELSE header[p]]
    /\ canaries' = {c \in canaries : PageOf(c) \notin pages}
    /\ blocks' = blocks \ {b}
    /\ UNCHANGED <<damaged, status>>

\* Mutant: the canary is not compared.
FreeUnchecked(b) ==
    /\ \E succeeds \in Outcomes : Opened(b, succeeds) = "write"
    /\ Unmapped(b, AllPages(b.ptr))

\* Mutant: the length given to munmap leaves out the last guard page.
FreeForgettingGuard(b) ==
    /\ \E succeeds \in Outcomes : Opened(b, succeeds) = "write"
    /\ Intact(b)
    /\ Unmapped(b, Base(b.ptr)..Base(b.ptr) + 1 + header[Base(b.ptr)] \div PageSize)

FreeDone(b) ==
    /\ \E succeeds \in Outcomes : Opened(b, succeeds) = "write"
    /\ Intact(b)
    /\ Unmapped(b, AllPages(b.ptr))

\* _out_of_bounds
FreeOutOfBounds(b) ==
    /\ \E succeeds \in Outcomes : Opened(b, succeeds) \in {"read", "write"}
    /\ ~Intact(b)
    /\ status' = "out of bounds"
    /\ UNCHANGED <<prot, header, canaries, blocks, damaged>>

\* The canary cannot be read, or the block, read only, cannot be wiped.
FreeFaults(b) ==
    /\ \E succeeds \in Outcomes :
         \/ Opened(b, succeeds) = "none"
         \/ Opened(b, succeeds) = "read" /\ Intact(b)
    /\ status' = "fault"
    /\ UNCHANGED <<prot, header, canaries, blocks, damaged>>

(***************************************************************************)
(* An access of the application by way of a block it has, off bytes from    *)
(* where the block begins: inside it, or up to a page away from it.         *)
(***************************************************************************)
Reach(b) == (-PageSize)..(Min2(b.size, LastPage * PageSize) + PageSize - 1)

Mode(address) == IF PageOf(address) \in Pages THEN prot[PageOf(address)] ELSE "unmapped"

\* A write that the page does not admit, and a read if it admits no access at all;
\* a read it admits changes nothing.
AccessFaults(b, off) ==
    /\ Mode(b.ptr + off) # "write"
    /\ status' = "fault"
    /\ UNCHANGED <<prot, header, canaries, blocks, damaged>>

Write(b, off) ==
    /\ Mode(b.ptr + off) = "write"
    /\ canaries' = {c \in canaries : b.ptr + off \notin c..c + CanarySize - 1}
    /\ damaged' = IF off \in (-CanarySize)..(-1) THEN damaged \cup {b} ELSE damaged
    /\ UNCHANGED <<prot, header, blocks, status>>

-----------------------------------------------------------------------------

Next ==
    /\ status = "running"
    /\ \/ /\ Cardinality(blocks) < MaxBlocks
          /\ \/ \E size \in Sizes : Malloc(size, size)
             \/ \E count \in Counts, size \in Sizes : Allocarray(count, size)
       \/ \E b \in blocks :
            \/ \E mode \in Modes : ProtectBlock(b, mode)
            \/ FreeDone(b)
            \/ FreeOutOfBounds(b)
            \/ FreeFaults(b)
            \/ \E off \in Reach(b) :
                 \/ AccessFaults(b, off)
                 \/ Write(b, off)

Spec == Init /\ [][Next]_vars

-----------------------------------------------------------------------------

Words == 0..WordSize - 1

\* Every variable has its type.
TypeOK ==
    /\ prot \in [Pages -> Modes \cup {"unmapped"}]
    /\ header \in [Pages -> Words]
    /\ canaries \subseteq Words
    /\ blocks \subseteq [ptr : Words, size : Words, guarded : BOOLEAN]
    /\ damaged \subseteq [ptr : Words, size : Words, guarded : BOOLEAN]
    /\ status \in {"running", "fault", "out of bounds"}

\* A pointer that is not NULL is to as many bytes as were asked for, with the canary in
\* front of them, in pages that no other block has and that all have one protection:
\* whatever sums and products wrapped on the way (sodium_malloc, sodium_allocarray).
BlockIsWhole ==
    \A b \in blocks :
      LET own == UnprotectedPages(b.ptr)
      IN  /\ {PageOf(b.ptr - CanarySize), PageOf(b.ptr + b.size - 1)} \subseteq own
          /\ \E mode \in Modes : \A p \in own : p \in Pages /\ prot[p] = mode
          /\ \A c \in blocks \ {b} : AllPages(b.ptr) \cap AllPages(c.ptr) = {}

\* "Accessing a single byte after the requested allocation size will intentionally
\* trigger a segmentation fault" (utils.h), whatever was protected and freed since, if
\* the kernel granted the guard page.
OverrunFaults ==
    \A b \in blocks : b.guarded =>
      \A off \in 0..PageSize - 1 : Mode(b.ptr + b.size + off) = "none"

\* The application does not get rid of a block it wrote in front of without being told,
\* and is never told so without a reason (sodium_free and the canary).
DamageIsNoticed ==
    /\ damaged \subseteq blocks
    /\ status = "out of bounds" => damaged # {}

\* The pages that are mapped are those of the blocks in use: sodium_free finds out from
\* the pointer what sodium_malloc mapped, no page less and no page more.
NothingLeaks ==
    {p \in Pages : prot[p] # "unmapped"} = UNION {AllPages(b.ptr) : b \in blocks}

=============================================================================
