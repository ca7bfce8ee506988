-------------------------------- MODULE Pmm --------------------------------
(***************************************************************************)
(* The physical memory manager (pmm.c): a bitmap with one bit per page     *)
(* frame, built by pmm_init from the memory map of the boot loader, and    *)
(* first-fit allocation of one frame or of a run of frames under           *)
(* g_pmm_lock, which makes each call one step.                             *)
(*                                                                         *)
(* Clients keep what they got and give back only what they hold, a frame   *)
(* or a run at a time; address 0 is the answer "no memory".                *)
(***************************************************************************)
EXTENDS Integers, Sequences, FiniteSets

CONSTANTS
    PageSize,   \* PAGE_SIZE, in bytes
    MemoryMaps, \* memory maps the boot loader can pass
    Kernels,    \* possible positions of the kernel image, in bytes
    Client,     \* the users of the manager
    MaxRun      \* bound on the length of a run that is asked for

ASSUME PageSizeAssumption == PageSize \in Nat \ {0}
ASSUME MaxRunAssumption == MaxRun \in Nat
\* A memory map is a sequence of regions of whole pages, free or not, and the
\* image a range of bytes.
ASSUME MapAssumption ==
    MemoryMaps \subseteq Seq([start : Nat, pages : Nat, free : BOOLEAN])
ASSUME KernelAssumption == Kernels \subseteq [start : Nat, size : Nat]

VARIABLES
    total,      \* pmm_total_pages
    used,       \* the pages whose bit is 1
    system,     \* the pages of the kernel image and of the bitmap
    bitmapAt,   \* physical address of the bitmap
    owned       \* the pages each client holds

vars == <<total, used, system, bitmapAt, owned>>

-----------------------------------------------------------------------------
(* pmm_init.                                                               *)

CeilDiv(a, b) == (a + b - 1) \div b

RegionEnd(r) == r.start + r.pages
Ends(m) == {RegionEnd(m[i]) : i \in 1 .. Len(m)}

\* The pages of the free regions.
FreeIn(m) == UNION {m[i].start .. RegionEnd(m[i]) - 1 : i \in {j \in 1 .. Len(m) : m[j].free}}

\* The bytes of a bitmap for n pages.
BitmapSize(n) == CeilDiv(n, 8)

\* Where a bitmap of size bytes goes in region r, or -1: at its start if the
\* image is elsewhere, after the image, or before it.
PlaceIn(r, k, size) ==
    LET start == r.start * PageSize
        end   == RegionEnd(r) * PageSize
        kend  == k.start + k.size
    IN  IF ~r.free \/ r.pages * PageSize < size THEN -1
        ELSE IF ~(start < kend /\ end > k.start) THEN start
        ELSE IF end >= kend + size THEN kend
        ELSE IF k.start >= start + size /\ k.start < end THEN start
        ELSE -1

\* Address a is in the first region that has a place.
Place(a, m, k, size) ==
    \E i \in 1 .. Len(m) :
        /\ a = PlaceIn(m[i], k, size) /\ a # -1
        /\ \A j \in 1 .. i - 1 : PlaceIn(m[j], k, size) = -1

\* Mutant of PagesAt: the last page is rounded down.
PagesAtShort(a, size) == a \div PageSize .. a \div PageSize + size \div PageSize - 1

\* The pages reserved for size bytes at address a ...
PagesAt(a, size) == a \div PageSize .. a \div PageSize + CeilDiv(size, PageSize) - 1

\* ... and the pages those bytes are on.
Touched(a, size) == {p \in 0 .. (a + size) \div PageSize :
                         p * PageSize < a + size /\ a < (p + 1) * PageSize}

\* pmm_init has returned: it loops for ever if there is no place for the
\* bitmap, or if the place is address 0.
Init ==
    \E m \in MemoryMaps, k \in Kernels :
        \E n \in Ends(m) : \E a \in {PlaceIn(m[i], k, BitmapSize(n)) : i \in 1 .. Len(m)} :
            /\ \A e \in Ends(m) : e <= n
            /\ Place(a, m, k, BitmapSize(n)) /\ a # 0
            /\ total = n
            /\ bitmapAt = a
            /\ used = {p \in 0 .. n - 1 : \/ p \notin FreeIn(m)
                                         \/ p \in PagesAt(k.start, k.size)
                                         \/ p \in PagesAt(a, BitmapSize(n))}
            /\ system = Touched(k.start, k.size) \cup Touched(a, BitmapSize(n))
            /\ owned = [c \in Client |-> {}]

-----------------------------------------------------------------------------
(* The calls.                                                              *)

Page == 0 .. total - 1

\* n pages from s on are free.
FreeRun(s, n) == s + n <= total /\ s .. s + n - 1 \cap used = {}

\* Mutant of FirstRun: the count is not reset at a page in use.
FirstRunGaps(s, n) ==
    /\ s \notin used /\ s + n <= total
    /\ \A r \in Page : r < s => r \in used

\* The run the scan stops at.
FirstRun(s, n) == FreeRun(s, n) /\ \A r \in Page : r < s => ~FreeRun(r, n)

\* pmm_alloc_page (n = 1) and pmm_alloc_pages; a call that finds no run
\* changes nothing.  The run is marked; at page 0 the answer says "failed", and
\* the run is lost.
Alloc(c, n) ==
    \E s \in Page :
        /\ FirstRun(s, n)
        /\ used' = used \cup (s .. s + n - 1)
        /\ owned' = [owned EXCEPT ![c] = IF s = 0 THEN @ ELSE @ \cup (s .. s + n - 1)]
        /\ UNCHANGED <<total, system, bitmapAt>>

\* The guards of pmm_free_page and pmm_free_pages.
Accepts(s, n) == s # 0 /\ s + n <= total

\* Mutant of Free: one page more is cleared.
FreeMore(c, s, n) ==
    /\ s .. s + n - 1 \subseteq owned[c]
    /\ used' = IF Accepts(s, n) THEN used \ (s .. s + n) ELSE used
    /\ owned' = [owned EXCEPT ![c] = @ \ (s .. s + n - 1)]
    /\ UNCHANGED <<total, system, bitmapAt>>

\* pmm_free_page (n = 1) and pmm_free_pages, by a client that holds the pages.
Free(c, s, n) ==
    /\ s .. s + n - 1 \subseteq owned[c]
    /\ used' = IF Accepts(s, n) THEN used \ (s .. s + n - 1) ELSE used
    /\ owned' = [owned EXCEPT ![c] = @ \ (s .. s + n - 1)]
    /\ UNCHANGED <<total, system, bitmapAt>>

Next == \E c \in Client, n \in 1 .. MaxRun :
            Alloc(c, n) \/ \E s \in Page : Free(c, s, n)

Spec == Init /\ [][Next]_vars

-----------------------------------------------------------------------------
(* Properties.                                                             *)

\* Every variable keeps its type: no call marks or hands out a page beyond the
\* end of memory, pmm_total_pages.
TypeOK ==
    /\ total \in Nat /\ bitmapAt \in Nat
    /\ used \in SUBSET Page
    /\ owned \in [Client -> SUBSET Page]

\* A page handed out by pmm_alloc_page(s) is marked in the bitmap as long as
\* its client holds it, so that no call can hand it out again: two clients
\* never hold one page.
Exclusive ==
    /\ \A c \in Client : owned[c] \subseteq used
    /\ \A c, d \in Client : c # d => owned[c] \cap owned[d] = {}

\* No client holds a page of the kernel image or of the bitmap, whatever the
\* memory map and wherever pmm_init has put the bitmap ("Força a proteção
\* estrita das páginas do próprio bitmap", pmm.c).
SystemReserved ==
    /\ system \cap Page \subseteq used
    /\ \A c \in Client : owned[c] \cap system = {}

\* The manager implements the allocator its clients rely on.
Abstract == INSTANCE FrameAllocator WITH Page <- Nat
Implements == Abstract!Spec
=============================================================================
