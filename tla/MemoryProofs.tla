---------------------------- MODULE MemoryProofs ----------------------------
(***************************************************************************)
(* Proofs about the kernel's memory: the physical pages (Pmm), for every   *)
(* memory map, page size and set of clients, and the windows of virtual    *)
(* memory (Vmm), for any number of cores, pages and frames: regions never  *)
(* overlap, and a page somebody holds has a frame of its own unless        *)
(* shm_free returned that frame a second time under somebody else.         *)
(***************************************************************************)
EXTENDS Pmm, Vmm, TLAPS

-----------------------------------------------------------------------------
(* Physical pages.                                                         *)

\* The image takes whole pages.
WholePages ==
    \A k \in Kernels : k.start % PageSize = 0 /\ k.size % PageSize = 0

-----------------------------------------------------------------------------
(* Arithmetic.                                                             *)

\* Multiplication by the page size keeps the order.
LEMMA Monotone ==
    ASSUME NEW a \in Int, NEW b \in Int, NEW s \in Nat \ {0}, a <= b
    PROVE  a * s <= b * s
OBVIOUS

\* A quotient rounded down.
LEMMA FloorBounds ==
    ASSUME NEW a \in Nat, NEW s \in Nat \ {0}
    PROVE  /\ a \div s \in Nat
           /\ (a \div s) * s <= a
           /\ a < (a \div s) * s + s
OBVIOUS

\* A multiple of the page size divides exactly.
LEMMA ExactDivision ==
    ASSUME NEW a \in Nat, NEW s \in Nat \ {0}, a % s = 0
    PROVE  (a \div s) * s = a
OBVIOUS

LEMMA MultipleMod ==
    ASSUME NEW a \in Nat, NEW s \in Nat \ {0}
    PROVE  a * s \in Nat /\ (a * s) % s = 0
<1>1. a * s \in Nat
  OBVIOUS
<1> DEFINE d == (a * s) \div s
<1>2. d \in Nat /\ d * s <= a * s /\ a * s < d * s + s
  BY <1>1, FloorBounds
<1>3. (a * s) % s = a * s - d * s
  BY <1>1
<1> HIDE DEF d
<1>4. d <= a
  <2>1. CASE a + 1 <= d
    <3>1. (a + 1) * s <= d * s
      BY <2>1, <1>2, Monotone, a + 1 \in Int
    <3> QED BY <3>1, <1>2
  <2> QED BY <2>1, <1>2
<1>5. a <= d
  <2>1. CASE d + 1 <= a
    <3>1. (d + 1) * s <= a * s
      BY <2>1, <1>2, Monotone, d + 1 \in Int
    <3> QED BY <3>1, <1>2
  <2> QED BY <2>1, <1>2
<1> QED BY <1>1, <1>2, <1>3, <1>4, <1>5

\* The bytes of a range that starts on a page boundary are on the pages that
\* rounding its size up gives.
LEMMA TouchedPages ==
    ASSUME NEW a \in Nat, NEW size \in Nat, a % PageSize = 0
    PROVE  Touched(a, size) \subseteq PagesAt(a, size)
<1> DEFINE q == a \div PageSize
           c == (size + PageSize - 1) \div PageSize
<1> USE PageSizeAssumption
<1>1. q \in Nat /\ q * PageSize = a
  BY ExactDivision, FloorBounds
<1>2. c \in Nat /\ size + PageSize - 1 < c * PageSize + PageSize
  BY FloorBounds, size + PageSize - 1 \in Nat
<1>3. SUFFICES ASSUME NEW p \in Nat, p * PageSize < a + size, a < (p + 1) * PageSize
               PROVE  q <= p /\ p <= q + c - 1
  BY <1>1, <1>2, FloorBounds, a + size \in Nat DEF Touched, PagesAt, CeilDiv
<1>4. q <= p
  <2>1. CASE p + 1 <= q
    <3>1. (p + 1) * PageSize <= q * PageSize
      BY <2>1, <1>1, Monotone, p + 1 \in Int
    <3> QED BY <3>1, <1>1, <1>3
  <2> QED BY <2>1, <1>1
<1>5. p <= q + c - 1
  <2>1. CASE q + c <= p
    <3>1. (q + c) * PageSize <= p * PageSize
      BY <2>1, <1>1, <1>2, Monotone, q + c \in Int
    <3>2. (q + c) * PageSize = q * PageSize + c * PageSize
      BY <1>1, <1>2
    <3>3. c * PageSize >= size
      BY <1>2
    <3> HIDE DEF q, c
    <3> QED BY <3>1, <3>2, <3>3, <1>1, <1>2, <1>3
  <2> QED BY <2>1, <1>1, <1>2
<1> QED BY <1>4, <1>5

LEMMA ElementType ==
    ASSUME NEW T, NEW m \in Seq(T), NEW i \in 1 .. Len(m)
    PROVE  m[i] \in T
OBVIOUS

-----------------------------------------------------------------------------
(* pmm_init.                                                               *)

\* The region the bitmap goes to gives it an address, a multiple of the page
\* size if the image takes whole pages.
LEMMA PlaceType ==
    ASSUME NEW m \in MemoryMaps, NEW k \in Kernels, NEW i \in 1 .. Len(m), NEW size \in Nat,
           PlaceIn(m[i], k, size) # -1
    PROVE  /\ PlaceIn(m[i], k, size) \in Nat
           /\ WholePages => PlaceIn(m[i], k, size) % PageSize = 0
<1> USE PageSizeAssumption
<1>1. m[i] \in [start : Nat, pages : Nat, free : BOOLEAN]
  <2>1. m \in Seq([start : Nat, pages : Nat, free : BOOLEAN])
    BY MapAssumption
  <2> QED BY <2>1, ElementType
<1>2. k \in [start : Nat, size : Nat]
  BY KernelAssumption
<1> DEFINE start == m[i].start * PageSize
<1>3. start \in Nat /\ start % PageSize = 0
  BY <1>1, MultipleMod
<1>4. PlaceIn(m[i], k, size) \in {start, k.start + k.size}
  BY DEF PlaceIn
<1>5. WholePages => (k.start + k.size) % PageSize = 0
  <2> SUFFICES ASSUME WholePages PROVE (k.start + k.size) % PageSize = 0
    OBVIOUS
  <2> DEFINE q == k.start \div PageSize
             r == k.size \div PageSize
  <2>1. q \in Nat /\ q * PageSize = k.start
    BY <1>2, ExactDivision, FloorBounds DEF WholePages
  <2>2. r \in Nat /\ r * PageSize = k.size
    BY <1>2, ExactDivision, FloorBounds DEF WholePages
  <2> HIDE DEF q, r
  <2>3. k.start + k.size = (q + r) * PageSize
    BY <2>1, <2>2
  <2> QED BY <2>1, <2>2, <2>3, MultipleMod, q + r \in Nat
<1> HIDE DEF start
<1> QED BY <1>2, <1>3, <1>4, <1>5

\* What pmm_init leaves behind.
LEMMA InitFacts ==
    ASSUME Init
    PROVE  /\ total \in Nat /\ bitmapAt \in Nat
           /\ used \subseteq Page
           /\ owned = [c \in Client |-> {}]
           /\ system \subseteq Nat
           /\ WholePages => system \cap Page \subseteq used
<1>1. PICK m \in MemoryMaps, k \in Kernels :
        \E n \in Ends(m) : \E a \in {PlaceIn(m[i], k, BitmapSize(n)) : i \in 1 .. Len(m)} :
            /\ Place(a, m, k, BitmapSize(n))
            /\ total = n
            /\ bitmapAt = a
            /\ used = {p \in 0 .. n - 1 : \/ p \notin FreeIn(m)
                                         \/ p \in PagesAt(k.start, k.size)
                                         \/ p \in PagesAt(a, BitmapSize(n))}
            /\ system = Touched(k.start, k.size) \cup Touched(a, BitmapSize(n))
            /\ owned = [c \in Client |-> {}]
  BY DEF Init
<1>2. PICK n \in Ends(m) : \E a \in {PlaceIn(m[i], k, BitmapSize(n)) : i \in 1 .. Len(m)} :
            /\ Place(a, m, k, BitmapSize(n))
            /\ total = n
            /\ bitmapAt = a
            /\ used = {p \in 0 .. n - 1 : \/ p \notin FreeIn(m)
                                         \/ p \in PagesAt(k.start, k.size)
                                         \/ p \in PagesAt(a, BitmapSize(n))}
            /\ system = Touched(k.start, k.size) \cup Touched(a, BitmapSize(n))
            /\ owned = [c \in Client |-> {}]
  BY <1>1
<1>3. n \in Nat
  <2>1. m \in Seq([start : Nat, pages : Nat, free : BOOLEAN])
    BY MapAssumption
  <2>2. PICK i \in 1 .. Len(m) : n = m[i].start + m[i].pages
    BY DEF Ends, RegionEnd
  <2>3. m[i] \in [start : Nat, pages : Nat, free : BOOLEAN]
    BY <2>1, ElementType
  <2> QED BY <2>2, <2>3
<1>4. BitmapSize(n) \in Nat
  BY <1>3, FloorBounds, 8 \in Nat \ {0}, n + 8 - 1 \in Nat DEF BitmapSize, CeilDiv
<1>5. PICK a : /\ Place(a, m, k, BitmapSize(n))
               /\ total = n
               /\ bitmapAt = a
               /\ used = {p \in 0 .. n - 1 : \/ p \notin FreeIn(m)
                                            \/ p \in PagesAt(k.start, k.size)
                                            \/ p \in PagesAt(a, BitmapSize(n))}
               /\ system = Touched(k.start, k.size) \cup Touched(a, BitmapSize(n))
               /\ owned = [c \in Client |-> {}]
  BY <1>2
<1>6. a \in Nat /\ (WholePages => a % PageSize = 0)
  BY <1>5, <1>4, PlaceType DEF Place
<1>7. k.start \in Nat /\ k.size \in Nat
  BY KernelAssumption
<1>8. system \subseteq Nat
  BY <1>5 DEF Touched
<1>9. WholePages => system \subseteq PagesAt(k.start, k.size) \cup PagesAt(a, BitmapSize(n))
  <2> SUFFICES ASSUME WholePages
               PROVE  system \subseteq PagesAt(k.start, k.size) \cup PagesAt(a, BitmapSize(n))
    OBVIOUS
  <2>1. Touched(k.start, k.size) \subseteq PagesAt(k.start, k.size)
    BY <1>7, TouchedPages DEF WholePages
  <2>2. Touched(a, BitmapSize(n)) \subseteq PagesAt(a, BitmapSize(n))
    BY <1>6, <1>4, TouchedPages
  <2> QED BY <2>1, <2>2, <1>5
<1>10. WholePages => system \cap Page \subseteq used
  BY <1>5, <1>9 DEF Page
<1> QED BY <1>3, <1>5, <1>6, <1>8, <1>10 DEF Page

-----------------------------------------------------------------------------
(* The calls.                                                              *)

\* The pages of a run the scan finds are free, and those of a run a client
\* gives back are its own.
LEMMA RunPages ==
    ASSUME TypeOK, NEW n \in 1 .. MaxRun, NEW s \in Page, FirstRun(s, n)
    PROVE  s .. s + n - 1 \subseteq Page \ used
BY MaxRunAssumption DEF TypeOK, FirstRun, FreeRun, Page

Inv == TypeOK /\ Exclusive /\ (WholePages => SystemReserved)

LEMMA InitInv == Init => Inv
BY InitFacts DEF Inv, TypeOK, Exclusive, SystemReserved

LEMMA NextInv == Inv /\ [Next]_vars => Inv'
<1> SUFFICES ASSUME Inv, [Next]_vars PROVE Inv'
  OBVIOUS
<1> USE MaxRunAssumption
<1>1. ASSUME NEW c \in Client, NEW n \in 1 .. MaxRun, Alloc(c, n)
      PROVE  Inv'
  <2>1. PICK s \in Page :
          /\ FirstRun(s, n)
          /\ used' = used \cup (s .. s + n - 1)
          /\ owned' = [owned EXCEPT ![c] = IF s = 0 THEN @ ELSE @ \cup (s .. s + n - 1)]
          /\ UNCHANGED <<total, system, bitmapAt>>
    BY <1>1 DEF Alloc
  <2> DEFINE run == s .. s + n - 1
  <2>2. run \subseteq Page \ used
    BY <2>1, RunPages DEF Inv
  <2>3. Page' = Page
    BY <2>1 DEF Page
  <2> HIDE DEF run
  <2>4. /\ owned' \in [Client -> SUBSET Page]
        /\ \A d \in Client : owned'[d] \subseteq owned[d] \cup run
        /\ \A d \in Client : d # c => owned'[d] = owned[d]
    BY <2>1, <2>2 DEF Inv, TypeOK, run
  <2>5. used' = used \cup run
    BY <2>1 DEF run
  <2>6. TypeOK'
    BY <2>1, <2>2, <2>3, <2>4, <2>5 DEF Inv, TypeOK
  <2>7. Exclusive'
    BY <2>2, <2>4, <2>5 DEF Inv, Exclusive
  <2>8. WholePages => SystemReserved'
    BY <2>1, <2>2, <2>3, <2>4, <2>5 DEF Inv, SystemReserved
  <2> QED BY <2>6, <2>7, <2>8 DEF Inv
<1>2. ASSUME NEW c \in Client, NEW n \in 1 .. MaxRun, NEW s \in Page, Free(c, s, n)
      PROVE  Inv'
  <2> DEFINE run == s .. s + n - 1
  <2>1. run \subseteq owned[c]
    BY <1>2 DEF Free
  <2>2. Page' = Page
    BY <1>2 DEF Free, Page
  <2>3. /\ owned' = [owned EXCEPT ![c] = @ \ run]
        /\ used' \subseteq used /\ used \ run \subseteq used'
        /\ UNCHANGED <<total, system, bitmapAt>>
    BY <1>2 DEF Free
  <2> HIDE DEF run
  <2>4. /\ owned' \in [Client -> SUBSET Page]
        /\ owned'[c] = owned[c] \ run
        /\ \A d \in Client : d # c => owned'[d] = owned[d]
    BY <2>3 DEF Inv, TypeOK
  <2>5. TypeOK'
    BY <2>2, <2>3, <2>4 DEF Inv, TypeOK
  <2>6. Exclusive'
    BY <2>1, <2>3, <2>4 DEF Inv, Exclusive
  <2>7. WholePages => SystemReserved'
    BY <2>1, <2>2, <2>3, <2>4 DEF Inv, SystemReserved
  <2> QED BY <2>5, <2>6, <2>7 DEF Inv
<1>3. ASSUME UNCHANGED vars PROVE Inv'
  BY <1>3 DEF Inv, vars, TypeOK, Exclusive, SystemReserved, Page
<1> QED BY <1>1, <1>2, <1>3 DEF Next

LEMMA InvHolds == Spec => []Inv
BY InitInv, NextInv, PTL DEF Spec

-----------------------------------------------------------------------------
(* Theorems.                                                               *)

\* The page numbers and the bitmap of pmm.c stay in range.
THEOREM TypeCorrect == Spec => []TypeOK
<1>1. Inv => TypeOK
  BY DEF Inv
<1> QED BY <1>1, InvHolds, PTL

\* pmm_alloc_page and pmm_alloc_pages never hand out a page somebody holds,
\* for any memory map, image, number of clients and run length.
THEOREM PagesAreExclusive == Spec => []Exclusive
<1>1. Inv => Exclusive
  BY DEF Inv
<1> QED BY <1>1, InvHolds, PTL

\* If the image takes whole pages, what pmm_init reserves covers the image and
\* the bitmap, and no call ever hands a page of them out.
THEOREM SystemPagesStayReserved ==
    ASSUME WholePages
    PROVE  Spec => []SystemReserved
<1>1. Inv => SystemReserved
  BY WholePages DEF Inv
<1> QED BY <1>1, InvHolds, PTL

\* If the image takes whole pages, the manager implements the allocator its
\* clients rely on: each call acquires free frames for one client, releases
\* frames of one client or leaves all holdings alone.
THEOREM ImplementsAllocator ==
    ASSUME WholePages
    PROVE  Spec => Implements
<1>1. Init => Abstract!Init
  BY InitFacts DEF Abstract!Init
<1>2. Inv /\ [Next]_vars => [Abstract!Next]_<<owned, system>>
  <2> SUFFICES ASSUME Inv, [Next]_vars PROVE [Abstract!Next]_<<owned, system>>
    OBVIOUS
  <2> USE MaxRunAssumption
  <2>1. ASSUME NEW c \in Client, NEW n \in 1 .. MaxRun, Alloc(c, n)
        PROVE  Abstract!Next
    <3>1. PICK s \in Page :
            /\ FirstRun(s, n)
            /\ owned' = [owned EXCEPT ![c] = IF s = 0 THEN @ ELSE @ \cup (s .. s + n - 1)]
            /\ UNCHANGED <<total, system, bitmapAt>>
      BY <2>1 DEF Alloc
    <3> DEFINE run == s .. s + n - 1
    <3>2. run \subseteq Page \ used
      BY <3>1, RunPages DEF Inv
    <3> HIDE DEF run
    <3>3. owned[c] \subseteq owned'[c] /\ owned'[c] \subseteq owned[c] \cup run
      BY <3>1 DEF Inv, TypeOK, run
    <3>4. Abstract!Acquire(c)
      BY <3>2, <3>3, WholePages DEF Inv, Exclusive, SystemReserved, Abstract!Acquire
    <3>5. owned' = [owned EXCEPT ![c] = owned'[c]]
      BY <3>1 DEF Inv, TypeOK
    <3> QED BY <3>1, <3>4, <3>5 DEF Abstract!Next
  <2>2. ASSUME NEW c \in Client, NEW n \in 1 .. MaxRun, NEW s \in Page, Free(c, s, n)
        PROVE  Abstract!Next
    <3>1. /\ owned' = [owned EXCEPT ![c] = @ \ (s .. s + n - 1)]
          /\ UNCHANGED system
      BY <2>2 DEF Free
    <3>2. Abstract!Release(c)
      BY <3>1 DEF Inv, TypeOK, Abstract!Release
    <3>3. owned' = [owned EXCEPT ![c] = owned'[c]]
      BY <3>1 DEF Inv, TypeOK
    <3> QED BY <3>1, <3>2, <3>3 DEF Abstract!Next
  <2>3. ASSUME UNCHANGED vars PROVE UNCHANGED <<owned, system>>
    BY <2>3 DEF vars
  <2> QED BY <2>1, <2>2, <2>3 DEF Next
<1> QED BY <1>1, <1>2, InvHolds, PTL DEF Spec, Implements, Abstract!Spec

-----------------------------------------------------------------------------
(* Windows of virtual memory.                                              *)

\* The pages a running free has still to unmap; their frames are not returned yet.
Pending(j) ==
    {v \in PagesOf(j.r) : (j.step = "frame" /\ v >= j.page) \/ (j.step \in {"pte", "again"} /\ v > j.page)}

\* A page whose frame belongs to a region, held or being freed.
Live(w, v) ==
    \/ \E r \in held[w] : v \in PagesOf(r)
    \/ \E c \in CPU : job[c] # NULL /\ job[c].w = w /\ v \in Pending(job[c])

\* A core that frees a region has the lock of its window; the region is marked
\* until the end, and apart from all that are held.
FreesApart ==
    \A c \in CPU : job[c] # NULL =>
        /\ lock[job[c].w] = c
        /\ job[c].page \in PagesOf(job[c].r)
        /\ PagesOf(job[c].r) \subseteq bits[job[c].w]
        /\ \A r \in held[job[c].w] : PagesOf(r) \cap PagesOf(job[c].r) = {}

\* Every held region is marked, and apart from the others.
HeldApart ==
    \A w \in Window :
        /\ \A r \in held[w] : PagesOf(r) \subseteq bits[w]
        /\ \A r, q \in held[w] : r # q => PagesOf(r) \cap PagesOf(q) = {}

\* The frame of a live page is marked, and belongs to no other page or user,
\* unless it was robbed.
FramesOwned ==
    /\ others \ robbed \subseteq taken
    /\ \A w \in Window, v \in VPage : Live(w, v) /\ pte[w][v] \notin robbed =>
          /\ pte[w][v] \in taken /\ pte[w][v] \notin others
          /\ \A x \in Window, u \in VPage :
                Live(x, u) /\ pte[x][u] = pte[w][v] => x = w /\ u = v

Apart == VmmTypeOK /\ HeldApart /\ FreesApart

-----------------------------------------------------------------------------

LEMMA ApartImpliesRegionsApart == Apart => RegionsApart
<1> SUFFICES ASSUME Apart PROVE RegionsApart
  OBVIOUS
<1>1. ASSUME NEW w \in Window PROVE HeldPages(w) \subseteq bits[w]
  BY DEF Apart, HeldApart, HeldPages
<1>2. ASSUME NEW w \in Window PROVE bits[w] \subseteq VPage
  BY DEF Apart, VmmTypeOK
<1> QED BY <1>1, <1>2 DEF RegionsApart, Apart, HeldApart

LEMMA RegionPages ==
    ASSUME NEW r \in Region PROVE PagesOf(r) \subseteq Nat /\ r.start \in PagesOf(r)
BY SizeAssumption DEF Region, PagesOf, VPage

LEMMA InitApart == VmmInit => Apart
BY SizeAssumption, NullAssumption DEF VmmInit, Apart, VmmTypeOK, HeldApart, FreesApart, VPage, Frame

LEMMA AllocApart ==
    ASSUME Apart, NEW c \in CPU, NEW w \in Window, NEW n \in 1 .. MaxRegion, AllocRegion(c, w, n)
    PROVE  Apart'
<1> USE SizeAssumption, NullAssumption
<1> PICK s \in VPage, f \in Frame :
      /\ FindRegion(w, s, n) /\ FirstFrames(f, n)
      /\ taken' = taken \cup (f .. f + n - 1)
      /\ bits' = [bits EXCEPT ![w] = @ \cup (s .. s + n - 1)]
      /\ pte' = [pte EXCEPT ![w] =
                    [v \in VPage |-> IF v \in s .. s + n - 1 THEN f + v - s ELSE @[v]]]
      /\ held' = [held EXCEPT ![w] = @ \cup {[start |-> s, n |-> n]}]
  BY DEF AllocRegion
<1> DEFINE new == [start |-> s, n |-> n]
<1>0. job' = job /\ lock' = lock /\ others' = others /\ robbed' = robbed
  BY DEF AllocRegion
<1>1. s + n - 1 < WinPages /\ s .. s + n - 1 \cap bits[w] = {} /\ f + n - 1 <= Frames
  BY DEF FindRegion, FirstFrames
<1>2. new \in Region /\ PagesOf(new) = s .. s + n - 1 /\ PagesOf(new) \subseteq VPage
  BY <1>1 DEF Region, PagesOf, VPage
<1>3. VmmTypeOK'
  BY <1>0, <1>1, <1>2 DEF Apart, VmmTypeOK, Frame, VPage
<1>4. HeldApart'
  BY <1>1, <1>2 DEF Apart, VmmTypeOK, HeldApart
<1>5. FreesApart'
  <2> SUFFICES ASSUME NEW d \in CPU, job[d] # NULL
               PROVE  /\ lock[job[d].w] = d
                      /\ job[d].page \in PagesOf(job[d].r)
                      /\ PagesOf(job[d].r) \subseteq bits'[job[d].w]
                      /\ \A q \in held'[job[d].w] : PagesOf(q) \cap PagesOf(job[d].r) = {}
    BY <1>0 DEF FreesApart
  <2>1. job[d].w \in Window
    BY DEF Apart, VmmTypeOK, Job
  <2>2. PagesOf(job[d].r) \subseteq bits[job[d].w]
    BY DEF Apart, FreesApart
  <2>3. PagesOf(job[d].r) \subseteq bits'[job[d].w]
    BY <2>1, <2>2 DEF Apart, VmmTypeOK
  <2>4. ASSUME NEW q \in held'[job[d].w] PROVE PagesOf(q) \cap PagesOf(job[d].r) = {}
    <3>1. q \in held[job[d].w] \/ (q = new /\ job[d].w = w)
      BY <2>1 DEF Apart, VmmTypeOK
    <3> QED BY <3>1, <2>2, <1>1, <1>2 DEF Apart, FreesApart
  <2> QED BY <2>3, <2>4 DEF Apart, FreesApart
<1> QED BY <1>3, <1>4, <1>5 DEF Apart

LEMMA FreeBeginApart ==
    ASSUME Apart, NEW c \in CPU, NEW w \in Window, NEW r \in held[w], FreeBegin(c, w, r)
    PROVE  Apart'
<1> USE SizeAssumption, NullAssumption
<1>1. r \in Region /\ r.start \in PagesOf(r) /\ r.start \in VPage
  BY RegionPages DEF Apart, VmmTypeOK, Region
<1>2. VmmTypeOK'
  BY <1>1 DEF Apart, VmmTypeOK, FreeBegin, Job, Frame
<1>3. HeldApart'
  BY DEF Apart, VmmTypeOK, HeldApart, FreeBegin
<1>4. FreesApart'
  BY <1>1 DEF Apart, VmmTypeOK, HeldApart, FreesApart, FreeBegin, Job
<1> QED BY <1>2, <1>3, <1>4 DEF Apart

LEMMA FreeFrameApart ==
    ASSUME Apart, NEW c \in CPU, FreeFrame(c)
    PROVE  Apart'
<1> USE SizeAssumption, NullAssumption
<1>1. job[c] \in Job
  BY DEF Apart, VmmTypeOK, FreeFrame
<1>2. job' = [job EXCEPT ![c] = [job[c] EXCEPT !.step = "pte", !.pa = pte[job[c].w][job[c].page]]]
  BY DEF FreeFrame, Apart, VmmTypeOK
<1>3. VmmTypeOK'
  BY <1>1, <1>2 DEF Apart, VmmTypeOK, FreeFrame, Job, Frame
<1>4. HeldApart'
  BY DEF Apart, HeldApart, FreeFrame
<1>5. FreesApart'
  BY <1>1, <1>2 DEF Apart, VmmTypeOK, FreesApart, FreeFrame, Job
<1> QED BY <1>3, <1>4, <1>5 DEF Apart

LEMMA AdvanceFacts ==
    ASSUME NEW j \in Job, j.page \in PagesOf(j.r), PagesOf(j.r) \subseteq VPage
    PROVE  /\ Advance(j) \in Job /\ Advance(j).w = j.w /\ Advance(j).r = j.r
           /\ Advance(j).page \in PagesOf(j.r)
           /\ Pending(Advance(j)) = {v \in PagesOf(j.r) : v > j.page}
<1>1. PagesOf(j.r) \subseteq Nat /\ j.r.start \in Nat /\ j.r.n \in Nat
  BY RegionPages, SizeAssumption DEF Job, Region, VPage
<1>2. CASE j.page + 1 \in PagesOf(j.r)
  <2>1. Advance(j) = [j EXCEPT !.page = @ + 1, !.pa = 0, !.step = "frame"]
    BY <1>2 DEF Advance
  <2>5. Advance(j) = [w |-> j.w, r |-> j.r, page |-> j.page + 1, pa |-> 0, step |-> "frame"]
    BY <2>1 DEF Job
  <2>6. j.w \in Window /\ j.r \in Region /\ j.page + 1 \in VPage /\ 0 \in 0 .. Frames
    BY <1>2, SizeAssumption DEF Job
  <2>2. Advance(j) \in Job /\ Advance(j).w = j.w /\ Advance(j).r = j.r
    BY <2>5, <2>6 DEF Job
  <2>3. Advance(j).page = j.page + 1 /\ Advance(j).step = "frame"
    BY <2>1 DEF Job
  <2>4. \A v \in PagesOf(j.r) : v >= j.page + 1 <=> v > j.page
    BY <1>1
  <2> QED BY <1>2, <2>2, <2>3, <2>4 DEF Pending
<1>3. CASE j.page + 1 \notin PagesOf(j.r)
  <2>1. Advance(j) = [j EXCEPT !.pa = 0, !.step = "end"]
    BY <1>3 DEF Advance
  <2>2. {v \in PagesOf(j.r) : v > j.page} = {}
    BY <1>1, <1>3 DEF PagesOf
  <2>5. Advance(j) = [w |-> j.w, r |-> j.r, page |-> j.page, pa |-> 0, step |-> "end"]
    BY <2>1 DEF Job
  <2>6. j.w \in Window /\ j.r \in Region /\ j.page \in VPage /\ 0 \in 0 .. Frames
    BY SizeAssumption DEF Job
  <2>3. Advance(j) \in Job /\ Advance(j).w = j.w /\ Advance(j).r = j.r
    BY <2>5, <2>6 DEF Job
  <2>4. Advance(j).page = j.page /\ Advance(j).step = "end"
    BY <2>1 DEF Job
  <2> QED BY <2>2, <2>3, <2>4 DEF Pending
<1> QED BY <1>2, <1>3

\* A free that goes on, to its next step or to its next page.
LEMMA StepApart ==
    ASSUME Apart, NEW c \in CPU, job[c] # NULL, NEW k \in Job,
           k.w = job[c].w, k.r = job[c].r, k.page \in PagesOf(job[c].r),
           job' = [job EXCEPT ![c] = k],
           taken' \in SUBSET Frame, robbed' \in SUBSET Frame,
           pte' \in [Window -> [VPage -> 0 .. Frames]],
           UNCHANGED <<bits, lock, held, others>>
    PROVE  Apart'
<1> USE SizeAssumption, NullAssumption
<1>1. VmmTypeOK'
  <2>1. job' \in [CPU -> Job \cup {NULL}]
    BY DEF Apart, VmmTypeOK
  <2> QED BY <2>1 DEF Apart, VmmTypeOK
<1>2. HeldApart'
  BY DEF Apart, HeldApart
<1>3. FreesApart'
  <2> SUFFICES ASSUME NEW d \in CPU, job'[d] # NULL
               PROVE  /\ lock[job'[d].w] = d
                      /\ job'[d].page \in PagesOf(job'[d].r)
                      /\ PagesOf(job'[d].r) \subseteq bits[job'[d].w]
                      /\ \A r \in held[job'[d].w] : PagesOf(r) \cap PagesOf(job'[d].r) = {}
    BY DEF FreesApart
  <2>1. job[d] # NULL /\ job'[d].w = job[d].w /\ job'[d].r = job[d].r
    BY DEF Apart, VmmTypeOK
  <2>2. job'[d].page \in PagesOf(job'[d].r)
    BY <2>1 DEF Apart, VmmTypeOK, FreesApart
  <2> QED BY <2>1, <2>2 DEF Apart, FreesApart
<1> QED BY <1>1, <1>2, <1>3 DEF Apart

\* What a job is while it is at a page.
LEMMA JobFacts ==
    ASSUME Apart, NEW c \in CPU, job[c] # NULL
    PROVE  /\ job[c] \in Job /\ job[c].page \in PagesOf(job[c].r) /\ PagesOf(job[c].r) \subseteq VPage
           /\ job[c].w \in Window /\ job[c].page \in VPage
BY DEF Apart, VmmTypeOK, FreesApart, Job

\* shm_free has its second return before it.
LEMMA AgainFacts ==
    ASSUME NEW j \in Job, j.page \in PagesOf(j.r)
    PROVE  LET k == [j EXCEPT !.step = "again"]
           IN  k \in Job /\ k.w = j.w /\ k.r = j.r /\ k.page = j.page /\ Pending(k) = {v \in PagesOf(j.r) : v > j.page}
BY DEF Job, Pending

LEMMA FreePteApart ==
    ASSUME Apart, NEW c \in CPU, FreePte(c)
    PROVE  Apart'
<1>1. /\ job[c] \in Job /\ job[c].page \in PagesOf(job[c].r) /\ PagesOf(job[c].r) \subseteq VPage
      /\ job[c] # NULL /\ job[c].w \in Window /\ job[c].page \in VPage
  BY JobFacts DEF FreePte
<1>2. PICK k \in Job : /\ k.w = job[c].w /\ k.r = job[c].r /\ k.page \in PagesOf(job[c].r)
                       /\ job' = [job EXCEPT ![c] = k]
  <2>1. CASE job[c].w = "shm"
    BY <1>1, <2>1, AgainFacts DEF FreePte
  <2>2. CASE job[c].w # "shm"
    BY <1>1, <2>2, AdvanceFacts DEF FreePte
  <2> QED BY <2>1, <2>2
<1>3. pte' \in [Window -> [VPage -> 0 .. Frames]]
  BY <1>1, SizeAssumption DEF FreePte, Apart, VmmTypeOK
<1>4. taken' \in SUBSET Frame /\ robbed' \in SUBSET Frame /\ UNCHANGED <<bits, lock, held, others>>
  BY DEF FreePte, Apart, VmmTypeOK
<1> QED BY <1>1, <1>2, <1>3, <1>4, StepApart

LEMMA FreeAgainApart ==
    ASSUME Apart, NEW c \in CPU, FreeAgain(c)
    PROVE  Apart'
<1>1. /\ job[c] \in Job /\ job[c].page \in PagesOf(job[c].r) /\ PagesOf(job[c].r) \subseteq VPage
      /\ job[c] # NULL
  BY JobFacts DEF FreeAgain
<1>2. PICK k \in Job : /\ k.w = job[c].w /\ k.r = job[c].r /\ k.page \in PagesOf(job[c].r)
                       /\ job' = [job EXCEPT ![c] = k]
  BY <1>1, AdvanceFacts DEF FreeAgain
<1>3. /\ taken' \in SUBSET Frame /\ robbed' \in SUBSET Frame
      /\ pte' \in [Window -> [VPage -> 0 .. Frames]] /\ UNCHANGED <<bits, lock, held, others>>
  BY DEF FreeAgain, Apart, VmmTypeOK
<1> QED BY <1>1, <1>2, <1>3, StepApart

LEMMA FreeEndApart ==
    ASSUME Apart, NEW c \in CPU, FreeEnd(c)
    PROVE  Apart'
<1> USE SizeAssumption, NullAssumption
<1>1. job[c] \in Job /\ job[c] # NULL
  BY DEF Apart, VmmTypeOK, FreeEnd
<1>2. VmmTypeOK'
  BY <1>1 DEF Apart, VmmTypeOK, FreeEnd, Job
<1>3. HeldApart'
  BY <1>1 DEF Apart, VmmTypeOK, HeldApart, FreesApart, FreeEnd, Job
<1>4. FreesApart'
  BY <1>1 DEF Apart, VmmTypeOK, FreesApart, FreeEnd, Job
<1> QED BY <1>2, <1>3, <1>4 DEF Apart

\* The other users of the frame allocator.
LEMMA OthersApart ==
    ASSUME Apart, NEW c \in CPU,
           \/ OtherAlloc(c)
           \/ \E f \in others : OtherFree(c, f)
    PROVE  Apart'
BY DEF Apart, VmmTypeOK, HeldApart, FreesApart, OtherAlloc, OtherFree, Frame

LEMMA NextApart == Apart /\ [VmmNext]_vmmVars => Apart'
<1> SUFFICES ASSUME Apart, [VmmNext]_vmmVars PROVE Apart'
  OBVIOUS
<1>1. CASE UNCHANGED vmmVars
  BY <1>1 DEF vmmVars, Apart, VmmTypeOK, HeldApart, FreesApart
<1>2. ASSUME NEW c \in CPU, NEW w \in Window, NEW n \in 1 .. MaxRegion, AllocRegion(c, w, n) PROVE Apart'
  BY <1>2, AllocApart
<1>3. ASSUME NEW c \in CPU, NEW w \in Window, NEW r \in held[w], FreeBegin(c, w, r) PROVE Apart'
  BY <1>3, FreeBeginApart
<1>4. ASSUME NEW c \in CPU, FreeFrame(c) \/ FreePte(c) \/ FreeAgain(c) \/ FreeEnd(c) PROVE Apart'
  BY <1>4, FreeFrameApart, FreePteApart, FreeAgainApart, FreeEndApart
<1> QED BY <1>1, <1>2, <1>3, <1>4, OthersApart DEF VmmNext

LEMMA AlwaysApart == VmmSpec => []Apart
BY InitApart, NextApart, PTL DEF VmmSpec

\* Regions handed out by pool_alloc and shm_alloc never overlap and stay
\* marked, on any number of cores and in windows of any size.
THEOREM RegionsStayApart == VmmSpec => []RegionsApart
BY AlwaysApart, ApartImpliesRegionsApart, PTL

-----------------------------------------------------------------------------
(* Frames.                                                                 *)

LEMMA LiveIsMarked ==
    ASSUME Apart, NEW w \in Window, NEW v, Live(w, v)
    PROVE  v \in bits[w] /\ v \in VPage
BY DEF Apart, VmmTypeOK, HeldApart, FreesApart, Live, Pending

LEMMA FramesOwnedSuffices ==
    ASSUME Apart, FramesOwned
    PROVE  FramesExclusive
<1> SUFFICES ASSUME NEW w \in Window, NEW v \in HeldPages(w), pte[w][v] \notin robbed
             PROVE  /\ pte[w][v] \in taken \ others
                    /\ \A x \in Window : \A u \in HeldPages(x) : pte[x][u] = pte[w][v] => x = w /\ u = v
  BY DEF FramesExclusive
<1>1. \A x \in Window : \A u \in HeldPages(x) : Live(x, u)
  BY DEF HeldPages, Live
<1>2. \A x \in Window : \A u \in HeldPages(x) : u \in VPage
  BY <1>1, LiveIsMarked
<1> QED BY <1>1, <1>2 DEF FramesOwned

\* A step that changes neither the frame of a live page nor, for the pages
\* that stay live, what is marked.
LEMMA FramesKept ==
    ASSUME FramesOwned, robbed \subseteq robbed', others' \ robbed' \subseteq taken',
           \A x \in Window, u \in VPage : Live(x, u)' =>
               /\ Live(x, u) /\ pte'[x][u] = pte[x][u]
               /\ pte[x][u] \notin robbed' => pte[x][u] \in taken' /\ pte[x][u] \notin others'
    PROVE  FramesOwned'
BY DEF FramesOwned

LEMMA AllocFrames ==
    ASSUME Apart, FramesOwned, NEW c \in CPU, NEW w \in Window, NEW n \in 1 .. MaxRegion, AllocRegion(c, w, n)
    PROVE  FramesOwned'
<1> USE SizeAssumption, NullAssumption
<1> PICK s \in VPage, f \in Frame :
      /\ FindRegion(w, s, n) /\ FirstFrames(f, n)
      /\ taken' = taken \cup (f .. f + n - 1)
      /\ pte' = [pte EXCEPT ![w] =
                    [v \in VPage |-> IF v \in s .. s + n - 1 THEN f + v - s ELSE @[v]]]
      /\ held' = [held EXCEPT ![w] = @ \cup {[start |-> s, n |-> n]}]
  BY DEF AllocRegion
<1> DEFINE New(x, u) == x = w /\ u \in s .. s + n - 1
<1>0. job' = job /\ others' = others /\ robbed' = robbed /\ s \in Int /\ f \in Int /\ n \in Int
  BY DEF AllocRegion, VPage, Frame
<1>1. s .. s + n - 1 \cap bits[w] = {} /\ f .. f + n - 1 \cap taken = {}
  BY DEF FindRegion, FirstFrames
<1>2. PagesOf([start |-> s, n |-> n]) = s .. s + n - 1
  BY DEF PagesOf
<1>3. ASSUME NEW x \in Window, NEW u \in VPage, Live(x, u)' PROVE Live(x, u) \/ New(x, u)
  BY <1>0, <1>2, <1>3 DEF Live, Apart, VmmTypeOK
<1>4. ASSUME NEW x \in Window, NEW u \in VPage, Live(x, u)
      PROVE  ~New(x, u) /\ pte'[x][u] = pte[x][u] /\ (pte[x][u] \notin robbed => pte[x][u] \in taken)
  <2>1. u \in bits[x]
    BY <1>4, LiveIsMarked
  <2> QED BY <2>1, <1>1, <1>4 DEF Apart, VmmTypeOK, FramesOwned
<1>5. ASSUME NEW x \in Window, NEW u \in VPage, New(x, u)
      PROVE  pte'[x][u] = f + u - s /\ pte'[x][u] \in f .. f + n - 1
  BY <1>0, <1>5 DEF Apart, VmmTypeOK, VPage
<1>6. others' \ robbed' \subseteq taken'
  BY <1>0 DEF FramesOwned
<1>7. ASSUME NEW x \in Window, NEW u \in VPage, Live(x, u)', pte'[x][u] \notin robbed
      PROVE  pte'[x][u] \in taken' /\ pte'[x][u] \notin others'
  BY <1>0, <1>1, <1>3, <1>4, <1>5, <1>7 DEF FramesOwned
<1>8. ASSUME NEW x \in Window, NEW u \in VPage, Live(x, u)', pte'[x][u] \notin robbed,
             NEW y \in Window, NEW v \in VPage, Live(y, v)', pte'[y][v] = pte'[x][u]
      PROVE  y = x /\ v = u
  <2>1. CASE Live(x, u) /\ Live(y, v)
    BY <1>4, <1>8, <2>1 DEF FramesOwned
  <2>2. CASE New(x, u) /\ New(y, v)
    <3>1. f + u - s = f + v - s /\ u \in Int /\ v \in Int
      BY <1>5, <1>8, <2>2 DEF VPage
    <3> QED BY <3>1, <2>2, <1>0
  <2>3. CASE New(x, u) /\ Live(y, v)
    BY <1>1, <1>4, <1>5, <1>8, <2>3
  <2>4. CASE Live(x, u) /\ New(y, v)
    BY <1>1, <1>4, <1>5, <1>8, <2>4
  <2> QED BY <1>3, <1>8, <2>1, <2>2, <2>3, <2>4
<1> QED BY <1>0, <1>6, <1>7, <1>8 DEF FramesOwned

LEMMA FreeBeginFrames ==
    ASSUME Apart, FramesOwned, NEW c \in CPU, NEW w \in Window, NEW r \in held[w], FreeBegin(c, w, r)
    PROVE  FramesOwned'
<1>1. ASSUME NEW x \in Window, NEW u \in VPage, Live(x, u)' PROVE Live(x, u)
  BY <1>1 DEF Live, Pending, FreeBegin, Apart, VmmTypeOK
<1> QED BY <1>1, FramesKept DEF FreeBegin, FramesOwned

\* Who is being freed: the page of one job is no page of another, nor held.
LEMMA OneFreeOfAPage ==
    ASSUME Apart, NEW c \in CPU, job[c] # NULL, NEW v \in PagesOf(job[c].r)
    PROVE  /\ \A r \in held[job[c].w] : v \notin PagesOf(r)
           /\ \A d \in CPU : job[d] # NULL /\ job[d].w = job[c].w => d = c
BY DEF Apart, FreesApart

LEMMA FreeFrameFrames ==
    ASSUME Apart, FramesOwned, NEW c \in CPU, FreeFrame(c)
    PROVE  FramesOwned'
<1> DEFINE w == job[c].w
           v == job[c].page
<1>0. job[c] \in Job /\ job[c] # NULL /\ job[c].step = "frame" /\ v \in PagesOf(job[c].r)
  BY DEF Apart, VmmTypeOK, FreesApart, FreeFrame
<1>1. w \in Window /\ v \in VPage /\ v \in Nat
  BY <1>0, SizeAssumption DEF Job, VPage
<1>2. Live(w, v)
  BY <1>0, <1>1 DEF Live, Pending
<1>3. job' = [job EXCEPT ![c] = [job[c] EXCEPT !.step = "pte", !.pa = pte[w][v]]]
  BY DEF FreeFrame, Apart, VmmTypeOK
<1>4. /\ job'[c].w = w /\ job'[c].r = job[c].r /\ job'[c].page = v /\ job'[c].step = "pte"
      /\ \A d \in CPU : d # c => job'[d] = job[d]
  BY <1>0, <1>3 DEF Apart, VmmTypeOK, Job
<1>5. Pending(job'[c]) \subseteq Pending(job[c]) \ {v}
  <2>1. PagesOf(job[c].r) \subseteq Nat
    BY <1>0, RegionPages DEF Job
  <2> QED BY <1>0, <1>1, <1>4, <2>1 DEF Pending
<1>6. ASSUME NEW x \in Window, NEW u \in VPage, Live(x, u)'
      PROVE  Live(x, u) /\ ~(x = w /\ u = v)
  <2>1. CASE \E r \in held[x] : u \in PagesOf(r)
    BY <1>0, <2>1, OneFreeOfAPage DEF Live
  <2>2. ASSUME NEW d \in CPU, job'[d] # NULL, job'[d].w = x, u \in Pending(job'[d])
        PROVE  Live(x, u) /\ ~(x = w /\ u = v)
    <3>1. CASE d = c
      BY <1>0, <1>4, <1>5, <2>2, <3>1 DEF Live
    <3>2. CASE d # c
      <4>1. job[d] # NULL /\ job[d].w = x /\ u \in Pending(job[d])
        BY <1>4, <2>2, <3>2
      <4>2. x # w
        BY <1>0, <3>2, <4>1, OneFreeOfAPage
      <4> QED BY <4>1, <4>2 DEF Live
    <3> QED BY <3>1, <3>2
  <2> QED BY <1>6, <2>1, <2>2 DEF Live, FreeFrame
<1>7. taken' = taken \ {pte[w][v]} /\ others' = others /\ pte' = pte /\ robbed' = robbed
  BY DEF FreeFrame
<1>8. pte[w][v] \notin robbed => pte[w][v] \notin others
  BY <1>1, <1>2 DEF FramesOwned
<1>9. ASSUME NEW x \in Window, NEW u \in VPage, Live(x, u)'
      PROVE  /\ Live(x, u) /\ pte'[x][u] = pte[x][u]
             /\ pte[x][u] \notin robbed => pte[x][u] \in taken' /\ pte[x][u] \notin others'
  BY <1>1, <1>2, <1>6, <1>7, <1>9 DEF FramesOwned
<1>10. others' \ robbed' \subseteq taken'
  BY <1>7, <1>8 DEF FramesOwned
<1> QED BY <1>7, <1>9, <1>10, FramesKept

\* A free goes on with fewer pages pending, not the one it is at.
LEMMA LiveOfStep ==
    ASSUME Apart, NEW c \in CPU, job[c] # NULL, NEW k \in Job, k.w = job[c].w,
           Pending(k) \subseteq Pending(job[c]) \ {job[c].page},
           job' = [job EXCEPT ![c] = k], held' = held,
           NEW x \in Window, NEW u \in VPage, Live(x, u)'
    PROVE  Live(x, u) /\ ~(x = job[c].w /\ u = job[c].page)
<1>0. job[c].page \in PagesOf(job[c].r)
  BY JobFacts
<1>1. job'[c] = k /\ \A d \in CPU : d # c => job'[d] = job[d]
  BY DEF Apart, VmmTypeOK
<1>2. CASE \E r \in held[x] : u \in PagesOf(r)
  BY <1>0, <1>2, OneFreeOfAPage DEF Live
<1>3. ASSUME NEW d \in CPU, job'[d] # NULL, job'[d].w = x, u \in Pending(job'[d])
      PROVE  Live(x, u) /\ ~(x = job[c].w /\ u = job[c].page)
  <2>1. CASE d = c
    BY <1>1, <1>3, <2>1 DEF Live
  <2>2. CASE d # c
    <3>1. job[d] # NULL /\ job[d].w = x /\ u \in Pending(job[d])
      BY <1>1, <1>3, <2>2
    <3>2. x # job[c].w
      BY <1>0, <2>2, <3>1, OneFreeOfAPage
    <3> QED BY <3>1, <3>2 DEF Live
  <2> QED BY <2>1, <2>2
<1> QED BY <1>2, <1>3 DEF Live

\* After a page, the next ones are pending.
LEMMA PendingAfter ==
    ASSUME Apart, NEW c \in CPU, job[c] # NULL, job[c].step \in {"pte", "again"}
    PROVE  /\ Pending(Advance(job[c])) = {u \in PagesOf(job[c].r) : u > job[c].page}
           /\ {u \in PagesOf(job[c].r) : u > job[c].page} \subseteq Pending(job[c]) \ {job[c].page}
<1>1. job[c] \in Job /\ job[c].page \in PagesOf(job[c].r) /\ PagesOf(job[c].r) \subseteq VPage
  BY JobFacts
<1>2. PagesOf(job[c].r) \subseteq Nat
  BY <1>1, RegionPages DEF Job
<1> QED BY <1>1, <1>2, AdvanceFacts DEF Pending

LEMMA FreePteFrames ==
    ASSUME Apart, FramesOwned, NEW c \in CPU, FreePte(c)
    PROVE  FramesOwned'
<1> DEFINE w == job[c].w
           v == job[c].page
<1>0. /\ job[c] \in Job /\ job[c] # NULL /\ job[c].step = "pte" /\ v \in PagesOf(job[c].r)
      /\ PagesOf(job[c].r) \subseteq VPage /\ w \in Window /\ v \in VPage
  BY JobFacts DEF FreePte
<1>1. pte' = [pte EXCEPT ![w][v] = 0] /\ UNCHANGED <<taken, others, held, robbed>>
  BY DEF FreePte
<1>2. PICK k \in Job : /\ k.w = w /\ Pending(k) \subseteq Pending(job[c]) \ {v}
                       /\ job' = [job EXCEPT ![c] = k]
  <2>1. CASE w = "shm"
    BY <1>0, <2>1, AgainFacts, PendingAfter DEF FreePte
  <2>2. CASE w # "shm"
    BY <1>0, <2>2, AdvanceFacts, PendingAfter DEF FreePte
  <2> QED BY <2>1, <2>2
<1>3. ASSUME NEW x \in Window, NEW u \in VPage, Live(x, u)'
      PROVE  Live(x, u) /\ pte'[x][u] = pte[x][u]
  <2>1. Live(x, u) /\ ~(x = w /\ u = v)
    BY <1>0, <1>1, <1>2, <1>3, LiveOfStep
  <2> QED BY <1>0, <1>1, <2>1 DEF Apart, VmmTypeOK
<1> QED BY <1>1, <1>3, FramesKept DEF FramesOwned

\* The second return robs whoever has the frame by now.
LEMMA FreeAgainFrames ==
    ASSUME Apart, FramesOwned, NEW c \in CPU, FreeAgain(c)
    PROVE  FramesOwned'
<1> DEFINE pa == job[c].pa
<1>0. /\ job[c] \in Job /\ job[c] # NULL /\ job[c].step = "again"
      /\ job[c].page \in PagesOf(job[c].r) /\ PagesOf(job[c].r) \subseteq VPage
  BY JobFacts DEF FreeAgain
<1>1. /\ taken' = taken \ {pa} /\ robbed' = robbed \cup (taken \cap {pa})
      /\ job' = [job EXCEPT ![c] = Advance(job[c])] /\ UNCHANGED <<pte, others, held>>
  BY DEF FreeAgain
<1>2. ASSUME NEW x \in Window, NEW u \in VPage, Live(x, u)' PROVE Live(x, u)
  <2>1. Advance(job[c]) \in Job /\ Advance(job[c]).w = job[c].w
    BY <1>0, AdvanceFacts
  <2>2. Pending(Advance(job[c])) \subseteq Pending(job[c]) \ {job[c].page}
    BY <1>0, PendingAfter
  <2> QED BY <1>0, <1>1, <1>2, <2>1, <2>2, LiveOfStep
<1>3. ASSUME NEW x \in Window, NEW u \in VPage, Live(x, u), pte[x][u] \notin robbed'
      PROVE  pte[x][u] \in taken' /\ pte[x][u] \notin others'
  BY <1>1, <1>3 DEF FramesOwned
<1>4. others' \ robbed' \subseteq taken'
  BY <1>1 DEF FramesOwned
<1> QED BY <1>1, <1>2, <1>3, <1>4, FramesKept

LEMMA FreeEndFrames ==
    ASSUME Apart, FramesOwned, NEW c \in CPU, FreeEnd(c)
    PROVE  FramesOwned'
<1>1. ASSUME NEW x \in Window, NEW u \in VPage, Live(x, u)' PROVE Live(x, u)
  BY <1>1 DEF Live, FreeEnd, Apart, VmmTypeOK
<1> QED BY <1>1, FramesKept DEF FreeEnd, FramesOwned

LEMMA OthersFrames ==
    ASSUME Apart, FramesOwned, NEW c \in CPU,
           \/ OtherAlloc(c)
           \/ \E f \in others : OtherFree(c, f)
    PROVE  FramesOwned'
<1>1. UNCHANGED <<held, job, pte, robbed>>
  BY DEF OtherAlloc, OtherFree
<1>2. \A x \in Window, u \in VPage : Live(x, u)' <=> Live(x, u)
  BY <1>1 DEF Live
<1>4. CASE OtherAlloc(c)
  <2> PICK f \in Frame : FirstFrames(f, 1) /\ taken' = taken \cup {f} /\ others' = others \cup {f}
    BY <1>4 DEF OtherAlloc
  <2>1. f \notin taken
    <3>1. f .. f + 1 - 1 \cap taken = {} /\ f \in Int
      BY DEF FirstFrames, Frame
    <3>2. f \in f .. f + 1 - 1
      BY <3>1
    <3> QED BY <3>1, <3>2
  <2> QED BY <1>1, <1>2, <2>1, FramesKept DEF FramesOwned
<1>5. CASE \E f \in others : OtherFree(c, f)
  BY <1>1, <1>2, <1>5, FramesKept DEF OtherFree, FramesOwned
<1> QED BY <1>4, <1>5

LEMMA NextFrames == Apart /\ FramesOwned /\ [VmmNext]_vmmVars => FramesOwned'
<1> SUFFICES ASSUME Apart, FramesOwned, [VmmNext]_vmmVars PROVE FramesOwned'
  OBVIOUS
<1>1. CASE UNCHANGED vmmVars
  BY <1>1 DEF vmmVars, FramesOwned, Live
<1>2. ASSUME NEW c \in CPU, NEW w \in Window, NEW n \in 1 .. MaxRegion, AllocRegion(c, w, n) PROVE FramesOwned'
  BY <1>2, AllocFrames
<1>3. ASSUME NEW c \in CPU, NEW w \in Window, NEW r \in held[w], FreeBegin(c, w, r) PROVE FramesOwned'
  BY <1>3, FreeBeginFrames
<1>4. ASSUME NEW c \in CPU, FreeFrame(c) \/ FreePte(c) \/ FreeAgain(c) \/ FreeEnd(c) PROVE FramesOwned'
  BY <1>4, FreeFrameFrames, FreePteFrames, FreeAgainFrames, FreeEndFrames
<1> QED BY <1>1, <1>2, <1>3, <1>4, OthersFrames DEF VmmNext

\* Of memory from both windows (pool_alloc, pool_free, shm_alloc, shm_free), for
\* any number of cores, pages and frames and with other users of pmm.c at work:
\* regions do not overlap, and every page somebody holds has a frame that nobody
\* else has, unless shm_free returned that very frame a second time after
\* somebody had got it.  Returning a frame before the entry is cleared, as
\* vmm_unmap_page does, is harmless.
THEOREM SecondReturnIsTheOnlyCause == VmmSpec => []WindowsSafe
<1>1. VmmInit => FramesOwned
  BY DEF VmmInit, FramesOwned, Live
<1>2. Apart /\ FramesOwned => WindowsSafe
  BY ApartImpliesRegionsApart, FramesOwnedSuffices DEF WindowsSafe, Apart
<1> QED BY <1>1, <1>2, InitApart, NextApart, NextFrames, PTL DEF VmmSpec
=============================================================================
