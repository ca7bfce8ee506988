-------------------------- MODULE FileTableProofs --------------------------
(***************************************************************************)
(* Proofs about FileTable: the overlap of two changes of one ref_count is  *)
(* the only cause of what the run files shows.  As long as no two overlap  *)
(* (NoOverlap), the descriptors and the counts of any number of processes  *)
(* agree, however the calls themselves interleave.                         *)
(*                                                                         *)
(* While a change is under way, the count is that of the slots without the *)
(* one the change is about (Counting); a call that has loaded a count, or  *)
(* is going to change one, finds the file allocated and the count as it    *)
(* was (Calls).                                                            *)
(***************************************************************************)
EXTENDS FileTable, FiniteSetTheorems, TLAPS

ChangeRec == [op : {"take", "close", "drop"}, proc : Proc, fd : Fd, file : File]

Types ==
    /\ alive \in [Proc -> {"none", "embryo", "live", "exited"}]
    /\ table \in [Proc -> [Fd -> File \cup {NULL}]]
    /\ refs \in [File -> 0 .. 2 ^ CountBits - 1]
    /\ mem \in [File -> BOOLEAN]
    /\ todo \in [Proc -> Seq(ChangeRec)]
    /\ phase \in [Proc -> {"load", "store", "test"}]
    /\ reg \in [Proc -> Int]
    /\ child \in [Proc -> Proc \cup {NULL}]
    /\ fails \in 0 .. MaxFail

\* Processes: a child is set up by one process, and only processes that have
\* started run calls or have children.
Births ==
    /\ \A p \in Proc : child[p] # NULL => alive[p] = "live" /\ alive[child[p]] = "embryo"
    /\ \A p, q \in Proc : child[p] # NULL /\ child[p] = child[q] => p = q
    /\ \A p \in Proc : todo[p] # <<>> => alive[p] \in {"live", "exited"}
    /\ \A p \in Proc : alive[p] = "none" => table[p] = Empty

-----------------------------------------------------------------------------
(* The calls that run: ch is the i-th change process p has to make.        *)

Whose(p, ch) == ch.proc = p \/ (ch.op = "take" /\ child[p] # NULL /\ ch.proc = child[p])
SameSlot(c, d) == c.proc = d.proc /\ c.fd = d.fd

\* A reference is taken from a slot that the call leaves alone.
Source(p, ch) ==
    \E fd \in Fd :
        /\ table[p][fd] = ch.file /\ ~(ch.proc = p /\ ch.fd = fd)
        /\ \A j \in 1 .. Len(todo[p]) : ~(todo[p][j].proc = p /\ todo[p][j].fd = fd)
\* What the slot of a change refers to.
Slot(p, i, ch) ==
    IF ch.op = "take"
    THEN \/ table[ch.proc][ch.fd] = NULL /\ ~(i = 1 /\ phase[p] = "store")
         \/ i = 1 /\ phase[p] = "store" /\ table[ch.proc][ch.fd] = ch.file
         \/ i > 1 /\ \E j \in 1 .. i - 1 : SameSlot(todo[p][j], ch)
    ELSE table[ch.proc][ch.fd] =
            IF i = 1 /\ ch.op = "close" /\ phase[p] = "test" THEN NULL ELSE ch.file
CallOk(p) ==
    /\ todo[p] = <<>> => phase[p] = "load"
    /\ phase[p] = "store" => reg[p] = refs[Head(todo[p]).file]
    /\ phase[p] = "test" => Head(todo[p]).op # "take"
    /\ \A i \in 1 .. Len(todo[p]) :
          /\ Whose(p, todo[p][i]) /\ mem[todo[p][i].file]
          /\ todo[p][i].op = "take" => Source(p, todo[p][i])
          /\ Slot(p, i, todo[p][i])
          /\ \A j \in 1 .. i - 1 : SameSlot(todo[p][j], todo[p][i]) =>
                todo[p][j].op = "drop" /\ todo[p][i].op = "take"
Calls == \A p \in Proc : CallOk(p)

-----------------------------------------------------------------------------
(* Counting.                                                               *)

\* The change process p is at is about slot fd of process r, which refers to a
\* file that has not counted it yet, or does not count it any more.
InFlight(p, r, fd) ==
    /\ todo[p] # <<>> /\ r = Head(todo[p]).proc /\ fd = Head(todo[p]).fd
    /\ \/ phase[p] = "store" /\ Head(todo[p]).op = "take"
       \/ phase[p] = "test" /\ Head(todo[p]).op = "drop"
Refers(r, fd, f) == table[r][fd] = f /\ \A p \in Proc : ~InFlight(p, r, fd)
Counted(f) == {s \in Proc \X Fd : Refers(s[1], s[2], f)}
Tested(f) == \E p \in Proc : phase[p] = "test" /\ Head(todo[p]).file = f
FileOk(f) ==
    /\ mem[f] => /\ Cardinality(Counted(f)) <= refs[f]
                 /\ refs[f] <= Cardinality(Counted(f)) + fails * (MaxFd + 1)
                 /\ refs[f] > 0 \/ Tested(f)
    /\ ~mem[f] => Holders(f) = {}
Counting == \A f \in File : FileOk(f)

Inv == Types /\ Births /\ Calls /\ Counting

-----------------------------------------------------------------------------
(* Facts about the operators.                                              *)

LEMMA FileAssumption ==
    ASSUME Sane
    PROVE  NULL \notin File \cup Proc /\ IsFiniteSet(Proc)
BY DEF Sane

LEMMA FdAssumption ==
    ASSUME Sane
    PROVE  MaxFd \in Nat /\ MaxFd >= 2
BY DEF Sane

LEMMA RunAssumption ==
    ASSUME Sane
    PROVE  MaxFail \in Nat
BY DEF Sane

LEMMA WidthAssumption ==
    ASSUME Sane
    PROVE  /\ CountBits \in Nat \ {0} /\ 2 ^ CountBits \in Nat
           /\ (Cardinality(Proc) + MaxFail) * (MaxFd + 1) < 2 ^ CountBits
BY DEF Sane

\* ref_count, as long as it stays below its width.
LEMMA Width ==
    ASSUME Sane
    PROVE  /\ \A n \in Int : n % 2 ^ CountBits \in 0 .. 2 ^ CountBits - 1
           /\ \A n \in 0 .. 2 ^ CountBits - 1 : n % 2 ^ CountBits = n
<1>1. ASSUME NEW w \in Nat, w > 0, NEW n \in Int PROVE n % w \in 0 .. w - 1
  BY <1>1
<1>2. ASSUME NEW w \in Nat, w > 0, NEW n \in 0 .. w - 1 PROVE n % w = n
  BY <1>2
<1>3. /\ Cardinality(Proc) \in Nat /\ MaxFail \in Nat /\ MaxFd \in Nat
  BY FileAssumption, FdAssumption, RunAssumption, FS_CardinalityType
<1>4. ASSUME NEW a \in Nat, NEW b \in Nat, NEW c \in Nat PROVE (a + b) * (c + 1) >= 0
  OBVIOUS
<1>5. 2 ^ CountBits \in Nat /\ 2 ^ CountBits > 0
  BY <1>3, <1>4, WidthAssumption
<1>. QED
  BY <1>1, <1>2, <1>5

LEMMA WideEnough ==
    ASSUME Sane, NEW p \in Proc
    PROVE  2 ^ CountBits \in Nat /\ 2 ^ CountBits > 3
<1>1. Cardinality(Proc) \in Nat /\ Cardinality(Proc) # 0
  BY FileAssumption, FS_CardinalityType, FS_EmptySet
<1>2. ASSUME NEW a \in Nat, a # 0, NEW b \in Nat, NEW c \in Nat, c >= 2
      PROVE  (a + b) * (c + 1) >= 3
  <2>1. (a + b) * (c + 1) >= c + 1
    BY <1>2
  <2>. QED
    BY <1>2, <2>1
<1>3. (Cardinality(Proc) + MaxFail) * (MaxFd + 1) >= 3
  BY <1>1, <1>2, FdAssumption, RunAssumption
<1>4. (Cardinality(Proc) + MaxFail) * (MaxFd + 1) \in Int
  BY <1>1, FdAssumption, RunAssumption
<1>. QED
  BY <1>3, <1>4, WidthAssumption

LEMMA StrictSubset ==
    ASSUME NEW S, IsFiniteSet(S), NEW T \in SUBSET S, NEW x \in S, x \notin T
    PROVE  /\ IsFiniteSet(T) /\ Cardinality(T) \in Nat /\ Cardinality(S) \in Nat
           /\ Cardinality(T) < Cardinality(S)
<1>1. IsFiniteSet(T) /\ Cardinality(T) <= Cardinality(S) /\ Cardinality(T) # Cardinality(S)
  BY FS_Subset
<1>2. Cardinality(T) \in Nat /\ Cardinality(S) \in Nat
  BY <1>1, FS_CardinalityType
<1>. QED
  BY <1>1, <1>2

\* InUse lists descriptors in use, each of them once.
LEMMA InUseOnce ==
    ASSUME Sane, Types, NEW p \in Proc
    PROVE  /\ InUse(p) \in Seq(Fd)
           /\ \A i \in 1 .. Len(InUse(p)) : table[p][InUse(p)[i]] \in File
           /\ \A i, j \in 1 .. Len(InUse(p)) : InUse(p)[i] = InUse(p)[j] => i = j
<1>. DEFINE used == {fd \in Fd : table[p][fd] # NULL}
            below(fd) == {e \in used : e < fd}
            n == Cardinality(used)
            rank == [fd \in used |-> Cardinality(below(fd))]
<1>1. IsFiniteSet(used) /\ n \in Nat
  <2>1. IsFiniteSet(Fd)
    BY FdAssumption, FS_Interval DEF Fd
  <2>2. used \in SUBSET Fd
    OBVIOUS
  <2>. QED
    BY <2>1, <2>2, FS_Subset, FS_CardinalityType
<1>2. \A fd \in used : fd \in Int /\ table[p][fd] \in File
  <2>1. \A fd \in Fd : fd \in Int
    BY FdAssumption DEF Fd
  <2>2. \A fd \in Fd : table[p][fd] \in File \cup {NULL}
    BY DEF Types
  <2>. QED
    BY <2>1, <2>2
<1>3. ASSUME NEW fd \in used
      PROVE  IsFiniteSet(below(fd)) /\ Cardinality(below(fd)) \in 0 .. n - 1
  <2>1. below(fd) \in SUBSET used /\ fd \notin below(fd)
    BY <1>2
  <2>2. IsFiniteSet(below(fd)) /\ Cardinality(below(fd)) \in Nat /\ Cardinality(below(fd)) < n
    BY <1>1, <2>1, StrictSubset
  <2>. QED
    BY <1>1, <2>2
<1>4. ASSUME NEW d \in used, NEW e \in used, d < e PROVE Cardinality(below(d)) < Cardinality(below(e))
  <2>1. below(d) \in SUBSET below(e) /\ d \in below(e) /\ d \notin below(d)
    BY <1>2, <1>4
  <2>. QED
    BY <1>3, <2>1, StrictSubset
<1>5. rank \in Injection(used, 0 .. n - 1)
  <2>1. rank \in [used -> 0 .. n - 1]
    BY <1>3
  <2>2. ASSUME NEW d \in used, NEW e \in used, rank[d] = rank[e] PROVE d = e
    <3>0. rank[d] = Cardinality(below(d)) /\ rank[e] = Cardinality(below(e))
      OBVIOUS
    <3>1. Cardinality(below(d)) = Cardinality(below(e)) /\ Cardinality(below(d)) \in Int
      <4>1. Cardinality(below(d)) \in 0 .. n - 1
        BY <1>3
      <4>. QED
        BY <2>2, <3>0, <4>1
    <3>2. ~(d < e) /\ ~(e < d)
      BY <1>4, <3>1
    <3>. QED
      BY <1>2, <3>2
  <2>. QED
    BY <2>1, <2>2 DEF Injection, IsInjective
<1>6. rank \in Surjection(used, 0 .. n - 1)
  <2>1. IsFiniteSet(0 .. n - 1) /\ Cardinality(0 .. n - 1) = n
    BY <1>1, FS_Interval
  <2>. QED
    BY <1>5, <2>1, FS_Injection
<1>7. ASSUME NEW i \in 1 .. n
      PROVE  \E fd \in used : Cardinality(below(fd)) = i - 1
  <2>1. i - 1 \in 0 .. n - 1
    BY <1>1
  <2>2. PICK fd \in used : rank[fd] = i - 1
    BY <1>6, <2>1 DEF Surjection
  <2>. QED
    BY <2>2
<1>8. InUse(p) = [i \in 1 .. n |-> CHOOSE fd \in used : Cardinality(below(fd)) = i - 1]
  BY DEF InUse
<1>. HIDE DEF n
<1>9. ASSUME NEW i \in 1 .. n
      PROVE  InUse(p)[i] \in used /\ Cardinality(below(InUse(p)[i])) = i - 1
  BY <1>7, <1>8, <1>9
<1>10. Len(InUse(p)) = n /\ InUse(p) \in Seq(Fd)
  <2>1. \A i \in 1 .. n : InUse(p)[i] \in Fd
    BY <1>9
  <2>2. InUse(p) \in [1 .. n -> Fd]
    BY <1>8, <2>1
  <2>. QED
    BY <1>1, <2>2
<1>. HIDE DEF used
<1>11. ASSUME NEW i \in 1 .. n, NEW j \in 1 .. n, InUse(p)[i] = InUse(p)[j] PROVE i = j
  <2>1. i - 1 = j - 1
    BY <1>9, <1>11
  <2>. QED
    BY <1>1, <2>1
<1>. QED
  BY <1>2, <1>9, <1>10, <1>11

\* A change is a record of its four parts.
LEMMA ChangeIs ==
    ASSUME Sane, NEW op \in {"take", "close", "drop"}, NEW p \in Proc, NEW fd \in Fd, NEW f \in File
    PROVE  LET c == Change(op, p, fd, f)
           IN  c \in ChangeRec /\ c.op = op /\ c.proc = p /\ c.fd = fd /\ c.file = f
BY DEF Change, ChangeRec

\* What an exit and a clone have to do.
LEMMA ExitList ==
    ASSUME Sane, Types, NEW p \in Proc
    PROVE  LET d == Drops(p, InUse(p))
           IN  /\ d \in Seq(ChangeRec)
               /\ \A i \in 1 .. Len(d) :
                     /\ d[i].op = "drop" /\ d[i].proc = p /\ d[i].file = table[p][d[i].fd]
                     /\ d[i].file \in File /\ d[i].fd \in Fd
               /\ \A i, j \in 1 .. Len(d) : d[i].fd = d[j].fd => i = j
<1>. DEFINE u == InUse(p)
            d == Drops(p, u)
<1>1. /\ u \in Seq(Fd) /\ \A i \in 1 .. Len(u) : table[p][u[i]] \in File /\ u[i] \in Fd
      /\ \A i, j \in 1 .. Len(u) : u[i] = u[j] => i = j
  BY InUseOnce
<1>. HIDE DEF u
<1>2. d = [i \in 1 .. Len(u) |-> Change("drop", p, u[i], table[p][u[i]])]
  BY DEF Drops
<1>3. ASSUME NEW i \in 1 .. Len(u)
      PROVE  /\ d[i] \in ChangeRec /\ d[i].op = "drop" /\ d[i].proc = p /\ d[i].fd = u[i]
             /\ d[i].file = table[p][u[i]]
  BY <1>1, <1>2, ChangeIs
<1>4. d \in [1 .. Len(u) -> ChangeRec] /\ Len(u) \in Nat
  BY <1>1, <1>2, <1>3
<1>. HIDE DEF d
<1>5. d \in Seq(ChangeRec) /\ Len(d) = Len(u)
  BY <1>4
<1>. QED
  BY <1>1, <1>3, <1>5 DEF d, u

LEMMA CloneList ==
    ASSUME Sane, Types, NEW p \in Proc, NEW q \in Proc, Clone(p, q)
    PROVE  LET d == todo'[p]
           IN  /\ d \in Seq(ChangeRec) /\ todo' = [todo EXCEPT ![p] = d]
               /\ \A i \in 1 .. Len(d) :
                     /\ d[i].op = "take" /\ d[i].proc = q /\ d[i].file = table[p][d[i].fd]
                     /\ d[i].file \in File /\ d[i].fd \in Fd
               /\ \A i, j \in 1 .. Len(d) : d[i].fd = d[j].fd => i = j
<1>. DEFINE u == InUse(p)
            d == [i \in 1 .. Len(u) |-> Change("take", q, u[i], table[p][u[i]])]
<1>1. /\ u \in Seq(Fd) /\ \A i \in 1 .. Len(u) : table[p][u[i]] \in File /\ u[i] \in Fd
      /\ \A i, j \in 1 .. Len(u) : u[i] = u[j] => i = j
  BY InUseOnce
<1>2. todo' = [todo EXCEPT ![p] = d] /\ todo'[p] = d
  BY DEF Clone, Types
<1>. HIDE DEF u
<1>3. ASSUME NEW i \in 1 .. Len(u)
      PROVE  /\ d[i] \in ChangeRec /\ d[i].op = "take" /\ d[i].proc = q /\ d[i].fd = u[i]
             /\ d[i].file = table[p][u[i]]
  BY <1>1, ChangeIs
<1>4. d \in [1 .. Len(u) -> ChangeRec] /\ Len(u) \in Nat
  BY <1>1, <1>3
<1>. HIDE DEF d
<1>5. d \in Seq(ChangeRec) /\ Len(d) = Len(u)
  BY <1>4
<1>6. /\ \A i \in 1 .. Len(d) :
            /\ d[i].op = "take" /\ d[i].proc = q /\ d[i].file = table[p][d[i].fd]
            /\ d[i].file \in File /\ d[i].fd \in Fd
      /\ \A i, j \in 1 .. Len(d) : d[i].fd = d[j].fd => i = j
  BY <1>1, <1>3, <1>5
<1>. QED
  BY <1>2, <1>5, <1>6

\* dup2 drops what the new slot refers to, if anything, and takes the file of
\* the old one.
LEMMA Dup2List ==
    ASSUME Sane, Types, NEW p \in Proc, NEW old \in Fd, NEW new \in Fd, Dup2(p, old, new)
    PROVE  LET d == todo'[p]
               t == Change("take", p, new, table[p][old])
               x == Change("drop", p, new, table[p][new])
           IN  /\ todo' = [todo EXCEPT ![p] = d] /\ d \in Seq(ChangeRec)
               /\ t \in ChangeRec
               /\ \/ table[p][new] = NULL /\ Len(d) = 1 /\ d[1] = t
                  \/ table[p][new] # NULL /\ Len(d) = 2 /\ d[1] = x /\ d[2] = t /\ x \in ChangeRec
<1>. DEFINE t == Change("take", p, new, table[p][old])
            x == Change("drop", p, new, table[p][new])
<1>1. table[p][old] \in File /\ (table[p][new] # NULL => table[p][new] \in File)
  BY DEF Dup2, Types
<1>2. t \in ChangeRec /\ (table[p][new] # NULL => x \in ChangeRec)
  BY <1>1, ChangeIs
<1>3. Drops(p, <<new>>) = <<x>>
  BY DEF Drops
<1>. HIDE DEF t, x
<1>4. CASE table[p][new] = NULL
  <2>1. todo' = [todo EXCEPT ![p] = <<>> \o <<t>>]
    BY <1>4 DEF Dup2, t
  <2>2. <<>> \o <<t>> = <<t>>
    BY <1>2
  <2>. QED
    BY <1>2, <1>4, <2>1, <2>2 DEF Types, t, x
<1>5. CASE table[p][new] # NULL
  <2>1. todo' = [todo EXCEPT ![p] = <<x>> \o <<t>>]
    BY <1>3, <1>5 DEF Dup2, t
  <2>2. LET d == <<x>> \o <<t>> IN d \in Seq(ChangeRec) /\ Len(d) = 2 /\ d[1] = x /\ d[2] = t
    BY <1>2, <1>5
  <2>. QED
    BY <1>2, <1>5, <2>1, <2>2 DEF Types, t, x
<1>. QED
  BY <1>4, <1>5

-----------------------------------------------------------------------------
(* The type.                                                               *)

\* The change a call is at.
LEMMA HeadIs ==
    ASSUME Sane, Types, NEW p \in Proc, todo[p] # <<>>
    PROVE  /\ todo[p] \in Seq(ChangeRec) /\ 1 \in 1 .. Len(todo[p])
           /\ Head(todo[p]) = todo[p][1] /\ Head(todo[p]) \in ChangeRec
           /\ Head(todo[p]).proc \in Proc /\ Head(todo[p]).fd \in Fd /\ Head(todo[p]).file \in File
           /\ Head(todo[p]).op \in {"take", "close", "drop"}
           /\ Tail(todo[p]) \in Seq(ChangeRec) /\ Len(Tail(todo[p])) = Len(todo[p]) - 1
           /\ \A i \in 1 .. Len(todo[p]) - 1 : Tail(todo[p])[i] = todo[p][i + 1]
<1>1. todo[p] \in Seq(ChangeRec)
  BY DEF Types
<1>2. Head(todo[p]) = todo[p][1] /\ todo[p][1] \in ChangeRec /\ 1 \in 1 .. Len(todo[p])
  BY <1>1
<1>3. Tail(todo[p]) \in Seq(ChangeRec) /\ Len(Tail(todo[p])) = Len(todo[p]) - 1
  BY <1>1
<1>4. \A i \in 1 .. Len(todo[p]) - 1 : Tail(todo[p])[i] = todo[p][i + 1]
  BY <1>1
<1>. QED
  BY <1>1, <1>2, <1>3, <1>4 DEF ChangeRec

LEMMA TypesStep ==
    ASSUME Sane, Types, Next
    PROVE  Types'
<1>0. /\ alive \in [Proc -> {"none", "embryo", "live", "exited"}]
      /\ table \in [Proc -> [Fd -> File \cup {NULL}]]
      /\ refs \in [File -> 0 .. 2 ^ CountBits - 1] /\ mem \in [File -> BOOLEAN]
      /\ todo \in [Proc -> Seq(ChangeRec)] /\ phase \in [Proc -> {"load", "store", "test"}]
      /\ reg \in [Proc -> Int] /\ child \in [Proc -> Proc \cup {NULL}]
      /\ fails \in 0 .. MaxFail
      /\ MaxFail \in Nat
  BY RunAssumption DEF Types
<1>1. ASSUME NEW q \in Proc, NEW f \in File, Spawn(q, f) PROVE Types'
  <2>1. StandardIo(f) \in [Fd -> File \cup {NULL}]
    BY DEF StandardIo
  <2>2. 3 \in 0 .. 2 ^ CountBits - 1
    BY WideEnough
  <2>. QED
    BY <1>0, <1>1, <2>1, <2>2 DEF Spawn, Types
<1>2. ASSUME NEW p \in Proc, NEW fd \in Fd, NEW f \in File, Open(p, fd, f) PROVE Types'
  <2>1. 1 \in 0 .. 2 ^ CountBits - 1
    BY WideEnough
  <2>. QED
    BY <1>0, <1>2, <2>1 DEF Open, Types
<1>3. ASSUME NEW p \in Proc, NEW fd \in Fd, Close(p, fd) PROVE Types'
  <2>1. Change("close", p, fd, table[p][fd]) \in ChangeRec
    BY <1>0, <1>3, ChangeIs DEF Close
  <2>. QED
    BY <1>0, <1>3, <2>1 DEF Close, Types
<1>4. ASSUME NEW p \in Proc, NEW old \in Fd, NEW new \in Fd, Dup2(p, old, new) PROVE Types'
  <2>1. todo' = [todo EXCEPT ![p] = todo'[p]] /\ todo'[p] \in Seq(ChangeRec)
    BY <1>4, Dup2List
  <2>2. UNCHANGED <<alive, table, refs, mem, phase, reg, child, fails>>
    BY <1>4 DEF Dup2
  <2>. QED
    BY <1>0, <2>1, <2>2 DEF Types
<1>5. ASSUME NEW p \in Proc, NEW q \in Proc, Clone(p, q) PROVE Types'
  <2>1. todo' = [todo EXCEPT ![p] = todo'[p]] /\ todo'[p] \in Seq(ChangeRec)
    BY <1>5, CloneList
  <2>2. /\ alive' = [alive EXCEPT ![q] = "embryo"] /\ child' = [child EXCEPT ![p] = q]
        /\ UNCHANGED <<table, refs, mem, phase, reg, fails>>
    BY <1>5 DEF Clone
  <2>. QED
    BY <1>0, <2>1, <2>2 DEF Types
<1>6. ASSUME NEW p \in Proc, CloneDone(p) PROVE Types'
  BY <1>0, <1>6 DEF CloneDone, Types
<1>7. ASSUME NEW p \in Proc, CloneFails(p) PROVE Types'
  <2>1. Empty \in [Fd -> File \cup {NULL}]
    BY DEF Empty
  <2>. QED
    BY <1>0, <1>7, <2>1 DEF CloneFails, Types
<1>8. ASSUME NEW p \in Proc, Exit(p) PROVE Types'
  <2>1. Drops(p, InUse(p)) \in Seq(ChangeRec)
    BY ExitList
  <2>. QED
    BY <1>0, <1>8, <2>1 DEF Exit, Types
<1>9. ASSUME NEW p \in Proc, Load(p) PROVE Types'
  BY <1>0, <1>9, HeadIs DEF Load, Types
<1>10. ASSUME NEW p \in Proc, Store(p) PROVE Types'
  <2>1. After(Head(todo[p]).op, reg[p]) \in 0 .. 2 ^ CountBits - 1
    BY <1>0, Width DEF After
  <2>2. /\ todo[p] # <<>> /\ refs' = [refs EXCEPT ![Head(todo[p]).file] = After(Head(todo[p]).op, reg[p])]
        /\ reg' = [reg EXCEPT ![p] = 0] /\ UNCHANGED <<alive, mem, child, fails>>
        /\ \E c \in {"load", "test"} : phase' = [phase EXCEPT ![p] = c]
        /\ todo' = todo \/ todo' = [todo EXCEPT ![p] = Tail(@)]
        /\ table' = table \/ table' = [table EXCEPT ![p][Head(todo[p]).fd] = NULL]
    BY <1>10 DEF Store
  <2>3. todo' \in [Proc -> Seq(ChangeRec)]
    <3>1. Tail(todo[p]) \in Seq(ChangeRec)
      BY <2>2, HeadIs
    <3>. QED
      BY <1>0, <2>2, <3>1
  <2>4. refs' \in [File -> 0 .. 2 ^ CountBits - 1]
    BY <1>0, <2>1, <2>2
  <2>5. table' \in [Proc -> [Fd -> File \cup {NULL}]]
    <3>1. CASE table' = [table EXCEPT ![p][Head(todo[p]).fd] = NULL]
      <4>1. table' = [table EXCEPT ![p] = [table[p] EXCEPT ![Head(todo[p]).fd] = NULL]]
        BY <3>1
      <4>2. [table[p] EXCEPT ![Head(todo[p]).fd] = NULL] \in [Fd -> File \cup {NULL}]
        BY <1>0
      <4>. QED
        BY <1>0, <4>1, <4>2
    <3>. QED
      BY <1>0, <2>2, <3>1
  <2>6. phase' \in [Proc -> {"load", "store", "test"}] /\ reg' \in [Proc -> Int]
    BY <1>0, <2>2
  <2>. QED
    BY <1>0, <2>2, <2>3, <2>4, <2>5, <2>6 DEF Types
<1>11. ASSUME NEW p \in Proc, Test(p) PROVE Types'
  BY <1>0, <1>11, HeadIs DEF Test, Types
<1>. QED
  BY <1>1, <1>2, <1>3, <1>4, <1>5, <1>6, <1>7, <1>8, <1>9, <1>10, <1>11 DEF Next

-----------------------------------------------------------------------------
(* Processes.                                                              *)

\* The change process p is at is about a slot of p, or of the child it sets
\* up, and no other process that runs a call has to do with those.
LEMMA HeadOk ==
    ASSUME Sane, Types, Births, Calls, NEW p \in Proc, todo[p] # <<>>
    PROVE  LET ch == Head(todo[p])
           IN  /\ alive[p] \in {"live", "exited"} /\ mem[ch.file] /\ Whose(p, ch) /\ CallOk(p)
               /\ ch.op # "take" => ch.proc = p
               /\ ch.op = "take" => Source(p, ch)
               /\ Slot(p, 1, ch)
               /\ alive[ch.proc] # "none"
               /\ \A r \in Proc \ {p} : /\ child[r] # ch.proc
                                        /\ todo[r] # <<>> => ch.proc # r
                                        /\ alive[r] # "embryo" => ch.proc # r
<1>. DEFINE ch == Head(todo[p])
<1>1. ch = todo[p][1] /\ 1 \in 1 .. Len(todo[p]) /\ ch.proc \in Proc /\ CallOk(p)
  BY HeadIs DEF Calls
<1>2. Whose(p, ch) /\ mem[ch.file] /\ Slot(p, 1, ch) /\ (ch.op = "take" => Source(p, ch))
  BY <1>1 DEF CallOk
<1>3. alive[p] \in {"live", "exited"}
  BY DEF Births
<1>. HIDE DEF ch
<1>4. ch.proc = p \/ (ch.op = "take" /\ child[p] # NULL /\ ch.proc = child[p])
  BY <1>2 DEF Whose
<1>5. ASSUME NEW r \in Proc, r # p
      PROVE  child[r] # ch.proc /\ (todo[r] # <<>> => ch.proc # r) /\ (alive[r] # "embryo" => ch.proc # r)
  <2>1. ch.proc # NULL
    BY <1>1, FileAssumption
  <2>. QED
    BY <1>1, <1>3, <1>4, <1>5, <2>1 DEF Births, Types
<1>6. alive[ch.proc] # "none"
  BY <1>3, <1>4 DEF Births
<1>. QED
  BY <1>1, <1>2, <1>3, <1>4, <1>5, <1>6 DEF ch

LEMMA BirthsStep ==
    ASSUME Sane, Types, Births, Calls, Next
    PROVE  Births'
<1>. USE DEF Types
<1>1. ASSUME NEW q \in Proc, NEW f \in File, Spawn(q, f) PROVE Births'
  BY <1>1 DEF Births, Spawn
<1>2. ASSUME NEW p \in Proc, NEW fd \in Fd, NEW f \in File, Open(p, fd, f) PROVE Births'
  <2>1. alive[p] = "live" /\ UNCHANGED <<alive, todo, child>>
    BY <1>2 DEF Open, Ready
  <2>2. \A r \in Proc : r # p => table'[r] = table[r]
    BY <1>2 DEF Open
  <2>. QED
    BY <2>1, <2>2 DEF Births, Empty
<1>3. ASSUME NEW p \in Proc, alive[p] = "live", UNCHANGED <<alive, table, child>>,
             NEW d, todo' = [todo EXCEPT ![p] = d]
      PROVE  Births'
  BY <1>3 DEF Births, Empty
<1>4. ASSUME NEW p \in Proc, (\E fd \in Fd : Close(p, fd)) \/ \E old, new \in Fd : Dup2(p, old, new)
      PROVE  Births'
  BY <1>3, <1>4 DEF Close, Dup2, Ready
<1>5. ASSUME NEW p \in Proc, NEW q \in Proc, Clone(p, q) PROVE Births'
  <2>1. /\ todo' = [todo EXCEPT ![p] = todo'[p]]
        /\ alive' = [alive EXCEPT ![q] = "embryo"] /\ child' = [child EXCEPT ![p] = q]
        /\ table' = table
        /\ alive[p] = "live" /\ child[p] = NULL /\ alive[q] = "none"
    BY <1>5, CloneList DEF Clone, Ready
  <2>. QED
    BY <2>1, FileAssumption DEF Births, Empty
<1>6. ASSUME NEW p \in Proc, CloneDone(p) PROVE Births'
  BY <1>6 DEF Births, CloneDone, Empty
<1>7. ASSUME NEW p \in Proc, CloneFails(p) PROVE Births'
  <2>. DEFINE q == child[p]
  <2>0. child[p] = q /\ q # NULL
    BY <1>7 DEF CloneFails
  <2>1. /\ alive' = [alive EXCEPT ![q] = "none"] /\ table' = [table EXCEPT ![q] = Empty]
        /\ child' = [child EXCEPT ![p] = NULL]
        /\ todo' = todo /\ q \in Proc /\ alive[p] = "live" /\ alive[q] = "embryo"
    BY <1>7 DEF CloneFails, Births
  <2>. HIDE DEF q
  <2>2. Empty' = Empty
    BY DEF Empty
  <2>3. \A r \in Proc : child'[r] # NULL => r # p /\ child'[r] = child[r] /\ child[r] # q
    BY <2>0, <2>1 DEF Births, Types
  <2>. QED
    BY <2>1, <2>2, <2>3 DEF Births
<1>8. ASSUME NEW p \in Proc, Exit(p) PROVE Births'
  BY <1>8 DEF Births, Exit, Ready, Empty
<1>9. ASSUME NEW p \in Proc, todo[p] # <<>>, UNCHANGED <<alive, child>>,
             \A r \in Proc : r # p => todo'[r] = todo[r],
             \A r \in Proc : alive[r] = "none" => table'[r] = table[r]
      PROVE  Births'
  BY <1>9 DEF Births, Empty
<1>10. ASSUME NEW p \in Proc, Load(p) \/ Store(p) \/ Test(p) PROVE Births'
  <2>1. todo[p] # <<>> /\ UNCHANGED <<alive, child>> /\ \A r \in Proc : r # p => todo'[r] = todo[r]
    BY <1>10 DEF Load, Store, Test
  <2>2. \A r \in Proc : r # p /\ r # Head(todo[p]).proc => table'[r] = table[r]
    BY <1>10 DEF Load, Store, Test
  <2>3. alive[p] # "none" /\ alive[Head(todo[p]).proc] # "none"
    BY <2>1, HeadOk
  <2>. QED
    BY <1>9, <2>1, <2>2, <2>3
<1>. QED
  BY <1>1, <1>2, <1>4, <1>5, <1>6, <1>7, <1>8, <1>10 DEF Next

\* No slot refers to a block that is free.
LEMMA NoHolders ==
    ASSUME Sane, Counting, NEW f \in File, ~mem[f]
    PROVE  \A p \in Proc, fd \in Fd : table[p][fd] # f
<1>. SUFFICES ASSUME NEW p \in Proc, NEW fd \in Fd, table[p][fd] = f PROVE FALSE
  OBVIOUS
<1>1. <<p, fd>> \in Holders(f)
  BY DEF Holders
<1>. QED
  BY <1>1 DEF Counting, FileOk

\* Every change that is left is about a file that is allocated.
LEMMA TodoFiles ==
    ASSUME Sane, Types, Calls, NEW p \in Proc, NEW i \in 1 .. Len(todo[p])
    PROVE  todo[p][i] \in ChangeRec /\ todo[p][i].file \in File /\ mem[todo[p][i].file]
<1>1. todo[p] \in Seq(ChangeRec)
  BY DEF Types
<1>2. todo[p][i] \in ChangeRec
  BY <1>1
<1>3. mem[todo[p][i].file]
  BY DEF Calls, CallOk
<1>. QED
  BY <1>2, <1>3 DEF ChangeRec

-----------------------------------------------------------------------------
(* The calls.                                                              *)

\* Nothing a call of process r depends on changes.
LEMMA CallKept ==
    ASSUME Sane, Types, NEW r \in Proc, CallOk(r), todo'[r] = todo[r], phase'[r] = phase[r], reg'[r] = reg[r],
           todo[r] # <<>> => /\ child'[r] = child[r] /\ table'[r] = table[r]
                             /\ child[r] # NULL => table'[child[r]] = table[child[r]],
           Midway(r) => refs'[Head(todo[r]).file] = refs[Head(todo[r]).file],
           \A i \in 1 .. Len(todo[r]) : mem'[todo[r][i].file] = mem[todo[r][i].file]
    PROVE  CallOk(r)'
<1>1. CASE todo[r] = <<>>
  BY <1>1 DEF CallOk
<1>2. CASE todo[r] # <<>>
  <2>1. Head(todo[r]) = todo[r][1] /\ 1 \in 1 .. Len(todo[r])
    BY <1>2, HeadIs
  <2>2. /\ todo'[r] = <<>> => phase'[r] = "load"
        /\ phase'[r] = "store" => reg'[r] = refs'[Head(todo'[r]).file]
        /\ phase'[r] = "test" => Head(todo'[r]).op # "take"
    BY <1>2, <2>1 DEF CallOk, Midway
  <2>3. ASSUME NEW i \in 1 .. Len(todo[r])
        PROVE  /\ Whose(r, todo[r][i])' /\ mem'[todo[r][i].file]
               /\ todo[r][i].op = "take" => Source(r, todo[r][i])'
               /\ Slot(r, i, todo[r][i])'
    <3>1. /\ Whose(r, todo[r][i]) /\ mem[todo[r][i].file] /\ Slot(r, i, todo[r][i])
          /\ todo[r][i].op = "take" => Source(r, todo[r][i])
      BY DEF CallOk
    <3>2. table'[todo[r][i].proc] = table[todo[r][i].proc]
      BY <1>2, <3>1 DEF Whose
    <3>3. Whose(r, todo[r][i])' /\ mem'[todo[r][i].file]
      BY <1>2, <3>1 DEF Whose
    <3>4. todo[r][i].op = "take" => Source(r, todo[r][i])'
      BY <1>2, <3>1 DEF Source
    <3>5. Slot(r, i, todo[r][i])'
      BY <3>1, <3>2 DEF Slot, SameSlot
    <3>. QED
      BY <3>3, <3>4, <3>5
  <2>4. \A i \in 1 .. Len(todo[r]) : \A j \in 1 .. i - 1 : SameSlot(todo[r][j], todo[r][i]) =>
            todo[r][j].op = "drop" /\ todo[r][i].op = "take"
    BY DEF CallOk
  <2>. QED
    BY <2>2, <2>3, <2>4 DEF CallOk, Whose, Source, Slot, SameSlot
<1>. QED
  BY <1>1, <1>2

\* A process that is not running a call opens a file, or a new one starts.
LEMMA NewFileCalls ==
    ASSUME Sane, Types, Births, Calls, NEW q \in Proc, NEW f \in File, todo[q] = <<>>,
           alive[q] # "embryo", ~mem[f], UNCHANGED <<todo, phase, reg, child>>,
           \A r \in Proc : r # q => table'[r] = table[r],
           \A x \in File : x # f => refs'[x] = refs[x] /\ mem'[x] = mem[x]
    PROVE  Calls'
<1>1. ASSUME NEW r \in Proc PROVE CallOk(r)'
  <2>1. CallOk(r)
    BY DEF Calls
  <2>2. \A i \in 1 .. Len(todo[r]) : todo[r][i].file \in File /\ todo[r][i].file # f
    BY TodoFiles
  <2>3. child[r] # NULL => child[r] # q /\ child[r] \in Proc
    BY DEF Births, Types
  <2>4. Midway(r) => refs'[Head(todo[r]).file] = refs[Head(todo[r]).file]
    BY <2>2, HeadIs DEF Midway
  <2>. QED
    BY <2>1, <2>2, <2>3, <2>4, CallKept
<1>. QED
  BY <1>1 DEF Calls

\* Process p begins a call, or ends a clone, and the others go on with theirs.
LEMMA OthersKept ==
    ASSUME Sane, Types, Births, Calls, NEW p \in Proc, NEW q, UNCHANGED <<refs, mem, phase, reg>>,
           \A r \in Proc : r # p => /\ todo'[r] = todo[r] /\ child'[r] = child[r]
                                    /\ child[r] # NULL => child[r] # q,
           \A r \in Proc : r # q => table'[r] = table[r],
           q \in Proc => todo[q] = <<>>
    PROVE  \A r \in Proc : r # p => CallOk(r)'
<1>1. ASSUME NEW r \in Proc, r # p PROVE CallOk(r)'
  <2>1. CallOk(r)
    BY DEF Calls
  <2>2. child[r] # NULL => child[r] \in Proc
    BY DEF Types
  <2>. QED
    BY <1>1, <2>1, <2>2, CallKept
<1>. QED
  BY <1>1

LEMMA CloseCalls ==
    ASSUME Sane, Types, Types', Births, Calls, Counting, NEW p \in Proc, NEW fd \in Fd, Close(p, fd)
    PROVE  Calls'
<1>. DEFINE c == Change("close", p, fd, table[p][fd])
<1>1. /\ Ready(p) /\ todo' = [todo EXCEPT ![p] = <<c>>] /\ table[p][fd] \in File
      /\ UNCHANGED <<alive, table, refs, mem, phase, reg, child>>
  BY DEF Close, Types
<1>2. c \in ChangeRec /\ c.op = "close" /\ c.proc = p /\ c.fd = fd /\ c.file = table[p][fd]
  BY <1>1, ChangeIs
<1>. HIDE DEF c
<1>3. todo'[p] = <<c>> /\ \A r \in Proc : r # p => todo'[r] = todo[r]
  BY <1>1 DEF Types
<1>4. \A r \in Proc : r # p => CallOk(r)'
  <2>1. NULL \notin Proc
    BY FileAssumption
  <2>. QED
    BY <1>1, <1>3, <2>1, OthersKept
<1>5. phase[p] = "load"
  BY <1>1 DEF Calls, CallOk, Ready
<1>6. mem[c.file]
  BY <1>1, <1>2, NoHolders
<1>7. /\ Len(todo'[p]) = 1 /\ todo'[p][1] = c
  BY <1>3
<1>8. CallOk(p)'
  BY <1>1, <1>2, <1>3, <1>5, <1>6, <1>7 DEF CallOk, Whose, Slot
<1>. QED
  BY <1>4, <1>8 DEF Calls

LEMMA Dup2Calls ==
    ASSUME Sane, Types, Births, Calls, Counting, NEW p \in Proc, NEW old \in Fd, NEW new \in Fd,
           Dup2(p, old, new)
    PROVE  Calls'
<1>0. PICK t, x : t = Change("take", p, new, table[p][old]) /\ x = Change("drop", p, new, table[p][new])
  OBVIOUS
<1>1. /\ Ready(p) /\ table[p][old] \in File /\ old # new
      /\ UNCHANGED <<alive, table, refs, mem, phase, reg, child>>
  BY DEF Dup2, Types
<1>2. /\ todo' = [todo EXCEPT ![p] = todo'[p]]
      /\ \/ table[p][new] = NULL /\ Len(todo'[p]) = 1 /\ todo'[p][1] = t
         \/ /\ table[p][new] # NULL /\ Len(todo'[p]) = 2 /\ todo'[p][1] = x /\ todo'[p][2] = t
            /\ x \in ChangeRec
  BY <1>0, Dup2List
<1>3. /\ t.op = "take" /\ t.proc = p /\ t.fd = new /\ t.file = table[p][old]
      /\ x.op = "drop" /\ x.proc = p /\ x.fd = new /\ x.file = table[p][new]
  BY <1>0 DEF Change
<1>4. \A r \in Proc : r # p => todo'[r] = todo[r]
  BY <1>2 DEF Types
<1>5. \A r \in Proc : r # p => CallOk(r)'
  <2>1. NULL \notin Proc
    BY FileAssumption
  <2>. QED
    BY <1>1, <1>4, <2>1, OthersKept
<1>6. phase[p] = "load"
  BY <1>1 DEF Calls, CallOk, Ready
<1>7. mem[table[p][old]] /\ (table[p][new] # NULL => mem[table[p][new]])
  BY <1>1, NoHolders DEF Types
<1>8. CASE table[p][new] = NULL
  <2>1. Len(todo'[p]) = 1 /\ todo'[p][1] = t /\ todo'[p] # <<>>
    BY <1>2, <1>8
  <2>2. Source(p, t)'
    BY <1>1, <1>3, <2>1 DEF Source
  <2>3. Slot(p, 1, t)' /\ Whose(p, t)'
    BY <1>1, <1>3, <1>6, <1>8 DEF Slot, Whose
  <2>4. CallOk(p)'
    <3>1. \A i \in 1 .. Len(todo'[p]) : i = 1 /\ \A j \in 1 .. i - 1 : FALSE
      BY <2>1
    <3>. QED
      BY <1>1, <1>3, <1>6, <1>7, <2>1, <2>2, <2>3, <3>1 DEF CallOk
  <2>. QED
    BY <1>5, <2>4 DEF Calls
<1>9. CASE table[p][new] # NULL
  <2>1. Len(todo'[p]) = 2 /\ todo'[p][1] = x /\ todo'[p][2] = t /\ todo'[p] # <<>>
    BY <1>2, <1>9
  <2>2. Source(p, t)'
    BY <1>1, <1>3, <2>1 DEF Source
  <2>3. Slot(p, 1, x)' /\ Whose(p, x)' /\ Whose(p, t)'
    BY <1>1, <1>3, <1>6 DEF Slot, Whose
  <2>4. Slot(p, 2, t)'
    BY <1>3, <2>1 DEF Slot, SameSlot
  <2>5. CallOk(p)'
    <3>1. \A i \in 1 .. Len(todo'[p]) : i = 1 \/ i = 2
      BY <2>1
    <3>2. \A i \in 1 .. Len(todo'[p]) : \A j \in 1 .. i - 1 : i = 2 /\ j = 1
      BY <2>1
    <3>3. mem'[t.file] /\ mem'[x.file]
      BY <1>1, <1>3, <1>7, <1>9
    <3>4. ASSUME NEW i \in 1 .. Len(todo'[p])
          PROVE  /\ Whose(p, todo[p][i])' /\ mem'[todo'[p][i].file]
                 /\ todo'[p][i].op = "take" => Source(p, todo[p][i])'
                 /\ Slot(p, i, todo[p][i])'
      <4>1. CASE i = 1
        BY <1>3, <2>1, <2>3, <3>3, <4>1
      <4>2. CASE i = 2
        BY <1>3, <2>1, <2>2, <2>3, <2>4, <3>3, <4>2
      <4>. QED
        BY <3>1, <4>1, <4>2
    <3>5. \A i \in 1 .. Len(todo'[p]) : \A j \in 1 .. i - 1 :
              todo'[p][j].op = "drop" /\ todo'[p][i].op = "take"
      BY <1>3, <2>1, <3>2
    <3>6. phase'[p] = "load"
      BY <1>1, <1>6
    <3>. QED
      BY <2>1, <3>4, <3>5, <3>6 DEF CallOk
  <2>. QED
    BY <1>5, <2>5 DEF Calls
<1>. QED
  BY <1>8, <1>9

LEMMA CloneCalls ==
    ASSUME Sane, Types, Births, Calls, Counting, NEW p \in Proc, NEW q \in Proc, Clone(p, q)
    PROVE  Calls'
<1>0. PICK d : d = todo'[p]
  OBVIOUS
<1>1. /\ Ready(p) /\ alive[q] = "none" /\ child' = [child EXCEPT ![p] = q]
      /\ UNCHANGED <<table, refs, mem, phase, reg>>
  BY DEF Clone
<1>2. /\ d \in Seq(ChangeRec) /\ todo' = [todo EXCEPT ![p] = d]
      /\ \A i \in 1 .. Len(d) :
            /\ d[i].op = "take" /\ d[i].proc = q /\ d[i].file = table[p][d[i].fd]
            /\ d[i].file \in File /\ d[i].fd \in Fd
      /\ \A i, j \in 1 .. Len(d) : d[i].fd = d[j].fd => i = j
  BY <1>0, CloneList
<1>3. child'[p] = q /\ p # q /\ \A r \in Proc : r # p => todo'[r] = todo[r] /\ child'[r] = child[r]
  BY <1>1, <1>2 DEF Types, Ready
<1>4. \A r \in Proc : r # p => CallOk(r)'
  <2>1. NULL \notin Proc
    BY FileAssumption
  <2>. QED
    BY <1>1, <1>3, <2>1, OthersKept
<1>5. phase'[p] = "load"
  BY <1>1 DEF Calls, CallOk, Ready
<1>6. \A fd \in Fd : table[q][fd] = NULL
  BY <1>1 DEF Births, Empty
<1>7. ASSUME NEW i \in 1 .. Len(d)
      PROVE  /\ Whose(p, d[i])' /\ mem'[d[i].file] /\ Source(p, d[i])' /\ Slot(p, i, d[i])'
             /\ \A j \in 1 .. i - 1 : ~SameSlot(d[j], d[i])
  <2>1. Whose(p, d[i])'
    BY <1>2, <1>3, FileAssumption DEF Whose
  <2>2. mem'[d[i].file]
    BY <1>1, <1>2, NoHolders
  <2>3. Source(p, d[i])'
    BY <1>0, <1>1, <1>2, <1>3 DEF Source
  <2>4. Slot(p, i, d[i])'
    BY <1>0, <1>1, <1>2, <1>5, <1>6 DEF Slot
  <2>5. \A j \in 1 .. i - 1 : ~SameSlot(d[j], d[i])
    BY <1>2 DEF SameSlot
  <2>. QED
    BY <2>1, <2>2, <2>3, <2>4, <2>5
<1>8. CallOk(p)'
  BY <1>0, <1>2, <1>5, <1>7 DEF CallOk
<1>. QED
  BY <1>4, <1>8 DEF Calls

LEMMA ExitCalls ==
    ASSUME Sane, Types, Births, Calls, Counting, NEW p \in Proc, Exit(p)
    PROVE  Calls'
<1>. DEFINE d == Drops(p, InUse(p))
<1>1. /\ Ready(p) /\ todo' = [todo EXCEPT ![p] = d]
      /\ UNCHANGED <<table, refs, mem, phase, reg, child>>
  BY DEF Exit
<1>2. /\ d \in Seq(ChangeRec)
      /\ \A i \in 1 .. Len(d) :
            /\ d[i].op = "drop" /\ d[i].proc = p /\ d[i].file = table[p][d[i].fd]
            /\ d[i].file \in File /\ d[i].fd \in Fd
      /\ \A i, j \in 1 .. Len(d) : d[i].fd = d[j].fd => i = j
  BY ExitList
<1>3. todo'[p] = d /\ \A r \in Proc : r # p => todo'[r] = todo[r]
  BY <1>1 DEF Types
<1>4. \A r \in Proc : r # p => CallOk(r)'
  <2>1. NULL \notin Proc
    BY FileAssumption
  <2>. QED
    BY <1>1, <1>3, <2>1, OthersKept
<1>5. phase'[p] = "load"
  BY <1>1 DEF Calls, CallOk, Ready
<1>6. PICK e : e = todo'[p]
  OBVIOUS
<1>. HIDE DEF d
<1>7. ASSUME NEW i \in 1 .. Len(e)
      PROVE  /\ Whose(p, e[i])' /\ mem'[e[i].file] /\ e[i].op = "drop" /\ Slot(p, i, e[i])'
             /\ \A j \in 1 .. i - 1 : ~SameSlot(e[j], e[i])
  <2>1. Whose(p, e[i])' /\ e[i].op = "drop"
    BY <1>2, <1>3, <1>6 DEF Whose
  <2>2. mem'[e[i].file]
    BY <1>1, <1>2, <1>3, <1>6, NoHolders
  <2>3. Slot(p, i, e[i])'
    BY <1>1, <1>2, <1>3, <1>5, <1>6 DEF Slot
  <2>4. \A j \in 1 .. i - 1 : ~SameSlot(e[j], e[i])
    BY <1>2, <1>3, <1>6 DEF SameSlot
  <2>. QED
    BY <2>1, <2>2, <2>3, <2>4
<1>8. CallOk(p)'
  BY <1>5, <1>6, <1>7 DEF CallOk
<1>. QED
  BY <1>4, <1>8 DEF Calls

LEMMA EndCalls ==
    ASSUME Sane, Types, Births, Calls, NEW p \in Proc, CloneDone(p) \/ CloneFails(p)
    PROVE  Calls'
<1>0. PICK q : q = child[p]
  OBVIOUS
<1>1. /\ q # NULL /\ q \in Proc /\ todo[p] = <<>> /\ UNCHANGED <<refs, mem, todo, phase, reg>>
      /\ child' = [child EXCEPT ![p] = NULL]
      /\ \A r \in Proc : r # q => table'[r] = table[r]
  BY <1>0 DEF CloneDone, CloneFails, Types
<1>2. todo[q] = <<>> /\ \A r \in Proc : r # p => child'[r] = child[r] /\ child[r] # q
  <2>1. alive[q] = "embryo"
    BY <1>0, <1>1 DEF Births
  <2>2. todo[q] = <<>>
    BY <1>1, <2>1 DEF Births
  <2>3. \A r \in Proc : r # p => child[r] # q
    BY <1>0, <1>1, <2>1 DEF Births
  <2>. QED
    BY <1>1, <2>2, <2>3 DEF Types
<1>3. \A r \in Proc : r # p => CallOk(r)'
  BY <1>1, <1>2, OthersKept
<1>4. CallOk(p)'
  BY <1>1 DEF Calls, CallOk
<1>. QED
  BY <1>3, <1>4 DEF Calls

(* Which slots are counted.                                                *)

LEMMA SlotsFinite ==
    ASSUME Sane, NEW S \in SUBSET (Proc \X Fd)
    PROVE  /\ IsFiniteSet(S) /\ Cardinality(S) \in Nat
           /\ Cardinality(Proc) \in Nat /\ Cardinality(S) <= Cardinality(Proc) * (MaxFd + 1)
<1>1. IsFiniteSet(Fd) /\ Cardinality(Fd) = MaxFd + 1
  BY FdAssumption, FS_Interval DEF Fd
<1>2. IsFiniteSet(Proc \X Fd) /\ Cardinality(Proc \X Fd) = Cardinality(Proc) * (MaxFd + 1)
  BY <1>1, FileAssumption, FS_Product
<1>. QED
  BY <1>2, FileAssumption, FS_Subset, FS_CardinalityType

LEMMA CountedFinite ==
    ASSUME Sane, NEW f
    PROVE  IsFiniteSet(Counted(f)) /\ Cardinality(Counted(f)) \in Nat
BY SlotsFinite DEF Counted

LEMMA CountedIs ==
    ASSUME Sane, NEW f, NEW r \in Proc, NEW fd \in Fd
    PROVE  <<r, fd>> \in Counted(f) <=> Refers(r, fd, f)
BY DEF Counted

LEMMA SameCounted ==
    ASSUME Sane, NEW f, \A r \in Proc, fd \in Fd : Refers(r, fd, f)' <=> Refers(r, fd, f)
    PROVE  Counted(f)' = Counted(f)
BY DEF Counted

\* A slot is counted, or is not any more.
LEMMA OneMore ==
    ASSUME Sane, NEW f, NEW q \in Proc, NEW e \in Fd, Refers(q, e, f)', ~Refers(q, e, f),
           \A r \in Proc, fd \in Fd : ~(r = q /\ fd = e) => (Refers(r, fd, f)' <=> Refers(r, fd, f))
    PROVE  Cardinality(Counted(f)') = Cardinality(Counted(f)) + 1
<1>1. Counted(f)' = Counted(f) \cup {<<q, e>>}
  BY DEF Counted
<1>2. <<q, e>> \notin Counted(f)
  BY CountedIs
<1>. QED
  BY <1>1, <1>2, CountedFinite, FS_AddElement

LEMMA OneLess ==
    ASSUME Sane, NEW f, NEW q \in Proc, NEW e \in Fd, Refers(q, e, f), ~Refers(q, e, f)',
           \A r \in Proc, fd \in Fd : ~(r = q /\ fd = e) => (Refers(r, fd, f)' <=> Refers(r, fd, f))
    PROVE  Cardinality(Counted(f)') = Cardinality(Counted(f)) - 1 /\ Cardinality(Counted(f)) > 0
<1>1. Counted(f)' = Counted(f) \ {<<q, e>>}
  BY DEF Counted
<1>2. <<q, e>> \in Counted(f)
  BY CountedIs
<1>3. Cardinality(Counted(f)) # 0
  BY <1>2, CountedFinite, FS_EmptySet
<1>. QED
  BY <1>1, <1>2, <1>3, CountedFinite, FS_RemoveElement

\* A slot that refers to a file and is not the one a change is at is counted.
LEMMA Alone ==
    ASSUME Sane, Types, Births, Calls, NEW p \in Proc, todo[p] # <<>>, NEW x \in Proc, x # p, NEW fd
    PROVE  ~InFlight(x, p, fd) /\ ~InFlight(x, Head(todo[p]).proc, fd)
<1>1. CASE todo[x] = <<>>
  BY <1>1 DEF InFlight
<1>2. CASE todo[x] # <<>>
  <2>1. Head(todo[x]).proc # p /\ child[p] # Head(todo[x]).proc
    BY <1>2, HeadOk
  <2>2. Head(todo[p]).proc = p \/ Head(todo[p]).proc = child[p]
    BY HeadOk DEF Whose
  <2>. QED
    BY <2>1, <2>2 DEF InFlight
<1>. QED
  BY <1>1, <1>2

\* A file counts at least one slot if there is a slot that is not in flight.
LEMMA AtLeastOne ==
    ASSUME Sane, Types, Counting, NEW f \in File, mem[f], NEW r \in Proc, NEW fd \in Fd, Refers(r, fd, f)
    PROVE  refs[f] > 0
<1>1. Counted(f) # {}
  BY CountedIs
<1>2. Cardinality(Counted(f)) # 0 /\ Cardinality(Counted(f)) \in Nat
  BY <1>1, CountedFinite, FS_EmptySet
<1>. QED
  BY <1>2 DEF Counting, FileOk, Types

\* Process p takes a step of its call, and the others go on with theirs.
LEMMA OthersGoOn ==
    ASSUME Sane, NoOverlap, Types, Births, Calls, Counting, NEW p \in Proc,
           Load(p) \/ Store(p) \/ Test(p)
    PROVE  \A r \in Proc : r # p => CallOk(r)'
<1>0. PICK ch : ch = Head(todo[p])
  OBVIOUS
<1>1. /\ todo[p] # <<>> /\ UNCHANGED <<alive, child>>
      /\ \A r \in Proc : r # p => todo'[r] = todo[r] /\ phase'[r] = phase[r] /\ reg'[r] = reg[r]
      /\ \A r \in Proc : r # p /\ r # ch.proc => table'[r] = table[r]
      /\ refs' = refs \/ (Midway(p) /\ \A x \in File : x # ch.file => refs'[x] = refs[x])
      /\ mem' = mem \/ ( /\ Midway(p)
                        /\ \A x \in File : x # ch.file \/ refs[x] # 0 => mem'[x] = mem[x])
  BY <1>0 DEF Load, Store, Test, Types, Midway
<1>2. ch = todo[p][1] /\ 1 \in 1 .. Len(todo[p]) /\ ch.file \in File
  BY <1>0, <1>1, HeadIs
<1>3. /\ alive[p] \in {"live", "exited"}
      /\ \A r \in Proc \ {p} : child[r] # ch.proc /\ (todo[r] # <<>> => ch.proc # r)
  BY <1>0, <1>1, HeadOk
<1>4. ASSUME NEW r \in Proc, r # p PROVE CallOk(r)'
  <2>1. CallOk(r)
    BY DEF Calls
  <2>2. CASE todo[r] = <<>>
    BY <1>1, <1>4, <2>1, <2>2, CallKept DEF Midway
  <2>3. CASE todo[r] # <<>>
    <3>0. Head(todo[r]) = todo[r][1] /\ 1 \in 1 .. Len(todo[r])
      BY <2>3, HeadIs
    <3>1. Midway(p) /\ Midway(r) => todo[r][1].file # ch.file
      BY <1>0, <1>4, <3>0 DEF NoOverlap
    <3>2. Midway(r) => refs'[Head(todo[r]).file] = refs[Head(todo[r]).file]
      BY <1>1, <3>0, <3>1, TodoFiles
    <3>3. ASSUME NEW i \in 1 .. Len(todo[r])
          PROVE  mem'[todo[r][i].file] = mem[todo[r][i].file]
      <4>0. PICK c : c = todo[r][i]
        OBVIOUS
      <4>1. c \in ChangeRec /\ c.file \in File /\ mem[c.file]
        BY <4>0, TodoFiles
      <4>2. CASE c.file = ch.file /\ Midway(p)
        <5>1. \E fd \in Fd : Refers(r, fd, c.file)
          <6>1. CASE c.op = "take"
            <7>1. PICK fd \in Fd : /\ table[r][fd] = c.file
                                   /\ \A j \in 1 .. Len(todo[r]) : ~(todo[r][j].proc = r /\ todo[r][j].fd = fd)
              BY <2>1, <4>0, <6>1 DEF CallOk, Source
            <7>2. ~InFlight(r, r, fd)
              BY <3>0, <7>1 DEF InFlight
            <7>. QED
              BY <2>3, <7>1, <7>2, Alone DEF Refers
          <6>2. CASE c.op # "take"
            <7>1. Whose(r, c) /\ Slot(r, i, c)
              BY <2>1, <4>0 DEF CallOk
            <7>2. c.proc = r /\ c.fd \in Fd
              BY <4>1, <6>2, <7>1 DEF Whose, ChangeRec
            <7>3. i = 1 => phase[r] = "load"
              BY <2>3, <3>1, <4>0, <4>2 DEF Midway
            <7>4. table[r][c.fd] = c.file
              BY <6>2, <7>1, <7>2, <7>3 DEF Slot
            <7>5. i # 1 => ~SameSlot(todo[r][1], c)
              <8>1. i # 1 => 1 \in 1 .. i - 1
                OBVIOUS
              <8>. QED
                BY <2>1, <4>0, <6>2, <8>1 DEF CallOk
            <7>6. ~InFlight(r, r, c.fd)
              BY <3>0, <4>0, <7>2, <7>3, <7>5 DEF InFlight, SameSlot
            <7>. QED
              BY <2>3, <7>2, <7>4, <7>6, Alone DEF Refers
          <6>. QED
            BY <6>1, <6>2
        <5>2. refs[c.file] > 0 /\ refs[c.file] \in Int
          BY <4>1, <5>1, AtLeastOne DEF Types
        <5>3. refs[c.file] # 0
          BY <5>2
        <5>4. mem'[c.file] = mem[c.file]
          BY <1>1, <4>1, <5>3
        <5>. QED
          BY <4>0, <5>4
      <4>3. CASE ~(c.file = ch.file /\ Midway(p))
        BY <1>1, <4>0, <4>1, <4>3
      <4>. QED
        BY <4>2, <4>3
    <3>4. child[r] # NULL => child[r] \in Proc /\ child[r] # p /\ child[r] # ch.proc
      BY <1>3, <1>4 DEF Births, Types
    <3>5. table'[r] = table[r]
      BY <1>1, <1>3, <1>4, <2>3
    <3>. QED
      BY <1>1, <1>4, <2>1, <3>2, <3>3, <3>4, <3>5, CallKept
  <2>. QED
    BY <2>2, <2>3
<1>. QED
  BY <1>4

LEMMA LoadCalls ==
    ASSUME Sane, NoOverlap, Types, Births, Calls, Counting, NEW p \in Proc, Load(p)
    PROVE  Calls'
<1>0. PICK ch : ch = Head(todo[p])
  OBVIOUS
<1>1. /\ todo[p] # <<>> /\ phase[p] = "load" /\ UNCHANGED <<refs, mem, todo, child>>
      /\ table' = [table EXCEPT ![ch.proc][ch.fd] = ch.file]
      /\ reg'[p] = refs[ch.file] /\ phase'[p] = "store"
  BY <1>0 DEF Load, Types
<1>2. /\ ch = todo[p][1] /\ 1 \in 1 .. Len(todo[p]) /\ todo[p] \in Seq(ChangeRec)
      /\ ch.proc \in Proc /\ ch.fd \in Fd /\ ch.file \in File
  BY <1>0, <1>1, HeadIs
<1>3. CallOk(p)
  BY DEF Calls
<1>4. /\ table'[ch.proc][ch.fd] = ch.file
      /\ \A r \in Proc, fd \in Fd : ~(r = ch.proc /\ fd = ch.fd) => table'[r][fd] = table[r][fd]
  BY <1>1, <1>2 DEF Types
<1>5. ASSUME NEW i \in 1 .. Len(todo[p])
      PROVE  /\ todo[p][i].op = "take" => Source(p, todo[p][i])'
             /\ Slot(p, i, todo[p][i])'
  <2>0. PICK c : c = todo[p][i]
    OBVIOUS
  <2>1. /\ Whose(p, c) /\ Slot(p, i, c) /\ c.proc \in Proc /\ c.fd \in Fd
        /\ c.op = "take" => Source(p, c)
        /\ \A j \in 1 .. i - 1 : SameSlot(todo[p][j], c) => todo[p][j].op = "drop" /\ c.op = "take"
    <3>1. c \in ChangeRec
      BY <1>2, <2>0
    <3>. QED
      BY <1>3, <2>0, <3>1 DEF CallOk, ChangeRec
  <2>2. ASSUME c.op = "take" PROVE Source(p, c)'
    <3>1. PICK fd \in Fd :
              /\ table[p][fd] = c.file /\ ~(c.proc = p /\ c.fd = fd)
              /\ \A j \in 1 .. Len(todo[p]) : ~(todo[p][j].proc = p /\ todo[p][j].fd = fd)
      BY <2>1, <2>2 DEF Source
    <3>2. table'[p][fd] = c.file
      BY <1>2, <1>4, <3>1
    <3>. QED
      BY <1>1, <3>1, <3>2 DEF Source
  <2>3. Slot(p, i, c)'
    <3>1. CASE i = 1
      BY <1>1, <1>2, <1>4, <2>0, <3>1 DEF Slot
    <3>2. CASE i > 1 /\ SameSlot(todo[p][1], c)
      <4>1. 1 \in 1 .. i - 1
        BY <3>2
      <4>2. c.op = "take"
        BY <2>1, <3>2, <4>1
      <4>. QED
        BY <1>1, <3>2, <4>1, <4>2 DEF Slot, SameSlot
    <3>3. CASE i > 1 /\ ~SameSlot(todo[p][1], c)
      <4>1. table'[c.proc][c.fd] = table[c.proc][c.fd]
        BY <1>2, <1>4, <2>1, <3>3 DEF SameSlot
      <4>2. i # 1
        BY <3>3
      <4>. QED
        BY <1>1, <2>1, <4>1, <4>2 DEF Slot, SameSlot
    <3>. QED
      BY <3>1, <3>2, <3>3
  <2>. QED
    BY <1>1, <2>0, <2>2, <2>3
<1>6. CallOk(p)'
  <2>1. \A i \in 1 .. Len(todo[p]) :
            /\ Whose(p, todo[p][i])' /\ mem'[todo[p][i].file]
            /\ \A j \in 1 .. i - 1 : SameSlot(todo[p][j], todo[p][i]) =>
                  todo[p][j].op = "drop" /\ todo[p][i].op = "take"
    BY <1>1, <1>3 DEF CallOk, Whose
  <2>. QED
    BY <1>0, <1>1, <1>5, <2>1 DEF CallOk, SameSlot
<1>. QED
  BY <1>6, OthersGoOn DEF Calls

\* The change at the head is done, and the next one is at the head.
LEMMA NextChange ==
    ASSUME Sane, Types, NEW p \in Proc, CallOk(p), todo[p] # <<>>, NEW ch, ch = Head(todo[p]),
           todo'[p] = Tail(todo[p]), phase'[p] = "load", child'[p] = child[p],
           \A r \in Proc, fd \in Fd : ~(r = ch.proc /\ fd = ch.fd) => table'[r][fd] = table[r][fd],
           IF ch.op = "take" THEN table'[ch.proc][ch.fd] = table[ch.proc][ch.fd]
                             ELSE table'[ch.proc][ch.fd] = NULL,
           \A i \in 1 .. Len(todo[p]) : i # 1 => mem'[todo[p][i].file]
    PROVE  CallOk(p)'
<1>1. /\ ch = todo[p][1] /\ 1 \in 1 .. Len(todo[p]) /\ todo[p] \in Seq(ChangeRec)
      /\ ch.proc \in Proc /\ ch.fd \in Fd /\ ch.file \in File /\ Len(todo[p]) \in Nat
  BY HeadIs
<1>2. Len(todo'[p]) = Len(todo[p]) - 1 /\ \A i \in 1 .. Len(todo'[p]) : todo'[p][i] = todo[p][i + 1]
  BY HeadIs
<1>3. ASSUME NEW i \in 1 .. Len(todo'[p])
      PROVE  /\ Whose(p, todo[p][i])' /\ mem'[todo'[p][i].file]
             /\ todo'[p][i].op = "take" => Source(p, todo[p][i])'
             /\ Slot(p, i, todo[p][i])'
             /\ \A j \in 1 .. i - 1 : SameSlot(todo'[p][j], todo'[p][i]) =>
                   todo'[p][j].op = "drop" /\ todo'[p][i].op = "take"
  <2>0. PICK c : c = todo[p][i + 1]
    OBVIOUS
  <2>1. i + 1 \in 1 .. Len(todo[p]) /\ i + 1 # 1 /\ c = todo'[p][i] /\ i \in Nat
    BY <1>1, <1>2, <2>0
  <2>2. c \in ChangeRec
    BY <1>1, <2>0, <2>1
  <2>3. /\ Whose(p, c) /\ Slot(p, i + 1, c) /\ c.proc \in Proc /\ c.fd \in Fd
        /\ c.op = "take" => Source(p, c)
        /\ \A j \in 1 .. i : SameSlot(todo[p][j], c) => todo[p][j].op = "drop" /\ c.op = "take"
    <3>1. (i + 1) - 1 = i
      BY <2>1
    <3>. QED
      BY <2>0, <2>1, <2>2, <3>1 DEF CallOk, ChangeRec
  <2>4. Whose(p, c)' /\ mem'[c.file]
    BY <2>0, <2>1, <2>3 DEF Whose
  <2>5. ASSUME c.op = "take" PROVE Source(p, c)'
    <3>1. PICK fd \in Fd :
              /\ table[p][fd] = c.file /\ ~(c.proc = p /\ c.fd = fd)
              /\ \A j \in 1 .. Len(todo[p]) : ~(todo[p][j].proc = p /\ todo[p][j].fd = fd)
      BY <2>3, <2>5 DEF Source
    <3>2. table'[p][fd] = c.file
      BY <1>1, <3>1
    <3>3. \A j \in 1 .. Len(todo'[p]) : ~(todo'[p][j].proc = p /\ todo'[p][j].fd = fd)
      <4>1. \A j \in 1 .. Len(todo'[p]) : j + 1 \in 1 .. Len(todo[p])
        BY <1>1, <1>2
      <4>. QED
        BY <1>2, <3>1, <4>1
    <3>. QED
      BY <3>1, <3>2, <3>3 DEF Source
  <2>6. \A j \in 1 .. i - 1 : todo'[p][j] = todo[p][j + 1] /\ j + 1 \in 1 .. i
    BY <1>1, <1>2, <2>1
  <2>7. \A j \in 1 .. i - 1 : SameSlot(todo'[p][j], c) => todo'[p][j].op = "drop" /\ c.op = "take"
    BY <2>3, <2>6
  <2>8. Slot(p, i, c)'
    <3>1. CASE SameSlot(ch, c)
      <4>1. ch.op = "drop" /\ c.op = "take"
        BY <1>1, <2>1, <2>3, <3>1
      <4>2. table'[c.proc][c.fd] = NULL
        BY <3>1, <4>1 DEF SameSlot
      <4>. QED
        BY <4>1, <4>2 DEF Slot
    <3>2. CASE ~SameSlot(ch, c) /\ c.op # "take"
      <4>1. table'[c.proc][c.fd] = table[c.proc][c.fd]
        BY <2>3, <3>2 DEF SameSlot
      <4>2. table[c.proc][c.fd] = c.file
        BY <2>1, <2>3, <3>2 DEF Slot
      <4>. QED
        BY <3>2, <4>1, <4>2 DEF Slot
    <3>3. CASE ~SameSlot(ch, c) /\ c.op = "take"
      <4>1. table'[c.proc][c.fd] = table[c.proc][c.fd]
        BY <2>3, <3>3 DEF SameSlot
      <4>2. \/ table[c.proc][c.fd] = NULL
            \/ \E j \in 1 .. i : SameSlot(todo[p][j], c)
        <5>1. (i + 1) - 1 = i
          BY <2>1
        <5>. QED
          BY <2>1, <2>3, <3>3, <5>1 DEF Slot
      <4>3. CASE table[c.proc][c.fd] = NULL
        BY <3>3, <4>1, <4>3 DEF Slot
      <4>4. ASSUME NEW j \in 1 .. i, SameSlot(todo[p][j], c) PROVE Slot(p, i, c)'
        <5>1. j # 1
          BY <1>1, <3>3, <4>4
        <5>2. j - 1 \in 1 .. i - 1 /\ i > 1 /\ (j - 1) + 1 = j
          BY <2>1, <5>1
        <5>3. todo'[p][j - 1] = todo[p][j]
          BY <2>6, <5>2
        <5>4. SameSlot(todo'[p][j - 1], c)
          BY <4>4, <5>3
        <5>. QED
          BY <3>3, <5>2, <5>4 DEF Slot, SameSlot
      <4>. QED
        BY <4>2, <4>3, <4>4
    <3>. QED
      BY <3>1, <3>2, <3>3
  <2>. QED
    BY <2>1, <2>4, <2>5, <2>7, <2>8
<1>. QED
  BY <1>3 DEF CallOk, SameSlot

LEMMA StoreCalls ==
    ASSUME Sane, NoOverlap, Types, Births, Calls, Counting, NEW p \in Proc, Store(p)
    PROVE  Calls'
<1>0. PICK ch : ch = Head(todo[p])
  OBVIOUS
<1>1. /\ todo[p] # <<>> /\ phase[p] = "store" /\ UNCHANGED <<mem, child>>
      /\ refs' = [refs EXCEPT ![ch.file] = After(ch.op, reg[p])]
  BY <1>0 DEF Store
<1>2. /\ ch = todo[p][1] /\ 1 \in 1 .. Len(todo[p]) /\ todo[p] \in Seq(ChangeRec)
      /\ ch.proc \in Proc /\ ch.fd \in Fd /\ ch.file \in File /\ ch.op \in {"take", "close", "drop"}
  BY <1>0, <1>1, HeadIs
<1>3. CallOk(p) /\ (ch.op # "take" => ch.proc = p /\ table[p][ch.fd] = ch.file)
  <2>1. Slot(p, 1, ch) /\ (ch.op # "take" => ch.proc = p)
    BY <1>0, <1>1, HeadOk
  <2>. QED
    BY <1>1, <2>1 DEF Calls, Slot
<1>4. CASE ch.op = "take"
  <2>1. todo'[p] = Tail(todo[p]) /\ phase'[p] = "load" /\ table' = table
    BY <1>0, <1>4 DEF Store, Types
  <2>2. \A i \in 1 .. Len(todo[p]) : mem'[todo[p][i].file]
    BY <1>1, <1>3 DEF CallOk
  <2>3. CallOk(p)'
    BY <1>0, <1>1, <1>3, <1>4, <2>1, <2>2, NextChange
  <2>. QED
    BY <2>3, OthersGoOn DEF Calls
<1>5. CASE ch.op # "take"
  <2>1. /\ todo' = todo /\ phase'[p] = "test"
        /\ \A r \in Proc, fd \in Fd : ~(r = p /\ fd = ch.fd) => table'[r][fd] = table[r][fd]
        /\ table'[p][ch.fd] = IF ch.op = "close" THEN NULL ELSE ch.file
    BY <1>0, <1>2, <1>3, <1>5 DEF Store, Types
  <2>2. ASSUME NEW i \in 1 .. Len(todo[p])
        PROVE  /\ todo[p][i].op = "take" => Source(p, todo[p][i])'
               /\ Slot(p, i, todo[p][i])'
    <3>0. PICK c : c = todo[p][i]
      OBVIOUS
    <3>1. c \in ChangeRec
      BY <1>2, <3>0
    <3>2. /\ Whose(p, c) /\ Slot(p, i, c) /\ c.proc \in Proc /\ c.fd \in Fd
          /\ c.op = "take" => Source(p, c)
          /\ \A j \in 1 .. i - 1 : SameSlot(todo[p][j], c) => todo[p][j].op = "drop" /\ c.op = "take"
      BY <1>3, <3>0, <3>1 DEF CallOk, ChangeRec
    <3>3. ASSUME c.op = "take" PROVE Source(p, c)'
      <4>1. PICK fd \in Fd :
                /\ table[p][fd] = c.file /\ ~(c.proc = p /\ c.fd = fd)
                /\ \A j \in 1 .. Len(todo[p]) : ~(todo[p][j].proc = p /\ todo[p][j].fd = fd)
        BY <3>2, <3>3 DEF Source
      <4>2. table'[p][fd] = c.file
        BY <1>2, <1>3, <1>5, <2>1, <4>1
      <4>. QED
        BY <2>1, <4>1, <4>2 DEF Source
    <3>4. Slot(p, i, c)'
      <4>1. CASE i = 1
        BY <1>2, <1>3, <1>5, <2>1, <3>0, <4>1 DEF Slot
      <4>2. CASE i # 1 /\ SameSlot(ch, c)
        <5>1. 1 \in 1 .. i - 1 /\ i > 1
          BY <4>2
        <5>2. c.op = "take" /\ SameSlot(todo[p][1], c)
          BY <1>2, <3>2, <4>2, <5>1
        <5>. QED
          BY <2>1, <5>1, <5>2 DEF Slot, SameSlot
      <4>3. CASE i # 1 /\ ~SameSlot(ch, c)
        <5>1. table'[c.proc][c.fd] = table[c.proc][c.fd]
          BY <1>3, <1>5, <2>1, <3>2, <4>3 DEF SameSlot
        <5>. QED
          BY <2>1, <3>2, <4>3, <5>1 DEF Slot, SameSlot
      <4>. QED
        BY <4>1, <4>2, <4>3
    <3>. QED
      BY <2>1, <3>0, <3>3, <3>4
  <2>3. \A i \in 1 .. Len(todo[p]) :
            /\ Whose(p, todo[p][i])' /\ mem'[todo[p][i].file]
            /\ \A j \in 1 .. i - 1 : SameSlot(todo[p][j], todo[p][i]) =>
                  todo[p][j].op = "drop" /\ todo[p][i].op = "take"
    BY <1>1, <1>3, <2>1 DEF CallOk, Whose
  <2>4. CallOk(p)'
    BY <1>0, <1>1, <1>5, <2>1, <2>2, <2>3 DEF CallOk, SameSlot
  <2>. QED
    BY <2>4, OthersGoOn DEF Calls
<1>. QED
  BY <1>4, <1>5

LEMMA TestCalls ==
    ASSUME Sane, NoOverlap, Types, Births, Calls, Counting, NEW p \in Proc, Test(p)
    PROVE  Calls'
<1>0. PICK ch : ch = Head(todo[p])
  OBVIOUS
<1>1. /\ todo[p] # <<>> /\ phase[p] = "test" /\ UNCHANGED <<refs, child>>
      /\ table' = [table EXCEPT ![p][ch.fd] = NULL]
      /\ mem' = [mem EXCEPT ![ch.file] = IF refs[ch.file] = 0 THEN FALSE ELSE @]
      /\ todo'[p] = Tail(todo[p]) /\ phase'[p] = "load"
  BY <1>0 DEF Test, Types
<1>2. /\ ch = todo[p][1] /\ 1 \in 1 .. Len(todo[p]) /\ todo[p] \in Seq(ChangeRec)
      /\ ch.proc \in Proc /\ ch.fd \in Fd /\ ch.file \in File /\ Len(todo[p]) \in Nat
  BY <1>0, <1>1, HeadIs
<1>3. CallOk(p) /\ ch.op # "take" /\ ch.proc = p
  <2>1. CallOk(p) /\ (ch.op # "take" => ch.proc = p)
    BY <1>0, <1>1, HeadOk
  <2>. QED
    BY <1>0, <1>1, <2>1 DEF CallOk
<1>4. /\ \A r \in Proc, fd \in Fd : ~(r = p /\ fd = ch.fd) => table'[r][fd] = table[r][fd]
      /\ table'[p][ch.fd] = NULL
  BY <1>1, <1>2 DEF Types
<1>5. ASSUME NEW fd \in Fd, fd # ch.fd, table[p][fd] = ch.file PROVE refs[ch.file] > 0
  <2>1. Refers(p, fd, ch.file)
    BY <1>0, <1>1, <1>5, Alone DEF Refers, InFlight
  <2>2. mem[ch.file]
    BY <1>0, <1>1, HeadOk
  <2>. QED
    BY <1>2, <2>1, <2>2, AtLeastOne
<1>6. ASSUME NEW i \in 1 .. Len(todo[p]), i # 1 PROVE mem'[todo[p][i].file]
  <2>0. PICK c : c = todo[p][i]
    OBVIOUS
  <2>1. c \in ChangeRec /\ c.file \in File /\ mem[c.file]
    BY <2>0, TodoFiles
  <2>2. CASE c.file # ch.file
    BY <1>1, <2>0, <2>1, <2>2 DEF Types
  <2>3. CASE c.file = ch.file
    <3>1. 1 \in 1 .. i - 1
      BY <1>2, <1>6
    <3>2. \E fd \in Fd : fd # ch.fd /\ table[p][fd] = ch.file
      <4>1. CASE c.op = "take"
        <5>1. Source(p, c)
          BY <1>3, <2>0, <4>1 DEF CallOk
        <5>. QED
          BY <1>2, <1>3, <2>3, <5>1 DEF Source
      <4>2. CASE c.op # "take"
        <5>1. Whose(p, c) /\ Slot(p, i, c) /\ ~SameSlot(ch, c)
          BY <1>2, <1>3, <2>0, <3>1, <4>2 DEF CallOk
        <5>2. c.proc = p /\ c.fd \in Fd
          BY <2>1, <4>2, <5>1 DEF Whose, ChangeRec
        <5>3. table[p][c.fd] = c.file /\ c.fd # ch.fd
          BY <1>3, <1>6, <4>2, <5>1, <5>2 DEF Slot, SameSlot
        <5>. QED
          BY <2>3, <5>2, <5>3
      <4>. QED
        BY <4>1, <4>2
    <3>3. refs[ch.file] > 0 /\ refs[ch.file] \in Int
      BY <1>2, <1>5, <3>2 DEF Types
    <3>. QED
      BY <1>1, <2>0, <2>1, <2>3, <3>3 DEF Types
  <2>. QED
    BY <2>2, <2>3
<1>7. CallOk(p)'
  BY <1>0, <1>1, <1>2, <1>3, <1>4, <1>6, NextChange
<1>. QED
  BY <1>7, OthersGoOn DEF Calls

LEMMA CallsStep ==
    ASSUME Sane, NoOverlap, Types, Types', Births, Calls, Counting, Next
    PROVE  Calls'
<1>1. ASSUME NEW q \in Proc, NEW f \in File, Spawn(q, f) PROVE Calls'
  <2>1. alive[q] = "none" /\ ~mem[f] /\ UNCHANGED <<todo, phase, reg, child>>
    BY <1>1 DEF Spawn
  <2>2. todo[q] = <<>>
    BY <2>1 DEF Births
  <2>3. /\ \A r \in Proc : r # q => table'[r] = table[r]
        /\ \A x \in File : x # f => refs'[x] = refs[x] /\ mem'[x] = mem[x]
    BY <1>1 DEF Spawn, Types
  <2>. QED
    BY <2>1, <2>2, <2>3, NewFileCalls
<1>2. ASSUME NEW p \in Proc, NEW fd \in Fd, NEW f \in File, Open(p, fd, f) PROVE Calls'
  <2>1. alive[p] = "live" /\ todo[p] = <<>> /\ ~mem[f] /\ UNCHANGED <<todo, phase, reg, child>>
    BY <1>2 DEF Open, Ready
  <2>2. /\ \A r \in Proc : r # p => table'[r] = table[r]
        /\ \A x \in File : x # f => refs'[x] = refs[x] /\ mem'[x] = mem[x]
    BY <1>2 DEF Open, Types
  <2>. QED
    BY <2>1, <2>2, NewFileCalls
<1>. QED
  BY <1>1, <1>2, CloseCalls, Dup2Calls, CloneCalls, ExitCalls, EndCalls, LoadCalls, StoreCalls,
     TestCalls DEF Next

\* Nothing changes for file f.
LEMMA SameFile ==
    ASSUME Sane, Counting, NEW f \in File, refs'[f] = refs[f], mem'[f] = mem[f], fails' = fails,
           \A r \in Proc, fd \in Fd : Refers(r, fd, f)' <=> Refers(r, fd, f),
           ~mem[f] => \A r \in Proc, fd \in Fd : table'[r][fd] # f,
           Tested(f) => Tested(f)'
    PROVE  FileOk(f)'
<1>1. Counted(f)' = Counted(f)
  BY SameCounted
<1>2. FileOk(f)
  BY DEF Counting
<1>3. CASE mem[f]
  BY <1>1, <1>2, <1>3 DEF FileOk
<1>4. CASE ~mem[f]
  <2>1. Holders(f)' = {}
    BY <1>4 DEF Holders
  <2>. QED
    BY <1>4, <2>1 DEF FileOk
<1>. QED
  BY <1>3, <1>4

\* A call begins, or a clone is done.
LEMMA BeginCounts ==
    ASSUME Sane, Types, Calls, Counting, NEW p \in Proc, todo[p] = <<>>,
           UNCHANGED <<table, refs, mem, phase, fails>>, \A r \in Proc : r # p => todo'[r] = todo[r]
    PROVE  Counting'
<1>1. phase[p] = "load"
  BY DEF Calls, CallOk
<1>2. \A x, r \in Proc, fd \in Fd : InFlight(x, r, fd)' <=> InFlight(x, r, fd)
  BY <1>1 DEF InFlight
<1>3. ASSUME NEW f \in File PROVE FileOk(f)'
  <2>1. \A r \in Proc, fd \in Fd : Refers(r, fd, f)' <=> Refers(r, fd, f)
    BY <1>2 DEF Refers
  <2>2. ~mem[f] => \A r \in Proc, fd \in Fd : table'[r][fd] # f
    BY NoHolders
  <2>3. Tested(f) => Tested(f)'
    BY <1>1 DEF Tested
  <2>. QED
    BY <2>1, <2>2, <2>3, SameFile
<1>. QED
  BY <1>3 DEF Counting

\* A file is opened in slots of process q that referred to nothing.
LEMMA OpenCounts ==
    ASSUME Sane, Types, Births, Calls, Counting, NEW q \in Proc, NEW f \in File, ~mem[f],
           todo[q] = <<>>, alive[q] # "embryo", UNCHANGED <<todo, phase, fails>>,
           NEW S \in SUBSET Fd, refs'[f] = Cardinality({q} \X S), refs'[f] \in Nat \ {0}, mem'[f],
           \A x \in File : x # f => refs'[x] = refs[x] /\ mem'[x] = mem[x],
           \A r \in Proc, fd \in Fd :
              IF r = q /\ fd \in S THEN table'[r][fd] = f /\ table[r][fd] = NULL
                                   ELSE table'[r][fd] = table[r][fd]
    PROVE  Counting'
<1>1. ASSUME NEW x \in Proc, NEW fd \in Fd PROVE ~InFlight(x, q, fd)
  <2>1. CASE todo[x] = <<>>
    BY <2>1 DEF InFlight
  <2>2. CASE todo[x] # <<>>
    <3>1. x # q
      BY <2>2
    <3>2. Head(todo[x]).proc # q
      BY <2>2, <3>1, HeadOk
    <3>. QED
      BY <3>2 DEF InFlight
  <2>. QED
    BY <2>1, <2>2
<1>2. \A x, r \in Proc, fd \in Fd : InFlight(x, r, fd)' <=> InFlight(x, r, fd)
  BY DEF InFlight
<1>3. ASSUME NEW x \in File, x # f PROVE FileOk(x)'
  <2>1. \A r \in Proc, fd \in Fd : Refers(r, fd, x)' <=> Refers(r, fd, x)
    BY <1>2, <1>3, FileAssumption DEF Refers
  <2>2. ~mem[x] => \A r \in Proc, fd \in Fd : table'[r][fd] # x
    BY <1>3, NoHolders
  <2>3. Tested(x) => Tested(x)'
    BY DEF Tested
  <2>. QED
    BY <1>3, <2>1, <2>2, <2>3, SameFile
<1>4. FileOk(f)'
  <2>1. \A r \in Proc, fd \in Fd : Refers(r, fd, f)' <=> r = q /\ fd \in S
    BY <1>1, <1>2, NoHolders DEF Refers
  <2>2. Counted(f)' = {q} \X S
    BY <2>1 DEF Counted
  <2>3. fails * (MaxFd + 1) >= 0 /\ fails * (MaxFd + 1) \in Int
    BY FdAssumption, RunAssumption DEF Types
  <2>. QED
    BY <2>2, <2>3 DEF FileOk
<1>. QED
  BY <1>3, <1>4 DEF Counting

\* The three descriptors of the standard input and outputs.
LEMMA ThreeSlots ==
    ASSUME Sane, NEW q \in Proc
    PROVE  Cardinality({q} \X (0 .. 2)) = 3
<1>. DEFINE S == 0 .. 2
<1>1. IsFiniteSet(S) /\ Cardinality(S) = 3
  <2>1. ASSUME NEW a \in Int, NEW b \in Int, a <= b
        PROVE  IsFiniteSet(a .. b) /\ Cardinality(a .. b) = b - a + 1
    BY <2>1, FS_Interval
  <2>2. PICK a \in Int, b \in Int : a = 0 /\ b = 2
    OBVIOUS
  <2>3. a <= b
    BY <2>2
  <2>4. IsFiniteSet(a .. b) /\ Cardinality(a .. b) = b - a + 1
    BY <2>1, <2>3
  <2>. QED
    BY <2>2, <2>4
<1>2. IsFiniteSet({q}) /\ Cardinality({q}) = 1
  BY FS_Singleton
<1>3. Cardinality({q} \X S) = Cardinality({q}) * Cardinality(S)
  BY <1>1, <1>2, FS_Product
<1>. QED
  BY <1>1, <1>2, <1>3

LEMMA SpawnCounts ==
    ASSUME Sane, Types, Births, Calls, Counting, NEW q \in Proc, NEW f \in File, Spawn(q, f)
    PROVE  Counting'
<1>. DEFINE S == 0 .. 2
<1>1. /\ alive[q] = "none" /\ ~mem[f] /\ UNCHANGED <<todo, phase, fails>>
      /\ table' = [table EXCEPT ![q] = StandardIo(f)] /\ refs'[f] = 3 /\ mem'[f] = TRUE
      /\ \A x \in File : x # f => refs'[x] = refs[x] /\ mem'[x] = mem[x]
  BY DEF Spawn, Types
<1>2. todo[q] = <<>> /\ \A fd \in Fd : table[q][fd] = NULL
  BY <1>1 DEF Births, Empty
<1>3. S \in SUBSET Fd /\ \A fd \in Fd : fd \in S <=> fd <= 2
  BY FdAssumption DEF Fd
<1>4. Cardinality({q} \X S) = 3
  BY ThreeSlots
<1>. HIDE DEF S
<1>5. \A r \in Proc, fd \in Fd :
          IF r = q /\ fd \in S THEN table'[r][fd] = f /\ table[r][fd] = NULL
                               ELSE table'[r][fd] = table[r][fd]
  BY <1>1, <1>2, <1>3 DEF StandardIo, Types
<1>6. refs'[f] = Cardinality({q} \X S) /\ refs'[f] \in Nat \ {0} /\ mem'[f]
  BY <1>1, <1>4
<1>. QED
  BY <1>1, <1>2, <1>3, <1>5, <1>6, OpenCounts

LEMMA OpenOneCounts ==
    ASSUME Sane, Types, Births, Calls, Counting, NEW p \in Proc, NEW fd \in Fd, NEW f \in File, Open(p, fd, f)
    PROVE  Counting'
<1>1. /\ alive[p] = "live" /\ todo[p] = <<>> /\ ~mem[f] /\ UNCHANGED <<todo, phase, fails>>
      /\ table' = [table EXCEPT ![p][fd] = f] /\ refs'[f] = 1 /\ mem'[f] = TRUE
      /\ table[p][fd] = NULL
      /\ \A x \in File : x # f => refs'[x] = refs[x] /\ mem'[x] = mem[x]
  BY DEF Open, Ready, Types
<1>. DEFINE S == {fd}
<1>2. S \in SUBSET Fd /\ \A e \in Fd : e \in S <=> e = fd
  OBVIOUS
<1>3. Cardinality({p} \X S) = 1
  <2>1. {p} \X S = {<<p, fd>>}
    OBVIOUS
  <2>. QED
    BY <2>1, FS_Singleton
<1>. HIDE DEF S
<1>4. \A r \in Proc, e \in Fd :
          IF r = p /\ e \in S THEN table'[r][e] = f /\ table[r][e] = NULL
                               ELSE table'[r][e] = table[r][e]
  BY <1>1, <1>2 DEF Types
<1>5. refs'[f] = Cardinality({p} \X S) /\ refs'[f] \in Nat \ {0} /\ mem'[f]
  BY <1>1, <1>3
<1>. QED
  BY <1>1, <1>2, <1>4, <1>5, OpenCounts

\* A clone fails: the slots of the child are gone, and what they counted stays.
LEMMA FailCounts ==
    ASSUME Sane, Types, Births, Calls, Counting, NEW p \in Proc, CloneFails(p)
    PROVE  Counting'
<1>0. PICK q : q = child[p]
  OBVIOUS
<1>1. /\ q \in Proc /\ table' = [table EXCEPT ![q] = Empty] /\ fails' = fails + 1
      /\ UNCHANGED <<refs, mem, todo, phase>>
  BY <1>0 DEF CloneFails, Types
<1>2. \A x, r \in Proc, fd \in Fd : InFlight(x, r, fd)' <=> InFlight(x, r, fd)
  BY <1>1 DEF InFlight
<1>3. \A r \in Proc, fd \in Fd : table'[r][fd] = IF r = q THEN NULL ELSE table[r][fd]
  BY <1>1 DEF Types, Empty
<1>4. ASSUME NEW f \in File PROVE FileOk(f)'
  <2>. DEFINE C == Counted(f)
              Q == {q} \X Fd
  <2>0. FileOk(f) /\ f # NULL
    BY FileAssumption DEF Counting
  <2>1. Counted(f)' = C \ Q
    <3>1. \A r \in Proc, fd \in Fd : Refers(r, fd, f)' <=> Refers(r, fd, f) /\ r # q
      BY <1>2, <1>3, <2>0 DEF Refers
    <3>. QED
      BY <3>1 DEF Counted
  <2>2. IsFiniteSet(Q) /\ Cardinality(Q) = MaxFd + 1
    <3>1. IsFiniteSet(Fd) /\ Cardinality(Fd) = MaxFd + 1
      BY FdAssumption, FS_Interval DEF Fd
    <3>2. IsFiniteSet({q}) /\ Cardinality({q}) = 1
      BY FS_Singleton
    <3>3. IsFiniteSet(Q) /\ Cardinality(Q) = Cardinality({q}) * Cardinality(Fd)
      BY <3>1, <3>2, FS_Product
    <3>. QED
      BY <3>1, <3>2, <3>3, FdAssumption
  <2>3. /\ Cardinality(C \ Q) = Cardinality(C) - Cardinality(C \cap Q)
        /\ Cardinality(C \cap Q) <= Cardinality(Q)
        /\ Cardinality(C) \in Nat /\ Cardinality(C \cap Q) \in Nat
    <3>1. IsFiniteSet(C) /\ Cardinality(C) \in Nat
      BY CountedFinite
    <3>2. Cardinality(C \ Q) = Cardinality(C) - Cardinality(C \cap Q)
      BY <3>1, FS_Difference
    <3>3. IsFiniteSet(C \cap Q) /\ Cardinality(C \cap Q) <= Cardinality(Q)
      BY <2>2, FS_Intersection
    <3>4. Cardinality(C \cap Q) \in Nat
      BY <3>3, FS_CardinalityType
    <3>. QED
      BY <3>1, <3>2, <3>3, <3>4
  <2>. HIDE DEF C, Q
  <2>4. (fails + 1) * (MaxFd + 1) = fails * (MaxFd + 1) + (MaxFd + 1) /\ fails * (MaxFd + 1) \in Int
    BY FdAssumption, RunAssumption DEF Types
  <2>5. CASE mem[f]
    <3>1. /\ Cardinality(C) <= refs[f] /\ refs[f] <= Cardinality(C) + fails * (MaxFd + 1)
          /\ refs[f] > 0 \/ Tested(f)
      BY <2>0, <2>5 DEF FileOk, C
    <3>2. Tested(f)' <=> Tested(f)
      BY <1>1 DEF Tested
    <3>3. refs[f] \in Int /\ MaxFd \in Int
      BY FdAssumption DEF Types
    <3>4. Cardinality(C \ Q) <= refs[f] /\ refs[f] <= Cardinality(C \ Q) + (fails + 1) * (MaxFd + 1)
      BY <2>2, <2>3, <2>4, <3>1, <3>3
    <3>. QED
      BY <1>1, <2>1, <2>5, <3>1, <3>2, <3>4 DEF FileOk
  <2>6. CASE ~mem[f]
    <3>1. \A r \in Proc, fd \in Fd : table'[r][fd] # f
      BY <1>3, <2>0, <2>6, NoHolders
    <3>2. Holders(f)' = {}
      BY <3>1 DEF Holders
    <3>. QED
      BY <1>1, <2>6, <3>2 DEF FileOk
  <2>. QED
    BY <2>5, <2>6
<1>. QED
  BY <1>4 DEF Counting

\* The slots that are in flight while process p makes a change: no other call
\* is about them, so that what p does decides which of them are counted.
LEMMA Steps ==
    ASSUME Sane, Types, Births, Calls, NEW p \in Proc, todo[p] # <<>>, NEW ch, ch = Head(todo[p]),
           \A r \in Proc : r # p => todo'[r] = todo[r] /\ phase'[r] = phase[r],
           \A r \in Proc, fd \in Fd : ~(r = ch.proc /\ fd = ch.fd) => table'[r][fd] = table[r][fd],
           \/ todo'[p] = todo[p]
           \/ phase'[p] = "load"
    PROVE  /\ \A f \in File, r \in Proc, fd \in Fd :
                 ~(r = ch.proc /\ fd = ch.fd) => (Refers(r, fd, f)' <=> Refers(r, fd, f))
           /\ \A f \in File : Refers(ch.proc, ch.fd, f) <=>
                 table[ch.proc][ch.fd] = f /\ ~InFlight(p, ch.proc, ch.fd)
           /\ \A f \in File : Refers(ch.proc, ch.fd, f)' <=>
                 table'[ch.proc][ch.fd] = f /\ ~InFlight(p, ch.proc, ch.fd)'
<1>1. ASSUME NEW x \in Proc, x # p, NEW r, NEW fd PROVE InFlight(x, r, fd)' <=> InFlight(x, r, fd)
  BY <1>1 DEF InFlight
<1>2. ASSUME NEW r \in Proc, NEW fd \in Fd, ~(r = ch.proc /\ fd = ch.fd)
      PROVE  ~InFlight(p, r, fd) /\ ~InFlight(p, r, fd)'
  BY <1>2 DEF InFlight
<1>3. ASSUME NEW x \in Proc, x # p PROVE ~InFlight(x, ch.proc, ch.fd)
  BY <1>3, Alone
<1>4. ASSUME NEW f \in File, NEW r \in Proc, NEW fd \in Fd, ~(r = ch.proc /\ fd = ch.fd)
      PROVE  Refers(r, fd, f)' <=> Refers(r, fd, f)
  BY <1>1, <1>2, <1>4 DEF Refers
<1>5. ASSUME NEW f \in File
      PROVE  /\ Refers(ch.proc, ch.fd, f) <=>
                   table[ch.proc][ch.fd] = f /\ ~InFlight(p, ch.proc, ch.fd)
             /\ Refers(ch.proc, ch.fd, f)' <=>
                   table'[ch.proc][ch.fd] = f /\ ~InFlight(p, ch.proc, ch.fd)'
  BY <1>1, <1>3 DEF Refers
<1>. QED
  BY <1>4, <1>5

LEMMA LoadCounts ==
    ASSUME Sane, Types, Births, Calls, Counting, NEW p \in Proc, Load(p)
    PROVE  Counting'
<1>0. PICK ch : ch = Head(todo[p])
  OBVIOUS
<1>1. /\ todo[p] # <<>> /\ phase[p] = "load" /\ UNCHANGED <<refs, mem, todo, fails>>
      /\ table' = [table EXCEPT ![ch.proc][ch.fd] = ch.file]
      /\ phase' = [phase EXCEPT ![p] = "store"]
  BY <1>0 DEF Load
<1>2. ch.proc \in Proc /\ ch.fd \in Fd /\ ch.file \in File /\ mem[ch.file] /\ Slot(p, 1, ch)
      /\ ch.op \in {"take", "close", "drop"}
  BY <1>0, <1>1, HeadIs, HeadOk
<1>3. /\ phase'[p] = "store" /\ \A r \in Proc : r # p => phase'[r] = phase[r]
      /\ \A r \in Proc, fd \in Fd : ~(r = ch.proc /\ fd = ch.fd) => table'[r][fd] = table[r][fd]
      /\ table'[ch.proc][ch.fd] = ch.file
  BY <1>1, <1>2 DEF Types
<1>4. /\ ~InFlight(p, ch.proc, ch.fd)
      /\ InFlight(p, ch.proc, ch.fd)' <=> ch.op = "take"
  BY <1>0, <1>1, <1>3 DEF InFlight
<1>5. table[ch.proc][ch.fd] = IF ch.op = "take" THEN NULL ELSE ch.file
  BY <1>1, <1>2 DEF Slot
<1>6. ASSUME NEW f \in File PROVE FileOk(f)'
  <2>1. f # NULL
    BY FileAssumption
  <2>2. \A r \in Proc, fd \in Fd : Refers(r, fd, f)' <=> Refers(r, fd, f)
    <3>1. \A r \in Proc, fd \in Fd :
              ~(r = ch.proc /\ fd = ch.fd) => (Refers(r, fd, f)' <=> Refers(r, fd, f))
      BY <1>0, <1>1, <1>3, Steps
    <3>2. Refers(ch.proc, ch.fd, f) <=> table[ch.proc][ch.fd] = f /\ ~InFlight(p, ch.proc, ch.fd)
      BY <1>0, <1>1, <1>3, Steps
    <3>3. Refers(ch.proc, ch.fd, f)' <=> table'[ch.proc][ch.fd] = f /\ ~InFlight(p, ch.proc, ch.fd)'
      BY <1>0, <1>1, <1>3, Steps
    <3>4. Refers(ch.proc, ch.fd, f)' <=> Refers(ch.proc, ch.fd, f)
      BY <1>3, <1>4, <1>5, <2>1, <3>2, <3>3
    <3>. QED
      BY <3>1, <3>4
  <2>3. ~mem[f] => \A r \in Proc, fd \in Fd : table'[r][fd] # f
    BY <1>2, <1>3, NoHolders
  <2>4. Tested(f) => Tested(f)'
    <3>1. \A r \in Proc : phase[r] = "test" => phase'[r] = "test"
      BY <1>1, <1>3
    <3>. QED
      BY <1>1, <3>1 DEF Tested
  <2>. QED
    BY <1>1, <2>2, <2>3, <2>4, SameFile
<1>. QED
  BY <1>6 DEF Counting

\* The new count fits: no more references than slots and leaks.
LEMMA Fits ==
    ASSUME Sane, Types', NEW f \in File, NEW n \in Int, n >= 0,
           n <= Cardinality(Counted(f)') + fails' * (MaxFd + 1)
    PROVE  n % 2 ^ CountBits = n
<1>. DEFINE C == Cardinality(Counted(f)')
            P == Cardinality(Proc)
<1>1. C \in Nat /\ P \in Nat /\ C <= P * (MaxFd + 1)
  <2>1. Counted(f)' \in SUBSET (Proc \X Fd)
    BY DEF Counted
  <2>. QED
    BY <2>1, SlotsFinite
<1>2. fails' \in Nat /\ fails' <= MaxFail /\ MaxFail \in Nat /\ MaxFd \in Nat
  BY FdAssumption, RunAssumption DEF Types
<1>. HIDE DEF C, P
<1>4. /\ fails' * (MaxFd + 1) <= MaxFail * (MaxFd + 1)
      /\ (P + MaxFail) * (MaxFd + 1) = P * (MaxFd + 1) + MaxFail * (MaxFd + 1)
      /\ fails' * (MaxFd + 1) \in Int /\ MaxFail * (MaxFd + 1) \in Int
  <2>1. PICK a \in Nat, b \in Nat, c \in Nat, d \in Nat, e \in Nat :
            a = fails' /\ b = MaxFail /\ c = MaxFd + 1 /\ d = P /\ b = a + e
    <3>1. \A a, b \in Nat : a <= b => \E e \in Nat : b = a + e
      <4>1. ASSUME NEW a \in Nat, NEW b \in Nat, a <= b PROVE b - a \in Nat /\ b = a + (b - a)
        BY <4>1
      <4>. QED
        BY <4>1
    <3>. QED
      BY <1>1, <1>2, <3>1
  <2>2. /\ (a + e) * c = a * c + e * c /\ e * c >= 0 /\ (d + b) * c = d * c + b * c
        /\ a * c \in Int /\ b * c \in Int /\ e * c \in Int
    OBVIOUS
  <2>3. b * c = (a + e) * c
    BY <2>1
  <2>4. a * c <= b * c
    BY <2>2, <2>3
  <2>. QED
    BY <2>1, <2>2, <2>4
<1>5. P * (MaxFd + 1) \in Int
  BY <1>1, <1>2
<1>6. n <= P * (MaxFd + 1) + MaxFail * (MaxFd + 1)
  BY <1>1, <1>4, <1>5 DEF C
<1>7. n < 2 ^ CountBits /\ 2 ^ CountBits \in Nat
  BY <1>4, <1>5, <1>6, WidthAssumption DEF P
<1>. QED
  BY <1>7, Width

LEMMA StoreCounts ==
    ASSUME Sane, Types, Types', Births, Calls, Counting, NEW p \in Proc, Store(p)
    PROVE  Counting'
<1>0. PICK ch : ch = Head(todo[p])
  OBVIOUS
<1>1. /\ todo[p] # <<>> /\ phase[p] = "store" /\ UNCHANGED <<mem, fails>>
      /\ refs' = [refs EXCEPT ![ch.file] = After(ch.op, reg[p])]
      /\ \A r \in Proc : r # p => todo'[r] = todo[r] /\ phase'[r] = phase[r]
  BY <1>0 DEF Store, Types
<1>2. /\ ch.proc \in Proc /\ ch.fd \in Fd /\ ch.file \in File /\ mem[ch.file] /\ Slot(p, 1, ch)
      /\ ch.op \in {"take", "close", "drop"} /\ (ch.op # "take" => ch.proc = p)
  BY <1>0, <1>1, HeadIs, HeadOk
<1>3. table[ch.proc][ch.fd] = ch.file /\ reg[p] = refs[ch.file] /\ ch.file # NULL
  BY <1>0, <1>1, <1>2, FileAssumption DEF Slot, Calls, CallOk
<1>4. /\ \/ ch.op = "take" /\ phase'[p] = "load" /\ table' = table
         \/ /\ ch.op = "close" /\ phase'[p] = "test" /\ todo'[p] = todo[p]
            /\ table' = [table EXCEPT ![p][ch.fd] = NULL]
         \/ ch.op = "drop" /\ phase'[p] = "test" /\ todo'[p] = todo[p] /\ table' = table
  BY <1>0 DEF Store, Types
<1>5. /\ \A r \in Proc, fd \in Fd : ~(r = ch.proc /\ fd = ch.fd) => table'[r][fd] = table[r][fd]
      /\ table'[ch.proc][ch.fd] = IF ch.op = "close" THEN NULL ELSE ch.file
  <2>1. CASE ch.op = "close"
    <3>1. ch.proc = p /\ table' = [table EXCEPT ![p][ch.fd] = NULL]
      BY <1>2, <1>4, <2>1
    <3>. QED
      BY <1>2, <2>1, <3>1 DEF Types
  <2>2. CASE ch.op # "close"
    BY <1>3, <1>4, <2>2
  <2>. QED
    BY <2>1, <2>2
<1>6. todo'[p] = todo[p] \/ phase'[p] = "load"
  BY <1>4
<1>7. /\ InFlight(p, ch.proc, ch.fd) <=> ch.op = "take"
      /\ InFlight(p, ch.proc, ch.fd)' <=> ch.op = "drop"
  BY <1>0, <1>1, <1>4 DEF InFlight
<1>8. ASSUME NEW f \in File
      PROVE  /\ \A r \in Proc, fd \in Fd :
                   ~(r = ch.proc /\ fd = ch.fd) => (Refers(r, fd, f)' <=> Refers(r, fd, f))
             /\ Refers(ch.proc, ch.fd, f) <=> f = ch.file /\ ch.op # "take"
             /\ Refers(ch.proc, ch.fd, f)' <=> f = ch.file /\ ch.op = "take"
  <2>1. f # NULL
    BY FileAssumption
  <2>2. /\ \A r \in Proc, fd \in Fd :
              ~(r = ch.proc /\ fd = ch.fd) => (Refers(r, fd, f)' <=> Refers(r, fd, f))
        /\ Refers(ch.proc, ch.fd, f) <=>
              table[ch.proc][ch.fd] = f /\ ~InFlight(p, ch.proc, ch.fd)
        /\ Refers(ch.proc, ch.fd, f)' <=>
              table'[ch.proc][ch.fd] = f /\ ~InFlight(p, ch.proc, ch.fd)'
    BY <1>0, <1>1, <1>5, <1>6, Steps
  <2>. QED
    BY <1>2, <1>3, <1>5, <1>7, <2>1, <2>2
<1>9. ASSUME NEW f \in File, f # ch.file PROVE FileOk(f)'
  <2>1. \A r \in Proc, fd \in Fd : Refers(r, fd, f)' <=> Refers(r, fd, f)
    BY <1>8, <1>9
  <2>2. ~mem[f] => \A r \in Proc, fd \in Fd : table'[r][fd] # f
    BY <1>2, <1>5, <1>9, FileAssumption, NoHolders
  <2>3. Tested(f) => Tested(f)'
    BY <1>1 DEF Tested
  <2>4. refs'[f] = refs[f]
    BY <1>1, <1>9 DEF Types
  <2>. QED
    BY <1>1, <2>1, <2>2, <2>3, <2>4, SameFile
<1>10. FileOk(ch.file)'
  <2>0. PICK f \in File : f = ch.file
    BY <1>2
  <2>1. /\ Cardinality(Counted(f)) <= refs[f] /\ refs[f] \in Int
        /\ refs[f] <= Cardinality(Counted(f)) + fails * (MaxFd + 1)
        /\ fails * (MaxFd + 1) \in Int /\ fails * (MaxFd + 1) >= 0
        /\ Cardinality(Counted(f)) \in Nat
    <3>1. FileOk(f) /\ mem[f]
      BY <1>2, <2>0 DEF Counting
    <3>2. fails \in Nat /\ MaxFd \in Nat
      BY FdAssumption, RunAssumption DEF Types
    <3>. QED
      BY <3>1, <3>2, CountedFinite DEF FileOk, Types
  <2>2. CASE ch.op = "take"
    <3>1. Cardinality(Counted(f)') = Cardinality(Counted(f)) + 1
      BY <1>2, <1>8, <2>0, <2>2, OneMore
    <3>2. refs'[f] = (refs[f] + 1) % 2 ^ CountBits
      BY <1>1, <1>3, <2>0, <2>2 DEF After, Types
    <3>3. refs'[f] = refs[f] + 1
      BY <1>1, <2>1, <3>1, <3>2, Fits
    <3>. QED
      BY <1>1, <1>2, <2>0, <2>1, <3>1, <3>3 DEF FileOk
  <2>3. CASE ch.op # "take"
    <3>0. PICK r \in Proc, fd \in Fd : r = ch.proc /\ fd = ch.fd
      BY <1>2
    <3>1. Cardinality(Counted(f)') = Cardinality(Counted(f)) - 1 /\ Cardinality(Counted(f)) > 0
      <4>1. Refers(r, fd, f) /\ ~Refers(r, fd, f)'
        BY <1>8, <2>0, <2>3, <3>0
      <4>2. \A x \in Proc, e \in Fd : ~(x = r /\ e = fd) => (Refers(x, e, f)' <=> Refers(x, e, f))
        BY <1>8, <3>0
      <4>. QED
        BY <4>1, <4>2, OneLess
    <3>2. refs'[f] = (refs[f] - 1) % 2 ^ CountBits
      BY <1>1, <1>3, <2>0, <2>3 DEF After, Types
    <3>3. refs'[f] = refs[f] - 1
      BY <1>1, <2>1, <3>1, <3>2, Fits
    <3>4. Tested(f)'
      BY <1>0, <1>4, <2>0, <2>3 DEF Tested
    <3>. QED
      BY <1>1, <1>2, <2>0, <2>1, <3>1, <3>3, <3>4 DEF FileOk
  <2>. QED
    BY <2>2, <2>3
<1>. QED
  BY <1>9, <1>10 DEF Counting

LEMMA TestCounts ==
    ASSUME Sane, NoOverlap, Types, Births, Calls, Counting, NEW p \in Proc, Test(p)
    PROVE  Counting'
<1>0. PICK ch : ch = Head(todo[p])
  OBVIOUS
<1>1. /\ todo[p] # <<>> /\ phase[p] = "test" /\ UNCHANGED <<refs, fails>>
      /\ table' = [table EXCEPT ![p][ch.fd] = NULL]
      /\ mem' = [mem EXCEPT ![ch.file] = IF refs[ch.file] = 0 THEN FALSE ELSE @]
      /\ phase'[p] = "load"
      /\ \A r \in Proc : r # p => todo'[r] = todo[r] /\ phase'[r] = phase[r]
  BY <1>0 DEF Test, Types
<1>2. /\ ch.fd \in Fd /\ ch.file \in File /\ mem[ch.file] /\ Slot(p, 1, ch)
      /\ ch.op \in {"close", "drop"} /\ ch.proc = p /\ ch.file # NULL
      /\ ch = todo[p][1] /\ 1 \in 1 .. Len(todo[p])
  <2>1. /\ ch.fd \in Fd /\ ch.file \in File /\ mem[ch.file] /\ Slot(p, 1, ch)
        /\ ch.op \in {"take", "close", "drop"} /\ (ch.op # "take" => ch.proc = p) /\ CallOk(p)
        /\ ch = todo[p][1] /\ 1 \in 1 .. Len(todo[p])
    BY <1>0, <1>1, HeadIs, HeadOk
  <2>2. ch.op # "take"
    BY <1>0, <1>1, <2>1 DEF CallOk
  <2>. QED
    BY <2>1, <2>2, FileAssumption
<1>3. /\ \A r \in Proc, fd \in Fd : ~(r = ch.proc /\ fd = ch.fd) => table'[r][fd] = table[r][fd]
      /\ table'[ch.proc][ch.fd] = NULL
  BY <1>1, <1>2 DEF Types
<1>4. /\ table[ch.proc][ch.fd] = IF ch.op = "close" THEN NULL ELSE ch.file
      /\ ch.op = "drop" => InFlight(p, ch.proc, ch.fd)
  BY <1>0, <1>1, <1>2 DEF Slot, InFlight
<1>5. ASSUME NEW f \in File
      PROVE  \A r \in Proc, fd \in Fd : Refers(r, fd, f)' <=> Refers(r, fd, f)
  <2>1. f # NULL
    BY FileAssumption
  <2>2. /\ \A r \in Proc, fd \in Fd :
              ~(r = ch.proc /\ fd = ch.fd) => (Refers(r, fd, f)' <=> Refers(r, fd, f))
        /\ Refers(ch.proc, ch.fd, f) <=>
              table[ch.proc][ch.fd] = f /\ ~InFlight(p, ch.proc, ch.fd)
        /\ Refers(ch.proc, ch.fd, f)' <=>
              table'[ch.proc][ch.fd] = f /\ ~InFlight(p, ch.proc, ch.fd)'
    BY <1>0, <1>1, <1>3, Steps
  <2>3. ~Refers(ch.proc, ch.fd, f) /\ ~Refers(ch.proc, ch.fd, f)'
    BY <1>2, <1>3, <1>4, <2>1, <2>2
  <2>. QED
    BY <2>2, <2>3
<1>6. ASSUME NEW f \in File, f # ch.file PROVE FileOk(f)'
  <2>1. \A r \in Proc, fd \in Fd : Refers(r, fd, f)' <=> Refers(r, fd, f)
    BY <1>5
  <2>2. ~mem[f] => \A r \in Proc, fd \in Fd : table'[r][fd] # f
    BY <1>3, FileAssumption, NoHolders
  <2>3. Tested(f) => Tested(f)'
    BY <1>0, <1>1, <1>6 DEF Tested
  <2>4. mem'[f] = mem[f]
    BY <1>1, <1>6 DEF Types
  <2>. QED
    BY <1>1, <2>1, <2>2, <2>3, <2>4, SameFile
<1>7. FileOk(ch.file)'
  <2>0. PICK f \in File : f = ch.file
    BY <1>2
  <2>1. CASE refs[f] = 0
    <3>1. mem'[f] = FALSE
      BY <1>1, <2>0, <2>1 DEF Types
    <3>2. ASSUME NEW r \in Proc, NEW fd \in Fd, table'[r][fd] = f PROVE FALSE
      <4>1. ~(r = ch.proc /\ fd = ch.fd) /\ table[r][fd] = f
        BY <1>2, <1>3, <2>0, <3>2
      <4>2. ASSUME NEW x \in Proc, InFlight(x, r, fd) PROVE FALSE
        <5>1. x # p
          BY <1>0, <4>1, <4>2 DEF InFlight
        <5>2. /\ todo[x] # <<>> /\ r = Head(todo[x]).proc /\ fd = Head(todo[x]).fd
              /\ \/ phase[x] = "store" /\ Head(todo[x]).op = "take"
                 \/ phase[x] = "test" /\ Head(todo[x]).op = "drop"
          BY <4>2 DEF InFlight
        <5>3. Head(todo[x]) = todo[x][1] /\ 1 \in 1 .. Len(todo[x]) /\ Slot(x, 1, Head(todo[x]))
          BY <5>2, HeadIs, HeadOk
        <5>4. table[r][fd] = Head(todo[x]).file
          BY <5>2, <5>3 DEF Slot
        <5>5. todo[x][1].file # todo[p][1].file
          BY <1>0, <1>1, <1>2, <5>1, <5>2, <5>3 DEF NoOverlap, Midway
        <5>. QED
          BY <1>2, <2>0, <4>1, <5>3, <5>4, <5>5
      <4>3. Refers(r, fd, f)
        BY <4>1, <4>2 DEF Refers
      <4>4. refs[f] > 0
        BY <1>2, <2>0, <4>3, AtLeastOne
      <4>. QED
        BY <2>1, <4>4
    <3>3. Holders(f)' = {}
      BY <3>2 DEF Holders
    <3>. QED
      BY <2>0, <3>1, <3>3 DEF FileOk
  <2>2. CASE refs[f] # 0
    <3>1. mem[f] /\ mem'[f] = mem[f]
      BY <1>1, <1>2, <2>0, <2>2 DEF Types
    <3>2. Counted(f)' = Counted(f)
      BY <1>5, SameCounted
    <3>3. refs[f] > 0
      BY <2>2 DEF Types
    <3>4. FileOk(f)
      BY DEF Counting
    <3>. QED
      BY <1>1, <2>0, <3>1, <3>2, <3>3, <3>4 DEF FileOk
  <2>. QED
    BY <2>1, <2>2
<1>. QED
  BY <1>6, <1>7 DEF Counting

LEMMA CountingStep ==
    ASSUME Sane, NoOverlap, Types, Types', Births, Calls, Counting, Next
    PROVE  Counting'
<1>1. ASSUME NEW p \in Proc, NEW fd \in Fd, Close(p, fd) PROVE Counting'
  <2>1. /\ todo[p] = <<>> /\ UNCHANGED <<table, refs, mem, phase, fails>>
        /\ \A r \in Proc : r # p => todo'[r] = todo[r]
    BY <1>1 DEF Close, Ready, Types
  <2>. QED
    BY <2>1, BeginCounts
<1>2. ASSUME NEW p \in Proc, NEW old \in Fd, NEW new \in Fd, Dup2(p, old, new) PROVE Counting'
  <2>1. /\ todo[p] = <<>> /\ UNCHANGED <<table, refs, mem, phase, fails>>
        /\ \A r \in Proc : r # p => todo'[r] = todo[r]
    BY <1>2 DEF Dup2, Ready, Types
  <2>. QED
    BY <2>1, BeginCounts
<1>3. ASSUME NEW p \in Proc, NEW q \in Proc, Clone(p, q) PROVE Counting'
  <2>1. /\ todo[p] = <<>> /\ UNCHANGED <<table, refs, mem, phase, fails>>
        /\ \A r \in Proc : r # p => todo'[r] = todo[r]
    BY <1>3 DEF Clone, Ready, Types
  <2>. QED
    BY <2>1, BeginCounts
<1>4. ASSUME NEW p \in Proc, CloneDone(p) PROVE Counting'
  <2>1. /\ todo[p] = <<>> /\ UNCHANGED <<table, refs, mem, phase, fails>>
        /\ \A r \in Proc : r # p => todo'[r] = todo[r]
    BY <1>4 DEF CloneDone
  <2>. QED
    BY <2>1, BeginCounts
<1>5. ASSUME NEW p \in Proc, Exit(p) PROVE Counting'
  <2>1. /\ todo[p] = <<>> /\ UNCHANGED <<table, refs, mem, phase, fails>>
        /\ \A r \in Proc : r # p => todo'[r] = todo[r]
    BY <1>5 DEF Exit, Ready, Types
  <2>. QED
    BY <2>1, BeginCounts
<1>. QED
  BY <1>1, <1>2, <1>3, <1>4, <1>5, SpawnCounts, OpenOneCounts, FailCounts, LoadCounts, StoreCounts,
     TestCounts DEF Next

-----------------------------------------------------------------------------
(* The theorem.                                                            *)

LEMMA InitInv ==
    ASSUME Sane, Init
    PROVE  Inv
<1>1. PICK p0 \in Proc, f0 \in File :
          /\ alive = [p \in Proc |-> IF p = p0 THEN "live" ELSE "none"]
          /\ table = [p \in Proc |-> IF p = p0 THEN StandardIo(f0) ELSE Empty]
          /\ refs = [f \in File |-> IF f = f0 THEN 3 ELSE 0]
          /\ mem = [f \in File |-> f = f0]
          /\ todo = [p \in Proc |-> <<>>]
          /\ phase = [p \in Proc |-> "load"]
          /\ reg = [p \in Proc |-> 0]
          /\ child = [p \in Proc |-> NULL]
          /\ fails = 0
  BY DEF Init
<1>2. /\ \A p \in Proc : /\ todo[p] = <<>> /\ phase[p] = "load" /\ child[p] = NULL
                         /\ (p # p0 => alive[p] = "none")
      /\ alive[p0] = "live"
      /\ \A p \in Proc, fd \in Fd :
            table[p][fd] = IF p = p0 /\ fd <= 2 THEN f0 ELSE NULL
  BY <1>1 DEF StandardIo, Empty
<1>3. Types
  <2>1. 2 ^ CountBits \in Nat /\ 2 ^ CountBits > 3
    BY WideEnough
  <2>2. refs \in [File -> 0 .. 2 ^ CountBits - 1]
    BY <1>1, <2>1
  <2>3. table \in [Proc -> [Fd -> File \cup {NULL}]]
    BY <1>1 DEF StandardIo, Empty
  <2>4. todo \in [Proc -> Seq(ChangeRec)]
    <3>1. <<>> \in Seq(ChangeRec)
      OBVIOUS
    <3>. QED
      BY <1>1, <3>1
  <2>5. fails \in 0 .. MaxFail
    BY <1>1, RunAssumption
  <2>. QED
    BY <1>1, <2>2, <2>3, <2>4, <2>5 DEF Types
<1>4. Births
  <2>1. \A p \in Proc : alive[p] = "none" => table[p] = Empty
    BY <1>1
  <2>. QED
    BY <1>2, <2>1 DEF Births
<1>5. Calls
  BY <1>2 DEF Calls, CallOk
<1>8. Counting
  <2>1. f0 # NULL /\ \A f \in File : f # NULL
    BY FileAssumption
  <2>2. FileOk(f0)
    <3>. DEFINE S == 0 .. 2
    <3>1. S \in SUBSET Fd /\ \A fd \in Fd : fd \in S <=> fd <= 2
      BY FdAssumption DEF Fd
    <3>2. Cardinality({p0} \X S) = 3
      BY ThreeSlots
    <3>. HIDE DEF S
    <3>3. \A r \in Proc, fd \in Fd : Refers(r, fd, f0) <=> r = p0 /\ fd \in S
      BY <1>2, <2>1, <3>1 DEF Refers, InFlight
    <3>4. Counted(f0) = {p0} \X S
      BY <3>1, <3>3 DEF Counted
    <3>5. refs[f0] = 3 /\ mem[f0] = TRUE /\ fails = 0
      BY <1>1
    <3>6. 0 * (MaxFd + 1) = 0
      BY FdAssumption
    <3>. QED
      BY <3>2, <3>4, <3>5, <3>6 DEF FileOk
  <2>3. ASSUME NEW f \in File, f # f0 PROVE FileOk(f)
    <3>1. ~mem[f] /\ \A r \in Proc, fd \in Fd : table[r][fd] # f
      BY <1>1, <1>2, <2>1, <2>3
    <3>2. Holders(f) = {}
      BY <3>1 DEF Holders
    <3>. QED
      BY <3>1, <3>2 DEF FileOk
  <2>. QED
    BY <2>2, <2>3 DEF Counting
<1>. QED
  BY <1>3, <1>4, <1>5, <1>8 DEF Inv

LEMMA StepInv ==
    ASSUME Sane, NoOverlap, Inv, [Next]_vars
    PROVE  Inv'
<1>1. CASE Next
  <2>1. Types /\ Births /\ Calls /\ Counting
    BY DEF Inv
  <2>2. Types'
    BY <1>1, <2>1, TypesStep
  <2>3. Births' /\ Calls'
    BY <1>1, <2>1, <2>2, BirthsStep, CallsStep
  <2>5. Counting'
    BY <1>1, <2>1, <2>2, CountingStep
  <2>. QED
    BY <2>2, <2>3, <2>5 DEF Inv
<1>2. CASE UNCHANGED vars
  <2>1. UNCHANGED <<alive, table, refs, mem, todo, phase, reg, child, fails>>
    BY <1>2 DEF vars
  <2>2. Types'
    BY <2>1 DEF Inv, Types
  <2>3. Births'
    BY <2>1 DEF Inv, Births
  <2>4. Calls'
    BY <2>1 DEF Inv, Calls, CallOk, Whose, Source, Slot, SameSlot
  <2>7. Counting'
    <3>1. ASSUME NEW f \in File PROVE FileOk(f)'
      <4>1. Counted(f)' = Counted(f)
        BY <2>1 DEF Counted, Refers, InFlight
      <4>2. (Tested(f)' <=> Tested(f)) /\ Holders(f)' = Holders(f)
        BY <2>1 DEF Tested, Holders
      <4>. QED
        BY <2>1, <4>1, <4>2 DEF Inv, Counting, FileOk
    <3>. QED
      BY <3>1 DEF Counting
  <2>. QED
    BY <2>2, <2>3, <2>4, <2>7 DEF Inv
<1>. QED
  BY <1>1, <1>2

LEMMA InvIsSafe ==
    ASSUME Sane, Inv
    PROVE  TablesSafe
<1>1. Types /\ Calls /\ Counting
  BY DEF Inv
<1>2. TypeOK
  <2>1. \A p \in Proc : \A i \in 1 .. Len(todo[p]) : todo[p][i] \in ChangeRec
    BY <1>1, TodoFiles
  <2>. QED
    BY <1>1, <2>1 DEF Types, TypeOK, ChangeRec
<1>3. NoDangling
  <2>. SUFFICES ASSUME NEW p \in Proc, NEW fd \in Fd, table[p][fd] # NULL, ~mem[table[p][fd]]
                PROVE  FALSE
    BY DEF NoDangling
  <2>1. table[p][fd] \in File
    BY <1>1 DEF Types
  <2>. QED
    BY <1>1, <2>1, NoHolders
<1>4. CountsExact
  <2>. SUFFICES ASSUME \A p \in Proc : todo[p] = <<>> /\ child[p] = NULL, NEW f \in File
                PROVE  /\ mem[f] => refs[f] >= Cardinality(Holders(f)) /\ refs[f] > 0
                       /\ mem[f] /\ fails = 0 => refs[f] = Cardinality(Holders(f))
                       /\ ~mem[f] => Holders(f) = {}
    BY DEF CountsExact
  <2>1. FileOk(f)
    BY <1>1 DEF Counting
  <2>2. Counted(f) = Holders(f) /\ Cardinality(Counted(f)) \in Nat
    <3>1. \A r \in Proc, fd \in Fd : Refers(r, fd, f) <=> table[r][fd] = f
      BY DEF Refers, InFlight
    <3>. QED
      BY <3>1, CountedFinite DEF Counted, Holders
  <2>3. ~Tested(f)
    BY <1>1 DEF Tested, Calls, CallOk
  <2>4. refs[f] \in Int /\ (fails = 0 => fails * (MaxFd + 1) = 0)
    BY <1>1, FdAssumption DEF Types
  <2>. QED
    BY <2>1, <2>2, <2>3, <2>4 DEF FileOk
<1>. QED
  BY <1>2, <1>3, <1>4 DEF TablesSafe

\* Overlapping changes of one ref_count are the only cause of a dangling
\* descriptor or a wrong count: for any number of processes, files and
\* descriptors, as long as no two overlap, open, close, dup2, clone (also one that
\* fails) and exit leave no descriptor of a freed file, no count below its slots,
\* and no file without one; without a failed clone the count is exact.
THEOREM OverlapIsTheOnlyCause == Sane /\ Spec /\ []NoOverlap => []TablesSafe
<1>1. CASE Sane
  <2>1. Init => Inv
    BY <1>1, InitInv
  <2>2. Inv /\ NoOverlap /\ [Next]_vars => Inv'
    BY <1>1, StepInv
  <2>3. Inv => TablesSafe
    BY <1>1, InvIsSafe
  <2>. QED
    BY <2>1, <2>2, <2>3, PTL DEF Spec
<1>2. CASE ~Sane
  BY <1>2, PTL
<1>. QED
  BY <1>1, <1>2
=============================================================================
