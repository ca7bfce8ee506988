-------------------------- MODULE UserMemoryProofs --------------------------
(***************************************************************************)
(* User address spaces stay isolated and complete, for any number of       *)
(* processes, frames and pages.                                            *)
(*                                                                         *)
(* The loops over pages are recursive functions.  What they compute is     *)
(* proved by induction over sets of numbers, from the principle that every *)
(* set of numbers has a least element (WFMin).                             *)
(***************************************************************************)
EXTENDS UserMemory, FiniteSetTheorems, WellFoundedInduction, TLAPS

-----------------------------------------------------------------------------
(* Numbers and iteration.                                                  *)

\* Every set of numbers has a least element.
LEMMA Least ==
    ASSUME NEW T, T \subseteq Nat, T # {}
    PROVE  \E x \in T : \A y \in T : x <= y
<1>. DEFINE R == OpToRel(<, Nat)
<1>1. IsWellFoundedOn(R, Nat)
  BY NatLessThanWellFounded
<1>. HIDE DEF R
<1>2. PICK x \in T : \A y \in T : ~(<<y, x>> \in R)
  BY <1>1, WFMin
<1>3. ASSUME NEW y \in T PROVE x <= y
  <2>1. x \in Nat /\ y \in Nat /\ <<y, x>> \notin R
    BY <1>2
  <2>. QED
    BY <2>1 DEF R, OpToRel
<1>. QED
  BY <1>2, <1>3

\* Induction, over a set.
LEMMA Induction ==
    ASSUME NEW S, 0 \in S, \A n \in Nat : n \in S => n + 1 \in S
    PROVE  \A n \in Nat : n \in S
<1>. SUFFICES ASSUME NEW k \in Nat, k \notin S PROVE FALSE
  OBVIOUS
<1>1. PICK x \in Nat \ S : \A y \in Nat \ S : x <= y
  BY Least
<1>2. x - 1 \in Nat /\ (x - 1) + 1 = x /\ ~(x <= x - 1)
  BY <1>1
<1>. QED
  BY <1>1, <1>2

\* The iterations of step functions G from b.
Iterations(S, b, G) == {f \in [Nat -> S] : f[0] = b /\ \A n \in Nat : f[n + 1] = G[n][f[n]]}

\* Step functions can be iterated.
LEMMA Iteration ==
    ASSUME NEW S, NEW b \in S, NEW G \in [Nat -> [S -> S]]
    PROVE  Iterations(S, b, G) # {}
<1>. DEFINE Ok(g, k) == g \in [0 .. k -> S] /\ g[0] = b /\ \A i \in 0 .. k - 1 : g[i + 1] = G[i][g[i]]
            E == {k \in Nat : \E g : Ok(g, k)}
<1>1. \A n \in Nat : n \in E
  <2>1. 0 \in E
    <3>1. Ok([i \in 0 .. 0 |-> b], 0)
      OBVIOUS
    <3>. QED
      BY <3>1
  <2>2. ASSUME NEW n \in Nat, n \in E PROVE n + 1 \in E
    <3>1. PICK g : Ok(g, n)
      BY <2>2
    <3>. DEFINE h == [i \in 0 .. n + 1 |-> IF i = n + 1 THEN G[n][g[n]] ELSE g[i]]
    <3>2. h \in [0 .. n + 1 -> S]
      BY <3>1
    <3>3. h[0] = b
      BY <3>1
    <3>4. ASSUME NEW i \in 0 .. n PROVE h[i + 1] = G[i][h[i]]
      BY <3>1
    <3>. HIDE DEF h
    <3>5. \A i \in 0 .. (n + 1) - 1 : h[i + 1] = G[i][h[i]]
      BY <3>4
    <3>6. Ok(h, n + 1)
      BY <3>2, <3>3, <3>5
    <3>7. n + 1 \in Nat
      OBVIOUS
    <3>. HIDE DEF Ok
    <3>8. \E x : Ok(x, n + 1)
      BY <3>6
    <3>. QED
      BY <3>7, <3>8
  <2>. HIDE DEF E
  <2>. QED
    BY <2>1, <2>2, Induction
<1>2. ASSUME NEW k \in Nat, NEW l \in Nat, k <= l, NEW g, NEW h, Ok(g, k), Ok(h, l)
      PROVE  \A i \in 0 .. k : g[i] = h[i]
  <2>. DEFINE A == {i \in Nat : i <= k => g[i] = h[i]}
  <2>1. 0 \in A
    BY <1>2
  <2>2. ASSUME NEW n \in Nat, n \in A PROVE n + 1 \in A
    BY <1>2, <2>2
  <2>. HIDE DEF A
  <2>3. \A n \in Nat : n \in A
    BY <2>1, <2>2, Induction
  <2>. QED
    BY <2>3 DEF A
<1>. DEFINE w == [k \in Nat |-> CHOOSE g : Ok(g, k)]
            f == [k \in Nat |-> w[k][k]]
<1>3. \A k \in Nat : Ok(w[k], k)
  BY <1>1
<1>. HIDE DEF w
<1>4. f \in [Nat -> S]
  BY <1>3
<1>5. f[0] = b
  BY <1>3
<1>6. ASSUME NEW n \in Nat PROVE f[n + 1] = G[n][f[n]]
  <2>1. n + 1 \in Nat /\ n <= n + 1 /\ n \in 0 .. n /\ Ok(w[n], n) /\ Ok(w[n + 1], n + 1)
    BY <1>3
  <2>2. w[n][n] = w[n + 1][n]
    <3>. HIDE DEF Ok
    <3>. QED
      BY <1>2, <2>1
  <2>3. w[n + 1][n + 1] = G[n][w[n + 1][n]]
    BY <1>3
  <2>. QED
    BY <2>2, <2>3
<1>. HIDE DEF f
<1>. QED
  BY <1>4, <1>5, <1>6 DEF Iterations

-----------------------------------------------------------------------------
(* Frames, tables and loops keep their types.                              *)

Mem == [used : SUBSET Frame, dir : [Frame -> [Part -> Frame \cup {None}]],
        tab : [Frame -> [VPage -> Frame \cup {None}]], short : BOOLEAN]
Loop == [m : Mem, ok : BOOLEAN]

LEMMA Layout ==
    /\ Code \in Nat \ {0} /\ Heap \in Nat /\ Stack \in Nat \ {0} /\ Unit \in Nat \ {0}
    /\ HeapBase = Code /\ Bottom = Code + Heap /\ Top = Code + Heap + Stack - 1
    /\ VPage = 0 .. Top /\ Bottom \in VPage /\ Top \in VPage /\ Bottom <= Top
    /\ None \notin Frame /\ None # 0 /\ 0 \in Frame /\ Frame \subseteq Nat
    /\ Part = {"low", "high"} /\ \A v : PartOf(v) \in Part
BY SizeAssumption DEF HeapBase, Bottom, Top, VPage, None, Frame, Part, PartOf

\* pmm_alloc_page returns a free frame, or 0.
LEMMA FirstIs ==
    ASSUME NEW x \in Mem
    PROVE  /\ First(x) \in Frame
           /\ First(x) # 0 => First(x) \notin x.used
           /\ First(x) = 0 /\ 0 \in x.used => Frame \subseteq x.used
           /\ Frame \subseteq x.used => First(x) = 0
<1>1. CASE Frame \subseteq x.used
  BY <1>1, Layout DEF First
<1>2. CASE ~(Frame \subseteq x.used)
  <2>1. PICK f \in Frame \ x.used : \A g \in Frame \ x.used : f <= g
    BY <1>2, Layout, Least
  <2>2. First(x) \in Frame \ x.used
    BY <1>2, <2>1 DEF First
  <2>. QED
    BY <1>2, <2>2
<1>. QED
  BY <1>1, <1>2

LEMMA TakeIs ==
    ASSUME NEW x \in Mem
    PROVE  /\ Take(x) \in Mem /\ Take(x).used = x.used \cup {First(x)}
           /\ Take(x).dir = x.dir /\ Take(x).tab = x.tab /\ Take(x).short = x.short
BY FirstIs DEF Take, Mem

\* What vmm_map_page changes: with a table t, an entry of it, and without one,
\* the directory and the new table n.
InTable(x, z, v, f, t) ==
    /\ z.used = x.used /\ z.dir = x.dir /\ z.short = x.short
    /\ z.tab = [x.tab EXCEPT ![t] = [x.tab[t] EXCEPT ![v] = f]]
InNewTable(x, z, r, v, f, q, n) ==
    /\ z.used = x.used \cup {n}
    /\ z.short <=> (x.short \/ n = 0)
    /\ z.dir = [x.dir EXCEPT ![r] = [x.dir[r] EXCEPT ![q] = n]]
    /\ z.tab = [x.tab EXCEPT ![n] = [NoPages EXCEPT ![v] = f]]

LEMMA MapPageIs ==
    ASSUME NEW x \in Mem, NEW r \in Frame, NEW v \in Int, NEW f \in Frame, NEW q, NEW t, NEW n, NEW z,
           q = PartOf(v), t = x.dir[r][q], n = First(x), z = MapPage(x, r, v, f)
    PROVE  /\ z \in Mem
           /\ t # None => t \in Frame /\ InTable(x, z, v, f, t)
           /\ t = None => InNewTable(x, z, r, v, f, q, n)
<1>1. q \in Part /\ t \in Frame \cup {None} /\ n \in Frame
  BY Layout, FirstIs DEF Mem
<1>2. CASE t # None
  <2>1. z = [x EXCEPT !.tab = [x.tab EXCEPT ![t] = [x.tab[t] EXCEPT ![v] = f]]]
    BY <1>2 DEF MapPage
  <2>2. [x.tab EXCEPT ![t] = [x.tab[t] EXCEPT ![v] = f]] \in [Frame -> [VPage -> Frame \cup {None}]]
    BY <1>1, <1>2 DEF Mem
  <2>. QED
    BY <1>1, <1>2, <2>1, <2>2 DEF Mem, InTable
<1>3. CASE t = None
  <2>1. PICK d : d = [x.dir EXCEPT ![r] = [x.dir[r] EXCEPT ![q] = n]]
    OBVIOUS
  <2>2. PICK e : e = [x.tab EXCEPT ![n] = [NoPages EXCEPT ![v] = f]]
    OBVIOUS
  <2>3. PICK s \in BOOLEAN : s <=> (x.short \/ n = 0)
    OBVIOUS
  <2>4. z = [Take(x) EXCEPT !.dir = d, !.tab = e, !.short = x.short \/ n = 0]
    BY <1>3, <2>1, <2>2, TakeIs DEF MapPage
  <2>5. z = [Take(x) EXCEPT !.dir = d, !.tab = e, !.short = s]
    <3>1. s = (x.short \/ n = 0)
      BY <2>3
    <3>. QED
      BY <2>4, <3>1, Zenon
  <2>6. d \in [Frame -> [Part -> Frame \cup {None}]]
    BY <1>1, <2>1 DEF Mem
  <2>7. NoPages \in [VPage -> Frame \cup {None}]
    BY DEF NoPages
  <2>8. [NoPages EXCEPT ![v] = f] \in [VPage -> Frame \cup {None}]
    BY <2>7
  <2>9. e \in [Frame -> [VPage -> Frame \cup {None}]]
    BY <1>1, <2>2, <2>8 DEF Mem
  <2>10. z.used = x.used \cup {n} /\ z.short = s /\ z.dir = d /\ z.tab = e /\ z \in Mem
    BY <2>5, <2>6, <2>9, TakeIs DEF Mem
  <2>. QED
    BY <1>3, <2>1, <2>2, <2>3, <2>10 DEF InNewTable
<1>. QED
  BY <1>1, <1>2, <1>3

LEMMA AddPageIs ==
    ASSUME NEW a \in Loop, NEW r \in Frame, NEW v \in Int
    PROVE  AddPage(a, r, v) \in Loop
<1>1. a.m \in Mem /\ First(a.m) \in Frame /\ Take(a.m) \in Mem
  BY FirstIs, TakeIs DEF Loop
<1>2. MapPage(Take(a.m), r, v, First(a.m)) \in Mem
  BY <1>1, MapPageIs, Zenon
<1>. QED
  BY <1>1, <1>2 DEF AddPage, Loop

\* The states of the loop that maps pages.
AddRun(f, a, r, v) == f[0] = a /\ \A i \in Nat : f[i + 1] = AddPage(f[i], r, v + i)

\* The loop that maps pages iterates AddPage.
LEMMA PopulateIs ==
    ASSUME NEW a \in Loop, NEW r \in Frame, NEW v \in Int, NEW n \in Nat
    PROVE  \E f \in [Nat -> Loop] : AddRun(f, a, r, v) /\ Populate(a, r, v, n) = f[n]
<1>. DEFINE G == [i \in Nat |-> [b \in Loop |-> AddPage(b, r, v + i)]]
            D(h) == [i \in Nat |-> IF i = 0 THEN a ELSE AddPage(h[i - 1], r, v + i - 1)]
            c == CHOOSE h : h = D(h)
<1>1. G \in [Nat -> [Loop -> Loop]]
  BY AddPageIs
<1>2. PICK g \in [Nat -> Loop] : g[0] = a /\ \A i \in Nat : g[i + 1] = AddPage(g[i], r, v + i)
  <2>. HIDE DEF G, D, c
  <2>0. Iterations(Loop, a, G) # {}
    BY <1>1, Iteration
  <2>1. PICK g \in [Nat -> Loop] : g[0] = a /\ \A i \in Nat : g[i + 1] = G[i][g[i]]
    BY <2>0 DEF Iterations
  <2>2. \A i \in Nat : G[i][g[i]] = AddPage(g[i], r, v + i)
    BY <2>1 DEF G
  <2>. QED
    BY <2>1, <2>2
<1>3. g = D(g)
  <2>1. ASSUME NEW i \in Nat PROVE g[i] = D(g)[i]
    <3>1. CASE i = 0
      BY <3>1, <1>2
    <3>2. CASE i # 0
      <4>1. i - 1 \in Nat /\ (i - 1) + 1 = i /\ v + (i - 1) = v + i - 1
        BY <3>2
      <4>2. g[i] = AddPage(g[i - 1], r, v + i - 1)
        BY <1>2, <4>1
      <4>. QED
        BY <3>2, <4>2
    <3>. QED
      BY <3>1, <3>2
  <2>. QED
    BY <2>1
<1>4. c = D(c)
  BY <1>3
<1>5. Populate(a, r, v, n) = c[n]
  BY DEF Populate
<1>. HIDE DEF c
<1>6. c[0] = a /\ \A i \in Nat : c[i + 1] = AddPage(c[i], r, v + i)
  <2>1. c[0] = a
    BY <1>4
  <2>2. ASSUME NEW i \in Nat PROVE c[i + 1] = AddPage(c[i], r, v + i)
    <3>1. i + 1 \in Nat /\ i + 1 # 0 /\ (i + 1) - 1 = i /\ v + (i + 1) - 1 = v + i
      OBVIOUS
    <3>2. c[i + 1] = D(c)[i + 1]
      BY <1>4
    <3>. QED
      BY <3>1, <3>2
  <2>. QED
    BY <2>1, <2>2
<1>7. \A i \in Nat : c[i] \in Loop
  <2>. DEFINE A == {i \in Nat : c[i] \in Loop}
  <2>1. 0 \in A
    BY <1>6
  <2>2. ASSUME NEW i \in Nat, i \in A PROVE i + 1 \in A
    <3>1. v + i \in Int /\ i + 1 \in Nat /\ c[i] \in Loop
      BY <2>2
    <3>. QED
      BY <3>1, <1>6, AddPageIs
  <2>. HIDE DEF A
  <2>3. \A i \in Nat : i \in A
    BY <2>1, <2>2, Induction
  <2>. QED
    BY <2>3 DEF A
<1>8. c \in [Nat -> Loop]
  BY <1>4, <1>7
<1>. QED
  BY <1>5, <1>6, <1>8 DEF AddRun

-----------------------------------------------------------------------------
(* What a sound address space is, and how one grows.                       *)

\* The frames of the address space with root r: the root, tables and pages.
Owned(x, r) ==
    {f \in Frame : \/ f = r
                   \/ \E q \in Part : x.dir[r][q] = f
                   \/ \E q \in Part, v \in VPage : x.dir[r][q] # None /\ x.tab[x.dir[r][q]][v] = f}

\* A sound space: its root, tables and pages are marked in the bitmap, and no
\* frame serves twice; a table has entries for its own part only.
RootMarked(x, r) == 0 \in x.used /\ r \in x.used /\ r # 0
TablesMarked(x, r) ==
    /\ \A q \in Part : x.dir[r][q] # None => x.dir[r][q] \in x.used \ {0, r}
    /\ \A q, p \in Part : x.dir[r][q] # None /\ x.dir[r][p] = x.dir[r][q] => q = p
EntryMarked(x, r, q, v) ==
    x.dir[r][q] # None /\ x.tab[x.dir[r][q]][v] # None =>
        /\ PartOf(v) = q
        /\ x.tab[x.dir[r][q]][v] \in x.used \ {0, r}
        /\ \A p \in Part : x.dir[r][p] # x.tab[x.dir[r][q]][v]
PagesOnce(x, r) == \A v, w \in Mapped(x, r) : Entry(x, r, v) = Entry(x, r, w) => v = w
Sound(x, r) ==
    /\ RootMarked(x, r) /\ TablesMarked(x, r) /\ PagesOnce(x, r)
    /\ \A q \in Part, v \in VPage : EntryMarked(x, r, q, v)

\* The space of r has got more frames, which were free (or 0 for want of
\* memory); what is outside it is as it was, and so are its own pages, but for
\* those at V.
Grown(x, y, r, V) ==
    /\ y \in Mem /\ x.used \subseteq y.used
    /\ \A f \in x.used \ Owned(x, r) : f # 0 => y.dir[f] = x.dir[f] /\ y.tab[f] = x.tab[f]
    /\ \A f \in Owned(y, r) : f \in Owned(x, r) \/ f \notin x.used \/ f = 0
    /\ \A w \in Mapped(x, r) \ V : w \in Mapped(y, r) /\ Entry(y, r, w) = Entry(x, r, w)
    /\ y.short \/ Sound(y, r)
    /\ y.short => Frame \subseteq y.used

\* A loop may go on: the space is sound, or memory has ended.
Healthy(x, r) == (x.short \/ Sound(x, r)) /\ (x.short => Frame \subseteq x.used)

LEMMA GrownSelf ==
    ASSUME NEW x \in Mem, NEW r \in Frame, NEW V, Healthy(x, r)
    PROVE  Grown(x, x, r, V)
BY DEF Grown, Healthy

LEMMA GrownIsHealthy ==
    ASSUME NEW x, NEW y, NEW r, NEW V, Grown(x, y, r, V)
    PROVE  y \in Mem /\ Healthy(y, r)
BY DEF Grown, Healthy

LEMMA GrownMore ==
    ASSUME NEW x \in Mem, NEW y \in Mem, NEW z \in Mem, NEW r \in Frame, NEW V, NEW W,
           Grown(x, y, r, V), Grown(y, z, r, W), W \subseteq V
    PROVE  Grown(x, z, r, V)
<1>1. x.used \subseteq z.used
  BY DEF Grown
<1>2. ASSUME NEW f \in x.used \ Owned(x, r), f # 0 PROVE z.dir[f] = x.dir[f] /\ z.tab[f] = x.tab[f]
  BY <1>2 DEF Grown
<1>3. ASSUME NEW f \in Owned(z, r) PROVE f \in Owned(x, r) \/ f \notin x.used \/ f = 0
  BY DEF Grown
<1>4. ASSUME NEW w \in Mapped(x, r) \ V
      PROVE  w \in Mapped(z, r) /\ Entry(z, r, w) = Entry(x, r, w)
  BY DEF Grown
<1>. QED
  BY <1>1, <1>2, <1>3, <1>4 DEF Grown

\* The space of r has page v, if it had not before.
Gains(x, y, r, v) == Mapped(y, r) = Mapped(x, r) \cup {v}

\* Mapping a new page into a table that is there.
LEMMA MapIntoTable ==
    ASSUME NEW x \in Mem, NEW r \in Frame, NEW v \in VPage, NEW f \in Frame \ x.used, NEW z \in Mem,
           NEW y \in Mem, y.used = x.used \cup {f}, y.dir = x.dir, y.tab = x.tab, y.short = x.short,
           NEW q, q = PartOf(v), NEW t, t = x.dir[r][q],
           ~x.short, Sound(x, r), t # None, InTable(y, z, v, f, t)
    PROVE  Grown(x, z, r, {v}) /\ Gains(x, z, r, v)
<1>0. /\ z.used = x.used \cup {f} /\ z.dir = x.dir /\ z.short = x.short
      /\ z.tab = [x.tab EXCEPT ![t] = [x.tab[t] EXCEPT ![v] = f]]
  BY DEF InTable
<1>1. q \in Part /\ t \in x.used \ {0, r} /\ t \in Frame
  BY Layout DEF Sound, TablesMarked, Mem
<1>2. /\ \A p \in Part : z.dir[r][p] = x.dir[r][p]
      /\ \A g \in Frame, w \in VPage : z.tab[g][w] = IF g = t /\ w = v THEN f ELSE x.tab[g][w]
  BY <1>0, <1>1 DEF Mem
<1>3. \A p \in Part : x.dir[r][p] \in Frame \cup {None}
  BY DEF Mem
<1>4. Mapped(z, r) = Mapped(x, r) \cup {v}
  <2>1. ASSUME NEW w \in VPage, w # v PROVE w \in Mapped(z, r) <=> w \in Mapped(x, r)
    <3>1. PartOf(w) \in Part
      BY Layout
    <3>. QED
      BY <1>2, <1>3, <2>1, <3>1 DEF Mapped
  <2>2. v \in Mapped(z, r)
    BY <1>1, <1>2, Layout DEF Mapped
  <2>3. Mapped(z, r) \subseteq VPage /\ Mapped(x, r) \subseteq VPage
    BY DEF Mapped
  <2>. QED
    BY <2>1, <2>2, <2>3
<1>5. ASSUME NEW w \in Mapped(z, r) PROVE Entry(z, r, w) = IF w = v THEN f ELSE Entry(x, r, w)
  <2>1. w \in VPage /\ PartOf(w) \in Part /\ x.dir[r][PartOf(w)] \in Frame
    BY <1>1, <1>2, <1>3, Layout DEF Mapped
  <2>2. w = v => x.dir[r][PartOf(w)] = t
    OBVIOUS
  <2>. QED
    BY <1>2, <2>1, <2>2 DEF Entry
<1>6. ASSUME NEW g \in x.used \ Owned(x, r), g # 0 PROVE z.dir[g] = x.dir[g] /\ z.tab[g] = x.tab[g]
  <2>1. g # t
    BY <1>1, <1>6 DEF Owned
  <2>. QED
    BY <1>0, <1>1, <2>1 DEF Mem
<1>7. ASSUME NEW g \in Owned(z, r) PROVE g \in Owned(x, r) \/ g \notin x.used
  <2>1. CASE g = r \/ \E p \in Part : z.dir[r][p] = g
    BY <1>2, <2>1 DEF Owned
  <2>2. CASE \E p \in Part, w \in VPage : z.dir[r][p] # None /\ z.tab[z.dir[r][p]][w] = g
    <3>1. PICK p \in Part, w \in VPage : z.dir[r][p] # None /\ z.tab[z.dir[r][p]][w] = g
      BY <2>2
    <3>2. g = f \/ x.tab[x.dir[r][p]][w] = g
      BY <1>2, <1>3, <3>1
    <3>. QED
      BY <1>2, <3>1, <3>2 DEF Owned
  <2>. QED
    BY <2>1, <2>2 DEF Owned
<1>8. ASSUME NEW w \in Mapped(x, r) \ {v} PROVE w \in Mapped(z, r) /\ Entry(z, r, w) = Entry(x, r, w)
  BY <1>4, <1>5
<1>9. ASSUME NEW p \in Part, NEW w \in VPage PROVE EntryMarked(z, r, p, w)
  <2>1. CASE x.dir[r][p] = t /\ w = v
    <3>1. p = q /\ z.dir[r][p] = t /\ z.tab[t][w] = f
      BY <1>1, <1>2, <2>1 DEF Sound, TablesMarked
    <3>2. f \notin {0, r} /\ \A u \in Part : z.dir[r][u] # f
      BY <1>2, Layout DEF Sound, RootMarked, TablesMarked
    <3>. QED
      BY <1>0, <2>1, <3>1, <3>2 DEF EntryMarked
  <2>2. CASE x.dir[r][p] # None /\ ~(x.dir[r][p] = t /\ w = v)
    <3>1. z.tab[x.dir[r][p]][w] = x.tab[x.dir[r][p]][w]
      BY <1>2, <1>3, <2>2
    <3>2. EntryMarked(x, r, p, w)
      BY DEF Sound
    <3>. QED
      BY <1>0, <1>2, <3>1, <3>2 DEF EntryMarked
  <2>. QED
    BY <1>2, <2>1, <2>2 DEF EntryMarked
<1>10. PagesOnce(z, r)
  <2>1. ASSUME NEW k \in Mapped(x, r) PROVE Entry(x, r, k) \in x.used
    BY Layout DEF Mapped, Entry, Sound, EntryMarked
  <2>2. ASSUME NEW u \in Mapped(z, r), NEW w \in Mapped(z, r), Entry(z, r, u) = Entry(z, r, w) PROVE u = w
    BY <1>4, <1>5, <2>1, <2>2 DEF Sound, PagesOnce
  <2>. QED
    BY <2>2 DEF PagesOnce
<1>11. RootMarked(z, r) /\ TablesMarked(z, r)
  BY <1>0, <1>2 DEF Sound, RootMarked, TablesMarked
<1>. QED
  BY <1>0, <1>4, <1>6, <1>7, <1>8, <1>9, <1>10, <1>11 DEF Grown, Sound, Gains

\* Mapping a new page into a new table, which is page 0 for want of memory.
LEMMA MapIntoNewTable ==
    ASSUME NEW x \in Mem, NEW r \in Frame, NEW v \in VPage, NEW f \in Frame \ x.used, NEW n \in Frame,
           NEW y \in Mem, y.used = x.used \cup {f}, y.dir = x.dir, y.tab = x.tab, y.short = x.short,
           NEW z \in Mem, NEW q, q = PartOf(v), ~x.short, Sound(x, r), x.dir[r][q] = None,
           n # 0 => n \notin x.used \cup {f}, n = 0 => Frame \subseteq x.used \cup {f},
           InNewTable(y, z, r, v, f, q, n)
    PROVE  Grown(x, z, r, {v}) /\ v \in Mapped(z, r)
<1>0. /\ z.used = (x.used \cup {f}) \cup {n} /\ (z.short <=> n = 0)
      /\ z.dir = [x.dir EXCEPT ![r] = [x.dir[r] EXCEPT ![q] = n]]
      /\ z.tab = [x.tab EXCEPT ![n] = [NoPages EXCEPT ![v] = f]]
  BY DEF InNewTable
<1>1. q \in Part /\ None \notin Frame
  BY Layout
<1>2. /\ \A p \in Part : z.dir[r][p] = IF p = q THEN n ELSE x.dir[r][p]
      /\ \A g \in Frame \ {r} : z.dir[g] = x.dir[g]
      /\ \A g \in Frame \ {n} : z.tab[g] = x.tab[g]
      /\ \A w \in VPage : z.tab[n][w] = IF w = v THEN f ELSE None
  BY <1>0, <1>1 DEF Mem, NoPages
<1>3. \A p \in Part : x.dir[r][p] \in (x.used \ {0, r}) \cup {None} /\ x.dir[r][p] \in Frame \cup {None}
  BY DEF Mem, Sound, TablesMarked
<1>4. \A p \in Part : x.dir[r][p] # n
  BY <1>1, <1>3
<1>5. Mapped(z, r) = Mapped(x, r) \cup {v}
  <2>1. ASSUME NEW w \in Mapped(z, r), w # v PROVE w \in Mapped(x, r)
    <3>1. w \in VPage /\ PartOf(w) \in Part /\ z.dir[r][PartOf(w)] # None /\ z.tab[z.dir[r][PartOf(w)]][w] # None
      BY Layout DEF Mapped
    <3>2. PartOf(w) # q
      BY <1>2, <2>1, <3>1
    <3>. QED
      BY <1>2, <1>3, <1>4, <3>1, <3>2 DEF Mapped
  <2>2. ASSUME NEW w \in Mapped(x, r) PROVE w \in Mapped(z, r)
    <3>1. w \in VPage /\ PartOf(w) \in Part /\ x.dir[r][PartOf(w)] # None /\ x.tab[x.dir[r][PartOf(w)]][w] # None
      BY Layout DEF Mapped
    <3>2. PartOf(w) # q
      BY <3>1
    <3>. QED
      BY <1>2, <1>3, <1>4, <3>1, <3>2 DEF Mapped
  <2>3. v \in Mapped(z, r)
    BY <1>1, <1>2 DEF Mapped
  <2>. QED
    BY <2>1, <2>2, <2>3
<1>6. ASSUME NEW w \in Mapped(z, r) PROVE Entry(z, r, w) = IF w = v THEN f ELSE Entry(x, r, w)
  <2>1. CASE w = v
    BY <1>1, <1>2, <2>1 DEF Entry
  <2>2. CASE w # v
    <3>1. w \in VPage /\ PartOf(w) \in Part /\ x.dir[r][PartOf(w)] # None
      BY <1>5, <2>2, Layout DEF Mapped
    <3>2. PartOf(w) # q
      BY <3>1
    <3>. QED
      BY <1>2, <1>3, <1>4, <2>2, <3>1, <3>2 DEF Entry
  <2>. QED
    BY <2>1, <2>2
<1>7. ASSUME NEW g \in x.used \ Owned(x, r), g # 0 PROVE z.dir[g] = x.dir[g] /\ z.tab[g] = x.tab[g]
  <2>1. g # r /\ g # n /\ g \in Frame
    BY <1>7 DEF Owned, Mem
  <2>. QED
    BY <1>2, <2>1
<1>8. ASSUME NEW g \in Owned(z, r) PROVE g \in Owned(x, r) \/ g \notin x.used \/ g = 0
  <2>1. CASE g = r \/ \E p \in Part : z.dir[r][p] = g
    BY <1>2, <2>1 DEF Owned
  <2>2. CASE \E p \in Part, w \in VPage : z.dir[r][p] # None /\ z.tab[z.dir[r][p]][w] = g
    <3>1. PICK p \in Part, w \in VPage : z.dir[r][p] # None /\ z.tab[z.dir[r][p]][w] = g
      BY <2>2
    <3>2. CASE p = q
      <4>1. g = f \/ g = None
        BY <1>2, <3>1, <3>2
      <4>. QED
        BY <1>1, <4>1 DEF Owned
    <3>3. CASE p # q
      <4>1. x.dir[r][p] # None /\ x.tab[x.dir[r][p]][w] = g
        BY <1>2, <1>3, <1>4, <3>1, <3>3
      <4>. QED
        BY <4>1 DEF Owned
    <3>. QED
      BY <3>2, <3>3
  <2>. QED
    BY <2>1, <2>2 DEF Owned
<1>9. ASSUME NEW w \in Mapped(x, r) \ {v} PROVE w \in Mapped(z, r) /\ Entry(z, r, w) = Entry(x, r, w)
  BY <1>5, <1>6
<1>10. ASSUME n # 0 PROVE Sound(z, r)
  <2>1. RootMarked(z, r) /\ TablesMarked(z, r)
    <3>1. r \in x.used /\ 0 \in x.used /\ r # 0 /\ n \notin {0, r}
      BY <1>10 DEF Sound, RootMarked
    <3>2. ASSUME NEW p \in Part, z.dir[r][p] # None PROVE z.dir[r][p] \in z.used \ {0, r}
      BY <1>0, <1>2, <1>3, <3>1, <3>2
    <3>3. ASSUME NEW p \in Part, NEW u \in Part, z.dir[r][p] # None, z.dir[r][u] = z.dir[r][p] PROVE p = u
      BY <1>2, <1>4, <3>3 DEF Sound, TablesMarked
    <3>. QED
      BY <1>0, <3>1, <3>2, <3>3 DEF RootMarked, TablesMarked
  <2>2. ASSUME NEW p \in Part, NEW w \in VPage PROVE EntryMarked(z, r, p, w)
    <3>1. CASE p = q
      <4>1. z.dir[r][p] = n /\ z.tab[n][w] # None => w = v /\ z.tab[n][w] = f
        BY <1>2, <3>1
      <4>2. f \notin {0, r} /\ \A u \in Part : z.dir[r][u] # f
        BY <1>2, <1>3, <1>10, <1>1 DEF Sound, RootMarked
      <4>. QED
        BY <1>0, <1>2, <3>1, <4>1, <4>2 DEF EntryMarked
    <3>2. CASE p # q /\ x.dir[r][p] # None
      <4>1. z.dir[r][p] = x.dir[r][p] /\ z.tab[x.dir[r][p]][w] = x.tab[x.dir[r][p]][w]
        BY <1>2, <1>3, <1>4, <3>2
      <4>2. EntryMarked(x, r, p, w)
        BY DEF Sound
      <4>3. x.tab[x.dir[r][p]][w] \in x.used => x.tab[x.dir[r][p]][w] # n
        BY <1>10
      <4>. QED
        BY <1>0, <1>2, <4>1, <4>2, <4>3 DEF EntryMarked
    <3>3. CASE p # q /\ x.dir[r][p] = None
      BY <1>2, <3>3 DEF EntryMarked
    <3>. QED
      BY <3>1, <3>2, <3>3
  <2>3. PagesOnce(z, r)
    <3>1. ASSUME NEW k \in Mapped(x, r) PROVE Entry(x, r, k) \in x.used
      BY Layout DEF Mapped, Entry, Sound, EntryMarked
    <3>2. ASSUME NEW u \in Mapped(z, r), NEW w \in Mapped(z, r), Entry(z, r, u) = Entry(z, r, w) PROVE u = w
      BY <1>5, <1>6, <3>1, <3>2 DEF Sound, PagesOnce
    <3>. QED
      BY <3>2 DEF PagesOnce
  <2>. QED
    BY <2>1, <2>2, <2>3 DEF Sound
<1>. QED
  BY <1>0, <1>5, <1>7, <1>8, <1>9, <1>10 DEF Grown

\* When memory has ended nothing is taken.
LEMMA TakeNothing ==
    ASSUME NEW x \in Mem, NEW r \in Frame, Healthy(x, r), First(x) = 0
    PROVE  Take(x) = x
<1>1. x.used \cup {First(x)} = x.used
  BY Layout DEF Healthy, Sound, RootMarked
<1>. QED
  BY <1>1 DEF Take, Mem

\* A page is mapped to the first free frame.
LEMMA MapGrows ==
    ASSUME NEW x \in Mem, NEW r \in Frame, NEW v \in VPage, NEW f \in Frame \ x.used, NEW y \in Mem,
           ~x.short, Sound(x, r), y.used = x.used \cup {f}, y.dir = x.dir, y.tab = x.tab, y.short = x.short
    PROVE  LET z == MapPage(y, r, v, f) IN z \in Mem /\ Grown(x, z, r, {v}) /\ v \in Mapped(z, r)
<1>1. PICK n \in Frame : n = First(y)
  BY FirstIs
<1>2. PICK q \in Part : q = PartOf(v)
  BY Layout
<1>3. PICK t \in Frame \cup {None} : t = x.dir[r][q]
  BY DEF Mem
<1>4. v \in Int
  BY Layout
<1>5. PICK z : z = MapPage(y, r, v, f)
  OBVIOUS
<1>6. z \in Mem /\ (t # None => t \in Frame /\ InTable(y, z, v, f, t)) /\ (t = None => InNewTable(y, z, r, v, f, q, n))
  BY <1>1, <1>2, <1>3, <1>4, <1>5, MapPageIs
<1>7. CASE t # None
  <2>1. Grown(x, z, r, {v}) /\ Gains(x, z, r, v)
    BY <1>2, <1>3, <1>5, <1>6, <1>7, MapIntoTable
  <2>. QED
    BY <1>5, <1>6, <2>1 DEF Gains
<1>8. CASE t = None
  <2>1. (n # 0 => n \notin x.used \cup {f}) /\ (n = 0 => Frame \subseteq x.used \cup {f})
    BY <1>1, FirstIs DEF Sound, RootMarked
  <2>. QED
    BY <1>2, <1>3, <1>5, <1>6, <1>8, <2>1, MapIntoNewTable
<1>. QED
  BY <1>7, <1>8

LEMMA AddPageGrows ==
    ASSUME NEW a \in Loop, NEW r \in Frame, NEW v \in VPage, Healthy(a.m, r)
    PROVE  LET z == AddPage(a, r, v)
           IN  z \in Loop /\ Grown(a.m, z.m, r, {v}) /\ (z.ok => a.ok /\ v \in Mapped(z.m, r))
<1>. DEFINE x == a.m
            f == First(x)
            y == Take(x)
            z == AddPage(a, r, v)
<1>1. v \in Int /\ x \in Mem /\ f \in Frame /\ y \in Mem /\ z \in Loop
  BY Layout, FirstIs, TakeIs, AddPageIs DEF Loop
<1>2. CASE ~a.ok
  <2>1. z = a
    BY <1>2 DEF AddPage
  <2>. QED
    BY <1>1, <1>2, <2>1, GrownSelf
<1>3. CASE a.ok /\ f = 0
  <2>1. z = [m |-> y, ok |-> FALSE] /\ y = x
    BY <1>1, <1>3, TakeNothing DEF AddPage
  <2>2. z.m = x /\ ~z.ok
    BY <2>1
  <2>. QED
    BY <1>1, <2>2, GrownSelf
<1>4. CASE a.ok /\ f # 0
  <2>1. z.m = MapPage(y, r, v, f) /\ z.ok
    BY <1>4 DEF AddPage
  <2>2. f \in Frame \ x.used /\ ~x.short /\ Sound(x, r) /\ z.m \in Mem
    BY <1>1, <1>4, <2>1, FirstIs DEF Healthy, Loop
  <2>3. y.used = x.used \cup {f} /\ y.dir = x.dir /\ y.tab = x.tab /\ y.short = x.short
    BY <1>1, TakeIs
  <2>4. Grown(x, z.m, r, {v}) /\ v \in Mapped(z.m, r)
    <3>. HIDE DEF x, y, f, z
    <3>. QED
      BY <1>1, <2>1, <2>2, <2>3, MapGrows
  <2>. QED
    BY <1>1, <1>4, <2>4
<1>. QED
  BY <1>2, <1>3, <1>4 DEF Loop

\* The loop that maps n pages from v on: the space grows, and if memory does not
\* end the pages are there.
LEMMA PopulateGrows ==
    ASSUME NEW a \in Loop, NEW r \in Frame, NEW v \in Int, NEW n \in Nat, Healthy(a.m, r),
           v .. v + n - 1 \subseteq VPage
    PROVE  LET z == Populate(a, r, v, n)
           IN  /\ z \in Loop /\ Grown(a.m, z.m, r, v .. v + n - 1)
               /\ z.ok => a.ok /\ v .. v + n - 1 \subseteq Mapped(z.m, r)
<1>0. PICK f \in [Nat -> Loop] : AddRun(f, a, r, v) /\ Populate(a, r, v, n) = f[n]
  BY PopulateIs
<1>1. /\ f \in [Nat -> Loop] /\ f[0] = a /\ \A i \in Nat : f[i + 1] = AddPage(f[i], r, v + i)
      /\ Populate(a, r, v, n) = f[n]
  BY <1>0 DEF AddRun
<1>. DEFINE V == v .. v + n - 1
            P(i) == /\ Grown(a.m, f[i].m, r, V)
                    /\ f[i].ok => a.ok /\ v .. v + i - 1 \subseteq Mapped(f[i].m, r)
            A == {i \in Nat : i <= n => P(i)}
<1>2. 0 \in A
  <2>1. Grown(a.m, f[0].m, r, V)
    BY <1>1, GrownSelf DEF Loop
  <2>2. v .. v + 0 - 1 = {}
    OBVIOUS
  <2>. QED
    BY <1>1, <2>1, <2>2
<1>3. ASSUME NEW i \in Nat, i \in A PROVE i + 1 \in A
  <2>. SUFFICES ASSUME i + 1 <= n PROVE P(i + 1)
    OBVIOUS
  <2>1. P(i) /\ v + i \in VPage /\ v + i \in V /\ {v + i} \subseteq V
    BY <1>3
  <2>2. f[i] \in Loop /\ f[i + 1] \in Loop /\ f[i + 1] = AddPage(f[i], r, v + i)
    BY <1>1
  <2>3. f[i].m \in Mem /\ f[i + 1].m \in Mem /\ a.m \in Mem /\ Healthy(f[i].m, r)
    BY <2>1, <2>2, GrownIsHealthy DEF Loop
  <2>4. Grown(f[i].m, f[i + 1].m, r, {v + i}) /\ (f[i + 1].ok => f[i].ok /\ v + i \in Mapped(f[i + 1].m, r))
    BY <2>1, <2>2, <2>3, AddPageGrows
  <2>5. Grown(a.m, f[i + 1].m, r, V)
    <3>. HIDE DEF V
    <3>. QED
      BY <2>1, <2>3, <2>4, GrownMore
  <2>6. ASSUME f[i + 1].ok PROVE a.ok /\ v .. v + (i + 1) - 1 \subseteq Mapped(f[i + 1].m, r)
    <3>1. a.ok /\ v .. v + i - 1 \subseteq Mapped(f[i].m, r)
      BY <2>1, <2>4, <2>6
    <3>2. \A w \in Mapped(f[i].m, r) : w # v + i => w \in Mapped(f[i + 1].m, r)
      BY <2>4 DEF Grown
    <3>3. \A w \in v .. v + (i + 1) - 1 : w = v + i \/ w \in v .. v + i - 1
      OBVIOUS
    <3>. QED
      BY <2>4, <2>6, <3>1, <3>2, <3>3
  <2>. QED
    BY <2>5, <2>6
<1>. HIDE DEF A
<1>4. \A i \in Nat : i \in A
  BY <1>2, <1>3, Induction
<1>5. P(n)
  BY <1>4 DEF A
<1>. QED
  BY <1>1, <1>5

-----------------------------------------------------------------------------
(* Copying a space.                                                        *)

\* What a new empty table f for part q changes.
EmptyTable(x, z, r, q, f) ==
    /\ z.used = x.used \cup {f} /\ z.short = x.short
    /\ z.dir = [x.dir EXCEPT ![r] = [x.dir[r] EXCEPT ![q] = f]]
    /\ z.tab = [x.tab EXCEPT ![f] = NoPages]

LEMMA CopyTableIs ==
    ASSUME NEW a \in Loop, NEW from \in Frame, NEW to \in Frame, NEW q \in Part, NEW z, NEW f,
           z = CopyTable(a, from, to, q), f = First(a.m)
    PROVE  /\ z \in Loop
           /\ ~a.ok \/ a.m.dir[from][q] = None => z = a
           /\ a.ok /\ a.m.dir[from][q] # None /\ f = 0 => z.m = Take(a.m) /\ ~z.ok
           /\ a.ok /\ a.m.dir[from][q] # None /\ f # 0 => z.ok /\ EmptyTable(a.m, z.m, to, q, f)
<1>1. a.m \in Mem /\ f \in Frame /\ Take(a.m) \in Mem
  BY FirstIs, TakeIs DEF Loop
<1>2. CASE ~a.ok \/ a.m.dir[from][q] = None
  BY <1>2 DEF CopyTable
<1>3. CASE a.ok /\ a.m.dir[from][q] # None /\ f = 0
  <2>1. z = [m |-> Take(a.m), ok |-> FALSE]
    BY <1>3 DEF CopyTable
  <2>. QED
    BY <1>1, <1>3, <2>1 DEF Loop
<1>4. CASE a.ok /\ a.m.dir[from][q] # None /\ f # 0
  <2>1. PICK d : d = [a.m.dir EXCEPT ![to] = [a.m.dir[to] EXCEPT ![q] = f]]
    OBVIOUS
  <2>2. PICK e : e = [a.m.tab EXCEPT ![f] = NoPages]
    OBVIOUS
  <2>3. z = [m |-> [Take(a.m) EXCEPT !.dir = d, !.tab = e], ok |-> TRUE]
    BY <1>1, <1>4, <2>1, <2>2, TakeIs DEF CopyTable
  <2>4. d \in [Frame -> [Part -> Frame \cup {None}]]
    BY <1>1, <2>1 DEF Mem
  <2>5. NoPages \in [VPage -> Frame \cup {None}]
    BY DEF NoPages
  <2>6. e \in [Frame -> [VPage -> Frame \cup {None}]]
    BY <1>1, <2>2, <2>5 DEF Mem
  <2>7. PICK y \in Mem : y = Take(a.m)
    BY <1>1
  <2>8. z.ok /\ z.m = [y EXCEPT !.dir = d, !.tab = e]
    BY <2>3, <2>7
  <2>9. z.m.used = y.used /\ z.m.short = y.short /\ z.m.dir = d /\ z.m.tab = e /\ z.m \in Mem
    BY <2>4, <2>6, <2>8 DEF Mem
  <2>10. y.used = a.m.used \cup {f} /\ y.short = a.m.short
    BY <1>1, <2>7, TakeIs
  <2>11. z \in Loop
    BY <2>3, <2>8, <2>9 DEF Loop
  <2>. QED
    BY <1>4, <2>1, <2>2, <2>8, <2>9, <2>10, <2>11 DEF EmptyTable
<1>. QED
  BY <1>2, <1>3, <1>4

LEMMA CopyPageIs ==
    ASSUME NEW a \in Loop, NEW from \in Frame, NEW to \in Frame, NEW v \in Int, NEW z, NEW f, NEW q, NEW t,
           z = CopyPage(a, from, to, v), f = First(a.m), q = PartOf(v), t = a.m.dir[to][q]
    PROVE  /\ z \in Loop
           /\ ~a.ok \/ v \notin Mapped(a.m, from) => z = a
           /\ a.ok /\ v \in Mapped(a.m, from) /\ f = 0 => z.m = Take(a.m) /\ ~z.ok
           /\ a.ok /\ v \in Mapped(a.m, from) /\ f # 0 => z.ok /\ InTable(Take(a.m), z.m, v, f, t)
<1>1. a.m \in Mem /\ f \in Frame /\ Take(a.m) \in Mem /\ q \in Part /\ t \in Frame \cup {None}
  BY FirstIs, TakeIs, Layout DEF Loop, Mem
<1>2. CASE ~a.ok \/ v \notin Mapped(a.m, from)
  BY <1>2 DEF CopyPage
<1>3. CASE a.ok /\ v \in Mapped(a.m, from) /\ f = 0
  <2>1. z = [m |-> Take(a.m), ok |-> FALSE]
    BY <1>3 DEF CopyPage
  <2>. QED
    BY <1>1, <1>3, <2>1 DEF Loop
<1>4. CASE a.ok /\ v \in Mapped(a.m, from) /\ f # 0
  <2>1. PICK y \in Mem : y = Take(a.m)
    BY <1>1
  <2>2. PICK e : e = [y.tab EXCEPT ![t] = [y.tab[t] EXCEPT ![v] = f]]
    OBVIOUS
  <2>3. z = [m |-> [y EXCEPT !.tab = e], ok |-> TRUE]
    BY <1>4, <2>1, <2>2 DEF CopyPage
  <2>4. e \in [Frame -> [VPage -> Frame \cup {None}]]
    <3>1. CASE t \in Frame
      BY <1>1, <2>2, <3>1 DEF Mem
    <3>2. CASE t \notin Frame
      BY <1>1, <2>2, <3>2 DEF Mem
    <3>. QED
      BY <3>1, <3>2
  <2>5. z.ok /\ z.m = [y EXCEPT !.tab = e]
    BY <2>3
  <2>6. z.m.used = y.used /\ z.m.dir = y.dir /\ z.m.short = y.short /\ z.m.tab = e /\ z.m \in Mem
    BY <2>4, <2>5 DEF Mem
  <2>7. z \in Loop
    BY <2>3, <2>5, <2>6 DEF Loop
  <2>. QED
    BY <1>4, <2>1, <2>2, <2>5, <2>6, <2>7 DEF InTable
<1>. QED
  BY <1>2, <1>3, <1>4

\* The states of the loop that copies a part.
CopyRun(f, a, from, to, q, v) ==
    /\ f[0] = CopyTable(a, from, to, q)
    /\ \A i \in Nat : f[i + 1] = CopyPage(f[i], from, to, v + i)

\* The loop that copies a part iterates CopyPage.
LEMMA CopyPartIs ==
    ASSUME NEW a \in Loop, NEW from \in Frame, NEW to \in Frame, NEW q \in Part, NEW v \in Int, NEW n \in Nat
    PROVE  \E f \in [Nat -> Loop] : CopyRun(f, a, from, to, q, v) /\ CopyPart(a, from, to, q, v, n) = f[n]
<1>. DEFINE G == [i \in Nat |-> [b \in Loop |-> CopyPage(b, from, to, v + i)]]
            o == CopyTable(a, from, to, q)
            D(h) == [i \in Nat |-> IF i = 0 THEN o ELSE CopyPage(h[i - 1], from, to, v + i - 1)]
            c == CHOOSE h : h = D(h)
<1>1. ASSUME NEW b \in Loop, NEW w \in Int PROVE CopyPage(b, from, to, w) \in Loop
  <2>1. PICK z, f, p, t : z = CopyPage(b, from, to, w) /\ f = First(b.m) /\ p = PartOf(w) /\ t = b.m.dir[to][p]
    OBVIOUS
  <2>. QED
    BY <2>1, CopyPageIs
<1>2. o \in Loop
  BY CopyTableIs, Zenon
<1>3. G \in [Nat -> [Loop -> Loop]]
  BY <1>1
<1>. HIDE DEF o
<1>4. PICK g \in [Nat -> Loop] : g[0] = o /\ \A i \in Nat : g[i + 1] = CopyPage(g[i], from, to, v + i)
  <2>. HIDE DEF G, D, c
  <2>1. Iterations(Loop, o, G) # {}
    BY <1>2, <1>3, Iteration
  <2>2. PICK g \in [Nat -> Loop] : g[0] = o /\ \A i \in Nat : g[i + 1] = G[i][g[i]]
    BY <2>1 DEF Iterations
  <2>3. \A i \in Nat : G[i][g[i]] = CopyPage(g[i], from, to, v + i)
    BY <2>2 DEF G
  <2>. QED
    BY <2>2, <2>3
<1>5. g = D(g)
  <2>1. ASSUME NEW i \in Nat PROVE g[i] = D(g)[i]
    <3>1. CASE i = 0
      BY <3>1, <1>4
    <3>2. CASE i # 0
      <4>1. i - 1 \in Nat /\ (i - 1) + 1 = i /\ v + (i - 1) = v + i - 1
        BY <3>2
      <4>2. g[i] = CopyPage(g[i - 1], from, to, v + i - 1)
        BY <1>4, <4>1
      <4>. QED
        BY <3>2, <4>2
    <3>. QED
      BY <3>1, <3>2
  <2>. QED
    BY <2>1
<1>6. c = D(c)
  BY <1>5
<1>7. CopyPart(a, from, to, q, v, n) = c[n]
  BY DEF CopyPart, o
<1>. HIDE DEF c
<1>8. c[0] = o /\ \A i \in Nat : c[i + 1] = CopyPage(c[i], from, to, v + i)
  <2>1. c[0] = o
    BY <1>6
  <2>2. ASSUME NEW i \in Nat PROVE c[i + 1] = CopyPage(c[i], from, to, v + i)
    <3>1. i + 1 \in Nat /\ i + 1 # 0 /\ (i + 1) - 1 = i /\ v + (i + 1) - 1 = v + i
      OBVIOUS
    <3>2. c[i + 1] = D(c)[i + 1]
      BY <1>6
    <3>. QED
      BY <3>1, <3>2
  <2>. QED
    BY <2>1, <2>2
<1>9. \A i \in Nat : c[i] \in Loop
  <2>. DEFINE A == {i \in Nat : c[i] \in Loop}
  <2>1. 0 \in A
    BY <1>2, <1>8
  <2>2. ASSUME NEW i \in Nat, i \in A PROVE i + 1 \in A
    <3>1. v + i \in Int /\ i + 1 \in Nat /\ c[i] \in Loop
      BY <2>2
    <3>. QED
      BY <3>1, <1>1, <1>8
  <2>. HIDE DEF A
  <2>3. \A i \in Nat : i \in A
    BY <2>1, <2>2, Induction
  <2>. QED
    BY <2>3 DEF A
<1>10. c \in [Nat -> Loop]
  BY <1>6, <1>9
<1>. QED
  BY <1>7, <1>8, <1>10 DEF o, CopyRun

\* A space with a new empty table.
LEMMA NewTableGrows ==
    ASSUME NEW x \in Mem, NEW r \in Frame, NEW q \in Part, NEW f \in Frame \ x.used, NEW z \in Mem,
           ~x.short, Sound(x, r), x.dir[r][q] = None, EmptyTable(x, z, r, q, f)
    PROVE  Grown(x, z, r, {}) /\ Mapped(z, r) = Mapped(x, r)
<1>0. /\ z.used = x.used \cup {f} /\ z.short = x.short
      /\ z.dir = [x.dir EXCEPT ![r] = [x.dir[r] EXCEPT ![q] = f]]
      /\ z.tab = [x.tab EXCEPT ![f] = NoPages]
  BY DEF EmptyTable
<1>1. /\ \A p \in Part : z.dir[r][p] = IF p = q THEN f ELSE x.dir[r][p]
      /\ \A g \in Frame \ {r} : z.dir[g] = x.dir[g]
      /\ \A g \in Frame \ {f} : z.tab[g] = x.tab[g]
      /\ \A w \in VPage : z.tab[f][w] = None
  BY <1>0 DEF Mem, NoPages
<1>2. \A p \in Part : x.dir[r][p] \in (x.used \ {0, r}) \cup {None} /\ x.dir[r][p] \in Frame \cup {None}
  BY DEF Mem, Sound, TablesMarked
<1>3. f # None /\ f # 0 /\ f # r /\ \A p \in Part : x.dir[r][p] # f
  BY <1>2, Layout DEF Sound, RootMarked
<1>4. ASSUME NEW w \in VPage
      PROVE  /\ w \in Mapped(z, r) <=> w \in Mapped(x, r)
             /\ w \in Mapped(x, r) => Entry(z, r, w) = Entry(x, r, w)
  <2>1. PartOf(w) \in Part
    BY Layout
  <2>2. CASE PartOf(w) = q
    BY <1>1, <2>2 DEF Mapped
  <2>3. CASE PartOf(w) # q
    BY <1>1, <1>2, <1>3, <2>1, <2>3 DEF Mapped, Entry
  <2>. QED
    BY <2>2, <2>3
<1>5. Mapped(z, r) = Mapped(x, r)
  BY <1>4 DEF Mapped
<1>6. ASSUME NEW g \in x.used \ Owned(x, r), g # 0 PROVE z.dir[g] = x.dir[g] /\ z.tab[g] = x.tab[g]
  <2>1. g # r /\ g # f /\ g \in Frame
    BY DEF Owned, Mem
  <2>. QED
    BY <1>1, <2>1
<1>7. ASSUME NEW g \in Owned(z, r) PROVE g \in Owned(x, r) \/ g \notin x.used
  <2>1. CASE g = r \/ \E p \in Part : z.dir[r][p] = g
    BY <1>1, <2>1 DEF Owned
  <2>2. CASE \E p \in Part, w \in VPage : z.dir[r][p] # None /\ z.tab[z.dir[r][p]][w] = g
    <3>1. PICK p \in Part, w \in VPage : z.dir[r][p] # None /\ z.tab[z.dir[r][p]][w] = g
      BY <2>2
    <3>2. p # q
      BY <1>1, <3>1, Layout DEF Owned
    <3>3. x.dir[r][p] # None /\ x.tab[x.dir[r][p]][w] = g
      BY <1>1, <1>2, <1>3, <3>1, <3>2
    <3>. QED
      BY <3>3 DEF Owned
  <2>. QED
    BY <2>1, <2>2 DEF Owned
<1>8. RootMarked(z, r) /\ TablesMarked(z, r)
  <2>1. ASSUME NEW p \in Part, z.dir[r][p] # None PROVE z.dir[r][p] \in z.used \ {0, r}
    BY <1>0, <1>1, <1>2, <1>3, <2>1
  <2>2. ASSUME NEW p \in Part, NEW u \in Part, z.dir[r][p] # None, z.dir[r][u] = z.dir[r][p] PROVE p = u
    BY <1>1, <1>3, <2>2 DEF Sound, TablesMarked
  <2>. QED
    BY <1>0, <2>1, <2>2 DEF Sound, RootMarked, TablesMarked
<1>9. ASSUME NEW p \in Part, NEW w \in VPage PROVE EntryMarked(z, r, p, w)
  <2>1. CASE p = q
    BY <1>1, <2>1 DEF EntryMarked
  <2>2. CASE p # q /\ x.dir[r][p] # None
    <3>1. z.dir[r][p] = x.dir[r][p] /\ z.tab[x.dir[r][p]][w] = x.tab[x.dir[r][p]][w]
      BY <1>1, <1>2, <1>3, <2>2
    <3>2. EntryMarked(x, r, p, w)
      BY DEF Sound
    <3>. QED
      BY <1>0, <1>1, <3>1, <3>2 DEF EntryMarked
  <2>3. CASE p # q /\ x.dir[r][p] = None
    BY <1>1, <2>3 DEF EntryMarked
  <2>. QED
    BY <2>1, <2>2, <2>3
<1>10. PagesOnce(z, r)
  <2>1. Mapped(x, r) \subseteq VPage
    BY DEF Mapped
  <2>. QED
    BY <1>4, <1>5, <2>1 DEF Sound, PagesOnce
<1>11. \A w \in Mapped(x, r) : w \in Mapped(z, r) /\ Entry(z, r, w) = Entry(x, r, w)
  <2>1. Mapped(x, r) \subseteq VPage
    BY DEF Mapped
  <2>. QED
    BY <1>4, <2>1
<1>. QED
  BY <1>0, <1>5, <1>6, <1>7, <1>8, <1>9, <1>10, <1>11 DEF Grown, Sound

-----------------------------------------------------------------------------
(* Spaces that are left alone.                                             *)

Apart(x, r, s) == Owned(x, r) \cap Owned(x, s) = {}
\* The tables of s are as they were.
Same(x, y, s) ==
    /\ y.dir[s] = x.dir[s]
    /\ \A q \in Part : x.dir[s][q] # None => y.tab[x.dir[s][q]] = x.tab[x.dir[s][q]]

LEMMA SoundOwned ==
    ASSUME NEW x \in Mem, NEW s \in Frame, Sound(x, s)
    PROVE  Owned(x, s) \subseteq x.used \ {0}
<1>. SUFFICES ASSUME NEW f \in Owned(x, s) PROVE f \in x.used /\ f # 0
  OBVIOUS
<1>1. f \in Frame /\ f # None
  BY Layout DEF Owned
<1>2. CASE f = s
  BY <1>2 DEF Sound, RootMarked
<1>3. CASE \E q \in Part : x.dir[s][q] = f
  BY <1>1, <1>3 DEF Sound, TablesMarked
<1>4. CASE \E q \in Part, v \in VPage : x.dir[s][q] # None /\ x.tab[x.dir[s][q]][v] = f
  BY <1>1, <1>4 DEF Sound, EntryMarked
<1>. QED
  BY <1>2, <1>3, <1>4 DEF Owned

LEMMA SameSpace ==
    ASSUME NEW x \in Mem, NEW y \in Mem, NEW s \in Frame, Same(x, y, s)
    PROVE  /\ Owned(y, s) = Owned(x, s) /\ Mapped(y, s) = Mapped(x, s)
           /\ \A w \in Mapped(x, s) : Entry(y, s, w) = Entry(x, s, w)
           /\ Sound(x, s) /\ Owned(x, s) \subseteq y.used /\ 0 \in y.used => Sound(y, s)
<1>1. Owned(y, s) = Owned(x, s)
  BY DEF Same, Owned
<1>2. \A w \in VPage : PartOf(w) \in Part
  BY Layout
<1>3. Mapped(y, s) = Mapped(x, s)
  BY <1>2 DEF Same, Mapped
<1>4. ASSUME NEW w \in Mapped(x, s) PROVE Entry(y, s, w) = Entry(x, s, w)
  BY <1>2 DEF Same, Mapped, Entry
<1>5. ASSUME Sound(x, s), Owned(x, s) \subseteq y.used, 0 \in y.used PROVE Sound(y, s)
  <2>1. \A q \in Part : x.dir[s][q] # None => x.dir[s][q] \in Owned(x, s)
    BY DEF Owned, Mem
  <2>2. RootMarked(y, s)
    BY <1>5 DEF Owned, Sound, RootMarked
  <2>3. TablesMarked(y, s)
    BY <1>5, <2>1 DEF Same, Sound, TablesMarked
  <2>4. PagesOnce(y, s)
    BY <1>3, <1>4, <1>5 DEF Sound, PagesOnce
  <2>5. ASSUME NEW q \in Part, NEW v \in VPage PROVE EntryMarked(y, s, q, v)
    <3>1. EntryMarked(x, s, q, v)
      BY <1>5 DEF Sound
    <3>2. x.dir[s][q] # None /\ x.tab[x.dir[s][q]][v] # None => x.tab[x.dir[s][q]][v] \in Owned(x, s)
      BY DEF Owned, Mem
    <3>. QED
      BY <1>5, <3>1, <3>2 DEF Same, EntryMarked
  <2>. QED
    BY <2>2, <2>3, <2>4, <2>5 DEF Sound
<1>. QED
  BY <1>1, <1>3, <1>4, <1>5

\* When the space of r grows, the spaces apart from it are left alone.
LEMMA OthersKept ==
    ASSUME NEW x \in Mem, NEW y \in Mem, NEW r \in Frame, NEW s \in Frame, NEW V,
           Grown(x, y, r, V), Sound(x, s), Apart(x, r, s)
    PROVE  Same(x, y, s) /\ Apart(y, r, s) /\ Sound(y, s)
<1>1. Owned(x, s) \subseteq x.used \ {0} /\ Owned(x, s) \cap Owned(x, r) = {}
  BY SoundOwned DEF Apart
<1>2. \A f \in Owned(x, s) : y.dir[f] = x.dir[f] /\ y.tab[f] = x.tab[f]
  BY <1>1 DEF Grown
<1>3. Same(x, y, s)
  <2>1. s \in Owned(x, s) /\ \A q \in Part : x.dir[s][q] # None => x.dir[s][q] \in Owned(x, s)
    BY DEF Owned, Mem
  <2>. QED
    BY <1>2, <2>1 DEF Same
<1>4. Owned(y, s) = Owned(x, s) /\ Sound(y, s)
  <2>1. x.used \subseteq y.used /\ 0 \in x.used
    BY DEF Grown, Sound, RootMarked
  <2>. QED
    BY <1>1, <1>3, <2>1, SameSpace
<1>5. Apart(y, r, s)
  BY <1>1, <1>4 DEF Apart, Grown
<1>. QED
  BY <1>3, <1>4, <1>5

-----------------------------------------------------------------------------
(* The copy of a space.                                                    *)

\* Page v of s has been copied to r.
PageCopied(a, z, s, r, v) ==
    /\ Grown(a.m, z.m, r, {v}) /\ ~z.m.short /\ z.m.dir = a.m.dir
    /\ z.ok => a.ok /\ Mapped(z.m, r) = Mapped(a.m, r) \cup ({v} \cap Mapped(a.m, s))

LEMMA CopyPageGrows ==
    ASSUME NEW a \in Loop, NEW s \in Frame, NEW r \in Frame, NEW v \in VPage, ~a.m.short, Sound(a.m, r),
           a.ok /\ v \in Mapped(a.m, s) => a.m.dir[r][PartOf(v)] # None
    PROVE  CopyPage(a, s, r, v) \in Loop /\ PageCopied(a, CopyPage(a, s, r, v), s, r, v)
<1>1. v \in Int /\ a.m \in Mem /\ Healthy(a.m, r)
  BY Layout DEF Loop, Healthy
<1>a. PICK x \in Mem : x = a.m
  BY <1>1
<1>b. PICK f \in Frame : f = First(x)
  BY FirstIs
<1>c. PICK y \in Mem : y = Take(x)
  BY TakeIs
<1>d. PICK q \in Part : q = PartOf(v)
  BY Layout
<1>e. PICK t : t = x.dir[r][q]
  OBVIOUS
<1>f. PICK z : z = CopyPage(a, s, r, v)
  OBVIOUS
<1>2. x = a.m /\ f = First(x) /\ q = PartOf(v) /\ t = x.dir[r][q] /\ z = CopyPage(a, s, r, v) /\ y = Take(x)
  BY <1>a, <1>b, <1>c, <1>d, <1>e, <1>f
<1>3. /\ z \in Loop
      /\ ~a.ok \/ v \notin Mapped(x, s) => z = a
      /\ a.ok /\ v \in Mapped(x, s) /\ f = 0 => z.m = y /\ ~z.ok
      /\ a.ok /\ v \in Mapped(x, s) /\ f # 0 => z.ok /\ InTable(y, z.m, v, f, t)
  BY <1>1, <1>2, CopyPageIs
<1>4. CASE ~a.ok \/ v \notin Mapped(x, s)
  <2>1. z = a /\ Grown(x, x, r, {v})
    BY <1>1, <1>2, <1>3, <1>4, GrownSelf
  <2>2. v \notin Mapped(x, s) => Mapped(x, r) = Mapped(x, r) \cup ({v} \cap Mapped(x, s))
    OBVIOUS
  <2>. QED
    BY <1>2, <1>3, <1>4, <2>1, <2>2 DEF PageCopied
<1>5. CASE a.ok /\ v \in Mapped(x, s) /\ f = 0
  <2>1. z.m = x /\ ~z.ok /\ Grown(x, x, r, {v})
    BY <1>1, <1>2, <1>3, <1>5, GrownSelf, TakeNothing
  <2>. QED
    BY <1>2, <1>3, <2>1 DEF PageCopied
<1>6. CASE a.ok /\ v \in Mapped(x, s) /\ f # 0
  <2>1. z.ok /\ InTable(y, z.m, v, f, t) /\ z.m \in Mem /\ t # None
    BY <1>2, <1>3, <1>6 DEF Loop
  <2>2. f \in Frame \ x.used /\ y.used = x.used \cup {f} /\ y.dir = x.dir /\ y.tab = x.tab /\ y.short = x.short
    BY <1>2, <1>6, FirstIs, TakeIs
  <2>3. Grown(x, z.m, r, {v}) /\ Gains(x, z.m, r, v)
    BY <1>2, <2>1, <2>2, MapIntoTable
  <2>4. Mapped(z.m, r) = Mapped(x, r) \cup ({v} \cap Mapped(x, s))
    BY <1>6, <2>3 DEF Gains
  <2>5. z.m.dir = x.dir /\ ~z.m.short
    BY <1>2, <2>1, <2>2 DEF InTable
  <2>. QED
    BY <1>2, <1>3, <1>6, <2>1, <2>3, <2>4, <2>5 DEF PageCopied
<1>. QED
  BY <1>4, <1>5, <1>6

LEMMA CopyTableGrows ==
    ASSUME NEW a \in Loop, NEW s \in Frame, NEW r \in Frame, NEW q \in Part, ~a.m.short, Sound(a.m, r),
           a.m.dir[r][q] = None
    PROVE  LET z == CopyTable(a, s, r, q)
           IN  /\ z \in Loop /\ Grown(a.m, z.m, r, {}) /\ ~z.m.short
               /\ \A p \in Part \ {q} : z.m.dir[r][p] = a.m.dir[r][p]
               /\ z.ok => /\ a.ok /\ Mapped(z.m, r) = Mapped(a.m, r)
                          /\ a.m.dir[s][q] # None => z.m.dir[r][q] # None
<1>1. a.m \in Mem /\ Healthy(a.m, r)
  BY DEF Loop, Healthy
<1>a. PICK x \in Mem : x = a.m
  BY <1>1
<1>b. PICK f \in Frame : f = First(x)
  BY FirstIs
<1>c. PICK y \in Mem : y = Take(x)
  BY TakeIs
<1>d. PICK z : z = CopyTable(a, s, r, q)
  OBVIOUS
<1>2. x = a.m /\ f = First(x) /\ z = CopyTable(a, s, r, q) /\ y = Take(x)
  BY <1>a, <1>b, <1>c, <1>d
<1>3. /\ z \in Loop
      /\ ~a.ok \/ x.dir[s][q] = None => z = a
      /\ a.ok /\ x.dir[s][q] # None /\ f = 0 => z.m = y /\ ~z.ok
      /\ a.ok /\ x.dir[s][q] # None /\ f # 0 => z.ok /\ EmptyTable(x, z.m, r, q, f)
  BY <1>2, CopyTableIs
<1>4. CASE ~a.ok \/ x.dir[s][q] = None
  <2>1. z = a /\ Grown(x, x, r, {})
    BY <1>1, <1>2, <1>3, <1>4, GrownSelf
  <2>. QED
    BY <1>2, <1>3, <1>4, <2>1
<1>5. CASE a.ok /\ x.dir[s][q] # None /\ f = 0
  <2>1. z.m = x /\ ~z.ok /\ Grown(x, x, r, {})
    BY <1>1, <1>2, <1>3, <1>5, GrownSelf, TakeNothing
  <2>. QED
    BY <1>2, <1>3, <2>1
<1>6. CASE a.ok /\ x.dir[s][q] # None /\ f # 0
  <2>1. PICK w \in Mem : w = z.m
    BY <1>3 DEF Loop
  <2>2. EmptyTable(x, w, r, q, f)
    BY <1>3, <1>6, <2>1
  <2>3. f \in Frame \ x.used /\ f # None /\ ~x.short /\ Sound(x, r) /\ x.dir[r][q] = None
    BY <1>2, <1>6, FirstIs, Layout
  <2>4. Grown(x, w, r, {}) /\ Mapped(w, r) = Mapped(x, r)
    BY <2>2, <2>3, NewTableGrows
  <2>5. w.dir[r][q] = f /\ \A p \in Part \ {q} : w.dir[r][p] = x.dir[r][p]
    BY <2>2 DEF Mem, EmptyTable
  <2>6. ~w.short
    BY <2>2, <2>3 DEF EmptyTable
  <2>. QED
    BY <1>2, <1>3, <1>6, <2>1, <2>3, <2>4, <2>5, <2>6
<1>. QED
  BY <1>4, <1>5, <1>6

\* The pages V, of part q of s, have been copied to r.
PartCopied(a, z, s, r, q, V) ==
    /\ Grown(a.m, z.m, r, VPage) /\ ~z.m.short
    /\ \A p \in Part \ {q} : z.m.dir[r][p] = a.m.dir[r][p]
    /\ z.ok => a.ok /\ Mapped(z.m, r) = Mapped(a.m, r) \cup (Mapped(a.m, s) \cap V)

\* The loop that copies a part of the space of s: the space of r grows, memory
\* is never short, and if the loop ends well r has the pages of s.
LEMMA CopyPartGrows ==
    ASSUME NEW a \in Loop, NEW s \in Frame, NEW r \in Frame, NEW q \in Part, NEW v \in Int, NEW n \in Nat,
           ~a.m.short, Sound(a.m, r), Sound(a.m, s), Apart(a.m, r, s), a.m.dir[r][q] = None,
           \A w \in v .. v + n - 1 : w \in VPage /\ PartOf(w) = q
    PROVE  PartCopied(a, CopyPart(a, s, r, q, v, n), s, r, q, v .. v + n - 1)
<1>0. PICK f \in [Nat -> Loop] : CopyRun(f, a, s, r, q, v) /\ CopyPart(a, s, r, q, v, n) = f[n]
  BY CopyPartIs
<1>1. /\ f \in [Nat -> Loop] /\ f[0] = CopyTable(a, s, r, q)
      /\ \A i \in Nat : f[i + 1] = CopyPage(f[i], s, r, v + i)
      /\ CopyPart(a, s, r, q, v, n) = f[n]
  BY <1>0 DEF CopyRun
<1>. DEFINE P(i) == /\ Grown(a.m, f[i].m, r, VPage) /\ ~f[i].m.short
                    /\ \A p \in Part \ {q} : f[i].m.dir[r][p] = a.m.dir[r][p]
                    /\ f[i].ok => /\ a.ok
                                  /\ Mapped(f[i].m, r) = Mapped(a.m, r) \cup (Mapped(a.m, s) \cap (v .. v + i - 1))
                                  /\ a.m.dir[s][q] # None => f[i].m.dir[r][q] # None
            A == {i \in Nat : i <= n => P(i)}
<1>2. a.m \in Mem /\ \A i \in Nat : f[i] \in Loop /\ f[i].m \in Mem
  BY <1>1 DEF Loop
<1>3. 0 \in A
  <2>1. v .. v + 0 - 1 = {}
    OBVIOUS
  <2>2. /\ f[0] \in Loop /\ Grown(a.m, f[0].m, r, {}) /\ ~f[0].m.short
        /\ \A p \in Part \ {q} : f[0].m.dir[r][p] = a.m.dir[r][p]
        /\ f[0].ok => /\ a.ok /\ Mapped(f[0].m, r) = Mapped(a.m, r)
                      /\ a.m.dir[s][q] # None => f[0].m.dir[r][q] # None
    BY <1>1, CopyTableGrows
  <2>3. Healthy(a.m, r)
    BY DEF Healthy
  <2>4. Grown(a.m, f[0].m, r, VPage)
    BY <1>2, <2>2, <2>3, GrownSelf, GrownMore
  <2>. QED
    BY <2>1, <2>2, <2>4
<1>4. ASSUME NEW i \in Nat, i \in A PROVE i + 1 \in A
  <2>. SUFFICES ASSUME i + 1 <= n PROVE P(i + 1)
    OBVIOUS
  <2>0. P(i)
    BY <1>4
  <2>1. PICK x \in Mem : x = a.m
    BY <1>2
  <2>2. PICK y \in Mem : y = f[i].m
    BY <1>2
  <2>3. PICK w \in VPage : w = v + i /\ PartOf(w) = q
    OBVIOUS
  <2>4. Same(x, y, s) /\ Mapped(y, s) = Mapped(x, s) /\ y.dir[s] = x.dir[s] /\ Sound(y, r)
    <3>1. Grown(x, y, r, VPage) /\ ~y.short
      BY <2>0, <2>1, <2>2
    <3>2. Same(x, y, s)
      BY <2>1, <3>1, OthersKept
    <3>. QED
      BY <3>1, <3>2, SameSpace DEF Same, Grown
  <2>5. f[i].ok /\ w \in Mapped(y, s) => y.dir[r][PartOf(w)] # None
    <3>1. w \in Mapped(y, s) => x.dir[s][q] # None
      BY <2>3, <2>4 DEF Mapped
    <3>. QED
      BY <2>0, <2>1, <2>2, <2>3, <3>1
  <2>6. /\ Grown(y, f[i + 1].m, r, {w}) /\ ~f[i + 1].m.short /\ f[i + 1].m.dir = y.dir
        /\ f[i + 1].ok => f[i].ok /\ Mapped(f[i + 1].m, r) = Mapped(y, r) \cup ({w} \cap Mapped(y, s))
    <3>1. f[i + 1] = CopyPage(f[i], s, r, w) /\ f[i] \in Loop
      BY <1>1, <2>3
    <3>2. ~f[i].m.short /\ Sound(f[i].m, r) /\ (f[i].ok /\ w \in Mapped(f[i].m, s) => f[i].m.dir[r][PartOf(w)] # None)
      BY <2>0, <2>2, <2>4, <2>5
    <3>3. PICK b \in Loop : b = f[i]
      BY <3>1
    <3>4. PageCopied(b, CopyPage(b, s, r, w), s, r, w)
      BY <3>2, <3>3, CopyPageGrows
    <3>. QED
      BY <2>2, <3>1, <3>3, <3>4 DEF PageCopied
  <2>7. Grown(a.m, f[i + 1].m, r, VPage)
    <3>1. {w} \subseteq VPage /\ i + 1 \in Nat
      OBVIOUS
    <3>. QED
      BY <1>2, <2>0, <2>2, <2>6, <3>1, GrownMore
  <2>8. \A p \in Part \ {q} : f[i + 1].m.dir[r][p] = a.m.dir[r][p]
    BY <2>0, <2>2, <2>6
  <2>9. ASSUME f[i + 1].ok
        PROVE  /\ a.ok
               /\ Mapped(f[i + 1].m, r) = Mapped(a.m, r) \cup (Mapped(a.m, s) \cap (v .. v + (i + 1) - 1))
               /\ a.m.dir[s][q] # None => f[i + 1].m.dir[r][q] # None
    <3>1. v .. v + (i + 1) - 1 = (v .. v + i - 1) \cup {w}
      BY <2>3
    <3>2. Mapped(f[i + 1].m, r) = Mapped(y, r) \cup ({w} \cap Mapped(x, s))
      BY <2>4, <2>6, <2>9
    <3>3. Mapped(y, r) = Mapped(x, r) \cup (Mapped(x, s) \cap (v .. v + i - 1)) /\ a.ok
      BY <2>0, <2>1, <2>2, <2>6, <2>9
    <3>4. a.m.dir[s][q] # None => f[i + 1].m.dir[r][q] # None
      BY <2>0, <2>2, <2>6, <2>9
    <3>5. \A B, C, D, E : (B \cup (C \cap D)) \cup ({w} \cap C) = B \cup (C \cap (D \cup {w}))
      OBVIOUS
    <3>. QED
      BY <2>1, <3>1, <3>2, <3>3, <3>4, <3>5
  <2>. QED
    BY <2>6, <2>7, <2>8, <2>9
<1>. HIDE DEF A
<1>5. \A i \in Nat : i \in A
  BY <1>3, <1>4, Induction
<1>6. P(n)
  BY <1>5 DEF A
<1>. QED
  BY <1>1, <1>2, <1>6 DEF PartCopied

-----------------------------------------------------------------------------
(* New spaces and the release of a space.                                  *)

\* The space of s is left alone and stays apart from that of r.
Leaves(x, y, r, s) == Same(x, y, s) /\ Sound(y, s) /\ Apart(y, r, s)

LEMMA SameMore ==
    ASSUME NEW x, NEW y, NEW z, NEW s, Same(x, y, s), Same(y, z, s)
    PROVE  Same(x, z, s)
BY DEF Same

\* vmm_create_address_space: an empty space, apart from the others.
LEMMA CreateSpaceIs ==
    ASSUME NEW x \in Mem, NEW r \in Frame, r = First(x), NEW y, y = CreateSpace(x)
    PROVE  /\ y \in Mem /\ y.short = x.short
           /\ r # 0 => y.dir[r] = NoTables /\ Mapped(y, r) = {}
           /\ r # 0 /\ 0 \in x.used =>
                 Sound(y, r) /\ \A s \in Frame : Sound(x, s) => Leaves(x, y, r, s)
<1>1. PICK t \in Mem : t = Take(x)
  BY TakeIs
<1>2. t.used = x.used \cup {r} /\ t.dir = x.dir /\ t.tab = x.tab /\ t.short = x.short
  BY <1>1, TakeIs
<1>3. CASE r = 0
  BY <1>1, <1>2, <1>3 DEF CreateSpace
<1>4. CASE r # 0
  <2>a. PICK d : d = [x.dir EXCEPT ![r] = NoTables]
    OBVIOUS
  <2>1. y = [t EXCEPT !.dir = d]
    BY <1>1, <1>2, <1>4, <2>a DEF CreateSpace
  <2>b. NoTables \in [Part -> Frame \cup {None}]
    BY DEF NoTables
  <2>2. d \in [Frame -> [Part -> Frame \cup {None}]]
    BY <2>a, <2>b DEF Mem
  <2>3. /\ y \in Mem /\ y.used = x.used \cup {r} /\ y.tab = x.tab /\ y.short = x.short
        /\ y.dir = [x.dir EXCEPT ![r] = NoTables]
    BY <1>2, <2>a, <2>1, <2>2 DEF Mem
  <2>4. y.dir[r] = NoTables /\ \A q \in Part : y.dir[r][q] = None
    BY <2>3 DEF Mem, NoTables
  <2>5. Mapped(y, r) = {}
    BY <2>4, Layout DEF Mapped
  <2>6. r \notin x.used
    BY <1>4, FirstIs
  <2>7. Owned(y, r) = {r}
    BY <2>4, Layout DEF Owned
  <2>8. ASSUME 0 \in x.used PROVE Sound(y, r)
    BY <1>4, <2>3, <2>4, <2>5, <2>8 DEF Sound, RootMarked, TablesMarked, PagesOnce, EntryMarked
  <2>9. ASSUME 0 \in x.used, NEW s \in Frame, Sound(x, s) PROVE Leaves(x, y, r, s)
    <3>1. Owned(x, s) \subseteq x.used \ {0} /\ s \in Owned(x, s)
      BY <2>9, SoundOwned DEF Owned
    <3>2. s # r
      BY <2>6, <3>1
    <3>3. Same(x, y, s)
      BY <2>3, <3>2 DEF Same, Mem
    <3>4. Owned(y, s) = Owned(x, s) /\ Sound(y, s)
      BY <2>3, <2>9, <3>1, <3>3, SameSpace
    <3>. QED
      BY <2>6, <2>7, <3>1, <3>3, <3>4 DEF Leaves, Apart
  <2>. QED
    BY <2>3, <2>4, <2>5, <2>8, <2>9
<1>. QED
  BY <1>3, <1>4

LEMMA LeavesMore ==
    ASSUME NEW x \in Mem, NEW y \in Mem, NEW z \in Mem, NEW r \in Frame, NEW s \in Frame, NEW V,
           Leaves(x, y, r, s), Grown(y, z, r, V)
    PROVE  Leaves(x, z, r, s)
BY OthersKept, SameMore DEF Leaves

LEMMA BegunIs ==
    ASSUME NEW x \in Mem
    PROVE  Begun(x) \in Loop /\ Begun(x).m = x /\ Begun(x).ok
<1>1. PICK b : b = Begun(x)
  OBVIOUS
<1>2. b = [m |-> x, ok |-> TRUE]
  BY <1>1 DEF Begun
<1>3. b \in Loop /\ b.m = x /\ b.ok
  BY <1>2 DEF Loop
<1>. QED
  BY <1>1, <1>3

\* What vmm_clone_address_space returns: a child with the parent's pages, apart
\* from all the other spaces; and none of them is touched.
Cloned(x, z, s, r) ==
    /\ ~z.m.short /\ 0 \in z.m.used
    /\ r = 0 => z.m = x /\ ~z.ok
    /\ r # 0 => Sound(z.m, r) /\ \A p \in Frame : Sound(x, p) => Leaves(x, z.m, r, p)
    /\ z.ok => Mapped(z.m, r) = Mapped(x, s)

LEMMA CopyIs ==
    ASSUME NEW x \in Mem, NEW s \in Frame, NEW r \in Frame, r = First(x), NEW z, z = Copy(x, s)
    PROVE  z \in Loop /\ (~x.short /\ 0 \in x.used /\ Sound(x, s) => Cloned(x, z, s, r))
<1>1. CASE r = 0
  <2>1. z = [m |-> Take(x), ok |-> FALSE]
    BY <1>1 DEF Copy
  <2>2. z \in Loop /\ z.m = Take(x) /\ ~z.ok
    BY <2>1, TakeIs DEF Loop
  <2>3. ASSUME ~x.short, Sound(x, s) PROVE Take(x) = x
    BY <1>1, <2>3, TakeNothing DEF Healthy
  <2>. QED
    BY <1>1, <2>2, <2>3 DEF Cloned
<1>2. CASE r # 0
  <2>1. PICK y : y = CreateSpace(x)
    OBVIOUS
  <2>2. /\ y \in Mem /\ y.short = x.short /\ y.dir[r] = NoTables /\ Mapped(y, r) = {}
        /\ 0 \in x.used => Sound(y, r) /\ \A p \in Frame : Sound(x, p) => Leaves(x, y, r, p)
    BY <1>2, <2>1, CreateSpaceIs
  <2>3. PICK b \in Loop : b = Begun(y) /\ b.m = y /\ b.ok
    BY <2>2, BegunIs
  <2>4. "low" \in Part /\ "high" \in Part \ {"low"} /\ 0 \in Int /\ Bottom \in Nat /\ Stack \in Nat
    BY Layout
  <2>5. PICK l \in Loop : l = CopyPart(b, s, r, "low", 0, Bottom)
    <3>1. \E f \in [Nat -> Loop] : CopyRun(f, b, s, r, "low", 0) /\ CopyPart(b, s, r, "low", 0, Bottom) = f[Bottom]
      BY <2>4, CopyPartIs
    <3>. QED
      BY <2>4, <3>1
  <2>6. z = CopyPart(l, s, r, "high", Bottom, Stack)
    BY <1>2, <2>1, <2>3, <2>5 DEF Copy
  <2>7. z \in Loop
    <3>1. \E f \in [Nat -> Loop] : CopyRun(f, l, s, r, "high", Bottom) /\ CopyPart(l, s, r, "high", Bottom, Stack) = f[Stack]
      BY <2>4, CopyPartIs
    <3>. QED
      BY <2>4, <2>6, <3>1
  <2>8. ASSUME ~x.short, 0 \in x.used, Sound(x, s) PROVE Cloned(x, z, s, r)
    <3>1. Sound(y, r) /\ Leaves(x, y, r, s) /\ ~y.short /\ Sound(y, s) /\ Apart(y, r, s) /\ Mapped(y, s) = Mapped(x, s)
      BY <2>2, <2>8, SameSpace DEF Leaves
    <3>2. y.dir[r]["low"] = None /\ y.dir[r]["high"] = None
      BY <2>2, <2>4 DEF NoTables
    <3>3. \A w \in 0 .. 0 + Bottom - 1 : w \in VPage /\ PartOf(w) = "low"
      BY Layout DEF PartOf
    <3>4. \A w \in Bottom .. Bottom + Stack - 1 : w \in VPage /\ PartOf(w) = "high"
      BY Layout DEF PartOf
    <3>a. PartCopied(b, CopyPart(b, s, r, "low", 0, Bottom), s, r, "low", 0 .. 0 + Bottom - 1)
      BY <2>3, <2>4, <3>1, <3>2, <3>3, CopyPartGrows
    <3>5. /\ Grown(y, l.m, r, VPage) /\ ~l.m.short
          /\ \A p \in Part \ {"low"} : l.m.dir[r][p] = y.dir[r][p]
          /\ l.ok => Mapped(l.m, r) = Mapped(y, r) \cup (Mapped(y, s) \cap (0 .. 0 + Bottom - 1))
      BY <2>3, <2>5, <3>a DEF PartCopied
    <3>6. l.m \in Mem /\ z.m \in Mem
      BY <2>7 DEF Loop
    <3>7. Leaves(y, l.m, r, s) /\ Sound(l.m, r) /\ l.m.dir[r]["high"] = None
      BY <2>2, <2>4, <3>1, <3>2, <3>5, <3>6, OthersKept DEF Leaves, Grown
    <3>8. Sound(l.m, s) /\ Apart(l.m, r, s) /\ Mapped(l.m, s) = Mapped(y, s)
      BY <2>2, <3>6, <3>7, SameSpace DEF Leaves
    <3>9. /\ Grown(l.m, z.m, r, VPage) /\ ~z.m.short
          /\ z.ok => l.ok /\ Mapped(z.m, r) = Mapped(l.m, r) \cup (Mapped(l.m, s) \cap (Bottom .. Bottom + Stack - 1))
      <4>1. PartCopied(l, CopyPart(l, s, r, "high", Bottom, Stack), s, r, "high", Bottom .. Bottom + Stack - 1)
        BY <2>4, <3>4, <3>5, <3>7, <3>8, CopyPartGrows
      <4>. QED
        BY <2>6, <4>1 DEF PartCopied
    <3>10. Grown(y, z.m, r, VPage)
      BY <2>2, <3>5, <3>6, <3>9, GrownMore
    <3>11. \A p \in Frame : Sound(x, p) => Leaves(x, z.m, r, p)
      BY <2>2, <2>8, <3>6, <3>10, LeavesMore
    <3>12. Sound(z.m, r) /\ 0 \in z.m.used
      BY <3>9, <3>10 DEF Grown, Sound, RootMarked
    <3>13. ASSUME z.ok PROVE Mapped(z.m, r) = Mapped(x, s)
      <4>1. Mapped(z.m, r) = (Mapped(x, s) \cap (0 .. 0 + Bottom - 1)) \cup (Mapped(x, s) \cap (Bottom .. Bottom + Stack - 1))
        BY <2>2, <3>1, <3>5, <3>8, <3>9, <3>13
      <4>2. VPage = (0 .. 0 + Bottom - 1) \cup (Bottom .. Bottom + Stack - 1)
        BY Layout
      <4>3. Mapped(x, s) \subseteq VPage
        BY DEF Mapped
      <4>. QED
        BY <4>1, <4>2, <4>3
    <3>. QED
      BY <1>2, <3>9, <3>11, <3>12, <3>13 DEF Cloned
  <2>. QED
    BY <2>7, <2>8
<1>. QED
  BY <1>1, <1>2

\* process_flush_user_space: spaces apart from the released one are left alone.
LEMMA FlushIs ==
    ASSUME NEW x \in Mem, NEW r \in Frame, NEW z, z = Flush(x, r)
    PROVE  /\ z \in Mem /\ z.short = x.short
           /\ 0 \in x.used /\ Sound(x, r) => 0 \in z.used
           /\ \A s \in Frame : Apart(x, r, s) /\ Owned(x, s) \subseteq x.used =>
                 Same(x, z, s) /\ Owned(x, s) \subseteq z.used /\ r \notin Owned(x, s)
<1>1. PICK U : U = UserFrames(x, r)
  OBVIOUS
<1>2. PICK d : d = [x.dir EXCEPT ![r] = NoTables]
  OBVIOUS
<1>3. PICK e : e = [f \in Frame |-> IF f \in U THEN NoPages ELSE x.tab[f]]
  OBVIOUS
<1>4. z = [x EXCEPT !.used = x.used \ U, !.dir = d, !.tab = e]
  BY <1>1, <1>2, <1>3 DEF Flush
<1>5. NoTables \in [Part -> Frame \cup {None}] /\ NoPages \in [VPage -> Frame \cup {None}]
  BY DEF NoTables, NoPages
<1>6. d \in [Frame -> [Part -> Frame \cup {None}]]
  BY <1>2, <1>5 DEF Mem
<1>7. e \in [Frame -> [VPage -> Frame \cup {None}]]
  BY <1>3, <1>5 DEF Mem
<1>8. z \in Mem /\ z.used = x.used \ U /\ z.dir = d /\ z.tab = e /\ z.short = x.short
  BY <1>4, <1>6, <1>7 DEF Mem
<1>9. U \subseteq Owned(x, r)
  <2>1. ASSUME NEW f \in Tables(x, r) PROVE f \in Owned(x, r)
    BY DEF Tables, Owned, Mem
  <2>2. ASSUME NEW q \in Part, NEW f \in PagesIn(x, r, q) PROVE f \in Owned(x, r)
    <3>1. x.dir[r][q] \in Frame
      BY <2>2 DEF PagesIn, Mem
    <3>2. PICK v \in VPage : f = x.tab[x.dir[r][q]][v] /\ f # None
      BY <2>2, <3>1 DEF PagesIn
    <3>3. f \in Frame
      BY <3>1, <3>2 DEF Mem
    <3>. QED
      BY <3>1, <3>2, <3>3, Layout DEF Owned
  <2>. QED
    BY <1>1, <2>1, <2>2 DEF UserFrames
<1>10. ASSUME 0 \in x.used, Sound(x, r) PROVE 0 \in z.used
  BY <1>8, <1>9, <1>10, SoundOwned
<1>11. ASSUME NEW s \in Frame, Apart(x, r, s), Owned(x, s) \subseteq x.used
       PROVE  Same(x, z, s) /\ Owned(x, s) \subseteq z.used /\ r \notin Owned(x, s)
  <2>1. r \in Owned(x, r) /\ s \in Owned(x, s) /\ r # s
    BY <1>11 DEF Owned, Apart
  <2>2. ASSUME NEW q \in Part, x.dir[s][q] # None PROVE z.tab[x.dir[s][q]] = x.tab[x.dir[s][q]]
    <3>1. x.dir[s][q] \in Owned(x, s) /\ x.dir[s][q] \in Frame
      BY <2>2 DEF Owned, Mem
    <3>. QED
      BY <1>3, <1>8, <1>9, <1>11, <3>1 DEF Apart
  <2>3. z.dir[s] = x.dir[s]
    BY <1>2, <1>8, <2>1 DEF Mem
  <2>. QED
    BY <1>8, <1>9, <1>11, <2>1, <2>2, <2>3 DEF Same, Apart
<1>. QED
  BY <1>8, <1>10, <1>11

-----------------------------------------------------------------------------
(* Page 0, once taken for a table, stays so.                               *)

LEMMA AddPageShort ==
    ASSUME NEW a \in Loop, NEW r \in Frame, NEW v \in Int, a.m.short
    PROVE  AddPage(a, r, v).m.short
<1>1. a.m \in Mem
  BY DEF Loop
<1>2. PICK f \in Frame : f = First(a.m)
  BY <1>1, FirstIs
<1>3. PICK y \in Mem : y = Take(a.m) /\ y.short
  BY <1>1, TakeIs
<1>4. PICK z : z = MapPage(y, r, v, f)
  OBVIOUS
<1>5. z.short
  <2>1. PICK q : q = PartOf(v)
    OBVIOUS
  <2>2. PICK t : t = y.dir[r][q]
    OBVIOUS
  <2>3. PICK n : n = First(y)
    OBVIOUS
  <2>4. (t # None => InTable(y, z, v, f, t)) /\ (t = None => InNewTable(y, z, r, v, f, q, n))
    BY <1>4, <2>1, <2>2, <2>3, MapPageIs
  <2>. QED
    BY <1>3, <2>4 DEF InTable, InNewTable
<1>. QED
  BY <1>2, <1>3, <1>4, <1>5 DEF AddPage

LEMMA PopulateShort ==
    ASSUME NEW a \in Loop, NEW r \in Frame, NEW v \in Int, NEW n \in Nat
    PROVE  LET z == Populate(a, r, v, n) IN z \in Loop /\ (a.m.short => z.m.short)
<1>0. PICK f \in [Nat -> Loop] : AddRun(f, a, r, v) /\ Populate(a, r, v, n) = f[n]
  BY PopulateIs
<1>1. /\ f \in [Nat -> Loop] /\ f[0] = a /\ \A i \in Nat : f[i + 1] = AddPage(f[i], r, v + i)
      /\ Populate(a, r, v, n) = f[n]
  BY <1>0 DEF AddRun
<1>. DEFINE A == {i \in Nat : a.m.short => f[i].m.short}
<1>2. 0 \in A
  BY <1>1
<1>3. ASSUME NEW i \in Nat, i \in A PROVE i + 1 \in A
  <2>1. f[i] \in Loop /\ v + i \in Int /\ i + 1 \in Nat
    BY <1>1
  <2>2. f[i].m.short => f[i + 1].m.short
    BY <1>1, <2>1, AddPageShort
  <2>. QED
    BY <1>3, <2>1, <2>2
<1>. HIDE DEF A
<1>4. n \in A
  BY <1>2, <1>3, Induction
<1>. QED
  BY <1>1, <1>4 DEF A

LEMMA CopyPartShort ==
    ASSUME NEW a \in Loop, NEW s \in Frame, NEW r \in Frame, NEW q \in Part, NEW v \in Int, NEW n \in Nat
    PROVE  LET z == CopyPart(a, s, r, q, v, n) IN z \in Loop /\ (a.m.short => z.m.short)
<1>0. PICK f \in [Nat -> Loop] : CopyRun(f, a, s, r, q, v) /\ CopyPart(a, s, r, q, v, n) = f[n]
  BY CopyPartIs
<1>1. /\ f \in [Nat -> Loop] /\ f[0] = CopyTable(a, s, r, q)
      /\ \A i \in Nat : f[i + 1] = CopyPage(f[i], s, r, v + i)
  BY <1>0 DEF CopyRun
<1>. DEFINE A == {i \in Nat : a.m.short => f[i].m.short}
<1>2. 0 \in A
  <2>1. PICK g : g = First(a.m)
    OBVIOUS
  <2>2. a.m \in Mem /\ Take(a.m).short = a.m.short
    BY TakeIs DEF Loop
  <2>3. PICK z : z = f[0]
    OBVIOUS
  <2>4. /\ ~a.ok \/ a.m.dir[s][q] = None => z = a
        /\ a.ok /\ a.m.dir[s][q] # None /\ g = 0 => z.m = Take(a.m) /\ ~z.ok
        /\ a.ok /\ a.m.dir[s][q] # None /\ g # 0 => z.ok /\ EmptyTable(a.m, z.m, r, q, g)
    BY <1>1, <2>1, <2>3, CopyTableIs
  <2>5. a.m.short => z.m.short
    BY <2>2, <2>4 DEF EmptyTable
  <2>. QED
    BY <2>3, <2>5
<1>3. ASSUME NEW i \in Nat, i \in A PROVE i + 1 \in A
  <2>1. PICK b \in Loop : b = f[i]
    BY <1>1
  <2>2. b.m \in Mem /\ Take(b.m).short = b.m.short /\ v + i \in Int
    BY TakeIs DEF Loop
  <2>3. PICK z : z = f[i + 1]
    OBVIOUS
  <2>4. PICK g : g = First(b.m)
    OBVIOUS
  <2>5. PICK p : p = PartOf(v + i)
    OBVIOUS
  <2>6. PICK t : t = b.m.dir[r][p]
    OBVIOUS
  <2>7. z = CopyPage(b, s, r, v + i)
    BY <1>1, <2>1, <2>3
  <2>8. /\ ~b.ok \/ v + i \notin Mapped(b.m, s) => z = b
        /\ b.ok /\ v + i \in Mapped(b.m, s) /\ g = 0 => z.m = Take(b.m) /\ ~z.ok
        /\ b.ok /\ v + i \in Mapped(b.m, s) /\ g # 0 => z.ok /\ InTable(Take(b.m), z.m, v + i, g, t)
    BY <2>2, <2>4, <2>5, <2>6, <2>7, CopyPageIs
  <2>9. b.m.short => z.m.short
    BY <2>2, <2>8 DEF InTable
  <2>. QED
    BY <1>3, <2>1, <2>3, <2>9
<1>. HIDE DEF A
<1>4. n \in A
  BY <1>2, <1>3, Induction
<1>. QED
  BY <1>0, <1>4 DEF A

LEMMA CopyShort ==
    ASSUME NEW x \in Mem, NEW s \in Frame, x.short
    PROVE  Copy(x, s).m.short
<1>1. PICK r \in Frame : r = First(x)
  BY FirstIs
<1>2. CASE r = 0
  <2>1. Copy(x, s) = [m |-> Take(x), ok |-> FALSE]
    BY <1>1, <1>2 DEF Copy
  <2>2. Take(x).short
    BY TakeIs
  <2>. QED
    BY <2>1, <2>2
<1>3. CASE r # 0
  <2>1. PICK y \in Mem : y = CreateSpace(x) /\ y.short
    BY <1>1, CreateSpaceIs
  <2>2. PICK b \in Loop : b = Begun(y) /\ b.m.short
    BY <2>1, BegunIs
  <2>3. "low" \in Part /\ "high" \in Part /\ 0 \in Int /\ Bottom \in Nat /\ Stack \in Nat
    BY Layout
  <2>4. PICK l \in Loop : l = CopyPart(b, s, r, "low", 0, Bottom) /\ l.m.short
    BY <2>2, <2>3, CopyPartShort
  <2>5. CopyPart(l, s, r, "high", Bottom, Stack).m.short
    BY <2>3, <2>4, CopyPartShort
  <2>. QED
    BY <1>1, <1>3, <2>1, <2>2, <2>4, <2>5 DEF Copy
<1>. QED
  BY <1>2, <1>3

-----------------------------------------------------------------------------
(* Addresses and pages.                                                    *)

LEMMA Divides ==
    ASSUME NEW a \in Nat, NEW u \in Nat \ {0}
    PROVE  a \div u \in Nat /\ u * (a \div u) <= a /\ a < u * (a \div u) + u
OBVIOUS

LEMMA Multiples ==
    ASSUME NEW a \in Int, NEW b \in Int, NEW u \in Nat \ {0}, u * a < u * b + u
    PROVE  a <= b
<1>. SUFFICES ASSUME ~(a <= b) PROVE FALSE
  OBVIOUS
<1>1. PICK d \in Nat : a = b + 1 + d
  <2>1. a - b - 1 \in Nat /\ a = b + 1 + (a - b - 1)
    OBVIOUS
  <2>. QED
    BY <2>1
<1>2. u * a = u * b + u + u * d /\ u * d \in Nat /\ u * b \in Int
  BY <1>1
<1>. QED
  BY <1>2

\* Rounding up to pages.
LEMMA CeilIs ==
    ASSUME NEW a \in Nat
    PROVE  /\ Ceil(a) \in Nat
           /\ \A b \in Nat : a <= b => Ceil(a) <= Ceil(b)
           /\ \A n \in Nat : a <= n * Unit => Ceil(a) <= n
<1>1. Unit \in Nat \ {0} /\ a + Unit - 1 \in Nat
  BY Layout
<1>2. Ceil(a) \in Nat /\ Unit * Ceil(a) <= a + Unit - 1 /\ a + Unit - 1 < Unit * Ceil(a) + Unit
  BY <1>1, Divides DEF Ceil
<1>3. ASSUME NEW b \in Nat, a <= b PROVE Ceil(a) <= Ceil(b)
  <2>1. b + Unit - 1 \in Nat
    BY <1>1
  <2>2. Ceil(b) \in Nat /\ b + Unit - 1 < Unit * Ceil(b) + Unit
    BY <1>1, <2>1, Divides DEF Ceil
  <2>3. PICK s \in Int, t \in Int : s = Unit * Ceil(a) /\ t = Unit * Ceil(b)
    BY <1>1, <1>2, <2>2
  <2>4. s < t + Unit
    BY <1>1, <1>2, <1>3, <2>2, <2>3
  <2>. QED
    BY <1>1, <1>2, <2>2, <2>3, <2>4, Multiples
<1>4. ASSUME NEW n \in Nat, a <= n * Unit PROVE Ceil(a) <= n
  <2>1. PICK s \in Int, t \in Int : s = Unit * Ceil(a) /\ t = Unit * n
    BY <1>1, <1>2
  <2>2. n * Unit = Unit * n
    BY <1>1
  <2>3. s < t + Unit
    BY <1>1, <1>2, <1>4, <2>1, <2>2
  <2>. QED
    BY <1>1, <1>2, <2>1, <2>3, Multiples
<1>. QED
  BY <1>2, <1>3, <1>4

-----------------------------------------------------------------------------
(* The inductive invariant, and what a step does to it.                    *)

CallRec == [op : {"idle", "create", "exec", "fault"}, k : Loads \cup {"good"}, root : Frame,
            at : Int, phase : {"fill", "map", "fail", "done"}]

\* Where a load and a fault can be.
LoadAt(c) == c.at \in 0 .. Code + 1 /\ (c.phase = "map" => c.at <= Code)
CallOK(p) ==
    \/ call[p] = Idle
    \/ call[p].op = "create" /\ st[p] = "none" /\ LoadAt(call[p])
    \/ call[p].op = "exec" /\ st[p] = "live" /\ LoadAt(call[p])
    \/ /\ call[p].op = "fault" /\ st[p] = "live" /\ call[p].root = cr3[p] /\ call[p].phase \in {"fill", "map"}
       /\ call[p].at \in Bottom .. limit[p] - 1

Typed == /\ TypeOK /\ limit \in [Proc -> Int] /\ ppid \in [Proc -> Proc \cup {NoOne}]
         /\ \A p \in Proc : CallOK(p)

\* The spaces of all processes, those being loaded included, are sound and share
\* nothing.
Isolated ==
    /\ 0 \in m.used
    /\ \A c \in Proc : \A s \in Roots(c) : Sound(m, s)
    /\ \A c, d \in Proc : \A s \in Roots(c), t \in Roots(d) : c # d \/ s # t => Apart(m, s, t)

\* The pages promised to a process with break h and the stack down to l.
Promised(h, l) == (HeapBase .. Ceil(h) - 1) \cup (l .. Top)
StackFrom(p) == IF p \in jumped THEN Top + 1 ELSE limit[p]
Whole(p) == p \in Live \ half => Promised(heapEnd[p], StackFrom(p)) \subseteq Mapped(m, cr3[p])

\* A load that has passed its last page has mapped the stack's first; execve loads
\* a second space; the page a fault is about is missing.
Arrived(c) == c.phase = "done" \/ (c.phase = "fill" /\ c.at > Code)
Ready(p) ==
    /\ Loading(p) /\ Arrived(call[p]) => Top \in Mapped(m, call[p].root)
    /\ call[p].op = "exec" => call[p].root # cr3[p]
    /\ call[p].op = "fault" => call[p].at \notin Mapped(m, cr3[p])

Inv == Typed /\ (Sober => Isolated /\ \A p \in Proc : Whole(p) /\ Ready(p))

\* Space s is as it was, and its frames are still marked.
Spares(x, y, s) == Same(x, y, s) /\ Owned(x, s) \subseteq y.used

LEMMA SparesSelf ==
    ASSUME NEW x \in Mem, NEW s \in Frame, Sound(x, s)
    PROVE  Spares(x, x, s)
BY SoundOwned DEF Spares, Same

LEMMA LeavesSpares ==
    ASSUME NEW x \in Mem, NEW y \in Mem, NEW r \in Frame, NEW s \in Frame, Leaves(x, y, r, s)
    PROVE  Spares(x, y, s)
<1>1. Owned(y, s) = Owned(x, s)
  BY SameSpace DEF Leaves
<1>. QED
  BY <1>1, SoundOwned DEF Leaves, Spares

LEMMA SparesMore ==
    ASSUME NEW x \in Mem, NEW y \in Mem, NEW z \in Mem, NEW s \in Frame, Spares(x, y, s), Spares(y, z, s)
    PROVE  Spares(x, z, s)
<1>1. Owned(y, s) = Owned(x, s)
  BY SameSpace DEF Spares
<1>. QED
  BY <1>1, SameMore DEF Spares

\* The space of s has lost nothing outside V.
Holds(x, y, s, V) == \A v \in Mapped(x, s) \ V : v \in Mapped(y, s) /\ Entry(y, s, v) = Entry(x, s, v)

LEMMA SparesHolds ==
    ASSUME NEW x \in Mem, NEW y \in Mem, NEW s \in Frame, NEW V, Spares(x, y, s)
    PROVE  Holds(x, y, s, V) /\ Mapped(y, s) = Mapped(x, s)
BY SameSpace DEF Spares, Holds

\* A step of process p changes nothing of the others.
ActsFor(p) ==
    /\ \A c \in Proc \ {p} : /\ st'[c] = st[c] /\ cr3'[c] = cr3[c] /\ call'[c] = call[c]
                             /\ heapEnd'[c] = heapEnd[c] /\ limit'[c] = limit[c]
    /\ half' \ {p} = half \ {p} /\ jumped' \ {p} = jumped \ {p}

\* What the step does to memory: the spaces of the others are left alone, and
\* those of p are sound and apart from them and from each other.
OwnSound(p) == \A r \in Roots(p)' : Sound(m', r) /\ \A c \in Proc \ {p} : \A s \in Roots(c) : Apart(m', r, s)
OwnApart(p) == \A r \in Roots(p)', s \in Roots(p)' : r # s => Apart(m', r, s)
Settled(p) ==
    /\ \A c \in Proc \ {p} : \A s \in Roots(c) : Spares(m, m', s)
    /\ ~m'.short => 0 \in m'.used /\ OwnSound(p) /\ OwnApart(p)

Keeps(p) == p \in Live /\ st'[p] = "live" /\ cr3'[p] = cr3[p] => Holds(m, m', cr3[p], Ceil(heapEnd[p]) .. Bottom - 1)

Moves(p) == Settled(p) /\ (~m'.short => Whole(p)' /\ Ready(p)') /\ Keeps(p)

\* Everybody keeps their memory in this step.
Kept == \A p \in Live : st'[p] = "live" /\ cr3'[p] = cr3[p] =>
            Holds(m, m', cr3[p], Ceil(heapEnd[p]) .. Bottom - 1)

\* A step of p that keeps the types, the others' state and, unless two cores meet
\* in a window, memory.
Good(p) == Typed' /\ ActsFor(p) /\ (Sober' => Sober) /\ (Sober /\ ~crossed' => Moves(p))

\* What Inv says of the types, and of one process.
LEMMA TypeFacts ==
    ASSUME Typed
    PROVE  /\ m \in Mem /\ cr3 \in [Proc -> Frame] /\ st \in [Proc -> {"none", "live", "gone"}]
           /\ heapEnd \in [Proc -> 0 .. Bottom * Unit] /\ limit \in [Proc -> Int]
           /\ ppid \in [Proc -> Proc \cup {NoOne}]
           /\ half \in SUBSET Live /\ jumped \in SUBSET Live /\ \A c \in Live : limit[c] \in Bottom .. Top
           /\ Live \subseteq Proc /\ \A c \in Proc : c \in Live <=> st[c] = "live"
           /\ win \in [{"load", "fault"} -> Frame \cup {None}] /\ call \in [Proc -> CallRec] /\ crossed \in BOOLEAN
           /\ \A c \in Proc : CallOK(c)
BY DEF Typed, TypeOK, Mem, Live, CallRec

LEMMA RootsAreFrames ==
    ASSUME Typed, NEW c \in Proc
    PROVE  Roots(c) \subseteq Frame /\ (c \in Live => cr3[c] \in Roots(c)) /\ (Loading(c) => call[c].root \in Roots(c))
<1>1. cr3[c] \in Frame /\ call[c].root \in Frame
  BY TypeFacts DEF CallRec
<1>. QED
  BY <1>1 DEF Roots, Live

LEMMA InvSpaces ==
    ASSUME Inv, Sober
    PROVE  /\ m \in Mem /\ 0 \in m.used /\ ~m.short /\ ~crossed
           /\ \A c \in Proc : Whole(c) /\ Ready(c)
           /\ \A c \in Proc : \A s \in Roots(c) : s \in Frame /\ Sound(m, s) /\ s \in m.used /\ s # 0
           /\ \A c, d \in Proc : \A s \in Roots(c), t \in Roots(d) : c # d \/ s # t => Apart(m, s, t)
<1>1. m \in Mem /\ \A c \in Proc : Roots(c) \subseteq Frame
  BY TypeFacts, RootsAreFrames DEF Inv
<1>2. Isolated /\ \A c \in Proc : Whole(c) /\ Ready(c)
  BY DEF Inv
<1>3. \A c \in Proc : \A s \in Roots(c) : Sound(m, s)
  BY <1>2 DEF Isolated
<1>4. \A c \in Proc : \A s \in Roots(c) : s \in m.used /\ s # 0
  BY <1>3 DEF Sound, RootMarked
<1>. QED
  BY <1>1, <1>2, <1>3, <1>4 DEF Isolated, Sober

\* The state of another process is the same after the step.
LEMMA OthersSame ==
    ASSUME Typed, Typed', NEW p \in Proc, ActsFor(p), NEW c \in Proc \ {p}
    PROVE  /\ Roots(c)' = Roots(c) /\ (c \in Live' <=> c \in Live) /\ (c \in half' <=> c \in half)
           /\ StackFrom(c)' = StackFrom(c) /\ (Loading(c)' <=> Loading(c))
           /\ cr3'[c] = cr3[c] /\ call'[c] = call[c] /\ heapEnd'[c] = heapEnd[c]
<1>1. /\ st'[c] = st[c] /\ cr3'[c] = cr3[c] /\ call'[c] = call[c] /\ heapEnd'[c] = heapEnd[c] /\ limit'[c] = limit[c]
      /\ (c \in half' <=> c \in half) /\ (c \in jumped' <=> c \in jumped)
  BY DEF ActsFor
<1>. QED
  BY <1>1 DEF Roots, Loading, Live, StackFrom

LEMMA StepSafe ==
    ASSUME Inv, NEW p \in Proc, Good(p)
    PROVE  Inv' /\ (Sober /\ ~crossed' => Kept)
<1>1. /\ Typed /\ Typed' /\ ActsFor(p) /\ m \in Mem /\ m' \in Mem /\ Live \subseteq Proc
      /\ \A c \in Proc : Roots(c) \subseteq Frame /\ (c \in Live => cr3[c] \in Roots(c)) /\ (Loading(c) => call[c].root \in Roots(c))
  BY TypeFacts, RootsAreFrames DEF Inv, Good, Typed, TypeOK, Mem
<1>2. ASSUME Sober, ~crossed', NEW c \in Proc \ {p}, NEW s \in Roots(c)
      PROVE  /\ s \in Frame /\ Spares(m, m', s) /\ Owned(m', s) = Owned(m, s) /\ Mapped(m', s) = Mapped(m, s)
             /\ ~m'.short => Sound(m', s)
  <2>1. Moves(p) /\ s \in Frame /\ Sound(m, s)
    BY <1>1, <1>2, InvSpaces DEF Good
  <2>2. Spares(m, m', s) /\ (~m'.short => 0 \in m'.used)
    BY <1>2, <2>1 DEF Moves, Settled
  <2>. QED
    BY <1>1, <2>1, <2>2, SameSpace DEF Spares
<1>3. ASSUME Sober, ~crossed' PROVE Kept
  <2>. SUFFICES ASSUME NEW c \in Live, st'[c] = "live", cr3'[c] = cr3[c]
                PROVE  Holds(m, m', cr3[c], Ceil(heapEnd[c]) .. Bottom - 1)
    BY DEF Kept
  <2>1. CASE c = p
    BY <1>3, <2>1 DEF Good, Moves, Keeps
  <2>2. CASE c # p
    BY <1>1, <1>2, <1>3, <2>2, SparesHolds
  <2>. QED
    BY <2>1, <2>2
<1>4. ASSUME Sober' PROVE Isolated' /\ \A c \in Proc : Whole(c)' /\ Ready(c)'
  <2>1. Sober /\ ~crossed' /\ ~m'.short /\ Moves(p)
    BY <1>4 DEF Good, Sober
  <2>2. 0 \in m'.used /\ OwnSound(p) /\ OwnApart(p) /\ Whole(p)' /\ Ready(p)'
    BY <2>1 DEF Moves, Settled
  <2>3. ASSUME NEW c \in Proc \ {p} PROVE Whole(c)' /\ Ready(c)'
    <3>1. Whole(c) /\ Ready(c)
      BY <2>1, InvSpaces
    <3>2. /\ Roots(c)' = Roots(c) /\ (c \in Live' <=> c \in Live) /\ (c \in half' <=> c \in half)
          /\ StackFrom(c)' = StackFrom(c) /\ (Loading(c)' <=> Loading(c))
          /\ cr3'[c] = cr3[c] /\ call'[c] = call[c] /\ heapEnd'[c] = heapEnd[c]
      BY <1>1, OthersSame
    <3>3. c \in Live => Mapped(m', cr3[c]) = Mapped(m, cr3[c])
      BY <1>1, <1>2, <2>1
    <3>4. Loading(c) => Mapped(m', call[c].root) = Mapped(m, call[c].root)
      BY <1>1, <1>2, <2>1
    <3>5. call[c].op = "fault" => c \in Live
      BY <1>1, TypeFacts DEF CallOK, Idle
    <3>6. Whole(c)'
      BY <3>1, <3>2, <3>3 DEF Whole
    <3>7. Ready(c)'
      BY <3>1, <3>2, <3>3, <3>4, <3>5 DEF Ready
    <3>. QED
      BY <3>6, <3>7
  <2>4. ASSUME NEW c \in Proc, NEW s \in Roots(c)' PROVE Sound(m', s)
    <3>1. CASE c = p
      BY <2>2, <2>4, <3>1 DEF OwnSound
    <3>2. CASE c # p
      <4>1. s \in Roots(c)
        BY <1>1, <2>4, <3>2, OthersSame
      <4>. QED
        BY <1>2, <2>1, <3>2, <4>1
    <3>. QED
      BY <3>1, <3>2
  <2>5. ASSUME NEW c \in Proc, NEW d \in Proc, NEW s \in Roots(c)', NEW t \in Roots(d)', c # d \/ s # t
        PROVE  Apart(m', s, t)
    <3>1. CASE c = p /\ d = p
      BY <2>2, <2>5, <3>1 DEF OwnApart
    <3>2. CASE c = p /\ d # p
      <4>1. t \in Roots(d)
        BY <1>1, <2>5, <3>2, OthersSame
      <4>. QED
        BY <2>2, <2>5, <3>2, <4>1 DEF OwnSound
    <3>3. CASE c # p /\ d = p
      <4>1. s \in Roots(c)
        BY <1>1, <2>5, <3>3, OthersSame
      <4>2. Apart(m', t, s)
        BY <2>2, <2>5, <3>3, <4>1 DEF OwnSound
      <4>. QED
        BY <4>2 DEF Apart
    <3>4. CASE c # p /\ d # p
      <4>1. s \in Roots(c) /\ t \in Roots(d)
        BY <1>1, <2>5, <3>4, OthersSame
      <4>2. Apart(m, s, t)
        BY <2>1, <2>5, <4>1, InvSpaces
      <4>3. Owned(m', s) = Owned(m, s) /\ Owned(m', t) = Owned(m, t)
        BY <1>2, <2>1, <3>4, <4>1
      <4>. QED
        BY <4>2, <4>3 DEF Apart
    <3>. QED
      BY <3>1, <3>2, <3>3, <3>4
  <2>. QED
    BY <2>2, <2>3, <2>4, <2>5 DEF Isolated
<1>. QED
  BY <1>1, <1>3, <1>4 DEF Inv

-----------------------------------------------------------------------------
(* One lemma for each operation.                                           *)

\* A step of p that leaves every space alone but the one with root r, which is
\* new, has grown, or is given up.
LEMMA SparedSettled ==
    ASSUME Inv, Sober, m' \in Mem, NEW p \in Proc, NEW r \in Frame,
           \A c \in Proc : \A s \in Roots(c) : c # p \/ s # r => Spares(m, m', s),
           Roots(p)' \ {r} \subseteq Roots(p), ~m'.short => 0 \in m'.used,
           r \in Roots(p)' /\ ~m'.short =>
               Sound(m', r) /\ \A c \in Proc : \A s \in Roots(c) : c # p \/ s # r => Apart(m', r, s)
    PROVE  Settled(p)
<1>1. ASSUME ~m'.short, NEW c \in Proc, NEW s \in Roots(c), c # p \/ s # r
      PROVE  s \in Frame /\ Spares(m, m', s) /\ Owned(m', s) = Owned(m, s) /\ Sound(m', s)
  <2>1. s \in Frame /\ Sound(m, s) /\ m \in Mem /\ Spares(m, m', s) /\ 0 \in m'.used
    BY <1>1, InvSpaces
  <2>. QED
    BY <2>1, SameSpace DEF Spares
<1>2. ASSUME ~m'.short, NEW t \in Roots(p)', t # r, NEW c \in Proc, NEW s \in Roots(c), c # p \/ s # t, c # p \/ s # r
      PROVE  Apart(m', t, s)
  <2>1. t \in Roots(p)
    BY <1>2
  <2>2. Apart(m, t, s)
    BY <1>2, <2>1, InvSpaces
  <2>3. Owned(m', t) = Owned(m, t) /\ Owned(m', s) = Owned(m, s)
    BY <1>1, <1>2, <2>1
  <2>. QED
    BY <2>2, <2>3 DEF Apart
<1>3. ASSUME ~m'.short PROVE OwnSound(p)
  <2>. SUFFICES ASSUME NEW t \in Roots(p)'
                PROVE  Sound(m', t) /\ \A c \in Proc \ {p} : \A s \in Roots(c) : Apart(m', t, s)
    BY DEF OwnSound
  <2>1. CASE t = r
    BY <1>3, <2>1
  <2>2. CASE t # r
    BY <1>1, <1>2, <1>3, <2>2
  <2>. QED
    BY <2>1, <2>2
<1>4. ASSUME ~m'.short PROVE OwnApart(p)
  <2>. SUFFICES ASSUME NEW t \in Roots(p)', NEW s \in Roots(p)', t # s PROVE Apart(m', t, s)
    BY DEF OwnApart
  <2>1. CASE t = r
    BY <1>4, <2>1
  <2>2. CASE s = r
    <3>1. Apart(m', s, t)
      BY <1>4, <2>2
    <3>. QED
      BY <3>1 DEF Apart
  <2>3. CASE t # r /\ s # r
    BY <1>2, <1>4, <2>3
  <2>. QED
    BY <2>1, <2>2, <2>3
<1>. QED
  BY <1>3, <1>4 DEF Settled

\* A step that changes no memory.
LEMMA StillSettled ==
    ASSUME Inv, Sober, m' = m, NEW p \in Proc, Roots(p)' \subseteq Roots(p)
    PROVE  Settled(p) /\ Keeps(p)
<1>1. 0 \in Frame /\ m' \in Mem /\ 0 \in m'.used
  BY InvSpaces, Layout
<1>2. \A c \in Proc : \A s \in Roots(c) : Spares(m, m', s) /\ s # 0
  BY InvSpaces, SparesSelf
<1>3. Settled(p)
  BY <1>1, <1>2, SparedSettled
<1>. QED
  BY <1>3 DEF Keeps, Holds

\* A step that grows the space with root r of p.
LEMMA GrownSettled ==
    ASSUME Inv, Sober, m' \in Mem, NEW p \in Proc, NEW r \in Roots(p), NEW V, Grown(m, m', r, V),
           Roots(p)' \subseteq Roots(p)
    PROVE  Settled(p) /\ \A s \in Roots(p) : s # r => Spares(m, m', s)
<1>1. /\ m \in Mem /\ r \in Frame /\ Sound(m, r)
      /\ \A c \in Proc : \A s \in Roots(c) : s \in Frame /\ Sound(m, s) /\ (c # p \/ s # r => Apart(m, r, s))
  BY InvSpaces
<1>2. ASSUME NEW c \in Proc, NEW s \in Roots(c), c # p \/ s # r
      PROVE  Spares(m, m', s) /\ Apart(m', r, s)
  <2>1. s \in Frame /\ Sound(m, s) /\ Apart(m, r, s)
    BY <1>1, <1>2
  <2>2. Leaves(m, m', r, s)
    BY <1>1, <2>1, OthersKept DEF Leaves
  <2>. QED
    BY <1>1, <2>1, <2>2, LeavesSpares DEF Leaves
<1>3. ~m'.short => Sound(m', r) /\ 0 \in m'.used
  BY DEF Grown, Sound, RootMarked
<1>. QED
  BY <1>1, <1>2, <1>3, SparedSettled

\* A step that takes the free frame r for the root of a new space of p, or for a
\* space that is given up at once.
LEMMA NewSettled ==
    ASSUME Inv, Sober, m' \in Mem, NEW p \in Proc, NEW r \in Frame, r \notin m.used,
           \A s \in Frame : Sound(m, s) => Leaves(m, m', r, s), ~m'.short => Sound(m', r),
           Roots(p)' \subseteq Roots(p) \cup {r}
    PROVE  Settled(p) /\ \A c \in Proc : \A s \in Roots(c) : Spares(m, m', s) /\ s # r
<1>1. m \in Mem /\ \A c \in Proc : \A s \in Roots(c) : s \in Frame /\ Sound(m, s) /\ s # r
  BY InvSpaces
<1>2. \A c \in Proc : \A s \in Roots(c) : Spares(m, m', s) /\ Apart(m', r, s)
  BY <1>1, LeavesSpares DEF Leaves
<1>3. ~m'.short => 0 \in m'.used
  BY DEF Sound, RootMarked
<1>. QED
  BY <1>1, <1>2, <1>3, SparedSettled

\* When there is no frame left a failing call changes nothing.
LEMMA TakeNone ==
    ASSUME NEW x \in Mem, 0 \in x.used, First(x) = 0
    PROVE  Take(x) = x
<1>1. x.used \cup {First(x)} = x.used
  OBVIOUS
<1>. QED
  BY <1>1 DEF Take, Mem

LEMMA Dropped ==
    ASSUME NEW x \in Mem, NEW r \in Frame, NEW z, z = [x EXCEPT !.used = @ \ {r}]
    PROVE  /\ z \in Mem /\ z.used = x.used \ {r} /\ z.short = x.short
           /\ \A s \in Frame : r \notin Owned(x, s) /\ Owned(x, s) \subseteq x.used => Spares(x, z, s)
<1>1. z \in Mem /\ z.used = x.used \ {r} /\ z.short = x.short /\ z.dir = x.dir /\ z.tab = x.tab
  BY DEF Mem
<1>. QED
  BY <1>1 DEF Spares, Same

\* process_flush_user_space of the space with root r of p; the root may be freed
\* as well.
LEMMA FlushSettled ==
    ASSUME Inv, Sober, NEW p \in Proc, NEW r \in Roots(p), Roots(p)' \subseteq Roots(p) \ {r}, NEW z \in Mem,
           z = m \/ z = Flush(m, r), m' = z \/ m' = [z EXCEPT !.used = @ \ {r}]
    PROVE  m' \in Mem /\ ~m'.short /\ Settled(p) /\ \A s \in Roots(p) : s # r => Spares(m, m', s)
<1>1. /\ m \in Mem /\ r \in Frame /\ Sound(m, r) /\ r # 0 /\ 0 \in m.used /\ ~m.short
      /\ \A c \in Proc : \A s \in Roots(c) : s \in Frame /\ Sound(m, s) /\ (c # p \/ s # r => Apart(m, r, s))
  BY InvSpaces
<1>2. ASSUME NEW s \in Frame, Sound(m, s), Apart(m, r, s)
      PROVE  Spares(m, z, s) /\ r \notin Owned(z, s) /\ Owned(z, s) \subseteq z.used
  <2>1. Owned(m, s) \subseteq m.used /\ r \notin Owned(m, s)
    BY <1>1, <1>2, SoundOwned DEF Apart, Owned
  <2>2. Spares(m, z, s)
    <3>1. CASE z = m
      BY <1>1, <1>2, <3>1, SparesSelf
    <3>2. CASE z = Flush(m, r)
      BY <1>1, <1>2, <2>1, <3>2, FlushIs DEF Spares
    <3>. QED
      BY <3>1, <3>2
  <2>3. Owned(z, s) = Owned(m, s)
    BY <1>1, <2>2, SameSpace DEF Spares
  <2>. QED
    BY <2>1, <2>2, <2>3 DEF Spares
<1>3. 0 \in z.used /\ ~z.short
  BY <1>1, FlushIs
<1>4. PICK y : y = [z EXCEPT !.used = @ \ {r}]
  OBVIOUS
<1>5. /\ y \in Mem /\ y.used = z.used \ {r} /\ y.short = z.short
      /\ \A s \in Frame : r \notin Owned(z, s) /\ Owned(z, s) \subseteq z.used => Spares(z, y, s)
  BY <1>1, <1>4, Dropped
<1>6. m' \in Mem /\ ~m'.short /\ 0 \in m'.used
  BY <1>1, <1>3, <1>4, <1>5
<1>7. ASSUME NEW c \in Proc, NEW s \in Roots(c), c # p \/ s # r PROVE Spares(m, m', s)
  <2>1. s \in Frame /\ Spares(m, z, s) /\ Spares(z, y, s)
    BY <1>1, <1>2, <1>5, <1>7
  <2>2. Spares(m, y, s)
    BY <1>1, <1>5, <2>1, SparesMore
  <2>. QED
    BY <1>4, <2>1, <2>2
<1>8. Settled(p)
  BY <1>1, <1>6, <1>7, SparedSettled
<1>. QED
  BY <1>6, <1>7, <1>8

\* Moving a call on.
LEMMA GoIs ==
    ASSUME call \in [Proc -> CallRec], NEW p \in Proc, NEW a \in Int, NEW f \in {"fill", "map", "fail", "done"}, Go(p, a, f)
    PROVE  /\ call' \in [Proc -> CallRec] /\ (\A c \in Proc \ {p} : call'[c] = call[c])
           /\ call'[p].at = a /\ call'[p].phase = f
           /\ call'[p].op = call[p].op /\ call'[p].root = call[p].root /\ call'[p].k = call[p].k
<1>1. call[p] \in CallRec
  OBVIOUS
<1>2. PICK r : r = [call[p] EXCEPT !.at = a, !.phase = f]
  OBVIOUS
<1>3. r \in CallRec /\ r.at = a /\ r.phase = f /\ r.op = call[p].op /\ r.root = call[p].root /\ r.k = call[p].k
  BY <1>1, <1>2 DEF CallRec
<1>4. call' = [call EXCEPT ![p] = r]
  BY <1>1, <1>2 DEF Go, CallRec
<1>. QED
  BY <1>3, <1>4

LEMMA CallSet ==
    ASSUME call \in [Proc -> CallRec], NEW p \in Proc, NEW r \in CallRec, call' = [call EXCEPT ![p] = r]
    PROVE  call' \in [Proc -> CallRec] /\ call'[p] = r /\ \A c \in Proc \ {p} : call'[c] = call[c]
OBVIOUS

LEMMA IdleIs == Idle \in CallRec /\ Idle.op = "idle"
BY Layout DEF Idle, CallRec

\* The types and the state of the others, from what the step does to each variable.
LEMMA TypesKept ==
    ASSUME Inv, NEW p \in Proc, m' \in Mem, st' \in [Proc -> {"none", "live", "gone"}], cr3' \in [Proc -> Frame],
           heapEnd' \in [Proc -> 0 .. Bottom * Unit], limit' \in [Proc -> Int], ppid' \in [Proc -> Proc \cup {NoOne}],
           call' \in [Proc -> CallRec], win' \in [{"load", "fault"} -> Frame \cup {None}], crossed' \in BOOLEAN,
           \A c \in Proc \ {p} : /\ st'[c] = st[c] /\ cr3'[c] = cr3[c] /\ call'[c] = call[c]
                                 /\ heapEnd'[c] = heapEnd[c] /\ limit'[c] = limit[c],
           half' \ {p} = half \ {p}, jumped' \ {p} = jumped \ {p},
           p \in half' \cup jumped' => st'[p] = "live", st'[p] = "live" => limit'[p] \in Bottom .. Top,
           CallOK(p)'
    PROVE  Typed' /\ ActsFor(p)
<1>1. /\ half \in SUBSET Live /\ jumped \in SUBSET Live /\ (\A c \in Live : limit[c] \in Bottom .. Top)
      /\ (\A c \in Proc : CallOK(c)) /\ Live \subseteq Proc
  BY TypeFacts DEF Inv
<1>2. \A c \in Proc \ {p} : c \in Live' <=> c \in Live
  BY DEF Live
<1>3. \A c \in Live' : limit'[c] \in Bottom .. Top
  BY <1>1, <1>2 DEF Live
<1>4. half' \in SUBSET Live' /\ jumped' \in SUBSET Live'
  BY <1>1, <1>2 DEF Live
<1>5. ASSUME NEW c \in Proc \ {p} PROVE CallOK(c)'
  <2>1. CallOK(c) /\ st'[c] = st[c] /\ cr3'[c] = cr3[c] /\ call'[c] = call[c] /\ limit'[c] = limit[c]
    BY <1>1
  <2>. QED
    BY <2>1 DEF CallOK
<1>6. TypeOK'
  BY <1>3, <1>4 DEF TypeOK, Mem, CallRec
<1>. QED
  BY <1>5, <1>6 DEF Typed, ActsFor

\* How p stands in a call, and what its roots are.
LEMMA InCall ==
    ASSUME Typed, NEW p \in Proc
    PROVE  /\ Free(p) => ~Loading(p) /\ call[p].op = "idle" /\ Roots(p) = IF p \in Live THEN {cr3[p]} ELSE {}
           /\ call[p].op = "create" => Loading(p) /\ p \notin Live /\ st[p] = "none" /\ Roots(p) = {call[p].root} /\ LoadAt(call[p])
           /\ call[p].op = "exec" => Loading(p) /\ p \in Live /\ st[p] = "live" /\ Roots(p) = {cr3[p], call[p].root} /\ LoadAt(call[p])
           /\ call[p].op = "fault" => /\ ~Loading(p) /\ p \in Live /\ st[p] = "live" /\ Roots(p) = {cr3[p]}
                                      /\ call[p].root = cr3[p] /\ call[p].at \in Bottom .. limit[p] - 1
           /\ Loading(p) => call[p].op \in {"create", "exec"}
           /\ call[p].phase \in {"fill", "map", "fail"} => call[p].op \in {"create", "exec", "fault"}
<1>1. CallOK(p) /\ (p \in Live <=> st[p] = "live")
  BY TypeFacts
<1>. QED
  BY <1>1, IdleIs DEF CallOK, Idle, Free, Loading, Roots

\* A call that finds no memory, or only moves on, changes no space.
LEMMA Stays ==
    ASSUME Inv, NEW p \in Proc, Sober, m' = m, UNCHANGED <<st, cr3, heapEnd, limit, half, jumped>>,
           Roots(p)' \subseteq Roots(p), Ready(p)'
    PROVE  Moves(p)
<1>1. Settled(p) /\ Keeps(p)
  BY StillSettled
<1>2. Whole(p)
  BY InvSpaces
<1>3. Whole(p)'
  BY <1>2 DEF Whole, Live, StackFrom
<1>. QED
  BY <1>1, <1>3 DEF Moves

\* process_create and execve begin: a new empty space.
LEMMA LoadBeginGood ==
    ASSUME Inv, NEW p \in Proc, NEW op \in {"create", "exec"}, NEW k \in Loads, LoadBegin(p, op, k)
    PROVE  Good(p) /\ ppid' = ppid
<1>1. /\ Typed /\ m \in Mem /\ call \in [Proc -> CallRec] /\ win \in [{"load", "fault"} -> Frame \cup {None}]
      /\ crossed \in BOOLEAN /\ st \in [Proc -> {"none", "live", "gone"}] /\ half \in SUBSET Live /\ jumped \in SUBSET Live
      /\ \A c \in Live : limit[c] \in Bottom .. Top
  BY TypeFacts DEF Inv
<1>2. UNCHANGED <<st, cr3, heapEnd, limit, ppid, half, jumped, crossed>> /\ Free(p) /\ m' = CreateSpace(m)
      /\ (op = "create" => st[p] = "none") /\ (op = "exec" => st[p] = "live")
  BY DEF LoadBegin, procVars
<1>3. PICK r \in Frame : r = First(m) /\ (r # 0 => r \notin m.used)
  BY <1>1, FirstIs
<1>4. /\ m' \in Mem /\ m'.short = m.short
      /\ r # 0 /\ 0 \in m.used => Sound(m', r) /\ \A s \in Frame : Sound(m, s) => Leaves(m, m', r, s)
  BY <1>1, <1>2, <1>3, CreateSpaceIs
<1>5. Sober' => Sober
  BY <1>2, <1>4 DEF Sober
<1>6. Live' = Live /\ (p \in Live <=> st[p] = "live")
  BY <1>1, <1>2, TypeFacts DEF Live
<1>7. CASE r = 0
  <2>1. call' = call /\ win' = win
    BY <1>3, <1>7 DEF LoadBegin
  <2>2. Typed' /\ ActsFor(p)
    <3>1. CallOK(p)'
      BY <1>1, <1>2, <2>1, TypeFacts DEF CallOK
    <3>. QED
      BY <1>1, <1>2, <1>4, <1>6, <2>1, <3>1, TypesKept, TypeFacts
  <2>3. ASSUME Sober PROVE Moves(p)
    <3>1. m' = m
      <4>1. m' = Take(m)
        BY <1>2, <1>3, <1>7 DEF CreateSpace
      <4>. QED
        BY <1>1, <1>3, <1>7, <2>3, <4>1, InvSpaces, TakeNone
    <3>2. Roots(p)' = Roots(p) /\ Ready(p)
      BY <1>2, <2>1, <2>3, InvSpaces DEF Roots, Loading
    <3>3. Ready(p)'
      BY <1>2, <2>1, <3>1, <3>2 DEF Ready, Loading
    <3>. QED
      BY <1>2, <2>3, <3>1, <3>2, <3>3, Stays
  <2>. QED
    BY <1>2, <1>5, <2>2, <2>3 DEF Good
<1>8. CASE r # 0
  <2>1. PICK f \in {"fill", "fail"} : f = IF k = "bad" THEN "fail" ELSE "fill"
    OBVIOUS
  <2>2. PICK rec \in CallRec : rec = [op |-> op, k |-> k, root |-> r, at |-> 0, phase |-> f]
    <3>1. op \in {"idle", "create", "exec", "fault"} /\ k \in Loads \cup {"good"} /\ 0 \in Int
          /\ f \in {"fill", "map", "fail", "done"}
      BY <2>1
    <3>2. [op |-> op, k |-> k, root |-> r, at |-> 0, phase |-> f] \in CallRec
      BY <3>1 DEF CallRec
    <3>. QED
      BY <3>2
  <2>3. call' = [call EXCEPT ![p] = rec] /\ win' \in [{"load", "fault"} -> Frame \cup {None}]
    BY <1>1, <1>3, <1>8, <2>1, <2>2 DEF LoadBegin
  <2>4. call' \in [Proc -> CallRec] /\ call'[p] = rec /\ \A c \in Proc \ {p} : call'[c] = call[c]
    BY <1>1, <2>3, CallSet
  <2>5. 0 \in 0 .. Code + 1
    BY Layout
  <2>6. rec.op = op /\ rec.root = r /\ rec.at = 0 /\ rec.phase = f /\ LoadAt(rec) /\ ~Arrived(rec)
    <3>1. rec.op = op /\ rec.root = r /\ rec.at = 0 /\ rec.phase = f
      BY <2>2
    <3>. QED
      BY <2>1, <2>5, <3>1, Layout DEF LoadAt, Arrived
  <2>7. CallOK(p)'
    BY <1>2, <2>4, <2>6 DEF CallOK
  <2>8. Typed' /\ ActsFor(p)
    BY <1>1, <1>2, <1>4, <1>6, <2>3, <2>4, <2>7, TypesKept, TypeFacts
  <2>9. ASSUME Sober PROVE Moves(p)
    <3>1. 0 \in m.used
      BY <2>9, InvSpaces
    <3>2. Roots(p) = (IF p \in Live THEN {cr3[p]} ELSE {}) /\ Roots(p)' = Roots(p) \cup {r}
      BY <1>1, <1>2, <1>6, <2>4, <2>6, InCall DEF Roots, Loading
    <3>3. Settled(p) /\ \A c \in Proc : \A s \in Roots(c) : Spares(m, m', s) /\ s # r
      BY <1>3, <1>4, <1>8, <2>9, <3>1, <3>2, NewSettled
    <3>4. p \in Live => cr3[p] \in Frame /\ Spares(m, m', cr3[p])
      BY <1>1, <3>2, <3>3, RootsAreFrames
    <3>5. p \in Live => Holds(m, m', cr3[p], Ceil(heapEnd[p]) .. Bottom - 1) /\ Mapped(m', cr3[p]) = Mapped(m, cr3[p])
      BY <1>1, <1>4, <3>4, SparesHolds
    <3>6. Whole(p)'
      <4>1. Whole(p)
        BY <2>9, InvSpaces
      <4>. QED
        BY <1>2, <1>6, <3>5, <4>1 DEF Whole, StackFrom
    <3>7. Ready(p)'
      <4>1. op = "exec" => cr3[p] # r
        BY <1>2, <1>6, <3>2, <3>3
      <4>. QED
        BY <1>2, <2>4, <2>6, <4>1 DEF Ready
    <3>. QED
      BY <3>3, <3>5, <3>6, <3>7 DEF Moves, Keeps
  <2>. QED
    BY <1>2, <1>5, <2>8, <2>9 DEF Good
<1>. QED
  BY <1>7, <1>8

\* Filling a page through the window: memory changes only if the window shows
\* another's root.
LEMMA FillGood ==
    ASSUME Inv, NEW p \in Proc, Fill(p)
    PROVE  Good(p) /\ ppid' = ppid
<1>1. /\ Typed /\ m \in Mem /\ call \in [Proc -> CallRec] /\ win \in [{"load", "fault"} -> Frame \cup {None}]
      /\ crossed \in BOOLEAN /\ half \in SUBSET Live /\ jumped \in SUBSET Live
      /\ call[p] \in CallRec /\ (\A c \in Live : limit[c] \in Bottom .. Top) /\ (p \in Live <=> st[p] = "live")
  BY TypeFacts DEF Inv
<1>2. UNCHANGED <<st, cr3, heapEnd, limit, ppid, half, jumped>> /\ call[p].phase = "fill"
  BY DEF Fill, procVars
<1>3. PICK s \in {None, win[Window(p)]} : /\ m' = IF s = None THEN m ELSE [m EXCEPT !.dir[s] = NoTables]
                                         /\ crossed' = (crossed \/ s # None)
  BY DEF Fill, Seen
<1>4. s \in Frame \cup {None}
  BY <1>1, <1>3 DEF Window
<1>5. m' \in Mem /\ m'.short = m.short /\ crossed' \in BOOLEAN /\ (crossed => crossed')
  <2>1. NoTables \in [Part -> Frame \cup {None}]
    BY DEF NoTables
  <2>. QED
    BY <1>1, <1>3, <1>4, <2>1 DEF Mem
<1>6. PICK f \in {"fill", "map", "fail", "done"} :
         /\ Go(p, call[p].at, f) /\ win' \in [{"load", "fault"} -> Frame \cup {None}]
         /\ Loading(p) /\ call[p].at > Code => f # "map"
         /\ f # "map" => Loading(p) /\ call[p].at > Code
  <2>1. call[p].root \in Frame
    BY <1>1 DEF CallRec
  <2>2. CASE Loading(p) /\ call[p].at > Code
    BY <1>1, <2>2 DEF Fill
  <2>3. CASE ~(Loading(p) /\ call[p].at > Code)
    <3>1. Go(p, call[p].at, "map") /\ Show(p, call[p].root)
      BY <2>3 DEF Fill
    <3>2. win' \in [{"load", "fault"} -> Frame \cup {None}]
      BY <1>1, <2>1, <3>1 DEF Show
    <3>. QED
      BY <2>3, <3>1, <3>2
  <2>. QED
    BY <2>2, <2>3
<1>7. /\ call' \in [Proc -> CallRec] /\ (\A c \in Proc \ {p} : call'[c] = call[c])
      /\ call'[p].at = call[p].at /\ call'[p].phase = f
      /\ call'[p].op = call[p].op /\ call'[p].root = call[p].root
  <2>1. call[p].at \in Int
    BY <1>1 DEF CallRec
  <2>. QED
    BY <1>1, <1>6, <2>1, GoIs
<1>8. call[p].op \in {"create", "exec", "fault"} /\ (call[p].op \in {"create", "exec"} => LoadAt(call[p]) /\ Loading(p))
      /\ (call[p].op = "create" => st[p] = "none") /\ (call[p].op = "exec" => st[p] = "live")
      /\ (call[p].op = "fault" => ~Loading(p) /\ st[p] = "live" /\ call[p].root = cr3[p] /\ call[p].at \in Bottom .. limit[p] - 1)
  BY <1>1, <1>2, InCall
<1>9. CallOK(p)'
  <2>1. CASE call[p].op \in {"create", "exec"}
    <3>1. call[p].at \in 0 .. Code + 1 /\ Code \in Nat
      BY <1>8, <2>1, Layout DEF LoadAt
    <3>2. LoadAt(call[p])'
      BY <1>6, <1>7, <1>8, <2>1, <3>1 DEF LoadAt
    <3>. QED
      BY <1>2, <1>7, <1>8, <2>1, <3>2 DEF CallOK
  <2>2. CASE call[p].op = "fault"
    BY <1>2, <1>6, <1>7, <1>8, <2>2 DEF CallOK
  <2>. QED
    BY <1>8, <2>1, <2>2
<1>10. Typed' /\ ActsFor(p)
  BY <1>1, <1>2, <1>5, <1>6, <1>7, <1>9, TypesKept, TypeFacts
<1>11. ASSUME Sober, ~crossed' PROVE Moves(p)
  <2>1. m' = m
    BY <1>3, <1>11
  <2>2. Roots(p)' = Roots(p) /\ (Loading(p)' <=> Loading(p))
    BY <1>2, <1>7 DEF Roots, Loading
  <2>3. Ready(p)
    BY <1>11, InvSpaces
  <2>4. Ready(p)'
    <3>1. Loading(p)' /\ Arrived(call[p])' => Arrived(call[p])
      <4>1. Arrived(call[p])' <=> (call'[p].phase = "done" \/ (call'[p].phase = "fill" /\ call'[p].at > Code))
        BY DEF Arrived
      <4>2. Arrived(call[p])' => f \in {"fill", "done"}
        BY <1>7, <4>1
      <4>. QED
        BY <1>2, <1>6, <4>2 DEF Arrived
    <3>. QED
      BY <1>2, <1>7, <2>1, <2>2, <2>3, <3>1 DEF Ready
  <2>. QED
    BY <1>2, <1>11, <2>1, <2>2, <2>4, Stays
<1>. QED
  BY <1>2, <1>5, <1>10, <1>11 DEF Good, Sober

\* A page mapped through the window goes to the root of the call, unless two cores
\* have met.
LEMMA MapThroughIs ==
    ASSUME Inv, NEW p \in Proc, First(m) # 0, MapThrough(p), Page(call[p]) \in VPage
    PROVE  /\ m' \in Mem /\ (m.short => m'.short) /\ crossed' \in BOOLEAN /\ (crossed => crossed')
           /\ Sober /\ ~crossed' /\ Sound(m, call[p].root) =>
                Grown(m, m', call[p].root, {Page(call[p])}) /\ Page(call[p]) \in Mapped(m', call[p].root)
<1>1. m \in Mem /\ call[p] \in CallRec /\ win \in [{"load", "fault"} -> Frame \cup {None}] /\ crossed \in BOOLEAN
  BY TypeFacts DEF Inv
<1>2. PICK s \in {call[p].root, win[Window(p)]} :
         /\ m' = IF s = None THEN Take(m) ELSE MapPage(Take(m), s, Page(call[p]), First(m))
         /\ crossed' = (crossed \/ s # call[p].root)
  BY DEF MapThrough, Seen
<1>3. s \in Frame \cup {None} /\ call[p].root \in Frame
  BY <1>1, <1>2 DEF Window, CallRec
<1>4. PICK f \in Frame \ m.used : f = First(m)
  BY <1>1, FirstIs
<1>5. PICK y \in Mem : y = Take(m) /\ y.used = m.used \cup {f} /\ y.dir = m.dir /\ y.tab = m.tab /\ y.short = m.short
  BY <1>1, <1>4, TakeIs
<1>6. PICK v \in VPage : v = Page(call[p]) /\ v \in Int
  BY Layout
<1>7. CASE s = None
  BY <1>2, <1>3, <1>5, <1>7, Layout
<1>8. CASE s # None
  <2>1. PICK r \in Frame : r = s
    BY <1>3, <1>8
  <2>2. m' = MapPage(y, r, v, f)
    BY <1>2, <1>4, <1>5, <1>6, <1>8, <2>1
  <2>3. m' \in Mem /\ (m.short => m'.short)
    <3>1. PICK q : q = PartOf(v)
      OBVIOUS
    <3>2. PICK t : t = y.dir[r][q]
      OBVIOUS
    <3>3. PICK n : n = First(y)
      OBVIOUS
    <3>4. /\ m' \in Mem /\ (t # None => InTable(y, m', v, f, t)) /\ (t = None => InNewTable(y, m', r, v, f, q, n))
      BY <1>6, <2>2, <3>1, <3>2, <3>3, MapPageIs
    <3>. QED
      BY <1>5, <3>4 DEF InTable, InNewTable
  <2>4. ASSUME Sober, ~crossed', Sound(m, call[p].root)
        PROVE  Grown(m, m', call[p].root, {v}) /\ v \in Mapped(m', call[p].root)
    <3>1. r = call[p].root /\ ~m.short
      BY <1>2, <2>1, <2>4 DEF Sober
    <3>. QED
      BY <1>1, <1>5, <2>2, <2>4, <3>1, MapGrows
  <2>. QED
    BY <1>1, <1>2, <1>6, <2>3, <2>4
<1>. QED
  BY <1>7, <1>8

\* A page of a program.
LEMMA LoadMapGood ==
    ASSUME Inv, NEW p \in Proc, LoadMap(p)
    PROVE  Good(p) /\ ppid' = ppid
<1>1. /\ Typed /\ m \in Mem /\ call \in [Proc -> CallRec] /\ win \in [{"load", "fault"} -> Frame \cup {None}]
      /\ crossed \in BOOLEAN /\ half \in SUBSET Live /\ jumped \in SUBSET Live
      /\ call[p] \in CallRec /\ (\A c \in Live : limit[c] \in Bottom .. Top) /\ (p \in Live <=> st[p] = "live")
  BY TypeFacts DEF Inv
<1>2. UNCHANGED <<st, cr3, heapEnd, limit, ppid, half, jumped>> /\ call[p].phase = "map" /\ Loading(p)
  BY DEF LoadMap, procVars
<1>3. /\ call[p].op \in {"create", "exec"} /\ LoadAt(call[p]) /\ call[p].at \in 0 .. Code /\ Code \in Nat
      /\ (call[p].op = "create" => st[p] = "none") /\ (call[p].op = "exec" => st[p] = "live")
      /\ call[p].root \in Frame /\ call[p].root \in Roots(p)
  <2>1. call[p].op \in {"create", "exec"} /\ LoadAt(call[p]) /\ call[p].root \in Roots(p) /\ call[p].root \in Frame
        /\ (call[p].op = "create" => st[p] = "none") /\ (call[p].op = "exec" => st[p] = "live")
    BY <1>1, <1>2, InCall, RootsAreFrames DEF CallRec
  <2>. QED
    BY <1>2, <2>1, Layout DEF LoadAt
<1>4. PICK n \in 1 .. Code + 1 : n = call[p].at + 1
  BY <1>3
<1>5. PICK v \in VPage : v = Page(call[p]) /\ (n > Code => v = Top)
  <2>1. call[p].op # "fault" /\ (call[p].at = Code \/ (call[p].at < Code /\ n <= Code))
    BY <1>3, <1>4
  <2>2. Page(call[p]) = IF call[p].at = Code THEN Top ELSE call[p].at
    BY <2>1 DEF Page
  <2>3. Top \in VPage /\ (call[p].at < Code => call[p].at \in VPage)
    BY <1>3, Layout
  <2>4. n > Code => call[p].at = Code
    BY <1>3, <1>4
  <2>. QED
    BY <2>1, <2>2, <2>3, <2>4
<1>6. ASSUME NEW f \in {"fill", "map", "fail"}, Go(p, n, f), f = "map" => n <= Code
      PROVE  /\ call' \in [Proc -> CallRec] /\ (\A c \in Proc \ {p} : call'[c] = call[c])
             /\ CallOK(p)' /\ Roots(p)' = Roots(p) /\ call'[p].root = call[p].root /\ call'[p].op = call[p].op
             /\ Arrived(call[p])' => f = "fill" /\ n > Code
  <2>1. /\ call' \in [Proc -> CallRec] /\ (\A c \in Proc \ {p} : call'[c] = call[c])
        /\ call'[p].at = n /\ call'[p].phase = f
        /\ call'[p].op = call[p].op /\ call'[p].root = call[p].root
    BY <1>1, <1>4, <1>6, GoIs
  <2>2. LoadAt(call[p])'
    BY <1>3, <1>6, <2>1 DEF LoadAt
  <2>3. CallOK(p)'
    BY <1>2, <1>3, <2>1, <2>2 DEF CallOK
  <2>4. Roots(p)' = Roots(p)
    BY <1>2, <2>1 DEF Roots, Loading
  <2>5. Arrived(call[p])' => f = "fill" /\ n > Code
    BY <1>6, <2>1 DEF Arrived
  <2>. QED
    BY <2>1, <2>3, <2>4, <2>5
<1>7. CASE First(m) = 0 /\ m' = Take(m) /\ Go(p, n, "fail") /\ UNCHANGED <<win, crossed>>
  <2>1. m' \in Mem /\ m'.short = m.short
    BY <1>1, <1>7, TakeIs
  <2>2. Typed' /\ ActsFor(p)
    BY <1>1, <1>2, <1>6, <1>7, <2>1, TypesKept, TypeFacts
  <2>3. ASSUME Sober PROVE Moves(p)
    <3>1. m' = m
      BY <1>1, <1>7, <2>3, InvSpaces, TakeNone
    <3>2. Ready(p)'
      <4>1. ~Arrived(call[p])' /\ call'[p].op = call[p].op /\ call'[p].root = call[p].root
        BY <1>6, <1>7
      <4>2. Ready(p)
        BY <2>3, InvSpaces
      <4>. QED
        BY <1>2, <1>3, <4>1, <4>2 DEF Ready
    <3>. QED
      BY <1>2, <1>6, <1>7, <2>3, <3>1, <3>2, Stays
  <2>. QED
    BY <1>2, <1>7, <2>1, <2>2, <2>3 DEF Good, Sober
<1>8. ASSUME First(m) # 0, MapThrough(p), NEW f \in {"fill", "map"}, Go(p, n, f), f = "map" => n <= Code,
             win' \in [{"load", "fault"} -> Frame \cup {None}]
      PROVE  Good(p)
  <2>1. /\ m' \in Mem /\ (m.short => m'.short) /\ crossed' \in BOOLEAN /\ (crossed => crossed')
        /\ Sober /\ ~crossed' /\ Sound(m, call[p].root) => Grown(m, m', call[p].root, {v}) /\ v \in Mapped(m', call[p].root)
    BY <1>5, <1>8, MapThroughIs
  <2>2. Typed' /\ ActsFor(p)
    BY <1>1, <1>2, <1>6, <1>8, <2>1, TypesKept, TypeFacts
  <2>3. ASSUME Sober, ~crossed' PROVE Moves(p)
    <3>1. PICK r \in Roots(p) : r = call[p].root /\ Sound(m, r)
      BY <1>3, <2>3, InvSpaces
    <3>2. Grown(m, m', r, {v}) /\ v \in Mapped(m', r)
      BY <2>1, <2>3, <3>1
    <3>3. Settled(p) /\ \A s \in Roots(p) : s # r => Spares(m, m', s)
      BY <1>6, <1>8, <2>1, <2>3, <3>2, GrownSettled
    <3>4. p \in Live => cr3[p] \in Frame /\ Spares(m, m', cr3[p])
      <4>1. ASSUME p \in Live PROVE cr3[p] \in Roots(p) /\ cr3[p] # r /\ cr3[p] \in Frame
        <5>1. cr3[p] \in Roots(p) /\ cr3[p] \in Frame
          BY <1>1, <4>1, RootsAreFrames
        <5>2. call[p].root # cr3[p]
          BY <1>1, <1>3, <2>3, <4>1, InvSpaces DEF Ready
        <5>. QED
          BY <3>1, <5>1, <5>2
      <4>. QED
        BY <3>3, <4>1
    <3>5. p \in Live => Holds(m, m', cr3[p], Ceil(heapEnd[p]) .. Bottom - 1) /\ Mapped(m', cr3[p]) = Mapped(m, cr3[p])
      BY <1>1, <2>1, <3>4, SparesHolds
    <3>6. Whole(p)'
      <4>1. Whole(p)
        BY <2>3, InvSpaces
      <4>. QED
        BY <1>2, <3>5, <4>1 DEF Whole, StackFrom, Live
    <3>7. Ready(p)'
      <4>1. (Arrived(call[p])' => v = Top) /\ call'[p].op = call[p].op /\ call'[p].root = call[p].root
        BY <1>5, <1>6, <1>8
      <4>2. Ready(p)
        BY <2>3, InvSpaces
      <4>. QED
        BY <1>2, <1>3, <3>1, <3>2, <4>1, <4>2 DEF Ready
    <3>. QED
      BY <3>3, <3>5, <3>6, <3>7 DEF Moves, Keeps
  <2>. QED
    BY <2>1, <2>2, <2>3 DEF Good, Sober
<1>9. \/ First(m) = 0 /\ m' = Take(m) /\ Go(p, n, "fail") /\ UNCHANGED <<win, crossed>>
      \/ First(m) # 0 /\ MapThrough(p) /\ n = Code /\ Go(p, n, "map") /\ Show(p, call[p].root)
      \/ First(m) # 0 /\ MapThrough(p) /\ n # Code /\ Go(p, n, "fill") /\ Show(p, None)
  BY <1>4 DEF LoadMap
<1>10. ASSUME NEW w \in Frame \cup {None}, Show(p, w) PROVE win' \in [{"load", "fault"} -> Frame \cup {None}]
  BY <1>1, <1>10 DEF Show
<1>. QED
  BY <1>2, <1>3, <1>4, <1>7, <1>8, <1>9, <1>10

\* The types after Fresh.
LEMMA FreshIs ==
    ASSUME Inv, NEW p \in Proc, NEW r \in Frame, Fresh(p, r)
    PROVE  /\ cr3' \in [Proc -> Frame] /\ heapEnd' \in [Proc -> 0 .. Bottom * Unit] /\ limit' \in [Proc -> Int]
           /\ cr3'[p] = r /\ limit'[p] = Top /\ Top \in Bottom .. Top
           /\ \A c \in Proc \ {p} : cr3'[c] = cr3[c] /\ heapEnd'[c] = heapEnd[c] /\ limit'[c] = limit[c]
           /\ jumped' \ {p} = jumped \ {p} /\ p \notin jumped' /\ Promised(heapEnd'[p], StackFrom(p)') = {Top}
<1>1. HeapBase * Unit \in 0 .. Bottom * Unit /\ Top \in Int
  <2>1. Unit \in Nat /\ Code \in Nat /\ Heap \in Nat /\ HeapBase = Code /\ Bottom = Code + Heap /\ Top \in Int
    BY Layout
  <2>2. Bottom * Unit = Code * Unit + Heap * Unit /\ Code * Unit \in Nat /\ Heap * Unit \in Nat
    BY <2>1
  <2>. QED
    BY <2>1, <2>2
<1>2. cr3 \in [Proc -> Frame] /\ heapEnd \in [Proc -> 0 .. Bottom * Unit] /\ limit \in [Proc -> Int]
  BY TypeFacts DEF Inv
<1>3. Promised(HeapBase * Unit, Top) = {Top}
  <2>1. HeapBase * Unit \in Nat /\ HeapBase \in Nat /\ HeapBase * Unit <= HeapBase * Unit
    BY <1>1, Layout
  <2>2. Ceil(HeapBase * Unit) \in Nat /\ Ceil(HeapBase * Unit) <= HeapBase
    BY <2>1, CeilIs
  <2>3. HeapBase .. Ceil(HeapBase * Unit) - 1 = {}
    BY <2>1, <2>2
  <2>4. Top .. Top = {Top}
    BY <1>1
  <2>. QED
    BY <2>3, <2>4 DEF Promised
<1>4. /\ cr3' \in [Proc -> Frame] /\ heapEnd' \in [Proc -> 0 .. Bottom * Unit] /\ limit' \in [Proc -> Int]
      /\ cr3'[p] = r /\ limit'[p] = Top /\ heapEnd'[p] = HeapBase * Unit
      /\ \A c \in Proc \ {p} : cr3'[c] = cr3[c] /\ heapEnd'[c] = heapEnd[c] /\ limit'[c] = limit[c]
      /\ jumped' \ {p} = jumped \ {p} /\ p \notin jumped'
  BY <1>1, <1>2 DEF Fresh
<1>5. Top \in Bottom .. Top
  BY Layout
<1>. QED
  BY <1>3, <1>4, <1>5 DEF StackFrom

\* process_create ends: the new process is whole, or its space is given up.
LEMMA CreateEndGood ==
    ASSUME Inv, NEW p \in Proc, CreateEnd(p)
    PROVE  Good(p) /\ ppid' = ppid
<1>1. /\ Typed /\ m \in Mem /\ call \in [Proc -> CallRec] /\ win \in [{"load", "fault"} -> Frame \cup {None}]
      /\ crossed \in BOOLEAN /\ st \in [Proc -> {"none", "live", "gone"}] /\ half \in SUBSET Live /\ jumped \in SUBSET Live
  BY TypeFacts DEF Inv
<1>2. UNCHANGED <<ppid, half, win, crossed>> /\ call' = [call EXCEPT ![p] = Idle] /\ call[p].op = "create"
  BY DEF CreateEnd, Leave
<1>3. PICK r \in Roots(p) : r = call[p].root /\ Roots(p) = {r} /\ r \in Frame /\ p \notin Live /\ st[p] = "none" /\ Loading(p)
  BY <1>1, <1>2, InCall, RootsAreFrames
<1>4. call' \in [Proc -> CallRec] /\ call'[p] = Idle /\ (\A c \in Proc \ {p} : call'[c] = call[c]) /\ ~Loading(p)'
  BY <1>1, <1>2, IdleIs, CallSet DEF Loading
<1>5. CallOK(p)' /\ Ready(p)'
  BY <1>4, IdleIs DEF CallOK, Ready
<1>6. PICK z \in Mem : z = Flush(m, r) /\ z.short = m.short
  BY <1>1, <1>3, FlushIs
<1>7. ASSUME NEW y \in Mem, y = m \/ y = Flush(m, r), m' = [y EXCEPT !.used = @ \ {r}], UNCHANGED <<procVars, jumped>>
      PROVE  Good(p)
  <2>1. m' \in Mem /\ m'.short = m.short
    BY <1>3, <1>6, <1>7, Dropped
  <2>2. UNCHANGED <<st, cr3, heapEnd, limit, jumped>>
    BY <1>7 DEF procVars
  <2>3. Typed' /\ ActsFor(p)
    BY <1>1, <1>2, <1>3, <1>4, <1>5, <2>1, <2>2, TypesKept, TypeFacts
  <2>4. ASSUME Sober PROVE Moves(p)
    <3>1. Roots(p)' \subseteq Roots(p) \ {r} /\ p \notin Live' /\ ~(st'[p] = "live")
      BY <1>3, <1>4, <2>2 DEF Roots, Live
    <3>2. Settled(p)
      BY <1>7, <2>4, <3>1, FlushSettled
    <3>. QED
      BY <1>5, <3>1, <3>2 DEF Moves, Keeps, Whole
  <2>. QED
    BY <1>2, <2>1, <2>3, <2>4 DEF Good, Sober
<1>8. CASE m' = m /\ call[p].phase = "done" /\ st' = [st EXCEPT ![p] = "live"] /\ Fresh(p, r)
  <2>1. /\ cr3' \in [Proc -> Frame] /\ heapEnd' \in [Proc -> 0 .. Bottom * Unit] /\ limit' \in [Proc -> Int]
        /\ cr3'[p] = r /\ limit'[p] = Top /\ Top \in Bottom .. Top
        /\ \A c \in Proc \ {p} : cr3'[c] = cr3[c] /\ heapEnd'[c] = heapEnd[c] /\ limit'[c] = limit[c]
        /\ jumped' \ {p} = jumped \ {p} /\ p \notin jumped' /\ Promised(heapEnd'[p], StackFrom(p)') = {Top}
    BY <1>3, <1>8, FreshIs
  <2>2. st' \in [Proc -> {"none", "live", "gone"}] /\ st'[p] = "live" /\ \A c \in Proc \ {p} : st'[c] = st[c]
    BY <1>1, <1>8
  <2>3. Typed' /\ ActsFor(p)
    BY <1>1, <1>2, <1>4, <1>5, <1>8, <2>1, <2>2, TypesKept, TypeFacts
  <2>4. ASSUME Sober PROVE Moves(p)
    <3>1. Roots(p)' \subseteq Roots(p)
      BY <1>3, <1>4, <2>1, <2>2 DEF Roots
    <3>2. Settled(p) /\ Keeps(p)
      BY <1>8, <2>4, <3>1, StillSettled
    <3>3. Top \in Mapped(m, r)
      BY <1>3, <1>8, <2>4, InvSpaces DEF Ready, Arrived
    <3>4. Whole(p)'
      BY <1>8, <2>1, <3>3 DEF Whole
    <3>. QED
      BY <1>5, <3>2, <3>4 DEF Moves
  <2>. QED
    BY <1>2, <1>8, <2>3, <2>4 DEF Good, Sober
<1>9. \/ m' = [Flush(m, r) EXCEPT !.used = @ \ {r}] /\ UNCHANGED <<procVars, jumped>>
      \/ m' = [m EXCEPT !.used = @ \ {r}] /\ UNCHANGED <<procVars, jumped>>
      \/ m' = m /\ call[p].phase = "done" /\ st' = [st EXCEPT ![p] = "live"] /\ Fresh(p, r)
  BY <1>3 DEF CreateEnd
<1>10. CASE m' = [Flush(m, r) EXCEPT !.used = @ \ {r}] /\ UNCHANGED <<procVars, jumped>>
  BY <1>2, <1>6, <1>7, <1>10
<1>11. CASE m' = [m EXCEPT !.used = @ \ {r}] /\ UNCHANGED <<procVars, jumped>>
  BY <1>1, <1>2, <1>7, <1>11
<1>. QED
  BY <1>2, <1>8, <1>9, <1>10, <1>11

\* execve ends: with the new space, the old one released, or half way.
LEMMA ExecEndGood ==
    ASSUME Inv, NEW p \in Proc, ExecEnd(p)
    PROVE  Good(p) /\ ppid' = ppid
<1>1. /\ Typed /\ m \in Mem /\ call \in [Proc -> CallRec] /\ win \in [{"load", "fault"} -> Frame \cup {None}]
      /\ crossed \in BOOLEAN /\ cr3 \in [Proc -> Frame] /\ half \in SUBSET Live /\ jumped \in SUBSET Live
      /\ \A c \in Live : limit[c] \in Bottom .. Top
  BY TypeFacts DEF Inv
<1>2. UNCHANGED <<st, ppid, win, crossed>> /\ call' = [call EXCEPT ![p] = Idle] /\ call[p].op = "exec"
  BY DEF ExecEnd, Leave
<1>3. PICK r \in Roots(p) : r = call[p].root /\ r \in Frame /\ p \in Live /\ st[p] = "live" /\ Loading(p)
  BY <1>1, <1>2, InCall, RootsAreFrames
<1>4. PICK o \in Roots(p) : o = cr3[p] /\ o \in Frame /\ Roots(p) = {o, r}
  BY <1>1, <1>2, <1>3, InCall, RootsAreFrames
<1>5. call' \in [Proc -> CallRec] /\ call'[p] = Idle /\ (\A c \in Proc \ {p} : call'[c] = call[c]) /\ ~Loading(p)'
  BY <1>1, <1>2, IdleIs, CallSet DEF Loading
<1>6. CallOK(p)' /\ Ready(p)'
  BY <1>5, IdleIs DEF CallOK, Ready
<1>7. ASSUME Sober
      PROVE  o # r /\ (call[p].phase = "done" => Top \in Mapped(m, r))
  BY <1>2, <1>3, <1>4, <1>7, InvSpaces DEF Ready, Arrived
<1>8. CASE m' = m /\ half' = half \cup {p} /\ cr3' = [cr3 EXCEPT ![p] = r] /\ UNCHANGED <<heapEnd, limit, jumped>>
  <2>1. cr3' \in [Proc -> Frame] /\ cr3'[p] = r /\ \A c \in Proc \ {p} : cr3'[c] = cr3[c]
    BY <1>1, <1>3, <1>8
  <2>2. Typed' /\ ActsFor(p)
    BY <1>1, <1>2, <1>3, <1>5, <1>6, <1>8, <2>1, TypesKept, TypeFacts
  <2>3. ASSUME Sober PROVE Moves(p)
    <3>1. Roots(p)' \subseteq Roots(p)
      BY <1>3, <1>5, <2>1 DEF Roots
    <3>2. Settled(p) /\ Keeps(p)
      BY <1>8, <2>3, <3>1, StillSettled
    <3>. QED
      BY <1>6, <1>8, <3>2 DEF Moves, Whole
  <2>. QED
    BY <1>2, <1>8, <2>2, <2>3 DEF Good, Sober
<1>9. CASE m' = m /\ half' = half \cup {p} /\ Fresh(p, r)
  <2>1. /\ cr3' \in [Proc -> Frame] /\ heapEnd' \in [Proc -> 0 .. Bottom * Unit] /\ limit' \in [Proc -> Int]
        /\ cr3'[p] = r /\ limit'[p] = Top /\ Top \in Bottom .. Top
        /\ \A c \in Proc \ {p} : cr3'[c] = cr3[c] /\ heapEnd'[c] = heapEnd[c] /\ limit'[c] = limit[c]
        /\ jumped' \ {p} = jumped \ {p} /\ p \notin jumped'
    BY <1>3, <1>9, FreshIs
  <2>2. Typed' /\ ActsFor(p)
    BY <1>1, <1>2, <1>3, <1>5, <1>6, <1>9, <2>1, TypesKept, TypeFacts
  <2>3. ASSUME Sober PROVE Moves(p)
    <3>1. Roots(p)' \subseteq Roots(p)
      BY <1>3, <1>5, <2>1 DEF Roots
    <3>2. Settled(p) /\ Keeps(p)
      BY <1>9, <2>3, <3>1, StillSettled
    <3>. QED
      BY <1>6, <1>9, <3>2 DEF Moves, Whole
  <2>. QED
    BY <1>2, <1>9, <2>2, <2>3 DEF Good, Sober
<1>10. CASE m' = Flush(m, o) /\ half' = half \ {p} /\ Fresh(p, r) /\ call[p].phase = "done"
  <2>1. /\ cr3' \in [Proc -> Frame] /\ heapEnd' \in [Proc -> 0 .. Bottom * Unit] /\ limit' \in [Proc -> Int]
        /\ cr3'[p] = r /\ limit'[p] = Top /\ Top \in Bottom .. Top
        /\ \A c \in Proc \ {p} : cr3'[c] = cr3[c] /\ heapEnd'[c] = heapEnd[c] /\ limit'[c] = limit[c]
        /\ jumped' \ {p} = jumped \ {p} /\ p \notin jumped' /\ Promised(heapEnd'[p], StackFrom(p)') = {Top}
    BY <1>3, <1>10, FreshIs
  <2>2. m' \in Mem /\ m'.short = m.short
    BY <1>1, <1>4, <1>10, FlushIs
  <2>3. Typed' /\ ActsFor(p)
    BY <1>1, <1>2, <1>3, <1>5, <1>6, <1>10, <2>1, <2>2, TypesKept, TypeFacts
  <2>4. ASSUME Sober PROVE Moves(p)
    <3>1. Roots(p)' \subseteq Roots(p) \ {o} /\ o # r
      BY <1>3, <1>5, <1>7, <2>1, <2>4 DEF Roots
    <3>2. Settled(p) /\ Spares(m, m', r)
      BY <1>10, <2>2, <2>4, <3>1, FlushSettled
    <3>3. Mapped(m', r) = Mapped(m, r)
      BY <1>1, <1>3, <2>2, <3>2, SparesHolds
    <3>4. Top \in Mapped(m', r)
      BY <1>7, <1>10, <2>4, <3>3
    <3>5. Whole(p)'
      BY <2>1, <3>4 DEF Whole
    <3>6. Keeps(p)
      BY <1>4, <2>1, <3>1 DEF Keeps
    <3>. QED
      BY <1>6, <3>2, <3>5, <3>6 DEF Moves
  <2>. QED
    BY <1>2, <2>2, <2>3, <2>4 DEF Good, Sober
<1>11. \/ /\ m' = m /\ half' = half \cup {p}
          /\ (cr3' = [cr3 EXCEPT ![p] = r] /\ UNCHANGED <<heapEnd, limit, jumped>>) \/ Fresh(p, r)
       \/ m' = Flush(m, o) /\ half' = half \ {p} /\ Fresh(p, r) /\ call[p].phase = "done"
  BY <1>3, <1>4 DEF ExecEnd
<1>. QED
  BY <1>2, <1>8, <1>9, <1>10, <1>11

\* fork acts for the child c; what it copies is all that the parent p has.
LEMMA ForkGood ==
    ASSUME Inv, NEW p \in Proc, NEW c \in Proc, NEW k, Fork(p, c, k)
    PROVE  /\ Good(c)
           /\ ppid' = ppid \/ (/\ ppid' = [ppid EXCEPT ![c] = p]
                               /\ Sober => Mapped(m', cr3'[c]) = Mapped(m, cr3[p]))
<1>. DEFINE r == First(m)
            a == Copy(m, cr3[p])
<1>1. /\ Typed /\ m \in Mem /\ r \in Frame /\ p \in Live /\ Live \subseteq Proc /\ cr3 \in [Proc -> Frame]
      /\ call \in [Proc -> CallRec] /\ win \in [{"load", "fault"} -> Frame \cup {None}] /\ crossed \in BOOLEAN
      /\ half \in SUBSET Live /\ jumped \in SUBSET Live /\ (\A d \in Live : limit[d] \in Bottom .. Top)
      /\ c \notin Live /\ st[c] = "none" /\ p # c /\ Free(c)
  BY TypeFacts, FirstIs DEF Fork, Live, Inv
<1>2. /\ m' = a.m /\ UNCHANGED <<win, call, crossed>>
      /\ IF a.ok /\ k # "nothread"
         THEN /\ st' = [st EXCEPT ![c] = "live"] /\ cr3' = [cr3 EXCEPT ![c] = r]
              /\ heapEnd' = [heapEnd EXCEPT ![c] = heapEnd[p]] /\ limit' = [limit EXCEPT ![c] = limit[p]]
              /\ ppid' = [ppid EXCEPT ![c] = p] /\ half' = (IF p \in half THEN half \cup {c} ELSE half)
              /\ jumped' = IF p \in jumped THEN jumped \cup {c} ELSE jumped
         ELSE UNCHANGED <<procVars, ppid, half, jumped>>
  BY DEF Fork, windowVars
<1>3. PICK s \in Frame : s = cr3[p]
  BY <1>1
<1>4. a \in Loop /\ m' \in Mem /\ (m.short => m'.short) /\ (Sober => Cloned(m, a, s, r))
  <2>1. a \in Loop /\ (~m.short /\ 0 \in m.used /\ Sound(m, s) => Cloned(m, a, s, r))
    BY <1>1, <1>3, CopyIs
  <2>2. Sober => ~m.short /\ 0 \in m.used /\ Sound(m, s)
    BY <1>1, <1>3, InvSpaces, RootsAreFrames
  <2>3. m.short => a.m.short
    BY <1>1, <1>3, CopyShort
  <2>. QED
    BY <1>2, <2>1, <2>2, <2>3 DEF Loop
<1>5. r # 0 => r \notin m.used
  BY <1>1, FirstIs
<1>. HIDE DEF a, r
<1>6. ~Loading(c) /\ ~Loading(c)' /\ Roots(c) = {} /\ call[c].op = "idle" /\ call'[c] = call[c]
  BY <1>1, <1>2, InCall DEF Loading
<1>7. CallOK(c)' /\ Ready(c)' /\ Keeps(c)
  <2>1. CallOK(c)' /\ Ready(c)'
    BY <1>1, <1>2, <1>6 DEF CallOK, Free, Ready
  <2>. QED
    BY <1>1, <2>1 DEF Keeps
<1>8. ASSUME Sober, Roots(c)' \subseteq {r}, a.ok \/ Roots(c)' = {}
      PROVE  ~m'.short /\ Settled(c)
  <2>1. Cloned(m, a, s, r) /\ ~m'.short
    BY <1>2, <1>4, <1>8 DEF Cloned
  <2>2. CASE r = 0
    <3>1. m' = m /\ ~a.ok
      BY <1>2, <2>1, <2>2 DEF Cloned
    <3>. QED
      BY <1>6, <1>8, <2>1, <3>1, StillSettled
  <2>3. CASE r # 0
    <3>1. Sound(m', r) /\ \A d \in Frame : Sound(m, d) => Leaves(m, m', r, d)
      BY <1>2, <2>1, <2>3 DEF Cloned
    <3>. QED
      BY <1>1, <1>4, <1>5, <1>8, <2>1, <2>3, <3>1, NewSettled
  <2>. QED
    BY <2>2, <2>3
<1>9. CASE ~(a.ok /\ k # "nothread")
  <2>1. UNCHANGED <<st, cr3, heapEnd, limit, ppid, half, jumped>>
    BY <1>2, <1>9 DEF procVars
  <2>2. Typed' /\ ActsFor(c)
    BY <1>1, <1>2, <1>4, <1>7, <2>1, TypesKept, TypeFacts
  <2>3. ASSUME Sober PROVE Moves(c)
    <3>1. Roots(c)' = {} /\ c \notin Live'
      BY <1>1, <1>6, <2>1 DEF Roots, Live
    <3>. QED
      BY <1>7, <1>8, <2>3, <3>1 DEF Moves, Whole
  <2>. QED
    BY <1>2, <1>4, <2>1, <2>2, <2>3 DEF Good, Sober
<1>10. CASE a.ok /\ k # "nothread"
  <2>1. /\ st' = [st EXCEPT ![c] = "live"] /\ cr3' = [cr3 EXCEPT ![c] = r]
        /\ heapEnd' = [heapEnd EXCEPT ![c] = heapEnd[p]] /\ limit' = [limit EXCEPT ![c] = limit[p]]
        /\ ppid' = [ppid EXCEPT ![c] = p] /\ half' = (IF p \in half THEN half \cup {c} ELSE half)
        /\ jumped' = IF p \in jumped THEN jumped \cup {c} ELSE jumped
    BY <1>2, <1>10
  <2>2. /\ cr3' \in [Proc -> Frame] /\ heapEnd' \in [Proc -> 0 .. Bottom * Unit] /\ limit' \in [Proc -> Int]
        /\ st' \in [Proc -> {"none", "live", "gone"}] /\ ppid' \in [Proc -> Proc \cup {NoOne}]
        /\ cr3'[c] = r /\ limit'[c] = limit[p] /\ heapEnd'[c] = heapEnd[p] /\ st'[c] = "live"
        /\ \A d \in Proc \ {c} : cr3'[d] = cr3[d] /\ heapEnd'[d] = heapEnd[d] /\ limit'[d] = limit[d] /\ st'[d] = st[d]
    BY <1>1, <2>1, TypeFacts
  <2>3. half' \ {c} = half \ {c} /\ jumped' \ {c} = jumped \ {c} /\ limit'[c] \in Bottom .. Top
        /\ (c \in half' <=> p \in half) /\ (c \in jumped' <=> p \in jumped)
    BY <1>1, <2>1, <2>2
  <2>4. Typed' /\ ActsFor(c)
    BY <1>1, <1>2, <1>4, <1>7, <2>2, <2>3, TypesKept
  <2>5. ASSUME Sober PROVE Moves(c) /\ Mapped(m', cr3'[c]) = Mapped(m, cr3[p])
    <3>1. Roots(c)' \subseteq {r}
      BY <1>6, <2>2 DEF Roots
    <3>2. ~m'.short /\ Settled(c)
      BY <1>8, <1>10, <2>5, <3>1
    <3>3. Mapped(m', cr3'[c]) = Mapped(m, cr3[p])
      BY <1>2, <1>3, <1>4, <1>10, <2>2, <2>5 DEF Cloned
    <3>4. Whole(p)
      BY <2>5, InvSpaces
    <3>5. StackFrom(c)' = StackFrom(p) /\ (c \in Live' \ half' => p \in Live \ half)
      BY <1>1, <2>2, <2>3 DEF StackFrom
    <3>6. Whole(c)'
      BY <2>2, <3>3, <3>4, <3>5 DEF Whole
    <3>. QED
      BY <1>7, <3>2, <3>3, <3>6 DEF Moves
  <2>. QED
    BY <1>2, <1>4, <2>1, <2>4, <2>5 DEF Good, Sober
<1>. QED
  BY <1>9, <1>10

\* brk raises the break: pages below the old break are not touched, and if it
\* succeeds every page up to the new one is there.
LEMMA BrkGood ==
    ASSUME Inv, NEW p \in Proc, NEW new \in HeapBase * Unit .. Bottom * Unit, Brk(p, new)
    PROVE  Good(p) /\ ppid' = ppid
<1>. DEFINE old == heapEnd[p]
            a == Raise(cr3[p], old, new)
<1>1. /\ Typed /\ m \in Mem /\ p \in Live /\ Live \subseteq Proc /\ cr3 \in [Proc -> Frame]
      /\ call \in [Proc -> CallRec] /\ win \in [{"load", "fault"} -> Frame \cup {None}] /\ crossed \in BOOLEAN
      /\ half \in SUBSET Live /\ jumped \in SUBSET Live
      /\ limit \in [Proc -> Int] /\ heapEnd \in [Proc -> 0 .. Bottom * Unit]
      /\ (\A d \in Live : limit[d] \in Bottom .. Top) /\ Free(p)
  BY TypeFacts DEF Brk, Inv
<1>2. UNCHANGED <<st, cr3, limit, ppid, half, jumped, win, call, crossed>> /\ Live' = Live /\ st[p] = "live"
  BY DEF Brk, Live, windowVars
<1>3. PICK r \in Roots(p) : r = cr3[p] /\ r \in Frame /\ Roots(p) = {r} /\ Roots(p)' = Roots(p)
  BY <1>1, <1>2, InCall DEF Roots, Loading
<1>4. new \in 0 .. Bottom * Unit /\ old \in 0 .. Bottom * Unit /\ Bottom \in Nat /\ Unit \in Nat /\ Bottom * Unit \in Nat
  <2>1. Unit \in Nat /\ HeapBase \in Nat /\ Bottom \in Nat
    BY Layout
  <2>2. HeapBase * Unit \in Nat /\ Bottom * Unit \in Nat
    BY <2>1
  <2>. QED
    BY <1>1, <2>1, <2>2
<1>5. PICK l \in Bottom .. Top + 1 : l = StackFrom(p) /\ StackFrom(p)' = l
  <2>1. limit[p] \in Bottom .. Top /\ Bottom \in Int /\ Top \in Int /\ Bottom <= Top
    BY <1>1, Layout
  <2>2. StackFrom(p) \in Bottom .. Top + 1
    BY <2>1 DEF StackFrom
  <2>. QED
    BY <1>2, <2>2 DEF StackFrom
<1>6. ASSUME Sober
      PROVE  0 \in m.used /\ ~m.short /\ Sound(m, r) /\ (p \notin half => Promised(old, l) \subseteq Mapped(m, r))
  BY <1>1, <1>3, <1>5, <1>6, InvSpaces DEF Whole
<1>7. Ceil(old) \in Nat /\ Ceil(new) \in Nat /\ Ceil(new) <= Bottom /\ Ceil(old) <= Bottom
  BY <1>4, CeilIs
<1>8. CallOK(p)' /\ Ready(p)'
  <2>1. call'[p] = Idle /\ ~Loading(p)'
    BY <1>1, <1>2, IdleIs DEF Free, Loading
  <2>. QED
    BY <2>1, IdleIs DEF CallOK, Ready
<1>9. ASSUME m' \in Mem, heapEnd' \in [Proc -> 0 .. Bottom * Unit], \A c \in Proc \ {p} : heapEnd'[c] = heapEnd[c]
      PROVE  Typed' /\ ActsFor(p)
  BY <1>1, <1>2, <1>8, <1>9, TypesKept, TypeFacts
<1>10. CASE new < old /\ heapEnd' = [heapEnd EXCEPT ![p] = new] /\ UNCHANGED m
  <2>1. m' = m /\ heapEnd'[p] = new /\ Typed' /\ ActsFor(p)
    BY <1>1, <1>4, <1>9, <1>10
  <2>2. Ceil(new) <= Ceil(old)
    BY <1>4, <1>10, CeilIs
  <2>3. Promised(new, l) \subseteq Promised(old, l)
    <3>1. HeapBase .. Ceil(new) - 1 \subseteq HeapBase .. Ceil(old) - 1
      BY <1>7, <2>2, Layout
    <3>. QED
      BY <3>1 DEF Promised
  <2>4. ASSUME Sober PROVE Moves(p)
    <3>1. Settled(p) /\ Keeps(p)
      BY <1>3, <2>1, <2>4, StillSettled
    <3>2. Whole(p)'
      BY <1>2, <1>3, <1>5, <1>6, <2>1, <2>3, <2>4 DEF Whole
    <3>. QED
      BY <1>8, <3>1, <3>2 DEF Moves
  <2>. QED
    BY <1>2, <2>1, <2>4 DEF Good, Sober
<1>11. CASE new > old /\ m' = a.m /\ heapEnd' = [heapEnd EXCEPT ![p] = IF a.ok THEN new ELSE old]
  <2>1. PICK n \in Nat : n = Ceil(new) - Ceil(old)
    <3>1. Ceil(old) <= Ceil(new)
      BY <1>4, <1>11, CeilIs
    <3>. QED
      BY <1>7, <3>1
  <2>2. PICK v \in Nat : v = Ceil(old) /\ v .. v + n - 1 = Ceil(old) .. Ceil(new) - 1
    BY <1>7, <2>1
  <2>3. v .. v + n - 1 \subseteq Ceil(old) .. Bottom - 1 /\ v .. v + n - 1 \subseteq VPage
    BY <1>7, <2>2, Layout
  <2>4. PICK b \in Loop : b = Begun(m) /\ b.m = m
    BY <1>1, BegunIs
  <2>5. a = Populate(b, r, v, n)
    BY <1>3, <2>1, <2>2, <2>4 DEF Raise
  <2>6. a \in Loop /\ (m.short => a.m.short)
    BY <1>3, <2>4, <2>5, PopulateShort
  <2>7. ASSUME Sober
        PROVE  Grown(m, a.m, r, v .. v + n - 1) /\ (a.ok => v .. v + n - 1 \subseteq Mapped(a.m, r))
    <3>1. Healthy(b.m, r)
      BY <1>6, <2>4, <2>7 DEF Healthy
    <3>. QED
      BY <1>3, <2>3, <2>4, <2>5, <3>1, PopulateGrows
  <2>. HIDE DEF a
  <2>8. m' \in Mem /\ (m.short => m'.short) /\ Typed' /\ ActsFor(p) /\ heapEnd'[p] = IF a.ok THEN new ELSE old
    <3>1. m' \in Mem /\ (m.short => m'.short)
      BY <1>11, <2>6 DEF Loop
    <3>. QED
      BY <1>1, <1>4, <1>9, <1>11, <3>1
  <2>9. ASSUME Sober PROVE Moves(p)
    <3>1. Grown(m, m', r, v .. v + n - 1)
      BY <1>11, <2>7, <2>9
    <3>2. Settled(p)
      BY <1>3, <2>8, <2>9, <3>1, GrownSettled
    <3>3. Holds(m, m', r, Ceil(old) .. Bottom - 1)
      BY <2>3, <3>1 DEF Grown, Holds
    <3>4. ASSUME p \notin half PROVE Promised(heapEnd'[p], l) \subseteq Mapped(m', r)
      <4>1. \A w \in Mapped(m, r) : w \notin v .. v + n - 1 => w \in Mapped(m', r)
        BY <3>1 DEF Grown
      <4>2. Promised(old, l) \subseteq Mapped(m, r)
        BY <1>6, <2>9, <3>4
      <4>3. \A w \in Promised(old, l) : w \notin v .. v + n - 1
        <5>1. l \in Int /\ Bottom <= l /\ Bottom \in Int /\ Top \in Int /\ HeapBase \in Int
          BY Layout
        <5>. QED
          BY <1>7, <2>2, <5>1 DEF Promised
      <4>4. Promised(new, l) \subseteq Promised(old, l) \cup (v .. v + n - 1)
        <5>1. HeapBase \in Int
          BY Layout
        <5>2. HeapBase .. Ceil(new) - 1 \subseteq (HeapBase .. Ceil(old) - 1) \cup (Ceil(old) .. Ceil(new) - 1)
          BY <1>7, <5>1
        <5>. QED
          BY <2>2, <5>2 DEF Promised
      <4>5. a.ok => v .. v + n - 1 \subseteq Mapped(m', r)
        BY <1>11, <2>7, <2>9
      <4>6. Promised(old, l) \subseteq Mapped(m', r)
        BY <4>1, <4>2, <4>3
      <4>. QED
        BY <2>8, <4>4, <4>5, <4>6
    <3>5. Whole(p)'
      BY <1>2, <1>3, <1>5, <3>4 DEF Whole
    <3>. QED
      BY <1>3, <1>8, <3>2, <3>3, <3>5 DEF Moves, Keeps
  <2>. QED
    BY <1>2, <2>8, <2>9 DEF Good, Sober
<1>12. \/ new > old /\ m' = a.m /\ heapEnd' = [heapEnd EXCEPT ![p] = IF a.ok THEN new ELSE old]
       \/ new < old /\ heapEnd' = [heapEnd EXCEPT ![p] = new] /\ UNCHANGED m
  BY DEF Brk
<1>. QED
  BY <1>2, <1>10, <1>11, <1>12

\* scheduler_exit releases the space of p and no other.
LEMMA ReleaseGood ==
    ASSUME Inv, NEW p \in Live, Release(p), ~Loading(p), call' = [call EXCEPT ![p] = Idle]
    PROVE  Good(p) /\ ppid' = ppid
<1>1. /\ Typed /\ m \in Mem /\ p \in Proc /\ st \in [Proc -> {"none", "live", "gone"}]
      /\ call \in [Proc -> CallRec] /\ win \in [{"load", "fault"} -> Frame \cup {None}] /\ crossed \in BOOLEAN
      /\ half \in SUBSET Live /\ jumped \in SUBSET Live
  BY TypeFacts DEF Inv
<1>2. /\ UNCHANGED <<cr3, heapEnd, limit, ppid, win, crossed>> /\ st' = [st EXCEPT ![p] = "gone"]
      /\ half' = half \ {p} /\ jumped' = jumped \ {p} /\ m' = Flush(m, cr3[p])
  BY DEF Release
<1>3. PICK r \in Roots(p) : r = cr3[p] /\ r \in Frame /\ Roots(p) = {r}
  BY <1>1, RootsAreFrames DEF Roots
<1>4. m' \in Mem /\ m'.short = m.short
  BY <1>1, <1>2, <1>3, FlushIs
<1>5. st' \in [Proc -> {"none", "live", "gone"}] /\ st'[p] = "gone" /\ \A c \in Proc \ {p} : st'[c] = st[c]
  BY <1>1, <1>2
<1>6. call' \in [Proc -> CallRec] /\ call'[p] = Idle /\ (\A c \in Proc \ {p} : call'[c] = call[c]) /\ ~Loading(p)'
  BY <1>1, IdleIs, CallSet DEF Loading
<1>7. CallOK(p)' /\ Ready(p)'
  BY <1>6, IdleIs DEF CallOK, Ready
<1>8. Typed' /\ ActsFor(p)
  BY <1>1, <1>2, <1>4, <1>5, <1>6, <1>7, TypesKept, TypeFacts
<1>9. ASSUME Sober PROVE Moves(p)
  <2>1. Roots(p)' = {} /\ p \notin Live'
    BY <1>5, <1>6 DEF Roots, Live
  <2>2. Settled(p)
    BY <1>1, <1>2, <1>3, <1>4, <1>9, <2>1, FlushSettled
  <2>. QED
    BY <1>5, <1>7, <2>1, <2>2 DEF Moves, Whole, Keeps
<1>. QED
  BY <1>2, <1>4, <1>8, <1>9 DEF Good, Sober

\* A page fault begins, or ends the process.
LEMMA FaultBeginGood ==
    ASSUME Inv, NEW p \in Proc, NEW v \in Bottom .. Top, FaultBegin(p, v)
    PROVE  Good(p) /\ ppid' = ppid
<1>1. /\ Typed /\ p \in Live /\ st[p] = "live" /\ Free(p) /\ cr3[p] \in Frame /\ call \in [Proc -> CallRec]
      /\ win \in [{"load", "fault"} -> Frame \cup {None}] /\ limit[p] \in Int /\ m \in Mem /\ v \in Int
      /\ ~Loading(p) /\ Roots(p) = {cr3[p]} /\ crossed \in BOOLEAN
      /\ limit[p] \in Bottom .. Top /\ half \in SUBSET Live /\ jumped \in SUBSET Live
  BY TypeFacts, InCall DEF FaultBegin, Inv
<1>2. CASE Release(p) /\ UNCHANGED call
  <2>1. call' = [call EXCEPT ![p] = Idle]
    BY <1>1, <1>2 DEF Free
  <2>. QED
    BY <1>1, <1>2, <2>1, ReleaseGood
<1>3. CASE /\ v < limit[p]
           /\ call' = [call EXCEPT ![p] = [op |-> "fault", k |-> "good", root |-> cr3[p], at |-> v, phase |-> "fill"]]
           /\ win' = [win EXCEPT !["fault"] = None]
           /\ UNCHANGED <<m, procVars, ppid, half, loads, jumped, crossed>>
  <2>1. UNCHANGED <<m, st, cr3, heapEnd, limit, ppid, half, jumped, crossed>>
    BY <1>3 DEF procVars
  <2>2. PICK rec \in CallRec : /\ call' = [call EXCEPT ![p] = rec] /\ rec.op = "fault" /\ rec.root = cr3[p]
                               /\ rec.at = v /\ rec.phase = "fill"
    <3>1. PICK rec : rec = [op |-> "fault", k |-> "good", root |-> cr3[p], at |-> v, phase |-> "fill"]
      OBVIOUS
    <3>2. rec \in CallRec /\ rec.op = "fault" /\ rec.root = cr3[p] /\ rec.at = v /\ rec.phase = "fill"
      BY <1>1, <3>1 DEF CallRec
    <3>. QED
      BY <1>3, <3>1, <3>2
  <2>3. call' \in [Proc -> CallRec] /\ call'[p] = rec /\ \A c \in Proc \ {p} : call'[c] = call[c]
    BY <1>1, <2>2, CallSet
  <2>4. v \in Bottom .. limit[p] - 1
    <3>1. Bottom \in Int
      BY Layout
    <3>. QED
      BY <1>1, <1>3, <3>1
  <2>5. CallOK(p)'
    BY <1>1, <2>1, <2>2, <2>3, <2>4 DEF CallOK
  <2>6. win' \in [{"load", "fault"} -> Frame \cup {None}]
    BY <1>1, <1>3
  <2>7. Typed' /\ ActsFor(p)
    BY <1>1, <2>1, <2>3, <2>5, <2>6, TypesKept, TypeFacts
  <2>8. ASSUME Sober PROVE Moves(p)
    <3>1. Roots(p)' = Roots(p) /\ ~Loading(p)'
      BY <1>1, <2>1, <2>2, <2>3 DEF Roots, Loading
    <3>2. v \notin Mapped(m, cr3[p])
      BY DEF FaultBegin
    <3>3. Ready(p)'
      BY <2>1, <2>2, <2>3, <3>1, <3>2 DEF Ready
    <3>. QED
      BY <2>1, <2>8, <3>1, <3>3, Stays
  <2>. QED
    BY <2>1, <2>7, <2>8 DEF Good, Sober
<1>. QED
  BY <1>2, <1>3 DEF FaultBegin

\* A page fault maps the page below the stack, or ends the process.
LEMMA FaultMapGood ==
    ASSUME Inv, NEW p \in Proc, FaultMap(p)
    PROVE  Good(p) /\ ppid' = ppid
<1>1. /\ Typed /\ m \in Mem /\ call \in [Proc -> CallRec] /\ win \in [{"load", "fault"} -> Frame \cup {None}]
      /\ half \in SUBSET Live /\ jumped \in SUBSET Live /\ limit \in [Proc -> Int]
      /\ (\A c \in Live : limit[c] \in Bottom .. Top) /\ call[p].op = "fault" /\ call' = [call EXCEPT ![p] = Idle]
  BY TypeFacts DEF FaultMap, Leave, Inv
<1>2. /\ ~Loading(p) /\ p \in Live /\ st[p] = "live" /\ Roots(p) = {cr3[p]}
      /\ call[p].root = cr3[p] /\ call[p].at \in Bottom .. limit[p] - 1
  BY <1>1, InCall
<1>3. CASE Release(p)
  BY <1>1, <1>2, <1>3, ReleaseGood
<1>4. CASE /\ First(m) # 0 /\ MapThrough(p)
           /\ limit' = [limit EXCEPT ![p] = call[p].at]
           /\ jumped' = IF call[p].at < limit[p] - 1 THEN jumped \cup {p} ELSE jumped
           /\ UNCHANGED <<st, cr3, heapEnd, ppid, half, loads, win>>
  <2>1. PICK r \in Roots(p) : r = cr3[p] /\ r \in Frame /\ r = call[p].root
    BY <1>1, <1>2, RootsAreFrames
  <2>2. PICK v \in VPage : v = call[p].at /\ v = Page(call[p]) /\ v \in Int /\ v \in Bottom .. Top /\ v <= limit[p] - 1
    <3>1. Page(call[p]) = call[p].at
      BY <1>1 DEF Page
    <3>2. limit[p] \in Bottom .. Top /\ Bottom \in Nat /\ Top \in Nat
      BY <1>1, <1>2, Layout
    <3>. QED
      BY <1>2, <3>1, <3>2, Layout
  <2>3. /\ m' \in Mem /\ (m.short => m'.short) /\ crossed' \in BOOLEAN /\ (crossed => crossed')
        /\ Sober /\ ~crossed' /\ Sound(m, r) => Grown(m, m', r, {v}) /\ v \in Mapped(m', r)
    BY <1>4, <2>1, <2>2, MapThroughIs
  <2>4. call' \in [Proc -> CallRec] /\ call'[p] = Idle /\ (\A c \in Proc \ {p} : call'[c] = call[c]) /\ ~Loading(p)'
    BY <1>1, IdleIs, CallSet DEF Loading
  <2>5. CallOK(p)' /\ Ready(p)'
    BY <2>4, IdleIs DEF CallOK, Ready
  <2>6. limit' \in [Proc -> Int] /\ limit'[p] = v /\ \A c \in Proc \ {p} : limit'[c] = limit[c]
    BY <1>1, <1>4, <2>2
  <2>7. Typed' /\ ActsFor(p)
    BY <1>1, <1>2, <1>4, <2>2, <2>3, <2>4, <2>5, <2>6, TypesKept, TypeFacts
  <2>8. ASSUME Sober, ~crossed' PROVE Moves(p)
    <3>1. Sound(m, r) /\ Ready(p) /\ Whole(p)
      BY <2>8, InvSpaces
    <3>2. Grown(m, m', r, {v}) /\ v \in Mapped(m', r) /\ v \notin Mapped(m, r)
      BY <1>1, <2>1, <2>2, <2>3, <2>8, <3>1 DEF Ready
    <3>3. Roots(p)' \subseteq Roots(p)
      BY <1>2, <1>4, <2>4 DEF Roots
    <3>4. Settled(p)
      BY <2>3, <2>8, <3>2, <3>3, GrownSettled
    <3>5. \A w \in Mapped(m, r) : w \in Mapped(m', r) /\ Entry(m', r, w) = Entry(m, r, w)
      BY <3>2 DEF Grown
    <3>6. Holds(m, m', r, Ceil(heapEnd[p]) .. Bottom - 1)
      BY <3>5 DEF Holds
    <3>7. Whole(p)'
      <4>. SUFFICES ASSUME p \notin half PROVE Promised(heapEnd[p], StackFrom(p)') \subseteq Mapped(m', r)
        BY <1>4, <2>1 DEF Whole
      <4>1. Promised(heapEnd[p], StackFrom(p)) \subseteq Mapped(m, r)
        BY <1>2, <2>1, <3>1 DEF Whole
      <4>2. limit[p] \in Int /\ Top \in Int
        BY <1>1, Layout
      <4>3. CASE p \in jumped'
        <5>1. StackFrom(p)' = Top + 1 /\ Top + 1 .. Top = {}
          BY <4>2, <4>3 DEF StackFrom
        <5>. QED
          BY <3>5, <4>1, <5>1 DEF Promised
      <4>4. CASE p \notin jumped'
        <5>1. p \notin jumped /\ v = limit[p] - 1
          BY <1>4, <2>2, <4>2, <4>4
        <5>2. StackFrom(p)' = v /\ StackFrom(p) = limit[p]
          BY <2>6, <4>4, <5>1 DEF StackFrom
        <5>3. v .. Top \subseteq {v} \cup (limit[p] .. Top)
          BY <2>2, <4>2, <5>1
        <5>4. Promised(heapEnd[p], v) \subseteq {v} \cup Promised(heapEnd[p], limit[p])
          BY <5>3 DEF Promised
        <5>. QED
          BY <3>2, <3>5, <4>1, <5>2, <5>4
      <4>. QED
        BY <4>3, <4>4
    <3>. QED
      BY <2>1, <2>5, <3>4, <3>6, <3>7 DEF Moves, Keeps
  <2>. QED
    BY <1>4, <2>3, <2>7, <2>8 DEF Good, Sober
<1>. QED
  BY <1>3, <1>4 DEF FaultMap

-----------------------------------------------------------------------------
(* The theorems.                                                           *)

\* The memory of a fresh child is that of its parent.
Copied == \A c \in Proc : ppid'[c] # ppid[c] => Mapped(m', cr3'[c]) = Mapped(m, cr3[ppid'[c]])

\* What a step shows besides the invariant.
StepKeeps == (Sober /\ ~crossed' => Kept) /\ (Sober => Copied)

LEMMA InitInv == Init => Inv
<1>. SUFFICES ASSUME Init PROVE Inv
  OBVIOUS
<1>1. Live = {}
  BY DEF Init, Live
<1>2. 0 \in Frame /\ 0 \in 0 .. Bottom * Unit /\ 0 \in Int
  <2>1. Bottom \in Nat /\ Unit \in Nat /\ 0 \in Frame
    BY Layout
  <2>2. Bottom * Unit \in Nat
    BY <2>1
  <2>. QED
    BY <2>1, <2>2
<1>3. m \in Mem /\ 0 \in m.used
  <2>1. NoTables \in [Part -> Frame \cup {None}] /\ NoPages \in [VPage -> Frame \cup {None}]
    BY DEF NoTables, NoPages
  <2>. QED
    BY <1>2, <2>1 DEF Init, Mem
<1>4. call \in [Proc -> CallRec] /\ \A p \in Proc : call[p] = Idle /\ ~Loading(p) /\ call[p].op = "idle"
  BY IdleIs DEF Init, Loading
<1>5. Typed
  <2>1. \A p \in Proc : CallOK(p)
    BY <1>4 DEF CallOK
  <2>. QED
    BY <1>1, <1>2, <1>3, <1>4, <2>1 DEF Typed, TypeOK, Init, Mem, CallRec
<1>6. \A p \in Proc : Roots(p) = {} /\ Whole(p) /\ Ready(p)
  BY <1>1, <1>4 DEF Roots, Whole, Ready, Live
<1>. QED
  BY <1>3, <1>5, <1>6 DEF Inv, Isolated

LEMMA NextInv == Inv /\ [Next]_vars => Inv' /\ StepKeeps
<1>. SUFFICES ASSUME Inv, [Next]_vars PROVE Inv' /\ StepKeeps
  OBVIOUS
<1>1. ppid \in [Proc -> Proc \cup {NoOne}]
  BY TypeFacts DEF Inv
<1>2. ASSUME NEW p \in Proc, Good(p), ppid' = ppid PROVE Inv' /\ StepKeeps
  <2>1. Copied
    BY <1>2 DEF Copied
  <2>. QED
    BY <1>2, <2>1, StepSafe DEF StepKeeps
<1>3. CASE UNCHANGED vars
  <2>0. /\ m' = m /\ st' = st /\ cr3' = cr3 /\ heapEnd' = heapEnd /\ limit' = limit /\ ppid' = ppid /\ half' = half
        /\ loads' = loads /\ win' = win /\ call' = call /\ jumped' = jumped /\ crossed' = crossed
    BY <1>3 DEF vars
  <2>3. \A p \in Proc : Loading(p)' = Loading(p)
    BY <2>0 DEF Loading
  <2>4. \A p \in Proc : Roots(p)' = Roots(p)
    BY <2>0, <2>3 DEF Roots
  <2>5. Sober' = Sober /\ Live' = Live
    BY <2>0 DEF Sober, Live
  <2>6. Isolated' = Isolated
    BY <2>0, <2>4 DEF Isolated
  <2>7. \A p \in Proc : Whole(p)' = Whole(p)
    BY <2>0, <2>5 DEF Whole, StackFrom
  <2>8. \A p \in Proc : Ready(p)' = Ready(p)
    BY <2>0, <2>3 DEF Ready
  <2>9. \A p \in Proc : CallOK(p)' = CallOK(p)
    BY <2>0 DEF CallOK
  <2>10. TypeOK'
    BY <2>0, <2>5, Zenon DEF Inv, Typed, TypeOK
  <2>11. Typed'
    BY <2>0, <2>9, <2>10 DEF Inv, Typed
  <2>1. Inv'
    BY <2>5, <2>6, <2>7, <2>8, <2>11 DEF Inv
  <2>2. Kept /\ Copied
    BY <1>3 DEF vars, Kept, Holds, Copied
  <2>. QED
    BY <2>1, <2>2 DEF StepKeeps
<1>4. ASSUME NEW p \in Proc, NEW k \in Loads, LoadBegin(p, "create", k) \/ LoadBegin(p, "exec", k)
      PROVE  Inv' /\ StepKeeps
  BY <1>2, <1>4, LoadBeginGood
<1>5. ASSUME NEW p \in Proc, Fill(p) \/ LoadMap(p) \/ CreateEnd(p) \/ ExecEnd(p) \/ FaultMap(p)
      PROVE  Inv' /\ StepKeeps
  BY <1>2, <1>5, FillGood, LoadMapGood, CreateEndGood, ExecEndGood, FaultMapGood
<1>6. ASSUME NEW p \in Proc, NEW c \in Proc, NEW k, Fork(p, c, k)
      PROVE  Inv' /\ StepKeeps
  <2>1. Good(c) /\ (ppid' = ppid \/ (ppid' = [ppid EXCEPT ![c] = p] /\ (Sober => Mapped(m', cr3'[c]) = Mapped(m, cr3[p]))))
    BY <1>6, ForkGood
  <2>2. CASE ppid' = ppid
    BY <1>2, <2>1, <2>2
  <2>3. CASE ppid' = [ppid EXCEPT ![c] = p] /\ (Sober => Mapped(m', cr3'[c]) = Mapped(m, cr3[p]))
    <3>1. ppid'[c] = p /\ \A d \in Proc \ {c} : ppid'[d] = ppid[d]
      BY <1>1, <2>3
    <3>2. Sober => Copied
      BY <2>3, <3>1 DEF Copied
    <3>. QED
      BY <2>1, <3>2, StepSafe DEF StepKeeps
  <2>. QED
    BY <2>1, <2>2, <2>3
<1>7. ASSUME NEW p \in Proc, NEW new \in HeapBase * Unit .. Bottom * Unit, Brk(p, new)
      PROVE  Inv' /\ StepKeeps
  BY <1>2, <1>7, BrkGood
<1>8. ASSUME NEW p \in Proc, NEW v \in Bottom .. Top, FaultBegin(p, v)
      PROVE  Inv' /\ StepKeeps
  BY <1>2, <1>8, FaultBeginGood
<1>9. ASSUME NEW p \in Proc, Exit(p)
      PROVE  Inv' /\ StepKeeps
  <2>1. p \in Live /\ Release(p) /\ Free(p) /\ call' = call /\ call \in [Proc -> CallRec] /\ ~Loading(p)
    BY <1>9, TypeFacts, InCall DEF Exit, Live, Inv
  <2>2. call' = [call EXCEPT ![p] = Idle]
    BY <2>1 DEF Free
  <2>. QED
    BY <1>2, <2>1, <2>2, ReleaseGood
<1>. QED
  BY <1>3, <1>4, <1>5, <1>6, <1>7, <1>8, <1>9 DEF Next

LEMMA AlwaysInv == Spec => []Inv
BY InitInv, NextInv, PTL DEF Spec

\* A sound space uses each of its frames once.
LEMMA UsedOnce ==
    ASSUME m \in Mem, NEW r \in Frame, Sound(m, r), NEW f \in UserFrames(m, r) \cup {r}
    PROVE  f \in Owned(m, r) /\ f \in m.used /\ UsesOf(r, f) = 1
<1>1. Sound(m, r)
  OBVIOUS
<1>2. m \in Mem
  OBVIOUS
<1>. DEFINE D == {q \in Part : m.dir[r][q] = f}
            E == {v \in Mapped(m, r) : Entry(m, r, v) = f}
<1>3. UsesOf(r, f) = Cardinality(D) + Cardinality(E) + IF r = f THEN 1 ELSE 0
  BY <1>1 DEF UsesOf, Entry
<1>4. Cardinality({}) = 0 /\ \A x : Cardinality({x}) = 1
  BY FS_EmptySet, FS_Singleton
<1>5. \A q \in Part : m.dir[r][q] # None => m.dir[r][q] \in m.used \ {0, r} /\ m.dir[r][q] \in Frame
  BY <1>1, <1>2 DEF Sound, TablesMarked, Mem
<1>6. ASSUME NEW v \in Mapped(m, r)
      PROVE  /\ Entry(m, r, v) \in m.used \ {0, r} /\ Entry(m, r, v) \in Frame
             /\ \A q \in Part : m.dir[r][q] # Entry(m, r, v)
  <2>1. v \in VPage /\ PartOf(v) \in Part /\ m.dir[r][PartOf(v)] # None /\ Entry(m, r, v) # None
    BY Layout DEF Mapped, Entry
  <2>2. EntryMarked(m, r, PartOf(v), v)
    BY <1>1, <2>1 DEF Sound
  <2>3. m.dir[r][PartOf(v)] \in Frame
    BY <1>5, <2>1
  <2>. QED
    BY <1>2, <2>1, <2>2, <2>3 DEF EntryMarked, Entry, Mem
<1>7. r \in m.used
  BY <1>1 DEF Sound, RootMarked
<1>8. CASE f = r
  <2>1. D = {} /\ E = {}
    BY <1>5, <1>6, <1>8, Layout
  <2>. QED
    BY <1>1, <1>3, <1>4, <1>7, <1>8, <2>1 DEF Owned
<1>9. CASE \E q \in Part : m.dir[r][q] = f /\ f # None
  <2>1. PICK q \in Part : m.dir[r][q] = f /\ f # None
    BY <1>9
  <2>2. D = {q}
    BY <1>1, <2>1 DEF Sound, TablesMarked
  <2>3. E = {}
    BY <1>6, <2>1
  <2>4. f # r /\ f \in m.used /\ f \in Frame
    BY <1>5, <2>1
  <2>5. f \in Owned(m, r)
    BY <2>1, <2>4 DEF Owned
  <2>6. Cardinality(D) = 1 /\ Cardinality(E) = 0
    BY <1>4, <2>2, <2>3, Zenon
  <2>. HIDE DEF D, E
  <2>. QED
    BY <1>1, <1>3, <2>4, <2>5, <2>6
<1>10. CASE \E v \in Mapped(m, r) : Entry(m, r, v) = f
  <2>1. PICK v \in Mapped(m, r) : Entry(m, r, v) = f
    BY <1>10
  <2>2. E = {v}
    BY <1>1, <2>1 DEF Sound, PagesOnce
  <2>3. D = {} /\ f # r /\ f \in m.used /\ f \in Frame
    BY <1>6, <2>1
  <2>4. f \in Owned(m, r)
    BY <2>1, <2>3, Layout DEF Owned, Mapped, Entry
  <2>5. Cardinality(D) = 0 /\ Cardinality(E) = 1
    BY <1>4, <2>2, <2>3, Zenon
  <2>. HIDE DEF D, E
  <2>. QED
    BY <1>1, <1>3, <2>3, <2>4, <2>5
<1>11. f \in UserFrames(m, r) => \/ \E q \in Part : m.dir[r][q] = f /\ f # None
                                 \/ \E v \in Mapped(m, r) : Entry(m, r, v) = f
  <2>1. ASSUME NEW q \in Part, f \in PagesIn(m, r, q) PROVE \E v \in Mapped(m, r) : Entry(m, r, v) = f
    <3>1. m.dir[r][q] # None
      BY <2>1 DEF PagesIn
    <3>2. PICK v \in VPage : f = m.tab[m.dir[r][q]][v] /\ f # None
      BY <2>1, <3>1 DEF PagesIn
    <3>3. PartOf(v) = q
      BY <1>1, <3>1, <3>2 DEF Sound, EntryMarked
    <3>. QED
      BY <3>1, <3>2, <3>3 DEF Mapped, Entry
  <2>2. f \in Tables(m, r) => \E q \in Part : m.dir[r][q] = f /\ f # None
    BY DEF Tables
  <2>. QED
    BY <2>1, <2>2 DEF UserFrames
<1>. QED
  BY <1>1, <1>8, <1>9, <1>10, <1>11

\* A frame outside a space has no use in it.
LEMMA NotUsed ==
    ASSUME NEW r \in Frame, NEW f \in Frame, f \notin Owned(m, r)
    PROVE  UsesOf(r, f) = 0
<1>. DEFINE D == {q \in Part : m.dir[r][q] = f}
            E == {v \in Mapped(m, r) : m.tab[m.dir[r][PartOf(v)]][v] = f}
<1>2. D = {} /\ r # f
  BY DEF Owned
<1>3. E = {}
  BY Layout DEF Owned, Mapped
<1>4. UsesOf(r, f) = Cardinality(D) + Cardinality(E) + IF r = f THEN 1 ELSE 0
  BY DEF UsesOf
<1>5. Cardinality(D) = 0 /\ Cardinality(E) = 0
  BY <1>2, <1>3, FS_EmptySet, Zenon
<1>. HIDE DEF D, E
<1>. QED
  BY <1>2, <1>4, <1>5

LEMMA InvExclusive == Inv => TypeOK /\ FramesExclusive
<1>. SUFFICES ASSUME Inv, Sober, NEW p \in Proc, NEW r \in Roots(p), NEW f \in UserFrames(m, r) \cup {r}
              PROVE  /\ f \in m.used /\ UsesOf(r, f) = 1
                     /\ \A c \in Proc : \A s \in Roots(c) : c # p \/ s # r => UsesOf(s, f) = 0
  BY DEF Inv, Typed, FramesExclusive
<1>1. r \in Frame /\ m \in Mem /\ Sound(m, r)
  BY InvSpaces
<1>2. f \in Owned(m, r) /\ f \in m.used /\ UsesOf(r, f) = 1
  BY <1>1, UsedOnce
<1>3. f \in Frame
  BY <1>2 DEF Owned
<1>4. ASSUME NEW c \in Proc, NEW s \in Roots(c), c # p \/ s # r PROVE UsesOf(s, f) = 0
  <2>1. Apart(m, r, s) /\ s \in Frame
    BY <1>4, InvSpaces
  <2>. QED
    BY <1>2, <1>3, <2>1, NotUsed DEF Apart
<1>. QED
  BY <1>2, <1>4

\* Address spaces are isolated and complete, for any processes, frames, sizes and
\* stack accesses: until page 0 is taken for a table or two cores meet in a window,
\* each frame of a space is marked in the bitmap and has one use, in that space
\* only; what brk granted is there; and the stack has no holes but those the
\* program has jumped over.
THEOREM SpacesAreSafe == Spec => []SpacesSafe
<1>1. Inv => RegionsWhole
  <2>. SUFFICES ASSUME Inv, Sober, NEW p \in Live \ half
                PROVE  /\ HeapBase .. Ceil(heapEnd[p]) - 1 \subseteq Mapped(m, cr3[p])
                       /\ p \notin jumped => limit[p] .. Top \subseteq Mapped(m, cr3[p])
    BY DEF RegionsWhole
  <2>1. p \in Proc
    BY DEF Live
  <2>2. Promised(heapEnd[p], StackFrom(p)) \subseteq Mapped(m, cr3[p])
    BY <2>1, InvSpaces DEF Whole
  <2>. QED
    BY <2>2 DEF Promised, StackFrom
<1>2. Inv => SpacesSafe
  BY <1>1, InvExclusive DEF SpacesSafe
<1>. QED
  BY <1>2, AlwaysInv, PTL

\* Unless two cores meet in a window, no load, system call or fault of one process
\* changes the memory of another, and a failing brk leaves what was below the old
\* break.
THEOREM MemoryIsKept == Spec => KeepsMemory
<1>1. Inv /\ [Next]_vars => [Sober /\ ~crossed' => \A p \in Live : st'[p] = "live" /\ cr3'[p] = cr3[p] =>
          \A v \in Mapped(m, cr3[p]) \ (Ceil(heapEnd[p]) .. Bottom - 1) :
              v \in Mapped(m', cr3[p]) /\ Entry(m', cr3[p], v) = Entry(m, cr3[p], v)]_vars
  BY NextInv DEF StepKeeps, Kept, Holds
<1>. QED
  BY <1>1, AlwaysInv, PTL DEF Spec, KeepsMemory

\* A child that fork returns has every page of its parent.
THEOREM ForkIsComplete == Spec => ForkCopiesAll
<1>1. Inv /\ [Next]_vars => [Sober => \A c \in Proc : ppid'[c] # ppid[c] =>
          Mapped(m', cr3'[c]) = Mapped(m, cr3[ppid'[c]])]_vars
  BY NextInv DEF StepKeeps, Copied
<1>. QED
  BY <1>1, AlwaysInv, PTL DEF Spec, ForkCopiesAll
=============================================================================
