-------------------------- MODULE TcpStreamProofs --------------------------
(***************************************************************************)
(* Proof that the streams of Tcp are whole and in order, for any number of *)
(* programs, sockets and remote hosts and any ring that is larger than the *)
(* window of a SYN.                                                        *)
(*                                                                         *)
(* The streams need to know, of every connection, what is on its way in    *)
(* both directions (Flow): who has asked whom, which segments can still    *)
(* be heard, that the bytes read, stored and on the wire follow each other *)
(* (Inward, Outward), and that no window promises more than there is.      *)
(***************************************************************************)
EXTENDS TcpProofs

-----------------------------------------------------------------------------
(* The streams.  Numbers a + 1 .. b, one after the other.                  *)

Span(s, a, b) == s \in Seq(Int) /\ Len(s) = b - a /\ \A k \in 1 .. Len(s) : s[k] = a + k

\* Spans that meet make a span.
LEMMA SpanJoin ==
    ASSUME NEW s, NEW t, NEW a \in Int, NEW b \in Int, NEW c \in Int, Span(s, a, b), Span(t, b, c)
    PROVE  Span(s \o t, a, c)
<1>1. s \in Seq(Int) /\ t \in Seq(Int) /\ Len(s) = b - a /\ Len(t) = c - b
  BY DEF Span
<1>2. s \o t \in Seq(Int) /\ Len(s \o t) = Len(s) + Len(t)
  BY <1>1, SMTT(30)
<1>3. ASSUME NEW k \in 1 .. Len(s \o t) PROVE (s \o t)[k] = a + k
  <2>1. CASE k <= Len(s)
    BY <1>1, <1>2, <2>1 DEF Span
  <2>2. CASE k > Len(s)
    <3>1. PICK j \in 1 .. Len(t) : k = Len(s) + j
      <4>1. k - Len(s) \in 1 .. Len(t) /\ k = Len(s) + (k - Len(s))
        BY <1>1, <1>2, <2>2
      <4>. QED
        BY <4>1
    <3>2. (s \o t)[k] = t[j] /\ t[j] = b + j
      BY <1>1, <1>2, <2>2, <3>1 DEF Span
    <3>. QED
      BY <1>1, <3>1, <3>2
  <2>. QED
    BY <1>1, <1>2, <2>1, <2>2, SMTT(30)
<1>. QED
  BY <1>1, <1>2, <1>3 DEF Span

\* A span can be cut anywhere.
LEMMA SpanSplit ==
    ASSUME NEW s \in Seq(Int), NEW t \in Seq(Int), NEW a \in Int, NEW c \in Int, Span(s \o t, a, c)
    PROVE  Span(s, a, a + Len(s)) /\ Span(t, a + Len(s), c)
<1>1. s \o t \in Seq(Int) /\ Len(s \o t) = Len(s) + Len(t) /\ Len(s) \in Nat /\ Len(t) \in Nat
  OBVIOUS
<1>2. ASSUME NEW k \in 1 .. Len(s) PROVE s[k] = a + k
  <2>1. (s \o t)[k] = s[k] /\ k \in 1 .. Len(s \o t)
    BY <1>1
  <2>. QED
    BY <2>1 DEF Span
<1>3. ASSUME NEW k \in 1 .. Len(t) PROVE t[k] = a + Len(s) + k
  <2>1. PICK j \in 1 .. Len(s \o t) : j = Len(s) + k
    BY <1>1, SMTT(30)
  <2>2. (s \o t)[j] = t[k]
    BY <1>1, <2>1
  <2>3. (s \o t)[j] = a + j
    BY <2>1 DEF Span
  <2>. QED
    BY <1>1, <2>1, <2>2, <2>3
<1>4. c - (a + Len(s)) = Len(t)
  BY <1>1 DEF Span
<1>. QED
  BY <1>1, <1>2, <1>3, <1>4 DEF Span

\* Nothing is a span.
LEMMA SpanEmpty == ASSUME NEW a \in Int PROVE Span(<<>>, a, a)
BY DEF Span

\* A span from 0 is Upto.
LEMMA SpanUpto ==
    ASSUME NEW s, NEW n \in Int, Span(s, 0, n)
    PROVE  s = Upto(n)
<1>1. s \in [1 .. Len(s) -> Int] /\ Len(s) = n
  BY DEF Span
<1>2. s = [k \in 1 .. n |-> s[k]] /\ \A k \in 1 .. n : s[k] = k
  BY <1>1 DEF Span
<1>. QED
  BY <1>2 DEF Upto

\* Induction, over a set.
LEMMA Induction ==
    ASSUME NEW S, 0 \in S, \A n \in Nat : n \in S => n + 1 \in S
    PROVE  \A n \in Nat : n \in S
<1>. SUFFICES ASSUME NEW k \in Nat, k \notin S PROVE FALSE
  OBVIOUS
<1>1. PICK x : x = Min(Nat \ S)
  OBVIOUS
<1>2. x \in Nat \ S /\ \A y \in Nat \ S : x <= y
  BY <1>1, MinIsIn
<1>3. x - 1 \in Nat /\ (x - 1) + 1 = x /\ ~(x <= x - 1)
  BY <1>2
<1>. QED
  BY <1>2, <1>3

\* The data of the first segments of w, for each number of them.
Sums(w, f) ==
    /\ f \in [0 .. Len(w) -> Seq(Int)] /\ f[0] = <<>>
    /\ \A k \in 1 .. Len(w) : f[k] = f[k - 1] \o w[k].seg.data

\* What is on a line is typed.
LEMMA DataIn ==
    ASSUME NEW w \in Seq(Wire), NEW k \in 1 .. Len(w)
    PROVE  w[k] \in Wire /\ w[k].port \in Int /\ w[k].seg \in SegRec /\ w[k].seg.data \in Seq(Int)
<1>1. w[k] \in Wire
  OBVIOUS
<1>2. w[k].seg \in SegRec /\ w[k].port \in Int
  BY <1>1 DEF Wire
<1>. QED
  BY <1>1, <1>2, SegFields

\* Every line has its running sums,
LEMMA SumsExist ==
    ASSUME NEW w \in Seq(Wire)
    PROVE  \E f : Sums(w, f)
<1>. DEFINE Ok(f, n) == /\ f \in [0 .. n -> Seq(Int)] /\ f[0] = <<>>
                        /\ \A k \in 1 .. n : f[k] = f[k - 1] \o w[k].seg.data
            E == {n \in Nat : n <= Len(w) => \E f : Ok(f, n)}
<1>0. Len(w) \in Nat
  OBVIOUS
<1>1. 0 \in E
  <2>1. <<>> \in Seq(Int)
    OBVIOUS
  <2>2. Ok([k \in 0 .. 0 |-> <<>>], 0)
    BY <2>1
  <2>. QED
    BY <2>2
<1>2. ASSUME NEW n \in Nat, n \in E PROVE n + 1 \in E
  <2>. HIDE DEF Ok
  <2>. SUFFICES ASSUME n + 1 <= Len(w) PROVE \E f : Ok(f, n + 1)
    OBVIOUS
  <2>1. PICK f : Ok(f, n)
    <3>1. n <= Len(w)
      BY <1>0
    <3>. QED
      BY <1>2, <3>1
  <2>. USE DEF Ok
  <2>2. PICK d \in Seq(Int) : d = w[n + 1].seg.data
    <3>1. n + 1 \in 1 .. Len(w)
      BY <1>0
    <3>. QED
      BY <3>1, DataIn
  <2>3. f[n] \in Seq(Int) /\ f[n] \o d \in Seq(Int)
    BY <2>1
  <2>4. PICK c \in Seq(Int) : c = f[n] \o d
    BY <2>3
  <2>. DEFINE h == [k \in 0 .. n + 1 |-> IF k = n + 1 THEN c ELSE f[k]]
  <2>5. h \in [0 .. n + 1 -> Seq(Int)] /\ h[0] = <<>>
    BY <2>1
  <2>6. ASSUME NEW k \in 1 .. n + 1 PROVE h[k] = h[k - 1] \o w[k].seg.data
    <3>1. CASE k = n + 1
      <4>1. h[n + 1] = c /\ n \in 0 .. n + 1 /\ n # n + 1 /\ (n + 1) - 1 = n
        OBVIOUS
      <4>2. h[n] = f[n]
        BY <4>1
      <4>. QED
        BY <2>2, <2>4, <3>1, <4>1, <4>2
    <3>2. CASE k # n + 1
      <4>1. k \in 1 .. n /\ k - 1 \in 0 .. n + 1 /\ k - 1 # n + 1 /\ k \in 0 .. n + 1
        BY <3>2
      <4>2. h[k] = f[k] /\ h[k - 1] = f[k - 1]
        BY <4>1
      <4>. QED
        BY <2>1, <4>1, <4>2
    <3>. QED
      BY <3>1, <3>2
  <2>. HIDE DEF h
  <2>7. Ok(h, n + 1)
    BY <2>5, <2>6
  <2>. HIDE DEF Ok
  <2>. QED
    BY <2>7
<1>. HIDE DEF E, Ok
<1>3. \A n \in Nat : n \in E
  BY <1>1, <1>2, Induction
<1>4. \E f : Ok(f, Len(w))
  BY <1>0, <1>3 DEF E
<1>. QED
  BY <1>4 DEF Sums, Ok

\* and only these,
LEMMA SumsUnique ==
    ASSUME NEW w \in Seq(Wire), NEW f, NEW g, Sums(w, f), Sums(w, g)
    PROVE  f = g
<1>. DEFINE A == {n \in Nat : n <= Len(w) => f[n] = g[n]}
<1>0. Len(w) \in Nat
  OBVIOUS
<1>1. 0 \in A
  BY DEF Sums
<1>2. ASSUME NEW n \in Nat, n \in A PROVE n + 1 \in A
  <2>. SUFFICES ASSUME n + 1 <= Len(w) PROVE f[n + 1] = g[n + 1]
    OBVIOUS
  <2>1. n + 1 \in 1 .. Len(w) /\ (n + 1) - 1 = n /\ f[n] = g[n]
    BY <1>0, <1>2
  <2>. QED
    BY <2>1 DEF Sums
<1>. HIDE DEF A
<1>3. \A n \in Nat : n \in A
  BY <1>1, <1>2, Induction
<1>4. \A n \in 0 .. Len(w) : f[n] = g[n]
  BY <1>0, <1>3 DEF A
<1>. QED
  BY <1>4 DEF Sums

\* so that Bytes is the last of them.
LEMMA BytesAre ==
    ASSUME NEW w \in Seq(Wire), NEW f, Sums(w, f)
    PROVE  Bytes(w) = f[Len(w)]
<1>. DEFINE U(u) == u = [k \in 0 .. Len(w) |-> IF k = 0 THEN <<>> ELSE u[k - 1] \o w[k].seg.data]
<1>0. Len(w) \in Nat
  OBVIOUS
<1>1. U(f)
  <2>1. \A k \in 0 .. Len(w) : f[k] = IF k = 0 THEN <<>> ELSE f[k - 1] \o w[k].seg.data
    <3>1. ASSUME NEW k \in 0 .. Len(w), k # 0 PROVE f[k] = f[k - 1] \o w[k].seg.data
      <4>1. k \in 1 .. Len(w)
        BY <1>0, <3>1
      <4>. QED
        BY <4>1 DEF Sums
    <3>2. f[0] = <<>>
      BY DEF Sums
    <3>. QED
      BY <3>1, <3>2
  <2>2. f = [k \in 0 .. Len(w) |-> f[k]]
    BY DEF Sums
  <2>. QED
    BY <2>1, <2>2
<1>2. ASSUME NEW u, U(u) PROVE Sums(w, u)
  <2>. DEFINE A == {n \in Nat : n <= Len(w) => u[n] \in Seq(Int)}
  <2>1. 0 \in A
    BY <1>0, <1>2
  <2>2. ASSUME NEW n \in Nat, n \in A PROVE n + 1 \in A
    <3>. SUFFICES ASSUME n + 1 <= Len(w) PROVE u[n + 1] \in Seq(Int)
      OBVIOUS
    <3>1. n + 1 \in 1 .. Len(w) /\ n + 1 \in 0 .. Len(w) /\ (n + 1) - 1 = n /\ n + 1 # 0 /\ u[n] \in Seq(Int)
      BY <1>0, <2>2
    <3>2. PICK d \in Seq(Int) : d = w[n + 1].seg.data
      BY <3>1, DataIn, SMTT(30)
    <3>3. u[n + 1] = u[n] \o d
      BY <1>2, <3>1, <3>2
    <3>. QED
      BY <3>1, <3>3
  <2>. HIDE DEF A
  <2>3. \A n \in Nat : n \in A
    BY <2>1, <2>2, Induction
  <2>4. \A n \in 0 .. Len(w) : u[n] \in Seq(Int)
    BY <1>0, <2>3 DEF A
  <2>5. u \in [0 .. Len(w) -> Seq(Int)]
    BY <1>2, <2>4
  <2>6. u[0] = <<>>
    BY <1>0, <1>2, SMTT(30)
  <2>7. ASSUME NEW k \in 1 .. Len(w) PROVE u[k] = u[k - 1] \o w[k].seg.data
    BY <1>0, <1>2
  <2>. QED
    BY <2>5, <2>6, <2>7 DEF Sums
<1>. DEFINE c == CHOOSE u : U(u)
<1>3. U(c)
  BY <1>1, Zenon
<1>4. Bytes(w) = c[Len(w)]
  BY DEF Bytes
<1>. HIDE DEF c, U
<1>. QED
  BY <1>2, <1>3, <1>4, SumsUnique

\* Bytes is a sequence of numbers.
LEMMA BytesTyped ==
    ASSUME NEW w \in Seq(Wire)
    PROVE  Bytes(w) \in Seq(Int) /\ (w = <<>> => Bytes(w) = <<>>)
<1>1. PICK f : Sums(w, f)
  BY SumsExist
<1>2. Bytes(w) = f[Len(w)] /\ Len(w) \in Nat
  BY <1>1, BytesAre
<1>. QED
  BY <1>1, <1>2 DEF Sums

\* What Bytes makes of a segment put on the line,
LEMMA BytesAppend ==
    ASSUME NEW w \in Seq(Wire), NEW x \in Wire
    PROVE  Bytes(Append(w, x)) = Bytes(w) \o x.seg.data
<1>1. PICK v \in Seq(Wire), n \in Nat :
          /\ v = Append(w, x) /\ n = Len(w) /\ Len(v) = n + 1 /\ v[n + 1] = x
          /\ \A k \in 1 .. n : v[k] = w[k]
  <2>1. Len(w) \in Nat
    OBVIOUS
  <2>2. /\ Append(w, x) \in Seq(Wire) /\ Len(Append(w, x)) = Len(w) + 1
        /\ Append(w, x)[Len(w) + 1] = x /\ \A k \in 1 .. Len(w) : Append(w, x)[k] = w[k]
    OBVIOUS
  <2>. QED
    BY <2>1, <2>2
<1>2. PICK f : Sums(v, f)
  BY SumsExist
<1>. DEFINE g == [k \in 0 .. n |-> f[k]]
<1>3. Sums(w, g)
  <2>1. g \in [0 .. Len(w) -> Seq(Int)]
    BY <1>1, <1>2 DEF Sums
  <2>2. g[0] = <<>>
    BY <1>2 DEF Sums
  <2>3. ASSUME NEW k \in 1 .. Len(w) PROVE g[k] = g[k - 1] \o w[k].seg.data
    <3>1. k \in 1 .. Len(v) /\ k \in 1 .. n /\ k - 1 \in 0 .. n /\ k \in 0 .. n
      BY <1>1
    <3>2. f[k] = f[k - 1] \o v[k].seg.data
      BY <1>2, <3>1 DEF Sums
    <3>. QED
      BY <1>1, <3>1, <3>2
  <2>. QED
    BY <2>1, <2>2, <2>3 DEF Sums
<1>4. Bytes(w) = f[n] /\ Bytes(v) = f[n + 1]
  BY <1>1, <1>2, <1>3, BytesAre, SMTT(30)
<1>5. f[n + 1] = f[n] \o x.seg.data
  <2>1. n + 1 \in 1 .. Len(v) /\ (n + 1) - 1 = n
    BY <1>1
  <2>. QED
    BY <1>1, <1>2, <2>1 DEF Sums
<1>. QED
  BY <1>1, <1>4, <1>5

\* and of the segment taken off it.
LEMMA BytesHead ==
    ASSUME NEW w \in Seq(Wire), w # <<>>
    PROVE  Bytes(w) = Head(w).seg.data \o Bytes(Tail(w))
<1>1. PICK v \in Seq(Wire), n \in Nat :
          /\ v = Tail(w) /\ n = Len(v) /\ Len(w) = n + 1 /\ \A k \in 1 .. n : v[k] = w[k + 1]
  <2>1. Tail(w) \in Seq(Wire) /\ Len(Tail(w)) \in Nat /\ Len(w) = Len(Tail(w)) + 1
        /\ \A k \in 1 .. Len(Tail(w)) : Tail(w)[k] = w[k + 1]
    BY HeadTailProperties
  <2>. QED
    BY <2>1, Zenon
<1>2. PICK x \in Wire, d \in Seq(Int) : x = Head(w) /\ x = w[1] /\ d = x.seg.data
  <2>1. Head(w) = w[1] /\ 1 \in 1 .. Len(w)
    BY <1>1
  <2>. QED
    BY <2>1, DataIn
<1>3. PICK f, g : Sums(w, f) /\ Sums(v, g)
  BY SumsExist
<1>. DEFINE A == {k \in Nat : k <= n => f[k + 1] = d \o g[k]}
<1>4. 0 \in A
  <2>1. f[1] = f[0] \o d /\ f[0] = <<>> /\ g[0] = <<>>
    <3>1. 1 \in 1 .. Len(w) /\ 1 - 1 = 0
      BY <1>1
    <3>. QED
      BY <1>2, <1>3, <3>1 DEF Sums
  <2>2. <<>> \o d = d /\ d \o <<>> = d
    BY ConcatEmptySeq
  <2>. QED
    BY <2>1, <2>2
<1>5. ASSUME NEW k \in Nat, k \in A PROVE k + 1 \in A
  <2>. SUFFICES ASSUME k + 1 <= n PROVE f[(k + 1) + 1] = d \o g[k + 1]
    OBVIOUS
  <2>1. /\ k <= n /\ k + 1 \in 1 .. n /\ (k + 1) + 1 \in 1 .. Len(w) /\ ((k + 1) + 1) - 1 = k + 1
        /\ (k + 1) - 1 = k /\ k \in 0 .. n
    BY <1>1
  <2>2. PICK e \in Seq(Int) : e = v[k + 1].seg.data
    BY <1>1, <2>1, DataIn
  <2>3. f[(k + 1) + 1] = f[k + 1] \o e
    <3>1. v[k + 1] = w[(k + 1) + 1]
      BY <1>1, <2>1
    <3>. QED
      BY <1>3, <2>1, <2>2, <3>1 DEF Sums
  <2>4. g[k + 1] = g[k] \o e /\ g[k] \in Seq(Int)
    BY <1>1, <1>3, <2>1, <2>2 DEF Sums
  <2>5. f[k + 1] = d \o g[k]
    BY <1>5, <2>1
  <2>6. PICK c \in Seq(Int) : c = g[k]
    BY <2>4
  <2>7. (d \o c) \o e = d \o (c \o e)
    BY ConcatAssociative, SMTT(30)
  <2>. QED
    BY <2>3, <2>4, <2>5, <2>6, <2>7
<1>. HIDE DEF A
<1>6. \A k \in Nat : k \in A
  BY <1>4, <1>5, Induction
<1>7. f[n + 1] = d \o g[n]
  BY <1>6 DEF A
<1>. QED
  BY <1>1, <1>2, <1>3, <1>7, BytesAre

\* A segment is sent: the line goes on where it ended.
LEMMA SpanPut ==
    ASSUME NEW w \in Seq(Wire), NEW x \in Wire, NEW a \in Int, NEW b \in Int, NEW c \in Int,
           Span(Bytes(w), a, b), Span(x.seg.data, b, c)
    PROVE  Span(Bytes(Append(w, x)), a, c)
<1>1. Span(Bytes(w) \o x.seg.data, a, c)
  BY SpanJoin
<1>. QED
  BY <1>1, BytesAppend

\* A segment is taken: its data are the first, and the others follow.
LEMMA SpanTake ==
    ASSUME NEW w \in Seq(Wire), w # <<>>, NEW a \in Int, NEW c \in Int, Span(Bytes(w), a, c)
    PROVE  LET d == Head(w).seg.data
           IN  /\ d \in Seq(Int) /\ Len(d) \in Nat /\ Tail(w) \in Seq(Wire) /\ Bytes(Tail(w)) \in Seq(Int)
               /\ Span(d, a, a + Len(d)) /\ Span(Bytes(Tail(w)), a + Len(d), c)
               /\ Bytes(w) = d \o Bytes(Tail(w))
<1>1. Tail(w) \in Seq(Wire) /\ Head(w) = w[1] /\ 1 \in 1 .. Len(w)
  OBVIOUS
<1>2. PICK d \in Seq(Int) : d = Head(w).seg.data
  BY <1>1, DataIn
<1>3. Bytes(Tail(w)) \in Seq(Int)
  BY <1>1, BytesTyped
<1>4. Bytes(w) = d \o Bytes(Tail(w))
  BY <1>2, BytesHead
<1>5. Span(d, a, a + Len(d)) /\ Span(Bytes(Tail(w)), a + Len(d), c)
  BY <1>3, <1>4, SpanSplit
<1>. QED
  BY <1>1, <1>2, <1>3, <1>4, <1>5

\* The segments on a line, without their order.
LEMMA LineSet ==
    ASSUME NEW w \in Seq(Wire)
    PROVE  /\ ToSet(w) \in SUBSET Wire /\ (w = <<>> => ToSet(w) = {})
           /\ \A x \in Wire : /\ Append(w, x) \in Seq(Wire) /\ ToSet(Append(w, x)) = ToSet(w) \cup {x}
                              /\ Append(w, x) # <<>>
           /\ w # <<>> => /\ Head(w) \in Wire /\ Tail(w) \in Seq(Wire) /\ Head(w) \in ToSet(w)
                          /\ ToSet(w) = {Head(w)} \cup ToSet(Tail(w)) /\ ToSet(Tail(w)) \in SUBSET ToSet(w)
<1>1. ToSet(w) \in SUBSET Wire /\ (w = <<>> => ToSet(w) = {})
  BY DEF ToSet
<1>2. ASSUME NEW x \in Wire
      PROVE  /\ Append(w, x) \in Seq(Wire) /\ ToSet(Append(w, x)) = ToSet(w) \cup {x}
             /\ Append(w, x) # <<>>
  <2>1. PICK v \in Seq(Wire), n \in Nat :
            /\ v = Append(w, x) /\ n = Len(w) /\ Len(v) = n + 1 /\ v[n + 1] = x
            /\ \A k \in 1 .. n : v[k] = w[k]
    <3>1. Len(w) \in Nat
      OBVIOUS
    <3>2. /\ Append(w, x) \in Seq(Wire) /\ Len(Append(w, x)) = Len(w) + 1
          /\ Append(w, x)[Len(w) + 1] = x /\ \A k \in 1 .. Len(w) : Append(w, x)[k] = w[k]
      OBVIOUS
    <3>. QED
      BY <3>1, <3>2
  <2>2. DOMAIN v = 1 .. n + 1 /\ DOMAIN w = 1 .. n
    BY <2>1
  <2>3. ToSet(v) = ToSet(w) \cup {x}
    <3>1. ASSUME NEW k \in 1 .. n + 1 PROVE v[k] \in ToSet(w) \cup {x}
      BY <2>1, <2>2 DEF ToSet
    <3>2. ASSUME NEW k \in 1 .. n PROVE w[k] \in ToSet(v)
      BY <2>1, <2>2 DEF ToSet
    <3>3. x \in ToSet(v)
      <4>1. n + 1 \in DOMAIN v
        BY <2>2
      <4>. QED
        BY <2>1, <4>1 DEF ToSet
    <3>. QED
      BY <2>2, <3>1, <3>2, <3>3 DEF ToSet
  <2>4. v # <<>>
    BY <2>1
  <2>. QED
    BY <2>1, <2>3, <2>4
<1>3. ASSUME w # <<>>
      PROVE  /\ Head(w) \in Wire /\ Tail(w) \in Seq(Wire) /\ Head(w) \in ToSet(w)
             /\ ToSet(w) = {Head(w)} \cup ToSet(Tail(w)) /\ ToSet(Tail(w)) \in SUBSET ToSet(w)
  <2>1. PICK v \in Seq(Wire), n \in Nat :
            /\ v = Tail(w) /\ n = Len(v) /\ Len(w) = n + 1 /\ \A k \in 1 .. n : v[k] = w[k + 1]
    <3>1. Tail(w) \in Seq(Wire) /\ Len(Tail(w)) \in Nat /\ Len(w) = Len(Tail(w)) + 1
          /\ \A k \in 1 .. Len(Tail(w)) : Tail(w)[k] = w[k + 1]
      BY <1>3, HeadTailProperties
    <3>. QED
      BY <3>1
  <2>2. DOMAIN v = 1 .. n /\ DOMAIN w = 1 .. n + 1 /\ Head(w) = w[1] /\ 1 \in DOMAIN w
    BY <2>1
  <2>3. ASSUME NEW k \in 1 .. n + 1 PROVE w[k] \in {Head(w)} \cup ToSet(v)
    <3>1. CASE k = 1
      BY <2>2, <3>1
    <3>2. CASE k # 1
      <4>1. PICK j \in 1 .. n : k = j + 1
        <5>1. k - 1 \in 1 .. n /\ k = (k - 1) + 1
          BY <3>2
        <5>. QED
          BY <5>1
      <4>. QED
        BY <2>1, <2>2, <4>1 DEF ToSet
    <3>. QED
      BY <3>1, <3>2
  <2>4. ASSUME NEW k \in 1 .. n PROVE v[k] \in ToSet(w)
    <3>1. k + 1 \in DOMAIN w
      BY <2>2
    <3>. QED
      BY <2>1, <3>1 DEF ToSet
  <2>5. Head(w) \in ToSet(w) /\ Head(w) \in Wire
    BY <2>2 DEF ToSet
  <2>. QED
    BY <2>1, <2>2, <2>3, <2>4, <2>5 DEF ToSet
<1>. QED
  BY <1>1, <1>2, <1>3

\* The fields of a segment on the wire.
LEMMA WireFields ==
    ASSUME NEW x \in Wire
    PROVE  /\ x.port \in Int /\ x.seg \in SegRec /\ x.seg.flag \in Flag /\ x.seg.seq \in Int
           /\ x.seg.ack \in Int /\ x.seg.win \in Int /\ x.seg.data \in Seq(Int) /\ Len(x.seg.data) \in Nat
           /\ x = On(x.port, x.seg)
<1>1. x.port \in Int /\ x.seg \in SegRec /\ x = On(x.port, x.seg)
  BY DEF Wire, On
<1>. QED
  BY <1>1, SegFields

\* A segment sent to a port is one on the wire.
LEMMA OnIs ==
    ASSUME NEW p \in Int, NEW g \in SegRec
    PROVE  On(p, g) \in Wire /\ On(p, g).port = p /\ On(p, g).seg = g
BY DEF On, Wire

\* Segments without data say nothing.
Mute(x) == x.seg.data = <<>>

\* A segment without data does not change the bytes when it is put on a line,
LEMMA MutePut ==
    ASSUME NEW w \in Seq(Wire), NEW x \in Wire, Mute(x)
    PROVE  Bytes(Append(w, x)) = Bytes(w)
<1>1. Bytes(w) \in Seq(Int)
  BY BytesTyped
<1>2. Bytes(w) \o <<>> = Bytes(w)
  BY <1>1, ConcatEmptySeq
<1>. QED
  BY <1>2, BytesAppend DEF Mute

\* nor when it is taken off,
LEMMA MuteTake ==
    ASSUME NEW w \in Seq(Wire), w # <<>>, Mute(Head(w))
    PROVE  Bytes(Tail(w)) = Bytes(w)
<1>1. Bytes(Tail(w)) \in Seq(Int)
  BY BytesTyped, LineSet
<1>2. <<>> \o Bytes(Tail(w)) = Bytes(Tail(w))
  BY <1>1, ConcatEmptySeq
<1>. QED
  BY <1>2, BytesHead DEF Mute

\* and a line of them has no bytes.
LEMMA MuteLine ==
    ASSUME NEW w \in Seq(Wire), \A x \in ToSet(w) : Mute(x)
    PROVE  Bytes(w) = <<>>
<1>1. PICK f : Sums(w, f)
  BY SumsExist
<1>. DEFINE A == {n \in Nat : n <= Len(w) => f[n] = <<>>}
<1>0. Len(w) \in Nat
  OBVIOUS
<1>2. 0 \in A
  BY <1>1 DEF Sums
<1>3. ASSUME NEW n \in Nat, n \in A PROVE n + 1 \in A
  <2>. SUFFICES ASSUME n + 1 <= Len(w) PROVE f[n + 1] = <<>>
    OBVIOUS
  <2>1. n + 1 \in 1 .. Len(w) /\ (n + 1) - 1 = n /\ f[n] = <<>> /\ DOMAIN w = 1 .. Len(w)
    BY <1>0, <1>3
  <2>2. w[n + 1].seg.data = <<>>
    BY <2>1 DEF ToSet, Mute
  <2>3. f[n + 1] = <<>> \o <<>>
    BY <1>1, <2>1, <2>2 DEF Sums
  <2>. QED
    BY <2>3
<1>. HIDE DEF A
<1>4. \A n \in Nat : n \in A
  BY <1>2, <1>3, Induction
<1>5. f[Len(w)] = <<>>
  BY <1>0, <1>4 DEF A
<1>. QED
  BY <1>1, <1>5, BytesAre

\* Nothing is said after a FIN.
Tidy(w) ==
    \A k, l \in DOMAIN w : k < l /\ w[k].seg.flag = "FIN" => Mute(w[l])

\* What may be put behind a FIN,
LEMMA TidyPut ==
    ASSUME NEW w \in Seq(Wire), NEW x \in Wire, Tidy(w),
           Mute(x) \/ \A y \in ToSet(w) : y.seg.flag # "FIN"
    PROVE  Tidy(Append(w, x))
<1>1. PICK v \in Seq(Wire), n \in Nat :
          /\ v = Append(w, x) /\ n = Len(w) /\ Len(v) = n + 1 /\ v[n + 1] = x
          /\ \A k \in 1 .. n : v[k] = w[k]
  <2>1. Len(w) \in Nat
    OBVIOUS
  <2>2. /\ Append(w, x) \in Seq(Wire) /\ Len(Append(w, x)) = Len(w) + 1
        /\ Append(w, x)[Len(w) + 1] = x /\ \A k \in 1 .. Len(w) : Append(w, x)[k] = w[k]
    OBVIOUS
  <2>. QED
    BY <2>1, <2>2
<1>2. DOMAIN v = 1 .. n + 1 /\ DOMAIN w = 1 .. n
  BY <1>1
<1>3. ASSUME NEW k \in 1 .. n + 1, NEW l \in 1 .. n + 1, k < l, v[k].seg.flag = "FIN" PROVE Mute(v[l])
  <2>1. k \in 1 .. n /\ v[k] = w[k] /\ w[k] \in ToSet(w)
    BY <1>1, <1>2, <1>3 DEF ToSet
  <2>2. CASE l = n + 1
    BY <1>1, <1>3, <2>1, <2>2
  <2>3. CASE l # n + 1
    <3>1. l \in 1 .. n /\ v[l] = w[l]
      BY <1>1, <2>3
    <3>. QED
      BY <1>2, <1>3, <2>1, <3>1 DEF Tidy
  <2>. QED
    BY <2>2, <2>3
<1>. QED
  BY <1>1, <1>2, <1>3 DEF Tidy

\* and what is left of the line.
LEMMA TidyTake ==
    ASSUME NEW w \in Seq(Wire), w # <<>>, Tidy(w)
    PROVE  Tidy(Tail(w)) /\ (Head(w).seg.flag = "FIN" => \A x \in ToSet(Tail(w)) : Mute(x))
<1>1. PICK v \in Seq(Wire), n \in Nat :
          /\ v = Tail(w) /\ n = Len(v) /\ Len(w) = n + 1 /\ \A k \in 1 .. n : v[k] = w[k + 1]
  <2>1. Tail(w) \in Seq(Wire) /\ Len(Tail(w)) \in Nat /\ Len(w) = Len(Tail(w)) + 1
        /\ \A k \in 1 .. Len(Tail(w)) : Tail(w)[k] = w[k + 1]
    BY HeadTailProperties
  <2>. QED
    BY <2>1, Zenon
<1>2. DOMAIN v = 1 .. n /\ DOMAIN w = 1 .. n + 1 /\ Head(w) = w[1] /\ 1 \in DOMAIN w
  BY <1>1
<1>3. ASSUME NEW k \in 1 .. n, NEW l \in 1 .. n, k < l, v[k].seg.flag = "FIN" PROVE Mute(v[l])
  <2>1. k + 1 \in DOMAIN w /\ l + 1 \in DOMAIN w /\ k + 1 < l + 1
    BY <1>2, <1>3
  <2>2. v[k] = w[k + 1] /\ v[l] = w[l + 1]
    BY <1>1
  <2>. QED
    BY <1>3, <2>1, <2>2 DEF Tidy
<1>4. ASSUME NEW l \in 1 .. n, Head(w).seg.flag = "FIN" PROVE Mute(v[l])
  <2>1. l + 1 \in DOMAIN w /\ 1 < l + 1
    BY <1>2
  <2>. QED
    BY <1>1, <1>2, <1>4, <2>1 DEF Tidy
<1>. QED
  BY <1>1, <1>2, <1>3, <1>4 DEF Tidy, ToSet

-----------------------------------------------------------------------------
(* The ring keeps what is stored in it, in order.                          *)

\* The bytes a host sends are a span.
LEMMA SpanIs ==
    ASSUME NEW a \in Int, NEW n \in Nat, NEW s, s = [k \in 1 .. n |-> a + k]
    PROVE  Span(s, a, a + n)
<1>0. \A k \in 1 .. n : a + k \in Int
  OBVIOUS
<1>1. s \in [1 .. n -> Int]
  BY <1>0
<1>2. s \in Seq(Int) /\ Len(s) = n
  BY <1>1
<1>3. (a + n) - a = n
  OBVIOUS
<1>. QED
  BY <1>2, <1>3 DEF Span

\* The remainder, for the numbers that occur in the ring.
LEMMA Wraps ==
    ASSUME NEW R \in Nat, R > 1, NEW n \in Int
    PROVE  /\ 0 <= n /\ n < R => n % R = n
           /\ R <= n /\ n < R + R => n % R = n - R
           /\ 0 - R <= n /\ n < 0 => n % R = n + R
OBVIOUS

\* The ends of the ring and what is between them.
LEMMA RingNumbers ==
    ASSUME NEW s \in SockRec
    PROVE  /\ Ring \in Nat /\ Ring > 1
           /\ s.head \in Nat /\ s.head < Ring /\ s.tail \in Nat /\ s.tail < Ring
           /\ Used(s) \in Nat /\ Used(s) < Ring /\ Room(s) = Ring - Used(s) - 1
           /\ s.head >= s.tail => Used(s) = s.head - s.tail
           /\ s.head < s.tail => Used(s) = Ring - (s.tail - s.head)
<1>1. s.head \in 0 .. Ring - 1 /\ s.tail \in 0 .. Ring - 1 /\ Ring \in Nat /\ Ring > 1
  BY SockFields, Sizes
<1>2. Used(s) \in 0 .. Ring - 1 /\ Room(s) = Ring - Used(s) - 1
  BY RingTyped DEF Room
<1>3. (s.head >= s.tail => Used(s) = s.head - s.tail) /\ (s.head < s.tail => Used(s) = Ring - (s.tail - s.head))
  BY <1>1 DEF Used
<1>. QED
  BY <1>1, <1>2, <1>3

\* The cell k places after t, and how far cell c is from h.
LEMMA Cells ==
    ASSUME NEW R \in Nat, R > 1, NEW t \in Nat, t < R, NEW k \in Nat, k <= R
    PROVE  /\ (t + k) % R \in Nat /\ (t + k) % R < R
           /\ (t + k) % R = IF t + k < R THEN t + k ELSE t + k - R
<1>1. PICK n \in Int : n = t + k
  OBVIOUS
<1>2. n % R = IF n < R THEN n ELSE n - R
  BY <1>1, Wraps
<1>. QED
  BY <1>1, <1>2

\* How far a cell is from an end.
LEMMA Distance ==
    ASSUME NEW R \in Nat, R > 1, NEW h \in Nat, h < R, NEW c \in Nat, c < R
    PROVE  /\ (c - h) % R \in Nat /\ (c - h) % R < R
           /\ (c - h) % R = IF c >= h THEN c - h ELSE c - h + R
<1>1. PICK n \in Int : n = c - h
  OBVIOUS
<1>0. 0 - R <= n /\ n < R
  BY <1>1
<1>2. n % R = IF n >= 0 THEN n ELSE n + R
  BY <1>0, Wraps
<1>. QED
  BY <1>1, <1>2

\* A ring of R cells that holds u numbers, from cell t to before cell h.
Holds(R, h, t, u) ==
    /\ R \in Nat /\ R > 1 /\ h \in Nat /\ h < R /\ t \in Nat /\ t < R /\ u \in Nat /\ u < R
    /\ h >= t => u = h - t
    /\ h < t => u = R - (t - h)

\* Storing: the cells in use keep their place, the new ones follow them.
LEMMA StoreCells ==
    ASSUME NEW R, NEW h, NEW t, NEW u, Holds(R, h, t, u), NEW n \in Nat, n <= R - u - 1
    PROVE  /\ Holds(R, (h + n) % R, t, u + n)
           /\ \A k \in 1 .. u + n : LET c == (t + k - 1) % R IN
                 /\ c \in 0 .. R - 1
                 /\ k <= u => (c - h) % R >= n
                 /\ k > u => (c - h) % R = k - u - 1 /\ (c - h) % R < n
<1>0. R \in Nat /\ R > 1 /\ h \in Nat /\ h < R /\ t \in Nat /\ t < R /\ u \in Nat /\ u < R
  BY DEF Holds
<1>1. Holds(R, (h + n) % R, t, u + n)
  <2>1. PICK e : e = (h + n) % R
    OBVIOUS
  <2>0. n <= R
    BY <1>0
  <2>2. e \in Nat /\ e < R /\ e = IF h + n < R THEN h + n ELSE h + n - R
    BY <1>0, <2>0, <2>1, Cells
  <2>3. Holds(R, e, t, u + n)
    BY <2>2 DEF Holds
  <2>. QED
    BY <2>1, <2>3
<1>2. ASSUME NEW k \in 1 .. u + n
      PROVE  LET c == (t + k - 1) % R IN
                 /\ c \in 0 .. R - 1
                 /\ k <= u => (c - h) % R >= n
                 /\ k > u => (c - h) % R = k - u - 1 /\ (c - h) % R < n
  <2>1. k - 1 \in Nat /\ k - 1 <= R /\ t + k - 1 = t + (k - 1)
    BY <1>0
  <2>2. PICK c : c = (t + (k - 1)) % R
    OBVIOUS
  <2>3. c \in Nat /\ c < R /\ c = IF t + (k - 1) < R THEN t + (k - 1) ELSE t + (k - 1) - R
    BY <1>0, <2>1, <2>2, Cells
  <2>4. PICK j : j = (c - h) % R
    OBVIOUS
  <2>5. j \in Nat /\ j < R /\ j = IF c >= h THEN c - h ELSE c - h + R
    BY <1>0, <2>3, <2>4, Distance
  <2>6. (k <= u => j >= n) /\ (k > u => j = k - u - 1 /\ j < n)
    BY <1>0, <2>3, <2>5 DEF Holds
  <2>7. (t + k - 1) % R = c
    BY <2>1, <2>2
  <2>8. c \in 0 .. R - 1
    BY <1>0, <2>3
  <2>. QED
    BY <2>4, <2>6, <2>7, <2>8
<1>. QED
  BY <1>1, <1>2

\* Reading: the cells left keep their place.
LEMMA ReadCells ==
    ASSUME NEW R, NEW h, NEW t, NEW u, Holds(R, h, t, u), NEW n \in Nat, n <= u
    PROVE  /\ Holds(R, h, (t + n) % R, u - n)
           /\ \A k \in 1 .. u - n : LET c == (((t + n) % R) + k - 1) % R IN
                 /\ c \in 0 .. R - 1 /\ (c - t) % R >= n /\ c = (t + (n + k) - 1) % R
<1>0. R \in Nat /\ R > 1 /\ h \in Nat /\ h < R /\ t \in Nat /\ t < R /\ u \in Nat /\ u < R
  BY DEF Holds
<1>1. PICK e : e = (t + n) % R
  OBVIOUS
<1>2. e \in Nat /\ e < R /\ e = IF t + n < R THEN t + n ELSE t + n - R
  <2>1. n <= R
    BY <1>0
  <2>. QED
    BY <1>0, <1>1, <2>1, Cells
<1>3. Holds(R, h, e, u - n)
  BY <1>2 DEF Holds
<1>4. ASSUME NEW k \in 1 .. u - n
      PROVE  LET c == (e + k - 1) % R IN
                 /\ c \in 0 .. R - 1 /\ (c - t) % R >= n /\ c = (t + (n + k) - 1) % R
  <2>0. PICK l : l = k - 1
    OBVIOUS
  <2>1. l \in Nat /\ l <= R /\ e + k - 1 = e + l
    BY <1>0, <1>2, <2>0
  <2>2. PICK c : c = (e + l) % R
    OBVIOUS
  <2>3. c \in Nat /\ c < R /\ c = IF e + l < R THEN e + l ELSE e + l - R
    <3>1. e \in Nat /\ e < R
      BY <1>2
    <3>. QED
      BY <1>0, <2>1, <2>2, <3>1, Cells
  <2>4. PICK j : j = (c - t) % R
    OBVIOUS
  <2>5. j \in Nat /\ j < R /\ j = IF c >= t THEN c - t ELSE c - t + R
    BY <1>0, <2>3, <2>4, Distance
  <2>6. PICK i : i = n + k - 1
    OBVIOUS
  <2>7. i \in Nat /\ i <= R /\ t + (n + k) - 1 = t + i
    BY <1>0, <2>6
  <2>8. PICK g : g = (t + i) % R
    OBVIOUS
  <2>9. g \in Nat /\ g < R /\ g = IF t + i < R THEN t + i ELSE t + i - R
    BY <1>0, <2>7, <2>8, Cells
  <2>10. g = c
    BY <1>0, <1>2, <2>0, <2>3, <2>6, <2>9
  <2>11. j >= n
    BY <1>0, <1>2, <2>0, <2>3, <2>5
  <2>12. c \in 0 .. R - 1
    BY <1>0, <2>3
  <2>. QED
    BY <2>1, <2>2, <2>4, <2>7, <2>8, <2>10, <2>11, <2>12
<1>. QED
  BY <1>1, <1>3, <1>4

\* The ring of a socket is one.
LEMMA RingHolds ==
    ASSUME NEW s \in SockRec
    PROVE  Holds(Ring, s.head, s.tail, Used(s))
BY RingNumbers DEF Holds
\* Used is determined by the two ends.
LEMMA UsedIs ==
    ASSUME NEW s, NEW u, Holds(Ring, s.head, s.tail, u)
    PROVE  Used(s) = u
BY DEF Holds, Used

\* A segment stored in the ring follows what was there.
LEMMA RingStores ==
    ASSUME NEW s \in SockRec, NEW d \in Seq(Int), NEW a \in Int, NEW q \in Int, Len(d) <= Room(s),
           NEW m \in Int, Span(Content(s), m, m + Used(s)), Span(d, m + Used(s), m + Used(s) + Len(d))
    PROVE  LET x == StoredAs(s, d, a, q)
           IN  /\ Used(x) = Used(s) + Len(d) /\ Span(Content(x), m, m + Used(x))
               /\ x.read = s.read /\ x.wrote = s.wrote /\ x.ack = a /\ x.seq = q
<1>. DEFINE b == [k \in 0 .. Ring - 1 |->
                     LET j == (k - s.head) % Ring IN IF j < Len(d) THEN d[j + 1] ELSE s.buf[k]]
            e == (s.head + Len(d)) % Ring
<1>1. PICK n \in Nat, u \in Nat : n = Len(d) /\ u = Used(s) /\ n <= Ring - u - 1
  BY RingNumbers
<1>2. Holds(Ring, s.head, s.tail, u)
  BY <1>1, RingHolds
<1>3. /\ Holds(Ring, e, s.tail, u + n)
      /\ \A k \in 1 .. u + n : LET c == (s.tail + k - 1) % Ring IN
            /\ c \in 0 .. Ring - 1
            /\ k <= u => (c - s.head) % Ring >= n
            /\ k > u => (c - s.head) % Ring = k - u - 1 /\ (c - s.head) % Ring < n
  BY <1>1, <1>2, StoreCells
<1>4. Stored(s, d) = [s EXCEPT !.buf = b, !.head = e]
  BY DEF Stored
<1>5. /\ StoredAs(s, d, a, q).head = e /\ StoredAs(s, d, a, q).tail = s.tail /\ StoredAs(s, d, a, q).buf = b
      /\ StoredAs(s, d, a, q).read = s.read /\ StoredAs(s, d, a, q).wrote = s.wrote
      /\ StoredAs(s, d, a, q).ack = a /\ StoredAs(s, d, a, q).seq = q
  <2>. HIDE DEF b, e
  <2>. QED
    BY <1>4 DEF StoredAs, SockRec
<1>6. PICK x \in SockRec : x = StoredAs(s, d, a, q)
  BY StoredTyped
<1>7. Used(x) = u + n
  <2>. HIDE DEF b, e
  <2>1. Holds(Ring, x.head, x.tail, u + n)
    BY <1>3, <1>5, <1>6
  <2>. QED
    BY <2>1, UsedIs
<1>8. ASSUME NEW k \in 1 .. u + n
      PROVE  b[(s.tail + k - 1) % Ring] = m + k
  <2>1. PICK c \in 0 .. Ring - 1 : c = (s.tail + k - 1) % Ring
    BY <1>3
  <2>2. PICK j : j = (c - s.head) % Ring
    OBVIOUS
  <2>3. (k <= u => j >= n) /\ (k > u => j = k - u - 1 /\ j < n)
    <3>. HIDE DEF b, e
    <3>. QED
      BY <1>3, <2>1, <2>2
  <2>4. b[c] = IF j < n THEN d[j + 1] ELSE s.buf[c]
    BY <1>1, <2>2
  <2>. HIDE DEF b, e
  <2>5. CASE k <= u
    <3>1. k \in 1 .. Used(s) /\ k \in 1 .. Len(Content(s))
      BY <1>1, <2>5 DEF Span
    <3>2. Content(s)[k] = s.buf[c]
      BY <2>1, <3>1 DEF Content
    <3>3. Content(s)[k] = m + k
      BY <3>1 DEF Span
    <3>4. j \in Int /\ ~(j < n)
      <4>0. s.head \in Nat /\ Ring \in Nat
        BY RingNumbers
      <4>1. c - s.head \in Int
        BY <2>1, <4>0
      <4>2. j \in 0 .. Ring - 1
        BY <2>2, <4>1, Within
      <4>3. Ring \in Nat
        BY Sizes
      <4>4. j \in Int
        BY <4>2, <4>3
      <4>. QED
        BY <2>3, <2>5, <4>4
    <3>. QED
      BY <2>1, <2>4, <3>2, <3>3, <3>4
  <2>6. CASE k > u
    <3>0. j = k - u - 1 /\ j < n
      BY <2>3, <2>6
    <3>1. j \in Nat /\ j < n /\ j + 1 \in 1 .. n /\ m + u + (j + 1) = m + k
      BY <2>6, <3>0
    <3>2. d[j + 1] = m + Used(s) + (j + 1)
      BY <1>1, <3>1 DEF Span
    <3>. QED
      BY <1>1, <2>1, <2>4, <3>1, <3>2
  <2>. QED
    BY <2>5, <2>6
<1>9. Content(x) = [k \in 1 .. u + n |-> b[(s.tail + k - 1) % Ring]]
  <2>. HIDE DEF b, e
  <2>1. x.tail = s.tail /\ x.buf = b
    BY <1>5, <1>6
  <2>. QED
    BY <1>7, <2>1 DEF Content
<1>. HIDE DEF b, e
<1>10. Span(Content(x), m, m + (u + n))
  <2>1. Content(x) = [k \in 1 .. u + n |-> m + k]
    BY <1>8, <1>9
  <2>. QED
    BY <2>1, SpanIs
<1>. QED
  BY <1>1, <1>5, <1>6, <1>7, <1>10

ReadAs(s, n) ==
    [s EXCEPT !.tail = (s.tail + n) % Ring,
              !.buf = [k \in 0 .. Ring - 1 |-> IF (k - s.tail) % Ring < n THEN 0 ELSE s.buf[k]],
              !.read = s.read \o SubSeq(Content(s), 1, n)]

\* Reading takes the first bytes of the ring.
LEMMA RingReads ==
    ASSUME NEW s \in SockRec, NEW n \in 1 .. Used(s), Span(s.read, 0, Len(s.read)),
           Span(Content(s), Len(s.read), Len(s.read) + Used(s))
    PROVE  LET x == ReadAs(s, n)
           IN  /\ x \in SockRec /\ Used(x) = Used(s) - n /\ Len(x.read) = Len(s.read) + n
               /\ Span(x.read, 0, Len(x.read)) /\ Span(Content(x), Len(x.read), Len(x.read) + Used(x))
               /\ x.mem = s.mem /\ x.st = s.st /\ x.port = s.port /\ x.remote = s.remote
               /\ x.wrote = s.wrote /\ x.ack = s.ack /\ x.seq = s.seq
<1>. DEFINE b == [k \in 0 .. Ring - 1 |-> IF (k - s.tail) % Ring < n THEN 0 ELSE s.buf[k]]
            e == (s.tail + n) % Ring
            y == s.read \o SubSeq(Content(s), 1, n)
<1>1. PICK u \in Nat : u = Used(s) /\ n \in Nat /\ n <= u /\ n >= 1
  BY RingNumbers
<1>2. Holds(Ring, s.head, s.tail, u)
  BY <1>1, RingHolds
<1>20. PICK m \in Nat : m = Len(s.read)
  <2>1. s.read \in Seq(Int)
    BY SockFields
  <2>2. Len(s.read) \in Nat
    BY <2>1
  <2>. QED
    BY <2>2
<1>3. /\ Holds(Ring, s.head, e, u - n)
      /\ \A k \in 1 .. u - n : LET c == (e + k - 1) % Ring IN
            /\ c \in 0 .. Ring - 1 /\ (c - s.tail) % Ring >= n /\ c = (s.tail + (n + k) - 1) % Ring
  BY <1>1, <1>2, ReadCells
<1>4. e \in 0 .. Ring - 1 /\ b \in [0 .. Ring - 1 -> Int] /\ y \in Seq(Int)
  BY ReadTyped
<1>5. /\ ReadAs(s, n) \in SockRec /\ ReadAs(s, n).tail = e /\ ReadAs(s, n).buf = b /\ ReadAs(s, n).read = y
      /\ ReadAs(s, n).head = s.head /\ ReadAs(s, n).mem = s.mem /\ ReadAs(s, n).st = s.st
      /\ ReadAs(s, n).port = s.port /\ ReadAs(s, n).remote = s.remote
      /\ ReadAs(s, n).wrote = s.wrote /\ ReadAs(s, n).ack = s.ack /\ ReadAs(s, n).seq = s.seq
  <2>1. ReadAs(s, n) = [s EXCEPT !.tail = e, !.buf = b, !.read = y]
    BY DEF ReadAs
  <2>. HIDE DEF b, e, y
  <2>. QED
    BY <1>4, <2>1 DEF SockRec
<1>6. Span(y, 0, m + n)
  <2>1. PICK z \in Seq(Int) : z = Content(s) /\ Len(z) = u /\ \A k \in 1 .. u : z[k] = m + k
    <3>1. Content(s) \in Seq(Int) /\ Len(Content(s)) = u /\ \A k \in 1 .. u : Content(s)[k] = m + k
      BY <1>1, <1>20 DEF Span
    <3>. QED
      BY <3>1
  <2>2. SubSeq(z, 1, n) \in Seq(Int) /\ Len(SubSeq(z, 1, n)) = n /\ \A k \in 1 .. n : SubSeq(z, 1, n)[k] = z[k]
    BY <1>1, <2>1
  <2>3. PICK c \in Seq(Int) : c = SubSeq(z, 1, n) /\ Len(c) = n /\ \A k \in 1 .. n : c[k] = z[k]
    BY <2>2
  <2>4. Span(c, m, m + n)
    <3>1. \A k \in 1 .. n : c[k] = m + k
      BY <1>1, <2>1, <2>3
    <3>2. (m + n) - m = n
      BY <1>1
    <3>. QED
      BY <2>3, <3>1, <3>2 DEF Span
  <2>5. Span(s.read, 0, m)
    BY <1>20
  <2>6. m \in Int /\ m + n \in Int /\ 0 \in Int
    BY <1>1
  <2>. QED
    BY <2>1, <2>3, <2>4, <2>5, <2>6, SpanJoin
<1>7. PICK x \in SockRec : x = ReadAs(s, n)
  BY <1>5
<1>8. Used(x) = u - n
  <2>. HIDE DEF b, e, y
  <2>1. Holds(Ring, x.head, x.tail, u - n)
    BY <1>3, <1>5, <1>7
  <2>. QED
    BY <2>1, UsedIs
<1>9. ASSUME NEW k \in 1 .. u - n
      PROVE  b[(e + k - 1) % Ring] = (m + n) + k
  <2>1. PICK c \in 0 .. Ring - 1 : c = (e + k - 1) % Ring
    <3>. HIDE DEF b, e, y
    <3>. QED
      BY <1>3
  <2>2. PICK j : j = (c - s.tail) % Ring
    OBVIOUS
  <2>3. j \in Int /\ ~(j < n) /\ c = (s.tail + (n + k) - 1) % Ring
    <3>. HIDE DEF b, e, y
    <3>1. c - s.tail \in Int /\ Ring \in Nat
      BY <2>1, RingNumbers
    <3>2. j \in 0 .. Ring - 1
      BY <2>2, <3>1, Within
    <3>3. j \in Int
      BY <3>1, <3>2
    <3>4. j >= n /\ c = (s.tail + (n + k) - 1) % Ring
      BY <1>3, <2>1, <2>2
    <3>. QED
      BY <1>1, <3>3, <3>4
  <2>4. b[c] = s.buf[c]
    BY <2>2, <2>3
  <2>. HIDE DEF b, e, y
  <2>5. PICK i : i = n + k
    OBVIOUS
  <2>6. i \in 1 .. u /\ m + i = (m + n) + k
    BY <1>1, <2>5
  <2>7. i \in 1 .. Used(s) /\ i \in 1 .. Len(Content(s))
    BY <1>1, <1>20, <2>6, SMTT(30) DEF Span
  <2>8. Content(s)[i] = s.buf[c]
    BY <2>3, <2>5, <2>7 DEF Content
  <2>9. Content(s)[i] = m + i
    BY <1>20, <2>7 DEF Span
  <2>. QED
    BY <2>1, <2>4, <2>6, <2>8, <2>9
<1>10. Content(x) = [k \in 1 .. u - n |-> b[(e + k - 1) % Ring]]
  <2>. HIDE DEF b, e, y
  <2>1. x.tail = e /\ x.buf = b
    BY <1>5, <1>7
  <2>. QED
    BY <1>8, <2>1 DEF Content
<1>. HIDE DEF b, e, y
<1>11. Span(Content(x), m + n, (m + n) + (u - n))
  <2>1. Content(x) = [k \in 1 .. u - n |-> (m + n) + k]
    BY <1>9, <1>10
  <2>2. u - n \in Nat /\ m + n \in Int
    BY <1>1
  <2>. QED
    BY <2>1, <2>2, SpanIs
<1>12. Len(y) = m + n
  BY <1>1, <1>6 DEF Span
<1>. QED
  BY <1>1, <1>20, <1>5, <1>6, <1>7, <1>8, <1>11, <1>12

-----------------------------------------------------------------------------
(* The state of a connection: its socket s, the host p at the other end,   *)
(* what is on its way here (L), and away (W): on the line (O), or about to *)
(* be put on it by the receive thread (Y) or by a program (Z).             *)

\* On the way to us, with the segment the receive thread is at; its answer;
\* what the programs are about to send; and all that is on the way from us.
Line(r) == (IF rx.pc = "input" /\ rx.from = r THEN <<On(rx.port, rx.seg)>> ELSE <<>>) \o in[r]
Answer(r) == IF rx.pc \in {"reply", "last"} /\ rx.from = r THEN {On(rx.port, rx.seg)} ELSE {}
Leaving(i) == {On(sock[i].port, th[t].seg) : t \in {u \in Thread : th[u].pc = "out" /\ th[u].s = i}}
Away(r, i) == ToSet(out[r]) \cup Answer(r) \cup Leaving(i)
\* The half-open connections and the sockets of a host.
Half(r) == {k \in DOMAIN queue : queue[k].r = r /\ queue[k].s = None}
Socks(r) == {i \in Sock : sock[i].remote = r}

\* The segments that open a connection, from either side.
Ask == On(WellKnown, Seg("SYN", 0, 0, Offer, <<>>))
Invite == On(WellKnown, Seg("SYNACK", 0, 1, Offer, <<>>))
Dial(p) == On(p, Seg("SYN", 1000, 0, Notice, <<>>))
Greet(p) == On(p, Seg("SYNACK", 0, 1001, Offer, <<>>))
Asker == [NoPeer EXCEPT !.st = "synsent", !.port = WellKnown]
Dialled(p) == [NoPeer EXCEPT !.st = "synrcvd", !.port = p, !.rcv = 1001]

\* A host asks for a connection: its SYN, or the answer, is somewhere or lost.
Asks(p, L, O, Y) ==
    /\ p = Asker
    /\ \/ L = <<>> /\ O = <<>> /\ Y = {}
       \/ L = <<Ask>> /\ O = <<>> /\ Y = {}
       \/ L = <<>> /\ O = <<>> /\ Y = {Invite}
       \/ L = <<>> /\ O = <<Invite>> /\ Y = {}
\* It has had the answer: the segment that makes the half-open connection a
\* session comes first.
Numbered(L) == \A x \in ToSet(L) : Mute(x) \/ x.seg.data[1] = x.seg.seq
Ends(L, n) == \A x \in ToSet(L) : Mute(x) \/ x.seg.seq + Len(x.seg.data) <= 1 + n
Greets(p, L, O, Y) ==
    /\ p.port = WellKnown /\ p.rcv = 1 /\ p.una = 1 /\ p.win = Offer /\ p.got = <<>>
    /\ p.st \in {"est", "fin"}
    /\ O = <<>> /\ Y = {}
    /\ L # <<>> /\ Mute(Head(L)) /\ Head(L).seg.flag = "ACK" /\ Head(L).seg.seq = 1
    /\ \A x \in ToSet(L) : x.port = WellKnown
    /\ Numbered(L) /\ Ends(L, p.sent) /\ Span(Bytes(L), 0, p.sent) /\ p.sent < Ring
\* A program connects.
Opens(s, p, L, W) ==
    /\ s.port > 0 /\ s.read = <<>> /\ s.head = s.tail /\ s.wrote = 0
    /\ \A w \in W : w = Dial(s.port)
    /\ \/ p = NoPeer /\ L = <<>>
       \/ p = Dialled(s.port) /\ \A x \in ToSet(L) : x = Greet(s.port)
\* Connected.
Utters(s, p, w) ==
    /\ w.port = s.port /\ w.seg.flag \in {"SYN", "ACK", "FIN"} /\ w.seg.ack <= 1 + p.sent
    /\ w.seg.flag = "SYN" => w = Dial(s.port)
    /\ w.seg.flag = "FIN" => Mute(w) /\ s.st = "FIN_WAIT_1"
Session(s, p, L, W) ==
    /\ p.st \in {"synrcvd"} \cup Live /\ p.port = s.port
    /\ s.st = "ESTABLISHED" => p.st \in {"synrcvd", "est", "fin"}
    /\ p.st = "synrcvd" => p = Dialled(s.port)
    /\ \A x \in ToSet(L) : x.port = s.port
    /\ Ends(L, p.sent)
    /\ \A w \in W : Utters(s, p, w)
    /\ p.una <= 1 + p.sent /\ s.ack <= 1 + p.sent
\* The stream to us: what was read, what is in the ring, and what is on the
\* line follow each other.  No promise goes beyond the room there is, and the
\* last byte of the ring is acknowledged, or will be.
Inward(s, p, L, W) ==
    /\ Span(s.read, 0, Len(s.read)) /\ Span(Content(s), Len(s.read), Len(s.read) + Used(s))
    /\ Span(Bytes(L), Len(s.read) + Used(s), p.sent) /\ Numbered(L)
    /\ s.ack = Len(s.read) + Used(s) + 1
    /\ p.sent < Len(s.read) + Ring /\ p.una + p.win <= Len(s.read) + Ring
    /\ \A w \in W : w.seg.ack + w.seg.win <= Len(s.read) + Ring
    /\ \/ p.una > Len(s.read) + Used(s)
       \/ \E w \in W : w.seg.flag = "ACK" /\ w.seg.ack > Len(s.read) + Used(s)
\* The stream from us: what has arrived, what is on the line, and the byte
\* about to be put on it follow each other, and are numbered so.
Base(s) == IF s.port = WellKnown THEN 1 ELSE 1001
Sent(p, O) == Len(p.got) + Len(Bytes(O))
Outward(s, p, O, Y, Z) ==
    /\ Span(p.got, 0, Len(p.got)) /\ Span(Bytes(O), Len(p.got), Sent(p, O))
    /\ \A y \in Y : Mute(y)
    /\ \A z \in Z : Mute(z) \/ /\ z.seg.data = <<Sent(p, O) + 1>> /\ z.seg.seq = Base(s) + Sent(p, O)
                               /\ s.wrote = Sent(p, O) + 1 /\ s.st = "ESTABLISHED"
    /\ (\A z \in Z : Mute(z)) => s.wrote = Sent(p, O)
    /\ s.st = "ESTABLISHED" => s.seq = Base(s) + s.wrote
    /\ \A w \in ToSet(O) : Mute(w) \/ (Len(w.seg.data) = 1 /\ w.seg.seq = Base(s) + w.seg.data[1] - 1)
    /\ Tidy(O)
    /\ p.st \in {"synrcvd", "est", "fin"} => p.rcv = Base(s) + Len(p.got)
    /\ p.st \in {"closewait", "closing", "last"} => \A w \in ToSet(O) : Mute(w)

\* What is there fits together, whatever the state of the connection.
Roles(r) ==
    /\ \A i, j \in Socks(r) : i = j
    /\ \/ peer[r].st = "synrcvd" \/ \E w \in ToSet(out[r]) \cup Answer(r) : w.seg.flag = "SYN"
       \/ \E x \in ToSet(Line(r)) : x.seg.flag = "SYNACK"
       => \E i \in Socks(r) : sock[i].port > 0
    /\ \A x \in ToSet(Line(r)) : x.seg.flag = "SYN" => peer[r].st = "synsent"
    /\ \A k, l \in Half(r) : k = l /\ queue[k].seq = 0
    /\ Half(r) # {} => /\ Socks(r) = {} /\ peer[r].st \in {"synsent", "est", "fin"}
                       /\ \E j \in Sock : sock[j].st = "LISTEN"
Asking(r) ==
    peer[r].st = "synsent" =>
        /\ Socks(r) = {} /\ Asks(peer[r], Line(r), out[r], Answer(r))
        /\ Half(r) # {} => out[r] # <<>> \/ Answer(r) # {}
Greeting(r) ==
    Half(r) # {} /\ peer[r].st # "synsent" => Greets(peer[r], Line(r), out[r], Answer(r))
\* The state of the connection, by that of its socket.
Tracks(r, i) ==
    /\ sock[i].st = "SYN_SENT" => Opens(sock[i], peer[r], Line(r), Away(r, i))
    /\ sock[i].st \in {"ESTABLISHED", "FIN_WAIT_1"} =>
          /\ Session(sock[i], peer[r], Line(r), Away(r, i))
          /\ r \notin outTrouble => Outward(sock[i], peer[r], out[r], Answer(r), Leaving(i))
    /\ sock[i].st = "ESTABLISHED" /\ r \notin inTrouble => Inward(sock[i], peer[r], Line(r), Away(r, i))
Link(r) == Roles(r) /\ Asking(r) /\ Greeting(r) /\ \A i \in Socks(r) : Tracks(r, i)
Good(r) == r \notin inTrouble \/ r \notin outTrouble

\* Whoever is connected: open sockets are in the list, a socket without a host
\* has sent nothing, hosts count what they send, and only connect says SYN.
OpenListed == \A i \in Sock : sock[i].st # "CLOSED" \/ Held(i) => i \in Listed
Blank == \A i \in Sock : sock[i].remote = None => sock[i].seq = 0
Numbers ==
    \A r \in Remote :
        /\ peer[r].sent >= 0
        /\ peer[r].fin = IF peer[r].st \in {"fin", "closing", "last"} THEN 1 ELSE 0
        /\ peer[r].st = "closed" => peer[r] = NoPeer
Spoken == \A t \in Thread : th[t].pc = "out" /\ th[t].seg.flag = "SYN" => th[t].op = "connect"
Steady == OpenListed /\ Blank /\ Numbers /\ Spoken
Flow == Steady /\ \A r \in Remote : Good(r) => Link(r)

-----------------------------------------------------------------------------
(* What a step makes of a connection.                                      *)

\* The numbers of a socket,
LEMMA SockNumbers ==
    ASSUME NEW s \in SockRec
    PROVE  /\ Len(s.read) \in Nat /\ s.read \in Seq(Int) /\ Used(s) \in Nat /\ Used(s) < Ring /\ Ring \in Nat
           /\ Room(s) = Ring - Used(s) - 1 /\ s.ack \in Int /\ s.seq \in Int /\ s.wrote \in Int
           /\ s.port \in Int /\ Base(s) \in Int /\ s.st \in States
<1>1. s.read \in Seq(Int) /\ s.ack \in Int /\ s.seq \in Int /\ s.wrote \in Int /\ s.port \in Int /\ s.st \in States
  BY SockFields
<1>2. Len(s.read) \in Nat
  BY <1>1
<1>3. Base(s) \in Int
  BY DEF Base
<1>. QED
  BY <1>1, <1>2, <1>3, RingNumbers

\* of a host,
LEMMA PeerNumbers ==
    ASSUME NEW p \in PeerRec
    PROVE  /\ p.sent \in Int /\ p.fin \in Int /\ p.una \in Int /\ p.win \in Int /\ p.rcv \in Int
           /\ p.port \in Int /\ p.got \in Seq(Int) /\ Len(p.got) \in Nat /\ p.st \in PeerStates
<1>1. /\ p.sent \in Int /\ p.fin \in Int /\ p.una \in Int /\ p.win \in Int /\ p.rcv \in Int
      /\ p.port \in Int /\ p.got \in Seq(Int) /\ p.st \in PeerStates
  BY DEF PeerRec
<1>. QED
  BY <1>1

\* and of a line.
LEMMA SentTyped ==
    ASSUME NEW p \in PeerRec, NEW O \in Seq(Wire)
    PROVE  Sent(p, O) \in Nat /\ Bytes(O) \in Seq(Int) /\ Len(Bytes(O)) \in Nat
<1>1. Bytes(O) \in Seq(Int)
  BY BytesTyped
<1>2. Len(Bytes(O)) \in Nat
  BY <1>1
<1>. QED
  BY <1>1, <1>2, PeerNumbers DEF Sent

\* The window of a SYN fits into the ring.
LEMMA OfferIs ==
    /\ Offer \in Nat /\ Offer > 0 /\ Offer < Ring /\ Ring \in Nat /\ Ring > 1
    /\ Notice \in Nat /\ Notice < Ring
BY TcpAssumption

\* A session goes on.
LEMMA SessionMoves ==
    ASSUME NEW s \in SockRec, NEW s2 \in SockRec, NEW p \in PeerRec, NEW p2 \in PeerRec,
           NEW L \in Seq(Wire), NEW M \in Seq(Wire), NEW W \in SUBSET Wire, NEW V \in SUBSET Wire,
           Session(s, p, L, W),
           s2.port = s.port, s.st = "FIN_WAIT_1" => s2.st = "FIN_WAIT_1", p2.port = p.port, p.sent <= p2.sent,
           p2.st \in {"synrcvd"} \cup Live, s2.st = "ESTABLISHED" => p2.st \in {"synrcvd", "est", "fin"},
           p2.st = "synrcvd" => p2 = Dialled(s.port),
           \A x \in ToSet(M) : x \in ToSet(L) \/ (x.port = s.port /\ (Mute(x) \/ x.seg.seq + Len(x.seg.data) <= 1 + p2.sent)),
           \A w \in V : w \in W \/ Utters(s2, p2, w),
           p2.una <= 1 + p2.sent, s2.ack <= 1 + p2.sent
    PROVE  Session(s2, p2, M, V)
<1>1. p.sent \in Int /\ p2.sent \in Int
  BY PeerNumbers
<1>2. Ends(M, p2.sent) /\ \A x \in ToSet(M) : x.port = s2.port
  <2>. SUFFICES ASSUME NEW x \in ToSet(M)
                PROVE  x.port = s2.port /\ (Mute(x) \/ x.seg.seq + Len(x.seg.data) <= 1 + p2.sent)
    BY DEF Ends
  <2>1. CASE x \in ToSet(L)
    <3>1. x \in Wire
      BY <2>1, LineSet
    <3>2. x.seg.seq \in Int /\ Len(x.seg.data) \in Nat
      BY <3>1, WireFields
    <3>3. x.port = s.port /\ (Mute(x) \/ x.seg.seq + Len(x.seg.data) <= 1 + p.sent)
      BY <2>1 DEF Session, Ends
    <3>4. \A n \in Int : n <= 1 + p.sent => n <= 1 + p2.sent
      BY <1>1
    <3>5. x.seg.seq + Len(x.seg.data) \in Int
      BY <3>2
    <3>. QED
      BY <3>3, <3>4, <3>5
  <2>. QED
    BY <2>1
<1>3. ASSUME NEW w \in V PROVE Utters(s2, p2, w)
  <2>1. CASE w \in W
    <3>1. Utters(s, p, w) /\ w.seg.ack \in Int
      BY <2>1, WireFields DEF Session
    <3>. QED
      BY <1>1, <3>1 DEF Utters
  <2>. QED
    BY <2>1
<1>. QED
  BY <1>2, <1>3 DEF Session

\* The stream to us, when the socket and what is on its way stay the same.
LEMMA InwardWords ==
    ASSUME NEW s \in SockRec, NEW s2 \in SockRec, NEW p \in PeerRec, NEW p2 \in PeerRec, NEW L \in Seq(Wire),
           NEW W \in SUBSET Wire, NEW V \in SUBSET Wire, Inward(s, p, L, W),
           s2.read = s.read, s2.head = s.head, s2.tail = s.tail, s2.buf = s.buf, s2.ack = s.ack,
           p2.sent = p.sent, p2.una >= p.una, p2.una + p2.win <= Len(s.read) + Ring,
           \A w \in V : w \in W \/ w.seg.ack + w.seg.win <= Len(s.read) + Ring,
           \A w \in W : w.seg.flag = "ACK" => w \in V \/ w.seg.ack <= p2.una
    PROVE  Inward(s2, p2, L, V)
<1>1. Used(s2) = Used(s) /\ Content(s2) = Content(s)
  BY DEF Used, Content
<1>2. PICK b \in Int : b = Len(s.read) + Used(s)
  BY SockNumbers
<1>3. p2.una \in Int /\ p.una \in Int
  BY PeerNumbers
<1>4. p2.una > b \/ \E w \in V : w.seg.flag = "ACK" /\ w.seg.ack > b
  <2>1. CASE p.una > b
    BY <1>3, <2>1
  <2>2. CASE \E w \in W : w.seg.flag = "ACK" /\ w.seg.ack > b
    <3>1. PICK w \in W : w.seg.flag = "ACK" /\ w.seg.ack > b
      BY <2>2
    <3>2. w.seg.ack \in Int
      BY WireFields
    <3>. QED
      BY <1>3, <3>1, <3>2
  <2>. QED
    BY <1>2, <2>1, <2>2 DEF Inward
<1>. QED
  BY <1>1, <1>2, <1>4 DEF Inward

\* A segment without data is taken.
LEMMA InwardDrop ==
    ASSUME NEW s \in SockRec, NEW p \in PeerRec, NEW L \in Seq(Wire), NEW W \in SUBSET Wire,
           L # <<>>, Mute(Head(L)), Inward(s, p, L, W)
    PROVE  Inward(s, p, Tail(L), W)
<1>1. Bytes(Tail(L)) = Bytes(L) /\ ToSet(Tail(L)) \in SUBSET ToSet(L)
  BY MuteTake, LineSet
<1>. QED
  BY <1>1 DEF Inward, Numbered

\* One is sent.
LEMMA InwardPut ==
    ASSUME NEW s \in SockRec, NEW p \in PeerRec, NEW p2 \in PeerRec, NEW L \in Seq(Wire), NEW W \in SUBSET Wire,
           NEW x \in Wire, Mute(x), p2.sent = p.sent, p2.una = p.una, p2.win = p.win, Inward(s, p, L, W)
    PROVE  Inward(s, p2, Append(L, x), W)
<1>1. Bytes(Append(L, x)) = Bytes(L) /\ ToSet(Append(L, x)) = ToSet(L) \cup {x}
  BY MutePut, LineSet
<1>. QED
  BY <1>1 DEF Inward, Numbered

\* Data is sent, within the room there is.
LEMMA InwardData ==
    ASSUME NEW s \in SockRec, NEW p \in PeerRec, NEW p2 \in PeerRec, NEW L \in Seq(Wire), NEW W \in SUBSET Wire,
           NEW x \in Wire, p2.una = p.una, p2.win = p.win, Inward(s, p, L, W),
           Span(x.seg.data, p.sent, p2.sent), p2.sent > p.sent, x.seg.seq = p.sent + 1,
           p2.sent < Len(s.read) + Ring
    PROVE  Inward(s, p2, Append(L, x), W)
<1>1. p.sent \in Int /\ p2.sent \in Int /\ Len(s.read) + Used(s) \in Int
  BY PeerNumbers, SockNumbers
<1>2. Span(Bytes(Append(L, x)), Len(s.read) + Used(s), p2.sent)
  BY <1>1, SpanPut DEF Inward
<1>3. x.seg.data[1] = x.seg.seq
  <2>1. 1 \in 1 .. Len(x.seg.data)
    BY <1>1 DEF Span
  <2>. QED
    BY <2>1 DEF Span
<1>4. Numbered(Append(L, x))
  <2>1. ToSet(Append(L, x)) = ToSet(L) \cup {x} /\ Numbered(L)
    BY LineSet DEF Inward
  <2>. QED
    BY <1>3, <2>1 DEF Numbered
<1>. QED
  BY <1>2, <1>4 DEF Inward

\* A program reads.
LEMMA InwardReads ==
    ASSUME NEW s \in SockRec, NEW p \in PeerRec, NEW L \in Seq(Wire), NEW W \in SUBSET Wire,
           Inward(s, p, L, W), NEW n \in 1 .. Used(s)
    PROVE  Inward(ReadAs(s, n), p, L, W)
<1>1. Span(s.read, 0, Len(s.read)) /\ Span(Content(s), Len(s.read), Len(s.read) + Used(s))
  BY DEF Inward
<1>2. PICK x \in SockRec : x = ReadAs(s, n)
  BY <1>1, RingReads
<1>3. /\ Used(x) = Used(s) - n /\ Len(x.read) = Len(s.read) + n /\ x.ack = s.ack
      /\ Span(x.read, 0, Len(x.read)) /\ Span(Content(x), Len(x.read), Len(x.read) + Used(x))
  BY <1>1, <1>2, RingReads
<1>4. PICK m \in Nat, u \in Nat, R \in Nat : m = Len(s.read) /\ u = Used(s) /\ n \in 1 .. u /\ R = Ring
  BY SockNumbers
<1>40. /\ (m + n) + (u - n) = m + u
       /\ \A k \in Int : (k <= m + R => k <= m + n + R) /\ (k < m + R => k < m + n + R)
  BY <1>4
<1>5. /\ Len(x.read) + Used(x) = Len(s.read) + Used(s)
      /\ \A k \in Int : (k <= Len(s.read) + Ring => k <= Len(x.read) + Ring)
                        /\ (k < Len(s.read) + Ring => k < Len(x.read) + Ring)
  BY <1>3, <1>4, <1>40
<1>6. p.sent \in Int /\ p.una + p.win \in Int /\ \A w \in W : w.seg.ack + w.seg.win \in Int
  <2>1. p.sent \in Int /\ p.una \in Int /\ p.win \in Int
    BY PeerNumbers
  <2>2. ASSUME NEW w \in W PROVE w.seg.ack + w.seg.win \in Int
    <3>1. w.seg.ack \in Int /\ w.seg.win \in Int
      BY WireFields
    <3>. QED
      BY <3>1
  <2>. QED
    BY <2>1, <2>2
<1>7. Inward(x, p, L, W)
  BY <1>3, <1>5, <1>6, SMTT(30) DEF Inward
<1>. QED
  BY <1>2, <1>7

\* Data that is in its turn is stored, and will be acknowledged by y.
LEMMA InwardStores ==
    ASSUME NEW s \in SockRec, NEW p \in PeerRec, NEW L \in Seq(Wire), NEW W \in SUBSET Wire, NEW V \in SUBSET Wire,
           NEW q \in Int, NEW y \in Wire, NEW s2 \in SockRec, NEW d \in Seq(Int), NEW a \in Int,
           Inward(s, p, L, W), L # <<>>, d = Head(L).seg.data, d # <<>>, Len(d) <= Room(s),
           a = Head(L).seg.seq + Len(d), s2 = StoredAs(s, d, a, q),
           y.seg.flag = "ACK", y.seg.ack = a, y.seg.win = Room(s2), V \in SUBSET (W \cup {y}), y \in V
    PROVE  Inward(s2, p, Tail(L), V)
<1>1. PICK m \in Nat, u \in Nat : m = Len(s.read) /\ u = Used(s) /\ Ring \in Nat
  BY SockNumbers
<1>2. p.sent \in Int /\ m + u \in Int
  BY PeerNumbers
<1>3. PICK n \in Nat : n = Len(d) /\ n >= 1
  <2>1. Len(d) \in Nat /\ Len(d) # 0
    OBVIOUS
  <2>. QED
    BY <2>1
<1>4. Span(d, m + u, m + u + n) /\ Span(Bytes(Tail(L)), m + u + n, p.sent)
  BY <1>1, <1>2, <1>3, SpanTake DEF Inward
<1>5. Head(L) \in ToSet(L) /\ Head(L) \in Wire /\ ToSet(Tail(L)) \in SUBSET ToSet(L)
  BY LineSet
<1>6. Head(L).seg.seq = m + u + 1
  <2>1. d[1] = Head(L).seg.seq
    BY <1>5 DEF Inward, Numbered, Mute
  <2>2. d[1] = m + u + 1
    <3>1. 1 \in 1 .. Len(d)
      BY <1>3
    <3>. QED
      BY <1>4, <3>1 DEF Span
  <2>. QED
    BY <2>1, <2>2
<1>7. a = m + u + n + 1
  <2>1. a = (m + u + 1) + n
    BY <1>3, <1>6
  <2>2. (m + u + 1) + n = m + u + n + 1
    OBVIOUS
  <2>. QED
    BY <2>1, <2>2
<1>8. Span(Content(s), m, m + u)
  BY <1>1 DEF Inward
<1>9. /\ Used(s2) = u + n /\ Span(Content(s2), m, m + (u + n)) /\ s2.read = s.read /\ s2.ack = a
  <2>1. m \in Int
    OBVIOUS
  <2>2. Span(Content(s), m, m + Used(s)) /\ Span(d, m + Used(s), m + Used(s) + Len(d))
    BY <1>1, <1>3, <1>4, <1>8
  <2>3. LET x == StoredAs(s, d, a, q)
        IN  Used(x) = Used(s) + Len(d) /\ Span(Content(x), m, m + Used(x)) /\ x.read = s.read /\ x.ack = a
    BY <2>1, <2>2, RingStores
  <2>. QED
    BY <1>1, <1>3, <2>3
<1>10. Room(s2) = Ring - (u + n) - 1
  BY <1>9, SockNumbers
<1>11. y.seg.ack + y.seg.win = m + Ring /\ y.seg.ack > m + (u + n)
  <2>1. PICK R \in Nat : R = Ring
    BY <1>1
  <2>2. (m + u + n + 1) + (R - (u + n) - 1) = m + R /\ m + u + n + 1 > m + (u + n)
    OBVIOUS
  <2>3. y.seg.ack = m + u + n + 1 /\ y.seg.win = R - (u + n) - 1
    BY <1>7, <1>10, <2>1
  <2>. QED
    BY <2>1, <2>2, <2>3
<1>12. \A w \in V : w.seg.ack + w.seg.win <= m + Ring
  <2>1. \A w \in W : w.seg.ack + w.seg.win <= m + Ring
    BY <1>1 DEF Inward
  <2>2. m + Ring <= m + Ring
    BY <1>1
  <2>. QED
    BY <1>11, <2>1, <2>2
<1>13. Numbered(Tail(L))
  BY <1>5 DEF Inward, Numbered
<1>14. m + u + n = m + (u + n) /\ m + u + n + 1 = m + (u + n) + 1
  OBVIOUS
<1>15. \E w \in V : w.seg.flag = "ACK" /\ w.seg.ack > m + (u + n)
  BY <1>11
<1>. QED
  BY <1>1, <1>4, <1>7, <1>9, <1>12, <1>13, <1>14, <1>15 DEF Inward

\* There is always room for it.
LEMMA InwardFits ==
    ASSUME NEW s \in SockRec, NEW p \in PeerRec, NEW L \in Seq(Wire), NEW W \in SUBSET Wire,
           Inward(s, p, L, W), L # <<>>
    PROVE  Len(Head(L).seg.data) <= Room(s)
<1>1. PICK m \in Nat, u \in Nat : m = Len(s.read) /\ u = Used(s) /\ Ring \in Nat /\ Room(s) = Ring - u - 1
  BY SockNumbers
<1>2. p.sent \in Int /\ m + u \in Int /\ p.sent < m + Ring
  BY <1>1, PeerNumbers DEF Inward
<1>3. PICK n \in Nat : n = Len(Head(L).seg.data) /\ Span(Bytes(Tail(L)), m + u + n, p.sent)
  <2>1. Span(Bytes(L), m + u, p.sent)
    BY <1>1 DEF Inward
  <2>2. Len(Head(L).seg.data) \in Nat /\ Span(Bytes(Tail(L)), m + u + Len(Head(L).seg.data), p.sent)
    BY <1>2, <2>1, SpanTake
  <2>. QED
    BY <2>2
<1>4. PICK z \in Seq(Int) : z = Bytes(Tail(L)) /\ Len(z) = p.sent - (m + u + n)
  BY <1>3 DEF Span
<1>5. PICK c \in Int, R \in Nat : c = p.sent /\ R = Ring
  BY <1>1, <1>2
<1>6. c - (m + u + n) >= 0
  <2>1. Len(z) \in Nat
    OBVIOUS
  <2>. QED
    BY <1>4, <1>5, <2>1
<1>7. c < m + R
  BY <1>2, <1>5
<1>8. n <= R - u - 1
  BY <1>6, <1>7
<1>. QED
  BY <1>1, <1>3, <1>5, <1>8

-----------------------------------------------------------------------------
(* The stream from us.                                                     *)

Early == {"synrcvd", "est", "fin"}
Late == {"closewait", "closing", "last"}

\* Nothing is said, nor heard.
LEMMA OutwardWords ==
    ASSUME NEW s \in SockRec, NEW s2 \in SockRec, NEW p \in PeerRec, NEW p2 \in PeerRec, NEW O \in Seq(Wire),
           NEW Y, NEW Z, NEW X, Outward(s, p, O, Y, Z),
           s2.port = s.port, s2.wrote = s.wrote, s2.st = s.st, s2.st = "ESTABLISHED" => s2.seq = s.seq,
           p2.got = p.got, p2.rcv = p.rcv, p2.st \in Early => p.st \in Early, p2.st \in Late => p.st \in Late,
           \A y \in X : Mute(y)
    PROVE  Outward(s2, p2, O, X, Z)
<1>1. Sent(p2, O) = Sent(p, O) /\ Base(s2) = Base(s)
  BY DEF Sent, Base
<1>. QED
  BY <1>1 DEF Outward, Early, Late

\* A program writes a byte.
LEMMA OutwardSays ==
    ASSUME NEW s \in SockRec, NEW s2 \in SockRec, NEW p \in PeerRec, NEW O \in Seq(Wire), NEW Y, NEW z \in Wire,
           Outward(s, p, O, Y, {}), s.st = "ESTABLISHED", s2.st = s.st, s2.port = s.port,
           s2.seq = s.seq + 1, s2.wrote = s.wrote + 1, z.seg.seq = s.seq, z.seg.data = <<s.wrote + 1>>
    PROVE  Outward(s2, p, O, Y, {z})
<1>1. Base(s2) = Base(s) /\ Base(s) \in Int /\ s.wrote \in Int
  BY SockNumbers DEF Base
<1>2. s.wrote = Sent(p, O) /\ s.seq = Base(s) + s.wrote
  BY DEF Outward
<1>3. z.seg.data = <<Sent(p, O) + 1>> /\ z.seg.seq = Base(s2) + Sent(p, O) /\ s2.wrote = Sent(p, O) + 1
  BY <1>1, <1>2
<1>4. s2.seq = Base(s2) + s2.wrote
  BY <1>1, <1>2
<1>5. ~Mute(z)
  BY DEF Mute
<1>. QED
  BY <1>1, <1>3, <1>4, <1>5 DEF Outward

\* It closes the connection.
LEMMA OutwardFin ==
    ASSUME NEW s \in SockRec, NEW s2 \in SockRec, NEW p \in PeerRec, NEW O \in Seq(Wire), NEW Y, NEW z \in Wire,
           Outward(s, p, O, Y, {}), s2.st = "FIN_WAIT_1", s2.port = s.port, s2.wrote = s.wrote, Mute(z)
    PROVE  Outward(s2, p, O, Y, {z})
<1>1. Base(s2) = Base(s)
  BY DEF Base
<1>. QED
  BY <1>1 DEF Outward

\* A segment without data is put on the line.
LEMMA OutwardPut ==
    ASSUME NEW s \in SockRec, NEW p \in PeerRec, NEW O \in Seq(Wire), NEW Y, NEW Z, NEW X, NEW V, NEW w \in Wire,
           Outward(s, p, O, Y, Z), Mute(w), X \in SUBSET Y, V \in SUBSET Z, Z \in SUBSET (V \cup {w})
    PROVE  Outward(s, p, Append(O, w), X, V)
<1>1. /\ Bytes(Append(O, w)) = Bytes(O) /\ ToSet(Append(O, w)) = ToSet(O) \cup {w}
  BY MutePut, LineSet
<1>2. Tidy(Append(O, w))
  BY TidyPut DEF Outward
<1>3. Sent(p, Append(O, w)) = Sent(p, O)
  BY <1>1 DEF Sent
<1>4. (\A z \in V : Mute(z)) => \A z \in Z : Mute(z)
  OBVIOUS
<1>. QED
  BY <1>1, <1>2, <1>3, <1>4 DEF Outward

\* The byte that was written is.
LEMMA OutwardData ==
    ASSUME NEW s \in SockRec, NEW p \in PeerRec, NEW O \in Seq(Wire), NEW Y, NEW Z, NEW z \in Z,
           z \in Wire, ~Mute(z), Outward(s, p, O, Y, Z), \A w \in ToSet(O) : w.seg.flag # "FIN", p.st \notin Late
    PROVE  Outward(s, p, Append(O, z), Y, {})
<1>1. ToSet(Append(O, z)) = ToSet(O) \cup {z}
  BY LineSet
<1>2. Tidy(Append(O, z))
  BY TidyPut DEF Outward
<1>3. PICK h \in Nat, g \in Nat : h = Sent(p, O) /\ g = Len(p.got)
  BY SentTyped, PeerNumbers
<1>4. /\ z.seg.data = <<h + 1>> /\ z.seg.seq = Base(s) + h /\ s.wrote = h + 1 /\ s.st = "ESTABLISHED"
  BY <1>3 DEF Outward
<1>5. Span(z.seg.data, h, h + 1)
  BY <1>3, <1>4 DEF Span
<1>6. Span(Bytes(Append(O, z)), g, h + 1)
  <2>1. Span(Bytes(O), g, h)
    BY <1>3 DEF Outward
  <2>. QED
    BY <1>3, <1>5, <2>1, SpanPut
<1>7. Sent(p, Append(O, z)) = h + 1
  <2>1. Len(Bytes(Append(O, z))) = (h + 1) - g
    BY <1>6 DEF Span
  <2>. QED
    BY <1>3, <2>1 DEF Sent
<1>8. Len(z.seg.data) = 1 /\ z.seg.seq = Base(s) + z.seg.data[1] - 1
  BY <1>3, <1>4, SockNumbers
<1>. QED
  BY <1>1, <1>2, <1>3, <1>4, <1>6, <1>7, <1>8 DEF Outward, Late

\* The host takes a segment without data.
LEMMA OutwardTakes ==
    ASSUME NEW s \in SockRec, NEW p \in PeerRec, NEW p2 \in PeerRec, NEW O \in Seq(Wire), NEW Y, NEW Z,
           Outward(s, p, O, Y, Z), O # <<>>, Mute(Head(O)), p2.got = p.got,
           p2.st \in Early => p.st \in Early /\ p2.rcv = p.rcv,
           p2.st \in Late => p.st \in Late \/ Head(O).seg.flag = "FIN"
    PROVE  Outward(s, p2, Tail(O), Y, Z)
<1>1. Bytes(Tail(O)) = Bytes(O) /\ ToSet(Tail(O)) \in SUBSET ToSet(O)
  BY MuteTake, LineSet
<1>2. Sent(p2, Tail(O)) = Sent(p, O)
  BY <1>1 DEF Sent
<1>3. Tidy(Tail(O)) /\ (p2.st \in Late => \A w \in ToSet(Tail(O)) : Mute(w))
  BY <1>1, TidyTake DEF Outward, Late
<1>. QED
  BY <1>1, <1>2, <1>3 DEF Outward, Early, Late

\* It takes one with data, which is in its turn.
LEMMA OutwardInTurn ==
    ASSUME NEW s \in SockRec, NEW p \in PeerRec, NEW O \in Seq(Wire), NEW Y, NEW Z,
           Outward(s, p, O, Y, Z), O # <<>>, ~Mute(Head(O))
    PROVE  /\ p.st \notin Late /\ Len(Head(O).seg.data) = 1
           /\ p.st \in Early => Head(O).seg.seq = p.rcv
<1>1. Head(O) \in ToSet(O)
  BY LineSet
<1>2. Span(Head(O).seg.data, Len(p.got), Len(p.got) + Len(Head(O).seg.data)) /\ Len(p.got) \in Int
  <2>1. Sent(p, O) \in Int /\ Len(p.got) \in Int
    BY SentTyped, PeerNumbers
  <2>. QED
    BY <2>1, SpanTake DEF Outward
<1>3. /\ Len(Head(O).seg.data) = 1 /\ Head(O).seg.seq = Base(s) + Head(O).seg.data[1] - 1
      /\ p.st \notin Late
  BY <1>1 DEF Outward, Late
<1>4. Head(O).seg.data[1] = Len(p.got) + 1
  BY <1>2, <1>3 DEF Span
<1>5. p.st \in Early => p.rcv = Base(s) + Len(p.got)
  BY DEF Outward, Early
<1>6. PICK b \in Int, g \in Int : b = Base(s) /\ g = Len(p.got)
  BY <1>2, SockNumbers
<1>7. Head(O).seg.seq = b + (g + 1) - 1 /\ b + (g + 1) - 1 = b + g
  BY <1>3, <1>4, <1>6
<1>. QED
  BY <1>3, <1>5, <1>6, <1>7

\* A byte arrives in its turn.
LEMMA OutwardGets ==
    ASSUME NEW s \in SockRec, NEW p \in PeerRec, NEW p2 \in PeerRec, NEW O \in Seq(Wire), NEW Y, NEW Z,
           Outward(s, p, O, Y, Z), O # <<>>, ~Mute(Head(O)), p.st \in Early, p2.st \in Early,
           p2.rcv = p.rcv + Len(Head(O).seg.data), p2.got = p.got \o Head(O).seg.data
    PROVE  Outward(s, p2, Tail(O), Y, Z)
<1>1. PICK g \in Nat, h \in Nat, d \in Seq(Int) :
          g = Len(p.got) /\ h = Sent(p, O) /\ d = Head(O).seg.data /\ Len(d) = 1
  <2>1. Len(p.got) \in Nat /\ Sent(p, O) \in Nat
    BY SentTyped, PeerNumbers
  <2>2. Head(O).seg.data \in Seq(Int)
    BY LineSet, WireFields
  <2>. QED
    BY <2>1, <2>2, OutwardInTurn
<1>2. /\ Span(d, g, g + 1) /\ Span(Bytes(Tail(O)), g + 1, h) /\ ToSet(Tail(O)) \in SUBSET ToSet(O)
  <2>1. Span(Bytes(O), g, h)
    BY <1>1 DEF Outward
  <2>2. /\ Span(Head(O).seg.data, g, g + Len(Head(O).seg.data))
        /\ Span(Bytes(Tail(O)), g + Len(Head(O).seg.data), h)
    <3>1. g \in Int /\ h \in Int
      OBVIOUS
    <3>. QED
      BY <2>1, <3>1, SpanTake
  <2>. QED
    BY <1>1, <2>2, LineSet
<1>3. Span(p2.got, 0, g + 1)
  <2>1. Span(p.got, 0, g) /\ g \in Int /\ g + 1 \in Int /\ 0 \in Int
    BY <1>1 DEF Outward
  <2>. QED
    BY <1>1, <1>2, <2>1, SpanJoin
<1>4. Len(p2.got) = g + 1
  <2>1. Len(p2.got) = (g + 1) - 0
    BY <1>3, Zenon DEF Span
  <2>2. (g + 1) - 0 = g + 1
    OBVIOUS
  <2>. QED
    BY <2>1, <2>2
<1>5. Sent(p2, Tail(O)) = h
  <2>1. Len(Bytes(Tail(O))) = h - (g + 1)
    BY <1>2 DEF Span
  <2>2. (g + 1) + (h - (g + 1)) = h
    OBVIOUS
  <2>. QED
    BY <1>4, <2>1, <2>2 DEF Sent
<1>6. p2.rcv = Base(s) + (g + 1)
  <2>1. p.rcv = Base(s) + g
    BY <1>1 DEF Outward, Early
  <2>2. PICK b \in Int : b = Base(s)
    BY SockNumbers
  <2>3. (b + g) + 1 = b + (g + 1)
    OBVIOUS
  <2>. QED
    BY <1>1, <2>1, <2>2, <2>3
<1>7. Tidy(Tail(O))
  BY TidyTake DEF Outward
<1>8. p2.st \notin Late
  BY DEF Early, Late
<1>. QED
  BY <1>1, <1>2, <1>3, <1>4, <1>5, <1>6, <1>7, <1>8 DEF Outward, Late

-----------------------------------------------------------------------------
(* The parts of a connection, in a state.                                  *)

\* What the receive thread is at was on the wire.
LEMMA RxWire ==
    ASSUME CallsTyped
    PROVE  On(rx.port, rx.seg) \in Wire /\ On(rx.port, rx.seg).seg = rx.seg /\ On(rx.port, rx.seg).port = rx.port
BY RxSet, OnIs DEF Got

\* The line to us: what the receive thread is at, and what is behind it.
LEMMA LineIs ==
    ASSUME CallsTyped, NetTyped, NEW r \in Remote
    PROVE  /\ Line(r) \in Seq(Wire) /\ in[r] \in Seq(Wire)
           /\ ~(rx.pc = "input" /\ rx.from = r) => Line(r) = in[r]
           /\ rx.pc = "input" /\ rx.from = r =>
                 /\ Line(r) # <<>> /\ Head(Line(r)) = On(rx.port, rx.seg) /\ Tail(Line(r)) = in[r]
<1>1. PICK w \in Seq(Wire) : w = in[r]
  BY DEF NetTyped
<1>2. CASE ~(rx.pc = "input" /\ rx.from = r)
  <2>1. <<>> \o w = w
    BY ConcatEmptySeq
  <2>. QED
    BY <1>1, <1>2, <2>1 DEF Line
<1>3. CASE rx.pc = "input" /\ rx.from = r
  <2>1. PICK x \in Wire : x = On(rx.port, rx.seg)
    BY RxWire
  <2>2. PICK v \in Seq(Wire) : v = <<x>> \o w
    BY Before
  <2>3. v # <<>> /\ Head(v) = x /\ Tail(v) = w
    <3>1. Len(v) = Len(w) + 1 /\ v[1] = x /\ \A l \in 1 .. Len(w) : v[l + 1] = w[l]
      BY <2>2, Before
    <3>2. Len(w) \in Nat
      OBVIOUS
    <3>3. v # <<>> /\ Head(v) = x
      BY <3>1, <3>2
    <3>4. Tail(v) \in Seq(Wire) /\ Len(Tail(v)) = Len(w) /\ \A l \in 1 .. Len(w) : Tail(v)[l] = v[l + 1]
      BY <3>1, <3>2, <3>3, HeadTailProperties
    <3>5. \A l \in 1 .. Len(w) : Tail(v)[l] = w[l]
      BY <3>1, <3>4
    <3>. QED
      BY <3>3, <3>4, <3>5, SeqEqual
  <2>. QED
    BY <1>1, <1>3, <2>1, <2>2, <2>3 DEF Line
<1>. QED
  BY <1>1, <1>2, <1>3

\* What a program is about to send.
LEMMA LeavingIs ==
    ASSUME KernelTyped, CallsTyped, NEW i \in Sock
    PROVE  /\ Leaving(i) \in SUBSET Wire
           /\ \A w \in Leaving(i) : w.port = sock[i].port
                 /\ \E t \in Thread : th[t].pc = "out" /\ th[t].s = i /\ w = On(sock[i].port, th[t].seg) /\ w.seg = th[t].seg
           /\ \A t \in Thread : th[t].pc = "out" /\ th[t].s = i => On(sock[i].port, th[t].seg) \in Leaving(i)
<1>1. sock[i].port \in Int
  BY SockFields DEF KernelTyped
<1>2. ASSUME NEW t \in Thread
      PROVE  /\ On(sock[i].port, th[t].seg) \in Wire /\ On(sock[i].port, th[t].seg).port = sock[i].port
             /\ On(sock[i].port, th[t].seg).seg = th[t].seg
  BY <1>1, CallFields, OnIs
<1>. QED
  BY <1>2 DEF Leaving

\* The parts of a connection are typed.
LEMMA ViewTyped ==
    ASSUME Inv, NEW r \in Remote
    PROVE  /\ peer[r] \in PeerRec /\ Line(r) \in Seq(Wire) /\ out[r] \in Seq(Wire) /\ in[r] \in Seq(Wire)
           /\ Answer(r) \in SUBSET Wire /\ ToSet(out[r]) \in SUBSET Wire /\ ToSet(Line(r)) \in SUBSET Wire
           /\ Socks(r) \in SUBSET Sock
           /\ \A i \in Sock : /\ sock[i] \in SockRec /\ Leaving(i) \in SUBSET Wire
                              /\ Away(r, i) \in SUBSET Wire
<1>1. KernelTyped /\ CallsTyped /\ NetTyped
  BY InvIs
<1>2. peer[r] \in PeerRec /\ out[r] \in Seq(Wire)
  BY <1>1 DEF NetTyped
<1>3. Answer(r) \in SUBSET Wire
  BY <1>1, RxWire DEF Answer
<1>4. ToSet(out[r]) \in SUBSET Wire
  BY <1>2, LineSet
<1>5. ASSUME NEW i \in Sock
      PROVE  sock[i] \in SockRec /\ Leaving(i) \in SUBSET Wire /\ Away(r, i) \in SUBSET Wire
  BY <1>1, <1>3, <1>4, LeavingIs DEF KernelTyped, Away
<1>6. Line(r) \in Seq(Wire) /\ in[r] \in Seq(Wire)
  BY <1>1, LineIs
<1>7. ToSet(Line(r)) \in SUBSET Wire
  BY <1>6, LineSet
<1>. QED
  BY <1>2, <1>3, <1>4, <1>5, <1>6, <1>7 DEF Socks

\* A host puts a segment on the line.
LEMMA LinePut ==
    ASSUME NetTyped, CallsTyped, NEW r \in Remote, NEW x \in Wire, in'[r] = Append(in[r], x), rx' = rx
    PROVE  Line(r)' = Append(Line(r), x)
<1>1. PICK w \in Seq(Wire) : w = in[r]
  BY DEF NetTyped
<1>2. ASSUME NEW v \in Seq(Wire) PROVE v \o Append(w, x) = Append(v \o w, x)
  <2>1. v \o Append(w, x) \in Seq(Wire) /\ Append(v \o w, x) \in Seq(Wire)
    OBVIOUS
  <2>2. Len(v \o Append(w, x)) = Len(v) + Len(w) + 1 /\ Len(Append(v \o w, x)) = Len(v) + Len(w) + 1
    OBVIOUS
  <2>3. ASSUME NEW k \in 1 .. Len(v) + Len(w) + 1 PROVE (v \o Append(w, x))[k] = Append(v \o w, x)[k]
    OBVIOUS
  <2>. QED
    BY <2>1, <2>2, <2>3, SeqEqual
<1>3. <<>> \in Seq(Wire) /\ <<On(rx.port, rx.seg)>> \in Seq(Wire)
  BY RxWire
<1>4. CASE rx.pc = "input" /\ rx.from = r
  BY <1>1, <1>2, <1>3, <1>4 DEF Line
<1>5. CASE ~(rx.pc = "input" /\ rx.from = r)
  BY <1>1, <1>2, <1>3, <1>5 DEF Line
<1>. QED
  BY <1>4, <1>5

\* The parts of a connection that a step elsewhere leaves alone.
HalfKept(r) ==
    Half(r)' # {} =>
        /\ Half(r) # {} /\ \A k, l \in Half(r)' : k = l /\ queue'[k].seq = 0
        /\ \E j \in Sock : sock'[j].st = "LISTEN"
\* A connection whose parts stay as they are.
LEMMA SameLink ==
    ASSUME NEW r \in Remote, Link(r), peer'[r] = peer[r], Line(r)' = Line(r), out'[r] = out[r],
           Answer(r)' = Answer(r), Socks(r)' = Socks(r), HalfKept(r),
           inTrouble \subseteq inTrouble', outTrouble \subseteq outTrouble',
           \A i \in Socks(r) : /\ sock'[i].port = sock[i].port
                               /\ sock'[i].st = "CLOSED" \/ (sock'[i] = sock[i] /\ Leaving(i)' = Leaving(i))
    PROVE  Link(r)'
<1>1. Roles(r)'
  <2>1. Roles(r)
    BY DEF Link
  <2>2. \A i \in Socks(r) : sock'[i].port = sock[i].port
    OBVIOUS
  <2>3. Half(r)' # {} => Half(r) # {} /\ (\A k, l \in Half(r)' : k = l /\ queue'[k].seq = 0) /\ \E j \in Sock : sock'[j].st = "LISTEN"
    BY DEF HalfKept
  <2>4. \A k, l \in Half(r)' : k = l /\ queue'[k].seq = 0
    BY <2>3
  <2>. QED
    BY <2>1, <2>2, <2>3, <2>4 DEF Roles
<1>2. Asking(r)' /\ Greeting(r)'
  <2>1. Half(r)' # {} => Half(r) # {}
    BY DEF HalfKept
  <2>. QED
    BY <2>1 DEF Link, Asking, Greeting
<1>3. ASSUME NEW i \in Socks(r)' PROVE Tracks(r, i)'
  <2>1. i \in Socks(r) /\ Tracks(r, i)
    BY DEF Link
  <2>2. CASE sock'[i].st = "CLOSED"
    BY <2>2 DEF Tracks
  <2>3. CASE sock'[i] = sock[i] /\ Leaving(i)' = Leaving(i)
    <3>1. Away(r, i)' = Away(r, i)
      BY <2>3 DEF Away
    <3>. QED
      BY <2>1, <2>3, <3>1 DEF Tracks
  <2>. QED
    BY <2>1, <2>2, <2>3
<1>. QED
  BY <1>1, <1>2, <1>3 DEF Link

\* A program that is sending for a socket goes on.
SameOut(u, i) ==
    /\ th'[u].pc = "out" /\ th'[u].s = i <=> th[u].pc = "out" /\ th[u].s = i
    /\ th[u].pc = "out" /\ th[u].s = i => th'[u].seg = th[u].seg
\* A program that is about to send still is.
LEMMA LeavingSame ==
    ASSUME NEW i \in Sock, sock'[i].port = sock[i].port, \A u \in Thread : SameOut(u, i)
    PROVE  Leaving(i)' = Leaving(i)
<1>1. \A u \in Thread : th'[u].pc = "out" /\ th'[u].s = i <=> th[u].pc = "out" /\ th[u].s = i
  BY DEF SameOut
<1>2. \A u \in Thread : th[u].pc = "out" /\ th[u].s = i => th'[u].seg = th[u].seg
  BY DEF SameOut
<1>3. ASSUME NEW w PROVE w \in Leaving(i)' <=> w \in Leaving(i)
  BY <1>1, <1>2 DEF Leaving
<1>. QED
  BY <1>3

Growing == inTrouble \subseteq inTrouble' /\ outTrouble \subseteq outTrouble'
\* A connection no part of which is touched.
LEMMA Untouched ==
    ASSUME NEW r \in Remote, Link(r), in'[r] = in[r], out'[r] = out[r], peer'[r] = peer[r],
           rx' = rx \/ (rx.from # r /\ rx'.from # r), HalfKept(r), Growing,
           \A j \in Sock : sock[j].remote = r \/ sock'[j].remote = r =>
              /\ sock'[j].remote = sock[j].remote /\ sock'[j].port = sock[j].port
              /\ sock'[j].st = "CLOSED" \/ (sock'[j] = sock[j] /\ \A u \in Thread : SameOut(u, j))
    PROVE  Link(r)'
<1>1. Line(r)' = Line(r) /\ Answer(r)' = Answer(r)
  BY DEF Line, Answer
<1>2. Socks(r)' = Socks(r)
  BY DEF Socks
<1>3. ASSUME NEW i \in Socks(r)
      PROVE  /\ sock'[i].port = sock[i].port
             /\ sock'[i].st = "CLOSED" \/ (sock'[i] = sock[i] /\ Leaving(i)' = Leaving(i))
  <2>1. i \in Sock /\ sock[i].remote = r
    BY DEF Socks
  <2>. QED
    BY <2>1, LeavingSame
<1>. QED
  BY <1>1, <1>2, <1>3, SameLink DEF Growing

\* The half-open connections stay as they are.
LEMMA HalfSame ==
    ASSUME NEW r \in Remote, Link(r), queue' = queue,
           \A j \in Sock : sock[j].st = "LISTEN" => sock'[j].st = "LISTEN"
    PROVE  HalfKept(r) /\ Half(r)' = Half(r)
<1>1. Half(r)' = Half(r)
  BY DEF Half
<1>2. Roles(r)
  BY DEF Link
<1>. QED
  BY <1>1, <1>2 DEF HalfKept, Roles

\* What a step may do to Roles.
LEMMA RolesMove ==
    ASSUME NEW r \in Remote, Roles(r), Socks(r)' = Socks(r), \A i \in Socks(r) : sock'[i].port = sock[i].port,
           HalfKept(r), Half(r)' # {} => peer'[r].st \in {"synsent", "est", "fin"},
           \/ \E i \in Socks(r) : sock[i].port > 0
           \/ /\ peer'[r].st = "synrcvd" => peer[r].st = "synrcvd"
              /\ \A w \in ToSet(out[r])' \cup Answer(r)' : w.seg.flag = "SYN" => w \in ToSet(out[r]) \cup Answer(r)
              /\ \A x \in ToSet(Line(r))' : x.seg.flag = "SYNACK" => x \in ToSet(Line(r)),
           \A x \in ToSet(Line(r))' : x.seg.flag = "SYN" =>
              peer'[r].st = "synsent" \/ (x \in ToSet(Line(r)) /\ peer'[r].st = peer[r].st)
    PROVE  Roles(r)'
<1>1. \/ peer'[r].st = "synrcvd" \/ \E w \in ToSet(out[r])' \cup Answer(r)' : w.seg.flag = "SYN"
      \/ \E x \in ToSet(Line(r))' : x.seg.flag = "SYNACK"
      => \E i \in Socks(r)' : sock'[i].port > 0
  BY DEF Roles
<1>2. \A x \in ToSet(Line(r))' : x.seg.flag = "SYN" => peer'[r].st = "synsent"
  BY DEF Roles
<1>3. \A k, l \in Half(r)' : k = l /\ queue'[k].seq = 0
  BY DEF HalfKept
<1>4. Half(r)' # {} => /\ Socks(r)' = {} /\ peer'[r].st \in {"synsent", "est", "fin"}
                       /\ \E j \in Sock : sock'[j].st = "LISTEN"
  BY DEF Roles, HalfKept
<1>5. \A i, j \in Socks(r)' : i = j
  BY DEF Roles
<1>. QED
  BY <1>1, <1>2, <1>3, <1>4, <1>5 DEF Roles

-----------------------------------------------------------------------------
(* The parts that hold in general.                                         *)

\* The parts of Flow,
LEMMA FlowIs ==
    ASSUME Flow
    PROVE  Steady /\ OpenListed /\ Blank /\ Numbers /\ Spoken /\ \A r \in Remote : Good(r) => Link(r)
BY DEF Flow, Steady

\* and what is needed to keep them.
LEMMA FlowGoes ==
    ASSUME Flow, Growing, Steady', \A r \in Remote : Good(r) /\ Good(r)' /\ Link(r) => Link(r)'
    PROVE  Flow'
<1>1. \A r \in Remote : Good(r)' => Good(r)
  BY DEF Growing, Good
<1>. QED
  BY <1>1 DEF Flow

\* Only connect says SYN: when a call moves on,
LEMMA SpokenCall ==
    ASSUME CallsTyped, Spoken, NEW t \in Thread, NEW c \in CallRec, Calling(t, c),
           c.pc = "out" /\ c.seg.flag = "SYN" => c.op = "connect"
    PROVE  Spoken'
<1>1. th'[t] = c /\ \A u \in Thread : u # t => th'[u] = th[u]
  BY CallSet
<1>. QED
  BY <1>1 DEF Spoken

\* and when it is woken.
LEMMA SpokenWake ==
    ASSUME CallsTyped, Spoken, NEW i, th' = Wakeup(i)
    PROVE  Spoken'
<1>1. \A t \in Thread : IF th[t].pc = "asleep" /\ th[t].s = i THEN th'[t].pc = "test" ELSE th'[t] = th[t]
  BY WakeupTyped
<1>. QED
  BY <1>1 DEF Spoken

\* Open sockets stay in the list: when nothing changes,
LEMMA OpenKept ==
    ASSUME OpenListed, list' = list,
           \A i \in Sock : sock'[i].st # "CLOSED" \/ Held(i)' => sock[i].st # "CLOSED" \/ Held(i)
    PROVE  OpenListed'
<1>1. Listed' = Listed
  BY DEF Listed
<1>. QED
  BY <1>1 DEF OpenListed

\* when a socket enters,
LEMMA OpenEnters ==
    ASSUME Inv, OpenListed, NEW i \in Sock, sock[i].mem # "live", list' = <<i>> \o list,
           \A j \in Sock : j # i /\ (sock'[j].st # "CLOSED" \/ Held(j)') => sock[j].st # "CLOSED" \/ Held(j)
    PROVE  OpenListed'
<1>1. i \notin Listed /\ KernelTyped /\ Once
  BY InvIs DEF Blocks
<1>2. Listed' = Listed \cup {i}
  BY <1>1, EntersList
<1>. QED
  BY <1>2 DEF OpenListed

\* and when one leaves.
LEMMA OpenLeaves ==
    ASSUME Inv, OpenListed, NEW i \in Sock, list' = Unlisted(i), sock'[i].st = "CLOSED", ~Held(i)',
           \A j \in Sock : j # i /\ (sock'[j].st # "CLOSED" \/ Held(j)') => sock[j].st # "CLOSED" \/ Held(j)
    PROVE  OpenListed'
<1>1. KernelTyped /\ Once
  BY InvIs
<1>2. Listed' = Listed \ {i}
  BY <1>1, LeavesList
<1>. QED
  BY <1>2 DEF OpenListed

\* The hosts stay as they are.
LEMMA NumbersSame ==
    ASSUME Numbers, peer' = peer
    PROVE  Numbers'
BY DEF Numbers

\* The sockets of a host stay the same.
LEMMA SocksSame ==
    ASSUME Steady, sock' = sock, list' = list, holds' = holds
    PROVE  OpenListed' /\ Blank'
<1>1. OpenListed'
  BY OpenKept DEF Steady, Held
<1>. QED
  BY <1>1 DEF Steady, Blank

\* A call goes on, and nothing is sent.
LEMMA CallFlow ==
    ASSUME Inv, Flow, NEW t \in Thread, NEW c \in CallRec, Calling(t, c), th[t].pc # "out", c.pc # "out",
           UNCHANGED <<kernel, holds, rx, net, well>>
    PROVE  Flow'
<1>1. UNCHANGED <<sock, list, queue, in, out, peer, inTrouble, outTrouble, holds, rx>>
  BY DEF kernel, net, well
<1>2. CallsTyped /\ th'[t] = c /\ \A u \in Thread : u # t => th'[u] = th[u]
  BY InvIs, CallSet
<1>3. Steady'
  <2>1. Spoken'
    BY <1>2, FlowIs, SpokenCall
  <2>2. OpenListed' /\ Blank' /\ Numbers'
    BY <1>1, FlowIs, SocksSame, NumbersSame
  <2>. QED
    BY <2>1, <2>2 DEF Steady
<1>4. ASSUME NEW r \in Remote, Link(r) PROVE Link(r)'
  <2>1. HalfKept(r)
    BY <1>1, <1>4, HalfSame
  <2>2. \A u \in Thread, j \in Sock : SameOut(u, j)
    BY <1>2 DEF SameOut
  <2>. QED
    BY <1>1, <1>4, <2>1, <2>2, Untouched DEF Growing
<1>. QED
  BY <1>1, <1>3, <1>4, FlowGoes DEF Growing

\* The steps of the programs.
LEMMA ConnectTestFlow ==
    ASSUME Inv, Flow, NEW t \in Thread, ConnectTest(t)
    PROVE  Flow'
<1>1. PICK c : /\ Calling(t, c) /\ th[t].pc = "test" /\ c \in {[th[t] EXCEPT !.pc = "asleep"], User}
               /\ UNCHANGED <<kernel, holds, rx, net, well>>
  BY DEF ConnectTest
<1>2. c \in CallRec /\ c.pc # "out"
  BY <1>1, InvIs, CallFields, UserIs
<1>. QED
  BY <1>1, <1>2, CallFlow

\* accept begins,
LEMMA AcceptFlow ==
    ASSUME Inv, Flow, NEW t \in Thread, Accept(t)
    PROVE  Flow'
<1>1. PICK i \in holds[t] : Calling(t, Begin(t, "accept", i))
  BY DEF Accept
<1>2. i \in Sock /\ th[t].pc = "user" /\ UNCHANGED <<kernel, holds, rx, net, well>>
  BY InvIs, UserIs DEF Accept
<1>3. Begin(t, "accept", i) \in CallRec /\ Begin(t, "accept", i).pc # "out"
  BY <1>2, BeginTyped
<1>. QED
  BY <1>1, <1>2, <1>3, CallFlow

\* recvfrom begins,
LEMMA RecvFlow ==
    ASSUME Inv, Flow, NEW t \in Thread, NEW i \in Sock, Recv(t, i)
    PROVE  Flow'
<1>1. Calling(t, Begin(t, "recv", i)) /\ th[t].pc = "user" /\ UNCHANGED <<kernel, holds, rx, net, well>>
  BY UserIs DEF Recv
<1>2. Begin(t, "recv", i) \in CallRec /\ Begin(t, "recv", i).pc # "out"
  BY BeginTyped
<1>. QED
  BY <1>1, <1>2, CallFlow

-----------------------------------------------------------------------------
(* Calls.                                                                  *)

\* A step at one socket leaves the other hosts alone.
LEMMA OtherSock ==
    ASSUME NEW r \in Remote, Link(r), in' = in, out' = out, peer' = peer, rx' = rx, HalfKept(r), Growing,
           NEW i \in Sock, sock[i].remote # r, sock'[i].remote # r,
           \A j \in Sock : j # i => sock'[j] = sock[j] /\ \A u \in Thread : SameOut(u, j)
    PROVE  Link(r)'
<1>1. ASSUME NEW j \in Sock, sock[j].remote = r \/ sock'[j].remote = r
      PROVE  /\ sock'[j].remote = sock[j].remote /\ sock'[j].port = sock[j].port
             /\ sock'[j] = sock[j] /\ \A u \in Thread : SameOut(u, j)
  BY <1>1
<1>. QED
  BY <1>1, Untouched

\* A session leaves the queue.
LEMMA HalfRemove ==
    ASSUME NEW r \in Remote, Link(r), KernelTyped, NEW n \in DOMAIN queue, queue[n].s # None,
           queue' = RemoveAt(queue, n), sock' = sock
    PROVE  HalfKept(r)
<1>1. DOMAIN queue = 1 .. Len(queue) /\ Len(queue) \in Nat /\ queue \in Seq(QueueRec)
  BY DEF KernelTyped
<1>2. /\ DOMAIN queue' = 1 .. Len(queue) - 1
      /\ \A l \in 1 .. Len(queue) - 1 : queue'[l] = IF l < n THEN queue[l] ELSE queue[l + 1]
  <2>1. /\ RemoveAt(queue, n) \in Seq(QueueRec) /\ Len(RemoveAt(queue, n)) = Len(queue) - 1
        /\ \A l \in 1 .. Len(queue) - 1 : RemoveAt(queue, n)[l] = IF l < n THEN queue[l] ELSE queue[l + 1]
    BY <1>1, Cut, Zenon
  <2>. QED
    BY <2>1
<1>. DEFINE g(k) == IF k < n THEN k ELSE k + 1
<1>3. ASSUME NEW k \in Half(r)' PROVE k \in Int /\ g(k) \in Half(r) /\ queue'[k] = queue[g(k)]
  <2>1. k \in 1 .. Len(queue) - 1 /\ queue'[k].r = r /\ queue'[k].s = None
    BY <1>2 DEF Half
  <2>2. g(k) \in 1 .. Len(queue) /\ queue'[k] = queue[g(k)] /\ k \in Int
    BY <1>1, <1>2, <2>1
  <2>. QED
    BY <1>1, <2>1, <2>2 DEF Half
<1>4. Roles(r)
  BY DEF Link
<1>5. ASSUME NEW k \in Half(r)', NEW l \in Half(r)' PROVE k = l /\ queue'[k].seq = 0
  <2>1. g(k) = g(l) /\ queue[g(k)].seq = 0
    BY <1>3, <1>4 DEF Roles
  <2>2. n \in Int /\ k \in Int /\ l \in Int /\ g(k) # n /\ g(l) # n
    <3>1. \A k1 \in Half(r) : queue[k1].s = None
      BY DEF Half
    <3>. QED
      BY <1>1, <1>3, <3>1
  <2>. QED
    BY <1>3, <2>1, <2>2
<1>. HIDE DEF g
<1>6. Half(r)' # {} => Half(r) # {} /\ \E j \in Sock : sock[j].st = "LISTEN"
  BY <1>3, <1>4 DEF Roles
<1>. QED
  BY <1>5, <1>6 DEF HalfKept

\* accept takes a session off the queue,
LEMMA AcceptTestFlow ==
    ASSUME Inv, Flow, NEW t \in Thread, AcceptTest(t)
    PROVE  Flow'
<1>1. /\ th[t].pc = "test" /\ sock' = sock /\ list' = list /\ rx' = rx
      /\ in' = in /\ out' = out /\ peer' = peer
  BY DEF AcceptTest, net
<1>2. CASE Calling(t, [th[t] EXCEPT !.pc = "asleep"]) /\ UNCHANGED <<queue, holds, well>>
  <2>1. [th[t] EXCEPT !.pc = "asleep"] \in CallRec /\ [th[t] EXCEPT !.pc = "asleep"].pc = "asleep"
    BY InvIs, CallFields
  <2>2. UNCHANGED <<kernel, holds, rx, net, well>>
    BY <1>1, <1>2 DEF kernel, net
  <2>. QED
    BY <1>1, <1>2, <2>1, <2>2, CallFlow
<1>3. CASE /\ Ready # {} /\ Calling(t, User) /\ queue' = RemoveAt(queue, Min(Ready))
           /\ \/ holds' = [holds EXCEPT ![t] = @ \cup {queue[Min(Ready)].s}] /\ UNCHANGED well
              \/ Fails(queue[Min(Ready)].r) /\ UNCHANGED holds
  <2>1. PICK n : n = Min(Ready)
    OBVIOUS
  <2>2. /\ n \in DOMAIN queue /\ queue[n].s # None /\ sock[queue[n].s].st = "ESTABLISHED"
        /\ queue[n] \in QueueRec
    <3>1. DOMAIN queue \in SUBSET Nat /\ queue \in Seq(QueueRec)
      BY InvIs DEF KernelTyped
    <3>2. Ready \in SUBSET Nat
      BY <3>1 DEF Ready
    <3>3. n \in Ready
      BY <1>3, <2>1, <3>2, MinIsIn
    <3>4. n \in DOMAIN queue /\ queue[n].s # None /\ sock[queue[n].s].st = "ESTABLISHED"
      BY <3>3 DEF Ready
    <3>. QED
      BY <3>1, <3>4
  <2>3. PICK i \in Sock : i = queue[n].s
    BY <2>2 DEF QueueRec
  <2>4. CallsTyped /\ th'[t] = User /\ \A u \in Thread : u # t => th'[u] = th[u]
    BY <1>3, InvIs, UserIs, CallSet
  <2>5. Growing
    <3>1. CASE UNCHANGED well
      BY <3>1 DEF well, Growing
    <3>2. CASE Fails(queue[n].r)
      BY <3>2 DEF Fails, Growing
    <3>. QED
      BY <1>3, <2>1, <3>1, <3>2
  <2>6. Steady'
    <3>1. Spoken'
      BY <1>3, <2>4, FlowIs, SpokenCall, UserIs
    <3>2. \A j \in Sock : Held(j)' => Held(j) \/ j = i
      <4>1. CASE holds' = [holds EXCEPT ![t] = @ \cup {i}]
        BY <4>1, InvIs DEF Held, CallsTyped
      <4>2. CASE holds' = holds
        BY <4>2 DEF Held
      <4>. QED
        BY <1>3, <2>1, <2>3, <4>1, <4>2
    <3>3. OpenListed'
      BY <1>1, <2>2, <2>3, <3>2, FlowIs, OpenKept
    <3>4. Blank' /\ Numbers'
      BY <1>1, FlowIs, NumbersSame DEF Blank
    <3>. QED
      BY <3>1, <3>3, <3>4 DEF Steady
  <2>7. ASSUME NEW r \in Remote, Link(r) PROVE Link(r)'
    <3>1. HalfKept(r)
      BY <1>1, <1>3, <2>1, <2>2, <2>7, InvIs, HalfRemove
    <3>2. \A u \in Thread, j \in Sock : SameOut(u, j)
      BY <1>1, <2>4, UserIs DEF SameOut
    <3>. QED
      BY <1>1, <2>5, <2>7, <3>1, <3>2, Untouched
  <2>. QED
    BY <2>5, <2>6, <2>7, FlowGoes
<1>. QED
  BY <1>2, <1>3 DEF AcceptTest

\* A new socket is not in use.
LEMMA FreshSock ==
    ASSUME Inv, NEW i \in Fresh
    PROVE  /\ i \in Sock /\ sock[i].mem = "none" /\ sock[i].remote = None /\ sock[i].st = "CLOSED"
           /\ sock[i] \in SockRec
           /\ i \notin Listed /\ \A u \in Thread : ~(th[u].pc = "out" /\ th[u].s = i)
<1>1. i \in Sock /\ sock[i].mem = "none"
  BY FreshIs
<1>2. sock[i].remote = None /\ sock[i].st = "CLOSED" /\ i \notin Listed /\ \A u \in Thread : th[u].s # i
  BY <1>1, Unseen
<1>3. sock[i] \in SockRec
  BY <1>1, InvIs
<1>. QED
  BY <1>1, <1>2, <1>3

\* a server gets its socket,
LEMMA BindFlow ==
    ASSUME Inv, Inv', Flow, NEW t \in Thread, Bind(t)
    PROVE  Flow'
<1>1. PICK i \in Fresh : /\ sock' = [sock EXCEPT ![i].mem = "live", ![i].port = WellKnown]
                         /\ list' = <<i>> \o list /\ holds' = [holds EXCEPT ![t] = @ \cup {i}]
  BY DEF Bind
<1>2. /\ queue' = queue /\ th' = th /\ rx' = rx /\ in' = in /\ out' = out /\ peer' = peer
      /\ inTrouble' = inTrouble /\ outTrouble' = outTrouble
  BY DEF Bind, net, well
<1>3. i \in Sock /\ sock[i].mem = "none" /\ sock[i].remote = None /\ sock[i].st = "CLOSED" /\ sock[i] \in SockRec
  BY FreshSock
<1>4. /\ sock'[i].remote = None /\ sock'[i].st = "CLOSED" /\ sock'[i].seq = sock[i].seq
      /\ \A j \in Sock : j # i => sock'[j] = sock[j]
  <2>1. sock'[i] = [sock[i] EXCEPT !.mem = "live", !.port = WellKnown] /\ \A j \in Sock : j # i => sock'[j] = sock[j]
    BY <1>1, <1>3, InvIs DEF KernelTyped
  <2>. QED
    BY <1>3, <2>1 DEF SockRec
<1>5. Steady'
  <2>1. \A j \in Sock : j # i /\ Held(j)' => Held(j)
    BY <1>1, InvIs DEF Held, CallsTyped
  <2>2. OpenListed'
    BY <1>1, <1>3, <1>4, <2>1, FlowIs, OpenEnters
  <2>3. Blank' /\ Numbers' /\ Spoken'
    BY <1>2, <1>3, <1>4, FlowIs, NumbersSame DEF Blank, Spoken
  <2>. QED
    BY <2>2, <2>3 DEF Steady
<1>6. ASSUME NEW r \in Remote, Link(r) PROVE Link(r)'
  <2>1. HalfKept(r)
    BY <1>2, <1>3, <1>4, <1>6, HalfSame
  <2>2. sock[i].remote # r /\ sock'[i].remote # r
    BY <1>3, <1>4, Sizes
  <2>3. \A u \in Thread, j \in Sock : SameOut(u, j)
    BY <1>2 DEF SameOut
  <2>. QED
    BY <1>2, <1>3, <1>4, <1>6, <2>1, <2>2, <2>3, OtherSock DEF Growing
<1>. QED
  BY <1>2, <1>5, <1>6, FlowGoes DEF Growing

\* and listens.
LEMMA ListenFlow ==
    ASSUME Inv, Inv', Flow, NEW t \in Thread, Listen(t)
    PROVE  Flow'
<1>1. PICK i \in holds[t] : sock[i].port = WellKnown /\ sock[i].st = "CLOSED" /\ sock' = [sock EXCEPT ![i].st = "LISTEN"]
  BY DEF Listen
<1>2. /\ list' = list /\ holds' = holds
      /\ queue' = queue /\ th' = th /\ rx' = rx /\ in' = in /\ out' = out /\ peer' = peer
      /\ inTrouble' = inTrouble /\ outTrouble' = outTrouble
  BY DEF Listen, net, well
<1>3. i \in Sock /\ sock[i] \in SockRec /\ sock[i].remote = None
  BY <1>1, InvIs DEF HoldsOk
<1>4. /\ sock'[i].remote = None /\ sock'[i].st = "LISTEN" /\ sock'[i].seq = sock[i].seq
      /\ \A j \in Sock : j # i => sock'[j] = sock[j]
  <2>1. sock'[i] = [sock[i] EXCEPT !.st = "LISTEN"] /\ \A j \in Sock : j # i => sock'[j] = sock[j]
    BY <1>1, <1>3, InvIs DEF KernelTyped
  <2>. QED
    BY <1>3, <2>1 DEF SockRec
<1>5. Steady'
  <2>1. Held(i) /\ \A j \in Sock : Held(j)' <=> Held(j)
    BY <1>2 DEF Held
  <2>2. OpenListed'
    BY <1>2, <1>4, <2>1, FlowIs, OpenKept
  <2>3. Blank' /\ Numbers' /\ Spoken'
    BY <1>2, <1>3, <1>4, FlowIs, NumbersSame DEF Blank, Spoken
  <2>. QED
    BY <2>2, <2>3 DEF Steady
<1>6. ASSUME NEW r \in Remote, Link(r) PROVE Link(r)'
  <2>1. HalfKept(r)
    BY <1>1, <1>2, <1>3, <1>4, <1>6, HalfSame
  <2>2. sock[i].remote # r /\ sock'[i].remote # r
    BY <1>3, <1>4, Sizes
  <2>3. \A u \in Thread, j \in Sock : SameOut(u, j)
    BY <1>2 DEF SameOut
  <2>. QED
    BY <1>2, <1>3, <1>4, <1>6, <2>1, <2>2, <2>3, OtherSock DEF Growing
<1>. QED
  BY <1>2, <1>5, <1>6, FlowGoes DEF Growing

\* A step that concerns one remote host.
LEMMA NearFlow ==
    ASSUME Flow, Growing, Steady', NEW r \in Remote,
           rx' = rx \/ (rx.from \in {r, None} /\ rx'.from \in {r, None}),
           \A q \in Remote : q # r /\ Link(q) =>
              in'[q] = in[q] /\ out'[q] = out[q] /\ peer'[q] = peer[q] /\ HalfKept(q),
           \A j \in Sock : \/ sock[j].remote \in {r, None} /\ sock'[j].remote \in {r, None}
                           \/ sock'[j] = sock[j] /\ \A u \in Thread : SameOut(u, j),
           Good(r) /\ Good(r)' /\ Link(r) => Link(r)'
    PROVE  Flow'
<1>1. ASSUME NEW q \in Remote, q # r, Link(q) PROVE Link(q)'
  <2>1. q # None
    BY Sizes
  <2>2. rx' = rx \/ (rx.from # q /\ rx'.from # q)
    BY <1>1, <2>1
  <2>3. ASSUME NEW j \in Sock, sock[j].remote = q \/ sock'[j].remote = q
        PROVE  sock'[j] = sock[j] /\ \A u \in Thread : SameOut(u, j)
    BY <1>1, <2>1, <2>3
  <2>4. in'[q] = in[q] /\ out'[q] = out[q] /\ peer'[q] = peer[q] /\ HalfKept(q)
    BY <1>1
  <2>. QED
    BY <1>1, <2>2, <2>3, <2>4, Untouched
<1>. QED
  BY <1>1, FlowGoes

\* The parts of a step at one connection,
LEMMA FocusIs ==
    ASSUME NEW r \in Remote, Link(r), NEW i \in Sock, sock[i].remote = r
    PROVE  /\ i \in Socks(r) /\ Roles(r) /\ Tracks(r, i) /\ Half(r) = {} /\ peer[r].st # "synsent"
           /\ Socks(r) = {i} /\ \A x \in ToSet(Line(r)) : x.seg.flag # "SYN"
           /\ \A j \in Sock : sock[j].remote = r => j = i
<1>1. i \in Socks(r)
  BY DEF Socks
<1>2. Roles(r) /\ Tracks(r, i) /\ peer[r].st # "synsent"
  BY <1>1 DEF Link, Asking
<1>3. Half(r) = {} /\ \A x \in ToSet(Line(r)) : x.seg.flag # "SYN"
  BY <1>1, <1>2 DEF Roles
<1>4. \A j \in Socks(r) : j = i
  BY <1>1, <1>2 DEF Roles
<1>. QED
  BY <1>1, <1>2, <1>3, <1>4 DEF Socks

\* and what it leaves to show.
LEMMA FocusLink ==
    ASSUME NEW r \in Remote, NEW i \in Sock, sock'[i].remote = r, Roles(r)', peer'[r].st # "synsent",
           Tracks(r, i)'
    PROVE  Link(r)'
<1>1. i \in Socks(r)'
  BY DEF Socks
<1>2. Half(r)' = {} /\ \A j \in Socks(r)' : j = i
  BY <1>1 DEF Roles
<1>3. Asking(r)' /\ Greeting(r)'
  BY <1>2 DEF Asking, Greeting
<1>. QED
  BY <1>2, <1>3 DEF Link

\* What is sent for a socket that a program is about to use.
LEMMA LeavingNone ==
    ASSUME Inv, NEW t \in Thread, NEW i \in holds[t], th[t].pc # "out"
    PROVE  Leaving(i) = {}
<1>1. ASSUME NEW u \in Thread, th[u].pc = "out", th[u].s = i PROVE FALSE
  <2>1. CallOk(u) /\ Held(i)
    BY CallKnows DEF Held
  <2>2. i \in holds[u]
    BY <1>1, <2>1 DEF CallOk
  <2>. QED
    BY <1>1, <2>2, Exclusive
<1>. QED
  BY <1>1 DEF Leaving

\* A program is the only one about to send for a socket,
LEMMA LeavingOne ==
    ASSUME NEW i \in Sock, Leaving(i) = {}, NEW t \in Thread, th'[t].pc = "out", th'[t].s = i,
           \A u \in Thread : u # t => th'[u] = th[u]
    PROVE  Leaving(i)' = {On(sock'[i].port, th'[t].seg)}
<1>1. \A u \in Thread : ~(th[u].pc = "out" /\ th[u].s = i)
  BY DEF Leaving
<1>2. \A u \in Thread : th'[u].pc = "out" /\ th'[u].s = i <=> u = t
  BY <1>1
<1>. QED
  BY <1>2 DEF Leaving

\* so that it leaves alone.
LEMMA OneLeaves ==
    ASSUME Inv, NEW t \in Thread, NEW u \in Thread, NEW i \in Sock, sock[i].st = "ESTABLISHED",
           th[t].pc = "out", th[t].s = i, th[u].pc = "out", th[u].s = i
    PROVE  t = u /\ i \in holds[t]
<1>1. i \in holds[t] /\ i \in holds[u]
  BY CallKnows DEF CallOk
<1>. QED
  BY <1>1, Exclusive

\* The parts of a connection are typed after a step.
LEMMA NewTyped ==
    ASSUME Inv'
    PROVE  /\ KernelTyped' /\ CallsTyped' /\ NetTyped' /\ Objects' /\ ThreadsOk'
           /\ \A i \in Sock : sock'[i] \in SockRec
<1>1. KernelTyped' /\ CallsTyped' /\ NetTyped' /\ Objects' /\ ThreadsOk'
  BY DEF Inv, Types, Objects
<1>. QED
  BY <1>1 DEF KernelTyped

\* connect: the SYN leaves.
LEMMA ConnectFlow ==
    ASSUME Inv, Inv', Flow, NEW t \in Thread, NEW r \in Remote, Connect(t, r)
    PROVE  Flow'
<1>0. PICK i \in Fresh : \E p \in 1 .. MaxSock :
          /\ FreePort(p)
          /\ sock' = [sock EXCEPT ![i] = [NoSock EXCEPT !.mem = "live", !.port = p, !.remote = r,
                                                        !.seq = 1000, !.st = "SYN_SENT"]]
          /\ list' = <<i>> \o list
          /\ holds' = [holds EXCEPT ![t] = @ \cup {i}]
          /\ Calling(t, Sending(t, "connect", i, Seg("SYN", 1000, 0, Notice, <<>>)))
  BY Zenon DEF Connect
<1>1. PICK p \in 1 .. MaxSock :
          /\ sock' = [sock EXCEPT ![i] = [NoSock EXCEPT !.mem = "live", !.port = p, !.remote = r,
                                                        !.seq = 1000, !.st = "SYN_SENT"]]
          /\ list' = <<i>> \o list
          /\ holds' = [holds EXCEPT ![t] = @ \cup {i}]
          /\ Calling(t, Sending(t, "connect", i, Seg("SYN", 1000, 0, Notice, <<>>)))
  BY <1>0, ZenonT(30)
<1>2. /\ queue' = queue /\ rx' = rx /\ in' = in /\ out' = out /\ peer' = peer
      /\ inTrouble' = inTrouble /\ outTrouble' = outTrouble
      /\ th[t] = User /\ peer[r].st = "closed" /\ \A j \in Sock : sock[j].remote # r
  BY DEF Connect, net, well
<1>3. /\ i \in Sock /\ sock[i].mem = "none" /\ sock[i].remote = None /\ sock[i].st = "CLOSED"
      /\ \A u \in Thread : ~(th[u].pc = "out" /\ th[u].s = i)
  BY FreshSock
<1>. DEFINE g == Seg("SYN", 1000, 0, Notice, <<>>)
            c == Sending(t, "connect", i, g)
<1>4. p \in Int /\ p > 0 /\ g \in SegRec
  BY Sizes, AnswerTyped
<1>5. c \in CallRec /\ c.pc = "out" /\ c.op = "connect" /\ c.s = i /\ c.seg = g
  BY <1>3, <1>4, SendingTyped DEF Sending
<1>6. th'[t] = c /\ \A u \in Thread : u # t => th'[u] = th[u]
  BY <1>1, <1>5, InvIs, CallSet
<1>. HIDE DEF c
<1>7. /\ sock'[i].remote = r /\ sock'[i].st = "SYN_SENT" /\ sock'[i].port = p
      /\ sock'[i].read = <<>> /\ sock'[i].head = sock'[i].tail /\ sock'[i].wrote = 0
      /\ \A j \in Sock : j # i => sock'[j] = sock[j]
  <2>1. /\ sock'[i] = [NoSock EXCEPT !.mem = "live", !.port = p, !.remote = r, !.seq = 1000, !.st = "SYN_SENT"]
        /\ \A j \in Sock : j # i => sock'[j] = sock[j]
    BY <1>1, <1>3, InvIs DEF KernelTyped
  <2>. QED
    BY <2>1 DEF NoSock
<1>8. th[t].pc = "user"
  BY <1>2, UserIs
<1>9. Steady'
  <2>1. \A j \in Sock : j # i /\ Held(j)' => Held(j)
    BY <1>1, InvIs DEF Held, CallsTyped
  <2>2. OpenListed'
    BY <1>1, <1>3, <1>7, <2>1, FlowIs, OpenEnters, SMTT(30)
  <2>3. Spoken'
    BY <1>1, <1>5, FlowIs, InvIs, SpokenCall DEF c
  <2>4. Blank' /\ Numbers'
    BY <1>2, <1>7, Sizes, FlowIs, NumbersSame DEF Blank
  <2>. QED
    BY <2>2, <2>3, <2>4 DEF Steady
<1>10. ASSUME NEW q \in Remote, Link(q) PROVE HalfKept(q) /\ Half(q)' = Half(q)
  <2>1. \A j \in Sock : sock[j].st = "LISTEN" => sock'[j].st = "LISTEN"
    BY <1>3, <1>7
  <2>. QED
    BY <1>2, <1>10, <2>1, HalfSame
<1>11. ASSUME NEW j \in Sock, j # i PROVE sock'[j] = sock[j] /\ \A u \in Thread : SameOut(u, j)
  BY <1>5, <1>6, <1>7, <1>8, <1>11 DEF SameOut
<1>12. ASSUME Link(r) PROVE Link(r)'
  <2>1. in[r] = <<>> /\ out[r] = <<>> /\ rx.from # r
    BY <1>2, InvIs DEF Quietness, Unsaid, Silent
  <2>2. Line(r)' = <<>> /\ Answer(r)' = {} /\ ToSet(Line(r))' = {} /\ ToSet(out[r])' = {}
    <3>1. Line(r)' = <<>> \o <<>> /\ Answer(r)' = {}
      BY <1>2, <2>1 DEF Line, Answer
    <3>2. <<>> \o <<>> = <<>> /\ ToSet(<<>>) = {}
      <4>1. ASSUME NEW w \in Seq(Wire), w = <<>> PROVE w \o <<>> = w /\ ToSet(w) = {}
        <5>1. w \o <<>> = w
          BY ConcatEmptySeq
        <5>. QED
          BY <4>1, <5>1, LineSet
      <4>2. <<>> \in Seq(Wire)
        OBVIOUS
      <4>. QED
        BY <4>1, <4>2
    <3>. QED
      BY <1>2, <2>1, <3>1, <3>2
  <2>3. Half(r)' = {}
    <3>1. Roles(r)
      BY <1>12 DEF Link
    <3>2. Half(r) = {}
      BY <1>2, <3>1 DEF Roles
    <3>. QED
      BY <1>10, <1>12, <3>2
  <2>4. \A j \in Socks(r)' : j = i
    BY <1>2, <1>7 DEF Socks
  <2>5. peer'[r] = NoPeer
    BY <1>2, FlowIs DEF Numbers
  <2>6. Roles(r)'
    BY <1>2, <2>2, <2>3, <2>4 DEF Roles
  <2>7. Leaving(i)' = {Dial(p)}
    <3>1. Leaving(i) = {}
      BY <1>3 DEF Leaving
    <3>2. Leaving(i)' = {On(sock'[i].port, th'[t].seg)}
      BY <1>3, <1>5, <1>6, <3>1, LeavingOne
    <3>. QED
      BY <1>5, <1>6, <1>7, <3>2 DEF Dial
  <2>8. Away(r, i)' = {Dial(p)}
    BY <2>2, <2>7 DEF Away
  <2>9. Tracks(r, i)'
    BY <1>4, <1>7, <2>2, <2>5, <2>8 DEF Tracks, Opens
  <2>. QED
    BY <1>2, <1>3, <1>7, <2>6, <2>9, FocusLink
<1>. QED
  BY <1>2, <1>3, <1>7, <1>9, <1>10, <1>11, <1>12, NearFlow DEF Growing

\* A program reads.
LEMMA RecvTestFlow ==
    ASSUME Inv, Inv', Flow, NEW t \in Thread, RecvTest(t)
    PROVE  Flow'
<1>1. PICK i : /\ i = th[t].s
               /\ \/ /\ Calling(t, IF sock[i].st = "ESTABLISHED" THEN [th[t] EXCEPT !.pc = "asleep"] ELSE User)
                     /\ UNCHANGED sock
                  \/ /\ sock[i].head # sock[i].tail /\ Calling(t, User)
                     /\ \E n \in 1 .. Used(sock[i]) :
                           sock' = [sock EXCEPT ![i].tail = (@ + n) % Ring,
                                                ![i].buf = [k \in 0 .. Ring - 1 |->
                                                    IF (k - sock[i].tail) % Ring < n THEN 0 ELSE sock[i].buf[k]],
                                                ![i].read = @ \o SubSeq(Content(sock[i]), 1, n)]
  BY Zenon DEF RecvTest
<1>2. /\ th[t].pc = "test" /\ list' = list /\ queue' = queue /\ holds' = holds /\ rx' = rx
      /\ in' = in /\ out' = out /\ peer' = peer /\ inTrouble' = inTrouble /\ outTrouble' = outTrouble
  BY ZenonT(30) DEF RecvTest, net, well
<1>3. i \in Sock /\ i \in holds[t] /\ sock[i] \in SockRec
  BY <1>1, <1>2, CallKnows, InvIs, Zenon
<1>4. CASE /\ Calling(t, IF sock[i].st = "ESTABLISHED" THEN [th[t] EXCEPT !.pc = "asleep"] ELSE User)
           /\ UNCHANGED sock
  <2>1. PICK c : Calling(t, c) /\ c \in {[th[t] EXCEPT !.pc = "asleep"], User}
    BY <1>4
  <2>2. c \in CallRec /\ c.pc # "out"
    BY <2>1, InvIs, CallFields, UserIs, Zenon
  <2>3. UNCHANGED <<kernel, holds, rx, net, well>>
    BY <1>4, Zenon DEF RecvTest, kernel
  <2>. QED
    BY <1>2, <2>1, <2>2, <2>3, CallFlow
<1>5. CASE /\ sock[i].head # sock[i].tail /\ Calling(t, User)
           /\ \E n \in 1 .. Used(sock[i]) :
                 sock' = [sock EXCEPT ![i].tail = (@ + n) % Ring,
                                      ![i].buf = [k \in 0 .. Ring - 1 |->
                                          IF (k - sock[i].tail) % Ring < n THEN 0 ELSE sock[i].buf[k]],
                                      ![i].read = @ \o SubSeq(Content(sock[i]), 1, n)]
  <2>1. PICK n \in 1 .. Used(sock[i]) : sock'[i] = ReadAs(sock[i], n) /\ OthersKept(i)
    <3>1. sock \in [Sock -> SockRec]
      BY InvIs DEF KernelTyped
    <3>. QED
      BY <1>3, <1>5, <3>1, Zenon DEF ReadAs, OthersKept
  <2>2. /\ sock'[i] \in SockRec /\ sock'[i].st = sock[i].st /\ sock'[i].port = sock[i].port
        /\ sock'[i].remote = sock[i].remote /\ sock'[i].seq = sock[i].seq /\ sock'[i].ack = sock[i].ack
        /\ sock'[i].wrote = sock[i].wrote
    <3>1. sock'[i] \in SockRec
      BY <1>3, NewTyped
    <3>. QED
      BY <1>3, <2>1, <3>1, Zenon DEF ReadAs, SockRec
  <2>3. th'[t] = User /\ \A u \in Thread : u # t => th'[u] = th[u]
    BY <1>5, InvIs, UserIs, CallSet, Zenon
  <2>4. \A u \in Thread, j \in Sock : SameOut(u, j)
    BY <1>2, <2>3, UserIs DEF SameOut
  <2>5. Steady'
    <3>1. Spoken'
      BY <1>5, InvIs, FlowIs, SpokenCall, UserIs, Zenon
    <3>2. OpenListed'
      <4>1. \A j \in Sock : sock'[j].st = sock[j].st /\ (Held(j)' <=> Held(j))
        BY <1>2, <2>1, <2>2 DEF OthersKept, Held
      <4>. QED
        BY <1>2, <4>1, FlowIs, OpenKept
    <3>3. Blank' /\ Numbers'
      BY <1>2, <2>1, <2>2, FlowIs, NumbersSame DEF Blank, OthersKept
    <3>. QED
      BY <3>1, <3>2, <3>3 DEF Steady
  <2>6. \A j \in Sock : sock[j].st = "LISTEN" => sock'[j].st = "LISTEN"
    BY <2>1, <2>2 DEF OthersKept
  <2>7. ASSUME NEW r \in Remote, Link(r), sock[i].remote # r PROVE Link(r)'
    BY <1>2, <1>3, <2>1, <2>2, <2>4, <2>6, <2>7, HalfSame, OtherSock DEF OthersKept, Growing
  <2>8. ASSUME NEW r \in Remote, Link(r), sock[i].remote = r PROVE Link(r)'
    <3>1. Roles(r) /\ Tracks(r, i) /\ peer[r].st # "synsent"
      BY <1>3, <2>8, FocusIs
    <3>2. Line(r)' = Line(r) /\ Answer(r)' = Answer(r) /\ Leaving(i)' = Leaving(i) /\ Away(r, i)' = Away(r, i)
      <4>1. Line(r)' = Line(r) /\ Answer(r)' = Answer(r)
        BY <1>2 DEF Line, Answer
      <4>2. Leaving(i)' = Leaving(i)
        BY <1>3, <2>2, <2>4, LeavingSame
      <4>. QED
        BY <1>2, <4>1, <4>2 DEF Away
    <3>3. Socks(r)' = Socks(r) /\ \A j \in Socks(r) : sock'[j].port = sock[j].port
      BY <2>1, <2>2, <2>8 DEF Socks, OthersKept
    <3>4. HalfKept(r)
      BY <1>2, <2>6, <2>8, HalfSame
    <3>5. Roles(r)'
      <4>1. Half(r)' # {} => peer'[r].st \in {"synsent", "est", "fin"}
        BY <1>2, <3>1, <3>4 DEF HalfKept, Roles
      <4>2. \A x \in ToSet(Line(r))' : x.seg.flag = "SYN" => x \in ToSet(Line(r)) /\ peer'[r].st = peer[r].st
        BY <1>2, <3>2
      <4>3. \/ \E j \in Socks(r) : sock[j].port > 0
            \/ /\ peer'[r].st = "synrcvd" => peer[r].st = "synrcvd"
               /\ \A w \in ToSet(out[r])' \cup Answer(r)' : w.seg.flag = "SYN" => w \in ToSet(out[r]) \cup Answer(r)
               /\ \A x \in ToSet(Line(r))' : x.seg.flag = "SYNACK" => x \in ToSet(Line(r))
        BY <1>2, <3>2
      <4>. QED
        BY <3>1, <3>3, <3>4, <4>1, <4>2, <4>3, RolesMove
    <3>6. Tracks(r, i)'
      <4>1. /\ Line(r) \in Seq(Wire) /\ out[r] \in Seq(Wire) /\ peer[r] \in PeerRec
            /\ Away(r, i) \in SUBSET Wire
        BY <1>3, ViewTyped
      <4>2. sock'[i].st # "SYN_SENT"
        BY <1>5, <2>2, <3>1, Zenon DEF Tracks, Opens
      <4>3. sock[i].st = "ESTABLISHED" /\ r \notin inTrouble => Inward(sock'[i], peer[r], Line(r), Away(r, i))
        BY <1>3, <2>1, <3>1, <4>1, InwardReads DEF Tracks
      <4>4. ASSUME Session(sock[i], peer[r], Line(r), Away(r, i))
            PROVE  Session(sock'[i], peer[r], Line(r), Away(r, i))
        BY <2>2, <4>4 DEF Session, Utters
      <4>5. ASSUME Outward(sock[i], peer[r], out[r], Answer(r), Leaving(i))
            PROVE  Outward(sock'[i], peer[r], out[r], Answer(r), Leaving(i))
        <5>1. \A y \in Answer(r) : Mute(y)
          BY <4>5 DEF Outward
        <5>. QED
          BY <1>3, <2>2, <4>1, <4>5, <5>1, OutwardWords
      <4>. QED
        BY <1>2, <2>2, <3>1, <3>2, <4>2, <4>3, <4>4, <4>5 DEF Tracks
    <3>. QED
      BY <1>2, <1>3, <2>2, <2>8, <3>1, <3>5, <3>6, FocusLink
  <2>. QED
    BY <1>2, <2>5, <2>7, <2>8, FlowGoes DEF Growing
<1>. QED
  BY <1>1, <1>4, <1>5, Zenon

\* Roles, when the socket stays with its host.
LEMMA RolesStay ==
    ASSUME NEW r \in Remote, Link(r), NEW i \in Sock, OthersKept(i), PlaceKept(i), HalfKept(r),
           Line(r)' = Line(r), out'[r] = out[r], Answer(r)' = Answer(r), peer'[r] = peer[r]
    PROVE  Roles(r)'
<1>1. Roles(r)
  BY DEF Link
<1>2. Socks(r)' = Socks(r) /\ \A j \in Socks(r) : sock'[j].port = sock[j].port
  BY DEF Socks, OthersKept, PlaceKept
<1>3. Half(r)' # {} => peer'[r].st \in {"synsent", "est", "fin"}
  BY <1>1 DEF HalfKept, Roles
<1>4. \A x \in ToSet(Line(r))' : x.seg.flag = "SYN" => x \in ToSet(Line(r)) /\ peer'[r].st = peer[r].st
  OBVIOUS
<1>5. \/ \E j \in Socks(r) : sock[j].port > 0
      \/ /\ peer'[r].st = "synrcvd" => peer[r].st = "synrcvd"
         /\ \A w \in ToSet(out[r])' \cup Answer(r)' : w.seg.flag = "SYN" => w \in ToSet(out[r]) \cup Answer(r)
         /\ \A x \in ToSet(Line(r))' : x.seg.flag = "SYNACK" => x \in ToSet(Line(r))
  OBVIOUS
<1>. QED
  BY <1>1, <1>2, <1>3, <1>4, <1>5, RolesMove

\* A program is about to send something for a socket it has.
LEMMA SaysFlow ==
    ASSUME Inv, Inv', Flow, NEW t \in Thread, NEW i \in holds[t], NEW r \in Remote, sock[i].remote = r,
           th[t] = User, NEW c \in CallRec, Calling(t, c), c.pc = "out", c.s = i, c.seg.flag # "SYN",
           OthersKept(i), PlaceKept(i), sock[i].st \notin {"LISTEN", "CLOSED"},
           list' = list, queue' = queue, rx' = rx, in' = in, out' = out, peer' = peer, Growing,
           \A j \in Sock : Held(j)' => Held(j),
           Good(r)' /\ Link(r) /\ Tracks(r, i) /\ Leaving(i) = {} /\ Line(r)' = Line(r) /\ Answer(r)' = Answer(r)
              /\ Leaving(i)' = {On(sock[i].port, c.seg)}
              /\ Away(r, i)' = Away(r, i) \cup {On(sock[i].port, c.seg)} => Tracks(r, i)'
    PROVE  Flow'
<1>1. i \in Sock /\ th[t].pc = "user"
  BY InvIs, UserIs
<1>2. th'[t] = c /\ \A u \in Thread : u # t => th'[u] = th[u]
  BY InvIs, CallSet
<1>3. Steady'
  <2>1. Spoken'
    BY InvIs, FlowIs, SpokenCall
  <2>2. OpenListed'
    <3>1. \A j \in Sock : sock'[j].st # "CLOSED" \/ Held(j)' => sock[j].st # "CLOSED" \/ Held(j)
      BY <1>1 DEF OthersKept
    <3>. QED
      BY <3>1, FlowIs, OpenKept
  <2>3. Blank' /\ Numbers'
    BY <1>1, FlowIs, NumbersSame, Sizes DEF Blank, OthersKept, PlaceKept
  <2>. QED
    BY <2>1, <2>2, <2>3 DEF Steady
<1>4. \A j \in Sock : sock[j].st = "LISTEN" => sock'[j].st = "LISTEN"
  BY <1>1 DEF OthersKept
<1>5. \A j \in Sock : j # i => sock'[j] = sock[j] /\ \A u \in Thread : SameOut(u, j)
  BY <1>1, <1>2 DEF OthersKept, SameOut
<1>6. ASSUME Good(r)', Link(r) PROVE Link(r)'
  <2>1. Roles(r) /\ Tracks(r, i) /\ peer[r].st # "synsent"
    BY <1>1, <1>6, FocusIs
  <2>2. Line(r)' = Line(r) /\ Answer(r)' = Answer(r)
    BY DEF Line, Answer
  <2>3. Leaving(i) = {}
    BY <1>1, LeavingNone
  <2>4. Leaving(i)' = {On(sock[i].port, c.seg)}
    <3>1. sock'[i].port = sock[i].port
      BY DEF PlaceKept
    <3>2. Leaving(i)' = {On(sock'[i].port, th'[t].seg)}
      BY <1>1, <1>2, <2>3, LeavingOne
    <3>. QED
      BY <1>2, <3>1, <3>2
  <2>5. Away(r, i)' = Away(r, i) \cup {On(sock[i].port, c.seg)}
    BY <2>2, <2>3, <2>4 DEF Away
  <2>6. HalfKept(r)
    BY <1>4, <1>6, HalfSame
  <2>7. Roles(r)'
    BY <1>1, <1>6, <2>2, <2>6, RolesStay
  <2>. QED
    BY <1>1, <1>6, <2>1, <2>2, <2>3, <2>4, <2>5, <2>7, FocusLink DEF PlaceKept
<1>7. ASSUME NEW q \in Remote, Link(q) PROVE HalfKept(q)
  BY <1>4, <1>7, HalfSame
<1>. QED
  BY <1>1, <1>3, <1>5, <1>6, <1>7, NearFlow DEF PlaceKept

\* send: the byte is about to leave.
LEMMA SendFlow ==
    ASSUME Inv, Inv', Flow, NEW t \in Thread, NEW i \in Sock, Send(t, i)
    PROVE  Flow'
<1>. DEFINE g == Seg("ACK", sock[i].seq, sock[i].ack, Offer, <<sock[i].wrote + 1>>)
            c == Sending(t, "send", i, g)
            z == On(sock[i].port, g)
            s == sock[i]
<1>1. /\ th[t] = User /\ i \in holds[t] /\ sock[i].st = "ESTABLISHED"
      /\ sock' = [sock EXCEPT ![i].seq = @ + 1, ![i].wrote = @ + 1] /\ Calling(t, c)
      /\ inTrouble' = (IF Offer > Room(sock[i]) THEN inTrouble \cup {sock[i].remote} ELSE inTrouble)
      /\ list' = list /\ queue' = queue /\ holds' = holds /\ rx' = rx
      /\ in' = in /\ out' = out /\ peer' = peer /\ outTrouble' = outTrouble
  BY DEF Send, net
<1>2. sock[i] \in SockRec /\ sock'[i] \in SockRec
  BY InvIs, NewTyped
<1>3. PICK r \in Remote : r = sock[i].remote
  <2>1. sock[i].remote # None
    BY <1>1, InvIs DEF Modes
  <2>. QED
    BY <1>2, <2>1, SockFields
<1>4. g \in SegRec /\ g.flag = "ACK" /\ g.seq = s.seq /\ g.ack = s.ack /\ g.data = <<s.wrote + 1>> /\ g.win = Offer
  <2>1. s.seq \in Int /\ s.ack \in Int /\ s.wrote + 1 \in Int /\ Offer \in Int
    BY <1>2, SockFields, Sizes
  <2>2. <<s.wrote + 1>> \in Seq(Int)
    BY <2>1
  <2>3. g \in SegRec
    BY <2>1, <2>2, SegTyped DEF Flag
  <2>. QED
    BY <2>3 DEF Seg
<1>5. c \in CallRec /\ c.pc = "out" /\ c.op = "send" /\ c.s = i /\ c.seg = g
  <2>1. c.seg = g
    BY DEF Sending
  <2>. QED
    BY <1>4, <2>1, SendingTyped
<1>6. /\ sock'[i] = [sock[i] EXCEPT !.seq = @ + 1, !.wrote = @ + 1] /\ OthersKept(i)
  BY <1>1, InvIs DEF KernelTyped, OthersKept
<1>7. /\ sock'[i].seq = s.seq + 1 /\ sock'[i].wrote = s.wrote + 1 /\ sock'[i].st = s.st /\ sock'[i].port = s.port
      /\ sock'[i].remote = s.remote /\ sock'[i].mem = s.mem /\ sock'[i].ack = s.ack
      /\ sock'[i].read = s.read /\ sock'[i].head = s.head /\ sock'[i].tail = s.tail /\ sock'[i].buf = s.buf
  BY <1>2, <1>6 DEF SockRec
<1>8. z \in Wire /\ z.port = s.port /\ z.seg = g
  BY <1>2, <1>4, SockFields, OnIs
<1>. HIDE DEF g, c, z, s
<1>9. ASSUME Good(r)', Link(r), Tracks(r, i), Leaving(i) = {}, Line(r)' = Line(r), Answer(r)' = Answer(r),
             Leaving(i)' = {z}, Away(r, i)' = Away(r, i) \cup {z}
      PROVE  Tracks(r, i)'
  <2>1. PICK p \in PeerRec : p = peer[r]
    BY ViewTyped
  <2>2. PICK L \in Seq(Wire) : L = Line(r)
    BY ViewTyped
  <2>3. PICK O \in Seq(Wire) : O = out[r]
    BY ViewTyped
  <2>4. PICK W \in SUBSET Wire : W = Away(r, i)
    BY ViewTyped
  <2>5. PICK s2 \in SockRec : s2 = sock'[i]
    BY <1>2
  <2>6. Session(s, p, L, W) /\ (r \notin outTrouble => Outward(s, p, O, Answer(r), {}))
        /\ (r \notin inTrouble => Inward(s, p, L, W)) /\ s \in SockRec /\ s.st = "ESTABLISHED"
    BY <1>1, <1>2, <1>9, <2>1, <2>2, <2>3, <2>4 DEF Tracks, s
  <2>7. Session(s2, p, L, W \cup {z})
    <3>1. s.ack <= 1 + p.sent /\ p.st \in {"synrcvd"} \cup Live /\ (p.st = "synrcvd" => p = Dialled(s.port))
          /\ p.una <= 1 + p.sent /\ p.st \in {"synrcvd", "est", "fin"}
      BY <2>6 DEF Session
    <3>2. Utters(s2, p, z)
      BY <1>4, <1>7, <1>8, <2>5, <3>1 DEF Utters
    <3>3. p.sent \in Int
      BY PeerNumbers
    <3>. QED
      BY <1>7, <1>8, <2>5, <2>6, <3>1, <3>2, <3>3, SessionMoves
  <2>8. r \notin outTrouble => Outward(s2, p, O, Answer(r), {z})
    BY <1>4, <1>7, <1>8, <2>5, <2>6, OutwardSays
  <2>9. ASSUME r \notin inTrouble' PROVE Inward(s2, p, L, W \cup {z})
    <3>1. r \notin inTrouble /\ ~(Offer > Room(s))
      BY <1>1, <1>3, <2>9 DEF s
    <3>2. Inward(s, p, L, W)
      BY <2>6, <3>1
    <3>3. z.seg.ack + z.seg.win <= Len(s.read) + Ring
      <4>1. PICK a \in Nat, u \in Nat, k \in Int : a = Len(s.read) /\ u = Used(s) /\ k = s.ack
        BY <2>6, SockNumbers
      <4>2. Room(s) = Ring - u - 1 /\ k = a + u + 1 /\ Ring \in Nat /\ Offer \in Nat
        BY <2>6, <3>2, <4>1, SockNumbers, OfferIs DEF Inward
      <4>3. k + Offer <= a + Ring
        BY <3>1, <4>2
      <4>. QED
        BY <1>4, <1>8, <4>1, <4>3
    <3>4. p.una >= p.una /\ p.una + p.win <= Len(s.read) + Ring
      BY <3>2, PeerNumbers DEF Inward
    <3>5. W \cup {z} \in SUBSET Wire
      BY <1>8
    <3>. QED
      BY <1>7, <2>5, <2>6, <3>2, <3>3, <3>4, <3>5, InwardWords
  <2>. QED
    BY <1>1, <1>7, <1>9, <2>1, <2>2, <2>3, <2>4, <2>5, <2>6, <2>7, <2>8, <2>9 DEF Tracks
<1>10. Growing
  BY <1>1 DEF Growing
<1>11. PlaceKept(i)
  BY <1>7 DEF PlaceKept, s
<1>12. \A j \in Sock : Held(j)' => Held(j)
  BY <1>1 DEF Held
<1>. QED
  BY <1>1, <1>3, <1>4, <1>5, <1>6, <1>9, <1>10, <1>11, <1>12, SaysFlow DEF z

\* close: the FIN is about to leave.
LEMMA CloseFlow ==
    ASSUME Inv, Inv', Flow, NEW t \in Thread, NEW i \in Sock, Close(t, i)
    PROVE  Flow'
<1>. DEFINE s == sock[i]
<1>1. /\ th[t] = User /\ i \in holds[t] /\ holds' = [holds EXCEPT ![t] = @ \ {i}]
      /\ list' = list /\ queue' = queue /\ rx' = rx /\ in' = in /\ out' = out /\ peer' = peer
      /\ inTrouble' = inTrouble /\ outTrouble' = outTrouble
  BY DEF Close, net, well
<1>2. s \in SockRec /\ sock'[i] \in SockRec
  BY InvIs, NewTyped
<1>3. \A j \in Sock : Held(j)' => Held(j)
  BY <1>1, InvIs DEF Held, CallsTyped
<1>4. Growing
  BY <1>1 DEF Growing
<1>5. s.seq \in Int /\ s.ack \in Int /\ Notice \in Int /\ s.port \in Int
  BY <1>2, SockFields, Sizes
<1>6. s.st \in {"ESTABLISHED", "SYN_SENT"}
  BY DEF Close
<1>7. PICK r \in Remote : r = sock[i].remote
  <2>1. sock[i].remote # None
    BY <1>6, InvIs DEF Modes
  <2>. QED
    BY <1>2, <2>1, SockFields
<1>8. CASE /\ s.st = "ESTABLISHED"
           /\ sock' = [sock EXCEPT ![i].st = "FIN_WAIT_1", ![i].seq = @ + 1]
           /\ Calling(t, Sending(t, "close", i, Seg("FIN", s.seq, s.ack, Notice, <<>>)))
  <2>. DEFINE g == Seg("FIN", s.seq, s.ack, Notice, <<>>)
              c == Sending(t, "close", i, g)
              z == On(sock[i].port, g)
  <2>1. g \in SegRec /\ g.flag = "FIN" /\ g.ack = s.ack /\ g.data = <<>>
    <3>1. g \in SegRec
      BY <1>5, AnswerTyped
    <3>. QED
      BY <3>1 DEF Seg
  <2>2. c \in CallRec /\ c.pc = "out" /\ c.s = i /\ c.seg = g
    <3>1. c.seg = g
      BY DEF Sending
    <3>. QED
      BY <2>1, <3>1, SendingTyped
  <2>3. z \in Wire /\ z.port = s.port /\ z.seg = g
    BY <1>5, <2>1, OnIs
  <2>4. /\ sock'[i] = [sock[i] EXCEPT !.st = "FIN_WAIT_1", !.seq = @ + 1] /\ OthersKept(i)
    BY <1>8, InvIs DEF KernelTyped, OthersKept
  <2>5. /\ sock'[i].st = "FIN_WAIT_1" /\ sock'[i].port = s.port /\ sock'[i].remote = s.remote
        /\ sock'[i].mem = s.mem /\ sock'[i].ack = s.ack /\ sock'[i].wrote = s.wrote
    BY <1>2, <2>4 DEF SockRec
  <2>. HIDE DEF g, c, z, s
  <2>6. ASSUME Good(r)', Link(r), Tracks(r, i), Leaving(i) = {}, Line(r)' = Line(r), Answer(r)' = Answer(r),
               Leaving(i)' = {z}, Away(r, i)' = Away(r, i) \cup {z}
        PROVE  Tracks(r, i)'
    <3>1. PICK p \in PeerRec : p = peer[r]
      BY ViewTyped
    <3>2. PICK L \in Seq(Wire) : L = Line(r)
      BY ViewTyped
    <3>3. PICK O \in Seq(Wire) : O = out[r]
      BY ViewTyped
    <3>4. PICK W \in SUBSET Wire : W = Away(r, i)
      BY ViewTyped
    <3>5. PICK s2 \in SockRec : s2 = sock'[i]
      BY <1>2
    <3>6. Session(s, p, L, W) /\ (r \notin outTrouble => Outward(s, p, O, Answer(r), {}))
          /\ s \in SockRec /\ s.st = "ESTABLISHED"
      BY <1>2, <1>8, <2>6, <3>1, <3>2, <3>3, <3>4 DEF Tracks, s
    <3>7. Session(s2, p, L, W \cup {z})
      <4>1. s.ack <= 1 + p.sent /\ p.st \in {"synrcvd"} \cup Live /\ (p.st = "synrcvd" => p = Dialled(s.port))
            /\ p.una <= 1 + p.sent
        BY <3>6 DEF Session
      <4>2. Utters(s2, p, z)
        BY <2>1, <2>3, <2>5, <3>5, <4>1 DEF Utters, Mute
      <4>3. p.sent \in Int
        BY PeerNumbers
      <4>. QED
        BY <2>3, <2>5, <3>5, <3>6, <4>1, <4>2, <4>3, SessionMoves
    <3>8. r \notin outTrouble => Outward(s2, p, O, Answer(r), {z})
      BY <2>1, <2>3, <2>5, <3>5, <3>6, OutwardFin DEF Mute
    <3>. QED
      BY <1>1, <2>5, <2>6, <3>1, <3>2, <3>3, <3>4, <3>5, <3>7, <3>8 DEF Tracks
  <2>7. PlaceKept(i) /\ Calling(t, c) /\ c.seg.flag # "SYN" /\ sock[i].st \notin {"LISTEN", "CLOSED"}
    BY <1>8, <2>1, <2>2, <2>5 DEF PlaceKept, s, c, g
  <2>. QED
    BY <1>1, <1>3, <1>4, <1>7, <2>2, <2>4, <2>6, <2>7, SaysFlow DEF z
<1>9. CASE /\ s.st = "SYN_SENT"
           /\ sock' = [sock EXCEPT ![i].st = "CLOSED"]
           /\ Calling(t, Sending(t, "close", i, Seg("RST", s.seq, s.ack, Notice, <<>>)))
  <2>. DEFINE g == Seg("RST", s.seq, s.ack, Notice, <<>>)
              c == Sending(t, "close", i, g)
  <2>1. g \in SegRec /\ g.flag = "RST"
    <3>1. g \in SegRec
      BY <1>5, AnswerTyped
    <3>. QED
      BY <3>1 DEF Seg
  <2>2. c \in CallRec /\ c.pc = "out" /\ c.s = i /\ c.seg = g
    <3>1. c.seg = g
      BY DEF Sending
    <3>. QED
      BY <2>1, <3>1, SendingTyped
  <2>4. /\ sock'[i] = [sock[i] EXCEPT !.st = "CLOSED"] /\ OthersKept(i)
    BY <1>9, InvIs DEF KernelTyped, OthersKept
  <2>5. /\ sock'[i].st = "CLOSED" /\ sock'[i].port = s.port /\ sock'[i].remote = s.remote /\ sock'[i].mem = s.mem
    BY <1>2, <2>4 DEF SockRec
  <2>6. Tracks(r, i)'
    BY <2>5 DEF Tracks
  <2>. HIDE DEF g, c
  <2>7. PlaceKept(i) /\ Calling(t, c) /\ c.seg.flag # "SYN" /\ sock[i].st \notin {"LISTEN", "CLOSED"}
    BY <1>9, <2>1, <2>2, <2>5 DEF PlaceKept, c, g
  <2>. QED
    BY <1>1, <1>3, <1>4, <1>7, <2>2, <2>4, <2>6, <2>7, SaysFlow
<1>. QED
  BY <1>8, <1>9 DEF Close

\* close of a socket that is closed already,
LEMMA CloseClosedFlow ==
    ASSUME Inv, Inv', Flow, NEW t \in Thread, NEW i \in Sock, CloseClosed(t, i)
    PROVE  Flow'
<1>1. /\ th[t] = User /\ i \in holds[t] /\ holds' = [holds EXCEPT ![t] = @ \ {i}] /\ sock[i].st = "CLOSED"
      /\ sock' = [sock EXCEPT ![i] = Freed(i)] /\ list' = Unlisted(i)
      /\ queue' = queue /\ th' = th /\ rx' = rx /\ in' = in /\ out' = out /\ peer' = peer
      /\ inTrouble' = inTrouble /\ outTrouble' = outTrouble
  BY DEF CloseClosed, net, well
<1>2. /\ sock'[i] = Freed(i) /\ \A j \in Sock : j # i => sock'[j] = sock[j]
  BY <1>1, InvIs DEF KernelTyped
<1>3. sock'[i].st = "CLOSED" /\ sock'[i].remote = sock[i].remote /\ sock'[i].port = sock[i].port /\ sock'[i].seq = 0
  <2>1. Freed(i).seq = 0
    BY DEF Freed, NoSock
  <2>. QED
    BY <1>2, <2>1, FreedTyped
<1>4. Steady'
  <2>1. ~Held(i)' /\ \A j \in Sock : Held(j)' => Held(j)
    <3>1. \A u \in Thread : holds'[u] \subseteq holds[u] /\ i \notin holds'[t]
      BY <1>1, InvIs DEF CallsTyped
    <3>2. \A u \in Thread : i \in holds[u] => u = t
      BY <1>1, Exclusive
    <3>. QED
      BY <3>1, <3>2 DEF Held
  <2>2. OpenListed'
    BY <1>1, <1>2, <1>3, <2>1, FlowIs, OpenLeaves
  <2>3. Blank' /\ Numbers' /\ Spoken'
    BY <1>1, <1>2, <1>3, FlowIs, NumbersSame DEF Blank, Spoken
  <2>. QED
    BY <2>2, <2>3 DEF Steady
<1>5. \A j \in Sock : sock[j].st = "LISTEN" => sock'[j].st = "LISTEN"
  BY <1>1, <1>2
<1>6. ASSUME NEW r \in Remote, Link(r) PROVE Link(r)'
  <2>1. HalfKept(r)
    BY <1>1, <1>5, <1>6, HalfSame
  <2>2. ASSUME NEW j \in Sock
        PROVE  /\ sock'[j].remote = sock[j].remote /\ sock'[j].port = sock[j].port
               /\ sock'[j].st = "CLOSED" \/ (sock'[j] = sock[j] /\ \A u \in Thread : SameOut(u, j))
    BY <1>1, <1>2, <1>3 DEF SameOut
  <2>. QED
    BY <1>1, <1>6, <2>1, <2>2, Untouched DEF Growing
<1>. QED
  BY <1>1, <1>4, <1>6, FlowGoes DEF Growing

\* and of the listener.
LEMMA CloseListenerFlow ==
    ASSUME Inv, Inv', Flow, NEW t \in Thread, NEW i \in Sock, CloseListener(t, i)
    PROVE  Flow'
<1>1. /\ th[t] = User /\ i \in holds[t] /\ holds' = [holds EXCEPT ![t] = @ \ {i}] /\ queue' = <<>>
      /\ list' = list /\ th' = th /\ rx' = rx /\ in' = in /\ out' = out /\ peer' = peer
      /\ inTrouble' = inTrouble /\ outTrouble' = outTrouble
  BY DEF CloseListener, net, well
<1>2. PICK Q : sock' = [j \in Sock |-> IF j \in Q THEN [sock[j] EXCEPT !.st = "CLOSED"] ELSE sock[j]]
  BY DEF CloseListener
<1>3. ASSUME NEW j \in Sock
      PROVE  /\ sock'[j].remote = sock[j].remote /\ sock'[j].port = sock[j].port /\ sock'[j].seq = sock[j].seq
             /\ sock'[j].st = "CLOSED" \/ sock'[j] = sock[j]
  <2>1. sock[j] \in SockRec
    BY InvIs
  <2>2. CASE j \in Q
    <3>1. sock'[j] = [sock[j] EXCEPT !.st = "CLOSED"]
      BY <1>2, <2>2
    <3>. QED
      BY <2>1, <3>1 DEF SockRec
  <2>3. CASE j \notin Q
    BY <1>2, <2>3
  <2>. QED
    BY <2>2, <2>3
<1>4. Steady'
  <2>1. \A j \in Sock : Held(j)' => Held(j)
    BY <1>1, InvIs DEF CallsTyped, Held
  <2>2. OpenListed'
    <3>1. \A j \in Sock : sock'[j].st # "CLOSED" \/ Held(j)' => sock[j].st # "CLOSED" \/ Held(j)
      BY <1>3, <2>1
    <3>. QED
      BY <1>1, <3>1, FlowIs, OpenKept
  <2>3. Blank' /\ Numbers' /\ Spoken'
    BY <1>1, <1>3, FlowIs, NumbersSame DEF Blank, Spoken
  <2>. QED
    BY <2>2, <2>3 DEF Steady
<1>5. ASSUME NEW r \in Remote, Link(r) PROVE Link(r)'
  <2>1. HalfKept(r)
    BY <1>1 DEF HalfKept, Half
  <2>2. ASSUME NEW j \in Sock
        PROVE  /\ sock'[j].remote = sock[j].remote /\ sock'[j].port = sock[j].port
               /\ sock'[j].st = "CLOSED" \/ (sock'[j] = sock[j] /\ \A u \in Thread : SameOut(u, j))
    BY <1>1, <1>3 DEF SameOut
  <2>. QED
    BY <1>1, <1>5, <2>1, <2>2, Untouched DEF Growing
<1>. QED
  BY <1>1, <1>4, <1>5, FlowGoes DEF Growing

\* The segment that leaves is put on the line: the same segments are away.
LEMMA LeavingLess ==
    ASSUME Inv, NEW t \in Thread, NEW i \in Sock, th[t].pc = "out", th[t].s = i, NEW c, c.pc # "out",
           sock'[i].port = sock[i].port, th'[t] = c, \A u \in Thread : u # t => th'[u] = th[u]
    PROVE  /\ Leaving(i)' \in SUBSET Leaving(i)
           /\ Leaving(i) \in SUBSET (Leaving(i)' \cup {On(sock[i].port, th[t].seg)})
           /\ On(sock[i].port, th[t].seg) \in Leaving(i)
           /\ sock[i].st = "ESTABLISHED" => Leaving(i)' = {}
<1>1. Leaving(i)' \in SUBSET Leaving(i)
  BY DEF Leaving
<1>2. Leaving(i) \in SUBSET (Leaving(i)' \cup {On(sock[i].port, th[t].seg)})
  BY DEF Leaving
<1>3. On(sock[i].port, th[t].seg) \in Leaving(i)
  BY DEF Leaving
<1>4. ASSUME sock[i].st = "ESTABLISHED" PROVE Leaving(i)' = {}
  <2>1. ASSUME NEW u \in Thread, th'[u].pc = "out", th'[u].s = i PROVE FALSE
    <3>1. u # t /\ th[u].pc = "out" /\ th[u].s = i
      BY <2>1
    <3>. QED
      BY <1>4, <3>1, OneLeaves
  <2>. QED
    BY <2>1 DEF Leaving
<1>. QED
  BY <1>1, <1>2, <1>3, <1>4

\* What a program said is put on the line,
LEMMA TransmitsFlow ==
    ASSUME Inv, Inv', Flow, NEW t \in Thread, NEW i \in Sock, i = th[t].s, th[t].pc = "out",
           NEW r \in Remote, r = sock[i].remote,
           out' = [out EXCEPT ![r] = Append(@, On(sock[i].port, th[t].seg))],
           Calling(t, IF th[t].op = "connect" THEN Begin(t, "connect", i) ELSE User),
           sock' = sock, inTrouble' = inTrouble, outTrouble' = outTrouble,
           list' = list, queue' = queue, holds' = holds, rx' = rx, in' = in, peer' = peer
    PROVE  Flow'
<1>1. PICK c \in CallRec : Calling(t, c) /\ c.pc # "out"
  <2>1. Begin(t, "connect", i) \in CallRec /\ Begin(t, "connect", i).pc = "test"
    BY BeginTyped
  <2>2. CASE th[t].op = "connect"
    BY <2>1, <2>2
  <2>3. CASE th[t].op # "connect"
    BY <2>3, UserIs
  <2>. QED
    BY <2>2, <2>3
<1>2. th'[t] = c /\ \A u \in Thread : u # t => th'[u] = th[u]
  BY <1>1, InvIs, CallSet
<1>3. PICK z : z = On(sock[i].port, th[t].seg)
  OBVIOUS
<1>4. z \in Wire /\ z.port = sock[i].port /\ z.seg = th[t].seg
  <2>1. sock[i].port \in Int
    BY InvIs, SockFields
  <2>2. th[t].seg \in SegRec
    BY InvIs, CallFields
  <2>. QED
    BY <1>3, <2>1, <2>2, OnIs
<1>5. PICK O \in Seq(Wire) : O = out[r]
  BY ViewTyped
<1>6. out'[r] = Append(O, z) /\ (\A q \in Remote : q # r => out'[q] = out[q]) /\ ToSet(out[r])' = ToSet(out[r]) \cup {z}
  <2>1. out'[r] = Append(O, z) /\ (\A q \in Remote : q # r => out'[q] = out[q])
    BY <1>3, <1>5, InvIs DEF NetTyped
  <2>2. ToSet(Append(O, z)) = ToSet(O) \cup {z}
    BY <1>4, LineSet
  <2>. QED
    BY <1>5, <2>1, <2>2, ZenonT(30)
<1>7. Steady'
  <2>1. Spoken'
    BY <1>1, InvIs, FlowIs, SpokenCall
  <2>. QED
    BY <2>1, FlowIs, SocksSame, NumbersSame DEF Steady
<1>8. ASSUME NEW q \in Remote, Link(q) PROVE HalfKept(q) /\ Half(q)' = Half(q)
  BY <1>8, HalfSame
<1>9. \A j \in Sock : j # i => sock'[j] = sock[j] /\ \A u \in Thread : SameOut(u, j)
  BY <1>1, <1>2 DEF SameOut
<1>10. ASSUME Link(r) PROVE Link(r)'
  <2>1. Roles(r) /\ Tracks(r, i) /\ peer[r].st # "synsent" /\ Half(r) = {} /\ i \in Socks(r)
    BY <1>10, FocusIs
  <2>2. Line(r)' = Line(r) /\ Answer(r)' = Answer(r)
    BY DEF Line, Answer
  <2>3. Leaving(i)' \in SUBSET Leaving(i) /\ Leaving(i) \in SUBSET (Leaving(i)' \cup {z}) /\ z \in Leaving(i)
        /\ (sock[i].st = "ESTABLISHED" => Leaving(i)' = {})
    BY <1>1, <1>2, <1>3, LeavingLess
  <2>4. Away(r, i)' = Away(r, i)
    BY <1>6, <2>2, <2>3 DEF Away
  <2>5. Roles(r)'
    <3>1. Socks(r)' = Socks(r) /\ \A j \in Socks(r) : sock'[j].port = sock[j].port
      BY DEF Socks
    <3>2. HalfKept(r) /\ (Half(r)' # {} => peer'[r].st \in {"synsent", "est", "fin"})
      BY <1>8, <1>10, <2>1
    <3>3. \A x \in ToSet(Line(r))' : x.seg.flag = "SYN" => x \in ToSet(Line(r)) /\ peer'[r].st = peer[r].st
      BY <2>2
    <3>4. z.seg.flag = "SYN" => \E j \in Socks(r) : sock[j].port > 0
      <4>. SUFFICES ASSUME z.seg.flag = "SYN" PROVE sock[i].port > 0
        BY <2>1
      <4>1. th[t].op = "connect"
        BY <1>4, FlowIs DEF Spoken
      <4>2. sock[i].port # WellKnown /\ sock[i].st = "SYN_SENT"
        BY <4>1, CallKnows DEF CallOk
      <4>3. sock[i].port >= 0 /\ sock[i].port \in Int
        BY <4>2, InvIs, SockFields DEF Blocks, Modes
      <4>. QED
        BY <4>2, <4>3, Sizes
    <3>5. \/ \E j \in Socks(r) : sock[j].port > 0
          \/ /\ peer'[r].st = "synrcvd" => peer[r].st = "synrcvd"
             /\ \A w \in ToSet(out[r])' \cup Answer(r)' : w.seg.flag = "SYN" => w \in ToSet(out[r]) \cup Answer(r)
             /\ \A x \in ToSet(Line(r))' : x.seg.flag = "SYNACK" => x \in ToSet(Line(r))
      BY <1>6, <2>2, <3>4
    <3>. QED
      BY <2>1, <3>1, <3>2, <3>3, <3>5, RolesMove, Zenon
  <2>6. Tracks(r, i)'
    <3>1. PICK p \in PeerRec : p = peer[r]
      BY ViewTyped
    <3>2. PICK s \in SockRec : s = sock[i]
      BY ViewTyped
    <3>3. ASSUME s.st \in {"ESTABLISHED", "FIN_WAIT_1"}, Session(s, p, Line(r), Away(r, i)),
                 Outward(s, p, O, Answer(r), Leaving(i))
          PROVE  Outward(s, p, Append(O, z), Answer(r), Leaving(i)')
      <4>1. CASE Mute(z)
        BY <1>4, <2>3, <3>3, <4>1, OutwardPut
      <4>2. CASE ~Mute(z)
        <5>1. s.st = "ESTABLISHED"
          BY <2>3, <3>3, <4>2 DEF Outward
        <5>2. p.st \notin Late
          BY <3>3, <5>1 DEF Session, Late
        <5>3. \A w \in ToSet(O) : w.seg.flag # "FIN"
          <6>1. ToSet(O) \in SUBSET Away(r, i)
            BY <1>5 DEF Away
          <6>. QED
            BY <3>3, <5>1, <6>1 DEF Session, Utters
        <5>4. Leaving(i)' = {}
          BY <2>3, <3>2, <5>1
        <5>. QED
          BY <1>4, <2>3, <3>3, <4>2, <5>2, <5>3, <5>4, OutwardData
      <4>. QED
        BY <4>1, <4>2
    <3>. QED
      BY <1>5, <1>6, <2>1, <2>2, <2>4, <3>1, <3>2, <3>3, Zenon DEF Tracks
  <2>. QED
    BY <2>1, <2>5, <2>6, FocusLink
<1>. QED
  BY <1>6, <1>7, <1>8, <1>9, <1>10, NearFlow DEF Growing

\* or cannot be sent.
LEMMA TransmitFlow ==
    ASSUME Inv, Inv', Flow, NEW t \in Thread, Transmit(t)
    PROVE  Flow'
<1>1. PICK i \in Sock : i = th[t].s
  BY CallKnows DEF Transmit
<1>2. PICK r \in Remote : r = sock[i].remote
  <2>1. sock[i].remote # None
    BY <1>1, CallKnows, ZenonT(30) DEF CallOk, Transmit
  <2>. QED
    BY <2>1, InvIs, SockFields
<1>3. th[t].pc = "out" /\ list' = list /\ queue' = queue /\ holds' = holds /\ rx' = rx /\ in' = in /\ peer' = peer
  BY DEF Transmit
<1>4. CASE /\ out' = [out EXCEPT ![r] = Append(@, On(sock[i].port, th[t].seg))]
           /\ Calling(t, IF th[t].op = "connect" THEN Begin(t, "connect", i) ELSE User)
           /\ UNCHANGED <<sock, well>>
  <2>1. sock' = sock /\ inTrouble' = inTrouble /\ outTrouble' = outTrouble
    BY <1>4 DEF well
  <2>. QED
    BY <1>1, <1>2, <1>3, <1>4, <2>1, TransmitsFlow
<1>5. CASE /\ Fails(r)
           /\ GivesUp(t, i)
           /\ Calling(t, User) /\ UNCHANGED out
  <2>1. Growing /\ ~Good(r)'
    BY <1>5 DEF Fails, Growing, Good
  <2>2. th'[t] = User /\ \A u \in Thread : u # t => th'[u] = th[u]
    BY <1>5, InvIs, UserIs, CallSet
  <2>3. /\ \A j \in Sock : j # i => sock'[j] = sock[j]
        /\ sock'[i].remote = r /\ (sock'[i].st # "CLOSED" => sock'[i].st = sock[i].st)
        /\ sock[i].st # "LISTEN"
    <3>1. sock[i] \in SockRec /\ sock \in [Sock -> SockRec]
      BY InvIs DEF KernelTyped
    <3>2. sock[i].st # "LISTEN"
      BY <1>2, InvIs, Sizes DEF Modes
    <3>3. CASE sock' = sock
      BY <1>2, <3>2, <3>3
    <3>4. CASE sock' = [sock EXCEPT ![i].st = "CLOSED"]
      <4>1. sock'[i] = [sock[i] EXCEPT !.st = "CLOSED"] /\ \A j \in Sock : j # i => sock'[j] = sock[j]
        BY <3>1, <3>4
      <4>. QED
        BY <1>2, <3>1, <3>2, <4>1 DEF SockRec
    <3>. QED
      BY <1>5, <3>3, <3>4 DEF GivesUp
  <2>4. Steady'
    <3>1. Spoken'
      BY <1>5, InvIs, FlowIs, SpokenCall, UserIs
    <3>2. OpenListed'
      <4>1. \A j \in Sock : Held(j)' <=> Held(j)
        BY <1>3 DEF Held
      <4>. QED
        BY <1>3, <2>3, <4>1, FlowIs, OpenKept
    <3>3. Blank' /\ Numbers'
      BY <1>3, <2>3, Sizes, FlowIs, NumbersSame DEF Blank
    <3>. QED
      BY <3>1, <3>2, <3>3 DEF Steady
  <2>5. ASSUME NEW q \in Remote, Link(q) PROVE HalfKept(q)
    <3>1. \A j \in Sock : sock[j].st = "LISTEN" => sock'[j].st = "LISTEN"
      BY <2>3
    <3>. QED
      BY <1>3, <2>5, <3>1, HalfSame
  <2>6. \A j \in Sock : j # i => sock'[j] = sock[j] /\ \A u \in Thread : SameOut(u, j)
    BY <1>1, <1>3, <2>2, <2>3, UserIs DEF SameOut
  <2>. QED
    BY <1>2, <1>3, <1>5, <2>1, <2>3, <2>4, <2>5, <2>6, NearFlow
<1>. QED
  BY <1>1, <1>2, <1>4, <1>5, ZenonT(30) DEF Transmit, GivesUp

-----------------------------------------------------------------------------
(* The receive thread.                                                     *)

\* The receive thread at rest.
LEMMA IdleIs == Idle.pc = "idle" /\ Idle.from = None /\ Idle.s = None
BY DEF Idle

\* The line to us, without the receive thread,
LEMMA QuietLine ==
    ASSUME NEW r \in Remote, NEW w \in Seq(Wire), in'[r] = w, rx'.pc # "input" \/ rx'.from # r
    PROVE  Line(r)' = w
<1>1. <<>> \o w = w
  BY ConcatEmptySeq
<1>. QED
  BY <1>1 DEF Line

\* and with it.
LEMMA RxLine ==
    ASSUME Inv, rx.pc = "input", NEW r, r = rx.from, in' = in
    PROVE  /\ r \in Remote /\ Line(r) \in Seq(Wire) /\ Line(r) # <<>> /\ Head(Line(r)) = On(rx.port, rx.seg)
           /\ Head(Line(r)).seg = Got /\ Head(Line(r)).port = rx.port /\ Tail(Line(r)) = in[r] /\ Answer(r) = {}
           /\ rx'.pc # "input" => Line(r)' = Tail(Line(r))
           /\ Done => Answer(r)' = {}
           /\ \A g : \A next \in {"reply", "last"} : Then(g, next) =>
                 Answer(r)' = {On(rx.port, g)} /\ rx'.pc # "input" /\ rx'.from = r
<1>1. CallsTyped /\ NetTyped /\ r \in Remote
  BY InvIs, RxAt
<1>2. Line(r) \in Seq(Wire) /\ Line(r) # <<>> /\ Head(Line(r)) = On(rx.port, rx.seg) /\ Tail(Line(r)) = in[r]
      /\ in[r] \in Seq(Wire)
  BY <1>1, LineIs
<1>3. Head(Line(r)).seg = Got /\ Head(Line(r)).port = rx.port
  BY <1>1, <1>2, RxWire DEF Got
<1>4. rx'.pc # "input" => Line(r)' = Tail(Line(r))
  BY <1>1, <1>2, QuietLine
<1>5. Answer(r) = {} /\ (Done => Answer(r)' = {})
  BY IdleIs DEF Answer, Done
<1>6. ASSUME NEW g, NEW next \in {"reply", "last"}, Then(g, next)
      PROVE  Answer(r)' = {On(rx.port, g)} /\ rx'.pc # "input" /\ rx'.from = r
  <2>1. rx' = [rx EXCEPT !.pc = next, !.seg = g] /\ rx \in RxRec
    BY <1>1, <1>6 DEF Then, CallsTyped
  <2>2. rx'.pc = next /\ rx'.seg = g /\ rx'.from = rx.from /\ rx'.port = rx.port
    BY <2>1 DEF RxRec
  <2>. QED
    BY <2>2 DEF Answer
<1>. QED
  BY <1>1, <1>2, <1>3, <1>4, <1>5, <1>6

\* A segment that came in is dropped.
LEMMA DropFlow ==
    ASSUME Inv, Flow, NEW r \in Remote, Line(r) # <<>>, Line(r)' = Tail(Line(r)), Answer(r)' = Answer(r),
           sock' = sock, list' = list, queue' = queue, th' = th, holds' = holds, out' = out, peer' = peer,
           inTrouble' = inTrouble, outTrouble' = outTrouble,
           \A q \in Remote : q # r => in'[q] = in[q],
           rx' = rx \/ (rx.from \in {r, None} /\ rx'.from \in {r, None}),
           Link(r) => \A i \in Socks(r) : sock[i].st = "ESTABLISHED" => Mute(Head(Line(r))),
           Link(r) /\ Half(r) # {} => peer[r].st = "synsent"
    PROVE  Flow'
<1>1. Steady'
  BY FlowIs, SocksSame, NumbersSame DEF Steady, Spoken
<1>2. \A j \in Sock, u \in Thread : SameOut(u, j)
  BY DEF SameOut
<1>3. ASSUME NEW q \in Remote, Link(q) PROVE HalfKept(q) /\ Half(q)' = Half(q)
  BY <1>3, HalfSame
<1>4. ASSUME Link(r) PROVE Link(r)'
  <2>1. PICK L \in Seq(Wire) : L = Line(r)
    BY ViewTyped
  <2>2. Tail(L) \in Seq(Wire) /\ ToSet(Tail(L)) \in SUBSET ToSet(L) /\ Head(L) \in ToSet(L)
    BY <2>1, LineSet
  <2>3. Roles(r) /\ Asking(r) /\ \A i \in Socks(r) : Tracks(r, i)
    BY <1>4 DEF Link
  <2>4. Socks(r)' = Socks(r)
    BY DEF Socks
  <2>5. Roles(r)'
    <3>1. Half(r)' # {} => peer'[r].st \in {"synsent", "est", "fin"}
      BY <1>3, <1>4, <2>3 DEF Roles
    <3>2. \A x \in ToSet(Line(r))' : x \in ToSet(Line(r)) /\ peer'[r].st = peer[r].st
      BY <2>1, <2>2
    <3>3. \/ \E j \in Socks(r) : sock[j].port > 0
          \/ /\ peer'[r].st = "synrcvd" => peer[r].st = "synrcvd"
             /\ \A w \in ToSet(out[r])' \cup Answer(r)' : w.seg.flag = "SYN" => w \in ToSet(out[r]) \cup Answer(r)
             /\ \A x \in ToSet(Line(r))' : x.seg.flag = "SYNACK" => x \in ToSet(Line(r))
      BY <3>2
    <3>4. \A j \in Socks(r) : sock'[j].port = sock[j].port
      OBVIOUS
    <3>. QED
      BY <1>3, <1>4, <2>3, <2>4, <3>1, <3>2, <3>3, <3>4, RolesMove
  <2>6. Asking(r)'
    <3>. SUFFICES ASSUME peer[r].st = "synsent"
                  PROVE  Asks(peer[r], Tail(L), out[r], Answer(r)) /\ Socks(r) = {} /\ Half(r)' = {}
      BY <2>1, <2>4 DEF Asking
    <3>1. Socks(r) = {} /\ Asks(peer[r], L, out[r], Answer(r)) /\ (Half(r) # {} => out[r] # <<>> \/ Answer(r) # {})
      BY <2>1, <2>3 DEF Asking
    <3>2. L = <<Ask>> /\ out[r] = <<>> /\ Answer(r) = {} /\ peer[r] = Asker
      BY <2>1, <3>1 DEF Asks
    <3>3. Tail(<<Ask>>) = <<>>
      OBVIOUS
    <3>. QED
      BY <1>3, <1>4, <3>1, <3>2, <3>3 DEF Asks
  <2>7. Greeting(r)'
    BY <1>3, <1>4 DEF Greeting
  <2>8. ASSUME NEW i \in Socks(r) PROVE Tracks(r, i)'
    <3>1. i \in Sock /\ Tracks(r, i)
      BY <2>3 DEF Socks
    <3>2. Leaving(i)' = Leaving(i)
      BY <1>2, <3>1, LeavingSame
    <3>3. Away(r, i)' = Away(r, i) /\ Away(r, i) \in SUBSET Wire /\ peer[r] \in PeerRec /\ sock[i] \in SockRec
      BY <3>1, <3>2, ViewTyped DEF Away
    <3>4. sock[i].st = "SYN_SENT" => Opens(sock[i], peer[r], Tail(L), Away(r, i))
      <4>1. sock[i].st = "SYN_SENT" => Opens(sock[i], peer[r], L, Away(r, i))
        BY <2>1, <3>1 DEF Tracks
      <4>. QED
        BY <2>1, <2>2, <4>1 DEF Opens
    <3>5. ASSUME Session(sock[i], peer[r], L, Away(r, i)) PROVE Session(sock[i], peer[r], Tail(L), Away(r, i))
      BY <2>2, <3>5 DEF Session, Ends
    <3>6. ASSUME sock[i].st = "ESTABLISHED", Inward(sock[i], peer[r], L, Away(r, i))
          PROVE  Inward(sock[i], peer[r], Tail(L), Away(r, i))
      BY <1>4, <2>1, <3>3, <3>6, InwardDrop
    <3>. QED
      BY <2>1, <3>1, <3>2, <3>3, <3>4, <3>5, <3>6 DEF Tracks
  <2>. QED
    BY <2>4, <2>5, <2>6, <2>7, <2>8 DEF Link
<1>. QED
  BY <1>1, <1>2, <1>3, <1>4, NearFlow DEF Growing

\* A segment nobody wants.
LEMMA InClosedFlow ==
    ASSUME Inv, Inv', Flow, InClosed
    PROVE  Flow'
<1>1. /\ rx.pc = "input" /\ At.st = "CLOSED" /\ Done
      /\ sock' = sock /\ list' = list /\ queue' = queue /\ th' = th /\ holds' = holds /\ in' = in /\ out' = out
      /\ peer' = peer /\ inTrouble' = inTrouble /\ outTrouble' = outTrouble
  BY DEF InClosed, kernel, net, well
<1>2. PICK r \in Remote : r = rx.from
  BY <1>1, RxAt
<1>3. rx'.pc = "idle" /\ rx'.from = None
  BY <1>1, IdleIs DEF Done
<1>4. Line(r) # <<>> /\ Line(r)' = Tail(Line(r)) /\ Answer(r)' = Answer(r)
  BY <1>1, <1>2, <1>3, RxLine
<1>5. rx.s \in Sock /\ sock[rx.s].remote = r /\ sock[rx.s].st = "CLOSED"
  BY <1>1, <1>2, RxAt DEF At
<1>6. Link(r) => (\A i \in Socks(r) : sock[i].st = "CLOSED") /\ Half(r) = {}
  BY <1>5, FocusIs
<1>. QED
  BY <1>1, <1>2, <1>3, <1>4, <1>6, DropFlow

\* A segment finds the socket of its connection.
LEMMA LookupHits ==
    ASSUME Inv, NEW r \in Remote, NEW p, NEW i \in Listed, sock[i].port = p,
           sock[i].st = "LISTEN" \/ sock[i].remote = r
    PROVE  Lookup(r, p) # None
<1>1. list \in Seq(Sock) /\ DOMAIN list = 1 .. Len(list) /\ Len(list) \in Nat
  BY InvIs DEF KernelTyped
<1>2. PICK l \in DOMAIN list : list[l] = i
  BY DEF Listed
<1>3. CASE Matching(r, p) # {}
  <2>1. Matching(r, p) \in SUBSET Nat
    BY <1>1 DEF Matching
  <2>2. PICK k \in Matching(r, p) : k = Min(Matching(r, p))
    BY <1>3, <2>1, MinIsIn
  <2>3. Lookup(r, p) = list[k] /\ k \in DOMAIN list
    BY <1>3, <2>2 DEF Lookup, Matching
  <2>. QED
    BY <1>1, <2>3, Sizes
<1>4. CASE Matching(r, p) = {}
  <2>1. l \in Listening(p)
    BY <1>2, <1>4 DEF Matching, Listening
  <2>2. Listening(p) \in SUBSET (1 .. Len(list))
    BY <1>1 DEF Listening
  <2>3. PICK k \in Listening(p) : k = Max(Listening(p))
    BY <1>1, <2>1, <2>2, MaxIsIn
  <2>4. Lookup(r, p) = list[k] /\ k \in DOMAIN list
    BY <1>4, <2>1, <2>3 DEF Lookup, Listening
  <2>. QED
    BY <1>1, <2>4, Sizes
<1>. QED
  BY <1>3, <1>4

\* The head of a line, in front of it again.
LEMMA HeadBack ==
    ASSUME NEW w \in Seq(Wire), w # <<>>
    PROVE  <<Head(w)>> \o Tail(w) = w
<1>1. Tail(w) \in Seq(Wire) /\ Head(w) \in Wire /\ Len(Tail(w)) = Len(w) - 1 /\ \A l \in 1 .. Len(Tail(w)) : Tail(w)[l] = w[l + 1]
  BY HeadTailProperties
<1>2. PICK v \in Seq(Wire) : v = <<Head(w)>> \o Tail(w)
  BY <1>1, Before
<1>3. Len(v) = Len(w) /\ v[1] = w[1] /\ \A l \in 1 .. Len(w) - 1 : v[l + 1] = w[l + 1]
  <2>1. Len(v) = Len(Tail(w)) + 1 /\ v[1] = Head(w) /\ \A l \in 1 .. Len(Tail(w)) : v[l + 1] = Tail(w)[l]
    BY <1>1, <1>2, Before
  <2>2. Len(w) \in Nat /\ Head(w) = w[1]
    OBVIOUS
  <2>. QED
    BY <1>1, <2>1, <2>2
<1>4. ASSUME NEW k \in 1 .. Len(w) PROVE v[k] = w[k]
  <2>1. CASE k = 1
    BY <1>3, <2>1
  <2>2. CASE k # 1
    <3>1. k - 1 \in 1 .. Len(w) - 1 /\ k = (k - 1) + 1
      BY <2>2
    <3>. QED
      BY <1>3, <3>1
  <2>. QED
    BY <2>1, <2>2
<1>. QED
  BY <1>2, <1>3, <1>4, SeqEqual

\* The receive thread takes a segment.
LEMMA RxTakeFlow ==
    ASSUME Inv, Inv', Flow, NEW r \in Remote, RxTake(r)
    PROVE  Flow'
<1>1. PICK w \in Seq(Wire) : w = in[r]
  BY ViewTyped
<1>2. PICK i : i = Lookup(r, Head(w).port)
  OBVIOUS
<1>3. /\ rx = Idle /\ w # <<>> /\ in' = [in EXCEPT ![r] = Tail(@)]
      /\ sock' = sock /\ list' = list /\ queue' = queue /\ th' = th /\ holds' = holds /\ out' = out
      /\ peer' = peer /\ inTrouble' = inTrouble /\ outTrouble' = outTrouble
      /\ rx' = IF i = None THEN rx
               ELSE [Idle EXCEPT !.pc = "input", !.s = i, !.from = r, !.seg = Head(w).seg, !.port = Head(w).port]
  BY <1>1, <1>2 DEF RxTake, kernel, well
<1>4. Head(w) \in Wire /\ Tail(w) \in Seq(Wire) /\ Head(w) = On(Head(w).port, Head(w).seg)
  BY <1>3, LineSet, WireFields
<1>5. in'[r] = Tail(w) /\ \A q \in Remote : q # r => in'[q] = in[q]
  BY <1>1, <1>3, InvIs DEF NetTyped
<1>6. rx.pc = "idle" /\ rx.from = None
  BY <1>3, IdleIs
<1>7. Line(r) = w /\ Answer(r) = {}
  <2>1. Line(r) = in[r]
    BY <1>6, InvIs, LineIs
  <2>. QED
    BY <1>1, <1>6, <2>1 DEF Answer
<1>8. CASE i = None
  <2>1. rx' = rx
    BY <1>3, <1>8
  <2>2. Line(r)' = Tail(w) /\ Answer(r)' = {}
    <3>1. rx'.pc # "input"
      BY <1>6, <2>1
    <3>. QED
      BY <1>4, <1>5, <1>6, <2>1, <3>1, QuietLine DEF Answer
  <2>3. ASSUME Link(r), NEW j \in Socks(r), sock[j].st = "ESTABLISHED" PROVE FALSE
    <3>1. j \in Listed /\ j \in Sock /\ sock[j].remote = r
      BY <2>3, FlowIs DEF OpenListed, Socks
    <3>2. Session(sock[j], peer[r], w, Away(r, j))
      BY <1>7, <2>3 DEF Link, Tracks
    <3>3. Head(w).port = sock[j].port
      BY <1>3, <3>2, LineSet DEF Session
    <3>. QED
      BY <1>2, <1>8, <3>1, <3>3, LookupHits
  <2>4. ASSUME Link(r), Half(r) # {}, peer[r].st # "synsent" PROVE FALSE
    <3>1. Greets(peer[r], w, out[r], Answer(r)) /\ \E j \in Sock : sock[j].st = "LISTEN"
      BY <1>7, <2>4 DEF Link, Greeting, Roles
    <3>2. PICK j \in Sock : sock[j].st = "LISTEN"
      BY <3>1
    <3>3. j \in Listed /\ sock[j].port = WellKnown
      <4>1. j \in Listed
        BY <3>2, FlowIs DEF OpenListed
      <4>2. sock[j].mem = "live" /\ sock[j].remote = None
        BY <3>2, <4>1, InvIs DEF Blocks, Modes
      <4>3. sock[j].port >= 0 /\ sock[j].port \in {-1, WellKnown}
        BY <4>2, InvIs DEF Modes
      <4>. QED
        BY <4>1, <4>3
    <3>4. Head(w).port = WellKnown
      BY <1>3, <3>1, LineSet DEF Greets
    <3>. QED
      BY <1>2, <1>8, <3>2, <3>3, <3>4, LookupHits
  <2>. QED
    BY <1>3, <1>5, <1>7, <2>1, <2>2, <2>3, <2>4, DropFlow
<1>9. CASE i # None
  <2>1. rx'.pc = "input" /\ rx'.from = r /\ rx'.seg = Head(w).seg /\ rx'.port = Head(w).port
    BY <1>3, <1>9 DEF Idle
  <2>2. Line(r)' = w /\ Answer(r)' = {}
    <3>1. <<Head(w)>> \o Tail(w) = w
      BY <1>3, HeadBack
    <3>. QED
      BY <1>4, <1>5, <2>1, <3>1 DEF Line, Answer
  <2>3. Steady'
    BY <1>3, FlowIs, SocksSame, NumbersSame DEF Steady, Spoken
  <2>4. \A j \in Sock, u \in Thread : SameOut(u, j)
    BY <1>3 DEF SameOut
  <2>5. ASSUME NEW q \in Remote, Link(q) PROVE HalfKept(q)
    BY <1>3, <2>5, HalfSame
  <2>6. ASSUME Link(r) PROVE Link(r)'
    <3>1. \A j \in Socks(r) : Leaving(j)' = Leaving(j)
      BY <1>3, <2>4, LeavingSame DEF Socks
    <3>2. Socks(r)' = Socks(r)
      BY <1>3 DEF Socks
    <3>. QED
      BY <1>3, <1>7, <2>2, <2>5, <2>6, <3>1, <3>2, SameLink
  <2>. QED
    BY <1>3, <1>5, <1>6, <2>1, <2>3, <2>4, <2>5, <2>6, NearFlow DEF Growing
<1>. QED
  BY <1>8, <1>9

\* The receive thread puts its answer on the line.
LEMMA RxReplyFlow ==
    ASSUME Inv, Inv', Flow, RxReply
    PROVE  Flow'
<1>1. /\ rx.pc \in {"reply", "last"} /\ out' = [out EXCEPT ![rx.from] = Append(@, On(rx.port, Got))]
      /\ rx' = IF rx.pc = "reply" THEN Idle ELSE [rx EXCEPT !.pc = "unlink", !.seg = NoSeg]
      /\ sock' = sock /\ list' = list /\ queue' = queue /\ th' = th /\ holds' = holds /\ in' = in
      /\ peer' = peer /\ inTrouble' = inTrouble /\ outTrouble' = outTrouble
  BY DEF RxReply, kernel, well
<1>2. PICK r \in Remote : r = rx.from
  BY <1>1, RxAt
<1>3. PICK y \in Wire : y = On(rx.port, rx.seg)
  BY InvIs, RxWire
<1>4. PICK O \in Seq(Wire) : O = out[r]
  BY ViewTyped
<1>5. out'[r] = Append(O, y) /\ (\A q \in Remote : q # r => out'[q] = out[q]) /\ ToSet(out[r])' = ToSet(out[r]) \cup {y}
  <2>1. out'[r] = Append(O, y) /\ (\A q \in Remote : q # r => out'[q] = out[q])
    BY <1>1, <1>2, <1>3, <1>4, InvIs DEF NetTyped, Got
  <2>2. ToSet(Append(O, y)) = ToSet(O) \cup {y}
    BY LineSet
  <2>. QED
    BY <1>4, <2>1, <2>2
<1>6. rx'.pc \in {"idle", "unlink"} /\ rx'.from \in {r, None}
  <2>1. CASE rx.pc = "reply"
    BY <1>1, <2>1, IdleIs
  <2>2. CASE rx.pc = "last"
    <3>1. rx' = [rx EXCEPT !.pc = "unlink", !.seg = NoSeg] /\ rx \in RxRec
      BY <1>1, <2>2, InvIs DEF CallsTyped
    <3>. QED
      BY <1>2, <3>1 DEF RxRec
  <2>. QED
    BY <1>1, <2>1, <2>2
<1>7. Line(r)' = Line(r) /\ Answer(r) = {y} /\ Answer(r)' = {}
  <2>1. Line(r) = in[r] /\ in[r] \in Seq(Wire)
    BY <1>1, InvIs, LineIs
  <2>2. Line(r)' = in[r]
    BY <1>1, <1>6, <2>1, QuietLine
  <2>. QED
    BY <1>1, <1>2, <1>3, <1>6, <2>1, <2>2 DEF Answer
<1>8. Steady'
  BY <1>1, FlowIs, SocksSame, NumbersSame DEF Steady, Spoken
<1>9. \A j \in Sock, u \in Thread : SameOut(u, j)
  BY <1>1 DEF SameOut
<1>10. ASSUME NEW q \in Remote, Link(q) PROVE HalfKept(q) /\ Half(q)' = Half(q)
  BY <1>1, <1>10, HalfSame
<1>11. ASSUME Link(r) PROVE Link(r)'
  <2>1. Roles(r) /\ Asking(r) /\ Greeting(r) /\ \A i \in Socks(r) : Tracks(r, i)
    BY <1>11 DEF Link
  <2>2. Socks(r)' = Socks(r)
    BY <1>1 DEF Socks
  <2>3. ToSet(out[r])' \cup Answer(r)' = ToSet(out[r]) \cup Answer(r)
    BY <1>5, <1>7
  <2>4. Roles(r)'
    BY <1>1, <1>7, <1>10, <1>11, <2>1, <2>2, <2>3 DEF Roles
  <2>5. Asking(r)'
    <3>. SUFFICES ASSUME peer[r].st = "synsent"
                  PROVE  Asks(peer[r], Line(r), Append(O, y), {}) /\ Socks(r) = {} /\ Append(O, y) # <<>>
      BY <1>1, <1>5, <1>7, <2>2 DEF Asking
    <3>1. Socks(r) = {} /\ Asks(peer[r], Line(r), O, {y})
      BY <1>4, <1>7, <2>1 DEF Asking
    <3>2. Line(r) = <<>> /\ O = <<>> /\ y = Invite /\ peer[r] = Asker
      BY <3>1 DEF Asks
    <3>3. Append(<<>>, y) = <<y>>
      OBVIOUS
    <3>4. Append(O, y) # <<>>
      BY LineSet
    <3>. QED
      BY <3>1, <3>2, <3>3, <3>4 DEF Asks
  <2>6. Greeting(r)'
    <3>1. Half(r) = {} \/ peer[r].st = "synsent"
      BY <1>7, <2>1 DEF Greeting, Greets
    <3>. QED
      BY <1>1, <1>10, <1>11, <3>1 DEF Greeting
  <2>7. ASSUME NEW i \in Socks(r) PROVE Tracks(r, i)'
    <3>1. i \in Sock /\ Tracks(r, i)
      BY <2>1 DEF Socks
    <3>2. Leaving(i)' = Leaving(i)
      BY <1>1, <1>9, <3>1, LeavingSame
    <3>3. Away(r, i)' = Away(r, i) /\ peer[r] \in PeerRec /\ sock[i] \in SockRec
      BY <2>3, <3>1, <3>2, ViewTyped DEF Away
    <3>4. ASSUME Outward(sock[i], peer[r], O, {y}, Leaving(i))
          PROVE  Outward(sock[i], peer[r], Append(O, y), {}, Leaving(i))
      <4>1. Mute(y)
        BY <3>4 DEF Outward
      <4>. QED
        BY <3>3, <3>4, <4>1, OutwardPut
    <3>. QED
      BY <1>1, <1>4, <1>5, <1>7, <3>1, <3>2, <3>3, <3>4 DEF Tracks
  <2>. QED
    BY <2>2, <2>4, <2>5, <2>6, <2>7 DEF Link
<1>. QED
  BY <1>1, <1>2, <1>5, <1>6, <1>8, <1>9, <1>10, <1>11, NearFlow DEF Growing

\* The socket is destroyed after the last FIN.
LEMMA RxDestroyFlow ==
    ASSUME Inv, Inv', Flow, RxDestroy
    PROVE  Flow'
<1>1. PICK i : i = rx.s
  OBVIOUS
<1>2. /\ rx.pc = "unlink" /\ Done /\ list' = Unlisted(i) /\ sock' = [sock EXCEPT ![i] = Freed(i)]
      /\ queue' = queue /\ th' = th /\ holds' = holds /\ in' = in /\ out' = out
      /\ peer' = peer /\ inTrouble' = inTrouble /\ outTrouble' = outTrouble
  BY <1>1 DEF RxDestroy, net, well
<1>3. PICK r \in Remote : r = rx.from
  BY <1>2, RxAt
<1>4. i \in Sock /\ sock[i].st = "CLOSED" /\ ~Held(i) /\ sock[i].remote = r
  <2>1. i \in Sock /\ (sock[i].st = "LISTEN" \/ sock[i].remote = r)
    BY <1>1, <1>2, <1>3, RxAt
  <2>. QED
    BY <1>1, <1>2, <2>1, InvIs DEF RxOk
<1>5. /\ sock'[i] = Freed(i) /\ \A j \in Sock : j # i => sock'[j] = sock[j]
  BY <1>2, <1>4, InvIs DEF KernelTyped
<1>6. sock'[i].st = "CLOSED" /\ sock'[i].remote = sock[i].remote /\ sock'[i].port = sock[i].port /\ sock'[i].seq = 0
  <2>1. Freed(i).seq = 0
    BY DEF Freed, NoSock
  <2>. QED
    BY <1>4, <1>5, <2>1, FreedTyped
<1>7. Steady'
  <2>1. ~Held(i)' /\ \A j \in Sock : Held(j)' => Held(j)
    BY <1>2, <1>4 DEF Held
  <2>2. OpenListed'
    BY <1>2, <1>4, <1>5, <1>6, <2>1, FlowIs, OpenLeaves
  <2>3. Blank' /\ Numbers' /\ Spoken'
    BY <1>2, <1>5, <1>6, FlowIs, NumbersSame DEF Blank, Spoken
  <2>. QED
    BY <2>2, <2>3 DEF Steady
<1>8. \A j \in Sock : sock[j].st = "LISTEN" => sock'[j].st = "LISTEN"
  BY <1>4, <1>5
<1>9. ASSUME NEW q \in Remote, Link(q) PROVE HalfKept(q)
  BY <1>2, <1>8, <1>9, HalfSame
<1>10. \A j \in Sock : j # i => sock'[j] = sock[j] /\ \A u \in Thread : SameOut(u, j)
  BY <1>2, <1>5 DEF SameOut
<1>11. rx'.pc = "idle" /\ rx'.from = None
  BY <1>2, IdleIs DEF Done
<1>12. ASSUME Link(r) PROVE Link(r)'
  <2>1. Line(r)' = Line(r) /\ Answer(r)' = Answer(r)
    <3>1. Line(r) = in[r] /\ in[r] \in Seq(Wire)
      BY <1>2, InvIs, LineIs
    <3>2. Line(r)' = in[r]
      BY <1>2, <1>11, <3>1, QuietLine
    <3>. QED
      BY <1>2, <1>11, <3>1, <3>2 DEF Answer
  <2>2. Socks(r)' = Socks(r)
    BY <1>5, <1>6 DEF Socks
  <2>3. \A j \in Socks(r) : j = i
    BY <1>4, <1>12, FocusIs
  <2>. QED
    BY <1>2, <1>6, <1>9, <1>12, <2>1, <2>2, <2>3, SameLink
<1>. QED
  BY <1>2, <1>3, <1>4, <1>6, <1>7, <1>9, <1>10, <1>11, <1>12, NearFlow DEF Growing

\* Waking sleepers does not change what leaves.
LEMMA WakeOut ==
    ASSUME Inv, NEW i, th' = th \/ th' = Wakeup(i)
    PROVE  \A u \in Thread, j \in Sock : SameOut(u, j)
<1>1. \A u \in Thread : th'[u] = th[u] \/ (th[u].pc = "asleep" /\ th'[u].pc = "test")
  BY InvIs, WakeupTyped
<1>. QED
  BY <1>1 DEF SameOut

\* A segment for a connection is taken, and answered.
LEMMA RxFlow ==
    ASSUME Inv, Inv', Flow, rx.pc = "input", NEW i \in Sock, i = rx.s, NEW r \in Remote, r = rx.from,
           sock[i].st \notin {"LISTEN", "CLOSED"}, OthersKept(i), PlaceKept(i),
           list' = list, queue' = queue, holds' = holds, in' = in, out' = out, peer' = peer,
           th' = th \/ th' = Wakeup(i), Growing, rx'.from \in {r, None},
           NEW g \in SegRec, g.flag = "ACK", NEW next \in {"reply", "last"}, Good(r)' => Then(g, next),
           Good(r)' /\ Link(r) /\ Tracks(r, i) /\ Line(r) # <<>> /\ Head(Line(r)).seg = Got
              /\ Head(Line(r)).port = rx.port /\ Line(r)' = Tail(Line(r))
              /\ Answer(r) = {} /\ Leaving(i)' = Leaving(i) /\ Answer(r)' = {On(rx.port, g)}
              /\ Away(r, i)' = Away(r, i) \cup {On(rx.port, g)} => Tracks(r, i)'
    PROVE  Flow'
<1>1. sock[i].remote = r
  BY RxAt
<1>2. \A u \in Thread, j \in Sock : SameOut(u, j)
  BY WakeOut
<1>3. Steady'
  <2>1. Spoken'
    <3>1. CASE th' = th
      BY <3>1, FlowIs DEF Spoken
    <3>2. CASE th' = Wakeup(i)
      BY <3>2, InvIs, FlowIs, SpokenWake
    <3>. QED
      BY <3>1, <3>2
  <2>2. OpenListed'
    <3>1. \A j \in Sock : sock'[j].st # "CLOSED" \/ Held(j)' => sock[j].st # "CLOSED" \/ Held(j)
      BY DEF OthersKept, Held
    <3>. QED
      BY <3>1, FlowIs, OpenKept
  <2>3. Blank' /\ Numbers'
    BY <1>1, FlowIs, NumbersSame, Sizes DEF Blank, OthersKept, PlaceKept
  <2>. QED
    BY <2>1, <2>2, <2>3 DEF Steady
<1>4. \A j \in Sock : sock[j].st = "LISTEN" => sock'[j].st = "LISTEN"
  BY DEF OthersKept
<1>5. ASSUME NEW q \in Remote, Link(q) PROVE HalfKept(q) /\ Half(q)' = Half(q)
  BY <1>4, <1>5, HalfSame
<1>6. ASSUME Good(r)', Link(r) PROVE Link(r)'
  <2>1. Roles(r) /\ Tracks(r, i) /\ peer[r].st # "synsent" /\ Half(r) = {} /\ Socks(r) = {i}
    BY <1>1, <1>6, FocusIs
  <2>2. /\ Line(r) \in Seq(Wire) /\ Line(r) # <<>> /\ Head(Line(r)).seg = Got /\ Head(Line(r)).port = rx.port
        /\ Answer(r) = {} /\ Line(r)' = Tail(Line(r)) /\ Answer(r)' = {On(rx.port, g)}
    <3>1. Then(g, next)
      BY <1>6
    <3>. QED
      BY <3>1, RxLine
  <2>3. Leaving(i)' = Leaving(i)
    BY <1>2, LeavingSame DEF PlaceKept
  <2>4. Away(r, i)' = Away(r, i) \cup {On(rx.port, g)}
    BY <2>2, <2>3 DEF Away
  <2>5. Roles(r)'
    <3>1. Socks(r)' = Socks(r) /\ \A j \in Socks(r) : sock'[j].port = sock[j].port
      BY DEF Socks, OthersKept, PlaceKept
    <3>2. HalfKept(r) /\ (Half(r)' # {} => peer'[r].st \in {"synsent", "est", "fin"})
      BY <1>5, <1>6, <2>1
    <3>3. ToSet(Line(r))' \in SUBSET ToSet(Line(r))
      BY <2>2, LineSet
    <3>4. On(rx.port, g).seg = g
      BY RxSet, InvIs, OnIs
    <3>5. \/ \E j \in Socks(r) : sock[j].port > 0
          \/ /\ peer'[r].st = "synrcvd" => peer[r].st = "synrcvd"
             /\ \A w \in ToSet(out[r])' \cup Answer(r)' : w.seg.flag = "SYN" => w \in ToSet(out[r]) \cup Answer(r)
             /\ \A x \in ToSet(Line(r))' : x.seg.flag = "SYNACK" => x \in ToSet(Line(r))
      BY <2>2, <3>3, <3>4
    <3>. QED
      BY <2>1, <3>1, <3>2, <3>3, <3>5, RolesMove
  <2>6. Tracks(r, i)'
    BY <1>6, <2>1, <2>2, <2>3, <2>4
  <2>. QED
    BY <1>1, <2>1, <2>5, <2>6, FocusLink DEF PlaceKept
<1>. QED
  BY <1>1, <1>2, <1>3, <1>5, <1>6, NearFlow DEF OthersKept, PlaceKept

\* A segment for a socket that has said FIN.
LEMMA InFinWaitFlow ==
    ASSUME Inv, Inv', Flow, InFinWait
    PROVE  Flow'
<1>1. PICK i : i = rx.s
  OBVIOUS
<1>2. /\ rx.pc = "input" /\ sock[i].st = "FIN_WAIT_1"
      /\ list' = list /\ queue' = queue /\ th' = th /\ holds' = holds /\ in' = in /\ out' = out /\ peer' = peer
  BY <1>1 DEF InFinWait, net, At
<1>3. PICK r \in Remote : r = rx.from
  BY <1>2, RxAt
<1>4. i \in Sock /\ sock[i].remote = r /\ Got \in SegRec /\ Got.seq \in Int /\ Got.ack \in Int
  BY <1>1, <1>2, <1>3, RxAt
<1>5. CASE Got.flag # "FIN" /\ Done /\ UNCHANGED <<sock, well>>
  <2>1. sock' = sock /\ inTrouble' = inTrouble /\ outTrouble' = outTrouble
    BY <1>5 DEF well
  <2>2. rx'.pc = "idle" /\ rx'.from = None
    BY <1>5, IdleIs DEF Done
  <2>3. Line(r) # <<>> /\ Line(r)' = Tail(Line(r)) /\ Answer(r)' = Answer(r)
    BY <1>2, <1>3, <1>5, <2>2, RxLine
  <2>4. Link(r) => (\A j \in Socks(r) : sock[j].st = "FIN_WAIT_1") /\ Half(r) = {}
    BY <1>2, <1>4, FocusIs
  <2>. QED
    BY <1>2, <1>3, <2>1, <2>2, <2>3, <2>4, DropFlow
<1>6. CASE /\ Got.flag = "FIN"
           /\ sock' = [sock EXCEPT ![i].st = "CLOSED", ![i].ack = Got.seq + 1, ![i].seq = Got.ack]
           /\ \/ Answered(Seg("ACK", Got.ack, Got.seq + 1, Offer, <<>>), "last")
              \/ Unanswered
  <2>1. PICK g \in SegRec : g = Seg("ACK", Got.ack, Got.seq + 1, Offer, <<>>)
    BY <1>4, Sizes, AnswerTyped
  <2>2. g.flag = "ACK"
    BY <2>1 DEF Seg
  <2>3. sock[i] \in SockRec /\ sock'[i] = [sock[i] EXCEPT !.st = "CLOSED", !.ack = Got.seq + 1, !.seq = Got.ack] /\ OthersKept(i)
    BY <1>4, <1>6, InvIs DEF KernelTyped, OthersKept
  <2>4. sock'[i].st = "CLOSED" /\ PlaceKept(i)
    BY <2>3 DEF SockRec, PlaceKept
  <2>5. Tracks(r, i)'
    BY <2>4 DEF Tracks
  <2>6. Growing /\ (Good(r)' => Then(g, "last")) /\ rx'.from \in {r, None}
    <3>1. CASE Answered(g, "last")
      <4>1. Then(g, "last") /\ inTrouble' = inTrouble /\ outTrouble' = outTrouble
        BY <3>1 DEF Answered, well
      <4>2. rx'.from = r
        BY <1>2, <1>3, <4>1, RxLine
      <4>. QED
        BY <4>1, <4>2 DEF Growing
    <3>2. CASE Unanswered
      BY <1>3, <3>2, IdleIs DEF Unanswered, Fails, Done, Growing, Good
    <3>. QED
      BY <1>6, <2>1, <3>1, <3>2
  <2>7. th' = th /\ sock[i].st \notin {"LISTEN", "CLOSED"} /\ "last" \in {"reply", "last"}
    BY <1>2
  <2>. QED
    BY <1>1, <1>2, <1>3, <1>4, <2>2, <2>3, <2>4, <2>5, <2>6, <2>7, RxFlow
<1>. QED
  BY <1>1, <1>5, <1>6 DEF InFinWait

\* The answer to our SYN makes a session of a connection that was asked for.
Connects(s, s2, p, L, O, W, V, Z, y) ==
    /\ s \in SockRec /\ s2 \in SockRec /\ p \in PeerRec /\ L \in Seq(Wire) /\ O \in Seq(Wire)
    /\ W \in SUBSET Wire /\ V \in SUBSET Wire /\ y \in Wire /\ Opens(s, p, L, W) /\ L # <<>>
    /\ s2.port = s.port /\ s2.read = s.read /\ s2.head = s.head /\ s2.tail = s.tail /\ s2.wrote = s.wrote
    /\ s2.st = "ESTABLISHED" /\ s2.ack = Head(L).seg.seq + 1 /\ s2.seq = Head(L).seg.ack
    /\ y = On(s.port, Seg("ACK", Head(L).seg.ack, Head(L).seg.seq + 1, Offer, <<>>))
    /\ V \in SUBSET (W \cup {y}) /\ y \in V /\ ToSet(O) \in SUBSET W /\ Z \in SUBSET W
\* The answer to our SYN makes a session.
LEMMA OpensSession ==
    ASSUME NEW s, NEW s2, NEW p, NEW L, NEW O, NEW W, NEW V, NEW Z, NEW y, Connects(s, s2, p, L, O, W, V, Z, y)
    PROVE  /\ Session(s2, p, Tail(L), V) /\ Inward(s2, p, Tail(L), V) /\ Outward(s2, p, O, {y}, Z)
<1>. /\ s \in SockRec /\ s2 \in SockRec /\ p \in PeerRec /\ L \in Seq(Wire) /\ O \in Seq(Wire)
     /\ W \in SUBSET Wire /\ V \in SUBSET Wire /\ y \in Wire /\ Opens(s, p, L, W) /\ L # <<>>
     /\ s2.port = s.port /\ s2.read = s.read /\ s2.head = s.head /\ s2.tail = s.tail /\ s2.wrote = s.wrote
     /\ s2.st = "ESTABLISHED" /\ s2.ack = Head(L).seg.seq + 1 /\ s2.seq = Head(L).seg.ack
     /\ y = On(s.port, Seg("ACK", Head(L).seg.ack, Head(L).seg.seq + 1, Offer, <<>>))
     /\ V \in SUBSET (W \cup {y}) /\ y \in V /\ ToSet(O) \in SUBSET W /\ Z \in SUBSET W
  BY Zenon DEF Connects
<1>1. /\ s.port > 0 /\ s.read = <<>> /\ s.head = s.tail /\ s.wrote = 0
      /\ (\A w \in W : w = Dial(s.port)) /\ p = Dialled(s.port) /\ \A x \in ToSet(L) : x = Greet(s.port)
  BY DEF Opens
<1>2. PICK q \in Int : q = s.port
  BY SockNumbers
<1>3. /\ Greet(q).seg.seq = 0 /\ Greet(q).seg.ack = 1001 /\ Greet(q).seg.data = <<>> /\ Greet(q).port = q
      /\ Dial(q).port = q /\ Dial(q).seg.flag = "SYN" /\ Dial(q).seg.ack = 0 /\ Dial(q).seg.win = Notice
      /\ Dial(q).seg.data = <<>>
  BY DEF Greet, Dial, On, Seg
<1>4. /\ p.st = "synrcvd" /\ p.port = q /\ p.sent = 0 /\ p.una = 0 /\ p.win = 0 /\ p.rcv = 1001 /\ p.got = <<>>
  BY <1>1, <1>2 DEF Dialled, NoPeer
<1>5. Head(L) \in ToSet(L) /\ Tail(L) \in Seq(Wire) /\ ToSet(Tail(L)) \in SUBSET ToSet(L)
  BY LineSet
<1>6. s2.ack = 1 /\ s2.seq = 1001
  BY <1>1, <1>2, <1>3, <1>5
<1>7. /\ y.port = q /\ y.seg.flag = "ACK" /\ y.seg.ack = 1 /\ y.seg.win = Offer /\ y.seg.data = <<>>
  <2>1. y = On(q, Seg("ACK", 1001, 0 + 1, Offer, <<>>))
    BY <1>1, <1>2, <1>3, <1>5
  <2>. QED
    BY <2>1 DEF On, Seg
<1>8. \A x \in ToSet(Tail(L)) : x.port = q /\ Mute(x)
  BY <1>1, <1>2, <1>3, <1>5 DEF Mute
<1>9. \A w \in W : w = Dial(q) /\ Mute(w)
  BY <1>1, <1>2, <1>3 DEF Mute
<1>10. Session(s2, p, Tail(L), V)
  <2>1. \A w \in V : Utters(s2, p, w)
    <3>1. Utters(s2, p, y)
      BY <1>2, <1>4, <1>7 DEF Utters
    <3>2. \A w \in W : Utters(s2, p, w)
      BY <1>2, <1>3, <1>4, <1>9 DEF Utters
    <3>. QED
      BY <3>1, <3>2
  <2>2. Ends(Tail(L), p.sent)
    BY <1>8 DEF Ends
  <2>3. p.una <= 1 + p.sent /\ s2.ack <= 1 + p.sent
    BY <1>4, <1>6
  <2>. QED
    BY <1>1, <1>2, <1>4, <1>8, <2>1, <2>2, <2>3 DEF Session
<1>11. Inward(s2, p, Tail(L), V)
  <2>1. Used(s2) = 0 /\ Len(s2.read) = 0 /\ s2.read = <<>>
    BY <1>1, RingTyped
  <2>2. Span(<<>>, 0, 0)
    BY SpanEmpty
  <2>3. Content(s2) = <<>>
    BY <2>1 DEF Content
  <2>4. Bytes(Tail(L)) = <<>>
    BY <1>5, <1>8, MuteLine
  <2>5. Numbered(Tail(L))
    BY <1>8 DEF Numbered
  <2>6. \A w \in V : w.seg.ack + w.seg.win <= 0 + Ring
    <3>1. 1 + Offer <= 0 + Ring /\ 0 + Notice <= 0 + Ring
      BY OfferIs
    <3>. QED
      BY <1>3, <1>7, <1>9, <3>1
  <2>7. p.sent < 0 + Ring /\ p.una + p.win <= 0 + Ring /\ s2.ack = 0 + 0 + 1
    BY <1>4, <1>6, OfferIs
  <2>8. \E w \in V : w.seg.flag = "ACK" /\ w.seg.ack > 0 + 0
    BY <1>7
  <2>9. 0 + 0 = 0
    OBVIOUS
  <2>. QED
    BY <1>4, <2>1, <2>2, <2>3, <2>4, <2>5, <2>6, <2>7, <2>8, <2>9 DEF Inward
<1>12. Outward(s2, p, O, {y}, Z)
  <2>1. Bytes(O) = <<>>
    BY <1>9, MuteLine
  <2>2. Len(p.got) = 0 /\ Sent(p, O) = 0
    BY <1>4, <2>1 DEF Sent
  <2>3. Span(<<>>, 0, 0)
    BY SpanEmpty
  <2>4. Base(s2) = 1001
    BY <1>1, Sizes DEF Base
  <2>5. \A w \in ToSet(O) \cup Z \cup {y} : Mute(w)
    BY <1>7, <1>9 DEF Mute
  <2>6. Tidy(O)
    <3>1. \A l \in DOMAIN O : O[l] \in ToSet(O)
      BY DEF ToSet
    <3>. QED
      BY <2>5, <3>1 DEF Tidy
  <2>7. s2.wrote = 0 /\ s2.seq = 1001 + 0 /\ p.rcv = 1001 + 0
    BY <1>1, <1>4, <1>6
  <2>. QED
    BY <1>4, <2>1, <2>2, <2>3, <2>4, <2>5, <2>6, <2>7 DEF Outward
<1>. QED
  BY <1>10, <1>11, <1>12

\* The acknowledgement that goes back.
LEMMA AnsweredIs ==
    ASSUME Inv, rx.pc = "input", NEW r, r = rx.from, NEW g \in SegRec, in' = in,
           Answered(g, "reply") \/ Unanswered
    PROVE  Growing /\ (Good(r)' => Then(g, "reply")) /\ rx'.from \in {r, None}
           /\ (Good(r)' => inTrouble' = inTrouble /\ outTrouble' = outTrouble)
<1>1. CASE Answered(g, "reply")
  <2>1. Then(g, "reply") /\ inTrouble' = inTrouble /\ outTrouble' = outTrouble
    BY <1>1 DEF Answered, well
  <2>2. rx'.from = r
    BY <2>1, RxLine
  <2>. QED
    BY <2>1, <2>2 DEF Growing
<1>2. CASE Unanswered
  BY <1>2, IdleIs DEF Unanswered, Fails, Done, Growing, Good
<1>. QED
  BY <1>1, <1>2

\* tcp_input in SYN_SENT.
LEMMA InSynSentFlow ==
    ASSUME Inv, Inv', Flow, InSynSent
    PROVE  Flow'
<1>1. PICK i : i = rx.s
  OBVIOUS
<1>2. /\ rx.pc = "input" /\ sock[i].st = "SYN_SENT"
      /\ list' = list /\ queue' = queue /\ holds' = holds /\ in' = in /\ out' = out /\ peer' = peer
  BY <1>1 DEF InSynSent, net, At
<1>3. PICK r \in Remote : r = rx.from
  BY <1>2, RxAt
<1>4. i \in Sock /\ sock[i].remote = r /\ Got \in SegRec /\ Got.seq \in Int /\ Got.ack \in Int
  BY <1>1, <1>2, <1>3, RxAt
<1>5. CASE Got.flag # "SYNACK" /\ Done /\ UNCHANGED <<sock, th, well>>
  <2>1. sock' = sock /\ th' = th /\ inTrouble' = inTrouble /\ outTrouble' = outTrouble
    BY <1>5 DEF well
  <2>2. rx'.pc = "idle" /\ rx'.from = None
    BY <1>5, IdleIs DEF Done
  <2>3. Line(r) # <<>> /\ Line(r)' = Tail(Line(r)) /\ Answer(r)' = Answer(r)
    BY <1>2, <1>3, <1>5, <2>2, RxLine
  <2>4. Link(r) => (\A j \in Socks(r) : sock[j].st = "SYN_SENT") /\ Half(r) = {}
    BY <1>2, <1>4, FocusIs
  <2>. QED
    BY <1>2, <1>3, <2>1, <2>2, <2>3, <2>4, DropFlow
<1>6. CASE /\ Got.flag = "SYNACK"
           /\ sock' = [sock EXCEPT ![i].ack = Got.seq + 1, ![i].seq = Got.ack, ![i].st = "ESTABLISHED"]
           /\ th' = Wakeup(i)
           /\ \/ Answered(Seg("ACK", Got.ack, Got.seq + 1, Offer, <<>>), "reply")
              \/ Unanswered
  <2>1. PICK g \in SegRec : g = Seg("ACK", Got.ack, Got.seq + 1, Offer, <<>>)
    BY <1>4, Sizes, AnswerTyped
  <2>2. g.flag = "ACK"
    BY <2>1 DEF Seg
  <2>3. sock[i] \in SockRec /\ sock'[i] = [sock[i] EXCEPT !.ack = Got.seq + 1, !.seq = Got.ack, !.st = "ESTABLISHED"] /\ OthersKept(i)
    BY <1>4, <1>6, InvIs DEF KernelTyped, OthersKept
  <2>4. /\ sock'[i].st = "ESTABLISHED" /\ PlaceKept(i) /\ sock'[i].port = sock[i].port /\ sock'[i].read = sock[i].read
        /\ sock'[i].head = sock[i].head /\ sock'[i].tail = sock[i].tail /\ sock'[i].wrote = sock[i].wrote
        /\ sock'[i].ack = Got.seq + 1 /\ sock'[i].seq = Got.ack
    BY <2>3 DEF SockRec, PlaceKept
  <2>5. Growing /\ (Good(r)' => Then(g, "reply")) /\ rx'.from \in {r, None}
    BY <1>2, <1>3, <1>6, <2>1, AnsweredIs
  <2>6. ASSUME Good(r)', Link(r), Tracks(r, i), Line(r) # <<>>, Head(Line(r)).seg = Got,
               Head(Line(r)).port = rx.port, Line(r)' = Tail(Line(r)),
               Answer(r) = {}, Leaving(i)' = Leaving(i), Answer(r)' = {On(rx.port, g)},
               Away(r, i)' = Away(r, i) \cup {On(rx.port, g)}
        PROVE  Tracks(r, i)'
    <3>1. PICK p \in PeerRec : p = peer[r]
      BY ViewTyped
    <3>2. PICK L \in Seq(Wire) : L = Line(r)
      BY ViewTyped
    <3>3. PICK O \in Seq(Wire) : O = out[r]
      BY ViewTyped
    <3>4. PICK W \in SUBSET Wire : W = Away(r, i)
      BY <1>4, ViewTyped
    <3>5. PICK s \in SockRec : s = sock[i]
      BY <2>3
    <3>6. PICK s2 \in SockRec : s2 = sock'[i]
      BY <1>4, NewTyped
    <3>7. Opens(s, p, L, W)
      BY <1>2, <2>6, <3>1, <3>2, <3>4, <3>5 DEF Tracks
    <3>8. rx.port = s.port
      <4>1. Head(L) = Greet(s.port)
        BY <2>6, <3>2, <3>7, LineSet DEF Opens
      <4>2. Greet(s.port).port = s.port
        BY DEF Greet, On
      <4>. QED
        BY <2>6, <3>2, <4>1, <4>2
    <3>9. PICK y \in Wire : y = On(rx.port, g)
      BY InvIs, RxSet, OnIs
    <3>10. y = On(s.port, Seg("ACK", Head(L).seg.ack, Head(L).seg.seq + 1, Offer, <<>>))
      BY <2>1, <2>6, <3>2, <3>8, <3>9
    <3>11. ToSet(O) \in SUBSET W /\ Leaving(i) \in SUBSET W
      BY <3>3, <3>4 DEF Away
    <3>12. W \cup {y} \in SUBSET Wire
      OBVIOUS
    <3>13. Session(s2, p, Tail(L), W \cup {y}) /\ Inward(s2, p, Tail(L), W \cup {y}) /\ Outward(s2, p, O, {y}, Leaving(i))
      <4>1. /\ s2.port = s.port /\ s2.read = s.read /\ s2.head = s.head /\ s2.tail = s.tail /\ s2.wrote = s.wrote
            /\ s2.st = "ESTABLISHED" /\ s2.ack = Head(L).seg.seq + 1 /\ s2.seq = Head(L).seg.ack /\ L # <<>>
        BY <2>4, <2>6, <3>2, <3>5, <3>6
      <4>2. PICK V \in SUBSET Wire : V = W \cup {y}
        BY <3>12
      <4>3. V \in SUBSET (W \cup {y}) /\ y \in V
        BY <4>2
      <4>4. PICK Z : Z = Leaving(i)
        OBVIOUS
      <4>5. Z \in SUBSET W /\ ToSet(O) \in SUBSET W
        BY <3>11, <4>4
      <4>6. Session(s2, p, Tail(L), V) /\ Inward(s2, p, Tail(L), V) /\ Outward(s2, p, O, {y}, Z)
        <5>1. Connects(s, s2, p, L, O, W, V, Z, y)
          BY <3>7, <3>10, <4>1, <4>3, <4>5, Zenon DEF Connects
        <5>. QED
          BY <5>1, OpensSession
      <4>. QED
        BY <4>2, <4>4, <4>6
    <3>. QED
      BY <1>2, <2>4, <2>6, <3>1, <3>2, <3>3, <3>4, <3>6, <3>9, <3>13 DEF Tracks
  <2>7. sock[i].st \notin {"LISTEN", "CLOSED"} /\ "reply" \in {"reply", "last"} /\ th' = Wakeup(i)
    BY <1>2, <1>6
  <2>. QED
    BY <1>1, <1>2, <1>3, <1>4, <2>2, <2>3, <2>4, <2>5, <2>6, <2>7, RxFlow
<1>. QED
  BY <1>1, <1>5, <1>6 DEF InSynSent

\* tcp_input in ESTABLISHED: data enter the ring, or the FIN ends the session.
LEMMA InEstablishedFlow ==
    ASSUME Inv, Inv', Flow, InEstablished
    PROVE  Flow'
<1>1. PICK i : i = rx.s
  OBVIOUS
<1>2. /\ rx.pc = "input" /\ sock[i].st = "ESTABLISHED"
      /\ list' = list /\ queue' = queue /\ holds' = holds /\ in' = in /\ out' = out /\ peer' = peer
  BY <1>1 DEF InEstablished, net, At
<1>3. PICK r \in Remote : r = rx.from
  BY <1>2, RxAt
<1>4. /\ i \in Sock /\ sock[i].remote = r /\ sock[i] \in SockRec
      /\ Got \in SegRec /\ Got.seq \in Int /\ Got.ack \in Int /\ Got.data \in Seq(Int)
  BY <1>1, <1>2, <1>3, RxAt
<1>5. PICK d \in Seq(Int) : d = Got.data
  BY <1>4
<1>6. PICK n \in Nat : n = Len(d)
  OBVIOUS
<1>7. PICK s \in SockRec : s = sock[i]
  BY <1>4
<1>8. PICK a \in Int : a = Got.seq + n
  BY <1>4
<1>9. sock[i].st \notin {"LISTEN", "CLOSED"} /\ "reply" \in {"reply", "last"}
  BY <1>2
<1>10. CASE n = 0 /\ Done /\ UNCHANGED <<sock, th, well>>
  <2>1. sock' = sock /\ th' = th /\ inTrouble' = inTrouble /\ outTrouble' = outTrouble
    BY <1>10 DEF well
  <2>2. rx'.pc = "idle" /\ rx'.from = None
    BY <1>10, IdleIs DEF Done
  <2>3. Line(r) # <<>> /\ Line(r)' = Tail(Line(r)) /\ Answer(r)' = Answer(r) /\ Head(Line(r)).seg = Got
    BY <1>2, <1>3, <1>10, <2>2, RxLine
  <2>4. Mute(Head(Line(r)))
    <3>1. Len(d) = 0
      BY <1>6, <1>10
    <3>2. d = <<>>
      BY <3>1
    <3>. QED
      BY <1>5, <2>3, <3>2 DEF Mute
  <2>5. Link(r) => Half(r) = {}
    BY <1>2, <1>4, FocusIs
  <2>. QED
    BY <1>2, <1>3, <2>1, <2>2, <2>3, <2>4, <2>5, DropFlow
<1>11. ASSUME n > 0, Link(r), Tracks(r, i), Line(r) # <<>>, Head(Line(r)).seg = Got, Head(Line(r)).port = rx.port
       PROVE  a <= 1 + peer[r].sent /\ rx.port = s.port
  <2>1. Session(s, peer[r], Line(r), Away(r, i)) /\ Head(Line(r)) \in ToSet(Line(r))
    BY <1>2, <1>7, <1>11, ViewTyped, LineSet DEF Tracks
  <2>2. ~Mute(Head(Line(r)))
    BY <1>5, <1>6, <1>11 DEF Mute
  <2>. QED
    BY <1>5, <1>6, <1>8, <1>11, <2>1, <2>2 DEF Session, Ends
<1>12. CASE /\ n > 0 /\ Room(s) < n
            /\ Answered(Seg("ACK", s.seq, a, 0, <<>>), "reply") \/ Unanswered
            /\ UNCHANGED <<sock, th>>
  <2>1. PICK g \in SegRec : g = Seg("ACK", s.seq, a, 0, <<>>)
    BY SockFields, AnswerTyped
  <2>2. g.flag = "ACK" /\ g.ack = a /\ g.data = <<>>
    BY <2>1 DEF Seg
  <2>3. Growing /\ (Good(r)' => Then(g, "reply")) /\ rx'.from \in {r, None}
        /\ (Good(r)' => inTrouble' = inTrouble /\ outTrouble' = outTrouble)
    BY <1>2, <1>3, <1>12, <2>1, AnsweredIs
  <2>4. ASSUME Good(r)', Link(r), Tracks(r, i), Line(r) # <<>>, Head(Line(r)).seg = Got,
               Head(Line(r)).port = rx.port, Line(r)' = Tail(Line(r)),
               Answer(r) = {}, Leaving(i)' = Leaving(i), Answer(r)' = {On(rx.port, g)},
               Away(r, i)' = Away(r, i) \cup {On(rx.port, g)}
        PROVE  Tracks(r, i)'
    <3>1. PICK p \in PeerRec : p = peer[r]
      BY ViewTyped
    <3>2. PICK L \in Seq(Wire) : L = Line(r)
      BY ViewTyped
    <3>3. PICK O \in Seq(Wire) : O = out[r]
      BY ViewTyped
    <3>4. PICK W \in SUBSET Wire : W = Away(r, i)
      BY <1>4, ViewTyped
    <3>5. PICK y \in Wire : y = On(rx.port, g)
      BY InvIs, RxSet, OnIs
    <3>6. y.port = rx.port /\ y.seg = g
      BY <3>5, InvIs, RxSet, OnIs
    <3>7. a <= 1 + p.sent /\ rx.port = s.port
      BY <1>11, <1>12, <2>4, <3>1
    <3>8. Session(s, p, L, W) /\ (r \notin outTrouble => Outward(s, p, O, {}, Leaving(i)))
          /\ (r \notin inTrouble => Inward(s, p, L, W))
      BY <1>2, <1>7, <2>4, <3>1, <3>2, <3>3, <3>4 DEF Tracks
    <3>9. r \in inTrouble
      <4>1. r \notin inTrouble => n <= Room(s)
        BY <1>5, <1>6, <2>4, <3>2, <3>8, InwardFits
      <4>2. Room(s) \in Int
        BY RingTyped
      <4>. QED
        BY <1>12, <4>1, <4>2
    <3>10. Session(s, p, Tail(L), W \cup {y})
      <4>1. Utters(s, p, y)
        BY <2>2, <3>6, <3>7 DEF Utters
      <4>2. \A x \in ToSet(Tail(L)) : x \in ToSet(L)
        BY <2>4, <3>2, LineSet
      <4>. QED
        BY <3>8, <4>1, <4>2 DEF Session, Ends
    <3>11. r \notin outTrouble => Outward(s, p, O, {y}, Leaving(i))
      BY <2>2, <3>6, <3>8, OutwardWords DEF Mute
    <3>12. inTrouble' = inTrouble /\ outTrouble' = outTrouble
      BY <2>3, <2>4
    <3>. QED
      BY <1>2, <1>7, <1>12, <2>4, <3>1, <3>2, <3>3, <3>4, <3>5, <3>9, <3>10, <3>11, <3>12 DEF Tracks
  <2>5. OthersKept(i) /\ PlaceKept(i)
    BY <1>12 DEF OthersKept, PlaceKept
  <2>. QED
    BY <1>1, <1>2, <1>3, <1>4, <1>9, <1>12, <2>2, <2>3, <2>4, <2>5, RxFlow
<1>13. CASE /\ n > 0 /\ Room(s) >= n
            /\ sock' = [sock EXCEPT ![i] = StoredAs(s, d, a, Got.ack)]
            /\ th' = Wakeup(i)
            /\ \/ /\ Then(Seg("ACK", Got.ack, a, Room(StoredAs(s, d, a, Got.ack)), <<>>), "reply")
                  /\ outTrouble' = IF Got.ack # s.seq THEN outTrouble \cup {rx.from} ELSE outTrouble
                  /\ UNCHANGED <<faults, inTrouble>>
               \/ Unanswered
  <2>1. PICK s2 \in SockRec : s2 = StoredAs(s, d, a, Got.ack)
    BY <1>4, StoredTyped
  <2>2. PICK g \in SegRec : g = Seg("ACK", Got.ack, a, Room(s2), <<>>)
    BY <1>4, <2>1, RingTyped, AnswerTyped
  <2>3. g.flag = "ACK" /\ g.ack = a /\ g.data = <<>> /\ g.win = Room(s2)
    BY <2>2 DEF Seg
  <2>4. sock'[i] = s2 /\ OthersKept(i)
    BY <1>4, <1>13, <2>1, InvIs, SockSet, Zenon DEF OthersKept
  <2>5. /\ s2.st = s.st /\ s2.port = s.port /\ s2.remote = s.remote /\ s2.mem = s.mem
        /\ s2.ack = a /\ s2.seq = Got.ack /\ s2.wrote = s.wrote
    <3>1. s2.st = s.st /\ s2.port = s.port /\ s2.remote = s.remote /\ s2.mem = s.mem
      BY <1>4, <2>1, StoredTyped
    <3>. QED
      BY <1>4, <2>1, <3>1, Zenon DEF StoredAs, Stored, SockRec
  <2>6. PlaceKept(i)
    BY <1>7, <2>4, <2>5 DEF PlaceKept
  <2>7. Growing /\ (Good(r)' => Then(g, "reply")) /\ rx'.from \in {r, None}
        /\ (Good(r)' => inTrouble' = inTrouble /\ outTrouble \in SUBSET outTrouble')
        /\ (Good(r)' /\ r \notin outTrouble' => Got.ack = s.seq)
    <3>1. CASE /\ Then(g, "reply")
               /\ outTrouble' = IF Got.ack # s.seq THEN outTrouble \cup {rx.from} ELSE outTrouble
               /\ UNCHANGED <<faults, inTrouble>>
      <4>1. rx'.from = r
        BY <1>2, <1>3, <3>1, RxLine
      <4>. QED
        BY <1>3, <3>1, <4>1 DEF Growing
    <3>2. CASE Unanswered
      BY <1>3, <3>2, IdleIs DEF Unanswered, Fails, Done, Growing, Good
    <3>. QED
      BY <1>13, <2>1, <2>2, <3>1, <3>2
  <2>8. ASSUME Good(r)', Link(r), Tracks(r, i), Line(r) # <<>>, Head(Line(r)).seg = Got,
               Head(Line(r)).port = rx.port, Line(r)' = Tail(Line(r)),
               Answer(r) = {}, Leaving(i)' = Leaving(i), Answer(r)' = {On(rx.port, g)},
               Away(r, i)' = Away(r, i) \cup {On(rx.port, g)}
        PROVE  Tracks(r, i)'
    <3>1. PICK p \in PeerRec : p = peer[r]
      BY ViewTyped
    <3>2. PICK L \in Seq(Wire) : L = Line(r)
      BY ViewTyped
    <3>3. PICK O \in Seq(Wire) : O = out[r]
      BY ViewTyped
    <3>4. PICK W \in SUBSET Wire : W = Away(r, i)
      BY <1>4, ViewTyped
    <3>5. PICK y \in Wire : y = On(rx.port, g)
      BY InvIs, RxSet, OnIs
    <3>6. y.port = rx.port /\ y.seg = g
      BY <3>5, InvIs, RxSet, OnIs
    <3>7. a <= 1 + p.sent /\ rx.port = s.port
      BY <1>11, <1>13, <2>8, <3>1
    <3>8. Session(s, p, L, W) /\ (r \notin outTrouble => Outward(s, p, O, {}, Leaving(i)))
          /\ (r \notin inTrouble => Inward(s, p, L, W)) /\ s.st = "ESTABLISHED"
      BY <1>2, <1>7, <2>8, <3>1, <3>2, <3>3, <3>4 DEF Tracks
    <3>9. Tail(L) \in Seq(Wire) /\ W \cup {y} \in SUBSET Wire /\ \A x \in ToSet(Tail(L)) : x \in ToSet(L)
      BY <2>8, <3>2, LineSet
    <3>10. Session(s2, p, Tail(L), W \cup {y})
      <4>1. Utters(s2, p, y)
        BY <2>3, <2>5, <3>6, <3>7 DEF Utters
      <4>2. p.una <= 1 + p.sent /\ p.st \in {"synrcvd"} \cup Live /\ (p.st = "synrcvd" => p = Dialled(s.port))
            /\ p.st \in {"synrcvd", "est", "fin"}
        BY <3>8 DEF Session
      <4>3. p.sent \in Int
        BY PeerNumbers
      <4>. QED
        <5>1. /\ s.st # "FIN_WAIT_1" /\ s2.ack <= 1 + p.sent /\ p.sent <= p.sent
              /\ \A w \in W \cup {y} : w \in W \/ Utters(s2, p, w)
          BY <2>5, <3>7, <3>8, <4>1, <4>3
        <5>2. PICK V \in SUBSET Wire : V = W \cup {y}
          BY <3>9
        <5>3. PICK M \in Seq(Wire) : M = Tail(L)
          BY <3>9
        <5>4. Session(s2, p, M, V)
          BY <2>5, <3>8, <3>9, <4>2, <5>1, <5>2, <5>3, SessionMoves
        <5>. QED
          BY <5>2, <5>3, <5>4
    <3>11. ASSUME r \notin outTrouble' PROVE Outward(s2, p, O, {y}, Leaving(i))
      <4>1. Got.ack = s.seq /\ r \notin outTrouble
        BY <2>7, <2>8, <3>11
      <4>2. \A x \in {y} : Mute(x)
        BY <2>3, <3>6 DEF Mute
      <4>. QED
        BY <2>5, <3>8, <4>1, <4>2, OutwardWords
    <3>12. ASSUME r \notin inTrouble' PROVE Inward(s2, p, Tail(L), W \cup {y})
      <4>1. Inward(s, p, L, W)
        BY <2>7, <2>8, <3>8, <3>12
      <4>2. d = Head(L).seg.data /\ d # <<>> /\ Len(d) <= Room(s) /\ a = Head(L).seg.seq + Len(d)
        <5>1. Room(s) \in Int
          BY RingTyped
        <5>. QED
          BY <1>5, <1>6, <1>8, <1>13, <2>8, <3>2, <5>1
      <4>3. y.seg.flag = "ACK" /\ y.seg.ack = a /\ y.seg.win = Room(s2)
        BY <2>3, <3>6
      <4>4. Got.ack \in Int /\ L # <<>>
        BY <1>4, <2>8, <3>2
      <4>. QED
        BY <2>1, <3>9, <4>1, <4>2, <4>3, <4>4, InwardStores, ZenonT(30)
    <3>. QED
      BY <1>2, <2>4, <2>8, <3>1, <3>2, <3>3, <3>4, <3>5, <3>10, <3>11, <3>12, <2>5, <3>8 DEF Tracks
  <2>. QED
    BY <1>1, <1>2, <1>3, <1>4, <1>9, <1>13, <2>3, <2>4, <2>6, <2>7, <2>8, RxFlow
<1>14. StoredAs(s, d, a, Got.ack) = [Stored(At, Got.data) EXCEPT !.ack = Got.seq + Len(Got.data), !.seq = Got.ack]
       /\ s = At
  BY <1>1, <1>5, <1>6, <1>7, <1>8, Zenon DEF StoredAs, At
<1>. QED
  BY <1>1, <1>5, <1>6, <1>8, <1>10, <1>12, <1>13, <1>14 DEF InEstablished

-----------------------------------------------------------------------------
(* The listener.                                                           *)

\* A half-open connection enters the queue in front of those of other hosts.
LEMMA HalfFront ==
    ASSUME NEW q \in Remote, Link(q), KernelTyped, NEW x \in QueueRec, x.r # q, queue' = <<x>> \o queue, sock' = sock
    PROVE  HalfKept(q)
<1>1. DOMAIN queue = 1 .. Len(queue) /\ Len(queue) \in Nat /\ queue \in Seq(QueueRec)
  BY DEF KernelTyped
<1>2. /\ DOMAIN queue' = 1 .. Len(queue) + 1 /\ queue'[1] = x
      /\ \A l \in 1 .. Len(queue) : queue'[l + 1] = queue[l]
  <2>1. /\ <<x>> \o queue \in Seq(QueueRec) /\ Len(<<x>> \o queue) = Len(queue) + 1
        /\ (<<x>> \o queue)[1] = x /\ \A l \in 1 .. Len(queue) : (<<x>> \o queue)[l + 1] = queue[l]
    BY <1>1, Before
  <2>. QED
    BY <2>1
<1>3. ASSUME NEW k \in Half(q)' PROVE k \in Int /\ k - 1 \in Half(q) /\ queue'[k] = queue[k - 1]
  <2>1. k \in 1 .. Len(queue) + 1 /\ queue'[k].r = q /\ queue'[k].s = None
    BY <1>2 DEF Half
  <2>2. k # 1
    BY <1>2, <2>1
  <2>3. PICK l \in 1 .. Len(queue) : l = k - 1
    BY <1>1, <2>1, <2>2
  <2>4. k = l + 1
    BY <2>1, <2>3
  <2>5. queue'[k] = queue[l]
    BY <1>2, <2>4
  <2>. QED
    BY <1>1, <2>1, <2>3, <2>5 DEF Half
<1>4. Roles(q)
  BY DEF Link
<1>5. ASSUME NEW k \in Half(q)', NEW l \in Half(q)' PROVE k = l /\ queue'[k].seq = 0
  <2>1. k - 1 = l - 1 /\ queue[k - 1].seq = 0
    BY <1>3, <1>4 DEF Roles
  <2>2. k \in Int /\ l \in Int /\ queue'[k] = queue[k - 1]
    BY <1>3
  <2>3. k = l
    BY <2>1, <2>2
  <2>. QED
    BY <2>1, <2>2, <2>3
<1>6. Half(q)' # {} => Half(q) # {} /\ \E j \in Sock : sock[j].st = "LISTEN"
  BY <1>3, <1>4 DEF Roles
<1>. QED
  BY <1>5, <1>6 DEF HalfKept

\* The listener has the well-known port: no socket has another.
LEMMA ListenerPort ==
    ASSUME Inv, NEW i \in Sock, sock[i].st = "LISTEN", sock[i].mem = "live"
    PROVE  /\ sock[i].port = WellKnown /\ sock[i].remote = None
           /\ \A j \in Sock : ~(sock[j].port > 0)
<1>1. sock[i].port \in {-1, WellKnown} /\ sock[i].port >= 0 /\ sock[i].remote = None
  BY InvIs DEF Modes
<1>2. sock[i].port = WellKnown
  BY <1>1, Sizes
<1>3. \A j \in Sock : sock[j].port \in {-1, WellKnown}
  BY <1>2, InvIs DEF Modes
<1>. QED
  BY <1>1, <1>2, <1>3, Sizes

\* A host that asks when its SYN is being handled: nothing else is under way.
LEMMA AskHeard ==
    ASSUME Inv, rx.pc = "input", NEW r \in Remote, r = rx.from, Link(r), peer[r].st = "synsent"
    PROVE  Line(r) = <<Ask>> /\ out[r] = <<>> /\ Answer(r) = {} /\ Half(r) = {} /\ Socks(r) = {}
<1>1. Line(r) # <<>>
  BY RxLine, LineIs, InvIs
<1>2. Asking(r)
  BY DEF Link
<1>. QED
  BY <1>1, <1>2 DEF Asking, Asks

\* The SYN of a host, and the half-open connection it makes.
LEMMA AskIs ==
    /\ Ask.port = WellKnown /\ Ask.seg.flag = "SYN" /\ Ask.seg.seq = 0 /\ Ask.seg.data = <<>>
    /\ Invite = On(WellKnown, Seg("SYNACK", 0, 0 + 1, Offer, <<>>)) /\ Invite.seg.flag = "SYNACK"
    /\ Invite.seg.ack = 1 /\ Invite.seg.win = Offer /\ Invite.seg.seq = 0 /\ Invite.seg.data = <<>>
    /\ Invite.port = WellKnown
BY DEF Ask, Invite, On, Seg

\* tcp_input of the listener: a SYN,
LEMMA InListenSynFlow ==
    ASSUME Inv, Inv', Flow, InListenSyn
    PROVE  Flow'
<1>1. PICK i : i = rx.s
  OBVIOUS
<1>2. /\ rx.pc = "input" /\ sock[i].st = "LISTEN" /\ Got.flag \in {"SYN", "SYNACK"}
      /\ sock' = sock /\ list' = list /\ th' = th /\ holds' = holds /\ in' = in /\ out' = out /\ peer' = peer
  BY <1>1 DEF InListenSyn, net, At
<1>3. PICK r \in Remote : r = rx.from
  BY <1>2, RxAt
<1>4. i \in Sock /\ sock[i].mem = "live" /\ Got \in SegRec /\ Got.seq \in Int /\ sock[i].seq \in Int
  BY <1>1, <1>2, RxAt, RxSet, InvIs, SegFields, SockFields
<1>5. /\ sock[i].port = WellKnown /\ sock[i].remote = None /\ sock[i].seq = 0
      /\ \A j \in Sock : ~(sock[j].port > 0)
  BY <1>2, <1>4, ListenerPort, FlowIs DEF Blank
<1>6. PICK x \in QueueRec : x = [r |-> rx.from, seq |-> At.seq, s |-> None]
  BY <1>1, <1>3, <1>4 DEF QueueRec, At
<1>7. PICK g \in SegRec : g = Seg("SYNACK", At.seq, Got.seq + 1, Offer, <<>>)
  <2>1. At.seq \in Int /\ Got.seq + 1 \in Int /\ "SYNACK" \in Flag /\ <<>> \in Seq(Int)
    BY <1>1, <1>4 DEF At, Flag
  <2>. QED
    BY <2>1, Sizes, SegTyped
<1>8. x.r = r /\ x.seq = 0 /\ x.s = None
  BY <1>1, <1>3, <1>5, <1>6 DEF At
<1>9. \/ queue' = <<x>> \o queue /\ Answered(g, "reply")
      \/ Unanswered /\ queue' = queue
  BY <1>6, <1>7 DEF InListenSyn
<1>10. Growing /\ (Good(r)' => Then(g, "reply")) /\ rx'.from \in {r, None}
  BY <1>2, <1>3, <1>9, AnsweredIs
<1>11. Good(r)' => queue' = <<x>> \o queue
  BY <1>3, <1>9 DEF Unanswered, Fails, Good
<1>12. Steady'
  <2>1. Spoken'
    BY <1>2, FlowIs DEF Spoken
  <2>. QED
    BY <1>2, <2>1, FlowIs, SocksSame, NumbersSame DEF Steady
<1>13. ASSUME NEW q \in Remote, q # r, Link(q) PROVE HalfKept(q)
  <2>1. CASE queue' = queue
    BY <1>2, <1>13, <2>1, HalfSame
  <2>2. CASE queue' = <<x>> \o queue
    BY <1>2, <1>8, <1>13, <2>2, HalfFront, InvIs
  <2>. QED
    BY <1>9, <2>1, <2>2
<1>14. ASSUME Good(r)', Link(r) PROVE Link(r)'
  <2>1. Then(g, "reply") /\ queue' = <<x>> \o queue
    BY <1>10, <1>11, <1>14
  <2>2. /\ Line(r) \in Seq(Wire) /\ Line(r) # <<>> /\ Head(Line(r)).seg = Got /\ Head(Line(r)).port = rx.port
        /\ Line(r)' = Tail(Line(r)) /\ Answer(r)' = {On(rx.port, g)}
    BY <1>2, <1>3, <2>1, RxLine
  <2>3. Head(Line(r)) \in ToSet(Line(r)) /\ Roles(r)
    BY <1>14, <2>2, LineSet DEF Link
  <2>4. Got.flag # "SYNACK"
    BY <1>5, <2>2, <2>3 DEF Roles, Socks
  <2>5. peer[r].st = "synsent"
    BY <1>2, <2>2, <2>3, <2>4 DEF Roles
  <2>6. Line(r) = <<Ask>> /\ out[r] = <<>> /\ Answer(r) = {} /\ Half(r) = {} /\ Socks(r) = {} /\ peer[r] = Asker
    BY <1>2, <1>3, <1>14, <2>5, AskHeard DEF Link, Asking, Asks
  <2>7. Line(r)' = <<>> /\ rx.port = WellKnown /\ Got.seq = 0
    BY <2>2, <2>6, AskIs
  <2>8. Answer(r)' = {Invite}
    <3>1. g = Seg("SYNACK", 0, 0 + 1, Offer, <<>>)
      BY <1>1, <1>5, <1>7, <2>7 DEF At
    <3>. QED
      BY <2>2, <2>7, <3>1, AskIs
  <2>9. Half(r)' = {1} /\ queue'[1].seq = 0
    <3>1. DOMAIN queue = 1 .. Len(queue) /\ Len(queue) \in Nat /\ queue \in Seq(QueueRec)
      BY InvIs DEF KernelTyped
    <3>2. /\ <<x>> \o queue \in Seq(QueueRec) /\ Len(<<x>> \o queue) = Len(queue) + 1
          /\ (<<x>> \o queue)[1] = x /\ \A l \in 1 .. Len(queue) : (<<x>> \o queue)[l + 1] = queue[l]
      BY <3>1, Before
    <3>3. DOMAIN queue' = 1 .. Len(queue) + 1 /\ queue'[1] = x /\ \A l \in 1 .. Len(queue) : queue'[l + 1] = queue[l]
      BY <2>1, <3>2
    <3>4. 1 \in DOMAIN queue' /\ 1 \in Half(r)'
      BY <1>8, <3>1, <3>3 DEF Half
    <3>5. ASSUME NEW k \in Half(r)', k # 1 PROVE FALSE
      <4>1. k \in 1 .. Len(queue) + 1 /\ queue'[k].r = r /\ queue'[k].s = None
        BY <3>3 DEF Half
      <4>2. PICK l \in 1 .. Len(queue) : k = l + 1
        <5>1. k - 1 \in 1 .. Len(queue) /\ k = (k - 1) + 1
          BY <3>1, <3>5, <4>1
        <5>. QED
          BY <5>1
      <4>3. l \in Half(r)
        BY <3>1, <3>3, <4>1, <4>2 DEF Half
      <4>. QED
        BY <2>6, <4>3
    <3>. QED
      BY <1>8, <3>3, <3>4, <3>5
  <2>10. Socks(r)' = {} /\ peer'[r] = Asker /\ out'[r] = <<>> /\ peer'[r].st = "synsent"
    BY <1>2, <2>5, <2>6 DEF Socks
  <2>11. ToSet(<<>>) = {}
    BY LineSet, EmptySeq
  <2>12. Roles(r)'
    BY <1>2, <1>4, <2>7, <2>8, <2>9, <2>10, <2>11, AskIs DEF Roles
  <2>. QED
    BY <2>7, <2>8, <2>10, <2>12 DEF Link, Asking, Asks, Greeting
<1>. QED
  BY <1>2, <1>3, <1>10, <1>12, <1>13, <1>14, NearFlow DEF SameOut

\* The segment that makes the half-open connection a session.
Answers(s, p, L, O, Y) ==
    /\ s \in SockRec /\ p \in PeerRec /\ L \in Seq(Wire) /\ O \in Seq(Wire) /\ Greets(p, L, O, Y)
    /\ s.port = WellKnown /\ s.st = "ESTABLISHED" /\ s.seq = 1 /\ s.ack = Head(L).seg.seq
    /\ s.head = s.tail /\ s.read = <<>> /\ s.wrote = 0
\* The first acknowledgement makes a session.
LEMMA GreetsSession ==
    ASSUME NEW s, NEW p, NEW L, NEW O, NEW Y, Answers(s, p, L, O, Y)
    PROVE  Session(s, p, Tail(L), {}) /\ Inward(s, p, Tail(L), {}) /\ Outward(s, p, O, {}, {})
<1>. /\ s \in SockRec /\ p \in PeerRec /\ L \in Seq(Wire) /\ O \in Seq(Wire) /\ Greets(p, L, O, Y)
     /\ s.port = WellKnown /\ s.st = "ESTABLISHED" /\ s.seq = 1 /\ s.ack = Head(L).seg.seq
     /\ s.head = s.tail /\ s.read = <<>> /\ s.wrote = 0
  BY Zenon DEF Answers
<1>1. /\ p.port = WellKnown /\ p.rcv = 1 /\ p.una = 1 /\ p.win = Offer /\ p.got = <<>> /\ p.st \in {"est", "fin"}
      /\ O = <<>> /\ L # <<>> /\ Mute(Head(L)) /\ s.ack = 1 /\ (\A x \in ToSet(L) : x.port = WellKnown)
      /\ Numbered(L) /\ Ends(L, p.sent) /\ Span(Bytes(L), 0, p.sent) /\ p.sent < Ring
  BY DEF Greets
<1>2. Tail(L) \in Seq(Wire) /\ ToSet(Tail(L)) \in SUBSET ToSet(L) /\ Bytes(Tail(L)) = Bytes(L)
  BY <1>1, LineSet, MuteTake
<1>3. PICK n \in Int : n = p.sent
  BY PeerNumbers
<1>4. n >= 0
  BY <1>1, <1>2, <1>3, BytesTyped DEF Span
<1>5. Session(s, p, Tail(L), {})
  <2>1. p.una <= 1 + p.sent /\ s.ack <= 1 + p.sent
    BY <1>1, <1>3, <1>4
  <2>2. Ends(Tail(L), p.sent)
    BY <1>1, <1>2 DEF Ends
  <2>. QED
    BY <1>1, <1>2, <2>1, <2>2 DEF Session, Live
<1>6. Inward(s, p, Tail(L), {})
  <2>1. Used(s) = 0 /\ Len(s.read) = 0
    BY RingTyped
  <2>2. Span(<<>>, 0, 0)
    BY SpanEmpty
  <2>3. Content(s) = <<>>
    BY <2>1 DEF Content
  <2>4. Numbered(Tail(L))
    BY <1>1, <1>2 DEF Numbered
  <2>5. p.sent < 0 + Ring /\ p.una + p.win <= 0 + Ring /\ s.ack = 0 + 0 + 1 /\ p.una > 0 + 0 /\ 0 + 0 = 0
    BY <1>1, <1>3, OfferIs
  <2>. QED
    BY <1>1, <1>2, <2>1, <2>2, <2>3, <2>4, <2>5 DEF Inward
<1>7. Outward(s, p, O, {}, {})
  <2>1. Bytes(O) = <<>> /\ ToSet(O) = {}
    BY <1>1, BytesTyped, LineSet
  <2>2. Len(p.got) = 0 /\ Sent(p, O) = 0
    BY <1>1, <2>1 DEF Sent
  <2>3. Span(<<>>, 0, 0)
    BY SpanEmpty
  <2>4. Base(s) = 1 /\ s.seq = 1 + 0 /\ p.rcv = 1 + 0
    BY <1>1 DEF Base
  <2>5. Tidy(O)
    BY <1>1 DEF Tidy
  <2>. QED
    BY <1>1, <2>1, <2>2, <2>3, <2>4, <2>5 DEF Outward
<1>. QED
  BY <1>5, <1>6, <1>7

\* A half-open connection becomes a session.
LEMMA HalfOther ==
    ASSUME NEW q \in Remote, KernelTyped, NEW m \in DOMAIN queue, queue[m].r # q, NEW n,
           queue' = [queue EXCEPT ![m].s = n]
    PROVE  Half(q)' = Half(q) /\ \A k \in Half(q) : queue'[k] = queue[k]
<1>1. DOMAIN queue' = DOMAIN queue /\ \A k \in DOMAIN queue : k # m => queue'[k] = queue[k]
  BY DEF KernelTyped
<1>2. queue'[m].r = queue[m].r
  <2>1. queue[m] \in QueueRec /\ queue'[m] = [queue[m] EXCEPT !.s = n]
    BY DEF KernelTyped
  <2>. QED
    BY <2>1 DEF QueueRec
<1>. QED
  BY <1>1, <1>2 DEF Half

\* The half-open connection becomes a session.
LEMMA CompletesFlow ==
    ASSUME Inv, Inv', Flow, rx.pc = "input", NEW r \in Remote, r = rx.from, NEW i \in Sock, i = rx.s,
           sock[i].st = "LISTEN", HalfOpen # {}, NEW n \in Fresh, sock' = [sock EXCEPT ![n] = Completed(n)],
           queue' = [queue EXCEPT ![Min(HalfOpen)].s = n], list' = <<n>> \o list, th' = Wakeup(i),
           inTrouble' = inTrouble, outTrouble' = outTrouble, Done, holds' = holds, in' = in, out' = out, peer' = peer
    PROVE  Flow'
<1>1. /\ n \in Sock /\ sock[n].mem = "none" /\ sock[n].remote = None /\ n # i
      /\ \A u \in Thread : ~(th[u].pc = "out" /\ th[u].s = n)
  BY FreshSock, RxAt
<1>2. HalfOpen = Half(r)
  BY DEF HalfOpen, Half
<1>3. PICK m : m = Min(HalfOpen)
  OBVIOUS
<1>4. m \in Half(r) /\ m \in DOMAIN queue /\ queue[m].r = r /\ queue[m].s = None
  <2>1. Half(r) \in SUBSET Nat
    BY InvIs DEF Half, KernelTyped
  <2>2. m \in Half(r)
    BY <1>2, <1>3, <2>1, MinIsIn
  <2>. QED
    BY <2>2 DEF Half
<1>5. PICK s \in SockRec : s = sock'[n]
  BY <1>1, NewTyped
<1>6. sock[i].port = WellKnown /\ sock[i].remote = None /\ \A j \in Sock : ~(sock[j].port > 0)
  BY RxAt, ListenerPort
<1>7. s = Completed(n) /\ OthersKept(n)
  BY <1>1, <1>5, InvIs DEF KernelTyped, OthersKept
<1>8. /\ s.mem = "live" /\ s.st = "ESTABLISHED" /\ s.port = WellKnown /\ s.remote = r /\ s.seq = queue[m].seq + 1
      /\ s.ack = Got.seq /\ s.head = s.tail /\ s.read = <<>> /\ s.wrote = 0
  BY <1>3, <1>6, <1>7 DEF Completed, NoSock, At
<1>9. \A u \in Thread, j \in Sock : SameOut(u, j)
  BY WakeOut
<1>10. rx'.pc = "idle" /\ rx'.from = None
  BY IdleIs DEF Done
<1>11. Steady'
  <2>1. Spoken'
    BY InvIs, FlowIs, SpokenWake
  <2>2. OpenListed'
    <3>1. \A j \in Sock : j # n /\ (sock'[j].st # "CLOSED" \/ Held(j)') => sock[j].st # "CLOSED" \/ Held(j)
      BY <1>7 DEF OthersKept, Held
    <3>. QED
      BY <1>1, <3>1, FlowIs, OpenEnters
  <2>3. Blank'
    BY <1>5, <1>7, <1>8, FlowIs, Sizes DEF Blank, OthersKept
  <2>. QED
    BY <2>1, <2>2, <2>3, FlowIs, NumbersSame DEF Steady
<1>12. sock'[i].st = "LISTEN"
  BY <1>1, <1>7 DEF OthersKept
<1>13. ASSUME NEW q \in Remote, q # r, Link(q) PROVE HalfKept(q)
  <2>1. Half(q)' = Half(q) /\ \A k \in Half(q) : queue'[k] = queue[k]
    BY <1>3, <1>4, <1>13, HalfOther, InvIs
  <2>. QED
    BY <1>12, <1>13, <2>1 DEF HalfKept, Link, Roles
<1>14. ASSUME Link(r) PROVE Link(r)'
  <2>1. Roles(r) /\ Asking(r) /\ Greeting(r)
    BY <1>14 DEF Link
  <2>2. Half(r) = {m} /\ queue[m].seq = 0 /\ Socks(r) = {}
    BY <1>4, <2>1 DEF Roles
  <2>3. peer[r].st # "synsent"
    BY <1>14, <2>2, AskHeard
  <2>4. PICK p \in PeerRec : p = peer[r]
    BY ViewTyped
  <2>5. PICK L \in Seq(Wire) : L = Line(r)
    BY ViewTyped
  <2>6. PICK O \in Seq(Wire) : O = out[r]
    BY ViewTyped
  <2>7. Greets(p, L, O, Answer(r))
    BY <2>1, <2>2, <2>3, <2>4, <2>5, <2>6 DEF Greeting
  <2>8. L # <<>> /\ Head(L).seg = Got /\ Line(r)' = Tail(L) /\ Answer(r)' = {}
    BY <1>10, <2>5, RxLine
  <2>9. s.seq = 1 /\ s.ack = Head(L).seg.seq
    BY <1>8, <2>2, <2>8
  <2>10. Session(s, p, Tail(L), {}) /\ Inward(s, p, Tail(L), {}) /\ Outward(s, p, O, {}, {})
    <3>1. Answers(s, p, L, O, Answer(r))
      BY <1>8, <2>7, <2>9, Zenon DEF Answers
    <3>. QED
      BY <3>1, GreetsSession
  <2>11. Leaving(n)' = {}
    BY <1>1, <1>9 DEF Leaving, SameOut
  <2>12. O = <<>> /\ ToSet(O) = {} /\ Away(r, n)' = {}
    <3>1. O = <<>>
      BY <2>7 DEF Greets
    <3>2. ToSet(O) = {}
      BY <3>1, LineSet
    <3>. QED
      BY <2>6, <2>8, <2>11, <3>1, <3>2 DEF Away
  <2>13. Tracks(r, n)'
    BY <1>5, <1>8, <2>4, <2>6, <2>8, <2>10, <2>11, <2>12 DEF Tracks
  <2>14. Half(r)' = {}
    <3>1. DOMAIN queue' = DOMAIN queue /\ \A k \in DOMAIN queue : k # m => queue'[k] = queue[k]
      BY <1>3, InvIs DEF KernelTyped
    <3>2. queue'[m].s = n /\ n # None
      <4>1. queue[m] \in QueueRec /\ queue'[m] = [queue[m] EXCEPT !.s = n]
        BY <1>3, <1>4, InvIs DEF KernelTyped
      <4>. QED
        BY <1>1, <4>1, Sizes DEF QueueRec
    <3>. QED
      BY <2>2, <3>1, <3>2 DEF Half
  <2>15. Socks(r)' = {n}
    BY <1>1, <1>5, <1>7, <1>8, <2>2 DEF Socks, OthersKept
  <2>16. \A x \in ToSet(Line(r))' : x \in ToSet(Line(r))
    BY <2>5, <2>8, LineSet
  <2>17. p.st \in {"est", "fin"}
    BY <2>7 DEF Greets
  <2>18. Roles(r)'
    <3>1. \A x \in ToSet(Line(r)) : x.seg.flag # "SYNACK" /\ x.seg.flag # "SYN"
      BY <2>1, <2>2, <2>3 DEF Roles
    <3>2. ToSet(out[r])' = {}
      BY <2>6, <2>12
    <3>. QED
      BY <2>4, <2>8, <2>14, <2>15, <2>16, <2>17, <3>1, <3>2 DEF Roles
  <2>. QED
    BY <1>1, <1>5, <1>8, <2>3, <2>13, <2>18, FocusLink
<1>. QED
  BY <1>1, <1>5, <1>7, <1>8, <1>9, <1>10, <1>11, <1>13, <1>14, NearFlow DEF OthersKept, Growing

\* tcp_input of the listener: an acknowledgement.
LEMMA InListenAckFlow ==
    ASSUME Inv, Inv', Flow, InListenAck
    PROVE  Flow'
<1>1. PICK i : i = rx.s
  OBVIOUS
<1>2. /\ rx.pc = "input" /\ sock[i].st = "LISTEN" /\ Got.flag \notin {"SYN", "SYNACK"} /\ Done
      /\ holds' = holds /\ in' = in /\ out' = out /\ peer' = peer
  BY <1>1 DEF InListenAck, net, At
<1>3. PICK r \in Remote : r = rx.from
  BY <1>2, RxAt
<1>4. i \in Sock
  BY <1>1, <1>2, RxAt
<1>5. rx'.pc = "idle" /\ rx'.from = None
  BY <1>2, IdleIs DEF Done
<1>6. CASE HalfOpen # {} /\ \E n \in Fresh :
                /\ sock' = [sock EXCEPT ![n] = Completed(n)]
                /\ queue' = [queue EXCEPT ![Min(HalfOpen)].s = n]
                /\ list' = <<n>> \o list
                /\ th' = Wakeup(rx.s) /\ UNCHANGED well
  <2>1. PICK n \in Fresh :
                /\ sock' = [sock EXCEPT ![n] = Completed(n)]
                /\ queue' = [queue EXCEPT ![Min(HalfOpen)].s = n]
                /\ list' = <<n>> \o list
                /\ th' = Wakeup(rx.s) /\ UNCHANGED well
    BY <1>6
  <2>2. inTrouble' = inTrouble /\ outTrouble' = outTrouble
    BY <2>1 DEF well
  <2>. QED
    BY <1>1, <1>2, <1>3, <1>4, <1>6, <2>1, <2>2, CompletesFlow
<1>7. CASE Fails(rx.from) /\ UNCHANGED <<kernel, th>>
  <2>1. sock' = sock /\ list' = list /\ queue' = queue /\ th' = th /\ Growing /\ ~Good(r)'
    BY <1>3, <1>7 DEF kernel, Fails, Growing, Good
  <2>2. Steady'
    <3>1. Spoken'
      BY <2>1, FlowIs DEF Spoken
    <3>. QED
      BY <1>2, <2>1, <3>1, FlowIs, SocksSame, NumbersSame DEF Steady
  <2>3. ASSUME NEW q \in Remote, Link(q) PROVE HalfKept(q)
    BY <2>1, <2>3, HalfSame
  <2>. QED
    BY <1>2, <1>3, <1>5, <2>1, <2>2, <2>3, NearFlow DEF SameOut
<1>8. CASE (Got.flag \notin {"ACK", "FIN"} \/ HalfOpen = {}) /\ UNCHANGED <<kernel, th, well>>
  <2>1. /\ sock' = sock /\ list' = list /\ queue' = queue /\ th' = th
        /\ inTrouble' = inTrouble /\ outTrouble' = outTrouble
    BY <1>8 DEF kernel, well
  <2>2. Line(r) # <<>> /\ Line(r)' = Tail(Line(r)) /\ Answer(r)' = Answer(r) /\ Head(Line(r)).seg = Got
    BY <1>2, <1>3, <1>5, RxLine
  <2>3. \A j \in Socks(r) : sock[j].st # "ESTABLISHED"
    <3>1. \A j \in Listed : sock[j].st # "LISTEN" => sock[j].remote # r
      BY <1>1, <1>2, <1>3, InvIs DEF RxOk
    <3>2. \A j \in Sock : sock[j].st # "CLOSED" => j \in Listed
      BY FlowIs DEF OpenListed
    <3>. QED
      BY <3>1, <3>2 DEF Socks
  <2>4. ASSUME Link(r), Half(r) # {} PROVE peer[r].st = "synsent"
    <3>1. HalfOpen = Half(r)
      BY <1>3 DEF HalfOpen, Half
    <3>2. Got.flag \notin {"ACK", "FIN"}
      BY <1>8, <2>4, <3>1
    <3>3. peer[r].st # "synsent" => Head(Line(r)).seg.flag = "ACK"
      BY <2>4 DEF Link, Greeting, Greets
    <3>. QED
      BY <2>2, <3>2, <3>3
  <2>. QED
    BY <1>2, <1>3, <1>5, <2>1, <2>2, <2>3, <2>4, DropFlow
<1>. QED
  BY <1>6, <1>7, <1>8 DEF InListenAck

-----------------------------------------------------------------------------
(* The remote hosts.                                                       *)

\* The states a host can be in.
LEMMA HostsAre ==
    /\ NoPeer.st = "closed" /\ Over.st = "done" /\ Over.sent = 0 /\ Over.fin = 0
    /\ \A n : Dialled(n).st = "synrcvd"
    /\ "closed" \notin Live /\ "synrcvd" \notin Live /\ "synsent" \notin Live /\ "done" \notin Live
BY DEF NoPeer, Dialled, Over, Live

Tally(x) ==
    /\ x.sent >= 0 /\ x.fin = IF x.st \in {"fin", "closing", "last"} THEN 1 ELSE 0
    /\ x.st = "closed" => x = NoPeer
\* The numbers of a host fit together.
LEMMA Tallied ==
    ASSUME Flow, NEW r \in Remote
    PROVE  Tally(peer[r])
BY FlowIs DEF Numbers, Tally

\* A step of host r leaves what the kernel holds alone.
KernelKept == sock' = sock /\ list' = list /\ queue' = queue /\ th' = th /\ holds' = holds /\ rx' = rx
\* A step of a host leaves the kernel alone.
LEMMA KernelKeeps ==
    ASSUME KernelKept, NEW r \in Remote
    PROVE  /\ Socks(r)' = Socks(r) /\ Half(r)' = Half(r) /\ Answer(r)' = Answer(r) /\ (Link(r) => HalfKept(r))
           /\ \A i \in Sock : Leaving(i)' = Leaving(i) /\ sock'[i] = sock[i]
           /\ \A k \in Half(r) : queue'[k] = queue[k]
<1>1. sock' = sock /\ queue' = queue /\ th' = th /\ rx' = rx
  BY DEF KernelKept
<1>2. Link(r) => HalfKept(r)
  BY <1>1, HalfSame
<1>. QED
  BY <1>1, <1>2 DEF Socks, Half, Answer, Leaving

\* A step of one host.
LEMMA PeerMoves ==
    ASSUME Inv, Flow, NEW r \in Remote, KernelKept, Growing, NEW x \in PeerRec, peer' = [peer EXCEPT ![r] = x], Tally(x),
           \A q \in Remote : q # r => in'[q] = in[q] /\ out'[q] = out[q],
           Good(r)' /\ Link(r) => Link(r)'
    PROVE  Flow'
<1>1. peer'[r] = x /\ \A q \in Remote : q # r => peer'[q] = peer[q]
  BY PeerSet, InvIs
<1>2. sock' = sock /\ list' = list /\ queue' = queue /\ th' = th /\ holds' = holds /\ rx' = rx
  BY DEF KernelKept
<1>3. Numbers'
  <2>1. \A q \in Remote : Tally(peer'[q])
    BY <1>1, Tallied
  <2>. QED
    BY <2>1 DEF Numbers, Tally
<1>4. Steady'
  BY <1>2, <1>3, FlowIs, SocksSame DEF Steady, Spoken
<1>5. \A q \in Remote : Link(q) => HalfKept(q)
  BY KernelKeeps
<1>. QED
  BY <1>1, <1>2, <1>4, <1>5, NearFlow DEF SameOut

\* Host r puts segment y on the line, in its turn or again.
PutOk(p, x, y) ==
    /\ x.port = p.port /\ x.rcv = p.rcv /\ x.una = p.una /\ x.win = p.win /\ x.got = p.got
    /\ y.port = p.port /\ y.seg.flag \in {"ACK", "FIN"}
    /\ p.st \in Live /\ x.st \in Live /\ (x.st \in Early <=> p.st \in Early)
    /\ p.sent <= x.sent /\ (Mute(y) \/ y.seg.seq + Len(y.seg.data) <= 1 + x.sent)
InTurn(p, x, y) ==
    \/ Mute(y) /\ x.sent = p.sent
    \/ Span(y.seg.data, p.sent, x.sent) /\ x.sent > p.sent /\ y.seg.seq = p.sent + 1

\* The last byte of data sent in turn.
LEMMA TurnData ==
    ASSUME NEW p \in PeerRec, NEW x \in PeerRec, NEW y \in Wire, InTurn(p, x, y), ~Mute(y)
    PROVE  y.seg.data[1] = y.seg.seq /\ y.seg.seq + Len(y.seg.data) = 1 + x.sent
<1>1. PICK d \in Seq(Int) : d = y.seg.data
  BY WireFields
<1>2. PICK a \in Int, b \in Int, c \in Int : a = p.sent /\ b = x.sent /\ c = y.seg.seq
  BY PeerNumbers, WireFields
<1>3. Span(d, a, b) /\ b > a /\ c = a + 1
  BY <1>1, <1>2 DEF InTurn
<1>4. Len(d) = b - a /\ d[1] = a + 1
  BY <1>3 DEF Span
<1>5. c + Len(d) = 1 + b
  BY <1>3, <1>4
<1>. QED
  BY <1>1, <1>2, <1>3, <1>4, <1>5

\* A host sends behind its first acknowledgement.
LEMMA GreetsPut ==
    ASSUME NEW p \in PeerRec, NEW x \in PeerRec, NEW L \in Seq(Wire), NEW O, NEW Y, NEW y \in Wire,
           Greets(p, L, O, Y), PutOk(p, x, y), InTurn(p, x, y), x.sent < Ring
    PROVE  Greets(x, Append(L, y), O, Y)
<1>1. /\ p.port = WellKnown /\ p.rcv = 1 /\ p.una = 1 /\ p.win = Offer /\ p.got = <<>> /\ p.st \in {"est", "fin"}
      /\ O = <<>> /\ Y = {} /\ L # <<>> /\ Mute(Head(L)) /\ Head(L).seg.flag = "ACK" /\ Head(L).seg.seq = 1
      /\ (\A z \in ToSet(L) : z.port = WellKnown)
      /\ Numbered(L) /\ Ends(L, p.sent) /\ Span(Bytes(L), 0, p.sent)
  BY DEF Greets
<1>2. /\ x.port = WellKnown /\ x.rcv = 1 /\ x.una = 1 /\ x.win = Offer /\ x.got = <<>> /\ x.st \in {"est", "fin"}
      /\ y.port = WellKnown
  BY <1>1 DEF PutOk, Early, Live
<1>3. /\ Append(L, y) \in Seq(Wire) /\ ToSet(Append(L, y)) = ToSet(L) \cup {y} /\ Append(L, y) # <<>>
      /\ ToSet(L) \in SUBSET Wire
  BY LineSet
<1>4. Head(Append(L, y)) = Head(L)
  BY <1>1, HeadTailAppend
<1>5. Numbered(Append(L, y))
  BY <1>1, <1>3, TurnData DEF Numbered
<1>6. Ends(Append(L, y), x.sent)
  <2>1. PICK a \in Int, b \in Int : a = p.sent /\ b = x.sent /\ a <= b
    BY PeerNumbers DEF PutOk
  <2>2. ASSUME NEW z \in ToSet(L) PROVE Mute(z) \/ z.seg.seq + Len(z.seg.data) <= 1 + x.sent
    <3>1. z.seg.seq + Len(z.seg.data) \in Int
      BY <1>3, <2>2, WireFields
    <3>2. Mute(z) \/ z.seg.seq + Len(z.seg.data) <= 1 + a
      BY <1>1, <2>1, <2>2 DEF Ends
    <3>3. \A n \in Int : n <= 1 + a => n <= 1 + b
      BY <2>1
    <3>. QED
      BY <2>1, <3>1, <3>2, <3>3
  <2>3. Mute(y) \/ y.seg.seq + Len(y.seg.data) <= 1 + x.sent
    BY DEF PutOk
  <2>. QED
    BY <1>3, <2>2, <2>3 DEF Ends
<1>7. Span(Bytes(Append(L, y)), 0, x.sent)
  <2>1. CASE Mute(y) /\ x.sent = p.sent
    BY <1>1, <2>1, MutePut
  <2>2. CASE Span(y.seg.data, p.sent, x.sent)
    BY <1>1, <2>2, PeerNumbers, SpanPut
  <2>. QED
    BY <2>1, <2>2 DEF InTurn
<1>. QED
  BY <1>1, <1>2, <1>3, <1>4, <1>5, <1>6, <1>7 DEF Greets

\* A host puts a segment on the line.
LEMMA PutFlow ==
    ASSUME Inv, Flow, NEW r \in Remote, KernelKept, Growing, NEW x \in PeerRec, peer' = [peer EXCEPT ![r] = x], Tally(x),
           NEW y \in Wire, in' = [in EXCEPT ![r] = Append(@, y)], out' = out, PutOk(peer[r], x, y),
           Link(r) /\ Half(r) # {} /\ Greets(peer[r], Line(r), out[r], Answer(r)) =>
              InTurn(peer[r], x, y) /\ x.sent < Ring,
           \A i \in Socks(r) : sock[i].st = "ESTABLISHED" /\ r \notin inTrouble'
                                /\ Inward(sock[i], peer[r], Line(r), Away(r, i)) =>
              InTurn(peer[r], x, y) /\ x.sent < Len(sock[i].read) + Ring
    PROVE  Flow'
<1>1. /\ Socks(r)' = Socks(r) /\ Half(r)' = Half(r) /\ Answer(r)' = Answer(r) /\ (Link(r) => HalfKept(r))
      /\ \A i \in Sock : Leaving(i)' = Leaving(i) /\ sock'[i] = sock[i]
  BY KernelKeeps
<1>2. peer'[r] = x /\ in'[r] = Append(in[r], y) /\ \A q \in Remote : q # r => in'[q] = in[q] /\ out'[q] = out[q]
  BY InvIs, PeerSet DEF NetTyped
<1>3. PICK p \in PeerRec : p = peer[r]
  BY ViewTyped
<1>4. PICK L \in Seq(Wire) : L = Line(r)
  BY ViewTyped
<1>5. PICK O \in Seq(Wire) : O = out[r]
  BY ViewTyped
<1>6. Line(r)' = Append(L, y)
  BY <1>2, <1>4, InvIs, LinePut DEF KernelKept
<1>7. PICK M \in Seq(Wire) : M = Append(L, y)
  BY LineSet
<1>8. PutOk(p, x, y) /\ p.st # "synsent" /\ x.st \notin {"synsent", "synrcvd"} /\ p.st \in Live /\ x.st \in Live
      /\ p.st # "synrcvd"
  BY <1>3 DEF PutOk, Live
<1>9. ASSUME Good(r)', Link(r) PROVE Link(r)'
  <2>1. Roles(r) /\ Greeting(r)
    BY <1>9 DEF Link
  <2>2. Half(r) # {} => Greets(p, L, O, Answer(r)) /\ Greets(x, M, O, Answer(r)) /\ x.st \in {"est", "fin"}
    <3>1. Half(r) # {} => Greets(p, L, O, Answer(r))
      BY <1>3, <1>4, <1>5, <1>8, <2>1 DEF Greeting
    <3>2. Half(r) # {} => Greets(x, M, O, Answer(r))
      BY <1>3, <1>4, <1>5, <1>7, <1>8, <1>9, <3>1, GreetsPut
    <3>. QED
      BY <3>1, <3>2 DEF Greets
  <2>3. ToSet(M) = ToSet(L) \cup {y}
    BY <1>7, LineSet
  <2>4. Roles(r)'
    <3>1. y.seg.flag \notin {"SYN", "SYNACK"}
      BY <1>8 DEF PutOk
    <3>2. \A z \in ToSet(L) : z.seg.flag # "SYN"
      BY <1>3, <1>4, <1>8, <2>1 DEF Roles
    <3>3. ToSet(Line(r))' = ToSet(L) \cup {y}
      BY <1>6, <1>7, <2>3
    <3>4. ToSet(out[r])' = ToSet(out[r])
      OBVIOUS
    <3>5. Half(r)' # {} => peer'[r].st \in {"synsent", "est", "fin"}
      BY <1>1, <1>2, <2>2
    <3>6. /\ Socks(r)' = Socks(r) /\ \A i \in Socks(r) : sock'[i].port = sock[i].port
      BY <1>1 DEF Socks
    <3>7. /\ peer'[r].st = "synrcvd" => peer[r].st = "synrcvd"
          /\ \A w \in ToSet(out[r])' \cup Answer(r)' : w.seg.flag = "SYN" => w \in ToSet(out[r]) \cup Answer(r)
          /\ \A z \in ToSet(Line(r))' : z.seg.flag = "SYNACK" => z \in ToSet(Line(r))
      BY <1>1, <1>2, <1>4, <1>8, <3>1, <3>3, <3>4
    <3>8. \A z \in ToSet(Line(r))' : z.seg.flag # "SYN"
      BY <3>1, <3>2, <3>3
    <3>. QED
      BY <1>1, <1>9, <2>1, <3>5, <3>6, <3>7, <3>8, RolesMove
  <2>5. Asking(r)' /\ Greeting(r)'
    BY <1>1, <1>2, <1>5, <1>6, <1>7, <1>8, <2>2 DEF Asking, Greeting
  <2>6. ASSUME NEW i \in Socks(r) PROVE Tracks(r, i)'
    <3>1. i \in Sock /\ Tracks(r, i) /\ sock'[i] = sock[i] /\ Leaving(i)' = Leaving(i)
      BY <1>1, <1>9 DEF Link, Socks
    <3>2. PICK s \in SockRec : s = sock[i]
      BY <3>1, InvIs
    <3>3. PICK W \in SUBSET Wire : W = Away(r, i)
      BY <3>1, ViewTyped
    <3>4. Away(r, i)' = W
      BY <1>1, <3>1, <3>3 DEF Away
    <3>5. s.st # "SYN_SENT"
      <4>1. ASSUME s.st = "SYN_SENT" PROVE p = NoPeer \/ p = Dialled(s.port)
        BY <1>3, <3>1, <3>2, <4>1 DEF Tracks, Opens
      <4>. QED
        BY <1>8, <4>1, HostsAre
    <3>6. ASSUME Session(s, p, L, W) PROVE Session(s, x, M, W)
      <4>1. PICK a \in Int, b \in Int, c \in Int, d \in Int : a = p.sent /\ b = x.sent /\ c = p.una /\ d = s.ack
        BY PeerNumbers, SockNumbers
      <4>2. a <= b /\ c <= 1 + a /\ d <= 1 + a
        BY <1>8, <3>6, <4>1 DEF PutOk, Session
      <4>3. c <= 1 + b /\ d <= 1 + b
        BY <4>1, <4>2
      <4>4. /\ x.port = p.port /\ p.sent <= x.sent /\ x.una <= 1 + x.sent /\ s.ack <= 1 + x.sent
            /\ x.st \in {"synrcvd"} \cup Live /\ (x.st = "synrcvd" => x = Dialled(s.port))
        BY <1>8, <4>1, <4>2, <4>3 DEF PutOk
      <4>5. s.st = "ESTABLISHED" => x.st \in {"synrcvd", "est", "fin"}
        BY <1>8, <3>6 DEF PutOk, Session, Early
      <4>6. \A z \in ToSet(M) : z \in ToSet(L) \/ (z.port = s.port /\ (Mute(z) \/ z.seg.seq + Len(z.seg.data) <= 1 + x.sent))
        BY <1>8, <2>3, <3>6 DEF PutOk, Session
      <4>. QED
        BY <3>6, <4>4, <4>5, <4>6, SessionMoves
    <3>7. ASSUME Outward(s, p, O, Answer(r), Leaving(i)) PROVE Outward(s, x, O, Answer(r), Leaving(i))
      <4>1. /\ x.got = p.got /\ x.rcv = p.rcv /\ (x.st \in Early => p.st \in Early) /\ (x.st \in Late => p.st \in Late)
        BY <1>8 DEF PutOk, Early, Late, Live
      <4>2. \A z \in Answer(r) : Mute(z)
        BY <3>7 DEF Outward
      <4>. QED
        BY <3>7, <4>1, <4>2, OutwardWords
    <3>8. ASSUME Inward(s, p, L, W), s.st = "ESTABLISHED", r \notin inTrouble' PROVE Inward(s, x, M, W)
      <4>1. InTurn(p, x, y) /\ x.sent < Len(s.read) + Ring
        BY <1>3, <1>4, <3>2, <3>3, <3>8
      <4>2. x.una = p.una /\ x.win = p.win
        BY <1>8 DEF PutOk
      <4>3. CASE Mute(y) /\ x.sent = p.sent
        BY <1>7, <3>8, <4>2, <4>3, InwardPut
      <4>4. CASE Span(y.seg.data, p.sent, x.sent) /\ x.sent > p.sent /\ y.seg.seq = p.sent + 1
        BY <1>7, <3>8, <4>1, <4>2, <4>4, InwardData
      <4>. QED
        BY <4>1, <4>3, <4>4 DEF InTurn
    <3>9. r \notin inTrouble' => r \notin inTrouble
      BY DEF Growing
    <3>10. r \notin outTrouble' => r \notin outTrouble
      BY DEF Growing
    <3>. QED
      BY <1>1, <1>2, <1>3, <1>4, <1>5, <1>6, <1>7, <3>1, <3>2, <3>3, <3>4, <3>5, <3>6, <3>7, <3>8, <3>9, <3>10 DEF Tracks
  <2>. QED
    BY <1>1, <2>4, <2>5, <2>6 DEF Link
<1>. QED
  BY <1>2, <1>9, PeerMoves

\* What the steps of the hosts leave alone.
LEMMA WorldKept ==
    ASSUME UNCHANGED World
    PROVE  KernelKept /\ Growing /\ inTrouble' = inTrouble /\ outTrouble' = outTrouble
BY DEF World, kernel, well, KernelKept, Growing

\* The steps of the hosts.
LEMMA PeerConnectFlow ==
    ASSUME Inv, Inv', Flow, NEW r \in Remote, PeerConnect(r)
    PROVE  Flow'
<1>1. /\ peer[r].st = "closed" /\ \A i \in Sock : sock[i].remote # r
      /\ peer' = [peer EXCEPT ![r].st = "synsent", ![r].port = WellKnown]
      /\ Puts(r, WellKnown, Seg("SYN", 0, 0, Offer, <<>>)) /\ UNCHANGED World /\ out' = out
  BY DEF PeerConnect
<1>2. KernelKept /\ Growing
  BY <1>1, WorldKept
<1>3. peer[r] = NoPeer /\ Silent(r)
  BY <1>1, InvIs, Tallied DEF Tally, Quietness, Unsaid
<1>4. PICK x \in PeerRec : x = Asker
  <2>1. NoPeer \in PeerRec /\ WellKnown \in Int
    BY Nothing, Sizes
  <2>. QED
    BY <2>1 DEF Asker, PeerRec, PeerStates
<1>5. peer' = [peer EXCEPT ![r] = x]
  BY <1>1, <1>3, <1>4, InvIs DEF NetTyped, Asker
<1>6. x.st = "synsent" /\ Tally(x)
  BY <1>4 DEF Asker, NoPeer, Tally
<1>7. in'[r] = Append(in[r], Ask) /\ \A q \in Remote : q # r => in'[q] = in[q]
  BY <1>1, InvIs DEF Puts, Ask, NetTyped
<1>8. /\ Socks(r)' = Socks(r) /\ Half(r)' = Half(r) /\ Answer(r)' = Answer(r)
  BY <1>2, KernelKeeps
<1>9. Socks(r) = {} /\ in[r] = <<>> /\ out[r] = <<>> /\ rx.from # r /\ rx' = rx
  BY <1>1, <1>2, <1>3 DEF Silent, Socks, KernelKept
<1>10. in'[r] = <<Ask>> /\ Ask \in Wire
  <2>1. WellKnown \in Int
    BY Sizes
  <2>2. Ask \in Wire
    BY <2>1, SynTyped, OnIs, Zenon DEF Ask
  <2>3. Append(<<>>, Ask) = <<Ask>>
    BY <2>2
  <2>. QED
    BY <1>7, <1>9, <2>2, <2>3, Zenon
<1>11. Line(r)' = <<Ask>> /\ Answer(r) = {}
  <2>1. PICK w \in Seq(Wire) : w = <<Ask>>
    <3>1. in'[r] \in Seq(Wire)
      BY NewTyped DEF NetTyped
    <3>. QED
      BY <1>10, <3>1
  <2>2. Line(r)' = w
    BY <1>9, <1>10, <2>1, QuietLine
  <2>3. Answer(r) = {}
    BY <1>9 DEF Answer
  <2>. QED
    BY <2>1, <2>2, <2>3
<1>12. ASSUME Link(r) PROVE Link(r)'
  <2>1. Half(r) = {}
    BY <1>1, <1>12 DEF Link, Roles
  <2>2. peer'[r] = x
    BY <1>5, InvIs, PeerSet
  <2>3. ToSet(<<>>) = {}
    BY LineSet, EmptySeq
  <2>4. ToSet(<<Ask>>) = {Ask}
    BY DEF ToSet
  <2>5. Roles(r)'
    BY <1>1, <1>6, <1>8, <1>9, <1>11, <2>1, <2>2, <2>3, <2>4, AskIs DEF Roles
  <2>6. Asking(r)' /\ Greeting(r)'
    BY <1>1, <1>4, <1>8, <1>9, <1>11, <2>1, <2>2 DEF Asking, Asks, Greeting
  <2>. QED
    BY <1>8, <1>9, <2>5, <2>6 DEF Link
<1>. QED
  BY <1>1, <1>2, <1>5, <1>6, <1>7, <1>12, PeerMoves

\* A host sends n bytes of data.
LEMMA SaidFlow ==
    ASSUME Inv, Flow, NEW r \in Remote, KernelKept, Growing, out' = out, NEW p \in PeerRec, p = peer[r],
           p.st \in {"est", "closewait"}, NEW n \in Nat, n > 0, NEW d \in Seq(Int), Span(d, p.sent, p.sent + n),
           peer' = [peer EXCEPT ![r].sent = @ + n], Puts(r, p.port, Seg("ACK", Nxt(r), p.rcv, Offer, d)),
           Link(r) /\ Half(r) # {} /\ Greets(peer[r], Line(r), out[r], Answer(r)) => p.sent + n < Ring,
           \A i \in Socks(r) : sock[i].st = "ESTABLISHED" /\ r \notin inTrouble'
                                /\ Inward(sock[i], peer[r], Line(r), Away(r, i)) => p.sent + n < Len(sock[i].read) + Ring
    PROVE  Flow'
<1>1. PICK a \in Int : a = p.sent
  BY PeerNumbers
<1>2. PICK b \in Int : b = a + n
  OBVIOUS
<1>3. p.fin = 0 /\ a >= 0 /\ Nxt(r) = 1 + a
  <2>1. p.fin = 0 /\ p.sent >= 0
    BY Tallied DEF Tally
  <2>. QED
    BY <1>1, <2>1 DEF Nxt
<1>4. PICK x \in PeerRec : x = [p EXCEPT !.sent = b]
  BY DEF PeerRec
<1>5. /\ x.sent = b /\ x.st = p.st /\ x.port = p.port /\ x.rcv = p.rcv /\ x.una = p.una /\ x.win = p.win
      /\ x.got = p.got /\ x.fin = p.fin
  BY <1>4 DEF PeerRec
<1>6. peer' = [peer EXCEPT ![r] = x]
  BY <1>1, <1>2, <1>4, InvIs DEF NetTyped
<1>7. PICK g \in SegRec : g = Seg("ACK", 1 + a, p.rcv, Offer, d)
  <2>1. "ACK" \in Flag /\ p.rcv \in Int /\ 1 + a \in Int
    BY PeerFields DEF Flag
  <2>. QED
    BY <2>1, Sizes, SegTyped
<1>8. g.flag = "ACK" /\ g.seq = 1 + a /\ g.data = d
  BY <1>7 DEF Seg
<1>9. PICK y \in Wire : y = On(p.port, g) /\ y.seg = g /\ y.port = p.port
  BY PeerNumbers, OnIs
<1>10. in' = [in EXCEPT ![r] = Append(@, y)]
  BY <1>3, <1>7, <1>9 DEF Puts
<1>11. b > a /\ b >= 0 /\ a <= b /\ 1 + a = a + 1 /\ (1 + a) + Len(d) = 1 + b
  <2>1. Len(d) = n
    BY <1>1 DEF Span
  <2>. QED
    BY <1>2, <1>3, <2>1
<1>12. InTurn(p, x, y)
  BY <1>1, <1>2, <1>5, <1>8, <1>9, <1>11 DEF InTurn
<1>13. PutOk(p, x, y)
  <2>1. x.st \in Live /\ p.st \in Live /\ (x.st \in Early <=> p.st \in Early)
    BY <1>5 DEF Live, Early
  <2>2. p.sent <= x.sent /\ y.seg.seq + Len(y.seg.data) <= 1 + x.sent
    BY <1>1, <1>5, <1>8, <1>9, <1>11
  <2>. QED
    BY <1>5, <1>8, <1>9, <2>1, <2>2 DEF PutOk
<1>14. Tally(x)
  BY <1>3, <1>5, <1>11 DEF Tally
<1>15. p.sent + n = x.sent
  BY <1>1, <1>2, <1>5
<1>16. PutOk(peer[r], x, y) /\ InTurn(peer[r], x, y)
  BY <1>12, <1>13
<1>17. Link(r) /\ Half(r) # {} /\ Greets(peer[r], Line(r), out[r], Answer(r)) => InTurn(peer[r], x, y) /\ x.sent < Ring
  BY <1>15, <1>16, Zenon
<1>18. \A i \in Socks(r) : sock[i].st = "ESTABLISHED" /\ r \notin inTrouble'
                             /\ Inward(sock[i], peer[r], Line(r), Away(r, i)) =>
          InTurn(peer[r], x, y) /\ x.sent < Len(sock[i].read) + Ring
  BY <1>15, <1>16, Zenon
<1>. QED
  BY <1>6, <1>10, <1>14, <1>16, <1>17, <1>18, PutFlow

\* A host sends within the window,
LEMMA PeerSendFlow ==
    ASSUME Inv, Inv', Flow, NEW r \in Remote, PeerSend(r)
    PROVE  Flow'
<1>1. PICK n \in 1 .. 2 :
          /\ peer[r].st \in {"est", "closewait"} /\ UNCHANGED World /\ out' = out
          /\ Nxt(r) + n <= peer[r].una + peer[r].win
          /\ peer' = [peer EXCEPT ![r].sent = @ + n]
          /\ Puts(r, peer[r].port, Seg("ACK", Nxt(r), peer[r].rcv, Offer, [k \in 1 .. n |-> peer[r].sent + k]))
  BY DEF PeerSend
<1>2. KernelKept /\ Growing /\ inTrouble' = inTrouble
  BY <1>1, WorldKept
<1>3. PICK p \in PeerRec : p = peer[r]
  BY InvIs DEF NetTyped
<1>4. PICK a \in Int : a = p.sent
  BY PeerNumbers
<1>5. p.fin = 0 /\ Nxt(r) = 1 + a
  <2>1. p.fin = 0
    BY <1>1, <1>3, Tallied DEF Tally
  <2>. QED
    BY <1>3, <1>4, <2>1 DEF Nxt
<1>6. PICK d : d = [k \in 1 .. n |-> a + k]
  OBVIOUS
<1>7. Span(d, a, a + n) /\ d \in Seq(Int)
  <2>1. Span(d, a, a + n)
    BY <1>6, SpanIs
  <2>. QED
    BY <2>1 DEF Span
<1>8. 1 + a + n <= p.una + p.win
  BY <1>1, <1>3, <1>5
<1>9. Greets(p, Line(r), out[r], Answer(r)) => a + n < Ring
  <2>1. ASSUME p.una = 1, p.win = Offer PROVE a + n < Ring
    BY <1>8, <2>1, OfferIs
  <2>. QED
    BY <2>1 DEF Greets
<1>10. ASSUME NEW i \in Socks(r), Inward(sock[i], p, Line(r), Away(r, i)) PROVE a + n < Len(sock[i].read) + Ring
  <2>1. p.una + p.win <= Len(sock[i].read) + Ring
    BY <1>10 DEF Inward
  <2>2. p.una \in Int /\ p.win \in Int /\ Len(sock[i].read) \in Int /\ Ring \in Int
    BY <1>10, PeerNumbers, InvIs, SockNumbers, OfferIs DEF Socks
  <2>. QED
    BY <1>8, <2>1, <2>2
<1>11. Puts(r, p.port, Seg("ACK", Nxt(r), p.rcv, Offer, d)) /\ n \in Nat /\ n > 0 /\ p.st \in {"est", "closewait"}
  BY <1>1, <1>3, <1>4, <1>6
<1>. QED
  BY <1>1, <1>2, <1>3, <1>4, <1>7, <1>9, <1>10, <1>11, SaidFlow

\* beyond it,
LEMMA PeerProbeFlow ==
    ASSUME Inv, Inv', Flow, NEW r \in Remote, PeerProbe(r)
    PROVE  Flow'
<1>1. /\ peer[r].st \in {"est", "closewait"} /\ UNCHANGED <<kernel, th, holds, rx, out, faults, outTrouble>>
      /\ Quiet(r) /\ peer[r].win = 0
      /\ peer' = [peer EXCEPT ![r].sent = @ + 1]
      /\ Puts(r, peer[r].port, Seg("ACK", Nxt(r), peer[r].rcv, Offer, <<peer[r].sent + 1>>))
      /\ inTrouble' = IF Full(r) THEN inTrouble \cup {r} ELSE inTrouble
  BY DEF PeerProbe
<1>2. KernelKept /\ Growing /\ out' = out
  BY <1>1 DEF KernelKept, Growing, kernel
<1>3. PICK p \in PeerRec : p = peer[r]
  BY InvIs DEF NetTyped
<1>4. PICK a \in Int : a = p.sent
  BY PeerNumbers
<1>5. PICK d : d = <<a + 1>>
  OBVIOUS
<1>6. Span(d, a, a + 1) /\ d \in Seq(Int)
  <2>1. d \in Seq(Int) /\ Len(d) = 1 /\ d[1] = a + 1
    BY <1>5
  <2>2. Len(d) = (a + 1) - a
    BY <2>1
  <2>3. \A k \in 1 .. Len(d) : k = 1
    BY <2>1
  <2>. QED
    BY <2>1, <2>2, <2>3 DEF Span
<1>7. in[r] = <<>> /\ out[r] = <<>> /\ rx.from # r /\ Line(r) = <<>>
  BY <1>1, InvIs, LineIs DEF Quiet
<1>8. ~Greets(p, Line(r), out[r], Answer(r))
  BY <1>7 DEF Greets
<1>9. ASSUME NEW i \in Socks(r), sock[i].st = "ESTABLISHED", r \notin inTrouble', Inward(sock[i], p, Line(r), Away(r, i))
      PROVE  a + 1 < Len(sock[i].read) + Ring
  <2>1. PICK s \in SockRec : s = sock[i]
    BY <1>9, InvIs DEF Socks
  <2>2. PICK m \in Nat, u \in Nat : m = Len(s.read) /\ u = Used(s)
    BY SockNumbers
  <2>3. Room(s) = Ring - u - 1 /\ Ring \in Nat /\ Room(s) \in 0 .. Ring - 1
    BY <2>2, SockNumbers, RingTyped
  <2>4. Room(s) # 0
    <3>1. sock[i].mem = "live" /\ sock[i].remote = r /\ i \in Sock
      <4>1. i \in Sock /\ i \in Listed /\ sock[i].remote = r
        BY <1>9, FlowIs DEF Socks, OpenListed
      <4>. QED
        BY <4>1, InvIs DEF Blocks
    <3>2. ~Full(r)
      BY <1>1, <1>9
    <3>. QED
      BY <2>1, <3>1, <3>2 DEF Full
  <2>5. a = m + u
    <3>1. Span(<<>>, m + u, a)
      <4>1. Bytes(Line(r)) = <<>>
        BY <1>7, BytesTyped, EmptySeq
      <4>. QED
        BY <1>4, <1>9, <2>1, <2>2, <4>1 DEF Inward
    <3>2. Len(<<>>) = a - (m + u)
      BY <3>1 DEF Span
    <3>. QED
      BY <3>2
  <2>6. a + 1 < m + Ring
    BY <2>3, <2>4, <2>5
  <2>. QED
    BY <2>1, <2>2, <2>6
<1>10. Puts(r, p.port, Seg("ACK", Nxt(r), p.rcv, Offer, d)) /\ 1 \in Nat /\ 1 > 0 /\ p.st \in {"est", "closewait"}
  BY <1>1, <1>3, <1>4, <1>5
<1>. QED
  BY <1>1, <1>2, <1>3, <1>4, <1>6, <1>8, <1>9, <1>10, SaidFlow

\* closes,
LEMMA PeerCloseFlow ==
    ASSUME Inv, Inv', Flow, NEW r \in Remote, PeerClose(r)
    PROVE  Flow'
<1>1. /\ peer[r].st \in {"est", "closewait"} /\ UNCHANGED World /\ out' = out
      /\ peer' = [peer EXCEPT ![r].st = IF @ = "est" THEN "fin" ELSE "last", ![r].fin = 1]
      /\ Puts(r, peer[r].port, Plain(r, peer[r], "FIN"))
  BY DEF PeerClose
<1>2. KernelKept /\ Growing /\ inTrouble' = inTrouble
  BY <1>1, WorldKept
<1>3. PICK p \in PeerRec : p = peer[r]
  BY InvIs DEF NetTyped
<1>4. PICK e : e = IF p.st = "est" THEN "fin" ELSE "last"
  OBVIOUS
<1>5. PICK x \in PeerRec : x = [p EXCEPT !.st = e, !.fin = 1]
  <2>1. e \in PeerStates /\ 1 \in Int
    BY <1>4 DEF PeerStates, Live
  <2>. QED
    BY <2>1, PeerFin, Zenon
<1>6. /\ x.sent = p.sent /\ x.st = e /\ x.port = p.port /\ x.rcv = p.rcv /\ x.una = p.una /\ x.win = p.win
      /\ x.got = p.got /\ x.fin = 1
  BY <1>5 DEF PeerRec
<1>7. peer' = [peer EXCEPT ![r] = x]
  BY <1>1, <1>3, <1>4, <1>5, InvIs DEF NetTyped
<1>8. PICK g \in SegRec : g = Plain(r, p, "FIN") /\ g.flag = "FIN" /\ g.data = <<>>
  <2>1. Plain(r, p, "FIN") \in SegRec
    BY PlainTyped DEF Flag
  <2>. QED
    BY <2>1 DEF Plain, Seg
<1>9. PICK y \in Wire : y = On(p.port, g) /\ y.seg = g /\ y.port = p.port
  BY PeerNumbers, OnIs
<1>10. in' = [in EXCEPT ![r] = Append(@, y)]
  BY <1>1, <1>3, <1>8, <1>9 DEF Puts
<1>11. p.sent <= x.sent /\ Mute(y) /\ p.sent \in Int /\ p.sent >= 0
  BY <1>3, <1>6, <1>8, <1>9, PeerNumbers, Tallied DEF Mute, Tally
<1>12. InTurn(peer[r], x, y)
  BY <1>3, <1>6, <1>11 DEF InTurn
<1>13. PutOk(peer[r], x, y)
  <2>1. x.st \in Live /\ p.st \in Live /\ (x.st \in Early <=> p.st \in Early)
    BY <1>1, <1>3, <1>4, <1>6 DEF Live, Early
  <2>. QED
    BY <1>3, <1>6, <1>8, <1>9, <1>11, <2>1 DEF PutOk
<1>14. Tally(x)
  BY <1>4, <1>6, <1>11 DEF Tally
<1>15. Greets(peer[r], Line(r), out[r], Answer(r)) => InTurn(peer[r], x, y) /\ x.sent < Ring
  BY <1>3, <1>6, <1>12 DEF Greets
<1>16. \A i \in Socks(r) : Inward(sock[i], peer[r], Line(r), Away(r, i)) =>
          InTurn(peer[r], x, y) /\ x.sent < Len(sock[i].read) + Ring
  BY <1>3, <1>6, <1>12 DEF Inward
<1>. QED
  BY <1>1, <1>2, <1>7, <1>10, <1>13, <1>14, <1>15, <1>16, PutFlow

\* A host that is connected sends a segment again.
LEMMA AgainFlow ==
    ASSUME Inv, Flow, NEW r \in Remote, UNCHANGED World, out' = out, peer' = peer, peer[r].st \in Live, Quiet(r),
           NEW g \in SegRec, g.flag \in {"ACK", "FIN"}, Puts(r, peer[r].port, g),
           g.data = <<>> \/ (g.seq + Len(g.data) <= 1 + peer[r].sent /\ peer[r].una <= peer[r].sent)
    PROVE  Flow'
<1>1. KernelKept /\ Growing /\ inTrouble' = inTrouble
  BY WorldKept
<1>2. PICK p \in PeerRec : p = peer[r]
  BY InvIs DEF NetTyped
<1>3. peer' = [peer EXCEPT ![r] = p]
  BY <1>2, InvIs DEF NetTyped
<1>4. PICK y \in Wire : y = On(p.port, g) /\ y.seg = g /\ y.port = p.port
  BY PeerNumbers, OnIs
<1>5. in' = [in EXCEPT ![r] = Append(@, y)]
  BY <1>2, <1>4 DEF Puts
<1>6. p.sent <= p.sent /\ p.sent \in Int
  BY PeerNumbers
<1>7. PutOk(p, p, y) /\ Tally(p)
  BY <1>2, <1>4, <1>6, Tallied DEF PutOk, Mute
<1>8. in[r] = <<>> /\ out[r] = <<>> /\ rx.from # r /\ Line(r) = <<>>
  BY InvIs, LineIs DEF Quiet
<1>9. ~Greets(p, Line(r), out[r], Answer(r))
  BY <1>8 DEF Greets
<1>10. ASSUME NEW i \in Socks(r), Inward(sock[i], p, Line(r), Away(r, i))
       PROVE  InTurn(p, p, y) /\ p.sent < Len(sock[i].read) + Ring
  <2>1. CASE Mute(y)
    BY <1>10, <2>1 DEF InTurn, Inward
  <2>2. CASE p.una <= p.sent
    <3>1. PICK s \in SockRec : s = sock[i]
      BY <1>10, InvIs DEF Socks
    <3>2. PICK m \in Nat, u \in Nat : m = Len(s.read) /\ u = Used(s)
      BY SockNumbers
    <3>3. PICK a \in Int, c \in Int : a = p.sent /\ c = p.una
      BY PeerNumbers
    <3>4. Away(r, i) = {}
      <4>1. Leaving(i) = {}
        BY <1>10 DEF Leaving, Quiet, Socks
      <4>2. Answer(r) = {}
        BY <1>8 DEF Answer
      <4>3. ToSet(out[r]) = {}
        BY <1>8, LineSet, EmptySeq
      <4>. QED
        BY <4>1, <4>2, <4>3 DEF Away
    <3>5. c > m + u
      BY <1>10, <3>1, <3>2, <3>3, <3>4 DEF Inward
    <3>6. a = m + u
      <4>1. Span(<<>>, m + u, a)
        <5>1. Bytes(Line(r)) = <<>>
          BY <1>8, BytesTyped, EmptySeq
        <5>. QED
          BY <1>10, <3>1, <3>2, <3>3, <5>1 DEF Inward
      <4>2. Len(<<>>) = a - (m + u)
        BY <4>1 DEF Span
      <4>. QED
        BY <4>2
    <3>7. c <= a
      BY <2>2, <3>3
    <3>. QED
      BY <3>5, <3>6, <3>7
  <2>. QED
    BY <1>2, <1>4, <2>1, <2>2 DEF Mute
<1>11. Greets(peer[r], Line(r), out[r], Answer(r)) => InTurn(peer[r], p, y) /\ p.sent < Ring
  BY <1>2, <1>9
<1>12. \A i \in Socks(r) : Inward(sock[i], peer[r], Line(r), Away(r, i)) =>
          InTurn(peer[r], p, y) /\ p.sent < Len(sock[i].read) + Ring
  BY <1>2, <1>10
<1>13. PutOk(peer[r], p, y)
  BY <1>2, <1>7
<1>. QED
  BY <1>1, <1>3, <1>5, <1>7, <1>11, <1>12, <1>13, PutFlow

\* and sends again.
LEMMA PeerRetryFlow ==
    ASSUME Inv, Inv', Flow, NEW r \in Remote, PeerRetry(r)
    PROVE  Flow'
<1>1. Quiet(r) /\ UNCHANGED World /\ out' = out /\ peer' = peer
  BY DEF PeerRetry
<1>2. PICK p \in PeerRec : p = peer[r]
  BY InvIs DEF NetTyped
<1>3. CASE peer[r].st = "synsent" /\ Puts(r, WellKnown, Seg("SYN", 0, 0, Offer, <<>>))
  <2>1. KernelKept /\ Growing
    BY <1>1, WorldKept
  <2>2. peer' = [peer EXCEPT ![r] = p] /\ Tally(p)
    BY <1>1, <1>2, InvIs, Tallied DEF NetTyped
  <2>3. in'[r] = Append(in[r], Ask) /\ \A q \in Remote : q # r => in'[q] = in[q]
    BY <1>3, InvIs DEF Puts, Ask, NetTyped
  <2>4. in[r] = <<>> /\ out[r] = <<>> /\ rx.from # r /\ rx' = rx
    BY <1>1, <2>1 DEF Quiet, KernelKept
  <2>5. Line(r)' = <<Ask>> /\ Answer(r) = {} /\ Line(r) = <<>>
    <3>1. in'[r] = <<Ask>> /\ in'[r] \in Seq(Wire)
      <4>1. Ask \in Wire
        BY SynTyped, Sizes, OnIs DEF Ask
      <4>2. in'[r] = <<Ask>>
        BY <2>3, <2>4, <4>1
      <4>3. in'[r] \in Seq(Wire)
        BY NewTyped DEF NetTyped
      <4>. QED
        BY <4>2, <4>3
    <3>2. Line(r)' = in'[r]
      BY <2>4, <3>1, QuietLine
    <3>. QED
      BY <2>4, <3>1, <3>2, InvIs, LineIs DEF Answer
  <2>6. /\ Socks(r)' = Socks(r) /\ Half(r)' = Half(r) /\ Answer(r)' = Answer(r) /\ (Link(r) => HalfKept(r))
    BY <2>1, KernelKeeps
  <2>7. ASSUME Link(r) PROVE Link(r)'
    <3>1. Socks(r) = {} /\ Half(r) = {} /\ peer[r] = Asker
      BY <1>3, <2>4, <2>5, <2>7 DEF Link, Asking, Asks
    <3>2. ToSet(<<>>) = {}
      BY LineSet, EmptySeq
    <3>3. ToSet(<<Ask>>) = {Ask}
      BY DEF ToSet
    <3>4. Roles(r)'
      BY <1>1, <1>3, <2>4, <2>5, <2>6, <3>1, <3>2, <3>3, AskIs DEF Roles
    <3>5. Asking(r)' /\ Greeting(r)'
      BY <1>1, <2>4, <2>5, <2>6, <3>1 DEF Asking, Asks, Greeting
    <3>. QED
      BY <2>6, <3>1, <3>4, <3>5 DEF Link
  <2>. QED
    BY <1>1, <2>1, <2>2, <2>3, <2>7, PeerMoves
<1>4. CASE /\ peer[r].st \in {"fin", "closing", "last"}
           /\ Puts(r, peer[r].port, [Plain(r, peer[r], "FIN") EXCEPT !.seq = @ - 1])
  <2>1. PICK g \in SegRec : g = [Plain(r, p, "FIN") EXCEPT !.seq = @ - 1] /\ g.flag = "FIN" /\ g.data = <<>>
    <3>1. [Plain(r, p, "FIN") EXCEPT !.seq = @ - 1] \in SegRec
      BY PlainTyped DEF Flag
    <3>. QED
      BY <3>1 DEF Plain, Seg
  <2>2. Puts(r, peer[r].port, g) /\ peer[r].st \in Live
    BY <1>2, <1>4, <2>1 DEF Live
  <2>. QED
    BY <1>1, <2>1, <2>2, AgainFlow
<1>5. CASE /\ peer[r].st \in Live /\ peer[r].una <= peer[r].sent
           /\ Puts(r, peer[r].port, Seg("ACK", peer[r].una, peer[r].rcv, Offer, <<peer[r].una>>))
  <2>1. PICK a \in Int, c \in Int : a = p.sent /\ c = p.una
    BY PeerNumbers
  <2>2. PICK d \in Seq(Int) : d = <<c>> /\ Len(d) = 1
    <3>1. <<c>> \in Seq(Int) /\ Len(<<c>>) = 1
      OBVIOUS
    <3>. QED
      BY <3>1
  <2>3. PICK g \in SegRec : g = Seg("ACK", c, p.rcv, Offer, d)
    <3>1. "ACK" \in Flag /\ p.rcv \in Int
      BY PeerFields DEF Flag
    <3>. QED
      BY <3>1, Sizes, SegTyped
  <2>4. g.flag = "ACK" /\ g.seq = c /\ g.data = d
    BY <2>3 DEF Seg
  <2>5. Puts(r, peer[r].port, g)
    BY <1>2, <1>5, <2>1, <2>2, <2>3
  <2>6. g.seq + Len(g.data) <= 1 + peer[r].sent /\ peer[r].una <= peer[r].sent
    <3>1. c <= a
      BY <1>2, <1>5, <2>1
    <3>2. c + 1 <= 1 + a
      BY <3>1
    <3>. QED
      BY <1>2, <1>5, <2>1, <2>2, <2>4, <3>2
  <2>. QED
    BY <1>1, <1>5, <2>4, <2>5, <2>6, AgainFlow
<1>. QED
  BY <1>3, <1>4, <1>5 DEF PeerRetry

-----------------------------------------------------------------------------
(* What a host makes of what it gets.                                      *)

\* A fault ends what Flow says of the host.
LEMMA FaultFlow ==
    ASSUME Inv, Inv', Flow, NEW r \in Remote, Fault(r)
    PROVE  Flow'
<1>1. /\ Fails(r) /\ peer' = peer /\ UNCHANGED <<kernel, th, holds, rx>>
  BY DEF Fault
<1>2. KernelKept /\ Growing /\ ~Good(r)'
  BY <1>1 DEF Fails, Growing, Good, KernelKept, kernel
<1>3. PICK x \in PeerRec : x = peer[r]
  BY InvIs DEF NetTyped
<1>4. peer' = [peer EXCEPT ![r] = x] /\ Tally(x)
  BY <1>1, <1>3, InvIs, Tallied DEF NetTyped
<1>5. \A q \in Remote : q # r => in'[q] = in[q] /\ out'[q] = out[q]
  BY InvIs DEF Fault, NetTyped
<1>. QED
  BY <1>2, <1>4, <1>5, PeerMoves

\* A host that has taken segment w in: what it has acknowledged of ours.
Hears(s, p, x, w) ==
    /\ x.port = p.port /\ x.sent = p.sent /\ x.st \in {"synrcvd"} \cup Live
    /\ s.st = "ESTABLISHED" => x.st \in Early
    /\ x.st = "synrcvd" => x = p
    /\ \/ x.una = p.una /\ x.win = p.win /\ (w.seg.flag = "ACK" => w.seg.ack <= p.una)
       \/ x.una = w.seg.ack /\ x.win = w.seg.win /\ w.seg.ack >= p.una
\* The line to us, before and after: an acknowledgement may have been put on it.
Tells(s, L, M) ==
    M = L \/ \E y \in Wire : Mute(y) /\ y.port = s.port /\ M = Append(L, y)

\* A host takes a segment: the session,
LEMMA SessionHears ==
    ASSUME NEW s \in SockRec, NEW p \in PeerRec, NEW x \in PeerRec, NEW L \in Seq(Wire), NEW M \in Seq(Wire),
           NEW W \in SUBSET Wire, NEW V \in SUBSET Wire, NEW w \in W,
           Session(s, p, L, W), Hears(s, p, x, w), Tells(s, L, M), V \in SUBSET W
    PROVE  Session(s, x, M, V)
<1>1. PICK a \in Int, c \in Int, d \in Int, e \in Int : a = p.sent /\ c = p.una /\ d = s.ack /\ e = w.seg.ack
  BY PeerNumbers, SockNumbers, WireFields
<1>2. c <= 1 + a /\ d <= 1 + a /\ e <= 1 + a
  BY <1>1 DEF Session, Utters
<1>3. x.una \in {c, e} /\ x.sent = a /\ a <= a
  BY <1>1 DEF Hears
<1>4. x.una <= 1 + x.sent /\ s.ack <= 1 + x.sent /\ p.sent <= x.sent
  BY <1>1, <1>2, <1>3
<1>5. \A z \in ToSet(M) : z \in ToSet(L) \/ (z.port = s.port /\ Mute(z))
  <2>1. CASE M = L
    BY <2>1
  <2>2. ASSUME NEW y \in Wire, Mute(y), y.port = s.port, M = Append(L, y)
        PROVE  \A z \in ToSet(M) : z \in ToSet(L) \/ (z.port = s.port /\ Mute(z))
    <3>1. ToSet(M) = ToSet(L) \cup {y}
      BY <2>2, LineSet
    <3>. QED
      BY <2>2, <3>1
  <2>. QED
    BY <2>1, <2>2 DEF Tells
<1>6. /\ x.port = p.port /\ x.st \in {"synrcvd"} \cup Live /\ (x.st = "synrcvd" => x = Dialled(s.port))
      /\ (s.st = "ESTABLISHED" => x.st \in {"synrcvd", "est", "fin"})
  BY DEF Hears, Session, Early
<1>7. \A v \in V : v \in W
  OBVIOUS
<1>. QED
  BY <1>4, <1>5, <1>6, <1>7, SessionMoves

\* and the stream to us.
LEMMA InwardHears ==
    ASSUME NEW s \in SockRec, NEW p \in PeerRec, NEW x \in PeerRec, NEW L \in Seq(Wire), NEW M \in Seq(Wire),
           NEW W \in SUBSET Wire, NEW V \in SUBSET Wire, NEW w \in W,
           Inward(s, p, L, W), Hears(s, p, x, w), Tells(s, L, M), V \in SUBSET W, W \in SUBSET (V \cup {w})
    PROVE  Inward(s, x, M, V)
<1>1. PICK c \in Int, e \in Int, b \in Int, n \in Int, k \in Int :
         c = p.una /\ e = w.seg.ack /\ b = p.win /\ n = w.seg.win /\ k = Len(s.read) + Ring
  <2>1. p.una \in Int /\ p.win \in Int
    BY PeerNumbers
  <2>2. w.seg.ack \in Int /\ w.seg.win \in Int
    BY WireFields
  <2>3. Len(s.read) + Ring \in Int
    BY SockNumbers
  <2>. QED
    BY <2>1, <2>2, <2>3
<1>2. c + b <= k /\ e + n <= k
  BY <1>1 DEF Inward
<1>3. x.sent = p.sent /\ x.una >= p.una /\ x.una + x.win <= k /\ (w.seg.flag = "ACK" => w.seg.ack <= x.una)
  <2>1. CASE x.una = p.una /\ x.win = p.win /\ (w.seg.flag = "ACK" => w.seg.ack <= p.una)
    <3>1. c >= c
      OBVIOUS
    <3>. QED
      BY <1>1, <1>2, <2>1, <3>1 DEF Hears
  <2>2. CASE x.una = w.seg.ack /\ x.win = w.seg.win /\ w.seg.ack >= p.una
    <3>1. e <= e
      OBVIOUS
    <3>. QED
      BY <1>1, <1>2, <2>2, <3>1 DEF Hears
  <2>. QED
    BY <2>1, <2>2 DEF Hears
<1>4. \A z \in W : z.seg.flag = "ACK" => z \in V \/ z.seg.ack <= x.una
  BY <1>3
<1>5. Inward(s, x, L, V)
  BY <1>1, <1>3, <1>4, InwardWords
<1>6. CASE M = L
  BY <1>5, <1>6
<1>7. ASSUME NEW y \in Wire, Mute(y), M = Append(L, y) PROVE Inward(s, x, M, V)
  BY <1>5, <1>7, InwardPut
<1>. QED
  BY <1>6, <1>7 DEF Tells

\* A host takes a segment off the line.
LEMMA TakeMoves ==
    ASSUME Inv, Flow, NEW r \in Remote, KernelKept, Growing, out[r] # <<>>, out' = [out EXCEPT ![r] = Tail(@)],
           NEW x \in PeerRec, peer' = [peer EXCEPT ![r] = x], Tally(x),
           in' = in \/ \E y \in Wire : y.seg.flag = "ACK" /\ in' = [in EXCEPT ![r] = Append(@, y)],
           x.st \notin {"synsent", "synrcvd"} \/ x.st = peer[r].st, Link(r) => peer[r].st # "synsent",
           \A i \in Socks(r) : Link(r) /\ Tracks(r, i) => Tracks(r, i)'
    PROVE  Flow'
<1>1. /\ Socks(r)' = Socks(r) /\ Half(r)' = Half(r) /\ Answer(r)' = Answer(r) /\ (Link(r) => HalfKept(r))
      /\ \A i \in Sock : Leaving(i)' = Leaving(i) /\ sock'[i] = sock[i]
  BY KernelKeeps
<1>2. peer'[r] = x /\ out'[r] = Tail(out[r]) /\ \A q \in Remote : q # r => in'[q] = in[q] /\ out'[q] = out[q]
  BY InvIs, PeerSet DEF NetTyped
<1>3. ToSet(out[r])' \in SUBSET ToSet(out[r])
  BY <1>2, ViewTyped, LineSet
<1>4. \A z \in ToSet(Line(r))' : z \in ToSet(Line(r)) \/ z.seg.flag = "ACK"
  <2>1. CASE in' = in
    BY <2>1 DEF Line, KernelKept
  <2>2. ASSUME NEW y \in Wire, y.seg.flag = "ACK", in' = [in EXCEPT ![r] = Append(@, y)]
        PROVE  \A z \in ToSet(Line(r))' : z \in ToSet(Line(r)) \/ z.seg.flag = "ACK"
    <3>1. in'[r] = Append(in[r], y)
      BY <2>2, InvIs DEF NetTyped
    <3>2. Line(r)' = Append(Line(r), y)
      BY <3>1, InvIs, LinePut DEF KernelKept
    <3>3. ToSet(Line(r))' = ToSet(Line(r)) \cup {y}
      BY <3>2, ViewTyped, LineSet
    <3>. QED
      BY <2>2, <3>3
  <2>. QED
    BY <2>1, <2>2
<1>5. ASSUME Link(r) PROVE Link(r)'
  <2>1. Roles(r) /\ Greeting(r) /\ peer[r].st # "synsent"
    BY <1>5 DEF Link
  <2>2. Half(r) = {}
    BY <2>1 DEF Greeting, Greets
  <2>3. \A z \in ToSet(Line(r))' : z.seg.flag # "SYN"
    BY <1>4, <2>1 DEF Roles
  <2>4. /\ peer'[r].st = "synrcvd" => peer[r].st = "synrcvd"
        /\ \A w \in ToSet(out[r])' \cup Answer(r)' : w.seg.flag = "SYN" => w \in ToSet(out[r]) \cup Answer(r)
        /\ \A z \in ToSet(Line(r))' : z.seg.flag = "SYNACK" => z \in ToSet(Line(r))
    BY <1>1, <1>2, <1>3, <1>4
  <2>5. Socks(r)' = Socks(r) /\ \A i \in Socks(r) : sock'[i].port = sock[i].port
    BY <1>1 DEF Socks
  <2>6. Half(r)' # {} => peer'[r].st \in {"synsent", "est", "fin"}
    BY <1>1, <2>2
  <2>7. Roles(r)'
    BY <1>1, <1>5, <2>1, <2>3, <2>4, <2>5, <2>6, RolesMove
  <2>8. peer'[r].st # "synsent"
    BY <1>2, <2>1
  <2>9. Asking(r)' /\ Greeting(r)'
    BY <1>1, <2>2, <2>8 DEF Asking, Greeting
  <2>10. \A i \in Socks(r) : Tracks(r, i)'
    BY <1>5 DEF Link
  <2>. QED
    BY <1>1, <2>7, <2>9, <2>10 DEF Link
<1>. QED
  BY <1>2, <1>5, PeerMoves

\* Host r takes in the first segment of the line to it.
Takes(r, x) ==
    /\ KernelKept /\ inTrouble' = inTrouble /\ outTrouble' = outTrouble
    /\ out[r] # <<>> /\ out' = [out EXCEPT ![r] = Tail(@)]
    /\ x \in PeerRec /\ peer' = [peer EXCEPT ![r] = x] /\ Tally(x)
    /\ in' = in \/ \E y \in Wire : /\ y.seg.flag = "ACK" /\ Mute(y) /\ y.port = Head(out[r]).port
                                   /\ in' = [in EXCEPT ![r] = Append(@, y)]
    /\ x.st \notin {"synsent", "synrcvd"} \/ x.st = peer[r].st
\* A host takes a segment and stays in its connection.
LEMMA HearsFlow ==
    ASSUME Inv, Flow, NEW r \in Remote, NEW x, Takes(r, x),
           Link(r) => peer[r].st # "synsent",
           \A i \in Socks(r) : Link(r) /\ Opens(sock[i], peer[r], Line(r), Away(r, i)) => x = peer[r] /\ in' = in,
           \A i \in Socks(r) : Session(sock[i], peer[r], Line(r), Away(r, i)) /\ Utters(sock[i], peer[r], Head(out[r])) =>
              /\ Hears(sock[i], peer[r], x, Head(out[r]))
              /\ Outward(sock[i], peer[r], out[r], Answer(r), Leaving(i)) =>
                    Outward(sock[i], x, Tail(out[r]), Answer(r), Leaving(i))
    PROVE  Flow'
<1>1. /\ KernelKept /\ inTrouble' = inTrouble /\ outTrouble' = outTrouble /\ Growing
      /\ out[r] # <<>> /\ out' = [out EXCEPT ![r] = Tail(@)]
      /\ x \in PeerRec /\ peer' = [peer EXCEPT ![r] = x] /\ Tally(x)
      /\ in' = in \/ \E y \in Wire : /\ y.seg.flag = "ACK" /\ Mute(y) /\ y.port = Head(out[r]).port
                                     /\ in' = [in EXCEPT ![r] = Append(@, y)]
      /\ x.st \notin {"synsent", "synrcvd"} \/ x.st = peer[r].st
  BY DEF Takes, Growing
<1>2. PICK p \in PeerRec : p = peer[r]
  BY ViewTyped
<1>3. PICK L \in Seq(Wire) : L = Line(r)
  BY ViewTyped
<1>4. PICK O \in Seq(Wire) : O = out[r]
  BY ViewTyped
<1>5. PICK w \in Wire : w = Head(O) /\ w \in ToSet(O)
  BY <1>1, <1>4, LineSet
<1>6. peer'[r] = x /\ out'[r] = Tail(O)
  BY <1>1, <1>4, InvIs, PeerSet DEF NetTyped
<1>7. Answer(r)' = Answer(r) /\ \A i \in Sock : Leaving(i)' = Leaving(i) /\ sock'[i] = sock[i]
  BY <1>1, KernelKeeps
<1>8. PICK M \in Seq(Wire) : M = Line(r)' /\ (in' = in => M = L)
         /\ (M = L \/ \E y \in Wire : Mute(y) /\ y.port = w.port /\ M = Append(L, y))
  <2>1. CASE in' = in
    <3>1. Line(r)' = L
      BY <1>1, <1>3, <2>1 DEF Line, KernelKept
    <3>. QED
      BY <3>1
  <2>2. ASSUME NEW y \in Wire, Mute(y), y.port = Head(out[r]).port, in' = [in EXCEPT ![r] = Append(@, y)], in' # in
        PROVE  \E M \in Seq(Wire) : M = Line(r)' /\ (in' = in => M = L)
                 /\ (M = L \/ \E z \in Wire : Mute(z) /\ z.port = w.port /\ M = Append(L, z))
    <3>1. in'[r] = Append(in[r], y)
      BY <2>2, InvIs DEF NetTyped
    <3>2. Line(r)' = Append(L, y)
      BY <1>1, <1>3, <3>1, InvIs, LinePut DEF KernelKept
    <3>3. Append(L, y) \in Seq(Wire)
      BY LineSet
    <3>. QED
      BY <1>4, <1>5, <2>2, <3>2, <3>3
  <2>. QED
    BY <1>1, <2>1, <2>2
<1>9. ASSUME NEW i \in Socks(r), Link(r), Tracks(r, i) PROVE Tracks(r, i)'
  <2>1. i \in Sock
    BY <1>9 DEF Socks
  <2>2. PICK s \in SockRec : s = sock[i]
    BY <2>1, InvIs
  <2>3. PICK W \in SUBSET Wire : W = Away(r, i)
    BY <2>1, ViewTyped
  <2>4. PICK V \in SUBSET Wire : V = Away(r, i)' /\ V \in SUBSET W /\ W \in SUBSET (V \cup {w})
    <3>1. ToSet(O) = {w} \cup ToSet(Tail(O))
      BY <1>1, <1>4, <1>5, LineSet
    <3>2. Away(r, i)' = ToSet(Tail(O)) \cup Answer(r) \cup Leaving(i)
      BY <1>6, <1>7, <2>1 DEF Away
    <3>3. W = ToSet(O) \cup Answer(r) \cup Leaving(i)
      BY <1>4, <2>3 DEF Away
    <3>4. Away(r, i)' \in SUBSET W /\ W \in SUBSET (Away(r, i)' \cup {w})
      BY <3>1, <3>2, <3>3
    <3>. QED
      BY <3>4
  <2>5. w \in W
    BY <1>4, <1>5, <2>3 DEF Away
  <2>6. ASSUME s.st = "SYN_SENT" PROVE Opens(s, x, M, V)
    <3>1. Opens(s, p, L, W)
      BY <1>2, <1>3, <1>9, <2>2, <2>3, <2>6 DEF Tracks
    <3>2. x = p /\ M = L
      BY <1>2, <1>3, <1>8, <1>9, <2>2, <2>3, <3>1
    <3>. QED
      BY <2>4, <3>1, <3>2 DEF Opens
  <2>7. ASSUME s.st \in {"ESTABLISHED", "FIN_WAIT_1"}
        PROVE  /\ Session(s, x, M, V)
               /\ r \notin outTrouble => Outward(s, x, Tail(O), Answer(r), Leaving(i))
               /\ s.st = "ESTABLISHED" /\ r \notin inTrouble => Inward(s, x, M, V)
    <3>1. Session(s, p, L, W) /\ (r \notin outTrouble => Outward(s, p, O, Answer(r), Leaving(i)))
          /\ (s.st = "ESTABLISHED" /\ r \notin inTrouble => Inward(s, p, L, W))
      BY <1>2, <1>3, <1>4, <1>9, <2>2, <2>3, <2>7 DEF Tracks
    <3>2. Utters(s, p, w)
      BY <2>5, <3>1 DEF Session
    <3>3. Hears(s, p, x, w) /\ (Outward(s, p, O, Answer(r), Leaving(i)) => Outward(s, x, Tail(O), Answer(r), Leaving(i)))
      BY <1>2, <1>3, <1>4, <1>5, <2>2, <2>3, <3>1, <3>2
    <3>4. w.port = s.port
      BY <3>2 DEF Utters
    <3>5. Tells(s, L, M)
      BY <1>8, <3>4 DEF Tells
    <3>6. Session(s, x, M, V)
      BY <1>1, <2>4, <2>5, <3>1, <3>3, <3>5, SessionHears
    <3>7. Inward(s, p, L, W) => Inward(s, x, M, V)
      BY <1>1, <2>4, <2>5, <3>3, <3>5, InwardHears
    <3>. QED
      BY <3>1, <3>3, <3>6, <3>7
  <2>8. sock'[i] = s /\ Leaving(i)' = Leaving(i)
    BY <1>7, <2>1, <2>2
  <2>. QED
    BY <1>1, <1>6, <1>7, <1>8, <2>2, <2>4, <2>6, <2>7, <2>8 DEF Tracks
<1>10. in' = in \/ \E y \in Wire : y.seg.flag = "ACK" /\ in' = [in EXCEPT ![r] = Append(@, y)]
  BY <1>1
<1>. QED
  BY <1>1, <1>9, <1>10, TakeMoves

\* The state of the host when it has counted the acknowledgement of g.
Heeds(p, q, g) ==
    /\ q.port = p.port /\ q.sent = p.sent /\ q.fin = p.fin /\ q.rcv = p.rcv /\ q.got = p.got
    /\ q.st = p.st \/ (p.st = "synrcvd" /\ q.st = "est")
    /\ \/ q.una = p.una /\ q.win = p.win /\ g.ack < p.una
       \/ q.una = g.ack /\ q.win = g.win /\ g.ack >= p.una
\* What an acknowledgement changes,
LEMMA HeedsIs ==
    ASSUME NEW p \in PeerRec, NEW g \in SegRec, NEW x \in PeerRec,
           x = IF p.st = "synrcvd" /\ g.flag \in {"ACK", "FIN"} THEN [p EXCEPT !.st = "est"] ELSE p
    PROVE  /\ Acked(x, g) \in PeerRec /\ Acked(x, g).st = x.st /\ Heeds(p, Acked(x, g), g)
           /\ p.st = "synrcvd" /\ g.flag \in {"ACK", "FIN"} => x.st = "est"
           /\ ~(p.st = "synrcvd" /\ g.flag \in {"ACK", "FIN"}) => x = p
<1>1. /\ x.port = p.port /\ x.sent = p.sent /\ x.fin = p.fin /\ x.rcv = p.rcv /\ x.got = p.got
      /\ x.una = p.una /\ x.win = p.win /\ (x.st = p.st \/ (p.st = "synrcvd" /\ x.st = "est"))
      /\ (p.st = "synrcvd" /\ g.flag \in {"ACK", "FIN"} => x.st = "est")
      /\ (~(p.st = "synrcvd" /\ g.flag \in {"ACK", "FIN"}) => x = p)
  BY DEF PeerRec
<1>2. PICK q \in PeerRec : q = Acked(x, g) /\ q.st = x.st
  BY AckedTyped
<1>3. PICK a \in Int, b \in Int, u \in Int : a = g.ack /\ b = g.win /\ u = x.una
  BY SegFields, PeerNumbers
<1>4. /\ q.port = x.port /\ q.sent = x.sent /\ q.fin = x.fin /\ q.rcv = x.rcv /\ q.got = x.got
      /\ \/ q.una = u /\ q.win = x.win /\ ~(a > u) /\ a # u
         \/ q.una = a /\ q.win = b /\ a > u
         \/ q.una = u /\ q.win = b /\ a = u
  BY <1>2, <1>3 DEF Acked, PeerRec
<1>5. /\ ~(a > u) /\ a # u => a < u
      /\ a > u \/ a = u => a >= u
  OBVIOUS
<1>. QED
  BY <1>1, <1>2, <1>3, <1>4, <1>5 DEF Heeds

\* which is what a session allows.
LEMMA HeedsHears ==
    ASSUME NEW s \in SockRec, NEW p \in PeerRec, NEW q \in PeerRec, NEW x \in PeerRec, NEW w \in Wire,
           Heeds(p, q, w.seg), x.port = q.port, x.sent = q.sent, x.una = q.una, x.win = q.win, x.st \in Live,
           s.st = "ESTABLISHED" => x.st \in Early
    PROVE  Hears(s, p, x, w)
<1>1. PICK a \in Int, u \in Int : a = w.seg.ack /\ u = p.una
  BY WireFields, PeerNumbers
<1>2. a < u => a <= u
  OBVIOUS
<1>. QED
  BY <1>1, <1>2, HostsAre DEF Hears, Heeds

\* Nothing is acknowledged that a host has not sent: its FIN is not.
LEMMA FinUnheard ==
    ASSUME NEW s \in SockRec, NEW p \in PeerRec, NEW q \in PeerRec, NEW w \in Wire, NEW L, NEW W,
           Session(s, p, L, W), Utters(s, p, w), Heeds(p, q, w.seg), Tally(p), q.st \in {"closing", "last"}
    PROVE  q.una # 1 + q.sent + q.fin
<1>1. p.st = q.st /\ p.fin = 1 /\ q.fin = 1 /\ q.sent = p.sent
  BY DEF Heeds, Tally
<1>2. PICK a \in Int, u \in Int, e \in Int : a = p.sent /\ u = p.una /\ e = w.seg.ack
  BY PeerNumbers, WireFields
<1>3. u <= 1 + a /\ e <= 1 + a /\ q.una \in {u, e}
  BY <1>2 DEF Session, Utters, Heeds
<1>4. u # 1 + a + 1 /\ e # 1 + a + 1
  BY <1>3
<1>. QED
  BY <1>1, <1>2, <1>3, <1>4

\* Segments of ours that are no answer to a SYN.
LEMMA NotDialling ==
    ASSUME Inv, NEW r \in Remote, out[r] # <<>>, NEW i \in Sock, Opens(sock[i], peer[r], Line(r), Away(r, i))
    PROVE  Head(out[r]).seg.flag = "SYN" /\ Head(out[r]) = Dial(sock[i].port)
<1>1. Head(out[r]) \in Away(r, i)
  BY ViewTyped, LineSet DEF Away
<1>2. Head(out[r]) = Dial(sock[i].port)
  BY <1>1 DEF Opens
<1>3. Dial(sock[i].port).seg.flag = "SYN"
  BY DEF Dial, On, Seg
<1>. QED
  BY <1>2, <1>3
\* A host that asks gets the answer and nothing else.
LEMMA AskAnswered ==
    ASSUME Inv, NEW r \in Remote, out[r] # <<>>, Link(r), peer[r].st = "synsent"
    PROVE  /\ out[r] = <<Invite>> /\ Head(out[r]) = Invite /\ Head(out[r]).seg.flag = "SYNACK"
           /\ Line(r) = <<>> /\ Answer(r) = {} /\ peer[r] = Asker /\ Socks(r) = {}
<1>1. out[r] = <<Invite>> /\ Line(r) = <<>> /\ Answer(r) = {} /\ peer[r] = Asker /\ Socks(r) = {}
  BY DEF Link, Asking, Asks
<1>. QED
  BY <1>1, AskIs

\* The numbers of a host still fit together.
LEMMA TallyHeeds ==
    ASSUME NEW p \in PeerRec, NEW q \in PeerRec, NEW g, Heeds(p, q, g), Tally(p), q.st \in Live
    PROVE  /\ Tally(q)
           /\ \A x \in PeerRec : x.sent = q.sent /\ x.fin = q.fin /\ x.st = q.st => Tally(x)
           /\ \A x \in PeerRec : x.sent = q.sent /\ x.fin = q.fin /\ q.st = "est" /\ x.st = "closewait" => Tally(x)
           /\ \A x \in PeerRec : x.sent = q.sent /\ x.fin = q.fin /\ q.st = "fin" /\ x.st = "closing" => Tally(x)
<1>1. q.sent >= 0 /\ q.fin = IF q.st \in {"fin", "closing", "last"} THEN 1 ELSE 0
  BY DEF Heeds, Tally
<1>2. "closed" \notin Live
  BY HostsAre
<1>. QED
  BY <1>1, <1>2 DEF Tally

\* The host takes a SYN: it is connected as soon as it gets an answer.
LEMMA DialledFlow ==
    ASSUME Inv, Inv', Flow, NEW r \in Remote, UNCHANGED World, out[r] # <<>>, out' = [out EXCEPT ![r] = Tail(@)],
           peer[r].st = "closed", NEW w \in Wire, w = Head(out[r]), w.seg.flag = "SYN", NEW x \in PeerRec,
           x = [peer[r] EXCEPT !.st = "synrcvd", !.port = w.port, !.rcv = w.seg.seq + 1],
           peer' = [peer EXCEPT ![r] = x], Puts(r, x.port, Seg("SYNACK", 0, x.rcv, Offer, <<>>))
    PROVE  Flow'
<1>1. KernelKept /\ Growing /\ inTrouble' = inTrouble /\ outTrouble' = outTrouble
  BY WorldKept
<1>2. peer[r] = NoPeer
  BY Tallied DEF Tally
<1>3. PICK n \in Int, a \in Int : n = w.port /\ a = w.seg.seq + 1
  <2>1. w.port \in Int /\ w.seg.seq \in Int
    BY WireFields
  <2>2. w.seg.seq + 1 \in Int
    BY <2>1
  <2>. QED
    BY <2>1, <2>2
<1>4. /\ x = [NoPeer EXCEPT !.st = "synrcvd", !.port = n, !.rcv = a]
      /\ x.st = "synrcvd" /\ x.port = n /\ x.rcv = a /\ x.sent = 0 /\ x.fin = 0
  BY <1>2, <1>3 DEF NoPeer
<1>5. Tally(x)
  BY <1>4 DEF Tally
<1>6. PICK g \in SegRec : g = Seg("SYNACK", 0, a, Offer, <<>>)
  <2>1. 0 \in Int /\ Offer \in Int /\ "SYNACK" \in {"ACK", "SYN", "SYNACK", "FIN", "RST"}
    BY Sizes
  <2>2. Seg("SYNACK", 0, a, Offer, <<>>) \in SegRec
    BY <2>1, AnswerTyped
  <2>. QED
    BY <2>2
<1>7. PICK y \in Wire : y = On(n, g) /\ y.seg = g /\ y.port = n
  BY OnIs
<1>8. in' = [in EXCEPT ![r] = Append(@, y)]
  BY <1>4, <1>6, <1>7 DEF Puts
<1>9. peer'[r] = x /\ out'[r] = Tail(out[r]) /\ in'[r] = Append(in[r], y)
      /\ \A q \in Remote : q # r => in'[q] = in[q] /\ out'[q] = out[q]
  BY <1>8, InvIs, PeerSet DEF NetTyped
<1>10. Line(r)' = Append(Line(r), y)
  BY <1>1, <1>9, InvIs, LinePut DEF KernelKept
<1>11. ASSUME Link(r) PROVE Link(r)'
  <2>1. w \in ToSet(out[r]) /\ ToSet(out[r])' \in SUBSET ToSet(out[r])
    BY <1>9, ViewTyped, LineSet
  <2>2. PICK i \in Socks(r) : sock[i].port > 0
    BY <1>11, <2>1 DEF Link, Roles
  <2>3. i \in Sock /\ sock[i].remote = r
    BY <2>2 DEF Socks
  <2>4. /\ Roles(r) /\ Tracks(r, i) /\ Half(r) = {} /\ Socks(r) = {i} /\ \A z \in ToSet(Line(r)) : z.seg.flag # "SYN"
    BY <1>11, <2>3, FocusIs
  <2>5. /\ Socks(r)' = Socks(r) /\ Answer(r)' = Answer(r) /\ HalfKept(r) /\ Half(r)' = Half(r)
        /\ Leaving(i)' = Leaving(i) /\ sock'[i] = sock[i]
    BY <1>1, <1>11, <2>3, KernelKeeps
  <2>6. y.seg.flag = "SYNACK"
    BY <1>6, <1>7 DEF Seg
  <2>7. ToSet(Line(r))' = ToSet(Line(r)) \cup {y}
    BY <1>10, ViewTyped, LineSet
  <2>8. Roles(r)'
    <3>1. \A z \in ToSet(Line(r))' : z.seg.flag # "SYN"
      BY <2>4, <2>6, <2>7
    <3>2. \A j \in Socks(r) : sock'[j].port = sock[j].port
      BY <2>4, <2>5
    <3>3. \E j \in Socks(r) : sock[j].port > 0
      BY <2>2
    <3>4. Half(r)' # {} => peer'[r].st \in {"synsent", "est", "fin"}
      BY <2>4, <2>5
    <3>. QED
      BY <2>4, <2>5, <3>1, <3>2, <3>3, <3>4, RolesMove
  <2>9. ASSUME sock[i].st = "SYN_SENT" PROVE Opens(sock[i], x, Append(Line(r), y), Away(r, i)')
    <3>1. Opens(sock[i], peer[r], Line(r), Away(r, i))
      BY <2>4, <2>9 DEF Tracks
    <3>2. w = Dial(sock[i].port) /\ Line(r) = <<>>
      <4>1. w = Dial(sock[i].port)
        BY <2>3, <3>1, NotDialling
      <4>2. Dialled(sock[i].port).st # "closed"
        BY HostsAre
      <4>. QED
        BY <3>1, <4>1, <4>2 DEF Opens
    <3>3. n = sock[i].port /\ a = 1001
      <4>1. Dial(sock[i].port).port = sock[i].port /\ Dial(sock[i].port).seg.seq = 1000
        BY DEF Dial, On, Seg
      <4>. QED
        BY <1>3, <3>2, <4>1
    <3>4. x = Dialled(sock[i].port) /\ y = Greet(sock[i].port)
      <4>1. x = [NoPeer EXCEPT !.st = "synrcvd", !.port = sock[i].port, !.rcv = 1001]
        BY <1>4, <3>3
      <4>2. y = On(sock[i].port, Seg("SYNACK", 0, 1001, Offer, <<>>))
        BY <1>6, <1>7, <3>3
      <4>. QED
        BY <4>1, <4>2 DEF Dialled, Greet
    <3>5. ToSet(Append(Line(r), y)) = {y}
      <4>1. ToSet(Line(r)) = {}
        BY <3>2, ViewTyped, LineSet
      <4>. QED
        BY <1>10, <2>7, <4>1
    <3>6. Away(r, i)' \in SUBSET Away(r, i)
      BY <2>1, <2>5 DEF Away
    <3>. QED
      BY <3>1, <3>4, <3>5, <3>6 DEF Opens
  <2>10. sock[i].st \notin {"ESTABLISHED", "FIN_WAIT_1"}
    BY <2>4, HostsAre DEF Tracks, Session
  <2>11. Tracks(r, i)'
    BY <1>9, <1>10, <2>5, <2>9, <2>10 DEF Tracks
  <2>. QED
    BY <1>4, <1>9, <2>3, <2>5, <2>8, <2>11, FocusLink
<1>. QED
  BY <1>1, <1>5, <1>9, <1>11, PeerMoves

\* The host's connection is made: it says so.
LEMMA InvitedFlow ==
    ASSUME Inv, Inv', Flow, NEW r \in Remote, UNCHANGED World, out[r] # <<>>, out' = [out EXCEPT ![r] = Tail(@)],
           peer[r].st = "synsent", NEW w \in Wire, w = Head(out[r]), NEW q \in PeerRec, q = Acked(peer[r], w.seg),
           NEW x \in PeerRec, x = [q EXCEPT !.st = "est", !.rcv = w.seg.seq + 1],
           peer' = [peer EXCEPT ![r] = x], Puts(r, w.port, Plain(r, x, "ACK")), Heeds(peer[r], q, w.seg)
    PROVE  Flow'
<1>1. KernelKept /\ Growing /\ inTrouble' = inTrouble /\ outTrouble' = outTrouble
  BY WorldKept
<1>2. PICK n \in Int, g \in SegRec : n = w.port /\ g = Plain(r, x, "ACK")
  <2>1. Plain(r, x, "ACK") \in SegRec
    BY PlainTyped DEF Flag
  <2>. QED
    BY <2>1, WireFields
<1>3. PICK y \in Wire : y = On(n, g) /\ y.seg = g /\ y.port = n
  BY <1>2, OnIs
<1>4. in' = [in EXCEPT ![r] = Append(@, y)]
  BY <1>2, <1>3 DEF Puts
<1>5. peer'[r] = x /\ out'[r] = Tail(out[r]) /\ in'[r] = Append(in[r], y)
      /\ \A k \in Remote : k # r => in'[k] = in[k] /\ out'[k] = out[k]
  BY <1>4, InvIs, PeerSet DEF NetTyped
<1>6. Line(r)' = Append(Line(r), y)
  BY <1>1, <1>5, InvIs, LinePut DEF KernelKept
<1>7. /\ x.st = "est" /\ x.sent = q.sent /\ x.fin = q.fin /\ x.una = q.una /\ x.win = q.win /\ x.got = q.got
      /\ x.port = q.port /\ x.rcv = w.seg.seq + 1
  BY DEF PeerRec
<1>8. Tally(x)
  <2>1. x.sent = peer[r].sent /\ x.fin = peer[r].fin /\ Tally(peer[r])
    BY <1>7, Tallied DEF Heeds
  <2>. QED
    BY <1>7, <2>1 DEF Tally
<1>9. g.flag = "ACK" /\ g.data = <<>> /\ g.seq = 1 + x.sent + x.fin
  BY <1>2 DEF Plain, Seg
<1>10. ASSUME Link(r) PROVE Link(r)'
  <2>1. /\ out[r] = <<Invite>> /\ w = Invite /\ Line(r) = <<>> /\ Answer(r) = {} /\ peer[r] = Asker /\ Socks(r) = {}
    BY <1>10, AskAnswered
  <2>2. /\ Asker.sent = 0 /\ Asker.fin = 0 /\ Asker.una = 0 /\ Asker.got = <<>> /\ Asker.port = WellKnown
    BY DEF Asker, NoPeer
  <2>3. x.una = 1 /\ x.win = Offer
    <3>1. \/ q.una = 0 /\ w.seg.ack < 0
          \/ q.una = w.seg.ack /\ q.win = w.seg.win
      BY <2>1, <2>2 DEF Heeds
    <3>2. w.seg.ack = 1 /\ w.seg.win = Offer
      BY <2>1, AskIs
    <3>. QED
      BY <1>7, <3>1, <3>2
  <2>4. x.sent = 0 /\ x.fin = 0 /\ x.got = <<>> /\ x.port = WellKnown /\ x.rcv = 1 /\ n = WellKnown
    BY <1>2, <1>7, <2>1, <2>2, AskIs DEF Heeds
  <2>5. y.port = WellKnown /\ y.seg.flag = "ACK" /\ Mute(y) /\ y.seg.seq = 1
    BY <1>3, <1>9, <2>4 DEF Mute
  <2>6. PICK M \in Seq(Wire) : M = <<y>> /\ Line(r)' = M /\ ToSet(M) = {y} /\ M # <<>> /\ Head(M) = y
    <3>1. <<y>> \in Seq(Wire) /\ <<y>> # <<>> /\ Head(<<y>>) = y /\ Append(<<>>, y) = <<y>>
      OBVIOUS
    <3>2. ToSet(<<y>>) = {y}
      BY DEF ToSet
    <3>. QED
      BY <1>6, <2>1, <3>1, <3>2
  <2>7. out'[r] = <<>> /\ ToSet(out[r])' = {}
    <3>1. out'[r] = <<>>
      BY <1>5, <2>1
    <3>2. ToSet(<<>>) = {}
      BY LineSet, EmptySeq
    <3>. QED
      BY <3>1, <3>2
  <2>8. Greets(x, M, <<>>, {})
    <3>1. Bytes(M) = <<>> /\ Span(<<>>, 0, 0)
      <4>1. \A z \in ToSet(M) : Mute(z)
        BY <2>5, <2>6
      <4>. QED
        BY <4>1, MuteLine, SpanEmpty
    <3>2. Numbered(M) /\ Ends(M, 0)
      BY <2>5, <2>6 DEF Numbered, Ends
    <3>3. 0 < Ring
      BY OfferIs
    <3>. QED
      BY <1>7, <2>3, <2>4, <2>5, <2>6, <3>1, <3>2, <3>3 DEF Greets
  <2>9. /\ Socks(r)' = {} /\ Answer(r)' = {} /\ HalfKept(r)
    BY <1>1, <1>10, <2>1, KernelKeeps
  <2>10. Roles(r)'
    <3>1. Roles(r) /\ Socks(r)' = Socks(r)
      BY <1>10, <2>1, <2>9 DEF Link
    <3>2. \A z \in ToSet(Line(r))' : z = y
      BY <2>6
    <3>3. \A j \in Socks(r) : sock'[j].port = sock[j].port
      BY <2>1
    <3>4. /\ peer'[r].st = "synrcvd" => peer[r].st = "synrcvd"
          /\ \A v \in ToSet(out[r])' \cup Answer(r)' : v.seg.flag = "SYN" => v \in ToSet(out[r]) \cup Answer(r)
          /\ \A z \in ToSet(Line(r))' : z.seg.flag = "SYNACK" => z \in ToSet(Line(r))
      BY <1>5, <1>7, <2>5, <2>7, <2>9, <3>2
    <3>5. \A z \in ToSet(Line(r))' : z.seg.flag # "SYN"
      BY <2>5, <3>2
    <3>6. Half(r)' # {} => peer'[r].st \in {"synsent", "est", "fin"}
      BY <1>5, <1>7
    <3>. QED
      BY <2>9, <3>1, <3>3, <3>4, <3>5, <3>6, RolesMove
  <2>11. Asking(r)' /\ Greeting(r)'
    BY <1>5, <1>7, <2>6, <2>7, <2>8, <2>9 DEF Asking, Greeting
  <2>. QED
    BY <2>9, <2>10, <2>11 DEF Link
<1>. QED
  BY <1>1, <1>5, <1>8, <1>10, PeerMoves

\* The host takes a segment: it is connected, or what it gets is nothing to it.
LEMMA PeerReceiveFlow ==
    ASSUME Inv, Inv', Flow, NEW r \in Remote, PeerReceive(r)
    PROVE  Flow'
<1>0. /\ peer[r] \in PeerRec /\ out[r] \in Seq(Wire) /\ out[r] # <<>> /\ UNCHANGED World
      /\ out' = [out EXCEPT ![r] = Tail(@)]
  BY InvIs DEF NetTyped, PeerReceive
<1>1. Head(out[r]) \in Wire
  BY <1>0
<1>2. PICK h \in Wire : h = Head(out[r])
  BY <1>1
<1>3. PICK n \in Int, g \in SegRec : n = h.port /\ g = h.seg
  BY DEF Wire
<1>4. PICK o \in PeerRec : o = peer[r]
  BY <1>0
<1>5. PICK p \in PeerRec :
          p = IF o.st = "synrcvd" /\ g.flag \in {"ACK", "FIN"} THEN [o EXCEPT !.st = "est"] ELSE o
  <2>1. PICK y \in PeerStates : y = "est"
    BY DEF PeerStates, Live
  <2>2. [o EXCEPT !.st = y] \in PeerRec
    BY PeerSt
  <2>. QED
    BY <2>1, <2>2
<1>6. PICK q \in PeerRec : q = Acked(p, g) /\ q.st = p.st /\ Heeds(o, q, g)
  BY <1>5, HeedsIs
<1>7. /\ o.st = "synrcvd" /\ g.flag \in {"ACK", "FIN"} => p.st = "est"
      /\ ~(o.st = "synrcvd" /\ g.flag \in {"ACK", "FIN"}) => p = o
  BY <1>5, HeedsIs
<1>8. KernelKept /\ inTrouble' = inTrouble /\ outTrouble' = outTrouble /\ Tally(o)
  BY <1>0, <1>4, WorldKept, Tallied
<1>. DEFINE now(x) == peer' = [peer EXCEPT ![r] = x]
            answer(x, f) == now(x) /\ Puts(r, n, Plain(r, x, f))
<1>9. ASSUME NEW x \in PeerRec, now(x), Tally(x), x.st \notin {"synsent", "synrcvd"} \/ x.st = o.st,
             in' = in \/ Puts(r, n, Plain(r, x, "ACK"))
      PROVE  Takes(r, x)
  <2>1. ASSUME Puts(r, n, Plain(r, x, "ACK"))
        PROVE  \E y \in Wire : /\ y.seg.flag = "ACK" /\ Mute(y) /\ y.port = Head(out[r]).port
                               /\ in' = [in EXCEPT ![r] = Append(@, y)]
    <3>1. PICK k \in SegRec : k = Plain(r, x, "ACK")
      <4>1. Plain(r, x, "ACK") \in SegRec
        BY PlainTyped DEF Flag
      <4>. QED
        BY <4>1
    <3>2. k.flag = "ACK" /\ k.data = <<>>
      BY <3>1 DEF Plain, Seg
    <3>3. On(n, k) \in Wire /\ On(n, k).port = n /\ On(n, k).seg = k
      BY OnIs
    <3>4. in' = [in EXCEPT ![r] = Append(@, On(n, k))]
      BY <2>1, <3>1 DEF Puts
    <3>. QED
      BY <1>2, <1>3, <3>2, <3>3, <3>4 DEF Mute
  <2>. QED
    BY <1>0, <1>4, <1>8, <1>9, <2>1 DEF Takes
<1>10. ASSUME g.flag # "SYNACK", Link(r) PROVE peer[r].st # "synsent"
  BY <1>0, <1>2, <1>3, <1>10, AskAnswered
<1>11. ASSUME g.flag # "SYN", NEW i \in Socks(r) PROVE ~Opens(sock[i], peer[r], Line(r), Away(r, i))
  <2>1. i \in Sock
    BY <1>11 DEF Socks
  <2>. QED
    BY <1>0, <1>2, <1>3, <1>11, <2>1, NotDialling
<1>12. CASE p.st = "closed" /\ g.flag = "SYN" /\ r \in Host
  <2>1. p = o
    BY <1>7, <1>12
  <2>2. PICK a \in Int : a = g.seq + 1
    <3>1. g.seq + 1 \in Int
      BY SegFields
    <3>. QED
      BY <3>1
  <2>3. PICK x \in PeerRec : x = [p EXCEPT !.st = "synrcvd", !.port = n, !.rcv = a] /\ x.port = n /\ x.rcv = a
    <3>1. "synrcvd" \in PeerStates
      BY DEF PeerStates
    <3>2. LET x == [p EXCEPT !.st = "synrcvd", !.port = n, !.rcv = a]
          IN  x \in PeerRec /\ x.port = n /\ x.rcv = a
      BY <3>1, Zenon DEF PeerRec
    <3>. QED
      BY <3>2
  <2>4. now(x) /\ Puts(r, x.port, Seg("SYNACK", 0, x.rcv, Offer, <<>>))
    BY <1>2, <1>3, <1>4, <1>5, <1>12, <2>2, <2>3, Zenon DEF PeerReceive
  <2>. QED
    BY <1>0, <1>2, <1>3, <1>4, <1>12, <2>1, <2>2, <2>3, <2>4, DialledFlow, Zenon
<1>13. CASE g.flag = "RST"
  <2>1. now(Over) /\ in' = in
    BY <1>2, <1>3, <1>4, <1>5, <1>13 DEF PeerReceive
  <2>2. Takes(r, Over)
    <3>1. Over \in PeerRec /\ Over.st = "done" /\ Over.sent = 0 /\ Over.fin = 0
      BY Nothing, HostsAre
    <3>2. Tally(Over)
      BY <3>1 DEF Tally
    <3>. QED
      BY <1>9, <2>1, <3>1, <3>2
  <2>3. \A i \in Socks(r) : ~Utters(sock[i], peer[r], Head(out[r]))
    BY <1>2, <1>3, <1>13 DEF Utters
  <2>. QED
    BY <1>10, <1>11, <1>13, <2>2, <2>3, HearsFlow, SMTT(30)
<1>14. CASE p.st = "synsent" /\ g.flag = "SYNACK"
  <2>1. p = o
    BY <1>7, <1>14
  <2>2. PICK y \in PeerStates, a \in Int : y = "est" /\ a = g.seq + 1
    <3>1. g.seq + 1 \in Int /\ "est" \in PeerStates
      BY SegFields DEF PeerStates, Live
    <3>. QED
      BY <3>1
  <2>3. PICK x \in PeerRec : x = [q EXCEPT !.st = y, !.rcv = a]
    BY PeerOpens, ZenonT(30)
  <2>4. answer(x, "ACK")
    BY <1>2, <1>3, <1>4, <1>5, <1>6, <1>14, <2>2, <2>3, HostsAre, Zenon DEF PeerReceive
  <2>. QED
    BY <1>0, <1>2, <1>3, <1>4, <1>6, <1>14, <2>1, <2>2, <2>3, <2>4, InvitedFlow, Zenon
<1>15. ASSUME p.st \in Live, g.flag \in {"ACK", "FIN"}, NEW x \in PeerRec, now(x),
              x.port = q.port, x.sent = q.sent, x.una = q.una, x.win = q.win, x.st \in Live, Tally(x),
              in' = in \/ Puts(r, n, Plain(r, x, "ACK")),
              \A i \in Socks(r) : Session(sock[i], peer[r], Line(r), Away(r, i)) /\ Utters(sock[i], peer[r], Head(out[r])) =>
                 /\ sock[i].st = "ESTABLISHED" => x.st \in Early
                 /\ Outward(sock[i], peer[r], out[r], Answer(r), Leaving(i)) =>
                       Outward(sock[i], x, Tail(out[r]), Answer(r), Leaving(i))
       PROVE  Flow'
  <2>1. g.flag # "SYN" /\ g.flag # "SYNACK"
    BY <1>15
  <2>2. Takes(r, x)
    <3>1. x.st \notin {"synsent", "synrcvd"}
      BY <1>15, HostsAre
    <3>. QED
      BY <1>9, <1>15, <3>1
  <2>3. ASSUME NEW i \in Socks(r), Session(sock[i], peer[r], Line(r), Away(r, i)),
               Utters(sock[i], peer[r], Head(out[r]))
        PROVE  Hears(sock[i], peer[r], x, Head(out[r]))
    <3>1. sock[i] \in SockRec
      BY ViewTyped
    <3>2. PICK s \in SockRec : s = sock[i]
      BY <3>1
    <3>3. s.st = "ESTABLISHED" => x.st \in Early
      BY <1>15, <2>3, <3>2
    <3>4. Heeds(o, q, h.seg)
      BY <1>3, <1>6
    <3>5. Hears(s, o, x, h)
      BY <1>15, <3>3, <3>4, HeedsHears
    <3>. QED
      BY <1>2, <1>4, <3>2, <3>5
  <2>. QED
    BY <1>10, <1>11, <1>15, <2>1, <2>2, <2>3, HearsFlow
<1>16. CASE p.st \in Live /\ g.flag = "ACK" /\ g.data = <<>>
  <2>1. PICK x \in {Over, q} :
            /\ now(x) /\ in' = in
            /\ x = IF q.st \in {"closing", "last"} /\ q.una = 1 + q.sent + q.fin THEN Over ELSE q
    BY <1>2, <1>3, <1>4, <1>5, <1>6, <1>16, HostsAre, ZenonT(30) DEF PeerReceive
  <2>2. CASE x = q
    <3>1. Tally(q)
      BY <1>6, <1>8, <1>16, TallyHeeds
    <3>2. ASSUME NEW i \in Socks(r), Session(sock[i], peer[r], Line(r), Away(r, i)),
                 Utters(sock[i], peer[r], Head(out[r]))
          PROVE  /\ sock[i].st = "ESTABLISHED" => q.st \in Early
                 /\ Outward(sock[i], peer[r], out[r], Answer(r), Leaving(i)) =>
                       Outward(sock[i], q, Tail(out[r]), Answer(r), Leaving(i))
      <4>1. sock[i] \in SockRec /\ out[r] \in Seq(Wire)
        BY ViewTyped
      <4>2. Mute(Head(out[r])) /\ peer[r] \in PeerRec
        BY <1>0, <1>2, <1>3, <1>16 DEF Mute
      <4>3. q.st \in Early => peer[r].st \in Early
        BY <1>4, <1>6 DEF Heeds, Early
      <4>4. q.st \in Late => peer[r].st \in Late
        BY <1>4, <1>6 DEF Heeds, Late
      <4>5. q.got = peer[r].got /\ q.rcv = peer[r].rcv
        BY <1>4, <1>6 DEF Heeds
      <4>6. sock[i].st = "ESTABLISHED" => q.st \in Early
        BY <1>4, <1>6, <3>2 DEF Session, Heeds, Early
      <4>. QED
        BY <1>0, <4>1, <4>2, <4>3, <4>4, <4>5, <4>6, OutwardTakes
    <3>. QED
      BY <1>6, <1>15, <1>16, <2>1, <2>2, <3>1, <3>2
  <2>3. CASE x = Over /\ q.st \in {"closing", "last"} /\ q.una = 1 + q.sent + q.fin
    <3>1. Over \in PeerRec /\ Over.st = "done" /\ Over.sent = 0 /\ Over.fin = 0
      BY Nothing, HostsAre
    <3>2. Tally(Over)
      BY <3>1 DEF Tally
    <3>3. Takes(r, Over)
      BY <1>9, <2>1, <2>3, <3>1, <3>2
    <3>4. ASSUME NEW i \in Socks(r), Session(sock[i], peer[r], Line(r), Away(r, i)),
                 Utters(sock[i], peer[r], Head(out[r]))
          PROVE  FALSE
      <4>1. sock[i] \in SockRec
        BY ViewTyped
      <4>2. PICK s \in SockRec : s = sock[i]
        BY <4>1
      <4>3. Session(s, o, Line(r), Away(r, i)) /\ Utters(s, o, h)
        BY <1>2, <1>4, <3>4, <4>2
      <4>4. Heeds(o, q, h.seg)
        BY <1>3, <1>6
      <4>. QED
        BY <1>8, <2>3, <4>3, <4>4, FinUnheard
    <3>5. g.flag # "SYN" /\ g.flag # "SYNACK"
      BY <1>16
    <3>. QED
      BY <1>10, <1>11, <3>3, <3>4, <3>5, HearsFlow
  <2>. QED
    BY <2>1, <2>2, <2>3
<1>17. CASE p.st \in Live /\ g.flag = "ACK" /\ g.data # <<>>
  <2>1. PICK a \in Int, d \in Seq(Int) : a = q.rcv + Len(g.data) /\ d = q.got \o g.data
    <3>1. g.data \in Seq(Int) /\ q.rcv \in Int /\ q.got \in Seq(Int)
      BY SegFields, PeerFields
    <3>2. q.rcv + Len(g.data) \in Int
      BY <3>1
    <3>3. q.got \o g.data \in Seq(Int)
      BY <3>1
    <3>. QED
      BY <3>2, <3>3
  <2>2. PICK y \in PeerRec : /\ y = [q EXCEPT !.rcv = a, !.got = d] /\ y.st = q.st /\ y.port = q.port
                             /\ y.sent = q.sent /\ y.fin = q.fin /\ y.una = q.una /\ y.win = q.win
                             /\ y.rcv = a /\ y.got = d
    <3>1. LET y == [q EXCEPT !.rcv = a, !.got = d]
          IN  /\ y \in PeerRec /\ y.st = q.st /\ y.port = q.port
              /\ y.sent = q.sent /\ y.fin = q.fin /\ y.una = q.una /\ y.win = q.win
              /\ y.rcv = a /\ y.got = d
      BY Zenon DEF PeerRec
    <3>. QED
      BY <3>1
  <2>3. PICK x \in {y, q} : answer(x, "ACK") /\ (x = y \/ g.seq # q.rcv)
    BY <1>2, <1>3, <1>4, <1>5, <1>6, <1>17, <2>1, <2>2, HostsAre, ZenonT(30) DEF PeerReceive
  <2>4. /\ x \in PeerRec /\ x.st = q.st /\ x.port = q.port /\ x.sent = q.sent /\ x.fin = q.fin
        /\ x.una = q.una /\ x.win = q.win
    BY <2>2, <2>3
  <2>5. Tally(x)
    <3>1. q.st \in Live
      BY <1>6, <1>17
    <3>. QED
      BY <1>6, <1>8, <2>4, <3>1, TallyHeeds
  <2>6. ASSUME NEW i \in Socks(r), Session(sock[i], peer[r], Line(r), Away(r, i)),
               Utters(sock[i], peer[r], Head(out[r]))
        PROVE  /\ sock[i].st = "ESTABLISHED" => x.st \in Early
               /\ Outward(sock[i], peer[r], out[r], Answer(r), Leaving(i)) =>
                     Outward(sock[i], x, Tail(out[r]), Answer(r), Leaving(i))
    <3>1. sock[i] \in SockRec /\ out[r] \in Seq(Wire)
      BY ViewTyped
    <3>2. ~Mute(Head(out[r])) /\ peer[r] \in PeerRec /\ g.data = Head(out[r]).seg.data /\ g.seq = Head(out[r]).seg.seq
      BY <1>0, <1>2, <1>3, <1>17 DEF Mute
    <3>3. peer[r].st \in Early \cup Late
      BY <2>6 DEF Session, Early, Late, Live
    <3>4. peer[r].st \in Early => x.st \in Early
      BY <1>4, <1>6, <2>4 DEF Heeds, Early
    <3>5. q.got = peer[r].got /\ q.rcv = peer[r].rcv
      BY <1>4, <1>6 DEF Heeds
    <3>6. sock[i].st = "ESTABLISHED" => x.st \in Early
      BY <2>6, <3>4 DEF Session, Early
    <3>7. ASSUME Outward(sock[i], peer[r], out[r], Answer(r), Leaving(i))
          PROVE  Outward(sock[i], x, Tail(out[r]), Answer(r), Leaving(i))
      <4>1. /\ peer[r].st \notin Late
            /\ peer[r].st \in Early => Head(out[r]).seg.seq = peer[r].rcv
        BY <1>0, <3>1, <3>2, <3>7, OutwardInTurn
      <4>2. peer[r].st \in Early /\ x.st \in Early /\ x = y
        BY <2>3, <3>2, <3>3, <3>4, <3>5, <4>1
      <4>3. /\ x.rcv = peer[r].rcv + Len(Head(out[r]).seg.data)
            /\ x.got = peer[r].got \o Head(out[r]).seg.data
        BY <2>1, <2>2, <3>2, <3>5, <4>2, Zenon
      <4>. QED
        BY <1>0, <2>4, <3>1, <3>2, <3>7, <4>2, <4>3, OutwardGets
    <3>. QED
      BY <3>6, <3>7
  <2>7. x.st \in Live
    BY <1>6, <1>17, <2>4
  <2>. QED
    BY <1>15, <1>17, <2>3, <2>4, <2>5, <2>6, <2>7
<1>18. CASE p.st \in Live /\ g.flag = "FIN"
  <2>0. "closewait" \in PeerStates /\ "closing" \in PeerStates /\ q.st \in Live
    BY <1>6, <1>18 DEF PeerStates, Live
  <2>1. PICK y \in PeerStates, a \in Int :
            /\ a = q.rcv + 1
            /\ y = CASE q.st = "est" -> "closewait" [] q.st = "fin" -> "closing" [] OTHER -> q.st
    BY <2>0, PeerFields
  <2>2. PICK z \in PeerRec : /\ z = [q EXCEPT !.rcv = a, !.st = y] /\ z.st = y /\ z.port = q.port
                             /\ z.sent = q.sent /\ z.fin = q.fin /\ z.una = q.una /\ z.win = q.win
                             /\ z.got = q.got
    <3>1. LET z == [q EXCEPT !.rcv = a, !.st = y]
          IN  /\ z \in PeerRec /\ z.st = y /\ z.port = q.port
              /\ z.sent = q.sent /\ z.fin = q.fin /\ z.una = q.una /\ z.win = q.win
              /\ z.got = q.got
      BY DEF PeerRec
    <3>. QED
      BY <3>1
  <2>3. PICK x \in {z, q} : answer(x, "ACK")
    BY <1>2, <1>3, <1>4, <1>5, <1>6, <1>18, <2>1, <2>2, HostsAre, ZenonT(60) DEF PeerReceive
  <2>4. /\ x \in PeerRec /\ x.port = q.port /\ x.sent = q.sent /\ x.fin = q.fin
        /\ x.una = q.una /\ x.win = q.win /\ x.got = q.got
    BY <2>2, <2>3
  <2>5. \/ x = q
        \/ q.st = "est" /\ x.st = "closewait"
        \/ q.st = "fin" /\ x.st = "closing"
        \/ q.st \in Late /\ x.st = q.st
    <3>1. q.st \in {"est", "fin"} \cup Late
      BY <2>0 DEF Live, Late
    <3>. QED
      BY <2>1, <2>2, <2>3, <3>1
  <2>6. Tally(x)
    BY <1>6, <1>8, <2>0, <2>4, <2>5, TallyHeeds
  <2>7. x.st \in Live
    BY <2>0, <2>5 DEF Live
  <2>8. ASSUME NEW i \in Socks(r), Session(sock[i], peer[r], Line(r), Away(r, i)),
               Utters(sock[i], peer[r], Head(out[r]))
        PROVE  /\ sock[i].st = "ESTABLISHED" => x.st \in Early
               /\ Outward(sock[i], peer[r], out[r], Answer(r), Leaving(i)) =>
                     Outward(sock[i], x, Tail(out[r]), Answer(r), Leaving(i))
    <3>1. sock[i] \in SockRec /\ out[r] \in Seq(Wire)
      BY ViewTyped
    <3>2. Head(out[r]).seg.flag = "FIN" /\ peer[r] \in PeerRec
      BY <1>0, <1>2, <1>3, <1>18
    <3>3. Mute(Head(out[r])) /\ sock[i].st # "ESTABLISHED"
      BY <2>8, <3>2 DEF Utters
    <3>4. x.st \in Early => peer[r].st \in Early /\ x.rcv = peer[r].rcv
      <4>1. x.st \in Early => x = q
        BY <2>5 DEF Early, Late
      <4>. QED
        BY <1>4, <1>6, <4>1 DEF Heeds, Early
    <3>5. x.got = peer[r].got
      BY <1>4, <1>6, <2>4 DEF Heeds
    <3>. QED
      BY <1>0, <2>4, <3>1, <3>2, <3>3, <3>4, <3>5, OutwardTakes
  <2>. QED
    BY <1>15, <1>18, <2>3, <2>4, <2>6, <2>7, <2>8
<1>19. CASE /\ ~(p.st = "closed" /\ g.flag = "SYN" /\ r \in Host) /\ g.flag # "RST"
            /\ ~(p.st = "synsent" /\ g.flag = "SYNACK")
            /\ ~(p.st \in Live /\ g.flag \in {"ACK", "FIN"})
  <2>1. now(p) /\ in' = in
    BY <1>2, <1>3, <1>4, <1>5, <1>6, <1>19, ZenonT(60) DEF PeerReceive
  <2>2. p = o /\ (g.flag \in {"ACK", "FIN"} => o.st # "synrcvd")
    <3>1. "est" \in Live
      BY DEF Live
    <3>. QED
      BY <1>7, <1>19, <3>1
  <2>3. Takes(r, o)
    BY <1>8, <1>9, <2>1, <2>2
  <2>4. ASSUME Link(r) PROVE peer[r].st # "synsent"
    <3>1. peer[r].st = "synsent" => g.flag = "SYNACK"
      BY <1>10, <2>4
    <3>. QED
      BY <1>4, <1>19, <2>2, <3>1
  <2>5. ASSUME NEW i \in Socks(r), Session(sock[i], peer[r], Line(r), Away(r, i)),
               Utters(sock[i], peer[r], Head(out[r]))
        PROVE  /\ Hears(sock[i], peer[r], o, Head(out[r]))
               /\ Outward(sock[i], peer[r], out[r], Answer(r), Leaving(i)) =>
                     Outward(sock[i], o, Tail(out[r]), Answer(r), Leaving(i))
    <3>1. sock[i] \in SockRec /\ out[r] \in Seq(Wire)
      BY ViewTyped
    <3>2. g.flag = "SYN" /\ Head(out[r]).seg.flag = "SYN"
      <4>1. o.st \in {"synrcvd"} \cup Live /\ g.flag \in {"SYN", "ACK", "FIN"}
        BY <1>2, <1>3, <1>4, <2>5 DEF Session, Utters
      <4>. QED
        BY <1>2, <1>3, <1>19, <2>2, <4>1
    <3>3. Mute(Head(out[r]))
      <4>1. Head(out[r]) = Dial(sock[i].port)
        BY <2>5, <3>2 DEF Utters
      <4>. QED
        BY <4>1 DEF Dial, On, Seg, Mute
    <3>4. Hears(sock[i], peer[r], o, Head(out[r]))
      BY <1>4, <2>5, <3>2 DEF Session, Hears, Early
    <3>. QED
      BY <1>0, <1>4, <3>1, <3>3, <3>4, OutwardTakes
  <2>6. \A i \in Socks(r) : Link(r) /\ Opens(sock[i], peer[r], Line(r), Away(r, i)) => o = peer[r] /\ in' = in
    BY <1>4, <2>1
  <2>. QED
    BY <2>3, <2>4, <2>5, <2>6, HearsFlow
<1>. QED
  BY <1>12, <1>13, <1>14, <1>16, <1>17, <1>18, <1>19

\* The initial states, the steps, and what follows for the streams.
LEMMA InitFlow == Init => Flow
<1>. SUFFICES ASSUME Init PROVE Flow
  OBVIOUS
<1>1. /\ sock = [i \in Sock |-> NoSock] /\ list = <<>> /\ queue = <<>>
      /\ th = [t \in Thread |-> User] /\ holds = [t \in Thread |-> {}] /\ rx = Idle
      /\ in = [r \in Remote |-> <<>>] /\ out = [r \in Remote |-> <<>>] /\ peer = [r \in Remote |-> NoPeer]
  BY DEF Init
<1>2. /\ NoSock.mem = "none" /\ NoSock.st = "CLOSED" /\ NoSock.port = -1 /\ NoSock.remote = None /\ NoSock.seq = 0
      /\ Idle.pc = "idle" /\ NoPeer.st = "closed" /\ NoPeer.sent = 0 /\ NoPeer.fin = 0
  BY DEF NoSock, Idle, NoPeer
<1>3. /\ \A i \in Sock : sock[i].st = "CLOSED" /\ sock[i].remote = None /\ sock[i].seq = 0
      /\ \A t \in Thread : th[t].pc = "user" /\ holds[t] = {}
      /\ rx.pc = "idle" /\ DOMAIN queue = {}
      /\ \A r \in Remote : /\ peer[r] = NoPeer /\ in[r] = <<>> /\ out[r] = <<>>
                           /\ peer[r].st = "closed" /\ peer[r].sent = 0 /\ peer[r].fin = 0
  BY <1>1, <1>2, UserIs
<1>4. Steady
  <2>1. OpenListed /\ Blank
    BY <1>3 DEF OpenListed, Blank, Held
  <2>2. Numbers
    BY <1>3 DEF Numbers
  <2>3. Spoken
    BY <1>3 DEF Spoken
  <2>. QED
    BY <2>1, <2>2, <2>3 DEF Steady
<1>5. ASSUME NEW r \in Remote PROVE Link(r)
  <2>1. Socks(r) = {} /\ Half(r) = {} /\ Answer(r) = {} /\ ToSet(out[r]) = {} /\ ToSet(Line(r)) = {}
    <3>1. Socks(r) = {} /\ Half(r) = {} /\ Answer(r) = {}
      BY <1>3, Sizes DEF Socks, Half, Answer
    <3>2. PICK w \in Seq(Wire) : w = <<>> /\ ToSet(w) = {}
      <4>1. <<>> \in Seq(Wire)
        OBVIOUS
      <4>. QED
        BY <4>1, LineSet
    <3>3. Line(r) = <<>> \o <<>>
      BY <1>3 DEF Line
    <3>4. <<>> \o <<>> = <<>>
      OBVIOUS
    <3>. QED
      BY <1>3, <3>1, <3>2, <3>3, <3>4
  <2>2. Roles(r)
    BY <1>3, <2>1 DEF Roles
  <2>. QED
    BY <1>3, <2>1, <2>2 DEF Link, Asking, Greeting
<1>. QED
  BY <1>4, <1>5 DEF Flow

\* Nothing changes.
LEMMA StutterFlow ==
    ASSUME Flow, UNCHANGED vars
    PROVE  Flow'
<1>1. /\ sock' = sock /\ list' = list /\ queue' = queue /\ th' = th /\ holds' = holds /\ rx' = rx
      /\ in' = in /\ out' = out /\ peer' = peer /\ inTrouble' = inTrouble /\ outTrouble' = outTrouble
  BY DEF vars, kernel, net, well
<1>2. Steady'
  BY <1>1 DEF Flow, Steady, OpenListed, Blank, Numbers, Spoken, Held, Listed
<1>3. ASSUME NEW r \in Remote, Good(r)' PROVE Link(r)'
  <2>1. Good(r) /\ Link(r)
    BY <1>1, <1>3 DEF Good, Flow
  <2>2. KernelKept /\ Growing
    BY <1>1 DEF KernelKept, Growing
  <2>3. HalfKept(r)
    BY <2>1, <2>2, KernelKeeps
  <2>. QED
    BY <1>1, <2>1, <2>2, <2>3, Untouched DEF SameOut
<1>. QED
  BY <1>2, <1>3 DEF Flow

\* Every step.
LEMMA NextFlow == Inv /\ Inv' /\ Flow /\ [Next]_vars => Flow'
<1>. SUFFICES ASSUME Inv, Inv', Flow, [Next]_vars PROVE Flow'
  OBVIOUS
<1>1. CASE UNCHANGED vars
  BY <1>1, StutterFlow
<1>2. ASSUME NEW t \in Thread, Call(t) PROVE Flow'
  <2>1. CASE Bind(t) \/ Listen(t) \/ Accept(t)
    BY <2>1, BindFlow, ListenFlow, AcceptFlow
  <2>2. CASE \E r \in Host : Connect(t, r)
    BY <2>2, ConnectFlow DEF Remote
  <2>3. ASSUME NEW i \in Sock,
               Recv(t, i) \/ Send(t, i) \/ CloseListener(t, i) \/ CloseClosed(t, i) \/ Close(t, i)
        PROVE  Flow'
    BY <2>3, RecvFlow, SendFlow, CloseListenerFlow, CloseClosedFlow, CloseFlow
  <2>. QED
    BY <1>2, <2>1, <2>2, <2>3 DEF Call
<1>3. ASSUME NEW t \in Thread, Continue(t) PROVE Flow'
  BY <1>3, ConnectTestFlow, AcceptTestFlow, RecvTestFlow, TransmitFlow DEF Continue
<1>4. ASSUME NEW r \in Remote, RxTake(r) PROVE Flow'
  BY <1>4, RxTakeFlow
<1>5. CASE TcpInput
  BY <1>5, InSynSentFlow, InListenSynFlow, InListenAckFlow, InEstablishedFlow, InFinWaitFlow,
     InClosedFlow, RxReplyFlow, RxDestroyFlow DEF TcpInput
<1>6. ASSUME NEW r \in Remote, Elsewhere(r) PROVE Flow'
  BY <1>6, PeerConnectFlow, PeerSendFlow, PeerProbeFlow, PeerCloseFlow, PeerRetryFlow, PeerReceiveFlow
     DEF Elsewhere
<1>7. ASSUME NEW r \in Remote, Fault(r) PROVE Flow'
  BY <1>7, FaultFlow
<1>. QED
  BY <1>1, <1>2, <1>3, <1>4, <1>5, <1>6, <1>7 DEF Next, Receive

\* Coming is what is on the line to us.
LEMMA ComingIs ==
    ASSUME Inv, NEW r \in Remote
    PROVE  Coming(r) = Bytes(Line(r))
<1>1. /\ Line(r) \in Seq(Wire) /\ in[r] \in Seq(Wire)
      /\ ~(rx.pc = "input" /\ rx.from = r) => Line(r) = in[r]
      /\ rx.pc = "input" /\ rx.from = r =>
            /\ Line(r) # <<>> /\ Head(Line(r)) = On(rx.port, rx.seg) /\ Tail(Line(r)) = in[r]
  BY InvIs, LineIs
<1>2. Bytes(in[r]) \in Seq(Int)
  BY <1>1, BytesTyped
<1>3. CASE rx.pc = "input" /\ rx.from = r
  <2>1. On(rx.port, rx.seg).seg = rx.seg
    BY InvIs, RxWire
  <2>2. Bytes(Line(r)) = Head(Line(r)).seg.data \o Bytes(Tail(Line(r)))
    BY <1>1, <1>3, BytesHead
  <2>. QED
    BY <1>1, <1>3, <2>1, <2>2 DEF Coming
<1>4. CASE ~(rx.pc = "input" /\ rx.from = r)
  <2>1. <<>> \o Bytes(in[r]) = Bytes(in[r])
    BY <1>2
  <2>. QED
    BY <1>1, <1>4, <2>1, Zenon DEF Coming
<1>. QED
  BY <1>3, <1>4

\* A connected socket has its host.
LEMMA ConnectedTo ==
    ASSUME Inv, Flow, NEW i \in Sock, sock[i].st \in {"ESTABLISHED", "FIN_WAIT_1"}
    PROVE  /\ sock[i].remote \in Remote /\ i \in Socks(sock[i].remote)
           /\ Good(sock[i].remote) => Tracks(sock[i].remote, i)
<1>1. sock[i].remote \in Remote \cup {None}
  BY InvIs, SockFields
<1>2. sock[i].remote # None
  BY InvIs DEF Modes
<1>3. sock[i].remote \in Remote /\ i \in Socks(sock[i].remote)
  BY <1>1, <1>2 DEF Socks
<1>4. Good(sock[i].remote) => Link(sock[i].remote)
  BY <1>3, Zenon DEF Flow
<1>. QED
  BY <1>3, <1>4, Zenon DEF Link

\* The stream to us,
LEMMA InFlows ==
    ASSUME Inv, Flow, NEW i \in Sock, sock[i].st = "ESTABLISHED", sock[i].remote \notin inTrouble
    PROVE  sock[i].read \o Content(sock[i]) \o Coming(sock[i].remote) = Upto(peer[sock[i].remote].sent)
<1>0. Good(sock[i].remote)
  BY DEF Good
<1>1. sock[i].remote \in Remote /\ Tracks(sock[i].remote, i)
  BY <1>0, ConnectedTo
<1>2. PICK r \in Remote : r = sock[i].remote
  BY <1>1
<1>3. Inward(sock[i], peer[r], Line(r), Away(r, i))
  BY <1>1, <1>2 DEF Tracks
<1>4. sock[i] \in SockRec /\ peer[r] \in PeerRec
  BY ViewTyped
<1>5. /\ Span(sock[i].read, 0, Len(sock[i].read))
      /\ Span(Content(sock[i]), Len(sock[i].read), Len(sock[i].read) + Used(sock[i]))
      /\ Span(Bytes(Line(r)), Len(sock[i].read) + Used(sock[i]), peer[r].sent)
  BY <1>3 DEF Inward
<1>6. Len(sock[i].read) \in Int /\ Len(sock[i].read) + Used(sock[i]) \in Int /\ peer[r].sent \in Int
  <2>1. Len(sock[i].read) \in Nat /\ Used(sock[i]) \in Nat
    BY <1>4, SockNumbers
  <2>2. peer[r].sent \in Int
    BY <1>4, PeerNumbers
  <2>. QED
    BY <2>1, <2>2
<1>7. PICK a \in Int, b \in Int, c \in Int :
          a = Len(sock[i].read) /\ b = Len(sock[i].read) + Used(sock[i]) /\ c = peer[r].sent
  BY <1>6
<1>8. Span(sock[i].read \o Content(sock[i]), 0, b)
  <2>1. Span(sock[i].read, 0, a) /\ Span(Content(sock[i]), a, b)
    BY <1>5, <1>7
  <2>. QED
    BY <2>1, SpanJoin
<1>9. Span(sock[i].read \o Content(sock[i]) \o Bytes(Line(r)), 0, c)
  <2>1. Span(Bytes(Line(r)), b, c)
    BY <1>5, <1>7
  <2>. QED
    BY <1>8, <2>1, SpanJoin
<1>10. sock[i].read \o Content(sock[i]) \o Bytes(Line(r)) = Upto(c)
  BY <1>9, SpanUpto
<1>. QED
  BY <1>2, <1>7, <1>10, ComingIs

\* and the one from us.
LEMMA OutFlows ==
    ASSUME Inv, Flow, NEW i \in Sock, sock[i].st \in {"ESTABLISHED", "FIN_WAIT_1"}, sock[i].remote \notin outTrouble
    PROVE  \E d \in Going(i) : peer[sock[i].remote].got \o Bytes(out[sock[i].remote]) \o d = Upto(sock[i].wrote)
<1>0. Good(sock[i].remote)
  BY DEF Good
<1>1. sock[i].remote \in Remote /\ Tracks(sock[i].remote, i)
  BY <1>0, ConnectedTo
<1>2. PICK r \in Remote : r = sock[i].remote
  BY <1>1
<1>3. Outward(sock[i], peer[r], out[r], Answer(r), Leaving(i))
  BY <1>1, <1>2 DEF Tracks
<1>4. sock[i] \in SockRec /\ peer[r] \in PeerRec /\ out[r] \in Seq(Wire) /\ Leaving(i) \in SUBSET Wire
  BY ViewTyped
<1>5. /\ Sent(peer[r], out[r]) \in Nat /\ Len(peer[r].got) \in Nat
  BY <1>4, SentTyped, PeerNumbers
<1>6. PICK a \in Int, b \in Int : a = Len(peer[r].got) /\ b = Sent(peer[r], out[r])
  BY <1>5
<1>7. Span(peer[r].got \o Bytes(out[r]), 0, b)
  <2>1. Span(peer[r].got, 0, a) /\ Span(Bytes(out[r]), a, b)
    BY <1>3, <1>6 DEF Outward
  <2>. QED
    BY <2>1, SpanJoin
<1>8. CASE \A z \in Leaving(i) : Mute(z)
  <2>1. sock[i].wrote = b
    BY <1>3, <1>6, <1>8 DEF Outward
  <2>2. Span(peer[r].got \o Bytes(out[r]) \o <<>>, 0, b)
    BY <1>7, SpanEmpty, SpanJoin
  <2>3. peer[r].got \o Bytes(out[r]) \o <<>> = Upto(b)
    BY <2>2, SpanUpto
  <2>4. <<>> \in Going(i)
    BY DEF Going
  <2>. QED
    BY <1>2, <2>1, <2>3, <2>4
<1>9. ASSUME NEW z \in Leaving(i), ~Mute(z)
      PROVE  \E d \in Going(i) : peer[sock[i].remote].got \o Bytes(out[sock[i].remote]) \o d = Upto(sock[i].wrote)
  <2>1. z.seg.data = <<b + 1>> /\ sock[i].wrote = b + 1
    BY <1>3, <1>6, <1>9 DEF Outward
  <2>2. Span(<<b + 1>>, b, b + 1)
    BY DEF Span
  <2>3. PICK c \in Int : c = b + 1
    OBVIOUS
  <2>4. Span(peer[r].got \o Bytes(out[r]) \o <<b + 1>>, 0, c)
    BY <1>7, <2>2, <2>3, SpanJoin
  <2>5. peer[r].got \o Bytes(out[r]) \o <<b + 1>> = Upto(c)
    BY <2>4, SpanUpto
  <2>6. PICK t \in Thread : th[t].pc = "out" /\ th[t].s = i /\ z.seg = th[t].seg
    BY <1>9, InvIs, LeavingIs
  <2>7. th[t].seg.data \in Going(i)
    BY <2>6 DEF Going
  <2>. QED
    BY <1>2, <2>1, <2>3, <2>5, <2>6, <2>7
<1>. QED
  BY <1>8, <1>9

\* Both streams of a connection are whole and in order.  What a program has read
\* (af_inet_recvfrom), what is in the receive ring and what is on the wire is what
\* the host has sent, byte for byte, as long as the network is good, no window
\* was promised that is not there and nobody probed a full ring; and what a host
\* has got, what is on the wire and the byte tcp_send_stream is about to send is
\* what the program has written, as long as the network is good, no transmission
\* failed and no data crossed ours: tcp_input never finds the ring without room
\* for a segment it was allowed, and never takes one twice.
THEOREM StreamsStayIntact == Spec => []StreamsIntact
<1>1. Inv /\ Flow => StreamsIntact
  BY InFlows, OutFlows DEF StreamsIntact, InIntact, OutIntact
<1>2. Init => Inv /\ Flow
  BY InitInv, InitFlow
<1>3. Inv /\ Flow /\ [Next]_vars => Inv' /\ Flow'
  BY NextInv, NextFlow
<1>. QED
  BY <1>1, <1>2, <1>3, PTL DEF Spec
=============================================================================
