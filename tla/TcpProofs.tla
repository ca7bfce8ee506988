----------------------------- MODULE TcpProofs -----------------------------
(***************************************************************************)
(* Proofs about Tcp: sockets are found and freed right, and nobody sleeps  *)
(* through an event, for any number of programs, sockets and remote hosts. *)
(*                                                                         *)
(* The argument is about who can reach a socket: the list, the queue of    *)
(* the listener, the program that has it open, and the receive thread      *)
(* (Objects).  A socket that a program may free while it is in the list is *)
(* one the receive thread cannot be at, because nothing has ever been sent *)
(* to its remote host (Unsaid, Unheard).                                   *)
(***************************************************************************)
EXTENDS Tcp, SequenceTheorems, WellFoundedInduction, NaturalsInduction, TLAPS

-----------------------------------------------------------------------------
(* Types.                                                                  *)

Flag == {"none", "SYN", "SYNACK", "ACK", "FIN", "RST"}
SegRec == [flag : Flag, seq : Int, ack : Int, win : Int, data : Seq(Int)]
Wire == [port : Int, seg : SegRec]
States == {"CLOSED", "SYN_SENT", "LISTEN", "ESTABLISHED", "FIN_WAIT_1"}
SockRec ==
    [mem : {"none", "live", "freed"}, st : States, port : Int, remote : Remote \cup {None},
     seq : Int, ack : Int, buf : [0 .. Ring - 1 -> Int], head : 0 .. Ring - 1, tail : 0 .. Ring - 1,
     read : Seq(Int), wrote : Int]
QueueRec == [r : Remote, seq : Int, s : Sock \cup {None}]
CallRec ==
    [pc : {"user", "test", "asleep", "out"},
     op : {"none", "connect", "accept", "recv", "send", "close"},
     s : Sock \cup {None}, seg : SegRec]
RxRec ==
    [pc : {"idle", "input", "reply", "last", "unlink"}, s : Sock \cup {None},
     from : Remote \cup {None}, seg : SegRec, port : Int]
PeerStates == {"closed", "synsent", "synrcvd", "done"} \cup Live
PeerRec ==
    [st : PeerStates, port : Int, sent : Int, fin : Int,
     una : Int, win : Int, rcv : Int, got : Seq(Int)]

KernelTyped == sock \in [Sock -> SockRec] /\ list \in Seq(Sock) /\ queue \in Seq(QueueRec)
CallsTyped ==
    /\ th \in [Thread -> CallRec] /\ holds \in [Thread -> SUBSET Sock] /\ rx \in RxRec
NetTyped ==
    /\ in \in [Remote -> Seq(Wire)] /\ out \in [Remote -> Seq(Wire)] /\ peer \in [Remote -> PeerRec]
WellTyped == faults \in 0 .. MaxFault /\ inTrouble \in SUBSET Remote /\ outTrouble \in SUBSET Remote
Types == KernelTyped /\ CallsTyped /\ NetTyped /\ WellTyped

-----------------------------------------------------------------------------
(* Who can reach a socket.                                                 *)

Queued(i) == \E k \in DOMAIN queue : queue[k].s = i
Held(i) == \E t \in Thread : i \in holds[t]

\* The list and the queue have a socket once.
Once ==
    /\ \A k, l \in DOMAIN list : list[k] = list[l] => k = l
    /\ \A k, l \in DOMAIN queue : queue[k].s # None /\ queue[k].s = queue[l].s => k = l
\* Blocks that were never allocated are nowhere, and those of the list are live.
Blocks ==
    /\ \A i \in Sock : sock[i].mem = "none" =>
          /\ sock[i].port = -1 /\ sock[i].remote = None /\ sock[i].st = "CLOSED"
    /\ \A i \in Listed : sock[i].mem = "live"
\* The programs serve, with one listener, or connect, each to a host of its own.
Modes ==
    /\ \A i \in Sock : sock[i].mem # "none" => sock[i].port >= 0
    /\ \A i, j \in Sock : sock[i].port = WellKnown => sock[j].port \in {-1, WellKnown}
    /\ \A i, j \in Sock :
          /\ sock[i].mem # "none" /\ sock[j].mem # "none" /\ sock[i].remote = sock[j].remote
          /\ sock[i].port # WellKnown \/ sock[i].remote = None
          => i = j
    /\ \A i \in Sock : sock[i].st = "LISTEN" => sock[i].remote = None
    /\ \A i \in Sock : sock[i].remote = None =>
          sock[i].st \in {"LISTEN", "CLOSED"} /\ sock[i].port \in {-1, WellKnown}
\* One connection to a remote host is open at a time.
OneEach ==
    \A i, j \in Listed :
        sock[i].st # "CLOSED" /\ sock[j].st # "CLOSED" /\ sock[i].remote = sock[j].remote => i = j
\* A session of the queue is open, and nobody has it yet.
QueueOk ==
    \A i \in Sock : Queued(i) => sock[i].mem = "live" /\ sock[i].st = "ESTABLISHED" /\ ~Held(i)
HoldsOk ==
    /\ \A t, u \in Thread : t # u => holds[t] \cap holds[u] = {}
    /\ \A t \in Thread : \A i \in holds[t] :
          /\ sock[i].mem = "live" /\ sock[i].st # "FIN_WAIT_1"
          /\ sock[i].port = WellKnown /\ sock[i].st = "CLOSED" => sock[i].remote = None
\* A socket that waits for the other side's FIN is the receive thread's.
FinOk == \A i \in Sock : sock[i].st = "FIN_WAIT_1" => sock[i].mem = "live" /\ ~Held(i) /\ ~Queued(i)
CallOk(t) ==
    LET c == th[t]
    IN  /\ c.pc = "user" => c.s = None
        /\ c.pc \in {"test", "asleep"} =>
              /\ c.op \in {"connect", "accept", "recv"} /\ c.s \in holds[t]
              /\ c.op = "accept" => sock[c.s].st = "LISTEN"
        /\ c.pc = "out" =>
              /\ c.op \in {"connect", "send", "close"} /\ c.s \in Sock /\ sock[c.s].remote # None
              /\ c.op # "close" => c.s \in holds[t]
              /\ c.op = "connect" => sock[c.s].st = "SYN_SENT" /\ sock[c.s].port # WellKnown
              /\ c.op = "send" => sock[c.s].st = "ESTABLISHED"
              /\ c.op = "close" =>
                    /\ sock[c.s].mem # "none" /\ sock[c.s].st \in {"FIN_WAIT_1", "CLOSED"}
                    /\ ~Held(c.s) /\ ~Queued(c.s)
ThreadsOk == \A t \in Thread : CallOk(t)
RxOk ==
    /\ rx.pc = "idle" => rx.s = None /\ rx.from = None
    /\ rx.pc # "idle" =>
          /\ rx.s \in Sock /\ sock[rx.s].mem = "live" /\ rx.from # None
          /\ sock[rx.s].st = "LISTEN" \/ sock[rx.s].remote = rx.from
    /\ rx.pc = "input" /\ sock[rx.s].st = "LISTEN" =>
          \A j \in Listed : sock[j].st # "LISTEN" => sock[j].remote # rx.from
    /\ rx.pc \in {"last", "unlink"} =>
          sock[rx.s].st = "CLOSED" /\ ~Held(rx.s) /\ ~Queued(rx.s)

Objects == Once /\ Blocks /\ Modes /\ OneEach /\ QueueOk /\ HoldsOk /\ FinOk /\ ThreadsOk /\ RxOk

-----------------------------------------------------------------------------
(* Remote hosts nothing has been said to.                                  *)

Silent(r) == in[r] = <<>> /\ out[r] = <<>> /\ rx.from # r
Unsaid == \A r \in Remote : peer[r].st = "closed" /\ (\A i \in Sock : sock[i].remote # r) => Silent(r)
\* A program that connects, before its SYN has left or because it could not.
Unheard ==
    \A t \in Thread : \A i \in holds[t] :
        /\ sock[i].remote # None
        /\ sock[i].st = "CLOSED" \/ (th[t].pc = "out" /\ th[t].op = "connect" /\ th[t].s = i)
        => Silent(sock[i].remote) /\ peer[sock[i].remote].st = "closed"
Quietness == Unsaid /\ Unheard

Inv == Types /\ Objects /\ Quietness /\ Attended

-----------------------------------------------------------------------------
(* Facts about the operators.                                              *)

LEMMA Sizes ==
    /\ Ring \in Nat /\ Ring > 1 /\ Offer \in Int /\ Notice \in Int /\ MaxSock \in Nat /\ MaxFault \in Nat
    /\ None \notin Remote /\ None \notin Sock /\ None = 0 /\ WellKnown = 0
BY TcpAssumption, RemoteAssumption DEF None, Sock, WellKnown

\* A nonempty set of natural numbers has a least element, and Min is it.
LEMMA MinIsIn ==
    ASSUME NEW S \in SUBSET Nat, S # {}
    PROVE  Min(S) \in S /\ \A i \in S : Min(S) <= i
<1>. DEFINE R == OpToRel(<, Nat)
<1>1. PICK x \in S : \A y \in S : ~(<<y, x>> \in R)
  BY NatLessThanWellFounded, WFMin, Zenon
<1>2. ASSUME NEW y \in S PROVE x <= y
  <2>. SUFFICES ASSUME y < x PROVE FALSE
    OBVIOUS
  <2>1. <<y, x>> \in {ss \in Nat \X Nat : ss[1] < ss[2]}
    OBVIOUS
  <2>. QED
    BY <1>1, <2>1 DEF OpToRel
<1>. QED
  BY <1>2 DEF Min

\* A nonempty set of places of a sequence has a last one, and Max is it.
LEMMA MaxIsIn ==
    ASSUME NEW n \in Nat, NEW S \in SUBSET (1 .. n), S # {}
    PROVE  Max(S) \in S
<1>. DEFINE T == {n - i : i \in S}
<1>1. T \in SUBSET Nat /\ T # {}
  OBVIOUS
<1>2. Min(T) \in T /\ \A i \in T : Min(T) <= i
  BY <1>1, MinIsIn
<1>3. PICK x \in S : Min(T) = n - x
  BY <1>2
<1>4. ASSUME NEW y \in S PROVE x >= y
  <2>1. n - y \in T
    OBVIOUS
  <2>2. Min(T) <= n - y
    BY <1>2, <2>1
  <2>3. n - x <= n - y
    BY <1>3, <2>2
  <2>4. x \in Int /\ y \in Int
    OBVIOUS
  <2>. QED
    BY <2>3, <2>4
<1>. QED
  BY <1>4 DEF Max

LEMMA SegTyped ==
    ASSUME NEW f \in Flag, NEW s \in Int, NEW a \in Int, NEW w \in Int, NEW d \in Seq(Int)
    PROVE  LET g == Seg(f, s, a, w, d)
           IN  g \in SegRec /\ g.flag = f /\ g.seq = s /\ g.ack = a /\ g.data = d
BY DEF Seg, SegRec

LEMMA SegFields ==
    ASSUME NEW g \in SegRec
    PROVE  g.flag \in Flag /\ g.seq \in Int /\ g.ack \in Int /\ g.win \in Int /\ g.data \in Seq(Int)
BY DEF SegRec

LEMMA SockFields ==
    ASSUME NEW s \in SockRec
    PROVE  /\ s.mem \in {"none", "live", "freed"} /\ s.st \in States /\ s.port \in Int
           /\ s.remote \in Remote \cup {None} /\ s.seq \in Int /\ s.ack \in Int
           /\ s.buf \in [0 .. Ring - 1 -> Int] /\ s.head \in 0 .. Ring - 1 /\ s.tail \in 0 .. Ring - 1
           /\ s.read \in Seq(Int) /\ s.wrote \in Int
BY DEF SockRec

\* The empty parts.
LEMMA Nothing ==
    /\ NoSeg \in SegRec /\ NoSock \in SockRec /\ User \in CallRec /\ Idle \in RxRec
    /\ NoPeer \in PeerRec /\ Over \in PeerRec
<1>1. NoSeg \in SegRec
  BY DEF NoSeg, Seg, SegRec, Flag
<1>2. NoSock \in SockRec
  <2>1. [k \in 0 .. Ring - 1 |-> 0] \in [0 .. Ring - 1 -> Int] /\ <<>> \in Seq(Int)
    OBVIOUS
  <2>. QED
    BY <2>1, Sizes DEF NoSock, SockRec, States
<1>3. User \in CallRec /\ Idle \in RxRec
  BY <1>1 DEF User, Idle, CallRec, RxRec
<1>4. NoPeer \in PeerRec
  BY DEF NoPeer, PeerRec, PeerStates
<1>5. Over \in PeerRec
  BY <1>4 DEF Over, PeerRec, PeerStates
<1>. QED
  BY <1>1, <1>2, <1>3, <1>4, <1>5

\* The ring: how much it holds, and what storing and reading leaves.
LEMMA RingTyped ==
    ASSUME NEW s \in SockRec
    PROVE  Used(s) \in 0 .. Ring - 1 /\ Room(s) \in 0 .. Ring - 1
           /\ (Used(s) = 0 <=> s.head = s.tail)
<1>1. s.head \in 0 .. Ring - 1 /\ s.tail \in 0 .. Ring - 1 /\ Ring \in Nat
  BY SockFields, Sizes
<1>. QED
  BY <1>1 DEF Used, Room

LEMMA Within ==
    ASSUME NEW n \in Int
    PROVE  n % Ring \in 0 .. Ring - 1
<1>1. ASSUME NEW w \in Nat, w > 0 PROVE n % w \in 0 .. w - 1
  BY <1>1
<1>. QED
  BY <1>1, Sizes

StoredAs(s, d, a, q) == [Stored(s, d) EXCEPT !.ack = a, !.seq = q]

LEMMA StoredTyped ==
    ASSUME NEW s \in SockRec, NEW d \in Seq(Int), NEW a \in Int, NEW q \in Int
    PROVE  LET x == StoredAs(s, d, a, q)
           IN  /\ x \in SockRec /\ x.mem = s.mem /\ x.st = s.st /\ x.port = s.port
               /\ x.remote = s.remote
<1>. DEFINE b == [k \in 0 .. Ring - 1 |->
                     LET n == (k - s.head) % Ring IN IF n < Len(d) THEN d[n + 1] ELSE s.buf[k]]
            h == (s.head + Len(d)) % Ring
<1>1. s.head \in 0 .. Ring - 1 /\ s.buf \in [0 .. Ring - 1 -> Int] /\ Len(d) \in Nat /\ Ring \in Nat
  BY SockFields, Sizes
<1>2. h \in 0 .. Ring - 1
  <2>1. s.head + Len(d) \in Int
    BY <1>1
  <2>. QED
    BY <2>1, Within
<1>3. b \in [0 .. Ring - 1 -> Int]
  <2>1. ASSUME NEW k \in 0 .. Ring - 1 PROVE b[k] \in Int
    <3>0. k - s.head \in Int
      BY <1>1
    <3>1. (k - s.head) % Ring \in 0 .. Ring - 1
      BY <3>0, Within
    <3>2. PICK n \in 0 .. Ring - 1 : n = (k - s.head) % Ring
      BY <3>1
    <3>3. b[k] = IF n < Len(d) THEN d[n + 1] ELSE s.buf[k]
      BY <3>2
    <3>. QED
      BY <1>1, <3>3
  <2>. QED
    BY <2>1
<1>4. Stored(s, d) = [s EXCEPT !.buf = b, !.head = h]
  BY DEF Stored
<1>. HIDE DEF b, h
<1>5. [s EXCEPT !.buf = b, !.head = h] \in SockRec
  BY <1>2, <1>3 DEF SockRec
<1>6. PICK y \in SockRec : y = Stored(s, d)
  BY <1>4, <1>5
<1>7. y.mem = s.mem /\ y.st = s.st /\ y.port = s.port /\ y.remote = s.remote
  BY <1>4, <1>6 DEF SockRec
<1>8. [y EXCEPT !.ack = a, !.seq = q] \in SockRec
  BY DEF SockRec
<1>9. LET x == [y EXCEPT !.ack = a, !.seq = q]
      IN  x.mem = y.mem /\ x.st = y.st /\ x.port = y.port /\ x.remote = y.remote
  BY DEF SockRec
<1>. QED
  BY <1>6, <1>7, <1>8, <1>9 DEF StoredAs

LEMMA ReadTyped ==
    ASSUME NEW s \in SockRec, NEW n \in 1 .. Used(s)
    PROVE  /\ (s.tail + n) % Ring \in 0 .. Ring - 1
           /\ [k \in 0 .. Ring - 1 |-> IF (k - s.tail) % Ring < n THEN 0 ELSE s.buf[k]]
                 \in [0 .. Ring - 1 -> Int]
           /\ s.read \o SubSeq(Content(s), 1, n) \in Seq(Int)
<1>1. /\ s.tail \in 0 .. Ring - 1 /\ s.buf \in [0 .. Ring - 1 -> Int] /\ s.read \in Seq(Int)
      /\ Used(s) \in 0 .. Ring - 1 /\ Ring \in Nat
  BY SockFields, RingTyped, Sizes
<1>2. (s.tail + n) % Ring \in 0 .. Ring - 1
  <2>1. s.tail + n \in Int
    BY <1>1
  <2>. QED
    BY <2>1, Within
<1>3. [k \in 0 .. Ring - 1 |-> IF (k - s.tail) % Ring < n THEN 0 ELSE s.buf[k]]
          \in [0 .. Ring - 1 -> Int]
  BY <1>1
<1>4. Content(s) \in Seq(Int) /\ Len(Content(s)) = Used(s)
  <2>1. ASSUME NEW k \in 1 .. Used(s) PROVE s.buf[(s.tail + k - 1) % Ring] \in Int
    <3>1. s.tail + k - 1 \in Int
      BY <1>1
    <3>2. (s.tail + k - 1) % Ring \in 0 .. Ring - 1
      BY <3>1, Within
    <3>. QED
      BY <1>1, <3>2
  <2>2. Content(s) \in [1 .. Used(s) -> Int]
    BY <2>1 DEF Content
  <2>3. Used(s) \in Nat
    BY <1>1
  <2>4. PICK c, u : c = Content(s) /\ u = Used(s)
    OBVIOUS
  <2>5. c \in Seq(Int) /\ Len(c) = u
    BY <2>2, <2>3, <2>4
  <2>. QED
    BY <2>4, <2>5
<1>5. SubSeq(Content(s), 1, n) \in Seq(Int)
  BY <1>1, <1>4
<1>. QED
  BY <1>1, <1>2, <1>3, <1>5

\* Taking an element out of a sequence, and putting one before it.
LEMMA Cut ==
    ASSUME NEW T, NEW s \in Seq(T), NEW k \in 1 .. Len(s)
    PROVE  /\ RemoveAt(s, k) \in Seq(T) /\ Len(RemoveAt(s, k)) = Len(s) - 1
           /\ \A l \in 1 .. Len(s) - 1 : RemoveAt(s, k)[l] = IF l < k THEN s[l] ELSE s[l + 1]
<1>1. /\ SubSeq(s, 1, k - 1) \in Seq(T) /\ Len(SubSeq(s, 1, k - 1)) = k - 1
      /\ \A l \in 1 .. k - 1 : SubSeq(s, 1, k - 1)[l] = s[l]
  BY SubSeqProperties
<1>2. /\ SubSeq(s, k + 1, Len(s)) \in Seq(T) /\ Len(SubSeq(s, k + 1, Len(s))) = Len(s) - k
      /\ \A l \in 1 .. Len(s) - k : SubSeq(s, k + 1, Len(s))[l] = s[l + k]
  BY SubSeqProperties
<1>3. PICK a \in Seq(T), b \in Seq(T) :
          /\ a = SubSeq(s, 1, k - 1) /\ b = SubSeq(s, k + 1, Len(s)) /\ RemoveAt(s, k) = a \o b
  BY <1>1, <1>2 DEF RemoveAt
<1>4. /\ a \o b \in Seq(T) /\ Len(a \o b) = Len(a) + Len(b)
      /\ \A l \in 1 .. Len(a) + Len(b) : (a \o b)[l] = IF l <= Len(a) THEN a[l] ELSE b[l - Len(a)]
  BY ConcatProperties
<1>5. Len(a) = k - 1 /\ Len(b) = Len(s) - k /\ Len(a) + Len(b) = Len(s) - 1
  <2>1. Len(a) = k - 1
    BY <1>1, <1>3
  <2>2. Len(b) = Len(s) - k
    BY <1>2, <1>3
  <2>3. Len(s) \in Nat
    OBVIOUS
  <2>. QED
    BY <2>1, <2>2, <2>3
<1>6. ASSUME NEW l \in 1 .. Len(s) - 1 PROVE (a \o b)[l] = IF l < k THEN s[l] ELSE s[l + 1]
  <2>1. CASE l < k
    <3>1. l \in 1 .. k - 1 /\ l \in 1 .. Len(a) + Len(b) /\ l <= Len(a)
      BY <1>5, <2>1
    <3>. QED
      BY <1>1, <1>3, <1>4, <2>1, <3>1
  <2>2. CASE ~(l < k)
    <3>1. /\ l - Len(a) \in 1 .. Len(s) - k /\ l \in 1 .. Len(a) + Len(b) /\ ~(l <= Len(a))
          /\ l - Len(a) + k = l + 1
      BY <1>5, <2>2
    <3>2. (a \o b)[l] = b[l - Len(a)]
      BY <1>4, <3>1
    <3>3. b[l - Len(a)] = s[l - Len(a) + k]
      BY <1>2, <1>3, <3>1
    <3>. QED
      BY <2>2, <3>1, <3>2, <3>3
  <2>. QED
    BY <2>1, <2>2
<1>. QED
  BY <1>3, <1>4, <1>5, <1>6

LEMMA Before ==
    ASSUME NEW T, NEW s \in Seq(T), NEW x \in T
    PROVE  /\ <<x>> \o s \in Seq(T) /\ Len(<<x>> \o s) = Len(s) + 1
           /\ (<<x>> \o s)[1] = x /\ \A l \in 1 .. Len(s) : (<<x>> \o s)[l + 1] = s[l]
OBVIOUS

\* A socket leaves the list.
LEMMA LeavesList ==
    ASSUME KernelTyped, Once, NEW i \in Sock, list' = Unlisted(i)
    PROVE  list' \in Seq(Sock) /\ Listed' = Listed \ {i}
           /\ \A k, l \in DOMAIN list' : list'[k] = list'[l] => k = l
<1>1. list \in Seq(Sock) /\ DOMAIN list = 1 .. Len(list) /\ Len(list) \in Nat
  BY DEF KernelTyped
<1>2. CASE \E k \in 1 .. Len(list) : list[k] = i
  <2>. DEFINE I == {k \in 1 .. Len(list) : list[k] = i}
  <2>1. I \in SUBSET Nat /\ I # {}
    BY <1>1, <1>2
  <2>2. Min(I) \in I
    BY <2>1, MinIsIn
  <2>3. PICK k \in 1 .. Len(list) : k = Min(I) /\ list[k] = i
    BY <2>2
  <2>4. Unlisted(i) = RemoveAt(list, k)
    BY <1>2, <2>1, <2>3 DEF Unlisted, RemoveFirst, SelectInSeq
  <2>5. /\ list' \in Seq(Sock) /\ Len(list') = Len(list) - 1 /\ DOMAIN list' = 1 .. Len(list) - 1
        /\ \A l \in 1 .. Len(list) - 1 : list'[l] = IF l < k THEN list[l] ELSE list[l + 1]
    <3>1. PICK c : c = RemoveAt(list, k)
      OBVIOUS
    <3>2. /\ c \in Seq(Sock) /\ Len(c) = Len(list) - 1
          /\ \A l \in 1 .. Len(list) - 1 : c[l] = IF l < k THEN list[l] ELSE list[l + 1]
      BY <1>1, <3>1, Cut, Zenon
    <3>3. DOMAIN c = 1 .. Len(list) - 1
      BY <3>2
    <3>. QED
      BY <2>4, <3>1, <3>2, <3>3
  <2>6. ASSUME NEW x \in DOMAIN list', NEW y \in DOMAIN list', list'[x] = list'[y] PROVE x = y
    <3>1. x \in 1 .. Len(list) - 1 /\ y \in 1 .. Len(list) - 1
      BY <2>5
    <3>2. PICK a \in 1 .. Len(list) : list[a] = list'[x] /\ a = IF x < k THEN x ELSE x + 1
      BY <1>1, <2>5, <3>1
    <3>3. PICK b \in 1 .. Len(list) : list[b] = list'[y] /\ b = IF y < k THEN y ELSE y + 1
      BY <1>1, <2>5, <3>1
    <3>4. a = b
      BY <1>1, <2>6, <3>2, <3>3 DEF Once
    <3>. QED
      BY <1>1, <3>1, <3>2, <3>3, <3>4
  <2>7. ASSUME NEW j \in Listed, j # i PROVE j \in Listed'
    <3>1. PICK l \in 1 .. Len(list) : list[l] = j
      BY <1>1 DEF Listed
    <3>2. l # k
      BY <2>3, <2>7, <3>1
    <3>3. CASE l < k
      BY <1>1, <2>5, <3>1, <3>3 DEF Listed
    <3>4. CASE l > k
      <4>1. l - 1 \in 1 .. Len(list) - 1 /\ ~(l - 1 < k) /\ l - 1 + 1 = l
        BY <1>1, <3>4
      <4>2. list'[l - 1] = j
        BY <2>5, <3>1, <4>1
      <4>. QED
        BY <2>5, <4>1, <4>2 DEF Listed
    <3>. QED
      BY <3>2, <3>3, <3>4
  <2>8. ASSUME NEW j \in Listed' PROVE j \in Listed /\ j # i
    <3>1. PICK l \in 1 .. Len(list) - 1 : list'[l] = j
      BY <2>5 DEF Listed
    <3>2. PICK n \in 1 .. Len(list) : n # k /\ list[n] = j
      BY <1>1, <2>5, <3>1
    <3>3. list[n] # i
      BY <1>1, <2>3, <3>2 DEF Once
    <3>. QED
      BY <1>1, <3>2, <3>3 DEF Listed
  <2>. QED
    BY <2>5, <2>6, <2>7, <2>8
<1>3. CASE ~\E k \in 1 .. Len(list) : list[k] = i
  <2>1. list' = list
    BY <1>3 DEF Unlisted, RemoveFirst
  <2>. QED
    BY <1>1, <1>3, <2>1 DEF Listed, Once
<1>. QED
  BY <1>2, <1>3

\* A socket enters the list.
LEMMA EntersList ==
    ASSUME KernelTyped, Once, NEW i \in Sock, i \notin Listed, list' = <<i>> \o list
    PROVE  list' \in Seq(Sock) /\ Listed' = Listed \cup {i}
           /\ \A k, l \in DOMAIN list' : list'[k] = list'[l] => k = l
<1>1. list \in Seq(Sock) /\ DOMAIN list = 1 .. Len(list) /\ Len(list) \in Nat
  BY DEF KernelTyped
<1>2. /\ list' \in Seq(Sock) /\ Len(list') = Len(list) + 1 /\ DOMAIN list' = 1 .. Len(list) + 1
      /\ list'[1] = i /\ \A l \in 1 .. Len(list) : list'[l + 1] = list[l]
  BY <1>1, Before
<1>3. \A k \in 1 .. Len(list) + 1 : k = 1 \/ (k - 1 \in 1 .. Len(list) /\ list'[k] = list[k - 1])
  <2>. SUFFICES ASSUME NEW k \in 1 .. Len(list) + 1, k # 1
                PROVE  k - 1 \in 1 .. Len(list) /\ list'[k] = list[k - 1]
    OBVIOUS
  <2>1. k - 1 \in 1 .. Len(list) /\ k - 1 + 1 = k
    BY <1>1
  <2>. QED
    BY <1>2, <2>1
<1>4. \A j : j \in Listed' <=> j = i \/ j \in Listed
  <2>1. ASSUME NEW j, j \in Listed' PROVE j = i \/ j \in Listed
    BY <1>1, <1>2, <1>3, <2>1 DEF Listed
  <2>2. ASSUME NEW j, j \in Listed PROVE j \in Listed'
    <3>1. PICK l \in 1 .. Len(list) : list[l] = j
      BY <1>1, <2>2 DEF Listed
    <3>2. l + 1 \in 1 .. Len(list) + 1 /\ list'[l + 1] = j
      BY <1>1, <1>2, <3>1
    <3>. QED
      BY <1>2, <3>2 DEF Listed
  <2>3. i \in Listed'
    BY <1>1, <1>2 DEF Listed
  <2>. QED
    BY <2>1, <2>2, <2>3
<1>5. ASSUME NEW k \in DOMAIN list', NEW l \in DOMAIN list', list'[k] = list'[l] PROVE k = l
  BY <1>1, <1>2, <1>3, <1>5 DEF Once, Listed
<1>. QED
  BY <1>2, <1>4, <1>5

\* The queue: a session leaves it, a half-open connection enters it or becomes
\* a session.
LEMMA LeavesQueue ==
    ASSUME KernelTyped, Once, NEW n \in DOMAIN queue, queue[n].s # None, queue' = RemoveAt(queue, n)
    PROVE  /\ queue' \in Seq(QueueRec)
           /\ \A i \in Sock : Queued(i)' <=> Queued(i) /\ i # queue[n].s
           /\ \A k, l \in DOMAIN queue' : queue'[k].s # None /\ queue'[k].s = queue'[l].s => k = l
<1>1. queue \in Seq(QueueRec) /\ DOMAIN queue = 1 .. Len(queue) /\ Len(queue) \in Nat
  BY DEF KernelTyped
<1>2. /\ queue' \in Seq(QueueRec) /\ DOMAIN queue' = 1 .. Len(queue) - 1
      /\ \A l \in 1 .. Len(queue) - 1 : queue'[l] = IF l < n THEN queue[l] ELSE queue[l + 1]
  <2>0. PICK x \in 1 .. Len(queue) : x = n
    BY <1>1
  <2>1. PICK c : c = RemoveAt(queue, x)
    OBVIOUS
  <2>2. /\ c \in Seq(QueueRec) /\ Len(c) = Len(queue) - 1
        /\ \A l \in 1 .. Len(queue) - 1 : c[l] = IF l < x THEN queue[l] ELSE queue[l + 1]
    BY <1>1, <2>1, Cut, Zenon
  <2>3. DOMAIN c = 1 .. Len(queue) - 1
    BY <2>2
  <2>. QED
    BY <2>0, <2>1, <2>2, <2>3
<1>3. ASSUME NEW k \in DOMAIN queue', NEW l \in DOMAIN queue', queue'[k].s # None, queue'[k].s = queue'[l].s
      PROVE  k = l
  <2>1. PICK x \in DOMAIN queue : queue[x] = queue'[k] /\ x = IF k < n THEN k ELSE k + 1
    BY <1>1, <1>2
  <2>2. PICK y \in DOMAIN queue : queue[y] = queue'[l] /\ y = IF l < n THEN l ELSE l + 1
    BY <1>1, <1>2
  <2>3. x = y
    BY <1>3, <2>1, <2>2 DEF Once
  <2>. QED
    BY <1>1, <1>2, <2>1, <2>2, <2>3
<1>4. ASSUME NEW i \in Sock PROVE Queued(i)' <=> Queued(i) /\ i # queue[n].s
  <2>0. i # None
    BY Sizes
  <2>1. ASSUME Queued(i)' PROVE Queued(i) /\ i # queue[n].s
    <3>1. PICK l \in 1 .. Len(queue) - 1 : queue'[l].s = i
      BY <1>2, <2>1 DEF Queued
    <3>2. PICK x \in 1 .. Len(queue) : x # n /\ queue[x].s = i
      BY <1>1, <1>2, <3>1
    <3>. QED
      BY <1>1, <2>0, <3>2 DEF Once, Queued
  <2>2. ASSUME Queued(i), i # queue[n].s PROVE Queued(i)'
    <3>1. PICK l \in 1 .. Len(queue) : queue[l].s = i
      BY <1>1, <2>2 DEF Queued
    <3>2. l # n
      BY <2>2, <3>1
    <3>3. CASE l < n
      BY <1>1, <1>2, <3>1, <3>3 DEF Queued
    <3>4. CASE l > n
      <4>1. l - 1 \in 1 .. Len(queue) - 1 /\ ~(l - 1 < n) /\ l - 1 + 1 = l
        BY <1>1, <3>4
      <4>2. queue'[l - 1].s = i
        BY <1>2, <3>1, <4>1
      <4>. QED
        BY <1>2, <4>1, <4>2 DEF Queued
    <3>. QED
      BY <1>1, <3>2, <3>3, <3>4
  <2>. QED
    BY <2>1, <2>2
<1>. QED
  BY <1>2, <1>3, <1>4

LEMMA HalfOpenEnters ==
    ASSUME KernelTyped, Once, NEW q \in QueueRec, q.s = None, queue' = <<q>> \o queue
    PROVE  /\ queue' \in Seq(QueueRec)
           /\ \A i \in Sock : Queued(i)' <=> Queued(i)
           /\ \A k, l \in DOMAIN queue' : queue'[k].s # None /\ queue'[k].s = queue'[l].s => k = l
<1>1. queue \in Seq(QueueRec) /\ DOMAIN queue = 1 .. Len(queue) /\ Len(queue) \in Nat
  BY DEF KernelTyped
<1>2. /\ queue' \in Seq(QueueRec) /\ DOMAIN queue' = 1 .. Len(queue) + 1
      /\ queue'[1] = q /\ \A l \in 1 .. Len(queue) : queue'[l + 1] = queue[l]
  BY <1>1, Before
<1>3. \A k \in 1 .. Len(queue) + 1 : k = 1 \/ (k - 1 \in 1 .. Len(queue) /\ queue'[k] = queue[k - 1])
  <2>. SUFFICES ASSUME NEW k \in 1 .. Len(queue) + 1, k # 1
                PROVE  k - 1 \in 1 .. Len(queue) /\ queue'[k] = queue[k - 1]
    OBVIOUS
  <2>1. k - 1 \in 1 .. Len(queue) /\ k - 1 + 1 = k
    BY <1>1
  <2>. QED
    BY <1>2, <2>1
<1>4. ASSUME NEW i \in Sock PROVE Queued(i)' <=> Queued(i)
  <2>0. i # None
    BY Sizes
  <2>1. ASSUME Queued(i)' PROVE Queued(i)
    BY <1>1, <1>2, <1>3, <2>0, <2>1 DEF Queued
  <2>2. ASSUME Queued(i) PROVE Queued(i)'
    <3>1. PICK l \in 1 .. Len(queue) : queue[l].s = i
      BY <1>1, <2>2 DEF Queued
    <3>2. l + 1 \in 1 .. Len(queue) + 1 /\ queue'[l + 1].s = i
      BY <1>1, <1>2, <3>1
    <3>. QED
      BY <1>2, <3>2 DEF Queued
  <2>. QED
    BY <2>1, <2>2
<1>5. ASSUME NEW k \in DOMAIN queue', NEW l \in DOMAIN queue', queue'[k].s # None, queue'[k].s = queue'[l].s
      PROVE  k = l
  <2>1. k # 1 /\ l # 1
    BY <1>2, <1>5
  <2>2. k - 1 = l - 1
    BY <1>1, <1>2, <1>3, <1>5, <2>1 DEF Once
  <2>. QED
    BY <1>1, <1>2, <2>2
<1>. QED
  BY <1>2, <1>4, <1>5

LEMMA SessionEnters ==
    ASSUME KernelTyped, Once, NEW n \in DOMAIN queue, queue[n].s = None, NEW i \in Sock, ~Queued(i),
           queue' = [queue EXCEPT ![n].s = i]
    PROVE  /\ queue' \in Seq(QueueRec)
           /\ \A j \in Sock : Queued(j)' <=> Queued(j) \/ j = i
           /\ \A k, l \in DOMAIN queue' : queue'[k].s # None /\ queue'[k].s = queue'[l].s => k = l
<1>1. queue \in Seq(QueueRec) /\ DOMAIN queue = 1 .. Len(queue) /\ Len(queue) \in Nat
  BY DEF KernelTyped
<1>2. queue[n] \in QueueRec
  BY <1>1
<1>3. [queue[n] EXCEPT !.s = i] \in QueueRec /\ [queue[n] EXCEPT !.s = i].s = i
  BY <1>2 DEF QueueRec
<1>4. /\ queue' = [queue EXCEPT ![n] = [queue[n] EXCEPT !.s = i]]
      /\ queue' \in Seq(QueueRec) /\ DOMAIN queue' = DOMAIN queue
  BY <1>1, <1>3
<1>5. queue'[n].s = i /\ \A l \in DOMAIN queue : l # n => queue'[l] = queue[l]
  BY <1>1, <1>3, <1>4
<1>6. ASSUME NEW j \in Sock PROVE Queued(j)' <=> Queued(j) \/ j = i
  <2>0. j # None
    BY Sizes
  <2>. QED
    BY <1>4, <1>5, <2>0 DEF Queued
<1>7. ASSUME NEW k \in DOMAIN queue', NEW l \in DOMAIN queue', queue'[k].s # None, queue'[k].s = queue'[l].s
      PROVE  k = l
  BY <1>4, <1>5, <1>7 DEF Once, Queued
<1>. QED
  BY <1>4, <1>6, <1>7

\* One socket changes; a program's call changes; something goes wrong.
LEMMA SockSet ==
    ASSUME KernelTyped, NEW i \in Sock, NEW s \in SockRec, sock' = [sock EXCEPT ![i] = s]
    PROVE  /\ sock' \in [Sock -> SockRec] /\ sock'[i] = s
           /\ \A j \in Sock : j # i => sock'[j] = sock[j]
BY DEF KernelTyped

\* The parts of a socket that a step may change on their own.
LEMMA SockWith ==
    ASSUME NEW s \in SockRec
    PROVE  /\ \A x \in States :
                 LET y == [s EXCEPT !.st = x]
                 IN  /\ y \in SockRec /\ y.st = x /\ y.mem = s.mem /\ y.port = s.port
                     /\ y.remote = s.remote /\ y.head = s.head /\ y.tail = s.tail
           /\ \A x \in States, n \in Int :
                 LET y == [s EXCEPT !.st = x, !.seq = n]
                 IN  /\ y \in SockRec /\ y.st = x /\ y.mem = s.mem /\ y.port = s.port
                     /\ y.remote = s.remote /\ y.head = s.head /\ y.tail = s.tail
           /\ \A x \in States, n, a \in Int :
                 LET y == [s EXCEPT !.st = x, !.ack = a, !.seq = n]
                 IN  /\ y \in SockRec /\ y.st = x /\ y.mem = s.mem /\ y.port = s.port
                     /\ y.remote = s.remote /\ y.head = s.head /\ y.tail = s.tail
           /\ \A n, w \in Int :
                 LET y == [s EXCEPT !.seq = n, !.wrote = w]
                 IN  /\ y \in SockRec /\ y.st = s.st /\ y.mem = s.mem /\ y.port = s.port
                     /\ y.remote = s.remote /\ y.head = s.head /\ y.tail = s.tail
<1>1. ASSUME NEW x \in States
      PROVE  LET y == [s EXCEPT !.st = x]
             IN  /\ y \in SockRec /\ y.st = x /\ y.mem = s.mem /\ y.port = s.port
                 /\ y.remote = s.remote /\ y.head = s.head /\ y.tail = s.tail
  BY DEF SockRec
<1>2. ASSUME NEW x \in States, NEW n \in Int
      PROVE  LET y == [s EXCEPT !.st = x, !.seq = n]
             IN  /\ y \in SockRec /\ y.st = x /\ y.mem = s.mem /\ y.port = s.port
                 /\ y.remote = s.remote /\ y.head = s.head /\ y.tail = s.tail
  BY DEF SockRec
<1>3. ASSUME NEW x \in States, NEW n \in Int, NEW a \in Int
      PROVE  LET y == [s EXCEPT !.st = x, !.ack = a, !.seq = n]
             IN  /\ y \in SockRec /\ y.st = x /\ y.mem = s.mem /\ y.port = s.port
                 /\ y.remote = s.remote /\ y.head = s.head /\ y.tail = s.tail
  BY DEF SockRec
<1>4. ASSUME NEW n \in Int, NEW w \in Int
      PROVE  LET y == [s EXCEPT !.seq = n, !.wrote = w]
             IN  /\ y \in SockRec /\ y.st = s.st /\ y.mem = s.mem /\ y.port = s.port
                 /\ y.remote = s.remote /\ y.head = s.head /\ y.tail = s.tail
  BY DEF SockRec
<1>. QED
  BY <1>1, <1>2, <1>3, <1>4, Zenon

LEMMA CallSet ==
    ASSUME CallsTyped, NEW t \in Thread, NEW c \in CallRec, Calling(t, c)
    PROVE  /\ th' \in [Thread -> CallRec] /\ th'[t] = c
           /\ \A u \in Thread : u # t => th'[u] = th[u]
BY DEF CallsTyped, Calling

LEMMA CallFields ==
    ASSUME CallsTyped, NEW t \in Thread
    PROVE  /\ th[t] \in CallRec /\ th[t].s \in Sock \cup {None} /\ th[t].seg \in SegRec
           /\ LET c == [th[t] EXCEPT !.pc = "asleep"]
              IN  c \in CallRec /\ c.pc = "asleep" /\ c.op = th[t].op /\ c.s = th[t].s
           /\ LET c == [th[t] EXCEPT !.pc = "test"]
              IN  c \in CallRec /\ c.pc = "test" /\ c.op = th[t].op /\ c.s = th[t].s
<1>1. th[t] \in CallRec
  BY DEF CallsTyped
<1>. QED
  BY <1>1 DEF CallRec

LEMMA BeginTyped ==
    ASSUME NEW t \in Thread, NEW op \in {"connect", "accept", "recv"}, NEW i \in Sock
    PROVE  LET c == Begin(t, op, i)
           IN  c \in CallRec /\ c.pc = "test" /\ c.op = op /\ c.s = i
BY Nothing DEF Begin, CallRec

LEMMA SendingTyped ==
    ASSUME NEW t \in Thread, NEW op \in {"connect", "send", "close"}, NEW i \in Sock, NEW g \in SegRec
    PROVE  LET c == Sending(t, op, i, g)
           IN  c \in CallRec /\ c.pc = "out" /\ c.op = op /\ c.s = i
BY DEF Sending, CallRec

LEMMA UserIs == User \in CallRec /\ User.pc = "user" /\ User.s = None
BY Nothing DEF User

LEMMA WakeupTyped ==
    ASSUME CallsTyped, NEW i, th' = Wakeup(i)
    PROVE  /\ th' \in [Thread -> CallRec]
           /\ \A t \in Thread : IF th[t].pc = "asleep" /\ th[t].s = i
                                THEN th'[t].pc = "test" /\ th'[t].op = th[t].op /\ th'[t].s = th[t].s
                                ELSE th'[t] = th[t]
<1>1. ASSUME NEW t \in Thread
      PROVE  /\ th'[t] \in CallRec
             /\ IF th[t].pc = "asleep" /\ th[t].s = i
                THEN th'[t].pc = "test" /\ th'[t].op = th[t].op /\ th'[t].s = th[t].s
                ELSE th'[t] = th[t]
  BY CallFields DEF Wakeup
<1>2. th' = [t \in Thread |-> th'[t]]
  BY DEF Wakeup
<1>. QED
  BY <1>1, <1>2

LEMMA FailsTyped ==
    ASSUME WellTyped, NEW r \in Remote, Fails(r)
    PROVE  WellTyped'
BY Sizes DEF WellTyped, Fails

LEMMA RxSet ==
    ASSUME CallsTyped
    PROVE  /\ rx.s \in Sock \cup {None} /\ rx.from \in Remote \cup {None} /\ rx.port \in Int
           /\ Got \in SegRec
           /\ Done => rx' = Idle /\ rx' \in RxRec /\ rx'.pc = "idle" /\ rx'.s = None /\ rx'.from = None
           /\ \A g \in SegRec, next \in {"reply", "last"} : Then(g, next) =>
                 rx' \in RxRec /\ rx'.pc = next /\ rx'.s = rx.s /\ rx'.from = rx.from
<1>1. rx \in RxRec
  BY DEF CallsTyped
<1>2. ASSUME NEW g \in SegRec, NEW next \in {"reply", "last"}, Then(g, next)
      PROVE  rx' \in RxRec /\ rx'.pc = next /\ rx'.s = rx.s /\ rx'.from = rx.from
  BY <1>1, <1>2 DEF Then, RxRec
<1>3. Idle \in RxRec /\ Idle.pc = "idle" /\ Idle.s = None /\ Idle.from = None
  BY Nothing DEF Idle
<1>. QED
  BY <1>1, <1>2, <1>3 DEF Done, Got, RxRec

-----------------------------------------------------------------------------
(* What a step that leaves the sockets' places alone keeps.                *)

LEMMA SameObjects ==
    ASSUME Objects,
           \A i \in Sock : /\ sock'[i].mem = sock[i].mem /\ sock'[i].st = sock[i].st
                           /\ sock'[i].port = sock[i].port /\ sock'[i].remote = sock[i].remote,
           KernelTyped, CallsTyped, UNCHANGED <<list, queue, holds>>,
           \A t \in Thread : th'[t] = th[t] \/ CallOk(t)',
           rx' = rx \/ RxOk'
    PROVE  Objects'
<1>1. /\ Once /\ Blocks /\ Modes /\ OneEach /\ QueueOk /\ HoldsOk /\ FinOk /\ ThreadsOk /\ RxOk
      /\ Listed \subseteq Sock /\ \A t \in Thread : holds[t] \subseteq Sock
  BY DEF Objects, KernelTyped, CallsTyped, Listed
<1>2. Listed' = Listed /\ (\A i : Queued(i)' <=> Queued(i)) /\ (\A i : Held(i)' <=> Held(i))
  BY DEF Listed, Queued, Held
<1>3. Once'
  BY <1>1 DEF Once
<1>4. Blocks' /\ OneEach'
  BY <1>1, <1>2 DEF Blocks, OneEach
<1>5. Modes'
  BY <1>1 DEF Modes
<1>6. QueueOk' /\ FinOk'
  BY <1>1, <1>2 DEF QueueOk, FinOk
<1>7. HoldsOk'
  BY <1>1 DEF HoldsOk
<1>8. ASSUME NEW t \in Thread, th'[t] = th[t] PROVE CallOk(t)'
  <2>1. CallOk(t) /\ th[t].s \in Sock \cup {None}
    BY <1>1, CallFields DEF ThreadsOk
  <2>. QED
    BY <1>1, <1>2, <1>8, <2>1 DEF CallOk
<1>9. ASSUME rx' = rx PROVE RxOk'
  BY <1>1, <1>2, <1>9 DEF RxOk
<1>. QED
  BY <1>3, <1>4, <1>5, <1>6, <1>7, <1>8, <1>9 DEF Objects, ThreadsOk

LEMMA SameQuiet ==
    ASSUME Types, Quietness, UNCHANGED <<in, out, peer>>, rx'.from \in {rx.from, None},
           \A i \in Sock : sock[i].remote # None => sock'[i].remote = sock[i].remote,
           \A t \in Thread : \A i \in holds'[t] :
              /\ sock'[i].remote # None
              /\ sock'[i].st = "CLOSED" \/ (th'[t].pc = "out" /\ th'[t].op = "connect" /\ th'[t].s = i)
              => /\ i \in holds[t] /\ sock[i].remote # None /\ sock'[i].remote = sock[i].remote
                 /\ sock[i].st = "CLOSED" \/ (th[t].pc = "out" /\ th[t].op = "connect" /\ th[t].s = i)
    PROVE  Quietness'
<1>1. ASSUME NEW r \in Remote, Silent(r) PROVE Silent(r)'
  BY <1>1, Sizes DEF Silent
<1>2. Unsaid'
  <2>. SUFFICES ASSUME NEW r \in Remote, peer[r].st = "closed", \A i \in Sock : sock'[i].remote # r
                PROVE  Silent(r)'
    BY DEF Unsaid
  <2>1. \A i \in Sock : sock[i].remote # r
    BY Sizes
  <2>. QED
    BY <1>1, <2>1 DEF Quietness, Unsaid
<1>3. Unheard'
  <2>. SUFFICES ASSUME NEW t \in Thread, NEW i \in holds'[t], sock'[i].remote # None,
                       sock'[i].st = "CLOSED" \/ (th'[t].pc = "out" /\ th'[t].op = "connect" /\ th'[t].s = i),
                       NEW r, r = sock'[i].remote
                PROVE  Silent(r)' /\ peer'[r].st = "closed"
    BY DEF Unheard, Silent
  <2>1. /\ i \in holds[t] /\ sock[i].remote # None /\ sock'[i].remote = sock[i].remote
        /\ sock[i].st = "CLOSED" \/ (th[t].pc = "out" /\ th[t].op = "connect" /\ th[t].s = i)
    OBVIOUS
  <2>2. Silent(sock[i].remote) /\ peer[sock[i].remote].st = "closed"
    BY <2>1 DEF Quietness, Unheard
  <2>3. i \in Sock
    BY <2>1 DEF Types, CallsTyped
  <2>4. r \in Remote
    BY <2>1, <2>3, SockFields DEF Types, KernelTyped
  <2>. QED
    BY <1>1, <2>1, <2>2, <2>4
<1>. QED
  BY <1>2, <1>3 DEF Quietness

LEMMA ReadyIs ==
    ASSUME KernelTyped, QueueOk
    PROVE  Ready = {} <=> \A i \in Sock : ~Queued(i)
<1>1. \A k \in DOMAIN queue : queue[k].s \in Sock \cup {None}
  <2>. SUFFICES ASSUME NEW k \in DOMAIN queue PROVE queue[k].s \in Sock \cup {None}
    OBVIOUS
  <2>1. queue[k] \in QueueRec
    BY DEF KernelTyped
  <2>. QED
    BY <2>1 DEF QueueRec
<1>. QED
  BY <1>1, Sizes DEF Ready, Queued, QueueOk

SleepOk(t) ==
    th[t].pc = "asleep" =>
        /\ th[t].op = "accept" => Ready = {}
        /\ th[t].op = "recv" => sock[th[t].s].head = sock[th[t].s].tail

LEMMA SameAttended ==
    ASSUME Attended, KernelTyped, QueueOk, KernelTyped', QueueOk',
           \A t \in Thread :
              \/ th'[t].pc # "asleep" \/ SleepOk(t)'
              \/ /\ th'[t] = th[t]
                 /\ th[t].op = "recv" => /\ sock'[th[t].s].head = sock[th[t].s].head
                                         /\ sock'[th[t].s].tail = sock[th[t].s].tail
                                         /\ sock'[th[t].s].st = sock[th[t].s].st,
           \/ \A i \in Sock : Queued(i)' => Queued(i)
           \/ \A t \in Thread : ~(th'[t].pc = "asleep" /\ th'[t].op = "accept")
    PROVE  Attended'
<1>1. (Ready = {} <=> \A i \in Sock : ~Queued(i)) /\ (Ready' = {} <=> \A i \in Sock : ~Queued(i)')
  <2>1. Ready = {} <=> \A i \in Sock : ~Queued(i)
    BY ReadyIs
  <2>2. (KernelTyped /\ QueueOk => (Ready = {} <=> \A i \in Sock : ~Queued(i)))'
    BY ReadyIs, PTL
  <2>. QED
    BY <2>1, <2>2
<1>2. \A t \in Thread : SleepOk(t)
  BY DEF Attended, SleepOk
<1>3. ASSUME NEW t \in Thread PROVE SleepOk(t)'
  <2>. SUFFICES ASSUME th'[t].pc = "asleep", ~SleepOk(t)' PROVE FALSE
    BY DEF SleepOk
  <2>1. /\ th'[t] = th[t]
        /\ th[t].op = "recv" => /\ sock'[th[t].s].head = sock[th[t].s].head
                                /\ sock'[th[t].s].tail = sock[th[t].s].tail
                                /\ sock'[th[t].s].st = sock[th[t].s].st
    OBVIOUS
  <2>2. th[t].op = "accept" => Ready' = {}
    BY <1>1, <1>2, <2>1 DEF SleepOk
  <2>3. th[t].op = "recv" => sock'[th[t].s].head = sock'[th[t].s].tail
    BY <1>2, <2>1 DEF SleepOk
  <2>. QED
    BY <2>1, <2>2, <2>3 DEF SleepOk
<1>. QED
  BY <1>3 DEF Attended, SleepOk

-----------------------------------------------------------------------------
(* Calls that change no socket's place.                                    *)

LEMMA InvIs ==
    ASSUME Inv
    PROVE  /\ Types /\ Objects /\ Quietness /\ Attended
           /\ KernelTyped /\ CallsTyped /\ NetTyped /\ WellTyped
           /\ Once /\ Blocks /\ Modes /\ OneEach /\ QueueOk /\ HoldsOk /\ FinOk /\ ThreadsOk /\ RxOk
           /\ \A t \in Thread : holds[t] \subseteq Sock
           /\ \A i \in Sock : sock[i] \in SockRec
           /\ Listed \subseteq Sock
BY DEF Inv, Types, Objects, CallsTyped, KernelTyped, Listed

\* A program's call moves on, without a change of the sockets.
LEMMA CallMoves ==
    ASSUME Inv, NEW t \in Thread, NEW c \in CallRec, Calling(t, c), UNCHANGED <<kernel, holds, rx, net, well>>,
           CallOk(t)', SleepOk(t)', ~(c.pc = "out" /\ c.op = "connect")
    PROVE  Inv'
<1>1. UNCHANGED <<sock, list, queue, in, out, peer, faults, inTrouble, outTrouble, holds, rx>>
  BY DEF kernel, net, well
<1>2. /\ th' \in [Thread -> CallRec] /\ th'[t] = c /\ \A u \in Thread : u # t => th'[u] = th[u]
  BY CallSet, InvIs
<1>3. Types'
  BY <1>1, <1>2, InvIs DEF Types, KernelTyped, CallsTyped, NetTyped, WellTyped
<1>4. Objects'
  BY <1>1, <1>2, InvIs, SameObjects
<1>5. Quietness'
  BY <1>1, <1>2, InvIs, SameQuiet
<1>6. Attended'
  <2>1. KernelTyped' /\ QueueOk' /\ \A i \in Sock : Queued(i)' => Queued(i)
    BY <1>1, <1>3, <1>4 DEF Types, Objects, Queued
  <2>. QED
    BY <1>1, <1>2, <2>1, InvIs, SameAttended
<1>. QED
  BY <1>3, <1>4, <1>5, <1>6 DEF Inv

LEMMA ConnectTestStep ==
    ASSUME Inv, NEW t \in Thread, ConnectTest(t)
    PROVE  Inv'
<1>1. /\ th[t].pc = "test" /\ th[t].op = "connect" /\ UNCHANGED <<kernel, holds, rx, net, well>>
  BY DEF ConnectTest
<1>2. CallOk(t) /\ CallsTyped
  BY InvIs DEF ThreadsOk
<1>3. CASE Calling(t, User)
  <2>1. th'[t] = User
    BY <1>2, <1>3, UserIs, CallSet
  <2>2. CallOk(t)' /\ SleepOk(t)'
    BY <2>1, UserIs DEF CallOk, SleepOk
  <2>. QED
    BY <1>1, <1>3, <2>2, UserIs, CallMoves
<1>4. CASE Calling(t, [th[t] EXCEPT !.pc = "asleep"])
  <2>0. PICK c \in CallRec : /\ c = [th[t] EXCEPT !.pc = "asleep"]
                             /\ c.pc = "asleep" /\ c.op = "connect" /\ c.s = th[t].s
    BY <1>1, <1>2, CallFields
  <2>1. th'[t] = c /\ Calling(t, c)
    BY <1>2, <1>4, <2>0, CallSet
  <2>2. CallOk(t)' /\ SleepOk(t)'
    BY <1>1, <1>2, <2>0, <2>1 DEF CallOk, SleepOk
  <2>. QED
    BY <1>1, <2>0, <2>1, <2>2, CallMoves
<1>. QED
  BY <1>3, <1>4 DEF ConnectTest

LEMMA AcceptStep ==
    ASSUME Inv, NEW t \in Thread, Accept(t)
    PROVE  Inv'
<1>1. PICK i \in holds[t] : sock[i].st = "LISTEN" /\ Calling(t, Begin(t, "accept", i))
  BY DEF Accept
<1>2. UNCHANGED <<kernel, holds, rx, net, well>> /\ i \in Sock /\ CallsTyped
  BY InvIs DEF Accept
<1>3. PICK c \in CallRec : c = Begin(t, "accept", i) /\ c.pc = "test" /\ c.op = "accept" /\ c.s = i
  BY <1>2, BeginTyped
<1>4. th'[t] = c
  BY <1>1, <1>2, <1>3, CallSet
<1>5. CallOk(t)' /\ SleepOk(t)'
  BY <1>1, <1>2, <1>3, <1>4 DEF CallOk, SleepOk, kernel
<1>. QED
  BY <1>1, <1>2, <1>3, <1>5, CallMoves

LEMMA RecvStep ==
    ASSUME Inv, NEW t \in Thread, NEW i \in Sock, Recv(t, i)
    PROVE  Inv'
<1>1. i \in holds[t] /\ Calling(t, Begin(t, "recv", i)) /\ UNCHANGED <<kernel, holds, rx, net, well>>
  BY DEF Recv
<1>2. CallsTyped
  BY InvIs
<1>3. PICK c \in CallRec : c = Begin(t, "recv", i) /\ c.pc = "test" /\ c.op = "recv" /\ c.s = i
  BY BeginTyped
<1>4. th'[t] = c
  BY <1>1, <1>2, <1>3, CallSet
<1>5. CallOk(t)' /\ SleepOk(t)'
  BY <1>1, <1>3, <1>4 DEF CallOk, SleepOk
<1>. QED
  BY <1>1, <1>3, <1>5, CallMoves

\* What a step keeps: the sockets' places and states; calls, or else the new
\* one is right; what sleepers wait for.
PlacesKept ==
    \A i \in Sock : /\ sock'[i].mem = sock[i].mem /\ sock'[i].st = sock[i].st
                    /\ sock'[i].port = sock[i].port /\ sock'[i].remote = sock[i].remote
CallsKept ==
    \A t \in Thread : \/ th'[t] = th[t]
                      \/ CallOk(t)' /\ ~(th'[t].pc = "out" /\ th'[t].op = "connect")
SleepersKept ==
    \A t \in Thread :
        \/ th'[t].pc # "asleep" \/ SleepOk(t)'
        \/ /\ th'[t] = th[t]
           /\ th[t].op = "recv" => /\ sock'[th[t].s].head = sock[th[t].s].head
                                   /\ sock'[th[t].s].tail = sock[th[t].s].tail
                                   /\ sock'[th[t].s].st = sock[th[t].s].st

LEMMA SockMoves ==
    ASSUME Inv, sock' \in [Sock -> SockRec], PlacesKept, CallsKept, SleepersKept,
           list' = list, queue' = queue, holds' = holds, in' = in, out' = out, peer' = peer, WellTyped',
           rx' \in RxRec, rx' = rx \/ (RxOk' /\ rx'.from \in {rx.from, None}),
           th' \in [Thread -> CallRec]
    PROVE  Inv'
<1>3. Types'
  BY InvIs DEF Types, KernelTyped, CallsTyped, NetTyped
<1>4. Objects'
  BY InvIs, SameObjects DEF PlacesKept, CallsKept
<1>5. Quietness'
  <2>1. rx'.from \in {rx.from, None}
    OBVIOUS
  <2>2. \A t \in Thread : \A j \in holds'[t] :
            /\ sock'[j].remote # None
            /\ sock'[j].st = "CLOSED" \/ (th'[t].pc = "out" /\ th'[t].op = "connect" /\ th'[t].s = j)
            => /\ j \in holds[t] /\ sock[j].remote # None /\ sock'[j].remote = sock[j].remote
               /\ sock[j].st = "CLOSED" \/ (th[t].pc = "out" /\ th[t].op = "connect" /\ th[t].s = j)
    BY InvIs DEF PlacesKept, CallsKept
  <2>. QED
    BY <2>1, <2>2, InvIs, SameQuiet DEF PlacesKept
<1>6. Attended'
  <2>1. KernelTyped' /\ QueueOk' /\ \A j \in Sock : Queued(j)' => Queued(j)
    BY <1>3, <1>4 DEF Types, Objects, Queued
  <2>. QED
    BY <2>1, InvIs, SameAttended DEF SleepersKept
<1>. QED
  BY <1>3, <1>4, <1>5, <1>6 DEF Inv

\* Two calls of different programs are not about one open socket.
LEMMA Exclusive ==
    ASSUME Inv, NEW t \in Thread, NEW u \in Thread, NEW i \in holds[t], i \in holds[u]
    PROVE  t = u
BY InvIs DEF HoldsOk

LEMMA RecvTestStep ==
    ASSUME Inv, NEW t \in Thread, RecvTest(t)
    PROVE  Inv'
<1>0. PICK i : i = th[t].s
  OBVIOUS
<1>1. th[t].pc = "test" /\ th[t].op = "recv" /\ UNCHANGED <<list, queue, holds, rx, net, well>>
  BY Zenon DEF RecvTest
<1>2. i \in holds[t] /\ i \in Sock /\ CallsTyped /\ KernelTyped /\ rx \in RxRec /\ WellTyped
      /\ sock[i] \in SockRec
  <2>1. CallOk(t) /\ holds[t] \subseteq Sock
    BY InvIs DEF ThreadsOk
  <2>2. i \in holds[t] /\ i \in Sock
    BY <1>0, <1>1, <2>1 DEF CallOk
  <2>. QED
    BY <2>2, InvIs DEF CallsTyped
<1>3. CASE sock[i].head = sock[i].tail /\ sock' = sock
  <2>0. UNCHANGED <<kernel, holds, rx, net, well>>
    BY <1>1, <1>3 DEF kernel
  <2>1. CASE sock[i].st = "ESTABLISHED" /\ Calling(t, [th[t] EXCEPT !.pc = "asleep"])
    <3>0. PICK c \in CallRec : /\ c = [th[t] EXCEPT !.pc = "asleep"]
                               /\ c.pc = "asleep" /\ c.op = "recv" /\ c.s = i
      BY <1>0, <1>1, <1>2, CallFields
    <3>1. th'[t] = c /\ Calling(t, c)
      BY <1>2, <2>1, <3>0, CallSet
    <3>2. CallOk(t)' /\ SleepOk(t)'
      BY <1>1, <1>2, <1>3, <2>1, <3>0, <3>1 DEF CallOk, SleepOk
    <3>. QED
      BY <2>0, <3>0, <3>1, <3>2, CallMoves
  <2>2. CASE Calling(t, User)
    <3>1. th'[t] = User
      BY <1>2, <2>2, UserIs, CallSet
    <3>2. CallOk(t)' /\ SleepOk(t)'
      BY <3>1, UserIs DEF CallOk, SleepOk
    <3>. QED
      BY <2>0, <2>2, <3>2, UserIs, CallMoves
  <2>. QED
    BY <1>0, <1>3, <2>1, <2>2 DEF RecvTest
<1>4. CASE sock[i].head # sock[i].tail
  <2>0. sock[th[t].s].head # sock[th[t].s].tail
    BY <1>0, <1>4
  <2>1. Calling(t, User)
    BY <2>0, Zenon DEF RecvTest
  <2>2. PICK n \in 1 .. Used(sock[th[t].s]) :
            sock' = [sock EXCEPT ![th[t].s].tail = (@ + n) % Ring,
                                 ![th[t].s].buf = [k \in 0 .. Ring - 1 |->
                                     IF (k - sock[th[t].s].tail) % Ring < n THEN 0
                                     ELSE sock[th[t].s].buf[k]],
                                 ![th[t].s].read = @ \o SubSeq(Content(sock[th[t].s]), 1, n)]
    BY <2>0, Zenon DEF RecvTest
  <2>3. PICK a \in 0 .. Ring - 1, b \in [0 .. Ring - 1 -> Int], r \in Seq(Int) :
            /\ a = (sock[i].tail + n) % Ring /\ r = sock[i].read \o SubSeq(Content(sock[i]), 1, n)
            /\ b = [k \in 0 .. Ring - 1 |->
                       IF (k - sock[i].tail) % Ring < n THEN 0 ELSE sock[i].buf[k]]
    <3>1. n \in 1 .. Used(sock[i])
      BY <1>0
    <3>. QED
      BY <1>2, <3>1, ReadTyped
  <2>4. PICK x \in SockRec : x = sock[i]
    BY <1>2
  <2>5. [x EXCEPT !.tail = a, !.buf = b, !.read = r] \in SockRec
    BY DEF SockRec
  <2>6. PICK s \in SockRec : s = [x EXCEPT !.tail = a, !.buf = b, !.read = r]
    BY <2>5
  <2>7. s.mem = x.mem /\ s.st = x.st /\ s.port = x.port /\ s.remote = x.remote
    BY <2>6 DEF SockRec
  <2>8. sock' = [sock EXCEPT ![i] = s]
    <3>1. /\ a = (sock[th[t].s].tail + n) % Ring
          /\ r = sock[th[t].s].read \o SubSeq(Content(sock[th[t].s]), 1, n)
          /\ b = [k \in 0 .. Ring - 1 |->
                     IF (k - sock[th[t].s].tail) % Ring < n THEN 0 ELSE sock[th[t].s].buf[k]]
      BY <1>0, <2>3
    <3>2. sock' = [sock EXCEPT ![th[t].s].tail = a, ![th[t].s].buf = b, ![th[t].s].read = r]
      BY <2>2, <3>1, Zenon
    <3>. QED
      BY <1>0, <1>2, <2>4, <2>6, <3>2 DEF KernelTyped
  <2>9. /\ th' \in [Thread -> CallRec] /\ th'[t] = User /\ \A u \in Thread : u # t => th'[u] = th[u]
    BY <1>2, <2>1, UserIs, CallSet
  <2>10. CallOk(t)' /\ SleepOk(t)' /\ th'[t].pc # "out"
    BY <2>9, UserIs DEF CallOk, SleepOk
  <2>12. UNCHANGED <<list, queue, holds, in, out, peer>> /\ WellTyped'
    BY <1>1, <1>2 DEF net, well, WellTyped
  <2>13. rx' \in RxRec /\ (rx' = rx \/ (RxOk' /\ rx'.from \in {rx.from, None}))
    BY <1>1, <1>2
  <2>14. sock' \in [Sock -> SockRec] /\ sock'[i] = s /\ \A j \in Sock : j # i => sock'[j] = sock[j]
    BY <1>2, <2>8, SockSet
  <2>15. PlacesKept /\ CallsKept
    BY <2>4, <2>7, <2>9, <2>10, <2>14 DEF PlacesKept, CallsKept
  <2>16. SleepersKept
    <3>. SUFFICES ASSUME NEW u \in Thread, u # t, th[u].pc = "asleep", th[u].op = "recv"
                  PROVE  sock'[th[u].s] = sock[th[u].s]
      BY <2>9, <2>10 DEF SleepersKept
    <3>1. CallOk(u) /\ holds[u] \subseteq Sock
      BY InvIs DEF ThreadsOk
    <3>2. th[u].s \in holds[u] /\ th[u].s \in Sock
      BY <3>1 DEF CallOk
    <3>3. th[u].s # i
      BY <1>2, <3>2, Exclusive
    <3>. QED
      BY <2>14, <3>2, <3>3
  <2>. QED
    BY <2>9, <2>12, <2>13, <2>14, <2>15, <2>16, SockMoves
<1>. QED
  BY <1>0, <1>3, <1>4, Zenon DEF RecvTest

LEMMA SendStep ==
    ASSUME Inv, NEW t \in Thread, NEW i \in Sock, Send(t, i)
    PROVE  Inv'
<1>. DEFINE g == Seg("ACK", sock[i].seq, sock[i].ack, Offer, <<sock[i].wrote + 1>>)
<1>1. /\ i \in holds[t] /\ sock[i].st = "ESTABLISHED" /\ UNCHANGED <<list, queue, holds, rx, net, faults, outTrouble>>
      /\ sock' = [sock EXCEPT ![i].seq = @ + 1, ![i].wrote = @ + 1]
      /\ Calling(t, Sending(t, "send", i, g))
      /\ inTrouble' = IF Offer > Room(sock[i]) THEN inTrouble \cup {sock[i].remote} ELSE inTrouble
  BY DEF Send
<1>2. PICK x \in SockRec : x = sock[i]
  BY InvIs
<1>3. /\ x.seq \in Int /\ x.ack \in Int /\ x.wrote \in Int /\ x.remote \in Remote
  <2>1. x.remote # None
    BY <1>1, <1>2, InvIs DEF Modes
  <2>. QED
    BY <2>1, SockFields
<1>4. PICK s \in SockRec : /\ s = [x EXCEPT !.seq = x.seq + 1, !.wrote = x.wrote + 1]
                           /\ s.st = x.st /\ s.mem = x.mem /\ s.port = x.port
                           /\ s.remote = x.remote /\ s.head = x.head /\ s.tail = x.tail
  <2>1. PICK n \in Int, w \in Int : n = x.seq + 1 /\ w = x.wrote + 1
    BY <1>3
  <2>2. \A p, q \in Int :
            LET y == [x EXCEPT !.seq = p, !.wrote = q]
            IN  /\ y \in SockRec /\ y.st = x.st /\ y.mem = x.mem /\ y.port = x.port
                /\ y.remote = x.remote /\ y.head = x.head /\ y.tail = x.tail
    BY SockWith, Zenon
  <2>3. PICK y : y = [x EXCEPT !.seq = n, !.wrote = w]
    OBVIOUS
  <2>. QED
    BY <2>1, <2>2, <2>3, Zenon
<1>5. sock' = [sock EXCEPT ![i] = s]
  BY <1>1, <1>2, <1>4, InvIs DEF KernelTyped
<1>6. g \in SegRec
  <2>1. <<x.wrote + 1>> \in Seq(Int) /\ "ACK" \in Flag
    BY <1>3 DEF Flag
  <2>. QED
    BY <1>2, <1>3, <2>1, Sizes, SegTyped
<1>. HIDE DEF g
<1>7. PICK c \in CallRec : c = Sending(t, "send", i, g) /\ c.pc = "out" /\ c.op = "send" /\ c.s = i
  BY <1>6, SendingTyped
<1>8. /\ th' \in [Thread -> CallRec] /\ th'[t] = c /\ \A u \in Thread : u # t => th'[u] = th[u]
  BY <1>1, <1>7, InvIs, CallSet
<1>9. sock'[i] = s
  BY <1>5, InvIs, SockSet
<1>10. CallOk(t)' /\ SleepOk(t)'
  <2>1. sock'[i].st = "ESTABLISHED" /\ sock'[i].remote # None /\ i \in holds'[t]
    BY <1>1, <1>2, <1>3, <1>4, <1>9, Sizes, ZenonT(60)
  <2>2. th'[t].pc = "out" /\ th'[t].op = "send" /\ th'[t].s = i
    BY <1>7, <1>8
  <2>. QED
    BY <2>1, <2>2 DEF CallOk, SleepOk
<1>11. WellTyped'
  BY <1>1, <1>2, <1>3, InvIs DEF WellTyped
<1>12. UNCHANGED <<list, queue, holds, in, out, peer>>
  BY <1>1 DEF net
<1>13. sock' \in [Sock -> SockRec] /\ \A j \in Sock : j # i => sock'[j] = sock[j]
  BY <1>5, InvIs, SockSet
<1>14. PlacesKept /\ CallsKept
  BY <1>2, <1>4, <1>7, <1>8, <1>9, <1>10, <1>13 DEF PlacesKept, CallsKept
<1>15. SleepersKept
  <2>. SUFFICES ASSUME NEW u \in Thread, u # t, th[u].pc = "asleep", th[u].op = "recv"
                PROVE  /\ sock'[th[u].s].head = sock[th[u].s].head
                       /\ sock'[th[u].s].tail = sock[th[u].s].tail
                       /\ sock'[th[u].s].st = sock[th[u].s].st
    BY <1>8, <1>10 DEF SleepersKept
  <2>1. CallOk(u) /\ holds[u] \subseteq Sock
    BY InvIs DEF ThreadsOk
  <2>2. th[u].s \in Sock
    BY <2>1 DEF CallOk
  <2>. QED
    BY <1>2, <1>4, <1>9, <1>13, <2>2
<1>16. rx' \in RxRec /\ (rx' = rx \/ (RxOk' /\ rx'.from \in {rx.from, None}))
  BY <1>1, InvIs DEF CallsTyped
<1>. QED
  BY <1>8, <1>11, <1>12, <1>13, <1>14, <1>15, <1>16, SockMoves

\* What a program's call is about.
LEMMA CallKnows ==
    ASSUME Inv, NEW t \in Thread
    PROVE  /\ CallOk(t) /\ th[t].s \in Sock \cup {None}
           /\ th[t].pc \in {"test", "asleep"} => th[t].s \in holds[t] /\ th[t].s \in Sock
           /\ th[t].pc = "out" => th[t].s \in Sock
<1>1. CallOk(t) /\ holds[t] \subseteq Sock /\ th[t].s \in Sock \cup {None}
  BY InvIs, CallFields DEF ThreadsOk
<1>. QED
  BY <1>1 DEF CallOk

-----------------------------------------------------------------------------
(* The remote hosts and the network.                                       *)

LEMMA NetMoves ==
    ASSUME Inv, UNCHANGED <<kernel, th, holds, rx>>, NetTyped', WellTyped', Quietness'
    PROVE  Inv'
<1>1. /\ sock' = sock /\ list' = list /\ queue' = queue /\ th' = th /\ holds' = holds /\ rx' = rx
  BY DEF kernel
<1>2. Types'
  BY <1>1, InvIs DEF Types, KernelTyped, CallsTyped
<1>3. Objects'
  BY <1>1, InvIs, SameObjects
<1>4. Attended'
  <2>1. KernelTyped' /\ QueueOk' /\ \A i \in Sock : Queued(i)' => Queued(i)
    BY <1>1, <1>2, <1>3 DEF Types, Objects, Queued
  <2>. QED
    BY <1>1, <2>1, InvIs, SameAttended
<1>. QED
  BY <1>2, <1>3, <1>4 DEF Inv

\* What reaches or leaves one host: only one that is asked for a connection,
\* or asks for one, stops being closed.
LEMMA QuietNet ==
    ASSUME Inv, UNCHANGED <<kernel, th, holds, rx>>, NEW r \in Remote,
           \A q \in Remote : q # r => in'[q] = in[q] /\ out'[q] = out[q] /\ peer'[q] = peer[q],
           peer'[r].st = "closed" =>
              /\ peer[r].st = "closed"
              /\ in[r] = <<>> => in'[r] = <<>>
              /\ out[r] = <<>> => out'[r] = <<>>,
           ~Silent(r) \/ peer[r].st # "closed" \/ \A i \in Sock : sock[i].remote # r
    PROVE  Quietness'
<1>1. /\ sock' = sock /\ th' = th /\ holds' = holds /\ rx' = rx
  BY DEF kernel
<1>2. ASSUME NEW q \in Remote, q # r, Silent(q) PROVE Silent(q)'
  BY <1>1, <1>2 DEF Silent
<1>3. Unsaid'
  <2>. SUFFICES ASSUME NEW q \in Remote, peer'[q].st = "closed", \A i \in Sock : sock[i].remote # q
                PROVE  Silent(q)'
    BY <1>1 DEF Unsaid
  <2>1. Silent(q) /\ peer[q].st = "closed"
    <3>1. peer[q].st = "closed"
      OBVIOUS
    <3>. QED
      BY <3>1, InvIs DEF Quietness, Unsaid
  <2>2. CASE q # r
    BY <1>2, <2>1, <2>2
  <2>3. CASE q = r
    BY <1>1, <2>1, <2>3 DEF Silent
  <2>. QED
    BY <2>2, <2>3
<1>4. Unheard'
  <2>. SUFFICES ASSUME NEW t \in Thread, NEW i \in holds[t], sock[i].remote # None,
                       sock[i].st = "CLOSED" \/ (th[t].pc = "out" /\ th[t].op = "connect" /\ th[t].s = i),
                       NEW q, q = sock[i].remote
                PROVE  Silent(q)' /\ peer'[q].st = "closed"
    BY <1>1 DEF Unheard, Silent
  <2>1. Silent(q) /\ peer[q].st = "closed"
    BY InvIs DEF Quietness, Unheard
  <2>2. i \in Sock /\ q \in Remote
    BY InvIs, SockFields
  <2>3. q # r
    BY <2>1, <2>2
  <2>. QED
    BY <1>2, <2>1, <2>2, <2>3
<1>. QED
  BY <1>3, <1>4 DEF Quietness

\* A host puts a segment on the wire.
LEMMA PutsTyped ==
    ASSUME NetTyped, NEW r \in Remote, NEW p \in Int, NEW g \in SegRec, Puts(r, p, g)
    PROVE  /\ in' \in [Remote -> Seq(Wire)]
           /\ \A q \in Remote : q # r => in'[q] = in[q]
<1>1. On(p, g) \in Wire
  BY DEF On, Wire
<1>2. PICK w \in Wire : w = On(p, g)
  BY <1>1
<1>3. in[r] \in Seq(Wire) /\ Append(in[r], w) \in Seq(Wire)
  BY DEF NetTyped
<1>4. in' = [in EXCEPT ![r] = Append(in[r], w)]
  BY <1>2 DEF Puts
<1>. QED
  BY <1>3, <1>4 DEF NetTyped

LEMMA PeerFields ==
    ASSUME NEW p \in PeerRec
    PROVE  /\ p.st \in PeerStates /\ p.port \in Int
           /\ p.sent \in Int /\ p.fin \in Int /\ p.una \in Int /\ p.win \in Int /\ p.rcv \in Int
           /\ p.got \in Seq(Int)
BY DEF PeerRec

\* The parts of a host's record that change together.
LEMMA PeerSt ==
    ASSUME NEW p \in PeerRec, NEW y \in PeerStates
    PROVE  [p EXCEPT !.st = y] \in PeerRec /\ [p EXCEPT !.st = y].st = y
BY DEF PeerRec

LEMMA PeerFin ==
    ASSUME NEW p \in PeerRec, NEW y \in PeerStates, NEW a \in Int
    PROVE  [p EXCEPT !.st = y, !.fin = a] \in PeerRec /\ [p EXCEPT !.st = y, !.fin = a].st = y
BY DEF PeerRec

LEMMA PeerUna ==
    ASSUME NEW p \in PeerRec, NEW a \in Int, NEW b \in Int
    PROVE  [p EXCEPT !.una = a, !.win = b] \in PeerRec /\ [p EXCEPT !.una = a, !.win = b].st = p.st
BY DEF PeerRec

LEMMA PeerWin ==
    ASSUME NEW p \in PeerRec, NEW a \in Int
    PROVE  [p EXCEPT !.win = a] \in PeerRec /\ [p EXCEPT !.win = a].st = p.st
BY DEF PeerRec

LEMMA PeerOpens ==
    ASSUME NEW p \in PeerRec, NEW y \in PeerStates, NEW a \in Int
    PROVE  [p EXCEPT !.st = y, !.rcv = a] \in PeerRec /\ [p EXCEPT !.st = y, !.rcv = a].st = y
BY DEF PeerRec

LEMMA PeerEnds ==
    ASSUME NEW p \in PeerRec, NEW y \in PeerStates, NEW a \in Int
    PROVE  [p EXCEPT !.rcv = a, !.st = y] \in PeerRec /\ [p EXCEPT !.rcv = a, !.st = y].st = y
BY DEF PeerRec

LEMMA PeerGets ==
    ASSUME NEW p \in PeerRec, NEW a \in Int, NEW g \in Seq(Int)
    PROVE  [p EXCEPT !.rcv = a, !.got = g] \in PeerRec /\ [p EXCEPT !.rcv = a, !.got = g].st = p.st
BY DEF PeerRec

LEMMA PeerSet ==
    ASSUME NetTyped, NEW r \in Remote, NEW p \in PeerRec, peer' = [peer EXCEPT ![r] = p]
    PROVE  /\ peer' \in [Remote -> PeerRec] /\ peer'[r] = p
           /\ \A q \in Remote : q # r => peer'[q] = peer[q]
BY DEF NetTyped

\* A connected host sends, and stays connected.
LEMMA PeerPuts ==
    ASSUME Inv, NEW r \in Remote, NEW p \in Int, NEW g \in SegRec, Puts(r, p, g),
           NEW x \in PeerRec, peer' = [peer EXCEPT ![r] = x], x.st # "closed",
           UNCHANGED <<kernel, th, holds, rx>>, out' = out, WellTyped',
           ~Silent(r) \/ peer[r].st # "closed" \/ \A i \in Sock : sock[i].remote # r
    PROVE  Inv'
<1>1. in' \in [Remote -> Seq(Wire)] /\ \A q \in Remote : q # r => in'[q] = in[q]
  BY InvIs, PutsTyped
<1>2. /\ peer' \in [Remote -> PeerRec] /\ peer'[r] = x /\ \A q \in Remote : q # r => peer'[q] = peer[q]
  BY InvIs, PeerSet
<1>3. NetTyped'
  BY <1>1, <1>2, InvIs DEF NetTyped
<1>4. Quietness'
  BY <1>1, <1>2, QuietNet
<1>. QED
  BY <1>3, <1>4, NetMoves

LEMMA WorldIs ==
    ASSUME Inv, UNCHANGED World
    PROVE  UNCHANGED <<kernel, th, holds, rx>> /\ WellTyped'
BY InvIs DEF World, well, WellTyped

LEMMA SynTyped == Seg("SYN", 0, 0, Offer, <<>>) \in SegRec
<1>1. <<>> \in Seq(Int)
  OBVIOUS
<1>2. "SYN" \in Flag /\ 0 \in Int /\ Offer \in Int
  BY Sizes DEF Flag
<1>. QED
  BY <1>1, <1>2 DEF Seg, SegRec

LEMMA PlainTyped ==
    ASSUME NEW r, NEW p \in PeerRec, NEW f \in Flag
    PROVE  /\ Plain(r, p, f) \in SegRec
           /\ [Plain(r, p, f) EXCEPT !.seq = @ - 1] \in SegRec
<1>1. PICK n \in Int : n = 1 + p.sent + p.fin
  BY PeerFields
<1>2. p.rcv \in Int /\ Offer \in Int /\ <<>> \in Seq(Int)
  BY PeerFields, Sizes
<1>3. PICK g \in SegRec : g = Plain(r, p, f)
  BY <1>1, <1>2, SegTyped DEF Plain
<1>4. [g EXCEPT !.seq = g.seq - 1] \in SegRec
  <2>1. PICK m \in Int : m = g.seq - 1
    BY SegFields
  <2>2. [g EXCEPT !.seq = m] \in SegRec
    BY DEF SegRec
  <2>. QED
    BY <2>1, <2>2
<1>. QED
  BY <1>3, <1>4

LEMMA PeerConnectStep ==
    ASSUME Inv, NEW r \in Remote, PeerConnect(r)
    PROVE  Inv'
<1>1. /\ peer[r].st = "closed" /\ \A i \in Sock : sock[i].remote # r
      /\ peer' = [peer EXCEPT ![r].st = "synsent", ![r].port = WellKnown]
      /\ Puts(r, WellKnown, Seg("SYN", 0, 0, Offer, <<>>)) /\ UNCHANGED World /\ out' = out
  BY DEF PeerConnect
<1>2. PICK p \in PeerRec : p = peer[r]
  BY InvIs DEF NetTyped
<1>3. PICK x \in PeerRec : x = [p EXCEPT !.st = "synsent", !.port = WellKnown] /\ x.st = "synsent"
  <2>1. WellKnown \in Int
    BY Sizes
  <2>2. [p EXCEPT !.st = "synsent", !.port = WellKnown] \in PeerRec
    BY <2>1 DEF PeerRec, PeerStates
  <2>. QED
    BY <2>2 DEF PeerRec
<1>4. peer' = [peer EXCEPT ![r] = x]
  BY <1>1, <1>2, <1>3, InvIs DEF NetTyped
<1>5. PICK g \in SegRec : g = Seg("SYN", 0, 0, Offer, <<>>)
  BY SynTyped
<1>6. Puts(r, WellKnown, g) /\ WellKnown \in Int
  BY <1>1, <1>5, Sizes
<1>. QED
  BY <1>1, <1>3, <1>4, <1>6, WorldIs, PeerPuts

\* The data a host sends.
LEMMA PeerSendStep ==
    ASSUME Inv, NEW r \in Remote, PeerSend(r)
    PROVE  Inv'
<1>1. PICK n \in 1 .. 2 :
          /\ peer[r].st \in {"est", "closewait"} /\ UNCHANGED World /\ out' = out
          /\ peer' = [peer EXCEPT ![r].sent = @ + n]
          /\ Puts(r, peer[r].port, Seg("ACK", Nxt(r), peer[r].rcv, Offer, [k \in 1 .. n |-> peer[r].sent + k]))
  BY DEF PeerSend
<1>2. PICK p \in PeerRec : p = peer[r]
  BY InvIs DEF NetTyped
<1>3. PICK x \in PeerRec : x = [p EXCEPT !.sent = p.sent + n] /\ x.st = p.st
  <2>1. PICK m \in Int : m = p.sent + n
    BY PeerFields
  <2>2. [p EXCEPT !.sent = m] \in PeerRec /\ [p EXCEPT !.sent = m].st = p.st
    BY DEF PeerRec
  <2>. QED
    BY <2>1, <2>2
<1>4. peer' = [peer EXCEPT ![r] = x]
  BY <1>1, <1>2, <1>3, InvIs DEF NetTyped
<1>5. PICK g \in SegRec : g = Seg("ACK", Nxt(r), p.rcv, Offer, [k \in 1 .. n |-> p.sent + k])
  <2>1. PICK m \in Int : m = Nxt(r)
    BY <1>2, PeerFields, SMTT(30) DEF Nxt
  <2>2. PICK d \in Seq(Int) : d = [k \in 1 .. n |-> p.sent + k]
    <3>1. p.sent \in Int
      BY PeerFields
    <3>2. PICK d : d = [k \in 1 .. n |-> p.sent + k]
      OBVIOUS
    <3>3. d \in [1 .. n -> Int] /\ n \in Nat
      BY <3>1, <3>2
    <3>4. d \in Seq(Int)
      BY <3>3
    <3>. QED
      BY <3>2, <3>4
  <2>3. "ACK" \in Flag /\ p.rcv \in Int
    BY PeerFields DEF Flag
  <2>. QED
    BY <2>1, <2>2, <2>3, Sizes, SegTyped, ZenonT(60)
<1>6. Puts(r, p.port, g) /\ p.port \in Int
  BY <1>1, <1>2, <1>5, PeerFields
<1>7. peer[r].st # "closed" /\ x.st # "closed"
  BY <1>1, <1>2, <1>3
<1>. QED
  BY <1>1, <1>4, <1>6, <1>7, WorldIs, PeerPuts

LEMMA PeerProbeStep ==
    ASSUME Inv, NEW r \in Remote, PeerProbe(r)
    PROVE  Inv'
<1>1. /\ peer[r].st \in {"est", "closewait"} /\ UNCHANGED <<kernel, th, holds, rx, out, faults, outTrouble>>
      /\ peer' = [peer EXCEPT ![r].sent = @ + 1]
      /\ Puts(r, peer[r].port, Seg("ACK", Nxt(r), peer[r].rcv, Offer, <<peer[r].sent + 1>>))
      /\ inTrouble' = IF Full(r) THEN inTrouble \cup {r} ELSE inTrouble
  BY DEF PeerProbe
<1>2. PICK p \in PeerRec : p = peer[r]
  BY InvIs DEF NetTyped
<1>3. PICK m \in Int : m = p.sent + 1
  BY PeerFields
<1>4. PICK x \in PeerRec : x = [p EXCEPT !.sent = m] /\ x.st = p.st
  <2>1. [p EXCEPT !.sent = m] \in PeerRec /\ [p EXCEPT !.sent = m].st = p.st
    BY DEF PeerRec
  <2>. QED
    BY <2>1
<1>5. peer' = [peer EXCEPT ![r] = x]
  BY <1>1, <1>2, <1>3, <1>4, InvIs DEF NetTyped
<1>6. PICK g \in SegRec : g = Seg("ACK", Nxt(r), p.rcv, Offer, <<m>>)
  <2>1. PICK n \in Int : n = Nxt(r)
    BY <1>2, PeerFields, SMTT(30) DEF Nxt
  <2>2. "ACK" \in Flag /\ p.rcv \in Int /\ <<m>> \in Seq(Int)
    BY PeerFields DEF Flag
  <2>. QED
    BY <2>1, <2>2, Sizes, SegTyped
<1>7. Puts(r, p.port, g) /\ p.port \in Int
  BY <1>1, <1>2, <1>3, <1>6, PeerFields
<1>8. peer[r].st # "closed" /\ x.st # "closed" /\ WellTyped' /\ out' = out
      /\ UNCHANGED <<kernel, th, holds, rx>>
  BY <1>1, <1>2, <1>4, InvIs DEF WellTyped
<1>. QED
  BY <1>5, <1>7, <1>8, PeerPuts

LEMMA PeerCloseStep ==
    ASSUME Inv, NEW r \in Remote, PeerClose(r)
    PROVE  Inv'
<1>1. /\ peer[r].st \in {"est", "closewait"} /\ UNCHANGED World /\ out' = out
      /\ peer' = [peer EXCEPT ![r].st = IF @ = "est" THEN "fin" ELSE "last", ![r].fin = 1]
      /\ Puts(r, peer[r].port, Plain(r, peer[r], "FIN"))
  BY DEF PeerClose
<1>2. PICK p \in PeerRec : p = peer[r]
  BY InvIs DEF NetTyped
<1>3. PICK z \in {"fin", "last"}, n \in Int : n = 1 /\ z = IF p.st = "est" THEN "fin" ELSE "last"
  OBVIOUS
<1>4. PICK x \in PeerRec : x = [p EXCEPT !.st = z, !.fin = n] /\ x.st = z
  <2>1. [p EXCEPT !.st = z, !.fin = n] \in PeerRec /\ [p EXCEPT !.st = z, !.fin = n].st = z
    <3>1. z \in PeerStates
      BY DEF PeerStates, Live
    <3>. QED
      BY <3>1, PeerFin, Zenon
  <2>. QED
    BY <2>1
<1>5. peer' = [peer EXCEPT ![r] = x]
  BY <1>1, <1>2, <1>3, <1>4, InvIs DEF NetTyped
<1>6. PICK g \in SegRec : g = Plain(r, p, "FIN")
  <2>1. "FIN" \in Flag
    BY DEF Flag
  <2>. QED
    BY <2>1, PlainTyped
<1>7. Puts(r, p.port, g) /\ p.port \in Int
  BY <1>1, <1>2, <1>6, PeerFields
<1>8. peer[r].st # "closed" /\ x.st # "closed"
  BY <1>1, <1>4
<1>. QED
  BY <1>1, <1>5, <1>7, <1>8, WorldIs, PeerPuts

LEMMA PeerRetryStep ==
    ASSUME Inv, NEW r \in Remote, PeerRetry(r)
    PROVE  Inv'
<1>1. UNCHANGED World /\ out' = out /\ peer' = peer
  BY DEF PeerRetry
<1>2. PICK p \in PeerRec : p = peer[r]
  BY InvIs DEF NetTyped
<1>3. peer' = [peer EXCEPT ![r] = p]
  BY <1>1, <1>2, InvIs DEF NetTyped
<1>4. p.port \in Int /\ p.una \in Int /\ p.rcv \in Int /\ WellKnown \in Int /\ Offer \in Int
      /\ "SYN" \in Flag /\ "FIN" \in Flag /\ "ACK" \in Flag /\ <<>> \in Seq(Int)
  BY PeerFields, Sizes DEF Flag
<1>5. p.st # "closed"
  BY <1>2 DEF PeerRetry, Live
<1>6. \E q \in Int, g \in SegRec : Puts(r, q, g)
  <2>1. CASE Puts(r, WellKnown, Seg("SYN", 0, 0, Offer, <<>>))
    BY <1>4, <2>1, SynTyped
  <2>2. CASE Puts(r, p.port, [Plain(r, p, "FIN") EXCEPT !.seq = @ - 1])
    <3>1. [Plain(r, p, "FIN") EXCEPT !.seq = @ - 1] \in SegRec
      BY <1>4, PlainTyped
    <3>. QED
      BY <1>4, <2>2, <3>1
  <2>3. CASE Puts(r, p.port, Seg("ACK", p.una, p.rcv, Offer, <<p.una>>))
    <3>1. <<p.una>> \in Seq(Int)
      BY <1>4
    <3>2. Seg("ACK", p.una, p.rcv, Offer, <<p.una>>) \in SegRec
      BY <1>4, <3>1, SegTyped
    <3>. QED
      BY <1>4, <2>3, <3>2
  <2>. QED
    BY <1>2, <2>1, <2>2, <2>3 DEF PeerRetry
<1>. QED
  BY <1>1, <1>2, <1>3, <1>5, <1>6, WorldIs, PeerPuts

LEMMA AckedTyped ==
    ASSUME NEW p \in PeerRec, NEW g \in SegRec
    PROVE  Acked(p, g) \in PeerRec /\ Acked(p, g).st = p.st
<1>1. g.ack \in Int /\ g.win \in Int
  BY SegFields
<1>2. /\ [p EXCEPT !.una = g.ack, !.win = g.win] \in PeerRec
      /\ [p EXCEPT !.una = g.ack, !.win = g.win].st = p.st
  BY <1>1, PeerUna, Zenon
<1>3. [p EXCEPT !.win = g.win] \in PeerRec /\ [p EXCEPT !.win = g.win].st = p.st
  BY <1>1, PeerWin
<1>. QED
  BY <1>2, <1>3 DEF Acked

\* A host takes in a segment: what becomes of it, and what it answers.
LEMMA PeerTakes ==
    ASSUME Inv, NEW r \in Remote, PeerReceive(r)
    PROVE  \E x \in PeerRec :
              /\ peer' = [peer EXCEPT ![r] = x]
              /\ x.st = "closed" => peer[r].st = "closed" /\ in' = in
              /\ in' = in \/ \E n \in Int, m \in SegRec : Puts(r, n, m)
<1>0. /\ peer[r] \in PeerRec /\ out[r] \in Seq(Wire) /\ out[r] # <<>>
  BY InvIs, Zenon DEF NetTyped, PeerReceive
<1>1. Head(out[r]) \in Wire
  BY <1>0
<1>2. PICK h \in Wire : h = Head(out[r])
  BY <1>1
<1>3. PICK n \in Int, g \in SegRec : n = h.port /\ g = h.seg
  BY DEF Wire
<1>4. "est" \in PeerStates /\ "synrcvd" \in PeerStates /\ "closewait" \in PeerStates
      /\ "closing" \in PeerStates /\ "closed" \notin Live /\ "synsent" \notin Live
  BY DEF PeerStates, Live
<1>5. PICK p \in PeerRec :
          /\ p = IF peer[r].st = "synrcvd" /\ g.flag \in {"ACK", "FIN"} THEN [peer[r] EXCEPT !.st = "est"]
                 ELSE peer[r]
          /\ p.st = "closed" => peer[r].st = "closed"
  <2>1. PICK y \in PeerStates, z \in PeerRec : y = "est" /\ z = peer[r]
    BY <1>0, <1>4
  <2>2. [z EXCEPT !.st = y] \in PeerRec /\ [z EXCEPT !.st = y].st = y
    BY PeerSt
  <2>. QED
    BY <2>1, <2>2
<1>6. PICK q \in PeerRec : q = Acked(p, g) /\ q.st = p.st
  BY AckedTyped
<1>. DEFINE now(x) == peer' = [peer EXCEPT ![r] = x]
            answer(x, f) == now(x) /\ Puts(r, n, Plain(r, x, f))
<1>7. CASE p.st = "closed" /\ g.flag = "SYN" /\ r \in Host
  <2>1. PICK y \in PeerStates, a \in Int : y = "synrcvd" /\ a = g.seq + 1
    BY <1>4, SegFields
  <2>2. PICK x \in PeerRec : x = [p EXCEPT !.st = y, !.port = n, !.rcv = a] /\ x.st = y /\ x.port = n /\ x.rcv = a
    <3>1. LET x == [p EXCEPT !.st = y, !.port = n, !.rcv = a]
          IN  x \in PeerRec /\ x.st = y /\ x.port = n /\ x.rcv = a
      BY Zenon DEF PeerRec
    <3>. QED
      BY <3>1
  <2>3. now(x) /\ Puts(r, x.port, Seg("SYNACK", 0, x.rcv, Offer, <<>>))
    BY <1>2, <1>3, <1>5, <1>7, <2>1, <2>2, Zenon DEF PeerReceive
  <2>4. Seg("SYNACK", 0, a, Offer, <<>>) \in SegRec
    <3>1. "SYNACK" \in Flag /\ 0 \in Int /\ Offer \in Int /\ <<>> \in Seq(Int)
      BY Sizes DEF Flag
    <3>. QED
      BY <3>1 DEF Seg, SegRec
  <2>. QED
    BY <2>1, <2>2, <2>3, <2>4
<1>8. CASE g.flag = "RST"
  <2>1. now(Over) /\ in' = in
    BY <1>2, <1>3, <1>5, <1>8, Zenon DEF PeerReceive
  <2>2. Over \in PeerRec /\ Over.st # "closed"
    BY Nothing DEF Over, NoPeer
  <2>. QED
    BY <2>1, <2>2, Zenon
<1>9. CASE p.st = "synsent" /\ g.flag = "SYNACK"
  <2>1. PICK y \in PeerStates, a \in Int : y = "est" /\ a = g.seq + 1
    BY <1>4, SegFields
  <2>2. PICK x \in PeerRec : x = [q EXCEPT !.st = y, !.rcv = a] /\ x.st = y
    BY PeerOpens, ZenonT(30)
  <2>3. answer(x, "ACK")
    BY <1>2, <1>3, <1>4, <1>5, <1>6, <1>9, <2>1, <2>2, Zenon DEF PeerReceive
  <2>4. Plain(r, x, "ACK") \in SegRec
    BY PlainTyped DEF Flag
  <2>. QED
    BY <2>1, <2>2, <2>3, <2>4
<1>10. CASE p.st \in Live /\ g.flag = "ACK" /\ g.data = <<>>
  <2>1. PICK x \in {Over, q} : now(x) /\ in' = in
    BY <1>2, <1>3, <1>4, <1>5, <1>6, <1>10, Zenon DEF PeerReceive
  <2>2. Over \in PeerRec /\ Over.st # "closed" /\ q.st # "closed"
    BY <1>4, <1>6, <1>10, Nothing DEF Over, NoPeer
  <2>. QED
    BY <2>1, <2>2, Zenon
<1>11. CASE p.st \in Live /\ g.flag = "ACK" /\ g.data # <<>>
  <2>1. PICK a \in Int, d \in Seq(Int) : a = q.rcv + Len(g.data) /\ d = q.got \o g.data
    <3>1. g.data \in Seq(Int) /\ q.rcv \in Int /\ q.got \in Seq(Int)
      BY SegFields, PeerFields
    <3>2. q.rcv + Len(g.data) \in Int
      BY <3>1
    <3>3. q.got \o g.data \in Seq(Int)
      BY <3>1
    <3>. QED
      BY <3>2, <3>3
  <2>2. PICK y \in PeerRec : y = [q EXCEPT !.rcv = a, !.got = d] /\ y.st = q.st
    <3>1. [q EXCEPT !.rcv = a, !.got = d] \in PeerRec /\ [q EXCEPT !.rcv = a, !.got = d].st = q.st
      BY PeerGets, ZenonT(30)
    <3>. QED
      BY <3>1
  <2>3. PICK x \in {y, q} : answer(x, "ACK")
    BY <1>2, <1>3, <1>4, <1>5, <1>6, <1>11, <2>1, <2>2, ZenonT(30) DEF PeerReceive
  <2>4. x \in PeerRec /\ x.st # "closed"
    BY <1>4, <1>6, <1>11, <2>2
  <2>5. Plain(r, x, "ACK") \in SegRec
    BY <2>4, PlainTyped DEF Flag
  <2>. QED
    BY <2>3, <2>4, <2>5
<1>12. CASE p.st \in Live /\ g.flag = "FIN"
  <2>1. PICK y \in PeerStates, a \in Int :
            /\ a = q.rcv + 1 /\ y # "closed"
            /\ y = CASE q.st = "est" -> "closewait" [] q.st = "fin" -> "closing" [] OTHER -> q.st
    BY <1>4, <1>6, <1>12, PeerFields
  <2>2. PICK z \in PeerRec : z = [q EXCEPT !.rcv = a, !.st = y] /\ z.st = y
    BY PeerEnds, Zenon
  <2>3. PICK x \in {z, q} : answer(x, "ACK")
    BY <1>2, <1>3, <1>4, <1>5, <1>6, <1>12, <2>1, <2>2, ZenonT(60) DEF PeerReceive
  <2>4. x \in PeerRec /\ x.st # "closed"
    BY <1>4, <1>6, <1>12, <2>1, <2>2
  <2>5. Plain(r, x, "ACK") \in SegRec
    BY <2>4, PlainTyped DEF Flag
  <2>. QED
    BY <2>3, <2>4, <2>5
<1>13. CASE /\ ~(p.st = "closed" /\ g.flag = "SYN" /\ r \in Host) /\ g.flag # "RST"
            /\ ~(p.st = "synsent" /\ g.flag = "SYNACK")
            /\ ~(p.st \in Live /\ g.flag \in {"ACK", "FIN"})
  <2>1. now(p) /\ in' = in
    BY <1>2, <1>3, <1>5, <1>6, <1>13, ZenonT(60) DEF PeerReceive
  <2>. QED
    BY <1>5, <2>1
<1>. QED
  BY <1>7, <1>8, <1>9, <1>10, <1>11, <1>12, <1>13

LEMMA PeerReceiveStep ==
    ASSUME Inv, NEW r \in Remote, PeerReceive(r)
    PROVE  Inv'
<1>1. PICK x \in PeerRec :
          /\ peer' = [peer EXCEPT ![r] = x]
          /\ x.st = "closed" => peer[r].st = "closed" /\ in' = in
          /\ in' = in \/ \E n \in Int, m \in SegRec : Puts(r, n, m)
  BY PeerTakes
<1>2. /\ peer' \in [Remote -> PeerRec] /\ peer'[r] = x /\ \A q \in Remote : q # r => peer'[q] = peer[q]
  BY <1>1, InvIs, PeerSet
<1>3. in' \in [Remote -> Seq(Wire)] /\ \A q \in Remote : q # r => in'[q] = in[q]
  <2>1. CASE in' = in
    BY <2>1, InvIs DEF NetTyped
  <2>2. CASE \E n \in Int, m \in SegRec : Puts(r, n, m)
    BY <2>2, InvIs, PutsTyped
  <2>. QED
    BY <1>1, <2>1, <2>2
<1>4. /\ out[r] # <<>> /\ out' \in [Remote -> Seq(Wire)] /\ \A q \in Remote : q # r => out'[q] = out[q]
  <2>1. out[r] # <<>> /\ out' = [out EXCEPT ![r] = Tail(@)]
    BY DEF PeerReceive
  <2>2. out \in [Remote -> Seq(Wire)] /\ out[r] \in Seq(Wire)
    BY InvIs DEF NetTyped
  <2>3. Tail(out[r]) \in Seq(Wire)
    BY <2>1, <2>2
  <2>. QED
    BY <2>1, <2>2, <2>3
<1>5. UNCHANGED <<kernel, th, holds, rx>> /\ WellTyped'
  BY WorldIs, Zenon DEF PeerReceive
<1>6. NetTyped'
  BY <1>2, <1>3, <1>4 DEF NetTyped
<1>7. ~Silent(r)
  BY <1>4 DEF Silent
<1>8. Quietness'
  BY <1>1, <1>2, <1>3, <1>4, <1>5, <1>7, QuietNet
<1>. QED
  BY <1>5, <1>6, <1>8, NetMoves

\* What the network may make of the segments on their way.
LEMMA UpsetTyped ==
    ASSUME NEW w \in Seq(Wire), w # <<>>, NEW x \in Upset(w)
    PROVE  x \in Seq(Wire)
<1>1. Tail(w) \in Seq(Wire) /\ <<Head(w)>> \o w \in Seq(Wire)
  <2>1. PICK h \in Wire : h = Head(w)
    OBVIOUS
  <2>2. <<h>> \o w \in Seq(Wire)
    BY Before
  <2>. QED
    BY <2>1, <2>2
<1>2. ASSUME 2 \in DOMAIN w PROVE <<w[2], w[1]>> \o SubSeq(w, 3, Len(w)) \in Seq(Wire)
  <2>1. PICK a \in Wire, b \in Wire : a = w[2] /\ b = w[1]
    BY <1>2
  <2>2. SubSeq(w, 3, Len(w)) \in Seq(Wire)
    BY SubSeqProperties
  <2>3. <<a, b>> \in Seq(Wire)
    OBVIOUS
  <2>. QED
    BY <2>1, <2>2, <2>3, ConcatProperties
<1>. QED
  BY <1>1, <1>2 DEF Upset

LEMMA FaultStep ==
    ASSUME Inv, NEW r \in Remote, Fault(r)
    PROVE  Inv'
<1>1. Fails(r) /\ UNCHANGED <<kernel, th, holds, rx>> /\ peer' = peer
  BY DEF Fault
<1>2. WellTyped'
  BY <1>1, InvIs, FailsTyped
<1>3. CASE in[r] # <<>> /\ in' \in {[in EXCEPT ![r] = w] : w \in Upset(in[r])} /\ out' = out
  <2>1. PICK w \in Upset(in[r]) : in' = [in EXCEPT ![r] = w]
    BY <1>3
  <2>2. in[r] \in Seq(Wire)
    BY InvIs DEF NetTyped
  <2>3. w \in Seq(Wire)
    BY <1>3, <2>2, UpsetTyped
  <2>4. in' \in [Remote -> Seq(Wire)] /\ \A q \in Remote : q # r => in'[q] = in[q]
    BY <2>1, <2>3, InvIs DEF NetTyped
  <2>5. NetTyped' /\ ~Silent(r)
    BY <1>1, <1>3, <2>4, InvIs DEF NetTyped, Silent
  <2>6. Quietness'
    BY <1>1, <1>3, <2>4, <2>5, QuietNet
  <2>. QED
    BY <1>1, <1>2, <2>5, <2>6, NetMoves
<1>4. CASE out[r] # <<>> /\ out' \in {[out EXCEPT ![r] = w] : w \in Upset(out[r])} /\ in' = in
  <2>1. PICK w \in Upset(out[r]) : out' = [out EXCEPT ![r] = w]
    BY <1>4
  <2>2. out[r] \in Seq(Wire)
    BY InvIs DEF NetTyped
  <2>3. w \in Seq(Wire)
    BY <1>4, <2>2, UpsetTyped
  <2>4. out' \in [Remote -> Seq(Wire)] /\ \A q \in Remote : q # r => out'[q] = out[q]
    BY <2>1, <2>3, InvIs DEF NetTyped
  <2>5. NetTyped' /\ ~Silent(r)
    BY <1>1, <1>4, <2>4, InvIs DEF NetTyped, Silent
  <2>6. Quietness'
    BY <1>1, <1>4, <2>4, <2>5, QuietNet
  <2>. QED
    BY <1>1, <1>2, <2>5, <2>6, NetMoves
<1>. QED
  BY <1>3, <1>4 DEF Fault

-----------------------------------------------------------------------------
(* The receive thread, where it moves no socket.                           *)

LEMMA RxDone ==
    ASSUME Inv, Done
    PROVE  rx' \in RxRec /\ rx'.pc = "idle" /\ RxOk' /\ rx'.from \in {rx.from, None}
<1>1. rx' \in RxRec /\ rx'.pc = "idle" /\ rx'.s = None /\ rx'.from = None
  BY InvIs, RxSet
<1>. QED
  BY <1>1 DEF RxOk

\* Where the receive thread is.
LEMMA RxAt ==
    ASSUME Inv, rx.pc # "idle"
    PROVE  /\ rx.s \in Sock /\ rx.from \in Remote /\ sock[rx.s] \in SockRec /\ sock[rx.s].mem = "live"
           /\ sock[rx.s].st = "LISTEN" \/ sock[rx.s].remote = rx.from
           /\ Got \in SegRec /\ Got.seq \in Int /\ Got.ack \in Int /\ Got.data \in Seq(Int)
<1>1. rx.from \in Remote \cup {None} /\ Got \in SegRec
  BY InvIs, RxSet
<1>2. rx.s \in Sock /\ sock[rx.s].mem = "live" /\ rx.from # None
      /\ (sock[rx.s].st = "LISTEN" \/ sock[rx.s].remote = rx.from)
  BY InvIs DEF RxOk
<1>. QED
  BY <1>1, <1>2, InvIs, SegFields

LEMMA RxAnswers ==
    ASSUME Inv, rx.pc = "input", NEW g \in SegRec, Then(g, "reply"), PlacesKept
    PROVE  rx' \in RxRec /\ RxOk' /\ rx'.from \in {rx.from, None}
<1>1. rx' \in RxRec /\ rx'.pc = "reply" /\ rx'.s = rx.s /\ rx'.from = rx.from
  BY InvIs, RxSet
<1>2. rx.s \in Sock /\ sock[rx.s].mem = "live" /\ rx.from # None
      /\ (sock[rx.s].st = "LISTEN" \/ sock[rx.s].remote = rx.from)
  BY InvIs DEF RxOk
<1>3. sock'[rx.s].mem = "live" /\ (sock'[rx.s].st = "LISTEN" \/ sock'[rx.s].remote = rx.from)
  BY <1>2 DEF PlacesKept
<1>. QED
  BY <1>1, <1>2, <1>3 DEF RxOk

\* The answers are segments.
LEMMA AnswerTyped ==
    ASSUME NEW a \in Int, NEW b \in Int, NEW w \in Int, NEW f \in {"ACK", "SYN", "SYNACK", "FIN", "RST"}
    PROVE  Seg(f, a, b, w, <<>>) \in SegRec
<1>1. <<>> \in Seq(Int) /\ f \in Flag
  BY DEF Flag
<1>. QED
  BY <1>1 DEF Seg, SegRec

LEMMA WakeupKept ==
    ASSUME Inv, NEW i, th' = Wakeup(i), PlacesKept, holds' = holds, queue' = queue,
           \A j \in Sock : j # i => sock'[j] = sock[j]
    PROVE  th' \in [Thread -> CallRec] /\ CallsKept /\ SleepersKept
<1>1. /\ th' \in [Thread -> CallRec]
      /\ \A t \in Thread : IF th[t].pc = "asleep" /\ th[t].s = i
                           THEN th'[t].pc = "test" /\ th'[t].op = th[t].op /\ th'[t].s = th[t].s
                           ELSE th'[t] = th[t]
  BY InvIs, WakeupTyped
<1>2. CallsKept
  <2>. SUFFICES ASSUME NEW t \in Thread, th[t].pc = "asleep", th[t].s = i
                PROVE  CallOk(t)' /\ th'[t].pc # "out"
    BY <1>1 DEF CallsKept
  <2>1. CallOk(t) /\ i \in holds[t] /\ i \in Sock
    BY CallKnows
  <2>. QED
    BY <1>1, <2>1 DEF CallOk, PlacesKept
<1>3. SleepersKept
  <2>. SUFFICES ASSUME NEW t \in Thread, th'[t].pc = "asleep"
                PROVE  th'[t] = th[t] /\ sock'[th[t].s] = sock[th[t].s]
    BY DEF SleepersKept
  <2>1. th'[t] = th[t] /\ th[t].s # i
    BY <1>1
  <2>2. th[t].s \in Sock
    BY <2>1, CallKnows
  <2>. QED
    BY <2>1, <2>2
<1>. QED
  BY <1>1, <1>2, <1>3

\* Only the receive thread moves.
LEMMA RxMoves ==
    ASSUME Inv, sock' = sock, list' = list, queue' = queue, holds' = holds, th' = th, in' = in, out' = out,
           peer' = peer, WellTyped', rx' \in RxRec, RxOk', rx'.from \in {rx.from, None}
    PROVE  Inv'
<1>1. PlacesKept /\ CallsKept /\ SleepersKept
  BY DEF PlacesKept, CallsKept, SleepersKept
<1>2. sock' \in [Sock -> SockRec] /\ th' \in [Thread -> CallRec]
  BY InvIs DEF KernelTyped, CallsTyped
<1>. QED
  BY <1>1, <1>2, SockMoves

LEMMA WellIs ==
    ASSUME Inv
    PROVE  /\ UNCHANGED well => WellTyped'
           /\ \A r \in Remote : Fails(r) => WellTyped'
BY InvIs, FailsTyped DEF well, WellTyped

LEMMA InClosedStep ==
    ASSUME Inv, InClosed
    PROVE  Inv'
<1>1. Done /\ UNCHANGED <<kernel, th, holds, net, well>>
  BY DEF InClosed
<1>2. /\ sock' = sock /\ list' = list /\ queue' = queue /\ holds' = holds /\ th' = th /\ in' = in
      /\ out' = out /\ peer' = peer /\ UNCHANGED well
  BY <1>1 DEF kernel, net
<1>. QED
  BY <1>1, <1>2, RxDone, WellIs, RxMoves

LEMMA InEstablishedStep ==
    ASSUME Inv, InEstablished
    PROVE  Inv'
<1>1. rx.pc = "input" /\ At.st = "ESTABLISHED" /\ list' = list /\ queue' = queue /\ holds' = holds
      /\ in' = in /\ out' = out /\ peer' = peer
  BY DEF InEstablished, net
<1>2. PICK i \in Sock : i = rx.s
  BY <1>1, RxAt
<1>3. PICK a \in SockRec, d \in Seq(Int), n \in Nat, q \in Int, k \in Int :
          a = sock[i] /\ At = a /\ d = Got.data /\ n = Len(d) /\ q = Got.seq /\ k = Got.ack
  <2>1. Len(Got.data) \in Nat
    BY <1>1, RxAt
  <2>. QED
    BY <1>1, <1>2, <2>1, RxAt DEF At
<1>4. Unanswered => WellTyped' /\ Done
  <2>1. rx.from \in Remote
    BY <1>1, RxAt
  <2>. QED
    BY <2>1, WellIs DEF Unanswered
<1>5. CASE Done /\ UNCHANGED <<sock, th, well>>
  <2>1. WellTyped'
    BY <1>5, WellIs DEF well
  <2>. QED
    BY <1>1, <1>5, <2>1, RxDone, RxMoves
<1>6. CASE /\ Answered(Seg("ACK", At.seq, Got.seq + n, 0, <<>>), "reply") \/ Unanswered
           /\ UNCHANGED <<sock, th>>
  <2>1. CASE Unanswered
    BY <1>1, <1>4, <1>6, <2>1, RxDone, RxMoves
  <2>2. CASE Answered(Seg("ACK", At.seq, Got.seq + n, 0, <<>>), "reply")
    <3>1. PICK m \in Int, o \in Int, z \in Int : m = a.seq /\ o = q + n /\ z = 0
      BY SockFields
    <3>2. PICK g \in SegRec : g = Seg("ACK", m, o, z, <<>>)
      BY AnswerTyped
    <3>3. Then(g, "reply") /\ UNCHANGED well
      BY <1>3, <2>2, <3>1, <3>2 DEF Answered
    <3>4. PlacesKept
      BY <1>6 DEF PlacesKept
    <3>5. rx' \in RxRec /\ RxOk' /\ rx'.from \in {rx.from, None} /\ WellTyped'
      BY <1>1, <3>3, <3>4, RxAnswers, WellIs
    <3>. QED
      BY <1>1, <1>6, <3>5, RxMoves
  <2>. QED
    BY <1>6, <2>1, <2>2
<1>7. CASE /\ sock' = [sock EXCEPT ![rx.s] = [Stored(At, Got.data) EXCEPT !.ack = Got.seq + n, !.seq = Got.ack]]
           /\ th' = Wakeup(rx.s)
           /\ \/ /\ Then(Seg("ACK", Got.ack, Got.seq + n,
                             Room([Stored(At, Got.data) EXCEPT !.ack = Got.seq + n, !.seq = Got.ack]), <<>>),
                         "reply")
                 /\ outTrouble' = IF Got.ack # At.seq THEN outTrouble \cup {rx.from} ELSE outTrouble
                 /\ UNCHANGED <<faults, inTrouble>>
              \/ Unanswered
  <2>1. PICK o \in Int : o = q + n
    OBVIOUS
  <2>2. PICK s \in SockRec : /\ s = [Stored(a, d) EXCEPT !.ack = o, !.seq = k]
                             /\ s.mem = a.mem /\ s.st = a.st /\ s.port = a.port /\ s.remote = a.remote
    <3>1. PICK x : x = StoredAs(a, d, o, k)
      OBVIOUS
    <3>2. x \in SockRec /\ x.mem = a.mem /\ x.st = a.st /\ x.port = a.port /\ x.remote = a.remote
      BY <3>1, StoredTyped
    <3>. QED
      BY <3>1, <3>2 DEF StoredAs
  <2>3. sock' = [sock EXCEPT ![i] = s] /\ th' = Wakeup(i)
    BY <1>2, <1>3, <1>7, <2>1, <2>2
  <2>4. sock' \in [Sock -> SockRec] /\ sock'[i] = s /\ \A j \in Sock : j # i => sock'[j] = sock[j]
    BY <2>3, InvIs, SockSet
  <2>5. PlacesKept
    BY <1>3, <2>2, <2>4 DEF PlacesKept
  <2>6. th' \in [Thread -> CallRec] /\ CallsKept /\ SleepersKept
    BY <1>1, <2>3, <2>4, <2>5, WakeupKept
  <2>7. rx' \in RxRec /\ RxOk' /\ rx'.from \in {rx.from, None} /\ WellTyped'
    <3>1. CASE Unanswered
      BY <1>4, <3>1, RxDone
    <3>2. CASE /\ Then(Seg("ACK", Got.ack, Got.seq + n,
                           Room([Stored(At, Got.data) EXCEPT !.ack = Got.seq + n, !.seq = Got.ack]), <<>>),
                       "reply")
               /\ outTrouble' = IF Got.ack # At.seq THEN outTrouble \cup {rx.from} ELSE outTrouble
               /\ UNCHANGED <<faults, inTrouble>>
      <4>1. PICK z \in Int : z = Room(s)
        BY RingTyped
      <4>2. PICK g \in SegRec : g = Seg("ACK", k, o, z, <<>>)
        BY AnswerTyped
      <4>3. Then(g, "reply")
        BY <1>3, <2>1, <2>2, <3>2, <4>1, <4>2
      <4>4. WellTyped'
        BY <1>1, <3>2, InvIs, RxAt DEF WellTyped
      <4>. QED
        BY <1>1, <2>5, <4>3, <4>4, RxAnswers
    <3>. QED
      BY <1>7, <3>1, <3>2
  <2>. QED
    BY <1>1, <2>4, <2>5, <2>6, <2>7, SockMoves
<1>. QED
  BY <1>3, <1>5, <1>6, <1>7 DEF InEstablished

\* tcp_input_lookup finds a socket of the list: the session, or the listener
\* when there is no session with this host.
LEMMA LookupFinds ==
    ASSUME Inv, NEW r \in Remote, NEW p, NEW i, i = Lookup(r, p), i # None
    PROVE  /\ i \in Listed
           /\ sock[i].st = "LISTEN" \/ sock[i].remote = r
           /\ sock[i].st = "LISTEN" => \A j \in Listed : sock[j].st # "LISTEN" => sock[j].remote # r
<1>1. list \in Seq(Sock) /\ DOMAIN list = 1 .. Len(list) /\ Len(list) \in Nat
  BY InvIs DEF KernelTyped
<1>2. CASE Matching(r, p) # {}
  <2>1. Matching(r, p) \in SUBSET Nat
    BY <1>1 DEF Matching
  <2>2. PICK k \in Matching(r, p) : k = Min(Matching(r, p))
    BY <1>2, <2>1, MinIsIn, SMTT(30)
  <2>3. i = list[k] /\ k \in DOMAIN list /\ sock[list[k]].st # "LISTEN" /\ sock[list[k]].remote = r
    BY <1>2, <2>2 DEF Lookup, Matching
  <2>. QED
    BY <2>3 DEF Listed
<1>3. CASE Matching(r, p) = {}
  <2>0. Listening(p) # {} /\ i = list[Max(Listening(p))]
    BY <1>3 DEF Lookup
  <2>1. Listening(p) \in SUBSET (1 .. Len(list))
    BY <1>1 DEF Listening
  <2>2. PICK k \in Listening(p) : k = Max(Listening(p))
    BY <1>1, <2>0, <2>1, MaxIsIn
  <2>3. i = list[k] /\ k \in DOMAIN list /\ sock[i].st = "LISTEN" /\ sock[i].port = p
    BY <2>0, <2>2 DEF Listening
  <2>4. i \in Listed /\ i \in Sock
    BY <1>1, <2>3 DEF Listed
  <2>5. p = WellKnown
    <3>1. sock[i].remote = None /\ sock[i].mem = "live"
      BY <2>3, <2>4, InvIs DEF Modes, Blocks
    <3>2. sock[i].port \in {-1, WellKnown} /\ sock[i].port >= 0
      BY <2>4, <3>1, InvIs DEF Modes
    <3>. QED
      BY <2>3, <3>2
  <2>6. ASSUME NEW j \in Listed, sock[j].st # "LISTEN" PROVE sock[j].remote # r
    <3>1. j \in Sock /\ sock[j].mem = "live"
      BY InvIs DEF Blocks
    <3>2. sock[j].port \in {-1, WellKnown} /\ sock[j].port >= 0
      <4>1. sock[i].port = WellKnown
        BY <2>3, <2>5
      <4>. QED
        BY <2>4, <3>1, <4>1, InvIs DEF Modes
    <3>3. sock[j].port = p
      BY <2>5, <3>2
    <3>4. PICK l \in DOMAIN list : list[l] = j
      BY DEF Listed
    <3>. QED
      BY <1>3, <2>6, <3>3, <3>4 DEF Matching
  <2>. QED
    BY <2>3, <2>4, <2>6
<1>. QED
  BY <1>2, <1>3

LEMMA RxTakeStep ==
    ASSUME Inv, NEW r \in Remote, RxTake(r)
    PROVE  Inv'
<1>1. /\ rx = Idle /\ in[r] # <<>> /\ in' = [in EXCEPT ![r] = Tail(@)]
      /\ sock' = sock /\ list' = list /\ queue' = queue /\ th' = th /\ holds' = holds
      /\ out' = out /\ peer' = peer /\ UNCHANGED well
  BY DEF RxTake, kernel
<1>2. in[r] \in Seq(Wire) /\ in \in [Remote -> Seq(Wire)]
  BY InvIs DEF NetTyped
<1>3. PICK h \in Wire : h = Head(in[r])
  BY <1>1, <1>2
<1>4. PICK p \in Int, g \in SegRec : p = h.port /\ g = h.seg
  BY DEF Wire
<1>5. in' \in [Remote -> Seq(Wire)] /\ \A q \in Remote : q # r => in'[q] = in[q]
  <2>1. Tail(in[r]) \in Seq(Wire)
    BY <1>1, <1>2
  <2>. QED
    BY <1>1, <1>2, <2>1
<1>6. PICK i : i = Lookup(r, p)
  OBVIOUS
<1>7. rx' = IF i = None THEN rx
            ELSE [Idle EXCEPT !.pc = "input", !.s = i, !.from = r, !.seg = g, !.port = p]
  BY <1>3, <1>4, <1>6 DEF RxTake
<1>8. /\ rx' \in RxRec
      /\ \/ rx' = rx
         \/ rx'.pc = "input" /\ rx'.s = i /\ rx'.from = r /\ i # None
  <2>1. CASE i = None
    BY <1>7, <2>1, InvIs DEF CallsTyped
  <2>2. CASE i # None
    <3>1. i \in Sock
      BY <1>6, <2>2, InvIs, LookupFinds
    <3>2. PICK z \in RxRec : z = Idle
      BY Nothing
    <3>3. rx' = [z EXCEPT !.pc = "input", !.s = i, !.from = r, !.seg = g, !.port = p]
      BY <1>7, <2>2, <3>2
    <3>. QED
      BY <2>2, <3>1, <3>3 DEF RxRec
  <2>. QED
    BY <2>1, <2>2
<1>9. rx' = rx \/ RxOk'
  <2>. SUFFICES ASSUME rx'.pc = "input", rx'.s = i, rx'.from = r, i # None PROVE RxOk'
    BY <1>8
  <2>1. /\ i \in Listed
        /\ sock[i].st = "LISTEN" \/ sock[i].remote = r
        /\ sock[i].st = "LISTEN" => \A j \in Listed : sock[j].st # "LISTEN" => sock[j].remote # r
    BY <1>6, LookupFinds
  <2>2. i \in Sock /\ sock[i].mem = "live" /\ r # None
    BY <2>1, InvIs, Sizes DEF Blocks
  <2>3. Listed' = Listed
    BY <1>1 DEF Listed
  <2>. QED
    BY <1>1, <2>1, <2>2, <2>3 DEF RxOk
<1>10. Types'
  <2>1. WellTyped'
    BY <1>1, WellIs
  <2>. QED
    BY <1>1, <1>5, <1>8, <2>1, InvIs DEF Types, KernelTyped, CallsTyped, NetTyped
<1>11. Objects'
  BY <1>1, <1>9, InvIs, SameObjects
<1>12. Quietness'
  <2>1. ASSUME NEW q \in Remote, Silent(q) PROVE Silent(q)'
    <3>1. q # r
      BY <1>1, <2>1 DEF Silent
    <3>. QED
      BY <1>1, <1>5, <1>8, <2>1, <3>1 DEF Silent
  <2>2. Unsaid'
    BY <1>1, <2>1, InvIs DEF Quietness, Unsaid
  <2>3. Unheard'
    <3>. SUFFICES ASSUME NEW t \in Thread, NEW j \in holds[t], sock[j].remote # None,
                         sock[j].st = "CLOSED" \/ (th[t].pc = "out" /\ th[t].op = "connect" /\ th[t].s = j),
                         NEW q, q = sock[j].remote
                  PROVE  Silent(q)' /\ peer[q].st = "closed"
      BY <1>1 DEF Unheard, Silent
    <3>1. Silent(q) /\ peer[q].st = "closed"
      BY InvIs DEF Quietness, Unheard
    <3>2. q \in Remote
      BY InvIs, SockFields
    <3>. QED
      BY <2>1, <3>1, <3>2
  <2>. QED
    BY <2>2, <2>3 DEF Quietness
<1>13. Attended'
  <2>1. KernelTyped' /\ QueueOk' /\ \A j \in Sock : Queued(j)' => Queued(j)
    BY <1>1, <1>10, <1>11 DEF Types, Objects, Queued
  <2>. QED
    BY <1>1, <2>1, InvIs, SameAttended
<1>. QED
  BY <1>10, <1>11, <1>12, <1>13 DEF Inv

LEMMA RxReplyStep ==
    ASSUME Inv, RxReply
    PROVE  Inv'
<1>1. /\ rx.pc \in {"reply", "last"} /\ out' = [out EXCEPT ![rx.from] = Append(@, On(rx.port, Got))]
      /\ rx' = IF rx.pc = "reply" THEN Idle ELSE [rx EXCEPT !.pc = "unlink", !.seg = NoSeg]
      /\ sock' = sock /\ list' = list /\ queue' = queue /\ th' = th /\ holds' = holds
      /\ in' = in /\ peer' = peer /\ UNCHANGED well
  BY DEF RxReply, kernel
<1>2. PICK r \in Remote : r = rx.from
  BY <1>1, RxAt
<1>3. out' \in [Remote -> Seq(Wire)] /\ \A q \in Remote : q # r => out'[q] = out[q]
  <2>1. rx.port \in Int /\ Got \in SegRec
    BY InvIs, RxSet
  <2>2. On(rx.port, Got) \in Wire
    BY <2>1 DEF On, Wire
  <2>3. PICK w \in Wire : w = On(rx.port, Got)
    BY <2>2
  <2>4. out \in [Remote -> Seq(Wire)] /\ out[r] \in Seq(Wire)
    BY InvIs DEF NetTyped
  <2>5. Append(out[r], w) \in Seq(Wire)
    BY <2>4
  <2>6. out' = [out EXCEPT ![r] = Append(out[r], w)]
    BY <1>1, <1>2, <2>3
  <2>. QED
    BY <2>4, <2>5, <2>6
<1>4. /\ rx' \in RxRec
      /\ \/ rx'.pc = "idle" /\ rx'.s = None /\ rx'.from = None
         \/ rx.pc = "last" /\ rx'.pc = "unlink" /\ rx'.s = rx.s /\ rx'.from = rx.from
  <2>1. rx \in RxRec /\ Idle \in RxRec /\ NoSeg \in SegRec
    BY InvIs, Nothing DEF CallsTyped
  <2>2. [rx EXCEPT !.pc = "unlink", !.seg = NoSeg] \in RxRec
    BY <2>1 DEF RxRec
  <2>3. LET x == [rx EXCEPT !.pc = "unlink", !.seg = NoSeg]
        IN  x.pc = "unlink" /\ x.s = rx.s /\ x.from = rx.from
    BY <2>1 DEF RxRec
  <2>4. Idle.pc = "idle" /\ Idle.s = None /\ Idle.from = None
    BY DEF Idle
  <2>. QED
    BY <1>1, <2>1, <2>2, <2>3, <2>4
<1>5. RxOk'
  <2>1. RxOk
    BY InvIs
  <2>2. CASE rx'.pc = "idle" /\ rx'.s = None /\ rx'.from = None
    BY <2>2 DEF RxOk
  <2>3. CASE rx.pc = "last" /\ rx'.pc = "unlink" /\ rx'.s = rx.s /\ rx'.from = rx.from
    BY <1>1, <2>1, <2>3 DEF RxOk, Held, Queued
  <2>. QED
    BY <1>4, <2>2, <2>3
<1>6. Types'
  <2>1. WellTyped'
    BY <1>1, WellIs
  <2>. QED
    BY <1>1, <1>3, <1>4, <2>1, InvIs DEF Types, KernelTyped, CallsTyped, NetTyped
<1>7. Objects'
  BY <1>1, <1>5, InvIs, SameObjects
<1>8. Quietness'
  <2>1. ASSUME NEW q \in Remote, Silent(q) PROVE Silent(q)'
    <3>1. q # r
      BY <1>2, <2>1 DEF Silent
    <3>. QED
      BY <1>1, <1>2, <1>3, <1>4, <2>1, <3>1, Sizes DEF Silent
  <2>2. Unsaid'
    BY <1>1, <2>1, InvIs DEF Quietness, Unsaid
  <2>3. Unheard'
    <3>. SUFFICES ASSUME NEW t \in Thread, NEW j \in holds[t], sock[j].remote # None,
                         sock[j].st = "CLOSED" \/ (th[t].pc = "out" /\ th[t].op = "connect" /\ th[t].s = j),
                         NEW q, q = sock[j].remote
                  PROVE  Silent(q)' /\ peer[q].st = "closed"
      BY <1>1 DEF Unheard, Silent
    <3>1. Silent(q) /\ peer[q].st = "closed"
      BY InvIs DEF Quietness, Unheard
    <3>2. q \in Remote
      BY InvIs, SockFields
    <3>. QED
      BY <2>1, <3>1, <3>2
  <2>. QED
    BY <2>2, <2>3 DEF Quietness
<1>9. Attended'
  <2>1. KernelTyped' /\ QueueOk' /\ \A j \in Sock : Queued(j)' => Queued(j)
    BY <1>1, <1>6, <1>7 DEF Types, Objects, Queued
  <2>. QED
    BY <1>1, <2>1, InvIs, SameAttended
<1>. QED
  BY <1>6, <1>7, <1>8, <1>9 DEF Inv

LEMMA InListenSynStep ==
    ASSUME Inv, InListenSyn
    PROVE  Inv'
<1>1. rx.pc = "input" /\ At.st = "LISTEN" /\ sock' = sock /\ list' = list /\ th' = th /\ holds' = holds
      /\ in' = in /\ out' = out /\ peer' = peer
  BY DEF InListenSyn, net
<1>2. CASE Unanswered /\ queue' = queue
  <2>1. rx.from \in Remote
    BY <1>1, RxAt
  <2>2. WellTyped' /\ Done
    BY <1>2, <2>1, WellIs DEF Unanswered
  <2>. QED
    BY <1>1, <1>2, <2>2, RxDone, RxMoves
<1>3. CASE /\ queue' = <<[r |-> rx.from, seq |-> At.seq, s |-> None]>> \o queue
           /\ Answered(Seg("SYNACK", At.seq, Got.seq + 1, Offer, <<>>), "reply")
  <2>1. PICK a \in Int, b \in Int, w \in Int, h \in Remote : a = At.seq /\ b = Got.seq + 1 /\ w = Offer /\ h = rx.from
    <3>1. sock[rx.s] \in SockRec /\ Got.seq \in Int /\ rx.from \in Remote
      BY <1>1, RxAt
    <3>2. At.seq \in Int
      BY <3>1, SockFields DEF At
    <3>3. Got.seq + 1 \in Int /\ Offer \in Int
      BY <3>1, Sizes
    <3>. QED
      BY <3>1, <3>2, <3>3
  <2>2. PICK q \in QueueRec : q = [r |-> h, seq |-> a, s |-> None] /\ q.s = None
    <3>1. [r |-> h, seq |-> a, s |-> None] \in QueueRec
      BY DEF QueueRec
    <3>. QED
      BY <3>1
  <2>3. queue' = <<q>> \o queue
    BY <1>3, <2>1, <2>2
  <2>4. /\ queue' \in Seq(QueueRec)
        /\ \A i \in Sock : Queued(i)' <=> Queued(i)
        /\ \A k, l \in DOMAIN queue' : queue'[k].s # None /\ queue'[k].s = queue'[l].s => k = l
    BY <2>2, <2>3, InvIs, HalfOpenEnters
  <2>5. PICK g \in SegRec : g = Seg("SYNACK", a, b, w, <<>>)
    BY AnswerTyped
  <2>6. Then(g, "reply") /\ UNCHANGED well
    BY <1>3, <2>1, <2>5 DEF Answered
  <2>7. PlacesKept
    BY <1>1 DEF PlacesKept
  <2>8. rx' \in RxRec /\ RxOk' /\ rx'.from \in {rx.from, None} /\ WellTyped'
    BY <1>1, <2>6, <2>7, RxAnswers, WellIs
  <2>9. Types'
    BY <1>1, <2>4, <2>8, InvIs DEF Types, KernelTyped, CallsTyped, NetTyped
  <2>10. Objects'
    <3>1. Listed' = Listed /\ \A i : Held(i)' <=> Held(i)
      BY <1>1 DEF Listed, Held
    <3>2. Once' /\ Blocks' /\ Modes' /\ OneEach' /\ HoldsOk'
      BY <1>1, <2>4, <3>1, InvIs DEF Once, Blocks, Modes, OneEach, HoldsOk
    <3>3. QueueOk' /\ FinOk'
      BY <1>1, <2>4, <3>1, InvIs DEF QueueOk, FinOk
    <3>4. ThreadsOk'
      BY <1>1, <2>4, <3>1, CallKnows DEF ThreadsOk, CallOk
    <3>. QED
      BY <2>8, <3>2, <3>3, <3>4 DEF Objects
  <2>11. Quietness'
    BY <1>1, <2>8, InvIs, SameQuiet
  <2>12. Attended'
    <3>1. KernelTyped' /\ QueueOk'
      BY <2>9, <2>10 DEF Types, Objects
    <3>. QED
      BY <1>1, <2>4, <3>1, InvIs, SameAttended
  <2>. QED
    BY <2>9, <2>10, <2>11, <2>12 DEF Inv
<1>. QED
  BY <1>2, <1>3 DEF InListenSyn

-----------------------------------------------------------------------------
(* One socket's state changes.                                             *)

OthersKept(i) == \A j \in Sock : j # i => sock'[j] = sock[j]
PlaceKept(i) == sock'[i].mem = sock[i].mem /\ sock'[i].port = sock[i].port /\ sock'[i].remote = sock[i].remote
HoldsShrink == holds' \in [Thread -> SUBSET Sock] /\ \A t \in Thread : holds'[t] \subseteq holds[t]
\* The calls that go on are not about socket i, or are right all the same.
CallsAway(i) ==
    \A t \in Thread :
        \/ CallOk(t)' /\ ~(th'[t].pc = "out" /\ th'[t].op = "connect")
        \/ th'[t] = th[t] /\ holds'[t] = holds[t] /\ th[t].s # i
\* The new state fits the socket: a listener has no remote host, a connection
\* has one; an open socket was open before; one that waits for a FIN has no owner.
StateFits(i) ==
    /\ sock[i].mem # "none" /\ ~Queued(i)
    /\ sock'[i].st = "LISTEN" => sock[i].remote = None
    /\ sock'[i].st \notin {"LISTEN", "CLOSED"} => sock[i].remote # None
    /\ sock'[i].st = "CLOSED" \/ sock[i].st # "CLOSED" \/ sock[i].remote = None
    /\ sock'[i].st = "FIN_WAIT_1" => sock[i].mem = "live" /\ ~Held(i)'
    /\ sock'[i].st = "CLOSED" /\ sock[i].port = WellKnown /\ Held(i)' => sock[i].remote = None
    /\ \A t \in Thread : i \in holds'[t] /\ sock'[i].st = "CLOSED" /\ sock[i].remote # None =>
          sock[i].st = "CLOSED" \/ (th[t].pc = "out" /\ th[t].op = "connect" /\ th[t].s = i)

LEMMA StateMoves ==
    ASSUME Inv, NEW i \in Sock, sock' \in [Sock -> SockRec], OthersKept(i), PlaceKept(i), HoldsShrink,
           CallsAway(i), StateFits(i), SleepersKept, list' = list, queue' = queue,
           in' = in, out' = out, peer' = peer, WellTyped', th' \in [Thread -> CallRec],
           rx' \in RxRec, RxOk', rx'.from \in {rx.from, None}
    PROVE  Inv'
<1>1. Types'
  BY InvIs DEF Types, KernelTyped, CallsTyped, NetTyped, HoldsShrink
<1>2. /\ Listed' = Listed /\ (\A j : Queued(j)' <=> Queued(j)) /\ (\A j : Held(j)' => Held(j))
  BY DEF Listed, Queued, Held, HoldsShrink
<1>3. \A j \in Sock : /\ sock'[j].mem = sock[j].mem /\ sock'[j].port = sock[j].port
                      /\ sock'[j].remote = sock[j].remote /\ (j # i => sock'[j].st = sock[j].st)
  BY DEF OthersKept, PlaceKept
<1>4. Once' /\ Blocks'
  BY <1>2, <1>3, InvIs DEF Once, Blocks, StateFits
<1>5. Modes'
  <2>1. \A j \in Sock : sock'[j].mem # "none" => sock'[j].port >= 0
    BY <1>3, InvIs DEF Modes
  <2>2. \A j, k \in Sock : sock'[j].port = WellKnown => sock'[k].port \in {-1, WellKnown}
    BY <1>3, InvIs DEF Modes
  <2>3. \A j, k \in Sock :
          /\ sock'[j].mem # "none" /\ sock'[k].mem # "none" /\ sock'[j].remote = sock'[k].remote
          /\ sock'[j].port # WellKnown \/ sock'[j].remote = None
          => j = k
    BY <1>3, InvIs DEF Modes
  <2>4. \A j \in Sock : sock'[j].st = "LISTEN" => sock'[j].remote = None
    BY <1>3, InvIs DEF Modes, StateFits
  <2>5. \A j \in Sock : sock'[j].remote = None =>
            sock'[j].st \in {"LISTEN", "CLOSED"} /\ sock'[j].port \in {-1, WellKnown}
    BY <1>3, InvIs DEF Modes, StateFits
  <2>. QED
    BY <2>1, <2>2, <2>3, <2>4, <2>5 DEF Modes
<1>6. OneEach'
  <2>. SUFFICES ASSUME NEW j \in Listed, NEW k \in Listed, j # k, sock'[j].st # "CLOSED",
                       sock'[k].st # "CLOSED", sock[j].remote = sock[k].remote
                PROVE  FALSE
    BY <1>2, <1>3, InvIs DEF OneEach
  <2>1. j \in Sock /\ k \in Sock /\ sock[j].mem = "live" /\ sock[k].mem = "live"
    BY InvIs DEF Blocks
  <2>2. CASE sock[j].remote = None
    BY <2>1, <2>2, InvIs DEF Modes
  <2>3. CASE sock[j].remote # None
    <3>1. sock[j].st # "CLOSED" /\ sock[k].st # "CLOSED"
      BY <1>3, <2>1, <2>3 DEF StateFits
    <3>. QED
      BY <3>1, InvIs DEF OneEach
  <2>. QED
    BY <2>2, <2>3
<1>7. QueueOk' /\ FinOk'
  BY <1>2, <1>3, InvIs DEF QueueOk, FinOk, StateFits
<1>8. HoldsOk'
  <2>1. \A t, u \in Thread : t # u => holds'[t] \cap holds'[u] = {}
    BY InvIs DEF HoldsOk, HoldsShrink
  <2>2. ASSUME NEW t \in Thread, NEW j \in holds'[t]
        PROVE  /\ sock'[j].mem = "live" /\ sock'[j].st # "FIN_WAIT_1"
               /\ sock'[j].port = WellKnown /\ sock'[j].st = "CLOSED" => sock'[j].remote = None
    <3>1. j \in holds[t] /\ j \in Sock /\ Held(j)'
      BY InvIs DEF HoldsShrink, Held
    <3>2. CASE j = i
      BY <1>3, <3>1, <3>2, InvIs DEF StateFits, HoldsOk
    <3>3. CASE j # i
      BY <1>3, <3>1, <3>3, InvIs DEF HoldsOk
    <3>. QED
      BY <3>2, <3>3
  <2>. QED
    BY <2>1, <2>2 DEF HoldsOk
<1>9. ThreadsOk'
  <2>. SUFFICES ASSUME NEW t \in Thread, th'[t] = th[t], holds'[t] = holds[t], th[t].s # i
                PROVE  CallOk(t)'
    BY DEF ThreadsOk, CallsAway
  <2>1. CallOk(t) /\ th[t].s \in Sock \cup {None}
        /\ (th[t].pc \in {"test", "asleep"} => th[t].s \in Sock) /\ (th[t].pc = "out" => th[t].s \in Sock)
    BY CallKnows
  <2>. QED
    BY <1>2, <1>3, <2>1 DEF CallOk
<1>10. Objects'
  BY <1>4, <1>5, <1>6, <1>7, <1>8, <1>9 DEF Objects
<1>11. Quietness'
  <2>1. \A t \in Thread : \A j \in holds'[t] :
            /\ sock'[j].remote # None
            /\ sock'[j].st = "CLOSED" \/ (th'[t].pc = "out" /\ th'[t].op = "connect" /\ th'[t].s = j)
            => /\ j \in holds[t] /\ sock[j].remote # None /\ sock'[j].remote = sock[j].remote
               /\ sock[j].st = "CLOSED" \/ (th[t].pc = "out" /\ th[t].op = "connect" /\ th[t].s = j)
    <3>. SUFFICES ASSUME NEW t \in Thread, NEW j \in holds'[t], sock'[j].remote # None,
                         sock'[j].st = "CLOSED" \/ (th'[t].pc = "out" /\ th'[t].op = "connect" /\ th'[t].s = j)
                  PROVE  /\ j \in holds[t] /\ sock[j].remote # None /\ sock'[j].remote = sock[j].remote
                         /\ sock[j].st = "CLOSED" \/ (th[t].pc = "out" /\ th[t].op = "connect" /\ th[t].s = j)
      OBVIOUS
    <3>1. j \in holds[t] /\ j \in Sock /\ sock[j].remote # None /\ sock'[j].remote = sock[j].remote
      BY <1>3, InvIs DEF HoldsShrink
    <3>2. CASE j = i
      BY <3>1, <3>2 DEF StateFits, CallsAway
    <3>3. CASE j # i
      BY <1>3, <3>1, <3>3 DEF CallsAway
    <3>. QED
      BY <3>1, <3>2, <3>3
  <2>2. \A j \in Sock : sock[j].remote # None => sock'[j].remote = sock[j].remote
    BY <1>3
  <2>. QED
    BY <2>1, <2>2, InvIs, SameQuiet
<1>12. Attended'
  <2>1. KernelTyped' /\ QueueOk' /\ \A j \in Sock : Queued(j)' => Queued(j)
    BY <1>1, <1>2, <1>7 DEF Types
  <2>. QED
    BY <2>1, InvIs, SameAttended DEF SleepersKept
<1>. QED
  BY <1>1, <1>10, <1>11, <1>12 DEF Inv

\* The receive thread stays where it is: at a listener still, or at a
\* connection with the host it has heard from.
LEMMA RxStays ==
    ASSUME Inv, NEW i \in Sock, OthersKept(i), PlaceKept(i), HoldsShrink, list' = list, queue' = queue,
           rx' = rx, sock[i].st # "LISTEN", sock'[i].st # "LISTEN",
           sock'[i].st = "CLOSED" \/ sock[i].st # "CLOSED"
    PROVE  RxOk'
<1>1. /\ Listed' = Listed /\ (\A j : Queued(j)' <=> Queued(j)) /\ (\A j : Held(j)' => Held(j))
  BY DEF Listed, Queued, Held, HoldsShrink
<1>2. \A j \in Sock : /\ sock'[j].mem = sock[j].mem /\ sock'[j].remote = sock[j].remote
                      /\ (j # i => sock'[j].st = sock[j].st)
  BY DEF OthersKept, PlaceKept
<1>3. RxOk /\ Listed \subseteq Sock
  BY InvIs
<1>4. rx.pc = "idle" => rx.s = None /\ rx.from = None
  BY <1>3 DEF RxOk
<1>5. ASSUME rx.pc # "idle"
      PROVE  /\ rx.s \in Sock /\ sock'[rx.s].mem = "live" /\ rx.from # None
             /\ sock'[rx.s].st = "LISTEN" \/ sock'[rx.s].remote = rx.from
  BY <1>2, <1>3, <1>5 DEF RxOk
<1>6. ASSUME rx.pc = "input", sock'[rx.s].st = "LISTEN"
      PROVE  \A j \in Listed : sock'[j].st # "LISTEN" => sock'[j].remote # rx.from
  BY <1>2, <1>3, <1>5, <1>6 DEF RxOk
<1>7. ASSUME rx.pc \in {"last", "unlink"}
      PROVE  sock'[rx.s].st = "CLOSED" /\ ~Held(rx.s)' /\ ~Queued(rx.s)'
  BY <1>1, <1>2, <1>3, <1>5, <1>7 DEF RxOk
<1>. QED
  BY <1>1, <1>4, <1>5, <1>6, <1>7 DEF RxOk, Held, Queued

\* One socket is set, and its place is kept.
LEMMA SockStays ==
    ASSUME Inv, NEW i \in Sock, NEW s \in SockRec, sock' = [sock EXCEPT ![i] = s],
           s.mem = sock[i].mem, s.port = sock[i].port, s.remote = sock[i].remote
    PROVE  sock' \in [Sock -> SockRec] /\ sock'[i] = s /\ OthersKept(i) /\ PlaceKept(i)
<1>1. sock' \in [Sock -> SockRec] /\ sock'[i] = s /\ \A j \in Sock : j # i => sock'[j] = sock[j]
  BY InvIs, SockSet
<1>. QED
  BY <1>1 DEF OthersKept, PlaceKept

\* Nobody sleeps on this socket.
LEMMA SleepersElsewhere ==
    ASSUME Inv, NEW i \in Sock, OthersKept(i),
           \A t \in Thread : th'[t].pc # "asleep" \/ (th'[t] = th[t] /\ ~(th[t].op = "recv" /\ th[t].s = i))
    PROVE  SleepersKept
<1>. SUFFICES ASSUME NEW t \in Thread, th'[t].pc = "asleep", th[t].op = "recv"
              PROVE  th'[t] = th[t] /\ sock'[th[t].s] = sock[th[t].s]
  BY DEF SleepersKept
<1>1. th'[t] = th[t] /\ th[t].s # i /\ th[t].s \in Sock
  BY CallKnows
<1>. QED
  BY <1>1 DEF OthersKept

LEMMA ListenStep ==
    ASSUME Inv, NEW t \in Thread, Listen(t)
    PROVE  Inv'
<1>1. PICK i \in holds[t] : /\ sock[i].port = WellKnown /\ sock[i].st = "CLOSED"
                            /\ sock' = [sock EXCEPT ![i].st = "LISTEN"]
  BY DEF Listen
<1>2. /\ list' = list /\ queue' = queue /\ th' = th /\ holds' = holds /\ rx' = rx /\ in' = in /\ out' = out
      /\ peer' = peer /\ UNCHANGED well
  BY DEF Listen, net
<1>3. PICK a \in SockRec, k \in Sock : a = sock[i] /\ k = i
  BY InvIs
<1>4. PICK x \in States : x = "LISTEN"
  BY DEF States
<1>5. PICK s \in SockRec : /\ s = [a EXCEPT !.st = x] /\ s.st = x /\ s.mem = a.mem /\ s.port = a.port
                           /\ s.remote = a.remote
  BY SockWith, ZenonT(30)
<1>6. sock' = [sock EXCEPT ![k] = s]
  BY <1>1, <1>3, <1>4, <1>5, InvIs DEF KernelTyped
<1>7. sock' \in [Sock -> SockRec] /\ sock'[k] = s /\ OthersKept(k) /\ PlaceKept(k)
  BY <1>3, <1>5, <1>6, SockStays
<1>8. sock[k].mem = "live" /\ sock[k].remote = None /\ Held(k) /\ ~Queued(k)
  BY <1>1, <1>3, InvIs DEF HoldsOk, Held, QueueOk
<1>9. HoldsShrink /\ WellTyped' /\ th' \in [Thread -> CallRec] /\ rx' \in RxRec
  BY <1>2, InvIs, WellIs DEF HoldsShrink, CallsTyped
<1>10. \A j \in Sock : sock[j].mem = "live" /\ sock[j].st = "LISTEN" => FALSE
  BY <1>1, <1>3, <1>8, InvIs DEF Modes
<1>11. StateFits(k)
  BY <1>3, <1>4, <1>5, <1>7, <1>8 DEF StateFits
<1>12. RxOk'
  <2>1. rx.pc # "idle" => rx.s # k /\ sock[rx.s].st # "LISTEN"
    BY <1>1, <1>3, <1>8, <1>10, InvIs DEF RxOk
  <2>2. Listed' = Listed /\ RxOk
    BY <1>2, InvIs DEF Listed
  <2>3. rx.pc # "idle" => rx.s \in Sock /\ sock'[rx.s] = sock[rx.s]
    BY <1>7, <2>1, <2>2 DEF RxOk, OthersKept
  <2>. QED
    BY <1>2, <2>1, <2>2, <2>3 DEF RxOk, Held, Queued
<1>13. CallsAway(k)
  <2>. SUFFICES ASSUME NEW u \in Thread, th[u].s = k
                PROVE  CallOk(u)' /\ th[u].pc # "out"
    BY <1>2 DEF CallsAway
  <2>1. CallOk(u) /\ th[u].pc # "out"
    BY <1>8, CallKnows DEF CallOk
  <2>. QED
    BY <1>2, <1>4, <1>5, <1>7, <2>1 DEF CallOk
<1>14. SleepersKept
  <2>1. ASSUME NEW u \in Thread, th[u].pc = "asleep", th[u].op = "recv" PROVE th[u].s # k
    <3>1. th[t].pc = "user"
      BY DEF Listen, User
    <3>2. th[u].s \in holds[u] /\ u # t
      BY <2>1, <3>1, CallKnows
    <3>. QED
      BY <1>1, <1>3, <3>2, InvIs DEF HoldsOk
  <2>. QED
    BY <1>2, <1>7, <2>1, SleepersElsewhere
<1>. QED
  BY <1>2, <1>7, <1>9, <1>11, <1>12, <1>13, <1>14, StateMoves

LEMMA CloseStep ==
    ASSUME Inv, NEW t \in Thread, NEW i \in Sock, Close(t, i)
    PROVE  Inv'
<1>1. /\ th[t] = User /\ i \in holds[t] /\ holds' = [holds EXCEPT ![t] = @ \ {i}]
      /\ list' = list /\ queue' = queue /\ rx' = rx /\ in' = in /\ out' = out
      /\ peer' = peer /\ UNCHANGED well
  BY DEF Close, net
<1>2. PICK a \in SockRec : a = sock[i]
  BY InvIs
<1>3. a.seq \in Int /\ a.ack \in Int /\ Notice \in Int
  BY SockFields, Sizes
<1>4. \E s \in SockRec, c \in CallRec :
         /\ sock' = [sock EXCEPT ![i] = s] /\ s.mem = a.mem /\ s.port = a.port /\ s.remote = a.remote
         /\ s.st \in {"FIN_WAIT_1", "CLOSED"} /\ a.st \in {"ESTABLISHED", "SYN_SENT"}
         /\ Calling(t, c) /\ c.pc = "out" /\ c.op = "close" /\ c.s = i
  <2>1. CASE /\ sock[i].st = "ESTABLISHED"
             /\ sock' = [sock EXCEPT ![i].st = "FIN_WAIT_1", ![i].seq = @ + 1]
             /\ Calling(t, Sending(t, "close", i, Seg("FIN", sock[i].seq, sock[i].ack, Notice, <<>>)))
    <3>1. PICK x \in States, n \in Int : x = "FIN_WAIT_1" /\ n = a.seq + 1
      BY <1>3 DEF States
    <3>2. PICK s \in SockRec : /\ s = [a EXCEPT !.st = x, !.seq = n] /\ s.st = x /\ s.mem = a.mem
                               /\ s.port = a.port /\ s.remote = a.remote
      BY SockWith, ZenonT(30)
    <3>3. sock' = [sock EXCEPT ![i] = s]
      BY <1>2, <2>1, <3>1, <3>2, InvIs DEF KernelTyped
    <3>4. Seg("FIN", a.seq, a.ack, Notice, <<>>) \in SegRec
      BY <1>3, AnswerTyped
    <3>5. PICK c \in CallRec : /\ c = Sending(t, "close", i, Seg("FIN", a.seq, a.ack, Notice, <<>>))
                               /\ c.pc = "out" /\ c.op = "close" /\ c.s = i
      BY <3>4, SendingTyped
    <3>. QED
      BY <1>2, <2>1, <3>1, <3>2, <3>3, <3>5
  <2>2. CASE /\ sock[i].st = "SYN_SENT"
             /\ sock' = [sock EXCEPT ![i].st = "CLOSED"]
             /\ Calling(t, Sending(t, "close", i, Seg("RST", sock[i].seq, sock[i].ack, Notice, <<>>)))
    <3>1. PICK x \in States : x = "CLOSED"
      BY <1>3 DEF States
    <3>2. PICK s \in SockRec : /\ s = [a EXCEPT !.st = x] /\ s.st = x /\ s.mem = a.mem
                               /\ s.port = a.port /\ s.remote = a.remote
      BY SockWith, Zenon
    <3>3. sock' = [sock EXCEPT ![i] = s]
      BY <1>2, <2>2, <3>1, <3>2, InvIs DEF KernelTyped
    <3>4. Seg("RST", a.seq, a.ack, Notice, <<>>) \in SegRec
      BY <1>3, AnswerTyped
    <3>5. PICK c \in CallRec : /\ c = Sending(t, "close", i, Seg("RST", a.seq, a.ack, Notice, <<>>))
                               /\ c.pc = "out" /\ c.op = "close" /\ c.s = i
      BY <3>4, SendingTyped
    <3>. QED
      BY <1>2, <2>2, <3>1, <3>2, <3>3, <3>5
  <2>. QED
    BY <2>1, <2>2 DEF Close
<1>5. PICK s \in SockRec, c \in CallRec :
         /\ sock' = [sock EXCEPT ![i] = s] /\ s.mem = a.mem /\ s.port = a.port /\ s.remote = a.remote
         /\ s.st \in {"FIN_WAIT_1", "CLOSED"} /\ a.st \in {"ESTABLISHED", "SYN_SENT"}
         /\ Calling(t, c) /\ c.pc = "out" /\ c.op = "close" /\ c.s = i
  BY <1>4
<1>6. sock' \in [Sock -> SockRec] /\ sock'[i] = s /\ OthersKept(i) /\ PlaceKept(i)
  BY <1>2, <1>5, SockStays
<1>7. /\ th' \in [Thread -> CallRec] /\ th'[t] = c /\ \A u \in Thread : u # t => th'[u] = th[u]
  BY <1>5, InvIs, CallSet
<1>8. /\ holds' \in [Thread -> SUBSET Sock] /\ holds'[t] = holds[t] \ {i}
      /\ \A u \in Thread : u # t => holds'[u] = holds[u]
  BY <1>1, InvIs DEF CallsTyped
<1>9. HoldsShrink /\ WellTyped' /\ rx' \in RxRec
  BY <1>1, <1>8, InvIs, WellIs DEF HoldsShrink, CallsTyped
<1>10. sock[i].mem = "live" /\ sock[i].remote # None /\ ~Queued(i) /\ Held(i)
  BY <1>1, <1>2, <1>5, InvIs DEF HoldsOk, Modes, QueueOk, Held
<1>11. ~Held(i)'
  BY <1>1, <1>8, Exclusive DEF Held
<1>12. StateFits(i)
  BY <1>2, <1>5, <1>6, <1>10, <1>11 DEF StateFits, Held
<1>13. RxOk'
  BY <1>1, <1>2, <1>5, <1>6, <1>9, RxStays
<1>14. \A u \in Thread : u # t => th[u].s # i
  <2>. SUFFICES ASSUME NEW u \in Thread, u # t, th[u].s = i PROVE FALSE
    OBVIOUS
  <2>1. i \notin holds[u]
    BY <1>1, Exclusive
  <2>2. CallOk(u) /\ i # None /\ th[u] \in CallRec
    BY CallKnows, Sizes, InvIs, CallFields
  <2>3. th[u].pc \in {"user", "test", "asleep", "out"}
    BY <2>2 DEF CallRec
  <2>. QED
    BY <1>10, <2>1, <2>2, <2>3 DEF CallOk
<1>15. CallsAway(i)
  <2>1. CallOk(t)'
    <3>1. sock'[i].remote # None /\ sock'[i].mem # "none" /\ ~Queued(i)'
      BY <1>1, <1>6, <1>10 DEF PlaceKept, Queued
    <3>2. th'[t].pc = "out" /\ th'[t].op = "close" /\ th'[t].s = i
      BY <1>5, <1>7
    <3>3. sock'[i].st \in {"FIN_WAIT_1", "CLOSED"}
      BY <1>5, <1>6
    <3>. QED
      BY <1>11, <3>1, <3>2, <3>3 DEF CallOk, Held, Queued
  <2>. QED
    BY <1>5, <1>7, <1>8, <1>14, <2>1 DEF CallsAway
<1>16. SleepersKept
  BY <1>5, <1>6, <1>7, <1>14, SleepersElsewhere
<1>. QED
  BY <1>1, <1>6, <1>7, <1>9, <1>12, <1>13, <1>15, <1>16, StateMoves

LEMMA InSynSentStep ==
    ASSUME Inv, InSynSent
    PROVE  Inv'
<1>1. /\ rx.pc = "input" /\ At.st = "SYN_SENT" /\ list' = list /\ queue' = queue /\ holds' = holds
      /\ in' = in /\ out' = out /\ peer' = peer
  BY DEF InSynSent, net
<1>2. CASE Done /\ UNCHANGED <<sock, th, well>>
  <2>1. WellTyped'
    BY <1>2, WellIs DEF well
  <2>. QED
    BY <1>1, <1>2, <2>1, RxDone, RxMoves
<1>3. CASE /\ sock' = [sock EXCEPT ![rx.s].ack = Got.seq + 1, ![rx.s].seq = Got.ack,
                                   ![rx.s].st = "ESTABLISHED"]
           /\ th' = Wakeup(rx.s)
           /\ \/ Answered(Seg("ACK", Got.ack, Got.seq + 1, Offer, <<>>), "reply")
              \/ Unanswered
  <2>1. PICK i \in Sock, a \in SockRec : i = rx.s /\ a = sock[i] /\ a.st = "SYN_SENT" /\ a.mem = "live"
                                         /\ a.remote = rx.from /\ rx.from \in Remote
    BY <1>1, RxAt DEF At
  <2>2. PICK n \in Int, k \in Int, w \in Int : n = Got.seq + 1 /\ k = Got.ack /\ w = Offer
    BY <1>1, RxAt, Sizes
  <2>3. PICK x \in States : x = "ESTABLISHED"
    BY DEF States
  <2>4. PICK s \in SockRec : /\ s = [a EXCEPT !.ack = n, !.seq = k, !.st = x] /\ s.st = x
                             /\ s.mem = a.mem /\ s.port = a.port /\ s.remote = a.remote
    <3>1. [a EXCEPT !.ack = n, !.seq = k, !.st = x] \in SockRec
      BY DEF SockRec
    <3>. QED
      BY <3>1 DEF SockRec
  <2>5. sock' = [sock EXCEPT ![i] = s]
    BY <1>3, <2>1, <2>2, <2>3, <2>4, InvIs DEF KernelTyped
  <2>6. sock' \in [Sock -> SockRec] /\ sock'[i] = s /\ OthersKept(i) /\ PlaceKept(i)
    BY <2>1, <2>4, <2>5, SockStays
  <2>7. /\ th' \in [Thread -> CallRec]
        /\ \A u \in Thread : IF th[u].pc = "asleep" /\ th[u].s = i
                             THEN th'[u].pc = "test" /\ th'[u].op = th[u].op /\ th'[u].s = th[u].s
                             ELSE th'[u] = th[u]
    BY <1>3, <2>1, InvIs, WakeupTyped
  <2>8. HoldsShrink /\ sock[i].remote # None /\ ~Queued(i)
    BY <1>1, <2>1, InvIs, Sizes DEF HoldsShrink, CallsTyped, QueueOk
  <2>9. StateFits(i)
    BY <2>1, <2>3, <2>4, <2>6, <2>8 DEF StateFits
  <2>10. rx' \in RxRec /\ RxOk' /\ rx'.from \in {rx.from, None} /\ WellTyped'
    <3>1. CASE Unanswered
      BY <2>1, <3>1, RxDone, WellIs DEF Unanswered
    <3>2. CASE Answered(Seg("ACK", Got.ack, Got.seq + 1, Offer, <<>>), "reply")
      <4>1. PICK g \in SegRec : g = Seg("ACK", k, n, w, <<>>)
        BY AnswerTyped
      <4>2. Then(g, "reply") /\ UNCHANGED well
        BY <2>2, <3>2, <4>1 DEF Answered
      <4>3. rx' \in RxRec /\ rx'.pc = "reply" /\ rx'.s = i /\ rx'.from = rx.from
        BY <2>1, <4>2, InvIs, RxSet
      <4>4. sock'[i].mem = "live" /\ sock'[i].remote = rx.from /\ rx.from # None
        BY <2>1, <2>6, Sizes DEF PlaceKept
      <4>. QED
        BY <4>2, <4>3, <4>4, WellIs DEF RxOk
    <3>. QED
      BY <1>3, <3>1, <3>2
  <2>11. CallsAway(i)
    <3>. SUFFICES ASSUME NEW u \in Thread, th[u].s = i
                  PROVE  CallOk(u)' /\ th'[u].pc # "out"
      BY <1>1, <2>7 DEF CallsAway
    <3>1. CallOk(u) /\ i # None /\ th[u] \in CallRec
      BY CallKnows, Sizes, InvIs, CallFields
    <3>2. th[u].pc # "out"
      <4>. SUFFICES ASSUME th[u].pc = "out" PROVE FALSE
        OBVIOUS
      <4>1. th[u].op = "connect" /\ i \in holds[u]
        BY <2>1, <3>1 DEF CallOk
      <4>2. Silent(sock[i].remote)
        BY <2>8, <4>1, InvIs DEF Quietness, Unheard
      <4>. QED
        BY <2>1, <4>2 DEF Silent
    <3>3. th[u].pc \in {"test", "asleep"} /\ th[u].op # "accept"
      BY <2>1, <3>1, <3>2 DEF CallOk, CallRec
    <3>4. th'[u].pc = "test" /\ th'[u].op = th[u].op /\ th'[u].s = i
      BY <2>7, <3>3
    <3>. QED
      BY <1>1, <3>1, <3>3, <3>4 DEF CallOk
  <2>12. SleepersKept
    BY <2>6, <2>7, SleepersElsewhere
  <2>. QED
    BY <1>1, <2>6, <2>7, <2>8, <2>9, <2>10, <2>11, <2>12, StateMoves
<1>. QED
  BY <1>2, <1>3 DEF InSynSent

LEMMA InFinWaitStep ==
    ASSUME Inv, InFinWait
    PROVE  Inv'
<1>1. /\ rx.pc = "input" /\ At.st = "FIN_WAIT_1" /\ list' = list /\ queue' = queue /\ holds' = holds
      /\ th' = th /\ in' = in /\ out' = out /\ peer' = peer
  BY DEF InFinWait, net
<1>2. CASE Done /\ UNCHANGED <<sock, well>>
  <2>1. WellTyped'
    BY <1>2, WellIs DEF well
  <2>. QED
    BY <1>1, <1>2, <2>1, RxDone, RxMoves
<1>3. CASE /\ sock' = [sock EXCEPT ![rx.s].st = "CLOSED", ![rx.s].ack = Got.seq + 1, ![rx.s].seq = Got.ack]
           /\ \/ Answered(Seg("ACK", Got.ack, Got.seq + 1, Offer, <<>>), "last")
              \/ Unanswered
  <2>1. PICK i \in Sock, a \in SockRec : i = rx.s /\ a = sock[i] /\ a.st = "FIN_WAIT_1" /\ a.mem = "live"
                                         /\ a.remote = rx.from /\ rx.from \in Remote
    BY <1>1, RxAt DEF At
  <2>2. PICK n \in Int, k \in Int, w \in Int : n = Got.seq + 1 /\ k = Got.ack /\ w = Offer
    BY <1>1, RxAt, Sizes
  <2>3. PICK x \in States : x = "CLOSED"
    BY DEF States
  <2>4. PICK s \in SockRec : /\ s = [a EXCEPT !.st = x, !.ack = n, !.seq = k] /\ s.st = x
                             /\ s.mem = a.mem /\ s.port = a.port /\ s.remote = a.remote
    <3>1. [a EXCEPT !.st = x, !.ack = n, !.seq = k] \in SockRec
      BY DEF SockRec
    <3>. QED
      BY <3>1 DEF SockRec
  <2>5. sock' = [sock EXCEPT ![i] = s]
    BY <1>3, <2>1, <2>2, <2>3, <2>4, InvIs DEF KernelTyped
  <2>6. sock' \in [Sock -> SockRec] /\ sock'[i] = s /\ OthersKept(i) /\ PlaceKept(i)
    BY <2>1, <2>4, <2>5, SockStays
  <2>7. HoldsShrink /\ th' \in [Thread -> CallRec]
    BY <1>1, InvIs DEF HoldsShrink, CallsTyped
  <2>8. sock[i].remote # None /\ ~Queued(i) /\ ~Held(i) /\ ~Queued(i)' /\ ~Held(i)'
    BY <1>1, <2>1, InvIs, Sizes DEF FinOk, Held, Queued
  <2>9. StateFits(i)
    BY <2>1, <2>3, <2>4, <2>6, <2>8 DEF StateFits, Held
  <2>10. rx' \in RxRec /\ RxOk' /\ rx'.from \in {rx.from, None} /\ WellTyped'
    <3>1. CASE Unanswered
      BY <2>1, <3>1, RxDone, WellIs DEF Unanswered
    <3>2. CASE Answered(Seg("ACK", Got.ack, Got.seq + 1, Offer, <<>>), "last")
      <4>1. PICK g \in SegRec : g = Seg("ACK", k, n, w, <<>>)
        BY AnswerTyped
      <4>2. Then(g, "last") /\ UNCHANGED well
        BY <2>2, <3>2, <4>1 DEF Answered
      <4>3. rx' \in RxRec /\ rx'.pc = "last" /\ rx'.s = i /\ rx'.from = rx.from
        BY <2>1, <4>2, InvIs, RxSet
      <4>4. sock'[i].mem = "live" /\ sock'[i].remote = rx.from /\ rx.from # None /\ sock'[i].st = "CLOSED"
        BY <2>1, <2>3, <2>4, <2>6, Sizes DEF PlaceKept
      <4>. QED
        BY <2>8, <4>2, <4>3, <4>4, WellIs DEF RxOk, Held, Queued
    <3>. QED
      BY <1>3, <3>1, <3>2
  <2>11. CallsAway(i)
    <3>. SUFFICES ASSUME NEW u \in Thread, th[u].s = i
                  PROVE  CallOk(u)' /\ ~(th[u].pc = "out" /\ th[u].op = "connect")
      BY <1>1 DEF CallsAway
    <3>1. CallOk(u) /\ i # None /\ th[u] \in CallRec /\ i \notin holds[u]
      BY <2>8, CallKnows, Sizes, InvIs, CallFields DEF Held
    <3>2. th[u].pc = "out" /\ th[u].op = "close"
      BY <3>1 DEF CallOk, CallRec
    <3>3. sock'[i].remote # None /\ sock'[i].mem = "live" /\ sock'[i].st = "CLOSED"
      BY <2>1, <2>3, <2>4, <2>6, <2>8 DEF PlaceKept
    <3>. QED
      BY <1>1, <2>8, <3>2, <3>3 DEF CallOk, Held, Queued
  <2>12. SleepersKept
    <3>1. \A u \in Thread : th[u].pc = "asleep" => th[u].s # i
      BY <2>8, CallKnows DEF Held
    <3>. QED
      BY <1>1, <2>6, <3>1, SleepersElsewhere
  <2>. QED
    BY <1>1, <2>6, <2>7, <2>9, <2>10, <2>11, <2>12, StateMoves
<1>. QED
  BY <1>2, <1>3 DEF InFinWait

\* A transmission fails.
GivesUp(t, i) ==
    \/ th[t].op # "send" /\ sock' = [sock EXCEPT ![i].st = "CLOSED"]
    \/ th[t].op # "connect" /\ UNCHANGED sock

LEMMA TransmitFailsStep ==
    ASSUME Inv, NEW t \in Thread, NEW i, i = th[t].s, th[t].pc = "out", Fails(sock[i].remote),
           GivesUp(t, i), Calling(t, User), UNCHANGED <<list, queue, holds, rx, in, peer>>, out' = out
    PROVE  Inv'
<1>1. /\ CallOk(t) /\ i \in Sock /\ sock[i] \in SockRec /\ th[t] \in CallRec
  BY CallKnows, InvIs, CallFields
<1>2. /\ th[t].op \in {"connect", "send", "close"} /\ sock[i].remote # None
      /\ th[t].op # "close" => i \in holds[t]
      /\ th[t].op = "connect" => sock[i].st = "SYN_SENT" /\ sock[i].port # WellKnown
      /\ th[t].op = "close" =>
            sock[i].mem # "none" /\ sock[i].st \in {"FIN_WAIT_1", "CLOSED"} /\ ~Held(i) /\ ~Queued(i)
  BY <1>1 DEF CallOk
<1>3. WellTyped'
  <2>1. sock[i].remote \in Remote
    BY <1>1, <1>2, SockFields
  <2>. QED
    BY <2>1, WellIs
<1>4. /\ th' \in [Thread -> CallRec] /\ th'[t] = User /\ \A u \in Thread : u # t => th'[u] = th[u]
  BY InvIs, UserIs, CallSet
<1>5. CallOk(t)' /\ SleepOk(t)' /\ th'[t].pc = "user"
  BY <1>4, UserIs DEF CallOk, SleepOk
<1>6. CASE th[t].op # "connect" /\ UNCHANGED sock
  <2>1. sock' = sock
    BY <1>6
  <2>2. PlacesKept /\ CallsKept /\ SleepersKept
    BY <1>4, <1>5, <2>1 DEF PlacesKept, CallsKept, SleepersKept
  <2>3. sock' \in [Sock -> SockRec] /\ rx' \in RxRec /\ rx' = rx
    BY <2>1, InvIs DEF KernelTyped, CallsTyped
  <2>. QED
    BY <1>3, <1>4, <2>2, <2>3, SockMoves
<1>7. CASE th[t].op # "send" /\ sock' = [sock EXCEPT ![i].st = "CLOSED"]
  <2>1. PICK a \in SockRec, x \in States : a = sock[i] /\ x = "CLOSED"
    BY <1>1 DEF States
  <2>2. PICK s \in SockRec : /\ s = [a EXCEPT !.st = x] /\ s.st = x /\ s.mem = a.mem
                             /\ s.port = a.port /\ s.remote = a.remote
    BY SockWith, Zenon
  <2>3. sock' = [sock EXCEPT ![i] = s]
    BY <1>1, <1>7, <2>1, <2>2, InvIs DEF KernelTyped
  <2>4. sock' \in [Sock -> SockRec] /\ sock'[i] = s /\ OthersKept(i) /\ PlaceKept(i)
    BY <1>1, <2>1, <2>2, <2>3, SockStays, ZenonT(30)
  <2>5. HoldsShrink /\ rx' \in RxRec
    BY InvIs DEF HoldsShrink, CallsTyped
  <2>6. sock[i].mem # "none" /\ ~Queued(i)
    <3>1. CASE th[t].op = "connect"
      BY <1>1, <1>2, <3>1, InvIs DEF HoldsOk, QueueOk
    <3>. QED
      BY <1>2, <1>7, <3>1
  <2>7. \A u \in Thread : u # t => i \notin holds[u]
    BY <1>2, <1>7, Exclusive DEF Held
  <2>8. StateFits(i)
    BY <1>1, <1>2, <1>7, <2>1, <2>2, <2>4, <2>6, <2>7 DEF StateFits, Held
  <2>9. RxOk'
    <3>1. sock[i].st # "LISTEN" /\ sock'[i].st = "CLOSED"
      BY <1>2, <1>7, <2>1, <2>2, <2>4
    <3>. QED
      BY <1>1, <2>4, <2>5, <3>1, RxStays
  <2>10. CallsAway(i)
    <3>. SUFFICES ASSUME NEW u \in Thread, u # t, th[u].s = i
                  PROVE  CallOk(u)' /\ ~(th[u].pc = "out" /\ th[u].op = "connect")
      BY <1>4, <1>5 DEF CallsAway
    <3>1. CallOk(u) /\ i # None /\ th[u] \in CallRec
      BY <1>1, CallKnows, Sizes, InvIs, CallFields
    <3>2. th[u].pc = "out" /\ th[u].op = "close" /\ ~Held(i) /\ ~Queued(i)
      BY <2>7, <3>1 DEF CallOk, CallRec
    <3>3. sock'[i].remote # None /\ sock'[i].mem # "none" /\ sock'[i].st = "CLOSED"
      BY <1>2, <2>1, <2>2, <2>4, <2>6 DEF PlaceKept
    <3>. QED
      BY <1>1, <1>4, <3>2, <3>3 DEF CallOk, Held, Queued
  <2>11. SleepersKept
    <3>1. \A u \in Thread : u # t /\ th[u].pc = "asleep" => th[u].s # i
      BY <2>7, CallKnows
    <3>. QED
      BY <1>1, <1>4, <1>5, <2>4, <3>1, SleepersElsewhere
  <2>. QED
    BY <1>1, <1>3, <1>4, <2>4, <2>5, <2>8, <2>9, <2>10, <2>11, StateMoves
<1>. QED
  BY <1>6, <1>7 DEF GivesUp

\* A transmission succeeds: only the host the socket is connected to hears of
\* it, and no other socket is.
LEMMA TransmitsStep ==
    ASSUME Inv, NEW t \in Thread, NEW i, i = th[t].s, th[t].pc = "out",
           out' = [out EXCEPT ![sock[i].remote] = Append(@, On(sock[i].port, th[t].seg))],
           Calling(t, IF th[t].op = "connect" THEN Begin(t, "connect", i) ELSE User),
           UNCHANGED <<sock, well>>, UNCHANGED <<list, queue, holds, rx, in, peer>>
    PROVE  Inv'
<1>1. CallOk(t) /\ i \in Sock /\ sock[i] \in SockRec /\ th[t] \in CallRec /\ th[t].seg \in SegRec
  BY CallKnows, InvIs, CallFields
<1>2. /\ th[t].op \in {"connect", "send", "close"} /\ sock[i].remote # None
      /\ th[t].op # "close" => i \in holds[t] /\ sock[i].st # "CLOSED"
      /\ th[t].op = "close" => ~Held(i) /\ sock[i].mem # "none"
  BY <1>1 DEF CallOk
<1>3. PICK r \in Remote : r = sock[i].remote
  BY <1>1, <1>2, SockFields
<1>4. out' \in [Remote -> Seq(Wire)] /\ \A q \in Remote : q # r => out'[q] = out[q]
  <2>1. sock[i].port \in Int
    BY <1>1, SockFields
  <2>2. On(sock[i].port, th[t].seg) \in Wire
    BY <1>1, <2>1 DEF On, Wire
  <2>3. PICK w \in Wire : w = On(sock[i].port, th[t].seg)
    BY <2>2
  <2>4. out \in [Remote -> Seq(Wire)] /\ out[r] \in Seq(Wire)
    BY InvIs DEF NetTyped
  <2>5. Append(out[r], w) \in Seq(Wire)
    BY <2>4
  <2>6. out' = [out EXCEPT ![r] = Append(out[r], w)]
    BY <1>3, <2>3
  <2>. QED
    BY <2>4, <2>5, <2>6
<1>5. PICK c \in CallRec :
          /\ Calling(t, c)
          /\ \/ c.pc = "user" /\ c.s = None
             \/ c.pc = "test" /\ c.op = "connect" /\ c.s = i /\ th[t].op = "connect"
  <2>1. CASE th[t].op = "connect"
    <3>1. PICK c \in CallRec : c = Begin(t, "connect", i) /\ c.pc = "test" /\ c.op = "connect" /\ c.s = i
      BY <1>1, BeginTyped
    <3>. QED
      BY <2>1, <3>1
  <2>2. CASE th[t].op # "connect"
    BY <2>2, UserIs
  <2>. QED
    BY <2>1, <2>2
<1>6. /\ th' \in [Thread -> CallRec] /\ th'[t] = c /\ \A u \in Thread : u # t => th'[u] = th[u]
  BY <1>5, InvIs, CallSet
<1>7. CallOk(t)' /\ th'[t].pc \in {"user", "test"}
  BY <1>2, <1>5, <1>6 DEF CallOk
<1>8. Types'
  <2>1. WellTyped'
    BY WellIs
  <2>. QED
    BY <1>4, <1>6, <2>1, InvIs DEF Types, KernelTyped, CallsTyped, NetTyped
<1>9. Objects'
  BY <1>6, <1>7, InvIs, SameObjects
<1>10. sock[i].mem # "none"
  BY <1>1, <1>2, InvIs DEF HoldsOk
<1>11. Quietness'
  <2>1. ASSUME NEW q \in Remote, q # r, Silent(q) PROVE Silent(q)'
    BY <1>4, <2>1 DEF Silent
  <2>2. Unsaid'
    <3>. SUFFICES ASSUME NEW q \in Remote, peer[q].st = "closed", \A j \in Sock : sock[j].remote # q
                  PROVE  Silent(q)'
      BY DEF Unsaid
    <3>1. q # r /\ Silent(q)
      BY <1>1, <1>3, InvIs DEF Quietness, Unsaid
    <3>. QED
      BY <2>1, <3>1
  <2>3. Unheard'
    <3>. SUFFICES ASSUME NEW u \in Thread, NEW j \in holds[u], sock[j].remote # None,
                         sock[j].st = "CLOSED" \/ (th'[u].pc = "out" /\ th'[u].op = "connect" /\ th'[u].s = j),
                         NEW q, q = sock[j].remote
                  PROVE  Silent(q)' /\ peer[q].st = "closed"
      BY DEF Unheard, Silent
    <3>1. sock[j].st = "CLOSED" \/ (u # t /\ th[u].pc = "out" /\ th[u].op = "connect" /\ th[u].s = j)
      BY <1>6, <1>7
    <3>2. Silent(q) /\ peer[q].st = "closed"
      BY <3>1, InvIs DEF Quietness, Unheard
    <3>3. q \in Remote /\ j \in Sock /\ sock[j].mem = "live"
      BY InvIs, SockFields DEF HoldsOk
    <3>4. sock[j].port # WellKnown
      <4>1. CASE sock[j].st = "CLOSED"
        BY <4>1, InvIs DEF HoldsOk
      <4>2. CASE th[u].pc = "out" /\ th[u].op = "connect" /\ th[u].s = j
        BY <4>2, CallKnows DEF CallOk
      <4>. QED
        BY <3>1, <4>1, <4>2
    <3>5. q # r
      <4>. SUFFICES ASSUME q = r PROVE FALSE
        OBVIOUS
      <4>1. sock[j].remote = sock[i].remote
        BY <1>3
      <4>2. j = i
        BY <1>1, <1>10, <3>3, <3>4, <4>1, InvIs DEF Modes
      <4>3. th[t].op # "close" /\ i \in holds[t] /\ sock[i].st # "CLOSED"
        BY <1>2, <4>2 DEF Held
      <4>4. u = t
        BY <4>2, <4>3, Exclusive
      <4>. QED
        BY <3>1, <4>2, <4>3, <4>4
    <3>. QED
      BY <2>1, <3>2, <3>3, <3>5
  <2>. QED
    BY <2>2, <2>3, SMTT(30) DEF Quietness
<1>12. Attended'
  <2>1. KernelTyped' /\ QueueOk' /\ \A j \in Sock : Queued(j)' => Queued(j)
    BY <1>8, <1>9 DEF Types, Objects, Queued
  <2>. QED
    BY <1>6, <1>7, <2>1, InvIs, SameAttended
<1>. QED
  BY <1>8, <1>9, <1>11, <1>12 DEF Inv

LEMMA TransmitStep ==
    ASSUME Inv, NEW t \in Thread, Transmit(t)
    PROVE  Inv'
<1>1. PICK i : i = th[t].s
  OBVIOUS
<1>2. th[t].pc = "out" /\ UNCHANGED <<list, queue, holds, rx, in, peer>>
  BY DEF Transmit
<1>3. CASE /\ out' = [out EXCEPT ![sock[i].remote] = Append(@, On(sock[i].port, th[t].seg))]
           /\ Calling(t, IF th[t].op = "connect" THEN Begin(t, "connect", i) ELSE User)
           /\ UNCHANGED <<sock, well>>
  BY <1>1, <1>2, <1>3, TransmitsStep
<1>4. CASE Fails(sock[i].remote) /\ GivesUp(t, i) /\ Calling(t, User) /\ out' = out
  BY <1>1, <1>2, <1>4, TransmitFailsStep
<1>. QED
  BY <1>1, <1>3, <1>4, ZenonT(30) DEF Transmit, GivesUp

-----------------------------------------------------------------------------
(* A socket is freed.                                                      *)

LEMMA FreedTyped ==
    ASSUME Inv, NEW i \in Sock
    PROVE  /\ Freed(i) \in SockRec /\ Freed(i).mem = "freed" /\ Freed(i).st = "CLOSED"
           /\ Freed(i).remote = sock[i].remote /\ Freed(i).port = sock[i].port
<1>1. PICK p \in Int, r \in Remote \cup {None}, m \in {"none", "live", "freed"}, n \in SockRec :
          p = sock[i].port /\ r = sock[i].remote /\ m = "freed" /\ n = NoSock /\ n.st = "CLOSED"
  <2>1. sock[i].port \in Int /\ sock[i].remote \in Remote \cup {None} /\ NoSock \in SockRec
        /\ NoSock.st = "CLOSED"
    BY InvIs, SockFields, Nothing DEF NoSock
  <2>. QED
    BY <2>1
<1>2. Freed(i) = [n EXCEPT !.mem = m, !.remote = r, !.port = p]
  BY <1>1 DEF Freed
<1>3. [n EXCEPT !.mem = m, !.remote = r, !.port = p] \in SockRec
  BY DEF SockRec
<1>4. LET x == [n EXCEPT !.mem = m, !.remote = r, !.port = p]
      IN  x.mem = m /\ x.st = n.st /\ x.remote = r /\ x.port = p
  BY DEF SockRec
<1>. QED
  BY <1>1, <1>2, <1>3, <1>4

LEMMA FreeMoves ==
    ASSUME Inv, NEW i \in Sock, sock' = [sock EXCEPT ![i] = Freed(i)], list' = Unlisted(i),
           sock[i].mem # "none", sock[i].st = "CLOSED", ~Queued(i), ~Held(i)',
           HoldsShrink, CallsAway(i), th' = th, queue' = queue, in' = in, out' = out, peer' = peer,
           \A t \in Thread : th[t].pc = "asleep" => th[t].s # i,
           WellTyped', rx' \in RxRec, RxOk', rx'.from \in {rx.from, None}
    PROVE  Inv'
<1>1. sock' \in [Sock -> SockRec] /\ sock'[i] = Freed(i) /\ \A j \in Sock : j # i => sock'[j] = sock[j]
  BY InvIs, FreedTyped, SockSet
<1>2. /\ sock'[i].mem = "freed" /\ sock'[i].st = "CLOSED"
      /\ sock'[i].remote = sock[i].remote /\ sock'[i].port = sock[i].port
  BY <1>1, FreedTyped
<1>3. \A j \in Sock : /\ sock'[j].mem = "none" <=> sock[j].mem = "none"
                      /\ sock'[j].st = sock[j].st /\ sock'[j].port = sock[j].port
                      /\ sock'[j].remote = sock[j].remote
                      /\ j # i => sock'[j].mem = sock[j].mem
  BY <1>1, <1>2
<1>4. list' \in Seq(Sock) /\ Listed' = Listed \ {i}
      /\ \A k, l \in DOMAIN list' : list'[k] = list'[l] => k = l
  BY InvIs, LeavesList
<1>5. (\A j : Queued(j)' <=> Queued(j)) /\ (\A j : Held(j)' => Held(j))
  BY DEF Queued, Held, HoldsShrink
<1>6. Types'
  BY <1>1, <1>4, InvIs DEF Types, KernelTyped, CallsTyped, NetTyped, HoldsShrink
<1>7. Once'
  BY <1>4, InvIs DEF Once
<1>8. Blocks' /\ OneEach'
  BY <1>3, <1>4, InvIs DEF Blocks, OneEach
<1>9. Modes'
  BY <1>3, InvIs DEF Modes
<1>10. QueueOk'
  BY <1>3, <1>5, InvIs DEF QueueOk
<1>11. FinOk'
  BY <1>2, <1>3, <1>5, InvIs DEF FinOk
<1>12. HoldsOk'
  <2>1. \A t, u \in Thread : t # u => holds'[t] \cap holds'[u] = {}
    BY InvIs DEF HoldsOk, HoldsShrink
  <2>2. ASSUME NEW t \in Thread, NEW j \in holds'[t]
        PROVE  j \in holds[t] /\ j \in Sock /\ j # i
    BY InvIs DEF HoldsShrink, Held
  <2>. QED
    BY <1>3, <2>1, <2>2, InvIs DEF HoldsOk
<1>13. ThreadsOk'
  <2>. SUFFICES ASSUME NEW t \in Thread, holds'[t] = holds[t], th[t].s # i
                PROVE  CallOk(t)'
    BY DEF ThreadsOk, CallsAway
  <2>1. CallOk(t) /\ th[t].s \in Sock \cup {None}
        /\ (th[t].pc \in {"test", "asleep"} => th[t].s \in Sock) /\ (th[t].pc = "out" => th[t].s \in Sock)
    BY CallKnows
  <2>. QED
    BY <1>3, <1>5, <2>1 DEF CallOk
<1>14. Objects'
  BY <1>7, <1>8, <1>9, <1>10, <1>11, <1>12, <1>13 DEF Objects
<1>15. Quietness'
  <2>1. \A t \in Thread : \A j \in holds'[t] :
            /\ sock'[j].remote # None
            /\ sock'[j].st = "CLOSED" \/ (th'[t].pc = "out" /\ th'[t].op = "connect" /\ th'[t].s = j)
            => /\ j \in holds[t] /\ sock[j].remote # None /\ sock'[j].remote = sock[j].remote
               /\ sock[j].st = "CLOSED" \/ (th[t].pc = "out" /\ th[t].op = "connect" /\ th[t].s = j)
    BY <1>3, InvIs DEF HoldsShrink
  <2>. QED
    BY <1>3, <2>1, InvIs, SameQuiet
<1>16. Attended'
  <2>1. KernelTyped' /\ \A j \in Sock : Queued(j)' => Queued(j)
    BY <1>5, <1>6 DEF Types
  <2>2. \A t \in Thread : th[t].pc = "asleep" => sock'[th[t].s] = sock[th[t].s]
    BY <1>1, CallKnows
  <2>. QED
    BY <1>10, <2>1, <2>2, InvIs, SameAttended
<1>. QED
  BY <1>6, <1>14, <1>15, <1>16 DEF Inv

\* A program frees a socket of its own: the receive thread is not there,
\* because nothing was ever sent to the remote host.
LEMMA CloseClosedStep ==
    ASSUME Inv, NEW t \in Thread, NEW i \in Sock, CloseClosed(t, i)
    PROVE  Inv'
<1>1. /\ th[t] = User /\ i \in holds[t] /\ sock[i].st = "CLOSED"
      /\ sock' = [sock EXCEPT ![i] = Freed(i)] /\ list' = Unlisted(i)
      /\ holds' = [holds EXCEPT ![t] = @ \ {i}]
      /\ queue' = queue /\ th' = th /\ rx' = rx /\ in' = in /\ out' = out /\ peer' = peer /\ UNCHANGED well
  BY DEF CloseClosed, net
<1>2. sock[i].mem = "live" /\ ~Queued(i) /\ Held(i)
  BY <1>1, InvIs DEF HoldsOk, QueueOk, Held
<1>3. /\ holds' \in [Thread -> SUBSET Sock] /\ holds'[t] = holds[t] \ {i}
      /\ \A u \in Thread : u # t => holds'[u] = holds[u]
  BY <1>1, InvIs DEF CallsTyped
<1>4. HoldsShrink /\ ~Held(i)' /\ WellTyped' /\ rx' \in RxRec
  <2>1. ~Held(i)'
    BY <1>1, <1>3, Exclusive DEF Held
  <2>. QED
    BY <1>1, <1>3, <2>1, InvIs, WellIs DEF HoldsShrink, CallsTyped
<1>5. rx.s # i
  <2>. SUFFICES ASSUME rx.s = i PROVE FALSE
    OBVIOUS
  <2>1. rx.pc # "idle"
    BY InvIs, Sizes DEF RxOk
  <2>2. sock[i].remote = rx.from /\ rx.from # None
    BY <1>1, <2>1, InvIs DEF RxOk
  <2>3. Silent(sock[i].remote)
    BY <1>1, <2>2, InvIs DEF Quietness, Unheard
  <2>. QED
    BY <2>2, <2>3 DEF Silent
<1>6. RxOk'
  <2>1. Listed' \subseteq Listed
    BY <1>1, InvIs, LeavesList
  <2>2. OthersKept(i)
    BY <1>1, InvIs, FreedTyped, SockSet DEF OthersKept
  <2>3. rx.pc # "idle" => rx.s \in Sock /\ sock'[rx.s] = sock[rx.s]
    BY <1>5, <2>2, InvIs DEF RxOk, OthersKept
  <2>4. \A j \in Listed' : j # i => sock'[j] = sock[j]
    BY <2>1, <2>2, InvIs DEF OthersKept
  <2>5. sock'[i].remote = sock[i].remote /\ sock[i].st = "CLOSED"
    BY <1>1, InvIs, FreedTyped, SockSet
  <2>6. (\A j : Queued(j)' <=> Queued(j)) /\ (\A j : Held(j)' => Held(j))
    BY <1>1, <1>4 DEF Queued, Held, HoldsShrink
  <2>7. RxOk
    BY InvIs
  <2>8. rx.pc = "input" /\ sock'[rx.s].st = "LISTEN" =>
            \A j \in Listed' : sock'[j].st # "LISTEN" => sock'[j].remote # rx.from
    BY <2>1, <2>3, <2>4, <2>5, <2>7 DEF RxOk
  <2>9. rx.pc \in {"last", "unlink"} => sock'[rx.s].st = "CLOSED" /\ ~Held(rx.s)' /\ ~Queued(rx.s)'
    BY <1>1, <2>3, <2>6, <2>7 DEF RxOk
  <2>. QED
    BY <1>1, <2>3, <2>7, <2>8, <2>9 DEF RxOk
<1>7. \A u \in Thread : th[u].s # i
  <2>. SUFFICES ASSUME NEW u \in Thread, th[u].s = i PROVE FALSE
    OBVIOUS
  <2>1. u # t
    BY <1>1, UserIs, Sizes
  <2>2. CallOk(u) /\ i # None /\ th[u] \in CallRec /\ i \notin holds[u]
    BY <1>1, <2>1, CallKnows, Sizes, InvIs, CallFields, Exclusive
  <2>. QED
    BY <1>2, <2>2 DEF CallOk, CallRec
<1>8. CallsAway(i)
  <2>1. CallOk(t)' /\ th'[t].pc = "user"
    BY <1>1, UserIs DEF CallOk
  <2>. QED
    BY <1>1, <1>3, <1>7, <2>1 DEF CallsAway
<1>. QED
  BY <1>1, <1>2, <1>4, <1>6, <1>7, <1>8, FreeMoves

\* The receive thread destroys a socket that was waiting for the other side's
\* FIN: nobody has it open.
LEMMA RxDestroyStep ==
    ASSUME Inv, RxDestroy
    PROVE  Inv'
<1>1. PICK i \in Sock : i = rx.s
  <2>1. rx.pc # "idle"
    BY DEF RxDestroy
  <2>. QED
    BY <2>1, RxAt
<1>2. /\ Done /\ list' = Unlisted(i) /\ sock' = [sock EXCEPT ![i] = Freed(i)]
      /\ queue' = queue /\ th' = th /\ holds' = holds /\ in' = in /\ out' = out /\ peer' = peer
      /\ UNCHANGED well
  BY <1>1 DEF RxDestroy, net
<1>3. sock[i].mem = "live" /\ sock[i].st = "CLOSED" /\ ~Held(i) /\ ~Queued(i)
  BY <1>1, InvIs DEF RxDestroy, RxOk
<1>4. HoldsShrink /\ ~Held(i)' /\ ~Queued(i)' /\ WellTyped'
  BY <1>2, <1>3, InvIs, WellIs DEF HoldsShrink, CallsTyped, Held, Queued
<1>5. \A u \in Thread : th[u].s = i => th[u].pc = "out" /\ th[u].op = "close"
  <2>. SUFFICES ASSUME NEW u \in Thread, th[u].s = i PROVE th[u].pc = "out" /\ th[u].op = "close"
    OBVIOUS
  <2>1. CallOk(u) /\ i # None /\ th[u] \in CallRec /\ i \notin holds[u]
    BY <1>3, CallKnows, Sizes, InvIs, CallFields DEF Held
  <2>. QED
    BY <2>1 DEF CallOk, CallRec
<1>6. CallsAway(i)
  <2>. SUFFICES ASSUME NEW u \in Thread, th[u].s = i PROVE CallOk(u)' /\ th[u].op # "connect"
    BY <1>2 DEF CallsAway
  <2>1. CallOk(u) /\ th[u].pc = "out" /\ th[u].op = "close"
    BY <1>5, CallKnows
  <2>2. sock[i].remote # None
    BY <2>1 DEF CallOk
  <2>3. sock'[i].remote = sock[i].remote /\ sock'[i].st = "CLOSED" /\ sock'[i].mem = "freed"
    BY <1>2, InvIs, FreedTyped, SockSet
  <2>. QED
    BY <1>2, <1>4, <2>1, <2>2, <2>3 DEF CallOk, Held, Queued
<1>7. rx' \in RxRec /\ RxOk' /\ rx'.from \in {rx.from, None}
  BY <1>2, RxDone
<1>. QED
  BY <1>2, <1>3, <1>4, <1>5, <1>6, <1>7, FreeMoves

-----------------------------------------------------------------------------
(* A socket is made.                                                       *)

\* Nobody knows a block that was never allocated.
LEMMA Unseen ==
    ASSUME Inv, NEW i \in Sock, sock[i].mem = "none"
    PROVE  /\ i \notin Listed /\ ~Held(i) /\ ~Queued(i) /\ rx.s # i /\ \A t \in Thread : th[t].s # i
           /\ sock[i].port = -1 /\ sock[i].remote = None /\ sock[i].st = "CLOSED"
<1>1. i \notin Listed /\ sock[i].port = -1 /\ sock[i].remote = None /\ sock[i].st = "CLOSED"
  BY InvIs DEF Blocks
<1>2. ~Held(i) /\ ~Queued(i)
  BY InvIs DEF Held, HoldsOk, QueueOk
<1>3. rx.s # i
  BY InvIs, Sizes DEF RxOk
<1>4. ASSUME NEW t \in Thread, th[t].s = i PROVE FALSE
  <2>1. CallOk(t) /\ i # None /\ th[t] \in CallRec /\ i \notin holds[t]
    BY <1>2, <1>4, CallKnows, Sizes, InvIs, CallFields DEF Held
  <2>. QED
    BY <1>4, <2>1 DEF CallOk, CallRec
<1>. QED
  BY <1>1, <1>2, <1>3, <1>4

\* The new socket fits in with the others: it has their port or one of its own,
\* and a remote host of its own.
NewFits(i) ==
    /\ sock'[i].mem = "live" /\ sock'[i].port >= 0 /\ sock'[i].st \notin {"LISTEN", "FIN_WAIT_1"}
    /\ sock'[i].remote = None => sock'[i].st = "CLOSED" /\ sock'[i].port = WellKnown
    /\ sock'[i].port = WellKnown => \A j \in Sock : j # i => sock[j].port \in {-1, WellKnown}
    /\ sock'[i].port # WellKnown => \A j \in Sock : j # i => sock[j].port # WellKnown
    /\ \A j \in Sock : j # i /\ sock[j].mem # "none" /\ sock[j].remote = sock'[i].remote =>
          sock'[i].remote # None /\ sock'[i].port = WellKnown /\ sock[j].port = WellKnown
    /\ sock'[i].st # "CLOSED" =>
          \A j \in Listed : sock[j].st # "CLOSED" => sock[j].remote # sock'[i].remote
\* One program has it, or the queue of the listener does.
NewOwned(i) ==
    /\ holds' \in [Thread -> SUBSET Sock]
    /\ \A t \in Thread : holds[t] \subseteq holds'[t] /\ holds'[t] \subseteq holds[t] \cup {i}
    /\ \A t, u \in Thread : i \in holds'[t] /\ i \in holds'[u] => t = u
    /\ \A j \in Sock : j # i => (Queued(j)' <=> Queued(j))
    /\ Queued(i)' => sock'[i].st = "ESTABLISHED" /\ ~Held(i)'
    /\ Held(i)' /\ sock'[i].port = WellKnown /\ sock'[i].st = "CLOSED" => sock'[i].remote = None
    /\ queue' \in Seq(QueueRec)
    /\ \A k, l \in DOMAIN queue' : queue'[k].s # None /\ queue'[k].s = queue'[l].s => k = l
NewCalls == \A t \in Thread : CallOk(t)' \/ th'[t] = th[t]

LEMMA NewMoves ==
    ASSUME Inv, NEW i \in Sock, sock[i].mem = "none", OthersKept(i), NewFits(i), NewOwned(i), NewCalls,
           list' = <<i>> \o list, RxOk'
    PROVE  Objects' /\ list' \in Seq(Sock)
<1>1. /\ i \notin Listed /\ ~Held(i) /\ ~Queued(i) /\ \A t \in Thread : th[t].s # i
  BY Unseen
<1>2. list' \in Seq(Sock) /\ Listed' = Listed \cup {i}
      /\ \A k, l \in DOMAIN list' : list'[k] = list'[l] => k = l
  BY <1>1, InvIs, EntersList
<1>3. \A j \in Sock : j # i => sock'[j] = sock[j]
  BY DEF OthersKept
<1>4. \A j \in Sock : j # i => (Held(j)' <=> Held(j))
  BY DEF NewOwned, Held
<1>5. Once'
  BY <1>2 DEF Once, NewOwned
<1>6. Blocks'
  <2>1. \A j \in Sock : sock'[j].mem = "none" =>
            sock'[j].port = -1 /\ sock'[j].remote = None /\ sock'[j].st = "CLOSED"
    BY <1>3, InvIs DEF NewFits, Blocks
  <2>2. \A j \in Listed' : sock'[j].mem = "live"
    BY <1>2, <1>3, InvIs DEF NewFits, Blocks
  <2>. QED
    BY <2>1, <2>2 DEF Blocks
<1>7. Modes'
  <2>1. \A j \in Sock : sock'[j].mem # "none" => sock'[j].port >= 0
    BY <1>3, InvIs DEF Modes, NewFits
  <2>2. \A j, k \in Sock : sock'[j].port = WellKnown => sock'[k].port \in {-1, WellKnown}
    BY <1>3, InvIs DEF Modes, NewFits
  <2>3. ASSUME NEW j \in Sock, NEW k \in Sock, j # k, sock'[j].mem # "none", sock'[k].mem # "none",
               sock'[j].remote = sock'[k].remote, sock'[j].port # WellKnown \/ sock'[j].remote = None
        PROVE  FALSE
    <3>1. CASE j # i /\ k # i
      BY <1>3, <2>3, <3>1, InvIs DEF Modes
    <3>2. CASE j = i \/ k = i
      BY <1>3, <2>3, <3>2 DEF NewFits
    <3>. QED
      BY <3>1, <3>2
  <2>4. \A j \in Sock : sock'[j].st = "LISTEN" => sock'[j].remote = None
    BY <1>3, InvIs DEF Modes, NewFits
  <2>5. \A j \in Sock : sock'[j].remote = None =>
            sock'[j].st \in {"LISTEN", "CLOSED"} /\ sock'[j].port \in {-1, WellKnown}
    BY <1>3, InvIs DEF Modes, NewFits
  <2>. QED
    BY <2>1, <2>2, <2>3, <2>4, <2>5 DEF Modes
<1>8. OneEach'
  <2>. SUFFICES ASSUME NEW j \in Listed', NEW k \in Listed', j # k, sock'[j].st # "CLOSED",
                       sock'[k].st # "CLOSED", sock'[j].remote = sock'[k].remote
                PROVE  FALSE
    BY DEF OneEach
  <2>1. CASE j # i /\ k # i
    BY <1>2, <1>3, <2>1, InvIs DEF OneEach
  <2>2. CASE j = i \/ k = i
    BY <1>2, <1>3, <2>2, InvIs DEF NewFits
  <2>. QED
    BY <2>1, <2>2
<1>9. QueueOk'
  BY <1>3, <1>4, InvIs DEF QueueOk, NewOwned, NewFits
<1>10. FinOk'
  BY <1>3, <1>4, InvIs DEF FinOk, NewOwned, NewFits
<1>11. HoldsOk'
  <2>1. ASSUME NEW t \in Thread, NEW u \in Thread, t # u, NEW j \in holds'[t], j \in holds'[u] PROVE FALSE
    BY <2>1, InvIs DEF NewOwned, HoldsOk
  <2>2. ASSUME NEW t \in Thread, NEW j \in holds'[t]
        PROVE  /\ sock'[j].mem = "live" /\ sock'[j].st # "FIN_WAIT_1"
               /\ sock'[j].port = WellKnown /\ sock'[j].st = "CLOSED" => sock'[j].remote = None
    <3>1. CASE j = i
      BY <3>1 DEF NewFits, NewOwned, Held
    <3>2. CASE j # i
      <4>1. j \in holds[t] /\ j \in Sock
        BY <3>2, InvIs DEF NewOwned
      <4>. QED
        BY <1>3, <3>2, <4>1, InvIs DEF HoldsOk
    <3>. QED
      BY <3>1, <3>2
  <2>. QED
    BY <2>1, <2>2 DEF HoldsOk
<1>12. ThreadsOk'
  <2>. SUFFICES ASSUME NEW t \in Thread, th'[t] = th[t] PROVE CallOk(t)'
    BY DEF ThreadsOk, NewCalls
  <2>1. CallOk(t) /\ th[t].s # i /\ th[t].s \in Sock \cup {None} /\ holds[t] \subseteq holds'[t]
        /\ (th[t].pc \in {"test", "asleep"} => th[t].s \in Sock) /\ (th[t].pc = "out" => th[t].s \in Sock)
    BY <1>1, CallKnows DEF NewOwned
  <2>2. th[t].s \in Sock => /\ sock'[th[t].s] = sock[th[t].s]
                            /\ Held(th[t].s)' <=> Held(th[t].s)
                            /\ Queued(th[t].s)' <=> Queued(th[t].s)
    <3>1. PICK j : j = th[t].s
      OBVIOUS
    <3>2. j \in Sock => sock'[j] = sock[j] /\ (Held(j)' <=> Held(j)) /\ (Queued(j)' <=> Queued(j))
      BY <1>3, <1>4, <2>1, <3>1 DEF NewOwned
    <3>. QED
      BY <3>1, <3>2 DEF Held, Queued
  <2>. QED
    BY <2>1, <2>2 DEF CallOk
<1>. QED
  BY <1>2, <1>5, <1>6, <1>7, <1>8, <1>9, <1>10, <1>11, <1>12 DEF Objects

LEMMA FreshIs ==
    ASSUME NEW i \in Fresh
    PROVE  i \in Sock /\ sock[i].mem = "none"
BY DEF Fresh

LEMMA BindStep ==
    ASSUME Inv, NEW t \in Thread, Bind(t)
    PROVE  Inv'
<1>1. PICK i \in Fresh : /\ sock' = [sock EXCEPT ![i].mem = "live", ![i].port = WellKnown]
                         /\ list' = <<i>> \o list
                         /\ holds' = [holds EXCEPT ![t] = @ \cup {i}]
  BY DEF Bind
<1>2. /\ \A j \in Sock : sock[j].mem = "none"
      /\ queue' = queue /\ th' = th /\ rx' = rx /\ in' = in /\ out' = out /\ peer' = peer /\ UNCHANGED well
  BY DEF Bind, net, Unused
<1>3. PICK k \in Sock, a \in SockRec : /\ k = i /\ a = sock[k] /\ sock[k].mem = "none"
                                       /\ a.port = -1 /\ a.remote = None /\ a.st = "CLOSED"
  BY FreshIs, Unseen, InvIs
<1>4. PICK s \in SockRec : /\ s = [a EXCEPT !.mem = "live", !.port = WellKnown] /\ s.mem = "live"
                           /\ s.port = WellKnown /\ s.st = a.st /\ s.remote = a.remote
  <2>1. PICK m \in {"none", "live", "freed"}, p \in Int : m = "live" /\ p = WellKnown
    BY Sizes
  <2>2. [a EXCEPT !.mem = m, !.port = p] \in SockRec
    BY DEF SockRec
  <2>. QED
    BY <2>1, <2>2 DEF SockRec
<1>5. sock' = [sock EXCEPT ![k] = s]
  BY <1>1, <1>3, <1>4, InvIs DEF KernelTyped
<1>6. sock' \in [Sock -> SockRec] /\ sock'[k] = s /\ OthersKept(k)
  BY <1>5, InvIs, SockSet DEF OthersKept
<1>7. \A j \in Sock : sock[j].port = -1 /\ sock[j].mem = "none"
  BY <1>2, Unseen
<1>8. \A u \in Thread : holds[u] = {}
  BY <1>7, InvIs DEF HoldsOk
<1>9. /\ holds' \in [Thread -> SUBSET Sock] /\ holds'[t] = {k}
      /\ \A u \in Thread : u # t => holds'[u] = {}
  BY <1>1, <1>3, <1>8, InvIs DEF CallsTyped
<1>10. \A j \in Sock : ~Queued(j) /\ (Queued(j)' <=> Queued(j))
  BY <1>2, Unseen DEF Queued
<1>11. NewFits(k)
  BY <1>3, <1>4, <1>6, <1>7, Sizes DEF NewFits
<1>12. NewOwned(k)
  <2>1. queue' \in Seq(QueueRec)
        /\ \A m, l \in DOMAIN queue' : queue'[m].s # None /\ queue'[m].s = queue'[l].s => m = l
    BY <1>2, InvIs DEF KernelTyped, Once
  <2>2. sock'[k].remote = None
    BY <1>3, <1>4, <1>6
  <2>. QED
    BY <1>8, <1>9, <1>10, <2>1, <2>2 DEF NewOwned
<1>13. RxOk'
  BY <1>2, InvIs DEF RxOk
<1>14. NewCalls
  BY <1>2 DEF NewCalls
<1>15. Objects' /\ list' \in Seq(Sock)
  <2>1. list' = <<k>> \o list
    BY <1>1, <1>3
  <2>. QED
    BY <1>3, <1>6, <1>11, <1>12, <1>13, <1>14, <2>1, NewMoves
<1>16. Types'
  BY <1>2, <1>6, <1>9, <1>15, InvIs, WellIs DEF Types, KernelTyped, CallsTyped, NetTyped
<1>17. Quietness'
  <2>1. \A u \in Thread : \A j \in holds'[u] : sock'[j].remote = None
    BY <1>3, <1>4, <1>6, <1>9
  <2>2. \A j \in Sock : sock[j].remote = None
    BY <1>7, Unseen
  <2>. QED
    BY <1>2, <2>1, <2>2, InvIs, SameQuiet
<1>18. Attended'
  <2>1. \A u \in Thread : th[u].pc # "asleep"
    BY <1>8, CallKnows
  <2>. QED
    BY <1>2, <2>1 DEF Attended
<1>. QED
  BY <1>15, <1>16, <1>17, <1>18 DEF Inv

\* A connection of our own: the remote host has heard nothing from us yet.
LEMMA ConnectStep ==
    ASSUME Inv, NEW t \in Thread, NEW r \in Remote, Connect(t, r)
    PROVE  Inv'
<1>0. PICK i \in Fresh :
       \E p \in 1 .. MaxSock :
          /\ FreePort(p)
          /\ sock' = [sock EXCEPT ![i] = [NoSock EXCEPT !.mem = "live", !.port = p, !.remote = r,
                                                        !.seq = 1000, !.st = "SYN_SENT"]]
          /\ list' = <<i>> \o list
          /\ holds' = [holds EXCEPT ![t] = @ \cup {i}]
          /\ Calling(t, Sending(t, "connect", i, Seg("SYN", 1000, 0, Notice, <<>>)))
  BY Zenon DEF Connect
<1>1. PICK p \in 1 .. MaxSock :
          /\ FreePort(p)
          /\ sock' = [sock EXCEPT ![i] = [NoSock EXCEPT !.mem = "live", !.port = p, !.remote = r,
                                                        !.seq = 1000, !.st = "SYN_SENT"]]
          /\ list' = <<i>> \o list
          /\ holds' = [holds EXCEPT ![t] = @ \cup {i}]
          /\ Calling(t, Sending(t, "connect", i, Seg("SYN", 1000, 0, Notice, <<>>)))
  BY <1>0, Zenon
<1>2. /\ th[t] = User /\ peer[r].st = "closed" /\ \A j \in Sock : sock[j].remote # r /\ sock[j].port # WellKnown
      /\ queue' = queue /\ rx' = rx /\ in' = in /\ out' = out /\ peer' = peer /\ UNCHANGED well
  BY DEF Connect, net, Serving
<1>3. PICK k \in Sock : k = i /\ sock[k].mem = "none"
  BY FreshIs
<1>4. PICK s \in SockRec : /\ s = [NoSock EXCEPT !.mem = "live", !.port = p, !.remote = r,
                                                 !.seq = 1000, !.st = "SYN_SENT"]
                           /\ s.mem = "live" /\ s.port = p /\ s.st = "SYN_SENT" /\ s.remote = r
  <2>1. PICK n \in SockRec, m \in {"none", "live", "freed"}, o \in Int, q \in Int, x \in States,
             h \in Remote \cup {None} :
            n = NoSock /\ m = "live" /\ o = p /\ q = 1000 /\ x = "SYN_SENT" /\ h = r
    BY Nothing, Sizes DEF States
  <2>2. [n EXCEPT !.mem = m, !.port = o, !.remote = h, !.seq = q, !.st = x] \in SockRec
    BY DEF SockRec
  <2>3. LET y == [n EXCEPT !.mem = m, !.port = o, !.remote = h, !.seq = q, !.st = x]
        IN  y.mem = m /\ y.port = o /\ y.st = x /\ y.remote = h
    BY DEF SockRec
  <2>. QED
    BY <2>1, <2>2, <2>3, ZenonT(60)
<1>5. sock' = [sock EXCEPT ![k] = s]
  BY <1>1, <1>3, <1>4
<1>6. sock' \in [Sock -> SockRec] /\ sock'[k] = s /\ OthersKept(k)
  BY <1>5, InvIs, SockSet DEF OthersKept
<1>7. PICK c \in CallRec : /\ c = Sending(t, "connect", i, Seg("SYN", 1000, 0, Notice, <<>>))
                           /\ c.pc = "out" /\ c.op = "connect" /\ c.s = k
  <2>1. PICK a \in Int, b \in Int, w \in Int : a = 1000 /\ b = 0 /\ w = Notice
    BY Sizes
  <2>2. PICK g \in SegRec : g = Seg("SYN", a, b, w, <<>>)
    BY AnswerTyped
  <2>3. PICK c \in CallRec : c = Sending(t, "connect", k, g) /\ c.pc = "out" /\ c.op = "connect" /\ c.s = k
    BY SendingTyped
  <2>. QED
    BY <1>3, <2>1, <2>2, <2>3
<1>8. /\ th' \in [Thread -> CallRec] /\ th'[t] = c /\ \A u \in Thread : u # t => th'[u] = th[u]
  BY <1>1, <1>7, InvIs, CallSet
<1>9. /\ holds' \in [Thread -> SUBSET Sock] /\ holds'[t] = holds[t] \cup {k}
      /\ \A u \in Thread : u # t => holds'[u] = holds[u]
  BY <1>1, <1>3, InvIs DEF CallsTyped
<1>10. /\ k \notin Listed /\ ~Held(k) /\ ~Queued(k) /\ rx.s # k /\ \A u \in Thread : th[u].s # k
  BY <1>3, Unseen
<1>11. p >= 0 /\ p # WellKnown /\ r # None
  BY Sizes
<1>12. NewFits(k)
  <2>1. \A j \in Listed : sock[j].remote # r
    BY <1>2, InvIs
  <2>. QED
    BY <1>2, <1>4, <1>6, <1>11, <2>1 DEF NewFits
<1>13. NewOwned(k)
  <2>1. queue' \in Seq(QueueRec)
        /\ \A m, l \in DOMAIN queue' : queue'[m].s # None /\ queue'[m].s = queue'[l].s => m = l
    BY <1>2, InvIs DEF KernelTyped, Once
  <2>2. (\A j : Queued(j)' <=> Queued(j)) /\ sock'[k].st # "CLOSED"
    BY <1>2, <1>4, <1>6 DEF Queued
  <2>3. \A u \in Thread : k \notin holds[u]
    BY <1>10 DEF Held
  <2>4. \A u \in Thread : holds[u] \subseteq holds'[u] /\ holds'[u] \subseteq holds[u] \cup {k}
    BY <1>9
  <2>5. \A u, v \in Thread : k \in holds'[u] /\ k \in holds'[v] => u = v
    BY <1>9, <2>3
  <2>. QED
    BY <1>9, <1>10, <2>1, <2>2, <2>4, <2>5 DEF NewOwned
<1>14. RxOk'
  <2>1. rx.pc # "idle" => sock[rx.s].st # "LISTEN"
    <3>. SUFFICES ASSUME rx.pc # "idle", sock[rx.s].st = "LISTEN" PROVE FALSE
      OBVIOUS
    <3>1. rx.s \in Sock /\ sock[rx.s].mem = "live"
      BY RxAt
    <3>2. sock[rx.s].remote = None
      BY <3>1, InvIs DEF Modes
    <3>3. sock[rx.s].port \in {-1, WellKnown} /\ sock[rx.s].port >= 0
      BY <3>1, <3>2, InvIs DEF Modes
    <3>. QED
      BY <1>2, <3>1, <3>3
  <2>2. rx.pc # "idle" => rx.s \in Sock /\ sock'[rx.s] = sock[rx.s]
    BY <1>6, <1>10, RxAt DEF OthersKept
  <2>3. rx.pc \in {"last", "unlink"} => ~Held(rx.s)' /\ ~Queued(rx.s)'
    <3>. SUFFICES ASSUME rx.pc \in {"last", "unlink"} PROVE ~Held(rx.s)' /\ ~Queued(rx.s)'
      OBVIOUS
    <3>1. ~Held(rx.s) /\ ~Queued(rx.s)
      BY InvIs DEF RxOk
    <3>. QED
      BY <1>2, <1>9, <1>10, <3>1 DEF Held, Queued
  <2>4. RxOk
    BY InvIs
  <2>. QED
    BY <1>2, <2>1, <2>2, <2>3, <2>4 DEF RxOk
<1>15. NewCalls
  <2>1. CallOk(t)'
    <3>1. sock'[k].remote # None /\ sock'[k].st = "SYN_SENT" /\ sock'[k].port # WellKnown /\ k \in holds'[t]
      BY <1>4, <1>6, <1>9, <1>11
    <3>2. th'[t].pc = "out" /\ th'[t].op = "connect" /\ th'[t].s = k
      BY <1>7, <1>8
    <3>. QED
      BY <3>1, <3>2 DEF CallOk
  <2>. QED
    BY <1>8, <2>1 DEF NewCalls
<1>16. Objects' /\ list' \in Seq(Sock)
  <2>1. list' = <<k>> \o list
    BY <1>1, <1>3
  <2>. QED
    BY <1>3, <1>6, <1>12, <1>13, <1>14, <1>15, <2>1, NewMoves
<1>17. Types'
  BY <1>2, <1>6, <1>8, <1>9, <1>16, InvIs, WellIs DEF Types, KernelTyped, CallsTyped, NetTyped
<1>18. Quietness'
  <2>1. ASSUME NEW q \in Remote, Silent(q) PROVE Silent(q)'
    BY <1>2, <2>1 DEF Silent
  <2>2. Silent(r)
    BY <1>2, InvIs DEF Quietness, Unsaid
  <2>3. Unsaid'
    <3>. SUFFICES ASSUME NEW q \in Remote, peer[q].st = "closed", \A j \in Sock : sock'[j].remote # q
                  PROVE  Silent(q)'
      BY <1>2 DEF Unsaid
    <3>1. \A j \in Sock : sock[j].remote # q
      <4>1. sock[k].remote = None
        BY <1>3, Unseen
      <4>. QED
        BY <1>6, <4>1, Sizes DEF OthersKept
    <3>. QED
      BY <2>1, <3>1, InvIs DEF Quietness, Unsaid
  <2>4. Unheard'
    <3>. SUFFICES ASSUME NEW u \in Thread, NEW j \in holds'[u], sock'[j].remote # None,
                         sock'[j].st = "CLOSED" \/ (th'[u].pc = "out" /\ th'[u].op = "connect" /\ th'[u].s = j),
                         NEW q, q = sock'[j].remote
                  PROVE  Silent(q)' /\ peer[q].st = "closed"
      BY <1>2 DEF Unheard, Silent
    <3>1. CASE j = k
      <4>1. q = r
        BY <1>4, <1>6, <3>1, ZenonT(30)
      <4>. QED
        BY <1>2, <2>1, <2>2, <4>1
    <3>2. CASE j # k
      <4>1. j \in holds[u] /\ j \in Sock /\ sock'[j] = sock[j]
        BY <1>6, <1>9, <3>2, InvIs DEF OthersKept
      <4>2. sock[j].st = "CLOSED" \/ (th[u].pc = "out" /\ th[u].op = "connect" /\ th[u].s = j)
        BY <1>7, <1>8, <3>2, <4>1
      <4>3. Silent(sock[j].remote) /\ peer[sock[j].remote].st = "closed"
        BY <4>1, <4>2, InvIs DEF Quietness, Unheard
      <4>4. q \in Remote /\ q = sock[j].remote
        BY <4>1, InvIs, SockFields
      <4>. QED
        BY <2>1, <4>3, <4>4
    <3>. QED
      BY <3>1, <3>2
  <2>. QED
    BY <2>3, <2>4 DEF Quietness
<1>19. Attended'
  <2>1. KernelTyped' /\ QueueOk' /\ \A j \in Sock : Queued(j)' => Queued(j)
    BY <1>2, <1>16, <1>17 DEF Types, Objects, Queued
  <2>2. \A u \in Thread : th[u].pc = "asleep" => sock'[th[u].s] = sock[th[u].s]
    BY <1>6, <1>10, CallKnows DEF OthersKept
  <2>3. \A u \in Thread :
            \/ th'[u].pc # "asleep"
            \/ th'[u] = th[u] /\ sock'[th[u].s] = sock[th[u].s]
    BY <1>7, <1>8, <2>2
  <2>. QED
    BY <2>1, <2>3, InvIs, SameAttended
<1>. QED
  BY <1>16, <1>17, <1>18, <1>19 DEF Inv

\* A half-open connection becomes a session: the first with this host, since the
\* receive thread found the listener; every server that waits is woken.
LEMMA InListenAckStep ==
    ASSUME Inv, InListenAck
    PROVE  Inv'
<1>1. /\ rx.pc = "input" /\ At.st = "LISTEN" /\ Done /\ holds' = holds /\ in' = in /\ out' = out /\ peer' = peer
  BY DEF InListenAck, net
<1>2. /\ rx.s \in Sock /\ rx.from \in Remote /\ sock[rx.s] \in SockRec /\ sock[rx.s].mem = "live"
      /\ sock[rx.s].st = "LISTEN" /\ Got.seq \in Int
  BY <1>1, RxAt DEF At
<1>3. CASE UNCHANGED <<kernel, th>> /\ (Fails(rx.from) \/ UNCHANGED well)
  <2>1. sock' = sock /\ list' = list /\ queue' = queue /\ th' = th /\ WellTyped'
    BY <1>2, <1>3, WellIs DEF kernel
  <2>. QED
    BY <1>1, <2>1, RxDone, RxMoves
<1>4. ASSUME NEW i \in Fresh, HalfOpen # {},
             sock' = [sock EXCEPT ![i] = Completed(i)],
             queue' = [queue EXCEPT ![Min(HalfOpen)].s = i],
             list' = <<i>> \o list, th' = Wakeup(rx.s), UNCHANGED well
      PROVE  Inv'
  <2>1. i \in Sock /\ sock[i].mem = "none"
    BY FreshIs
  <2>2. /\ i \notin Listed /\ ~Held(i) /\ ~Queued(i) /\ \A t \in Thread : th[t].s # i
    BY <2>1, Unseen
  <2>3. PICK n \in DOMAIN queue : n = Min(HalfOpen) /\ queue[n].s = None /\ queue[n].r = rx.from
    <3>1. HalfOpen \in SUBSET Nat
      BY InvIs DEF HalfOpen, KernelTyped
    <3>2. Min(HalfOpen) \in HalfOpen
      BY <1>4, <3>1, MinIsIn
    <3>. QED
      BY <3>2 DEF HalfOpen
  <2>4. /\ queue' \in Seq(QueueRec)
        /\ \A j \in Sock : Queued(j)' <=> Queued(j) \/ j = i
        /\ \A k, l \in DOMAIN queue' : queue'[k].s # None /\ queue'[k].s = queue'[l].s => k = l
    <3>1. queue' = [queue EXCEPT ![n].s = i]
      BY <1>4, <2>3
    <3>. QED
      BY <2>1, <2>2, <2>3, <3>1, InvIs, SessionEnters
  <2>5. sock[rx.s].remote = None /\ sock[rx.s].port = WellKnown
    <3>1. sock[rx.s].remote = None
      BY <1>2, InvIs DEF Modes
    <3>2. sock[rx.s].port \in {-1, WellKnown} /\ sock[rx.s].port >= 0
      BY <1>2, <3>1, InvIs DEF Modes
    <3>. QED
      BY <3>1, <3>2
  <2>6. PICK s \in SockRec : /\ s = Completed(i) /\ s.mem = "live" /\ s.st = "ESTABLISHED"
                             /\ s.port = WellKnown /\ s.remote = rx.from
    <3>1. queue[n] \in QueueRec
      BY InvIs DEF KernelTyped
    <3>2. queue[n].seq + 1 \in Int
      <4>1. queue[n].seq \in Int
        BY <3>1 DEF QueueRec
      <4>. QED
        BY <4>1
    <3>3. PICK z \in SockRec, m \in {"none", "live", "freed"}, x \in States, p \in Int,
               h \in Remote \cup {None}, q \in Int, a \in Int :
              /\ z = NoSock /\ m = "live" /\ x = "ESTABLISHED" /\ p = WellKnown /\ h = rx.from
              /\ q = queue[n].seq + 1 /\ a = Got.seq
      <4>1. NoSock \in SockRec /\ "ESTABLISHED" \in States /\ WellKnown \in Int
        BY Nothing, Sizes DEF States
      <4>. QED
        BY <1>2, <3>2, <4>1
    <3>4. [z EXCEPT !.mem = m, !.st = x, !.port = p, !.remote = h, !.seq = q, !.ack = a] \in SockRec
      BY DEF SockRec
    <3>5. LET y == [z EXCEPT !.mem = m, !.st = x, !.port = p, !.remote = h, !.seq = q, !.ack = a]
          IN  y.mem = m /\ y.st = x /\ y.port = p /\ y.remote = h
      BY DEF SockRec
    <3>6. Completed(i) = [z EXCEPT !.mem = m, !.st = x, !.port = p, !.remote = h, !.seq = q, !.ack = a]
      BY <2>3, <2>5, <3>3 DEF Completed, At
    <3>. QED
      BY <3>3, <3>4, <3>5, <3>6
  <2>7. sock' \in [Sock -> SockRec] /\ sock'[i] = s /\ OthersKept(i)
    <3>1. sock' = [sock EXCEPT ![i] = s]
      BY <1>4, <2>6
    <3>. QED
      BY <2>1, <3>1, InvIs, SockSet DEF OthersKept
  <2>8. rx.from # None
    BY <1>2, Sizes
  <2>9. \A j \in Listed : sock[j].remote # rx.from
    <3>1. \A j \in Listed : sock[j].st # "LISTEN" => sock[j].remote # rx.from
      BY <1>1, <1>2, InvIs DEF RxOk
    <3>2. \A j \in Listed : sock[j].st = "LISTEN" => sock[j].remote = None
      BY InvIs DEF Modes
    <3>. QED
      BY <2>8, <3>1, <3>2
  <2>10. \A j \in Sock : sock[j].port \in {-1, WellKnown} /\ (sock[j].mem # "none" => sock[j].port = WellKnown)
    <3>1. \A j \in Sock : sock[j].port \in {-1, WellKnown}
      BY <1>2, <2>5, InvIs DEF Modes
    <3>2. \A j \in Sock : sock[j].mem # "none" => sock[j].port >= 0
      BY InvIs DEF Modes
    <3>. QED
      BY <3>1, <3>2
  <2>11. NewFits(i)
    BY <2>6, <2>7, <2>8, <2>9, <2>10, Sizes DEF NewFits
  <2>12. NewOwned(i)
    <3>1. ~Held(i)' /\ \A t \in Thread : i \notin holds[t]
      BY <1>1, <2>2 DEF Held
    <3>. QED
      BY <1>1, <2>4, <2>6, <2>7, <3>1, InvIs DEF NewOwned, CallsTyped
  <2>13. rx' \in RxRec /\ RxOk' /\ rx'.from \in {rx.from, None} /\ WellTyped'
    BY <1>1, <1>4, RxDone, WellIs
  <2>14. /\ th' \in [Thread -> CallRec]
         /\ \A t \in Thread : IF th[t].pc = "asleep" /\ th[t].s = rx.s
                              THEN th'[t].pc = "test" /\ th'[t].op = th[t].op /\ th'[t].s = th[t].s
                              ELSE th'[t] = th[t]
    <3>1. PICK k : k = rx.s
      OBVIOUS
    <3>2. th' = Wakeup(k)
      BY <1>4, <3>1
    <3>. QED
      BY <3>1, <3>2, InvIs, WakeupTyped
  <2>15. \A t \in Thread : th'[t].pc = "out" => th'[t] = th[t]
    BY <2>14
  <2>16. NewCalls
    <3>. SUFFICES ASSUME NEW t \in Thread, th[t].pc = "asleep", th[t].s = rx.s
                  PROVE  CallOk(t)'
      BY <2>14 DEF NewCalls
    <3>1. CallOk(t) /\ th[t].s \in holds[t]
      BY CallKnows
    <3>2. th'[t].pc = "test" /\ th'[t].op = th[t].op /\ th'[t].s = rx.s
      BY <2>14
    <3>3. sock'[rx.s] = sock[rx.s]
      BY <1>2, <2>1, <2>7 DEF OthersKept
    <3>. QED
      BY <1>1, <1>2, <3>1, <3>2, <3>3 DEF CallOk
  <2>17. Objects' /\ list' \in Seq(Sock)
    BY <1>4, <2>1, <2>7, <2>11, <2>12, <2>13, <2>16, NewMoves
  <2>18. Types'
    BY <1>1, <2>4, <2>7, <2>13, <2>14, <2>17, InvIs DEF Types, KernelTyped, CallsTyped, NetTyped
  <2>19. Quietness'
    <3>1. \A j \in Sock : sock[j].remote # None => sock'[j].remote = sock[j].remote
      <4>1. sock[i].remote = None
        BY <2>1, Unseen
      <4>. QED
        BY <2>7, <4>1 DEF OthersKept
    <3>2. ASSUME NEW t \in Thread, NEW j \in holds'[t]
          PROVE  /\ j \in holds[t] /\ j \in Sock /\ sock'[j] = sock[j]
                 /\ th'[t].pc = "out" => th'[t] = th[t]
      <4>1. j \in holds[t] /\ j \in Sock /\ j # i
        BY <1>1, <2>2, InvIs DEF Held
      <4>. QED
        BY <2>7, <2>15, <4>1 DEF OthersKept
    <3>3. \A t \in Thread : \A j \in holds'[t] :
            /\ sock'[j].remote # None
            /\ sock'[j].st = "CLOSED" \/ (th'[t].pc = "out" /\ th'[t].op = "connect" /\ th'[t].s = j)
            => /\ j \in holds[t] /\ sock[j].remote # None /\ sock'[j].remote = sock[j].remote
               /\ sock[j].st = "CLOSED" \/ (th[t].pc = "out" /\ th[t].op = "connect" /\ th[t].s = j)
      BY <3>2
    <3>. QED
      BY <1>1, <2>13, <3>1, <3>3, InvIs, SameQuiet
  <2>20. Attended'
    <3>1. KernelTyped' /\ QueueOk'
      BY <2>17, <2>18 DEF Types, Objects
    <3>2. ASSUME NEW t \in Thread, th'[t].pc = "asleep"
          PROVE  th'[t] = th[t] /\ sock'[th[t].s] = sock[th[t].s] /\ th[t].op # "accept"
      <4>1. th'[t] = th[t] /\ th[t].s # rx.s
        BY <2>14, <3>2
      <4>2. th[t].s \in holds[t] /\ th[t].s \in Sock /\ CallOk(t)
        BY <3>2, <4>1, CallKnows
      <4>3. sock'[th[t].s] = sock[th[t].s]
        BY <2>2, <2>7, <4>2 DEF OthersKept
      <4>4. th[t].op # "accept"
        <5>. SUFFICES ASSUME th[t].op = "accept" PROVE FALSE
          OBVIOUS
        <5>1. sock[th[t].s].st = "LISTEN"
          BY <3>2, <4>1, <4>2 DEF CallOk
        <5>2. sock[th[t].s].remote = None /\ sock[th[t].s].mem = "live"
          BY <4>2, <5>1, InvIs DEF Modes, HoldsOk
        <5>. QED
          BY <1>2, <2>5, <4>1, <4>2, <5>2, InvIs DEF Modes
      <4>. QED
        BY <4>1, <4>3, <4>4
    <3>. QED
      BY <3>1, <3>2, InvIs, SameAttended
  <2>. QED
    BY <2>17, <2>18, <2>19, <2>20 DEF Inv
<1>. QED
  <2>1. CASE \E i \in Fresh :
                /\ HalfOpen # {} /\ sock' = [sock EXCEPT ![i] = Completed(i)]
                /\ queue' = [queue EXCEPT ![Min(HalfOpen)].s = i]
                /\ list' = <<i>> \o list
                /\ th' = Wakeup(rx.s) /\ UNCHANGED well
    BY <1>4, <2>1
  <2>. QED
    BY <1>3, <2>1, Zenon DEF InListenAck

\* accept takes a session off the queue, and gives it to the program or loses it.
LEMMA AcceptTestStep ==
    ASSUME Inv, NEW t \in Thread, AcceptTest(t)
    PROVE  Inv'
<1>1. /\ th[t].pc = "test" /\ th[t].op = "accept" /\ sock' = sock /\ list' = list /\ rx' = rx
      /\ in' = in /\ out' = out /\ peer' = peer
  BY DEF AcceptTest, net
<1>2. CallOk(t) /\ CallsTyped
  BY CallKnows, InvIs
<1>3. CASE Ready = {} /\ Calling(t, [th[t] EXCEPT !.pc = "asleep"]) /\ UNCHANGED <<queue, holds, well>>
  <2>0. PICK c \in CallRec : /\ c = [th[t] EXCEPT !.pc = "asleep"]
                             /\ c.pc = "asleep" /\ c.op = "accept" /\ c.s = th[t].s
    BY <1>1, <1>2, CallFields
  <2>1. th'[t] = c /\ Calling(t, c)
    BY <1>2, <1>3, <2>0, CallSet
  <2>2. UNCHANGED <<kernel, holds, rx, net, well>>
    BY <1>1, <1>3 DEF kernel, net
  <2>3. CallOk(t)' /\ SleepOk(t)'
    BY <1>1, <1>2, <1>3, <2>0, <2>1 DEF CallOk, SleepOk, Ready
  <2>. QED
    BY <2>0, <2>1, <2>2, <2>3, CallMoves
<1>4. ASSUME NEW n \in DOMAIN queue, queue[n].s # None, sock[queue[n].s].st = "ESTABLISHED",
             Calling(t, User), queue' = RemoveAt(queue, n), WellTyped',
             holds' = holds \/ holds' = [holds EXCEPT ![t] = @ \cup {queue[n].s}]
      PROVE  Inv'
  <2>1. queue[n] \in QueueRec
    BY InvIs DEF KernelTyped
  <2>2. PICK i \in Sock : i = queue[n].s
    BY <1>4, <2>1 DEF QueueRec
  <2>3. Queued(i) /\ sock[i].mem = "live" /\ ~Held(i) /\ sock[i].st = "ESTABLISHED"
    BY <1>4, <2>2, InvIs DEF Queued, QueueOk
  <2>4. /\ queue' \in Seq(QueueRec)
        /\ \A j \in Sock : Queued(j)' <=> Queued(j) /\ j # i
        /\ \A k, l \in DOMAIN queue' : queue'[k].s # None /\ queue'[k].s = queue'[l].s => k = l
    BY <1>4, <2>2, InvIs, LeavesQueue
  <2>5. /\ th' \in [Thread -> CallRec] /\ th'[t] = User /\ \A u \in Thread : u # t => th'[u] = th[u]
    BY <1>2, <1>4, UserIs, CallSet
  <2>6. /\ holds' \in [Thread -> SUBSET Sock]
        /\ \A u \in Thread : holds[u] \subseteq holds'[u] /\ holds'[u] \subseteq holds[u] \cup {i}
        /\ \A u \in Thread : i \in holds'[u] => u = t
        /\ \A j \in Sock : j # i => (Held(j)' <=> Held(j))
    <3>1. holds \in [Thread -> SUBSET Sock] /\ \A u \in Thread : i \notin holds[u]
      BY <2>3, InvIs DEF CallsTyped, Held
    <3>2. CASE holds' = holds
      BY <3>1, <3>2 DEF Held
    <3>3. CASE holds' = [holds EXCEPT ![t] = @ \cup {queue[n].s}]
      <4>1. holds' \in [Thread -> SUBSET Sock] /\ holds'[t] = holds[t] \cup {i}
            /\ \A u \in Thread : u # t => holds'[u] = holds[u]
        BY <2>2, <3>1, <3>3
      <4>. QED
        BY <3>1, <4>1 DEF Held
    <3>. QED
      BY <1>4, <3>2, <3>3
  <2>7. Types'
    BY <1>1, <1>4, <2>4, <2>5, <2>6, InvIs DEF Types, KernelTyped, CallsTyped, NetTyped
  <2>8. Once' /\ Blocks' /\ Modes' /\ OneEach'
    BY <1>1, <2>4, InvIs DEF Once, Blocks, Modes, OneEach, Listed
  <2>9. QueueOk' /\ FinOk'
    BY <1>1, <2>3, <2>4, <2>6, InvIs DEF QueueOk, FinOk
  <2>10. HoldsOk'
    <3>1. \A u, v \in Thread : u # v => holds'[u] \cap holds'[v] = {}
      BY <2>6, InvIs DEF HoldsOk
    <3>. QED
      BY <1>1, <2>3, <2>6, <3>1, InvIs DEF HoldsOk
  <2>11. CallOk(t)' /\ th'[t].pc = "user"
    BY <2>5, UserIs DEF CallOk
  <2>12. ThreadsOk'
    <3>. SUFFICES ASSUME NEW u \in Thread, u # t PROVE CallOk(u)'
      BY <2>11 DEF ThreadsOk
    <3>1. CallOk(u) /\ th'[u] = th[u] /\ holds[u] \subseteq holds'[u] /\ (th[u].pc = "out" => th[u].s \in Sock)
      BY <2>5, <2>6, CallKnows
    <3>2. th[u].pc = "out" /\ th[u].op = "close" => ~Held(th[u].s)' /\ ~Queued(th[u].s)'
      <4>. SUFFICES ASSUME th[u].pc = "out", th[u].op = "close", NEW j, j = th[u].s
                    PROVE  ~Held(j)' /\ ~Queued(j)'
        BY <3>1 DEF Held, Queued
      <4>1. j \in Sock /\ j # i /\ ~Held(j) /\ ~Queued(j)
        BY <2>3, <3>1 DEF CallOk
      <4>. QED
        BY <2>4, <2>6, <4>1
    <3>. QED
      BY <1>1, <3>1, <3>2 DEF CallOk
  <2>13. RxOk'
    <3>1. rx.pc \in {"last", "unlink"} => ~Held(rx.s)' /\ ~Queued(rx.s)'
      <4>. SUFFICES ASSUME rx.pc \in {"last", "unlink"}, NEW j, j = rx.s PROVE ~Held(j)' /\ ~Queued(j)'
        BY <1>1 DEF Held, Queued
      <4>1. j \in Sock /\ j # i /\ ~Held(j) /\ ~Queued(j)
        BY <2>3, InvIs DEF RxOk
      <4>. QED
        BY <2>4, <2>6, <4>1
    <3>2. Listed' = Listed /\ RxOk
      BY <1>1, InvIs DEF Listed
    <3>. QED
      BY <1>1, <3>1, <3>2 DEF RxOk
  <2>14. Objects'
    BY <2>8, <2>9, <2>10, <2>12, <2>13 DEF Objects
  <2>15. Quietness'
    <3>1. \A u \in Thread : \A j \in holds'[u] :
            /\ sock'[j].remote # None
            /\ sock'[j].st = "CLOSED" \/ (th'[u].pc = "out" /\ th'[u].op = "connect" /\ th'[u].s = j)
            => /\ j \in holds[u] /\ sock[j].remote # None /\ sock'[j].remote = sock[j].remote
               /\ sock[j].st = "CLOSED" \/ (th[u].pc = "out" /\ th[u].op = "connect" /\ th[u].s = j)
      BY <1>1, <2>3, <2>5, <2>6, <2>11
    <3>. QED
      BY <1>1, <3>1, InvIs, SameQuiet
  <2>16. Attended'
    <3>1. KernelTyped' /\ QueueOk' /\ \A j \in Sock : Queued(j)' => Queued(j)
      BY <2>4, <2>7, <2>9 DEF Types
    <3>. QED
      BY <1>1, <2>5, <2>11, <3>1, InvIs, SameAttended
  <2>. QED
    BY <2>7, <2>14, <2>15, <2>16 DEF Inv
<1>5. CASE /\ Ready # {} /\ Calling(t, User) /\ queue' = RemoveAt(queue, Min(Ready))
           /\ \/ holds' = [holds EXCEPT ![t] = @ \cup {queue[Min(Ready)].s}] /\ UNCHANGED well
              \/ Fails(queue[Min(Ready)].r) /\ UNCHANGED holds
  <2>1. Ready \in SUBSET Nat
    BY InvIs DEF Ready, KernelTyped
  <2>2. PICK n \in Ready : n = Min(Ready)
    BY <1>5, <2>1, MinIsIn
  <2>3. n \in DOMAIN queue /\ queue[n].s # None /\ sock[queue[n].s].st = "ESTABLISHED"
    BY <2>2 DEF Ready
  <2>4. queue[n].r \in Remote
    <3>1. queue[n] \in QueueRec
      BY <2>3, InvIs DEF KernelTyped
    <3>. QED
      BY <3>1 DEF QueueRec
  <2>5. /\ queue' = RemoveAt(queue, n) /\ Calling(t, User)
        /\ \/ holds' = [holds EXCEPT ![t] = @ \cup {queue[n].s}] /\ UNCHANGED well
           \/ Fails(queue[n].r) /\ holds' = holds
    BY <1>5, <2>2
  <2>6. WellTyped'
    BY <2>4, <2>5, WellIs
  <2>. QED
    BY <1>4, <2>3, <2>5, <2>6
<1>. QED
  BY <1>3, <1>5 DEF AcceptTest

\* A listener is closed: the sessions nobody accepted are closed where they are.
LEMMA CloseListenerStep ==
    ASSUME Inv, NEW t \in Thread, NEW i \in Sock, CloseListener(t, i)
    PROVE  Inv'
<1>1. /\ th[t] = User /\ i \in holds[t] /\ queue' = <<>> /\ holds' = [holds EXCEPT ![t] = @ \ {i}]
      /\ list' = list /\ th' = th /\ rx' = rx /\ in' = in /\ out' = out /\ peer' = peer /\ UNCHANGED well
  BY DEF CloseListener, net
<1>2. sock' = [j \in Sock |-> IF Queued(j) THEN [sock[j] EXCEPT !.st = "CLOSED"] ELSE sock[j]]
  <2>. DEFINE Q == {queue[k].s : k \in DOMAIN queue} \ {None}
  <2>1. \A j \in Sock : j \in Q <=> Queued(j)
    BY Sizes DEF Queued
  <2>2. sock' = [j \in Sock |-> IF j \in Q THEN [sock[j] EXCEPT !.st = "CLOSED"] ELSE sock[j]]
    BY DEF CloseListener
  <2>. HIDE DEF Q
  <2>. QED
    BY <2>1, <2>2
<1>3. \A j \in Sock :
         /\ sock'[j] \in SockRec /\ sock'[j].mem = sock[j].mem /\ sock'[j].port = sock[j].port
         /\ sock'[j].remote = sock[j].remote
         /\ IF Queued(j) THEN sock'[j].st = "CLOSED" ELSE sock'[j] = sock[j]
  <2>. SUFFICES ASSUME NEW j \in Sock
                PROVE  /\ sock'[j] \in SockRec /\ sock'[j].mem = sock[j].mem /\ sock'[j].port = sock[j].port
                       /\ sock'[j].remote = sock[j].remote
                       /\ IF Queued(j) THEN sock'[j].st = "CLOSED" ELSE sock'[j] = sock[j]
    OBVIOUS
  <2>1. PICK a \in SockRec, x \in States : a = sock[j] /\ x = "CLOSED"
    BY InvIs DEF States
  <2>2. PICK s \in SockRec : /\ s = [a EXCEPT !.st = x] /\ s.st = x /\ s.mem = a.mem /\ s.port = a.port
                             /\ s.remote = a.remote
    BY SockWith, Zenon
  <2>3. sock'[j] = IF Queued(j) THEN s ELSE a
    BY <1>2, <2>1, <2>2
  <2>. QED
    BY <2>1, <2>2, <2>3
<1>4. sock' \in [Sock -> SockRec]
  <2>1. sock' = [j \in Sock |-> sock'[j]]
    BY <1>2
  <2>. QED
    BY <1>3, <2>1
<1>5. /\ holds' \in [Thread -> SUBSET Sock] /\ holds'[t] = holds[t] \ {i}
      /\ \A u \in Thread : u # t => holds'[u] = holds[u]
  BY <1>1, InvIs DEF CallsTyped
<1>6. (\A j \in Sock : ~Queued(j)') /\ (\A j : Held(j)' => Held(j)) /\ Listed' = Listed
  BY <1>1, <1>5 DEF Queued, Held, Listed
<1>7. \A u \in Thread : \A j \in holds[u] : j \in Sock /\ sock'[j] = sock[j]
  BY <1>3, InvIs DEF QueueOk, Held
<1>8. \A j \in Sock : Queued(j) => sock[j].st = "ESTABLISHED"
  BY InvIs DEF QueueOk
<1>9. Types'
  <2>1. queue' \in Seq(QueueRec) /\ WellTyped'
    BY <1>1, WellIs
  <2>. QED
    BY <1>1, <1>4, <1>5, <2>1, InvIs DEF Types, KernelTyped, CallsTyped, NetTyped
<1>10. Once'
  BY <1>1, InvIs DEF Once
<1>11. Blocks' /\ OneEach'
  BY <1>3, <1>6, InvIs DEF Blocks, OneEach
<1>12. Modes'
  BY <1>3, <1>8, InvIs DEF Modes
<1>13. QueueOk' /\ FinOk'
  BY <1>3, <1>6, InvIs DEF QueueOk, FinOk
<1>14. HoldsOk'
  BY <1>5, <1>7, InvIs DEF HoldsOk
<1>15. ThreadsOk'
  <2>. SUFFICES ASSUME NEW u \in Thread PROVE CallOk(u)'
    BY DEF ThreadsOk
  <2>1. CallOk(u) /\ th' = th
    BY <1>1, CallKnows
  <2>2. CASE u = t
    BY <1>1, <2>1, <2>2, UserIs DEF CallOk
  <2>3. CASE u # t
    <3>1. holds'[u] = holds[u] /\ \A j \in holds[u] : sock'[j] = sock[j]
      BY <1>5, <1>7, <2>3
    <3>2. th[u].pc = "out" /\ th[u].op = "close" =>
             /\ sock'[th[u].s] = sock[th[u].s] /\ ~Held(th[u].s)' /\ ~Queued(th[u].s)'
      <4>. SUFFICES ASSUME th[u].pc = "out", th[u].op = "close", NEW j, j = th[u].s
                    PROVE  sock'[j] = sock[j] /\ ~Held(j)' /\ ~Queued(j)'
        BY <2>1 DEF Held, Queued
      <4>1. j \in Sock /\ ~Held(j) /\ ~Queued(j)
        BY <2>1 DEF CallOk
      <4>. QED
        BY <1>3, <1>6, <4>1
    <3>. QED
      BY <2>1, <3>1, <3>2 DEF CallOk
  <2>. QED
    BY <2>2, <2>3
<1>16. RxOk'
  <2>1. RxOk /\ rx' = rx
    BY <1>1, InvIs
  <2>2. rx.pc \in {"last", "unlink"} => sock'[rx.s] = sock[rx.s] /\ ~Held(rx.s)' /\ ~Queued(rx.s)'
    <3>. SUFFICES ASSUME rx.pc \in {"last", "unlink"}, NEW j, j = rx.s
                  PROVE  sock'[j] = sock[j] /\ ~Held(j)' /\ ~Queued(j)'
      BY <2>1 DEF Held, Queued
    <3>1. j \in Sock /\ ~Held(j) /\ ~Queued(j)
      BY <2>1 DEF RxOk
    <3>. QED
      BY <1>3, <1>6, <3>1
  <2>3. \A j \in Sock : sock'[j].st = "LISTEN" <=> sock[j].st = "LISTEN"
    BY <1>3, <1>8
  <2>4. Listed \subseteq Sock
    BY InvIs
  <2>. QED
    BY <1>3, <1>6, <2>1, <2>2, <2>3, <2>4 DEF RxOk
<1>17. Objects'
  BY <1>10, <1>11, <1>12, <1>13, <1>14, <1>15, <1>16 DEF Objects
<1>18. Quietness'
  <2>1. \A u \in Thread : \A j \in holds'[u] : j \in holds[u] /\ sock'[j] = sock[j]
    BY <1>5, <1>7
  <2>. QED
    BY <1>1, <1>3, <2>1, InvIs, SameQuiet
<1>19. Attended'
  <2>1. KernelTyped' /\ QueueOk' /\ \A j \in Sock : Queued(j)' => Queued(j)
    BY <1>6, <1>9, <1>13 DEF Types
  <2>2. \A u \in Thread : th[u].pc = "asleep" => sock'[th[u].s] = sock[th[u].s]
    BY <1>7, CallKnows
  <2>. QED
    BY <1>1, <2>1, <2>2, InvIs, SameAttended
<1>. QED
  BY <1>9, <1>17, <1>18, <1>19 DEF Inv

-----------------------------------------------------------------------------
(* The invariant, and what it says.                                        *)

LEMMA InitInv == Init => Inv
<1>. SUFFICES ASSUME Init PROVE Inv
  OBVIOUS
<1>1. /\ sock = [i \in Sock |-> NoSock] /\ list = <<>> /\ queue = <<>>
      /\ th = [t \in Thread |-> User] /\ holds = [t \in Thread |-> {}] /\ rx = Idle
      /\ in = [r \in Remote |-> <<>>] /\ out = [r \in Remote |-> <<>>] /\ peer = [r \in Remote |-> NoPeer]
      /\ faults = 0 /\ inTrouble = {} /\ outTrouble = {}
  BY DEF Init
<1>2. KernelTyped /\ CallsTyped
  <2>1. list \in Seq(Sock) /\ queue \in Seq(QueueRec)
    BY <1>1
  <2>. QED
    BY <1>1, <2>1, Nothing DEF KernelTyped, CallsTyped
<1>3. NetTyped
  <2>1. <<>> \in Seq(Wire)
    OBVIOUS
  <2>. QED
    BY <1>1, <2>1, Nothing DEF NetTyped
<1>4. WellTyped
  BY <1>1, Sizes DEF WellTyped
<1>5. /\ NoSock.mem = "none" /\ NoSock.st = "CLOSED" /\ NoSock.port = -1 /\ NoSock.remote = None
      /\ Idle.pc = "idle" /\ Idle.s = None /\ Idle.from = None
  BY DEF NoSock, Idle
<1>6. /\ \A i \in Sock : /\ sock[i].mem = "none" /\ sock[i].st = "CLOSED" /\ sock[i].port = -1
                         /\ sock[i].remote = None
      /\ \A t \in Thread : th[t].pc = "user" /\ th[t].s = None /\ holds[t] = {}
      /\ rx.pc = "idle" /\ rx.s = None /\ rx.from = None
  BY <1>1, <1>5, UserIs
<1>7. DOMAIN list = {} /\ DOMAIN queue = {} /\ Listed = {} /\ \A i : ~Queued(i)
  BY <1>1 DEF Listed, Queued
<1>8. Once /\ Blocks /\ OneEach /\ QueueOk /\ HoldsOk /\ FinOk
  BY <1>6, <1>7 DEF Once, Blocks, OneEach, QueueOk, HoldsOk, FinOk
<1>9. Modes
  BY <1>6, Sizes DEF Modes
<1>10. ThreadsOk /\ RxOk
  BY <1>6 DEF ThreadsOk, CallOk, RxOk
<1>11. Quietness
  <2>1. \A r \in Remote : Silent(r)
    BY <1>1, <1>6, Sizes DEF Silent
  <2>. QED
    BY <1>6, <2>1 DEF Quietness, Unsaid, Unheard
<1>12. Attended
  BY <1>6 DEF Attended
<1>. QED
  BY <1>2, <1>3, <1>4, <1>8, <1>9, <1>10, <1>11, <1>12 DEF Inv, Types, Objects

LEMMA StutterInv == ASSUME Inv, UNCHANGED vars PROVE Inv'
<1>1. /\ sock' = sock /\ list' = list /\ queue' = queue /\ holds' = holds /\ th' = th /\ in' = in
      /\ out' = out /\ peer' = peer /\ rx' = rx /\ UNCHANGED well
  BY DEF vars, well
<1>2. WellTyped' /\ rx' \in RxRec /\ RxOk'
  <2>1. RxOk /\ rx \in RxRec
    BY InvIs DEF CallsTyped
  <2>2. Listed' = Listed /\ (\A i : Held(i)' <=> Held(i)) /\ (\A i : Queued(i)' <=> Queued(i))
    BY <1>1 DEF Listed, Held, Queued
  <2>. QED
    BY <1>1, <2>1, <2>2, WellIs DEF RxOk, Held, Queued
<1>. QED
  BY <1>1, <1>2, RxMoves

LEMMA NextInv == Inv /\ [Next]_vars => Inv'
<1>. SUFFICES ASSUME Inv, [Next]_vars PROVE Inv'
  OBVIOUS
<1>1. CASE UNCHANGED vars
  BY <1>1, StutterInv
<1>2. ASSUME NEW t \in Thread, Call(t) PROVE Inv'
  <2>1. CASE Bind(t) \/ Listen(t) \/ Accept(t)
    BY <2>1, BindStep, ListenStep, AcceptStep
  <2>2. CASE \E r \in Host : Connect(t, r)
    BY <2>2, ConnectStep DEF Remote
  <2>3. ASSUME NEW i \in Sock,
               Recv(t, i) \/ Send(t, i) \/ CloseListener(t, i) \/ CloseClosed(t, i) \/ Close(t, i)
        PROVE  Inv'
    BY <2>3, RecvStep, SendStep, CloseListenerStep, CloseClosedStep, CloseStep
  <2>. QED
    BY <1>2, <2>1, <2>2, <2>3 DEF Call
<1>3. ASSUME NEW t \in Thread, Continue(t) PROVE Inv'
  BY <1>3, ConnectTestStep, AcceptTestStep, RecvTestStep, TransmitStep DEF Continue
<1>4. ASSUME NEW r \in Remote, RxTake(r) PROVE Inv'
  BY <1>4, RxTakeStep
<1>5. CASE TcpInput
  BY <1>5, InSynSentStep, InListenSynStep, InListenAckStep, InEstablishedStep, InFinWaitStep,
     InClosedStep, RxReplyStep, RxDestroyStep DEF TcpInput
<1>6. ASSUME NEW r \in Remote, Elsewhere(r) PROVE Inv'
  BY <1>6, PeerConnectStep, PeerSendStep, PeerProbeStep, PeerCloseStep, PeerRetryStep, PeerReceiveStep
     DEF Elsewhere
<1>7. ASSUME NEW r \in Remote, Fault(r) PROVE Inv'
  BY <1>7, FaultStep
<1>. QED
  BY <1>1, <1>2, <1>3, <1>4, <1>5, <1>6, <1>7 DEF Next, Receive

LEMMA InvIsSafe == Inv => SocketsSafe
<1>. SUFFICES ASSUME Inv PROVE SocketsSafe
  OBVIOUS
<1>1. TypeOK
  <2>1. ASSUME NEW i \in Sock
        PROVE  /\ sock[i].mem \in {"none", "live", "freed"} /\ sock[i].st \in States
               /\ sock[i].remote \in Remote \cup {None}
               /\ sock[i].head \in 0 .. Ring - 1 /\ sock[i].tail \in 0 .. Ring - 1
    BY InvIs, SockFields
  <2>2. ASSUME NEW k \in DOMAIN queue PROVE queue[k].s \in Sock \cup {None}
    <3>1. queue[k] \in QueueRec
      BY InvIs DEF KernelTyped
    <3>. QED
      BY <3>1 DEF QueueRec
  <2>3. ASSUME NEW t \in Thread
        PROVE  th[t].pc \in {"user", "test", "asleep", "out"} /\ holds[t] \subseteq Sock
    <3>1. th[t] \in CallRec
      BY InvIs DEF CallsTyped
    <3>. QED
      BY <3>1, InvIs DEF CallRec
  <2>4. rx.pc \in {"idle", "input", "reply", "last", "unlink"} /\ rx.s \in Sock \cup {None}
    <3>1. rx \in RxRec
      BY InvIs DEF CallsTyped
    <3>. QED
      BY <3>1 DEF RxRec
  <2>. QED
    BY <2>1, <2>2, <2>3, <2>4, InvIs DEF TypeOK, WellTyped, States
<1>2. SessionsApart
  <2>. SUFFICES ASSUME NEW k \in DOMAIN list, NEW l \in DOMAIN list, k # l, sock[list[k]].st # "CLOSED",
                       sock[list[l]].st # "CLOSED", sock[list[k]].remote = sock[list[l]].remote
                PROVE  FALSE
    BY DEF SessionsApart
  <2>1. list[k] \in Listed /\ list[l] \in Listed
    BY DEF Listed
  <2>2. list[k] = list[l]
    BY <2>1, InvIs DEF OneEach
  <2>. QED
    BY <2>2, InvIs DEF Once
<1>3. SocketsOwned
  <2>. SUFFICES ASSUME NEW i \in Sock, sock[i].mem = "freed"
                PROVE  /\ i \notin Listed /\ \A k \in DOMAIN queue : queue[k].s # i
                       /\ rx.s # i
                       /\ \A t \in Thread : i \notin holds[t] /\ (th[t].s = i => th[t].op = "close")
    BY DEF SocketsOwned
  <2>0. i # None
    BY Sizes
  <2>1. i \notin Listed /\ ~Queued(i) /\ \A t \in Thread : i \notin holds[t]
    BY InvIs DEF Blocks, QueueOk, HoldsOk
  <2>2. rx.s # i
    BY <2>0, InvIs DEF RxOk
  <2>3. ASSUME NEW t \in Thread, th[t].s = i PROVE th[t].op = "close"
    <3>1. CallOk(t) /\ th[t] \in CallRec
      BY InvIs, CallKnows DEF CallsTyped
    <3>2. th[t].pc \in {"user", "test", "asleep", "out"}
      BY <3>1 DEF CallRec
    <3>. QED
      BY <2>0, <2>1, <2>3, <3>1, <3>2 DEF CallOk
  <2>. QED
    BY <2>1, <2>2, <2>3 DEF Queued
<1>. QED
  BY <1>1, <1>2, <1>3 DEF SocketsSafe

\* Every open socket of g_bound_sockets_head is found by segments of its own
\* connection only, and a socket is freed (af_inet_release, tcp_input after the
\* last FIN) only when the list, the listener's queue, the receive thread and
\* the programs have let go of it, except a close whose FIN has not left yet:
\* for any number of programs, sockets and hosts, whatever the network loses,
\* repeats or reorders and whichever allocation fails.
THEOREM SocketsStaySafe == Spec => []SocketsSafe
<1>1. Inv => SocketsSafe
  BY InvIsSafe
<1>. QED
  BY <1>1, InitInv, NextInv, PTL DEF Spec

\* Nobody sleeps in accept while a session is ready, nor in recvfrom while
\* there is data or the connection is over: every step that makes such a
\* condition true wakes the wait queue of the socket.
THEOREM SleepersStayAttended == Spec => []Attended
<1>1. Inv => Attended
  BY DEF Inv
<1>. QED
  BY <1>1, InitInv, NextInv, PTL DEF Spec
=============================================================================
