-------------------------------- MODULE Tcp --------------------------------
(***************************************************************************)
(* TCP sockets: the calls of kernel/net/socket.c and af_inet.c, the        *)
(* protocol of kernel/net/tcp.c, and the receive thread that runs          *)
(* tcp_input, between programs and remote hosts that keep to the standard. *)
(*                                                                         *)
(* A step is what the code does under one lock; segments leave after the   *)
(* lock is released.  The kernel has no timers: it never sends anything a  *)
(* second time.  A byte of a stream is its position in it.                 *)
(***************************************************************************)
EXTENDS Integers, Sequences, FiniteSets, SequencesExt

CONSTANTS
    Server,     \* programs that listen
    Client,     \* programs that connect
    Caller,     \* remote ends, of one connection each: these may ask for it,
    Host,       \* these may be asked
    MaxSock,    \* bound on the sockets ever made
    Ring,       \* SOCKET_BUFFER_SIZE
    Offer,      \* the window of segments that do not compute one (2048),
    Notice,     \* and of the SYN, FIN and RST of connect and close (1024)
    MaxIn,      \* bound on the bytes a remote host sends
    MaxOut,     \* bound on the bytes written to a socket
    MaxFault    \* bound on segments lost, repeated or overtaken, and on
                \* allocations and transmissions that fail

ASSUME TcpAssumption ==
    /\ Ring \in Nat /\ Offer \in Nat \ {0} /\ Offer < Ring /\ Notice \in 1 .. Offer
    /\ MaxSock \in Nat /\ MaxIn \in Nat /\ MaxOut \in Nat /\ MaxFault \in Nat

VARIABLES
    sock,       \* the sockets
    list,       \* g_bound_sockets_head, first to last
    queue,      \* listen_queue: half-open connections and sessions
    th, holds,  \* what each program is doing, and the sockets it has open
    rx,         \* the receive thread
    in, out,    \* segments on their way, per remote host
    peer,       \* the remote hosts
    faults,     \* what has gone wrong so far
    inTrouble,  \* remote ends whose stream to us is damaged, or may be
    outTrouble  \* remote ends our stream to which is

kernel == <<sock, list, queue>>
net == <<in, out, peer>>
vars == <<sock, list, queue, th, holds, rx, in, out, peer, faults, inTrouble, outTrouble>>

Thread == Server \cup Client
Remote == Caller \cup Host
Sock == 1 .. MaxSock
None == 0
WellKnown == 0              \* the server's port; the others are ephemeral

ASSUME RemoteAssumption == None \notin Remote

NoSock == [mem |-> "none", st |-> "CLOSED", port |-> -1, remote |-> None, seq |-> 0, ack |-> 0,
           buf |-> [k \in 0 .. Ring - 1 |-> 0], head |-> 0, tail |-> 0,
           read |-> <<>>, wrote |-> 0]
Seg(f, s, a, w, d) == [flag |-> f, seq |-> s, ack |-> a, win |-> w, data |-> d]
\* A segment on the wire, with the port at our end.
On(p, g) == [port |-> p, seg |-> g]
NoSeg == Seg("none", 0, 0, 0, <<>>)
User == [pc |-> "user", op |-> "none", s |-> None, seg |-> NoSeg]
Idle == [pc |-> "idle", s |-> None, from |-> None, seg |-> NoSeg, port |-> -1]
NoPeer == [st |-> "closed", port |-> -1, sent |-> 0, fin |-> 0, una |-> 0, win |-> 0,
           rcv |-> 0, got |-> <<>>]
Over == [NoPeer EXCEPT !.st = "done"]

Init ==
    /\ sock = [i \in Sock |-> NoSock] /\ list = <<>> /\ queue = <<>>
    /\ th = [t \in Thread |-> User] /\ holds = [t \in Thread |-> {}]
    /\ rx = Idle
    /\ in = [r \in Remote |-> <<>>] /\ out = [r \in Remote |-> <<>>]
    /\ peer = [r \in Remote |-> NoPeer]
    /\ faults = 0 /\ inTrouble = {} /\ outTrouble = {}

-----------------------------------------------------------------------------
(* Helpers.                                                                *)

\* Something goes wrong with the connection to r: the streams may suffer.
Fails(r) ==
    /\ faults < MaxFault /\ faults' = faults + 1
    /\ inTrouble' = inTrouble \cup {r} /\ outTrouble' = outTrouble \cup {r}
well == <<faults, inTrouble, outTrouble>>

Listed == {list[k] : k \in DOMAIN list}
Freed(i) == [NoSock EXCEPT !.mem = "freed", !.remote = sock[i].remote, !.port = sock[i].port]
Unlisted(i) == RemoveFirst(list, i)
\* socket_create.
Fresh == {i \in Sock : sock[i].mem = "none" /\ \A j \in 1 .. i - 1 : sock[j].mem # "none"}

\* The receive ring: one cell stays empty.
Used(s) == IF s.head >= s.tail THEN s.head - s.tail ELSE Ring - (s.tail - s.head)
\* Mutant of Room: the ring may fill up, and looks empty then.
RoomWhole(s) == Ring - Used(s)
Room(s) == Ring - Used(s) - 1
Stored(s, d) ==
    [s EXCEPT !.buf = [k \in 0 .. Ring - 1 |->
                          LET n == (k - s.head) % Ring
                          IN  IF n < Len(d) THEN d[n + 1] ELSE s.buf[k]],
              !.head = (s.head + Len(d)) % Ring]
Content(s) == [k \in 1 .. Used(s) |-> s.buf[(s.tail + k - 1) % Ring]]

\* Mutant of Wakeup: nobody is woken.
WakeupNobody(i) == th
\* wakeup(&sock->wait_queue): sleepers test again.
Wakeup(i) == [t \in Thread |-> IF th[t].pc = "asleep" /\ th[t].s = i
                               THEN [th[t] EXCEPT !.pc = "test"] ELSE th[t]]

\* Mutant of Matching: a connection that is being closed is not looked for.
MatchingOpen(r, p) == {k \in DOMAIN list : LET s == sock[list[k]] IN
                          s.port = p /\ s.st = "ESTABLISHED" /\ s.remote = r}
\* tcp_input_lookup: the session with this host, or else the listener.
Matching(r, p) == {k \in DOMAIN list : LET s == sock[list[k]] IN
                      s.port = p /\ s.st # "LISTEN" /\ s.remote = r}
Listening(p) == {k \in DOMAIN list : sock[list[k]].port = p /\ sock[list[k]].st = "LISTEN"}
Lookup(r, p) ==
    IF Matching(r, p) # {} THEN list[Min(Matching(r, p))]
    ELSE IF Listening(p) # {} THEN list[Max(Listening(p))] ELSE None

-----------------------------------------------------------------------------
(* Calls.                                                                  *)

Calling(t, c) == th' = [th EXCEPT ![t] = c]
Begin(t, op, i) == [pc |-> "test", op |-> op, s |-> i, seg |-> NoSeg]
Sending(t, op, i, g) == [pc |-> "out", op |-> op, s |-> i, seg |-> g]

\* socket, bind: socket_bind_address refuses a port that is taken.  Bound: the
\* programs serve or connect, not both, and the well-known port is bound once.
Unused == \A i \in Sock : sock[i].mem = "none"
Serving == \E i \in Sock : sock[i].port = WellKnown
Bind(t) ==
    /\ th[t] = User /\ Unused
    /\ \E i \in Fresh :
          /\ sock' = [sock EXCEPT ![i].mem = "live", ![i].port = WellKnown]
          /\ list' = <<i>> \o list
          /\ holds' = [holds EXCEPT ![t] = @ \cup {i}]
    /\ UNCHANGED <<queue, th, rx, net, well>>
\* af_inet_listen.
Listen(t) ==
    /\ th[t] = User
    /\ \E i \in holds[t] :
          /\ sock[i].port = WellKnown /\ sock[i].st = "CLOSED"
          /\ sock' = [sock EXCEPT ![i].st = "LISTEN"]
    /\ UNCHANGED <<list, queue, th, holds, rx, net, well>>

\* socket_auto_bind_inet: the first ephemeral port no socket of the list has.
FreePort(p) ==
    /\ \A j \in Listed : sock[j].port # p
    /\ \A q \in 1 .. p - 1 : \E j \in Listed : sock[j].port = q
\* socket, connect: tcp_connect_handshake sets the state before the SYN leaves.
Connect(t, r) ==
    /\ th[t] = User /\ ~Serving /\ peer[r].st = "closed" /\ \A i \in Sock : sock[i].remote # r
    /\ \E i \in Fresh :
       \E p \in 1 .. MaxSock :
          /\ FreePort(p)
          /\ sock' = [sock EXCEPT ![i] = [NoSock EXCEPT !.mem = "live", !.port = p, !.remote = r,
                                                        !.seq = 1000, !.st = "SYN_SENT"]]
          /\ list' = <<i>> \o list
          /\ holds' = [holds EXCEPT ![t] = @ \cup {i}]
          /\ Calling(t, Sending(t, "connect", i, Seg("SYN", 1000, 0, Notice, <<>>)))
    /\ UNCHANGED <<queue, rx, net, well>>
\* af_inet_connect, after the SYN has left: the numbers it compares the state
\* with are those of ESTABLISHED (it sleeps) and SYN_SENT (it succeeds).
ConnectTest(t) ==
    /\ th[t].pc = "test" /\ th[t].op = "connect"
    /\ Calling(t, IF sock[th[t].s].st = "ESTABLISHED" THEN [th[t] EXCEPT !.pc = "asleep"] ELSE User)
    /\ UNCHANGED <<kernel, holds, rx, net, well>>

\* accept: the first session of the queue, and a descriptor for it; without
\* memory for the descriptor the session is lost.
Ready == {k \in DOMAIN queue : queue[k].s # None /\ sock[queue[k].s].st = "ESTABLISHED"}
Accept(t) ==
    /\ th[t] = User
    /\ \E i \in holds[t] : sock[i].st = "LISTEN" /\ Calling(t, Begin(t, "accept", i))
    /\ UNCHANGED <<kernel, holds, rx, net, well>>
AcceptTest(t) ==
    /\ th[t].pc = "test" /\ th[t].op = "accept"
    /\ \/ /\ Ready = {} /\ Calling(t, [th[t] EXCEPT !.pc = "asleep"])
          /\ UNCHANGED <<queue, holds, well>>
       \/ /\ Ready # {} /\ Calling(t, User)
          /\ queue' = RemoveAt(queue, Min(Ready))
          /\ \/ holds' = [holds EXCEPT ![t] = @ \cup {queue[Min(Ready)].s}] /\ UNCHANGED well
             \/ Fails(queue[Min(Ready)].r) /\ UNCHANGED holds
    /\ UNCHANGED <<sock, list, rx, net>>

\* af_inet_recvfrom; with nothing to read it returns at once, unless connected.
Recv(t, i) ==
    /\ th[t] = User /\ i \in holds[t]
    /\ sock[i].st = "ESTABLISHED" \/ sock[i].head # sock[i].tail
    /\ Calling(t, Begin(t, "recv", i))
    /\ UNCHANGED <<kernel, holds, rx, net, well>>
RecvTest(t) ==
    /\ th[t].pc = "test" /\ th[t].op = "recv"
    /\ LET i == th[t].s
           s == sock[i]
       IN  \/ /\ s.head = s.tail
              /\ Calling(t, IF s.st = "ESTABLISHED" THEN [th[t] EXCEPT !.pc = "asleep"] ELSE User)
              /\ UNCHANGED sock
           \/ /\ s.head # s.tail /\ Calling(t, User)
              /\ \E n \in 1 .. Used(s) :
                    sock' = [sock EXCEPT ![i].tail = (@ + n) % Ring,
                                         ![i].buf = [k \in 0 .. Ring - 1 |->
                                             IF (k - s.tail) % Ring < n THEN 0 ELSE s.buf[k]],
                                         ![i].read = @ \o SubSeq(Content(s), 1, n)]
    /\ UNCHANGED <<list, queue, holds, rx, net, well>>

\* tcp_send_stream; the window it announces is always the same.
Send(t, i) ==
    /\ th[t] = User /\ i \in holds[t] /\ sock[i].st = "ESTABLISHED" /\ sock[i].wrote < MaxOut
    /\ sock' = [sock EXCEPT ![i].seq = @ + 1, ![i].wrote = @ + 1]
    /\ Calling(t, Sending(t, "send", i,
                     Seg("ACK", sock[i].seq, sock[i].ack, Offer, <<sock[i].wrote + 1>>)))
    /\ inTrouble' = IF Offer > Room(sock[i]) THEN inTrouble \cup {sock[i].remote} ELSE inTrouble
    /\ UNCHANGED <<list, queue, holds, rx, net, faults, outTrouble>>

\* socket_vfs_close, af_inet_release, tcp_disconnect.  A listener drops its
\* queue but stays in the list, still listening; a connection waits for the
\* other side's FIN, or is given up with a RST, and stays in the list too.
CloseListener(t, i) ==
    /\ th[t] = User /\ i \in holds[t] /\ sock[i].st = "LISTEN"
    /\ LET Q == {queue[k].s : k \in DOMAIN queue} \ {None}
       IN  sock' = [j \in Sock |-> IF j \in Q THEN [sock[j] EXCEPT !.st = "CLOSED"] ELSE sock[j]]
    /\ queue' = <<>>
    /\ holds' = [holds EXCEPT ![t] = @ \ {i}]
    /\ UNCHANGED <<list, th, rx, net, well>>
CloseClosed(t, i) ==
    /\ th[t] = User /\ i \in holds[t] /\ sock[i].st = "CLOSED"
    /\ sock' = [sock EXCEPT ![i] = Freed(i)] /\ list' = Unlisted(i)
    /\ holds' = [holds EXCEPT ![t] = @ \ {i}]
    /\ UNCHANGED <<queue, th, rx, net, well>>
Close(t, i) ==
    /\ th[t] = User /\ i \in holds[t]
    /\ LET s == sock[i]
       IN  \/ /\ s.st = "ESTABLISHED"
              /\ sock' = [sock EXCEPT ![i].st = "FIN_WAIT_1", ![i].seq = @ + 1]
              /\ Calling(t, Sending(t, "close", i, Seg("FIN", s.seq, s.ack, Notice, <<>>)))
           \/ /\ s.st = "SYN_SENT"
              /\ sock' = [sock EXCEPT ![i].st = "CLOSED"]
              /\ Calling(t, Sending(t, "close", i, Seg("RST", s.seq, s.ack, Notice, <<>>)))
    /\ holds' = [holds EXCEPT ![t] = @ \ {i}]
    /\ UNCHANGED <<list, queue, rx, net, well>>

\* ip_output, after the lock is released.  If it fails a connect and a close
\* fall back to CLOSED; a send has counted the bytes already.  A close without
\* memory for its segment keeps the state it has set: nothing tells the host.
Transmit(t) ==
    /\ th[t].pc = "out"
    /\ LET i == th[t].s
           r == sock[i].remote
           op == th[t].op
       IN  \/ /\ out' = [out EXCEPT ![r] = Append(@, On(sock[i].port, th[t].seg))]
              /\ Calling(t, IF op = "connect" THEN Begin(t, "connect", i) ELSE User)
              /\ UNCHANGED <<sock, well>>
           \/ /\ Fails(r)
              /\ \/ op # "send" /\ sock' = [sock EXCEPT ![i].st = "CLOSED"]
                 \/ op # "connect" /\ UNCHANGED sock
              /\ Calling(t, User) /\ UNCHANGED out
    /\ UNCHANGED <<list, queue, holds, rx, in, peer>>

-----------------------------------------------------------------------------
(* The receive thread.                                                     *)

\* tcp_input finds the socket under the lock of the list, which it releases.
RxTake(r) ==
    /\ rx = Idle /\ in[r] # <<>>
    /\ in' = [in EXCEPT ![r] = Tail(@)]
    /\ LET i == Lookup(r, Head(in[r]).port)
       IN  rx' = IF i = None THEN rx
                 ELSE [Idle EXCEPT !.pc = "input", !.s = i, !.from = r, !.seg = Head(in[r]).seg,
                                   !.port = Head(in[r]).port]
    /\ UNCHANGED <<kernel, th, holds, out, peer, well>>

\* What is left to do after the socket's lock is released: send g, and destroy
\* the socket (pc = "unlink").
Then(g, next) == rx' = [rx EXCEPT !.pc = next, !.seg = g]
Done == rx' = Idle
Got == rx.seg
At == sock[rx.s]

\* No memory for the answer.
Unanswered == Fails(rx.from) /\ Done
Answered(g, next) == Then(g, next) /\ UNCHANGED well

InSynSent ==
    /\ rx.pc = "input" /\ At.st = "SYN_SENT"
    /\ \/ /\ Got.flag = "SYNACK"
          /\ sock' = [sock EXCEPT ![rx.s].ack = Got.seq + 1, ![rx.s].seq = Got.ack,
                                  ![rx.s].st = "ESTABLISHED"]
          /\ th' = Wakeup(rx.s)
          /\ \/ Answered(Seg("ACK", Got.ack, Got.seq + 1, Offer, <<>>), "reply")
             \/ Unanswered
       \/ Got.flag # "SYNACK" /\ Done /\ UNCHANGED <<sock, th, well>>
    /\ UNCHANGED <<list, queue, holds, net>>

\* A SYN leaves a half-open connection at the head of the queue; it is not
\* compared with those that are there.
InListenSyn ==
    /\ rx.pc = "input" /\ At.st = "LISTEN" /\ Got.flag \in {"SYN", "SYNACK"}
    /\ \/ /\ queue' = <<[r |-> rx.from, seq |-> At.seq, s |-> None]>> \o queue
          /\ Answered(Seg("SYNACK", At.seq, Got.seq + 1, Offer, <<>>), "reply")
       \/ Unanswered /\ UNCHANGED queue
    /\ UNCHANGED <<sock, list, th, holds, net>>

\* Any segment with ACK from a host with a half-open connection makes it a
\* session, with a socket of its own in its place in the queue.
HalfOpen == {k \in DOMAIN queue : queue[k].r = rx.from /\ queue[k].s = None}
Completed(i) ==
    [NoSock EXCEPT !.mem = "live", !.st = "ESTABLISHED", !.port = At.port, !.remote = rx.from,
                   !.seq = queue[Min(HalfOpen)].seq + 1, !.ack = Got.seq]
InListenAck ==
    /\ rx.pc = "input" /\ At.st = "LISTEN" /\ Got.flag \notin {"SYN", "SYNACK"} /\ Done
    /\ \/ /\ Got.flag \in {"ACK", "FIN"} /\ HalfOpen # {}
          /\ \/ \E i \in Fresh :
                   /\ sock' = [sock EXCEPT ![i] = Completed(i)]
                   /\ queue' = [queue EXCEPT ![Min(HalfOpen)].s = i]
                   /\ list' = <<i>> \o list
                   /\ th' = Wakeup(rx.s) /\ UNCHANGED well
             \/ Fails(rx.from) /\ UNCHANGED <<kernel, th>>
       \/ /\ Got.flag \notin {"ACK", "FIN"} \/ HalfOpen = {}
          /\ UNCHANGED <<kernel, th, well>>
    /\ UNCHANGED <<holds, net>>

\* Data goes into the ring whatever its sequence number; if there is no room
\* it is dropped, but acknowledged all the same.
InEstablished ==
    /\ rx.pc = "input" /\ At.st = "ESTABLISHED"
    /\ LET n == Len(Got.data)
           s == [Stored(At, Got.data) EXCEPT !.ack = Got.seq + n, !.seq = Got.ack]
       IN  \/ n = 0 /\ Done /\ UNCHANGED <<sock, th, well>>
           \/ /\ n > 0 /\ Room(At) < n
              /\ Answered(Seg("ACK", At.seq, Got.seq + n, 0, <<>>), "reply") \/ Unanswered
              /\ UNCHANGED <<sock, th>>
           \/ /\ n > 0 /\ Room(At) >= n
              /\ sock' = [sock EXCEPT ![rx.s] = s]
              /\ th' = Wakeup(rx.s)
              /\ \/ /\ Then(Seg("ACK", Got.ack, Got.seq + n, Room(s), <<>>), "reply")
                    /\ outTrouble' = IF Got.ack # At.seq THEN outTrouble \cup {rx.from} ELSE outTrouble
                    /\ UNCHANGED <<faults, inTrouble>>
                 \/ Unanswered
    /\ UNCHANGED <<list, queue, holds, net>>

\* The other side's FIN ends the connection; nobody else can close the socket.
InFinWait ==
    /\ rx.pc = "input" /\ At.st = "FIN_WAIT_1"
    /\ \/ /\ Got.flag = "FIN"
          /\ sock' = [sock EXCEPT ![rx.s].st = "CLOSED", ![rx.s].ack = Got.seq + 1, ![rx.s].seq = Got.ack]
          /\ \/ Answered(Seg("ACK", Got.ack, Got.seq + 1, Offer, <<>>), "last")
             \/ Unanswered
       \/ Got.flag # "FIN" /\ Done /\ UNCHANGED <<sock, well>>
    /\ UNCHANGED <<list, queue, th, holds, net>>
InClosed ==
    /\ rx.pc = "input" /\ At.st = "CLOSED" /\ Done
    /\ UNCHANGED <<kernel, th, holds, net, well>>

\* ip_output of the answer; after the last one the socket is destroyed.
RxReply ==
    /\ rx.pc \in {"reply", "last"}
    /\ out' = [out EXCEPT ![rx.from] = Append(@, On(rx.port, Got))]
    /\ rx' = IF rx.pc = "reply" THEN Idle ELSE [rx EXCEPT !.pc = "unlink", !.seg = NoSeg]
    /\ UNCHANGED <<kernel, th, holds, in, peer, well>>
RxDestroy ==
    /\ rx.pc = "unlink" /\ Done
    /\ list' = Unlisted(rx.s) /\ sock' = [sock EXCEPT ![rx.s] = Freed(rx.s)]
    /\ UNCHANGED <<queue, th, holds, net, well>>

-----------------------------------------------------------------------------
(* The remote hosts, which keep to the standard, and the network.          *)

\* The states of a host that is connected.
Live == {"est", "fin", "closewait", "closing", "last"}
\* The next sequence number of host r, and what it puts on the wire.
Nxt(r) == 1 + peer[r].sent + peer[r].fin
Puts(r, p, g) == in' = [in EXCEPT ![r] = Append(@, On(p, g))]
Plain(r, p, f) == Seg(f, 1 + p.sent + p.fin, p.rcv, Offer, <<>>)
World == <<kernel, th, holds, rx, well>>

PeerConnect(r) ==
    /\ r \in Caller /\ peer[r].st = "closed" /\ \A i \in Sock : sock[i].remote # r
    /\ peer' = [peer EXCEPT ![r].st = "synsent", ![r].port = WellKnown]
    /\ Puts(r, WellKnown, Seg("SYN", 0, 0, Offer, <<>>))
    /\ UNCHANGED <<World, out>>
\* Data within the window; one or two bytes.
PeerSend(r) ==
    /\ peer[r].st \in {"est", "closewait"}
    /\ \E n \in 1 .. 2 :
          /\ peer[r].sent + n <= MaxIn /\ Nxt(r) + n <= peer[r].una + peer[r].win
          /\ peer' = [peer EXCEPT ![r].sent = @ + n]
          /\ Puts(r, peer[r].port, Seg("ACK", Nxt(r), peer[r].rcv, Offer,
                                        [k \in 1 .. n |-> peer[r].sent + k]))
    /\ UNCHANGED <<World, out>>
\* When no window is left and nothing is on its way, one byte asks for more.
Full(r) == \E i \in Sock : sock[i].mem = "live" /\ sock[i].remote = r /\ Room(sock[i]) = 0
Quiet(r) ==
    /\ in[r] = <<>> /\ out[r] = <<>> /\ rx.from # r
    /\ \A t \in Thread : th[t].pc = "out" => sock[th[t].s].remote # r
PeerProbe(r) ==
    /\ peer[r].st \in {"est", "closewait"} /\ Quiet(r)
    /\ peer[r].sent < MaxIn /\ peer[r].una = Nxt(r) /\ peer[r].win = 0
    /\ peer' = [peer EXCEPT ![r].sent = @ + 1]
    /\ Puts(r, peer[r].port, Seg("ACK", Nxt(r), peer[r].rcv, Offer, <<peer[r].sent + 1>>))
    /\ inTrouble' = IF Full(r) THEN inTrouble \cup {r} ELSE inTrouble
    /\ UNCHANGED <<kernel, th, holds, rx, out, faults, outTrouble>>
PeerClose(r) ==
    /\ peer[r].st \in {"est", "closewait"}
    /\ peer' = [peer EXCEPT ![r].st = IF @ = "est" THEN "fin" ELSE "last", ![r].fin = 1]
    /\ Puts(r, peer[r].port, Plain(r, peer[r], "FIN"))
    /\ UNCHANGED <<World, out>>

\* A timer expires when nothing is on its way any more: the SYN, the data or
\* the FIN is sent again.
PeerRetry(r) ==
    /\ Quiet(r)
    /\ \/ peer[r].st = "synsent" /\ Puts(r, WellKnown, Seg("SYN", 0, 0, Offer, <<>>))
       \/ peer[r].st \in {"fin", "closing", "last"}
          /\ Puts(r, peer[r].port, [Plain(r, peer[r], "FIN") EXCEPT !.seq = @ - 1])
       \/ peer[r].st \in Live /\ peer[r].una <= peer[r].sent
          /\ Puts(r, peer[r].port, Seg("ACK", peer[r].una, peer[r].rcv, Offer, <<peer[r].una>>))
    /\ UNCHANGED <<World, out, peer>>

\* What a host makes of a segment: acknowledgements count, data and FIN only
\* in their turn.
Acked(p, g) == IF g.ack > p.una THEN [p EXCEPT !.una = g.ack, !.win = g.win]
               ELSE IF g.ack = p.una THEN [p EXCEPT !.win = g.win] ELSE p
PeerReceive(r) ==
    /\ out[r] # <<>>
    /\ out' = [out EXCEPT ![r] = Tail(@)]
    /\ LET g == Head(out[r]).seg
           p == IF peer[r].st = "synrcvd" /\ g.flag \in {"ACK", "FIN"} THEN [peer[r] EXCEPT !.st = "est"] ELSE peer[r]
           q == Acked(p, g)
           now(x) == peer' = [peer EXCEPT ![r] = x]
           quiet(x) == now(x) /\ UNCHANGED in
           answer(x, f) == now(x) /\ Puts(r, Head(out[r]).port, Plain(r, x, f))
       IN  CASE p.st = "closed" /\ g.flag = "SYN" /\ r \in Host ->
                    LET x == [p EXCEPT !.st = "synrcvd", !.port = Head(out[r]).port, !.rcv = g.seq + 1]
                    IN  now(x) /\ Puts(r, x.port, Seg("SYNACK", 0, x.rcv, Offer, <<>>))
             [] g.flag = "RST" -> quiet(Over)
             [] p.st = "synsent" /\ g.flag = "SYNACK" ->
                    answer([q EXCEPT !.st = "est", !.rcv = g.seq + 1], "ACK")
             [] p.st \in Live /\ g.flag = "ACK" /\ g.data = <<>> ->
                    quiet(IF q.st \in {"closing", "last"} /\ q.una = 1 + q.sent + q.fin THEN Over ELSE q)
             [] p.st \in Live /\ g.flag = "ACK" /\ g.data # <<>> ->
                    answer(IF g.seq = q.rcv THEN [q EXCEPT !.rcv = @ + Len(g.data), !.got = @ \o g.data]
                           ELSE q, "ACK")
             [] p.st \in Live /\ g.flag = "FIN" ->
                    answer(IF g.seq = q.rcv
                           THEN [q EXCEPT !.rcv = @ + 1, !.st = CASE @ = "est" -> "closewait"
                                                                  [] @ = "fin" -> "closing"
                                                                  [] OTHER -> @]
                           ELSE q, "ACK")
             [] OTHER -> quiet(p)
    /\ UNCHANGED World

\* A segment is lost, repeated or overtaken by the next one.
Upset(w) ==
    {Tail(w), <<Head(w)>> \o w}
    \cup {<<w[2], w[1]>> \o SubSeq(w, 3, Len(w)) : k \in {2} \cap DOMAIN w}
Fault(r) ==
    /\ Fails(r)
    /\ \/ in[r] # <<>> /\ in' \in {[in EXCEPT ![r] = w] : w \in Upset(in[r])} /\ UNCHANGED out
       \/ out[r] # <<>> /\ out' \in {[out EXCEPT ![r] = w] : w \in Upset(out[r])} /\ UNCHANGED in
    /\ UNCHANGED <<kernel, th, holds, rx, peer>>

-----------------------------------------------------------------------------
Call(t) ==
    \/ t \in Server /\ (Bind(t) \/ Listen(t) \/ Accept(t))
    \/ t \in Client /\ \E r \in Host : Connect(t, r)
    \/ \E i \in Sock : Recv(t, i) \/ Send(t, i) \/ CloseListener(t, i) \/ CloseClosed(t, i) \/ Close(t, i)
Continue(t) == ConnectTest(t) \/ AcceptTest(t) \/ RecvTest(t) \/ Transmit(t)
TcpInput ==
    \/ InSynSent \/ InListenSyn \/ InListenAck \/ InEstablished \/ InFinWait \/ InClosed
    \/ RxReply \/ RxDestroy
Receive == (\E r \in Remote : RxTake(r)) \/ TcpInput
Elsewhere(r) == PeerConnect(r) \/ PeerSend(r) \/ PeerProbe(r) \/ PeerClose(r) \/ PeerRetry(r) \/ PeerReceive(r)

Next ==
    \/ \E t \in Thread : Call(t) \/ Continue(t)
    \/ Receive
    \/ \E r \in Remote : Elsewhere(r) \/ Fault(r)

Spec == Init /\ [][Next]_vars

-----------------------------------------------------------------------------
(* Properties.                                                             *)

\* Every variable keeps its type, and the ring's ends stay inside it.
TypeOK ==
    /\ \A i \in Sock :
          /\ sock[i].mem \in {"none", "live", "freed"}
          /\ sock[i].st \in {"CLOSED", "SYN_SENT", "LISTEN", "ESTABLISHED", "FIN_WAIT_1"}
          /\ sock[i].remote \in Remote \cup {None}
          /\ sock[i].head \in 0 .. Ring - 1 /\ sock[i].tail \in 0 .. Ring - 1
    /\ Listed \subseteq Sock /\ \A k \in DOMAIN queue : queue[k].s \in Sock \cup {None}
    /\ \A t \in Thread : th[t].pc \in {"user", "test", "asleep", "out"} /\ holds[t] \subseteq Sock
    /\ rx.pc \in {"idle", "input", "reply", "last", "unlink"} /\ rx.s \in Sock \cup {None}
    /\ faults \in 0 .. MaxFault
    /\ inTrouble \subseteq Remote /\ outTrouble \subseteq Remote

\* No program sleeps through what it waits for: not a server in accept while a
\* session is ready, nor a reader while there is data, however many programs wait
\* on one socket.
Attended ==
    \A t \in Thread : th[t].pc = "asleep" =>
        /\ th[t].op = "accept" => Ready = {}
        /\ th[t].op = "recv" => sock[th[t].s].head = sock[th[t].s].tail

\* Segments have one place to go: no two open sockets of the list have the same
\* port and remote host, whatever the network repeats.
SessionsApart ==
    \A k, l \in DOMAIN list :
        LET a == sock[list[k]]
            b == sock[list[l]]
        IN  k # l /\ a.st # "CLOSED" /\ b.st # "CLOSED" /\ a.port = b.port => a.remote # b.remote

\* A socket is destroyed when nobody can find it any more.  Only a close whose
\* FIN has not left yet may still use it: the remote host closed too.
SocketsOwned ==
    \A i \in Sock : sock[i].mem = "freed" =>
        /\ i \notin Listed /\ \A k \in DOMAIN queue : queue[k].s # i
        /\ rx.s # i
        /\ \A t \in Thread : i \notin holds[t] /\ (th[t].s = i => th[t].op = "close")

\* Sockets are found and freed right: the types, SessionsApart and SocketsOwned.
SocketsSafe == TypeOK /\ SessionsApart /\ SocketsOwned

\* The data of the segments w, one after the other.
Bytes(w) ==
    LET upto[k \in 0 .. Len(w)] == IF k = 0 THEN <<>> ELSE upto[k - 1] \o w[k].seg.data
    IN  upto[Len(w)]
Upto(n) == [k \in 1 .. n |-> k]
Coming(r) == (IF rx.pc = "input" /\ rx.from = r THEN rx.seg.data ELSE <<>>) \o Bytes(in[r])
\* As long as the network is good, no segment has promised a window that is not
\* there and no host has probed a full ring, every byte a host sends is read, in
\* the ring, or on its way, in the order it was sent: none is dropped for lack
\* of room.
InIntact ==
    \A i \in Sock :
        LET s == sock[i]
        IN  s.mem = "live" /\ s.st = "ESTABLISHED" /\ s.remote \notin inTrouble =>
                s.read \o Content(s) \o Coming(s.remote) = Upto(peer[s.remote].sent)

Going(i) == UNION {{th[t].seg.data : t \in {u \in Thread : th[u].pc = "out" /\ th[u].s = i}}, {<<>>}}
\* As long as the network is good, no send has failed and no data has crossed
\* ours, every byte a program writes arrives, in the order it was written.
OutIntact ==
    \A i \in Sock :
        LET s == sock[i]
        IN  s.mem = "live" /\ s.st \in {"ESTABLISHED", "FIN_WAIT_1"} /\ s.remote \notin outTrouble =>
                \E d \in Going(i) :
                    peer[s.remote].got \o Bytes(out[s.remote]) \o d = Upto(s.wrote)

\* Both streams are whole and in order: InIntact and OutIntact.
StreamsIntact == InIntact /\ OutIntact
=============================================================================
