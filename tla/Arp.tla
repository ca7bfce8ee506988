-------------------------------- MODULE Arp --------------------------------
(***************************************************************************)
(* The way of a packet out of the kernel, and the address resolution it    *)
(* waits for: ip_output, the ARP cache, the list of packets retained until *)
(* an answer comes, and the receive thread that handles the answer.        *)
(*                                                                         *)
(* ip_output runs in any thread, and in the receive thread too when it     *)
(* answers a ping.  Looking in the cache, retaining the packet and asking  *)
(* for the address are separate critical sections, so an answer to         *)
(* somebody else's question can come between any two of them.              *)
(***************************************************************************)
EXTENDS Integers, Sequences, FiniteSets

CONSTANTS
    Sender,      \* threads that send packets
    Rx,          \* network_rx_thread
    Host,        \* addresses of the neighbours
    Mac,         \* their hardware addresses
    MacOf,       \* which neighbour has which
    Bcast,       \* 255.255.255.255 (ip_output takes 0.0.0.0 for the same)
    CacheSize,   \* ARP_CACHE_MAX
    RxQueueSize, \* NET_RX_QUEUE_SIZE
    MaxPackets,  \* bound on the packets sent
    MaxFrames,   \* bound on the frames the neighbours send unasked
    None

ASSUME ThreadAssumption == Rx \notin Sender
ASSUME HostAssumption == Bcast \notin Host /\ MacOf \in [Host -> Mac]
ASSUME SizeAssumption ==
    /\ CacheSize \in Nat \ {0} /\ RxQueueSize \in Nat \ {0, 1}
    /\ MaxPackets \in Nat /\ MaxFrames \in Nat

Thread == Sender \cup {Rx}
Slot == 0 .. CacheSize - 1
Packet == 1 .. MaxPackets
Entry == [ip : Host, mac : Mac]

\* What the receive thread tells apart: an answer to a question of ours, a
\* question (for our address or not; an announcement too) and a ping.  What it
\* throws away (a bad header or checksum, an address that is not ours) only
\* takes a place in the ring.
Frame == [kind : {"reply", "ask", "echo"}, from : Host]

ASSUME NoneAssumption == None \notin Entry \cup Frame

VARIABLES
    cache,     \* g_arp_cache; None where is_valid is 0
    victim,    \* g_arp_victim_idx
    pending,   \* the packets on the list g_arp_pending_queue_head
    bufs,      \* packets whose tx_buffer is allocated
    dest,      \* where each packet goes
    pc,        \* where each thread is
    pkt,       \* the packet each thread is working on
    mac,       \* cached_mac, the hardware address it found
    frame,     \* the frame the receive thread is working on
    rxq,       \* g_net_rx_queue between tail and head
    reqs,      \* questions on the wire that wait for a neighbour's answer
    out,       \* hardware addresses each packet was transmitted to
    failed,    \* packets the driver refused
    ret,       \* what ip_output returned for each packet
    next,      \* packets sent so far, plus one
    frames,    \* unasked frames so far
    leaked,    \* packets the list had no node for
    lossy      \* has a question or an answer been lost?

vars == <<cache, victim, pending, bufs, dest, pc, pkt, mac, frame, rxq, reqs,
          out, failed, ret, next, frames, leaked, lossy>>

-----------------------------------------------------------------------------

\* net_init and arp_init, and no traffic yet.
Init ==
    /\ cache = [i \in Slot |-> None]
    /\ victim = 0
    /\ pending = {}
    /\ bufs = {}
    /\ dest = [p \in Packet |-> Bcast]
    /\ pc = [t \in Thread |-> "idle"]
    /\ pkt = [t \in Thread |-> 0]
    /\ mac = [t \in Thread |-> Bcast]
    /\ frame = None
    /\ rxq = <<>>
    /\ reqs = [h \in Host |-> 0]
    /\ out = [p \in Packet |-> <<>>]
    /\ failed = {}
    /\ ret = [p \in Packet |-> "none"]
    /\ next = 1
    /\ frames = 0
    /\ leaked = {}
    /\ lossy = FALSE

Holding(h) == {i \in Slot : cache[i] # None /\ cache[i].ip = h}
FreeSlot == {i \in Slot : cache[i] = None}
First(i, S) == i \in S /\ \A j \in S : i <= j

-----------------------------------------------------------------------------
(* ip_output.  A packet that is too long or finds no memory is refused at  *)
(* once and changes nothing.                                               *)

\* The buffer is allocated and the headers and the payload are in it.  A
\* broadcast needs no address.
Build(t, d) ==
    /\ next <= MaxPackets
    /\ bufs' = bufs \cup {next}
    /\ dest' = [dest EXCEPT ![next] = d]
    /\ pkt' = [pkt EXCEPT ![t] = next]
    /\ mac' = [mac EXCEPT ![t] = Bcast]
    /\ pc' = [pc EXCEPT ![t] = IF d = Bcast THEN "transmit" ELSE "lookup"]
    /\ next' = next + 1
    /\ UNCHANGED <<cache, victim, pending, rxq, reqs, out, failed, ret, frames, leaked, lossy>>

\* ip_output returns code; its local variables are gone.
Return(t, code) ==
    /\ ret' = [ret EXCEPT ![pkt[t]] = code]
    /\ pc' = [pc EXCEPT ![t] = "idle"]
    /\ pkt' = [pkt EXCEPT ![t] = 0]
    /\ mac' = [mac EXCEPT ![t] = Bcast]

\* A transport protocol sends a packet.
Send(t, d) == pc[t] = "idle" /\ Build(t, d) /\ UNCHANGED frame

\* arp_cache_lookup, under g_arp_lock.
Lookup(t) ==
    /\ pc[t] = "lookup"
    /\ \/ \E i \in Slot :
              /\ First(i, Holding(dest[pkt[t]]))
              /\ mac' = [mac EXCEPT ![t] = cache[i].mac]
              /\ pc' = [pc EXCEPT ![t] = "transmit"]
       \/ /\ Holding(dest[pkt[t]]) = {}
          /\ pc' = [pc EXCEPT ![t] = "retain"]
          /\ UNCHANGED mac
    /\ UNCHANGED <<cache, victim, pending, bufs, dest, pkt, frame, rxq, reqs,
                   out, failed, ret, next, frames, leaked, lossy>>

\* net_driver_transmit, with address m on packet p: the card takes it, or there is
\* no driver or no room in the card and the result is negative.
NetDriverTransmit(p, m, res) == IF res = "sent" THEN Append(out[p], m) ELSE out[p]

\* The frame goes to the driver and its buffer back to the heap, whatever the
\* result, which is ip_output's own.
Transmit(t) ==
    /\ pc[t] = "transmit"
    /\ \E res \in {"sent", "failed"} :
           /\ out' = [out EXCEPT ![pkt[t]] = NetDriverTransmit(pkt[t], mac[t], res)]
           /\ failed' = IF res = "sent" THEN failed ELSE failed \cup {pkt[t]}
           /\ Return(t, res)
    /\ bufs' = bufs \ {pkt[t]}
    /\ UNCHANGED <<cache, victim, pending, dest, frame, rxq, reqs, next,
                   frames, leaked, lossy>>

\* arp_retain_packet.  ip_output does not look at the result: when there is no
\* node for the packet, nobody refers to its buffer any more.
Retain(t) ==
    /\ pc[t] = "retain"
    /\ \/ /\ pending' = pending \cup {pkt[t]}
          /\ UNCHANGED leaked
       \/ /\ leaked' = leaked \cup {pkt[t]}
          /\ UNCHANGED pending
    /\ pc' = [pc EXCEPT ![t] = "request"]
    /\ UNCHANGED <<cache, victim, bufs, dest, pkt, mac, frame, rxq, reqs, out, failed, ret,
                   next, frames, lossy>>

\* Mutant of Request: the caller frees the buffer it has just handed over.
RequestFrees(t) ==
    /\ pc[t] = "request"
    /\ reqs' = [reqs EXCEPT ![dest[pkt[t]]] = @ + 1]
    /\ bufs' = bufs \ {pkt[t]}
    /\ Return(t, "retained")
    /\ UNCHANGED <<cache, victim, pending, dest, frame, rxq, out, failed, next, frames,
                   leaked, lossy>>

\* Mutant of Request: no question is sent when another packet waits for the
\* same answer already.
RequestShared(t) ==
    /\ pc[t] = "request"
    /\ reqs' = IF \E p \in pending \ {pkt[t]} : dest[p] = dest[pkt[t]]
               THEN reqs ELSE [reqs EXCEPT ![dest[pkt[t]]] = @ + 1]
    /\ Return(t, "retained")
    /\ UNCHANGED <<cache, victim, pending, bufs, dest, frame, rxq, out, failed, next,
                   frames, leaked, lossy>>

\* arp_request, which fails when it finds no memory or the driver refuses it.
\* ip_output does not look at that: it returns -11 and leaves the buffer alone.
Request(t) ==
    /\ pc[t] = "request"
    /\ \/ /\ reqs' = [reqs EXCEPT ![dest[pkt[t]]] = @ + 1]
          /\ UNCHANGED lossy
       \/ /\ lossy' = TRUE
          /\ UNCHANGED reqs
    /\ Return(t, "retained")
    /\ UNCHANGED <<cache, victim, pending, bufs, dest, frame, rxq, out, failed, next,
                   frames, leaked>>

-----------------------------------------------------------------------------
(* The interrupt handler of the card, and the neighbours behind it.        *)

\* net_driver_receive: a copy of the frame goes into the ring if it has room.
Receive(f) ==
    /\ Len(rxq) < RxQueueSize - 1
    /\ rxq' = Append(rxq, f)

\* Neighbour h answers a question.
Answer(h) ==
    /\ reqs[h] > 0
    /\ reqs' = [reqs EXCEPT ![h] = @ - 1]
    /\ Receive([kind |-> "reply", from |-> h])
    /\ UNCHANGED <<cache, victim, pending, bufs, dest, pc, pkt, mac, frame,
                   out, failed, ret, next, frames, leaked, lossy>>

\* The question or its answer is lost: on the wire, because the ring is full,
\* or because there is no memory for the copy.
Lose(h) ==
    /\ reqs[h] > 0
    /\ reqs' = [reqs EXCEPT ![h] = @ - 1]
    /\ lossy' = TRUE
    /\ UNCHANGED <<cache, victim, pending, bufs, dest, pc, pkt, mac, frame,
                   rxq, out, failed, ret, next, frames, leaked>>

\* A neighbour sends something on its own.
Unasked(f) ==
    /\ frames < MaxFrames /\ f.kind # "reply"
    /\ frames' = frames + 1
    /\ Receive(f)
    /\ UNCHANGED <<cache, victim, pending, bufs, dest, pc, pkt, mac, frame,
                   reqs, out, failed, ret, next, leaked, lossy>>

-----------------------------------------------------------------------------
(* network_rx_thread.                                                      *)

\* The frame is dealt with and its copy freed.
Done == pc' = [pc EXCEPT ![Rx] = "idle"] /\ frame' = None

\* The next frame is taken from the ring and told apart by its type.
Take ==
    /\ pc[Rx] = "idle" /\ rxq # <<>>
    /\ frame' = Head(rxq)
    /\ rxq' = Tail(rxq)
    /\ pc' = [pc EXCEPT ![Rx] = IF Head(rxq).kind = "echo" THEN "echo" ELSE "learn"]
    /\ UNCHANGED <<cache, victim, pending, bufs, dest, pkt, mac, reqs, out, failed, ret,
                   next, frames, leaked, lossy>>

\* Mutant of ArpCacheInsert: a known address is not looked for.
InsertAlways(h, m) ==
    LET new == [ip |-> h, mac |-> m] IN
    \/ /\ \E i \in Slot : First(i, FreeSlot) /\ cache' = [cache EXCEPT ![i] = new]
       /\ UNCHANGED victim
    \/ /\ FreeSlot = {}
       /\ cache' = [cache EXCEPT ![victim] = new]
       /\ victim' = (victim + 1) % CacheSize

\* arp_cache_insert, under g_arp_lock: the entry of the address, a free slot,
\* or the next victim.
ArpCacheInsert(h, m) ==
    LET new == [ip |-> h, mac |-> m] IN
    \/ /\ \E i \in Slot : First(i, Holding(h)) /\ cache' = [cache EXCEPT ![i].mac = m]
       /\ UNCHANGED victim
    \/ /\ Holding(h) = {}
       /\ \E i \in Slot : First(i, FreeSlot) /\ cache' = [cache EXCEPT ![i] = new]
       /\ UNCHANGED victim
    \/ /\ Holding(h) = {} /\ FreeSlot = {}
       /\ cache' = [cache EXCEPT ![victim] = new]
       /\ victim' = (victim + 1) % CacheSize

\* Mutant of ArpLearn: a reply that tells nothing new is not looked at again.
ArpLearnQuick ==
    /\ pc[Rx] = "learn"
    /\ ArpCacheInsert(frame.from, MacOf[frame.from])
    /\ IF frame.kind = "reply" /\ Holding(frame.from) = {}
       THEN pc' = [pc EXCEPT ![Rx] = "flush"] /\ UNCHANGED frame
       ELSE Done
    /\ UNCHANGED <<pending, bufs, dest, pkt, mac, rxq, reqs, out, failed, ret, next, frames,
                   leaked, lossy>>

\* arp_input: the sender of any question or answer is learnt.  A question for
\* our address is answered, if there is memory, which changes nothing here.
ArpLearn ==
    /\ pc[Rx] = "learn"
    /\ ArpCacheInsert(frame.from, MacOf[frame.from])
    /\ IF frame.kind = "reply"
       THEN pc' = [pc EXCEPT ![Rx] = "flush"] /\ UNCHANGED frame
       ELSE Done
    /\ UNCHANGED <<pending, bufs, dest, pkt, mac, rxq, reqs, out, failed, ret, next, frames,
                   leaked, lossy>>

\* Mutant of Resolved: whatever waits is sent.
ResolvedAny(h) == pending

\* The packets arp_flush_pending_packets takes off the list.
Resolved(h) == {p \in pending : dest[p] = h}

\* ethernet_output: the hardware address is put in at last.
EthernetOutput(p, h, res) == NetDriverTransmit(p, MacOf[h], res)

\* arp_flush_pending_packets, under g_arp_pending_lock: each of them goes to
\* the driver and is freed, whether the driver took it or (bad) not.
ArpFlush ==
    /\ pc[Rx] = "flush"
    /\ LET go == Resolved(frame.from) IN
       /\ \E bad \in SUBSET go :
              /\ out' = [p \in Packet |->
                            IF p \in go THEN EthernetOutput(p, frame.from, IF p \in bad THEN "failed" ELSE "sent")
                            ELSE out[p]]
              /\ failed' = failed \cup bad
       /\ pending' = pending \ go
       /\ bufs' = bufs \ go
    /\ Done
    /\ UNCHANGED <<cache, victim, dest, pkt, mac, rxq, reqs, ret, next, frames,
                   leaked, lossy>>

\* icmp_input: a ping is answered through ip_output, by this thread.
Echo == pc[Rx] = "echo" /\ Build(Rx, frame.from) /\ frame' = None

\* icmp_input or ip_output finds no memory for the answer.
EchoFails ==
    /\ pc[Rx] = "echo"
    /\ Done
    /\ UNCHANGED <<cache, victim, pending, bufs, dest, pkt, mac, rxq, reqs, out, failed, ret,
                   next, frames, leaked, lossy>>

-----------------------------------------------------------------------------

\* ip_output after its packet is built.
Output(t) == Lookup(t) \/ Transmit(t) \/ Retain(t) \/ Request(t)

RxThread == Take \/ ArpLearn \/ ArpFlush \/ Echo \/ EchoFails

Next ==
    \/ \E t \in Sender, d \in Host \cup {Bcast} : Send(t, d)
    \/ \E t \in Thread : Output(t)
    \/ \E h \in Host : Answer(h) \/ Lose(h)
    \/ \E f \in Frame : Unasked(f)
    \/ RxThread

Spec == Init /\ [][Next]_vars

\* A call of ip_output is finished, the receive thread is scheduled again and
\* again (it never sleeps), and a neighbour that has a question answers it.
Fairness ==
    /\ \A t \in Thread : WF_vars(Output(t))
    /\ WF_vars(RxThread)
    /\ \A h \in Host : WF_vars(Answer(h))

FairSpec == Spec /\ Fairness

-----------------------------------------------------------------------------

\* Every variable has its type: the index of the victim and the queue stay
\* within their arrays.
TypeOK ==
    /\ cache \in [Slot -> Entry \cup {None}]
    /\ victim \in Slot
    /\ pending \subseteq Packet /\ bufs \subseteq Packet /\ leaked \subseteq Packet
    /\ failed \subseteq Packet /\ ret \in [Packet -> {"none", "sent", "failed", "retained"}]
    /\ dest \in [Packet -> Host \cup {Bcast}]
    /\ pc \in [Thread -> {"idle", "lookup", "transmit", "retain", "request",
                          "learn", "flush", "echo"}]
    /\ \A t \in Sender : pc[t] \notin {"learn", "flush", "echo"}
    /\ pkt \in [Thread -> Packet \cup {0}]
    /\ mac \in [Thread -> Mac \cup {Bcast}]
    /\ frame \in Frame \cup {None}
    /\ rxq \in Seq(Frame) /\ Len(rxq) < RxQueueSize
    /\ reqs \in [Host -> Nat]
    /\ out \in [Packet -> Seq(Mac \cup {Bcast})]
    /\ next \in 1 .. MaxPackets + 1
    /\ frames \in 0 .. MaxFrames
    /\ lossy \in BOOLEAN

\* The cache never has two entries for one address, whatever the order of
\* insertions, updates and evictions: arp_cache_lookup takes the first and
\* arp_cache_insert updates the first, so a second one would be stale for ever.
OneEntryPerAddress ==
    \A i, j \in Slot : cache[i] # None /\ cache[j] # None /\ cache[i].ip = cache[j].ip => i = j

\* A packet is transmitted once at most, and to the hardware address of its
\* destination, whether ip_output found it or the receive thread flushed it.
Addressed ==
    \A p \in Packet :
        /\ Len(out[p]) <= 1
        /\ \A i \in 1 .. Len(out[p]) :
               out[p][i] = IF dest[p] = Bcast THEN Bcast ELSE MacOf[dest[p]]

\* What ip_output returns can be relied on, however late the driver fails: a
\* packet it reported sent is out, and one it reported lost is not and never will
\* be, so that sending it again is safe.
Reported ==
    \A p \in Packet :
        /\ ret[p] = "sent" => out[p] # <<>>
        /\ ret[p] = "failed" => out[p] = <<>> /\ p \notin bufs

\* Packets go to the right card, once, and the caller is told the truth:
\* Addressed and Reported.
SentRight == Addressed /\ Reported

\* The threads that own the buffer of p: ip_output until it has transmitted or
\* handed it over.
Owners(p) == {t \in Thread : pkt[t] = p /\ pc[t] \in {"lookup", "transmit", "retain"}}

\* A buffer that is allocated has one owner: the ip_output that built it, the
\* list of retained packets, or (when the list had no node for it) nobody; one
\* that is freed has none, so nothing is used after it is freed or freed twice.
BuffersOwned ==
    /\ pending \cap leaked = {}
    /\ \A p \in Packet :
        /\ p \in bufs <=> (p \in pending \cup leaked \/ Owners(p) # {})
        /\ Owners(p) # {} => p \notin pending \cup leaked
        /\ \A t, u \in Owners(p) : t = u

\* The answer that will flush the packets for h is still to come: somebody is
\* about to ask, the question is on the wire, or the answer is in the ring or
\* in the hands of the receive thread.
Expected(h) ==
    \/ \E t \in Thread : pc[t] = "request" /\ dest[pkt[t]] = h
    \/ reqs[h] > 0
    \/ \E i \in 1 .. Len(rxq) : rxq[i] = [kind |-> "reply", from |-> h]
    \/ pc[Rx] \in {"learn", "flush"} /\ frame = [kind |-> "reply", from |-> h]

\* No retained packet is forgotten: as long as no question or answer is lost,
\* each waits for an answer that is still to come, even when another answer
\* was handled between the miss in the cache and the retention.
RetainedIsAwaited == ~lossy => \A p \in pending : Expected(dest[p])

\* A packet that ip_output accepted leaves the machine, unless the driver refused
\* it, there was no memory to retain it or a question or an answer was lost.
Leaves == \A p \in Packet : p \in bufs ~> (out[p] # <<>> \/ p \in failed \cup leaked \/ lossy)
=============================================================================
