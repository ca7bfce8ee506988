----------------------------- MODULE ArpProofs -----------------------------
(***************************************************************************)
(* Proofs about Arp, for any number of threads and neighbours, any size of *)
(* the cache and of the ring.                                              *)
(*                                                                         *)
(* One inductive invariant serves all the theorems.  To the properties it  *)
(* adds what a thread inside ip_output knows of its packet (Calls), that   *)
(* the cache tells the truth (CacheTrue), and that a packet which still    *)
(* has its buffer has not been transmitted (Unsent).                       *)
(***************************************************************************)
EXTENDS Arp, TLAPS

\* The hardware address a packet for d must be sent to.
Right(d) == IF d = Bcast THEN Bcast ELSE MacOf[d]

\* What holds at each place of ip_output and of the receive thread.
Calls ==
    /\ \A t \in Thread :
        /\ pc[t] \in {"lookup", "transmit", "retain", "request"} => pkt[t] \in 1 .. next - 1
        /\ pc[t] \in {"lookup", "retain", "request"} => dest[pkt[t]] \in Host
        /\ pc[t] = "transmit" => mac[t] = Right(dest[pkt[t]])
    /\ pc[Rx] \in {"learn", "flush", "echo"} => frame \in Frame
    /\ pc[Rx] = "flush" => frame.kind = "reply"

\* Every entry of the cache has the hardware address of its neighbour.
CacheTrue == \A i \in Slot : cache[i] # None => cache[i].mac = MacOf[cache[i].ip]

\* Packets not yet built have no buffer, retained ones go to a neighbour, and
\* what has a buffer or is not built has not been transmitted.
Unsent ==
    /\ \A p \in bufs : p < next
    /\ \A p \in pending : dest[p] \in Host
    /\ \A p \in Packet : p \in bufs \/ p >= next => out[p] = <<>>

\* Nothing is reported of a packet before it is built.
Untold == \A p \in Packet : p >= next => ret[p] = "none"

IInv ==
    /\ TypeOK /\ Calls
    /\ OneEntryPerAddress /\ CacheTrue
    /\ BuffersOwned /\ Unsent /\ Addressed
    /\ Reported /\ Untold
    /\ RetainedIsAwaited

-----------------------------------------------------------------------------

\* Every step is one of these.
LEMMA NextCases ==
  ASSUME Next
  PROVE  \/ \E t \in Sender, d \in Host \cup {Bcast} : Send(t, d)
         \/ \E t \in Thread : Lookup(t)
         \/ \E t \in Thread : Transmit(t)
         \/ \E t \in Thread : Retain(t)
         \/ \E t \in Thread : Request(t)
         \/ \E h \in Host : Answer(h)
         \/ \E h \in Host : Lose(h)
         \/ \E f \in Frame : Unasked(f)
         \/ Take \/ ArpLearn \/ ArpFlush \/ Echo \/ EchoFails
BY DEF Next, Output, RxThread

-----------------------------------------------------------------------------
(* The step lemmas, one per group of conjuncts.                            *)

\* arp_cache_insert stays within the array.
LEMMA InsertType ==
  ASSUME TypeOK, NEW h \in Host, NEW m \in Mac, ArpCacheInsert(h, m)
  PROVE  cache' \in [Slot -> Entry \cup {None}] /\ victim' \in Slot
<1> DEFINE new == [ip |-> h, mac |-> m]
<1>1. new \in Entry
  BY DEF Entry
<1> HIDE DEF new
<1>2. CASE /\ \E i \in Slot : First(i, Holding(h)) /\ cache' = [cache EXCEPT ![i].mac = m]
           /\ UNCHANGED victim
  <2>1. PICK i \in Slot : cache[i] # None /\ cache' = [cache EXCEPT ![i].mac = m]
    BY <1>2 DEF First, Holding
  <2>2. cache[i] \in Entry
    BY <2>1 DEF TypeOK
  <2>3. [cache[i] EXCEPT !.mac = m] \in Entry
    BY <2>2 DEF Entry
  <2> QED BY <1>2, <2>1, <2>3 DEF TypeOK
<1>3. CASE /\ \E i \in Slot : First(i, FreeSlot) /\ cache' = [cache EXCEPT ![i] = new]
           /\ UNCHANGED victim
  BY <1>1, <1>3 DEF TypeOK
<1>4. CASE cache' = [cache EXCEPT ![victim] = new] /\ victim' = (victim + 1) % CacheSize
  BY <1>1, <1>4, SizeAssumption DEF TypeOK, Slot
<1> QED BY <1>2, <1>3, <1>4 DEF ArpCacheInsert, new

\* Every step keeps the types, and what the threads know of their packets.
LEMMA TypeStep ==
  ASSUME IInv, [Next]_vars
  PROVE  TypeOK' /\ Calls'
<1> USE SizeAssumption, HostAssumption, NoneAssumption, ThreadAssumption
<1> USE DEF IInv, TypeOK, Calls, Thread, Packet, Slot, Right
<1>1. ASSUME NEW t \in Thread, NEW d \in Host \cup {Bcast}, Build(t, d), frame' \in Frame \cup {None},
             pc[t] \in {"idle", "echo"}, t # Rx => UNCHANGED frame
      PROVE  TypeOK' /\ Calls'
  <2>1. TypeOK'
    BY <1>1 DEF Build
  <2>2. Calls'
    BY <1>1 DEF Build
  <2> QED BY <2>1, <2>2
<1>2. ASSUME NEW t \in Sender, NEW d \in Host \cup {Bcast}, Send(t, d)
      PROVE  TypeOK' /\ Calls'
  BY <1>1, <1>2 DEF Send
<1>3. ASSUME NEW t \in Thread, Lookup(t)
      PROVE  TypeOK' /\ Calls'
  <2>1. pkt[t] \in Packet /\ dest[pkt[t]] \in Host
    BY <1>3 DEF Lookup
  <2>2. CASE \E i \in Slot :
              /\ First(i, Holding(dest[pkt[t]]))
              /\ mac' = [mac EXCEPT ![t] = cache[i].mac]
              /\ pc' = [pc EXCEPT ![t] = "transmit"]
    <3>1. PICK i \in Slot :
              /\ First(i, Holding(dest[pkt[t]]))
              /\ mac' = [mac EXCEPT ![t] = cache[i].mac]
              /\ pc' = [pc EXCEPT ![t] = "transmit"]
      BY <2>2
    <3>2. cache[i].mac = MacOf[dest[pkt[t]]] /\ cache[i].mac \in Mac
      BY <3>1, <2>1 DEF First, Holding, CacheTrue, Entry
    <3>3. UNCHANGED <<cache, victim, pending, bufs, dest, pkt, frame, rxq, reqs,
                      out, failed, ret, next, frames, leaked, lossy>>
      BY <1>3 DEF Lookup
    <3>4. TypeOK'
      BY <3>1, <3>2, <3>3
    <3>5. Calls'
      BY <1>3, <3>1, <3>2, <3>3, <2>1 DEF Lookup
    <3> QED BY <3>4, <3>5
  <2>3. CASE /\ Holding(dest[pkt[t]]) = {}
             /\ pc' = [pc EXCEPT ![t] = "retain"]
             /\ UNCHANGED mac
    <3>1. UNCHANGED <<cache, victim, pending, bufs, dest, pkt, frame, rxq, reqs,
                      out, failed, ret, next, frames, leaked, lossy>>
      BY <1>3 DEF Lookup
    <3>2. TypeOK'
      BY <2>3, <3>1
    <3>3. Calls'
      BY <2>3, <3>1, <2>1, <1>3 DEF Lookup
    <3> QED BY <3>2, <3>3
  <2> QED BY <1>3, <2>2, <2>3 DEF Lookup
<1>4. ASSUME NEW t \in Thread, Transmit(t)
      PROVE  TypeOK' /\ Calls'
  <2>1. pkt[t] \in Packet /\ out[pkt[t]] \in Seq(Mac \cup {Bcast}) /\ mac[t] \in Mac \cup {Bcast}
    BY <1>4 DEF Transmit
  <2>2. Append(out[pkt[t]], mac[t]) \in Seq(Mac \cup {Bcast})
    BY <2>1
  <2>5. PICK res \in {"sent", "failed"} :
           /\ out' = [out EXCEPT ![pkt[t]] = NetDriverTransmit(pkt[t], mac[t], res)]
           /\ failed' = IF res = "sent" THEN failed ELSE failed \cup {pkt[t]}
           /\ Return(t, res)
    BY <1>4 DEF Transmit
  <2>6. out' \in [Packet -> Seq(Mac \cup {Bcast})] /\ failed' \subseteq Packet
    BY <2>1, <2>2, <2>5 DEF NetDriverTransmit
  <2>7. /\ ret' \in [Packet -> {"none", "sent", "failed", "retained"}] /\ pkt' \in [Thread -> Packet \cup {0}]
        /\ mac' \in [Thread -> Mac \cup {Bcast}]
    BY <2>1, <2>5 DEF Return
  <2>3. TypeOK'
    BY <1>4, <2>1, <2>5, <2>6, <2>7 DEF Transmit, Return
  <2>4. Calls'
    BY <1>4, <2>1 DEF Transmit, Return
  <2> QED BY <2>3, <2>4
<1>5. ASSUME NEW t \in Thread, Retain(t)
      PROVE  TypeOK' /\ Calls'
  <2>1. pkt[t] \in Packet /\ dest[pkt[t]] \in Host
    BY <1>5 DEF Retain
  <2>2. pending' \subseteq Packet /\ leaked' \subseteq Packet
    BY <1>5, <2>1 DEF Retain
  <2>3. TypeOK'
    BY <1>5, <2>2 DEF Retain
  <2>4. Calls'
    BY <1>5 DEF Retain
  <2> QED BY <2>3, <2>4
<1>6. ASSUME NEW t \in Thread, Request(t)
      PROVE  TypeOK' /\ Calls'
  <2>1. pkt[t] \in Packet /\ dest[pkt[t]] \in Host
    BY <1>6 DEF Request
  <2>2. reqs' \in [Host -> Nat] /\ lossy' \in BOOLEAN
    <3>1. CASE reqs' = [reqs EXCEPT ![dest[pkt[t]]] = @ + 1] /\ UNCHANGED lossy
      BY <3>1, <2>1
    <3>2. CASE lossy' = TRUE /\ UNCHANGED reqs
      BY <3>2
    <3> QED BY <1>6, <3>1, <3>2 DEF Request
  <2>3. TypeOK'
    BY <1>6, <2>2 DEF Request, Return
  <2>4. Calls'
    BY <1>6 DEF Request, Return
  <2> QED BY <2>3, <2>4
<1>7. ASSUME NEW h \in Host, Answer(h)
      PROVE  TypeOK' /\ Calls'
  <2>1. reqs[h] \in Nat \ {0} /\ reqs' \in [Host -> Nat]
    BY <1>7 DEF Answer
  <2>2. [kind |-> "reply", from |-> h] \in Frame
    BY DEF Frame
  <2>3. rxq' \in Seq(Frame) /\ Len(rxq') < RxQueueSize
    BY <1>7, <2>2 DEF Answer, Receive
  <2>4. TypeOK'
    BY <1>7, <2>1, <2>3 DEF Answer
  <2>5. Calls'
    BY <1>7 DEF Answer
  <2> QED BY <2>4, <2>5
<1>15. ASSUME NEW h \in Host, Lose(h)
      PROVE  TypeOK' /\ Calls'
  <2>1. reqs' \in [Host -> Nat]
    BY <1>15 DEF Lose
  <2>2. TypeOK'
    BY <1>15, <2>1 DEF Lose
  <2>3. Calls'
    BY <1>15 DEF Lose
  <2> QED BY <2>2, <2>3
<1>8. ASSUME NEW f \in Frame, Unasked(f)
      PROVE  TypeOK' /\ Calls'
  <2>1. rxq' \in Seq(Frame) /\ Len(rxq') < RxQueueSize
    BY <1>8 DEF Unasked, Receive
  <2>2. TypeOK'
    BY <1>8, <2>1 DEF Unasked
  <2>3. Calls'
    BY <1>8 DEF Unasked
  <2> QED BY <2>2, <2>3
<1>9. CASE Take
  <2>1. Head(rxq) \in Frame /\ Tail(rxq) \in Seq(Frame) /\ Len(Tail(rxq)) = Len(rxq) - 1
    BY <1>9 DEF Take
  <2>4. /\ frame' \in Frame \cup {None} /\ rxq' \in Seq(Frame) /\ Len(rxq') < RxQueueSize
        /\ pc' \in [Thread -> {"idle", "lookup", "transmit", "retain", "request", "learn", "flush", "echo"}]
        /\ \A t \in Sender : pc'[t] \notin {"learn", "flush", "echo"}
    BY <1>9, <2>1 DEF Take
  <2>2. TypeOK'
    BY <1>9, <2>4 DEF Take
  <2>3. Calls'
    BY <1>9, <2>1 DEF Take
  <2> QED BY <2>2, <2>3
<1>10. CASE ArpLearn
  <2>1. frame.from \in Host /\ MacOf[frame.from] \in Mac
    BY <1>10 DEF ArpLearn, Frame
  <2>2. cache' \in [Slot -> Entry \cup {None}] /\ victim' \in Slot
    BY <1>10, <2>1, InsertType DEF ArpLearn
  <2>3. TypeOK'
    BY <1>10, <2>2 DEF ArpLearn, Done
  <2>4. Calls'
    BY <1>10 DEF ArpLearn, Done
  <2> QED BY <2>3, <2>4
<1>11. CASE ArpFlush
  <2>1. MacOf[frame.from] \in Mac
    BY <1>11 DEF ArpFlush, Frame
  <2>2. out' \in [Packet -> Seq(Mac \cup {Bcast})]
    BY <1>11, <2>1 DEF ArpFlush, EthernetOutput, NetDriverTransmit
  <2>5. failed' \subseteq Packet
    BY <1>11 DEF ArpFlush, Resolved
  <2>3. TypeOK'
    BY <1>11, <2>2, <2>5 DEF ArpFlush, Done
  <2>4. Calls'
    BY <1>11 DEF ArpFlush, Done
  <2> QED BY <2>3, <2>4
<1>12. CASE Echo
  <2>1. frame.from \in Host
    BY <1>12 DEF Echo, Frame
  <2> QED BY <1>12, <2>1, <1>1 DEF Echo
<1>13. CASE EchoFails
  BY <1>13 DEF EchoFails, Done
<1>14. CASE UNCHANGED vars
  BY <1>14 DEF vars
<1> QED BY <1>2, <1>3, <1>4, <1>5, <1>6, <1>7, <1>8, <1>9, <1>10, <1>11, <1>12,
           <1>13, <1>14, <1>15, NextCases

\* arp_cache_insert keeps one entry per address, and the entries true.
LEMMA CacheStep ==
  ASSUME IInv, [Next]_vars
  PROVE  OneEntryPerAddress' /\ CacheTrue'
<1> USE HostAssumption, NoneAssumption
<1>1. CASE UNCHANGED cache
  BY <1>1 DEF IInv, OneEntryPerAddress, CacheTrue
<1>2. CASE ArpLearn
  <2> DEFINE h == frame.from
             new == [ip |-> h, mac |-> MacOf[h]]
  <2>1. h \in Host /\ new \in Entry /\ ArpCacheInsert(h, MacOf[h])
    BY <1>2 DEF ArpLearn, IInv, Calls, Frame, Entry
  <2>2. new # None /\ new.ip = h /\ new.mac = MacOf[h]
    BY <2>1
  <2> HIDE DEF h, new
  <2> USE DEF IInv, TypeOK
  <2>3. CASE \E i \in Slot : First(i, Holding(h)) /\ cache' = [cache EXCEPT ![i].mac = MacOf[h]]
    <3>1. PICK i \in Slot : /\ cache[i] # None /\ cache[i].ip = h
                            /\ cache' = [cache EXCEPT ![i].mac = MacOf[h]]
      BY <2>3 DEF First, Holding
    <3>2. cache[i] \in Entry
      BY <3>1
    <3>3. [cache[i] EXCEPT !.mac = MacOf[h]] = cache[i]
      BY <3>1, <3>2 DEF Entry, CacheTrue
    <3>4. cache' = cache
      BY <3>1, <3>3
    <3> QED BY <3>4, <1>1
  <2>4. ASSUME NEW i \in Slot, Holding(h) = {}, cache' = [cache EXCEPT ![i] = new]
        PROVE  OneEntryPerAddress' /\ CacheTrue'
    <3>1. \A j \in Slot : cache[j] # None => cache[j].ip # h
      BY <2>4 DEF Holding
    <3>2. cache'[i] = new /\ \A j \in Slot : j # i => cache'[j] = cache[j]
      BY <2>4
    <3>3. ASSUME NEW j \in Slot, NEW k \in Slot, cache'[j] # None, cache'[k] # None,
                 cache'[j].ip = cache'[k].ip
          PROVE  j = k
      <4>1. CASE j = i
        BY <3>1, <3>2, <3>3, <2>2, <4>1
      <4>2. CASE k = i
        BY <3>1, <3>2, <3>3, <2>2, <4>2
      <4>3. CASE j # i /\ k # i
        <5>1. cache'[j] = cache[j] /\ cache'[k] = cache[k]
          BY <3>2, <4>3
        <5> QED BY <5>1, <3>3 DEF OneEntryPerAddress
      <4> QED BY <4>1, <4>2, <4>3
    <3>4. \A j \in Slot : cache'[j] # None => cache'[j].mac = MacOf[cache'[j].ip]
      BY <3>2, <2>2 DEF CacheTrue
    <3> QED BY <3>3, <3>4 DEF OneEntryPerAddress, CacheTrue
  <2>5. ArpCacheInsert(h, MacOf[h]) =>
          \/ \E i \in Slot : First(i, Holding(h)) /\ cache' = [cache EXCEPT ![i].mac = MacOf[h]]
          \/ Holding(h) = {} /\ \E i \in Slot : cache' = [cache EXCEPT ![i] = new]
    BY DEF ArpCacheInsert, new
  <2> QED BY <2>1, <2>3, <2>4, <2>5
<1>3. ASSUME Next, ~ArpLearn PROVE UNCHANGED cache
  BY <1>3, NextCases DEF Send, Build, Lookup, Transmit, Retain, Request, Answer, Lose,
     Unasked, Take, ArpFlush, Echo, EchoFails
<1> QED BY <1>1, <1>2, <1>3 DEF vars

-----------------------------------------------------------------------------
(* The buffers.                                                            *)

\* A step that touches neither the buffers nor who has them, nor what was
\* transmitted.
LEMMA BuffersSame ==
  ASSUME IInv, UNCHANGED <<pending, bufs, leaked, dest, out, next>>,
         \A p \in Packet : Owners(p)' = Owners(p)
  PROVE  BuffersOwned' /\ Unsent' /\ Addressed'
BY DEF IInv, BuffersOwned, Unsent, Addressed

\* A buffer that has an owner has one, and no other holder.
LEMMA OwnerFacts ==
  ASSUME IInv, NEW t \in Thread, pc[t] \in {"lookup", "transmit", "retain"}
  PROVE  /\ pkt[t] \in Packet /\ t \in Owners(pkt[t]) /\ Owners(pkt[t]) = {t}
         /\ pkt[t] \in bufs /\ pkt[t] \notin pending /\ pkt[t] \notin leaked
         /\ out[pkt[t]] = <<>>
<1>1. pkt[t] \in Packet
  BY SizeAssumption DEF IInv, TypeOK, Calls, Packet
<1>2. t \in Owners(pkt[t])
  BY DEF Owners
<1>3. \A u \in Owners(pkt[t]) : u = t
  BY <1>1, <1>2 DEF IInv, BuffersOwned
<1> QED BY <1>1, <1>2, <1>3 DEF IInv, BuffersOwned, Unsent

\* Packet n changes hands and nothing else about the others does.
LEMMA OneBuffer ==
  ASSUME BuffersOwned, NEW n \in Packet,
         \A p \in Packet : p # n => /\ Owners(p)' = Owners(p)
                                    /\ p \in bufs' <=> p \in bufs
                                    /\ p \in pending' <=> p \in pending
                                    /\ p \in leaked' <=> p \in leaked,
         pending' \subseteq Packet, leaked' \subseteq Packet,
         ~(n \in pending' /\ n \in leaked'),
         n \in bufs' <=> (n \in pending' \cup leaked' \/ Owners(n)' # {}),
         Owners(n)' # {} => n \notin pending' \cup leaked',
         \A t, u \in Owners(n)' : t = u
  PROVE  BuffersOwned'
<1>1. (pending \cap leaked = {})'
  BY DEF BuffersOwned
<1>2. ASSUME NEW p \in Packet
      PROVE  /\ p \in bufs' <=> (p \in pending' \cup leaked' \/ Owners(p)' # {})
             /\ Owners(p)' # {} => p \notin pending' \cup leaked'
             /\ \A t, u \in Owners(p)' : t = u
  <2>1. CASE p = n
    BY <2>1
  <2>2. CASE p # n
    BY <2>2 DEF BuffersOwned
  <2> QED BY <2>1, <2>2
<1> QED BY <1>1, <1>2 DEF BuffersOwned

\* The packet ip_output builds gets a buffer nobody had.
LEMMA BuildBuffers ==
  ASSUME IInv, NEW t \in Thread, NEW d \in Host \cup {Bcast}, Build(t, d),
         pc[t] \in {"idle", "echo"}
  PROVE  BuffersOwned' /\ Unsent' /\ Addressed'
<1>1. PICK n \in Packet : n = next /\ next' = n + 1
  BY SizeAssumption DEF Build, IInv, TypeOK, Packet
<1>2. n \notin bufs /\ out[n] = <<>>
  BY <1>1 DEF IInv, Unsent, Packet
<1>3. Owners(n) = {} /\ n \notin pending /\ n \notin leaked
  BY <1>1, <1>2 DEF IInv, BuffersOwned
<1>4. Owners(n)' = {t}
  <2>1. t \in Owners(n)'
    BY <1>1 DEF Build, Owners, IInv, TypeOK
  <2>2. ASSUME NEW u \in Thread, u # t PROVE u \notin Owners(n)'
    <3>1. pkt'[u] = pkt[u] /\ pc'[u] = pc[u]
      BY <2>2 DEF Build, IInv, TypeOK
    <3>2. u \notin Owners(n)
      BY <1>3
    <3> QED BY <3>1, <3>2 DEF Owners
  <2> QED BY <2>1, <2>2 DEF Owners
<1>5. \A p \in Packet : p # n => Owners(p)' = Owners(p)
  BY <1>1 DEF Build, Owners, IInv, TypeOK
<1>6. /\ bufs' = bufs \cup {n} /\ UNCHANGED <<pending, leaked, out>>
      /\ dest' = [dest EXCEPT ![n] = d]
  BY <1>1 DEF Build
<1>7. BuffersOwned'
  BY <1>3, <1>4, <1>5, <1>6, OneBuffer DEF IInv, TypeOK
<1>8. \A p \in Packet : p # n => dest'[p] = dest[p]
  BY <1>1, <1>6 DEF IInv, TypeOK
<1>9. Unsent'
  BY <1>1, <1>2, <1>3, <1>6, <1>8 DEF Unsent, IInv, TypeOK, Packet
<1>10. Addressed'
  BY <1>1, <1>2, <1>6, <1>8 DEF Addressed, IInv
<1> QED BY <1>7, <1>9, <1>10

\* Every step keeps the buffers owned and the packets right.
LEMMA BufferStep ==
  ASSUME IInv, [Next]_vars
  PROVE  BuffersOwned' /\ Unsent' /\ Addressed'
<1>1. ASSUME NEW t \in Sender, NEW d \in Host \cup {Bcast}, Send(t, d)
      PROVE  BuffersOwned' /\ Unsent' /\ Addressed'
  BY <1>1, BuildBuffers DEF Send, Thread
<1>2. CASE Echo
  <2>1. frame.from \in Host
    BY <1>2 DEF Echo, IInv, Calls, Frame
  <2> QED BY <1>2, <2>1, BuildBuffers DEF Echo, Thread
<1>3. ASSUME NEW t \in Thread, Lookup(t)
      PROVE  BuffersOwned' /\ Unsent' /\ Addressed'
  <2>1. \A p \in Packet : Owners(p)' = Owners(p)
    <3>1. pc' = [pc EXCEPT ![t] = "transmit"] \/ pc' = [pc EXCEPT ![t] = "retain"]
      BY <1>3 DEF Lookup
    <3> QED BY <1>3, <3>1 DEF Lookup, Owners, IInv, TypeOK
  <2> QED BY <1>3, <2>1, BuffersSame DEF Lookup
<1>4. ASSUME NEW t \in Thread, Transmit(t)
      PROVE  BuffersOwned' /\ Unsent' /\ Addressed'
  <2>1. PICK q \in Packet : /\ q = pkt[t] /\ Owners(q) = {t} /\ q \in bufs
                            /\ q \notin pending /\ q \notin leaked /\ out[q] = <<>>
    BY <1>4, OwnerFacts DEF Transmit
  <2>2. /\ bufs' = bufs \ {q} /\ UNCHANGED <<pending, leaked, dest, next>>
        /\ out' = [out EXCEPT ![q] = <<mac[t]>>] \/ out' = out
    <3>1. PICK res \in {"sent", "failed"} : out' = [out EXCEPT ![q] = NetDriverTransmit(q, mac[t], res)]
      BY <1>4, <2>1 DEF Transmit
    <3>3. Append(<<>>, mac[t]) = <<mac[t]>> /\ [out EXCEPT ![q] = <<>>] = out
      BY <2>1 DEF IInv, TypeOK
    <3>4. ASSUME res = "sent" PROVE out' = [out EXCEPT ![q] = <<mac[t]>>]
      <4>1. NetDriverTransmit(q, mac[t], res) = <<mac[t]>>
        BY <2>1, <3>3, <3>4 DEF NetDriverTransmit
      <4> QED BY <3>1, <4>1, Zenon
    <3>5. ASSUME res = "failed" PROVE out' = out
      <4>1. NetDriverTransmit(q, mac[t], res) = <<>>
        BY <2>1, <3>5 DEF NetDriverTransmit
      <4> QED BY <3>1, <3>3, <4>1, Zenon
    <3>2. out' = [out EXCEPT ![q] = <<mac[t]>>] \/ out' = out
      BY <3>1, <3>4, <3>5
    <3> QED BY <1>4, <2>1, <3>2 DEF Transmit
  <2>3. q < next /\ mac[t] = Right(dest[q])
    BY <1>4, <2>1 DEF Transmit, IInv, Calls, Unsent
  <2>4. Owners(q)' = {}
    <3>1. t \notin Owners(q)'
      BY <1>4 DEF Transmit, Return, Owners, IInv, TypeOK
    <3>2. ASSUME NEW u \in Thread, u # t PROVE u \notin Owners(q)'
      <4>1. pkt'[u] = pkt[u] /\ pc'[u] = pc[u] /\ pkt'[t] = 0
        BY <1>4, <3>2 DEF Transmit, Return, IInv, TypeOK
      <4>2. u \notin Owners(q)
        BY <2>1, <3>2
      <4> QED BY <3>2, <4>1, <4>2 DEF Owners
    <3> QED BY <3>1, <3>2 DEF Owners
  <2>5. \A p \in Packet : p # q => Owners(p)' = Owners(p)
    BY <1>4, <2>1 DEF Transmit, Return, Owners, IInv, TypeOK, Packet
  <2>6. BuffersOwned'
    BY <2>1, <2>2, <2>4, <2>5, OneBuffer DEF IInv, TypeOK
  <2>7. out'[q] \in {<<mac[t]>>, <<>>} /\ \A p \in Packet : p # q => out'[p] = out[p]
    BY <2>1, <2>2 DEF IInv, TypeOK
  <2>8. Unsent'
    BY <2>1, <2>2, <2>3, <2>7 DEF Unsent, IInv, TypeOK, Packet
  <2>10. /\ Len(<<mac[t]>>) = 1 /\ <<mac[t]>>[1] = mac[t] /\ Len(<<>>) = 0
         /\ \A i \in 1 .. 1 : i = 1
    OBVIOUS
  <2>11. /\ Len(out'[q]) <= 1
         /\ \A i \in 1 .. Len(out'[q]) : out'[q][i] = Right(dest[q])
    <3>1. CASE out'[q] = <<mac[t]>>
      BY <2>3, <2>10, <3>1
    <3>2. CASE out'[q] = <<>>
      BY <2>10, <3>2
    <3> QED BY <2>7, <3>1, <3>2
  <2>9. Addressed'
    BY <2>2, <2>7, <2>11 DEF Addressed, IInv, Right
  <2> QED BY <2>6, <2>8, <2>9
<1>5. ASSUME NEW t \in Thread, Retain(t)
      PROVE  BuffersOwned' /\ Unsent' /\ Addressed'
  <2>1. PICK q \in Packet : /\ q = pkt[t] /\ Owners(q) = {t} /\ q \in bufs
                            /\ q \notin pending /\ q \notin leaked /\ dest[q] \in Host
    BY <1>5, OwnerFacts DEF Retain, IInv, Calls
  <2>2. /\ UNCHANGED <<bufs, dest, next, out>>
        /\ \/ pending' = pending \cup {q} /\ leaked' = leaked
           \/ leaked' = leaked \cup {q} /\ pending' = pending
    BY <1>5, <2>1 DEF Retain
  <2>3. Owners(q)' = {}
    BY <1>5, <2>1 DEF Retain, Owners, IInv, TypeOK
  <2>4. \A p \in Packet : p # q => Owners(p)' = Owners(p)
    BY <1>5, <2>1 DEF Retain, Owners, IInv, TypeOK
  <2>5. BuffersOwned'
    <3>1. CASE pending' = pending \cup {q} /\ leaked' = leaked
      BY <3>1, <2>1, <2>2, <2>3, <2>4, OneBuffer DEF IInv, TypeOK
    <3>2. CASE leaked' = leaked \cup {q} /\ pending' = pending
      BY <3>2, <2>1, <2>2, <2>3, <2>4, OneBuffer DEF IInv, TypeOK
    <3> QED BY <2>2, <3>1, <3>2
  <2>6. Unsent'
    BY <2>1, <2>2 DEF Unsent, IInv
  <2>7. Addressed'
    BY <2>2 DEF Addressed, IInv
  <2> QED BY <2>5, <2>6, <2>7
<1>6. ASSUME NEW t \in Thread, Request(t)
      PROVE  BuffersOwned' /\ Unsent' /\ Addressed'
  <2>1. \A p \in Packet : Owners(p)' = Owners(p)
    BY <1>6 DEF Request, Return, Owners, IInv, TypeOK, Packet
  <2> QED BY <1>6, <2>1, BuffersSame DEF Request
<1>7. CASE ArpFlush
  <2>1. PICK h \in Host : h = frame.from
    BY <1>7 DEF ArpFlush, IInv, Calls, Frame
  <2>10. PICK go \in SUBSET Packet : go = Resolved(h)
    BY DEF Resolved, IInv, TypeOK
  <2>2. /\ bufs' = bufs \ go /\ pending' = pending \ go /\ UNCHANGED <<leaked, dest, next>>
        /\ \A p \in Packet : out'[p] = out[p] \/ (p \in go /\ out'[p] = Append(out[p], MacOf[h]))
    BY <1>7, <2>1, <2>10 DEF ArpFlush, EthernetOutput, NetDriverTransmit
  <2>3. \A p \in go : p \in pending /\ p \in bufs /\ p \notin leaked
                       /\ Owners(p) = {} /\ out[p] = <<>> /\ p < next /\ dest[p] = h
    BY <2>10 DEF Resolved, IInv, TypeOK, BuffersOwned, Unsent
  <2>4. \A p \in Packet : Owners(p)' = Owners(p)
    BY <1>7 DEF ArpFlush, Done, Owners, IInv, TypeOK
  <2>5. BuffersOwned'
    BY <2>2, <2>3, <2>4 DEF BuffersOwned, IInv
  <2>6. Unsent'
    BY <2>2, <2>3 DEF Unsent, IInv, TypeOK, Packet
  <2>7. \A p \in go : out'[p] = <<MacOf[h]>> \/ out'[p] = out[p]
    <3>1. ASSUME NEW m PROVE Append(<<>>, m) = <<m>>
      OBVIOUS
    <3> QED BY <2>2, <2>3, <3>1
  <2>8. Addressed'
    <3>1. ASSUME NEW p \in go, out'[p] # out[p]
          PROVE  Len(out'[p]) = 1 /\ out'[p][1] = MacOf[h] /\ dest'[p] = h /\ h # Bcast
      <4>1. ASSUME NEW m PROVE Len(<<m>>) = 1 /\ <<m>>[1] = m
        OBVIOUS
      <4>2. dest'[p] = h
        BY <2>2, <2>3
      <4> QED BY <2>7, <3>1, <4>1, <4>2, HostAssumption
    <3>2. \A p \in Packet : out'[p] = out[p] => dest'[p] = dest[p]
      BY <2>2
    <3>3. ASSUME NEW p \in Packet
          PROVE  /\ Len(out'[p]) <= 1
                 /\ \A i \in 1 .. Len(out'[p]) :
                        out'[p][i] = IF dest'[p] = Bcast THEN Bcast ELSE MacOf[dest'[p]]
      <4>1. CASE p \in go /\ out'[p] # out[p]
        <5>1. Len(out'[p]) = 1 /\ out'[p][1] = MacOf[h] /\ dest'[p] = h /\ h # Bcast
          BY <3>1, <4>1
        <5>2. ASSUME NEW i \in 1 .. Len(out'[p]) PROVE i = 1
          BY <5>1
        <5> QED BY <5>1, <5>2
      <4>2. CASE out'[p] = out[p]
        BY <3>2, <4>2 DEF Addressed, IInv
      <4> QED BY <2>2, <4>1, <4>2
    <3> QED BY <3>3 DEF Addressed
  <2> QED BY <2>5, <2>6, <2>8
<1>8. ASSUME \/ \E h \in Host : Answer(h) \/ Lose(h)
             \/ \E f \in Frame : Unasked(f)
             \/ UNCHANGED vars
      PROVE  BuffersOwned' /\ Unsent' /\ Addressed'
  <2>1. UNCHANGED <<pending, bufs, leaked, dest, out, next, pc, pkt>>
    BY <1>8 DEF Answer, Lose, Unasked, vars
  <2>2. \A p \in Packet : Owners(p)' = Owners(p)
    BY <2>1 DEF Owners
  <2> QED BY <2>1, <2>2, BuffersSame
<1>9. ASSUME Take \/ ArpLearn \/ EchoFails
      PROVE  BuffersOwned' /\ Unsent' /\ Addressed'
  <2>1. UNCHANGED <<pending, bufs, leaked, dest, out, next, pkt>>
    BY <1>9 DEF Take, ArpLearn, EchoFails
  <2>2. /\ pc[Rx] \in {"idle", "learn", "echo"}
        /\ \E c \in {"idle", "learn", "echo", "flush"} : pc' = [pc EXCEPT ![Rx] = c]
    BY <1>9 DEF Take, ArpLearn, EchoFails, Done
  <2>3. \A p \in Packet : Owners(p)' = Owners(p)
    BY <2>1, <2>2 DEF Owners, IInv, TypeOK
  <2> QED BY <2>1, <2>3, BuffersSame
<1> QED BY <1>1, <1>2, <1>3, <1>4, <1>5, <1>6, <1>7, <1>8, <1>9, NextCases

\* Every step keeps what is reported true.
LEMMA ReportStep ==
  ASSUME IInv, [Next]_vars
  PROVE  Reported' /\ Untold'
<1>1. ASSUME NEW t \in Thread, NEW d \in Host \cup {Bcast}, Build(t, d)
      PROVE  Reported' /\ Untold'
  <2>1. next \in Packet /\ ret[next] = "none"
    BY <1>1, SizeAssumption DEF Build, IInv, TypeOK, Untold, Packet
  <2> QED BY <1>1, <2>1, SizeAssumption DEF Build, Reported, Untold, IInv, TypeOK, Packet
<1>2. ASSUME NEW t \in Thread, Transmit(t)
      PROVE  Reported' /\ Untold'
  <2>0. pkt[t] \in Packet /\ out[pkt[t]] = <<>> /\ pkt[t] \in bufs
    BY <1>2, OwnerFacts DEF Transmit
  <2>1. PICK q \in Packet : q = pkt[t] /\ out[q] = <<>> /\ q < next
    BY <2>0 DEF IInv, Unsent
  <2>2. PICK res \in {"sent", "failed"} : /\ out' = [out EXCEPT ![q] = NetDriverTransmit(q, mac[t], res)]
                                          /\ ret' = [ret EXCEPT ![q] = res]
    BY <1>2, <2>1 DEF Transmit, Return
  <2>3. ret'[q] = res /\ out'[q] = IF res = "sent" THEN Append(<<>>, mac[t]) ELSE <<>>
    BY <2>1, <2>2 DEF NetDriverTransmit, IInv, TypeOK
  <2>4. Append(<<>>, mac[t]) # <<>>
    OBVIOUS
  <2>5. \A p \in Packet : p # q => ret'[p] = ret[p] /\ out'[p] = out[p]
    BY <2>2 DEF IInv, TypeOK
  <2>6. bufs' = bufs \ {q} /\ next' = next
    BY <1>2, <2>1 DEF Transmit
  <2>7. Reported'
    BY <2>3, <2>4, <2>5, <2>6 DEF Reported, IInv
  <2>9. next \in Int /\ q \in Int /\ \A p \in Packet : p >= next => p # q
    BY <2>1, SizeAssumption DEF IInv, TypeOK, Packet
  <2>8. Untold'
    BY <2>5, <2>6, <2>9 DEF Untold, IInv
  <2> QED BY <2>7, <2>8
<1>3. ASSUME NEW t \in Thread, Request(t)
      PROVE  Reported' /\ Untold'
  <2>1. PICK q \in Packet : q = pkt[t] /\ q < next
    BY <1>3, SizeAssumption DEF Request, IInv, TypeOK, Calls, Packet
  <2>2. /\ ret'[q] = "retained" /\ \A p \in Packet : p # q => ret'[p] = ret[p]
        /\ UNCHANGED <<out, bufs, next>>
    BY <1>3, <2>1 DEF Request, Return, IInv, TypeOK
  <2>3. Reported'
    BY <2>2 DEF Reported, IInv
  <2>4. Untold'
    BY <2>1, <2>2, SizeAssumption DEF Untold, IInv, TypeOK, Packet
  <2> QED BY <2>3, <2>4
<1>4. CASE ArpFlush
  <2>1. \A p \in Packet : out'[p] = out[p] \/ p \in pending
    BY <1>4 DEF ArpFlush, Resolved
  <2>2. \A p \in Packet : p \in pending => p \in bufs /\ out[p] = <<>>
    BY DEF IInv, BuffersOwned, Unsent
  <2>3. bufs' \subseteq bufs /\ UNCHANGED <<ret, next>>
    BY <1>4 DEF ArpFlush
  <2> QED BY <2>1, <2>2, <2>3 DEF Reported, Untold, IInv
<1>5. CASE UNCHANGED <<out, bufs, ret, next>>
  BY <1>5 DEF Reported, Untold, IInv
<1> QED
  BY <1>1, <1>2, <1>3, <1>4, <1>5, NextCases DEF Send, Echo, Thread, Frame, Lookup, Retain, Answer, Lose, Unasked,
     Take, ArpLearn, EchoFails, vars, IInv, Calls

-----------------------------------------------------------------------------
(* The retained packets.                                                   *)

\* An answer that is expected stays expected while the questions, the ring and
\* the receive thread's frame stay, and threads only leave other places.
LEMMA ExpectedSame ==
  ASSUME IInv, NEW h \in Host, Expected(h),
         UNCHANGED <<reqs, rxq>>,
         \A t \in Thread : pc[t] = "request" => pc'[t] = "request" /\ dest'[pkt'[t]] = dest[pkt[t]],
         pc[Rx] \in {"learn", "flush"} => pc'[Rx] \in {"learn", "flush"} /\ frame' = frame
  PROVE  Expected(h)'
<1>1. CASE \E t \in Thread : pc[t] = "request" /\ dest[pkt[t]] = h
  BY <1>1 DEF Expected
<1>2. CASE pc[Rx] \in {"learn", "flush"} /\ frame = [kind |-> "reply", from |-> h]
  BY <1>2 DEF Expected
<1>3. CASE reqs[h] > 0 \/ \E i \in 1 .. Len(rxq) : rxq[i] = [kind |-> "reply", from |-> h]
  BY <1>3 DEF Expected
<1> QED BY <1>1, <1>2, <1>3 DEF Expected

\* What is expected from the ring or the card is still expected when a frame
\* is added to the ring.
LEMMA ExpectedMore ==
  ASSUME IInv, NEW h \in Host, NEW f \in Frame, Expected(h), rxq' = Append(rxq, f),
         reqs'[h] = reqs[h] \/ f = [kind |-> "reply", from |-> h],
         UNCHANGED <<pc, pkt, dest, frame>>
  PROVE  Expected(h)'
<1>1. /\ Len(rxq') = Len(rxq) + 1 /\ Len(rxq) \in Nat /\ rxq'[Len(rxq) + 1] = f
      /\ \A i \in 1 .. Len(rxq) : rxq'[i] = rxq[i]
  BY DEF IInv, TypeOK
<1>2. CASE f = [kind |-> "reply", from |-> h]
  BY <1>1, <1>2 DEF Expected
<1>3. CASE reqs'[h] = reqs[h]
  BY <1>1, <1>3 DEF Expected
<1> QED BY <1>2, <1>3

\* Every step keeps retained packets awaited.
LEMMA AwaitStep ==
  ASSUME IInv, [Next]_vars
  PROVE  RetainedIsAwaited'
<1> SUFFICES ASSUME ~lossy', NEW p \in pending'
             PROVE  Expected(dest[p])'
  BY DEF RetainedIsAwaited
<1> USE DEF IInv, TypeOK, Thread
<1>1. ASSUME ~lossy, p \in pending
      PROVE  p \in Packet /\ dest[p] \in Host /\ Expected(dest[p])
  BY <1>1 DEF RetainedIsAwaited, Unsent
<1>2. ASSUME NEW t \in Thread, NEW d \in Host \cup {Bcast}, Build(t, d), pc[t] \in {"idle", "echo"},
             t # Rx => UNCHANGED frame
      PROVE  Expected(dest[p])'
  <2>1. PICK h \in Host : h = dest[p] /\ Expected(h)
    BY <1>1, <1>2 DEF Build
  <2>2. p \in Packet /\ p # next /\ next \in Packet
    BY <1>2, SizeAssumption DEF Build, BuffersOwned, Unsent, Packet
  <2>3. dest'[p] = h
    BY <1>2, <2>1, <2>2 DEF Build
  <2>4. ASSUME NEW u \in Thread, pc[u] = "request"
        PROVE  pc'[u] = "request" /\ dest'[pkt'[u]] = dest[pkt[u]]
    BY <1>2, <2>2, <2>4 DEF Build, Calls, Packet
  <2>5. pc[Rx] \in {"learn", "flush"} => pc'[Rx] \in {"learn", "flush"} /\ frame' = frame
    BY <1>2 DEF Build
  <2>6. Expected(h)'
    BY <1>2, <2>1, <2>4, <2>5, ExpectedSame DEF Build
  <2> QED BY <2>3, <2>6 DEF Expected
<1>3. ASSUME NEW t \in Sender, NEW d \in Host \cup {Bcast}, Send(t, d)
      PROVE  Expected(dest[p])'
  BY <1>2, <1>3 DEF Send
<1>4. CASE Echo
  <2>1. frame.from \in Host
    BY <1>4 DEF Echo, Calls, Frame
  <2> QED BY <1>2, <1>4, <2>1 DEF Echo
<1>5. ASSUME NEW t \in Thread, Lookup(t) \/ Transmit(t)
      PROVE  Expected(dest[p])'
  <2>1. PICK h \in Host : h = dest[p] /\ Expected(h)
    BY <1>1, <1>5 DEF Lookup, Transmit
  <2>2. /\ UNCHANGED <<dest, rxq, reqs, frame>>
        /\ \A u \in Thread : u # t => pc'[u] = pc[u] /\ pkt'[u] = pkt[u]
        /\ pc[t] \in {"lookup", "transmit"}
    BY <1>5 DEF Lookup, Transmit, Return
  <2>3. Expected(h)'
    BY <2>1, <2>2, ExpectedSame
  <2> QED BY <2>1, <2>2, <2>3 DEF Expected
<1>6. ASSUME NEW t \in Thread, Retain(t)
      PROVE  Expected(dest[p])'
  <2>1. /\ UNCHANGED <<dest, rxq, reqs, frame, pkt, lossy>>
        /\ \A u \in Thread : u # t => pc'[u] = pc[u]
        /\ pc[t] = "retain" /\ pc'[t] = "request"
    BY <1>6 DEF Retain
  <2>2. CASE p = pkt[t]
    BY <2>1, <2>2 DEF Expected
  <2>3. CASE p \in pending
    <3>1. PICK h \in Host : h = dest[p] /\ Expected(h)
      BY <1>1, <2>1, <2>3
    <3>2. Expected(h)'
      BY <2>1, <3>1, ExpectedSame
    <3> QED BY <2>1, <3>1, <3>2 DEF Expected
  <2> QED BY <1>6, <2>2, <2>3 DEF Retain
<1>7. ASSUME NEW t \in Thread, Request(t)
      PROVE  Expected(dest[p])'
  <2>1. /\ reqs' = [reqs EXCEPT ![dest[pkt[t]]] = @ + 1]
        /\ UNCHANGED <<dest, rxq, frame, lossy, pending>>
        /\ \A u \in Thread : u # t => pc'[u] = pc[u] /\ pkt'[u] = pkt[u]
        /\ pc[t] = "request"
    BY <1>7 DEF Request, Return
  <2>2. PICK h \in Host : h = dest[p] /\ Expected(h)
    BY <1>1, <2>1
  <2>3. CASE dest[pkt[t]] = h
    <3>1. reqs'[h] > 0
      BY <2>1, <2>3
    <3> QED BY <3>1, <2>1, <2>2 DEF Expected
  <2>4. CASE dest[pkt[t]] # h
    <3>1. reqs'[h] = reqs[h]
      BY <2>1, <2>4
    <3>2. Expected(h)'
      BY <2>1, <2>2, <2>4, <3>1 DEF Expected
    <3> QED BY <2>1, <2>2, <3>2 DEF Expected
  <2> QED BY <2>3, <2>4
<1>8. ASSUME NEW g \in Host, Answer(g)
      PROVE  Expected(dest[p])'
  <2>1. PICK h \in Host : h = dest[p] /\ Expected(h)
    BY <1>1, <1>8 DEF Answer
  <2>2. [kind |-> "reply", from |-> g] \in Frame
    BY DEF Frame
  <2>3. g = h \/ reqs'[h] = reqs[h]
    BY <1>8 DEF Answer
  <2>4. Expected(h)'
    BY <1>8, <2>1, <2>2, <2>3, ExpectedMore DEF Answer, Receive
  <2> QED BY <1>8, <2>1, <2>4 DEF Answer, Expected
<1>9. ASSUME NEW g \in Host, Lose(g)
      PROVE  Expected(dest[p])'
  BY <1>9 DEF Lose
<1>10. ASSUME NEW f \in Frame, Unasked(f)
       PROVE  Expected(dest[p])'
  <2>1. PICK h \in Host : h = dest[p] /\ Expected(h)
    BY <1>1, <1>10 DEF Unasked
  <2>2. Expected(h)'
    BY <1>10, <2>1, ExpectedMore DEF Unasked, Receive
  <2> QED BY <1>10, <2>1, <2>2 DEF Unasked, Expected
<1>11. CASE Take
  <2>1. PICK h \in Host : h = dest[p] /\ Expected(h)
    BY <1>1, <1>11 DEF Take
  <2>2. /\ UNCHANGED <<dest, reqs, pkt>> /\ frame' = Head(rxq) /\ rxq' = Tail(rxq)
        /\ pc[Rx] = "idle" /\ rxq # <<>>
        /\ pc'[Rx] = IF Head(rxq).kind = "echo" THEN "echo" ELSE "learn"
        /\ \A u \in Thread : u # Rx => pc'[u] = pc[u]
    BY <1>11 DEF Take
  <2>3. ASSUME NEW i \in 1 .. Len(rxq), rxq[i] = [kind |-> "reply", from |-> h]
        PROVE  Expected(h)'
    <3>1. CASE i = 1
      BY <2>2, <2>3, <3>1 DEF Expected
    <3>2. CASE i # 1
      <4>1. i - 1 \in 1 .. Len(rxq') /\ rxq'[i - 1] = rxq[i]
        BY <2>2, <3>2
      <4> QED BY <2>3, <4>1 DEF Expected
    <3> QED BY <3>1, <3>2
  <2>4. Expected(h)'
    BY <2>1, <2>2, <2>3 DEF Expected
  <2> QED BY <2>1, <2>2, <2>4 DEF Expected
<1>12. CASE ArpLearn \/ EchoFails
  <2>1. PICK h \in Host : h = dest[p] /\ Expected(h)
    BY <1>1, <1>12 DEF ArpLearn, EchoFails
  <2>2. /\ UNCHANGED <<dest, reqs, pkt, rxq>>
        /\ \A u \in Thread : u # Rx => pc'[u] = pc[u]
        /\ \/ pc[Rx] = "learn" /\ frame.kind = "reply" /\ pc'[Rx] = "flush" /\ frame' = frame
           \/ pc[Rx] = "learn" /\ frame.kind # "reply"
           \/ pc[Rx] = "echo"
    BY <1>12 DEF ArpLearn, EchoFails, Done
  <2>3. Expected(h)'
    BY <2>1, <2>2 DEF Expected
  <2> QED BY <2>1, <2>2, <2>3 DEF Expected
<1>13. CASE ArpFlush
  <2>1. PICK h \in Host : h = dest[p] /\ Expected(h)
    BY <1>1, <1>13 DEF ArpFlush
  <2>2. /\ UNCHANGED <<dest, reqs, pkt, rxq>> /\ pc[Rx] = "flush"
        /\ \A u \in Thread : u # Rx => pc'[u] = pc[u]
        /\ frame.from # h
    BY <1>13, <2>1 DEF ArpFlush, Done, Resolved
  <2>3. Expected(h)'
    BY <2>1, <2>2 DEF Expected
  <2> QED BY <2>1, <2>2, <2>3 DEF Expected
<1>14. CASE UNCHANGED vars
  <2>1. PICK h \in Host : h = dest[p] /\ Expected(h)
    BY <1>1, <1>14 DEF vars
  <2>2. Expected(h)'
    BY <1>14, <2>1 DEF vars, Expected
  <2> QED BY <1>14, <2>1, <2>2 DEF vars, Expected
<1> QED BY <1>3, <1>4, <1>5, <1>6, <1>7, <1>8, <1>9, <1>10, <1>11, <1>12, <1>13,
           <1>14, NextCases

-----------------------------------------------------------------------------
(* Theorems.                                                               *)

LEMMA InitInv == Init => IInv
<1> SUFFICES ASSUME Init PROVE IInv
  OBVIOUS
<1> USE SizeAssumption, HostAssumption, NoneAssumption DEF Init
<1>1. TypeOK
  <2>1. <<>> \in Seq(Frame) /\ Len(<<>>) = 0 /\ <<>> \in Seq(Mac \cup {Bcast})
    OBVIOUS
  <2>2. 0 \in Slot
    BY DEF Slot
  <2>3. /\ cache \in [Slot -> Entry \cup {None}] /\ victim \in Slot
        /\ pending \subseteq Packet /\ bufs \subseteq Packet /\ leaked \subseteq Packet
        /\ dest \in [Packet -> Host \cup {Bcast}]
    BY <2>2
  <2>4. /\ pc \in [Thread -> {"idle", "lookup", "transmit", "retain", "request",
                               "learn", "flush", "echo"}]
        /\ \A t \in Sender : pc[t] \notin {"learn", "flush", "echo"}
        /\ pkt \in [Thread -> Packet \cup {0}] /\ mac \in [Thread -> Mac \cup {Bcast}]
    BY DEF Thread
  <2>5. /\ frame \in Frame \cup {None} /\ rxq \in Seq(Frame) /\ Len(rxq) < RxQueueSize
        /\ reqs \in [Host -> Nat]
    BY <2>1
  <2>6. out \in [Packet -> Seq(Mac \cup {Bcast})]
    BY <2>1
  <2>7. /\ next \in 1 .. MaxPackets + 1 /\ frames \in 0 .. MaxFrames
    OBVIOUS
  <2>8. /\ lossy \in BOOLEAN /\ failed \subseteq Packet
        /\ ret \in [Packet -> {"none", "sent", "failed", "retained"}]
    OBVIOUS
  <2> QED BY <2>3, <2>4, <2>5, <2>6, <2>7, <2>8 DEF TypeOK
<1>2. Calls
  BY DEF Calls, Thread
<1>3. OneEntryPerAddress /\ CacheTrue
  BY DEF OneEntryPerAddress, CacheTrue
<1>4. BuffersOwned /\ Unsent
  BY DEF BuffersOwned, Unsent, Owners, Packet, Thread
<1>5. Addressed
  BY DEF Addressed
<1>6. RetainedIsAwaited
  BY DEF RetainedIsAwaited
<1>7. Reported /\ Untold
  BY DEF Reported, Untold
<1> QED BY <1>1, <1>2, <1>3, <1>4, <1>5, <1>6, <1>7 DEF IInv

LEMMA NextInv == IInv /\ [Next]_vars => IInv'
BY TypeStep, CacheStep, BufferStep, ReportStep, AwaitStep DEF IInv

LEMMA InvHolds == Spec => []IInv
BY InitInv, NextInv, PTL DEF Spec

\* The index of the victim stays in the cache and the ring within its size.
THEOREM TypeCorrect == Spec => []TypeOK
<1>1. IInv => TypeOK
  BY DEF IInv
<1> QED BY <1>1, InvHolds, PTL

\* arp_cache_insert never makes a second entry for an address, for any size of
\* the cache and any traffic.
THEOREM CacheStaysUnique == Spec => []OneEntryPerAddress
<1>1. IInv => OneEntryPerAddress
  BY DEF IInv
<1> QED BY <1>1, InvHolds, PTL

\* ip_output and arp_flush_pending_packets transmit a packet once at most, to
\* the card of its destination, and what ip_output returned of it is true.
THEOREM PacketsGoRight == Spec => []SentRight
<1>1. IInv => SentRight
  BY DEF IInv, SentRight
<1> QED BY <1>1, InvHolds, PTL

\* No buffer of ip_output is used after it is freed, freed twice, or lost in
\* any other way than by a list node that could not be allocated.
THEOREM BuffersStayOwned == Spec => []BuffersOwned
<1>1. IInv => BuffersOwned
  BY DEF IInv
<1> QED BY <1>1, InvHolds, PTL

\* No interleaving of lookups, retentions, questions and answers leaves a
\* packet on the list with no answer to come, while none is lost.
THEOREM NothingIsForgotten == Spec => []RetainedIsAwaited
<1>1. IInv => RetainedIsAwaited
  BY DEF IInv
<1> QED BY <1>1, InvHolds, PTL
=============================================================================
