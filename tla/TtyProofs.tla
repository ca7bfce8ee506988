----------------------------- MODULE TtyProofs -----------------------------
(***************************************************************************)
(* The terminals, for any number of terminals, pseudo terminals and        *)
(* programs, rings of any size and any typing: the queues count their      *)
(* lines, nobody sleeps through a line, what is drawn is announced, and    *)
(* keys keep their order and their case.                                   *)
(***************************************************************************)
EXTENDS Tty, FiniteSetTheorems, TLAPS

-----------------------------------------------------------------------------
(* The invariants.                                                         *)

Chr == {"x", "X", "nl"}
Event == [key : {"none", "x", "nl", "shift", "caps", "f"}, shift : BOOLEAN, caps : BOOLEAN,
          up : BOOLEAN]
Out == [c : Chr, echo : BOOLEAN]
PairRec == [mem : {"none", "live", "unlinked", "freed"}, master : Int, replica : Int, present : BOOLEAN]
Holder == Prog \cup {Bridge, Nobody}
BridgePc == {"test", "wait", "asleep", "ask", "granted", "put", "copy", "draw", "mark"}
ProgPc == {"user", "gone", "test", "reading", "waiting", "ask", "granted", "draw", "mark", "give",
           "vmark", "open", "counting", "destroy", "free"} \cup ClosePc
ProgRec == [kind : {"none", "tty", "replica", "master"}, e : Eng \cup {None}, pc : ProgPc,
            n : Int, eng : Pair \cup {None}]

KeysTyped ==
    /\ cast \in Cast /\ down \subseteq cast.keys /\ mods \in [shift : BOOLEAN, caps : BOOLEAN]
    /\ kring \in Seq(Event) /\ Len(kring) < Kbd
\* The bridge has an engine exactly while it works on a terminal, and a
\* character until it has passed it on.
Work == {"put", "copy", "draw", "mark"}
BridgeTyped ==
    /\ bridge \in [pc : BridgePc, ev : Event, eng : Eng \cup {None}]
    /\ bridge.pc \in Work => bridge.eng \in Eng
    /\ bridge.pc \notin Work => bridge.eng = None
    /\ bridge.pc \in {"ask", "granted", "put", "copy"} => Char(bridge.ev) # <<>>
QueuesTyped ==
    /\ inq \in [Eng -> Seq(Chr)] /\ outq \in [Eng -> Seq(Out)] /\ lines \in [Eng -> Nat]
    /\ \A e \in Eng : Len(inq[e]) < Queue /\ Len(outq[e]) < Queue
ScreenTyped ==
    /\ focus \in Tty /\ dirty \in [Tty -> BOOLEAN] /\ drawn \in [Tty -> BOOLEAN]
    /\ emu \in [pc : {"drain", "mark", "flush"}, tty : Tty, last : Tty]
PtysTyped ==
    /\ pair \in [Pair -> PairRec] /\ ptmx \in Pair \cup {None} /\ active \in Pair \cup {None}
    /\ listlock \in Holder /\ engine \in [Pair -> Holder]

\* What a program has open, by where it is.
HoldsEngine == {"draw", "mark", "give", "cclear", "cgive"}
Fits(r) ==
    /\ r.kind = "none" => r.pc \in {"user", "gone"}
    /\ r.kind = "tty" => r.e \in Tty /\ r.pc \in {"user", "test", "reading", "vmark"}
    /\ r.kind \in {"replica", "master"} => r.e \in Pair /\ r.pc \notin {"gone", "vmark"}
    /\ r.pc \in {"ask", "granted", "draw", "mark", "give", "reading"} => r.kind # "master"
    /\ r.pc = "waiting" => r.kind = "master"
    /\ r.pc \in {"open", "counting"} => r.kind = "replica"
    /\ r.pc \in HoldsEngine <=> r.eng \in Pair
ProgsTyped ==
    /\ prog \in [Prog -> ProgRec]
    /\ \A p \in Prog : Fits(prog[p])

\* There is one open master, and /dev/ptmx leads to it.
OneMaster ==
    \A p \in Prog : prog[p].kind = "master" =>
        /\ ptmx = prog[p].e
        /\ \A q \in Prog : prog[q].kind = "master" => q = p
\* Whoever waits for the active engine keeps it from being changed: an open that
\* counts has the lock of the list too, and does not wait for an engine.
Waits == {"granted", "cgranted"}
ActiveKept ==
    /\ listlock = Bridge => active # None
    /\ \A p \in Prog : listlock = p /\ prog[p].pc \in Waits => active # None

Shape ==
    /\ KeysTyped /\ BridgeTyped /\ QueuesTyped /\ ScreenTyped /\ PtysTyped /\ ProgsTyped
    /\ OneMaster /\ ActiveKept

-----------------------------------------------------------------------------
(* Facts about the operators.                                              *)

\* A nonempty set of natural numbers has a least element, and Min is it.
LEMMA MinIsLeast ==
    ASSUME NEW S \in SUBSET Nat, S # {}
    PROVE  Min(S) \in S /\ \A i \in S : Min(S) <= i
<1>. DEFINE R == OpToRel(<, Nat)
<1>1. PICK x \in S : \A y \in S : ~(<<y, x>> \in R)
  BY NatLessThanWellFounded, WFMin
<1>2. ASSUME NEW y \in S PROVE x <= y
  <2>. SUFFICES ASSUME y < x PROVE FALSE
    OBVIOUS
  <2>1. <<y, x>> \in {ss \in Nat \X Nat : ss[1] < ss[2]}
    OBVIOUS
  <2>. QED
    BY <1>1, <2>1 DEF OpToRel
<1>. QED
  BY <1>2 DEF Min

\* An event gives one character or none.
LEMMA CharTyped ==
    ASSUME NEW v \in Event, Char(v) # <<>>
    PROVE  Char(v)[1] \in Chr
BY DEF Event, Char, Chr

\* Pairs as they are made and destroyed.
LEMMA NewPairs ==
    /\ LET r == [NoPair EXCEPT !.mem = "live", !.master = 1, !.replica = 1]
       IN  r \in PairRec /\ r.mem = "live" /\ r.master = 1 /\ r.replica = 1
    /\ LET r == [NoPair EXCEPT !.mem = "live", !.master = 1]
       IN  r \in PairRec /\ r.mem = "live" /\ r.master = 1 /\ r.replica = 0
    /\ LET r == [NoPair EXCEPT !.mem = "freed"]
       IN  r \in PairRec /\ r.mem = "freed"
<1>1. NoPair \in PairRec
  BY DEF NoPair, PairRec
<1>2. ASSUME NEW r \in PairRec, NEW i \in Int, NEW j \in Int
      PROVE  /\ [r EXCEPT !.mem = "live", !.master = i, !.replica = j] \in PairRec
             /\ [r EXCEPT !.mem = "live", !.master = i] \in PairRec
             /\ [r EXCEPT !.mem = "freed"] \in PairRec
  BY DEF PairRec
<1>3. 1 \in Int
  OBVIOUS
<1>. QED
  BY <1>1, <1>2, <1>3 DEF NoPair

\* Only the place of the program changes.
LEMMA PcTyped ==
    ASSUME NEW r \in ProgRec, NEW c \in ProgPc
    PROVE  LET s == [r EXCEPT !.pc = c]
           IN  /\ s \in ProgRec
               /\ s.kind = r.kind /\ s.e = r.e /\ s.pc = c /\ s.n = r.n /\ s.eng = r.eng
BY DEF ProgRec

LEMMA BridgePcTyped ==
    ASSUME BridgeTyped, NEW c \in BridgePc, BridgeTo(c)
    PROVE  /\ bridge' \in [pc : BridgePc, ev : Event, eng : Eng \cup {None}]
           /\ bridge'.pc = c /\ bridge'.ev = bridge.ev /\ bridge'.eng = bridge.eng
BY DEF BridgeTyped, BridgeTo

\* What a wakeup does to programs.
LEMMA WakeupMoves ==
    ASSUME ProgsTyped, NEW e, NEW pc \in ProgPc, NEW p \in Prog
    PROVE  LET r == Wakeup(e, pc)[p]
           IN  /\ r \in ProgRec
               /\ r.kind = prog[p].kind /\ r.e = prog[p].e /\ r.n = prog[p].n /\ r.eng = prog[p].eng
               /\ r.pc = IF prog[p].pc = pc /\ prog[p].e = e THEN "test" ELSE prog[p].pc
<1>. DEFINE r == Wakeup(e, pc)[p]
<1>1. prog[p] \in ProgRec
  BY DEF ProgsTyped
<1>2. CASE prog[p].pc = pc /\ prog[p].e = e
  <2>1. r = [prog[p] EXCEPT !.pc = "test"]
    BY <1>2 DEF Wakeup
  <2>2. "test" \in ProgPc
    BY DEF ProgPc
  <2>. QED
    BY <1>1, <1>2, <2>1, <2>2, PcTyped
<1>3. CASE ~(prog[p].pc = pc /\ prog[p].e = e)
  BY <1>1, <1>3 DEF Wakeup
<1>. QED
  BY <1>2, <1>3

-----------------------------------------------------------------------------
(* What the parts of the system leave alone.                               *)

\* Programs do not touch the keyboard, the bridge and the emulator.
LEMMA ProgramsKeepKeys ==
    ASSUME NEW p \in Prog, Call(p) \/ Continue(p)
    PROVE  UNCHANGED <<keyboard, bridge, due, emu>>
<1>1. CASE Call(p)
  BY <1>1 DEF Call, OpenTty, Spawn, OpenReplica, OpenMaster, GetNumber, Activate, Read, WriteTty,
     WriteMaster, WriteReplica, Video, Close, Same
<1>2. CASE Continue(p)
  BY <1>2 DEF Continue, ReadTest, MasterReadTest, WriteAsk, WriteGranted, WriteDraw, WriteMark,
     WriteGive, VideoMark, CloseAsk, CloseGranted, CloseClear, CloseGive, CloseLoad, CloseStore, CloseTest,
     Destroy, DestroyFree, OpenLoad, OpenStore, Same
<1>. QED
  BY <1>1, <1>2

\* The keyboard touches nothing but its ring and a bridge that sleeps.
LEMMA KeyboardKeeps ==
    ASSUME NEW k, Press(k) \/ Release(k)
    PROVE  /\ UNCHANGED <<queues, screen, emu, ptys, locks, prog, written>>
           /\ \/ bridge' = bridge
              \/ bridge.pc = "asleep" /\ bridge' = [bridge EXCEPT !.pc = "test"]
BY DEF Press, Release, Handler

\* The emulator draws, and nothing else.
LEMMA EmulatorKeeps ==
    ASSUME Emulate
    PROVE  UNCHANGED <<keyboard, bridge, due, ptys, locks, prog, written>>
BY DEF Emulate, EmuDraw, EmuMark, EmuClear, EmuFlush, Still

-----------------------------------------------------------------------------
(* Types: one lemma for each group of variables.                           *)

LEMMA HandlerKeys ==
    ASSUME KeysTyped, NEW k, NEW m \in [shift : BOOLEAN, caps : BOOLEAN], NEW v \in Event,
           Handler(k, m, v)
    PROVE  /\ mods' \in [shift : BOOLEAN, caps : BOOLEAN]
           /\ kring' \in Seq(Event) /\ Len(kring') < Kbd /\ cast' = cast
<1>. USE TtyAssumption
<1>1. CASE kring' = kring
  BY <1>1 DEF KeysTyped, Handler
<1>2. CASE Len(kring) < Kbd - 1 /\ kring' = Append(kring, v)
  BY <1>2 DEF KeysTyped, Handler
<1>. QED
  BY <1>1, <1>2 DEF Handler

LEMMA KeysStep ==
    ASSUME KeysTyped, Next
    PROVE  KeysTyped'
<1>. USE DEF KeysTyped
<1>0. cast.keys \subseteq {"x", "nl", "shift", "caps", "f"}
  BY TtyAssumption
<1>1. ASSUME NEW k \in cast.keys, Press(k) PROVE KeysTyped'
  <2>. DEFINE m == [shift |-> mods.shift \/ k = "shift",
                    caps |-> IF k = "caps" THEN ~mods.caps ELSE mods.caps]
              v == [key |-> k, shift |-> m.shift, caps |-> m.caps, up |-> FALSE]
  <2>1. Handler(k, m, v) /\ down' = down \cup {k}
    BY <1>1 DEF Press
  <2>2. m \in [shift : BOOLEAN, caps : BOOLEAN]
    OBVIOUS
  <2>3. v \in Event
    BY <1>0, <2>2 DEF Event
  <2>. QED
    BY <1>1, <2>1, <2>2, <2>3, HandlerKeys
<1>2. ASSUME NEW k \in cast.keys, Release(k) PROVE KeysTyped'
  <2>. DEFINE m == [mods EXCEPT !.shift = @ /\ k # "shift"]
              v == [key |-> k, shift |-> mods.shift, caps |-> mods.caps, up |-> TRUE]
  <2>1. Handler(k, m, v) /\ down' = down \ {k}
    BY <1>2 DEF Release
  <2>2. m \in [shift : BOOLEAN, caps : BOOLEAN]
    OBVIOUS
  <2>3. v \in Event
    BY <1>0 DEF Event
  <2>. QED
    BY <1>2, <2>1, <2>2, <2>3, HandlerKeys
<1>3. CASE BridgeTake
  <2>1. kring # <<>> /\ kring' = Tail(kring) /\ UNCHANGED <<cast, down, mods>>
    BY <1>3 DEF BridgeTake
  <2>2. kring' \in Seq(Event) /\ Len(kring') < Kbd
    BY <2>1, TtyAssumption
  <2>. QED
    BY <2>1, <2>2
<1>4. CASE \/ BridgeEmpty \/ BridgeWait \/ BridgeAsk \/ BridgeGranted \/ BridgePut
           \/ BridgeCopy \/ BridgeDraw \/ BridgeMark \/ BridgeDone \/ Emulate
  BY <1>4 DEF BridgeEmpty, BridgeWait, BridgeAsk, BridgeGranted, BridgePut, BridgeCopy,
     BridgeDraw, BridgeMark, BridgeDone, Emulate, EmuDraw, EmuMark, EmuClear, EmuFlush, Still,
     keyboard
<1>5. ASSUME NEW p \in Prog, Call(p) \/ Continue(p) PROVE KeysTyped'
  BY <1>5, ProgramsKeepKeys DEF keyboard
<1>. QED
  BY <1>1, <1>2, <1>3, <1>4, <1>5 DEF Next, Carry

LEMMA BridgeStep ==
    ASSUME Shape, Next
    PROVE  BridgeTyped'
<1>. USE DEF Shape
<1>1. CASE bridge' = bridge
  BY <1>1 DEF BridgeTyped
<1>2. ASSUME NEW k, Press(k) \/ Release(k) PROVE BridgeTyped'
  <2>1. CASE bridge.pc = "asleep" /\ bridge' = [bridge EXCEPT !.pc = "test"]
    BY <2>1 DEF BridgeTyped, BridgePc, Work
  <2>. QED
    BY <1>1, <1>2, <2>1, KeyboardKeeps
<1>3. CASE BridgeEmpty \/ BridgeWait
  <2>1. bridge.pc \in {"test", "wait"} /\ (BridgeTo("wait") \/ BridgeTo("asleep"))
    BY <1>3 DEF BridgeEmpty, BridgeWait, BridgeAt
  <2>2. /\ bridge' \in [pc : BridgePc, ev : Event, eng : Eng \cup {None}]
        /\ bridge'.pc \in {"wait", "asleep"} /\ bridge'.eng = bridge.eng
    BY <2>1, BridgePcTyped DEF BridgePc
  <2>. QED
    BY <2>1, <2>2 DEF BridgeTyped, Work
<1>4. CASE BridgeTake
  <2>1. Head(kring) \in Event
    BY <1>4 DEF KeysTyped, BridgeTake
  <2>2. CASE bridge' = [bridge EXCEPT !.pc = "ask", !.ev = Head(kring)] /\ Char(Head(kring)) # <<>>
    BY <1>4, <2>1, <2>2 DEF BridgeTake, BridgeAt, BridgeTyped, BridgePc, Work
  <2>. QED
    BY <1>1, <1>4, <2>2 DEF BridgeTake
<1>5. CASE BridgeAsk
  <2>1. CASE bridge' = [bridge EXCEPT !.pc = "put", !.eng = focus]
    <3>1. focus \in Eng
      BY DEF ScreenTyped, Eng
    <3>. QED
      BY <1>5, <2>1, <3>1 DEF BridgeAsk, BridgeAt, BridgeTyped, BridgePc, Work
  <2>2. CASE bridge' = [bridge EXCEPT !.pc = "granted"]
    BY <1>5, <2>2 DEF BridgeAsk, BridgeAt, BridgeTyped, BridgePc, Work
  <2>. QED
    BY <1>5, <2>1, <2>2 DEF BridgeAsk
<1>6. CASE BridgeGranted
  <2>1. active \in Eng
    BY <1>6 DEF BridgeGranted, Granted, PtysTyped, ActiveKept, Nobody, Bridge, Eng
  <2>. QED
    BY <1>6, <2>1 DEF BridgeGranted, BridgeAt, BridgeTyped, BridgePc, Work
<1>7. CASE BridgePut \/ BridgeCopy \/ BridgeDraw \/ BridgeMark
  <2>1. /\ bridge.pc \in Work
        /\ (BridgeTo("copy") /\ bridge.pc = "put") \/ BridgeTo("draw") \/ BridgeTo("mark")
    BY <1>7 DEF BridgePut, BridgeCopy, BridgeDraw, BridgeMark, BridgeAt, Work
  <2>2. /\ bridge' \in [pc : BridgePc, ev : Event, eng : Eng \cup {None}]
        /\ bridge'.pc \in Work /\ bridge'.eng = bridge.eng
        /\ bridge'.pc \in {"draw", "mark"} \/ bridge.pc = "put"
        /\ bridge'.ev = bridge.ev /\ bridge'.pc # "put"
    BY <2>1, BridgePcTyped DEF BridgePc, Work
  <2>. QED
    BY <2>1, <2>2 DEF BridgeTyped, Work
<1>8. CASE BridgeDone
  BY <1>8 DEF BridgeDone, BridgeTyped, BridgePc, Work, NoEvent, Event
<1>. QED
  BY <1>1, <1>2, <1>3, <1>4, <1>5, <1>6, <1>7, <1>8, EmulatorKeeps, ProgramsKeepKeys
  DEF Next, Carry

\* A queue that is appended to, or cut, stays one.
LEMMA AppendFits ==
    ASSUME NEW S, NEW q \in Seq(S), NEW c \in S, Room(q)
    PROVE  Append(q, c) \in Seq(S) /\ Len(Append(q, c)) < Queue
BY TtyAssumption DEF Room

LEMMA CutFits ==
    ASSUME NEW S, NEW q \in Seq(S), Len(q) < Queue, NEW k \in 0 .. Len(q)
    PROVE  /\ SubSeq(q, k + 1, Len(q)) \in Seq(S)
           /\ Len(SubSeq(q, k + 1, Len(q))) = Len(q) - k
           /\ \A i \in 1 .. Len(q) - k : SubSeq(q, k + 1, Len(q))[i] = q[i + k]
<1>1. Len(q) \in Nat /\ k + 1 \in 1 .. Len(q) + 1
  OBVIOUS
<1>. QED
  BY <1>1

LEMMA InQueueTyped ==
    ASSUME QueuesTyped, NEW e \in Eng, NEW c \in Chr, ToInQueue(e, c)
    PROVE  QueuesTyped'
<1>. USE DEF QueuesTyped
<1>1. CASE UNCHANGED queues
  BY <1>1 DEF queues
<1>2. CASE /\ Room(inq[e])
           /\ inq' = [inq EXCEPT ![e] = Append(@, c)]
           /\ lines' = [lines EXCEPT ![e] = IF c = "nl" THEN @ + 1 ELSE @]
           /\ outq' = [outq EXCEPT ![e] = IF Room(@) THEN Append(@, Echo(c)) ELSE @]
  <2>1. Append(inq[e], c) \in Seq(Chr) /\ Len(Append(inq[e], c)) < Queue
    BY <1>2, AppendFits
  <2>2. Echo(c) \in Out
    BY DEF Echo, Out
  <2>3. Room(outq[e]) => Append(outq[e], Echo(c)) \in Seq(Out) /\ Len(Append(outq[e], Echo(c))) < Queue
    BY <2>2, AppendFits
  <2>4. lines' \in [Eng -> Nat]
    BY <1>2
  <2>5. inq' \in [Eng -> Seq(Chr)] /\ \A x \in Eng : Len(inq'[x]) < Queue
    BY <1>2, <2>1
  <2>6. outq' \in [Eng -> Seq(Out)] /\ \A x \in Eng : Len(outq'[x]) < Queue
    BY <1>2, <2>3
  <2>. QED
    BY <2>4, <2>5, <2>6
<1>. QED
  BY <1>1, <1>2 DEF ToInQueue

\* tty_read_from_in_queue takes one character at least, and a newline only as
\* the last one.
LEMMA LineBounds ==
    ASSUME NEW q \in Seq(Chr), NEW n \in Nat \ {0}, \E i \in 1 .. Len(q) : q[i] = "nl"
    PROVE  /\ Line(q, n) \in 1 .. Len(q)
           /\ \A i \in 1 .. Line(q, n) - 1 : q[i] # "nl"
<1>. DEFINE stop == {i \in DOMAIN q : q[i] = "nl"}
<1>1. stop \in SUBSET Nat /\ stop # {} /\ stop \subseteq 1 .. Len(q)
  OBVIOUS
<1>2. Min(stop) \in stop /\ \A i \in stop : Min(stop) <= i
  BY <1>1, MinIsLeast
<1>3. Line(q, n) = IF Min(stop) < n THEN Min(stop) ELSE n
  BY <1>1 DEF Line
<1>4. Min(stop) \in 1 .. Len(q) /\ Len(q) \in Nat
  BY <1>1, <1>2
<1>5. Line(q, n) \in 1 .. Len(q) /\ Line(q, n) <= Min(stop)
  BY <1>3, <1>4
<1>6. ASSUME NEW i \in 1 .. Line(q, n) - 1 PROVE q[i] # "nl"
  <2>1. i \in DOMAIN q /\ i < Min(stop)
    BY <1>4, <1>5
  <2>2. q[i] = "nl" => i \in stop
    BY <2>1
  <2>3. q[i] = "nl" => Min(stop) <= i
    BY <1>2, <2>2
  <2>4. i \in Int /\ Min(stop) \in Int
    BY <1>4
  <2>. HIDE DEF stop
  <2>. QED
    BY <2>1, <2>3, <2>4
<1>. QED
  BY <1>5, <1>6

LEMMA QueuesStep ==
    ASSUME Shape, LinesExact, Next
    PROVE  QueuesTyped'
<1>. USE DEF Shape
<1>1. CASE UNCHANGED queues
  BY <1>1 DEF queues, QueuesTyped
<1>2. ASSUME NEW e, outq[e] # <<>>, outq' = [outq EXCEPT ![e] = Tail(@)], UNCHANGED <<inq, lines>>
      PROVE  QueuesTyped'
  <2>1. ASSUME e \in Eng
        PROVE  Tail(outq[e]) \in Seq(Out) /\ Len(Tail(outq[e])) < Queue
    BY <1>2, <2>1, TtyAssumption DEF QueuesTyped
  <2>2. outq' \in [Eng -> Seq(Out)] /\ \A x \in Eng : Len(outq'[x]) < Queue
    BY <1>2, <2>1 DEF QueuesTyped
  <2>. QED
    BY <1>2, <2>2 DEF QueuesTyped
<1>3. CASE BridgePut \/ BridgeCopy
  <2>1. tty0 \in Eng /\ bridge.eng \in Eng /\ Char(bridge.ev)[1] \in Chr
    BY <1>3, CharTyped, TtyAssumption
    DEF BridgePut, BridgeCopy, BridgeAt, BridgeTyped, Work, Eng
  <2>. QED
    BY <1>3, <2>1, InQueueTyped DEF BridgePut, BridgeCopy
<1>4. CASE BridgeDraw \/ \E k \in Tty : EmuDraw(k)
  BY <1>2, <1>4 DEF BridgeDraw, EmuDraw, PopAndDraw
<1>5. CASE \/ BridgeEmpty \/ BridgeWait \/ BridgeTake \/ BridgeAsk \/ BridgeGranted
           \/ BridgeMark \/ BridgeDone \/ EmuMark \/ EmuClear \/ EmuFlush
  BY <1>1, <1>5 DEF BridgeEmpty, BridgeWait, BridgeTake, BridgeAsk, BridgeGranted, BridgeMark,
     BridgeDone, EmuMark, EmuClear, EmuFlush
<1>6. ASSUME NEW p \in Prog, Call(p) PROVE QueuesTyped'
  <2>1. CASE WriteTty(p)
    <3>1. Data("x") \in Out
      BY DEF Data, Out, Chr
    <3>2. ASSUME NEW e, e \in Eng, Room(outq[e])
          PROVE  Append(outq[e], Data("x")) \in Seq(Out) /\ Len(Append(outq[e], Data("x"))) < Queue
      BY <3>1, <3>2, AppendFits DEF QueuesTyped
    <3>3. UNCHANGED <<inq, lines>>
      BY <2>1 DEF WriteTty
    <3>4. outq' \in [Eng -> Seq(Out)] /\ \A x \in Eng : Len(outq'[x]) < Queue
      BY <2>1, <3>2 DEF WriteTty, QueuesTyped
    <3>. QED
      BY <3>3, <3>4 DEF QueuesTyped
  <2>2. CASE WriteMaster(p)
    <3>1. Mine(p) \in Eng /\ {"x", "nl"} \subseteq Chr
      BY <2>2 DEF WriteMaster, Mine, OneMaster, ProgsTyped, Fits, Eng, Chr
    <3>. QED
      BY <2>2, <3>1, InQueueTyped DEF WriteMaster
  <2>3. CASE WriteReplica(p)
    <3>. DEFINE e == prog[p].e
    <3>1. CASE outq' = outq
      BY <2>3, <3>1 DEF WriteReplica, QueuesTyped
    <3>2. CASE Room(outq[e]) /\ outq' = [outq EXCEPT ![e] = Append(@, Data("x"))]
      <4>1. Data("x") \in Out /\ e \in Eng
        BY <2>3 DEF Data, Out, Chr, WriteReplica, ProgsTyped, Fits, Eng
      <4>2. Append(outq[e], Data("x")) \in Seq(Out) /\ Len(Append(outq[e], Data("x"))) < Queue
        BY <3>2, <4>1, AppendFits DEF QueuesTyped
      <4>. QED
        BY <2>3, <3>2, <4>1, <4>2 DEF WriteReplica, QueuesTyped
    <3>. QED
      BY <2>3, <3>1, <3>2 DEF WriteReplica
  <2>. QED
    BY <1>1, <1>6, <2>1, <2>2, <2>3 DEF Call, OpenTty, Spawn, OpenReplica, OpenMaster, GetNumber,
       Activate, Read, Video, Close
<1>7. ASSUME NEW p \in Prog, Continue(p) PROVE QueuesTyped'
  <2>1. CASE ReadTest(p)
    <3>. DEFINE e == prog[p].e
    <3>1. SUFFICES ASSUME lines[e] > 0, NEW n \in 1 .. Queue - 1, Take(e, n) PROVE QueuesTyped'
      BY <1>1, <2>1 DEF ReadTest
    <3>2. e \in Eng
      BY <2>1 DEF ReadTest, At, ProgsTyped, Fits, ProgRec, Eng
    <3>3. \E i \in 1 .. Len(inq[e]) : inq[e][i] = "nl"
      <4>. DEFINE S == {i \in DOMAIN inq[e] : inq[e][i] = "nl"}
      <4>1. inq[e] \in Seq(Chr) /\ Cardinality(S) # 0
        <5>1. lines[e] = Cardinality(S)
          BY <3>2 DEF LinesExact
        <5>. QED
          BY <3>1, <3>2, <5>1 DEF QueuesTyped
      <4>2. S # {}
        BY <4>1, FS_EmptySet
      <4>. QED
        BY <4>1, <4>2
    <3>4. Line(inq[e], n) \in 1 .. Len(inq[e])
      <4>1. inq[e] \in Seq(Chr) /\ n \in Nat \ {0}
        BY <3>2, TtyAssumption DEF QueuesTyped
      <4>. QED
        BY <3>3, <4>1, LineBounds
    <3>5. /\ SubSeq(inq[e], Line(inq[e], n) + 1, Len(inq[e])) \in Seq(Chr)
          /\ Len(SubSeq(inq[e], Line(inq[e], n) + 1, Len(inq[e]))) < Queue
      <4>. DEFINE q == inq[e]
                  k == Line(q, n)
      <4>1. q \in Seq(Chr) /\ Len(q) < Queue /\ k \in 0 .. Len(q) /\ k \in 1 .. Len(q)
        BY <3>2, <3>4 DEF QueuesTyped
      <4>. HIDE DEF q, k
      <4>2. SubSeq(q, k + 1, Len(q)) \in Seq(Chr) /\ Len(SubSeq(q, k + 1, Len(q))) = Len(q) - k
        BY <4>1, CutFits
      <4>3. Len(q) - k < Queue
        BY <4>1, TtyAssumption
      <4>. QED
        BY <4>2, <4>3 DEF q, k
    <3>6. lines' \in [Eng -> Nat]
      BY <3>1, <3>2 DEF Take, QueuesTyped
    <3>. QED
      BY <3>1, <3>2, <3>5, <3>6 DEF Take, QueuesTyped
  <2>2. CASE MasterReadTest(p)
    <3>. DEFINE e == Mine(p)
    <3>1. UNCHANGED <<inq, lines>>
      BY <2>2 DEF MasterReadTest
    <3>2. SUFFICES ASSUME NEW n \in 1 .. Len(outq[e]),
                          outq' = [outq EXCEPT ![e] = SubSeq(@, n + 1, Len(@))]
                   PROVE  QueuesTyped'
      BY <1>1, <2>2, <3>1 DEF MasterReadTest, queues
    <3>3. e \in Eng
      BY <2>2 DEF MasterReadTest, Mine, OneMaster, ProgsTyped, Fits, Eng
    <3>4. /\ SubSeq(outq[e], n + 1, Len(outq[e])) \in Seq(Out)
          /\ Len(SubSeq(outq[e], n + 1, Len(outq[e]))) < Queue
      BY <3>2, <3>3, CutFits, TtyAssumption DEF QueuesTyped
    <3>. QED
      BY <3>1, <3>2, <3>3, <3>4 DEF QueuesTyped
  <2>3. CASE DestroyFree(p)
    <3>1. <<>> \in Seq(Chr) /\ <<>> \in Seq(Out) /\ Len(<<>>) < Queue
      BY TtyAssumption
    <3>. QED
      BY <2>3, <3>1 DEF DestroyFree, QueuesTyped
  <2>. QED
    BY <1>1, <1>7, <2>1, <2>2, <2>3 DEF Continue, WriteAsk, WriteGranted, WriteDraw, WriteMark,
       WriteGive, VideoMark, CloseAsk, CloseGranted, CloseClear, CloseGive, CloseLoad, CloseStore,
       CloseTest, Destroy, OpenLoad, OpenStore
<1>. QED
  BY <1>1, <1>3, <1>4, <1>5, <1>6, <1>7, KeyboardKeeps DEF Next, Carry, Emulate

LEMMA ScreenStep ==
    ASSUME Shape, Next
    PROVE  ScreenTyped'
<1>. USE TtyAssumption DEF Shape, ScreenTyped
<1>1. CASE UNCHANGED <<screen, emu>>
  BY <1>1 DEF screen
<1>2. CASE \/ BridgeEmpty \/ BridgeWait \/ BridgeAsk \/ BridgeGranted \/ BridgePut
           \/ BridgeCopy \/ BridgeDone
  BY <1>1, <1>2 DEF BridgeEmpty, BridgeWait, BridgeAsk, BridgeGranted, BridgePut, BridgeCopy,
     BridgeDone
<1>3. CASE BridgeTake
  BY <1>3 DEF BridgeTake
<1>4. CASE BridgeDraw \/ BridgeMark
  BY <1>4 DEF BridgeDraw, BridgeMark, PopAndDraw, Mark
<1>5. CASE Emulate
  <2>1. ASSUME NEW k \in Tty, EmuDraw(k) PROVE ScreenTyped'
    <3>1. emu' \in [pc : {"drain", "mark", "flush"}, tty : Tty, last : Tty]
      BY <2>1 DEF EmuDraw
    <3>. QED
      BY <2>1, <3>1 DEF EmuDraw, PopAndDraw
  <2>2. CASE EmuMark
    BY <2>2 DEF EmuMark, Mark
  <2>3. CASE EmuClear
    BY <2>3 DEF EmuClear
  <2>4. CASE EmuFlush
    BY <2>4 DEF EmuFlush
  <2>. QED
    BY <1>5, <2>1, <2>2, <2>3, <2>4 DEF Emulate
<1>6. ASSUME NEW p \in Prog, Call(p) PROVE ScreenTyped'
  <2>1. emu' = emu
    BY <1>6, ProgramsKeepKeys
  <2>2. CASE Video(p)
    BY <2>1, <2>2 DEF Video
  <2>. QED
    BY <1>1, <1>6, <2>1, <2>2 DEF Call, OpenTty, Spawn, OpenReplica, OpenMaster, GetNumber,
       Activate, Read, WriteTty, WriteMaster, WriteReplica, Close
<1>7. ASSUME NEW p \in Prog, Continue(p) PROVE ScreenTyped'
  <2>1. emu' = emu
    BY <1>7, ProgramsKeepKeys
  <2>2. CASE WriteDraw(p)
    <3>1. (drawn[tty0] \/ prog[p].n > 0) \in BOOLEAN
      OBVIOUS
    <3>. QED
      BY <2>1, <2>2, <3>1 DEF WriteDraw
  <2>3. CASE WriteMark(p) \/ VideoMark(p)
    BY <2>1, <2>3 DEF WriteMark, VideoMark, Mark
  <2>. QED
    BY <1>1, <1>7, <2>1, <2>2, <2>3 DEF Continue, ReadTest, MasterReadTest, WriteAsk, WriteGranted,
       WriteGive, CloseAsk, CloseGranted, CloseClear, CloseGive, CloseLoad, CloseStore, CloseTest,
       Destroy, DestroyFree, OpenLoad, OpenStore
<1>. QED
  BY <1>1, <1>2, <1>3, <1>4, <1>5, <1>6, <1>7, KeyboardKeeps DEF Next, Carry

LEMMA MineIsOwn ==
    ASSUME Shape, NEW p \in Prog
    PROVE  Mine(p) = prog[p].e
BY DEF Shape, OneMaster, Mine

\* The records of programs that open and close.
LEMMA OpenRecs ==
    /\ \A kind \in {"tty", "replica", "master"}, e \in Eng :
          LET s == Holding(kind, e)
          IN  s \in ProgRec /\ s.kind = kind /\ s.e = e /\ s.pc = "user" /\ s.eng = None
    /\ Gone \in ProgRec /\ Gone.kind = "none" /\ Gone.pc = "gone" /\ Gone.eng = None
    /\ Away \in ProgRec /\ Away.kind = "none" /\ Away.pc = "user" /\ Away.eng = None
<1>1. Away \in ProgRec
  BY DEF Away, ProgRec, ProgPc
<1>2. ASSUME NEW kind \in {"tty", "replica", "master"}, NEW e \in Eng
      PROVE  LET s == Holding(kind, e)
             IN  s \in ProgRec /\ s.kind = kind /\ s.e = e /\ s.pc = "user" /\ s.eng = None
  <2>1. Holding(kind, e) \in ProgRec
    <3>1. ASSUME NEW r \in ProgRec PROVE [r EXCEPT !.kind = kind, !.e = e] \in ProgRec
      BY DEF ProgRec
    <3>. QED
      BY <1>1, <3>1 DEF Holding
  <2>. QED
    BY <2>1 DEF Holding, Away
<1>3. Gone \in ProgRec
  <2>1. "gone" \in ProgPc
    BY DEF ProgPc
  <2>. QED
    BY <1>1, <2>1, PcTyped DEF Gone
<1>. QED
  BY <1>1, <1>2, <1>3 DEF Away, Gone

LEMMA OpeningRec ==
    ASSUME NEW k \in Pair
    PROVE  LET r == [Holding("replica", k) EXCEPT !.pc = "open"]
           IN  r \in ProgRec /\ r.kind = "replica" /\ r.e = k /\ r.pc = "open" /\ r.eng = None
<1>1. k \in Eng /\ "open" \in ProgPc
  BY DEF Eng, ProgPc
<1>2. /\ Holding("replica", k) \in ProgRec /\ Holding("replica", k).kind = "replica"
      /\ Holding("replica", k).e = k /\ Holding("replica", k).eng = None
  BY <1>1, OpenRecs
<1>. QED
  BY <1>1, <1>2, PcTyped

LEMMA LocksTyped ==
    ASSUME PtysTyped, NEW x \in Holder, NEW k, Ask(x) \/ Granted(x) \/ GiveBack(x, k), UNCHANGED ptys
    PROVE  PtysTyped'
<1>1. CASE Ask(x)
  BY <1>1 DEF PtysTyped, Ask, ptys, Holder
<1>2. CASE Granted(x)
  BY <1>2 DEF PtysTyped, Granted, ptys, Holder
<1>3. CASE GiveBack(x, k)
  BY <1>3 DEF PtysTyped, GiveBack, ptys, Holder
<1>. QED
  BY <1>1, <1>2, <1>3

LEMMA PtysStep ==
    ASSUME Shape, Next
    PROVE  PtysTyped'
<1>. USE DEF Shape
<1>1. CASE UNCHANGED <<ptys, locks>>
  BY <1>1 DEF ptys, locks, PtysTyped
<1>2. CASE \/ BridgeEmpty \/ BridgeWait \/ BridgeTake \/ BridgePut \/ BridgeCopy
           \/ BridgeDraw \/ BridgeMark
  BY <1>1, <1>2 DEF BridgeEmpty, BridgeWait, BridgeTake, BridgePut, BridgeCopy, BridgeDraw,
     BridgeMark
<1>3. CASE BridgeAsk \/ BridgeGranted \/ BridgeDone
  BY <1>1, <1>3, LocksTyped DEF BridgeAsk, BridgeGranted, BridgeDone, Holder
<1>4. ASSUME NEW p \in Prog, Call(p) PROVE PtysTyped'
  <2>1. CASE Spawn(p) \/ OpenMaster(p)
    <3>1. PICK k \in Pair :
            /\ ptmx' = k
            /\ \/ pair' = [pair EXCEPT ![k] = [NoPair EXCEPT !.mem = "live", !.master = 1, !.replica = 1]]
               \/ pair' = [pair EXCEPT ![k] = [NoPair EXCEPT !.mem = "live", !.master = 1]]
      BY <2>1 DEF Spawn, OpenMaster, Unused
    <3>2. /\ [NoPair EXCEPT !.mem = "live", !.master = 1, !.replica = 1] \in PairRec
          /\ [NoPair EXCEPT !.mem = "live", !.master = 1] \in PairRec
      BY NewPairs
    <3>3. UNCHANGED <<active, listlock, engine>>
      BY <2>1 DEF Spawn, OpenMaster, locks
    <3>. QED
      BY <3>1, <3>2, <3>3 DEF PtysTyped
  <2>2. CASE GetNumber(p)
    <3>1. pair' \in [Pair -> PairRec]
      BY <2>2 DEF GetNumber, PtysTyped, PairRec
    <3>. QED
      BY <2>2, <3>1 DEF GetNumber, PtysTyped, locks
  <2>3. CASE Activate(p)
    BY <2>3 DEF Activate, PtysTyped, ProgsTyped, Fits, locks
  <2>. QED
    BY <1>1, <1>4, <2>1, <2>2, <2>3 DEF Call, OpenTty, OpenReplica, Read, WriteTty, WriteMaster,
       WriteReplica, Video, Close
<1>5. ASSUME NEW p \in Prog, Continue(p) PROVE PtysTyped'
  <2>0. prog[p] \in ProgRec /\ prog[p].n \in Int
    BY DEF ProgsTyped, ProgRec
  <2>1. CASE \/ WriteAsk(p) \/ WriteGranted(p) \/ WriteGive(p) \/ CloseAsk(p) \/ CloseGranted(p)
             \/ CloseGive(p)
    BY <2>1, LocksTyped
    DEF WriteAsk, WriteGranted, WriteGive, CloseAsk, CloseGranted, CloseGive, Holder
  <2>2. CASE CloseClear(p)
    BY <2>2 DEF CloseClear, PtysTyped, locks
  <2>3. ASSUME NEW k, NEW n \in Int
        PROVE  /\ [pair EXCEPT ![k].master = n] \in [Pair -> PairRec]
               /\ [pair EXCEPT ![k].replica = n] \in [Pair -> PairRec]
               /\ [pair EXCEPT ![k].mem = "unlinked"] \in [Pair -> PairRec]
    BY DEF PtysTyped, PairRec
  <2>4. CASE OpenLoad(p)
    BY <2>4 DEF OpenLoad, PtysTyped, ptys, Holder
  <2>5. CASE OpenStore(p)
    <3>1. pair' \in [Pair -> PairRec]
      <4>1. PICK n \in Int : n = prog[p].n + 1
        BY <2>0
      <4>2. pair' = [pair EXCEPT ![prog[p].e].replica = n]
        BY <2>5, <4>1 DEF OpenStore
      <4>. QED
        BY <2>3, <4>2
    <3>. QED
      BY <2>5, <3>1 DEF OpenStore, PtysTyped, Holder
  <2>6. CASE CloseStore(p)
    <3>1. pair' \in [Pair -> PairRec]
      <4>1. PICK n \in Int : n = prog[p].n - 1
        BY <2>0
      <4>2. \/ pair' = [pair EXCEPT ![Mine(p)].master = n]
            \/ pair' = [pair EXCEPT ![Mine(p)].replica = n]
        BY <2>6, <4>1, Zenon DEF CloseStore
      <4>3. CASE pair' = [pair EXCEPT ![Mine(p)].master = n]
        BY <2>3, <4>3
      <4>4. CASE pair' = [pair EXCEPT ![Mine(p)].replica = n]
        BY <2>3, <4>4
      <4>. QED
        BY <4>2, <4>3, <4>4
    <3>. QED
      BY <2>6, <3>1 DEF CloseStore, PtysTyped, locks
  <2>7. CASE Destroy(p)
    <3>1. pair' \in [Pair -> PairRec]
      <4>1. pair' = [pair EXCEPT ![Mine(p)].mem = "unlinked"]
        BY <2>7 DEF Destroy
      <4>. QED
        BY <2>0, <2>3, <4>1
    <3>. QED
      BY <2>7, <3>1 DEF Destroy, PtysTyped, locks
  <2>8. CASE DestroyFree(p)
    <3>1. [NoPair EXCEPT !.mem = "freed"] \in PairRec
      BY NewPairs
    <3>. QED
      BY <2>8, <3>1 DEF DestroyFree, PtysTyped, locks
  <2>. QED
    BY <1>1, <1>5, <2>1, <2>2, <2>4, <2>5, <2>6, <2>7, <2>8 DEF Continue, ReadTest,
       MasterReadTest, WriteDraw, WriteMark, VideoMark, CloseLoad, CloseTest
<1>. QED
  BY <1>1, <1>2, <1>3, <1>4, <1>5, KeyboardKeeps, EmulatorKeeps DEF Next, Carry

\* Nobody comes to wait for the engine, and none is taken away under the lock.
LEMMA ActiveQuiet ==
    ASSUME Shape, listlock' \in {listlock, Nobody}, active' = active \/ active' # None \/ listlock' = Nobody,
           \A q \in Prog : prog'[q].pc \in Waits => prog[q].pc \in Waits
    PROVE  ActiveKept'
BY TtyAssumption DEF Shape, ActiveKept, Nobody, Bridge

LEMMA WakeupWaits ==
    ASSUME ProgsTyped, NEW e, NEW pc \in {"reading", "waiting"}, NEW q \in Prog,
           Wakeup(e, pc)[q].pc \in Waits
    PROVE  prog[q].pc \in Waits
<1>1. pc \in ProgPc
  BY DEF ProgPc
<1>. QED
  BY <1>1, WakeupMoves DEF Waits

\* A call leaves its program at a place where it does not wait for the engine.
LEMMA CallWaits ==
    ASSUME Shape, NEW p \in Prog, Call(p), NEW q \in Prog, prog'[q].pc \in Waits
    PROVE  prog[q].pc \in Waits
<1>. USE DEF Shape
<1>0. prog \in [Prog -> ProgRec]
  BY DEF ProgsTyped
<1>1. ASSUME NEW r, ProgTo(p, r), r.pc \notin Waits PROVE prog[q].pc \in Waits
  BY <1>0, <1>1 DEF ProgTo
<1>2. CASE prog' = prog
  BY <1>2
<1>3. CASE (\E k \in Tty : OpenTty(p, k)) \/ Spawn(p) \/ OpenMaster(p)
  <2>1. PICK kind \in {"tty", "replica", "master"}, k \in Eng : ProgTo(p, Holding(kind, k))
    BY <1>3 DEF OpenTty, Spawn, OpenMaster, Unused, Eng
  <2>2. Holding(kind, k).pc = "user"
    BY OpenRecs
  <2>. QED
    BY <1>1, <2>1, <2>2 DEF Waits
<1>4. ASSUME NEW k \in Pair, OpenReplica(p, k) PROVE prog[q].pc \in Waits
  BY <1>1, <1>4, OpeningRec DEF OpenReplica, Waits
<1>5. CASE Read(p) \/ Video(p) \/ Close(p)
  <2>1. ASSUME NEW c PROVE [prog[p] EXCEPT !.pc = c].pc = c
    BY <1>0 DEF ProgRec
  <2>2. CASE Read(p)
    BY <1>1, <2>1, <2>2 DEF Read, Waits
  <2>3. CASE Video(p)
    BY <1>1, <2>1, <2>3 DEF Video, Waits
  <2>4. CASE Close(p)
    <3>1. ProgTo(p, Gone) \/ ProgTo(p, [prog[p] EXCEPT !.pc = "cask"])
      BY <2>4 DEF Close
    <3>2. Gone.pc = "gone" /\ [prog[p] EXCEPT !.pc = "cask"].pc = "cask"
      BY <2>1, OpenRecs
    <3>. QED
      BY <1>1, <3>1, <3>2 DEF Waits
  <2>. QED
    BY <1>5, <2>2, <2>3, <2>4
<1>6. CASE WriteMaster(p)
  BY <1>6, WakeupWaits DEF WriteMaster, ToInQueue
<1>7. CASE WriteReplica(p)
  <2>1. PICK r, e : /\ r.pc = "ask"
                    /\ \/ prog' = [Wakeup(e, "waiting") EXCEPT ![p] = r]
                       \/ prog' = [prog EXCEPT ![p] = r]
    <3>1. \A n : [prog[p] EXCEPT !.pc = "ask", !.n = n].pc = "ask"
      BY <1>0 DEF ProgRec
    <3>. QED
      BY <1>7, <3>1 DEF WriteReplica
  <2>2. Wakeup(e, "waiting") = [x \in Prog |-> Wakeup(e, "waiting")[x]]
    BY DEF Wakeup
  <2>3. CASE q = p
    BY <1>0, <2>1, <2>2, <2>3 DEF Waits
  <2>4. CASE q # p
    <3>1. prog'[q] = prog[q] \/ prog'[q] = Wakeup(e, "waiting")[q]
      BY <1>0, <2>1, <2>2, <2>4
    <3>. QED
      BY <3>1, WakeupWaits
  <2>. QED
    BY <2>3, <2>4
<1>. QED
  BY <1>2, <1>3, <1>4, <1>5, <1>6, <1>7 DEF Call, GetNumber, Activate, WriteTty

LEMMA ActiveStep ==
    ASSUME Shape, Next
    PROVE  ActiveKept'
<1>. USE DEF Shape
<1>0. prog \in [Prog -> ProgRec]
  BY DEF ProgsTyped
<1>1. CASE UNCHANGED <<prog, active, listlock>>
  BY <1>1, ActiveQuiet
<1>2. CASE BridgePut \/ BridgeCopy
  BY <1>2, WakeupWaits, ActiveQuiet DEF BridgePut, BridgeCopy, ToInQueue, ptys, locks
<1>3. CASE BridgeAsk
  BY <1>3, TtyAssumption DEF BridgeAsk, Ask, ptys, ActiveKept, Nobody, Bridge
<1>4. CASE BridgeGranted \/ BridgeDone
  BY <1>4, ActiveQuiet DEF BridgeGranted, BridgeDone, Granted, GiveBack, ptys, locks
<1>5. ASSUME NEW p \in Prog, Call(p) PROVE ActiveKept'
  <2>1. listlock' = listlock /\ (active' = active \/ Activate(p))
    BY <1>5 DEF Call, OpenTty, Spawn, OpenReplica, OpenMaster, GetNumber, Activate, Read, WriteTty,
       WriteMaster, WriteReplica, Video, Close, ptys, locks
  <2>2. Activate(p) => listlock = Nobody
    BY DEF Activate
  <2>. QED
    BY <1>5, <2>1, <2>2, CallWaits, ActiveQuiet
<1>6. ASSUME NEW p \in Prog, Continue(p) PROVE ActiveKept'
  <2>0. ASSUME NEW c, NEW n, NEW g
        PROVE  /\ [prog[p] EXCEPT !.pc = c].pc = c
               /\ [prog[p] EXCEPT !.pc = c, !.n = n].pc = c
               /\ [prog[p] EXCEPT !.pc = c, !.eng = g].pc = c
               /\ [prog[p] EXCEPT !.pc = c, !.n = n, !.eng = g].pc = c
    BY <1>0 DEF ProgRec
  <2>1. ASSUME NEW r, ProgTo(p, r), r.pc \notin Waits, listlock' \in {listlock, Nobody},
               active' = active \/ listlock' = Nobody
        PROVE  ActiveKept'
    <3>1. ASSUME NEW q \in Prog, prog'[q].pc \in Waits PROVE prog[q].pc \in Waits
      BY <1>0, <2>1, <3>1 DEF ProgTo
    <3>. QED
      BY <2>1, <3>1, ActiveQuiet
  <2>2. CASE WriteAsk(p) \/ CloseAsk(p)
    <3>1. active' = active /\ (active = None => listlock' = Nobody) /\ (active # None => listlock' = p)
      BY <2>2 DEF WriteAsk, CloseAsk, Ask, ptys
    <3>. QED
      BY <3>1, TtyAssumption DEF ActiveKept, Nobody, Bridge
  <2>3. CASE OpenLoad(p)
    <3>1. listlock' = p /\ prog'[p].pc = "counting"
      BY <1>0, <2>0, <2>3 DEF OpenLoad, ProgTo
    <3>. QED
      BY <3>1, TtyAssumption DEF ActiveKept, Waits, Nobody, Bridge
  <2>4. CASE ReadTest(p) \/ MasterReadTest(p) \/ WriteDraw(p) \/ WriteMark(p) \/ VideoMark(p)
    <3>1. UNCHANGED <<active, listlock>>
      BY <2>4 DEF ReadTest, MasterReadTest, WriteDraw, WriteMark, VideoMark, ptys, locks
    <3>2. PICK c \in {"reading", "waiting", "user", "mark", "give"} :
             ProgTo(p, [prog[p] EXCEPT !.pc = c])
      BY <2>4 DEF ReadTest, MasterReadTest, WriteDraw, WriteMark, VideoMark
    <3>. QED
      BY <2>0, <2>1, <3>1, <3>2 DEF Waits
  <2>5. CASE WriteGranted(p) \/ CloseGranted(p)
    <3>1. active' = active /\ listlock' = Nobody
      BY <2>5 DEF WriteGranted, CloseGranted, Granted, ptys
    <3>2. PICK c \in {"draw", "give", "cclear", "cgive"} :
             ProgTo(p, [prog[p] EXCEPT !.pc = c, !.eng = active])
      BY <2>5 DEF WriteGranted, CloseGranted
    <3>. QED
      BY <2>0, <2>1, <3>1, <3>2 DEF Waits
  <2>6. CASE WriteGive(p) \/ CloseGive(p)
    <3>1. active' = active /\ listlock' = listlock
      BY <2>6 DEF WriteGive, CloseGive, GiveBack, ptys
    <3>2. \/ ProgTo(p, [prog[p] EXCEPT !.pc = "user", !.n = 0, !.eng = None])
          \/ ProgTo(p, [prog[p] EXCEPT !.pc = "cdec", !.eng = None])
      BY <2>6 DEF WriteGive, CloseGive
    <3>3. /\ [prog[p] EXCEPT !.pc = "user", !.n = 0, !.eng = None].pc = "user"
          /\ [prog[p] EXCEPT !.pc = "cdec", !.eng = None].pc = "cdec"
      BY <2>0
    <3>. QED
      BY <2>1, <3>1, <3>2, <3>3 DEF Waits
  <2>7. CASE CloseClear(p) \/ Destroy(p)
    <3>1. listlock = Nobody /\ listlock' = Nobody
      BY <2>7 DEF CloseClear, Destroy, locks
    <3>2. PICK c \in {"cgive", "free"} : ProgTo(p, [prog[p] EXCEPT !.pc = c])
      BY <2>7 DEF CloseClear, Destroy
    <3>. QED
      BY <2>0, <2>1, <3>1, <3>2 DEF Waits
  <2>9. CASE OpenStore(p) \/ CloseLoad(p) \/ CloseStore(p)
    <3>1. listlock' \in {listlock, Nobody} /\ active' = active
      BY <2>9 DEF OpenStore, CloseLoad, CloseStore, ptys, locks
    <3>5. PICK c \in {"user", "cput", "ctest"} :
             \E n : ProgTo(p, [prog[p] EXCEPT !.pc = c, !.n = n])
      BY <2>9, Zenon DEF OpenStore, CloseLoad, CloseStore
    <3>2. PICK n : ProgTo(p, [prog[p] EXCEPT !.pc = c, !.n = n])
      BY <3>5, Zenon
    <3>3. [prog[p] EXCEPT !.pc = c, !.n = n].pc = c
      BY <2>0, Zenon
    <3>4. [prog[p] EXCEPT !.pc = c, !.n = n].pc \notin Waits
      BY <3>3 DEF Waits
    <3>. QED
      BY <2>1, <3>1, <3>2, <3>4, Zenon
  <2>8. CASE CloseTest(p) \/ DestroyFree(p)
    BY <2>0, <2>1, <2>8, OpenRecs DEF CloseTest, DestroyFree, ptys, locks, Waits
  <2>. QED
    BY <1>6, <2>2, <2>3, <2>4, <2>5, <2>6, <2>7, <2>8, <2>9 DEF Continue
<1>. QED
  BY <1>1, <1>2, <1>3, <1>4, <1>5, <1>6, KeyboardKeeps, EmulatorKeeps
  DEF Next, Carry, BridgeEmpty, BridgeWait, BridgeTake, BridgeDraw, BridgeMark, ptys, locks

\* One program moves on, and the others stay.
LEMMA MoveTyped ==
    ASSUME ProgsTyped, OneMaster, NEW p \in Prog, NEW r \in ProgRec, Fits(r), ProgTo(p, r),
           r.kind = "master" => prog[p].kind = "master" /\ r.e = prog[p].e, ptmx' = ptmx
    PROVE  ProgsTyped' /\ OneMaster'
<1>1. ProgsTyped'
  BY DEF ProgsTyped, ProgTo
<1>2. OneMaster'
  BY DEF ProgsTyped, ProgTo, OneMaster
<1>. QED
  BY <1>1, <1>2

LEMMA WakeupTyped ==
    ASSUME ProgsTyped, OneMaster, NEW e, NEW pc \in {"reading", "waiting"}, ptmx' = ptmx,
           prog' = Wakeup(e, pc)
    PROVE  ProgsTyped' /\ OneMaster'
<1>1. pc \in ProgPc
  BY DEF ProgPc
<1>2. prog' = [p \in Prog |-> prog'[p]]
  BY DEF Wakeup
<1>3. ASSUME NEW p \in Prog
      PROVE  /\ prog'[p] \in ProgRec
             /\ prog'[p].kind = prog[p].kind /\ prog'[p].e = prog[p].e
             /\ prog'[p].eng = prog[p].eng
             /\ prog'[p].pc = prog[p].pc \/ (prog[p].pc = pc /\ prog'[p].pc = "test")
  <2>1. prog'[p] = Wakeup(e, pc)[p]
    OBVIOUS
  <2>. QED
    BY <1>1, <2>1, WakeupMoves
<1>4. ASSUME NEW p \in Prog PROVE Fits(prog'[p])
  BY <1>3 DEF ProgsTyped, Fits, HoldsEngine
<1>5. prog' \in [Prog -> ProgRec]
  BY <1>2, <1>3
<1>. QED
  BY <1>3, <1>4, <1>5 DEF ProgsTyped, OneMaster

LEMMA InQueueProgs ==
    ASSUME ProgsTyped, OneMaster, NEW e, NEW c, ToInQueue(e, c), ptmx' = ptmx
    PROVE  ProgsTyped' /\ OneMaster'
BY WakeupTyped DEF ToInQueue, ProgsTyped, OneMaster

\* A call that goes on keeps what is open, or, at its end, closes it.
LEMMA ContinueMoves ==
    ASSUME Shape, NEW p \in Prog, Continue(p)
    PROVE  \E r \in ProgRec :
              /\ ProgTo(p, r) /\ Fits(r)
              /\ \/ r.kind = prog[p].kind /\ r.e = prog[p].e
                 \/ r = Gone /\ prog[p].pc \in {"ctest", "free"}
<1>. USE DEF Shape
<1>. DEFINE old == prog[p]
            Goal == \E r \in ProgRec : /\ ProgTo(p, r) /\ Fits(r)
                                       /\ \/ r.kind = prog[p].kind /\ r.e = prog[p].e
                                          \/ r = Gone /\ prog[p].pc \in {"ctest", "free"}
            Keeps(c) == \A r \in ProgRec :
                          (r.kind = old.kind /\ r.e = old.e /\ r.pc = c /\ r.eng = old.eng) => Fits(r)
<1>0. old \in ProgRec /\ Fits(old)
  BY DEF ProgsTyped
<1>1. ASSUME NEW c \in ProgPc, ProgTo(p, [old EXCEPT !.pc = c]), Keeps(c) PROVE Goal
  BY <1>0, <1>1, PcTyped
<1>2. Gone \in ProgRec /\ Fits(Gone)
  BY OpenRecs DEF Fits, HoldsEngine, None, Pair
<1>. HIDE DEF Goal
<1>3. CASE ReadTest(p)
  BY <1>0, <1>1, <1>3 DEF ReadTest, At, Fits, HoldsEngine, ClosePc, ProgPc, ProgRec
<1>4. CASE MasterReadTest(p)
  <2>1. PICK c \in {"waiting", "user"} : ProgTo(p, [old EXCEPT !.pc = c])
    BY <1>4 DEF MasterReadTest
  <2>2. old.kind = "master" /\ old.pc = "test"
    BY <1>4 DEF MasterReadTest, At
  <2>3. Keeps(c)
    BY <1>0, <2>2 DEF Fits, HoldsEngine
  <2>4. c \in ProgPc
    BY DEF ProgPc
  <2>. QED
    BY <1>1, <2>1, <2>3, <2>4, Zenon DEF Goal
<1>5. CASE WriteDraw(p) \/ WriteMark(p)
  BY <1>0, <1>1, <1>5 DEF WriteDraw, WriteMark, At, Fits, HoldsEngine, ClosePc, ProgPc,
     ProgRec
<1>6. CASE VideoMark(p)
  BY <1>0, <1>1, <1>6 DEF VideoMark, At, Fits, HoldsEngine, ClosePc, ProgPc, ProgRec
<1>7. CASE CloseAsk(p) \/ CloseClear(p)
  <2>1. PICK c \in {"cdec", "cgranted", "cgive"} :
           /\ ProgTo(p, [old EXCEPT !.pc = c])
           /\ old.pc = (IF c = "cgive" THEN "cclear" ELSE "cask")
    BY <1>7 DEF CloseAsk, CloseClear, At
  <2>. QED
    BY <1>0, <1>1, <2>1 DEF Fits, HoldsEngine, ClosePc, ProgPc, ProgRec
<1>8. CASE WriteAsk(p)
  <2>1. CASE ProgTo(p, [old EXCEPT !.pc = "granted"])
    BY <1>0, <1>1, <1>8, <2>1 DEF WriteAsk, At, Fits, HoldsEngine, ClosePc, ProgPc, ProgRec
  <2>2. CASE ProgTo(p, [old EXCEPT !.pc = "user", !.n = 0])
    <3>. DEFINE r == [old EXCEPT !.pc = "user", !.n = 0]
    <3>1. r \in ProgRec /\ r.kind = old.kind /\ r.e = old.e /\ r.pc = "user" /\ r.eng = old.eng
      <4>1. "user" \in ProgPc /\ 0 \in Int
        BY DEF ProgPc
      <4>. QED
        BY <1>0, <4>1 DEF ProgRec
    <3>2. Fits(r)
      BY <1>0, <1>8, <3>1 DEF WriteAsk, At, Fits, HoldsEngine, ClosePc
    <3>. QED
      BY <2>2, <3>1, <3>2 DEF Goal
  <2>. QED
    BY <1>8, <2>1, <2>2 DEF WriteAsk
<1>9. CASE WriteGranted(p) \/ CloseGranted(p)
  <2>1. active \in Pair
    BY <1>9, TtyAssumption DEF WriteGranted, CloseGranted, Granted, PtysTyped, ActiveKept, Waits, At
  <2>2. PICK c \in HoldsEngine :
            /\ ProgTo(p, [old EXCEPT !.pc = c, !.eng = active])
            /\ \/ old.pc = "granted" /\ c \in {"draw", "give"}
               \/ old.pc = "cgranted" /\ c \in {"cclear", "cgive"}
    BY <1>9 DEF WriteGranted, CloseGranted, At, HoldsEngine
  <2>. DEFINE r == [old EXCEPT !.pc = c, !.eng = active]
  <2>3. r \in ProgRec /\ r.kind = old.kind /\ r.e = old.e /\ r.pc = c /\ r.eng = active
    <3>1. c \in ProgPc
      BY DEF ProgPc, HoldsEngine, ClosePc
    <3>. QED
      BY <1>0, <2>1, <3>1 DEF ProgRec
  <2>4. Fits(r)
    BY <1>0, <2>1, <2>2, <2>3 DEF Fits, HoldsEngine, ClosePc
  <2>. QED
    BY <2>2, <2>3, <2>4 DEF Goal
<1>10. CASE WriteGive(p)
  <2>. DEFINE r == [old EXCEPT !.pc = "user", !.n = 0, !.eng = None]
  <2>1. r \in ProgRec /\ r.kind = old.kind /\ r.e = old.e /\ r.pc = "user" /\ r.eng = None
    <3>1. "user" \in ProgPc /\ 0 \in Int
      BY DEF ProgPc
    <3>. QED
      BY <1>0, <3>1 DEF ProgRec
  <2>2. Fits(r)
    BY <1>0, <1>10, <2>1 DEF WriteGive, At, Fits, HoldsEngine, ClosePc, None, Pair
  <2>. QED
    BY <1>10, <2>1, <2>2 DEF WriteGive, Goal
<1>11. CASE CloseGive(p)
  <2>. DEFINE r == [old EXCEPT !.pc = "cdec", !.eng = None]
  <2>1. r \in ProgRec /\ r.kind = old.kind /\ r.e = old.e /\ r.pc = "cdec" /\ r.eng = None
    <3>1. "cdec" \in ProgPc
      BY DEF ProgPc, ClosePc
    <3>. QED
      BY <1>0, <3>1 DEF ProgRec
  <2>2. Fits(r)
    BY <1>0, <1>11, <2>1 DEF CloseGive, At, Fits, HoldsEngine, ClosePc, None, Pair
  <2>. QED
    BY <1>11, <2>1, <2>2 DEF CloseGive, Goal
<1>12. CASE CloseTest(p)
  <2>1. CASE ProgTo(p, [old EXCEPT !.pc = "destroy"])
    BY <1>0, <1>1, <1>12, <2>1 DEF CloseTest, At, Fits, HoldsEngine, ClosePc, ProgPc, ProgRec
  <2>2. CASE ProgTo(p, Gone)
    BY <1>2, <1>12, <2>2 DEF CloseTest, At, Goal
  <2>. QED
    BY <1>12, <2>1, <2>2 DEF CloseTest
<1>13. CASE Destroy(p)
  BY <1>0, <1>1, <1>13 DEF Destroy, At, Fits, HoldsEngine, ClosePc, ProgPc, ProgRec
<1>14. CASE DestroyFree(p)
  BY <1>2, <1>14 DEF DestroyFree, At, Goal
<1>15. ASSUME NEW c \in ProgPc, NEW n \in Int, ProgTo(p, [old EXCEPT !.pc = c, !.n = n]), Keeps(c)
       PROVE  Goal
  <2>. DEFINE r == [old EXCEPT !.pc = c, !.n = n]
  <2>1. r \in ProgRec /\ r.kind = old.kind /\ r.e = old.e /\ r.pc = c /\ r.eng = old.eng
    BY <1>0 DEF ProgRec
  <2>. QED
    BY <1>15, <2>1 DEF Goal
<1>16. ASSUME old.kind \in {"replica", "master"}
       PROVE  Mine(p) \in Pair /\ pair[Mine(p)].master \in Int /\ pair[Mine(p)].replica \in Int
  BY <1>0, <1>16, MineIsOwn DEF Fits, PtysTyped, PairRec
<1>17. CASE OpenLoad(p) \/ OpenStore(p)
  <2>1. old.kind = "replica" /\ Mine(p) = old.e
    BY <1>0, <1>17, MineIsOwn DEF OpenLoad, OpenStore, At, Fits
  <2>2. PICK c \in {"counting", "user"}, n \in Int : ProgTo(p, [old EXCEPT !.pc = c, !.n = n])
    <3>1. pair[old.e].replica \in Int /\ 0 \in Int
      BY <1>16, <2>1
    <3>2. \/ ProgTo(p, [old EXCEPT !.pc = "counting", !.n = pair[old.e].replica])
          \/ ProgTo(p, [old EXCEPT !.pc = "user", !.n = 0])
      BY <1>17 DEF OpenLoad, OpenStore
    <3>. QED
      BY <3>1, <3>2
  <2>3. old.pc \in {"open", "counting"}
    BY <1>17 DEF OpenLoad, OpenStore, At
  <2>. QED
    <3>1. Keeps(c)
      BY <1>0, <2>1, <2>3 DEF Fits, HoldsEngine
    <3>2. c \in ProgPc
      BY DEF ProgPc
    <3>. QED
      BY <1>15, <2>2, <3>1, <3>2, Zenon DEF Goal
<1>18. CASE CloseLoad(p) \/ CloseStore(p)
  <2>1. old.kind \in {"replica", "master"}
    BY <1>0, <1>18 DEF CloseLoad, CloseStore, At, Fits, ProgRec
  <2>2. Count(p) \in Int
    BY <1>16, <2>1 DEF Count
  <2>3. PICK c \in {"cput", "ctest"}, n \in Int : ProgTo(p, [old EXCEPT !.pc = c, !.n = n])
    <3>1. \/ ProgTo(p, [old EXCEPT !.pc = "cput", !.n = Count(p)])
          \/ ProgTo(p, [old EXCEPT !.pc = "ctest", !.n = 0])
      BY <1>18, Zenon DEF CloseLoad, CloseStore
    <3>2. 0 \in Int
      OBVIOUS
    <3>. QED
      BY <2>2, <3>1, <3>2
  <2>4. old.pc \in {"cdec", "cput"}
    BY <1>18 DEF CloseLoad, CloseStore, At
  <2>. QED
    <3>1. Keeps(c)
      BY <1>0, <2>1, <2>4 DEF Fits, HoldsEngine
    <3>2. c \in ProgPc
      BY DEF ProgPc, ClosePc
    <3>. QED
      BY <1>15, <2>3, <3>1, <3>2, Zenon DEF Goal
<1>. QED
  BY <1>3, <1>4, <1>5, <1>6, <1>7, <1>8, <1>9, <1>10, <1>11, <1>12, <1>13, <1>14, <1>17, <1>18
  DEF Continue, Goal

LEMMA ContinueProgs ==
    ASSUME Shape, NEW p \in Prog, Continue(p)
    PROVE  ProgsTyped' /\ OneMaster'
<1>. USE DEF Shape
<1>1. PICK r \in ProgRec :
          /\ ProgTo(p, r) /\ Fits(r)
          /\ \/ r.kind = prog[p].kind /\ r.e = prog[p].e
             \/ r = Gone /\ prog[p].pc \in {"ctest", "free"}
  BY ContinueMoves
<1>2. r.kind = "master" => prog[p].kind = "master" /\ r.e = prog[p].e
  BY <1>1, OpenRecs
<1>3. CASE ptmx' = ptmx
  BY <1>1, <1>2, <1>3, MoveTyped
<1>4. CASE DestroyFree(p) /\ prog[p].kind = "master"
  <2>1. prog' = [prog EXCEPT ![p] = Gone]
    BY <1>4 DEF DestroyFree, ProgTo
  <2>2. Fits(Gone)
    BY OpenRecs DEF Fits, HoldsEngine, None, Pair
  <2>3. ProgsTyped'
    BY <2>1, <2>2, OpenRecs DEF ProgsTyped
  <2>4. OneMaster'
    BY <1>4, <2>1, OpenRecs DEF ProgsTyped, OneMaster
  <2>. QED
    BY <2>3, <2>4
<1>. QED
  BY <1>3, <1>4 DEF Continue, ReadTest, MasterReadTest, WriteAsk, WriteGranted, WriteDraw,
     WriteMark, WriteGive, VideoMark, CloseAsk, CloseGranted, CloseClear, CloseGive, CloseLoad,
     CloseStore, CloseTest, Destroy, DestroyFree, OpenLoad, OpenStore, ptys

LEMMA ProgsStep ==
    ASSUME Shape, Next
    PROVE  ProgsTyped' /\ OneMaster'
<1>. USE DEF Shape
<1>. DEFINE Good == ProgsTyped' /\ OneMaster'
<1>1. CASE UNCHANGED <<prog, ptys>>
  BY <1>1 DEF ProgsTyped, OneMaster, ptys
<1>2. CASE BridgePut \/ BridgeCopy
  BY <1>2, InQueueProgs DEF BridgePut, BridgeCopy, ptys
<1>3. CASE \/ BridgeEmpty \/ BridgeWait \/ BridgeTake \/ BridgeAsk \/ BridgeGranted
           \/ BridgeDraw \/ BridgeMark \/ BridgeDone
  BY <1>1, <1>3 DEF BridgeEmpty, BridgeWait, BridgeTake, BridgeAsk, BridgeGranted, BridgeDraw,
     BridgeMark, BridgeDone
<1>4. ASSUME NEW p \in Prog, Call(p) PROVE Good
  <2>. DEFINE old == prog[p]
  <2>0. old \in ProgRec /\ Fits(old)
    BY DEF ProgsTyped
  <2>. HIDE DEF Good
  <2>1. ASSUME NEW r \in ProgRec, Fits(r), ProgTo(p, r), ptmx' = ptmx,
               r.kind = "master" => old.kind = "master" /\ r.e = old.e
        PROVE  Good
    BY <2>1, MoveTyped DEF Good
  <2>2. ASSUME NEW k \in Tty, OpenTty(p, k) PROVE Good
    <3>. DEFINE r == Holding("tty", k)
    <3>1. r \in ProgRec /\ r.kind = "tty" /\ r.e = k /\ r.pc = "user" /\ r.eng = None
      BY OpenRecs DEF Eng
    <3>2. Fits(r)
      BY <3>1 DEF Fits, HoldsEngine, None, Pair
    <3>. QED
      BY <2>1, <2>2, <3>1, <3>2 DEF OpenTty, ptys
  <2>3. CASE Spawn(p) \/ OpenMaster(p)
    <3>1. PICK kind \in {"replica", "master"}, k \in Pair : ptmx' = k /\ ProgTo(p, Holding(kind, k))
      BY <2>3 DEF Spawn, OpenMaster, Unused
    <3>. DEFINE r == Holding(kind, k)
    <3>2. r \in ProgRec /\ r.kind = kind /\ r.e = k /\ r.pc = "user" /\ r.eng = None
      BY OpenRecs DEF Eng
    <3>3. Fits(r)
      BY <3>2 DEF Fits, HoldsEngine, None, Pair
    <3>4. NoMaster
      BY <2>3 DEF Spawn, OpenMaster
    <3>5. ProgsTyped'
      BY <3>1, <3>2, <3>3 DEF ProgsTyped, ProgTo
    <3>6. OneMaster'
      BY <3>1, <3>2, <3>4 DEF ProgsTyped, ProgTo, OneMaster, NoMaster
    <3>. QED
      BY <3>5, <3>6 DEF Good
  <2>4. ASSUME NEW k \in Pair, OpenReplica(p, k) PROVE Good
    <3>. DEFINE r == [Holding("replica", k) EXCEPT !.pc = "open"]
    <3>1. r \in ProgRec /\ r.kind = "replica" /\ r.e = k /\ r.pc = "open" /\ r.eng = None
      BY OpeningRec
    <3>. HIDE DEF r
    <3>2. Fits(r)
      BY <3>1 DEF Fits, HoldsEngine, None, Pair
    <3>3. ProgTo(p, r) /\ ptmx' = ptmx
      BY <2>4 DEF OpenReplica, r, ptys
    <3>. QED
      BY <2>1, <3>1, <3>2, <3>3
  <2>5. CASE GetNumber(p) \/ Activate(p)
    BY <2>5 DEF GetNumber, Activate, ProgsTyped, OneMaster, Good
  <2>6. CASE Read(p)
    <3>. DEFINE r == [old EXCEPT !.pc = "test"]
    <3>1. r \in ProgRec /\ r.kind = old.kind /\ r.e = old.e /\ r.pc = "test" /\ r.eng = old.eng
      BY <2>0, PcTyped DEF ProgPc
    <3>2. Fits(r)
      BY <2>0, <2>6, <3>1 DEF Read, Idle, At, Fits, HoldsEngine, ClosePc
    <3>. QED
      BY <2>1, <2>6, <3>1, <3>2 DEF Read, ptys
  <2>7. CASE WriteTty(p)
    BY <1>1, <2>7 DEF WriteTty, Good
  <2>8. CASE WriteMaster(p)
    BY <2>8, InQueueProgs DEF WriteMaster, ptys, Good
  <2>9. CASE WriteReplica(p)
    <3>. DEFINE e == old.e
                out == pair[e].present /\ Room(outq[e])
                n == IF out \/ ~pair[e].present THEN 1 ELSE 0
                r == [old EXCEPT !.pc = "ask", !.n = n]
                base == IF out THEN Wakeup(e, "waiting") ELSE prog
    <3>1. prog' = [base EXCEPT ![p] = r] /\ ptmx' = ptmx
      BY <2>9 DEF WriteReplica, ptys
    <3>2. n \in Int
      OBVIOUS
    <3>3. r \in ProgRec /\ r.kind = old.kind /\ r.e = old.e /\ r.pc = "ask" /\ r.eng = old.eng
      <4>1. "ask" \in ProgPc
        BY DEF ProgPc
      <4>. HIDE DEF n
      <4>. QED
        BY <2>0, <3>2, <4>1 DEF ProgRec
    <3>4. Fits(r)
      BY <2>0, <2>9, <3>3 DEF WriteReplica, Idle, At, Fits, HoldsEngine, ClosePc
    <3>5. ASSUME NEW q \in Prog
          PROVE  /\ base[q] \in ProgRec /\ base[q].kind = prog[q].kind /\ base[q].e = prog[q].e
                 /\ Fits(base[q])
      <4>1. CASE out
        <5>1. /\ base[q] \in ProgRec /\ base[q].kind = prog[q].kind /\ base[q].e = prog[q].e
              /\ base[q].eng = prog[q].eng
              /\ base[q].pc = prog[q].pc \/ (prog[q].pc = "waiting" /\ base[q].pc = "test")
          <6>1. base[q] = Wakeup(e, "waiting")[q] /\ "waiting" \in ProgPc
            BY <4>1 DEF ProgPc
          <6>. QED
            BY <6>1, WakeupMoves
        <5>. QED
          BY <5>1 DEF ProgsTyped, Fits, HoldsEngine
      <4>2. CASE ~out
        BY <4>2 DEF ProgsTyped
      <4>. QED
        BY <4>1, <4>2
    <3>6. base = [q \in Prog |-> base[q]]
      BY DEF Wakeup, ProgsTyped
    <3>. HIDE DEF base, r
    <3>7. /\ prog' \in [Prog -> ProgRec] /\ prog'[p] = r
          /\ \A q \in Prog : q # p => prog'[q] = base[q]
      BY <3>1, <3>3, <3>5, <3>6
    <3>8. \A q \in Prog : Fits(prog'[q]) /\ prog'[q].kind = prog[q].kind /\ prog'[q].e = prog[q].e
      BY <3>3, <3>4, <3>5, <3>7
    <3>. QED
      BY <3>1, <3>7, <3>8 DEF ProgsTyped, OneMaster, Good
  <2>10. CASE Video(p)
    <3>. DEFINE r == [old EXCEPT !.pc = "vmark"]
    <3>1. r \in ProgRec /\ r.kind = old.kind /\ r.e = old.e /\ r.pc = "vmark" /\ r.eng = old.eng
      BY <2>0, PcTyped DEF ProgPc
    <3>2. Fits(r)
      BY <2>0, <2>10, <3>1 DEF Video, Idle, At, Fits, HoldsEngine, ClosePc
    <3>. QED
      BY <2>1, <2>10, <3>1, <3>2 DEF Video, ptys
  <2>11. CASE Close(p)
    <3>. DEFINE r == [old EXCEPT !.pc = "cask"]
    <3>1. r \in ProgRec /\ r.kind = old.kind /\ r.e = old.e /\ r.pc = "cask" /\ r.eng = old.eng
      BY <2>0, PcTyped DEF ProgPc, ClosePc
    <3>2. old.kind \in {"replica", "master"} => Fits(r)
      BY <2>0, <2>11, <3>1 DEF Close, Idle, At, Fits, HoldsEngine
    <3>3. Gone \in ProgRec /\ Gone.kind = "none" /\ Fits(Gone)
      BY OpenRecs DEF Fits, HoldsEngine, None, Pair
    <3>4. ptmx' = ptmx /\ (ProgTo(p, Gone) \/ (old.kind \in {"replica", "master"} /\ ProgTo(p, r)))
      BY <2>0, <2>11 DEF Close, Idle, ptys, ProgRec
    <3>. QED
      BY <2>1, <3>1, <3>2, <3>3, <3>4
  <2>. QED
    BY <1>4, <2>2, <2>3, <2>4, <2>5, <2>6, <2>7, <2>8, <2>9, <2>10, <2>11 DEF Call
<1>5. ASSUME NEW p \in Prog, Continue(p) PROVE Good
  BY <1>5, ContinueProgs
<1>. QED
  BY <1>1, <1>2, <1>3, <1>4, <1>5, KeyboardKeeps, EmulatorKeeps DEF Next, Carry, ptys

-----------------------------------------------------------------------------
(* Lines.                                                                  *)

Newlines(q) == {i \in DOMAIN q : q[i] = "nl"}

LEMMA NewlinesFinite ==
    ASSUME NEW q \in Seq(Chr)
    PROVE  IsFiniteSet(Newlines(q)) /\ Cardinality(Newlines(q)) \in Nat
<1>1. IsFiniteSet(1 .. Len(q))
  BY FS_Interval
<1>2. Newlines(q) \in SUBSET (1 .. Len(q))
  BY DEF Newlines
<1>. QED
  BY <1>1, <1>2, FS_Subset, FS_CardinalityType

\* A character put in adds a line if it ends one.
LEMMA CountAppend ==
    ASSUME NEW q \in Seq(Chr), NEW c \in Chr
    PROVE  Cardinality(Newlines(Append(q, c))) =
              Cardinality(Newlines(q)) + (IF c = "nl" THEN 1 ELSE 0)
<1>. DEFINE N == Newlines(q)
            n == Len(q) + 1
            a == Append(q, c)
<1>1. /\ a \in Seq(Chr) /\ DOMAIN a = 1 .. n /\ DOMAIN q = 1 .. Len(q) /\ Len(q) \in Nat
      /\ \A i \in DOMAIN q : a[i] = q[i]
      /\ a[n] = c
  OBVIOUS
<1>2. n \notin N
  BY <1>1 DEF Newlines
<1>3. Newlines(a) = IF c = "nl" THEN N \cup {n} ELSE N
  <2>. HIDE DEF a
  <2>. QED
    BY <1>1 DEF Newlines
<1>4. IsFiniteSet(N) /\ Cardinality(N) \in Nat
  BY NewlinesFinite
<1>5. Cardinality(N \cup {n}) = Cardinality(N) + 1
  <2>. HIDE DEF N, n
  <2>. QED
    BY <1>2, <1>4, FS_AddElement
<1>. HIDE DEF N, n, a
<1>6. Cardinality(Newlines(a)) = Cardinality(N) + (IF c = "nl" THEN 1 ELSE 0)
  BY <1>3, <1>4, <1>5
<1>. QED
  BY <1>6 DEF N, n, a

\* A part taken out up to its first newline takes one line, if it got as far.
LEMMA CountCut ==
    ASSUME NEW q \in Seq(Chr), Len(q) < Queue, NEW k \in 1 .. Len(q),
           \A i \in 1 .. k - 1 : q[i] # "nl"
    PROVE  Cardinality(Newlines(SubSeq(q, k + 1, Len(q)))) =
              Cardinality(Newlines(q)) - (IF q[k] = "nl" THEN 1 ELSE 0)
<1>. DEFINE N == Newlines(q)
            s == SubSeq(q, k + 1, Len(q))
            S == Newlines(s)
            f == [i \in N \ {k} |-> i - k]
<1>1. /\ s \in Seq(Chr) /\ Len(s) = Len(q) - k
      /\ \A i \in 1 .. Len(q) - k : s[i] = q[i + k]
  BY CutFits
<1>2. DOMAIN q = 1 .. Len(q) /\ DOMAIN s = 1 .. Len(q) - k /\ Len(q) \in Nat
  BY <1>1
<1>. HIDE DEF s
<1>3. ASSUME NEW i \in N \ {k} PROVE i - k \in S
  <2>1. i \in 1 .. Len(q) /\ q[i] = "nl" /\ i # k /\ ~(i < k)
    BY <1>2 DEF Newlines
  <2>2. i - k \in 1 .. Len(q) - k /\ i - k + k = i
    BY <2>1
  <2>. QED
    BY <1>1, <1>2, <2>1, <2>2 DEF Newlines
<1>4. ASSUME NEW j \in S PROVE j + k \in N \ {k} /\ f[j + k] = j
  <2>1. j \in 1 .. Len(q) - k /\ s[j] = "nl"
    BY <1>2 DEF Newlines
  <2>2. j + k \in 1 .. Len(q) /\ j + k # k /\ q[j + k] = "nl" /\ j + k - k = j
    BY <1>1, <1>2, <2>1
  <2>. QED
    BY <1>2, <2>2 DEF Newlines
<1>5. N \subseteq Int /\ k \in Int
  BY <1>2 DEF Newlines
<1>6. f \in Bijection(N \ {k}, S)
  <2>. HIDE DEF N, S
  <2>1. f \in [N \ {k} -> S]
    BY <1>3
  <2>2. \A a, b \in N \ {k} : f[a] = f[b] => a = b
    BY <1>5
  <2>3. \A j \in S : \E a \in N \ {k} : f[a] = j
    BY <1>4
  <2>. QED
    BY <2>1, <2>2, <2>3 DEF Bijection, Injection, Surjection, IsInjective
<1>7. IsFiniteSet(N) /\ Cardinality(N) \in Nat
  BY NewlinesFinite
<1>8. k \in N <=> q[k] = "nl"
  BY <1>2 DEF Newlines
<1>. HIDE DEF N, S, f
<1>9. /\ IsFiniteSet(N \ {k})
      /\ Cardinality(N \ {k}) = IF k \in N THEN Cardinality(N) - 1 ELSE Cardinality(N)
  BY <1>7, FS_RemoveElement
<1>10. Cardinality(S) = Cardinality(N \ {k})
  BY <1>6, <1>9, FS_Bijection DEF ExistsBijection
<1>11. Cardinality(S) = Cardinality(N) - (IF q[k] = "nl" THEN 1 ELSE 0)
  BY <1>7, <1>8, <1>9, <1>10
<1>. QED
  BY <1>11 DEF N, S, s

LEMMA InQueueLines ==
    ASSUME QueuesTyped, LinesExact, NEW e \in Eng, NEW c \in Chr, ToInQueue(e, c)
    PROVE  LinesExact'
<1>. DEFINE Exact(l, q) == \A x \in Eng : l[x] = Cardinality(Newlines(q[x]))
<1>1. Exact(lines, inq)
  BY DEF LinesExact, Newlines
<1>2. SUFFICES Exact(lines', inq')
  BY DEF LinesExact, Newlines
<1>3. CASE UNCHANGED queues
  BY <1>1, <1>3 DEF queues
<1>4. CASE /\ inq' = [inq EXCEPT ![e] = Append(@, c)]
           /\ lines' = [lines EXCEPT ![e] = IF c = "nl" THEN @ + 1 ELSE @]
  <2>1. Cardinality(Newlines(Append(inq[e], c))) = lines[e] + (IF c = "nl" THEN 1 ELSE 0)
    BY <1>1, CountAppend DEF QueuesTyped
  <2>2. lines'[e] = lines[e] + (IF c = "nl" THEN 1 ELSE 0) /\ inq'[e] = Append(inq[e], c)
    BY <1>4 DEF QueuesTyped
  <2>3. ASSUME NEW x \in Eng, x # e PROVE lines'[x] = lines[x] /\ inq'[x] = inq[x]
    BY <1>4, <2>3 DEF QueuesTyped
  <2>4. ASSUME NEW x \in Eng PROVE lines'[x] = Cardinality(Newlines(inq'[x]))
    <3>1. CASE x = e
      BY <2>1, <2>2, <3>1
    <3>2. CASE x # e
      BY <1>1, <2>3, <3>2
    <3>. QED
      BY <3>1, <3>2
  <2>. QED
    BY <2>4
<1>. QED
  BY <1>3, <1>4 DEF ToInQueue

LEMMA LinesStep ==
    ASSUME Shape, LinesExact, Next
    PROVE  LinesExact'
<1>. USE DEF Shape
<1>1. CASE UNCHANGED <<inq, lines>>
  BY <1>1 DEF LinesExact
<1>2. CASE BridgePut \/ BridgeCopy
  <2>1. tty0 \in Eng /\ bridge.eng \in Eng /\ Char(bridge.ev)[1] \in Chr
    BY <1>2, CharTyped, TtyAssumption
    DEF BridgePut, BridgeCopy, BridgeAt, BridgeTyped, Work, Eng
  <2>. QED
    BY <1>2, <2>1, InQueueLines DEF BridgePut, BridgeCopy
<1>3. CASE \/ BridgeEmpty \/ BridgeWait \/ BridgeTake \/ BridgeAsk \/ BridgeGranted
           \/ BridgeDraw \/ BridgeMark \/ BridgeDone \/ Emulate
  BY <1>1, <1>3 DEF BridgeEmpty, BridgeWait, BridgeTake, BridgeAsk, BridgeGranted, BridgeDraw,
     BridgeMark, BridgeDone, Emulate, EmuDraw, EmuMark, EmuClear, EmuFlush, PopAndDraw, queues
<1>4. ASSUME NEW p \in Prog, Call(p) PROVE LinesExact'
  <2>1. CASE WriteMaster(p)
    <3>1. Mine(p) \in Eng /\ {"x", "nl"} \subseteq Chr
      BY <2>1 DEF WriteMaster, Mine, OneMaster, ProgsTyped, Fits, Eng, Chr
    <3>. QED
      BY <2>1, <3>1, InQueueLines DEF WriteMaster
  <2>. QED
    BY <1>1, <1>4, <2>1 DEF Call, OpenTty, Spawn, OpenReplica, OpenMaster, GetNumber,
       Activate, Read, WriteTty, WriteReplica, Video, Close, queues
<1>5. ASSUME NEW p \in Prog, Continue(p) PROVE LinesExact'
  <2>1. CASE ReadTest(p)
    <3>. DEFINE e == prog[p].e
                q == inq[e]
    <3>1. SUFFICES ASSUME lines[e] > 0, NEW n \in 1 .. Queue - 1, Take(e, n) PROVE LinesExact'
      BY <1>1, <2>1 DEF ReadTest, queues
    <3>. DEFINE k == Line(q, n)
                r == SubSeq(q, k + 1, Len(q))
    <3>2. e \in Eng
      BY <2>1 DEF ReadTest, At, ProgsTyped, Fits, ProgRec, Eng
    <3>3. lines[e] = Cardinality(Newlines(q)) /\ q \in Seq(Chr) /\ lines[e] \in Nat /\ Len(q) < Queue
      BY <3>2 DEF LinesExact, QueuesTyped, Newlines
    <3>4. \E i \in 1 .. Len(q) : q[i] = "nl"
      <4>1. Newlines(q) # {}
        <5>1. Cardinality(Newlines(q)) # 0
          BY <3>1, <3>3
        <5>. HIDE DEF q
        <5>. QED
          BY <5>1, FS_EmptySet
      <4>. QED
        BY <3>3, <4>1 DEF Newlines
    <3>5. k \in 1 .. Len(q) /\ \A i \in 1 .. k - 1 : q[i] # "nl"
      <4>1. n \in Nat \ {0}
        BY TtyAssumption
      <4>. QED
        BY <3>3, <3>4, <4>1, LineBounds
    <3>. HIDE DEF k, q
    <3>6. Cardinality(Newlines(r)) = lines[e] - (IF q[k] = "nl" THEN 1 ELSE 0)
      BY <3>3, <3>5, CountCut
    <3>7. inq' = [inq EXCEPT ![e] = r]
      BY <3>1 DEF Take, k, q
    <3>8. /\ lines'[e] = lines[e] - (IF q[k] = "nl" THEN 1 ELSE 0)
          /\ \A x \in Eng : x # e => lines'[x] = lines[x]
      <4>1. lines' = [lines EXCEPT ![e] = IF q[k] = "nl" /\ @ > 0 THEN @ - 1 ELSE @]
        BY <3>1 DEF Take, k, q
      <4>. QED
        BY <3>1, <3>2, <3>3, <4>1 DEF QueuesTyped
    <3>. HIDE DEF r
    <3>9. ASSUME NEW x \in Eng PROVE lines'[x] = Cardinality(Newlines(inq'[x]))
      <4>1. CASE x = e
        BY <3>2, <3>6, <3>7, <3>8, <4>1 DEF QueuesTyped
      <4>2. CASE x # e
        BY <3>7, <3>8, <4>2 DEF QueuesTyped, LinesExact, Newlines
      <4>. QED
        BY <4>1, <4>2
    <3>. QED
      BY <3>9 DEF LinesExact, Newlines
  <2>2. CASE DestroyFree(p)
    <3>. DEFINE k == Mine(p)
    <3>1. inq' = [inq EXCEPT ![k] = <<>>] /\ lines' = [lines EXCEPT ![k] = 0]
      BY <2>2 DEF DestroyFree
    <3>2. Newlines(<<>>) = {} /\ Cardinality({}) = 0
      BY FS_EmptySet DEF Newlines
    <3>3. ASSUME NEW x \in Eng PROVE lines'[x] = Cardinality(Newlines(inq'[x]))
      <4>1. CASE x = k
        BY <3>1, <3>2, <4>1 DEF QueuesTyped
      <4>2. CASE x # k
        BY <3>1, <4>2 DEF QueuesTyped, LinesExact, Newlines
      <4>. QED
        BY <4>1, <4>2
    <3>. QED
      BY <3>3 DEF LinesExact, Newlines
  <2>. QED
    BY <1>1, <1>5, <2>1, <2>2 DEF Continue, MasterReadTest, WriteAsk, WriteGranted, WriteDraw,
       WriteMark, WriteGive, VideoMark, CloseAsk, CloseGranted, CloseClear, CloseGive, CloseLoad,
       CloseStore, CloseTest, Destroy, OpenLoad, OpenStore, queues
<1>. QED
  BY <1>1, <1>2, <1>3, <1>4, <1>5, KeyboardKeeps DEF Next, Carry, queues

-----------------------------------------------------------------------------
(* The queues.                                                             *)

SafeInv == Shape /\ LinesExact

LEMMA ShapeInit == Init => SafeInv
<1>. SUFFICES ASSUME Init PROVE SafeInv
  OBVIOUS
<1>. USE TtyAssumption DEF Init
<1>1. KeysTyped /\ ScreenTyped
  BY DEF KeysTyped, ScreenTyped
<1>2. BridgeTyped
  BY DEF BridgeTyped, BridgePc, Work, NoEvent, Event
<1>3. QueuesTyped
  BY DEF QueuesTyped
<1>4. PtysTyped
  <2>1. NoPair \in PairRec
    BY DEF NoPair, PairRec
  <2>. QED
    BY <2>1 DEF PtysTyped, Holder
<1>5. ProgsTyped /\ OneMaster
  BY OpenRecs DEF ProgsTyped, Fits, OneMaster, HoldsEngine, None, Pair
<1>7. ActiveKept
  BY DEF ActiveKept, Nobody, Bridge
<1>6. LinesExact
  <2>1. {i \in DOMAIN <<>> : <<>>[i] = "nl"} = {}
    OBVIOUS
  <2>. QED
    BY <2>1, FS_EmptySet DEF LinesExact
<1>. QED
  BY <1>1, <1>2, <1>3, <1>4, <1>5, <1>6, <1>7 DEF SafeInv, Shape

LEMMA ShapeNext == SafeInv /\ [Next]_vars => SafeInv'
<1>. SUFFICES ASSUME SafeInv, [Next]_vars PROVE SafeInv'
  OBVIOUS
<1>1. CASE Next
  BY <1>1, KeysStep, BridgeStep, QueuesStep, ScreenStep, PtysStep, ActiveStep, ProgsStep, LinesStep
  DEF SafeInv, Shape
<1>2. CASE UNCHANGED vars
  <2>. USE <1>2 DEF SafeInv, Shape, vars, keyboard, queues, screen, ptys, locks
  <2>1. KeysTyped' /\ BridgeTyped' /\ QueuesTyped'
    BY DEF KeysTyped, BridgeTyped, QueuesTyped
  <2>2. ScreenTyped' /\ PtysTyped' /\ ProgsTyped'
    BY DEF ScreenTyped, PtysTyped, ProgsTyped
  <2>3. OneMaster' /\ ActiveKept' /\ LinesExact'
    BY DEF OneMaster, ActiveKept, LinesExact
  <2>. QED
    BY <2>1, <2>2, <2>3
<1>. QED
  BY <1>1, <1>2

LEMMA AlwaysSafe == Spec => []SafeInv
BY ShapeInit, ShapeNext, PTL DEF Spec

\* No ring of the keyboard or of a terminal holds more than it has room for,
\* and a terminal counts exactly the lines in its input queue, with any
\* number of terminals and programs and whoever types, writes, reads and
\* closes in whatever order.
THEOREM QueuesStaySafe == Spec => []QueuesSafe
<1>1. SafeInv => QueuesSafe
  BY DEF SafeInv, Shape, QueuesSafe, TypeOK, KeysTyped, BridgeTyped, QueuesTyped, ScreenTyped,
     PtysTyped, ProgsTyped, ProgRec, Holder
<1>. QED
  BY <1>1, AlwaysSafe, PTL

-----------------------------------------------------------------------------
(* Sleepers.  The pair of a master is the one it has open.                 *)

Rests ==
    \A p \in Prog :
        /\ prog[p].pc = "reading" => lines[prog[p].e] = 0
        /\ prog[p].pc = "waiting" => \A i \in DOMAIN outq[prog[p].e] : outq[prog[p].e][i].echo

\* A character put into an input queue wakes its readers; its echo is no news
\* for a master.
LEMMA InQueueRests ==
    ASSUME Shape, Rests, NEW e \in Eng, NEW c \in Chr, ToInQueue(e, c)
    PROVE  Rests'
<1>. USE DEF Shape
<1>1. CASE UNCHANGED <<queues, prog>>
  BY <1>1 DEF Rests, queues
<1>2. CASE /\ lines' = [lines EXCEPT ![e] = IF c = "nl" THEN @ + 1 ELSE @]
           /\ outq' = [outq EXCEPT ![e] = IF Room(@) THEN Append(@, Echo(c)) ELSE @]
           /\ prog' = Wakeup(e, "reading")
  <2>. SUFFICES ASSUME NEW p \in Prog
                PROVE  /\ prog'[p].pc = "reading" => lines'[prog'[p].e] = 0
                       /\ prog'[p].pc = "waiting" =>
                             \A i \in DOMAIN outq'[prog'[p].e] : outq'[prog'[p].e][i].echo
    BY DEF Rests
  <2>1. /\ prog'[p].e = prog[p].e /\ prog[p] \in ProgRec /\ Fits(prog[p])
        /\ prog'[p].pc = IF prog[p].pc = "reading" /\ prog[p].e = e THEN "test" ELSE prog[p].pc
    <3>1. prog'[p] = Wakeup(e, "reading")[p] /\ "reading" \in ProgPc
      BY <1>2 DEF ProgPc
    <3>. QED
      BY <3>1, WakeupMoves DEF ProgsTyped
  <2>2. prog'[p].pc = "reading" => lines'[prog'[p].e] = 0
    BY <1>2, <2>1 DEF Rests, QueuesTyped
  <2>3. ASSUME prog'[p].pc = "waiting", NEW i \in DOMAIN outq'[prog[p].e]
        PROVE  outq'[prog[p].e][i].echo
    <3>. DEFINE q == outq[prog[p].e]
    <3>1. prog[p].pc = "waiting" /\ prog[p].e \in Eng /\ q \in Seq(Out)
      BY <2>1, <2>3 DEF Fits, Eng, QueuesTyped
    <3>2. \A j \in DOMAIN q : q[j].echo
      BY <3>1 DEF Rests
    <3>3. CASE outq'[prog[p].e] = q
      BY <2>3, <3>2, <3>3
    <3>4. CASE outq'[prog[p].e] = Append(q, Echo(c))
      <4>1. Echo(c).echo
        BY DEF Echo
      <4>. HIDE DEF q
      <4>2. i \in DOMAIN q \/ Append(q, Echo(c))[i] = Echo(c)
        BY <2>3, <3>1, <3>4
      <4>3. i \in DOMAIN q => Append(q, Echo(c))[i] = q[i]
        BY <3>1
      <4>. QED
        BY <3>2, <3>4, <4>1, <4>2, <4>3
    <3>. QED
      BY <1>2, <3>1, <3>3, <3>4 DEF QueuesTyped
  <2>. QED
    BY <2>1, <2>2, <2>3
<1>. QED
  BY <1>1, <1>2 DEF ToInQueue

\* A program that does not go to sleep, and nothing put into a queue.
LEMMA MoveRests ==
    ASSUME Shape, Rests, NEW p \in Prog, NEW r, ProgTo(p, r), r.pc \notin {"reading", "waiting"},
           UNCHANGED queues
    PROVE  Rests'
BY DEF Shape, ProgsTyped, ProgTo, Rests, queues

LEMMA CallRests ==
    ASSUME Shape, Rests, NEW p \in Prog, Call(p)
    PROVE  Rests'
<1>. USE DEF Shape
<1>1. CASE GetNumber(p) \/ Activate(p)
  BY <1>1 DEF GetNumber, Activate, Rests, queues
<1>2. CASE (\E k \in Tty : OpenTty(p, k)) \/ Spawn(p) \/ OpenMaster(p)
  <2>1. PICK kind \in {"tty", "replica", "master"}, k \in Eng : ProgTo(p, Holding(kind, k))
    BY <1>2 DEF OpenTty, Spawn, OpenMaster, Unused, Eng
  <2>2. UNCHANGED queues
    BY <1>2 DEF OpenTty, Spawn, OpenMaster
  <2>. QED
    BY <2>1, <2>2, OpenRecs, MoveRests
<1>3. CASE Read(p) \/ Video(p) \/ Close(p)
  <2>1. UNCHANGED queues
    BY <1>3 DEF Read, Video, Close
  <2>2. PICK r : ProgTo(p, r) /\ r.pc \in {"test", "vmark", "gone", "cask"}
    BY <1>3, OpenRecs DEF Read, Video, Close, ProgsTyped, ProgRec
  <2>. QED
    BY <2>1, <2>2, MoveRests
<1>4. CASE WriteTty(p)
  <2>1. prog[p].e \in Tty /\ UNCHANGED <<lines, prog>>
    BY <1>4 DEF WriteTty, ProgsTyped, Fits
  <2>2. ASSUME NEW q \in Prog, prog[q].pc = "waiting" PROVE outq'[prog[q].e] = outq[prog[q].e]
    <3>1. prog[q].e \in Pair
      BY <2>2 DEF ProgsTyped, Fits
    <3>2. prog[q].e # prog[p].e /\ prog[q].e \in Eng
      BY <2>1, <3>1, TtyAssumption DEF Eng
    <3>. QED
      BY <1>4, <3>2 DEF WriteTty, QueuesTyped
  <2>. QED
    BY <2>1, <2>2 DEF Rests
<1>5. CASE WriteMaster(p)
  <2>1. Mine(p) \in Eng /\ {"x", "nl"} \subseteq Chr
    BY <1>5 DEF WriteMaster, Mine, OneMaster, ProgsTyped, Fits, Eng, Chr
  <2>. QED
    BY <1>5, <2>1, InQueueRests DEF WriteMaster
<1>6. CASE WriteReplica(p)
  <2>. DEFINE e == prog[p].e
              out == pair[e].present /\ Room(outq[e])
              n == IF out \/ ~pair[e].present THEN 1 ELSE 0
              base == IF out THEN Wakeup(e, "waiting") ELSE prog
              r == [prog[p] EXCEPT !.pc = "ask", !.n = n]
  <2>1. /\ prog' = [base EXCEPT ![p] = r] /\ lines' = lines
        /\ outq' = IF out THEN [outq EXCEPT ![e] = Append(@, Data("x"))] ELSE outq
    BY <1>6 DEF WriteReplica
  <2>2. r.pc = "ask"
    BY DEF ProgsTyped, ProgRec
  <2>3. base = [q \in Prog |-> base[q]]
    BY DEF Wakeup, ProgsTyped
  <2>4. ASSUME NEW q \in Prog
        PROVE  /\ prog'[q].pc = "reading" => prog[q].pc = "reading" /\ prog'[q].e = prog[q].e
               /\ prog'[q].pc = "waiting" =>
                     /\ prog[q].pc = "waiting" /\ prog'[q].e = prog[q].e
                     /\ out => prog[q].e # e
    <3>1. CASE q = p
      <4>. HIDE DEF base, r
      <4>. QED
        BY <2>1, <2>2, <2>3, <3>1
    <3>2. CASE q # p
      <4>1. prog'[q] = base[q]
        <5>. HIDE DEF base, r
        <5>. QED
          BY <2>1, <2>3, <3>2
      <4>2. CASE out
        <5>1. prog'[q] = Wakeup(e, "waiting")[q] /\ "waiting" \in ProgPc
          BY <4>1, <4>2 DEF ProgPc
        <5>2. /\ prog'[q].e = prog[q].e
              /\ prog'[q].pc = IF prog[q].pc = "waiting" /\ prog[q].e = e THEN "test" ELSE prog[q].pc
          <6>. HIDE DEF e
          <6>. QED
            BY <5>1, WakeupMoves
        <5>. QED
          BY <5>2
      <4>3. CASE ~out
        BY <4>1, <4>3
      <4>. QED
        BY <4>2, <4>3
    <3>. QED
      BY <3>1, <3>2
  <2>. HIDE DEF out, e
  <2>5. ASSUME NEW q \in Prog, prog'[q].pc = "waiting" PROVE outq'[prog[q].e] = outq[prog[q].e]
    BY <2>1, <2>4, <2>5 DEF QueuesTyped
  <2>. QED
    BY <2>1, <2>4, <2>5 DEF Rests
<1>7. ASSUME NEW k \in Pair, OpenReplica(p, k) PROVE Rests'
  BY <1>7, OpeningRec, MoveRests DEF OpenReplica
<1>. QED
  BY <1>1, <1>2, <1>3, <1>4, <1>5, <1>6, <1>7 DEF Call

LEMMA ContinueRests ==
    ASSUME Shape, LinesExact, Rests, NEW p \in Prog, Continue(p)
    PROVE  Rests'
<1>. USE DEF Shape
<1>0. prog[p] \in ProgRec /\ Fits(prog[p])
  BY DEF ProgsTyped
<1>1. CASE ReadTest(p)
  <2>. DEFINE e == prog[p].e
  <2>1. CASE lines[e] = 0 /\ ProgTo(p, [prog[p] EXCEPT !.pc = "reading"]) /\ UNCHANGED queues
    <3>1. /\ [prog[p] EXCEPT !.pc = "reading"].pc = "reading"
          /\ [prog[p] EXCEPT !.pc = "reading"].e = e
      BY <1>0 DEF ProgRec
    <3>. QED
      BY <2>1, <3>1 DEF ProgsTyped, ProgTo, Rests, queues
  <2>2. ASSUME lines[e] > 0, ProgTo(p, [prog[p] EXCEPT !.pc = "user"]),
               NEW n \in 1 .. Queue - 1, Take(e, n)
        PROVE  Rests'
    <3>1. [prog[p] EXCEPT !.pc = "user"].pc = "user"
      BY <1>0 DEF ProgRec
    <3>2. outq' = outq /\ \A x \in Eng : lines[x] = 0 => lines'[x] = 0
      BY <2>2 DEF Take, QueuesTyped
    <3>3. ASSUME NEW q \in Prog, prog[q].pc = "reading" PROVE prog[q].e \in Eng
      BY <3>3 DEF ProgsTyped, Fits, ProgRec, Eng
    <3>. QED
      BY <2>2, <3>1, <3>2, <3>3 DEF ProgsTyped, ProgTo, Rests
  <2>. QED
    BY <1>1, <2>1, <2>2 DEF ReadTest
<1>2. CASE MasterReadTest(p)
  <2>. DEFINE e == prog[p].e
  <2>1. Mine(p) = e /\ e \in Eng /\ outq[e] \in Seq(Out) /\ lines' = lines
    BY <1>0, <1>2, MineIsOwn DEF MasterReadTest, Fits, Eng, QueuesTyped
  <2>2. CASE outq[e] = <<>> /\ ProgTo(p, [prog[p] EXCEPT !.pc = "waiting"]) /\ outq' = outq
    <3>1. /\ [prog[p] EXCEPT !.pc = "waiting"].pc = "waiting"
          /\ [prog[p] EXCEPT !.pc = "waiting"].e = e
      BY <1>0 DEF ProgRec
    <3>. QED
      BY <2>1, <2>2, <3>1 DEF ProgsTyped, ProgTo, Rests
  <2>3. ASSUME ProgTo(p, [prog[p] EXCEPT !.pc = "user"]), NEW n \in 1 .. Len(outq[e]),
               outq' = [outq EXCEPT ![e] = SubSeq(@, n + 1, Len(@))]
        PROVE  Rests'
    <3>1. [prog[p] EXCEPT !.pc = "user"].pc = "user"
      BY <1>0 DEF ProgRec
    <3>2. ASSUME NEW q \in Prog, prog[q].pc = "waiting", q # p
          PROVE  outq'[prog[q].e] = outq[prog[q].e]
      <4>1. prog[q].kind = "master" /\ prog[p].kind = "master"
        BY <1>2, <3>2 DEF MasterReadTest, ProgsTyped, Fits
      <4>. QED
        BY <3>2, <4>1 DEF OneMaster
    <3>. QED
      BY <2>1, <2>3, <3>1, <3>2 DEF ProgsTyped, ProgTo, Rests
  <2>. QED
    BY <1>2, <2>1, <2>2, <2>3 DEF MasterReadTest
<1>3. CASE DestroyFree(p)
  <2>. DEFINE k == Mine(p)
  <2>1. /\ lines' = [lines EXCEPT ![k] = 0] /\ outq' = [outq EXCEPT ![k] = <<>>]
        /\ ProgTo(p, Gone)
    BY <1>3 DEF DestroyFree
  <2>2. ASSUME NEW q \in Prog, prog'[q].pc \in {"reading", "waiting"}
        PROVE  prog'[q] = prog[q] /\ prog[q].e \in Eng
    BY <2>1, <2>2, OpenRecs DEF ProgsTyped, ProgTo, Fits, ProgRec, Eng
  <2>3. \A x \in Eng : lines[x] = 0 => lines'[x] = 0
    BY <2>1 DEF QueuesTyped
  <2>4. \A x \in Eng : outq'[x] = outq[x] \/ outq'[x] = <<>>
    BY <2>1 DEF QueuesTyped
  <2>. QED
    BY <2>2, <2>3, <2>4 DEF Rests
<1>4. CASE \/ WriteAsk(p) \/ WriteGranted(p) \/ WriteDraw(p) \/ WriteMark(p) \/ WriteGive(p)
           \/ VideoMark(p)
  <2>1. UNCHANGED queues
    BY <1>4 DEF WriteAsk, WriteGranted, WriteDraw, WriteMark, WriteGive, VideoMark
  <2>2. ASSUME NEW c PROVE /\ [prog[p] EXCEPT !.pc = c].pc = c
                           /\ [prog[p] EXCEPT !.pc = c, !.n = 0].pc = c
                           /\ [prog[p] EXCEPT !.pc = c, !.eng = active].pc = c
                           /\ [prog[p] EXCEPT !.pc = c, !.n = 0, !.eng = None].pc = c
    BY <1>0 DEF ProgRec
  <2>3. CASE WriteAsk(p)
    BY <2>1, <2>2, <2>3, MoveRests DEF WriteAsk
  <2>4. CASE WriteGranted(p)
    BY <2>1, <2>2, <2>4, MoveRests DEF WriteGranted
  <2>5. CASE WriteDraw(p) \/ WriteMark(p) \/ WriteGive(p) \/ VideoMark(p)
    BY <2>1, <2>2, <2>5, MoveRests DEF WriteDraw, WriteMark, WriteGive, VideoMark
  <2>. QED
    BY <1>4, <2>3, <2>4, <2>5
<1>5. CASE \/ CloseAsk(p) \/ CloseGranted(p) \/ CloseClear(p) \/ CloseGive(p) \/ CloseTest(p)
           \/ Destroy(p)
  <2>1. UNCHANGED queues
    BY <1>5 DEF CloseAsk, CloseGranted, CloseClear, CloseGive, CloseTest, Destroy
  <2>2. ASSUME NEW c, NEW g PROVE /\ [prog[p] EXCEPT !.pc = c].pc = c
                                  /\ [prog[p] EXCEPT !.pc = c, !.eng = g].pc = c
    BY <1>0 DEF ProgRec
  <2>3. CASE CloseAsk(p) \/ CloseClear(p) \/ CloseGive(p) \/ Destroy(p)
    BY <2>1, <2>2, <2>3, MoveRests DEF CloseAsk, CloseClear, CloseGive, Destroy
  <2>4. CASE CloseGranted(p)
    BY <2>1, <2>2, <2>4, MoveRests DEF CloseGranted
  <2>5. CASE CloseTest(p)
    BY <2>1, <2>2, <2>5, MoveRests, OpenRecs DEF CloseTest
  <2>. QED
    BY <1>5, <2>3, <2>4, <2>5
<1>6. CASE OpenLoad(p) \/ OpenStore(p) \/ CloseLoad(p) \/ CloseStore(p)
  <2>1. UNCHANGED queues
    BY <1>6 DEF OpenLoad, OpenStore, CloseLoad, CloseStore
  <2>2. ASSUME NEW c, NEW n PROVE [prog[p] EXCEPT !.pc = c, !.n = n].pc = c
    BY <1>0 DEF ProgRec
  <2>4. PICK c \in {"counting", "user", "cput", "ctest"} :
           \E n : ProgTo(p, [prog[p] EXCEPT !.pc = c, !.n = n])
    BY <1>6, Zenon DEF OpenLoad, OpenStore, CloseLoad, CloseStore
  <2>3. PICK n : ProgTo(p, [prog[p] EXCEPT !.pc = c, !.n = n])
    BY <2>4, Zenon
  <2>. QED
    BY <2>1, <2>2, <2>3, MoveRests
<1>. QED
  BY <1>1, <1>2, <1>3, <1>4, <1>5, <1>6 DEF Continue

LEMMA RestsStep ==
    ASSUME Shape, LinesExact, Rests, Next
    PROVE  Rests'
<1>. USE DEF Shape
<1>1. CASE UNCHANGED <<queues, prog>>
  BY <1>1 DEF Rests, queues
<1>2. CASE BridgePut \/ BridgeCopy
  <2>1. tty0 \in Eng /\ bridge.eng \in Eng /\ Char(bridge.ev)[1] \in Chr
    BY <1>2, CharTyped, TtyAssumption
    DEF BridgePut, BridgeCopy, BridgeAt, BridgeTyped, Work, Eng
  <2>. QED
    BY <1>2, <2>1, InQueueRests DEF BridgePut, BridgeCopy
<1>3. ASSUME NEW e, PopAndDraw(e), prog' = prog PROVE Rests'
  <2>1. ASSUME NEW x \in Eng, \A i \in DOMAIN outq[x] : outq[x][i].echo,
               NEW j \in DOMAIN outq'[x]
        PROVE  outq'[x][j].echo
    <3>1. outq[x] \in Seq(Out)
      BY DEF QueuesTyped
    <3>2. CASE outq'[x] = outq[x]
      BY <2>1, <3>2
    <3>3. CASE outq[x] # <<>> /\ outq'[x] = Tail(outq[x])
      <4>1. j + 1 \in DOMAIN outq[x] /\ outq'[x][j] = outq[x][j + 1]
        BY <2>1, <3>1, <3>3
      <4>. QED
        BY <2>1, <4>1
    <3>. QED
      BY <1>3, <3>2, <3>3 DEF PopAndDraw, QueuesTyped
  <2>2. ASSUME NEW q \in Prog, prog[q].pc = "waiting" PROVE prog[q].e \in Eng
    BY <2>2 DEF ProgsTyped, Fits, Eng
  <2>. QED
    BY <1>3, <2>1, <2>2 DEF PopAndDraw, Rests
<1>4. CASE BridgeDraw \/ \E k \in Tty : EmuDraw(k)
  BY <1>3, <1>4 DEF BridgeDraw, EmuDraw, Still
<1>5. CASE \/ BridgeEmpty \/ BridgeWait \/ BridgeTake \/ BridgeAsk \/ BridgeGranted
           \/ BridgeMark \/ BridgeDone \/ EmuMark \/ EmuClear \/ EmuFlush
  BY <1>1, <1>5 DEF BridgeEmpty, BridgeWait, BridgeTake, BridgeAsk, BridgeGranted, BridgeMark,
     BridgeDone, EmuMark, EmuClear, EmuFlush, Still
<1>. QED
  BY <1>1, <1>2, <1>4, <1>5, CallRests, ContinueRests, KeyboardKeeps DEF Next, Carry, Emulate

\* No reader sleeps while its terminal has a line, and no master while there
\* is something written for it, however many readers share a terminal and
\* whoever closes, types or draws between their test and their sleep.
THEOREM SleepersAreAttended == Spec => []Attended
<1>1. Init => Rests
  BY DEF Init, Rests, Away
<1>2. SafeInv /\ Rests /\ [Next]_vars => Rests'
  <2>. SUFFICES ASSUME SafeInv, Rests, [Next]_vars PROVE Rests'
    OBVIOUS
  <2>1. CASE UNCHANGED vars
    BY <2>1 DEF vars, queues, Rests
  <2>. QED
    BY <2>1, RestsStep DEF SafeInv
<1>3. SafeInv /\ Rests => Attended
  BY MineIsOwn DEF SafeInv, Rests, Attended, At
<1>. QED
  BY <1>1, <1>2, <1>3, AlwaysSafe, PTL DEF Spec

-----------------------------------------------------------------------------
(* The screen.                                                             *)

\* Nothing is drawn, and whoever is about to set a flag still is.
LEMMA QuietAnnounced ==
    ASSUME Announced, UNCHANGED <<dirty, drawn, emu>>,
           bridge.pc = "mark" => bridge' = bridge,
           \A q \in Prog : prog[q].pc \in {"mark", "vmark"} =>
               prog'[q].pc = prog[q].pc /\ prog'[q].e = prog[q].e
    PROVE  Announced'
<1>. SUFFICES ASSUME NEW k \in Tty, drawn'[k]
              PROVE  \/ dirty'[k]
                     \/ bridge'.pc = "mark" /\ Shown' = k
                     \/ emu'.pc \in {"mark", "flush"} /\ emu'.tty = k
                     \/ \E p \in Prog : \/ prog'[p].pc = "mark" /\ k = tty0
                                        \/ prog'[p].pc = "vmark" /\ prog'[p].e = k
  BY DEF Announced, BridgeAt, At
<1>1. \/ dirty[k]
      \/ bridge.pc = "mark" /\ Shown = k
      \/ emu.pc \in {"mark", "flush"} /\ emu.tty = k
      \/ \E p \in Prog : \/ prog[p].pc = "mark" /\ k = tty0
                         \/ prog[p].pc = "vmark" /\ prog[p].e = k
  BY DEF Announced, BridgeAt, At
<1>2. bridge.pc = "mark" => bridge'.pc = "mark" /\ Shown' = Shown
  BY DEF Shown
<1>. QED
  BY <1>1, <1>2

LEMMA WakeupQuiet ==
    ASSUME ProgsTyped, NEW e, NEW pc \in {"reading", "waiting"}, NEW q \in Prog,
           prog[q].pc \in {"mark", "vmark"}
    PROVE  Wakeup(e, pc)[q].pc = prog[q].pc /\ Wakeup(e, pc)[q].e = prog[q].e
BY DEF Wakeup

LEMMA DrawAnnounced ==
    ASSUME Shape, Announced, BridgeDraw \/ BridgeMark \/ Emulate
    PROVE  Announced'
<1>. USE DEF Shape, ScreenTyped, Announced, At
<1>1. CASE BridgeDraw
  <2>1. bridge'.pc = "mark" /\ Shown' = Shown
    BY <1>1 DEF BridgeDraw, BridgeTo, BridgeTyped, Shown
  <2>. QED
    BY <1>1, <2>1 DEF BridgeDraw, BridgeAt, PopAndDraw
<1>2. CASE BridgeMark
  BY <1>2 DEF BridgeMark, BridgeAt, Mark
<1>3. CASE Emulate
  <2>1. bridge' = bridge /\ prog' = prog /\ Shown' = Shown
    BY <1>3, EmulatorKeeps DEF Shown
  <2>2. ASSUME NEW k \in Tty, EmuDraw(k) PROVE Announced'
    <3>1. emu'.pc = "mark" /\ emu'.tty = k
      BY <2>2 DEF EmuDraw
    <3>. QED
      BY <2>1, <2>2, <3>1 DEF EmuDraw, PopAndDraw, BridgeAt
  <2>3. CASE EmuMark
    BY <2>1, <2>3 DEF EmuMark, Mark, BridgeAt
  <2>4. CASE EmuClear
    <3>1. emu'.pc = "flush" /\ emu'.tty = focus
      BY <2>4 DEF EmuClear
    <3>. QED
      BY <2>1, <2>4, <3>1 DEF EmuClear, BridgeAt
  <2>5. CASE EmuFlush
    BY <2>1, <2>5 DEF EmuFlush, BridgeAt
  <2>. QED
    BY <1>3, <2>2, <2>3, <2>4, <2>5 DEF Emulate
<1>. QED
  BY <1>1, <1>2, <1>3

LEMMA CallAnnounced ==
    ASSUME Shape, Announced, NEW p \in Prog, Call(p)
    PROVE  Announced'
<1>. USE DEF Shape
<1>0. UNCHANGED <<bridge, emu>> /\ prog \in [Prog -> ProgRec]
  BY ProgramsKeepKeys DEF ProgsTyped
<1>1. CASE Video(p)
  <2>. DEFINE r == [prog[p] EXCEPT !.pc = "vmark"]
  <2>1. r.pc = "vmark" /\ r.e = prog[p].e /\ prog[p].pc = "user"
    BY <1>0, <1>1 DEF Video, Idle, At, ProgRec
  <2>2. prog' = [prog EXCEPT ![p] = r]
    BY <1>1 DEF Video, ProgTo
  <2>. HIDE DEF r
  <2>3. /\ prog'[p].pc = "vmark" /\ prog'[p].e = prog[p].e
        /\ \A q \in Prog : q # p => prog'[q] = prog[q]
    BY <1>0, <2>1, <2>2
  <2>4. Shown' = Shown
    BY <1>0 DEF Shown
  <2>. QED
    BY <1>0, <1>1, <2>1, <2>3, <2>4 DEF Announced, Video, At, BridgeAt, ScreenTyped
<1>2. ASSUME UNCHANGED <<dirty, drawn>>, prog[p].pc = "user",
             \A q \in Prog : q # p /\ prog[q].pc \in {"mark", "vmark"} =>
                 prog'[q].pc = prog[q].pc /\ prog'[q].e = prog[q].e
      PROVE  Announced'
  BY <1>0, <1>2, QuietAnnounced
<1>3. CASE GetNumber(p) \/ Activate(p) \/ WriteTty(p)
  BY <1>2, <1>3 DEF GetNumber, Activate, WriteTty, Idle, At, screen
<1>4. CASE \/ (\E k \in Tty : OpenTty(p, k)) \/ Spawn(p) \/ (\E k \in Pair : OpenReplica(p, k))
           \/ OpenMaster(p) \/ Read(p) \/ Close(p)
  <2>1. prog[p].pc = "user" /\ UNCHANGED <<dirty, drawn>>
    BY <1>4, OpenRecs DEF OpenTty, Spawn, OpenReplica, OpenMaster, Read, Close, Idle, At, screen
  <2>2. \E r : ProgTo(p, r)
    BY <1>4 DEF OpenTty, Spawn, OpenReplica, OpenMaster, Read, Close
  <2>. QED
    BY <1>0, <1>2, <2>1, <2>2 DEF ProgTo
<1>5. CASE WriteMaster(p)
  <2>1. prog[p].pc = "user" /\ UNCHANGED <<dirty, drawn>>
    BY <1>5 DEF WriteMaster, Idle, At, screen
  <2>2. prog' = prog \/ \E e : prog' = Wakeup(e, "reading")
    BY <1>5 DEF WriteMaster, ToInQueue
  <2>. QED
    BY <1>2, <2>1, <2>2, WakeupQuiet
<1>6. CASE WriteReplica(p)
  <2>1. prog[p].pc = "user" /\ UNCHANGED <<dirty, drawn>>
    BY <1>6 DEF WriteReplica, Idle, At, screen
  <2>2. \E r, e : \/ prog' = [Wakeup(e, "waiting") EXCEPT ![p] = r]
                  \/ prog' = [prog EXCEPT ![p] = r]
    BY <1>6 DEF WriteReplica
  <2>3. \A e : Wakeup(e, "waiting") = [q \in Prog |-> Wakeup(e, "waiting")[q]]
    BY DEF Wakeup
  <2>4. ASSUME NEW q \in Prog, q # p PROVE prog'[q] = prog[q] \/ \E e : prog'[q] = Wakeup(e, "waiting")[q]
    BY <1>0, <2>2, <2>3, <2>4
  <2>. QED
    BY <1>2, <2>1, <2>4, WakeupQuiet
<1>. QED
  BY <1>1, <1>3, <1>4, <1>5, <1>6 DEF Call

LEMMA ContinueAnnounced ==
    ASSUME Shape, Announced, NEW p \in Prog, Continue(p)
    PROVE  Announced'
<1>. USE DEF Shape
<1>0. UNCHANGED <<bridge, emu>> /\ prog \in [Prog -> ProgRec] /\ Shown' = Shown
  BY ProgramsKeepKeys DEF ProgsTyped, Shown
<1>1. PICK r \in ProgRec : ProgTo(p, r)
  BY ContinueMoves
<1>2. prog'[p] = r /\ \A q \in Prog : q # p => prog'[q] = prog[q]
  BY <1>0, <1>1 DEF ProgTo
<1>3. CASE WriteDraw(p)
  <2>1. r.pc = "mark" /\ prog[p].pc = "draw"
    BY <1>0, <1>2, <1>3 DEF WriteDraw, ProgTo, At, ProgRec
  <2>. QED
    BY <1>0, <1>2, <1>3, <2>1, TtyAssumption DEF Announced, WriteDraw, At, BridgeAt, ScreenTyped
<1>4. CASE WriteMark(p)
  BY <1>0, <1>2, <1>4, TtyAssumption DEF Announced, WriteMark, Mark, At, BridgeAt, ScreenTyped
<1>5. CASE VideoMark(p)
  BY <1>0, <1>2, <1>5 DEF Announced, VideoMark, Mark, At, BridgeAt, ScreenTyped
<1>6. CASE prog[p].pc \notin {"mark", "vmark"} /\ UNCHANGED <<dirty, drawn>>
  BY <1>0, <1>2, <1>6, QuietAnnounced
<1>. QED
  BY <1>3, <1>4, <1>5, <1>6 DEF Continue, ReadTest, MasterReadTest, WriteAsk, WriteGranted,
     WriteGive, CloseAsk, CloseGranted, CloseClear, CloseGive, CloseLoad, CloseStore, CloseTest,
     Destroy, DestroyFree, OpenLoad, OpenStore, At, screen

\* What a key, a program or a picture has drawn and is not on the screen yet
\* is always announced by a flag, or about to be: no order of the bridge, the
\* emulator and any number of writers on any number of terminals loses it.
THEOREM DrawingsAreAnnounced == Spec => []Announced
<1>1. Init => Announced
  BY DEF Init, Announced
<1>2. SafeInv /\ Announced /\ [Next]_vars => Announced'
  <2>. SUFFICES ASSUME SafeInv, Announced, [Next]_vars PROVE Announced'
    OBVIOUS
  <2>. USE DEF SafeInv, Shape
  <2>1. CASE UNCHANGED vars
    BY <2>1, QuietAnnounced DEF vars, screen
  <2>2. ASSUME NEW k, Press(k) \/ Release(k) PROVE Announced'
    BY <2>2, KeyboardKeeps, QuietAnnounced DEF screen
  <2>3. CASE BridgePut \/ BridgeCopy
    <3>1. prog' = prog \/ \E e : prog' = Wakeup(e, "reading")
      BY <2>3 DEF BridgePut, BridgeCopy, ToInQueue
    <3>2. bridge.pc # "mark" /\ UNCHANGED <<dirty, drawn, emu>>
      BY <2>3 DEF BridgePut, BridgeCopy, BridgeAt, screen
    <3>. QED
      BY <3>1, <3>2, QuietAnnounced, WakeupQuiet
  <2>4. CASE \/ BridgeEmpty \/ BridgeWait \/ BridgeTake \/ BridgeAsk \/ BridgeGranted
             \/ BridgeDone
    BY <2>4, QuietAnnounced DEF BridgeEmpty, BridgeWait, BridgeTake, BridgeAsk, BridgeGranted,
       BridgeDone, BridgeAt, screen
  <2>. QED
    BY <2>1, <2>2, <2>3, <2>4, DrawAnnounced, CallAnnounced, ContinueAnnounced DEF Next, Carry
<1>. QED
  BY <1>1, <1>2, AlwaysSafe, PTL DEF Spec

-----------------------------------------------------------------------------
(* The keys.  The driver's copy of the shift key is the key itself, also     *)
(* after the events of its presses and releases did not fit into the ring.   *)

MeantBy(w) == [i \in DOMAIN w |-> Char(w[i])]
KeyInv == SafeInv /\ (mods.shift <=> "shift" \in down) /\ KeysInOrder

\* The events that wait, one by one.
LEMMA WaitingIs ==
    ASSUME Shape
    PROVE  /\ Waiting \in Seq(Event)
           /\ bridge.pc \in {"ask", "granted", "put"} => Waiting = <<bridge.ev>> \o kring
           /\ bridge.pc \notin {"ask", "granted", "put"} => Waiting = kring
<1>1. kring \in Seq(Event) /\ bridge.ev \in Event
  BY DEF Shape, KeysTyped, BridgeTyped
<1>. QED
  BY <1>1 DEF Waiting

\* An event joins those that wait.
LEMMA LastMeant ==
    ASSUME NEW w \in Seq(Event), NEW d, d = MeantBy(w), NEW v \in Event
    PROVE  Append(d, Char(v)) = MeantBy(Append(w, v))
<1>0. d = [i \in DOMAIN w |-> Char(w[i])]
  BY DEF MeantBy
<1>1. /\ DOMAIN w = 1 .. Len(w) /\ Len(w) \in Nat /\ DOMAIN Append(w, v) = 1 .. Len(w) + 1
      /\ \A i \in 1 .. Len(w) : Append(w, v)[i] = w[i]
      /\ Append(w, v)[Len(w) + 1] = v
  OBVIOUS
<1>2. PICK C : C = {Char(w[i]) : i \in 1 .. Len(w)} \cup {Char(v)}
  OBVIOUS
<1>3. d \in [1 .. Len(w) -> C]
  BY <1>0, <1>1, <1>2
<1>4. d \in Seq(C) /\ Len(d) = Len(w) /\ Char(v) \in C
  BY <1>1, <1>2, <1>3
<1>5. /\ Append(d, Char(v)) \in Seq(C) /\ DOMAIN Append(d, Char(v)) = 1 .. Len(w) + 1
      /\ \A i \in 1 .. Len(w) : Append(d, Char(v))[i] = d[i]
      /\ Append(d, Char(v))[Len(w) + 1] = Char(v)
  BY <1>4
<1>6. ASSUME NEW i \in 1 .. Len(w) + 1 PROVE Append(d, Char(v))[i] = Char(Append(w, v)[i])
  BY <1>0, <1>1, <1>5
<1>7. PICK a : a = Append(d, Char(v))
  OBVIOUS
<1>8. a = [i \in 1 .. Len(w) + 1 |-> a[i]]
  <2>1. a \in Seq(C) /\ DOMAIN a = 1 .. Len(w) + 1
    BY <1>5, <1>7
  <2>2. a \in [1 .. Len(a) -> C] /\ DOMAIN a = 1 .. Len(a)
    BY <2>1
  <2>. QED
    BY <2>1, <2>2
<1>9. a = [i \in 1 .. Len(w) + 1 |-> Char(Append(w, v)[i])]
  BY <1>6, <1>7, <1>8
<1>. QED
  BY <1>1, <1>7, <1>9 DEF MeantBy

\* The first of them is done with.
LEMMA FirstMeant ==
    ASSUME NEW w \in Seq(Event), w # <<>>, NEW d, d = MeantBy(w)
    PROVE  Tail(d) = MeantBy(Tail(w))
<1>0. d = [i \in DOMAIN w |-> Char(w[i])]
  BY DEF MeantBy
<1>1. /\ DOMAIN w = 1 .. Len(w) /\ Len(w) \in Nat /\ Len(w) > 0 /\ DOMAIN Tail(w) = 1 .. Len(w) - 1
      /\ \A i \in 1 .. Len(w) - 1 : Tail(w)[i] = w[i + 1]
  OBVIOUS
<1>2. PICK C : C = {Char(w[i]) : i \in 1 .. Len(w)}
  OBVIOUS
<1>3. d \in [1 .. Len(w) -> C]
  BY <1>0, <1>1, <1>2
<1>4. d \in Seq(C) /\ Len(d) = Len(w) /\ d # <<>>
  BY <1>1, <1>2, <1>3
<1>5. /\ Tail(d) \in Seq(C) /\ DOMAIN Tail(d) = 1 .. Len(w) - 1
      /\ \A i \in 1 .. Len(w) - 1 : Tail(d)[i] = d[i + 1]
  BY <1>1, <1>4
<1>6. ASSUME NEW i \in 1 .. Len(w) - 1 PROVE Tail(d)[i] = Char(Tail(w)[i])
  <2>1. i + 1 \in 1 .. Len(w)
    BY <1>1
  <2>. QED
    BY <1>0, <1>1, <1>5, <2>1
<1>7. PICK a : a = Tail(d)
  OBVIOUS
<1>8. a = [i \in 1 .. Len(w) - 1 |-> a[i]]
  <2>1. a \in Seq(C) /\ DOMAIN a = 1 .. Len(w) - 1
    BY <1>5, <1>7
  <2>2. a \in [1 .. Len(a) -> C] /\ DOMAIN a = 1 .. Len(a)
    BY <2>1
  <2>. QED
    BY <2>1, <2>2
<1>9. a = [i \in 1 .. Len(w) - 1 |-> Char(Tail(w)[i])]
  BY <1>6, <1>7, <1>8
<1>. QED
  BY <1>1, <1>7, <1>9 DEF MeantBy

LEMMA InOrderIs == (KeysInOrder <=> due = MeantBy(Waiting)) /\ (KeysInOrder' <=> due' = MeantBy(Waiting'))
BY DEF KeysInOrder, MeantBy

\* An event that has what the key means joins the ring, or is lost with it.
LEMMA HandlerKeepsOrder ==
    ASSUME Shape, Shape', KeysInOrder, NEW k, NEW m, NEW v \in Event, Handler(k, m, v),
           Char(v) = Meant(k, v.up)
    PROVE  KeysInOrder'
<1>1. CASE UNCHANGED <<kring, bridge, due>>
  BY <1>1 DEF KeysInOrder, Waiting
<1>2. CASE /\ kring' = Append(kring, v) /\ due' = Append(due, Meant(k, v.up))
           /\ bridge' = IF bridge.pc = "asleep" THEN [bridge EXCEPT !.pc = "test"] ELSE bridge
  <2>1. kring \in Seq(Event) /\ bridge.ev \in Event
    BY DEF Shape, KeysTyped, BridgeTyped
  <2>2. Waiting' = Append(Waiting, v)
    <3>1. CASE bridge.pc \in {"ask", "granted", "put"}
      <4>1. <<bridge.ev>> \o Append(kring, v) = Append(<<bridge.ev>> \o kring, v)
        BY <2>1
      <4>. QED
        BY <1>2, <3>1, <4>1 DEF Waiting
    <3>2. CASE bridge.pc \notin {"ask", "granted", "put"}
      <4>1. bridge'.pc \notin {"ask", "granted", "put"}
        BY <1>2, <3>2 DEF Shape, BridgeTyped
      <4>2. <<>> \o Append(kring, v) = Append(kring, v) /\ <<>> \o kring = kring
        BY <2>1
      <4>. QED
        BY <1>2, <3>2, <4>1, <4>2 DEF Waiting
    <3>. QED
      BY <3>1, <3>2
  <2>3. PICK w \in Seq(Event) : w = Waiting
    BY WaitingIs
  <2>4. Append(due, Char(v)) = MeantBy(Append(w, v))
    BY <2>3, LastMeant, InOrderIs
  <2>. QED
    BY <1>2, <2>2, <2>3, <2>4, InOrderIs
<1>. QED
  BY <1>1, <1>2 DEF Handler

LEMMA PressKeepsOrder ==
    ASSUME KeyInv, Shape', NEW k \in cast.keys, Press(k) \/ Release(k)
    PROVE  (mods.shift <=> "shift" \in down)' /\ KeysInOrder'
<1>1. /\ mods \in [shift : BOOLEAN, caps : BOOLEAN] /\ cast \in Cast /\ (mods.shift <=> "shift" \in down)
      /\ Shape /\ KeysInOrder /\ k \in {"x", "nl", "shift", "caps", "f"}
  BY TtyAssumption DEF KeyInv, SafeInv, Shape, KeysTyped
<1>2. CASE Press(k)
  <2>. DEFINE m == [shift |-> mods.shift \/ k = "shift",
                    caps |-> IF k = "caps" THEN ~mods.caps ELSE mods.caps]
              v == [key |-> k, shift |-> m.shift, caps |-> m.caps, up |-> FALSE]
  <2>1. Handler(k, m, v) /\ down' = down \cup {k}
    BY <1>2 DEF Press
  <2>2. m \in [shift : BOOLEAN, caps : BOOLEAN] /\ (m.shift <=> mods.shift \/ k = "shift")
    BY <1>1
  <2>3. v \in Event
    BY <1>1, <2>2 DEF Event
  <2>4. v.key = k /\ v.shift = m.shift /\ v.caps = m.caps /\ v.up = FALSE
    OBVIOUS
  <2>5. mods' = m
    BY <2>1 DEF Handler
  <2>. HIDE DEF m, v
  <2>6. m.shift <=> "shift" \in down'
    BY <1>1, <2>1, <2>2
  <2>7. Char(v) = Meant(k, v.up)
    <3>1. k = "x" => Char(v) = <<IF m.shift \/ m.caps THEN "X" ELSE "x">>
      BY <2>4 DEF Char
    <3>2. k = "x" => Meant(k, v.up) = <<IF "shift" \in down' \/ m.caps THEN "X" ELSE "x">>
      BY <2>4, <2>5 DEF Meant
    <3>3. k # "x" => Char(v) = Meant(k, v.up)
      BY <1>1, <2>4 DEF Char, Meant
    <3>. QED
      BY <2>6, <3>1, <3>2, <3>3
  <2>8. (mods.shift <=> "shift" \in down)'
    BY <2>5, <2>6
  <2>. QED
    BY <1>1, <2>1, <2>3, <2>7, <2>8, HandlerKeepsOrder
<1>3. CASE Release(k)
  <2>. DEFINE m == [mods EXCEPT !.shift = @ /\ k # "shift"]
              v == [key |-> k, shift |-> mods.shift, caps |-> mods.caps, up |-> TRUE]
  <2>1. Handler(k, m, v) /\ down' = down \ {k}
    BY <1>3 DEF Release
  <2>2. m.shift <=> mods.shift /\ k # "shift"
    BY <1>1
  <2>3. v \in Event
    BY <1>1 DEF Event
  <2>4. v.up
    OBVIOUS
  <2>5. mods' = m
    BY <2>1 DEF Handler
  <2>. HIDE DEF m, v
  <2>6. (mods.shift <=> "shift" \in down)'
    BY <1>1, <2>1, <2>2, <2>5
  <2>7. Char(v) = Meant(k, v.up)
    <3>1. Char(v) = <<>>
      BY <2>3, <2>4 DEF Char, Event
    <3>2. Meant(k, v.up) = <<>>
      BY <2>4 DEF Meant
    <3>. QED
      BY <3>1, <3>2
  <2>. QED
    BY <1>1, <2>1, <2>3, <2>6, <2>7, HandlerKeepsOrder
<1>. QED
  BY <1>2, <1>3

\* The bridge takes an event, keeps it while it waits for a terminal, and is
\* done with it when it has put it there.
LEMMA BridgeKeepsOrder ==
    ASSUME Shape, KeysInOrder, Carry
    PROVE  KeysInOrder' /\ mods' = mods /\ down' = down
<1>. DEFINE Hand == {"ask", "granted", "put"}
<1>1. kring \in Seq(Event) /\ bridge \in [pc : BridgePc, ev : Event, eng : Eng \cup {None}]
  BY DEF Shape, KeysTyped, BridgeTyped
<1>2. mods' = mods /\ down' = down
  BY DEF Carry, BridgeEmpty, BridgeWait, BridgeTake, BridgeAsk, BridgeGranted, BridgePut, BridgeCopy,
     BridgeDraw, BridgeMark, BridgeDone, keyboard
<1>3. ASSUME kring' = kring, due' = due,
             \/ bridge.pc \in Hand /\ bridge'.pc \in Hand /\ bridge'.ev = bridge.ev
             \/ bridge.pc \notin Hand /\ bridge'.pc \notin Hand
      PROVE  KeysInOrder'
  <2>1. Waiting' = Waiting
    BY <1>3 DEF Waiting
  <2>. QED
    BY <1>3, <2>1, InOrderIs
<1>4. CASE BridgeEmpty \/ BridgeWait \/ BridgeCopy \/ BridgeDraw \/ BridgeMark
  <2>1. kring' = kring /\ due' = due
    BY <1>4 DEF BridgeEmpty, BridgeWait, BridgeCopy, BridgeDraw, BridgeMark, keyboard
  <2>2. bridge.pc \notin Hand /\ bridge'.pc \notin Hand
    BY <1>1, <1>4 DEF BridgeEmpty, BridgeWait, BridgeCopy, BridgeDraw, BridgeMark, BridgeAt, BridgeTo
  <2>. QED
    BY <1>2, <1>3, <2>1, <2>2
<1>5. CASE BridgeAsk \/ BridgeGranted
  <2>1. kring' = kring /\ due' = due
    BY <1>5 DEF BridgeAsk, BridgeGranted, keyboard
  <2>2. bridge.pc \in Hand /\ bridge'.pc \in Hand /\ bridge'.ev = bridge.ev
    BY <1>1, <1>5 DEF BridgeAsk, BridgeGranted, BridgeAt
  <2>. QED
    BY <1>2, <1>3, <2>1, <2>2
<1>6. CASE BridgeDone
  <2>1. kring' = kring /\ due' = due /\ bridge.pc = "draw" /\ bridge'.pc = "test"
    BY <1>6 DEF BridgeDone, BridgeAt, keyboard
  <2>. QED
    BY <1>2, <1>3, <2>1
<1>7. CASE BridgePut
  <2>1. kring' = kring /\ due' = Tail(due) /\ bridge.pc = "put" /\ bridge'.pc \notin Hand
    BY <1>1, <1>7 DEF BridgePut, BridgeAt, BridgeTo, keyboard
  <2>2. PICK w \in Seq(Event) : w = Waiting /\ w = <<bridge.ev>> \o kring
    BY <2>1, WaitingIs
  <2>3. w # <<>> /\ Tail(w) = kring
    BY <1>1, <2>2
  <2>4. Waiting' = kring
    <3>1. <<>> \o kring = kring
      BY <1>1
    <3>. QED
      BY <2>1, <3>1 DEF Waiting
  <2>5. Tail(due) = MeantBy(Tail(w))
    BY <2>2, <2>3, FirstMeant, InOrderIs
  <2>. QED
    BY <1>2, <2>1, <2>3, <2>4, <2>5, InOrderIs
<1>8. CASE BridgeTake
  <2>1. /\ bridge.pc = "test" /\ kring # <<>> /\ kring' = Tail(kring)
        /\ bridge' = IF Char(Head(kring)) = <<>> THEN bridge
                     ELSE [bridge EXCEPT !.pc = "ask", !.ev = Head(kring)]
        /\ due' = IF Char(Head(kring)) = <<>> THEN Tail(due) ELSE due
    BY <1>8 DEF BridgeTake, BridgeAt
  <2>2. Waiting = kring
    BY <2>1, WaitingIs
  <2>3. CASE Char(Head(kring)) = <<>>
    <3>1. Waiting' = Tail(kring)
      <4>1. <<>> \o Tail(kring) = Tail(kring)
        BY <1>1, <2>1
      <4>. QED
        BY <2>1, <2>3, <4>1 DEF Waiting
    <3>2. PICK w \in Seq(Event) : w = kring
      BY <1>1
    <3>3. Tail(due) = MeantBy(Tail(w))
      BY <2>1, <2>2, <3>2, FirstMeant, InOrderIs
    <3>. QED
      BY <1>2, <2>1, <2>3, <3>1, <3>2, <3>3, InOrderIs
  <2>4. CASE Char(Head(kring)) # <<>>
    <3>1. bridge'.pc = "ask" /\ bridge'.ev = Head(kring) /\ due' = due
      BY <1>1, <2>1, <2>4
    <3>2. <<Head(kring)>> \o Tail(kring) = kring
      BY <1>1, <2>1
    <3>3. Waiting' = kring
      BY <2>1, <3>1, <3>2 DEF Waiting
    <3>. QED
      BY <1>2, <2>2, <3>1, <3>3, InOrderIs
  <2>. QED
    BY <2>3, <2>4
<1>. QED
  BY <1>2, <1>4, <1>5, <1>6, <1>7, <1>8 DEF Carry

LEMMA KeysNext == KeyInv /\ [Next]_vars => KeyInv'
<1>. SUFFICES ASSUME KeyInv, [Next]_vars PROVE KeyInv'
  OBVIOUS
<1>1. SafeInv' /\ Shape /\ Shape'
  BY ShapeNext DEF KeyInv, SafeInv
<1>2. ASSUME kring' = kring, mods' = mods, down' = down, bridge' = bridge, due' = due PROVE KeyInv'
  BY <1>1, <1>2 DEF KeyInv, KeysInOrder, Waiting
<1>3. CASE \E k \in cast.keys : Press(k) \/ Release(k)
  BY <1>1, <1>3, PressKeepsOrder DEF KeyInv
<1>4. CASE Carry
  BY <1>1, <1>4, BridgeKeepsOrder DEF KeyInv
<1>5. CASE Emulate
  BY <1>2, <1>5, EmulatorKeeps DEF keyboard
<1>6. CASE \E p \in Prog : Call(p) \/ Continue(p)
  BY <1>2, <1>6, ProgramsKeepKeys DEF keyboard
<1>7. CASE UNCHANGED vars
  BY <1>2, <1>7 DEF vars, keyboard
<1>. QED
  BY <1>3, <1>4, <1>5, <1>6, <1>7 DEF Next

\* Every event that keyboard_handler has put into g_kbd_raw_buffer, or that the
\* bridge has taken out and not handed to a terminal yet, stands for the
\* character that was meant by the key, in the order of typing: a full ring
\* loses keys, but no press or release of shift.
THEOREM KeysStayInOrder == Spec => []KeysInOrder
<1>1. Init => KeyInv
  <2>. SUFFICES ASSUME Init PROVE KeyInv
    OBVIOUS
  <2>1. mods.shift <=> "shift" \in down
    BY DEF Init
  <2>2. Waiting = <<>>
    <3>1. bridge.pc = "test" /\ kring = <<>>
      BY DEF Init
    <3>2. Shape
      BY ShapeInit DEF SafeInv
    <3>. QED
      BY <3>1, <3>2, WaitingIs
  <2>3. KeysInOrder
    <3>1. due = <<>> /\ DOMAIN Waiting = {}
      BY <2>2 DEF Init
    <3>2. [i \in DOMAIN Waiting |-> Char(Waiting[i])] = <<>>
      BY <3>1
    <3>. QED
      BY <3>1, <3>2 DEF KeysInOrder
  <2>. QED
    BY <2>1, <2>3, ShapeInit DEF KeyInv
<1>2. KeyInv => KeysInOrder
  BY DEF KeyInv
<1>. QED
  BY <1>1, <1>2, KeysNext, PTL DEF Spec
=============================================================================
