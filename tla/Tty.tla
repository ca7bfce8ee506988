-------------------------------- MODULE Tty --------------------------------
(***************************************************************************)
(* Terminals: the keyboard (drivers/char/keyboard.c), the thread that      *)
(* carries its keys to a terminal (drivers/tty/vfs_tty_kbd.c), the queues  *)
(* and buffers of terminals (drivers/tty/tty.c), the devices of            *)
(* fs/dev/vfs_tty.c and vfs_pty.c, and the emulator that puts the terminal *)
(* in focus on the screen (drivers/video/console.c).                       *)
(*                                                                         *)
(* A step is what the code does under one lock, or between two places      *)
(* where another thread may come in.  A ring of the code is a sequence; it *)
(* is full when one cell is left.  All terminals are canonical and echo:   *)
(* nothing ever changes c_lflag.                                           *)
(***************************************************************************)
EXTENDS Integers, Sequences, FiniteSets, SequencesExt

CONSTANTS
    Tty, tty0,  \* the terminals of /dev/ttyN
    Prog,       \* programs
    MaxPair,    \* bound on the pseudo terminals ever made
    Kbd,        \* KBD_BUFFER_SIZE
    Queue,      \* TTY_BUF_SIZE
    Cast        \* the casts: who takes part, and how much it does

Pair == 1 .. MaxPair
Eng == Tty \cup Pair
None == 0
\* Who holds a lock, if no program does.
Nobody == "nobody"
Bridge == "bridge"

\* Each program has one terminal open at a time: a replica (shell), the master
\* of a pair (daemon), or one of /dev/ttyN (graphic).  keys is what is typed on,
\* presses and writes bound how often keys are pressed and programs write.
ASSUME TtyAssumption ==
    /\ tty0 \in Tty /\ Tty \cap Pair = {} /\ MaxPair \in Nat
    /\ IsFiniteSet(Prog) /\ Prog \cap {Bridge, Nobody} = {}
    /\ Kbd \in Nat \ {0} /\ Queue \in Nat \ {0}
    /\ \A c \in Cast :
          /\ c.shell \cup c.daemon \cup c.graphic \subseteq Prog
          /\ c.keys \subseteq {"x", "nl", "shift", "caps", "f"}
          /\ c.presses \in Nat /\ c.writes \in Nat

VARIABLES
    cast,           \* the one that plays
    down, mods,     \* keys held down; g_current_modifiers
    kring,          \* g_kbd_raw_buffer
    bridge,         \* tty_keyboard_bridge_thread
    due,            \* what was meant by each key event that is not done with yet
    inq, lines,     \* input_buf and lines_available of each terminal
    outq,           \* output_buf
    focus,          \* g_active_tty_index
    dirty, drawn,   \* refresh_needed; there is something the screen lacks
    emu,            \* tty_emulator_thread
    pair,           \* pty_pair_t
    ptmx,           \* private_data of /dev/ptmx
    active,         \* g_active_pty_engine
    listlock,       \* holder of g_vfs_pty_lock
    engine,         \* holder of user_lock of each pseudo terminal
    prog,           \* what each program does, with which terminal
    pressed, written

keyboard == <<cast, down, mods, kring, pressed>>
queues == <<inq, lines, outq>>
screen == <<focus, dirty, drawn>>
ptys == <<pair, ptmx, active>>
locks == <<listlock, engine>>
vars == <<keyboard, bridge, due, queues, screen, emu, ptys, locks, prog, written>>

NoPair == [mem |-> "none", master |-> 0, replica |-> 0, present |-> FALSE]
NoEvent == [key |-> "none", shift |-> FALSE, caps |-> FALSE, up |-> FALSE]
Away == [kind |-> "none", e |-> None, pc |-> "user", n |-> 0, eng |-> None]
\* Bound: a program opens one terminal in its life.
Gone == [Away EXCEPT !.pc = "gone"]

Init ==
    /\ cast \in Cast
    /\ down = {} /\ mods = [shift |-> FALSE, caps |-> FALSE] /\ kring = <<>>
    /\ bridge = [pc |-> "test", ev |-> NoEvent, eng |-> None]
    /\ due = <<>>
    /\ inq = [e \in Eng |-> <<>>] /\ lines = [e \in Eng |-> 0] /\ outq = [e \in Eng |-> <<>>]
    /\ focus = tty0 /\ dirty = [k \in Tty |-> FALSE] /\ drawn = [k \in Tty |-> FALSE]
    /\ emu = [pc |-> "drain", tty |-> tty0, last |-> tty0]
    /\ pair = [k \in Pair |-> NoPair] /\ ptmx = None /\ active = None
    /\ listlock = Nobody /\ engine = [k \in Pair |-> Nobody]
    /\ prog = [p \in Prog |-> Away]
    /\ pressed = 0 /\ written = 0

-----------------------------------------------------------------------------
(* The keyboard.                                                           *)

\* The character of an event, or none: shift and caps lock give capitals.
Char(v) ==
    CASE v.key = "x" /\ ~v.up -> <<IF v.shift \/ v.caps THEN "X" ELSE "x">>
      [] v.key = "nl" /\ ~v.up -> <<"nl">>
      [] OTHER -> <<>>
\* What was meant by a key, from the keys that are down.
Meant(k, up) ==
    IF up \/ k \notin {"x", "nl"} THEN <<>>
    ELSE <<IF k = "x" /\ ("shift" \in down' \/ mods'.caps) THEN "X" ELSE k>>

\* Mutant of Handler: the modifiers change only with an event that fits.
HandlerFits(k, m, v) ==
    /\ \/ /\ Len(kring) = Kbd - 1 /\ UNCHANGED <<mods, kring, bridge, due>>
       \/ /\ Len(kring) < Kbd - 1 /\ mods' = m
          /\ kring' = Append(kring, v)
          /\ due' = Append(due, Meant(k, v.up))
          /\ bridge' = IF bridge.pc = "asleep" THEN [bridge EXCEPT !.pc = "test"] ELSE bridge
    /\ UNCHANGED <<cast, queues, screen, emu, ptys, locks, prog, written>>
\* keyboard_handler: the modifiers change even if the event does not fit.
\* wakeup_thread wakes the bridge only if it sleeps already.
Handler(k, m, v) ==
    /\ mods' = m
    /\ \/ /\ Len(kring) = Kbd - 1 /\ UNCHANGED <<kring, bridge, due>>
       \/ /\ Len(kring) < Kbd - 1
          /\ kring' = Append(kring, v)
          /\ due' = Append(due, Meant(k, v.up))
          /\ bridge' = IF bridge.pc = "asleep" THEN [bridge EXCEPT !.pc = "test"] ELSE bridge
    /\ UNCHANGED <<cast, queues, screen, emu, ptys, locks, prog, written>>
Press(k) ==
    /\ pressed < cast.presses /\ k \notin down
    /\ pressed' = pressed + 1 /\ down' = down \cup {k}
    /\ LET m == [shift |-> mods.shift \/ k = "shift",
                 caps |-> IF k = "caps" THEN ~mods.caps ELSE mods.caps]
       IN  Handler(k, m, [key |-> k, shift |-> m.shift, caps |-> m.caps, up |-> FALSE])
Release(k) ==
    /\ k \in down /\ down' = down \ {k}
    /\ Handler(k, [mods EXCEPT !.shift = @ /\ k # "shift"],
               [key |-> k, shift |-> mods.shift, caps |-> mods.caps, up |-> TRUE])
    /\ UNCHANGED pressed

-----------------------------------------------------------------------------
(* Terminals: what happens under tty->lock.                                *)

\* Readers that sleep on the terminal, or masters that wait for its output.
Wakeup(e, pc) == [p \in Prog |-> IF prog[p].pc = pc /\ prog[p].e = e
                                 THEN [prog[p] EXCEPT !.pc = "test"] ELSE prog[p]]

Room(q) == Len(q) < Queue - 1
Echo(c) == [c |-> c, echo |-> TRUE]
Data(c) == [c |-> c, echo |-> FALSE]

\* Mutant of ToInQueue: readers are woken when the queue was empty only.
ToInQueueEdge(e, c) ==
    \/ /\ ~Room(inq[e]) /\ UNCHANGED <<queues, prog>>
    \/ /\ Room(inq[e])
       /\ inq' = [inq EXCEPT ![e] = Append(@, c)]
       /\ lines' = [lines EXCEPT ![e] = IF c = "nl" THEN @ + 1 ELSE @]
       /\ outq' = [outq EXCEPT ![e] = IF Room(@) THEN Append(@, Echo(c)) ELSE @]
       /\ prog' = IF inq[e] = <<>> THEN Wakeup(e, "reading") ELSE prog

\* tty_write_to_in_queue, one character: it is echoed, and a line is counted;
\* the echo is dropped if it does not fit, and wakes nobody.
ToInQueue(e, c) ==
    \/ /\ ~Room(inq[e]) /\ UNCHANGED <<queues, prog>>
    \/ /\ Room(inq[e])
       /\ inq' = [inq EXCEPT ![e] = Append(@, c)]
       /\ lines' = [lines EXCEPT ![e] = IF c = "nl" THEN @ + 1 ELSE @]
       /\ outq' = [outq EXCEPT ![e] = IF Room(@) THEN Append(@, Echo(c)) ELSE @]
       /\ prog' = Wakeup(e, "reading")

\* tty_read_from_in_queue with room for n characters takes a line, or a part.
Line(q, n) ==
    LET stop == {i \in DOMAIN q : q[i] = "nl"}
        end == IF stop = {} THEN Len(q) ELSE Min(stop)
    IN  IF end < n THEN end ELSE n
\* Mutant of Take: every read takes a line, even if the buffer was too short.
TakeCounting(e, n) ==
    LET k == Line(inq[e], n)
    IN  /\ inq' = [inq EXCEPT ![e] = SubSeq(@, k + 1, Len(@))]
        /\ lines' = [lines EXCEPT ![e] = IF @ > 0 THEN @ - 1 ELSE @]
        /\ UNCHANGED outq
Take(e, n) ==
    LET k == Line(inq[e], n)
    IN  /\ inq' = [inq EXCEPT ![e] = SubSeq(@, k + 1, Len(@))]
        /\ lines' = [lines EXCEPT ![e] = IF inq[e][k] = "nl" /\ @ > 0 THEN @ - 1 ELSE @]
        /\ UNCHANGED outq

\* tty_pop_output, and tty_putc_backbuffer as far as the pixels.
PopAndDraw(e) ==
    /\ outq[e] # <<>>
    /\ outq' = [outq EXCEPT ![e] = Tail(@)]
    /\ drawn' = [drawn EXCEPT ![e] = TRUE]
    /\ UNCHANGED <<inq, lines, focus, dirty>>
\* The end of tty_putc_backbuffer: the refresh flag.
Mark(e) ==
    /\ dirty' = [dirty EXCEPT ![e] = TRUE] /\ UNCHANGED <<focus, drawn>>

-----------------------------------------------------------------------------
(* pty_vfs_get_active_engine and its counterpart: x is a thread.           *)

\* The list's lock is taken, and kept while the engine is waited for: whoever has
\* the engine needs the list's lock to give it back.
Ask(x) ==
    /\ listlock = Nobody
    /\ listlock' = IF active = None THEN Nobody ELSE x
    /\ UNCHANGED engine
Granted(x) ==
    /\ listlock = x /\ engine[active] = Nobody
    /\ engine' = [engine EXCEPT ![active] = x] /\ listlock' = Nobody
GiveBack(x, k) ==
    /\ listlock = Nobody
    /\ engine' = [engine EXCEPT ![k] = Nobody] /\ UNCHANGED listlock

-----------------------------------------------------------------------------
(* tty_keyboard_bridge_thread.                                             *)

BridgeAt(pc) == bridge.pc = pc
BridgeTo(pc) == bridge' = [bridge EXCEPT !.pc = pc]

\* keyboard_get_event: the ring is tested without a lock.
BridgeEmpty ==
    /\ BridgeAt("test") /\ kring = <<>> /\ BridgeTo("wait")
    /\ UNCHANGED <<keyboard, due, queues, screen, emu, ptys, locks, prog, written>>
BridgeWait ==
    /\ BridgeAt("wait") /\ BridgeTo("asleep")
    /\ UNCHANGED <<keyboard, due, queues, screen, emu, ptys, locks, prog, written>>
\* A function key moves the focus; a key with no character is done with.
BridgeTake ==
    /\ BridgeAt("test") /\ kring # <<>> /\ kring' = Tail(kring)
    /\ LET v == Head(kring)
       IN  /\ focus' \in IF v.key = "f" /\ ~v.up THEN Tty \ {focus} ELSE {focus}
           /\ bridge' = IF Char(v) = <<>> THEN bridge ELSE [bridge EXCEPT !.pc = "ask", !.ev = v]
           /\ due' = IF Char(v) = <<>> THEN Tail(due) ELSE due
    /\ UNCHANGED <<cast, down, mods, pressed, queues, dirty, drawn, emu, ptys, locks, prog, written>>
BridgeAsk ==
    /\ BridgeAt("ask") /\ Ask(Bridge)
    /\ bridge' = IF active = None THEN [bridge EXCEPT !.pc = "put", !.eng = focus]
                 ELSE [bridge EXCEPT !.pc = "granted"]
    /\ UNCHANGED <<keyboard, due, queues, screen, emu, ptys, prog, written>>
BridgeGranted ==
    /\ BridgeAt("granted") /\ Granted(Bridge)
    /\ bridge' = [bridge EXCEPT !.pc = "put", !.eng = active]
    /\ UNCHANGED <<keyboard, due, queues, screen, emu, ptys, prog, written>>
\* The character goes to the active pseudo terminal and then to tty0 as well,
\* for its echo; without one, to the terminal in focus.
BridgePut ==
    /\ BridgeAt("put")
    /\ ToInQueue(bridge.eng, Char(bridge.ev)[1])
    /\ due' = Tail(due)
    /\ BridgeTo(IF bridge.eng \in Pair THEN "copy" ELSE "draw")
    /\ UNCHANGED <<keyboard, screen, emu, ptys, locks, written>>
BridgeCopy ==
    /\ BridgeAt("copy") /\ ToInQueue(tty0, Char(bridge.ev)[1]) /\ BridgeTo("draw")
    /\ UNCHANGED <<keyboard, due, screen, emu, ptys, locks, written>>
Shown == IF bridge.eng \in Pair THEN tty0 ELSE bridge.eng
BridgeDraw ==
    /\ BridgeAt("draw") /\ PopAndDraw(Shown) /\ BridgeTo("mark")
    /\ UNCHANGED <<keyboard, due, emu, ptys, locks, prog, written>>
BridgeMark ==
    /\ BridgeAt("mark") /\ Mark(Shown) /\ BridgeTo("draw")
    /\ UNCHANGED <<keyboard, due, queues, emu, ptys, locks, prog, written>>
BridgeDone ==
    /\ BridgeAt("draw") /\ outq[Shown] = <<>>
    /\ IF bridge.eng \in Pair THEN GiveBack(Bridge, bridge.eng) ELSE UNCHANGED locks
    /\ bridge' = [pc |-> "test", ev |-> NoEvent, eng |-> None]
    /\ UNCHANGED <<keyboard, due, queues, screen, emu, ptys, prog, written>>

-----------------------------------------------------------------------------
(* tty_emulator_thread.                                                    *)

Still == UNCHANGED <<keyboard, bridge, due, ptys, locks, prog, written>>

\* The output of every terminal is drawn; how far the loop over the terminals
\* has come does not matter.
EmuDraw(k) ==
    /\ emu.pc = "drain" /\ PopAndDraw(k)
    /\ emu' = [emu EXCEPT !.pc = "mark", !.tty = k] /\ Still
EmuMark ==
    /\ emu.pc = "mark" /\ Mark(emu.tty) /\ emu' = [emu EXCEPT !.pc = "drain", !.tty = tty0]
    /\ Still /\ UNCHANGED queues
\* Mutant of EmuClear: one flag for all terminals.
EmuClearAll ==
    /\ emu.pc = "drain" /\ (dirty[focus] \/ emu.last # focus)
    /\ dirty' = [k \in Tty |-> FALSE]
    /\ emu' = [emu EXCEPT !.pc = "flush", !.tty = focus]
    /\ Still /\ UNCHANGED <<queues, focus, drawn>>
\* The flag of the terminal in focus is taken, and if it was set, or the focus
\* has moved, the terminal is copied to the screen.
EmuClear ==
    /\ emu.pc = "drain" /\ (dirty[focus] \/ emu.last # focus)
    /\ dirty' = [dirty EXCEPT ![focus] = FALSE]
    /\ emu' = [emu EXCEPT !.pc = "flush", !.tty = focus]
    /\ Still /\ UNCHANGED <<queues, focus, drawn>>
EmuFlush ==
    /\ emu.pc = "flush"
    /\ drawn' = [drawn EXCEPT ![emu.tty] = FALSE]
    /\ emu' = [pc |-> "drain", tty |-> tty0, last |-> emu.tty]
    /\ Still /\ UNCHANGED <<queues, focus, dirty>>

-----------------------------------------------------------------------------
(* Programs and the terminals they open.                                   *)

ProgTo(p, q) == prog' = [prog EXCEPT ![p] = q]
At(p, pc) == prog[p].pc = pc
Idle(p) == At(p, "user") /\ prog[p].kind # "none"
Same == UNCHANGED <<keyboard, bridge, due, emu>>
Holding(kind, e) == [Away EXCEPT !.kind = kind, !.e = e]
Unused == {k \in Pair : pair[k].mem = "none" /\ \A j \in 1 .. k - 1 : pair[j].mem # "none"}
\* Bound: /dev/ptmx has one node, which leads to the last pair made: no other
\* is made while a program has the master of one open.
NoMaster == \A p \in Prog : prog[p].kind # "master"

OpenTty(p, k) ==
    /\ prog[p] = Away /\ ProgTo(p, Holding("tty", k))
    /\ Same /\ UNCHANGED <<queues, screen, ptys, locks, written>>
\* process_loader: the factory is opened for a new process, whose terminal is
\* the replica; nobody has the master.
Spawn(p) ==
    /\ prog[p] = Away /\ NoMaster /\ listlock = Nobody
    /\ \E k \in Unused :
          /\ pair' = [pair EXCEPT ![k] = [NoPair EXCEPT !.mem = "live", !.master = 1, !.replica = 1]]
          /\ ptmx' = k /\ ProgTo(p, Holding("replica", k))
    /\ Same /\ UNCHANGED <<queues, screen, active, locks, written>>
\* tfs_ptmx_open.
OpenMaster(p) ==
    /\ prog[p] = Away /\ NoMaster /\ listlock = Nobody
    /\ \E k \in Unused :
          /\ pair' = [pair EXCEPT ![k] = [NoPair EXCEPT !.mem = "live", !.master = 1]]
          /\ ptmx' = k /\ ProgTo(p, Holding("master", k))
    /\ Same /\ UNCHANGED <<queues, screen, active, locks, written>>
\* tfs_ptmx_ioctl(TIOCGPTN).
GetNumber(p) ==
    /\ Idle(p) /\ prog[p].kind = "master"
    /\ pair' = [pair EXCEPT ![ptmx].present = TRUE]
    /\ Same /\ UNCHANGED <<queues, screen, ptmx, active, locks, prog, written>>
\* tfs_pty_replica_open: the path has led to the node of /dev/pts, then the count
\* goes up under the list's lock, in two steps for tfs_pty_close, which counts
\* under the lock of the pair.
OpenReplica(p, k) ==
    /\ prog[p] = Away /\ pair[k].mem = "live"
    /\ ProgTo(p, [Holding("replica", k) EXCEPT !.pc = "open"])
    /\ Same /\ UNCHANGED <<queues, screen, ptys, locks, written>>
OpenLoad(p) ==
    /\ At(p, "open") /\ listlock = Nobody /\ listlock' = p
    /\ ProgTo(p, [prog[p] EXCEPT !.pc = "counting", !.n = pair[prog[p].e].replica])
    /\ Same /\ UNCHANGED <<queues, screen, ptys, engine, written>>
OpenStore(p) ==
    /\ At(p, "counting") /\ listlock' = Nobody
    /\ pair' = [pair EXCEPT ![prog[p].e].replica = prog[p].n + 1]
    /\ ProgTo(p, [prog[p] EXCEPT !.pc = "user", !.n = 0])
    /\ Same /\ UNCHANGED <<queues, screen, ptmx, active, engine, written>>
\* sys_active_tty.
Activate(p) ==
    /\ Idle(p) /\ prog[p].kind = "replica" /\ listlock = Nobody
    /\ active' = prog[p].e
    /\ Same /\ UNCHANGED <<queues, screen, pair, ptmx, locks, prog, written>>

\* A master reads the output of its pair, everyone else the input.
Mine(p) == IF prog[p].kind = "master" THEN ptmx ELSE prog[p].e
Read(p) ==
    /\ Idle(p) /\ ProgTo(p, [prog[p] EXCEPT !.pc = "test"])
    /\ Same /\ UNCHANGED <<queues, screen, ptys, locks, written>>
ReadTest(p) ==
    /\ At(p, "test") /\ prog[p].kind # "master"
    /\ \/ /\ lines[prog[p].e] = 0 /\ ProgTo(p, [prog[p] EXCEPT !.pc = "reading"])
          /\ UNCHANGED queues
       \/ /\ lines[prog[p].e] > 0 /\ ProgTo(p, [prog[p] EXCEPT !.pc = "user"])
          /\ \E n \in 1 .. Queue - 1 : Take(prog[p].e, n)
    /\ Same /\ UNCHANGED <<screen, ptys, locks, written>>
\* tty_read_from_out_queue.
MasterReadTest(p) ==
    /\ At(p, "test") /\ prog[p].kind = "master"
    /\ \/ /\ outq[Mine(p)] = <<>> /\ ProgTo(p, [prog[p] EXCEPT !.pc = "waiting"])
          /\ UNCHANGED outq
       \/ /\ outq[Mine(p)] # <<>> /\ ProgTo(p, [prog[p] EXCEPT !.pc = "user"])
          /\ \E n \in 1 .. Len(outq[Mine(p)]) :
                outq' = [outq EXCEPT ![Mine(p)] = SubSeq(@, n + 1, Len(@))]
    /\ Same /\ UNCHANGED <<inq, lines, screen, ptys, locks, written>>

\* tfs_tty_write, tfs_pty_master_write.
WriteTty(p) ==
    /\ Idle(p) /\ prog[p].kind = "tty" /\ written < cast.writes /\ written' = written + 1
    /\ outq' = [outq EXCEPT ![prog[p].e] = IF Room(@) THEN Append(@, Data("x")) ELSE @]
    /\ Same /\ UNCHANGED <<inq, lines, screen, ptys, locks, prog>>
WriteMaster(p) ==
    /\ Idle(p) /\ prog[p].kind = "master" /\ written < cast.writes /\ written' = written + 1
    /\ \E c \in {"x", "nl"} : ToInQueue(Mine(p), c)
    /\ Same /\ UNCHANGED <<screen, ptys, locks>>
\* tfs_pty_replica_write: to the master, if one reads, and to tty0 if this is
\* the active pseudo terminal.
WriteReplica(p) ==
    /\ Idle(p) /\ prog[p].kind = "replica" /\ written < cast.writes /\ written' = written + 1
    /\ LET e == prog[p].e
           out == pair[e].present /\ Room(outq[e])
           n == IF out \/ ~pair[e].present THEN 1 ELSE 0
       IN  /\ outq' = IF out THEN [outq EXCEPT ![e] = Append(@, Data("x"))] ELSE outq
           /\ prog' = [IF out THEN Wakeup(e, "waiting") ELSE prog
                       EXCEPT ![p] = [prog[p] EXCEPT !.pc = "ask", !.n = n]]
    /\ Same /\ UNCHANGED <<inq, lines, screen, ptys, locks>>
WriteAsk(p) ==
    /\ At(p, "ask") /\ Ask(p)
    /\ ProgTo(p, IF active = None THEN [prog[p] EXCEPT !.pc = "user", !.n = 0]
                 ELSE [prog[p] EXCEPT !.pc = "granted"])
    /\ Same /\ UNCHANGED <<queues, screen, ptys, written>>
WriteGranted(p) ==
    /\ At(p, "granted") /\ Granted(p)
    /\ ProgTo(p, [prog[p] EXCEPT !.pc = IF active = prog[p].e THEN "draw" ELSE "give", !.eng = active])
    /\ Same /\ UNCHANGED <<queues, screen, ptys, written>>
WriteDraw(p) ==
    /\ At(p, "draw") /\ ProgTo(p, [prog[p] EXCEPT !.pc = "mark"])
    /\ drawn' = [drawn EXCEPT ![tty0] = @ \/ prog[p].n > 0]
    /\ Same /\ UNCHANGED <<queues, focus, dirty, ptys, locks, written>>
WriteMark(p) ==
    /\ At(p, "mark") /\ Mark(tty0) /\ ProgTo(p, [prog[p] EXCEPT !.pc = "give"])
    /\ Same /\ UNCHANGED <<queues, ptys, locks, written>>
WriteGive(p) ==
    /\ At(p, "give") /\ GiveBack(p, prog[p].eng)
    /\ ProgTo(p, [prog[p] EXCEPT !.pc = "user", !.n = 0, !.eng = None])
    /\ Same /\ UNCHANGED <<queues, screen, ptys, written>>
\* tty_video_write: once the last picture has been taken.
Video(p) ==
    /\ Idle(p) /\ prog[p].kind = "tty" /\ written < cast.writes /\ written' = written + 1
    /\ ~dirty[prog[p].e]
    /\ drawn' = [drawn EXCEPT ![prog[p].e] = TRUE]
    /\ ProgTo(p, [prog[p] EXCEPT !.pc = "vmark"])
    /\ Same /\ UNCHANGED <<queues, focus, dirty, ptys, locks>>
VideoMark(p) ==
    /\ At(p, "vmark") /\ Mark(prog[p].e) /\ ProgTo(p, [prog[p] EXCEPT !.pc = "user"])
    /\ Same /\ UNCHANGED <<queues, ptys, locks, written>>

\* tfs_pty_close, under the lock of the pair as far as the counts: the active
\* engine is asked for, and none is active any more if it is this pair's.
ClosePc == {"cask", "cgranted", "cclear", "cgive", "cdec", "cput", "ctest"}
Close(p) ==
    /\ Idle(p)
    /\ \/ prog[p].kind = "tty" /\ ProgTo(p, Gone)
       \/ /\ prog[p].kind # "tty"
          /\ \A q \in Prog : prog[q].pc \in ClosePc => Mine(q) # Mine(p)
          /\ ProgTo(p, [prog[p] EXCEPT !.pc = "cask"])
    /\ Same /\ UNCHANGED <<queues, screen, ptys, locks, written>>
CloseAsk(p) ==
    /\ At(p, "cask") /\ Ask(p)
    /\ ProgTo(p, [prog[p] EXCEPT !.pc = IF active = None THEN "cdec" ELSE "cgranted"])
    /\ Same /\ UNCHANGED <<queues, screen, ptys, written>>
CloseGranted(p) ==
    /\ At(p, "cgranted") /\ Granted(p)
    /\ ProgTo(p, [prog[p] EXCEPT !.pc = IF active = Mine(p) THEN "cclear" ELSE "cgive", !.eng = active])
    /\ Same /\ UNCHANGED <<queues, screen, ptys, written>>
CloseClear(p) ==
    /\ At(p, "cclear") /\ listlock = Nobody /\ active' = None
    /\ ProgTo(p, [prog[p] EXCEPT !.pc = "cgive"])
    /\ Same /\ UNCHANGED <<queues, screen, pair, ptmx, locks, written>>
CloseGive(p) ==
    /\ At(p, "cgive") /\ GiveBack(p, prog[p].eng)
    /\ ProgTo(p, [prog[p] EXCEPT !.pc = "cdec", !.eng = None])
    /\ Same /\ UNCHANGED <<queues, screen, ptys, written>>
\* The count goes down, and both counts are tested.
Count(p) == IF prog[p].kind = "master" THEN pair[Mine(p)].master ELSE pair[Mine(p)].replica
CloseLoad(p) ==
    /\ At(p, "cdec") /\ ProgTo(p, [prog[p] EXCEPT !.pc = "cput", !.n = Count(p)])
    /\ Same /\ UNCHANGED <<queues, screen, ptys, locks, written>>
CloseStore(p) ==
    /\ At(p, "cput") /\ ProgTo(p, [prog[p] EXCEPT !.pc = "ctest", !.n = 0])
    /\ pair' = IF prog[p].kind = "master" THEN [pair EXCEPT ![Mine(p)].master = prog[p].n - 1]
               ELSE [pair EXCEPT ![Mine(p)].replica = prog[p].n - 1]
    /\ Same /\ UNCHANGED <<queues, screen, ptmx, active, locks, written>>
CloseTest(p) ==
    /\ At(p, "ctest")
    /\ ProgTo(p, IF pair[Mine(p)].master <= 0 /\ pair[Mine(p)].replica <= 0
                 THEN [prog[p] EXCEPT !.pc = "destroy"] ELSE Gone)
    /\ Same /\ UNCHANGED <<queues, screen, ptys, locks, written>>
\* The pair leaves /dev/pts under the list's lock; then its memory is freed.
Destroy(p) ==
    /\ At(p, "destroy") /\ listlock = Nobody
    /\ active' = IF active = Mine(p) THEN None ELSE active
    /\ pair' = [pair EXCEPT ![Mine(p)].mem = "unlinked"]
    /\ ProgTo(p, [prog[p] EXCEPT !.pc = "free"])
    /\ Same /\ UNCHANGED <<queues, screen, ptmx, locks, written>>
DestroyFree(p) ==
    /\ At(p, "free")
    /\ LET k == Mine(p)
       IN  /\ pair' = [pair EXCEPT ![k] = [NoPair EXCEPT !.mem = "freed"]]
           /\ inq' = [inq EXCEPT ![k] = <<>>] /\ lines' = [lines EXCEPT ![k] = 0]
           /\ outq' = [outq EXCEPT ![k] = <<>>]
    /\ ptmx' = IF prog[p].kind = "master" THEN None ELSE ptmx
    /\ ProgTo(p, Gone)
    /\ Same /\ UNCHANGED <<screen, active, locks, written>>

-----------------------------------------------------------------------------
Carry ==
    \/ BridgeEmpty \/ BridgeWait \/ BridgeTake \/ BridgeAsk \/ BridgeGranted \/ BridgePut
    \/ BridgeCopy \/ BridgeDraw \/ BridgeMark \/ BridgeDone
Emulate == (\E k \in Tty : EmuDraw(k)) \/ EmuMark \/ EmuClear \/ EmuFlush
Call(p) ==
    \/ p \in cast.graphic /\ \E k \in Tty : OpenTty(p, k)
    \/ p \in cast.shell /\ (Spawn(p) \/ \E k \in Pair : OpenReplica(p, k))
    \/ p \in cast.daemon /\ OpenMaster(p)
    \/ GetNumber(p) \/ Activate(p) \/ Read(p) \/ WriteTty(p) \/ WriteMaster(p)
    \/ WriteReplica(p) \/ Video(p) \/ Close(p)
Continue(p) ==
    \/ OpenLoad(p) \/ OpenStore(p)
    \/ ReadTest(p) \/ MasterReadTest(p) \/ WriteAsk(p) \/ WriteGranted(p) \/ WriteDraw(p)
    \/ WriteMark(p) \/ WriteGive(p) \/ VideoMark(p) \/ CloseAsk(p) \/ CloseGranted(p)
    \/ CloseClear(p) \/ CloseGive(p) \/ CloseLoad(p) \/ CloseStore(p) \/ CloseTest(p)
    \/ Destroy(p) \/ DestroyFree(p)

\* No pair is freed that is active, that the bridge works on or that a program has
\* open.  The locks do not prevent it: an open counts under another lock than a
\* close.  What the code does with freed memory is undefined: the model ends there.
InReach(k) ==
    active = k \/ bridge.eng = k \/ \E p \in Prog : prog[p].kind # "none" /\ Mine(p) = k
Sound == \A k \in Pair : pair[k].mem = "freed" => ~InReach(k)

Next ==
    /\ Sound
    /\ \/ \E k \in cast.keys : Press(k) \/ Release(k)
       \/ Carry \/ Emulate
       \/ \E p \in Prog : Call(p) \/ Continue(p)

Spec == Init /\ [][Next]_vars

-----------------------------------------------------------------------------
(* Properties.                                                             *)

\* Every variable keeps its type, and no ring holds more than it has room for.
TypeOK ==
    /\ cast \in Cast /\ down \subseteq cast.keys /\ Len(kring) < Kbd
    /\ \A e \in Eng : Len(inq[e]) < Queue /\ Len(outq[e]) < Queue /\ lines[e] \in Nat
    /\ focus \in Tty /\ dirty \in [Tty -> BOOLEAN] /\ drawn \in [Tty -> BOOLEAN]
    /\ ptmx \in Pair \cup {None} /\ active \in Pair \cup {None}
    /\ listlock \in Prog \cup {Bridge, Nobody} /\ \A k \in Pair : engine[k] \in Prog \cup {Bridge, Nobody}
    /\ bridge.eng \in Eng \cup {None} /\ \A p \in Prog : prog[p].e \in Eng \cup {None}

\* The lines a terminal counts are those in its queue, whichever of the
\* keyboard, a master and readers with short buffers have been at it.
LinesExact ==
    \A e \in Eng : lines[e] = Cardinality({i \in DOMAIN inq[e] : inq[e][i] = "nl"})

\* The queues are sound: the types, the bounds of the rings and LinesExact.
QueuesSafe == TypeOK /\ LinesExact

\* No reader sleeps while there is a line for it, and no master while a program
\* has written something for it (an echo alone does not wake it).
Attended ==
    \A p \in Prog :
        /\ At(p, "reading") => lines[prog[p].e] = 0
        /\ At(p, "waiting") => \A i \in DOMAIN outq[Mine(p)] : outq[Mine(p)][i].echo

\* The events that are not done with: the one in the bridge's hand, and the ring.
Waiting == (IF bridge.pc \in {"ask", "granted", "put"} THEN <<bridge.ev>> ELSE <<>>) \o kring
\* Characters reach a terminal in the order and the case they were typed in,
\* whatever the shift and caps keys have done since.
KeysInOrder == due = [i \in DOMAIN Waiting |-> Char(Waiting[i])]

\* What has been drawn and is not on the screen is announced: the flag is set,
\* or whoever drew it is about to set it, or the emulator has just taken it.
Announced ==
    \A k \in Tty : drawn[k] =>
        \/ dirty[k]
        \/ BridgeAt("mark") /\ Shown = k
        \/ emu.pc \in {"mark", "flush"} /\ emu.tty = k
        \/ \E p \in Prog : (At(p, "mark") /\ k = tty0) \/ (At(p, "vmark") /\ prog[p].e = k)
=============================================================================
