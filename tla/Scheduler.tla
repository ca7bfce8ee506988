----------------------------- MODULE Scheduler -----------------------------
(***************************************************************************)
(* The SMP thread scheduler of the kernel together with the paths that     *)
(* block and unblock threads: wait()/wakeup() on a channel, as its clients *)
(* use it (tty.c), fork, spawn, exit, waitpid and kill.                    *)
(*                                                                         *)
(* Every core has a ready queue and a current thread; when the queue is    *)
(* empty the core runs its idle thread, which is never queued.  The queues *)
(* are linked lists without a lock, and a core puts threads into the queue *)
(* of another: the list operations and task_switch are therefore cut into  *)
(* the C statements that touch a thread or a queue, one step each (the     *)
(* kernel is compiled without optimisation).  Two kinds of actors execute  *)
(* them: a core, whose position in task_switch is sw[c] and whose requeue  *)
(* is job[c], and a thread that makes another one ready, with job[t].      *)
(*                                                                         *)
(* A thread takes a step only while it is the current thread of some core; *)
(* the label pc[t] is where it is in the kernel.  The timer interrupt of a *)
(* core may switch its current thread out whenever that thread runs with   *)
(* interrupts on.  A process is identified with its main thread.           *)
(***************************************************************************)
EXTENDS Cores, Integers, Sequences, FiniteSets

CONSTANTS
    Chan,       \* wait channels, each the anchor of one locked resource
    MaxItems,   \* capacity of a resource (characters of a tty queue)
    Calls,      \* Calls[t]: the system calls the program of thread t makes
    BootQueue   \* BootQueue[c]: what kernel_main queued on core c

CallNames == {"read", "write", "waitpid", "kill", "fork", "spawn", "exit", "yield"}

ASSUME CpuAssumption == CPU \subseteq Nat /\ CPU # {}
ASSUME ThreadAssumption ==
    /\ Idle \notin Thread /\ NULL \notin Thread /\ NULL \notin CPU /\ NULL # Idle
    /\ CPU \cap Thread = {}
ASSUME ChanAssumption == NULL \notin Chan
ASSUME ItemsAssumption == MaxItems \in Nat
ASSUME CallsAssumption == Calls \in [Thread -> SUBSET CallNames]
ASSUME BootAssumption ==
    /\ BootQueue \in [CPU -> Seq(Thread)]
    /\ \A c, d \in CPU : \A i \in 1 .. Len(BootQueue[c]), j \in 1 .. Len(BootQueue[d]) :
           BootQueue[c][i] = BootQueue[d][j] => c = d /\ i = j

VARIABLES
    tstate,     \* thread_t.state
    pstate,     \* process_t.state
    parent,     \* process_t.ppid: the process with that pid, or NULL for 0
    cpu_id,     \* thread_t.cpu_id: the core a thread is bound to
    head,       \* ready_queue_head of each core
    tail,       \* ready_queue_tail of each core
    nxt,        \* thread_t.next
    sw,         \* where a core is in task_switch, and its local `next`
    job,        \* the enqueue_thread that a core or a thread is executing
    chan,       \* thread_t.chan
    pc,         \* where the thread is in the kernel
    irq,        \* the interrupt flag of the thread's context
    arg,        \* channel, process or pid the running call was given
    home,       \* the per-core block pointer the running call took on entry
    lk,         \* holder of the resource spinlock of each channel
    items,      \* data in each resource
    wait_lock,  \* holder of g_wait_lock in wakeup()
    list_lock   \* holder of g_process_list_lock in wakeup() and exit

vars == <<tstate, pstate, parent, cpu_id, head, tail, nxt, sw, job, current, chan, pc,
          irq, arg, home, lk, items, wait_lock, list_lock>>

ThreadStates  == {"NONE", "READY", "RUNNING", "BLOCKED", "WAITING", "DEAD"}
ProcessStates == {"NONE", "READY", "ZOMBIE", "DEAD"}
Labels ==
    {"user", "read_lock", "read_test", "wait_mark", "wait_unlock", "wait_sched",
     "write_lock", "write_put", "wake_list", "wakeup", "unlock", "wp_scan", "wp_block",
     "wp_sched", "kill_ready", "leave", "exit_zombie", "exit_wake", "exit_unlock",
     "exit_switch", "gone"}
SwitchLabels ==
    {"run", "test", "requeue", "head", "pop", "last", "unlink", "skip", "pick", "state", "set"}
JobLabels == {"none", "ready", "clear", "test", "head", "link", "tail", "oops"}

Actor == CPU \cup Thread

procVars  == <<pstate, parent, cpu_id>>
queueVars == <<head, tail, nxt>>
callVars  == <<chan, pc, irq, arg, home>>
lockVars  == <<lk, items, wait_lock, list_lock>>

-----------------------------------------------------------------------------
(* Ready queues.                                                           *)

Boot(c) == {BootQueue[c][i] : i \in 1 .. Len(BootQueue[c])}
Booted(t) == \E c \in CPU : t \in Boot(c)

Running == [at |-> "run", th |-> NULL]
NoJob == [at |-> "none", q |-> NULL, th |-> NULL]

Init ==
    /\ tstate = [t \in Thread |-> IF Booted(t) THEN "READY" ELSE "NONE"]
    /\ pstate = [t \in Thread |-> IF Booted(t) THEN "READY" ELSE "NONE"]
    /\ parent = [t \in Thread |-> NULL]
    /\ cpu_id = [t \in Thread |-> IF Booted(t) THEN CHOOSE c \in CPU : t \in Boot(c) ELSE NULL]
    /\ head = [c \in CPU |-> IF BootQueue[c] = <<>> THEN NULL ELSE BootQueue[c][1]]
    /\ tail = [c \in CPU |-> IF BootQueue[c] = <<>> THEN NULL ELSE BootQueue[c][Len(BootQueue[c])]]
    /\ nxt \in [Thread -> Thread \cup {NULL}]
    /\ \A c \in CPU : \A i \in 1 .. Len(BootQueue[c]) :
          nxt[BootQueue[c][i]] = IF i < Len(BootQueue[c]) THEN BootQueue[c][i + 1] ELSE NULL
    /\ \A t \in Thread : ~Booted(t) => nxt[t] = NULL
    /\ sw = [c \in CPU |-> Running]
    /\ job = [a \in Actor |-> NoJob]
    /\ current = [c \in CPU |-> Idle]
    /\ chan = [t \in Thread |-> NULL]
    /\ pc = [t \in Thread |-> "user"]
    /\ irq = [t \in Thread |-> TRUE]
    /\ arg = [t \in Thread |-> NULL]
    /\ home = [t \in Thread |-> NULL]
    /\ lk = [ch \in Chan |-> NULL]
    /\ items = [ch \in Chan |-> 0]
    /\ wait_lock = NULL
    /\ list_lock = NULL

\* Actor a starts to put thread t into the queue of core q: at "ready" if it
\* makes t READY first, at "clear" (the first statement of enqueue_thread) if
\* that is done.
Begin(a, at, q, t) == job' = [job EXCEPT ![a] = [at |-> at, q |-> q, th |-> t]]

\* Actor a makes thread t ready on the core it is bound to.
MakeReady(a, t) == Begin(a, "ready", cpu_id[t], t)

\* Actor a is executing, at statement `label` of its job: a core in task_switch,
\* or the current thread of a core that is not.
AtJob(a, label) ==
    /\ job[a].at = label
    /\ a \in Thread => \E c \in CPU : current[c] = a /\ sw[c].at = "run"
ToJob(a, label) == job' = [job EXCEPT ![a].at = label]

\* thread->state = THREAD_READY
JobReady(a) ==
    /\ AtJob(a, "ready")
    /\ tstate' = [tstate EXCEPT ![job[a].th] = "READY"]
    /\ ToJob(a, "clear")
    /\ UNCHANGED queueVars

\* thread->next = NULL
JobClear(a) ==
    /\ AtJob(a, "clear")
    /\ nxt' = [nxt EXCEPT ![job[a].th] = NULL]
    /\ ToJob(a, "test")
    /\ UNCHANGED <<tstate, head, tail>>

\* if (cpu->ready_queue_tail == NULL)
JobTest(a) ==
    /\ AtJob(a, "test")
    /\ ToJob(a, IF tail[job[a].q] = NULL THEN "head" ELSE "link")
    /\ UNCHANGED <<tstate, queueVars>>

\* cpu->ready_queue_head = thread
JobHead(a) ==
    /\ AtJob(a, "head")
    /\ head' = [head EXCEPT ![job[a].q] = job[a].th]
    /\ ToJob(a, "tail")
    /\ UNCHANGED <<tstate, tail, nxt>>

\* cpu->ready_queue_tail->next = thread; the tail is loaded again, and the
\* actor never goes on if it is NULL by now.
JobLink(a) ==
    /\ AtJob(a, "link")
    /\ \/ /\ tail[job[a].q] # NULL
          /\ nxt' = [nxt EXCEPT ![tail[job[a].q]] = job[a].th]
          /\ ToJob(a, "tail")
       \/ /\ tail[job[a].q] = NULL
          /\ ToJob(a, "oops")
          /\ UNCHANGED nxt
    /\ UNCHANGED <<tstate, head, tail>>

\* Mutant of JobTail: the tail moves only if the queue was empty.
JobTailFirst(a) ==
    /\ AtJob(a, "tail")
    /\ tail' = [tail EXCEPT ![job[a].q] = IF @ = NULL THEN job[a].th ELSE @]
    /\ job' = [job EXCEPT ![a] = NoJob]
    /\ UNCHANGED <<tstate, head, nxt>>

\* cpu->ready_queue_tail = thread, and enqueue_thread returns.
JobTail(a) ==
    /\ AtJob(a, "tail")
    /\ tail' = [tail EXCEPT ![job[a].q] = job[a].th]
    /\ job' = [job EXCEPT ![a] = NoJob]
    /\ UNCHANGED <<tstate, head, nxt>>

JobStep(a) ==
    /\ JobReady(a) \/ JobClear(a) \/ JobTest(a) \/ JobHead(a) \/ JobLink(a) \/ JobTail(a)
    /\ UNCHANGED <<procVars, sw, current, callVars, lockVars>>

-----------------------------------------------------------------------------
(* The context switch.                                                     *)

\* Core c is at statement `label` of task_switch (or of the switch that ends
\* scheduler_exit), with no requeue under way.
AtSwitch(c, label) == sw[c].at = label /\ job[c] = NoJob
ToSwitch(c, label, t) == sw' = [sw EXCEPT ![c] = [at |-> label, th |-> t]]

\* The thread that core c leaves is in scheduler_exit.
Leaving(c) == current[c] # Idle /\ pc[current[c]] = "gone"

\* Only a thread that is RUNNING goes back to the queue.
SwitchTest(c) ==
    /\ AtSwitch(c, "test")
    /\ ToSwitch(c, IF current[c] # Idle /\ tstate[current[c]] = "RUNNING"
                   THEN "requeue" ELSE "head", NULL)
    /\ UNCHANGED <<tstate, queueVars, job, current>>

\* Mutant of SwitchRequeue: the outgoing thread goes to the head.
SwitchRequeueFront(c) ==
    /\ AtSwitch(c, "requeue")
    /\ tstate' = [tstate EXCEPT ![current[c]] = "READY"]
    /\ nxt' = [nxt EXCEPT ![current[c]] = head[c]]
    /\ head' = [head EXCEPT ![c] = current[c]]
    /\ tail' = [tail EXCEPT ![c] = IF head[c] = NULL THEN current[c] ELSE @]
    /\ ToSwitch(c, "head", NULL)
    /\ UNCHANGED <<job, current>>

\* current->state = THREAD_READY, and enqueue_thread starts.
SwitchRequeue(c) ==
    /\ AtSwitch(c, "requeue")
    /\ tstate' = [tstate EXCEPT ![current[c]] = "READY"]
    /\ Begin(c, "clear", c, current[c])
    /\ ToSwitch(c, "head", NULL)
    /\ UNCHANGED <<queueVars, current>>

\* dequeue_thread: thread = cpu->ready_queue_head
DequeueHead(c) ==
    /\ AtSwitch(c, "head")
    /\ ToSwitch(c, IF head[c] = NULL THEN "pick" ELSE "pop", head[c])
    /\ UNCHANGED <<tstate, queueVars, job, current>>

\* cpu->ready_queue_head = thread->next
DequeuePop(c) ==
    /\ AtSwitch(c, "pop")
    /\ head' = [head EXCEPT ![c] = nxt[sw[c].th]]
    /\ ToSwitch(c, "last", sw[c].th)
    /\ UNCHANGED <<tstate, tail, nxt, job, current>>

\* if (cpu->ready_queue_head == NULL) cpu->ready_queue_tail = NULL
DequeueLast(c) ==
    /\ AtSwitch(c, "last")
    /\ tail' = [tail EXCEPT ![c] = IF head[c] = NULL THEN NULL ELSE @]
    /\ ToSwitch(c, "unlink", sw[c].th)
    /\ UNCHANGED <<tstate, head, nxt, job, current>>

\* thread->next = NULL, and dequeue_thread returns the thread.
DequeueUnlink(c) ==
    /\ AtSwitch(c, "unlink")
    /\ nxt' = [nxt EXCEPT ![sw[c].th] = NULL]
    /\ ToSwitch(c, IF Leaving(c) THEN "skip" ELSE "state", sw[c].th)
    /\ UNCHANGED <<tstate, head, tail, job, current>>

\* scheduler_exit takes the next one if it got its own thread or a dead one.
ExitSkip(c) ==
    /\ AtSwitch(c, "skip")
    /\ IF sw[c].th = current[c] \/ tstate[sw[c].th] = "DEAD"
       THEN ToSwitch(c, "head", NULL) ELSE ToSwitch(c, "state", sw[c].th)
    /\ UNCHANGED <<tstate, queueVars, job, current>>

\* The queue was empty: the core stays with a current thread that has been made
\* ready meanwhile, and goes idle otherwise.
SwitchPick(c) ==
    /\ AtSwitch(c, "pick")
    /\ ToSwitch(c, "state", IF ~Leaving(c) /\ current[c] # Idle /\ tstate[current[c]] = "READY"
                            THEN current[c] ELSE Idle)
    /\ UNCHANGED <<tstate, queueVars, job, current>>

\* next->state = THREAD_RUNNING
SwitchState(c) ==
    /\ AtSwitch(c, "state")
    /\ tstate' = IF sw[c].th = Idle THEN tstate ELSE [tstate EXCEPT ![sw[c].th] = "RUNNING"]
    /\ ToSwitch(c, "set", sw[c].th)
    /\ UNCHANGED <<queueVars, job, current>>

\* cpu->current_thread = next, and the frame of that thread is resumed.
SwitchSet(c) ==
    /\ AtSwitch(c, "set")
    /\ current' = [current EXCEPT ![c] = sw[c].th]
    /\ sw' = [sw EXCEPT ![c] = Running]
    /\ UNCHANGED <<tstate, queueVars, job>>

SwitchStep(c) ==
    /\ \/ SwitchTest(c) \/ SwitchRequeue(c) \/ DequeueHead(c) \/ DequeuePop(c)
       \/ DequeueLast(c) \/ DequeueUnlink(c) \/ ExitSkip(c) \/ SwitchPick(c)
       \/ SwitchState(c) \/ SwitchSet(c)
    /\ UNCHANGED <<procVars, callVars, lockVars>>

\* schedule() called by the current thread of core c, which will go on at
\* label `to` the next time it is dispatched.  The frame is built after cli
\* and the iretq that resumes it reloads that frame's flags: the thread comes
\* back with interrupts off.
schedule(c, to) ==
    /\ ToSwitch(c, "test", NULL)
    /\ pc' = [pc EXCEPT ![current[c]] = to]
    /\ irq' = [irq EXCEPT ![current[c]] = FALSE]
    /\ UNCHANGED <<tstate, procVars, queueVars, job, current, chan, arg, home, lockVars>>

\* The timer vector of core c: masked while the current thread has interrupts
\* off, which includes every section under an irqsave lock and all of exit.
Timer(c) ==
    /\ sw[c] = Running
    /\ current[c] # Idle =>
          /\ irq[current[c]] /\ job[current[c]].at # "oops"
          /\ wait_lock # current[c] /\ list_lock # current[c]
    /\ ToSwitch(c, "test", NULL)
    /\ UNCHANGED <<tstate, procVars, queueVars, job, current, callVars, lockVars>>

-----------------------------------------------------------------------------
(* Control flow of the running thread.                                     *)

\* The current thread of core c executes, at `label` and in no enqueue_thread.
At(c, label) ==
    /\ current[c] # Idle /\ pc[current[c]] = label
    /\ sw[c] = Running /\ job[current[c]] = NoJob
Goto(t, label) == pc' = [pc EXCEPT ![t] = label]

\* What the steps of a call leave alone that neither creates nor switches.
Keep == UNCHANGED <<queueVars, sw, current>>

\* The dispatcher starts a blocking call: interrupts on, argument a.
Enter(c, call, label, a) ==
    LET t == current[c]
    IN  /\ At(c, "user") /\ call \in Calls[t]
        /\ pc' = [pc EXCEPT ![t] = label]
        /\ arg' = [arg EXCEPT ![t] = a]
        /\ home' = [home EXCEPT ![t] = c]
        /\ Keep /\ UNCHANGED <<tstate, procVars, job, chan, irq, lockVars>>

\* The call of thread t returns to user mode, where interrupts are on.
Return(t) ==
    /\ pc' = [pc EXCEPT ![t] = "user"]
    /\ irq' = [irq EXCEPT ![t] = TRUE]
    /\ arg' = [arg EXCEPT ![t] = NULL]
    /\ home' = [home EXCEPT ![t] = NULL]

\* The end of a call that has put a thread into a queue.
Leave(c) ==
    /\ At(c, "leave")
    /\ Return(current[c])
    /\ Keep /\ UNCHANGED <<tstate, procVars, job, chan, lockVars>>

(* A reader of a resource: lock, sleep while it is empty, take, unlock.    *)

Read(c)  == \E ch \in Chan : Enter(c, "read", "read_lock", ch)
Write(c) == \E ch \in Chan : Enter(c, "write", "write_lock", ch)

Lock(c) ==
    LET t == current[c]
    IN  /\ At(c, "read_lock") \/ At(c, "write_lock")
        /\ lk[arg[t]] = NULL
        /\ lk' = [lk EXCEPT ![arg[t]] = t]
        /\ Goto(t, IF pc[t] = "read_lock" THEN "read_test" ELSE "write_put")
        /\ Keep /\ UNCHANGED <<tstate, procVars, job, chan, irq, arg, home, items, wait_lock, list_lock>>

Unlock(c) ==
    LET t == current[c]
    IN  /\ At(c, "unlock")
        /\ lk' = [lk EXCEPT ![arg[t]] = NULL]
        /\ Return(t)
        /\ Keep /\ UNCHANGED <<tstate, procVars, job, chan, items, wait_lock, list_lock>>

\* Mutant of ReadTest: the lock is dropped before the thread is marked.
ReadTestUnlocks(c) ==
    LET t == current[c]
    IN  /\ At(c, "read_test")
        /\ \/ /\ items[arg[t]] > 0
              /\ items' = [items EXCEPT ![arg[t]] = @ - 1]
              /\ Goto(t, "unlock")
              /\ UNCHANGED lk
           \/ /\ items[arg[t]] = 0
              /\ Goto(t, "wait_mark")
              /\ lk' = [lk EXCEPT ![arg[t]] = NULL]
              /\ UNCHANGED items
        /\ Keep /\ UNCHANGED <<tstate, procVars, job, chan, irq, arg, home, wait_lock, list_lock>>

ReadTest(c) ==
    LET t == current[c]
    IN  /\ At(c, "read_test")
        /\ \/ /\ items[arg[t]] > 0
              /\ items' = [items EXCEPT ![arg[t]] = @ - 1]
              /\ Goto(t, "unlock")
           \/ /\ items[arg[t]] = 0
              /\ Goto(t, "wait_mark")
              /\ UNCHANGED items
        /\ Keep /\ UNCHANGED <<tstate, procVars, job, chan, irq, arg, home, lk, wait_lock, list_lock>>

\* wait(): under g_wait_lock the thread is anchored to its channel.
WaitMark(c) ==
    LET t == current[c]
    IN  /\ At(c, "wait_mark") /\ wait_lock = NULL
        /\ chan' = [chan EXCEPT ![t] = arg[t]]
        /\ tstate' = [tstate EXCEPT ![t] = "WAITING"]
        /\ Goto(t, "wait_unlock")
        /\ Keep /\ UNCHANGED <<procVars, job, irq, arg, home, lockVars>>

\* wait(): the resource lock is released.
WaitUnlock(c) ==
    LET t == current[c]
    IN  /\ At(c, "wait_unlock")
        /\ lk' = [lk EXCEPT ![arg[t]] = NULL]
        /\ Goto(t, "wait_sched")
        /\ Keep /\ UNCHANGED <<tstate, procVars, job, chan, irq, arg, home, items, wait_lock, list_lock>>

\* wait(): give the core away; on return the lock is taken again.
WaitSchedule(c) == At(c, "wait_sched") /\ schedule(c, "read_lock")

(* A writer: lock, put, wake the readers, unlock.                          *)

\* A full resource drops the data and wakes nobody.
WritePut(c) ==
    LET t == current[c]
    IN  /\ At(c, "write_put")
        /\ \/ /\ items[arg[t]] = MaxItems
              /\ Goto(t, "unlock")
              /\ UNCHANGED <<items, wait_lock>>
           \/ /\ items[arg[t]] < MaxItems /\ wait_lock = NULL
              /\ items' = [items EXCEPT ![arg[t]] = @ + 1]
              /\ wait_lock' = t
              /\ Goto(t, "wake_list")
        /\ Keep /\ UNCHANGED <<tstate, procVars, job, chan, irq, arg, home, lk, list_lock>>

\* wakeup(): the second lock.
WakeList(c) ==
    LET t == current[c]
    IN  /\ At(c, "wake_list") /\ list_lock = NULL
        /\ list_lock' = t
        /\ Goto(t, "wakeup")
        /\ Keep /\ UNCHANGED <<tstate, procVars, job, chan, irq, arg, home, lk, items, wait_lock>>

Sleeping(p, ch) == tstate[p] = "WAITING" /\ chan[p] = ch

\* wakeup(): one process of the list that sleeps on the channel loses its
\* anchor, and is going to be made ready.  The list order is abstracted to any
\* order.
WakeOne(c) ==
    LET t == current[c]
    IN  /\ At(c, "wakeup")
        /\ \E p \in Thread :
              /\ Sleeping(p, arg[t])
              /\ chan' = [chan EXCEPT ![p] = NULL]
              /\ MakeReady(t, p)
        /\ Keep /\ UNCHANGED <<tstate, procVars, pc, irq, arg, home, lockVars>>

\* The scan has reached the end of the process list.
WakeDone(c) ==
    LET t == current[c]
    IN  /\ At(c, "wakeup")
        /\ \A p \in Thread : ~Sleeping(p, arg[t])
        /\ wait_lock' = NULL
        /\ list_lock' = NULL
        /\ Goto(t, "unlock")
        /\ Keep /\ UNCHANGED <<tstate, procVars, job, chan, irq, arg, home, lk, items>>

\* scheduler_yield() in the loop of a kernel thread (the console's), which
\* goes on with the interrupt flag that schedule() leaves it.
Yield(c) ==
    /\ At(c, "user") /\ "yield" \in Calls[current[c]] /\ tstate[current[c]] = "RUNNING"
    /\ schedule(c, "user")

-----------------------------------------------------------------------------
(* Process creation and termination.                                       *)

\* A new process with main thread p, bound to core b; it is in the process list
\* and READY when t, with interrupts off, starts to put it into the queue of
\* core q.
Create(t, p, par, b, q) ==
    /\ tstate[p] = "NONE" /\ list_lock = NULL
    /\ tstate' = [tstate EXCEPT ![p] = "READY"]
    /\ pstate' = [pstate EXCEPT ![p] = "READY"]
    /\ parent' = [parent EXCEPT ![p] = par]
    /\ cpu_id' = [cpu_id EXCEPT ![p] = b]
    /\ Begin(t, "clear", q, p)
    /\ irq' = [irq EXCEPT ![t] = FALSE]
    /\ Goto(t, "leave")
    /\ Keep /\ UNCHANGED <<chan, arg, home, lockVars>>

\* fork -> clone: bound to the core get_cpu_id_with_fewest_threads returns,
\* queued on the current one.  The count walks queues that other cores change
\* under it: any core may come out.
Fork(c) ==
    /\ At(c, "user") /\ "fork" \in Calls[current[c]]
    /\ \E p \in Thread, b \in CPU : Create(current[c], p, current[c], b, c)

\* sys_process_spawn -> scheduler_ready_process: bound to and queued on that
\* core; the ppid of the new process stays 0.
Spawn(c) ==
    /\ At(c, "user") /\ "spawn" \in Calls[current[c]]
    /\ \E p \in Thread, b \in CPU : Create(current[c], p, NULL, b, b)

\* scheduler_exit, interrupts off from here on.
Exit(c) ==
    LET t == current[c]
    IN  /\ At(c, "user") /\ "exit" \in Calls[t]
        /\ tstate' = [tstate EXCEPT ![t] = "DEAD"]
        /\ irq' = [irq EXCEPT ![t] = FALSE]
        /\ Goto(t, "exit_zombie")
        /\ Keep /\ UNCHANGED <<procVars, job, chan, arg, home, lockVars>>

ExitZombie(c) ==
    LET t == current[c]
    IN  /\ At(c, "exit_zombie")
        /\ pstate' = [pstate EXCEPT ![t] = "ZOMBIE"]
        /\ Goto(t, "exit_wake")
        /\ Keep /\ UNCHANGED <<tstate, parent, cpu_id, job, chan, irq, arg, home, lockVars>>

\* Mutant of ExitWakeParent: any parent that is not running is made ready.
ExitWakeAnyParent(c) ==
    LET t == current[c]
        p == parent[t]
    IN  /\ At(c, "exit_wake") /\ list_lock = NULL
        /\ \/ /\ p # NULL /\ tstate[p] # "RUNNING"
              /\ MakeReady(t, p)
              /\ list_lock' = t
              /\ Goto(t, "exit_unlock")
           \/ /\ p # NULL => tstate[p] = "RUNNING"
              /\ Goto(t, "exit_switch")
              /\ UNCHANGED <<job, list_lock>>
        /\ Keep /\ UNCHANGED <<tstate, procVars, chan, irq, arg, home, lk, items, wait_lock>>

\* Under the process list lock: a parent found BLOCKED is made ready.
ExitWakeParent(c) ==
    LET t == current[c]
    IN  /\ At(c, "exit_wake") /\ list_lock = NULL
        /\ \/ /\ parent[t] # NULL /\ tstate[parent[t]] = "BLOCKED"
              /\ MakeReady(t, parent[t])
              /\ list_lock' = t
              /\ Goto(t, "exit_unlock")
           \/ /\ parent[t] # NULL => tstate[parent[t]] # "BLOCKED"
              /\ Goto(t, "exit_switch")
              /\ UNCHANGED <<job, list_lock>>
        /\ Keep /\ UNCHANGED <<tstate, procVars, chan, irq, arg, home, lk, items, wait_lock>>

ExitUnlock(c) ==
    LET t == current[c]
    IN  /\ At(c, "exit_unlock")
        /\ list_lock' = NULL
        /\ Goto(t, "exit_switch")
        /\ Keep /\ UNCHANGED <<tstate, procVars, job, chan, irq, arg, home, lk, items, wait_lock>>

\* The thread never comes back: the core takes the next one from its queue.
ExitSwitch(c) ==
    /\ At(c, "exit_switch")
    /\ ToSwitch(c, "head", NULL)
    /\ Goto(current[c], "gone")
    /\ UNCHANGED <<tstate, procVars, queueVars, job, current, chan, irq, arg, home, lockVars>>

-----------------------------------------------------------------------------
(* waitpid and kill.                                                       *)

\* Mutant of Matching: the ppid is not compared.
MatchingAnyone(t) == {p \in Thread : pstate[p] # "NONE" /\ arg[t] \in {NULL, p}}

\* The entries of the process list that the waitpid of t is about: all its
\* children for pid -1 (argument NULL), or the one asked for.
Matching(t) ==
    {p \in Thread : pstate[p] # "NONE" /\ parent[p] = t /\ arg[t] \in {NULL, p}}

WaitPid(c) == \E pid \in Thread \cup {NULL} : Enter(c, "waitpid", "wp_scan", pid)

\* One scan of the process list under its lock, and what follows from it: a
\* zombie is collected, no match at all is an error, and anything else blocks.
WaitPidScan(c) ==
    LET t == current[c]
    IN  /\ At(c, "wp_scan") /\ list_lock = NULL
        /\ \/ \E p \in Matching(t) :
              /\ pstate[p] = "ZOMBIE"
              /\ pstate' = [pstate EXCEPT ![p] = "DEAD"]
              /\ Return(t)
           \/ /\ Matching(t) = {}
              /\ Return(t)
              /\ UNCHANGED pstate
           \/ /\ Matching(t) # {} /\ \A p \in Matching(t) : pstate[p] # "ZOMBIE"
              /\ Goto(t, "wp_block")
              /\ UNCHANGED <<pstate, irq, arg, home>>
        /\ Keep /\ UNCHANGED <<tstate, parent, cpu_id, job, chan, lockVars>>

\* cpu->current_thread->state = THREAD_BLOCKED, through the pointer taken when
\* the call started: the thread that core runs by now.
WaitPidBlock(c) ==
    LET t == current[c]
        victim == current[home[t]]
    IN  /\ At(c, "wp_block")
        /\ tstate' = [p \in Thread |-> IF p = victim THEN "BLOCKED" ELSE tstate[p]]
        /\ Goto(t, "wp_sched")
        /\ Keep /\ UNCHANGED <<procVars, job, chan, irq, arg, home, lockVars>>

WaitPidSchedule(c) == At(c, "wp_sched") /\ schedule(c, "wp_scan")

\* sys_kill: the target is looked up, a zombie refused, and the state of its
\* main thread read; only a thread neither ready nor running is made ready.
Kill(c) ==
    \E p \in Thread :
        /\ p # current[c] /\ pstate[p] \notin {"NONE", "ZOMBIE"}
        /\ tstate[p] \notin {"READY", "RUNNING"}
        /\ Enter(c, "kill", "kill_ready", p)

\* scheduler_ready_thread on the target, some time after the test and with
\* interrupts on.
KillReady(c) ==
    LET t == current[c]
    IN  /\ At(c, "kill_ready")
        /\ MakeReady(t, arg[t])
        /\ Goto(t, "leave")
        /\ Keep /\ UNCHANGED <<tstate, procVars, chan, irq, arg, home, lockVars>>

-----------------------------------------------------------------------------

Step(c) ==
    \/ Read(c) \/ Write(c) \/ Lock(c) \/ Unlock(c) \/ ReadTest(c)
    \/ WaitMark(c) \/ WaitUnlock(c) \/ WaitSchedule(c)
    \/ WritePut(c) \/ WakeList(c) \/ WakeOne(c) \/ WakeDone(c)
    \/ Yield(c) \/ Fork(c) \/ Spawn(c) \/ Leave(c)
    \/ Exit(c) \/ ExitZombie(c) \/ ExitWakeParent(c) \/ ExitUnlock(c) \/ ExitSwitch(c)
    \/ WaitPid(c) \/ WaitPidScan(c) \/ WaitPidBlock(c) \/ WaitPidSchedule(c)
    \/ Kill(c) \/ KillReady(c)

Next ==
    \/ \E c \in CPU : Timer(c) \/ SwitchStep(c) \/ Step(c)
    \/ \E a \in Actor : JobStep(a)

Spec == Init /\ [][Next]_vars

\* A core goes through a switch it has begun, a thread in the middle of a call
\* goes on when its core runs it, a kernel thread's loop comes round to its
\* yield, and every core takes timer interrupts; a program may stay in user
\* mode for ever.
Continue(c) == current[c] # Idle /\ pc[current[c]] # "user" /\ Step(c)
Fairness ==
    /\ \A c \in CPU : /\ WF_vars(SwitchStep(c)) /\ WF_vars(Timer(c))
                      /\ WF_vars(Continue(c)) /\ WF_vars(Yield(c))
    /\ \A a \in Actor : WF_vars(JobStep(a))

FairSpec == Spec /\ Fairness

-----------------------------------------------------------------------------
(* Properties.                                                             *)

\* Every variable keeps its type; in particular a tty queue never holds more
\* than its buffer (tty_write_to_in_queue drops what does not fit).
TypeOK ==
    /\ tstate \in [Thread -> ThreadStates]
    /\ pstate \in [Thread -> ProcessStates]
    /\ parent \in [Thread -> Thread \cup {NULL}]
    /\ cpu_id \in [Thread -> CPU \cup {NULL}]
    /\ head \in [CPU -> Thread \cup {NULL}] /\ tail \in [CPU -> Thread \cup {NULL}]
    /\ nxt \in [Thread -> Thread \cup {NULL}]
    /\ sw \in [CPU -> [at : SwitchLabels, th : Thread \cup {NULL, Idle}]]
    /\ job \in [Actor -> [at : JobLabels, q : CPU \cup {NULL}, th : Thread \cup {NULL}]]
    /\ current \in [CPU -> Thread \cup {Idle}]
    /\ chan \in [Thread -> Chan \cup {NULL}]
    /\ pc \in [Thread -> Labels]
    /\ irq \in [Thread -> BOOLEAN]
    /\ arg \in [Thread -> Chan \cup Thread \cup {NULL}]
    /\ home \in [Thread -> CPU \cup {NULL}]
    /\ lk \in [Chan -> Thread \cup {NULL}]
    /\ items \in [Chan -> 0 .. MaxItems]
    /\ wait_lock \in Thread \cup {NULL} /\ list_lock \in Thread \cup {NULL}

\* The threads linked in the queue of core c.
Linked(c) ==
    LET up[n \in 0 .. Cardinality(Thread)] ==
            IF n = 0 THEN {head[c]} \ {NULL}
            ELSE up[n - 1] \cup ({nxt[t] : t \in up[n - 1]} \ {NULL})
    IN  up[Cardinality(Thread)]

\* scheduler_ready_process puts a thread "na fila de execução da CPU correta de
\* forma segura" (scheduler.c): while no core switches and nobody is inside
\* enqueue_thread, a thread that is READY is linked in the queue of the core it
\* is bound to.  A thread that is not will never run.  This is so on one core,
\* where the interrupt flag keeps list operations apart, and not on two.
ReadyIsQueued ==
    (\A c \in CPU : sw[c] = Running) /\ (\A a \in Actor : job[a] = NoJob) =>
        \A t \in Thread : tstate[t] = "READY" => t \in Linked(cpu_id[t])

\* No wakeup is lost: while data is in a resource nobody sleeps on it, unless
\* the writer that put it there is still on its way through wakeup().
NoLostWakeup ==
    \A t \in Thread, ch \in Chan :
        Sleeping(t, ch) /\ items[ch] > 0 =>
            wait_lock # NULL /\ arg[wait_lock] = ch

\* A terminated thread is never scheduled again.
DeadStaysDead ==
    [][\A t \in Thread : tstate[t] = "DEAD" => tstate'[t] = "DEAD"]_vars

\* A zombie stays until its own parent collects it, and only once: no other
\* process state change follows the exit.
CollectedByParentOnly ==
    [][\A p \in Thread : pstate[p] \in {"ZOMBIE", "DEAD"} /\ pstate'[p] # pstate[p] =>
          \E c \in CPU : At(c, "wp_scan") /\ parent[p] = current[c] /\ pstate'[p] = "DEAD"]_vars

\* Round robin starves nobody on a single core: a thread made ready by fork,
\* exit or task_switch gets its core, whatever is linked and unlinked meanwhile.
ReadyRuns ==
    \A t \in Thread : tstate[t] = "READY" ~> (\E c \in CPU : current[c] = t)

-----------------------------------------------------------------------------
(* Strengthenings of the properties above into inductive invariants.       *)

LockLabels ==
    {"read_test", "wait_mark", "wait_unlock", "write_put", "wake_list", "wakeup", "unlock"}

\* A reader or writer keeps the channel it was called with, a sender of a
\* signal the process.
ArgTyped ==
    \A t \in Thread :
        /\ pc[t] \in LockLabels \cup {"read_lock", "write_lock", "wait_sched"} => arg[t] \in Chan
        /\ pc[t] = "kill_ready" => arg[t] \in Thread

\* What task_switch has in hand: a thread it dequeues, a thread or idle to run.
SwitchTyped ==
    \A c \in CPU :
        /\ sw[c].at \in {"pop", "last", "unlink", "skip"} => sw[c].th \in Thread
        /\ sw[c].at \in {"state", "set"} => sw[c].th \in Thread \cup {Idle}
        /\ sw[c].at = "requeue" => current[c] \in Thread
TypeInv == TypeOK /\ ArgTyped /\ SwitchTyped

\* The resource lock is held exactly from its acquisition to its release.
HolderInside ==
    \A t \in Thread : pc[t] \in LockLabels => lk[arg[t]] = t

\* What a reader saw before it sleeps is still so: the resource is empty.
EmptyBeforeSleep == \A t \in Thread : pc[t] = "wait_mark" => items[arg[t]] = 0

\* g_wait_lock is held exactly by the thread inside wakeup().
WakerHoldsWaitLock ==
    \A t \in Thread : wait_lock = t <=> pc[t] \in {"wake_list", "wakeup"}

WakePart == NoLostWakeup /\ HolderInside /\ EmptyBeforeSleep /\ WakerHoldsWaitLock
WakeInv == TypeInv /\ WakePart
=============================================================================
