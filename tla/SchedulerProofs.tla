-------------------------- MODULE SchedulerProofs --------------------------
(***************************************************************************)
(* Proofs about Scheduler, for any number of cores, threads and channels.  *)
(* Nothing here depends on the queues being what they should: the run      *)
(* sched_smp shows that they are not.                                      *)
(***************************************************************************)
EXTENDS Scheduler, TLAPS

\* A statement of enqueue_thread.
LEMMA JobType ==
    ASSUME TypeInv, NEW a \in Actor, JobStep(a)
    PROVE  TypeInv'
<1>. USE DEF TypeInv, procVars, callVars, lockVars, queueVars
<1>. DEFINE Rec == [at : JobLabels, q : CPU \cup {NULL}, th : Thread \cup {NULL}]
<1>1. job[a] \in Rec /\ job \in [Actor -> Rec]
  BY DEF TypeOK
<1>2. ASSUME NEW l \in JobLabels, ToJob(a, l) PROVE job' \in [Actor -> Rec]
  <2>1. [job[a] EXCEPT !.at = l] \in Rec
    BY <1>1
  <2>2. job' = [job EXCEPT ![a] = [job[a] EXCEPT !.at = l]]
    BY <1>2 DEF ToJob
  <2>. QED
    BY <1>1, <2>1, <2>2, Zenon
<1>3. NoJob \in Rec
  BY DEF NoJob, JobLabels
<1>4. job' \in [Actor -> Rec]
  <2>1. CASE JobReady(a) \/ JobClear(a) \/ JobTest(a) \/ JobHead(a) \/ JobLink(a)
    BY <1>2, <2>1 DEF JobReady, JobClear, JobTest, JobHead, JobLink, JobLabels
  <2>2. CASE JobTail(a)
    BY <1>1, <1>3, <2>2 DEF JobTail
  <2>. QED
    BY <2>1, <2>2 DEF JobStep
<1>5. tstate' \in [Thread -> ThreadStates]
  BY DEF TypeOK, JobStep, JobReady, JobClear, JobTest, JobHead, JobLink, JobTail, ThreadStates
<1>6. /\ head' \in [CPU -> Thread \cup {NULL}] /\ tail' \in [CPU -> Thread \cup {NULL}]
      /\ nxt' \in [Thread -> Thread \cup {NULL}]
  <2>1. job[a].th \in Thread \cup {NULL}
    BY <1>1
  <2>. QED
    BY <2>1 DEF TypeOK, JobStep, JobReady, JobClear, JobTest, JobHead, JobLink, JobTail
<1>7. UNCHANGED <<procVars, sw, current, callVars, lockVars>>
  BY DEF JobStep
<1>8. TypeOK'
  BY <1>4, <1>5, <1>6, <1>7 DEF TypeOK
<1>. QED
  BY <1>7, <1>8 DEF ArgTyped, SwitchTyped

\* A statement of task_switch.
LEMMA SwitchType ==
    ASSUME TypeInv, NEW c \in CPU, SwitchStep(c)
    PROVE  TypeInv'
<1>. USE DEF TypeInv, procVars, callVars, lockVars, queueVars
<1>. DEFINE Rec == [at : SwitchLabels, th : Thread \cup {NULL, Idle}]
            t == sw[c].th
            Typed(r) == /\ r \in Rec
                        /\ r.at \in {"pop", "last", "unlink", "skip"} => r.th \in Thread
                        /\ r.at \in {"state", "set"} => r.th \in Thread \cup {Idle}
                        /\ r.at = "requeue" => current[c] \in Thread
<1>1. sw \in [CPU -> Rec] /\ current[c] \in Thread \cup {Idle} /\ head[c] \in Thread \cup {NULL}
  BY DEF TypeOK
<1>2. /\ sw[c].at \in {"pop", "last", "unlink", "skip"} => t \in Thread
      /\ sw[c].at \in {"state", "set"} => t \in Thread \cup {Idle}
      /\ sw[c].at = "requeue" => current[c] \in Thread
  BY DEF SwitchTyped
<1>3. ASSUME NEW r, Typed(r), sw' = [sw EXCEPT ![c] = r],
             current' = current \/ (r = Running /\ \E u : current' = [current EXCEPT ![c] = u])
      PROVE  sw' \in [CPU -> Rec] /\ SwitchTyped'
  <2>1. ASSUME NEW d \in CPU, d # c PROVE sw'[d] = sw[d] /\ current'[d] = current[d]
    BY <1>3, <2>1 DEF TypeOK
  <2>2. sw'[c] = r /\ (r.at = "requeue" => current' = current)
    BY <1>1, <1>3 DEF Running
  <2>. QED
    BY <1>1, <1>3, <2>1, <2>2 DEF SwitchTyped
<1>4. ASSUME NEW l \in SwitchLabels, NEW u, Typed([at |-> l, th |-> u]), ToSwitch(c, l, u),
             current' = current
      PROVE  sw' \in [CPU -> Rec] /\ SwitchTyped'
  BY <1>3, <1>4 DEF ToSwitch
<1>. HIDE DEF Typed
<1>5. /\ \A l \in {"test", "head", "pick"} : Typed([at |-> l, th |-> NULL])
      /\ current[c] \in Thread => Typed([at |-> "requeue", th |-> NULL])
  BY DEF Typed, SwitchLabels
<1>6. \A l \in SwitchLabels \ {"requeue"}, u \in Thread : Typed([at |-> l, th |-> u])
  BY DEF Typed
<1>7. Typed([at |-> "state", th |-> Idle]) /\ Typed([at |-> "set", th |-> Idle]) /\ Typed(Running)
  BY DEF Typed, SwitchLabels, Running
<1>8. sw' \in [CPU -> Rec] /\ SwitchTyped'
  <2>. USE DEF AtSwitch
  <2>1. CASE SwitchTest(c)
    BY <1>1, <1>4, <1>5, <2>1 DEF SwitchTest, SwitchLabels
  <2>2. CASE SwitchRequeue(c)
    BY <1>4, <1>5, <2>2 DEF SwitchRequeue, SwitchLabels
  <2>3. CASE DequeueHead(c)
    <3>1. CASE head[c] = NULL
      BY <1>4, <1>5, <2>3, <3>1 DEF DequeueHead, SwitchLabels
    <3>2. CASE head[c] # NULL
      <4>1. head[c] \in Thread /\ ToSwitch(c, "pop", head[c]) /\ current' = current
        BY <1>1, <2>3, <3>2 DEF DequeueHead
      <4>. QED
        BY <1>4, <1>6, <4>1 DEF SwitchLabels
    <3>. QED
      BY <3>1, <3>2
  <2>4. CASE DequeuePop(c) \/ DequeueLast(c) \/ DequeueUnlink(c)
    <3>1. t \in Thread
      BY <1>2, <2>4 DEF DequeuePop, DequeueLast, DequeueUnlink
    <3>. QED
      BY <1>4, <1>6, <2>4, <3>1 DEF DequeuePop, DequeueLast, DequeueUnlink, SwitchLabels
  <2>5. CASE ExitSkip(c)
    <3>1. t \in Thread
      BY <1>2, <2>5 DEF ExitSkip
    <3>. QED
      BY <1>4, <1>5, <1>6, <2>5, <3>1 DEF ExitSkip, SwitchLabels
  <2>6. CASE SwitchPick(c)
    BY <1>1, <1>4, <1>6, <1>7, <2>6 DEF SwitchPick, SwitchLabels
  <2>7. CASE SwitchState(c)
    <3>1. t \in Thread \cup {Idle}
      BY <1>2, <2>7 DEF SwitchState
    <3>. QED
      BY <1>4, <1>6, <1>7, <2>7, <3>1 DEF SwitchState, SwitchLabels
  <2>8. CASE SwitchSet(c)
    BY <1>3, <1>7, <2>8 DEF SwitchSet
  <2>. QED
    BY <2>1, <2>2, <2>3, <2>4, <2>5, <2>6, <2>7, <2>8 DEF SwitchStep
<1>9. tstate' \in [Thread -> ThreadStates]
  BY DEF TypeOK, SwitchStep, SwitchTest, SwitchRequeue, DequeueHead, DequeuePop, DequeueLast,
         DequeueUnlink, ExitSkip, SwitchPick, SwitchState, SwitchSet, ThreadStates
<1>10. /\ head' \in [CPU -> Thread \cup {NULL}] /\ tail' \in [CPU -> Thread \cup {NULL}]
       /\ nxt' \in [Thread -> Thread \cup {NULL}]
  <2>1. CASE DequeuePop(c)
    <3>1. t \in Thread
      BY <1>2, <2>1 DEF DequeuePop, AtSwitch
    <3>. QED
      BY <2>1, <3>1 DEF TypeOK, DequeuePop
  <2>2. CASE DequeueLast(c) \/ DequeueUnlink(c)
    BY <2>2 DEF TypeOK, DequeueLast, DequeueUnlink
  <2>. QED
    BY <2>1, <2>2 DEF TypeOK, SwitchStep, SwitchTest, SwitchRequeue, DequeueHead, ExitSkip,
       SwitchPick, SwitchState, SwitchSet
<1>11. job' \in [Actor -> [at : JobLabels, q : CPU \cup {NULL}, th : Thread \cup {NULL}]]
  <2>1. CASE SwitchRequeue(c)
    BY <1>2, <2>1 DEF TypeOK, SwitchRequeue, Begin, JobLabels, AtSwitch, Actor
  <2>. QED
    BY <2>1 DEF TypeOK, SwitchStep, SwitchTest, DequeueHead, DequeuePop, DequeueLast,
       DequeueUnlink, ExitSkip, SwitchPick, SwitchState, SwitchSet
<1>12. current' \in [CPU -> Thread \cup {Idle}]
  <2>1. CASE SwitchSet(c)
    BY <1>2, <2>1 DEF TypeOK, SwitchSet, AtSwitch
  <2>. QED
    BY <2>1 DEF TypeOK, SwitchStep, SwitchTest, SwitchRequeue, DequeueHead, DequeuePop,
       DequeueLast, DequeueUnlink, ExitSkip, SwitchPick, SwitchState
<1>13. UNCHANGED <<procVars, callVars, lockVars>>
  BY DEF SwitchStep
<1>14. TypeOK'
  BY <1>8, <1>9, <1>10, <1>11, <1>12, <1>13 DEF TypeOK
<1>. QED
  BY <1>8, <1>13, <1>14 DEF ArgTyped

\* A switch begins on core c.
LEMMA BeginSwitch ==
    ASSUME TypeInv, NEW c \in CPU, NEW l \in {"test", "head"}, ToSwitch(c, l, NULL),
           UNCHANGED current
    PROVE  /\ sw' \in [CPU -> [at : SwitchLabels, th : Thread \cup {NULL, Idle}]]
           /\ SwitchTyped'
<1>1. [at |-> l, th |-> NULL] \in [at : SwitchLabels, th : Thread \cup {NULL, Idle}]
  BY DEF SwitchLabels
<1>. QED
  BY <1>1 DEF TypeInv, TypeOK, SwitchTyped, ToSwitch

\* An enqueue begins.
LEMMA BeginJob ==
    ASSUME TypeInv, NEW t \in Thread, NEW at \in JobLabels, NEW q \in CPU \cup {NULL},
           NEW p \in Thread, Begin(t, at, q, p)
    PROVE  job' \in [Actor -> [at : JobLabels, q : CPU \cup {NULL}, th : Thread \cup {NULL}]]
BY DEF TypeInv, TypeOK, Begin, Actor

LEMMA ReadyJob ==
    ASSUME TypeInv, NEW t \in Thread, NEW p \in Thread, MakeReady(t, p)
    PROVE  job' \in [Actor -> [at : JobLabels, q : CPU \cup {NULL}, th : Thread \cup {NULL}]]
<1>1. cpu_id[p] \in CPU \cup {NULL} /\ "ready" \in JobLabels
  BY DEF TypeInv, TypeOK, JobLabels
<1>. QED
  BY <1>1, BeginJob DEF MakeReady

LEMMA EnterType ==
    ASSUME TypeInv, NEW c \in CPU, NEW call, NEW label \in Labels,
           NEW a \in Chan \cup Thread \cup {NULL}, Enter(c, call, label, a)
    PROVE  TypeOK' /\ SwitchTyped'
<1>. USE DEF TypeInv
<1>1. pc' \in [Thread -> Labels]
  BY DEF TypeOK, Enter
<1>2. arg' \in [Thread -> Chan \cup Thread \cup {NULL}]
  BY DEF TypeOK, Enter
<1>3. home' \in [Thread -> CPU \cup {NULL}]
  BY DEF TypeOK, Enter
<1>. QED
  BY <1>1, <1>2, <1>3 DEF TypeOK, SwitchTyped, Enter, Keep, queueVars, procVars, lockVars

\* Nobody but a core's current thread takes a step.
LEMMA StepByThread ==
    ASSUME TypeOK, NEW c \in CPU, Step(c)
    PROVE  current[c] \in Thread
BY DEF TypeOK, Step, Read, Write, Enter, Lock, Unlock, ReadTest, WaitMark,
   WaitUnlock, WaitSchedule, WritePut, WakeList, WakeOne, WakeDone, Yield, Fork, Spawn,
   Leave, Exit, ExitZombie, ExitWakeParent, ExitUnlock, ExitSwitch, WaitPid, WaitPidScan,
   WaitPidBlock, WaitPidSchedule, Kill, KillReady, At

LEMMA TypeStep ==
    ASSUME TypeInv, NEW c \in CPU, Step(c)
    PROVE  TypeInv'
<1>. DEFINE t == current[c]
<1>. USE DEF TypeInv, procVars, lockVars, queueVars, Keep
<1>1. t \in Thread
  BY StepByThread
<1>2. CASE Read(c) \/ Write(c)
  <2>1. TypeOK' /\ SwitchTyped'
    BY <1>2, EnterType DEF Read, Write, Labels
  <2>2. ArgTyped'
    BY <1>1, <1>2 DEF TypeOK, ArgTyped, LockLabels, Read, Write, Enter
  <2>. QED
    BY <2>1, <2>2
<1>3. CASE WaitPid(c) \/ Kill(c)
  <2>1. TypeOK' /\ SwitchTyped'
    BY <1>3, EnterType DEF WaitPid, Kill, Labels
  <2>2. ArgTyped'
    <3>1. CASE WaitPid(c)
      BY <1>1, <3>1 DEF TypeOK, ArgTyped, LockLabels, WaitPid, Enter
    <3>2. CASE Kill(c)
      BY <1>1, <3>2 DEF TypeOK, ArgTyped, LockLabels, Kill, Enter
    <3>. QED
      BY <1>3, <3>1, <3>2
  <2>. QED
    BY <2>1, <2>2
<1>4. CASE Lock(c) \/ WaitUnlock(c)
  <2>1. TypeOK' /\ SwitchTyped'
    <3>1. pc' \in [Thread -> Labels]
      BY <1>1, <1>4 DEF TypeOK, Lock, WaitUnlock, Goto, Labels
    <3>2. lk' \in [Chan -> Thread \cup {NULL}]
      BY <1>1, <1>4 DEF TypeOK, Lock, WaitUnlock
    <3>. QED
      BY <1>4, <3>1, <3>2 DEF TypeOK, SwitchTyped, Lock, WaitUnlock
  <2>2. ArgTyped'
    BY <1>1, <1>4 DEF TypeOK, ArgTyped, LockLabels, Lock, WaitUnlock, Goto, At
  <2>. QED
    BY <2>1, <2>2
<1>5. CASE Unlock(c) \/ Leave(c)
  <2>1. TypeOK' /\ SwitchTyped'
    <3>1. /\ pc' \in [Thread -> Labels] /\ irq' \in [Thread -> BOOLEAN]
          /\ arg' \in [Thread -> Chan \cup Thread \cup {NULL}]
          /\ home' \in [Thread -> CPU \cup {NULL}]
      BY <1>1, <1>5 DEF TypeOK, Unlock, Leave, Return, Labels
    <3>2. lk' \in [Chan -> Thread \cup {NULL}]
      BY <1>1, <1>5 DEF TypeOK, Unlock, Leave
    <3>. QED
      BY <1>5, <3>1, <3>2 DEF TypeOK, SwitchTyped, Unlock, Leave
  <2>2. ArgTyped'
    BY <1>1, <1>5 DEF TypeOK, ArgTyped, LockLabels, Unlock, Leave, Return, At
  <2>. QED
    BY <2>1, <2>2
<1>6. CASE ReadTest(c)
  <2>1. TypeOK' /\ SwitchTyped'
    <3>1. arg[t] \in Chan
      BY <1>1, <1>6 DEF ArgTyped, LockLabels, ReadTest, At
    <3>2. items' \in [Chan -> 0 .. MaxItems]
      <4>1. items[arg[t]] \in 0 .. MaxItems
        BY <3>1 DEF TypeOK
      <4>2. CASE items[arg[t]] > 0 /\ items' = [items EXCEPT ![arg[t]] = @ - 1]
        <5>1. items[arg[t]] - 1 \in 0 .. MaxItems
          BY <4>1, <4>2, ItemsAssumption
        <5>. QED
          BY <3>1, <4>2, <5>1 DEF TypeOK
      <4>. QED
        BY <1>6, <4>2 DEF TypeOK, ReadTest
    <3>3. pc' \in [Thread -> Labels]
      BY <1>1, <1>6 DEF TypeOK, ReadTest, Goto, Labels
    <3>. QED
      BY <1>6, <3>2, <3>3 DEF TypeOK, SwitchTyped, ReadTest
  <2>2. ArgTyped'
    BY <1>1, <1>6, ItemsAssumption DEF TypeOK, ArgTyped, LockLabels, ReadTest, Goto, At
  <2>. QED
    BY <2>1, <2>2
<1>7. CASE WritePut(c)
  <2>1. TypeOK' /\ SwitchTyped'
    <3>1. arg[t] \in Chan
      BY <1>1, <1>7 DEF ArgTyped, LockLabels, WritePut, At
    <3>2. items' \in [Chan -> 0 .. MaxItems]
      BY <1>7, <3>1, ItemsAssumption DEF TypeOK, WritePut
    <3>3. pc' \in [Thread -> Labels]
      BY <1>1, <1>7 DEF TypeOK, WritePut, Goto, Labels
    <3>. QED
      BY <1>1, <1>7, <3>2, <3>3 DEF TypeOK, SwitchTyped, WritePut
  <2>2. ArgTyped'
    BY <1>1, <1>7, ItemsAssumption DEF TypeOK, ArgTyped, LockLabels, WritePut, Goto, At
  <2>. QED
    BY <2>1, <2>2
<1>8. CASE WaitMark(c)
  <2>1. TypeOK' /\ SwitchTyped'
    BY <1>1, <1>8 DEF TypeOK, SwitchTyped, ArgTyped, LockLabels, WaitMark, Goto, Labels,
                      ThreadStates, At
  <2>2. ArgTyped'
    BY <1>1, <1>8 DEF TypeOK, ArgTyped, LockLabels, WaitMark, Goto, At
  <2>. QED
    BY <2>1, <2>2
<1>9. CASE WaitSchedule(c) \/ WaitPidSchedule(c) \/ Yield(c)
  <2>1. PICK l \in {"read_lock", "wp_scan", "user"} :
           schedule(c, l) /\ (l = "read_lock" => At(c, "wait_sched"))
    BY <1>9 DEF WaitSchedule, WaitPidSchedule, Yield
  <2>2. sw' \in [CPU -> [at : SwitchLabels, th : Thread \cup {NULL, Idle}]] /\ SwitchTyped'
    BY <2>1, BeginSwitch DEF schedule
  <2>3. TypeOK'
    BY <1>1, <2>1, <2>2 DEF TypeOK, schedule, Labels
  <2>4. ArgTyped'
    BY <1>1, <2>1 DEF TypeOK, ArgTyped, LockLabels, schedule, At
  <2>. QED
    BY <2>2, <2>3, <2>4
<1>10. CASE WakeOne(c)
  <2>1. PICK p \in Thread : chan' = [chan EXCEPT ![p] = NULL] /\ MakeReady(t, p)
    BY <1>10 DEF WakeOne
  <2>2. TypeOK' /\ SwitchTyped'
    BY <1>1, <1>10, <2>1, ReadyJob DEF TypeOK, SwitchTyped, WakeOne
  <2>3. ArgTyped'
    BY <1>10 DEF ArgTyped, WakeOne
  <2>. QED
    BY <2>2, <2>3
<1>11. CASE WakeDone(c) \/ WakeList(c) \/ ExitUnlock(c)
  <2>1. TypeOK' /\ SwitchTyped'
    BY <1>1, <1>11 DEF TypeOK, SwitchTyped, WakeDone, WakeList, ExitUnlock, Goto, Labels, At
  <2>2. ArgTyped'
    BY <1>1, <1>11 DEF TypeOK, ArgTyped, LockLabels, WakeDone, WakeList, ExitUnlock, Goto, At
  <2>. QED
    BY <2>1, <2>2
<1>13. CASE Fork(c) \/ Spawn(c)
  <2>1. PICK p \in Thread, par \in Thread \cup {NULL}, b \in CPU, q \in CPU :
           Create(t, p, par, b, q)
    BY <1>1, <1>13 DEF Fork, Spawn
  <2>2. job' \in [Actor -> [at : JobLabels, q : CPU \cup {NULL}, th : Thread \cup {NULL}]]
    BY <1>1, <2>1, BeginJob DEF Create, JobLabels
  <2>3. TypeOK' /\ SwitchTyped'
    BY <1>1, <2>1, <2>2 DEF TypeOK, SwitchTyped, Create, Goto, Labels, ThreadStates,
                            ProcessStates
  <2>4. ArgTyped'
    BY <1>1, <2>1 DEF TypeOK, ArgTyped, LockLabels, Create, Goto
  <2>. QED
    BY <2>3, <2>4
<1>15. CASE Exit(c) \/ ExitZombie(c)
  <2>1. TypeOK' /\ SwitchTyped'
    <3>1. pc' \in [Thread -> Labels]
      BY <1>1, <1>15 DEF TypeOK, Exit, ExitZombie, Goto, Labels
    <3>2. CASE Exit(c)
      <4>1. tstate' \in [Thread -> ThreadStates] /\ irq' \in [Thread -> BOOLEAN]
        BY <1>1, <3>2 DEF TypeOK, Exit, ThreadStates
      <4>. QED
        BY <3>1, <3>2, <4>1 DEF TypeOK, SwitchTyped, Exit
    <3>3. CASE ExitZombie(c)
      <4>1. pstate' \in [Thread -> ProcessStates]
        BY <1>1, <3>3 DEF TypeOK, ExitZombie, ProcessStates
      <4>. QED
        BY <3>1, <3>3, <4>1 DEF TypeOK, SwitchTyped, ExitZombie
    <3>. QED
      BY <1>15, <3>2, <3>3
  <2>2. ArgTyped'
    BY <1>1, <1>15 DEF TypeOK, ArgTyped, LockLabels, Exit, ExitZombie, Goto
  <2>. QED
    BY <2>1, <2>2
<1>16. CASE ExitWakeParent(c)
  <2>1. job' \in [Actor -> [at : JobLabels, q : CPU \cup {NULL}, th : Thread \cup {NULL}]]
    <3>1. CASE parent[t] # NULL /\ MakeReady(t, parent[t])
      BY <1>1, <3>1, ReadyJob DEF TypeOK
    <3>. QED
      BY <1>16, <3>1 DEF TypeOK, ExitWakeParent
  <2>2. TypeOK' /\ SwitchTyped'
    BY <1>1, <1>16, <2>1 DEF TypeOK, SwitchTyped, ExitWakeParent, Goto, Labels
  <2>3. ArgTyped'
    BY <1>1, <1>16 DEF TypeOK, ArgTyped, LockLabels, ExitWakeParent, Goto
  <2>. QED
    BY <2>2, <2>3
<1>17. CASE ExitSwitch(c)
  <2>1. sw' \in [CPU -> [at : SwitchLabels, th : Thread \cup {NULL, Idle}]] /\ SwitchTyped'
    BY <1>17, BeginSwitch DEF ExitSwitch
  <2>2. TypeOK'
    BY <1>1, <1>17, <2>1 DEF TypeOK, ExitSwitch, Goto, Labels
  <2>3. ArgTyped'
    BY <1>1, <1>17 DEF TypeOK, ArgTyped, LockLabels, ExitSwitch, Goto
  <2>. QED
    BY <2>1, <2>2, <2>3
<1>18. CASE WaitPidScan(c)
  <2>1. TypeOK' /\ SwitchTyped'
    BY <1>1, <1>18 DEF TypeOK, SwitchTyped, WaitPidScan, Return, Goto, Labels, ProcessStates
  <2>2. ArgTyped'
    BY <1>1, <1>18 DEF TypeOK, ArgTyped, LockLabels, WaitPidScan, Return, Goto
  <2>. QED
    BY <2>1, <2>2
<1>19. CASE WaitPidBlock(c)
  <2>1. TypeOK' /\ SwitchTyped'
    BY <1>1, <1>19 DEF TypeOK, SwitchTyped, WaitPidBlock, Goto, Labels, ThreadStates
  <2>2. ArgTyped'
    BY <1>1, <1>19 DEF TypeOK, ArgTyped, LockLabels, WaitPidBlock, Goto
  <2>. QED
    BY <2>1, <2>2
<1>20. CASE KillReady(c)
  <2>1. arg[t] \in Thread /\ MakeReady(t, arg[t])
    BY <1>1, <1>20 DEF ArgTyped, KillReady, At
  <2>2. TypeOK' /\ SwitchTyped'
    BY <1>1, <1>20, <2>1, ReadyJob DEF TypeOK, SwitchTyped, KillReady, Goto, Labels
  <2>3. ArgTyped'
    BY <1>1, <1>20 DEF TypeOK, ArgTyped, LockLabels, KillReady, Goto
  <2>. QED
    BY <2>2, <2>3
<1>. QED
  BY <1>2, <1>3, <1>4, <1>5, <1>6, <1>7, <1>8, <1>9, <1>10, <1>11, <1>13,
     <1>15, <1>16, <1>17, <1>18, <1>19, <1>20 DEF Step

LEMMA TypeInit == Init => TypeInv
<1>. SUFFICES ASSUME Init PROVE TypeInv
  OBVIOUS
<1>1. cpu_id \in [Thread -> CPU \cup {NULL}]
  <2>1. ASSUME NEW t \in Thread, Booted(t)
        PROVE  (CHOOSE c \in CPU : t \in Boot(c)) \in CPU
    BY <2>1 DEF Booted
  <2>. QED
    BY <2>1 DEF Init
<1>2. /\ tstate \in [Thread -> ThreadStates] /\ pstate \in [Thread -> ProcessStates]
      /\ pc \in [Thread -> Labels] /\ irq \in [Thread -> BOOLEAN]
  BY DEF Init, ThreadStates, ProcessStates, Labels
<1>3. /\ head \in [CPU -> Thread \cup {NULL}] /\ tail \in [CPU -> Thread \cup {NULL}]
      /\ nxt \in [Thread -> Thread \cup {NULL}]
  <2>1. ASSUME NEW c \in CPU, BootQueue[c] # <<>>
        PROVE  BootQueue[c][1] \in Thread /\ BootQueue[c][Len(BootQueue[c])] \in Thread
    BY <2>1, BootAssumption
  <2>. QED
    BY <2>1 DEF Init
<1>4. items \in [Chan -> 0 .. MaxItems] /\ lk \in [Chan -> Thread \cup {NULL}]
  BY ItemsAssumption DEF Init
<1>5. /\ parent \in [Thread -> Thread \cup {NULL}] /\ chan \in [Thread -> Chan \cup {NULL}]
      /\ arg \in [Thread -> Chan \cup Thread \cup {NULL}] /\ home \in [Thread -> CPU \cup {NULL}]
      /\ wait_lock \in Thread \cup {NULL} /\ list_lock \in Thread \cup {NULL}
      /\ current \in [CPU -> Thread \cup {Idle}]
  BY DEF Init
<1>6. /\ sw \in [CPU -> [at : SwitchLabels, th : Thread \cup {NULL, Idle}]]
      /\ job \in [Actor -> [at : JobLabels, q : CPU \cup {NULL}, th : Thread \cup {NULL}]]
  BY DEF Init, Running, NoJob, SwitchLabels, JobLabels
<1>7. ArgTyped /\ SwitchTyped
  BY DEF Init, ArgTyped, SwitchTyped, LockLabels, Running
<1>. QED
  BY <1>1, <1>2, <1>3, <1>4, <1>5, <1>6, <1>7 DEF TypeInv, TypeOK

LEMMA TypeNext == TypeInv /\ [Next]_vars => TypeInv'
<1>. SUFFICES ASSUME TypeInv, [Next]_vars PROVE TypeInv'
  OBVIOUS
<1>1. CASE UNCHANGED vars
  BY <1>1 DEF TypeInv, TypeOK, ArgTyped, SwitchTyped, vars
<1>2. ASSUME NEW c \in CPU, Timer(c) PROVE TypeInv'
  <2>1. sw' \in [CPU -> [at : SwitchLabels, th : Thread \cup {NULL, Idle}]] /\ SwitchTyped'
    BY <1>2, BeginSwitch DEF Timer
  <2>. QED
    BY <1>2, <2>1 DEF TypeInv, TypeOK, ArgTyped, Timer, procVars, callVars, lockVars, queueVars
<1>. QED
  BY <1>1, <1>2, TypeStep, SwitchType, JobType DEF Next

\* Every variable of the scheduler keeps its type, whatever the programs call
\* and however the cores' list operations interleave.
THEOREM TypeCorrect == Spec => []TypeOK
<1>1. TypeInv => TypeOK
  BY DEF TypeInv
<1>. QED
  BY <1>1, TypeInit, TypeNext, PTL DEF Spec

-----------------------------------------------------------------------------
(* No wakeup is lost.                                                      *)

\* A step that puts nobody to sleep.
NoNewSleeper ==
    \A p \in Thread, ch \in Chan : tstate'[p] = "WAITING" /\ chan'[p] = ch => Sleeping(p, ch)

\* A step after which every thread is where it was, except ones that were
\* outside wakeup() and are outside the locked sections now.
OutsideLocks ==
    \A u \in Thread :
        \/ pc'[u] = pc[u] /\ arg'[u] = arg[u]
        \/ pc[u] \notin {"wake_list", "wakeup"} /\ pc'[u] \notin LockLabels

\* Steps that leave the locks and the data alone preserve the invariant.
LEMMA QuietStep ==
    ASSUME TypeInv, WakePart, NoNewSleeper, OutsideLocks, UNCHANGED <<lk, items, wait_lock>>
    PROVE  WakePart'
<1>. USE DEF WakePart, TypeInv
<1>1. HolderInside'
  BY DEF HolderInside, OutsideLocks
<1>2. EmptyBeforeSleep'
  BY DEF EmptyBeforeSleep, OutsideLocks, LockLabels
<1>3. WakerHoldsWaitLock'
  BY DEF WakerHoldsWaitLock, OutsideLocks, LockLabels
<1>4. NoLostWakeup'
  <2>. SUFFICES ASSUME NEW p \in Thread, NEW ch \in Chan,
                       tstate'[p] = "WAITING", chan'[p] = ch, items'[ch] > 0
                PROVE  wait_lock' # NULL /\ arg'[wait_lock'] = ch
    BY DEF NoLostWakeup, Sleeping
  <2>1. wait_lock # NULL /\ arg[wait_lock] = ch
    BY DEF NoNewSleeper, NoLostWakeup
  <2>2. wait_lock \in Thread /\ pc[wait_lock] \in {"wake_list", "wakeup"}
    BY <2>1 DEF TypeOK, WakerHoldsWaitLock
  <2>. QED
    BY <2>1, <2>2 DEF OutsideLocks
<1>. QED
  BY <1>1, <1>2, <1>3, <1>4

\* A statement of task_switch or of enqueue_thread puts nobody to sleep.
LEMMA QueueStepWakes ==
    ASSUME TypeInv, WakePart,
           (\E c \in CPU : SwitchStep(c) \/ Timer(c)) \/ (\E a \in Actor : JobStep(a))
    PROVE  WakePart'
<1>1. UNCHANGED callVars /\ UNCHANGED lockVars
  BY DEF SwitchStep, Timer, JobStep
<1>2. OutsideLocks
  BY <1>1 DEF OutsideLocks, callVars
<1>3. \A p \in Thread : tstate'[p] = "WAITING" => tstate[p] = "WAITING"
  <2>1. ASSUME NEW c \in CPU, SwitchStep(c), NEW p \in Thread, tstate'[p] = "WAITING"
        PROVE  tstate[p] = "WAITING"
    BY <2>1 DEF TypeInv, TypeOK, SwitchStep, SwitchTest, SwitchRequeue, DequeueHead, DequeuePop,
       DequeueLast, DequeueUnlink, ExitSkip, SwitchPick, SwitchState, SwitchSet
  <2>2. ASSUME NEW a \in Actor, JobStep(a), NEW p \in Thread, tstate'[p] = "WAITING"
        PROVE  tstate[p] = "WAITING"
    BY <2>2 DEF TypeInv, TypeOK, JobStep, JobReady, JobClear, JobTest, JobHead, JobLink, JobTail
  <2>. QED
    BY <2>1, <2>2 DEF Timer
<1>4. NoNewSleeper
  BY <1>1, <1>3 DEF NoNewSleeper, Sleeping, callVars
<1>. QED
  BY <1>1, <1>2, <1>4, QuietStep DEF lockVars

\* Steps outside the locked sections.
LEMMA WakeQuiet ==
    ASSUME TypeInv, WakePart, NEW c \in CPU, current[c] \in Thread,
           \/ Read(c) \/ Write(c) \/ WaitPid(c) \/ Kill(c) \/ WaitSchedule(c)
           \/ WaitPidSchedule(c) \/ WakeOne(c) \/ Yield(c) \/ Fork(c) \/ Spawn(c) \/ Leave(c)
           \/ Exit(c) \/ ExitZombie(c) \/ ExitWakeParent(c) \/ ExitUnlock(c) \/ ExitSwitch(c)
           \/ WaitPidScan(c) \/ WaitPidBlock(c) \/ KillReady(c)
    PROVE  WakePart'
<1>. USE DEF TypeInv, procVars, lockVars, Keep
<1>1. CASE Read(c) \/ Write(c) \/ WaitPid(c) \/ Kill(c)
  <2>1. PICK label \in {"read_lock", "write_lock", "wp_scan", "kill_ready"} :
            \E call, a : Enter(c, call, label, a)
    BY <1>1 DEF Read, Write, WaitPid, Kill
  <2>2. OutsideLocks
    BY <2>1 DEF TypeOK, OutsideLocks, LockLabels, Enter, At
  <2>3. NoNewSleeper
    BY <2>1 DEF NoNewSleeper, Sleeping, Enter
  <2>. QED
    BY <2>1, <2>2, <2>3, QuietStep DEF Enter
<1>2. CASE WaitSchedule(c) \/ WaitPidSchedule(c) \/ Yield(c)
  <2>1. PICK l \in {"read_lock", "wp_scan", "user"} :
           schedule(c, l) /\ pc[current[c]] \in {"wait_sched", "wp_sched", "user"}
    BY <1>2 DEF WaitSchedule, WaitPidSchedule, Yield, At
  <2>2. OutsideLocks
    BY <2>1 DEF TypeOK, OutsideLocks, LockLabels, schedule
  <2>3. NoNewSleeper
    BY <2>1 DEF NoNewSleeper, Sleeping, schedule
  <2>. QED
    BY <2>1, <2>2, <2>3, QuietStep DEF schedule
<1>3. CASE WakeOne(c)
  <2>1. NoNewSleeper
    BY <1>3, ChanAssumption DEF NoNewSleeper, Sleeping, WakeOne, TypeOK
  <2>. QED
    BY <1>3, <2>1, QuietStep DEF WakeOne, OutsideLocks
<1>5. CASE Fork(c) \/ Spawn(c)
  <2>1. PICK p, par, b, q : p \in Thread /\ Create(current[c], p, par, b, q) /\ At(c, "user")
    BY <1>5 DEF Fork, Spawn
  <2>2. NoNewSleeper
    BY <2>1 DEF TypeOK, NoNewSleeper, Sleeping, Create
  <2>3. OutsideLocks
    BY <2>1 DEF TypeOK, OutsideLocks, LockLabels, Create, Goto, At
  <2>. QED
    BY <2>1, <2>2, <2>3, QuietStep DEF Create
<1>6. CASE Exit(c) \/ ExitZombie(c) \/ ExitUnlock(c) \/ Leave(c)
  <2>1. OutsideLocks
    BY <1>6 DEF TypeOK, OutsideLocks, LockLabels, Exit, ExitZombie, ExitUnlock, Leave, Return,
                Goto, At
  <2>2. NoNewSleeper
    BY <1>6 DEF TypeOK, NoNewSleeper, Sleeping, Exit, ExitZombie, ExitUnlock, Leave
  <2>. QED
    BY <1>6, <2>1, <2>2, QuietStep DEF Exit, ExitZombie, ExitUnlock, Leave
<1>7. CASE ExitWakeParent(c) \/ ExitSwitch(c)
  <2>1. OutsideLocks
    BY <1>7 DEF TypeOK, OutsideLocks, LockLabels, ExitWakeParent, ExitSwitch, Goto, At
  <2>2. NoNewSleeper
    BY <1>7 DEF TypeOK, NoNewSleeper, Sleeping, ExitWakeParent, ExitSwitch
  <2>. QED
    BY <1>7, <2>1, <2>2, QuietStep DEF ExitWakeParent, ExitSwitch
<1>9. CASE WaitPidScan(c) \/ WaitPidBlock(c)
  <2>1. OutsideLocks
    BY <1>9 DEF TypeOK, OutsideLocks, LockLabels, WaitPidScan, WaitPidBlock, Return, Goto, At
  <2>2. NoNewSleeper
    BY <1>9 DEF TypeOK, NoNewSleeper, Sleeping, WaitPidScan, WaitPidBlock
  <2>. QED
    BY <1>9, <2>1, <2>2, QuietStep DEF WaitPidScan, WaitPidBlock
<1>10. CASE KillReady(c)
  <2>1. OutsideLocks
    BY <1>10 DEF TypeOK, OutsideLocks, LockLabels, KillReady, Goto, At
  <2>2. NoNewSleeper
    BY <1>10 DEF TypeOK, NoNewSleeper, Sleeping, KillReady
  <2>. QED
    BY <1>10, <2>1, <2>2, QuietStep DEF KillReady
<1>. QED
  BY <1>1, <1>2, <1>3, <1>5, <1>6, <1>7, <1>9, <1>10

\* Two threads in locked sections are at different resources.
LEMMA Exclusion ==
    ASSUME HolderInside, NEW t \in Thread, NEW u \in Thread, t # u,
           pc[t] \in LockLabels, pc[u] \in LockLabels
    PROVE  arg[t] # arg[u]
BY DEF HolderInside

\* Steps inside the locked sections.
LEMMA WakeLocked ==
    ASSUME TypeInv, WakePart, NEW c \in CPU, current[c] \in Thread,
           \/ Lock(c) \/ Unlock(c) \/ ReadTest(c) \/ WaitMark(c)
           \/ WaitUnlock(c) \/ WritePut(c) \/ WakeList(c) \/ WakeDone(c)
    PROVE  WakePart'
<1>. DEFINE t == current[c]
<1>. USE DEF TypeInv, procVars, lockVars, Keep, WakePart
<1>1. CASE Lock(c)
  <2>1. HolderInside'
    BY <1>1, ThreadAssumption DEF TypeOK, ArgTyped, HolderInside, LockLabels, Lock, Goto, At
  <2>2. EmptyBeforeSleep' /\ WakerHoldsWaitLock'
    BY <1>1 DEF TypeOK, EmptyBeforeSleep, WakerHoldsWaitLock, Lock, Goto, At
  <2>3. NoLostWakeup'
    BY <1>1 DEF NoLostWakeup, Sleeping, Lock
  <2>. QED
    BY <2>1, <2>2, <2>3
<1>2. CASE Unlock(c)
  <2>1. HolderInside'
    BY <1>2, Exclusion DEF TypeOK, HolderInside, LockLabels, Unlock, Return, At
  <2>2. EmptyBeforeSleep' /\ WakerHoldsWaitLock'
    BY <1>2 DEF TypeOK, EmptyBeforeSleep, WakerHoldsWaitLock, Unlock, Return, At
  <2>3. NoLostWakeup'
    BY <1>2 DEF TypeOK, NoLostWakeup, WakerHoldsWaitLock, Sleeping, Unlock, Return, At
  <2>. QED
    BY <2>1, <2>2, <2>3
<1>3. CASE ReadTest(c)
  <2>1. HolderInside' /\ WakerHoldsWaitLock'
    BY <1>3 DEF TypeOK, HolderInside, WakerHoldsWaitLock, LockLabels, ReadTest, Goto, At
  <2>2. arg[t] \in Chan /\ items[arg[t]] \in 0 .. MaxItems
    BY <1>3 DEF TypeOK, ArgTyped, LockLabels, ReadTest, At
  <2>3. EmptyBeforeSleep'
    <3>. SUFFICES ASSUME NEW u \in Thread, pc'[u] = "wait_mark" PROVE items'[arg'[u]] = 0
      BY DEF EmptyBeforeSleep
    <3>1. CASE u = t
      BY <1>3, <2>2, <3>1 DEF TypeOK, ReadTest, Goto, At
    <3>2. CASE u # t
      <4>1. pc[u] = "wait_mark" /\ pc[t] = "read_test" /\ arg' = arg
        BY <1>3, <3>2 DEF TypeOK, ReadTest, Goto, At
      <4>2. arg[u] # arg[t] /\ items[arg[u]] = 0
        BY <3>2, <4>1, Exclusion DEF EmptyBeforeSleep, LockLabels
      <4>3. items'[arg[u]] = items[arg[u]]
        BY <1>3, <2>2, <4>1, <4>2 DEF TypeOK, ArgTyped, LockLabels, ReadTest
      <4>. QED
        BY <4>1, <4>2, <4>3
    <3>. QED
      BY <3>1, <3>2
  <2>4. NoLostWakeup'
    <3>. SUFFICES ASSUME NEW p \in Thread, NEW ch \in Chan, Sleeping(p, ch), items'[ch] > 0
                  PROVE  wait_lock # NULL /\ arg[wait_lock] = ch
      BY <1>3 DEF NoLostWakeup, Sleeping, ReadTest
    <3>1. items'[ch] = items[ch] \/ (ch = arg[t] /\ items[ch] > 0)
      BY <1>3, <2>2 DEF TypeOK, ReadTest
    <3>. QED
      BY <3>1 DEF NoLostWakeup
  <2>. QED
    BY <2>1, <2>3, <2>4
<1>4. CASE WaitMark(c)
  <2>1. HolderInside' /\ WakerHoldsWaitLock' /\ EmptyBeforeSleep'
    BY <1>4 DEF TypeOK, HolderInside, WakerHoldsWaitLock, EmptyBeforeSleep, LockLabels,
                WaitMark, Goto, At
  <2>2. items[arg[t]] = 0
    BY <1>4 DEF EmptyBeforeSleep, WaitMark, At
  <2>3. NoLostWakeup'
    BY <1>4, <2>2 DEF TypeOK, NoLostWakeup, Sleeping, WaitMark
  <2>. QED
    BY <2>1, <2>3
<1>5. CASE WaitUnlock(c)
  <2>1. HolderInside'
    BY <1>5, Exclusion DEF TypeOK, HolderInside, LockLabels, WaitUnlock, Goto, At
  <2>2. EmptyBeforeSleep' /\ WakerHoldsWaitLock'
    BY <1>5 DEF TypeOK, EmptyBeforeSleep, WakerHoldsWaitLock, WaitUnlock, Goto, At
  <2>3. NoLostWakeup'
    BY <1>5 DEF NoLostWakeup, Sleeping, WaitUnlock
  <2>. QED
    BY <2>1, <2>2, <2>3
<1>6. CASE WritePut(c)
  <2>1. HolderInside'
    BY <1>6 DEF TypeOK, HolderInside, LockLabels, WritePut, Goto, At
  <2>2. WakerHoldsWaitLock'
    BY <1>6, ThreadAssumption DEF TypeOK, WakerHoldsWaitLock, WritePut, Goto, At
  <2>3. EmptyBeforeSleep'
    <3>. SUFFICES ASSUME NEW u \in Thread, pc'[u] = "wait_mark" PROVE items'[arg'[u]] = 0
      BY DEF EmptyBeforeSleep
    <3>1. u # t /\ pc[u] = "wait_mark" /\ pc[t] = "write_put" /\ arg' = arg
      BY <1>6 DEF TypeOK, WritePut, Goto, At
    <3>2. arg[u] # arg[t] /\ items[arg[u]] = 0 /\ arg[u] \in Chan
      BY <3>1, Exclusion DEF EmptyBeforeSleep, ArgTyped, LockLabels
    <3>. QED
      BY <1>6, <3>1, <3>2 DEF TypeOK, WritePut
  <2>4. NoLostWakeup'
    BY <1>6, ThreadAssumption DEF TypeOK, NoLostWakeup, Sleeping, WritePut
  <2>. QED
    BY <2>1, <2>2, <2>3, <2>4
<1>7. CASE WakeDone(c)
  <2>1. HolderInside' /\ EmptyBeforeSleep'
    BY <1>7 DEF TypeOK, HolderInside, EmptyBeforeSleep, LockLabels, WakeDone, Goto, At
  <2>2. WakerHoldsWaitLock'
    BY <1>7, ThreadAssumption DEF TypeOK, WakerHoldsWaitLock, WakeDone, Goto, At
  <2>3. NoLostWakeup'
    BY <1>7 DEF TypeOK, NoLostWakeup, WakerHoldsWaitLock, Sleeping, WakeDone, At
  <2>. QED
    BY <2>1, <2>2, <2>3
<1>8. CASE WakeList(c)
  <2>1. HolderInside' /\ EmptyBeforeSleep'
    BY <1>8 DEF TypeOK, HolderInside, EmptyBeforeSleep, LockLabels, WakeList, Goto, At
  <2>2. WakerHoldsWaitLock' /\ NoLostWakeup'
    BY <1>8 DEF TypeOK, WakerHoldsWaitLock, NoLostWakeup, Sleeping, WakeList, Goto, At
  <2>. QED
    BY <2>1, <2>2
<1>. QED
  BY <1>1, <1>2, <1>3, <1>4, <1>5, <1>6, <1>7, <1>8

\* wait() and wakeup() lose no wakeup, for any number of cores, readers and
\* writers and whatever else the programs call: the resource lock keeps a
\* writer out between a reader's test and the mark that wakeup() looks for.
THEOREM NoWakeupIsLost == Spec => []NoLostWakeup
<1>1. Init => TypeInv /\ WakePart
  BY TypeInit, ThreadAssumption
  DEF Init, WakePart, NoLostWakeup, Sleeping, HolderInside, EmptyBeforeSleep,
      WakerHoldsWaitLock, LockLabels
<1>2. TypeInv /\ WakePart /\ [Next]_vars => (TypeInv /\ WakePart)'
  <2>. SUFFICES ASSUME TypeInv, WakePart, [Next]_vars PROVE (TypeInv /\ WakePart)'
    OBVIOUS
  <2>1. TypeInv'
    BY TypeNext
  <2>2. WakePart'
    <3>1. CASE UNCHANGED vars
      BY <3>1 DEF vars, WakePart, NoLostWakeup, Sleeping, HolderInside,
                  EmptyBeforeSleep, WakerHoldsWaitLock
    <3>2. CASE (\E c \in CPU : SwitchStep(c) \/ Timer(c)) \/ (\E a \in Actor : JobStep(a))
      BY <3>2, QueueStepWakes
    <3>3. ASSUME NEW c \in CPU, Step(c) PROVE WakePart'
      BY <3>3, StepByThread, WakeQuiet, WakeLocked DEF TypeInv, Step
    <3>. QED
      BY <3>1, <3>2, <3>3 DEF Next
  <2>. QED
    BY <2>1, <2>2
<1>3. WakePart => NoLostWakeup
  BY DEF WakePart
<1>. QED
  BY <1>1, <1>2, <1>3, PTL DEF Spec

-----------------------------------------------------------------------------
(* Zombies.  Nothing here needs the queues: the argument is about labels   *)
(* only, so it holds with signals and with threads that change core.       *)

\* The labels of exit, and those behind the step that makes the process a zombie.
AfterExit == {"exit_wake", "exit_unlock", "exit_switch", "gone"}
InExit == AfterExit \cup {"exit_zombie"}

\* A thread inside exit has a control block, and the process of a thread is a
\* zombie, or collected, only behind the step of exit that says so.
ExitOrder ==
    /\ \A t \in Thread :
          pc[t] \in InExit => tstate[t] # "NONE"
    /\ \A t \in Thread :
          pstate[t] \in {"ZOMBIE", "DEAD"} => pc[t] \in AfterExit
ExitInv == TypeInv /\ ExitOrder

\* No step gives a control block back.
LEMMA NeverUnborn ==
    ASSUME TypeInv, NEW c \in CPU, Step(c), NEW u \in Thread, tstate[u] # "NONE"
    PROVE  tstate'[u] # "NONE"
<1>. USE DEF TypeInv
<1>1. CASE \/ Read(c) \/ Write(c) \/ WaitPid(c) \/ Kill(c) \/ Lock(c) \/ WaitUnlock(c)
           \/ Unlock(c) \/ ReadTest(c) \/ WritePut(c) \/ WakeDone(c) \/ ExitZombie(c)
           \/ WaitPidScan(c) \/ WakeList(c) \/ WakeOne(c) \/ ExitWakeParent(c)
           \/ ExitUnlock(c) \/ ExitSwitch(c) \/ KillReady(c) \/ Leave(c)
  BY <1>1 DEF Read, Write, WaitPid, Kill, Enter, Lock, WaitUnlock, Unlock, ReadTest,
              WritePut, WakeList, WakeOne, WakeDone, ExitZombie, ExitWakeParent, ExitUnlock,
              ExitSwitch, WaitPidScan, KillReady, Leave
<1>2. CASE WaitSchedule(c) \/ WaitPidSchedule(c) \/ Yield(c)
  BY <1>2 DEF WaitSchedule, WaitPidSchedule, Yield, schedule
<1>3. CASE WaitMark(c) \/ Exit(c) \/ WaitPidBlock(c)
  BY <1>3 DEF TypeOK, WaitMark, Exit, WaitPidBlock
<1>5. CASE Fork(c) \/ Spawn(c)
  BY <1>5 DEF TypeOK, Fork, Spawn, Create
<1>. QED
  BY <1>1, <1>2, <1>3, <1>5 DEF Step

\* Every step that is not one of exit, waitpid's scan or a creation leaves the
\* processes as they are and moves no thread into or out of exit.
LEMMA OutsideExit ==
    ASSUME ExitInv, NEW c \in CPU,
           \/ Leave(c) \/ Read(c) \/ Write(c) \/ WaitPid(c) \/ Kill(c) \/ Lock(c)
           \/ WaitUnlock(c) \/ Unlock(c) \/ ReadTest(c) \/ WritePut(c) \/ WakeOne(c)
           \/ WakeDone(c) \/ WaitMark(c) \/ WaitPidBlock(c) \/ WaitSchedule(c)
           \/ WaitPidSchedule(c) \/ Yield(c) \/ KillReady(c) \/ WakeList(c)
    PROVE  /\ pstate' = pstate
           /\ \A t \in Thread :
                 pc[t] \in InExit => pc'[t] = pc[t]
           /\ \A t \in Thread :
                 pc'[t] \in InExit => pc'[t] = pc[t]
<1>. USE DEF ExitInv, TypeInv, TypeOK, At, procVars, InExit, AfterExit
<1>1. CASE WakeOne(c)
  BY <1>1 DEF WakeOne
<1>2. CASE Read(c) \/ Write(c) \/ WaitPid(c) \/ Kill(c)
  BY <1>2 DEF Read, Write, WaitPid, Kill, Enter
<1>3. CASE \/ Lock(c) \/ WaitUnlock(c) \/ ReadTest(c) \/ WritePut(c)
           \/ WakeDone(c) \/ WakeList(c)
  BY <1>3 DEF Lock, WaitUnlock, ReadTest, WritePut, WakeDone, WakeList, Goto
<1>4. CASE WaitMark(c) \/ WaitPidBlock(c)
  BY <1>4 DEF WaitMark, WaitPidBlock, Goto
<1>5. CASE WaitSchedule(c) \/ WaitPidSchedule(c) \/ Yield(c)
  BY <1>5 DEF WaitSchedule, WaitPidSchedule, Yield, schedule
<1>6. CASE Unlock(c) \/ Leave(c) \/ KillReady(c)
  BY <1>6 DEF Unlock, Leave, KillReady, Return, Goto
<1>. QED
  BY <1>1, <1>2, <1>3, <1>4, <1>5, <1>6

\* What a step may do to a process that has exited, and that it keeps the
\* order in which exit proceeds.
LEMMA ExitStep ==
    ASSUME ExitInv, NEW c \in CPU, Step(c)
    PROVE  /\ ExitOrder'
           /\ \A p \in Thread : pstate[p] \in {"ZOMBIE", "DEAD"} /\ pstate'[p] # pstate[p] =>
                 At(c, "wp_scan") /\ parent[p] = current[c] /\ pstate'[p] = "DEAD"
<1>. DEFINE t == current[c]
            Goal == /\ \A u \in Thread :
                          pc'[u] \in InExit
                             => tstate'[u] # "NONE"
                    /\ \A u \in Thread :
                          pstate'[u] \in {"ZOMBIE", "DEAD"} => pc'[u] \in AfterExit
                    /\ \A p \in Thread :
                          pstate[p] \in {"ZOMBIE", "DEAD"} /\ pstate'[p] # pstate[p] =>
                             At(c, "wp_scan") /\ parent[p] = t /\ pstate'[p] = "DEAD"
<1>. SUFFICES Goal
  BY DEF ExitOrder
<1>1. \A u \in Thread : tstate[u] # "NONE" => tstate'[u] # "NONE"
  BY NeverUnborn DEF ExitInv
<1>2. CASE \/ Leave(c) \/ Read(c) \/ Write(c) \/ WaitPid(c) \/ Kill(c) \/ Lock(c)
           \/ WaitUnlock(c) \/ Unlock(c) \/ ReadTest(c) \/ WritePut(c) \/ WakeOne(c)
           \/ WakeDone(c) \/ WaitMark(c) \/ WaitPidBlock(c) \/ WaitSchedule(c)
           \/ WaitPidSchedule(c) \/ Yield(c) \/ KillReady(c) \/ WakeList(c)
  BY <1>1, <1>2, OutsideExit DEF ExitInv, ExitOrder, InExit
<1>3. CASE Exit(c)
  BY <1>1, <1>3 DEF ExitInv, ExitOrder, TypeInv, TypeOK, Exit, At, Goto, procVars, InExit, AfterExit
<1>4. CASE ExitZombie(c)
  BY <1>1, <1>4 DEF ExitInv, ExitOrder, TypeInv, TypeOK, ExitZombie, At, Goto, InExit, AfterExit
<1>5. CASE ExitWakeParent(c) \/ ExitUnlock(c) \/ ExitSwitch(c)
  BY <1>1, <1>5 DEF ExitInv, ExitOrder, TypeInv, TypeOK, ExitWakeParent, ExitUnlock, ExitSwitch,
                    At, Goto, procVars, InExit, AfterExit
<1>6. CASE Fork(c) \/ Spawn(c)
  <2>1. PICK p \in Thread : /\ tstate[p] = "NONE" /\ pstate' = [pstate EXCEPT ![p] = "READY"]
                            /\ pc' = [pc EXCEPT ![t] = "leave"]
    BY <1>6 DEF Fork, Spawn, Create, Goto
  <2>2. pc[t] = "user" /\ t \in Thread
    BY <1>6, StepByThread DEF Step, Fork, Spawn, At, ExitInv, TypeInv
  <2>. QED
    BY <1>1, <2>1, <2>2 DEF ExitInv, ExitOrder, TypeInv, TypeOK, InExit, AfterExit
<1>7. CASE WaitPidScan(c)
  <2>1. At(c, "wp_scan") /\ t \in Thread
    BY <1>7, StepByThread DEF Step, WaitPidScan, ExitInv, TypeInv
  <2>2. /\ \A u \in Thread : u # t => pc'[u] = pc[u]
        /\ pc'[t] \notin InExit
    BY <1>7, <2>1 DEF ExitInv, TypeInv, TypeOK, WaitPidScan, Return, Goto, InExit, AfterExit
  <2>3. \/ pstate' = pstate
        \/ \E p \in Thread : /\ pstate[p] = "ZOMBIE" /\ parent[p] = t
                             /\ pstate' = [pstate EXCEPT ![p] = "DEAD"]
    BY <1>7 DEF WaitPidScan, Matching
  <2>. QED
    BY <1>1, <2>1, <2>2, <2>3 DEF ExitInv, ExitOrder, TypeInv, TypeOK, At, InExit, AfterExit
<1>. QED
  BY <1>2, <1>3, <1>4, <1>5, <1>6, <1>7 DEF Step

\* The switch and the queue operations leave the processes and labels alone.
LEMMA QueueStepExit ==
    ASSUME ExitInv,
           (\E c \in CPU : SwitchStep(c) \/ Timer(c)) \/ (\E a \in Actor : JobStep(a))
    PROVE  ExitOrder' /\ pstate' = pstate
<1>1. pstate' = pstate /\ pc' = pc
  BY DEF SwitchStep, Timer, JobStep, procVars, callVars
<1>2. \A p \in Thread : tstate[p] # "NONE" => tstate'[p] # "NONE"
  <2>1. ASSUME NEW c \in CPU, SwitchStep(c), NEW p \in Thread, tstate[p] # "NONE"
        PROVE  tstate'[p] # "NONE"
    BY <2>1 DEF ExitInv, TypeInv, TypeOK, SwitchStep, SwitchTest, SwitchRequeue, DequeueHead,
       DequeuePop, DequeueLast, DequeueUnlink, ExitSkip, SwitchPick, SwitchState, SwitchSet
  <2>2. ASSUME NEW a \in Actor, JobStep(a), NEW p \in Thread, tstate[p] # "NONE"
        PROVE  tstate'[p] # "NONE"
    BY <2>2 DEF ExitInv, TypeInv, TypeOK, JobStep, JobReady, JobClear, JobTest, JobHead,
       JobLink, JobTail
  <2>. QED
    BY <2>1, <2>2 DEF Timer
<1>. QED
  BY <1>1, <1>2 DEF ExitInv, ExitOrder

\* With any programs on any number of cores, signals included: a zombie stays
\* one until a waitpid of its own parent collects it, no process is collected
\* twice, and none comes back after its exit.
THEOREM ZombiesAreCollectedByParent == Spec => CollectedByParentOnly
<1>1. Init => ExitInv
  BY TypeInit DEF Init, ExitInv, ExitOrder, InExit, AfterExit
<1>2. ExitInv /\ [Next]_vars => ExitInv'
  <2>. SUFFICES ASSUME ExitInv, [Next]_vars PROVE ExitOrder'
    BY TypeNext DEF ExitInv
  <2>1. CASE UNCHANGED vars
    BY <2>1 DEF vars, ExitInv, ExitOrder
  <2>. QED
    BY <2>1, ExitStep, QueueStepExit DEF Next
<1>3. ExitInv /\ [Next]_vars =>
        [\A p \in Thread : pstate[p] \in {"ZOMBIE", "DEAD"} /\ pstate'[p] # pstate[p] =>
            \E c \in CPU : At(c, "wp_scan") /\ parent[p] = current[c] /\ pstate'[p] = "DEAD"]_vars
  BY ExitStep, QueueStepExit DEF Next
<1>. QED
  BY <1>1, <1>2, <1>3, PTL DEF Spec, CollectedByParentOnly

=============================================================================
