---------------------------- MODULE MCScheduler ----------------------------
(* Small instances of Scheduler for TLC.                                   *)
EXTENDS Scheduler, TLC

CONSTANTS t1, t2, t3, t4

\* Two cores: a reader has the first, a writer and another program the second.
BootTwoCores == (0 :> <<t1>>) @@ (1 :> <<t2, t3>>)
\* One core, or the second one empty.
BootConsole == [c \in CPU |-> IF c = 0 THEN <<t4, t1>> ELSE <<>>]
\* One process on each core.
BootSplit == (0 :> <<t1>>) @@ (1 :> <<t2>>)

\* A reader, a writer on another core, and a program that signals
\* one of them and may end.
CallsTty == (t1 :> {"read"}) @@ (t2 :> {"write"}) @@ (t3 :> {"kill", "exit"})
\* A family next to the console's thread t4: t1 forks or starts others and
\* waits for them, and they may fork and exit.
CallsFamily ==
    [t \in Thread |-> CASE t = t4 -> {"yield"}
                       [] t = t1 -> {"fork", "spawn", "waitpid", "exit"}
                       [] OTHER  -> {"fork", "exit"}]
\* A process that starts another one, next to programs that only compute.
CallsSpawn == [t \in Thread |-> IF t = t1 THEN {"spawn"} ELSE {}]
=============================================================================
