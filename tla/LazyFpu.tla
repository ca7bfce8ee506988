------------------------------ MODULE LazyFpu ------------------------------
(***************************************************************************)
(* Lazy switching of the FPU/SSE/AVX registers (fault.c, task_switch).     *)
(*                                                                         *)
(* A core's registers stay with the thread that used them last, its        *)
(* fpu_owner_thread, until another thread touches them: task_switch only   *)
(* sets CR0.TS, and the first FPU instruction after that traps (#NM) to    *)
(* the handler that saves the owner's registers and loads the thread's.    *)
(* Threads stay on the core they are bound to.                             *)
(*                                                                         *)
(* The kernel is such a user itself: optimized_memcpy and                  *)
(* optimized_memset_dword move data through XMM/YMM registers inside a     *)
(* system call of the current thread (tty.c, console.c), and save nothing. *)
(*                                                                         *)
(* The contents of registers and save areas are abstracted to who wrote    *)
(* them (NULL for the kernel) and in which of its writes.                  *)
(***************************************************************************)
EXTENDS Cores, Integers

CONSTANTS
    Home,       \* the core each thread is bound to
    Users,      \* the threads whose programs use the FPU
    Callers,    \* the threads in whose system calls the kernel uses it
    MaxWrites   \* bound on the writes of a thread

VARIABLES
    owner,      \* cpu->fpu_owner_thread
    ts,         \* CR0.TS
    regs,       \* the FPU registers of a core
    saved,      \* thread->fpu_state
    flag,       \* exit_code = 0x1337FB: the save area is in use
    writes,     \* how often the thread has written the registers
    dead        \* the threads that have exited

fpuVars == <<current, owner, ts, regs, saved, flag, writes, dead>>

Clean == [by |-> NULL, nr |-> 0]
Copied == [by |-> NULL, nr |-> 1]
Contents == [by : Thread \cup {NULL}, nr : Nat]

\* scheduler_init, arch_init_fpu_core.
FpuInit ==
    /\ current = [c \in CPU |-> Idle]
    /\ owner = [c \in CPU |-> NULL]
    /\ ts = [c \in CPU |-> FALSE]
    /\ regs = [c \in CPU |-> Clean]
    /\ saved = [t \in Thread |-> Clean]
    /\ flag = [t \in Thread |-> FALSE]
    /\ writes = [t \in Thread |-> 0]
    /\ dead = {}

\* What core c can run next: its idle thread or a live thread bound to it.
CanRun(c) == {Idle} \cup {t \in Thread \ dead : Home[t] = c}

\* task_switch; TS is never cleared here.
Switch(c, t) ==
    /\ current' = [current EXCEPT ![c] = t]
    /\ ts' = [ts EXCEPT ![c] = @ \/ t # owner[c]]
    /\ UNCHANGED <<owner, regs, saved, flag, writes, dead>>

\* scheduler_exit: the next thread is entered without task_switch, and the
\* exit code replaces the flag.
FpuExit(c, t) ==
    /\ current[c] \in Thread
    /\ dead' = dead \cup {current[c]}
    /\ flag' = [flag EXCEPT ![current[c]] = FALSE]
    /\ current' = [current EXCEPT ![c] = t]
    /\ UNCHANGED <<owner, ts, regs, saved, writes>>

\* Step 2 of the handler: the registers go to the save area of the owner.
SaveOwner(c, t) ==
    IF owner[c] # NULL /\ owner[c] # t THEN [saved EXCEPT ![owner[c]] = regs[c]] ELSE saved

\* handle_device_not_available_exception.  A thread with a save area gets its
\* contents; the first time, its area gets what the registers hold (vzeroupper
\* clears the upper halves of the YMM registers only).
Trap(c) ==
    LET t == current[c]
    IN  /\ t \in Users \cup Callers /\ ts[c]
        /\ ts' = [ts EXCEPT ![c] = FALSE]
        /\ IF owner[c] = t THEN UNCHANGED <<owner, regs, saved, flag>>
           ELSE /\ owner' = [owner EXCEPT ![c] = t]
                /\ flag' = [flag EXCEPT ![t] = TRUE]
                /\ IF flag[t]
                   THEN regs' = [regs EXCEPT ![c] = saved[t]] /\ saved' = SaveOwner(c, t)
                   ELSE saved' = [SaveOwner(c, t) EXCEPT ![t] = regs[c]] /\ UNCHANGED regs
        /\ UNCHANGED <<current, writes, dead>>

\* The current thread computes: no trap while TS is clear.
Use(c) ==
    LET t == current[c]
    IN  /\ t \in Users /\ ~ts[c] /\ writes[t] < MaxWrites
        /\ writes' = [writes EXCEPT ![t] = @ + 1]
        /\ regs' = [regs EXCEPT ![c] = [by |-> t, nr |-> writes[t] + 1]]
        /\ UNCHANGED <<current, owner, ts, saved, flag, dead>>

\* optimized_memcpy or optimized_memset_dword in a call of the current thread.
KernelUse(c) ==
    /\ current[c] \in Callers /\ ~ts[c]
    /\ regs' = [regs EXCEPT ![c] = Copied]
    /\ UNCHANGED <<current, owner, ts, saved, flag, writes, dead>>

FpuNext ==
    \E c \in CPU :
        \/ \E t \in CanRun(c) : Switch(c, t)
        \/ \E t \in CanRun(c) \ {current[c]} : FpuExit(c, t)
        \/ Trap(c)
        \/ Use(c)
        \/ KernelUse(c)

FpuSpec == FpuInit /\ [][FpuNext]_fpuVars

-----------------------------------------------------------------------------
(* Properties.                                                             *)

\* What a thread wrote to the FPU is kept for it when the registers go to
\* another one: while no core's registers belong to a live thread, its save area
\* holds the values it wrote last.  Step 2 of the #NM handler says so ("Se outra
\* thread era a dona física do coprocessador, guarda o estado dela").  The code
\* breaks it in two ways: the kernel's own copies overwrite the state before it
\* is saved, and after scheduler_exit, which leaves TS alone, a thread computes
\* in registers that belong to the dead one.
Kept ==
    \A t \in Users \ dead :
        writes[t] > 0 /\ (\A c \in CPU : owner[c] # t /\ current[c] # t)
            => saved[t] = [by |-> t, nr |-> writes[t]]
=============================================================================
