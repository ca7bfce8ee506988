------------------------------- MODULE Cores -------------------------------
(***************************************************************************)
(* The cores and what each of them runs: the state that the scheduler      *)
(* (Scheduler) and the lazy switching of the FPU (LazyFpu) both read and   *)
(* that task_switch changes.                                               *)
(***************************************************************************)
CONSTANTS
    CPU,        \* identifiers of the cores
    Thread,     \* thread control blocks that may come into use
    Idle,       \* what a core runs when it has no thread: its idle thread
    NULL

VARIABLE current    \* cpu->current_thread of each core
=============================================================================
