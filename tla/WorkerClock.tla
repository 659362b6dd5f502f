----------------------------- MODULE WorkerClock -----------------------------
(* The wall clock the worker's handlers read with Date.now(). *)
EXTENDS Naturals

CONSTANT MaxClock  \* bound on the clock

VARIABLE clock
=============================================================================
