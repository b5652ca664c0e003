------------------------- MODULE MCRuntimeOwnership -------------------------
(* Three tasks compete for the engine with a module that needs every stage. *)
EXTENDS RuntimeOwnership

CONSTANTS t1, t2, t3
MCTasks   == {t1, t2, t3}
MCImports == {"monotonic_time", "log", "timer"}
=============================================================================
