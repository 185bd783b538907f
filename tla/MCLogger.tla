----------------------------- MODULE MCLogger -----------------------------
(* Instances of Logger for TLC. *)
EXTENDS Logger

CONSTANTS t1, t2   \* application threads

(* Two threads that get in each other's way, and one thread over several   *)
(* days and runs of the process.                                           *)
MCLoads == {[threads |-> {t1, t2}, batches |-> 2, days |-> 1, restarts |-> 0],
            [threads |-> {t1}, batches |-> 2, days |-> 2, restarts |-> 1]}
=============================================================================
