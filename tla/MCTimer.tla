------------------------------ MODULE MCTimer ------------------------------
(* Instances of Timer for TLC. *)
EXTENDS Timer, TLC

CONSTANTS e1, e2

TwoEvents == {e1, e2}

(* e1 arrives before e2, so that an event added later can be due earlier.  *)
MCInterval == (e1 :> 1) @@ (e2 :> 3)
=============================================================================
