---------------------------- MODULE MCEventLoop ----------------------------
(* Instances of EventLoop for TLC. *)
EXTENDS EventLoop, TLC

(* The threads that call into the loop are interchangeable.                *)
CallerSymmetry == Permutations(Callers)
=============================================================================
