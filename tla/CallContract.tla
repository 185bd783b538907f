---------------------------- MODULE CallContract ----------------------------
(***************************************************************************)
(* What a caller of RpcChannel::CallMethod can rely on.  A call starts as  *)
(* waiting; it ends at most once, by a success or by a timeout, and what   *)
(* its closure has been told is never taken back.  A failure that is only  *)
(* recorded in the controller ("error") may still be followed by the       *)
(* timeout, never by a success.                                            *)
(***************************************************************************)
CONSTANT Calls

VARIABLE outcome

Outcomes == {"none", "waiting", "error", "ok", "timeout"}

Init == outcome = [k \in Calls |-> "none"]

Move(k, from, to) ==
  outcome[k] \in from /\ outcome' = [outcome EXCEPT ![k] = to]

Next ==
  \E k \in Calls :
    \/ Move(k, {"none"}, "waiting")
    \/ Move(k, {"none", "waiting"}, "error")
    \/ Move(k, {"waiting"}, "ok")
    \/ Move(k, {"waiting", "error"}, "timeout")

Spec == Init /\ [][Next]_outcome
=============================================================================
