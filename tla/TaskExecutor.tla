---------------------------- MODULE TaskExecutor ----------------------------
(***************************************************************************)
(* What an event loop promises to the threads that post work to it.        *)
(* Posted tasks are numbered in the order in which they were accepted; the *)
(* loop runs each of them once, in that order, until it is stopped.  How   *)
(* the loop learns that there is work, and in which batches it takes it,   *)
(* is left to the implementation (module EventLoop).                       *)
(***************************************************************************)
EXTENDS Naturals

VARIABLES posted,    \* how many tasks have been accepted
          ran,       \* how many of them have been run
          stopped    \* stop() has been called

vars == <<posted, ran, stopped>>

Init == posted = 0 /\ ran = 0 /\ stopped = FALSE

Post == posted' = posted + 1 /\ UNCHANGED <<ran, stopped>>

(* The oldest task that has not run is the only one that may run next.     *)
Run == ran < posted /\ ran' = ran + 1 /\ UNCHANGED <<posted, stopped>>

Stop == stopped' = TRUE /\ UNCHANGED <<posted, ran>>

Next == Post \/ Run \/ Stop

Spec == Init /\ [][Next]_vars
=============================================================================
