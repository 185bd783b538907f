-------------------------- MODULE MCTcpConnection --------------------------
(* Instances of TcpConnection for TLC.                                     *)
EXTENDS TcpConnection

(* Buffers that fill up, and buffers that never do.                        *)
TightAndRoomy == {[messages |-> 3, capacity |-> 6, buffer |-> 4, bound |-> 6],
                  [messages |-> 2, capacity |-> 36, buffer |-> 37, bound |-> 50]}

(* Six messages fit.                                                       *)
Six == {[messages |-> 2, capacity |-> 12, buffer |-> 13, bound |-> 40]}
=============================================================================
