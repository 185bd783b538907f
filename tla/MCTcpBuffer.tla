---------------------------- MODULE MCTcpBuffer ----------------------------
(* Instances of TcpBuffer for TLC: a byte is a or z, and z fills vectors. *)
EXTENDS TcpBuffer

CONSTANTS a, z
=============================================================================
