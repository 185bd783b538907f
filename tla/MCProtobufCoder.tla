-------------------------- MODULE MCProtobufCoder --------------------------
(* Instances of ProtobufCoder for TLC. *)
EXTENDS ProtobufCoder

(* A request with every field in use, whose data holds both the start and  *)
(* the end byte, and a reply without an id, whose fields are empty.        *)
MCMessages ==
  { [msg_id |-> <<97>>, method_name |-> <<98>>, err_code |-> 0,
     err_info |-> << >>, pb_data |-> <<s_start, s_end>>],
    [msg_id |-> << >>, method_name |-> << >>, err_code |-> 200,
     err_info |-> <<99>>, pb_data |-> << >>] }

(* Requests with other codes, whose data holds the bytes of a small frame. *)
MCNested ==
  { [msg_id |-> <<97>>, method_name |-> <<98>>, err_code |-> code,
     err_info |-> << >>, pb_data |-> <<s_start, 0, 4, s_end>>]
      : code \in {0, 1} }

(* A request whose data holds an end byte and a start byte behind it.      *)
MCPair ==
  { [msg_id |-> <<97>>, method_name |-> <<98>>, err_code |-> 0,
     err_info |-> << >>, pb_data |-> <<s_end, s_start>>] }

(* The messages of the first instance are such as decode can tell apart    *)
(* and does not stop at, those of the others are not.                      *)
ASSUME InstancesDiffer ==
  /\ \A m \in MCMessages : /\ Decodable(WithId(m))
                           /\ HoldsNoPair(EncodeProtobuf(WithId(m)))
  /\ \A m \in MCNested : ~Decodable(WithId(m))
  /\ \A m \in MCPair : /\ Decodable(WithId(m))
                       /\ ~HoldsNoPair(EncodeProtobuf(WithId(m)))
=============================================================================
