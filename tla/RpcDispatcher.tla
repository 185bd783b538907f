--------------------------- MODULE RpcDispatcher ---------------------------
(***************************************************************************)
(* rpc::RpcDispatcher as operators.  A dotted name is the sequence of the  *)
(* parts between its dots.  m_service_map is a set of services, each with  *)
(* its full name and its methods, no two with the same name.               *)
(*                                                                         *)
(* A request carries a name and whether its data can be parsed, and        *)
(* whether what the method leaves in the response can be serialized.       *)
(***************************************************************************)
EXTENDS Naturals, Sequences

ERROR_FAILED_DESERIALIZE == 3
ERROR_SERVICE_NOT_FOUND == 8
ERROR_METHOD_NOT_FOUND == 9
ERROR_PARSE_SERVICE_NAME == 10

(* parse_service_full_name fails without a dot, and splits at the first.   *)
Parses(full_name) == Len(full_name) > 1
service_name(full_name) == <<Head(full_name)>>
method_name(full_name) == Tail(full_name)

(* A bug to catch: only the part behind the last dot is looked for.        *)
FindMethodMixed(service, full_name) ==
  full_name[Len(full_name)] \in service.methods

(* FindMethodByName(method_name): a method's name has no dot.              *)
FindMethod(service, full_name) ==
  \E m \in service.methods : method_name(full_name) = <<m>>

(* A bug to catch: a service of the same name stays.                       *)
RegisterServiceKept(m_service_map, service) ==
  IF \E s \in m_service_map : s.name = service.name
    THEN m_service_map ELSE m_service_map \cup {service}

(* register_service: a service of the same name is replaced.               *)
RegisterService(m_service_map, service) ==
  {s \in m_service_map : s.name # service.name} \cup {service}

(* dispatcher: the error code of the reply and the method that was called, *)
(* if any.                                                                 *)
NotCalled(code) == [err_code |-> code, called |-> {}]

Dispatch(m_service_map, request) ==
  LET name == request.name
      found == {s \in m_service_map : s.name = service_name(name)}
  IN CASE ~Parses(name) -> NotCalled(ERROR_PARSE_SERVICE_NAME)
       [] Parses(name) /\ found = {} -> NotCalled(ERROR_SERVICE_NOT_FOUND)
       [] OTHER ->
            LET service == CHOOSE s \in found : TRUE
            IN CASE ~FindMethod(service, name) ->
                      NotCalled(ERROR_METHOD_NOT_FOUND)
                 [] FindMethod(service, name) /\ ~request.parses ->
                      NotCalled(ERROR_FAILED_DESERIALIZE)
                 [] OTHER ->
                      [err_code |-> IF request.serializes THEN 0
                                    ELSE ERROR_SERVICE_NOT_FOUND,
                       called |-> {[service |-> service,
                                    method |-> method_name(name)[1]]}]
=============================================================================
