--------------------------- MODULE TcpServerProofs ---------------------------
(* Proofs of the safety properties of TcpServer and of the dispatch of     *)
(* requests, for any number of threads, clients, services and requests.    *)
EXTENDS TcpServer, FiniteSetTheorems, SequenceTheorems, TLAPS

USE DEF vars, threadVars, tableVars, serviceVars, askVars

-----------------------------------------------------------------------------
(* Operators.                                                              *)

(* The lowest free descriptor, when the open ones are the lowest.          *)
LEMMA MinOfRest ==
  ASSUME NEW a \in Int, NEW b \in Int, NEW c \in Int, a <= c, c <= b,
         NEW S, S = a..b \ a..(c - 1)
  PROVE  Min(S) = c
<1>1. S = c..b
  BY DEF Min
<1>2. \E x \in S : \A y \in S : x <= y
  BY <1>1
<1>3. \A x \in S : (\A y \in S : x <= y) => x = c
  BY <1>1
<1> QED BY <1>2, <1>3 DEF Min

(* Entry i of a new table is the FdEvent of descriptor i - 1.              *)
LEMMA EntriesAre ==
  ASSUME NEW a \in Nat
  PROVE  /\ Entries(0, a) \in Seq(Nat) /\ Len(Entries(0, a)) = a
         /\ \A i \in 1..a : Entries(0, a)[i] = i - 1
BY DEF Entries

(* The FdEvents of the creation and of a growth of the table are those of  *)
(* one longer table.                                                       *)
LEMMA EntriesJoin ==
  ASSUME NEW a \in Nat, NEW b \in Nat, a <= b
  PROVE  Entries(0, a) \o Entries(a, b) = Entries(0, b)
<1>1. /\ Entries(0, a) \in Seq(Nat) /\ Len(Entries(0, a)) = a
      /\ \A i \in 1..a : Entries(0, a)[i] = i - 1
  BY EntriesAre
<1>2. /\ Entries(a, b) \in Seq(Nat) /\ Len(Entries(a, b)) = b - a
      /\ \A i \in 1..(b - a) : Entries(a, b)[i] = a + i - 1
  BY DEF Entries
<1>3. /\ Entries(0, b) \in Seq(Nat) /\ Len(Entries(0, b)) = b
      /\ \A i \in 1..b : Entries(0, b)[i] = i - 1
  BY EntriesAre
<1>4. /\ Entries(0, a) \o Entries(a, b) \in Seq(Nat)
      /\ Len(Entries(0, a) \o Entries(a, b)) = b
      /\ \A i \in 1..b : (Entries(0, a) \o Entries(a, b))[i] = i - 1
  <2> DEFINE e == Entries(0, a)
             g == Entries(a, b)
  <2> HIDE DEF e, g
  <2>1. /\ e \o g \in Seq(Nat) /\ Len(e \o g) = Len(e) + Len(g)
        /\ \A i \in 1..(Len(e) + Len(g)) :
             (e \o g)[i] = IF i <= Len(e) THEN e[i] ELSE g[i - Len(e)]
    BY <1>1, <1>2, ConcatProperties DEF e, g
  <2> QED BY <1>1, <1>2, <2>1 DEF e, g
<1> QED BY <1>3, <1>4, SeqEqual

(* A sequence of one element is that element.                              *)
LEMMA Single ==
  ASSUME NEW S, NEW u \in Seq(S), u # << >>
  PROVE  (Len(u) = 1 <=> Tail(u) = << >>) /\ (Len(u) = 1 => u = <<Head(u)>>)
<1>1. Tail(u) \in Seq(S) /\ Len(Tail(u)) = Len(u) - 1 /\ Len(u) \in Nat
  OBVIOUS
<1>2. Tail(u) = << >> <=> Len(Tail(u)) = 0
  BY <1>1, EmptySeq, Zenon
<1>3. Len(u) = 1 <=> Tail(u) = << >>
  BY <1>1, <1>2
<1>4. ASSUME Len(u) = 1 PROVE u = <<Head(u)>>
  BY <1>4
<1> QED BY <1>3, <1>4

(* A name has two parts exactly when it is a first part and one more.      *)
LEMMA TwoParts ==
  ASSUME NEW S, NEW s \in Seq(S), NEW n \in Seq(S), NEW m \in S
  PROVE  (Len(s) = 1 /\ n = s \o <<m>>)
           <=> (Len(n) > 1 /\ s = <<Head(n)>> /\ Tail(n) = <<m>>)
<1>1. Append(<< >>, m) = <<m>> /\ << >> \in Seq(S) /\ << >> # <<m>>
  OBVIOUS
<1>2. ASSUME Len(s) = 1, n = Append(s, m)
      PROVE  Len(n) > 1 /\ s = <<Head(n)>> /\ Tail(n) = <<m>>
  <2>1. s # << >>
    BY <1>2
  <2>2. s = <<Head(s)>> /\ Tail(s) = << >>
    BY <1>2, <2>1, Single
  <2>3. Head(n) = Head(s) /\ Tail(n) = Append(Tail(s), m)
    BY <1>2, <2>1, HeadTailAppend, Zenon
  <2>4. Len(n) = Len(s) + 1
    BY <1>2, AppendProperties, Zenon
  <2>5. Len(n) > 1
    <3>1. Len(s) = 1
      BY <1>2
    <3> HIDE <1>2
    <3> QED BY <3>1, <2>4
  <2> QED BY <1>1, <2>2, <2>3, <2>5, Zenon
<1>3. ASSUME Len(n) > 1, s = <<Head(n)>>, Tail(n) = <<m>>
      PROVE  Len(s) = 1 /\ n = Append(s, m)
  <2>1. n # << >>
    BY <1>3
  <2>2. PICK u \in Seq(S), e \in S : n = Append(u, e)
    BY <2>1, SequenceEmptyOrAppend, Zenon
  <2>3. u # << >>
    BY <1>1, <1>3, <2>2, HeadTailAppend, Zenon
  <2>4. Head(n) = Head(u) /\ Append(Tail(u), e) = Append(<< >>, m)
    BY <1>1, <1>3, <2>2, <2>3, HeadTailAppend, Zenon
  <2>5. Tail(u) \in Seq(S)
    BY <2>3
  <2>6. Tail(u) = << >> /\ e = m
    <3>1. Append(Tail(u), e) = <<m>>
      BY <1>1, <2>4, Zenon
    <3>2. Len(Tail(u)) \in Nat /\ Len(Append(Tail(u), e)) = Len(Tail(u)) + 1
      BY <2>5, AppendProperties, LenProperties, Zenon
    <3>3. Len(<<m>>) = 1
      OBVIOUS
    <3>4. Len(Tail(u)) = 0
      <4>1. Len(Tail(u)) + 1 = 1
        BY <3>1, <3>2, <3>3, Zenon
      <4>2. Len(Tail(u)) \in Nat
        BY <3>2, Zenon
      <4> QED BY <4>1, <4>2
    <3>5. Tail(u) = << >>
      BY <2>5, <3>4, EmptySeq, Zenon
    <3>6. Append(<< >>, e) = <<e>> /\ (<<e>> = <<m>> => e = m)
      OBVIOUS
    <3> QED BY <3>1, <3>5, <3>6, Zenon
  <2>7. Len(u) = 1 /\ u = <<Head(u)>>
    BY <2>3, <2>6, Single
  <2> QED BY <1>3, <2>2, <2>4, <2>6, <2>7, Zenon
<1>4. Append(s, m) = s \o <<m>>
  OBVIOUS
<1> QED BY <1>2, <1>3, <1>4, Zenon

(* The lookups of dispatcher find service s and method m of it exactly     *)
(* when the request's name is the service's one part and the method.       *)
LEMMA NamesMatch ==
  ASSUME NEW s \in Services, NEW r \in Requests, NEW m \in s.methods
  PROVE  (Len(s.name) = 1 /\ r.name = Append(s.name, m))
           <=> /\ Parses(r.name) /\ s.name = service_name(r.name)
               /\ method_name(r.name) = <<m>>
<1>1. s.name \in Seq(STRING) /\ m \in STRING /\ r.name \in Seq(STRING)
  BY NamesAssumption, Zenon
<1>2. \A v, w \in Seq(STRING), e \in STRING :
        (Len(v) = 1 /\ w = v \o <<e>>)
          <=> (Len(w) > 1 /\ v = <<Head(w)>> /\ Tail(w) = <<e>>)
  BY TwoParts, Zenon
<1>3. \A v \in Seq(STRING), e \in STRING : v \o <<e>> = Append(v, e)
  OBVIOUS
<1>4. (Len(s.name) = 1 /\ r.name = s.name \o <<m>>)
        <=> (Len(r.name) > 1 /\ s.name = <<Head(r.name)>> /\ Tail(r.name) = <<m>>)
  <2>1. PICK v \in Seq(STRING) : v = s.name
    BY <1>1, Zenon
  <2>2. PICK w \in Seq(STRING) : w = r.name
    BY <1>1, Zenon
  <2>3. (Len(v) = 1 /\ w = v \o <<m>>)
          <=> (Len(w) > 1 /\ v = <<Head(w)>> /\ Tail(w) = <<m>>)
    BY <1>1, <1>2
  <2> QED BY <2>1, <2>2, <2>3, Zenon
<1>5. s.name \o <<m>> = Append(s.name, m)
  BY <1>1, <1>3, Zenon
<1> QED BY <1>4, <1>5, Zenon DEF Parses, service_name, method_name

(* The methods of the services in map that a request names.                *)
Asked(map, r) ==
  {c \in UNION {{[service |-> s, method |-> m] : m \in s.methods} : s \in Services} :
     c.service \in map /\ r.name = Append(c.service.name, c.method)}

LEMMA AskedIs ==
  ASSUME NEW map \in SUBSET Services, NEW r
  PROVE  /\ \A c \in Asked(map, r) :
              /\ c.service \in map /\ c.method \in c.service.methods
              /\ r.name = Append(c.service.name, c.method)
              /\ c = [service |-> c.service, method |-> c.method]
         /\ \A s \in map : \A m \in s.methods :
              r.name = Append(s.name, m) => [service |-> s, method |-> m] \in Asked(map, r)
<1>1. \A s, m : /\ [service |-> s, method |-> m].service = s
                /\ [service |-> s, method |-> m].method = m
  OBVIOUS
<1>2. ASSUME NEW c \in Asked(map, r)
      PROVE  /\ c.service \in map /\ c.method \in c.service.methods
             /\ r.name = Append(c.service.name, c.method)
             /\ c = [service |-> c.service, method |-> c.method]
  <2>1. PICK s \in Services : \E m \in s.methods : c = [service |-> s, method |-> m]
    BY <1>2, Zenon DEF Asked
  <2>2. c.service = s /\ \E m \in s.methods : c.method = m /\ c = [service |-> s, method |-> m]
    BY <1>1, <2>1, Zenon
  <2>3. c.service \in map /\ r.name = Append(c.service.name, c.method)
    BY <1>2, Zenon DEF Asked
  <2> QED BY <2>1, <2>2, <2>3, Zenon
<1>3. ASSUME NEW s \in map, NEW m \in s.methods, r.name = Append(s.name, m)
      PROVE  [service |-> s, method |-> m] \in Asked(map, r)
  <2> DEFINE c == [service |-> s, method |-> m]
             of(t) == {[service |-> t, method |-> e] : e \in t.methods}
  <2>1. s \in Services /\ c.service = s /\ c.method = m
    BY <1>1
  <2>2. c \in of(s) /\ of(s) \in {of(t) : t \in Services}
    BY <2>1
  <2>3. c \in UNION {of(t) : t \in Services}
    <3> HIDE DEF c, of
    <3> QED BY <2>2
  <2> HIDE DEF c
  <2> QED BY <1>3, <2>1, <2>3, Zenon DEF Asked, c
<1> QED BY <1>2, <1>3, Zenon

(* dispatcher: over a map in which a name stands for one service, what is  *)
(* called is what the request asks for, it is called when the service has  *)
(* a name of one part, and the error code tells whether it was.            *)
LEMMA DispatchIsRight ==
  ASSUME NEW map \in SUBSET Services, NEW r \in Requests,
         \A s, t \in map : s.name = t.name => s = t
  PROVE  LET p == Dispatch(map, r)
         IN /\ \A c \in p.called : c \in Asked(map, r) /\ r.parses
            /\ r.parses => \A c \in Asked(map, r) :
                             Len(c.service.name) = 1 => p.called = {c}
            /\ p.err_code = 0 <=> p.called # {} /\ r.serializes
<1> DEFINE found == {s \in map : s.name = service_name(r.name)}
           service == CHOOSE s \in found : TRUE
           p == Dispatch(map, r)
<1>1. r.parses \in BOOLEAN /\ r.serializes \in BOOLEAN
  BY NamesAssumption, Zenon
<1>2. ASSUME NEW s \in found
      PROVE  service = s
  <2>1. service \in found
    BY Zenon
  <2> QED BY <2>1, Zenon
<1>3. p = CASE ~Parses(r.name) -> NotCalled(ERROR_PARSE_SERVICE_NAME)
            [] Parses(r.name) /\ found = {} -> NotCalled(ERROR_SERVICE_NOT_FOUND)
            [] OTHER ->
                 CASE ~FindMethod(service, r.name) ->
                        NotCalled(ERROR_METHOD_NOT_FOUND)
                   [] FindMethod(service, r.name) /\ ~r.parses ->
                        NotCalled(ERROR_FAILED_DESERIALIZE)
                   [] OTHER ->
                        [err_code |-> IF r.serializes THEN 0
                                      ELSE ERROR_SERVICE_NOT_FOUND,
                         called |-> {[service |-> service,
                                      method |-> method_name(r.name)[1]]}]
  BY DEF Dispatch
<1>4. ERROR_PARSE_SERVICE_NAME # 0 /\ ERROR_SERVICE_NOT_FOUND # 0
      /\ ERROR_METHOD_NOT_FOUND # 0 /\ ERROR_FAILED_DESERIALIZE # 0
  BY DEF ERROR_PARSE_SERVICE_NAME, ERROR_SERVICE_NOT_FOUND,
         ERROR_METHOD_NOT_FOUND, ERROR_FAILED_DESERIALIZE
<1> DEFINE reaches == /\ Parses(r.name) /\ found # {}
                      /\ FindMethod(service, r.name) /\ r.parses
(* A request that names a method of a service of one part reaches it.      *)
<1>5. ASSUME NEW c \in Asked(map, r), Len(c.service.name) = 1, r.parses
      PROVE  /\ reaches /\ service = c.service
             /\ method_name(r.name) = <<c.method>>
  <2>1. /\ c.service \in map /\ c.service \in Services
        /\ c.method \in c.service.methods
        /\ r.name = Append(c.service.name, c.method)
    BY AskedIs, Zenon
  <2>2. /\ Parses(r.name) /\ c.service.name = service_name(r.name)
        /\ method_name(r.name) = <<c.method>>
    BY <1>5, <2>1, NamesMatch, Zenon
  <2>3. c.service \in found
    BY <2>1, <2>2, Zenon
  <2>4. service = c.service
    BY <1>2, <2>3, Zenon
  <2>5. FindMethod(c.service, r.name)
    BY <2>1, <2>2, Zenon DEF FindMethod
  <2> HIDE DEF found, service
  <2> QED BY <1>5, <2>2, <2>3, <2>4, <2>5, Zenon
<1>6. CASE reaches
  <2>1. PICK m \in service.methods : method_name(r.name) = <<m>>
    BY <1>6, Zenon DEF FindMethod
  <2>2. service \in map /\ service \in Services /\ service.name = service_name(r.name)
    <3>1. service \in found
      BY <1>6, Zenon
    <3> QED BY <3>1, Zenon
  <2> DEFINE c == [service |-> service, method |-> m]
  <2> HIDE DEF service
  <2>3. method_name(r.name)[1] = m
    BY <2>1
  <2>4. c \in Asked(map, r)
    <3>1. r.name = Append(service.name, m)
      <4>1. Parses(r.name)
        BY <1>6, Zenon
      <4>2. (Len(service.name) = 1 /\ r.name = Append(service.name, m))
              <=> /\ Parses(r.name) /\ service.name = service_name(r.name)
                  /\ method_name(r.name) = <<m>>
        BY <2>1, <2>2, NamesMatch
      <4> QED BY <2>1, <2>2, <4>1, <4>2, Zenon
    <3> QED BY <2>1, <2>2, <3>1, AskedIs, Zenon
  <2>5. p = [err_code |-> IF r.serializes THEN 0 ELSE ERROR_SERVICE_NOT_FOUND,
             called |-> {c}]
    <3> HIDE DEF p, found
    <3> QED BY <1>3, <1>6, <2>3, Zenon
  <2>6. /\ p.called = {c}
        /\ p.err_code = IF r.serializes THEN 0 ELSE ERROR_SERVICE_NOT_FOUND
    <3> HIDE DEF p, c
    <3> QED BY <2>5
  <2>7. ASSUME NEW d \in Asked(map, r), Len(d.service.name) = 1
        PROVE  d = c
    <3>1. service = d.service /\ <<d.method>> = <<m>>
      BY <1>5, <1>6, <2>1, <2>7, Zenon
    <3>2. d = [service |-> d.service, method |-> d.method]
      BY AskedIs, Zenon
    <3>3. d.method = m
      BY <3>1
    <3> QED BY <3>1, <3>2, <3>3, Zenon
  <2> HIDE DEF c, p
  <2>8. \A d \in p.called : d \in Asked(map, r) /\ r.parses
    BY <1>6, <2>4, <2>6
  <2>9. r.parses => \A d \in Asked(map, r) :
                     Len(d.service.name) = 1 => p.called = {d}
    BY <2>6, <2>7, Zenon
  <2>10. p.err_code = 0 <=> p.called # {} /\ r.serializes
    BY <1>4, <2>6
  <2> QED BY <2>8, <2>9, <2>10, Zenon DEF p
<1>7. CASE ~reaches
  <2> HIDE DEF found, service, p
  <2>1. \E code \in {ERROR_PARSE_SERVICE_NAME, ERROR_SERVICE_NOT_FOUND,
                     ERROR_METHOD_NOT_FOUND, ERROR_FAILED_DESERIALIZE} :
          p = NotCalled(code)
    <3>1. CASE ~Parses(r.name)
      BY <1>3, <3>1, Zenon
    <3>2. CASE Parses(r.name) /\ found = {}
      BY <1>3, <3>2, Zenon
    <3>3. CASE Parses(r.name) /\ found # {} /\ ~FindMethod(service, r.name)
      BY <1>3, <3>3, Zenon
    <3>4. CASE Parses(r.name) /\ found # {} /\ FindMethod(service, r.name)
      BY <1>3, <1>7, <3>4, Zenon
    <3> QED BY <3>1, <3>2, <3>3, <3>4, Zenon
  <2>2. PICK code : code # 0 /\ p = NotCalled(code)
    BY <1>4, <2>1, Zenon
  <2>3. p.called = {} /\ p.err_code = code
    BY <2>2 DEF NotCalled
  <2>4. ASSUME NEW c \in Asked(map, r), Len(c.service.name) = 1, r.parses
        PROVE  FALSE
    BY <1>5, <1>7, <2>4, Zenon
  <2>5. p.err_code = 0 <=> p.called # {} /\ r.serializes
    BY <2>2, <2>3, Zenon
  <2>6. \A c \in p.called : c \in Asked(map, r) /\ r.parses
    BY <2>3
  <2> QED BY <2>4, <2>5, <2>6, Zenon DEF p
<1> QED BY <1>6, <1>7, Zenon

-----------------------------------------------------------------------------
(* Types.                                                                  *)

Exchanges ==
  {NoReply} \cup
  {[request |-> <<r>>, reply |-> <<Dispatch(map, r)>>] :
     map \in SUBSET Services, r \in Requests}

Connection == [fd : Fds, thread : Threads, event : Int,
               state : {"posted", "listening", "closed"}, exchange : Exchanges]

(* What the types rest on: the connections are a sequence, one is there    *)
(* for each client the main thread has taken, and the indices of the loops *)
(* over the threads stay in range.                                         *)
ServerInv ==
  /\ TypeOK
  /\ m_client \in Seq(Connection)
  /\ main \in {"create", "wait init"} => k \in Threads
  /\ main \in {"create", "wait init", "constructed"} => m_client = << >>
  /\ main = "accept" => backlog > 0
  /\ main = "take" => k <= NumThreads

Accepting == main \in {"scan", "take", "construct"}

(* The descriptors of the clients are the lowest ones, in the order of     *)
(* m_client.  A connection has the entry of its own descriptor, or it is   *)
(* one of the first that the table did not reach.  Once the table is long  *)
(* enough for the clients in it, it stays so: a growth by half makes room  *)
(* for at least one more.                                                  *)
Event(i) == m_client[i].event

FdInv ==
  /\ \A i \in 1..Len(m_client) : m_client[i].fd = work.first_fd + i - 1
  /\ Accepting => client_fd = work.first_fd + Len(m_client) /\ client_fd \in Fds
  /\ Alive /\ Accepting => open = work.first_fd..(work.first_fd + Len(m_client))
  /\ Alive /\ ~Accepting => open = work.first_fd..(work.first_fd + Len(m_client) - 1)

Missed(i) == Overshoot /\ \A e \in 1..i : Event(e) = -1

TableInv ==
  /\ \A i \in 1..Len(m_client) : Event(i) = m_client[i].fd \/ Missed(i)
  /\ \/ m_size = 0 /\ events = << >> /\ m_client = << >>
     \/ /\ m_size \in Nat /\ m_size >= TableSize /\ events = Entries(0, m_size)
        /\ work.first_fd + Len(m_client) <= m_size \/ Missed(Len(m_client))
  /\ main = "no event" => Overshoot

(* What each kind of change to a connection leaves of it.                  *)
LEMMA StateExcept ==
  ASSUME NEW c \in Connection, NEW st \in {"posted", "listening", "closed"}
  PROVE  LET d == [c EXCEPT !.state = st]
         IN /\ d \in Connection /\ d.fd = c.fd /\ d.event = c.event
            /\ d.exchange = c.exchange
BY DEF Connection

LEMMA ExchangeExcept ==
  ASSUME NEW c \in Connection, NEW x \in Exchanges
  PROVE  LET d == [c EXCEPT !.exchange = x]
         IN /\ d \in Connection /\ d.fd = c.fd /\ d.event = c.event
            /\ d.exchange = x
BY DEF Connection

(* The step of a connection from posted to listening or closed, and the    *)
(* dispatch of a request, keep its descriptor, thread and event.           *)
KeepsClients ==
  /\ m_client' \in Seq(Connection) /\ Len(m_client') = Len(m_client)
  /\ \A i \in 1..Len(m_client) :
       m_client'[i].fd = m_client[i].fd /\ m_client'[i].event = m_client[i].event

LEMMA ClientStep ==
  ASSUME ServerInv,
         \/ \E i \in Threads : RunTasks(i)
         \/ \E j \in 1..work.clients, r \in Requests : Execute(j, r)
         \/ \E j \in 1..work.clients : ClientGone(j)
  PROVE  KeepsClients
<1>1. m_client \in Seq(Connection)
  BY Zenon DEF ServerInv
<1>2. /\ Len(m_client) \in Nat /\ DOMAIN m_client = 1..Len(m_client)
      /\ \A i \in 1..Len(m_client) : m_client[i] \in Connection
  BY <1>1
<1>3. ASSUME NEW i \in Threads, RunTasks(i)
      PROVE  KeepsClients
  <2> DEFINE c(j) == IF j \in Posted(i)
                       THEN [m_client[j] EXCEPT !.state = "listening"]
                       ELSE m_client[j]
  <2>1. m_client' = [j \in 1..Len(m_client) |-> c(j)]
    BY <1>2, <1>3, Zenon DEF RunTasks
  <2>2. \A j \in 1..Len(m_client) :
          /\ c(j) \in Connection
          /\ c(j).fd = m_client[j].fd /\ c(j).event = m_client[j].event
    BY <1>2, StateExcept, Zenon
  <2> HIDE DEF c
  <2> QED BY <1>2, <2>1, <2>2 DEF KeepsClients
<1>4. ASSUME NEW j \in 1..Len(m_client), NEW c \in Connection,
             c.fd = m_client[j].fd, c.event = m_client[j].event,
             m_client' = [m_client EXCEPT ![j] = c]
      PROVE  KeepsClients
  <2>1. m_client' \in Seq(Connection) /\ Len(m_client') = Len(m_client)
    BY <1>1, <1>4
  <2>2. \A i \in 1..Len(m_client) : m_client'[i] = IF i = j THEN c ELSE m_client[i]
    BY <1>1, <1>4
  <2> QED BY <1>4, <2>1, <2>2, Zenon DEF KeepsClients
<1>5. ASSUME NEW j \in 1..work.clients, NEW r \in Requests, Execute(j, r)
      PROVE  KeepsClients
  <2> DEFINE x == [request |-> <<r>>, reply |-> <<Dispatch(m_service_map, r)>>]
             c == [m_client[j] EXCEPT !.exchange = x]
  <2>1. j \in 1..Len(m_client) /\ m_client' = [m_client EXCEPT ![j] = c]
    BY <1>2, <1>5, Zenon DEF Execute, Served
  <2>2. x \in Exchanges
    <3>1. m_service_map \in SUBSET Services
      BY Zenon DEF TypeOK, ServerInv
    <3>2. \E map \in SUBSET Services, q \in Requests :
            x = [request |-> <<q>>, reply |-> <<Dispatch(map, q)>>]
      BY <3>1, Zenon
    <3> HIDE DEF x
    <3> QED BY <3>2 DEF Exchanges
  <2> HIDE DEF x
  <2>3. c \in Connection /\ c.fd = m_client[j].fd /\ c.event = m_client[j].event
    BY <1>2, <2>1, <2>2, ExchangeExcept, Zenon
  <2> HIDE DEF c
  <2> QED BY <1>4, <2>1, <2>3, Zenon
<1>6. ASSUME NEW j \in 1..work.clients, ClientGone(j)
      PROVE  KeepsClients
  <2> DEFINE c == [m_client[j] EXCEPT !.state = "closed"]
  <2>1. j \in 1..Len(m_client) /\ m_client' = [m_client EXCEPT ![j] = c]
    BY <1>2, <1>6, Zenon DEF ClientGone, Served
  <2>2. c \in Connection /\ c.fd = m_client[j].fd /\ c.event = m_client[j].event
    BY <1>2, <2>1, StateExcept, Zenon
  <2> HIDE DEF c
  <2> QED BY <1>4, <2>1, <2>2, Zenon
<1> QED BY <1>3, <1>5, <1>6, Zenon

(* A thread's queue has a natural number of tasks.                         *)
LEMMA TaskSizesNat ==
  ASSUME NEW i \in Threads, m_client \in Seq(Connection)
  PROVE  TaskSizes(i) \subseteq Nat
<1>1. IsFiniteSet(DOMAIN m_client)
  BY FS_Interval
<1>2. \A st : Cardinality(InState(i, st)) \in Nat
  <2> TAKE st
  <2>1. IsFiniteSet(InState(i, st))
    BY <1>1, FS_Subset DEF InState
  <2> QED BY <2>1, FS_CardinalityType
<1>3. Cardinality(Posted(i)) \in Nat
  BY <1>2, Zenon DEF Posted
<1> QED BY <1>3 DEF TaskSizes

(* get_fd_event keeps the table a table of descriptors: an entry is that   *)
(* of its descriptor, and the entry of the next client is there unless     *)
(* those of all before it were missed.                                     *)
LEMMA TableStep ==
  ASSUME TableInv, NEW fd \in Nat, NEW first \in Nat, first = work.first_fd,
         m_client \in Seq(Connection), fd = first + Len(m_client), GetFdEvent(fd)
  PROVE  /\ m_size' \in Nat /\ m_size' >= TableSize /\ events' = Entries(0, m_size')
         /\ events' \in Seq(Nat) /\ Len(events') = m_size'
         /\ fd < m_size' => events'[fd + 1] = fd
         /\ fd >= m_size' => Missed(Len(m_client)) /\ Overshoot
<1> DEFINE size == IF m_size = 0 THEN TableSize ELSE m_size
           table == IF m_size = 0 THEN Entries(0, TableSize) ELSE events
           big == (3 * size) \div 2
<1>1. TableSize \in Nat /\ TableSize >= 2 /\ Len(m_client) \in Nat
  BY BoundsAssumption
<1> DEFINE missed == Missed(Len(m_client))
<1>0. \/ m_size = 0 /\ m_client = << >>
      \/ /\ m_size \in Nat /\ m_size >= TableSize /\ events = Entries(0, m_size)
         /\ first + Len(m_client) <= m_size \/ missed
  BY Zenon DEF TableInv
<1> HIDE DEF missed
<1>2. /\ size \in Nat /\ size >= 2 /\ size >= TableSize
      /\ table = Entries(0, size)
  BY <1>0, <1>1
<1>3. fd <= size \/ missed \/ (m_client = << >> /\ size = TableSize)
  BY <1>0, <1>1
<1>4. /\ Len(table) = size
      /\ \/ fd < Len(table) /\ events' = table /\ m_size' = size
         \/ fd >= Len(table) /\ GrowTable(size, table)
  <2>1. Len(table) = size
    BY <1>2, EntriesAre
  <2> QED BY <1>2, <2>1 DEF GetFdEvent
<1>5. big \in Nat /\ size <= big /\ size < big
  BY <1>2
<1> HIDE DEF size, table, big
<1>6. /\ events' = Entries(0, m_size')
      /\ \/ fd < size /\ m_size' = size
         \/ fd >= size /\ m_size' = big
  <2>1. CASE fd < Len(table) /\ events' = table /\ m_size' = size
    BY <1>2, <1>4, <2>1
  <2>2. CASE fd >= Len(table) /\ GrowTable(size, table)
    <3>1. events' = Entries(0, size) \o Entries(size, big) /\ m_size' = big
      BY <1>2, <2>2 DEF GrowTable, big
    <3>2. events' = Entries(0, big)
      BY <1>2, <1>5, <3>1, EntriesJoin
    <3> QED BY <1>4, <2>2, <3>1, <3>2
  <2> QED BY <1>4, <2>1, <2>2
<1>7. m_size' \in Nat /\ m_size' >= TableSize
  BY <1>1, <1>2, <1>5, <1>6
<1>8. /\ events' \in Seq(Nat) /\ Len(events') = m_size'
      /\ fd < m_size' => events'[fd + 1] = fd
  <2>1. PICK n \in Nat : n = m_size'
    BY <1>7
  <2>2. events' = Entries(0, n)
    BY <1>6, <2>1
  <2>3. /\ Entries(0, n) \in Seq(Nat) /\ Len(Entries(0, n)) = n
        /\ \A i \in 1..n : Entries(0, n)[i] = i - 1
    BY EntriesAre, Zenon
  <2>4. fd < n => fd + 1 \in 1..n /\ (fd + 1) - 1 = fd
    OBVIOUS
  <2> QED BY <2>1, <2>2, <2>3, <2>4, Zenon
<1>9. ASSUME fd >= m_size'
      PROVE  missed /\ Overshoot
  <2>1. fd >= big /\ ~(fd <= size)
    BY <1>2, <1>5, <1>6, <1>9
  <2>2. CASE missed
    BY <2>2, Zenon DEF missed, Missed
  <2>3. CASE m_client = << >> /\ size = TableSize
    <3>1. Len(m_client) = 0
      BY <2>3
    <3>2. Overshoot
      BY <1>1, <2>1, <2>3, <3>1 DEF big, Overshoot
    <3>3. \A e \in 1..Len(m_client) : FALSE
      BY <3>1
    <3> QED BY <3>2, <3>3, Zenon DEF missed, Missed
  <2> QED BY <1>3, <2>1, <2>2, <2>3, Zenon
<1> QED BY <1>6, <1>7, <1>8, <1>9 DEF missed

(* The lowest free descriptor is the one behind those of the clients.      *)
LEMMA NextFd ==
  ASSUME FdInv, m_client \in Seq(Connection), main = "accept",
         work.first_fd \in Nat, Free # {}
  PROVE  /\ Min(Free) = work.first_fd + Len(m_client)
         /\ Min(Free) \in Fds
<1> DEFINE c == work.first_fd + Len(m_client)
<1>1. /\ c \in Nat /\ open = work.first_fd..(c - 1)
      /\ MaxFds \in Nat /\ work.first_fd <= c
  <2>1. Alive /\ ~Accepting
    BY DEF Alive, Ends, Accepting
  <2>2. Len(m_client) \in Nat /\ MaxFds \in Nat
    BY BoundsAssumption
  <2>3. open = work.first_fd..(work.first_fd + Len(m_client) - 1)
    BY <2>1, Zenon DEF FdInv
  <2> QED BY <2>2, <2>3
<1>2. c <= MaxFds - 1
  BY <1>1 DEF Free
<1> HIDE DEF c
<1>3. Min(Free) = c
  BY <1>1, <1>2, MinOfRest DEF Free
<1> QED BY <1>1, <1>2, <1>3 DEF c, Fds

(* The invariant is inductive: first the steps that leave the connections  *)
(* and their descriptors alone.                                            *)
ServerOk == ServerInv /\ FdInv /\ TableInv

Mains == {"create", "wait init", "constructed", "start", "loop", "accept",
          "scan", "take", "construct"} \cup Ends

QuietMain ==
  /\ Accepting' => Accepting
  /\ Alive' => Alive /\ (Accepting' <=> Accepting)
  /\ main' = "no event" => main = "no event"
  /\ main' = "take" => main = "take" /\ k' = k
  /\ main' \in Mains /\ k' \in 1..(NumThreads + 1)
  /\ main' \in {"create", "wait init"} => k' \in Threads
  /\ main' \in {"create", "wait init", "constructed"} => m_client = << >>

ThreadStates == {"none", "created", "ready", "looping", "turning"}

Quiet ==
  /\ QuietMain
  /\ UNCHANGED <<ans, client_fd, m_client, open, m_size, events, work>>
  /\ thread' \in [Threads -> ThreadStates]
  /\ started' \in SUBSET Threads
  /\ backlog' \in 0..work.clients
  /\ asked' \in 0..work.requests
  /\ main' = "accept" => backlog' > 0
  /\ m_service_map' \in SUBSET Services /\ registered' \in Seq(Services)

LEMMA QuietStep ==
  ASSUME ServerInv,
         \/ CreateThread \/ ThreadCreated \/ Start \/ StartThreads \/ Report
         \/ \E i \in Threads : ThreadInit(i) \/ ThreadLoops(i)
         \/ \E s \in Services : Register(s)
         \/ \E j \in 1..work.clients : Turn(j) \/ Sigpipe(j)
         \/ ClientConnects \/ UNCHANGED vars
  PROVE  Quiet
<1>1. /\ main \in Mains /\ k \in 1..(NumThreads + 1)
      /\ main \in {"create", "wait init"} => k \in Threads
      /\ main \in {"create", "wait init", "constructed"} => m_client = << >>
  BY Zenon DEF ServerInv, TypeOK, Mains
<1>2. /\ thread \in [Threads -> ThreadStates] /\ started \in SUBSET Threads
      /\ backlog \in 0..work.clients /\ m_service_map \in SUBSET Services
      /\ registered \in Seq(Services) /\ asked \in 0..work.requests
      /\ main = "accept" => backlog > 0
  BY Zenon DEF ServerInv, TypeOK, ThreadStates
<1>3. /\ work.clients \in Nat /\ work.requests \in Nat
      /\ Len(m_client) \in Nat
  <2>1. Len(m_client) \in Nat
    BY LenProperties, Zenon DEF ServerInv
  <2>2. work \in Workloads
    BY Zenon DEF ServerInv, TypeOK
  <2> QED BY <2>1, <2>2, BoundsAssumption
(* The index of the loops over the threads.                                *)
<1>4. /\ 1 \in Threads
      /\ \A i \in Threads : /\ i \in 1..(NumThreads + 1) /\ i + 1 \in 1..(NumThreads + 1)
                            /\ i # NumThreads => i + 1 \in Threads
      /\ \A i \in 1..(NumThreads + 1) : i <= NumThreads => i \in Threads
  BY ThreadsAssumption DEF Threads
<1>5. CASE CreateThread
  <2>1. k \in Threads /\ m_client = << >>
    BY <1>1, <1>5 DEF CreateThread
  <2>2. thread' \in [Threads -> ThreadStates]
    BY <1>2, <1>5, <2>1 DEF CreateThread, ThreadStates
  <2>3. QuietMain
    <3>1. k \in Threads /\ k \in 1..(NumThreads + 1)
      BY <1>4, <2>1, Zenon
    <3>2. main = "create" /\ main' = "wait init" /\ k' = k
      BY <1>5, Zenon DEF CreateThread
    <3>3. (Accepting' <=> Accepting) /\ Alive /\ main' \notin {"no event", "take"} /\ main' \in Mains
      BY <3>2 DEF Mains, Accepting, Alive, Ends
    <3> QED BY <2>1, <3>1, <3>2, <3>3, Zenon DEF QuietMain
  <2>4. main' # "accept"
    BY <1>5 DEF CreateThread
  <2> QED BY <1>2, <1>5, <2>2, <2>3, <2>4, Zenon DEF CreateThread, Quiet
<1>6. CASE ThreadCreated
  <2>1. k \in Threads /\ m_client = << >> /\ main = "wait init"
    BY <1>1, <1>6 DEF ThreadCreated
  <2>2. \/ main' = "constructed" /\ k' = 1
        \/ main' = "create" /\ k' = k + 1 /\ k # NumThreads
    BY <1>6, Zenon DEF ThreadCreated
  <2>3. QuietMain
    <3>1. CASE main' = "constructed" /\ k' = 1
      <4>1. 1 \in 1..(NumThreads + 1)
        BY <1>4, Zenon
      <4>2. /\ (Accepting' <=> Accepting) /\ Alive /\ main' \notin {"no event", "take"}
            /\ main' \in Mains /\ main' \notin {"create", "wait init"}
        BY <2>1, <3>1 DEF Mains, Accepting, Alive, Ends
      <4> QED BY <2>1, <3>1, <4>1, <4>2, Zenon DEF QuietMain
    <3>2. CASE main' = "create" /\ k' = k + 1 /\ k # NumThreads
      <4>1. k' \in Threads /\ k' \in 1..(NumThreads + 1)
        <5>1. \A i \in 1..NumThreads : i # NumThreads =>
                i + 1 \in 1..NumThreads /\ i + 1 \in 1..(NumThreads + 1)
          BY ThreadsAssumption
        <5> QED BY <2>1, <3>2, <5>1, Zenon DEF Threads
      <4>2. /\ (Accepting' <=> Accepting) /\ Alive /\ main' \notin {"no event", "take"}
            /\ main' \in Mains
        BY <2>1, <3>2 DEF Mains, Accepting, Alive, Ends
      <4> QED BY <2>1, <4>1, <4>2, Zenon DEF QuietMain
    <3> QED BY <2>2, <3>1, <3>2
  <2>4. main' # "accept"
    BY <2>2
  <2> QED BY <1>2, <1>6, <2>3, <2>4, Zenon DEF ThreadCreated, Quiet
<1>7. CASE Start
  <2>1. QuietMain
    BY <1>1, <1>7 DEF QuietMain, Mains, Accepting, Alive, Ends, Start
  <2>2. main' # "accept"
    BY <1>7 DEF Start
  <2> QED BY <1>2, <1>7, <2>1, <2>2, Zenon DEF Start, Quiet
<1>8. CASE StartThreads
  <2>1. main = "start" /\ k \in 1..(NumThreads + 1)
    BY <1>1, <1>8 DEF StartThreads
  <2>2. \/ k <= NumThreads /\ main' = "start" /\ k' = k + 1
           /\ started' = started \cup {k}
        \/ main' = "loop" /\ k' = 1 /\ started' = started
    BY <1>8, <2>1, Zenon DEF StartThreads
  <2>3. QuietMain /\ started' \in SUBSET Threads
    <3>1. CASE /\ k <= NumThreads /\ main' = "start" /\ k' = k + 1
               /\ started' = started \cup {k}
      <4>1. k \in Threads /\ k' \in 1..(NumThreads + 1)
        BY <2>1, <3>1, ThreadsAssumption DEF Threads
      <4>2. started' \in SUBSET Threads
        BY <1>2, <3>1, <4>1
      <4>3. QuietMain
        BY <2>1, <3>1, <4>1 DEF QuietMain, Mains, Accepting, Alive, Ends, Alive, Ends
      <4> QED BY <4>2, <4>3
    <3>2. CASE main' = "loop" /\ k' = 1 /\ started' = started
      <4>1. 1 \in 1..(NumThreads + 1) /\ started' \in SUBSET Threads
        BY <1>2, <1>4, <3>2, Zenon
      <4> QED BY <2>1, <3>2, <4>1 DEF QuietMain, Mains, Accepting, Alive, Ends, Alive, Ends
    <3> QED BY <2>2, <3>1, <3>2
  <2>4. main' # "accept"
    BY <2>2
  <2> QED BY <1>2, <1>8, <2>3, <2>4, Zenon DEF StartThreads, Quiet
<1>9. CASE Report
  <2>1. QuietMain
    BY <1>1, <1>9 DEF QuietMain, Mains, Accepting, Alive, Ends, Report
  <2> QED BY <1>2, <1>9, <2>1, Zenon DEF Report, Quiet
<1>10. CASE UNCHANGED <<main, k>>
  <2>1. QuietMain
    BY <1>1, <1>10 DEF QuietMain, Mains, Accepting, Alive, Ends, Alive, Ends
  <2>2. CASE \E i \in Threads : ThreadInit(i)
    <3>1. thread' \in [Threads -> ThreadStates]
      BY <1>2, <2>2 DEF ThreadInit, ThreadStates
    <3> QED BY <1>2, <1>10, <2>1, <2>2, <3>1, Zenon DEF ThreadInit, Quiet
  <2>3. CASE \E i \in Threads : ThreadLoops(i)
    <3>1. thread' \in [Threads -> ThreadStates]
      BY <1>2, <2>3 DEF ThreadLoops, ThreadStates
    <3> QED BY <1>2, <1>10, <2>1, <2>3, <3>1, Zenon DEF ThreadLoops, Quiet
  <2>4. CASE \E s \in Services : Register(s)
    <3>1. m_service_map' \in SUBSET Services
      BY <1>2, <2>4 DEF Register, RegisterService
    <3>2. registered' \in Seq(Services)
      <4>1. PICK s \in Services : registered' = Append(registered, s)
        BY <2>4, Zenon DEF Register
      <4> QED BY <1>2, <4>1, AppendProperties, Zenon
    <3> QED BY <1>2, <1>10, <2>1, <2>4, <3>1, <3>2, Zenon DEF Register, Quiet
  <2>5. CASE ClientConnects
    <3>1. backlog' \in 0..work.clients /\ backlog' > 0
      <4>1. \A b \in 0..work.clients, n \in Nat, x \in {0, 1} :
              b + n + x < work.clients => b + 1 \in 0..work.clients /\ b + 1 > 0
        BY <1>3
      <4>2. (IF main \in {"scan", "construct"} THEN 1 ELSE 0) \in {0, 1}
        OBVIOUS
      <4> QED BY <1>2, <1>3, <2>5, <4>1, <4>2, Zenon DEF ClientConnects
    <3> QED BY <1>2, <1>10, <2>1, <2>5, <3>1, Zenon DEF ClientConnects, Quiet
  <2>6. CASE UNCHANGED vars
    BY <1>2, <1>10, <2>1, <2>6, Zenon DEF Quiet
  <2>7. CASE \E j \in 1..work.clients : Turn(j)
    <3>1. PICK j \in 1..work.clients : Turn(j)
      BY <2>7
    <3>2. /\ asked < work.requests /\ asked' = asked + 1
          /\ thread' = [thread EXCEPT ![m_client[j].thread] = "turning"]
          /\ UNCHANGED <<ans, client_fd, started, backlog, m_client, open,
                         tableVars, serviceVars, work>>
      BY <3>1, Zenon DEF Turn
    <3>3. asked' \in 0..work.requests
      BY <1>2, <1>3, <3>2
    <3>4. thread' \in [Threads -> ThreadStates]
      BY <1>2, <3>2 DEF ThreadStates
    <3> QED BY <1>2, <1>10, <2>1, <3>2, <3>3, <3>4, Zenon DEF Quiet
  <2>8. ASSUME \/ CreateThread \/ ThreadCreated \/ Start \/ StartThreads \/ Report
        PROVE  Quiet
    BY <1>5, <1>6, <1>7, <1>8, <1>9, <2>8
  <2>9. ~\E j \in 1..work.clients : Sigpipe(j)
    BY <1>10 DEF Sigpipe, Served, Alive, Ends
  <2> QED BY <2>2, <2>3, <2>4, <2>5, <2>6, <2>7, <2>8, <2>9
<1>11. ASSUME \/ \E i \in Threads : ThreadInit(i) \/ ThreadLoops(i)
              \/ \E s \in Services : Register(s)
              \/ \E j \in 1..work.clients : Turn(j)
              \/ ClientConnects \/ UNCHANGED vars
       PROVE  UNCHANGED <<main, k>>
  BY <1>11, Zenon DEF ThreadInit, ThreadLoops, Register, Turn, ClientConnects
<1>12. CASE \E j \in 1..work.clients : Sigpipe(j)
  <2>1. /\ Alive /\ main' = "sigpipe" /\ k' = k
        /\ UNCHANGED <<ans, client_fd, threadVars, backlog, m_client, open,
                       tableVars, askVars>>
    BY <1>12, Zenon DEF Sigpipe, Served
  <2>2. /\ main' \in Mains /\ ~Alive' /\ ~Accepting' /\ main' \notin {"no event", "take"}
        /\ main' \notin {"create", "wait init", "constructed", "accept"}
    BY <2>1 DEF Mains, Ends, Alive, Accepting
  <2>3. QuietMain
    BY <1>1, <2>1, <2>2, Zenon DEF QuietMain
  <2> QED BY <1>2, <2>1, <2>2, <2>3, Zenon DEF Quiet
<1> QED
  BY <1>5, <1>6, <1>7, <1>8, <1>9, <1>10, <1>11, <1>12

LEMMA QuietKeeps ==
  ASSUME ServerOk, Quiet
  PROVE  ServerOk'
<1>1. /\ m_client' = m_client /\ m_size' = m_size /\ events' = events
      /\ client_fd' = client_fd /\ open' = open /\ work' = work
      /\ Accepting' => Accepting
      /\ Alive' => Alive /\ (Accepting' <=> Accepting)
      /\ main' = "no event" => main = "no event"
  BY Zenon DEF Quiet, QuietMain
<1>2. FdInv'
  BY <1>1, Zenon DEF ServerOk, FdInv
<1>3. TableInv'
  BY <1>1, Zenon DEF ServerOk, TableInv, Missed, Overshoot, Event
<1>4. TypeOK'
  <2>1. TypeOK /\ Quiet
    BY Zenon DEF ServerOk, ServerInv
  <2> QED BY <2>1, Zenon DEF TypeOK, Quiet, QuietMain, Mains, ThreadStates
<1>5. ServerInv'
  BY <1>4, Zenon DEF ServerOk, ServerInv, Quiet, QuietMain
<1> QED BY <1>2, <1>3, <1>5, Zenon DEF ServerOk

(* The members of m_client have the types of TypeOK.                       *)
LEMMA ConnectionTypes ==
  ASSUME NEW s \in Seq(Connection)
  PROVE  \A i \in DOMAIN s : /\ s[i].fd \in Fds /\ s[i].thread \in Threads
                             /\ s[i].event \in Int
                             /\ s[i].state \in {"posted", "listening", "closed"}
<1>1. \A i \in DOMAIN s : s[i] \in Connection
  OBVIOUS
<1>2. \A c \in Connection : /\ c.fd \in Fds /\ c.thread \in Threads /\ c.event \in Int
                            /\ c.state \in {"posted", "listening", "closed"}
  BY DEF Connection
<1> QED BY <1>1, <1>2, Zenon

(* The main thread accepts a client: its descriptor is the next one.       *)
LEMMA AcceptStep ==
  ASSUME ServerOk, Accept
  PROVE  ServerOk'
<1> DEFINE c == work.first_fd + Len(m_client)
<1>1. /\ m_client \in Seq(Connection) /\ Len(m_client) \in Nat
      /\ main = "accept" /\ backlog > 0 /\ backlog \in 0..work.clients
      /\ work.clients \in Nat /\ work.first_fd \in Nat /\ MaxFds \in Nat
  <2>1. m_client \in Seq(Connection) /\ backlog > 0 /\ main = "accept"
    BY Zenon DEF ServerOk, ServerInv, Accept
  <2>2. work \in Workloads /\ backlog \in 0..work.clients
    BY Zenon DEF ServerOk, ServerInv, TypeOK
  <2> QED BY <2>1, <2>2, BoundsAssumption, LenProperties
<1>2. UNCHANGED <<k, ans, threadVars, m_client, tableVars, askVars>>
  BY Zenon DEF Accept
<1>3. open = work.first_fd..(c - 1) /\ open \in SUBSET Fds
  <2>1. Alive /\ ~Accepting
    BY <1>1 DEF Alive, Ends, Accepting
  <2>2. open = work.first_fd..(work.first_fd + Len(m_client) - 1)
    BY <2>1, Zenon DEF ServerOk, FdInv
  <2>3. open \in SUBSET Fds
    BY Zenon DEF ServerOk, ServerInv, TypeOK
  <2> QED BY <1>1, <2>2, <2>3
(* What both outcomes have in common.                                      *)
<1>4. ASSUME main' \in {"scan", "exit"}, backlog' \in 0..work.clients,
             client_fd' \in 0..MaxFds, open' \in SUBSET Fds, FdInv'
      PROVE  ServerOk'
  <2>1. /\ main' \in Mains /\ main' # "no event"
        /\ main' \notin {"create", "wait init", "constructed", "accept", "take"}
    BY <1>4 DEF Mains, Ends
  <2>2. TypeOK'
    <3>1. TypeOK
      BY Zenon DEF ServerOk, ServerInv
    <3> QED BY <1>2, <1>4, <2>1, <3>1, Zenon DEF TypeOK, Mains
  <2>3. ServerInv'
    BY <1>2, <2>1, <2>2, Zenon DEF ServerOk, ServerInv
  <2>4. TableInv'
    BY <1>2, <2>1, Zenon DEF ServerOk, TableInv, Missed, Overshoot, Event
  <2> QED BY <1>4, <2>3, <2>4, Zenon DEF ServerOk
<1>5. CASE main' = "exit" /\ UNCHANGED <<client_fd, open, backlog>>
  <2>1. ~Accepting' /\ ~Alive'
    BY <1>5 DEF Accepting, Alive, Ends
  <2>2. FdInv'
    BY <1>2, <2>1, Zenon DEF ServerOk, FdInv
  <2>3. /\ main' \in {"scan", "exit"} /\ backlog' \in 0..work.clients
        /\ client_fd' \in 0..MaxFds /\ open' \in SUBSET Fds
    BY <1>1, <1>3, <1>5 DEF ServerOk, ServerInv, TypeOK
  <2> QED BY <1>4, <2>2, <2>3
<1>6. CASE /\ Free # {}
           /\ client_fd' = Min(Free)
           /\ open' = open \cup {client_fd'}
           /\ backlog' = backlog - 1
           /\ main' = "scan"
  <2>1. c = Min(Free) /\ c \in Fds
    BY <1>1, <1>6, NextFd, Zenon DEF ServerOk
  <2>2. Accepting' /\ Alive'
    BY <1>6 DEF Accepting, Alive, Ends
  <2>3. /\ backlog' \in 0..work.clients /\ client_fd' \in 0..MaxFds
        /\ open' \in SUBSET Fds
    BY <1>1, <1>3, <1>6, <2>1 DEF Fds
  <2>4. open' = work.first_fd..c
    BY <1>1, <1>3, <1>6, <2>1
  <2>5. FdInv'
    BY <1>2, <1>6, <2>1, <2>2, <2>4, Zenon DEF ServerOk, FdInv
  <2> QED BY <1>4, <1>6, <2>3, <2>5
<1> QED BY <1>5, <1>6, Zenon DEF Accept

(* get_io_thread leaves the connections and the descriptors alone.         *)
LEMMA ScanStep ==
  ASSUME ServerOk, ScanThreads \/ TakeThread
  PROVE  ServerOk'
<1>1. /\ m_client \in Seq(Connection) /\ main \in {"scan", "take"}
      /\ main = "take" => k <= NumThreads
      /\ k \in 1..(NumThreads + 1) /\ ans.idx \in Threads /\ ans.number \in Nat
  BY Zenon DEF ServerOk, ServerInv, TypeOK, ScanThreads, TakeThread
<1>2. UNCHANGED <<client_fd, threadVars, backlog, m_client, open, tableVars,
                  askVars>>
  BY Zenon DEF ScanThreads, TakeThread
<1>3. /\ main' \in {"scan", "take", "construct", "null loop"}
      /\ main' = "take" => k' <= NumThreads
      /\ k' \in 1..(NumThreads + 1) /\ ans'.idx \in Threads /\ ans'.number \in Nat
  <2>1. CASE k > NumThreads /\ ScanThreads
    <3>1. main' = "construct" /\ k' = 1 /\ ans' = ans
      BY <2>1, Zenon DEF ScanThreads
    <3> QED BY <1>1, <3>1, ThreadsAssumption
  <2>2. CASE ~(k > NumThreads)
    <3>1. k \in Threads /\ k + 1 \in 1..(NumThreads + 1) /\ k <= NumThreads
      BY <1>1, <2>2, ThreadsAssumption DEF Threads
    <3>2. TaskSizes(k) \subseteq Nat
      BY <1>1, <3>1, TaskSizesNat, Zenon
    <3>3. PICK n \in TaskSizes(k) :
            /\ \/ ans' = ans \/ ans' = [idx |-> 1, number |-> n]
               \/ ans' = [idx |-> k, number |-> n]
            /\ k' = k \/ k' = k + 1 \/ (k = 1 /\ k' = 2)
            /\ main' \in {"scan", "take", "null loop"}
            /\ main' = "take" => k' = k
      <4>1. CASE ScanThreads
        <5>1. PICK n \in TaskSizes(k) :
                \/ main' = "null loop" /\ UNCHANGED <<k, ans>>
                \/ k = 1 /\ ans' = [idx |-> 1, number |-> n] /\ k' = 2 /\ main' = main
                \/ main' = "take" /\ UNCHANGED <<k, ans>>
                \/ k' = k + 1 /\ UNCHANGED <<main, ans>>
          BY <2>2, <4>1, Zenon DEF ScanThreads
        <5>2. main = "scan"
          BY <4>1 DEF ScanThreads
        <5> QED BY <5>1, <5>2
      <4>2. CASE TakeThread
        <5>1. PICK n \in TaskSizes(k) : ans' = [idx |-> k, number |-> n]
          BY <4>2, Zenon DEF TakeThread
        <5>2. k' = k + 1 /\ main' = "scan"
          BY <4>2, Zenon DEF TakeThread
        <5> QED BY <5>1, <5>2
      <4> QED BY <4>1, <4>2
    <3>4. n \in Nat
      BY <3>2, <3>3, Zenon
    <3>7. 1 \in Threads /\ 2 \in 1..(NumThreads + 1)
      BY ThreadsAssumption DEF Threads
    <3>5. ans'.idx \in Threads /\ ans'.number \in Nat
      <4>1. \/ ans' = ans \/ ans' = [idx |-> 1, number |-> n]
            \/ ans' = [idx |-> k, number |-> n]
        BY <3>3, Zenon
      <4>2. CASE ans' = ans
        BY <1>1, <4>2, Zenon
      <4>3. CASE ans' = [idx |-> 1, number |-> n]
        BY <3>4, <3>7, <4>3
      <4>4. CASE ans' = [idx |-> k, number |-> n]
        BY <3>1, <3>4, <4>4
      <4> QED BY <4>1, <4>2, <4>3, <4>4
    <3>6. k' \in 1..(NumThreads + 1)
      BY <1>1, <3>1, <3>3, <3>7
    <3> QED BY <3>1, <3>3, <3>5, <3>6
  <2>3. k > NumThreads => ~TakeThread
    BY <1>1, ThreadsAssumption DEF TakeThread
  <2> QED BY <2>1, <2>2, <2>3
<1>4. /\ Accepting /\ Alive
      /\ main' = "null loop" \/ Accepting'
      /\ main' = "null loop" => ~Accepting' /\ ~Alive'
      /\ main' \notin {"create", "wait init", "constructed", "accept", "no event"}
      /\ main' \in Mains
  <2>1. Accepting /\ Alive
    BY <1>1 DEF Accepting, Alive, Ends
  <2>2. /\ main' \in Mains
        /\ main' \notin {"create", "wait init", "constructed", "accept", "no event"}
    BY <1>3 DEF Mains, Ends
  <2>3. main' = "null loop" \/ Accepting'
    BY <1>3, Zenon DEF Accepting
  <2>4. main' = "null loop" => ~Accepting' /\ ~Alive'
    BY DEF Accepting, Alive, Ends
  <2> QED BY <2>1, <2>2, <2>3, <2>4, Zenon
<1>5. FdInv'
  BY <1>2, <1>4, Zenon DEF ServerOk, FdInv
<1>6. TypeOK'
  <2>1. TypeOK
    BY Zenon DEF ServerOk, ServerInv
  <2> QED BY <1>2, <1>3, <1>4, <2>1, Zenon DEF TypeOK, Mains
<1>7. ServerInv'
  BY <1>2, <1>3, <1>4, <1>6, Zenon DEF ServerOk, ServerInv
<1>8. TableInv'
  BY <1>2, <1>4, Zenon DEF ServerOk, TableInv, Missed, Overshoot, Event
<1> QED BY <1>5, <1>7, <1>8, Zenon DEF ServerOk

(* The new connection gets the FdEvent of its descriptor, if there is one. *)
LEMMA ConstructStep ==
  ASSUME ServerOk, ConstructConnection
  PROVE  ServerOk'
<1> DEFINE first == work.first_fd
           event == IF client_fd < Len(events') THEN events'[client_fd + 1] ELSE -1
           c == [fd |-> client_fd, thread |-> ans.idx, state |-> "posted",
                 event |-> event, exchange |-> NoReply]
<1>1. /\ m_client \in Seq(Connection) /\ Len(m_client) \in Nat
      /\ main = "construct" /\ GetFdEvent(client_fd)
      /\ \/ m_client' = Append(m_client, c) /\ main' = "loop"
         \/ event = -1 /\ main' = "no event" /\ m_client' = m_client
      /\ ans' = [idx |-> 1, number |-> 0]
      /\ UNCHANGED <<k, client_fd, threadVars, backlog, open, askVars>>
  <2>1. m_client \in Seq(Connection)
    BY Zenon DEF ServerOk, ServerInv
  <2> QED BY <2>1, LenProperties, Zenon DEF ConstructConnection
<1>2. /\ Accepting /\ Alive /\ ~Accepting' /\ main' \in Mains
      /\ main' = "no event" => ~Alive'
      /\ main' \notin {"create", "wait init", "constructed", "accept"}
  BY <1>1 DEF Accepting, Mains, Alive, Ends
<1>3. /\ client_fd = first + Len(m_client) /\ client_fd \in Fds
      /\ open = first..(first + Len(m_client))
  BY <1>2, Zenon DEF ServerOk, FdInv
<1>4. client_fd \in Nat /\ first \in Nat
  <2>1. work \in Workloads
    BY Zenon DEF ServerOk, ServerInv, TypeOK
  <2> QED BY <1>3, <2>1, BoundsAssumption DEF Fds
<1>5. /\ m_size' \in Nat /\ m_size' >= TableSize /\ events' = Entries(0, m_size')
      /\ events' \in Seq(Nat) /\ Len(events') = m_size'
      /\ client_fd < m_size' => event = client_fd
      /\ client_fd >= m_size' =>
           event = -1 /\ Missed(Len(m_client)) /\ Overshoot
  <2>1. /\ m_size' \in Nat /\ m_size' >= TableSize /\ events' = Entries(0, m_size')
        /\ events' \in Seq(Nat) /\ Len(events') = m_size'
        /\ client_fd < m_size' => events'[client_fd + 1] = client_fd
        /\ client_fd >= m_size' => Missed(Len(m_client)) /\ Overshoot
    BY <1>1, <1>3, <1>4, TableStep, Zenon DEF ServerOk
  <2> QED BY <1>4, <2>1
<1>6. event \in Int /\ (event = -1 => client_fd >= m_size')
  BY <1>4, <1>5
<1>0. Len(m_client) \in Nat /\ first \in Nat /\ client_fd \in Nat
  BY <1>1, <1>4, Zenon
<1> HIDE DEF event, first
<1>7. c \in Connection /\ c.fd = client_fd /\ c.event = event
  <2>1. ans.idx \in Threads
    BY Zenon DEF ServerOk, ServerInv, TypeOK
  <2>2. NoReply \in Exchanges
    BY DEF Exchanges
  <2> HIDE DEF NoReply
  <2> QED BY <1>3, <1>4, <1>6, <2>1, <2>2 DEF Connection
<1> HIDE DEF c
<1>8. work' = work /\ (Overshoot' <=> Overshoot) /\ first' = first
  BY <1>1, Zenon DEF Overshoot, first
(* The lookup is in vain: nothing is added.                                *)
<1>9. ASSUME m_client' = m_client, main' = "no event", event = -1
      PROVE  FdInv' /\ TableInv'
  <2>1. Missed(Len(m_client)) /\ Overshoot
    BY <1>5, <1>6, <1>9, Zenon
  <2>2. ~Alive' /\ ~Accepting'
    BY <1>2, <1>9
  <2>3. FdInv'
    BY <1>8, <1>9, <2>2, Zenon DEF ServerOk, FdInv
  <2>4. Missed(Len(m_client))'
    BY <1>8, <1>9, <2>1, Zenon DEF Missed, Event
  <2>5. \A i \in 1..Len(m_client) : Event(i) = m_client[i].fd \/ Missed(i)
    BY Zenon DEF ServerOk, TableInv
  <2>6. \A i \in 1..Len(m_client') : (Event(i) = m_client[i].fd \/ Missed(i))'
    BY <1>8, <1>9, <2>5, Zenon DEF Missed, Event
  <2> QED BY <1>5, <1>8, <2>1, <2>3, <2>4, <2>6, Zenon DEF TableInv
(* A connection is added.                                                  *)
<1>10. ASSUME m_client' = Append(m_client, c), main' = "loop"
       PROVE  FdInv' /\ TableInv' /\ m_client' \in Seq(Connection)
  <2>1. /\ m_client' \in Seq(Connection) /\ Len(m_client') = Len(m_client) + 1
        /\ m_client'[Len(m_client) + 1] = c
        /\ \A i \in 1..Len(m_client) : m_client'[i] = m_client[i]
    <3>1. /\ Append(m_client, c) \in Seq(Connection)
          /\ Len(Append(m_client, c)) = Len(m_client) + 1
          /\ \A i \in 1..Len(m_client) : Append(m_client, c)[i] = m_client[i]
          /\ Append(m_client, c)[Len(m_client) + 1] = c
      BY <1>1, <1>7, AppendProperties
    <3> QED BY <1>10, <3>1, Zenon
  <2>2. \A i \in 1..Len(m_client') : i \in 1..Len(m_client) \/ i = Len(m_client) + 1
    BY <1>0, <2>1
  <2>3. \A i \in 1..Len(m_client') : m_client'[i].fd = first + i - 1
    <3>1. \A i \in 1..Len(m_client) : m_client[i].fd = first + i - 1
      BY Zenon DEF ServerOk, FdInv, first
    <3>2. client_fd = first + (Len(m_client) + 1) - 1
      BY <1>0, <1>3
    <3> QED BY <1>7, <2>1, <2>2, <3>1, <3>2, Zenon
  <2>4. open' = first..(first + Len(m_client') - 1)
    <3>1. first + Len(m_client) = first + Len(m_client') - 1
      BY <1>0, <2>1
    <3>2. open' = open
      BY <1>1, Zenon
    <3> QED BY <1>3, <3>1, <3>2, Zenon DEF first
  <2>5. FdInv'
    BY <1>2, <1>8, <2>3, <2>4, Zenon DEF FdInv, first
  <2>6. Missed(Len(m_client)) /\ event = -1 => Missed(Len(m_client))'
    BY <1>7, <1>8, <2>1, <2>2, Zenon DEF Missed, Event
  <2>7. \A i \in 1..Len(m_client') : (Event(i) = m_client[i].fd \/ Missed(i))'
    <3>1. \A i \in 1..Len(m_client) : (Event(i) = m_client[i].fd \/ Missed(i))'
      <4> TAKE i \in 1..Len(m_client)
      <4>1. \A e \in 1..i : e \in 1..Len(m_client)
        OBVIOUS
      <4>2. Event(i) = m_client[i].fd \/ Missed(i)
        BY Zenon DEF ServerOk, TableInv
      <4> QED BY <1>8, <2>1, <4>1, <4>2, Zenon DEF Missed, Event
    <3>2. (Event(Len(m_client)) = m_client[Len(m_client)].fd \/ Missed(Len(m_client)))'
      <4>1. CASE event = client_fd
        BY <1>7, <2>1, <4>1, Zenon DEF Event
      <4>2. CASE event # client_fd
        <5>1. client_fd >= m_size'
          BY <1>0, <1>5, <4>2
        <5> QED BY <1>5, <2>6, <5>1, Zenon
      <4> QED BY <4>1, <4>2
    <3> QED BY <2>1, <2>2, <3>1, <3>2, Zenon
  <2>8. first + Len(m_client') <= m_size' \/ Missed(Len(m_client))'
    <3>1. CASE client_fd < m_size'
      BY <1>0, <1>3, <1>5, <2>1, <3>1
    <3>2. CASE client_fd >= m_size'
      BY <1>5, <2>6, <3>2, Zenon
    <3> QED BY <1>0, <1>5, <3>1, <3>2
  <2>9. main' # "no event"
    BY <1>10
  <2> QED BY <1>5, <1>8, <2>1, <2>5, <2>7, <2>8, <2>9, Zenon DEF TableInv, first
<1>11. FdInv' /\ TableInv' /\ m_client' \in Seq(Connection)
  <2>1. CASE event = -1 /\ main' = "no event" /\ m_client' = m_client
    BY <1>1, <1>9, <2>1, Zenon
  <2>2. CASE m_client' = Append(m_client, c) /\ main' = "loop"
    BY <1>10, <2>2, Zenon
  <2> QED BY <1>1, <2>1, <2>2, Zenon DEF c, event
<1>12. TypeOK'
  <2>1. \A i \in DOMAIN m_client' :
          /\ m_client'[i].fd \in Fds /\ m_client'[i].thread \in Threads
          /\ m_client'[i].event \in Int
          /\ m_client'[i].state \in {"posted", "listening", "closed"}
    BY <1>11, ConnectionTypes, Zenon
  <2>2. ans'.idx \in Threads /\ ans'.number \in Nat
    <3>1. ans' = [idx |-> 1, number |-> 0]
      BY <1>1, Zenon
    <3>2. 1 \in Threads
      BY ThreadsAssumption DEF Threads
    <3> QED BY <3>1, <3>2
  <2>3. TypeOK
    BY Zenon DEF ServerOk, ServerInv
  <2> QED BY <1>1, <1>2, <1>5, <2>1, <2>2, <2>3, Zenon DEF TypeOK, Mains
<1>13. ServerInv'
  <2>1. main' # "take"
    BY <1>1
  <2> QED BY <1>2, <1>11, <1>12, <2>1, Zenon DEF ServerInv
<1> QED BY <1>11, <1>13, Zenon DEF ServerOk

(* A step of a client or of an I/O thread changes what a connection does,  *)
(* not its descriptor.                                                     *)
LEMMA ClientKeeps ==
  ASSUME ServerOk,
         \/ \E i \in Threads : RunTasks(i)
         \/ \E j \in 1..work.clients, r \in Requests : Execute(j, r)
         \/ \E j \in 1..work.clients : ClientGone(j)
  PROVE  ServerOk'
<1>1. KeepsClients
  BY ClientStep, Zenon DEF ServerOk
<1>2. UNCHANGED <<main, k, ans, client_fd, threadVars, backlog, open,
                  tableVars, serviceVars, work>>
  BY Zenon DEF RunTasks, Execute, ClientGone
<1>3. asked' \in 0..work.requests
  <2>1. asked \in 0..work.requests /\ work.requests \in Nat
    <3>1. work \in Workloads /\ asked \in 0..work.requests
      BY Zenon DEF ServerOk, ServerInv, TypeOK
    <3> QED BY <3>1, BoundsAssumption
  <2>2. asked' = asked \/ (asked < work.requests /\ asked' = asked + 1)
    BY Zenon DEF RunTasks, Execute, ClientGone
  <2> QED BY <2>1, <2>2
<1>4. /\ (Accepting' <=> Accepting) /\ (Alive' <=> Alive)
      /\ main \notin {"create", "wait init", "constructed"}
  <2>1. (Accepting' <=> Accepting) /\ (Alive' <=> Alive)
    BY <1>2, Zenon DEF Accepting, Alive
  <2>2. m_client # << >>
    <3>1. \E j \in DOMAIN m_client : TRUE
      BY DEF RunTasks, Execute, ClientGone, Served, Posted, InState
    <3> QED BY <3>1
  <2> QED BY <2>1, <2>2, Zenon DEF ServerOk, ServerInv
<1>5. Len(m_client') = Len(m_client) /\ work' = work
  BY <1>1, <1>2, Zenon DEF KeepsClients
<1>6. FdInv'
  BY <1>1, <1>2, <1>4, <1>5, Zenon DEF ServerOk, FdInv, KeepsClients
<1>7. TableInv'
  <2>1. \A i \in 1..Len(m_client) :
          m_client'[i].fd = m_client[i].fd /\ m_client'[i].event = m_client[i].event
    BY <1>1, Zenon DEF KeepsClients
  <2>2. Overshoot' <=> Overshoot
    BY <1>5, Zenon DEF Overshoot
  <2>3. Len(m_client) \in Nat
    BY LenProperties, Zenon DEF ServerOk, ServerInv
  <2>4. \A i \in 0..Len(m_client) : Missed(i)' <=> Missed(i)
    <3>1. \A i \in 0..Len(m_client) : \A e \in 1..i : e \in 1..Len(m_client)
      BY <2>3
    <3> QED BY <2>1, <2>2, <3>1, Zenon DEF Missed, Event
  <2>5. Len(m_client) \in 0..Len(m_client) /\ 1..Len(m_client) \subseteq 0..Len(m_client)
    BY <2>3
  <2>6. \A i \in 1..Len(m_client') : (Event(i) = m_client[i].fd \/ Missed(i))'
    BY <1>5, <2>1, <2>4, <2>5, Zenon DEF ServerOk, TableInv, Event
  <2>7. m_client = << >> => m_client' = << >>
    BY <1>1, EmptySeq, LenProperties DEF KeepsClients
  <2>8. Missed(Len(m_client))' <=> Missed(Len(m_client))
    BY <1>5, <2>4, <2>5, Zenon
  <2> QED BY <1>2, <1>5, <2>2, <2>6, <2>7, <2>8, Zenon DEF ServerOk, TableInv
<1>8. TypeOK'
  <2>1. \A i \in DOMAIN m_client' :
          /\ m_client'[i].fd \in Fds /\ m_client'[i].thread \in Threads
          /\ m_client'[i].event \in Int
          /\ m_client'[i].state \in {"posted", "listening", "closed"}
    BY <1>1, ConnectionTypes, Zenon DEF KeepsClients
  <2>2. TypeOK
    BY Zenon DEF ServerOk, ServerInv
  <2> QED BY <1>2, <1>3, <2>1, <2>2, Zenon DEF TypeOK
<1>9. ServerInv'
  BY <1>1, <1>2, <1>4, <1>8, Zenon DEF ServerOk, ServerInv, KeepsClients
<1> QED BY <1>6, <1>7, <1>9, Zenon DEF ServerOk

(* The invariant is kept by every step.                                   *)
LEMMA ServerStep ==
  ASSUME ServerOk, [Next]_vars
  PROVE  ServerOk'
<1>1. CASE \/ CreateThread \/ ThreadCreated \/ Start \/ StartThreads \/ Report
           \/ \E i \in Threads : ThreadInit(i) \/ ThreadLoops(i)
           \/ \E s \in Services : Register(s)
           \/ \E j \in 1..work.clients : Turn(j) \/ Sigpipe(j)
           \/ ClientConnects \/ UNCHANGED vars
  <2>1. Quiet
    BY <1>1, QuietStep, Zenon DEF ServerOk
  <2> QED BY <2>1, QuietKeeps, Zenon
<1>2. CASE Accept \/ ScanThreads \/ TakeThread \/ ConstructConnection
  BY <1>2, AcceptStep, ScanStep, ConstructStep, Zenon
<1>3. CASE \/ \E i \in Threads : RunTasks(i)
           \/ \E j \in 1..work.clients, r \in Requests : Execute(j, r)
           \/ \E j \in 1..work.clients : ClientGone(j)
  BY <1>3, ClientKeeps, Zenon
<1> QED BY <1>1, <1>2, <1>3, Zenon DEF Next, MainThread, IOThread

LEMMA ServerInit == Init => ServerOk
<1> SUFFICES ASSUME Init PROVE ServerOk
  OBVIOUS
<1>1. /\ main = "create" /\ k = 1 /\ ans = [idx |-> 1, number |-> 0]
      /\ client_fd = 0 /\ thread = [i \in Threads |-> "none"] /\ started = {}
      /\ backlog = 0 /\ m_client = << >> /\ open = {} /\ m_size = 0
      /\ events = << >> /\ m_service_map = {} /\ registered = << >>
      /\ asked = 0 /\ work \in Workloads
  BY Zenon DEF Init
<1>2. /\ 1 \in Threads /\ k \in 1..(NumThreads + 1) /\ ans.idx \in Threads
      /\ ans.number \in Nat
  BY <1>1, ThreadsAssumption DEF Threads
<1>3. /\ client_fd \in 0..MaxFds /\ backlog \in 0..work.clients
      /\ asked \in 0..work.requests /\ work.first_fd \in Nat
  BY <1>1, BoundsAssumption
<1>4. main \in Mains /\ ~Accepting /\ main \notin {"accept", "take", "no event"}
  BY <1>1 DEF Mains, Accepting
<1>5. thread \in [Threads -> ThreadStates]
  BY <1>1 DEF ThreadStates
<1>6. /\ m_client \in Seq(Connection) /\ events \in Seq(Nat) /\ Len(m_client) = 0
      /\ registered \in Seq(Services)
  BY <1>1
<1>7. TypeOK
  <2>1. /\ started \in SUBSET Threads /\ open \in SUBSET Fds /\ m_size \in Nat
        /\ m_service_map \in SUBSET Services
    BY <1>1
  <2> QED
    BY <1>1, <1>2, <1>3, <1>4, <1>5, <1>6, <2>1, ConnectionTypes, Zenon
       DEF TypeOK, Mains, ThreadStates
<1>8. ServerInv
  BY <1>1, <1>2, <1>4, <1>6, <1>7, Zenon DEF ServerInv
<1>9. \A i \in 1..Len(m_client) : FALSE
  BY <1>6
<1>10. FdInv
  <2>1. open = work.first_fd..(work.first_fd + Len(m_client) - 1)
    BY <1>1, <1>3, <1>6
  <2> QED BY <1>4, <1>9, <2>1, Zenon DEF FdInv
<1>11. TableInv
  BY <1>1, <1>4, <1>9, Zenon DEF TableInv
<1> QED BY <1>8, <1>10, <1>11, Zenon DEF ServerOk

LEMMA ServerInvariant == Spec => []ServerOk
<1>1. ServerOk /\ [Next]_vars => ServerOk'
  BY ServerStep
<1> QED BY <1>1, ServerInit, PTL DEF Spec

(* The states of TcpServer have their types.                               *)
THEOREM ServerTypes == Spec => []TypeOK
<1>1. ServerOk => TypeOK
  BY Zenon DEF ServerOk, ServerInv
<1> QED BY <1>1, ServerInvariant, PTL

(* For any table size, any first descriptor and any number of clients that *)
(* come and go, each connection of m_client has a descriptor of its own    *)
(* and the FdEvent of it: clear() leaves the descriptor open, so ::accept  *)
(* returns ever higher ones, and get_fd_event grows the table ahead of     *)
(* them.  Where the first descriptor is behind the first growth, the first *)
(* connections have no FdEvent, and only they.                             *)
THEOREM EventsAreOwn == Spec => []OwnEvent
<1>1. ServerOk => OwnEvent
  <2> SUFFICES ASSUME ServerOk PROVE OwnEvent
    OBVIOUS
  <2>1. m_client \in Seq(Connection) /\ work.first_fd \in Nat
    <3>1. work \in Workloads /\ m_client \in Seq(Connection)
      BY Zenon DEF ServerOk, ServerInv, TypeOK
    <3> QED BY <3>1, BoundsAssumption
  <2>2. \A i \in 1..Len(m_client) : m_client[i].fd = work.first_fd + i - 1
    BY Zenon DEF ServerOk, FdInv
  <2>3. \A i, j \in 1..Len(m_client) : m_client[i].fd = m_client[j].fd <=> i = j
    BY <2>1, <2>2
  <2>4. \A i, j \in 1..Len(m_client) :
          \/ m_client[i].event = m_client[j].fd <=> i = j
          \/ Overshoot /\ \A e \in 1..i : m_client[e].event = -1
    <3> TAKE i, j \in 1..Len(m_client)
    <3>1. Event(i) = m_client[i].fd \/ Missed(i)
      BY Zenon DEF ServerOk, TableInv
    <3> QED BY <2>3, <3>1, Zenon DEF Event, Missed
  <2>5. main = "no event" => Overshoot
    BY Zenon DEF ServerOk, TableInv
  <2> QED BY <2>1, <2>4, <2>5, LenProperties, Zenon DEF OwnEvent
<1> QED BY <1>1, ServerInvariant, PTL

-----------------------------------------------------------------------------
(* Requests.                                                               *)

(* The map holds of each name the service registered last, and a reply is  *)
(* still the dispatch of its request over the map: no service is           *)
(* registered once there are connections.                                  *)
Answer(r) == [request |-> <<r>>, reply |-> <<Dispatch(m_service_map, r)>>]
Answered(e) == e = NoReply \/ \E r \in Requests : e = Answer(r)

ReachInv ==
  /\ m_service_map = {s \in Services : RegisteredLast(s)}
  /\ \A i \in 1..Len(m_client) : Answered(m_client[i].exchange)

(* A name stands for one service.                                          *)
LEMMA OneService ==
  ASSUME NEW s, NEW t, RegisteredLast(s), RegisteredLast(t), s.name = t.name,
         registered \in Seq(Services)
  PROVE  s = t
<1>1. PICK i \in DOMAIN registered :
        /\ registered[i] = s
        /\ \A j \in DOMAIN registered : j > i => registered[j].name # s.name
  BY Zenon DEF RegisteredLast
<1>2. PICK j \in DOMAIN registered :
        /\ registered[j] = t
        /\ \A e \in DOMAIN registered : e > j => registered[e].name # t.name
  BY Zenon DEF RegisteredLast
<1>3. i \in Nat /\ j \in Nat
  BY LenProperties
<1>4. ~(j > i) /\ ~(i > j)
  BY <1>1, <1>2, Zenon
<1>5. i = j
  BY <1>3, <1>4
<1> QED BY <1>1, <1>2, <1>5, Zenon

(* Registration replaces the service of the same name.                     *)
LEMMA RegisterStep ==
  ASSUME NEW service \in Services, registered \in Seq(Services),
         registered' = Append(registered, service)
  PROVE  {s \in Services : RegisteredLast(s)}'
           = RegisterService({s \in Services : RegisteredLast(s)}, service)
<1> DEFINE n == Len(registered)
<1>1. /\ n \in Nat /\ DOMAIN registered = 1..n
      /\ DOMAIN registered' = 1..(n + 1)
      /\ \A i \in 1..n : registered'[i] = registered[i]
      /\ registered'[n + 1] = service
  BY AppendProperties, LenProperties
<1>2. /\ \A i \in 1..(n + 1) : i \in 1..n \/ i = n + 1
      /\ \A i \in 1..n : i \in 1..(n + 1) /\ n + 1 > i
      /\ \A i \in 1..(n + 1) : ~(i > n + 1)
      /\ n + 1 \in 1..(n + 1)
  BY <1>1
<1> HIDE DEF n
<1>3. \A s : RegisteredLast(s)' <=>
               s = service \/ (RegisteredLast(s) /\ s.name # service.name)
  <2> SUFFICES ASSUME NEW s
               PROVE  RegisteredLast(s)' <=>
                        s = service \/ (RegisteredLast(s) /\ s.name # service.name)
    OBVIOUS
  <2>1. ASSUME RegisteredLast(s)'
        PROVE  s = service \/ (RegisteredLast(s) /\ s.name # service.name)
    <3>1. PICK i \in 1..(n + 1) :
            /\ registered'[i] = s
            /\ \A j \in 1..(n + 1) : j > i => registered'[j].name # s.name
      BY <1>1, <2>1, Zenon DEF RegisteredLast
    <3>2. CASE i = n + 1
      BY <1>1, <3>1, <3>2, Zenon
    <3>3. CASE i \in 1..n
      <4>1. service.name # s.name
        BY <1>1, <1>2, <3>1, <3>3, Zenon
      <4>2. \A j \in 1..n : j > i => registered[j].name # s.name
        BY <1>1, <1>2, <3>1, Zenon
      <4>3. registered[i] = s
        BY <1>1, <3>1, <3>3, Zenon
      <4> QED BY <1>1, <3>3, <4>1, <4>2, <4>3, Zenon DEF RegisteredLast
    <3> QED BY <1>2, <3>2, <3>3, Zenon
  <2>2. ASSUME s = service
        PROVE  RegisteredLast(s)'
    BY <1>1, <1>2, <2>2, Zenon DEF RegisteredLast
  <2>3. ASSUME RegisteredLast(s), s.name # service.name
        PROVE  RegisteredLast(s)'
    <3>1. PICK i \in 1..n :
            /\ registered[i] = s
            /\ \A j \in 1..n : j > i => registered[j].name # s.name
      BY <1>1, <2>3, Zenon DEF RegisteredLast
    <3>2. \A j \in 1..(n + 1) : j > i => registered'[j].name # s.name
      BY <1>1, <1>2, <2>3, <3>1, Zenon
    <3> QED BY <1>1, <1>2, <3>1, <3>2, Zenon DEF RegisteredLast
  <2> QED BY <2>1, <2>2, <2>3, Zenon
<1> QED BY <1>3, Zenon DEF RegisterService

LEMMA ReachStep ==
  ASSUME ServerInv, ServerInv', ReachInv, [Next]_vars
  PROVE  ReachInv'
<1>1. m_client \in Seq(Connection) /\ DOMAIN m_client = 1..Len(m_client)
  BY LenProperties, Zenon DEF ServerInv
<1>2. m_client' \in Seq(Connection) /\ DOMAIN m_client' = 1..Len(m_client')
  BY LenProperties, Zenon DEF ServerInv
<1>3. CASE UNCHANGED <<m_client, serviceVars>>
  BY <1>3, Zenon DEF ReachInv, Answered, Answer, RegisteredLast
<1>4. CASE \E s \in Services : Register(s)
  <2>1. PICK s \in Services : /\ m_service_map' = RegisterService(m_service_map, s)
                              /\ registered' = Append(registered, s)
    BY <1>4, Zenon DEF Register
  <2>2. m_service_map' = {t \in Services : RegisteredLast(t)}'
    <3>1. registered \in Seq(Services)
      BY Zenon DEF ServerInv, TypeOK
    <3> QED BY <2>1, <3>1, RegisterStep, Zenon DEF ReachInv
  <2>3. m_client' = << >>
    BY <1>4, Zenon DEF Register, ServerInv
  <2>4. Len(m_client') = 0
    BY <2>3
  <2>5. \A i \in 1..Len(m_client') : FALSE
    BY <2>4
  <2> QED BY <2>2, <2>5, Zenon DEF ReachInv
<1>5. CASE /\ UNCHANGED serviceVars
           /\ \A i \in 1..Len(m_client') : \/ Answered(m_client'[i].exchange)
                                           \/ /\ i \in 1..Len(m_client)
                                              /\ m_client'[i].exchange = m_client[i].exchange
  BY <1>5, Zenon DEF ReachInv, Answered, Answer, RegisteredLast
<1>6. CASE ConstructConnection
  <2> DEFINE c == [fd |-> client_fd, thread |-> ans.idx, state |-> "posted",
                   event |-> IF client_fd < Len(events') THEN events'[client_fd + 1]
                                                         ELSE -1,
                   exchange |-> NoReply]
  <2>1. /\ m_client' = Append(m_client, c) \/ m_client' = m_client
        /\ UNCHANGED serviceVars
    BY <1>6, Zenon DEF ConstructConnection
  <2>2. c.exchange = NoReply
    BY Zenon
  <2> HIDE DEF c
  <2> DEFINE All == Connection \cup {c}
  <2>3. m_client \in Seq(All) /\ c \in All
    BY <1>1
  <2> HIDE DEF All
  <2>4. /\ Len(Append(m_client, c)) = Len(m_client) + 1
        /\ \A i \in 1..Len(m_client) : Append(m_client, c)[i] = m_client[i]
        /\ Append(m_client, c)[Len(m_client) + 1] = c
    BY <2>3, AppendProperties
  <2>5. \A i \in 1..(Len(m_client) + 1) : i \in 1..Len(m_client) \/ i = Len(m_client) + 1
    BY <1>1
  <2>6. CASE m_client' = m_client
    BY <1>3, <2>1, <2>6, Zenon
  <2>7. CASE m_client' = Append(m_client, c)
    BY <1>5, <2>1, <2>2, <2>4, <2>5, <2>7, Zenon DEF Answered
  <2> QED BY <2>1, <2>6, <2>7
<1>7. CASE \E j \in Threads : RunTasks(j)
  <2>1. PICK j \in Threads :
          m_client' = [i \in DOMAIN m_client |->
                         IF i \in Posted(j) THEN [m_client[i] EXCEPT !.state = "listening"]
                                            ELSE m_client[i]]
    BY <1>7, Zenon DEF RunTasks
  <2>2. UNCHANGED serviceVars
    BY <1>7, Zenon DEF RunTasks
  <2>3. \A i \in 1..Len(m_client) : m_client[i] \in Connection
    BY <1>1
  <2>4. \A d \in Connection : [d EXCEPT !.state = "listening"].exchange = d.exchange
    BY DEF Connection
  <2>5. DOMAIN m_client' = DOMAIN m_client
    BY <2>1, Zenon
  <2>6. \A i \in 1..Len(m_client) :
          m_client'[i] = IF i \in Posted(j) THEN [m_client[i] EXCEPT !.state = "listening"]
                                            ELSE m_client[i]
    BY <1>1, <2>1, Zenon
  <2>7. \A i \in 1..Len(m_client') :
          i \in 1..Len(m_client) /\ m_client'[i].exchange = m_client[i].exchange
    BY <1>1, <1>2, <2>3, <2>4, <2>5, <2>6, Zenon
  <2> QED BY <1>5, <2>2, <2>7, Zenon
<1>8. CASE \E j \in 1..work.clients : ClientGone(j)
  <2>1. PICK j \in DOMAIN m_client : m_client' = [m_client EXCEPT ![j].state = "closed"]
    BY <1>8, Zenon DEF ClientGone, Served
  <2>2. UNCHANGED serviceVars
    BY <1>8, Zenon DEF ClientGone
  <2>3. /\ DOMAIN m_client' = DOMAIN m_client
        /\ \A i \in DOMAIN m_client :
             m_client'[i] = IF i = j THEN [m_client[j] EXCEPT !.state = "closed"]
                                     ELSE m_client[i]
    BY <2>1, Zenon
  <2>4. \A i \in 1..Len(m_client) : m_client[i] \in Connection
    BY <1>1
  <2>5. \A d \in Connection : [d EXCEPT !.state = "closed"].exchange = d.exchange
    BY DEF Connection
  <2>6. \A i \in 1..Len(m_client') :
          i \in 1..Len(m_client) /\ m_client'[i].exchange = m_client[i].exchange
    BY <1>1, <1>2, <2>3, <2>4, <2>5, Zenon
  <2> QED BY <1>5, <2>2, <2>6, Zenon
<1>9. CASE \E j \in 1..work.clients, r \in Requests : Execute(j, r)
  <2>1. PICK r \in Requests, j \in DOMAIN m_client :
          m_client' = [m_client EXCEPT ![j].exchange = Answer(r)]
    BY <1>9, Zenon DEF Execute, Served, Answer
  <2>2. UNCHANGED serviceVars
    BY <1>9, Zenon DEF Execute
  <2> DEFINE x == Answer(r)
  <2>3. Answered(x)'
    BY <2>2, Zenon DEF Answered, Answer
  <2> HIDE DEF x
  <2>4. /\ DOMAIN m_client' = DOMAIN m_client
        /\ \A i \in DOMAIN m_client :
             m_client'[i] = IF i = j THEN [m_client[j] EXCEPT !.exchange = x]
                                     ELSE m_client[i]
    BY <2>1, Zenon DEF x
  <2>5. \A i \in 1..Len(m_client) : m_client[i] \in Connection
    BY <1>1
  <2>6. \A d \in Connection : [d EXCEPT !.exchange = x].exchange = x
    BY DEF Connection
  <2>7. \A i \in 1..Len(m_client') :
          i \in 1..Len(m_client) /\ (\/ m_client'[i].exchange = x
                                     \/ m_client'[i].exchange = m_client[i].exchange)
    BY <1>1, <1>2, <2>4, <2>5, <2>6, Zenon
  <2>8. \A i \in 1..Len(m_client) : Answered(m_client[i].exchange)
    BY Zenon DEF ReachInv
  <2>9. x' = x /\ (Answered(x) <=> Answered(x)')
    BY <2>2, Zenon DEF Answered, Answer, x
  <2> QED BY <1>5, <2>2, <2>7, <2>9, <2>3, Zenon
<1>10. CASE \/ CreateThread \/ ThreadCreated \/ Start \/ StartThreads \/ Report
            \/ Accept \/ ScanThreads \/ TakeThread
            \/ \E i \in Threads : ThreadInit(i) \/ ThreadLoops(i)
            \/ \E j \in 1..work.clients : Turn(j) \/ Sigpipe(j)
            \/ ClientConnects \/ UNCHANGED vars
  <2>1. UNCHANGED <<m_client, serviceVars>>
    BY <1>10, Zenon DEF CreateThread, ThreadCreated, Start, StartThreads, Report,
         Accept, ScanThreads, TakeThread, ThreadInit, ThreadLoops, Turn, Sigpipe,
         ClientConnects
  <2> QED BY <1>3, <2>1
<1> QED
  BY <1>4, <1>6, <1>7, <1>8, <1>9, <1>10, Zenon DEF Next, MainThread, IOThread

(* For every set of services and of requests and any registrations, a      *)
(* request reaches no method but the one it names, of the service          *)
(* registered last under that name, which it does reach when it can be     *)
(* parsed and the service has no package; nothing is claimed of when a     *)
(* service in a package is reached.                                        *)
THEOREM RequestsReachMethods == Spec => []RequestReachesMethod
<1>1. Init => ReachInv
  <2> SUFFICES ASSUME Init PROVE ReachInv
    OBVIOUS
  <2>1. m_service_map = {} /\ registered = << >> /\ m_client = << >>
    BY Zenon DEF Init
  <2>2. \A i \in 1..Len(m_client) : FALSE
    BY <2>1
  <2>3. \A i \in DOMAIN registered : FALSE
    BY <2>1
  <2> QED BY <2>1, <2>2, <2>3, Zenon DEF ReachInv, RegisteredLast
<1>2. ServerOk /\ ServerOk' /\ ReachInv /\ [Next]_vars => ReachInv'
  BY ReachStep, Zenon DEF ServerOk
<1>3. ServerOk /\ ReachInv => RequestReachesMethod
  <2> DEFINE request(i) == m_client[i].exchange.request[1]
             reply(i) == m_client[i].exchange.reply[1]
  <2> SUFFICES ASSUME ServerOk, ReachInv, NEW i \in DOMAIN m_client,
                      m_client[i].exchange # NoReply
               PROVE  /\ \A c \in reply(i).called : c \in Named(request(i)) /\ request(i).parses
                      /\ request(i).parses => \A c \in Named(request(i)) :
                           Len(c.service.name) = 1 => reply(i).called = {c}
                      /\ reply(i).err_code = 0
                           <=> reply(i).called # {} /\ request(i).serializes
    BY Zenon DEF RequestReachesMethod
  <2>1. i \in 1..Len(m_client)
    <3>1. DOMAIN m_client = 1..Len(m_client)
      BY LenProperties, Zenon DEF ServerOk, ServerInv
    <3> QED BY <3>1
  <2>2. PICK r \in Requests : m_client[i].exchange = Answer(r)
    BY <2>1, Zenon DEF ReachInv, Answered
  <2>3. request(i) = r /\ reply(i) = Dispatch(m_service_map, r)
    <3> DEFINE d == Dispatch(m_service_map, r)
    <3>1. m_client[i].exchange = [request |-> <<r>>, reply |-> <<d>>]
      BY <2>2, Zenon DEF Answer
    <3> HIDE DEF d
    <3>2. m_client[i].exchange.request[1] = r /\ m_client[i].exchange.reply[1] = d
      BY <3>1
    <3> QED BY <3>2 DEF d
  <2>4. /\ m_service_map \in SUBSET Services
        /\ \A s, t \in m_service_map : s.name = t.name => s = t
    <3>1. registered \in Seq(Services) /\ m_service_map \in SUBSET Services
      BY Zenon DEF ServerOk, ServerInv, TypeOK
    <3>2. \A s \in m_service_map : RegisteredLast(s)
      BY Zenon DEF ReachInv
    <3> QED BY <3>1, <3>2, OneService, Zenon
  <2>5. Named(r) = Asked(m_service_map, r)
    <3>1. \A c \in UNION {{[service |-> s, method |-> m] : m \in s.methods} : s \in Services} :
            c.service \in Services
      <4>1. \A s, m : [service |-> s, method |-> m].service = s
        OBVIOUS
      <4> TAKE c \in UNION {{[service |-> s, method |-> m] : m \in s.methods} : s \in Services}
      <4>2. PICK s \in Services : \E m \in s.methods : c = [service |-> s, method |-> m]
        BY Zenon
      <4> QED BY <4>1, <4>2, Zenon
    <3>2. \A s \in Services : RegisteredLast(s) <=> s \in m_service_map
      BY Zenon DEF ReachInv
    <3> QED BY <3>1, <3>2, Zenon DEF Named, Asked
  <2> DEFINE p == Dispatch(m_service_map, r)
  <2>6. /\ \A c \in p.called : c \in Asked(m_service_map, r) /\ r.parses
        /\ r.parses => \A c \in Asked(m_service_map, r) :
                         Len(c.service.name) = 1 => p.called = {c}
        /\ p.err_code = 0 <=> p.called # {} /\ r.serializes
    BY <2>4, DispatchIsRight, Zenon
  <2> HIDE DEF p
  <2>7. request(i) = r /\ reply(i) = p
    BY <2>3 DEF p
  <2> HIDE DEF request, reply
  <2> QED BY <2>5, <2>6, <2>7, Zenon
<1> QED BY <1>1, <1>2, <1>3, ServerInvariant, PTL DEF Spec
=============================================================================
