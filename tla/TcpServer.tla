----------------------------- MODULE TcpServer -----------------------------
(***************************************************************************)
(* rpc::TcpServer in the main thread with its TcpAcceptor, the IOThreads   *)
(* of its IOThreadGroup, the FdEventGroup in which a connection finds its  *)
(* FdEvent, and the dispatch of requests in the I/O threads.               *)
(*                                                                         *)
(* An event loop is what TaskExecutor promises of it: the registration of  *)
(* a connection is posted to it and is run some time later.  A connection  *)
(* is the record of it in m_client, which also says where it stands.       *)
(***************************************************************************)
EXTENDS RpcDispatcher, Integers, FiniteSets, SequencesExt

CONSTANTS NumThreads,   \* I/O threads
          MaxFds,       \* the process may have descriptors below this one
          TableSize,    \* the size FdEventGroup is created with
          Services,     \* what may be registered
          Requests,     \* what may be asked for
          Workloads     \* the lowest descriptor that is free for a client,
                        \* and bounds: the clients that connect, the
                        \* requests they send, whether they leave, how often
                        \* a service is registered

Threads == 1..NumThreads

ASSUME ThreadsAssumption == NumThreads \in Nat \ {0}
ASSUME BoundsAssumption ==
  /\ MaxFds \in Nat /\ TableSize \in Nat \ {0, 1}
  /\ \A w \in Workloads :
       /\ w.first_fd \in Nat /\ w.clients \in Nat /\ w.requests \in Nat
       /\ w.leave \in BOOLEAN /\ w.registers \in Nat
ASSUME NamesAssumption ==
  /\ \A s \in Services : s.name \in Seq(STRING) /\ s.methods \subseteq STRING
  /\ \A r \in Requests : /\ r.name \in Seq(STRING)
                         /\ r.parses \in BOOLEAN /\ r.serializes \in BOOLEAN

VARIABLES
  main,           \* what the main thread does next
  k,              \* the index of its loops over the I/O threads
  ans,            \* get_io_thread: ans_idx and number_fd so far
  client_fd,      \* on_accept: the descriptor of the new client
  thread,         \* [I/O thread -> none, created, ready, looping, turning]
  started,        \* I/O threads whose m_start_semphore was posted
  backlog,        \* clients connected and not accepted
  m_client,       \* the connections accepted, oldest first
  open,           \* descriptors of clients that are open
  m_size,         \* FdEventGroup::m_size, 0 before it is created
  events,         \* m_fd_event_groups: the descriptor of each FdEvent
  m_service_map,
  registered,     \* history: the services registered, oldest first
  asked,          \* requests sent
  work            \* the workload

threadVars == <<thread, started>>
tableVars == <<m_size, events>>
serviceVars == <<m_service_map, registered>>
askVars == <<serviceVars, asked, work>>
vars == <<main, k, ans, client_fd, threadVars, backlog, m_client, open,
          tableVars, askVars>>

Fds == 0..(MaxFds - 1)
Free == (work.first_fd..(MaxFds - 1)) \ open
NoReply == [request |-> << >>, reply |-> << >>]

(* How the process ends: a failed ::accept, a write to a client that has   *)
(* gone, a thread without a loop, an FdEvent that the table does not have. *)
Ends == {"exit", "sigpipe", "null loop", "no event"}

TypeOK ==
  /\ main \in {"create", "wait init", "constructed", "start", "loop",
               "accept", "scan", "take", "construct"} \cup Ends
  /\ k \in 1..(NumThreads + 1)
  /\ ans.idx \in Threads /\ ans.number \in Nat
  /\ client_fd \in 0..MaxFds
  /\ thread \in [Threads -> {"none", "created", "ready", "looping", "turning"}]
  /\ started \in SUBSET Threads
  /\ backlog \in 0..work.clients
  /\ \A i \in DOMAIN m_client :
       /\ m_client[i].fd \in Fds /\ m_client[i].thread \in Threads
       /\ m_client[i].event \in Int
       /\ m_client[i].state \in {"posted", "listening", "closed"}
  /\ open \in SUBSET Fds
  /\ m_size \in Nat /\ events \in Seq(Nat)
  /\ m_service_map \in SUBSET Services /\ registered \in Seq(Services)
  /\ asked \in 0..work.requests
  /\ work \in Workloads

Init ==
  /\ main = "create" /\ k = 1
  /\ ans = [idx |-> 1, number |-> 0] /\ client_fd = 0
  /\ thread = [i \in Threads |-> "none"] /\ started = {}
  /\ backlog = 0 /\ m_client = << >> /\ open = {}
  /\ m_size = 0 /\ events = << >>
  /\ m_service_map = {} /\ registered = << >> /\ asked = 0
  /\ work \in Workloads

-----------------------------------------------------------------------------
(* TcpServer::TcpServer: the acceptor listens, and the IOThreadGroup is    *)
(* built.  IOThread::IOThread creates its thread ...                       *)
CreateThread ==
  /\ main = "create"
  /\ thread' = [thread EXCEPT ![k] = "created"]
  /\ main' = "wait init"
  /\ UNCHANGED <<k, ans, client_fd, started, backlog, m_client, open,
                 tableVars, askVars>>

(* ... and waits for m_init_semphore.  After the last thread the listening *)
(* descriptor is registered with the main loop.                            *)
ThreadCreated ==
  /\ main = "wait init"
  /\ thread[k] = "ready"
  /\ IF k = NumThreads THEN main' = "constructed" /\ k' = 1
                       ELSE main' = "create" /\ k' = k + 1
  /\ UNCHANGED <<ans, client_fd, threadVars, backlog, m_client, open,
                 tableVars, askVars>>

(* The user registers services before start().                             *)
Register(service) ==
  /\ main = "constructed"
  /\ Len(registered) < work.registers
  /\ m_service_map' = RegisterService(m_service_map, service)
  /\ registered' = Append(registered, service)
  /\ UNCHANGED <<main, k, ans, client_fd, threadVars, backlog, m_client, open,
                 tableVars, asked, work>>

(* TcpServer::start: every thread is started, then the main loop runs.     *)
Start ==
  /\ main = "constructed"
  /\ main' = "start"
  /\ UNCHANGED <<k, ans, client_fd, threadVars, backlog, m_client, open,
                 tableVars, askVars>>

(* A bug to catch: the loop over the threads ends one too early.           *)
StartThreadsButLast ==
  /\ main = "start"
  /\ IF k < NumThreads
       THEN started' = started \cup {k} /\ k' = k + 1 /\ UNCHANGED main
       ELSE main' = "loop" /\ k' = 1 /\ UNCHANGED started
  /\ UNCHANGED <<ans, client_fd, thread, backlog, m_client, open, tableVars,
                 askVars>>

StartThreads ==
  /\ main = "start"
  /\ IF k <= NumThreads
       THEN started' = started \cup {k} /\ k' = k + 1 /\ UNCHANGED main
       ELSE main' = "loop" /\ k' = 1 /\ UNCHANGED started
  /\ UNCHANGED <<ans, client_fd, thread, backlog, m_client, open, tableVars,
                 askVars>>

-----------------------------------------------------------------------------
(* TcpServer::on_accept, run by the main loop when a client waits.         *)
Report ==
  /\ main = "loop"
  /\ backlog > 0
  /\ main' = "accept"
  /\ UNCHANGED <<k, ans, client_fd, threadVars, backlog, m_client, open,
                 tableVars, askVars>>

(* A bug to catch: the failure of ::accept is not noticed.                 *)
AcceptUnchecked ==
  /\ main = "accept"
  /\ client_fd' = IF Free = {} THEN -1 ELSE Min(Free)
  /\ open' = open \cup ({client_fd'} \ {-1})
  /\ backlog' = backlog - 1
  /\ main' = "scan"
  /\ UNCHANGED <<k, ans, threadVars, m_client, tableVars, askVars>>

(* TcpAcceptor::accept: the lowest free descriptor, or exit(2) for every   *)
(* error of ::accept: none is free, the client has already left, ...       *)
Accept ==
  /\ main = "accept"
  /\ \/ /\ Free # {}
        /\ client_fd' = Min(Free)
        /\ open' = open \cup {client_fd'}
        /\ backlog' = backlog - 1
        /\ main' = "scan"
     \/ main' = "exit" /\ UNCHANGED <<client_fd, open, backlog>>
  /\ UNCHANGED <<k, ans, threadVars, m_client, tableVars, askVars>>

(* get_evnetloop_task_size: the registrations that are posted, and up to   *)
(* two handlers that the loop has queued for each connection it serves.    *)
InState(i, st) == {j \in DOMAIN m_client :
                     m_client[j].thread = i /\ m_client[j].state = st}
Posted(i) == InState(i, "posted")
TaskSizes(i) ==
  {Cardinality(Posted(i)) + n :
     n \in 0..(2 * Cardinality(InState(i, "listening")))}

(* A thread that has not made its loop yet has a null pointer for it.      *)
HasLoop(i) == thread[i] \notin {"none", "created"}

(* get_io_thread: the sizes are read one after the other, without a lock.  *)
ScanThreads ==
  /\ main = "scan"
  /\ IF k > NumThreads
       THEN main' = "construct" /\ k' = 1 /\ UNCHANGED ans
       ELSE \E n \in TaskSizes(k) :
              \/ /\ ~HasLoop(k)
                 /\ main' = "null loop" /\ UNCHANGED <<k, ans>>
              \/ /\ HasLoop(k) /\ k = 1
                 /\ ans' = [idx |-> 1, number |-> n]
                 /\ k' = 2 /\ UNCHANGED main
              \/ /\ HasLoop(k) /\ k > 1 /\ n < ans.number
                 /\ main' = "take" /\ UNCHANGED <<k, ans>>
              \/ /\ HasLoop(k) /\ k > 1 /\ n >= ans.number
                 /\ k' = k + 1 /\ UNCHANGED <<main, ans>>
  /\ UNCHANGED <<client_fd, threadVars, backlog, m_client, open, tableVars,
                 askVars>>

(* The size of a better thread is read once more.                          *)
TakeThread ==
  /\ main = "take"
  /\ \E n \in TaskSizes(k) : ans' = [idx |-> k, number |-> n]
  /\ k' = k + 1
  /\ main' = "scan"
  /\ UNCHANGED <<client_fd, threadVars, backlog, m_client, open, tableVars,
                 askVars>>

-----------------------------------------------------------------------------
(* FdEventGroup.                                                           *)

Entries(from, to) == [i \in 1..(to - from) |-> from + i - 1]

(* A bug to catch: m_size keeps its old value.                             *)
GrowTableStale(size, table) ==
  /\ events' = table \o Entries(size, (3 * size) \div 2)
  /\ m_size' = size

GrowTable(size, table) ==
  /\ events' = table \o Entries(size, (3 * size) \div 2)
  /\ m_size' = (3 * size) \div 2

(* Get_Fd_Event_Group creates the table for the first connection, and      *)
(* get_fd_event(fd) grows it, once, when it is too short.                  *)
GetFdEvent(fd) ==
  LET size == IF m_size = 0 THEN TableSize ELSE m_size
      table == IF m_size = 0 THEN Entries(0, TableSize) ELSE events
  IN IF fd < Len(table) THEN events' = table /\ m_size' = size
                        ELSE GrowTable(size, table)

(* TcpConnection::TcpConnection posts its registration to the loop of the  *)
(* chosen thread, and on_accept puts the connection into m_client.  Behind *)
(* the end of the table there is no FdEvent (-1): what lies there ends the *)
(* process or is used.                                                     *)
ConstructConnection ==
  /\ main = "construct"
  /\ GetFdEvent(client_fd)
  /\ LET event == IF client_fd < Len(events') THEN events'[client_fd + 1] ELSE -1
     IN \/ /\ m_client' = Append(m_client,
               [fd |-> client_fd, thread |-> ans.idx, state |-> "posted",
                event |-> event, exchange |-> NoReply])
           /\ main' = "loop"
        \/ /\ event = -1
           /\ main' = "no event" /\ UNCHANGED m_client
  /\ ans' = [idx |-> 1, number |-> 0]
  /\ UNCHANGED <<k, client_fd, threadVars, backlog, open, askVars>>

MainThread ==
  \/ CreateThread \/ ThreadCreated \/ Start \/ StartThreads \/ Report
  \/ Accept \/ ScanThreads \/ TakeThread \/ ConstructConnection

-----------------------------------------------------------------------------
(* The end of the process ends the I/O threads too.                        *)
Alive == main \notin Ends

(* IOThread::Main: the loop is made, m_init_semphore posted ...            *)
ThreadInit(i) ==
  /\ Alive
  /\ thread[i] = "created"
  /\ thread' = [thread EXCEPT ![i] = "ready"]
  /\ UNCHANGED <<main, k, ans, client_fd, started, backlog, m_client, open,
                 tableVars, askVars>>

(* ... and the loop is run once m_start_semphore was posted.               *)
ThreadLoops(i) ==
  /\ Alive
  /\ thread[i] = "ready" /\ i \in started
  /\ thread' = [thread EXCEPT ![i] = "looping"]
  /\ UNCHANGED <<main, k, ans, client_fd, started, backlog, m_client, open,
                 tableVars, askVars>>

(* The loop runs the registrations that were posted to it.                 *)
RunTasks(i) ==
  /\ Alive
  /\ thread[i] = "looping"
  /\ Posted(i) # {}
  /\ m_client' = [j \in DOMAIN m_client |->
                    IF j \in Posted(i)
                      THEN [m_client[j] EXCEPT !.state = "listening"]
                      ELSE m_client[j]]
  /\ UNCHANGED <<main, k, ans, client_fd, threadVars, backlog, open,
                 tableVars, askVars>>

(* A connection is served while the loop of its thread runs.              *)
Served(j) ==
  /\ Alive
  /\ j \in DOMAIN m_client /\ m_client[j].state = "listening"
  /\ thread[m_client[j].thread] = "looping"

(* TcpConnection::excute: a request is dispatched.                         *)
Execute(j, request) ==
  /\ Served(j)
  /\ asked < work.requests
  /\ asked' = asked + 1
  /\ m_client' = [m_client EXCEPT ![j].exchange =
                    [request |-> <<request>>,
                     reply |-> <<Dispatch(m_service_map, request)>>]]
  /\ UNCHANGED <<main, k, ans, client_fd, threadVars, backlog, open,
                 tableVars, serviceVars, work>>

(* ProtobufCoder::decode does not come back from what the client has sent. *)
Turn(j) ==
  /\ Served(j)
  /\ asked < work.requests
  /\ asked' = asked + 1
  /\ thread' = [thread EXCEPT ![m_client[j].thread] = "turning"]
  /\ UNCHANGED <<main, k, ans, client_fd, started, backlog, m_client, open,
                 tableVars, serviceVars, work>>

(* A bug to catch: clear() also closes the socket.                         *)
ClientGoneClose(j) ==
  /\ Served(j)
  /\ work.leave
  /\ m_client' = [m_client EXCEPT ![j].state = "closed"]
  /\ open' = open \ {m_client[j].fd}
  /\ UNCHANGED <<main, k, ans, client_fd, threadVars, backlog, tableVars,
                 askVars>>

(* The client has closed: clear() takes the connection out of epoll.       *)
ClientGone(j) ==
  /\ Served(j)
  /\ work.leave
  /\ m_client' = [m_client EXCEPT ![j].state = "closed"]
  /\ UNCHANGED <<main, k, ans, client_fd, threadVars, backlog, open,
                 tableVars, askVars>>

(* The client has gone and on_write comes before on_read: the write of a   *)
(* reply ends the process.                                                 *)
Sigpipe(j) ==
  /\ Served(j)
  /\ work.leave
  /\ m_client[j].exchange # NoReply
  /\ main' = "sigpipe"
  /\ UNCHANGED <<k, ans, client_fd, threadVars, backlog, m_client, open,
                 tableVars, askVars>>

IOThread(i) == ThreadInit(i) \/ ThreadLoops(i) \/ RunTasks(i)

(* A client connects: the socket listens before the threads are created.   *)
ClientConnects ==
  /\ Alive
  /\ backlog + Len(m_client)
       + (IF main \in {"scan", "take", "construct"} THEN 1 ELSE 0) < work.clients
  /\ backlog' = backlog + 1
  /\ UNCHANGED <<main, k, ans, client_fd, threadVars, m_client, open,
                 tableVars, askVars>>

Next ==
  \/ MainThread
  \/ \E s \in Services : Register(s)
  \/ \E i \in Threads : IOThread(i)
  \/ \E j \in 1..work.clients, r \in Requests : Execute(j, r)
  \/ \E j \in 1..work.clients : Turn(j) \/ ClientGone(j) \/ Sigpipe(j)
  \/ ClientConnects

Spec == Init /\ [][Next]_vars

(* The main thread and the I/O threads are scheduled.  Nothing is assumed  *)
(* of the clients.  (start() is called: it is part of MainThread.)         *)
FairSpec ==
  /\ Spec
  /\ WF_vars(MainThread)
  /\ \A i \in Threads : WF_vars(IOThread(i))

-----------------------------------------------------------------------------
(* Properties.                                                             *)

(* A connection that m_client keeps has a descriptor of its own and the    *)
(* FdEvent of that descriptor, which holds its callbacks, and of no other: *)
(* its indices are descriptors however often the table grew, and a         *)
(* descriptor is not used again when clients come and go, because clear()  *)
(* does not close the socket.  Only where the first client's descriptor is *)
(* behind the first growth of the table do the first connections find no   *)
(* FdEvent (-1), until the table has caught up.                            *)
Overshoot == work.first_fd >= (3 * TableSize) \div 2

OwnEvent ==
  /\ \A i, j \in DOMAIN m_client :
       \/ m_client[i].event = m_client[j].fd <=> i = j
       \/ Overshoot /\ \A e \in 1..i : m_client[e].event = -1
  /\ main = "no event" => Overshoot

(* A request reaches no method but the one it names, of the service that   *)
(* was registered last under that name, and only when it can be parsed.    *)
(* Where the service has no package, it does reach it; whether one in a    *)
(* package does is not said.                                               *)
RegisteredLast(service) ==
  \E i \in DOMAIN registered :
    /\ registered[i] = service
    /\ \A j \in DOMAIN registered : j > i => registered[j].name # service.name

Named(r) ==
  {c \in UNION {{[service |-> s, method |-> m] : m \in s.methods} : s \in Services} :
     RegisteredLast(c.service) /\ r.name = Append(c.service.name, c.method)}

RequestReachesMethod ==
  \A i \in DOMAIN m_client :
    LET e == m_client[i].exchange IN
    e # NoReply =>
      LET r == e.request[1]
          p == e.reply[1]
      IN /\ \A c \in p.called : c \in Named(r) /\ r.parses
         /\ r.parses => \A c \in Named(r) :
                          Len(c.service.name) = 1 => p.called = {c}
         /\ p.err_code = 0 <=> p.called # {} /\ r.serializes

(* Every client that has connected is accepted, and its connection is      *)
(* registered with the loop of its thread, whichever thread get_io_thread  *)
(* picks and however early the client came, unless the process ends by a   *)
(* failed ::accept, a client that has gone or an FdEvent that is not       *)
(* there, or the decoder of another connection keeps the thread for ever.  *)
(* No thread is without a loop.                                            *)
EveryClientServed ==
  LET ended == main \in Ends \ {"null loop"}
  IN /\ backlog > 0 ~> backlog = 0 \/ ended
     /\ \A i \in Threads :
          Posted(i) # {} ~> Posted(i) = {} \/ thread[i] = "turning" \/ ended
=============================================================================
