--------------------------- MODULE TcpConnection ---------------------------
(***************************************************************************)
(* A client's rpc::TcpConnection (with the TcpClient on top of it) and the *)
(* server's rpc::TcpConnection at the other end of one TCP connection.     *)
(* Each side is driven by its own event loop: a side's handlers run one at *)
(* a time, IN before OUT, and may run although a handler of the same batch *)
(* has changed the mask or closed the connection since.                    *)
(*                                                                         *)
(* The unit of data is half a message, and all halves are equally long.    *)
(* The head holds the start byte, the length and m_msg_id, the tail the    *)
(* rest up to the end byte; the bytes of a frame are ProtobufCoder's, those *)
(* of a buffer TcpBuffer's.  ::read and ::write cut the stream after any   *)
(* half, and ::read also within the length of a head.  A request and its   *)
(* reply have the same m_msg_id, so both are that number.                  *)
(*                                                                         *)
(* Data that reaches a closed socket, and a close with data unread, make   *)
(* the client's kernel reset the connection.  SIGPIPE is not ignored: a    *)
(* ::write after that ends the server's process.                           *)
(***************************************************************************)
EXTENDS Naturals, Sequences, FiniteSets

CONSTANTS Links,         \* records of messages (how many the client writes),
                         \* capacity (halves that fit in a socket's send
                         \* buffer), buffer (halves that m_in_buffer holds)
                         \* and a bound (no ::write is begun once so many
                         \* halves were sent)
          MayClose       \* the client may close its socket

ASSUME LinksAssumption ==
  Links \subseteq [messages : Nat, capacity : Nat \ {0}, buffer : Nat \ {0},
                  bound : Nat]
ASSUME UseAssumption == MayClose \in BOOLEAN

Sides == {"client", "server"}
Peer(s) == IF s = "client" THEN "server" ELSE "client"
Parts == {"head", "tail"}

VARIABLES
  link,             \* the link of this behaviour
  m_state,          \* [side -> TcpState]
  m_listen_events,  \* [side -> the mask known to epoll]
  posted,           \* the constructor's add_epoll_event, not yet run
  tasks,            \* [side -> handlers of the current batch]
  pc,               \* [side -> where its thread is, see TypeOK]
  m_in_buffer,      \* [side -> halves read and not consumed]
  m_read_index,     \* [side -> halves consumed and not compacted away]
  result,           \* [side -> messages decoded in this on_read]
  m_out_buffer,     \* [side -> messages encoded and not consumed]
  m_write_dones,    \* client: messages written and not yet encoded
  m_read_dones,     \* client: messages whose reply has a callback
  net,              \* [side -> halves on their way to that side]
  closed,           \* sides whose socket has been closed
  reset,            \* the reset of the server's socket: none, coming,
                    \* arrived, or reported (EPOLLERR, out of epoll)
  killed,           \* SIGPIPE has ended the server
  given,            \* number of messages given to write_message
  sent,             \* [side -> number of halves ::write has accepted]
  executed,         \* requests the server has dispatched, in order
  lost,             \* history: requests of which the server has read a half
                    \* into a buffer that does not keep it
  answered,         \* replies whose callback has been run
  dropped           \* replies decoded without a callback for them

clientVars == <<m_write_dones, m_read_dones, given, answered, dropped>>
readVars == <<m_in_buffer, m_read_index, result, lost>>
faultVars == <<link, reset, killed>>

vars == <<m_state, m_listen_events, posted, tasks, pc, m_out_buffer, net,
          closed, sent, executed, clientVars, readVars, faultVars>>

Ids == 1..link.messages
Halves == [msg : Ids, part : Parts]

(* What decode makes of two halves: m_msg_id is that of the head.          *)
Messages == [msg : Ids, data : Ids]

TypeOK ==
  /\ link \in Links
  /\ m_state \in [Sides -> {"NotConnected", "Connected", "Closed"}]
  /\ m_listen_events \in [Sides -> SUBSET {"IN", "OUT"}]
  /\ posted \in BOOLEAN
  /\ tasks \in [Sides -> SUBSET {"IN", "OUT"}]
  /\ pc \in [Sides -> {"loop", "read", "decode", "cut", "turning", "write"}]
  /\ m_in_buffer \in [Sides -> Seq(Halves)]
  /\ m_read_index \in [Sides -> Nat]
  /\ \A s \in Sides : m_read_index[s] + Len(m_in_buffer[s]) < link.buffer
  /\ result \in [Sides -> Seq(Messages)]
  /\ m_out_buffer \in [Sides -> Seq(Ids)]
  /\ m_write_dones \in Seq(Ids)
  /\ m_read_dones \in SUBSET Ids
  /\ net \in [Sides -> Seq(Halves)]
  /\ closed \in SUBSET Sides
  /\ reset \in {"none", "coming", "arrived", "reported"}
  /\ killed \in BOOLEAN
  /\ given \in 0..link.messages
  /\ sent \in [Sides -> Nat]
  /\ executed \in Seq(Messages)
  /\ lost \in SUBSET Ids
  /\ answered \in SUBSET Ids
  /\ dropped \in SUBSET Ids

(* connect has succeeded on the client; the server's on_accept is about to *)
(* construct its connection.                                               *)
Init ==
  /\ link \in Links
  /\ m_state = [client |-> "Connected", server |-> "NotConnected"]
  /\ m_listen_events = [s \in Sides |-> {}]
  /\ posted = FALSE
  /\ tasks = [s \in Sides |-> {}]
  /\ pc = [s \in Sides |-> "loop"]
  /\ m_in_buffer = [s \in Sides |-> << >>]
  /\ m_read_index = [s \in Sides |-> 0]
  /\ result = [s \in Sides |-> << >>]
  /\ m_out_buffer = [s \in Sides |-> << >>]
  /\ m_write_dones = << >>
  /\ m_read_dones = {}
  /\ net = [s \in Sides |-> << >>]
  /\ closed = {}
  /\ reset = "none" /\ killed = FALSE
  /\ given = 0
  /\ sent = [s \in Sides |-> 0]
  /\ executed = << >>
  /\ lost = {}
  /\ answered = {}
  /\ dropped = {}

-----------------------------------------------------------------------------
(* TcpServer::on_accept, in the main thread: the constructor posts the     *)
(* registration to the I/O loop, then set_state.                           *)
Construct ==
  /\ ~posted
  /\ m_listen_events["server"] = {}
  /\ m_state["server"] = "NotConnected"
  /\ posted' = TRUE
  /\ UNCHANGED <<m_state, m_listen_events, tasks, pc, m_out_buffer, net, closed,
                 sent, executed, clientVars, readVars, faultVars>>

SetConnected ==
  /\ posted \/ m_listen_events["server"] # {}
  /\ m_state["server"] = "NotConnected"
  /\ m_state' = [m_state EXCEPT !["server"] = "Connected"]
  /\ UNCHANGED <<m_listen_events, posted, tasks, pc, m_out_buffer, net, closed,
                 sent, executed, clientVars, readVars, faultVars>>

(* The posted add_epoll_event, in the I/O thread.                          *)
Register ==
  /\ posted /\ pc["server"] = "loop"
  /\ posted' = FALSE
  /\ m_listen_events' = [m_listen_events EXCEPT !["server"] = {"IN"}]
  /\ UNCHANGED <<m_state, tasks, pc, m_out_buffer, net, closed, sent, executed,
                 clientVars, readVars, faultVars>>

(* A bug to catch: the messages are numbered from two.                     *)
WriteMessageOffByOne ==
  /\ given < link.messages
  /\ "client" \notin closed /\ pc["client"] = "loop"
  /\ given' = given + 1
  /\ m_write_dones' = Append(m_write_dones, given + 2)
  /\ m_listen_events' =
       [m_listen_events EXCEPT !["client"] = @ \cup {"OUT"}]
  /\ UNCHANGED <<m_state, posted, tasks, pc, m_out_buffer, m_read_dones, net,
                 closed, sent, executed, answered, dropped, readVars, faultVars>>

(* TcpClient::write_message: push_send_message and listen_write, called by *)
(* the client's loop thread between two handlers.                          *)
WriteMessage ==
  /\ given < link.messages
  /\ "client" \notin closed /\ pc["client"] = "loop"
  /\ given' = given + 1
  /\ m_write_dones' = Append(m_write_dones, given + 1)
  /\ m_listen_events' =
       [m_listen_events EXCEPT !["client"] = @ \cup {"OUT"}]
  /\ UNCHANGED <<m_state, posted, tasks, pc, m_out_buffer, m_read_dones, net,
                 closed, sent, executed, answered, dropped, readVars, faultVars>>

(* ~TcpClient closes the socket.                                           *)
ClientCloses ==
  /\ MayClose
  /\ "client" \notin closed /\ pc["client"] = "loop"
  /\ closed' = closed \cup {"client"}
  /\ tasks' = [tasks EXCEPT !["client"] = {}]
  /\ m_listen_events' = [m_listen_events EXCEPT !["client"] = {}]
  /\ net' = [net EXCEPT !["client"] = << >>]
  /\ reset' = IF net["client"] = << >> THEN reset ELSE "coming"
  /\ UNCHANGED <<m_state, posted, pc, m_out_buffer, sent, executed, clientVars,
                 readVars, link, killed>>

ResetArrives ==
  /\ reset = "coming"
  /\ reset' = "arrived"
  /\ UNCHANGED <<m_state, m_listen_events, posted, tasks, pc, m_out_buffer, net,
                 closed, sent, executed, clientVars, readVars, link, killed>>

-----------------------------------------------------------------------------
(* epoll_wait returns: the handlers of one batch are queued.  A socket is  *)
(* readable when data or the peer's close has arrived, and writable when   *)
(* its send buffer has room.                                               *)
Ready(s) ==
  {e \in m_listen_events[s] :
     \/ e = "IN" /\ (net[s] # << >> \/ Peer(s) \in closed)
     \/ e = "OUT" /\ (Len(net[Peer(s)]) < link.capacity
                         \/ Peer(s) \in closed)}

(* EPOLLERR: besides, the loop deletes the descriptor from epoll.          *)
Report(s) ==
  /\ tasks[s] = {} /\ pc[s] = "loop"
  /\ Ready(s) # {}
  /\ s = "server" => reset # "reported"
  /\ tasks' = [tasks EXCEPT ![s] = Ready(s)]
  /\ reset' = IF s = "server" /\ reset = "arrived" THEN "reported" ELSE reset
  /\ UNCHANGED <<m_state, m_listen_events, posted, pc, m_out_buffer, net, closed,
                 sent, executed, clientVars, readVars, link, killed>>

(* add_epoll_event, in the server's loop: a deleted descriptor is back.    *)
Reattach(r) == IF r = "reported" THEN "arrived" ELSE r

(* The next handler of the batch is that of event e.                       *)
Handler(s, e) ==
  /\ e \in tasks[s] /\ pc[s] = "loop"
  /\ e = "OUT" => "IN" \notin tasks[s]
  /\ tasks' = [tasks EXCEPT ![s] = @ \ {e}]

(* A bug to catch: a handler that runs too early cancels its event.        *)
HandlerNotConnectedCancels(s, e) ==
  /\ Handler(s, e)
  /\ m_state[s] # "Connected"
  /\ m_listen_events' = [m_listen_events EXCEPT ![s] = @ \ {e}]
  /\ UNCHANGED <<m_state, posted, pc, m_out_buffer, net, closed, sent, executed,
                 clientVars, readVars, faultVars>>

(* A handler that finds the connection not connected returns at once.      *)
HandlerNotConnected(s, e) ==
  /\ Handler(s, e)
  /\ m_state[s] # "Connected"
  /\ UNCHANGED <<m_state, m_listen_events, posted, pc, m_out_buffer, net, closed,
                 sent, executed, clientVars, readVars, faultVars>>

-----------------------------------------------------------------------------
(* on_read calls ::read, for the first time or after a read that filled    *)
(* the buffer.                                                             *)
Reads(s) ==
  \/ Handler(s, "IN") /\ m_state[s] = "Connected"
  \/ pc[s] = "read" /\ UNCHANGED tasks

(* can_write_bytes_num.  It is never 0, since adjust_write_index refuses   *)
(* to make it so: resize_buffer is never called.                           *)
Space(s) == link.buffer - m_read_index[s] - Len(m_in_buffer[s])

(* ::read of some halves that leaves room.  It may end within the length   *)
(* of a following head ("cut").                                            *)
OnReadSome(s) ==
  /\ Reads(s)
  /\ \E k \in 1..Len(net[s]) :
       /\ k < Space(s)
       /\ m_in_buffer' = [m_in_buffer EXCEPT ![s] = @ \o SubSeq(net[s], 1, k)]
       /\ net' = [net EXCEPT ![s] = SubSeq(@, k + 1, Len(@))]
       /\ \/ pc' = [pc EXCEPT ![s] = "decode"]
          \/ /\ k < Len(net[s]) /\ net[s][k + 1].part = "head"
             /\ pc' = [pc EXCEPT ![s] = "cut"]
  /\ UNCHANGED <<m_state, m_listen_events, posted, m_read_index, result, lost,
                 m_out_buffer, closed, sent, executed, clientVars, faultVars>>

(* ::read fills the buffer: adjust_write_index refuses the count, so that  *)
(* the next read overwrites the data, and on_read tries again.             *)
OnReadFull(s) ==
  /\ Reads(s)
  /\ Len(net[s]) >= Space(s)
  /\ net' = [net EXCEPT ![s] = SubSeq(@, Space(s) + 1, Len(@))]
  /\ lost' = IF s = "client" THEN lost
             ELSE lost \cup {net[s][i].msg : i \in 1..Space(s)}
  /\ pc' = [pc EXCEPT ![s] = "read"]
  /\ UNCHANGED <<m_state, m_listen_events, posted, m_in_buffer, m_read_index,
                 result, m_out_buffer, closed, sent, executed, clientVars,
                 faultVars>>

(* EAGAIN: nothing more has arrived.                                       *)
OnReadAgain(s) ==
  /\ pc[s] = "read"
  /\ pc' = [pc EXCEPT ![s] = "decode"]
  /\ UNCHANGED <<m_state, m_listen_events, posted, tasks, m_out_buffer, net,
                 closed, sent, executed, clientVars, readVars, faultVars>>

(* The peer has closed: clear(), and what was read is not decoded.         *)
OnReadEof(s) ==
  /\ Reads(s)
  /\ net[s] = << >> /\ Peer(s) \in closed
  /\ m_listen_events' = [m_listen_events EXCEPT ![s] = {}]
  /\ m_state' = [m_state EXCEPT ![s] = "Closed"]
  /\ pc' = [pc EXCEPT ![s] = "loop"]
  /\ UNCHANGED <<posted, m_out_buffer, net, closed, sent, executed, clientVars,
                 readVars, faultVars>>

-----------------------------------------------------------------------------
(* excute: decode, then dispatch.                                          *)

Frame(data, i) ==
  i + 1 \in DOMAIN data /\ data[i].part = "head" /\ data[i + 1].part = "tail"

HasFrame(data) == \E i \in DOMAIN data : Frame(data, i)

(* adjust_buffer: compaction once a third of the buffer is consumed.       *)
Compacted(index) == IF index < link.buffer \div 3 THEN index ELSE 0

(* The first frame is delivered; its length is consumed at the front, even *)
(* if the frame is not there.                                              *)
DecodeFrame(s) ==
  /\ pc[s] \in {"decode", "cut"}
  /\ \E i \in DOMAIN m_in_buffer[s] :
       /\ Frame(m_in_buffer[s], i)
       /\ \A j \in 1..(i - 1) : ~Frame(m_in_buffer[s], j)
       /\ result' = [result EXCEPT ![s] =
            Append(@, [msg |-> m_in_buffer[s][i].msg,
                       data |-> m_in_buffer[s][i + 1].msg])]
  /\ m_in_buffer' = [m_in_buffer EXCEPT ![s] = SubSeq(@, 3, Len(@))]
  /\ m_read_index' = [m_read_index EXCEPT ![s] = Compacted(@ + 2)]
  /\ UNCHANGED <<m_state, m_listen_events, posted, tasks, pc, m_out_buffer, net,
                 closed, sent, executed, lost, clientVars, faultVars>>

(* The byte before what the read has cut is an end byte.                   *)
EndsInTail(s) ==
  IF m_in_buffer[s] = << >> THEN m_read_index[s] # 0
  ELSE m_in_buffer[s][Len(m_in_buffer[s])].part = "tail"

(* A head cut within its length, of which the missing bytes are zero, is   *)
(* taken for a frame of length 0, again and again.  If an earlier read has *)
(* left other bytes there, the head waits for the rest as any other does.  *)
DecodeTurns(s) ==
  /\ pc[s] = "cut"
  /\ ~HasFrame(m_in_buffer[s]) /\ EndsInTail(s)
  /\ pc' = [pc EXCEPT ![s] = "turning"]
  /\ UNCHANGED <<m_state, m_listen_events, posted, tasks, m_out_buffer, net,
                 closed, sent, executed, clientVars, readVars, faultVars>>

(* decode has returned.                                                    *)
Decoded(s) ==
  /\ pc[s] \in {"decode", "cut"}
  /\ ~HasFrame(m_in_buffer[s])
  /\ pc' = [pc EXCEPT ![s] = "loop"]
  /\ result' = [result EXCEPT ![s] = << >>]

(* The server dispatches each request, encodes the replies and calls       *)
(* listen_write, also when there was no request.                           *)
ServerExcute ==
  /\ Decoded("server")
  /\ executed' = executed \o result["server"]
  /\ m_out_buffer' = [m_out_buffer EXCEPT !["server"] =
       @ \o [i \in DOMAIN result["server"] |-> result["server"][i].msg]]
  /\ m_listen_events' =
       [m_listen_events EXCEPT !["server"] = @ \cup {"OUT"}]
  /\ reset' = Reattach(reset)
  /\ UNCHANGED <<m_state, posted, tasks, m_in_buffer, m_read_index, lost, net,
                 closed, sent, clientVars, link, killed>>

(* The client runs the callback of every reply that has one; it stays in   *)
(* m_read_dones.                                                           *)
ClientExcute ==
  /\ Decoded("client")
  /\ LET got == {result["client"][i].msg : i \in DOMAIN result["client"]}
     IN /\ answered' = answered \cup (got \cap m_read_dones)
        /\ dropped' = dropped \cup (got \ m_read_dones)
  /\ UNCHANGED <<m_state, m_listen_events, posted, tasks, m_in_buffer,
                 m_read_index, lost, m_out_buffer, m_write_dones, m_read_dones,
                 net, closed, given, sent, executed, faultVars>>

-----------------------------------------------------------------------------
(* A bug to catch: the state is not looked at before sending.              *)
OnWriteBeginUnchecked(s) ==
  /\ Handler(s, "OUT")
  /\ pc' = [pc EXCEPT ![s] = "write"]
  /\ m_out_buffer' =
       IF s = "client"
         THEN [m_out_buffer EXCEPT !["client"] = @ \o m_write_dones]
         ELSE m_out_buffer
  /\ UNCHANGED <<m_state, m_listen_events, posted, net, closed, sent, executed,
                 clientVars, readVars, faultVars>>

(* on_write up to its loop: a client encodes the messages that wait.       *)
OnWriteBegin(s) ==
  /\ Handler(s, "OUT")
  /\ m_state[s] = "Connected"
  /\ pc' = [pc EXCEPT ![s] = "write"]
  /\ m_out_buffer' =
       IF s = "client"
         THEN [m_out_buffer EXCEPT !["client"] = @ \o m_write_dones]
         ELSE m_out_buffer
  /\ UNCHANGED <<m_state, m_listen_events, posted, net, closed, sent, executed,
                 clientVars, readVars, faultVars>>

(* The halves of the out buffer: those of every message, head first.       *)
Encoded(s) ==
  [i \in 1..(2 * Len(m_out_buffer[s])) |->
     [msg |-> m_out_buffer[s][(i + 1) \div 2],
      part |-> IF i % 2 = 1 THEN "head" ELSE "tail"]]

(* How many halves ::write accepts now: all of them when the peer has      *)
(* closed.                                                                 *)
Room(s) == IF Peer(s) \in closed THEN Len(Encoded(s))
                                 ELSE link.capacity - Len(net[Peer(s)])

(* A ::write of anything to a socket that has been reset.                  *)
Broken(s) ==
  s = "server" /\ m_out_buffer[s] # << >> /\ reset \in {"arrived", "reported"}

(* Data sent to a closed socket is answered with a reset.                  *)
Provoke(s) ==
  IF Peer(s) \in closed /\ m_out_buffer[s] # << >> /\ reset = "none"
    THEN "coming" ELSE reset

(* A bug to catch: ::write is handed the buffer from its second half on.   *)
AcceptsOffByOne(s, k) ==
  /\ net' = IF Peer(s) \in closed THEN net
            ELSE [net EXCEPT ![Peer(s)] = @ \o SubSeq(Encoded(s), 2, k)]
  /\ sent' = [sent EXCEPT ![s] = @ + k]

(* ::write of k halves, which arrive at the peer (or nowhere).             *)
Accepts(s, k) ==
  /\ net' = IF Peer(s) \in closed THEN net
            ELSE [net EXCEPT ![Peer(s)] = @ \o SubSeq(Encoded(s), 1, k)]
  /\ sent' = [sent EXCEPT ![s] = @ + k]

(* A bug to catch: the client forgets to wait for the replies to messages  *)
(* after the first.                                                        *)
OnWriteEndFirstDone(s, all) ==
  /\ pc' = [pc EXCEPT ![s] = "loop"]
  /\ LET mask == (IF all THEN m_listen_events[s] \ {"OUT"}
                         ELSE m_listen_events[s])
                 \cup (IF s = "client" /\ m_write_dones # << >>
                         THEN {"IN"} ELSE {})
     IN m_listen_events' = [m_listen_events EXCEPT ![s] = mask]
  /\ IF s = "client"
       THEN /\ m_read_dones' = IF m_read_dones = {} /\ m_write_dones # << >>
                                 THEN {m_write_dones[1]} ELSE m_read_dones
            /\ m_write_dones' = << >>
       ELSE UNCHANGED <<m_read_dones, m_write_dones>>

(* on_write after its loop.  When all was written OUT is cancelled.  A     *)
(* client then runs the done of every message, written or not: done calls  *)
(* read_message, that is push_read_message and listen_read.                *)
OnWriteEnd(s, all) ==
  /\ pc' = [pc EXCEPT ![s] = "loop"]
  /\ LET mask == (IF all THEN m_listen_events[s] \ {"OUT"}
                         ELSE m_listen_events[s])
                 \cup (IF s = "client" /\ m_write_dones # << >>
                         THEN {"IN"} ELSE {})
     IN m_listen_events' = [m_listen_events EXCEPT ![s] = mask]
  /\ IF s = "client"
       THEN /\ m_read_dones' = m_read_dones \cup
                 {m_write_dones[i] : i \in DOMAIN m_write_dones}
            /\ m_write_dones' = << >>
       ELSE UNCHANGED <<m_read_dones, m_write_dones>>

(* The loop of on_write: nothing to send, or ::write takes everything.     *)
OnWriteAll(s) ==
  /\ pc[s] = "write"
  /\ sent[s] < link.bound /\ ~Broken(s)
  /\ Len(Encoded(s)) <= Room(s)
  /\ Accepts(s, Len(Encoded(s)))
  /\ OnWriteEnd(s, TRUE)
  /\ reset' = IF s = "server" THEN Reattach(Provoke(s)) ELSE reset
  /\ UNCHANGED <<m_state, posted, tasks, m_out_buffer, closed, given, executed,
                 answered, dropped, readVars, link, killed>>

(* ::write takes a part, which may end within a message, and the loop      *)
(* starts over with the whole buffer.                                      *)
OnWritePart(s) ==
  /\ pc[s] = "write"
  /\ sent[s] < link.bound /\ ~Broken(s)
  /\ Room(s) \in 1..(Len(Encoded(s)) - 1)
  /\ Accepts(s, Room(s))
  /\ UNCHANGED <<m_state, m_listen_events, posted, tasks, pc, m_out_buffer,
                 closed, executed, clientVars, readVars, faultVars>>

(* EAGAIN.                                                                 *)
OnWriteAgain(s) ==
  /\ pc[s] = "write"
  /\ m_out_buffer[s] # << >> /\ Room(s) = 0
  /\ OnWriteEnd(s, FALSE)
  /\ UNCHANGED <<m_state, posted, tasks, m_out_buffer, net, closed, given, sent,
                 executed, answered, dropped, readVars, faultVars>>

(* SIGPIPE: at once, or in the next turn of the loop after ECONNRESET.     *)
(* The server stays where it is: none of its other actions is enabled.     *)
OnWriteKilled(s) ==
  /\ pc[s] = "write" /\ ~killed
  /\ Broken(s)
  /\ killed' = TRUE
  /\ UNCHANGED <<m_state, m_listen_events, posted, tasks, pc, m_out_buffer, net,
                 closed, sent, executed, clientVars, readVars, link, reset>>

AcceptThread == Construct \/ SetConnected

Loop(s) ==
  \/ Report(s)
  \/ \E e \in {"IN", "OUT"} : HandlerNotConnected(s, e)
  \/ OnReadSome(s) \/ OnReadFull(s) \/ OnReadAgain(s) \/ OnReadEof(s)
  \/ DecodeFrame(s) \/ DecodeTurns(s)
  \/ OnWriteBegin(s) \/ OnWriteAll(s) \/ OnWritePart(s) \/ OnWriteAgain(s)

ServerLoop ==
  Register \/ ServerExcute \/ Loop("server") \/ OnWriteKilled("server")
ClientLoop == ClientExcute \/ Loop("client")

Next ==
  \/ AcceptThread \/ ServerLoop \/ ClientLoop
  \/ WriteMessage \/ ClientCloses \/ ResetArrives

Spec == Init /\ [][Next]_vars

(* The three threads are scheduled and the network delivers.  Nothing is   *)
(* assumed of the user who writes messages or closes the client.           *)
FairSpec ==
  Spec /\ WF_vars(AcceptThread) /\ WF_vars(ServerLoop) /\ WF_vars(ClientLoop)

-----------------------------------------------------------------------------
(* Properties.                                                             *)

(* Every reply that the client decodes finds its callback: done registers  *)
(* it (push_read_message) before the client can see the reply, although    *)
(* the request may be executed and answered while on_write still runs.     *)
NoReplyDropped == dropped = {}

(* The request at position i of executed has the data it was written with. *)
Intact(i) == executed[i].msg = executed[i].data

(* However ::write cuts and repeats the stream, ::read splits it and       *)
(* decode loses its place in it, a request is first executed only after    *)
(* every request written before it, but for those of which a half was lost *)
(* in a read that filled the buffer.                                       *)
FirstExecutedInOrder ==
  \A i \in DOMAIN executed : Intact(i) =>
    \A m \in 1..(executed[i].msg - 1) :
      m \in lost \/ \E j \in 1..(i - 1) : Intact(j) /\ executed[j].msg = m

(* After clear() the connection neither executes nor sends nor listens,    *)
(* although its on_write may still be queued from the batch whose on_read  *)
(* saw the peer's close; so a client that is known to have gone does not   *)
(* end the server with a SIGPIPE.                                          *)
ClosedIsQuiet ==
  [][m_state["server"] = "Closed"
       => UNCHANGED <<executed, sent["server"], m_listen_events["server"],
                      killed>>]_vars

(* Neither a send buffer nor an in-buffer is filled by whatever the halves *)
(* of this many messages can amount to: the client sends them again with   *)
(* every later message, the server all replies after every read.           *)
Triangle(n) == (n * (n + 1)) \div 2
Requests == 2 * Triangle(link.messages)
Roomy == link.capacity >= Requests * Requests /\ link.buffer > Requests * Requests

AllAnswered == 1..given \subseteq answered

(* Every message given to write_message is answered, also when its bytes   *)
(* arrive before on_accept has reached set_state and on_read returns       *)
(* without reading; unless the client closes, or a read has cut a length   *)
(* and decode turns for ever.                                              *)
EveryMessageAnswered ==
  Roomy /\ ~AllAnswered ~>
    AllAnswered \/ "client" \in closed \/ \E s \in Sides : pc[s] = "turning"

(* A message id identifies one request: the server executes it once.       *)
RequestExecutedOnce ==
  \A i, j \in DOMAIN executed : i # j => executed[i] # executed[j]
=============================================================================
