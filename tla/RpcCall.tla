------------------------------ MODULE RpcCall ------------------------------
(***************************************************************************)
(* A client's remote call: RpcChannel::CallMethod with its RpcController,  *)
(* the TcpClient behind the channel, the client side of its TcpConnection, *)
(* the timer of the call, and a server that answers, fails or goes away.   *)
(*                                                                         *)
(* Everything runs on the thread of the client's event loop, so a handler  *)
(* is one step; what is concurrent is the order in which the loop gets to  *)
(* the handlers: the connect result, the writable socket, the answer, the  *)
(* end of the connection and the timeout.  epoll queues the handlers of    *)
(* what is ready as one batch, and each runs later as it was when it was   *)
(* queued.  A message is the identity of its call.  Every call of a        *)
(* channel shares the closure given to init().                             *)
(***************************************************************************)
EXTENDS Naturals, Sequences, FiniteSets

CONSTANTS Calls,     \* the calls made on the channel
          Overlap,   \* a call may begin while the timer of another one waits
          MaxWire,   \* messages on their way in one direction
          None       \* no call

Handlers == {"on_timer", "on_read", "on_write"}

ASSUME NoneAssumption == None \notin Calls /\ Handlers \cap (Calls \cup {None}) = {}
ASSUME OverlapAssumption == Overlap \in BOOLEAN
ASSUME WireAssumption == MaxWire \in Nat

(* The error codes a controller can hold; "0" is success.                  *)
Codes == {"0", "NOT_INIT", "SERIALIZE", "CONNECT", "PEER_CLOSED", "TIMEOUT",
          "SERVER"}

(* What the server can send back: a response, an error code, or data that  *)
(* ParseFromString rejects.                                                *)
Answers == [id : Calls, kind : {"ok", "error", "garbled"}]

VARIABLES
  m_is_init,             \* RpcChannel::init was called
  m_timer_event,         \* RpcChannel: the call whose timer it points to
  called,                \* calls for which CallMethod has begun
  ctl,                   \* [call -> its RpcController]
  timer,                 \* [call -> state of its TimerEvent]
  loop,                  \* the client's event loop: off, on, stopped
  batch,                 \* the handlers it has queued; a call is its connect lambda
  sock,                  \* the descriptor, see TypeOK
  m_connect_error_code,  \* TcpClient
  m_state,               \* TcpConnection
  outHandler,            \* what the OUT event of the FdEvent runs
  outOn, inOn,           \* the loop listens for OUT, for IN
  m_write_dones,         \* messages to encode, with their done callbacks
  m_out_buffer,          \* encoded messages; on_write never consumes them
  m_read_dones,          \* calls whose answer is expected
  spent,                 \* read callbacks that have reset their channel
  requests, answers,     \* the two directions of the connection
  answered,              \* calls the server has answered
  served,                \* history: calls it has answered without error
  repeated,              \* history: a request or an answer was sent again
  peerOpen,              \* the server has not closed
  runs, told,            \* [call -> closure runs (up to 2), code it saw last]
  crashed                \* a null channel was dereferenced

tcpVars == <<sock, m_connect_error_code, m_state, outHandler, outOn, inOn,
             m_write_dones, m_out_buffer, m_read_dones>>
netVars == <<requests, answers, answered, served, repeated, peerOpen>>
vars == <<m_is_init, m_timer_event, called, ctl, timer, loop, batch, tcpVars,
          spent, netVars, runs, told, crashed>>

Controller == [code : Codes, failed : BOOLEAN, canceled : BOOLEAN]

TypeOK ==
  /\ m_is_init \in BOOLEAN
  /\ m_timer_event \in Calls \cup {None}
  /\ called \in SUBSET Calls
  /\ ctl \in [Calls -> Controller]
  /\ timer \in [Calls -> {"none", "pending", "expired", "cancelled", "robbed",
                         "fired"}]
  /\ loop \in {"off", "on", "stopped"}
  /\ batch \in Seq(Handlers \cup Calls)
  /\ sock \in {"fresh", "connecting", "connected", "blocking"}
  /\ m_connect_error_code \in Codes
  /\ m_state \in {"NotConnected", "Connected", "Closed"}
  /\ outHandler \in Calls \cup {None, "on_write"}
  /\ outOn \in BOOLEAN
  /\ inOn \in BOOLEAN
  /\ m_write_dones \in Seq(Calls)
  /\ m_out_buffer \in Seq(Calls)
  /\ m_read_dones \in SUBSET Calls
  /\ spent \in SUBSET Calls
  /\ requests \in Seq(Calls)
  /\ answers \in Seq(Answers)
  /\ answered \in SUBSET Calls
  /\ served \in SUBSET Calls
  /\ repeated \in BOOLEAN
  /\ peerOpen \in BOOLEAN
  /\ runs \in [Calls -> 0..2]
  /\ told \in [Calls -> Codes]
  /\ crashed \in BOOLEAN

Init ==
  /\ m_is_init = FALSE
  /\ m_timer_event = None
  /\ called = {}
  /\ ctl = [k \in Calls |-> [code |-> "0", failed |-> FALSE, canceled |-> FALSE]]
  /\ timer = [k \in Calls |-> "none"]
  /\ loop = "off"
  /\ batch = << >>
  /\ sock = "fresh"
  /\ m_connect_error_code = "0"
  /\ m_state = "NotConnected"
  /\ outHandler = None
  /\ outOn = FALSE
  /\ inOn = FALSE
  /\ m_write_dones = << >>
  /\ m_out_buffer = << >>
  /\ m_read_dones = {}
  /\ spent = {}
  /\ requests = << >>
  /\ answers = << >>
  /\ answered = {}
  /\ served = {}
  /\ repeated = FALSE
  /\ peerOpen = TRUE
  /\ runs = [k \in Calls |-> 0]
  /\ told = [k \in Calls |-> "0"]
  /\ crashed = FALSE

-----------------------------------------------------------------------------
(* RpcController.                                                          *)
WithError(c, code) == [c EXCEPT !.code = code, !.failed = TRUE]
WithTimeout(c) == [WithError(c, "TIMEOUT") EXCEPT !.canceled = TRUE]

SetError(k, code) == ctl' = [ctl EXCEPT ![k] = WithError(@, code)]

(* The closure of the channel, run on behalf of call k with code in the    *)
(* controller.  The closure may stop the loop, as the client test does on  *)
(* success (TcpClient::stop).                                              *)
RunClosure(k, code) ==
  /\ runs' = [runs EXCEPT ![k] = IF @ < 2 THEN @ + 1 ELSE @]
  /\ told' = [told EXCEPT ![k] = code]
  /\ loop' \in {loop, IF loop = "on" THEN "stopped" ELSE loop}

NoClosure == UNCHANGED <<runs, told, loop>>

-----------------------------------------------------------------------------
(* RpcChannel::init and the early returns of CallMethod.                   *)

(* A second init() returns at once.                                        *)
InitChannel ==
  /\ m_is_init' = TRUE
  /\ UNCHANGED <<m_timer_event, called, ctl, timer, loop, batch, tcpVars, spent,
                 netVars, runs, told, crashed>>

(* The timer of call k has not run and was not cancelled.                  *)
Waits(k) == timer[k] \in {"pending", "expired"}

(* CallMethod's caller is the main program or a callback of the loop.      *)
Begin(k) ==
  /\ k \notin called
  /\ ~crashed
  /\ Overlap \/ \A j \in called : ~Waits(j)
  /\ called' = called \cup {k}

CallNotInit(k) ==
  /\ Begin(k) /\ ~m_is_init
  /\ SetError(k, "NOT_INIT")
  /\ UNCHANGED <<m_is_init, m_timer_event, timer, loop, batch, tcpVars, spent,
                 netVars, runs, told, crashed>>

CallSerializeFails(k) ==
  /\ Begin(k) /\ m_is_init
  /\ SetError(k, "SERIALIZE")
  /\ UNCHANGED <<m_is_init, m_timer_event, timer, loop, batch, tcpVars, spent,
                 netVars, runs, told, crashed>>

(* The part of CallMethod that every accepted call goes through: a new     *)
(* TimerEvent takes the place of the channel's previous one.               *)
Accept(k) ==
  /\ Begin(k) /\ m_is_init
  /\ timer' = [timer EXCEPT ![k] = "pending"]
  /\ m_timer_event' = k
  /\ UNCHANGED <<m_is_init, batch, spent, netVars, runs, told, crashed>>

(* The callback that CallMethod hands to TcpClient::connect.  error is     *)
(* TcpClient's m_connect_error_code, which nothing ever clears.            *)
ConnectDone(k, error) ==
  IF error # "0"
    THEN /\ SetError(k, error)
         /\ UNCHANGED <<m_write_dones>>
    ELSE /\ m_write_dones' = Append(m_write_dones, k)   \* write_message
         /\ UNCHANGED ctl

(* listen_write() of write_message, unless the connect has failed; offOn   *)
(* is whether the loop listens for OUT in that case.                       *)
ThenListenWrite(error, offOn) ==
  /\ outHandler' = IF error = "0" THEN "on_write" ELSE outHandler
  /\ outOn' = (error = "0" \/ offOn)

(* ::connect returns 0: connected at once, or the handshake that an        *)
(* earlier call began has just ended.  The loop is not started.            *)
CallConnectsNow(k) ==
  /\ Accept(k)
  /\ sock # "connected"
  /\ sock' = "connected"
  /\ m_state' = "Connected"
  /\ ConnectDone(k, m_connect_error_code)
  /\ ThenListenWrite(m_connect_error_code, outOn)
  /\ UNCHANGED <<loop, m_connect_error_code, inOn, m_out_buffer, m_read_dones>>

(* EINPROGRESS: wait until the socket is writable, and run the loop if it  *)
(* has never been started; m_is_looping stays true after stop().           *)
CallConnectInProgress(k) ==
  /\ Accept(k)
  /\ sock = "fresh"
  /\ sock' = "connecting"
  /\ outHandler' = k
  /\ outOn' = TRUE
  /\ loop' = IF loop = "off" THEN "on" ELSE loop
  /\ UNCHANGED <<ctl, m_connect_error_code, m_state, inOn, m_write_dones,
                 m_out_buffer, m_read_dones>>

(* Any other errno: EISCONN on a connected socket; EALREADY on one that is *)
(* connecting, or the error its handshake met, which this call consumes.   *)
CallConnectFails(k) ==
  /\ Accept(k)
  /\ m_connect_error_code' = "CONNECT"
  /\ ConnectDone(k, "CONNECT")
  /\ sock' \in {sock, IF sock = "connecting" THEN "fresh" ELSE sock}
  /\ UNCHANGED <<loop, m_state, outHandler, outOn, inOn, m_out_buffer,
                 m_read_dones>>

-----------------------------------------------------------------------------
(* The loop: the timer of a call runs out, and epoll reports what is ready.*)

Expire(k) ==
  /\ timer[k] = "pending"
  /\ timer' = [timer EXCEPT ![k] = "expired"]
  /\ UNCHANGED <<m_is_init, m_timer_event, called, ctl, loop, batch, tcpVars,
                 spent, netVars, runs, told, crashed>>

(* What an event that may have come about adds to the batch.               *)
MayAdd(event, handler) == {<< >>} \cup (IF event THEN {<<handler>>} ELSE {})

(* The handlers of one epoll_wait: IN before OUT for the socket, and the   *)
(* timerfd before or after it.  What is still on its way is not reported.  *)
Report ==
  /\ loop = "on" /\ batch = << >> /\ ~crashed
  /\ LET due == IF \E k \in Calls : timer[k] = "expired" THEN <<"on_timer">>
                                                         ELSE << >>
     IN \E reads \in MayAdd(inOn /\ (answers # << >> \/ ~peerOpen), "on_read"),
           writes \in MayAdd(outOn, outHandler) :
          batch' \in {due \o reads \o writes, reads \o writes \o due} \ {<< >>}
  /\ UNCHANGED <<m_is_init, m_timer_event, called, ctl, timer, loop, tcpVars,
                 spent, netVars, runs, told, crashed>>

(* The loop runs all it has queued, also after stop().                     *)
Queued(handler) == ~crashed /\ batch # << >> /\ Head(batch) = handler

Run(handler) == Queued(handler) /\ batch' = Tail(batch)

-----------------------------------------------------------------------------
(* Handlers run by the loop.                                               *)

(* The lambda of TcpClient::connect: a second ::connect tells the result,  *)
(* 0 or EISCONN.  The descriptor leaves the loop, then the callback of the *)
(* call runs.                                                              *)
OnConnected(k) ==
  /\ Run(k)
  /\ sock' = "connected"
  /\ m_state' = "Connected"
  /\ ConnectDone(k, m_connect_error_code)
  /\ ThenListenWrite(m_connect_error_code, FALSE)
  /\ inOn' = FALSE
  /\ UNCHANGED <<m_is_init, m_timer_event, called, timer, loop, spent,
                 m_connect_error_code, m_out_buffer, m_read_dones, netVars,
                 runs, told, crashed>>

(* A bug to catch: the raw errno is stored instead of an error code.       *)
OnRefusedErrno(k) ==
  /\ Run(k)
  /\ sock # "connected"
  /\ sock' = "blocking"
  /\ m_connect_error_code' = "ECONNREFUSED" /\ ConnectDone(k, "CONNECT")
  /\ outOn' = FALSE
  /\ inOn' = FALSE
  /\ UNCHANGED <<m_is_init, m_timer_event, called, timer, loop, spent, m_state,
                 outHandler, m_out_buffer, m_read_dones, netVars, runs, told,
                 crashed>>

OnRefused(k) ==
  /\ Run(k)
  /\ sock # "connected"
  /\ sock' = "blocking"           \* close() and a new socket(), left blocking
  /\ \E code \in {"PEER_CLOSED", "CONNECT"} :
       m_connect_error_code' = code /\ ConnectDone(k, code)
  /\ outOn' = FALSE
  /\ inOn' = FALSE
  /\ UNCHANGED <<m_is_init, m_timer_event, called, timer, loop, spent, m_state,
                 outHandler, m_out_buffer, m_read_dones, netVars, runs, told,
                 crashed>>

(* What ::write leaves in the socket before the attempt that decides: a    *)
(* part of the buffer, of which the peer finds the whole messages, since   *)
(* on_write starts again from the beginning.  MaxWire bounds it.           *)
Sends(sent) ==
  /\ Len(requests) + Len(sent) <= MaxWire
  /\ requests' = requests \o sent

PartSent(encoded) ==
  {SubSeq(encoded, 1, n) : n \in 0..(IF encoded = << >> THEN 0
                                                        ELSE Len(encoded) - 1)}

(* A bug to catch: OUT stays listened to after everything was written.     *)
OnWriteKeepsListening ==
  /\ Run("on_write") /\ m_state = "Connected"
  /\ LET encoded == m_out_buffer \o m_write_dones
     IN /\ m_out_buffer' = encoded
        /\ Sends(encoded) /\ UNCHANGED repeated
  /\ m_read_dones' = m_read_dones \cup {m_write_dones[i] : i \in 1..Len(m_write_dones)}
  /\ inOn' = (inOn \/ m_write_dones # << >>)
  /\ m_write_dones' = << >>
  /\ UNCHANGED <<m_is_init, m_timer_event, called, ctl, timer, loop, spent,
                 sock, m_connect_error_code, m_state, outHandler, outOn, answers,
                 answered, served, peerOpen, runs, told, crashed>>

(* TcpConnection::on_write of a client: all of m_write_dones is encoded,   *)
(* the out buffer is written, perhaps a part of it first, until it went as *)
(* a whole or the socket is full, and in both cases each done callback     *)
(* runs: read_message, which waits for the answer.                         *)
OnWrite ==
  /\ Run("on_write") /\ m_state = "Connected"
  /\ LET encoded == m_out_buffer \o m_write_dones
     IN /\ m_out_buffer' = encoded
        /\ \E part \in PartSent(encoded) :
             /\ \/ Sends(part \o encoded) /\ outOn' = FALSE
                \/ Sends(part) /\ UNCHANGED outOn              \* EAGAIN
             /\ repeated' = (repeated \/ part # << >>)
  /\ m_read_dones' = m_read_dones \cup {m_write_dones[i] : i \in 1..Len(m_write_dones)}
  /\ inOn' = (inOn \/ m_write_dones # << >>)
  /\ m_write_dones' = << >>
  /\ UNCHANGED <<m_is_init, m_timer_event, called, ctl, timer, loop, spent,
                 sock, m_connect_error_code, m_state, outHandler, answers,
                 answered, served, peerOpen, runs, told, crashed>>

(* set_cancel(true) on the timer the channel points to now.  "robbed" says *)
(* that it is not the timer of k, the call that was answered.              *)
CancelTimer(k) ==
  timer' = [timer EXCEPT ![m_timer_event] =
              IF ~Waits(m_timer_event) THEN @
              ELSE IF m_timer_event = k THEN "cancelled" ELSE "robbed"]

(* What the read callback of call k does with the answer it was given.     *)
UseAnswer(k, kind) ==
  CASE kind = "garbled" ->
         SetError(k, "SERIALIZE") /\ NoClosure /\ UNCHANGED spent
    [] kind = "error" ->
         SetError(k, "SERVER") /\ NoClosure /\ UNCHANGED spent
    [] OTHER ->
         /\ spent' = spent \cup {k}
         /\ IF ctl[k].canceled THEN NoClosure ELSE RunClosure(k, ctl[k].code)
         /\ UNCHANGED ctl

(* A bug to catch: the answer does not cancel the timer of the call.       *)
AnswerKeepsTimer(a) ==
  IF a.id \in spent
    THEN crashed' = TRUE /\ NoClosure /\ UNCHANGED <<ctl, timer, spent>>
    ELSE UseAnswer(a.id, a.kind) /\ UNCHANGED <<timer, crashed>>

(* A bug to catch: the closure runs although the call has timed out.       *)
AnswerIgnoresCancel(a) ==
  /\ CancelTimer(a.id)
  /\ IF a.kind = "ok"
       THEN spent' = spent \cup {a.id} /\ RunClosure(a.id, "0") /\ UNCHANGED ctl
       ELSE UseAnswer(a.id, a.kind)
  /\ UNCHANGED crashed

(* A bug to catch: a server error runs the closure as a success would,     *)
(* without recording the error.                                            *)
AnswerDropsError(a) ==
  CancelTimer(a.id) /\ UseAnswer(a.id, "ok") /\ UNCHANGED crashed

(* A bug to catch: an answer that cannot be used leaves no trace.          *)
AnswerIsSilent(a) ==
  /\ CancelTimer(a.id)
  /\ IF a.kind = "ok" THEN UseAnswer(a.id, "ok")
                      ELSE NoClosure /\ UNCHANGED <<ctl, spent>>
  /\ UNCHANGED crashed

(* The read callback of call a.id.  It cancels a timer, returns without    *)
(* the closure on a garbled answer and on a server error, and skips the    *)
(* closure of a call that has timed out.  Once it has reset its channel,   *)
(* another answer dereferences the null pointer.                           *)
Answer(a) ==
  IF a.id \in spent
    THEN crashed' = TRUE /\ NoClosure /\ UNCHANGED <<ctl, timer, spent>>
    ELSE CancelTimer(a.id) /\ UseAnswer(a.id, a.kind) /\ UNCHANGED crashed

(* TcpConnection::on_read and excute of a client, for one decoded message; *)
(* the others are still on their way.                                      *)
OnRead ==
  /\ Run("on_read")
  /\ m_state = "Connected" /\ answers # << >>
  /\ answers' = Tail(answers)
  /\ LET a == Head(answers)
     IN IF a.id \in m_read_dones
          THEN Answer(a)
          ELSE NoClosure /\ UNCHANGED <<ctl, timer, spent, crashed>>
  /\ UNCHANGED <<m_is_init, m_timer_event, called, tcpVars, requests, answered,
                 served, repeated, peerOpen>>

(* read() returns 0: TcpConnection::clear().                               *)
OnReadEof ==
  /\ Run("on_read")
  /\ m_state = "Connected" /\ answers = << >> /\ ~peerOpen
  /\ outOn' = FALSE
  /\ inOn' = FALSE
  /\ m_state' = "Closed"
  /\ UNCHANGED <<m_is_init, m_timer_event, called, ctl, timer, loop, spent,
                 sock, m_connect_error_code, outHandler, m_write_dones,
                 m_out_buffer, m_read_dones, netVars, runs, told, crashed>>

(* on_write returns at once: its batch's on_read has closed the connection.*)
OnWriteClosed ==
  /\ Run("on_write") /\ m_state # "Connected"
  /\ UNCHANGED <<m_is_init, m_timer_event, called, ctl, timer, loop, tcpVars,
                 spent, netVars, runs, told, crashed>>

(* Timer::on_timer runs the callback of each expired event that is not     *)
(* cancelled, then returns.                                                *)
OnTimeout(k) ==
  /\ Queued("on_timer")
  /\ timer[k] = "expired"
  /\ timer' = [timer EXCEPT ![k] = "fired"]
  /\ ctl' = [ctl EXCEPT ![k] = WithTimeout(@)]
  /\ RunClosure(k, "TIMEOUT")
  /\ UNCHANGED <<m_is_init, m_timer_event, called, batch, tcpVars, spent,
                 netVars, crashed>>

OnTimerReturns ==
  /\ Run("on_timer")
  /\ \A k \in Calls : timer[k] # "expired"
  /\ UNCHANGED <<m_is_init, m_timer_event, called, ctl, timer, loop, tcpVars,
                 spent, netVars, runs, told, crashed>>

-----------------------------------------------------------------------------
(* The server answers each request it has received as it likes, may answer *)
(* again, as the repository's own server does when it sends all of its out *)
(* buffer, and may close.                                                  *)
ServerSends(a) ==
  /\ peerOpen /\ Len(answers) < MaxWire
  /\ answers' = Append(answers, a)
  /\ answered' = answered \cup {a.id}
  /\ served' = IF a.kind = "ok" THEN served \cup {a.id} ELSE served
  /\ UNCHANGED <<m_is_init, m_timer_event, called, ctl, timer, loop, batch,
                 tcpVars, spent, peerOpen, runs, told, crashed>>

ServerAnswers(a) ==
  /\ requests # << >> /\ a.id = Head(requests)
  /\ requests' = Tail(requests)
  /\ ServerSends(a)
  /\ UNCHANGED repeated

ServerRepeats(a) ==
  /\ a.id \in answered
  /\ repeated' = TRUE
  /\ ServerSends(a)
  /\ UNCHANGED requests

ServerCloses ==
  /\ sock = "connected" /\ peerOpen
  /\ peerOpen' = FALSE
  /\ UNCHANGED <<m_is_init, m_timer_event, called, ctl, timer, loop, batch,
                 tcpVars, spent, requests, answers, answered, served, repeated,
                 runs, told, crashed>>

Start(k) ==
  \/ CallNotInit(k) \/ CallSerializeFails(k)
  \/ CallConnectsNow(k) \/ CallConnectInProgress(k) \/ CallConnectFails(k)

Handler ==
  \/ \E k \in Calls : OnConnected(k) \/ OnRefused(k) \/ OnTimeout(k)
  \/ OnWrite \/ OnWriteClosed \/ OnRead \/ OnReadEof \/ OnTimerReturns

Next ==
  \/ InitChannel
  \/ \E k \in Calls : Start(k) \/ Expire(k)
  \/ Report
  \/ Handler
  \/ \E a \in Answers : ServerAnswers(a) \/ ServerRepeats(a)
  \/ ServerCloses

Spec == Init /\ [][Next]_vars

(* Time passes, and the loop takes what epoll reports and runs it.         *)
(* Nothing is assumed of the server, the socket or the program.            *)
FairSpec ==
  /\ Spec
  /\ \A k \in Calls : WF_vars(Expire(k))
  /\ WF_vars(Report)
  /\ WF_vars(Handler)

-----------------------------------------------------------------------------
(* Properties.                                                             *)

(* A call whose answer and timeout race completes once: whichever handler  *)
(* comes first, the other one does not run the closure again.  The read    *)
(* callback relies on it where it says of the channel's timer "cancel this *)
(* timed task".                                                            *)
ClosureAtMostOnce == \A k \in Calls : runs[k] <= 1

(* The closure is told success only if the server answered this call       *)
(* without error before the timeout, and is told nothing but success or    *)
(* timeout; only if a request or an answer was repeated can a good answer  *)
(* follow a bad one, and the closure then sees the error of the bad one.   *)
ClosureToldTruth ==
  \A k \in Calls : runs[k] > 0 =>
    \/ told[k] = "0" /\ k \in served /\ timer[k] # "fired"
    \/ told[k] = "TIMEOUT" /\ timer[k] = "fired"
    \/ repeated /\ told[k] \in {"SERVER", "SERIALIZE"}

(* An answer reaches a read callback that has already reset its channel    *)
(* only if the server sent an answer again or a part of the buffer was     *)
(* written before the whole.  The client itself never sends a request      *)
(* twice, although on_write sends the whole buffer each time, two calls    *)
(* may be in it, and each connect and each batch can make it run again.    *)
NoUseAfterReset == crashed => repeated

(* A call that was accepted and that the loop is running ends: its closure *)
(* runs or its controller records a failure, unless the program stops the  *)
(* loop or the answer of another call has cancelled its timer.             *)
EveryCallSettles ==
  \A k \in Calls :
    (k \in called /\ loop = "on") ~>
      (runs[k] > 0 \/ ctl[k].failed \/ timer[k] = "robbed"
         \/ loop = "stopped" \/ crashed)

Outcome(k) ==
  IF runs[k] > 0 /\ told[k] = "0" THEN "ok"
  ELSE IF runs[k] > 0 /\ told[k] = "TIMEOUT" THEN "timeout"
  ELSE IF ctl[k].failed THEN "error"
  ELSE IF k \in called THEN "waiting" ELSE "none"

Contract == INSTANCE CallContract WITH outcome <- [k \in Calls |-> Outcome(k)]

(* The channel implements the contract of a call.                          *)
ImplementsContract == Contract!Spec
=============================================================================
