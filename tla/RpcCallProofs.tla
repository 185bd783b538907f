---------------------------- MODULE RpcCallProofs ----------------------------
(* Proofs of the safety properties of RpcCall for any set of calls, and    *)
(* that the channel implements the contract of a call.                     *)
EXTENDS RpcCall, Integers, SequenceTheorems, TLAPS

USE DEF vars, tcpVars, netVars

-----------------------------------------------------------------------------
(* The invariant.                                                          *)

Elems(s) == {s[i] : i \in 1..Len(s)}
Ids(s) == {s[i].id : i \in 1..Len(s)}
Distinct(s) == \A i, j \in 1..Len(s) : s[i] = s[j] => i = j

(* What the OUT event of the descriptor may run, now in the batch or later.*)
OutHandlers == Calls \cup {"on_write"}
CanRun(h) == h \in Elems(batch) \/ (outOn /\ outHandler = h)

(* A batch holds one handler of the OUT event, of the time it was queued;  *)
(* on_write is there only once the socket is connected, for good.          *)
BatchInv ==
  /\ \A i, j \in 1..Len(batch) :
       batch[i] \in OutHandlers /\ batch[j] \in OutHandlers => i = j
  /\ outHandler = "on_write" => sock = "connected"
  /\ "on_write" \in Elems(batch) => outHandler = "on_write"
  /\ outOn => outHandler \in OutHandlers

(* The calls whose message is or was in the out buffer, or soon will be.   *)
Written == Elems(m_write_dones) \cup Elems(m_out_buffer)

(* The controller of a call holds no error, unless the call has timed out. *)
Clean(k) == ~ctl[k].canceled => ctl[k].code = "0" /\ ~ctl[k].failed

(* What a call that was written can have in its controller.                *)
Answerable(k) ==
  Clean(k) \/ (ctl[k].failed /\ ctl[k].code \in {"SERVER", "SERIALIZE"})

Accepted(k) == k \in called /\ timer[k] # "none"

(* A call waits for its connect, or is written and perhaps sent, answered  *)
(* and read, in this order.                                                *)
WireInv ==
  /\ \A k \in Calls : CanRun(k) => Accepted(k) /\ Clean(k) /\ k \notin Written
  /\ \A k \in Written : Accepted(k) /\ Answerable(k)
  /\ Elems(requests) \cup Ids(answers) \cup answered \cup spent \subseteq Written
  /\ \A i \in 1..Len(answers) : answers[i].kind = "ok" => answers[i].id \in served

(* The way of the calls when nothing is sent twice: first all are unsent,  *)
(* then on_write sends all of them, once and for ever, and each is asked,  *)
(* answered and read once.                                                 *)
Unsent ==
  /\ requests = << >> /\ answers = << >> /\ answered = {} /\ spent = {}
  /\ \A k \in Written : Clean(k)
  /\ Distinct(m_out_buffer \o m_write_dones)

Sent ==
  /\ outHandler = "on_write" /\ m_write_dones = << >>
  /\ \A h \in OutHandlers : ~CanRun(h)
  /\ Distinct(requests)
  /\ \A i, j \in 1..Len(answers) : answers[i].id = answers[j].id => i = j
  /\ Elems(requests) \cap Ids(answers) = {}
  /\ \A k \in Elems(requests) \cup Ids(answers) : Clean(k) /\ k \notin spent

SentOnce == repeated \/ Unsent \/ Sent

(* How the timer, the controller and the closure of a call go together.    *)
CallTimerInv ==
  /\ \A k \in Calls : ctl[k].canceled <=> timer[k] = "fired"
  /\ \A k \in Calls \ called :
       timer[k] = "none" /\ runs[k] = 0 /\ ctl[k].code = "0" /\ ~ctl[k].failed
  /\ \A k \in Calls : timer[k] = "none" => runs[k] = 0
  /\ \A k \in Calls : runs[k] > 0 => ctl[k].canceled \/ k \in spent

CallInv ==
  TypeOK /\ BatchInv /\ WireInv /\ SentOnce /\ CallTimerInv /\ ClosureToldTruth
         /\ NoUseAfterReset

-----------------------------------------------------------------------------
(* The operators.                                                          *)

(* Appending, concatenating and taking the tail, element by element.       *)
LEMMA AppendElems ==
  ASSUME NEW S, NEW s \in Seq(S), NEW x \in S
  PROVE  /\ Append(s, x) \in Seq(S) /\ Elems(Append(s, x)) = Elems(s) \cup {x}
         /\ Distinct(s) /\ x \notin Elems(s) => Distinct(Append(s, x))
<1>1. /\ Append(s, x) \in Seq(S) /\ Len(Append(s, x)) = Len(s) + 1
      /\ \A i \in 1..Len(s) : Append(s, x)[i] = s[i]
      /\ Append(s, x)[Len(s) + 1] = x
      /\ Len(s) \in Nat
  OBVIOUS
<1> DEFINE t == Append(s, x)
<1> HIDE DEF t
<1>2. Elems(t) = Elems(s) \cup {x}
  BY <1>1 DEF Elems, t
<1>3. Distinct(s) /\ x \notin Elems(s) => Distinct(t)
  BY <1>1 DEF Elems, Distinct, t
<1> QED BY <1>1, <1>2, <1>3 DEF t

(* The elements of a concatenation.                                        *)
LEMMA ConcatIs ==
  ASSUME NEW S, NEW s \in Seq(S), NEW t \in Seq(S)
  PROVE  /\ s \o t \in Seq(S) /\ Len(s \o t) = Len(s) + Len(t)
         /\ \A i \in 1..Len(s) : (s \o t)[i] = s[i]
         /\ \A i \in 1..Len(t) : (s \o t)[Len(s) + i] = t[i]
         /\ Len(s) \in Nat /\ Len(t) \in Nat
<1>1. Len(s) \in Nat /\ Len(t) \in Nat
  OBVIOUS
<1> DEFINE u == s \o t
<1>2. /\ u \in Seq(S) /\ Len(u) = Len(s) + Len(t)
      /\ \A i \in 1..(Len(s) + Len(t)) :
           u[i] = IF i <= Len(s) THEN s[i] ELSE t[i - Len(s)]
  BY ConcatProperties
<1> HIDE DEF u
<1>3. \A i \in 1..Len(s) : u[i] = s[i]
  BY <1>1, <1>2
<1>4. \A i \in 1..Len(t) : u[Len(s) + i] = t[i]
  BY <1>1, <1>2
<1> QED BY <1>1, <1>2, <1>3, <1>4 DEF u

LEMMA ConcatElems ==
  ASSUME NEW S, NEW s \in Seq(S), NEW t \in Seq(S)
  PROVE  s \o t \in Seq(S) /\ Elems(s \o t) = Elems(s) \cup Elems(t)
<1>1. /\ s \o t \in Seq(S) /\ Len(s \o t) = Len(s) + Len(t)
      /\ \A i \in 1..Len(s) : (s \o t)[i] = s[i]
      /\ \A i \in 1..Len(t) : (s \o t)[Len(s) + i] = t[i]
      /\ Len(s) \in Nat /\ Len(t) \in Nat
  BY ConcatIs
<1> DEFINE u == s \o t
<1> HIDE DEF u
<1>2. Elems(u) \subseteq Elems(s) \cup Elems(t)
  <2> SUFFICES ASSUME NEW i \in 1..Len(u) PROVE u[i] \in Elems(s) \cup Elems(t)
    BY DEF Elems
  <2>1. CASE i \in 1..Len(s)
    BY <1>1, <2>1 DEF Elems, u
  <2>2. CASE i \notin 1..Len(s)
    <3>1. i - Len(s) \in 1..Len(t) /\ i = Len(s) + (i - Len(s))
      BY <1>1, <2>2 DEF u
    <3> QED BY <1>1, <3>1 DEF Elems, u
  <2> QED BY <2>1, <2>2
<1>3. Elems(s) \subseteq Elems(u)
  BY <1>1 DEF Elems, u
<1>4. Elems(t) \subseteq Elems(u)
  BY <1>1 DEF Elems, u
<1> QED BY <1>1, <1>2, <1>3, <1>4 DEF u

LEMMA TailElems ==
  ASSUME NEW S, NEW s \in Seq(S), s # << >>
  PROVE  /\ Tail(s) \in Seq(S) /\ Head(s) \in S /\ Head(s) \in Elems(s)
         /\ Elems(Tail(s)) \subseteq Elems(s)
         /\ Elems(s) \subseteq Elems(Tail(s)) \cup {Head(s)}
         /\ Len(Tail(s)) = Len(s) - 1 /\ Len(s) \in Nat /\ Len(s) >= 1
         /\ \A i \in 1..Len(Tail(s)) : i + 1 \in 1..Len(s) /\ Tail(s)[i] = s[i + 1]
<1>1. /\ Tail(s) \in Seq(S) /\ Head(s) \in S /\ Head(s) = s[1]
      /\ Len(Tail(s)) = Len(s) - 1 /\ Len(s) \in Nat /\ Len(s) >= 1
      /\ \A i \in 1..(Len(s) - 1) : Tail(s)[i] = s[i + 1]
  OBVIOUS
<1>2. \A i \in 1..Len(s) : i = 1 \/ (i - 1 \in 1..(Len(s) - 1) /\ i = (i - 1) + 1)
  BY <1>1
<1> DEFINE t == Tail(s)
<1> HIDE DEF t
<1>3. Elems(s) \subseteq Elems(t) \cup {Head(s)}
  BY <1>1, <1>2 DEF Elems, t
<1>4. Elems(t) \subseteq Elems(s) /\ Head(s) \in Elems(s)
  BY <1>1 DEF Elems, t
<1> QED BY <1>1, <1>3, <1>4 DEF t

LEMMA EmptyElems == Elems(<< >>) = {} /\ Ids(<< >>) = {}
BY DEF Elems, Ids

(* SetError marks one controller as failed and does not touch the others.  *)
LEMMA ErrorSet ==
  ASSUME ctl \in [Calls -> Controller], NEW k \in Calls, NEW code \in Codes,
         SetError(k, code)
  PROVE  /\ ctl' \in [Calls -> Controller]
         /\ ctl'[k].code = code /\ ctl'[k].failed
         /\ ctl'[k].canceled = ctl[k].canceled
         /\ \A j \in Calls \ {k} : ctl'[j] = ctl[j]
BY DEF SetError, WithError, Controller

(* RunClosure counts one more run of the call's closure.                   *)
LEMMA ClosureRuns ==
  ASSUME runs \in [Calls -> 0..2], told \in [Calls -> Codes],
         loop \in {"off", "on", "stopped"},
         NEW k \in Calls, NEW code \in Codes, RunClosure(k, code)
  PROVE  /\ runs' \in [Calls -> 0..2] /\ told' \in [Calls -> Codes]
         /\ loop' \in {"off", "on", "stopped"}
         /\ runs'[k] > 0 /\ (runs[k] = 0 => runs'[k] = 1) /\ told'[k] = code
         /\ \A j \in Calls \ {k} : runs'[j] = runs[j] /\ told'[j] = told[j]
BY DEF RunClosure

TimerStates == {"none", "pending", "expired", "cancelled", "robbed", "fired"}

(* The cancelled timer is the one the channel points to, if it waits.      *)
LEMMA TimerCancelled ==
  ASSUME timer \in [Calls -> TimerStates], m_timer_event \in Calls \cup {None},
         NEW k \in Calls, CancelTimer(k)
  PROVE  /\ timer' \in [Calls -> TimerStates]
         /\ \A j \in Calls :
              timer'[j] = IF j = m_timer_event /\ Waits(j)
                            THEN (IF j = k THEN "cancelled" ELSE "robbed")
                            ELSE timer[j]
BY NoneAssumption DEF CancelTimer, TimerStates, Waits

(* A handler that was run is out of the batch.                             *)
LEMMA BatchRuns ==
  ASSUME batch \in Seq(Handlers \cup Calls), BatchInv, NEW h, Run(h)
  PROVE  /\ batch' \in Seq(Handlers \cup Calls)
         /\ h \in Elems(batch) /\ Elems(batch') \subseteq Elems(batch)
         /\ \A i, j \in 1..Len(batch') :
              batch'[i] \in OutHandlers /\ batch'[j] \in OutHandlers => i = j
         /\ h \in OutHandlers => Elems(batch') \cap OutHandlers = {}
<1>1. batch # << >> /\ Head(batch) = h /\ batch' = Tail(batch)
  BY DEF Run, Queued
<1>2. /\ batch' \in Seq(Handlers \cup Calls) /\ h \in Elems(batch)
      /\ Elems(batch') \subseteq Elems(batch)
      /\ Len(batch) \in Nat /\ Len(batch) >= 1
      /\ \A i \in 1..Len(batch') : i + 1 \in 1..Len(batch) /\ batch'[i] = batch[i + 1]
  BY <1>1, TailElems
<1>3. \A i, j \in 1..Len(batch') :
        batch'[i] \in OutHandlers /\ batch'[j] \in OutHandlers => i = j
  BY <1>2 DEF BatchInv
<1>4. ASSUME h \in OutHandlers
      PROVE  Elems(batch') \cap OutHandlers = {}
  <2>1. batch[1] = h /\ 1 \in 1..Len(batch)
    BY <1>1, <1>2
  <2>2. \A i \in 1..Len(batch') : batch[i + 1] \notin OutHandlers
    BY <1>2, <1>4, <2>1 DEF BatchInv
  <2> QED BY <1>2, <2>2 DEF Elems
<1> QED BY <1>2, <1>3, <1>4

-----------------------------------------------------------------------------
(* What a step does to the calls.                                          *)

(* CallMethod of k: the call is counted, and it gets a timer or an error.  *)
Begins(k) ==
  /\ k \notin called /\ called' = called \cup {k}
  /\ \/ UNCHANGED ctl
     \/ \E code \in Codes : SetError(k, code)
  /\ \/ UNCHANGED <<timer, m_timer_event>>
     \/ /\ timer' = [timer EXCEPT ![k] = "pending"] /\ m_timer_event' = k
        /\ Overlap \/ \A j \in called : ~Waits(j)
  /\ UNCHANGED <<runs, told, spent>>

(* A failure of k is recorded in its controller.                           *)
Fails(k) ==
  /\ Accepted(k)
  /\ \E code \in Codes : SetError(k, code)
  /\ UNCHANGED <<called, timer, runs, told, spent, m_timer_event>>

(* An answer of call k is read and used.                                   *)
Reads(k) ==
  /\ Accepted(k) /\ Answerable(k) /\ k \notin spent
  /\ CancelTimer(k)
  /\ UNCHANGED <<called, m_timer_event>>
  /\ \/ /\ \E code \in {"SERIALIZE", "SERVER"} : SetError(k, code)
        /\ UNCHANGED <<runs, told, spent>>
     \/ /\ k \in served /\ spent' = spent \cup {k} /\ UNCHANGED ctl
        /\ \/ ctl[k].canceled /\ UNCHANGED <<runs, told>>
           \/ /\ ~ctl[k].canceled /\ (repeated \/ Clean(k))
              /\ RunClosure(k, ctl[k].code)

(* The timer of k runs out, and its callback is run.                       *)
RunsOut(k) ==
  /\ timer[k] = "pending"
  /\ timer' = [timer EXCEPT ![k] = "expired"]
  /\ UNCHANGED <<called, ctl, runs, told, spent, m_timer_event>>

TimesOut(k) ==
  /\ timer[k] = "expired"
  /\ timer' = [timer EXCEPT ![k] = "fired"]
  /\ ctl' = [ctl EXCEPT ![k] = WithTimeout(@)]
  /\ RunClosure(k, "TIMEOUT")
  /\ UNCHANGED <<called, spent, m_timer_event>>

Idles == UNCHANGED <<called, ctl, timer, runs, told, spent, m_timer_event>>

(* The read callback: only a repeated answer finds the channel reset, or   *)
(* an earlier error in the controller.                                     *)
LEMMA ReadsAnswer ==
  ASSUME CallInv, OnRead
  PROVE  /\ Head(answers).id \in Calls
         /\ \/ Reads(Head(answers).id) /\ UNCHANGED crashed
            \/ Idles /\ (UNCHANGED crashed \/ repeated)
         /\ loop' \in {"off", "on", "stopped"}
<1> DEFINE a == Head(answers)
           k == Head(answers).id
<1>1. /\ answers \in Seq(Answers) /\ answers # << >>
      /\ loop \in {"off", "on", "stopped"} /\ spent \in SUBSET Calls
      /\ ctl \in [Calls -> Controller] /\ m_out_buffer \in Seq(Calls)
      /\ m_write_dones \in Seq(Calls)
  BY DEF CallInv, TypeOK, OnRead
<1>2. a \in Answers /\ a = answers[1] /\ 1 \in 1..Len(answers)
  BY <1>1
<1>3. k \in Calls /\ a.kind \in {"ok", "error", "garbled"}
  BY <1>2 DEF Answers
<1>4. k \in Ids(answers)
  BY <1>2 DEF Ids
<1>5. Accepted(k) /\ Answerable(k) /\ (a.kind = "ok" => k \in served)
  BY <1>2, <1>4 DEF CallInv, WireInv
<1>6. ~repeated => k \notin spent /\ Clean(k)
  <2>1. ~Unsent
    BY <1>1 DEF Unsent
  <2> QED BY <1>4, <2>1 DEF CallInv, SentOnce, Sent
<1>7. UNCHANGED <<called, m_timer_event>>
  BY DEF OnRead
<1> HIDE DEF a, k
<1>8. \/ Answer(a) /\ a.id = k
      \/ NoClosure /\ UNCHANGED <<ctl, timer, spent, crashed>>
  BY DEF OnRead, a, k
<1>9. CASE NoClosure /\ UNCHANGED <<ctl, timer, spent, crashed>>
  <2>1. Idles
    BY <1>7, <1>9 DEF Idles, NoClosure
  <2> QED BY <1>1, <1>3, <1>9, <2>1 DEF NoClosure, k
<1>10. CASE Answer(a) /\ a.id = k /\ k \in spent
  <2>1. crashed' = TRUE /\ NoClosure /\ UNCHANGED <<ctl, timer, spent>>
    BY <1>10 DEF Answer
  <2>2. Idles /\ repeated
    BY <1>6, <1>7, <1>10, <2>1 DEF Idles, NoClosure
  <2> QED BY <1>1, <1>3, <2>1, <2>2 DEF NoClosure, k
<1>11. CASE Answer(a) /\ a.id = k /\ k \notin spent
  <2>1. CancelTimer(k) /\ UseAnswer(k, a.kind) /\ UNCHANGED crashed
    BY <1>11 DEF Answer
  <2>2. CASE a.kind \in {"error", "garbled"}
    <3>1. /\ \E code \in {"SERIALIZE", "SERVER"} : SetError(k, code)
          /\ NoClosure /\ UNCHANGED spent
      BY <2>1, <2>2 DEF UseAnswer
    <3>2. UNCHANGED <<runs, told, loop>>
      BY <3>1 DEF NoClosure
    <3>3. Reads(k)
      BY <1>5, <1>7, <1>11, <2>1, <3>1, <3>2 DEF Reads
    <3> QED BY <1>1, <1>3, <2>1, <3>2, <3>3 DEF k
  <2>3. CASE a.kind = "ok"
    <3>1. /\ spent' = spent \cup {k} /\ UNCHANGED ctl
          /\ IF ctl[k].canceled THEN NoClosure ELSE RunClosure(k, ctl[k].code)
      BY <2>1, <2>3 DEF UseAnswer
    <3>2. Reads(k)
      BY <1>5, <1>6, <1>7, <1>11, <2>1, <2>3, <3>1 DEF Reads, NoClosure
    <3>3. loop' \in {"off", "on", "stopped"}
      BY <1>1, <3>1 DEF NoClosure, RunClosure
    <3> QED BY <1>3, <2>1, <3>2, <3>3 DEF k
  <2> QED BY <1>3, <2>2, <2>3
<1> QED BY <1>8, <1>9, <1>10, <1>11

(* Each step of the channel begins a call, fails one, reads the answer of  *)
(* one, lets the timer of one run out or runs it, or does nothing to the   *)
(* calls.                                                                  *)
LEMMA CallSteps ==
  ASSUME CallInv, Next
  PROVE  Idles \/ \E k \in Calls : \/ Begins(k) \/ Fails(k) \/ Reads(k)
                                   \/ RunsOut(k) \/ TimesOut(k)
<1>1. m_connect_error_code \in Codes /\ called \in SUBSET Calls
  BY DEF CallInv, TypeOK
<1>2. ASSUME NEW k \in Calls, NEW error \in Codes, ConnectDone(k, error)
      PROVE  UNCHANGED ctl \/ SetError(k, error)
  BY <1>2 DEF ConnectDone
<1>3. CASE \/ InitChannel \/ Report \/ OnWrite \/ OnWriteClosed \/ OnReadEof
           \/ OnTimerReturns \/ ServerCloses
           \/ \E a \in Answers : ServerAnswers(a) \/ ServerRepeats(a)
  BY <1>3
  DEF InitChannel, Report, OnWrite, OnWriteClosed, OnReadEof, OnTimerReturns,
      ServerAnswers, ServerRepeats, ServerSends, ServerCloses, Idles
<1>4. ASSUME NEW k \in Calls, CallNotInit(k) \/ CallSerializeFails(k)
      PROVE  Begins(k)
  BY <1>4 DEF CallNotInit, CallSerializeFails, Begin, Begins, Codes
<1>5. ASSUME NEW k \in Calls, CallConnectsNow(k)
      PROVE  Begins(k)
  <2>1. UNCHANGED ctl \/ SetError(k, m_connect_error_code)
    BY <1>1, <1>2, <1>5 DEF CallConnectsNow
  <2> QED BY <1>1, <1>5, <2>1 DEF CallConnectsNow, Accept, Begin, Begins
<1>6. ASSUME NEW k \in Calls, CallConnectInProgress(k)
      PROVE  Begins(k)
  BY <1>6 DEF CallConnectInProgress, Accept, Begin, Begins
<1>7. ASSUME NEW k \in Calls, CallConnectFails(k)
      PROVE  Begins(k)
  <2>1. SetError(k, "CONNECT") /\ "CONNECT" \in Codes
    BY <1>7 DEF CallConnectFails, ConnectDone, Codes
  <2> QED BY <1>7, <2>1 DEF CallConnectFails, Accept, Begin, Begins
<1>8. ASSUME NEW k \in Calls, OnConnected(k) \/ OnRefused(k)
      PROVE  Idles \/ Fails(k)
  <2>1. Run(k) /\ batch \in Seq(Handlers \cup Calls) /\ BatchInv
    BY <1>8 DEF OnConnected, OnRefused, CallInv, TypeOK
  <2>2. k \in Elems(batch)
    BY <2>1, BatchRuns
  <2>3. Accepted(k)
    BY <2>2 DEF CallInv, WireInv, CanRun
  <2>4. UNCHANGED ctl \/ \E code \in Codes : SetError(k, code)
    BY <1>1, <1>2, <1>8 DEF OnConnected, OnRefused, ConnectDone, Codes
  <2> QED BY <1>8, <2>3, <2>4 DEF OnConnected, OnRefused, Fails, Idles
<1>9. ASSUME NEW k \in Calls, Expire(k)
      PROVE  RunsOut(k)
  BY <1>9 DEF Expire, RunsOut
<1>10. ASSUME NEW k \in Calls, OnTimeout(k)
       PROVE  TimesOut(k)
  BY <1>10 DEF OnTimeout, TimesOut
<1>11. CASE OnRead
  BY <1>11, ReadsAnswer
<1> QED
  BY <1>3, <1>4, <1>5, <1>6, <1>7, <1>8, <1>9, <1>10, <1>11, Zenon
  DEF Next, Start, Handler

(* The part of the state that is about the calls has the right types.      *)
CallTypes ==
  /\ m_timer_event \in Calls \cup {None}
  /\ called \in SUBSET Calls
  /\ ctl \in [Calls -> Controller]
  /\ timer \in [Calls -> TimerStates]
  /\ runs \in [Calls -> 0..2]
  /\ told \in [Calls -> Codes]
  /\ spent \in SUBSET Calls

LEMMA TypesOfCalls ==
  ASSUME CallInv
  PROVE  CallTypes /\ loop \in {"off", "on", "stopped"}
BY DEF CallInv, TypeOK, CallTypes, TimerStates

(* A timeout marks the controller of its call and no other.                *)
LEMMA TimeoutSet ==
  ASSUME CallTypes, NEW k \in Calls, TimesOut(k)
  PROVE  /\ ctl' \in [Calls -> Controller]
         /\ ctl'[k].canceled /\ ctl'[k].failed /\ timer'[k] = "fired"
         /\ \A j \in Calls \ {k} : ctl'[j] = ctl[j] /\ timer'[j] = timer[j]
<1>1. ctl' = [ctl EXCEPT ![k] = WithTimeout(@)] /\ ctl[k] \in Controller
  BY DEF TimesOut, CallTypes
<1>2. /\ WithTimeout(ctl[k]).canceled /\ WithTimeout(ctl[k]).failed
      /\ WithTimeout(ctl[k]) \in Controller
  BY <1>1 DEF WithTimeout, WithError, Controller, Codes
<1> QED BY <1>1, <1>2 DEF TimesOut, CallTypes

(* What a step that begins a call does, call by call.                      *)
LEMMA BeginSet ==
  ASSUME CallTypes, NEW k \in Calls, Begins(k)
  PROVE  /\ ctl'[k].canceled = ctl[k].canceled
         /\ timer'[k] \in {timer[k], "pending"}
         /\ \A j \in Calls \ {k} : ctl'[j] = ctl[j] /\ timer'[j] = timer[j]
<1>1. /\ ctl'[k].canceled = ctl[k].canceled
      /\ \A j \in Calls \ {k} : ctl'[j] = ctl[j]
  BY ErrorSet DEF Begins, CallTypes
<1>2. /\ timer'[k] \in {timer[k], "pending"}
      /\ \A j \in Calls \ {k} : timer'[j] = timer[j]
  BY DEF Begins, CallTypes
<1> QED BY <1>1, <1>2

(* What reading an answer of k does, call by call.                         *)
LEMMA ReadSet ==
  ASSUME CallTypes, loop \in {"off", "on", "stopped"}, NEW k \in Calls, Reads(k)
  PROVE  /\ ctl' \in [Calls -> Controller] /\ timer' \in [Calls -> TimerStates]
         /\ runs' \in [Calls -> 0..2] /\ told' \in [Calls -> Codes]
         /\ spent' \in SUBSET Calls /\ spent \subseteq spent'
         /\ \A j \in Calls : ctl'[j].canceled = ctl[j].canceled
         /\ \A j \in Calls \ {k} :
              ctl'[j] = ctl[j] /\ runs'[j] = runs[j] /\ told'[j] = told[j]
         /\ ctl'[k] = ctl[k] \/ (/\ ctl'[k].failed
                                 /\ ctl'[k].code \in {"SERVER", "SERIALIZE"})
         /\ \A j \in Calls :
              timer'[j] = IF j = m_timer_event /\ Waits(j)
                            THEN (IF j = k THEN "cancelled" ELSE "robbed")
                            ELSE timer[j]
         /\ \/ runs'[k] = runs[k] /\ told'[k] = told[k]
            \/ /\ ~ctl[k].canceled /\ k \in spent' /\ k \in served
               /\ repeated \/ Clean(k)
               /\ ctl' = ctl /\ told'[k] = ctl[k].code
               /\ runs'[k] > 0 /\ (runs[k] = 0 => runs'[k] = 1)
<1>1. /\ timer' \in [Calls -> TimerStates]
      /\ \A j \in Calls :
           timer'[j] = IF j = m_timer_event /\ Waits(j)
                         THEN (IF j = k THEN "cancelled" ELSE "robbed")
                         ELSE timer[j]
  BY TimerCancelled DEF Reads, CallTypes
<1>2. spent' \in SUBSET Calls /\ spent \subseteq spent' /\ ctl[k].code \in Codes
  BY DEF Reads, CallTypes, Controller
<1>3. CASE (\E code \in {"SERIALIZE", "SERVER"} : SetError(k, code))
           /\ UNCHANGED <<runs, told, spent>>
  <2>1. PICK code \in {"SERIALIZE", "SERVER"} : SetError(k, code)
    BY <1>3
  <2>2. code \in Codes
    BY DEF Codes
  <2>3. /\ ctl' \in [Calls -> Controller] /\ ctl'[k].code = code /\ ctl'[k].failed
        /\ ctl'[k].canceled = ctl[k].canceled
        /\ \A j \in Calls \ {k} : ctl'[j] = ctl[j]
    BY <2>1, <2>2, ErrorSet DEF CallTypes
  <2> QED BY <1>1, <1>2, <1>3, <2>3 DEF CallTypes
<1>4. CASE /\ k \in served /\ spent' = spent \cup {k} /\ UNCHANGED ctl
           /\ ctl[k].canceled /\ UNCHANGED <<runs, told>>
  BY <1>1, <1>2, <1>4 DEF CallTypes
<1>5. CASE /\ k \in served /\ spent' = spent \cup {k} /\ UNCHANGED ctl
           /\ ~ctl[k].canceled /\ (repeated \/ Clean(k))
           /\ RunClosure(k, ctl[k].code)
  <2>1. /\ runs' \in [Calls -> 0..2] /\ told' \in [Calls -> Codes]
        /\ runs'[k] > 0 /\ (runs[k] = 0 => runs'[k] = 1)
        /\ told'[k] = ctl[k].code
        /\ \A j \in Calls \ {k} : runs'[j] = runs[j] /\ told'[j] = told[j]
    BY <1>2, <1>5, ClosureRuns DEF CallTypes
  <2> QED BY <1>1, <1>2, <1>5, <2>1 DEF CallTypes
<1> QED BY <1>3, <1>4, <1>5 DEF Reads

LEMMA CallTypesStep ==
  ASSUME CallInv, Next
  PROVE  CallTypes'
<1>1. CallTypes /\ loop \in {"off", "on", "stopped"}
  BY TypesOfCalls
<1>2. CASE Idles
  BY <1>1, <1>2 DEF Idles, CallTypes
<1>3. ASSUME NEW k \in Calls, Begins(k)
      PROVE  CallTypes'
  <2>1. ctl' \in [Calls -> Controller]
    BY <1>1, <1>3, ErrorSet DEF Begins, CallTypes
  <2>2. /\ m_timer_event' \in Calls \cup {None}
        /\ timer' \in [Calls -> TimerStates]
    BY <1>1, <1>3 DEF Begins, CallTypes, TimerStates
  <2> QED BY <1>1, <1>3, <2>1, <2>2 DEF Begins, CallTypes
<1>4. ASSUME NEW k \in Calls, Fails(k)
      PROVE  CallTypes'
  BY <1>1, <1>4, ErrorSet DEF Fails, CallTypes
<1>5. ASSUME NEW k \in Calls, Reads(k)
      PROVE  CallTypes'
  <2>1. UNCHANGED <<called, m_timer_event>>
    BY <1>5 DEF Reads
  <2> QED BY <1>1, <1>5, <2>1, ReadSet DEF CallTypes
<1>6. ASSUME NEW k \in Calls, RunsOut(k)
      PROVE  CallTypes'
  BY <1>1, <1>6 DEF RunsOut, CallTypes, TimerStates
<1>7. ASSUME NEW k \in Calls, TimesOut(k)
      PROVE  CallTypes'
  <2>1. "TIMEOUT" \in Codes
    BY DEF Codes
  <2>2. runs' \in [Calls -> 0..2] /\ told' \in [Calls -> Codes]
    BY <1>1, <1>7, <2>1, ClosureRuns DEF TimesOut, CallTypes
  <2>3. timer' \in [Calls -> TimerStates]
    BY <1>1, <1>7 DEF TimesOut, CallTypes, TimerStates
  <2> QED BY <1>1, <1>7, <2>2, <2>3, TimeoutSet DEF TimesOut, CallTypes
<1> QED BY <1>2, <1>3, <1>4, <1>5, <1>6, <1>7, CallSteps

-----------------------------------------------------------------------------
(* The timers and what the closures are told.                              *)

LEMMA CallTimerStep ==
  ASSUME CallInv, Next
  PROVE  CallTimerInv'
<1>1. CallTypes /\ loop \in {"off", "on", "stopped"} /\ CallTimerInv
  BY TypesOfCalls DEF CallInv
<1>2. CASE Idles
  BY <1>1, <1>2 DEF Idles, CallTimerInv
<1>3. ASSUME NEW k \in Calls, Begins(k)
      PROVE  CallTimerInv'
  <2>1. /\ called' = called \cup {k} /\ UNCHANGED <<runs, spent>>
        /\ timer[k] = "none" /\ runs[k] = 0
    BY <1>1, <1>3 DEF Begins, CallTimerInv
  <2> QED BY <1>1, <1>3, <2>1, BeginSet DEF CallTimerInv
<1>4. ASSUME NEW k \in Calls, Fails(k)
      PROVE  CallTimerInv'
  <2>1. /\ ctl'[k].canceled = ctl[k].canceled
        /\ \A j \in Calls \ {k} : ctl'[j] = ctl[j]
    BY <1>1, <1>4, ErrorSet DEF Fails, CallTypes
  <2> QED BY <1>1, <1>4, <2>1 DEF Fails, CallTimerInv, Accepted
<1>5. ASSUME NEW k \in Calls, Reads(k)
      PROVE  CallTimerInv'
  <2>1. k \in called /\ timer[k] # "none" /\ UNCHANGED called
    BY <1>5 DEF Reads, Accepted
  <2>2. \A j \in Calls : /\ timer'[j] = "fired" <=> timer[j] = "fired"
                         /\ timer'[j] = "none" <=> timer[j] = "none"
    BY <1>1, <1>5, ReadSet DEF Waits
  <2>3. \A j \in Calls : ctl'[j].canceled = ctl[j].canceled
    BY <1>1, <1>5, ReadSet
  <2>4. /\ spent \subseteq spent'
        /\ \A j \in Calls \ {k} : ctl'[j] = ctl[j] /\ runs'[j] = runs[j]
        /\ runs'[k] = runs[k] \/ k \in spent'
    BY <1>1, <1>5, ReadSet
  <2>5. \A j \in Calls : runs'[j] = runs[j] \/ (j = k /\ k \in spent')
    BY <2>4
  <2> QED BY <1>1, <2>1, <2>2, <2>3, <2>4, <2>5 DEF CallTimerInv
<1>6. ASSUME NEW k \in Calls, RunsOut(k)
      PROVE  CallTimerInv'
  <2>1. \A j \in Calls : timer'[j] = timer[j] \/ (j = k /\ timer'[j] = "expired")
    BY <1>1, <1>6 DEF RunsOut, CallTypes
  <2>2. k \in called
    BY <1>1, <1>6 DEF RunsOut, CallTimerInv
  <2> QED BY <1>1, <1>6, <2>1, <2>2 DEF RunsOut, CallTimerInv
<1>7. ASSUME NEW k \in Calls, TimesOut(k)
      PROVE  CallTimerInv'
  <2>1. \A j \in Calls \ {k} : runs'[j] = runs[j]
    <3>1. "TIMEOUT" \in Codes
      BY DEF Codes
    <3> QED BY <1>1, <1>7, <3>1, ClosureRuns DEF TimesOut, CallTypes
  <2>2. UNCHANGED <<called, spent>> /\ timer[k] = "expired" /\ k \in called
    BY <1>1, <1>7 DEF TimesOut, CallTimerInv
  <2> QED BY <1>1, <1>7, <2>1, <2>2, TimeoutSet DEF CallTimerInv
<1> QED BY <1>2, <1>3, <1>4, <1>5, <1>6, <1>7, CallSteps

LEMMA HistoryGrows ==
  ASSUME CallInv, Next
  PROVE  served \subseteq served' /\ (repeated => repeated')
<1>1. CASE \/ InitChannel \/ Report \/ OnWriteClosed \/ OnRead \/ OnReadEof
           \/ OnTimerReturns \/ ServerCloses
  BY <1>1
  DEF InitChannel, Report, OnWriteClosed, OnRead, OnReadEof, OnTimerReturns,
      ServerCloses
<1>2. CASE OnWrite
  BY <1>2 DEF OnWrite
<1>3. ASSUME NEW k \in Calls, \/ Start(k) \/ Expire(k) \/ OnConnected(k)
                              \/ OnRefused(k) \/ OnTimeout(k)
      PROVE  served \subseteq served' /\ (repeated => repeated')
  <2>1. UNCHANGED netVars
    <3>1. CASE CallNotInit(k) \/ CallSerializeFails(k)
      BY <3>1 DEF CallNotInit, CallSerializeFails
    <3>2. CASE CallConnectsNow(k) \/ CallConnectInProgress(k) \/ CallConnectFails(k)
      BY <3>2
      DEF CallConnectsNow, CallConnectInProgress, CallConnectFails, Accept
    <3>3. CASE Expire(k) \/ OnTimeout(k)
      BY <3>3 DEF Expire, OnTimeout
    <3>4. CASE OnConnected(k) \/ OnRefused(k)
      BY <3>4 DEF OnConnected, OnRefused
    <3> QED BY <1>3, <3>1, <3>2, <3>3, <3>4 DEF Start
  <2> QED BY <2>1
<1>4. ASSUME NEW a \in Answers, ServerAnswers(a) \/ ServerRepeats(a)
      PROVE  served \subseteq served' /\ (repeated => repeated')
  BY <1>4 DEF ServerAnswers, ServerRepeats, ServerSends
<1> QED BY <1>1, <1>2, <1>3, <1>4, Zenon DEF Next, Handler

LEMMA TruthStep ==
  ASSUME CallInv, Next
  PROVE  ClosureToldTruth'
<1>1. /\ CallTypes /\ loop \in {"off", "on", "stopped"} /\ CallTimerInv
      /\ ClosureToldTruth /\ served \subseteq served' /\ (repeated => repeated')
  BY TypesOfCalls, HistoryGrows DEF CallInv
<1> DEFINE True(k) == \/ told[k] = "0" /\ k \in served /\ timer[k] # "fired"
                      \/ told[k] = "TIMEOUT" /\ timer[k] = "fired"
                      \/ repeated /\ told[k] \in {"SERVER", "SERIALIZE"}
<1>2. ASSUME NEW k \in Calls, runs[k] > 0, UNCHANGED told,
             timer'[k] = "fired" <=> timer[k] = "fired"
      PROVE  True(k)'
  BY <1>1, <1>2 DEF ClosureToldTruth
<1>3. CASE Idles
  BY <1>1, <1>3 DEF Idles, ClosureToldTruth
<1>4. ASSUME NEW k \in Calls, Begins(k)
      PROVE  ClosureToldTruth'
  <2>1. runs[k] = 0 /\ UNCHANGED <<runs, told>>
    BY <1>1, <1>4 DEF Begins, CallTimerInv
  <2> QED BY <1>1, <1>4, <2>1, BeginSet DEF ClosureToldTruth
<1>5. ASSUME NEW k \in Calls, Fails(k)
      PROVE  ClosureToldTruth'
  BY <1>1, <1>5 DEF Fails, ClosureToldTruth
<1>6. ASSUME NEW k \in Calls, Reads(k)
      PROVE  ClosureToldTruth'
  <2>1. \A j \in Calls : timer'[j] = "fired" <=> timer[j] = "fired"
    BY <1>1, <1>6, ReadSet DEF Waits
  <2>2. \A j \in Calls \ {k} : runs'[j] = runs[j] /\ told'[j] = told[j]
    BY <1>1, <1>6, ReadSet
  <2>3. runs'[k] > 0 => True(k)'
    <3>1. CASE runs'[k] = runs[k] /\ told'[k] = told[k]
      BY <1>1, <2>1, <3>1 DEF ClosureToldTruth
    <3>2. CASE /\ ~ctl[k].canceled /\ k \in served /\ (repeated \/ Clean(k))
               /\ told'[k] = ctl[k].code
      <4>1. timer'[k] # "fired" /\ k \in served'
        BY <1>1, <2>1, <3>2 DEF CallTimerInv
      <4>2. CASE Clean(k)
        BY <3>2, <4>1, <4>2 DEF Clean
      <4>3. CASE ~Clean(k)
        <5>1. ctl[k].code \in {"SERVER", "SERIALIZE"}
          BY <1>6, <4>3 DEF Reads, Answerable
        <5> QED BY <1>1, <3>2, <4>3, <5>1
      <4> QED BY <4>2, <4>3
    <3> QED BY <1>1, <1>6, <3>1, <3>2, ReadSet
  <2> QED BY <1>1, <2>1, <2>2, <2>3 DEF ClosureToldTruth
<1>7. ASSUME NEW k \in Calls, RunsOut(k)
      PROVE  ClosureToldTruth'
  <2>1. \A j \in Calls : timer'[j] = "fired" <=> timer[j] = "fired"
    BY <1>1, <1>7 DEF RunsOut, CallTypes
  <2> QED BY <1>1, <1>7, <2>1 DEF RunsOut, ClosureToldTruth
<1>8. ASSUME NEW k \in Calls, TimesOut(k)
      PROVE  ClosureToldTruth'
  <2>1. "TIMEOUT" \in Codes
    BY DEF Codes
  <2>2. /\ told'[k] = "TIMEOUT"
        /\ \A j \in Calls \ {k} : runs'[j] = runs[j] /\ told'[j] = told[j]
    BY <1>1, <1>8, <2>1, ClosureRuns DEF TimesOut, CallTypes
  <2> QED BY <1>1, <1>8, <2>2, TimeoutSet DEF ClosureToldTruth
<1> QED BY <1>3, <1>4, <1>5, <1>6, <1>7, <1>8, CallSteps

-----------------------------------------------------------------------------
(* The batch.                                                              *)

OneOut(s) == \A i, j \in 1..Len(s) :
               s[i] \in OutHandlers /\ s[j] \in OutHandlers => i = j
NoOut(s) == Elems(s) \cap OutHandlers = {}

LEMMA ConcatOutFirst ==
  ASSUME NEW S, NEW s \in Seq(S), NEW t \in Seq(S), OneOut(s), NoOut(t)
  PROVE  OneOut(s \o t)
<1>1. /\ Len(s \o t) = Len(s) + Len(t) /\ Len(s) \in Nat /\ Len(t) \in Nat
      /\ \A i \in 1..Len(s) : (s \o t)[i] = s[i]
      /\ \A i \in 1..Len(t) : (s \o t)[Len(s) + i] = t[i]
  BY ConcatIs
<1>2. \A i \in 1..Len(t) : t[i] \notin OutHandlers
  BY DEF NoOut, Elems
<1>3. ASSUME NEW i \in 1..Len(s \o t), (s \o t)[i] \in OutHandlers
      PROVE  i \in 1..Len(s) /\ (s \o t)[i] = s[i]
  <2>1. CASE i \in 1..Len(s)
    BY <1>1, <2>1
  <2>2. CASE i \notin 1..Len(s)
    <3>1. i - Len(s) \in 1..Len(t) /\ i = Len(s) + (i - Len(s))
      BY <1>1, <2>2
    <3> QED BY <1>1, <1>2, <1>3, <3>1
  <2> QED BY <2>1, <2>2
<1> QED BY <1>3 DEF OneOut

LEMMA ConcatOutLast ==
  ASSUME NEW S, NEW s \in Seq(S), NEW t \in Seq(S), NoOut(s), OneOut(t)
  PROVE  OneOut(s \o t)
<1>1. /\ Len(s \o t) = Len(s) + Len(t) /\ Len(s) \in Nat /\ Len(t) \in Nat
      /\ \A i \in 1..Len(s) : (s \o t)[i] = s[i]
      /\ \A i \in 1..Len(t) : (s \o t)[Len(s) + i] = t[i]
  BY ConcatIs
<1>2. \A i \in 1..Len(s) : s[i] \notin OutHandlers
  BY DEF NoOut, Elems
<1>3. ASSUME NEW i \in 1..Len(s \o t), (s \o t)[i] \in OutHandlers
      PROVE  i - Len(s) \in 1..Len(t) /\ t[i - Len(s)] \in OutHandlers
  <2>1. i \notin 1..Len(s)
    BY <1>1, <1>2, <1>3
  <2>2. i - Len(s) \in 1..Len(t) /\ i = Len(s) + (i - Len(s))
    BY <1>1, <2>1
  <2> QED BY <1>1, <1>3, <2>2
<1>4. ASSUME NEW i \in 1..Len(s \o t), NEW j \in 1..Len(s \o t),
             (s \o t)[i] \in OutHandlers, (s \o t)[j] \in OutHandlers
      PROVE  i = j
  <2>1. i - Len(s) = j - Len(s)
    BY <1>3, <1>4 DEF OneOut
  <2> QED BY <1>1, <2>1
<1> QED BY <1>4 DEF OneOut

LEMMA ConcatNoOut ==
  ASSUME NEW S, NEW s \in Seq(S), NEW t \in Seq(S), NoOut(s), NoOut(t)
  PROVE  NoOut(s \o t)
BY ConcatElems DEF NoOut

LEMMA OneHandler ==
  ASSUME NEW S, NEW x \in S
  PROVE  <<x>> \in Seq(S) /\ << >> \in Seq(S) /\ Elems(<<x>>) = {x} /\ OneOut(<<x>>)
BY DEF Elems, OneOut

(* What an event that may have come about adds.                            *)
LEMMA Added ==
  ASSUME NEW S, NEW event, NEW h, event => h \in S, NEW x, x \in MayAdd(event, h)
  PROVE  /\ x \in Seq(S) /\ OneOut(x)
         /\ \A g \in Elems(x) : event /\ g = h
<1>1. CASE x = << >>
  <2>1. << >> \in Seq(S) /\ OneOut(<< >>)
    BY DEF OneOut
  <2> QED BY <1>1, <2>1, EmptyElems
<1>2. CASE event /\ x = <<h>>
  BY <1>2, OneHandler
<1> QED BY <1>1, <1>2 DEF MayAdd

(* A new batch holds the handler that the OUT event has now, or none.      *)
LEMMA ReportBatch ==
  ASSUME CallInv, Report
  PROVE  /\ batch' \in Seq(Handlers \cup Calls) /\ OneOut(batch')
         /\ \A h \in Elems(batch') \cap OutHandlers : outOn /\ outHandler = h
<1> DEFINE S == Handlers \cup Calls
<1>1. PICK due \in {<< >>, <<"on_timer">>},
           reads \in MayAdd(inOn /\ (answers # << >> \/ ~peerOpen), "on_read"),
           writes \in MayAdd(outOn, outHandler) :
        batch' = (due \o reads) \o writes \/ batch' = (reads \o writes) \o due
  BY DEF Report
<1>2. /\ "on_timer" \in S /\ "on_read" \in S /\ (outOn => outHandler \in S)
      /\ "on_timer" \notin OutHandlers /\ "on_read" \notin OutHandlers
  BY NoneAssumption DEF OutHandlers, Handlers, CallInv, BatchInv
<1> HIDE DEF S
<1>3. due \in Seq(S) /\ NoOut(due)
  <2>1. << >> \in Seq(S) /\ <<"on_timer">> \in Seq(S)
    BY <1>2, OneHandler
  <2>2. Elems(<<"on_timer">>) = {"on_timer"} /\ Elems(<< >>) = {}
    BY <1>2, OneHandler, EmptyElems
  <2> QED BY <1>1, <1>2, <2>1, <2>2 DEF NoOut
<1>4. reads \in Seq(S) /\ NoOut(reads)
  <2>1. reads \in Seq(S) /\ \A g \in Elems(reads) : g = "on_read"
    BY <1>2, Added, Zenon
  <2> QED BY <1>2, <2>1 DEF NoOut
<1>5. /\ writes \in Seq(S) /\ OneOut(writes)
      /\ \A g \in Elems(writes) : outOn /\ g = outHandler
  BY <1>2, Added, Zenon
<1>6. reads \o writes \in Seq(S) /\ Elems(reads \o writes) = Elems(reads) \cup Elems(writes)
  BY <1>4, <1>5, ConcatElems
<1>7. OneOut(reads \o writes)
  BY <1>4, <1>5, ConcatOutLast
<1>8. CASE batch' = (reads \o writes) \o due
  <2> DEFINE u == reads \o writes
  <2>1. u \in Seq(S) /\ OneOut(u) /\ Elems(u) = Elems(reads) \cup Elems(writes)
        /\ batch' = u \o due
    BY <1>6, <1>7, <1>8
  <2> HIDE DEF u
  <2>2. batch' \in Seq(S) /\ Elems(batch') = Elems(u) \cup Elems(due)
    BY <1>3, <2>1, ConcatElems
  <2>3. OneOut(batch')
    BY <1>3, <2>1, ConcatOutFirst
  <2> QED BY <1>3, <1>4, <1>5, <2>1, <2>2, <2>3 DEF NoOut, S
<1>9. CASE batch' = (due \o reads) \o writes
  <2> DEFINE u == due \o reads
  <2>1. u \in Seq(S) /\ Elems(u) = Elems(due) \cup Elems(reads)
        /\ batch' = u \o writes
    BY <1>3, <1>4, <1>9, ConcatElems
  <2>2. NoOut(u)
    BY <1>3, <1>4, ConcatNoOut
  <2> HIDE DEF u
  <2>3. batch' \in Seq(S) /\ Elems(batch') = Elems(u) \cup Elems(writes)
    BY <1>5, <2>1, ConcatElems
  <2>4. OneOut(batch')
    BY <1>5, <2>1, <2>2, ConcatOutLast
  <2> QED BY <1>3, <1>4, <1>5, <2>1, <2>3, <2>4 DEF NoOut, S
<1> QED BY <1>1, <1>8, <1>9

LEMMA BatchStep ==
  ASSUME CallInv, Next
  PROVE  BatchInv' /\ batch' \in Seq(Handlers \cup Calls)
<1>1. BatchInv /\ batch \in Seq(Handlers \cup Calls) /\ OneOut(batch)
  BY DEF CallInv, TypeOK, BatchInv, OneOut
<1>2. CASE /\ UNCHANGED batch \/ \E h \in Handlers \cup Calls : Run(h)
           /\ \/ UNCHANGED <<outHandler, sock>>
              \/ outHandler' \in {outHandler, "on_write"} /\ sock' = "connected"
           /\ outOn' => outOn \/ outHandler' = "on_write"
  <2>1. /\ batch' \in Seq(Handlers \cup Calls) /\ Elems(batch') \subseteq Elems(batch)
        /\ OneOut(batch')
    <3>1. CASE UNCHANGED batch
      BY <1>1, <3>1
    <3>2. CASE \E h \in Handlers \cup Calls : Run(h)
      <4>1. PICK h \in Handlers \cup Calls : Run(h)
        BY <3>2
      <4>2. /\ batch' \in Seq(Handlers \cup Calls)
            /\ Elems(batch') \subseteq Elems(batch)
            /\ \A i, j \in 1..Len(batch') :
                 batch'[i] \in OutHandlers /\ batch'[j] \in OutHandlers => i = j
        BY <1>1, <4>1, BatchRuns
      <4> QED BY <4>2 DEF OneOut
    <3> QED BY <1>2, <3>1, <3>2
  <2>2. /\ outHandler' = "on_write" => sock' = "connected"
        /\ "on_write" \in Elems(batch') => outHandler' = "on_write"
        /\ outOn' => outHandler' \in OutHandlers
    <3>1. "on_write" \in OutHandlers
      BY DEF OutHandlers
    <3>2. CASE UNCHANGED <<outHandler, sock>>
      BY <1>1, <1>2, <2>1, <3>1, <3>2 DEF BatchInv
    <3>3. CASE outHandler' \in {outHandler, "on_write"} /\ sock' = "connected"
      BY <1>1, <1>2, <2>1, <3>1, <3>3 DEF BatchInv
    <3> QED BY <1>2, <3>2, <3>3
  <2> QED BY <2>1, <2>2 DEF BatchInv, OneOut
<1>3. CASE Report
  <2>1. /\ batch' \in Seq(Handlers \cup Calls) /\ OneOut(batch')
        /\ UNCHANGED <<outHandler, sock, outOn>>
        /\ "on_write" \in Elems(batch') => outHandler = "on_write"
    BY <1>3, ReportBatch DEF Report, OutHandlers
  <2> QED BY <1>1, <2>1 DEF BatchInv, OneOut
<1>4. ASSUME NEW k \in Calls, CallConnectInProgress(k)
      PROVE  BatchInv' /\ batch' \in Seq(Handlers \cup Calls)
  <2>1. /\ outHandler' = k /\ UNCHANGED batch /\ sock # "connected"
        /\ k # "on_write" /\ k \in OutHandlers
    BY <1>4, NoneAssumption
    DEF CallConnectInProgress, Accept, OutHandlers, Handlers
  <2> QED BY <1>1, <2>1 DEF BatchInv
<1>5. CASE \/ InitChannel \/ OnWrite \/ OnWriteClosed \/ OnRead \/ OnReadEof
           \/ OnTimerReturns \/ ServerCloses
  <2>1. UNCHANGED batch \/ \E h \in Handlers : Run(h)
    BY <1>5
    DEF InitChannel, OnWrite, OnWriteClosed, OnRead, OnReadEof, OnTimerReturns,
        ServerCloses, Handlers
  <2>2. UNCHANGED <<outHandler, sock>> /\ (outOn' => outOn)
    BY <1>5
    DEF InitChannel, OnWrite, OnWriteClosed, OnRead, OnReadEof, OnTimerReturns,
        ServerCloses
  <2> QED BY <1>2, <2>1, <2>2
<1>6. ASSUME NEW a \in Answers, ServerAnswers(a) \/ ServerRepeats(a)
      PROVE  UNCHANGED <<batch, outHandler, sock, outOn>>
  BY <1>6 DEF ServerAnswers, ServerRepeats, ServerSends
<1>7. ASSUME NEW k \in Calls, \/ CallNotInit(k) \/ CallSerializeFails(k)
                              \/ Expire(k) \/ OnTimeout(k)
      PROVE  UNCHANGED <<batch, outHandler, sock, outOn>>
  BY <1>7 DEF CallNotInit, CallSerializeFails, Expire, OnTimeout
<1>8. ASSUME NEW k \in Calls, CallConnectsNow(k)
      PROVE  BatchInv' /\ batch' \in Seq(Handlers \cup Calls)
  <2>1. /\ UNCHANGED batch /\ sock' = "connected"
        /\ outHandler' \in {outHandler, "on_write"}
        /\ outOn' => outOn \/ outHandler' = "on_write"
    BY <1>8 DEF CallConnectsNow, Accept, ThenListenWrite
  <2> QED BY <1>2, <2>1
<1>9. ASSUME NEW k \in Calls, CallConnectFails(k)
      PROVE  BatchInv' /\ batch' \in Seq(Handlers \cup Calls)
  <2>1. /\ UNCHANGED <<batch, outHandler, outOn>>
        /\ sock = "connected" => sock' = "connected"
    BY <1>9 DEF CallConnectFails, Accept
  <2> QED BY <1>1, <2>1 DEF BatchInv
<1>10. ASSUME NEW k \in Calls, OnConnected(k)
       PROVE  BatchInv' /\ batch' \in Seq(Handlers \cup Calls)
  <2>1. /\ Run(k) /\ sock' = "connected"
        /\ outHandler' \in {outHandler, "on_write"}
        /\ outOn' => outHandler' = "on_write"
    BY <1>10 DEF OnConnected, ThenListenWrite
  <2> QED BY <1>2, <2>1
<1>11. ASSUME NEW k \in Calls, OnRefused(k)
       PROVE  BatchInv' /\ batch' \in Seq(Handlers \cup Calls)
  <2>1. /\ Run(k) /\ UNCHANGED outHandler /\ ~outOn' /\ sock # "connected"
    BY <1>11 DEF OnRefused
  <2>2. /\ batch' \in Seq(Handlers \cup Calls) /\ Elems(batch') \subseteq Elems(batch)
        /\ OneOut(batch')
    BY <1>1, <2>1, BatchRuns DEF OneOut
  <2> QED BY <1>1, <2>1, <2>2 DEF BatchInv, OneOut
<1>12. CASE UNCHANGED <<batch, outHandler, sock, outOn>>
  BY <1>2, <1>12
<1>13. ASSUME NEW k \in Calls, Start(k)
       PROVE  BatchInv' /\ batch' \in Seq(Handlers \cup Calls)
  BY <1>4, <1>7, <1>8, <1>9, <1>12, <1>13, Zenon DEF Start
<1>14. ASSUME Handler
       PROVE  BatchInv' /\ batch' \in Seq(Handlers \cup Calls)
  BY <1>5, <1>7, <1>10, <1>11, <1>12, <1>14, Zenon DEF Handler
<1> QED
  BY <1>3, <1>5, <1>6, <1>7, <1>12, <1>13, <1>14, Zenon DEF Next

-----------------------------------------------------------------------------
(* The way of the calls over the connection.                               *)

(* A step that does not read an answer of k leaves what was accepted       *)
(* accepted, and its controller as it is unless the call times out.        *)
Kept(k) ==
  /\ Accepted(k) => Accepted(k)'
  /\ ctl'[k] = ctl[k] \/ ctl'[k].canceled

LEMMA OthersKept ==
  ASSUME CallInv, NEW k \in Calls
  PROVE  /\ Begins(k) \/ Fails(k) => \A j \in Calls \ {k} : Kept(j)
         /\ RunsOut(k) \/ TimesOut(k) => \A j \in Calls : Kept(j)
         /\ Idles => \A j \in Calls : Kept(j)
<1>1. CallTypes
  BY TypesOfCalls
<1>2. ASSUME Begins(k), NEW j \in Calls \ {k}
      PROVE  Kept(j)
  <2>1. ctl'[j] = ctl[j] /\ timer'[j] = timer[j]
    BY <1>1, <1>2, BeginSet
  <2> QED BY <1>2, <2>1 DEF Begins, Kept, Accepted
<1>3. ASSUME Fails(k), NEW j \in Calls \ {k}
      PROVE  Kept(j)
  <2>1. ctl'[j] = ctl[j]
    BY <1>1, <1>3, ErrorSet DEF Fails, CallTypes
  <2> QED BY <1>3, <2>1 DEF Fails, Kept, Accepted
<1>4. ASSUME RunsOut(k), NEW j \in Calls
      PROVE  Kept(j)
  <2>1. timer'[j] = timer[j] \/ timer'[j] = "expired"
    BY <1>1, <1>4 DEF RunsOut, CallTypes
  <2> QED BY <1>4, <2>1 DEF RunsOut, Kept, Accepted
<1>5. ASSUME TimesOut(k), NEW j \in Calls
      PROVE  Kept(j)
  <2>1. /\ ctl'[k].canceled /\ timer'[k] = "fired"
        /\ \A i \in Calls \ {k} : ctl'[i] = ctl[i] /\ timer'[i] = timer[i]
    BY <1>1, <1>5, TimeoutSet
  <2>2. UNCHANGED called
    BY <1>5 DEF TimesOut
  <2> QED BY <2>1, <2>2 DEF Kept, Accepted
<1>6. ASSUME Idles, NEW j \in Calls
      PROVE  Kept(j)
  BY <1>6 DEF Idles, Kept, Accepted
<1> QED BY <1>2, <1>3, <1>4, <1>5, <1>6

(* The step does not move a message.                                       *)
Still == UNCHANGED <<m_write_dones, m_out_buffer, requests, answers, answered,
                     served, spent, repeated>>

(* A step that moves no message, keeps the calls that were written and     *)
(* lets no other handler of the OUT event run but that of a new call.      *)
LEMMA WireKept ==
  ASSUME CallInv, Still,
         \A k \in Calls : CanRun(k)' =>
            \/ CanRun(k) /\ Kept(k)
            \/ Accepted(k)' /\ Clean(k)' /\ k \notin Written,
         \A k \in Written : Kept(k),
         Sent => outHandler' = "on_write" /\ \A h \in OutHandlers : ~CanRun(h)'
  PROVE  WireInv' /\ SentOnce'
<1>1. /\ Written' = Written /\ Elems(requests)' = Elems(requests)
      /\ Ids(answers)' = Ids(answers)
      /\ UNCHANGED <<m_write_dones, m_out_buffer, requests, answers, answered,
                     served, spent, repeated>>
  BY DEF Still, Written, Elems, Ids
<1>2. WireInv /\ SentOnce
  BY DEF CallInv
<1>3. ASSUME NEW k, Kept(k), Clean(k)
      PROVE  Clean(k)'
  BY <1>3 DEF Kept, Clean
<1>4. ASSUME NEW k, Kept(k), Answerable(k)
      PROVE  Answerable(k)'
  BY <1>4 DEF Kept, Clean, Answerable
<1>5. \A k \in Written : Accepted(k)' /\ Answerable(k)'
  BY <1>2, <1>4 DEF WireInv, Kept
<1>6. \A k \in Calls : CanRun(k)' => Accepted(k)' /\ Clean(k)' /\ k \notin Written
  BY <1>2, <1>3 DEF WireInv, Kept
<1>7. WireInv'
  BY <1>1, <1>2, <1>5, <1>6 DEF WireInv
<1>8. CASE repeated
  BY <1>1, <1>7, <1>8 DEF SentOnce
<1>9. CASE Unsent
  <2>1. \A k \in Written : Clean(k)'
    BY <1>3, <1>9 DEF Unsent
  <2> QED BY <1>1, <1>7, <1>9, <2>1 DEF Unsent, SentOnce, Distinct
<1>10. CASE Sent
  <2>1. \A k \in Elems(requests) \cup Ids(answers) : Clean(k)' /\ k \notin spent
    <3>1. Elems(requests) \cup Ids(answers) \subseteq Written
      BY <1>2 DEF WireInv
    <3> QED BY <1>3, <1>10, <3>1 DEF Sent
  <2>2. outHandler' = "on_write" /\ \A h \in OutHandlers : ~CanRun(h)'
    BY <1>10
  <2> QED BY <1>1, <1>7, <1>10, <2>1, <2>2 DEF Sent, SentOnce, Distinct
<1> QED BY <1>2, <1>7, <1>8, <1>9, <1>10 DEF SentOnce

(* What may run after a step that leaves the OUT event alone: what could   *)
(* run before, and a handler that was run is no longer in the batch.       *)
LEMMA StillRuns ==
  ASSUME CallInv, NEW h, CanRun(h)',
         UNCHANGED batch \/ \E g : Run(g),
         outOn' => outOn /\ UNCHANGED outHandler
  PROVE  CanRun(h)
<1>1. Elems(batch') \subseteq Elems(batch)
  BY BatchRuns DEF CallInv, TypeOK
<1> QED BY <1>1 DEF CanRun

(* A new batch holds what the OUT event runs, if the loop listens for it.  *)
LEMMA ReportRuns ==
  ASSUME CallInv, Report, NEW h \in OutHandlers, CanRun(h)'
  PROVE  CanRun(h)
<1>1. \A g \in Elems(batch') \cap OutHandlers : outOn /\ outHandler = g
  BY ReportBatch
<1>2. UNCHANGED <<outOn, outHandler>>
  BY DEF Report
<1> QED BY <1>1, <1>2 DEF CanRun

(* Steps that keep the handlers of the OUT event and move no message.      *)
LEMMA WireIdle ==
  ASSUME CallInv, Next, Still, UNCHANGED outHandler,
         Idles \/ \E k \in Calls : RunsOut(k) \/ TimesOut(k),
         \/ Report
         \/ (UNCHANGED batch \/ \E g : Run(g)) /\ (outOn' => outOn)
  PROVE  WireInv' /\ SentOnce'
<1>1. \A j \in Calls : Kept(j)
  BY OthersKept, Zenon DEF CallInv, TypeOK
<1>2. ASSUME NEW h \in OutHandlers, CanRun(h)'
      PROVE  CanRun(h)
  BY <1>2, StillRuns, ReportRuns
<1>3. Calls \subseteq OutHandlers /\ Written \subseteq Calls
  BY DEF OutHandlers, Written, Elems, CallInv, TypeOK
<1>4. Sent => outHandler' = "on_write" /\ \A h \in OutHandlers : ~CanRun(h)'
  BY <1>2 DEF Sent
<1>5. \A k \in Calls : CanRun(k)' => CanRun(k) /\ Kept(k)
  BY <1>1, <1>2, <1>3
<1>6. \A k \in Written : Kept(k)
  BY <1>1, <1>3
<1> QED BY <1>4, <1>5, <1>6, WireKept

(* A call that begins is not written, and nobody can run its lambda.       *)
LEMMA NewCall ==
  ASSUME CallInv, NEW k \in Calls, k \notin called
  PROVE  k \notin Written /\ ~CanRun(k)
BY DEF CallInv, WireInv, Accepted

LEMMA WrittenTypes ==
  ASSUME CallInv
  PROVE  Written \subseteq Calls /\ Calls \subseteq OutHandlers /\ "on_write" \in OutHandlers
<1>1. m_write_dones \in Seq(Calls) /\ m_out_buffer \in Seq(Calls)
  BY DEF CallInv, TypeOK
<1> QED BY <1>1 DEF Written, Elems, OutHandlers

(* CallMethod that fails, or that waits for its connect.                   *)
LEMMA WireStarts ==
  ASSUME CallInv, NEW k \in Calls,
         \/ CallNotInit(k) \/ CallSerializeFails(k)
         \/ CallConnectInProgress(k) \/ CallConnectFails(k)
  PROVE  WireInv' /\ SentOnce'
<1>1. Begins(k)
  <2>1. CASE CallNotInit(k) \/ CallSerializeFails(k)
    BY <2>1 DEF CallNotInit, CallSerializeFails, Begin, Begins, Codes
  <2>2. CASE CallConnectInProgress(k)
    BY <2>2 DEF CallConnectInProgress, Accept, Begin, Begins
  <2>3. CASE CallConnectFails(k)
    <3>1. SetError(k, "CONNECT") /\ "CONNECT" \in Codes
      BY <2>3 DEF CallConnectFails, ConnectDone, Codes
    <3> QED BY <2>3, <3>1 DEF CallConnectFails, Accept, Begin, Begins
  <2> QED BY <2>1, <2>2, <2>3
<1>2. /\ \A j \in Calls \ {k} : Kept(j)
      /\ k \notin Written /\ ~CanRun(k)
  BY <1>1, OthersKept, NewCall DEF Begins
<1>3. Still /\ UNCHANGED batch
  <2>1. CASE CallNotInit(k) \/ CallSerializeFails(k)
    BY <2>1 DEF CallNotInit, CallSerializeFails, Still
  <2>2. CASE CallConnectInProgress(k)
    BY <2>2 DEF CallConnectInProgress, Accept, Still
  <2>3. CASE CallConnectFails(k)
    BY <2>3 DEF CallConnectFails, ConnectDone, Accept, Still
  <2> QED BY <2>1, <2>2, <2>3
<1>4. \A j \in Written : Kept(j)
  BY <1>2, WrittenTypes
<1>5. CASE ~CallConnectInProgress(k)
  <2>1. UNCHANGED <<outHandler, outOn>>
    BY <1>5
    DEF CallNotInit, CallSerializeFails, CallConnectFails
  <2>2. \A h : CanRun(h)' => CanRun(h)
    BY <1>3, <2>1 DEF CanRun
  <2>3. \A j \in Calls : CanRun(j)' => CanRun(j) /\ Kept(j)
    BY <1>2, <2>2
  <2>4. Sent => outHandler' = "on_write" /\ \A h \in OutHandlers : ~CanRun(h)'
    BY <2>1, <2>2 DEF Sent
  <2> QED BY <1>3, <1>4, <2>3, <2>4, WireKept
<1>6. CASE CallConnectInProgress(k)
  <2>1. outHandler' = k /\ sock # "connected" /\ UNCHANGED ctl
        /\ timer' = [timer EXCEPT ![k] = "pending"] /\ called' = called \cup {k}
    BY <1>6 DEF CallConnectInProgress, Accept, Begin
  <2>2. Accepted(k)' /\ Clean(k)'
    <3>1. timer \in [Calls -> TimerStates] /\ CallTimerInv /\ k \notin called
      BY <1>6, TypesOfCalls
      DEF CallConnectInProgress, Accept, Begin, CallTypes, CallInv
    <3>2. timer'[k] = "pending" /\ k \in called'
      BY <2>1, <3>1
    <3> QED BY <2>1, <3>1, <3>2 DEF Accepted, Clean, CallTimerInv
  <2>3. \A j \in Calls \ {k} : CanRun(j)' => CanRun(j)
    BY <1>3, <2>1 DEF CanRun
  <2>4. ~Sent
    BY <2>1 DEF Sent, CallInv, BatchInv
  <2>5. \A j \in Calls : CanRun(j)' =>
            \/ CanRun(j) /\ Kept(j)
            \/ Accepted(j)' /\ Clean(j)' /\ j \notin Written
    BY <1>2, <2>2, <2>3
  <2> QED BY <1>3, <1>4, <2>4, <2>5, WireKept
<1> QED BY <1>5, <1>6

(* The connect of k is over, with a failure, and its lambda is done.       *)
LEMMA WireFails ==
  ASSUME CallInv, NEW k \in Calls, Run(k), Still, ~outOn',
         Fails(k)
  PROVE  WireInv' /\ SentOnce'
<1>1. k \in Elems(batch) /\ Elems(batch') \cap OutHandlers = {}
  BY BatchRuns DEF CallInv, TypeOK, OutHandlers
<1>2. CanRun(k) /\ k \notin Written /\ ~Sent
  BY <1>1 DEF CanRun, CallInv, WireInv, Sent, OutHandlers
<1>3. \A j \in Written : Kept(j)
  BY <1>2, OthersKept, WrittenTypes
<1>4. \A j \in Calls : ~CanRun(j)'
  BY <1>1 DEF CanRun, OutHandlers
<1> QED BY <1>2, <1>3, <1>4, WireKept

LEMMA WireRefused ==
  ASSUME CallInv, NEW k \in Calls,
         OnRefused(k) \/ (OnConnected(k) /\ m_connect_error_code # "0")
  PROVE  WireInv' /\ SentOnce'
<1>1. /\ Run(k) /\ Still /\ ~outOn'
      /\ UNCHANGED <<called, timer, runs, told, spent, m_timer_event>>
  BY DEF OnRefused, OnConnected, ConnectDone, ThenListenWrite, Still
<1>2. \E code \in Codes : SetError(k, code)
  BY DEF OnRefused, OnConnected, ConnectDone, Codes, CallInv, TypeOK
<1>3. k \in Elems(batch)
  BY <1>1, BatchRuns DEF CallInv, TypeOK
<1>4. Accepted(k)
  BY <1>3 DEF CanRun, CallInv, WireInv
<1> QED BY <1>1, <1>2, <1>4, WireFails DEF Fails

(* write_message: the message of k is the last to be encoded.              *)
LEMMA WireAppends ==
  ASSUME CallInv, NEW k \in Calls,
         m_write_dones' = Append(m_write_dones, k),
         UNCHANGED <<m_out_buffer, requests, answers, answered, served, spent,
                     repeated, ctl>>,
         Clean(k), Accepted(k)', k \notin Written, ~Sent,
         \A j \in Calls : Accepted(j) => Accepted(j)',
         \A j \in Calls : CanRun(j)' => CanRun(j) /\ j # k
  PROVE  WireInv' /\ SentOnce'
<1>1. WireInv /\ SentOnce /\ Written \subseteq Calls
      /\ m_write_dones \in Seq(Calls) /\ m_out_buffer \in Seq(Calls)
  BY WrittenTypes DEF CallInv, TypeOK
<1>2. Elems(m_write_dones') = Elems(m_write_dones) \cup {k}
  BY <1>1, AppendElems
<1>3. /\ Written' = Written \cup {k} /\ Elems(requests)' = Elems(requests)
      /\ Ids(answers)' = Ids(answers)
  BY <1>2 DEF Written, Elems, Ids
<1>4. \A j \in Calls : Clean(j)' = Clean(j) /\ Answerable(j)' = Answerable(j)
  BY DEF Clean, Answerable
<1>5. \A j \in Calls : CanRun(j)' => Accepted(j)' /\ Clean(j)' /\ j \notin Written'
  BY <1>1, <1>3, <1>4 DEF WireInv
<1>6. \A j \in Written' : Accepted(j)' /\ Answerable(j)'
  BY <1>1, <1>3, <1>4 DEF WireInv, Answerable
<1>7. WireInv'
  BY <1>1, <1>3, <1>5, <1>6 DEF WireInv
<1>8. CASE repeated
  BY <1>7, <1>8 DEF SentOnce
<1>9. CASE Unsent
  <2> DEFINE s == m_out_buffer \o m_write_dones
  <2>1. s \in Seq(Calls) /\ Elems(s) = Written /\ Distinct(s)
    BY <1>1, <1>9, ConcatElems DEF Written, Unsent
  <2>2. m_out_buffer \o Append(m_write_dones, k) = Append(s, k)
    BY <1>1
  <2> HIDE DEF s
  <2>3. Distinct(Append(s, k))
    BY <2>1, AppendElems
  <2>4. Distinct(m_out_buffer \o m_write_dones)'
    BY <2>2, <2>3 DEF Distinct
  <2>5. \A j \in Written' : Clean(j)'
    BY <1>1, <1>3, <1>4, <1>9 DEF Unsent
  <2> QED BY <1>7, <1>9, <2>4, <2>5 DEF Unsent, SentOnce
<1> QED BY <1>1, <1>8, <1>9 DEF SentOnce

LEMMA WireConnects ==
  ASSUME CallInv, NEW k \in Calls, OnConnected(k)
  PROVE  WireInv' /\ SentOnce'
<1>1. CASE m_connect_error_code # "0"
  BY <1>1, WireRefused
<1>2. CASE m_connect_error_code = "0"
  <2>1. k \in Elems(batch) /\ Elems(batch') \cap OutHandlers = {}
    BY BatchRuns DEF CallInv, TypeOK, OutHandlers, OnConnected
  <2>2. CanRun(k) /\ Accepted(k) /\ Clean(k) /\ k \notin Written /\ ~Sent
    BY <2>1 DEF CanRun, CallInv, WireInv, Sent, OutHandlers
  <2>3. /\ m_write_dones' = Append(m_write_dones, k)
        /\ UNCHANGED <<m_out_buffer, requests, answers, answered, served, spent,
                       repeated, ctl, called, timer>>
        /\ outHandler' = "on_write"
    BY <1>2 DEF OnConnected, ConnectDone, ThenListenWrite
  <2>4. \A j \in Calls : Accepted(j)' = Accepted(j)
    BY <2>3 DEF Accepted
  <2>5. \A j \in Calls : ~CanRun(j)'
    BY <2>1, <2>3, NoneAssumption DEF CanRun, OutHandlers, Handlers
  <2> QED BY <2>2, <2>3, <2>4, <2>5, WireAppends
<1> QED BY <1>1, <1>2

LEMMA WireConnectsNow ==
  ASSUME CallInv, NEW k \in Calls, CallConnectsNow(k)
  PROVE  WireInv' /\ SentOnce'
<1>1. /\ k \notin called /\ called' = called \cup {k} /\ sock # "connected"
      /\ timer' = [timer EXCEPT ![k] = "pending"] /\ UNCHANGED batch
  BY DEF CallConnectsNow, Accept, Begin
<1>2. k \notin Written /\ ~CanRun(k) /\ ~Sent
  BY <1>1, NewCall DEF Sent, CallInv, BatchInv
<1>3. CASE m_connect_error_code # "0"
  <2>1. \E code \in Codes : SetError(k, code)
    BY <1>3 DEF CallConnectsNow, ConnectDone, Codes, CallInv, TypeOK
  <2>2. Begins(k)
    BY <2>1 DEF CallConnectsNow, Accept, Begin, Begins
  <2>3. Still /\ UNCHANGED outHandler /\ (outOn' => outOn)
    BY <1>3 DEF CallConnectsNow, ConnectDone, ThenListenWrite, Accept, Still
  <2>4. \A j \in Calls : CanRun(j)' => CanRun(j) /\ Kept(j)
    <3>1. \A j \in Calls : CanRun(j)' => CanRun(j)
      BY <1>1, <2>3 DEF CanRun
    <3> QED BY <1>2, <2>2, <3>1, OthersKept
  <2>5. \A j \in Written : Kept(j)
    BY <1>2, <2>2, OthersKept, WrittenTypes
  <2> QED BY <1>2, <2>3, <2>4, <2>5, WireKept
<1>4. CASE m_connect_error_code = "0"
  <2>1. /\ m_write_dones' = Append(m_write_dones, k)
        /\ UNCHANGED <<m_out_buffer, requests, answers, answered, served, spent,
                       repeated, ctl>>
        /\ outHandler' = "on_write"
    BY <1>4 DEF CallConnectsNow, ConnectDone, ThenListenWrite, Accept
  <2>2. timer \in [Calls -> TimerStates] /\ CallTimerInv
    BY TypesOfCalls DEF CallTypes, CallInv
  <2>3. Clean(k)
    BY <1>1, <2>2 DEF Clean, CallTimerInv
  <2>4. /\ Accepted(k)'
        /\ \A j \in Calls : Accepted(j) => Accepted(j)'
    BY <1>1, <2>2 DEF Accepted
  <2>5. \A j \in Calls : CanRun(j)' => CanRun(j) /\ j # k
    BY <1>1, <1>2, <2>1, NoneAssumption DEF CanRun, Handlers
  <2> QED BY <1>2, <2>1, <2>3, <2>4, <2>5, WireAppends
<1> QED BY <1>3, <1>4

(* on_write: what was to be written is in the out buffer and perhaps sent. *)
LEMMA WireWrites ==
  ASSUME CallInv, OnWrite
  PROVE  WireInv' /\ SentOnce'
<1> DEFINE encoded == m_out_buffer \o m_write_dones
<1>1. /\ m_write_dones \in Seq(Calls) /\ m_out_buffer \in Seq(Calls)
      /\ requests \in Seq(Calls) /\ WireInv /\ SentOnce
      /\ "on_write" \in OutHandlers
  BY WrittenTypes DEF CallInv, TypeOK
<1>2. encoded \in Seq(Calls) /\ Elems(encoded) = Written
  BY <1>1, ConcatElems DEF Written
<1>3. /\ Run("on_write") /\ m_out_buffer' = encoded /\ m_write_dones' = << >>
      /\ UNCHANGED <<called, ctl, timer, spent, outHandler, answers, answered, served>>
  BY DEF OnWrite
<1>4. PICK part \in PartSent(encoded) :
        /\ \/ requests' = requests \o (part \o encoded) /\ outOn' = FALSE
           \/ requests' = requests \o part /\ UNCHANGED outOn
        /\ repeated' = (repeated \/ part # << >>)
  BY DEF OnWrite, Sends
<1> HIDE DEF encoded
<1>5. /\ "on_write" \in Elems(batch) /\ Elems(batch') \cap OutHandlers = {}
      /\ Elems(batch') \subseteq Elems(batch)
  BY <1>1, <1>3, BatchRuns DEF CallInv, TypeOK
<1>6. CanRun("on_write") /\ ~Sent
  BY <1>1, <1>5 DEF CanRun, Sent
<1>7. \A h : CanRun(h)' => CanRun(h)
  BY <1>3, <1>4, <1>5 DEF CanRun
<1>8. part \in Seq(Calls) /\ Elems(part) \subseteq Written
  <2>1. PICK n \in 0..(IF encoded = << >> THEN 0 ELSE Len(encoded) - 1) :
          part = SubSeq(encoded, 1, n)
    BY <1>4 DEF PartSent
  <2>2. n \in Nat /\ n <= Len(encoded)
    BY <1>2, <2>1
  <2>3. /\ part \in Seq(Calls) /\ Len(part) = n
        /\ \A i \in 1..n : part[i] = encoded[i] /\ i \in 1..Len(encoded)
    BY <1>2, <2>1, <2>2
  <2> QED BY <1>2, <2>3 DEF Elems
<1>9. part \o encoded \in Seq(Calls) /\ Elems(part \o encoded) \subseteq Written
  BY <1>2, <1>8, ConcatElems
<1>10. Elems(requests') \subseteq Elems(requests) \cup Written
  <2> DEFINE t == part \o encoded
  <2>1. t \in Seq(Calls) /\ Elems(t) \subseteq Written
    BY <1>9
  <2> HIDE DEF t
  <2>2. Elems(requests \o t) = Elems(requests) \cup Elems(t)
    BY <1>1, <2>1, ConcatElems
  <2>3. Elems(requests \o part) = Elems(requests) \cup Elems(part)
    BY <1>1, <1>8, ConcatElems
  <2> QED BY <1>4, <1>8, <2>1, <2>2, <2>3 DEF t
<1>11. Written' = Written /\ Ids(answers)' = Ids(answers)
  BY <1>2, <1>3, EmptyElems DEF Written, Ids
<1>12. \A j \in Calls : /\ Accepted(j)' = Accepted(j) /\ Clean(j)' = Clean(j)
                        /\ Answerable(j)' = Answerable(j)
  BY <1>3 DEF Accepted, Clean, Answerable
<1>13. Written \subseteq Calls
  BY WrittenTypes
<1>14. WireInv'
  <2>1. \A k \in Calls : CanRun(k)' => Accepted(k)' /\ Clean(k)' /\ k \notin Written'
    BY <1>1, <1>7, <1>11, <1>12 DEF WireInv
  <2>2. \A k \in Written' : Accepted(k)' /\ Answerable(k)'
    BY <1>1, <1>11, <1>12, <1>13 DEF WireInv
  <2>3. Elems(requests') \subseteq Written
    BY <1>1, <1>10 DEF WireInv
  <2> QED BY <1>1, <1>3, <1>11, <2>1, <2>2, <2>3 DEF WireInv
<1>15. CASE repeated \/ part # << >>
  BY <1>4, <1>14, <1>15 DEF SentOnce
<1>16. CASE Unsent /\ part = << >>
  <2>1. /\ requests = << >> /\ answers' = << >> /\ answered' = {} /\ spent' = {}
        /\ \A k \in Written : Clean(k)'
        /\ Distinct(encoded)
    BY <1>3, <1>12, <1>13, <1>16 DEF Unsent, encoded
  <2>2. CASE requests' = requests \o part
    <3>1. requests' = << >> /\ m_out_buffer' \o m_write_dones' = encoded
      BY <1>2, <1>3, <1>16, <2>1, <2>2
    <3> QED BY <1>11, <1>14, <2>1, <3>1 DEF Unsent, SentOnce
  <2>3. CASE requests' = requests \o (part \o encoded) /\ outOn' = FALSE
    <3>1. requests' = encoded
      BY <1>2, <1>16, <2>1, <2>3
    <3>2. outHandler' = "on_write"
      BY <1>3, <1>5 DEF CallInv, BatchInv
    <3>3. \A h \in OutHandlers : ~CanRun(h)'
      BY <1>5, <2>3 DEF CanRun
    <3>4. Elems(requests)' = Written /\ Ids(answers)' = {}
      BY <1>2, <2>1, <3>1, EmptyElems
    <3>5. Distinct(requests)' /\ Len(answers') = 0
      BY <2>1, <3>1
    <3> QED BY <1>3, <1>14, <2>1, <3>2, <3>3, <3>4, <3>5 DEF Sent, SentOnce
  <2> QED BY <1>4, <2>2, <2>3
<1> QED BY <1>1, <1>6, <1>15, <1>16 DEF SentOnce

(* The ids of a longer and of a shorter sequence of answers.               *)
LEMMA AnswerIds ==
  ASSUME NEW s \in Seq(Answers)
  PROVE  /\ Ids(s) \subseteq Calls
         /\ \A a \in Answers : Ids(Append(s, a)) = Ids(s) \cup {a.id}
         /\ s # << >> => /\ Head(s).id \in Ids(s) /\ Ids(Tail(s)) \subseteq Ids(s)
<1>1. Ids(s) \subseteq Calls
  <2>1. \A i \in 1..Len(s) : s[i] \in Answers
    OBVIOUS
  <2>2. \A a \in Answers : a.id \in Calls
    BY DEF Answers
  <2> QED BY <2>1, <2>2 DEF Ids
<1>2. ASSUME NEW a \in Answers
      PROVE  Ids(Append(s, a)) = Ids(s) \cup {a.id}
  <2>1. /\ Len(Append(s, a)) = Len(s) + 1 /\ Len(s) \in Nat
        /\ \A i \in 1..Len(s) : Append(s, a)[i] = s[i]
        /\ Append(s, a)[Len(s) + 1] = a
    OBVIOUS
  <2> DEFINE t == Append(s, a)
  <2> HIDE DEF t
  <2> QED BY <2>1 DEF Ids, t
<1>3. ASSUME s # << >>
      PROVE  Head(s).id \in Ids(s) /\ Ids(Tail(s)) \subseteq Ids(s)
  <2>1. /\ Head(s) = s[1] /\ 1 \in 1..Len(s)
        /\ \A i \in 1..Len(Tail(s)) : i + 1 \in 1..Len(s) /\ Tail(s)[i] = s[i + 1]
    BY <1>3, TailElems
  <2> DEFINE t == Tail(s)
  <2> HIDE DEF t
  <2> QED BY <2>1 DEF Ids, t
<1> QED BY <1>1, <1>2, <1>3

(* The server answers or repeats an answer.                                *)
LEMMA WireServes ==
  ASSUME CallInv, NEW a \in Answers, ServerAnswers(a) \/ ServerRepeats(a)
  PROVE  WireInv' /\ SentOnce'
<1>1. /\ requests \in Seq(Calls) /\ answers \in Seq(Answers)
      /\ WireInv /\ SentOnce /\ Written \subseteq Calls
  BY WrittenTypes DEF CallInv, TypeOK
<1>2. /\ answers' = Append(answers, a) /\ answered' = answered \cup {a.id}
      /\ served' = IF a.kind = "ok" THEN served \cup {a.id} ELSE served
      /\ UNCHANGED <<called, ctl, timer, batch, outHandler, outOn, m_write_dones,
                     m_out_buffer, spent>>
  BY DEF ServerAnswers, ServerRepeats, ServerSends
<1>3. a.id \in Written /\ Elems(requests') \subseteq Elems(requests)
  <2>1. CASE ServerAnswers(a)
    BY <1>1, <2>1, TailElems DEF ServerAnswers, WireInv
  <2>2. CASE ServerRepeats(a)
    BY <1>1, <2>2 DEF ServerRepeats, WireInv
  <2> QED BY <2>1, <2>2
<1>4. Ids(answers') = Ids(answers) \cup {a.id}
  BY <1>1, <1>2, AnswerIds
<1>5. /\ Len(answers') = Len(answers) + 1 /\ Len(answers) \in Nat
      /\ \A i \in 1..Len(answers) : answers'[i] = answers[i]
      /\ answers'[Len(answers) + 1] = a
  BY <1>1, <1>2
<1>6. \A i \in 1..Len(answers') : answers'[i].kind = "ok" => answers'[i].id \in served'
  <2> SUFFICES ASSUME NEW i \in 1..Len(answers'), answers'[i].kind = "ok"
               PROVE  answers'[i].id \in served'
    OBVIOUS
  <2>1. CASE i \in 1..Len(answers)
    BY <1>1, <1>2, <1>5, <2>1 DEF WireInv
  <2>2. CASE i = Len(answers) + 1
    BY <1>2, <1>5, <2>2
  <2> QED BY <1>5, <2>1, <2>2
<1>7. /\ Written' = Written
      /\ \A j : CanRun(j)' = CanRun(j)
      /\ \A j \in Calls : /\ Accepted(j)' = Accepted(j) /\ Clean(j)' = Clean(j)
                          /\ Answerable(j)' = Answerable(j)
  BY <1>2 DEF Written, CanRun, Accepted, Clean, Answerable, Elems
<1>8. WireInv'
  <2>1. \A k \in Calls : CanRun(k)' => Accepted(k)' /\ Clean(k)' /\ k \notin Written'
    BY <1>1, <1>7 DEF WireInv
  <2>2. \A k \in Written' : Accepted(k)' /\ Answerable(k)'
    BY <1>1, <1>7 DEF WireInv
  <2>3. Elems(requests)' \cup Ids(answers)' \cup answered' \cup spent' \subseteq Written'
    BY <1>1, <1>2, <1>3, <1>4, <1>7 DEF WireInv
  <2> QED BY <1>6, <2>1, <2>2, <2>3 DEF WireInv
<1>9. CASE ServerRepeats(a) \/ repeated
  BY <1>8, <1>9 DEF ServerRepeats, ServerAnswers, SentOnce
<1>10. CASE ServerAnswers(a) /\ Sent
  <2>1. /\ requests # << >> /\ a.id = Head(requests) /\ requests' = Tail(requests)
    BY <1>10 DEF ServerAnswers
  <2>2. /\ Head(requests) \in Elems(requests) /\ Head(requests) = requests[1]
        /\ 1 \in 1..Len(requests) /\ Len(requests') = Len(requests) - 1
        /\ \A i \in 1..Len(requests') :
             i + 1 \in 1..Len(requests) /\ requests'[i] = requests[i + 1]
    BY <1>1, <2>1, TailElems
  <2>3. Distinct(requests)' /\ a.id \notin Elems(requests')
    BY <1>10, <2>1, <2>2 DEF Sent, Distinct, Elems
  <2>4. a.id \notin Ids(answers)
    BY <1>10, <2>1, <2>2 DEF Sent
  <2>5. ASSUME NEW i \in 1..Len(answers'), NEW j \in 1..Len(answers'),
               answers'[i].id = answers'[j].id
        PROVE  i = j
    <3>1. \A n \in 1..Len(answers') : n \in 1..Len(answers) \/ n = Len(answers) + 1
      BY <1>5
    <3>2. \A n \in 1..Len(answers) : answers'[n].id # a.id
      BY <1>5, <2>4 DEF Ids
    <3>3. CASE i \in 1..Len(answers) /\ j \in 1..Len(answers)
      BY <1>5, <1>10, <2>5, <3>3 DEF Sent
    <3> QED BY <1>5, <2>5, <3>1, <3>2, <3>3
  <2>6. Elems(requests') \cap Ids(answers') = {}
    BY <1>3, <1>4, <1>10, <2>3 DEF Sent
  <2>7. \A k \in Elems(requests') \cup Ids(answers') : Clean(k)' /\ k \notin spent'
    <3>1. \A k \in Elems(requests') \cup Ids(answers') :
            k \in Elems(requests) \cup Ids(answers) /\ k \in Calls
      BY <1>1, <1>3, <1>4, <2>1, <2>2 DEF WireInv
    <3> QED BY <1>2, <1>7, <1>10, <3>1 DEF Sent
  <2>8. outHandler' = "on_write" /\ m_write_dones' = << >>
        /\ \A h \in OutHandlers : ~CanRun(h)'
    BY <1>2, <1>7, <1>10 DEF Sent
  <2> QED BY <1>8, <2>3, <2>5, <2>6, <2>7, <2>8 DEF Sent, SentOnce
<1>11. ServerAnswers(a) => ~Unsent
  BY DEF ServerAnswers, Unsent
<1> QED BY <1>1, <1>9, <1>10, <1>11 DEF SentOnce

(* on_read: one answer less on its way, and perhaps one more call is spent.*)
LEMMA WireReads ==
  ASSUME CallInv, OnRead
  PROVE  WireInv' /\ SentOnce'
<1> DEFINE k == Head(answers).id
<1>1. /\ answers \in Seq(Answers) /\ WireInv /\ SentOnce /\ Written \subseteq Calls
      /\ CallTypes /\ loop \in {"off", "on", "stopped"}
  BY WrittenTypes, TypesOfCalls DEF CallInv, TypeOK
<1>2. /\ Run("on_read") /\ answers # << >> /\ answers' = Tail(answers)
      /\ UNCHANGED <<called, m_timer_event, outHandler, outOn, m_write_dones,
                     m_out_buffer, requests, answered, served, repeated>>
  BY DEF OnRead
<1>3. k \in Ids(answers) /\ Ids(answers') \subseteq Ids(answers)
  BY <1>1, <1>2, AnswerIds
<1>4. /\ k \in Calls
      /\ Reads(k) \/ Idles
  BY ReadsAnswer
<1> HIDE DEF k
<1>5. /\ \A j \in Calls \ {k} : ctl'[j] = ctl[j]
      /\ \/ ctl'[k] = ctl[k]
         \/ ctl'[k].failed /\ ctl'[k].code \in {"SERVER", "SERIALIZE"}
      /\ \A j \in Calls : timer'[j] = "none" => timer[j] = "none"
      /\ spent' \in {spent, spent \cup {k}}
  <2>1. CASE Idles
    BY <1>4, <2>1 DEF Idles
  <2>2. CASE Reads(k)
    <3>1. spent' \in {spent, spent \cup {k}}
      BY <2>2 DEF Reads
    <3>2. /\ \A j \in Calls \ {k} : ctl'[j] = ctl[j]
          /\ \/ ctl'[k] = ctl[k]
             \/ ctl'[k].failed /\ ctl'[k].code \in {"SERVER", "SERIALIZE"}
          /\ \A j \in Calls : timer'[j] = IF j = m_timer_event /\ Waits(j)
                            THEN (IF j = k THEN "cancelled" ELSE "robbed")
                            ELSE timer[j]
      BY <1>1, <1>4, <2>2, ReadSet
    <3> QED BY <3>1, <3>2
  <2> QED BY <1>4, <2>1, <2>2
<1>6. \A h : CanRun(h)' => CanRun(h)
  BY <1>2, StillRuns
<1>7. Written' = Written /\ Elems(requests)' = Elems(requests) /\ k \in Written
  BY <1>1, <1>2, <1>3 DEF Written, Elems, WireInv
<1>8. \A j \in Calls : Accepted(j) => Accepted(j)'
  BY <1>2, <1>5 DEF Accepted
<1>9. \A j \in Calls \ {k} : Clean(j) => Clean(j)'
  BY <1>5 DEF Clean
<1>10. ASSUME NEW j \in Calls, Answerable(j)
       PROVE  Answerable(j)'
  <2>1. CASE ctl'[j] = ctl[j]
    BY <1>10, <2>1 DEF Clean, Answerable
  <2>2. CASE ctl'[j].failed /\ ctl'[j].code \in {"SERVER", "SERIALIZE"}
    BY <2>2 DEF Answerable
  <2> QED BY <1>5, <2>1, <2>2
<1>11. /\ Len(answers') = Len(answers) - 1 /\ Len(answers) \in Nat
       /\ \A i \in 1..Len(answers') : i + 1 \in 1..Len(answers) /\ answers'[i] = answers[i + 1]
  BY <1>1, <1>2, TailElems
<1>12. WireInv'
  <2>1. \A j \in Calls : CanRun(j)' => Accepted(j)' /\ Clean(j)' /\ j \notin Written'
    BY <1>1, <1>6, <1>7, <1>8, <1>9 DEF WireInv
  <2>2. \A j \in Written' : Accepted(j)' /\ Answerable(j)'
    BY <1>1, <1>7, <1>8, <1>10 DEF WireInv
  <2>3. Elems(requests)' \cup Ids(answers)' \cup answered' \cup spent' \subseteq Written'
    BY <1>1, <1>2, <1>3, <1>5, <1>7 DEF WireInv
  <2>4. \A i \in 1..Len(answers') : answers'[i].kind = "ok" => answers'[i].id \in served'
    BY <1>1, <1>2, <1>11 DEF WireInv
  <2> QED BY <2>1, <2>2, <2>3, <2>4 DEF WireInv
<1>13. ~Unsent
  BY <1>2 DEF Unsent
<1>14. CASE repeated
  BY <1>2, <1>12, <1>14 DEF SentOnce
<1>15. CASE Sent
  <2>1. answers[1].id = k /\ 1 \in 1..Len(answers)
    BY <1>1, <1>2 DEF k
  <2>2. \A i \in 1..Len(answers') : answers'[i].id # k
    <3>1. \A i \in 1..Len(answers') : i + 1 # 1 /\ answers[i + 1].id # k
      BY <1>11, <1>15, <2>1 DEF Sent
    <3> QED BY <1>11, <3>1
  <2>3. k \notin Ids(answers')
    BY <2>2 DEF Ids
  <2>4. k \notin Elems(requests)
    BY <1>3, <1>15 DEF Sent
  <2>5. \A i, j \in 1..Len(answers') : answers'[i].id = answers'[j].id => i = j
    BY <1>11, <1>15 DEF Sent
  <2>6. \A j \in Elems(requests) \cup Ids(answers') : Clean(j)' /\ j \notin spent'
    <3>1. \A j \in Elems(requests) \cup Ids(answers') :
            j \in Calls \ {k} /\ j \in Elems(requests) \cup Ids(answers)
      BY <1>1, <1>3, <2>3, <2>4 DEF WireInv
    <3> QED BY <1>5, <1>9, <1>15, <3>1 DEF Sent
  <2>7. Elems(requests) \cap Ids(answers') = {}
    BY <1>3, <1>15 DEF Sent
  <2>8. \A h \in OutHandlers : ~CanRun(h)'
    BY <1>6, <1>15 DEF Sent
  <2> QED BY <1>2, <1>7, <1>12, <1>15, <2>5, <2>6, <2>7, <2>8
          DEF Sent, SentOnce, Distinct
<1> QED BY <1>1, <1>13, <1>14, <1>15 DEF SentOnce

(* A step that begins or reads nothing and moves nothing.                  *)
LEMMA WireOthers ==
  ASSUME CallInv, Next,
         \/ InitChannel \/ Report \/ OnWriteClosed \/ OnReadEof
         \/ OnTimerReturns \/ ServerCloses
         \/ \E k \in Calls : Expire(k) \/ OnTimeout(k)
  PROVE  WireInv' /\ SentOnce'
<1>1. CASE \/ InitChannel \/ Report \/ OnWriteClosed \/ OnReadEof
           \/ OnTimerReturns \/ ServerCloses
  <2>1. Still /\ UNCHANGED outHandler /\ Idles
    BY <1>1
    DEF InitChannel, Report, OnWriteClosed, OnReadEof, OnTimerReturns,
        ServerCloses, Still, Idles
  <2>2. \/ Report
        \/ (UNCHANGED batch \/ \E g : Run(g)) /\ (outOn' => outOn)
    BY <1>1
    DEF InitChannel, OnWriteClosed, OnReadEof, OnTimerReturns, ServerCloses
  <2> QED BY <2>1, <2>2, WireIdle
<1>2. ASSUME NEW k \in Calls, Expire(k) \/ OnTimeout(k)
      PROVE  WireInv' /\ SentOnce'
  <2>1. Still /\ UNCHANGED <<outHandler, batch, outOn>>
    BY <1>2 DEF Expire, OnTimeout, Still
  <2>2. RunsOut(k) \/ TimesOut(k)
    BY <1>2 DEF Expire, OnTimeout, RunsOut, TimesOut
  <2> QED BY <2>1, <2>2, WireIdle
<1> QED BY <1>1, <1>2

LEMMA WireStep ==
  ASSUME CallInv, Next
  PROVE  WireInv' /\ SentOnce'
<1>1. ASSUME Handler
      PROVE  WireInv' /\ SentOnce'
  BY <1>1, WireOthers, WireConnects, WireRefused, WireWrites, WireReads, Zenon
  DEF Handler
<1>2. ASSUME NEW k \in Calls, Start(k)
      PROVE  WireInv' /\ SentOnce'
  BY <1>2, WireConnectsNow, WireStarts, Zenon DEF Start
<1> QED BY <1>1, <1>2, WireOthers, WireServes, Zenon DEF Next

(* The read callback of a call finds its channel reset only after a repeat.*)
LEMMA CrashStep ==
  ASSUME CallInv, Next
  PROVE  NoUseAfterReset'
<1>1. NoUseAfterReset /\ (repeated => repeated')
  BY HistoryGrows DEF CallInv
<1>2. CASE OnRead
  <2>1. UNCHANGED crashed \/ repeated
    BY <1>2, ReadsAnswer
  <2> QED BY <1>1, <2>1 DEF NoUseAfterReset
<1>3. ASSUME ~OnRead
      PROVE  UNCHANGED crashed
  <2>1. CASE \/ InitChannel \/ Report \/ OnWrite \/ OnWriteClosed \/ OnReadEof
             \/ OnTimerReturns \/ ServerCloses
    BY <2>1
    DEF InitChannel, Report, OnWrite, OnWriteClosed, OnReadEof, OnTimerReturns,
        ServerCloses
  <2>2. ASSUME NEW k \in Calls, Start(k)
        PROVE  UNCHANGED crashed
    BY <2>2
    DEF Start, CallNotInit, CallSerializeFails, CallConnectsNow,
        CallConnectInProgress, CallConnectFails, Accept
  <2>3. ASSUME NEW k \in Calls,
               Expire(k) \/ OnConnected(k) \/ OnRefused(k) \/ OnTimeout(k)
        PROVE  UNCHANGED crashed
    BY <2>3 DEF Expire, OnConnected, OnRefused, OnTimeout
  <2>4. ASSUME NEW a \in Answers, ServerAnswers(a) \/ ServerRepeats(a)
        PROVE  UNCHANGED crashed
    BY <2>4 DEF ServerAnswers, ServerRepeats, ServerSends
  <2> QED BY <1>3, <2>1, <2>2, <2>3, <2>4, Zenon DEF Next, Handler
<1> QED BY <1>1, <1>2, <1>3 DEF NoUseAfterReset

-----------------------------------------------------------------------------
(* The invariant holds.                                                    *)

LEMMA TypeStep ==
  ASSUME CallInv, Next
  PROVE  TypeOK'
<1> USE DEF TypeOK
<1>1. TypeOK
  BY Zenon DEF CallInv
<1>2. CallTypes' /\ batch' \in Seq(Handlers \cup Calls)
  BY CallTypesStep, BatchStep
<1>3. /\ "0" \in Codes /\ "CONNECT" \in Codes /\ "PEER_CLOSED" \in Codes
      /\ "TIMEOUT" \in Codes
  BY DEF Codes
<1>4. CASE \/ InitChannel \/ Report \/ OnTimerReturns \/ OnWriteClosed
           \/ OnReadEof \/ ServerCloses
  <2>1. UNCHANGED <<m_timer_event, called, ctl, timer, loop, sock,
                    m_connect_error_code, outHandler, m_write_dones,
                    m_out_buffer, m_read_dones, spent, requests, answers,
                    answered, served, repeated, runs, told, crashed>>
    BY <1>4
    DEF InitChannel, Report, OnTimerReturns, OnWriteClosed, OnReadEof,
        ServerCloses
  <2>2. /\ m_is_init' \in BOOLEAN /\ peerOpen' \in BOOLEAN
        /\ m_state' \in {"NotConnected", "Connected", "Closed"}
        /\ outOn' \in BOOLEAN /\ inOn' \in BOOLEAN
    <3>1. /\ m_is_init' \in {m_is_init, TRUE} /\ peerOpen' \in {peerOpen, FALSE}
          /\ m_state' \in {m_state, "Closed"}
          /\ outOn' \in {outOn, FALSE} /\ inOn' \in {inOn, FALSE}
      BY <1>4
      DEF InitChannel, Report, OnTimerReturns, OnWriteClosed, OnReadEof,
          ServerCloses
    <3> QED BY <1>1, <3>1
  <2> QED BY <1>1, <1>2, <2>1, <2>2
<1>5. ASSUME NEW k \in Calls, Start(k)
      PROVE  TypeOK'
  <2>1. CASE CallNotInit(k) \/ CallSerializeFails(k)
    BY <1>1, <1>2, <2>1
    DEF CallNotInit, CallSerializeFails, CallTypes, TimerStates
  <2>2. CASE CallConnectsNow(k)
    <3>1. m_write_dones' \in Seq(Calls)
      <4>1. m_write_dones' \in {m_write_dones, Append(m_write_dones, k)}
        BY <2>2 DEF CallConnectsNow, ConnectDone
      <4>2. Append(m_write_dones, k) \in Seq(Calls)
        BY <1>1
      <4> QED BY <1>1, <4>1, <4>2
    <3>2. outHandler' \in Calls \cup {None, "on_write"} /\ outOn' \in BOOLEAN
      BY <1>1, <2>2 DEF CallConnectsNow, ThenListenWrite
    <3> QED BY <1>1, <1>2, <2>2, <3>1, <3>2
            DEF CallConnectsNow, Accept, CallTypes, TimerStates
  <2>3. CASE CallConnectInProgress(k)
    BY <1>1, <1>2, <2>3 DEF CallConnectInProgress, Accept, CallTypes, TimerStates
  <2>4. CASE CallConnectFails(k)
    <3>1. UNCHANGED m_write_dones
      BY <2>4 DEF CallConnectFails, ConnectDone
    <3> QED BY <1>1, <1>2, <1>3, <2>4, <3>1
            DEF CallConnectFails, Accept, CallTypes, TimerStates
  <2> QED BY <1>5, <2>1, <2>2, <2>3, <2>4 DEF Start
<1>6. ASSUME NEW k \in Calls, Expire(k) \/ OnTimeout(k)
      PROVE  TypeOK'
  <2>1. loop' \in {"off", "on", "stopped"}
    BY <1>1, <1>6 DEF Expire, OnTimeout, RunClosure
  <2> QED BY <1>1, <1>2, <1>6, <2>1 DEF Expire, OnTimeout, CallTypes, TimerStates
<1>7. ASSUME NEW k \in Calls, OnConnected(k)
      PROVE  TypeOK'
  <2>1. m_write_dones' \in Seq(Calls)
    <3>1. m_write_dones' \in {m_write_dones, Append(m_write_dones, k)}
      BY <1>7 DEF OnConnected, ConnectDone
    <3>2. Append(m_write_dones, k) \in Seq(Calls)
      BY <1>1
    <3> QED BY <1>1, <3>1, <3>2
  <2>2. outHandler' \in Calls \cup {None, "on_write"} /\ outOn' \in BOOLEAN
    BY <1>1, <1>7 DEF OnConnected, ThenListenWrite
  <2> QED BY <1>1, <1>2, <1>7, <2>1, <2>2 DEF OnConnected, CallTypes, TimerStates
<1>8. ASSUME NEW k \in Calls, OnRefused(k)
      PROVE  TypeOK'
  <2>1. UNCHANGED m_write_dones /\ m_connect_error_code' \in Codes
    BY <1>3, <1>8 DEF OnRefused, ConnectDone
  <2> QED BY <1>1, <1>2, <1>8, <2>1 DEF OnRefused, CallTypes, TimerStates
<1>9. CASE OnWrite
  <2> DEFINE encoded == m_out_buffer \o m_write_dones
  <2>1. encoded \in Seq(Calls)
    BY <1>1
  <2>2. {m_write_dones[i] : i \in 1..Len(m_write_dones)} \subseteq Calls
    BY <1>1
  <2>3. m_read_dones' \in SUBSET Calls /\ inOn' \in BOOLEAN /\ m_out_buffer' = encoded
    BY <1>1, <1>9, <2>2 DEF OnWrite
  <2>4. PICK part \in PartSent(encoded) :
          /\ \/ requests' = requests \o (part \o encoded) /\ outOn' = FALSE
             \/ requests' = requests \o part /\ UNCHANGED outOn
          /\ repeated' = (repeated \/ part # << >>)
    BY <1>9 DEF OnWrite, Sends
  <2> HIDE DEF encoded
  <2>5. part \in Seq(Calls)
    <3>1. PICK n \in 0..(IF encoded = << >> THEN 0 ELSE Len(encoded) - 1) :
            part = SubSeq(encoded, 1, n)
      BY <2>4 DEF PartSent
    <3>2. n \in Nat /\ n <= Len(encoded)
      BY <2>1, <3>1
    <3> QED BY <2>1, <3>1, <3>2
  <2>6. requests \o (part \o encoded) \in Seq(Calls) /\ requests \o part \in Seq(Calls)
    BY <1>1, <2>1, <2>5
  <2>7. requests' \in Seq(Calls) /\ outOn' \in BOOLEAN /\ repeated' \in BOOLEAN
    BY <1>1, <2>4, <2>6
  <2> QED BY <1>1, <1>2, <1>9, <2>1, <2>3, <2>7 DEF OnWrite, CallTypes, TimerStates
<1>10. CASE OnRead
  <2>1. answers' \in Seq(Answers)
    BY <1>1, <1>10 DEF OnRead
  <2>2. loop' \in {"off", "on", "stopped"}
    BY <1>10, ReadsAnswer
  <2>3. crashed' \in BOOLEAN
    BY <1>1, <1>10 DEF OnRead, Answer
  <2> QED BY <1>1, <1>2, <1>10, <2>1, <2>2, <2>3 DEF OnRead, CallTypes, TimerStates
<1>11. ASSUME NEW a \in Answers, ServerAnswers(a) \/ ServerRepeats(a)
       PROVE  TypeOK'
  <2> HIDE DEF TypeOK
  <2>1. answers' \in Seq(Answers) /\ a.id \in Calls
    <3>1. answers' = Append(answers, a) /\ a.id \in Calls
      BY <1>11 DEF ServerAnswers, ServerRepeats, ServerSends, Answers
    <3>2. answers \in Seq(Answers)
      BY <1>1 DEF TypeOK
    <3> QED BY <3>1, <3>2
  <2>2. requests' \in Seq(Calls) /\ repeated' \in BOOLEAN
    <3>1. /\ \/ requests' = requests
             \/ requests # << >> /\ requests' = Tail(requests)
          /\ repeated' \in {repeated, TRUE}
      BY <1>11 DEF ServerAnswers, ServerRepeats
    <3>2. requests \in Seq(Calls) /\ repeated \in BOOLEAN
      BY <1>1 DEF TypeOK
    <3>3. requests' \in Seq(Calls)
      BY <3>1, <3>2
    <3> QED BY <3>1, <3>2, <3>3
  <2> USE DEF TypeOK
  <2>3. answered' \in SUBSET Calls /\ served' \in SUBSET Calls
    BY <1>1, <1>11, <2>1 DEF ServerAnswers, ServerRepeats, ServerSends
  <2> QED BY <1>1, <1>11, <2>1, <2>2, <2>3
          DEF ServerAnswers, ServerRepeats, ServerSends
<1> QED
  BY <1>4, <1>5, <1>6, <1>7, <1>8, <1>9, <1>10, <1>11, Zenon
  DEF Next, Handler

(* CallInv is inductive.                                                   *)
LEMMA CallInvHolds == Spec => []CallInv
<1>1. Init => CallInv
  <2> SUFFICES ASSUME Init PROVE CallInv
    OBVIOUS
  <2>1. TypeOK
    <3>1. /\ << >> \in Seq(Calls) /\ << >> \in Seq(Answers)
          /\ << >> \in Seq(Handlers \cup Calls)
      OBVIOUS
    <3>2. "0" \in Codes
      BY DEF Codes
    <3>3. ctl \in [Calls -> Controller] /\ told \in [Calls -> Codes]
      BY <3>2 DEF Init, Controller
    <3>4. /\ timer \in [Calls -> {"none", "pending", "expired", "cancelled",
                                  "robbed", "fired"}]
          /\ runs \in [Calls -> 0..2]
      BY DEF Init
    <3> QED BY <3>1, <3>2, <3>3, <3>4 DEF Init, TypeOK
  <2>2. /\ Elems(batch) = {} /\ Elems(m_write_dones) = {} /\ Elems(m_out_buffer) = {}
        /\ Elems(requests) = {} /\ Ids(answers) = {} /\ Len(answers) = 0
        /\ Len(batch) = 0 /\ Len(m_out_buffer \o m_write_dones) = 0
    BY EmptyElems DEF Init
  <2>3. BatchInv
    BY <2>2, NoneAssumption DEF Init, BatchInv, Handlers
  <2>4. Written = {} /\ \A k \in Calls : ~CanRun(k)
    BY <2>2 DEF Init, Written, CanRun
  <2>5. WireInv /\ SentOnce
    BY <2>2, <2>4 DEF Init, WireInv, SentOnce, Unsent, Distinct
  <2>6. CallTimerInv /\ ClosureToldTruth /\ NoUseAfterReset
    BY DEF Init, CallTimerInv, ClosureToldTruth, NoUseAfterReset
  <2> QED BY <2>1, <2>3, <2>5, <2>6 DEF CallInv
<1>2. CallInv /\ [Next]_vars => CallInv'
  <2>1. CASE Next
    BY <2>1, TypeStep, BatchStep, WireStep, CallTimerStep, TruthStep, CrashStep
    DEF CallInv
  <2>2. ASSUME CallInv, UNCHANGED vars
        PROVE  CallInv'
    <3>1. TypeOK' /\ BatchInv' /\ CallTimerInv' /\ ClosureToldTruth' /\ NoUseAfterReset'
      BY <2>2
      DEF CallInv, TypeOK, BatchInv, CallTimerInv, ClosureToldTruth,
          NoUseAfterReset, Elems
    <3>2. WireInv' /\ SentOnce'
      <4>1. Still /\ UNCHANGED outHandler
        BY <2>2 DEF Still
      <4>2. \A k : CanRun(k)' => CanRun(k) /\ Kept(k)
        BY <2>2 DEF CanRun, Kept, Accepted, Elems
      <4>3. \A k : Kept(k)
        BY <2>2 DEF Kept, Accepted
      <4>4. Sent => outHandler' = "on_write" /\ \A h \in OutHandlers : ~CanRun(h)'
        BY <4>1, <4>2 DEF Sent
      <4> QED BY <2>2, <4>1, <4>2, <4>3, <4>4, WireKept
    <3> QED BY <3>1, <3>2 DEF CallInv
  <2> QED BY <2>1, <2>2
<1> QED BY <1>1, <1>2, PTL DEF Spec

(* Every variable of the channel, the client and the connection stays in   *)
(* its type, whatever the calls and whether or not they overlap.           *)
THEOREM CallTypesHold == Spec => []TypeOK
<1>1. CallInv => TypeOK
  BY DEF CallInv
<1> QED BY <1>1, CallInvHolds, PTL

(* The closure is told success only about a call that the server answered  *)
(* well before its timeout, otherwise of the timeout, and of an earlier    *)
(* error of the call only if something was sent twice.                     *)
THEOREM ClosuresToldTruth == Spec => []ClosureToldTruth
<1>1. CallInv => ClosureToldTruth
  BY DEF CallInv
<1> QED BY <1>1, CallInvHolds, PTL

(* A read callback that has reset its channel is run again only if the     *)
(* server repeats an answer or a part of the out buffer went out before    *)
(* the whole.  Any number of calls may be in the buffer, connected by      *)
(* whichever ::connect told first, and the batches of the loop may hold    *)
(* handlers of before: on_write still sends each request once.             *)
THEOREM ResetChannelIsNotUsed == Spec => []NoUseAfterReset
<1>1. CallInv => NoUseAfterReset
  BY DEF CallInv
<1> QED BY <1>1, CallInvHolds, PTL

-----------------------------------------------------------------------------
(* Calls made one after the other.                                         *)

(* A timer that waits is the one the channel points to, so an answer never *)
(* robs another call of its timer; the closure of that call has not run.   *)
OnceInv ==
  /\ \A k \in Calls : Waits(k) => m_timer_event = k /\ runs[k] = 0
  /\ ClosureAtMostOnce

(* The closure that a good answer runs has not run before: the call is not *)
(* spent and has not timed out.                                            *)
LEMMA FreshRun ==
  ASSUME CallInv, NEW k \in Calls, Reads(k), ~ctl[k].canceled
  PROVE  runs[k] = 0
<1>1. CallTimerInv /\ CallTypes
  BY TypesOfCalls DEF CallInv
<1> QED BY <1>1 DEF Reads, CallTimerInv, CallTypes

LEMMA OnceStep ==
  ASSUME Overlap = FALSE, CallInv, OnceInv, Next
  PROVE  OnceInv'
<1>1. /\ CallTypes /\ loop \in {"off", "on", "stopped"} /\ CallTimerInv
      /\ ClosureAtMostOnce
      /\ \A k \in Calls : Waits(k) => m_timer_event = k /\ runs[k] = 0
  BY TypesOfCalls DEF CallInv, OnceInv
<1> USE DEF ClosureAtMostOnce
<1>2. CASE Idles
  BY <1>1, <1>2 DEF Idles, OnceInv, Waits
<1>3. ASSUME NEW k \in Calls, Begins(k)
      PROVE  OnceInv'
  <2>1. runs[k] = 0 /\ UNCHANGED runs
    BY <1>1, <1>3 DEF Begins, CallTimerInv
  <2>2. CASE UNCHANGED <<timer, m_timer_event>>
    BY <1>1, <2>1, <2>2 DEF OnceInv, Waits
  <2>3. CASE /\ timer' = [timer EXCEPT ![k] = "pending"] /\ m_timer_event' = k
             /\ Overlap \/ \A j \in called : ~Waits(j)
    <3>1. \A j \in Calls : ~Waits(j)
      BY <1>1, <2>3 DEF CallTimerInv, Waits
    <3>2. \A j \in Calls \ {k} : timer'[j] = timer[j]
      BY <1>1, <2>3 DEF CallTypes
    <3> QED BY <1>1, <2>1, <2>3, <3>1, <3>2 DEF OnceInv, Waits
  <2> QED BY <1>3, <2>2, <2>3 DEF Begins
<1>4. ASSUME NEW k \in Calls, Fails(k)
      PROVE  OnceInv'
  BY <1>1, <1>4 DEF Fails, OnceInv, Waits
<1>5. ASSUME NEW k \in Calls, Reads(k)
      PROVE  OnceInv'
  <2>1. \A j \in Calls : ~Waits(j)'
    <3>1. \A j \in Calls :
            timer'[j] = IF j = m_timer_event /\ Waits(j)
                          THEN (IF j = k THEN "cancelled" ELSE "robbed")
                          ELSE timer[j]
      BY <1>1, <1>5, ReadSet
    <3> QED BY <1>1, <3>1 DEF Waits
  <2>2. \A j \in Calls : runs'[j] <= 1
    <3>1. \A j \in Calls \ {k} : runs'[j] = runs[j]
      BY <1>1, <1>5, ReadSet
    <3>2. CASE runs'[k] = runs[k]
      BY <1>1, <3>1, <3>2
    <3>3. CASE ~ctl[k].canceled /\ (runs[k] = 0 => runs'[k] = 1)
      BY <1>1, <1>5, <3>1, <3>3, FreshRun
    <3>4. \/ runs'[k] = runs[k]
          \/ ~ctl[k].canceled /\ (runs[k] = 0 => runs'[k] = 1)
      BY <1>1, <1>5, ReadSet
    <3> QED BY <3>2, <3>3, <3>4
  <2> QED BY <2>1, <2>2 DEF OnceInv, ClosureAtMostOnce
<1>6. ASSUME NEW k \in Calls, RunsOut(k)
      PROVE  OnceInv'
  <2>1. \A j \in Calls \ {k} : timer'[j] = timer[j]
    BY <1>1, <1>6 DEF RunsOut, CallTypes
  <2>2. Waits(k) /\ UNCHANGED <<runs, m_timer_event>>
    BY <1>6 DEF RunsOut, Waits
  <2> QED BY <1>1, <2>1, <2>2 DEF OnceInv, Waits
<1>7. ASSUME NEW k \in Calls, TimesOut(k)
      PROVE  OnceInv'
  <2>1. "TIMEOUT" \in Codes /\ Waits(k) /\ runs[k] = 0 /\ UNCHANGED m_timer_event
    BY <1>1, <1>7 DEF Codes, TimesOut, Waits
  <2>2. runs'[k] = 1 /\ \A j \in Calls \ {k} : runs'[j] = runs[j]
    BY <1>1, <1>7, <2>1, ClosureRuns DEF TimesOut, CallTypes
  <2> QED BY <1>1, <1>7, <2>1, <2>2, TimeoutSet DEF OnceInv, Waits
<1> QED BY <1>2, <1>3, <1>4, <1>5, <1>6, <1>7, CallSteps

LEMMA OnceInvHolds == ASSUME Overlap = FALSE PROVE Spec => []OnceInv
<1>1. Init => OnceInv
  BY DEF Init, OnceInv, ClosureAtMostOnce, Waits
<1>2. CallInv /\ OnceInv /\ [Next]_vars => OnceInv'
  <2>1. CASE UNCHANGED vars
    BY <2>1 DEF OnceInv, ClosureAtMostOnce, Waits
  <2> QED BY <2>1, OnceStep
<1> QED BY <1>1, <1>2, CallInvHolds, PTL DEF Spec

(* When a program waits for a call to end before it makes the next one, no *)
(* closure runs twice, however the answer and the timeout are ordered and  *)
(* whatever the server repeats.  With overlapping calls this is false      *)
(* (MCRpcCallShared.cfg).                                                  *)
THEOREM ClosureRunsOnce ==
  ASSUME Overlap = FALSE
  PROVE  Spec => []ClosureAtMostOnce
<1>1. OnceInv => ClosureAtMostOnce
  BY DEF OnceInv
<1> QED BY <1>1, OnceInvHolds, PTL

-----------------------------------------------------------------------------
(* The contract.                                                           *)

outcomes == [k \in Calls |-> Outcome(k)]

(* The outcome of k changes as the contract allows, or nothing changes.    *)
Moves(k, from, to) ==
  outcomes[k] \in from /\ outcomes' = [outcomes EXCEPT ![k] = to]

LEMMA OneMoves ==
  ASSUME NEW k \in Calls, NEW from, NEW to,
         Outcome(k) \in from, Outcome(k)' = to,
         \A j \in Calls \ {k} : Outcome(j)' = Outcome(j)
  PROVE  Moves(k, from, to)
BY DEF Moves, outcomes

LEMMA NoneMoves ==
  ASSUME \A j \in Calls : Outcome(j)' = Outcome(j)
  PROVE  UNCHANGED outcomes
BY DEF outcomes

ContractMove(k) ==
  \/ UNCHANGED outcomes
  \/ Moves(k, {"none"}, "waiting")
  \/ Moves(k, {"none", "waiting"}, "error")
  \/ Moves(k, {"waiting"}, "ok")
  \/ Moves(k, {"waiting", "error"}, "timeout")

(* An answer that is used finds no error in the controller of its call, or *)
(* one that the contract counts as an error already.                       *)
LEMMA CodeFails ==
  ASSUME CallTypes, NEW k \in Calls, Answerable(k), ~ctl[k].canceled
  PROVE  \/ ctl[k].code = "0" /\ ~ctl[k].failed
         \/ ctl[k].code \in {"SERVER", "SERIALIZE"} /\ ctl[k].failed
BY DEF Answerable, Clean

LEMMA OutcomeStep ==
  ASSUME CallInv, OnceInv, Next
  PROVE  UNCHANGED outcomes \/ \E k \in Calls : ContractMove(k)
<1>1. /\ CallTypes /\ loop \in {"off", "on", "stopped"} /\ CallTimerInv
      /\ "0" \in Codes /\ "TIMEOUT" \in Codes
  BY TypesOfCalls DEF CallInv, Codes
<1>2. CASE Idles
  BY <1>2, NoneMoves DEF Idles, Outcome
<1>3. ASSUME NEW k \in Calls, Begins(k)
      PROVE  ContractMove(k)
  <2>1. /\ runs[k] = 0 /\ UNCHANGED <<runs, told>>
        /\ k \notin called /\ called' = called \cup {k} /\ ~ctl[k].failed
    BY <1>1, <1>3 DEF Begins, CallTimerInv
  <2>2. \A j \in Calls \ {k} : Outcome(j)' = Outcome(j)
    BY <1>1, <1>3, <2>1, BeginSet DEF Outcome
  <2>3. Outcome(k) = "none"
    BY <2>1 DEF Outcome
  <2>4. Outcome(k)' \in {"waiting", "error"}
    BY <2>1 DEF Outcome
  <2>5. CASE Outcome(k)' = "waiting"
    <3>1. Moves(k, {"none"}, "waiting")
      BY <2>2, <2>3, <2>5, OneMoves
    <3> QED BY <3>1 DEF ContractMove
  <2>6. CASE Outcome(k)' = "error"
    <3>1. Outcome(k) \in {"none", "waiting"}
      BY <2>3
    <3>2. Moves(k, {"none", "waiting"}, "error")
      BY <2>2, <2>6, <3>1, OneMoves
    <3> QED BY <3>2 DEF ContractMove
  <2> QED BY <2>4, <2>5, <2>6
<1>4. ASSUME NEW k \in Calls, UNCHANGED <<called, runs, told>>, k \in called,
             NEW code \in Codes, SetError(k, code)
      PROVE  ContractMove(k)
  <2>1. ctl'[k].failed /\ \A j \in Calls \ {k} : ctl'[j] = ctl[j]
    BY <1>1, <1>4, ErrorSet DEF CallTypes
  <2>2. \A j \in Calls \ {k} : Outcome(j)' = Outcome(j)
    BY <1>4, <2>1 DEF Outcome
  <2>3. \/ Outcome(k)' = Outcome(k)
        \/ Outcome(k) = "waiting" /\ Outcome(k)' = "error"
    BY <1>4, <2>1 DEF Outcome
  <2>4. CASE Outcome(k)' = Outcome(k)
    <3>1. UNCHANGED outcomes
      BY <2>2, <2>4, NoneMoves
    <3> QED BY <3>1 DEF ContractMove
  <2>5. CASE Outcome(k) = "waiting" /\ Outcome(k)' = "error"
    <3>1. Moves(k, {"none", "waiting"}, "error")
      BY <2>2, <2>5, OneMoves
    <3> QED BY <3>1 DEF ContractMove
  <2> QED BY <2>3, <2>4, <2>5
<1>5. ASSUME NEW k \in Calls, Fails(k)
      PROVE  ContractMove(k)
  BY <1>4, <1>5 DEF Fails, Accepted
<1>6. ASSUME NEW k \in Calls, Reads(k)
      PROVE  ContractMove(k)
  <2>1. CASE (\E code \in {"SERIALIZE", "SERVER"} : SetError(k, code))
             /\ UNCHANGED <<runs, told, spent>>
    <3>1. "SERIALIZE" \in Codes /\ "SERVER" \in Codes
      BY DEF Codes
    <3>2. UNCHANGED called /\ k \in called
      BY <1>6 DEF Reads, Accepted
    <3> QED BY <1>4, <2>1, <3>1, <3>2
  <2>2. CASE UNCHANGED <<ctl, runs, told>>
    <3>1. UNCHANGED called
      BY <1>6 DEF Reads
    <3>2. UNCHANGED outcomes
      BY <2>2, <3>1, NoneMoves DEF Outcome
    <3> QED BY <3>2 DEF ContractMove
  <2>3. CASE ~ctl[k].canceled /\ RunClosure(k, ctl[k].code) /\ UNCHANGED ctl
    <3>1. runs[k] = 0 /\ ctl[k].code \in Codes
      BY <1>1, <1>6, <2>3, FreshRun DEF CallTypes, Controller
    <3>2. /\ runs'[k] > 0 /\ told'[k] = ctl[k].code
          /\ \A j \in Calls \ {k} : runs'[j] = runs[j] /\ told'[j] = told[j]
      BY <1>1, <2>3, <3>1, ClosureRuns DEF CallTypes
    <3>3. UNCHANGED <<called, ctl>> /\ k \in called /\ Answerable(k)
      BY <1>6, <2>3 DEF Reads, Accepted
    <3>4. \A j \in Calls \ {k} : Outcome(j)' = Outcome(j)
      BY <3>2, <3>3 DEF Outcome
    <3>5. CASE ctl[k].code = "0" /\ ~ctl[k].failed
      <4>1. Outcome(k) \in {"waiting"} /\ Outcome(k)' = "ok"
        BY <3>1, <3>2, <3>3, <3>5 DEF Outcome
      <4>2. Moves(k, {"waiting"}, "ok")
        BY <3>4, <4>1, OneMoves
      <4> QED BY <4>2 DEF ContractMove
    <3>6. CASE ctl[k].code \in {"SERVER", "SERIALIZE"} /\ ctl[k].failed
      <4>1. Outcome(k)' = Outcome(k)
        BY <3>1, <3>2, <3>3, <3>6 DEF Outcome
      <4>2. UNCHANGED outcomes
        BY <3>4, <4>1, NoneMoves
      <4> QED BY <4>2 DEF ContractMove
    <3> QED BY <1>1, <2>3, <3>3, <3>5, <3>6, CodeFails
  <2> QED BY <1>6, <2>1, <2>2, <2>3 DEF Reads
<1>7. ASSUME NEW k \in Calls, TimesOut(k)
      PROVE  ContractMove(k)
  <2>1. Waits(k) /\ k \in called /\ runs[k] = 0 /\ UNCHANGED called
    BY <1>1, <1>7 DEF TimesOut, CallTimerInv, OnceInv, Waits
  <2>2. /\ runs'[k] > 0 /\ told'[k] = "TIMEOUT"
        /\ \A j \in Calls \ {k} : runs'[j] = runs[j] /\ told'[j] = told[j]
    BY <1>1, <1>7, ClosureRuns DEF TimesOut, CallTypes
  <2>3. \A j \in Calls \ {k} : ctl'[j] = ctl[j]
    BY <1>1, <1>7, TimeoutSet
  <2>4. Outcome(k) \in {"waiting", "error"} /\ Outcome(k)' = "timeout"
    BY <2>1, <2>2 DEF Outcome
  <2>5. \A j \in Calls \ {k} : Outcome(j)' = Outcome(j)
    BY <2>1, <2>2, <2>3 DEF Outcome
  <2>6. Moves(k, {"waiting", "error"}, "timeout")
    BY <2>4, <2>5, OneMoves
  <2> QED BY <2>6 DEF ContractMove
<1>8. ASSUME NEW k \in Calls, RunsOut(k)
      PROVE  UNCHANGED outcomes
  BY <1>8, NoneMoves DEF RunsOut, Outcome
<1> QED
  BY <1>2, <1>3, <1>5, <1>6, <1>7, <1>8, CallSteps, NoneMoves DEF ContractMove

(* Calls made one after the other keep the contract, whatever the server   *)
(* answers and repeats: each ends at most once, by a success or by a       *)
(* timeout, and what its closure was told is never taken back.             *)
THEOREM ChannelImplementsContract ==
  ASSUME Overlap = FALSE
  PROVE  Spec => ImplementsContract
<1>1. Init => Contract!Init
  BY DEF Init, Contract!Init, Outcome
<1>2. ASSUME CallInv, OnceInv, [Next]_vars
      PROVE  [Contract!Next]_(outcomes)
  <2>1. CASE UNCHANGED vars
    BY <2>1 DEF outcomes, Outcome
  <2>2. CASE Next
    <3>1. CASE UNCHANGED outcomes
      BY <3>1
    <3>2. ASSUME NEW k \in Calls, ContractMove(k)
          PROVE  [Contract!Next]_(outcomes)
      <4>1. ASSUME NEW from, NEW to, Moves(k, from, to)
            PROVE  Contract!Move(k, from, to)
        BY <4>1 DEF Moves, Contract!Move, outcomes
      <4> QED BY <3>2, <4>1, Zenon DEF ContractMove, Contract!Next
    <3> QED BY <1>2, <2>2, <3>1, <3>2, OutcomeStep
  <2> QED BY <1>2, <2>1, <2>2
<1> QED BY <1>1, <1>2, CallInvHolds, OnceInvHolds, PTL
        DEF Spec, ImplementsContract, Contract!Spec, outcomes

=============================================================================
