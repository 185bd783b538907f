-------------------------- MODULE EventLoopProofs --------------------------
(* Proofs of the safety properties of EventLoop, for any number of         *)
(* threads, descriptors and tasks.                                         *)
EXTENDS EventLoop, FiniteSetTheorems, TLAPS

USE DEF vars, epollVars

-----------------------------------------------------------------------------
(* Type correctness.                                                       *)

(* A handler task is a task, and an epoll event queues only such tasks.    *)
LEMMA HandlersType ==
  ASSUME NEW e \in EpollEvent
  PROVE  /\ Handlers(e) \in Seq(Task)
         /\ \A i \in 1..Len(Handlers(e)) :
              /\ Handlers(e)[i].op = "io"
              /\ Handlers(e)[i].fd = e.fd
              /\ ~Handlers(e)[i].idle
<1> DEFINE h1 == IF "IN"  \in e.events THEN <<IoTask(e.fd, "IN")>>  ELSE << >>
           h2 == IF "OUT" \in e.events THEN <<IoTask(e.fd, "OUT")>> ELSE << >>
<1>1. IoTask(e.fd, "IN") \in Task /\ IoTask(e.fd, "OUT") \in Task
  BY DEF IoTask, Task, EpollEvent, Events
<1>2. /\ h1 \in Seq(Task)
      /\ \A i \in 1..Len(h1) : h1[i] = IoTask(e.fd, "IN")
  BY <1>1
<1>3. /\ h2 \in Seq(Task)
      /\ \A i \in 1..Len(h2) : h2[i] = IoTask(e.fd, "OUT")
  BY <1>1
<1>4. Handlers(e) = h1 \o h2
  BY DEF Handlers
<1> HIDE DEF h1, h2
<1>5. /\ Handlers(e) \in Seq(Task)
      /\ \A i \in 1..Len(Handlers(e)) :
           Handlers(e)[i] \in {IoTask(e.fd, "IN"), IoTask(e.fd, "OUT")}
  BY <1>2, <1>3, <1>4
<1> QED BY <1>5 DEF IoTask

(* A batch is a finite sequence of reportable descriptors, each once.      *)
LEMMA BatchLength ==
  ASSUME TypeOK, NEW s \in Batches
  PROVE  \E n \in Nat : /\ s \in [1..n -> Reportable]
                         /\ \A i, j \in 1..n : i # j => s[i] # s[j]
<1>1. IsFiniteSet(Reportable)
  <2>1. IsFiniteSet(AllFds)
    BY FdsAssumption, FS_AddElement DEF AllFds
  <2>2. Reportable \subseteq AllFds
    BY DEF Reportable, TypeOK
  <2> QED BY <2>1, <2>2, FS_Subset
<1> QED BY <1>1, FS_CardinalityType, MaxEventsAssumption DEF Batches

(* Every state of EventLoop is well typed: the variables of loop(),        *)
(* add_task and the epoll bookkeeping keep their types at every step.      *)
THEOREM TypeCorrect == Spec => []TypeOK
<1>1. Init => TypeOK
  <2> SUFFICES ASSUME Init PROVE TypeOK
    OBVIOUS
  <2>1. /\ m_pending_tasks \in Seq(Task)
        /\ temp_tasks \in Seq(Task)
        /\ result_event \in Seq(EpollEvent)
    BY DEF Init
  <2>2. /\ m_listen_events \in [AllFds -> SUBSET Events]
        /\ interest \in [AllFds -> SUBSET Events]
        /\ ready \in [AllFds -> SUBSET Reports]
    BY DEF Init, Events
  <2>3. /\ pc \in LoopPCs
        /\ m_stop_flag \in BOOLEAN
        /\ m_is_looping \in BOOLEAN
    BY DEF Init, LoopPCs
  <2>4. /\ m_listen_fds \in SUBSET AllFds
        /\ registered \in SUBSET AllFds
        /\ stopping \in SUBSET Callers
    BY DEF Init, AllFds
  <2>5. posted \in 0..MaxPosts /\ ran \in Nat
    BY MaxPostsAssumption DEF Init
  <2> QED BY <2>1, <2>2, <2>3, <2>4, <2>5 DEF TypeOK
<1>2. TypeOK /\ [Next]_vars => TypeOK'
  <2> SUFFICES ASSUME TypeOK, [Next]_vars PROVE TypeOK'
    OBVIOUS
  <2> USE DEF TypeOK, LoopPCs
  <2>1. CASE LoopStart
    BY <2>1 DEF LoopStart
  <2>2. CASE LoopContinue \/ LoopExit \/ SwapTasks \/ BeginWait \/ EpollTimeout
    <3>1. CASE LoopContinue
      BY <3>1 DEF LoopContinue
    <3>2. CASE LoopExit
      BY <3>2 DEF LoopExit
    <3>3. CASE SwapTasks
      BY <3>3 DEF SwapTasks
    <3>4. CASE BeginWait
      BY <3>4 DEF BeginWait
    <3>5. CASE EpollTimeout
      BY <3>5 DEF EpollTimeout
    <3> QED BY <2>2, <3>1, <3>2, <3>3, <3>4, <3>5
  <2>3. CASE RunAdd
    <3>1. Head(temp_tasks) \in Task /\ Tail(temp_tasks) \in Seq(Task)
      BY <2>3 DEF RunAdd, NextTask
    <3> QED BY <2>3, <3>1 DEF RunAdd, NextTask, AddToEpoll, Task
  <2>4. CASE RunDelete
    <3>1. Head(temp_tasks) \in Task /\ Tail(temp_tasks) \in Seq(Task)
      BY <2>4 DEF RunDelete, NextTask
    <3> QED BY <2>4, <3>1 DEF RunDelete, NextTask, DeleteFromEpoll, Task
  <2>5. CASE RunDrain
    <3>1. Tail(temp_tasks) \in Seq(Task)
      BY <2>5 DEF RunDrain, NextTask
    <3> QED BY <2>5, <3>1 DEF RunDrain, NextTask, Task, AllFds
  <2>6. CASE RunHandler
    <3>1. Head(temp_tasks) \in Task /\ Tail(temp_tasks) \in Seq(Task)
      BY <2>6 DEF RunHandler, NextTask
    <3>2. PICK f \in AllFds : f = Head(temp_tasks).fd
      BY <3>1 DEF Task
    <3>3. /\ m_stop_flag' \in BOOLEAN
          /\ m_listen_fds' \in SUBSET AllFds
          /\ registered' \in SUBSET AllFds
      BY <2>6, <3>2 DEF RunHandler, AddToEpoll, DeleteFromEpoll
    <3>4. m_listen_events' \in [AllFds -> SUBSET Events]
      BY <2>6, <3>2 DEF RunHandler
    <3>5. interest' \in [AllFds -> SUBSET Events]
      BY <2>6, <3>2 DEF RunHandler, AddToEpoll, DeleteFromEpoll
    <3>6. ready' \in [AllFds -> SUBSET Reports]
      BY <2>6, <3>2 DEF RunHandler, Reports, Events
    <3> QED BY <2>6, <3>1, <3>3, <3>4, <3>5, <3>6 DEF RunHandler, NextTask
  <2>7. CASE EpollReturn
    <3>1. PICK s \in Batches :
            result_event' = [i \in DOMAIN s |->
                               [fd |-> s[i], events |-> Reported(s[i])]]
      BY <2>7 DEF EpollReturn
    <3>2. PICK n \in Nat : s \in [1..n -> Reportable]
      BY BatchLength
    <3>3. \A f \in Reportable : [fd |-> f, events |-> Reported(f)] \in EpollEvent
      BY DEF Reportable, Reported, EpollEvent, Reports
    <3>4. result_event' \in Seq(EpollEvent)
      BY <3>1, <3>2, <3>3
    <3> QED BY <2>7, <3>4 DEF EpollReturn
  <2>8. CASE Dispatch
    <3>1. Head(result_event) \in EpollEvent /\ Tail(result_event) \in Seq(EpollEvent)
      BY <2>8 DEF Dispatch
    <3>2. m_pending_tasks' \in Seq(Task)
      BY <2>8, <3>1, HandlersType DEF Dispatch
    <3> QED BY <2>8, <3>1, <3>2 DEF Dispatch, DeleteFromEpoll, EpollEvent
  <2>9. CASE \E c \in Callers : CallerThread(c)
    <3>1. PICK c \in Callers : CallerThread(c)
      BY <2>9
    <3>2. ASSUME NEW f \in Fds, NEW op \in {"add", "del"}, AddTask(op, f)
          PROVE  /\ posted' \in 0..MaxPosts
                 /\ m_pending_tasks' \in Seq(Task)
                 /\ ready' \in [AllFds -> SUBSET Reports]
      BY <3>2, MaxPostsAssumption DEF AddTask, Task, AllFds, Events, Reports
    <3>3. CASE \E f \in Fds : AddEpollEvent(c, f) \/ DeleteEpollEvent(c, f)
      BY <3>2, <3>3 DEF AddEpollEvent, DeleteEpollEvent
    <3>4. CASE \E f \in Fds, e \in Events : Listen(c, f, e) \/ Cancel(c, f, e)
      BY <3>4 DEF Listen, Cancel, AllFds
    <3>5. CASE StopFlag(c) \/ StopWakeUp(c)
      <4>1. CASE StopFlag(c)
        BY <4>1 DEF StopFlag
      <4>2. CASE StopWakeUp(c)
        BY <4>2 DEF StopWakeUp, AllFds, Events, Reports
      <4> QED BY <3>5, <4>1, <4>2
    <3> QED BY <3>1, <3>3, <3>4, <3>5 DEF CallerThread
  <2>10. CASE \E f \in Fds, e \in Reports : BecomeReady(f, e)
    BY <2>10 DEF BecomeReady, AllFds
  <2>11. CASE UNCHANGED vars
    BY <2>11
  <2> QED
    BY <2>1, <2>2, <2>3, <2>4, <2>5, <2>6, <2>7, <2>8, <2>9, <2>10, <2>11
    DEF Next, LoopThread
<1> QED BY <1>1, <1>2, PTL DEF Spec

-----------------------------------------------------------------------------
(* The order of the posted tasks.                                          *)

(* Posting a task numbered hi+1 at the end keeps the order.                *)
LEMMA InOrderPost ==
  ASSUME NEW s \in Seq(Task), NEW t \in Task, NEW lo \in Nat, NEW hi \in Nat,
         Posted(t), t.id = hi + 1, lo <= hi, InOrder(s, lo, hi)
  PROVE  InOrder(Append(s, t), lo, hi + 1)
<1> DEFINE r == Append(s, t)
<1>1. /\ Len(r) = Len(s) + 1
      /\ \A i \in 1..Len(s) : r[i] = s[i]
      /\ r[Len(s) + 1] = t
  OBVIOUS
<1> HIDE DEF r
<1>2. \A i \in 1..Len(r) : Posted(r[i]) => r[i].id \in (lo + 1)..(hi + 1)
  BY <1>1 DEF InOrder
<1>3. \A i, j \in 1..Len(r) :
        (i < j /\ Posted(r[i]) /\ Posted(r[j])) => r[i].id < r[j].id
  <2> SUFFICES ASSUME NEW i \in 1..Len(r), NEW j \in 1..Len(r),
                      i < j, Posted(r[i]), Posted(r[j])
               PROVE  r[i].id < r[j].id
    OBVIOUS
  <2>1. i \in 1..Len(s) /\ r[i] = s[i]
    BY <1>1
  <2>2. CASE j = Len(s) + 1
    BY <1>1, <2>1, <2>2 DEF InOrder
  <2>3. CASE j # Len(s) + 1
    <3>1. j \in 1..Len(s) /\ r[j] = s[j]
      BY <1>1, <2>3
    <3> QED BY <2>1, <3>1 DEF InOrder
  <2> QED BY <2>2, <2>3
<1>4. \A n \in (lo + 1)..(hi + 1) :
        \E i \in 1..Len(r) : Posted(r[i]) /\ r[i].id = n
  <2> SUFFICES ASSUME NEW n \in (lo + 1)..(hi + 1)
               PROVE  \E i \in 1..Len(r) : Posted(r[i]) /\ r[i].id = n
    OBVIOUS
  <2>1. CASE n = hi + 1
    BY <1>1, <2>1
  <2>2. CASE n # hi + 1
    <3>1. PICK i \in 1..Len(s) : Posted(s[i]) /\ s[i].id = n
      BY <2>2 DEF InOrder
    <3> QED BY <1>1, <3>1
  <2> QED BY <2>1, <2>2
<1> QED BY <1>2, <1>3, <1>4 DEF InOrder, r

(* Handlers queued at the end do not disturb the order.                    *)
LEMMA InOrderHandlers ==
  ASSUME NEW s \in Seq(Task), NEW h \in Seq(Task), NEW lo \in Nat, NEW hi \in Nat,
         \A i \in 1..Len(h) : h[i].op = "io", InOrder(s, lo, hi)
  PROVE  InOrder(s \o h, lo, hi)
<1> DEFINE r == s \o h
<1>1. /\ Len(r) = Len(s) + Len(h)
      /\ \A i \in 1..Len(s) : r[i] = s[i]
      /\ \A i \in 1..Len(r) : i > Len(s) => ~Posted(r[i])
  BY DEF Posted
<1> HIDE DEF r
<1>2. \A i \in 1..Len(r) : Posted(r[i]) => i \in 1..Len(s)
  BY <1>1
<1> QED BY <1>1, <1>2 DEF InOrder, r

(* Taking the first task: a posted one is the next in the order, and what  *)
(* remains is still in order.                                              *)
LEMMA InOrderTake ==
  ASSUME NEW s \in Seq(Task), s # << >>, NEW lo \in Nat, NEW hi \in Nat,
         InOrder(s, lo, hi)
  PROVE  /\ Posted(Head(s)) => /\ Head(s).id = lo + 1
                               /\ lo < hi
                               /\ InOrder(Tail(s), lo + 1, hi)
         /\ ~Posted(Head(s)) => InOrder(Tail(s), lo, hi)
<1> DEFINE r == Tail(s)
<1>1. /\ Len(s) \in Nat \ {0}
      /\ Len(r) = Len(s) - 1
      /\ \A i \in 1..Len(r) : r[i] = s[i + 1]
      /\ Head(s) = s[1]
  OBVIOUS
<1>2. \A i \in 1..Len(s) : s[i].id \in Nat
  <2>1. \A i \in 1..Len(s) : s[i] \in Task
    OBVIOUS
  <2> QED BY <2>1 DEF Task
<1> HIDE DEF r
<1>3. ASSUME Posted(s[1])
      PROVE  s[1].id = lo + 1 /\ lo < hi
  <2>1. s[1].id \in (lo + 1)..hi
    BY <1>1, <1>3 DEF InOrder
  <2>2. PICK i \in 1..Len(s) : Posted(s[i]) /\ s[i].id = lo + 1
    BY <2>1 DEF InOrder
  <2>3. i = 1 \/ s[1].id < s[i].id
    BY <1>1, <1>3, <2>2 DEF InOrder
  <2> QED BY <1>1, <1>2, <2>1, <2>2, <2>3
<1>4. \A i \in 1..Len(r) : i + 1 \in 1..Len(s) /\ r[i] = s[i + 1]
  BY <1>1
<1>5. \A i \in 1..Len(r) : Posted(r[i]) =>
        r[i].id \in (lo + 1)..hi /\ (Posted(s[1]) => s[1].id < r[i].id)
  <2> TAKE i \in 1..Len(r)
  <2>1. i + 1 \in 1..Len(s) /\ r[i] = s[i + 1] /\ 1 < i + 1 /\ 1 \in 1..Len(s)
    BY <1>1, <1>4
  <2> QED BY <2>1 DEF InOrder
<1>6. \A i, j \in 1..Len(r) :
        (i < j /\ Posted(r[i]) /\ Posted(r[j])) => r[i].id < r[j].id
  <2> TAKE i, j \in 1..Len(r)
  <2>1. /\ i + 1 \in 1..Len(s) /\ r[i] = s[i + 1]
        /\ j + 1 \in 1..Len(s) /\ r[j] = s[j + 1]
        /\ i < j => i + 1 < j + 1
    BY <1>1, <1>4
  <2> QED BY <2>1 DEF InOrder
<1>7. ASSUME NEW n \in (lo + 1)..hi, Posted(s[1]) => n # lo + 1
      PROVE  \E i \in 1..Len(r) : Posted(r[i]) /\ r[i].id = n
  <2>1. PICK i \in 1..Len(s) : Posted(s[i]) /\ s[i].id = n
    BY DEF InOrder
  <2>2. i # 1
    BY <1>3, <1>7, <2>1
  <2>3. i - 1 \in 1..Len(r) /\ r[i - 1] = s[i]
    BY <1>1, <2>2
  <2> QED BY <2>1, <2>3
<1>8. ASSUME Posted(s[1])
      PROVE  InOrder(r, lo + 1, hi)
  <2>1. \A i \in 1..Len(r) : Posted(r[i]) => r[i].id \in ((lo + 1) + 1)..hi
    BY <1>3, <1>5, <1>8
  <2>2. \A n \in ((lo + 1) + 1)..hi :
          \E i \in 1..Len(r) : Posted(r[i]) /\ r[i].id = n
    BY <1>7
  <2> QED BY <1>6, <2>1, <2>2 DEF InOrder
<1>9. ASSUME ~Posted(s[1])
      PROVE  InOrder(r, lo, hi)
  BY <1>5, <1>6, <1>7, <1>9 DEF InOrder
<1> QED BY <1>1, <1>3, <1>8, <1>9 DEF r

(* temp_tasks is only in use while the batch runs.                         *)
TempInv == pc # "run" => temp_tasks = << >>

(* What a step does to the backlog: nothing, one task posted at the end,   *)
(* the first task taken, or the handlers of one epoll event queued.        *)
StepKeeps == Backlog' = Backlog /\ ran' = ran /\ posted' = posted

StepPosts ==
  \E t \in Task : /\ Backlog' = Append(Backlog, t)
                  /\ Posted(t) /\ t.id = posted + 1 /\ t.fd # WakeFd
                  /\ posted' = posted + 1 /\ ran' = ran
                  /\ m_stop_flag' = m_stop_flag

StepTakes ==
  /\ Backlog # << >> /\ Backlog' = Tail(Backlog)
  /\ posted' = posted
  /\ Posted(Head(Backlog)) => /\ ran' = Head(Backlog).id
                              /\ m_stop_flag' = m_stop_flag
  /\ ~Posted(Head(Backlog)) => ran' = ran

StepQueues ==
  /\ pc = "dispatch" /\ result_event # << >>
  /\ Backlog' = Backlog \o Handlers(Head(result_event))
  /\ result_event' = Tail(result_event)
  /\ posted' = posted /\ ran' = ran
  /\ m_stop_flag' = m_stop_flag

(* Every step of the loop or of a caller changes the backlog in one of the *)
(* four ways above, and keeps TempInv.                                     *)
LEMMA BacklogStep ==
  ASSUME TypeOK, TempInv, [Next]_vars
  PROVE  /\ TempInv'
         /\ StepKeeps \/ StepPosts \/ StepTakes \/ StepQueues
<1> USE DEF TypeOK, TempInv, Backlog
<1>1. CASE \/ LoopStart \/ LoopContinue \/ LoopExit \/ BeginWait
           \/ EpollReturn \/ EpollTimeout \/ UNCHANGED vars
  BY <1>1 DEF LoopStart, LoopContinue, LoopExit, BeginWait, EpollReturn,
              EpollTimeout, StepKeeps
<1>2. CASE SwapTasks
  <2>1. temp_tasks = << >> /\ temp_tasks' = m_pending_tasks
                          /\ m_pending_tasks' = << >>
    BY <1>2 DEF SwapTasks
  <2>2. Backlog' = Backlog
    BY <2>1
  <2> QED BY <1>2, <2>2 DEF SwapTasks, StepKeeps
<1>3. CASE RunAdd \/ RunDelete \/ RunDrain \/ RunHandler
  <2>1. /\ pc = "run" /\ pc' = "run" /\ temp_tasks # << >>
        /\ temp_tasks' = Tail(temp_tasks)
        /\ m_pending_tasks' = m_pending_tasks /\ posted' = posted
    BY <1>3 DEF RunAdd, RunDelete, RunDrain, RunHandler, NextTask
  <2>2. /\ Backlog # << >>
        /\ Backlog' = Tail(Backlog)
        /\ Head(Backlog) = Head(temp_tasks)
    BY <2>1
  <2>3. /\ Posted(Head(temp_tasks)) => /\ ran' = Head(temp_tasks).id
                                       /\ m_stop_flag' = m_stop_flag
        /\ ~Posted(Head(temp_tasks)) => ran' = ran
    BY <1>3 DEF RunAdd, RunDelete, RunDrain, RunHandler, NextTask, Posted
  <2> QED BY <2>1, <2>2, <2>3 DEF StepTakes
<1>4. CASE Dispatch
  <2>1. temp_tasks = << >> /\ temp_tasks' = << >>
    BY <1>4 DEF Dispatch
  <2>2. Head(result_event) \in EpollEvent
    BY <1>4 DEF Dispatch
  <2>3. m_pending_tasks' = m_pending_tasks \o Handlers(Head(result_event))
    BY <1>4 DEF Dispatch
  <2>4. /\ Handlers(Head(result_event)) \in Seq(Task)
        /\ \A i \in 1..Len(Handlers(Head(result_event))) :
              Handlers(Head(result_event))[i].op = "io"
    BY <2>2, HandlersType
  <2>5. Backlog' = Backlog \o Handlers(Head(result_event))
    BY <2>1, <2>3, <2>4
  <2> QED BY <1>4, <2>1, <2>5 DEF Dispatch, StepQueues
<1>5. CASE \E c \in Callers : CallerThread(c)
  <2>1. PICK c \in Callers : CallerThread(c)
    BY <1>5
  <2>2. CASE \E f \in Fds : AddEpollEvent(c, f) \/ DeleteEpollEvent(c, f)
    <3>1. PICK f \in Fds, op \in {"add", "del"} :
            /\ AddTask(op, f)
            /\ UNCHANGED <<pc, m_stop_flag, temp_tasks, ran>>
      BY <2>2 DEF AddEpollEvent, DeleteEpollEvent
    <3> DEFINE t == [op |-> op, fd |-> f, ev |-> "IN", id |-> posted + 1,
                     idle |-> pc = "wait"]
    <3>2. /\ t \in Task /\ Posted(t) /\ t.id = posted + 1 /\ t.fd # WakeFd
      BY MaxPostsAssumption, WakeFdAssumption DEF Task, AllFds, Events, Posted
    <3>3. m_pending_tasks' = Append(m_pending_tasks, t) /\ posted' = posted + 1
      BY <3>1 DEF AddTask
    <3> HIDE DEF t
    <3>4. Backlog' = Append(Backlog, t)
      BY <3>1, <3>2, <3>3
    <3> QED BY <3>1, <3>2, <3>3, <3>4 DEF StepPosts
  <2>3. CASE \E f \in Fds, e \in Events : Listen(c, f, e) \/ Cancel(c, f, e)
    BY <2>3 DEF Listen, Cancel, StepKeeps
  <2>4. CASE StopFlag(c) \/ StopWakeUp(c)
    BY <2>4 DEF StopFlag, StopWakeUp, StepKeeps
  <2> QED BY <2>1, <2>2, <2>3, <2>4 DEF CallerThread
<1>6. CASE \E f \in Fds, e \in Reports : BecomeReady(f, e)
  BY <1>6 DEF BecomeReady, StepKeeps
<1> QED BY <1>1, <1>2, <1>3, <1>4, <1>5, <1>6 DEF Next, LoopThread

(* Registration changes posted by other threads are run exactly once and   *)
(* in the order in which add_task accepted them.                           *)
OrderInv == TempInv /\ BacklogInOrder /\ ran <= posted

(* OrderInv is inductive.                                                  *)
LEMMA OrderStep ==
  ASSUME TypeOK, OrderInv, [Next]_vars
  PROVE  OrderInv'
<1>1. TempInv'
  BY BacklogStep DEF OrderInv
<1>2. Backlog \in Seq(Task) /\ ran \in Nat /\ posted \in Nat
  BY MaxPostsAssumption DEF TypeOK, Backlog
<1> USE DEF OrderInv, BacklogInOrder
<1>3. CASE StepKeeps
  BY <1>1, <1>2, <1>3 DEF StepKeeps
<1>4. CASE StepPosts
  <2>1. PICK t \in Task : /\ Backlog' = Append(Backlog, t)
                          /\ Posted(t) /\ t.id = posted + 1
                          /\ posted' = posted + 1 /\ ran' = ran
    BY <1>4 DEF StepPosts
  <2>2. InOrder(Append(Backlog, t), ran, posted + 1)
    BY <1>2, <2>1, InOrderPost
  <2> QED BY <1>1, <1>2, <2>1, <2>2
<1>5. CASE StepTakes
  <2>1. /\ Posted(Head(Backlog)) => /\ Head(Backlog).id = ran + 1
                                    /\ ran < posted
                                    /\ InOrder(Tail(Backlog), ran + 1, posted)
        /\ ~Posted(Head(Backlog)) => InOrder(Tail(Backlog), ran, posted)
    BY <1>2, <1>5, InOrderTake DEF StepTakes
  <2> QED BY <1>1, <1>2, <1>5, <2>1 DEF StepTakes
<1>6. CASE StepQueues
  <2> DEFINE h == Handlers(Head(result_event))
  <2>1. Head(result_event) \in EpollEvent
    BY <1>6 DEF StepQueues, TypeOK
  <2>2. h \in Seq(Task) /\ \A i \in 1..Len(h) : h[i].op = "io"
    BY <2>1, HandlersType
  <2> HIDE DEF h
  <2>3. InOrder(Backlog \o h, ran, posted)
    BY <1>2, <2>2, InOrderHandlers
  <2> QED BY <1>1, <1>2, <1>6, <2>3 DEF StepQueues, h
<1> QED BY <1>3, <1>4, <1>5, <1>6, BacklogStep

(* The loop starts with an empty backlog.                                  *)
LEMMA OrderInit == Init => OrderInv
<1> SUFFICES ASSUME Init PROVE OrderInv
  OBVIOUS
<1>1. Backlog = << >> /\ Len(Backlog) = 0
  BY DEF Init, Backlog
<1> QED BY <1>1 DEF Init, OrderInv, TempInv, BacklogInOrder, InOrder

(* For any number of threads and tasks, the backlog of the loop holds      *)
(* exactly the posted tasks that have not run, in posting order: the swap  *)
(* of m_pending_tasks under m_mtx loses and reorders nothing.              *)
THEOREM PostedTasksInOrder == Spec => []BacklogInOrder
<1>1. TypeOK /\ OrderInv /\ [Next]_vars => OrderInv'
  BY OrderStep
<1>2. OrderInv => BacklogInOrder
  BY DEF OrderInv
<1> QED BY <1>1, <1>2, OrderInit, TypeCorrect, PTL DEF Spec

(* The event loop implements the abstract executor: each step of the loop  *)
(* or of a caller is a Post, a Run of the oldest task, a Stop, or invisible*)
(* to it.                                                                  *)
THEOREM LoopImplementsExecutor == Spec => ImplementsExecutor
<1>1. Init => Executor!Init
  BY DEF Init, Executor!Init
<1>2. ASSUME TypeOK, OrderInv, [Next]_vars
      PROVE  [Executor!Next]_(Executor!vars)
  <2> USE DEF Executor!vars, Executor!Next
  <2>1. m_stop_flag' = m_stop_flag \/ m_stop_flag' = TRUE
    <3>1. CASE RunHandler
      BY <3>1 DEF RunHandler
    <3>2. CASE LoopStart \/ (LoopThread /\ ~RunHandler)
      BY <3>2 DEF LoopStart, LoopThread, LoopContinue, LoopExit, SwapTasks, RunAdd,
                  RunDelete, RunDrain, BeginWait, EpollReturn, EpollTimeout,
                  Dispatch
    <3>3. CASE \E c \in Callers : CallerThread(c)
      BY <3>3 DEF CallerThread, AddEpollEvent, DeleteEpollEvent, Listen, Cancel,
                  StopFlag, StopWakeUp
    <3>4. CASE \E f \in Fds, e \in Reports : BecomeReady(f, e)
      BY <3>4 DEF BecomeReady
    <3> QED BY <1>2, <3>1, <3>2, <3>3, <3>4 DEF Next
  <2>2. Backlog \in Seq(Task) /\ ran \in Nat /\ posted \in Nat
    BY <1>2, MaxPostsAssumption DEF TypeOK, Backlog
  <2>3. CASE StepKeeps
    BY <2>1, <2>3 DEF StepKeeps, Executor!Stop
  <2>4. CASE StepPosts
    BY <2>4 DEF StepPosts, Executor!Post
  <2>5. CASE StepTakes
    <3>1. CASE Posted(Head(Backlog))
      <4>1. ran' = ran + 1 /\ ran < posted
        BY <1>2, <2>2, <2>5, <3>1, InOrderTake
        DEF StepTakes, OrderInv, BacklogInOrder
      <4> QED BY <2>5, <3>1, <4>1 DEF StepTakes, Executor!Run
    <3>2. CASE ~Posted(Head(Backlog))
      BY <2>1, <2>5, <3>2 DEF StepTakes, Executor!Stop
    <3> QED BY <3>1, <3>2
  <2>6. CASE StepQueues
    BY <2>6 DEF StepQueues
  <2> QED BY <1>2, <2>3, <2>4, <2>5, <2>6, BacklogStep DEF OrderInv
<1>3. TypeOK /\ OrderInv /\ [Next]_vars => OrderInv'
  BY OrderStep
<1> QED
  BY <1>1, <1>2, <1>3, OrderInit, TypeCorrect, PTL
  DEF Spec, ImplementsExecutor, Executor!Spec

-----------------------------------------------------------------------------
(* The epoll bookkeeping.                                                  *)

(* For any number of descriptors, m_listen_fds is exactly the set that is  *)
(* registered with the kernel, so the choice of add_to_epoll between       *)
(* EPOLL_CTL_ADD and EPOLL_CTL_MOD is never the wrong one.                 *)
THEOREM EpollRecordIsRight == Spec => []ListenFdsMatchEpoll
<1> USE DEF ListenFdsMatchEpoll
<1>1. Init => ListenFdsMatchEpoll
  BY DEF Init
<1>2. ListenFdsMatchEpoll /\ [Next]_vars => ListenFdsMatchEpoll'
  <2> SUFFICES ASSUME ListenFdsMatchEpoll, [Next]_vars
               PROVE  ListenFdsMatchEpoll'
    OBVIOUS
  <2>1. ASSUME NEW f, NEW mask, AddToEpoll(f, mask)
        PROVE  ListenFdsMatchEpoll'
    BY <2>1 DEF AddToEpoll
  <2>2. ASSUME NEW f, DeleteFromEpoll(f)
        PROVE  ListenFdsMatchEpoll'
    BY <2>2 DEF DeleteFromEpoll
  <2>3. CASE LoopStart \/ LoopContinue \/ LoopExit \/ SwapTasks \/ RunDrain
             \/ BeginWait \/ EpollReturn \/ EpollTimeout \/ UNCHANGED vars
    BY <2>3 DEF LoopStart, LoopContinue, LoopExit, SwapTasks, RunDrain,
                BeginWait, EpollReturn, EpollTimeout
  <2>4. CASE RunAdd
    BY <2>1, <2>4 DEF RunAdd
  <2>5. CASE RunDelete
    BY <2>2, <2>5 DEF RunDelete
  <2>6. CASE RunHandler
    BY <2>1, <2>2, <2>6 DEF RunHandler
  <2>7. CASE Dispatch
    BY <2>2, <2>7 DEF Dispatch
  <2>8. CASE \E c \in Callers : CallerThread(c)
    BY <2>8 DEF CallerThread, AddEpollEvent, DeleteEpollEvent, Listen, Cancel,
                StopFlag, StopWakeUp
  <2>9. CASE \E f \in Fds, e \in Reports : BecomeReady(f, e)
    BY <2>9 DEF BecomeReady
  <2> QED
    BY <2>3, <2>4, <2>5, <2>6, <2>7, <2>8, <2>9 DEF Next, LoopThread
<1> QED BY <1>1, <1>2, PTL DEF Spec

-----------------------------------------------------------------------------
(* The wakeup.                                                             *)

(* What an idle wakeup rests on: the eventfd stays registered for input    *)
(* and no error is ever reported for it, no posted task is about it, a     *)
(* task marked idle is gone from the queue before the next batch runs, and *)
(* while the loop waits such a task comes with a readable eventfd.         *)
WakeInv ==
  /\ WakeFd \in registered /\ "IN" \in interest[WakeFd]
  /\ "ERR" \notin ready[WakeFd]
  /\ \A i \in 1..Len(result_event) :
       result_event[i].fd = WakeFd => "ERR" \notin result_event[i].events
  /\ \A i \in 1..Len(Backlog) : Posted(Backlog[i]) => Backlog[i].fd # WakeFd
  /\ \A i \in 1..Len(m_pending_tasks) : m_pending_tasks[i].idle =>
       pc # "run" /\ (pc = "wait" => "IN" \in ready[WakeFd])

(* The tasks in the backlog after a step are those before it, a posted one *)
(* for another descriptor than the eventfd, and handlers.                  *)
LEMMA BacklogWakeStep ==
  ASSUME TypeOK, TempInv, [Next]_vars,
         \A i \in 1..Len(Backlog) : Posted(Backlog[i]) => Backlog[i].fd # WakeFd
  PROVE  (\A i \in 1..Len(Backlog) : Posted(Backlog[i]) => Backlog[i].fd # WakeFd)'
<1>1. Backlog \in Seq(Task)
  BY DEF TypeOK, Backlog
<1>2. CASE StepKeeps
  BY <1>2 DEF StepKeeps
<1>3. CASE StepPosts
  BY <1>1, <1>3 DEF StepPosts
<1>4. CASE StepTakes
  BY <1>1, <1>4 DEF StepTakes
<1>5. CASE StepQueues
  <2>1. Head(result_event) \in EpollEvent
    BY <1>5 DEF StepQueues, TypeOK
  <2> DEFINE h == Handlers(Head(result_event))
  <2>2. h \in Seq(Task) /\ \A i \in 1..Len(h) : ~Posted(h[i])
    BY <2>1, HandlersType DEF Posted
  <2> HIDE DEF h
  <2>3. Backlog' = Backlog \o h
    BY <1>5 DEF StepQueues, h
  <2> QED BY <1>1, <2>2, <2>3
<1> QED BY <1>2, <1>3, <1>4, <1>5, BacklogStep

(* What the epoll operations leave of the eventfd's registration.          *)
LEMMA EpollKeepsWakeFd ==
  ASSUME TypeOK, NEW f \in AllFds, NEW mask \in SUBSET Events, f # WakeFd,
         AddToEpoll(f, mask) \/ DeleteFromEpoll(f)
  PROVE  /\ WakeFd \in registered => WakeFd \in registered'
         /\ interest'[WakeFd] = interest[WakeFd]
BY DEF TypeOK, AllFds, AddToEpoll, DeleteFromEpoll

(* WakeInv is inductive.                                                   *)
LEMMA WakeStep ==
  ASSUME TypeOK, TempInv, WakeInv, [Next]_vars
  PROVE  WakeInv'
<1> DEFINE
      Registered == WakeFd \in registered /\ "IN" \in interest[WakeFd]
      NoError == /\ "ERR" \notin ready[WakeFd]
                 /\ \A i \in 1..Len(result_event) : result_event[i].fd = WakeFd
                      => "ERR" \notin result_event[i].events
      Idle == \A i \in 1..Len(m_pending_tasks) : m_pending_tasks[i].idle =>
                pc # "run" /\ (pc = "wait" => "IN" \in ready[WakeFd])
<1>1. SUFFICES Registered' /\ NoError' /\ Idle'
  BY BacklogWakeStep DEF WakeInv
<1> USE DEF WakeInv
<1>2. WakeFd \in AllFds /\ "IN" # "ERR"
  BY DEF AllFds
<1>3. CASE \/ LoopStart \/ LoopContinue \/ LoopExit \/ EpollTimeout
           \/ BeginWait \/ SwapTasks \/ UNCHANGED vars
  BY <1>3 DEF LoopStart, LoopContinue, LoopExit, EpollTimeout, BeginWait,
              SwapTasks
<1>4. CASE RunAdd \/ RunDelete
  <2>1. /\ temp_tasks # << >> /\ Head(temp_tasks) \in Task
        /\ Posted(Head(temp_tasks)) /\ Head(temp_tasks).fd # WakeFd
    <3>1. temp_tasks # << >> /\ Posted(Head(temp_tasks))
      BY <1>4 DEF RunAdd, RunDelete, NextTask, Posted
    <3>2. /\ 1 \in 1..Len(Backlog) /\ Head(temp_tasks) = Backlog[1]
          /\ Head(temp_tasks) \in Task
      BY <3>1 DEF TypeOK, Backlog
    <3> QED BY <3>1, <3>2
  <2>2. Registered'
    <3>1. /\ Head(temp_tasks).fd \in AllFds
          /\ m_listen_events[Head(temp_tasks).fd] \in SUBSET Events
      BY <2>1 DEF Task, TypeOK
    <3> QED BY <1>4, <2>1, <3>1, EpollKeepsWakeFd DEF RunAdd, RunDelete
  <2> QED BY <1>4, <2>2 DEF RunAdd, RunDelete, NextTask
<1>5. CASE RunDrain
  BY <1>5 DEF RunDrain, NextTask, TypeOK
<1>6. CASE RunHandler
  <2>1. /\ Head(temp_tasks).fd \in AllFds /\ Head(temp_tasks).fd # WakeFd
        /\ ready \in [AllFds -> SUBSET Reports]
    <3>1. Head(temp_tasks) \in Task
      BY <1>6 DEF RunHandler, NextTask, TypeOK
    <3> QED BY <1>6, <3>1 DEF RunHandler, TypeOK, Task
  <2>2. PICK f \in AllFds : f = Head(temp_tasks).fd /\ f # WakeFd
    BY <2>1
  <2>3. Registered'
    BY <1>6, <2>2, EpollKeepsWakeFd DEF RunHandler, TypeOK
  <2>4. ready'[WakeFd] = ready[WakeFd] \/ ready'[WakeFd] = {"IN"}
    BY <1>2, <1>6, <2>1, <2>2 DEF RunHandler
  <2> QED BY <1>6, <2>3, <2>4 DEF RunHandler, NextTask
<1>7. CASE EpollReturn
  <2>1. PICK s \in Batches :
          result_event' = [i \in DOMAIN s |->
                             [fd |-> s[i], events |-> Reported(s[i])]]
    BY <1>7 DEF EpollReturn
  <2>2. PICK n \in Nat : s \in [1..n -> Reportable]
    BY BatchLength, <2>1
  <2>3. NoError'
    BY <1>7, <2>1, <2>2 DEF EpollReturn, Reported
  <2> QED BY <1>7, <2>3 DEF EpollReturn
<1>8. CASE Dispatch
  <2>1. /\ pc = "dispatch" /\ Head(result_event) \in EpollEvent
        /\ Head(result_event) = result_event[1] /\ 1 \in 1..Len(result_event)
        /\ result_event' = Tail(result_event)
    BY <1>8 DEF Dispatch, TypeOK
  <2>2. Registered'
    <3>1. CASE "ERR" \in Head(result_event).events
      <4>1. Head(result_event).fd # WakeFd /\ Head(result_event).fd \in AllFds
        BY <2>1, <3>1 DEF EpollEvent
      <4> QED BY <1>8, <3>1, <4>1, EpollKeepsWakeFd DEF Dispatch
    <3>2. CASE "ERR" \notin Head(result_event).events
      BY <1>8, <3>2 DEF Dispatch
    <3> QED BY <3>1, <3>2
  <2>3. NoError'
    <3>1. \A i \in 1..Len(Tail(result_event)) :
            i + 1 \in 1..Len(result_event) /\ Tail(result_event)[i] = result_event[i + 1]
      BY <2>1 DEF TypeOK
    <3> QED BY <1>8, <2>1, <3>1 DEF Dispatch
  <2>4. pc' # "run" /\ pc' # "wait"
    BY <1>8 DEF Dispatch
  <2> QED BY <2>2, <2>3, <2>4
<1>9. CASE \E c \in Callers : CallerThread(c)
  <2>1. PICK c \in Callers : CallerThread(c)
    BY <1>9
  <2>2. ASSUME NEW f \in Fds, NEW op \in {"add", "del"}, AddTask(op, f), pc' = pc
        PROVE  Idle' /\ ready'[WakeFd] = {"IN"}
    <3> DEFINE t == [op |-> op, fd |-> f, ev |-> "IN", id |-> posted + 1,
                     idle |-> pc = "wait"]
    <3>1. t.idle => pc = "wait"
      OBVIOUS
    <3>2. m_pending_tasks' = Append(m_pending_tasks, t)
      BY <2>2 DEF AddTask
    <3> HIDE DEF t
    <3>3. \A i \in 1..Len(m_pending_tasks') :
            \/ i \in 1..Len(m_pending_tasks) /\ m_pending_tasks'[i] = m_pending_tasks[i]
            \/ m_pending_tasks'[i] = t
      BY <3>2 DEF TypeOK
    <3>4. ready'[WakeFd] = {"IN"}
      BY <1>2, <2>2 DEF AddTask, TypeOK
    <3> QED BY <2>2, <3>1, <3>3, <3>4
  <2>3. CASE \E f \in Fds : AddEpollEvent(c, f) \/ DeleteEpollEvent(c, f)
    BY <1>2, <2>2, <2>3 DEF AddEpollEvent, DeleteEpollEvent
  <2>4. CASE \E f \in Fds, e \in Events : Listen(c, f, e) \/ Cancel(c, f, e)
    BY <2>4 DEF Listen, Cancel
  <2>5. CASE StopFlag(c)
    BY <2>5 DEF StopFlag
  <2>6. CASE StopWakeUp(c)
    BY <1>2, <2>6 DEF StopWakeUp, TypeOK
  <2> QED BY <2>1, <2>3, <2>4, <2>5, <2>6 DEF CallerThread
<1>10. CASE \E f \in Fds, e \in Reports : BecomeReady(f, e)
  BY <1>2, <1>10, WakeFdAssumption DEF BecomeReady, TypeOK, AllFds
<1> QED
  BY <1>3, <1>4, <1>5, <1>6, <1>7, <1>8, <1>9, <1>10 DEF Next, LoopThread

(* For any number of threads and descriptors, a task posted while the loop *)
(* thread is inside epoll_wait makes that call return.                     *)
THEOREM WakeupReachesWait == Spec => []IdleWakeupNotLost
<1>1. Init => TempInv /\ WakeInv
  BY DEF Init, TempInv, WakeInv, Backlog, AllFds
<1>2. TypeOK /\ TempInv /\ WakeInv /\ [Next]_vars => TempInv' /\ WakeInv'
  BY BacklogStep, WakeStep
<1>3. TypeOK /\ WakeInv => IdleWakeupNotLost
  BY DEF WakeInv, IdleWakeupNotLost, Reportable, Reported, TypeOK
<1> QED BY <1>1, <1>2, <1>3, TypeCorrect, PTL DEF Spec

-----------------------------------------------------------------------------
(* No handler is queued twice.                                             *)

(* Handlers are queued only by the dispatch of one epoll_wait, whose       *)
(* events name each descriptor once, and they are all gone from the queue  *)
(* before the loop waits again.                                            *)
QueueInv ==
  /\ TempInv /\ HandlersDistinct(Backlog)
  /\ pc \in {"init", "run", "wait"} =>
       \A i \in 1..Len(m_pending_tasks) : Posted(m_pending_tasks[i])
  /\ pc = "dispatch" =>
       /\ \A k, l \in 1..Len(result_event) :
            k # l => result_event[k].fd # result_event[l].fd
       /\ \A i \in 1..Len(Backlog), k \in 1..Len(result_event) :
            ~Posted(Backlog[i]) => Backlog[i].fd # result_event[k].fd

(* One event queues at most one handler of each kind.                      *)
LEMMA HandlersOfOneEvent ==
  ASSUME NEW e \in EpollEvent
  PROVE  HandlersDistinct(Handlers(e))
<1> DEFINE h1 == IF "IN"  \in e.events THEN <<IoTask(e.fd, "IN")>>  ELSE << >>
           h2 == IF "OUT" \in e.events THEN <<IoTask(e.fd, "OUT")>> ELSE << >>
<1>1. IoTask(e.fd, "IN") \in Task /\ IoTask(e.fd, "OUT") \in Task
  BY DEF IoTask, Task, EpollEvent, Events
<1>2. /\ h1 \in Seq(Task) /\ Len(h1) \in 0..1
      /\ \A i \in 1..Len(h1) : h1[i] = IoTask(e.fd, "IN")
  BY <1>1
<1>3. /\ h2 \in Seq(Task) /\ Len(h2) \in 0..1
      /\ \A i \in 1..Len(h2) : h2[i] = IoTask(e.fd, "OUT")
  BY <1>1
<1>4. Handlers(e) = h1 \o h2
  BY DEF Handlers
<1> HIDE DEF h1, h2
<1>5. \A i, j \in 1..Len(h1 \o h2) : i # j =>
        \/ (h1 \o h2)[i].ev = "IN"  /\ (h1 \o h2)[j].ev = "OUT"
        \/ (h1 \o h2)[i].ev = "OUT" /\ (h1 \o h2)[j].ev = "IN"
  BY <1>2, <1>3 DEF IoTask
<1> QED BY <1>4, <1>5 DEF HandlersDistinct

(* Handlers of a descriptor of which s holds none may be queued behind s.  *)
LEMMA DistinctQueue ==
  ASSUME NEW s \in Seq(Task), NEW h \in Seq(Task), NEW f,
         HandlersDistinct(s), HandlersDistinct(h),
         \A i \in 1..Len(h) : h[i].fd = f,
         \A i \in 1..Len(s) : ~Posted(s[i]) => s[i].fd # f
  PROVE  HandlersDistinct(s \o h)
<1> DEFINE r == s \o h
<1>1. \A i \in 1..Len(r) :
        \/ i \in 1..Len(s) /\ r[i] = s[i]
        \/ i - Len(s) \in 1..Len(h) /\ r[i] = h[i - Len(s)]
  OBVIOUS
<1>2. \A i, j \in 1..Len(r) : i # j => i - Len(s) # j - Len(s)
  OBVIOUS
<1> HIDE DEF r
<1>3. HandlersDistinct(r)
  <2> SUFFICES ASSUME NEW i \in 1..Len(r), NEW j \in 1..Len(r), i # j,
                      ~Posted(r[i]), ~Posted(r[j]), r[i].fd = r[j].fd
               PROVE  r[i].ev # r[j].ev
    BY DEF HandlersDistinct
  <2>1. CASE i \in 1..Len(s) /\ r[i] = s[i] /\ j \in 1..Len(s) /\ r[j] = s[j]
    BY <2>1 DEF HandlersDistinct
  <2>2. CASE /\ i - Len(s) \in 1..Len(h) /\ r[i] = h[i - Len(s)]
             /\ j - Len(s) \in 1..Len(h) /\ r[j] = h[j - Len(s)]
    BY <1>2, <2>2 DEF HandlersDistinct
  <2> QED BY <1>1, <2>1, <2>2
<1> QED BY <1>3 DEF r

(* A step that does not dispatch keeps the handlers of the backlog apart.  *)
LEMMA DistinctStep ==
  ASSUME TypeOK, TempInv, HandlersDistinct(Backlog),
         StepKeeps \/ StepPosts \/ StepTakes
  PROVE  HandlersDistinct(Backlog')
<1>1. Backlog \in Seq(Task)
  BY DEF TypeOK, Backlog
<1>2. CASE StepKeeps
  BY <1>2 DEF StepKeeps
<1>3. CASE StepPosts
  <2>1. PICK t \in Task : Backlog' = Append(Backlog, t) /\ Posted(t)
    BY <1>3 DEF StepPosts
  <2>2. \A i \in 1..Len(Backlog') : ~Posted(Backlog'[i]) =>
          i \in 1..Len(Backlog) /\ Backlog'[i] = Backlog[i]
    BY <1>1, <2>1
  <2> QED BY <2>2 DEF HandlersDistinct
<1>4. CASE StepTakes
  <2>1. \A i \in 1..Len(Backlog') :
          i + 1 \in 1..Len(Backlog) /\ Backlog'[i] = Backlog[i + 1]
    BY <1>1, <1>4 DEF StepTakes
  <2>2. ASSUME NEW i \in 1..Len(Backlog'), NEW j \in 1..Len(Backlog'), i # j
        PROVE  i + 1 \in 1..Len(Backlog) /\ j + 1 \in 1..Len(Backlog) /\ i + 1 # j + 1
    BY <2>1, <2>2
  <2> QED BY <2>1, <2>2 DEF HandlersDistinct
<1> QED BY <1>2, <1>3, <1>4

(* QueueInv is inductive.                                                  *)
LEMMA QueueStep ==
  ASSUME TypeOK, QueueInv, [Next]_vars
  PROVE  QueueInv'
<1> DEFINE
      NoHandler == pc \in {"init", "run", "wait"} =>
                     \A i \in 1..Len(m_pending_tasks) : Posted(m_pending_tasks[i])
      Apart == pc = "dispatch" =>
        /\ \A k, l \in 1..Len(result_event) :
             k # l => result_event[k].fd # result_event[l].fd
        /\ \A i \in 1..Len(Backlog), k \in 1..Len(result_event) :
             ~Posted(Backlog[i]) => Backlog[i].fd # result_event[k].fd
<1>1. TempInv /\ HandlersDistinct(Backlog) /\ NoHandler /\ Apart
  BY DEF QueueInv
<1>2. TempInv' /\ (StepKeeps \/ StepPosts \/ StepTakes \/ StepQueues)
  BY <1>1, BacklogStep
<1>3. HandlersDistinct(Backlog')
  <2>1. CASE StepKeeps \/ StepPosts \/ StepTakes
    BY <1>1, <2>1, DistinctStep
  <2>2. CASE StepQueues
    <3> DEFINE e == Head(result_event)
    <3>1. /\ e \in EpollEvent /\ e = result_event[1]
          /\ 1 \in 1..Len(result_event) /\ Backlog \in Seq(Task)
      BY <2>2 DEF StepQueues, TypeOK, Backlog
    <3>2. /\ Handlers(e) \in Seq(Task) /\ HandlersDistinct(Handlers(e))
          /\ \A i \in 1..Len(Handlers(e)) : Handlers(e)[i].fd = e.fd
      BY <3>1, HandlersType, HandlersOfOneEvent
    <3>3. \A i \in 1..Len(Backlog) : ~Posted(Backlog[i]) => Backlog[i].fd # e.fd
      BY <1>1, <2>2, <3>1 DEF StepQueues
    <3> QED BY <1>1, <2>2, <3>1, <3>2, <3>3, DistinctQueue DEF StepQueues
  <2> QED BY <1>2, <2>1, <2>2
<1>4. SUFFICES NoHandler' /\ Apart'
  BY <1>2, <1>3 DEF QueueInv, HandlersDistinct, Posted
<1>5. CASE LoopStart \/ LoopContinue \/ LoopExit \/ EpollTimeout \/ BeginWait
           \/ UNCHANGED vars
  BY <1>1, <1>5 DEF LoopStart, LoopContinue, LoopExit, EpollTimeout, BeginWait,
                    Posted, Backlog
<1>6. CASE SwapTasks
  BY <1>6 DEF SwapTasks
<1>7. CASE RunAdd \/ RunDelete \/ RunDrain \/ RunHandler
  BY <1>1, <1>7 DEF RunAdd, RunDelete, RunDrain, RunHandler, NextTask, Posted
<1>8. CASE EpollReturn
  <2>1. PICK s \in Batches :
          result_event' = [i \in DOMAIN s |->
                             [fd |-> s[i], events |-> Reported(s[i])]]
    BY <1>8 DEF EpollReturn
  <2>2. PICK n \in Nat : /\ s \in [1..n -> Reportable]
                         /\ \A i, j \in 1..n : i # j => s[i] # s[j]
    BY <2>1, BatchLength
  <2>3. /\ Len(result_event') = n
        /\ \A i \in 1..n : result_event'[i].fd = s[i]
    BY <2>1, <2>2
  <2>4. \A i \in 1..Len(Backlog) : Posted(Backlog[i])
    BY <1>1, <1>8 DEF EpollReturn, TempInv, Backlog, TypeOK
  <2>5. Backlog' = Backlog /\ pc' = "dispatch"
    BY <1>8 DEF EpollReturn, Backlog
  <2> QED BY <2>2, <2>3, <2>4, <2>5 DEF Posted
<1>9. CASE Dispatch
  <2>1. pc' = "check" \/ (pc' = "dispatch" /\ pc = "dispatch")
    BY <1>9 DEF Dispatch
  <2>2. Apart'
    <3> DEFINE e == Head(result_event)
               h == Handlers(e)
    <3>1. /\ e \in EpollEvent /\ e = result_event[1]
          /\ 1 \in 1..Len(result_event) /\ Backlog \in Seq(Task)
          /\ result_event' = Tail(result_event)
          /\ m_pending_tasks' = m_pending_tasks \o h
          /\ temp_tasks' = temp_tasks
      BY <1>9 DEF Dispatch, TypeOK, Backlog
    <3>2. h \in Seq(Task) /\ \A i \in 1..Len(h) : h[i].fd = e.fd
      BY <3>1, HandlersType
    <3> HIDE DEF h
    <3>3. Backlog' = Backlog \o h
      <4>1. temp_tasks = << >>
        BY <1>1, <1>9 DEF Dispatch, TempInv
      <4> QED BY <3>1, <3>2, <4>1 DEF Backlog, TypeOK
    <3>4. ASSUME NEW k \in 1..Len(result_event')
          PROVE  /\ k + 1 \in 1..Len(result_event) /\ k + 1 # 1
                 /\ result_event'[k] = result_event[k + 1]
      BY <3>1 DEF TypeOK
    <3>5. ASSUME NEW k \in 1..Len(result_event'), NEW l \in 1..Len(result_event'),
                 k # l
          PROVE  k + 1 # l + 1
      BY <3>1, <3>5 DEF TypeOK
    <3>6. \A i \in 1..Len(Backlog') :
            \/ i \in 1..Len(Backlog) /\ Backlog'[i] = Backlog[i]
            \/ Backlog'[i].fd = e.fd
      <4>1. \A i \in 1..Len(Backlog \o h) :
              \/ i \in 1..Len(Backlog) /\ (Backlog \o h)[i] = Backlog[i]
              \/ i - Len(Backlog) \in 1..Len(h)
                 /\ (Backlog \o h)[i] = h[i - Len(Backlog)]
        BY <3>1, <3>2
      <4> QED BY <3>2, <3>3, <4>1
    <3>7. pc = "dispatch"
      BY <1>9 DEF Dispatch
    <3>8. \A k, l \in 1..Len(result_event') :
            k # l => result_event'[k].fd # result_event'[l].fd
      BY <1>1, <3>4, <3>5, <3>7
    <3>9. \A i \in 1..Len(Backlog'), k \in 1..Len(result_event') :
            ~Posted(Backlog'[i]) => Backlog'[i].fd # result_event'[k].fd
      BY <1>1, <3>1, <3>4, <3>6, <3>7
    <3> QED BY <3>8, <3>9 DEF Posted
  <2> QED BY <2>1, <2>2
<1>10. CASE \E c \in Callers : CallerThread(c)
  <2>1. PICK c \in Callers : CallerThread(c)
    BY <1>10
  <2>2. CASE \E f \in Fds : AddEpollEvent(c, f) \/ DeleteEpollEvent(c, f)
    <3>1. PICK t \in Task : /\ m_pending_tasks' = Append(m_pending_tasks, t)
                            /\ Posted(t)
      <4>1. PICK f \in Fds, op \in {"add", "del"} : AddTask(op, f)
        BY <2>2 DEF AddEpollEvent, DeleteEpollEvent
      <4> DEFINE t == [op |-> op, fd |-> f, ev |-> "IN", id |-> posted + 1,
                       idle |-> pc = "wait"]
      <4>2. t \in Task /\ Posted(t)
        BY MaxPostsAssumption DEF Task, AllFds, Events, Posted, TypeOK
      <4>3. m_pending_tasks' = Append(m_pending_tasks, t)
        BY <4>1 DEF AddTask
      <4> HIDE DEF t
      <4> QED BY <4>2, <4>3
    <3>2. temp_tasks' = temp_tasks /\ result_event' = result_event /\ pc' = pc
      BY <2>2 DEF AddEpollEvent, DeleteEpollEvent
    <3>3. Backlog' = Append(Backlog, t) /\ Backlog \in Seq(Task)
      BY <3>1, <3>2 DEF Backlog, TypeOK
    <3>4. \A i \in 1..Len(Backlog') : ~Posted(Backlog'[i]) =>
            i \in 1..Len(Backlog) /\ Backlog'[i] = Backlog[i]
      BY <3>1, <3>3
    <3>5. NoHandler'
      BY <1>1, <3>1, <3>2 DEF TypeOK, Posted
    <3> QED BY <1>1, <3>2, <3>4, <3>5 DEF Posted
  <2>3. CASE \E f \in Fds, e \in Events : Listen(c, f, e) \/ Cancel(c, f, e)
    BY <1>1, <2>3 DEF Listen, Cancel, Backlog, Posted
  <2>4. CASE StopFlag(c) \/ StopWakeUp(c)
    BY <1>1, <2>4 DEF StopFlag, StopWakeUp, Backlog, Posted
  <2> QED BY <2>1, <2>2, <2>3, <2>4 DEF CallerThread
<1>11. CASE \E f \in Fds, e \in Reports : BecomeReady(f, e)
  BY <1>1, <1>11 DEF BecomeReady, Backlog, Posted
<1> QED
  BY <1>5, <1>6, <1>7, <1>8, <1>9, <1>10, <1>11 DEF Next, LoopThread

(* For any number of descriptors and any batch size, no handler is ever    *)
(* queued while it is queued already: level-triggered epoll reports again  *)
(* only after the whole batch of loop() has run.                           *)
THEOREM NoHandlerTwice == Spec => []HandlerQueuedOnce
<1>1. Init => QueueInv
  BY DEF Init, QueueInv, TempInv, HandlersDistinct, Backlog
<1>2. TypeOK /\ QueueInv /\ [Next]_vars => QueueInv'
  BY QueueStep
<1>3. QueueInv => HandlerQueuedOnce
  BY DEF QueueInv, HandlerQueuedOnce
<1> QED BY <1>1, <1>2, <1>3, TypeCorrect, PTL DEF Spec
=============================================================================
