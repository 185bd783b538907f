----------------------------- MODULE EventLoop -----------------------------
(***************************************************************************)
(* rpc::EventLoop with the FdEvent objects and the WakeUpFdEvent it uses:  *)
(* one loop thread that alternates between a batch of queued tasks and     *)
(* epoll_wait, and any number of caller threads that register descriptors  *)
(* and stop the loop.                                                      *)
(*                                                                         *)
(* add_task is private: a task is either a registration change posted by   *)
(* another thread (always with is_wake_up = true) or the handler of a      *)
(* descriptor that epoll reported, queued by the loop itself.  Everything  *)
(* done under m_mtx is one step.  The eventfd counter is abstracted to     *)
(* "readable or not", which is all that epoll and the drain look at.       *)
(*                                                                         *)
(* No code in the repository sets an error callback, so the branch of      *)
(* loop() that queues a handler on EPOLLERR never runs and is left out;    *)
(* the removal of the descriptor that precedes it is modelled.             *)
(***************************************************************************)
EXTENDS Naturals, Sequences, FiniteSets

CONSTANTS Callers,      \* the threads other than the loop's own
          Fds,          \* the descriptors whose FdEvents are registered
          WakeFd,       \* m_wakeup_fd
          MaxEvents,    \* G_EPOLL_MAX_EVENTS
          MaxPosts      \* bound: how many tasks the callers post

ASSUME WakeFdAssumption == WakeFd \notin Fds
ASSUME MaxEventsAssumption == MaxEvents \in Nat \ {0}
ASSUME MaxPostsAssumption == MaxPosts \in Nat
ASSUME FdsAssumption == IsFiniteSet(Fds)

Events  == {"IN", "OUT"}
Reports == Events \cup {"ERR"}
AllFds  == Fds \cup {WakeFd}

(* A queued std::function.  "add" and "del" are the lambdas that another   *)
(* thread posts; "io" is the handler of (fd, ev).  id numbers the posted   *)
(* tasks (0 for handlers), and idle records that the loop thread was       *)
(* already inside epoll_wait when the task was posted.                     *)
Task == [op : {"add", "del", "io"}, fd : AllFds, ev : Events, id : Nat,
         idle : BOOLEAN]

EpollEvent == [fd : AllFds, events : SUBSET Reports]

VARIABLES
  pc,               \* where the loop thread is
  m_stop_flag, m_is_looping,
  m_pending_tasks, temp_tasks,
  m_listen_fds,     \* the loop's own record of what it registered
  m_listen_events,  \* [fd -> events], the mask inside each FdEvent
  result_event,     \* what epoll_wait returned and is not yet dispatched
  stopping,         \* callers between the two statements of stop()
  registered, interest,  \* the kernel's side of the epoll instance
  ready,            \* [fd -> what the kernel would report]
  posted, ran       \* number of tasks posted; id of the last one run

vars == <<pc, m_stop_flag, m_is_looping, m_pending_tasks, temp_tasks,
          m_listen_fds, m_listen_events, result_event, stopping,
          registered, interest, ready, posted, ran>>

epollVars == <<m_listen_fds, registered, interest>>

LoopPCs == {"init", "check", "swap", "run", "wait", "dispatch", "done"}

TypeOK ==
  /\ pc \in LoopPCs
  /\ m_stop_flag \in BOOLEAN
  /\ m_is_looping \in BOOLEAN
  /\ m_pending_tasks \in Seq(Task)
  /\ temp_tasks \in Seq(Task)
  /\ m_listen_fds \in SUBSET AllFds
  /\ m_listen_events \in [AllFds -> SUBSET Events]
  /\ result_event \in Seq(EpollEvent)
  /\ stopping \in SUBSET Callers
  /\ registered \in SUBSET AllFds
  /\ interest \in [AllFds -> SUBSET Events]
  /\ ready \in [AllFds -> SUBSET Reports]
  /\ posted \in 0..MaxPosts
  /\ ran \in Nat

-----------------------------------------------------------------------------
(* The constructor has registered the eventfd; loop() has not been called. *)
Init ==
  /\ pc = "init"
  /\ m_stop_flag = FALSE
  /\ m_is_looping = FALSE
  /\ m_pending_tasks = << >>
  /\ temp_tasks = << >>
  /\ m_listen_fds = {WakeFd}
  /\ m_listen_events = [f \in AllFds |-> IF f = WakeFd THEN {"IN"} ELSE {}]
  /\ result_event = << >>
  /\ stopping = {}
  /\ registered = {WakeFd}
  /\ interest = [f \in AllFds |-> IF f = WakeFd THEN {"IN"} ELSE {}]
  /\ ready = [f \in AllFds |-> {}]
  /\ posted = 0
  /\ ran = 0

(* What epoll would say of fd f now: the ready events in its mask, and an  *)
(* error whatever the mask is.                                             *)
Reported(f) == ready[f] \cap (interest[f] \cup {"ERR"})

Reportable == {f \in registered : Reported(f) # {}}

-----------------------------------------------------------------------------
(* Operations on the epoll instance, run by the loop thread.               *)

(* epoll_ctl fails (and the failure is only logged) when ADD meets a       *)
(* registered descriptor or MOD an unregistered one; m_listen_fds is       *)
(* updated in either case.                                                 *)
AddToEpoll(f, mask) ==
  LET op == IF f \in m_listen_fds THEN "MOD" ELSE "ADD"
      ok == (op = "MOD") = (f \in registered)
  IN /\ registered' = IF ok THEN registered \cup {f} ELSE registered
     /\ interest' = IF ok THEN [interest EXCEPT ![f] = mask] ELSE interest
     /\ m_listen_fds' = m_listen_fds \cup {f}

(* A bug to catch: the erase from m_listen_fds is forgotten.               *)
DeleteFromEpollNoErase(f) ==
  /\ f \in m_listen_fds
  /\ registered' = registered \ {f}
  /\ interest' = [interest EXCEPT ![f] = {}]
  /\ UNCHANGED m_listen_fds

DeleteFromEpoll(f) ==
  IF f \in m_listen_fds
    THEN /\ registered' = registered \ {f}
         /\ interest' = [interest EXCEPT ![f] = {}]
         /\ m_listen_fds' = m_listen_fds \ {f}
    ELSE UNCHANGED epollVars

-----------------------------------------------------------------------------
(* The loop thread.                                                        *)

LoopStart ==
  /\ pc = "init"
  /\ m_is_looping' = TRUE
  /\ pc' = "check"
  /\ UNCHANGED <<m_stop_flag, m_pending_tasks, temp_tasks, m_listen_events,
                 result_event, stopping, ready, posted, ran, epollVars>>

(* while (!m_stop_flag)                                                    *)
LoopContinue ==
  /\ pc = "check" /\ ~m_stop_flag
  /\ pc' = "swap"
  /\ UNCHANGED <<m_stop_flag, m_is_looping, m_pending_tasks, temp_tasks,
                 m_listen_events, result_event, stopping, ready, posted, ran,
                 epollVars>>

LoopExit ==
  /\ pc = "check" /\ m_stop_flag
  /\ pc' = "done"
  /\ UNCHANGED <<m_stop_flag, m_is_looping, m_pending_tasks, temp_tasks,
                 m_listen_events, result_event, stopping, ready, posted, ran,
                 epollVars>>

(* A bug to catch: the queue is copied instead of swapped out.             *)
CopyTasks ==
  /\ pc = "swap"
  /\ temp_tasks' = m_pending_tasks
  /\ pc' = "run"
  /\ UNCHANGED <<m_stop_flag, m_is_looping, m_pending_tasks, m_listen_events,
                 result_event, stopping, ready, posted, ran, epollVars>>

SwapTasks ==
  /\ pc = "swap"
  /\ temp_tasks' = m_pending_tasks
  /\ m_pending_tasks' = << >>
  /\ pc' = "run"
  /\ UNCHANGED <<m_stop_flag, m_is_looping, m_listen_events, result_event,
                 stopping, ready, posted, ran, epollVars>>

(* temp_tasks.pop() and the callback it yields: NextTask(op) is the guard  *)
(* and the pop, common to every kind of task.                              *)
NextTask(op) ==
  /\ pc = "run"
  /\ temp_tasks # << >>
  /\ Head(temp_tasks).op = op
  /\ temp_tasks' = Tail(temp_tasks)
  /\ UNCHANGED <<pc, m_is_looping, m_pending_tasks, result_event, stopping,
                 posted>>

(* The lambda of add_epoll_event: the mask is read when the task runs.     *)
RunAdd ==
  /\ NextTask("add")
  /\ LET t == Head(temp_tasks)
     IN AddToEpoll(t.fd, m_listen_events[t.fd]) /\ ran' = t.id
  /\ UNCHANGED <<m_stop_flag, m_listen_events, ready>>

RunDelete ==
  /\ NextTask("del")
  /\ LET t == Head(temp_tasks) IN DeleteFromEpoll(t.fd) /\ ran' = t.id
  /\ UNCHANGED <<m_stop_flag, m_listen_events, ready>>

(* The handler of m_wakeup_fd: it reads until the eventfd is empty.        *)
RunDrain ==
  /\ NextTask("io")
  /\ Head(temp_tasks).fd = WakeFd
  /\ ready' = [ready EXCEPT ![WakeFd] = {}]
  /\ UNCHANGED <<m_stop_flag, m_listen_events, ran, epollVars>>

(* Any other handler reads or writes its descriptor, which may take away   *)
(* some of its readiness, and then treats the loop in one of five ways.    *)
RunHandler ==
  /\ NextTask("io")
  /\ LET f == Head(temp_tasks).fd
     IN /\ f # WakeFd
        /\ \E left \in SUBSET ready[f] :
             \/ (* nothing more *)
                /\ ready' = [ready EXCEPT ![f] = left]
                /\ UNCHANGED <<m_stop_flag, m_listen_events, epollVars>>
             \/ (* its FdEvent is registered again, with a new mask        *)
                /\ \E mask \in SUBSET Events :
                     /\ m_listen_events' = [m_listen_events EXCEPT ![f] = mask]
                     /\ AddToEpoll(f, mask)
                /\ ready' = [ready EXCEPT ![f] = left]
                /\ UNCHANGED m_stop_flag
             \/ (* TcpConnection::clear(), or a connect that has completed  *)
                /\ \E mask \in {{}, m_listen_events[f]} :
                     m_listen_events' = [m_listen_events EXCEPT ![f] = mask]
                /\ DeleteFromEpoll(f)
                /\ ready' = [ready EXCEPT ![f] = left]
                /\ UNCHANGED m_stop_flag
             \/ (* a refused connect: the descriptor is closed and reopened *)
                (* under the same number, then deleted from the loop        *)
                /\ registered' = registered \ {f}
                /\ interest' = [interest EXCEPT ![f] = {}]
                /\ m_listen_fds' = m_listen_fds \ {f}
                /\ ready' = [ready EXCEPT ![f] = {}]
                /\ UNCHANGED <<m_stop_flag, m_listen_events>>
             \/ (* a closure that stops its own loop *)
                /\ m_stop_flag' = TRUE
                /\ ready' = [ready EXCEPT ![f] = left, ![WakeFd] = {"IN"}]
                /\ UNCHANGED <<m_listen_events, epollVars>>
  /\ UNCHANGED ran

BeginWait ==
  /\ pc = "run" /\ temp_tasks = << >>
  /\ pc' = "wait"
  /\ UNCHANGED <<m_stop_flag, m_is_looping, m_pending_tasks, temp_tasks,
                 m_listen_events, result_event, stopping, ready, posted, ran,
                 epollVars>>

(* The descriptors of one epoll_wait: as many as fit, each once, in any    *)
(* order.                                                                  *)
Batches ==
  LET n == IF Cardinality(Reportable) <= MaxEvents
             THEN Cardinality(Reportable) ELSE MaxEvents
  IN {s \in [1..n -> Reportable] :
        \A i, j \in 1..n : i # j => s[i] # s[j]}

EpollReturn ==
  /\ pc = "wait" /\ Reportable # {}
  /\ \E s \in Batches :
       result_event' = [i \in DOMAIN s |->
                          [fd |-> s[i], events |-> Reported(s[i])]]
  /\ pc' = "dispatch"
  /\ UNCHANGED <<m_stop_flag, m_is_looping, m_pending_tasks, temp_tasks,
                 m_listen_events, stopping, ready, posted, ran, epollVars>>

(* A bug to catch: epoll_wait is called without a timeout.                 *)
EpollWaitsForever ==
  /\ pc = "wait" /\ Reportable = {}
  /\ UNCHANGED vars

(* After G_EPOLL_MAX_TIMEOUT, or with an error that is only logged.        *)
EpollTimeout ==
  /\ pc = "wait" /\ Reportable = {}
  /\ pc' = "check"
  /\ UNCHANGED <<m_stop_flag, m_is_looping, m_pending_tasks, temp_tasks,
                 m_listen_events, result_event, stopping, ready, posted, ran,
                 epollVars>>

IoTask(f, e) == [op |-> "io", fd |-> f, ev |-> e, id |-> 0, idle |-> FALSE]

(* The tasks that one epoll event queues, in the order of loop().          *)
Handlers(e) ==
  (IF "IN"  \in e.events THEN <<IoTask(e.fd, "IN")>>  ELSE << >>) \o
  (IF "OUT" \in e.events THEN <<IoTask(e.fd, "OUT")>> ELSE << >>)

(* A bug to catch: the wakeup is handled on the spot and the next wait     *)
(* begins at once, before the queued handlers have run.                    *)
DispatchThenWait ==
  /\ pc = "dispatch" /\ result_event # << >>
  /\ LET e == Head(result_event)
     IN m_pending_tasks' = m_pending_tasks \o Handlers(e)
  /\ result_event' = Tail(result_event)
  /\ pc' = IF Len(result_event) = 1 THEN "wait" ELSE "dispatch"
  /\ UNCHANGED <<m_stop_flag, m_is_looping, temp_tasks, m_listen_events,
                 stopping, ready, posted, ran, epollVars>>

Dispatch ==
  /\ pc = "dispatch" /\ result_event # << >>
  /\ LET e == Head(result_event)
     IN /\ m_pending_tasks' = m_pending_tasks \o Handlers(e)
        /\ IF "ERR" \in e.events THEN DeleteFromEpoll(e.fd)
                                 ELSE UNCHANGED epollVars
  /\ result_event' = Tail(result_event)
  /\ pc' = IF Len(result_event) = 1 THEN "check" ELSE "dispatch"
  /\ UNCHANGED <<m_stop_flag, m_is_looping, temp_tasks, m_listen_events,
                 stopping, ready, posted, ran>>

LoopThread ==
  \/ LoopContinue \/ LoopExit \/ SwapTasks
  \/ RunAdd \/ RunDelete \/ RunDrain \/ RunHandler
  \/ BeginWait \/ EpollReturn \/ EpollTimeout \/ Dispatch

-----------------------------------------------------------------------------
(* The caller threads.                                                     *)

(* A bug to catch: the queue is a stack.                                   *)
AddTaskInFront(op, f) ==
  /\ posted < MaxPosts
  /\ posted' = posted + 1
  /\ m_pending_tasks' = <<[op |-> op, fd |-> f, ev |-> "IN",
                           id |-> posted + 1, idle |-> pc = "wait"]>>
                        \o m_pending_tasks
  /\ ready' = [ready EXCEPT ![WakeFd] = {"IN"}]

(* A bug to catch: the eventfd is written only when the queue was empty.   *)
AddTaskWakeIfEmpty(op, f) ==
  /\ posted < MaxPosts
  /\ posted' = posted + 1
  /\ m_pending_tasks' =
       Append(m_pending_tasks,
              [op |-> op, fd |-> f, ev |-> "IN", id |-> posted + 1,
               idle |-> pc = "wait"])
  /\ ready' = IF m_pending_tasks = << >>
                THEN [ready EXCEPT ![WakeFd] = {"IN"}] ELSE ready

(* add_task(cb, true): push and wakeup, both under m_mtx.                  *)
AddTask(op, f) ==
  /\ posted < MaxPosts
  /\ posted' = posted + 1
  /\ m_pending_tasks' =
       Append(m_pending_tasks,
              [op |-> op, fd |-> f, ev |-> "IN", id |-> posted + 1,
               idle |-> pc = "wait"])
  /\ ready' = [ready EXCEPT ![WakeFd] = {"IN"}]

AddEpollEvent(c, f) ==
  /\ AddTask("add", f)
  /\ UNCHANGED <<pc, m_stop_flag, m_is_looping, temp_tasks, m_listen_events,
                 result_event, stopping, ran, epollVars>>

DeleteEpollEvent(c, f) ==
  /\ AddTask("del", f)
  /\ UNCHANGED <<pc, m_stop_flag, m_is_looping, temp_tasks, m_listen_events,
                 result_event, stopping, ran, epollVars>>

(* A bug to catch: the error event is put into the mask.                   *)
ListenWithError(c, f, e) ==
  /\ m_listen_events' = [m_listen_events EXCEPT ![f] = @ \cup {e, "ERR"}]
  /\ UNCHANGED <<pc, m_stop_flag, m_is_looping, m_pending_tasks, temp_tasks,
                 result_event, stopping, ready, posted, ran, epollVars>>

(* FdEvent::listen and FdEvent::cancel take no lock.                       *)
Listen(c, f, e) ==
  /\ m_listen_events' = [m_listen_events EXCEPT ![f] = @ \cup {e}]
  /\ UNCHANGED <<pc, m_stop_flag, m_is_looping, m_pending_tasks, temp_tasks,
                 result_event, stopping, ready, posted, ran, epollVars>>

Cancel(c, f, e) ==
  /\ m_listen_events' = [m_listen_events EXCEPT ![f] = @ \ {e}]
  /\ UNCHANGED <<pc, m_stop_flag, m_is_looping, m_pending_tasks, temp_tasks,
                 result_event, stopping, ready, posted, ran, epollVars>>

(* stop() writes the flag and then, as a second step, the eventfd.         *)
StopFlag(c) ==
  /\ c \notin stopping
  /\ m_stop_flag' = TRUE
  /\ stopping' = stopping \cup {c}
  /\ UNCHANGED <<pc, m_is_looping, m_pending_tasks, temp_tasks,
                 m_listen_events, result_event, ready, posted, ran, epollVars>>

StopWakeUp(c) ==
  /\ c \in stopping
  /\ stopping' = stopping \ {c}
  /\ ready' = [ready EXCEPT ![WakeFd] = {"IN"}]
  /\ UNCHANGED <<pc, m_stop_flag, m_is_looping, m_pending_tasks, temp_tasks,
                 m_listen_events, result_event, posted, ran, epollVars>>

CallerThread(c) ==
  \/ \E f \in Fds : AddEpollEvent(c, f) \/ DeleteEpollEvent(c, f)
  \/ \E f \in Fds, e \in Events : Listen(c, f, e) \/ Cancel(c, f, e)
  \/ StopFlag(c) \/ StopWakeUp(c)

(* The kernel: data arrives, the send buffer empties, the peer resets.     *)
BecomeReady(f, e) ==
  /\ e \notin ready[f]
  /\ ready' = [ready EXCEPT ![f] = @ \cup {e}]
  /\ UNCHANGED <<pc, m_stop_flag, m_is_looping, m_pending_tasks, temp_tasks,
                 m_listen_events, result_event, stopping, posted, ran,
                 epollVars>>

Next ==
  \/ LoopStart
  \/ LoopThread
  \/ \E c \in Callers : CallerThread(c)
  \/ \E f \in Fds, e \in Reports : BecomeReady(f, e)

Spec == Init /\ [][Next]_vars

(* The loop thread is scheduled, and epoll_wait returns after at most      *)
(* G_EPOLL_MAX_TIMEOUT milliseconds.  Nothing is assumed of the callers,   *)
(* nor that anybody ever calls loop().                                     *)
FairSpec == Spec /\ WF_vars(LoopThread)

-----------------------------------------------------------------------------
(* Properties.                                                             *)

Backlog == temp_tasks \o m_pending_tasks

Posted(t) == t.op # "io"

(* Sequence s holds the posted tasks lo+1 .. hi, each once and in that     *)
(* order, among any number of handlers.                                    *)
InOrder(s, lo, hi) ==
  /\ \A i \in 1..Len(s) : Posted(s[i]) => s[i].id \in (lo + 1)..hi
  /\ \A i, j \in 1..Len(s) :
       (i < j /\ Posted(s[i]) /\ Posted(s[j])) => s[i].id < s[j].id
  /\ \A n \in (lo + 1)..hi : \E i \in 1..Len(s) : Posted(s[i]) /\ s[i].id = n

(* No two positions of s hold the same handler.                            *)
HandlersDistinct(s) ==
  \A i, j \in 1..Len(s) :
    (i # j /\ ~Posted(s[i]) /\ ~Posted(s[j]) /\ s[i].fd = s[j].fd)
      => s[i].ev # s[j].ev

(* Between posting and running, registration changes are neither lost nor  *)
(* duplicated nor reordered, whichever thread posted them and whatever the *)
(* handlers queued in between: the backlog holds exactly the tasks         *)
(* ran+1 .. posted, in that order (loop()'s swap under m_mtx against       *)
(* add_task).                                                              *)
BacklogInOrder == InOrder(Backlog, ran, posted)

(* epoll is level triggered and a handler only runs one iteration after it *)
(* was reported; still the same handler is never queued twice, because the *)
(* loop runs the whole batch before it asks epoll again.                   *)
HandlerQueuedOnce == HandlersDistinct(Backlog)

(* The set that decides between EPOLL_CTL_ADD and EPOLL_CTL_MOD agrees     *)
(* with the kernel, so no add_to_epoll of this loop ever fails: also after *)
(* a descriptor was closed, reopened and registered again.                 *)
ListenFdsMatchEpoll == m_listen_fds = registered

(* A task posted while the loop thread is inside epoll_wait makes that     *)
(* call return: the eventfd is registered and readable until the loop has  *)
(* left the call.                                                          *)
IdleWakeupNotLost ==
  (pc = "wait" /\ \E i \in DOMAIN m_pending_tasks : m_pending_tasks[i].idle)
    => WakeFd \in Reportable

(* Once loop() has been called, every posted task is run unless the loop   *)
(* is stopped.                                                             *)
EveryPostedTaskRuns ==
  \A n \in 1..MaxPosts :
    (posted >= n /\ pc # "init") ~> (ran >= n \/ m_stop_flag)

(* Once loop() has been called, stop() makes it return, even when the      *)
(* wakeup of stop() is swallowed by a drain.                               *)
StopEndsLoop == (m_stop_flag /\ pc # "init") ~> (pc = "done")

Executor == INSTANCE TaskExecutor WITH stopped <- m_stop_flag

(* The loop implements the abstract executor.                              *)
ImplementsExecutor == Executor!Spec

(* add_task's documentation: with is_wake_up, epoll_wait is woken quickly, *)
(* "as if the task were added to it at once".  It says that the loop never *)
(* blocks in epoll_wait while a posted task is queued.                     *)
PostedTaskWakesLoop ==
  (pc = "wait" /\ \E i \in DOMAIN m_pending_tasks : Posted(m_pending_tasks[i]))
    => Reportable # {}
=============================================================================
