------------------------------- MODULE Timer -------------------------------
(***************************************************************************)
(* rpc::Timer and rpc::TimerEvent: a multimap of events ordered by arrive  *)
(* time, and one timerfd that is meant to expire when the first of them is *)
(* due.  The loop thread runs on_timer; any thread may call                *)
(* add_time_event.  The multimap is protected by m_mtx, the timerfd is     *)
(* not: reset_arrive_time copies the multimap under the lock and calls     *)
(* timerfd_settime after it has released it.                               *)
(*                                                                         *)
(* Time is relative.  The code compares arrive times with each other and   *)
(* with now only, so due[e] is the number of ticks until e arrives, 0 once *)
(* it has; the wall clock behind get_now_ms and the monotonic clock of the *)
(* timerfd are taken to advance together.                                  *)
(***************************************************************************)
EXTENDS Naturals, Sequences, FiniteSets

CONSTANTS Loop,         \* the thread that runs the event loop
          Others,       \* the other threads
          TimerEvents,  \* the TimerEvent objects
          Interval,     \* [TimerEvents -> ticks], m_interval
          Repeats,      \* the events with m_is_repeat
          Grace,        \* the 100 ms of reset_arrive_time, in ticks
          Deleters,     \* the threads that call delete_time_event
          None          \* no event

Threads == Others \cup {Loop}

ASSUME LoopAssumption == Loop \notin Others /\ Deleters \subseteq Threads
ASSUME IntervalAssumption == Interval \in [TimerEvents -> Nat \ {0}]
ASSUME RepeatsAssumption == Repeats \subseteq TimerEvents
ASSUME GraceAssumption == Grace \in Nat \ {0}
ASSUME NoneAssumption == None \notin TimerEvents

VARIABLES
  m_pending_events, \* the multimap: events in key order
  due,              \* [event -> ticks until its arrive time]
  m_is_cancel,      \* [event -> BOOLEAN]
  added,            \* the events that were passed to add_time_event
  armed,            \* ticks until the timerfd expires, 0 when disarmed
  readable,         \* the timerfd has expired and was not read since
  pc, ret,          \* where each thread is, and where it returns to
  snap,             \* the first event of a thread's copy of the multimap
  temp, tasks,      \* on_timer's events to add again and callbacks to run
  runs,             \* [event -> number of callback runs], up to 2
  revoked,          \* events cancelled while no callback of them was pending
  expired,          \* the events that are due at on_timer's now_time
  stale             \* the timerfd was last set from an outdated copy

vars == <<m_pending_events, due, m_is_cancel, added, armed, readable, pc, ret,
          snap, temp, tasks, runs, revoked, expired, stale>>

(* "aborted": an exception that nobody catches has ended the process.      *)
PCs == {"idle", "drain", "collect", "readd", "reset", "settime", "run",
        "aborted"}

RunsBound == 2

Elems(s) == {s[i] : i \in 1..Len(s)}

TypeOK ==
  /\ m_pending_events \in Seq(TimerEvents)
  /\ due \in [TimerEvents -> Nat]
  /\ m_is_cancel \in [TimerEvents -> BOOLEAN]
  /\ added \in SUBSET TimerEvents
  /\ armed \in Nat
  /\ readable \in BOOLEAN
  /\ pc \in [Threads -> PCs]
  /\ ret \in [Threads -> {"idle", "readd", "run"}]
  /\ snap \in [Threads -> TimerEvents \cup {None}]
  /\ temp \in Seq(TimerEvents)
  /\ tasks \in Seq(TimerEvents)
  /\ runs \in [TimerEvents -> 0..RunsBound]
  /\ revoked \in SUBSET TimerEvents
  /\ expired \in SUBSET TimerEvents
  /\ stale \in BOOLEAN

Init ==
  /\ m_pending_events = << >>
  /\ due = [e \in TimerEvents |-> 0]
  /\ m_is_cancel = [e \in TimerEvents |-> FALSE]
  /\ added = {}
  /\ armed = 0
  /\ readable = FALSE
  /\ pc = [t \in Threads |-> "idle"]
  /\ ret = [t \in Threads |-> "idle"]
  /\ snap = [t \in Threads |-> None]
  /\ temp = << >>
  /\ tasks = << >>
  /\ runs = [e \in TimerEvents |-> 0]
  /\ revoked = {}
  /\ expired = {}
  /\ stale = FALSE

Goto(t, label) == pc' = [pc EXCEPT ![t] = label]

(* The members of s that are in keep, in their order: member n is the one  *)
(* that is the n-th to be kept.                                            *)
KeptUpTo(s, keep, i) == Cardinality({j \in 1..i : s[j] \in keep})
Kept(s, keep) ==
  [n \in 1..KeptUpTo(s, keep, Len(s)) |->
     s[CHOOSE i \in 1..Len(s) : s[i] \in keep /\ KeptUpTo(s, keep, i) = n]]

-----------------------------------------------------------------------------
(* std::multimap::emplace: after every event that is due no later.         *)
Emplace(s, e, d) ==
  LET k == Cardinality({i \in 1..Len(s) : due[s[i]] <= d})
  IN SubSeq(s, 1, k) \o <<e>> \o SubSeq(s, k + 1, Len(s))

(* A bug to catch: the timerfd is only set when the multimap was empty.    *)
InsertIfEmpty(t, e, caller) ==
  /\ due' = [due EXCEPT ![e] = Interval[e]]
  /\ m_pending_events' = Emplace(m_pending_events, e, Interval[e])
  /\ ret' = [ret EXCEPT ![t] = caller]
  /\ Goto(t, IF m_pending_events = << >> THEN "reset" ELSE caller)

(* The locked half of add_time_event for an event whose arrive time was    *)
(* just set to now + m_interval; caller is where the thread returns to.    *)
Insert(t, e, caller) ==
  LET is_reset_timerfd == \/ m_pending_events = << >>
                          \/ due[Head(m_pending_events)] > Interval[e]
  IN /\ due' = [due EXCEPT ![e] = Interval[e]]
     /\ m_pending_events' = Emplace(m_pending_events, e, Interval[e])
     /\ ret' = [ret EXCEPT ![t] = caller]
     /\ Goto(t, IF is_reset_timerfd THEN "reset" ELSE caller)

(* A thread creates a TimerEvent and adds it: between two tasks, or from   *)
(* inside a timer callback.                                                *)
AddTimeEvent(t, e) ==
  /\ pc[t] \in {"idle", "run"}
  /\ e \notin added
  /\ added' = added \cup {e}
  /\ Insert(t, e, pc[t])
  /\ UNCHANGED <<m_is_cancel, armed, readable, snap, temp, tasks, runs,
                 revoked, expired, stale>>

(* reset_arrive_time up to lock.unlock().                                  *)
ResetSnapshot(t) ==
  /\ pc[t] = "reset"
  /\ IF m_pending_events = << >>
       THEN Goto(t, ret[t]) /\ UNCHANGED snap
       ELSE /\ snap' = [snap EXCEPT ![t] = Head(m_pending_events)]
            /\ Goto(t, "settime")
  /\ UNCHANGED <<m_pending_events, due, m_is_cancel, added, armed, readable,
                 ret, temp, tasks, runs, revoked, expired, stale>>

(* A bug to catch: an event that is overdue sets the timerfd to 0, which   *)
(* disarms it.                                                             *)
SetTimeZero(t) ==
  /\ pc[t] = "settime"
  /\ armed' = due[snap[t]]
  /\ readable' = FALSE
  /\ stale' = (\A i \in DOMAIN m_pending_events :
                i = 1 => m_pending_events[i] # snap[t])
  /\ Goto(t, ret[t])
  /\ UNCHANGED <<m_pending_events, due, m_is_cancel, added, ret, snap, temp,
                 tasks, runs, revoked, expired>>

(* The rest of reset_arrive_time, on the copy: timerfd_settime replaces    *)
(* the previous deadline and forgets an expiration nobody has read.        *)
SetTime(t) ==
  /\ pc[t] = "settime"
  /\ armed' = IF due[snap[t]] > 0 THEN due[snap[t]] ELSE Grace
  /\ readable' = FALSE
  /\ stale' = (\A i \in DOMAIN m_pending_events :
                i = 1 => m_pending_events[i] # snap[t])
  /\ Goto(t, ret[t])
  /\ UNCHANGED <<m_pending_events, due, m_is_cancel, added, ret, snap, temp,
                 tasks, runs, revoked, expired>>

(* TimerEvent::set_cancel(true), from a task, a callback or another thread.*)
SetCancel(t, e) ==
  /\ pc[t] \in {"idle", "run"}
  /\ e \in added /\ ~m_is_cancel[e]
  /\ m_is_cancel' = [m_is_cancel EXCEPT ![e] = TRUE]
  /\ revoked' = IF e \in Elems(tasks) THEN revoked ELSE revoked \cup {e}
  /\ UNCHANGED <<m_pending_events, due, added, armed, readable, pc, ret, snap,
                 temp, tasks, runs, expired, stale>>

(* delete_time_event locks m_mtx a second time through the unique_lock     *)
(* that already owns it: std::unique_lock throws, and no caller catches.   *)
DeleteTimeEvent(t, e) ==
  /\ t \in Deleters
  /\ pc[t] \in {"idle", "run"}
  /\ e \in added
  /\ m_is_cancel' = [m_is_cancel EXCEPT ![e] = TRUE]
  /\ m_pending_events' = Kept(m_pending_events, TimerEvents \ {e})
  /\ pc' = [u \in Threads |-> "aborted"]
  /\ UNCHANGED <<due, added, armed, readable, ret, snap, temp, tasks, runs,
                 revoked, expired, stale>>

-----------------------------------------------------------------------------
(* on_timer, on the loop thread.                                           *)

(* epoll reports the timerfd; on_timer is queued and runs later.           *)
TimerFdReported ==
  /\ pc[Loop] = "idle" /\ readable
  /\ Goto(Loop, "drain")
  /\ UNCHANGED <<m_pending_events, due, m_is_cancel, added, armed, readable,
                 ret, snap, temp, tasks, runs, revoked, expired, stale>>

(* The timerfd is read empty and now_time is taken, before the lock.       *)
OnTimerDrain ==
  /\ pc[Loop] = "drain"
  /\ readable' = FALSE
  /\ expired' = {e \in Elems(m_pending_events) : due[e] = 0}
  /\ Goto(Loop, "collect")
  /\ UNCHANGED <<m_pending_events, due, m_is_cancel, added, armed, ret, snap,
                 temp, tasks, runs, revoked, stale>>

(* The length of the part of the multimap that is due at now_time.         *)
ExpiredPrefix ==
  Cardinality({i \in 1..Len(m_pending_events) :
                 \A j \in 1..i : m_pending_events[j] \in expired})

(* A bug to catch: cancelled events are collected like the others.         *)
OnTimerCollectAll ==
  LET n == ExpiredPrefix
      live == SubSeq(m_pending_events, 1, n)
  IN /\ pc[Loop] = "collect"
     /\ tasks' = live
     /\ temp' = Kept(live, Repeats)
     /\ m_pending_events' = SubSeq(m_pending_events, n + 1, Len(m_pending_events))
     /\ Goto(Loop, "readd")
     /\ expired' = {}
     /\ UNCHANGED <<due, m_is_cancel, added, armed, readable, ret, snap, runs,
                    revoked, stale>>

(* A bug to catch: the expired events are not erased.                      *)
OnTimerCollectNoErase ==
  LET n == ExpiredPrefix
      live == Kept(SubSeq(m_pending_events, 1, n),
                   {e \in TimerEvents : ~m_is_cancel[e]})
  IN /\ pc[Loop] = "collect"
     /\ tasks' = live
     /\ temp' = << >>
     /\ UNCHANGED m_pending_events
     /\ Goto(Loop, "readd")
     /\ expired' = {}
     /\ UNCHANGED <<due, m_is_cancel, added, armed, readable, ret, snap, runs,
                    revoked, stale>>

(* Under m_mtx: the expired prefix leaves the multimap; the events in it   *)
(* that are not cancelled are to be run and, if they repeat, added again.  *)
OnTimerCollect ==
  LET n == ExpiredPrefix
      live == Kept(SubSeq(m_pending_events, 1, n),
                   {e \in TimerEvents : ~m_is_cancel[e]})
  IN /\ pc[Loop] = "collect"
     /\ tasks' = live
     /\ temp' = Kept(live, Repeats)
     /\ m_pending_events' = SubSeq(m_pending_events, n + 1, Len(m_pending_events))
     /\ Goto(Loop, "readd")
     /\ expired' = {}
     /\ UNCHANGED <<due, m_is_cancel, added, armed, readable, ret, snap, runs,
                    revoked, stale>>

(* TimerEvent::reset_arrive_time and add_time_event of a repeating event.  *)
ReAdd ==
  /\ pc[Loop] = "readd" /\ temp # << >>
  /\ temp' = Tail(temp)
  /\ Insert(Loop, Head(temp), "readd")
  /\ UNCHANGED <<m_is_cancel, added, armed, readable, snap, tasks, runs,
                 revoked, expired, stale>>

(* A bug to catch: on_timer does not set the timerfd for what is left.     *)
ReAddDoneNoReset ==
  /\ pc[Loop] = "readd" /\ temp = << >>
  /\ Goto(Loop, "run")
  /\ UNCHANGED <<ret, m_pending_events, due, m_is_cancel, added, armed,
                 readable, snap, temp, tasks, runs, revoked, expired, stale>>

(* A bug to catch: on_timer starts over instead of running the callbacks.  *)
ReAddDoneStartsOver ==
  /\ pc[Loop] = "readd" /\ temp = << >>
  /\ Goto(Loop, "reset")
  /\ ret' = [ret EXCEPT ![Loop] = "collect"]
  /\ UNCHANGED <<m_pending_events, due, m_is_cancel, added, armed, readable,
                 snap, temp, tasks, runs, revoked, expired, stale>>

(* on_timer goes on to reset_arrive_time and then to the callbacks.        *)
ReAddDone ==
  /\ pc[Loop] = "readd" /\ temp = << >>
  /\ Goto(Loop, "reset")
  /\ ret' = [ret EXCEPT ![Loop] = "run"]
  /\ UNCHANGED <<m_pending_events, due, m_is_cancel, added, armed, readable,
                 snap, temp, tasks, runs, revoked, expired, stale>>

RunTask ==
  /\ pc[Loop] = "run" /\ tasks # << >>
  /\ tasks' = Tail(tasks)
  /\ runs' = [runs EXCEPT ![Head(tasks)] = IF @ < RunsBound THEN @ + 1 ELSE @]
  /\ UNCHANGED <<m_pending_events, due, m_is_cancel, added, armed, readable,
                 pc, ret, snap, temp, revoked, expired, stale>>

OnTimerDone ==
  /\ pc[Loop] = "run" /\ tasks = << >>
  /\ Goto(Loop, "idle")
  /\ UNCHANGED <<m_pending_events, due, m_is_cancel, added, armed, readable,
                 ret, snap, temp, tasks, runs, revoked, expired, stale>>

OnTimer ==
  \/ TimerFdReported \/ OnTimerDrain \/ OnTimerCollect
  \/ ReAdd \/ ReAddDone \/ RunTask \/ OnTimerDone

Reset(t) == ResetSnapshot(t) \/ SetTime(t)

-----------------------------------------------------------------------------
(* A tick of the clock.                                                    *)
Tick ==
  /\ due' = [e \in TimerEvents |-> IF due[e] > 0 THEN due[e] - 1 ELSE 0]
  /\ armed' = IF armed > 0 THEN armed - 1 ELSE 0
  /\ readable' = (readable \/ armed = 1)
  /\ UNCHANGED <<m_pending_events, m_is_cancel, added, pc, ret, snap, temp,
                 tasks, runs, revoked, expired, stale>>

Next ==
  \/ OnTimer
  \/ \E t \in Threads : Reset(t)
  \/ \E t \in Threads, e \in TimerEvents :
       AddTimeEvent(t, e) \/ SetCancel(t, e) \/ DeleteTimeEvent(t, e)
  \/ Tick

Spec == Init /\ [][Next]_vars

(* Time passes, the loop thread keeps running, and a thread that is inside *)
(* reset_arrive_time finishes it.  Nobody is obliged to add or cancel.     *)
FairSpec ==
  /\ Spec
  /\ WF_vars(Tick)
  /\ WF_vars(OnTimer)
  /\ \A t \in Threads : WF_vars(Reset(t))

-----------------------------------------------------------------------------
(* Properties.                                                             *)

(* Whatever the threads do, a waiting event is never forgotten: while the  *)
(* multimap is not empty the timerfd is armed or has expired, or some      *)
(* thread is on its way to set it (add_time_event and on_timer).           *)
NoEventForgotten ==
  m_pending_events # << >> =>
    \/ armed > 0 \/ readable
    \/ \E t \in Threads : pc[t] \in {"reset", "settime"}
    \/ pc[Loop] \in {"drain", "collect", "readd", "aborted"}

(* No thread is inside the timer.                                         *)
Quiet ==
  /\ pc[Loop] \in {"idle", "run"}
  /\ \A t \in Others : pc[t] \notin {"reset", "settime"}

(* The timerfd expires when the first event of the multimap is due, or     *)
(* within Grace ticks if that one is overdue.                              *)
ArmedForFirst ==
  \/ readable
  \/ /\ armed > 0
     /\ LET first == due[Head(m_pending_events)]
        IN armed <= first \/ (first = 0 /\ armed <= Grace)

(* When no thread is inside the timer, the timerfd is set for the first    *)
(* event of the multimap, unless the thread that set it last did so from a *)
(* copy that another thread had made outdated (reset_arrive_time).         *)
(* Whatever one thread alone does, the timerfd is right.                   *)
ArmedForEarliestOfCopy ==
  (m_pending_events # << >> /\ Quiet /\ ~stale) => ArmedForFirst

(* The callback of an event that does not repeat runs at most once.        *)
OneShotRunsOnce == \A e \in TimerEvents \ Repeats : runs[e] <= 1

(* An event that is cancelled before on_timer has collected it is never    *)
(* collected afterwards, also when it repeats.                             *)
CancelIsFinal == revoked \cap Elems(tasks) = {}

(* Every event that waits in the multimap is run, unless it is cancelled   *)
(* or delete_time_event has ended the process.                             *)
EveryEventRuns ==
  \A e \in TimerEvents :
    (e \in Elems(m_pending_events))
      ~> (e \in Elems(tasks) \/ m_is_cancel[e] \/ pc[Loop] = "aborted")
=============================================================================
