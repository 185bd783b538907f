------------------------------- MODULE Logger -------------------------------
(***************************************************************************)
(* rpc::Logger, where any thread leaves its messages, and rpc::AsyncLogger, *)
(* whose own thread (the Consumer) writes them to files, batch by batch.   *)
(*                                                                         *)
(* Four locks meet here: the spin lock of push_log, Logger::m_mutex of     *)
(* sync_loop and log, and AsyncLogger::m_mutex with its condition variable. *)
(* The last is handled through ScopeMutex, whose unlock() does not clear   *)
(* m_is_lock: the destructor unlocks a second time, whoever holds the      *)
(* mutex by then.                                                          *)
(*                                                                         *)
(* A std::vector or std::queue in use by two threads is undefined          *)
(* behaviour: a state in which that happens (BufferRaced, QueueRaced) is   *)
(* the last one that is modelled.  A message is a number, 0 being the      *)
(* Consumer's own.  A vector of messages is the set of them, and a file is *)
(* too large (more than m_file_max_size bytes) from some batch on.         *)
(***************************************************************************)
EXTENDS Integers, Sequences, FiniteSets, SequencesExt

CONSTANTS Consumer,      \* the thread of AsyncLogger::Loop
          m_set_level,   \* the configured LogLevel
          Loads,         \* the workloads: records of the four bounds below
          MaxMessages    \* bound: messages the application logs in one run

(* A workload bounds the application threads, the batches they give to     *)
(* push_log_buffer in one run of the process, the days and the restarts.   *)
ASSUME LoadsAssumption ==
  \A l \in Loads : /\ l.threads # {} /\ Consumer \notin l.threads
                   /\ {l.batches, l.restarts} \subseteq Nat
                   /\ l.days \in Nat \ {0}
ASSUME LevelAssumption == m_set_level \in {-1, 1, 2, 3} /\ MaxMessages \in Nat

Threads == UNION {l.threads : l \in Loads}

NoThread == "no thread"
NoFile == <<0, 0>>           \* m_file_handler is a null pointer
Debug == 1
Info == 2
Error == 3

Actors == Threads \cup {Consumer}

ASSUME ActorsAssumption == IsFiniteSet(Actors) /\ NoThread \notin Actors

(* A file is named by its day and its number.                              *)
Files == UNION {(1..l.days) \X (0..l.batches) : l \in Loads}

VARIABLES
  (* Logger *)
  m_buffer,      \* the messages left by push_log
  spin,          \* who holds the spin lock
  m_mutex,       \* who holds Logger::m_mutex
  (* AsyncLogger *)
  queue,         \* AsyncLogger::m_buffer, the batches not yet taken
  mutex,         \* who holds AsyncLogger::m_mutex
  m_stop_flag,
  m_date,        \* the day of the last batch, 0 before the first
  m_number,
  handler,       \* m_file_handler
  (* the threads *)
  pc,            \* [actor -> what it does next]
  held,          \* [actor -> the batch in its tmp_vec or tmp]
  constructed,   \* the constructor of AsyncLogger has returned
  (* outside the process *)
  load,          \* the workload of this behaviour
  clock,         \* today
  large,         \* the files that are too large
  restarts,
  (* history of this run of the process *)
  logged,        \* messages given to push_log
  accepted,      \* how many batches push_log_buffer has been given
  delivered,     \* the messages in them
  unwritten,     \* those of the batches that are not in a file yet, in order
  past,          \* [file -> batches appended although it was too large]
  stolen         \* an unlock has released the mutex of another thread

loggerVars == <<m_buffer, spin, m_mutex>>
fileVars == <<m_date, m_number, handler, large, unwritten, past>>
givenVars == <<accepted, delivered>>
asyncVars == <<queue, mutex, m_stop_flag, givenVars, stolen>>
outerVars == <<load, constructed, clock, restarts>>
vars == <<loggerVars, fileVars, asyncVars, outerVars, pc, held, logged>>

Unused == [a \in Actors |-> IF a = Consumer THEN "start" ELSE "idle"]
NoBatches == [a \in Actors |-> {}]
NonePast == [f \in Files |-> 0]

(* The process as INIT_GLOBAL_LOGGER leaves it while the constructor of    *)
(* AsyncLogger waits for its thread.                                       *)
Init ==
  /\ m_buffer = {} /\ spin = NoThread /\ m_mutex = NoThread
  /\ queue = << >> /\ mutex = NoThread /\ m_stop_flag = FALSE
  /\ m_date = 0 /\ m_number = 0 /\ handler = NoFile
  /\ pc = Unused /\ held = NoBatches /\ constructed = FALSE
  /\ logged = 0 /\ accepted = 0 /\ delivered = {} /\ unwritten = << >>
  /\ past = NonePast /\ stolen = FALSE
  /\ load \in Loads /\ clock = 1 /\ restarts = 0 /\ large = {}

Go(a, next) == pc' = [pc EXCEPT ![a] = next]

-----------------------------------------------------------------------------
(* Undefined behaviour.                                                    *)

BufferRaced ==
  Cardinality({a \in Actors :
     pc[a] \in {"pushing", "copying", "swapping", "draining"}}) > 1

QueueRaced == Cardinality({a \in Actors : pc[a] \in {"push", "test"}}) > 1

-----------------------------------------------------------------------------
(* Logger.                                                                 *)

(* sem_wait in the constructor returns: the thread has run sem_post.       *)
ConstructorReturns ==
  /\ ~constructed
  /\ pc[Consumer] # "start"
  /\ constructed' = TRUE
  /\ UNCHANGED <<loggerVars, fileVars, asyncVars, load, clock, restarts, pc,
                 held, logged>>

(* DEBUG_LOG, INFO_LOG or ERROR_LOG in an application thread: a message of *)
(* the configured level or above is pushed.                                *)
LogMessage(t, level) ==
  /\ constructed /\ pc[t] = "idle"
  /\ m_set_level <= level
  /\ logged < MaxMessages
  /\ spin = NoThread /\ spin' = t
  /\ logged' = logged + 1
  /\ Go(t, "pushing")
  /\ UNCHANGED <<m_buffer, m_mutex, fileVars, asyncVars, outerVars, held>>

(* INFO_LOG in the Consumer.                                               *)
ConsumerNote ==
  /\ pc[Consumer] = "note"
  /\ IF m_set_level <= Info
       THEN spin = NoThread /\ spin' = Consumer /\ Go(Consumer, "pushing")
       ELSE UNCHANGED spin /\ Go(Consumer, "test")
  /\ UNCHANGED <<m_buffer, m_mutex, fileVars, asyncVars, outerVars, held,
                 logged>>

(* push_log under the spin lock: push_back, and the lock is released.      *)
PushLog(a) ==
  /\ pc[a] = "pushing"
  /\ m_buffer' = m_buffer \cup {IF a = Consumer THEN 0 ELSE logged}
  /\ spin' = NoThread
  /\ Go(a, IF a = Consumer THEN "test" ELSE "idle")
  /\ UNCHANGED <<m_mutex, fileVars, asyncVars, outerVars, held, logged>>

(* sync_loop and log are called: std::unique_lock takes m_mutex.           *)
TakeBuffer(t, first) ==
  /\ constructed /\ pc[t] = "idle"
  /\ m_mutex = NoThread /\ m_mutex' = t
  /\ Go(t, first)
  /\ UNCHANGED <<m_buffer, spin, fileVars, asyncVars, outerVars, held, logged>>

(* sync_loop: tmp_vec is a copy of m_buffer ...                            *)
SyncCopies(t) ==
  /\ pc[t] = "copying"
  /\ held' = [held EXCEPT ![t] = m_buffer]
  /\ Go(t, "copied")
  /\ UNCHANGED <<loggerVars, fileVars, asyncVars, outerVars, logged>>

SyncBeginsSwap(t) ==
  /\ pc[t] = "copied"
  /\ Go(t, "swapping")
  /\ UNCHANGED <<loggerVars, fileVars, asyncVars, outerVars, held, logged>>

(* The batch, if there is one, goes to push_log_buffer.                    *)
HandOver(t, batch) ==
  /\ held' = [held EXCEPT ![t] = batch]
  /\ Go(t, IF batch = {} THEN "idle" ELSE "lock")

(* A bug to catch: the buffer is cleared, not swapped with the copy.       *)
SyncClears(t) ==
  /\ pc[t] = "swapping"
  /\ m_buffer' = {}
  /\ m_mutex' = NoThread
  /\ HandOver(t, held[t])
  /\ UNCHANGED <<spin, fileVars, asyncVars, outerVars, logged>>

(* ... and is swapped with it; unlock.                                     *)
SyncSwaps(t) ==
  /\ pc[t] = "swapping"
  /\ m_buffer' = held[t]
  /\ m_mutex' = NoThread
  /\ HandOver(t, m_buffer)
  /\ UNCHANGED <<spin, fileVars, asyncVars, outerVars, logged>>

(* log: m_buffer is swapped with an empty vector; unlock.                  *)
LogDrains(t) ==
  /\ pc[t] = "draining"
  /\ m_buffer' = {}
  /\ m_mutex' = NoThread
  /\ HandOver(t, m_buffer)
  /\ UNCHANGED <<spin, fileVars, asyncVars, outerVars, logged>>

(* Logger::stop and AsyncLogger::stop.  The Consumer is not woken.         *)
Stop(t) ==
  /\ constructed /\ pc[t] = "idle"
  /\ m_mutex = NoThread
  /\ m_stop_flag' = TRUE
  /\ UNCHANGED <<loggerVars, fileVars, queue, mutex, givenVars, stolen,
                 outerVars, pc, held, logged>>

-----------------------------------------------------------------------------
(* ScopeMutex on AsyncLogger::m_mutex.                                     *)

Lock(a) == mutex = NoThread /\ mutex' = a

(* pthread_mutex_unlock of a normal mutex does not ask who holds it.       *)
Unlock(a) ==
  /\ mutex' = NoThread
  /\ stolen' = (stolen \/ mutex \notin {a, NoThread})

(* A bug to catch: push_log_buffer does not wait for the mutex.            *)
PushTriesLock(t) ==
  /\ pc[t] = "lock"
  /\ accepted < load.batches
  /\ mutex' = IF mutex = NoThread THEN t ELSE mutex
  /\ Go(t, "push")
  /\ UNCHANGED <<loggerVars, fileVars, queue, m_stop_flag, givenVars, stolen,
                 outerVars, held, logged>>

(* AsyncLogger::push_log_buffer.                                           *)
PushLocks(t) ==
  /\ pc[t] = "lock"
  /\ accepted < load.batches
  /\ Lock(t)
  /\ Go(t, "push")
  /\ UNCHANGED <<loggerVars, fileVars, queue, m_stop_flag, givenVars, stolen,
                 outerVars, held, logged>>

(* A bug to catch: the condition variable is not signalled.                *)
PushSilent(t) ==
  /\ pc[t] = "push"
  /\ queue' = Append(queue, held[t])
  /\ accepted' = accepted + 1
  /\ delivered' = delivered \cup held[t]
  /\ unwritten' = Append(unwritten, held[t])
  /\ held' = [held EXCEPT ![t] = {}]
  /\ pc' = [pc EXCEPT ![t] = "unlock"]
  /\ UNCHANGED <<loggerVars, m_date, m_number, handler, large, past, mutex,
                 m_stop_flag, stolen, outerVars, logged>>

(* push, and pthread_cond_signal wakes the Consumer if it waits.           *)
PushSignals(t) ==
  /\ pc[t] = "push"
  /\ queue' = Append(queue, held[t])
  /\ accepted' = accepted + 1
  /\ delivered' = delivered \cup held[t]
  /\ unwritten' = Append(unwritten, held[t])
  /\ held' = [held EXCEPT ![t] = {}]
  /\ pc' = [pc EXCEPT ![t] = "unlock",
                      ![Consumer] = IF @ = "waiting" THEN "relock" ELSE @]
  /\ UNCHANGED <<loggerVars, m_date, m_number, handler, large, past, mutex,
                 m_stop_flag, stolen, outerVars, logged>>

(* unlock(), then the destructor unlocks again.                            *)
PushUnlocks(t) ==
  /\ pc[t] \in {"unlock", "scope end"}
  /\ Unlock(t)
  /\ Go(t, IF pc[t] = "unlock" THEN "scope end" ELSE "idle")
  /\ UNCHANGED <<loggerVars, fileVars, queue, m_stop_flag, givenVars, outerVars,
                 held, logged>>

-----------------------------------------------------------------------------
(* AsyncLogger::Loop.                                                      *)

(* pthread_cond_init and sem_post.                                         *)
LoopStarts ==
  /\ pc[Consumer] = "start"
  /\ Go(Consumer, "top")
  /\ UNCHANGED <<loggerVars, fileVars, asyncVars, outerVars, held, logged>>

(* The top of the loop: the stop flag, then the lock.                      *)
LoopTop ==
  /\ pc[Consumer] = "top"
  /\ IF m_stop_flag
       THEN UNCHANGED mutex /\ Go(Consumer, "done")
       ELSE Lock(Consumer) /\ Go(Consumer, "note")
  /\ UNCHANGED <<loggerVars, fileVars, queue, m_stop_flag, givenVars, stolen,
                 outerVars, held, logged>>

(* A bug to catch: the newest batch is taken.                              *)
LoopTakesLast ==
  /\ pc[Consumer] = "test"
  /\ queue # << >> /\ ~m_stop_flag
  /\ held' = [held EXCEPT ![Consumer] = Last(queue)]
  /\ queue' = Front(queue)
  /\ Go(Consumer, "unlock")
  /\ UNCHANGED <<loggerVars, fileVars, mutex, m_stop_flag, givenVars, stolen,
                 outerVars, logged>>

(* The queue is not empty: the oldest batch is taken out of it ...         *)
LoopTakes ==
  /\ pc[Consumer] = "test"
  /\ queue # << >> /\ ~m_stop_flag
  /\ held' = [held EXCEPT ![Consumer] = Head(queue)]
  /\ queue' = Tail(queue)
  /\ Go(Consumer, "unlock")
  /\ UNCHANGED <<loggerVars, fileVars, mutex, m_stop_flag, givenVars, stolen,
                 outerVars, logged>>

(* ... unless the stop flag is set; or it is empty.                        *)
LoopTest ==
  /\ pc[Consumer] = "test"
  /\ queue = << >> \/ m_stop_flag
  /\ Go(Consumer, IF queue = << >> THEN "wait" ELSE "scope end")
  /\ UNCHANGED <<loggerVars, fileVars, asyncVars, outerVars, held, logged>>

(* pthread_cond_wait: unlocks and waits in one step ...                    *)
LoopWaits ==
  /\ pc[Consumer] = "wait"
  /\ Unlock(Consumer)
  /\ Go(Consumer, "waiting")
  /\ UNCHANGED <<loggerVars, fileVars, queue, m_stop_flag, givenVars, outerVars,
                 held, logged>>

(* ... and locks again when it has been signalled.                         *)
LoopRelocks ==
  /\ pc[Consumer] = "relock"
  /\ Lock(Consumer)
  /\ Go(Consumer, "test")
  /\ UNCHANGED <<loggerVars, fileVars, queue, m_stop_flag, givenVars, stolen,
                 outerVars, held, logged>>

LoopUnlocks ==
  /\ pc[Consumer] = "unlock"
  /\ Unlock(Consumer)
  /\ Go(Consumer, "write")
  /\ UNCHANGED <<loggerVars, fileVars, queue, m_stop_flag, givenVars, outerVars,
                 held, logged>>

(* A bug to catch: the number is not incremented.                          *)
ChooseFileSameNumber(number, open) ==
  IF open \in large
    THEN handler' = <<clock, number>> /\ m_number' = number
    ELSE handler' = open /\ m_number' = number

(* When the file is too large the next one is opened: its name is formed   *)
(* with m_number++, so the first time it is the same file again.           *)
ChooseFile(number, open) ==
  IF open \in large
    THEN handler' = <<clock, number>> /\ m_number' = number + 1
    ELSE handler' = open /\ m_number' = number

(* The date, the file, fwrite of the batch and fflush.  A new day starts   *)
(* with number 0, and it or the first batch opens a file.                  *)
LoopWrites ==
  /\ pc[Consumer] = "write"
  /\ m_date' = clock
  /\ LET number == IF m_date = clock THEN m_number ELSE 0
         open == IF m_date = clock /\ handler # NoFile THEN handler
                                                       ELSE <<clock, number>>
     IN ChooseFile(number, open)
  /\ large' \in {large, large \cup {handler'}}
  /\ past' = [past EXCEPT ![handler'] =
                @ + IF handler' \in large THEN 1 ELSE 0]
  /\ unwritten' = Tail(unwritten)
  /\ held' = [held EXCEPT ![Consumer] = {}]
  /\ Go(Consumer, "scope end")
  /\ UNCHANGED <<loggerVars, asyncVars, outerVars, logged>>

(* The end of the loop's body: the stop flag; the lock's destructor.       *)
LoopEnds ==
  /\ pc[Consumer] = "scope end"
  /\ Unlock(Consumer)
  /\ Go(Consumer, IF m_stop_flag THEN "done" ELSE "top")
  /\ UNCHANGED <<loggerVars, fileVars, queue, m_stop_flag, givenVars, outerVars,
                 held, logged>>

Loop ==
  \/ LoopStarts \/ LoopTop \/ ConsumerNote \/ PushLog(Consumer)
  \/ LoopTest \/ LoopWaits \/ LoopRelocks \/ LoopTakes \/ LoopUnlocks
  \/ LoopWrites \/ LoopEnds

-----------------------------------------------------------------------------
(* Midnight.                                                               *)
Tick ==
  /\ clock < load.days
  /\ clock' = clock + 1
  /\ UNCHANGED <<loggerVars, fileVars, asyncVars, load, constructed, restarts,
                 pc, held, logged>>

(* The process ends at any moment and is started again; the files stay.    *)
Restart ==
  /\ restarts < load.restarts
  /\ restarts' = restarts + 1
  /\ m_buffer' = {} /\ spin' = NoThread /\ m_mutex' = NoThread
  /\ queue' = << >> /\ mutex' = NoThread /\ m_stop_flag' = FALSE
  /\ m_date' = 0 /\ m_number' = 0 /\ handler' = NoFile
  /\ pc' = Unused /\ held' = NoBatches /\ constructed' = FALSE
  /\ logged' = 0 /\ accepted' = 0 /\ delivered' = {} /\ unwritten' = << >>
  /\ past' = NonePast /\ stolen' = FALSE
  /\ UNCHANGED <<load, clock, large>>

(* A thread inside one of its calls.                                       *)
InCall(t) ==
  \/ PushLog(t) \/ SyncCopies(t) \/ SyncBeginsSwap(t) \/ SyncSwaps(t)
  \/ LogDrains(t) \/ PushLocks(t) \/ PushSignals(t) \/ PushUnlocks(t)

Call(t) ==
  \/ \E level \in {Debug, Info, Error} : LogMessage(t, level)
  \/ \E first \in {"copying", "draining"} : TakeBuffer(t, first)
  \/ Stop(t)

Running ==
  \/ ConstructorReturns
  \/ \E t \in load.threads : Call(t) \/ InCall(t)
  \/ Loop
  \/ Tick \/ Restart

Next == ~BufferRaced /\ ~QueueRaced /\ Running

Spec == Init /\ [][Next]_vars

(* The threads are scheduled; nobody has to call the logger or to stop it. *)
FairSpec ==
  /\ Spec
  /\ WF_vars(~BufferRaced /\ ~QueueRaced /\ Loop)
  /\ \A t \in Threads : WF_vars(~BufferRaced /\ ~QueueRaced /\ InCall(t))

-----------------------------------------------------------------------------
(* Properties.                                                             *)

(* Two threads use the queue of batches at once only after a second unlock *)
(* (~ScopeMutex after unlock()) has released a mutex that another thread   *)
(* held: every other way through lock, wait and unlock excludes it.        *)
RaceOnlyAfterTheft == QueueRaced => stolen

(* A message whose push_log has returned is in m_buffer, in the hands of   *)
(* sync_loop or log, or in a batch the AsyncLogger has accepted: also when *)
(* it comes between the copy and the swap of sync_loop, which hold another *)
(* lock than push_log.                                                     *)
NoMessageLost ==
  LET pushing == {logged : t \in {t \in Threads : pc[t] = "pushing"}}
  IN (1..logged) \ pushing \subseteq
       m_buffer \cup delivered \cup UNION {held[t] : t \in Threads}

(* The batches are written in the order in which push_log_buffer accepted  *)
(* them, each once, whoever interleaves with the Consumer's take.          *)
BatchesInOrder ==
  LET inHand == IF held[Consumer] = {} THEN << >> ELSE <<held[Consumer]>>
  IN inHand \o queue = unwritten

(* In one run of the process a file that is too large receives at most one *)
(* batch more, over days, roll-overs and restarts that find the files of   *)
(* earlier runs (log.cc:277).                                              *)
OneBatchPastLimit == \A f \in Files : past[f] <= 1

(* The batches that were accepted come to be written, unless the logger is *)
(* stopped or a second unlock has released a mutex that another thread     *)
(* held: the Consumer may then miss the signal for a batch pushed between  *)
(* its test of the queue and its wait.                                     *)
EveryBatchWritten ==
  unwritten # << >>
    ~> unwritten = << >> \/ m_stop_flag \/ stolen \/ BufferRaced
=============================================================================
