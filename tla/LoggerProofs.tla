---------------------------- MODULE LoggerProofs ----------------------------
(* Proofs of the safety properties of Logger for any threads, workloads,   *)
(* level and number of messages.                                           *)
EXTENDS Logger, FiniteSetTheorems, SequenceTheorems, TLAPS

USE DEF vars, loggerVars, fileVars, givenVars, asyncVars, outerVars

-----------------------------------------------------------------------------
(* Where the threads can be, and the types of the rest.                    *)
ThreadPcs == {"idle", "pushing", "copying", "copied", "swapping", "draining",
              "lock", "push", "unlock", "scope end"}
ConsumerPcs == {"start", "top", "note", "pushing", "test", "wait", "waiting",
                "relock", "unlock", "write", "scope end", "done"}
Batches == (SUBSET Nat) \ {{}}

PcTypes ==
  /\ pc \in [Actors -> ThreadPcs \cup ConsumerPcs]
  /\ \A t \in Threads : pc[t] \in ThreadPcs
  /\ pc[Consumer] \in ConsumerPcs

DataTypes ==
  /\ m_buffer \in SUBSET Nat /\ delivered \in SUBSET Nat
  /\ held \in [Actors -> SUBSET Nat]
  /\ queue \in Seq(Batches)
  /\ logged \in Nat /\ m_date \in Nat /\ m_number \in Nat /\ clock \in Nat
  /\ past \in [Files -> Nat]
  /\ load \in Loads

(* A thread has a batch at hand between the swap and the push, the         *)
(* Consumer between the take and the write; an empty batch is not pushed.  *)
AtHand ==
  /\ \A t \in Threads :
       /\ pc[t] \in {"idle", "pushing", "copying", "draining", "unlock", "scope end"}
            => held[t] = {}
       /\ pc[t] \in {"lock", "push"} => held[t] # {}
  /\ held[Consumer] # {} <=> pc[Consumer] \in {"unlock", "write"}

LoggerInv == PcTypes /\ DataTypes /\ AtHand

LEMMA ThreadsAreActors ==
  /\ Consumer \in Actors /\ Consumer \notin Threads
  /\ \A t \in Threads : t \in Actors /\ t # Consumer
  /\ \A l \in Loads : l.threads \subseteq Threads
BY LoadsAssumption DEF Actors, Threads

(* A thread, or the Consumer, goes from one label to another.              *)
LEMMA ThreadMoves ==
  ASSUME PcTypes, NEW t \in Threads, NEW l \in ThreadPcs, pc' = [pc EXCEPT ![t] = l]
  PROVE  /\ PcTypes' /\ pc'[t] = l
         /\ \A a \in Actors : a # t => pc'[a] = pc[a]
BY ThreadsAreActors DEF PcTypes

LEMMA ConsumerMoves ==
  ASSUME PcTypes, NEW l \in ConsumerPcs, pc' = [pc EXCEPT ![Consumer] = l]
  PROVE  /\ PcTypes' /\ pc'[Consumer] = l
         /\ \A a \in Actors : a # Consumer => pc'[a] = pc[a]
BY ThreadsAreActors DEF PcTypes

(* AtHand after a move that does not touch the batches, or gives the actor *)
(* that moves another one.                                                 *)
LEMMA ThreadAtHand ==
  ASSUME LoggerInv, NEW t \in Threads, NEW l \in ThreadPcs, NEW b \in SUBSET Nat,
         pc' = [pc EXCEPT ![t] = l],
         held' = [held EXCEPT ![t] = b],
         l \in {"idle", "pushing", "copying", "draining", "unlock", "scope end"} => b = {},
         l \in {"lock", "push"} => b # {}
  PROVE  PcTypes' /\ AtHand' /\ held' \in [Actors -> SUBSET Nat]
<1>1. PcTypes' /\ pc'[t] = l /\ \A a \in Actors : a # t => pc'[a] = pc[a]
  BY ThreadMoves, Zenon DEF LoggerInv
<1>2. held \in [Actors -> SUBSET Nat] /\ AtHand
  BY Zenon DEF LoggerInv, DataTypes
<1>3. /\ held' \in [Actors -> SUBSET Nat] /\ held'[t] = b
      /\ \A a \in Actors : a # t => held'[a] = held[a]
  BY <1>2, ThreadsAreActors
<1>4. ASSUME NEW u \in Threads
      PROVE  /\ pc'[u] \in {"idle", "pushing", "copying", "draining", "unlock", "scope end"}
                  => held'[u] = {}
             /\ pc'[u] \in {"lock", "push"} => held'[u] # {}
  <2>1. CASE u = t
    BY <1>1, <1>3, <2>1
  <2>2. CASE u # t
    <3>1. u \in Actors
      BY ThreadsAreActors
    <3>2. pc'[u] = pc[u] /\ held'[u] = held[u]
      BY <1>1, <1>3, <2>2, <3>1
    <3> QED BY <1>2, <3>2, Zenon DEF AtHand
  <2> QED BY <2>1, <2>2
<1>5. pc'[Consumer] = pc[Consumer] /\ held'[Consumer] = held[Consumer]
  BY <1>1, <1>3, ThreadsAreActors
<1> QED BY <1>1, <1>2, <1>3, <1>4, <1>5, Zenon DEF AtHand

LEMMA ConsumerAtHand ==
  ASSUME LoggerInv, NEW l \in ConsumerPcs, NEW b \in SUBSET Nat,
         pc' = [pc EXCEPT ![Consumer] = l],
         held' = [held EXCEPT ![Consumer] = b],
         b # {} <=> l \in {"unlock", "write"}
  PROVE  PcTypes' /\ AtHand' /\ held' \in [Actors -> SUBSET Nat]
<1>1. PcTypes' /\ pc'[Consumer] = l /\ \A a \in Actors : a # Consumer => pc'[a] = pc[a]
  BY ConsumerMoves, Zenon DEF LoggerInv
<1>2. held \in [Actors -> SUBSET Nat] /\ AtHand
  BY Zenon DEF LoggerInv, DataTypes
<1>3. /\ held' \in [Actors -> SUBSET Nat] /\ held'[Consumer] = b
      /\ \A a \in Actors : a # Consumer => held'[a] = held[a]
  BY <1>2, ThreadsAreActors
<1>4. \A u \in Threads : pc'[u] = pc[u] /\ held'[u] = held[u]
  BY <1>1, <1>3, ThreadsAreActors, Zenon
<1> QED BY <1>1, <1>2, <1>3, <1>4, Zenon DEF AtHand

(* A step that leaves the messages and the batches where they are.         *)
Data == <<m_buffer, delivered, queue, logged, m_date, m_number, clock, past, load>>

LEMMA DataKept ==
  ASSUME LoggerInv, UNCHANGED Data, held' \in [Actors -> SUBSET Nat]
  PROVE  DataTypes'
BY Zenon DEF LoggerInv, DataTypes, Data

(* The same for a step that does not change what anybody has at hand.      *)
LEMMA ThreadStep ==
  ASSUME LoggerInv, NEW t \in Threads, NEW l \in ThreadPcs,
         pc' = [pc EXCEPT ![t] = l], held' = held, UNCHANGED Data,
         l \in {"idle", "pushing", "copying", "draining", "unlock", "scope end"}
           => held[t] = {},
         l \in {"lock", "push"} => held[t] # {}
  PROVE  LoggerInv'
<1>1. held \in [Actors -> SUBSET Nat] /\ t \in Actors
  BY ThreadsAreActors, Zenon DEF LoggerInv, DataTypes
<1>2. held[t] \in SUBSET Nat /\ held' = [held EXCEPT ![t] = held[t]]
  BY <1>1
<1>3. PICK b \in SUBSET Nat : b = held[t]
  BY <1>2
<1>4. held' = [held EXCEPT ![t] = b]
  BY <1>2, <1>3, Zenon
<1>5. PcTypes' /\ AtHand' /\ held' \in [Actors -> SUBSET Nat]
  BY <1>3, <1>4, ThreadAtHand, Zenon
<1> QED BY <1>5, DataKept, Zenon DEF LoggerInv

LEMMA ConsumerStep ==
  ASSUME LoggerInv, NEW l \in ConsumerPcs,
         pc' = [pc EXCEPT ![Consumer] = l], held' = held, UNCHANGED Data,
         pc[Consumer] \in {"unlock", "write"} <=> l \in {"unlock", "write"}
  PROVE  LoggerInv'
<1>1. held \in [Actors -> SUBSET Nat] /\ Consumer \in Actors
  BY ThreadsAreActors, Zenon DEF LoggerInv, DataTypes
<1>2. held[Consumer] \in SUBSET Nat /\ held' = [held EXCEPT ![Consumer] = held[Consumer]]
  BY <1>1
<1>3. PICK b \in SUBSET Nat : b = held[Consumer]
  BY <1>2
<1>4. held' = [held EXCEPT ![Consumer] = b]
  BY <1>2, <1>3, Zenon
<1>5. b # {} <=> l \in {"unlock", "write"}
  BY <1>3, Zenon DEF LoggerInv, AtHand
<1>6. PcTypes' /\ AtHand' /\ held' \in [Actors -> SUBSET Nat]
  BY <1>4, <1>5, ConsumerAtHand, Zenon
<1> QED BY <1>6, DataKept, Zenon DEF LoggerInv

LEMMA LoggerStep ==
  ASSUME LoggerInv, [Next]_vars
  PROVE  LoggerInv'
<1>1. /\ m_buffer \in SUBSET Nat /\ delivered \in SUBSET Nat
      /\ held \in [Actors -> SUBSET Nat]
      /\ queue \in Seq(Batches)
      /\ logged \in Nat /\ m_date \in Nat /\ m_number \in Nat /\ clock \in Nat
      /\ past \in [Files -> Nat] /\ load \in Loads
  BY Zenon DEF LoggerInv, DataTypes
<1>2. \A t \in Threads :
        /\ pc[t] \in {"idle", "pushing", "copying", "draining", "unlock", "scope end"}
             => held[t] = {}
        /\ pc[t] \in {"lock", "push"} => held[t] # {}
  BY Zenon DEF LoggerInv, AtHand
<1>3. held[Consumer] # {} <=> pc[Consumer] \in {"unlock", "write"}
  BY Zenon DEF LoggerInv, AtHand
(* The threads of the application.                                         *)
<1>4. ASSUME NEW t \in Threads, NEW level, LogMessage(t, level) PROVE LoggerInv'
  <2>1. /\ pc' = [pc EXCEPT ![t] = "pushing"] /\ held' = held /\ pc[t] = "idle"
        /\ logged' = logged + 1
        /\ UNCHANGED <<m_buffer, delivered, queue, m_date, m_number, clock, past, load>>
    BY <1>4, Zenon DEF LogMessage, Go
  <2>2. held[t] = {} /\ held' = [held EXCEPT ![t] = {}]
    BY <1>1, <1>2, <2>1, ThreadsAreActors
  <2>3. {} \in SUBSET Nat /\ "pushing" \in ThreadPcs
    BY DEF ThreadPcs
  <2>4. PcTypes' /\ AtHand' /\ held' \in [Actors -> SUBSET Nat]
    BY <2>1, <2>2, <2>3, ThreadAtHand
  <2>5. logged' \in Nat
    BY <1>1, <2>1
  <2> QED BY <1>1, <2>1, <2>4, <2>5, Zenon DEF LoggerInv, DataTypes
<1>5. ASSUME NEW t \in Threads, PushLog(t) PROVE LoggerInv'
  <2>1. /\ pc' = [pc EXCEPT ![t] = "idle"] /\ held' = held /\ pc[t] = "pushing"
        /\ m_buffer' = m_buffer \cup {logged}
        /\ UNCHANGED <<delivered, queue, logged, m_date, m_number, clock, past, load>>
    BY <1>5, ThreadsAreActors, Zenon DEF PushLog, Go
  <2>2. held[t] = {} /\ held' = [held EXCEPT ![t] = {}]
    BY <1>1, <1>2, <2>1, ThreadsAreActors
  <2>3. {} \in SUBSET Nat /\ "idle" \in ThreadPcs
    BY DEF ThreadPcs
  <2>4. PcTypes' /\ AtHand' /\ held' \in [Actors -> SUBSET Nat]
    BY <2>1, <2>2, <2>3, ThreadAtHand
  <2>5. m_buffer' \in SUBSET Nat
    BY <1>1, <2>1
  <2> QED BY <1>1, <2>1, <2>4, <2>5, Zenon DEF LoggerInv, DataTypes
<1>6. ASSUME NEW t \in Threads, NEW first \in {"copying", "draining"}, TakeBuffer(t, first)
      PROVE  LoggerInv'
  <2>1. /\ pc' = [pc EXCEPT ![t] = first] /\ held' = held /\ pc[t] = "idle" /\ UNCHANGED Data
    BY <1>6, Zenon DEF TakeBuffer, Go, Data
  <2>2. held[t] = {} /\ first \in ThreadPcs /\ ~(first \in {"lock", "push"})
    BY <1>2, <2>1 DEF ThreadPcs
  <2> QED BY <2>1, <2>2, ThreadStep, Zenon
<1>7. ASSUME NEW t \in Threads, Stop(t) PROVE LoggerInv'
  <2>1. pc' = pc /\ held' = held /\ UNCHANGED Data
    BY <1>7, Zenon DEF Stop, Data
  <2> QED BY <1>1, <2>1, DataKept, Zenon DEF LoggerInv, PcTypes, AtHand
<1>8. ASSUME NEW t \in Threads, SyncCopies(t) PROVE LoggerInv'
  <2>1. /\ pc' = [pc EXCEPT ![t] = "copied"] /\ held' = [held EXCEPT ![t] = m_buffer]
        /\ UNCHANGED Data
    BY <1>8, Zenon DEF SyncCopies, Go, Data
  <2>2. PICK b \in SUBSET Nat : b = m_buffer
    BY <1>1
  <2>3. /\ "copied" \in ThreadPcs
        /\ ~("copied" \in {"idle", "pushing", "copying", "draining", "unlock", "scope end"})
        /\ ~("copied" \in {"lock", "push"})
    BY DEF ThreadPcs
  <2>4. held' = [held EXCEPT ![t] = b]
    BY <2>1, <2>2, Zenon
  <2>5. PcTypes' /\ AtHand' /\ held' \in [Actors -> SUBSET Nat]
    BY <2>1, <2>3, <2>4, ThreadAtHand, Zenon
  <2> QED BY <2>1, <2>5, DataKept, Zenon DEF LoggerInv
<1>9. ASSUME NEW t \in Threads, SyncBeginsSwap(t) PROVE LoggerInv'
  <2>1. pc' = [pc EXCEPT ![t] = "swapping"] /\ held' = held /\ UNCHANGED Data
    BY <1>9, Zenon DEF SyncBeginsSwap, Go, Data
  <2>2. /\ "swapping" \in ThreadPcs
        /\ ~("swapping" \in {"idle", "pushing", "copying", "draining", "unlock", "scope end"})
        /\ ~("swapping" \in {"lock", "push"})
    BY DEF ThreadPcs
  <2> QED BY <2>1, <2>2, ThreadStep, Zenon
<1>10. ASSUME NEW t \in Threads, SyncSwaps(t) \/ LogDrains(t) PROVE LoggerInv'
  <2>1. /\ HandOver(t, m_buffer) /\ m_buffer' \in {held[t], {}}
        /\ UNCHANGED <<delivered, queue, logged, m_date, m_number, clock, past, load>>
    BY <1>10, Zenon DEF SyncSwaps, LogDrains
  <2>2. PICK b \in SUBSET Nat : b = m_buffer
    BY <1>1
  <2>3. PICK l \in {"idle", "lock"} : l = IF b = {} THEN "idle" ELSE "lock"
    OBVIOUS
  <2>4. held' = [held EXCEPT ![t] = b] /\ pc' = [pc EXCEPT ![t] = l]
    BY <2>1, <2>2, <2>3, Zenon DEF HandOver, Go
  <2>5. l \in ThreadPcs /\ (l = "idle" <=> b = {}) /\ (l = "lock" <=> b # {})
    BY <2>3 DEF ThreadPcs
  <2>6. PcTypes' /\ AtHand' /\ held' \in [Actors -> SUBSET Nat]
    BY <2>3, <2>4, <2>5, ThreadAtHand
  <2>7. m_buffer' \in SUBSET Nat
    BY <1>1, <2>1, ThreadsAreActors
  <2> QED BY <1>1, <2>1, <2>6, <2>7, Zenon DEF LoggerInv, DataTypes
<1>11. ASSUME NEW t \in Threads, PushLocks(t) PROVE LoggerInv'
  <2>1. pc' = [pc EXCEPT ![t] = "push"] /\ pc[t] = "lock" /\ held' = held /\ UNCHANGED Data
    BY <1>11, Zenon DEF PushLocks, Go, Data
  <2>2. held[t] # {} /\ "push" \in ThreadPcs
        /\ ~("push" \in {"idle", "pushing", "copying", "draining", "unlock", "scope end"})
    BY <1>2, <2>1 DEF ThreadPcs
  <2> QED BY <2>1, <2>2, ThreadStep, Zenon
<1>12. ASSUME NEW t \in Threads, PushUnlocks(t) PROVE LoggerInv'
  <2>1. /\ pc[t] \in {"unlock", "scope end"} /\ held' = held /\ UNCHANGED Data
        /\ pc' = [pc EXCEPT ![t] = IF pc[t] = "unlock" THEN "scope end" ELSE "idle"]
    BY <1>12, Zenon DEF PushUnlocks, Go, Data
  <2>2. PICK l \in {"scope end", "idle"} : l = IF pc[t] = "unlock" THEN "scope end" ELSE "idle"
    OBVIOUS
  <2>3. pc' = [pc EXCEPT ![t] = l]
    BY <2>1, <2>2, Zenon
  <2>4. held[t] = {} /\ l \in ThreadPcs /\ ~(l \in {"lock", "push"})
    BY <1>2, <2>1, <2>2 DEF ThreadPcs
  <2> QED BY <2>1, <2>3, <2>4, ThreadStep, Zenon
<1>13. ASSUME NEW t \in Threads, PushSignals(t) PROVE LoggerInv'
  <2>1. /\ pc[t] = "push" /\ held' = [held EXCEPT ![t] = {}]
        /\ queue' = Append(queue, held[t])
        /\ delivered' = delivered \cup held[t]
        /\ pc' = [pc EXCEPT ![t] = "unlock",
                            ![Consumer] = IF @ = "waiting" THEN "relock" ELSE @]
        /\ UNCHANGED <<m_buffer, logged, m_date, m_number, clock, past, load>>
    BY <1>13, Zenon DEF PushSignals
  <2>2. t \in Actors /\ t # Consumer /\ Consumer \in Actors /\ Consumer \notin Threads
    BY ThreadsAreActors
  <2>3. held[t] \in Batches
    BY <1>1, <1>2, <2>1, <2>2 DEF Batches
  <2>4. queue' \in Seq(Batches)
    BY <1>1, <2>1, <2>3, AppendProperties
  <2>5. delivered' \in SUBSET Nat
    BY <1>1, <2>1, <2>2
  <2>6. /\ held' \in [Actors -> SUBSET Nat] /\ held'[t] = {}
        /\ \A a \in Actors : a # t => held'[a] = held[a]
    BY <1>1, <2>1, <2>2
  <2>7. /\ PcTypes' /\ pc'[t] = "unlock"
        /\ \A u \in Threads : u # t => pc'[u] = pc[u]
        /\ pc'[Consumer] = IF pc[Consumer] = "waiting" THEN "relock" ELSE pc[Consumer]
    <3>1. PcTypes
      BY Zenon DEF LoggerInv
    <3> QED BY <2>1, <2>2, <3>1, ThreadsAreActors DEF PcTypes, ThreadPcs, ConsumerPcs
  <2>8. AtHand'
    <3>1. \A u \in Threads :
            /\ pc'[u] \in {"idle", "pushing", "copying", "draining", "unlock", "scope end"}
                 => held'[u] = {}
            /\ pc'[u] \in {"lock", "push"} => held'[u] # {}
      <4> TAKE u \in Threads
      <4>1. CASE u = t
        BY <2>6, <2>7, <4>1
      <4>2. CASE u # t
        <5>1. pc'[u] = pc[u] /\ held'[u] = held[u]
          BY <2>6, <2>7, <4>2, ThreadsAreActors, Zenon
        <5> QED BY <1>2, <5>1, Zenon
      <4> QED BY <4>1, <4>2
    <3>2. held'[Consumer] # {} <=> pc'[Consumer] \in {"unlock", "write"}
      BY <1>3, <2>2, <2>6, <2>7
    <3> QED BY <3>1, <3>2, Zenon DEF AtHand
  <2> QED BY <1>1, <2>1, <2>4, <2>5, <2>6, <2>7, <2>8, Zenon DEF LoggerInv, DataTypes
(* The Consumer.                                                           *)
<1>14. ASSUME LoopStarts \/ LoopTop \/ ConsumerNote \/ LoopTest \/ LoopWaits
                \/ LoopRelocks \/ LoopUnlocks \/ LoopEnds
       PROVE  LoggerInv'
  <2>1. held' = held /\ UNCHANGED Data
    BY <1>14, Zenon DEF LoopStarts, LoopTop, ConsumerNote, LoopTest, LoopWaits,
       LoopRelocks, LoopUnlocks, LoopEnds, Data
  <2>2. \/ /\ pc[Consumer] \in {"start", "top", "note", "test", "wait", "relock", "scope end"}
           /\ \E l \in ConsumerPcs \ {"unlock", "write"} : pc' = [pc EXCEPT ![Consumer] = l]
        \/ pc[Consumer] = "unlock" /\ pc' = [pc EXCEPT ![Consumer] = "write"]
    BY <1>14 DEF LoopStarts, LoopTop, ConsumerNote, LoopTest, LoopWaits,
       LoopRelocks, LoopUnlocks, LoopEnds, Go, ConsumerPcs
  <2>3. PICK l \in ConsumerPcs :
          /\ pc' = [pc EXCEPT ![Consumer] = l]
          /\ pc[Consumer] \in {"unlock", "write"} <=> l \in {"unlock", "write"}
    BY <2>2 DEF ConsumerPcs
  <2> QED BY <2>1, <2>3, ConsumerStep, Zenon
<1>15. ASSUME PushLog(Consumer) PROVE LoggerInv'
  <2>1. /\ pc' = [pc EXCEPT ![Consumer] = "test"] /\ held' = held /\ pc[Consumer] = "pushing"
        /\ m_buffer' = m_buffer \cup {0}
        /\ UNCHANGED <<delivered, queue, logged, m_date, m_number, clock, past, load>>
    BY <1>15, Zenon DEF PushLog, Go
  <2>2. held[Consumer] = {} /\ held' = [held EXCEPT ![Consumer] = {}]
    BY <1>1, <1>3, <2>1, ThreadsAreActors
  <2>3. {} \in SUBSET Nat /\ "test" \in ConsumerPcs
    BY DEF ConsumerPcs
  <2>4. PcTypes' /\ AtHand' /\ held' \in [Actors -> SUBSET Nat]
    BY <2>1, <2>2, <2>3, ConsumerAtHand
  <2>5. m_buffer' \in SUBSET Nat
    BY <1>1, <2>1
  <2> QED BY <1>1, <2>1, <2>4, <2>5, Zenon DEF LoggerInv, DataTypes
<1>16. ASSUME LoopTakes PROVE LoggerInv'
  <2>1. /\ pc' = [pc EXCEPT ![Consumer] = "unlock"] /\ queue # << >>
        /\ held' = [held EXCEPT ![Consumer] = Head(queue)] /\ queue' = Tail(queue)
        /\ UNCHANGED <<m_buffer, delivered, logged, m_date, m_number, clock, past, load>>
    BY <1>16, Zenon DEF LoopTakes, Go
  <2>2. Head(queue) \in Batches /\ queue' \in Seq(Batches)
    BY <1>1, <2>1
  <2>3. PICK b \in SUBSET Nat : b = Head(queue) /\ b # {}
    BY <2>2 DEF Batches
  <2>4. held' = [held EXCEPT ![Consumer] = b] /\ "unlock" \in ConsumerPcs
    BY <2>1, <2>3, Zenon DEF ConsumerPcs
  <2>5. PcTypes' /\ AtHand' /\ held' \in [Actors -> SUBSET Nat]
    BY <2>1, <2>3, <2>4, ConsumerAtHand
  <2> QED BY <1>1, <2>1, <2>2, <2>5, Zenon DEF LoggerInv, DataTypes
<1>17. ASSUME LoopWrites PROVE LoggerInv'
  <2>1. /\ pc' = [pc EXCEPT ![Consumer] = "scope end"] /\ pc[Consumer] = "write"
        /\ held' = [held EXCEPT ![Consumer] = {}]
        /\ m_date' = clock
        /\ past' = [past EXCEPT ![handler'] = @ + IF handler' \in large THEN 1 ELSE 0]
        /\ UNCHANGED <<m_buffer, delivered, queue, logged, clock, load>>
    BY <1>17, Zenon DEF LoopWrites, Go
  <2>2. m_number' \in Nat
    <3>1. \E number \in {m_number, 0} : m_number' \in {number, number + 1}
      BY <1>17 DEF LoopWrites, ChooseFile
    <3> QED BY <1>1, <3>1
  <2>3. past' \in [Files -> Nat]
    <3>1. PICK file : file = handler'
      OBVIOUS
    <3>2. PICK n \in {0, 1} : n = IF handler' \in large THEN 1 ELSE 0
      OBVIOUS
    <3>3. past' = [past EXCEPT ![file] = @ + n]
      BY <2>1, <3>1, <3>2, Zenon
    <3>4. \A f \in Files : past'[f] \in Nat
      BY <1>1, <3>2, <3>3
    <3>5. past' = [f \in Files |-> past'[f]]
      BY <1>1, <3>3
    <3> QED BY <3>4, <3>5
  <2>5. {} \in SUBSET Nat /\ "scope end" \in ConsumerPcs
    BY DEF ConsumerPcs
  <2>6. PcTypes' /\ AtHand' /\ held' \in [Actors -> SUBSET Nat]
    BY <2>1, <2>5, ConsumerAtHand
  <2> QED BY <1>1, <2>1, <2>2, <2>3, <2>6, Zenon DEF LoggerInv, DataTypes
(* Outside the process.                                                    *)
<1>18. ASSUME ConstructorReturns \/ UNCHANGED vars PROVE LoggerInv'
  <2>1. pc' = pc /\ held' = held /\ UNCHANGED Data
    BY <1>18, Zenon DEF ConstructorReturns, Data
  <2> QED BY <1>1, <2>1, DataKept, Zenon DEF LoggerInv, PcTypes, AtHand
<1>19. ASSUME Tick PROVE LoggerInv'
  <2>1. pc' = pc /\ held' = held /\ clock' = clock + 1
        /\ UNCHANGED <<m_buffer, delivered, queue, logged, m_date, m_number, past, load>>
    BY <1>19, Zenon DEF Tick
  <2>2. clock' \in Nat
    BY <1>1, <2>1
  <2> QED BY <1>1, <2>1, <2>2, Zenon DEF LoggerInv, DataTypes, PcTypes, AtHand
<1>20. ASSUME Restart PROVE LoggerInv'
  <2>1. /\ pc' = Unused /\ held' = NoBatches /\ m_buffer' = {} /\ delivered' = {}
        /\ queue' = << >> /\ logged' = 0 /\ m_date' = 0
        /\ m_number' = 0 /\ past' = NonePast /\ clock' = clock /\ load' = load
    BY <1>20, Zenon DEF Restart
  <2>2. << >> \in Seq(Batches)
    BY EmptySeq, Zenon
  <2>3. DataTypes'
    BY <1>1, <2>1, <2>2 DEF DataTypes, NoBatches, NonePast
  <2>4. PcTypes' /\ AtHand'
    BY <2>1, ThreadsAreActors DEF PcTypes, AtHand, Unused, NoBatches, ThreadPcs, ConsumerPcs
  <2> QED BY <2>3, <2>4 DEF LoggerInv
<1>21. \A t \in load.threads : t \in Threads
  BY <1>1, ThreadsAreActors
<1> QED
  BY <1>4, <1>5, <1>6, <1>7, <1>8, <1>9, <1>10, <1>11, <1>12, <1>13, <1>14, <1>15, <1>16,
     <1>17, <1>18, <1>19, <1>20, <1>21, Zenon
     DEF Next, Running, Call, InCall, Loop

LEMMA LoggerInvariant == Spec => []LoggerInv
<1>1. Init => LoggerInv
  <2> SUFFICES ASSUME Init PROVE LoggerInv
    OBVIOUS
  <2>1. << >> \in Seq(Batches)
    BY EmptySeq, Zenon
  <2>2. DataTypes
    BY <2>1 DEF Init, DataTypes, NoBatches, NonePast
  <2>3. PcTypes /\ AtHand
    BY ThreadsAreActors DEF Init, PcTypes, AtHand, Unused, NoBatches, ThreadPcs, ConsumerPcs
  <2> QED BY <2>2, <2>3 DEF LoggerInv
<1>2. LoggerInv /\ [Next]_vars => LoggerInv'
  BY LoggerStep, Zenon
<1> QED BY <1>1, <1>2, PTL DEF Spec

-----------------------------------------------------------------------------
(* The batches on their way to the files.                                  *)
LEMMA OneAhead ==
  ASSUME NEW q \in Seq(Batches), NEW b \in Batches
  PROVE  /\ Tail(<<b>> \o q) = q
         /\ \A c \in Batches : <<b>> \o Append(q, c) = Append(<<b>> \o q, c)
         /\ q # << >> => <<Head(q)>> \o Tail(q) = q
<1>1. <<b>> \in Seq(Batches) /\ Len(<<b>>) = 1
  OBVIOUS
<1>2. Tail(<<b>> \o q) = q
  <2> DEFINE s == <<b>> \o q
  <2>1. /\ s \in Seq(Batches) /\ Len(s) = Len(<<b>>) + Len(q)
        /\ \A i \in 1..(Len(<<b>>) + Len(q)) :
             s[i] = IF i <= Len(<<b>>) THEN <<b>>[i] ELSE q[i - Len(<<b>>)]
    BY <1>1, ConcatProperties, Zenon
  <2> HIDE DEF s
  <2>2. Len(s) = 1 + Len(q) /\ \A i \in 1..(1 + Len(q)) : i # 1 => s[i] = q[i - 1]
    BY <1>1, <2>1
  <2>3. s # << >> /\ Len(q) \in Nat
    BY <2>1, <2>2
  <2>4. /\ Tail(s) \in Seq(Batches) /\ Len(Tail(s)) = Len(s) - 1
        /\ \A i \in 1..Len(Tail(s)) : Tail(s)[i] = s[i + 1]
    BY <2>1, <2>3, HeadTailProperties, Zenon
  <2>5. Len(Tail(s)) = Len(q) /\ \A i \in 1..Len(q) : Tail(s)[i] = q[i]
    BY <2>2, <2>3, <2>4
  <2>6. Tail(s) = q
    BY <2>4, <2>5, SeqEqual, Zenon
  <2> QED BY <2>6 DEF s
<1>3. \A c \in Batches : <<b>> \o Append(q, c) = Append(<<b>> \o q, c)
  <2> TAKE c \in Batches
  <2>1. Append(q, c) = q \o <<c>> /\ <<c>> \in Seq(Batches)
    BY AppendIsConcat
  <2>2. <<b>> \o q \in Seq(Batches)
    BY <1>1, ConcatProperties, Zenon
  <2>3. Append(<<b>> \o q, c) = (<<b>> \o q) \o <<c>>
    BY <2>2, AppendIsConcat, Zenon
  <2>4. (<<b>> \o q) \o <<c>> = <<b>> \o (q \o <<c>>)
    BY <1>1, <2>1, ConcatAssociative
  <2> QED BY <2>1, <2>3, <2>4
<1>4. ASSUME q # << >> PROVE <<Head(q)>> \o Tail(q) = q
  <2>1. /\ Head(q) \in Batches /\ Tail(q) \in Seq(Batches) /\ Len(Tail(q)) = Len(q) - 1
        /\ \A i \in 1..Len(Tail(q)) : Tail(q)[i] = q[i + 1]
    BY <1>4, HeadTailProperties, Zenon
  <2>2. <<Head(q)>> \in Seq(Batches) /\ Len(<<Head(q)>>) = 1 /\ <<Head(q)>>[1] = q[1]
    BY <1>4, <2>1
  <2> DEFINE h == <<Head(q)>>
             r == Tail(q)
             s == h \o r
  <2> HIDE DEF h, r
  <2>3. h \in Seq(Batches) /\ Len(h) = 1 /\ h[1] = q[1]
    BY <2>2 DEF h
  <2>4. /\ s \in Seq(Batches) /\ Len(s) = Len(h) + Len(r)
        /\ \A i \in 1..(Len(h) + Len(r)) :
             s[i] = IF i <= Len(h) THEN h[i] ELSE r[i - Len(h)]
    <3>1. r \in Seq(Batches) /\ h \in Seq(Batches)
      BY <2>1, <2>3 DEF r
    <3> QED BY <3>1, ConcatProperties, Zenon
  <2> HIDE DEF s
  <2>5. Len(s) = Len(q) /\ \A i \in 1..Len(q) : s[i] = q[i]
    <3>1. Len(q) \in Nat /\ Len(q) # 0
      BY <1>4
    <3>2. Len(s) = Len(q)
      BY <2>1, <2>3, <2>4, <3>1 DEF r
    <3>3. ASSUME NEW i \in 1..Len(q) PROVE s[i] = q[i]
      <4>1. s[i] = IF i <= 1 THEN h[i] ELSE Tail(q)[i - 1]
        BY <2>1, <2>3, <2>4, <3>1 DEF r
      <4>2. CASE i = 1
        BY <2>3, <4>1, <4>2
      <4>3. CASE i # 1
        <5>1. i - 1 \in 1..Len(Tail(q)) /\ (i - 1) + 1 = i
          BY <2>1, <3>1, <4>3
        <5> QED BY <2>1, <4>1, <4>3, <5>1
      <4> QED BY <4>2, <4>3
    <3> QED BY <3>2, <3>3
  <2>6. s = q
    BY <2>4, <2>5, SeqEqual, Zenon
  <2> QED BY <2>6 DEF s, h, r
<1> QED BY <1>2, <1>3, <1>4

LEMMA BatchesStep ==
  ASSUME LoggerInv, BatchesInOrder, [Next]_vars
  PROVE  BatchesInOrder'
<1>1. held \in [Actors -> SUBSET Nat] /\ queue \in Seq(Batches) /\ load \in Loads
  BY Zenon DEF LoggerInv, DataTypes
<1>2. held[Consumer] # {} <=> pc[Consumer] \in {"unlock", "write"}
  BY Zenon DEF LoggerInv, AtHand
<1>3. IF held[Consumer] = {} THEN queue = unwritten ELSE <<held[Consumer]>> \o queue = unwritten
  BY <1>1, ConcatEmptySeq, Zenon DEF BatchesInOrder
<1>4. ASSUME queue' = queue, unwritten' = unwritten, held'[Consumer] = held[Consumer]
      PROVE  BatchesInOrder'
  BY <1>4, Zenon DEF BatchesInOrder
<1>5. \A t \in load.threads : t \in Threads /\ t # Consumer
  BY <1>1, ThreadsAreActors
<1>6. ASSUME NEW t \in Threads, NEW b, HandOver(t, b) \/ held' = [held EXCEPT ![t] = b]
      PROVE  held'[Consumer] = held[Consumer]
  BY <1>1, <1>6, ThreadsAreActors DEF HandOver
<1>7. ASSUME NEW t \in Threads, Call(t) PROVE BatchesInOrder'
  BY <1>4, <1>7, Zenon DEF Call, LogMessage, TakeBuffer, Stop
<1>8. ASSUME NEW t \in Threads,
             PushLog(t) \/ SyncBeginsSwap(t) \/ PushLocks(t) \/ PushUnlocks(t)
      PROVE  BatchesInOrder'
  BY <1>4, <1>8, Zenon DEF PushLog, SyncBeginsSwap, PushLocks, PushUnlocks
<1>9. ASSUME NEW t \in Threads, SyncCopies(t) \/ SyncSwaps(t) \/ LogDrains(t)
      PROVE  BatchesInOrder'
  <2>1. queue' = queue /\ unwritten' = unwritten
    BY <1>9, Zenon DEF SyncCopies, SyncSwaps, LogDrains
  <2>2. \E b : HandOver(t, b) \/ held' = [held EXCEPT ![t] = b]
    BY <1>9, Zenon DEF SyncCopies, SyncSwaps, LogDrains
  <2> QED BY <1>4, <1>6, <2>1, <2>2
<1>10. ASSUME NEW t \in Threads, PushSignals(t) PROVE BatchesInOrder'
  <2>1. /\ held' = [held EXCEPT ![t] = {}] /\ pc[t] = "push"
        /\ queue' = Append(queue, held[t]) /\ unwritten' = Append(unwritten, held[t])
    BY <1>10, Zenon DEF PushSignals
  <2>2. held'[Consumer] = held[Consumer]
    BY <1>6, <2>1
  <2>3. held[t] # {}
    BY <2>1, Zenon DEF LoggerInv, AtHand
  <2>4. held[t] \in Batches
    BY <1>1, <2>3, ThreadsAreActors DEF Batches
  <2>5. CASE held[Consumer] = {}
    <3>1. queue' = unwritten' /\ queue' \in Seq(Batches)
      BY <1>1, <1>3, <2>1, <2>4, <2>5, AppendProperties, Zenon
    <3> QED BY <2>2, <2>5, <3>1, ConcatEmptySeq, Zenon DEF BatchesInOrder
  <2>6. CASE held[Consumer] # {}
    <3>1. held[Consumer] \in Batches
      BY <1>1, <2>6, ThreadsAreActors DEF Batches
    <3>2. <<held[Consumer]>> \o Append(queue, held[t]) = Append(<<held[Consumer]>> \o queue, held[t])
      BY <1>1, <2>4, <3>1, OneAhead
    <3>3. <<held[Consumer]>> \o queue' = unwritten'
      BY <1>3, <2>1, <2>6, <3>2, Zenon
    <3> QED BY <2>2, <2>6, <3>3, Zenon DEF BatchesInOrder
  <2> QED BY <2>5, <2>6
<1>11. CASE LoopTakes
  <2>1. /\ pc[Consumer] = "test" /\ queue # << >> /\ queue' = Tail(queue)
        /\ held' = [held EXCEPT ![Consumer] = Head(queue)] /\ unwritten' = unwritten
    BY <1>11, Zenon DEF LoopTakes
  <2>2. queue = unwritten
    BY <1>2, <1>3, <2>1
  <2>3. Head(queue) \in Batches
    BY <1>1, <2>1
  <2>4. held'[Consumer] = Head(queue) /\ Head(queue) # {}
    BY <1>1, <2>1, <2>3, ThreadsAreActors DEF Batches
  <2>5. <<Head(queue)>> \o Tail(queue) = queue
    BY <1>1, <2>1, <2>3, OneAhead
  <2> QED BY <2>1, <2>2, <2>4, <2>5, Zenon DEF BatchesInOrder
<1>12. CASE LoopWrites
  <2>1. /\ pc[Consumer] = "write" /\ queue' = queue
        /\ held' = [held EXCEPT ![Consumer] = {}] /\ unwritten' = Tail(unwritten)
    BY <1>12, Zenon DEF LoopWrites
  <2>2. held[Consumer] # {}
    BY <1>2, <2>1
  <2>3. held[Consumer] \in Batches
    BY <1>1, <2>2, ThreadsAreActors DEF Batches
  <2>4. Tail(unwritten) = queue
    BY <1>1, <1>3, <2>2, <2>3, OneAhead, Zenon
  <2>5. held'[Consumer] = {}
    BY <1>1, <2>1, ThreadsAreActors
  <2> QED BY <1>1, <2>1, <2>4, <2>5, ConcatEmptySeq, Zenon DEF BatchesInOrder
<1>13. CASE \/ LoopStarts \/ LoopTop \/ ConsumerNote \/ PushLog(Consumer)
            \/ LoopTest \/ LoopWaits \/ LoopRelocks \/ LoopUnlocks \/ LoopEnds
  BY <1>4, <1>13, Zenon DEF LoopStarts, LoopTop, ConsumerNote, PushLog, LoopTest,
     LoopWaits, LoopRelocks, LoopUnlocks, LoopEnds
<1>14. CASE ConstructorReturns \/ Tick \/ UNCHANGED vars
  BY <1>4, <1>14, Zenon DEF ConstructorReturns, Tick
<1>15. CASE Restart
  <2>1. queue' = << >> /\ unwritten' = << >> /\ held' = NoBatches
    BY <1>15, Zenon DEF Restart
  <2>2. held'[Consumer] = {}
    BY <2>1, ThreadsAreActors DEF NoBatches
  <2>3. << >> \o << >> = << >>
    BY EmptySeq, ConcatEmptySeq, Zenon
  <2> QED BY <2>1, <2>2, <2>3, Zenon DEF BatchesInOrder
<1> QED
  BY <1>5, <1>7, <1>8, <1>9, <1>10, <1>11, <1>12, <1>13, <1>14, <1>15, Zenon
     DEF Next, Running, InCall, Loop

(* The batch in the Consumer's hand and those in the queue are the ones    *)
(* that push_log_buffer accepted and no file has yet, in that order.       *)
THEOREM BatchesKeepOrder == Spec => []BatchesInOrder
<1>1. Init => BatchesInOrder
  <2>1. << >> \o << >> = << >>
    BY EmptySeq, ConcatEmptySeq, Zenon
  <2>2. NoBatches[Consumer] = {}
    BY ThreadsAreActors DEF NoBatches
  <2> QED BY <2>1, <2>2, Zenon DEF Init, BatchesInOrder
<1>2. LoggerInv /\ BatchesInOrder /\ [Next]_vars => BatchesInOrder'
  BY BatchesStep, Zenon
<1> QED BY <1>1, <1>2, LoggerInvariant, PTL DEF Spec

-----------------------------------------------------------------------------
(* AsyncLogger::m_mutex.                                                   *)

(* Where an actor holds the mutex: between lock() and the first unlock.    *)
Holding(a) ==
  IF a = Consumer THEN pc[a] \in {"note", "pushing", "test", "wait", "unlock"}
                  ELSE pc[a] \in {"push", "unlock"}

(* As long as no unlock has released the mutex of another actor, whoever   *)
(* is inside owns it.                                                      *)
MutexInv == ~stolen => \A a \in Actors : Holding(a) => mutex = a

LEMMA MutexStep ==
  ASSUME LoggerInv, MutexInv, [Next]_vars
  PROVE  MutexInv'
<1>1. pc \in [Actors -> ThreadPcs \cup ConsumerPcs] /\ load \in Loads
  BY Zenon DEF LoggerInv, PcTypes, DataTypes
<1>2. Consumer \in Actors /\ \A t \in Threads : t \in Actors /\ t # Consumer
  BY ThreadsAreActors
(* An actor that moves without the mutex: it held it before or does not    *)
(* hold it after.                                                          *)
<1>3. ASSUME NEW a \in Actors, NEW l, pc' = [pc EXCEPT ![a] = l],
             mutex' = mutex, stolen' = stolen, Holding(a)' => Holding(a)
      PROVE  MutexInv'
  <2>1. \A x \in Actors : x # a => pc'[x] = pc[x]
    BY <1>1, <1>3
  <2>2. \A x \in Actors : Holding(x)' => Holding(x)
    BY <1>3, <2>1 DEF Holding
  <2> QED BY <1>3, <2>2 DEF MutexInv
<1>4. ASSUME NEW a \in Actors, NEW l, pc' = [pc EXCEPT ![a] = l], Lock(a), stolen' = stolen
      PROVE  MutexInv'
  <2> SUFFICES ASSUME ~stolen, NEW x \in Actors, Holding(x)' PROVE mutex' = x
    BY <1>4 DEF MutexInv
  <2>1. CASE x = a
    BY <1>4, <2>1 DEF Lock
  <2>2. CASE x # a
    <3>1. pc'[x] = pc[x]
      BY <1>1, <1>4, <2>2
    <3>2. mutex = x
      BY <3>1 DEF Holding, MutexInv
    <3> QED BY <1>4, <3>2, ActorsAssumption DEF Lock
  <2> QED BY <2>1, <2>2
<1>5. ASSUME NEW a \in Actors, NEW l, pc' = [pc EXCEPT ![a] = l], Unlock(a), ~Holding(a)'
      PROVE  MutexInv'
  <2> SUFFICES ASSUME ~stolen', NEW x \in Actors, Holding(x)' PROVE mutex' = x
    BY DEF MutexInv
  <2>1. ~stolen /\ mutex \in {a, NoThread}
    BY <1>5 DEF Unlock
  <2>2. x # a
    BY <1>5
  <2>3. pc'[x] = pc[x]
    BY <1>1, <1>5, <2>2
  <2>4. mutex = x
    BY <2>1, <2>3 DEF Holding, MutexInv
  <2> QED BY <2>1, <2>2, <2>4, ActorsAssumption
<1>6. \A t \in load.threads : t \in Threads
  BY <1>1, ThreadsAreActors
<1>7. ASSUME NEW t \in Threads, Call(t) PROVE MutexInv'
  <2>1. CASE Stop(t)
    <3>1. pc' = pc /\ mutex' = mutex /\ stolen' = stolen
      BY <2>1, Zenon DEF Stop
    <3> QED BY <3>1, Zenon DEF MutexInv, Holding
  <2>2. CASE ~Stop(t)
    <3>1. PICK l \in {"pushing", "copying", "draining"} :
            pc' = [pc EXCEPT ![t] = l] /\ mutex' = mutex /\ stolen' = stolen
      BY <1>7, <2>2 DEF Call, LogMessage, TakeBuffer, Go
    <3>2. ~Holding(t)'
      BY <1>1, <1>2, <3>1 DEF Holding
    <3> QED BY <1>2, <1>3, <3>1, <3>2
  <2> QED BY <2>1, <2>2
<1>8. ASSUME NEW t \in Threads, \/ PushLog(t) \/ SyncCopies(t) \/ SyncBeginsSwap(t)
                                \/ SyncSwaps(t) \/ LogDrains(t)
      PROVE  MutexInv'
  <2>1. /\ mutex' = mutex /\ stolen' = stolen
        /\ \E l \in {"idle", "copied", "swapping", "lock"} : pc' = [pc EXCEPT ![t] = l]
    BY <1>2, <1>8 DEF PushLog, SyncCopies, SyncBeginsSwap, SyncSwaps, LogDrains, HandOver, Go
  <2>2. PICK l \in {"idle", "copied", "swapping", "lock"} : pc' = [pc EXCEPT ![t] = l]
    BY <2>1
  <2>3. ~Holding(t)'
    BY <1>1, <1>2, <2>2 DEF Holding
  <2> QED BY <1>2, <1>3, <2>1, <2>2, <2>3
<1>9. ASSUME NEW t \in Threads, PushLocks(t) PROVE MutexInv'
  <2>1. pc' = [pc EXCEPT ![t] = "push"] /\ Lock(t) /\ stolen' = stolen
    BY <1>9, Zenon DEF PushLocks, Go
  <2> QED BY <1>2, <1>4, <2>1
<1>10. ASSUME NEW t \in Threads, PushSignals(t) PROVE MutexInv'
  <2>1. /\ pc[t] = "push" /\ mutex' = mutex /\ stolen' = stolen
        /\ pc' = [pc EXCEPT ![t] = "unlock",
                            ![Consumer] = IF @ = "waiting" THEN "relock" ELSE @]
    BY <1>10, Zenon DEF PushSignals
  <2>2. /\ pc'[t] = "unlock"
        /\ pc'[Consumer] = IF pc[Consumer] = "waiting" THEN "relock" ELSE pc[Consumer]
        /\ \A x \in Actors : x # t /\ x # Consumer => pc'[x] = pc[x]
    BY <1>1, <1>2, <2>1
  <2>3. ASSUME NEW x \in Actors, Holding(x)' PROVE Holding(x)
    <3>1. CASE x = t
      BY <1>2, <2>1, <3>1 DEF Holding
    <3>2. CASE x = Consumer
      BY <2>2, <2>3, <3>2 DEF Holding
    <3>3. CASE x # t /\ x # Consumer
      BY <2>2, <2>3, <3>3 DEF Holding
    <3> QED BY <3>1, <3>2, <3>3
  <2> QED BY <2>1, <2>3 DEF MutexInv
<1>11. ASSUME NEW t \in Threads, PushUnlocks(t) PROVE MutexInv'
  <2>1. /\ Unlock(t)
        /\ \E l \in {"scope end", "idle"} : pc' = [pc EXCEPT ![t] = l]
    BY <1>11 DEF PushUnlocks, Go
  <2>2. PICK l \in {"scope end", "idle"} : pc' = [pc EXCEPT ![t] = l]
    BY <2>1
  <2>3. ~Holding(t)'
    BY <1>1, <1>2, <2>2 DEF Holding
  <2> QED BY <1>2, <1>5, <2>1, <2>2, <2>3
<1>12. CASE LoopStarts \/ PushLog(Consumer) \/ ConsumerNote \/ LoopTest \/ LoopTakes \/ LoopWrites
  <2>1. /\ mutex' = mutex /\ stolen' = stolen
        /\ \/ pc[Consumer] \in {"pushing", "note", "test"}
              /\ \E l \in {"pushing", "test", "wait", "scope end", "unlock"} :
                   pc' = [pc EXCEPT ![Consumer] = l]
           \/ \E l \in {"top", "scope end"} : pc' = [pc EXCEPT ![Consumer] = l]
    BY <1>12 DEF LoopStarts, PushLog, ConsumerNote, LoopTest, LoopTakes, LoopWrites, Go
  <2>2. PICK l : /\ pc' = [pc EXCEPT ![Consumer] = l]
                 /\ pc[Consumer] \in {"pushing", "note", "test"} \/ l \in {"top", "scope end"}
    BY <2>1
  <2>3. pc'[Consumer] = l
    BY <1>1, <1>2, <2>2
  <2>4. Holding(Consumer)' => Holding(Consumer)
    BY <2>2, <2>3 DEF Holding
  <2> QED BY <1>2, <1>3, <2>1, <2>2, <2>4
<1>13. CASE LoopTop
  <2>1. stolen' = stolen
    BY <1>13, Zenon DEF LoopTop
  <2>2. CASE m_stop_flag
    <3>1. mutex' = mutex /\ pc' = [pc EXCEPT ![Consumer] = "done"]
      BY <1>13, <2>2, Zenon DEF LoopTop, Go
    <3>2. ~Holding(Consumer)'
      BY <1>1, <1>2, <3>1 DEF Holding
    <3> QED BY <1>2, <1>3, <2>1, <3>1, <3>2
  <2>3. CASE ~m_stop_flag
    <3>1. Lock(Consumer) /\ pc' = [pc EXCEPT ![Consumer] = "note"]
      BY <1>13, <2>3, Zenon DEF LoopTop, Go
    <3> QED BY <1>2, <1>4, <2>1, <3>1
  <2> QED BY <2>2, <2>3
<1>14. CASE LoopRelocks
  <2>1. Lock(Consumer) /\ pc' = [pc EXCEPT ![Consumer] = "test"] /\ stolen' = stolen
    BY <1>14, Zenon DEF LoopRelocks, Go
  <2> QED BY <1>2, <1>4, <2>1
<1>15. CASE LoopWaits \/ LoopUnlocks \/ LoopEnds
  <2>1. /\ Unlock(Consumer)
        /\ \E l \in {"waiting", "write", "done", "top"} : pc' = [pc EXCEPT ![Consumer] = l]
    BY <1>15 DEF LoopWaits, LoopUnlocks, LoopEnds, Go
  <2>2. PICK l \in {"waiting", "write", "done", "top"} : pc' = [pc EXCEPT ![Consumer] = l]
    BY <2>1
  <2>3. ~Holding(Consumer)'
    BY <1>1, <1>2, <2>2 DEF Holding
  <2> QED BY <1>2, <1>5, <2>1, <2>2, <2>3
<1>16. CASE ConstructorReturns \/ Tick \/ UNCHANGED vars
  <2>1. pc' = pc /\ mutex' = mutex /\ stolen' = stolen
    BY <1>16, Zenon DEF ConstructorReturns, Tick
  <2> QED BY <2>1, Zenon DEF MutexInv, Holding
<1>17. CASE Restart
  <2>1. pc' = Unused
    BY <1>17, Zenon DEF Restart
  <2>2. \A a \in Actors : ~Holding(a)'
    BY <2>1, ThreadsAreActors DEF Unused, Holding
  <2> QED BY <2>2 DEF MutexInv
<1> QED
  BY <1>6, <1>7, <1>8, <1>9, <1>10, <1>11, <1>12, <1>13, <1>14, <1>15, <1>16, <1>17, Zenon
     DEF Next, Running, InCall, Loop

(* At most one element: at most one actor.                                 *)
LEMMA MoreThanOne ==
  ASSUME NEW S, Cardinality(S) > 1, NEW x, S \subseteq {x}
  PROVE  FALSE
<1>1. IsFiniteSet({x}) /\ Cardinality({x}) = 1
  BY FS_Singleton, Zenon
<1>2. Cardinality(S) <= Cardinality({x}) /\ IsFiniteSet(S)
  BY <1>1, FS_Subset, Zenon
<1>3. Cardinality(S) \in Nat
  BY <1>2, FS_CardinalityType, Zenon
<1> QED BY <1>1, <1>2, <1>3

(* Without the second unlock of ~ScopeMutex the queue of batches is never  *)
(* in use by two threads: lock, cond_wait, relock and unlock exclude it.   *)
THEOREM QueueRaceNeedsTheft == Spec => []RaceOnlyAfterTheft
<1>1. Init => MutexInv
  BY ThreadsAreActors DEF Init, MutexInv, Holding, Unused
<1>2. LoggerInv /\ MutexInv /\ [Next]_vars => MutexInv'
  BY MutexStep, Zenon
<1>3. LoggerInv /\ MutexInv => RaceOnlyAfterTheft
  <2> SUFFICES ASSUME LoggerInv, MutexInv, QueueRaced, ~stolen PROVE FALSE
    BY DEF RaceOnlyAfterTheft
  <2> DEFINE S == {a \in Actors : pc[a] \in {"push", "test"}}
  <2>1. \A a \in S : mutex = a
    <3>1. \A t \in Threads : pc[t] \in ThreadPcs
      BY Zenon DEF LoggerInv, PcTypes
    <3>2. pc[Consumer] \in ConsumerPcs
      BY Zenon DEF LoggerInv, PcTypes
    <3>3. \A a \in S : Holding(a)
      BY <3>1, <3>2, ThreadsAreActors DEF Holding, Actors, ThreadPcs, ConsumerPcs
    <3> QED BY <3>3, Zenon DEF MutexInv
  <2>2. S \subseteq {mutex}
    BY <2>1
  <2>3. Cardinality(S) > 1
    BY Zenon DEF QueueRaced
  <2> HIDE DEF S
  <2> QED BY <2>2, <2>3, MoreThanOne, Zenon
<1> QED BY <1>1, <1>2, <1>3, LoggerInvariant, PTL DEF Spec

-----------------------------------------------------------------------------
(* The messages.                                                           *)

(* Message n is in the buffer, with a thread, or with the AsyncLogger.     *)
Safe(n) == n \in m_buffer \/ n \in delivered \/ \E t \in Threads : n \in held[t]

SpinInv == \A a \in Actors : pc[a] = "pushing" => spin = a

(* Only the last message can be on its way into the buffer: the spin lock  *)
(* keeps the next one out until it is there.                               *)
NoLoss ==
  \A n \in 1..logged :
    Safe(n) \/ (n = logged /\ \E t \in Threads : pc[t] = "pushing")

LEMMA LossStep ==
  ASSUME LoggerInv, SpinInv, NoLoss, [Next]_vars
  PROVE  SpinInv' /\ NoLoss'
<1>1. /\ pc \in [Actors -> ThreadPcs \cup ConsumerPcs] /\ load \in Loads
      /\ held \in [Actors -> SUBSET Nat] /\ logged \in Nat
  BY Zenon DEF LoggerInv, PcTypes, DataTypes
<1>2. Consumer \in Actors /\ \A t \in Threads : t \in Actors /\ t # Consumer
  BY ThreadsAreActors
<1>3. \A t \in Threads :
        pc[t] \in {"idle", "pushing", "copying", "draining", "unlock", "scope end"}
          => held[t] = {}
  BY Zenon DEF LoggerInv, AtHand
(* A step that neither begins nor ends a push and loses no message.        *)
<1>4. ASSUME spin' = spin, logged' = logged,
             \A a \in Actors : pc'[a] = "pushing" <=> pc[a] = "pushing",
             \A n : Safe(n) => Safe(n)'
      PROVE  SpinInv' /\ NoLoss'
  <2>1. SpinInv'
    BY <1>4, Zenon DEF SpinInv
  <2>2. \A t \in Threads : pc'[t] = "pushing" <=> pc[t] = "pushing"
    BY <1>2, <1>4
  <2>3. NoLoss'
    BY <1>4, <2>2, Zenon DEF NoLoss
  <2> QED BY <2>1, <2>3
<1>5. ASSUME NEW a \in Actors, NEW l, pc' = [pc EXCEPT ![a] = l], l # "pushing",
             pc[a] # "pushing"
      PROVE  \A x \in Actors : pc'[x] = "pushing" <=> pc[x] = "pushing"
  <2> TAKE x \in Actors
  <2>1. CASE x = a
    BY <1>1, <1>5, <2>1
  <2>2. CASE x # a
    BY <1>1, <1>5, <2>2
  <2> QED BY <2>1, <2>2
(* The messages stay where they are.                                       *)
<1>6. ASSUME m_buffer' = m_buffer, delivered' = delivered,
             \A t \in Threads : held'[t] = held[t]
      PROVE  \A n : Safe(n) => Safe(n)'
  BY <1>6, Zenon DEF Safe
(* A thread gets batch b instead of the one it had.                        *)
<1>7. ASSUME NEW t \in Threads, NEW b, held' = [held EXCEPT ![t] = b]
      PROVE  /\ held'[t] = b /\ \A u \in Threads : u # t => held'[u] = held[u]
             /\ \A n : n \in b => Safe(n)'
             /\ \A n : \A u \in Threads : u # t /\ n \in held[u] => Safe(n)'
  <2>1. /\ held'[t] = b /\ \A u \in Threads : u # t => held'[u] = held[u]
    BY <1>1, <1>2, <1>7
  <2>2. \A n : n \in b => Safe(n)'
    BY <2>1, Zenon DEF Safe
  <2>3. \A n : \A u \in Threads : u # t /\ n \in held[u] => Safe(n)'
    BY <2>1, Zenon DEF Safe
  <2> QED BY <2>1, <2>2, <2>3
<1>7a. \A n : \A t \in Threads : Safe(n) =>
         \/ n \in m_buffer \/ n \in delivered \/ n \in held[t]
         \/ \E u \in Threads : u # t /\ n \in held[u]
  BY Zenon DEF Safe
<1>8. \A t \in load.threads : t \in Threads
  BY <1>1, ThreadsAreActors
<1>9. ASSUME NEW t \in Threads, NEW level, LogMessage(t, level) PROVE SpinInv' /\ NoLoss'
  <2>1. /\ spin = NoThread /\ spin' = t /\ logged' = logged + 1
        /\ pc' = [pc EXCEPT ![t] = "pushing"]
        /\ m_buffer' = m_buffer /\ delivered' = delivered /\ held' = held
    BY <1>9, Zenon DEF LogMessage, Go
  <2>2. \A a \in Actors : pc[a] # "pushing"
    BY <2>1, ActorsAssumption, Zenon DEF SpinInv
  <2>3. pc'[t] = "pushing" /\ \A a \in Actors : a # t => pc'[a] = pc[a]
    BY <1>1, <1>2, <2>1
  <2>4. SpinInv'
    BY <2>1, <2>2, <2>3, Zenon DEF SpinInv
  <2>5. \A n : Safe(n) => Safe(n)'
    BY <1>6, <2>1, Zenon
  <2>6. ASSUME NEW n \in 1..(logged + 1), n # logged + 1 PROVE Safe(n)'
    <3>1. n \in 1..logged
      BY <1>1, <2>6
    <3>2. Safe(n)
      BY <1>2, <2>2, <3>1, Zenon DEF NoLoss
    <3> QED BY <2>5, <3>2
  <2>7. NoLoss'
    BY <2>1, <2>3, <2>6, Zenon DEF NoLoss
  <2> QED BY <2>4, <2>7
<1>10. ASSUME NEW a \in Actors, PushLog(a) PROVE SpinInv'
  <2>1. /\ pc[a] = "pushing" /\ spin' = NoThread
        /\ \E l \in {"test", "idle"} : pc' = [pc EXCEPT ![a] = l]
    BY <1>10 DEF PushLog, Go
  <2>2. pc'[a] # "pushing" /\ \A x \in Actors : x # a => pc'[x] = pc[x]
    BY <1>1, <2>1
  <2>3. \A x \in Actors : pc[x] = "pushing" => x = a
    BY <2>1, Zenon DEF SpinInv
  <2> QED BY <2>2, <2>3, Zenon DEF SpinInv
<1>11. ASSUME NEW t \in Threads, PushLog(t) PROVE NoLoss'
  <2>1. /\ m_buffer' = m_buffer \cup {logged} /\ delivered' = delivered /\ held' = held
        /\ logged' = logged
    BY <1>2, <1>11, Zenon DEF PushLog
  <2>2. \A n : Safe(n) \/ n = logged => Safe(n)'
    <3>1. \A n : n \in m_buffer' <=> n \in m_buffer \/ n = logged
      BY <2>1
    <3> QED BY <2>1, <3>1, Zenon DEF Safe
  <2> QED BY <2>1, <2>2, Zenon DEF NoLoss
<1>12. CASE PushLog(Consumer)
  <2>1. /\ m_buffer' = m_buffer \cup {0} /\ delivered' = delivered /\ held' = held
        /\ logged' = logged /\ pc' = [pc EXCEPT ![Consumer] = "test"]
    BY <1>12, Zenon DEF PushLog, Go
  <2>2. \A n : Safe(n) => Safe(n)'
    <3>1. \A n : n \in m_buffer => n \in m_buffer'
      BY <2>1
    <3> QED BY <2>1, <3>1, Zenon DEF Safe
  <2>3. \A t \in Threads : pc'[t] = pc[t]
    BY <1>1, <1>2, <2>1
  <2>4. NoLoss'
    BY <2>1, <2>2, <2>3, Zenon DEF NoLoss
  <2> QED BY <1>2, <1>10, <1>12, <2>4
<1>13. CASE ConsumerNote
  <2>1. /\ pc[Consumer] = "note" /\ m_buffer' = m_buffer /\ delivered' = delivered /\ held' = held
        /\ logged' = logged
    BY <1>13, Zenon DEF ConsumerNote
  <2>2. CASE ~(m_set_level <= Info)
    <3>1. spin' = spin /\ pc' = [pc EXCEPT ![Consumer] = "test"]
      BY <1>13, <2>2, Zenon DEF ConsumerNote, Go
    <3>2. \A x \in Actors : pc'[x] = "pushing" <=> pc[x] = "pushing"
      BY <1>2, <1>5, <2>1, <3>1
    <3>3. \A n : Safe(n) => Safe(n)'
      BY <1>6, <2>1, Zenon
    <3> QED BY <1>4, <2>1, <3>1, <3>2, <3>3
  <2>3. CASE m_set_level <= Info
    <3>1. spin = NoThread /\ spin' = Consumer /\ pc' = [pc EXCEPT ![Consumer] = "pushing"]
      BY <1>13, <2>3, Zenon DEF ConsumerNote, Go
    <3>2. \A x \in Actors : x # Consumer => pc'[x] = pc[x] /\ pc[x] # "pushing"
      BY <1>1, <3>1, ActorsAssumption DEF SpinInv
    <3>3. SpinInv'
      BY <3>1, <3>2, Zenon DEF SpinInv
    <3>4. \A n : Safe(n) => Safe(n)'
      BY <1>6, <2>1, Zenon
    <3>5. \A t \in Threads : pc'[t] = pc[t]
      BY <1>2, <3>2, Zenon
    <3>6. NoLoss'
      BY <2>1, <3>4, <3>5, Zenon DEF NoLoss
    <3> QED BY <3>3, <3>6
  <2> QED BY <2>2, <2>3
<1>14. ASSUME NEW t \in Threads, SyncCopies(t) PROVE SpinInv' /\ NoLoss'
  <2>1. /\ pc[t] = "copying" /\ pc' = [pc EXCEPT ![t] = "copied"]
        /\ held' = [held EXCEPT ![t] = m_buffer]
        /\ m_buffer' = m_buffer /\ delivered' = delivered /\ spin' = spin /\ logged' = logged
    BY <1>14, Zenon DEF SyncCopies, Go
  <2>2. \A x \in Actors : pc'[x] = "pushing" <=> pc[x] = "pushing"
    BY <1>2, <1>5, <2>1
  <2>3. held[t] = {}
    BY <1>3, <2>1
  <2>4. \A n : n \in m_buffer \/ n \in delivered => Safe(n)'
    BY <2>1, Zenon DEF Safe
  <2>5. \A n : \A u \in Threads : u # t /\ n \in held[u] => Safe(n)'
    BY <1>7, <2>1
  <2>6. \A n : Safe(n) => Safe(n)'
    <3>1. \A n : n \notin held[t]
      BY <2>3
    <3> QED BY <1>7a, <2>4, <2>5, <3>1, Zenon
  <2> QED BY <1>4, <2>1, <2>2, <2>6
<1>15. ASSUME NEW t \in Threads, SyncSwaps(t) \/ LogDrains(t) PROVE SpinInv' /\ NoLoss'
  <2>1. /\ pc[t] \in {"swapping", "draining"} /\ held' = [held EXCEPT ![t] = m_buffer]
        /\ delivered' = delivered /\ spin' = spin /\ logged' = logged
        /\ \E l \in {"idle", "lock"} : pc' = [pc EXCEPT ![t] = l]
    BY <1>15 DEF SyncSwaps, LogDrains, HandOver, Go
  <2>2. \A x \in Actors : pc'[x] = "pushing" <=> pc[x] = "pushing"
    BY <1>2, <1>5, <2>1
  <2>3. held[t] = m_buffer' \/ held[t] = {}
    BY <1>3, <1>15 DEF SyncSwaps, LogDrains
  <2>4. \A n : n \in m_buffer => Safe(n)'
    BY <1>7, <2>1
  <2>5. \A n : n \in m_buffer' \/ n \in delivered => Safe(n)'
    BY <2>1, Zenon DEF Safe
  <2>6. \A n : \A u \in Threads : u # t /\ n \in held[u] => Safe(n)'
    BY <1>7, <2>1
  <2>7. \A n : Safe(n) => Safe(n)'
    <3>1. \A n : n \in held[t] => n \in m_buffer'
      BY <2>3
    <3> QED BY <1>7a, <2>4, <2>5, <2>6, <3>1, Zenon
  <2> QED BY <1>4, <2>1, <2>2, <2>7
<1>16. ASSUME NEW t \in Threads, PushSignals(t) PROVE SpinInv' /\ NoLoss'
  <2>1. /\ pc[t] = "push" /\ held' = [held EXCEPT ![t] = {}]
        /\ m_buffer' = m_buffer /\ delivered' = delivered \cup held[t]
        /\ spin' = spin /\ logged' = logged
        /\ pc' = [pc EXCEPT ![t] = "unlock",
                            ![Consumer] = IF @ = "waiting" THEN "relock" ELSE @]
    BY <1>16, Zenon DEF PushSignals
  <2>2. \A x \in Actors : pc'[x] = "pushing" <=> pc[x] = "pushing"
    BY <1>1, <1>2, <2>1
  <2>3. \A n : n \in m_buffer \/ n \in delivered \/ n \in held[t]
               => n \in m_buffer' \/ n \in delivered'
    BY <2>1
  <2>4. \A n : n \in m_buffer' \/ n \in delivered' => Safe(n)'
    BY Zenon DEF Safe
  <2>5. \A n : \A u \in Threads : u # t /\ n \in held[u] => Safe(n)'
    BY <1>7, <2>1
  <2>6. \A n : Safe(n) => Safe(n)'
    BY <1>7a, <2>3, <2>4, <2>5, Zenon
  <2> QED BY <1>4, <2>1, <2>2, <2>6
<1>17. ASSUME NEW t \in Threads, \/ \E first \in {"copying", "draining"} : TakeBuffer(t, first)
                                 \/ SyncBeginsSwap(t) \/ PushLocks(t) \/ PushUnlocks(t)
       PROVE  SpinInv' /\ NoLoss'
  <2>1. /\ m_buffer' = m_buffer /\ delivered' = delivered /\ held' = held
        /\ spin' = spin /\ logged' = logged
    BY <1>17, Zenon DEF TakeBuffer, SyncBeginsSwap, PushLocks, PushUnlocks
  <2>2. /\ pc[t] \in {"idle", "copied", "lock", "unlock", "scope end"}
        /\ \E l \in {"copying", "draining", "swapping", "push", "scope end", "idle"} :
             pc' = [pc EXCEPT ![t] = l]
    BY <1>17 DEF TakeBuffer, SyncBeginsSwap, PushLocks, PushUnlocks, Go
  <2>3. \A x \in Actors : pc'[x] = "pushing" <=> pc[x] = "pushing"
    BY <1>2, <1>5, <2>2
  <2>4. \A n : Safe(n) => Safe(n)'
    BY <1>6, <2>1, Zenon
  <2> QED BY <1>4, <2>1, <2>3, <2>4
<1>18. CASE LoopTakes \/ LoopWrites
  <2>1. /\ m_buffer' = m_buffer /\ delivered' = delivered
        /\ spin' = spin /\ logged' = logged
    BY <1>18, Zenon DEF LoopTakes, LoopWrites
  <2>2. \E b : held' = [held EXCEPT ![Consumer] = b]
    BY <1>18, Zenon DEF LoopTakes, LoopWrites
  <2>3. \A t \in Threads : held'[t] = held[t]
    BY <1>1, <1>2, <2>2
  <2>4. /\ pc[Consumer] \in {"test", "write"}
        /\ \E l \in {"unlock", "scope end"} : pc' = [pc EXCEPT ![Consumer] = l]
    BY <1>18, Zenon DEF LoopTakes, LoopWrites, Go
  <2>5. \A x \in Actors : pc'[x] = "pushing" <=> pc[x] = "pushing"
    BY <1>2, <1>5, <2>4
  <2>6. \A n : Safe(n) => Safe(n)'
    BY <1>6, <2>1, <2>3, Zenon
  <2> QED BY <1>4, <2>1, <2>5, <2>6
<1>19. CASE LoopStarts \/ LoopTop \/ LoopTest \/ LoopWaits \/ LoopRelocks \/ LoopUnlocks
              \/ LoopEnds
  <2>1. /\ m_buffer' = m_buffer /\ delivered' = delivered /\ held' = held
        /\ spin' = spin /\ logged' = logged
    BY <1>19, Zenon DEF LoopStarts, LoopTop, LoopTest, LoopWaits, LoopRelocks, LoopUnlocks,
       LoopEnds
  <2>2. /\ pc[Consumer] # "pushing"
        /\ \E l \in {"top", "done", "note", "wait", "scope end", "waiting", "test", "write"} :
             pc' = [pc EXCEPT ![Consumer] = l]
    BY <1>19 DEF LoopStarts, LoopTop, LoopTest, LoopWaits, LoopRelocks, LoopUnlocks, LoopEnds, Go
  <2>3. \A x \in Actors : pc'[x] = "pushing" <=> pc[x] = "pushing"
    BY <1>2, <1>5, <2>2
  <2>4. \A n : Safe(n) => Safe(n)'
    BY <1>6, <2>1, Zenon
  <2> QED BY <1>4, <2>1, <2>3, <2>4
<1>20. ASSUME \/ ConstructorReturns \/ Tick \/ UNCHANGED vars
              \/ \E t \in Threads : Stop(t)
       PROVE  SpinInv' /\ NoLoss'
  <2>1. /\ m_buffer' = m_buffer /\ delivered' = delivered /\ held' = held
        /\ spin' = spin /\ logged' = logged /\ pc' = pc
    BY <1>20, Zenon DEF ConstructorReturns, Tick, Stop
  <2>2. \A n : Safe(n) => Safe(n)'
    BY <1>6, <2>1, Zenon
  <2> QED BY <1>4, <2>1, <2>2
<1>21. CASE Restart
  <2>1. pc' = Unused /\ logged' = 0
    BY <1>21, Zenon DEF Restart
  <2>2. \A a \in Actors : pc'[a] # "pushing"
    BY <2>1, ThreadsAreActors DEF Unused
  <2>3. \A n : n \notin 1..logged'
    BY <2>1
  <2> QED BY <2>2, <2>3, Zenon DEF SpinInv, NoLoss
<1> QED
  BY <1>2, <1>8, <1>9, <1>10, <1>11, <1>12, <1>13, <1>14, <1>15, <1>16, <1>17, <1>18, <1>19,
     <1>20, <1>21, Zenon
     DEF Next, Running, Call, InCall, Loop

(* No message is lost on the way from push_log to the AsyncLogger, though  *)
(* sync_loop copies and swaps the buffer under another lock.               *)
THEOREM MessagesKept == Spec => []NoMessageLost
<1>1. Init => SpinInv /\ NoLoss
  <2> SUFFICES ASSUME Init PROVE SpinInv /\ NoLoss
    OBVIOUS
  <2>1. \A a \in Actors : pc[a] # "pushing"
    BY ThreadsAreActors DEF Init, Unused
  <2>2. \A n : n \notin 1..logged
    BY DEF Init
  <2> QED BY <2>1, <2>2, Zenon DEF SpinInv, NoLoss
<1>2. LoggerInv /\ (SpinInv /\ NoLoss) /\ [Next]_vars => (SpinInv /\ NoLoss)'
  BY LossStep, Zenon
<1>3. NoLoss => NoMessageLost
  <2> SUFFICES ASSUME NoLoss, NEW n \in 1..logged,
                      n # logged \/ \A t \in Threads : pc[t] # "pushing"
               PROVE  n \in m_buffer \cup delivered \cup UNION {held[t] : t \in Threads}
    BY DEF NoMessageLost
  <2>1. Safe(n)
    BY Zenon DEF NoLoss
  <2> QED BY <2>1 DEF Safe
<1> QED BY <1>1, <1>2, <1>3, LoggerInvariant, PTL DEF Spec

-----------------------------------------------------------------------------
(* The files.                                                              *)

(* The files of today that m_number has not left behind, and those of the  *)
(* days to come, have not been written to while they were too large.       *)
PastInv ==
  /\ m_date <= clock
  /\ \A f \in Files :
       /\ past[f] <= 1
       /\ f[1] = m_date /\ f[2] >= m_number => past[f] = 0
       /\ f[1] > m_date => past[f] = 0

LEMMA PastStep ==
  ASSUME LoggerInv, PastInv, [Next]_vars
  PROVE  PastInv'
<1>1. m_date \in Nat /\ m_number \in Nat /\ clock \in Nat /\ past \in [Files -> Nat]
  BY Zenon DEF LoggerInv, DataTypes
<1>2. \A f \in Files : f[1] \in Int /\ f[2] \in Int /\ f = <<f[1], f[2]>>
  BY DEF Files
<1>3. ASSUME m_date' = m_date, m_number' = m_number, past' = past, clock' \in {clock, clock + 1}
      PROVE  PastInv'
  <2>1. m_date' <= clock'
    BY <1>1, <1>3 DEF PastInv
  <2> QED BY <1>3, <2>1, Zenon DEF PastInv
<1>4. CASE LoopWrites
  <2>1. PICK number : number = IF m_date = clock THEN m_number ELSE 0
    OBVIOUS
  <2>2. PICK n \in {0, 1} : n = IF handler' \in large THEN 1 ELSE 0
    OBVIOUS
  <2>3. PICK file : file = handler'
    OBVIOUS
  <2>4. /\ m_date' = clock /\ clock' = clock
        /\ past' = [past EXCEPT ![file] = @ + n]
    BY <1>4, <2>2, <2>3, Zenon DEF LoopWrites
  <2>5. \/ /\ n = 0 /\ m_number' = number
        \/ /\ file = <<clock, number>> /\ m_number' = number + 1
    <3>1. PICK open : ChooseFile(number, open)
      BY <1>4, <2>1, Zenon DEF LoopWrites
    <3>2. CASE open \in large
      BY <2>3, <3>1, <3>2, Zenon DEF ChooseFile
    <3>3. CASE open \notin large
      <4>1. handler' = open /\ m_number' = number
        BY <3>1, <3>3, Zenon DEF ChooseFile
      <4> QED BY <2>2, <3>3, <4>1
    <3> QED BY <3>2, <3>3
  (* The number of today has not been reached by any file past its limit.  *)
  <2>6. \A f \in Files : f[1] = clock /\ f[2] >= number => past[f] = 0
    <3>1. CASE m_date = clock
      BY <2>1, <3>1 DEF PastInv
    <3>2. CASE m_date # clock
      <4>1. clock > m_date
        BY <1>1, <3>2 DEF PastInv
      <4> QED BY <4>1 DEF PastInv
    <3> QED BY <3>1, <3>2
  <2>7. \A f \in Files : past[f] \in Nat /\ past[f] <= 1 /\ (f[1] > clock => past[f] = 0)
    BY <1>1, <1>2 DEF PastInv
  <2>8. number \in Nat
    BY <1>1, <2>1
  <2>9. ASSUME NEW f \in Files
        PROVE  /\ past'[f] <= 1
               /\ f[1] = clock /\ f[2] >= m_number' => past'[f] = 0
               /\ f[1] > clock => past'[f] = 0
    <3>1. CASE n = 0 /\ m_number' = number
      <4>1. past'[f] = past[f]
        BY <1>1, <2>4, <2>7, <3>1
      <4> QED BY <2>6, <2>7, <3>1, <4>1
    <3>2. CASE file = <<clock, number>> /\ m_number' = number + 1
      <4>1. CASE f = file
        <5>1. f[1] = clock /\ f[2] = number
          BY <3>2, <4>1
        <5>2. past[f] = 0
          BY <2>6, <2>8, <5>1
        <5>3. past'[f] = n
          BY <1>1, <2>4, <4>1, <5>2
        <5>4. past'[f] <= 1
          BY <5>3
        <5> QED BY <1>1, <2>8, <3>2, <5>1, <5>4
      <4>2. CASE f # file
        <5>1. past'[f] = past[f]
          BY <1>1, <2>4, <4>2
        <5>2. f[2] >= number + 1 => f[2] >= number
          BY <1>2, <2>8
        <5> QED BY <2>6, <2>7, <3>2, <5>1, <5>2
      <4> QED BY <4>1, <4>2
    <3> QED BY <2>5, <3>1, <3>2
  <2>10. m_date' <= clock'
    BY <1>1, <2>4
  <2> QED BY <2>4, <2>9, <2>10, Zenon DEF PastInv
<1>5. CASE Restart
  <2>1. m_date' = 0 /\ clock' = clock /\ past' = NonePast
    BY <1>5, Zenon DEF Restart
  <2>2. \A f \in Files : past'[f] = 0
    BY <2>1 DEF NonePast
  <2>3. m_date' <= clock'
    BY <1>1, <2>1
  <2>4. 0 <= 1
    OBVIOUS
  <2> QED BY <2>2, <2>3, <2>4, Zenon DEF PastInv
<1>6. CASE Tick
  <2>1. m_date' = m_date /\ m_number' = m_number /\ past' = past /\ clock' = clock + 1
    BY <1>6, Zenon DEF Tick
  <2> QED BY <1>3, <2>1
<1>7. CASE \/ ConstructorReturns \/ UNCHANGED vars
           \/ \E t \in load.threads : Call(t) \/ InCall(t)
           \/ LoopStarts \/ LoopTop \/ ConsumerNote \/ PushLog(Consumer)
           \/ LoopTest \/ LoopWaits \/ LoopRelocks \/ LoopTakes \/ LoopUnlocks \/ LoopEnds
  <2>1. m_date' = m_date /\ m_number' = m_number /\ past' = past /\ clock' = clock
    <3>1. CASE \E t \in load.threads : Call(t)
      BY <3>1, Zenon DEF Call, LogMessage, TakeBuffer, Stop
    <3>2. CASE \E t \in load.threads : InCall(t)
      BY <3>2, Zenon DEF InCall, PushLog, SyncCopies, SyncBeginsSwap, SyncSwaps, LogDrains,
         PushLocks, PushSignals, PushUnlocks
    <3>3. CASE \/ ConstructorReturns \/ UNCHANGED vars
               \/ LoopStarts \/ LoopTop \/ ConsumerNote \/ PushLog(Consumer)
               \/ LoopTest \/ LoopWaits \/ LoopRelocks \/ LoopTakes \/ LoopUnlocks \/ LoopEnds
      BY <3>3, Zenon DEF ConstructorReturns, LoopStarts, LoopTop, ConsumerNote, PushLog,
         LoopTest, LoopWaits, LoopRelocks, LoopTakes, LoopUnlocks, LoopEnds
    <3> QED BY <1>7, <3>1, <3>2, <3>3, Zenon
  <2> QED BY <1>3, <2>1
<1> QED BY <1>4, <1>5, <1>6, <1>7, Zenon DEF Next, Running, Loop

(* In one run of the process no file receives two batches while it is too  *)
(* large, over days, roll-overs and files that earlier runs have left.     *)
THEOREM OneBatchPast == Spec => []OneBatchPastLimit
<1>1. Init => PastInv
  BY DEF Init, PastInv, NonePast
<1>2. LoggerInv /\ PastInv /\ [Next]_vars => PastInv'
  BY PastStep, Zenon
<1>3. PastInv => OneBatchPastLimit
  BY Zenon DEF PastInv, OneBatchPastLimit
<1> QED BY <1>1, <1>2, <1>3, LoggerInvariant, PTL DEF Spec

(* Every write is to a file whose batches are counted.                     *)
CountInv ==
  /\ clock >= 1 /\ clock <= load.days
  /\ accepted \in Nat /\ accepted <= load.batches
  /\ \A t \in Threads : pc[t] = "push" => accepted < load.batches
  /\ m_number + Len(unwritten) <= accepted
  /\ handler \in Files \cup {NoFile}

LEMMA AtMostOne ==
  ASSUME ~QueueRaced, NEW a \in Actors, NEW b \in Actors, pc[a] = "push", pc[b] = "push"
  PROVE  a = b
<1> SUFFICES ASSUME a # b PROVE FALSE
  OBVIOUS
<1> DEFINE S == {x \in Actors : pc[x] \in {"push", "test"}}
<1>1. IsFiniteSet(S) /\ Cardinality(S) \in Nat
  BY ActorsAssumption, FS_Subset, FS_CardinalityType
<1>2. IsFiniteSet({b}) /\ Cardinality({b}) = 1
  BY FS_Singleton, Zenon
<1>3. Cardinality({b} \cup {a}) = 2
  BY <1>2, FS_AddElement
<1>4. {b} \cup {a} \subseteq S
  OBVIOUS
<1>5. Cardinality({b} \cup {a}) <= Cardinality(S)
  <2> HIDE DEF S
  <2> QED BY <1>1, <1>4, FS_Subset, Zenon
<1>6. ~(Cardinality(S) > 1)
  BY Zenon DEF QueueRaced
<1> HIDE DEF S
<1> QED BY <1>1, <1>3, <1>5, <1>6

LEMMA CountStep ==
  ASSUME LoggerInv, BatchesInOrder, CountInv, [Next]_vars
  PROVE  CountInv'
<1>1. /\ m_number \in Nat /\ clock \in Nat /\ load \in Loads
      /\ held \in [Actors -> SUBSET Nat] /\ queue \in Seq(Batches)
      /\ pc \in [Actors -> ThreadPcs \cup ConsumerPcs]
  BY Zenon DEF LoggerInv, DataTypes, PcTypes
<1>2. Consumer \in Actors /\ \A t \in Threads : t \in Actors /\ t # Consumer
  BY ThreadsAreActors
<1>3. load.batches \in Nat /\ load.days \in Nat /\ load.days # 0
  BY <1>1, LoadsAssumption
<1>4. /\ clock >= 1 /\ clock <= load.days
      /\ accepted \in Nat /\ accepted <= load.batches
      /\ \A t \in Threads : pc[t] = "push" => accepted < load.batches
      /\ m_number + Len(unwritten) <= accepted
      /\ handler \in Files \cup {NoFile}
  BY Zenon DEF CountInv
<1>5. /\ unwritten \in Seq(Batches)
      /\ held[Consumer] # {} => unwritten # << >>
  <2>1. CASE held[Consumer] = {}
    <3>1. queue = unwritten
      BY <1>1, <2>1, ConcatEmptySeq, Zenon DEF BatchesInOrder
    <3> QED BY <1>1, <2>1, <3>1
  <2>2. CASE held[Consumer] # {}
    <3>1. <<held[Consumer]>> \in Seq(Batches) /\ <<held[Consumer]>> # << >>
      BY <1>1, <1>2, <2>2 DEF Batches
    <3>2. unwritten = <<held[Consumer]>> \o queue
      BY <2>2, Zenon DEF BatchesInOrder
    <3>3. unwritten \in Seq(Batches)
      BY <1>1, <3>1, <3>2, ConcatProperties, Zenon
    <3>4. unwritten # << >>
      <4> DEFINE s == <<held[Consumer]>>
      <4>1. s \in Seq(Batches) /\ queue \in Seq(Batches) /\ s # << >>
        BY <1>1, <3>1
      <4> HIDE DEF s
      <4>2. s \o queue = << >> <=> s = << >> /\ queue = << >>
        BY <4>1, ConcatEqualIffEmpty
      <4>3. s \o queue # << >>
        BY <4>1, <4>2
      <4> QED BY <3>2, <4>3 DEF s
    <3> QED BY <3>3, <3>4
  <2> QED BY <2>1, <2>2
<1>6. ASSUME /\ m_number' = m_number /\ unwritten' = unwritten /\ handler' = handler
             /\ accepted' = accepted /\ load' = load /\ clock' \in {clock, clock + 1}
             /\ clock' = clock \/ clock < load.days
             /\ \A t \in Threads : pc'[t] = "push" => pc[t] = "push" \/ accepted < load.batches
      PROVE  CountInv'
  <2>1. clock' >= 1 /\ clock' <= load'.days
    BY <1>1, <1>3, <1>4, <1>6
  <2> QED BY <1>4, <1>6, <2>1, Zenon DEF CountInv
<1>7. \A t \in load.threads : t \in Threads
  BY <1>1, ThreadsAreActors
<1>8. ASSUME NEW t \in Threads, NEW l, pc' = [pc EXCEPT ![t] = l],
             l # "push" \/ accepted < load.batches
      PROVE  \A u \in Threads : pc'[u] = "push" => pc[u] = "push" \/ accepted < load.batches
  BY <1>1, <1>2, <1>8
<1>9. ASSUME NEW t \in Threads,
             \/ Call(t) \/ PushLog(t) \/ SyncCopies(t) \/ SyncBeginsSwap(t) \/ SyncSwaps(t)
             \/ LogDrains(t) \/ PushLocks(t) \/ PushUnlocks(t)
      PROVE  CountInv'
  <2>1. /\ m_number' = m_number /\ unwritten' = unwritten /\ handler' = handler
        /\ accepted' = accepted /\ load' = load /\ clock' = clock
    <3>1. CASE Call(t)
      BY <3>1, Zenon DEF Call, LogMessage, TakeBuffer, Stop
    <3>2. CASE ~Call(t)
      BY <1>9, <3>2, Zenon DEF PushLog, SyncCopies, SyncBeginsSwap, SyncSwaps, LogDrains,
         PushLocks, PushUnlocks
    <3> QED BY <3>1, <3>2
  <2>2. pc' = pc \/ \E l : /\ pc' = [pc EXCEPT ![t] = l]
                           /\ l # "push" \/ accepted < load.batches
    <3>1. CASE Call(t)
      BY <3>1 DEF Call, LogMessage, TakeBuffer, Stop, Go
    <3>2. CASE ~Call(t)
      <4>1. \/ \E l \in {"idle", "copied", "swapping", "lock", "scope end"} :
                 pc' = [pc EXCEPT ![t] = l]
            \/ pc' = [pc EXCEPT ![t] = "push"] /\ accepted < load.batches
        BY <1>2, <1>9, <3>2 DEF PushLog, SyncCopies, SyncBeginsSwap, SyncSwaps, LogDrains,
           PushLocks, PushUnlocks, HandOver, Go
      <4> QED BY <4>1
    <3> QED BY <3>1, <3>2
  <2>3. \A u \in Threads : pc'[u] = "push" => pc[u] = "push" \/ accepted < load.batches
    BY <1>8, <2>2
  <2> QED BY <1>6, <2>1, <2>3
<1>10. ASSUME NEW t \in Threads, PushSignals(t), ~QueueRaced PROVE CountInv'
  <2>1. /\ pc[t] = "push" /\ accepted' = accepted + 1
        /\ unwritten' = Append(unwritten, held[t])
        /\ m_number' = m_number /\ handler' = handler /\ load' = load /\ clock' = clock
        /\ pc' = [pc EXCEPT ![t] = "unlock",
                            ![Consumer] = IF @ = "waiting" THEN "relock" ELSE @]
    BY <1>10, Zenon DEF PushSignals
  <2>2. \A u \in Threads : pc'[u] # "push"
    <3>1. pc'[t] = "unlock" /\ \A u \in Threads : u # t => pc'[u] = pc[u]
      BY <1>1, <1>2, <2>1
    <3>2. \A u \in Threads : pc[u] = "push" => u = t
      BY <1>2, <1>10, <2>1, AtMostOne
    <3> QED BY <3>1, <3>2
  <2>3. held[t] \in Batches
    <3>1. held[t] # {}
      BY <2>1, Zenon DEF LoggerInv, AtHand
    <3> QED BY <1>1, <1>2, <3>1 DEF Batches
  <2>4. Len(unwritten') = Len(unwritten) + 1 /\ Len(unwritten) \in Nat
    BY <1>5, <2>1, <2>3
  <2>5. accepted' \in Nat /\ accepted' <= load.batches /\ m_number' + Len(unwritten') <= accepted'
    BY <1>1, <1>3, <1>4, <2>1, <2>4
  <2> QED BY <1>4, <2>1, <2>2, <2>5, Zenon DEF CountInv
<1>11. CASE LoopWrites
  <2>1. /\ pc[Consumer] = "write" /\ unwritten' = Tail(unwritten)
        /\ accepted' = accepted /\ load' = load /\ clock' = clock
        /\ pc' = [pc EXCEPT ![Consumer] = "scope end"]
    BY <1>11, Zenon DEF LoopWrites, Go
  <2>2. held[Consumer] # {}
    BY <2>1, Zenon DEF LoggerInv, AtHand
  <2>3. Len(unwritten') = Len(unwritten) - 1 /\ Len(unwritten) \in Nat /\ Len(unwritten) # 0
    <3>1. unwritten \in Seq(Batches) /\ unwritten # << >>
      BY <1>5, <2>2, Zenon
    <3>2. Len(Tail(unwritten)) = Len(unwritten) - 1
      BY <3>1, HeadTailProperties, Zenon
    <3>3. Len(unwritten) \in Nat /\ Len(unwritten) # 0
      BY <3>1
    <3> QED BY <2>1, <3>2, <3>3, Zenon
  <2>4. PICK number : number = IF m_date = clock THEN m_number ELSE 0
    OBVIOUS
  <2>5. number \in Nat /\ number <= m_number
    BY <1>1, <2>4
  <2>6. PICK open : /\ ChooseFile(number, open)
                    /\ open = IF m_date = clock /\ handler # NoFile THEN handler
                                                                    ELSE <<clock, number>>
    BY <1>11, <2>4, Zenon DEF LoopWrites
  <2>7. m_number' \in {number, number + 1} /\ handler' \in {open, <<clock, number>>}
    BY <2>6 DEF ChooseFile
  <2>8. <<clock, number>> \in Files
    <3>1. clock \in 1..load.days /\ number \in 0..load.batches
      BY <1>1, <1>3, <1>4, <2>3, <2>5
    <3> QED BY <1>1, <3>1 DEF Files
  <2>9. handler' \in Files \cup {NoFile}
    <3>1. open \in Files \cup {NoFile}
      BY <1>4, <2>6, <2>8, Zenon
    <3> QED BY <2>7, <2>8, <3>1, Zenon
  <2>10. m_number' + Len(unwritten') <= accepted'
    <3>1. accepted \in Nat /\ m_number \in Nat /\ m_number + Len(unwritten) <= accepted
      BY <1>1, <1>4, Zenon
    <3>2. m_number' = number \/ m_number' = number + 1
      BY <2>7
    <3>3. accepted' = accepted
      BY <2>1, Zenon
    <3>4. PICK n, k : n = Len(unwritten') /\ k = Len(unwritten)
      OBVIOUS
    <3>5. n = k - 1 /\ k \in Nat /\ k # 0 /\ m_number + k <= accepted
      BY <2>3, <3>1, <3>4, Zenon
    <3>6. m_number' + n <= accepted
      BY <2>5, <3>1, <3>2, <3>5
    <3> QED BY <3>3, <3>4, <3>6, Zenon
  <2>11. \A t \in Threads : pc'[t] = pc[t]
    BY <1>1, <1>2, <2>1
  <2> QED BY <1>4, <2>1, <2>9, <2>10, <2>11, Zenon DEF CountInv
<1>12. CASE \/ LoopStarts \/ LoopTop \/ ConsumerNote \/ PushLog(Consumer)
            \/ LoopTest \/ LoopWaits \/ LoopRelocks \/ LoopTakes \/ LoopUnlocks \/ LoopEnds
  <2>1. /\ m_number' = m_number /\ unwritten' = unwritten /\ handler' = handler
        /\ accepted' = accepted /\ load' = load /\ clock' = clock
    BY <1>12, Zenon DEF LoopStarts, LoopTop, ConsumerNote, PushLog, LoopTest, LoopWaits,
       LoopRelocks, LoopTakes, LoopUnlocks, LoopEnds
  <2>2. \E l : pc' = [pc EXCEPT ![Consumer] = l]
    BY <1>12, Zenon DEF LoopStarts, LoopTop, ConsumerNote, PushLog, LoopTest, LoopWaits,
       LoopRelocks, LoopTakes, LoopUnlocks, LoopEnds, Go
  <2>3. \A t \in Threads : pc'[t] = pc[t]
    BY <1>1, <1>2, <2>2
  <2> QED BY <1>6, <2>1, <2>3
<1>13. CASE ConstructorReturns \/ Tick \/ UNCHANGED vars
  <2>1. /\ m_number' = m_number /\ unwritten' = unwritten /\ handler' = handler
        /\ accepted' = accepted /\ load' = load /\ pc' = pc
    BY <1>13, Zenon DEF ConstructorReturns, Tick
  <2>2. clock' = clock \/ (clock' = clock + 1 /\ clock < load.days)
    BY <1>13, Zenon DEF ConstructorReturns, Tick
  <2> QED BY <1>6, <2>1, <2>2
<1>14. CASE Restart
  <2>1. /\ m_number' = 0 /\ unwritten' = << >> /\ handler' = NoFile /\ accepted' = 0
        /\ load' = load /\ clock' = clock /\ pc' = Unused
    BY <1>14, Zenon DEF Restart
  <2>2. \A t \in Threads : pc'[t] # "push"
    BY <1>2, <2>1 DEF Unused
  <2>3. accepted' \in Nat /\ accepted' <= load'.batches /\ m_number' + Len(unwritten') <= accepted'
    BY <1>3, <2>1
  <2>4. handler' \in Files \cup {NoFile}
    BY <2>1
  <2> QED BY <1>4, <2>1, <2>2, <2>3, <2>4, Zenon DEF CountInv
<1>15. [Next]_vars =>
         \/ UNCHANGED vars \/ ConstructorReturns \/ Tick \/ Restart \/ Loop
         \/ ~QueueRaced /\ \E t \in Threads : Call(t) \/ InCall(t)
  BY <1>7, Zenon DEF Next, Running
<1> QED
  BY <1>9, <1>10, <1>11, <1>12, <1>13, <1>14, <1>15, Zenon DEF InCall, Loop

(* OneBatchPastLimit counts every write: the file at hand is always one of *)
(* Files, as m_number is never ahead of the batches that were written.     *)
THEOREM WritesAreCounted == Spec => [](handler \in Files \cup {NoFile})
<1>1. Init => CountInv
  <2> SUFFICES ASSUME Init PROVE CountInv
    OBVIOUS
  <2>1. load \in Loads /\ load.batches \in Nat /\ load.days \in Nat /\ load.days # 0
    BY LoadsAssumption DEF Init
  <2>2. \A t \in Threads : pc[t] # "push"
    BY ThreadsAreActors DEF Init, Unused
  <2> QED BY <2>1, <2>2 DEF Init, CountInv
<1>2. LoggerInv /\ BatchesInOrder /\ CountInv /\ [Next]_vars => CountInv'
  BY CountStep, Zenon
<1>3. CountInv => handler \in Files \cup {NoFile}
  BY Zenon DEF CountInv
<1> QED BY <1>1, <1>2, <1>3, LoggerInvariant, BatchesKeepOrder, PTL DEF Spec
=============================================================================
