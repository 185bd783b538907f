----------------------------- MODULE TimerProofs -----------------------------
(* Proofs of the safety properties of Timer for any threads, events,       *)
(* intervals and grace.                                                    *)
EXTENDS Timer, Integers, FiniteSetTheorems, WellFoundedInduction,
        SequenceTheorems, TLAPS

USE DEF vars

-----------------------------------------------------------------------------
(* Numbers: a set of naturals has a least member.                          *)
LEMMA LeastNumber ==
  ASSUME NEW T, T \subseteq Nat, T # {}
  PROVE  \E x \in T : \A y \in T : x <= y
<1> DEFINE R == StrictSubsetOrdering(Nat)
           F == FiniteSubsetsOf(Nat)
           U == {0..x : x \in T}
<1>1. R = {ss \in (SUBSET Nat) \X (SUBSET Nat) : ss[1] \subseteq ss[2] /\ ss[1] # ss[2]}
  BY DEF StrictSubsetOrdering
<1>2. IsWellFoundedOn(R, F)
  BY FS_StrictSubsetOrderingWellFounded
<1>3. U \subseteq F
  <2> SUFFICES ASSUME NEW x \in T PROVE 0..x \in F
    OBVIOUS
  <2>1. 0..x \in SUBSET Nat /\ x \in Int
    OBVIOUS
  <2>2. IsFiniteSet(0..x)
    BY <2>1, FS_Interval
  <2> QED BY <2>1, <2>2 DEF FiniteSubsetsOf
<1>4. U # {}
  OBVIOUS
<1> HIDE DEF R, F
<1>5. PICK s \in U : \A t \in U : ~(<<t, s>> \in R)
  <2> HIDE DEF U
  <2> QED BY <1>2, <1>3, <1>4, WFMin, Zenon
<1>6. PICK x \in T : s = 0..x
  BY <1>5
<1>7. ASSUME NEW y \in T, ~(x <= y) PROVE FALSE
  <2>1. 0..y \in U
    BY <1>7
  <2>2. ~(<<0..y, 0..x>> \in R)
    BY <1>5, <1>6, <2>1
  <2>3. 0..y \subseteq 0..x /\ x \in 0..x /\ x \notin 0..y
    BY <1>7
  <2>4. 0..x \in SUBSET Nat /\ 0..y \in SUBSET Nat /\ 0..y # 0..x
    BY <2>3
  <2> DEFINE X == 0..x
             Y == 0..y
  <2> HIDE DEF X, Y
  <2>5. X \in SUBSET Nat /\ Y \in SUBSET Nat /\ Y \subseteq X /\ Y # X
    BY <2>3, <2>4 DEF X, Y
  <2>6. <<Y, X>> \in R
    BY <1>1, <2>5
  <2> QED BY <2>2, <2>6 DEF X, Y
<1> QED BY <1>6, <1>7

-----------------------------------------------------------------------------
(* The operators.                                                          *)

(* KeptUpTo counts the members that are kept.                              *)
LEMMA KeptUpToIs ==
  ASSUME NEW s \in Seq(TimerEvents), NEW keep
  PROVE  /\ KeptUpTo(s, keep, 0) = 0
         /\ \A i \in 0..Len(s) : KeptUpTo(s, keep, i) \in Nat
         /\ \A i \in 1..Len(s) : KeptUpTo(s, keep, i) =
              KeptUpTo(s, keep, i - 1) + (IF s[i] \in keep THEN 1 ELSE 0)
<1> DEFINE P(i) == {j \in 1..i : s[j] \in keep}
<1>1. P(0) = {}
  OBVIOUS
<1>2. \A i \in 0..Len(s) : IsFiniteSet(P(i))
  <2> TAKE i \in 0..Len(s)
  <2>1. IsFiniteSet(1..i)
    BY FS_Interval
  <2> QED BY <2>1, FS_Subset
<1>3. \A i \in 1..Len(s) : P(i) = IF s[i] \in keep THEN P(i - 1) \cup {i} ELSE P(i - 1)
  OBVIOUS
<1>4. \A i \in 1..Len(s) : i \notin P(i - 1) /\ i - 1 \in 0..Len(s)
  OBVIOUS
<1>5. \A i \in 0..Len(s) : Cardinality(P(i)) \in Nat
  BY <1>2, FS_CardinalityType
<1>6. \A i \in 0..Len(s) : KeptUpTo(s, keep, i) = Cardinality(P(i))
  BY DEF KeptUpTo
<1>7. KeptUpTo(s, keep, 0) = 0
  BY <1>1, FS_EmptySet, Zenon DEF KeptUpTo
<1> HIDE DEF P
<1>8. \A i \in 1..Len(s) : Cardinality(P(i)) =
        Cardinality(P(i - 1)) + (IF s[i] \in keep THEN 1 ELSE 0)
  <2> TAKE i \in 1..Len(s)
  <2>1. IsFiniteSet(P(i - 1)) /\ Cardinality(P(i - 1)) \in Nat /\ i \notin P(i - 1)
    BY <1>2, <1>4, <1>5
  <2>2. Cardinality(P(i - 1) \cup {i}) = Cardinality(P(i - 1)) + 1
    BY <2>1, FS_AddElement
  <2>3. P(i) = IF s[i] \in keep THEN P(i - 1) \cup {i} ELSE P(i - 1)
    BY <1>3
  <2>4. CASE s[i] \in keep
    BY <2>2, <2>3, <2>4
  <2>5. CASE s[i] \notin keep
    <3>1. Cardinality(P(i)) = Cardinality(P(i - 1))
      BY <2>3, <2>5, Zenon
    <3> QED BY <2>1, <2>5, <3>1
  <2> QED BY <2>4, <2>5
<1>9. \A i \in 1..Len(s) : i \in 0..Len(s) /\ i - 1 \in 0..Len(s)
  OBVIOUS
<1> QED BY <1>5, <1>6, <1>7, <1>8, <1>9

(* Member n of what is kept is a member of s, the n-th that is kept.       *)
LEMMA KeptIs ==
  ASSUME NEW s \in Seq(TimerEvents), NEW keep
  PROVE  /\ Kept(s, keep) \in Seq(TimerEvents)
         /\ \A n \in 1..Len(Kept(s, keep)) : \E i \in 1..Len(s) :
              /\ s[i] \in keep /\ KeptUpTo(s, keep, i) = n
              /\ Kept(s, keep)[n] = s[i]
<1> DEFINE c(i) == KeptUpTo(s, keep, i)
           N == c(Len(s))
<1>1. /\ c(0) = 0 /\ \A i \in 0..Len(s) : c(i) \in Nat
      /\ \A i \in 1..Len(s) : c(i) = c(i - 1) + (IF s[i] \in keep THEN 1 ELSE 0)
  BY KeptUpToIs, Zenon
<1>2. Len(s) \in Nat /\ N \in Nat
  <2>1. Len(s) \in Nat /\ Len(s) \in 0..Len(s)
    OBVIOUS
  <2> QED BY <1>1, <2>1
<1> HIDE DEF c
<1>3. ASSUME NEW n \in 1..N
      PROVE  \E i \in 1..Len(s) : s[i] \in keep /\ c(i) = n
  <2> DEFINE T == {i \in 0..Len(s) : c(i) >= n}
  <2>1. Len(s) \in T
    BY <1>2, <1>3
  <2>2. PICK i \in T : \A j \in T : i <= j
    <3>1. T \subseteq Nat /\ T # {}
      BY <2>1
    <3> HIDE DEF T
    <3> QED BY <3>1, LeastNumber, Zenon
  <2>3. i \in 0..Len(s) /\ c(i) >= n /\ i # 0
    BY <1>1, <2>2
  <2>4. i \in 1..Len(s) /\ i - 1 \in 0..Len(s)
    BY <1>2, <2>3
  <2>5. ~(c(i - 1) >= n)
    BY <2>2, <2>4
  <2>6. c(i - 1) \in Nat /\ c(i) = c(i - 1) + (IF s[i] \in keep THEN 1 ELSE 0)
    BY <1>1, <2>4
  <2>7. s[i] \in keep /\ c(i) = n
    BY <2>3, <2>5, <2>6
  <2> QED BY <2>4, <2>7
<1>4. Kept(s, keep) = [n \in 1..N |-> s[CHOOSE i \in 1..Len(s) : s[i] \in keep /\ c(i) = n]]
  BY Zenon DEF Kept, c
<1> DEFINE at(n) == CHOOSE i \in 1..Len(s) : s[i] \in keep /\ c(i) = n
<1>5. \A n \in 1..N : at(n) \in 1..Len(s) /\ s[at(n)] \in keep /\ c(at(n)) = n
  BY <1>3, Zenon
<1>6. Kept(s, keep) = [n \in 1..N |-> s[at(n)]]
  BY <1>4, Zenon
<1> HIDE DEF at, N
<1>7. \A n \in 1..N : s[at(n)] \in TimerEvents
  BY <1>5
<1>8. Kept(s, keep) \in Seq(TimerEvents) /\ Len(Kept(s, keep)) = N
  BY <1>2, <1>6, <1>7
<1>9. \A n \in 1..N : Kept(s, keep)[n] = s[at(n)]
  BY <1>6, Zenon
<1> QED BY <1>5, <1>8, <1>9, Zenon DEF c

(* emplace puts the event behind the first k events, those that are due    *)
(* no later; when the first event is, it stays the first.                  *)
LEMMA EmplaceIs ==
  ASSUME NEW s \in Seq(TimerEvents), NEW e \in TimerEvents, NEW d
  PROVE  \E k \in 0..Len(s) :
           /\ Emplace(s, e, d) \in Seq(TimerEvents)
           /\ Len(Emplace(s, e, d)) = Len(s) + 1
           /\ \A i \in 1..(Len(s) + 1) : Emplace(s, e, d)[i] =
                IF i <= k THEN s[i] ELSE IF i = k + 1 THEN e ELSE s[i - 1]
           /\ s # << >> /\ due[Head(s)] <= d => k >= 1
<1> DEFINE P == {i \in 1..Len(s) : due[s[i]] <= d}
           k == Cardinality(P)
<1>1. Len(s) \in Nat
  OBVIOUS
<1>2. IsFiniteSet(1..Len(s)) /\ Cardinality(1..Len(s)) = Len(s)
  BY <1>1, FS_Interval
<1>3. IsFiniteSet(P) /\ k <= Len(s)
  BY <1>2, FS_Subset
<1>4. k \in Nat
  BY <1>3, FS_CardinalityType
<1>5. s # << >> /\ due[Head(s)] <= d => k >= 1
  <2> SUFFICES ASSUME s # << >>, due[Head(s)] <= d PROVE k # 0
    BY <1>4
  <2>1. 1 \in 1..Len(s) /\ Head(s) = s[1]
    OBVIOUS
  <2>2. 1 \in P
    BY <2>1
  <2> QED BY <1>3, <2>2, FS_EmptySet
<1>6. Emplace(s, e, d) = SubSeq(s, 1, k) \o <<e>> \o SubSeq(s, k + 1, Len(s))
  BY Zenon DEF Emplace
<1> HIDE DEF k, P
<1> DEFINE a == SubSeq(s, 1, k)
           b == SubSeq(s, k + 1, Len(s))
<1>7. /\ a \in Seq(TimerEvents) /\ Len(a) = k /\ \A i \in 1..k : a[i] = s[i]
      /\ b \in Seq(TimerEvents) /\ Len(b) = Len(s) - k
      /\ \A i \in 1..(Len(s) - k) : b[i] = s[k + i]
  BY <1>1, <1>3, <1>4
<1>8. /\ <<e>> \in Seq(TimerEvents) /\ Len(<<e>>) = 1 /\ <<e>>[1] = e
  OBVIOUS
<1> HIDE DEF a, b
<1> DEFINE x == <<e>>
<1> HIDE DEF x
<1>9. /\ a \o x \in Seq(TimerEvents) /\ Len(a \o x) = k + 1
      /\ \A i \in 1..(k + 1) : (a \o x)[i] = IF i <= k THEN s[i] ELSE e
  BY <1>4, <1>7, <1>8 DEF x
<1> DEFINE y == a \o x
<1> HIDE DEF y
<1>10. /\ y \o b \in Seq(TimerEvents) /\ Len(y \o b) = Len(s) + 1
       /\ \A i \in 1..(Len(s) + 1) : (y \o b)[i] =
            IF i <= k THEN s[i] ELSE IF i = k + 1 THEN e ELSE s[i - 1]
  <2>1. y \in Seq(TimerEvents) /\ Len(y) = k + 1
        /\ \A i \in 1..(k + 1) : y[i] = IF i <= k THEN s[i] ELSE e
    BY <1>9 DEF y
  <2>2. /\ y \o b \in Seq(TimerEvents) /\ Len(y \o b) = Len(y) + Len(b)
        /\ \A i \in 1..(Len(y) + Len(b)) :
             (y \o b)[i] = IF i <= Len(y) THEN y[i] ELSE b[i - Len(y)]
    BY <1>7, <2>1, ConcatProperties, Zenon
  <2>3. Len(y) + Len(b) = Len(s) + 1
    BY <1>1, <1>4, <1>7, <2>1
  <2>4. \A i \in 1..(Len(s) + 1) : (y \o b)[i] =
          IF i <= k THEN s[i] ELSE IF i = k + 1 THEN e ELSE s[i - 1]
    <3> TAKE i \in 1..(Len(s) + 1)
    <3>1. (y \o b)[i] = IF i <= k + 1 THEN y[i] ELSE b[i - (k + 1)]
      BY <2>1, <2>2, <2>3, Zenon
    <3>2. CASE i <= k + 1
      <4>1. i \in 1..(k + 1)
        BY <1>4, <3>2
      <4>2. y[i] = IF i <= k THEN s[i] ELSE e
        BY <2>1, <4>1
      <4> QED BY <1>4, <3>1, <3>2, <4>1, <4>2
    <3>3. CASE ~(i <= k + 1)
      <4>1. i - (k + 1) \in 1..(Len(s) - k) /\ k + (i - (k + 1)) = i - 1
        BY <1>1, <1>3, <1>4, <3>3
      <4>2. b[i - (k + 1)] = s[i - 1]
        BY <1>7, <4>1
      <4> QED BY <1>4, <3>1, <3>3, <4>2
    <3> QED BY <3>2, <3>3
  <2> QED BY <2>2, <2>3, <2>4
<1>11. Emplace(s, e, d) = y \o b
  BY <1>6, Zenon DEF y, x, a, b
<1>12. k \in 0..Len(s)
  BY <1>1, <1>3, <1>4
<1> QED BY <1>5, <1>10, <1>11, <1>12, Zenon

(* The expired part is a part of the multimap.                             *)
LEMMA ExpiredPrefixIs ==
  ASSUME m_pending_events \in Seq(TimerEvents)
  PROVE  ExpiredPrefix \in 0..Len(m_pending_events)
<1> DEFINE P == {i \in 1..Len(m_pending_events) :
                   \A j \in 1..i : m_pending_events[j] \in expired}
<1>1. Len(m_pending_events) \in Nat
  OBVIOUS
<1>2. IsFiniteSet(1..Len(m_pending_events))
      /\ Cardinality(1..Len(m_pending_events)) = Len(m_pending_events)
  BY <1>1, FS_Interval
<1>3. IsFiniteSet(P) /\ Cardinality(P) <= Len(m_pending_events)
  BY <1>2, FS_Subset
<1>4. Cardinality(P) \in Nat
  BY <1>3, FS_CardinalityType
<1> QED BY <1>1, <1>3, <1>4 DEF ExpiredPrefix

-----------------------------------------------------------------------------
(* What the operators do to the members of a sequence.                     *)

(* e is in s at most once.                                                 *)
Once(s, e) == \A i, j \in 1..Len(s) : s[i] = e /\ s[j] = e => i = j

LEMMA KeptElems ==
  ASSUME NEW s \in Seq(TimerEvents), NEW keep
  PROVE  /\ Elems(Kept(s, keep)) \subseteq Elems(s) \cap keep
         /\ \A e : Once(s, e) => Once(Kept(s, keep), e)
<1> DEFINE q == Kept(s, keep)
<1>1. \A n \in 1..Len(q) : \E i \in 1..Len(s) :
        s[i] \in keep /\ KeptUpTo(s, keep, i) = n /\ q[n] = s[i]
  BY KeptIs
<1> HIDE DEF q
<1>2. Elems(q) \subseteq Elems(s) \cap keep
  BY <1>1 DEF Elems
<1>3. ASSUME NEW e, Once(s, e) PROVE Once(q, e)
  BY <1>1, <1>3, Zenon DEF Once
<1> QED BY <1>2, <1>3 DEF q

LEMMA ShiftOnce ==
  ASSUME NEW s, NEW r, NEW c \in Nat, Len(s) \in Nat, Len(r) \in Nat,
         \A i \in 1..Len(r) : i + c \in 1..Len(s) /\ r[i] = s[i + c],
         NEW e, Once(s, e)
  PROVE  Once(r, e)
<1> SUFFICES ASSUME NEW i \in 1..Len(r), NEW j \in 1..Len(r), r[i] = e, r[j] = e
             PROVE  i = j
  BY Zenon DEF Once
<1>1. i + c \in 1..Len(s) /\ j + c \in 1..Len(s) /\ s[i + c] = e /\ s[j + c] = e
  BY Zenon
<1>2. i + c = j + c
  BY <1>1, Zenon DEF Once
<1> QED BY <1>2

(* A sequence is split into a part and the rest.                           *)
LEMMA SplitElems ==
  ASSUME NEW s \in Seq(TimerEvents), NEW n \in 0..Len(s)
  PROVE  LET a == SubSeq(s, 1, n)
             b == SubSeq(s, n + 1, Len(s))
         IN /\ a \in Seq(TimerEvents) /\ b \in Seq(TimerEvents)
            /\ Elems(a) \subseteq Elems(s) /\ Elems(b) \subseteq Elems(s)
            /\ \A e : Once(s, e) => /\ Once(a, e) /\ Once(b, e)
                                    /\ ~(e \in Elems(a) /\ e \in Elems(b))
<1> DEFINE a == SubSeq(s, 1, n)
           b == SubSeq(s, n + 1, Len(s))
<1>1. /\ a \in Seq(TimerEvents) /\ Len(a) = n /\ \A i \in 1..n : a[i] = s[i]
      /\ b \in Seq(TimerEvents) /\ Len(b) = Len(s) - n
      /\ \A i \in 1..(Len(s) - n) : b[i] = s[n + i]
  OBVIOUS
<1> HIDE DEF a, b
<1>2. /\ \A i \in 1..n : i \in 1..Len(s)
      /\ \A i \in 1..(Len(s) - n) : n + i \in 1..Len(s) /\ n + i \notin 1..n
      /\ \A i, j \in 1..(Len(s) - n) : n + i = n + j => i = j
  OBVIOUS
<1>3. Elems(a) \subseteq Elems(s) /\ Elems(b) \subseteq Elems(s)
  BY <1>1, <1>2 DEF Elems
<1>4. ASSUME NEW e, Once(s, e)
      PROVE  Once(a, e) /\ Once(b, e) /\ ~(e \in Elems(a) /\ e \in Elems(b))
  <2>1. Once(a, e)
    <3>1. \A i \in 1..Len(a) : i + 0 \in 1..Len(s) /\ a[i] = s[i + 0]
      BY <1>1
    <3>2. Len(s) \in Nat /\ Len(a) \in Nat /\ 0 \in Nat
      BY <1>1
    <3> QED BY <1>4, <3>1, <3>2, ShiftOnce, Zenon
  <2>2. Once(b, e)
    <3>1. \A i \in 1..Len(b) : i + n \in 1..Len(s) /\ b[i] = s[i + n]
      BY <1>1
    <3>2. Len(s) \in Nat /\ Len(b) \in Nat /\ n \in Nat
      BY <1>1
    <3> QED BY <1>4, <3>1, <3>2, ShiftOnce, Zenon
  <2>3. ~(e \in Elems(a) /\ e \in Elems(b))
    <3> SUFFICES ASSUME NEW i \in 1..n, NEW j \in 1..(Len(s) - n), a[i] = e, b[j] = e
                 PROVE  FALSE
      BY <1>1 DEF Elems
    <3>1. s[i] = e /\ s[n + j] = e /\ i \in 1..Len(s) /\ n + j \in 1..Len(s)
      BY <1>1, <1>2, Zenon
    <3>2. i # n + j
      BY <1>2, Zenon
    <3> QED BY <1>4, <3>1, <3>2, Zenon DEF Once
  <2> QED BY <2>1, <2>2, <2>3
<1> QED BY <1>1, <1>3, <1>4 DEF a, b

LEMMA TailElems ==
  ASSUME NEW s \in Seq(TimerEvents), s # << >>
  PROVE  /\ Head(s) \in TimerEvents /\ Head(s) \in Elems(s)
         /\ Tail(s) \in Seq(TimerEvents) /\ Elems(Tail(s)) \subseteq Elems(s)
         /\ \A e : Once(s, e) => Once(Tail(s), e)
         /\ Once(s, Head(s)) => Head(s) \notin Elems(Tail(s))
<1>1. /\ Tail(s) \in Seq(TimerEvents) /\ Len(Tail(s)) = Len(s) - 1
      /\ \A i \in 1..(Len(s) - 1) : Tail(s)[i] = s[i + 1]
      /\ Head(s) = s[1] /\ 1 \in 1..Len(s) /\ Len(s) \in Nat
  OBVIOUS
<1>2. /\ \A i \in 1..(Len(s) - 1) : i + 1 \in 1..Len(s) /\ i + 1 # 1
      /\ \A i, j \in 1..(Len(s) - 1) : i + 1 = j + 1 => i = j
  BY <1>1
<1>3. Head(s) \in TimerEvents /\ Head(s) \in Elems(s) /\ Elems(Tail(s)) \subseteq Elems(s)
  <2> DEFINE r == Tail(s)
  <2>1. \A i \in 1..Len(r) : \E j \in 1..Len(s) : r[i] = s[j]
    BY <1>1, <1>2
  <2>2. Head(s) \in TimerEvents
    BY <1>1
  <2> HIDE DEF r
  <2>3. Elems(r) \subseteq Elems(s) /\ s[1] \in Elems(s)
    BY <1>1, <2>1 DEF Elems
  <2> QED BY <1>1, <2>2, <2>3 DEF r
<1>4. \A e : Once(s, e) => Once(Tail(s), e)
  <2> DEFINE r == Tail(s)
  <2>1. \A i \in 1..Len(r) : i + 1 \in 1..Len(s) /\ r[i] = s[i + 1]
    BY <1>1
  <2>2. Len(s) \in Nat /\ Len(r) \in Nat /\ 1 \in Nat
    BY <1>1
  <2> HIDE DEF r
  <2>3. \A e : Once(s, e) => Once(r, e)
    BY <2>1, <2>2, ShiftOnce, Zenon
  <2> QED BY <2>3 DEF r
<1>5. Once(s, Head(s)) => Head(s) \notin Elems(Tail(s))
  <2> SUFFICES ASSUME Once(s, Head(s)), NEW i \in 1..(Len(s) - 1), Tail(s)[i] = Head(s)
               PROVE  FALSE
    BY <1>1 DEF Elems
  <2> QED BY <1>1, <1>2, Zenon DEF Once
<1> QED BY <1>1, <1>3, <1>4, <1>5

-----------------------------------------------------------------------------
(* Types.                                                                  *)

(* A thread on its way to timerfd_settime has an event to set it for.      *)
TimerInv ==
  /\ TypeOK
  /\ \A t \in Threads : pc[t] = "settime" => snap[t] \in TimerEvents

(* What the locked half of add_time_event does.                            *)
LEMMA InsertDoes ==
  ASSUME TypeOK, NEW t \in Threads, NEW e \in TimerEvents,
         NEW caller \in {"idle", "readd", "run"}, Insert(t, e, caller)
  PROVE  /\ m_pending_events' \in Seq(TimerEvents)
         /\ Elems(m_pending_events') \subseteq Elems(m_pending_events) \cup {e}
         /\ \A x : x # e /\ Once(m_pending_events, x) => Once(m_pending_events', x)
         /\ e \notin Elems(m_pending_events) => Once(m_pending_events', e)
         /\ due' = [due EXCEPT ![e] = Interval[e]]
         /\ due' \in [TimerEvents -> Nat]
         /\ ret' = [ret EXCEPT ![t] = caller]
         /\ \/ pc' = [pc EXCEPT ![t] = "reset"]
            \/ /\ pc' = [pc EXCEPT ![t] = caller]
               /\ m_pending_events # << >>
               /\ Head(m_pending_events') = Head(m_pending_events)
<1> DEFINE s == m_pending_events
           q == Emplace(s, e, Interval[e])
<1>1. s \in Seq(TimerEvents) /\ due \in [TimerEvents -> Nat]
  BY Zenon DEF TypeOK
<1>2. Interval[e] \in Nat
  BY IntervalAssumption
<1>3. /\ due' = [due EXCEPT ![e] = Interval[e]] /\ m_pending_events' = q
      /\ ret' = [ret EXCEPT ![t] = caller]
      /\ pc' = [pc EXCEPT ![t] = IF s = << >> \/ due[Head(s)] > Interval[e]
                                   THEN "reset" ELSE caller]
  BY Zenon DEF Insert, Goto
<1>4. PICK k \in 0..Len(s) :
        /\ q \in Seq(TimerEvents) /\ Len(q) = Len(s) + 1
        /\ \A i \in 1..(Len(s) + 1) :
             q[i] = IF i <= k THEN s[i] ELSE IF i = k + 1 THEN e ELSE s[i - 1]
        /\ s # << >> /\ due[Head(s)] <= Interval[e] => k >= 1
  <2>1. \A x \in TimerEvents, d \in Nat : \E k \in 0..Len(s) :
          /\ Emplace(s, x, d) \in Seq(TimerEvents)
          /\ Len(Emplace(s, x, d)) = Len(s) + 1
          /\ \A i \in 1..(Len(s) + 1) : Emplace(s, x, d)[i] =
               IF i <= k THEN s[i] ELSE IF i = k + 1 THEN x ELSE s[i - 1]
          /\ s # << >> /\ due[Head(s)] <= d => k >= 1
    <3> HIDE DEF s
    <3> QED BY <1>1, EmplaceIs, Zenon
  <2> HIDE DEF s
  <2> QED BY <1>2, <2>1, Zenon
<1> HIDE DEF q
<1>5. /\ Len(s) \in Nat
      /\ \A i \in 1..(Len(s) + 1) : i <= k => i \in 1..Len(s)
      /\ \A i \in 1..(Len(s) + 1) : ~(i <= k) /\ i # k + 1 => i - 1 \in 1..Len(s) /\ ~(i - 1 <= k - 1)
      /\ \A i, j \in 1..(Len(s) + 1) : i - 1 = j - 1 => i = j
      /\ \A i, j \in 1..(Len(s) + 1) : i <= k /\ ~(j <= k) /\ j # k + 1 => i # j - 1
  BY <1>1
<1> HIDE DEF s
<1>6. ASSUME NEW i \in 1..Len(q)
      PROVE  q[i] \in Elems(s) \cup {e}
  <2>1. i \in 1..(Len(s) + 1)
    BY <1>4, <1>6
  <2>2. CASE i <= k
    BY <1>4, <1>5, <2>1, <2>2 DEF Elems
  <2>3. CASE i = k + 1
    BY <1>4, <1>5, <2>1, <2>3
  <2>4. CASE ~(i <= k) /\ i # k + 1
    BY <1>4, <1>5, <2>1, <2>4 DEF Elems
  <2> QED BY <2>2, <2>3, <2>4
<1>7. Elems(q) \subseteq Elems(s) \cup {e}
  BY <1>6 DEF Elems
<1>8. ASSUME NEW x, x # e, Once(s, x) PROVE Once(q, x)
  <2> SUFFICES ASSUME NEW i \in 1..(Len(s) + 1), NEW j \in 1..(Len(s) + 1),
                      q[i] = x, q[j] = x
               PROVE  i = j
    BY <1>4, Zenon DEF Once
  <2>1. ASSUME NEW l \in 1..(Len(s) + 1), q[l] = x
        PROVE  \/ l <= k /\ l \in 1..Len(s) /\ s[l] = x
               \/ ~(l <= k) /\ l # k + 1 /\ l - 1 \in 1..Len(s) /\ s[l - 1] = x
    BY <1>4, <1>5, <1>8, <2>1, Zenon
  <2>2. \/ i <= k /\ i \in 1..Len(s) /\ s[i] = x
        \/ ~(i <= k) /\ i # k + 1 /\ i - 1 \in 1..Len(s) /\ s[i - 1] = x
    BY <2>1, Zenon
  <2>3. \/ j <= k /\ j \in 1..Len(s) /\ s[j] = x
        \/ ~(j <= k) /\ j # k + 1 /\ j - 1 \in 1..Len(s) /\ s[j - 1] = x
    BY <2>1, Zenon
  <2> QED BY <1>5, <1>8, <2>2, <2>3, Zenon DEF Once
<1>9. ASSUME e \notin Elems(s) PROVE Once(q, e)
  <2>1. ASSUME NEW l \in 1..(Len(s) + 1), q[l] = e PROVE l = k + 1
    <3>1. \A i \in 1..Len(s) : s[i] # e
      BY <1>9 DEF Elems
    <3> QED BY <1>4, <1>5, <2>1, <3>1, Zenon
  <2> QED BY <1>4, <2>1, Zenon DEF Once
<1>10. \/ pc' = [pc EXCEPT ![t] = "reset"]
       \/ pc' = [pc EXCEPT ![t] = caller] /\ s # << >> /\ Head(q) = Head(s)
  <2>1. CASE s = << >> \/ due[Head(s)] > Interval[e]
    BY <1>3, <2>1, Zenon DEF s
  <2>2. CASE ~(s = << >> \/ due[Head(s)] > Interval[e])
    <3>1. pc' = [pc EXCEPT ![t] = caller]
      BY <1>3, <2>2, Zenon DEF s
    <3>2. s \in Seq(TimerEvents) /\ s # << >>
      BY <1>1, <2>2 DEF s
    <3>3. Head(s) \in TimerEvents /\ Head(s) = s[1] /\ 1 \in 1..(Len(s) + 1)
      BY <3>2
    <3>4. due[Head(s)] \in Nat
      BY <1>1, <3>3
    <3>5. k >= 1
      BY <1>2, <1>4, <2>2, <3>4
    <3>6. q[1] = s[1] /\ q # << >>
      BY <1>4, <1>5, <3>3, <3>5
    <3>7. Head(q) = q[1]
      BY <1>4, <3>6
    <3> QED BY <3>1, <3>2, <3>3, <3>6, <3>7
  <2> QED BY <2>1, <2>2
<1>11. due' \in [TimerEvents -> Nat]
  BY <1>1, <1>2, <1>3
<1> QED BY <1>3, <1>4, <1>7, <1>8, <1>9, <1>10, <1>11 DEF s

(* What the collection by on_timer leaves and takes.                       *)
Live == Kept(SubSeq(m_pending_events, 1, ExpiredPrefix),
             {e \in TimerEvents : ~m_is_cancel[e]})
Left == SubSeq(m_pending_events, ExpiredPrefix + 1, Len(m_pending_events))

LEMMA CollectDoes ==
  ASSUME TypeOK
  PROVE  /\ Live \in Seq(TimerEvents) /\ Left \in Seq(TimerEvents)
         /\ Kept(Live, Repeats) \in Seq(TimerEvents)
         /\ Elems(Live) \subseteq Elems(m_pending_events)
         /\ Elems(Left) \subseteq Elems(m_pending_events)
         /\ Elems(Kept(Live, Repeats)) \subseteq Elems(m_pending_events) \cap Repeats
         /\ \A e \in Elems(Live) : ~m_is_cancel[e]
         /\ \A e : Once(m_pending_events, e) =>
              Once(Live, e) /\ Once(Left, e) /\ ~(e \in Elems(Live) /\ e \in Elems(Left))
<1> DEFINE s == m_pending_events
           a == SubSeq(s, 1, ExpiredPrefix)
           good == {e \in TimerEvents : ~m_is_cancel[e]}
<1>1. s \in Seq(TimerEvents) /\ ExpiredPrefix \in 0..Len(s)
  BY ExpiredPrefixIs, Zenon DEF TypeOK
<1>2. /\ a \in Seq(TimerEvents) /\ Left \in Seq(TimerEvents)
      /\ Elems(a) \subseteq Elems(s) /\ Elems(Left) \subseteq Elems(s)
      /\ \A e : Once(s, e) => /\ Once(a, e) /\ Once(Left, e)
                              /\ ~(e \in Elems(a) /\ e \in Elems(Left))
  BY <1>1, SplitElems, Zenon DEF Left
<1>3. Live = Kept(a, good)
  BY Zenon DEF Live
<1> HIDE DEF a
<1>4. /\ Live \in Seq(TimerEvents) /\ Elems(Live) \subseteq Elems(a) \cap good
      /\ \A e : Once(a, e) => Once(Live, e)
  BY <1>2, <1>3, KeptIs, KeptElems
<1>5. /\ Kept(Live, Repeats) \in Seq(TimerEvents)
      /\ Elems(Kept(Live, Repeats)) \subseteq Elems(Live) \cap Repeats
  BY <1>4, KeptIs, KeptElems
<1> QED BY <1>2, <1>4, <1>5, Zenon

LEMMA TimerStep ==
  ASSUME TimerInv, [Next]_vars
  PROVE  TimerInv'
<1>1. /\ m_pending_events \in Seq(TimerEvents) /\ due \in [TimerEvents -> Nat]
      /\ m_is_cancel \in [TimerEvents -> BOOLEAN] /\ added \in SUBSET TimerEvents
      /\ armed \in Nat /\ readable \in BOOLEAN /\ pc \in [Threads -> PCs]
      /\ ret \in [Threads -> {"idle", "readd", "run"}]
      /\ snap \in [Threads -> TimerEvents \cup {None}]
      /\ temp \in Seq(TimerEvents) /\ tasks \in Seq(TimerEvents)
      /\ runs \in [TimerEvents -> 0..RunsBound] /\ revoked \in SUBSET TimerEvents
      /\ expired \in SUBSET TimerEvents /\ stale \in BOOLEAN
      /\ \A t \in Threads : pc[t] = "settime" => snap[t] \in TimerEvents
  BY Zenon DEF TimerInv, TypeOK
<1>2. Loop \in Threads /\ "readd" \in {"idle", "readd", "run"}
  BY DEF Threads
(* Going to another label than settime.                                    *)
<1>3. ASSUME NEW t \in Threads, NEW l \in PCs, l # "settime",
             pc' = [pc EXCEPT ![t] = l], snap' = snap
      PROVE  /\ pc' \in [Threads -> PCs]
             /\ \A u \in Threads : pc'[u] = "settime" => snap'[u] \in TimerEvents
  BY <1>1, <1>3
<1>4. ASSUME NEW t \in Threads, NEW e \in TimerEvents,
             NEW caller \in {"idle", "readd", "run"}, Insert(t, e, caller),
             snap' = snap
      PROVE  /\ m_pending_events' \in Seq(TimerEvents) /\ due' \in [TimerEvents -> Nat]
             /\ ret' \in [Threads -> {"idle", "readd", "run"}]
             /\ pc' \in [Threads -> PCs]
             /\ \A u \in Threads : pc'[u] = "settime" => snap'[u] \in TimerEvents
  <2>1. /\ m_pending_events' \in Seq(TimerEvents) /\ due' \in [TimerEvents -> Nat]
        /\ ret' = [ret EXCEPT ![t] = caller]
        /\ \/ pc' = [pc EXCEPT ![t] = "reset"]
           \/ pc' = [pc EXCEPT ![t] = caller]
    <3>1. TypeOK
      BY Zenon DEF TimerInv
    <3> QED BY <1>4, <3>1, InsertDoes
  <2>2. "reset" \in PCs /\ caller \in PCs /\ caller # "settime"
    BY <1>4 DEF PCs
  <2>3. ret' \in [Threads -> {"idle", "readd", "run"}]
    BY <1>1, <2>1
  <2> QED BY <1>3, <1>4, <2>1, <2>2, <2>3
<1>5. ASSUME NEW t \in Threads, NEW e \in TimerEvents, AddTimeEvent(t, e)
      PROVE  TimerInv'
  <2>1. pc[t] \in {"idle", "readd", "run"} /\ Insert(t, e, pc[t]) /\ snap' = snap
    BY <1>5, Zenon DEF AddTimeEvent
  <2>2. /\ m_pending_events' \in Seq(TimerEvents) /\ due' \in [TimerEvents -> Nat]
        /\ ret' \in [Threads -> {"idle", "readd", "run"}] /\ pc' \in [Threads -> PCs]
        /\ \A u \in Threads : pc'[u] = "settime" => snap'[u] \in TimerEvents
    BY <1>4, <2>1
  <2>3. added' \in SUBSET TimerEvents
    BY <1>1, <1>5 DEF AddTimeEvent
  <2> QED BY <1>1, <1>5, <2>2, <2>3, Zenon DEF TimerInv, TypeOK, AddTimeEvent
<1>6. CASE ReAdd
  <2>1. temp # << >> /\ temp' = Tail(temp) /\ Insert(Loop, Head(temp), "readd") /\ snap' = snap
    BY <1>6, Zenon DEF ReAdd
  <2>2. Head(temp) \in TimerEvents /\ temp' \in Seq(TimerEvents)
    BY <1>1, <2>1, TailElems
  <2>3. /\ m_pending_events' \in Seq(TimerEvents) /\ due' \in [TimerEvents -> Nat]
        /\ ret' \in [Threads -> {"idle", "readd", "run"}] /\ pc' \in [Threads -> PCs]
        /\ \A u \in Threads : pc'[u] = "settime" => snap'[u] \in TimerEvents
    BY <1>2, <1>4, <2>1, <2>2
  <2> QED BY <1>1, <1>6, <2>2, <2>3, Zenon DEF TimerInv, TypeOK, ReAdd
<1>7. ASSUME NEW t \in Threads, ResetSnapshot(t) PROVE TimerInv'
  <2>1. CASE m_pending_events = << >>
    <3>1. pc' = [pc EXCEPT ![t] = ret[t]] /\ snap' = snap
      BY <1>7, <2>1, Zenon DEF ResetSnapshot, Goto
    <3>2. ret[t] \in PCs /\ ret[t] # "settime"
      BY <1>1 DEF PCs
    <3>3. /\ pc' \in [Threads -> PCs]
          /\ \A u \in Threads : pc'[u] = "settime" => snap'[u] \in TimerEvents
      BY <1>3, <3>1, <3>2
    <3> QED BY <1>1, <1>7, <3>1, <3>3, Zenon DEF TimerInv, TypeOK, ResetSnapshot
  <2>2. CASE m_pending_events # << >>
    <3>1. pc' = [pc EXCEPT ![t] = "settime"] /\ snap' = [snap EXCEPT ![t] = Head(m_pending_events)]
      BY <1>7, <2>2, Zenon DEF ResetSnapshot, Goto
    <3>2. Head(m_pending_events) \in TimerEvents
      BY <1>1, <2>2, TailElems
    <3>3. "settime" \in PCs
      BY DEF PCs
    <3>4. pc' \in [Threads -> PCs] /\ snap' \in [Threads -> TimerEvents \cup {None}]
      BY <1>1, <3>1, <3>2, <3>3
    <3>5. \A u \in Threads : pc'[u] = "settime" => snap'[u] \in TimerEvents
      BY <1>1, <3>1, <3>2
    <3> QED BY <1>1, <1>7, <3>4, <3>5, Zenon DEF TimerInv, TypeOK, ResetSnapshot
  <2> QED BY <2>1, <2>2
<1>8. ASSUME NEW t \in Threads, SetTime(t) PROVE TimerInv'
  <2>1. pc' = [pc EXCEPT ![t] = ret[t]] /\ snap' = snap /\ pc[t] = "settime"
    BY <1>8, Zenon DEF SetTime, Goto
  <2>2. ret[t] \in PCs /\ ret[t] # "settime"
    BY <1>1 DEF PCs
  <2>3. /\ pc' \in [Threads -> PCs]
        /\ \A u \in Threads : pc'[u] = "settime" => snap'[u] \in TimerEvents
    BY <1>3, <2>1, <2>2
  <2>4. due[snap[t]] \in Nat
    BY <1>1, <2>1
  <2>5. armed' \in Nat /\ readable' \in BOOLEAN /\ stale' \in BOOLEAN
    BY <1>8, <2>4, GraceAssumption DEF SetTime
  <2> QED BY <1>1, <1>8, <2>1, <2>3, <2>5, Zenon DEF TimerInv, TypeOK, SetTime
<1>9. ASSUME NEW t \in Threads, NEW e \in TimerEvents, SetCancel(t, e) PROVE TimerInv'
  <2>1. m_is_cancel' \in [TimerEvents -> BOOLEAN] /\ revoked' \in SUBSET TimerEvents
    BY <1>1, <1>9 DEF SetCancel
  <2> QED BY <1>1, <1>9, <2>1, Zenon DEF TimerInv, TypeOK, SetCancel
<1>10. ASSUME NEW t \in Threads, NEW e \in TimerEvents, DeleteTimeEvent(t, e)
       PROVE TimerInv'
  <2>1. m_is_cancel' \in [TimerEvents -> BOOLEAN]
    BY <1>1, <1>10 DEF DeleteTimeEvent
  <2>2. m_pending_events' \in Seq(TimerEvents)
    BY <1>1, <1>10, KeptIs, Zenon DEF DeleteTimeEvent
  <2>3. /\ pc' \in [Threads -> PCs]
        /\ \A u \in Threads : pc'[u] # "settime"
    BY <1>10 DEF DeleteTimeEvent, PCs
  <2> QED BY <1>1, <1>10, <2>1, <2>2, <2>3, Zenon DEF TimerInv, TypeOK, DeleteTimeEvent
<1>11. CASE OnTimerCollect
  <2>1. /\ tasks' = Live /\ temp' = Kept(Live, Repeats) /\ m_pending_events' = Left
        /\ pc' = [pc EXCEPT ![Loop] = "readd"] /\ expired' = {} /\ snap' = snap
    BY <1>11, Zenon DEF OnTimerCollect, Live, Left, Goto
  <2>2. /\ tasks' \in Seq(TimerEvents) /\ temp' \in Seq(TimerEvents)
        /\ m_pending_events' \in Seq(TimerEvents)
    BY <2>1, CollectDoes, Zenon DEF TimerInv
  <2>3. "readd" \in PCs /\ "readd" # "settime"
    BY DEF PCs
  <2>4. /\ pc' \in [Threads -> PCs]
        /\ \A u \in Threads : pc'[u] = "settime" => snap'[u] \in TimerEvents
    BY <1>2, <1>3, <2>1, <2>3
  <2>5. expired' \in SUBSET TimerEvents
    BY <2>1
  <2> QED BY <1>1, <1>11, <2>2, <2>4, <2>5, Zenon DEF TimerInv, TypeOK, OnTimerCollect
<1>12. CASE TimerFdReported \/ OnTimerDrain \/ ReAddDone \/ OnTimerDone
  <2>1. /\ snap' = snap
        /\ \E l \in {"drain", "collect", "reset", "idle"} : pc' = [pc EXCEPT ![Loop] = l]
    BY <1>12 DEF TimerFdReported, OnTimerDrain, ReAddDone, OnTimerDone, Goto
  <2>2. \A l \in {"drain", "collect", "reset", "idle"} : l \in PCs /\ l # "settime"
    BY DEF PCs
  <2>3. /\ pc' \in [Threads -> PCs]
        /\ \A u \in Threads : pc'[u] = "settime" => snap'[u] \in TimerEvents
    BY <1>2, <1>3, <2>1, <2>2
  <2>4. ret' \in [Threads -> {"idle", "readd", "run"}]
    BY <1>1, <1>12 DEF TimerFdReported, OnTimerDrain, ReAddDone, OnTimerDone
  <2>5. expired' \in SUBSET TimerEvents /\ readable' \in BOOLEAN
    <3>1. {e \in Elems(m_pending_events) : due[e] = 0} \in SUBSET TimerEvents
      BY <1>1 DEF Elems
    <3> QED BY <1>1, <1>12, <3>1, Zenon DEF TimerFdReported, OnTimerDrain, ReAddDone, OnTimerDone
  <2>6. UNCHANGED <<m_pending_events, due, m_is_cancel, added, armed, snap, temp,
                    tasks, runs, revoked, stale>>
    BY <1>12, Zenon DEF TimerFdReported, OnTimerDrain, ReAddDone, OnTimerDone
  <2> QED BY <1>1, <2>3, <2>4, <2>5, <2>6, Zenon DEF TimerInv, TypeOK
<1>13. CASE RunTask
  <2>1. tasks # << >> /\ tasks' = Tail(tasks)
    BY <1>13, Zenon DEF RunTask
  <2>2. Head(tasks) \in TimerEvents /\ tasks' \in Seq(TimerEvents)
    BY <1>1, <2>1, TailElems
  <2>3. runs' \in [TimerEvents -> 0..RunsBound]
    BY <1>1, <1>13, <2>2 DEF RunTask, RunsBound
  <2> QED BY <1>1, <1>13, <2>2, <2>3, Zenon DEF TimerInv, TypeOK, RunTask
<1>14. CASE Tick
  <2>1. due' \in [TimerEvents -> Nat] /\ armed' \in Nat /\ readable' \in BOOLEAN
    BY <1>1, <1>14 DEF Tick
  <2> QED BY <1>1, <1>14, <2>1, Zenon DEF TimerInv, TypeOK, Tick
<1>15. CASE UNCHANGED vars
  BY <1>1, <1>15, Zenon DEF TimerInv, TypeOK
<1> QED
  BY <1>5, <1>6, <1>7, <1>8, <1>9, <1>10, <1>11, <1>12, <1>13, <1>14, <1>15, Zenon
     DEF Next, OnTimer, Reset

LEMMA TimerInvariant == Spec => []TimerInv
<1>1. Init => TimerInv
  <2> SUFFICES ASSUME Init PROVE TimerInv
    OBVIOUS
  <2>1. TypeOK
    <3>1. << >> \in Seq(TimerEvents)
      BY EmptySeq, Zenon
    <3>2. /\ due \in [TimerEvents -> Nat] /\ m_is_cancel \in [TimerEvents -> BOOLEAN]
          /\ armed \in Nat
      BY DEF Init
    <3>3. pc \in [Threads -> PCs] /\ ret \in [Threads -> {"idle", "readd", "run"}]
      BY DEF Init, PCs
    <3>4. snap \in [Threads -> TimerEvents \cup {None}] /\ runs \in [TimerEvents -> 0..RunsBound]
      BY DEF Init, RunsBound
    <3> QED BY <3>1, <3>2, <3>3, <3>4 DEF Init, TypeOK
  <2>2. \A t \in Threads : pc[t] # "settime"
    BY DEF Init
  <2> QED BY <2>1, <2>2, Zenon DEF TimerInv
<1>2. TimerInv /\ [Next]_vars => TimerInv'
  BY TimerStep
<1> QED BY <1>1, <1>2, PTL DEF Spec

(* The variables of the timer have their types.                            *)
THEOREM TimerTypes == Spec => []TypeOK
<1>1. TimerInv => TypeOK
  BY Zenon DEF TimerInv
<1> QED BY <1>1, TimerInvariant, PTL

-----------------------------------------------------------------------------
(* A waiting event is never forgotten.                                     *)

LEMMA ForgottenStep ==
  ASSUME TimerInv, NoEventForgotten, [Next]_vars
  PROVE  NoEventForgotten'
<1>1. /\ m_pending_events \in Seq(TimerEvents) /\ due \in [TimerEvents -> Nat]
      /\ armed \in Nat /\ readable \in BOOLEAN /\ pc \in [Threads -> PCs]
      /\ snap \in [Threads -> TimerEvents \cup {None}]
      /\ \A t \in Threads : pc[t] = "settime" => snap[t] \in TimerEvents
  BY Zenon DEF TimerInv, TypeOK
<1>2. Loop \in Threads
  BY DEF Threads
<1>3. ASSUME NEW t \in Threads, \E l \in {"reset", "settime"} : pc' = [pc EXCEPT ![t] = l]
      PROVE  NoEventForgotten'
  <2>1. pc'[t] \in {"reset", "settime"}
    BY <1>1, <1>3
  <2> QED BY <2>1, Zenon DEF NoEventForgotten
<1>4. ASSUME \E l \in {"drain", "collect", "readd", "aborted"} : pc' = [pc EXCEPT ![Loop] = l]
      PROVE  NoEventForgotten'
  <2>1. pc'[Loop] \in {"drain", "collect", "readd", "aborted"}
    BY <1>1, <1>2, <1>4
  <2> QED BY <2>1, Zenon DEF NoEventForgotten
<1>5. ASSUME m_pending_events' = m_pending_events, armed' = armed, readable' = readable,
             pc' = pc
      PROVE  NoEventForgotten'
  BY <1>5, Zenon DEF NoEventForgotten
<1>6. ASSUME NEW t \in Threads, NEW e \in TimerEvents,
             NEW caller \in {"idle", "readd", "run"}, Insert(t, e, caller)
      PROVE  \/ pc' = [pc EXCEPT ![t] = "reset"]
             \/ pc' = [pc EXCEPT ![t] = caller] /\ m_pending_events # << >>
  <2>1. TypeOK
    BY Zenon DEF TimerInv
  <2> QED BY <1>6, <2>1, InsertDoes
<1>7. ASSUME NEW t \in Threads, NEW e \in TimerEvents, AddTimeEvent(t, e)
      PROVE  NoEventForgotten'
  <2>1. /\ pc[t] \in {"idle", "readd", "run"} /\ Insert(t, e, pc[t])
        /\ armed' = armed /\ readable' = readable
    BY <1>7, Zenon DEF AddTimeEvent
  <2>2. \/ pc' = [pc EXCEPT ![t] = "reset"]
        \/ pc' = [pc EXCEPT ![t] = pc[t]] /\ m_pending_events # << >>
    BY <1>6, <2>1
  <2>3. CASE pc' = [pc EXCEPT ![t] = "reset"]
    BY <1>3, <2>3
  <2>4. CASE pc' = [pc EXCEPT ![t] = pc[t]] /\ m_pending_events # << >>
    <3>1. pc' = pc
      BY <1>1, <2>4
    <3> QED BY <2>1, <2>4, <3>1, Zenon DEF NoEventForgotten
  <2> QED BY <2>2, <2>3, <2>4
<1>8. CASE ReAdd
  <2>1. temp # << >> /\ Insert(Loop, Head(temp), "readd")
    BY <1>8, Zenon DEF ReAdd
  <2>2. temp \in Seq(TimerEvents)
    BY Zenon DEF TimerInv, TypeOK
  <2>3. Head(temp) \in TimerEvents
    BY <2>1, <2>2
  <2>4. \/ pc' = [pc EXCEPT ![Loop] = "reset"] \/ pc' = [pc EXCEPT ![Loop] = "readd"]
    BY <1>2, <1>6, <2>1, <2>3
  <2> QED BY <1>2, <1>3, <1>4, <2>4
<1>9. ASSUME NEW t \in Threads, ResetSnapshot(t) PROVE NoEventForgotten'
  <2>1. CASE m_pending_events = << >>
    BY <1>9, <2>1, Zenon DEF ResetSnapshot, NoEventForgotten
  <2>2. CASE m_pending_events # << >>
    <3>1. pc' = [pc EXCEPT ![t] = "settime"]
      BY <1>9, <2>2, Zenon DEF ResetSnapshot, Goto
    <3> QED BY <1>3, <3>1
  <2> QED BY <2>1, <2>2
<1>10. ASSUME NEW t \in Threads, SetTime(t) PROVE NoEventForgotten'
  <2>1. due[snap[t]] \in Nat
    BY <1>1, <1>10 DEF SetTime
  <2>2. armed' > 0
    BY <1>10, <2>1, GraceAssumption DEF SetTime
  <2> QED BY <2>2, Zenon DEF NoEventForgotten
<1>11. ASSUME NEW t \in Threads, NEW e \in TimerEvents, SetCancel(t, e)
       PROVE  NoEventForgotten'
  BY <1>5, <1>11, Zenon DEF SetCancel
<1>12. ASSUME NEW t \in Threads, NEW e \in TimerEvents, DeleteTimeEvent(t, e)
       PROVE  NoEventForgotten'
  <2>1. pc'[Loop] = "aborted"
    BY <1>2, <1>12 DEF DeleteTimeEvent
  <2> QED BY <2>1, Zenon DEF NoEventForgotten
<1>13. CASE TimerFdReported \/ OnTimerDrain \/ OnTimerCollect
  BY <1>4, <1>13, Zenon DEF TimerFdReported, OnTimerDrain, OnTimerCollect, Goto
<1>14. CASE ReAddDone
  BY <1>2, <1>3, <1>14, Zenon DEF ReAddDone, Goto
<1>15. CASE RunTask
  BY <1>5, <1>15, Zenon DEF RunTask
<1>16. CASE OnTimerDone
  <2>1. /\ pc[Loop] = "run" /\ pc' = [pc EXCEPT ![Loop] = "idle"]
        /\ armed' = armed /\ readable' = readable /\ m_pending_events' = m_pending_events
    BY <1>16, Zenon DEF OnTimerDone, Goto
  <2>2. \A t \in Threads : pc[t] \in {"reset", "settime"} => pc'[t] = pc[t]
    BY <1>1, <2>1
  <2>3. ~(pc[Loop] \in {"drain", "collect", "readd", "aborted"})
    BY <2>1
  <2> QED BY <2>1, <2>2, <2>3, Zenon DEF NoEventForgotten
<1>17. CASE Tick
  <2>1. armed > 0 => armed' > 0 \/ readable'
    <3>1. armed = 1 => readable'
      BY <1>17, Zenon DEF Tick
    <3>2. armed > 0 => armed' = armed - 1
      BY <1>17 DEF Tick
    <3> QED BY <1>1, <3>1, <3>2
  <2>2. readable => readable'
    BY <1>17, Zenon DEF Tick
  <2>3. m_pending_events' = m_pending_events /\ pc' = pc
    BY <1>17, Zenon DEF Tick
  <2> QED BY <2>1, <2>2, <2>3, Zenon DEF NoEventForgotten
<1>18. CASE UNCHANGED vars
  BY <1>5, <1>18, Zenon
<1> QED
  BY <1>7, <1>8, <1>9, <1>10, <1>11, <1>12, <1>13, <1>14, <1>15, <1>16, <1>17, <1>18,
     Zenon DEF Next, OnTimer, Reset

(* While an event waits the timerfd is armed or has expired, or a thread   *)
(* is on its way to set it: in every interleaving of add_time_event and    *)
(* on_timer with the unlocked half of reset_arrive_time.                   *)
THEOREM WaitingEventIsWatched == Spec => []NoEventForgotten
<1>1. Init => NoEventForgotten
  BY Zenon DEF Init, NoEventForgotten
<1>2. TimerInv /\ NoEventForgotten /\ [Next]_vars => NoEventForgotten'
  BY ForgottenStep, Zenon
<1> QED BY <1>1, <1>2, TimerInvariant, PTL DEF Spec

-----------------------------------------------------------------------------
(* Cancelling.                                                             *)
CancelInv == CancelIsFinal /\ \A e \in revoked : m_is_cancel[e]

LEMMA CancelStep ==
  ASSUME TimerInv, CancelInv, [Next]_vars
  PROVE  CancelInv'
<1>1. /\ m_is_cancel \in [TimerEvents -> BOOLEAN] /\ revoked \in SUBSET TimerEvents
      /\ tasks \in Seq(TimerEvents) /\ TypeOK
  BY Zenon DEF TimerInv, TypeOK
<1>2. revoked \cap Elems(tasks) = {} /\ \A e \in revoked : m_is_cancel[e]
  BY Zenon DEF CancelInv, CancelIsFinal
<1>3. ASSUME tasks' = tasks, revoked' = revoked, m_is_cancel' = m_is_cancel
      PROVE  CancelInv'
  BY <1>2, <1>3, Zenon DEF CancelInv, CancelIsFinal
<1>4. ASSUME NEW t \in Threads, NEW e \in TimerEvents, SetCancel(t, e)
      PROVE  CancelInv'
  <2>1. /\ m_is_cancel' = [m_is_cancel EXCEPT ![e] = TRUE] /\ tasks' = tasks
        /\ revoked' = IF e \in Elems(tasks) THEN revoked ELSE revoked \cup {e}
    BY <1>4, Zenon DEF SetCancel
  <2>2. \A x \in revoked' : m_is_cancel'[x]
    BY <1>1, <1>2, <2>1
  <2>3. revoked' \cap Elems(tasks) = {}
    BY <1>2, <2>1
  <2> QED BY <2>1, <2>2, <2>3, Zenon DEF CancelInv, CancelIsFinal
<1>5. ASSUME NEW t \in Threads, NEW e \in TimerEvents, DeleteTimeEvent(t, e)
      PROVE  CancelInv'
  <2>1. /\ m_is_cancel' = [m_is_cancel EXCEPT ![e] = TRUE] /\ tasks' = tasks
        /\ revoked' = revoked
    BY <1>5, Zenon DEF DeleteTimeEvent
  <2>2. \A x \in revoked' : m_is_cancel'[x]
    BY <1>1, <1>2, <2>1
  <2> QED BY <1>2, <2>1, <2>2, Zenon DEF CancelInv, CancelIsFinal
<1>6. CASE OnTimerCollect
  <2>1. tasks' = Live /\ revoked' = revoked /\ m_is_cancel' = m_is_cancel
    BY <1>6, Zenon DEF OnTimerCollect, Live
  <2>2. \A e \in Elems(Live) : ~m_is_cancel[e]
    BY <1>1, CollectDoes, Zenon
  <2>3. revoked' \cap Elems(tasks') = {}
    BY <1>2, <2>1, <2>2
  <2> QED BY <1>2, <2>1, <2>3, Zenon DEF CancelInv, CancelIsFinal
<1>7. CASE RunTask
  <2>1. /\ tasks # << >> /\ tasks' = Tail(tasks) /\ revoked' = revoked
        /\ m_is_cancel' = m_is_cancel
    BY <1>7, Zenon DEF RunTask
  <2>2. Elems(tasks') \subseteq Elems(tasks)
    BY <1>1, <2>1, TailElems
  <2>3. revoked' \cap Elems(tasks') = {}
    BY <1>2, <2>1, <2>2
  <2> QED BY <1>2, <2>1, <2>3, Zenon DEF CancelInv, CancelIsFinal
<1>8. ASSUME NEW t \in Threads, NEW e \in TimerEvents, AddTimeEvent(t, e)
      PROVE  CancelInv'
  BY <1>3, <1>8, Zenon DEF AddTimeEvent
<1>9. ASSUME NEW t \in Threads, Reset(t) PROVE CancelInv'
  BY <1>3, <1>9, Zenon DEF Reset, ResetSnapshot, SetTime
<1>10. CASE TimerFdReported \/ OnTimerDrain \/ ReAdd \/ ReAddDone \/ OnTimerDone
  BY <1>3, <1>10, Zenon DEF TimerFdReported, OnTimerDrain, ReAdd, ReAddDone, OnTimerDone
<1>11. CASE Tick \/ UNCHANGED vars
  BY <1>3, <1>11, Zenon DEF Tick
<1> QED
  BY <1>4, <1>5, <1>6, <1>7, <1>8, <1>9, <1>10, <1>11, Zenon DEF Next, OnTimer

(* An event cancelled before on_timer has collected it is not collected    *)
(* later, though it stays in the multimap until it is due.                 *)
THEOREM CancelledIsNotCollected == Spec => []CancelIsFinal
<1>1. Init => CancelInv
  BY DEF Init, CancelInv, CancelIsFinal
<1>2. TimerInv /\ CancelInv /\ [Next]_vars => CancelInv'
  BY CancelStep, Zenon
<1>3. CancelInv => CancelIsFinal
  BY Zenon DEF CancelInv
<1> QED BY <1>1, <1>2, <1>3, TimerInvariant, PTL DEF Spec

-----------------------------------------------------------------------------
(* One-shot events.                                                        *)

(* An event that does not repeat is in one place at most: in the multimap, *)
(* or among the callbacks to run, and then it has not run yet.             *)
OnceInv ==
  \A e \in TimerEvents \ Repeats :
    /\ Once(m_pending_events, e) /\ Once(tasks, e)
    /\ ~(e \in Elems(m_pending_events) /\ e \in Elems(tasks))
    /\ e \in Elems(m_pending_events) \cup Elems(tasks) => e \in added /\ runs[e] = 0
    /\ e \notin added => runs[e] = 0
    /\ runs[e] <= 1
    /\ e \notin Elems(temp)

LEMMA OnceStep ==
  ASSUME TimerInv, OnceInv, [Next]_vars
  PROVE  OnceInv'
<1> SUFFICES ASSUME NEW x \in TimerEvents \ Repeats
             PROVE  /\ Once(m_pending_events', x) /\ Once(tasks', x)
                    /\ ~(x \in Elems(m_pending_events') /\ x \in Elems(tasks'))
                    /\ x \in Elems(m_pending_events') \cup Elems(tasks')
                         => x \in added' /\ runs'[x] = 0
                    /\ x \notin added' => runs'[x] = 0
                    /\ runs'[x] <= 1
                    /\ x \notin Elems(temp')
  BY Zenon DEF OnceInv
<1> DEFINE Goal == /\ Once(m_pending_events', x) /\ Once(tasks', x)
                   /\ ~(x \in Elems(m_pending_events') /\ x \in Elems(tasks'))
                   /\ x \in Elems(m_pending_events') \cup Elems(tasks')
                        => x \in added' /\ runs'[x] = 0
                   /\ x \notin added' => runs'[x] = 0
                   /\ runs'[x] <= 1
                   /\ x \notin Elems(temp')
<1>1. /\ m_pending_events \in Seq(TimerEvents) /\ tasks \in Seq(TimerEvents)
      /\ temp \in Seq(TimerEvents) /\ runs \in [TimerEvents -> 0..RunsBound] /\ TypeOK
  BY Zenon DEF TimerInv, TypeOK
<1>2. /\ Once(m_pending_events, x) /\ Once(tasks, x)
      /\ ~(x \in Elems(m_pending_events) /\ x \in Elems(tasks))
      /\ x \in Elems(m_pending_events) \cup Elems(tasks) => x \in added /\ runs[x] = 0
      /\ x \notin added => runs[x] = 0
      /\ runs[x] <= 1
      /\ x \notin Elems(temp)
  BY Zenon DEF OnceInv
<1>3. ASSUME m_pending_events' = m_pending_events, tasks' = tasks, temp' = temp,
             added' = added, runs' = runs
      PROVE  Goal
  BY <1>2, <1>3, Zenon
<1>4. ASSUME NEW t \in Threads, NEW e \in TimerEvents,
             NEW caller \in {"idle", "readd", "run"}, Insert(t, e, caller)
      PROVE  /\ Elems(m_pending_events') \subseteq Elems(m_pending_events) \cup {e}
             /\ x # e => Once(m_pending_events', x)
             /\ e \notin Elems(m_pending_events) => Once(m_pending_events', e)
  BY <1>1, <1>2, <1>4, InsertDoes
<1>5. ASSUME NEW t \in Threads, NEW e \in TimerEvents, AddTimeEvent(t, e)
      PROVE  Goal
  <2>1. /\ pc[t] \in {"idle", "readd", "run"} /\ Insert(t, e, pc[t])
        /\ e \notin added /\ added' = added \cup {e}
        /\ tasks' = tasks /\ temp' = temp /\ runs' = runs
    BY <1>5, Zenon DEF AddTimeEvent
  <2>2. /\ Elems(m_pending_events') \subseteq Elems(m_pending_events) \cup {e}
        /\ x # e => Once(m_pending_events', x)
        /\ e \notin Elems(m_pending_events) => Once(m_pending_events', e)
    BY <1>4, <2>1
  <2>3. CASE x = e
    <3>1. e \notin Elems(m_pending_events) /\ e \notin Elems(tasks) /\ runs[e] = 0
      BY <1>2, <2>1, <2>3
    <3> QED BY <1>2, <2>1, <2>2, <2>3, <3>1
  <2>4. CASE x # e
    <3>1. /\ Once(m_pending_events', x)
          /\ x \in Elems(m_pending_events') => x \in Elems(m_pending_events)
          /\ x \in added' <=> x \in added
      BY <2>1, <2>2, <2>4
    <3> QED BY <1>2, <2>1, <3>1, Zenon
  <2> QED BY <2>3, <2>4
<1>6. ASSUME ReAdd PROVE Goal
  <2>1. /\ temp # << >> /\ Insert(Loop, Head(temp), "readd") /\ temp' = Tail(temp)
        /\ added' = added /\ tasks' = tasks /\ runs' = runs
    BY <1>6, Zenon DEF ReAdd
  <2>2. /\ Head(temp) \in TimerEvents /\ Head(temp) \in Elems(temp)
        /\ Elems(temp') \subseteq Elems(temp)
    BY <1>1, <2>1, TailElems
  <2>3. Loop \in Threads
    BY DEF Threads
  <2>4. x # Head(temp)
    BY <1>2, <2>2, Zenon
  <2>5. /\ Once(m_pending_events', x)
        /\ x \in Elems(m_pending_events') => x \in Elems(m_pending_events)
    BY <1>4, <2>1, <2>2, <2>3, <2>4
  <2>6. x \notin Elems(temp')
    BY <1>2, <2>2
  <2> QED BY <1>2, <2>1, <2>5, <2>6, Zenon
<1>7. ASSUME OnTimerCollect PROVE Goal
  <2>1. /\ tasks' = Live /\ temp' = Kept(Live, Repeats) /\ m_pending_events' = Left
        /\ added' = added /\ runs' = runs
    BY <1>7, Zenon DEF OnTimerCollect, Live, Left
  <2>2. /\ Elems(Live) \subseteq Elems(m_pending_events)
        /\ Elems(Left) \subseteq Elems(m_pending_events)
        /\ Elems(Kept(Live, Repeats)) \subseteq Elems(m_pending_events) \cap Repeats
        /\ Once(Live, x) /\ Once(Left, x) /\ ~(x \in Elems(Live) /\ x \in Elems(Left))
    BY <1>1, <1>2, CollectDoes, Zenon
  <2>3. /\ x \notin Elems(temp')
        /\ x \in Elems(m_pending_events') \cup Elems(tasks') => x \in Elems(m_pending_events)
    BY <2>1, <2>2
  <2> QED BY <1>2, <2>1, <2>2, <2>3
<1>8. ASSUME RunTask PROVE Goal
  <2>1. /\ tasks # << >> /\ tasks' = Tail(tasks)
        /\ m_pending_events' = m_pending_events /\ added' = added /\ temp' = temp
        /\ runs' = [runs EXCEPT ![Head(tasks)] = IF @ < RunsBound THEN @ + 1 ELSE @]
    BY <1>8, Zenon DEF RunTask
  <2>2. /\ Head(tasks) \in TimerEvents /\ Head(tasks) \in Elems(tasks)
        /\ Elems(tasks') \subseteq Elems(tasks) /\ Once(tasks', x)
        /\ Once(tasks, Head(tasks)) => Head(tasks) \notin Elems(tasks')
    <3>1. /\ Head(tasks) \in TimerEvents /\ Head(tasks) \in Elems(tasks)
          /\ Elems(Tail(tasks)) \subseteq Elems(tasks)
          /\ \A e : Once(tasks, e) => Once(Tail(tasks), e)
          /\ Once(tasks, Head(tasks)) => Head(tasks) \notin Elems(Tail(tasks))
      BY <1>1, <2>1, TailElems
    <3> QED BY <1>2, <2>1, <3>1, Zenon
  <2>3. CASE x = Head(tasks)
    <3>1. x \notin Elems(tasks') /\ x \notin Elems(m_pending_events) /\ x \in added
          /\ runs[x] = 0
      BY <1>2, <2>2, <2>3, Zenon
    <3>2. runs'[x] <= 1
      BY <1>1, <2>1, <2>3, <3>1 DEF RunsBound
    <3> QED BY <1>2, <2>1, <2>2, <3>1, <3>2
  <2>4. CASE x # Head(tasks)
    <3>1. runs'[x] = runs[x]
      BY <1>1, <2>1, <2>4
    <3>2. x \in Elems(tasks') => x \in Elems(tasks)
      BY <2>2
    <3> QED BY <1>2, <2>1, <2>2, <3>1, <3>2
  <2> QED BY <2>3, <2>4
<1>9. ASSUME NEW t \in Threads, NEW e \in TimerEvents, DeleteTimeEvent(t, e)
      PROVE  Goal
  <2>1. /\ m_pending_events' = Kept(m_pending_events, TimerEvents \ {e})
        /\ tasks' = tasks /\ temp' = temp /\ added' = added /\ runs' = runs
    BY <1>9, Zenon DEF DeleteTimeEvent
  <2>2. /\ Elems(m_pending_events') \subseteq Elems(m_pending_events)
        /\ Once(m_pending_events', x)
    BY <1>1, <1>2, <2>1, KeptElems
  <2>3. x \in Elems(m_pending_events') => x \in Elems(m_pending_events)
    BY <2>2
  <2> QED BY <1>2, <2>1, <2>2, <2>3, Zenon
<1>10. ASSUME NEW t \in Threads, Reset(t) PROVE Goal
  <2>1. /\ m_pending_events' = m_pending_events /\ tasks' = tasks /\ temp' = temp
        /\ added' = added /\ runs' = runs
    BY <1>10, Zenon DEF Reset, ResetSnapshot, SetTime
  <2> QED BY <1>3, <2>1
<1>11. ASSUME NEW t \in Threads, NEW e \in TimerEvents, SetCancel(t, e) PROVE Goal
  <2>1. /\ m_pending_events' = m_pending_events /\ tasks' = tasks /\ temp' = temp
        /\ added' = added /\ runs' = runs
    BY <1>11, Zenon DEF SetCancel
  <2> QED BY <1>3, <2>1
<1>12. ASSUME \/ TimerFdReported \/ OnTimerDrain \/ ReAddDone \/ OnTimerDone
              \/ Tick \/ UNCHANGED vars
       PROVE  Goal
  <2>1. /\ m_pending_events' = m_pending_events /\ tasks' = tasks /\ temp' = temp
        /\ added' = added /\ runs' = runs
    BY <1>12, Zenon DEF TimerFdReported, OnTimerDrain, ReAddDone, OnTimerDone, Tick
  <2> QED BY <1>3, <2>1, Zenon
<1> HIDE DEF Goal
<1>13. Goal
  BY <1>5, <1>6, <1>7, <1>8, <1>9, <1>10, <1>11, <1>12, Zenon DEF Next, OnTimer
<1> QED BY <1>13 DEF Goal

(* The callback of an event without m_is_repeat runs once at most: the     *)
(* event is erased under the lock by the on_timer that collects it.        *)
THEOREM OneShotsRunOnce == Spec => []OneShotRunsOnce
<1>1. Init => OnceInv
  <2> SUFFICES ASSUME Init PROVE OnceInv
    OBVIOUS
  <2>1. Len(<< >>) = 0 /\ Elems(<< >>) = {}
    BY DEF Elems
  <2>2. \A e : Once(<< >>, e)
    BY DEF Once
  <2>3. \A e \in TimerEvents : runs[e] = 0 /\ runs[e] <= 1
    BY DEF Init
  <2> QED BY <2>1, <2>2, <2>3 DEF Init, OnceInv
<1>2. TimerInv /\ OnceInv /\ [Next]_vars => OnceInv'
  BY OnceStep, Zenon
<1>3. OnceInv => OneShotRunsOnce
  BY Zenon DEF OnceInv, OneShotRunsOnce
<1> QED BY <1>1, <1>2, <1>3, TimerInvariant, PTL DEF Spec

-----------------------------------------------------------------------------
(* The deadline of the timerfd.                                            *)

(* Only events that were added wait, so add_time_event never moves the     *)
(* arrive time of an event that is in the multimap.                        *)
AddedInv == Elems(m_pending_events) \cup Elems(temp) \subseteq added

LEMMA AddedStep ==
  ASSUME TimerInv, AddedInv, [Next]_vars
  PROVE  AddedInv'
<1>1. m_pending_events \in Seq(TimerEvents) /\ temp \in Seq(TimerEvents) /\ TypeOK
  BY Zenon DEF TimerInv, TypeOK
<1>2. ASSUME m_pending_events' = m_pending_events, temp' = temp, added' = added
      PROVE  AddedInv'
  BY <1>2, Zenon DEF AddedInv
<1>3. ASSUME NEW t \in Threads, NEW e \in TimerEvents,
             NEW caller \in {"idle", "readd", "run"}, Insert(t, e, caller)
      PROVE  Elems(m_pending_events') \subseteq Elems(m_pending_events) \cup {e}
  BY <1>1, <1>3, InsertDoes
<1>4. ASSUME NEW t \in Threads, NEW e \in TimerEvents, AddTimeEvent(t, e)
      PROVE  AddedInv'
  <2>1. /\ pc[t] \in {"idle", "readd", "run"} /\ Insert(t, e, pc[t])
        /\ added' = added \cup {e} /\ temp' = temp
    BY <1>4, Zenon DEF AddTimeEvent
  <2>2. Elems(m_pending_events') \subseteq Elems(m_pending_events) \cup {e}
    BY <1>3, <2>1
  <2> QED BY <2>1, <2>2 DEF AddedInv
<1>5. CASE ReAdd
  <2>1. /\ temp # << >> /\ Insert(Loop, Head(temp), "readd") /\ temp' = Tail(temp)
        /\ added' = added
    BY <1>5, Zenon DEF ReAdd
  <2>2. /\ Head(temp) \in TimerEvents /\ Head(temp) \in Elems(temp)
        /\ Elems(temp') \subseteq Elems(temp)
    BY <1>1, <2>1, TailElems
  <2>3. Elems(m_pending_events') \subseteq Elems(m_pending_events) \cup {Head(temp)}
    BY <1>3, <2>1, <2>2 DEF Threads
  <2> QED BY <2>1, <2>2, <2>3 DEF AddedInv
<1>6. CASE OnTimerCollect
  <2>1. /\ temp' = Kept(Live, Repeats) /\ m_pending_events' = Left /\ added' = added
    BY <1>6, Zenon DEF OnTimerCollect, Live, Left
  <2>2. /\ Elems(Left) \subseteq Elems(m_pending_events)
        /\ Elems(Kept(Live, Repeats)) \subseteq Elems(m_pending_events)
    BY <1>1, CollectDoes
  <2> QED BY <2>1, <2>2 DEF AddedInv
<1>7. ASSUME NEW t \in Threads, NEW e \in TimerEvents, DeleteTimeEvent(t, e)
      PROVE  AddedInv'
  <2>1. /\ m_pending_events' = Kept(m_pending_events, TimerEvents \ {e})
        /\ temp' = temp /\ added' = added
    BY <1>7, Zenon DEF DeleteTimeEvent
  <2>2. Elems(m_pending_events') \subseteq Elems(m_pending_events)
    BY <1>1, <2>1, KeptElems
  <2> QED BY <2>1, <2>2 DEF AddedInv
<1>8. ASSUME NEW t \in Threads, NEW e \in TimerEvents, SetCancel(t, e) PROVE AddedInv'
  BY <1>2, <1>8, Zenon DEF SetCancel
<1>9. ASSUME NEW t \in Threads, Reset(t) PROVE AddedInv'
  BY <1>2, <1>9, Zenon DEF Reset, ResetSnapshot, SetTime
<1>10. CASE TimerFdReported \/ OnTimerDrain \/ ReAddDone \/ RunTask \/ OnTimerDone
  BY <1>2, <1>10, Zenon DEF TimerFdReported, OnTimerDrain, ReAddDone, RunTask, OnTimerDone
<1>11. CASE Tick \/ UNCHANGED vars
  BY <1>2, <1>11, Zenon DEF Tick
<1> QED
  BY <1>4, <1>5, <1>6, <1>7, <1>8, <1>9, <1>10, <1>11, Zenon DEF Next, OnTimer

LEMMA DeadlineStep ==
  ASSUME TimerInv, AddedInv, ArmedForEarliestOfCopy, [Next]_vars
  PROVE  ArmedForEarliestOfCopy'
<1>1. /\ m_pending_events \in Seq(TimerEvents) /\ due \in [TimerEvents -> Nat]
      /\ armed \in Nat /\ pc \in [Threads -> PCs] /\ TypeOK
      /\ \A t \in Threads : pc[t] = "settime" => snap[t] \in TimerEvents
  BY Zenon DEF TimerInv, TypeOK
<1>2. Loop \in Threads /\ Threads = Others \cup {Loop}
  BY DEF Threads
(* A thread that is inside the timer.                                      *)
<1>3. ASSUME NEW t \in Threads, \E l \in {"reset", "settime"} : pc' = [pc EXCEPT ![t] = l]
      PROVE  ArmedForEarliestOfCopy'
  <2>1. pc'[t] \in {"reset", "settime"} /\ (t = Loop \/ t \in Others)
    BY <1>1, <1>2, <1>3
  <2>2. ~Quiet'
    BY <2>1 DEF Quiet
  <2> QED BY <2>2, Zenon DEF ArmedForEarliestOfCopy
<1>4. ASSUME \E l \in {"drain", "collect", "readd", "aborted"} : pc'[Loop] = l
      PROVE  ArmedForEarliestOfCopy'
  <2>1. ~Quiet'
    BY <1>4 DEF Quiet
  <2> QED BY <2>1, Zenon DEF ArmedForEarliestOfCopy
<1>5. ASSUME m_pending_events' = m_pending_events, due' = due, armed' = armed,
             readable' = readable, stale' = stale, Quiet' => Quiet
      PROVE  ArmedForEarliestOfCopy'
  BY <1>5, Zenon DEF ArmedForEarliestOfCopy, ArmedForFirst
<1>6. ASSUME NEW t \in Threads, NEW e \in TimerEvents,
             NEW caller \in {"idle", "readd", "run"}, Insert(t, e, caller)
      PROVE  /\ due' = [due EXCEPT ![e] = Interval[e]]
             /\ \/ pc' = [pc EXCEPT ![t] = "reset"]
                \/ /\ pc' = [pc EXCEPT ![t] = caller]
                   /\ m_pending_events # << >>
                   /\ Head(m_pending_events') = Head(m_pending_events)
  BY <1>1, <1>6, InsertDoes
<1>7. ASSUME NEW t \in Threads, NEW e \in TimerEvents, AddTimeEvent(t, e)
      PROVE  ArmedForEarliestOfCopy'
  <2>1. /\ pc[t] \in {"idle", "readd", "run"} /\ Insert(t, e, pc[t]) /\ e \notin added
        /\ armed' = armed /\ readable' = readable /\ stale' = stale
    BY <1>7, Zenon DEF AddTimeEvent
  <2>2. /\ due' = [due EXCEPT ![e] = Interval[e]]
        /\ \/ pc' = [pc EXCEPT ![t] = "reset"]
           \/ /\ pc' = [pc EXCEPT ![t] = pc[t]]
              /\ m_pending_events # << >>
              /\ Head(m_pending_events') = Head(m_pending_events)
    BY <1>6, <2>1
  <2>3. CASE pc' = [pc EXCEPT ![t] = "reset"]
    BY <1>3, <2>3
  <2>4. CASE /\ pc' = [pc EXCEPT ![t] = pc[t]] /\ m_pending_events # << >>
             /\ Head(m_pending_events') = Head(m_pending_events)
    <3>1. pc' = pc
      BY <1>1, <2>4
    <3>2. Quiet' <=> Quiet
      BY <3>1, Zenon DEF Quiet
    <3>3. Head(m_pending_events) \in TimerEvents /\ Head(m_pending_events) \in Elems(m_pending_events)
      BY <1>1, <2>4, TailElems
    <3>4. Head(m_pending_events) # e
      BY <2>1, <3>3 DEF AddedInv
    <3>5. due'[Head(m_pending_events')] = due[Head(m_pending_events)]
      BY <1>1, <2>2, <2>4, <3>3, <3>4
    <3> QED BY <2>1, <2>4, <3>2, <3>5, Zenon DEF ArmedForEarliestOfCopy, ArmedForFirst
  <2> QED BY <2>2, <2>3, <2>4
<1>8. CASE ReAdd
  <2>1. temp # << >> /\ Insert(Loop, Head(temp), "readd")
    BY <1>8, Zenon DEF ReAdd
  <2>2. temp \in Seq(TimerEvents)
    BY Zenon DEF TimerInv, TypeOK
  <2>3. Head(temp) \in TimerEvents
    BY <2>1, <2>2
  <2>4. \/ pc' = [pc EXCEPT ![Loop] = "reset"] \/ pc' = [pc EXCEPT ![Loop] = "readd"]
    BY <1>2, <1>6, <2>1, <2>3
  <2>5. CASE pc' = [pc EXCEPT ![Loop] = "reset"]
    BY <1>2, <1>3, <2>5
  <2>6. CASE pc' = [pc EXCEPT ![Loop] = "readd"]
    <3>1. pc'[Loop] = "readd"
      BY <1>1, <1>2, <2>6
    <3> QED BY <1>4, <3>1
  <2> QED BY <2>4, <2>5, <2>6
<1>9. ASSUME NEW t \in Threads, ResetSnapshot(t) PROVE ArmedForEarliestOfCopy'
  <2>1. CASE m_pending_events = << >>
    BY <1>9, <2>1, Zenon DEF ResetSnapshot, ArmedForEarliestOfCopy
  <2>2. CASE m_pending_events # << >>
    <3>1. pc' = [pc EXCEPT ![t] = "settime"]
      BY <1>9, <2>2, Zenon DEF ResetSnapshot, Goto
    <3> QED BY <1>3, <3>1
  <2> QED BY <2>1, <2>2
<1>10. ASSUME NEW t \in Threads, SetTime(t) PROVE ArmedForEarliestOfCopy'
  <2> SUFFICES ASSUME m_pending_events # << >>, ~stale' PROVE ArmedForFirst'
    BY <1>10, Zenon DEF SetTime, ArmedForEarliestOfCopy
  <2>1. /\ pc[t] = "settime" /\ m_pending_events' = m_pending_events /\ due' = due
        /\ armed' = IF due[snap[t]] > 0 THEN due[snap[t]] ELSE Grace
    BY <1>10, Zenon DEF SetTime
  <2>2. ~(\A i \in DOMAIN m_pending_events : i = 1 => m_pending_events[i] # snap[t])
    BY <1>10, Zenon DEF SetTime
  <2>3. Head(m_pending_events) = m_pending_events[1]
    BY <1>1
  <2>4. snap[t] = Head(m_pending_events)
    BY <2>2, <2>3, Zenon
  <2>5. due[snap[t]] \in Nat
    BY <1>1, <2>1
  <2>6. /\ armed' > 0
        /\ \/ armed' <= due[snap[t]]
           \/ due[snap[t]] = 0 /\ armed' <= Grace
    BY <2>1, <2>5, GraceAssumption
  <2> QED BY <2>1, <2>4, <2>6, Zenon DEF ArmedForFirst
<1>11. ASSUME NEW t \in Threads, NEW e \in TimerEvents, SetCancel(t, e)
       PROVE  ArmedForEarliestOfCopy'
  <2>1. /\ m_pending_events' = m_pending_events /\ due' = due /\ armed' = armed
        /\ readable' = readable /\ stale' = stale /\ pc' = pc
    BY <1>11, Zenon DEF SetCancel
  <2> QED BY <1>5, <2>1, Zenon DEF Quiet
<1>12. ASSUME NEW t \in Threads, NEW e \in TimerEvents, DeleteTimeEvent(t, e)
       PROVE  ArmedForEarliestOfCopy'
  <2>1. pc'[Loop] = "aborted"
    BY <1>2, <1>12 DEF DeleteTimeEvent
  <2> QED BY <1>4, <2>1
<1>13. CASE TimerFdReported \/ OnTimerDrain \/ OnTimerCollect
  <2>1. \E l \in {"drain", "collect", "readd"} : pc' = [pc EXCEPT ![Loop] = l]
    BY <1>13, Zenon DEF TimerFdReported, OnTimerDrain, OnTimerCollect, Goto
  <2>2. \E l \in {"drain", "collect", "readd"} : pc'[Loop] = l
    BY <1>1, <1>2, <2>1
  <2> QED BY <1>4, <2>2
<1>14. CASE ReAddDone
  BY <1>2, <1>3, <1>14, Zenon DEF ReAddDone, Goto
<1>15. CASE RunTask
  <2>1. /\ m_pending_events' = m_pending_events /\ due' = due /\ armed' = armed
        /\ readable' = readable /\ stale' = stale /\ pc' = pc
    BY <1>15, Zenon DEF RunTask
  <2> QED BY <1>5, <2>1, Zenon DEF Quiet
<1>16. CASE OnTimerDone
  <2>1. /\ pc[Loop] = "run" /\ pc' = [pc EXCEPT ![Loop] = "idle"]
        /\ m_pending_events' = m_pending_events /\ due' = due /\ armed' = armed
        /\ readable' = readable /\ stale' = stale
    BY <1>16, Zenon DEF OnTimerDone, Goto
  <2>2. \A t \in Others : pc'[t] = pc[t]
    <3>1. \A t \in Others : t # Loop /\ t \in Threads
      BY LoopAssumption DEF Threads
    <3> QED BY <1>1, <2>1, <3>1
  <2>3. Quiet' => Quiet
    BY <2>1, <2>2 DEF Quiet
  <2> QED BY <1>5, <2>1, <2>3
<1>17. CASE Tick
  <2>1. m_pending_events' = m_pending_events /\ pc' = pc /\ stale' = stale
    BY <1>17, Zenon DEF Tick
  <2> SUFFICES ASSUME m_pending_events # << >>, Quiet, ~stale PROVE ArmedForFirst'
    BY <2>1, Zenon DEF ArmedForEarliestOfCopy, Quiet
  <2> DEFINE first == due[Head(m_pending_events)]
  <2>2. readable \/ (armed > 0 /\ (armed <= first \/ (first = 0 /\ armed <= Grace)))
    BY Zenon DEF ArmedForEarliestOfCopy, ArmedForFirst
  <2>3. Head(m_pending_events) \in TimerEvents
    BY <1>1
  <2>4. due'[Head(m_pending_events)] = IF first > 0 THEN first - 1 ELSE 0
    BY <1>17, <2>3 DEF Tick
  <2>5. first \in Nat
    BY <1>1, <2>3
  <2>6. (readable => readable') /\ (armed = 1 => readable')
    BY <1>17, Zenon DEF Tick
  <2>7. armed > 0 => armed' = armed - 1
    BY <1>17 DEF Tick
  <2> DEFINE next == due'[Head(m_pending_events)]
  <2> HIDE DEF first, next
  <2>8. \/ readable'
        \/ /\ armed' > 0
           /\ armed' <= next \/ (next = 0 /\ armed' <= Grace)
    <3>1. next = IF first > 0 THEN first - 1 ELSE 0
      BY <2>4 DEF next, first
    <3> QED BY <1>1, <2>2, <2>5, <2>6, <2>7, <3>1, GraceAssumption
  <2> QED BY <2>1, <2>8, Zenon DEF ArmedForFirst, next
<1>18. CASE UNCHANGED vars
  BY <1>5, <1>18, Zenon DEF Quiet
<1> QED
  BY <1>7, <1>8, <1>9, <1>10, <1>11, <1>12, <1>13, <1>14, <1>15, <1>16, <1>17, <1>18,
     Zenon DEF Next, OnTimer, Reset

(* Whenever no thread is inside the timer, the timerfd is set for the      *)
(* first event of the multimap, unless it was last set from a copy of the  *)
(* multimap that was already outdated.                                     *)
THEOREM DeadlineIsFirst == Spec => []ArmedForEarliestOfCopy
<1>1. Init => AddedInv /\ ArmedForEarliestOfCopy
  BY DEF Init, AddedInv, ArmedForEarliestOfCopy, Elems
<1>2. TimerInv /\ AddedInv /\ [Next]_vars => AddedInv'
  BY AddedStep, Zenon
<1>3. TimerInv /\ AddedInv /\ ArmedForEarliestOfCopy /\ [Next]_vars => ArmedForEarliestOfCopy'
  BY DeadlineStep, Zenon
<1> QED BY <1>1, <1>2, <1>3, TimerInvariant, PTL DEF Spec
=============================================================================
