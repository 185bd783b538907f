------------------------- MODULE TcpConnectionProofs -------------------------
(* Proofs of the safety properties of TcpConnection for any number of      *)
(* messages and any links.                                                 *)
EXTENDS TcpConnection, Integers, SequenceTheorems, TLAPS

USE DEF vars, clientVars, readVars, faultVars

-----------------------------------------------------------------------------
(* The invariants.                                                         *)

(* The server's end: nothing is queued, nothing runs and nothing listens   *)
(* before the registration has run, which it has once the connection has   *)
(* closed; and only a connected end is inside a handler.                   *)
QuietInv ==
  /\ pc["server"] # "loop" => m_state["server"] = "Connected"
  /\ posted => m_listen_events["server"] = {}
  /\ m_state["server"] = "Closed" => ~posted
  /\ m_state["server"] # "Closed" =>
       \/ "IN" \in m_listen_events["server"]
       \/ /\ m_listen_events["server"] = {} /\ tasks["server"] = {}
          /\ pc["server"] = "loop"

(* The client's out buffer holds the messages 1, 2, ... in this order, and *)
(* the ones not yet encoded follow; nothing is ever taken out of it.       *)
NumberInv ==
  /\ \A i \in 1..Len(m_out_buffer["client"]) : m_out_buffer["client"][i] = i
  /\ IF pc["client"] = "write"
       THEN Len(m_out_buffer["client"]) = given
       ELSE /\ Len(m_out_buffer["client"]) + Len(m_write_dones) = given
            /\ \A i \in 1..Len(m_write_dones) :
                 m_write_dones[i] = Len(m_out_buffer["client"]) + i

Elems(q) == {q[i] : i \in 1..Len(q)}

HalvesOf(D) == [msg : D, part : Parts]
MessagesOf(D) == [msg : D, data : D]

(* The buffers, the decoded messages and the network know only messages    *)
(* of the set D.                                                           *)
Within(D, ins, res, nets, outs) ==
  /\ ins \in [Sides -> Seq(HalvesOf(D))]
  /\ res \in [Sides -> Seq(MessagesOf(D))]
  /\ nets \in [Sides -> Seq(HalvesOf(D))]
  /\ outs \in [Sides -> Seq(D)]

(* Whatever is under way was once encoded by the client, and what the      *)
(* client has encoded has a callback, or is about to get one from the      *)
(* on_write that has begun.                                                *)
Known == Elems(m_out_buffer["client"])
CallbackInv ==
  /\ Within(Known, m_in_buffer, result, net, m_out_buffer)
  /\ Known \subseteq m_read_dones \cup
       (IF pc["client"] = "write" THEN Elems(m_write_dones) ELSE {})
  /\ NoReplyDropped

-----------------------------------------------------------------------------
(* Sequences.                                                              *)

LEMMA ElemsConcat ==
  ASSUME NEW S, NEW p \in Seq(S), NEW q \in Seq(S)
  PROVE  p \o q \in Seq(S) /\ Elems(p \o q) = Elems(p) \cup Elems(q)
<1>1. /\ p \o q \in Seq(S) /\ Len(p \o q) = Len(p) + Len(q)
      /\ \A i \in 1..(Len(p) + Len(q)) :
           (p \o q)[i] = IF i <= Len(p) THEN p[i] ELSE q[i - Len(p)]
  BY ConcatProperties
<1>2. \A i \in 1..Len(p) : (p \o q)[i] = p[i] /\ i \in 1..Len(p \o q)
  BY <1>1
<1>3. \A i \in 1..Len(q) : /\ (p \o q)[Len(p) + i] = q[i]
                           /\ Len(p) + i \in 1..Len(p \o q)
  BY <1>1
<1>4. \A i \in 1..Len(p \o q) :
        \/ i \in 1..Len(p) /\ (p \o q)[i] = p[i]
        \/ i - Len(p) \in 1..Len(q) /\ (p \o q)[i] = q[i - Len(p)]
  BY <1>1
<1>5. ASSUME NEW x \in Elems(p \o q) PROVE x \in Elems(p) \cup Elems(q)
  BY <1>4 DEF Elems
<1>6. ASSUME NEW x \in Elems(p) \cup Elems(q) PROVE x \in Elems(p \o q)
  BY <1>2, <1>3 DEF Elems
<1> QED BY <1>1, <1>5, <1>6

(* What a cut of a sequence holds.                                         *)
LEMMA Cut ==
  ASSUME NEW S, NEW q \in Seq(S), NEW k \in 0..Len(q)
  PROVE  /\ SubSeq(q, 1, k) \in Seq(S) /\ Len(SubSeq(q, 1, k)) = k
         /\ \A i \in 1..k : SubSeq(q, 1, k)[i] = q[i]
         /\ SubSeq(q, k + 1, Len(q)) \in Seq(S)
         /\ Len(SubSeq(q, k + 1, Len(q))) = Len(q) - k
         /\ \A i \in 1..(Len(q) - k) : SubSeq(q, k + 1, Len(q))[i] = q[k + i]
<1>1. k \in Int /\ Len(q) \in Nat
  OBVIOUS
<1>2. \A i \in 1..k : q[i] \in S
  OBVIOUS
<1>3. \A i \in (k + 1)..Len(q) : q[i] \in S
  OBVIOUS
<1>4. /\ SubSeq(q, 1, k) \in Seq(S) /\ Len(SubSeq(q, 1, k)) = k
      /\ \A i \in 1..k : SubSeq(q, 1, k)[i] = q[i]
  BY <1>1, <1>2, SubSeqProperties
<1>5. /\ SubSeq(q, k + 1, Len(q)) \in Seq(S)
      /\ Len(SubSeq(q, k + 1, Len(q))) = Len(q) - k
      /\ \A i \in 1..(Len(q) - k) : SubSeq(q, k + 1, Len(q))[i] = q[k + i]
  BY <1>1, <1>3, SubSeqProperties
<1> QED BY <1>4, <1>5

LEMMA CutJoins ==
  ASSUME NEW S, NEW q \in Seq(S), NEW k \in 0..Len(q)
  PROVE  SubSeq(q, 1, k) \o SubSeq(q, k + 1, Len(q)) = q
<1> DEFINE a == SubSeq(q, 1, k)
           b == SubSeq(q, k + 1, Len(q))
<1>1. /\ a \in Seq(S) /\ Len(a) = k /\ \A i \in 1..k : a[i] = q[i]
      /\ b \in Seq(S) /\ Len(b) = Len(q) - k
      /\ \A i \in 1..(Len(q) - k) : b[i] = q[k + i]
  BY Cut
<1> HIDE DEF a, b
<1>2. /\ a \o b \in Seq(S) /\ Len(a \o b) = Len(q)
      /\ \A i \in 1..Len(q) : (a \o b)[i] = IF i <= k THEN a[i] ELSE b[i - k]
  BY <1>1, ConcatProperties
<1>3. \A i \in 1..Len(q) : (a \o b)[i] = q[i]
  BY <1>1, <1>2
<1>4. a \o b = q
  BY <1>2, <1>3, SeqEqual
<1> QED BY <1>4 DEF a, b

LEMMA SeqOfMore ==
  ASSUME NEW S, NEW T, S \subseteq T
  PROVE  Seq(S) \subseteq Seq(T)
OBVIOUS

LEMMA SeqOfElems ==
  ASSUME NEW S, NEW q \in Seq(S)
  PROVE  q \in Seq(Elems(q))
<1>1. \A i \in 1..Len(q) : q[i] \in Elems(q)
  BY DEF Elems
<1>2. q \in [1..Len(q) -> Elems(q)]
  BY <1>1
<1> QED BY <1>2

-----------------------------------------------------------------------------
(* Types.                                                                  *)

LEMMA PeerIs ==
  /\ "client" \in Sides /\ "server" \in Sides
  /\ Peer("client") = "server" /\ Peer("server") = "client"
  /\ \A s \in Sides : Peer(s) \in Sides
BY DEF Peer, Sides

LEMMA LinkKept ==
  ASSUME Next \/ UNCHANGED vars
  PROVE  link' = link /\ Ids' = Ids /\ Halves' = Halves /\ Messages' = Messages
<1>1. link' = link
  BY DEF Next, AcceptThread, ServerLoop, ClientLoop, Loop, Construct,
         SetConnected, Register, WriteMessage, ClientCloses, ResetArrives, Report,
         HandlerNotConnected, OnReadSome, OnReadFull, OnReadAgain, OnReadEof,
         DecodeFrame, DecodeTurns, ServerExcute, ClientExcute, OnWriteBegin,
         OnWriteAll, OnWritePart, OnWriteAgain, OnWriteKilled
<1> QED BY <1>1 DEF Ids, Halves, Messages

LEMMA IdsAre == Halves = HalvesOf(Ids) /\ Messages = MessagesOf(Ids)
BY DEF Halves, Messages, HalvesOf, MessagesOf

(* The halves of an out buffer.                                            *)
LEMMA EncodedIs ==
  ASSUME NEW D, NEW s \in Sides, m_out_buffer[s] \in Seq(D)
  PROVE  /\ Encoded(s) \in Seq(HalvesOf(D))
         /\ Len(Encoded(s)) = 2 * Len(m_out_buffer[s])
         /\ \A i \in 1..(2 * Len(m_out_buffer[s])) :
              /\ Encoded(s)[i].msg = m_out_buffer[s][(i + 1) \div 2]
              /\ Encoded(s)[i].part = IF i % 2 = 1 THEN "head" ELSE "tail"
<1> DEFINE q == m_out_buffer[s]
<1>1. q \in Seq(D) /\ Len(q) \in Nat
  OBVIOUS
<1> HIDE DEF q
<1>2. \A i \in 1..(2 * Len(q)) : (i + 1) \div 2 \in 1..Len(q)
  BY <1>1
<1>3. \A i \in 1..(2 * Len(q)) : q[(i + 1) \div 2] \in D
  BY <1>1, <1>2
<1> DEFINE half(i) == [msg |-> q[(i + 1) \div 2],
                       part |-> IF i % 2 = 1 THEN "head" ELSE "tail"]
           e == [i \in 1..(2 * Len(q)) |-> half(i)]
<1>4. \A i \in 1..(2 * Len(q)) : half(i) \in HalvesOf(D)
  BY <1>3 DEF HalvesOf, Parts
<1>5. Encoded(s) = e
  BY DEF Encoded, q
<1>6. \A i \in 1..(2 * Len(q)) :
        /\ e[i].msg = q[(i + 1) \div 2]
        /\ e[i].part = IF i % 2 = 1 THEN "head" ELSE "tail"
  OBVIOUS
<1> HIDE DEF half
<1>7. 2 * Len(q) \in Nat /\ e \in [1..(2 * Len(q)) -> HalvesOf(D)]
  BY <1>1, <1>4
<1>8. e \in Seq(HalvesOf(D)) /\ Len(e) = 2 * Len(q)
  BY <1>7
<1> HIDE DEF e
<1> QED BY <1>5, <1>6, <1>8 DEF q

(* The room left in the buffer is never nothing.                           *)
LEMMA SpaceIs ==
  ASSUME TypeOK, NEW s \in Sides
  PROVE  Space(s) \in Nat \ {0}
<1>1. link.buffer \in Nat
  BY LinksAssumption DEF TypeOK
<1>2. /\ m_read_index[s] \in Nat /\ Len(m_in_buffer[s]) \in Nat
      /\ m_read_index[s] + Len(m_in_buffer[s]) < link.buffer
  BY DEF TypeOK
<1> QED BY <1>1, <1>2 DEF Space

(* No step brings a message from outside of D.                             *)
LEMMA WithinStep ==
  ASSUME TypeOK, Next, NEW D,
         Within(D, m_in_buffer, result, net, m_out_buffer),
         OnWriteBegin("client") => m_write_dones \in Seq(D)
  PROVE  Within(D, m_in_buffer', result', net', m_out_buffer')
<1> DEFINE H == HalvesOf(D)
           M == MessagesOf(D)
<1>1. /\ m_in_buffer \in [Sides -> Seq(H)] /\ net \in [Sides -> Seq(H)]
      /\ result \in [Sides -> Seq(M)] /\ m_out_buffer \in [Sides -> Seq(D)]
  BY DEF Within
<1>2. "client" \in Sides /\ "server" \in Sides /\ \A s \in Sides : Peer(s) \in Sides
  BY PeerIs
<1>3. ASSUME NEW s \in Sides, NEW e \in Seq(H), NEW k \in 0..Len(e),
             UNCHANGED <<m_in_buffer, result, m_out_buffer>>,
             net' \in {net, [net EXCEPT ![Peer(s)] = net[Peer(s)] \o SubSeq(e, 1, k)]}
      PROVE  Within(D, m_in_buffer', result', net', m_out_buffer')
  <2> DEFINE p == SubSeq(e, 1, k)
  <2>1. p \in Seq(H)
    BY <1>3, Cut
  <2>2. net' \in {net, [net EXCEPT ![Peer(s)] = net[Peer(s)] \o p]}
    BY <1>3
  <2> HIDE DEF p, H
  <2>3. net[Peer(s)] \o p \in Seq(H)
    BY <1>1, <1>2, <2>1
  <2>4. net' \in [Sides -> Seq(H)]
    BY <1>1, <2>2, <2>3
  <2> QED BY <1>1, <1>3, <2>4 DEF Within, H
<1>4. CASE UNCHANGED <<m_in_buffer, result, net, m_out_buffer>>
  BY <1>1, <1>4 DEF Within
<1>5. CASE ClientCloses
  <2>1. << >> \in Seq(H)
    OBVIOUS
  <2>2. net' \in [Sides -> Seq(H)]
    BY <1>1, <1>2, <1>5, <2>1 DEF ClientCloses
  <2> QED BY <1>1, <1>5, <2>2 DEF ClientCloses, Within
<1>6. ASSUME NEW s \in Sides, OnReadSome(s)
      PROVE  Within(D, m_in_buffer', result', net', m_out_buffer')
  <2>1. PICK k \in 1..Len(net[s]) :
          /\ m_in_buffer' = [m_in_buffer EXCEPT
                ![s] = m_in_buffer[s] \o SubSeq(net[s], 1, k)]
          /\ net' = [net EXCEPT ![s] = SubSeq(net[s], k + 1, Len(net[s]))]
    BY <1>1, <1>6 DEF OnReadSome
  <2> DEFINE got == SubSeq(net[s], 1, k)
             rest == SubSeq(net[s], k + 1, Len(net[s]))
  <2>2. net[s] \in Seq(H) /\ k \in 0..Len(net[s])
    BY <1>1
  <2>3. got \in Seq(H) /\ rest \in Seq(H)
    BY <2>2, Cut
  <2>4. /\ m_in_buffer' = [m_in_buffer EXCEPT ![s] = m_in_buffer[s] \o got]
        /\ net' = [net EXCEPT ![s] = rest]
    BY <2>1
  <2> HIDE DEF got, rest, H
  <2>5. m_in_buffer[s] \o got \in Seq(H)
    BY <1>1, <2>3
  <2>6. m_in_buffer' \in [Sides -> Seq(H)] /\ net' \in [Sides -> Seq(H)]
    BY <1>1, <2>3, <2>4, <2>5
  <2> QED BY <1>1, <1>6, <2>6 DEF OnReadSome, Within, H
<1>7. ASSUME NEW s \in Sides, OnReadFull(s)
      PROVE  Within(D, m_in_buffer', result', net', m_out_buffer')
  <2>1. Space(s) \in 0..Len(net[s])
    BY <1>1, <1>7, SpaceIs DEF OnReadFull
  <2>2. SubSeq(net[s], Space(s) + 1, Len(net[s])) \in Seq(H)
    BY <1>1, <2>1, Cut
  <2>3. net' \in [Sides -> Seq(H)]
    BY <1>1, <1>7, <2>2 DEF OnReadFull
  <2> QED BY <1>1, <1>7, <2>3 DEF OnReadFull, Within
<1>8. ASSUME NEW s \in Sides, DecodeFrame(s)
      PROVE  Within(D, m_in_buffer', result', net', m_out_buffer')
  <2>1. PICK i \in DOMAIN m_in_buffer[s] :
          /\ Frame(m_in_buffer[s], i)
          /\ result' = [result EXCEPT ![s] =
               Append(result[s], [msg |-> m_in_buffer[s][i].msg,
                                  data |-> m_in_buffer[s][i + 1].msg])]
    BY <1>1, <1>8 DEF DecodeFrame
  <2>2. m_in_buffer[s] \in Seq(H)
    BY <1>1
  <2>3. i \in 1..Len(m_in_buffer[s]) /\ i + 1 \in 1..Len(m_in_buffer[s])
    BY <2>1, <2>2 DEF Frame
  <2>4. 2 \in 0..Len(m_in_buffer[s])
    BY <2>2, <2>3
  <2>5. SubSeq(m_in_buffer[s], 3, Len(m_in_buffer[s])) \in Seq(H)
    <3>1. SubSeq(m_in_buffer[s], 2 + 1, Len(m_in_buffer[s])) \in Seq(H)
      BY <2>2, <2>4, Cut
    <3> QED BY <3>1
  <2>6. m_in_buffer[s][i] \in H /\ m_in_buffer[s][i + 1] \in H
    BY <2>2, <2>3
  <2>7. [msg |-> m_in_buffer[s][i].msg, data |-> m_in_buffer[s][i + 1].msg] \in M
    BY <2>6 DEF HalvesOf, MessagesOf
  <2>8. result' \in [Sides -> Seq(M)]
    <3> DEFINE new == [msg |-> m_in_buffer[s][i].msg,
                       data |-> m_in_buffer[s][i + 1].msg]
    <3>1. new \in M /\ result' = [result EXCEPT ![s] = Append(result[s], new)]
      BY <2>1, <2>7
    <3> HIDE DEF new, M
    <3> QED BY <1>1, <3>1
  <2>9. m_in_buffer' \in [Sides -> Seq(H)]
    BY <1>1, <1>8, <2>5 DEF DecodeFrame
  <2> QED BY <1>1, <1>8, <2>8, <2>9 DEF DecodeFrame, Within
<1>9. CASE ServerExcute
  <2> DEFINE ids == [i \in DOMAIN result["server"] |-> result["server"][i].msg]
  <2>1. result["server"] \in Seq(M) /\ DOMAIN result["server"] = 1..Len(result["server"])
    BY <1>1, <1>2
  <2>2. \A i \in 1..Len(result["server"]) : result["server"][i].msg \in D
    <3>1. \A q \in Seq(M) : \A i \in 1..Len(q) : q[i] \in M
      OBVIOUS
    <3>2. \A x \in M : x.msg \in D
      BY DEF MessagesOf
    <3> QED BY <2>1, <3>1, <3>2
  <2>3. Len(result["server"]) \in Nat /\ ids \in [1..Len(result["server"]) -> D]
    BY <2>1, <2>2
  <2>4. ids \in Seq(D)
    BY <2>3
  <2>5. m_out_buffer' =
          [m_out_buffer EXCEPT !["server"] = m_out_buffer["server"] \o ids]
    BY <1>9 DEF ServerExcute
  <2> HIDE DEF ids
  <2>6. m_out_buffer["server"] \o ids \in Seq(D)
    BY <1>1, <1>2, <2>4
  <2>7. m_out_buffer' \in [Sides -> Seq(D)]
    BY <1>1, <2>5, <2>6
  <2>8. << >> \in Seq(M)
    OBVIOUS
  <2>9. result' \in [Sides -> Seq(M)]
    BY <1>1, <1>9, <2>8 DEF ServerExcute, Decoded
  <2> QED BY <1>1, <1>9, <2>7, <2>9 DEF ServerExcute, Within
<1>10. CASE ClientExcute
  <2>1. << >> \in Seq(M)
    OBVIOUS
  <2>2. result' \in [Sides -> Seq(M)]
    BY <1>1, <1>10, <2>1 DEF ClientExcute, Decoded
  <2> QED BY <1>1, <1>10, <2>2 DEF ClientExcute, Within
<1>11. ASSUME NEW s \in Sides, OnWriteBegin(s)
       PROVE  Within(D, m_in_buffer', result', net', m_out_buffer')
  <2>1. CASE s = "client"
    <3>1. m_out_buffer["client"] \o m_write_dones \in Seq(D)
      BY <1>1, <1>2, <1>11, <2>1
    <3>2. m_out_buffer' \in [Sides -> Seq(D)]
      BY <1>1, <1>11, <2>1, <3>1 DEF OnWriteBegin
    <3> QED BY <1>1, <1>11, <3>2 DEF OnWriteBegin, Within
  <2>2. CASE s # "client"
    BY <1>1, <1>11, <2>2 DEF OnWriteBegin, Within
  <2> QED BY <2>1, <2>2
<1>12. ASSUME NEW s \in Sides, OnWriteAll(s) \/ OnWritePart(s)
       PROVE  Within(D, m_in_buffer', result', net', m_out_buffer')
  <2>1. Encoded(s) \in Seq(H) /\ Len(Encoded(s)) \in Nat
    BY <1>1, EncodedIs
  <2>2. PICK k \in 0..Len(Encoded(s)) : Accepts(s, k)
    <3>1. CASE OnWriteAll(s)
      BY <2>1, <3>1 DEF OnWriteAll
    <3>2. CASE OnWritePart(s)
      <4>1. Room(s) \in 0..Len(Encoded(s))
        BY <2>1, <3>2 DEF OnWritePart
      <4> QED BY <3>2, <4>1 DEF OnWritePart
    <3> QED BY <1>12, <3>1, <3>2
  <2>3. net' \in {net, [net EXCEPT ![Peer(s)] =
                          net[Peer(s)] \o SubSeq(Encoded(s), 1, k)]}
    BY <2>2 DEF Accepts
  <2>4. UNCHANGED <<m_in_buffer, result, m_out_buffer>>
    BY <1>12 DEF OnWriteAll, OnWritePart
  <2> QED BY <1>3, <2>1, <2>3, <2>4
<1>13. CASE \/ Construct \/ SetConnected \/ Register \/ WriteMessage
            \/ ResetArrives \/ OnWriteKilled("server")
  BY <1>4, <1>13 DEF Construct, SetConnected, Register, WriteMessage, ResetArrives,
                     OnWriteKilled
<1>14. ASSUME NEW s \in Sides,
              \/ Report(s) \/ OnReadAgain(s) \/ OnReadEof(s) \/ DecodeTurns(s)
              \/ OnWriteAgain(s)
              \/ \E e \in {"IN", "OUT"} : HandlerNotConnected(s, e)
       PROVE  Within(D, m_in_buffer', result', net', m_out_buffer')
  BY <1>4, <1>14 DEF Report, OnReadAgain, OnReadEof, DecodeTurns, OnWriteAgain,
                     HandlerNotConnected
<1> QED
  BY <1>2, <1>5, <1>6, <1>7, <1>8, <1>9, <1>10, <1>11, <1>12, <1>13, <1>14
  DEF Next, AcceptThread, ServerLoop, ClientLoop, Loop

(* m_read_index stays where ::read has room behind it.                     *)
LEMMA IndexStep ==
  ASSUME TypeOK, Next
  PROVE  /\ m_read_index' \in [Sides -> Nat]
         /\ \A s \in Sides : m_read_index'[s] + Len(m_in_buffer'[s]) < link.buffer
<1> DEFINE Index == /\ m_read_index' \in [Sides -> Nat]
                    /\ \A s \in Sides :
                         m_read_index'[s] + Len(m_in_buffer'[s]) < link.buffer
<1>1. /\ m_in_buffer \in [Sides -> Seq(Halves)] /\ net \in [Sides -> Seq(Halves)]
      /\ m_read_index \in [Sides -> Nat]
      /\ \A s \in Sides : m_read_index[s] + Len(m_in_buffer[s]) < link.buffer
  BY DEF TypeOK
<1>2. link.buffer \in Nat
  BY LinksAssumption DEF TypeOK
<1>3. CASE UNCHANGED <<m_read_index, m_in_buffer>>
  BY <1>1, <1>3
<1>4. ASSUME NEW s \in Sides, OnReadSome(s)
      PROVE  Index
  <2>1. PICK k \in 1..Len(net[s]) :
          /\ k < Space(s)
          /\ m_in_buffer' = [m_in_buffer EXCEPT
                ![s] = m_in_buffer[s] \o SubSeq(net[s], 1, k)]
    BY <1>1, <1>4 DEF OnReadSome
  <2> DEFINE got == SubSeq(net[s], 1, k)
  <2>2. net[s] \in Seq(Halves) /\ k \in 0..Len(net[s]) /\ k \in Nat
    BY <1>1
  <2>3. got \in Seq(Halves) /\ Len(got) = k
    BY <2>2, Cut
  <2>4. m_in_buffer' = [m_in_buffer EXCEPT ![s] = m_in_buffer[s] \o got]
    BY <2>1
  <2> HIDE DEF got
  <2>5. Len(m_in_buffer[s] \o got) = Len(m_in_buffer[s]) + k
    <3>1. m_in_buffer[s] \in Seq(Halves)
      BY <1>1
    <3> QED BY <2>3, <3>1, ConcatProperties
  <2>6. m_in_buffer'[s] = m_in_buffer[s] \o got
        /\ \A t \in Sides : t # s => m_in_buffer'[t] = m_in_buffer[t]
    BY <1>1, <2>4
  <2>7. m_read_index[s] + Len(m_in_buffer[s]) + k < link.buffer
    <3>1. k < link.buffer - m_read_index[s] - Len(m_in_buffer[s])
      BY <2>1 DEF Space
    <3>2. m_read_index[s] \in Nat /\ Len(m_in_buffer[s]) \in Nat
      BY <1>1
    <3> QED BY <1>2, <2>2, <3>1, <3>2
  <2>8. m_read_index[s] + Len(m_in_buffer'[s]) < link.buffer
    <3>1. m_read_index[s] \in Nat /\ Len(m_in_buffer[s]) \in Nat
      BY <1>1
    <3>2. Len(m_in_buffer'[s]) = Len(m_in_buffer[s]) + k
      BY <2>5, <2>6
    <3> QED BY <1>2, <2>2, <2>7, <3>1, <3>2
  <2>9. UNCHANGED m_read_index
    BY <1>4 DEF OnReadSome
  <2>10. \A t \in Sides : m_read_index'[t] + Len(m_in_buffer'[t]) < link.buffer
    BY <1>1, <2>6, <2>8, <2>9
  <2> QED BY <1>1, <2>9, <2>10
<1>5. ASSUME NEW s \in Sides, DecodeFrame(s)
      PROVE  Index
  <2>1. /\ m_in_buffer' = [m_in_buffer EXCEPT
             ![s] = SubSeq(m_in_buffer[s], 3, Len(m_in_buffer[s]))]
        /\ m_read_index' = [m_read_index EXCEPT ![s] = Compacted(m_read_index[s] + 2)]
        /\ \E i \in DOMAIN m_in_buffer[s] : Frame(m_in_buffer[s], i)
    BY <1>5 DEF DecodeFrame
  <2>2. m_in_buffer[s] \in Seq(Halves) /\ Len(m_in_buffer[s]) \in Nat
        /\ m_read_index[s] \in Nat
    BY <1>1
  <2>3. 2 \in 0..Len(m_in_buffer[s])
    BY <2>1, <2>2 DEF Frame
  <2>4. Len(SubSeq(m_in_buffer[s], 2 + 1, Len(m_in_buffer[s]))) =
          Len(m_in_buffer[s]) - 2
    BY <2>2, <2>3, Cut
  <2>5. Compacted(m_read_index[s] + 2) \in {0, m_read_index[s] + 2}
    BY DEF Compacted
  <2>6. m_read_index' \in [Sides -> Nat]
    BY <1>1, <2>1, <2>2, <2>5
  <2>7. \A t \in Sides : t # s => /\ m_in_buffer'[t] = m_in_buffer[t]
                                 /\ m_read_index'[t] = m_read_index[t]
    BY <1>1, <2>1
  <2>8. Len(m_in_buffer'[s]) = Len(m_in_buffer[s]) - 2
    BY <1>1, <2>1, <2>4
  <2>9. m_read_index'[s] \in {0, m_read_index[s] + 2}
    BY <1>1, <2>1, <2>5
  <2>10. m_read_index[s] + Len(m_in_buffer[s]) < link.buffer
    BY <1>1
  <2>11. m_read_index'[s] + Len(m_in_buffer'[s]) < link.buffer
    BY <1>2, <2>2, <2>8, <2>9, <2>10
  <2>12. \A t \in Sides : m_read_index'[t] + Len(m_in_buffer'[t]) < link.buffer
    BY <1>1, <2>7, <2>11
  <2> QED BY <2>6, <2>12
<1>6. CASE \/ Construct \/ SetConnected \/ Register \/ WriteMessage
           \/ ClientCloses \/ ResetArrives \/ OnWriteKilled("server")
  BY <1>3, <1>6 DEF Construct, SetConnected, Register, WriteMessage, ClientCloses,
                    ResetArrives, OnWriteKilled
<1>7. ASSUME NEW s \in Sides,
             \/ Report(s) \/ OnReadFull(s) \/ OnReadAgain(s) \/ OnReadEof(s)
             \/ DecodeTurns(s) \/ OnWriteBegin(s) \/ OnWriteAll(s)
             \/ OnWritePart(s) \/ OnWriteAgain(s)
             \/ \E e \in {"IN", "OUT"} : HandlerNotConnected(s, e)
      PROVE  Index
  BY <1>3, <1>7 DEF Report, OnReadFull, OnReadAgain, OnReadEof, DecodeTurns,
                    OnWriteBegin, OnWriteAll, OnWritePart, OnWriteAgain,
                    HandlerNotConnected
<1>8. CASE ServerExcute \/ ClientExcute
  BY <1>3, <1>8 DEF ServerExcute, ClientExcute
<1> QED
  BY <1>4, <1>5, <1>6, <1>7, <1>8, PeerIs
  DEF Next, AcceptThread, ServerLoop, ClientLoop, Loop

(* What on_write does after its loop.                                      *)
LEMMA WriteEndTypes ==
  ASSUME TypeOK, NEW s \in Sides, NEW all, OnWriteEnd(s, all)
  PROVE  /\ pc' = [pc EXCEPT ![s] = "loop"]
         /\ m_listen_events' \in [Sides -> SUBSET {"IN", "OUT"}]
         /\ m_read_dones' \in SUBSET Ids /\ m_write_dones' \in Seq(Ids)
<1> DEFINE mask == (IF all THEN m_listen_events[s] \ {"OUT"}
                           ELSE m_listen_events[s])
                   \cup (IF s = "client" /\ m_write_dones # << >>
                           THEN {"IN"} ELSE {})
<1>1. mask \in SUBSET {"IN", "OUT"}
  BY DEF TypeOK
<1>2. m_listen_events' = [m_listen_events EXCEPT ![s] = mask]
  BY DEF OnWriteEnd
<1> HIDE DEF mask
<1>3. m_listen_events' \in [Sides -> SUBSET {"IN", "OUT"}]
  BY <1>1, <1>2 DEF TypeOK
<1> DEFINE new == {m_write_dones[i] : i \in DOMAIN m_write_dones}
<1>4. new \subseteq Ids /\ m_read_dones \subseteq Ids /\ m_write_dones \in Seq(Ids)
  BY DEF TypeOK
<1>5. /\ m_read_dones' \in {m_read_dones, m_read_dones \cup new}
      /\ m_write_dones' \in {m_write_dones, << >>}
  BY DEF OnWriteEnd
<1> HIDE DEF new
<1>6. << >> \in Seq(Ids)
  OBVIOUS
<1>7. m_read_dones' \in SUBSET Ids /\ m_write_dones' \in Seq(Ids)
  BY <1>4, <1>5, <1>6
<1> QED BY <1>3, <1>7 DEF OnWriteEnd

(* The threads' control: states, masks, batches and places.                *)
LEMMA ControlStep ==
  ASSUME TypeOK, Next
  PROVE  /\ m_state' \in [Sides -> {"NotConnected", "Connected", "Closed"}]
         /\ m_listen_events' \in [Sides -> SUBSET {"IN", "OUT"}]
         /\ posted' \in BOOLEAN
         /\ tasks' \in [Sides -> SUBSET {"IN", "OUT"}]
         /\ pc' \in [Sides -> {"loop", "read", "decode", "cut", "turning", "write"}]
         /\ closed' \in SUBSET Sides
         /\ reset' \in {"none", "coming", "arrived", "reported"}
         /\ killed' \in BOOLEAN
<1> DEFINE Places == {"loop", "read", "decode", "cut", "turning", "write"}
           Control ==
             /\ m_state' \in [Sides -> {"NotConnected", "Connected", "Closed"}]
             /\ m_listen_events' \in [Sides -> SUBSET {"IN", "OUT"}]
             /\ posted' \in BOOLEAN
             /\ tasks' \in [Sides -> SUBSET {"IN", "OUT"}]
             /\ pc' \in [Sides -> Places]
             /\ closed' \in SUBSET Sides
             /\ reset' \in {"none", "coming", "arrived", "reported"}
             /\ killed' \in BOOLEAN
<1> SUFFICES Control
  OBVIOUS
<1>1. /\ m_state \in [Sides -> {"NotConnected", "Connected", "Closed"}]
      /\ m_listen_events \in [Sides -> SUBSET {"IN", "OUT"}]
      /\ posted \in BOOLEAN
      /\ tasks \in [Sides -> SUBSET {"IN", "OUT"}]
      /\ pc \in [Sides -> Places]
      /\ closed \in SUBSET Sides
      /\ reset \in {"none", "coming", "arrived", "reported"}
      /\ killed \in BOOLEAN
  BY DEF TypeOK
<1>2. "client" \in Sides /\ "server" \in Sides
  BY PeerIs
<1>3. ASSUME NEW s \in Sides, NEW e \in {"IN", "OUT"}, Handler(s, e)
      PROVE  tasks' \in [Sides -> SUBSET {"IN", "OUT"}]
  BY <1>1, <1>3 DEF Handler
<1>4. ASSUME NEW s \in Sides, Reads(s)
      PROVE  tasks' \in [Sides -> SUBSET {"IN", "OUT"}]
  BY <1>1, <1>3, <1>4 DEF Reads
<1>5. ASSUME NEW s \in Sides, NEW p \in Places, pc' = [pc EXCEPT ![s] = p]
      PROVE  pc' \in [Sides -> Places]
  BY <1>1, <1>5
<1> HIDE DEF Places
<1>6. {"loop", "read", "decode", "cut", "turning", "write"} \subseteq Places
  BY DEF Places
<1>7. CASE Construct \/ SetConnected \/ Register \/ ResetArrives
  <2>1. CASE Construct \/ ResetArrives
    BY <1>1, <2>1 DEF Construct, ResetArrives
  <2>2. CASE SetConnected
    BY <1>1, <1>2, <2>2 DEF SetConnected
  <2>3. CASE Register
    BY <1>1, <1>2, <2>3 DEF Register
  <2> QED BY <1>7, <2>1, <2>2, <2>3
<1>8. CASE WriteMessage \/ ClientCloses
  BY <1>1, <1>2, <1>8 DEF WriteMessage, ClientCloses
<1>9. CASE ServerExcute \/ ClientExcute
  <2>1. m_listen_events' \in [Sides -> SUBSET {"IN", "OUT"}]
    BY <1>1, <1>2, <1>9 DEF ServerExcute, ClientExcute
  <2>2. reset' \in {"none", "coming", "arrived", "reported"}
    BY <1>1, <1>9 DEF ServerExcute, ClientExcute, Reattach
  <2>3. pc' \in [Sides -> Places]
    BY <1>2, <1>5, <1>6, <1>9 DEF ServerExcute, ClientExcute, Decoded
  <2> QED BY <1>1, <1>9, <2>1, <2>2, <2>3 DEF ServerExcute, ClientExcute
<1>10. ASSUME NEW s \in Sides, Loop(s)
       PROVE  Control
  <2>1. CASE Report(s)
    <3>1. Ready(s) \in SUBSET {"IN", "OUT"}
      BY <1>1 DEF Ready
    <3>2. tasks' \in [Sides -> SUBSET {"IN", "OUT"}]
      BY <1>1, <2>1, <3>1 DEF Report
    <3>3. reset' \in {"none", "coming", "arrived", "reported"}
      BY <1>1, <2>1 DEF Report
    <3> QED BY <1>1, <2>1, <3>2, <3>3 DEF Report
  <2>2. CASE \E e \in {"IN", "OUT"} : HandlerNotConnected(s, e)
    BY <1>1, <1>3, <2>2 DEF HandlerNotConnected
  <2>3. CASE OnReadSome(s)
    <3>1. pc' \in [Sides -> Places]
      BY <1>5, <1>6, <2>3 DEF OnReadSome
    <3> QED BY <1>1, <1>4, <2>3, <3>1 DEF OnReadSome
  <2>4. CASE OnReadFull(s)
    <3>1. pc' \in [Sides -> Places]
      BY <1>5, <1>6, <2>4 DEF OnReadFull
    <3> QED BY <1>1, <1>4, <2>4, <3>1 DEF OnReadFull
  <2>5. CASE OnReadAgain(s) \/ DecodeTurns(s)
    <3>1. pc' \in [Sides -> Places]
      BY <1>5, <1>6, <2>5 DEF OnReadAgain, DecodeTurns
    <3> QED BY <1>1, <2>5, <3>1 DEF OnReadAgain, DecodeTurns
  <2>6. CASE OnReadEof(s)
    <3>1. pc' \in [Sides -> Places]
      BY <1>5, <1>6, <2>6 DEF OnReadEof
    <3>2. /\ m_state' \in [Sides -> {"NotConnected", "Connected", "Closed"}]
          /\ m_listen_events' \in [Sides -> SUBSET {"IN", "OUT"}]
      BY <1>1, <2>6 DEF OnReadEof
    <3> QED BY <1>1, <1>4, <2>6, <3>1, <3>2 DEF OnReadEof
  <2>7. CASE DecodeFrame(s)
    BY <1>1, <2>7 DEF DecodeFrame
  <2>8. CASE OnWriteBegin(s)
    <3>1. pc' \in [Sides -> Places]
      BY <1>5, <1>6, <2>8 DEF OnWriteBegin
    <3> QED BY <1>1, <1>3, <2>8, <3>1 DEF OnWriteBegin
  <2>9. CASE OnWriteAll(s)
    <3>1. /\ pc' \in [Sides -> Places]
          /\ m_listen_events' \in [Sides -> SUBSET {"IN", "OUT"}]
      BY <1>5, <1>6, <2>9, WriteEndTypes DEF OnWriteAll
    <3>2. reset' \in {"none", "coming", "arrived", "reported"}
      BY <1>1, <2>9 DEF OnWriteAll, Reattach, Provoke
    <3> QED BY <1>1, <2>9, <3>1, <3>2 DEF OnWriteAll
  <2>10. CASE OnWritePart(s)
    BY <1>1, <2>10 DEF OnWritePart
  <2>11. CASE OnWriteAgain(s)
    <3>1. /\ pc' \in [Sides -> Places]
          /\ m_listen_events' \in [Sides -> SUBSET {"IN", "OUT"}]
      BY <1>5, <1>6, <2>11, WriteEndTypes DEF OnWriteAgain
    <3> QED BY <1>1, <2>11, <3>1 DEF OnWriteAgain
  <2> QED BY <1>10, <2>1, <2>2, <2>3, <2>4, <2>5, <2>6, <2>7, <2>8, <2>9, <2>10,
             <2>11 DEF Loop
<1>11. CASE OnWriteKilled("server")
  BY <1>1, <1>11 DEF OnWriteKilled
<1> QED
  BY <1>2, <1>7, <1>8, <1>9, <1>10, <1>11
  DEF Next, AcceptThread, ServerLoop, ClientLoop

(* The messages that the histories and the client's containers hold.       *)
LEMMA HistoryStep ==
  ASSUME TypeOK, Next
  PROVE  /\ m_write_dones' \in Seq(Ids) /\ m_read_dones' \in SUBSET Ids
         /\ given' \in 0..link.messages
         /\ sent' \in [Sides -> Nat] /\ executed' \in Seq(Messages)
         /\ lost' \in SUBSET Ids
         /\ answered' \in SUBSET Ids /\ dropped' \in SUBSET Ids
<1> DEFINE History ==
         /\ m_write_dones' \in Seq(Ids) /\ m_read_dones' \in SUBSET Ids
         /\ given' \in 0..link.messages
         /\ sent' \in [Sides -> Nat] /\ executed' \in Seq(Messages)
         /\ lost' \in SUBSET Ids
         /\ answered' \in SUBSET Ids /\ dropped' \in SUBSET Ids
<1>1. /\ m_write_dones \in Seq(Ids) /\ m_read_dones \in SUBSET Ids
      /\ given \in 0..link.messages
      /\ sent \in [Sides -> Nat] /\ executed \in Seq(Messages)
      /\ lost \in SUBSET Ids
      /\ answered \in SUBSET Ids /\ dropped \in SUBSET Ids
      /\ result \in [Sides -> Seq(Messages)] /\ net \in [Sides -> Seq(Halves)]
      /\ m_out_buffer \in [Sides -> Seq(Ids)]
      /\ "client" \in Sides /\ "server" \in Sides
  BY PeerIs DEF TypeOK
<1>2. link.messages \in Nat
  BY LinksAssumption DEF TypeOK
<1>3. CASE UNCHANGED <<m_write_dones, m_read_dones, given, sent, executed, lost,
                       answered, dropped>>
  BY <1>1, <1>3
<1>4. CASE WriteMessage
  <2>1. given + 1 \in Ids /\ given' \in 0..link.messages
    BY <1>1, <1>2, <1>4 DEF WriteMessage, Ids
  <2>2. m_write_dones' \in Seq(Ids)
    BY <1>1, <1>4, <2>1 DEF WriteMessage
  <2> QED BY <1>1, <1>4, <2>1, <2>2 DEF WriteMessage
<1>5. CASE ServerExcute
  <2>1. executed' = executed \o result["server"]
    BY <1>5 DEF ServerExcute
  <2>2. executed' \in Seq(Messages)
    BY <1>1, <2>1
  <2> QED BY <1>1, <1>5, <2>2 DEF ServerExcute, Decoded
<1>6. CASE ClientExcute
  <2> DEFINE got == {result["client"][i].msg : i \in DOMAIN result["client"]}
  <2>1. /\ answered' = answered \cup (got \cap m_read_dones)
        /\ dropped' = dropped \cup (got \ m_read_dones)
    BY <1>6 DEF ClientExcute
  <2>2. \A x \in Messages : x.msg \in Ids
    BY DEF Messages
  <2>3. /\ DOMAIN result["client"] = 1..Len(result["client"])
        /\ \A i \in 1..Len(result["client"]) : result["client"][i] \in Messages
    BY <1>1
  <2>4. got \subseteq Ids
    BY <2>2, <2>3
  <2> HIDE DEF got
  <2>5. answered' \in SUBSET Ids /\ dropped' \in SUBSET Ids
    BY <1>1, <2>1, <2>4
  <2> QED BY <1>1, <1>6, <2>5 DEF ClientExcute
<1>7. ASSUME NEW s \in Sides, OnReadFull(s)
      PROVE  History
  <2> DEFINE got == {net[s][i].msg : i \in 1..Space(s)}
  <2>1. lost' = lost \/ lost' = lost \cup got
    BY <1>7 DEF OnReadFull
  <2>2. Space(s) \in Nat /\ Len(net[s]) >= Space(s) /\ Len(net[s]) \in Nat
    BY <1>1, <1>7, SpaceIs DEF OnReadFull
  <2>3. \A i \in 1..Space(s) : net[s][i] \in Halves
    BY <1>1, <2>2
  <2>4. \A x \in Halves : x.msg \in Ids
    BY DEF Halves
  <2>5. got \subseteq Ids
    BY <2>3, <2>4
  <2> HIDE DEF got
  <2>6. lost' \in SUBSET Ids
    BY <1>1, <2>1, <2>5
  <2> QED BY <1>1, <1>7, <2>6 DEF OnReadFull
<1>8. ASSUME NEW s \in Sides, NEW k \in Nat, Accepts(s, k)
      PROVE  sent' \in [Sides -> Nat]
  BY <1>1, <1>8 DEF Accepts
<1>9. ASSUME NEW s \in Sides, OnWriteAll(s)
      PROVE  History
  <2>1. Len(Encoded(s)) \in Nat
    BY <1>1, EncodedIs
  <2>2. sent' \in [Sides -> Nat]
    BY <1>8, <1>9, <2>1 DEF OnWriteAll
  <2>3. m_read_dones' \in SUBSET Ids /\ m_write_dones' \in Seq(Ids)
    BY <1>9, WriteEndTypes DEF OnWriteAll
  <2> QED BY <1>1, <1>9, <2>2, <2>3 DEF OnWriteAll
<1>10. ASSUME NEW s \in Sides, OnWritePart(s)
       PROVE  History
  <2>1. Len(Encoded(s)) \in Nat
    BY <1>1, EncodedIs
  <2>2. Room(s) \in Nat
    BY <1>10, <2>1 DEF OnWritePart
  <2>3. sent' \in [Sides -> Nat]
    BY <1>8, <1>10, <2>2 DEF OnWritePart
  <2> QED BY <1>1, <1>10, <2>3 DEF OnWritePart
<1>11. ASSUME NEW s \in Sides, OnWriteAgain(s)
       PROVE  History
  <2>1. m_read_dones' \in SUBSET Ids /\ m_write_dones' \in Seq(Ids)
    BY <1>11, WriteEndTypes DEF OnWriteAgain
  <2> QED BY <1>1, <1>11, <2>1 DEF OnWriteAgain
<1>12. CASE \/ Construct \/ SetConnected \/ Register \/ ClientCloses
            \/ ResetArrives \/ OnWriteKilled("server")
  BY <1>3, <1>12 DEF Construct, SetConnected, Register, ClientCloses, ResetArrives,
                     OnWriteKilled
<1>13. ASSUME NEW s \in Sides,
              \/ Report(s) \/ OnReadSome(s) \/ OnReadAgain(s) \/ OnReadEof(s)
              \/ DecodeFrame(s) \/ DecodeTurns(s) \/ OnWriteBegin(s)
              \/ \E e \in {"IN", "OUT"} : HandlerNotConnected(s, e)
       PROVE  History
  BY <1>3, <1>13 DEF Report, OnReadSome, OnReadAgain, OnReadEof, DecodeFrame,
                     DecodeTurns, OnWriteBegin, HandlerNotConnected
<1> QED
  BY <1>1, <1>4, <1>5, <1>6, <1>7, <1>9, <1>10, <1>11, <1>12, <1>13
  DEF Next, AcceptThread, ServerLoop, ClientLoop, Loop

LEMMA TypeStep ==
  ASSUME TypeOK, Next
  PROVE  TypeOK'
<1>1. Within(Ids, m_in_buffer', result', net', m_out_buffer')
  <2>1. Within(Ids, m_in_buffer, result, net, m_out_buffer) /\ m_write_dones \in Seq(Ids)
    BY IdsAre DEF TypeOK, Within
  <2> QED BY <2>1, WithinStep
<1>2. link' = link /\ link \in Links /\ Ids' = Ids /\ Halves' = Halves
      /\ Messages' = Messages
  BY LinkKept DEF TypeOK
<1>3. /\ m_in_buffer' \in [Sides -> Seq(Halves)] /\ net' \in [Sides -> Seq(Halves)]
      /\ result' \in [Sides -> Seq(Messages)] /\ m_out_buffer' \in [Sides -> Seq(Ids)]
  BY <1>1, IdsAre DEF Within
<1> QED BY <1>2, <1>3, IndexStep, ControlStep, HistoryStep DEF TypeOK

(* The variables of both ends, of the network and of the history stay in   *)
(* their types; in particular m_read_index stays where the next ::read     *)
(* still has room.                                                         *)
THEOREM ConnectionTypes == Spec => []TypeOK
<1>1. Init => TypeOK
  <2> SUFFICES ASSUME Init PROVE TypeOK
    OBVIOUS
  <2>1. /\ link \in Links /\ link.messages \in Nat
        /\ link.buffer \in Nat /\ link.buffer > 0
    BY LinksAssumption DEF Init
  <2>2. m_state \in [Sides -> {"NotConnected", "Connected", "Closed"}]
    BY DEF Init, Sides
  <2>3. /\ m_listen_events \in [Sides -> SUBSET {"IN", "OUT"}]
        /\ tasks \in [Sides -> SUBSET {"IN", "OUT"}]
        /\ pc \in [Sides -> {"loop", "read", "decode", "cut", "turning", "write"}]
        /\ m_read_index \in [Sides -> Nat] /\ sent \in [Sides -> Nat]
    BY DEF Init
  <2>4. \A S : << >> \in Seq(S)
    OBVIOUS
  <2>5. /\ m_in_buffer \in [Sides -> Seq(Halves)] /\ net \in [Sides -> Seq(Halves)]
        /\ result \in [Sides -> Seq(Messages)]
        /\ m_out_buffer \in [Sides -> Seq(Ids)]
        /\ m_write_dones \in Seq(Ids) /\ executed \in Seq(Messages)
    BY <2>4 DEF Init
  <2>6. \A s \in Sides : m_read_index[s] + Len(m_in_buffer[s]) < link.buffer
    <3>1. \A s \in Sides : m_read_index[s] = 0 /\ m_in_buffer[s] = << >>
      BY DEF Init
    <3>2. \A s \in Sides : Len(m_in_buffer[s]) = 0
      BY <3>1
    <3>3. \A s \in Sides : m_read_index[s] + Len(m_in_buffer[s]) = 0
      BY <3>1, <3>2
    <3>4. 0 < link.buffer
      BY <2>1
    <3> QED BY <3>3, <3>4, Zenon
  <2>7. /\ posted \in BOOLEAN /\ m_read_dones \in SUBSET Ids
        /\ closed \in SUBSET Sides
        /\ reset \in {"none", "coming", "arrived", "reported"}
        /\ killed \in BOOLEAN /\ lost \in SUBSET Ids
        /\ answered \in SUBSET Ids /\ dropped \in SUBSET Ids
    BY DEF Init
  <2>8. given \in 0..link.messages
    BY <2>1 DEF Init
  <2> QED BY <2>1, <2>2, <2>3, <2>5, <2>6, <2>7, <2>8 DEF TypeOK
<1>2. TypeOK /\ [Next]_vars => TypeOK'
  <2>1. CASE UNCHANGED vars
    BY <2>1, LinkKept DEF TypeOK
  <2> QED BY <2>1, TypeStep
<1> QED BY <1>1, <1>2, PTL DEF Spec

-----------------------------------------------------------------------------
(* The server's end.                                                       *)

(* What only the client, its user or the network does.                     *)
ClientMoves ==
  \/ Loop("client") \/ ClientExcute \/ WriteMessage \/ ClientCloses \/ ResetArrives

(* It leaves the server's end.                                             *)
LEMMA ClientLeavesServer ==
  ASSUME TypeOK, ClientMoves
  PROVE  /\ UNCHANGED <<posted, m_state["server"], m_listen_events["server"],
                        tasks["server"], pc["server"], executed,
                        sent["server"], killed>>
         /\ UNCHANGED <<m_in_buffer["server"], result["server"], lost>>
         /\ "server" \in closed' <=> "server" \in closed
<1>1. /\ m_state \in [Sides -> {"NotConnected", "Connected", "Closed"}]
      /\ m_listen_events \in [Sides -> SUBSET {"IN", "OUT"}]
      /\ tasks \in [Sides -> SUBSET {"IN", "OUT"}]
      /\ pc \in [Sides -> {"loop", "read", "decode", "cut", "turning", "write"}]
      /\ sent \in [Sides -> Nat]
      /\ m_in_buffer \in [Sides -> Seq(Halves)]
      /\ result \in [Sides -> Seq(Messages)]
      /\ Sides = {"client", "server"}
  BY DEF TypeOK, Sides
<1>2. CASE WriteMessage \/ ResetArrives
  BY <1>1, <1>2 DEF WriteMessage, ResetArrives
<1>3. CASE ClientCloses
  BY <1>1, <1>3 DEF ClientCloses
<1>4. CASE ClientExcute
  BY <1>1, <1>4 DEF ClientExcute, Decoded
<1>5. CASE Report("client") \/ \E e \in {"IN", "OUT"} : HandlerNotConnected("client", e)
  BY <1>1, <1>5 DEF Report, HandlerNotConnected, Handler
<1>6. CASE OnReadSome("client") \/ OnReadFull("client")
  BY <1>1, <1>6 DEF OnReadSome, OnReadFull, Reads, Handler
<1>7. CASE OnReadAgain("client") \/ OnReadEof("client")
  BY <1>1, <1>7 DEF OnReadAgain, OnReadEof, Reads, Handler
<1>8. CASE DecodeFrame("client") \/ DecodeTurns("client")
  BY <1>1, <1>8 DEF DecodeFrame, DecodeTurns
<1>9. CASE OnWriteBegin("client")
  BY <1>1, <1>9 DEF OnWriteBegin, Handler
<1>10. CASE OnWriteAll("client")
  BY <1>1, <1>10 DEF OnWriteAll, Accepts, OnWriteEnd
<1>11. CASE OnWritePart("client")
  BY <1>1, <1>11 DEF OnWritePart, Accepts
<1>12. CASE OnWriteAgain("client")
  BY <1>1, <1>12 DEF OnWriteAgain, OnWriteEnd
<1> QED BY <1>2, <1>3, <1>4, <1>5, <1>6, <1>7, <1>8, <1>9, <1>10, <1>11, <1>12
        DEF ClientMoves, Loop

LEMMA QuietStep ==
  ASSUME TypeOK, QuietInv, Next
  PROVE  QuietInv'
<1> USE DEF QuietInv
<1>1. /\ m_state \in [Sides -> {"NotConnected", "Connected", "Closed"}]
      /\ m_listen_events \in [Sides -> SUBSET {"IN", "OUT"}]
      /\ tasks \in [Sides -> SUBSET {"IN", "OUT"}]
      /\ pc \in [Sides -> {"loop", "read", "decode", "cut", "turning", "write"}]
      /\ "server" \in Sides /\ "client" \in Sides
  BY DEF TypeOK, Sides
<1>2. CASE ClientMoves
  BY <1>2, ClientLeavesServer
<1>3. CASE Construct
  BY <1>3 DEF Construct
<1>4. CASE SetConnected
  BY <1>1, <1>4 DEF SetConnected
<1>5. CASE Register
  BY <1>1, <1>5 DEF Register
<1>6. ASSUME pc["server"] # "loop", UNCHANGED <<posted, m_state, m_listen_events>>
      PROVE  QuietInv'
  BY <1>6
<1>7. CASE Report("server")
  <2>1. m_listen_events["server"] # {}
    BY <1>7 DEF Report, Ready
  <2>2. UNCHANGED <<posted, m_state, m_listen_events, pc>>
    BY <1>7 DEF Report
  <2> QED BY <2>1, <2>2
<1>8. ASSUME NEW e \in {"IN", "OUT"}, HandlerNotConnected("server", e)
      PROVE  QuietInv'
  BY <1>1, <1>8 DEF HandlerNotConnected, Handler
<1>9. Reads("server") => /\ m_state["server"] = "Connected"
                         /\ "IN" \in m_listen_events["server"] /\ ~posted
  BY DEF Reads, Handler
<1>10. CASE OnReadSome("server") \/ OnReadFull("server")
  <2>1. Reads("server") /\ UNCHANGED <<posted, m_state, m_listen_events>>
    BY <1>10 DEF OnReadSome, OnReadFull
  <2> QED BY <1>9, <2>1
<1>11. CASE OnReadEof("server")
  <2>1. /\ Reads("server") /\ UNCHANGED posted
        /\ m_state' = [m_state EXCEPT !["server"] = "Closed"]
        /\ pc' = [pc EXCEPT !["server"] = "loop"]
    BY <1>11 DEF OnReadEof
  <2> QED BY <1>1, <1>9, <2>1
<1>12. CASE \/ OnReadAgain("server") \/ DecodeFrame("server")
            \/ DecodeTurns("server") \/ OnWritePart("server")
            \/ OnWriteKilled("server")
  <2>1. pc["server"] # "loop" /\ UNCHANGED <<posted, m_state, m_listen_events>>
    BY <1>12 DEF OnReadAgain, DecodeFrame, DecodeTurns, OnWritePart, OnWriteKilled
  <2> QED BY <1>6, <2>1
<1>13. CASE ServerExcute
  <2>1. pc["server"] # "loop" /\ UNCHANGED <<posted, m_state>>
    BY <1>13 DEF ServerExcute, Decoded
  <2>2. "IN" \in m_listen_events'["server"]
    BY <1>1, <1>13, <2>1 DEF ServerExcute
  <2> QED BY <2>1, <2>2
<1>14. CASE OnWriteBegin("server")
  <2>1. tasks["server"] # {} /\ m_state["server"] = "Connected"
    BY <1>14 DEF OnWriteBegin, Handler
  <2>2. UNCHANGED <<posted, m_state, m_listen_events>>
    BY <1>14 DEF OnWriteBegin
  <2> QED BY <1>1, <2>1, <2>2
<1>15. CASE OnWriteAll("server") \/ OnWriteAgain("server")
  <2>1. pc["server"] # "loop" /\ UNCHANGED <<posted, m_state>>
    BY <1>15 DEF OnWriteAll, OnWriteAgain
  <2>2. m_state["server"] = "Connected" /\ "IN" \in m_listen_events["server"]
    BY <2>1
  <2>3. "IN" \in m_listen_events'["server"]
    BY <1>1, <1>15, <2>2 DEF OnWriteAll, OnWriteAgain, OnWriteEnd
  <2> QED BY <2>1, <2>2, <2>3
<1> QED
  BY <1>2, <1>3, <1>4, <1>5, <1>7, <1>8, <1>10, <1>11, <1>12, <1>13, <1>14, <1>15
  DEF Next, AcceptThread, ServerLoop, ClientLoop, Loop, ClientMoves

LEMMA QuietInvHolds == Spec => []QuietInv
<1>1. Init => QuietInv
  BY DEF Init, QuietInv, Sides
<1>2. TypeOK /\ QuietInv /\ [Next]_vars => QuietInv'
  <2>1. CASE UNCHANGED vars
    BY <2>1 DEF QuietInv
  <2> QED BY <2>1, QuietStep
<1> QED BY <1>1, <1>2, ConnectionTypes, PTL DEF Spec

(* After clear() the server's end neither executes nor sends nor listens,  *)
(* although an on_write may still be queued behind the on_read that saw    *)
(* the close, and no write of its own then ends the process by SIGPIPE.    *)
THEOREM ClosedServerIsQuiet == Spec => ClosedIsQuiet
<1>1. ASSUME TypeOK, QuietInv, [Next]_vars, m_state["server"] = "Closed"
      PROVE  UNCHANGED <<executed, sent["server"], m_listen_events["server"],
                         killed>>
  <2>1. pc["server"] = "loop" /\ ~posted
    BY <1>1 DEF QuietInv
  <2>2. CASE ClientMoves
    BY <1>1, <2>2, ClientLeavesServer
  <2>3. CASE UNCHANGED vars \/ Report("server")
               \/ \E e \in {"IN", "OUT"} : HandlerNotConnected("server", e)
    BY <2>3 DEF Report, HandlerNotConnected
  <2>4. ~Reads("server")
    BY <1>1, <2>1 DEF Reads
  <2>5. ~Construct /\ ~SetConnected /\ ~Register /\ ~ServerExcute
    BY <1>1, <2>1 DEF Construct, SetConnected, Register, ServerExcute, Decoded
  <2>6. /\ ~OnReadSome("server") /\ ~OnReadFull("server") /\ ~OnReadEof("server")
        /\ ~OnReadAgain("server") /\ ~DecodeFrame("server") /\ ~DecodeTurns("server")
    BY <2>1, <2>4 DEF OnReadSome, OnReadFull, OnReadEof, OnReadAgain, DecodeFrame,
                      DecodeTurns
  <2>7. /\ ~OnWriteBegin("server") /\ ~OnWriteAll("server")
        /\ ~OnWritePart("server") /\ ~OnWriteAgain("server")
        /\ ~OnWriteKilled("server")
    BY <1>1, <2>1 DEF OnWriteBegin, OnWriteAll, OnWritePart, OnWriteAgain,
                      OnWriteKilled
  <2> QED BY <1>1, <2>2, <2>3, <2>5, <2>6, <2>7
          DEF Next, AcceptThread, ServerLoop, ClientLoop, Loop, ClientMoves
<1> QED BY <1>1, ConnectionTypes, QuietInvHolds, PTL DEF Spec, ClosedIsQuiet

-----------------------------------------------------------------------------
(* The messages of the client.                                             *)

(* Only write_message and on_write handle what the client writes.          *)
LEMMA OthersLeaveMessages ==
  ASSUME TypeOK, Next, ~WriteMessage, ~OnWriteBegin("client"),
         ~OnWriteAll("client"), ~OnWriteAgain("client")
  PROVE  /\ UNCHANGED <<m_out_buffer["client"], m_write_dones, m_read_dones, given>>
         /\ pc'["client"] = "write" <=> pc["client"] = "write"
         /\ ~ClientExcute => UNCHANGED dropped
<1> DEFINE Left ==
         /\ UNCHANGED <<m_out_buffer["client"], m_write_dones, m_read_dones, given>>
         /\ pc'["client"] = "write" <=> pc["client"] = "write"
         /\ ~ClientExcute => UNCHANGED dropped
<1>1. /\ pc \in [Sides -> {"loop", "read", "decode", "cut", "turning", "write"}]
      /\ m_out_buffer \in [Sides -> Seq(Ids)] /\ Sides = {"client", "server"}
  BY DEF TypeOK, Sides
<1>2. CASE Construct \/ SetConnected \/ Register \/ ClientCloses \/ ResetArrives
             \/ OnWriteKilled("server")
  BY <1>2 DEF Construct, SetConnected, Register, ClientCloses, ResetArrives,
              OnWriteKilled
<1>3. CASE ServerExcute
  BY <1>1, <1>3 DEF ServerExcute, Decoded
<1>4. CASE ClientExcute
  BY <1>1, <1>4 DEF ClientExcute, Decoded
<1>5. ASSUME NEW s \in Sides,
             \/ Report(s) \/ OnWritePart(s) \/ DecodeFrame(s)
             \/ \E e \in {"IN", "OUT"} : HandlerNotConnected(s, e)
      PROVE  Left
  BY <1>5 DEF Report, OnWritePart, DecodeFrame, HandlerNotConnected
<1>6. ASSUME NEW s \in Sides, OnReadAgain(s) \/ DecodeTurns(s)
      PROVE  Left
  BY <1>1, <1>6 DEF OnReadAgain, DecodeTurns
<1>7. ASSUME NEW s \in Sides, Reads(s)
      PROVE  pc[s] # "write"
  BY <1>7 DEF Reads, Handler
<1>8. ASSUME NEW s \in Sides, OnReadSome(s) \/ OnReadFull(s) \/ OnReadEof(s)
      PROVE  Left
  <2>1. /\ pc[s] # "write"
        /\ \E p \in {"loop", "read", "decode", "cut"} : pc' = [pc EXCEPT ![s] = p]
    BY <1>7, <1>8 DEF OnReadSome, OnReadFull, OnReadEof
  <2>2. pc'["client"] = "write" <=> pc["client"] = "write"
    BY <1>1, <2>1
  <2> QED BY <1>8, <2>2 DEF OnReadSome, OnReadFull, OnReadEof
<1>9. CASE OnWriteBegin("server")
  BY <1>1, <1>9 DEF OnWriteBegin
<1>10. CASE OnWriteAll("server") \/ OnWriteAgain("server")
  BY <1>1, <1>10 DEF OnWriteAll, OnWriteAgain, OnWriteEnd
<1> QED
  BY <1>1, <1>2, <1>3, <1>4, <1>5, <1>6, <1>8, <1>9, <1>10
  DEF Next, AcceptThread, ServerLoop, ClientLoop, Loop

(* What on_write of the client begins and ends with.                       *)
LEMMA ClientOnWrite ==
  ASSUME TypeOK
  PROVE  /\ OnWriteBegin("client") =>
              /\ pc["client"] = "loop" /\ pc'["client"] = "write"
              /\ m_out_buffer'["client"] = m_out_buffer["client"] \o m_write_dones
              /\ UNCHANGED <<m_write_dones, m_read_dones, given, dropped>>
         /\ OnWriteAll("client") \/ OnWriteAgain("client") =>
              /\ pc["client"] = "write" /\ pc'["client"] = "loop"
              /\ m_write_dones' = << >>
              /\ m_read_dones' = m_read_dones \cup Elems(m_write_dones)
              /\ UNCHANGED <<m_out_buffer, given, dropped>>
         /\ WriteMessage =>
              /\ pc["client"] = "loop" /\ UNCHANGED pc
              /\ given' = given + 1 /\ given + 1 \in Nat
              /\ m_write_dones' = Append(m_write_dones, given + 1)
              /\ UNCHANGED <<m_out_buffer, m_read_dones, dropped>>
<1>1. /\ pc \in [Sides -> {"loop", "read", "decode", "cut", "turning", "write"}]
      /\ m_out_buffer \in [Sides -> Seq(Ids)] /\ "client" \in Sides
      /\ m_write_dones \in Seq(Ids)
  BY DEF TypeOK, Sides
<1>2. given + 1 \in Nat
  BY LinksAssumption DEF TypeOK
<1>3. OnWriteBegin("client") =>
        /\ pc["client"] = "loop" /\ pc'["client"] = "write"
        /\ m_out_buffer'["client"] = m_out_buffer["client"] \o m_write_dones
        /\ UNCHANGED <<m_write_dones, m_read_dones, given, dropped>>
  BY <1>1 DEF OnWriteBegin, Handler
<1>4. DOMAIN m_write_dones = 1..Len(m_write_dones)
  BY <1>1
<1>5. OnWriteAll("client") \/ OnWriteAgain("client") =>
        /\ pc["client"] = "write" /\ pc'["client"] = "loop"
        /\ m_write_dones' = << >>
        /\ m_read_dones' = m_read_dones \cup Elems(m_write_dones)
        /\ UNCHANGED <<m_out_buffer, given, dropped>>
  BY <1>1, <1>4 DEF OnWriteAll, OnWriteAgain, OnWriteEnd, Elems
<1>6. WriteMessage =>
        /\ pc["client"] = "loop" /\ UNCHANGED pc
        /\ given' = given + 1
        /\ m_write_dones' = Append(m_write_dones, given + 1)
        /\ UNCHANGED <<m_out_buffer, m_read_dones, dropped>>
  BY DEF WriteMessage
<1> QED BY <1>2, <1>3, <1>5, <1>6

LEMMA NumberStep ==
  ASSUME TypeOK, NumberInv, Next
  PROVE  NumberInv'
<1> DEFINE out == m_out_buffer["client"]
           wd == m_write_dones
<1>1. /\ out \in Seq(Ids) /\ wd \in Seq(Ids) /\ given \in Nat
      /\ Len(out) \in Nat /\ Len(wd) \in Nat
  <2>1. out \in Seq(Ids) /\ wd \in Seq(Ids)
    BY PeerIs DEF TypeOK
  <2>2. given \in Nat
    BY LinksAssumption DEF TypeOK
  <2> QED BY <2>1, <2>2
<1>2. CASE /\ UNCHANGED <<out, m_write_dones, given>>
           /\ pc'["client"] = "write" <=> pc["client"] = "write"
  BY <1>2 DEF NumberInv
<1>3. CASE WriteMessage
  <2>1. /\ pc["client"] = "loop" /\ UNCHANGED <<pc, m_out_buffer>>
        /\ given' = given + 1 /\ wd' = Append(wd, given + 1) /\ given + 1 \in Nat
    BY <1>3, ClientOnWrite
  <2>2. /\ Len(wd') = Len(wd) + 1
        /\ \A i \in 1..Len(wd) : wd'[i] = wd[i]
        /\ wd'[Len(wd) + 1] = given + 1
    BY <1>1, <2>1
  <2>3. /\ Len(out) + Len(wd) = given
        /\ \A i \in 1..Len(wd) : wd[i] = Len(out) + i
        /\ \A i \in 1..Len(out) : out[i] = i
    BY <2>1 DEF NumberInv
  <2> HIDE DEF out, wd
  <2>4. \A i \in 1..Len(wd') : wd'[i] = Len(out) + i
    <3> SUFFICES ASSUME NEW i \in 1..Len(wd') PROVE wd'[i] = Len(out) + i
      OBVIOUS
    <3>1. CASE i \in 1..Len(wd)
      BY <2>2, <2>3, <3>1
    <3>2. CASE i = Len(wd) + 1
      <4>1. wd'[i] = given + 1
        BY <2>2, <3>2, Zenon
      <4>2. Len(out) + i = given + 1
        BY <1>1, <2>3, <3>2
      <4> QED BY <4>1, <4>2, Zenon
    <3> QED BY <1>1, <2>2, <3>1, <3>2
  <2>5. Len(out) + Len(wd') = given'
    BY <1>1, <2>1, <2>2, <2>3
  <2> QED BY <2>1, <2>3, <2>4, <2>5 DEF NumberInv, out, wd
<1>4. CASE OnWriteBegin("client")
  <2>1. /\ pc["client"] = "loop" /\ pc'["client"] = "write"
        /\ m_out_buffer'["client"] = out \o wd /\ UNCHANGED given
    BY <1>4, ClientOnWrite
  <2>2. /\ Len(out) + Len(wd) = given
        /\ \A i \in 1..Len(out) : out[i] = i
        /\ \A i \in 1..Len(wd) : wd[i] = Len(out) + i
    BY <2>1 DEF NumberInv
  <2> HIDE DEF out, wd
  <2>3. /\ Len(out \o wd) = Len(out) + Len(wd)
        /\ \A i \in 1..(Len(out) + Len(wd)) :
             (out \o wd)[i] = IF i <= Len(out) THEN out[i] ELSE wd[i - Len(out)]
    BY <1>1, ConcatProperties
  <2>4. \A i \in 1..(Len(out) + Len(wd)) : (out \o wd)[i] = i
    <3> SUFFICES ASSUME NEW i \in 1..(Len(out) + Len(wd))
                 PROVE  (out \o wd)[i] = i
      OBVIOUS
    <3>1. CASE i <= Len(out)
      BY <1>1, <2>2, <2>3, <3>1
    <3>2. CASE ~(i <= Len(out))
      <4>1. i - Len(out) \in 1..Len(wd)
        BY <1>1, <3>2
      <4>2. wd[i - Len(out)] = Len(out) + (i - Len(out))
        BY <2>2, <4>1
      <4> QED BY <1>1, <2>3, <3>2, <4>2
    <3> QED BY <3>1, <3>2
  <2> QED BY <2>1, <2>2, <2>3, <2>4 DEF NumberInv
<1>5. CASE OnWriteAll("client") \/ OnWriteAgain("client")
  <2>1. /\ pc["client"] = "write" /\ pc'["client"] = "loop"
        /\ m_write_dones' = << >> /\ UNCHANGED <<m_out_buffer, given>>
    BY <1>5, ClientOnWrite
  <2>2. Len(m_write_dones') = 0
    BY <2>1
  <2> QED BY <1>1, <2>1, <2>2 DEF NumberInv
<1> QED BY <1>2, <1>3, <1>4, <1>5, OthersLeaveMessages

LEMMA NumberInvHolds == Spec => []NumberInv
<1>1. Init => NumberInv
  <2> SUFFICES ASSUME Init PROVE NumberInv
    OBVIOUS
  <2>1. m_out_buffer["client"] = << >> /\ m_write_dones = << >> /\ given = 0
        /\ pc["client"] = "loop"
    BY DEF Init, Sides
  <2>2. Len(<< >>) = 0
    OBVIOUS
  <2> QED BY <2>1, <2>2 DEF NumberInv
<1>2. TypeOK /\ NumberInv /\ [Next]_vars => NumberInv'
  <2>1. CASE UNCHANGED vars
    BY <2>1 DEF NumberInv
  <2> QED BY <2>1, NumberStep
<1> QED BY <1>1, <1>2, ConnectionTypes, PTL DEF Spec

LEMMA WithinMore ==
  ASSUME NEW D, NEW F, D \subseteq F, NEW b, NEW r, NEW n, NEW o, Within(D, b, r, n, o)
  PROVE  Within(F, b, r, n, o)
<1>1. HalvesOf(D) \subseteq HalvesOf(F) /\ MessagesOf(D) \subseteq MessagesOf(F)
  BY DEF HalvesOf, MessagesOf
<1>2. /\ Seq(D) \subseteq Seq(F)
      /\ Seq(HalvesOf(D)) \subseteq Seq(HalvesOf(F))
      /\ Seq(MessagesOf(D)) \subseteq Seq(MessagesOf(F))
  BY <1>1, SeqOfMore
<1> QED BY <1>2 DEF Within

LEMMA CallbackStep ==
  ASSUME TypeOK, CallbackInv, Next
  PROVE  CallbackInv'
<1> DEFINE out == m_out_buffer["client"]
<1>1. /\ out \in Seq(Ids) /\ m_write_dones \in Seq(Ids)
      /\ Within(Known, m_in_buffer, result, net, m_out_buffer)
      /\ Known \subseteq m_read_dones \cup
           (IF pc["client"] = "write" THEN Elems(m_write_dones) ELSE {})
      /\ dropped = {}
  BY PeerIs DEF CallbackInv, NoReplyDropped, TypeOK
<1>2. Known' = Elems(m_out_buffer'["client"])
  BY DEF Known, Elems
<1>3. OnWriteBegin("client") => Known' = Known \cup Elems(m_write_dones)
  <2>1. Elems(out \o m_write_dones) = Elems(out) \cup Elems(m_write_dones)
    BY <1>1, ElemsConcat
  <2> QED BY <1>2, <2>1, ClientOnWrite DEF Known
<1>4. ~OnWriteBegin("client") => Known' = Known
  <2>1. ~OnWriteBegin("client") => UNCHANGED m_out_buffer["client"]
    BY OthersLeaveMessages, ClientOnWrite
  <2> QED BY <1>2, <2>1 DEF Known
<1>5. Within(Known', m_in_buffer', result', net', m_out_buffer')
  <2>1. Known \subseteq Known'
    BY <1>3, <1>4
  <2>2. Within(Known', m_in_buffer, result, net, m_out_buffer)
    BY <1>1, <2>1, WithinMore
  <2>3. OnWriteBegin("client") => m_write_dones \in Seq(Known')
    <3>1. m_write_dones \in Seq(Elems(m_write_dones))
      BY <1>1, SeqOfElems
    <3>2. OnWriteBegin("client") => Elems(m_write_dones) \subseteq Known'
      BY <1>3
    <3> QED BY <3>1, <3>2, SeqOfMore
  <2> QED BY <2>2, <2>3, WithinStep
<1>6. Known' \subseteq m_read_dones' \cup
        (IF pc'["client"] = "write" THEN Elems(m_write_dones)' ELSE {})
  <2>1. CASE OnWriteBegin("client")
    <3>1. /\ pc["client"] = "loop" /\ pc'["client"] = "write"
          /\ UNCHANGED <<m_write_dones, m_read_dones>>
      BY <2>1, ClientOnWrite
    <3>2. Elems(m_write_dones)' = Elems(m_write_dones)
      BY <3>1 DEF Elems
    <3>3. Known' = Known \cup Elems(m_write_dones)
      BY <1>3, <2>1
    <3>4. Known \subseteq m_read_dones
      BY <1>1, <3>1
    <3> QED BY <3>1, <3>2, <3>3, <3>4
  <2>2. CASE OnWriteAll("client") \/ OnWriteAgain("client")
    <3>1. /\ m_read_dones' = m_read_dones \cup Elems(m_write_dones)
          /\ UNCHANGED m_out_buffer
      BY <2>2, ClientOnWrite
    <3>2. Known' = Known
      BY <3>1 DEF Known, Elems
    <3> QED BY <1>1, <3>1, <3>2
  <2>3. CASE WriteMessage
    <3>1. /\ pc["client"] = "loop" /\ UNCHANGED <<pc, m_out_buffer, m_read_dones>>
      BY <2>3, ClientOnWrite
    <3>2. Known' = Known
      BY <3>1 DEF Known, Elems
    <3> QED BY <1>1, <3>1, <3>2
  <2>4. CASE ~WriteMessage /\ ~OnWriteBegin("client") /\ ~OnWriteAll("client")
               /\ ~OnWriteAgain("client")
    <3>1. /\ UNCHANGED <<m_write_dones, m_read_dones>>
          /\ pc'["client"] = "write" <=> pc["client"] = "write"
      BY <2>4, OthersLeaveMessages
    <3>2. Known' = Known
      BY <1>4, <2>4
    <3>3. Elems(m_write_dones)' = Elems(m_write_dones)
      BY <3>1 DEF Elems
    <3> QED BY <1>1, <3>1, <3>2, <3>3
  <2> QED BY <2>1, <2>2, <2>3, <2>4
<1>7. dropped' = {}
  <2>1. CASE ClientExcute
    <3> DEFINE r == result["client"]
               got == {r[i].msg : i \in DOMAIN r}
    <3>1. pc["client"] # "write" /\ dropped' = dropped \cup (got \ m_read_dones)
      BY <2>1 DEF ClientExcute, Decoded
    <3>2. r \in Seq(MessagesOf(Known))
      BY <1>1, PeerIs DEF Within
    <3>3. DOMAIN r = 1..Len(r) /\ \A i \in 1..Len(r) : r[i] \in MessagesOf(Known)
      BY <3>2
    <3>4. \A x \in MessagesOf(Known) : x.msg \in Known
      BY DEF MessagesOf
    <3>5. got \subseteq Known
      BY <3>3, <3>4
    <3>6. Known \subseteq m_read_dones
      BY <1>1, <3>1
    <3> QED BY <1>1, <3>1, <3>5, <3>6
  <2>2. CASE ~ClientExcute
    BY <1>1, <2>2, OthersLeaveMessages, ClientOnWrite
  <2> QED BY <2>1, <2>2
<1> QED BY <1>5, <1>6, <1>7 DEF CallbackInv, NoReplyDropped

(* Every reply that the client decodes finds the callback that done has    *)
(* registered for it, although the reply may arrive while on_write is      *)
(* still in its loop.                                                      *)
THEOREM EveryReplyFindsItsCallback == Spec => []NoReplyDropped
<1>1. Init => CallbackInv
  <2> SUFFICES ASSUME Init PROVE CallbackInv
    OBVIOUS
  <2>1. \A S : << >> \in Seq(S)
    OBVIOUS
  <2>2. Within(Known, m_in_buffer, result, net, m_out_buffer)
    BY <2>1 DEF Init, Within
  <2>3. m_out_buffer["client"] = << >> /\ dropped = {}
    BY PeerIs DEF Init
  <2>4. Len(<< >>) = 0
    OBVIOUS
  <2>5. Known = {}
    BY <2>3, <2>4 DEF Known, Elems
  <2> QED BY <2>2, <2>3, <2>5 DEF CallbackInv, NoReplyDropped
<1>2. TypeOK /\ CallbackInv /\ [Next]_vars => CallbackInv'
  <2>1. CASE UNCHANGED vars
    BY <2>1 DEF CallbackInv, NoReplyDropped, Known, Elems
  <2> QED BY <2>1, CallbackStep
<1>3. CallbackInv => NoReplyDropped
  BY DEF CallbackInv
<1> QED BY <1>1, <1>2, <1>3, ConnectionTypes, PTL DEF Spec

-----------------------------------------------------------------------------
(* The order of the requests.                                              *)

(* Message m whole at position t of a stream of halves.                    *)
FrameOf(q, t, m) ==
  /\ q[t].msg = m /\ q[t].part = "head"
  /\ q[t + 1].msg = m /\ q[t + 1].part = "tail"

(* Message m among the decoded ones, with its own data.                    *)
Done(d, m) == \E j \in 1..Len(d) : d[j].msg = m /\ d[j].data = m

(* Every smaller message than that of a head was decoded or lost a half,   *)
(* or is whole in the stream before this head.                             *)
HeadsInOrder(q, d, l) ==
  \A s \in 1..Len(q) : q[s].part = "head" =>
    \A m \in 1..(q[s].msg - 1) :
      \/ m \in l \/ Done(d, m)
      \/ \E t \in 1..(s - 2) : FrameOf(q, t, m)

DecodedInOrder(d, l) ==
  \A i \in 1..Len(d) : d[i].msg = d[i].data =>
    \A m \in 1..(d[i].msg - 1) :
      \/ m \in l
      \/ \E j \in 1..(i - 1) : d[j].msg = m /\ d[j].data = m

(* The server never closes its socket; what it has decoded, and what it    *)
(* may still decode, is in order.                                          *)
OrderInv ==
  /\ "server" \notin closed
  /\ HeadsInOrder(m_in_buffer["server"] \o net["server"],
                  executed \o result["server"], lost)
  /\ DecodedInOrder(executed \o result["server"], lost)

(* The halves of the messages 1, 2, ... are in order.                      *)
LEMMA EncodedInOrder ==
  ASSUME NEW H, NEW e \in Seq(H),
         \A i \in 1..Len(e) :
           /\ e[i].msg = (i + 1) \div 2
           /\ e[i].part = IF i % 2 = 1 THEN "head" ELSE "tail"
  PROVE  HeadsInOrder(e, << >>, {})
<1> SUFFICES ASSUME NEW s \in 1..Len(e), e[s].part = "head",
                    NEW m \in 1..(e[s].msg - 1)
             PROVE  \E t \in 1..(s - 2) : FrameOf(e, t, m)
  BY DEF HeadsInOrder
<1>1. s \in Nat /\ Len(e) \in Nat /\ s <= Len(e)
  OBVIOUS
<1>2. s % 2 = 1
  BY <1>1
<1>3. e[s].msg = (s + 1) \div 2
  BY <1>1
<1>4. m \in Nat /\ m >= 1 /\ m <= ((s + 1) \div 2) - 1
  BY <1>1, <1>3
<1> DEFINE t == 2 * m - 1
<1>5. t \in 1..(s - 2) /\ t + 1 = 2 * m
  BY <1>1, <1>2, <1>4
<1>6. (t + 1) \div 2 = m /\ t % 2 = 1 /\ (t + 2) \div 2 = m /\ (t + 1) % 2 = 0
  BY <1>4
<1>7. t \in 1..Len(e) /\ t + 1 \in 1..Len(e) /\ t + 1 + 1 = t + 2
  BY <1>1, <1>5
<1> HIDE DEF t
<1>8. e[t].msg = m /\ e[t].part = "head"
  BY <1>6, <1>7
<1>9. e[t + 1].msg = m /\ e[t + 1].part = "tail"
  <2>1. e[t + 1].msg = (t + 1 + 1) \div 2
    BY <1>7
  <2>2. e[t + 1].part = IF (t + 1) % 2 = 1 THEN "head" ELSE "tail"
    BY <1>7
  <2>3. e[t + 1].part = "tail"
    BY <1>6, <2>2
  <2> QED BY <1>6, <1>7, <2>1, <2>3
<1> QED BY <1>5, <1>8, <1>9 DEF FrameOf

(* ::write adds such halves behind the stream.                             *)
LEMMA AddedInOrder ==
  ASSUME NEW H, NEW q \in Seq(H), NEW e \in Seq(H), NEW d, NEW l,
         HeadsInOrder(q, d, l), HeadsInOrder(e, << >>, {})
  PROVE  HeadsInOrder(q \o e, d, l)
<1>1. /\ q \o e \in Seq(H) /\ Len(q \o e) = Len(q) + Len(e)
      /\ \A i \in 1..(Len(q) + Len(e)) :
           (q \o e)[i] = IF i <= Len(q) THEN q[i] ELSE e[i - Len(q)]
  BY ConcatProperties
<1> DEFINE u == q \o e
<1>2. Len(q) \in Nat /\ Len(e) \in Nat /\ Len(u) = Len(q) + Len(e)
  BY <1>1
<1>3. \A i \in 1..Len(q) : u[i] = q[i]
  BY <1>1
<1>4. \A i \in 1..Len(e) : u[Len(q) + i] = e[i]
  BY <1>1
<1> HIDE DEF u
<1>5. HeadsInOrder(u, d, l)
  <2> SUFFICES ASSUME NEW s \in 1..Len(u), u[s].part = "head",
                      NEW m \in 1..(u[s].msg - 1),
                      ~(m \in l \/ Done(d, m))
               PROVE  \E t \in 1..(s - 2) : FrameOf(u, t, m)
    BY DEF HeadsInOrder
  <2>1. CASE s <= Len(q)
    <3>1. s \in 1..Len(q) /\ u[s] = q[s]
      BY <1>2, <1>3, <2>1
    <3>2. PICK t \in 1..(s - 2) : FrameOf(q, t, m)
      BY <3>1 DEF HeadsInOrder
    <3>3. t \in 1..Len(q) /\ t + 1 \in 1..Len(q)
      BY <1>2, <3>1
    <3>4. u[t] = q[t] /\ u[t + 1] = q[t + 1]
      BY <1>3, <3>3
    <3> QED BY <3>2, <3>4 DEF FrameOf
  <2>2. CASE ~(s <= Len(q))
    <3>1. PICK r \in 1..Len(e) : s = Len(q) + r
      <4>1. s - Len(q) \in 1..Len(e) /\ s = Len(q) + (s - Len(q))
        BY <1>2, <2>2
      <4> QED BY <4>1
    <3>2. u[s] = e[r]
      BY <1>4, <3>1
    <3>3. m \notin {} /\ ~Done(<< >>, m)
      <4>1. Len(<< >>) = 0
        OBVIOUS
      <4> QED BY <4>1 DEF Done
    <3>4. PICK t \in 1..(r - 2) : FrameOf(e, t, m)
      BY <3>2, <3>3 DEF HeadsInOrder
    <3>5. /\ t \in 1..Len(e) /\ t + 1 \in 1..Len(e)
          /\ Len(q) + t \in 1..(s - 2) /\ Len(q) + (t + 1) = (Len(q) + t) + 1
      BY <1>2, <3>1
    <3>6. u[Len(q) + t] = e[t] /\ u[(Len(q) + t) + 1] = e[t + 1]
      <4>1. u[Len(q) + (t + 1)] = e[t + 1]
        BY <1>4, <3>5
      <4> QED BY <1>4, <3>5, <4>1
    <3>7. FrameOf(u, Len(q) + t, m)
      BY <3>4, <3>6 DEF FrameOf
    <3> QED BY <3>5, <3>7
  <2> QED BY <2>1, <2>2
<1> QED BY <1>5 DEF u

(* A read that fills the buffer takes k halves from behind b.              *)
LEMMA FullReadInOrder ==
  ASSUME NEW H, NEW b \in Seq(H), NEW n \in Seq(H), NEW k \in 1..Len(n),
         NEW d, NEW l, NEW f, l \subseteq f, \A i \in 1..k : n[i].msg \in f,
         HeadsInOrder(b \o n, d, l)
  PROVE  HeadsInOrder(b \o SubSeq(n, k + 1, Len(n)), d, f)
<1> DEFINE rest == SubSeq(n, k + 1, Len(n))
           q == b \o n
           u == b \o rest
           old(p) == IF p <= Len(b) THEN p ELSE p + k
<1>1. k \in 0..Len(n) /\ k \in Nat /\ k >= 1 /\ Len(n) \in Nat /\ Len(b) \in Nat
  OBVIOUS
<1>2. /\ rest \in Seq(H) /\ Len(rest) = Len(n) - k
      /\ \A i \in 1..(Len(n) - k) : rest[i] = n[k + i]
  BY <1>1, Cut
<1> HIDE DEF rest
<1>3. /\ Len(q) = Len(b) + Len(n)
      /\ \A i \in 1..(Len(b) + Len(n)) : q[i] = IF i <= Len(b) THEN b[i] ELSE n[i - Len(b)]
  BY ConcatProperties
<1>4. /\ Len(u) = Len(b) + Len(rest)
      /\ \A i \in 1..(Len(b) + Len(rest)) :
           u[i] = IF i <= Len(b) THEN b[i] ELSE rest[i - Len(b)]
  BY <1>2, ConcatProperties
<1> HIDE DEF q, u
<1>5. \A p \in 1..Len(u) : old(p) \in 1..Len(q) /\ u[p] = q[old(p)]
  <2> SUFFICES ASSUME NEW p \in 1..Len(u)
               PROVE  old(p) \in 1..Len(q) /\ u[p] = q[old(p)]
    OBVIOUS
  <2>1. CASE p <= Len(b)
    BY <1>1, <1>2, <1>3, <1>4, <2>1
  <2>2. CASE ~(p <= Len(b))
    <3>1. old(p) = p + k /\ p - Len(b) \in 1..(Len(n) - k)
      BY <1>1, <1>2, <1>4, <2>2
    <3>2. u[p] = rest[p - Len(b)]
      BY <1>1, <1>2, <1>4, <2>2
    <3>3. rest[p - Len(b)] = n[k + (p - Len(b))]
      BY <1>2, <3>1
    <3>4. p + k \in 1..(Len(b) + Len(n)) /\ ~(p + k <= Len(b))
          /\ (p + k) - Len(b) = k + (p - Len(b))
      BY <1>1, <1>2, <1>4, <2>2
    <3>5. q[p + k] = n[(p + k) - Len(b)]
      BY <1>3, <3>4
    <3> QED BY <1>3, <3>1, <3>2, <3>3, <3>4, <3>5
  <2> QED BY <2>1, <2>2
<1>6. HeadsInOrder(u, d, f)
  <2> SUFFICES ASSUME NEW s \in 1..Len(u), u[s].part = "head",
                      NEW m \in 1..(u[s].msg - 1),
                      ~(m \in f \/ Done(d, m))
               PROVE  \E t \in 1..(s - 2) : FrameOf(u, t, m)
    BY DEF HeadsInOrder
  <2>1. old(s) \in 1..Len(q) /\ u[s] = q[old(s)]
    BY <1>5
  <2>2. PICK t \in 1..(old(s) - 2) : FrameOf(q, t, m)
    <3> HIDE DEF old
    <3> QED BY <2>1 DEF HeadsInOrder, q
  <2>3. /\ s \in Nat /\ s <= Len(u) /\ t \in Nat /\ t >= 1 /\ t + 2 <= old(s)
        /\ old(s) <= Len(b) + Len(n) /\ Len(u) = Len(b) + (Len(n) - k)
    BY <1>1, <1>2, <1>3, <1>4, <2>1
  <2>4. CASE t + 1 <= Len(b)
    <3>1. t \in 1..(s - 2)
      BY <1>1, <2>3, <2>4
    <3>2. t \in 1..Len(u) /\ t + 1 \in 1..Len(u) /\ old(t) = t /\ old(t + 1) = t + 1
      BY <1>1, <2>3, <2>4
    <3>3. u[t] = q[t] /\ u[t + 1] = q[t + 1]
      BY <1>5, <3>2
    <3> QED BY <2>2, <3>1, <3>3 DEF FrameOf
  <2>5. CASE t > Len(b) + k
    <3> DEFINE r == t - k
    <3>1. r \in 1..(s - 2) /\ ~(r <= Len(b)) /\ ~(r + 1 <= Len(b))
      BY <1>1, <2>3, <2>5
    <3>2. /\ r \in 1..Len(u) /\ r + 1 \in 1..Len(u)
          /\ old(r) = t /\ old(r + 1) = t + 1
      BY <1>1, <2>3, <3>1
    <3> HIDE DEF r
    <3>3. u[r] = q[t] /\ u[r + 1] = q[t + 1]
      BY <1>5, <3>2
    <3> QED BY <2>2, <3>1, <3>3 DEF FrameOf
  <2>6. CASE ~(t + 1 <= Len(b)) /\ ~(t > Len(b) + k)
    <3>1. PICK p \in {t, t + 1} : p \in (Len(b) + 1)..(Len(b) + k)
      <4>1. CASE t > Len(b)
        BY <1>1, <2>3, <2>6, <4>1
      <4>2. CASE ~(t > Len(b))
        BY <1>1, <2>3, <2>6, <4>2
      <4> QED BY <4>1, <4>2
    <3>2. q[p].msg = m
      BY <2>2, <3>1 DEF FrameOf
    <3>3. /\ p - Len(b) \in 1..k /\ p \in 1..(Len(b) + Len(n))
          /\ ~(p <= Len(b))
      BY <1>1, <3>1
    <3>4. q[p] = n[p - Len(b)]
      BY <1>3, <3>3
    <3>5. n[p - Len(b)].msg \in f
      BY <3>3
    <3> QED BY <3>2, <3>4, <3>5
  <2> QED BY <2>4, <2>5, <2>6
<1> QED BY <1>6 DEF u, rest

(* The first frame of b, at i, is decoded, and two halves at the front of  *)
(* b are consumed.                                                         *)
FirstFrame(b, i) ==
  /\ i \in 1..Len(b) /\ i + 1 \in 1..Len(b)
  /\ b[i].part = "head" /\ b[i + 1].part = "tail"
  /\ \A j \in 1..(i - 1) : ~(b[j].part = "head" /\ b[j + 1].part = "tail")

LEMMA DecodeInOrder ==
  ASSUME NEW H, NEW b \in Seq(H), NEW n \in Seq(H), NEW i, FirstFrame(b, i),
         NEW M, NEW d \in Seq(M), NEW x \in M, NEW l,
         x.msg = b[i].msg, x.data = b[i + 1].msg,
         HeadsInOrder(b \o n, d, l), DecodedInOrder(d, l)
  PROVE  /\ HeadsInOrder(SubSeq(b, 3, Len(b)) \o n, Append(d, x), l)
         /\ DecodedInOrder(Append(d, x), l)
<1> DEFINE rest == SubSeq(b, 3, Len(b))
           q == b \o n
           u == rest \o n
           c == Append(d, x)
<1>1. /\ Len(b) \in Nat /\ Len(n) \in Nat /\ Len(d) \in Nat
      /\ i \in Nat /\ i >= 1 /\ i + 1 <= Len(b)
  BY DEF FirstFrame
<1>2. /\ rest \in Seq(H) /\ Len(rest) = Len(b) - 2
      /\ \A p \in 1..(Len(b) - 2) : rest[p] = b[2 + p]
  <2>1. 2 \in 0..Len(b) /\ 2 + 1 = 3
    BY <1>1
  <2>2. /\ SubSeq(b, 2 + 1, Len(b)) \in Seq(H)
        /\ Len(SubSeq(b, 2 + 1, Len(b))) = Len(b) - 2
        /\ \A p \in 1..(Len(b) - 2) : SubSeq(b, 2 + 1, Len(b))[p] = b[2 + p]
    BY <2>1, Cut
  <2> QED BY <2>1, <2>2
<1> HIDE DEF rest
<1>3. /\ Len(q) = Len(b) + Len(n)
      /\ \A p \in 1..(Len(b) + Len(n)) : q[p] = IF p <= Len(b) THEN b[p] ELSE n[p - Len(b)]
  BY ConcatProperties
<1>4. /\ Len(u) = Len(rest) + Len(n)
      /\ \A p \in 1..(Len(rest) + Len(n)) :
           u[p] = IF p <= Len(rest) THEN rest[p] ELSE n[p - Len(rest)]
  BY <1>2, ConcatProperties
<1>5. /\ Len(c) = Len(d) + 1 /\ c[Len(d) + 1] = x
      /\ \A j \in 1..Len(d) : c[j] = d[j]
  BY AppendProperties
<1>6. HeadsInOrder(q, d, l)
  OBVIOUS
<1> HIDE DEF q, u, c
<1>7. \A p \in 1..Len(u) : p + 2 \in 1..Len(q) /\ u[p] = q[p + 2]
  <2> SUFFICES ASSUME NEW p \in 1..Len(u)
               PROVE  p + 2 \in 1..Len(q) /\ u[p] = q[p + 2]
    OBVIOUS
  <2>1. p + 2 \in 1..Len(q) /\ p \in Nat /\ p >= 1
    BY <1>1, <1>2, <1>3, <1>4
  <2>2. CASE p <= Len(rest)
    <3>1. p \in 1..(Len(b) - 2) /\ p + 2 <= Len(b) /\ 2 + p = p + 2
      BY <1>1, <1>2, <2>1, <2>2
    <3>2. u[p] = rest[p] /\ rest[p] = b[2 + p] /\ q[p + 2] = b[p + 2]
      BY <1>2, <1>3, <1>4, <2>1, <2>2, <3>1
    <3> QED BY <2>1, <3>1, <3>2
  <2>3. CASE ~(p <= Len(rest))
    <3>1. ~(p + 2 <= Len(b)) /\ p - Len(rest) = (p + 2) - Len(b)
      BY <1>1, <1>2, <2>1, <2>3
    <3>2. u[p] = n[p - Len(rest)] /\ q[p + 2] = n[(p + 2) - Len(b)]
      BY <1>3, <1>4, <2>1, <2>3, <3>1
    <3> QED BY <2>1, <3>1, <3>2
  <2> QED BY <2>2, <2>3
<1>8. \A m : Done(d, m) => Done(c, m)
  <2> SUFFICES ASSUME NEW m, Done(d, m) PROVE Done(c, m)
    OBVIOUS
  <2>1. PICK j \in 1..Len(d) : d[j].msg = m /\ d[j].data = m
    BY DEF Done
  <2>2. j \in 1..Len(c) /\ c[j] = d[j]
    BY <1>1, <1>5
  <2> QED BY <2>1, <2>2 DEF Done
<1>9. \A p \in 1..Len(b) : q[p] = b[p]
  BY <1>1, <1>3
<1>10. HeadsInOrder(u, c, l)
  <2> SUFFICES ASSUME NEW s \in 1..Len(u), u[s].part = "head",
                      NEW m \in 1..(u[s].msg - 1),
                      ~(m \in l \/ Done(c, m))
               PROVE  \E t \in 1..(s - 2) : FrameOf(u, t, m)
    BY DEF HeadsInOrder
  <2>1. s + 2 \in 1..Len(q) /\ u[s] = q[s + 2]
    BY <1>7
  <2>2. PICK t \in 1..(s + 2 - 2) : FrameOf(q, t, m)
    BY <1>6, <1>8, <2>1 DEF HeadsInOrder
  <2>3. s \in Nat /\ t \in Nat /\ t >= 1 /\ t <= s /\ s <= Len(u)
    BY <1>1, <1>2, <1>4
  <2>4. CASE t >= 3
    <3> DEFINE r == t - 2
    <3>1. /\ r \in 1..(s - 2) /\ r \in 1..Len(u) /\ r + 1 \in 1..Len(u)
          /\ r + 2 = t /\ r + 1 + 2 = t + 1
      BY <1>1, <1>2, <1>4, <2>3, <2>4
    <3> HIDE DEF r
    <3>2. u[r] = q[r + 2] /\ u[r + 1] = q[r + 1 + 2]
      BY <1>7, <3>1
    <3> QED BY <2>2, <3>1, <3>2 DEF FrameOf
  <2>5. CASE t \in {1, 2}
    <3>1. t = i
      <4>1. CASE i < t
        <5>1. i = 1 /\ t = 2 /\ i + 1 = 2
          BY <1>1, <2>5, <4>1
        <5>2. 2 \in 1..Len(b)
          BY <1>1, <5>1
        <5>3. q[2] = b[2]
          BY <1>9, <5>2
        <5>4. b[2].part = "tail" /\ q[2].part = "head"
          BY <2>2, <5>1 DEF FirstFrame, FrameOf
        <5> QED BY <5>3, <5>4
      <4>2. CASE t < i
        <5>1. t \in 1..(i - 1) /\ t \in 1..Len(b) /\ t + 1 \in 1..Len(b)
          BY <1>1, <2>3, <4>2
        <5>2. q[t] = b[t] /\ q[t + 1] = b[t + 1]
          BY <1>9, <5>1
        <5> QED BY <2>2, <5>1, <5>2 DEF FirstFrame, FrameOf
      <4> QED BY <1>1, <2>3, <4>1, <4>2
    <3>2. q[i] = b[i] /\ q[i + 1] = b[i + 1]
      BY <1>9 DEF FirstFrame
    <3>3. x.msg = m /\ x.data = m
      BY <2>2, <3>1, <3>2 DEF FrameOf
    <3>4. Len(d) + 1 \in 1..Len(c)
      BY <1>1, <1>5
    <3>5. Done(c, m)
      BY <1>5, <3>3, <3>4 DEF Done
    <3> QED BY <3>5
  <2> QED BY <2>3, <2>4, <2>5
<1>11. DecodedInOrder(c, l)
  <2> SUFFICES ASSUME NEW j \in 1..Len(c), c[j].msg = c[j].data,
                      NEW m \in 1..(c[j].msg - 1), m \notin l
               PROVE  \E k \in 1..(j - 1) : c[k].msg = m /\ c[k].data = m
    BY DEF DecodedInOrder
  <2>1. CASE j \in 1..Len(d)
    <3>1. c[j] = d[j]
      BY <1>5, <2>1
    <3>2. PICK k \in 1..(j - 1) : d[k].msg = m /\ d[k].data = m
      BY <2>1, <3>1 DEF DecodedInOrder
    <3>3. k \in 1..Len(d)
      BY <1>1, <2>1
    <3>4. c[k] = d[k]
      BY <1>5, <3>3
    <3> QED BY <3>2, <3>4
  <2>2. CASE j = Len(d) + 1
    <3>1. c[j] = x
      BY <1>5, <2>2
    <3>2. i \in 1..Len(q) /\ i \in 1..Len(b) /\ i + 1 \in 1..Len(b)
      BY <1>1, <1>3
    <3>3. q[i] = b[i]
      BY <1>9, <3>2
    <3>4. q[i].part = "head" /\ q[i].msg = c[j].msg
      BY <3>1, <3>3 DEF FirstFrame
    <3>5. m \in 1..(q[i].msg - 1)
      BY <3>4
    <3>6. ~\E t \in 1..(i - 2) : FrameOf(q, t, m)
      <4> SUFFICES ASSUME NEW t \in 1..(i - 2), FrameOf(q, t, m) PROVE FALSE
        OBVIOUS
      <4>1. t \in 1..(i - 1) /\ t \in 1..Len(b) /\ t + 1 \in 1..Len(b)
        BY <1>1
      <4>2. q[t] = b[t] /\ q[t + 1] = b[t + 1]
        BY <1>9, <4>1
      <4> QED BY <4>1, <4>2 DEF FirstFrame, FrameOf
    <3>7. Done(d, m)
      BY <1>6, <3>2, <3>4, <3>5, <3>6 DEF HeadsInOrder
    <3>8. PICK k \in 1..Len(d) : d[k].msg = m /\ d[k].data = m
      BY <3>7 DEF Done
    <3>9. k \in 1..(j - 1) /\ c[k] = d[k]
      BY <1>1, <1>5, <2>2
    <3> QED BY <3>8, <3>9
  <2> QED BY <1>1, <1>5, <2>1, <2>2
<1> QED BY <1>10, <1>11 DEF u, c, rest

(* Losing more excuses more.                                               *)
LEMMA MoreLost ==
  ASSUME NEW d, NEW l, NEW f, l \subseteq f, DecodedInOrder(d, l)
  PROVE  DecodedInOrder(d, f)
BY DEF DecodedInOrder

(* What the server has read and will read, and what it has decoded.        *)
Stream == m_in_buffer["server"] \o net["server"]
Decodes == executed \o result["server"]

LEMMA Associates ==
  /\ \A p, q, r \in Seq(Halves) : (p \o q) \o r = p \o (q \o r)
  /\ \A p, q, r \in Seq(Messages) : (p \o q) \o r = p \o (q \o r)
<1>1. \A p, q, r \in Seq(Halves) : (p \o q) \o r = p \o (q \o r)
  BY ConcatAssociative
<1>2. \A p, q, r \in Seq(Messages) : (p \o q) \o r = p \o (q \o r)
  BY ConcatAssociative
<1> QED BY <1>1, <1>2

LEMMA OrderKept ==
  ASSUME OrderInv, "server" \notin closed', UNCHANGED lost,
         Stream' = Stream, Decodes' = Decodes
  PROVE  OrderInv'
<1>1. HeadsInOrder(Stream, Decodes, lost) /\ DecodedInOrder(Decodes, lost)
  BY DEF OrderInv, Stream, Decodes
<1>2. HeadsInOrder(Stream', Decodes', lost') /\ DecodedInOrder(Decodes', lost')
  BY <1>1
<1> QED BY <1>2 DEF OrderInv, Stream, Decodes

(* One ::write of the client: the halves are those of 1, 2, ... and arrive *)
(* behind the stream.                                                      *)
LEMMA AcceptedInOrder ==
  ASSUME TypeOK, NumberInv, OrderInv, NEW k \in 0..Len(Encoded("client")),
         Accepts("client", k), ClientMoves
  PROVE  OrderInv'
<1> DEFINE e == Encoded("client")
           p == SubSeq(e, 1, k)
           out == m_out_buffer["client"]
           b == m_in_buffer["server"]
           n == net["server"]
<1>1. /\ out \in Seq(Ids) /\ b \in Seq(Halves) /\ n \in Seq(Halves)
      /\ net \in [Sides -> Seq(Halves)]
      /\ "server" \notin closed /\ "client" \in Sides /\ Len(out) \in Nat
  BY PeerIs DEF TypeOK, OrderInv
<1>2. /\ e \in Seq(Halves) /\ Len(e) = 2 * Len(out)
      /\ \A i \in 1..(2 * Len(out)) :
           /\ e[i].msg = out[(i + 1) \div 2]
           /\ e[i].part = IF i % 2 = 1 THEN "head" ELSE "tail"
  BY <1>1, EncodedIs, IdsAre
<1>3. \A i \in 1..(2 * Len(out)) : (i + 1) \div 2 \in 1..Len(out)
  BY <1>1
<1>4. \A i \in 1..Len(out) : out[i] = i
  BY DEF NumberInv
<1>5. \A i \in 1..(2 * Len(out)) : e[i].msg = (i + 1) \div 2
  <2> SUFFICES ASSUME NEW i \in 1..(2 * Len(out)) PROVE e[i].msg = (i + 1) \div 2
    OBVIOUS
  <2>1. e[i].msg = out[(i + 1) \div 2] /\ (i + 1) \div 2 \in 1..Len(out)
    BY <1>2, <1>3
  <2> QED BY <1>4, <2>1, Zenon
<1>6. net' = [net EXCEPT !["server"] = n \o p]
  BY <1>1, PeerIs DEF Accepts
<1> HIDE DEF e
<1>7. k \in 0..Len(e)
  BY DEF e
<1>8. p \in Seq(Halves) /\ Len(p) = k /\ \A i \in 1..k : p[i] = e[i]
  BY <1>2, <1>7, Cut
<1> HIDE DEF p
<1>9. \A i \in 1..Len(p) : /\ p[i].msg = (i + 1) \div 2
                           /\ p[i].part = IF i % 2 = 1 THEN "head" ELSE "tail"
  <2> SUFFICES ASSUME NEW i \in 1..Len(p)
               PROVE  /\ p[i].msg = (i + 1) \div 2
                      /\ p[i].part = IF i % 2 = 1 THEN "head" ELSE "tail"
    OBVIOUS
  <2>1. i \in 1..k /\ i \in 1..(2 * Len(out))
    BY <1>1, <1>2, <1>7, <1>8
  <2> QED BY <1>2, <1>5, <1>8, <2>1
<1>10. HeadsInOrder(p, << >>, {})
  BY <1>8, <1>9, EncodedInOrder
<1>11. HeadsInOrder(b \o n, Decodes, lost) /\ DecodedInOrder(Decodes, lost)
  BY DEF OrderInv, Decodes
<1> HIDE DEF b, n
<1>12. b \o n \in Seq(Halves)
  BY <1>1
<1>13. HeadsInOrder((b \o n) \o p, Decodes, lost)
  BY <1>8, <1>10, <1>11, <1>12, AddedInOrder
<1>14. (b \o n) \o p = b \o (n \o p)
  BY <1>1, <1>8, Associates, Zenon
<1>15. HeadsInOrder(b \o (n \o p), Decodes, lost)
  BY <1>13, <1>14
<1>16. /\ net'["server"] = n \o p /\ m_in_buffer'["server"] = b
       /\ executed' = executed /\ result'["server"] = result["server"]
       /\ lost' = lost /\ "server" \notin closed'
  BY <1>1, <1>6, ClientLeavesServer, PeerIs DEF b, n
<1> QED BY <1>11, <1>15, <1>16 DEF OrderInv, Decodes

LEMMA OrderStep ==
  ASSUME TypeOK, NumberInv, OrderInv, Next
  PROVE  OrderInv'
<1> DEFINE b == m_in_buffer["server"]
           n == net["server"]
<1>1. /\ m_in_buffer \in [Sides -> Seq(Halves)] /\ net \in [Sides -> Seq(Halves)]
      /\ result \in [Sides -> Seq(Messages)] /\ executed \in Seq(Messages)
      /\ b \in Seq(Halves) /\ n \in Seq(Halves)
      /\ result["server"] \in Seq(Messages)
      /\ "server" \in Sides /\ "client" \in Sides /\ "server" \notin closed
      /\ Len(n) \in Nat /\ Len(b) \in Nat
  BY PeerIs DEF TypeOK, OrderInv
<1>2. ASSUME UNCHANGED <<b, n, lost, executed, result["server"]>>,
             "server" \notin closed'
      PROVE  OrderInv'
  BY <1>2, OrderKept DEF Stream, Decodes
<1>3. CASE OnWriteAll("client") \/ OnWritePart("client")
  <2>1. Encoded("client") \in Seq(Halves)
    BY <1>1, EncodedIs, IdsAre DEF TypeOK
  <2>2. PICK k \in 0..Len(Encoded("client")) : Accepts("client", k)
    <3>1. CASE OnWriteAll("client")
      BY <2>1, <3>1 DEF OnWriteAll
    <3>2. CASE OnWritePart("client")
      <4>1. Room("client") \in 0..Len(Encoded("client"))
        BY <2>1, <3>2 DEF OnWritePart
      <4> QED BY <3>2, <4>1 DEF OnWritePart
    <3> QED BY <1>3, <3>1, <3>2
  <2>3. ClientMoves
    BY <1>3 DEF ClientMoves, Loop
  <2> QED BY <2>2, <2>3, AcceptedInOrder
<1>4. CASE ClientMoves /\ ~OnWriteAll("client") /\ ~OnWritePart("client")
  <2>1. n' = n
    <3>1. CASE WriteMessage \/ ResetArrives
      BY <3>1 DEF WriteMessage, ResetArrives
    <3>2. CASE ClientCloses
      BY <1>1, <3>2 DEF ClientCloses
    <3>3. CASE ClientExcute \/ Report("client") \/ DecodeFrame("client")
               \/ DecodeTurns("client")
      BY <3>3 DEF ClientExcute, Report, DecodeFrame, DecodeTurns
    <3>4. CASE OnReadSome("client") \/ OnReadFull("client")
      BY <1>1, <3>4 DEF OnReadSome, OnReadFull
    <3>5. CASE OnReadAgain("client") \/ OnReadEof("client")
               \/ OnWriteBegin("client") \/ OnWriteAgain("client")
      BY <3>5 DEF OnReadAgain, OnReadEof, OnWriteBegin, OnWriteAgain
    <3>6. CASE \E e \in {"IN", "OUT"} : HandlerNotConnected("client", e)
      BY <3>6 DEF HandlerNotConnected
    <3> QED BY <1>4, <3>1, <3>2, <3>3, <3>4, <3>5, <3>6 DEF ClientMoves, Loop
  <2> QED BY <1>1, <1>2, <1>4, <2>1, ClientLeavesServer
<1>5. CASE OnReadSome("server")
  <2>1. PICK k \in 1..Len(n) :
          /\ m_in_buffer' = [m_in_buffer EXCEPT !["server"] = b \o SubSeq(n, 1, k)]
          /\ net' = [net EXCEPT !["server"] = SubSeq(n, k + 1, Len(n))]
    BY <1>1, <1>5 DEF OnReadSome
  <2> DEFINE got == SubSeq(n, 1, k)
             rest == SubSeq(n, k + 1, Len(n))
  <2>2. b' = b \o got /\ n' = rest
    BY <1>1, <2>1
  <2> HIDE DEF b, n
  <2>3. k \in 0..Len(n)
    OBVIOUS
  <2>4. got \in Seq(Halves) /\ rest \in Seq(Halves)
    BY <1>1, <2>3, Cut
  <2>5. got \o rest = n
    BY <1>1, <2>3, CutJoins
  <2> HIDE DEF got, rest
  <2>6. (b \o got) \o rest = b \o (got \o rest)
    BY <1>1, <2>4, Associates, Zenon
  <2>7. Stream' = Stream
    BY <2>2, <2>5, <2>6 DEF Stream, b, n
  <2>8. UNCHANGED <<lost, executed, result, closed>>
    BY <1>5 DEF OnReadSome
  <2> QED BY <1>1, <2>7, <2>8, OrderKept DEF Decodes
<1>6. CASE OnReadFull("server")
  <2> DEFINE k == Space("server")
  <2>1. /\ n' = SubSeq(n, k + 1, Len(n)) /\ Len(n) >= k
        /\ lost' = lost \cup {n[i].msg : i \in 1..k}
        /\ UNCHANGED <<b, executed, result, closed>>
    BY <1>1, <1>6 DEF OnReadFull
  <2>2. k \in 1..Len(n)
    BY <1>1, <2>1, SpaceIs
  <2> HIDE DEF k, b, n
  <2>3. lost \subseteq lost' /\ \A i \in 1..k : n[i].msg \in lost'
    BY <2>1
  <2>4. HeadsInOrder(b \o n, Decodes, lost) /\ DecodedInOrder(Decodes, lost)
    BY DEF OrderInv, Decodes, b, n
  <2>5. HeadsInOrder(b \o SubSeq(n, k + 1, Len(n)), Decodes, lost')
    BY <1>1, <2>2, <2>3, <2>4, FullReadInOrder
  <2>6. DecodedInOrder(Decodes, lost')
    BY <2>3, <2>4, MoreLost
  <2>7. Decodes' = Decodes
    BY <2>1 DEF Decodes
  <2>8. /\ m_in_buffer'["server"] = b /\ net'["server"] = SubSeq(n, k + 1, Len(n))
        /\ "server" \notin closed'
    BY <1>1, <2>1 DEF b, n
  <2> QED BY <2>5, <2>6, <2>7, <2>8 DEF OrderInv, Decodes
<1>7. CASE DecodeFrame("server")
  <2>1. PICK i \in DOMAIN b :
          /\ Frame(b, i) /\ \A j \in 1..(i - 1) : ~Frame(b, j)
          /\ result' = [result EXCEPT !["server"] =
               Append(result["server"], [msg |-> b[i].msg, data |-> b[i + 1].msg])]
    BY <1>1, <1>7 DEF DecodeFrame
  <2>2. /\ m_in_buffer' = [m_in_buffer EXCEPT !["server"] = SubSeq(b, 3, Len(b))]
        /\ UNCHANGED <<net, executed, lost, closed>>
    BY <1>7 DEF DecodeFrame
  <2> DEFINE x == [msg |-> b[i].msg, data |-> b[i + 1].msg]
  <2>3. /\ result'["server"] = Append(result["server"], x)
        /\ m_in_buffer'["server"] = SubSeq(b, 3, Len(b)) /\ net'["server"] = n
    BY <1>1, <2>1, <2>2
  <2> HIDE DEF b, n
  <2>4. i \in 1..Len(b) /\ i + 1 \in 1..Len(b) /\ DOMAIN b = 1..Len(b)
    BY <1>1, <2>1 DEF Frame
  <2>5. b[i] \in Halves /\ b[i + 1] \in Halves
    BY <1>1, <2>4
  <2>6. x \in Messages /\ x.msg = b[i].msg /\ x.data = b[i + 1].msg
    BY <2>5 DEF Halves, Messages
  <2>7. FirstFrame(b, i)
    <3>1. \A j \in 1..(i - 1) : j + 1 \in DOMAIN b
      BY <1>1, <2>4
    <3>2. \A j \in 1..(i - 1) : ~(b[j].part = "head" /\ b[j + 1].part = "tail")
      BY <2>1, <3>1 DEF Frame
    <3> QED BY <2>1, <2>4, <3>2 DEF FirstFrame, Frame
  <2> HIDE DEF x
  <2>8. HeadsInOrder(b \o n, Decodes, lost) /\ DecodedInOrder(Decodes, lost)
        /\ Decodes \in Seq(Messages)
    BY <1>1 DEF OrderInv, Decodes, b, n
  <2>9. /\ HeadsInOrder(SubSeq(b, 3, Len(b)) \o n, Append(Decodes, x), lost)
        /\ DecodedInOrder(Append(Decodes, x), lost)
    BY <1>1, <2>6, <2>7, <2>8, DecodeInOrder
  <2>10. executed \o Append(result["server"], x) = Append(Decodes, x)
    <3>1. <<x>> \in Seq(Messages)
      BY <2>6
    <3>2. Append(result["server"], x) = result["server"] \o <<x>>
      BY <1>1, <2>6, AppendIsConcat, Zenon
    <3>3. Append(Decodes, x) = Decodes \o <<x>>
      BY <2>6, <2>8, AppendIsConcat, Zenon
    <3>4. (executed \o result["server"]) \o <<x>> =
            executed \o (result["server"] \o <<x>>)
      BY <1>1, <3>1, Associates, Zenon
    <3> QED BY <3>2, <3>3, <3>4 DEF Decodes
  <2> QED BY <1>1, <2>2, <2>3, <2>9, <2>10 DEF OrderInv
<1>8. CASE ServerExcute
  <2>1. /\ executed' = executed \o result["server"] /\ result'["server"] = << >>
        /\ UNCHANGED <<m_in_buffer, net, lost, closed>>
    BY <1>1, <1>8 DEF ServerExcute, Decoded
  <2>2. (executed \o result["server"]) \o << >> = executed \o result["server"]
    BY <1>1, ConcatEmptySeq
  <2>3. Decodes' = Decodes /\ Stream' = Stream
    BY <2>1, <2>2 DEF Decodes, Stream
  <2> QED BY <1>1, <2>1, <2>3, OrderKept
<1>9. CASE OnWriteAll("server") \/ OnWritePart("server")
  <2>1. PICK k : Accepts("server", k)
    BY <1>9 DEF OnWriteAll, OnWritePart
  <2>2. n' = n
    BY <1>1, <2>1, PeerIs DEF Accepts
  <2>3. UNCHANGED <<m_in_buffer, lost, executed, result, closed>>
    BY <1>9 DEF OnWriteAll, OnWritePart
  <2> QED BY <1>1, <1>2, <2>2, <2>3
<1>10. CASE Construct \/ SetConnected \/ Register \/ OnWriteKilled("server")
  BY <1>1, <1>2, <1>10 DEF Construct, SetConnected, Register, OnWriteKilled
<1>11. CASE \/ Report("server") \/ OnReadAgain("server") \/ OnReadEof("server")
            \/ DecodeTurns("server") \/ OnWriteBegin("server")
            \/ OnWriteAgain("server")
            \/ \E e \in {"IN", "OUT"} : HandlerNotConnected("server", e)
  <2>1. UNCHANGED <<m_in_buffer, net, lost, executed, result, closed>>
    BY <1>11 DEF Report, OnReadAgain, OnReadEof, DecodeTurns, OnWriteBegin,
                 OnWriteAgain, HandlerNotConnected
  <2> QED BY <1>1, <1>2, <2>1
<1> QED
  BY <1>3, <1>4, <1>5, <1>6, <1>7, <1>8, <1>9, <1>10, <1>11
  DEF Next, AcceptThread, ServerLoop, ClientLoop, ClientMoves, Loop

(* However ::write cuts and repeats the stream and ::read splits it, a     *)
(* request is first executed, with its own data, only after all earlier    *)
(* ones, but for those of which the server has lost a half in a read that  *)
(* filled m_in_buffer.                                                     *)
THEOREM FirstExecutedKeepsOrder == Spec => []FirstExecutedInOrder
<1>1. Init => OrderInv
  <2> SUFFICES ASSUME Init PROVE OrderInv
    OBVIOUS
  <2>1. /\ m_in_buffer["server"] = << >> /\ net["server"] = << >>
        /\ result["server"] = << >> /\ executed = << >> /\ closed = {}
    BY PeerIs DEF Init
  <2>2. << >> \o << >> = << >> /\ Len(<< >>) = 0
    OBVIOUS
  <2> QED BY <2>1, <2>2 DEF OrderInv, HeadsInOrder, DecodedInOrder
<1>2. TypeOK /\ NumberInv /\ OrderInv /\ [Next]_vars => OrderInv'
  <2>1. CASE UNCHANGED vars
    BY <2>1, OrderKept DEF OrderInv, Stream, Decodes
  <2> QED BY <2>1, OrderStep
<1>3. TypeOK /\ OrderInv => FirstExecutedInOrder
  <2> SUFFICES ASSUME TypeOK, OrderInv, NEW i \in DOMAIN executed, Intact(i),
                      NEW m \in 1..(executed[i].msg - 1), m \notin lost
               PROVE  \E j \in 1..(i - 1) : Intact(j) /\ executed[j].msg = m
    BY DEF FirstExecutedInOrder
  <2>1. executed \in Seq(Messages) /\ result["server"] \in Seq(Messages)
    BY PeerIs DEF TypeOK
  <2>2. /\ Len(Decodes) = Len(executed) + Len(result["server"])
        /\ \A j \in 1..(Len(executed) + Len(result["server"])) :
             Decodes[j] = IF j <= Len(executed) THEN executed[j]
                          ELSE result["server"][j - Len(executed)]
    BY <2>1, ConcatProperties DEF Decodes
  <2>3. /\ Len(executed) \in Nat /\ Len(result["server"]) \in Nat
        /\ i \in 1..Len(executed)
    BY <2>1
  <2>4. \A j \in 1..i : j \in 1..Len(Decodes) /\ Decodes[j] = executed[j]
    BY <2>2, <2>3
  <2>5. i \in 1..Len(Decodes) /\ Decodes[i] = executed[i]
    BY <2>3, <2>4
  <2>6. DecodedInOrder(Decodes, lost)
    BY DEF OrderInv, Decodes
  <2>7. PICK j \in 1..(i - 1) : Decodes[j].msg = m /\ Decodes[j].data = m
    BY <2>5, <2>6 DEF DecodedInOrder, Intact
  <2>8. Decodes[j] = executed[j]
    BY <2>3, <2>4, <2>7
  <2> QED BY <2>7, <2>8 DEF Intact
<1> QED BY <1>1, <1>2, <1>3, ConnectionTypes, NumberInvHolds, PTL DEF Spec
=============================================================================
