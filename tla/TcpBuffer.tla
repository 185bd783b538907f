----------------------------- MODULE TcpBuffer -----------------------------
(***************************************************************************)
(* rpc::TcpBuffer: a growing byte vector with a read and a write index.    *)
(* m_buffer is the vector as a sequence, so the byte at index i is         *)
(* m_buffer[i + 1].                                                        *)
(*                                                                         *)
(* The repository uses a buffer in two ways.  An output buffer is written  *)
(* by encode (write_to_buffer) and emptied by read_from_buffer.  An input  *)
(* buffer is filled by TcpConnection::on_read, which lets ::read store     *)
(* bytes behind the write index and then calls adjust_write_index, and is  *)
(* consumed by decode (adjust_read_index).                                 *)
(***************************************************************************)
EXTENDS Naturals, Sequences

CONSTANTS Bytes,      \* the byte values
          Zero,       \* the byte a new vector is filled with
          InitSize,   \* the size given to the constructor
          MaxPiece,   \* bound: the largest piece written or read at once
          MaxSize,    \* bound: no write is started that could need more
          Roles       \* the kinds of buffer to look at: "in", "out"

ASSUME BytesAssumption == Zero \in Bytes
ASSUME SizeAssumption ==
         InitSize \in Nat \ {0} /\ MaxPiece \in Nat /\ MaxSize \in Nat
ASSUME RolesAssumption == Roles \subseteq {"in", "out"}

VARIABLES m_buffer, m_read_index, m_write_index,
          role,      \* whether this is an input or an output buffer
          expected,  \* the bytes handed to the buffer and not yet taken out
          refused    \* adjust_write_index has refused what ::read returned

vars == <<m_buffer, m_read_index, m_write_index, role, expected, refused>>

TypeOK ==
  /\ m_buffer \in Seq(Bytes)
  /\ m_read_index \in Nat
  /\ m_write_index \in Nat
  /\ role \in Roles
  /\ expected \in Seq(Bytes)
  /\ refused \in BOOLEAN

Zeros(n) == [i \in 1..n |-> Zero]

Init ==
  /\ m_buffer = Zeros(InitSize)
  /\ m_read_index = 0
  /\ m_write_index = 0
  /\ role \in Roles
  /\ expected = << >>
  /\ refused = FALSE

size == Len(m_buffer)

CanRead  == m_write_index - m_read_index
CanWrite == size - m_write_index

(* The bytes from index r up to, and without, index w of vector v.         *)
Between(v, r, w) == SubSeq(v, r + 1, w)

Content == Between(m_buffer, m_read_index, m_write_index)

Pieces == UNION {[1..n -> Bytes] : n \in 1..MaxPiece}

(* v with piece stored from index at on, as memcpy and ::read do.          *)
Store(v, at, piece) ==
  [i \in 1..Len(v) |-> IF i \in (at + 1)..(at + Len(piece))
                         THEN piece[i - at] ELSE v[i]]

(* A new vector of n bytes that starts with the unread bytes of v.         *)
MovedToFront(v, r, w, n) == Between(v, r, w) \o Zeros(n - (w - r))

(* A bug to catch: the indices are moved and the bytes are not.            *)
AdjustBufferIndicesOnly(v, r, w) ==
  /\ m_buffer' = v
  /\ m_read_index' = IF r < Len(v) \div 3 THEN r ELSE 0
  /\ m_write_index' = IF r < Len(v) \div 3 THEN w ELSE w - r

(* adjust_buffer on vector v and indices r and w: nothing while less than  *)
(* a third has been read.                                                  *)
AdjustBuffer(v, r, w) ==
  IF r < Len(v) \div 3
    THEN m_buffer' = v /\ m_read_index' = r /\ m_write_index' = w
    ELSE /\ m_buffer' = MovedToFront(v, r, w, Len(v))
         /\ m_read_index' = 0
         /\ m_write_index' = w - r

-----------------------------------------------------------------------------
(* A bug to catch: the new size forgets the bytes that are already there.  *)
NewSizeShort(n) == (3 * n) \div 2

(* static_cast<int>(1.5 * (m_write_index + size)).                         *)
NewSize(n) == (3 * (m_write_index + n)) \div 2

(* write_to_buffer, with resize_buffer when the piece does not fit.        *)
WriteToBuffer(piece) ==
  LET n == Len(piece)
      count == IF CanRead <= NewSize(n) THEN CanRead ELSE NewSize(n)
      moved == MovedToFront(m_buffer, m_read_index, m_read_index + count,
                            NewSize(n))
  IN /\ (3 * (m_write_index + n)) \div 2 <= MaxSize
     /\ IF n > CanWrite
          THEN /\ m_buffer' = Store(moved, count, piece)
               /\ m_read_index' = 0
               /\ m_write_index' = count + n
          ELSE /\ m_buffer' = Store(m_buffer, m_write_index, piece)
               /\ m_write_index' = m_write_index + n
               /\ UNCHANGED m_read_index
     /\ expected' = expected \o piece

(* A bug to catch: as many bytes are taken as were asked for.              *)
ReadFromBufferUnbounded(n) ==
  /\ CanRead # 0
  /\ AdjustBuffer(m_buffer, m_read_index + n, m_write_index)
  /\ expected' = SubSeq(expected, n + 1, Len(expected))

(* read_from_buffer(re, n): the bytes go to re.                            *)
ReadFromBuffer(n) ==
  LET read_size == IF n <= CanRead THEN n ELSE CanRead
  IN /\ CanRead # 0
     /\ AdjustBuffer(m_buffer, m_read_index + read_size, m_write_index)
     /\ expected' = SubSeq(expected, read_size + 1, Len(expected))

(* adjust_read_index, as decode calls it: with the length of a packet      *)
(* that lies between the indices.                                          *)
AdjustReadIndex(n) ==
  LET j == m_read_index + n
  IN /\ n <= CanRead
     /\ IF j >= size
          THEN UNCHANGED <<m_buffer, m_read_index, m_write_index>>
          ELSE AdjustBuffer(m_buffer, j, m_write_index)
     /\ expected' = SubSeq(expected, n + 1, Len(expected))
     /\ UNCHANGED refused

(* adjust_write_index of a vector v with indices r and w: it refuses an    *)
(* index equal to the size of the vector.                                  *)
AdjustWriteIndex(v, r, w, n) ==
  IF w + n >= Len(v)
    THEN m_buffer' = v /\ m_read_index' = r /\ m_write_index' = w
    ELSE AdjustBuffer(v, r, w + n)

(* One turn of on_read's loop: the vector is doubled when it is full, and  *)
(* ::read stores at most as many bytes as there is room for.  Once bytes   *)
(* have been refused nothing is expected of the content any more.          *)
Fill(piece) ==
  LET full == CanWrite = 0
      v == IF full THEN MovedToFront(m_buffer, m_read_index, m_write_index,
                                     2 * size)
                   ELSE m_buffer
      r == IF full THEN 0 ELSE m_read_index
      w == IF full THEN CanRead ELSE m_write_index
      n == Len(piece)
      read_count == Len(v) - w
  IN /\ n <= read_count
     /\ AdjustWriteIndex(Store(v, w, piece), r, w, n)
     /\ refused' = (refused \/ n = read_count)
     /\ expected' = IF refused' THEN << >> ELSE expected \o piece

Next ==
  \/ /\ role = "out" /\ UNCHANGED <<role, refused>>
     /\ \/ \E piece \in Pieces : WriteToBuffer(piece)
        \/ \E n \in 1..MaxPiece : ReadFromBuffer(n)
  \/ /\ role = "in" /\ UNCHANGED role
     /\ \/ \E piece \in Pieces : Fill(piece)
        \/ \E n \in 1..MaxPiece : AdjustReadIndex(n)

Spec == Init /\ [][Next]_vars

-----------------------------------------------------------------------------
(* Properties.                                                             *)

(* The indices stay ordered and inside the vector: no operation reads or   *)
(* stores outside m_buffer, however writes, reads, compaction and growth   *)
(* are interleaved.                                                        *)
IndicesInBounds ==
  m_read_index <= m_write_index /\ m_write_index <= Len(m_buffer)

(* What lies between the indices is exactly what was handed to the buffer  *)
(* and not yet taken out, in order: growing (resize_buffer), compacting    *)
(* (adjust_buffer) and storing keep every unread byte.  In an input buffer *)
(* the only exception is a ::read that returned all it was asked for,      *)
(* whose bytes adjust_write_index refuses.                                 *)
ContentIsExpected == refused \/ Content = expected
=============================================================================
