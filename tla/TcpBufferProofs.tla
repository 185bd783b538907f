--------------------------- MODULE TcpBufferProofs ---------------------------
(* Proofs about TcpBuffer for any set of bytes, any initial size and any   *)
(* pieces: the indices stay in the vector, and no byte is lost, repeated   *)
(* or changed by growing, compacting and storing.                          *)
EXTENDS TcpBuffer, SequenceTheorems, TLAPS

-----------------------------------------------------------------------------
(* The operators.                                                          *)

LEMMA BetweenIs ==
  ASSUME NEW v \in Seq(Bytes), NEW r \in Nat, NEW w \in Nat, r <= w, w <= Len(v)
  PROVE  /\ Between(v, r, w) \in Seq(Bytes)
         /\ Len(Between(v, r, w)) = w - r
         /\ \A i \in 1..(w - r) : Between(v, r, w)[i] = v[r + i]
BY DEF Between

LEMMA ZerosAre ==
  ASSUME NEW n \in Nat
  PROVE  Zeros(n) \in Seq(Bytes) /\ Len(Zeros(n)) = n
BY BytesAssumption DEF Zeros

LEMMA ZeroAt ==
  ASSUME NEW n \in Nat, NEW i \in 1..n
  PROVE  Zeros(n)[i] = Zero
BY DEF Zeros

(* The new vector begins with the unread bytes.                            *)
LEMMA MovedIs ==
  ASSUME NEW v \in Seq(Bytes), NEW r \in Nat, NEW w \in Nat, r <= w, w <= Len(v),
         NEW n \in Nat, w - r <= n
  PROVE  /\ MovedToFront(v, r, w, n) \in Seq(Bytes)
         /\ Len(MovedToFront(v, r, w, n)) = n
         /\ \A i \in 1..(w - r) : MovedToFront(v, r, w, n)[i] = v[r + i]
<1> DEFINE b == Between(v, r, w)
           z == Zeros(n - (w - r))
<1>1. /\ b \in Seq(Bytes) /\ Len(b) = w - r
      /\ \A i \in 1..(w - r) : b[i] = v[r + i]
  BY BetweenIs
<1>2. z \in Seq(Bytes) /\ Len(z) = n - (w - r)
  BY ZerosAre
<1>3. MovedToFront(v, r, w, n) = b \o z
  BY DEF MovedToFront
<1> HIDE DEF b, z
<1>4. /\ b \o z \in Seq(Bytes) /\ Len(b \o z) = Len(b) + Len(z)
      /\ \A i \in 1..(Len(b) + Len(z)) :
           (b \o z)[i] = IF i <= Len(b) THEN b[i] ELSE z[i - Len(b)]
  BY <1>1, <1>2, ConcatProperties, Zenon
<1> QED BY <1>1, <1>2, <1>3, <1>4

(* The rest of it is zero.                                                 *)
LEMMA MovedZeros ==
  ASSUME NEW v \in Seq(Bytes), NEW r \in Nat, NEW w \in Nat, r <= w, w <= Len(v),
         NEW n \in Nat, w - r <= n, NEW i \in (w - r + 1)..n
  PROVE  MovedToFront(v, r, w, n)[i] = Zero
<1> DEFINE b == Between(v, r, w)
           k == n - (w - r)
           z == Zeros(k)
<1>1. b \in Seq(Bytes) /\ Len(b) = w - r
  BY BetweenIs
<1>2. k \in Nat
  OBVIOUS
<1>3. MovedToFront(v, r, w, n) = b \o z
  BY DEF MovedToFront
<1>4. i - Len(b) \in 1..k
  BY <1>1
<1>5. z \in Seq(Bytes) /\ Len(z) = k /\ z[i - Len(b)] = Zero
  <2> HIDE DEF b, k
  <2> QED BY <1>2, <1>4, ZerosAre, ZeroAt
<1>6. i \in 1..(Len(b) + Len(z)) /\ ~(i <= Len(b))
  <2> HIDE DEF b, z
  <2> QED BY <1>1, <1>5
<1> HIDE DEF b, z
<1>7. \A j \in 1..(Len(b) + Len(z)) :
        (b \o z)[j] = IF j <= Len(b) THEN b[j] ELSE z[j - Len(b)]
  BY <1>1, <1>5, ConcatProperties, Zenon
<1> QED BY <1>3, <1>5, <1>6, <1>7

LEMMA StoreIs ==
  ASSUME NEW v \in Seq(Bytes), NEW at \in Nat, NEW piece \in Seq(Bytes),
         at + Len(piece) <= Len(v)
  PROVE  /\ Store(v, at, piece) \in Seq(Bytes)
         /\ Len(Store(v, at, piece)) = Len(v)
         /\ \A i \in 1..Len(v) : Store(v, at, piece)[i] =
              IF i \in (at + 1)..(at + Len(piece)) THEN piece[i - at] ELSE v[i]
BY DEF Store

(* The content after a store is the content before it and the piece.       *)
LEMMA StoredContent ==
  ASSUME NEW v \in Seq(Bytes), NEW r \in Nat, NEW w \in Nat, r <= w,
         NEW piece \in Seq(Bytes), w + Len(piece) <= Len(v)
  PROVE  Between(Store(v, w, piece), r, w + Len(piece))
           = Between(v, r, w) \o piece
<1> DEFINE s == Store(v, w, piece)
           b == Between(v, r, w)
           x == w + Len(piece)
<1>1. /\ s \in Seq(Bytes) /\ Len(s) = Len(v)
      /\ \A i \in 1..Len(v) : s[i] = IF i \in (w + 1)..x THEN piece[i - w] ELSE v[i]
  BY StoreIs
<1>2. /\ b \in Seq(Bytes) /\ Len(b) = w - r
      /\ \A i \in 1..(w - r) : b[i] = v[r + i]
  <2>1. w <= Len(v)
    OBVIOUS
  <2> QED BY <2>1, BetweenIs
<1>3. x \in Nat /\ r <= x /\ x <= Len(v)
  OBVIOUS
<1> HIDE DEF s, b
<1>4. /\ Between(s, r, x) \in Seq(Bytes)
      /\ Len(Between(s, r, x)) = x - r
      /\ \A i \in 1..(x - r) : Between(s, r, x)[i] = s[r + i]
  BY <1>1, <1>3, BetweenIs
<1>5. /\ b \o piece \in Seq(Bytes) /\ Len(b \o piece) = x - r
      /\ \A i \in 1..(x - r) : (b \o piece)[i] = IF i <= w - r THEN b[i] ELSE piece[i - (w - r)]
  <2>1. /\ b \o piece \in Seq(Bytes) /\ Len(b \o piece) = Len(b) + Len(piece)
        /\ \A i \in 1..(Len(b) + Len(piece)) :
             (b \o piece)[i] = IF i <= Len(b) THEN b[i] ELSE piece[i - Len(b)]
    BY <1>2, ConcatProperties, Zenon
  <2>2. Len(b) + Len(piece) = x - r
    BY <1>2
  <2> QED BY <1>2, <2>1, <2>2, Zenon
<1>6. \A i \in 1..(x - r) : Between(s, r, x)[i] = (b \o piece)[i]
  <2> TAKE i \in 1..(x - r)
  <2>1. r + i \in 1..Len(v)
    OBVIOUS
  <2>2. CASE i <= w - r
    BY <1>1, <1>2, <1>4, <1>5, <2>1, <2>2
  <2>3. CASE ~(i <= w - r)
    <3>1. r + i \in (w + 1)..x /\ (r + i) - w = i - (w - r)
      BY <2>3
    <3> QED BY <1>1, <1>4, <1>5, <2>1, <2>3, <3>1
  <2> QED BY <2>2, <2>3
<1> QED BY <1>4, <1>5, <1>6, SeqEqual DEF s, b

(* The content of the new vector is that of the old one.                   *)
LEMMA MovedContent ==
  ASSUME NEW v \in Seq(Bytes), NEW r \in Nat, NEW w \in Nat, r <= w, w <= Len(v),
         NEW n \in Nat, w - r <= n
  PROVE  Between(MovedToFront(v, r, w, n), 0, w - r) = Between(v, r, w)
<1> DEFINE m == MovedToFront(v, r, w, n)
<1>1. /\ m \in Seq(Bytes) /\ Len(m) = n
      /\ \A i \in 1..(w - r) : m[i] = v[r + i]
  BY MovedIs
<1>2. w - r \in Nat
  OBVIOUS
<1> HIDE DEF m
<1>3. /\ Between(m, 0, w - r) \in Seq(Bytes)
      /\ Len(Between(m, 0, w - r)) = w - r
      /\ \A i \in 1..(w - r) : Between(m, 0, w - r)[i] = m[i]
  <2>1. PICK x \in Nat : x = w - r /\ x <= Len(m)
    BY <1>1, <1>2
  <2>2. /\ Between(m, 0, x) \in Seq(Bytes)
        /\ Len(Between(m, 0, x)) = x - 0
        /\ \A i \in 1..(x - 0) : Between(m, 0, x)[i] = m[0 + i]
    <3>1. 0 \in Nat /\ 0 <= x
      OBVIOUS
    <3> QED BY <1>1, <2>1, <3>1, BetweenIs, ZenonT(40)
  <2>3. /\ Len(Between(m, 0, x)) = x
        /\ \A i \in 1..x : Between(m, 0, x)[i] = m[i]
    BY <2>2
  <2> QED BY <2>1, <2>2, <2>3, Zenon
<1>4. /\ Between(v, r, w) \in Seq(Bytes) /\ Len(Between(v, r, w)) = w - r
      /\ \A i \in 1..(w - r) : Between(v, r, w)[i] = v[r + i]
  BY BetweenIs
<1>5. \A i \in 1..(w - r) : Between(m, 0, w - r)[i] = Between(v, r, w)[i]
  BY <1>1, <1>3, <1>4
<1> QED BY <1>3, <1>4, <1>5, SeqEqual DEF m

(* Reading n bytes takes the first n of the content.                       *)
LEMMA TakenContent ==
  ASSUME NEW v \in Seq(Bytes), NEW r \in Nat, NEW w \in Nat, r <= w, w <= Len(v),
         NEW n \in Nat, n <= w - r
  PROVE  Between(v, r + n, w)
           = SubSeq(Between(v, r, w), n + 1, Len(Between(v, r, w)))
<1> DEFINE b == Between(v, r, w)
<1>1. /\ b \in Seq(Bytes) /\ Len(b) = w - r
      /\ \A i \in 1..(w - r) : b[i] = v[r + i]
  BY BetweenIs
<1>2. r + n \in Nat /\ r + n <= w
  OBVIOUS
<1> HIDE DEF b
<1>3. /\ Between(v, r + n, w) \in Seq(Bytes)
      /\ Len(Between(v, r + n, w)) = w - (r + n)
      /\ \A i \in 1..(w - (r + n)) : Between(v, r + n, w)[i] = v[(r + n) + i]
  BY <1>2, BetweenIs
<1>4. /\ SubSeq(b, n + 1, w - r) \in Seq(Bytes)
      /\ Len(SubSeq(b, n + 1, w - r)) = w - (r + n)
      /\ \A i \in 1..(w - (r + n)) : SubSeq(b, n + 1, w - r)[i] = b[n + i]
  BY <1>1
<1>5. \A i \in 1..(w - (r + n)) :
        Between(v, r + n, w)[i] = SubSeq(b, n + 1, w - r)[i]
  <2> TAKE i \in 1..(w - (r + n))
  <2>1. n + i \in 1..(w - r) /\ r + (n + i) = (r + n) + i
    OBVIOUS
  <2> QED BY <1>1, <1>3, <1>4, <2>1
<1> QED BY <1>1, <1>3, <1>4, <1>5, SeqEqual DEF b

(* The pieces that are written and read.                                   *)
LEMMA PiecesAre ==
  ASSUME NEW piece \in Pieces
  PROVE  piece \in Seq(Bytes) /\ Len(piece) \in Nat \ {0}
<1>1. PICK n \in 1..MaxPiece : piece \in [1..n -> Bytes]
  BY DEF Pieces
<1>2. n \in Nat \ {0}
  BY <1>1, SizeAssumption
<1> QED BY <1>1, <1>2

-----------------------------------------------------------------------------
(* The steps.                                                              *)

(* The buffer is well formed, and its content is the expected bytes c.     *)
Sound(buffer, r, w, c) ==
  /\ buffer \in Seq(Bytes) /\ Len(buffer) > 0
  /\ r \in Nat /\ w \in Nat /\ r <= w /\ w <= Len(buffer)
  /\ Between(buffer, r, w) = c

(* Nothing is left behind the write index.                                 *)
Blank(buffer, w) == \A i \in (w + 1)..Len(buffer) : buffer[i] = Zero

(* An input buffer is never full: adjust_write_index refuses the index     *)
(* equal to the size, so that on_read's resize_buffer is never reached.    *)
(* Until it refuses one, the bytes behind the write index are zero.        *)
BufferInv ==
  /\ TypeOK
  /\ Len(m_buffer) > 0
  /\ IndicesInBounds
  /\ role = "in" => m_write_index < Len(m_buffer)
  /\ role = "in" => refused \/ Blank(m_buffer, m_write_index)
  /\ ContentIsExpected

(* adjust_buffer keeps the content.                                        *)
LEMMA AdjustKeeps ==
  ASSUME NEW v, NEW r, NEW w, NEW c, Sound(v, r, w, c), AdjustBuffer(v, r, w)
  PROVE  /\ Sound(m_buffer', m_read_index', m_write_index', c)
         /\ w < Len(v) => m_write_index' < Len(m_buffer')
<1>1. CASE r < Len(v) \div 3
  <2>1. m_buffer' = v /\ m_read_index' = r /\ m_write_index' = w
    BY <1>1, Zenon DEF AdjustBuffer
  <2> QED BY <2>1, Zenon DEF Sound
<1>2. CASE ~(r < Len(v) \div 3)
  <2>1. /\ m_buffer' = MovedToFront(v, r, w, Len(v)) /\ m_read_index' = 0
        /\ m_write_index' = w - r
    BY <1>2, Zenon DEF AdjustBuffer
  <2>2. /\ v \in Seq(Bytes) /\ Len(v) \in Nat /\ Len(v) > 0 /\ r \in Nat /\ w \in Nat
        /\ r <= w /\ w <= Len(v) /\ Between(v, r, w) = c
    BY LenProperties, Zenon DEF Sound
  <2>3. w - r \in Nat /\ w - r <= w /\ w - r <= Len(v) /\ 0 <= w - r
    BY <2>2
  <2>4. /\ MovedToFront(v, r, w, Len(v)) \in Seq(Bytes)
        /\ Len(MovedToFront(v, r, w, Len(v))) = Len(v)
    BY <2>2, <2>3, MovedIs, ZenonT(40)
  <2>5. Between(MovedToFront(v, r, w, Len(v)), 0, w - r) = c
    BY <2>2, <2>3, MovedContent, ZenonT(40)
  <2> HIDE DEF MovedToFront
  <2>6. w < Len(v) => m_write_index' < Len(m_buffer')
    BY <2>1, <2>2, <2>3, <2>4
  <2> QED BY <2>1, <2>2, <2>3, <2>4, <2>5, <2>6, Zenon DEF Sound
<1> QED BY <1>1, <1>2

(* adjust_buffer leaves nothing behind the write index.                    *)
LEMMA AdjustBlanks ==
  ASSUME NEW v, NEW r, NEW w, NEW c, Sound(v, r, w, c), AdjustBuffer(v, r, w),
         Blank(v, w)
  PROVE  Blank(m_buffer', m_write_index')
<1>1. CASE r < Len(v) \div 3
  <2>1. m_buffer' = v /\ m_read_index' = r /\ m_write_index' = w
    BY <1>1, Zenon DEF AdjustBuffer
  <2> QED BY <2>1
<1>2. CASE ~(r < Len(v) \div 3)
  <2>1. /\ m_buffer' = MovedToFront(v, r, w, Len(v)) /\ m_read_index' = 0
        /\ m_write_index' = w - r
    BY <1>2, Zenon DEF AdjustBuffer
  <2>2. /\ v \in Seq(Bytes) /\ Len(v) \in Nat /\ Len(v) > 0 /\ r \in Nat /\ w \in Nat
        /\ r <= w /\ w <= Len(v)
    BY LenProperties, Zenon DEF Sound
  <2>3. w - r <= Len(v)
    BY <2>2
  <2>4. /\ Len(MovedToFront(v, r, w, Len(v))) = Len(v)
        /\ \A i \in (w - r + 1)..Len(v) : MovedToFront(v, r, w, Len(v))[i] = Zero
    <3>1. Len(MovedToFront(v, r, w, Len(v))) = Len(v)
      BY <2>2, <2>3, MovedIs, ZenonT(40)
    <3>2. \A i \in (w - r + 1)..Len(v) : MovedToFront(v, r, w, Len(v))[i] = Zero
      BY <2>2, <2>3, MovedZeros, ZenonT(40)
    <3> QED BY <3>1, <3>2, Zenon
  <2> HIDE DEF MovedToFront
  <2> QED BY <2>1, <2>4 DEF Blank
<1> QED BY <1>1, <1>2

(* Storing a piece behind the write index appends it to the content.       *)
LEMMA StoreKeeps ==
  ASSUME NEW v, NEW r, NEW w, NEW c, Sound(v, r, w, c),
         NEW piece \in Seq(Bytes), w + Len(piece) <= Len(v)
  PROVE  /\ Sound(Store(v, w, piece), r, w + Len(piece), c \o piece)
         /\ Sound(Store(v, w, piece), r, w, c)
<1>1. /\ v \in Seq(Bytes) /\ Len(v) \in Nat /\ Len(v) > 0 /\ r \in Nat /\ w \in Nat
      /\ r <= w /\ w <= Len(v) /\ Between(v, r, w) = c /\ Len(piece) \in Nat
  BY LenProperties, Zenon DEF Sound
<1>2. /\ Store(v, w, piece) \in Seq(Bytes) /\ Len(Store(v, w, piece)) = Len(v)
      /\ \A i \in 1..Len(v) : Store(v, w, piece)[i] =
           IF i \in (w + 1)..(w + Len(piece)) THEN piece[i - w] ELSE v[i]
  BY <1>1, StoreIs
<1>3. Between(Store(v, w, piece), r, w + Len(piece)) = c \o piece
  BY <1>1, StoredContent, Zenon
<1>4. w + Len(piece) \in Nat /\ r <= w + Len(piece)
  BY <1>1
<1>5. Between(Store(v, w, piece), r, w) = c
  <2> DEFINE s == Store(v, w, piece)
  <2>1. /\ s \in Seq(Bytes) /\ Len(s) = Len(v)
        /\ \A i \in 1..Len(v) :
             s[i] = IF i \in (w + 1)..(w + Len(piece)) THEN piece[i - w] ELSE v[i]
    BY <1>2
  <2> HIDE DEF s
  <2>2. /\ Between(s, r, w) \in Seq(Bytes) /\ Len(Between(s, r, w)) = w - r
        /\ \A i \in 1..(w - r) : Between(s, r, w)[i] = s[r + i]
    <3>1. w <= Len(s)
      BY <1>1, <2>1, Zenon
    <3> QED BY <1>1, <2>1, <3>1, BetweenIs, ZenonT(40)
  <2>3. /\ Between(v, r, w) \in Seq(Bytes) /\ Len(Between(v, r, w)) = w - r
        /\ \A i \in 1..(w - r) : Between(v, r, w)[i] = v[r + i]
    BY <1>1, BetweenIs
  <2>4. \A i \in 1..(w - r) : s[r + i] = v[r + i]
    <3> TAKE i \in 1..(w - r)
    <3>1. r + i \in 1..Len(v) /\ r + i \notin (w + 1)..(w + Len(piece))
      BY <1>1
    <3> QED BY <2>1, <3>1, Zenon
  <2>5. Between(s, r, w) = Between(v, r, w)
    BY <2>2, <2>3, <2>4, SeqEqual
  <2> QED BY <1>1, <2>5 DEF s
<1> HIDE DEF Store
<1>6. Len(Store(v, w, piece)) > 0 /\ w + Len(piece) <= Len(Store(v, w, piece))
      /\ w <= Len(Store(v, w, piece))
  BY <1>1, <1>2, Zenon
<1> QED BY <1>1, <1>2, <1>3, <1>4, <1>5, <1>6, Zenon DEF Sound

(* Taking n bytes of the content.                                          *)
LEMMA TakeKeeps ==
  ASSUME NEW v, NEW r, NEW w, NEW c, Sound(v, r, w, c), NEW n \in Nat, n <= w - r
  PROVE  Sound(v, r + n, w, SubSeq(c, n + 1, Len(c)))
<1>1. /\ v \in Seq(Bytes) /\ Len(v) \in Nat /\ Len(v) > 0 /\ r \in Nat /\ w \in Nat
      /\ r <= w /\ w <= Len(v) /\ Between(v, r, w) = c
  BY LenProperties, Zenon DEF Sound
<1>2. r + n \in Nat /\ r + n <= w
  BY <1>1
<1>3. Between(v, r + n, w) = SubSeq(c, n + 1, Len(c))
  BY <1>1, TakenContent, Zenon
<1> QED BY <1>1, <1>2, <1>3, Zenon DEF Sound

(* Moving the content to a longer vector.                                  *)
LEMMA MoveKeeps ==
  ASSUME NEW v, NEW r, NEW w, NEW c, Sound(v, r, w, c), NEW n \in Nat \ {0},
         w - r <= n
  PROVE  /\ Sound(MovedToFront(v, r, w, n), 0, w - r, c)
         /\ Len(MovedToFront(v, r, w, n)) = n
<1>1. /\ v \in Seq(Bytes) /\ Len(v) \in Nat /\ Len(v) > 0 /\ r \in Nat /\ w \in Nat
      /\ r <= w /\ w <= Len(v) /\ Between(v, r, w) = c
  BY LenProperties, Zenon DEF Sound
<1>2. n \in Nat /\ n > 0 /\ 0 \in Nat
  OBVIOUS
<1>3. MovedToFront(v, r, w, n) \in Seq(Bytes) /\ Len(MovedToFront(v, r, w, n)) = n
  <2>1. v \in Seq(Bytes) /\ r \in Nat /\ w \in Nat /\ r <= w /\ w <= Len(v)
        /\ n \in Nat /\ w - r <= n
    BY <1>1, <1>2
  <2> QED BY ONLY <2>1, MovedIs
<1>4. Between(MovedToFront(v, r, w, n), 0, w - r) = c
  <2>1. Between(MovedToFront(v, r, w, n), 0, w - r) = Between(v, r, w)
    BY <1>1, <1>2, MovedContent
  <2> QED BY <1>1, <2>1, Zenon
<1>5. w - r \in Nat /\ 0 <= w - r
  BY <1>1
<1> QED BY <1>2, <1>3, <1>4, <1>5, Zenon DEF Sound

(* What the operations do to a sound buffer.                               *)
BufferIs(c) == Sound(m_buffer, m_read_index, m_write_index, c)

LEMMA WriteStep ==
  ASSUME NEW c, BufferIs(c), NEW piece \in Pieces, WriteToBuffer(piece)
  PROVE  BufferIs(c \o piece)'
<1> DEFINE n == Len(piece)
           new == NewSize(n)
           moved == MovedToFront(m_buffer, m_read_index, m_write_index, new)
<1>1. piece \in Seq(Bytes) /\ n \in Nat \ {0}
  BY PiecesAre
<1>2. /\ m_buffer \in Seq(Bytes) /\ Len(m_buffer) \in Nat /\ Len(m_buffer) > 0
      /\ m_read_index \in Nat /\ m_write_index \in Nat
      /\ m_read_index <= m_write_index /\ m_write_index <= Len(m_buffer)
  BY LenProperties, Zenon DEF BufferIs, Sound
<1>3. /\ new \in Nat \ {0} /\ CanRead \in Nat /\ CanRead + n <= new
      /\ CanRead <= new /\ m_read_index + CanRead = m_write_index
      /\ CanRead = m_write_index - m_read_index
  BY <1>1, <1>2 DEF NewSize, CanRead
<1> HIDE DEF new
<1>4. CASE n > CanWrite
  <2>1. /\ m_buffer' = Store(moved, CanRead, piece)
        /\ m_read_index' = 0 /\ m_write_index' = CanRead + n
    BY <1>3, <1>4, Zenon DEF WriteToBuffer, new
  <2>2. Sound(moved, 0, CanRead, c) /\ Len(moved) = new
    BY <1>3, MoveKeeps DEF BufferIs
  <2> HIDE DEF moved
  <2>3. CanRead + Len(piece) <= Len(moved)
    BY <1>3, <2>2
  <2>4. Sound(Store(moved, CanRead, piece), 0, CanRead + Len(piece), c \o piece)
    BY <1>1, <2>2, <2>3, StoreKeeps, Zenon
  <2> QED BY <2>1, <2>4, Zenon DEF BufferIs
<1>5. CASE ~(n > CanWrite)
  <2>1. /\ m_buffer' = Store(m_buffer, m_write_index, piece)
        /\ m_read_index' = m_read_index /\ m_write_index' = m_write_index + n
    BY <1>5, Zenon DEF WriteToBuffer
  <2>2. m_write_index + Len(piece) <= Len(m_buffer)
    BY <1>1, <1>2, <1>5 DEF CanWrite, size
  <2>3. Sound(Store(m_buffer, m_write_index, piece), m_read_index,
              m_write_index + Len(piece), c \o piece)
    BY <1>1, <2>2, StoreKeeps, Zenon DEF BufferIs
  <2> QED BY <2>1, <2>3, Zenon DEF BufferIs
<1> QED BY <1>4, <1>5

LEMMA ReadStep ==
  ASSUME NEW c, BufferIs(c), NEW n \in Nat, ReadFromBuffer(n)
  PROVE  \E k \in Nat : /\ BufferIs(SubSeq(c, k + 1, Len(c)))'
                        /\ expected' = SubSeq(expected, k + 1, Len(expected))
<1>1. /\ m_read_index \in Nat /\ m_write_index \in Nat
      /\ m_read_index <= m_write_index
  BY Zenon DEF BufferIs, Sound
<1>2. PICK k \in Nat : /\ k = IF n <= CanRead THEN n ELSE CanRead
                       /\ k <= m_write_index - m_read_index
  <2> DEFINE x == IF n <= CanRead THEN n ELSE CanRead
  <2>1. x \in Nat /\ x <= m_write_index - m_read_index
    BY <1>1 DEF CanRead
  <2> HIDE DEF x
  <2> QED BY <2>1 DEF x
<1>3. /\ AdjustBuffer(m_buffer, m_read_index + k, m_write_index)
      /\ expected' = SubSeq(expected, k + 1, Len(expected))
  BY <1>2, Zenon DEF ReadFromBuffer
<1>4. Sound(m_buffer, m_read_index + k, m_write_index, SubSeq(c, k + 1, Len(c)))
  BY <1>2, TakeKeeps, Zenon DEF BufferIs
<1>5. BufferIs(SubSeq(c, k + 1, Len(c)))'
  <2>1. Sound(m_buffer', m_read_index', m_write_index', SubSeq(c, k + 1, Len(c)))
    BY <1>3, <1>4, AdjustKeeps
  <2> QED BY <2>1 DEF BufferIs
<1> QED BY <1>2, <1>3, <1>5

(* decode takes a packet that lies before the write index: while that is   *)
(* below the size, adjust_read_index does not refuse it.                   *)
LEMMA AdjustReadStep ==
  ASSUME NEW c, BufferIs(c), NEW n \in Nat, AdjustReadIndex(n),
         m_write_index < Len(m_buffer)
  PROVE  /\ BufferIs(SubSeq(c, n + 1, Len(c)))'
         /\ m_write_index' < Len(m_buffer')
         /\ Blank(m_buffer, m_write_index) => Blank(m_buffer', m_write_index')
         /\ expected' = SubSeq(expected, n + 1, Len(expected))
<1>1. /\ m_read_index \in Nat /\ m_write_index \in Nat /\ Len(m_buffer) \in Nat
      /\ m_read_index <= m_write_index
  BY LenProperties, Zenon DEF BufferIs, Sound
<1>2. n <= m_write_index - m_read_index
  BY Zenon DEF AdjustReadIndex, CanRead
<1>3. ~(m_read_index + n >= size)
  BY <1>1, <1>2 DEF size
<1>4. /\ AdjustBuffer(m_buffer, m_read_index + n, m_write_index)
      /\ expected' = SubSeq(expected, n + 1, Len(expected))
  BY <1>3, Zenon DEF AdjustReadIndex
<1>5. Sound(m_buffer, m_read_index + n, m_write_index, SubSeq(c, n + 1, Len(c)))
  BY <1>2, TakeKeeps, Zenon DEF BufferIs
<1>6. BufferIs(SubSeq(c, n + 1, Len(c)))' /\ m_write_index' < Len(m_buffer')
  BY <1>4, <1>5, AdjustKeeps, Zenon DEF BufferIs
<1>7. Blank(m_buffer, m_write_index) => Blank(m_buffer', m_write_index')
  BY <1>4, <1>5, AdjustBlanks, Zenon
<1> QED BY <1>4, <1>6, <1>7

LEMMA FillStep ==
  ASSUME NEW c, BufferIs(c), NEW piece \in Seq(Bytes), Len(piece) > 0, Fill(piece),
         m_write_index < Len(m_buffer), refused \in BOOLEAN
  PROVE  /\ refused' \in BOOLEAN
         /\ \/ BufferIs(c \o piece)' /\ refused' = refused
            \/ BufferIs(c)' /\ refused' = TRUE
         /\ m_write_index' < Len(m_buffer')
         /\ Blank(m_buffer, m_write_index) => refused' \/ Blank(m_buffer', m_write_index')
         /\ expected' = IF refused' THEN << >> ELSE expected \o piece
<1> DEFINE n == Len(piece)
           s == Store(m_buffer, m_write_index, piece)
<1>1. piece \in Seq(Bytes) /\ n \in Nat \ {0}
  OBVIOUS
<1>2. /\ m_buffer \in Seq(Bytes) /\ Len(m_buffer) \in Nat
      /\ m_read_index \in Nat /\ m_write_index \in Nat
      /\ m_read_index <= m_write_index
  BY LenProperties, Zenon DEF BufferIs, Sound
<1>3. CanWrite # 0
  BY <1>2 DEF CanWrite, size
<1>4. /\ n <= Len(m_buffer) - m_write_index
      /\ AdjustWriteIndex(s, m_read_index, m_write_index, n)
      /\ refused' = (refused \/ n = Len(m_buffer) - m_write_index)
      /\ expected' = IF refused' THEN << >> ELSE expected \o piece
  BY <1>3, Zenon DEF Fill
<1>5. m_write_index + Len(piece) <= Len(m_buffer)
  BY <1>1, <1>2, <1>4
<1>6. /\ Sound(s, m_read_index, m_write_index + n, c \o piece)
      /\ Sound(s, m_read_index, m_write_index, c)
  BY <1>1, <1>5, StoreKeeps, Zenon DEF BufferIs
<1>7. /\ Len(s) = Len(m_buffer)
      /\ Blank(m_buffer, m_write_index) => Blank(s, m_write_index + n)
  <2>1. /\ Len(s) = Len(m_buffer)
        /\ \A i \in 1..Len(m_buffer) : s[i] =
             IF i \in (m_write_index + 1)..(m_write_index + n)
               THEN piece[i - m_write_index] ELSE m_buffer[i]
    BY <1>1, <1>2, <1>5, StoreIs
  <2> HIDE DEF s, n
  <2>2. ASSUME Blank(m_buffer, m_write_index),
               NEW i \in (m_write_index + n + 1)..Len(m_buffer)
        PROVE  s[i] = Zero
    <3>1. /\ i \in 1..Len(m_buffer) /\ i \in (m_write_index + 1)..Len(m_buffer)
          /\ i \notin (m_write_index + 1)..(m_write_index + n)
      BY <1>1, <1>2
    <3> QED BY <2>1, <2>2, <3>1 DEF Blank
  <2> QED BY <2>1, <2>2 DEF Blank
<1> HIDE DEF s, n
<1>8. refused' \in BOOLEAN
  BY <1>4
<1>9. CASE m_write_index + n >= Len(s)
  <2>1. m_buffer' = s /\ m_read_index' = m_read_index /\ m_write_index' = m_write_index
    BY <1>4, <1>9, Zenon DEF AdjustWriteIndex
  <2>2. n = Len(m_buffer) - m_write_index
    BY <1>1, <1>2, <1>4, <1>7, <1>9
  <2>3. refused' = TRUE
    BY <1>4, <2>2
  <2>4. BufferIs(c)' /\ m_write_index' < Len(m_buffer')
    BY <1>6, <1>7, <2>1, Zenon DEF BufferIs
  <2> QED BY <1>4, <1>8, <2>3, <2>4
<1>10. CASE ~(m_write_index + n >= Len(s))
  <2>1. AdjustBuffer(s, m_read_index, m_write_index + n)
    BY <1>4, <1>10, Zenon DEF AdjustWriteIndex
  <2>2. m_write_index + n < Len(s) /\ n # Len(m_buffer) - m_write_index
    BY <1>1, <1>2, <1>7, <1>10
  <2>3. refused' = refused
    BY <1>4, <2>2
  <2>4. BufferIs(c \o piece)' /\ m_write_index' < Len(m_buffer')
    BY <1>6, <2>1, <2>2, AdjustKeeps, Zenon DEF BufferIs
  <2>5. Blank(m_buffer, m_write_index) => Blank(m_buffer', m_write_index')
    BY <1>6, <1>7, <2>1, AdjustBlanks, Zenon
  <2> QED BY <1>4, <1>8, <2>3, <2>4, <2>5
<1> QED BY <1>9, <1>10

LEMMA SoundContent ==
  ASSUME BufferInv
  PROVE  BufferIs(Content) /\ Content \in Seq(Bytes)
<1>1. /\ m_buffer \in Seq(Bytes) /\ Len(m_buffer) > 0
      /\ m_read_index \in Nat /\ m_write_index \in Nat
      /\ m_read_index <= m_write_index /\ m_write_index <= Len(m_buffer)
  BY Zenon DEF BufferInv, TypeOK, IndicesInBounds
<1>2. Content \in Seq(Bytes)
  BY <1>1, BetweenIs, Zenon DEF Content
<1> QED BY <1>1, <1>2, Zenon DEF BufferIs, Sound, Content

(* BufferInv from the parts that the operations establish.                 *)
LEMMA InvFrom ==
  ASSUME NEW c, BufferIs(c)', role' \in Roles, refused' \in BOOLEAN,
         expected' \in Seq(Bytes), refused' \/ c = expected',
         role' = "in" => m_write_index' < Len(m_buffer'),
         role' = "in" => refused' \/ Blank(m_buffer', m_write_index')
  PROVE  BufferInv'
<1>1. TypeOK' /\ IndicesInBounds' /\ Len(m_buffer') > 0
  BY Zenon DEF BufferIs, Sound, TypeOK, IndicesInBounds
<1>2. ContentIsExpected'
  BY Zenon DEF BufferIs, Sound, ContentIsExpected, Content
<1> QED BY <1>1, <1>2, Zenon DEF BufferInv

(* on_read's and decode's steps keep the invariant, with pieces and        *)
(* packets of any length.                                                  *)
LEMMA FillKeeps ==
  ASSUME BufferInv, role = "in", UNCHANGED role,
         NEW piece \in Seq(Bytes), Len(piece) > 0, Fill(piece)
  PROVE  BufferInv'
<1>1. PICK c \in Seq(Bytes) : c = Content
  BY SoundContent
<1>2. BufferIs(c)
  BY <1>1, SoundContent
<1>3. /\ role \in Roles /\ refused \in BOOLEAN /\ expected \in Seq(Bytes)
      /\ refused \/ c = expected
      /\ m_write_index < Len(m_buffer)
      /\ refused \/ Blank(m_buffer, m_write_index)
  BY <1>1, Zenon DEF BufferInv, TypeOK, ContentIsExpected
<1>4. /\ refused' \in BOOLEAN
      /\ \/ BufferIs(c \o piece)' /\ refused' = refused
         \/ BufferIs(c)' /\ refused' = TRUE
      /\ m_write_index' < Len(m_buffer')
      /\ Blank(m_buffer, m_write_index) => refused' \/ Blank(m_buffer', m_write_index')
      /\ expected' = IF refused' THEN << >> ELSE expected \o piece
  BY <1>2, <1>3, FillStep
<1>5. expected' \in Seq(Bytes) /\ role' \in Roles
  <2>1. expected \o piece \in Seq(Bytes) /\ << >> \in Seq(Bytes)
    BY <1>3, ConcatProperties, EmptySeq, Zenon
  <2> QED BY <1>3, <1>4, <2>1, Zenon
<1>6. refused' \/ Blank(m_buffer', m_write_index')
  <2>1. CASE refused = TRUE
    BY <1>4, <2>1, Zenon
  <2>2. CASE refused = FALSE
    BY <1>3, <1>4, <2>2, Zenon
  <2> QED BY <1>3, <2>1, <2>2
<1>7. CASE BufferIs(c)' /\ refused' = TRUE
  BY <1>4, <1>5, <1>6, <1>7, InvFrom, Zenon
<1>8. CASE BufferIs(c \o piece)' /\ refused' = refused
  <2> DEFINE d == c \o piece
  <2>1. refused' \/ d = expected'
    BY <1>3, <1>4, <1>8, Zenon
  <2>2. BufferIs(d)'
    BY <1>8
  <2> HIDE DEF d
  <2> QED BY <1>4, <1>5, <1>6, <2>1, <2>2, InvFrom, Zenon
<1> QED BY <1>4, <1>7, <1>8

LEMMA AdjustReadKeeps ==
  ASSUME BufferInv, role = "in", UNCHANGED role, NEW n \in Nat, AdjustReadIndex(n)
  PROVE  BufferInv'
<1>1. PICK c \in Seq(Bytes) : c = Content
  BY SoundContent
<1>2. BufferIs(c)
  BY <1>1, SoundContent
<1>3. /\ role \in Roles /\ refused \in BOOLEAN /\ expected \in Seq(Bytes)
      /\ refused \/ c = expected
      /\ m_write_index < Len(m_buffer)
      /\ refused \/ Blank(m_buffer, m_write_index)
  BY <1>1, Zenon DEF BufferInv, TypeOK, ContentIsExpected
<1> DEFINE d == SubSeq(c, n + 1, Len(c))
<1>4. /\ BufferIs(d)' /\ m_write_index' < Len(m_buffer')
      /\ Blank(m_buffer, m_write_index) => Blank(m_buffer', m_write_index')
      /\ expected' = SubSeq(expected, n + 1, Len(expected))
  BY <1>2, <1>3, AdjustReadStep
<1>5. refused' = refused
  BY Zenon DEF AdjustReadIndex
<1>6. SubSeq(expected, n + 1, Len(expected)) \in Seq(Bytes)
  BY <1>3
<1>7. (refused' \/ d = expected') /\ expected' \in Seq(Bytes)
  BY <1>3, <1>4, <1>5, <1>6, Zenon
<1>8. role' \in Roles /\ refused' \in BOOLEAN /\ (refused' \/ Blank(m_buffer', m_write_index'))
  BY <1>3, <1>4, <1>5, Zenon
<1> HIDE DEF d
<1> QED BY <1>4, <1>7, <1>8, InvFrom, Zenon

LEMMA BufferStep ==
  ASSUME BufferInv, [Next]_vars
  PROVE  BufferInv'
<1>1. PICK c \in Seq(Bytes) : c = Content
  BY SoundContent
<1>2. BufferIs(c)
  BY <1>1, SoundContent
<1>3. /\ role \in Roles /\ refused \in BOOLEAN /\ expected \in Seq(Bytes)
      /\ refused \/ c = expected
      /\ role = "in" => m_write_index < Len(m_buffer)
  BY <1>1, Zenon DEF BufferInv, TypeOK, ContentIsExpected
<1>4. \A piece \in Pieces :
        expected \o piece \in Seq(Bytes) /\ << >> \in Seq(Bytes)
  <2>1. \A piece \in Pieces : piece \in Seq(Bytes)
    BY PiecesAre
  <2> QED BY <1>3, <2>1, ConcatProperties, EmptySeq, Zenon
<1>5. \A k \in Nat : SubSeq(expected, k + 1, Len(expected)) \in Seq(Bytes)
  BY <1>3
<1>6. \A n \in 1..MaxPiece : n \in Nat
  BY SizeAssumption
<1>7. ASSUME NEW piece \in Pieces, role = "out", UNCHANGED <<role, refused>>,
             WriteToBuffer(piece)
      PROVE  BufferInv'
  <2> DEFINE d == c \o piece
  <2>1. BufferIs(d)'
    BY <1>2, <1>7, WriteStep
  <2>2. expected' = expected \o piece
    BY <1>7, Zenon DEF WriteToBuffer
  <2>3. (refused' \/ d = expected') /\ expected' \in Seq(Bytes)
    BY <1>3, <1>4, <1>7, <2>2, Zenon
  <2>4. role' # "in" /\ role' \in Roles /\ refused' \in BOOLEAN
    BY <1>3, <1>7
  <2> HIDE DEF d
  <2> QED BY <2>1, <2>3, <2>4, InvFrom, Zenon
<1>8. ASSUME NEW n \in 1..MaxPiece, role = "out", UNCHANGED <<role, refused>>,
             ReadFromBuffer(n)
      PROVE  BufferInv'
  <2>1. PICK k \in Nat : /\ BufferIs(SubSeq(c, k + 1, Len(c)))'
                         /\ expected' = SubSeq(expected, k + 1, Len(expected))
    BY <1>2, <1>6, <1>8, ReadStep
  <2> DEFINE d == SubSeq(c, k + 1, Len(c))
  <2>2. BufferIs(d)'
    BY <2>1
  <2>3. (refused' \/ d = expected') /\ expected' \in Seq(Bytes)
    BY <1>3, <1>5, <1>8, <2>1, Zenon
  <2>4. role' # "in" /\ role' \in Roles /\ refused' \in BOOLEAN
    BY <1>3, <1>8
  <2> HIDE DEF d
  <2> QED BY <2>2, <2>3, <2>4, InvFrom, Zenon
<1>9. ASSUME NEW piece \in Pieces, role = "in", UNCHANGED role, Fill(piece)
      PROVE  BufferInv'
  <2>1. piece \in Seq(Bytes) /\ Len(piece) > 0
    BY PiecesAre
  <2> QED BY <1>9, <2>1, FillKeeps
<1>10. ASSUME NEW n \in 1..MaxPiece, role = "in", UNCHANGED role, AdjustReadIndex(n)
       PROVE  BufferInv'
  <2>1. n \in Nat
    BY <1>6
  <2> QED BY <1>10, <2>1, AdjustReadKeeps
<1>11. CASE UNCHANGED vars
  BY <1>11, Zenon DEF vars, BufferInv, TypeOK, IndicesInBounds, ContentIsExpected,
                      Content
<1> QED BY <1>7, <1>8, <1>9, <1>10, <1>11, Zenon DEF Next

LEMMA BufferInit ==
  ASSUME Init
  PROVE  BufferInv
<1>1. InitSize \in Nat /\ InitSize > 0
  BY SizeAssumption
<1>2. /\ m_buffer \in Seq(Bytes) /\ Len(m_buffer) = InitSize
      /\ m_read_index = 0 /\ m_write_index = 0 /\ role \in Roles
      /\ expected = << >> /\ refused = FALSE
  BY <1>1, ZerosAre, Zenon DEF Init
<1>3. TypeOK
  <2>1. expected \in Seq(Bytes) /\ 0 \in Nat /\ refused \in BOOLEAN
    BY <1>2, EmptySeq, Zenon
  <2> QED BY <1>2, <2>1, Zenon DEF TypeOK
<1>4. IndicesInBounds /\ m_write_index < Len(m_buffer)
  BY <1>1, <1>2 DEF IndicesInBounds
<1>5. Content = << >>
  <2>1. SubSeq(m_buffer, 0 + 1, 0) = << >>
    BY SubSeqEmpty
  <2> QED BY <1>2, <2>1, Zenon DEF Content, Between
<1>6. Blank(m_buffer, m_write_index)
  <2>1. m_buffer = Zeros(InitSize) /\ m_write_index = 0
    BY Zenon DEF Init
  <2>2. InitSize \in Nat /\ Len(Zeros(InitSize)) = InitSize
    BY SizeAssumption, ZerosAre
  <2>3. \A i \in 1..InitSize : Zeros(InitSize)[i] = Zero
    BY <2>2, ZeroAt
  <2> QED BY <2>1, <2>2, <2>3 DEF Blank
<1> QED BY <1>1, <1>2, <1>3, <1>4, <1>5, <1>6 DEF BufferInv, ContentIsExpected

LEMMA BufferInvariant == Spec => []BufferInv
<1>1. Init => BufferInv
  BY BufferInit
<1>2. BufferInv /\ [Next]_vars => BufferInv'
  BY BufferStep
<1> QED BY <1>1, <1>2, PTL DEF Spec

(* The variables of a buffer have their types.                             *)
THEOREM BufferTypes == Spec => []TypeOK
<1>1. BufferInv => TypeOK
  BY Zenon DEF BufferInv
<1> QED BY <1>1, BufferInvariant, PTL

(* write_to_buffer, read_from_buffer, on_read and decode never leave an    *)
(* index outside m_buffer, for every initial size and pieces of any size.  *)
THEOREM NoIndexOutside == Spec => []IndicesInBounds
<1>1. BufferInv => IndicesInBounds
  BY Zenon DEF BufferInv
<1> QED BY <1>1, BufferInvariant, PTL

(* However a buffer grows (resize_buffer) and is compacted (adjust_buffer),*)
(* what can be read is what was written, until adjust_write_index refuses  *)
(* bytes that ::read has stored.                                           *)
THEOREM ContentKept == Spec => []ContentIsExpected
<1>1. BufferInv => ContentIsExpected
  BY Zenon DEF BufferInv
<1> QED BY <1>1, BufferInvariant, PTL
=============================================================================
