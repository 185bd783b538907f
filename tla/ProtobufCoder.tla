--------------------------- MODULE ProtobufCoder ---------------------------
(***************************************************************************)
(* rpc::ProtobufCoder on the input buffer of a connection: messages are    *)
(* encoded into frames, the frames travel as one stream of bytes, ::read   *)
(* cuts that stream anywhere, and decode looks for frames in what has      *)
(* arrived.  A frame is                                                    *)
(*                                                                         *)
(*   s_start  pk_len  id_len id  name_len name  err_code  info_len info    *)
(*   pb_data  check_sum  s_end                                             *)
(*                                                                         *)
(* with every number in Width bytes, most significant first, in two's      *)
(* complement.  Positions are indices of the vector, counted from 0 as in  *)
(* the code.                                                               *)
(***************************************************************************)
EXTENDS Integers, Sequences

CONSTANTS Messages,     \* the messages that may be sent
          MaxMessages,  \* bound: how many are sent
          BufferSize,   \* the size given to the input buffer
          Width         \* sizeof(int32_t), 4 in the code, less for TLC

s_start == 2
s_end   == 3

Byte  == 0..255
Bytes == Seq(Byte)

Message == [msg_id : Bytes, method_name : Bytes, err_code : Int,
            err_info : Bytes, pb_data : Bytes]

(* n without its d lowest bytes, for each d.                               *)
Shifted(n) ==
  LET rest[d \in 0..Width] == IF d = 0 THEN n ELSE rest[d - 1] \div 256
  IN rest

(* n is an int32_t.                                                        *)
Fits(n) == Shifted(n)[Width - 1] \in -128..127

(* A message without an id gets the one below, "123456789" in the code.    *)
DefaultId == <<49>>

WithId(m) == IF m.msg_id = << >> THEN [m EXCEPT !.msg_id = DefaultId] ELSE m

PkLen(m) == 2 + 6 * Width + Len(m.msg_id) + Len(m.method_name)
              + Len(m.err_info) + Len(m.pb_data)

ASSUME MessagesAssumption ==
  /\ Messages \subseteq Message
  /\ \A m \in Messages : Fits(PkLen(WithId(m))) /\ Fits(m.err_code)
ASSUME BoundAssumption == MaxMessages \in Nat /\ BufferSize \in Nat \ {0}
ASSUME WidthAssumption == Width \in 1..4

VARIABLES
  m_buffer, m_read_index, m_write_index,  \* the input TcpBuffer
  expected,       \* its bytes that decode has not consumed
  refused,        \* a read has filled it: its bytes are lost
  wire,           \* bytes sent and not yet read
  out_messages,   \* what decode has delivered
  pc,             \* the receiver: "idle", in on_read's loop, in decode's loop
  sent            \* the messages sent, as encode has completed them

vars == <<m_buffer, m_read_index, m_write_index, expected, refused, wire,
          out_messages, pc, sent>>

bufferVars == <<m_buffer, m_read_index, m_write_index, expected, refused>>

Buffer == INSTANCE TcpBuffer WITH
  Bytes <- Byte, Zero <- 0, InitSize <- BufferSize, MaxPiece <- BufferSize,
  MaxSize <- BufferSize, Roles <- {"in"}, role <- "in"

TypeOK ==
  /\ {m_buffer, expected, wire} \subseteq Bytes
  /\ {m_read_index, m_write_index} \subseteq Nat
  /\ refused \in BOOLEAN
  /\ out_messages \in Seq(Message)
  /\ pc \in {"idle", "read", "decode"}
  /\ sent \in Seq(Message)

Init ==
  /\ Buffer!Init
  /\ wire = << >>
  /\ out_messages = << >>
  /\ pc = "idle"
  /\ sent = << >>

-----------------------------------------------------------------------------
(* encode_protubuf.                                                        *)

(* htonl: Width bytes, the most significant first.                         *)
Int32(n) == [k \in 1..Width |-> Shifted(n)[Width - k] % 256]

(* A bug to catch: the code is written behind the length of the text.      *)
EncodeSwapped(m) ==
  <<s_start>> \o Int32(PkLen(m))
    \o Int32(Len(m.msg_id)) \o m.msg_id
    \o Int32(Len(m.method_name)) \o m.method_name
    \o Int32(Len(m.err_info)) \o Int32(m.err_code) \o m.err_info
    \o m.pb_data \o Int32(1) \o <<s_end>>

EncodeProtobuf(m) ==
  <<s_start>> \o Int32(PkLen(m))
    \o Int32(Len(m.msg_id)) \o m.msg_id
    \o Int32(Len(m.method_name)) \o m.method_name
    \o Int32(m.err_code)
    \o Int32(Len(m.err_info)) \o m.err_info
    \o m.pb_data \o Int32(1) \o <<s_end>>

Send(m) ==
  /\ Len(sent) < MaxMessages
  /\ sent' = Append(sent, WithId(m))
  /\ wire' = wire \o EncodeProtobuf(WithId(m))
  /\ UNCHANGED <<bufferVars, out_messages, pc>>

-----------------------------------------------------------------------------
(* on_read: some of the bytes that are on the wire are read, in one or     *)
(* more turns, and then decode is called.                                  *)
OnRead(n) ==
  /\ pc \in {"idle", "read"}
  /\ n <= Len(wire)
  /\ pc' = "read"
  /\ wire' = SubSeq(wire, n + 1, Len(wire))
  /\ Buffer!Fill(SubSeq(wire, 1, n))
  /\ UNCHANGED <<out_messages, sent>>

Excute ==
  /\ pc = "read"
  /\ pc' = "decode"
  /\ UNCHANGED <<bufferVars, wire, out_messages, sent>>

-----------------------------------------------------------------------------
(* decode, one turn of its outer loop.                                     *)

(* A byte outside the vector, which decode may read, can be anything.      *)
At(k, outside) ==
  IF k \in 0..(Len(m_buffer) - 1) THEN m_buffer[k + 1] ELSE outside

(* ntohl.                                                                  *)
Number(bytes) ==
  LET number[d \in 0..Width] ==
        IF d = 0 THEN IF bytes[1] < 128 THEN 0 ELSE -1
                 ELSE 256 * number[d - 1] + bytes[d]
  IN number[Width]

(* get_int32_from_netbyte reads all the bytes of a number, whether they    *)
(* have arrived or not.                                                    *)
GetInt32 ==
  [p \in Int \X Byte |-> Number([d \in 1..Width |-> At(p[1] + d - 1, p[2])])]

(* The len bytes from index k on, and as much of them as a C string holds, *)
(* which ends at the first zero byte.                                      *)
Copy(k, len, outside) == [n \in 1..len |-> At(k + n - 1, outside)]

CString(k, len, outside) ==
  LET end == CHOOSE n \in 0..len :
               /\ n = len \/ At(k + n, outside) = 0
               /\ \A j \in 0..(n - 1) : At(k + j, outside) # 0
  IN Copy(k, end, outside)

(* A frame is taken to begin at i if the end byte is where its length puts *)
(* it.  A length that has not arrived yet reads as 0, and the end byte is  *)
(* then looked for in front of i.                                          *)
FrameAt(i, outside) ==
  /\ At(i, outside) = s_start
  /\ i + 1 < m_write_index
  /\ LET j == i + GetInt32[<<i + 1, outside>>] - 1
     IN j < m_write_index /\ At(j, outside) = s_end

(* A bug to catch: the search begins at the front of the vector.           *)
FramesFromFront(outside) ==
  {i \in 0..(m_write_index - 1) : FrameAt(i, outside)}

Frames(outside) ==
  {i \in m_read_index..(m_write_index - 1) : FrameAt(i, outside)}

(* The lengths of the fields of the frame at start, and their indices.     *)
Layout(start, outside) ==
  LET id_len_index   == start + 1 + Width
      id_len         == GetInt32[<<id_len_index, outside>>]
      name_len_index == id_len_index + Width + id_len
      name_len       == GetInt32[<<name_len_index, outside>>]
      code_index     == name_len_index + Width + name_len
      info_len       == GetInt32[<<code_index + Width, outside>>]
      info_index     == code_index + 2 * Width
  IN [id_len_index |-> id_len_index, id_len |-> id_len,
      name_len_index |-> name_len_index, name_len |-> name_len,
      code_index |-> code_index,
      info_index |-> info_index, info_len |-> info_len,
      pb_index |-> info_index + info_len,
      pb_data_len |-> GetInt32[<<start + 1, outside>>]
                        - name_len - id_len - info_len - 2 - 6 * Width]

(* How far decode gets with the frame from start to end, before it finds   *)
(* that a field begins behind the end.                                     *)
HasId(f, end)   == f.id_len_index < end
HasName(f, end) == HasId(f, end) /\ f.name_len_index < end
HasInfo(f, end) == /\ HasName(f, end) /\ f.code_index < end
                   /\ f.code_index + Width < end

(* msg_id, method_name and error_info are copied into arrays of these      *)
(* sizes, whatever their length, to be read up to a zero byte.             *)
IdSize   == 100
NameSize == 512
InfoSize == 512

(* What decode does with the frame at start is defined: nothing is copied  *)
(* that does not fit, the read index does not move back, and the data does *)
(* not have a negative length, for which std::string throws.  Otherwise a  *)
(* behaviour of the model ends.                                            *)
Defined(start, outside) ==
  LET pk_len == GetInt32[<<start + 1, outside>>]
      end    == start + pk_len - 1
      f      == Layout(start, outside)
  IN /\ pk_len >= 0
     /\ HasId(f, end) => f.id_len \in 0..(IdSize - 1)
     /\ HasName(f, end) => f.name_len \in 0..(NameSize - 1)
     /\ HasInfo(f, end) => f.info_len \in 0..(InfoSize - 1) /\ f.pb_data_len >= 0

(* The message in the frame from start to end; << >> when the fields do    *)
(* not fit, in which case decode goes on without it.                       *)
Parse(start, end, outside) ==
  LET f == Layout(start, outside)
  IN IF ~HasInfo(f, end)
       THEN << >>
       ELSE <<[msg_id |-> CString(f.id_len_index + Width, f.id_len, outside),
               method_name |->
                 CString(f.name_len_index + Width, f.name_len, outside),
               err_code |-> GetInt32[<<f.code_index, outside>>],
               err_info |-> CString(f.info_index, f.info_len, outside),
               pb_data |-> Copy(f.pb_index, f.pb_data_len, outside)]>>

(* The first frame is consumed, and its message delivered.                 *)
TakeFrame(outside) ==
  LET frames == Frames(outside)
  IN \E start \in frames :
       LET pk_len == GetInt32[<<start + 1, outside>>]
       IN /\ \A i \in frames : start <= i
          /\ Defined(start, outside)
          /\ Buffer!AdjustReadIndex(pk_len)
          /\ out_messages' =
               out_messages \o Parse(start, start + pk_len - 1, outside)

(* A bug to catch: decode returns after the first frame.                   *)
DecodeFrameOnce(outside) ==
  /\ pc = "decode"
  /\ TakeFrame(outside)
  /\ pc' = "idle"
  /\ UNCHANGED <<wire, sent>>

DecodeFrame(outside) ==
  /\ pc = "decode"
  /\ TakeFrame(outside)
  /\ UNCHANGED <<wire, pc, sent>>

DecodeReturns(outside) ==
  /\ pc = "decode"
  /\ Frames(outside) = {}
  /\ pc' = "idle"
  /\ UNCHANGED <<bufferVars, wire, out_messages, sent>>

Receiver ==
  \/ \E n \in 1..Len(wire) : OnRead(n)
  \/ Excute
  \/ \E outside \in {0, s_end} : DecodeFrame(outside) \/ DecodeReturns(outside)

Next == Receiver \/ \E m \in Messages : Send(m)

Spec == Init /\ [][Next]_vars

(* The receiver's loop runs: what has arrived is read and decoded.         *)
FairSpec == Spec /\ WF_vars(Receiver)

-----------------------------------------------------------------------------
(* Properties.                                                             *)

IsPrefixOf(s, t) == Len(s) <= Len(t) /\ \A i \in DOMAIN s : s[i] = t[i]

(* A field that a C string in an array of this size can hold.              *)
IsText(s, arraySize) == Len(s) < arraySize /\ \A i \in 1..Len(s) : s[i] # 0

(* No start byte inside frame f is followed by a number that puts an end   *)
(* byte in front of the end of f, nor by one that is negative or so large  *)
(* that its sum with an index is.                                          *)
HoldsNoFrame(f) ==
  \A i \in 2..(Len(f) - 1) : f[i] = s_start =>
    /\ f[i + 1] < 127
    /\ i + Width <= Len(f) =>
         LET n == Number(SubSeq(f, i + 1, i + Width))
         IN n > 0 /\ i + n - 1 < Len(f) => f[i + n - 1] # s_end

(* The messages that decode is able to tell from the rest of the stream.   *)
Decodable(m) ==
  /\ IsText(m.msg_id, IdSize)
  /\ IsText(m.method_name, NameSize)
  /\ IsText(m.err_info, InfoSize)
  /\ HoldsNoFrame(EncodeProtobuf(m))

(* However the stream is cut, and although decode searches an incomplete   *)
(* frame for further start bytes, the messages it delivers are the ones    *)
(* that were sent: in order, each once, with every field as it was.  This  *)
(* is about Decodable messages: one whose bytes hold a complete frame, cut *)
(* behind that inner frame, loses its own beginning.  Once a read has      *)
(* filled the buffer its bytes are lost, and nothing is promised.          *)
DecodedAsSent == refused \/ IsPrefixOf(out_messages, sent)

(* decode copies no field into an array that is too small for it, moves    *)
(* the read index only forward and makes no string of negative length,     *)
(* whatever part of a frame has arrived: it never takes a number out of    *)
(* the middle of a frame.  Again about Decodable messages, none refused.   *)
DecodeIsDefined ==
  refused \/ \A outside \in {0, s_end} : \A start \in Frames(outside) :
    (\A i \in Frames(outside) : start <= i) => Defined(start, outside)

(* decode is in a turn that leaves everything as it is, at the boundary of *)
(* two frames: part of the length of the frame at the read index is        *)
(* missing, reads as 0, and the byte in front is the end byte of the       *)
(* previous frame.                                                         *)
Looping ==
  /\ pc = "decode"
  /\ m_read_index \in Frames(0)
  /\ GetInt32[<<m_read_index + 1, 0>>] = 0

(* No start byte of frame f comes right behind an end byte.                *)
HoldsNoPair(f) == \A i \in 2..Len(f) : f[i] = s_start => f[i - 1] # s_end

(* Every message is decoded, unless a read has ended inside the length of  *)
(* a frame right behind the previous frame (the check of decode before it  *)
(* reads the length asks for its first byte only).  This is about          *)
(* Decodable messages whose frames hold no pair: an end byte and a start    *)
(* byte behind it, in the data of one message, are such a boundary to      *)
(* decode, and it may turn there for ever as well.                         *)
EveryMessageDecoded ==
  \A n \in 1..MaxMessages :
    (Len(sent) >= n) ~> (Len(out_messages) >= n \/ Looping)
=============================================================================
