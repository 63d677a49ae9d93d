--------------------------- MODULE PacketReading ---------------------------
(***************************************************************************)
(* How a RecvThread cuts the byte stream of one connection into packets:    *)
(* BusinessService::PacketReading and DataCopy, the loop around them in     *)
(* RecvThread (Server/Server.cpp), and the IocpService calls Recv and       *)
(* RecvMore that ask for more bytes.  At most one receive of a connection   *)
(* is outstanding, so the loop runs alone.  Client.cpp and BClient.cpp have *)
(* copies of these functions, for what the server sends to them.            *)
(*                                                                          *)
(* A packet is a two-byte length, which counts the whole packet, and its    *)
(* content.  A byte is its position in the stream (1, 2, ...), and 0 is a   *)
(* byte of a buffer that memset cleared.  Once two bytes are taken for a    *)
(* length that no packet starts with, the framing is lost: what the server  *)
(* does from there depends on the text of messages and is not followed.     *)
(***************************************************************************)
EXTENDS Integers, Sequences

CONSTANTS
  Size,     \* the lengths of the packets the client sends, in order
  BufSize   \* BUF_SIZE, the most one receive returns

HeaderSize == 2

ASSUME SizeAssumption ==
  /\ BufSize \in Nat /\ Size \in Seq(Nat)
  /\ \A i \in DOMAIN Size : Size[i] \in HeaderSize + 1 .. BufSize

VARIABLES
  received,   \* how many bytes of the stream receives have returned
  io,         \* the PER_IO_DATA of the outstanding or current receive
  remain,     \* remainByte: bytes of io.buffer still to be read
  pc,         \* "wait" for a completion, "read", or "lost"
  delivered,  \* the contents put into packetQueue, in order
  unsafe      \* history: some receive completed a split packet unsafely

vars == <<received, io, remain, pc, delivered, unsafe>>

-----------------------------------------------------------------------------
(* The stream.                                                               *)

Packets == DOMAIN Size
End[i \in {0} \cup Packets] == IF i = 0 THEN 0 ELSE End[i - 1] + Size[i]
Total == End[Len(Size)]

(* Bytes a+1 .. b of the stream, and the content of packet i.                *)
Bytes(a, b) == [k \in 1 .. (b - a) |-> a + k]
Content(i)  == Bytes(End[i - 1] + HeaderSize, End[i])

(* The packets that start with the bytes b1 and b2.                          *)
HeaderOf(b1, b2) == {i \in Packets : b1 = End[i - 1] + 1 /\ b2 = b1 + 1}

(* n bytes copied from offset a of a buffer, cleared beyond its end.         *)
Copied(buffer, a, n) ==
  [k \in 1 .. n |-> IF a + k <= Len(buffer) THEN buffer[a + k] ELSE 0]

-----------------------------------------------------------------------------
(* Receives.                                                                 *)

Recv(buffer) == [mode |-> "RECV", buffer |-> buffer, recvByte |-> 0, bodySize |-> 0,
                 head |-> 0, recvBuffer |-> <<>>]

RecvMore(x) == [x EXCEPT !.mode = "RECV_MORE", !.buffer = <<>>]

Init ==
  /\ received = 0
  /\ io = Recv(<<>>)
  /\ remain = 0
  /\ pc = "wait"
  /\ delivered = <<>>
  /\ unsafe = FALSE

(* The receives after which PacketReading resumes a split packet correctly:  *)
(* the length of the receive is compared with the length of the packet, not  *)
(* with the part that is missing.                                            *)
SafeRest(x, n, body) ==
  \/ n > body
  \/ n = body - x.recvByte /\ (x.recvByte = 1 \/ 2 * x.recvByte = body)

(* The packet an unfinished receive belongs to, while the framing holds.     *)
Current == CHOOSE i \in Packets : End[i - 1] <= received /\ received < End[i]

(* A completion with n bytes of the stream.                                  *)
Completion(n) ==
  /\ pc = "wait"
  /\ n <= BufSize /\ received + n <= Total
  /\ io' = [io EXCEPT !.buffer = Bytes(received, received + n)]
  /\ unsafe' = (unsafe \/ (io.mode = "RECV_MORE" /\ ~SafeRest(io, n, Size[Current])))
  /\ received' = received + n
  /\ remain' = n
  /\ pc' = "read"
  /\ UNCHANGED delivered

-----------------------------------------------------------------------------
(* PacketReading.  Each branch gives the new PER_IO_DATA and the number it   *)
(* returns: bytes left in the buffer, or a negative number for more input.   *)

(* Mutants of FirstPart: the rest of the buffer is not moved to its front,   *)
(* or it is forgotten.                                                       *)
FirstPartKeepsBuffer(x, n, body) ==
  [io |-> [x EXCEPT !.bodySize = body, !.recvByte = n,
                    !.recvBuffer = Copied(x.buffer, 0, IF n < body THEN n ELSE body)],
   ret |-> n - body]

FirstPartForgetsRest(x, n, body) ==
  [io |-> [x EXCEPT !.bodySize = body, !.recvByte = n,
                    !.recvBuffer = Copied(x.buffer, 0, IF n < body THEN n ELSE body)],
   ret |-> IF n < body THEN n - body ELSE 0]

(* RECV, at least two bytes: body is the length the header holds.            *)
FirstPart(x, n, body) ==
  IF n >= body
  THEN [io  |-> [x EXCEPT !.bodySize = body,
                          !.recvBuffer = Copied(x.buffer, 0, body),
                          !.buffer = Copied(x.buffer, body, n - body)],
        ret |-> n - body]
  ELSE [io  |-> [x EXCEPT !.bodySize = body,
                          !.recvBuffer = Copied(x.buffer, 0, n),
                          !.recvByte = n],
        ret |-> n - body]

(* RECV, one byte: half of the header.                                       *)
HalfHeader(x) == [io |-> [x EXCEPT !.head = x.buffer[1], !.recvByte = 1], ret |-> -1]

(* RECV_MORE after half a header.  The content is taken as complete.         *)
RestOfHeader(x, n, body) ==
  LET y == [x EXCEPT !.mode = "RECV", !.bodySize = body,
                     !.recvBuffer = <<x.head, x.buffer[1]>> \o Copied(x.buffer, 1, body)]
  IN  IF n > body
      THEN [io  |-> [y EXCEPT !.buffer = Copied(x.buffer, body - 1, n - (body - 1))],
            ret |-> n - (body - 1)]
      ELSE [io |-> y, ret |-> 0]

(* RECV_MORE with the header known.  In the last branch recvByte is set      *)
(* before the returned number is computed from it.                           *)
RestOfBody(x, n) ==
  LET missing == x.bodySize - x.recvByte
      y == [x EXCEPT !.mode = "RECV",
                     !.recvBuffer = SubSeq(@, 1, x.recvByte) \o Copied(x.buffer, 0, missing)]
  IN  IF n > x.bodySize
      THEN [io |-> [y EXCEPT !.buffer = Copied(x.buffer, missing, n - missing)],
            ret |-> n - missing]
      ELSE IF n = x.bodySize
      THEN [io |-> y, ret |-> 0]
      ELSE [io  |-> [y EXCEPT !.buffer = SubSeq(x.buffer, 3, n) \o SubSeq(x.buffer, n - 1, n),
                              !.recvByte = n],
            ret |-> n - (x.bodySize - n)]

(* The two bytes the call takes for a length, if it reads one.               *)
Header(x) ==
  IF x.mode = "RECV" THEN HeaderOf(x.buffer[1], x.buffer[2]) ELSE HeaderOf(x.head, x.buffer[1])
ReadsHeader(x, n) == IF x.mode = "RECV" THEN n >= HeaderSize ELSE x.recvByte < HeaderSize

(* std::copy from buffer + 2 to buffer + 1 runs backwards.                   *)
CopiesBackwards(x, n) ==
  x.mode = "RECV_MORE" /\ x.recvByte >= HeaderSize /\ n < x.bodySize /\ n < HeaderSize

LosesFraming(x, n) == (ReadsHeader(x, n) /\ Header(x) = {}) \/ CopiesBackwards(x, n)

Read(x, n) ==
  LET body == Size[CHOOSE i \in Header(x) : TRUE]
  IN  IF x.mode = "RECV"
      THEN IF n >= HeaderSize THEN FirstPart(x, n, body) ELSE HalfHeader(x)
      ELSE IF x.recvByte < HeaderSize THEN RestOfHeader(x, n, body) ELSE RestOfBody(x, n)

(* DataCopy: the content starts behind the header.                           *)
DataCopy(x) == SubSeq(x.recvBuffer, HeaderSize + 1, x.bodySize)

(* One round of RecvThread's loop.                                           *)
PacketReading ==
  /\ pc = "read" /\ ~LosesFraming(io, remain)
  /\ LET r == Read(io, remain)
     IN  /\ delivered' = IF r.ret >= 0 THEN Append(delivered, DataCopy(r.io)) ELSE delivered
         /\ io' = IF r.ret > 0 THEN r.io ELSE IF r.ret = 0 THEN Recv(<<>>) ELSE RecvMore(r.io)
         /\ remain' = IF r.ret > 0 THEN r.ret ELSE 0
         /\ pc' = IF r.ret > 0 THEN "read" ELSE "wait"
  /\ UNCHANGED <<received, unsafe>>

LoseFraming ==
  /\ pc = "read" /\ LosesFraming(io, remain)
  /\ pc' = "lost"
  /\ UNCHANGED <<received, io, remain, delivered, unsafe>>

(* Nothing is left to receive, or nothing more is followed.                  *)
Finished == (pc = "lost" \/ (pc = "wait" /\ received = Total)) /\ UNCHANGED vars

Next == (\E n \in 1 .. BufSize : Completion(n)) \/ PacketReading \/ LoseFraming \/ Finished

Spec == Init /\ [][Next]_vars

(* What the client has sent arrives, and a RecvThread works on it.           *)
Fairness ==
  /\ WF_vars(\E n \in 1 .. BufSize : Completion(n))
  /\ WF_vars(PacketReading \/ LoseFraming)
FairSpec == Spec /\ Fairness

-----------------------------------------------------------------------------
(* Properties.                                                               *)

Stream == 0 .. Total
IoData == [mode : {"RECV", "RECV_MORE"}, buffer : Seq(Stream), recvByte : 0 .. BufSize,
           bodySize : 0 .. BufSize, head : Stream, recvBuffer : Seq(Stream)]

TypeOK ==
  /\ received \in Stream
  /\ io \in IoData
  /\ remain \in 0 .. BufSize
  /\ pc \in {"wait", "read", "lost"}
  /\ delivered \in Seq(Seq(Stream))
  /\ unsafe \in BOOLEAN

(* The jobs handed on are the packets that were sent, whole and in order.    *)
DeliveredIntact ==
  /\ pc # "lost"
  /\ Len(delivered) <= Len(Size)
  /\ \A i \in DOMAIN delivered : delivered[i] = Content(i)

(* Between receives every packet that has arrived in full has been handed    *)
(* on: no byte is dropped and none is read twice.                            *)
NothingHeldBack ==
  pc = "wait" => \A i \in Packets : End[i] <= received => i <= Len(delivered)

(* However receives coalesce packets and wherever they split them, framing   *)
(* is right as long as every resumed receive is a SafeRest.                  *)
SafeSplitsKeepFraming == unsafe \/ (DeliveredIntact /\ NothingHeldBack)

(* If all splits are safe, every packet is handed on in the end.             *)
AllDelivered == <>(unsafe \/ Len(delivered) = Len(Size))
=============================================================================
