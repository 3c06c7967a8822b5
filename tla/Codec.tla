------------------------------- MODULE Codec -------------------------------
(***************************************************************************)
(* LengthHeaderCodec on one connection, byte by byte: send puts a length   *)
(* header before a message, TCP cuts the bytes anywhere, and onMessage, run *)
(* by the event loop after every read, takes the complete frames out of the *)
(* input buffer.  An integer of four digits in base Base stands for the    *)
(* int32_t of four bytes, with its sign and its wrap-around.               *)
(***************************************************************************)
EXTENDS Integers, Sequences

CONSTANTS
  Base,       \* the values of a byte are 0 .. Base - 1
  MaxLen,     \* the longest message onMessage accepts
  Messages,   \* the messages the peer sends
  MaxSent   \* bound: the number of messages the peer sends

Byte == 0 .. Base - 1
Word == Base * Base * Base * Base  \* the number of values of a header
HeaderLen == 4                     \* kHeaderLen

(* What is assumed of the parameters: a peer's message has a length that a *)
(* header can hold, and the limit is a length.                             *)
CodecParameters ==
  /\ Base \in Nat /\ Base > 1
  /\ MaxLen \in Nat /\ MaxLen < Word \div 2
  /\ Messages \subseteq Seq(Byte) /\ \A m \in Messages : Len(m) < Word
  /\ MaxSent \in Nat

VARIABLES
  sent,       \* history: the messages the peer sent
  wire,       \* bytes on their way
  buf,        \* the connection's input buffer
  parsing,    \* the event loop is inside onMessage
  delivered,  \* history: the messages handed to messageQueueCallback_
  conn        \* "up", "shut" once shutdown() was called, "down" when closed

codecVars == <<sent, wire, buf, parsing, delivered, conn>>

-----------------------------------------------------------------------------

(* The 32-bit integers of a header: hostToNetwork32 writes the length in   *)
(* big-endian order, keeping only its low digits.                          *)
Header(len) ==
  LET q1 == len \div Base
      q2 == q1 \div Base
      q3 == q2 \div Base
  IN  <<q3 % Base, q2 % Base, q1 % Base, len % Base>>

Frame(m) == Header(Len(m)) \o m

(* peekInt32: the header read back as a two's complement number. *)
PeekInt32(b) ==
  LET u == ((b[1] * Base + b[2]) * Base + b[3]) * Base + b[4]
  IN  IF u < Word \div 2 THEN u ELSE u - Word

(* Mutants of BadLength and HasFrame: off by one at the boundary. *)
BadLengthAtLimit(b)    == PeekInt32(b) >= MaxLen \/ PeekInt32(b) < 0
HasFrameAndMore(b) == Len(b) > PeekInt32(b) + HeaderLen

HasHeader(b)  == Len(b) >= HeaderLen
BadLength(b)  == PeekInt32(b) > MaxLen \/ PeekInt32(b) < 0
HasFrame(b) == Len(b) >= PeekInt32(b) + HeaderLen

(* The part of a buffer left by retrieve(n). *)
Retrieve(b, n) == SubSeq(b, n + 1, Len(b))

-----------------------------------------------------------------------------
CodecInit ==
  /\ sent = <<>> /\ wire = <<>> /\ buf = <<>>
  /\ parsing = FALSE
  /\ delivered = <<>>
  /\ conn = "up"

(* LengthHeaderCodec::send at the peer; a message of any length is framed. *)
Send(m) ==
  /\ conn # "down"
  /\ Len(sent) < MaxSent
  /\ sent' = Append(sent, m)
  /\ wire' = wire \o Frame(m)
  /\ UNCHANGED <<buf, parsing, delivered, conn>>

(* The event loop reads some bytes and calls onMessage.  It keeps reading  *)
(* after a shutdown: only the sending side is closed.                      *)
Receive(n) ==
  /\ ~parsing
  /\ n \in 1 .. Len(wire)
  /\ buf' = buf \o SubSeq(wire, 1, n)
  /\ wire' = SubSeq(wire, n + 1, Len(wire))
  /\ parsing' = TRUE
  /\ UNCHANGED <<sent, delivered, conn>>

(* One round of the loop of onMessage: an unacceptable length. *)
RejectLength ==
  /\ parsing /\ HasHeader(buf) /\ BadLength(buf)
  /\ conn' = "shut"
  /\ parsing' = FALSE
  /\ UNCHANGED <<sent, wire, buf, delivered>>

(* One round of the loop of onMessage: a complete frame. *)
TakeFrame ==
  LET len == PeekInt32(buf) IN
  /\ parsing /\ HasHeader(buf) /\ ~BadLength(buf) /\ HasFrame(buf)
  /\ delivered' = Append(delivered, SubSeq(buf, HeaderLen + 1, HeaderLen + len))
  /\ buf' = Retrieve(buf, HeaderLen + len)
  /\ UNCHANGED <<sent, wire, parsing, conn>>

(* The loop ends: no header, or a frame with bytes still to come. *)
AwaitMore ==
  /\ parsing
  /\ HasHeader(buf) => ~BadLength(buf) /\ ~HasFrame(buf)
  /\ parsing' = FALSE
  /\ UNCHANGED <<sent, wire, buf, delivered, conn>>

(* The connection is lost, or closed by the peer: what is on its way and   *)
(* what is buffered goes with it.                                          *)
Close ==
  /\ ~parsing /\ conn # "down"
  /\ conn' = "down"
  /\ wire' = <<>> /\ buf' = <<>>
  /\ UNCHANGED <<sent, parsing, delivered>>

OnMessage == RejectLength \/ TakeFrame \/ AwaitMore

CodecNext ==
  \/ \E m \in Messages : Send(m)
  \/ \E n \in 1 .. Len(wire) : Receive(n)
  \/ OnMessage
  \/ Close

(* TCP carries on as long as the connection is there, and the event loop runs *)
(* a handler it started to its end.                                        *)
CodecFairness == WF_codecVars(\E n \in 1 .. Len(wire) : Receive(n)) /\ WF_codecVars(OnMessage)

CodecSpec == CodecInit /\ [][CodecNext]_codecVars /\ CodecFairness

-----------------------------------------------------------------------------
CodecTypeOK ==
  /\ sent \in Seq(Messages) /\ Len(sent) <= MaxSent
  /\ wire \in Seq(Byte) /\ buf \in Seq(Byte)
  /\ parsing \in BOOLEAN /\ conn \in {"up", "shut", "down"}
  /\ delivered \in Seq(Seq(Byte))

(* onMessage never leaves a complete frame in the buffer, nor the header of *)
(* one to be refused: nothing would look at it until the peer sends        *)
(* another byte, and a peer that waits for an answer does not.             *)
NoFrameLeftBehind ==
  ~parsing /\ conn = "up" /\ Len(delivered) < Len(sent) =>
    LET next == sent[Len(delivered) + 1] IN
    /\ Len(buf) < HeaderLen + Len(next)
    /\ Len(buf) >= HeaderLen => Len(next) <= MaxLen

(* Where the frames of the messages begin in the bytes of the connection:  *)
(* pos[k] is the number of bytes before the frame of the k-th message.     *)
Offsets(pos) ==
  /\ pos \in Seq(Nat) /\ Len(pos) = Len(sent) + 1
  /\ \A k \in 1 .. Len(sent) : pos[k + 1] = pos[k] + HeaderLen + Len(sent[k])
  /\ \A k, l \in 1 .. Len(pos) : k <= l => pos[k] <= pos[l]

(* The bytes that onMessage has not taken, in the buffer and behind it on  *)
(* the wire, are the frames of the messages not yet delivered.             *)
Unparsed == buf \o wire
StreamAt(pos) ==
  LET first == Len(delivered) + 1 IN
  /\ first \in 1 .. Len(pos)
  /\ pos[first] + Len(Unparsed) = pos[Len(pos)]
  /\ \A k \in first .. Len(sent) : \A j \in 1 .. HeaderLen + Len(sent[k]) :
       Unparsed[pos[k] - pos[first] + j] = Frame(sent[k])[j]

(* A connection is shut only at a message to be refused, which stays.      *)
ShutAtBad ==
  conn = "shut" => /\ Len(delivered) < Len(sent) /\ Len(sent[Len(delivered) + 1]) > MaxLen
                   /\ Len(buf) >= HeaderLen

(* Nothing is left of a connection that is down. *)
DownEmpty == conn = "down" => wire = <<>> /\ buf = <<>> /\ ~parsing

(* On the level of messages the codec is a stream that delivers everything *)
(* in order, once, unchanged, and stops for good at a message it refuses   *)
(* or when the connection goes.                                            *)
FS == INSTANCE FrameStream WITH
        Acceptable <- {m \in Messages : Len(m) <= MaxLen},
        outbox <- sent, inbox <- delivered
ImplementsFrameStream == FS!Spec

=============================================================================
