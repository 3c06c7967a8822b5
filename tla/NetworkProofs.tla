--------------------------- MODULE NetworkProofs ---------------------------
(***************************************************************************)
(* The codec delivers the messages of a connection, for any bytes, limit,  *)
(* messages and cuts of the stream; the chat client keeps its lines, for   *)
(* any number of lines and connections.                                    *)
(***************************************************************************)
EXTENDS Codec, ChatClient, SequenceTheorems, TLAPS

CodecIInv ==
  /\ CodecTypeOK /\ NoFrameLeftBehind /\ ShutAtBad /\ DownEmpty
  /\ conn # "down" => \E pos : Offsets(pos) /\ StreamAt(pos)

-----------------------------------------------------------------------------
(* Digits: division by the base, and back. *)

LEMMA Division ==
  ASSUME NEW x \in Nat, CodecParameters
  PROVE  /\ x \div Base \in Nat /\ x % Base \in Byte
         /\ (x \div Base) * Base + (x % Base) = x
BY DEF CodecParameters, Byte

LEMMA Quotient ==
  ASSUME NEW x \in Nat, NEW y \in Nat, CodecParameters, x < y * Base
  PROVE  x \div Base < y
BY DEF CodecParameters

(* A length that a header can hold is read back as the two's complement    *)
(* number of its digits.                                                   *)
LEMMA HeaderReads ==
  ASSUME NEW len \in Nat, len < Word, CodecParameters
  PROVE  /\ Header(len) \in Seq(Byte) /\ Len(Header(len)) = HeaderLen
         /\ PeekInt32(Header(len)) = IF len < Word \div 2 THEN len ELSE len - Word
<1> DEFINE q1 == len \div Base
           q2 == q1 \div Base
           q3 == q2 \div Base
           h == <<q3 % Base, q2 % Base, q1 % Base, len % Base>>
<1>1. Header(len) = h
  BY DEF Header
<1>2. q1 \in Nat /\ len % Base \in Byte /\ q1 * Base + (len % Base) = len
  BY Division
<1>3. q2 \in Nat /\ q1 % Base \in Byte /\ q2 * Base + (q1 % Base) = q1
  BY <1>2, Division
<1>4. q3 \in Nat /\ q2 % Base \in Byte /\ q3 * Base + (q2 % Base) = q2
  BY <1>3, Division
<1>5. q3 % Base \in Byte
  BY <1>4, Division
<1>6. Base \in Nat /\ Base * Base \in Nat /\ Base * Base * Base \in Nat
  BY DEF CodecParameters
<1>7. q1 < Base * Base * Base
  BY <1>6, Quotient DEF Word
<1>8. q2 < Base * Base
  BY <1>2, <1>6, <1>7, Quotient
<1>9. q3 < Base
  BY <1>3, <1>6, <1>8, Quotient
<1>10. q3 % Base = q3
  BY <1>4, <1>6, <1>9 DEF CodecParameters
<1> HIDE DEF q1, q2, q3
<1>11. h \in Seq(Byte) /\ Len(h) = HeaderLen
  BY <1>2, <1>3, <1>4, <1>5 DEF HeaderLen
<1>12. ((h[1] * Base + h[2]) * Base + h[3]) * Base + h[4] = len
  <2>1. h[1] = q3 /\ h[2] = q2 % Base /\ h[3] = q1 % Base /\ h[4] = len % Base
    BY <1>10
  <2>2. h[1] * Base + h[2] = q2
    BY <2>1, <1>4
  <2>3. q2 * Base + h[3] = q1
    BY <2>1, <1>3
  <2> QED
    BY <2>1, <2>2, <2>3, <1>2
<1> QED
  BY <1>1, <1>11, <1>12 DEF PeekInt32

LEMMA SameHeader ==
  ASSUME NEW b, NEW c, \A j \in 1 .. HeaderLen : b[j] = c[j]
  PROVE  PeekInt32(b) = PeekInt32(c)
BY DEF PeekInt32, HeaderLen

LEMMA FrameForm ==
  ASSUME NEW m \in Messages, CodecParameters
  PROVE  /\ m \in Seq(Byte) /\ Len(m) \in Nat /\ Len(m) < Word
         /\ Frame(m) \in Seq(Byte) /\ Len(Frame(m)) = HeaderLen + Len(m)
         /\ \A j \in 1 .. HeaderLen : Frame(m)[j] = Header(Len(m))[j]
         /\ \A j \in 1 .. Len(m) : Frame(m)[HeaderLen + j] = m[j]
<1>1. m \in Seq(Byte) /\ Len(m) \in Nat /\ Len(m) < Word
  BY DEF CodecParameters
<1>2. Header(Len(m)) \in Seq(Byte) /\ Len(Header(Len(m))) = HeaderLen
  BY <1>1, HeaderReads
<1>3. /\ Frame(m) \in Seq(Byte) /\ Len(Frame(m)) = HeaderLen + Len(m)
      /\ \A j \in 1 .. HeaderLen + Len(m) :
           Frame(m)[j] = IF j <= HeaderLen THEN Header(Len(m))[j] ELSE m[j - HeaderLen]
  BY <1>1, <1>2, ConcatProperties DEF Frame
<1>4. \A j \in 1 .. HeaderLen : Frame(m)[j] = Header(Len(m))[j]
  BY <1>1, <1>3 DEF HeaderLen
<1>5. ASSUME NEW j \in 1 .. Len(m)
      PROVE  Frame(m)[HeaderLen + j] = m[j]
  BY <1>1, <1>3 DEF HeaderLen
<1> QED
  BY <1>1, <1>3, <1>4, <1>5

-----------------------------------------------------------------------------
(* What onMessage finds in the buffer: when a header is there, it is that  *)
(* of the first message not delivered, whose frame begins there.           *)
LEMMA NextFrame ==
  ASSUME CodecParameters, CodecTypeOK, HasHeader(buf), NEW pos, Offsets(pos), StreamAt(pos)
  PROVE  LET d == Len(delivered)
             m == sent[d + 1]
         IN  /\ d \in Nat /\ d < Len(sent) /\ m \in Messages /\ Len(m) \in Nat
             /\ BadLength(buf) <=> Len(m) > MaxLen
             /\ ~BadLength(buf) => PeekInt32(buf) = Len(m)
             /\ Unparsed \in Seq(Byte) /\ Len(Unparsed) = Len(buf) + Len(wire)
             /\ HeaderLen + Len(m) <= Len(Unparsed)
             /\ \A j \in 1 .. HeaderLen + Len(m) : Unparsed[j] = Frame(m)[j]
<1> DEFINE d == Len(delivered)
           n == Len(sent)
           m == sent[d + 1]
<1>1. /\ d \in Nat /\ n \in Nat /\ buf \in Seq(Byte) /\ wire \in Seq(Byte)
      /\ Len(buf) \in Nat /\ Len(wire) \in Nat /\ Len(buf) >= HeaderLen
      /\ sent \in Seq(Messages)
  BY DEF CodecTypeOK, HasHeader
<1>2. /\ Unparsed \in Seq(Byte) /\ Len(Unparsed) = Len(buf) + Len(wire)
      /\ \A j \in 1 .. Len(buf) : Unparsed[j] = buf[j]
  BY <1>1, ConcatProperties DEF Unparsed
<1>3. /\ Len(pos) = n + 1 /\ d + 1 \in 1 .. n + 1
      /\ pos[d + 1] + Len(Unparsed) = pos[n + 1]
      /\ \A k \in 1 .. n + 1 : pos[k] \in Nat
  BY <1>1, ElementOfSeq DEF Offsets, StreamAt
<1>4. d < n
  <2>1. Len(Unparsed) > 0
    BY <1>1, <1>2 DEF HeaderLen
  <2>2. pos[d + 1] # pos[n + 1]
    BY <2>1, <1>1, <1>2, <1>3
  <2> QED
    BY <2>2, <1>1, <1>3
<1>5. m \in Messages
  BY <1>1, <1>4, ElementOfSeq
<1>6. Len(m) \in Nat /\ Len(m) < Word /\ \A j \in 1 .. HeaderLen : Frame(m)[j] = Header(Len(m))[j]
  BY <1>5, FrameForm
<1>7. \A j \in 1 .. HeaderLen + Len(m) : Unparsed[j] = Frame(m)[j]
  <2>1. ASSUME NEW j \in 1 .. HeaderLen + Len(m)
        PROVE  Unparsed[j] = Frame(m)[j]
    <3>1. Unparsed[pos[d + 1] - pos[d + 1] + j] = Frame(m)[j]
      BY <1>1, <1>4 DEF StreamAt
    <3>2. pos[d + 1] - pos[d + 1] + j = j
      <4>1. PICK a : a = pos[d + 1] /\ a \in Nat
        BY <1>3
      <4>2. j \in Int
        BY <1>6 DEF HeaderLen
      <4>3. a - a + j = j
        BY <4>1, <4>2
      <4> QED
        BY <4>1, <4>3
    <3> QED
      BY <3>1, <3>2
  <2> QED
    BY <2>1
<1>8. HeaderLen + Len(m) <= Len(Unparsed)
  <2>1. d + 1 \in 1 .. n /\ (d + 1) + 1 \in 1 .. n + 1 /\ n + 1 \in 1 .. n + 1 /\ (d + 1) + 1 <= n + 1
    BY <1>1, <1>4
  <2>2. pos[(d + 1) + 1] = pos[d + 1] + HeaderLen + Len(m)
    BY <2>1 DEF Offsets
  <2>3. pos[(d + 1) + 1] <= pos[n + 1]
    BY <2>1, <1>3 DEF Offsets
  <2>4. pos[d + 1] \in Nat /\ pos[n + 1] \in Nat /\ Len(Unparsed) \in Nat
    BY <2>1, <1>1, <1>2, <1>3
  <2>5. PICK a \in Nat, e \in Nat, u \in Nat, y \in Nat :
          /\ a = pos[d + 1] /\ e = pos[n + 1] /\ u = Len(Unparsed) /\ y = Len(m)
          /\ a + u = e
    BY <2>4, <1>3, <1>6
  <2>6. a + HeaderLen + y <= e
    <3>1. pos[(d + 1) + 1] = a + HeaderLen + y
      BY <2>2, <2>5
    <3> QED
      BY <2>3, <2>5, <3>1
  <2>7. HeaderLen + y <= u
    BY <2>5, <2>6 DEF HeaderLen
  <2> QED
    BY <2>5, <2>7
<1>9. PeekInt32(buf) = IF Len(m) < Word \div 2 THEN Len(m) ELSE Len(m) - Word
  <2>1. ASSUME NEW j \in 1 .. HeaderLen
        PROVE  buf[j] = Header(Len(m))[j]
    <3>1. j \in 1 .. Len(buf) /\ j \in 1 .. HeaderLen + Len(m)
      BY <1>1, <1>6 DEF HeaderLen
    <3> QED
      BY <3>1, <1>2, <1>6, <1>7
  <2>2. PeekInt32(buf) = PeekInt32(Header(Len(m)))
    BY <2>1, SameHeader
  <2> QED
    BY <2>2, <1>6, HeaderReads
<1>10. /\ BadLength(buf) <=> Len(m) > MaxLen
       /\ ~BadLength(buf) => PeekInt32(buf) = Len(m)
  <2>1. Word \in Int /\ MaxLen \in Nat /\ MaxLen < Word \div 2 /\ Word \div 2 \in Int
    BY DEF CodecParameters, Word
  <2> QED
    BY <2>1, <1>6, <1>9 DEF BadLength
<1> QED
  BY <1>1, <1>2, <1>4, <1>5, <1>6, <1>7, <1>8, <1>10

-----------------------------------------------------------------------------
LEMMA InitIInv ==
  ASSUME CodecParameters, CodecInit
  PROVE  CodecIInv
<1> USE DEF CodecInit
<1>1. CodecTypeOK
  <2>1. <<>> \in Seq(Messages) /\ <<>> \in Seq(Byte) /\ <<>> \in Seq(Seq(Byte)) /\ Len(<<>>) = 0
    BY EmptySeq
  <2>2. Len(sent) <= MaxSent
    BY <2>1 DEF CodecParameters
  <2> QED
    BY <2>1, <2>2 DEF CodecTypeOK
<1>2. NoFrameLeftBehind /\ ShutAtBad /\ DownEmpty
  BY DEF NoFrameLeftBehind, ShutAtBad, DownEmpty
<1>3. Len(sent) = 0 /\ Len(delivered) = 0 /\ Len(Unparsed) = 0
  BY ConcatEmptySeq, EmptySeq DEF Unparsed
<1>4. PICK pos : pos = <<0>>
  OBVIOUS
<1>5. pos \in Seq(Nat) /\ Len(pos) = 1 /\ pos[1] = 0
  BY <1>4
<1>6. Offsets(pos)
  BY <1>3, <1>5 DEF Offsets
<1>7. StreamAt(pos)
  BY <1>3, <1>5 DEF StreamAt
<1> QED
  BY <1>1, <1>2, <1>6, <1>7 DEF CodecIInv

(* The counts and types that the steps start from. *)
LEMMA Lengths ==
  ASSUME CodecParameters, CodecTypeOK
  PROVE  /\ Len(sent) \in Nat /\ Len(delivered) \in Nat /\ Len(buf) \in Nat /\ Len(wire) \in Nat
         /\ \A k \in 1 .. Len(sent) : sent[k] \in Messages /\ Len(sent[k]) \in Nat
         /\ Unparsed \in Seq(Byte) /\ Len(Unparsed) = Len(buf) + Len(wire)
<1>1. sent \in Seq(Messages) /\ delivered \in Seq(Seq(Byte)) /\ buf \in Seq(Byte) /\ wire \in Seq(Byte)
  BY DEF CodecTypeOK
<1>2. \A k \in 1 .. Len(sent) : sent[k] \in Messages
  BY <1>1, ElementOfSeq
<1>3. Unparsed \in Seq(Byte) /\ Len(Unparsed) = Len(buf) + Len(wire)
  BY <1>1, ConcatProperties DEF Unparsed
<1> QED
  BY <1>1, <1>2, <1>3, FrameForm

LEMMA Span ==
  ASSUME NEW a \in Nat, NEW b \in Nat, NEW e \in Nat, NEW u \in Nat, NEW x \in Nat,
         a <= b, a + u = e, b + HeaderLen + x <= e,
         NEW j \in 1 .. HeaderLen + x
  PROVE  b - a + j \in 1 .. u
BY DEF HeaderLen

(* The bytes of a frame lie within the stream. *)
LEMMA FrameInside ==
  ASSUME CodecParameters, CodecTypeOK, NEW pos, Offsets(pos), StreamAt(pos),
         NEW k \in Len(delivered) + 1 .. Len(sent)
  PROVE  /\ k \in 1 .. Len(sent) /\ k \in 1 .. Len(pos) /\ k + 1 \in 1 .. Len(pos)
         /\ pos[Len(delivered) + 1] \in Nat /\ pos[k] \in Nat /\ pos[k + 1] \in Nat
         /\ pos[Len(delivered) + 1] <= pos[k]
         /\ pos[k + 1] = pos[k] + HeaderLen + Len(sent[k])
         /\ \A j \in 1 .. HeaderLen + Len(sent[k]) :
              pos[k] - pos[Len(delivered) + 1] + j \in 1 .. Len(Unparsed)
<1> DEFINE f == Len(delivered) + 1
           n == Len(sent)
           u == Len(Unparsed)
           x == Len(sent[k])
<1>1. n \in Nat /\ f \in Nat /\ f >= 1 /\ k \in 1 .. n /\ Len(pos) = n + 1 /\ u \in Nat
  BY Lengths DEF Offsets
<1>2. x \in Nat
  BY <1>1, Lengths
<1>3. /\ \A i \in 1 .. n + 1 : pos[i] \in Nat
      /\ \A i, j \in 1 .. n + 1 : i <= j => pos[i] <= pos[j]
  BY <1>1, ElementOfSeq DEF Offsets
<1>4. pos[k + 1] = pos[k] + HeaderLen + x
  BY <1>1 DEF Offsets
<1>5. pos[f] + u = pos[n + 1] /\ f <= k
  BY <1>1 DEF StreamAt
<1> HIDE DEF f, n, u, x
<1>6. f \in 1 .. n + 1 /\ k \in 1 .. n + 1 /\ k + 1 \in 1 .. n + 1 /\ n + 1 \in 1 .. n + 1
  BY <1>1, <1>5
<1>7. /\ pos[f] \in Nat /\ pos[k] \in Nat /\ pos[k + 1] \in Nat /\ pos[n + 1] \in Nat
      /\ pos[f] <= pos[k] /\ pos[k + 1] <= pos[n + 1]
  BY <1>1, <1>3, <1>5, <1>6
<1>8. ASSUME NEW j \in 1 .. HeaderLen + x
      PROVE  pos[k] - pos[f] + j \in 1 .. u
  <2>1. pos[k] + HeaderLen + x <= pos[n + 1]
    BY <1>4, <1>7
  <2>2. pos[f] + u = pos[n + 1] /\ pos[f] <= pos[k]
    BY <1>5, <1>7
  <2>3. pos[f] \in Nat /\ pos[k] \in Nat /\ pos[n + 1] \in Nat /\ u \in Nat
    BY <1>1, <1>7
  <2> QED
    BY <2>1, <2>2, <2>3, <1>2, Span
<1> QED
  BY <1>1, <1>4, <1>6, <1>7, <1>8 DEF f, n, u, x

(* Streams joined in any grouping are one stream.                         *)
LEMMA StreamAssociative ==
  ASSUME NEW s \in Seq(Byte), NEW t \in Seq(Byte), NEW r \in Seq(Byte)
  PROVE  (s \o t) \o r = s \o (t \o r)
BY ConcatAssociative

LEMMA SendIInv ==
  ASSUME CodecParameters, CodecIInv, NEW m \in Messages, Send(m)
  PROVE  CodecIInv'
<1> DEFINE n == Len(sent)
           d == Len(delivered)
           F == Frame(m)
           x == Len(m)
           u == Len(Unparsed)
<1>1. n \in Nat /\ d \in Nat /\ Unparsed \in Seq(Byte) /\ u \in Nat /\ u = Len(buf) + Len(wire)
      /\ Len(buf) \in Nat /\ Len(wire) \in Nat
  BY Lengths DEF CodecIInv
<1>2. x \in Nat /\ F \in Seq(Byte) /\ Len(F) = HeaderLen + x
  BY FrameForm
<1>3. /\ sent \in Seq(Messages) /\ buf \in Seq(Byte) /\ wire \in Seq(Byte)
      /\ sent' = Append(sent, m) /\ wire' = wire \o F /\ buf' = buf /\ delivered' = delivered
      /\ conn # "down" /\ conn' = conn /\ parsing' = parsing /\ n < MaxSent
  BY DEF CodecIInv, CodecTypeOK, Send
<1>4. /\ sent' \in Seq(Messages) /\ Len(sent') = n + 1
      /\ \A k \in 1 .. n : sent'[k] = sent[k]
      /\ sent'[n + 1] = m
  BY <1>3, AppendProperties
<1>5. wire' \in Seq(Byte) /\ Unparsed' = Unparsed \o F
  <2>1. wire \o F \in Seq(Byte)
    BY <1>2, <1>3, ConcatProperties
  <2>2. (buf \o wire) \o F = buf \o (wire \o F)
    <3>1. buf \in Seq(Byte) /\ wire \in Seq(Byte) /\ F \in Seq(Byte)
      BY <1>2, <1>3
    <3> HIDE DEF F
    <3> QED
      BY <3>1, StreamAssociative
  <2> QED
    BY <2>1, <2>2, <1>3 DEF Unparsed
<1>6. /\ Len(Unparsed \o F) = u + Len(F)
      /\ \A i \in 1 .. u + Len(F) : (Unparsed \o F)[i] = IF i <= u THEN Unparsed[i] ELSE F[i - u]
  <2> HIDE DEF n, d, F, x
  <2>1. Unparsed \in Seq(Byte) /\ F \in Seq(Byte)
    BY <1>1, <1>2
  <2> QED
    BY <2>1, ConcatProperties
<1>7. PICK pos : Offsets(pos) /\ StreamAt(pos)
  BY <1>3 DEF CodecIInv
<1>8. pos \in Seq(Nat) /\ Len(pos) = n + 1 /\ d + 1 \in 1 .. n + 1 /\ pos[d + 1] + u = pos[n + 1]
  BY <1>1, <1>7 DEF Offsets, StreamAt
<1>9. /\ \A k \in 1 .. n : pos[k + 1] = pos[k] + HeaderLen + Len(sent[k])
      /\ \A i, j \in 1 .. n + 1 : i <= j => pos[i] <= pos[j]
  BY <1>7, <1>8 DEF Offsets
<1>10. \A i \in 1 .. n + 1 : pos[i] \in Nat
  BY <1>8, ElementOfSeq
<1>11. \A k \in d + 1 .. n : \A j \in 1 .. HeaderLen + Len(sent[k]) :
         /\ pos[k] - pos[d + 1] + j \in 1 .. u
         /\ Unparsed[pos[k] - pos[d + 1] + j] = Frame(sent[k])[j]
  BY <1>7, FrameInside DEF CodecIInv, StreamAt
<1>12. NoFrameLeftBehind /\ (d < n => ShutAtBad) /\ (conn = "shut" => d < n)
  BY DEF CodecIInv, ShutAtBad
<1>13. PICK q : q = Append(pos, pos[n + 1] + HeaderLen + x)
  OBVIOUS
<1> HIDE DEF n, d, F, x, u
<1>14. pos[n + 1] \in Nat /\ pos[n + 1] + HeaderLen + x \in Nat /\ n + 1 \in 1 .. n + 1 /\ (n + 1) + 1 = n + 2
  BY <1>1, <1>2, <1>10 DEF HeaderLen
<1>15. /\ q \in Seq(Nat) /\ Len(q) = n + 2
       /\ \A k \in 1 .. n + 1 : q[k] = pos[k]
       /\ q[n + 2] = pos[n + 1] + HeaderLen + x
  BY <1>8, <1>13, <1>14, AppendProperties
<1>16. /\ Len(Unparsed') = u + HeaderLen + x
       /\ \A i \in 1 .. u : Unparsed'[i] = Unparsed[i]
       /\ \A j \in 1 .. HeaderLen + x : Unparsed'[u + j] = F[j]
  <2>1. ASSUME NEW i \in 1 .. u
        PROVE  (Unparsed \o F)[i] = Unparsed[i]
    BY <1>1, <1>2, <1>6 DEF HeaderLen
  <2>2. ASSUME NEW j \in 1 .. HeaderLen + x
        PROVE  (Unparsed \o F)[u + j] = F[j]
    <3>1. u + j \in 1 .. u + Len(F) /\ ~(u + j <= u) /\ (u + j) - u = j
      BY <1>1, <1>2 DEF HeaderLen
    <3> QED
      BY <3>1, <1>6
  <2>3. Len(Unparsed \o F) = u + HeaderLen + x
    BY <1>1, <1>2, <1>6 DEF HeaderLen
  <2> QED
    BY <2>1, <2>2, <2>3, <1>5
<1>17. ASSUME NEW k \in 1 .. n + 1
       PROVE  q[k + 1] = q[k] + HeaderLen + Len(sent'[k])
  <2>1. CASE k = n + 1
    BY <2>1, <1>4, <1>14, <1>15 DEF x
  <2>2. CASE k # n + 1
    <3>1. k \in 1 .. n /\ k \in 1 .. n + 1 /\ k + 1 \in 1 .. n + 1
      BY <2>2, <1>1
    <3> QED
      BY <3>1, <1>4, <1>9, <1>15
  <2> QED
    BY <2>1, <2>2
<1>18. ASSUME NEW k \in 1 .. n + 2, NEW l \in 1 .. n + 2, k <= l
       PROVE  q[k] <= q[l]
  <2>1. ASSUME NEW i \in 1 .. n + 1
        PROVE  q[i] \in Nat /\ q[i] <= pos[n + 1]
    <3>1. i <= n + 1 /\ q[i] = pos[i]
      BY <1>1, <1>15
    <3> QED
      BY <3>1, <1>9, <1>10, <1>14
  <2>2. CASE l = n + 2 /\ k = n + 2
    BY <2>2, <1>14, <1>15
  <2>3. CASE l = n + 2 /\ k # n + 2
    <3>1. k \in 1 .. n + 1
      BY <2>3, <1>1
    <3>2. q[k] \in Nat /\ q[k] <= pos[n + 1]
      BY <3>1, <2>1
    <3>3. PICK e \in Nat, y \in Nat : e = pos[n + 1] /\ y = x /\ q[l] = e + HeaderLen + y
      BY <2>3, <1>2, <1>14, <1>15
    <3>4. PICK a \in Nat : a = q[k] /\ a <= e
      BY <3>2, <3>3
    <3>5. a <= e + HeaderLen + y
      BY <3>4 DEF HeaderLen
    <3> QED
      BY <3>3, <3>4, <3>5
  <2>4. CASE l # n + 2
    <3>1. k \in 1 .. n + 1 /\ l \in 1 .. n + 1
      BY <2>4, <1>1, <1>18
    <3> QED
      BY <3>1, <1>9, <1>15, <1>18
  <2> QED
    BY <2>2, <2>3, <2>4
<1>19. Offsets(q)'
  <2>1. Len(q) = Len(sent') + 1
    BY <1>1, <1>4, <1>15
  <2> QED
    BY <2>1, <1>4, <1>15, <1>17, <1>18 DEF Offsets
<1>20. d + 1 \in 1 .. Len(q) /\ q[d + 1] = pos[d + 1] /\ pos[d + 1] \in Nat
  BY <1>1, <1>8, <1>10, <1>15
<1>21. q[d + 1] + Len(Unparsed') = q[Len(q)]
  <2>1. q[d + 1] = pos[d + 1] /\ q[Len(q)] = pos[n + 1] + HeaderLen + x
    BY <1>15, <1>20
  <2>2. Len(Unparsed') = u + HeaderLen + x /\ pos[d + 1] + u = pos[n + 1]
    BY <1>8, <1>16
  <2>3. pos[d + 1] \in Nat /\ u \in Nat /\ x \in Nat /\ HeaderLen \in Nat
    BY <1>1, <1>2, <1>20 DEF HeaderLen
  <2> QED
    BY <2>1, <2>2, <2>3
<1>22. ASSUME NEW k \in d + 1 .. n + 1, NEW j \in 1 .. HeaderLen + Len(sent'[k])
       PROVE  Unparsed'[q[k] - q[d + 1] + j] = Frame(sent'[k])[j]
  <2>1. CASE k = n + 1
    <3>1. sent'[k] = m /\ q[k] = pos[n + 1] /\ j \in 1 .. HeaderLen + x
      BY <2>1, <1>4, <1>14, <1>15 DEF x
    <3>2. j \in Int
      BY <3>1, <1>2 DEF HeaderLen
    <3>3. q[k] - q[d + 1] + j = u + j
      <4>1. PICK a, e : a = pos[d + 1] /\ e = pos[n + 1] /\ q[k] = e /\ q[d + 1] = a
        BY <3>1, <1>20
      <4>2. a \in Nat /\ e \in Nat /\ u \in Nat /\ a + u = e
        BY <4>1, <1>1, <1>8, <1>14, <1>20
      <4>3. e - a + j = u + j
        BY <4>2, <3>2
      <4> QED
        BY <4>1, <4>3
    <3> QED
      BY <3>1, <3>3, <1>16 DEF F
  <2>2. CASE k # n + 1
    <3>1. k \in d + 1 .. n /\ k \in 1 .. n /\ k \in 1 .. n + 1
      BY <2>2, <1>1
    <3>2. sent'[k] = sent[k] /\ q[k] = pos[k]
      BY <3>1, <1>4, <1>15
    <3> QED
      BY <3>1, <3>2, <1>11, <1>16, <1>20
  <2> QED
    BY <2>1, <2>2
<1>23. StreamAt(q)'
  BY <1>3, <1>4, <1>20, <1>21, <1>22 DEF StreamAt, d
<1>24. CodecTypeOK'
  <2>1. Len(sent') <= MaxSent
    BY <1>1, <1>3, <1>4 DEF CodecParameters
  <2> QED
    BY <2>1, <1>3, <1>4, <1>5 DEF CodecIInv, CodecTypeOK
<1>25. d < n => sent'[d + 1] = sent[d + 1]
  BY <1>1, <1>4
<1>26. NoFrameLeftBehind'
  <2> SUFFICES ASSUME ~parsing, conn = "up", d < n + 1
               PROVE  /\ Len(buf) < HeaderLen + Len(sent'[d + 1])
                      /\ Len(buf) >= HeaderLen => Len(sent'[d + 1]) <= MaxLen
    BY <1>3, <1>4 DEF NoFrameLeftBehind, d
  <2>1. CASE d < n
    BY <2>1, <1>12, <1>25 DEF NoFrameLeftBehind, d, n
  <2>2. CASE d = n
    <3>1. sent'[d + 1] = m /\ Len(buf) = 0
      BY <2>2, <1>1, <1>4, <1>8, <1>14
    <3> QED
      BY <3>1, <1>2 DEF HeaderLen, x
  <2> QED
    BY <2>1, <2>2, <1>1
<1>27. ShutAtBad' /\ DownEmpty'
  <2>1. ShutAtBad'
    <3> SUFFICES ASSUME conn = "shut"
                 PROVE  d < n + 1 /\ Len(sent'[d + 1]) > MaxLen /\ Len(buf) >= HeaderLen
      BY <1>3, <1>4 DEF ShutAtBad, d
    <3> QED
      BY <1>1, <1>12, <1>25 DEF ShutAtBad, d
  <2> QED
    BY <2>1, <1>3 DEF DownEmpty
<1> QED
  BY <1>19, <1>23, <1>24, <1>26, <1>27 DEF CodecIInv

-----------------------------------------------------------------------------
(* Reading moves bytes from the wire to the buffer: the stream of both is  *)
(* the same one.                                                           *)
LEMMA CutStream ==
  ASSUME NEW b \in Seq(Byte), NEW w \in Seq(Byte), NEW n \in 1 .. Len(w)
  PROVE  /\ b \o SubSeq(w, 1, n) \in Seq(Byte) /\ SubSeq(w, n + 1, Len(w)) \in Seq(Byte)
         /\ Len(b \o SubSeq(w, 1, n)) = Len(b) + n
         /\ (b \o SubSeq(w, 1, n)) \o SubSeq(w, n + 1, Len(w)) = b \o w
<1> DEFINE h == SubSeq(w, 1, n)
           t == SubSeq(w, n + 1, Len(w))
<1>1. Len(w) \in Nat /\ Len(b) \in Nat /\ n \in Int /\ 1 <= n /\ n <= Len(w)
      /\ \A i \in 1 .. Len(w) : w[i] \in Byte
  BY LenProperties
<1>2. h \in Seq(Byte) /\ Len(h) = n
  BY <1>1, SubSeqProperties
<1>3. t \in Seq(Byte)
  BY <1>1, SubSeqProperties
<1>4. h \o t = w
  <2>1. h \o t = SubSeq(w, 1, Len(w))
    BY <1>1, ConcatAdjacentSubSeq
  <2> QED
    BY <2>1, SubSeqFull
<1> HIDE DEF h, t
<1>5. (b \o h) \o t = b \o (h \o t)
  BY <1>2, <1>3, StreamAssociative
<1>6. b \o h \in Seq(Byte) /\ Len(b \o h) = Len(b) + n
  BY <1>2, ConcatProperties
<1> QED
  BY <1>3, <1>4, <1>5, <1>6 DEF h, t

(* What is left of the stream when the first l bytes of the buffer are taken. *)
LEMMA RestOfStream ==
  ASSUME NEW b \in Seq(Byte), NEW w \in Seq(Byte), NEW l \in Nat, l <= Len(b)
  PROVE  /\ Retrieve(b, l) \in Seq(Byte) /\ Len(Retrieve(b, l)) = Len(b) - l
         /\ Len(Retrieve(b, l) \o w) = Len(b) + Len(w) - l
         /\ \A i \in 1 .. Len(b) + Len(w) - l : (Retrieve(b, l) \o w)[i] = (b \o w)[l + i]
<1> DEFINE r == SubSeq(b, l + 1, Len(b))
<1>1. Len(w) \in Nat /\ Len(b) \in Nat /\ \A i \in 1 .. Len(b) : b[i] \in Byte
  BY LenProperties
<1>2. /\ r \in Seq(Byte) /\ Len(r) = Len(b) - l
      /\ \A i \in 1 .. Len(b) - l : r[i] = b[l + i]
  <2>1. \A i \in l + 1 .. Len(b) : b[i] \in Byte
    BY <1>1
  <2>2. /\ r \in Seq(Byte)
        /\ Len(r) = IF l + 1 <= Len(b) THEN Len(b) - (l + 1) + 1 ELSE 0
        /\ \A i \in 1 .. Len(b) - (l + 1) + 1 : r[i] = b[(l + 1) + i - 1]
    BY <2>1, <1>1, SubSeqProperties
  <2>3. \A i \in 1 .. Len(b) - l : r[i] = b[l + i]
    <3> SUFFICES ASSUME NEW i \in 1 .. Len(b) - l
                 PROVE  r[i] = b[l + i]
      OBVIOUS
    <3>1. i \in 1 .. Len(b) - (l + 1) + 1 /\ (l + 1) + i - 1 = l + i
      BY <1>1
    <3> QED
      BY <3>1, <2>2
  <2> QED
    BY <2>2, <2>3, <1>1
<1> HIDE DEF r
<1>3. /\ Len(r \o w) = Len(b) + Len(w) - l
      /\ \A i \in 1 .. Len(r) + Len(w) : (r \o w)[i] = IF i <= Len(r) THEN r[i] ELSE w[i - Len(r)]
  BY <1>1, <1>2, ConcatProperties
<1>4. \A i \in 1 .. Len(b) + Len(w) : (b \o w)[i] = IF i <= Len(b) THEN b[i] ELSE w[i - Len(b)]
  BY ConcatProperties
<1>5. ASSUME NEW i \in 1 .. Len(b) + Len(w) - l
      PROVE  (r \o w)[i] = (b \o w)[l + i]
  <2>1. i \in 1 .. Len(r) + Len(w) /\ l + i \in 1 .. Len(b) + Len(w)
    BY <1>1, <1>2
  <2>2. CASE i <= Len(r)
    <3>1. i \in 1 .. Len(b) - l /\ l + i <= Len(b)
      BY <2>2, <1>1, <1>2
    <3> QED
      BY <3>1, <2>1, <2>2, <1>2, <1>3, <1>4
  <2>3. CASE ~(i <= Len(r))
    <3>1. ~(l + i <= Len(b)) /\ i - Len(r) = (l + i) - Len(b)
      BY <2>3, <1>1, <1>2
    <3> QED
      BY <3>1, <2>1, <2>3, <1>3, <1>4
  <2> QED
    BY <2>2, <2>3
<1> QED
  BY <1>2, <1>3, <1>5 DEF r, Retrieve

(* The offsets depend on what was sent only, the stream on what is unparsed *)
(* and how many messages were delivered.                                   *)
LEMMA SameStream ==
  ASSUME sent' = sent, delivered' = delivered, Unparsed' = Unparsed,
         conn # "down" => \E pos : Offsets(pos) /\ StreamAt(pos),
         conn' # "down" => conn # "down"
  PROVE  conn' # "down" => \E pos : Offsets(pos)' /\ StreamAt(pos)'
<1> SUFFICES ASSUME conn' # "down"
             PROVE  \E pos : Offsets(pos)' /\ StreamAt(pos)'
  OBVIOUS
<1>1. PICK pos : Offsets(pos) /\ StreamAt(pos)
  OBVIOUS
<1>2. Offsets(pos)' /\ StreamAt(pos)'
  BY <1>1 DEF Offsets, StreamAt
<1> QED
  BY <1>2

LEMMA ReadIInv ==
  ASSUME CodecParameters, CodecIInv, NEW n \in 1 .. Len(wire), Receive(n)
  PROVE  CodecIInv'
<1>1. /\ buf \in Seq(Byte) /\ wire \in Seq(Byte) /\ Len(buf) \in Nat
      /\ buf' = buf \o SubSeq(wire, 1, n)
      /\ wire' = SubSeq(wire, n + 1, Len(wire))
  BY Lengths DEF CodecIInv, CodecTypeOK, Receive
<1>2. /\ sent' = sent /\ delivered' = delivered /\ conn' = conn /\ parsing' = TRUE
  BY DEF Receive
<1>3. /\ buf' \in Seq(Byte) /\ wire' \in Seq(Byte) /\ Len(buf') = Len(buf) + n
      /\ Unparsed' = Unparsed
  BY <1>1, CutStream DEF Unparsed
<1>4. CodecTypeOK' /\ NoFrameLeftBehind'
  BY <1>2, <1>3 DEF CodecIInv, CodecTypeOK, NoFrameLeftBehind
<1>5. ShutAtBad'
  BY <1>1, <1>2, <1>3 DEF CodecIInv, ShutAtBad, HeaderLen
<1>6. DownEmpty'
  <2>1. conn # "down"
    BY EmptySeq DEF CodecIInv, DownEmpty
  <2> QED
    BY <2>1, <1>2 DEF DownEmpty
<1>7. conn' # "down" => \E pos : Offsets(pos)' /\ StreamAt(pos)'
  BY <1>2, <1>3, SameStream DEF CodecIInv
<1> QED
  BY <1>4, <1>5, <1>6, <1>7 DEF CodecIInv

LEMMA RejectLengthIInv ==
  ASSUME CodecParameters, CodecIInv, RejectLength
  PROVE  CodecIInv'
<1>1. parsing /\ HasHeader(buf) /\ BadLength(buf) /\ CodecTypeOK /\ conn # "down"
  BY DEF CodecIInv, DownEmpty, RejectLength
<1>2. /\ sent' = sent /\ wire' = wire /\ buf' = buf /\ delivered' = delivered
      /\ conn' = "shut" /\ parsing' = FALSE /\ Unparsed' = Unparsed
  BY DEF RejectLength, Unparsed
<1>3. PICK pos : Offsets(pos) /\ StreamAt(pos)
  BY <1>1 DEF CodecIInv
<1>4. Len(delivered) < Len(sent) /\ Len(sent[Len(delivered) + 1]) > MaxLen
  BY <1>1, <1>3, NextFrame
<1>5. CodecTypeOK' /\ NoFrameLeftBehind' /\ DownEmpty'
  BY <1>1, <1>2 DEF CodecTypeOK, NoFrameLeftBehind, DownEmpty
<1>6. ShutAtBad'
  BY <1>1, <1>2, <1>4 DEF ShutAtBad, HasHeader
<1>7. conn' # "down" => \E p : Offsets(p)' /\ StreamAt(p)'
  BY <1>1, <1>2, SameStream DEF CodecIInv
<1> QED
  BY <1>5, <1>6, <1>7 DEF CodecIInv

LEMMA AwaitMoreIInv ==
  ASSUME CodecParameters, CodecIInv, AwaitMore
  PROVE  CodecIInv'
<1>1. CodecTypeOK /\ ShutAtBad /\ parsing /\ conn # "down"
  BY DEF CodecIInv, DownEmpty, AwaitMore
<1>2. /\ sent' = sent /\ wire' = wire /\ buf' = buf /\ delivered' = delivered
      /\ conn' = conn /\ parsing' = FALSE /\ Unparsed' = Unparsed
  BY DEF AwaitMore, Unparsed
<1>3. PICK pos : Offsets(pos) /\ StreamAt(pos)
  BY <1>1 DEF CodecIInv
<1>4. NoFrameLeftBehind'
  <2> DEFINE m == sent[Len(delivered) + 1]
  <2> SUFFICES ASSUME Len(delivered) < Len(sent)
               PROVE  /\ Len(buf) < HeaderLen + Len(m)
                      /\ Len(buf) >= HeaderLen => Len(m) <= MaxLen
    BY <1>2 DEF NoFrameLeftBehind
  <2>1. Len(buf) \in Nat /\ Len(delivered) + 1 \in 1 .. Len(sent) /\ Len(m) \in Nat
    BY <1>1, Lengths
  <2>2. CASE HasHeader(buf)
    <3>1. ~BadLength(buf) /\ ~HasFrame(buf)
      BY <2>2 DEF AwaitMore
    <3>2. PeekInt32(buf) = Len(m) /\ ~(Len(m) > MaxLen)
      BY <1>1, <1>3, <2>2, <3>1, NextFrame
    <3>3. MaxLen \in Nat
      BY DEF CodecParameters
    <3> QED
      BY <2>1, <3>1, <3>2, <3>3 DEF HasFrame, HeaderLen
  <2>3. CASE ~HasHeader(buf)
    BY <2>1, <2>3 DEF HasHeader, HeaderLen
  <2> QED
    BY <2>2, <2>3
<1>5. CodecTypeOK' /\ ShutAtBad' /\ DownEmpty'
  BY <1>1, <1>2 DEF CodecTypeOK, ShutAtBad, DownEmpty
<1>6. conn' # "down" => \E p : Offsets(p)' /\ StreamAt(p)'
  BY <1>1, <1>2, SameStream DEF CodecIInv
<1> QED
  BY <1>4, <1>5, <1>6 DEF CodecIInv

LEMMA CloseIInv ==
  ASSUME CodecParameters, CodecIInv, Close
  PROVE  CodecIInv'
<1>1. /\ sent' = sent /\ wire' = <<>> /\ buf' = <<>> /\ delivered' = delivered
      /\ conn' = "down" /\ parsing' = parsing /\ ~parsing
  BY DEF Close
<1>2. <<>> \in Seq(Byte)
  BY EmptySeq
<1>3. CodecTypeOK'
  BY <1>1, <1>2 DEF CodecIInv, CodecTypeOK
<1> QED
  BY <1>1, <1>3 DEF CodecIInv, NoFrameLeftBehind, ShutAtBad, DownEmpty

LEMMA StutterIInv ==
  ASSUME CodecIInv, UNCHANGED codecVars
  PROVE  CodecIInv'
<1>1. /\ sent' = sent /\ wire' = wire /\ buf' = buf /\ delivered' = delivered
      /\ conn' = conn /\ parsing' = parsing /\ Unparsed' = Unparsed
  BY DEF codecVars, Unparsed
<1>2. CodecTypeOK' /\ NoFrameLeftBehind' /\ ShutAtBad' /\ DownEmpty'
  BY <1>1 DEF CodecIInv, CodecTypeOK, NoFrameLeftBehind, ShutAtBad, DownEmpty
<1>3. conn' # "down" => \E pos : Offsets(pos)' /\ StreamAt(pos)'
  BY <1>1, SameStream DEF CodecIInv
<1> QED
  BY <1>2, <1>3 DEF CodecIInv

-----------------------------------------------------------------------------
(* onMessage takes the first message not delivered, as it was sent, out of *)
(* a connection that is up.                                                *)
LEMMA TakeFrameTakes ==
  ASSUME CodecParameters, CodecIInv, TakeFrame
  PROVE  LET m == sent[Len(delivered) + 1]
         IN  /\ conn = "up" /\ Len(delivered) < Len(sent)
             /\ m \in Messages /\ Len(m) <= MaxLen
             /\ HeaderLen + Len(m) \in Nat /\ HeaderLen + Len(m) <= Len(buf)
             /\ delivered' = Append(delivered, m)
             /\ buf' = Retrieve(buf, HeaderLen + Len(m))
<1> DEFINE d == Len(delivered)
           m == sent[d + 1]
           p == SubSeq(buf, HeaderLen + 1, HeaderLen + Len(m))
<1>1. /\ CodecTypeOK /\ ShutAtBad /\ conn # "down" /\ conn \in {"up", "shut", "down"}
      /\ HasHeader(buf) /\ ~BadLength(buf) /\ HasFrame(buf)
  BY DEF CodecIInv, CodecTypeOK, DownEmpty, TakeFrame
<1>2. PICK pos : Offsets(pos) /\ StreamAt(pos)
  BY <1>1 DEF CodecIInv
<1>3. /\ d \in Nat /\ d < Len(sent) /\ m \in Messages /\ Len(m) \in Nat /\ ~(Len(m) > MaxLen)
      /\ PeekInt32(buf) = Len(m)
      /\ \A j \in 1 .. HeaderLen + Len(m) : Unparsed[j] = Frame(m)[j]
  BY <1>1, <1>2, NextFrame
<1>4. /\ m \in Seq(Byte) /\ buf \in Seq(Byte) /\ wire \in Seq(Byte)
      /\ \A j \in 1 .. Len(m) : Frame(m)[HeaderLen + j] = m[j]
  BY <1>1, <1>3, FrameForm DEF CodecTypeOK
<1>5. conn = "up"
  BY <1>1, <1>3 DEF ShutAtBad
<1>6. MaxLen \in Nat /\ Len(buf) \in Nat
  BY <1>1, Lengths DEF CodecParameters
<1>7. HeaderLen + Len(m) \in Nat /\ HeaderLen + Len(m) <= Len(buf) /\ Len(m) <= MaxLen
  BY <1>1, <1>3, <1>6 DEF HasFrame, HeaderLen
<1>8. /\ \A j \in 1 .. Len(buf) : buf[j] \in Byte /\ Unparsed[j] = buf[j]
  BY <1>4, ElementOfSeq, ConcatProperties DEF Unparsed
<1>9. p = m
  <2> HIDE DEF d, m
  <2>1. \A j \in HeaderLen + 1 .. HeaderLen + Len(m) : buf[j] \in Byte
    BY <1>3, <1>6, <1>7, <1>8 DEF HeaderLen
  <2>2. /\ p \in Seq(Byte) /\ Len(p) = Len(m)
        /\ \A j \in 1 .. Len(m) : p[j] = buf[HeaderLen + j]
    <3>1. /\ p \in Seq(Byte)
          /\ Len(p) = IF HeaderLen + 1 <= HeaderLen + Len(m)
                        THEN HeaderLen + Len(m) - (HeaderLen + 1) + 1 ELSE 0
          /\ \A j \in 1 .. HeaderLen + Len(m) - (HeaderLen + 1) + 1 :
               p[j] = buf[(HeaderLen + 1) + j - 1]
      BY <1>3, <1>7, <2>1, SubSeqProperties DEF HeaderLen
    <3>2. HeaderLen + Len(m) - (HeaderLen + 1) + 1 = Len(m)
      BY <1>3 DEF HeaderLen
    <3>3. ASSUME NEW j \in 1 .. Len(m)
          PROVE  p[j] = buf[HeaderLen + j]
      <4>1. (HeaderLen + 1) + j - 1 = HeaderLen + j
        BY <1>3 DEF HeaderLen
      <4> QED
        BY <3>1, <3>2, <4>1
    <3> HIDE DEF p
    <3>4. Len(p) = Len(m)
      BY <3>1, <1>3 DEF HeaderLen
    <3> QED
      BY <3>1, <3>3, <3>4
  <2>3. ASSUME NEW j \in 1 .. Len(m)
        PROVE  p[j] = m[j]
    <3>1. HeaderLen + j \in 1 .. HeaderLen + Len(m) /\ HeaderLen + j \in 1 .. Len(buf)
      BY <1>3, <1>6, <1>7 DEF HeaderLen
    <3> QED
      BY <3>1, <2>2, <1>3, <1>4, <1>8
  <2> HIDE DEF p
  <2> QED
    BY <2>2, <2>3, <1>4, SeqEqual
<1>10. delivered' = Append(delivered, p) /\ buf' = Retrieve(buf, HeaderLen + Len(m))
  BY <1>3 DEF TakeFrame
<1> HIDE DEF d, m, p
<1>11. delivered' = Append(delivered, m)
  BY <1>9, <1>10
<1> QED
  BY <1>3, <1>5, <1>7, <1>10, <1>11 DEF d, m

LEMMA TakeFrameIInv ==
  ASSUME CodecParameters, CodecIInv, TakeFrame
  PROVE  CodecIInv'
<1> DEFINE n == Len(sent)
           d == Len(delivered)
           m == sent[d + 1]
           l == HeaderLen + Len(m)
           u == Len(Unparsed)
<1>1. /\ conn = "up" /\ d < n /\ m \in Messages
      /\ l \in Nat /\ l <= Len(buf)
      /\ delivered' = Append(delivered, m) /\ buf' = Retrieve(buf, l)
  BY TakeFrameTakes
<1>2. /\ sent' = sent /\ wire' = wire /\ conn' = conn /\ parsing' = TRUE /\ parsing
      /\ CodecTypeOK /\ DownEmpty
  BY DEF CodecIInv, TakeFrame
<1>3. /\ n \in Nat /\ d \in Nat /\ Len(buf) \in Nat /\ Len(wire) \in Nat
      /\ buf \in Seq(Byte) /\ wire \in Seq(Byte) /\ delivered \in Seq(Seq(Byte))
      /\ u = Len(buf) + Len(wire) /\ m \in Seq(Byte)
      /\ \A k \in 1 .. n : Len(sent[k]) \in Nat
  BY <1>1, <1>2, Lengths, FrameForm DEF CodecTypeOK
<1>4. PICK pos : Offsets(pos) /\ StreamAt(pos)
  BY <1>1 DEF CodecIInv
<1>5. /\ Len(pos) = n + 1 /\ \A k \in 1 .. n + 1 : pos[k] \in Nat
      /\ \A i, j \in 1 .. n + 1 : i <= j => pos[i] <= pos[j]
      /\ pos[d + 1] + u = pos[n + 1]
  BY <1>3, <1>4, ElementOfSeq DEF Offsets, StreamAt
<1>6. \A k \in d + 1 .. n : \A j \in 1 .. HeaderLen + Len(sent[k]) :
         /\ pos[k] - pos[d + 1] + j \in 1 .. u
         /\ Unparsed[pos[k] - pos[d + 1] + j] = Frame(sent[k])[j]
  BY <1>2, <1>4, FrameInside DEF StreamAt
<1>7. pos[d + 2] = pos[d + 1] + l
  <2>1. d + 1 \in 1 .. n /\ (d + 1) + 1 = d + 2
    BY <1>1, <1>3
  <2>2. pos[(d + 1) + 1] = pos[d + 1] + HeaderLen + Len(m)
    BY <2>1, <1>4 DEF Offsets
  <2>3. pos[d + 1] \in Nat /\ Len(m) \in Nat
    BY <2>1, <1>3, <1>5
  <2> QED
    BY <2>1, <2>2, <2>3 DEF HeaderLen
<1> HIDE DEF n, d, m, l, u
<1>8. /\ delivered' \in Seq(Seq(Byte)) /\ Len(delivered') = d + 1
  BY <1>1, <1>3, AppendProperties DEF d
<1>9. /\ buf' \in Seq(Byte) /\ Len(Unparsed') = u - l
      /\ \A i \in 1 .. u - l : Unparsed'[i] = Unparsed[l + i]
  <2>1. /\ Retrieve(buf, l) \in Seq(Byte)
        /\ Len(Retrieve(buf, l) \o wire) = Len(buf) + Len(wire) - l
        /\ \A i \in 1 .. Len(buf) + Len(wire) - l :
             (Retrieve(buf, l) \o wire)[i] = (buf \o wire)[l + i]
    BY <1>1, <1>3, RestOfStream
  <2>2. Unparsed = buf \o wire /\ Unparsed' = Retrieve(buf, l) \o wire
    BY <1>1, <1>2 DEF Unparsed
  <2>3. Len(buf) + Len(wire) - l = u - l
    <3>1. PICK x \in Nat, y \in Nat : x = Len(buf) /\ y = Len(wire) /\ u = x + y
      BY <1>3
    <3>2. l \in Nat
      BY <1>1
    <3>3. x + y - l = u - l
      BY <3>1, <3>2
    <3> QED
      BY <3>1, <3>3
  <2>4. /\ Len(Unparsed') = u - l
        /\ \A i \in 1 .. u - l : Unparsed'[i] = Unparsed[l + i]
    BY <2>1, <2>2, <2>3
  <2> QED
    BY <2>1, <2>4, <1>1
<1>10. /\ d + 1 \in 1 .. n /\ d + 2 \in 1 .. n + 1 /\ n + 1 \in 1 .. n + 1
       /\ pos[d + 1] \in Nat /\ pos[d + 2] \in Nat /\ pos[n + 1] \in Nat
  <2>1. n \in Nat /\ d \in Nat /\ d < n
    BY <1>1, <1>3
  <2>2. d + 1 \in 1 .. n /\ d + 1 \in 1 .. n + 1 /\ d + 2 \in 1 .. n + 1 /\ n + 1 \in 1 .. n + 1
    BY <2>1
  <2>3. \A k \in 1 .. n + 1 : pos[k] \in Nat
    BY <1>5
  <2> QED
    BY <2>2, <2>3
<1>11. Offsets(pos)'
  BY <1>2, <1>4 DEF Offsets
<1>12. u \in Nat /\ pos[d + 2] + (u - l) = pos[n + 1]
  <2>1. u \in Nat
    BY <1>3
  <2>2. PICK a, c, e : a = pos[d + 1] /\ c = pos[d + 2] /\ e = pos[n + 1]
    OBVIOUS
  <2>3. a \in Nat /\ l \in Nat /\ c = a + l /\ a + u = e
    BY <2>2, <1>1, <1>5, <1>7, <1>10
  <2>4. c + (u - l) = e
    BY <2>1, <2>3
  <2> QED
    BY <2>1, <2>2, <2>4
<1>13. ASSUME NEW k \in d + 2 .. n, NEW j \in 1 .. HeaderLen + Len(sent[k])
       PROVE  Unparsed'[pos[k] - pos[d + 2] + j] = Frame(sent[k])[j]
  <2>1. /\ k \in d + 1 .. n /\ k \in 1 .. n /\ k \in 1 .. n + 1 /\ d + 2 <= k
    BY <1>3
  <2>2. pos[k] \in Nat /\ pos[d + 2] <= pos[k]
    BY <2>1, <1>5, <1>10
  <2>3. j \in Nat /\ j >= 1
    BY <2>1, <1>3 DEF HeaderLen
  <2>4. /\ pos[k] - pos[d + 1] + j \in 1 .. u
        /\ Unparsed[pos[k] - pos[d + 1] + j] = Frame(sent[k])[j]
    BY <2>1, <1>6
  <2>5. /\ pos[k] - pos[d + 2] + j \in 1 .. u - l
        /\ l + (pos[k] - pos[d + 2] + j) = pos[k] - pos[d + 1] + j
    <3>1. pos[k] - pos[d + 1] + j \in 1 .. u
      BY <2>4
    <3>2. u \in Nat /\ l \in Nat /\ pos[d + 1] \in Nat /\ pos[d + 2] \in Nat
      BY <1>1, <1>10, <1>12
    <3>3. PICK a, b, c : a = pos[d + 1] /\ b = pos[k] /\ c = pos[d + 2]
      OBVIOUS
    <3>4. /\ a \in Nat /\ b \in Nat /\ c \in Nat
          /\ c = a + l /\ c <= b /\ b - a + j \in 1 .. u
      BY <3>1, <3>2, <3>3, <2>2, <1>7
    <3>5. b - c + j \in 1 .. u - l /\ l + (b - c + j) = b - a + j
      BY <3>2, <3>4, <2>3
    <3> QED
      BY <3>3, <3>5
  <2> QED
    BY <2>4, <2>5, <1>9
<1>14. StreamAt(pos)'
  <2>1. Len(delivered') + 1 = d + 2 /\ d + 2 \in 1 .. Len(pos)
    BY <1>3, <1>5, <1>8, <1>10
  <2>2. pos[d + 2] + Len(Unparsed') = pos[Len(pos)]
    BY <1>5, <1>9, <1>12
  <2> QED
    BY <2>1, <2>2, <1>2, <1>13 DEF StreamAt, n
<1>15. CodecTypeOK'
  BY <1>2, <1>8, <1>9 DEF CodecTypeOK
<1>16. NoFrameLeftBehind' /\ ShutAtBad' /\ DownEmpty'
  BY <1>1, <1>2 DEF NoFrameLeftBehind, ShutAtBad, DownEmpty
<1> QED
  BY <1>11, <1>14, <1>15, <1>16 DEF CodecIInv

-----------------------------------------------------------------------------
LEMMA NextIInv ==
  ASSUME CodecParameters, CodecIInv, [CodecNext]_codecVars
  PROVE  CodecIInv'
<1>1. CASE \E m \in Messages : Send(m)
  BY <1>1, SendIInv
<1>2. CASE \E n \in 1 .. Len(wire) : Receive(n)
  BY <1>2, ReadIInv
<1>3. CASE RejectLength
  BY <1>3, RejectLengthIInv
<1>4. CASE TakeFrame
  BY <1>4, TakeFrameIInv
<1>5. CASE AwaitMore
  BY <1>5, AwaitMoreIInv
<1>6. CASE Close
  BY <1>6, CloseIInv
<1>7. CASE UNCHANGED codecVars
  BY <1>7, StutterIInv
<1> QED
  BY <1>1, <1>2, <1>3, <1>4, <1>5, <1>6, <1>7 DEF CodecNext, OnMessage

(* Whatever the cuts of the stream, what is not parsed is a sequence of    *)
(* whole frames, the first one's header first.                             *)
THEOREM CodecInvariant ==
  ASSUME CodecParameters
  PROVE  CodecSpec => []CodecIInv
<1>1. CodecInit => CodecIInv
  BY InitIInv
<1>2. CodecIInv /\ [CodecNext]_codecVars => CodecIInv'
  BY NextIInv
<1> QED
  BY <1>1, <1>2, PTL DEF CodecSpec

(* onMessage never leaves a complete frame, or a header to be refused, in  *)
(* the input buffer.                                                       *)
THEOREM NoFrameLeftBehindAlways ==
  ASSUME CodecParameters
  PROVE  CodecSpec => []NoFrameLeftBehind
<1>1. CodecIInv => NoFrameLeftBehind
  BY DEF CodecIInv
<1> QED
  BY <1>1, CodecInvariant, PTL

-----------------------------------------------------------------------------
(* The codec on the level of messages: a frame taken is the delivery of the *)
(* next message, a length rejected the refusal of an unacceptable one, and *)
(* every cut of the stream a stutter.                                      *)
LEMMA StepRefines ==
  ASSUME CodecParameters, CodecIInv, [CodecNext]_codecVars
  PROVE  [FS!Next]_(FS!vars)
<1> USE DEF FS!vars
<1>1. ASSUME NEW m \in Messages, Send(m)
      PROVE  FS!Next
  BY <1>1 DEF Send, FS!Next, FS!Send
<1>2. CASE \/ (\E n \in 1 .. Len(wire) : Receive(n)) \/ AwaitMore \/ UNCHANGED codecVars
  BY <1>2 DEF Receive, AwaitMore, codecVars
<1>3. CASE RejectLength
  <2>1. /\ CodecTypeOK /\ HasHeader(buf) /\ BadLength(buf) /\ conn # "down"
        /\ conn \in {"up", "shut", "down"}
        /\ sent' = sent /\ delivered' = delivered /\ conn' = "shut"
    BY <1>3 DEF CodecIInv, CodecTypeOK, DownEmpty, RejectLength
  <2>2. PICK pos : Offsets(pos) /\ StreamAt(pos)
    BY <2>1 DEF CodecIInv
  <2>3. Len(delivered) < Len(sent) /\ Len(sent[Len(delivered) + 1]) \in Nat
        /\ Len(sent[Len(delivered) + 1]) > MaxLen
    BY <2>1, <2>2, NextFrame
  <2>4. CASE conn = "up"
    <3>1. MaxLen \in Nat
      BY DEF CodecParameters
    <3>2. FS!Refuse
      BY <2>1, <2>3, <2>4, <3>1 DEF FS!Refuse, FS!HasNext, FS!NextMessage
    <3> QED
      BY <3>2 DEF FS!Next
  <2>5. CASE conn = "shut"
    BY <2>1, <2>5
  <2> QED
    BY <2>1, <2>4, <2>5
<1>4. CASE TakeFrame
  <2>1. /\ conn = "up" /\ Len(delivered) < Len(sent)
        /\ sent[Len(delivered) + 1] \in Messages /\ Len(sent[Len(delivered) + 1]) <= MaxLen
        /\ delivered' = Append(delivered, sent[Len(delivered) + 1])
    BY <1>4, TakeFrameTakes
  <2>2. sent' = sent /\ conn' = conn
    BY <1>4 DEF TakeFrame
  <2>3. FS!Deliver
    BY <2>1, <2>2 DEF FS!Deliver, FS!HasNext, FS!NextMessage
  <2> QED
    BY <2>3 DEF FS!Next
<1>5. CASE Close
  BY <1>5 DEF Close, FS!Next, FS!Lose
<1> QED
  BY <1>1, <1>2, <1>3, <1>4, <1>5 DEF CodecNext, OnMessage

(* The safety half of ImplementsFrameStream. *)
THEOREM StreamRefinement ==
  ASSUME CodecParameters
  PROVE  CodecSpec => FS!Init /\ [][FS!Next]_(FS!vars)
<1>1. CodecInit => FS!Init
  BY DEF CodecInit, FS!Init
<1>2. CodecIInv /\ [CodecNext]_codecVars => [FS!Next]_(FS!vars)
  BY StepRefines
<1> QED
  BY <1>1, <1>2, CodecInvariant, PTL DEF CodecSpec


-----------------------------------------------------------------------------
(* The chat client.                                                        *)

(* What is sent and pending are lines that were typed. *)
LEMMA TypedLines ==
  ASSUME ClientParameters, ClientIInv
  PROVE  /\ Len(written) \in Nat /\ Len(functors) \in Nat /\ Len(target) \in Nat
         /\ Done \in Int /\ Done <= Len(target)
         /\ \A i \in 1 .. Len(written) :
              written[i] \in Lines /\ written[i].line \in Nat /\ 1 <= written[i].line /\ written[i].line <= Done
         /\ \A i \in 1 .. Len(functors) :
              functors[i] \in Lines /\ functors[i].line \in Nat /\ 1 <= functors[i].line /\ functors[i].line <= Done
<1>1. written \in Seq(Lines) /\ functors \in Seq(Lines) /\ target \in Seq(Connections \cup {None})
  BY DEF ClientIInv, LinesKept, ClientTypeOK
<1>2. /\ \A i \in 1 .. Len(written) : written[i] \in Lines
      /\ \A i \in 1 .. Len(functors) : functors[i] \in Lines
  BY <1>1, ElementOfSeq
<1>3. \A l \in Lines : l.line \in 1 .. MaxLines
  BY DEF Lines
<1>4. Len(written) \in Nat /\ Len(functors) \in Nat /\ Len(target) \in Nat
  BY <1>1
<1> QED
  BY <1>2, <1>3, <1>4 DEF ClientIInv, PendingInOrder, Done, ClientParameters

LEMMA InitClientIInv ==
  ASSUME ClientParameters, ClientInit
  PROVE  ClientIInv
<1> USE DEF ClientInit, ClientParameters
<1>1. ClientTypeOK
  BY EmptySeq DEF ClientTypeOK
<1>2. Len(written) = 0 /\ Len(functors) = 0 /\ Len(target) = 0
  BY EmptySeq
<1>3. PointerAlive /\ SameConnection /\ LinesInOrder /\ NothingDroppedWhileUp
  BY <1>2 DEF PointerAlive, SameConnection, LinesInOrder, NothingDroppedWhileUp
<1>4. Owner /\ ConnOfState /\ DisconnectLast /\ ConnsKnown /\ LineInHand
  BY <1>2 DEF Owner, ConnOfState, DisconnectLast, ConnsKnown, LineInHand
<1>5. PendingInOrder /\ DoneKept
  BY <1>2 DEF PendingInOrder, DoneKept, Done
<1> QED
  BY <1>1, <1>3, <1>4, <1>5 DEF ClientIInv, LinesKept

LEMMA TypeLineIInv ==
  ASSUME ClientParameters, ClientIInv, TypeLine
  PROVE  ClientIInv'
<1> USE DEF TypeLine, tcpVars
<1>1. ClientTypeOK'
  BY DEF ClientIInv, LinesKept, ClientTypeOK
<1>2. PointerAlive' /\ SameConnection' /\ LinesInOrder' /\ NothingDroppedWhileUp'
  BY DEF ClientIInv, LinesKept, PointerAlive, SameConnection, LinesInOrder, NothingDroppedWhileUp
<1>3. Owner' /\ ConnOfState' /\ DisconnectLast' /\ ConnsKnown' /\ LineInHand'
  BY DEF ClientIInv, LinesKept, ClientTypeOK, Owner, ConnOfState, DisconnectLast, ConnsKnown, LineInHand, Gone
<1>4. PendingInOrder' /\ DoneKept'
  BY DEF ClientIInv, PendingInOrder, DoneKept, Done
<1> QED
  BY <1>1, <1>2, <1>3, <1>4 DEF ClientIInv, LinesKept

LEMMA LockToWriteIInv ==
  ASSUME ClientParameters, ClientIInv, LockToWrite
  PROVE  ClientIInv'
<1> USE DEF LockToWrite, tcpVars
<1> DEFINE n == Len(target)
<1>0. target \in Seq(Connections \cup {None}) /\ connection_ \in Connections \cup {None}
  BY DEF ClientIInv, LinesKept, ClientTypeOK
<1>1. /\ n \in Nat /\ Len(target') = n + 1
      /\ \A k \in 1 .. n : target'[k] = target[k]
      /\ target'[n + 1] = connection_
  BY <1>0, AppendProperties
<1>2. ClientTypeOK'
  BY <1>0, AppendProperties DEF ClientIInv, LinesKept, ClientTypeOK
<1>3. PointerAlive' /\ SameConnection' /\ NothingDroppedWhileUp'
  BY DEF ClientIInv, LinesKept, PointerAlive, SameConnection, NothingDroppedWhileUp
<1>4. Owner' /\ ConnOfState' /\ DisconnectLast'
  BY DEF ClientIInv, LinesKept, ClientTypeOK, Owner, ConnOfState, DisconnectLast, Gone
<1>5. ConnsKnown'
  BY <1>1 DEF ClientIInv, ConnsKnown
<1>6. LineInHand'
  BY <1>1 DEF ClientIInv, LineInHand, ClientParameters
<1>7. Done = n /\ Done' = n
  BY <1>1 DEF Done
<1>8. /\ \A i \in 1 .. Len(written) : written[i].line \in 1 .. n
      /\ \A i \in 1 .. Len(functors) : functors[i].line \in 1 .. n
  BY <1>1, <1>7, TypedLines
<1>9. LinesInOrder'
  BY <1>1, <1>8 DEF ClientIInv, LinesKept, LinesInOrder
<1>10. PendingInOrder'
  BY <1>1, <1>7, <1>8 DEF ClientIInv, PendingInOrder
<1>11. DoneKept'
  BY <1>1, <1>7 DEF ClientIInv, DoneKept
<1> QED
  BY <1>2, <1>3, <1>4, <1>5, <1>6, <1>9, <1>10, <1>11 DEF ClientIInv, LinesKept

LEMMA WriteIInv ==
  ASSUME ClientParameters, ClientIInv, Write
  PROVE  ClientIInv'
<1> USE DEF Write, tcpVars
<1> DEFINE n == Len(target)
           line == [line |-> n, conn |-> ptr]
           taken == ptr # None /\ ptr = count /\ state = "connected"
           m == Len(functors)
<1>0. n \in Nat \ {0} /\ n <= MaxLines /\ ptr = target[n] /\ ptr \in Connections \cup {None}
  BY DEF ClientIInv, LinesKept, ClientTypeOK, LineInHand
<1>1. functors \in Seq(Lines) /\ m \in Nat /\ Done = n - 1 /\ Done' = n
  BY DEF ClientIInv, LinesKept, ClientTypeOK, Done
<1>2. PointerAlive' /\ SameConnection' /\ LinesInOrder'
  BY DEF ClientIInv, LinesKept, PointerAlive, SameConnection, LinesInOrder
<1>3. Owner' /\ ConnOfState' /\ DisconnectLast' /\ ConnsKnown' /\ LineInHand'
  BY DEF ClientIInv, LinesKept, ClientTypeOK, Owner, ConnOfState, DisconnectLast, ConnsKnown, LineInHand, Gone
<1>4. ASSUME taken PROVE ClientTypeOK' /\ PendingInOrder' /\ DoneKept'
  <2>1. line \in Lines
    BY <1>0, <1>4 DEF Lines, ClientParameters
  <2>2. /\ functors' \in Seq(Lines) /\ Len(functors') = m + 1
        /\ \A i \in 1 .. m : functors'[i] = functors[i]
        /\ functors'[m + 1] = line
    BY <2>1, <1>1, <1>4, AppendProperties
  <2>3. ClientTypeOK'
    BY <2>2 DEF ClientIInv, LinesKept, ClientTypeOK
  <2>4. \A i \in 1 .. m + 1 : i \in 1 .. m \/ i = m + 1
    BY <1>1
  <2>5. PendingInOrder'
    <3>1. \A i \in 1 .. Len(written)' : written'[i].line <= Done'
      BY TypedLines, <1>1
    <3>2. \A i \in 1 .. Len(functors)' :
            functors'[i].line <= Done' /\ functors'[i].conn = target'[functors'[i].line]
      BY <2>2, <2>4, <1>0, <1>1, TypedLines DEF ClientIInv, PendingInOrder
    <3>3. \A i, j \in 1 .. Len(functors)' : i < j => functors'[i].line < functors'[j].line
      BY <2>2, <2>4, <1>0, <1>1, TypedLines DEF ClientIInv, PendingInOrder
    <3>4. \A i \in 1 .. Len(written)', j \in 1 .. Len(functors)' : written'[i].line < functors'[j].line
      BY <2>2, <2>4, <1>0, <1>1, TypedLines DEF ClientIInv, PendingInOrder
    <3> QED
      BY <3>1, <3>2, <3>3, <3>4 DEF PendingInOrder
  <2>6. DoneKept'
    <3> SUFFICES ASSUME NEW k \in 1 .. n, target[k] = count,
                        state \in {"connected", "disconnecting"}, loop # "ended"
                 PROVE  \/ \E i \in 1 .. Len(written)' : written'[i] = [line |-> k, conn |-> count]
                        \/ \E i \in 1 .. Len(functors)' : functors'[i] = [line |-> k, conn |-> count]
      BY <1>1 DEF DoneKept
    <3>1. CASE k = n
      BY <3>1, <2>2, <1>1, <1>4
    <3>2. CASE k # n
      <4>1. k \in 1 .. Done
        BY <3>2, <1>0, <1>1
      <4>2. \/ \E i \in 1 .. Len(written) : written[i] = [line |-> k, conn |-> count]
            \/ \E i \in 1 .. Len(functors) : functors[i] = [line |-> k, conn |-> count]
        BY <4>1 DEF ClientIInv, DoneKept
      <4> QED
        BY <4>2, <2>2, <1>1
    <3> QED
      BY <3>1, <3>2
  <2> QED
    BY <2>3, <2>5, <2>6
<1>5. ASSUME ~ taken PROVE ClientTypeOK' /\ PendingInOrder' /\ DoneKept'
  <2>1. functors' = functors
    BY <1>5
  <2>2. ClientTypeOK'
    BY <2>1 DEF ClientIInv, LinesKept, ClientTypeOK
  <2>3. PendingInOrder'
    BY <2>1, <1>1, TypedLines DEF ClientIInv, PendingInOrder
  <2>4. state \in {"connected", "disconnecting"} => target[n] # count
    <3>1. state # "disconnecting"
      BY DEF ClientIInv, DisconnectLast, Gone
    <3>2. count # None
      BY DEF ClientIInv, LinesKept, ClientTypeOK, ClientParameters
    <3> QED
      BY <3>1, <3>2, <1>0, <1>5
  <2>5. \A k \in 1 .. n : k = n \/ k \in 1 .. Done
    BY <1>0, <1>1
  <2>6. DoneKept'
    BY <2>1, <2>4, <2>5, <1>1 DEF ClientIInv, DoneKept
  <2> QED
    BY <2>2, <2>3, <2>6
<1>6. NothingDroppedWhileUp'
  BY <1>4, <1>5 DEF DoneKept, NothingDroppedWhileUp, Done
<1> QED
  BY <1>2, <1>3, <1>4, <1>5, <1>6 DEF ClientIInv, LinesKept

LEMMA DisconnectIInv ==
  ASSUME ClientParameters, ClientIInv, EndOfInput
  PROVE  ClientIInv'
<1> USE DEF EndOfInput, tcpVars, typingVars
<1>1. ClientTypeOK'
  BY DEF ClientIInv, LinesKept, ClientTypeOK
<1>2. Owner' /\ ConnOfState' /\ DisconnectLast' /\ ConnsKnown' /\ LineInHand'
  BY DEF ClientIInv, LinesKept, ClientTypeOK, Owner, ConnOfState, DisconnectLast, ConnsKnown, LineInHand, Gone
<1>3. PointerAlive' /\ SameConnection' /\ LinesInOrder'
  BY DEF ClientIInv, LinesKept, ClientTypeOK, Owner, ConnOfState, PointerAlive, SameConnection, LinesInOrder, Gone
<1>4. PendingInOrder'
  BY DEF ClientIInv, PendingInOrder, Done
<1>5. DoneKept'
  BY DEF ClientIInv, DoneKept, Done
<1>6. NothingDroppedWhileUp'
  BY <1>5 DEF DoneKept, NothingDroppedWhileUp, Done
<1> QED
  BY <1>1, <1>2, <1>3, <1>4, <1>5, <1>6 DEF ClientIInv, LinesKept

LEMMA DestroyIInv ==
  ASSUME ClientParameters, ClientIInv, Destroy
  PROVE  ClientIInv'
<1> USE DEF Destroy, tcpVars, typingVars
<1>1. ClientTypeOK'
  BY DEF ClientIInv, LinesKept, ClientTypeOK
<1>2. Owner' /\ ConnOfState' /\ DisconnectLast' /\ ConnsKnown' /\ LineInHand'
  BY DEF ClientIInv, LinesKept, ClientTypeOK, Owner, ConnOfState, DisconnectLast, ConnsKnown, LineInHand, Gone
<1>3. PointerAlive' /\ SameConnection' /\ LinesInOrder'
  BY DEF ClientIInv, LinesKept, ClientTypeOK, Owner, ConnOfState, PointerAlive, SameConnection, LinesInOrder, Gone
<1>4. PendingInOrder'
  BY DEF ClientIInv, PendingInOrder, Done
<1>5. DoneKept'
  BY DEF ClientIInv, DoneKept, Done
<1>6. NothingDroppedWhileUp'
  BY <1>5 DEF DoneKept, NothingDroppedWhileUp, Done
<1> QED
  BY <1>1, <1>2, <1>3, <1>4, <1>5, <1>6 DEF ClientIInv, LinesKept

LEMMA QuitLoopIInv ==
  ASSUME ClientParameters, ClientIInv, QuitLoop
  PROVE  ClientIInv'
<1> USE DEF QuitLoop, tcpVars, typingVars
<1>1. ClientTypeOK'
  BY DEF ClientIInv, LinesKept, ClientTypeOK
<1>2. Owner' /\ ConnOfState' /\ DisconnectLast' /\ ConnsKnown' /\ LineInHand'
  BY DEF ClientIInv, LinesKept, ClientTypeOK, Owner, ConnOfState, DisconnectLast, ConnsKnown, LineInHand, Gone
<1>3. PointerAlive' /\ SameConnection' /\ LinesInOrder'
  BY DEF ClientIInv, LinesKept, ClientTypeOK, Owner, ConnOfState, PointerAlive, SameConnection, LinesInOrder, Gone
<1>4. PendingInOrder'
  BY DEF ClientIInv, PendingInOrder, Done
<1>5. DoneKept'
  BY DEF ClientIInv, DoneKept, Done
<1>6. NothingDroppedWhileUp'
  BY <1>5 DEF DoneKept, NothingDroppedWhileUp, Done
<1> QED
  BY <1>1, <1>2, <1>3, <1>4, <1>5, <1>6 DEF ClientIInv, LinesKept

LEMMA JoinedIInv ==
  ASSUME ClientParameters, ClientIInv, Joined
  PROVE  ClientIInv'
<1> USE DEF Joined, tcpVars, typingVars
<1>1. ClientTypeOK'
  BY DEF ClientIInv, LinesKept, ClientTypeOK
<1>2. Owner' /\ ConnOfState' /\ DisconnectLast' /\ ConnsKnown' /\ LineInHand'
  BY DEF ClientIInv, LinesKept, ClientTypeOK, Owner, ConnOfState, DisconnectLast, ConnsKnown, LineInHand, Gone
<1>3. PointerAlive' /\ SameConnection' /\ LinesInOrder'
  BY DEF ClientIInv, LinesKept, ClientTypeOK, Owner, ConnOfState, PointerAlive, SameConnection, LinesInOrder, Gone
<1>4. PendingInOrder'
  BY DEF ClientIInv, PendingInOrder, Done
<1>5. DoneKept'
  BY DEF ClientIInv, DoneKept, Done
<1>6. NothingDroppedWhileUp'
  BY <1>5 DEF DoneKept, NothingDroppedWhileUp, Done
<1> QED
  BY <1>1, <1>2, <1>3, <1>4, <1>5, <1>6 DEF ClientIInv, LinesKept

LEMMA OnDestroyedIInv ==
  ASSUME ClientParameters, ClientIInv, OnDestroyed
  PROVE  ClientIInv'
<1> USE DEF OnDestroyed, tcpVars, typingVars
<1>1. ClientTypeOK'
  BY DEF ClientIInv, LinesKept, ClientTypeOK
<1>2. Owner' /\ ConnOfState' /\ DisconnectLast' /\ ConnsKnown' /\ LineInHand'
  BY DEF ClientIInv, LinesKept, ClientTypeOK, Owner, ConnOfState, DisconnectLast, ConnsKnown, LineInHand, Gone
<1>3. PointerAlive' /\ SameConnection' /\ LinesInOrder'
  BY DEF ClientIInv, LinesKept, ClientTypeOK, Owner, ConnOfState, PointerAlive, SameConnection, LinesInOrder, Gone
<1>4. PendingInOrder'
  BY DEF ClientIInv, PendingInOrder, Done
<1>5. DoneKept'
  BY DEF ClientIInv, DoneKept, Done
<1>6. NothingDroppedWhileUp'
  BY <1>5 DEF DoneKept, NothingDroppedWhileUp, Done
<1> QED
  BY <1>1, <1>2, <1>3, <1>4, <1>5, <1>6 DEF ClientIInv, LinesKept

LEMMA LostIInv ==
  ASSUME ClientParameters, ClientIInv, Lost
  PROVE  ClientIInv'
<1> USE DEF Lost, tcpVars, typingVars
<1>1. ClientTypeOK'
  BY DEF ClientIInv, LinesKept, ClientTypeOK
<1>2. Owner' /\ ConnOfState' /\ DisconnectLast' /\ ConnsKnown' /\ LineInHand'
  BY DEF ClientIInv, LinesKept, ClientTypeOK, Owner, ConnOfState, DisconnectLast, ConnsKnown, LineInHand, Gone
<1>3. PointerAlive' /\ SameConnection' /\ LinesInOrder'
  BY DEF ClientIInv, LinesKept, ClientTypeOK, Owner, ConnOfState, PointerAlive, SameConnection, LinesInOrder, Gone
<1>4. PendingInOrder'
  BY DEF ClientIInv, PendingInOrder, Done
<1>5. DoneKept'
  BY DEF ClientIInv, DoneKept, Done
<1>6. NothingDroppedWhileUp'
  BY <1>5 DEF DoneKept, NothingDroppedWhileUp, Done
<1> QED
  BY <1>1, <1>2, <1>3, <1>4, <1>5, <1>6 DEF ClientIInv, LinesKept

LEMMA LockToSetIInv ==
  ASSUME ClientParameters, ClientIInv, LockToSet
  PROVE  ClientIInv'
<1> USE DEF LockToSet, tcpVars, typingVars
<1>1. ClientTypeOK'
  BY DEF ClientIInv, LinesKept, ClientTypeOK
<1>2. Owner' /\ ConnOfState' /\ DisconnectLast' /\ ConnsKnown' /\ LineInHand'
  BY DEF ClientIInv, LinesKept, ClientTypeOK, Owner, ConnOfState, DisconnectLast, ConnsKnown, LineInHand, Gone
<1>3. PointerAlive' /\ SameConnection' /\ LinesInOrder'
  BY DEF ClientIInv, LinesKept, ClientTypeOK, Owner, ConnOfState, PointerAlive, SameConnection, LinesInOrder, Gone
<1>4. PendingInOrder'
  BY DEF ClientIInv, PendingInOrder, Done
<1>5. DoneKept'
  BY DEF ClientIInv, DoneKept, Done
<1>6. NothingDroppedWhileUp'
  BY <1>5 DEF DoneKept, NothingDroppedWhileUp, Done
<1> QED
  BY <1>1, <1>2, <1>3, <1>4, <1>5, <1>6 DEF ClientIInv, LinesKept

LEMMA SetConnectionIInv ==
  ASSUME ClientParameters, ClientIInv, SetConnection
  PROVE  ClientIInv'
<1> USE DEF SetConnection, tcpVars, typingVars
<1>1. ClientTypeOK'
  BY DEF ClientIInv, LinesKept, ClientTypeOK
<1>2. Owner' /\ ConnOfState' /\ DisconnectLast' /\ ConnsKnown' /\ LineInHand'
  BY DEF ClientIInv, LinesKept, ClientTypeOK, Owner, ConnOfState, DisconnectLast, ConnsKnown, LineInHand, Gone
<1>3. PointerAlive' /\ SameConnection' /\ LinesInOrder'
  BY DEF ClientIInv, LinesKept, ClientTypeOK, Owner, ConnOfState, PointerAlive, SameConnection, LinesInOrder, Gone
<1>4. PendingInOrder'
  BY DEF ClientIInv, PendingInOrder, Done
<1>5. DoneKept'
  BY DEF ClientIInv, DoneKept, Done
<1>6. NothingDroppedWhileUp'
  BY <1>5 DEF DoneKept, NothingDroppedWhileUp, Done
<1> QED
  BY <1>1, <1>2, <1>3, <1>4, <1>5, <1>6 DEF ClientIInv, LinesKept

LEMMA ResetConnectionIInv ==
  ASSUME ClientParameters, ClientIInv, ResetConnection
  PROVE  ClientIInv'
<1> USE DEF ResetConnection, tcpVars, typingVars
<1>1. ClientTypeOK'
  BY DEF ClientIInv, LinesKept, ClientTypeOK
<1>2. Owner' /\ ConnOfState' /\ DisconnectLast' /\ ConnsKnown' /\ LineInHand'
  BY DEF ClientIInv, LinesKept, ClientTypeOK, Owner, ConnOfState, DisconnectLast, ConnsKnown, LineInHand, Gone
<1>3. PointerAlive' /\ SameConnection' /\ LinesInOrder'
  BY DEF ClientIInv, LinesKept, ClientTypeOK, Owner, ConnOfState, PointerAlive, SameConnection, LinesInOrder, Gone
<1>4. PendingInOrder'
  BY DEF ClientIInv, PendingInOrder, Done
<1>5. DoneKept'
  BY DEF ClientIInv, DoneKept, Done
<1>6. NothingDroppedWhileUp'
  BY <1>5 DEF DoneKept, NothingDroppedWhileUp, Done
<1> QED
  BY <1>1, <1>2, <1>3, <1>4, <1>5, <1>6 DEF ClientIInv, LinesKept

LEMMA EstablishedIInv ==
  ASSUME ClientParameters, ClientIInv, Established
  PROVE  ClientIInv'
<1> USE DEF Established, tcpVars, typingVars
<1>1. ClientTypeOK'
  BY DEF ClientIInv, LinesKept, ClientTypeOK, Connections, ClientParameters
<1>2. Owner' /\ DisconnectLast' /\ LineInHand' /\ ConnOfState'
  BY DEF ClientIInv, LinesKept, ClientTypeOK, Owner, ConnOfState, DisconnectLast, LineInHand
<1>3. count \in Nat /\ connection_ \in Nat \cup {None} /\ \A k \in 1 .. Len(target) : target[k] \in Nat \cup {None}
  <2>1. target \in Seq(Connections \cup {None}) /\ connection_ \in Connections \cup {None} /\ count \in Nat
    BY DEF ClientIInv, LinesKept, ClientTypeOK, ClientParameters
  <2> QED
    BY <2>1, ElementOfSeq DEF Connections
<1>4. ConnsKnown'
  BY <1>3 DEF ClientIInv, ConnsKnown
<1>5. PointerAlive' /\ SameConnection' /\ LinesInOrder'
  BY DEF ClientIInv, LinesKept, PointerAlive, SameConnection, LinesInOrder
<1>6. PendingInOrder'
  BY DEF ClientIInv, PendingInOrder, Done
<1>7. \A k \in 1 .. Len(target) : target[k] # count + 1
  BY <1>3 DEF ClientIInv, ConnsKnown, ClientParameters
<1>8. \A k \in 1 .. Done : k \in 1 .. Len(target)
  BY TypedLines
<1>9. DoneKept'
  BY <1>7, <1>8 DEF DoneKept, Done
<1>10. NothingDroppedWhileUp'
  BY <1>9 DEF DoneKept, NothingDroppedWhileUp, Done
<1> QED
  BY <1>1, <1>2, <1>4, <1>5, <1>6, <1>9, <1>10 DEF ClientIInv, LinesKept

LEMMA SendInLoopIInv ==
  ASSUME ClientParameters, ClientIInv, SendInLoop
  PROVE  ClientIInv'
<1> USE DEF SendInLoop, tcpVars, typingVars
<1> DEFINE m == Len(functors)
           n == Len(written)
           put == Head(functors).conn = count /\ state \in {"connected", "disconnecting"}
<1>1. functors \in Seq(Lines) /\ written \in Seq(Lines) /\ n \in Nat
  BY DEF ClientIInv, LinesKept, ClientTypeOK
<1>2. /\ m \in Nat \ {0} /\ 1 \in 1 .. m
      /\ Head(functors) = functors[1] /\ functors[1] \in Lines
      /\ functors' \in Seq(Lines) /\ Len(functors') = m - 1
      /\ \A i \in 1 .. m - 1 : functors'[i] = functors[i + 1]
  BY <1>1, EmptySeq, HeadTailProperties, ElementOfSeq
<1>3. \A i \in 1 .. m - 1 : i + 1 \in 1 .. m
  BY <1>2
<1>4. /\ written' \in Seq(Lines)
      /\ put => /\ Len(written') = n + 1 /\ written'[n + 1] = functors[1]
                /\ \A i \in 1 .. n : written'[i] = written[i]
      /\ ~ put => written' = written
  BY <1>1, <1>2, AppendProperties
<1>5. \A i \in 1 .. n + 1 : i \in 1 .. n \/ i = n + 1
  BY <1>1
<1>6. ClientTypeOK'
  BY <1>2, <1>4 DEF ClientIInv, LinesKept, ClientTypeOK
<1>7. Owner' /\ ConnOfState' /\ DisconnectLast' /\ ConnsKnown' /\ LineInHand'
  BY DEF ClientIInv, Owner, ConnOfState, DisconnectLast, ConnsKnown, LineInHand, Gone
<1>8. PointerAlive' /\ SameConnection'
  BY DEF ClientIInv, LinesKept, PointerAlive, SameConnection
<1>9. Done' = Done
  BY DEF Done
<1>10. LinesInOrder'
  <2>1. /\ \A i, j \in 1 .. n : i < j => written[i].line < written[j].line
        /\ \A i \in 1 .. n : written[i].conn = target[written[i].line] /\ written[i].line < functors[1].line
        /\ functors[1].conn = target[functors[1].line]
    BY <1>2, TypedLines DEF ClientIInv, LinesKept, LinesInOrder, PendingInOrder
  <2>2. CASE put
    <3>1. \A i, j \in 1 .. n + 1 : i < j => i \in 1 .. n
      BY <1>1
    <3>2. \A i, j \in 1 .. n + 1 : i < j => written'[i].line < written'[j].line
      BY <1>4, <1>5, <2>1, <2>2, <3>1
    <3>3. \A i \in 1 .. n + 1 : written'[i].conn = target[written'[i].line]
      BY <1>4, <1>5, <2>1, <2>2
    <3> QED
      BY <1>4, <2>2, <3>2, <3>3 DEF LinesInOrder
  <2>3. CASE ~ put
    BY <1>4, <2>1, <2>3 DEF LinesInOrder
  <2> QED
    BY <2>2, <2>3
<1>11. PendingInOrder'
  <2>1. \A i \in 1 .. Len(written)' : written'[i].line <= Done'
    BY <1>2, <1>4, <1>5, <1>9, TypedLines
  <2>2. \A i \in 1 .. Len(functors)' :
          functors'[i].line <= Done' /\ functors'[i].conn = target'[functors'[i].line]
    BY <1>2, <1>3, <1>9 DEF ClientIInv, PendingInOrder
  <2>3. \A i, j \in 1 .. Len(functors)' : i < j => functors'[i].line < functors'[j].line
    BY <1>2, <1>3 DEF ClientIInv, PendingInOrder
  <2>4. \A i \in 1 .. Len(written)', j \in 1 .. Len(functors)' : written'[i].line < functors'[j].line
    BY <1>2, <1>3, <1>4, <1>5 DEF ClientIInv, PendingInOrder
  <2> QED
    BY <2>1, <2>2, <2>3, <2>4 DEF PendingInOrder
<1>12. DoneKept'
  <2> SUFFICES ASSUME NEW k \in 1 .. Done, target[k] = count,
                      state \in {"connected", "disconnecting"}, loop # "ended"
               PROVE  \/ \E i \in 1 .. Len(written)' : written'[i] = [line |-> k, conn |-> count]
                      \/ \E i \in 1 .. Len(functors)' : functors'[i] = [line |-> k, conn |-> count]
    BY <1>9 DEF DoneKept
  <2>1. CASE \E i \in 1 .. n : written[i] = [line |-> k, conn |-> count]
    BY <2>1, <1>1, <1>4
  <2>2. CASE functors[1] = [line |-> k, conn |-> count]
    <3>1. put
      BY <2>2, <1>2
    <3> QED
      BY <3>1, <2>2, <1>1, <1>4
  <2>3. ASSUME NEW i \in 1 .. m, i # 1, functors[i] = [line |-> k, conn |-> count]
        PROVE  \E j \in 1 .. Len(functors)' : functors'[j] = [line |-> k, conn |-> count]
    <3>1. i - 1 \in 1 .. m - 1 /\ functors'[i - 1] = functors[i]
      BY <2>3, <1>2
    <3> QED
      BY <3>1, <2>3, <1>2
  <2> QED
    BY <2>1, <2>2, <2>3 DEF ClientIInv, DoneKept
<1>13. NothingDroppedWhileUp'
  BY <1>12 DEF DoneKept, NothingDroppedWhileUp, Done
<1> QED
  BY <1>6, <1>7, <1>8, <1>10, <1>11, <1>12, <1>13 DEF ClientIInv, LinesKept

LEMMA EndLoopIInv ==
  ASSUME ClientParameters, ClientIInv, EndLoop
  PROVE  ClientIInv'
<1> USE DEF EndLoop, tcpVars, typingVars
<1>0. Len(functors') = 0 /\ functors' \in Seq(Lines)
  BY EmptySeq
<1>1. ClientTypeOK'
  BY <1>0 DEF ClientIInv, LinesKept, ClientTypeOK
<1>2. Owner' /\ ConnOfState' /\ DisconnectLast' /\ ConnsKnown' /\ LineInHand'
  BY DEF ClientIInv, LinesKept, ClientTypeOK, Owner, ConnOfState, DisconnectLast, ConnsKnown, LineInHand, Gone
<1>3. PointerAlive' /\ SameConnection' /\ LinesInOrder'
  BY DEF ClientIInv, LinesKept, ClientTypeOK, Owner, ConnOfState, PointerAlive, SameConnection, LinesInOrder, Gone
<1>4. PendingInOrder'
  BY <1>0 DEF ClientIInv, PendingInOrder, Done
<1>5. DoneKept'
  BY DEF ClientIInv, DoneKept, Done
<1>6. NothingDroppedWhileUp'
  BY <1>5 DEF DoneKept, NothingDroppedWhileUp, Done
<1> QED
  BY <1>1, <1>2, <1>3, <1>4, <1>5, <1>6 DEF ClientIInv, LinesKept

LEMMA StutterClientIInv ==
  ASSUME ClientIInv, UNCHANGED clientVars
  PROVE  ClientIInv'
<1> USE DEF clientVars, tcpVars, typingVars
<1>1. LinesKept'
  <2>1. ClientTypeOK'
    BY DEF ClientIInv, LinesKept, ClientTypeOK
  <2>2. PointerAlive' /\ SameConnection' /\ LinesInOrder'
    BY DEF ClientIInv, LinesKept, PointerAlive, SameConnection, LinesInOrder
  <2>3. NothingDroppedWhileUp'
    BY DEF ClientIInv, LinesKept, NothingDroppedWhileUp
  <2> QED
    BY <2>1, <2>2, <2>3 DEF LinesKept
<1>2. Owner' /\ ConnOfState' /\ DisconnectLast' /\ ConnsKnown' /\ LineInHand' /\ PendingInOrder' /\ DoneKept'
  BY DEF ClientIInv, Owner, ConnOfState, DisconnectLast, ConnsKnown, LineInHand, PendingInOrder, DoneKept, Done, Gone
<1> QED
  BY <1>1, <1>2 DEF ClientIInv

-----------------------------------------------------------------------------
(* The invariant of the two threads, for every number of lines typed and   *)
(* of connections made: who holds mutex_, how TcpClient's connection goes  *)
(* with its state, and which lines are pending behind the ones sent.       *)
THEOREM ChatClientInvariant ==
  ASSUME ClientParameters
  PROVE  ClientSpec => []ClientIInv
<1>1. ClientInit => ClientIInv
  BY InitClientIInv
<1>2. ClientIInv /\ [ClientNext]_clientVars => ClientIInv'
  BY TypeLineIInv, LockToWriteIInv, WriteIInv, DisconnectIInv, DestroyIInv, QuitLoopIInv, JoinedIInv,
     EstablishedIInv, LostIInv, LockToSetIInv, SetConnectionIInv, ResetConnectionIInv, OnDestroyedIInv,
     SendInLoopIInv, EndLoopIInv, StutterClientIInv
     DEF ClientNext, TypingStep, LoopStep
<1> QED
  BY <1>1, <1>2, PTL DEF ClientSpec

(* The pointer write uses is alive, the client never stays with a lost     *)
(* connection, and the lines reach the wire in the order typed, each on    *)
(* the connection of its moment, none dropped while that one is up.        *)
THEOREM LinesKeptAlways ==
  ASSUME ClientParameters
  PROVE  ClientSpec => []LinesKept
<1>1. ClientIInv => LinesKept
  BY DEF ClientIInv
<1> QED
  BY <1>1, ChatClientInvariant, PTL

=============================================================================
