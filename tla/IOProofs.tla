------------------------------ MODULE IOProofs ------------------------------
(***************************************************************************)
(* Proofs about IO.  The bytes that the sender has framed and the receiver *)
(* has not yet used form one run: frame after frame, byte after byte.  It  *)
(* begins where the receiver expects it to and, until the connection       *)
(* breaks, ends with the end of the last frame.                            *)
(***************************************************************************)
EXTENDS IO, SequenceTheorems, TLAPS

Bytes == [msg : Nat, pos : Nat]

FrameLen(k) == PrefixLen + PayloadLen[k]

\* The bytes between the two ends; what is not written when the connection breaks is lost.
Pending == in \o (stream \o (IF broken THEN <<>> ELSE out))

\* Bytes of frames 1 .. n that follow one another as they were framed: within a frame,
\* and from its last byte to the next frame.
Run(bytes, n) ==
    \A i \in 1 .. Len(bytes) :
        /\ bytes[i].msg \in 1 .. n
        /\ bytes[i].pos \in 1 .. FrameLen(bytes[i].msg)
        /\ \A j \in i .. Len(bytes) :
               bytes[i].pos + (j - i) <= FrameLen(bytes[i].msg)
               => bytes[j] = Byte(bytes[i].msg, bytes[i].pos + (j - i))
        /\ i < Len(bytes) /\ bytes[i].pos = FrameLen(bytes[i].msg)
           => bytes[i + 1] = Byte(bytes[i].msg + 1, 1)

Types ==
    /\ next \in 1 .. Len(PayloadLen) + 1
    /\ in \in Seq(Bytes) /\ stream \in Seq(Bytes) /\ out \in Seq(Bytes)
    /\ failed \subseteq {"send", "receive"}
    /\ broken \in BOOLEAN
    /\ stage \in {"prefix", "body"}
    /\ nleft \in Nat
    /\ received \in Seq(Nat)

\* Where the receiver is in the run bytes, if n messages have been framed.
Begins(bytes) ==
    bytes # <<>> => bytes[1] = Byte(Len(received) + 1, IF stage = "prefix" THEN 1 ELSE PrefixLen + 1)

Ends(bytes, n) ==
    IF bytes = <<>> THEN stage = "prefix" /\ Len(received) = n
                    ELSE bytes[Len(bytes)] = Byte(n, FrameLen(n))

Expects(n) ==
    /\ Len(received) <= n
    /\ stage = "prefix" => Len(in) + nleft = PrefixLen
    /\ stage = "body" => Len(received) + 1 <= n /\ Len(in) + nleft = PayloadLen[Len(received) + 1]

IInv ==
    /\ Types
    /\ "send" \notin failed => Framed = next - 1
    /\ Run(Pending, Framed)
    /\ Begins(Pending)
    /\ ~ broken => Ends(Pending, Framed)
    /\ Expects(Framed)
    /\ \A k \in 1 .. Len(received) : received[k] = k
    /\ FramesStayAligned

-----------------------------------------------------------------------------
(***************************************************************************)
(* Runs of bytes.                                                          *)
(***************************************************************************)
\* Lengths of messages and of frames.
LEMMA Lengths ==
    ASSUME NEW k \in 1 .. Len(PayloadLen)
    PROVE  PayloadLen[k] \in Nat \ {0} /\ FrameLen(k) \in Nat /\ FrameLen(k) = 4 + PayloadLen[k]
BY PayloadLenAssumption DEF FrameLen, PrefixLen

\* The frame of a message, byte by byte.
LEMMA FrameBytes ==
    ASSUME NEW k \in 1 .. Len(PayloadLen)
    PROVE  /\ Frame(k) \in Seq(Bytes)
           /\ Len(Frame(k)) = FrameLen(k)
           /\ \A p \in 1 .. FrameLen(k) : Frame(k)[p] = Byte(k, p)
<1>1. FrameLen(k) \in Nat /\ k \in Nat
  BY Lengths
<1>2. Frame(k) = [p \in 1 .. FrameLen(k) |-> Byte(k, p)]
  BY DEF Frame, FrameLen
<1>3. \A p \in 1 .. FrameLen(k) : Byte(k, p) \in Bytes
  BY <1>1 DEF Byte, Bytes
<1>4. Frame(k) \in [1 .. FrameLen(k) -> Bytes]
  BY <1>2, <1>3
<1>5. Frame(k) \in Seq(Bytes)
  BY <1>1, <1>4
<1>6. Len(Frame(k)) = FrameLen(k)
  BY <1>1, <1>4, <1>5
<1> QED
  BY <1>2, <1>5, <1>6

\* A stretch of a run is a run.
LEMMA RunStretch ==
    ASSUME NEW n \in 0 .. Len(PayloadLen), NEW b \in Seq(Bytes), Run(b, n), NEW d \in Nat,
           NEW c \in Seq(Bytes), Len(c) + d <= Len(b),
           \A i \in 1 .. Len(c) : c[i] = b[i + d]
    PROVE  Run(c, n)
<1> SUFFICES ASSUME NEW i \in 1 .. Len(c)
             PROVE  /\ c[i].msg \in 1 .. n
                    /\ c[i].pos \in 1 .. FrameLen(c[i].msg)
                    /\ \A j \in i .. Len(c) :
                           c[i].pos + (j - i) <= FrameLen(c[i].msg)
                           => c[j] = Byte(c[i].msg, c[i].pos + (j - i))
                    /\ i < Len(c) /\ c[i].pos = FrameLen(c[i].msg)
                       => c[i + 1] = Byte(c[i].msg + 1, 1)
  BY DEF Run
<1>1. Len(c) \in Nat /\ Len(b) \in Nat /\ i + d \in 1 .. Len(b) /\ c[i] = b[i + d]
  OBVIOUS
<1>2. c[i].msg \in 1 .. n /\ c[i].pos \in 1 .. FrameLen(c[i].msg)
  BY <1>1 DEF Run
<1>3. ASSUME NEW j \in i .. Len(c), c[i].pos + (j - i) <= FrameLen(c[i].msg)
      PROVE  c[j] = Byte(c[i].msg, c[i].pos + (j - i))
  <2>1. j + d \in (i + d) .. Len(b) /\ (j + d) - (i + d) = j - i /\ c[j] = b[j + d]
    BY <1>1
  <2> QED
    BY <1>1, <1>3, <2>1 DEF Run
<1>4. ASSUME i < Len(c), c[i].pos = FrameLen(c[i].msg)
      PROVE  c[i + 1] = Byte(c[i].msg + 1, 1)
  <2>1. i + d < Len(b) /\ (i + d) + 1 = (i + 1) + d /\ c[i + 1] = b[(i + 1) + d]
    BY <1>1, <1>4
  <2> QED
    BY <1>1, <1>4, <2>1 DEF Run
<1> QED
  BY <1>2, <1>3, <1>4

\* A run that ends with the end of frame n goes on with frame n + 1.
LEMMA RunGrows ==
    ASSUME NEW n \in Nat, n + 1 <= Len(PayloadLen), NEW b \in Seq(Bytes), Run(b, n),
           b # <<>> => b[Len(b)] = Byte(n, FrameLen(n))
    PROVE  /\ b \o Frame(n + 1) \in Seq(Bytes)
           /\ Run(b \o Frame(n + 1), n + 1)
           /\ b \o Frame(n + 1) # <<>>
           /\ (b \o Frame(n + 1))[Len(b \o Frame(n + 1))] = Byte(n + 1, FrameLen(n + 1))
           /\ (b \o Frame(n + 1))[1] = IF b = <<>> THEN Byte(n + 1, 1) ELSE b[1]
<1> DEFINE k == n + 1
           f == Frame(k)
           c == b \o f
<1>1. Len(PayloadLen) \in Nat /\ k \in 1 .. Len(PayloadLen)
  BY PayloadLenAssumption
<1>2. FrameLen(k) \in Nat /\ FrameLen(k) > 4
  BY <1>1, Lengths
<1>3. f \in Seq(Bytes) /\ Len(f) = FrameLen(k) /\ \A p \in 1 .. FrameLen(k) : f[p] = Byte(k, p)
  BY <1>1, FrameBytes
<1> HIDE DEF f
<1>4. /\ c \in Seq(Bytes) /\ Len(b) \in Nat
      /\ Len(c) = Len(b) + FrameLen(k)
      /\ \A i \in 1 .. Len(b) : c[i] = b[i]
      /\ \A i \in Len(b) + 1 .. Len(c) : c[i] = Byte(k, i - Len(b))
  BY <1>2, <1>3
<1>5. c # <<>> /\ c[Len(c)] = Byte(k, FrameLen(k))
  BY <1>2, <1>4
<1>6. c[1] = IF b = <<>> THEN Byte(k, 1) ELSE b[1]
  BY <1>2, <1>4
<1> HIDE DEF c
<1>7. Run(c, k)
  <2> SUFFICES ASSUME NEW i \in 1 .. Len(c)
               PROVE  /\ c[i].msg \in 1 .. k
                      /\ c[i].pos \in 1 .. FrameLen(c[i].msg)
                      /\ \A j \in i .. Len(c) :
                             c[i].pos + (j - i) <= FrameLen(c[i].msg)
                             => c[j] = Byte(c[i].msg, c[i].pos + (j - i))
                      /\ i < Len(c) /\ c[i].pos = FrameLen(c[i].msg)
                         => c[i + 1] = Byte(c[i].msg + 1, 1)
    BY DEF Run
  <2>1. CASE i \in 1 .. Len(b)
    <3>1. /\ b[i].msg \in 1 .. n
          /\ b[i].pos \in 1 .. FrameLen(b[i].msg)
          /\ \A j \in i .. Len(b) :
                 b[i].pos + (j - i) <= FrameLen(b[i].msg)
                 => b[j] = Byte(b[i].msg, b[i].pos + (j - i))
          /\ i < Len(b) /\ b[i].pos = FrameLen(b[i].msg)
             => b[i + 1] = Byte(b[i].msg + 1, 1)
      BY <2>1 DEF Run
    <3>2. c[i] = b[i] /\ b[i].msg \in Nat /\ FrameLen(b[i].msg) \in Nat /\ b[i].pos \in Nat
      BY <1>1, <1>4, <2>1, <3>1, Lengths
    <3>3. b[Len(b)] = Byte(n, FrameLen(n)) /\ b # <<>>
      BY <1>4, <2>1
    <3>4. ASSUME NEW j \in i .. Len(c), j > Len(b), b[i].pos + (j - i) <= FrameLen(b[i].msg)
          PROVE  FALSE
      <4>1. Len(b) \in i .. Len(b) /\ b[i].pos + (Len(b) - i) < FrameLen(b[i].msg)
        <5> DEFINE pos == b[i].pos
                   fl == FrameLen(b[i].msg)
                   l == Len(b)
        <5>1. pos \in Nat /\ fl \in Nat /\ l \in Nat /\ i \in 1 .. l
          BY <1>4, <2>1, <3>2
        <5>2. j \in Nat /\ j > l /\ pos + (j - i) <= fl
          BY <1>2, <1>4, <3>4
        <5> HIDE DEF pos, fl, l
        <5>3. l \in i .. l /\ pos + (l - i) < fl
          BY <5>1, <5>2
        <5> QED
          BY <5>3 DEF pos, fl, l
      <4>2. Byte(n, FrameLen(n)) = Byte(b[i].msg, b[i].pos + (Len(b) - i))
        <5>1. b[i].pos + (Len(b) - i) <= FrameLen(b[i].msg)
          BY <4>1, <3>2, <1>4, <2>1
        <5>2. b[Len(b)] = Byte(b[i].msg, b[i].pos + (Len(b) - i))
          BY ONLY <3>1, <4>1, <5>1
        <5> QED
          BY <3>3, <5>2
      <4>3. n = b[i].msg /\ FrameLen(n) = b[i].pos + (Len(b) - i)
        BY <4>2 DEF Byte
      <4> QED
        BY <4>1, <4>3, <3>2, <1>4
    <3>5. ASSUME NEW j \in i .. Len(c), c[i].pos + (j - i) <= FrameLen(c[i].msg)
          PROVE  c[j] = Byte(c[i].msg, c[i].pos + (j - i))
      <4>1. j \in i .. Len(b)
        BY <3>2, <3>4, <3>5, <1>4
      <4>2. c[j] = b[j]
        BY <4>1, <2>1, <1>4
      <4> QED
        BY <3>1, <3>2, <3>5, <4>1, <4>2
    <3>6. ASSUME i < Len(c), c[i].pos = FrameLen(c[i].msg)
          PROVE  c[i + 1] = Byte(c[i].msg + 1, 1)
      <4>1. CASE i < Len(b)
        BY <1>4, <2>1, <3>1, <3>2, <3>6, <4>1
      <4>2. CASE i = Len(b)
        <5>1. c[i].msg = n
          BY <3>2, <3>3, <4>2 DEF Byte
        <5>2. c[i + 1] = Byte(k, 1)
          BY <1>2, <1>4, <4>2
        <5> QED
          BY <5>1, <5>2
      <4> QED
        BY <1>4, <2>1, <4>1, <4>2
    <3> QED
      BY <3>1, <3>2, <3>5, <3>6
  <2>2. CASE i \in Len(b) + 1 .. Len(c)
    <3> DEFINE p == i - Len(b)
    <3>0. c[i] = Byte(k, p)
      BY <1>4, <2>2
    <3> HIDE DEF k, p
    <3>1. c[i].msg = k /\ c[i].pos = p
      BY <3>0 DEF Byte
    <3> USE DEF k, p
    <3>2. c[i].msg \in 1 .. k /\ c[i].pos \in 1 .. FrameLen(k)
      BY <1>2, <1>4, <2>2, <3>1
    <3>3. \A j \in i .. Len(c) : c[j] = Byte(k, (i - Len(b)) + (j - i))
      <4> TAKE j \in i .. Len(c)
      <4>1. c[j] = Byte(k, j - Len(b)) /\ (i - Len(b)) + (j - i) = j - Len(b)
        BY <1>4, <2>2
      <4> QED
        BY <4>1
    <3>4. ~ (i < Len(c) /\ c[i].pos = FrameLen(k))
      BY <1>2, <1>4, <2>2, <3>1
    <3> QED
      BY <3>1, <3>2, <3>3, <3>4
  <2> QED
    BY <1>2, <1>4, <2>1, <2>2
<1> QED
  BY <1>4, <1>5, <1>6, <1>7 DEF c, f

\* A run is also one of more frames.
LEMMA RunMore ==
    ASSUME NEW n \in Nat, NEW b \in Seq(Bytes), Run(b, n)
    PROVE  Run(b, n + 1)
BY DEF Run

-----------------------------------------------------------------------------
(***************************************************************************)
(* Every step preserves IInv.                                              *)
(***************************************************************************)
\* How many messages have been framed.
LEMMA FramedType == ASSUME Types PROVE Framed \in 0 .. Len(PayloadLen)
<1>1. Len(PayloadLen) \in Nat
  BY PayloadLenAssumption
<1> QED
  BY <1>1 DEF Types, Framed

\* The bytes between the two ends, by where they are.
LEMMA PendingType ==
    ASSUME Types
    PROVE  /\ Pending \in Seq(Bytes)
           /\ Len(Pending) >= Len(in) + Len(stream)
           /\ \A i \in 1 .. Len(in) : Pending[i] = in[i]
           /\ \A i \in 1 .. Len(stream) : Pending[i + Len(in)] = stream[i]
<1> DEFINE o == IF broken THEN <<>> ELSE out
<1>1. o \in Seq(Bytes) /\ in \in Seq(Bytes) /\ stream \in Seq(Bytes)
  BY DEF Types
<1> HIDE DEF o
<1>2. /\ stream \o o \in Seq(Bytes) /\ Len(stream \o o) = Len(stream) + Len(o)
      /\ \A i \in 1 .. Len(stream) : (stream \o o)[i] = stream[i]
  BY <1>1
<1>3. Pending = in \o (stream \o o)
  BY DEF Pending, o
<1> DEFINE t == stream \o o
<1> HIDE DEF t
<1>4. t \in Seq(Bytes) /\ Len(t) = Len(stream) + Len(o) /\ \A i \in 1 .. Len(stream) : t[i] = stream[i]
  BY <1>2 DEF t
<1>5. Pending = in \o t
  BY <1>3 DEF t
<1> QED
  BY <1>1, <1>4, <1>5

\* No message has been framed.
LEMMA InitIInv == Init => IInv
<1> SUFFICES ASSUME Init PROVE IInv
  OBVIOUS
<1> USE DEF Init
<1>1. Len(PayloadLen) \in Nat
  BY PayloadLenAssumption
<1>2. <<>> \in Seq(Bytes) /\ <<>> \in Seq(Nat) /\ Len(<<>>) = 0
  OBVIOUS
<1>3. Types
  <2>1. next \in 1 .. Len(PayloadLen) + 1 /\ nleft \in Nat
    BY <1>1 DEF PrefixLen
  <2> QED
    BY <1>2, <2>1 DEF Types
<1>4. Framed = 0 /\ Framed = next - 1
  BY DEF Framed
<1>5. Pending = <<>>
  BY <1>2 DEF Pending
<1>6. Run(Pending, Framed)
  BY <1>2, <1>5 DEF Run
<1>7. Begins(Pending) /\ Ends(Pending, Framed)
  BY <1>2, <1>4, <1>5 DEF Begins, Ends
<1>8. Expects(Framed)
  BY <1>2, <1>4 DEF Expects, PrefixLen
<1>9. FramesStayAligned /\ \A k \in 1 .. Len(received) : received[k] = k
  BY <1>2 DEF FramesStayAligned
<1> QED
  BY <1>3, <1>4, <1>6, <1>7, <1>8, <1>9 DEF IInv

\* IO::send: a frame is added at the end of the run, or it throws.
LEMMA SendStep == ASSUME IInv, send(next) PROVE IInv'
<1> USE DEF send, receiveVars
<1>1. Types /\ next <= Len(PayloadLen) /\ out = <<>> /\ "send" \notin failed
  BY DEF IInv
<1>2. Len(PayloadLen) \in Nat /\ next \in 1 .. Len(PayloadLen) /\ next' = next + 1
  BY <1>1, PayloadLenAssumption DEF Types
<1>3. Framed = next - 1
  BY <1>1 DEF IInv
<1>4. CASE PayloadLen[next] > MaxFramed
  <2>1. Framed' = Framed
    BY <1>2, <1>3, <1>4 DEF Framed
  <2>2. UNCHANGED <<stream, broken, stage, in, nleft, received, out>> /\ failed' = failed \cup {"send"}
    BY <1>4
  <2>3. Pending' = Pending
    BY <2>2 DEF Pending
  <2>4. Types'
    BY <1>1, <1>2, <2>2 DEF Types
  <2> QED
    BY <2>1, <2>2, <2>3, <2>4 DEF IInv, Begins, Ends, Expects, FramesStayAligned, FrameLen
<1>5. CASE ~ (PayloadLen[next] > MaxFramed)
  <2>0. PICK n, b : n = Framed /\ b = Pending
    OBVIOUS
  <2>1. n \in Nat /\ n + 1 <= Len(PayloadLen) /\ next = n + 1
    BY <1>2, <1>3, <2>0
  <2>2. UNCHANGED <<stream, broken, stage, in, nleft, received, failed>> /\ out' = Frame(next)
    BY <1>5
  <2>3. Framed' = n + 1 /\ Framed' = next' - 1
    BY <1>2, <1>3, <1>5, <2>0 DEF Framed
  <2>4. Types'
    BY <1>1, <1>2, <2>2, FrameBytes DEF Types
  <2>5. b \in Seq(Bytes) /\ Run(b, n) /\ Begins(b)
    BY <1>1, <2>0, PendingType DEF IInv
  <2>6. Expects(n + 1)'
    <3>1. Expects(n) /\ Len(received) \in Nat
      BY <2>0, <1>1 DEF IInv, Types
    <3> QED
      BY <2>1, <2>2, <3>1 DEF Expects
  <2>7. ASSUME broken PROVE Run(Pending, n + 1)' /\ Begins(Pending)'
    <3>1. Pending' = b
      BY <2>0, <2>2, <2>7 DEF Pending
    <3>2. Run(b, n + 1)
      BY <2>1, <2>5, RunMore
    <3> QED
      BY <2>2, <2>5, <3>1, <3>2 DEF Begins
  <2>8. ASSUME ~ broken PROVE Run(Pending, n + 1)' /\ Begins(Pending)' /\ Ends(Pending, n + 1)'
    <3>1. Pending = in \o stream
      BY <1>1, <2>8 DEF Pending, Types
    <3>2. Pending' = b \o Frame(n + 1)
      <4>1. Pending' = in \o (stream \o Frame(n + 1))
        BY <2>1, <2>2, <2>8 DEF Pending
      <4>2. Frame(n + 1) \in Seq(Bytes) /\ in \in Seq(Bytes) /\ stream \in Seq(Bytes)
        BY <1>1, <1>2, <2>1, FrameBytes DEF Types
      <4>3. (in \o stream) \o Frame(n + 1) = in \o (stream \o Frame(n + 1))
        <5> HIDE DEF Frame
        <5> QED
          BY ONLY <4>2, ConcatAssociative
      <4> QED
        BY <2>0, <3>1, <4>1, <4>3
    <3>3. IF b = <<>> THEN stage = "prefix" /\ Len(received) = n ELSE b[Len(b)] = Byte(n, FrameLen(n))
      BY <2>0, <2>8 DEF IInv, Ends
    <3> DEFINE c == b \o Frame(n + 1)
    <3>4. /\ Run(c, n + 1) /\ c # <<>>
          /\ c[Len(c)] = Byte(n + 1, FrameLen(n + 1))
          /\ c[1] = IF b = <<>> THEN Byte(n + 1, 1) ELSE b[1]
      BY <2>1, <2>5, <3>3, RunGrows
    <3> HIDE DEF c
    <3>5. Begins(c) /\ Ends(c, n + 1)
      BY <2>5, <3>3, <3>4 DEF Begins, Ends, PrefixLen
    <3>6. Pending' = c
      BY <3>2 DEF c
    <3> QED
      BY <2>2, <3>4, <3>5, <3>6 DEF Begins, Ends
  <2>9. (\A k \in 1 .. Len(received) : received[k] = k)' /\ FramesStayAligned'
    BY <2>2 DEF IInv, FramesStayAligned
  <2> QED
    BY <2>2, <2>3, <2>4, <2>6, <2>7, <2>8, <2>9 DEF IInv, Types
<1> QED
  BY <1>4, <1>5

\* A step of the sockets that leaves the run as it is.
LEMMA FlowStep ==
    ASSUME IInv, Types', UNCHANGED <<next, failed, broken, stage, received>>, Pending' = Pending,
           Len(in') + nleft' = Len(in) + nleft
    PROVE  IInv'
<1>1. PICK n, b : n = Framed /\ b = Pending
  OBVIOUS
<1>2. Framed' = n /\ Pending' = b
  BY <1>1 DEF Framed
<1>3. Run(b, n) /\ Begins(b) /\ (~ broken => Ends(b, n)) /\ Expects(n)
  BY <1>1 DEF IInv
<1>4. Run(b, n) /\ Begins(b)' /\ (~ broken' => Ends(b, n)') /\ Expects(n)'
  BY <1>3 DEF Begins, Ends, Expects
<1>5. ("send" \notin failed => n = next - 1)' /\ (\A k \in 1 .. Len(received) : received[k] = k)'
  BY <1>1 DEF IInv
<1>6. FramesStayAligned'
  BY DEF IInv, FramesStayAligned
<1> QED
  BY <1>2, <1>4, <1>5, <1>6 DEF IInv

\* A sequence cut in two, the second part of it in front of another.
LEMMA CutSeq ==
    ASSUME NEW s \in Seq(Bytes), NEW n \in 1 .. Len(s)
    PROVE  /\ SubSeq(s, 1, n) \in Seq(Bytes) /\ Len(SubSeq(s, 1, n)) = n
           /\ SubSeq(s, n + 1, Len(s)) \in Seq(Bytes)
           /\ SubSeq(s, 1, n) \o SubSeq(s, n + 1, Len(s)) = s
<1>1. Len(s) \in Nat
  OBVIOUS
<1>2. SubSeq(s, 1, n) \in Seq(Bytes) /\ Len(SubSeq(s, 1, n)) = n /\ SubSeq(s, n + 1, Len(s)) \in Seq(Bytes)
  BY <1>1
<1>3. SubSeq(s, 1, n) \o SubSeq(s, n + 1, Len(s)) = SubSeq(s, 1, Len(s))
  BY <1>1, ConcatAdjacentSubSeq
<1> QED
  BY <1>2, <1>3, SubSeqFull

\* Concatenation of bytes is associative.
LEMMA Associative == \A s, t, u \in Seq(Bytes) : (s \o t) \o u = s \o (t \o u)
<1> SUFFICES ASSUME NEW s \in Seq(Bytes), NEW t \in Seq(Bytes), NEW u \in Seq(Bytes)
             PROVE  (s \o t) \o u = s \o (t \o u)
  BY Zenon
<1>1. s \in Seq(Bytes) /\ t \in Seq(Bytes) /\ u \in Seq(Bytes)
  OBVIOUS
<1> QED
  BY ONLY <1>1, ConcatAssociative

\* write: bytes move from the sender's buffer to the socket's.
LEMMA WriteStep == ASSUME IInv, NEW n \in 1 .. BufferCap, rio_writen(n) PROVE IInv'
<1> USE DEF rio_writen, receiveVars
<1>1. PICK z \in Seq(Bytes), s \in Seq(Bytes) : z = out /\ s = stream
  BY DEF IInv, Types
<1>2. z \in Seq(Bytes) /\ s \in Seq(Bytes) /\ in \in Seq(Bytes) /\ n \in 1 .. Len(z) /\ ~ broken
  BY <1>1, BufferCapAssumption DEF IInv, Types
<1>3. SubSeq(z, 1, n) \in Seq(Bytes) /\ SubSeq(z, n + 1, Len(z)) \in Seq(Bytes)
      /\ SubSeq(z, 1, n) \o SubSeq(z, n + 1, Len(z)) = z
  BY <1>2, CutSeq
<1>4. PICK x \in Seq(Bytes), y \in Seq(Bytes) :
          x = SubSeq(z, 1, n) /\ y = SubSeq(z, n + 1, Len(z)) /\ x \o y = z
  BY <1>3
<1>5. stream' = s \o x /\ out' = y /\ in' = in /\ nleft' = nleft
  BY <1>1, <1>4
<1>6. (s \o x) \o y = s \o z
  <2>0. s \in Seq(Bytes) /\ x \in Seq(Bytes) /\ y \in Seq(Bytes)
    OBVIOUS
  <2>1. (s \o x) \o y = s \o (x \o y)
    BY ONLY <2>0, ConcatAssociative
  <2> QED
    BY <1>4, <2>1
<1>7. Pending' = Pending
  BY <1>1, <1>2, <1>5, <1>6 DEF Pending
<1>8. s \o x \in Seq(Bytes)
  BY ConcatProperties
<1>9. Types'
  BY <1>4, <1>5, <1>8 DEF IInv, Types
<1> QED
  BY <1>5, <1>7, <1>9, FlowStep

\* read: bytes move from the socket's buffer to the receiver's.
LEMMA ReadStep == ASSUME IInv, NEW n \in 1 .. BufferCap, rio_readn(n) PROVE IInv'
<1> USE DEF rio_readn, sendVars
<1>1. PICK z \in Seq(Bytes), s \in Seq(Bytes), i \in Seq(Bytes) :
          z = (IF broken THEN <<>> ELSE out) /\ s = stream /\ i = in
  <2>1. <<>> \in Seq(Bytes)
    OBVIOUS
  <2> QED
    BY <2>1 DEF IInv, Types
<1>2. /\ z \in Seq(Bytes) /\ s \in Seq(Bytes) /\ i \in Seq(Bytes)
      /\ n \in 1 .. Len(s) /\ n <= nleft /\ nleft \in Nat
  BY <1>1, BufferCapAssumption DEF IInv, Types
<1>3. SubSeq(s, 1, n) \in Seq(Bytes) /\ SubSeq(s, n + 1, Len(s)) \in Seq(Bytes)
      /\ SubSeq(s, 1, n) \o SubSeq(s, n + 1, Len(s)) = s /\ Len(SubSeq(s, 1, n)) = n
  BY <1>2, CutSeq
<1>4. PICK x \in Seq(Bytes), y \in Seq(Bytes) :
          x = SubSeq(s, 1, n) /\ y = SubSeq(s, n + 1, Len(s)) /\ x \o y = s /\ Len(x) = n
  BY <1>3
<1>5. in' = i \o x /\ stream' = y /\ UNCHANGED <<out, broken>> /\ nleft' = nleft - n
  BY <1>1, <1>4
<1>6. y \o z \in Seq(Bytes)
  BY ConcatProperties
<1>7. (i \o x) \o (y \o z) = i \o (s \o z)
  <2>0. i \in Seq(Bytes) /\ x \in Seq(Bytes)
    OBVIOUS
  <2>1. (i \o x) \o (y \o z) = i \o (x \o (y \o z))
    <3> DEFINE yz == y \o z
    <3>1. yz \in Seq(Bytes)
      BY <1>6
    <3> HIDE DEF yz
    <3>2. (i \o x) \o yz = i \o (x \o yz)
      BY ONLY <2>0, <3>1, Associative, Zenon
    <3> QED
      BY <3>2 DEF yz
  <2>2. (x \o y) \o z = x \o (y \o z)
    BY Associative, Zenon
  <2> QED
    BY <1>4, <2>1, <2>2, Zenon
<1>8. Pending' = (i \o x) \o (y \o z) /\ Pending = i \o (s \o z)
  <2>1. z = (IF broken' THEN <<>> ELSE out')
    BY <1>1, <1>5
  <2> QED
    BY <1>1, <1>5, <2>1, Zenon DEF Pending
<1>9. i \o x \in Seq(Bytes) /\ Len(i \o x) = Len(i) + n
  BY <1>4, ConcatProperties
<1>10. nleft' \in Nat /\ Len(in') + nleft' = Len(in) + nleft
  BY <1>1, <1>2, <1>5, <1>9
<1>11. Types'
  BY <1>4, <1>5, <1>9, <1>10 DEF IInv, Types
<1> QED
  BY <1>7, <1>8, <1>10, <1>11, FlowStep

\* write fails: the connection has broken and what was left is lost.
LEMMA WriteFailsStep == ASSUME IInv, rio_writen_fails PROVE IInv'
<1> USE DEF rio_writen_fails, receiveVars
<1>1. <<>> \in Seq(Bytes)
  OBVIOUS
<1>2. Types'
  BY <1>1 DEF IInv, Types
<1>3. PICK n, b : n = Framed /\ b = Pending
  OBVIOUS
<1>4. Framed' = n /\ Pending' = b
  BY <1>3 DEF Framed, Pending
<1>5. Run(b, n) /\ Begins(b)' /\ Expects(n)'
  BY <1>3 DEF IInv, Begins, Expects
<1> QED
  BY <1>2, <1>4, <1>5 DEF IInv, FramesStayAligned

\* IO::receive throws, once the connection has broken.
LEMMA ThrowsStep == ASSUME IInv, ReceiveThrows, broken PROVE IInv'
<1> USE DEF ReceiveThrows, sendVars, receiveVars
<1>1. Types'
  BY DEF IInv, Types
<1>2. PICK n, b : n = Framed /\ b = Pending
  OBVIOUS
<1>3. Framed' = n /\ Pending' = b /\ next' = next
  BY <1>2 DEF Framed, Pending
<1>4. Run(b, n) /\ Begins(b)' /\ Expects(n)' /\ ("send" \notin failed' => n = next - 1)
  BY <1>2 DEF IInv, Begins, Expects
<1> QED
  BY <1>1, <1>3, <1>4 DEF IInv, FramesStayAligned

\* The connection breaks: the run loses its end.
LEMMA BreakStep == ASSUME IInv, Break PROVE IInv'
<1> USE DEF Break, sendVars, receiveVars
<1>1. PICK n, b, s, i : n = Framed /\ b = Pending /\ s = stream /\ i = in
  OBVIOUS
<1>2. PICK kept \in 0 .. Len(s) : stream' = SubSeq(s, 1, kept)
  BY <1>1
<1>3. /\ n \in 0 .. Len(PayloadLen) /\ b \in Seq(Bytes) /\ s \in Seq(Bytes) /\ i \in Seq(Bytes)
      /\ Len(b) >= Len(i) + Len(s)
      /\ \A j \in 1 .. Len(i) : b[j] = i[j]
      /\ \A j \in 1 .. Len(s) : b[j + Len(i)] = s[j]
  BY <1>1, FramedType, PendingType DEF IInv, Types
<1>4. PICK x : x = SubSeq(s, 1, kept)
  OBVIOUS
<1>5. x \in Seq(Bytes) /\ Len(x) = kept /\ \A j \in 1 .. kept : x[j] = s[j]
  BY <1>3, <1>4
<1>6. PICK c : c = i \o x
  OBVIOUS
<1>7. /\ c \in Seq(Bytes) /\ Len(c) = Len(i) + kept
      /\ \A j \in 1 .. Len(c) : c[j] = b[j]
  <2>1. /\ c \in Seq(Bytes) /\ Len(c) = Len(i) + Len(x)
        /\ \A j \in 1 .. Len(i) + Len(x) : c[j] = IF j <= Len(i) THEN i[j] ELSE x[j - Len(i)]
    <3>1. i \in Seq(Bytes) /\ x \in Seq(Bytes)
      BY <1>3, <1>5
    <3> QED
      BY ONLY <1>6, <3>1, ConcatProperties
  <2>2. Len(i) \in Nat /\ Len(s) \in Nat
    BY <1>3
  <2>3. ASSUME NEW j \in 1 .. Len(c), j > Len(i) PROVE c[j] = b[j]
    <3>1. j - Len(i) \in 1 .. kept /\ (j - Len(i)) + Len(i) = j /\ j - Len(i) \in 1 .. Len(s)
      <4> DEFINE li == Len(i)
                 ls == Len(s)
      <4>1. li \in Nat /\ ls \in Nat /\ kept \in 0 .. ls /\ j \in 1 .. li + kept /\ j > li
        BY <1>5, <2>1, <2>2, <2>3
      <4> HIDE DEF li, ls
      <4>2. j - li \in 1 .. kept /\ (j - li) + li = j /\ j - li \in 1 .. ls
        BY ONLY <4>1
      <4> QED
        BY ONLY <4>2 DEF li, ls
    <3>2. PICK m : m = j - Len(i)
      OBVIOUS
    <3>3. m \in 1 .. kept /\ m \in 1 .. Len(s) /\ m + Len(i) = j
      BY ONLY <3>1, <3>2
    <3>4. c[j] = x[m]
      <4>1. j \in 1 .. Len(i) + Len(x) /\ ~ (j <= Len(i))
        BY <2>1, <2>2, <2>3
      <4> QED
        BY ONLY <2>1, <3>2, <4>1
    <3>5. x[m] = s[m]
      BY ONLY <1>5, <3>3
    <3>6. b[m + Len(i)] = s[m]
      BY ONLY <1>3, <3>3
    <3> QED
      BY ONLY <3>3, <3>4, <3>5, <3>6
  <2>4. ASSUME NEW j \in 1 .. Len(c), j <= Len(i) PROVE c[j] = b[j]
    <3>1. j \in 1 .. Len(i) + Len(x) /\ j \in 1 .. Len(i)
      BY <1>5, <2>1, <2>2, <2>4
    <3>2. c[j] = i[j] /\ b[j] = i[j]
      BY <1>3, <2>1, <2>4, <3>1
    <3> QED
      BY <3>2
  <2>5. Len(c) = Len(i) + kept /\ \A j \in 1 .. Len(c) : j > Len(i) \/ j <= Len(i)
    BY <1>5, <2>1, <2>2
  <2> QED
    BY ONLY <2>1, <2>3, <2>4, <2>5
<1>8. Pending' = c /\ Framed' = n
  <2>1. Pending' = i \o (x \o <<>>) /\ Framed' = n
    BY <1>1, <1>2, <1>4 DEF Pending, Framed
  <2>2. x \o <<>> = x
    BY <1>5, ConcatEmptySeq
  <2> QED
    BY <1>6, <2>1, <2>2, Zenon
<1>9. Run(c, n)
  <2>1. 0 \in Nat /\ Run(b, n) /\ Len(c) + 0 <= Len(b) /\ \A j \in 1 .. Len(c) : c[j] = b[j + 0]
    BY <1>1, <1>3, <1>7 DEF IInv
  <2> QED
    BY <1>3, <1>7, <2>1, RunStretch
<1>10. Begins(c)'
  <2>1. c # <<>> => b # <<>> /\ c[1] = b[1]
    BY <1>3, <1>7
  <2> QED
    BY <1>1, <2>1 DEF IInv, Begins
<1>11. Types'
  BY <1>2, <1>4, <1>5 DEF IInv, Types
<1>12. Expects(n)'
  BY <1>1 DEF IInv, Expects
<1> QED
  BY <1>1, <1>8, <1>9, <1>10, <1>11, <1>12 DEF IInv, FramesStayAligned

\* The receiver uses the bytes it has read: the run loses its beginning.
LEMMA Used ==
    ASSUME Types, in' = <<>>, UNCHANGED <<stream, out, broken>>
    PROVE  /\ Pending' \in Seq(Bytes)
           /\ Len(Pending) = Len(in) + Len(Pending')
           /\ \A j \in 1 .. Len(Pending') : Pending'[j] = Pending[j + Len(in)]
<1>1. PICK z \in Seq(Bytes), s \in Seq(Bytes), i \in Seq(Bytes) :
          z = (IF broken THEN <<>> ELSE out) /\ s = stream /\ i = in
  <2>1. <<>> \in Seq(Bytes)
    OBVIOUS
  <2> QED
    BY <2>1 DEF Types
<1>2. PICK t \in Seq(Bytes) : t = s \o z
  BY ConcatProperties
<1>3. Pending = i \o t /\ Pending' = <<>> \o t
  BY <1>1, <1>2 DEF Pending
<1>4. <<>> \o t = t
  BY ConcatEmptySeq
<1>5. PICK b : b = i \o t
  OBVIOUS
<1>6. Len(b) = Len(i) + Len(t) /\ \A j \in 1 .. Len(t) : t[j] = b[j + Len(i)]
  <2>1. /\ Len(b) = Len(i) + Len(t)
        /\ \A j \in 1 .. Len(i) + Len(t) : b[j] = IF j <= Len(i) THEN i[j] ELSE t[j - Len(i)]
    BY <1>5, ConcatProperties
  <2>2. Len(i) \in Nat /\ Len(t) \in Nat
    OBVIOUS
  <2>3. ASSUME NEW j \in 1 .. Len(t) PROVE t[j] = b[j + Len(i)]
    <3>1. j + Len(i) \in 1 .. Len(i) + Len(t) /\ ~ (j + Len(i) <= Len(i)) /\ (j + Len(i)) - Len(i) = j
      BY <2>2
    <3> QED
      BY <2>1, <3>1
  <2> QED
    BY <2>1, <2>3
<1> QED
  BY <1>1, <1>3, <1>4, <1>5, <1>6

\* A run that begins inside a frame goes on to its end and to the next frame.
LEMMA RunFrom ==
    ASSUME NEW n \in 0 .. Len(PayloadLen), NEW b \in Seq(Bytes), Run(b, n), b # <<>>,
           NEW k \in Nat, NEW p \in Nat, b[1] = Byte(k, p)
    PROVE  /\ k \in 1 .. n
           /\ \A j \in 1 .. Len(b) : p + (j - 1) <= FrameLen(k) => b[j] = Byte(k, p + (j - 1))
           /\ \A j \in 1 .. Len(b) : j < Len(b) /\ p + (j - 1) = FrameLen(k) => b[j + 1] = Byte(k + 1, 1)
<1>1. Len(b) \in Nat /\ 1 \in 1 .. Len(b)
  OBVIOUS
<1>2. b[1].msg = k /\ b[1].pos = p
  BY DEF Byte
<1>3. k \in 1 .. n /\ \A j \in 1 .. Len(b) : p + (j - 1) <= FrameLen(k) => b[j] = Byte(k, p + (j - 1))
  BY <1>1, <1>2 DEF Run
<1>4. FrameLen(k) \in Nat
  <2>1. k \in 1 .. Len(PayloadLen)
    BY <1>3, PayloadLenAssumption
  <2> QED
    BY <2>1, Lengths
<1>5. ASSUME NEW j \in 1 .. Len(b), j < Len(b), p + (j - 1) = FrameLen(k) PROVE b[j + 1] = Byte(k + 1, 1)
  <2> DEFINE q == p + (j - 1)
  <2>1. b[j] = Byte(k, q)
    BY <1>3, <1>4, <1>5
  <2>2. q = FrameLen(k)
    BY <1>5
  <2> HIDE DEF q
  <2>3. b[j].msg = k /\ b[j].pos = FrameLen(k)
    BY <2>1, <2>2 DEF Byte
  <2> QED
    BY <1>5, <2>3 DEF Run
<1> QED
  BY <1>3, <1>5

\* The four digits of a prefix have come: they are the prefix of one frame.
LEMMA PrefixStep == ASSUME IInv, receive_prefix PROVE IInv'
<1>1. PICK n, b, i, r : n = Framed /\ b = Pending /\ i = in /\ r = Len(received)
  OBVIOUS
<1>2. Types /\ stage = "prefix" /\ nleft = 0
  BY DEF IInv, receive_prefix
<1>3. /\ n \in 0 .. Len(PayloadLen) /\ b \in Seq(Bytes) /\ i \in Seq(Bytes) /\ r \in Nat /\ Len(i) = 4
      /\ Len(b) >= 4 /\ \A j \in 1 .. 4 : b[j] = i[j]
  <2>1. n \in 0 .. Len(PayloadLen) /\ b \in Seq(Bytes) /\ i \in Seq(Bytes) /\ r \in Nat
        /\ Len(stream) \in Nat /\ Len(b) >= Len(i) + Len(stream) /\ \A j \in 1 .. Len(i) : b[j] = i[j]
    BY <1>1, <1>2, FramedType, PendingType DEF Types
  <2>2. Len(i) = 4
    BY <1>1, <1>2, <2>1 DEF IInv, Expects, PrefixLen
  <2> QED
    BY <2>1, <2>2
<1>4. b # <<>> /\ Len(b) \in Nat /\ Run(b, n) /\ b[1] = Byte(r + 1, 1)
  BY <1>1, <1>2, <1>3 DEF IInv, Begins
<1>5. /\ r + 1 \in 1 .. n
      /\ \A j \in 1 .. Len(b) : 1 + (j - 1) <= FrameLen(r + 1) => b[j] = Byte(r + 1, 1 + (j - 1))
  <2> DEFINE k == r + 1
  <2>1. k \in Nat /\ 1 \in Nat
    BY <1>3
  <2> HIDE DEF k
  <2>2. b[1] = Byte(k, 1)
    BY <1>4 DEF k
  <2>3. k \in 1 .. n /\ \A j \in 1 .. Len(b) : 1 + (j - 1) <= FrameLen(k) => b[j] = Byte(k, 1 + (j - 1))
    BY <1>3, <1>4, <2>1, <2>2, RunFrom
  <2> QED
    BY <2>3 DEF k
<1>6. FrameLen(r + 1) \in Nat /\ FrameLen(r + 1) > 4 /\ FrameLen(r + 1) = 4 + PayloadLen[r + 1] /\ PayloadLen[r + 1] \in Nat
  <2>1. r + 1 \in 1 .. Len(PayloadLen)
    BY <1>3, <1>5, PayloadLenAssumption
  <2> QED
    BY <2>1, Lengths
<1>7. \A j \in 1 .. Len(b) : j <= 5 => b[j] = Byte(r + 1, j)
  <2> TAKE j \in 1 .. Len(b)
  <2> HAVE j <= 5
  <2>1. 1 + (j - 1) = j /\ j <= FrameLen(r + 1)
    BY <1>4, <1>6
  <2> QED
    BY <1>5, <2>1
<1>8. i[1].msg = r + 1 /\ \A j \in 1 .. 4 : i[j] = Byte(r + 1, j)
  <2>1. \A j \in 1 .. 4 : i[j] = Byte(r + 1, j)
    BY <1>3, <1>4, <1>7
  <2> QED
    BY <2>1 DEF Byte
<1>9. IsPrefix4(in)
  BY <1>1, <1>3, <1>8 DEF IsPrefix4, PrefixLen
<1>10. /\ stage' = "body" /\ nleft' = PayloadLen[r + 1] /\ in' = <<>>
       /\ UNCHANGED <<next, out, failed, stream, broken, received>>
  BY <1>1, <1>8, <1>9 DEF receive_prefix, sendVars
<1>11. PICK c : c = Pending'
  OBVIOUS
<1>12. c \in Seq(Bytes) /\ Len(b) = 4 + Len(c) /\ \A j \in 1 .. Len(c) : c[j] = b[j + 4]
  BY <1>1, <1>2, <1>3, <1>10, <1>11, Used
<1>13. Run(c, n)
  <2>1. 4 \in Nat /\ Len(c) + 4 <= Len(b)
    BY <1>12
  <2> QED
    BY <1>3, <1>4, <1>12, <2>1, RunStretch
<1>14. c # <<>> => c[1] = Byte(r + 1, 5)
  BY <1>3, <1>4, <1>7, <1>12
<1>15. ~ broken => c # <<>> /\ c[Len(c)] = Byte(n, FrameLen(n))
  <2> SUFFICES ASSUME ~ broken PROVE c # <<>> /\ c[Len(c)] = Byte(n, FrameLen(n))
    OBVIOUS
  <2>1. b[Len(b)] = Byte(n, FrameLen(n))
    BY <1>1, <1>4 DEF IInv, Ends
  <2>2. ASSUME c = <<>> PROVE FALSE
    <3>1. Len(b) = 4 /\ b[4] = Byte(r + 1, 4)
      BY <1>4, <1>7, <1>12, <2>2
    <3>2. Byte(n, FrameLen(n)) = Byte(r + 1, 4)
      BY <2>1, <3>1
    <3>3. n = r + 1 /\ FrameLen(n) = 4
      BY <3>2 DEF Byte
    <3> QED
      BY <1>6, <3>3
  <2>3. Len(c) \in 1 .. Len(c) /\ Len(c) + 4 = Len(b)
    BY <1>12, <2>2
  <2> QED
    BY <1>12, <2>1, <2>2, <2>3
<1>16. Types'
  <2>1. <<>> \in Seq(Bytes)
    OBVIOUS
  <2> QED
    BY <1>2, <1>6, <1>10, <2>1 DEF Types
<1>17. Framed' = n
  BY <1>1, <1>10 DEF Framed
<1>18. Begins(c)' /\ (~ broken' => Ends(c, n)')
  BY <1>1, <1>10, <1>14, <1>15 DEF Begins, Ends, PrefixLen
<1>19. Expects(n)'
  <2>1. Len(in') = 0 /\ Len(received') = r
    BY <1>1, <1>10
  <2> QED
    BY <1>3, <1>5, <1>6, <1>10, <2>1 DEF Expects
<1>20. ("send" \notin failed => n = next - 1)' /\ (\A k \in 1 .. Len(received) : received[k] = k)'
  BY <1>1, <1>10 DEF IInv
<1>21. FramesStayAligned'
  BY <1>10 DEF IInv, FramesStayAligned
<1> QED
  BY <1>11, <1>13, <1>16, <1>17, <1>18, <1>19, <1>20, <1>21 DEF IInv

\* The body has come: it is the payload of the frame whose prefix was read.
LEMMA BodyStep == ASSUME IInv, receive_body PROVE IInv'
<1>1. PICK n, b, i, r, k, l : n = Framed /\ b = Pending /\ i = in /\ r = Len(received) /\ k = r + 1 /\ l = PayloadLen[k]
  OBVIOUS
<1>2. Types /\ stage = "body" /\ nleft = 0
  BY DEF IInv, receive_body
<1>3. /\ n \in 0 .. Len(PayloadLen) /\ b \in Seq(Bytes) /\ i \in Seq(Bytes) /\ r \in Nat
      /\ Len(stream) \in Nat /\ Len(b) >= Len(i) + Len(stream) /\ \A j \in 1 .. Len(i) : b[j] = i[j]
  BY <1>1, <1>2, FramedType, PendingType DEF Types
<1>4. k \in 1 .. n /\ k \in 1 .. Len(PayloadLen) /\ Len(i) = l
  <2>1. k <= n /\ Len(i) + nleft = l
    BY <1>1, <1>2 DEF IInv, Expects
  <2> QED
    BY <1>1, <1>2, <1>3, <2>1, PayloadLenAssumption
<1>5. l \in Nat \ {0} /\ FrameLen(k) = 4 + l /\ FrameLen(k) \in Nat
  BY <1>1, <1>4, Lengths
<1>6. b # <<>> /\ Len(b) \in Nat /\ Len(b) >= l /\ Run(b, n) /\ b[1] = Byte(k, 5)
  <2>1. b # <<>> /\ Len(b) \in Nat /\ Len(b) >= l
    BY <1>3, <1>4, <1>5
  <2> QED
    BY <1>1, <1>2, <2>1 DEF IInv, Begins, PrefixLen
<1>7. /\ \A j \in 1 .. Len(b) : 5 + (j - 1) <= FrameLen(k) => b[j] = Byte(k, 5 + (j - 1))
      /\ \A j \in 1 .. Len(b) : j < Len(b) /\ 5 + (j - 1) = FrameLen(k) => b[j + 1] = Byte(k + 1, 1)
  <2>1. 5 \in Nat /\ k \in Nat
    BY <1>4
  <2> QED
    BY <1>3, <1>6, <2>1, RunFrom
<1>8. \A j \in 1 .. l : i[j] = Byte(k, 4 + j)
  <2> TAKE j \in 1 .. l
  <2>1. 5 + (j - 1) = 4 + j /\ 4 + j <= FrameLen(k) /\ j \in 1 .. Len(b)
    BY <1>5, <1>6
  <2> QED
    BY <1>3, <1>4, <1>7, <2>1
<1>9. i # <<>> /\ Last(i) = Byte(k, FrameLen(k)) /\ Last(i).msg = k /\ Last(i).pos = FrameLen(k)
  <2>1. i # <<>> /\ Last(i) = Byte(k, FrameLen(k))
    BY <1>3, <1>4, <1>5, <1>8 DEF Last
  <2> QED
    BY <2>1 DEF Byte
<1>10. EndsWithNewline(in)
  BY <1>1, <1>9 DEF EndsWithNewline, FrameLen
<1>11. Payload(in) = k
  <2>1. i = SubSeq(Frame(k), 5, 4 + l)
    <3> DEFINE f == Frame(k)
    <3>1. f \in Seq(Bytes) /\ Len(f) = 4 + l /\ \A p \in 1 .. 4 + l : f[p] = Byte(k, p)
      BY <1>4, <1>5, FrameBytes
    <3> HIDE DEF f
    <3>2. PICK g : g = SubSeq(f, 5, 4 + l)
      OBVIOUS
    <3>3. g \in Seq(Bytes) /\ Len(g) = l /\ \A j \in 1 .. l : g[j] = f[4 + j]
      BY <1>5, <3>1, <3>2
    <3>4. \A j \in 1 .. l : g[j] = Byte(k, 4 + j)
      <4> TAKE j \in 1 .. l
      <4>1. 4 + j \in 1 .. 4 + l
        BY <1>5
      <4> QED
        BY <3>1, <3>3, <4>1
    <3>5. Len(i) = Len(g) /\ \A j \in 1 .. Len(i) : i[j] = g[j]
      BY <1>4, <1>8, <3>3, <3>4
    <3>6. i = g
      BY ONLY <1>3, <3>3, <3>5, SeqEqual
    <3> QED
      BY <3>2, <3>6 DEF f
  <2>2. PrefixLen + 1 = 5 /\ PrefixLen + PayloadLen[k] = 4 + l
    BY <1>1 DEF PrefixLen
  <2>3. i = SubSeq(Frame(k), PrefixLen + 1, PrefixLen + PayloadLen[k])
    BY <2>1, <2>2, Zenon
  <2>4. in = i /\ Last(i).msg = k
    BY <1>1, <1>9
  <2> QED
    BY <2>3, <2>4, Zenon DEF Payload
<1>12. /\ received' = Append(received, k) /\ stage' = "prefix" /\ nleft' = 4 /\ in' = <<>>
       /\ UNCHANGED <<next, out, failed, stream, broken>>
  BY <1>10, <1>11 DEF receive_body, sendVars, PrefixLen
<1>13. received' \in Seq(Nat) /\ Len(received') = k /\ \A j \in 1 .. k : received'[j] = j
  <2>1. received \in Seq(Nat) /\ Len(received) = r /\ \A j \in 1 .. r : received[j] = j
    BY <1>1, <1>2 DEF IInv, Types
  <2> QED
    BY <1>1, <1>3, <1>12, <2>1
<1>14. PICK c : c = Pending'
  OBVIOUS
<1>15. c \in Seq(Bytes) /\ Len(b) = l + Len(c) /\ \A j \in 1 .. Len(c) : c[j] = b[j + l]
  BY <1>1, <1>2, <1>4, <1>12, <1>14, Used
<1>16. Run(c, n)
  <2>1. l \in Nat /\ Len(c) + l <= Len(b)
    BY <1>5, <1>15
  <2> QED
    BY <1>3, <1>6, <1>15, <2>1, RunStretch
<1>17. c # <<>> => c[1] = Byte(k + 1, 1)
  <2> SUFFICES ASSUME c # <<>> PROVE c[1] = Byte(k + 1, 1)
    OBVIOUS
  <2>1. 1 \in 1 .. Len(c) /\ l \in 1 .. Len(b) /\ l < Len(b) /\ 5 + (l - 1) = FrameLen(k) /\ 1 + l = l + 1
    BY <1>5, <1>6, <1>15
  <2> QED
    BY <1>7, <1>15, <2>1
<1>18. ~ broken => IF c = <<>> THEN k = n ELSE c[Len(c)] = Byte(n, FrameLen(n))
  <2> SUFFICES ASSUME ~ broken PROVE IF c = <<>> THEN k = n ELSE c[Len(c)] = Byte(n, FrameLen(n))
    OBVIOUS
  <2>1. b[Len(b)] = Byte(n, FrameLen(n))
    BY <1>1, <1>6 DEF IInv, Ends
  <2>2. ASSUME c = <<>> PROVE k = n
    <3>1. Len(b) = l /\ l \in 1 .. l
      BY <1>5, <1>15, <2>2
    <3>2. b[l] = Byte(k, 4 + l)
      BY <1>3, <1>4, <1>8, <3>1
    <3>3. Byte(n, FrameLen(n)) = Byte(k, 4 + l)
      BY <2>1, <3>1, <3>2
    <3> QED
      BY <3>3 DEF Byte
  <2>3. ASSUME c # <<>> PROVE c[Len(c)] = b[Len(b)]
    <3>1. Len(c) \in 1 .. Len(c) /\ Len(c) + l = Len(b)
      BY <1>5, <1>15, <2>3
    <3> QED
      BY <1>15, <3>1
  <2> QED
    BY <2>1, <2>2, <2>3
<1>19. Types'
  <2>1. <<>> \in Seq(Bytes)
    OBVIOUS
  <2> QED
    BY <1>2, <1>12, <1>13, <2>1 DEF Types
<1>20. Framed' = n
  BY <1>1, <1>12 DEF Framed
<1>21. Begins(c)' /\ (~ broken' => Ends(c, n)')
  BY <1>12, <1>13, <1>17, <1>18 DEF Begins, Ends
<1>22. Expects(n)'
  <2>1. Len(in') = 0 /\ Len(received') = k /\ k <= n
    BY <1>4, <1>12, <1>13
  <2> QED
    BY <1>12, <2>1 DEF Expects, PrefixLen
<1>23. "send" \notin failed' => n = next' - 1
  BY <1>1, <1>12 DEF IInv
<1>24. FramesStayAligned'
  BY <1>12 DEF IInv, FramesStayAligned
<1> QED
  BY <1>13, <1>14, <1>16, <1>19, <1>20, <1>21, <1>22, <1>23, <1>24 DEF IInv

-----------------------------------------------------------------------------
\* One case per step of sender, receiver and network.
LEMMA NextIInv == ASSUME IInv, [Next]_vars PROVE IInv'
<1>1. CASE send(next)
  BY <1>1, SendStep
<1>2. CASE \E n \in 1 .. BufferCap : rio_writen(n)
  BY <1>2, WriteStep
<1>3. CASE rio_writen_fails
  BY <1>3, WriteFailsStep
<1>4. CASE \E n \in 1 .. BufferCap : rio_readn(n)
  BY <1>4, ReadStep
<1>5. CASE rio_readn_short
  BY <1>5, ThrowsStep DEF rio_readn_short
<1>6. CASE receive_prefix
  BY <1>6, PrefixStep
<1>7. CASE receive_body
  BY <1>7, BodyStep
<1>8. CASE Break
  BY <1>8, BreakStep
<1>9. CASE UNCHANGED vars
  <2>1. Types' /\ Pending' = Pending /\ UNCHANGED <<next, failed, broken, stage, received, in, nleft>>
    BY <1>9 DEF IInv, Types, Pending, vars
  <2> QED
    BY <2>1, FlowStep
<1> QED
  BY <1>1, <1>2, <1>3, <1>4, <1>5, <1>6, <1>7, <1>8, <1>9 DEF Next, Sender, Receiver

\* The inductive invariant holds.
LEMMA Inductive == Spec => []IInv
<1>1. Init => IInv
  BY InitIInv
<1>2. IInv /\ [Next]_vars => IInv'
  BY NextIInv
<1> QED
  BY <1>1, <1>2, PTL DEF Spec

\* For any messages and any size of the sockets' buffers: IO::receive throws only when the
\* connection has broken; a length prefix is never looked for in the middle of a frame.
THEOREM StaysAligned == Spec => []FramesStayAligned
<1>1. IInv => FramesStayAligned
  BY DEF IInv
<1> QED
  BY <1>1, Inductive, PTL

\* For any messages and any size of the sockets' buffers: however writes and reads cut up
\* the bytes and wherever the connection breaks, IO::receive has returned the first
\* messages sent, whole and in order.
THEOREM ReceivesWhatWasSent == Spec => []ReceivedIsPrefixOfSent
<1>1. ASSUME IInv PROVE ReceivedIsPrefixOfSent
  <2>1. PICK n, r : n = Framed /\ r = Len(received)
    OBVIOUS
  <2>2. n \in Nat /\ r \in Nat /\ r <= n /\ received \in Seq(Nat) /\ \A k \in 1 .. r : received[k] = k
    BY <1>1, <2>1, FramedType DEF IInv, Types, Expects
  <2>3. PICK s : s = Sent
    OBVIOUS
  <2>4. s = [k \in 1 .. n |-> k]
    BY <2>1, <2>3 DEF Sent
  <2>5. s \in Seq(Nat) /\ Len(s) = n /\ \A k \in 1 .. n : s[k] = k
    <3>1. s \in [1 .. n -> Nat]
      BY <2>2, <2>4
    <3>2. s \in Seq(Nat)
      BY <2>2, <3>1
    <3> QED
      BY <2>2, <2>4, <3>1, <3>2
  <2>6. PICK t, u : t = SubSeq(received, 1, r) /\ u = SubSeq(s, 1, r)
    OBVIOUS
  <2>7. t \in Seq(Nat) /\ Len(t) = r /\ \A k \in 1 .. r : t[k] = k
    BY <2>1, <2>2, <2>6
  <2>8. u \in Seq(Nat) /\ Len(u) = r /\ \A k \in 1 .. r : u[k] = k
    BY <2>2, <2>5, <2>6
  <2>9. Len(t) = Len(u) /\ \A k \in 1 .. Len(t) : t[k] = u[k]
    BY <2>7, <2>8
  <2>10. t = u
    BY ONLY <2>7, <2>8, <2>9, SeqEqual
  <2> QED
    BY <2>1, <2>2, <2>3, <2>5, <2>6, <2>10 DEF ReceivedIsPrefixOfSent, IsPrefix
<1> QED
  BY <1>1, Inductive, PTL
=============================================================================
