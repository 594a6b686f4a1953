--------------------------------- MODULE IO ---------------------------------
(***************************************************************************)
(* Framed messages over a byte stream: IO::send and IO::receive (io.cpp)   *)
(* on rio_writen and rio_readn (csapp.cpp).  write and read move any       *)
(* number of bytes at a time; the connection may break between any two     *)
(* bytes.  A byte is named by its message and its position in the frame,   *)
(* 4 digits of length followed by the payload and its newline; that is all *)
(* the receiver's checks can tell apart.                                   *)
(***************************************************************************)
EXTENDS Naturals, Sequences, SequencesExt

CONSTANTS
    PayloadLen,     \* PayloadLen[k] : length of the k-th message with its newline
    BufferCap       \* bound: bytes the socket buffers hold

PrefixLen == 4

MaxFramed == 9999

ASSUME PayloadLenAssumption == PayloadLen \in Seq(Nat \ {0})

ASSUME BufferCapAssumption == BufferCap \in Nat \ {0}

VARIABLES
    next,       \* index of the next message to send
    out,        \* rio_writen's bytes still to write
    failed,     \* IOExceptions: subset of {"send", "receive"}
    stream,     \* bytes in the socket buffers
    broken,     \* the connection has broken: no further byte gets in
    stage,      \* what rio_readn is reading: "prefix" or "body"
    in,         \* rio_readn's bytes read so far
    nleft,      \* rio_readn's bytes still to read
    received    \* messages IO::receive has returned

vars == <<next, out, failed, stream, broken, stage, in, nleft, received>>

sendVars == <<next, out>>

receiveVars == <<stage, in, nleft, received>>

Byte(k, pos) == [msg |-> k, pos |-> pos]

Init ==
    /\ next = 1
    /\ out = <<>>
    /\ failed = {}
    /\ stream = <<>>
    /\ broken = FALSE
    /\ stage = "prefix"
    /\ in = <<>>
    /\ nleft = PrefixLen
    /\ received = <<>>

-----------------------------------------------------------------------------
\* make_length_prefix(s.size() + 1) and the newline: a frame, or IOException.
Frame(k) == [pos \in 1 .. PrefixLen + PayloadLen[k] |-> Byte(k, pos)]

send(k) ==
    /\ k = next /\ k <= Len(PayloadLen) /\ out = <<>> /\ "send" \notin failed
    /\ next' = k + 1
    /\ IF PayloadLen[k] > MaxFramed
       THEN failed' = failed \cup {"send"} /\ UNCHANGED out
       ELSE out' = Frame(k) /\ UNCHANGED failed
    /\ UNCHANGED <<stream, broken, receiveVars>>

\* Faulty variant for mutation testing: a short write is taken for a full one.
rio_writen_once(n) ==
    /\ out # <<>> /\ ~broken
    /\ n <= Len(out) /\ Len(stream) + n <= BufferCap
    /\ stream' = stream \o SubSeq(out, 1, n)
    /\ out' = <<>>
    /\ UNCHANGED <<next, failed, broken, receiveVars>>

\* One write of rio_writen's loop.
rio_writen(n) ==
    /\ out # <<>> /\ ~broken
    /\ n <= Len(out) /\ Len(stream) + n <= BufferCap
    /\ stream' = stream \o SubSeq(out, 1, n)
    /\ out' = SubSeq(out, n + 1, Len(out))
    /\ UNCHANGED <<next, failed, broken, receiveVars>>

\* write fails: rio_writen returns -1 and IO::send throws.
rio_writen_fails ==
    /\ out # <<>> /\ broken
    /\ failed' = failed \cup {"send"}
    /\ out' = <<>>
    /\ UNCHANGED <<next, stream, broken, receiveVars>>

-----------------------------------------------------------------------------
Receiving == "receive" \notin failed

\* Faulty variant for mutation testing: a short read is taken for a full one.
rio_readn_once(n) ==
    /\ Receiving /\ nleft > 0
    /\ n <= nleft /\ n <= Len(stream)
    /\ in' = in \o SubSeq(stream, 1, n)
    /\ stream' = SubSeq(stream, n + 1, Len(stream))
    /\ nleft' = 0
    /\ UNCHANGED <<sendVars, failed, broken, stage, received>>

\* One read of rio_readn's loop.
rio_readn(n) ==
    /\ Receiving /\ nleft > 0
    /\ n <= nleft /\ n <= Len(stream)
    /\ in' = in \o SubSeq(stream, 1, n)
    /\ stream' = SubSeq(stream, n + 1, Len(stream))
    /\ nleft' = nleft - n
    /\ UNCHANGED <<sendVars, failed, broken, stage, received>>

ReceiveThrows ==
    /\ failed' = failed \cup {"receive"}
    /\ UNCHANGED <<sendVars, stream, broken, receiveVars>>

\* read returns 0 or fails before all the bytes have come.
rio_readn_short == Receiving /\ nleft > 0 /\ stream = <<>> /\ broken /\ ReceiveThrows

\* parse_length_prefix: the four digits of one frame give its length.  Any other four bytes
\* are refused here; the code refuses them only if they are not all digits, and otherwise
\* takes them for a length.  FramesStayAligned shows that there are no others.
IsPrefix4(bytes) == Len(bytes) = PrefixLen /\ \A p \in 1 .. PrefixLen : bytes[p] = Byte(bytes[1].msg, p)

receive_prefix ==
    /\ Receiving /\ stage = "prefix" /\ nleft = 0
    /\ IF IsPrefix4(in)
       THEN /\ stage' = "body"
            /\ nleft' = PayloadLen[in[1].msg]
            /\ in' = <<>>
            /\ UNCHANGED <<sendVars, failed, stream, broken, received>>
       ELSE ReceiveThrows

\* The body must end with the newline, which stands at the end of a frame only.
EndsWithNewline(bytes) ==
    bytes # <<>> /\ Last(bytes).pos = PrefixLen + PayloadLen[Last(bytes).msg]

\* The message that the body is; 0 stands for anything but a sent payload.
Payload(bytes) ==
    LET k == Last(bytes).msg
    IN  IF bytes = SubSeq(Frame(k), PrefixLen + 1, PrefixLen + PayloadLen[k]) THEN k ELSE 0

receive_body ==
    /\ Receiving /\ stage = "body" /\ nleft = 0
    /\ IF EndsWithNewline(in)
       THEN /\ received' = Append(received, Payload(in))
            /\ stage' = "prefix"
            /\ nleft' = PrefixLen
            /\ in' = <<>>
            /\ UNCHANGED <<sendVars, failed, stream, broken>>
       ELSE ReceiveThrows

\* The connection breaks; of the bytes under way only some still arrive.
Break ==
    /\ ~broken
    /\ broken' = TRUE
    /\ \E kept \in 0 .. Len(stream) : stream' = SubSeq(stream, 1, kept)
    /\ UNCHANGED <<sendVars, failed, receiveVars>>

-----------------------------------------------------------------------------
Sender == send(next) \/ (\E n \in 1 .. BufferCap : rio_writen(n)) \/ rio_writen_fails

Receiver == (\E n \in 1 .. BufferCap : rio_readn(n)) \/ rio_readn_short \/ receive_prefix \/ receive_body

Next == Sender \/ Receiver \/ Break

Spec == Init /\ [][Next]_vars /\ WF_vars(Sender) /\ WF_vars(Receiver)

-----------------------------------------------------------------------------
\* The messages that were framed, in the order they are sent: the first one that is
\* too long makes IO::send throw, and no other follows it.
Framed == IF next > 1 /\ PayloadLen[next - 1] > MaxFramed THEN next - 2 ELSE next - 1

Sent == [k \in 1 .. Framed |-> k]

\* However the bytes are cut up by writes and reads, and wherever the connection
\* breaks, IO::receive returns the messages sent, whole, once each and in order:
\* a message cut off in the middle is never returned.
ReceivedIsPrefixOfSent == IsPrefix(received, Sent)

\* A length prefix is always read as such: IO::receive throws only because the
\* connection broke, never because the two ends have lost step.
FramesStayAligned == "receive" \in failed => broken

\* Unless the connection breaks, every message IO::send returned from is received.
AllArrive == \A k \in 1 .. Len(PayloadLen) :
    (k \in {Sent[j] : j \in DOMAIN Sent} /\ out = <<>>) ~> (broken \/ k \in {received[j] : j \in DOMAIN received})
=============================================================================
