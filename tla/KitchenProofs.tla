--------------------------- MODULE KitchenProofs ----------------------------
(***************************************************************************)
(* Proofs about KitchenDisplay, for any number of displays, orders and     *)
(* updates and for socket buffers of any size: the server keeps no pointer *)
(* to a deleted Client, and what a display shows, together with what is on *)
(* its way to it, is always what the server has.                           *)
(***************************************************************************)
EXTENDS ViewProofs

-----------------------------------------------------------------------------
(***************************************************************************)
(* The inductive invariant.                                                *)
(***************************************************************************)
Types ==
    /\ pc \in [Clients -> PC]
    /\ held \in [Clients -> Seq(Sent)]
    /\ login \in [Clients -> Logins \cup {"none"}]
    /\ wire \in [Clients -> Seq(Sent)]
    /\ broken \in [Clients -> BOOLEAN]
    /\ peer \in [Clients -> {"off", "prompt", "login", "watch", "rejected"}]
    /\ orders = [c \in Clients |-> orders[c]]

\* The program that shows `view' accepts all of msgs, one after the other.
Follows(view, msgs) == \E last : Leads(view, msgs, last)

\* The messages that will reach c's display after those of w, if it keeps listening.
Ahead(c, w) == IF broken[c] THEN w ELSE w \o held[c] \o m_queue[c]

\* An admitted display with messages w on the connection: it accepts what is ahead of
\* it, and when nothing is in the way this takes it to m_orders.
Admitted(c, w) ==
    /\ Follows(orders[c], Ahead(c, w))
    /\ ~broken[c] /\ c \in m_display_clients => Leads(orders[c], Ahead(c, w), m_orders)
    /\ pc[c] = "register" => w = <<>> /\ orders[c] = EmptyMap
    /\ pc[c] \in {"unregister", "destroy", "none"} => broken[c]

\* A Client is registered exactly while its thread is inside the loop, has a message in
\* hand exactly between dequeue and send, and is born with an empty queue.
ThreadOK(c) ==
    /\ c \in m_display_clients <=> pc[c] \in {"dequeue", "send", "unregister"}
    /\ Len(held[c]) = IF pc[c] = "send" THEN 1 ELSE 0
    /\ pc[c] \in {"none", "chat", "register"} => m_queue[c] = <<>>

\* After the LOGIN: no answer yet or never, refused, or admitted.
LoginOK(c) ==
    \/ wire[c] = <<>> /\ (pc[c] \in {"none", "chat", "destroy"} \/ broken[c])
    \/ wire[c] = <<ERROR>> /\ pc[c] \in {"none", "destroy"}
    \/ /\ wire[c] # <<>> /\ Head(wire[c]) = OK
       /\ pc[c] # "chat" /\ Admitted(c, Tail(wire[c]))

ProgramOK(c) ==
    /\ ViewOK(orders[c])
    /\ Len(wire[c]) <= WireCap
    /\ peer[c] # "rejected"
    /\ peer[c] = "prompt" =>
          /\ wire[c] = <<>> /\ orders[c] = EmptyMap /\ login[c] = "none"
          /\ pc[c] \in {"none", "chat", "destroy"}
    /\ peer[c] = "login" => orders[c] = EmptyMap /\ LoginOK(c)
    /\ peer[c] = "watch" => pc[c] # "chat" /\ Admitted(c, wire[c])

IInv == Types /\ ServerOK /\ \A c \in Clients : ThreadOK(c) /\ ProgramOK(c)

-----------------------------------------------------------------------------
(***************************************************************************)
(* Sequences.                                                              *)
(***************************************************************************)
\* The queue's head moves into the thread's hand.
LEMMA DequeueSeq ==
    ASSUME NEW S, NEW w \in Seq(S), NEW q \in Seq(S), q # <<>>
    PROVE  /\ <<Head(q)>> \in Seq(S)
           /\ w \o <<Head(q)>> \o Tail(q) = w \o <<>> \o q
<1>1. q = <<Head(q)>> \o Tail(q) /\ Head(q) \in S /\ Tail(q) \in Seq(S)
  OBVIOUS
<1>2. w \o <<Head(q)>> \o Tail(q) = w \o (<<Head(q)>> \o Tail(q))
  BY <1>1
<1> QED
  BY <1>1, <1>2

\* The message in hand goes onto the wire.
LEMMA SendSeq ==
    ASSUME NEW S, NEW w \in Seq(S), NEW h \in Seq(S), NEW q \in Seq(S), Len(h) = 1
    PROVE  /\ h[1] \in S
           /\ Append(w, h[1]) \o <<>> \o q = w \o h \o q
<1>1. h[1] \in S
  <2>1. 1 \in 1 .. Len(h)
    OBVIOUS
  <2> QED
    BY ONLY <2>1, h \in Seq(S), ElementOfSeq
<1>2. h = <<h[1]>>
  <2>1. <<h[1]>> \in Seq(S) /\ Len(<<h[1]>>) = 1 /\ <<h[1]>>[1] = h[1]
    BY <1>1
  <2> QED
    BY <2>1, SeqEqual
<1>3. w \o <<h[1]>> = Append(w, h[1])
  BY <1>1
<1>4. Append(w, h[1]) \o <<>> = Append(w, h[1])
  BY <1>1
<1> QED
  BY <1>1, <1>2, <1>3, <1>4

\* The wire's head is received.
LEMMA ReceiveSeq ==
    ASSUME NEW S, NEW w \in Seq(S), NEW h \in Seq(S), NEW q \in Seq(S), w # <<>>
    PROVE  /\ w \o h \o q \in Seq(S) /\ w \o h \o q # <<>>
           /\ Head(w \o h \o q) = Head(w)
           /\ Tail(w \o h \o q) = Tail(w) \o h \o q
<1> DEFINE hq == h \o q
<1>1. hq \in Seq(S) /\ w \o h \o q = w \o hq /\ Tail(w) \o h \o q = Tail(w) \o hq
  OBVIOUS
<1> HIDE DEF hq
<1>2. w \o hq \in Seq(S) /\ w \o hq # <<>> /\ Head(w \o hq) = Head(w) /\ Tail(w \o hq) = Tail(w) \o hq
  BY <1>1
<1> QED
  BY <1>1, <1>2

\* A broadcast goes to the end.
LEMMA BroadcastSeq ==
    ASSUME NEW S, NEW w \in Seq(S), NEW h \in Seq(S), NEW q \in Seq(S), NEW msgs \in Seq(S)
    PROVE  w \o h \o q \in Seq(S) /\ w \o h \o (q \o msgs) = (w \o h \o q) \o msgs
OBVIOUS

\* With nothing in hand and nothing queued, a message in hand comes last.
LEMMA TimeoutSeq ==
    ASSUME NEW S, NEW w \in Seq(S), NEW msg \in S
    PROVE  w \o <<>> \o <<>> = w /\ w \o <<msg>> \o <<>> = Append(w, msg)
OBVIOUS

\* Appending behind the first.
LEMMA AppendSeq ==
    ASSUME NEW S, NEW w \in Seq(S), NEW msg \in S
    PROVE  /\ Append(w, msg) \in Seq(S) /\ Len(Append(w, msg)) = Len(w) + 1 /\ Append(w, msg) # <<>>
           /\ w # <<>> => Head(Append(w, msg)) = Head(w) /\ Tail(Append(w, msg)) = Append(Tail(w), msg)
           /\ w = <<>> => Head(Append(w, msg)) = msg /\ Tail(Append(w, msg)) = <<>>
OBVIOUS

-----------------------------------------------------------------------------
(***************************************************************************)
(* Following.                                                              *)
(***************************************************************************)
\* Where nothing is ahead, nothing is rejected.
LEMMA FollowsNothing == ASSUME NEW view, ViewOK(view) PROVE Follows(view, <<>>)
BY LeadsNowhere DEF Follows

\* Every view on the way is a view.
LEMMA LeadsToView ==
    ASSUME NEW msgs, Len(msgs) \in Nat, NEW first, NEW last, Leads(first, msgs, last)
    PROVE  ViewOK(last)
<1>1. PICK shown : Chain(shown, first, msgs) /\ shown[Len(msgs)] = last
  BY DEF Leads
<1>2. CASE Len(msgs) = 0
  BY <1>1, <1>2 DEF Chain
<1>3. CASE Len(msgs) > 0
  <2>1. Len(msgs) \in 1 .. Len(msgs)
    BY <1>3
  <2>2. Link(shown[Len(msgs) - 1], msgs[Len(msgs)], last)
    BY <1>1, <2>1 DEF Chain
  <2> QED
    BY <2>2 DEF Link
<1> QED
  BY <1>2, <1>3

\* A heartbeat more does no harm.
LEMMA LeadsHeartbeat ==
    ASSUME NEW msgs \in Seq(Sent), NEW first, NEW last, Leads(first, msgs, last)
    PROVE  Leads(first, Append(msgs, DISP_HEARTBEAT), last)
<1>1. ViewOK(last) /\ DISP_HEARTBEAT \in Sent
  BY LeadsToView DEF Sent
<1>2. Link(last, DISP_HEARTBEAT, last)
  BY <1>1, HeartbeatLink
<1> QED
  BY <1>1, <1>2, LeadsAppend

\* ... and is accepted.
LEMMA FollowsHeartbeat ==
    ASSUME NEW msgs \in Seq(Sent), NEW view, Follows(view, msgs)
    PROVE  Follows(view, Append(msgs, DISP_HEARTBEAT))
BY LeadsHeartbeat DEF Follows

\* The next message is accepted, and the rest after it.
LEMMA FollowsTail ==
    ASSUME NEW msgs \in Seq(Sent), msgs # <<>>, NEW view, Follows(view, msgs)
    PROVE  LET next == handle(Head(msgs), view)
           IN  /\ accepts(Head(msgs), view) /\ ViewOK(next) /\ Advances(view, next)
               /\ Follows(next, Tail(msgs))
               /\ \A last : Leads(view, msgs, last) => Leads(next, Tail(msgs), last)
<1> DEFINE next == handle(Head(msgs), view)
<1>1. ASSUME NEW last, Leads(view, msgs, last)
      PROVE  /\ accepts(Head(msgs), view) /\ ViewOK(next) /\ Advances(view, next)
             /\ Leads(next, Tail(msgs), last)
  <2>1. PICK then : Link(view, Head(msgs), then) /\ Leads(then, Tail(msgs), last)
    BY <1>1, LeadsTail
  <2>2. then = next
    BY <2>1 DEF Link
  <2> QED
    BY <2>1, <2>2 DEF Link
<1> HIDE DEF next
<1>2. PICK last : Leads(view, msgs, last)
  BY DEF Follows
<1> QED
  BY <1>1, <1>2 DEF Follows, next

\* What is followed to the end is followed in part.
LEMMA FollowsPrefix ==
    ASSUME NEW w \in Seq(Sent), NEW h \in Seq(Sent), NEW q \in Seq(Sent), NEW view,
           Follows(view, w \o h \o q)
    PROVE  Follows(view, w)
<1>1. h \o q \in Seq(Sent) /\ w \o h \o q = w \o (h \o q)
  OBVIOUS
<1>2. PICK last : Leads(view, w \o (h \o q), last)
  BY <1>1 DEF Follows
<1> QED
  BY <1>1, <1>2, LeadsPrefix DEF Follows

-----------------------------------------------------------------------------
(***************************************************************************)
(* The initial state, and the connections a step does not touch.           *)
(***************************************************************************)
\* The empty map is a view.
LEMMA EmptyView == ViewOK(EmptyMap)
BY DEF ViewOK, EmptyMap

\* Nobody is connected, and the server has no orders.
LEMMA InitInv == Init => IInv
<1> SUFFICES ASSUME Init PROVE IInv
  OBVIOUS
<1>1. TypeOK
  BY InitType DEF Init
<1>2. ServerOK
  <2>1. m_orders = EmptyMap /\ DOMAIN EmptyMap = {}
    BY DEF Init, ServerInit, EmptyMap
  <2> QED
    BY <1>1, <2>1, EmptyView DEF ServerOK, Allocated
<1>3. <<>> \in Seq(Sent) /\ Len(<<>>) = 0 /\ WireCap \in Nat
  BY WireCapAssumption
<1>4. Types
  BY <1>3 DEF Init, Types, PC, Logins
<1>5. ASSUME NEW c \in Clients PROVE ThreadOK(c) /\ ProgramOK(c)
  BY <1>3, EmptyView DEF Init, ServerInit, ThreadOK, ProgramOK
<1> QED
  BY <1>2, <1>4, <1>5 DEF IInv

\* A step leaves connection d alone.
Untouched(d) ==
    /\ pc'[d] = pc[d] /\ held'[d] = held[d]
    /\ login'[d] = login[d] /\ wire'[d] = wire[d] /\ broken'[d] = broken[d]
    /\ peer'[d] = peer[d] /\ orders'[d] = orders[d]
    /\ m_queue'[d] = m_queue[d]
    /\ d \in m_display_clients' <=> d \in m_display_clients

\* What holds of a connection keeps holding when a step leaves it and m_orders alone.
LEMMA UntouchedOK ==
    ASSUME NEW d \in Clients, ThreadOK(d), ProgramOK(d), m_orders' = m_orders, Untouched(d)
    PROVE  ThreadOK(d)' /\ ProgramOK(d)'
<1>1. Ahead(d, wire[d])' = Ahead(d, wire[d]) /\ Ahead(d, Tail(wire[d]))' = Ahead(d, Tail(wire[d]))
  BY DEF Untouched, Ahead
<1>2. Admitted(d, wire[d])' = Admitted(d, wire[d])
  BY <1>1 DEF Untouched, Admitted
<1>3. Admitted(d, Tail(wire[d]))' = Admitted(d, Tail(wire[d]))
  BY <1>1 DEF Untouched, Admitted
<1>4. LoginOK(d)' = LoginOK(d)
  BY <1>3 DEF Untouched, LoginOK
<1> QED
  BY <1>2, <1>4 DEF Untouched, ThreadOK, ProgramOK

\* A step of connection c.
LEMMA OneConnection ==
    ASSUME IInv, NEW c \in Clients, Types', ServerOK', m_orders' = m_orders,
           \A d \in Clients : d # c => Untouched(d),
           ThreadOK(c)', ProgramOK(c)'
    PROVE  IInv'
<1>1. ASSUME NEW d \in Clients PROVE ThreadOK(d)' /\ ProgramOK(d)'
  <2>1. CASE d = c
    BY <2>1
  <2>2. CASE d # c
    BY <2>2, UntouchedOK DEF IInv
  <2> QED
    BY <2>1, <2>2
<1> QED
  BY <1>1 DEF IInv

\* A step that leaves the server alone.
LEMMA ServerStays == ASSUME ServerOK, UNCHANGED serverVars PROVE ServerOK' /\ m_orders' = m_orders
BY DEF ServerOK, serverVars, TypeOK, Allocated

\* Messages from the wire or from the queue are messages.
LEMMA Sequences ==
    ASSUME IInv, NEW c \in Clients
    PROVE  wire[c] \in Seq(Sent) /\ held[c] \in Seq(Sent) /\ m_queue[c] \in Seq(Sent)
<1>1. m_queue[c] \in Seq(DisplayMessage)
  BY DEF IInv, ServerOK, TypeOK
<1>2. DisplayMessage \subseteq Sent
  BY DEF Sent
<1>3. m_queue[c] \in Seq(Sent)
  BY <1>1, <1>2
<1> QED
  BY <1>3 DEF IInv, Types

-----------------------------------------------------------------------------
(***************************************************************************)
(* Steps of the user, the network and the display program.                 *)
(***************************************************************************)
\* A new connection begins with an empty queue, an empty wire and an empty map.
LEMMA ConnectInv ==
    ASSUME IInv, NEW c \in Clients, NEW ok \in BOOLEAN, Connect(c, ok)
    PROVE  IInv'
<1> USE DEF Connect
<1>1. ServerOK' /\ m_orders' = m_orders
  BY ServerStays DEF IInv
<1>2. Types /\ ThreadOK(c) /\ ProgramOK(c) /\ pc[c] = "none"
  BY DEF IInv
<1>3. Types'
  <2>1. <<>> \in Seq(Sent) /\ (IF ok THEN "chat" ELSE "none") \in PC
    BY DEF PC
  <2> QED
    BY <1>2, <2>1 DEF Types, Logins
<1>4. \A d \in Clients : d # c => Untouched(d)
  BY <1>2 DEF Untouched, serverVars, Types
<1>5. /\ peer'[c] = "prompt" /\ orders'[c] = EmptyMap /\ login'[c] = "none"
      /\ wire'[c] = <<>> /\ held'[c] = held[c] /\ m_queue'[c] = m_queue[c]
      /\ pc'[c] \in {"chat", "none"} /\ m_display_clients' = m_display_clients
  BY <1>2 DEF Types, serverVars
<1>6. ThreadOK(c)'
  BY <1>2, <1>5 DEF ThreadOK
<1>7. ProgramOK(c)'
  BY <1>5, EmptyView, WireCapAssumption DEF ProgramOK
<1> QED
  BY <1>1, <1>3, <1>4, <1>6, <1>7, OneConnection

\* The LOGIN is the first thing on a connection.
LEMMA SendLoginInv ==
    ASSUME IInv, NEW c \in Clients, NEW credential \in Logins, SendLogin(c, credential)
    PROVE  IInv'
<1> USE DEF SendLogin
<1>1. ServerOK' /\ m_orders' = m_orders
  BY ServerStays DEF IInv
<1>2. Types /\ ThreadOK(c) /\ ProgramOK(c) /\ peer[c] = "prompt"
  BY DEF IInv
<1>3. Types'
  BY <1>2 DEF Types, threadVars
<1>4. \A d \in Clients : d # c => Untouched(d)
  BY <1>2 DEF Untouched, serverVars, threadVars, Types
<1>5. /\ peer'[c] = "login" /\ UNCHANGED <<wire, orders, pc, held, m_queue, m_display_clients>>
  BY <1>2 DEF Types, serverVars, threadVars
<1>6. ThreadOK(c)'
  BY <1>2, <1>5 DEF ThreadOK
<1>7. ProgramOK(c)'
  BY <1>2, <1>5 DEF ProgramOK, LoginOK
<1> QED
  BY <1>1, <1>3, <1>4, <1>6, <1>7, OneConnection

\* The program ends.
LEMMA EndInv ==
    ASSUME IInv, NEW c \in Clients, EndOfStream(c) \/ Kill(c)
    PROVE  IInv'
<1> USE DEF EndOfStream, Kill
<1>1. ServerOK' /\ m_orders' = m_orders
  BY ServerStays DEF IInv
<1>2. Types /\ ThreadOK(c) /\ ProgramOK(c)
  BY DEF IInv
<1>3. Types'
  <2>1. <<>> \in Seq(Sent)
    OBVIOUS
  <2> QED
    BY <1>2, <2>1 DEF Types, threadVars, netVars
<1>4. \A d \in Clients : d # c => Untouched(d)
  BY <1>2 DEF Untouched, serverVars, threadVars, netVars, Types
<1>5. /\ peer'[c] = "off" /\ UNCHANGED <<orders, pc, held, m_queue, m_display_clients>>
      /\ wire'[c] \in {wire[c], <<>>}
  BY <1>2 DEF Types, serverVars, threadVars, netVars
<1>6. ThreadOK(c)'
  BY <1>2, <1>5 DEF ThreadOK
<1>7. ProgramOK(c)'
  BY <1>2, <1>5, WireCapAssumption DEF ProgramOK
<1> QED
  BY <1>1, <1>3, <1>4, <1>6, <1>7, OneConnection

\* The connection breaks: the messages that are on the wire still arrive.
LEMMA BreakInv ==
    ASSUME IInv, NEW c \in Clients, ResetByPeer(c) \/ NetworkFails(c)
    PROVE  IInv'
<1> USE DEF ResetByPeer, NetworkFails
<1>1. ServerOK' /\ m_orders' = m_orders
  BY ServerStays DEF IInv
<1>2. Types /\ ThreadOK(c) /\ ProgramOK(c) /\ ~broken[c]
  BY DEF IInv
<1>3. Types'
  BY <1>2 DEF Types, threadVars, displayVars
<1>4. \A d \in Clients : d # c => Untouched(d)
  BY <1>2 DEF Untouched, serverVars, threadVars, displayVars, Types
<1>5. broken'[c] /\ UNCHANGED <<peer, orders, login, wire, pc, held, m_queue, m_display_clients>>
  BY <1>2 DEF Types, serverVars, threadVars, displayVars
<1>6. ThreadOK(c)'
  BY <1>2, <1>5 DEF ThreadOK
<1>7. ASSUME NEW w \in Seq(Sent), Admitted(c, w) PROVE Admitted(c, w)'
  <2>1. Follows(orders[c], w \o held[c] \o m_queue[c])
    BY <1>2, <1>7 DEF Admitted, Ahead
  <2>2. Follows(orders[c], w)
    BY <1>7, <2>1, Sequences, FollowsPrefix
  <2> QED
    BY <1>5, <1>7, <2>2 DEF Admitted, Ahead
<1>8. wire[c] \in Seq(Sent) /\ (wire[c] # <<>> => Tail(wire[c]) \in Seq(Sent))
  BY Sequences
<1>9. Admitted(c, wire[c]) => Admitted(c, wire[c])'
  BY <1>5, <1>7, <1>8 DEF Admitted, Ahead
<1>10. wire[c] # <<>> /\ Admitted(c, Tail(wire[c])) => Admitted(c, Tail(wire[c]))'
  BY <1>5, <1>7, <1>8 DEF Admitted, Ahead
<1>11. LoginOK(c) => LoginOK(c)'
  BY <1>5, <1>10 DEF LoginOK
<1>12. ProgramOK(c)'
  BY <1>2, <1>5, <1>9, <1>11 DEF ProgramOK
<1> QED
  BY <1>1, <1>3, <1>4, <1>6, <1>12, OneConnection

\* The answers differ.
LEMMA AnswersDiffer == OK # ERROR
BY DEF OK, ERROR

\* The first message is the answer to the LOGIN; an OK begins the watch.
LEMMA ReceiveReplyInv ==
    ASSUME IInv, NEW c \in Clients, ReceiveReply(c)
    PROVE  IInv'
<1> USE DEF ReceiveReply
<1>1. ServerOK' /\ m_orders' = m_orders
  BY ServerStays DEF IInv
<1>2. Types /\ ThreadOK(c) /\ ProgramOK(c) /\ peer[c] = "login" /\ wire[c] # <<>> /\ wire[c] \in Seq(Sent)
  BY Sequences DEF IInv
<1>3. Tail(wire[c]) \in Seq(Sent) /\ Len(Tail(wire[c])) <= WireCap
  BY <1>2, WireCapAssumption DEF ProgramOK
<1>4. Types'
  BY <1>2, <1>3 DEF Types, threadVars
<1>5. \A d \in Clients : d # c => Untouched(d)
  BY <1>2 DEF Untouched, serverVars, threadVars, Types
<1>6. wire'[c] = Tail(wire[c]) /\ UNCHANGED <<orders, login, broken, pc, held, m_queue, m_display_clients>>
  BY <1>2 DEF Types, serverVars, threadVars
<1>7. ThreadOK(c)'
  BY <1>2, <1>6 DEF ThreadOK
<1>8. CASE Head(wire[c]) = OK
  <2>1. peer'[c] = "watch"
    BY <1>2, <1>8 DEF Types
  <2>2. pc[c] # "chat" /\ Admitted(c, Tail(wire[c]))
    <3>1. wire[c] # <<ERROR>>
      BY <1>8, AnswersDiffer
    <3> QED
      BY <1>2, <3>1 DEF ProgramOK, LoginOK
  <2>3. Admitted(c, wire[c])'
    BY <1>1, <1>6, <2>2 DEF Admitted, Ahead
  <2>4. ProgramOK(c)'
    BY <1>2, <1>3, <1>6, <2>1, <2>2, <2>3 DEF ProgramOK
  <2> QED
    BY <1>1, <1>4, <1>5, <1>7, <2>4, OneConnection
<1>9. CASE Head(wire[c]) # OK
  <2>1. wire[c] = <<ERROR>>
    BY <1>2, <1>9 DEF ProgramOK, LoginOK
  <2>2. Head(wire[c]) = ERROR
    BY <2>1
  <2>3. peer'[c] = "off"
    BY <1>2, <1>9, <2>2 DEF Types
  <2>4. ProgramOK(c)'
    BY <1>2, <1>3, <1>6, <2>3 DEF ProgramOK
  <2> QED
    BY <1>1, <1>4, <1>5, <1>7, <2>4, OneConnection
<1> QED
  BY <1>8, <1>9

\* What Receive does to the display: it never rejects, and what it shows advances.
LEMMA ReceiveStep ==
    ASSUME IInv, NEW c \in Clients, Receive(c)
    PROVE  LET next == handle(Head(wire[c]), orders[c])
           IN  /\ orders' = [orders EXCEPT ![c] = next] /\ peer' = peer
               /\ ViewOK(next) /\ Advances(orders[c], next)
               /\ Follows(next, Ahead(c, Tail(wire[c])))
               /\ \A last : Leads(orders[c], Ahead(c, wire[c]), last) => Leads(next, Ahead(c, Tail(wire[c])), last)
<1> DEFINE msgs == Ahead(c, wire[c])
<1>1. peer[c] = "watch" /\ wire[c] # <<>>
  BY DEF Receive
<1>2. Follows(orders[c], msgs)
  BY <1>1 DEF IInv, ProgramOK, Admitted
<1>3. msgs \in Seq(Sent) /\ msgs # <<>> /\ Head(msgs) = Head(wire[c]) /\ Tail(msgs) = Ahead(c, Tail(wire[c]))
  <2>1. wire[c] \in Seq(Sent) /\ held[c] \in Seq(Sent) /\ m_queue[c] \in Seq(Sent)
    BY Sequences
  <2>2. CASE broken[c]
    BY <1>1, <2>1, <2>2 DEF Ahead
  <2>3. CASE ~broken[c]
    <3>1. msgs = wire[c] \o held[c] \o m_queue[c]
      BY <2>3 DEF Ahead
    <3>2. Ahead(c, Tail(wire[c])) = Tail(wire[c]) \o held[c] \o m_queue[c]
      BY <2>3 DEF Ahead
    <3>3. PICK w, h, q : w = wire[c] /\ h = held[c] /\ q = m_queue[c]
      OBVIOUS
    <3>4. w \in Seq(Sent) /\ h \in Seq(Sent) /\ q \in Seq(Sent) /\ w # <<>>
      BY <1>1, <2>1, <3>3
    <3>5. /\ w \o h \o q \in Seq(Sent) /\ w \o h \o q # <<>>
          /\ Head(w \o h \o q) = Head(w) /\ Tail(w \o h \o q) = Tail(w) \o h \o q
      BY ONLY <3>4, ReceiveSeq
    <3>6. msgs = w \o h \o q /\ Ahead(c, Tail(wire[c])) = Tail(w) \o h \o q /\ Head(w) = Head(wire[c])
      BY <3>1, <3>2, <3>3
    <3> HIDE DEF msgs
    <3> QED
      BY <3>5, <3>6
  <2> QED
    BY <2>2, <2>3
<1> HIDE DEF msgs
<1> DEFINE next == handle(Head(msgs), orders[c])
<1>4. /\ accepts(Head(msgs), orders[c]) /\ ViewOK(next) /\ Advances(orders[c], next)
      /\ Follows(next, Tail(msgs))
      /\ \A last : Leads(orders[c], msgs, last) => Leads(next, Tail(msgs), last)
  BY <1>2, <1>3, FollowsTail
<1>5. orders' = [orders EXCEPT ![c] = handle(Head(wire[c]), orders[c])] /\ peer' = peer
  BY <1>3, <1>4 DEF Receive
<1> QED
  BY <1>3, <1>4, <1>5 DEF msgs

\* A received message takes the display one link further along what is ahead of it.
LEMMA ReceiveInv ==
    ASSUME IInv, NEW c \in Clients, Receive(c)
    PROVE  IInv'
<1>1. ServerOK' /\ m_orders' = m_orders
  BY ServerStays DEF IInv, Receive
<1>2. Types /\ ThreadOK(c) /\ ProgramOK(c) /\ peer[c] = "watch" /\ wire[c] # <<>> /\ wire[c] \in Seq(Sent)
  BY Sequences DEF IInv, Receive
<1>3. Tail(wire[c]) \in Seq(Sent) /\ Len(Tail(wire[c])) <= WireCap
  BY <1>2, WireCapAssumption DEF ProgramOK
<1> DEFINE next == handle(Head(wire[c]), orders[c])
<1>4. /\ orders' = [orders EXCEPT ![c] = next] /\ peer' = peer
      /\ ViewOK(next) /\ Follows(next, Ahead(c, Tail(wire[c])))
      /\ \A last : Leads(orders[c], Ahead(c, wire[c]), last) => Leads(next, Ahead(c, Tail(wire[c])), last)
  BY ReceiveStep
<1> HIDE DEF next
<1>5. wire' = [wire EXCEPT ![c] = Tail(wire[c])] /\ UNCHANGED <<serverVars, threadVars, login, broken>>
  BY DEF Receive
<1>6. Types'
  BY <1>2, <1>3, <1>4, <1>5 DEF Types, threadVars
<1>7. \A d \in Clients : d # c => Untouched(d)
  BY <1>2, <1>4, <1>5 DEF Untouched, serverVars, threadVars, Types
<1>8. /\ wire'[c] = Tail(wire[c]) /\ orders'[c] = next
      /\ UNCHANGED <<peer, login, broken, pc, held, m_queue, m_display_clients>>
  BY <1>2, <1>4, <1>5 DEF Types, serverVars, threadVars
<1>9. ThreadOK(c)'
  BY <1>2, <1>8 DEF ThreadOK
<1>10. Admitted(c, wire[c]) /\ pc[c] # "chat" /\ pc[c] # "register"
  BY <1>2 DEF ProgramOK, Admitted
<1>11. Ahead(c, wire[c])' = Ahead(c, Tail(wire[c]))
  BY <1>8 DEF Ahead
<1>12. Admitted(c, wire[c])'
  BY <1>1, <1>4, <1>8, <1>10, <1>11 DEF Admitted
<1>13. ProgramOK(c)'
  BY <1>2, <1>3, <1>4, <1>8, <1>10, <1>12 DEF ProgramOK
<1> QED
  BY <1>1, <1>6, <1>7, <1>9, <1>13, OneConnection

-----------------------------------------------------------------------------
(***************************************************************************)
(* Steps of the Client's thread.                                           *)
(***************************************************************************)
\* What sending does to the wire.
LEMMA SendStep ==
    ASSUME Types, NEW c \in Clients, NEW msg \in Sent, SendSucceeds(c, msg), Len(wire[c]) <= WireCap
    PROVE  /\ ~broken[c]
           /\ wire' \in [Clients -> Seq(Sent)] /\ Len(wire'[c]) <= WireCap
           /\ \A d \in Clients : d # c => wire'[d] = wire[d]
           /\ peer[c] # "off" => wire'[c] = Append(wire[c], msg)
<1>1. wire[c] \in Seq(Sent) /\ wire \in [Clients -> Seq(Sent)] /\ ~broken[c]
  BY DEF Types, SendSucceeds
<1>2. Append(wire[c], msg) \in Seq(Sent) /\ Len(Append(wire[c], msg)) = Len(wire[c]) + 1
  BY <1>1, AppendSeq
<1>3. CASE peer[c] = "off"
  BY <1>1, <1>3 DEF SendSucceeds
<1>4. CASE peer[c] # "off"
  <2>1. Len(wire[c]) < WireCap /\ wire' = [wire EXCEPT ![c] = Append(wire[c], msg)]
    BY <1>4 DEF SendSucceeds
  <2>2. Len(wire[c]) \in Nat /\ WireCap \in Nat
    BY <1>1, WireCapAssumption
  <2>3. Len(wire[c]) + 1 <= WireCap
    BY <2>1, <2>2
  <2> QED
    BY <1>1, <1>2, <2>1, <2>3
<1> QED
  BY <1>3, <1>4

\* What a reply does to the wire.
LEMMA ReplyStep ==
    ASSUME Types, NEW c \in Clients, NEW msg \in Sent, Reply(c, msg), Len(wire[c]) <= WireCap
    PROVE  /\ wire' \in [Clients -> Seq(Sent)] /\ Len(wire'[c]) <= WireCap
           /\ \A d \in Clients : d # c => wire'[d] = wire[d]
           /\ peer[c] # "off" => \/ wire'[c] = wire[c] /\ broken[c]
                                 \/ wire'[c] = Append(wire[c], msg)
<1>1. CASE SendSucceeds(c, msg)
  BY <1>1, SendStep
<1>2. CASE SendFails(c) /\ UNCHANGED wire
  BY <1>2 DEF SendFails, Types
<1> QED
  BY <1>1, <1>2 DEF Reply

\* chat refuses or admits.
LEMMA chatInv ==
    ASSUME IInv, NEW c \in Clients, chat(c)
    PROVE  IInv'
<1>1. /\ UNCHANGED serverVars /\ pc[c] = "chat" /\ login[c] # "none"
      /\ login' = [login EXCEPT ![c] = "none"]
      /\ pc' = [pc EXCEPT ![c] = IF login[c] = "valid" THEN "register" ELSE "destroy"]
      /\ UNCHANGED <<held, broken, displayVars>>
  BY DEF chat
<1>2. ServerOK' /\ m_orders' = m_orders
  BY <1>1, ServerStays DEF IInv
<1>3. Types /\ ThreadOK(c) /\ ProgramOK(c) /\ wire[c] \in Seq(Sent)
  BY Sequences DEF IInv
<1>4. /\ wire' \in [Clients -> Seq(Sent)] /\ Len(wire'[c]) <= WireCap
      /\ \A d \in Clients : d # c => wire'[d] = wire[d]
      /\ peer[c] # "off" =>
            \/ wire'[c] = wire[c] /\ (login[c] = "malformed" \/ broken[c])
            \/ wire'[c] = Append(wire[c], ERROR) /\ login[c] = "invalid"
            \/ wire'[c] = Append(wire[c], OK) /\ login[c] = "valid"
  <2>1. OK \in Sent /\ ERROR \in Sent /\ Len(wire[c]) <= WireCap
    BY <1>3 DEF Sent, ProgramOK
  <2>2. CASE login[c] = "malformed" /\ UNCHANGED wire
    BY <1>3, <2>1, <2>2 DEF Types
  <2>3. CASE login[c] = "invalid" /\ Reply(c, ERROR)
    BY <1>3, <2>1, <2>3, ReplyStep
  <2>4. CASE login[c] = "valid" /\ Reply(c, OK)
    BY <1>3, <2>1, <2>4, ReplyStep
  <2> QED
    BY <2>2, <2>3, <2>4 DEF chat
<1>5. Types'
  BY <1>1, <1>3, <1>4 DEF Types, displayVars, PC, Logins
<1>6. \A d \in Clients : d # c => Untouched(d)
  BY <1>1, <1>3, <1>4 DEF Untouched, serverVars, displayVars, Types
<1>7. /\ pc'[c] = IF login[c] = "valid" THEN "register" ELSE "destroy"
      /\ login'[c] = "none"
      /\ UNCHANGED <<held, broken, peer, orders, m_queue, m_display_clients>>
  BY <1>1, <1>3 DEF Types, serverVars, displayVars
<1>8. ThreadOK(c)'
  BY <1>1, <1>3, <1>7 DEF ThreadOK
<1>9. held[c] = <<>> /\ m_queue[c] = <<>> /\ c \notin m_display_clients
  <2>1. Len(held[c]) = 0 /\ held[c] \in Seq(Sent)
    BY <1>1, <1>3, Sequences DEF ThreadOK
  <2>2. held[c] = <<>>
    BY <2>1
  <2> QED
    BY <1>1, <1>3, <2>2 DEF ThreadOK
<1>10. CASE peer[c] = "login"
  <2> SUFFICES ProgramOK(c)'
    BY <1>2, <1>5, <1>6, <1>8, OneConnection
  <2>1. wire[c] = <<>> /\ orders[c] = EmptyMap
    BY <1>1, <1>3, <1>10 DEF ProgramOK, LoginOK
  <2>2. CASE wire'[c] = wire[c] /\ (login[c] = "malformed" \/ broken[c])
    BY <1>3, <1>4, <1>7, <1>10, <2>1, <2>2 DEF ProgramOK, LoginOK
  <2>3. CASE wire'[c] = Append(wire[c], ERROR) /\ login[c] = "invalid"
    <3>1. wire'[c] = <<ERROR>>
      BY <2>1, <2>3
    <3> QED
      BY <1>3, <1>4, <1>7, <1>10, <2>1, <2>3, <3>1 DEF ProgramOK, LoginOK
  <2>4. CASE wire'[c] = Append(wire[c], OK) /\ login[c] = "valid"
    <3>1. wire'[c] # <<>> /\ Head(wire'[c]) = OK /\ Tail(wire'[c]) = <<>>
      BY <1>3, <2>1, <2>4, AppendSeq DEF Sent
    <3>2. Ahead(c, Tail(wire[c]))' = <<>>
      BY <1>7, <1>9, <3>1 DEF Ahead
    <3>3. Follows(EmptyMap, <<>>)
      BY EmptyView, FollowsNothing
    <3>4. Admitted(c, Tail(wire[c]))'
      BY <1>7, <1>9, <2>1, <2>4, <3>1, <3>2, <3>3 DEF Admitted
    <3> QED
      BY <1>3, <1>4, <1>7, <1>10, <2>1, <2>4, <3>1, <3>4 DEF ProgramOK, LoginOK
  <2> QED
    BY <1>4, <1>10, <2>2, <2>3, <2>4
<1>11. CASE peer[c] # "login"
  <2>1. peer[c] = "off"
    BY <1>1, <1>3, <1>11 DEF ProgramOK, Types
  <2>2. ProgramOK(c)'
    BY <1>3, <1>4, <1>7, <2>1 DEF ProgramOK
  <2> QED
    BY <1>2, <1>5, <1>6, <1>8, <2>2, OneConnection
<1> QED
  BY <1>10, <1>11

\* chat gives up before it has answered.
LEMMA chatReceiveFailsInv ==
    ASSUME IInv, NEW c \in Clients, chat_receive_fails(c)
    PROVE  IInv'
<1> USE DEF chat_receive_fails
<1>1. ServerOK' /\ m_orders' = m_orders
  BY ServerStays DEF IInv
<1>2. Types /\ ThreadOK(c) /\ ProgramOK(c) /\ pc[c] = "chat"
  BY DEF IInv
<1>3. Types'
  BY <1>2 DEF Types, netVars, displayVars, PC
<1>4. \A d \in Clients : d # c => Untouched(d)
  BY <1>2 DEF Untouched, serverVars, netVars, displayVars, Types
<1>5. pc'[c] = "destroy" /\ UNCHANGED <<held, login, wire, broken, peer, orders, m_queue, m_display_clients>>
  BY <1>2 DEF Types, serverVars, netVars, displayVars
<1>6. ThreadOK(c)'
  BY <1>2, <1>5 DEF ThreadOK
<1>7. ProgramOK(c)'
  BY <1>2, <1>5 DEF ProgramOK, LoginOK
<1> QED
  BY <1>1, <1>3, <1>4, <1>6, <1>7, OneConnection

\* Outside send, the thread has nothing in hand.
LEMMA HandEmpty ==
    ASSUME IInv, NEW c \in Clients, pc[c] # "send"
    PROVE  held[c] = <<>>
<1>1. Len(held[c]) = 0 /\ held[c] \in Seq(Sent)
  BY Sequences DEF IInv, ThreadOK
<1> QED
  BY <1>1

\* The server's part of the steps of a display's thread.
LEMMA ThreadServerStep ==
    ASSUME ServerOK, NEW c \in Clients,
           register_display(c) \/ unregister_display(c) \/ dequeue(c) \/ destroy_client(c)
    PROVE  ServerOK' /\ m_orders' = m_orders
<1>1. TypeOK' /\ m_orders' = m_orders
  BY DisplayStep DEF ServerOK
<1>2. m_next_order_id' = m_next_order_id
  BY DEF register_display, unregister_display, dequeue, destroy_client
<1> QED
  BY <1>1, <1>2 DEF ServerOK, Allocated

\* The snapshot takes a display that shows nothing to m_orders.
LEMMA RegisterInv ==
    ASSUME IInv, NEW c \in Clients, display_loop_register(c)
    PROVE  IInv'
<1>1. /\ register_display(c) /\ pc[c] = "register" /\ pc' = [pc EXCEPT ![c] = "dequeue"]
      /\ UNCHANGED <<held, netVars, displayVars>>
  BY DEF display_loop_register
<1>2. ServerOK' /\ m_orders' = m_orders
  BY <1>1, ThreadServerStep DEF IInv
<1>3. Types /\ ThreadOK(c) /\ ProgramOK(c) /\ ServerOK /\ m_queue \in [Clients -> Seq(DisplayMessage)]
  BY DEF IInv, ServerOK, TypeOK
<1>4. PICK ids \in MapOrder :
         m_queue' = [m_queue EXCEPT ![c] = m_queue[c] \o [k \in DOMAIN ids |-> DISP_ORDER(m_orders[ids[k]])]]
  BY <1>1 DEF register_display
<1>5. PICK snapshot :
         /\ snapshot \in Seq(DisplayMessage) /\ Leads(EmptyMap, snapshot, m_orders)
         /\ m_queue' = [m_queue EXCEPT ![c] = m_queue[c] \o snapshot]
  BY <1>3, <1>4, SnapshotLeads
<1>6. m_display_clients' = m_display_clients \cup {c}
  BY <1>1 DEF register_display
<1>7. Types'
  BY <1>1, <1>3 DEF Types, netVars, displayVars, PC
<1>8. \A d \in Clients : d # c => Untouched(d)
  BY <1>1, <1>3, <1>5, <1>6 DEF Untouched, netVars, displayVars, Types
<1>9. m_queue[c] = <<>> /\ held[c] = <<>>
  BY <1>1, <1>3, HandEmpty DEF ThreadOK
<1>10. m_queue'[c] = snapshot
  <2>1. m_queue'[c] = m_queue[c] \o snapshot
    BY <1>3, <1>5
  <2>2. <<>> \o snapshot = snapshot
    BY <1>5
  <2> QED
    BY <1>9, <2>1, <2>2
<1>11. pc'[c] = "dequeue" /\ c \in m_display_clients' /\ UNCHANGED <<held, login, wire, broken, peer, orders>>
  BY <1>1, <1>3, <1>6 DEF Types, netVars, displayVars
<1>12. ThreadOK(c)'
  BY <1>1, <1>3, <1>11 DEF ThreadOK
<1>13. ASSUME NEW w \in Seq(Sent), Admitted(c, w) PROVE Admitted(c, w)'
  <2>1. w = <<>> /\ orders[c] = EmptyMap
    BY <1>1, <1>13 DEF Admitted
  <2>2. CASE broken[c]
    BY <1>11, <1>13, <2>2 DEF Admitted, Ahead
  <2>3. CASE ~broken[c]
    <3>1. <<>> \o <<>> \o snapshot = snapshot
      BY <1>5
    <3>2. Ahead(c, w)' = snapshot
      BY <1>9, <1>10, <1>11, <2>1, <2>3, <3>1 DEF Ahead
    <3>3. Leads(orders[c], snapshot, m_orders) /\ Follows(orders[c], snapshot)
      BY <1>5, <2>1 DEF Follows
    <3> QED
      BY <1>2, <1>11, <3>2, <3>3 DEF Admitted
  <2> QED
    BY <2>2, <2>3
<1>14. wire[c] \in Seq(Sent) /\ (wire[c] # <<>> => Tail(wire[c]) \in Seq(Sent))
  BY Sequences
<1>15. Admitted(c, wire[c]) => Admitted(c, wire[c])'
  BY <1>11, <1>13, <1>14 DEF Admitted, Ahead
<1>16. wire[c] # <<>> /\ Admitted(c, Tail(wire[c])) => Admitted(c, Tail(wire[c]))'
  BY <1>11, <1>13, <1>14 DEF Admitted, Ahead
<1>17. LoginOK(c) => LoginOK(c)'
  BY <1>1, <1>11, <1>16 DEF LoginOK
<1>18. ProgramOK(c)'
  BY <1>1, <1>3, <1>11, <1>15, <1>17 DEF ProgramOK
<1> QED
  BY <1>2, <1>7, <1>8, <1>12, <1>18, OneConnection

\* The thread takes a message, or makes a heartbeat, to send next.
LEMMA NextMessageInv ==
    ASSUME IInv, NEW c \in Clients, display_loop_dequeue(c) \/ display_loop_timeout(c)
    PROVE  IInv'
<1>1. /\ pc[c] = "dequeue" /\ pc' = [pc EXCEPT ![c] = "send"]
      /\ UNCHANGED <<netVars, displayVars, m_display_clients>>
  BY DEF display_loop_dequeue, display_loop_timeout, dequeue, serverVars
<1>2. Types /\ ThreadOK(c) /\ ProgramOK(c) /\ ServerOK /\ m_queue \in [Clients -> Seq(DisplayMessage)]
  BY DEF IInv, ServerOK, TypeOK
<1>3. ServerOK' /\ m_orders' = m_orders
  BY <1>2, ThreadServerStep, ServerStays DEF display_loop_dequeue, display_loop_timeout
<1>4. held[c] = <<>>
  BY <1>1, HandEmpty
<1>5. PICK msg \in Sent : held' = [held EXCEPT ![c] = <<msg>>] /\
         \/ msg = DISP_HEARTBEAT /\ m_queue[c] = <<>> /\ m_queue' = m_queue
         \/ m_queue[c] # <<>> /\ msg = Head(m_queue[c]) /\ m_queue' = [m_queue EXCEPT ![c] = Tail(m_queue[c])]
  <2>1. DISP_HEARTBEAT \in Sent
    BY DEF Sent
  <2>2. m_queue[c] # <<>> => Head(m_queue[c]) \in Sent
    BY Sequences
  <2> QED
    BY <2>1, <2>2 DEF display_loop_dequeue, display_loop_timeout, dequeue, serverVars
<1>6. <<msg>> \in Seq(Sent) /\ Len(<<msg>>) = 1
  OBVIOUS
<1>7. Types'
  BY <1>1, <1>2, <1>5, <1>6 DEF Types, netVars, displayVars, PC
<1>8. \A d \in Clients : d # c => Untouched(d)
  BY <1>1, <1>2, <1>5 DEF Untouched, netVars, displayVars, Types
<1>9. pc'[c] = "send" /\ held'[c] = <<msg>> /\ UNCHANGED <<login, wire, broken, peer, orders, m_display_clients>>
  BY <1>1, <1>2, <1>5 DEF Types, netVars, displayVars
<1>10. ThreadOK(c)'
  BY <1>1, <1>2, <1>6, <1>9 DEF ThreadOK
<1>11. ASSUME NEW w \in Seq(Sent), Admitted(c, w) PROVE Admitted(c, w)'
  <2>1. CASE broken[c]
    BY <1>9, <1>11, <2>1 DEF Admitted, Ahead
  <2>2. CASE ~broken[c] /\ m_queue[c] = <<>>
    <3>1. Ahead(c, w) = w
      BY <1>4, <2>2, TimeoutSeq DEF Ahead
    <3>2. msg = DISP_HEARTBEAT /\ m_queue'[c] = <<>>
      BY <1>5, <2>2
    <3>3. Ahead(c, w)' = Append(w, DISP_HEARTBEAT)
      BY <1>9, <2>2, <3>2, TimeoutSeq DEF Ahead
    <3>4. Follows(orders[c], Append(w, DISP_HEARTBEAT))
      BY <1>11, <3>1, FollowsHeartbeat DEF Admitted
    <3>5. Leads(orders[c], w, m_orders) => Leads(orders[c], Append(w, DISP_HEARTBEAT), m_orders)
      BY LeadsHeartbeat
    <3> QED
      BY <1>3, <1>9, <1>11, <3>1, <3>3, <3>4, <3>5 DEF Admitted
  <2>3. CASE ~broken[c] /\ m_queue[c] # <<>>
    <3>1. msg = Head(m_queue[c]) /\ m_queue'[c] = Tail(m_queue[c])
      BY <1>2, <1>5, <2>3
    <3>2. w \o <<Head(m_queue[c])>> \o Tail(m_queue[c]) = w \o <<>> \o m_queue[c]
      BY <2>3, Sequences, DequeueSeq
    <3>3. Ahead(c, w)' = Ahead(c, w)
      BY <1>4, <1>9, <2>3, <3>1, <3>2 DEF Ahead
    <3> QED
      BY <1>1, <1>3, <1>9, <1>11, <3>3 DEF Admitted
  <2> QED
    BY <2>1, <2>2, <2>3
<1>12. wire[c] \in Seq(Sent) /\ (wire[c] # <<>> => Tail(wire[c]) \in Seq(Sent))
  BY Sequences
<1>13. Admitted(c, wire[c]) => Admitted(c, wire[c])'
  BY <1>9, <1>11, <1>12 DEF Admitted, Ahead
<1>14. wire[c] # <<>> /\ Admitted(c, Tail(wire[c])) => Admitted(c, Tail(wire[c]))'
  BY <1>9, <1>11, <1>12 DEF Admitted, Ahead
<1>15. LoginOK(c) => LoginOK(c)'
  BY <1>1, <1>9, <1>14 DEF LoginOK
<1>16. ProgramOK(c)'
  BY <1>1, <1>2, <1>9, <1>13, <1>15 DEF ProgramOK
<1> QED
  BY <1>3, <1>7, <1>8, <1>10, <1>16, OneConnection

\* A message moves from the hand to the wire, or the loop ends over a broken connection.
LEMMA SendInv ==
    ASSUME IInv, NEW c \in Clients, display_loop_send(c)
    PROVE  IInv'
<1>1. /\ pc[c] = "send" /\ held' = [held EXCEPT ![c] = <<>>]
      /\ UNCHANGED <<serverVars, login, broken, displayVars>>
      /\ \/ SendSucceeds(c, held[c][1]) /\ pc' = [pc EXCEPT ![c] = "dequeue"]
         \/ broken[c] /\ pc' = [pc EXCEPT ![c] = "unregister"] /\ wire' = wire
  BY DEF display_loop_send, SendFails
<1>2. ServerOK' /\ m_orders' = m_orders
  BY <1>1, ServerStays DEF IInv
<1>3. Types /\ ThreadOK(c) /\ ProgramOK(c) /\ <<>> \in Seq(Sent)
  BY DEF IInv
<1>4. PICK msg \in Sent : msg = held[c][1]
  BY <1>1, <1>3, Sequences, SendSeq DEF ThreadOK
<1>5. CASE broken[c]
  <2>1. pc' = [pc EXCEPT ![c] = "unregister"] /\ wire' = wire
    BY <1>1, <1>5 DEF SendSucceeds
  <2>2. Types'
    BY <1>1, <1>3, <2>1 DEF Types, displayVars, PC
  <2>3. \A d \in Clients : d # c => Untouched(d)
    BY <1>1, <1>3, <2>1 DEF Untouched, serverVars, displayVars, Types
  <2>4. /\ pc'[c] = "unregister" /\ held'[c] = <<>>
        /\ UNCHANGED <<login, wire, broken, peer, orders, m_queue, m_display_clients>>
    BY <1>1, <1>3, <2>1 DEF Types, serverVars, displayVars
  <2>5. ThreadOK(c)'
    BY <1>1, <1>3, <2>4 DEF ThreadOK
  <2>6. Admitted(c, wire[c]) => Admitted(c, wire[c])'
    BY <1>5, <2>4 DEF Admitted, Ahead
  <2>7. Admitted(c, Tail(wire[c])) => Admitted(c, Tail(wire[c]))'
    BY <1>5, <2>4 DEF Admitted, Ahead
  <2>8. LoginOK(c) => LoginOK(c)'
    BY <1>1, <2>4, <2>7 DEF LoginOK
  <2>9. ProgramOK(c)'
    BY <1>1, <1>3, <2>4, <2>6, <2>8 DEF ProgramOK
  <2> QED
    BY <1>2, <2>2, <2>3, <2>5, <2>9, OneConnection
<1>6. CASE ~broken[c]
  <2>1. SendSucceeds(c, msg) /\ pc' = [pc EXCEPT ![c] = "dequeue"]
    BY <1>1, <1>4, <1>6
  <2>2. /\ wire' \in [Clients -> Seq(Sent)] /\ Len(wire'[c]) <= WireCap
        /\ \A d \in Clients : d # c => wire'[d] = wire[d]
        /\ peer[c] # "off" => wire'[c] = Append(wire[c], msg)
    BY <1>3, <2>1, SendStep DEF ProgramOK
  <2>3. Types'
    BY <1>1, <1>3, <2>1, <2>2 DEF Types, displayVars, PC
  <2>4. \A d \in Clients : d # c => Untouched(d)
    BY <1>1, <1>3, <2>1, <2>2 DEF Untouched, serverVars, displayVars, Types
  <2>5. /\ pc'[c] = "dequeue" /\ held'[c] = <<>>
        /\ UNCHANGED <<login, broken, peer, orders, m_queue, m_display_clients>>
    BY <1>1, <1>3, <2>1 DEF Types, serverVars, displayVars
  <2>6. ThreadOK(c)'
    BY <1>1, <1>3, <2>5 DEF ThreadOK
  <2>7. ASSUME NEW w \in Seq(Sent), Admitted(c, w) PROVE Admitted(c, Append(w, msg))'
    <3>1. Append(w, msg) \o <<>> \o m_queue[c] = w \o held[c] \o m_queue[c]
      <4>1. PICK h \in Seq(Sent), q \in Seq(Sent) : h = held[c] /\ q = m_queue[c]
        BY Sequences
      <4>2. Len(h) = 1 /\ msg = h[1]
        BY <1>1, <1>3, <1>4, <4>1 DEF ThreadOK
      <4>3. Append(w, msg) \o <<>> \o q = w \o h \o q
        BY <4>2, SendSeq
      <4> QED
        BY <4>1, <4>3
    <3>2. Ahead(c, Append(w, msg))' = Ahead(c, w)
      BY <1>6, <2>5, <3>1 DEF Ahead
    <3> QED
      BY <1>1, <1>2, <2>5, <2>7, <3>2 DEF Admitted
  <2>8. wire[c] \in Seq(Sent) /\ (wire[c] # <<>> => Tail(wire[c]) \in Seq(Sent))
    BY Sequences
  <2>9. CASE peer[c] = "off"
    <3>1. ProgramOK(c)'
      BY <1>3, <2>2, <2>5, <2>9 DEF ProgramOK
    <3> QED
      BY <1>2, <2>3, <2>4, <2>6, <3>1, OneConnection
  <2>10. CASE peer[c] = "login"
    <3>1. wire[c] # <<>> /\ Head(wire[c]) = OK /\ Admitted(c, Tail(wire[c])) /\ orders[c] = EmptyMap
      BY <1>1, <1>3, <1>6, <2>10 DEF ProgramOK, LoginOK
    <3>2. wire'[c] # <<>> /\ Head(wire'[c]) = OK /\ Tail(wire'[c]) = Append(Tail(wire[c]), msg)
      <4>1. wire'[c] = Append(wire[c], msg)
        BY <2>2, <2>10
      <4>2. PICK w \in Seq(Sent) : w = wire[c]
        BY <2>8
      <4>3. /\ Append(w, msg) # <<>> /\ Head(Append(w, msg)) = Head(w)
            /\ Tail(Append(w, msg)) = Append(Tail(w), msg)
        BY <3>1, <4>2, AppendSeq
      <4> QED
        BY <3>1, <4>1, <4>2, <4>3
    <3>3. Admitted(c, Tail(wire[c]))'
      BY <2>5, <2>7, <2>8, <3>1, <3>2 DEF Admitted, Ahead
    <3>4. ProgramOK(c)'
      BY <1>3, <2>2, <2>5, <2>10, <3>1, <3>2, <3>3 DEF ProgramOK, LoginOK
    <3> QED
      BY <1>2, <2>3, <2>4, <2>6, <3>4, OneConnection
  <2>11. CASE peer[c] = "watch"
    <3>1. Admitted(c, wire[c])'
      <4>1. Admitted(c, wire[c]) /\ wire'[c] = Append(wire[c], msg)
        BY <1>3, <2>2, <2>11 DEF ProgramOK
      <4> QED
        BY <2>5, <2>7, <2>8, <4>1 DEF Admitted, Ahead
    <3>2. ProgramOK(c)'
      BY <1>3, <2>2, <2>5, <2>11, <3>1 DEF ProgramOK
    <3> QED
      BY <1>2, <2>3, <2>4, <2>6, <3>2, OneConnection
  <2>12. peer[c] \in {"off", "login", "watch"}
    BY <1>1, <1>3 DEF ProgramOK, Types
  <2> QED
    BY <2>9, <2>10, <2>11, <2>12
<1> QED
  BY <1>5, <1>6

\* The thread leaves: only over a broken connection.
LEMMA UnregisterInv ==
    ASSUME IInv, NEW c \in Clients, display_loop_unregister(c)
    PROVE  IInv'
<1>1. /\ unregister_display(c) /\ pc[c] = "unregister" /\ pc' = [pc EXCEPT ![c] = "destroy"]
      /\ UNCHANGED <<held, netVars, displayVars>>
  BY DEF display_loop_unregister
<1>2. ServerOK' /\ m_orders' = m_orders
  BY <1>1, ThreadServerStep DEF IInv
<1>3. Types /\ ThreadOK(c) /\ ProgramOK(c)
  BY DEF IInv
<1>4. m_display_clients' = m_display_clients \ {c} /\ m_queue' = m_queue
  BY <1>1 DEF unregister_display
<1>5. Types'
  BY <1>1, <1>3 DEF Types, netVars, displayVars, PC
<1>6. \A d \in Clients : d # c => Untouched(d)
  BY <1>1, <1>3, <1>4 DEF Untouched, netVars, displayVars, Types
<1>7. pc'[c] = "destroy" /\ UNCHANGED <<held, login, wire, broken, peer, orders>>
  BY <1>1, <1>3 DEF Types, netVars, displayVars
<1>8. ThreadOK(c)'
  BY <1>1, <1>3, <1>4, <1>7 DEF ThreadOK
<1>9. Admitted(c, wire[c]) => Admitted(c, wire[c])'
  BY <1>1, <1>4, <1>7 DEF Admitted, Ahead
<1>10. Admitted(c, Tail(wire[c])) => Admitted(c, Tail(wire[c]))'
  BY <1>1, <1>4, <1>7 DEF Admitted, Ahead
<1>11. LoginOK(c) => LoginOK(c)'
  BY <1>1, <1>7, <1>10 DEF LoginOK
<1>12. ProgramOK(c)'
  BY <1>1, <1>3, <1>7, <1>9, <1>11 DEF ProgramOK
<1> QED
  BY <1>2, <1>5, <1>6, <1>8, <1>12, OneConnection

\* The Client is deleted with its queue.
LEMMA ThreadEndInv ==
    ASSUME IInv, NEW c \in Clients, client_thread_end(c)
    PROVE  IInv'
<1>1. /\ destroy_client(c) /\ pc[c] = "destroy" /\ pc' = [pc EXCEPT ![c] = "none"]
      /\ login' = [login EXCEPT ![c] = "none"]
      /\ UNCHANGED <<held, wire, broken, displayVars>>
  BY DEF client_thread_end
<1>2. ServerOK' /\ m_orders' = m_orders
  BY <1>1, ThreadServerStep DEF IInv
<1>3. Types /\ ThreadOK(c) /\ ProgramOK(c) /\ m_queue \in [Clients -> Seq(DisplayMessage)]
  BY DEF IInv, ServerOK, TypeOK
<1>4. m_display_clients' = m_display_clients /\ m_queue' = [m_queue EXCEPT ![c] = <<>>]
  BY <1>1 DEF destroy_client
<1>5. Types'
  BY <1>1, <1>3 DEF Types, displayVars, PC
<1>6. \A d \in Clients : d # c => Untouched(d)
  BY <1>1, <1>3, <1>4 DEF Untouched, displayVars, Types
<1>7. /\ pc'[c] = "none" /\ login'[c] = "none" /\ m_queue'[c] = <<>>
      /\ UNCHANGED <<held, wire, broken, peer, orders>>
  BY <1>1, <1>3, <1>4 DEF Types, displayVars
<1>8. ThreadOK(c)'
  BY <1>1, <1>3, <1>4, <1>7 DEF ThreadOK
<1>9. Admitted(c, wire[c]) => Admitted(c, wire[c])'
  BY <1>1, <1>4, <1>7 DEF Admitted, Ahead
<1>10. Admitted(c, Tail(wire[c])) => Admitted(c, Tail(wire[c]))'
  BY <1>1, <1>4, <1>7 DEF Admitted, Ahead
<1>11. LoginOK(c) => LoginOK(c)'
  BY <1>1, <1>7, <1>10 DEF LoginOK
<1>12. ProgramOK(c)'
  BY <1>1, <1>3, <1>7, <1>9, <1>11 DEF ProgramOK
<1> QED
  BY <1>2, <1>5, <1>6, <1>8, <1>12, OneConnection

-----------------------------------------------------------------------------
(***************************************************************************)
(* Steps of the updaters, and the theorems.                                *)
(***************************************************************************)
\* A broadcast reaches every registered Client, behind all it has still to handle.
LEMMA UpdatersInv ==
    ASSUME IInv, Updaters
    PROVE  IInv'
<1>1. UpdaterRequest /\ UNCHANGED <<pc, held, login, wire, broken, peer, orders>>
  BY DEF Updaters, threadVars, netVars, displayVars
<1>2. Types /\ ServerOK /\ m_queue \in [Clients -> Seq(DisplayMessage)]
  BY DEF IInv, ServerOK, TypeOK
<1>3. Announces
  BY <1>1, <1>2, RequestsAnnounced
<1>4. ServerOK' /\ m_display_clients' = m_display_clients
  BY <1>3 DEF Announces
<1>5. PICK msgs \in Seq(Sent) : broadcast(msgs) /\ BringsUpToDate(msgs)
  <2>1. Seq(DisplayMessage) \subseteq Seq(Sent)
    BY DEF Sent
  <2> QED
    BY <1>3, <2>1 DEF Announces
<1>6. Types'
  BY <1>1, <1>2 DEF Types
<1>7. ASSUME NEW d \in Clients PROVE ThreadOK(d)' /\ ProgramOK(d)'
  <2>1. ThreadOK(d) /\ ProgramOK(d)
    BY DEF IInv
  <2>2. /\ d \in m_display_clients => m_queue'[d] = m_queue[d] \o msgs
        /\ d \notin m_display_clients => m_queue'[d] = m_queue[d]
    BY <1>5 DEF broadcast
  <2>3. ThreadOK(d)'
    BY <1>1, <1>4, <2>1, <2>2 DEF ThreadOK
  <2>4. ASSUME NEW w \in Seq(Sent), Admitted(d, w) PROVE Admitted(d, w)'
    <3>1. CASE broken[d]
      BY <1>1, <1>4, <2>4, <3>1 DEF Admitted, Ahead
    <3>2. CASE ~broken[d] /\ d \notin m_display_clients
      BY <1>1, <1>4, <2>2, <2>4, <3>2 DEF Admitted, Ahead
    <3>3. CASE ~broken[d] /\ d \in m_display_clients
      <4>1. PICK h \in Seq(Sent), q \in Seq(Sent) : h = held[d] /\ q = m_queue[d]
        BY Sequences
      <4>2. w \o h \o q \in Seq(Sent) /\ w \o h \o (q \o msgs) = (w \o h \o q) \o msgs
        BY BroadcastSeq
      <4>3. Leads(orders[d], w \o h \o q, m_orders)
        BY <2>4, <3>3, <4>1 DEF Admitted, Ahead
      <4>4. Leads(orders[d], (w \o h \o q) \o msgs, m_orders')
        BY <1>5, <4>2, <4>3 DEF BringsUpToDate
      <4>5. Ahead(d, w)' = (w \o h \o q) \o msgs
        BY <1>1, <2>2, <3>3, <4>1, <4>2 DEF Ahead
      <4> QED
        BY <1>1, <1>4, <2>4, <3>3, <4>4, <4>5 DEF Admitted, Follows
    <3> QED
      BY <3>1, <3>2, <3>3
  <2>5. wire[d] \in Seq(Sent) /\ (wire[d] # <<>> => Tail(wire[d]) \in Seq(Sent))
    BY Sequences
  <2>6. Admitted(d, wire[d]) => Admitted(d, wire[d])'
    BY <1>1, <2>4, <2>5 DEF Admitted, Ahead
  <2>7. wire[d] # <<>> /\ Admitted(d, Tail(wire[d])) => Admitted(d, Tail(wire[d]))'
    BY <1>1, <2>4, <2>5 DEF Admitted, Ahead
  <2>8. LoginOK(d) => LoginOK(d)'
    BY <1>1, <2>7 DEF LoginOK
  <2>9. ProgramOK(d)'
    BY <1>1, <2>1, <2>6, <2>8 DEF ProgramOK
  <2> QED
    BY <2>3, <2>9
<1> QED
  BY <1>4, <1>6, <1>7 DEF IInv

\* Every step preserves the invariant.
LEMMA NextInv == ASSUME IInv, [Next]_vars PROVE IInv'
<1>1. CASE Updaters
  BY <1>1, UpdatersInv
<1>2. ASSUME NEW c \in Clients, Thread(c) PROVE IInv'
  BY <1>2, chatInv, chatReceiveFailsInv, RegisterInv, NextMessageInv, SendInv, UnregisterInv, ThreadEndInv
     DEF Thread
<1>3. ASSUME NEW c \in Clients, Program(c) \/ User(c) PROVE IInv'
  BY <1>3, ReceiveReplyInv, ReceiveInv, EndInv, ConnectInv, SendLoginInv DEF Program, User
<1>4. ASSUME NEW c \in Clients, ResetByPeer(c) \/ NetworkFails(c) PROVE IInv'
  BY <1>4, BreakInv
<1>5. CASE UNCHANGED vars
  <2>1. /\ UNCHANGED serverVars
        /\ UNCHANGED <<pc, held, login, wire, broken, peer, orders, m_queue, m_display_clients>>
    BY <1>5 DEF vars, serverVars, threadVars, netVars, displayVars
  <2>2. ServerOK' /\ m_orders' = m_orders
    BY <2>1, ServerStays DEF IInv
  <2>3. Types'
    BY <2>1 DEF IInv, Types
  <2>4. \A d \in Clients : Untouched(d)
    BY <2>1 DEF Untouched
  <2> QED
    BY <2>2, <2>3, <2>4, UntouchedOK DEF IInv
<1> QED
  BY <1>1, <1>2, <1>3, <1>4, <1>5 DEF Next

\* The invariant holds always.
LEMMA Invariant == Spec => []IInv
<1>1. IInv /\ [Next]_vars => IInv'
  BY NextInv
<1> QED
  BY <1>1, InitInv, PTL DEF Spec

\* Threads, connections and programs are in the states the code has; a thread holds one
\* message just while it sends; the buffers hold no more than they can; and displays
\* show well-formed orders.
THEOREM KitchenTypeCorrect == Spec => []KitchenTypeOK
<1>1. ASSUME IInv PROVE KitchenTypeOK
  <2>1. \A c \in Clients : \A id \in DOMAIN orders[c] : orders[c][id] \in Order
    BY <1>1 DEF IInv, ProgramOK, ViewOK
  <2> QED
    BY <1>1, <2>1 DEF IInv, Types, ServerOK, ThreadOK, ProgramOK, KitchenTypeOK
<1> QED
  BY <1>1, Invariant, PTL

\* Server::broadcast never calls enqueue on a Client that has been deleted, whatever
\* ends a connection and whenever.
THEOREM NoUseAfterFree == Spec => []NoDanglingClient
<1>1. ASSUME IInv PROVE NoDanglingClient
  BY <1>1 DEF IInv, ServerOK, TypeOK, ThreadOK, NoDanglingClient
<1> QED
  BY <1>1, Invariant, PTL

\* The display program never meets a message that its handlers reject: every update
\* names an order and an item that it already knows.
THEOREM NeverRejects == Spec => []DisplayNeverRejects
<1>1. IInv => DisplayNeverRejects
  BY DEF IInv, ProgramOK, DisplayNeverRejects
<1> QED
  BY <1>1, Invariant, PTL

\* No display ever shows an order's status ahead of its items.
THEOREM NeverShownAhead == Spec => []ShownStatusNeverAhead
<1>1. IInv => ShownStatusNeverAhead
  BY DEF IInv, ProgramOK, ViewOK, ShownStatusNeverAhead
<1> QED
  BY <1>1, Invariant, PTL

\* Snapshot and broadcasts fit together without a gap or an overlap: what a connected
\* display shows, with the messages under way, is the server's m_orders.
THEOREM ViewConsistent == Spec => []ViewIsConsistent
<1>1. ASSUME IInv PROVE ViewIsConsistent
  <2> SUFFICES ASSUME NEW c \in Clients, Connected(c)
               PROVE  ViewAfter(orders[c], Pending(c)) = m_orders
    BY DEF ViewIsConsistent
  <2>1. Leads(orders[c], Pending(c), m_orders)
    BY <1>1 DEF Connected, IInv, ProgramOK, Admitted, Ahead, Pending
  <2>2. Len(Pending(c)) \in Nat
    <3>1. PICK w \in Seq(Sent), h \in Seq(Sent), q \in Seq(Sent) : w = wire[c] /\ h = held[c] /\ q = m_queue[c]
      BY <1>1, Sequences
    <3>2. w \o h \o q \in Seq(Sent)
      BY BroadcastSeq
    <3>3. Len(w \o h \o q) \in Nat
      BY <3>2
    <3> QED
      BY <3>1, <3>3 DEF Pending
  <2> QED
    BY <2>1, <2>2, LeadsViewAfter
<1> QED
  BY <1>1, Invariant, PTL

\* What a display shows only advances while it runs.
THEOREM ShownAdvances == Spec => ShownOrdersAdvance
<1> DEFINE Step == \A c \in Clients : peer[c] = "watch" /\ peer'[c] = "watch" =>
                       Advances(orders[c], orders'[c])
<1>1. ASSUME IInv, [Next]_vars PROVE [Step]_vars
  <2> SUFFICES ASSUME NEW d \in Clients, peer[d] = "watch" PROVE Advances(orders[d], orders'[d])
    OBVIOUS
  <2>1. Advances(orders[d], orders[d])
    BY <1>1, AdvancesSelf DEF IInv, ProgramOK
  <2>2. orders = [c \in Clients |-> orders[c]]
    BY <1>1 DEF IInv, Types
  <2>3. ASSUME NEW c \in Clients, Receive(c) PROVE Advances(orders[d], orders'[d])
    <3>1. PICK next : orders' = [orders EXCEPT ![c] = next] /\ Advances(orders[c], next)
      BY <1>1, <2>3, ReceiveStep
    <3> QED
      BY <2>1, <2>2, <3>1
  <2>4. ASSUME NEW c \in Clients, NEW ok \in BOOLEAN, Connect(c, ok) PROVE Advances(orders[d], orders'[d])
    BY <2>1, <2>2, <2>4 DEF Connect
  <2>5. CASE orders' = orders
    BY <2>1, <2>5
  <2>6. \/ \E c \in Clients : Receive(c) \/ \E ok \in BOOLEAN : Connect(c, ok)
        \/ orders' = orders
    <3>1. CASE Updaters \/ UNCHANGED vars
      BY <3>1 DEF Updaters, vars, displayVars
    <3>2. ASSUME NEW c \in Clients, Thread(c) PROVE orders' = orders
      BY <3>2 DEF Thread, chat, chat_receive_fails, display_loop_register, display_loop_dequeue,
            display_loop_timeout, display_loop_send, display_loop_unregister, client_thread_end, displayVars
    <3>3. ASSUME NEW c \in Clients, Program(c) \/ User(c), ~Receive(c), \A ok \in BOOLEAN : ~Connect(c, ok)
          PROVE  orders' = orders
      BY <3>3 DEF Program, User, ReceiveReply, EndOfStream, SendLogin, Kill
    <3>4. ASSUME NEW c \in Clients, ResetByPeer(c) \/ NetworkFails(c) PROVE orders' = orders
      BY <3>4 DEF ResetByPeer, NetworkFails, displayVars
    <3> QED
      BY <1>1, <3>1, <3>2, <3>3, <3>4 DEF Next
  <2> QED
    BY <2>3, <2>4, <2>5, <2>6
<1> QED
  BY <1>1, Invariant, PTL DEF Spec, ShownOrdersAdvance
=============================================================================
