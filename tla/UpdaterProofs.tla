--------------------------- MODULE UpdaterProofs ----------------------------
(***************************************************************************)
(* Proofs about UpdaterSession, for any number of updaters, sessions and   *)
(* orders: an update is acknowledged to one updater only, and what was     *)
(* acknowledged stays true.                                                *)
(***************************************************************************)
EXTENDS UpdaterSession, ServerProofs

-----------------------------------------------------------------------------
(***************************************************************************)
(* The inductive invariant.                                                *)
(***************************************************************************)
\* One request at a time: what can be under way in each state of the program, so that
\* the reply the program reads belongs to the request it waits for.
Session(u) ==
    /\ prog[u] = "off" => reply[u] = None
    /\ prog[u] = "prompt" =>
          pc[u] \in {"none", "chat", "destroy"} /\ request[u] = None /\ reply[u] = None
    /\ prog[u] = "login" =>
          /\ pc[u] # "process"
          /\ reply[u] # None => request[u] = None /\ pc[u] # "chat"
          /\ pc[u] = "receive" => request[u] = None
    /\ prog[u] = "command" =>
          pc[u] \in {"none", "receive", "destroy"} /\ request[u] = None /\ reply[u] = None
    /\ prog[u] = "wait" =>
          /\ pc[u] # "chat"
          /\ request[u] # None => request[u] = asked[u] /\ msg[u] = None /\ reply[u] = None
          /\ msg[u] # None => msg[u] = asked[u] /\ reply[u] = None
    /\ pc[u] = "receive" => request[u] # LOGIN("invalid")
    /\ pc[u] = "process" => request[u] = None

\* Order ids are given out once.
Allocated == \A id \in DOMAIN m_orders : id < m_next_order_id

\* An OK is on its way to updater u for update r.
OnItsWay(u, r) == asked[u] = r /\ reply[u] = OK

\* Of each update at most one acknowledgement has arrived or is on its way, and then
\* it holds.
Acknowledgements ==
    \A r \in Updates :
        /\ acks[r] <= 1
        /\ acks[r] > 0 => Holds(r)
        /\ \A u \in Updaters : OnItsWay(u, r) => Holds(r) /\ acks[r] = 0
        /\ \A u, v \in Updaters : OnItsWay(u, r) /\ OnItsWay(v, r) => u = v

SessionsOK ==
    /\ UpdaterTypeOK /\ asked \in [Updaters -> Requests \cup {None}]
    /\ \A u \in Updaters : Session(u)

IInv == TypeOK /\ Allocated /\ SessionsOK /\ Acknowledgements

-----------------------------------------------------------------------------
(***************************************************************************)
(* Requests and replies.                                                   *)
(***************************************************************************)
\* The replies differ from each other and from none at all.
LEMMA RepliesDiffer == OK # None /\ ERROR # None /\ OK # ERROR
BY DEF OK, ERROR, None

\* No request is none at all.
LEMMA RequestsNotNone == None \notin Requests \cup LoginRequests
<1>1. \A o, i, s : ITEM_UPDATE(o, i, s) # None
  BY DEF ITEM_UPDATE, None
<1>2. \A o, s : ORDER_UPDATE(o, s) # None
  BY DEF ORDER_UPDATE, None
<1>3. \A items : ORDER_NEW(items) # None
  BY DEF ORDER_NEW, None
<1>4. QUIT # None /\ MALFORMED # None /\ \A c : LOGIN(c) # None
  BY DEF QUIT, MALFORMED, LOGIN, None
<1> QED
  BY <1>1, <1>2, <1>3, <1>4 DEF Requests, LoginRequests, Updates

\* What updater_loop may receive can also come from chat's peer, but for two.
LEMMA LoginsAreRequests == LoginRequests \ {LOGIN("invalid")} \subseteq Requests
BY DEF LoginRequests, Requests

\* No command of updater_main is a LOGIN with a wrong password.
LEMMA InvalidLoginNotRequested == LOGIN("invalid") \notin Requests
<1>1. \A o, i, s : ITEM_UPDATE(o, i, s) # LOGIN("invalid")
  BY DEF ITEM_UPDATE, LOGIN
<1>2. \A o, s : ORDER_UPDATE(o, s) # LOGIN("invalid")
  BY DEF ORDER_UPDATE, LOGIN
<1>3. \A items : ORDER_NEW(items) # LOGIN("invalid")
  BY DEF ORDER_NEW, LOGIN
<1>4. QUIT # LOGIN("invalid") /\ MALFORMED # LOGIN("invalid") /\ LOGIN("valid") # LOGIN("invalid")
  BY DEF QUIT, MALFORMED, LOGIN
<1> QED
  BY <1>1, <1>2, <1>3, <1>4 DEF Requests, Updates

\* The fields of the requests that change the server.
LEMMA RequestFields ==
    ASSUME NEW r \in Requests
    PROVE  /\ r.type = "ORDER_NEW" => r.items \in NewOrders
           /\ r.type = "ITEM_UPDATE" =>
                 /\ r \in Updates /\ r.order_id \in OrderIds
                 /\ r.item_id \in ItemIds /\ r.item_status \in ItemStatus
           /\ r.type = "ORDER_UPDATE" =>
                 r \in Updates /\ r.order_id \in OrderIds /\ r.order_status \in OrderStatus
           /\ r \in Updates <=> r.type \in {"ITEM_UPDATE", "ORDER_UPDATE"}
           /\ r = QUIT => r.type = "QUIT"
<1>1. CASE r \in {ITEM_UPDATE(o, i, s) : o \in OrderIds, i \in ItemIds, s \in ItemStatus}
  <2>1. PICK o \in OrderIds, i \in ItemIds, s \in ItemStatus : r = ITEM_UPDATE(o, i, s)
    BY <1>1
  <2>2. /\ r.type = "ITEM_UPDATE" /\ r.order_id = o /\ r.item_id = i /\ r.item_status = s
        /\ r # QUIT
    BY <2>1 DEF ITEM_UPDATE, QUIT
  <2>3. r \in Updates
    BY <1>1 DEF Updates
  <2> QED
    BY <2>2, <2>3
<1>2. CASE r \in {ORDER_UPDATE(o, s) : o \in OrderIds, s \in OrderStatus}
  <2>1. PICK o \in OrderIds, s \in OrderStatus : r = ORDER_UPDATE(o, s)
    BY <1>2
  <2>2. r.type = "ORDER_UPDATE" /\ r.order_id = o /\ r.order_status = s /\ r # QUIT
    BY <2>1 DEF ORDER_UPDATE, QUIT
  <2>3. r \in Updates
    BY <1>2 DEF Updates
  <2> QED
    BY <2>2, <2>3
<1>3. CASE r \notin Updates
  <2>1. \/ \E items \in NewOrders : r = ORDER_NEW(items)
        \/ r \in {QUIT, MALFORMED, LOGIN("valid")}
    BY <1>3 DEF Requests
  <2> QED
    BY <1>3, <2>1 DEF ORDER_NEW, QUIT, MALFORMED, LOGIN
<1> QED
  BY <1>1, <1>2, <1>3 DEF Updates

\* The order of the statuses.
LEMMA RankValues == Rank["NEW"] = 0 /\ Rank["IN_PROGRESS"] = 1 /\ Rank["DONE"] = 2
BY DEF Rank

\* An item's status rises by one.
LEMMA TransitionRises ==
    ASSUME NEW s \in ItemStatus, NEW from \in ItemStatus, ItemTransition(from, s)
    PROVE  Rank[s] \in Nat /\ Rank[from] \in Nat /\ Rank[s] > Rank[from]
BY RankValues DEF ItemTransition, ItemStatus

\* The fields of an update.
LEMMA UpdateFields ==
    ASSUME NEW r \in Updates
    PROVE  r.order_id \in Nat /\ (r.type = "ITEM_UPDATE" => Rank[r.item_status] \in Nat)
<1>1. r \in Requests
  BY DEF Requests
<1>2. r.order_id \in OrderIds /\ (r.type = "ITEM_UPDATE" => r.item_status \in ItemStatus)
  BY <1>1, RequestFields
<1> QED
  BY <1>2, RankValues, MaxOrderIdAssumption DEF OrderIds, FirstOrderId, ItemStatus

-----------------------------------------------------------------------------
(***************************************************************************)
(* What the server's operations do to updates that have been carried out.  *)
(***************************************************************************)
\* The statuses of the items of an order are item statuses.
LEMMA ItemStatuses ==
    ASSUME NEW order \in Order, NEW i \in DOMAIN order.items
    PROVE  order.items[i].status \in ItemStatus /\ i \in Nat
<1>1. order.items \in Seq(Item)
  BY DEF Order
<1>2. order.items[i] \in Item /\ i \in Nat
  BY <1>1
<1> QED
  BY <1>2 DEF Item

\* An ORDER_NEW takes an id that was not given out before.
LEMMA NewOrderKeeps ==
    ASSUME TypeOK, Allocated, NEW items \in NewOrders, process_new_order(items)
    PROVE  Allocated' /\ \A r \in Updates : Holds(r) => Holds(r)'
<1>1. /\ m_next_order_id \in Nat /\ m_next_order_id' = m_next_order_id + 1
      /\ m_orders' = Put(m_orders, m_next_order_id, StoredOrder(m_next_order_id, items))
  BY DEF process_new_order, TypeOK
<1>2. DOMAIN m_orders \subseteq Nat
  BY DEF TypeOK, Id
<1>3. /\ DOMAIN m_orders' = DOMAIN m_orders \cup {m_next_order_id}
      /\ \A id \in DOMAIN m_orders : id # m_next_order_id => m_orders'[id] = m_orders[id]
  BY <1>1 DEF Put
<1>4. Allocated'
  BY <1>1, <1>2, <1>3 DEF Allocated
<1>5. ASSUME NEW r \in Updates, Holds(r) PROVE Holds(r)'
  <2>1. r.order_id < m_next_order_id' /\ r.order_id # m_next_order_id
    BY <1>1, <1>5, UpdateFields DEF Holds
  <2> QED
    BY <1>3, <1>5, <2>1 DEF Holds
<1> QED
  BY <1>4, <1>5

\* An accepted ITEM_UPDATE did not hold before, holds afterwards, and no update that
\* held stops to hold.
LEMMA ItemUpdateKeeps ==
    ASSUME TypeOK, Allocated, NEW o \in DOMAIN m_orders, NEW item_id, NEW s \in ItemStatus,
           process_item_update(o, item_id, s)
    PROVE  /\ Allocated'
           /\ \A r \in Updates : Holds(r) => Holds(r)'
           /\ \A r : r.type = "ITEM_UPDATE" /\ r.order_id = o /\ r.item_id = item_id /\ r.item_status = s
                        => ~Holds(r) /\ Holds(r)'
<1>1. PICK i \in find_item(m_orders[o], item_id) :
        /\ ItemTransition(m_orders[o].items[i].status, s)
        /\ LET order == set_item_status(m_orders[o], i, s)
           IN  m_orders' = [m_orders EXCEPT ![o] = set_status(order, AutoStatus(order, s))]
  BY DEF process_item_update
<1> DEFINE order == set_item_status(m_orders[o], i, s)
           new   == set_status(order, AutoStatus(order, s))
<1>2. m_orders[o] \in Order
  BY DEF TypeOK
<1>3. i \in DOMAIN m_orders[o].items /\ m_orders[o].items[i].id = item_id
  BY <1>1, FindItemIndex
<1>4. /\ order \in Order
      /\ DOMAIN order.items = DOMAIN m_orders[o].items
      /\ order.items[i].status = s
      /\ \A j \in DOMAIN m_orders[o].items :
            /\ order.items[j].id = m_orders[o].items[j].id
            /\ j # i => order.items[j].status = m_orders[o].items[j].status
  BY <1>2, <1>3, SetItemStatusType
<1>5. new.items = order.items
  BY <1>4, AutoStatusType, SetStatusType
<1>6. m_orders' = [m_orders EXCEPT ![o] = new] /\ m_next_order_id' = m_next_order_id
  BY <1>1 DEF process_item_update
<1> HIDE DEF order, new
<1>7. DOMAIN m_orders' = DOMAIN m_orders /\ m_orders'[o] = new
      /\ \A id \in DOMAIN m_orders : id # o => m_orders'[id] = m_orders[id]
  BY <1>6
<1>8. \A id : find_item(new, id) = find_item(m_orders[o], id)
  BY <1>4, <1>5 DEF find_item
<1>9. Rank[s] \in Nat /\ Rank[m_orders[o].items[i].status] \in Nat
      /\ Rank[s] > Rank[m_orders[o].items[i].status]
  BY <1>1, <1>2, <1>3, ItemStatuses, TransitionRises
<1>10. Allocated'
  BY <1>6, <1>7 DEF Allocated
<1>11. ASSUME NEW r \in Updates, Holds(r) PROVE Holds(r)'
  <2>1. CASE r.order_id # o
    BY <1>6, <1>7, <1>11, <2>1 DEF Holds
  <2>2. CASE r.order_id = o
    <3>1. PICK j \in find_item(m_orders[o], r.item_id) :
             Rank[m_orders[o].items[j].status] >= Rank[r.item_status]
      BY <1>11, <2>2 DEF Holds
    <3>2. j \in find_item(new, r.item_id) /\ j \in DOMAIN m_orders[o].items
      BY <1>8, <3>1, FindItemIndex
    <3>3. Rank[new.items[j].status] >= Rank[r.item_status]
      <4>1. CASE j # i
        BY <1>4, <1>5, <3>1, <3>2, <4>1
      <4>2. CASE j = i
        <5>1. Rank[r.item_status] \in Nat
          BY <1>11, <2>2, UpdateFields DEF Holds
        <5> QED
          BY <1>4, <1>5, <1>9, <3>1, <4>2, <5>1
      <4> QED
        BY <4>1, <4>2
    <3> QED
      BY <1>6, <1>7, <1>11, <2>2, <3>2, <3>3 DEF Holds
  <2> QED
    BY <2>1, <2>2
<1>12. ASSUME NEW r, r.type = "ITEM_UPDATE", r.order_id = o, r.item_id = item_id, r.item_status = s
       PROVE  ~Holds(r) /\ Holds(r)'
  <2>1. ~Holds(r)
    <3>1. ASSUME NEW j \in find_item(m_orders[o], item_id) PROVE j = i
      <4>1. i \in Nat /\ j \in Nat
        BY <1>2, FindItemIndex, ItemStatuses
      <4> QED
        BY <4>1 DEF find_item
    <3> QED
      BY <1>9, <1>12, <3>1 DEF Holds
  <2>2. o < m_next_order_id
    BY DEF Allocated
  <2>3. i \in find_item(new, item_id) /\ Rank[new.items[i].status] >= Rank[s]
    BY <1>4, <1>5, <1>8, <1>9
  <2> QED
    BY <1>6, <1>7, <1>12, <2>1, <2>2, <2>3 DEF Holds
<1> QED
  BY <1>10, <1>11, <1>12

\* An accepted ORDER_UPDATE did not hold before and holds afterwards.
LEMMA OrderUpdateKeeps ==
    ASSUME TypeOK, Allocated, NEW o \in DOMAIN m_orders, NEW s, process_order_update(o, s)
    PROVE  /\ Allocated'
           /\ \A r \in Updates : Holds(r) => Holds(r)'
           /\ \A r : r.type = "ORDER_UPDATE" /\ r.order_id = o => ~Holds(r) /\ Holds(r)'
<1>1. m_orders' = Erase(m_orders, o) /\ m_next_order_id' = m_next_order_id
  BY DEF process_order_update
<1>2. DOMAIN m_orders' = DOMAIN m_orders \ {o} /\ \A id \in DOMAIN m_orders' : m_orders'[id] = m_orders[id]
  BY <1>1 DEF Erase
<1>3. Allocated'
  BY <1>1, <1>2 DEF Allocated
<1>4. ASSUME NEW r \in Updates, Holds(r) PROVE Holds(r)'
  BY <1>1, <1>2, <1>4 DEF Holds
<1>5. ASSUME NEW r, r.type = "ORDER_UPDATE", r.order_id = o PROVE ~Holds(r) /\ Holds(r)'
  BY <1>1, <1>2, <1>5 DEF Holds, Allocated
<1> QED
  BY <1>3, <1>4, <1>5

-----------------------------------------------------------------------------
(***************************************************************************)
(* The sessions.                                                           *)
(***************************************************************************)
\* The program's steps keep to one request at a time.
LEMMA ProgramSessions ==
    ASSUME SessionsOK, NEW u \in Updaters, Program(u) \/ User(u) \/ NetworkFails(u)
    PROVE  SessionsOK'
<1> USE RepliesDiffer, RequestsNotNone DEF SessionsOK, UpdaterTypeOK, Session
<1>1. CASE Connect(u)
  BY <1>1 DEF Connect
<1>2. CASE Exit(u)
  BY <1>2 DEF Exit, threadVars
<1>3. ASSUME NEW login \in LoginRequests, SendLogin(u, login) PROVE SessionsOK'
  BY <1>3 DEF SendLogin, threadVars
<1>4. ASSUME NEW r \in Requests, SendRequest(u, r) PROVE SessionsOK'
  <2>1. /\ prog[u] = "command" /\ r # None
        /\ prog' = [prog EXCEPT ![u] = "wait"]
        /\ asked' = [asked EXCEPT ![u] = r]
        /\ request' = [request EXCEPT ![u] = r]
        /\ UNCHANGED <<pc, msg, reply, broken, acks>>
    BY <1>4 DEF SendRequest, threadVars
  <2>2. pc[u] \in {"none", "receive", "destroy"} /\ reply[u] = None /\ msg[u] = None
    BY <2>1
  <2>3. r # LOGIN("invalid")
    BY <1>4, InvalidLoginNotRequested
  <2> QED
    BY <1>4, <2>1, <2>2, <2>3
<1>5. CASE ReceiveLoginReply(u)
  BY <1>5 DEF ReceiveLoginReply, threadVars
<1>6. CASE ReceiveReply(u)
  BY <1>6 DEF ReceiveReply, threadVars
<1>7. CASE EndOfStream(u)
  BY <1>7 DEF EndOfStream, threadVars, netVars
<1>8. CASE NetworkFails(u)
  <2>1. /\ broken' = [broken EXCEPT ![u] = TRUE]
        /\ request' = [request EXCEPT ![u] = None] \/ request' = request
        /\ UNCHANGED <<pc, msg, reply, prog, asked, acks>>
    BY <1>8 DEF NetworkFails, threadVars, progVars
  <2>2. LOGIN("invalid") # None
    BY DEF LOGIN, None
  <2> QED
    BY <2>1, <2>2
<1> QED
  BY <1>1, <1>2, <1>3, <1>4, <1>5, <1>6, <1>7, <1>8 DEF Program, User

\* So do the thread's.
LEMMA ThreadSessions ==
    ASSUME SessionsOK, NEW u \in Updaters, Thread(u)
    PROVE  SessionsOK'
<1> USE RepliesDiffer, RequestsNotNone DEF SessionsOK, UpdaterTypeOK, Session
<1>0. LOGIN("invalid") # None
  BY DEF LOGIN, None
<1>1. CASE chat(u)
  <2>1. /\ pc[u] = "chat" /\ request[u] # None
        /\ request' = [request EXCEPT ![u] = None]
        /\ \E next \in {"receive", "destroy"} : pc' = [pc EXCEPT ![u] = next]
        /\ \/ reply' = reply
           \/ prog[u] # "off" /\ \E m \in {OK, ERROR} : reply' = [reply EXCEPT ![u] = m]
        /\ UNCHANGED <<msg, broken, prog, asked, acks>>
    BY <1>1 DEF chat, send_message, progVars
  <2>2. prog[u] \in {"off", "login", "prompt"} /\ prog[u] # "prompt"
    BY <2>1
  <2> QED
    BY <1>0, <2>1, <2>2
<1>2. CASE receive_fails(u)
  BY <1>2 DEF receive_fails, netVars, progVars
<1>3. CASE updater_loop_receive(u)
  BY <1>3, LoginsAreRequests DEF updater_loop_receive, progVars
<1>4. ASSUME NEW m \in {OK, ERROR}, NEW next \in {"receive", "destroy"}, Answer(u, m, next)
      PROVE  SessionsOK'
  <2>1. /\ pc[u] = "process"
        /\ pc' = [pc EXCEPT ![u] = next]
        /\ msg' = [msg EXCEPT ![u] = None]
        /\ \/ reply' = reply
           \/ prog[u] # "off" /\ reply' = [reply EXCEPT ![u] = m]
        /\ UNCHANGED <<request, broken, prog, asked, acks>>
    BY <1>4 DEF Answer, send_message, progVars
  <2>2. prog[u] \in {"off", "wait"} /\ request[u] = None
    BY <2>1
  <2> QED
    BY <1>0, <2>1, <2>2
<1>5. CASE client_thread_end(u)
  BY <1>5 DEF client_thread_end, progVars
<1> QED
  BY <1>1, <1>2, <1>3, <1>4, <1>5 DEF Thread, updater_loop_quit, updater_loop_order_new,
     updater_loop_item_update, updater_loop_order_update, updater_loop_unexpected

-----------------------------------------------------------------------------
(***************************************************************************)
(* The acknowledgements.                                                   *)
(***************************************************************************)
\* A step that sends no OK for an update and delivers none.
LEMMA NoNewAck ==
    ASSUME IInv, \A r \in Updates : Holds(r) => Holds(r)', UNCHANGED acks,
           \A u \in Updaters, r \in Updates : OnItsWay(u, r)' => OnItsWay(u, r)
    PROVE  Acknowledgements'
BY DEF IInv, Acknowledgements

\* A step that carries out an update and may send OK for it.
LEMMA OneNewAck ==
    ASSUME IInv, \A r \in Updates : Holds(r) => Holds(r)', UNCHANGED acks,
           NEW w \in Updaters, NEW q \in Updates, ~Holds(q), Holds(q)',
           \A u \in Updaters, r \in Updates : OnItsWay(u, r)' => OnItsWay(u, r) \/ (u = w /\ r = q)
    PROVE  Acknowledgements'
<1>1. acks[q] = 0 /\ \A u \in Updaters : ~OnItsWay(u, q)
  BY DEF IInv, Acknowledgements, SessionsOK, UpdaterTypeOK
<1> QED
  BY <1>1 DEF IInv, Acknowledgements

\* When the program reads an OK it is counted once, and no other is on its way.
LEMMA ReceiveAck ==
    ASSUME IInv, NEW w \in Updaters, ReceiveReply(w)
    PROVE  Acknowledgements'
<1>1. /\ prog[w] = "wait" /\ reply[w] # None
      /\ reply' = [reply EXCEPT ![w] = None]
      /\ asked' = [asked EXCEPT ![w] = None]
      /\ acks' = IF reply[w] = OK /\ asked[w] \in Updates
                 THEN [acks EXCEPT ![asked[w]] = @ + 1] ELSE acks
      /\ UNCHANGED serverVars
  BY DEF ReceiveReply
<1>2. \A r \in Updates : Holds(r)' <=> Holds(r)
  BY <1>1 DEF Holds, serverVars
<1>3. \A u \in Updaters, r \in Updates : OnItsWay(u, r)' <=> OnItsWay(u, r) /\ u # w
  BY <1>1, RepliesDiffer DEF OnItsWay, IInv, SessionsOK, UpdaterTypeOK
<1>4. CASE reply[w] = OK /\ asked[w] \in Updates
  <2> DEFINE q == asked[w]
  <2>1. OnItsWay(w, q) /\ acks[q] = 0 /\ Holds(q) /\ \A u \in Updaters : OnItsWay(u, q) => u = w
    BY <1>4 DEF OnItsWay, IInv, Acknowledgements
  <2>2. PICK r0 \in Updates : r0 = q
    BY <1>4
  <2>3. \A r \in Updates : acks'[r] = IF r = r0 THEN 1 ELSE acks[r]
    BY <1>1, <1>4, <2>1, <2>2 DEF IInv, SessionsOK, UpdaterTypeOK
  <2>4. acks[r0] = 0 /\ Holds(r0) /\ \A u \in Updaters : OnItsWay(u, r0) => u = w
    BY <2>1, <2>2
  <2> QED
    BY <1>2, <1>3, <2>3, <2>4 DEF IInv, Acknowledgements
<1>5. CASE ~(reply[w] = OK /\ asked[w] \in Updates)
  BY <1>1, <1>2, <1>3, <1>5, NoNewAck
<1> QED
  BY <1>4, <1>5

\* The answer to a request reaches only the updater that asked for it.
LEMMA AnswerReaches ==
    ASSUME IInv, NEW w \in Updaters, NEW m \in {OK, ERROR}, NEW next, Answer(w, m, next)
    PROVE  /\ UNCHANGED acks
           /\ msg[w] \in Requests
           /\ \A u \in Updaters, r \in Updates :
                 OnItsWay(u, r)' => OnItsWay(u, r) \/ (u = w /\ r = msg[w] /\ m = OK)
<1>1. /\ pc[w] = "process"
      /\ \/ reply' = reply
         \/ prog[w] # "off" /\ reply' = [reply EXCEPT ![w] = m]
      /\ UNCHANGED <<prog, asked, acks>>
  BY DEF Answer, send_message, progVars
<1>2. msg[w] # None /\ msg[w] \in Requests
  BY <1>1 DEF IInv, SessionsOK, UpdaterTypeOK
<1>3. prog[w] # "off" => asked[w] = msg[w]
  BY <1>1, <1>2 DEF IInv, SessionsOK, UpdaterTypeOK, Session
<1> QED
  BY <1>1, <1>2, <1>3 DEF OnItsWay, IInv, SessionsOK, UpdaterTypeOK

\* A carried out request, and its answer, preserve the server's part and the
\* acknowledgements.
LEMMA RequestKeeps ==
    ASSUME IInv, NEW w \in Updaters,
           \/ updater_loop_quit(w) \/ updater_loop_order_new(w) \/ updater_loop_item_update(w)
           \/ updater_loop_order_update(w) \/ updater_loop_unexpected(w)
    PROVE  TypeOK' /\ Allocated' /\ Acknowledgements'
<1> USE RepliesDiffer
<1>0. TypeOK /\ Allocated
  BY DEF IInv
<1>1. ASSUME UNCHANGED serverVars
      PROVE  TypeOK' /\ Allocated' /\ \A r \in Updates : Holds(r) => Holds(r)'
  BY <1>0, <1>1 DEF serverVars, TypeOK, Allocated, Holds
<1>2. ASSUME UNCHANGED serverVars, NEW next, Answer(w, ERROR, next)
      PROVE  TypeOK' /\ Allocated' /\ Acknowledgements'
  BY <1>1, <1>2, AnswerReaches, NoNewAck
<1>3. CASE updater_loop_quit(w)
  <2>1. msg[w] = QUIT /\ Answer(w, OK, "destroy") /\ UNCHANGED serverVars
    BY <1>3 DEF updater_loop_quit
  <2>2. msg[w] \in Requests /\ msg[w] \notin Updates
    BY <2>1, AnswerReaches, RequestFields
  <2> QED
    BY <1>1, <2>1, <2>2, AnswerReaches, NoNewAck
<1>4. CASE updater_loop_order_new(w)
  <2>1. msg[w].type = "ORDER_NEW" /\ process_new_order(msg[w].items) /\ Answer(w, OK, "receive")
    BY <1>4 DEF updater_loop_order_new
  <2>2. msg[w] \in Requests /\ msg[w] \notin Updates /\ msg[w].items \in NewOrders
    BY <2>1, AnswerReaches, RequestFields
  <2>3. TypeOK' /\ Allocated' /\ \A r \in Updates : Holds(r) => Holds(r)'
    BY <1>0, <2>1, <2>2, NewOrderStep, NewOrderKeeps
  <2> QED
    BY <2>1, <2>2, <2>3, AnswerReaches, NoNewAck
<1>5. CASE updater_loop_item_update(w)
  <2> DEFINE q == msg[w]
  <2>1. CASE process_item_update(q.order_id, q.item_id, q.item_status) /\ Answer(w, OK, "receive")
    <3>1. q \in Updates /\ q.item_id \in Id /\ q.item_status \in ItemStatus /\ q.type = "ITEM_UPDATE"
      BY <1>5, <2>1, AnswerReaches, RequestFields, ItemIdsAreIds DEF updater_loop_item_update
    <3>2. q.order_id \in DOMAIN m_orders
      BY <2>1 DEF process_item_update
    <3>3. PICK r0 \in Updates : r0 = q
      BY <3>1
    <3>4. /\ r0.item_id \in Id /\ r0.item_status \in ItemStatus /\ r0.type = "ITEM_UPDATE"
          /\ r0.order_id \in DOMAIN m_orders
          /\ process_item_update(r0.order_id, r0.item_id, r0.item_status)
      BY <2>1, <3>1, <3>2, <3>3
    <3>5. TypeOK'
      BY <1>0, <3>4, ItemUpdateStep
    <3>6. Allocated' /\ (\A r \in Updates : Holds(r) => Holds(r)') /\ ~Holds(r0) /\ Holds(r0)'
      BY <1>0, <3>4, ItemUpdateKeeps
    <3> QED
      BY <2>1, <3>3, <3>5, <3>6, AnswerReaches, OneNewAck
  <2>2. CASE Answer(w, ERROR, "receive") /\ UNCHANGED serverVars
    BY <1>2, <2>2
  <2> QED
    BY <1>5, <2>1, <2>2 DEF updater_loop_item_update
<1>6. CASE updater_loop_order_update(w)
  <2> DEFINE q == msg[w]
  <2>1. CASE process_order_update(q.order_id, q.order_status) /\ Answer(w, OK, "receive")
    <3>1. q \in Updates /\ q.type = "ORDER_UPDATE"
      BY <1>6, <2>1, AnswerReaches, RequestFields DEF updater_loop_order_update
    <3>2. PICK r0 \in Updates : r0 = q
      BY <3>1
    <3>3. /\ r0.type = "ORDER_UPDATE" /\ r0.order_id \in DOMAIN m_orders
          /\ process_order_update(r0.order_id, r0.order_status)
      BY <2>1, <3>1, <3>2 DEF process_order_update
    <3>4. TypeOK'
      BY <1>0, <3>3, OrderUpdateStep
    <3>5. Allocated' /\ (\A r \in Updates : Holds(r) => Holds(r)') /\ ~Holds(r0) /\ Holds(r0)'
      BY <1>0, <3>3, OrderUpdateKeeps
    <3> QED
      BY <2>1, <3>2, <3>4, <3>5, AnswerReaches, OneNewAck
  <2>2. CASE Answer(w, ERROR, "receive") /\ UNCHANGED serverVars
    BY <1>2, <2>2
  <2> QED
    BY <1>6, <2>1, <2>2 DEF updater_loop_order_update
<1>7. CASE updater_loop_unexpected(w)
  BY <1>2, <1>7 DEF updater_loop_unexpected
<1> QED
  BY <1>3, <1>4, <1>5, <1>6, <1>7

-----------------------------------------------------------------------------
(***************************************************************************)
(* The theorems.                                                           *)
(***************************************************************************)
\* Nothing has happened yet.
LEMMA InitIInv == Init => IInv
<1> SUFFICES ASSUME Init PROVE IInv
  OBVIOUS
<1>1. TypeOK /\ Allocated
  BY InitType DEF Init, ServerInit, EmptyMap, Allocated
<1>2. SessionsOK
  BY DEF Init, SessionsOK, UpdaterTypeOK, Session
<1>3. Acknowledgements
  BY RepliesDiffer DEF Init, Acknowledgements, OnItsWay
<1> QED
  BY <1>1, <1>2, <1>3 DEF IInv

\* Every step preserves the invariant.
LEMMA NextInv ==
    ASSUME IInv, [Next]_vars
    PROVE  IInv'
<1>1. ASSUME UNCHANGED serverVars
      PROVE  TypeOK' /\ Allocated' /\ \A r \in Updates : Holds(r)' <=> Holds(r)
  BY <1>1 DEF IInv, serverVars, TypeOK, Allocated, Holds
<1>2. ASSUME NEW u \in Updaters, Thread(u) PROVE IInv'
  <2>1. SessionsOK'
    BY <1>2, ThreadSessions DEF IInv
  <2>2. ASSUME UNCHANGED <<serverVars, prog, asked, acks>>,
               reply' = reply \/ (asked[u] \notin Updates /\ \E m : reply' = [reply EXCEPT ![u] = m])
        PROVE  IInv'
    <3>1. \A v \in Updaters, r \in Updates : OnItsWay(v, r)' => OnItsWay(v, r)
      BY <2>2 DEF OnItsWay, IInv, SessionsOK, UpdaterTypeOK
    <3> QED
      BY <1>1, <2>1, <2>2, <3>1, NoNewAck DEF IInv
  <2>3. CASE chat(u)
    <3>1. /\ pc[u] = "chat" /\ UNCHANGED <<serverVars, prog, asked, acks>>
          /\ reply' = reply \/ \E m : reply' = [reply EXCEPT ![u] = m]
      BY <2>3 DEF chat, send_message, progVars
    <3>2. asked[u] = None
      BY <3>1 DEF IInv, SessionsOK, UpdaterTypeOK, Session
    <3>3. None \notin Updates
      BY RequestsNotNone DEF Requests
    <3> QED
      BY <2>2, <3>1, <3>2, <3>3
  <2>4. CASE receive_fails(u) \/ updater_loop_receive(u) \/ client_thread_end(u)
    BY <2>2, <2>4 DEF receive_fails, updater_loop_receive, client_thread_end, netVars, progVars
  <2> QED
    BY <1>2, <2>1, <2>3, <2>4, RequestKeeps DEF Thread, IInv
<1>3. ASSUME NEW u \in Updaters, Program(u) \/ User(u) \/ NetworkFails(u) PROVE IInv'
  <2>1. SessionsOK'
    BY <1>3, ProgramSessions DEF IInv
  <2>2. UNCHANGED serverVars
    BY <1>3 DEF Program, User, NetworkFails, Connect, Exit, SendLogin, SendRequest, ReceiveLoginReply,
       ReceiveReply, EndOfStream
  <2>3. CASE ReceiveReply(u)
    BY <1>1, <2>1, <2>2, <2>3, ReceiveAck DEF IInv
  <2>4. ASSUME UNCHANGED acks, \A v \in Updaters, r \in Updates : OnItsWay(v, r)' => OnItsWay(v, r)
        PROVE  IInv'
    BY <1>1, <2>1, <2>2, <2>4, NoNewAck DEF IInv
  <2>5. CASE Connect(u) \/ Exit(u) \/ ReceiveLoginReply(u) \/ EndOfStream(u)
    BY <2>4, <2>5, RepliesDiffer, RequestsNotNone DEF Connect, Exit, ReceiveLoginReply, EndOfStream, netVars,
       OnItsWay, IInv, SessionsOK, UpdaterTypeOK, Requests
  <2>6. CASE (\E login \in LoginRequests : SendLogin(u, login)) \/ NetworkFails(u)
    BY <2>4, <2>6 DEF SendLogin, NetworkFails, progVars, OnItsWay
  <2>7. ASSUME NEW r \in Requests, SendRequest(u, r) PROVE IInv'
    <3>1. /\ prog[u] = "command" /\ asked' = [asked EXCEPT ![u] = r] /\ UNCHANGED <<reply, acks>>
      BY <2>7 DEF SendRequest
    <3>2. reply[u] = None
      BY <3>1 DEF IInv, SessionsOK, Session
    <3> QED
      BY <2>4, <3>1, <3>2, RepliesDiffer DEF OnItsWay, IInv, SessionsOK, UpdaterTypeOK
  <2> QED
    BY <1>3, <2>3, <2>5, <2>6, <2>7 DEF Program, User
<1>4. CASE UNCHANGED vars
  <2>1. TypeOK' /\ Allocated' /\ \A r \in Updates : Holds(r)' <=> Holds(r)
    BY <1>1, <1>4 DEF vars
  <2>2. SessionsOK'
    BY <1>4 DEF vars, threadVars, netVars, progVars, IInv, SessionsOK, UpdaterTypeOK, Session
  <2>3. UNCHANGED acks /\ \A v \in Updaters, r \in Updates : OnItsWay(v, r)' => OnItsWay(v, r)
    BY <1>4 DEF vars, netVars, progVars, OnItsWay
  <2> QED
    BY <2>1, <2>2, <2>3, NoNewAck DEF IInv
<1> QED
  BY <1>2, <1>3, <1>4 DEF Next

\* The invariant holds in every reachable state.
LEMMA Invariance == Spec => []IInv
<1>1. IInv /\ [Next]_vars => IInv'
  BY NextInv
<1> QED
  BY <1>1, InitIInv, PTL DEF Spec

\* Sessions, requests and replies keep their types: a thread works on a decodable
\* request exactly while it processes one, and a program waits exactly while it has
\* asked for something.
THEOREM UpdaterTypeCorrect == Spec => []UpdaterTypeOK
<1>1. IInv => UpdaterTypeOK
  BY DEF IInv, SessionsOK
<1> QED
  BY <1>1, Invariance, PTL

\* However many updaters race for the same status change, over however many sessions
\* and with whatever failures, at most one is told "Success".
THEOREM AtMostOneWinner == Spec => []OneWinner
<1>1. IInv => OneWinner
  BY DEF IInv, Acknowledgements, OneWinner
<1> QED
  BY <1>1, Invariance, PTL

\* What an updater was told succeeded is never undone by other updaters.
THEOREM AcknowledgedStays == Spec => []AcknowledgedUpdatesHold
<1>1. IInv => AcknowledgedUpdatesHold
  BY DEF IInv, Acknowledgements, AcknowledgedUpdatesHold
<1> QED
  BY <1>1, Invariance, PTL

\* However many updaters and sessions there are, and wherever connections break, a request
\* gets at most one response, and a program reads only the response to its own request.
THEOREM OneResponse == Spec => []OneResponsePerRequest
<1>1. ASSUME IInv PROVE OneResponsePerRequest
  <2>1. SUFFICES ASSUME NEW u \in Updaters
                 PROVE  /\ prog[u] \in {"prompt", "command"} => request[u] = None /\ msg[u] = None /\ reply[u] = None
                        /\ prog[u] # "off" /\ reply[u] # None => request[u] = None /\ msg[u] = None
                        /\ prog[u] = "wait" => request[u] \in {asked[u], None} /\ msg[u] \in {asked[u], None}
    BY DEF OneResponsePerRequest
  <2>2. Session(u)
    BY <1>1 DEF IInv, SessionsOK
  <2>3. pc[u] # "process" => msg[u] = None
    BY <1>1 DEF IInv, SessionsOK, UpdaterTypeOK
  <2>4. prog[u] \in {"off", "prompt", "login", "command", "wait"}
    BY <1>1 DEF IInv, SessionsOK, UpdaterTypeOK
  <2> QED
    BY <2>2, <2>3, <2>4 DEF Session
<1> QED
  BY <1>1, Invariance, PTL
=============================================================================
