--------------------------- MODULE KitchenDisplay ---------------------------
(***************************************************************************)
(* The path of an order from the server to the kitchen's displays: the     *)
(* Server, the thread of each display connection (server_loop,             *)
(* client_thread_start, Client::chat, Client::display_loop), the TCP       *)
(* connection, and the display program (display_main.cpp).  Each member of *)
(* Clients is a slot: one connection after another uses it, each with a    *)
(* Client object of its own.  Updaters act through Server!UpdaterRequest.  *)
(***************************************************************************)
EXTENDS Server, DisplayClient

CONSTANT WireCap      \* bound: messages a connection's socket buffers hold

ASSUME WireCapAssumption == WireCap \in Nat \ {0}

VARIABLES
    pc,       \* next step of the Client's thread; "none": no Client object
    held,     \* <<msg>> that display_loop is about to send, or <<>>
    login,    \* the LOGIN request on its way: "none" or one of Logins
    wire,     \* messages sent and not yet received by the display
    broken,   \* the server's writes to and reads from the socket fail
    peer,     \* the display program: "off" when it is not running
    orders    \* its orders map

threadVars == <<pc, held>>

netVars == <<login, wire, broken>>

displayVars == <<peer, orders>>

vars == <<serverVars, threadVars, netVars, displayVars>>

\* A credential in the database, another one, one holding a '|'.
Logins == {"valid", "invalid", "malformed"}

PC == {"none", "chat", "register", "dequeue", "send", "unregister", "destroy"}

KitchenTypeOK ==
    /\ TypeOK
    /\ pc \in [Clients -> PC]
    /\ \A c \in Clients : Len(held[c]) = IF pc[c] = "send" THEN 1 ELSE 0
    /\ login \in [Clients -> Logins \cup {"none"}]
    /\ \A c \in Clients : Len(wire[c]) <= WireCap
    /\ broken \in [Clients -> BOOLEAN]
    /\ peer \in [Clients -> {"off", "prompt", "login", "watch", "rejected"}]
    /\ \A c \in Clients : \A id \in DOMAIN orders[c] : orders[c][id] \in Order

Init ==
    /\ ServerInit
    /\ pc = [c \in Clients |-> "none"]
    /\ held = [c \in Clients |-> <<>>]
    /\ login = [c \in Clients |-> "none"]
    /\ wire = [c \in Clients |-> <<>>]
    /\ broken = [c \in Clients |-> FALSE]
    /\ peer = [c \in Clients |-> "off"]
    /\ orders = [c \in Clients |-> EmptyMap]

-----------------------------------------------------------------------------
(***************************************************************************)
(* The display program and its user.                                       *)
(***************************************************************************)
\* connect_to_server, accept, and for `ok' a new Client with a thread; without,
\* server_loop closes the connection again (new Client or pthread_create failed).
Connect(c, ok) ==
    /\ peer[c] = "off" /\ pc[c] = "none"
    /\ peer' = [peer EXCEPT ![c] = "prompt"]
    /\ orders' = [orders EXCEPT ![c] = EmptyMap]
    /\ pc' = [pc EXCEPT ![c] = IF ok THEN "chat" ELSE "none"]
    /\ login' = [login EXCEPT ![c] = "none"]
    /\ wire' = [wire EXCEPT ![c] = <<>>]
    /\ broken' = [broken EXCEPT ![c] = FALSE]
    /\ UNCHANGED <<serverVars, held>>

\* The user has typed credentials; the LOGIN request is sent.
SendLogin(c, credential) ==
    /\ peer[c] = "prompt"
    /\ peer' = [peer EXCEPT ![c] = "login"]
    /\ login' = [login EXCEPT ![c] = credential]
    /\ UNCHANGED <<serverVars, threadVars, wire, broken, orders>>

\* The response to LOGIN.
ReceiveReply(c) ==
    /\ peer[c] = "login" /\ wire[c] # <<>>
    /\ wire' = [wire EXCEPT ![c] = Tail(@)]
    /\ peer' = [peer EXCEPT ![c] = IF Head(wire[c]) = OK THEN "watch"
                                   ELSE IF Head(wire[c]) = ERROR THEN "off" ELSE "rejected"]
    /\ UNCHANGED <<serverVars, threadVars, login, broken, orders>>

\* One round of the main loop.
Receive(c) ==
    /\ peer[c] = "watch" /\ wire[c] # <<>>
    /\ wire' = [wire EXCEPT ![c] = Tail(@)]
    /\ IF accepts(Head(wire[c]), orders[c])
       THEN /\ orders' = [orders EXCEPT ![c] = handle(Head(wire[c]), @)]
            /\ UNCHANGED peer
       ELSE /\ peer' = [peer EXCEPT ![c] = "rejected"]
            /\ UNCHANGED orders
    /\ UNCHANGED <<serverVars, threadVars, login, broken>>

\* receive_message meets the end of the stream: IOException, exit.
EndOfStream(c) ==
    /\ peer[c] \in {"login", "watch"} /\ wire[c] = <<>>
    /\ pc[c] = "none" \/ broken[c]
    /\ peer' = [peer EXCEPT ![c] = "off"]
    /\ UNCHANGED <<serverVars, threadVars, netVars, orders>>

\* The user stops the display, or its machine dies.
Kill(c) ==
    /\ peer[c] # "off"
    /\ peer' = [peer EXCEPT ![c] = "off"]
    /\ wire' = [wire EXCEPT ![c] = <<>>]
    /\ UNCHANGED <<serverVars, threadVars, login, broken, orders>>

\* The display's machine, or TCP's retransmission limit, resets a connection
\* nobody reads any more.
ResetByPeer(c) ==
    /\ peer[c] = "off" /\ pc[c] # "none" /\ ~broken[c]
    /\ broken' = [broken EXCEPT ![c] = TRUE]
    /\ UNCHANGED <<serverVars, threadVars, login, wire, displayVars>>

\* The network breaks a connection in use.
NetworkFails(c) ==
    /\ peer[c] # "off" /\ pc[c] # "none" /\ ~broken[c]
    /\ broken' = [broken EXCEPT ![c] = TRUE]
    /\ UNCHANGED <<serverVars, threadVars, login, wire, displayVars>>

-----------------------------------------------------------------------------
(***************************************************************************)
(* The Client's thread.                                                    *)
(***************************************************************************)
\* send_message: false on a broken connection; a message to a display that is
\* gone is lost in the socket's buffer; a full buffer blocks.  A send that fails because
\* the text is too long (module Wire) takes the same path: NetworkFails just before it.
SendFails(c) == broken[c]

SendSucceeds(c, msg) ==
    /\ ~broken[c]
    /\ IF peer[c] = "off" THEN UNCHANGED wire
       ELSE Len(wire[c]) < WireCap /\ wire' = [wire EXCEPT ![c] = Append(@, msg)]

\* A reply whose fate the caller ignores.
Reply(c, msg) == SendSucceeds(c, msg) \/ (SendFails(c) /\ UNCHANGED wire)

\* Faulty variant for mutation testing: bad credentials are ignored in silence.
chat_waits_for_another(c) ==
    /\ pc[c] = "chat" /\ login[c] # "none"
    /\ login' = [login EXCEPT ![c] = "none"]
    /\ \/ login[c] # "valid" /\ UNCHANGED <<pc, wire>>
       \/ login[c] = "valid" /\ Reply(c, OK) /\ pc' = [pc EXCEPT ![c] = "register"]
    /\ UNCHANGED <<serverVars, held, broken, displayVars>>

\* chat receives the LOGIN.  The result of sending the reply is ignored.
chat(c) ==
    /\ pc[c] = "chat" /\ login[c] # "none"
    /\ login' = [login EXCEPT ![c] = "none"]
    /\ \/ login[c] = "malformed" /\ UNCHANGED wire
       \/ login[c] = "invalid" /\ Reply(c, ERROR)
       \/ login[c] = "valid" /\ Reply(c, OK)
    /\ pc' = [pc EXCEPT ![c] = IF login[c] = "valid" THEN "register" ELSE "destroy"]
    /\ UNCHANGED <<serverVars, held, broken, displayVars>>

\* chat's IO::receive throws: the connection ended before the LOGIN.
chat_receive_fails(c) ==
    /\ pc[c] = "chat"
    /\ peer[c] = "off" \/ broken[c]
    /\ pc' = [pc EXCEPT ![c] = "destroy"]
    /\ UNCHANGED <<serverVars, held, netVars, displayVars>>

display_loop_register(c) ==
    /\ pc[c] = "register"
    /\ register_display(c)
    /\ pc' = [pc EXCEPT ![c] = "dequeue"]
    /\ UNCHANGED <<held, netVars, displayVars>>

display_loop_dequeue(c) ==
    /\ pc[c] = "dequeue"
    /\ dequeue(c)
    /\ held' = [held EXCEPT ![c] = <<Head(m_queue[c])>>]
    /\ pc' = [pc EXCEPT ![c] = "send"]
    /\ UNCHANGED <<netVars, displayVars>>

\* dequeue timed out: a heartbeat instead.
display_loop_timeout(c) ==
    /\ pc[c] = "dequeue" /\ m_queue[c] = <<>>
    /\ held' = [held EXCEPT ![c] = <<DISP_HEARTBEAT>>]
    /\ pc' = [pc EXCEPT ![c] = "send"]
    /\ UNCHANGED <<serverVars, netVars, displayVars>>

\* Faulty variants for mutation testing: the loop ignores a failed send; the message is
\* not released after one.
display_loop_send_forever(c) ==
    /\ pc[c] = "send"
    /\ Reply(c, held[c][1])
    /\ pc' = [pc EXCEPT ![c] = "dequeue"]
    /\ held' = [held EXCEPT ![c] = <<>>]
    /\ UNCHANGED <<serverVars, login, broken, displayVars>>

display_loop_send_keeps_msg(c) ==
    /\ pc[c] = "send"
    /\ \/ SendSucceeds(c, held[c][1]) /\ pc' = [pc EXCEPT ![c] = "dequeue"] /\ held' = [held EXCEPT ![c] = <<>>]
       \/ SendFails(c) /\ pc' = [pc EXCEPT ![c] = "unregister"] /\ UNCHANGED <<held, wire>>
    /\ UNCHANGED <<serverVars, login, broken, displayVars>>

display_loop_send(c) ==
    /\ pc[c] = "send"
    /\ \/ SendSucceeds(c, held[c][1]) /\ pc' = [pc EXCEPT ![c] = "dequeue"]
       \/ SendFails(c) /\ pc' = [pc EXCEPT ![c] = "unregister"] /\ UNCHANGED wire
    /\ held' = [held EXCEPT ![c] = <<>>]
    /\ UNCHANGED <<serverVars, login, broken, displayVars>>

display_loop_unregister(c) ==
    /\ pc[c] = "unregister"
    /\ unregister_display(c)
    /\ pc' = [pc EXCEPT ![c] = "destroy"]
    /\ UNCHANGED <<held, netVars, displayVars>>

\* client_thread_start's unique_ptr deletes the Client; ~Client closes the socket.
client_thread_end(c) ==
    /\ pc[c] = "destroy"
    /\ destroy_client(c)
    /\ pc' = [pc EXCEPT ![c] = "none"]
    /\ login' = [login EXCEPT ![c] = "none"]
    /\ UNCHANGED <<held, wire, broken, displayVars>>

-----------------------------------------------------------------------------
Thread(c) ==
    \/ chat(c) \/ chat_receive_fails(c)
    \/ display_loop_register(c) \/ display_loop_dequeue(c) \/ display_loop_timeout(c)
    \/ display_loop_send(c) \/ display_loop_unregister(c) \/ client_thread_end(c)

Program(c) == ReceiveReply(c) \/ Receive(c) \/ EndOfStream(c)

User(c) ==
    \/ \E ok \in BOOLEAN : Connect(c, ok)
    \/ \E credential \in Logins : SendLogin(c, credential)
    \/ Kill(c)

Updaters == UpdaterRequest /\ UNCHANGED <<threadVars, netVars, displayVars>>

Next ==
    \/ Updaters
    \/ \E c \in Clients : Thread(c) \/ Program(c) \/ User(c) \/ ResetByPeer(c) \/ NetworkFails(c)

\* Threads and programs run, and a connection without a reader is reset; nothing
\* is assumed of users, updaters or the rest of the network.
Fairness == \A c \in Clients : WF_vars(Thread(c)) /\ WF_vars(Program(c)) /\ WF_vars(ResetByPeer(c))

Spec == Init /\ [][Next]_vars

FairSpec == Spec /\ Fairness

-----------------------------------------------------------------------------
(***************************************************************************)
(* Properties.                                                             *)
(***************************************************************************)
\* Server::broadcast calls enqueue on every registered Client.  A Client is in
\* m_display_clients only while its thread is inside display_loop, so the pointer
\* never outlives the object, however the connection ends.  (An exception out of
\* register_display itself would leave it behind; it is not modelled.)
NoDanglingClient ==
    \A c \in m_display_clients : pc[c] \in {"dequeue", "send", "unregister"}

\* The display program never meets a message its handlers reject: no update
\* arrives for an order or item it does not know, whenever it connects.
DisplayNeverRejects == \A c \in Clients : peer[c] # "rejected"

\* The messages on their way to a display.
Pending(c) == wire[c] \o held[c] \o m_queue[c]

\* A display that watches and whose Client is registered over a working connection.
Connected(c) == peer[c] = "watch" /\ c \in m_display_clients /\ ~broken[c]

\* What a display that shows `view' comes to show by handling msgs.
ViewAfter(view, msgs) ==
    LET shown[k \in 0 .. Len(msgs)] == IF k = 0 THEN view ELSE handle(msgs[k], shown[k - 1])
    IN  shown[Len(msgs)]

\* Nothing is missed, doubled or reordered between register_display's snapshot and
\* the broadcasts around it: what a connected display shows, brought up to date
\* with the messages under way, is exactly the server's m_orders.
ViewIsConsistent ==
    \A c \in Clients : Connected(c) => ViewAfter(orders[c], Pending(c)) = m_orders

\* An order is not shown DONE with an unfinished item, nor IN_PROGRESS with none started.
NeverAhead(order) ==
    /\ order.status = "DONE" => AllItems(order, "DONE")
    /\ order.status = "IN_PROGRESS" => ~AllItems(order, "NEW")

\* The item's update is broadcast before the order's, so no display ever shows an
\* order's status ahead of its items, not even between the two messages.
ShownStatusNeverAhead ==
    \A c \in Clients : \A id \in DOMAIN orders[c] : NeverAhead(orders[c][id])

Rank == [NEW |-> 0, IN_PROGRESS |-> 1, DONE |-> 2]

\* No item goes back to an earlier status, and an order that appears is newer than all
\* shown before (so a delivered order never comes back).
Advances(before, after) ==
    /\ \A id \in DOMAIN before \cap DOMAIN after : \A i \in DOMAIN before[id].items :
          Rank[after[id].items[i].status] >= Rank[before[id].items[i].status]
    /\ \A new \in DOMAIN after \ DOMAIN before : \A id \in DOMAIN before : id < new

\* While a display runs, what it shows only advances.
ShownOrdersAdvance ==
    [][\A c \in Clients : peer[c] = "watch" /\ peer'[c] = "watch" =>
          Advances(orders[c], orders'[c])]_vars

\* Whenever updates pause, every connected display comes to show m_orders, or its
\* connection ends.
DisplaysCatchUp == \A c \in Clients : []<>(Connected(c) => orders[c] = m_orders)

\* A display that is gone is discovered by the messages or heartbeats sent to it:
\* its Client is unregistered, so its queue does not grow for ever.
DeadDisplaysLeave ==
    \A c \in Clients : (peer[c] = "off") ~> (peer[c] # "off" \/ c \notin m_display_clients)

\* A display that has sent its LOGIN does not wait for ever: it is let in or ends.
LoginIsAnswered == \A c \in Clients : (peer[c] = "login") ~> (peer[c] \in {"watch", "off"})
=============================================================================
