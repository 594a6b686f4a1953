--------------------------- MODULE UpdaterSession ---------------------------
(***************************************************************************)
(* Updaters at work: the Server, the thread of each updater connection     *)
(* (Client::chat, Client::updater_loop), the connection, and the updater   *)
(* program (updater_main.cpp), which sends one request at a time and waits *)
(* for its response.  Members of Updaters are slots used by one session    *)
(* after another.                                                          *)
(***************************************************************************)
EXTENDS Server

CONSTANT Updaters

VARIABLES
    pc,        \* next step of the Client's thread; "none": no Client object
    msg,       \* msg[u] : the request updater_loop works on, or None
    request,   \* request[u] : a request on its way to the server, or None
    reply,     \* reply[u] : a response on its way back, or None
    broken,    \* reads and writes on the server's socket fail
    prog,      \* the updater program: "off" when it is not running
    asked,     \* asked[u] : the request the program waits for, or None
    acks       \* acks[r] : how often updaters were told that update r succeeded

threadVars == <<pc, msg>>

netVars == <<request, reply, broken>>

progVars == <<prog, asked, acks>>

vars == <<serverVars, threadVars, netVars, progVars>>

None == [type |-> "none"]

OrderIds == FirstOrderId .. MaxOrderId

\* Updates a user may ask for: any status, also for orders that do not exist.
Updates ==
         {ITEM_UPDATE(o, i, s) : o \in OrderIds, i \in ItemIds, s \in ItemStatus}
    \cup {ORDER_UPDATE(o, s) : o \in OrderIds, s \in OrderStatus}

\* A second LOGIN stands for the types updater_loop does not expect, which only another
\* program would send.
Requests ==
    Updates \cup {ORDER_NEW(items) : items \in NewOrders} \cup {QUIT, MALFORMED, LOGIN("valid")}

LoginRequests == {LOGIN("valid"), LOGIN("invalid"), MALFORMED}

UpdaterTypeOK ==
    /\ pc \in [Updaters -> {"none", "chat", "receive", "process", "destroy"}]
    /\ msg \in [Updaters -> (Requests \ {MALFORMED}) \cup {None}]
    /\ \A u \in Updaters : (pc[u] = "process") <=> (msg[u] # None)
    /\ request \in [Updaters -> Requests \cup LoginRequests \cup {None}]
    /\ reply \in [Updaters -> {OK, ERROR, None}]
    /\ broken \in [Updaters -> BOOLEAN]
    /\ prog \in [Updaters -> {"off", "prompt", "login", "command", "wait"}]
    /\ \A u \in Updaters : (prog[u] = "wait") <=> (asked[u] # None)
    /\ acks \in [Updates -> Nat]

Init ==
    /\ ServerInit
    /\ pc = [u \in Updaters |-> "none"]
    /\ msg = [u \in Updaters |-> None]
    /\ request = [u \in Updaters |-> None]
    /\ reply = [u \in Updaters |-> None]
    /\ broken = [u \in Updaters |-> FALSE]
    /\ prog = [u \in Updaters |-> "off"]
    /\ asked = [u \in Updaters |-> None]
    /\ acks = [r \in Updates |-> 0]

-----------------------------------------------------------------------------
(***************************************************************************)
(* The updater program.                                                    *)
(***************************************************************************)
Connect(u) ==
    /\ prog[u] = "off" /\ pc[u] = "none"
    /\ prog' = [prog EXCEPT ![u] = "prompt"]
    /\ pc' = [pc EXCEPT ![u] = "chat"]
    /\ request' = [request EXCEPT ![u] = None]
    /\ reply' = [reply EXCEPT ![u] = None]
    /\ broken' = [broken EXCEPT ![u] = FALSE]
    /\ UNCHANGED <<serverVars, msg, asked, acks>>

SendLogin(u, login) ==
    /\ prog[u] = "prompt"
    /\ prog' = [prog EXCEPT ![u] = "login"]
    /\ request' = [request EXCEPT ![u] = login]
    /\ UNCHANGED <<serverVars, threadVars, reply, broken, asked, acks>>

ReceiveLoginReply(u) ==
    /\ prog[u] = "login" /\ reply[u] # None
    /\ reply' = [reply EXCEPT ![u] = None]
    /\ prog' = [prog EXCEPT ![u] = IF reply[u] = OK THEN "command" ELSE "off"]
    /\ UNCHANGED <<serverVars, threadVars, request, broken, asked, acks>>

\* ORDER_NEW requests the server has not yet processed; with MaxOrderId they bound
\* the number of orders users ask for.
NewOrdersUnderWay ==
    Cardinality({u \in Updaters : request[u].type = "ORDER_NEW" \/ msg[u].type = "ORDER_NEW"})

\* A command: handle_order_new, handle_item_update, handle_order_update or quit.
SendRequest(u, r) ==
    /\ prog[u] = "command"
    /\ r.type = "ORDER_NEW" => m_next_order_id + NewOrdersUnderWay <= MaxOrderId
    /\ prog' = [prog EXCEPT ![u] = "wait"]
    /\ asked' = [asked EXCEPT ![u] = r]
    /\ request' = [request EXCEPT ![u] = r]
    /\ UNCHANGED <<serverVars, threadVars, reply, broken, acks>>

\* print_result_response: "Success" or "Failure"; quit ends the program.
ReceiveReply(u) ==
    /\ prog[u] = "wait" /\ reply[u] # None
    /\ reply' = [reply EXCEPT ![u] = None]
    /\ prog' = [prog EXCEPT ![u] = IF asked[u] = QUIT THEN "off" ELSE "command"]
    /\ asked' = [asked EXCEPT ![u] = None]
    /\ acks' = IF reply[u] = OK /\ asked[u] \in Updates
               THEN [acks EXCEPT ![asked[u]] = @ + 1] ELSE acks
    /\ UNCHANGED <<serverVars, threadVars, request, broken>>

\* receive_message meets the end of the stream, or an error.  A program that waits is
\* assumed to learn that its connection broke; TCP does not tell it of a silent partition.
EndOfStream(u) ==
    /\ prog[u] \in {"login", "wait"} /\ reply[u] = None
    /\ pc[u] = "none" \/ broken[u]
    /\ prog' = [prog EXCEPT ![u] = "off"]
    /\ asked' = [asked EXCEPT ![u] = None]
    /\ UNCHANGED <<serverVars, threadVars, netVars, acks>>

\* End of input, a mistyped number or status, or the user stops the program.  What
\* it has sent may still be read by the server.
Exit(u) ==
    /\ prog[u] # "off"
    /\ prog' = [prog EXCEPT ![u] = "off"]
    /\ asked' = [asked EXCEPT ![u] = None]
    /\ reply' = [reply EXCEPT ![u] = None]
    /\ UNCHANGED <<serverVars, threadVars, request, broken, acks>>

\* The connection breaks; a request on its way may be lost.
NetworkFails(u) ==
    /\ pc[u] # "none" /\ ~broken[u]
    /\ broken' = [broken EXCEPT ![u] = TRUE]
    /\ \E lost \in BOOLEAN : request' = IF lost THEN [request EXCEPT ![u] = None] ELSE request
    /\ UNCHANGED <<serverVars, threadVars, reply, progVars>>

-----------------------------------------------------------------------------
(***************************************************************************)
(* The Client's thread.                                                    *)
(***************************************************************************)
\* send_message, whose result chat and updater_loop ignore.
send_message(u, m) ==
    reply' = IF broken[u] \/ prog[u] = "off" THEN reply ELSE [reply EXCEPT ![u] = m]

\* IO::receive and Wire::decode in chat, and the answer to LOGIN.
chat(u) ==
    /\ pc[u] = "chat" /\ request[u] # None
    /\ request' = [request EXCEPT ![u] = None]
    /\ \/ request[u] = LOGIN("valid") /\ send_message(u, OK) /\ pc' = [pc EXCEPT ![u] = "receive"]
       \/ request[u] = LOGIN("invalid") /\ send_message(u, ERROR) /\ pc' = [pc EXCEPT ![u] = "destroy"]
       \/ request[u] = MALFORMED /\ UNCHANGED reply /\ pc' = [pc EXCEPT ![u] = "destroy"]
    /\ UNCHANGED <<serverVars, msg, broken, progVars>>

\* Faulty variants for mutation testing: InvalidMessage does not end the loop; the
\* loop goes on with the message that could not be decoded.
updater_loop_receive_skips(u) ==
    /\ pc[u] = "receive" /\ request[u] # None
    /\ request' = [request EXCEPT ![u] = None]
    /\ IF request[u] = MALFORMED
       THEN UNCHANGED <<pc, msg>>
       ELSE pc' = [pc EXCEPT ![u] = "process"] /\ msg' = [msg EXCEPT ![u] = request[u]]
    /\ UNCHANGED <<serverVars, reply, broken, progVars>>

updater_loop_receive_unchecked(u) ==
    /\ pc[u] = "receive" /\ request[u] # None
    /\ request' = [request EXCEPT ![u] = None]
    /\ pc' = [pc EXCEPT ![u] = "process"] /\ msg' = [msg EXCEPT ![u] = request[u]]
    /\ UNCHANGED <<serverVars, reply, broken, progVars>>

\* IO::receive and Wire::decode in updater_loop; InvalidMessage ends the loop.
updater_loop_receive(u) ==
    /\ pc[u] = "receive" /\ request[u] # None
    /\ request' = [request EXCEPT ![u] = None]
    /\ IF request[u] = MALFORMED
       THEN pc' = [pc EXCEPT ![u] = "destroy"] /\ UNCHANGED msg
       ELSE pc' = [pc EXCEPT ![u] = "process"] /\ msg' = [msg EXCEPT ![u] = request[u]]
    /\ UNCHANGED <<serverVars, reply, broken, progVars>>

\* Faulty variant for mutation testing: IOException does not end updater_loop.
receive_fails_ignored(u) ==
    /\ pc[u] \in {"chat", "receive"} /\ request[u] = None
    /\ prog[u] = "off" \/ broken[u]
    /\ pc' = [pc EXCEPT ![u] = IF pc[u] = "chat" THEN "destroy" ELSE "receive"]
    /\ UNCHANGED <<serverVars, msg, netVars, progVars>>

\* IO::receive throws IOException in chat or in updater_loop.
receive_fails(u) ==
    /\ pc[u] \in {"chat", "receive"} /\ request[u] = None
    /\ prog[u] = "off" \/ broken[u]
    /\ pc' = [pc EXCEPT ![u] = "destroy"]
    /\ UNCHANGED <<serverVars, msg, netVars, progVars>>

\* The request is carried out and answered; after QUIT the loop returns.
Answer(u, m, next) ==
    /\ pc[u] = "process"
    /\ send_message(u, m)
    /\ pc' = [pc EXCEPT ![u] = next]
    /\ msg' = [msg EXCEPT ![u] = None]
    /\ UNCHANGED <<request, broken, progVars>>

updater_loop_quit(u) ==
    msg[u] = QUIT /\ Answer(u, OK, "destroy") /\ UNCHANGED serverVars

updater_loop_order_new(u) ==
    msg[u].type = "ORDER_NEW" /\ process_new_order(msg[u].items) /\ Answer(u, OK, "receive")

\* Faulty variant for mutation testing: a SemanticError is answered with OK.
updater_loop_item_update_swallows(u) ==
    /\ msg[u].type = "ITEM_UPDATE"
    /\ \/ /\ process_item_update(msg[u].order_id, msg[u].item_id, msg[u].item_status)
          /\ Answer(u, OK, "receive")
       \/ /\ ~item_update_valid(msg[u].order_id, msg[u].item_id, msg[u].item_status)
          /\ Answer(u, OK, "receive") /\ UNCHANGED serverVars

updater_loop_item_update(u) ==
    /\ msg[u].type = "ITEM_UPDATE"
    /\ \/ /\ process_item_update(msg[u].order_id, msg[u].item_id, msg[u].item_status)
          /\ Answer(u, OK, "receive")
       \/ /\ ~item_update_valid(msg[u].order_id, msg[u].item_id, msg[u].item_status)
          /\ Answer(u, ERROR, "receive") /\ UNCHANGED serverVars

updater_loop_order_update(u) ==
    /\ msg[u].type = "ORDER_UPDATE"
    /\ \/ process_order_update(msg[u].order_id, msg[u].order_status) /\ Answer(u, OK, "receive")
       \/ /\ ~order_update_valid(msg[u].order_id, msg[u].order_status)
          /\ Answer(u, ERROR, "receive") /\ UNCHANGED serverVars

\* Faulty variant for mutation testing: after the answer the message is looked at again.
updater_loop_unexpected_again(u) ==
    /\ msg[u].type = "LOGIN" /\ pc[u] = "process"
    /\ send_message(u, ERROR)
    /\ UNCHANGED <<serverVars, threadVars, request, broken, progVars>>

\* Not an end of the session: the client may go on.
updater_loop_unexpected(u) ==
    msg[u].type = "LOGIN" /\ Answer(u, ERROR, "receive") /\ UNCHANGED serverVars

client_thread_end(u) ==
    /\ pc[u] = "destroy"
    /\ pc' = [pc EXCEPT ![u] = "none"]
    /\ request' = [request EXCEPT ![u] = None]
    /\ UNCHANGED <<serverVars, msg, reply, broken, progVars>>

-----------------------------------------------------------------------------
Thread(u) ==
    \/ chat(u) \/ receive_fails(u) \/ updater_loop_receive(u)
    \/ updater_loop_quit(u) \/ updater_loop_order_new(u)
    \/ updater_loop_item_update(u) \/ updater_loop_order_update(u) \/ updater_loop_unexpected(u)
    \/ client_thread_end(u)

Program(u) == ReceiveLoginReply(u) \/ ReceiveReply(u) \/ EndOfStream(u)

User(u) ==
    \/ Connect(u) \/ Exit(u)
    \/ \E login \in LoginRequests : SendLogin(u, login)
    \/ \E r \in Requests : SendRequest(u, r)

Next == \E u \in Updaters : Thread(u) \/ Program(u) \/ User(u) \/ NetworkFails(u)

Fairness == \A u \in Updaters : WF_vars(Thread(u)) /\ WF_vars(Program(u))

Spec == Init /\ [][Next]_vars /\ Fairness

-----------------------------------------------------------------------------
(***************************************************************************)
(* Properties.                                                             *)
(***************************************************************************)
\* Of all updaters that ask for the same status change of the same item or order,
\* at whatever time, at most one is told that it succeeded.
OneWinner == \A r \in Updates : acks[r] <= 1

Rank == [NEW |-> 0, IN_PROGRESS |-> 1, DONE |-> 2]

\* Update r has been carried out, and not undone: the item has at least the status
\* until its order is delivered, and a delivered order is gone.
Holds(r) ==
    /\ r.order_id < m_next_order_id
    /\ r.order_id \in DOMAIN m_orders =>
          /\ r.type = "ITEM_UPDATE"
          /\ \E i \in find_item(m_orders[r.order_id], r.item_id) :
                Rank[m_orders[r.order_id].items[i].status] >= Rank[r.item_status]

\* What an updater was told succeeded stays true, whatever other updaters do.
AcknowledgedUpdatesHold == \A r \in Updates : acks[r] > 0 => Holds(r)

\* One response for each request, and the right one: when a response is on its way, the
\* request is neither on its way nor worked on, so that nobody answers it again; what is
\* under way is what the program waits for; and nothing is under way for a program that
\* waits for nothing, which would take it for the response to its next request.
OneResponsePerRequest ==
    \A u \in Updaters :
        /\ prog[u] \in {"prompt", "command"} => request[u] = None /\ msg[u] = None /\ reply[u] = None
        /\ prog[u] # "off" /\ reply[u] # None => request[u] = None /\ msg[u] = None
        /\ prog[u] = "wait" => request[u] \in {asked[u], None} /\ msg[u] \in {asked[u], None}

\* An updater never waits for ever: each request is answered, or the end of the
\* connection ends the program.
RequestsAreAnswered ==
    \A u \in Updaters : (prog[u] \in {"login", "wait"}) ~> (prog[u] \in {"command", "off"})

\* When the updater program has ended, in whatever way, the server's thread and
\* Client object for it end too.
SessionsEnd == \A u \in Updaters : (prog[u] = "off") ~> (pc[u] = "none")
=============================================================================
