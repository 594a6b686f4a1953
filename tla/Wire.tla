-------------------------------- MODULE Wire --------------------------------
(***************************************************************************)
(* The text of messages: Wire::encode and Wire::decode (wire.cpp), and     *)
(* what becomes of an order on its way through them, from an updater's     *)
(* ORDER_NEW to the DISP_ORDER a display decodes.                          *)
(*                                                                         *)
(* A string is a sequence of tokens: characters, or for TLC the four       *)
(* separators, the protocol's words, numerals and words of free text.      *)
(* Enumerators are represented by their protocol words.  A function that   *)
(* may throw InvalidMessage returns the set of its result: one element, or *)
(* none when it throws.                                                    *)
(***************************************************************************)
EXTENDS OrderModel, Integers, SequencesExt

CONSTANTS
    Outgoing,     \* messages the programs send
    OtherTexts,   \* strings that other programs send
    Tokens,       \* what strings are made of
    TokenLen,     \* how many characters each token stands for
    to_str,       \* the string of each enumerator
    to_string,    \* std::to_string: the string of each int
    stoi,         \* std::stoi: the int of each string that it reads to its end
    NewId         \* the id the server gives to an order

Separators == {"|", ",", ";", ":"}

ClientMode == {"UPDATER", "DISPLAY"}

MessageType == {"LOGIN", "QUIT", "ORDER_NEW", "ITEM_UPDATE", "ORDER_UPDATE", "OK", "ERROR",
                "DISP_ORDER", "DISP_ITEM_UPDATE", "DISP_ORDER_UPDATE", "DISP_HEARTBEAT"}

Enumerators == MessageType \cup ClientMode \cup OrderStatus

String == Seq(Tokens)

Number == DOMAIN to_string \cap Id

\* The tables of wire.cpp give each enumerator its own name.
ASSUME NamesAssumption ==
    /\ Separators \subseteq Tokens
    /\ to_str \in [Enumerators -> Seq(Tokens \ Separators)]
    /\ \A d, e \in Enumerators : to_str[d] = to_str[e] => d = e

\* std::stoi reads what std::to_string writes.
ASSUME NumbersAssumption ==
    /\ DOMAIN to_string \subseteq Int /\ NewId \in Number
    /\ \A s \in DOMAIN stoi : stoi[s] \in DOMAIN to_string
    /\ \A n \in DOMAIN to_string :
          to_string[n] \in Seq(Tokens \ Separators) /\ to_string[n] \in DOMAIN stoi /\ stoi[to_string[n]] = n

-----------------------------------------------------------------------------
(***************************************************************************)
(* Messages.  The programs number and count with what parse_positive_int   *)
(* has let through.                                                        *)
(***************************************************************************)
OrderItem == [order_id : Number, id : Number, status : ItemStatus, desc : String, qty : Number]

FullOrder == [id : Number, status : OrderStatus, items : Seq(OrderItem)]

Message ==
         [type : {"LOGIN"}, client_mode : ClientMode, str : String]
    \cup [type : {"QUIT", "OK", "ERROR"}, str : String]
    \cup [type : {"ORDER_NEW", "DISP_ORDER"}, order : FullOrder]
    \cup [type : {"ITEM_UPDATE", "DISP_ITEM_UPDATE"}, order_id : Number, item_id : Number, item_status : ItemStatus]
    \cup [type : {"ORDER_UPDATE", "DISP_ORDER_UPDATE"}, order_id : Number, order_status : OrderStatus]
    \cup [type : {"DISP_HEARTBEAT"}]

ASSUME MessagesAssumption == Outgoing \subseteq Message /\ OtherTexts \subseteq String

-----------------------------------------------------------------------------
(***************************************************************************)
(* Encoding.                                                               *)
(***************************************************************************)
\* The parts in one string, with glue between them.
Join(parts, glue) ==
    LET joined[k \in 0 .. Len(parts)] ==
            IF k = 0 THEN <<>> ELSE joined[k - 1] \o (IF k > 1 THEN glue ELSE <<>>) \o parts[k]
    IN  joined[Len(parts)]

\* Faulty variants for mutation testing: the two ids of an item are swapped; the status
\* is written twice.
encode_item_swapped(item) ==
    Join(<<to_string[item.id], to_string[item.order_id], to_str[item.status],
           item.desc, to_string[item.qty]>>, <<":">>)

encode_item_repeats_status(item) ==
    Join(<<to_string[item.order_id], to_string[item.id], to_str[item.status] \o to_str[item.status],
           item.desc, to_string[item.qty]>>, <<":">>)

\* One round of encode_order's loop.
encode_item(item) ==
    Join(<<to_string[item.order_id], to_string[item.id], to_str[item.status],
           item.desc, to_string[item.qty]>>, <<":">>)

encode_items(items) == Join([k \in DOMAIN items |-> encode_item(items[k])], <<";">>)

encode_order(order) ==
    {Join(<<to_string[order.id], to_str[order.status], encode_items(items)>>, <<",">>) :
        items \in {order.items} \ {<<>>}}

\* The fields after the type.  has_str is false for an empty string; LOGIN, QUIT, OK and
\* ERROR need one.
encode_fields(msg) ==
    CASE msg.type = "LOGIN" -> {<<to_str[msg.client_mode], str>> : str \in {msg.str} \ {<<>>}}
      [] msg.type \in {"QUIT", "OK", "ERROR"} -> {<<str>> : str \in {msg.str} \ {<<>>}}
      [] msg.type \in {"ORDER_NEW", "DISP_ORDER"} -> {<<str>> : str \in encode_order(msg.order)}
      [] msg.type \in {"ITEM_UPDATE", "DISP_ITEM_UPDATE"} ->
            {<<to_string[msg.order_id], to_string[msg.item_id], to_str[msg.item_status]>>}
      [] msg.type \in {"ORDER_UPDATE", "DISP_ORDER_UPDATE"} ->
            {<<to_string[msg.order_id], to_str[msg.order_status]>>}
      [] msg.type = "DISP_HEARTBEAT" -> {<<>>}

encode(msg) == {Join(<<to_str[msg.type]>> \o fields, <<"|">>) : fields \in encode_fields(msg)}

-----------------------------------------------------------------------------
(***************************************************************************)
(* Decoding.                                                               *)
(***************************************************************************)
\* Faulty variant for mutation testing: separators next to each other count as one.
add_token_merges(parts, token, sep) ==
    IF token = sep THEN IF parts[Len(parts)] = <<>> THEN parts ELSE Append(parts, <<>>)
    ELSE [parts EXCEPT ![Len(parts)] = Append(@, token)]

\* A separator begins another component, any other token belongs to the last one.
add_token(parts, token, sep) ==
    IF token = sep THEN Append(parts, <<>>) ELSE [parts EXCEPT ![Len(parts)] = Append(@, token)]

\* Util::split: the components between separators, also empty ones.
split(s, sep) ==
    LET parts[k \in 0 .. Len(s)] == IF k = 0 THEN <<<<>>>> ELSE add_token(parts[k - 1], s[k], sep)
    IN  parts[Len(s)]

\* Faulty variant for mutation testing: zero passes.
parse_nonnegative_int(s) == {stoi[t] : t \in {t \in {s} \cap DOMAIN stoi : stoi[t] >= 0}}

parse_positive_int(s) == {stoi[t] : t \in {t \in {s} \cap DOMAIN stoi : stoi[t] > 0}}

\* str_to_...: without a match, or for the word INVALID, the result is INVALID,
\* which every caller refuses.
str_to(s, enum) == {e \in enum : s = to_str[e]}

\* Faulty variant for mutation testing: further fields are overlooked.
decode_item_more_fields(s) ==
    LET parts == split(s, ":")
    IN  IF Len(parts) < 5 THEN {}
        ELSE {[order_id |-> order_id, id |-> id, status |-> status, desc |-> parts[4], qty |-> qty] :
                 order_id \in parse_positive_int(parts[1]), id \in parse_positive_int(parts[2]),
                 status \in str_to(parts[3], ItemStatus), qty \in parse_positive_int(parts[5])}

\* One round of decode_order's loop.
decode_item(s) ==
    LET parts == split(s, ":")
    IN  IF Len(parts) # 5 THEN {}
        ELSE {[order_id |-> order_id, id |-> id, status |-> status, desc |-> parts[4], qty |-> qty] :
                 order_id \in parse_positive_int(parts[1]), id \in parse_positive_int(parts[2]),
                 status \in str_to(parts[3], ItemStatus), qty \in parse_positive_int(parts[5])}

\* decode_order's loop.
decode_items(s) ==
    LET fields == split(s, ";")
    IN  {items \in [DOMAIN fields -> UNION {decode_item(fields[k]) : k \in DOMAIN fields}] :
            \A k \in DOMAIN fields : items[k] \in decode_item(fields[k])}

decode_order_fields(fields) ==
    IF Len(fields) # 3 THEN {}
    ELSE {[id |-> id, status |-> status, items |-> items] :
             id \in parse_positive_int(fields[1]), status \in str_to(fields[2], OrderStatus),
             items \in decode_items(fields[3])}

decode_order(s) == decode_order_fields(split(s, ","))

\* The number of fields of a message of each type.
FieldCount(type) ==
    CASE type \in {"ITEM_UPDATE", "DISP_ITEM_UPDATE"} -> 4
      [] type \in {"LOGIN", "ORDER_UPDATE", "DISP_ORDER_UPDATE"} -> 3
      [] type \in {"QUIT", "OK", "ERROR", "ORDER_NEW", "DISP_ORDER"} -> 2
      [] type = "DISP_HEARTBEAT" -> 1

\* The message of the given type with the given fields, the first of which is the type.
decode_as(type, fields) ==
    CASE type = "LOGIN" ->
            {[type |-> type, client_mode |-> mode, str |-> fields[3]] : mode \in str_to(fields[2], ClientMode)}
      [] type \in {"QUIT", "OK", "ERROR"} -> {[type |-> type, str |-> fields[2]]}
      [] type \in {"ORDER_NEW", "DISP_ORDER"} ->
            {[type |-> type, order |-> order] : order \in decode_order(fields[2])}
      [] type \in {"ITEM_UPDATE", "DISP_ITEM_UPDATE"} ->
            {[type |-> type, order_id |-> order_id, item_id |-> item_id, item_status |-> item_status] :
                order_id \in parse_positive_int(fields[2]), item_id \in parse_positive_int(fields[3]),
                item_status \in str_to(fields[4], ItemStatus)}
      [] type \in {"ORDER_UPDATE", "DISP_ORDER_UPDATE"} ->
            {[type |-> type, order_id |-> order_id, order_status |-> order_status] :
                order_id \in parse_positive_int(fields[2]), order_status \in str_to(fields[3], OrderStatus)}
      [] type = "DISP_HEARTBEAT" -> {[type |-> type]}

decode_fields(fields) ==
    UNION {decode_as(type, fields) : type \in {t \in str_to(fields[1], MessageType) : Len(fields) = FieldCount(t)}}

decode(s) == decode_fields(split(s, "|"))

-----------------------------------------------------------------------------
(***************************************************************************)
(* Frames: IO::send throws when a text with its newline is too long.       *)
(***************************************************************************)
MaxFramed == 9999

\* The sum of the weights of the tokens of s.
Total(s, weight) ==
    LET total[k \in 0 .. Len(s)] == IF k = 0 THEN 0 ELSE total[k - 1] + weight[s[k]]
    IN  total[Len(s)]

TextLen(s) == Total(s, TokenLen)

FramedLen(s) == TextLen(s) + 1

-----------------------------------------------------------------------------
(***************************************************************************)
(* The way of a message.                                                   *)
(***************************************************************************)
VARIABLES
    stage,       \* how far it is
    sent,        \* the message one of the programs has sent, {} for another program's text
    text,        \* the text on the wire
    received,    \* what the receiver has decoded
    order        \* the order the server has stored, or None

vars == <<stage, sent, text, received, order>>

None == [id |-> 0]

Init == stage = "idle" /\ sent = {} /\ text = <<>> /\ received = {} /\ order = None

\* send_message of one of the programs.
Send(msg) ==
    /\ stage = "idle" /\ stage' = "sent"
    /\ \E s \in encode(msg) : FramedLen(s) <= MaxFramed /\ text' = s
    /\ sent' = {msg}
    /\ UNCHANGED <<received, order>>

\* Another program sends whatever fits a frame.
SendOther(s) ==
    /\ stage = "idle" /\ stage' = "sent"
    /\ FramedLen(s) <= MaxFramed /\ text' = s
    /\ sent' = {}
    /\ UNCHANGED <<received, order>>

Receive ==
    /\ stage = "sent" /\ stage' = "received"
    /\ received' = decode(text)
    /\ UNCHANGED <<sent, text, order>>

\* The ids set by process_new_order; description and quantity stay.
process_new_order ==
    /\ stage = "received" /\ stage' = "stored"
    /\ \E msg \in received :
          /\ msg.type = "ORDER_NEW"
          /\ order' = [msg.order EXCEPT !.id = NewId, !.status = "NEW",
                          !.items = [k \in DOMAIN @ |-> [@[k] EXCEPT !.order_id = NewId]]]
    /\ UNCHANGED <<sent, text, received>>

\* The order is worked on; which statuses can occur is the matter of module Server,
\* here it may have any.
Work(status, statuses) ==
    /\ stage = "stored" /\ stage' = "worked"
    /\ order' = [order EXCEPT !.status = status,
                    !.items = [k \in DOMAIN @ |-> [@[k] EXCEPT !.status = statuses[k]]]]
    /\ UNCHANGED <<sent, text, received>>

DISP_ORDER(o) == [type |-> "DISP_ORDER", order |-> o]

\* The DISP_ORDER for a display, in a broadcast or a snapshot.
SendOrder ==
    /\ stage = "worked" /\ stage' = "displayed"
    /\ \E s \in encode(DISP_ORDER(order)) : FramedLen(s) <= MaxFramed /\ text' = s
    /\ UNCHANGED <<sent, received, order>>

\* IO::send throws, and display_loop ends the connection.
SendOrderFails ==
    /\ stage = "worked" /\ \A s \in encode(DISP_ORDER(order)) : FramedLen(s) > MaxFramed
    /\ stage' = "idle" /\ sent' = {} /\ text' = <<>> /\ received' = {} /\ order' = None

ReceiveOrder ==
    /\ stage = "displayed" /\ stage' = "shown"
    /\ received' = decode(text)
    /\ UNCHANGED <<sent, text, order>>

\* On to another message.
Done ==
    /\ stage \in {"received", "shown"}
    /\ stage' = "idle" /\ sent' = {} /\ text' = <<>> /\ received' = {} /\ order' = None

Next ==
    \/ \E msg \in Outgoing : Send(msg)
    \/ \E s \in OtherTexts : SendOther(s)
    \/ Receive \/ process_new_order
    \/ \E status \in OrderStatus :
          stage = "stored" /\ \E statuses \in [DOMAIN order.items -> ItemStatus] : Work(status, statuses)
    \/ SendOrder \/ SendOrderFails \/ ReceiveOrder \/ Done

Spec == Init /\ [][Next]_vars

-----------------------------------------------------------------------------
(***************************************************************************)
(* Properties.                                                             *)
(***************************************************************************)
\* The free text of a message, as one string.
FreeText(msg) ==
    CASE msg.type \in {"LOGIN", "QUIT", "OK", "ERROR"} -> msg.str
      [] msg.type \in {"ORDER_NEW", "DISP_ORDER"} ->
            Join([k \in DOMAIN msg.order.items |-> msg.order.items[k].desc], <<>>)
      [] OTHER -> <<>>

\* Weights that count the tokens in S.
One(S) == [token \in Tokens |-> IF token \in S THEN 1 ELSE 0]

SeparatorCount(msg) == Total(FreeText(msg), One(Separators))

\* Whatever text arrives, what decode lets through has the form that modules OrderModel
\* and Server assume: positive numbers, valid statuses, at least one item; and no
\* description holds a separator.
WireTypeOK ==
    /\ stage \in {"idle", "sent", "received", "stored", "worked", "displayed", "shown"}
    /\ Cardinality(received) <= 1
    /\ \A msg \in received : msg.type \in {"ORDER_NEW", "DISP_ORDER"} =>
          /\ msg.order.id \in Id /\ msg.order.status \in OrderStatus /\ msg.order.items # <<>>
          /\ \A k \in DOMAIN msg.order.items :
                LET item == msg.order.items[k]
                IN  item.order_id \in Id /\ item.id \in Id /\ item.qty \in Id /\ item.status \in ItemStatus
                    /\ Separators \cap ToSet(item.desc) = {}
    /\ \A msg \in received : msg.type \in {"ITEM_UPDATE", "DISP_ITEM_UPDATE", "ORDER_UPDATE", "DISP_ORDER_UPDATE"} =>
          msg.order_id \in Id

\* decode gives back every message that a program has encoded, as long as its free
\* text holds no separator; also with an empty description.
PlainMessagesArrive ==
    stage = "received" => \A msg \in sent : SeparatorCount(msg) = 0 => received = {msg}

\* Message got is msg with its descriptions taken apart into further items.
TakenApart(got, msg) ==
    /\ msg.type \in {"ORDER_NEW", "DISP_ORDER"} /\ got.type = msg.type
    /\ got.order.id = msg.order.id /\ got.order.status = msg.order.status
    /\ LET more == Len(got.order.items) - Len(msg.order.items)
       IN  more > 0 /\ 5 * more <= SeparatorCount(msg)

\* Separators in a description, credential or reply make decode refuse the message, or it
\* arrives unchanged, with one exception: a description may end its item and begin others,
\* at the price of five separators for each.  So it is only orders that are misread, never
\* with fewer items, another id or another status, and never with fewer than five
\* separators in the text.
MisreadOnlyAsMoreItems ==
    stage = "received" => \A msg \in sent : \A got \in received : got = msg \/ TakenApart(got, msg)

\* Whatever the text of an ORDER_NEW was, if the server accepts it then the order it
\* stores has an encoding for the displays, whatever its status, from which they decode
\* exactly this order.  (Whether it fits a frame is another matter: see
\* EveryOrderCanBeDisplayed and GrowthIsBounded.)
DisplaysDecodeTheOrder ==
    /\ stage = "worked" =>
          /\ encode(DISP_ORDER(order)) # {}
          /\ \A s \in encode(DISP_ORDER(order)) : decode(s) = {DISP_ORDER(order)}
    /\ stage = "shown" => received = {DISP_ORDER(order)}

\* What the assignment says of every current order, that displays are sent its DISP_ORDER,
\* needs the message to fit a frame in every status the order goes through: otherwise
\* send_message fails and display_loop drops every display.  It does not hold of an order
\* whose ORDER_NEW fills its frame.
EveryOrderCanBeDisplayed ==
    stage = "worked" => \A s \in encode(DISP_ORDER(order)) : FramedLen(s) <= MaxFramed

\* Statuses have 3 to 11 characters; stoi reads no string shorter than the one to_string
\* writes.
ASSUME LengthAssumption ==
    /\ TokenLen \in [Tokens -> Nat]
    /\ TextLen(to_str["DISP_ORDER"]) = TextLen(to_str["ORDER_NEW"]) + 1
    /\ \A status \in OrderStatus : TextLen(to_str[status]) \in 3 .. 11
    /\ \A s \in DOMAIN stoi : TextLen(to_string[stoi[s]]) <= TextLen(s) /\ TextLen(s) >= 1

\* How much an order of n items can grow: a letter of the type, the digits of NewId for
\* one digit in the order and in each item, eight letters in each status.
PartGrowth == TextLen(to_string[NewId]) - 1 + 8

Growth(n) == 1 + PartGrowth * (1 + n)

\* The DISP_ORDER of an order is longer than the ORDER_NEW that brought it, from
\* whatever program, by at most Growth; so orders with that much room always fit.
GrowthIsBounded ==
    stage = "worked" =>
        \A s \in encode(DISP_ORDER(order)) : FramedLen(s) <= FramedLen(text) + Growth(Len(order.items))
=============================================================================
