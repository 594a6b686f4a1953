------------------------------- MODULE MCWire -------------------------------
(***************************************************************************)
(* Instances of Wire for TLC.                                              *)
(***************************************************************************)
EXTENDS Wire, TLC

\* Numbers, and other strings that std::stoi reads.
Numbers == {-1, 0, 1, 2, 7, 1000}

OtherNumerals == (<<"+2">> :> 2) @@ (<<"007">> :> 7)

WireToString == [n \in Numbers |-> <<ToString(n)>>]

WireStoi == [s \in {<<ToString(n)>> : n \in Numbers} |-> CHOOSE n \in Numbers : s = <<ToString(n)>>]
            @@ OtherNumerals

WireToStr == [e \in Enumerators |-> <<e>>]

WireTokens == Separators \cup Enumerators \cup {s[1] : s \in DOMAIN WireStoi}
              \cup {"INVALID", "soup", "7x", "dish"}

NewItem(id, desc, qty) == [order_id |-> 1, id |-> id, status |-> "NEW", desc |-> desc, qty |-> qty]

NewOrder(items) == [id |-> 1, status |-> "NEW", items |-> items]

OrderNew(items) == [type |-> "ORDER_NEW", order |-> NewOrder(items)]

\* Free texts of up to three tokens, and of up to five words with separators between
\* them; the words look like other fields.
Alternating(n, separators) ==
    {[k \in 1 .. 2 * n + 1 |-> IF k % 2 = 1 THEN words[(k + 1) \div 2] ELSE seps[k \div 2]] :
        words \in [1 .. n + 1 -> {"1", "NEW"}], seps \in [1 .. n -> separators]}

FreeTexts ==
         UNION {[1 .. n -> Separators \cup {"soup", "1", "NEW"}] : n \in 0 .. 3}
    \cup Alternating(3, Separators) \cup Alternating(4, {";", ":"})

ShortTexts == {<<>>, <<"soup">>, <<"soup", "|", "soup">>, <<"soup", ",", "1">>, <<"QUIT">>}

\* One message of every kind.
Samples(texts) ==
         {[type |-> "LOGIN", client_mode |-> mode, str |-> str] : mode \in ClientMode, str \in texts}
    \cup {[type |-> type, str |-> str] : type \in {"QUIT", "OK", "ERROR"}, str \in texts}
    \cup {[type |-> type, order_id |-> 1000, item_id |-> 2, item_status |-> status] :
             type \in {"ITEM_UPDATE", "DISP_ITEM_UPDATE"}, status \in ItemStatus}
    \cup {[type |-> type, order_id |-> 1000, order_status |-> status] :
             type \in {"ORDER_UPDATE", "DISP_ORDER_UPDATE"}, status \in OrderStatus}
    \cup {[type |-> "DISP_HEARTBEAT"]}

\* The strings one token away from s.
Variants(s) ==
         {ReplaceAt(s, k, token) : k \in DOMAIN s, token \in Tokens}
    \cup {RemoveAt(s, k) : k \in DOMAIN s}
    \cup {InsertAt(s, k, token) : k \in 1 .. Len(s) + 1, token \in Tokens}

\* A description that ends its item and begins another, and what is close to such a one.
NextItem == <<":", "1", ";", "1", ":", "2", ":", "NEW", ":">>

Break == <<"soup">> \o NextItem \o <<"soup">>

BreakingTexts == {Break \o NextItem} \cup Variants(Break)

\* "dish" stands for a description of 4970 characters: with two of them a DISP_ORDER fits
\* a frame while the order is new, but not in every other status.
WireOutgoing ==
    Samples(ShortTexts)
    \cup {OrderNew(<<NewItem(1, desc, 2)>>) : desc \in FreeTexts \cup BreakingTexts}
    \cup {OrderNew(<<NewItem(1, desc, 1), NewItem(2, desc, 2)>>) :
             desc \in {<<>>, <<"soup">>, <<"dish">>, Break}}

\* Other programs send what is close to a message.
Templates ==
    Samples({<<"soup">>}) \cup {OrderNew(<<NewItem(1, <<"soup">>, 2)>>),
                                OrderNew(<<NewItem(1, <<>>, 1), NewItem(2, <<"soup">>, 2)>>)}

WireOtherTexts == UNION {Variants(s) : s \in UNION {encode(msg) : msg \in Templates}}

WireTokenLen == [token \in WireTokens |-> IF token = "dish" THEN 4970 ELSE Len(token)]

\* One item, whose description makes the ORDER_NEW exactly as long as a frame may be.
LongOutgoing == {OrderNew(<<NewItem(1, <<"dish">>, 1)>>)}

LongTokenLen == [token \in WireTokens |-> IF token = "dish" THEN 9972 ELSE Len(token)]
=============================================================================
