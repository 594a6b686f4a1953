----------------------------- MODULE ViewProofs -----------------------------
(***************************************************************************)
(* Lemmas on what displays show: how a view changes message by message,    *)
(* and that the messages of every server operation take a display that     *)
(* shows the old m_orders to the new one.  KitchenProofs builds on them.   *)
(***************************************************************************)
EXTENDS KitchenDisplay, ServerProofs, SequenceTheorems

-----------------------------------------------------------------------------
(***************************************************************************)
(* What ViewAfter computes.                                                *)
(***************************************************************************)
\* Every non-empty set of natural numbers has a least element: the induction of the
\* proofs below.
LEMMA LeastNumber ==
    ASSUME NEW T \in SUBSET Nat, T # {}
    PROVE  \E x \in T : \A y \in T : x <= y
<1> DEFINE R == StrictSubsetOrdering(Nat)
           U == {0 .. x : x \in T}
<1>1. U \subseteq FiniteSubsetsOf(Nat)
  <2> SUFFICES ASSUME NEW x \in T PROVE 0 .. x \in FiniteSubsetsOf(Nat)
    OBVIOUS
  <2>1. IsFiniteSet(0 .. x)
    BY FS_Interval
  <2> QED
    BY <2>1 DEF FiniteSubsetsOf
<1>2. U # {}
  OBVIOUS
<1>3. IsWellFoundedOn(R, FiniteSubsetsOf(Nat))
  BY FS_StrictSubsetOrderingWellFounded
<1>4. PICK u \in U : \A v \in U : ~ (<<v, u>> \in R)
  <2> HIDE DEF R, U
  <2> QED
    BY <1>1, <1>2, <1>3, WFMin
<1>5. PICK x \in T : u = 0 .. x
  OBVIOUS
<1>6. ASSUME NEW y \in T, y < x PROVE FALSE
  <2>1. <<0 .. y, 0 .. x>> \notin R
    BY <1>4, <1>5
  <2>2. 0 .. y \subseteq 0 .. x /\ x \in 0 .. x /\ x \notin 0 .. y
    BY <1>6
  <2>3. 0 .. y \subseteq Nat /\ 0 .. x \subseteq Nat
    OBVIOUS
  <2> QED
    BY <2>1, <2>2, <2>3 DEF StrictSubsetOrdering
<1> QED
  BY <1>6

\* Two histories that begin alike and go on by the same rule are the same.
LEMMA HistoryUnique ==
    ASSUME NEW n \in Nat, NEW msgs, NEW f, NEW g, f[0] = g[0],
           \A k \in 1 .. n : f[k] = handle(msgs[k], f[k - 1]),
           \A k \in 1 .. n : g[k] = handle(msgs[k], g[k - 1])
    PROVE  \A k \in 0 .. n : f[k] = g[k]
<1> DEFINE T == {k \in 0 .. n : f[k] # g[k]}
<1> SUFFICES ASSUME T # {} PROVE FALSE
  OBVIOUS
<1>1. T \in SUBSET Nat
  OBVIOUS
<1>2. PICK x \in T : \A y \in T : x <= y
  <2> HIDE DEF T
  <2> QED
    BY <1>1, LeastNumber
<1>3. x \in 1 .. n /\ x - 1 \in 0 .. n /\ x - 1 \notin T
  BY <1>2
<1> QED
  BY <1>2, <1>3

\* ViewAfter, when there is such a history.
LEMMA ViewAfterHistory ==
    ASSUME NEW view, NEW msgs, Len(msgs) \in Nat, NEW f,
           f = [k \in 0 .. Len(msgs) |-> f[k]], f[0] = view,
           \A k \in 1 .. Len(msgs) : f[k] = handle(msgs[k], f[k - 1])
    PROVE  ViewAfter(view, msgs) = f[Len(msgs)]
<1> DEFINE shown == CHOOSE h : h = [k \in 0 .. Len(msgs) |-> IF k = 0 THEN view ELSE handle(msgs[k], h[k - 1])]
<1>1. \A k \in 0 .. Len(msgs) : f[k] = IF k = 0 THEN view ELSE handle(msgs[k], f[k - 1])
  OBVIOUS
<1>2. f = [k \in 0 .. Len(msgs) |-> IF k = 0 THEN view ELSE handle(msgs[k], f[k - 1])]
  BY <1>1
<1>3. shown = [k \in 0 .. Len(msgs) |-> IF k = 0 THEN view ELSE handle(msgs[k], shown[k - 1])]
  BY <1>2
<1>4. ViewAfter(view, msgs) = shown[Len(msgs)]
  BY DEF ViewAfter
<1> HIDE DEF shown
<1>5. \A k \in 0 .. Len(msgs) : shown[k] = IF k = 0 THEN view ELSE handle(msgs[k], shown[k - 1])
  BY <1>3
<1>6. shown[0] = f[0] /\ \A k \in 1 .. Len(msgs) : shown[k] = handle(msgs[k], shown[k - 1])
  BY <1>5
<1>7. \A k \in 0 .. Len(msgs) : shown[k] = f[k]
  <2> DEFINE n == Len(msgs)
  <2>1. n \in Nat /\ \A k \in 1 .. n : shown[k] = handle(msgs[k], shown[k - 1])
    BY <1>6
  <2>2. \A k \in 1 .. n : f[k] = handle(msgs[k], f[k - 1])
    OBVIOUS
  <2> HIDE DEF n
  <2>3. \A k \in 0 .. n : shown[k] = f[k]
    BY ONLY <1>6, <2>1, <2>2, HistoryUnique
  <2> QED
    BY <2>3 DEF n
<1> QED
  BY <1>4, <1>7

-----------------------------------------------------------------------------
(***************************************************************************)
(* Sequences of messages that lead from one view to another.               *)
(***************************************************************************)
\* A map a display may show: orders under their own ids, none ahead of its items.
ViewOK(view) ==
    /\ view = [id \in DOMAIN view |-> view[id]]
    /\ DOMAIN view \subseteq Id
    /\ \A id \in DOMAIN view : view[id] \in Order /\ view[id].id = id /\ NeverAhead(view[id])

\* The program accepts msg while it shows `before', and shows `after' then.
Link(before, msg, after) ==
    accepts(msg, before) /\ after = handle(msg, before) /\ ViewOK(after) /\ Advances(before, after)

\* The views shown while msgs are handled one by one.
Chain(shown, first, msgs) ==
    /\ shown = [k \in 0 .. Len(msgs) |-> shown[k]]
    /\ shown[0] = first
    /\ ViewOK(first)
    /\ \A k \in 1 .. Len(msgs) : Link(shown[k - 1], msgs[k], shown[k])

Leads(first, msgs, last) == \E shown : Chain(shown, first, msgs) /\ shown[Len(msgs)] = last

\* No message, no change.
LEMMA LeadsNowhere == ASSUME NEW view, ViewOK(view) PROVE Leads(view, <<>>, view)
<1> DEFINE shown == [k \in 0 .. 0 |-> view]
<1>1. Len(<<>>) = 0
  OBVIOUS
<1>2. Chain(shown, view, <<>>) /\ shown[0] = view
  BY <1>1 DEF Chain
<1> QED
  BY <1>1, <1>2 DEF Leads

\* One more message.
LEMMA LeadsAppend ==
    ASSUME NEW S, NEW msgs \in Seq(S), NEW msg \in S, NEW first, NEW last, NEW next,
           Leads(first, msgs, last), Link(last, msg, next)
    PROVE  Leads(first, Append(msgs, msg), next)
<1>1. PICK shown : Chain(shown, first, msgs) /\ shown[Len(msgs)] = last
  BY DEF Leads
<1> DEFINE n == Len(msgs)
           more == Append(msgs, msg)
           longer == [k \in 0 .. n + 1 |-> IF k <= n THEN shown[k] ELSE next]
<1>2. n \in Nat /\ Len(more) = n + 1 /\ more[n + 1] = msg /\ \A k \in 1 .. n : more[k] = msgs[k]
  OBVIOUS
<1>3. longer[0] = first /\ longer[n] = last /\ longer[n + 1] = next
  BY <1>1, <1>2 DEF Chain
<1>4. ASSUME NEW k \in 1 .. n + 1 PROVE Link(longer[k - 1], more[k], longer[k])
  <2>1. CASE k = n + 1
    BY <1>2, <1>3, <2>1
  <2>2. CASE k \in 1 .. n
    <3>1. longer[k - 1] = shown[k - 1] /\ longer[k] = shown[k]
      BY <1>2, <2>2
    <3> QED
      BY <1>1, <1>2, <2>2, <3>1 DEF Chain
  <2> QED
    BY <1>2, <2>1, <2>2
<1>5. longer = [k \in 0 .. Len(more) |-> longer[k]] /\ ViewOK(first)
  BY <1>1, <1>2 DEF Chain
<1> HIDE DEF longer, more
<1> QED
  BY <1>2, <1>3, <1>4, <1>5 DEF Leads, Chain, more

\* The first message, and the others.
LEMMA LeadsTail ==
    ASSUME NEW S, NEW msgs \in Seq(S), msgs # <<>>, NEW first, NEW last, Leads(first, msgs, last)
    PROVE  \E next : Link(first, Head(msgs), next) /\ Leads(next, Tail(msgs), last)
<1>1. PICK shown : Chain(shown, first, msgs) /\ shown[Len(msgs)] = last
  BY DEF Leads
<1> DEFINE n == Len(msgs)
           rest == Tail(msgs)
           later == [k \in 0 .. n - 1 |-> shown[k + 1]]
<1>2. /\ n \in Nat /\ n >= 1 /\ Len(rest) = n - 1 /\ Head(msgs) = msgs[1]
      /\ \A k \in 1 .. n - 1 : rest[k] = msgs[k + 1]
  OBVIOUS
<1>3. Link(first, Head(msgs), shown[1]) /\ ViewOK(shown[1])
  BY <1>1, <1>2 DEF Chain, Link
<1>4. later[0] = shown[1] /\ later[n - 1] = last
  BY <1>1, <1>2
<1>5. ASSUME NEW k \in 1 .. n - 1 PROVE Link(later[k - 1], rest[k], later[k])
  <2>1. later[k - 1] = shown[k] /\ later[k] = shown[k + 1] /\ k + 1 \in 1 .. n /\ (k + 1) - 1 = k
    BY <1>2
  <2>2. Link(shown[(k + 1) - 1], msgs[k + 1], shown[k + 1])
    BY <1>1, <2>1 DEF Chain
  <2> QED
    BY <1>2, <2>1, <2>2
<1>6. later = [k \in 0 .. Len(rest) |-> later[k]]
  BY <1>2
<1> HIDE DEF later, rest
<1>7. Chain(later, shown[1], rest) /\ later[Len(rest)] = last
  BY <1>2, <1>3, <1>4, <1>5, <1>6 DEF Chain
<1> QED
  BY <1>3, <1>7 DEF Leads, rest

\* The messages up to some point lead somewhere.
LEMMA LeadsPrefix ==
    ASSUME NEW S, NEW p \in Seq(S), NEW q \in Seq(S), NEW first, NEW last, Leads(first, p \o q, last)
    PROVE  \E middle : Leads(first, p, middle)
<1>1. PICK shown : Chain(shown, first, p \o q)
  BY DEF Leads
<1> DEFINE begun == [k \in 0 .. Len(p) |-> shown[k]]
<1>2. Len(p) \in Nat /\ Len(q) \in Nat /\ Len(p \o q) = Len(p) + Len(q) /\ \A k \in 1 .. Len(p) : (p \o q)[k] = p[k]
  OBVIOUS
<1>3. ASSUME NEW k \in 1 .. Len(p) PROVE Link(begun[k - 1], p[k], begun[k])
  <2>1. k \in 1 .. Len(p \o q) /\ begun[k - 1] = shown[k - 1] /\ begun[k] = shown[k]
    BY <1>2
  <2> QED
    BY <1>1, <1>2, <2>1 DEF Chain
<1>4. begun = [k \in 0 .. Len(p) |-> begun[k]] /\ begun[0] = first /\ ViewOK(first)
  BY <1>1, <1>2 DEF Chain
<1> HIDE DEF begun
<1>5. Chain(begun, first, p)
  BY <1>3, <1>4 DEF Chain
<1> QED
  BY <1>5 DEF Leads

\* Leads and ViewAfter agree.
LEMMA LeadsViewAfter ==
    ASSUME NEW msgs, Len(msgs) \in Nat, NEW first, NEW last, Leads(first, msgs, last)
    PROVE  ViewAfter(first, msgs) = last
<1>1. PICK shown : Chain(shown, first, msgs) /\ shown[Len(msgs)] = last
  BY DEF Leads
<1>2. \A k \in 1 .. Len(msgs) : shown[k] = handle(msgs[k], shown[k - 1])
  BY <1>1 DEF Chain, Link
<1>3. shown = [k \in 0 .. Len(msgs) |-> shown[k]] /\ shown[0] = first
  BY <1>1 DEF Chain
<1> QED
  BY <1>1, <1>2, <1>3, ViewAfterHistory

-----------------------------------------------------------------------------
(***************************************************************************)
(* What each kind of message does to a view.                               *)
(***************************************************************************)
\* The order of the statuses.
LEMMA RankValues == Rank["NEW"] = 0 /\ Rank["IN_PROGRESS"] = 1 /\ Rank["DONE"] = 2
BY DEF Rank

\* Items have statuses, and statuses have ranks.
LEMMA ItemRank ==
    ASSUME NEW order \in Order, NEW i \in DOMAIN order.items
    PROVE  order.items[i].status \in ItemStatus /\ Rank[order.items[i].status] \in Nat
<1>1. order.items \in Seq(Item)
  BY DEF Order
<1>2. order.items[i] \in Item
  BY <1>1
<1> QED
  BY <1>2, RankValues DEF Item, ItemStatus

\* Showing the same is no way back.
LEMMA AdvancesSelf == ASSUME NEW view, ViewOK(view) PROVE Advances(view, view)
<1>1. ASSUME NEW id \in DOMAIN view, NEW i \in DOMAIN view[id].items
      PROVE  Rank[view[id].items[i].status] >= Rank[view[id].items[i].status]
  BY ItemRank DEF ViewOK
<1> QED
  BY <1>1 DEF Advances

\* The cases of handle and accepts.
LEMMA HandleOrder ==
    ASSUME NEW order, NEW view
    PROVE  /\ accepts(DISP_ORDER(order), view)
           /\ handle(DISP_ORDER(order), view) = Put(view, order.id, order)
BY DEF accepts, handle, DISP_ORDER, handle_disp_order

\* An item update changes the item that find_item returns.
LEMMA HandleItemUpdate ==
    ASSUME NEW o, NEW item_id, NEW s, NEW view
    PROVE  /\ o \in DOMAIN view /\ find_item(view[o], item_id) # {} =>
                 accepts(DISP_ITEM_UPDATE(o, item_id, s), view)
           /\ handle(DISP_ITEM_UPDATE(o, item_id, s), view) =
                 LET i == CHOOSE k \in find_item(view[o], item_id) : TRUE
                 IN  Put(view, o, set_item_status(view[o], i, s))
<1> DEFINE msg == DISP_ITEM_UPDATE(o, item_id, s)
<1>1. msg.type = "DISP_ITEM_UPDATE" /\ msg.order_id = o /\ msg.item_id = item_id /\ msg.item_status = s
  BY DEF DISP_ITEM_UPDATE
<1> HIDE DEF msg
<1>2. handle(msg, view) = handle_disp_item_update(msg, view)
  BY <1>1 DEF handle
<1>3. handle_disp_item_update(msg, view) =
         LET i == CHOOSE k \in find_item(view[o], item_id) : TRUE
         IN  Put(view, o, set_item_status(view[o], i, s))
  BY <1>1 DEF handle_disp_item_update
<1>4. o \in DOMAIN view /\ find_item(view[o], item_id) # {} => accepts(msg, view)
  BY <1>1 DEF accepts
<1> QED
  BY <1>2, <1>3, <1>4 DEF msg

\* An order update changes the status or, for DELIVERED, erases the order.
LEMMA HandleOrderUpdate ==
    ASSUME NEW o, NEW s, NEW view
    PROVE  /\ o \in DOMAIN view => accepts(DISP_ORDER_UPDATE(o, s), view)
           /\ handle(DISP_ORDER_UPDATE(o, s), view) =
                 IF s = "DELIVERED" THEN Erase(view, o) ELSE Put(view, o, set_status(view[o], s))
BY DEF accepts, handle, DISP_ORDER_UPDATE, handle_disp_order_update

\* A heartbeat is accepted and does nothing.
LEMMA HandleHeartbeat ==
    ASSUME NEW view
    PROVE  accepts(DISP_HEARTBEAT, view) /\ handle(DISP_HEARTBEAT, view) = view
BY DEF accepts, handle, DISP_HEARTBEAT

\* A heartbeat changes nothing.
LEMMA HeartbeatLink == ASSUME NEW view, ViewOK(view) PROVE Link(view, DISP_HEARTBEAT, view)
BY HandleHeartbeat, AdvancesSelf DEF Link

\* A new order is added.
LEMMA OrderLink ==
    ASSUME NEW view, ViewOK(view), NEW order \in Order, NeverAhead(order),
           \A id \in DOMAIN view : id < order.id
    PROVE  Link(view, DISP_ORDER(order), Put(view, order.id, order))
<1> DEFINE new == Put(view, order.id, order)
<1>1. order.id \in Id
  BY DEF Order
<1>2. order.id \notin DOMAIN view
  BY <1>1 DEF ViewOK, Id
<1>3. /\ DOMAIN new = DOMAIN view \cup {order.id}
      /\ new[order.id] = order
      /\ \A id \in DOMAIN view : new[id] = view[id]
      /\ new = [id \in DOMAIN new |-> new[id]]
  BY <1>2 DEF Put
<1> HIDE DEF new
<1>4. ViewOK(new)
  BY <1>1, <1>3 DEF ViewOK
<1>5. ASSUME NEW id \in DOMAIN view, NEW i \in DOMAIN view[id].items
      PROVE  Rank[new[id].items[i].status] >= Rank[view[id].items[i].status]
  BY <1>3, ItemRank DEF ViewOK
<1>6. Advances(view, new)
  BY <1>3, <1>5 DEF Advances
<1> QED
  BY <1>4, <1>6, HandleOrder DEF Link, new

\* An order of the view is replaced by one whose items are no further back.
LEMMA ReplaceOrder ==
    ASSUME NEW view, ViewOK(view), NEW o \in DOMAIN view, NEW order \in Order,
           order.id = o, NeverAhead(order), DOMAIN order.items = DOMAIN view[o].items,
           \A i \in DOMAIN order.items : Rank[order.items[i].status] >= Rank[view[o].items[i].status]
    PROVE  LET new == [view EXCEPT ![o] = order]
           IN  new = Put(view, o, order) /\ ViewOK(new) /\ Advances(view, new)
<1> DEFINE new == [view EXCEPT ![o] = order]
<1>1. /\ DOMAIN new = DOMAIN view /\ new[o] = order
      /\ \A id \in DOMAIN view : id # o => new[id] = view[id]
      /\ new = [id \in DOMAIN new |-> new[id]]
  OBVIOUS
<1>2. new = Put(view, o, order)
  BY <1>1 DEF Put
<1> HIDE DEF new
<1>3. ViewOK(new)
  BY <1>1 DEF ViewOK
<1>4. ASSUME NEW id \in DOMAIN view, NEW i \in DOMAIN view[id].items
      PROVE  Rank[new[id].items[i].status] >= Rank[view[id].items[i].status]
  <2>1. CASE id = o
    BY <1>1, <2>1
  <2>2. CASE id # o
    BY <1>1, <2>2, ItemRank DEF ViewOK
  <2> QED
    BY <2>1, <2>2
<1>5. Advances(view, new)
  BY <1>1, <1>4 DEF Advances
<1> QED
  BY <1>2, <1>3, <1>5 DEF new

\* find_item finds at most one item.
LEMMA FindItemUnique ==
    ASSUME NEW order \in Order, NEW item_id, NEW i \in find_item(order, item_id)
    PROVE  (CHOOSE k \in find_item(order, item_id) : TRUE) = i
<1>1. DOMAIN order.items \subseteq Nat
  BY DEF Order
<1>2. \A k \in find_item(order, item_id) : k = i
  BY <1>1 DEF find_item
<1> QED
  BY <1>2

\* An item moves on.
LEMMA ItemLink ==
    ASSUME NEW view, ViewOK(view), NEW o \in DOMAIN view, NEW item_id, NEW s \in ItemStatus,
           NEW i \in find_item(view[o], item_id), ItemTransition(view[o].items[i].status, s)
    PROVE  LET order == set_item_status(view[o], i, s)
           IN  Link(view, DISP_ITEM_UPDATE(o, item_id, s), [view EXCEPT ![o] = order])
<1> DEFINE order == set_item_status(view[o], i, s)
<1>1. view[o] \in Order /\ view[o].id = o /\ NeverAhead(view[o])
  BY DEF ViewOK
<1>2. i \in DOMAIN view[o].items
  BY FindItemIndex
<1>3. /\ order \in Order /\ order.id = o /\ order.status = view[o].status
      /\ DOMAIN order.items = DOMAIN view[o].items
      /\ order.items[i].status = s
      /\ \A j \in DOMAIN view[o].items : j # i => order.items[j].status = view[o].items[j].status
  BY <1>1, <1>2, SetItemStatusType
<1>4. handle(DISP_ITEM_UPDATE(o, item_id, s), view) = Put(view, o, order)
  BY <1>1, FindItemUnique, HandleItemUpdate
<1>5. accepts(DISP_ITEM_UPDATE(o, item_id, s), view)
  BY HandleItemUpdate
<1> HIDE DEF order
<1>6. s # "NEW" /\ view[o].items[i].status # "DONE"
  BY DEF ItemTransition
<1>7. NeverAhead(order)
  BY <1>1, <1>2, <1>3, <1>6 DEF NeverAhead, AllItems
<1>8. ASSUME NEW j \in DOMAIN order.items
      PROVE  Rank[order.items[j].status] >= Rank[view[o].items[j].status]
  <2>1. CASE j = i
    BY <1>3, <2>1, RankValues DEF ItemTransition
  <2>2. CASE j # i
    BY <1>1, <1>3, <2>2, ItemRank
  <2> QED
    BY <2>1, <2>2
<1>9. LET new == [view EXCEPT ![o] = order]
      IN  new = Put(view, o, order) /\ ViewOK(new) /\ Advances(view, new)
  BY <1>3, <1>7, <1>8, ReplaceOrder
<1> QED
  BY <1>4, <1>5, <1>9 DEF Link, order

\* An order's status changes.
LEMMA StatusLink ==
    ASSUME NEW view, ViewOK(view), NEW o \in DOMAIN view, NEW s \in OrderStatus, s # "DELIVERED",
           NeverAhead(set_status(view[o], s))
    PROVE  Link(view, DISP_ORDER_UPDATE(o, s), [view EXCEPT ![o] = set_status(view[o], s)])
<1> DEFINE order == set_status(view[o], s)
<1>1. view[o] \in Order /\ view[o].id = o
  BY DEF ViewOK
<1>2. order \in Order /\ order.id = o /\ order.items = view[o].items
  BY <1>1, SetStatusType
<1>3. handle(DISP_ORDER_UPDATE(o, s), view) = Put(view, o, order) /\ accepts(DISP_ORDER_UPDATE(o, s), view)
  BY HandleOrderUpdate
<1> HIDE DEF order
<1>4. ASSUME NEW j \in DOMAIN order.items
      PROVE  Rank[order.items[j].status] >= Rank[view[o].items[j].status]
  BY <1>1, <1>2, ItemRank
<1>5. LET new == [view EXCEPT ![o] = order]
      IN  new = Put(view, o, order) /\ ViewOK(new) /\ Advances(view, new)
  <2>1. NeverAhead(order)
    BY DEF order
  <2> QED
    BY <1>2, <1>4, <2>1, ReplaceOrder
<1> QED
  BY <1>3, <1>5 DEF Link, order

\* A delivered order disappears.
LEMMA DeliveredLink ==
    ASSUME NEW view, ViewOK(view), NEW o \in DOMAIN view
    PROVE  Link(view, DISP_ORDER_UPDATE(o, "DELIVERED"), Erase(view, o))
<1> DEFINE new == Erase(view, o)
<1>1. /\ DOMAIN new \subseteq DOMAIN view
      /\ \A id \in DOMAIN new : new[id] = view[id]
      /\ new = [id \in DOMAIN new |-> new[id]]
  BY DEF Erase
<1>2. handle(DISP_ORDER_UPDATE(o, "DELIVERED"), view) = new /\ accepts(DISP_ORDER_UPDATE(o, "DELIVERED"), view)
  BY HandleOrderUpdate
<1> HIDE DEF new
<1>3. ViewOK(new)
  BY <1>1 DEF ViewOK
<1>4. ASSUME NEW id \in DOMAIN new, NEW i \in DOMAIN view[id].items
      PROVE  Rank[new[id].items[i].status] >= Rank[view[id].items[i].status]
  BY <1>1, ItemRank DEF ViewOK
<1>5. Advances(view, new)
  BY <1>1, <1>4 DEF Advances
<1> QED
  BY <1>2, <1>3, <1>5 DEF Link, new

-----------------------------------------------------------------------------
(***************************************************************************)
(* What the server sends.                                                  *)
(***************************************************************************)
\* Everything the server sends to a display.
Sent == DisplayMessage \cup {DISP_HEARTBEAT, OK, ERROR}

\* Order ids are given out once, in ascending order.
Allocated == \A id \in DOMAIN m_orders : id < m_next_order_id

\* m_orders is itself a map that a display may show.
ServerOK == TypeOK /\ ViewOK(m_orders) /\ Allocated

\* msgs bring a display that shows m_orders to the new m_orders, whatever came before.
BringsUpToDate(msgs) ==
    \A first : \A p \in Seq(Sent) : Leads(first, p, m_orders) => Leads(first, p \o msgs, m_orders')

\* A single message that links m_orders to its successor does.
LEMMA OneMessage ==
    ASSUME NEW msg \in DisplayMessage, Link(m_orders, msg, m_orders')
    PROVE  BringsUpToDate(<<msg>>)
<1> SUFFICES ASSUME NEW first, NEW p \in Seq(Sent), Leads(first, p, m_orders)
             PROVE  Leads(first, p \o <<msg>>, m_orders')
  BY DEF BringsUpToDate
<1>1. msg \in Sent
  BY DEF Sent
<1>2. p \o <<msg>> = Append(p, msg)
  BY <1>1
<1> QED
  BY <1>1, <1>2, LeadsAppend

\* Two messages do that link it by way of some other view.
LEMMA TwoMessages ==
    ASSUME NEW msg \in DisplayMessage, NEW other \in DisplayMessage, NEW middle,
           Link(m_orders, msg, middle), Link(middle, other, m_orders')
    PROVE  BringsUpToDate(<<msg, other>>)
<1> SUFFICES ASSUME NEW first, NEW p \in Seq(Sent), Leads(first, p, m_orders)
             PROVE  Leads(first, p \o <<msg, other>>, m_orders')
  BY DEF BringsUpToDate
<1>1. msg \in Sent /\ other \in Sent
  BY DEF Sent
<1>2. Append(p, msg) \in Seq(Sent) /\ p \o <<msg, other>> = Append(Append(p, msg), other)
  BY <1>1
<1>3. Leads(first, Append(p, msg), middle)
  BY <1>1, LeadsAppend
<1> QED
  BY <1>1, <1>2, <1>3, LeadsAppend

\* What an operation promises the displays.
Announces ==
    /\ ServerOK'
    /\ m_display_clients' = m_display_clients
    /\ \E msgs \in Seq(DisplayMessage) : broadcast(msgs) /\ BringsUpToDate(msgs)

\* A new order is announced.
LEMMA NewOrderAnnounced ==
    ASSUME ServerOK, NEW items \in NewOrders, process_new_order(items)
    PROVE  Announces
<1> DEFINE order == StoredOrder(m_next_order_id, items)
<1>1. TypeOK /\ ViewOK(m_orders) /\ Allocated
  BY DEF ServerOK
<1>2. /\ m_next_order_id \in Id /\ m_orders' = Put(m_orders, m_next_order_id, order)
      /\ order \in Order /\ order.id = m_next_order_id /\ TypeOK'
  BY <1>1, NewOrderStep
<1>3. NeverAhead(order)
  <2>1. order.status = "NEW"
    BY <1>2, StoredOrderType
  <2> HIDE DEF order
  <2> QED
    BY <2>1 DEF NeverAhead
<1>4. /\ broadcast(<<DISP_ORDER(order)>>) /\ m_display_clients' = m_display_clients
      /\ m_next_order_id' = m_next_order_id + 1
  BY DEF process_new_order
<1> HIDE DEF order
<1>5. Link(m_orders, DISP_ORDER(order), m_orders')
  BY <1>1, <1>2, <1>3, OrderLink DEF Allocated
<1>6. ViewOK(m_orders')
  BY <1>5 DEF Link
<1>7. Allocated'
  <2>1. DOMAIN m_orders' = DOMAIN m_orders \cup {m_next_order_id}
    BY <1>2 DEF Put
  <2>2. DOMAIN m_orders \subseteq Nat /\ m_next_order_id \in Nat
    BY <1>1 DEF TypeOK, Id
  <2> QED
    BY <1>1, <1>4, <2>1, <2>2 DEF Allocated
<1>8. DISP_ORDER(order) \in DisplayMessage
  BY <1>2, DisplayMessages
<1>9. BringsUpToDate(<<DISP_ORDER(order)>>)
  BY <1>5, <1>8, OneMessage
<1>10. <<DISP_ORDER(order)>> \in Seq(DisplayMessage)
  BY <1>8
<1> QED
  BY <1>2, <1>4, <1>6, <1>7, <1>9, <1>10 DEF Announces, ServerOK

\* The item's update first, then, when the status follows, the order's.
LEMMA ItemUpdateAnnounced ==
    ASSUME ServerOK, NEW o \in DOMAIN m_orders, NEW item_id \in Id, NEW s \in ItemStatus,
           process_item_update(o, item_id, s)
    PROVE  Announces
<1>1. TypeOK /\ ViewOK(m_orders) /\ Allocated
  BY DEF ServerOK
<1>2. PICK i \in find_item(m_orders[o], item_id) :
        /\ ItemTransition(m_orders[o].items[i].status, s)
        /\ LET order  == set_item_status(m_orders[o], i, s)
               status == AutoStatus(order, s)
           IN  /\ m_orders' = [m_orders EXCEPT ![o] = set_status(order, status)]
               /\ broadcast(ItemUpdateMessages(o, item_id, s, order.status, status))
  BY DEF process_item_update
<1> DEFINE order  == set_item_status(m_orders[o], i, s)
           status == AutoStatus(order, s)
           middle == [m_orders EXCEPT ![o] = order]
           msg    == DISP_ITEM_UPDATE(o, item_id, s)
           other  == DISP_ORDER_UPDATE(o, status)
<1>3. m_orders' = [m_orders EXCEPT ![o] = set_status(order, status)]
  BY <1>2
<1>4. broadcast(ItemUpdateMessages(o, item_id, s, order.status, status))
  BY <1>2
<1>5. m_orders[o] \in Order /\ o \in Id /\ NeverAhead(m_orders[o])
  BY <1>1 DEF ViewOK
<1>6. i \in DOMAIN m_orders[o].items
  BY FindItemIndex
<1>7. /\ order \in Order /\ order.id = m_orders[o].id /\ order.status = m_orders[o].status
      /\ DOMAIN order.items = DOMAIN m_orders[o].items
      /\ order.items[i].status = s
  BY <1>5, <1>6, SetItemStatusType
<1>8. status \in OrderStatus
  BY <1>7, AutoStatusType
<1>9. Link(m_orders, msg, middle)
  BY <1>1, <1>2, ItemLink
<1>10. ViewOK(middle)
  BY <1>9 DEF Link
<1>11. status # order.status =>
          \/ status = "IN_PROGRESS" /\ s = "IN_PROGRESS"
          \/ status = "DONE" /\ AllItems(order, "DONE")
  BY DEF AutoStatus
<1>12. TypeOK' /\ DOMAIN m_orders' = DOMAIN m_orders
  BY <1>1, ItemUpdateStep
<1>13. UNCHANGED <<m_display_clients, m_next_order_id>>
  BY DEF process_item_update
<1>14. Allocated'
  BY <1>1, <1>12, <1>13 DEF Allocated
<1>15. msg \in DisplayMessage /\ other \in DisplayMessage
  BY <1>5, <1>8, DisplayMessages
<1>16. DOMAIN middle = DOMAIN m_orders /\ middle[o] = order
  OBVIOUS
<1>17. [middle EXCEPT ![o] = set_status(order, status)] = [m_orders EXCEPT ![o] = set_status(order, status)]
  OBVIOUS
<1> HIDE DEF order, status, middle, msg, other
<1>18. CASE status = order.status
  <2>1. ItemUpdateMessages(o, item_id, s, order.status, status) = <<msg>>
    BY <1>18 DEF ItemUpdateMessages, msg
  <2>2. set_status(order, status) = order
    BY <1>7, <1>18 DEF set_status, Order
  <2>3. m_orders' = middle
    BY <1>3, <2>2 DEF middle
  <2>4. BringsUpToDate(<<msg>>)
    BY <1>9, <1>15, <2>3, OneMessage
  <2>5. <<msg>> \in Seq(DisplayMessage) /\ broadcast(<<msg>>)
    BY <1>4, <1>15, <2>1
  <2> QED
    BY <1>10, <1>12, <1>13, <1>14, <2>3, <2>4, <2>5 DEF Announces, ServerOK
<1>19. CASE status # order.status
  <2>1. ItemUpdateMessages(o, item_id, s, order.status, status) = <<msg, other>>
    BY <1>19 DEF ItemUpdateMessages, msg, other
  <2>2. set_status(order, status).items = order.items /\ set_status(order, status).status = status
    BY <1>7, <1>8, SetStatusType
  <2>3. NeverAhead(set_status(order, status)) /\ status # "DELIVERED"
    BY <1>6, <1>7, <1>11, <1>19, <2>2 DEF NeverAhead, AllItems
  <2>4. Link(middle, other, [middle EXCEPT ![o] = set_status(middle[o], status)])
    BY <1>8, <1>10, <1>16, <2>3, StatusLink DEF other
  <2>5. Link(middle, other, m_orders')
    BY <1>3, <1>16, <1>17, <2>4
  <2>6. BringsUpToDate(<<msg, other>>)
    BY <1>9, <1>15, <2>5, TwoMessages
  <2>7. <<msg, other>> \in Seq(DisplayMessage) /\ broadcast(<<msg, other>>)
    BY <1>4, <1>15, <2>1
  <2>8. ViewOK(m_orders')
    BY <2>5 DEF Link
  <2> QED
    BY <1>12, <1>13, <1>14, <2>6, <2>7, <2>8 DEF Announces, ServerOK
<1> QED
  BY <1>18, <1>19

\* A delivery is announced.
LEMMA OrderUpdateAnnounced ==
    ASSUME ServerOK, NEW o \in DOMAIN m_orders, NEW s, process_order_update(o, s)
    PROVE  Announces
<1> DEFINE msg == DISP_ORDER_UPDATE(o, "DELIVERED")
<1>1. TypeOK /\ ViewOK(m_orders) /\ Allocated
  BY DEF ServerOK
<1>2. TypeOK' /\ m_orders' = Erase(m_orders, o)
  BY <1>1, OrderUpdateStep
<1>3. broadcast(<<msg>>) /\ UNCHANGED <<m_display_clients, m_next_order_id>>
  BY DEF process_order_update
<1>4. Link(m_orders, msg, m_orders')
  BY <1>1, <1>2, DeliveredLink
<1>5. msg \in DisplayMessage
  BY <1>1, DisplayMessages DEF TypeOK, OrderStatus
<1> HIDE DEF msg
<1>6. Allocated'
  BY <1>1, <1>2, <1>3 DEF Allocated, Erase
<1>7. BringsUpToDate(<<msg>>) /\ <<msg>> \in Seq(DisplayMessage)
  BY <1>4, <1>5, OneMessage
<1>8. ViewOK(m_orders')
  BY <1>4 DEF Link
<1> QED
  BY <1>2, <1>3, <1>6, <1>7, <1>8 DEF Announces, ServerOK

\* Every operation of an updater is announced.
LEMMA RequestsAnnounced == ASSUME ServerOK, UpdaterRequest PROVE Announces
BY NewOrderAnnounced, ItemUpdateAnnounced, OrderUpdateAnnounced, ItemIdsAreIds DEF UpdaterRequest

\* An ascending enumeration of the keys, as long as there are keys, names them all.
LEMMA MapOrderComplete ==
    ASSUME TypeOK, NEW ids \in MapOrder
    PROVE  \A id \in DOMAIN m_orders : \E k \in DOMAIN ids : ids[k] = id
<1> DEFINE n == Cardinality(DOMAIN m_orders)
<1>1. ids \in [1 .. n -> DOMAIN m_orders] /\ Ascending(ids)
  BY DEF MapOrder
<1>2. n \in Nat /\ IsFiniteSet(DOMAIN m_orders) /\ DOMAIN m_orders \subseteq Nat
  BY FS_CardinalityType DEF TypeOK, Id
<1>3. \A j, k \in 1 .. n : ids[j] = ids[k] => j = k
  <2> HIDE DEF n
  <2> SUFFICES ASSUME NEW j \in 1 .. n, NEW k \in 1 .. n, j < k PROVE ids[j] # ids[k]
    BY <1>2
  <2>1. ids[j] < ids[k] /\ ids[j] \in Nat
    BY <1>1, <1>2 DEF Ascending
  <2> QED
    BY <2>1
<1>4. Cardinality(1 .. n) = n
  BY <1>2, FS_Interval
<1> HIDE DEF n
<1>5. ids \in Injection(1 .. n, DOMAIN m_orders)
  BY <1>1, <1>3 DEF Injection, IsInjective
<1>6. ids \in Surjection(1 .. n, DOMAIN m_orders)
  BY <1>2, <1>4, <1>5, FS_Injection DEF n
<1>7. \A id \in DOMAIN m_orders : \E k \in 1 .. n : ids[k] = id
  BY <1>6 DEF Surjection
<1> QED
  BY <1>1, <1>7

\* The messages of register_display take a display that shows nothing to m_orders.
LEMMA SnapshotLeads ==
    ASSUME ServerOK, NEW ids \in MapOrder
    PROVE  LET snapshot == [k \in DOMAIN ids |-> DISP_ORDER(m_orders[ids[k]])]
           IN  snapshot \in Seq(DisplayMessage) /\ Leads(EmptyMap, snapshot, m_orders)
<1> DEFINE n == Cardinality(DOMAIN m_orders)
           snapshot == [k \in DOMAIN ids |-> DISP_ORDER(m_orders[ids[k]])]
           Sofar(k) == {ids[j] : j \in 1 .. k}
           shown == [k \in 0 .. n |-> [id \in Sofar(k) |-> m_orders[id]]]
<1>1. TypeOK /\ ViewOK(m_orders)
  BY DEF ServerOK
<1>2. ids \in [1 .. n -> DOMAIN m_orders] /\ Ascending(ids)
  BY DEF MapOrder
<1>3. n \in Nat
  BY <1>1, FS_CardinalityType DEF TypeOK
<1>4. Sofar(0) = {}
  OBVIOUS
<1>5. \A k \in 0 .. n : Sofar(k) \subseteq DOMAIN m_orders
  BY <1>2, <1>3
<1>6. Sofar(n) = DOMAIN m_orders
  BY <1>1, <1>2, <1>3, MapOrderComplete
<1>7. ASSUME NEW k \in 1 .. n
      PROVE  Sofar(k) = Sofar(k - 1) \cup {ids[k]} /\ \A id \in Sofar(k - 1) : id < ids[k]
  <2> HIDE DEF n
  <2>1. 1 .. k = 1 .. (k - 1) \cup {k}
    BY <1>3
  <2>2. \A j \in 1 .. (k - 1) : j \in 1 .. n /\ j < k
    BY <1>3
  <2> QED
    BY <1>2, <2>1, <2>2 DEF Ascending
<1>8. Len(snapshot) = n /\ snapshot \in Seq(DisplayMessage)
  <2>1. \A k \in 1 .. n : DISP_ORDER(m_orders[ids[k]]) \in DisplayMessage
    BY <1>1, <1>2, DisplayMessages DEF TypeOK
  <2>2. snapshot \in [1 .. n -> DisplayMessage]
    BY <1>2, <2>1
  <2> HIDE DEF n, snapshot
  <2> QED
    BY <1>3, <2>2
<1>9. \A k \in 1 .. n : snapshot[k] = DISP_ORDER(m_orders[ids[k]])
  BY <1>2
<1>10. shown = [k \in 0 .. n |-> shown[k]]
  OBVIOUS
<1>11. \A k \in 0 .. n : shown[k] = [id \in Sofar(k) |-> m_orders[id]]
  OBVIOUS
<1> HIDE DEF n, snapshot, Sofar, shown
<1>12. shown[0] = EmptyMap
  <2>1. shown[0] = [id \in Sofar(0) |-> m_orders[id]]
    BY <1>3, <1>11
  <2> QED
    BY <1>4, <2>1 DEF EmptyMap
<1>13. shown[n] = m_orders
  BY <1>1, <1>3, <1>6, <1>11 DEF ViewOK
<1>14. ASSUME NEW k \in 0 .. n PROVE ViewOK(shown[k]) /\ DOMAIN shown[k] = Sofar(k)
  <2>1. shown[k] = [id \in Sofar(k) |-> m_orders[id]]
    BY <1>11
  <2> QED
    BY <1>1, <1>5, <2>1 DEF ViewOK
<1>15. ASSUME NEW k \in 1 .. n PROVE Link(shown[k - 1], snapshot[k], shown[k])
  <2>1. k - 1 \in 0 .. n /\ k \in 0 .. n
    BY <1>3
  <2>2. ids[k] \in DOMAIN m_orders
    BY <1>2
  <2> DEFINE order == m_orders[ids[k]]
  <2>3. order \in Order /\ order.id = ids[k] /\ NeverAhead(order)
    BY <1>1, <2>2 DEF ViewOK
  <2>4. ids[k] \in Sofar(k) /\ Sofar(k) = Sofar(k - 1) \cup {ids[k]}
    BY <1>7
  <2>5. shown[k] = Put(shown[k - 1], ids[k], order)
    <3>1. shown[k] = [id \in Sofar(k) |-> m_orders[id]]
      BY <1>11, <2>1
    <3>2. shown[k - 1] = [id \in Sofar(k - 1) |-> m_orders[id]]
      BY <1>11, <2>1
    <3> QED
      BY <2>4, <3>1, <3>2 DEF Put
  <2> HIDE DEF order
  <2>6. \A id \in DOMAIN shown[k - 1] : id < order.id
    BY <1>7, <1>14, <2>1, <2>3
  <2>7. Link(shown[k - 1], DISP_ORDER(order), shown[k])
    BY <1>14, <2>1, <2>3, <2>5, <2>6, OrderLink
  <2> QED
    BY <1>9, <2>7 DEF order
<1>16. Chain(shown, EmptyMap, snapshot)
  <2>1. ViewOK(EmptyMap)
    BY <1>3, <1>12, <1>14
  <2> QED
    BY <1>8, <1>10, <1>12, <1>15, <2>1 DEF Chain
<1>17. Leads(EmptyMap, snapshot, m_orders)
  BY <1>8, <1>13, <1>16 DEF Leads
<1> QED
  BY <1>8, <1>17 DEF snapshot
=============================================================================
