---------------------------- MODULE SpotApp_proofs ----------------------------
(***************************************************************************)
(* Proofs about the ETH page and the world it talks to, for any nodes,     *)
(* listings, forms, faults and acts of others, in four layers.             *)
(*                                                                         *)
(* AppInv is about the objects at the nodes: what they have in common      *)
(* whoever published them. From it: a cancelled order stays off the book.  *)
(*                                                                         *)
(* WorldInv is about the numbers: of the objects, of the book that is made *)
(* of them, of the wallets and of the trades, and what the tab has read of *)
(* the chain. From it: the types, and that the book never offers again     *)
(* what a trade already took.                                              *)
(*                                                                         *)
(* FitInv is about the fills the user publishes: hashes are of one object, *)
(* fills name what is known, books are of objects at the nodes, and what   *)
(* is left of a match still fits what was signed for it.  From it: every   *)
(* fill published is one the contract can take whole, and a fill is shown  *)
(* as settled only if it settled.                                          *)
(*                                                                         *)
(* CoverInv is about the allowance: what the entries of a book say is open *)
(* of their orders, and, from the click to the signature, that every sell  *)
(* of the user's that can still fill was shown, and that what is approved  *)
(* for them is enough.  From it: a sell is signed on an allowance that     *)
(* covers it and all the others.                                           *)
(***************************************************************************)
EXTENDS SpotApp, FunctionSums

-----------------------------------------------------------------------------
(***************************************************************************)
(* The objects there are: at the nodes, and signed but not yet published.  *)
(***************************************************************************)
Signing   == session.pc \in {"auth", "order", "fill"}
SignedOrders == Of(Published, "order") \cup (IF Signing THEN {session.order} ELSE {})

\* No two orders around one signature differ in what was signed, and what is
\* signed next is new.
OrdersAuthentic(orders, n) ==
  /\ \A o \in orders : OrderTerms \cup {"authHash"} \subseteq DOMAIN o /\ o.eip \in Nat /\ o.eip < n
  /\ \A o, p \in orders : o.eip = p.eip => SameTerms(o, p)

Reports(r) == \E t \in trades : t.key = r.key /\ t.base = r.base

\* Of the other objects: a receipt of a settler's reports a settlement, and an
\* authorization says what it is.
Sincere(o) ==
  /\ o.type = "receipt" /\ o.by = "settler" => Reports(o)
  /\ o.type = "authorization" => "type" \in DOMAIN o

SessionInv ==
  /\ "pc" \in DOMAIN session
  /\ Signing => /\ DOMAIN session = {"pc", "auth", "order", "legs"}
                /\ session.auth.type = "authorization" /\ session.order.type = "order"
                /\ "type" \in DOMAIN session.auth
  /\ session.pc = "revoke" => session.revocation.type = "revocation"
  /\ session.pc = "receipt" => session.receipt.type = "receipt" /\ Reports(session.receipt)

\* What a refresh has listed is at some node, and stays there.
RefreshInv ==
  refresh.pc \in {"used", "filled", "bound"} =>
    /\ refresh.objs \subseteq Published
    /\ refresh.pc # "bound" => DOMAIN refresh = {"pc", "objs"}

AppInv ==
  /\ next \in Nat /\ up \subseteq Nodes
  /\ SessionInv /\ RefreshInv
  /\ OrdersAuthentic(SignedOrders, next)
  /\ \A o \in Published : Sincere(o)

-----------------------------------------------------------------------------
(***************************************************************************)
(* What a step may add.                                                    *)
(***************************************************************************)
\* The nodes come to hold nothing but what was there and `objs`.
Adds(objs) == Published \subseteq Published' /\ Published' \subseteq Published \cup objs

LEMMA StoredAtAdds ==
  ASSUME NEW where, NEW obj, StoredAt(where, obj)
  PROVE  Adds({obj})
  BY DEF StoredAt, Adds, Published

LEMMA AtEveryNodeAdds ==
  ASSUME NEW objs, AtEveryNode(objs)
  PROVE  Adds(objs)
  BY DEF AtEveryNode, Adds, Published

LEMMA PutAdds ==
  ASSUME NEW obj, Put(obj) \/ PutFails(obj)
  PROVE  Adds({obj}) /\ up' = up
  BY StoredAtAdds DEF Put, PutFails

LEMMA PropagateAdds ==
  ASSUME up \subseteq Nodes, Propagate
  PROVE  Adds({})
  BY DEF Propagate, Adds, Published

LEMMA SameAdds ==
  ASSUME stored' = stored
  PROVE  Adds({})
  BY DEF Adds, Published

LEMMA OrdersKept ==
  ASSUME NEW S, NEW T, NEW n \in Nat, NEW m \in Nat, n <= m, OrdersAuthentic(S, n), NEW o,
         T \subseteq S \cup {o}, OrderTerms \cup {"authHash"} \subseteq DOMAIN o, o.eip \in Nat, o.eip < m,
         (\E p \in S : SameTerms(p, o)) \/ o.eip >= n
  PROVE  OrdersAuthentic(T, m)
<1>1. \A p \in S : OrderTerms \cup {"authHash"} \subseteq DOMAIN p /\ p.eip \in Nat /\ p.eip < n
  BY DEF OrdersAuthentic
<1>2. \A p, q \in S : p.eip = q.eip => SameTerms(p, q)
  BY DEF OrdersAuthentic
<1>3. \A p \in S : p.eip = o.eip => SameTerms(p, o) /\ SameTerms(o, p)
  <2>1. CASE o.eip >= n
    BY <1>1, <2>1
  <2>2. CASE \E p \in S : SameTerms(p, o)
    <3>1. PICK q \in S : SameTerms(q, o)
      BY <2>2
    <3>2. q.eip = o.eip
      BY <3>1 DEF SameTerms, OrderTerms
    <3>3. QED
      BY <1>2, <3>1, <3>2 DEF SameTerms
  <2>3. QED
    BY <2>1, <2>2
<1>4. SameTerms(o, o)
  BY DEF SameTerms
<1>5. \A p \in T : OrderTerms \cup {"authHash"} \subseteq DOMAIN p /\ p.eip \in Nat /\ p.eip < m
  BY <1>1
<1>6. \A p, q \in T : p.eip = q.eip => SameTerms(p, q)
  BY <1>2, <1>3, <1>4
<1>7. QED
  BY <1>5, <1>6 DEF OrdersAuthentic

LEMMA FewerOrders ==
  ASSUME NEW S, NEW T, NEW n \in Nat, NEW m \in Nat, n <= m, OrdersAuthentic(S, n), T \subseteq S
  PROVE  OrdersAuthentic(T, m)
<1>1. \A p \in S : OrderTerms \cup {"authHash"} \subseteq DOMAIN p /\ p.eip \in Nat /\ p.eip < n
  BY DEF OrdersAuthentic
<1>2. QED
  BY <1>1 DEF OrdersAuthentic

\* A step whose new objects are no orders, or the one being published.
LEMMA NoNewOrder ==
  ASSUME AppInv, NEW objs, Adds(objs), next' \in Nat, next <= next', trades \subseteq trades',
         up' \subseteq Nodes,
         \A o \in objs : (o.type = "order" => o \in SignedOrders) /\ Sincere(o)',
         Signing' => Signing /\ session'.order = session.order, SessionInv', RefreshInv'
  PROVE  AppInv'
<1>1. SignedOrders' \subseteq SignedOrders
  BY DEF SignedOrders, Adds, Of
<1>2. OrdersAuthentic(SignedOrders', next')
  BY <1>1, FewerOrders DEF AppInv
<1>3. \A o \in Published' : Sincere(o)'
  BY DEF AppInv, Adds, Sincere, Reports
<1>4. QED
  BY <1>2, <1>3 DEF AppInv

LEMMA SessionKept ==
  ASSUME SessionInv, session' = session, trades \subseteq trades'
  PROVE  SessionInv'
  BY DEF SessionInv, Signing, Reports

LEMMA SessionElsewhere ==
  ASSUME "pc" \in DOMAIN session',
         session'.pc \notin {"auth", "order", "fill", "revoke", "receipt"}
  PROVE  SessionInv' /\ ~Signing'
  BY DEF SessionInv, Signing

LEMMA WentTo ==
  ASSUME SessionInv, NEW pc, Goto(pc)
  PROVE  /\ "pc" \in DOMAIN session' /\ session'.pc = pc /\ DOMAIN session' = DOMAIN session
         /\ \A field \in DOMAIN session \ {"pc"} : session'[field] = session[field]
  BY DEF SessionInv, Goto

LEMMA RefreshKept ==
  ASSUME RefreshInv, Published \subseteq Published',
         refresh' = refresh \/ refresh'.pc \in {"idle", "list", "capacity", "over"}
  PROVE  RefreshInv'
  BY DEF RefreshInv

\* A step that publishes nothing, and starts no signing.
LEMMA NothingPublished ==
  ASSUME AppInv, stored' = stored, next' \in Nat, next <= next', trades \subseteq trades',
         up' \subseteq Nodes, SessionInv', Signing' => Signing /\ session'.order = session.order,
         RefreshInv'
  PROVE  AppInv'
  BY SameAdds, NoNewOrder

-----------------------------------------------------------------------------
(***************************************************************************)
(* The refresh.                                                            *)
(***************************************************************************)
LEMMA EndKeeps ==
  ASSUME AppInv, RefreshEnds, trades \subseteq trades'
  PROVE  /\ SessionInv' /\ (Signing' => Signing /\ session'.order = session.order)
         /\ refresh'.pc \in {"idle", "list"}
<1>1. refresh'.pc \in {"idle", "list"}
  BY DEF RefreshEnds, Quiet
<1>2. CASE session.pc = "await"
  <2>1. session' = Quiet
    BY <1>2 DEF RefreshEnds
  <2>2. SessionInv' /\ ~Signing'
    BY <2>1, SessionElsewhere DEF Quiet
  <2>3. QED
    BY <1>1, <2>2
<1>3. CASE session.pc # "await"
  <2>1. session' = session
    BY <1>3 DEF RefreshEnds
  <2>2. SessionInv'
    BY <2>1, SessionKept DEF AppInv
  <2>3. QED
    BY <1>1, <2>1, <2>2 DEF Signing
<1>4. QED
  BY <1>2, <1>3

LEMMA RefreshSteps ==
  ASSUME AppInv, Interval \/ RefreshStep
  PROVE  AppInv'
<1>0. /\ next \in Nat /\ up \subseteq Nodes /\ SessionInv /\ RefreshInv
      /\ Published \subseteq Published /\ next <= next
  BY DEF AppInv
<1>1. CASE Interval
  <2>1. /\ session' = session /\ refresh'.pc = "list" /\ UNCHANGED <<stored, up, next, trades>>
    BY <1>1 DEF Interval, RefreshStarts, nodeVars, chainVars
  <2>2. SessionInv' /\ RefreshInv' /\ (Signing' => Signing /\ session'.order = session.order)
    BY <1>0, <2>1, SessionKept, RefreshKept DEF Published, Signing
  <2>3. QED
    BY <1>0, <2>1, <2>2, NothingPublished
<1>2. CASE ListObjects
  <2>1. UNCHANGED <<stored, up, next, trades>>
    BY <1>2 DEF ListObjects, chainVars
  <2>2. CASE \E n \in Nodes : /\ refresh' = [pc |-> "used", objs |-> stored[n]] /\ session' = session
    <3>1. SessionInv' /\ (Signing' => Signing /\ session'.order = session.order)
      BY <1>0, <2>1, <2>2, SessionKept DEF Signing
    <3>2. RefreshInv'
      BY <2>1, <2>2 DEF RefreshInv, Published
    <3>3. QED
      BY <1>0, <2>1, <3>1, <3>2, NothingPublished
  <2>3. CASE RefreshEnds
    <3>1. /\ SessionInv' /\ (Signing' => Signing /\ session'.order = session.order)
          /\ refresh'.pc \in {"idle", "list"}
      BY <2>1, <2>3, EndKeeps
    <3>2. RefreshInv'
      BY <1>0, <2>1, <3>1, RefreshKept DEF Published
    <3>3. QED
      BY <1>0, <2>1, <3>1, <3>2, NothingPublished
  <2>4. QED
    BY <1>2, <2>2, <2>3 DEF ListObjects, RefreshFails
<1>3. CASE ReadUsed
  <2>1. /\ UNCHANGED <<stored, up, next, trades, session>> /\ refresh.pc = "used"
        /\ refresh' = [refresh EXCEPT !.pc = "filled"]
    BY <1>3 DEF ReadUsed, nodeVars, chainVars
  <2>2. RefreshInv'
    BY <1>0, <2>1 DEF RefreshInv, Published
  <2>3. SessionInv' /\ (Signing' => Signing /\ session'.order = session.order)
    BY <1>0, <2>1, SessionKept DEF Signing
  <2>4. QED
    BY <1>0, <2>1, <2>2, <2>3, NothingPublished
<1>4. CASE ReadFilled
  <2>1. /\ UNCHANGED <<stored, up, next, trades, session>> /\ refresh.pc = "filled"
        /\ refresh'.pc = "bound" /\ refresh'.objs = refresh.objs
    BY <1>4 DEF ReadFilled, nodeVars, chainVars
  <2>2. RefreshInv'
    BY <1>0, <2>1 DEF RefreshInv, Published
  <2>3. SessionInv' /\ (Signing' => Signing /\ session'.order = session.order)
    BY <1>0, <2>1, SessionKept DEF Signing
  <2>4. QED
    BY <1>0, <2>1, <2>2, <2>3, NothingPublished
<1>5. CASE ReadBound
  <2>1. /\ UNCHANGED <<stored, up, next, trades, session>> /\ refresh'.pc = "capacity"
    BY <1>5 DEF ReadBound, Rederive, nodeVars, chainVars
  <2>2. RefreshInv'
    BY <1>0, <2>1, RefreshKept DEF Published
  <2>3. SessionInv' /\ (Signing' => Signing /\ session'.order = session.order)
    BY <1>0, <2>1, SessionKept DEF Signing
  <2>4. QED
    BY <1>0, <2>1, <2>2, <2>3, NothingPublished
<1>6. CASE ShowBook
  <2>1. UNCHANGED <<stored, up, next, trades>> /\ RefreshEnds
    BY <1>6 DEF ShowBook, nodeVars, chainVars
  <2>2. /\ SessionInv' /\ (Signing' => Signing /\ session'.order = session.order)
        /\ refresh'.pc \in {"idle", "list"}
    BY <2>1, EndKeeps
  <2>3. RefreshInv'
    BY <1>0, <2>1, <2>2, RefreshKept DEF Published
  <2>4. QED
    BY <1>0, <2>1, <2>2, <2>3, NothingPublished
<1>7. QED
  BY <1>1, <1>2, <1>3, <1>4, <1>5, <1>6 DEF RefreshStep

-----------------------------------------------------------------------------
(***************************************************************************)
(* The user's actions.                                                     *)
(***************************************************************************)
\* A step that only takes the user's action on, without publishing.
LEMMA ActionGoesOn ==
  ASSUME AppInv, UNCHANGED <<stored, up>>, next' \in Nat, next <= next', trades \subseteq trades',
         SessionInv', Signing' => Signing /\ session'.order = session.order,
         refresh' = refresh \/ refresh'.pc \in {"idle", "list"}
  PROVE  AppInv'
<1>1. RefreshInv' /\ up' \subseteq Nodes
  BY RefreshKept DEF AppInv, Published
<1>2. QED
  BY <1>1, NothingPublished

LEMMA StartSteps ==
  ASSUME AppInv, UserStarts
  PROVE  AppInv'
<1>0. next \in Nat /\ next <= next /\ next + 1 \in Nat /\ next <= next + 1 /\ SessionInv
  BY DEF AppInv
<1>1. ASSUME NEW form \in left.forms, Place(form)
      PROVE  AppInv'
  <2>1. /\ UNCHANGED <<stored, up, next, trades, refresh>>
        /\ "pc" \in DOMAIN session' /\ session'.pc \in {"wrap", "approve"}
    BY <1>1 DEF Place, nodeVars, chainVars, tabVars
  <2>2. QED
    BY <1>0, <2>1, SessionElsewhere, ActionGoesOn
<1>2. ASSUME NEW o \in MyOpen, NEW onChain \in BOOLEAN, Cancel(o, onChain)
      PROVE  AppInv'
  <2>1. /\ UNCHANGED <<stored, up, trades, refresh>> /\ next' = next + 1
        /\ "pc" \in DOMAIN session' /\ session'.pc = "revoke"
        /\ session'.revocation.type = "revocation"
    BY <1>2 DEF Cancel, BuildRevocation, nodeVars, chainVars, tabVars
  <2>2. SessionInv' /\ ~Signing'
    BY <2>1 DEF SessionInv, Signing
  <2>3. QED
    BY <1>0, <2>1, <2>2, ActionGoesOn
<1>3. ASSUME NEW hash, SettleNow(hash)
      PROVE  AppInv'
  <2>1. /\ UNCHANGED <<stored, up, next, trades, refresh>>
        /\ "pc" \in DOMAIN session' /\ session'.pc = "fit"
    BY <1>3 DEF SettleNow, nodeVars, chainVars, tabVars
  <2>2. QED
    BY <1>0, <2>1, SessionElsewhere, ActionGoesOn
<1>4. CASE Unwrap
  <2>1. UNCHANGED <<stored, up, next, trades, refresh, session>>
    BY <1>4 DEF Unwrap, nodeVars, tabVars
  <2>2. SessionInv' /\ (Signing' => Signing /\ session'.order = session.order)
    BY <1>0, <2>1, SessionKept DEF Signing
  <2>3. QED
    BY <1>0, <2>1, <2>2, ActionGoesOn
<1>5. QED
  BY <1>1, <1>2, <1>3, <1>4 DEF UserStarts

\* Moving on to a step that signs and publishes nothing.
LEMMA GoesElsewhere ==
  ASSUME AppInv, UNCHANGED <<stored, up, next, trades, refresh>>, NEW pc, Goto(pc),
         pc \notin {"auth", "order", "fill", "revoke", "receipt"}
  PROVE  AppInv'
<1>1. SessionInv' /\ ~Signing'
  BY WentTo, SessionElsewhere DEF AppInv
<1>2. QED
  BY <1>1, ActionGoesOn DEF AppInv

LEMMA WalletSteps ==
  ASSUME AppInv, Wrap \/ Approve \/ RevokeOnChain \/ CheckFits
  PROVE  AppInv'
<1>1. UNCHANGED <<stored, up, next, trades, refresh>>
  BY DEF Wrap, Approve, RevokeOnChain, CheckFits, nodeVars, chainVars, tabVars
<1>2. \E pc \in {"approve", "sign", "reset", "finish", "send"} : Goto(pc)
  <2>1. CASE Wrap
    BY <2>1 DEF Wrap
  <2>2. CASE Approve
    BY <2>2 DEF Approve
  <2>3. CASE RevokeOnChain
    BY <2>3 DEF RevokeOnChain
  <2>4. CASE CheckFits
    BY <2>4 DEF CheckFits
  <2>5. QED
    BY <2>1, <2>2, <2>3, <2>4
<1>3. QED
  BY <1>1, <1>2, GoesElsewhere

\* Which fields an order the app signs has.
LEMMA NewOrderIsWhole ==
  ASSUME NEW trader, NEW hash \in Nat, NEW x, NEW now
  PROVE  LET signed == SignedBy(trader, hash, x, now)
         IN  /\ signed.auth.type = "authorization" /\ signed.order.type = "order"
             /\ "type" \in DOMAIN signed.auth
             /\ OrderTerms \cup {"authHash"} \subseteq DOMAIN signed.order /\ signed.order.eip = hash + 1
  BY DEF SignedBy, BuildAuth, BuildOrder, OrderTerms

LEMMA SignKeeps ==
  ASSUME AppInv, Sign
  PROVE  AppInv'
<1> DEFINE signed == SignedBy(Me, next, session, clock)
<1>0. next \in Nat
  BY DEF AppInv
<1>1. /\ UNCHANGED <<stored, up, trades, refresh>> /\ next' = next + 2
      /\ session' = [pc |-> "auth", auth |-> signed.auth, order |-> signed.order,
                     legs |-> session.m.legs]
  BY DEF Sign, nodeVars, chainVars, tabVars
<1>2. PICK a : a = signed.auth
  OBVIOUS
<1>3. PICK o : o = signed.order
  OBVIOUS
<1>4. /\ a.type = "authorization" /\ o.type = "order" /\ "type" \in DOMAIN a
      /\ OrderTerms \cup {"authHash"} \subseteq DOMAIN o /\ o.eip = next + 1
  BY <1>0, <1>2, <1>3, NewOrderIsWhole
<1>5. /\ DOMAIN session' = {"pc", "auth", "order", "legs"} /\ session'.pc = "auth"
      /\ session'.auth = a /\ session'.order = o
  BY <1>1, <1>2, <1>3
<1> HIDE DEF signed
<1>6. SessionInv'
  BY <1>4, <1>5 DEF SessionInv, Signing
<1>7. Published' = Published
  BY <1>1 DEF Published
<1>8. RefreshInv'
  BY <1>1, <1>7 DEF RefreshInv, AppInv
<1>9. SignedOrders' \subseteq SignedOrders \cup {o}
  BY <1>5, <1>7 DEF SignedOrders, Signing
<1>10. OrdersAuthentic(SignedOrders', next')
  <2>1. OrdersAuthentic(SignedOrders, next) /\ next <= next' /\ next' \in Nat
        /\ o.eip \in Nat /\ o.eip < next' /\ o.eip >= next
    BY <1>0, <1>1, <1>4 DEF AppInv
  <2>2. QED
    BY <1>0, <1>4, <1>9, <2>1, OrdersKept
<1>11. \A r \in Published' : Sincere(r)'
  BY <1>1, <1>7 DEF AppInv, Sincere, Reports
<1>12. next' \in Nat /\ up' \subseteq Nodes
  BY <1>0, <1>1 DEF AppInv
<1>13. QED
  BY <1>6, <1>8, <1>10, <1>11, <1>12 DEF AppInv

LEMMA PublicationKeeps ==
  ASSUME AppInv, NEW obj, Put(obj) \/ PutFails(obj), UNCHANGED <<trades, refresh>>,
         obj.type = "order" => obj \in SignedOrders, Sincere(obj),
         next' \in Nat, next <= next',
         SessionInv', Signing' => Signing /\ session'.order = session.order
  PROVE  AppInv'
<1>1. Adds({obj}) /\ up' \subseteq Nodes
  BY PutAdds DEF AppInv
<1>2. RefreshInv'
  BY <1>1, RefreshKept DEF AppInv, Adds
<1>3. Sincere(obj)'
  BY DEF Sincere, Reports
<1>4. QED
  BY <1>1, <1>2, <1>3, NoNewOrder

LEMMA PublishSteps ==
  ASSUME AppInv, PublishAuth \/ PublishOrder \/ PublishFill \/ PublishRevocation \/ PublishReceipt
  PROVE  AppInv'
<1>0. next \in Nat /\ next <= next /\ SessionInv /\ next + 1 \in Nat /\ next <= next + 1
  BY DEF AppInv
<1>1. CASE PublishAuth
  <2>1. /\ UNCHANGED <<trades, refresh, next>> /\ Put(session.auth) /\ Goto("order")
        /\ Signing
    BY <1>1 DEF PublishAuth, chainVars, Signing
  <2>2. session.auth.type = "authorization" /\ DOMAIN session = {"pc", "auth", "order", "legs"}
        /\ session.order.type = "order" /\ "type" \in DOMAIN session.auth
    BY <1>0, <2>1 DEF SessionInv
  <2>3. /\ "pc" \in DOMAIN session' /\ session'.pc = "order" /\ DOMAIN session' = DOMAIN session
        /\ session'["auth"] = session["auth"] /\ session'["order"] = session["order"]
    BY <1>0, <2>1, <2>2, WentTo
  <2>4. SessionInv' /\ session'.order = session.order
    BY <2>2, <2>3 DEF SessionInv, Signing
  <2>5. QED
    BY <1>0, <2>1, <2>2, <2>4, PublicationKeeps DEF Sincere
<1>2. CASE PublishOrder
  <2>1. /\ UNCHANGED <<trades, refresh, next>> /\ Put(session.order) /\ Signing
        /\ \E pc \in {"finish", "fill"} : Goto(pc)
    BY <1>2 DEF PublishOrder, chainVars, Signing
  <2>2. session.auth.type = "authorization" /\ DOMAIN session = {"pc", "auth", "order", "legs"}
        /\ session.order.type = "order" /\ "type" \in DOMAIN session.auth
    BY <1>0, <2>1 DEF SessionInv
  <2>3. PICK pc \in {"finish", "fill"} : Goto(pc)
    BY <2>1
  <2>4. /\ "pc" \in DOMAIN session' /\ session'.pc = pc /\ DOMAIN session' = DOMAIN session
        /\ session'["auth"] = session["auth"] /\ session'["order"] = session["order"]
    BY <1>0, <2>3, <2>2, WentTo
  <2>5. SessionInv' /\ session'.order = session.order
    BY <2>2, <2>4 DEF SessionInv, Signing
  <2>6. session.order \in SignedOrders
    BY <2>1 DEF SignedOrders
  <2>7. QED
    BY <1>0, <2>1, <2>2, <2>5, <2>6, PublicationKeeps DEF Sincere
<1>3. CASE PublishFill
  <2>1. /\ UNCHANGED <<trades, refresh>> /\ next' = next + 1 /\ Signing
        /\ \E f : f.type = "fill" /\ Put(f)
    BY <1>3 DEF PublishFill, chainVars, Signing, BuildFill
  <2>2. session.auth.type = "authorization" /\ DOMAIN session = {"pc", "auth", "order", "legs"}
        /\ session.order.type = "order" /\ "type" \in DOMAIN session.auth
    BY <1>0, <2>1 DEF SessionInv
  <2>3. session' = [session EXCEPT !.legs = Tail(@),
                   !.pc = IF Len(session.legs) = 1 THEN "finish" ELSE "fill"]
    BY <1>3 DEF PublishFill
  <2>4. /\ DOMAIN session' = DOMAIN session /\ session'.pc \in {"finish", "fill"}
        /\ session'.auth = session.auth /\ session'.order = session.order
    BY <2>2, <2>3
  <2>5. SessionInv'
    BY <2>2, <2>4 DEF SessionInv, Signing
  <2>6. QED
    BY <1>0, <2>1, <2>4, <2>5, PublicationKeeps DEF Sincere
<1>4. CASE PublishRevocation
  <2>1. /\ UNCHANGED <<trades, refresh, next>> /\ Put(session.revocation)
        /\ \E pc \in {"onchain", "finish"} : Goto(pc)
    BY <1>4 DEF PublishRevocation, chainVars, tabVars
  <2>2. session.revocation.type = "revocation"
    BY <1>0, <1>4 DEF SessionInv, PublishRevocation
  <2>3. SessionInv' /\ ~Signing'
    BY <1>0, <2>1, WentTo, SessionElsewhere
  <2>4. QED
    BY <1>0, <2>1, <2>2, <2>3, PublicationKeeps DEF Sincere
<1>5. CASE PublishReceipt
  <2>1. /\ UNCHANGED <<trades, refresh, next>> /\ session' = [pc |-> "finish"]
        /\ Put(session.receipt) \/ PutFails(session.receipt)
    BY <1>5 DEF PublishReceipt, chainVars, tabVars
  <2>2. session.receipt.type = "receipt" /\ Reports(session.receipt)
    BY <1>0, <1>5 DEF SessionInv, PublishReceipt
  <2>3. SessionInv' /\ ~Signing'
    BY <2>1, SessionElsewhere
  <2>4. QED
    BY <1>0, <2>1, <2>2, <2>3, PublicationKeeps DEF Sincere
<1>6. QED
  BY <1>1, <1>2, <1>3, <1>4, <1>5

\* The trade a settlement makes.
LEMMA TradeMade ==
  ASSUME NEW call, SettlesOnChain(call)
  PROVE  \E t : /\ trades' = trades \cup {t}
                /\ t.key = call.key /\ t.base = FittingOf(call)
                /\ t.quote = QuoteFor(FittingOf(call), call.fill.price)
                /\ t.fee = FeeOf(call, FittingOf(call))
                /\ t.buyAuth = BuyOf(call).sessionAuth /\ t.sellAuth = SellOf(call).sessionAuth
                /\ \A e \in t.recorded : \E x \in {BuyOf(call), SellOf(call)} :
                     x.eip = e /\ InWindow(x)
<1>1. PICK b, s : b = BuyOf(call) /\ s = SellOf(call)
  OBVIOUS
<1>2. PICK recorded : recorded = {x.eip : x \in {x \in {b, s} : LegActive(x, IF x = b THEN s ELSE b)}}
  OBVIOUS
<1>3. PICK t : t = [key |-> call.key, base |-> FittingOf(call),
                    quote |-> QuoteFor(FittingOf(call), call.fill.price),
                    fee |-> FeeOf(call, FittingOf(call)),
                    buyAuth |-> b.sessionAuth, sellAuth |-> s.sessionAuth, recorded |-> recorded]
  OBVIOUS
<1>4. trades' = trades \cup {t}
  BY <1>1, <1>2, <1>3, Zenon DEF SettlesOnChain
<1>5. \A e \in recorded : \E x \in {b, s} : x.eip = e /\ InWindow(x)
  BY <1>2 DEF LegActive
<1>6. QED
  BY <1>1, <1>3, <1>4, <1>5

\* The receipt of a settlement reports the trade it is of.
LEMMA SettlementIsReported ==
  ASSUME NEW call, SettlesOnChain(call), NEW hash, NEW now, NEW r,
         r = BuildReceipt(hash, call, FittingOf(call), now)
  PROVE  trades \subseteq trades' /\ r.type = "receipt" /\ Reports(r)'
<1>1. PICK t : trades' = trades \cup {t} /\ t.key = call.key /\ t.base = FittingOf(call)
  BY TradeMade
<1>2. r.type = "receipt" /\ r.key = call.key /\ r.base = FittingOf(call)
  BY DEF BuildReceipt
<1>3. Reports(r)'
  BY <1>1, <1>2 DEF Reports
<1>4. QED
  BY <1>1, <1>2, <1>3

LEMMA SendKeeps ==
  ASSUME AppInv, SendSettlement
  PROVE  AppInv'
<1>0. next \in Nat /\ next <= next /\ next + 1 \in Nat /\ next <= next + 1
  BY DEF AppInv
<1>1. UNCHANGED <<stored, up, refresh>>
  BY DEF SendSettlement, nodeVars, tabVars
<1>2. PICK call : call = session.call
  OBVIOUS
<1>3. CASE Accepts(call)
  <2>1. PICK r : r = BuildReceipt(next, call, FittingOf(call), clock)
    OBVIOUS
  <2>2. SettlesOnChain(call) /\ session' = [pc |-> "receipt", receipt |-> r] /\ next' = next + 1
    BY <1>2, <1>3, <2>1 DEF SendSettlement, SettledAmount
  <2>3. trades \subseteq trades' /\ r.type = "receipt" /\ Reports(r)'
    BY <2>1, <2>2, SettlementIsReported
  <2>4. /\ "pc" \in DOMAIN session' /\ session'.pc = "receipt" /\ session'.receipt = r
    BY <2>2
  <2>5. SessionInv' /\ ~Signing'
    BY <2>3, <2>4 DEF SessionInv, Signing, Reports
  <2>6. QED
    BY <1>0, <1>1, <2>2, <2>3, <2>5, ActionGoesOn
<1>4. CASE ~Accepts(call)
  <2>1. /\ UNCHANGED <<next, trades>> /\ "pc" \in DOMAIN session'
        /\ session'.pc \in {"finish", "idle"}
    BY <1>2, <1>4 DEF SendSettlement, chainVars, Quiet
  <2>2. QED
    BY <1>0, <1>1, <2>1, SessionElsewhere, ActionGoesOn
<1>5. QED
  BY <1>3, <1>4

LEMMA SessionSteps ==
  ASSUME AppInv, SessionStep
  PROVE  AppInv'
<1>1. CASE Finish
  <2>1. /\ UNCHANGED <<stored, up, next, trades>>
        /\ refresh' = refresh \/ refresh'.pc = "list"
        /\ "pc" \in DOMAIN session' /\ session'.pc \in {"await", "idle"}
    BY <1>1 DEF Finish, RefreshCalled, RefreshStarts, Quiet, nodeVars, chainVars
  <2>2. next' \in Nat /\ next <= next'
    BY <2>1 DEF AppInv
  <2>3. QED
    BY <2>1, <2>2, SessionElsewhere, ActionGoesOn
<1>2. QED
  BY <1>1, WalletSteps, SignKeeps, PublishSteps, SendKeeps DEF SessionStep

LEMMA EndingSteps ==
  ASSUME AppInv, Decline \/ PublishFails \/ Reload
  PROVE  AppInv'
<1>0. next \in Nat /\ next <= next /\ next + 1 \in Nat /\ next <= next + 1 /\ SessionInv
  BY DEF AppInv
<1>1. CASE Decline
  <2>1. UNCHANGED <<stored, up, next, trades, refresh>> /\ session' = Quiet
    BY <1>1 DEF Decline, nodeVars, chainVars, tabVars
  <2>2. SessionInv' /\ ~Signing'
    BY <2>1, SessionElsewhere DEF Quiet
  <2>3. QED
    BY <1>0, <2>1, <2>2, ActionGoesOn
<1>2. CASE PublishFails
  <2>1. UNCHANGED <<trades, refresh>> /\ next' = next + 1 /\ session' = Quiet
        /\ session.pc \in {"auth", "order", "fill", "revoke"}
    BY <1>2 DEF PublishFails, chainVars, tabVars
  <2>2. \E obj : PutFails(obj) /\ Sincere(obj) /\ (obj.type = "order" => obj \in SignedOrders)
    <3>1. CASE session.pc = "auth"
      <4>1. PutFails(session.auth)
        BY <1>2, <3>1 DEF PublishFails
      <4>2. session.auth.type = "authorization" /\ "type" \in DOMAIN session.auth
        BY <1>0, <3>1 DEF SessionInv, Signing
      <4>3. QED
        BY <4>1, <4>2 DEF Sincere
    <3>2. CASE session.pc = "order"
      <4>1. PutFails(session.order)
        BY <1>2, <3>2 DEF PublishFails
      <4>2. session.order.type = "order" /\ session.order \in SignedOrders
        BY <1>0, <3>2 DEF SessionInv, Signing, SignedOrders
      <4>3. QED
        BY <4>1, <4>2 DEF Sincere
    <3>3. CASE session.pc = "revoke"
      <4>1. PutFails(session.revocation)
        BY <1>2, <3>3 DEF PublishFails
      <4>2. session.revocation.type = "revocation"
        BY <1>0, <3>3 DEF SessionInv
      <4>3. QED
        BY <4>1, <4>2 DEF Sincere
    <3>4. CASE session.pc = "fill"
      <4>1. PICK f : /\ f = BuildFill(next, Head(session.legs), session.order,
                               LegFee(session.order.side, Head(session.legs)), clock)
                     /\ PutFails(f)
        BY <1>2, <3>4 DEF PublishFails
      <4>2. f.type = "fill"
        BY <4>1 DEF BuildFill
      <4>3. QED
        BY <4>1, <4>2 DEF Sincere
    <3>5. QED
      BY <2>1, <3>1, <3>2, <3>3, <3>4
  <2>3. SessionInv' /\ ~Signing'
    BY <2>1, SessionElsewhere DEF Quiet
  <2>4. PICK obj : PutFails(obj) /\ Sincere(obj) /\ (obj.type = "order" => obj \in SignedOrders)
    BY <2>2
  <2>6. QED
    BY <1>0, <2>1, <2>3, <2>4, PublicationKeeps
<1>3. CASE Reload
  <2>1. /\ UNCHANGED <<stored, up, next, trades>> /\ session' = Quiet /\ refresh'.pc = "list"
    BY <1>3 DEF Reload, chainVars
  <2>2. SessionInv' /\ ~Signing'
    BY <2>1, SessionElsewhere DEF Quiet
  <2>3. QED
    BY <1>0, <2>1, <2>2, ActionGoesOn
<1>4. QED
  BY <1>1, <1>2, <1>3

-----------------------------------------------------------------------------
(***************************************************************************)
(* Everybody else.                                                         *)
(***************************************************************************)
\* What others do leaves the tab alone, and may publish objects, an order
\* among them.
LEMMA OthersPublish ==
  ASSUME AppInv, NEW objs, Adds(objs), UNCHANGED <<refresh, session>>, next' \in Nat,
         next <= next', trades \subseteq trades', up' \subseteq Nodes,
         \A r \in objs : Sincere(r)',
         NEW o, Of(objs, "order") \subseteq {o}, OrderTerms \cup {"authHash"} \subseteq DOMAIN o,
         o.eip \in Nat, o.eip < next', (\E p \in SignedOrders : SameTerms(p, o)) \/ o.eip >= next
  PROVE  AppInv'
<1>1. SessionInv' /\ RefreshInv'
  BY SessionKept, RefreshKept DEF AppInv, Adds
<1>2. SignedOrders' \subseteq SignedOrders \cup {o}
  BY DEF SignedOrders, Signing, Adds, Of
<1>3. OrdersAuthentic(SignedOrders', next')
  BY <1>2, OrdersKept DEF AppInv
<1>4. \A r \in Published' : Sincere(r)'
  BY DEF AppInv, Adds, Sincere, Reports
<1>5. QED
  BY <1>1, <1>3, <1>4 DEF AppInv

LEMMA OthersPublishNoOrder ==
  ASSUME AppInv, NEW objs, Adds(objs), UNCHANGED <<refresh, session>>, next' \in Nat,
         next <= next', trades \subseteq trades', up' \subseteq Nodes,
         \A o \in objs : o.type # "order" /\ Sincere(o)'
  PROVE  AppInv'
<1>1. SessionInv' /\ RefreshInv' /\ (Signing' => Signing /\ session'.order = session.order)
  BY SessionKept, RefreshKept DEF AppInv, Adds, Signing
<1>2. QED
  BY <1>1, NoNewOrder

LEMMA ExecuteKeeps ==
  ASSUME AppInv, NEW n, NEW f, NEW posted \in BOOLEAN, Execute(n, f, posted)
  PROVE  AppInv'
<1>0. next \in Nat /\ next <= next /\ next + 1 \in Nat /\ next <= next + 1 /\ up \subseteq Nodes
  BY DEF AppInv
<1>1. UNCHANGED <<refresh, session, up>>
  BY DEF Execute, tabVars
<1>2. PICK call \in SettleCalls(stored[n], f.hash) :
        /\ SettlesOnChain(call)
        /\ IF posted
           THEN /\ AtEveryNode({BuildReceipt(next, call, FittingOf(call), clock)})
                /\ next' = next + 1
           ELSE UNCHANGED <<stored, next>>
  BY DEF Execute
<1>3. PICK r : r = BuildReceipt(next, call, FittingOf(call), clock)
  OBVIOUS
<1>4. trades \subseteq trades' /\ r.type = "receipt" /\ Reports(r)'
  BY <1>2, <1>3, SettlementIsReported
<1>5. CASE posted
  <2>1. AtEveryNode({r}) /\ next' = next + 1
    BY <1>2, <1>3, <1>5
  <2>2. Adds({r})
    BY <2>1, AtEveryNodeAdds
  <2>3. \A o \in {r} : o.type # "order" /\ Sincere(o)'
    BY <1>4 DEF Sincere
  <2>4. QED
    BY <1>0, <1>1, <1>4, <2>1, <2>2, <2>3, OthersPublishNoOrder
<1>6. CASE ~posted
  <2>1. Adds({}) /\ next' = next
    BY <1>2, <1>6, SameAdds
  <2>2. QED
    BY <1>0, <1>1, <1>4, <2>1, OthersPublishNoOrder
<1>7. QED
  BY <1>5, <1>6

LEMMA RivalKeeps ==
  ASSUME AppInv, NEW n, NEW form, RivalPlaces(n, form)
  PROVE  AppInv'
<1>0. next \in Nat /\ up \subseteq Nodes
  BY DEF AppInv
<1>1. /\ UNCHANGED <<refresh, session, up, trades>> /\ next' = next + 2 + MaxLegs
  BY DEF RivalPlaces, tabVars, chainVars
<1>2. \E x, fills : /\ AtEveryNode({SignedBy(Rival, next, x, clock).auth,
                                     SignedBy(Rival, next, x, clock).order} \cup fills)
                    /\ \A f \in fills : f.type = "fill"
  <2> DEFINE book == FundedWith(DeriveState(stored[n], [read |-> TRUE, used |-> UsedKeys,
                       filled |-> ReadTotals(Eips(n), FilledOnChain),
                       bound |-> ReadTotals(Eips(n), BoundOnChain)], clock).orders, Capacity({}))
             m == MatchOrder(book, form.side, form.amount, form.limit, Rival, clock)
             x == [side |-> form.side, price |-> form.limit, base |-> form.amount,
                   m |-> m, filled |-> Filled(m, form.amount), market |-> FALSE,
                   maxFee |-> IF form.side = "buy"
                              THEN MaxFeeForOrder(QuoteFor(form.amount, form.limit)) ELSE 0]
             signed == SignedBy(Rival, next, x, clock)
             fill(i) == BuildFill(next + 1 + i, m.legs[i], signed.order,
                                  LegFee(form.side, m.legs[i]), clock)
             fills == {fill(i) : i \in DOMAIN m.legs}
  <2>1. AtEveryNode({signed.auth, signed.order} \cup fills)
    BY Zenon DEF RivalPlaces
  <2>2. \A i : fill(i).type = "fill"
    BY DEF BuildFill
  <2> HIDE DEF fill, x, m, book
  <2>3. \A f \in fills : f.type = "fill"
    BY <2>2
  <2>4. QED
    BY <2>1, <2>3
<1>3. PICK x, fills : /\ AtEveryNode({SignedBy(Rival, next, x, clock).auth,
                                     SignedBy(Rival, next, x, clock).order} \cup fills)
                      /\ \A f \in fills : f.type = "fill"
  BY <1>2
<1>4. PICK a, o : a = SignedBy(Rival, next, x, clock).auth /\ o = SignedBy(Rival, next, x, clock).order
  OBVIOUS
<1>5. /\ a.type = "authorization" /\ o.type = "order" /\ "type" \in DOMAIN a
      /\ OrderTerms \cup {"authHash"} \subseteq DOMAIN o /\ o.eip = next + 1
  BY <1>0, <1>4, NewOrderIsWhole
<1>6. Adds({a, o} \cup fills)
  BY <1>3, <1>4, AtEveryNodeAdds
<1>7. /\ next' \in Nat /\ next <= next' /\ o.eip \in Nat /\ o.eip < next' /\ o.eip >= next
  BY <1>0, <1>1, <1>5, MarketAssumption
<1>8. /\ Of({a, o} \cup fills, "order") \subseteq {o}
      /\ \A x1 \in {a, o} \cup fills : Sincere(x1)'
  BY <1>3, <1>5 DEF Of, Sincere
<1>9. QED
  BY <1>0, <1>1, <1>5, <1>6, <1>7, <1>8, OthersPublish

\* A copy of an object says what the object says, but for its hash, its date and,
\* of an order, the authorization object it names.
Redated(c, p, hash, date) == c = [p EXCEPT !.hash = hash, !.createdAt = date]

LEMMA CopySays ==
  ASSUME NEW n, NEW o \in Signed(n), "type" \in DOMAIN o, NEW date, NEW hash,
         NEW p \in CopiesOf(n, o), NEW c, Redated(c, p, hash, date)
  PROVE  /\ DOMAIN c = DOMAIN o /\ c.type = o.type
         /\ \A field \in DOMAIN o \ {"hash", "createdAt", "authHash"} : c[field] = o[field]
         /\ "hash" \in DOMAIN o => c.hash = hash
         /\ "createdAt" \in DOMAIN o => c.createdAt = date
         /\ o.type = "authorization" /\ "authHash" \in DOMAIN o => c.authHash = o.authHash
         /\ o.type = "order" /\ "authHash" \in DOMAIN o => c.authHash \in NamesOf(n, o)
<1>1. \/ o.type = "order" /\ \E name \in NamesOf(n, o) : p = [o EXCEPT !.authHash = name]
      \/ o.type = "authorization" /\ p = o
  BY DEF CopiesOf, Signed, Of
<1>2. CASE o.type = "authorization" /\ p = o
  BY <1>2 DEF Redated
<1>3. CASE o.type = "order" /\ \E name \in NamesOf(n, o) : p = [o EXCEPT !.authHash = name]
  <2>1. PICK name \in NamesOf(n, o) : p = [o EXCEPT !.authHash = name]
    BY <1>3
  <2>2. /\ DOMAIN p = DOMAIN o /\ \A field \in DOMAIN o \ {"authHash"} : p[field] = o[field]
        /\ "authHash" \in DOMAIN o => p.authHash = name
    BY <2>1
  <2>3. /\ DOMAIN c = DOMAIN p
        /\ \A field \in DOMAIN p \ {"hash", "createdAt"} : c[field] = p[field]
        /\ "hash" \in DOMAIN p => c.hash = hash
        /\ "createdAt" \in DOMAIN p => c.createdAt = date
    BY DEF Redated
  <2>4. QED
    BY <1>3, <2>1, <2>2, <2>3
<1>4. QED
  BY <1>1, <1>2, <1>3

LEMMA OutsideSteps ==
  ASSUME AppInv, Outside
  PROVE  AppInv'
<1>0. /\ next \in Nat /\ next <= next /\ next + 1 \in Nat /\ next <= next + 1 /\ up \subseteq Nodes
      /\ OrdersAuthentic(SignedOrders, next) /\ \A o \in Published : Sincere(o)
  BY DEF AppInv
<1>1. ASSUME NEW n \in Nodes, NEW f, NEW posted \in BOOLEAN, Execute(n, f, posted)
      PROVE  AppInv'
  BY <1>1, ExecuteKeeps
<1>2. ASSUME NEW n \in Nodes, NEW form, RivalPlaces(n, form)
      PROVE  AppInv'
  BY <1>2, RivalKeeps
<1>3. ASSUME NEW n \in Nodes, NEW o, NEW target, OtherRevokes(n, o, target)
      PROVE  AppInv'
  <2>1. PICK r : /\ AtEveryNode({r})
                 /\ r = [BuildRevocation(next, AuthOf(o, Reading(stored[n])), clock)
                           EXCEPT !.target = target]
    BY <1>3 DEF OtherRevokes
  <2>2. r.type = "revocation"
    BY <2>1 DEF BuildRevocation
  <2>3. UNCHANGED <<refresh, session, up, trades>> /\ next' = next + 1
    BY <1>3 DEF OtherRevokes, tabVars, chainVars
  <2>4. Adds({r})
    BY <2>1, AtEveryNodeAdds
  <2>5. QED
    BY <1>0, <2>2, <2>3, <2>4, OthersPublishNoOrder DEF Sincere
<1>4. ASSUME NEW n \in Nodes, NEW o \in Signed(n), NEW date, Republish(n, o, date)
      PROVE  AppInv'
  <2>1. PICK p \in CopiesOf(n, o) : AtEveryNode({[p EXCEPT !.hash = next, !.createdAt = date]})
    BY <1>4 DEF Republish
  <2>2. PICK c : Redated(c, p, next, date) /\ AtEveryNode({c})
    BY <2>1 DEF Redated
  <2>3. UNCHANGED <<refresh, session, up, trades>> /\ next' = next + 1
    BY <1>4 DEF Republish, tabVars, chainVars
  <2>4. Adds({c})
    BY <2>2, AtEveryNodeAdds
  <2>5. o \in Published /\ (o.type = "order" \/ o.type = "authorization")
    BY <1>4 DEF Published, Signed, Of
  <2>6. CASE o.type = "order"
    <3>1. o \in SignedOrders /\ OrderTerms \cup {"authHash"} \subseteq DOMAIN o /\ o.eip \in Nat /\ o.eip < next
      BY <1>0, <2>5, <2>6 DEF SignedOrders, Of, OrdersAuthentic
    <3>2. DOMAIN c = DOMAIN o /\ \A field \in OrderTerms : c[field] = o[field]
      BY <2>1, <2>2, <3>1, CopySays DEF OrderTerms
    <3>3. SameTerms(o, c) /\ c.eip = o.eip /\ c.type = "order"
      BY <2>6, <3>2 DEF SameTerms, OrderTerms
    <3>4. Of({c}, "order") \subseteq {c} /\ \A r \in {c} : Sincere(r)'
      BY <3>3 DEF Of, Sincere
    <3>5. next' \in Nat /\ next <= next' /\ c.eip \in Nat /\ c.eip < next'
      BY <1>0, <2>3, <3>1, <3>3
    <3>6. QED
      BY <1>0, <2>3, <2>4, <3>1, <3>2, <3>3, <3>4, <3>5, OthersPublish
  <2>7. CASE o.type = "authorization"
    <3>1. "type" \in DOMAIN o
      BY <1>0, <2>5, <2>7 DEF Sincere
    <3>2. DOMAIN c = DOMAIN o /\ c.type = o.type
      BY <2>1, <2>2, <3>1, CopySays
    <3>3. \A x \in {c} : x.type # "order" /\ Sincere(x)'
      BY <2>7, <3>1, <3>2 DEF Sincere
    <3>4. QED
      BY <1>0, <2>3, <2>4, <3>3, OthersPublishNoOrder
  <2>8. QED
    BY <2>5, <2>6, <2>7
<1>9. ASSUME NEW n \in Nodes, NEW f, NEW moved, ForgeReceipt(n, f, moved)
      PROVE  AppInv'
  <2>1. PICK call, more : AtEveryNode({[BuildReceipt(next, call, moved, clock)
                                          EXCEPT !.key.fee = @ + more, !.by = "anyone"]})
    BY <1>9 DEF ForgeReceipt
  <2>2. PICK r : /\ AtEveryNode({r})
                 /\ r = [BuildReceipt(next, call, moved, clock)
                           EXCEPT !.key.fee = @ + more, !.by = "anyone"]
    BY <2>1
  <2>3. r.type = "receipt" /\ r.by = "anyone"
    BY <2>2 DEF BuildReceipt
  <2>4. UNCHANGED <<refresh, session, up, trades>> /\ next' = next + 1
    BY <1>9 DEF ForgeReceipt, tabVars, chainVars
  <2>5. Adds({r})
    BY <2>2, AtEveryNodeAdds
  <2>6. QED
    BY <1>0, <2>3, <2>4, <2>5, OthersPublishNoOrder DEF Sincere
<1>5. CASE \E n \in Nodes : NodeDown(n) \/ NodeUp(n)
  <2>1. /\ UNCHANGED <<refresh, session, stored, trades, next>> /\ up' \subseteq Nodes
    BY <1>0, <1>5 DEF NodeDown, NodeUp, tabVars, chainVars
  <2>2. QED
    BY <1>0, <2>1, SameAdds, OthersPublishNoOrder
<1>6. CASE Propagate
  <2>1. UNCHANGED <<refresh, session, up, trades, next>>
    BY <1>6 DEF Propagate, tabVars, chainVars
  <2>2. QED
    BY <1>0, <1>6, <2>1, PropagateAdds, OthersPublishNoOrder
<1>7. CASE Tick
  <2>1. UNCHANGED <<refresh, session, stored, up, trades, next>>
    BY <1>7 DEF Tick, tabVars, chainVars, nodeVars
  <2>2. QED
    BY <1>0, <2>1, SameAdds, OthersPublishNoOrder
<1>8. QED
  BY <1>1, <1>2, <1>3, <1>4, <1>5, <1>6, <1>7, <1>9 DEF Outside

-----------------------------------------------------------------------------
(***************************************************************************)
(* The invariant.                                                          *)
(***************************************************************************)
LEMMA InitApp == Init => AppInv
<1> SUFFICES ASSUME Init
             PROVE  AppInv
  OBVIOUS
<1>1. PICK s \in DOMAIN Listings : Published \subseteq Listings[s]
  <2>1. PICK s \in DOMAIN Allowed : stored = [n \in Nodes |-> Listings[s]]
    BY DEF Init
  <2>2. QED
    BY <2>1, AppAssumption DEF Published
<1>2. /\ next = InitialHash /\ up = Nodes /\ refresh.pc = "idle" /\ session = Quiet
  BY DEF Init, Quiet
<1>3. SessionInv /\ RefreshInv /\ ~Signing
  BY <1>2 DEF SessionInv, RefreshInv, Signing, Quiet
<1>4. OrdersAuthentic(SignedOrders, next)
  BY <1>1, <1>2, <1>3, ListingsAssumption, AppAssumption DEF OrdersAuthentic, SignedOrders, Of
<1>5. \A o \in Published : Sincere(o)
  <2>1. SUFFICES ASSUME NEW o \in Published
                 PROVE  Sincere(o)
    OBVIOUS
  <2>2. WellFormed(o) /\ o.type # "receipt"
    BY <1>1, ListingsAssumption DEF Of
  <2>3. o.type = "authorization" => "type" \in DOMAIN o
    BY <2>2 DEF WellFormed, AuthTerms
  <2>4. QED
    BY <2>2, <2>3 DEF Sincere
<1>6. QED
  BY <1>2, <1>3, <1>4, <1>5, AppAssumption DEF AppInv

LEMMA NextApp == AppInv /\ [Next]_vars => AppInv'
<1> SUFFICES ASSUME AppInv, [Next]_vars
             PROVE  AppInv'
  OBVIOUS
<1>1. CASE UNCHANGED vars
  BY <1>1 DEF vars, chainVars, nodeVars, tabVars, AppInv, SessionInv, RefreshInv, Signing,
              Sincere, Reports, Published, SignedOrders
<1>2. CASE Next
  BY <1>2, RefreshSteps, StartSteps, SessionSteps, EndingSteps, OutsideSteps DEF Next
<1>3. QED
  BY <1>1, <1>2

LEMMA AppInvariance == Spec => []AppInv
<1>1. QED
  BY InitApp, NextApp, PTL DEF Spec

-----------------------------------------------------------------------------
(***************************************************************************)
(* What the page makes of a listing.                                       *)
(***************************************************************************)
\* A revocation by its owner, of the authorization or of any valid copy, reaches
\* the canonical order.
LEMMA RevocationsReach ==
  ASSUME NEW objs, \A o, p \in Of(objs, "order") : o.eip = p.eip => SameTerms(o, p),
         NEW x \in Reading(objs).canonical,
         NEW r \in Of(objs, "revocation"), r.signer = x.trader,
         \/ r.target = AuthOf(x, Reading(objs)).hash
         \/ \E c \in Reading(objs).orders : c.eip = x.eip /\ c.hash = r.target
  PROVE  x \in Reading(objs).revoked
<1>1. PICK auths : auths = ValidAuths(objs)
  OBVIOUS
<1>2. PICK orders : orders = ValidOrders(objs, auths)
  OBVIOUS
<1>3. PICK targets : targets = RevokedTargets(objs, auths, orders)
  OBVIOUS
<1>4. /\ Reading(objs).canonical = Canonical(orders) /\ Reading(objs).auths = auths
      /\ Reading(objs).orders = orders
      /\ Reading(objs).revoked = RevokedOrders(orders, targets)
  BY <1>1, <1>2, <1>3 DEF Reading
<1>5. x \in orders /\ x \in Of(objs, "order")
  BY <1>2, <1>4 DEF Canonical, ValidOrders
<1>6. PICK a \in auths : OrderUnder(x, a)
  BY <1>2, <1>5 DEF ValidOrders
<1>7. a.hash = x.authHash /\ a.grantor = x.trader
  BY <1>6 DEF OrderUnder
<1>8. CASE r.target = AuthOf(x, Reading(objs)).hash
  <2>1. AuthOf(x, Reading(objs)).hash = x.authHash
    BY <1>4, <1>7 DEF AuthOf
  <2>2. a.hash \in targets
    BY <1>3, <1>7, <1>8, <2>1 DEF RevokedTargets, VerifySigned
  <2>3. QED
    BY <1>4, <1>5, <1>7, <2>2 DEF RevokedOrders
<1>9. CASE \E c \in Reading(objs).orders : c.eip = x.eip /\ c.hash = r.target
  <2>1. PICK c \in orders : c.eip = x.eip /\ c.hash = r.target
    BY <1>4, <1>9
  <2>2. c \in Of(objs, "order")
    BY <1>2 DEF ValidOrders
  <2>3. c.trader = x.trader
    BY <1>5, <2>1, <2>2 DEF SameTerms, OrderTerms
  <2>4. c.hash \in targets
    BY <1>3, <2>1, <2>3 DEF RevokedTargets, VerifySigned
  <2>5. QED
    BY <1>4, <1>5, <2>1, <2>4 DEF RevokedOrders
<1>10. QED
  BY <1>8, <1>9

\* An entry of the book is a canonical order.
LEMMA BookEntries ==
  ASSUME NEW objs, NEW chain, NEW now, NEW o \in DeriveState(objs, chain, now).orders
  PROVE  \E x \in Reading(objs).canonical :
           /\ o.maker = x.trader /\ o.eip = x.eip /\ o.auth = AuthOf(x, Reading(objs))
           /\ o.cancelled = (x \in Reading(objs).revoked)
<1>1. PICK r : r = Reading(objs)
  OBVIOUS
<1>2. \E fills : \E x \in r.canonical : o = RestingOrder(x, fills, r, chain, now)
  <2> DEFINE fills == {FillView(x, r, chain, now) : x \in Counted(r)}
  <2>1. o \in {RestingOrder(x, fills, r, chain, now) : x \in r.canonical}
    BY <1>1 DEF DeriveState
  <2> HIDE DEF fills
  <2>2. QED
    BY <2>1
<1>3. PICK fills : \E x \in r.canonical : o = RestingOrder(x, fills, r, chain, now)
  BY <1>2
<1>4. PICK x \in r.canonical : o = RestingOrder(x, fills, r, chain, now)
  BY <1>3
<1>5. /\ o.maker = x.trader /\ o.eip = x.eip /\ o.auth = AuthOf(x, r)
      /\ o.cancelled = (x \in r.revoked)
  BY <1>4 DEF RestingOrder
<1>6. QED
  BY <1>1, <1>4, <1>5

(* Once the objects a refresh has read include a cancellation by the owner,  *)
(* of any copy of the order that stands under an authorization, or of the    *)
(* authorization object the book has the order under, no copy of that order  *)
(* is live, under whatever date and with whatever authorization object       *)
(* anybody published it (aon.ts:217-243).                                    *)
THEOREM CancelledStays == Spec => CancelSticks
<1>1. ASSUME AppInv, ReadBound
      PROVE  \A o \in refresh'.derived.orders, r \in Of(refresh.objs, "revocation") :
               (r.signer = o.maker /\ \/ r.target = o.auth.hash
                                      \/ \E c \in Reading(refresh.objs).orders :
                                           c.eip = o.eip /\ c.hash = r.target)
                 => ~IsLive(o)
  <2>1. PICK objs : objs = refresh.objs
    OBVIOUS
  <2>2. PICK chain : refresh'.derived = DeriveState(objs, chain, clock)
    BY <1>1, <2>1 DEF ReadBound, Rederive
  <2>3. refresh.objs \subseteq Published
    BY <1>1 DEF AppInv, RefreshInv, ReadBound
  <2>4. \A o, p \in Of(objs, "order") : o.eip = p.eip => SameTerms(o, p)
    BY <1>1, <2>1, <2>3 DEF AppInv, OrdersAuthentic, SignedOrders, Of
  <2>5. ASSUME NEW o \in refresh'.derived.orders, NEW r \in Of(objs, "revocation"),
               r.signer = o.maker,
               \/ r.target = o.auth.hash
               \/ \E c \in Reading(objs).orders : c.eip = o.eip /\ c.hash = r.target
        PROVE  ~IsLive(o)
    <3>1. PICK x \in Reading(objs).canonical :
            /\ o.maker = x.trader /\ o.eip = x.eip /\ o.auth = AuthOf(x, Reading(objs))
            /\ o.cancelled = (x \in Reading(objs).revoked)
      BY <2>2, <2>5, BookEntries
    <3>2. x \in Reading(objs).revoked
      BY <2>4, <2>5, <3>1, RevocationsReach
    <3>3. QED
      BY <3>1, <3>2 DEF IsLive
  <2>6. QED
    BY <2>1, <2>5
<1>2. AppInv => [ReadBound =>
         \A o \in refresh'.derived.orders, r \in Of(refresh.objs, "revocation") :
           (r.signer = o.maker /\ \/ r.target = o.auth.hash
                                  \/ \E c \in Reading(refresh.objs).orders :
                                       c.eip = o.eip /\ c.hash = r.target)
             => ~IsLive(o)]_vars
  BY <1>1
<1>3. QED
  BY <1>2, AppInvariance, PTL DEF CancelSticks

-----------------------------------------------------------------------------
(***************************************************************************)
(* What a match of the book returns.                                       *)
(***************************************************************************)
\* The numbers the book sorts by and takes from.
OfferNumbers(o) ==
  o.price \in Nat /\ o.createdAt \in Nat /\ o.hash \in Nat /\ o.remaining \in Nat

Legs(orders) ==
  {l \in [order : orders, base : Nat, price : Nat, quote : Nat] :
     /\ l.base <= l.order.remaining
     /\ l.price = l.order.price /\ l.quote = QuoteFor(l.base, l.price)}

Matches(orders, amount) ==
  {m \in [left : 0..amount, legs : Seq(Legs(orders)), quote : Nat, selfCross : BOOLEAN] :
     Len(m.legs) <= MaxLegs}

LEMMA QuoteNat ==
  ASSUME NEW base \in Nat, NEW price \in Nat
  PROVE  QuoteFor(base, price) \in Nat
<1>1. base * price \in Nat
  OBVIOUS
<1>2. PICK n \in Nat : n = base * price
  BY <1>1
<1>3. n \div Scale \in Nat
  BY MarketAssumption
<1>4. QED
  BY <1>2, <1>3 DEF QuoteFor

LEMMA MinOfTwo ==
  ASSUME NEW a \in Int, NEW b \in Int
  PROVE  /\ Min({a, b}) \in {a, b} /\ Min({a, b}) <= a /\ Min({a, b}) <= b
         /\ Max({a, b}) \in {a, b} /\ Max({a, b}) >= a /\ Max({a, b}) >= b
<1>1. /\ \E x \in {a, b} : \A y \in {a, b} : x <= y
      /\ \E x \in {a, b} : \A y \in {a, b} : x >= y
  <2>1. CASE a <= b
    BY <2>1
  <2>2. CASE b <= a
    BY <2>2
  <2>3. QED
    BY <2>1, <2>2
<1>2. QED
  BY <1>1 DEF Min, Max

LEMMA BeforeIsAnOrder ==
  ASSUME NEW a, NEW b, NEW c, OfferNumbers(a), OfferNumbers(b), OfferNumbers(c),
         a.side = b.side
  PROVE  ~Before(a, a) /\ (Before(a, b) /\ Before(b, c) => Before(a, c))
  BY DEF OfferNumbers, Before, Earlier

\* Some order of a side is the last of it.
LEMMA SomeOrderIsLast ==
  ASSUME NEW S, IsFiniteSet(S), S # {}, NEW side,
         \A o \in S : OfferNumbers(o) /\ o.side = side
  PROVE  LastOf(S) \in S /\ \A p \in S : ~Before(LastOf(S), p)
<1> DEFINE IsLast(T) == \E o \in T : \A p \in T : ~Before(o, p)
           Good    == {T \in SUBSET S : T = {} \/ IsLast(T)}
<1>1. ASSUME NEW T \in SUBSET S, \A x \in T : T \ {x} \in Good
      PROVE  T \in Good
  <2>1. CASE T = {}
    BY <2>1
  <2>2. CASE T # {}
    <3>1. PICK x \in T : TRUE
      BY <2>2
    <3>2. ~Before(x, x)
      BY <3>1, BeforeIsAnOrder
    <3>3. CASE T = {x}
      BY <3>2, <3>3
    <3>4. CASE T # {x}
      <4>1. IsLast(T \ {x})
        BY <1>1, <3>1, <3>4
      <4>2. PICK m \in T \ {x} : \A p \in T \ {x} : ~Before(m, p)
        BY <4>1
      <4>3. CASE ~Before(m, x)
        BY <4>2, <4>3
      <4>4. CASE Before(m, x)
        <5>1. ASSUME NEW p \in T PROVE ~Before(x, p)
          <6>1. Before(m, x) /\ Before(x, p) => Before(m, p)
            BY <3>1, <4>2, BeforeIsAnOrder
          <6>2. QED
            BY <3>2, <4>2, <4>4, <6>1
        <5>2. QED
          BY <5>1
      <4>5. QED
        BY <4>3, <4>4
    <3>5. QED
      BY <3>3, <3>4
  <2>3. QED
    BY <2>1, <2>2
<1>2. S \in Good
  <2> HIDE DEF Good
  <2>1. QED
    BY <1>1, SubsetInduction
<1>3. IsLast(S)
  BY <1>2
<1>4. QED
  BY <1>3 DEF LastOf

\* One order more leaves a match a match.
LEMMA TakeKeepsMatch ==
  ASSUME NEW orders, NEW amount \in Nat, NEW me, NEW acc \in Matches(orders, amount),
         NEW o \in orders, OfferNumbers(o)
  PROVE  TakeFrom(acc, o, me) \in Matches(orders, amount)
<1>1. PICK base : base = Min({acc.left, o.remaining})
  OBVIOUS
<1>2. /\ acc.left \in 0..amount /\ acc.legs \in Seq(Legs(orders)) /\ acc.quote \in Nat
      /\ Len(acc.legs) \in Nat /\ Len(acc.legs) <= MaxLegs
  BY DEF Matches
<1>3. base \in Nat /\ base <= acc.left /\ base <= o.remaining /\ acc.left - base \in 0..amount
  <2>1. acc.left \in Int /\ o.remaining \in Int /\ o.remaining \in Nat /\ acc.left \in Nat
    BY <1>2 DEF OfferNumbers
  <2>2. base \in {acc.left, o.remaining} /\ base <= acc.left /\ base <= o.remaining
    BY <1>1, <2>1, MinOfTwo
  <2>3. QED
    BY <1>2, <2>1, <2>2
<1>4. PICK quote : quote = QuoteFor(base, o.price)
  OBVIOUS
<1>5. quote \in Nat
  BY <1>3, <1>4, QuoteNat DEF OfferNumbers
<1>6. PICK leg : leg = [order |-> o, base |-> base, price |-> o.price, quote |-> quote]
  OBVIOUS
<1>7. leg \in Legs(orders)
  BY <1>3, <1>4, <1>5, <1>6 DEF Legs, OfferNumbers
<1>8. Append(acc.legs, leg) \in Seq(Legs(orders))
  BY <1>2, <1>7
<1>9. Len(acc.legs) < MaxLegs =>
        [acc EXCEPT !.left = @ - base, !.quote = @ + quote, !.legs = Append(@, leg)]
          \in Matches(orders, amount)
  <2>1. PICK L : L = Seq(Legs(orders))
    OBVIOUS
  <2>2. PICK more \in L : more = Append(acc.legs, leg)
    BY <1>8, <2>1
  <2>8. Len(more) = Len(acc.legs) + 1
    BY <1>2, <2>2
  <2>3. acc \in [left : 0..amount, legs : L, quote : Nat, selfCross : BOOLEAN]
    BY <2>1 DEF Matches
  <2>4. PICK l \in 0..amount : l = acc.left - base
    BY <1>3
  <2>5. PICK q \in Nat : q = acc.quote + quote
    BY <1>2, <1>5
  <2>6. PICK m : m = [acc EXCEPT !.left = l, !.quote = q, !.legs = more]
    OBVIOUS
  <2>7. m \in [left : 0..amount, legs : L, quote : Nat, selfCross : BOOLEAN] /\ m.legs = more
    BY <2>3, <2>6
  <2>9. m = [acc EXCEPT !.left = @ - base, !.quote = @ + quote, !.legs = Append(@, leg)]
    BY <2>2, <2>4, <2>5, <2>6
  <2>10. Len(acc.legs) < MaxLegs => m \in Matches(orders, amount)
    BY <1>2, <2>1, <2>7, <2>8, MarketAssumption DEF Matches
  <2>11. QED
    BY <2>9, <2>10
<1>10. [acc EXCEPT !.selfCross = TRUE] \in Matches(orders, amount)
  BY DEF Matches
<1>11. \/ TakeFrom(acc, o, me) \in {acc, [acc EXCEPT !.selfCross = TRUE]}
       \/ /\ ~(Len(acc.legs) >= MaxLegs)
          /\ TakeFrom(acc, o, me) =
               [acc EXCEPT !.left = @ - base, !.quote = @ + quote, !.legs = Append(@, leg)]
  BY <1>1, <1>4, <1>6, Zenon DEF TakeFrom
<1>12. ~(Len(acc.legs) >= MaxLegs) => Len(acc.legs) < MaxLegs
  BY <1>2, MarketAssumption
<1>13. QED
  BY <1>9, <1>10, <1>11, <1>12

\* What taking the last of some offers keeps true of the match so far.
Carried(inv, S, me) == \A T \in SUBSET S : \A o \in T : o = LastOf(T) =>
  \A acc \in inv[T \ {o}] : TakeFrom(acc, o, me) \in inv[T]

\* What holds of a match of no orders, and of a match of more orders when it
\* holds of the one without the last of them, holds of the match.
LEMMA MatchFolds ==
  ASSUME NEW book, IsFiniteSet(book), \A o \in book : OfferNumbers(o),
         NEW side, NEW amount \in Nat, NEW limit, NEW me, NEW now,
         NEW S, S = Matchable(book, side, limit, now), NEW inv,
         [left |-> amount, legs |-> <<>>, quote |-> 0, selfCross |-> FALSE] \in inv[{}], Carried(inv, S, me)
  PROVE  MatchOrder(book, side, amount, limit, me, now) \in inv[S]
<1>2. PICK start : start = [left |-> amount, legs |-> <<>>, quote |-> 0, selfCross |-> FALSE]
  OBVIOUS
<1>3. S \subseteq book /\ \A o \in S : o.side = Opposite(side)
  BY DEF Matchable
<1>4. IsFiniteSet(S) /\ \A o \in S : OfferNumbers(o)
  BY <1>3, FS_Subset
<1>5. start \in inv[{}]
  BY <1>2
<1> DEFINE Step(T, g) == IF T = {} THEN start ELSE TakeFrom(g[T \ {LastOf(T)}], LastOf(T), me)
           Table(g)   == g = [T \in SUBSET S |-> Step(T, g)]
<1>6. MatchOrder(book, side, amount, limit, me, now) = (CHOOSE g : Table(g))[S]
  BY <1>2 DEF MatchOrder, InBookOrder, MapThenFoldSet
<1>7. \A T \in SUBSET S : T # {} => LastOf(T) \in T
  BY <1>3, <1>4, FS_Subset, SomeOrderIsLast
<1>8. \E g : Table(g)
  <2>1. PICK pick : pick = [T \in SUBSET S |-> LastOf(T)]
    OBVIOUS
  <2>2. PICK F : F = [x \in (UNION {inv[T] : T \in SUBSET S}) \X S |-> TakeFrom(x[1], x[2], me)]
    OBVIOUS
  <2>3. PICK g : IsFoldTable(start, pick, F, S, g)
    BY <1>4, <1>7, <2>1, FoldTableExists
  <2>4. \A T \in SUBSET S : g[T] = FoldStep(start, pick, F, T, g)
    BY <2>3 DEF IsFoldTable
  <2> DEFINE Good == {T \in SUBSET S : g[T] \in inv[T]}
  <2>5. ASSUME NEW T \in SUBSET S, \A x \in T : T \ {x} \in Good
        PROVE  T \in Good /\ g[T] = Step(T, g)
    <3>1. CASE T = {}
      BY <1>5, <2>4, <3>1 DEF FoldStep
    <3>2. CASE T # {}
      <4>1. PICK o : o = LastOf(T) /\ o \in T /\ pick[T] = o
        BY <1>7, <2>1, <3>2
      <4>2. PICK acc : acc = g[T \ {o}]
        OBVIOUS
      <4>3. acc \in inv[T \ {o}] /\ T \ {o} \in SUBSET S /\ o \in S
        BY <2>5, <4>1, <4>2
      <4>4. F[<<acc, o>>] = TakeFrom(acc, o, me)
        <5>1. acc \in UNION {inv[R] : R \in SUBSET S}
          BY <4>3
        <5>2. QED
          BY <2>2, <4>3, <5>1
      <4>5. g[T] = TakeFrom(acc, o, me)
        BY <2>4, <3>2, <4>1, <4>2, <4>4 DEF FoldStep
      <4>6. TakeFrom(acc, o, me) \in inv[T]
        BY <4>1, <4>3 DEF Carried
      <4>7. QED
        BY <3>2, <4>1, <4>2, <4>5, <4>6
    <3>3. QED
      BY <3>1, <3>2
  <2>6. SUBSET S \subseteq Good
    <3> HIDE DEF Good, Step
    <3>1. \A T \in SUBSET S : (\A x \in T : T \ {x} \in Good) => T \in Good
      BY ONLY <2>5
    <3>2. IsFiniteSet(S)
      BY <1>4
    <3>3. QED
      BY ONLY <3>1, <3>2, SubsetInduction
  <2>7. \A T \in SUBSET S : g[T] = Step(T, g)
    <3> HIDE DEF Good, Step
    <3>1. QED
      BY <2>5, <2>6
  <2>8. g = [T \in SUBSET S |-> g[T]]
    BY <2>3 DEF IsFoldTable
  <2>9. g = [T \in SUBSET S |-> Step(T, g)]
    <3> HIDE DEF Step
    <3>1. QED
      BY <2>7, <2>8
  <2>10. QED
    BY <2>9
<1>9. PICK g : g = CHOOSE h : Table(h)
  OBVIOUS
<1>10. Table(g)
  BY <1>8, <1>9
<1>11. \A T \in SUBSET S : g[T] = Step(T, g)
  <2> HIDE DEF Step
  <2>1. QED
    BY <1>10
<1> DEFINE Good == {T \in SUBSET S : g[T] \in inv[T]}
<1>12. ASSUME NEW T \in SUBSET S, \A x \in T : T \ {x} \in Good
       PROVE  T \in Good
  <2>1. CASE T = {}
    BY <1>5, <1>11, <2>1
  <2>2. CASE T # {}
    <3>1. PICK o : o = LastOf(T) /\ o \in T
      BY <1>7, <2>2
    <3>2. PICK acc : acc = g[T \ {o}]
      OBVIOUS
    <3>3. acc \in inv[T \ {o}]
      BY <1>12, <3>1, <3>2
    <3>4. g[T] = TakeFrom(acc, o, me)
      BY <1>11, <2>2, <3>1, <3>2
    <3>5. TakeFrom(acc, o, me) \in inv[T]
      BY <3>1, <3>3 DEF Carried
    <3>6. QED
      BY <3>4, <3>5
  <2>3. QED
    BY <2>1, <2>2
<1>13. S \in Good
  <2> HIDE DEF Good, Step, Table
  <2>1. \A T \in SUBSET S : (\A x \in T : T \ {x} \in Good) => T \in Good
    BY ONLY <1>12
  <2>2. IsFiniteSet(S)
    BY <1>4
  <2>3. SUBSET S \subseteq Good
    BY ONLY <2>1, <2>2, SubsetInduction
  <2>4. QED
    BY <2>3
<1>14. g[S] \in inv[S]
  BY <1>13
<1> HIDE DEF Good, Step, Table
<1>15. QED
  BY <1>6, <1>9, <1>14

\* A match makes at most MaxLegs legs, of orders on the book, each at the price
\* of its order and within what is left of it, and leaves between nothing and
\* what was asked (matchOrder, aon.ts:432-464).
LEMMA MatchTakesLegs ==
  ASSUME NEW book, IsFiniteSet(book), \A o \in book : OfferNumbers(o),
         NEW side, NEW amount \in Nat, NEW limit, NEW me, NEW now
  PROVE  MatchOrder(book, side, amount, limit, me, now) \in Matches(book, amount)
<1>1. PICK S : S = Matchable(book, side, limit, now)
  OBVIOUS
<1>2. S \subseteq book
  BY <1>1 DEF Matchable
<1>3. PICK inv : inv = [T \in SUBSET S |-> Matches(book, amount)]
  OBVIOUS
<1>4. [left |-> amount, legs |-> <<>>, quote |-> 0, selfCross |-> FALSE] \in inv[{}]
  BY <1>3, MarketAssumption DEF Matches
<1>5. \A T \in SUBSET S : inv[T] = Matches(book, amount)
  BY <1>3
<1>6. ASSUME NEW T \in SUBSET S, NEW o \in T, NEW acc \in inv[T \ {o}]
      PROVE  TakeFrom(acc, o, me) \in inv[T]
  <2>1. acc \in Matches(book, amount) /\ o \in book
    BY <1>2, <1>5, <1>6
  <2>2. QED
    BY <1>5, <2>1, TakeKeepsMatch
<1>7. MatchOrder(book, side, amount, limit, me, now) \in inv[S]
  BY <1>1, <1>4, <1>6, MatchFolds DEF Carried
<1>8. QED
  BY <1>5, <1>7

-----------------------------------------------------------------------------
(***************************************************************************)
(* Images, least elements and sums of finite sets.                         *)
(***************************************************************************)
LEMMA ImageIsFinite ==
  ASSUME NEW S, IsFiniteSet(S), NEW f
  PROVE  IsFiniteSet({f[x] : x \in S})
<1>1. PICK T : T = {f[x] : x \in S}
  OBVIOUS
<1>2. PICK g : g = [x \in S |-> f[x]]
  OBVIOUS
<1>3. g \in Surjection(S, T)
  BY <1>1, <1>2 DEF Surjection
<1>4. QED
  BY <1>1, <1>3, FS_Surjection

\* A nonempty finite set of integers has a least element.
LEMMA MinOfSome ==
  ASSUME NEW S, IsFiniteSet(S), S # {}, S \subseteq Int
  PROVE  Min(S) \in S /\ \A x \in S : Min(S) <= x
<1> DEFINE Least(T) == \E x \in T : \A y \in T : x <= y
           Good     == {T \in SUBSET S : T = {} \/ Least(T)}
<1>1. ASSUME NEW T \in SUBSET S, \A x \in T : T \ {x} \in Good
      PROVE  T \in Good
  <2>1. CASE T = {}
    BY <2>1
  <2>2. CASE T # {}
    <3>1. PICK x \in T : x \in Int
      BY <2>2
    <3>2. CASE T = {x}
      BY <3>1, <3>2
    <3>3. CASE T # {x}
      <4>0. T \ {x} \in Good /\ T \ {x} # {}
        BY <1>1, <3>1, <3>3
      <4>1. PICK m \in T \ {x} : \A y \in T \ {x} : m <= y
        BY <4>0
      <4>2. m \in Int /\ \A y \in T : y \in Int
        BY <4>1
      <4>3. CASE m <= x
        BY <4>1, <4>3
      <4>4. CASE x <= m
        BY <3>1, <4>1, <4>2, <4>4
      <4>5. QED
        BY <3>1, <4>2, <4>3, <4>4
    <3>4. QED
      BY <3>2, <3>3
  <2>3. QED
    BY <2>1, <2>2
<1>2. S \in Good
  <2> HIDE DEF Good
  <2>1. QED
    BY <1>1, SubsetInduction
<1>3. Least(S)
  BY <1>2
<1>4. QED
  BY <1>3 DEF Min

LEMMA Clamped ==
  ASSUME NEW n \in Int
  PROVE  AtLeastZero(n) \in Nat /\ AtLeastZero(n) \in {n, 0} /\ AtLeastZero(n) >= n
<1>1. /\ Max({n, 0}) \in {n, 0} /\ Max({n, 0}) >= n /\ Max({n, 0}) >= 0
  <2>1. PICK z \in Int : z = 0
    OBVIOUS
  <2>2. /\ Max({n, z}) \in {n, z} /\ Max({n, z}) >= n /\ Max({n, z}) >= z
    BY MinOfTwo
  <2>3. QED
    BY <2>1, <2>2
<1>2. QED
  BY <1>1 DEF AtLeastZero

LEMMA SumIsNat ==
  ASSUME NEW f, IsFiniteSet(DOMAIN f), \A x \in DOMAIN f : f[x] \in Nat
  PROVE  SumFunction(f) \in Nat
  BY SumType DEF SumFunction

LEMMA SumBaseIsNat ==
  ASSUME NEW S, IsFiniteSet(S), \A x \in S : x.base \in Nat
  PROVE  SumBase(S) \in Nat
<1>1. PICK f : f = [x \in S |-> x.base]
  OBVIOUS
<1>2. DOMAIN f = S /\ \A x \in S : f[x] \in Nat
  BY <1>1
<1>3. QED
  BY <1>1, <1>2, SumIsNat DEF SumBase

\* The sum over a set, by a function that gives each element its base.
LEMMA SumBaseBy ==
  ASSUME NEW S, IsFiniteSet(S), NEW f, \A x \in S : f[x] = x.base
  PROVE  SumBase(S) = SumFunctionOnSet(f, S)
<1>1. PICK g : g = [x \in S |-> x.base]
  OBVIOUS
<1>2. DOMAIN g = S /\ \A x \in S : g[x] = f[x]
  BY <1>1
<1>3. SumFunctionOnSet(g, S) = SumFunctionOnSet(f, S)
  BY <1>2, SumAgrees
<1>4. QED
  BY <1>1, <1>2, <1>3 DEF SumBase, SumFunction

LEMMA SumBaseOfPart ==
  ASSUME NEW S, IsFiniteSet(S), \A x \in S : x.base \in Nat, NEW R \in SUBSET S
  PROVE  SumBase(R) <= SumBase(S) /\ SumBase(R) \in Nat /\ SumBase(S) \in Nat
<1>1. PICK f : f = [x \in S |-> x.base]
  OBVIOUS
<1>2. (\A x \in S : f[x] = x.base) /\ IsFiniteSet(R)
  BY <1>1, FS_Subset
<1>3. SumBase(S) = SumFunctionOnSet(f, S) /\ SumBase(R) = SumFunctionOnSet(f, R)
  BY <1>2, SumBaseBy
<1>4. SumFunctionOnSet(f, R) <= SumFunctionOnSet(f, S)
  BY <1>2, SumOfPart
<1>5. QED
  BY <1>2, <1>3, <1>4, SumBaseIsNat

-----------------------------------------------------------------------------
(***************************************************************************)
(* The numbers of a book.                                                  *)
(***************************************************************************)
\* Finitely many objects, with natural numbers.
Readable(objs) == IsFiniteSet(objs) /\ \A o \in objs : o.hash \in Nat /\ WellFormed(o)

ChainNumbers(chain) ==
  /\ \A e \in DOMAIN chain.filled : chain.filled[e] \in Nat
  /\ \A e \in DOMAIN chain.bound : chain.bound[e] \in Nat

EntryFields == {"hash", "price", "base", "remaining", "pending", "createdAt",
                "feeBudgetLeft", "auth"}
EntryOK(o) ==
  /\ EntryFields \subseteq DOMAIN o /\ OfferNumbers(o) /\ o.remaining <= o.base
  /\ {o.base, o.pending, o.feeBudgetLeft, o.auth.maxQuote, o.auth.maxFee} \subseteq Nat
BookOK(orders) == IsFiniteSet(orders) /\ \A o \in orders : EntryOK(o)

\* What a reading holds: valid authorizations and orders of the listing.
LEMMA ReadingHolds ==
  ASSUME NEW objs
  PROVE  LET r == Reading(objs)
         IN  /\ r.objs = objs /\ r.auths \subseteq Of(objs, "authorization")
             /\ r.orders \subseteq Of(objs, "order") /\ r.canonical = Canonical(r.orders)
             /\ \A o \in r.canonical : o \in r.orders /\ AuthOf(o, r) \in r.auths
<1>1. PICK r : r = Reading(objs)
  OBVIOUS
<1>2. PICK auths : auths = ValidAuths(objs)
  OBVIOUS
<1>3. PICK orders : orders = ValidOrders(objs, auths)
  OBVIOUS
<1>4. /\ r.objs = objs /\ r.auths = auths /\ r.orders = orders /\ r.canonical = Canonical(orders)
  BY <1>1, <1>2, <1>3 DEF Reading
<1>5. auths \subseteq Of(objs, "authorization") /\ orders \subseteq Of(objs, "order")
  BY <1>2, <1>3 DEF ValidAuths, ValidOrders
<1>6. \A o \in orders : \E a \in auths : a.hash = o.authHash
  BY <1>3 DEF ValidOrders, OrderUnder
<1>7. \A o \in orders : AuthOf(o, r) \in auths
  BY <1>4, <1>6 DEF AuthOf
<1>8. QED
  BY <1>1, <1>4, <1>5, <1>7 DEF Canonical

\* The fills that count are fills of the listing between canonical orders.
LEMMA CountedFills ==
  ASSUME NEW objs, NEW x \in Counted(Reading(objs))
  PROVE  /\ x.obj \in Of(objs, "fill") /\ x.maker \in Reading(objs).canonical
         /\ x.taker \in Reading(objs).canonical /\ x.key = FillKeyOf(x.obj, x.maker, x.taker)
         /\ x = [obj |-> x.obj, maker |-> x.maker, taker |-> x.taker, key |-> x.key]
<1>1. PICK r : r = Reading(objs)
  OBVIOUS
<1>2. x \in Resolved(r) /\ r.objs = objs
  BY <1>1, ReadingHolds DEF Counted
<1>3. PICK f \in Of(r.objs, "fill") :
        \E m \in Resolve(f.makerOrder, r), t \in Resolve(f.takerOrder, r) :
          x = [obj |-> f, maker |-> m, taker |-> t, key |-> FillKeyOf(f, m, t)]
  BY <1>2 DEF Resolved
<1>4. QED
  BY <1>1, <1>2, <1>3 DEF Resolve

LEMMA CountedIsFinite ==
  ASSUME NEW objs, IsFiniteSet(objs)
  PROVE  IsFiniteSet(Counted(Reading(objs)))
<1>1. PICK r : r = Reading(objs)
  OBVIOUS
<1>2. PICK triples : triples = objs \X (objs \X objs)
  OBVIOUS
<1>3. IsFiniteSet(triples)
  BY <1>2, FS_Product
<1>4. PICK g : g = [p \in triples |-> [obj |-> p[1], maker |-> p[2][1], taker |-> p[2][2],
                                       key |-> FillKeyOf(p[1], p[2][1], p[2][2])]]
  OBVIOUS
<1>5. IsFiniteSet({g[p] : p \in triples})
  BY <1>3, ImageIsFinite
<1>6. ASSUME NEW x \in Counted(r) PROVE x \in {g[p] : p \in triples}
  <2>1. PICK f, m, t : f = x.obj /\ m = x.maker /\ t = x.taker
    OBVIOUS
  <2>2. /\ f \in objs /\ m \in objs /\ t \in objs
        /\ x = [obj |-> f, maker |-> m, taker |-> t, key |-> FillKeyOf(f, m, t)]
    BY <1>1, <2>1, CountedFills, ReadingHolds DEF Of
  <2>3. PICK p : p = <<f, <<m, t>>>>
    OBVIOUS
  <2>4. p \in triples /\ p[1] = f /\ p[2][1] = m /\ p[2][2] = t
    BY <1>2, <2>2, <2>3
  <2>5. g[p] = x
    BY <1>4, <2>2, <2>4
  <2>6. QED
    BY <2>4, <2>5
<1>7. QED
  BY <1>1, <1>5, <1>6, FS_Subset

\* What a view says of the fill it is of.
LEMMA ViewsOfFills ==
  ASSUME NEW objs, Readable(objs), NEW chain, NEW now, NEW x \in Counted(Reading(objs)),
         NEW v, v = FillView(x, Reading(objs), chain, now)
  PROVE  /\ v.key = x.key /\ v.maker = x.maker /\ v.taker = x.taker
         /\ v.base \in Nat /\ v.key.fee \in Nat /\ v.key.base = x.obj.base
         /\ x.obj.base \in Nat
         /\ \/ v.base = x.obj.base
            \/ v.status = "settled" /\ \E c \in ReceiptFor(x, objs) : v.base = c.base
         /\ v.status # "settled" => v.base = x.obj.base
         /\ v.status = "settled" <=> (IF chain.read THEN x.key \in chain.used
                                      ELSE ReceiptFor(x, objs) # {})
<1>1. PICK r : r = Reading(objs)
  OBVIOUS
<1>2. PICK receipts : receipts = ReceiptFor(x, objs)
  OBVIOUS
<1>3. PICK settled \in BOOLEAN :
        settled <=> (IF chain.read THEN x.key \in chain.used ELSE receipts # {})
  OBVIOUS
<1>4. PICK dead \in BOOLEAN : dead = \E o \in {x.maker, x.taker} : o \in r.revoked \/ IsExpired(o, r, now)
  OBVIOUS
<1>5. PICK base : base = IF settled THEN Min({x.obj.base} \cup {c.base : c \in receipts}) ELSE x.obj.base
  OBVIOUS
<1>6. /\ v.key = x.key /\ v.maker = x.maker /\ v.taker = x.taker /\ v.base = base
      /\ v.status = CASE settled -> "settled"
                      [] ~settled /\ ~dead /\ now - x.obj.createdAt < PendingWindow -> "pending"
                      [] OTHER -> "stale"
  <2>1. r.objs = objs
    BY <1>1, ReadingHolds
  <2>2. QED
    BY <1>1, <1>2, <1>3, <1>4, <1>5, <2>1 DEF FillView
<1>7. v.status = "settled" <=> settled
  BY <1>6
<1>8. /\ x.obj.base \in Nat /\ x.obj.fee \in Nat /\ x.key.fee = x.obj.fee /\ x.key.base = x.obj.base
  <2>1. x.obj \in Of(objs, "fill") /\ x.key = FillKeyOf(x.obj, x.maker, x.taker)
    BY CountedFills
  <2>2. QED
    BY <2>1 DEF Of, Readable, WellFormed, FillKeyOf
<1>9. receipts \subseteq objs /\ \A c \in receipts : c.base \in Nat
  BY <1>2 DEF ReceiptFor, Of, Readable, WellFormed
<1>10. settled => base \in {x.obj.base} \cup {c.base : c \in receipts}
  <2>1. PICK g : g = [c \in receipts |-> c.base]
    OBVIOUS
  <2>2. {c.base : c \in receipts} = {g[c] : c \in receipts}
    BY <2>1
  <2>3. IsFiniteSet({c.base : c \in receipts})
    <3>1. IsFiniteSet(receipts)
      BY <1>9, FS_Subset DEF Readable
    <3>2. QED
      BY <2>2, <3>1, ImageIsFinite
  <2>4. PICK S : S = {x.obj.base} \cup {c.base : c \in receipts}
    OBVIOUS
  <2>5. IsFiniteSet(S)
    BY <2>3, <2>4, FS_Singleton, FS_Union
  <2>6. S # {} /\ S \subseteq Int
    BY <1>8, <1>9, <2>4
  <2>7. Min(S) \in S
    BY <2>5, <2>6, MinOfSome
  <2>8. QED
    BY <1>5, <2>4, <2>7
<1>11. ~settled => base = x.obj.base
  BY <1>5
<1>12. base \in Nat /\ \/ base = x.obj.base
                       \/ settled /\ \E c \in receipts : base = c.base
  BY <1>3, <1>8, <1>9, <1>10, <1>11
<1>13. QED
  BY <1>2, <1>3, <1>6, <1>7, <1>8, <1>11, <1>12

\* A set of views of fills.
ViewsOK(fills) == IsFiniteSet(fills) /\ \A v \in fills : v.base \in Nat /\ v.key.fee \in Nat

LEMMA CreditsAreNat ==
  ASSUME NEW fills, ViewsOK(fills), NEW o, NEW status
  PROVE  /\ Credit(o, fills, status) \in Nat /\ BoundCredit(o, fills, status) \in Nat
         /\ BoundCredit(o, fills, status) <= Credit(o, fills, status)
<1>1. PICK S : S = {v \in fills : v.status = status /\ o.hash \in {v.maker.hash, v.taker.hash}}
  OBVIOUS
<1>2. PICK R : R = {v \in fills : v.status = status /\
         \/ o.hash = v.maker.hash /\ v.taker.eip \in DOMAIN o.counterSet
         \/ o.hash = v.taker.hash /\ v.maker.eip \in DOMAIN o.counterSet}
  OBVIOUS
<1>3. R \in SUBSET S /\ IsFiniteSet(S) /\ \A v \in S : v.base \in Nat
  BY <1>1, <1>2, FS_Subset DEF ViewsOK
<1>4. SumBase(R) <= SumBase(S) /\ SumBase(R) \in Nat /\ SumBase(S) \in Nat
  BY <1>3, SumBaseOfPart
<1>5. Credit(o, fills, status) = SumBase(S) /\ BoundCredit(o, fills, status) = SumBase(R)
  BY <1>1, <1>2 DEF Credit, BoundCredit
<1>6. QED
  BY <1>4, <1>5

LEMMA FeeUsedIsNat ==
  ASSUME NEW fills, ViewsOK(fills), NEW hash
  PROVE  FeeUsed(hash, fills) \in Nat
<1>1. PICK S : S = {v \in fills : v.status # "stale" /\
         hash = (IF v.maker.side = "buy" THEN v.maker ELSE v.taker).authHash}
  OBVIOUS
<1>2. PICK f : f = [v \in S |-> v.key.fee]
  OBVIOUS
<1>3. IsFiniteSet(S) /\ DOMAIN f = S /\ \A v \in S : f[v] \in Nat
  BY <1>1, <1>2, FS_Subset DEF ViewsOK
<1>4. FeeUsed(hash, fills) = SumFunction(f)
  BY <1>1, <1>2 DEF FeeUsed
<1>5. QED
  BY <1>3, <1>4, SumIsNat

\* The entry of a canonical order: its numbers, and what is left of it.
LEMMA EntryOfOrder ==
  ASSUME NEW objs, Readable(objs), NEW chain, ChainNumbers(chain), NEW now,
         NEW fills, ViewsOK(fills), NEW o \in Reading(objs).canonical,
         NEW e, e = RestingOrder(o, fills, Reading(objs), chain, now)
  PROVE  /\ EntryOK(e) /\ e.eip = o.eip /\ e.base = o.base
         /\ ~e.voided => e.remaining = AtLeastZero(o.base
              - Get(chain.filled, o.eip, Credit(o, fills, "settled")) - Credit(o, fills, "pending"))
<1>1. PICK r : r = Reading(objs)
  OBVIOUS
<1>2. PICK a : a = AuthOf(o, r)
  OBVIOUS
<1>3. /\ a \in Of(objs, "authorization") /\ o \in Of(objs, "order")
  BY <1>1, <1>2, ReadingHolds
<1>4. /\ a.maxFee \in Nat /\ a.maxQuote \in Nat
      /\ o.hash \in Nat /\ o.createdAt \in Nat /\ o.price \in Nat /\ o.base \in Nat
      /\ o.exclusiveBase \in Nat
  BY <1>3 DEF Of, Readable, WellFormed
<1>5. PICK settled : settled = Get(chain.filled, o.eip, Credit(o, fills, "settled"))
  OBVIOUS
<1>6. PICK reserved : reserved = Credit(o, fills, "pending")
  OBVIOUS
<1>7. PICK boundSettled : boundSettled = Get(chain.bound, o.eip, BoundCredit(o, fills, "settled"))
  OBVIOUS
<1>8. PICK boundPending : boundPending = BoundCredit(o, fills, "pending")
  OBVIOUS
<1>9. settled \in Nat /\ boundSettled \in Nat
  BY <1>5, <1>7, CreditsAreNat DEF Get, ChainNumbers
<1>10. reserved \in Nat /\ boundPending \in Nat /\ boundPending <= reserved
  BY <1>6, <1>8, CreditsAreNat
<1>11. PICK voided \in BOOLEAN :
         voided = (o.counterSetHash # NoLegs /\ now >= o.exclusiveUntil /\ boundSettled < o.exclusiveBase)
  OBVIOUS
<1>12. PICK remaining : remaining =
         IF voided THEN (o.base - o.exclusiveBase) - (settled - boundSettled) - (reserved - boundPending)
         ELSE o.base - settled - reserved
  OBVIOUS
<1>13. PICK budget : budget = IF o.side = "buy" THEN AtLeastZero(a.maxFee - FeeUsed(o.authHash, fills)) ELSE 0
  OBVIOUS
<1>14. e = [hash |-> o.hash, eip |-> o.eip, auth |-> a, maker |-> o.trader, side |-> o.side,
            price |-> o.price, base |-> o.base, filled |-> settled, pending |-> reserved,
            remaining |-> AtLeastZero(remaining), createdAt |-> o.createdAt,
            cancelled |-> o \in r.revoked, expired |-> ValidUntil(o, r) <= now + ExpiryMargin,
            exclusiveBase |-> o.exclusiveBase, exclusiveUntil |-> o.exclusiveUntil,
            boundFilled |-> boundSettled, voided |-> voided, funded |-> TRUE,
            feeBudgetLeft |-> budget]
  BY <1>1, <1>2, <1>5, <1>6, <1>7, <1>8, <1>11, <1>12, <1>13, Zenon DEF RestingOrder
<1>15. budget \in Nat
  <2>1. a.maxFee - FeeUsed(o.authHash, fills) \in Int
    BY <1>4, FeeUsedIsNat
  <2>2. AtLeastZero(a.maxFee - FeeUsed(o.authHash, fills)) \in Nat
    BY <2>1, Clamped
  <2>3. QED
    BY <1>13, <2>2
<1>16. remaining \in Int /\ remaining <= o.base
  <2>1. CASE voided
    <3>1. boundSettled < o.exclusiveBase
      BY <1>11, <2>1
    <3>2. remaining = (o.base - o.exclusiveBase) - (settled - boundSettled) - (reserved - boundPending)
      BY <1>12, <2>1
    <3>3. QED
      BY <1>4, <1>9, <1>10, <3>1, <3>2
  <2>2. CASE ~voided
    <3>1. remaining = o.base - settled - reserved
      BY <1>12, <2>2
    <3>2. QED
      BY <1>4, <1>9, <1>10, <3>1
  <2>3. QED
    BY <2>1, <2>2
<1>17. AtLeastZero(remaining) \in Nat /\ AtLeastZero(remaining) <= o.base
  BY <1>4, <1>16, Clamped
<1>18. EntryFields \subseteq DOMAIN e
  BY <1>14 DEF EntryFields
<1>19. /\ e.hash = o.hash /\ e.eip = o.eip /\ e.auth = a /\ e.price = o.price /\ e.base = o.base
       /\ e.pending = reserved /\ e.remaining = AtLeastZero(remaining) /\ e.createdAt = o.createdAt
       /\ e.voided = voided /\ e.feeBudgetLeft = budget
  BY <1>14
<1>20. EntryOK(e)
  BY <1>4, <1>10, <1>15, <1>17, <1>18, <1>19 DEF EntryOK, OfferNumbers
<1>21. ~voided => remaining = o.base - settled - reserved
  BY <1>12
<1>22. QED
  BY <1>5, <1>6, <1>19, <1>20, <1>21

\* A book, as deriveState makes it of a listing.
LEMMA BookOfListing ==
  ASSUME NEW objs, Readable(objs), NEW chain, NEW now
  PROVE  \E fills :
           /\ ViewsOK(fills)
           /\ \A v \in fills : \E x \in Counted(Reading(objs)) : v = FillView(x, Reading(objs), chain, now)
           /\ \A x \in Counted(Reading(objs)) : FillView(x, Reading(objs), chain, now) \in fills
           /\ DeriveState(objs, chain, now).orders =
                {RestingOrder(o, fills, Reading(objs), chain, now) : o \in Reading(objs).canonical}
           /\ DeriveState(objs, chain, now).fills = {Listed(v) : v \in fills}
<1>1. PICK r : r = Reading(objs)
  OBVIOUS
<1>2. PICK look : look = [x \in Counted(r) |-> FillView(x, r, chain, now)]
  OBVIOUS
<1>3. PICK fills : fills = {FillView(x, r, chain, now) : x \in Counted(r)}
  OBVIOUS
<1>4. IsFiniteSet(fills)
  <2>1. fills = {look[x] : x \in Counted(r)}
    BY <1>2, <1>3
  <2>2. IsFiniteSet(Counted(r))
    BY <1>1, CountedIsFinite DEF Readable
  <2>3. QED
    BY <2>1, <2>2, ImageIsFinite
<1>5. \A v \in fills : v.base \in Nat /\ v.key.fee \in Nat
  BY <1>1, <1>3, ViewsOfFills
<1>6. /\ DeriveState(objs, chain, now).orders = {RestingOrder(o, fills, r, chain, now) : o \in r.canonical}
      /\ DeriveState(objs, chain, now).fills = {Listed(v) : v \in fills}
  BY <1>1, <1>3 DEF DeriveState
<1>7. QED
  BY <1>1, <1>3, <1>4, <1>5, <1>6 DEF ViewsOK

LEMMA BookIsTyped ==
  ASSUME NEW objs, Readable(objs), NEW chain, ChainNumbers(chain), NEW now
  PROVE  BookOK(DeriveState(objs, chain, now).orders)
<1>1. PICK r : r = Reading(objs)
  OBVIOUS
<1>2. PICK fills : /\ ViewsOK(fills)
                   /\ DeriveState(objs, chain, now).orders =
                        {RestingOrder(o, fills, r, chain, now) : o \in r.canonical}
  BY <1>1, BookOfListing
<1>3. PICK entry : entry = [o \in r.canonical |-> RestingOrder(o, fills, r, chain, now)]
  OBVIOUS
<1>4. PICK book : book = DeriveState(objs, chain, now).orders
  OBVIOUS
<1>5. book = {entry[o] : o \in r.canonical}
  BY <1>2, <1>3, <1>4
<1>6. IsFiniteSet(r.canonical)
  <2>1. r.canonical \subseteq objs
    BY <1>1, ReadingHolds DEF Of
  <2>2. QED
    BY <2>1, FS_Subset DEF Readable
<1>7. IsFiniteSet(book)
  BY <1>5, <1>6, ImageIsFinite
<1>8. \A o \in r.canonical : EntryOK(entry[o])
  BY <1>1, <1>2, <1>3, EntryOfOrder
<1>9. QED
  BY <1>4, <1>5, <1>7, <1>8 DEF BookOK

\* Marking what is funded changes no number of a book.
LEMMA FundingKeepsBook ==
  ASSUME NEW orders, BookOK(orders), NEW capacity
  PROVE  BookOK(FundedWith(orders, capacity))
<1>1. \E backed : FundedWith(orders, capacity) =
        {IF IsLive(o) THEN [o EXCEPT !.funded = o.hash \in backed] ELSE o : o \in orders}
  BY Zenon DEF FundedWith
<1>2. PICK backed : FundedWith(orders, capacity) =
        {IF IsLive(o) THEN [o EXCEPT !.funded = o.hash \in backed] ELSE o : o \in orders}
  BY <1>1
<1>3. PICK mark : mark = [o \in orders |-> IF IsLive(o) THEN [o EXCEPT !.funded = o.hash \in backed] ELSE o]
  OBVIOUS
<1>4. FundedWith(orders, capacity) = {mark[o] : o \in orders}
  BY <1>2, <1>3
<1>5. IsFiniteSet({mark[o] : o \in orders})
  BY ImageIsFinite DEF BookOK
<1>6. ASSUME NEW o \in orders PROVE EntryOK(mark[o])
  <2>1. EntryOK(o)
    BY DEF BookOK
  <2>2. mark[o] = o \/ mark[o] = [o EXCEPT !.funded = o.hash \in backed]
    BY <1>3
  <2>3. DOMAIN mark[o] = DOMAIN o /\ \A field \in DOMAIN o \ {"funded"} : mark[o][field] = o[field]
    BY <2>2
  <2>4. \A field \in EntryFields : mark[o][field] = o[field]
    BY <2>1, <2>3 DEF EntryOK, EntryFields
  <2>5. /\ mark[o].hash = o.hash /\ mark[o].price = o.price /\ mark[o].base = o.base
        /\ mark[o].remaining = o.remaining /\ mark[o].pending = o.pending
        /\ mark[o].createdAt = o.createdAt /\ mark[o].feeBudgetLeft = o.feeBudgetLeft
        /\ mark[o].auth = o.auth
    BY <2>4 DEF EntryFields
  <2>6. QED
    BY <2>1, <2>3, <2>5 DEF EntryOK, OfferNumbers
<1>7. QED
  BY <1>4, <1>5, <1>6 DEF BookOK

-----------------------------------------------------------------------------
(***************************************************************************)
(* What a user's orders need, and what is signed against a book.           *)
(***************************************************************************)
LEMMA NeedsAreNat ==
  ASSUME NEW o, EntryOK(o)
  PROVE  NeedFor(o) \in Nat /\ OpenNeed(o) \in Nat
<1>1. /\ o.remaining \in Nat /\ o.pending \in Nat /\ o.price \in Nat /\ o.feeBudgetLeft \in Nat
      /\ o.remaining + o.pending \in Nat
  BY DEF EntryOK, OfferNumbers
<1>2. QuoteFor(o.remaining, o.price) \in Nat /\ QuoteFor(o.remaining + o.pending, o.price) \in Nat
  BY <1>1, QuoteNat
<1>3. QED
  BY <1>1, <1>2 DEF NeedFor, OpenNeed

LEMMA CommitmentsAreNat ==
  ASSUME NEW orders, BookOK(orders), NEW maker, NEW token
  PROVE  Commitments(orders, maker, token) \in Nat
<1>1. PICK S : S = {o \in orders : IsLive(o) /\ o.maker = maker /\ PayToken(o.side) = token}
  OBVIOUS
<1>2. PICK f : f = [o \in S |-> NeedFor(o)]
  OBVIOUS
<1>3. IsFiniteSet(S) /\ DOMAIN f = S /\ \A o \in S : f[o] \in Nat
  BY <1>1, <1>2, FS_Subset, NeedsAreNat DEF BookOK
<1>4. Commitments(orders, maker, token) = SumFunction(f)
  BY <1>1, <1>2 DEF Commitments
<1>5. QED
  BY <1>3, <1>4, SumIsNat

LEMMA CommittedInIsNat ==
  ASSUME BookOK(view.orders), NEW token
  PROVE  CommittedIn(token) \in Nat
<1>1. PICK S : S = {o \in view.orders : o.maker = Me /\ ~o.cancelled /\ ~o.expired /\ PayToken(o.side) = token}
  OBVIOUS
<1>2. PICK f : f = [o \in S |-> OpenNeed(o)]
  OBVIOUS
<1>3. IsFiniteSet(S) /\ DOMAIN f = S /\ \A o \in S : f[o] \in Nat
  BY <1>1, <1>2, FS_Subset, NeedsAreNat DEF BookOK
<1>4. CommittedIn(token) = SumFunction(f)
  BY <1>1, <1>2 DEF CommittedIn
<1>5. QED
  BY <1>3, <1>4, SumIsNat

\* The legs of a match, as the page keeps them.
LegOK(l) ==
  {l.base, l.price, l.quote, l.order.feeBudgetLeft, l.order.auth.maxQuote, l.order.auth.maxFee}
    \subseteq Nat
LegsOK(legs) == \E S : legs \in Seq(S) /\ \A l \in S : LegOK(l)

LEMMA MatchNumbers ==
  ASSUME NEW book, BookOK(book), NEW side, NEW amount \in Nat, NEW limit, NEW me, NEW now,
         NEW m, m = MatchOrder(book, side, amount, limit, me, now)
  PROVE  /\ LegsOK(m.legs) /\ Len(m.legs) <= MaxLegs
         /\ Filled(m, amount) \in Nat /\ WorstPrice(m) \in Nat
<1>1. m \in Matches(book, amount)
  BY MatchTakesLegs DEF BookOK, EntryOK
<1>2. m.left \in 0..amount /\ m.legs \in Seq(Legs(book)) /\ Len(m.legs) <= MaxLegs
  BY <1>1 DEF Matches
<1>3. \A l \in Legs(book) : LegOK(l)
  BY DEF Legs, LegOK, BookOK, EntryOK
<1>4. LegsOK(m.legs)
  BY <1>2, <1>3 DEF LegsOK
<1>5. Filled(m, amount) \in Nat
  BY <1>2 DEF Filled
<1>6. WorstPrice(m) \in Nat
  <2>1. CASE m.legs = <<>>
    BY <2>1 DEF WorstPrice
  <2>2. CASE m.legs # <<>>
    <3>1. m.legs[Len(m.legs)] \in Legs(book)
      BY <1>2, <2>2
    <3>2. QED
      BY <1>3, <2>2, <3>1 DEF WorstPrice, Last, LegOK
  <2>3. QED
    BY <2>1, <2>2
<1>7. QED
  BY <1>2, <1>4, <1>5, <1>6

LEMMA LegsOfNumbers ==
  ASSUME NEW m, LegsOK(m.legs)
  PROVE  \A e \in DOMAIN LegsOf(m) : LegsOf(m)[e] \in Nat
<1>1. PICK S : m.legs \in Seq(S) /\ \A l \in S : LegOK(l)
  BY DEF LegsOK
<1>2. ASSUME NEW e \in DOMAIN LegsOf(m) PROVE LegsOf(m)[e] \in Nat
  <2>1. PICK i \in DOMAIN m.legs : m.legs[i].order.eip = e
    BY DEF LegsOf
  <2>2. m.legs[i] \in ToSet(m.legs) /\ ToSet(m.legs) \subseteq S
    BY <1>1, <2>1 DEF ToSet
  <2>3. PICK l : l = CHOOSE k \in ToSet(m.legs) : k.order.eip = e
    OBVIOUS
  <2>4. l \in ToSet(m.legs)
    BY <2>1, <2>2, <2>3
  <2>5. LegsOf(m)[e] = l.base
    BY <2>3 DEF LegsOf
  <2>6. QED
    BY <1>1, <2>2, <2>4, <2>5 DEF LegOK
<1>3. QED
  BY <1>2

\* An object there may be when `n` is the next hash.
ObjOK(o, n) == o.hash \in 1..(n - 1) /\ WellFormed(o)

LEMMA SignedObjects ==
  ASSUME NEW trader, NEW hash \in Nat \ {0}, NEW now \in Nat, NEW x, LegsOK(x.m.legs),
         {x.base, x.price, x.maxFee, x.filled} \subseteq Nat
  PROVE  LET signed == SignedBy(trader, hash, x, now)
         IN  ObjOK(signed.auth, hash + 2) /\ ObjOK(signed.order, hash + 2)
<1>1. PICK until : until = now + (IF x.market THEN MarketTtl ELSE LimitTtl)
  OBVIOUS
<1>2. PICK auth : auth = BuildAuth(hash, trader, x.side, x.base, x.price, x.maxFee, until, now)
  OBVIOUS
<1>3. PICK native : native = (ReceiveNative /\ WrapsNative)
  OBVIOUS
<1>4. PICK end : end = IF x.market THEN until ELSE now + ExclusiveWindow
  OBVIOUS
<1>5. PICK order : order = BuildOrder(hash + 1, auth, x.price, x.base, native, LegsOf(x.m), x.filled, end, now)
  OBVIOUS
<1>6. SignedBy(trader, hash, x, now) = [auth |-> auth, order |-> order]
  BY <1>1, <1>2, <1>3, <1>4, <1>5, Zenon DEF SignedBy
<1>7. /\ auth.type = "authorization" /\ auth.hash = hash /\ auth.createdAt = now
      /\ auth.eip = hash /\ auth.validBefore = until
      /\ auth.maxBase \in {0, x.base} /\ auth.maxQuote \in {0, QuoteFor(x.base, x.price)}
      /\ auth.maxFee \in {0, x.maxFee}
      /\ auth.minPrice \in {0, x.price} /\ auth.maxPrice \in {MaxPrice, x.price}
      /\ AuthTerms \cup {"hash", "createdAt"} \subseteq DOMAIN auth
  BY <1>2 DEF BuildAuth, AuthTerms
<1>8. QuoteFor(x.base, x.price) \in Nat /\ MaxPrice \in Nat
  BY QuoteNat, MarketAssumption
<1>9. until \in Nat /\ end \in Nat
  <2>1. LimitTtl \in Nat /\ MarketTtl \in Nat /\ ExclusiveWindow \in Nat
    BY Zenon, AppAssumption
  <2>2. until \in Nat
    BY <1>1, <2>1
  <2>3. now + ExclusiveWindow \in Nat
    BY <2>1
  <2>4. QED
    BY <1>4, <2>2, <2>3
<1>10. ObjOK(auth, hash + 2)
  BY <1>7, <1>8, <1>9 DEF ObjOK, WellFormed
<1>11. /\ order.type = "order" /\ order.hash = hash + 1 /\ order.createdAt = now
       /\ order.price = x.price /\ order.base = x.base
       /\ order.validBefore = until /\ order.exclusiveUntil \in {0, end}
       /\ order.exclusiveBase \in {0, x.filled} /\ order.counterSet \in {LegsOf(x.m), NoLegs}
       /\ {"hash", "createdAt"} \subseteq DOMAIN order
  BY <1>2, <1>5 DEF BuildOrder, BuildAuth
<1>12. \A leg \in DOMAIN order.counterSet : order.counterSet[leg] \in Nat
  <2>1. CASE order.counterSet = LegsOf(x.m)
    BY <2>1, LegsOfNumbers
  <2>2. CASE order.counterSet = NoLegs
    BY <2>2 DEF NoLegs
  <2>3. QED
    BY <1>11, <2>1, <2>2
<1>13. ObjOK(order, hash + 2)
  BY <1>9, <1>11, <1>12 DEF ObjOK, WellFormed
<1>14. QED
  BY <1>6, <1>10, <1>13

LEMMA MinOfThree ==
  ASSUME NEW a \in Nat, NEW b \in Nat, NEW c \in Nat
  PROVE  Min({a, b, c}) \in Nat
<1>1. PICK S : S = {a, b, c}
  OBVIOUS
<1>2. IsFiniteSet({a} \cup ({b} \cup {c}))
  BY FS_Singleton, FS_Union
<1>3. S = {a} \cup ({b} \cup {c})
  BY <1>1
<1>4. Min(S) \in S
  <2>1. IsFiniteSet(S) /\ S # {} /\ S \subseteq Int
    BY <1>1, <1>2, <1>3
  <2>2. QED
    BY <2>1, MinOfSome
<1>5. QED
  BY <1>1, <1>4

LEMMA FeesAreNat ==
  /\ \A quote \in Nat : FeeForQuote(quote) \in Nat /\ MaxFeeForOrder(quote) \in Nat
  /\ \A side, leg : LegOK(leg) => LegFee(side, leg) \in Nat
<1>1. \A n \in Nat, d \in Nat : d # 0 => n \div d \in Nat
  OBVIOUS
<1>2. ASSUME NEW quote \in Nat
      PROVE  FeeForQuote(quote) \in Nat /\ MaxFeeForOrder(quote) \in Nat
  <2>1. PICK n \in Nat : n = quote * FeeNum
    BY MarketAssumption
  <2>2. n \div FeeDen \in Nat
    BY <1>1, MarketAssumption
  <2>3. QED
    BY <2>1, <2>2 DEF FeeForQuote, MaxFeeForOrder
<1>3. ASSUME NEW side, NEW leg, LegOK(leg)
      PROVE  LegFee(side, leg) \in Nat
  <2>1. PICK a : a = leg.order.auth
    OBVIOUS
  <2>2. PICK proRata : proRata = IF a.maxQuote > 0 THEN (a.maxFee * leg.quote) \div a.maxQuote ELSE 0
    OBVIOUS
  <2>3. a.maxQuote \in Nat /\ a.maxFee \in Nat /\ leg.quote \in Nat /\ leg.order.feeBudgetLeft \in Nat
    BY <1>3, <2>1 DEF LegOK
  <2>4. proRata \in Nat
    <3>1. PICK n \in Nat : n = a.maxFee * leg.quote
      BY <2>3
    <3>2. a.maxQuote > 0 => n \div a.maxQuote \in Nat
      BY <1>1, <2>3
    <3>3. QED
      BY <2>2, <3>1, <3>2
  <2>5. PICK f \in Nat : f = FeeForQuote(leg.quote)
    BY <1>2, <2>3
  <2>6. Min({f, proRata, leg.order.feeBudgetLeft}) \in Nat
    BY <2>3, <2>4, <2>5, MinOfThree
  <2>7. LegFee(side, leg) = IF side = "sell" THEN Min({f, proRata, leg.order.feeBudgetLeft}) ELSE f
    BY <2>1, <2>2, <2>5, Zenon DEF LegFee
  <2>8. QED
    BY <2>5, <2>6, <2>7
<1>4. QED
  BY <1>2, <1>3

LEMMA FillOfLeg ==
  ASSUME NEW hash \in Nat \ {0}, NEW n \in Nat, hash < n, NEW now \in Nat, NEW leg, LegOK(leg),
         NEW taker, NEW fee \in Nat
  PROVE  ObjOK(BuildFill(hash, leg, taker, fee, now), n)
<1>1. leg.base \in Nat /\ leg.price \in Nat
  BY DEF LegOK
<1>2. PICK quote \in Nat : quote = QuoteFor(leg.base, leg.price)
  BY <1>1, QuoteNat
<1>3. PICK f : f = BuildFill(hash, leg, taker, fee, now)
  OBVIOUS
<1>4. /\ f.type = "fill" /\ f.hash = hash /\ f.createdAt = now /\ f.price = leg.price
      /\ f.base = leg.base /\ f.quote = quote /\ f.fee = fee
  BY <1>2, <1>3 DEF BuildFill
<1>5. QED
  BY <1>1, <1>3, <1>4 DEF ObjOK, WellFormed

-----------------------------------------------------------------------------
(***************************************************************************)
(* A settlement.                                                           *)
(***************************************************************************)
\* Each fill settled once, for no more than it asked.
TradesOK ==
  /\ IsFiniteSet(trades)
  /\ \A t \in trades : t.base \in Nat /\ t.key.base \in Nat /\ t.base <= t.key.base
  /\ \A t, u \in trades : t.key = u.key => t = u

Wallet    == [base : Nat, quote : Nat, eth : Nat]
Allowance == [base : Nat, quote : Nat]
MoneyOK   == bal \in [Traders -> Wallet] /\ allow \in [Traders -> Allowance]

LEMMA ChainSumsAreNat ==
  ASSUME TradesOK, NEW e, NEW other
  PROVE  FilledOnChain(e) \in Nat /\ BoundOnChain(e) \in Nat /\ FilledWith(e, other) \in Nat
<1>1. \A S \in SUBSET trades : SumBase(S) \in Nat
  <2>1. ASSUME NEW S \in SUBSET trades PROVE SumBase(S) \in Nat
    <3>1. IsFiniteSet(S) /\ \A t \in S : t.base \in Nat
      BY FS_Subset DEF TradesOK
    <3>2. QED
      BY <3>1, SumBaseIsNat
  <2>2. QED
    BY <2>1
<1>2. /\ Involving(e) \in SUBSET trades
      /\ {t \in Involving(e) : e \in t.recorded} \in SUBSET trades
      /\ {t \in Involving(e) : e \in t.recorded /\ other \in {t.key.maker, t.key.taker}} \in SUBSET trades
  BY DEF Involving
<1>3. QED
  BY <1>1, <1>2 DEF FilledOnChain, BoundOnChain, FilledWith

\* The numbers of a call that an executor or a user would make.
CallOK(call) ==
  /\ {call.fill.base, call.fill.price, call.fill.fee} \subseteq Nat
  /\ call.key.base = call.fill.base
  /\ \A o \in {call.maker, call.taker} :
       /\ {o.base, o.exclusiveBase} \subseteq Nat
       /\ \A leg \in DOMAIN o.counterSet : o.counterSet[leg] \in Nat

LEMMA CallsAreOfObjects ==
  ASSUME NEW objs, NEW hash, NEW call \in SettleCalls(objs, hash)
  PROVE  /\ call.fill \in Of(objs, "fill") /\ call.fill.hash = hash
         /\ call.maker \in Of(objs, "order") /\ call.taker \in Of(objs, "order")
         /\ call.key = FillKeyOf(call.fill, call.maker, call.taker)
<1>1. PICK f \in Lookup(objs, "fill", hash) :
        \E m \in Lookup(objs, "order", f.makerOrder), t \in Lookup(objs, "order", f.takerOrder) :
          \E ma, ta : call = [fill |-> f, maker |-> m, taker |-> t, makerAuth |-> ma, takerAuth |-> ta,
                              key |-> FillKeyOf(f, m, t)]
  BY DEF SettleCalls
<1>2. QED
  BY <1>1 DEF Lookup, Of

LEMMA CallNumbers ==
  ASSUME NEW objs, \A o \in objs : WellFormed(o), NEW hash, NEW call \in SettleCalls(objs, hash)
  PROVE  CallOK(call)
<1>1. PICK f, m, t : f = call.fill /\ m = call.maker /\ t = call.taker
  OBVIOUS
<1>2. /\ f \in Of(objs, "fill") /\ m \in Of(objs, "order") /\ t \in Of(objs, "order")
      /\ call.key = FillKeyOf(f, m, t)
  BY <1>1, CallsAreOfObjects
<1>3. {f.base, f.price, f.fee} \subseteq Nat /\ call.key.base = f.base
  BY <1>2 DEF Of, WellFormed, FillKeyOf
<1>4. \A o \in {m, t} : /\ {o.base, o.exclusiveBase} \subseteq Nat
                        /\ \A leg \in DOMAIN o.counterSet : o.counterSet[leg] \in Nat
  BY <1>2 DEF Of, WellFormed
<1>5. QED
  BY <1>1, <1>3, <1>4 DEF CallOK

LEMMA RoomIsInt ==
  ASSUME TradesOK, NEW o, {o.base, o.exclusiveBase} \subseteq Nat,
         \A leg \in DOMAIN o.counterSet : o.counterSet[leg] \in Nat, NEW c
  PROVE  BindingRoom(o, c) \in Int /\ o.base - FilledOnChain(o.eip) \in Int
<1>1. /\ FilledOnChain(o.eip) \in Nat /\ BoundOnChain(o.eip) \in Nat
      /\ FilledWith(o.eip, c.eip) \in Nat
  BY ChainSumsAreNat
<1>2. LegActive(o, c) => o.counterSet[c.eip] \in Nat
  BY DEF LegActive
<1>3. LegActive(o, c) => o.counterSetHash # NoLegs
  BY DEF LegActive, InWindow
<1>4. CASE o.counterSetHash = NoLegs
  BY <1>1, <1>3, <1>4 DEF BindingRoom
<1>5. CASE LegActive(o, c)
  BY <1>1, <1>2, <1>3, <1>5 DEF BindingRoom
<1>6. CASE o.counterSetHash # NoLegs /\ ~LegActive(o, c)
  BY <1>1, <1>6 DEF BindingRoom
<1>7. QED
  BY <1>1, <1>4, <1>5, <1>6

LEMMA FittingIsWithin ==
  ASSUME TradesOK, NEW call, CallOK(call)
  PROVE  /\ FittingOf(call) \in Nat /\ FittingOf(call) <= call.fill.base
         /\ FittingOf(call) > 0 => \A o \in {call.maker, call.taker} :
                                     FittingOf(call) <= o.base - FilledOnChain(o.eip)
<1>1. PICK m, t : m = call.maker /\ t = call.taker
  OBVIOUS
<1>2. PICK a, b, c, d, e : /\ a = call.fill.base /\ b = BindingRoom(m, t) /\ c = BindingRoom(t, m)
                           /\ d = m.base - FilledOnChain(m.eip) /\ e = t.base - FilledOnChain(t.eip)
  OBVIOUS
<1>3. a \in Nat /\ b \in Int /\ c \in Int /\ d \in Int /\ e \in Int
  <2>1. \A o \in {m, t} : {o.base, o.exclusiveBase} \subseteq Nat
                          /\ \A leg \in DOMAIN o.counterSet : o.counterSet[leg] \in Nat
    BY <1>1 DEF CallOK
  <2>2. BindingRoom(m, t) \in Int /\ m.base - FilledOnChain(m.eip) \in Int
    BY <2>1, RoomIsInt
  <2>3. BindingRoom(t, m) \in Int /\ t.base - FilledOnChain(t.eip) \in Int
    BY <2>1, RoomIsInt
  <2>4. QED
    BY <1>2, <2>2, <2>3 DEF CallOK
<1>4. PICK S : S = {a, b, c, d, e}
  OBVIOUS
<1>5. IsFiniteSet(S)
  <2>1. IsFiniteSet({a} \cup ({b} \cup ({c} \cup ({d} \cup {e}))))
    <3>1. IsFiniteSet({c} \cup ({d} \cup {e}))
      BY FS_Singleton, FS_Union
    <3>2. QED
      BY <3>1, FS_Singleton, FS_Union
  <2>2. S = {a} \cup ({b} \cup ({c} \cup ({d} \cup {e})))
    BY <1>4
  <2>3. QED
    BY <2>1, <2>2
<1>6. Min(S) \in Int /\ Min(S) <= a /\ Min(S) <= d /\ Min(S) <= e
  <2>1. S # {} /\ S \subseteq Int
    BY <1>3, <1>4
  <2>2. QED
    BY <1>4, <1>5, <2>1, MinOfSome
<1>7. /\ AtLeastZero(Min(S)) \in Nat /\ AtLeastZero(Min(S)) <= a
      /\ AtLeastZero(Min(S)) > 0 => AtLeastZero(Min(S)) <= d /\ AtLeastZero(Min(S)) <= e
  BY <1>3, <1>6, Clamped
<1>8. FittingOf(call) = AtLeastZero(Min(S))
  BY <1>1, <1>2, <1>4 DEF FittingOf
<1>9. QED
  BY <1>1, <1>2, <1>7, <1>8

LEMMA FeeOfIsNat ==
  ASSUME TradesOK, NEW call, CallOK(call)
  PROVE  FeeOf(call, FittingOf(call)) \in Nat
<1>1. PICK base \in Nat : base = FittingOf(call) /\ base <= call.fill.base
  BY FittingIsWithin
<1>2. call.fill.base \in Nat /\ call.fill.fee \in Nat
  BY DEF CallOK
<1>3. CASE base = call.fill.base
  BY <1>1, <1>2, <1>3 DEF FeeOf
<1>4. CASE base # call.fill.base
  <2>1. PICK n \in Nat : n = call.fill.fee * base
    BY <1>1, <1>2
  <2>2. PICK d \in Nat \ {0} : d = call.fill.base
    BY <1>1, <1>2, <1>4
  <2>3. n \div d \in Nat
    OBVIOUS
  <2>4. QED
    BY <1>1, <1>4, <2>1, <2>2, <2>3 DEF FeeOf
<1>5. QED
  BY <1>3, <1>4

\* One amount of one wallet changes.
LEMMA MovedKeeps ==
  ASSUME NEW fields, NEW f \in [Traders -> [fields -> Nat]],
         NEW w, NEW token \in fields, NEW n \in Int, w \in Traders => f[w][token] + n \in Nat
  PROVE  Moved(f, w, token, n) \in [Traders -> [fields -> Nat]]
<1>1. PICK g : g = [f EXCEPT ![w][token] = f[w][token] + n]
  OBVIOUS
<1>2. CASE w \in Traders
  <2>1. PICK m \in Nat : m = f[w][token] + n
    BY <1>2
  <2>2. g = [f EXCEPT ![w][token] = m]
    BY <1>1, <2>1
  <2>3. QED
    BY <1>1, <1>2, <2>1, <2>2 DEF Moved
<1>3. CASE w \notin Traders
  BY <1>1, <1>3 DEF Moved
<1>4. QED
  BY <1>2, <1>3

LEMMA WalletFields ==
  Wallet = [{"base", "quote", "eth"} -> Nat] /\ Allowance = [{"base", "quote"} -> Nat]
<1>1. ASSUME NEW w PROVE w \in Wallet <=> w \in [{"base", "quote", "eth"} -> Nat]
  BY DEF Wallet
<1>2. ASSUME NEW a PROVE a \in Allowance <=> a \in [{"base", "quote"} -> Nat]
  BY DEF Allowance
<1>3. QED
  BY <1>1, <1>2

LEMMA SettlementPays ==
  ASSUME MoneyOK, NEW call, Accepts(call), SettlesOnChain(call),
         NEW base \in Nat, base = FittingOf(call), NEW fee \in Nat, fee = FeeOf(call, base),
         call.fill.price \in Nat
  PROVE  MoneyOK'
<1>1. PICK quote \in Nat : quote = QuoteFor(base, call.fill.price)
  BY QuoteNat
<1>2. PICK b, s : b = BuyOf(call).trader /\ s = SellOf(call).trader
  OBVIOUS
<1>3. PICK paidIn : paidIn = IF BuyOf(call).native THEN "eth" ELSE "base"
  OBVIOUS
<1>4. /\ quote + fee <= Min({bal[b].quote, allow[b].quote})
      /\ base <= Min({bal[s].base, allow[s].base})
  BY <1>1, <1>2, Zenon DEF Accepts
<1>5. PICK B, A : B = {"base", "quote", "eth"} /\ A = {"base", "quote"}
  OBVIOUS
<1>6. /\ B \in SUBSET {"base", "quote", "eth"} /\ A \in SUBSET {"base", "quote", "eth"}
      /\ "base" \in B /\ "quote" \in B /\ paidIn \in B /\ "base" \in A /\ "quote" \in A
  BY <1>3, <1>5
<1>7. bal \in [Traders -> [B -> Nat]] /\ allow \in [Traders -> [A -> Nat]]
  BY <1>5, WalletFields DEF MoneyOK
<1>8. \A w \in Traders : /\ bal[w]["base"] \in Nat /\ bal[w]["quote"] \in Nat
                         /\ allow[w]["base"] \in Nat /\ allow[w]["quote"] \in Nat
  BY <1>6, <1>7
<1>9. \A x \in Nat, y \in Nat : Min({x, y}) <= x /\ Min({x, y}) <= y /\ Min({x, y}) \in Nat
  <2>1. ASSUME NEW x \in Nat, NEW y \in Nat
        PROVE  Min({x, y}) <= x /\ Min({x, y}) <= y /\ Min({x, y}) \in Nat
    <3>1. x \in Int /\ y \in Int
      OBVIOUS
    <3>2. Min({x, y}) <= x /\ Min({x, y}) <= y /\ Min({x, y}) \in {x, y}
      BY <3>1, MinOfTwo
    <3>3. QED
      BY <3>2
  <2>2. QED
    BY <2>1
<1>10. /\ b \in Traders => quote + fee <= bal[b].quote /\ quote + fee <= allow[b].quote
       /\ s \in Traders => base <= bal[s].base /\ base <= allow[s].base
  BY <1>4, <1>8, <1>9
<1>11. PICK paid : paid = Moved(bal, b, "quote", -(quote + fee))
  OBVIOUS
<1>12. PICK bought : bought = Moved(paid, b, paidIn, base)
  OBVIOUS
<1>13. PICK sold : sold = Moved(bought, s, "quote", quote)
  OBVIOUS
<1>14. PICK spent : spent = Moved(allow, b, "quote", -(quote + fee))
  OBVIOUS
<1>15. bal' = Moved(sold, s, "base", -base) /\ allow' = Moved(spent, s, "base", -base)
  BY <1>1, <1>2, <1>3, <1>11, <1>12, <1>13, <1>14, Zenon DEF SettlesOnChain
<1>16. -(quote + fee) \in Int /\ -base \in Int /\ base \in Int /\ quote \in Int
  OBVIOUS
<1>17. /\ paid \in [Traders -> [B -> Nat]]
       /\ \A u \in Traders : paid[u]["base"] = bal[u]["base"]
  <2>1. b \in Traders => bal[b]["quote"] + (-(quote + fee)) \in Nat
    BY <1>8, <1>10
  <2>2. paid \in [Traders -> [B -> Nat]]
    BY <1>6, <1>7, <1>11, <1>16, <2>1, MovedKeeps
  <2>4. \A u \in Traders, k \in B :
          paid[u][k] = IF u = b /\ k = "quote" THEN bal[u][k] + (-(quote + fee)) ELSE bal[u][k]
    BY <1>6, <1>7, <1>11, <1>16 DEF Moved
  <2>3. QED
    BY <1>6, <2>2, <2>4
<1>18. /\ bought \in [Traders -> [B -> Nat]]
       /\ \A u \in Traders : bought[u]["base"] >= bal[u]["base"]
  <2>1. b \in Traders => paid[b][paidIn] + base \in Nat
    <3>1. \A u \in Traders : paid[u][paidIn] \in Nat
      BY <1>6, <1>17, Zenon
    <3>2. QED
      BY <3>1
  <2>2. bought \in [Traders -> [B -> Nat]]
    BY <1>6, <1>12, <1>16, <1>17, <2>1, MovedKeeps
  <2>4. \A u \in Traders, k \in B :
          bought[u][k] = IF u = b /\ k = paidIn THEN paid[u][k] + base ELSE paid[u][k]
    BY <1>6, <1>12, <1>16, <1>17 DEF Moved
  <2>3. QED
    BY <1>6, <1>8, <1>17, <2>2, <2>4
<1>19. /\ sold \in [Traders -> [B -> Nat]]
       /\ \A u \in Traders : sold[u]["base"] = bought[u]["base"]
  <2>1. s \in Traders => bought[s]["quote"] + quote \in Nat
    BY <1>6, <1>18
  <2>2. sold \in [Traders -> [B -> Nat]]
    BY <1>6, <1>13, <1>16, <1>18, <2>1, MovedKeeps
  <2>4. \A u \in Traders, k \in B :
          sold[u][k] = IF u = s /\ k = "quote" THEN bought[u][k] + quote ELSE bought[u][k]
    BY <1>6, <1>13, <1>16, <1>18 DEF Moved
  <2>3. QED
    BY <1>6, <2>2, <2>4
<1>20. bal' \in [Traders -> [B -> Nat]]
  <2>1. s \in Traders => sold[s]["base"] + (-base) \in Nat
    BY <1>6, <1>8, <1>10, <1>18, <1>19
  <2>2. QED
    BY <1>6, <1>15, <1>16, <1>19, <2>1, MovedKeeps
<1>21. /\ spent \in [Traders -> [A -> Nat]]
       /\ \A u \in Traders : spent[u]["base"] = allow[u]["base"]
  <2>1. b \in Traders => allow[b]["quote"] + (-(quote + fee)) \in Nat
    BY <1>8, <1>10
  <2>2. spent \in [Traders -> [A -> Nat]]
    BY <1>6, <1>7, <1>14, <1>16, <2>1, MovedKeeps
  <2>4. \A u \in Traders, k \in A :
          spent[u][k] = IF u = b /\ k = "quote" THEN allow[u][k] + (-(quote + fee)) ELSE allow[u][k]
    BY <1>6, <1>7, <1>14, <1>16 DEF Moved
  <2>3. QED
    BY <1>6, <2>2, <2>4
<1>22. allow' \in [Traders -> [A -> Nat]]
  <2>1. s \in Traders => spent[s]["base"] + (-base) \in Nat
    BY <1>8, <1>10, <1>21
  <2>2. QED
    BY <1>6, <1>15, <1>16, <1>21, <2>1, MovedKeeps
<1>23. QED
  BY <1>5, <1>20, <1>22, WalletFields DEF MoneyOK, Traders

\* A settlement leaves trades and wallets in order.
LEMMA SettlementKeeps ==
  ASSUME TradesOK, MoneyOK, NEW call, CallOK(call), Accepts(call), SettlesOnChain(call)
  PROVE  TradesOK' /\ MoneyOK' /\ trades \subseteq trades'
<1>1. PICK base \in Nat : base = FittingOf(call) /\ base <= call.fill.base
  BY FittingIsWithin
<1>2. PICK fee \in Nat : fee = FeeOf(call, base)
  BY <1>1, FeeOfIsNat
<1>3. MoneyOK'
  BY <1>1, <1>2, SettlementPays DEF CallOK
<1>5. PICK t : trades' = trades \cup {t} /\ t.key = call.key /\ t.base = base
  BY <1>1, TradeMade
<1>6. \A u \in trades : u.key # call.key
  BY DEF Accepts, UsedKeys
<1>7. t.key.base \in Nat /\ t.base <= t.key.base
  BY <1>1, <1>5 DEF CallOK
<1>8. IsFiniteSet(trades')
  BY <1>5, FS_AddElement DEF TradesOK
<1>9. TradesOK'
  <2>1. \A u \in trades' : u.base \in Nat /\ u.key.base \in Nat /\ u.base <= u.key.base
    BY <1>5, <1>7 DEF TradesOK
  <2>2. \A u, v \in trades' : u.key = v.key => u = v
    BY <1>5, <1>6 DEF TradesOK
  <2>3. QED
    BY <1>8, <2>1, <2>2 DEF TradesOK
<1>10. QED
  BY <1>3, <1>5, <1>9

-----------------------------------------------------------------------------
(***************************************************************************)
(* The world: what every variable holds, and what the tab has of the       *)
(* chain.                                                                  *)
(***************************************************************************)
ObjectsOK == IsFiniteSet(Published) /\ \A o \in Published : ObjOK(o, next)

\* The tab knows objects of the nodes and used fills of the chain.
TabOK ==
  /\ known \subseteq Published /\ usedCache \subseteq UsedKeys
  /\ BookOK(view.orders) /\ again \in BOOLEAN

\* The trades at the time usedFill had been read and the totals were.
ReadAt(T) ==
  /\ usedCache \subseteq {t.key : t \in T}
  /\ \A e \in DOMAIN refresh.filled :
       refresh.filled[e] = SumBase({t \in T : e \in {t.key.maker, t.key.taker}})

RefreshOK ==
  /\ refresh.pc \in {"idle", "list", "used", "filled", "bound", "capacity"}
  /\ refresh.pc = "bound" => \E T \in SUBSET trades : ReadAt(T)
  /\ refresh.pc = "capacity" => /\ "orders" \in DOMAIN refresh.derived
                                /\ BookOK(refresh.derived.orders)

\* What the user's action has in hand.
PlacedFields == {"base", "price", "maxFee", "filled", "short", "approval", "token", "m"}
PlacedOK(s) ==
  /\ PlacedFields \subseteq DOMAIN s
  /\ {s.base, s.price, s.maxFee, s.filled, s.short, s.approval} \subseteq Nat
  /\ s.token \in {"base", "quote"} /\ LegsOK(s.m.legs)
SignedOK(s, n) ==
  /\ ObjOK(s.auth, n) /\ ObjOK(s.order, n) /\ LegsOK(s.legs)
  /\ s.pc = "fill" => s.legs # <<>>

Stages == {"idle", "wrap", "reset", "approve", "sign", "auth", "order", "fill", "revoke",
           "onchain", "fit", "send", "receipt", "finish", "await"}
HandOK ==
  /\ session.pc \in Stages
  /\ session.pc \in {"wrap", "reset", "approve", "sign"} => PlacedOK(session)
  /\ Signing => SignedOK(session, next)
  /\ session.pc = "revoke" => ObjOK(session.revocation, next)
  /\ session.pc \in {"fit", "send"} => "call" \in DOMAIN session /\ CallOK(session.call)
  /\ session.pc = "receipt" => ObjOK(session.receipt, next)

FormsOK(forms) == \A form \in forms : form.amount \in Nat /\ form.limit \in Nat
LeftOK ==
  /\ {"forms", "theirs"} \subseteq DOMAIN left /\ FormsOK(left.forms) /\ FormsOK(left.theirs)
  /\ \A k \in DOMAIN left \ {"forms", "theirs"} : left[k] \in Nat

ClockOK == clock \in Nat /\ next \in Nat \ {0} /\ preferred \in Nodes \cup {NoNode}

WorldInv ==
  ObjectsOK /\ TradesOK /\ MoneyOK /\ TabOK /\ RefreshOK /\ HandOK /\ LeftOK /\ ClockOK

-----------------------------------------------------------------------------
(***************************************************************************)
(* What stays as it is.                                                    *)
(***************************************************************************)
LEMMA LaterOK ==
  ASSUME NEW n \in Nat, NEW m \in Nat, n <= m, NEW o, ObjOK(o, n)
  PROVE  ObjOK(o, m)
  BY DEF ObjOK

LEMMA ObjectsKept ==
  ASSUME ObjectsOK, NEW objs, Adds(objs), IsFiniteSet(objs), next \in Nat, next' \in Nat,
         next <= next', \A o \in objs : ObjOK(o, next')
  PROVE  ObjectsOK'
<1>1. IsFiniteSet(Published')
  <2>1. IsFiniteSet(Published \cup objs)
    BY FS_Union DEF ObjectsOK
  <2>2. QED
    BY <2>1, FS_Subset DEF Adds
<1>2. \A o \in Published' : ObjOK(o, next')
  BY LaterOK DEF ObjectsOK, Adds
<1>3. QED
  BY <1>1, <1>2 DEF ObjectsOK

LEMMA ListingIsReadable ==
  ASSUME ObjectsOK, NEW objs \in SUBSET Published
  PROVE  Readable(objs)
<1>1. IsFiniteSet(objs)
  BY FS_Subset DEF ObjectsOK
<1>2. \A o \in objs : o.hash \in Nat /\ WellFormed(o)
  BY DEF ObjectsOK, ObjOK
<1>3. QED
  BY <1>1, <1>2 DEF Readable

LEMMA TabKept ==
  ASSUME TabOK, UNCHANGED <<known, usedCache, view>>, again' \in BOOLEAN,
         Published \subseteq Published', trades \subseteq trades'
  PROVE  TabOK'
<1>1. UsedKeys \subseteq UsedKeys'
  BY DEF UsedKeys
<1>2. QED
  BY <1>1 DEF TabOK

LEMMA RefreshStays ==
  ASSUME RefreshOK, trades \subseteq trades',
         \/ UNCHANGED <<refresh, usedCache>>
         \/ refresh'.pc \in {"idle", "list", "used", "filled"}
  PROVE  RefreshOK'
<1>1. CASE UNCHANGED <<refresh, usedCache>>
  BY <1>1 DEF RefreshOK, ReadAt
<1>2. CASE refresh'.pc \in {"idle", "list", "used", "filled"}
  BY <1>2 DEF RefreshOK
<1>3. QED
  BY <1>1, <1>2

LEMMA HandStays ==
  ASSUME HandOK, session' = session, next \in Nat, next' \in Nat, next <= next'
  PROVE  HandOK'
  BY LaterOK DEF HandOK, Signing, SignedOK

\* An action that has nothing in hand that matters here.
LEMMA HandEmpty ==
  ASSUME session'.pc \in {"idle", "onchain", "finish", "await"}
  PROVE  HandOK'
  BY DEF HandOK, Stages, Signing

LEMMA SpendKeeps ==
  ASSUME LeftOK, NEW k, k \notin {"forms", "theirs"}, Spend(k)
  PROVE  LeftOK'
<1>1. left' = [left EXCEPT ![k] = left[k] - 1] /\ left[k] > 0
  BY DEF Spend
<1>2. DOMAIN left' = DOMAIN left /\ left'.forms = left.forms /\ left'.theirs = left.theirs
  BY <1>1 DEF LeftOK
<1>3. \A j \in DOMAIN left \ {"forms", "theirs"} : left'[j] \in Nat
  BY <1>1 DEF LeftOK
<1>4. QED
  BY <1>2, <1>3 DEF LeftOK

LEMMA LeftStays ==
  ASSUME LeftOK, left' = left \/ Spend("faults")
  PROVE  LeftOK'
<1>1. CASE left' = left
  BY <1>1 DEF LeftOK
<1>2. CASE Spend("faults")
  BY <1>2, SpendKeeps
<1>3. QED
  BY <1>1, <1>2

LEMMA ChainStays ==
  ASSUME TradesOK, MoneyOK, UNCHANGED <<trades, bal, allow>>
  PROVE  TradesOK' /\ MoneyOK' /\ trades \subseteq trades'
  BY DEF TradesOK, MoneyOK, Traders

\* The nodes hold what they held.
LEMMA NodesStay ==
  ASSUME ObjectsOK, stored' = stored, next \in Nat, next' \in Nat, next <= next'
  PROVE  ObjectsOK' /\ Published' = Published
<1>1. Published' = Published
  BY DEF Published
<1>2. QED
  BY <1>1, LaterOK DEF ObjectsOK

-----------------------------------------------------------------------------
(***************************************************************************)
(* The refresh keeps the world in order.                                   *)
(***************************************************************************)
LEMMA TabSteps ==
  ASSUME WorldInv, UNCHANGED <<stored, next, clock, trades, bal, allow>>,
         preferred' \in Nodes \cup {NoNode}, left' = left \/ Spend("faults"),
         TabOK', RefreshOK', HandOK'
  PROVE  WorldInv'
<1>1. next \in Nat /\ next' \in Nat /\ next <= next'
  BY DEF WorldInv, ClockOK
<1>2. ObjectsOK' /\ LeftOK' /\ TradesOK' /\ MoneyOK'
  BY <1>1, NodesStay, LeftStays, ChainStays DEF WorldInv
<1>3. ClockOK'
  BY DEF WorldInv, ClockOK
<1>4. QED
  BY <1>2, <1>3 DEF WorldInv

LEMMA EndInHand ==
  ASSUME WorldInv, RefreshEnds, next' = next
  PROVE  HandOK' /\ refresh'.pc \in {"idle", "list"} /\ again' \in BOOLEAN
<1>1. refresh'.pc \in {"idle", "list"} /\ again' \in BOOLEAN
  <2>1. again \in BOOLEAN
    BY DEF WorldInv, TabOK
  <2>2. again' \in BOOLEAN
    BY <2>1, Zenon DEF RefreshEnds
  <2>3. refresh'.pc \in {"idle", "list"}
    BY DEF RefreshEnds, Quiet
  <2>4. QED
    BY <2>2, <2>3
<1>2. session' = session \/ session'.pc = "idle"
  BY DEF RefreshEnds, Quiet
<1>3. HandOK'
  BY <1>2, HandStays, HandEmpty DEF WorldInv, ClockOK
<1>4. QED
  BY <1>1, <1>3

LEMMA ListWorld ==
  ASSUME AppInv, WorldInv, ListObjects
  PROVE  WorldInv'
<1>1. /\ UNCHANGED <<stored, next, clock, trades, bal, allow, usedCache, view>>
      /\ Published' = Published /\ UsedKeys' = UsedKeys
  BY DEF ListObjects, chainVars, Published, UsedKeys
<1>2. CASE \E n \in Nodes, slow \in SUBSET up :
             /\ Answers(n, slow) /\ TooSlow(slow)
             /\ refresh' = [pc |-> "used", objs |-> stored[n]]
             /\ known' = known \cup stored[n]
             /\ UNCHANGED <<again, session>>
  <2>1. PICK n \in Nodes, slow \in SUBSET up :
          /\ Answers(n, slow) /\ TooSlow(slow)
          /\ refresh' = [pc |-> "used", objs |-> stored[n]]
          /\ known' = known \cup stored[n]
          /\ UNCHANGED <<again, session>>
    BY <1>2
  <2>2. preferred' \in Nodes \cup {NoNode} /\ (left' = left \/ Spend("faults"))
    BY <2>1 DEF Answers, TooSlow
  <2>3. TabOK'
    BY <1>1, <2>1 DEF WorldInv, TabOK, Published
  <2>4. RefreshOK'
    BY <2>1 DEF RefreshOK
  <2>5. HandOK'
    BY <1>1, <2>1, HandStays DEF WorldInv, ClockOK
  <2>6. QED
    BY <1>1, <2>2, <2>3, <2>4, <2>5, TabSteps
<1>3. CASE \E slow \in SUBSET up :
             NobodyAnswers(slow) /\ TooSlow(slow) /\ RefreshFails /\ UNCHANGED known
  <2>1. PICK slow \in SUBSET up : NobodyAnswers(slow) /\ TooSlow(slow) /\ RefreshEnds /\ known' = known
    BY <1>3 DEF RefreshFails
  <2>2. preferred' \in Nodes \cup {NoNode} /\ (left' = left \/ Spend("faults"))
    BY <2>1 DEF NobodyAnswers, TooSlow, WorldInv, ClockOK
  <2>3. HandOK' /\ refresh'.pc \in {"idle", "list"} /\ again' \in BOOLEAN
    BY <1>1, <2>1, EndInHand
  <2>4. TabOK'
    BY <1>1, <2>1, <2>3 DEF WorldInv, TabOK
  <2>5. RefreshOK'
    BY <2>3 DEF RefreshOK
  <2>6. QED
    BY <1>1, <2>2, <2>3, <2>4, <2>5, TabSteps
<1>4. QED
  BY <1>2, <1>3 DEF ListObjects

LEMMA UsedWorld ==
  ASSUME AppInv, WorldInv, ReadUsed
  PROVE  WorldInv'
<1>1. /\ UNCHANGED <<stored, next, clock, trades, bal, allow, preferred, view, again, known, session>>
      /\ Published' = Published /\ UsedKeys' = UsedKeys
      /\ refresh.pc = "used" /\ refresh' = [refresh EXCEPT !.pc = "filled"]
  BY DEF ReadUsed, chainVars, nodeVars, Published, UsedKeys
<1>2. \E lost, unknown : Lost(lost) /\ usedCache' = usedCache \cup ((unknown \ lost) \cap UsedKeys)
  BY DEF ReadUsed
<1>3. left' = left \/ Spend("faults")
  BY <1>2 DEF Lost
<1>4. TabOK'
  BY <1>1, <1>2 DEF WorldInv, TabOK
<1>5. RefreshOK'
  BY <1>1 DEF RefreshOK, AppInv, RefreshInv
<1>6. HandOK'
  BY <1>1, HandStays DEF WorldInv, ClockOK
<1>7. preferred' \in Nodes \cup {NoNode}
  BY <1>1 DEF WorldInv, ClockOK
<1>8. QED
  BY <1>1, <1>3, <1>4, <1>5, <1>6, <1>7, TabSteps

LEMMA FilledWorld ==
  ASSUME AppInv, WorldInv, ReadFilled
  PROVE  WorldInv'
<1>1. /\ UNCHANGED <<stored, next, clock, trades, bal, allow, preferred, view, again, known, session, usedCache>>
      /\ Published' = Published /\ UsedKeys' = UsedKeys
  BY DEF ReadFilled, chainVars, nodeVars, Published, UsedKeys
<1>2. \E lost, eips : /\ Lost(lost) /\ refresh'.pc = "bound"
                      /\ refresh'.filled = [e \in eips \ lost |-> FilledOnChain(e)]
  <2>1. \E eips, lost : /\ Lost(lost)
           /\ refresh' = [pc |-> "bound", objs |-> refresh.objs, eips |-> eips,
                          filled |-> ReadTotals(eips \ lost, FilledOnChain)]
    BY DEF ReadFilled
  <2>2. QED
    BY <2>1 DEF ReadTotals
<1>3. PICK lost, eips : /\ Lost(lost) /\ refresh'.pc = "bound"
                        /\ refresh'.filled = [e \in eips \ lost |-> FilledOnChain(e)]
  BY <1>2
<1>4. left' = left \/ Spend("faults")
  BY <1>3 DEF Lost
<1>5. TabOK'
  BY <1>1 DEF WorldInv, TabOK
<1>6. RefreshOK'
  <2>1. \A e \in DOMAIN refresh'.filled :
          refresh'.filled[e] = SumBase({t \in trades : e \in {t.key.maker, t.key.taker}})
    BY <1>3 DEF FilledOnChain, Involving
  <2>2. usedCache' \subseteq {t.key : t \in trades'}
    BY <1>1 DEF WorldInv, TabOK, UsedKeys
  <2>3. \E T \in SUBSET trades' :
          /\ usedCache' \subseteq {t.key : t \in T}
          /\ \A e \in DOMAIN refresh'.filled :
               refresh'.filled[e] = SumBase({t \in T : e \in {t.key.maker, t.key.taker}})
    <3>1. trades \in SUBSET trades'
      BY <1>1
    <3>2. usedCache' \subseteq {t.key : t \in trades}
      BY <1>1, <2>2
    <3>3. QED
      BY <2>1, <3>1, <3>2
  <2>4. QED
    BY <1>3, <2>3 DEF RefreshOK, ReadAt
<1>7. HandOK'
  BY <1>1, HandStays DEF WorldInv, ClockOK
<1>8. preferred' \in Nodes \cup {NoNode}
  BY <1>1 DEF WorldInv, ClockOK
<1>9. QED
  BY <1>1, <1>4, <1>5, <1>6, <1>7, <1>8, TabSteps

\* The chain as a refresh read it, and the book that makes.
LEMMA BookRead ==
  ASSUME AppInv, WorldInv, ReadBound
  PROVE  \E chain : /\ chain.read = TRUE /\ chain.used = usedCache
                    /\ chain.filled = refresh.filled /\ ChainNumbers(chain)
                    /\ refresh'.pc = "capacity"
                    /\ refresh'.derived = DeriveState(refresh.objs, chain, clock)
<1>1. PICK lost : Rederive(usedCache, lost) /\ refresh.pc = "bound"
  BY DEF ReadBound
<1>2. PICK chain : chain = [read |-> TRUE, used |-> usedCache, filled |-> refresh.filled,
                            bound |-> ReadTotals(BoundEips \ lost, BoundOnChain)]
  OBVIOUS
<1>3. refresh' = [pc |-> "capacity", derived |-> DeriveState(refresh.objs, chain, clock)]
  BY <1>1, <1>2 DEF Rederive
<1>4. PICK T \in SUBSET trades : ReadAt(T)
  BY <1>1 DEF WorldInv, RefreshOK
<1>5. \A e \in DOMAIN refresh.filled : refresh.filled[e] \in Nat
  <2>1. ASSUME NEW e \in DOMAIN refresh.filled PROVE refresh.filled[e] \in Nat
    <3>1. PICK S : S = {t \in T : e \in {t.key.maker, t.key.taker}}
      OBVIOUS
    <3>2. IsFiniteSet(S) /\ \A t \in S : t.base \in Nat
      BY <3>1, FS_Subset DEF WorldInv, TradesOK
    <3>3. refresh.filled[e] = SumBase(S)
      BY <1>4, <3>1 DEF ReadAt
    <3>4. QED
      BY <3>2, <3>3, SumBaseIsNat
  <2>2. QED
    BY <2>1
<1>6. \A e \in DOMAIN chain.bound : chain.bound[e] \in Nat
  <2>1. chain.bound = [e \in BoundEips \ lost |-> BoundOnChain(e)]
    BY <1>2 DEF ReadTotals
  <2>2. \A e : BoundOnChain(e) \in Nat
    BY ChainSumsAreNat DEF WorldInv
  <2>3. QED
    BY <2>1, <2>2
<1>7. chain.read = TRUE /\ chain.used = usedCache /\ chain.filled = refresh.filled
  BY <1>2
<1>8. ChainNumbers(chain)
  BY <1>5, <1>6, <1>7 DEF ChainNumbers
<1>9. refresh'.pc = "capacity" /\ refresh'.derived = DeriveState(refresh.objs, chain, clock)
  BY <1>3
<1>10. QED
  BY <1>7, <1>8, <1>9

LEMMA BoundWorld ==
  ASSUME AppInv, WorldInv, ReadBound
  PROVE  WorldInv'
<1>1. /\ UNCHANGED <<stored, next, clock, trades, bal, allow, preferred, view, again, known, session, usedCache>>
      /\ Published' = Published /\ UsedKeys' = UsedKeys /\ refresh.pc = "bound"
      /\ left' = left \/ Spend("faults")
  BY DEF ReadBound, Lost, chainVars, nodeVars, Published, UsedKeys
<1>2. PICK chain : /\ ChainNumbers(chain) /\ refresh'.pc = "capacity"
                   /\ refresh'.derived = DeriveState(refresh.objs, chain, clock)
  BY BookRead
<1>3. PICK objs : objs = refresh.objs
  OBVIOUS
<1>4. Readable(objs)
  BY <1>1, <1>3, ListingIsReadable DEF AppInv, RefreshInv, WorldInv
<1>5. BookOK(DeriveState(objs, chain, clock).orders)
  BY <1>2, <1>4, BookIsTyped
<1>6. "orders" \in DOMAIN DeriveState(objs, chain, clock)
  BY DEF DeriveState
<1>7. RefreshOK'
  <2>1. BookOK(refresh'.derived.orders) /\ "orders" \in DOMAIN refresh'.derived
    BY <1>2, <1>3, <1>5, <1>6
  <2>2. BookOK(refresh.derived.orders)'
    BY <2>1 DEF BookOK, EntryOK, OfferNumbers
  <2>3. QED
    BY <1>2, <2>1, <2>2 DEF RefreshOK
<1>8. TabOK'
  BY <1>1 DEF WorldInv, TabOK
<1>9. HandOK'
  BY <1>1, HandStays DEF WorldInv, ClockOK
<1>10. preferred' \in Nodes \cup {NoNode}
  BY <1>1 DEF WorldInv, ClockOK
<1>11. QED
  BY <1>1, <1>7, <1>8, <1>9, <1>10, TabSteps

LEMMA ShowWorld ==
  ASSUME AppInv, WorldInv, ShowBook
  PROVE  WorldInv'
<1>1. /\ UNCHANGED <<stored, next, clock, trades, bal, allow, preferred, known, usedCache>>
      /\ Published' = Published /\ UsedKeys' = UsedKeys /\ refresh.pc = "capacity" /\ RefreshEnds
  BY DEF ShowBook, chainVars, nodeVars, Published, UsedKeys
<1>2. PICK lost : /\ Lost(lost)
                  /\ view' = [refresh.derived EXCEPT !.orders = FundedWith(@, Capacity(lost))]
  BY DEF ShowBook
<1>3. left' = left \/ Spend("faults")
  BY <1>2 DEF Lost
<1>4. PICK orders : orders = refresh.derived.orders
  OBVIOUS
<1>5. BookOK(orders) /\ "orders" \in DOMAIN refresh.derived
  BY <1>1, <1>4 DEF WorldInv, RefreshOK
<1>6. view'.orders = FundedWith(orders, Capacity(lost))
  BY <1>2, <1>4, <1>5
<1>7. BookOK(FundedWith(orders, Capacity(lost)))
  BY <1>5, FundingKeepsBook
<1>8. HandOK' /\ refresh'.pc \in {"idle", "list"} /\ again' \in BOOLEAN
  BY <1>1, EndInHand
<1>9. TabOK'
  BY <1>1, <1>6, <1>7, <1>8 DEF WorldInv, TabOK
<1>10. RefreshOK'
  BY <1>8 DEF RefreshOK
<1>11. preferred' \in Nodes \cup {NoNode}
  BY <1>1 DEF WorldInv, ClockOK
<1>12. QED
  BY <1>1, <1>3, <1>8, <1>9, <1>10, <1>11, TabSteps

LEMMA RefreshWorld ==
  ASSUME AppInv, WorldInv, Interval \/ RefreshStep
  PROVE  WorldInv'
<1>1. CASE Interval
  <2>1. /\ UNCHANGED <<stored, next, clock, trades, bal, allow, preferred, view, again, known, session, usedCache, left>>
        /\ Published' = Published /\ UsedKeys' = UsedKeys /\ refresh'.pc = "list"
    BY <1>1 DEF Interval, RefreshStarts, chainVars, nodeVars, Published, UsedKeys
  <2>2. TabOK'
    BY <2>1 DEF WorldInv, TabOK
  <2>3. RefreshOK' /\ HandOK'
    BY <2>1, HandStays DEF RefreshOK, WorldInv, ClockOK
  <2>4. preferred' \in Nodes \cup {NoNode}
    BY <2>1 DEF WorldInv, ClockOK
  <2>5. QED
    BY <2>1, <2>2, <2>3, <2>4, TabSteps
<1>2. QED
  BY <1>1, ListWorld, UsedWorld, FilledWorld, BoundWorld, ShowWorld DEF RefreshStep

-----------------------------------------------------------------------------
(***************************************************************************)
(* The user's actions keep the world in order.                             *)
(***************************************************************************)
LEMMA TabSame ==
  ASSUME WorldInv, UNCHANGED tabVars, Published \subseteq Published', trades \subseteq trades'
  PROVE  TabOK' /\ RefreshOK'
<1>1. UNCHANGED <<known, usedCache, view, refresh>> /\ again' \in BOOLEAN
  BY DEF tabVars, WorldInv, TabOK
<1>2. QED
  BY <1>1, TabKept, RefreshStays DEF WorldInv

\* A step that publishes nothing.
LEMMA QuietSteps ==
  ASSUME WorldInv, UNCHANGED <<stored, preferred, clock, tabVars>>, next' \in Nat, next <= next',
         trades \subseteq trades', TradesOK', MoneyOK', LeftOK', HandOK'
  PROVE  WorldInv'
<1>1. ObjectsOK' /\ Published' = Published
  BY NodesStay DEF WorldInv, ClockOK
<1>2. TabOK' /\ RefreshOK'
  BY <1>1, TabSame
<1>3. ClockOK'
  BY DEF WorldInv, ClockOK
<1>4. QED
  BY <1>1, <1>2, <1>3 DEF WorldInv

LEMMA WalletsAreNat ==
  ASSUME WorldInv
  PROVE  /\ {bal[Me].base, bal[Me].quote, bal[Me].eth} \subseteq Nat
         /\ \A token \in {"base", "quote"} : Available(token) \in Nat
         /\ Wrappable \in Nat
<1>1. Me \in Traders /\ bal[Me] \in Wallet
  BY AppAssumption DEF Traders, WorldInv, MoneyOK
<1>2. {bal[Me].base, bal[Me].quote, bal[Me].eth} \subseteq Nat
  BY <1>1 DEF Wallet
<1>3. ASSUME NEW token \in {"base", "quote"} PROVE Available(token) \in Nat
  <2>1. PICK n \in Nat : n = Commitments(view.orders, Me, token)
    BY CommitmentsAreNat DEF WorldInv, TabOK
  <2>2. bal[Me][token] \in Nat
    BY <1>2
  <2>3. PICK m \in Int : m = bal[Me][token] - n
    BY <2>1, <2>2
  <2>4. AtLeastZero(m) \in Nat
    BY Clamped
  <2>5. QED
    BY <2>1, <2>3, <2>4 DEF Available
<1>4. Wrappable \in Nat
  <2>1. PICK m \in Int : m = bal[Me].eth - GasReserve
    BY <1>2, AppAssumption
  <2>2. AtLeastZero(m) \in Nat
    BY Clamped
  <2>3. QED
    BY <2>1, <2>2 DEF Wrappable
<1>5. QED
  BY <1>2, <1>3, <1>4

LEMMA PlaceWorld ==
  ASSUME AppInv, WorldInv, NEW form \in left.forms, Place(form)
  PROVE  WorldInv'
<1>1. /\ UNCHANGED <<stored, preferred, clock, tabVars, next, trades, bal, allow>>
      /\ Spend("places")
  BY DEF Place, chainVars, nodeVars
<1>2. form.amount \in Nat /\ form.limit \in Nat
  BY DEF WorldInv, LeftOK, FormsOK
<1>3. PICK m : m = MatchOrder(view.orders, form.side, form.amount, form.limit, Me, clock)
  OBVIOUS
<1>4. /\ LegsOK(m.legs) /\ Filled(m, form.amount) \in Nat /\ WorstPrice(m) \in Nat
  BY <1>2, <1>3, MatchNumbers DEF WorldInv, TabOK
<1>5. PICK price \in Nat : price = IF form.limit = 0 THEN WorstPrice(m) ELSE form.limit
  BY <1>2, <1>4
<1>6. PICK base \in Nat : base = IF form.limit = 0 THEN Filled(m, form.amount) ELSE form.amount
  BY <1>2, <1>4
<1>7. PICK cost \in Nat : cost = QuoteFor(base, price)
  BY QuoteNat
<1>8. PICK maxFee \in Nat : maxFee = IF form.side = "buy" THEN MaxFeeForOrder(cost) ELSE 0
  BY FeesAreNat
<1>9. PICK need \in Nat : need = IF form.side = "buy" THEN cost + maxFee ELSE base
  OBVIOUS
<1>10. PICK short \in Nat : short = IF form.side = "sell" /\ WrapsNative
                                    THEN AtLeastZero(base - Available("base")) ELSE 0
  <2>1. PICK n \in Int : n = base - Available("base")
    BY WalletsAreNat
  <2>2. AtLeastZero(n) \in Nat
    BY Clamped
  <2>3. QED
    BY <2>1, <2>2
<1>11. PICK token : token = PayToken(form.side)
  OBVIOUS
<1>12. PICK approval \in Nat : approval = need + CommittedIn(token)
  BY CommittedInIsNat DEF WorldInv, TabOK
<1>13. \E pc \in {"wrap", "approve"} : \E market, shown, right :
         session' = [pc |-> pc, side |-> form.side, price |-> price, base |-> base, maxFee |-> maxFee,
                     m |-> m, filled |-> Filled(m, form.amount), market |-> market,
                     short |-> short, need |-> need, token |-> token,
                     approval |-> approval, shown |-> shown, right |-> right]
  <2>1. PICK shown, right : shown = MyOpen /\ right = BookIsRight
    OBVIOUS
  <2>2. PICK pc : pc = IF short > 0 THEN "wrap" ELSE "approve"
    OBVIOUS
  <2>3. session' = [pc |-> pc, side |-> form.side, price |-> price, base |-> base, maxFee |-> maxFee,
                     m |-> m, filled |-> Filled(m, form.amount), market |-> (form.limit = 0),
                     short |-> short, need |-> need, token |-> token,
                     approval |-> approval, shown |-> shown, right |-> right]
    BY <1>3, <1>5, <1>6, <1>7, <1>8, <1>9, <1>10, <1>11, <1>12, <2>1, <2>2, Zenon DEF Place
  <2>4. pc \in {"wrap", "approve"}
    BY <2>2
  <2>5. QED
    BY <2>3, <2>4
<1>14. /\ session'.pc \in {"wrap", "approve"} /\ PlacedFields \subseteq DOMAIN session'
       /\ session'.base = base /\ session'.price = price /\ session'.maxFee = maxFee
       /\ session'.filled = Filled(m, form.amount) /\ session'.short = short
       /\ session'.approval = approval /\ session'.token = token /\ session'.m = m
  BY <1>13 DEF PlacedFields
<1>15. token \in {"base", "quote"}
  BY <1>11 DEF PayToken
<1>16. PlacedOK(session')
  BY <1>4, <1>14, <1>15 DEF PlacedOK
<1>17. HandOK'
  <2>1. PlacedOK(session)'
    BY <1>16 DEF PlacedOK, LegsOK, LegOK
  <2>2. QED
    BY <1>14, <2>1 DEF HandOK, Stages, Signing
<1>18. LeftOK'
  BY <1>1, SpendKeeps DEF WorldInv
<1>19. TradesOK' /\ MoneyOK' /\ trades \subseteq trades' /\ next' \in Nat /\ next <= next'
  BY <1>1, ChainStays DEF WorldInv, ClockOK
<1>20. QED
  BY <1>1, <1>17, <1>18, <1>19, QuietSteps

LEMMA CancelWorld ==
  ASSUME AppInv, WorldInv, NEW o, NEW onChain, Cancel(o, onChain)
  PROVE  WorldInv'
<1>1. /\ UNCHANGED <<stored, preferred, clock, tabVars, trades, bal, allow>>
      /\ Spend("closes") /\ next' = next + 1
      /\ session'.pc = "revoke" /\ session'.revocation = BuildRevocation(next, o.auth, clock)
  BY DEF Cancel, chainVars, nodeVars
<1>2. next \in Nat \ {0} /\ next' \in Nat /\ next <= next' /\ clock \in Nat
  BY <1>1 DEF WorldInv, ClockOK
<1>3. PICK r : r = BuildRevocation(next, o.auth, clock)
  OBVIOUS
<1>4. r.type = "revocation" /\ r.hash = next /\ r.createdAt = clock
  BY <1>3 DEF BuildRevocation
<1>5. ObjOK(r, next')
  BY <1>1, <1>2, <1>4 DEF ObjOK, WellFormed
<1>6. HandOK'
  BY <1>1, <1>3, <1>5 DEF HandOK, Stages, Signing, ObjOK, WellFormed
<1>7. LeftOK' /\ TradesOK' /\ MoneyOK' /\ trades \subseteq trades'
  BY <1>1, SpendKeeps, ChainStays DEF WorldInv
<1>8. QED
  BY <1>1, <1>2, <1>6, <1>7, QuietSteps

LEMMA SettleWorld ==
  ASSUME AppInv, WorldInv, NEW hash, SettleNow(hash)
  PROVE  WorldInv'
<1>1. /\ UNCHANGED <<stored, preferred, clock, tabVars, trades, bal, allow, next>>
      /\ Spend("closes")
  BY DEF SettleNow, chainVars, nodeVars
<1>2. PICK call \in SettleCalls(known, hash) : session' = [pc |-> "fit", call |-> call]
  BY DEF SettleNow
<1>3. \A o \in known : WellFormed(o)
  BY DEF WorldInv, TabOK, ObjectsOK, ObjOK
<1>4. CallOK(call)
  BY <1>3, CallNumbers
<1>5. session'.pc = "fit" /\ "call" \in DOMAIN session' /\ session'.call = call
  BY <1>2
<1>6. CallOK(session.call)'
  BY <1>4, <1>5 DEF CallOK
<1>7. HandOK'
  BY <1>5, <1>6 DEF HandOK, Stages, Signing
<1>8. LeftOK' /\ TradesOK' /\ MoneyOK' /\ trades \subseteq trades' /\ next' \in Nat /\ next <= next'
  BY <1>1, SpendKeeps, ChainStays DEF WorldInv, ClockOK
<1>9. QED
  BY <1>1, <1>7, <1>8, QuietSteps

\* Two amounts of a wallet change, one after the other.
LEMMA TwoMovesKeep ==
  ASSUME NEW fields, NEW f \in [Traders -> [fields -> Nat]], NEW w \in Traders,
         NEW a \in fields, NEW b \in fields, a # b, NEW n \in Nat, n <= f[w][a]
  PROVE  Moved(Moved(f, w, a, -n), w, b, n) \in [Traders -> [fields -> Nat]]
<1>1. PICK g : g = Moved(f, w, a, -n)
  OBVIOUS
<1>2. f[w][a] \in Nat /\ f[w][a] + (-n) \in Nat /\ -n \in Int /\ n \in Int
  OBVIOUS
<1>3. g \in [Traders -> [fields -> Nat]]
  BY <1>1, <1>2, MovedKeeps
<1>4. g[w][b] + n \in Nat
  BY <1>3
<1>5. Moved(g, w, b, n) \in [Traders -> [fields -> Nat]]
  BY <1>2, <1>3, <1>4, MovedKeeps
<1>6. QED
  BY <1>1, <1>5

LEMMA UnwrapWorld ==
  ASSUME AppInv, WorldInv, Unwrap
  PROVE  WorldInv'
<1>1. /\ UNCHANGED <<stored, preferred, clock, tabVars, trades, allow, next, session>>
      /\ Spend("closes")
  BY DEF Unwrap, nodeVars
<1>2. PICK n : n = Available("base")
  OBVIOUS
<1>3. bal' = Moved(Moved(bal, Me, "base", -n), Me, "eth", n)
  BY <1>2, Zenon DEF Unwrap
<1>4. Me \in Traders
  BY AppAssumption DEF Traders
<1>5. n \in Nat /\ n <= bal[Me]["base"]
  <2>1. PICK c \in Nat : c = Commitments(view.orders, Me, "base")
    BY CommitmentsAreNat DEF WorldInv, TabOK
  <2>2. bal[Me]["base"] \in Nat
    BY WalletsAreNat
  <2>3. PICK m \in Int : m = bal[Me]["base"] - c
    BY <2>1, <2>2
  <2>4. AtLeastZero(m) \in {m, 0} /\ AtLeastZero(m) \in Nat
    BY Clamped
  <2>5. n = AtLeastZero(m)
    BY <1>2, <2>1, <2>3 DEF Available
  <2>6. QED
    BY <2>1, <2>2, <2>3, <2>4, <2>5
<1>6. PICK B : B = {"base", "quote", "eth"}
  OBVIOUS
<1>7. bal \in [Traders -> [B -> Nat]] /\ "base" \in B /\ "eth" \in B /\ "base" # "eth"
  BY <1>6, WalletFields DEF WorldInv, MoneyOK
<1>8. bal' \in [Traders -> [B -> Nat]]
  BY <1>3, <1>4, <1>5, <1>7, TwoMovesKeep
<1>9. MoneyOK'
  BY <1>1, <1>6, <1>8, WalletFields DEF WorldInv, MoneyOK, Traders
<1>10. LeftOK' /\ TradesOK' /\ trades \subseteq trades' /\ next' \in Nat /\ next <= next' /\ HandOK'
  BY <1>1, SpendKeeps, HandStays DEF WorldInv, ClockOK, TradesOK
<1>11. QED
  BY <1>1, <1>9, <1>10, QuietSteps

LEMMA StartWorld ==
  ASSUME AppInv, WorldInv, UserStarts
  PROVE  WorldInv'
  BY PlaceWorld, CancelWorld, SettleWorld, UnwrapWorld DEF UserStarts

\* What was placed goes on, unchanged, to its next step.
LEMMA PlacedGoesOn ==
  ASSUME SessionInv, HandOK, session.pc \in {"wrap", "reset", "approve", "sign"},
         NEW pc \in {"reset", "approve", "sign"}, Goto(pc)
  PROVE  HandOK'
<1>1. PlacedOK(session)
  BY DEF HandOK
<1>2. /\ session'.pc = pc /\ DOMAIN session' = DOMAIN session
      /\ \A field \in DOMAIN session \ {"pc"} : session'[field] = session[field]
  BY WentTo
<1>3. \A field \in PlacedFields : session'[field] = session[field]
  BY <1>1, <1>2 DEF PlacedOK, PlacedFields
<1>4. /\ session'.base = session.base /\ session'.price = session.price
      /\ session'.maxFee = session.maxFee /\ session'.filled = session.filled
      /\ session'.short = session.short /\ session'.approval = session.approval
      /\ session'.token = session.token /\ session'.m = session.m
  BY <1>3 DEF PlacedFields
<1>5. PlacedOK(session)'
  BY <1>1, <1>2, <1>4 DEF PlacedOK, LegsOK, LegOK
<1>6. QED
  BY <1>2, <1>5 DEF HandOK, Stages, Signing

LEMMA WrapWorld ==
  ASSUME AppInv, WorldInv, Wrap
  PROVE  WorldInv'
<1>1. /\ UNCHANGED <<stored, preferred, clock, tabVars, trades, allow, next, left>>
      /\ session.pc = "wrap" /\ Goto("approve") /\ bal[Me].eth >= session.short
      /\ bal' = Moved(Moved(bal, Me, "eth", -session.short), Me, "base", session.short)
  BY DEF Wrap, nodeVars
<1>2. PICK n \in Nat : n = session.short
  BY <1>1 DEF WorldInv, HandOK, PlacedOK
<1>3. Me \in Traders
  BY AppAssumption DEF Traders
<1>4. PICK B : B = {"base", "quote", "eth"}
  OBVIOUS
<1>5. bal \in [Traders -> [B -> Nat]] /\ "base" \in B /\ "eth" \in B /\ "base" # "eth"
  BY <1>4, WalletFields DEF WorldInv, MoneyOK
<1>6. n <= bal[Me]["eth"]
  BY <1>1, <1>2, <1>3, <1>5
<1>7. bal' \in [Traders -> [B -> Nat]]
  <2>1. bal' = Moved(Moved(bal, Me, "eth", -n), Me, "base", n)
    BY <1>1, <1>2
  <2>2. QED
    BY <1>3, <1>5, <1>6, <2>1, TwoMovesKeep
<1>8. MoneyOK'
  BY <1>1, <1>4, <1>7, WalletFields DEF WorldInv, MoneyOK, Traders
<1>9. HandOK'
  BY <1>1, PlacedGoesOn DEF AppInv, WorldInv
<1>10. LeftOK' /\ TradesOK' /\ trades \subseteq trades' /\ next' \in Nat /\ next <= next'
  BY <1>1 DEF WorldInv, ClockOK, TradesOK, LeftOK, FormsOK
<1>11. QED
  BY <1>1, <1>8, <1>9, <1>10, QuietSteps

LEMMA ApproveWorld ==
  ASSUME AppInv, WorldInv, Approve
  PROVE  WorldInv'
<1>1. /\ UNCHANGED <<stored, preferred, clock, tabVars, trades, bal, next, left>>
      /\ session.pc \in {"approve", "reset"}
  BY DEF Approve, nodeVars
<1>2. \E pc \in {"reset", "approve", "sign"} : Goto(pc)
  BY DEF Approve
<1>3. PICK token : token = session.token
  OBVIOUS
<1>4. PICK n \in Nat : n = session.approval
  BY <1>1 DEF WorldInv, HandOK, PlacedOK
<1>5. token \in {"base", "quote"}
  BY <1>1, <1>3 DEF WorldInv, HandOK, PlacedOK
<1>6. allow' = allow \/ \E m \in {0, n} : allow' = [allow EXCEPT ![Me][token] = m]
  BY <1>3, <1>4 DEF Approve
<1>7. PICK A : A = {"base", "quote"}
  OBVIOUS
<1>8. allow \in [Traders -> [A -> Nat]] /\ token \in A
  BY <1>5, <1>7, WalletFields DEF WorldInv, MoneyOK
<1>9. allow' \in [Traders -> [A -> Nat]]
  <2>1. CASE allow' = allow
    BY <1>8, <2>1
  <2>2. ASSUME NEW m \in {0, n}, allow' = [allow EXCEPT ![Me][token] = m]
        PROVE  allow' \in [Traders -> [A -> Nat]]
    <3>1. PICK g : g = [allow EXCEPT ![Me][token] = m]
      OBVIOUS
    <3>2. Me \in Traders /\ m \in Nat
      BY AppAssumption DEF Traders
    <3>3. g \in [Traders -> [A -> Nat]]
      BY <1>8, <3>1, <3>2
    <3>4. QED
      BY <2>2, <3>1, <3>3
  <2>3. QED
    BY <1>6, <2>1, <2>2
<1>10. MoneyOK'
  BY <1>1, <1>7, <1>9, WalletFields DEF WorldInv, MoneyOK, Traders
<1>11. HandOK'
  BY <1>1, <1>2, PlacedGoesOn DEF AppInv, WorldInv
<1>12. LeftOK' /\ TradesOK' /\ trades \subseteq trades' /\ next' \in Nat /\ next <= next'
  BY <1>1 DEF WorldInv, ClockOK, TradesOK, LeftOK, FormsOK
<1>13. QED
  BY <1>1, <1>10, <1>11, <1>12, QuietSteps

LEMMA SignWorld ==
  ASSUME AppInv, WorldInv, Sign
  PROVE  WorldInv'
<1>1. /\ UNCHANGED <<stored, preferred, clock, tabVars, trades, bal, allow, left>>
      /\ next' = next + 2 /\ session.pc = "sign"
  BY DEF Sign, chainVars, nodeVars
<1>2. PICK a, o : /\ a = SignedBy(Me, next, session, clock).auth
                  /\ o = SignedBy(Me, next, session, clock).order
  OBVIOUS
<1>3. session' = [pc |-> "auth", auth |-> a, order |-> o, legs |-> session.m.legs]
  BY <1>2 DEF Sign
<1>4. /\ LegsOK(session.m.legs)
      /\ {session.base, session.price, session.maxFee, session.filled} \subseteq Nat
  BY <1>1 DEF WorldInv, HandOK, PlacedOK
<1>5. next \in Nat \ {0} /\ clock \in Nat
  BY DEF WorldInv, ClockOK
<1>6. ObjOK(a, next + 2) /\ ObjOK(o, next + 2)
  BY <1>2, <1>4, <1>5, SignedObjects
<1>7. /\ session'.pc = "auth" /\ session'.auth = a /\ session'.order = o
      /\ session'.legs = session.m.legs
  BY <1>3
<1>8. SignedOK(session, next)'
  BY <1>1, <1>4, <1>6, <1>7 DEF SignedOK, ObjOK, WellFormed, LegsOK, LegOK
<1>9. HandOK'
  BY <1>7, <1>8 DEF HandOK, Stages, Signing
<1>10. next' \in Nat /\ next <= next'
  BY <1>1, <1>5
<1>11. LeftOK' /\ TradesOK' /\ MoneyOK' /\ trades \subseteq trades'
  BY <1>1, LeftStays, ChainStays DEF WorldInv
<1>12. QED
  BY <1>1, <1>9, <1>10, <1>11, QuietSteps

LEMMA OnChainWorld ==
  ASSUME AppInv, WorldInv, RevokeOnChain \/ CheckFits
  PROVE  WorldInv'
<1>1. /\ UNCHANGED <<stored, preferred, clock, tabVars, trades, bal, allow, next, left>>
      /\ \E pc \in {"finish", "send"} : Goto(pc) /\ (pc = "send" => session.pc = "fit")
  <2>1. CASE RevokeOnChain
    BY <2>1 DEF RevokeOnChain, nodeVars
  <2>2. CASE CheckFits
    BY <2>2 DEF CheckFits, nodeVars, chainVars
  <2>3. QED
    BY <2>1, <2>2
<1>2. PICK pc \in {"finish", "send"} : Goto(pc) /\ (pc = "send" => session.pc = "fit")
  BY <1>1
<1>3. /\ session'.pc = pc /\ DOMAIN session' = DOMAIN session
      /\ \A field \in DOMAIN session \ {"pc"} : session'[field] = session[field]
  BY <1>2, WentTo DEF AppInv
<1>4. HandOK'
  <2>1. CASE pc = "finish"
    BY <1>3, <2>1, HandEmpty
  <2>2. CASE pc = "send"
    <3>1. CallOK(session.call) /\ "call" \in DOMAIN session
      BY <1>2, <2>2 DEF WorldInv, HandOK
    <3>2. session'.call = session.call /\ "call" \in DOMAIN session'
      BY <1>3, <3>1
    <3>3. CallOK(session.call)'
      BY <3>1, <3>2 DEF CallOK
    <3>4. QED
      BY <1>3, <2>2, <3>2, <3>3 DEF HandOK, Stages, Signing
  <2>3. QED
    BY <2>1, <2>2
<1>5. next' \in Nat /\ next <= next'
  BY <1>1 DEF WorldInv, ClockOK
<1>6. LeftOK' /\ TradesOK' /\ MoneyOK' /\ trades \subseteq trades'
  BY <1>1, LeftStays, ChainStays DEF WorldInv
<1>7. QED
  BY <1>1, <1>4, <1>5, <1>6, QuietSteps

\* The receipt of a settlement is an object like any other.
LEMMA ReceiptOK ==
  ASSUME NEW hash \in Nat \ {0}, NEW now \in Nat, NEW call, NEW moved \in Nat
  PROVE  ObjOK(BuildReceipt(hash, call, moved, now), hash + 1)
<1>1. PICK r : r = BuildReceipt(hash, call, moved, now)
  OBVIOUS
<1>2. r.type = "receipt" /\ r.hash = hash /\ r.createdAt = now /\ r.base = moved
  BY <1>1 DEF BuildReceipt
<1>3. QED
  BY <1>1, <1>2 DEF ObjOK, WellFormed

LEMMA SendWorld ==
  ASSUME AppInv, WorldInv, SendSettlement
  PROVE  WorldInv'
<1>1. UNCHANGED <<stored, preferred, clock, tabVars, left>> /\ session.pc = "send"
  BY DEF SendSettlement, nodeVars
<1>2. PICK call : call = session.call
  OBVIOUS
<1>3. CallOK(call)
  BY <1>1, <1>2 DEF WorldInv, HandOK
<1>4. next \in Nat \ {0} /\ clock \in Nat
  BY DEF WorldInv, ClockOK
<1>5. LeftOK'
  BY <1>1, LeftStays DEF WorldInv
<1>6. CASE Accepts(call)
  <2>1. PICK r : r = BuildReceipt(next, call, FittingOf(call), clock)
    OBVIOUS
  <2>2. SettlesOnChain(call) /\ session' = [pc |-> "receipt", receipt |-> r] /\ next' = next + 1
    BY <1>2, <1>6, <2>1 DEF SendSettlement, SettledAmount
  <2>3. TradesOK' /\ MoneyOK' /\ trades \subseteq trades'
    BY <1>3, <1>6, <2>2, SettlementKeeps DEF WorldInv
  <2>4. FittingOf(call) \in Nat
    BY <1>3, FittingIsWithin DEF WorldInv
  <2>5. ObjOK(r, next + 1)
    BY <1>4, <2>1, <2>4, ReceiptOK
  <2>6. session'.pc = "receipt" /\ session'.receipt = r
    BY <2>2
  <2>7. ObjOK(session.receipt, next)'
    BY <2>2, <2>5, <2>6 DEF ObjOK, WellFormed
  <2>8. HandOK'
    BY <2>6, <2>7 DEF HandOK, Stages, Signing
  <2>9. next' \in Nat /\ next <= next'
    BY <1>4, <2>2
  <2>10. QED
    BY <1>1, <1>5, <2>3, <2>8, <2>9, QuietSteps
<1>7. CASE ~Accepts(call)
  <2>1. UNCHANGED <<next, trades, bal, allow>> /\ session'.pc \in {"finish", "idle"}
    BY <1>2, <1>7 DEF SendSettlement, chainVars, Quiet
  <2>2. HandOK' /\ TradesOK' /\ MoneyOK' /\ trades \subseteq trades' /\ next' \in Nat /\ next <= next'
    BY <1>4, <2>1, HandEmpty, ChainStays DEF WorldInv
  <2>3. QED
    BY <1>1, <1>5, <2>2, QuietSteps
<1>8. QED
  BY <1>6, <1>7

\* What a publication leaves behind, whether it succeeds or throws.
LEMMA PutLeaves ==
  ASSUME WorldInv, NEW obj, Put(obj) \/ PutFails(obj)
  PROVE  /\ Adds({obj}) /\ (Put(obj) => obj \in Published')
         /\ preferred' \in Nodes \cup {NoNode} /\ LeftOK'
<1>1. Adds({obj})
  BY PutAdds
<1>2. CASE Put(obj)
  <2>1. PICK n \in Nodes, slow \in SUBSET up :
          Answers(n, slow) /\ TooSlow(slow) /\ StoredAt(slow \cup {n}, obj)
    BY <1>2 DEF Put
  <2>2. preferred' = n /\ (left' = left \/ Spend("faults"))
    BY <2>1 DEF Answers, TooSlow
  <2>3. obj \in stored'[n]
    BY <2>1 DEF StoredAt
  <2>4. obj \in Published'
    BY <2>3 DEF Published
  <2>5. QED
    BY <1>1, <2>2, <2>4, LeftStays DEF WorldInv
<1>3. CASE PutFails(obj) /\ ~Put(obj)
  <2>1. preferred' = preferred /\ (left' = left \/ Spend("faults"))
    BY <1>3 DEF PutFails, NobodyAnswers, TooSlow
  <2>2. QED
    BY <1>1, <1>3, <2>1, LeftStays DEF WorldInv, ClockOK
<1>4. QED
  BY <1>2, <1>3

LEMMA PutWorld ==
  ASSUME WorldInv, NEW obj, Put(obj) \/ PutFails(obj), ObjOK(obj, next'),
         UNCHANGED <<clock, trades, bal, allow, view, refresh, again, usedCache>>,
         known' = known \/ (Put(obj) /\ known' = known \cup {obj}),
         next' \in Nat, next <= next', HandOK'
  PROVE  WorldInv'
<1>1. /\ Adds({obj}) /\ (Put(obj) => obj \in Published')
      /\ preferred' \in Nodes \cup {NoNode} /\ LeftOK'
  BY PutLeaves
<1>2. ObjectsOK'
  <2>1. IsFiniteSet({obj}) /\ (\A o \in {obj} : ObjOK(o, next'))
    BY FS_Singleton
  <2>2. next \in Nat /\ ObjectsOK
    BY DEF WorldInv, ClockOK
  <2>3. QED
    BY <1>1, <2>1, <2>2, ObjectsKept
<1>3. TradesOK' /\ MoneyOK' /\ trades \subseteq trades'
  BY ChainStays DEF WorldInv
<1>4. TabOK'
  <2>1. known' \subseteq Published'
    BY <1>1 DEF WorldInv, TabOK, Adds
  <2>2. usedCache' \subseteq UsedKeys'
    BY DEF WorldInv, TabOK, UsedKeys
  <2>3. again' \in BOOLEAN
    BY DEF WorldInv, TabOK
  <2>4. QED
    BY <2>1, <2>2, <2>3 DEF WorldInv, TabOK
<1>5. RefreshOK'
  BY RefreshStays DEF WorldInv
<1>6. ClockOK'
  BY <1>1 DEF WorldInv, ClockOK
<1>7. QED
  BY <1>1, <1>2, <1>3, <1>4, <1>5, <1>6 DEF WorldInv

\* The action goes on with what it has signed.
LEMMA SignedGoesOn ==
  ASSUME HandOK, Signing, NEW m \in Nat, NEW n \in Nat, n <= m, next = n, next' = m,
         session'.pc \in {"auth", "order", "fill", "finish"},
         session'.auth = session.auth, session'.order = session.order,
         LegsOK(session'.legs), session'.pc = "fill" => session'.legs # <<>>
  PROVE  HandOK'
<1>1. ObjOK(session.auth, n) /\ ObjOK(session.order, n)
  BY DEF HandOK, SignedOK
<1>2. ObjOK(session.auth, m) /\ ObjOK(session.order, m)
  BY <1>1, LaterOK
<1>3. SignedOK(session', next')
  BY <1>2 DEF SignedOK
<1>4. SignedOK(session, next)'
  BY <1>3 DEF SignedOK, LegsOK, LegOK, ObjOK, WellFormed
<1>5. QED
  BY <1>4 DEF HandOK, Stages, Signing

LEMMA AuthWorld ==
  ASSUME AppInv, WorldInv, PublishAuth \/ PublishOrder
  PROVE  WorldInv'
<1>1. Signing /\ UNCHANGED <<clock, next, trades, bal, allow, view, refresh, again, usedCache>>
  <2>1. CASE PublishAuth
    BY <2>1 DEF PublishAuth, chainVars, Signing
  <2>2. CASE PublishOrder
    BY <2>2 DEF PublishOrder, chainVars, Signing
  <2>3. QED
    BY <2>1, <2>2
<1>2. \E pc \in {"order", "finish", "fill"} :
        Goto(pc) /\ (pc = "fill" => session.legs # <<>>)
  BY DEF PublishAuth, PublishOrder
<1>3. PICK pc \in {"order", "finish", "fill"} :
        Goto(pc) /\ (pc = "fill" => session.legs # <<>>)
  BY <1>2
<1>4. SignedOK(session, next) /\ DOMAIN session = {"pc", "auth", "order", "legs"}
  BY <1>1 DEF WorldInv, HandOK, AppInv, SessionInv
<1>5. /\ session'.pc = pc /\ session'.auth = session.auth /\ session'.order = session.order
      /\ session'.legs = session.legs
  BY <1>3, <1>4 DEF Goto
<1>6. next \in Nat /\ next' \in Nat /\ next <= next'
  BY <1>1 DEF WorldInv, ClockOK
<1>7. HandOK'
  <2>1. LegsOK(session'.legs) /\ (session'.pc = "fill" => session'.legs # <<>>)
    BY <1>3, <1>4, <1>5 DEF SignedOK
  <2>2. session'.pc \in {"auth", "order", "fill", "finish"}
    BY <1>5
  <2>3. QED
    BY <1>1, <1>5, <1>6, <2>1, <2>2, SignedGoesOn DEF WorldInv
<1>8. PICK obj : /\ obj \in {session.auth, session.order} /\ Put(obj)
                 /\ known' = known \cup {obj}
  BY DEF PublishAuth, PublishOrder
<1>9. ObjOK(obj, next')
  BY <1>1, <1>4, <1>8 DEF SignedOK
<1>10. QED
  BY <1>1, <1>6, <1>7, <1>8, <1>9, PutWorld

\* The next fill of the order in hand.
LEMMA NextFillOK ==
  ASSUME WorldInv, session.pc = "fill"
  PROVE  /\ ObjOK(BuildFill(next, Head(session.legs), session.order,
                            LegFee(session.order.side, Head(session.legs)), clock), next + 1)
         /\ LegsOK(Tail(session.legs))
         /\ Len(session.legs) # 1 => Tail(session.legs) # <<>>
<1>1. SignedOK(session, next) /\ next \in Nat \ {0} /\ clock \in Nat
  BY DEF WorldInv, HandOK, Signing, ClockOK
<1>2. PICK legs : legs = session.legs
  OBVIOUS
<1>3. LegsOK(legs) /\ legs # <<>>
  BY <1>1, <1>2 DEF SignedOK
<1>4. PICK S : legs \in Seq(S) /\ \A l \in S : LegOK(l)
  BY <1>3 DEF LegsOK
<1>5. PICK leg : leg = Head(legs) /\ leg \in S
  BY <1>3, <1>4
<1>6. Tail(legs) \in Seq(S) /\ (Len(legs) # 1 => Tail(legs) # <<>>)
  <2>1. Tail(legs) \in Seq(S) /\ Len(Tail(legs)) = Len(legs) - 1 /\ Len(legs) \in Nat
    BY <1>3, <1>4
  <2>2. Len(legs) # 1 => Len(Tail(legs)) # 0
    BY <2>1
  <2>3. PICK rest : rest = Tail(legs)
    OBVIOUS
  <2>4. Len(rest) # 0 => rest # <<>>
    OBVIOUS
  <2>5. QED
    BY <2>1, <2>2, <2>3, <2>4
<1>7. LegsOK(Tail(legs))
  BY <1>4, <1>6 DEF LegsOK
<1>8. PICK taker : taker = session.order
  OBVIOUS
<1>9. PICK fee \in Nat : fee = LegFee(taker.side, leg)
  BY <1>4, <1>5, FeesAreNat
<1>10. ObjOK(BuildFill(next, leg, taker, fee, clock), next + 1)
  BY <1>1, <1>4, <1>5, FillOfLeg
<1>11. QED
  BY <1>2, <1>5, <1>6, <1>7, <1>8, <1>9, <1>10

LEMMA FillWorld ==
  ASSUME AppInv, WorldInv, PublishFill
  PROVE  WorldInv'
<1>1. /\ session.pc = "fill" /\ next' = next + 1
      /\ UNCHANGED <<clock, trades, bal, allow, view, refresh, again, usedCache>>
      /\ session' = [session EXCEPT !.legs = Tail(@),
                       !.pc = IF Len(session.legs) = 1 THEN "finish" ELSE "fill"]
  BY DEF PublishFill, chainVars
<1>2. PICK f : f = BuildFill(next, Head(session.legs), session.order,
                             LegFee(session.order.side, Head(session.legs)), clock)
  OBVIOUS
<1>3. Put(f) /\ known' = known \cup {f}
  BY <1>2, Zenon DEF PublishFill
<1>4. PICK legs : legs = session.legs
  OBVIOUS
<1>5. /\ ObjOK(f, next + 1) /\ LegsOK(Tail(legs)) /\ (Len(legs) # 1 => Tail(legs) # <<>>)
  BY <1>1, <1>2, <1>4, NextFillOK
<1>6. Signing /\ DOMAIN session = {"pc", "auth", "order", "legs"}
  BY <1>1 DEF Signing, AppInv, SessionInv
<1>7. PICK pc, rest : pc = (IF Len(legs) = 1 THEN "finish" ELSE "fill") /\ rest = Tail(legs)
  OBVIOUS
<1>8. session' = [session EXCEPT !.legs = rest, !.pc = pc]
  BY <1>1, <1>4, <1>7
<1>9. /\ session'.auth = session.auth /\ session'.order = session.order
      /\ session'.legs = rest /\ session'.pc = pc
  BY <1>6, <1>8
<1>10. next \in Nat /\ next' \in Nat /\ next <= next' /\ next + 1 = next'
  BY <1>1 DEF WorldInv, ClockOK
<1>11. HandOK'
  <2>1. LegsOK(session'.legs) /\ (session'.pc = "fill" => session'.legs # <<>>)
    BY <1>5, <1>7, <1>9
  <2>2. session'.pc \in {"auth", "order", "fill", "finish"}
    BY <1>7, <1>9
  <2>3. QED
    BY <1>6, <1>9, <1>10, <2>1, <2>2, SignedGoesOn DEF WorldInv
<1>12. ObjOK(f, next')
  BY <1>5, <1>10
<1>13. QED
  BY <1>1, <1>3, <1>10, <1>11, <1>12, PutWorld

LEMMA LastPublications ==
  ASSUME AppInv, WorldInv, PublishRevocation \/ PublishReceipt
  PROVE  WorldInv'
<1>1. next \in Nat /\ next <= next
  BY DEF WorldInv, ClockOK
<1>2. CASE PublishRevocation
  <2>1. /\ UNCHANGED <<clock, next, trades, bal, allow, view, refresh, again, usedCache, known>>
        /\ session.pc = "revoke" /\ Put(session.revocation)
        /\ \E pc \in {"onchain", "finish"} : Goto(pc)
    BY <1>2 DEF PublishRevocation, chainVars, tabVars
  <2>2. ObjOK(session.revocation, next)
    BY <2>1 DEF WorldInv, HandOK
  <2>3. session'.pc \in {"onchain", "finish"}
    BY <2>1, WentTo DEF AppInv
  <2>4. QED
    BY <1>1, <2>1, <2>2, <2>3, HandEmpty, PutWorld
<1>3. CASE PublishReceipt
  <2>1. /\ UNCHANGED <<clock, next, trades, bal, allow, view, refresh, again, usedCache, known>>
        /\ session.pc = "receipt" /\ (Put(session.receipt) \/ PutFails(session.receipt))
        /\ session'.pc = "finish"
    BY <1>3 DEF PublishReceipt, chainVars, tabVars
  <2>2. ObjOK(session.receipt, next)
    BY <1>3 DEF WorldInv, HandOK, PublishReceipt
  <2>3. QED
    BY <1>1, <2>1, <2>2, HandEmpty, PutWorld
<1>4. QED
  BY <1>2, <1>3

LEMMA FinishWorld ==
  ASSUME AppInv, WorldInv, Finish
  PROVE  WorldInv'
<1>1. /\ UNCHANGED <<stored, preferred, clock, next, trades, bal, allow, view, usedCache, known, left>>
      /\ session'.pc \in {"await", "idle"} /\ RefreshCalled
  BY DEF Finish, chainVars, nodeVars, Quiet
<1>2. (refresh' = refresh \/ refresh'.pc = "list") /\ again' \in BOOLEAN
  <2>1. again \in BOOLEAN
    BY DEF WorldInv, TabOK
  <2>2. CASE refresh = Quiet
    BY <1>1, <2>1, <2>2 DEF RefreshCalled, RefreshStarts
  <2>3. CASE refresh # Quiet
    BY <1>1, <2>3 DEF RefreshCalled
  <2>4. QED
    BY <2>2, <2>3
<1>3. Published' = Published /\ trades' = trades
  BY <1>1 DEF Published
<1>4. TabOK' /\ RefreshOK'
  BY <1>1, <1>2, <1>3, TabKept, RefreshStays DEF WorldInv
<1>5. HandOK'
  BY <1>1, HandEmpty
<1>6. preferred' \in Nodes \cup {NoNode} /\ left' = left
  BY <1>1 DEF WorldInv, ClockOK
<1>7. QED
  BY <1>1, <1>4, <1>5, <1>6, TabSteps

LEMMA SessionWorld ==
  ASSUME AppInv, WorldInv, SessionStep
  PROVE  WorldInv'
  BY WrapWorld, ApproveWorld, SignWorld, AuthWorld, FillWorld, LastPublications, OnChainWorld,
     SendWorld, FinishWorld DEF SessionStep

LEMMA DeclineWorld ==
  ASSUME AppInv, WorldInv, Decline
  PROVE  WorldInv'
<1>1. /\ UNCHANGED <<stored, preferred, clock, tabVars, next, trades, bal, allow>>
      /\ Spend("faults") /\ session'.pc = "idle"
  BY DEF Decline, chainVars, nodeVars, Quiet
<1>2. LeftOK' /\ TradesOK' /\ MoneyOK' /\ trades \subseteq trades' /\ HandOK'
  BY <1>1, LeftStays, ChainStays, HandEmpty DEF WorldInv
<1>3. next' \in Nat /\ next <= next'
  BY <1>1 DEF WorldInv, ClockOK
<1>4. QED
  BY <1>1, <1>2, <1>3, QuietSteps

LEMMA FailWorld ==
  ASSUME AppInv, WorldInv, PublishFails
  PROVE  WorldInv'
<1>1. /\ UNCHANGED <<clock, trades, bal, allow, view, refresh, again, usedCache, known>>
      /\ next' = next + 1 /\ session'.pc = "idle"
  BY DEF PublishFails, chainVars, tabVars, Quiet
<1>2. next \in Nat /\ next + 1 \in Nat /\ next <= next + 1
  BY DEF WorldInv, ClockOK
<1>3. PICK f : f = BuildFill(next, Head(session.legs), session.order,
                             LegFee(session.order.side, Head(session.legs)), clock)
  OBVIOUS
<1>4. \E obj : PutFails(obj) /\ ObjOK(obj, next + 1)
  <2>1. CASE session.pc = "auth"
    <3>1. PutFails(session.auth)
      BY <2>1 DEF PublishFails
    <3>2. ObjOK(session.auth, next)
      BY <2>1 DEF WorldInv, HandOK, Signing, SignedOK
    <3>3. QED
      BY <1>2, <3>1, <3>2, LaterOK
  <2>2. CASE session.pc = "order"
    <3>1. PutFails(session.order)
      BY <2>2 DEF PublishFails
    <3>2. ObjOK(session.order, next)
      BY <2>2 DEF WorldInv, HandOK, Signing, SignedOK
    <3>3. QED
      BY <1>2, <3>1, <3>2, LaterOK
  <2>3. CASE session.pc = "revoke"
    <3>1. PutFails(session.revocation)
      BY <2>3 DEF PublishFails
    <3>2. ObjOK(session.revocation, next)
      BY <2>3 DEF WorldInv, HandOK
    <3>3. QED
      BY <1>2, <3>1, <3>2, LaterOK
  <2>4. CASE session.pc = "fill"
    <3>1. PutFails(f)
      BY <1>3, <2>4 DEF PublishFails
    <3>2. ObjOK(f, next + 1)
      BY <1>3, <2>4, NextFillOK
    <3>3. QED
      BY <3>1, <3>2
  <2>5. QED
    BY <2>1, <2>2, <2>3, <2>4 DEF PublishFails
<1>5. PICK obj : PutFails(obj) /\ ObjOK(obj, next + 1)
  BY <1>4
<1>6. ObjOK(obj, next') /\ next' \in Nat /\ next <= next'
  BY <1>1, <1>2, <1>5
<1>7. QED
  BY <1>1, <1>5, <1>6, HandEmpty, PutWorld

LEMMA ReloadWorld ==
  ASSUME AppInv, WorldInv, Reload
  PROVE  WorldInv'
<1>1. /\ UNCHANGED <<stored, clock, next, trades, bal, allow>> /\ Spend("faults")
      /\ view' = NoState /\ refresh'.pc = "list" /\ again' = FALSE
      /\ usedCache' = {} /\ known' = {} /\ session'.pc = "idle" /\ preferred' = NoNode
  BY DEF Reload, chainVars, Quiet
<1>2. view'.orders = {}
  BY <1>1 DEF NoState
<1>3. BookOK(view.orders)'
  BY <1>2, FS_EmptySet DEF BookOK
<1>4. TabOK'
  BY <1>1, <1>3 DEF TabOK
<1>5. RefreshOK' /\ HandOK'
  BY <1>1, HandEmpty DEF RefreshOK
<1>6. QED
  BY <1>1, <1>4, <1>5, TabSteps

-----------------------------------------------------------------------------
(***************************************************************************)
(* So does everybody else.                                                 *)
(***************************************************************************)
LEMMA OthersWorld ==
  ASSUME WorldInv, NEW objs, Adds(objs), IsFiniteSet(objs), next' \in Nat, next <= next',
         \A o \in objs : ObjOK(o, next'), UNCHANGED <<preferred, tabVars, session>>,
         clock' \in Nat, trades \subseteq trades', TradesOK', MoneyOK', LeftOK'
  PROVE  WorldInv'
<1>1. next \in Nat \ {0} /\ next' \in Nat \ {0} /\ preferred' \in Nodes \cup {NoNode}
  BY DEF WorldInv, ClockOK
<1>2. ObjectsOK'
  BY <1>1, ObjectsKept DEF WorldInv
<1>3. TabOK' /\ RefreshOK'
  BY TabSame DEF Adds
<1>4. HandOK'
  BY <1>1, HandStays DEF WorldInv
<1>5. QED
  BY <1>1, <1>2, <1>3, <1>4 DEF WorldInv, ClockOK

LEMMA ExecuteWorld ==
  ASSUME WorldInv, NEW n \in Nodes, NEW f, NEW posted \in BOOLEAN, Execute(n, f, posted)
  PROVE  WorldInv'
<1>1. UNCHANGED <<clock, preferred, tabVars, session>>
  BY DEF Execute
<1>2. PICK call \in SettleCalls(stored[n], f.hash) :
        /\ Accepts(call) /\ SettlesOnChain(call)
        /\ IF posted
           THEN /\ AtEveryNode({BuildReceipt(next, call, FittingOf(call), clock)})
                /\ next' = next + 1 /\ Spend("receipts")
           ELSE UNCHANGED <<stored, next, left>>
  BY DEF Execute
<1>3. \A o \in stored[n] : WellFormed(o)
  BY DEF WorldInv, ObjectsOK, Published, ObjOK
<1>4. CallOK(call)
  BY <1>3, CallNumbers
<1>5. TradesOK' /\ MoneyOK' /\ trades \subseteq trades'
  BY <1>2, <1>4, SettlementKeeps DEF WorldInv
<1>6. next \in Nat \ {0} /\ clock \in Nat /\ clock' \in Nat
  BY <1>1 DEF WorldInv, ClockOK
<1>7. PICK r : r = BuildReceipt(next, call, FittingOf(call), clock)
  OBVIOUS
<1>8. ObjOK(r, next + 1)
  BY <1>4, <1>6, <1>7, FittingIsWithin, ReceiptOK DEF WorldInv
<1>9. CASE posted
  <2>1. AtEveryNode({r}) /\ next' = next + 1 /\ Spend("receipts")
    BY <1>2, <1>7, <1>9
  <2>2. Adds({r}) /\ IsFiniteSet({r})
    BY <2>1, AtEveryNodeAdds, FS_Singleton
  <2>3. LeftOK'
    BY <2>1, SpendKeeps DEF WorldInv
  <2>4. next' \in Nat /\ next <= next' /\ \A o \in {r} : ObjOK(o, next')
    BY <1>6, <1>8, <2>1
  <2>5. QED
    BY <1>1, <1>5, <1>6, <2>2, <2>3, <2>4, OthersWorld
<1>10. CASE ~posted
  <2>1. UNCHANGED <<stored, next, left>>
    BY <1>2, <1>10
  <2>2. Adds({}) /\ IsFiniteSet({})
    BY <2>1, SameAdds, FS_EmptySet
  <2>3. LeftOK'
    BY <2>1, LeftStays DEF WorldInv
  <2>4. next' \in Nat /\ next <= next'
    BY <1>6, <2>1
  <2>5. QED
    BY <1>1, <1>5, <1>6, <2>2, <2>3, <2>4, OthersWorld
<1>11. QED
  BY <1>9, <1>10

\* The other trader's objects, as the book they matched gives them.
LEMMA RivalObjects ==
  ASSUME WorldInv, NEW n \in Nodes, NEW form \in left.theirs, RivalPlaces(n, form)
  PROVE  \E objs : /\ AtEveryNode(objs) /\ IsFiniteSet(objs)
                   /\ \A o \in objs : ObjOK(o, next + 2 + MaxLegs)
<1>1. next \in Nat \ {0} /\ clock \in Nat
  BY DEF WorldInv, ClockOK
<1>2. form.amount \in Nat /\ form.limit \in Nat
  BY DEF WorldInv, LeftOK, FormsOK
<1>3. PICK chain : chain = [read |-> TRUE, used |-> UsedKeys,
                  filled |-> ReadTotals(Eips(n), FilledOnChain),
                  bound |-> ReadTotals(Eips(n), BoundOnChain)]
  OBVIOUS
<1>4. ChainNumbers(chain)
  <2>1. /\ chain.filled = [e \in Eips(n) |-> FilledOnChain(e)]
        /\ chain.bound = [e \in Eips(n) |-> BoundOnChain(e)]
    BY <1>3 DEF ReadTotals
  <2>2. \A e : FilledOnChain(e) \in Nat /\ BoundOnChain(e) \in Nat
    BY ChainSumsAreNat DEF WorldInv
  <2>3. QED
    BY <2>1, <2>2 DEF ChainNumbers
<1>5. PICK objs : objs = stored[n]
  OBVIOUS
<1>6. Readable(objs)
  BY <1>5, ListingIsReadable DEF WorldInv, Published
<1>7. PICK orders : orders = DeriveState(objs, chain, clock).orders
  OBVIOUS
<1>8. PICK book : book = FundedWith(orders, Capacity({}))
  OBVIOUS
<1>9. BookOK(book)
  BY <1>4, <1>6, <1>7, <1>8, BookIsTyped, FundingKeepsBook
<1>10. PICK m : m = MatchOrder(book, form.side, form.amount, form.limit, Rival, clock)
  OBVIOUS
<1>11. LegsOK(m.legs) /\ Len(m.legs) <= MaxLegs /\ Filled(m, form.amount) \in Nat
  BY <1>2, <1>9, <1>10, MatchNumbers
<1>12. PICK fee \in Nat : fee = IF form.side = "buy"
         THEN MaxFeeForOrder(QuoteFor(form.amount, form.limit)) ELSE 0
  <2>1. QuoteFor(form.amount, form.limit) \in Nat
    BY <1>2, QuoteNat
  <2>2. MaxFeeForOrder(QuoteFor(form.amount, form.limit)) \in Nat
    BY <2>1, FeesAreNat
  <2>3. QED
    BY <2>2
<1>13. PICK x : x = [side |-> form.side, price |-> form.limit, base |-> form.amount,
                     m |-> m, filled |-> Filled(m, form.amount), market |-> FALSE, maxFee |-> fee]
  OBVIOUS
<1>14. PICK a, o : /\ a = SignedBy(Rival, next, x, clock).auth
                   /\ o = SignedBy(Rival, next, x, clock).order
  OBVIOUS
<1>15. PICK fill : fill = [i \in DOMAIN m.legs |->
         BuildFill(next + 1 + i, m.legs[i], o, LegFee(form.side, m.legs[i]), clock)]
  OBVIOUS
<1>16. PICK fills : fills = {fill[i] : i \in DOMAIN m.legs}
  OBVIOUS
<1>17. fills = {BuildFill(next + 1 + i, m.legs[i], o, LegFee(form.side, m.legs[i]), clock)
                  : i \in DOMAIN m.legs}
  BY <1>15, <1>16
<1>18. AtEveryNode({a, o} \cup fills)
  <2> DEFINE bk == FundedWith(DeriveState(stored[n], [read |-> TRUE, used |-> UsedKeys,
                     filled |-> ReadTotals(Eips(n), FilledOnChain),
                     bound |-> ReadTotals(Eips(n), BoundOnChain)], clock).orders, Capacity({}))
             mt == MatchOrder(bk, form.side, form.amount, form.limit, Rival, clock)
             terms == [side |-> form.side, price |-> form.limit, base |-> form.amount,
                       m |-> mt, filled |-> Filled(mt, form.amount), market |-> FALSE,
                       maxFee |-> IF form.side = "buy"
                                  THEN MaxFeeForOrder(QuoteFor(form.amount, form.limit)) ELSE 0]
             signed == SignedBy(Rival, next, terms, clock)
             fs == {BuildFill(next + 1 + i, mt.legs[i], signed.order,
                              LegFee(form.side, mt.legs[i]), clock) : i \in DOMAIN mt.legs}
  <2>1. AtEveryNode({signed.auth, signed.order} \cup fs)
    BY Zenon DEF RivalPlaces
  <2>2. bk = book
    BY <1>3, <1>5, <1>7, <1>8, Zenon
  <2> HIDE DEF bk
  <2>3. mt = m
    BY <1>10, <2>2, Zenon
  <2> HIDE DEF mt
  <2>4. terms = x
    BY <1>12, <1>13, <2>3, Zenon
  <2> HIDE DEF terms
  <2>5. signed.auth = a /\ signed.order = o
    BY <1>14, <2>4, Zenon
  <2> HIDE DEF signed
  <2>6. fs = fills
    BY <1>17, <2>3, <2>5, Zenon
  <2> HIDE DEF fs
  <2>7. QED
    BY <2>1, <2>5, <2>6
<1>19. PICK last \in Nat : last = next + 2 + MaxLegs
  BY <1>1, MarketAssumption
<1>20. ObjOK(a, last) /\ ObjOK(o, last)
  <2>1. /\ LegsOK(x.m.legs) /\ {x.base, x.price, x.maxFee, x.filled} \subseteq Nat
    BY <1>2, <1>11, <1>12, <1>13
  <2>2. ObjOK(a, next + 2) /\ ObjOK(o, next + 2)
    BY <1>1, <1>14, <2>1, SignedObjects
  <2>3. next + 2 \in Nat /\ next + 2 <= last
    BY <1>1, <1>19, MarketAssumption
  <2>4. QED
    BY <2>2, <2>3, LaterOK
<1>21. PICK S : m.legs \in Seq(S) /\ \A l \in S : LegOK(l)
  BY <1>11 DEF LegsOK
<1>22. DOMAIN m.legs = 1..Len(m.legs) /\ Len(m.legs) \in Nat
  BY <1>21
<1>23. ASSUME NEW i \in DOMAIN m.legs PROVE ObjOK(fill[i], last)
  <2>1. PICK leg : leg = m.legs[i] /\ LegOK(leg)
    BY <1>21
  <2>2. i \in Nat /\ i <= MaxLegs
    BY <1>11, <1>22, MarketAssumption
  <2>3. PICK hash \in Nat \ {0} : hash = next + 1 + i /\ hash < last
    BY <1>1, <1>19, <2>2, MarketAssumption
  <2>4. PICK charge \in Nat : charge = LegFee(form.side, leg)
    BY <2>1, FeesAreNat
  <2>5. ObjOK(BuildFill(hash, leg, o, charge, clock), last)
    BY <1>1, <2>1, <2>3, <2>4, FillOfLeg
  <2>6. fill[i] = BuildFill(hash, leg, o, charge, clock)
    BY <1>15, <2>1, <2>3, <2>4
  <2>7. QED
    BY <2>5, <2>6
<1>24. IsFiniteSet({a, o} \cup fills)
  <2>1. IsFiniteSet(DOMAIN m.legs)
    BY <1>22, FS_Interval
  <2>2. IsFiniteSet(fills)
    BY <1>16, <2>1, ImageIsFinite
  <2>3. IsFiniteSet({a} \cup ({o} \cup fills))
    BY <2>2, FS_Singleton, FS_Union
  <2>4. {a, o} \cup fills = {a} \cup ({o} \cup fills)
    OBVIOUS
  <2>5. QED
    BY <2>3, <2>4
<1>25. \A p \in {a, o} \cup fills : ObjOK(p, next + 2 + MaxLegs)
  BY <1>16, <1>19, <1>20, <1>23
<1>26. QED
  BY <1>18, <1>24, <1>25

LEMMA RivalWorld ==
  ASSUME WorldInv, NEW n \in Nodes, NEW form \in left.theirs, RivalPlaces(n, form)
  PROVE  WorldInv'
<1>1. /\ UNCHANGED <<clock, preferred, tabVars, session, trades, bal, allow>>
      /\ next' = next + 2 + MaxLegs /\ Spend("rival")
  BY DEF RivalPlaces, chainVars
<1>2. PICK objs : /\ AtEveryNode(objs) /\ IsFiniteSet(objs)
                  /\ \A o \in objs : ObjOK(o, next + 2 + MaxLegs)
  BY RivalObjects
<1>3. Adds(objs)
  BY <1>2, AtEveryNodeAdds
<1>4. next' \in Nat /\ next <= next' /\ clock' \in Nat
  BY <1>1, MarketAssumption DEF WorldInv, ClockOK
<1>5. TradesOK' /\ MoneyOK' /\ trades \subseteq trades' /\ LeftOK'
  BY <1>1, ChainStays, SpendKeeps DEF WorldInv
<1>6. \A o \in objs : ObjOK(o, next')
  BY <1>1, <1>2
<1>7. QED
  BY <1>1, <1>2, <1>3, <1>4, <1>5, <1>6, OthersWorld

\* One object more at every node, under the next hash.
LEMMA OneMoreWorld ==
  ASSUME WorldInv, UNCHANGED <<clock, preferred, tabVars, session, trades, bal, allow>>,
         NEW obj, AtEveryNode({obj}), ObjOK(obj, next + 1), next' = next + 1,
         NEW k, k \notin {"forms", "theirs"}, Spend(k)
  PROVE  WorldInv'
<1>1. Adds({obj}) /\ IsFiniteSet({obj})
  BY AtEveryNodeAdds, FS_Singleton
<1>2. next' \in Nat /\ next <= next' /\ clock' \in Nat /\ \A o \in {obj} : ObjOK(o, next')
  BY DEF WorldInv, ClockOK
<1>3. TradesOK' /\ MoneyOK' /\ trades \subseteq trades' /\ LeftOK'
  BY ChainStays, SpendKeeps DEF WorldInv
<1>4. QED
  BY <1>1, <1>2, <1>3, OthersWorld

LEMMA RepublishWorld ==
  ASSUME AppInv, WorldInv, NEW n \in Nodes, NEW o \in Signed(n),
         NEW date \in {0, clock}, Republish(n, o, date)
  PROVE  WorldInv'
<1>1. PICK p \in CopiesOf(n, o) : AtEveryNode({[p EXCEPT !.hash = next, !.createdAt = date]})
  BY DEF Republish
<1>2. PICK c : Redated(c, p, next, date) /\ AtEveryNode({c})
  BY <1>1 DEF Redated
<1>3. /\ UNCHANGED <<clock, preferred, tabVars, session, trades, bal, allow>>
      /\ next' = next + 1 /\ Spend("copies")
  BY DEF Republish, chainVars
<1>4. o \in Published /\ (o.type = "order" \/ o.type = "authorization")
  BY DEF Of, Published, Signed
<1>5. WellFormed(o) /\ next \in Nat \ {0} /\ date \in Nat
  BY <1>4 DEF WorldInv, ObjectsOK, ObjOK, ClockOK
<1>6. CASE o.type = "order"
  <2>1. OrderTerms \subseteq DOMAIN o
    BY <1>4, <1>6 DEF AppInv, OrdersAuthentic, SignedOrders, Of
  <2>2. "type" \in DOMAIN o /\ "hash" \in DOMAIN o /\ "createdAt" \in DOMAIN o
    BY <1>5, <1>6, <2>1 DEF WellFormed, OrderTerms
  <2>3. /\ c.hash = next /\ c.createdAt = date /\ c.type = o.type
        /\ DOMAIN c = DOMAIN o /\ \A field \in OrderTerms : c[field] = o[field]
    BY <1>1, <1>2, <2>1, <2>2, CopySays DEF OrderTerms
  <2>4. /\ c.price = o.price /\ c.base = o.base
        /\ c.exclusiveBase = o.exclusiveBase /\ c.exclusiveUntil = o.exclusiveUntil
        /\ c.validBefore = o.validBefore /\ c.counterSet = o.counterSet
    BY <2>3 DEF OrderTerms
  <2>5. ObjOK(c, next + 1)
    BY <1>5, <1>6, <2>2, <2>3, <2>4 DEF ObjOK, WellFormed
  <2>6. QED
    BY <1>2, <1>3, <2>5, OneMoreWorld
<1>7. CASE o.type = "authorization"
  <2>1. AuthTerms \cup {"hash", "createdAt"} \subseteq DOMAIN o
    BY <1>5, <1>7 DEF WellFormed
  <2>2. /\ c.hash = next /\ c.createdAt = date /\ c.type = o.type
        /\ DOMAIN c = DOMAIN o /\ \A field \in AuthTerms : c[field] = o[field]
    BY <1>1, <1>2, <2>1, CopySays DEF AuthTerms
  <2>3. /\ c.eip = o.eip /\ c.maxBase = o.maxBase /\ c.maxQuote = o.maxQuote
        /\ c.maxFee = o.maxFee /\ c.minPrice = o.minPrice /\ c.maxPrice = o.maxPrice
        /\ c.validBefore = o.validBefore
    BY <2>2 DEF AuthTerms
  <2>4. ObjOK(c, next + 1)
    BY <1>5, <1>7, <2>1, <2>2, <2>3 DEF ObjOK, WellFormed
  <2>5. QED
    BY <1>2, <1>3, <2>4, OneMoreWorld
<1>8. QED
  BY <1>4, <1>6, <1>7

LEMMA ForgeWorld ==
  ASSUME WorldInv, NEW n \in Nodes, NEW f \in Of(stored[n], "fill"), NEW moved \in 0..f.base,
         ForgeReceipt(n, f, moved)
  PROVE  WorldInv'
<1>1. PICK call, more : AtEveryNode({[BuildReceipt(next, call, moved, clock)
                                        EXCEPT !.key.fee = @ + more, !.by = "anyone"]})
  BY DEF ForgeReceipt
<1>2. PICK r : /\ AtEveryNode({r})
               /\ r = [BuildReceipt(next, call, moved, clock)
                         EXCEPT !.key.fee = @ + more, !.by = "anyone"]
  BY <1>1
<1>3. /\ UNCHANGED <<clock, preferred, tabVars, session, trades, bal, allow>>
      /\ next' = next + 1 /\ Spend("forged")
  BY DEF ForgeReceipt, chainVars
<1>4. r.type = "receipt" /\ r.hash = next /\ r.createdAt = clock /\ r.base = moved
  BY <1>2 DEF BuildReceipt
<1>5. f \in Published /\ f.type = "fill"
  BY DEF Of, Published
<1>6. WellFormed(f) /\ next \in Nat \ {0} /\ clock \in Nat
  BY <1>5 DEF WorldInv, ObjectsOK, ObjOK, ClockOK
<1>7. moved \in Nat
  BY <1>5, <1>6 DEF WellFormed
<1>8. ObjOK(r, next + 1)
  BY <1>4, <1>6, <1>7 DEF ObjOK, WellFormed
<1>9. QED
  BY <1>2, <1>3, <1>8, OneMoreWorld

LEMMA OutsideWorld ==
  ASSUME AppInv, WorldInv, Outside
  PROVE  WorldInv'
<1>0. next \in Nat \ {0} /\ next + 1 \in Nat /\ clock \in Nat
  BY DEF WorldInv, ClockOK
<1>1. ASSUME NEW n \in Nodes, NEW o, NEW target, OtherRevokes(n, o, target)
      PROVE  WorldInv'
  <2>1. PICK r : r = [BuildRevocation(next, AuthOf(o, Reading(stored[n])), clock) EXCEPT !.target = target]
    OBVIOUS
  <2>2. /\ UNCHANGED <<clock, preferred, tabVars, session, trades, bal, allow>>
        /\ next' = next + 1 /\ Spend("rival") /\ AtEveryNode({r})
    BY <1>1, <2>1 DEF OtherRevokes, chainVars
  <2>3. r.type = "revocation" /\ r.hash = next /\ r.createdAt = clock
    BY <2>1 DEF BuildRevocation
  <2>4. ObjOK(r, next + 1)
    BY <1>0, <2>3 DEF ObjOK, WellFormed
  <2>5. QED
    BY <2>2, <2>4, OneMoreWorld
<1>2. ASSUME NEW n \in Nodes, NodeDown(n) \/ NodeUp(n)
      PROVE  WorldInv'
  <2>1. /\ UNCHANGED <<clock, next, stored, preferred, tabVars, session, trades, bal, allow>>
        /\ left' = left \/ Spend("faults")
    BY <1>2 DEF NodeDown, NodeUp, chainVars
  <2>2. HandOK' /\ LeftOK' /\ TradesOK' /\ MoneyOK' /\ trades \subseteq trades'
    BY <1>0, <2>1, HandStays, LeftStays, ChainStays DEF WorldInv
  <2>3. QED
    BY <1>0, <2>1, <2>2, QuietSteps
<1>3. CASE Propagate
  <2>1. UNCHANGED <<clock, next, preferred, tabVars, session, left, trades, bal, allow>>
    BY <1>3 DEF Propagate, chainVars
  <2>2. Adds({}) /\ IsFiniteSet({})
    BY <1>3, PropagateAdds, FS_EmptySet DEF AppInv
  <2>3. LeftOK' /\ TradesOK' /\ MoneyOK' /\ trades \subseteq trades'
    BY <2>1, LeftStays, ChainStays DEF WorldInv
  <2>4. QED
    BY <1>0, <2>1, <2>2, <2>3, OthersWorld
<1>4. CASE Tick
  <2>1. /\ UNCHANGED <<next, stored, preferred, tabVars, session, trades, bal, allow>>
        /\ clock' = clock + 1 /\ Spend("ticks")
    BY <1>4 DEF Tick, chainVars, nodeVars
  <2>2. Adds({}) /\ IsFiniteSet({})
    BY <2>1, SameAdds, FS_EmptySet
  <2>3. LeftOK' /\ TradesOK' /\ MoneyOK' /\ trades \subseteq trades'
    BY <2>1, SpendKeeps, ChainStays DEF WorldInv
  <2>4. QED
    BY <1>0, <2>1, <2>2, <2>3, OthersWorld
<1>5. QED
  BY <1>1, <1>2, <1>3, <1>4, ExecuteWorld, RivalWorld, RepublishWorld, ForgeWorld DEF Outside

-----------------------------------------------------------------------------
LEMMA InitWorld ==
  ASSUME Init
  PROVE  WorldInv
<1>1. /\ clock = 0 /\ next = InitialHash /\ preferred = NoNode /\ trades = {}
      /\ bal = InitialBalance /\ allow = InitialAllowance /\ view = NoState
      /\ refresh = Quiet /\ again = FALSE /\ usedCache = {} /\ known = {} /\ session = Quiet
  BY DEF Init
<1>2. PICK s \in DOMAIN Allowed : left = Allowed[s] /\ stored = [n \in Nodes |-> Listings[s]]
  BY DEF Init
<1>3. s \in DOMAIN Listings /\ InitialHash \in Nat \ {0}
  BY AppAssumption
<1>4. Published \subseteq Listings[s]
  BY <1>2 DEF Published
<1>5. ObjectsOK
  <2>1. IsFiniteSet(Listings[s]) /\ \A o \in Listings[s] : WellFormed(o)
    BY <1>3, ListingsAssumption
  <2>2. \A o \in Listings[s] : o.hash \in 1..(InitialHash - 1)
    BY <1>3, AppAssumption
  <2>3. IsFiniteSet(Published)
    BY <1>4, <2>1, FS_Subset
  <2>4. \A o \in Published : ObjOK(o, next)
    BY <1>1, <1>4, <2>1, <2>2 DEF ObjOK
  <2>5. QED
    BY <2>3, <2>4 DEF ObjectsOK
<1>6. TradesOK
  BY <1>1, FS_EmptySet DEF TradesOK
<1>7. MoneyOK
  BY <1>1, AppAssumption DEF MoneyOK, Traders, Wallet, Allowance
<1>8. TabOK
  BY <1>1, FS_EmptySet DEF TabOK, BookOK, NoState
<1>9. RefreshOK
  BY <1>1 DEF RefreshOK, Quiet
<1>10. HandOK
  BY <1>1 DEF HandOK, Stages, Signing, Quiet
<1>11. LeftOK
  <2>1. /\ {"forms", "theirs"} \subseteq DOMAIN left
        /\ \A k \in DOMAIN left \ {"forms", "theirs"} : left[k] \in Nat
    BY <1>2, AppAssumption
  <2>2. FormsOK(left.forms) /\ FormsOK(left.theirs)
    BY <1>2, AppAssumption DEF FormsOK
  <2>3. QED
    BY <2>1, <2>2 DEF LeftOK
<1>12. ClockOK
  BY <1>1, <1>3 DEF ClockOK
<1>13. QED
  BY <1>5, <1>6, <1>7, <1>8, <1>9, <1>10, <1>11, <1>12 DEF WorldInv

LEMMA NextWorld ==
  ASSUME AppInv, WorldInv, [Next]_vars
  PROVE  WorldInv'
<1>1. CASE UNCHANGED vars
  <2>1. UNCHANGED <<stored, preferred, clock, tabVars, next, trades, bal, allow, session, left>>
    BY <1>1 DEF vars, nodeVars, chainVars
  <2>2. next' \in Nat /\ next <= next' /\ next \in Nat
    BY <2>1 DEF WorldInv, ClockOK
  <2>3. TradesOK' /\ MoneyOK' /\ trades \subseteq trades' /\ LeftOK' /\ HandOK'
    BY <2>1, <2>2, ChainStays, LeftStays, HandStays DEF WorldInv
  <2>4. QED
    BY <2>1, <2>2, <2>3, QuietSteps
<1>2. CASE Next
  BY <1>2, RefreshWorld, StartWorld, SessionWorld, DeclineWorld, FailWorld, ReloadWorld,
     OutsideWorld DEF Next
<1>3. QED
  BY <1>1, <1>2

LEMMA WorldInvariance == Spec => [](AppInv /\ WorldInv)
<1>1. Init => AppInv /\ WorldInv
  BY InitApp, InitWorld
<1>2. AppInv /\ WorldInv /\ [Next]_vars => (AppInv /\ WorldInv)'
  BY NextApp, NextWorld
<1>3. QED
  BY <1>1, <1>2, PTL DEF Spec

\* Every variable keeps its type: no object has a hash that is still to be
\* made, no wallet or allowance goes below zero, the refresh and the user's
\* action are at one of their awaits, and the book never offers more of an
\* order than it was signed for (page.tsx:156-230, aon.ts:262-330).
THEOREM TypeCorrect == Spec => []TypeOK
<1>1. AppInv /\ WorldInv => TypeOK
  <2> SUFFICES ASSUME AppInv, WorldInv PROVE TypeOK
    OBVIOUS
  <2>1. clock \in Nat /\ next \in Nat /\ up \subseteq Nodes /\ preferred \in Nodes \cup {NoNode}
    BY DEF AppInv, WorldInv, ClockOK
  <2>2. \A n \in Nodes : \A o \in stored[n] : o.hash \in 1..(next - 1)
    BY DEF WorldInv, ObjectsOK, ObjOK, Published
  <2>3. /\ bal \in [Traders -> [base : Nat, quote : Nat, eth : Nat]]
        /\ allow \in [Traders -> [base : Nat, quote : Nat]]
    BY DEF WorldInv, MoneyOK, Wallet, Allowance
  <2>4. refresh.pc \in {"idle", "list", "used", "filled", "bound", "capacity"}
    BY DEF WorldInv, RefreshOK
  <2>5. session.pc \in Stages /\ again \in BOOLEAN
    BY DEF WorldInv, HandOK, TabOK
  <2>6. \A o \in view.orders : o.remaining \in 0..o.base
    BY DEF WorldInv, TabOK, BookOK, EntryOK, OfferNumbers
  <2>7. \A k \in DOMAIN left \ {"forms", "theirs"} : left[k] \in Nat
    BY DEF WorldInv, LeftOK
  <2>8. QED
    BY <2>1, <2>2, <2>3, <2>4, <2>5, <2>6, <2>7 DEF TypeOK, Stages
<1>2. QED
  BY <1>1, WorldInvariance, PTL

-----------------------------------------------------------------------------
(***************************************************************************)
(* What the trades took, against what the book says is left.               *)
(***************************************************************************)
LEMMA SumBaseSplits ==
  ASSUME NEW S, IsFiniteSet(S), \A x \in S : x.base \in Nat, NEW R
  PROVE  SumBase(S) = SumBase(S \cap R) + SumBase(S \ R)
<1>1. PICK f : f = [x \in S |-> x.base]
  OBVIOUS
<1>2. PICK a, b : a = S \cap R /\ b = S \ R
  OBVIOUS
<1>3. IsFiniteSet(a) /\ IsFiniteSet(b)
  BY <1>2, FS_Subset
<1>4. \A x \in S : f[x] = x.base /\ f[x] \in Int
  BY <1>1
<1>5. SumBase(S) = SumFunctionOnSet(f, S)
  BY <1>4, SumBaseBy
<1>6. SumBase(a) = SumFunctionOnSet(f, a) /\ SumBase(b) = SumFunctionOnSet(f, b)
  BY <1>2, <1>3, <1>4, SumBaseBy
<1>7. SumFunctionOnSet(f, S) = SumFunctionOnSet(f, a) + SumFunctionOnSet(f, b)
  BY <1>2, <1>4, SumSplits
<1>8. QED
  BY <1>2, <1>5, <1>6, <1>7

LEMMA SumBaseCovered ==
  ASSUME NEW S, IsFiniteSet(S), NEW T, IsFiniteSet(T), NEW h,
         \A x \in S : x.base \in Nat, \A y \in T : y.base \in Nat,
         \A x \in S : h[x] \in T /\ x.base <= h[x].base,
         \A x, y \in S : h[x] = h[y] => x = y
  PROVE  SumBase(S) <= SumBase(T)
<1>1. PICK f, g : f = [x \in S |-> x.base] /\ g = [y \in T |-> y.base]
  OBVIOUS
<1>2. (\A x \in S : f[x] = x.base) /\ (\A y \in T : g[y] = y.base)
  BY <1>1
<1>3. SumBase(S) = SumFunctionOnSet(f, S) /\ SumBase(T) = SumFunctionOnSet(g, T)
  BY <1>2, SumBaseBy
<1>4. \A x \in S : f[x] \in Nat /\ h[x] \in T /\ f[x] <= g[h[x]]
  BY <1>2
<1>5. \A y \in T : g[y] \in Nat
  BY <1>2
<1>6. SumFunctionOnSet(f, S) <= SumFunctionOnSet(g, T)
  BY <1>4, <1>5, SumCovered
<1>7. QED
  BY <1>3, <1>6

\* One fill counts of those that share a key, and one order of its copies.
LEMMA OneCounts ==
  ASSUME NEW objs, Readable(objs)
  PROVE  /\ \A x, y \in Counted(Reading(objs)) : x.key = y.key => x = y
         /\ \A c, d \in Reading(objs).canonical : c.eip = d.eip => c = d
<1>1. PICK r : r = Reading(objs)
  OBVIOUS
<1>2. \A a, b \in objs : ~(Earlier(a, b) /\ Earlier(b, a))
  BY DEF Readable, WellFormed, Earlier
<1>3. ASSUME NEW x \in Counted(r), NEW y \in Counted(r), x.key = y.key
      PROVE  x = y
  <2>1. x.obj \in objs /\ y.obj \in objs
    BY <1>1, CountedFills DEF Of
  <2>2. (y = x \/ Earlier(x.obj, y.obj)) /\ (x = y \/ Earlier(y.obj, x.obj))
    BY <1>3 DEF Counted
  <2>3. QED
    BY <1>2, <2>1, <2>2
<1>4. ASSUME NEW c \in r.canonical, NEW d \in r.canonical, c.eip = d.eip
      PROVE  c = d
  <2>1. c \in objs /\ d \in objs
    BY <1>1, ReadingHolds DEF Of
  <2>2. (c = d \/ Earlier(c, d)) /\ (c = d \/ Earlier(d, c))
    BY <1>1, <1>4, ReadingHolds DEF Canonical
  <2>3. QED
    BY <1>2, <2>1, <2>2
<1>5. QED
  BY <1>1, <1>3, <1>4

\* The view of a fill that settled credits its orders with no less than the
\* trade took: the fill's size, or what a settler's receipt reports.
LEMMA ViewOfTrade ==
  ASSUME AppInv, WorldInv, NEW objs \in SUBSET Published, NEW chain, NEW now,
         NEW c \in Reading(objs).canonical, NEW x \in Counted(Reading(objs)),
         NEW v, v = FillView(x, Reading(objs), chain, now),
         v.status = "settled" => SettlersOwn(objs),
         NEW t \in Involving(c.eip), t.key = v.key
  PROVE  c.hash \in {v.maker.hash, v.taker.hash} /\ t.base <= v.base
<1>1. Readable(objs)
  BY ListingIsReadable DEF WorldInv
<1>2. /\ v.key = x.key /\ v.maker = x.maker /\ v.taker = x.taker /\ v.key.base = x.obj.base
      /\ \/ v.base = x.obj.base
         \/ v.status = "settled" /\ \E r \in ReceiptFor(x, objs) : v.base = r.base
  BY <1>1, ViewsOfFills
<1>3. x.maker \in Reading(objs).canonical /\ x.taker \in Reading(objs).canonical
      /\ x.key = FillKeyOf(x.obj, x.maker, x.taker)
  BY CountedFills
<1>4. c.hash \in {v.maker.hash, v.taker.hash}
  <2>1. c.eip \in {x.maker.eip, x.taker.eip}
    BY <1>2, <1>3 DEF Involving, FillKeyOf
  <2>2. c = x.maker \/ c = x.taker
    BY <1>1, <1>3, <2>1, OneCounts
  <2>3. QED
    BY <1>2, <2>2
<1>5. t \in trades /\ t.base <= t.key.base
  BY DEF Involving, WorldInv, TradesOK
<1>6. CASE v.base = x.obj.base
  BY <1>2, <1>4, <1>5, <1>6
<1>7. CASE v.status = "settled" /\ \E r \in ReceiptFor(x, objs) : v.base = r.base
  <2>1. PICK r \in ReceiptFor(x, objs) : v.base = r.base
    BY <1>7
  <2>2. r \in Published /\ r.type = "receipt" /\ r.key = x.key /\ r.by = "settler"
    BY <1>7, <2>1 DEF ReceiptFor, Of, SettlersOwn
  <2>3. PICK u \in trades : u.key = r.key /\ u.base = r.base
    BY <2>2 DEF AppInv, Sincere, Reports
  <2>4. u = t
    BY <1>2, <1>5, <2>2, <2>3 DEF WorldInv, TradesOK
  <2>5. t.base \in Nat
    BY <1>5 DEF WorldInv, TradesOK
  <2>6. QED
    BY <1>4, <2>1, <2>3, <2>4, <2>5
<1>8. QED
  BY <1>2, <1>6, <1>7

\* What the views of one status credit to an order covers the trades they are
\* the views of.
LEMMA CreditCovers ==
  ASSUME AppInv, WorldInv, NEW objs \in SUBSET Published, NEW chain, NEW now,
         NEW fills, ViewsOK(fills),
         \A v \in fills : \E x \in Counted(Reading(objs)) : v = FillView(x, Reading(objs), chain, now),
         NEW c \in Reading(objs).canonical,
         NEW status, status = "settled" => SettlersOwn(objs),
         NEW S \in SUBSET Involving(c.eip),
         \A t \in S : \E v \in fills : v.key = t.key /\ v.status = status
  PROVE  SumBase(S) <= Credit(c, fills, status)
<1>1. PICK P : P = {v \in fills : v.status = status /\ c.hash \in {v.maker.hash, v.taker.hash}}
  OBVIOUS
<1>2. PICK h : h = [t \in S |-> CHOOSE v \in fills : v.key = t.key /\ v.status = status]
  OBVIOUS
<1>3. \A t \in S : h[t] \in fills /\ h[t].key = t.key /\ h[t].status = status
  BY <1>2
<1>4. ASSUME NEW t \in S PROVE h[t] \in P /\ t.base <= h[t].base
  <2>1. PICK v : v = h[t]
    OBVIOUS
  <2>2. v \in fills /\ v.key = t.key /\ v.status = status
    BY <1>3, <2>1
  <2>3. PICK x \in Counted(Reading(objs)) : v = FillView(x, Reading(objs), chain, now)
    BY <2>2
  <2>4. c.hash \in {v.maker.hash, v.taker.hash} /\ t.base <= v.base
    BY <2>2, <2>3, ViewOfTrade
  <2>5. QED
    BY <1>1, <2>1, <2>2, <2>4
<1>5. S \subseteq trades
  BY DEF Involving
<1>6. \A t, u \in S : h[t] = h[u] => t = u
  BY <1>3, <1>5 DEF WorldInv, TradesOK
<1>7. IsFiniteSet(S) /\ IsFiniteSet(P)
  BY <1>1, <1>5, FS_Subset DEF WorldInv, TradesOK, ViewsOK
<1>8. (\A t \in S : t.base \in Nat) /\ (\A v \in P : v.base \in Nat)
  BY <1>1, <1>5 DEF WorldInv, TradesOK, ViewsOK
<1>9. SumBase(S) <= SumBase(P)
  BY <1>4, <1>6, <1>7, <1>8, SumBaseCovered
<1>10. Credit(c, fills, status) = SumBase(P)
  BY <1>1 DEF Credit
<1>11. QED
  BY <1>9, <1>10

\* The same of what settled, by the chain's own total where it was read.
LEMMA SettledCovers ==
  ASSUME AppInv, WorldInv, refresh.pc = "bound", NEW objs \in SUBSET Published,
         NEW chain, chain.read = TRUE, chain.used = usedCache, chain.filled = refresh.filled,
         NEW now, NEW fills, ViewsOK(fills),
         \A v \in fills : \E x \in Counted(Reading(objs)) : v = FillView(x, Reading(objs), chain, now),
         NEW c \in Reading(objs).canonical, NEW S \in SUBSET Involving(c.eip),
         c.eip \in DOMAIN refresh.filled \/ SettlersOwn(objs),
         \A t \in S : \E v \in fills : v.key = t.key /\ v.status = "settled"
  PROVE  SumBase(S) <= Get(chain.filled, c.eip, Credit(c, fills, "settled"))
<1>1. CASE c.eip \notin DOMAIN chain.filled
  <2>1. SumBase(S) <= Credit(c, fills, "settled")
    BY <1>1, CreditCovers
  <2>2. QED
    BY <1>1, <2>1 DEF Get
<1>2. CASE c.eip \in DOMAIN chain.filled
  <2>1. PICK T \in SUBSET trades : ReadAt(T)
    BY DEF WorldInv, RefreshOK
  <2>2. PICK U : U = {t \in T : c.eip \in {t.key.maker, t.key.taker}}
    OBVIOUS
  <2>3. chain.filled[c.eip] = SumBase(U)
    BY <1>2, <2>1, <2>2 DEF ReadAt
  <2>4. ASSUME NEW t \in S PROVE t \in U
    <3>1. PICK v \in fills : v.key = t.key /\ v.status = "settled"
      OBVIOUS
    <3>2. PICK x \in Counted(Reading(objs)) : v = FillView(x, Reading(objs), chain, now)
      OBVIOUS
    <3>3. Readable(objs)
      BY ListingIsReadable DEF WorldInv
    <3>4. v.key = x.key /\ (v.status = "settled" <=> (IF chain.read THEN x.key \in chain.used
                                                     ELSE ReceiptFor(x, objs) # {}))
      BY <3>2, <3>3, ViewsOfFills
    <3>5. t.key \in usedCache
      BY <3>1, <3>4
    <3>6. PICK u \in T : u.key = t.key
      BY <2>1, <3>5 DEF ReadAt
    <3>7. t \in trades /\ c.eip \in {t.key.maker, t.key.taker}
      BY DEF Involving
    <3>8. u = t
      BY <3>6, <3>7 DEF WorldInv, TradesOK
    <3>9. QED
      BY <2>2, <3>7, <3>8
  <2>5. IsFiniteSet(U) /\ \A t \in U : t.base \in Nat
    BY <2>2, FS_Subset DEF WorldInv, TradesOK
  <2>6. SumBase(S) <= SumBase(U)
    BY <2>4, <2>5, SumBaseOfPart
  <2>7. QED
    BY <1>2, <2>3, <2>6 DEF Get
<1>3. QED
  BY <1>1, <1>2

LEMMA ClampMonotone ==
  ASSUME NEW m \in Int, NEW n \in Int, m <= n
  PROVE  AtLeastZero(m) <= AtLeastZero(n)
<1>1. /\ AtLeastZero(m) \in Nat /\ AtLeastZero(m) \in {m, 0}
      /\ AtLeastZero(n) \in Nat /\ AtLeastZero(n) >= n
  BY Clamped
<1>2. QED
  BY <1>1

\* The chain as the refresh under way has read it, and the views of a listing.
ChainAsRead(chain) ==
  /\ chain.read = TRUE /\ chain.used = usedCache /\ chain.filled = refresh.filled
  /\ ChainNumbers(chain)
ViewsOf(objs, chain, now, fills) ==
  /\ ViewsOK(fills)
  /\ \A v \in fills : \E x \in Counted(Reading(objs)) : v = FillView(x, Reading(objs), chain, now)

\* What an entry has left is within its size less what the listed trades took.
LEMMA EntryWithin ==
  ASSUME AppInv, WorldInv, refresh.pc = "bound", NEW objs \in SUBSET Published,
         NEW chain, ChainAsRead(chain), NEW now, NEW fills, ViewsOf(objs, chain, now, fills),
         NEW c \in Reading(objs).canonical,
         NEW o, o = RestingOrder(c, fills, Reading(objs), chain, now), ~o.voided,
         o.eip \in DOMAIN refresh.filled \/ SettlersOwn(objs),
         NEW L, L = {t \in Involving(o.eip) : \E v \in fills : v.key = t.key /\ v.status # "stale"}
  PROVE  o.remaining <= AtLeastZero(o.base - SumBase(L))
<1>0. /\ chain.read = TRUE /\ chain.used = usedCache /\ chain.filled = refresh.filled
      /\ ChainNumbers(chain) /\ ViewsOK(fills)
      /\ \A v \in fills : \E x \in Counted(Reading(objs)) : v = FillView(x, Reading(objs), chain, now)
  BY DEF ChainAsRead, ViewsOf
<1>1. Readable(objs)
  BY ListingIsReadable DEF WorldInv
<1>2. PICK settled, pending : /\ settled = Get(chain.filled, c.eip, Credit(c, fills, "settled"))
                              /\ pending = Credit(c, fills, "pending")
  OBVIOUS
<1>3. /\ EntryOK(o) /\ o.eip = c.eip /\ o.base = c.base
      /\ o.remaining = AtLeastZero(c.base - settled - pending)
  BY <1>0, <1>1, <1>2, EntryOfOrder
<1>4. settled \in Nat /\ pending \in Nat
  BY <1>0, <1>2, CreditsAreNat DEF Get, ChainNumbers
<1>5. c.base \in Nat
  BY <1>3 DEF EntryOK
<1>6. PICK K : K = {t \in L : \E v \in fills : v.key = t.key /\ v.status = "settled"}
  OBVIOUS
<1>7. \A v \in fills : v.status \in {"settled", "pending", "stale"}
  <2>1. ASSUME NEW v \in fills PROVE v.status \in {"settled", "pending", "stale"}
    <3>1. PICK x \in Counted(Reading(objs)) : v = FillView(x, Reading(objs), chain, now)
      BY <1>0
    <3>2. QED
      BY <3>1 DEF FillView
  <2>2. QED
    BY <2>1
<1>8. PICK A, B : A = L \cap K /\ B = L \ K
  OBVIOUS
<1>9. A \in SUBSET Involving(c.eip) /\ B \in SUBSET Involving(c.eip)
  BY <1>3, <1>8
<1>10. SumBase(A) <= settled
  <2>1. \A t \in A : \E v \in fills : v.key = t.key /\ v.status = "settled"
    BY <1>6, <1>8
  <2>2. QED
    BY <1>0, <1>2, <1>3, <1>9, <2>1, SettledCovers
<1>11. SumBase(B) <= pending
  <2>1. \A t \in B : \E v \in fills : v.key = t.key /\ v.status = "pending"
    BY <1>6, <1>7, <1>8
  <2>2. QED
    BY <1>0, <1>2, <1>9, <2>1, CreditCovers
<1>12. L \in SUBSET trades
  BY DEF Involving
<1>13. IsFiniteSet(L) /\ \A t \in L : t.base \in Nat
  BY <1>12, FS_Subset DEF WorldInv, TradesOK
<1>14. SumBase(L) = SumBase(A) + SumBase(B)
  BY <1>8, <1>13, SumBaseSplits
<1>15. SumBase(A) \in Nat /\ SumBase(B) \in Nat
  BY <1>8, <1>13, SumBaseOfPart
<1>16. PICK m, n : m = c.base - settled - pending /\ n = c.base - SumBase(L)
  OBVIOUS
<1>17. m \in Int /\ n \in Int /\ m <= n
  BY <1>4, <1>5, <1>10, <1>11, <1>14, <1>15, <1>16
<1>18. AtLeastZero(m) <= AtLeastZero(n)
  BY <1>17, ClampMonotone
<1>19. QED
  BY <1>3, <1>16, <1>18

\* Whatever settles while the three reads of a refresh go on, in whatever order
\* the reads and the settlements fall, the book it makes offers an order for no
\* more than its size less what the contract moved for the fills it lists
\* (page.tsx:179-205, aon.ts:326-397). Receipts, which may be anyone's, are
\* relied on only where the order's total on chain could not be read.
THEOREM OffersAreBacked == Spec => BookNeverOverstates
<1>1. ASSUME AppInv, WorldInv, ReadBound
      PROVE  \A o \in refresh'.derived.orders :
               ~o.voided /\ (o.eip \in DOMAIN refresh.filled \/ SettlersOwn(refresh.objs)) =>
               LET listed == {v.key : v \in {v \in refresh'.derived.fills : v.status # "stale"}}
               IN  o.remaining <= AtLeastZero(o.base - SumBase({t \in Involving(o.eip) : t.key \in listed}))
  <2>1. PICK chain : /\ chain.read = TRUE /\ chain.used = usedCache
                     /\ chain.filled = refresh.filled /\ ChainNumbers(chain)
                     /\ refresh'.derived = DeriveState(refresh.objs, chain, clock)
    BY <1>1, BookRead
  <2>2. refresh.pc = "bound"
    BY <1>1 DEF ReadBound
  <2>3. PICK objs \in SUBSET Published : objs = refresh.objs
    BY <1>1, <2>2 DEF AppInv, RefreshInv
  <2>4. Readable(objs)
    BY <1>1, ListingIsReadable DEF WorldInv
  <2>5. PICK fills :
          /\ ViewsOK(fills)
          /\ \A v \in fills : \E x \in Counted(Reading(objs)) : v = FillView(x, Reading(objs), chain, clock)
          /\ DeriveState(objs, chain, clock).orders =
               {RestingOrder(o, fills, Reading(objs), chain, clock) : o \in Reading(objs).canonical}
          /\ DeriveState(objs, chain, clock).fills = {Listed(v) : v \in fills}
    BY <2>4, BookOfListing
  <2>6. PICK listed : listed = {v.key : v \in {v \in refresh'.derived.fills : v.status # "stale"}}
    OBVIOUS
  <2>7. \A k : k \in listed <=> \E v \in fills : v.key = k /\ v.status # "stale"
    <3>1. \A v : Listed(v).key = v.key /\ Listed(v).status = v.status
      BY DEF Listed
    <3>2. refresh'.derived.fills = {Listed(v) : v \in fills}
      BY <2>1, <2>3, <2>5
    <3>3. QED
      BY <2>6, <3>1, <3>2
  <2>8. ASSUME NEW o \in refresh'.derived.orders, ~o.voided,
               o.eip \in DOMAIN refresh.filled \/ SettlersOwn(objs)
        PROVE  o.remaining <= AtLeastZero(o.base - SumBase({t \in Involving(o.eip) : t.key \in listed}))
    <3>1. PICK c \in Reading(objs).canonical : o = RestingOrder(c, fills, Reading(objs), chain, clock)
      BY <2>1, <2>3, <2>5, <2>8
    <3>2. PICK L : L = {t \in Involving(o.eip) : \E v \in fills : v.key = t.key /\ v.status # "stale"}
      OBVIOUS
    <3>3. L = {t \in Involving(o.eip) : t.key \in listed}
      BY <2>7, <3>2
    <3>4. ChainAsRead(chain) /\ ViewsOf(objs, chain, clock, fills)
      BY <2>1, <2>5 DEF ChainAsRead, ViewsOf
    <3>5. o.remaining <= AtLeastZero(o.base - SumBase(L))
      BY <1>1, <2>2, <2>3, <2>8, <3>1, <3>2, <3>4, EntryWithin
    <3>6. QED
      BY <3>3, <3>5
  <2>9. QED
    BY <2>3, <2>6, <2>8
<1>2. AppInv /\ WorldInv => (ReadBound =>
        \A o \in refresh'.derived.orders :
          ~o.voided /\ (o.eip \in DOMAIN refresh.filled \/ SettlersOwn(refresh.objs)) =>
          LET listed == {v.key : v \in {v \in refresh'.derived.fills : v.status # "stale"}}
          IN  o.remaining <= AtLeastZero(o.base - SumBase({t \in Involving(o.eip) : t.key \in listed})))
  BY <1>1
<1>3. QED
  BY <1>2, WorldInvariance, PTL DEF BookNeverOverstates

-----------------------------------------------------------------------------
(***************************************************************************)
(* What the legs of a match take in turn, and what a match is made of.     *)
(***************************************************************************)
\* `total` is what the legs take, leg by leg.
Runs(legs, total) ==
  \E g \in [1..(Len(legs) + 1) -> Nat] :
    /\ g[1] = total /\ g[Len(legs) + 1] = 0
    /\ \A i \in 1..Len(legs) : g[i] = legs[i].base + g[i + 1]

LEMMA RunsFromNone ==
  ASSUME NEW legs, legs = <<>>
  PROVE  Runs(legs, 0)
<1>1. PICK g : g = [i \in {1} |-> 0]
  OBVIOUS
<1>2. Len(legs) = 0 /\ 1..(Len(legs) + 1) = {1}
  OBVIOUS
<1>3. g \in [1..(Len(legs) + 1) -> Nat] /\ g[1] = 0
  BY <1>1, <1>2
<1>4. QED
  BY <1>2, <1>3 DEF Runs

LEMMA RunsOn ==
  ASSUME NEW L, NEW legs \in Seq(L), NEW leg \in L, leg.base \in Nat,
         \A l \in L : l.base \in Nat, NEW total \in Nat, Runs(legs, total)
  PROVE  Runs(Append(legs, leg), total + leg.base)
<1>1. PICK n \in Nat : n = Len(legs)
  OBVIOUS
<1>2. PICK more \in Seq(L) : more = Append(legs, leg)
  <2>1. Append(legs, leg) \in Seq(L)
    OBVIOUS
  <2>2. QED
    BY <2>1
<1>3. Len(more) = n + 1 /\ more[n + 1] = leg /\ \A i \in 1..n : more[i] = legs[i]
  BY <1>1, <1>2
<1>4. PICK g \in [1..(n + 1) -> Nat] : /\ g[1] = total /\ g[n + 1] = 0
                                       /\ \A i \in 1..n : g[i] = legs[i].base + g[i + 1]
  BY <1>1 DEF Runs
<1>5. PICK h : h = [i \in 1..(n + 2) |-> IF i <= n + 1 THEN g[i] + leg.base ELSE 0]
  OBVIOUS
<1>6. h \in [1..(n + 2) -> Nat]
  BY <1>4, <1>5
<1>7. h[1] = total + leg.base /\ h[n + 2] = 0 /\ h[n + 1] = leg.base
  BY <1>4, <1>5
<1>8. ASSUME NEW i \in 1..n
      PROVE  h[i] = legs[i].base + h[i + 1]
  <2>1. /\ i \in 1..(n + 2) /\ i + 1 \in 1..(n + 2) /\ i <= n + 1 /\ i + 1 <= n + 1
        /\ i \in 1..(n + 1) /\ i + 1 \in 1..(n + 1)
    OBVIOUS
  <2>2. h[i] = g[i] + leg.base /\ h[i + 1] = g[i + 1] + leg.base
    BY <1>5, <2>1
  <2>3. legs[i].base \in Nat
    <3>1. legs[i] \in L
      BY <1>1
    <3>2. QED
      BY <3>1
  <2>4. g[i] = legs[i].base + g[i + 1] /\ g[i] \in Nat /\ g[i + 1] \in Nat
    BY <1>4, <2>1
  <2>5. QED
    BY <2>2, <2>3, <2>4
<1>9. \A i \in 1..(n + 1) : h[i] = more[i].base + h[i + 1]
  <2>1. ASSUME NEW i \in 1..(n + 1)
        PROVE  h[i] = more[i].base + h[i + 1]
    <3>1. CASE i \in 1..n
      BY <1>3, <1>8, <3>1
    <3>2. CASE i = n + 1
      BY <1>3, <1>7, <3>2
    <3>3. QED
      BY <3>1, <3>2
  <2>2. QED
    BY <2>1
<1>10. Len(more) + 1 = n + 2
  BY <1>3
<1>11. QED
  BY <1>2, <1>3, <1>6, <1>7, <1>9, <1>10 DEF Runs

LEMMA RunsTail ==
  ASSUME NEW L, NEW legs \in Seq(L), legs # <<>>, \A l \in L : l.base \in Nat,
         NEW total \in Nat, Runs(legs, total)
  PROVE  /\ total - Head(legs).base \in Nat
         /\ Runs(Tail(legs), total - Head(legs).base)
<1>1. PICK n \in Nat : n + 1 = Len(legs)
  <2>1. Len(legs) \in Nat /\ Len(legs) # 0
    OBVIOUS
  <2>2. Len(legs) - 1 \in Nat /\ (Len(legs) - 1) + 1 = Len(legs)
    BY <2>1
  <2>3. QED
    BY <2>2
<1>2. PICK rest \in Seq(L) : rest = Tail(legs)
  <2>1. Tail(legs) \in Seq(L)
    OBVIOUS
  <2>2. QED
    BY <2>1
<1>3. Len(rest) = n /\ \A i \in 1..n : rest[i] = legs[i + 1]
  BY <1>1, <1>2
<1>4. PICK g \in [1..(n + 2) -> Nat] : /\ g[1] = total /\ g[n + 2] = 0
                                       /\ \A i \in 1..(n + 1) : g[i] = legs[i].base + g[i + 1]
  <2>1. Len(legs) + 1 = n + 2
    BY <1>1
  <2>2. QED
    BY <1>1, <2>1 DEF Runs
<1>5. PICK h : h = [i \in 1..(n + 1) |-> g[i + 1]]
  OBVIOUS
<1>6. h \in [1..(n + 1) -> Nat] /\ h[1] = g[2] /\ h[n + 1] = 0
  BY <1>4, <1>5
<1>7. \A i \in 1..n : h[i] = rest[i].base + h[i + 1]
  <2>1. ASSUME NEW i \in 1..n
        PROVE  h[i] = rest[i].base + h[i + 1]
    <3>1. /\ i \in 1..(n + 1) /\ i + 1 \in 1..(n + 1)
      OBVIOUS
    <3>2. h[i] = g[i + 1] /\ h[i + 1] = g[i + 1 + 1]
      BY <1>5, <3>1
    <3>3. g[i + 1] = legs[i + 1].base + g[i + 1 + 1]
      BY <1>4, <3>1
    <3>4. QED
      BY <1>3, <3>2, <3>3
  <2>2. QED
    BY <2>1
<1>8. Head(legs) = legs[1] /\ legs[1] \in L
  BY <1>1
<1>9. g[1] = legs[1].base + g[2] /\ g[2] \in Nat /\ legs[1].base \in Nat
  <2>1. 1 \in 1..(n + 1) /\ 2 \in 1..(n + 2) /\ 1 + 1 = 2
    OBVIOUS
  <2>2. QED
    BY <1>4, <1>8, <2>1
<1>10. g[2] = total - Head(legs).base
  BY <1>4, <1>8, <1>9
<1>11. QED
  BY <1>2, <1>3, <1>6, <1>7, <1>9, <1>10 DEF Runs

LEMMA RunsNone ==
  ASSUME NEW legs, legs = <<>>, NEW total, Runs(legs, total)
  PROVE  total = 0
<1>1. Len(legs) + 1 = 1
  OBVIOUS
<1>2. QED
  BY <1>1 DEF Runs

\* A match takes from these orders, leg by leg what it takes in all.
MatchFit(m, amount, orders) ==
  Runs(m.legs, amount - m.left) /\ \A i \in DOMAIN m.legs : m.legs[i].order \in orders
RisesTo(legs, price) == \A i \in DOMAIN legs : legs[i].price <= price
IsRising(m) == RisesTo(m.legs, WorstPrice(m))

LEMMA TakeKeepsFit ==
  ASSUME NEW orders, NEW amount \in Nat, NEW me, NEW acc \in Matches(orders, amount),
         NEW T, T \subseteq orders, \A p \in T : OfferNumbers(p),
         NEW o \in T, \A p \in T : ~Before(o, p), MatchFit(acc, amount, T \ {o})
  PROVE  /\ MatchFit(TakeFrom(acc, o, me), amount, T)
         /\ (\A p \in T : p.side = "sell") /\ IsRising(acc) => IsRising(TakeFrom(acc, o, me))
<1>1. PICK base : base = Min({acc.left, o.remaining})
  OBVIOUS
<1>2. /\ acc.left \in 0..amount /\ acc.legs \in Seq(Legs(orders)) /\ acc.quote \in Nat
      /\ Len(acc.legs) \in Nat /\ OfferNumbers(o) /\ o \in orders
  BY DEF Matches
<1>3. base \in Nat /\ base <= acc.left /\ base <= o.remaining
  <2>1. acc.left \in Int /\ o.remaining \in Int /\ o.remaining \in Nat /\ acc.left \in Nat
    BY <1>2 DEF OfferNumbers
  <2>2. base \in {acc.left, o.remaining} /\ base <= acc.left /\ base <= o.remaining
    BY <1>1, <2>1, MinOfTwo
  <2>3. QED
    BY <1>2, <2>1, <2>2
<1>4. PICK quote \in Nat : quote = QuoteFor(base, o.price)
  BY <1>2, <1>3, QuoteNat DEF OfferNumbers
<1>5. PICK leg : leg = [order |-> o, base |-> base, price |-> o.price, quote |-> quote]
  OBVIOUS
<1>6. leg \in Legs(orders) /\ leg.order = o /\ leg.base = base /\ leg.price = o.price
  BY <1>2, <1>3, <1>4, <1>5 DEF Legs, OfferNumbers
<1>7. PICK L : L = Legs(orders)
  OBVIOUS
<1>8. \A l \in L : l.base \in Nat /\ l.price \in Nat /\ l.price = l.order.price
  BY <1>7 DEF Legs
<1>9. PICK legs : legs = acc.legs
  OBVIOUS
<1>10. legs \in Seq(L) /\ leg \in L
  BY <1>2, <1>6, <1>7, <1>9
<1>11. PICK more : more = Append(legs, leg)
  OBVIOUS
<1>12. /\ Len(more) = Len(legs) + 1 /\ more[Len(legs) + 1] = leg
       /\ \A i \in 1..Len(legs) : more[i] = legs[i]
       /\ DOMAIN more = 1..(Len(legs) + 1) /\ DOMAIN legs = 1..Len(legs) /\ Len(legs) \in Nat
  BY <1>10, <1>11
<1>13. PICK m : m = [acc EXCEPT !.left = @ - base, !.quote = @ + quote, !.legs = more]
  OBVIOUS
<1>14. m.left = acc.left - base /\ m.legs = more
  <2>1. acc \in [left : 0..amount, legs : Seq(Legs(orders)), quote : Nat, selfCross : BOOLEAN]
    BY DEF Matches
  <2>2. QED
    BY <1>13, <2>1
<1>15. MatchFit(m, amount, T)
  <2>1. Runs(legs, amount - acc.left) /\ amount - acc.left \in Nat
    BY <1>2, <1>9 DEF MatchFit
  <2>2. Runs(more, (amount - acc.left) + base)
    BY <1>3, <1>6, <1>8, <1>10, <1>11, <2>1, RunsOn
  <2>3. (amount - acc.left) + base = amount - m.left
    BY <1>2, <1>3, <1>14
  <2>4. \A i \in DOMAIN more : more[i].order \in T
    BY <1>6, <1>9, <1>12 DEF MatchFit
  <2>5. QED
    BY <1>14, <2>2, <2>3, <2>4 DEF MatchFit
<1>16. (\A p \in T : p.side = "sell") => IsRising(m)
  <2>1. WorstPrice(m) = o.price
    <3>1. more # <<>> /\ more[Len(more)] = leg
      BY <1>12
    <3>2. QED
      BY <1>6, <1>14, <3>1 DEF WorstPrice, Last
  <2>2. ASSUME \A p \in T : p.side = "sell", NEW i \in 1..(Len(legs) + 1)
        PROVE  more[i].price <= o.price
    <3>1. CASE i = Len(legs) + 1
      BY <1>2, <1>6, <1>12, <3>1 DEF OfferNumbers
    <3>2. CASE i # Len(legs) + 1
      <4>1. i \in 1..Len(legs)
        BY <1>12, <3>2
      <4>2. more[i] = legs[i] /\ legs[i] \in L /\ legs[i].order \in T
        BY <1>9, <1>10, <1>12, <4>1 DEF MatchFit
      <4>3. PICK p \in T : p = legs[i].order /\ more[i].price = p.price
        BY <1>8, <4>2
      <4>4. ~Before(o, p) /\ o.side = "sell" /\ o.price \in Nat /\ p.price \in Nat
        BY <1>2, <2>2 DEF OfferNumbers
      <4>5. p.price <= o.price
        BY <4>4 DEF Before
      <4>6. QED
        BY <4>3, <4>5
    <3>3. QED
      BY <3>1, <3>2
  <2>3. QED
    BY <1>12, <1>14, <2>1, <2>2 DEF IsRising, RisesTo
<1>17. PICK same : same = [acc EXCEPT !.selfCross = TRUE]
  OBVIOUS
<1>18. same.left = acc.left /\ same.legs = acc.legs
  <2>1. acc \in [left : 0..amount, legs : Seq(Legs(orders)), quote : Nat, selfCross : BOOLEAN]
    BY DEF Matches
  <2>2. QED
    BY <1>17, <2>1
<1>19. /\ MatchFit(acc, amount, T) /\ MatchFit(same, amount, T)
       /\ IsRising(acc) => IsRising(same)
  BY <1>18 DEF MatchFit, IsRising, RisesTo, WorstPrice
<1>20. TakeFrom(acc, o, me) \in {acc, same, m}
  <2>1. m = [acc EXCEPT !.left = @ - base, !.quote = @ + quote,
               !.legs = Append(@, [order |-> o, base |-> base, price |-> o.price, quote |-> quote])]
    BY <1>5, <1>9, <1>11, <1>13
  <2>2. QED
    BY <1>1, <1>4, <1>17, <2>1, Zenon DEF TakeFrom
<1>21. QED
  BY <1>15, <1>16, <1>19, <1>20

\* A match of the book, leg by leg: what was filled, of which orders, and for
\* a buyer at what price at most.
LEMMA MatchFits ==
  ASSUME NEW book, IsFiniteSet(book), \A o \in book : OfferNumbers(o),
         NEW side, NEW amount \in Nat, NEW limit, NEW me, NEW now,
         NEW m, m = MatchOrder(book, side, amount, limit, me, now)
  PROVE  /\ MatchFit(m, amount, Matchable(book, side, limit, now))
         /\ side = "buy" => IsRising(m)
<1>1. PICK S : S = Matchable(book, side, limit, now)
  OBVIOUS
<1>2. S \subseteq book /\ \A o \in S : o.side = Opposite(side)
  BY <1>1 DEF Matchable
<1>3. IsFiniteSet(S)
  BY <1>2, FS_Subset
<1>4. PICK inv : inv = [T \in SUBSET S |-> {x \in Matches(book, amount) :
        MatchFit(x, amount, T) /\ (side = "buy" => IsRising(x))}]
  OBVIOUS
<1>5. \A T \in SUBSET S : \A x : x \in inv[T] <=>
        x \in Matches(book, amount) /\ MatchFit(x, amount, T) /\ (side = "buy" => IsRising(x))
  BY <1>4
<1>6. PICK start : start = [left |-> amount, legs |-> <<>>, quote |-> 0, selfCross |-> FALSE]
  OBVIOUS
<1>7. start \in inv[{}]
  <2>1. start \in Matches(book, amount) /\ start.legs = <<>> /\ start.left = amount
    BY <1>6, MarketAssumption DEF Matches
  <2>2. amount - start.left = 0 /\ DOMAIN start.legs = {}
    BY <2>1
  <2>3. MatchFit(start, amount, {}) /\ IsRising(start)
    BY <2>1, <2>2, RunsFromNone DEF MatchFit, IsRising, RisesTo
  <2>4. QED
    BY <1>5, <2>1, <2>3
<1>8. ASSUME NEW T \in SUBSET S, NEW o \in T, o = LastOf(T), NEW acc \in inv[T \ {o}]
      PROVE  TakeFrom(acc, o, me) \in inv[T]
  <2>1. /\ acc \in Matches(book, amount) /\ MatchFit(acc, amount, T \ {o})
        /\ side = "buy" => IsRising(acc)
    BY <1>5, <1>8
  <2>2. \A p \in T : ~Before(o, p)
    <3>1. IsFiniteSet(T) /\ T # {} /\ \A p \in T : OfferNumbers(p) /\ p.side = Opposite(side)
      BY <1>2, <1>3, <1>8, FS_Subset
    <3>2. QED
      BY <1>8, <3>1, SomeOrderIsLast
  <2>3. T \subseteq book /\ \A p \in T : OfferNumbers(p)
    BY <1>2
  <2>4. TakeFrom(acc, o, me) \in Matches(book, amount)
    BY <2>1, <2>3, TakeKeepsMatch
  <2>5. side = "buy" => \A p \in T : p.side = "sell"
    BY <1>2 DEF Opposite
  <2>6. /\ MatchFit(TakeFrom(acc, o, me), amount, T)
        /\ (\A p \in T : p.side = "sell") /\ IsRising(acc) => IsRising(TakeFrom(acc, o, me))
    BY <2>1, <2>2, <2>3, TakeKeepsFit
  <2>7. QED
    BY <1>5, <2>1, <2>4, <2>5, <2>6
<1>9. Carried(inv, S, me)
  BY <1>8 DEF Carried
<1>10. m \in inv[S]
  BY <1>1, <1>6, <1>7, <1>9, MatchFolds
<1>11. QED
  BY <1>1, <1>5, <1>10

-----------------------------------------------------------------------------
(***************************************************************************)
(* Fees and quotes: rounding, and the sums of some fills.                  *)
(***************************************************************************)
LEMMA TimesKeepsOrder ==
  ASSUME NEW a \in Nat, NEW b \in Nat, NEW c \in Nat, a <= b
  PROVE  a * c <= b * c /\ c * a <= c * b
  OBVIOUS

LEMMA TimesCancels ==
  ASSUME NEW a \in Nat, NEW b \in Nat, NEW c \in Nat \ {0}, a * c <= b * c
  PROVE  a <= b
<1>1. SUFFICES ASSUME b + 1 <= a PROVE FALSE
  OBVIOUS
<1>2. (b + 1) * c <= a * c
  BY <1>1, TimesKeepsOrder
<1>3. (b + 1) * c = b * c + c
  OBVIOUS
<1>4. QED
  BY <1>2, <1>3

LEMMA QuotientBounds ==
  ASSUME NEW a \in Nat, NEW b \in Nat \ {0}
  PROVE  a \div b \in Nat /\ (a \div b) * b <= a /\ a <= (a \div b) * b + b
  OBVIOUS

\* Rounding down reaches everything that is below.
LEMMA QuotientIsLargest ==
  ASSUME NEW a \in Nat, NEW b \in Nat \ {0}, NEW n \in Nat, n * b <= a
  PROVE  n <= a \div b
<1>1. PICK q \in Nat : q = a \div b /\ a <= q * b + b /\ a < q * b + b
  OBVIOUS
<1>2. SUFFICES ASSUME q + 1 <= n PROVE FALSE
  BY <1>1
<1>3. (q + 1) * b <= n * b
  BY <1>2, TimesKeepsOrder
<1>4. (q + 1) * b = q * b + b
  OBVIOUS
<1>5. QED
  BY <1>1, <1>3, <1>4

\* The fee cap of an order covers its share of any quote.
LEMMA CapCoversRate ==
  ASSUME NEW orderQuote \in Nat
  PROVE  MaxFeeForOrder(orderQuote) \in Nat /\ FeeNum * orderQuote <= FeeDen * MaxFeeForOrder(orderQuote)
<1>1. FeeNum \in Nat /\ FeeDen \in Nat \ {0}
  BY MarketAssumption
<1>2. CASE FeeNum = 0
  BY <1>1, <1>2 DEF MaxFeeForOrder
<1>3. CASE FeeNum > 0
  <2>1. PICK n \in Nat : n = orderQuote * FeeNum /\ n = FeeNum * orderQuote
    BY <1>1
  <2>2. PICK q \in Nat : q = n \div FeeDen /\ n <= q * FeeDen + FeeDen
    BY <1>1, QuotientBounds
  <2>3. MaxFeeForOrder(orderQuote) = q + 1
    BY <1>3, <2>1, <2>2 DEF MaxFeeForOrder
  <2>4. FeeDen * (q + 1) = q * FeeDen + FeeDen
    BY <1>1
  <2>5. QED
    BY <2>1, <2>2, <2>3, <2>4
<1>4. QED
  BY <1>1, <1>2, <1>3

LEMMA FeeWithinRate ==
  ASSUME NEW quote \in Nat
  PROVE  FeeForQuote(quote) \in Nat /\ FeeDen * FeeForQuote(quote) <= FeeNum * quote
<1>1. FeeNum \in Nat /\ FeeDen \in Nat \ {0}
  BY MarketAssumption
<1>2. PICK n \in Nat : n = quote * FeeNum /\ n = FeeNum * quote
  BY <1>1
<1>3. PICK q \in Nat : q = n \div FeeDen /\ q * FeeDen <= n
  BY <1>1, QuotientBounds
<1>4. FeeForQuote(quote) = q /\ FeeDen * q = q * FeeDen
  BY <1>1, <1>2, <1>3 DEF FeeForQuote
<1>5. QED
  BY <1>2, <1>3, <1>4

\* Pro rata: a fee within the rate is within a cap that covers the rate.
LEMMA RateFits ==
  ASSUME NEW fee \in Nat, NEW quote \in Nat, NEW cap \in Nat, NEW all \in Nat,
         FeeDen * fee <= FeeNum * quote, FeeNum * all <= FeeDen * cap
  PROVE  fee * all <= cap * quote
<1>1. FeeNum \in Nat /\ FeeDen \in Nat \ {0}
  BY MarketAssumption
<1>2. PICK x \in Nat, y \in Nat, z \in Nat, w \in Nat :
        x = FeeDen * fee /\ y = FeeNum * quote /\ z = FeeNum * all /\ w = FeeDen * cap
  BY <1>1
<1>3. x * all <= y * all /\ z * quote <= w * quote
  BY <1>2, TimesKeepsOrder
<1>4. y * all = z * quote
  BY <1>1, <1>2
<1>5. x * all <= w * quote
  <2>1. PICK p \in Nat, q \in Nat, r \in Nat, s \in Nat :
          p = x * all /\ q = y * all /\ r = z * quote /\ s = w * quote
    BY <1>2
  <2>2. QED
    BY <1>3, <1>4, <2>1
<1>6. x * all = (fee * all) * FeeDen /\ w * quote = (cap * quote) * FeeDen
  BY <1>1, <1>2
<1>7. PICK l \in Nat, r \in Nat : l = fee * all /\ r = cap * quote
  OBVIOUS
<1>8. l * FeeDen <= r * FeeDen
  BY <1>5, <1>6, <1>7
<1>9. QED
  BY <1>1, <1>7, <1>8, TimesCancels

\* All the fees of an order: within its cap, when the quote is within what the
\* cap was computed for.
LEMMA FeesFit ==
  ASSUME NEW fees \in Nat, NEW quotes \in Nat, NEW all \in Nat, quotes <= all,
         FeeDen * fees <= FeeNum * quotes
  PROVE  fees <= MaxFeeForOrder(all)
<1>1. FeeNum \in Nat /\ FeeDen \in Nat \ {0}
  BY MarketAssumption
<1>2. PICK cap \in Nat : cap = MaxFeeForOrder(all) /\ FeeNum * all <= FeeDen * cap
  BY CapCoversRate
<1>3. FeeNum * quotes <= FeeNum * all
  BY <1>1, TimesKeepsOrder
<1>4. PICK p \in Nat, q \in Nat, r \in Nat, s \in Nat :
        p = FeeDen * fees /\ q = FeeNum * quotes /\ r = FeeNum * all /\ s = FeeDen * cap
  BY <1>1
<1>5. p <= s
  BY <1>2, <1>3, <1>4
<1>6. fees * FeeDen = p /\ cap * FeeDen = s
  BY <1>1, <1>4
<1>7. fees <= cap
  BY <1>1, <1>5, <1>6, TimesCancels
<1>8. QED
  BY <1>2, <1>7

\* A leg at no more than the order's price.
LEMMA LegWithinPrice ==
  ASSUME NEW base \in Nat, NEW at \in Nat, NEW price \in Nat, at <= price
  PROVE  QuoteFor(base, at) \in Nat /\ Scale * QuoteFor(base, at) <= price * base
<1>1. Scale \in Nat \ {0}
  BY MarketAssumption
<1>2. PICK n \in Nat : n = base * at
  OBVIOUS
<1>3. PICK q \in Nat : q = n \div Scale /\ q * Scale <= n
  BY <1>1, QuotientBounds
<1>4. n <= price * base
  BY <1>2, TimesKeepsOrder
<1>5. q * Scale = Scale * q
  BY <1>1
<1>6. PICK l \in Nat, r \in Nat : l = Scale * q /\ r = price * base
  BY <1>1
<1>7. l <= r
  BY <1>3, <1>4, <1>5, <1>6
<1>8. QED
  BY <1>2, <1>3, <1>6, <1>7 DEF QuoteFor

LEMMA QuotesFit ==
  ASSUME NEW quotes \in Nat, NEW bases \in Nat, NEW base \in Nat, NEW price \in Nat,
         bases <= base, Scale * quotes <= price * bases
  PROVE  quotes <= QuoteFor(base, price)
<1>1. Scale \in Nat \ {0}
  BY MarketAssumption
<1>2. price * bases <= price * base
  BY TimesKeepsOrder
<1>3. PICK l \in Nat, m \in Nat, r \in Nat : l = Scale * quotes /\ m = price * bases /\ r = price * base
  BY <1>1
<1>4. r = base * price /\ l = quotes * Scale
  BY <1>1, <1>3
<1>5. quotes <= r \div Scale
  BY <1>1, <1>2, <1>3, <1>4, QuotientIsLargest
<1>6. QED
  BY <1>4, <1>5 DEF QuoteFor

\* What a resting buyer is charged.
LEMMA SellFeeFits ==
  ASSUME NEW leg, LegOK(leg)
  PROVE  LegFee("sell", leg) * leg.order.auth.maxQuote <= leg.order.auth.maxFee * leg.quote
<1>1. PICK a : a = leg.order.auth
  OBVIOUS
<1>2. /\ a.maxQuote \in Nat /\ a.maxFee \in Nat /\ leg.quote \in Nat
      /\ leg.order.feeBudgetLeft \in Nat
  BY <1>1 DEF LegOK
<1>3. PICK all \in Nat, cap \in Nat, quote \in Nat, budget \in Nat :
        all = a.maxQuote /\ cap = a.maxFee /\ quote = leg.quote /\ budget = leg.order.feeBudgetLeft
  BY <1>2
<1>4. PICK n \in Nat : n = cap * quote
  OBVIOUS
<1>5. PICK rata \in Nat : rata = (IF all > 0 THEN n \div all ELSE 0) /\ rata * all <= n
  <2>1. CASE all = 0
    BY <2>1
  <2>2. CASE all > 0
    BY <2>2, QuotientBounds
  <2>3. QED
    BY <2>1, <2>2
<1>6. PICK f \in Nat : f = FeeForQuote(quote)
  BY FeeWithinRate
<1>7. PICK S : S = {f, rata, budget}
  OBVIOUS
<1>8. IsFiniteSet(S) /\ S # {} /\ S \subseteq Int
  <2>1. IsFiniteSet({f} \cup ({rata} \cup {budget}))
    BY FS_Singleton, FS_Union
  <2>2. S = {f} \cup ({rata} \cup {budget})
    BY <1>7
  <2>3. QED
    BY <1>7, <2>1, <2>2
<1>9. PICK fee \in Nat : fee = Min(S) /\ fee <= rata
  BY <1>7, <1>8, MinOfSome
<1>10. LegFee("sell", leg) = fee
  BY <1>1, <1>3, <1>4, <1>5, <1>6, <1>7, <1>9, Zenon DEF LegFee
<1>11. fee * all <= rata * all
  BY <1>9, TimesKeepsOrder
<1>12. PICK l \in Nat, m \in Nat : l = fee * all /\ m = rata * all
  OBVIOUS
<1>13. l <= n
  BY <1>5, <1>11, <1>12
<1>14. QED
  BY <1>1, <1>3, <1>4, <1>10, <1>12, <1>13

-----------------------------------------------------------------------------
\* The sums of some fills, and of one more.
SumQuote(fills) == SumFunction([f \in fills |-> f.quote])
SumFee(fills) == SumFunction([f \in fills |-> f.fee])
FillsOK(fills) == IsFiniteSet(fills) /\ \A f \in fills : {f.base, f.quote, f.fee} \subseteq Nat

LEMMA SumOfNone == SumBase({}) = 0 /\ SumQuote({}) = 0 /\ SumFee({}) = 0
<1>1. \A f : DOMAIN f = {} => SumFunction(f) = 0
  BY SumEmpty DEF SumFunction
<1>2. QED
  BY <1>1 DEF SumBase, SumQuote, SumFee

LEMMA SumOfMore ==
  ASSUME NEW S, IsFiniteSet(S), NEW y, y \notin S, NEW f, NEW g, DOMAIN f = S,
         DOMAIN g = S \cup {y}, \A x \in S : f[x] \in Nat /\ g[x] = f[x], g[y] \in Nat
  PROVE  SumFunction(f) \in Nat /\ SumFunction(g) = SumFunction(f) + g[y]
<1>1. SumFunctionOnSet(g, S) = SumFunctionOnSet(f, S)
  BY SumAgrees
<1>2. SumFunctionOnSet(g, S \cup {y}) = SumFunctionOnSet(g, S) + g[y]
  <2>1. \A x \in S \cup {y} : g[x] \in Int
    OBVIOUS
  <2>2. QED
    BY <2>1, SumAdds
<1>3. QED
  BY <1>1, <1>2, SumIsNat DEF SumFunction

LEMMA SumsOfMore ==
  ASSUME NEW fills, FillsOK(fills), NEW f, f \notin fills, {f.base, f.quote, f.fee} \subseteq Nat
  PROVE  /\ SumBase(fills) \in Nat /\ SumBase(fills \cup {f}) = SumBase(fills) + f.base
         /\ SumQuote(fills) \in Nat /\ SumQuote(fills \cup {f}) = SumQuote(fills) + f.quote
         /\ SumFee(fills) \in Nat /\ SumFee(fills \cup {f}) = SumFee(fills) + f.fee
<1>1. PICK all : all = fills \cup {f}
  OBVIOUS
<1>2. \A x \in all : x.base \in Nat /\ x.quote \in Nat /\ x.fee \in Nat
  BY <1>1 DEF FillsOK
<1>3. /\ SumBase(fills) \in Nat /\ SumBase(all) = SumBase(fills) + f.base
  <2>1. PICK g, h : g = [x \in fills |-> x.base] /\ h = [x \in all |-> x.base]
    OBVIOUS
  <2>2. /\ DOMAIN g = fills /\ DOMAIN h = fills \cup {f} /\ h[f] \in Nat
        /\ \A x \in fills : g[x] \in Nat /\ h[x] = g[x]
    BY <1>1, <1>2, <2>1
  <2>3. IsFiniteSet(fills)
    BY DEF FillsOK
  <2>4. SumFunction(g) \in Nat /\ SumFunction(h) = SumFunction(g) + h[f]
    BY ONLY f \notin fills, <2>2, <2>3, SumOfMore
  <2>5. QED
    BY <1>1, <2>1, <2>4 DEF SumBase
<1>4. /\ SumQuote(fills) \in Nat /\ SumQuote(all) = SumQuote(fills) + f.quote
  <2>1. PICK g, h : g = [x \in fills |-> x.quote] /\ h = [x \in all |-> x.quote]
    OBVIOUS
  <2>2. /\ DOMAIN g = fills /\ DOMAIN h = fills \cup {f} /\ h[f] \in Nat
        /\ \A x \in fills : g[x] \in Nat /\ h[x] = g[x]
    BY <1>1, <1>2, <2>1
  <2>3. IsFiniteSet(fills)
    BY DEF FillsOK
  <2>4. SumFunction(g) \in Nat /\ SumFunction(h) = SumFunction(g) + h[f]
    BY ONLY f \notin fills, <2>2, <2>3, SumOfMore
  <2>5. QED
    BY <1>1, <2>1, <2>4 DEF SumQuote
<1>5. /\ SumFee(fills) \in Nat /\ SumFee(all) = SumFee(fills) + f.fee
  <2>1. PICK g, h : g = [x \in fills |-> x.fee] /\ h = [x \in all |-> x.fee]
    OBVIOUS
  <2>2. /\ DOMAIN g = fills /\ DOMAIN h = fills \cup {f} /\ h[f] \in Nat
        /\ \A x \in fills : g[x] \in Nat /\ h[x] = g[x]
    BY <1>1, <1>2, <2>1
  <2>3. IsFiniteSet(fills)
    BY DEF FillsOK
  <2>4. SumFunction(g) \in Nat /\ SumFunction(h) = SumFunction(g) + h[f]
    BY ONLY f \notin fills, <2>2, <2>3, SumOfMore
  <2>5. QED
    BY <1>1, <2>1, <2>4 DEF SumFee
<1>6. QED
  BY <1>1, <1>3, <1>4, <1>5

-----------------------------------------------------------------------------
(***************************************************************************)
(* Objects known by their hashes, and the fills of an order among them.    *)
(***************************************************************************)
\* Objects are known by their hashes, and what is new among them is none that
\* the others know or name.
Unique(objs) == \A o, p \in objs : o.hash = p.hash => o = p
Apart(all, objs) ==
  \A p \in all \ objs : \A o \in objs : p.hash # o.hash /\ p.hash \notin References(o)

\* A fill that names known objects only stands for the calls it did.
LEMMA CallsStay ==
  ASSUME NEW P, NEW Q, P \subseteq Q, Apart(Q, P), NEW f \in Of(P, "fill"),
         NEW call \in SettleCalls(Q, f.hash)
  PROVE  call \in SettleCalls(P, f.hash)
<1>1. f \in P /\ f.type = "fill"
  BY DEF Of
<1>2. PICK g \in Lookup(Q, "fill", f.hash) :
        \E m \in Lookup(Q, "order", g.makerOrder), t \in Lookup(Q, "order", g.takerOrder),
           ma \in Lookup(Q, "authorization", g.makerAuth), ta \in Lookup(Q, "authorization", g.takerAuth) :
          call = [fill |-> g, maker |-> m, taker |-> t, makerAuth |-> ma, takerAuth |-> ta,
                  key |-> FillKeyOf(g, m, t)]
  BY DEF SettleCalls
<1>3. g \in P /\ g.type = "fill" /\ g.hash = f.hash
  BY <1>1, <1>2 DEF Lookup, Of, Apart
<1>4. \A x \in Q : x.hash \in {g.makerOrder, g.takerOrder, g.makerAuth, g.takerAuth} => x \in P
  BY <1>3 DEF Apart, References
<1>5. g \in Lookup(P, "fill", f.hash)
  BY <1>3 DEF Lookup, Of
<1>6. /\ Lookup(Q, "order", g.makerOrder) \subseteq Lookup(P, "order", g.makerOrder)
      /\ Lookup(Q, "order", g.takerOrder) \subseteq Lookup(P, "order", g.takerOrder)
      /\ Lookup(Q, "authorization", g.makerAuth) \subseteq Lookup(P, "authorization", g.makerAuth)
      /\ Lookup(Q, "authorization", g.takerAuth) \subseteq Lookup(P, "authorization", g.takerAuth)
  BY <1>4 DEF Lookup, Of
<1>7. \E m \in Lookup(P, "order", g.makerOrder), t \in Lookup(P, "order", g.takerOrder),
         ma \in Lookup(P, "authorization", g.makerAuth), ta \in Lookup(P, "authorization", g.takerAuth) :
        call = [fill |-> g, maker |-> m, taker |-> t, makerAuth |-> ma, takerAuth |-> ta,
                key |-> FillKeyOf(g, m, t)]
  BY <1>2, <1>6
<1> DEFINE CallsOf(h) == {[fill |-> h, maker |-> m, taker |-> t, makerAuth |-> ma, takerAuth |-> ta,
                           key |-> FillKeyOf(h, m, t)] :
        m \in Lookup(P, "order", h.makerOrder), t \in Lookup(P, "order", h.takerOrder),
        ma \in Lookup(P, "authorization", h.makerAuth), ta \in Lookup(P, "authorization", h.takerAuth)}
<1>8. SettleCalls(P, f.hash) = UNION {CallsOf(h) : h \in Lookup(P, "fill", f.hash)}
  BY DEF SettleCalls
<1>9. call \in CallsOf(g)
  BY <1>7
<1> HIDE DEF CallsOf
<1>10. QED
  BY <1>5, <1>8, <1>9

\* What a call is made of.
LEMMA CallNames ==
  ASSUME NEW objs, Unique(objs), NEW f \in Of(objs, "fill"), NEW call \in SettleCalls(objs, f.hash)
  PROVE  /\ call.maker \in Of(objs, "order") /\ call.maker.hash = f.makerOrder
         /\ call.makerAuth \in Of(objs, "authorization") /\ call.makerAuth.hash = f.makerAuth
         /\ call.takerAuth \in Of(objs, "authorization") /\ call.takerAuth.hash = f.takerAuth
<1>1. PICK g \in Lookup(objs, "fill", f.hash) :
        \E m \in Lookup(objs, "order", g.makerOrder), t \in Lookup(objs, "order", g.takerOrder),
           ma \in Lookup(objs, "authorization", g.makerAuth), ta \in Lookup(objs, "authorization", g.takerAuth) :
          call = [fill |-> g, maker |-> m, taker |-> t, makerAuth |-> ma, takerAuth |-> ta,
                  key |-> FillKeyOf(g, m, t)]
  BY DEF SettleCalls
<1>2. g = f
  BY <1>1 DEF Lookup, Of, Unique
<1>3. QED
  BY <1>1, <1>2 DEF Lookup

\* An order whose fills are all known fits as it did.
LEMMA OrderStays ==
  ASSUME NEW P, NEW Q, P \subseteq Q, Apart(Q, P), FillsFit(P), NEW o \in Of(Q, "order"),
         o.trader = Me, FillsOf(Q, o.hash) # {}, \A f \in FillsOf(Q, o.hash) : f \in P
  PROVE  FitsWhole(Q, o)
<1>1. PICK fills : fills = FillsOf(Q, o.hash)
  OBVIOUS
<1>2. fills = FillsOf(P, o.hash)
  BY <1>1 DEF FillsOf, Of
<1>3. \A f \in fills : f \in Of(P, "fill") /\ o.hash \in References(f)
  BY <1>2 DEF FillsOf, Of, References
<1>4. o \in Of(P, "order")
  <2>1. PICK f \in fills : f \in P /\ o.hash \in References(f)
    BY <1>1, <1>3 DEF Of
  <2>2. QED
    BY <2>1 DEF Apart, Of
<1>5. FitsWhole(P, o)
  BY <1>1, <1>2, <1>4 DEF FillsFit
<1>6. \A f \in fills : \A call \in SettleCalls(Q, f.hash) :
        f.fee * BuyAuth(call).maxQuote <= BuyAuth(call).maxFee * f.quote
  BY <1>2, <1>3, <1>5, CallsStay DEF FitsWhole
<1>7. SumBase(fills) <= o.exclusiveBase
  BY <1>2, <1>5 DEF FitsWhole
<1>8. ASSUME o.side = "buy", NEW a \in Of(Q, "authorization"), a.hash = o.authHash
      PROVE  /\ SumFunction([f \in fills |-> f.quote]) <= a.maxQuote
             /\ SumFunction([f \in fills |-> f.fee]) <= a.maxFee
  <2>1. a \in Of(P, "authorization")
    BY <1>4, <1>8 DEF Apart, References, Of
  <2>2. QED
    BY <1>2, <1>5, <1>8, <2>1 DEF FitsWhole
<1>9. QED
  BY <1>1, <1>6, <1>7, <1>8, Zenon DEF FitsWhole

\* Objects more, none of them a fill of an order of the user's.
LEMMA FitKept ==
  ASSUME NEW P, NEW Q, P \subseteq Q, Apart(Q, P), FillsFit(P),
         \A o \in Of(Q, "order"), f \in Of(Q, "fill") :
           f.takerOrder = o.hash /\ o.trader = Me => f \in P
  PROVE  FillsFit(Q)
<1>1. ASSUME NEW o \in Of(Q, "order"), o.trader = Me, FillsOf(Q, o.hash) # {}
      PROVE  FitsWhole(Q, o)
  <2>1. \A f \in FillsOf(Q, o.hash) : f \in P
    BY <1>1 DEF FillsOf
  <2>2. QED
    BY <1>1, <2>1, OrderStays
<1>2. QED
  BY <1>1 DEF FillsFit

\* One fill more, of an order of the user's.
LEMMA FillFits ==
  ASSUME NEW P, NEW Q, NEW f, Q = P \cup {f}, f.type = "fill", Apart(Q, P), Unique(Q), FillsFit(P),
         f \notin P, NEW o \in Of(P, "order"), f.takerOrder = o.hash,
         \A call \in SettleCalls(Q, f.hash) :
           f.fee * BuyAuth(call).maxQuote <= BuyAuth(call).maxFee * f.quote,
         NEW fills, fills = FillsOf(P, o.hash),
         SumBase(fills \cup {f}) <= o.exclusiveBase,
         o.side = "buy" => \A a \in Of(P, "authorization") : a.hash = o.authHash =>
            SumQuote(fills \cup {f}) <= a.maxQuote /\ SumFee(fills \cup {f}) <= a.maxFee
  PROVE  FillsFit(Q)
<1>1. ASSUME NEW p \in Of(Q, "order"), p.trader = Me, FillsOf(Q, p.hash) # {}, p # o
      PROVE  FitsWhole(Q, p)
  <2>1. p.hash # o.hash
    BY <1>1 DEF Unique, Of
  <2>2. \A g \in FillsOf(Q, p.hash) : g \in P
    BY <2>1 DEF FillsOf, Of
  <2>3. QED
    BY <1>1, <2>2, OrderStays
<1>2. ASSUME o.trader = Me
      PROVE  FitsWhole(Q, o)
  <2>1. PICK all : all = fills \cup {f}
    OBVIOUS
  <2>2. all = FillsOf(Q, o.hash)
    BY <2>1 DEF FillsOf, Of
  <2>3. ASSUME NEW g \in all, NEW call \in SettleCalls(Q, g.hash)
        PROVE  g.fee * BuyAuth(call).maxQuote <= BuyAuth(call).maxFee * g.quote
    <3>1. CASE g = f
      BY <2>3, <3>1
    <3>2. CASE g \in fills
      <4>1. FitsWhole(P, o) /\ g \in Of(P, "fill")
        BY <1>2, <3>2 DEF FillsFit, FillsOf
      <4>2. call \in SettleCalls(P, g.hash)
        BY <2>3, <4>1, CallsStay
      <4>3. QED
        BY <3>2, <4>1, <4>2 DEF FitsWhole
    <3>3. QED
      BY <2>1, <3>1, <3>2
  <2>4. \A a \in Of(Q, "authorization") : a \in Of(P, "authorization")
    BY DEF Of
  <2>5. o.side = "buy" => \A a \in Of(Q, "authorization") : a.hash = o.authHash =>
          /\ SumFunction([g \in all |-> g.quote]) <= a.maxQuote
          /\ SumFunction([g \in all |-> g.fee]) <= a.maxFee
    BY <2>1, <2>4 DEF SumQuote, SumFee
  <2>6. SumBase(all) <= o.exclusiveBase
    BY <2>1
  <2>7. QED
    BY <2>2, <2>3, <2>5, <2>6, Zenon DEF FitsWhole
<1>3. QED
  BY <1>1, <1>2 DEF FillsFit

-----------------------------------------------------------------------------
(***************************************************************************)
(* The third layer: what is in hand, the books, and the fills published.   *)
(***************************************************************************)
\* What the user has made and not published.
InHand ==
  (IF Signing THEN {session.auth, session.order} ELSE {})
  \cup (IF session.pc = "revoke" THEN {session.revocation} ELSE {})
  \cup (IF session.pc = "receipt" THEN {session.receipt} ELSE {})

\* What a published object names is published, or older than everything here.
Resolves(o) == \A h \in References(o) : h < InitialHash \/ \E p \in Published : p.hash = h
HashesOK ==
  /\ InitialHash <= next
  /\ \A p \in InHand : InitialHash <= p.hash
  /\ Unique(Published \cup InHand)
  /\ \A o \in Published : Resolves(o)

\* The book's entries are orders, and authorizations, of the nodes.
EntryKnown(e) ==
  /\ {"hash", "eip", "side", "price", "auth"} \subseteq DOMAIN e
  /\ e.auth \in Of(Published, "authorization")
  /\ \E o \in Of(Published, "order") :
       o.hash = e.hash /\ o.eip = e.eip /\ o.side = e.side /\ o.price = e.price
BookKnown(orders) == \A e \in orders : EntryKnown(e)
BooksKnown ==
  BookKnown(view.orders) /\ (refresh.pc = "capacity" => BookKnown(refresh.derived.orders))

\* The legs that are to become fills, and what the user's action has in hand.
LegsFit(legs, side, price) ==
  \A i \in DOMAIN legs :
    /\ EntryKnown(legs[i].order) /\ legs[i].order.side = Opposite(side)
    /\ legs[i].quote = QuoteFor(legs[i].base, legs[i].price)
    /\ side = "buy" => legs[i].price <= price
PlacedFit(s) ==
  /\ "side" \in DOMAIN s /\ s.side \in {"buy", "sell"}
  /\ s.filled <= s.base /\ Runs(s.m.legs, s.filled)
  /\ LegsFit(s.m.legs, s.side, s.price)
  /\ s.side = "buy" => s.maxFee = MaxFeeForOrder(QuoteFor(s.base, s.price))

\* The order, its authorization and the fills published so far.
WithinTerms(o, a, fills) ==
  o.side = "buy" =>
    /\ a.maxQuote = QuoteFor(o.base, o.price) /\ a.maxFee = MaxFeeForOrder(a.maxQuote)
    /\ Scale * SumQuote(fills) <= o.price * SumBase(fills)
    /\ FeeDen * SumFee(fills) <= FeeNum * SumQuote(fills)
SignedFit(s, fills) ==
  /\ s.order.side \in {"buy", "sell"} /\ s.order.authHash = s.auth.hash
  /\ s.order.exclusiveBase <= s.order.base
  /\ LegsFit(s.legs, s.order.side, s.order.price)
  /\ \E rest \in Nat : Runs(s.legs, rest) /\ SumBase(fills) + rest <= s.order.exclusiveBase
  /\ WithinTerms(s.order, s.auth, fills)
  /\ s.pc \in {"order", "fill"} => s.auth \in Published
  /\ s.pc = "fill" => s.order \in Published
HandFit ==
  /\ session.pc \in {"wrap", "reset", "approve", "sign"} => PlacedFit(session)
  /\ Signing => SignedFit(session, FillsOf(Published, session.order.hash))

FormsSided ==
  /\ \A form \in left.forms \cup left.theirs :
       form.side \in {"buy", "sell"} /\ form.limit <= MaxPrice
  /\ \A form \in left.theirs : form.limit > 0

FitInv == HashesOK /\ FillsFit(Published) /\ BooksKnown /\ HandFit /\ FormsSided

-----------------------------------------------------------------------------
LEMMA EntryStays ==
  ASSUME NEW e, EntryKnown(e), Published \subseteq Published'
  PROVE  EntryKnown(e)'
  BY DEF EntryKnown, Of

LEMMA LegsStay ==
  ASSUME NEW legs, NEW side, NEW price, LegsFit(legs, side, price), Published \subseteq Published'
  PROVE  LegsFit(legs, side, price)'
<1>1. \A i \in DOMAIN legs : EntryKnown(legs[i].order)'
  BY EntryStays DEF LegsFit
<1>2. QED
  BY <1>1 DEF LegsFit

LEMMA BooksStay ==
  ASSUME BooksKnown, Published \subseteq Published', view' = view,
         refresh' = refresh \/ refresh'.pc # "capacity"
  PROVE  BooksKnown'
<1>1. \A e \in view.orders : EntryKnown(e)'
  BY EntryStays DEF BooksKnown, BookKnown
<1>2. refresh' = refresh /\ refresh.pc = "capacity" => \A e \in refresh.derived.orders : EntryKnown(e)'
  BY EntryStays DEF BooksKnown, BookKnown
<1>3. BookKnown(view.orders)'
  BY <1>1 DEF BookKnown
<1>4. ASSUME refresh'.pc = "capacity"
      PROVE  BookKnown(refresh.derived.orders)'
  BY <1>2, <1>4 DEF BookKnown
<1>5. QED
  BY <1>3, <1>4 DEF BooksKnown

LEMMA PlacedStays ==
  ASSUME NEW s, PlacedFit(s), Published \subseteq Published'
  PROVE  PlacedFit(s)'
<1>1. LegsFit(s.m.legs, s.side, s.price)'
  BY LegsStay DEF PlacedFit
<1>2. QED
  BY <1>1 DEF PlacedFit

LEMMA SignedStays ==
  ASSUME NEW s, NEW fills, SignedFit(s, fills), Published \subseteq Published'
  PROVE  SignedFit(s, fills)'
<1>1. LegsFit(s.legs, s.order.side, s.order.price)'
  BY LegsStay DEF SignedFit
<1>2. QED
  BY <1>1 DEF SignedFit, WithinTerms

-----------------------------------------------------------------------------
\* What is made has a hash of its own.
Fresh(new) == Unique(new) /\ \A p \in new : p.hash \in Nat /\ next <= p.hash

LEMMA HandHashes ==
  ASSUME WorldInv
  PROVE  /\ next \in Nat /\ \A p \in Published \cup InHand : p.hash \in Nat /\ p.hash < next
         /\ IsFiniteSet(Published)
<1>1. next \in Nat
  BY DEF WorldInv, ClockOK
<1>2. IsFiniteSet(Published) /\ \A p \in Published : ObjOK(p, next)
  BY DEF WorldInv, ObjectsOK
<1>3. \A p \in InHand : ObjOK(p, next)
  BY DEF WorldInv, HandOK, SignedOK, InHand
<1>4. QED
  BY <1>1, <1>2, <1>3 DEF ObjOK

LEMMA HashesKept ==
  ASSUME WorldInv, HashesOK, NEW objs, NEW new, Adds(objs), next' \in Nat, next <= next',
         Fresh(new), objs \subseteq InHand \cup new, InHand' \subseteq InHand \cup new,
         \A p \in objs : Resolves(p)'
  PROVE  HashesOK' /\ Apart(Published', Published)
<1>1. PICK had : had = Published \cup InHand
  OBVIOUS
<1>2. PICK n \in Nat : n = next
  BY HandHashes
<1>3. \A p \in had : p.hash \in Nat /\ p.hash < n
  BY <1>1, <1>2, HandHashes
<1>4. \A p \in new : p.hash \in Nat /\ n <= p.hash
  BY <1>2 DEF Fresh
<1>5. Unique(had \cup new)
  BY <1>1, <1>3, <1>4 DEF Unique, Fresh, HashesOK
<1>6. /\ Published' \cup InHand' \subseteq had \cup new /\ Published \subseteq Published'
      /\ Published' \subseteq Published \cup objs
  BY <1>1 DEF Adds
<1>7. Unique(Published' \cup InHand')
  BY <1>5, <1>6 DEF Unique
<1>8. InitialHash \in Nat /\ InitialHash <= n
  BY <1>2, AppAssumption DEF HashesOK
<1>9. \A p \in InHand' : InitialHash <= p.hash
  BY <1>4, <1>8 DEF HashesOK
<1>10. \A o \in Published' : Resolves(o)'
  BY <1>6 DEF HashesOK, Resolves
<1>11. Apart(Published', Published)
  <2>1. ASSUME NEW p \in Published' \ Published, NEW o \in Published
        PROVE  p.hash # o.hash /\ p.hash \notin References(o)
    <3>1. p \in had \cup new /\ o \in had \cup new /\ o \in had
      BY <1>1, <1>6
    <3>2. p.hash # o.hash
      BY <1>5, <2>1, <3>1 DEF Unique
    <3>3. InitialHash <= p.hash /\ p.hash \in Nat
      <4>1. p \in InHand \cup new
        BY <1>6
      <4>2. CASE p \in InHand
        BY <1>1, <1>3, <4>2 DEF HashesOK
      <4>3. CASE p \in new
        BY <1>4, <1>8, <4>3
      <4>4. QED
        BY <4>1, <4>2, <4>3
    <3>4. ASSUME p.hash \in References(o)
          PROVE  FALSE
      <4>1. p.hash < InitialHash \/ \E q \in Published : q.hash = p.hash
        BY <3>4 DEF HashesOK, Resolves
      <4>2. PICK q \in Published : q.hash = p.hash
        BY <1>8, <3>3, <4>1
      <4>3. q = p
        BY <1>1, <1>5, <3>1, <4>2 DEF Unique
      <4>4. QED
        BY <2>1, <4>2, <4>3
    <3>5. QED
      BY <3>2, <3>4
  <2>2. QED
    BY <2>1 DEF Apart
<1>12. QED
  BY <1>2, <1>7, <1>8, <1>9, <1>10, <1>11 DEF HashesOK

\* None of these is a fill of an order of the user's.
NoneOfMine(objs) ==
  \A f \in Of(objs, "fill") :
    /\ f.takerOrder \in Nat /\ next <= f.takerOrder
    /\ \A o \in Of(objs, "order") : o.hash = f.takerOrder => o.trader # Me

LEMMA OthersFit ==
  ASSUME WorldInv, FillsFit(Published), NEW objs, Adds(objs), Apart(Published', Published),
         NoneOfMine(objs)
  PROVE  /\ FillsFit(Published')
         /\ \A p \in Published \cup InHand : FillsOf(Published', p.hash) = FillsOf(Published, p.hash)
<1>1. PICK all : all = Published'
  OBVIOUS
<1>2. Published \subseteq all /\ all \subseteq Published \cup objs
  BY <1>1 DEF Adds
<1>3. PICK n \in Nat : n = next
  BY HandHashes
<1>4. \A p \in Published \cup InHand : p.hash \in Nat /\ p.hash < n
  BY <1>3, HandHashes
<1>5. ASSUME NEW f \in Of(all, "fill"), f \notin Published
      PROVE  /\ f.takerOrder \in Nat /\ n <= f.takerOrder
             /\ \A o \in Of(objs, "order") : o.hash = f.takerOrder => o.trader # Me
  <2>1. f \in Of(objs, "fill")
    BY <1>2, <1>5 DEF Of
  <2>2. QED
    BY <1>3, <2>1 DEF NoneOfMine
<1>6. ASSUME NEW o \in Of(all, "order"), NEW f \in Of(all, "fill"),
             f.takerOrder = o.hash, o.trader = Me
      PROVE  f \in Published
  <2>1. SUFFICES ASSUME f \notin Published PROVE FALSE
    OBVIOUS
  <2>2. n <= o.hash /\ o.hash \in Nat
    BY <1>5, <1>6, <2>1
  <2>3. o \in Of(objs, "order")
    BY <1>2, <1>4, <2>2 DEF Of
  <2>4. QED
    BY <1>5, <1>6, <2>1, <2>3
<1>7. FillsFit(all)
  BY <1>1, <1>2, <1>6, FitKept
<1>8. ASSUME NEW p \in Published \cup InHand
      PROVE  FillsOf(all, p.hash) = FillsOf(Published, p.hash)
  <2>1. \A f \in FillsOf(all, p.hash) : f \in Published
    BY <1>4, <1>5 DEF FillsOf
  <2>2. QED
    BY <1>2, <2>1 DEF FillsOf, Of
<1>9. QED
  BY <1>1, <1>7, <1>8

-----------------------------------------------------------------------------
\* The user's action is where it was, or has nothing in hand that matters here.
HandRests ==
  session' = session \/ session'.pc \in {"idle", "await", "finish", "onchain", "fit", "send"}

LEMMA HandKept ==
  ASSUME HandRests, HandFit, Published \subseteq Published',
         Signing => FillsOf(Published', session.order.hash) = FillsOf(Published, session.order.hash)
  PROVE  HandFit' /\ InHand' \subseteq InHand
<1>1. PICK s : s = session
  OBVIOUS
<1>2. PICK fills : fills = FillsOf(Published, s.order.hash)
  OBVIOUS
<1>3. CASE session'.pc \in {"idle", "await", "finish", "onchain", "fit", "send"}
  BY <1>3 DEF HandFit, InHand, Signing
<1>4. CASE session' = session
  <2>1. session' = s
    BY <1>1, <1>4
  <2>2. s.pc \in {"wrap", "reset", "approve", "sign"} => PlacedFit(s)'
    BY <1>1, PlacedStays DEF HandFit
  <2>3. s.pc \in {"auth", "order", "fill"} => SignedFit(s, fills)'
    BY <1>1, <1>2, SignedStays DEF HandFit, Signing
  <2>4. s.pc \in {"auth", "order", "fill"} => FillsOf(Published', s.order.hash) = fills
    BY <1>1, <1>2 DEF Signing
  <2>5. session'.pc \in {"wrap", "reset", "approve", "sign"} => PlacedFit(session)'
    BY <2>1, <2>2
  <2>6. Signing' => SignedFit(session, FillsOf(Published, session.order.hash))'
    BY <2>1, <2>3, <2>4 DEF Signing
  <2>7. InHand' = InHand
    BY <1>4 DEF InHand, Signing
  <2>8. QED
    BY <2>5, <2>6, <2>7 DEF HandFit
<1>5. QED
  BY <1>3, <1>4 DEF HandRests

LEMMA FormsKept ==
  ASSUME FormsSided, LeftOK, left' = left \/ \E k : k \notin {"forms", "theirs"} /\ Spend(k)
  PROVE  FormsSided'
<1>1. left'.forms = left.forms /\ left'.theirs = left.theirs
  BY DEF Spend, LeftOK
<1>2. QED
  BY <1>1 DEF FormsSided

Spends == left' = left \/ \E k : k \notin {"forms", "theirs"} /\ Spend(k)

\* A step that publishes no fill of the user's.
LEMMA FitStep ==
  ASSUME WorldInv, FitInv, NEW objs, NEW new, Adds(objs), next' \in Nat, next <= next',
         Fresh(new), objs \subseteq InHand \cup new, \A p \in objs : Resolves(p)',
         NoneOfMine(objs), BooksKnown', Spends,
         HandRests \/ (HandFit' /\ InHand' \subseteq InHand \cup new)
  PROVE  FitInv'
<1>1. Published \subseteq Published'
  BY DEF Adds
<1>2. InHand' \subseteq InHand \cup new
  <2>1. CASE session' = session
    BY <2>1 DEF InHand, Signing
  <2>2. CASE session'.pc \in {"idle", "await", "finish", "onchain", "fit", "send"}
    BY <2>2 DEF InHand, Signing
  <2>3. QED
    BY <2>1, <2>2 DEF HandRests
<1>3. HashesOK' /\ Apart(Published', Published)
  BY <1>2, HashesKept DEF FitInv
<1>4. /\ FillsFit(Published')
      /\ \A p \in Published \cup InHand : FillsOf(Published', p.hash) = FillsOf(Published, p.hash)
  BY <1>3, OthersFit DEF FitInv
<1>5. HandFit'
  <2>1. Signing => session.order \in Published \cup InHand
    BY DEF InHand
  <2>2. HandRests => HandFit'
    BY <1>1, <1>4, <2>1, HandKept DEF FitInv
  <2>3. QED
    BY <2>2
<1>6. FormsSided'
  BY FormsKept DEF FitInv, WorldInv, Spends
<1>7. FillsFit(Published)'
  BY <1>4
<1>8. QED
  BY <1>3, <1>5, <1>6, <1>7 DEF FitInv

\* A step that publishes nothing and makes nothing.
LEMMA RestFit ==
  ASSUME WorldInv, FitInv, stored' = stored, next' \in Nat, next <= next', HandRests, Spends,
         BooksKnown' \/ (view' = view /\ (refresh' = refresh \/ refresh'.pc # "capacity"))
  PROVE  FitInv'
<1>1. PICK none : none = {}
  OBVIOUS
<1>2. Adds(none) /\ Published \subseteq Published'
  BY <1>1, SameAdds DEF Adds
<1>3. BooksKnown'
  BY <1>2, BooksStay DEF FitInv
<1>4. Fresh(none) /\ NoneOfMine(none)
  BY <1>1 DEF Fresh, Unique, NoneOfMine, Of
<1>5. none \subseteq InHand \cup none /\ \A p \in none : Resolves(p)'
  BY <1>1
<1>6. QED
  BY <1>2, <1>3, <1>4, <1>5, FitStep

-----------------------------------------------------------------------------
(***************************************************************************)
(* Steps that publish nothing.                                             *)
(***************************************************************************)
LEMMA EntriesKnown ==
  ASSUME NEW objs \in SUBSET Published, NEW chain, NEW now
  PROVE  BookKnown(DeriveState(objs, chain, now).orders)
<1>1. PICK r : r = Reading(objs)
  OBVIOUS
<1>2. ASSUME NEW e \in DeriveState(objs, chain, now).orders
      PROVE  EntryKnown(e)
  <2>1. PICK fills : \E x \in r.canonical : e = RestingOrder(x, fills, r, chain, now)
    <3> DEFINE fills == {FillView(x, r, chain, now) : x \in Counted(r)}
    <3>1. e \in {RestingOrder(x, fills, r, chain, now) : x \in r.canonical}
      BY <1>1, <1>2 DEF DeriveState
    <3> HIDE DEF fills
    <3>2. QED
      BY <3>1
  <2>2. PICK x \in r.canonical : e = RestingOrder(x, fills, r, chain, now)
    BY <2>1
  <2>3. /\ {"hash", "eip", "side", "price", "auth"} \subseteq DOMAIN e
        /\ e.hash = x.hash /\ e.eip = x.eip /\ e.side = x.side /\ e.price = x.price
        /\ e.auth = AuthOf(x, r)
    BY <2>2 DEF RestingOrder
  <2>4. x \in Of(objs, "order") /\ AuthOf(x, r) \in Of(objs, "authorization")
    BY <1>1, ReadingHolds
  <2>5. QED
    BY <2>3, <2>4 DEF EntryKnown, Of
<1>3. QED
  BY <1>2 DEF BookKnown

LEMMA FundedKnown ==
  ASSUME NEW orders, BookKnown(orders), NEW capacity
  PROVE  BookKnown(FundedWith(orders, capacity))
<1>1. \E backed : FundedWith(orders, capacity) =
        {IF IsLive(o) THEN [o EXCEPT !.funded = o.hash \in backed] ELSE o : o \in orders}
  BY Zenon DEF FundedWith
<1>2. PICK backed : FundedWith(orders, capacity) =
        {IF IsLive(o) THEN [o EXCEPT !.funded = o.hash \in backed] ELSE o : o \in orders}
  BY <1>1
<1>3. ASSUME NEW e \in FundedWith(orders, capacity)
      PROVE  EntryKnown(e)
  <2>1. PICK o \in orders : e = o \/ e = [o EXCEPT !.funded = o.hash \in backed]
    BY <1>2, <1>3
  <2>2. EntryKnown(o) /\ {"hash", "eip", "side", "price", "auth"} \subseteq DOMAIN o
    BY DEF BookKnown, EntryKnown
  <2>3. /\ DOMAIN e = DOMAIN o
        /\ \A field \in {"hash", "eip", "side", "price", "auth"} : e[field] = o[field]
    BY <2>1, <2>2
  <2>4. e.hash = o.hash /\ e.eip = o.eip /\ e.side = o.side /\ e.price = o.price
        /\ e.auth = o.auth
    BY <2>3
  <2>5. QED
    BY <2>2, <2>3, <2>4 DEF EntryKnown
<1>4. QED
  BY <1>3 DEF BookKnown

LEMMA LaterNext ==
  ASSUME WorldInv
  PROVE  next \in Nat /\ next <= next /\ next + 1 \in Nat /\ next <= next + 1
  BY DEF WorldInv, ClockOK

LEMMA RefreshFit ==
  ASSUME AppInv, WorldInv, FitInv, Interval \/ RefreshStep
  PROVE  FitInv'
<1>1. /\ stored' = stored /\ next' = next
  BY DEF Interval, RefreshStep, ListObjects, ReadUsed, ReadFilled, ReadBound, ShowBook, nodeVars
<1>2. Spends
  <2>1. \A lost : Lost(lost) => left' = left \/ Spend("faults")
    BY DEF Lost
  <2>2. \A slow : TooSlow(slow) => left' = left \/ Spend("faults")
    BY DEF TooSlow
  <2>3. left' = left \/ Spend("faults")
    BY <2>1, <2>2 DEF Interval, RefreshStep, ListObjects, ReadUsed, ReadFilled, ReadBound, ShowBook
  <2>4. QED
    BY <2>3 DEF Spends
<1>3. RefreshEnds => /\ session' = session \/ session'.pc = "idle"
                     /\ refresh'.pc \in {"idle", "list"}
  BY DEF RefreshEnds, Quiet
<1>4. HandRests
  <2>1. session' = session \/ session'.pc = "idle"
    BY <1>3 DEF Interval, RefreshStep, ListObjects, ReadUsed, ReadFilled, ReadBound, ShowBook, RefreshFails
  <2>2. QED
    BY <2>1 DEF HandRests
<1>5. CASE Interval \/ ListObjects \/ ReadUsed \/ ReadFilled
  <2>1. CASE Interval
    <3>1. view' = view /\ refresh'.pc = "list"
      BY <2>1 DEF Interval, RefreshStarts
    <3>2. QED
      BY <1>1, <1>2, <1>4, <3>1, LaterNext, RestFit
  <2>2. CASE ListObjects
    <3>1. view' = view /\ refresh'.pc \in {"idle", "list", "used"}
      BY <1>3, <2>2 DEF ListObjects, RefreshFails
    <3>2. QED
      BY <1>1, <1>2, <1>4, <3>1, LaterNext, RestFit
  <2>3. CASE ReadUsed
    <3>1. view' = view /\ refresh'.pc = "filled"
      BY <2>3 DEF ReadUsed, AppInv, RefreshInv
    <3>2. QED
      BY <1>1, <1>2, <1>4, <3>1, LaterNext, RestFit
  <2>4. CASE ReadFilled
    <3>1. view' = view /\ refresh'.pc = "bound"
      BY <2>4 DEF ReadFilled
    <3>2. QED
      BY <1>1, <1>2, <1>4, <3>1, LaterNext, RestFit
  <2>5. QED
    BY <1>5, <2>1, <2>2, <2>3, <2>4
<1>6. CASE ReadBound
  <2>1. PICK chain : refresh'.derived = DeriveState(refresh.objs, chain, clock)
    BY <1>6, BookRead
  <2>2. PICK objs : objs = refresh.objs
    OBVIOUS
  <2>3. objs \in SUBSET Published
    BY <1>6, <2>2 DEF ReadBound, AppInv, RefreshInv
  <2>4. PICK orders : orders = DeriveState(objs, chain, clock).orders
    OBVIOUS
  <2>5. \A e \in orders : EntryKnown(e)
    BY <2>3, <2>4, EntriesKnown DEF BookKnown
  <2>6. Published \subseteq Published' /\ view' = view
    BY <1>1, <1>6 DEF Published, ReadBound
  <2>7. refresh'.derived.orders = orders
    BY <2>1, <2>2, <2>4
  <2>8. BookKnown(refresh.derived.orders)'
    <3>1. \A e \in orders : EntryKnown(e)'
      BY <2>5, <2>6, EntryStays
    <3>2. QED
      BY <2>7, <3>1 DEF BookKnown
  <2>9. BookKnown(view.orders)'
    <3>1. \A e \in view.orders : EntryKnown(e)'
      BY <2>6, EntryStays DEF FitInv, BooksKnown, BookKnown
    <3>2. QED
      BY <2>6, <3>1 DEF BookKnown
  <2>10. QED
    BY <1>1, <1>2, <1>4, <2>8, <2>9, LaterNext, RestFit DEF BooksKnown
<1>7. CASE ShowBook
  <2>1. refresh.pc = "capacity" /\ refresh'.pc \in {"idle", "list"}
    BY <1>3, <1>7 DEF ShowBook
  <2>2. PICK lost : view' = [refresh.derived EXCEPT !.orders = FundedWith(@, Capacity(lost))]
    BY <1>7 DEF ShowBook
  <2>3. PICK orders : orders = refresh.derived.orders
    OBVIOUS
  <2>4. PICK capacity : capacity = Capacity(lost)
    OBVIOUS
  <2>5. "orders" \in DOMAIN refresh.derived
    BY <2>1 DEF WorldInv, RefreshOK
  <2>6. view'.orders = FundedWith(orders, capacity)
    BY <2>2, <2>3, <2>4, <2>5
  <2>7. BookKnown(orders)
    BY <2>1, <2>3 DEF FitInv, BooksKnown
  <2>8. PICK book : book = FundedWith(orders, capacity)
    OBVIOUS
  <2>9. \A e \in book : EntryKnown(e)
    BY <2>7, <2>8, FundedKnown DEF BookKnown
  <2>10. Published \subseteq Published'
    BY <1>1 DEF Published
  <2>11. BooksKnown'
    <3>1. \A e \in book : EntryKnown(e)'
      BY <2>9, <2>10, EntryStays
    <3>2. QED
      BY <2>1, <2>6, <2>8, <3>1 DEF BooksKnown, BookKnown
  <2>12. QED
    BY <1>1, <1>2, <1>4, <2>11, LaterNext, RestFit
<1>8. QED
  BY <1>5, <1>6, <1>7 DEF RefreshStep

\* The steps that leave the user with nothing in hand, or with what they had.
LEMMA QuietFit ==
  ASSUME AppInv, WorldInv, FitInv,
         \/ \E hash : SettleNow(hash)
         \/ Unwrap \/ RevokeOnChain \/ CheckFits \/ Finish \/ Decline \/ Tick
         \/ \E n : NodeDown(n) \/ NodeUp(n)
  PROVE  FitInv'
<1>1. stored' = stored /\ next' = next /\ view' = view
  BY DEF SettleNow, Unwrap, RevokeOnChain, CheckFits, Finish, Decline, Tick, NodeDown, NodeUp, nodeVars, tabVars
<1>2. refresh' = refresh \/ refresh'.pc # "capacity"
  BY DEF SettleNow, Unwrap, RevokeOnChain, CheckFits, Finish, Decline, Tick, NodeDown, NodeUp, tabVars,
     RefreshCalled, RefreshStarts
<1>3. Spends
  <2>1. left' = left \/ \E k \in {"closes", "faults", "ticks"} : Spend(k)
    BY DEF SettleNow, Unwrap, RevokeOnChain, CheckFits, Finish, Decline, Tick, NodeDown, NodeUp
  <2>2. QED
    BY <2>1 DEF Spends
<1>4. HandRests
  <2>1. CASE \E hash : SettleNow(hash)
    BY <2>1 DEF SettleNow, HandRests
  <2>2. CASE RevokeOnChain
    BY <2>2, WentTo DEF RevokeOnChain, HandRests, AppInv
  <2>3. CASE CheckFits
    <3>1. \E pc \in {"finish", "send"} : Goto(pc)
      BY <2>3 DEF CheckFits
    <3>2. QED
      BY <3>1, WentTo DEF HandRests, AppInv
  <2>4. CASE Finish \/ Decline
    BY <2>4 DEF Finish, Decline, Quiet, HandRests
  <2>5. CASE Unwrap \/ Tick \/ \E n : NodeDown(n) \/ NodeUp(n)
    BY <2>5 DEF Unwrap, Tick, NodeDown, NodeUp, HandRests
  <2>6. QED
    BY <2>1, <2>2, <2>3, <2>4, <2>5
<1>5. QED
  BY <1>1, <1>2, <1>3, <1>4, LaterNext, RestFit

LEMMA ReloadFit ==
  ASSUME AppInv, WorldInv, FitInv, Reload
  PROVE  FitInv'
<1>1. /\ stored' = stored /\ next' = next /\ view'.orders = {} /\ refresh'.pc = "list"
      /\ session'.pc = "idle" /\ Spend("faults")
  BY DEF Reload, NoState, Quiet
<1>2. BooksKnown'
  BY <1>1 DEF BooksKnown, BookKnown
<1>3. HandRests /\ Spends
  BY <1>1 DEF HandRests, Spends
<1>4. QED
  BY <1>1, <1>2, <1>3, LaterNext, RestFit

\* What a match of a book becomes, at the price the order gets.
LEMMA MatchedFits ==
  ASSUME NEW book, BookOK(book), BookKnown(book), NEW side \in {"buy", "sell"},
         NEW amount \in Nat, NEW limit \in Nat, NEW me, NEW now,
         NEW m, m = MatchOrder(book, side, amount, limit, me, now),
         NEW price, price = IF limit = 0 THEN WorstPrice(m) ELSE limit
  PROVE  /\ LegsFit(m.legs, side, price)
         /\ Runs(m.legs, Filled(m, amount)) /\ Filled(m, amount) <= amount
<1>1. IsFiniteSet(book) /\ \A o \in book : OfferNumbers(o)
  BY DEF BookOK, EntryOK
<1>2. PICK offers : offers = Matchable(book, side, limit, now)
  OBVIOUS
<1>3. m \in Matches(book, amount)
  BY <1>1, MatchTakesLegs
<1>4. MatchFit(m, amount, offers) /\ (side = "buy" => IsRising(m))
  BY <1>1, <1>2, MatchFits
<1>5. PICK legs : legs = m.legs
  OBVIOUS
<1>6. legs \in Seq(Legs(book)) /\ m.left \in 0..amount
  BY <1>3, <1>5 DEF Matches
<1>7. Runs(legs, Filled(m, amount)) /\ Filled(m, amount) <= amount
  BY <1>4, <1>5, <1>6 DEF MatchFit, Filled
<1>8. ASSUME NEW i \in DOMAIN legs
      PROVE  /\ EntryKnown(legs[i].order) /\ legs[i].order.side = Opposite(side)
             /\ legs[i].quote = QuoteFor(legs[i].base, legs[i].price)
             /\ side = "buy" => legs[i].price <= price
  <2>1. legs[i] \in Legs(book)
    BY <1>6
  <2>2. PICK l : l = legs[i] /\ l.price = l.order.price /\ l.quote = QuoteFor(l.base, l.price)
    BY <2>1 DEF Legs
  <2>3. l.order \in offers
    BY <1>4, <1>5, <2>2 DEF MatchFit
  <2>4. /\ l.order \in book /\ l.order.side = Opposite(side)
        /\ limit = 0 \/ (side = "buy" => l.order.price <= limit)
    BY <1>2, <2>3 DEF Matchable
  <2>5. EntryKnown(l.order)
    BY <2>4 DEF BookKnown
  <2>6. side = "buy" /\ limit = 0 => l.price <= price
    BY <1>4, <1>5, <2>2 DEF IsRising, RisesTo
  <2>7. QED
    BY <2>2, <2>4, <2>5, <2>6
<1>9. LegsFit(legs, side, price)
  BY <1>8 DEF LegsFit
<1>10. QED
  BY <1>5, <1>7, <1>9

\* An action of the user's that publishes nothing yet.
LEMMA PlacedStep ==
  ASSUME WorldInv, FitInv, UNCHANGED <<stored, next, view, refresh>>, Spends,
         session'.pc \in {"wrap", "reset", "approve", "sign"},
         NEW s, s = session', PlacedFit(s)
  PROVE  FitInv'
<1>1. PICK none : none = {}
  OBVIOUS
<1>2. Adds(none) /\ Published \subseteq Published'
  BY <1>1, SameAdds DEF Adds
<1>3. BooksKnown'
  BY <1>2, BooksStay DEF FitInv
<1>4. Fresh(none) /\ NoneOfMine(none)
  BY <1>1 DEF Fresh, Unique, NoneOfMine, Of
<1>5. none \subseteq InHand \cup none /\ \A p \in none : Resolves(p)'
  BY <1>1
<1>6. PlacedFit(s)'
  BY <1>2, PlacedStays
<1>7. HandFit' /\ InHand' = {}
  BY <1>6 DEF HandFit, InHand, Signing
<1>8. next' \in Nat /\ next <= next'
  BY LaterNext
<1>9. QED
  BY <1>2, <1>3, <1>4, <1>5, <1>7, <1>8, FitStep

LEMMA PlaceFit ==
  ASSUME AppInv, WorldInv, FitInv, NEW form \in left.forms, Place(form)
  PROVE  FitInv'
<1>1. UNCHANGED <<stored, next, view, refresh>> /\ Spends
  BY DEF Place, chainVars, nodeVars, tabVars, Spends
<1>2. PICK side, amount, limit : side = form.side /\ amount = form.amount /\ limit = form.limit
  OBVIOUS
<1>3. side \in {"buy", "sell"} /\ amount \in Nat /\ limit \in Nat
  BY <1>2 DEF FitInv, FormsSided, WorldInv, LeftOK, FormsOK
<1>4. PICK book : book = view.orders
  OBVIOUS
<1>5. BookOK(book) /\ BookKnown(book)
  BY <1>4 DEF FitInv, BooksKnown, WorldInv, TabOK
<1>6. PICK m : m = MatchOrder(book, side, amount, limit, Me, clock)
  OBVIOUS
<1>7. PICK price : price = IF limit = 0 THEN WorstPrice(m) ELSE limit
  OBVIOUS
<1>8. PICK filled : filled = Filled(m, amount)
  OBVIOUS
<1>9. LegsFit(m.legs, side, price) /\ Runs(m.legs, filled) /\ filled <= amount /\ filled \in Nat
  BY <1>3, <1>5, <1>6, <1>7, <1>8, MatchedFits, MatchNumbers
<1>10. PICK base : base = IF limit = 0 THEN filled ELSE amount
  OBVIOUS
<1>11. PICK maxFee : maxFee = IF side = "buy" THEN MaxFeeForOrder(QuoteFor(base, price)) ELSE 0
  OBVIOUS
<1>12. \E pc \in {"wrap", "approve"} : \E market, short, need, token, approval, shown, right :
         session' = [pc |-> pc, side |-> side, price |-> price, base |-> base, maxFee |-> maxFee,
                     m |-> m, filled |-> filled, market |-> market, short |-> short,
                     need |-> need, token |-> token, approval |-> approval,
                     shown |-> shown, right |-> right]
  <2>1. PICK short : short = IF side = "sell" /\ WrapsNative
                             THEN AtLeastZero(base - Available("base")) ELSE 0
    OBVIOUS
  <2>2. PICK need : need = IF side = "buy" THEN QuoteFor(base, price) + maxFee ELSE base
    OBVIOUS
  <2>3. PICK token, shown, right : token = PayToken(side) /\ shown = MyOpen /\ right = BookIsRight
    OBVIOUS
  <2>4. PICK approval : approval = need + CommittedIn(token)
    OBVIOUS
  <2>5. PICK pc : pc = IF short > 0 THEN "wrap" ELSE "approve"
    OBVIOUS
  <2>6. session' = [pc |-> pc, side |-> side, price |-> price, base |-> base, maxFee |-> maxFee,
                    m |-> m, filled |-> filled, market |-> (limit = 0), short |-> short,
                    need |-> need, token |-> token, approval |-> approval,
                    shown |-> shown, right |-> right]
    BY <1>2, <1>4, <1>6, <1>7, <1>8, <1>10, <1>11, <2>1, <2>2, <2>3, <2>4, <2>5, Zenon DEF Place
  <2>7. pc \in {"wrap", "approve"}
    BY <2>5
  <2>8. QED
    BY <2>6, <2>7
<1>13. PICK s : s = session'
  OBVIOUS
<1>14. /\ s.pc \in {"wrap", "approve"} /\ "side" \in DOMAIN s /\ s.side = side /\ s.price = price /\ s.base = base
       /\ s.maxFee = maxFee /\ s.m = m /\ s.filled = filled
  BY <1>12, <1>13
<1>15. filled <= base
  BY <1>3, <1>9, <1>10
<1>16. PlacedFit(s)
  BY <1>3, <1>9, <1>11, <1>14, <1>15 DEF PlacedFit
<1>17. QED
  BY <1>1, <1>13, <1>14, <1>16, PlacedStep

LEMMA WrapFit ==
  ASSUME AppInv, WorldInv, FitInv, Wrap \/ Approve
  PROVE  FitInv'
<1>1. /\ UNCHANGED <<stored, next, view, refresh>> /\ left' = left
      /\ session.pc \in {"wrap", "reset", "approve"}
  BY DEF Wrap, Approve, nodeVars, tabVars
<1>2. PICK pc \in {"approve", "sign", "reset"} : Goto(pc)
  BY DEF Wrap, Approve
<1>3. PlacedFit(session) /\ PlacedFields \subseteq DOMAIN session
  BY <1>1 DEF FitInv, HandFit, WorldInv, HandOK, PlacedOK
<1>4. PICK was, s : was = session /\ s = session'
  OBVIOUS
<1>5. s = [was EXCEPT !.pc = pc] /\ PlacedFields \subseteq DOMAIN was
  BY <1>2, <1>3, <1>4 DEF Goto
<1>6. /\ s.pc = pc /\ s.price = was.price /\ s.base = was.base
      /\ s.maxFee = was.maxFee /\ s.m = was.m /\ s.filled = was.filled
  <2>1. "pc" \in DOMAIN was
    BY <1>4 DEF AppInv, SessionInv
  <2>2. QED
    BY <1>5, <2>1 DEF PlacedFields
<1>7. s.side = was.side /\ "side" \in DOMAIN s
  <2>1. "side" \in DOMAIN was
    BY <1>3, <1>4 DEF PlacedFit
  <2>2. QED
    BY <1>5, <2>1
<1>8. PlacedFit(s)
  BY <1>3, <1>4, <1>6, <1>7 DEF PlacedFit
<1>9. Spends
  BY <1>1 DEF Spends
<1>10. QED
  BY <1>1, <1>4, <1>6, <1>8, <1>9, PlacedStep

\* Something new in hand, and nothing published.
LEMMA MadeFit ==
  ASSUME WorldInv, FitInv, stored' = stored, UNCHANGED <<view, refresh>>, Spends,
         next' \in Nat, next <= next', NEW new, Fresh(new), InHand' \subseteq new, HandFit'
  PROVE  FitInv'
<1>1. PICK none : none = {}
  OBVIOUS
<1>2. Adds(none) /\ Published \subseteq Published'
  BY <1>1, SameAdds DEF Adds
<1>3. BooksKnown'
  BY <1>2, BooksStay DEF FitInv
<1>4. NoneOfMine(none)
  BY <1>1 DEF NoneOfMine, Of
<1>5. none \subseteq InHand \cup new /\ \A p \in none : Resolves(p)'
  BY <1>1
<1>6. QED
  BY <1>2, <1>3, <1>4, <1>5, FitStep

\* Nobody has filled an order that is not made yet.
LEMMA NoFillsYet ==
  ASSUME WorldInv, HashesOK, NEW hash \in Nat, next <= hash
  PROVE  FillsOf(Published, hash) = {}
<1>1. PICK n \in Nat : n = next
  BY HandHashes
<1>2. InitialHash \in Nat /\ InitialHash <= n
  BY <1>1, AppAssumption DEF HashesOK
<1>3. ASSUME NEW f \in FillsOf(Published, hash)
      PROVE  FALSE
  <2>1. f \in Published /\ f.takerOrder \in References(f) /\ f.takerOrder = hash
    BY DEF FillsOf, Of, References
  <2>2. hash < InitialHash \/ \E p \in Published : p.hash = hash
    BY <2>1 DEF HashesOK, Resolves
  <2>3. \A p \in Published : p.hash < n /\ p.hash \in Nat
    BY <1>1, HandHashes
  <2>4. QED
    BY <1>1, <1>2, <2>2, <2>3
<1>4. QED
  BY <1>3

\* What is signed: the authorization allows what the order can use.
LEMMA SignedTerms ==
  ASSUME NEW trader, NEW hash, NEW now, NEW x, x.side \in {"buy", "sell"},
         x.filled \in Nat, Runs(x.m.legs, x.filled), LegsOK(x.m.legs),
         NEW a, a = SignedBy(trader, hash, x, now).auth,
         NEW o, o = SignedBy(trader, hash, x, now).order
  PROVE  /\ a.type = "authorization" /\ a.hash = hash
         /\ o.type = "order" /\ o.hash = hash + 1 /\ o.trader = trader
         /\ o.side = x.side /\ o.price = x.price /\ o.base = x.base /\ o.authHash = hash
         /\ o.exclusiveBase = x.filled
         /\ x.side = "buy" => a.maxQuote = QuoteFor(x.base, x.price) /\ a.maxFee = x.maxFee
<1>1. PICK until : until = now + (IF x.market THEN MarketTtl ELSE LimitTtl)
  OBVIOUS
<1>2. PICK auth : auth = BuildAuth(hash, trader, x.side, x.base, x.price, x.maxFee, until, now)
  OBVIOUS
<1>3. PICK native : native = (ReceiveNative /\ WrapsNative)
  OBVIOUS
<1>4. PICK end : end = IF x.market THEN until ELSE now + ExclusiveWindow
  OBVIOUS
<1>5. PICK legs : legs = LegsOf(x.m)
  OBVIOUS
<1>6. PICK order : order = BuildOrder(hash + 1, auth, x.price, x.base, native, legs, x.filled, end, now)
  OBVIOUS
<1>7. SignedBy(trader, hash, x, now) = [auth |-> auth, order |-> order]
  BY <1>1, <1>2, <1>3, <1>4, <1>5, <1>6, Zenon DEF SignedBy
<1>8. a = auth /\ o = order
  BY <1>7
<1>9. /\ auth.type = "authorization" /\ auth.hash = hash /\ auth.side = x.side /\ auth.grantor = trader
      /\ x.side = "buy" => auth.maxQuote = QuoteFor(x.base, x.price) /\ auth.maxFee = x.maxFee
  BY <1>2 DEF BuildAuth
<1>10. /\ order.type = "order" /\ order.hash = hash + 1 /\ order.trader = auth.grantor
       /\ order.side = auth.side /\ order.price = x.price /\ order.base = x.base
       /\ order.authHash = auth.hash
       /\ order.exclusiveBase = IF legs # NoLegs /\ x.filled > 0 THEN x.filled ELSE 0
  BY <1>6 DEF BuildOrder
<1>11. x.filled > 0 => legs # NoLegs
  <2>1. ASSUME x.filled > 0
        PROVE  legs # NoLegs
    <3>1. x.m.legs # <<>>
      BY <2>1, RunsNone
    <3>2. PICK S : x.m.legs \in Seq(S)
      BY DEF LegsOK
    <3>3. 1 \in DOMAIN x.m.legs
      BY <3>1, <3>2
    <3>4. x.m.legs[1].order.eip \in DOMAIN legs
      BY <1>5, <3>3 DEF LegsOf
    <3>5. DOMAIN NoLegs = {}
      BY DEF NoLegs
    <3>6. QED
      BY <3>4, <3>5
  <2>2. QED
    BY <2>1
<1>12. QED
  BY <1>8, <1>9, <1>10, <1>11

LEMMA SignFit ==
  ASSUME AppInv, WorldInv, FitInv, Sign
  PROVE  FitInv'
<1>1. /\ stored' = stored /\ UNCHANGED <<view, refresh>> /\ left' = left
      /\ next' = next + 2 /\ session.pc = "sign"
  BY DEF Sign, nodeVars, tabVars
<1>2. PICK x : x = session
  OBVIOUS
<1>3. PICK a, o : /\ a = SignedBy(Me, next, x, clock).auth
                  /\ o = SignedBy(Me, next, x, clock).order
  OBVIOUS
<1>4. PICK s : s = [pc |-> "auth", auth |-> a, order |-> o, legs |-> x.m.legs]
  OBVIOUS
<1>5. session' = s /\ s.pc = "auth" /\ s.auth = a /\ s.order = o /\ s.legs = x.m.legs
  <2>1. session' = s
    BY <1>2, <1>3, <1>4 DEF Sign
  <2>2. QED
    BY <1>4, <2>1
<1>6. /\ PlacedFit(x) /\ LegsOK(x.m.legs)
      /\ {x.base, x.price, x.maxFee, x.filled} \subseteq Nat
  BY <1>1, <1>2 DEF FitInv, HandFit, WorldInv, HandOK, PlacedOK
<1>7. PICK n \in Nat : n = next
  BY LaterNext
<1>8. /\ a.type = "authorization" /\ a.hash = n
      /\ o.type = "order" /\ o.hash = n + 1 /\ o.trader = Me
      /\ o.side = x.side /\ o.price = x.price /\ o.base = x.base /\ o.authHash = n
      /\ o.exclusiveBase = x.filled
      /\ x.side = "buy" => a.maxQuote = QuoteFor(x.base, x.price) /\ a.maxFee = x.maxFee
  BY <1>3, <1>6, <1>7, SignedTerms DEF PlacedFit
<1>9. PICK new : new = {a, o}
  OBVIOUS
<1>10. Fresh(new)
  BY <1>7, <1>8, <1>9 DEF Fresh, Unique
<1>11. InHand' \subseteq new
  BY <1>5, <1>9 DEF InHand, Signing
<1>12. Published' = Published
  BY <1>1 DEF Published
<1>13. FillsOf(Published', o.hash) = {}
  BY <1>7, <1>8, <1>12, NoFillsYet DEF FitInv
<1>14. WithinTerms(o, a, {})
  BY <1>6, <1>8, SumOfNone, MarketAssumption DEF WithinTerms, PlacedFit
<1>15. SignedFit(s, {})
  <2>1. LegsFit(s.legs, o.side, o.price) /\ Runs(s.legs, x.filled)
    BY <1>5, <1>6, <1>8 DEF PlacedFit
  <2>2. SumBase({}) + x.filled <= o.exclusiveBase
    BY <1>6, <1>8, SumOfNone
  <2>3. x.filled <= x.base /\ x.side \in {"buy", "sell"}
    BY <1>6 DEF PlacedFit
  <2>4. QED
    BY <1>5, <1>6, <1>8, <1>14, <2>1, <2>2, <2>3 DEF SignedFit
<1>16. SignedFit(s, {})'
  BY <1>12, <1>15, SignedStays
<1>17. HandFit'
  BY <1>5, <1>13, <1>16 DEF HandFit, Signing
<1>18. Spends /\ next' \in Nat /\ next <= next'
  BY <1>1, <1>7 DEF Spends
<1>19. QED
  BY <1>1, <1>10, <1>11, <1>17, <1>18, MadeFit

LEMMA CancelFit ==
  ASSUME AppInv, WorldInv, FitInv, NEW o, NEW onChain, Cancel(o, onChain)
  PROVE  FitInv'
<1>1. PICK r : r = BuildRevocation(next, o.auth, clock)
  OBVIOUS
<1>2. /\ stored' = stored /\ UNCHANGED <<view, refresh>> /\ Spend("closes")
      /\ next' = next + 1 /\ session'.pc = "revoke" /\ session'.revocation = r
  BY <1>1 DEF Cancel, nodeVars, tabVars
<1>3. r.hash = next /\ next \in Nat
  BY <1>1, LaterNext DEF BuildRevocation
<1>4. PICK new : new = {r}
  OBVIOUS
<1>5. Fresh(new) /\ InHand' \subseteq new
  BY <1>2, <1>3, <1>4 DEF Fresh, Unique, InHand, Signing
<1>6. HandFit'
  BY <1>2 DEF HandFit, Signing
<1>7. Spends /\ next' \in Nat /\ next <= next'
  BY <1>2, <1>3 DEF Spends
<1>8. QED
  BY <1>2, <1>5, <1>6, <1>7, MadeFit

LEMMA SendFit ==
  ASSUME AppInv, WorldInv, FitInv, SendSettlement
  PROVE  FitInv'
<1>1. stored' = stored /\ UNCHANGED <<view, refresh, left>>
  BY DEF SendSettlement, nodeVars, tabVars
<1>2. CASE Accepts(session.call)
  <2>1. PICK r : r = BuildReceipt(next, session.call, SettledAmount(session.call), clock)
    OBVIOUS
  <2>2. session'.pc = "receipt" /\ session'.receipt = r /\ next' = next + 1
    BY <1>2, <2>1 DEF SendSettlement
  <2>3. r.hash = next /\ next \in Nat
    BY <2>1, LaterNext DEF BuildReceipt
  <2>4. PICK new : new = {r}
    OBVIOUS
  <2>5. Fresh(new) /\ InHand' \subseteq new
    BY <2>2, <2>3, <2>4 DEF Fresh, Unique, InHand, Signing
  <2>6. HandFit'
    BY <2>2 DEF HandFit, Signing
  <2>7. Spends /\ next' \in Nat /\ next <= next'
    BY <1>1, <2>2, <2>3 DEF Spends
  <2>8. QED
    BY <1>1, <2>5, <2>6, <2>7, MadeFit
<1>3. CASE ~Accepts(session.call)
  <2>1. session'.pc \in {"finish", "idle"} /\ next' = next
    BY <1>3 DEF SendSettlement, Quiet
  <2>2. HandRests /\ Spends
    BY <1>1, <2>1 DEF HandRests, Spends
  <2>3. QED
    BY <1>1, <2>1, <2>2, LaterNext, RestFit
<1>4. QED
  BY <1>2, <1>3

-----------------------------------------------------------------------------
(***************************************************************************)
(* Steps that publish what the user has in hand.                           *)
(***************************************************************************)
\* One fill more of a buy stays within its terms.
LEMMA FillTerms ==
  ASSUME NEW o, NEW a, NEW fills, FillsOK(fills), o.side = "buy", {o.base, o.price} \subseteq Nat,
         WithinTerms(o, a, fills), NEW f, f \notin fills, NEW base \in Nat, NEW price \in Nat,
         price <= o.price, f.base = base, f.quote = QuoteFor(base, price),
         f.fee = FeeForQuote(f.quote), SumBase(fills \cup {f}) <= o.base
  PROVE  /\ WithinTerms(o, a, fills \cup {f})
         /\ SumQuote(fills \cup {f}) <= a.maxQuote /\ SumFee(fills \cup {f}) <= a.maxFee
         /\ f.fee * a.maxQuote <= a.maxFee * f.quote
<1>1. PICK quote \in Nat : f.quote = quote /\ Scale * quote <= o.price * base
  BY LegWithinPrice
<1>2. PICK fee \in Nat : f.fee = fee /\ FeeDen * fee <= FeeNum * quote
  BY <1>1, FeeWithinRate
<1>3. PICK all : all = fills \cup {f}
  OBVIOUS
<1>4. PICK B \in Nat, Q \in Nat, F \in Nat :
        /\ B = SumBase(fills) /\ SumBase(all) = B + base
        /\ Q = SumQuote(fills) /\ SumQuote(all) = Q + quote
        /\ F = SumFee(fills) /\ SumFee(all) = F + fee
  BY <1>1, <1>2, <1>3, SumsOfMore
<1>5. /\ a.maxQuote = QuoteFor(o.base, o.price) /\ a.maxFee = MaxFeeForOrder(a.maxQuote)
      /\ Scale * Q <= o.price * B /\ FeeDen * F <= FeeNum * Q
  BY <1>4 DEF WithinTerms
<1>6. PICK limit \in Nat, num \in Nat, den \in Nat, scale \in Nat :
        limit = o.price /\ num = FeeNum /\ den = FeeDen /\ scale = Scale
  BY MarketAssumption
<1>7. scale * (Q + quote) <= limit * (B + base)
  <2>1. PICK u \in Nat, v \in Nat, w \in Nat, x \in Nat :
          u = scale * Q /\ v = scale * quote /\ w = limit * B /\ x = limit * base
    OBVIOUS
  <2>2. u <= w /\ v <= x
    BY <1>1, <1>5, <1>6, <2>1
  <2>3. scale * (Q + quote) = u + v /\ limit * (B + base) = w + x
    BY <2>1
  <2>4. QED
    BY <2>2, <2>3
<1>8. den * (F + fee) <= num * (Q + quote)
  <2>1. PICK u \in Nat, v \in Nat, w \in Nat, x \in Nat :
          u = den * F /\ v = den * fee /\ w = num * Q /\ x = num * quote
    OBVIOUS
  <2>2. u <= w /\ v <= x
    BY <1>2, <1>5, <1>6, <2>1
  <2>3. den * (F + fee) = u + v /\ num * (Q + quote) = w + x
    BY <2>1
  <2>4. QED
    BY <2>2, <2>3
<1>9. WithinTerms(o, a, all)
  BY <1>4, <1>5, <1>6, <1>7, <1>8 DEF WithinTerms
<1>10. PICK most \in Nat : most = a.maxQuote
  BY <1>5, QuoteNat
<1>11. Q + quote <= most
  <2>1. PICK size \in Nat, part \in Nat, some \in Nat :
          size = o.base /\ part = B + base /\ some = Q + quote
    OBVIOUS
  <2>2. part <= size /\ Scale * some <= limit * part
    BY <1>3, <1>4, <1>6, <1>7, <2>1
  <2>3. some <= QuoteFor(size, limit)
    BY <2>2, QuotesFit
  <2>4. QED
    BY <1>5, <1>6, <1>10, <2>1, <2>3
<1>12. F + fee <= MaxFeeForOrder(most)
  <2>1. PICK some \in Nat, fees \in Nat : some = Q + quote /\ fees = F + fee
    OBVIOUS
  <2>2. some <= most /\ FeeDen * fees <= FeeNum * some
    BY <1>6, <1>8, <1>11, <2>1
  <2>3. QED
    BY <2>1, <2>2, FeesFit
<1>13. fee * most <= MaxFeeForOrder(most) * quote
  BY <1>2, CapCoversRate, RateFits
<1>14. QED
  BY <1>1, <1>2, <1>3, <1>4, <1>5, <1>9, <1>10, <1>11, <1>12, <1>13

-----------------------------------------------------------------------------
LEMMA PutSpends ==
  ASSUME NEW obj, Put(obj) \/ PutFails(obj)
  PROVE  Spends
<1>1. \A slow : TooSlow(slow) => left' = left \/ Spend("faults")
  BY DEF TooSlow
<1>2. left' = left \/ Spend("faults")
  BY <1>1 DEF Put, PutFails
<1>3. QED
  BY <1>2 DEF Spends

\* What is in hand is published, and it is no fill.
LEMMA PutFit ==
  ASSUME WorldInv, FitInv, NEW obj \in InHand, Put(obj) \/ PutFails(obj), obj.type # "fill",
         Resolves(obj)', UNCHANGED <<view, refresh>>, next' \in {next, next + 1},
         HandRests \/ (HandFit' /\ InHand' \subseteq InHand)
  PROVE  FitInv'
<1>1. PICK objs, none : objs = {obj} /\ none = {}
  OBVIOUS
<1>2. Adds(objs) /\ Spends
  BY <1>1, PutAdds, PutSpends
<1>3. BooksKnown'
  BY <1>2, BooksStay DEF FitInv, Adds
<1>4. Fresh(none) /\ NoneOfMine(objs)
  BY <1>1 DEF Fresh, Unique, NoneOfMine, Of
<1>5. objs \subseteq InHand \cup none /\ \A p \in objs : Resolves(p)'
  BY <1>1
<1>6. next' \in Nat /\ next <= next'
  BY LaterNext
<1>7. HandRests \/ (HandFit' /\ InHand' \subseteq InHand \cup none)
  BY <1>1
<1>8. QED
  BY <1>2, <1>3, <1>4, <1>5, <1>6, <1>7, FitStep

LEMMA NamesNothing ==
  ASSUME NEW o, o.type \notin {"fill", "order"}
  PROVE  Resolves(o)'
  BY DEF Resolves, References

LEMMA AuthFit ==
  ASSUME AppInv, WorldInv, FitInv, PublishAuth \/ PublishOrder
  PROVE  FitInv'
<1>1. /\ Signing /\ UNCHANGED <<view, refresh>> /\ next' = next
      /\ DOMAIN session = {"pc", "auth", "order", "legs"}
      /\ session.auth.type = "authorization" /\ session.order.type = "order"
  <2>1. Signing /\ UNCHANGED <<view, refresh>> /\ next' = next
    <3>1. CASE PublishAuth
      BY <3>1 DEF PublishAuth, Signing
    <3>2. CASE PublishOrder
      BY <3>2 DEF PublishOrder, Signing
    <3>3. QED
      BY <3>1, <3>2
  <2>2. QED
    BY <2>1 DEF AppInv, SessionInv
<1>2. PICK was, s : was = session /\ s = session'
  OBVIOUS
<1>3. PICK obj, pc :
        /\ s = [was EXCEPT !.pc = pc] /\ Put(obj)
        /\ \/ was.pc = "auth" /\ obj = was.auth /\ pc = "order"
           \/ was.pc = "order" /\ obj = was.order /\ pc \in {"finish", "fill"}
  <2>1. CASE PublishAuth
    BY <1>2, <2>1 DEF PublishAuth, Goto
  <2>2. CASE PublishOrder
    BY <1>2, <2>2 DEF PublishOrder, Goto
  <2>3. QED
    BY <2>1, <2>2
<1>4. /\ s.pc = pc /\ s.auth = was.auth /\ s.order = was.order /\ s.legs = was.legs
  BY <1>1, <1>2, <1>3
<1>5. PICK fills : fills = FillsOf(Published, was.order.hash)
  OBVIOUS
<1>6. SignedFit(was, fills)
  BY <1>1, <1>2, <1>5 DEF FitInv, HandFit
<1>7. obj \in InHand /\ obj.type # "fill"
  BY <1>1, <1>2, <1>3 DEF InHand
<1>8. Adds({obj}) /\ obj \in Published'
  BY <1>3, PutAdds, PutLeaves
<1>9. Resolves(obj)'
  <2>1. CASE was.pc = "auth"
    BY <1>1, <1>2, <1>3, <2>1, NamesNothing
  <2>2. CASE was.pc = "order"
    <3>1. was.auth \in Published' /\ References(obj) = {was.auth.hash}
      BY <1>1, <1>2, <1>3, <1>6, <1>8, <2>2 DEF SignedFit, References, Adds
    <3>2. QED
      BY <3>1 DEF Resolves
  <2>3. QED
    BY <1>3, <2>1, <2>2
<1>10. CASE pc = "finish"
  <2>1. HandRests
    BY <1>2, <1>4, <1>10 DEF HandRests
  <2>2. QED
    BY <1>1, <1>3, <1>7, <1>9, <2>1, PutFit
<1>11. CASE pc \in {"order", "fill"}
  <2>1. FillsOf(Published', was.order.hash) = fills
    BY <1>5, <1>7, <1>8 DEF FillsOf, Of, Adds
  <2>2. LegsFit(was.legs, was.order.side, was.order.price)'
    BY <1>6, <1>8, LegsStay DEF SignedFit, Adds
  <2>3. was.auth \in Published' /\ (pc = "fill" => was.order \in Published')
    BY <1>3, <1>6, <1>8, <1>11 DEF SignedFit, Adds
  <2>4. SignedFit(s, fills)'
    BY <1>4, <1>6, <1>11, <2>2, <2>3 DEF SignedFit, WithinTerms
  <2>5. HandFit'
    BY <1>2, <1>4, <1>11, <2>1, <2>4 DEF HandFit, Signing
  <2>6. InHand' \subseteq InHand
    BY <1>1, <1>2, <1>4, <1>11 DEF InHand, Signing
  <2>7. QED
    BY <1>1, <1>3, <1>7, <1>9, <2>5, <2>6, PutFit
<1>12. QED
  BY <1>3, <1>10, <1>11

LEMMA LastPublicationsFit ==
  ASSUME AppInv, WorldInv, FitInv, PublishRevocation \/ PublishReceipt
  PROVE  FitInv'
<1>1. CASE PublishRevocation
  <2>1. /\ session.pc = "revoke" /\ Put(session.revocation) /\ next' = next
        /\ UNCHANGED <<view, refresh>> /\ \E pc \in {"onchain", "finish"} : Goto(pc)
    BY <1>1 DEF PublishRevocation, tabVars
  <2>2. PICK obj : obj = session.revocation
    OBVIOUS
  <2>3. obj \in InHand /\ obj.type = "revocation"
    BY <2>1, <2>2 DEF InHand, AppInv, SessionInv
  <2>4. HandRests
    BY <2>1, WentTo DEF HandRests, AppInv
  <2>5. Resolves(obj)'
    BY <2>3, NamesNothing
  <2>6. QED
    BY <2>1, <2>2, <2>3, <2>4, <2>5, PutFit
<1>2. CASE PublishReceipt
  <2>1. /\ session.pc = "receipt" /\ (Put(session.receipt) \/ PutFails(session.receipt)) /\ next' = next
        /\ UNCHANGED <<view, refresh>> /\ session'.pc = "finish"
    BY <1>2 DEF PublishReceipt, tabVars
  <2>2. PICK obj : obj = session.receipt
    OBVIOUS
  <2>3. obj \in InHand /\ obj.type = "receipt"
    BY <2>1, <2>2 DEF InHand, AppInv, SessionInv
  <2>4. HandRests
    BY <2>1 DEF HandRests
  <2>5. Resolves(obj)'
    BY <2>3, NamesNothing
  <2>6. QED
    BY <2>1, <2>2, <2>3, <2>4, <2>5, PutFit
<1>3. QED
  BY <1>1, <1>2

\* The first of the legs, and those after it.
LEMMA NextLeg ==
  ASSUME NEW legs, LegsOK(legs), legs # <<>>, NEW side, NEW price, LegsFit(legs, side, price),
         NEW total \in Nat, Runs(legs, total)
  PROVE  \E leg : \E rest \in Nat :
           /\ leg = Head(legs) /\ LegOK(leg) /\ leg.base \in Nat /\ leg.price \in Nat
           /\ EntryKnown(leg.order) /\ leg.order.side = Opposite(side)
           /\ leg.quote = QuoteFor(leg.base, leg.price) /\ (side = "buy" => leg.price <= price)
           /\ LegsFit(Tail(legs), side, price)
           /\ Runs(Tail(legs), rest) /\ total = leg.base + rest
<1>1. PICK S : legs \in Seq(S) /\ \A l \in S : LegOK(l)
  BY DEF LegsOK
<1>2. PICK leg \in S : leg = Head(legs)
  BY <1>1
<1>3. LegOK(leg) /\ \A l \in S : l.base \in Nat /\ l.price \in Nat
  BY <1>1 DEF LegOK
<1>4. 1 \in DOMAIN legs /\ leg = legs[1]
  BY <1>1, <1>2
<1>5. PICK more \in Seq(S) : more = Tail(legs) /\ \A i \in DOMAIN more : i + 1 \in DOMAIN legs /\ more[i] = legs[i + 1]
  <2>1. Tail(legs) \in Seq(S)
    BY <1>1
  <2>2. \A i \in DOMAIN Tail(legs) : i + 1 \in DOMAIN legs /\ Tail(legs)[i] = legs[i + 1]
    BY <1>1
  <2>3. QED
    BY <2>1, <2>2
<1>6. LegsFit(more, side, price)
  BY <1>5 DEF LegsFit
<1>7. total - leg.base \in Nat /\ Runs(more, total - leg.base)
  BY <1>1, <1>2, <1>3, <1>5, RunsTail
<1>8. PICK rest \in Nat : rest = total - leg.base
  BY <1>7
<1>9. total = leg.base + rest
  BY <1>2, <1>3, <1>8
<1>10. /\ EntryKnown(leg.order) /\ leg.order.side = Opposite(side)
       /\ leg.quote = QuoteFor(leg.base, leg.price) /\ (side = "buy" => leg.price <= price)
  BY <1>4 DEF LegsFit
<1>11. QED
  BY <1>2, <1>3, <1>5, <1>6, <1>7, <1>8, <1>9, <1>10

LEMMA FillsAreOK ==
  ASSUME WorldInv, NEW hash
  PROVE  FillsOK(FillsOf(Published, hash))
<1>1. PICK fills : fills = FillsOf(Published, hash)
  OBVIOUS
<1>2. fills \subseteq Published /\ \A f \in fills : f.type = "fill"
  BY <1>1 DEF FillsOf, Of
<1>3. IsFiniteSet(fills)
  BY <1>2, HandHashes, FS_Subset
<1>4. \A f \in fills : {f.base, f.quote, f.fee} \subseteq Nat
  BY <1>2 DEF WorldInv, ObjectsOK, ObjOK, WellFormed
<1>5. QED
  BY <1>1, <1>3, <1>4 DEF FillsOK

\* The fill of a leg names objects that are known, and its fee is within the
\* buyer's share.
LEMMA FillWithinShare ==
  ASSUME NEW P, NEW Q, P \subseteq Q, Unique(Q), NEW leg, LegOK(leg), NEW o, NEW a,
         leg.order.auth \in Of(P, "authorization"),
         \E m \in Of(P, "order") : m.hash = leg.order.hash /\ m.side = leg.order.side,
         o.side \in {"buy", "sell"}, leg.order.side = Opposite(o.side),
         a \in Of(P, "authorization"), o.authHash = a.hash,
         NEW f \in Of(Q, "fill"), f.makerOrder = leg.order.hash, f.makerAuth = leg.order.auth.hash,
         f.takerAuth = o.authHash, f.quote = leg.quote, f.fee = LegFee(o.side, leg),
         o.side = "buy" => f.fee * a.maxQuote <= a.maxFee * f.quote,
         NEW call \in SettleCalls(Q, f.hash)
  PROVE  f.fee * BuyAuth(call).maxQuote <= BuyAuth(call).maxFee * f.quote
<1>1. /\ call.maker \in Of(Q, "order") /\ call.maker.hash = f.makerOrder
      /\ call.makerAuth \in Of(Q, "authorization") /\ call.makerAuth.hash = f.makerAuth
      /\ call.takerAuth \in Of(Q, "authorization") /\ call.takerAuth.hash = f.takerAuth
  BY CallNames
<1>2. PICK m \in Of(P, "order") : m.hash = leg.order.hash /\ m.side = leg.order.side
  OBVIOUS
<1>3. /\ call.maker = m /\ call.makerAuth = leg.order.auth /\ call.takerAuth = a
  BY <1>1, <1>2 DEF Unique, Of
<1>4. CASE o.side = "buy"
  <2>1. BuyAuth(call) = a
    BY <1>2, <1>3, <1>4 DEF BuyAuth, Opposite
  <2>2. QED
    BY <1>4, <2>1
<1>5. CASE o.side = "sell"
  <2>1. BuyAuth(call) = leg.order.auth
    BY <1>2, <1>3, <1>5 DEF BuyAuth, Opposite
  <2>2. QED
    BY <1>5, <2>1, SellFeeFits
<1>6. QED
  BY <1>4, <1>5

\* What the user's next fill is, and what it leaves.
LEMMA NextFill ==
  ASSUME AppInv, WorldInv, FitInv, session.pc = "fill", NEW s, s = session,
         NEW f, f = BuildFill(next, Head(s.legs), s.order, LegFee(s.order.side, Head(s.legs)), clock),
         NEW fills, fills = FillsOf(Published, s.order.hash)
  PROVE  /\ f.type = "fill" /\ f.hash = next /\ f.takerOrder = s.order.hash /\ f \notin Published
         /\ \A h \in References(f) : \E p \in Published : p.hash = h
         /\ s.order \in Of(Published, "order") /\ FillsOK(fills) /\ {f.base, f.quote, f.fee} \subseteq Nat
         /\ LegsFit(Tail(s.legs), s.order.side, s.order.price)
         /\ \E rest \in Nat : /\ Runs(Tail(s.legs), rest)
                              /\ SumBase(fills) + f.base + rest <= s.order.exclusiveBase
         /\ WithinTerms(s.order, s.auth, fills \cup {f})
         /\ s.order.side = "buy" => /\ SumQuote(fills \cup {f}) <= s.auth.maxQuote
                                    /\ SumFee(fills \cup {f}) <= s.auth.maxFee
         /\ \A Q : Published \subseteq Q /\ f \in Q /\ Unique(Q) =>
              \A call \in SettleCalls(Q, f.hash) :
                f.fee * BuyAuth(call).maxQuote <= BuyAuth(call).maxFee * f.quote
<1>1. PICK o, a, legs : o = s.order /\ a = s.auth /\ legs = s.legs
  OBVIOUS
<1>2. SignedFit(s, fills) /\ SignedOK(s, next) /\ Signing
  BY DEF FitInv, HandFit, WorldInv, HandOK, Signing
<1>3. o.type = "order" /\ a.type = "authorization"
  BY <1>1, <1>2 DEF AppInv, SessionInv
<1>4. /\ o \in Of(Published, "order") /\ a \in Of(Published, "authorization") /\ o.authHash = a.hash
      /\ o.side \in {"buy", "sell"} /\ o.exclusiveBase <= o.base /\ LegsFit(legs, o.side, o.price)
      /\ WithinTerms(o, a, fills) /\ LegsOK(legs) /\ legs # <<>>
  BY <1>1, <1>2, <1>3 DEF SignedFit, SignedOK, Of
<1>5. {o.price, o.base, o.exclusiveBase} \subseteq Nat
  BY <1>1, <1>2, <1>3 DEF SignedOK, ObjOK, WellFormed
<1>6. PICK total \in Nat : Runs(legs, total) /\ SumBase(fills) + total <= o.exclusiveBase
  BY <1>1, <1>2 DEF SignedFit
<1>7. PICK leg : \E rest \in Nat :
           /\ leg = Head(legs) /\ LegOK(leg) /\ leg.base \in Nat /\ leg.price \in Nat
           /\ EntryKnown(leg.order) /\ leg.order.side = Opposite(o.side)
           /\ leg.quote = QuoteFor(leg.base, leg.price) /\ (o.side = "buy" => leg.price <= o.price)
           /\ LegsFit(Tail(legs), o.side, o.price)
           /\ Runs(Tail(legs), rest) /\ total = leg.base + rest
  BY <1>4, <1>6, NextLeg
<1>8. PICK rest \in Nat : Runs(Tail(legs), rest) /\ total = leg.base + rest
  BY <1>7
<1>9. PICK fee \in Nat : fee = LegFee(o.side, leg)
  BY <1>7, FeesAreNat
<1>10. f = BuildFill(next, leg, o, fee, clock)
  BY <1>1, <1>7, <1>9
<1>11. /\ f.type = "fill" /\ f.hash = next /\ f.makerOrder = leg.order.hash /\ f.takerOrder = o.hash
       /\ f.makerAuth = leg.order.auth.hash /\ f.takerAuth = o.authHash
       /\ f.base = leg.base /\ f.quote = QuoteFor(leg.base, leg.price) /\ f.fee = fee
  BY <1>10 DEF BuildFill
<1>12. f.base \in Nat /\ f.quote \in Nat /\ f.fee \in Nat
  BY <1>7, <1>11, QuoteNat
<1>13. f \notin Published
  <2>1. \A p \in Published : p.hash \in Nat /\ p.hash < next
    BY HandHashes
  <2>2. next \in Nat
    BY HandHashes
  <2>3. QED
    BY <1>11, <2>1, <2>2
<1>14. /\ leg.order.auth \in Of(Published, "authorization")
       /\ \E m \in Of(Published, "order") : m.hash = leg.order.hash /\ m.side = leg.order.side
  BY <1>7 DEF EntryKnown
<1>15. \A h \in References(f) : \E p \in Published : p.hash = h
  <2>1. References(f) = {leg.order.hash, o.hash, leg.order.auth.hash, a.hash}
    BY <1>4, <1>11 DEF References
  <2>2. QED
    BY <1>4, <1>14, <2>1 DEF Of
<1>16. FillsOK(fills) /\ f \notin fills
  BY <1>13, FillsAreOK DEF FillsOf, Of
<1>17. /\ SumBase(fills) \in Nat /\ SumBase(fills \cup {f}) = SumBase(fills) + f.base
  BY <1>12, <1>16, SumsOfMore
<1>18. SumBase(fills) + f.base + rest <= o.exclusiveBase
  BY <1>6, <1>7, <1>8, <1>11, <1>12, <1>17
<1>19. SumBase(fills \cup {f}) <= o.base
  BY <1>4, <1>5, <1>12, <1>17, <1>18
<1>20. ASSUME o.side = "buy"
       PROVE  /\ WithinTerms(o, a, fills \cup {f})
              /\ SumQuote(fills \cup {f}) <= a.maxQuote /\ SumFee(fills \cup {f}) <= a.maxFee
              /\ f.fee * a.maxQuote <= a.maxFee * f.quote
  <2>1. fee = FeeForQuote(f.quote)
    BY <1>7, <1>9, <1>11, <1>20 DEF LegFee
  <2>2. PICK base \in Nat, price \in Nat : base = leg.base /\ price = leg.price /\ price <= o.price
    BY <1>7, <1>20
  <2>3. f.base = base /\ f.quote = QuoteFor(base, price) /\ f.fee = FeeForQuote(f.quote)
    BY <1>11, <2>1, <2>2
  <2>4. {o.base, o.price} \subseteq Nat
    BY <1>5
  <2>5. QED
    BY <1>4, <1>16, <1>19, <1>20, <2>2, <2>3, <2>4, FillTerms
<1>21. WithinTerms(o, a, fills \cup {f})
  <2>1. CASE o.side = "buy"
    BY <1>20, <2>1
  <2>2. CASE o.side # "buy"
    BY <2>2 DEF WithinTerms
  <2>3. QED
    BY <2>1, <2>2
<1>22. ASSUME NEW Q, Published \subseteq Q, f \in Q, Unique(Q), NEW call \in SettleCalls(Q, f.hash)
       PROVE  f.fee * BuyAuth(call).maxQuote <= BuyAuth(call).maxFee * f.quote
  <2>1. f \in Of(Q, "fill") /\ f.quote = leg.quote /\ f.fee = LegFee(o.side, leg)
    BY <1>7, <1>9, <1>11, <1>22 DEF Of
  <2>2. LegOK(leg) /\ leg.order.side = Opposite(o.side)
    BY <1>7
  <2>3. QED
    BY <1>4, <1>11, <1>14, <1>20, <1>22, <2>1, <2>2, FillWithinShare
<1>23. LegsFit(Tail(legs), o.side, o.price) /\ Runs(Tail(legs), rest)
  BY <1>7, <1>8
<1>24. QED
  BY <1>1, <1>4, <1>11, <1>12, <1>13, <1>15, <1>16, <1>18, <1>20, <1>21, <1>22, <1>23

\* The fill is at some node, or at none.
LEMMA FillGoesOut ==
  ASSUME AppInv, WorldInv, FitInv, session.pc = "fill", NEW s, s = session,
         NEW f, f = BuildFill(next, Head(s.legs), s.order, LegFee(s.order.side, Head(s.legs)), clock),
         NEW fills, fills = FillsOf(Published, s.order.hash),
         Adds({f}), next' = next + 1, UNCHANGED <<view, refresh>>, Spends, InHand' \subseteq InHand
  PROVE  /\ HashesOK' /\ FillsFit(Published)' /\ BooksKnown' /\ FormsSided'
         /\ FillsOf(Published', s.order.hash) = IF f \in Published' THEN fills \cup {f} ELSE fills
<1>1. /\ f.type = "fill" /\ f.hash = next /\ f.takerOrder = s.order.hash /\ f \notin Published
      /\ \A h \in References(f) : \E p \in Published : p.hash = h
      /\ s.order \in Of(Published, "order") /\ FillsOK(fills) /\ {f.base, f.quote, f.fee} \subseteq Nat
      /\ \E rest \in Nat : SumBase(fills) + f.base + rest <= s.order.exclusiveBase
      /\ s.order.side = "buy" => /\ SumQuote(fills \cup {f}) <= s.auth.maxQuote
                                 /\ SumFee(fills \cup {f}) <= s.auth.maxFee
  BY NextFill
<1>2. \A Q : Published \subseteq Q /\ f \in Q /\ Unique(Q) =>
        \A call \in SettleCalls(Q, f.hash) :
          f.fee * BuyAuth(call).maxQuote <= BuyAuth(call).maxFee * f.quote
  BY NextFill
<1>3. PICK o, a : o = s.order /\ a = s.auth
  OBVIOUS
<1>4. PICK P, Q : P = Published /\ Q = Published'
  OBVIOUS
<1>5. P \subseteq Q /\ Q \subseteq P \cup {f}
  BY <1>4 DEF Adds
<1>6. PICK new : new = {f}
  OBVIOUS
<1>7. next \in Nat /\ next' \in Nat /\ next <= next'
  BY HandHashes
<1>8. HashesOK' /\ Apart(Q, P)
  <2>1. Fresh(new) /\ Adds(new) /\ new \subseteq InHand \cup new /\ InHand' \subseteq InHand \cup new
    BY <1>1, <1>6, <1>7 DEF Fresh, Unique
  <2>2. \A p \in new : Resolves(p)'
    BY <1>1, <1>4, <1>5, <1>6 DEF Resolves
  <2>3. QED
    BY <1>4, <1>7, <2>1, <2>2, HashesKept DEF FitInv
<1>9. Unique(Q)
  BY <1>4, <1>8 DEF HashesOK, Unique
<1>10. BooksKnown'
  BY <1>4, <1>5, BooksStay DEF FitInv
<1>11. FormsSided'
  BY FormsKept DEF FitInv, WorldInv, Spends
<1>12. CASE f \notin Q
  <2>1. Q = P
    BY <1>5, <1>12
  <2>2. FillsFit(Published')
    BY <1>4, <2>1 DEF FitInv
  <2>3. FillsFit(Published)'
    BY <2>2
  <2>4. QED
    BY <1>4, <1>8, <1>10, <1>11, <1>12, <2>1, <2>3
<1>13. CASE f \in Q
  <2>1. Q = P \cup {f}
    BY <1>5, <1>13
  <2>2. FillsOf(Q, o.hash) = fills \cup {f}
    BY <1>1, <1>3, <1>4, <2>1 DEF FillsOf, Of
  <2>3. SumBase(fills \cup {f}) <= o.exclusiveBase
    <3>1. SumBase(fills) \in Nat /\ SumBase(fills \cup {f}) = SumBase(fills) + f.base
      <4>1. f \notin fills
        BY <1>1 DEF FillsOf, Of
      <4>2. QED
        BY <1>1, <4>1, SumsOfMore
    <3>2. o.exclusiveBase \in Nat
      BY <1>1, <1>3 DEF WorldInv, ObjectsOK, ObjOK, WellFormed, Of
    <3>3. PICK b \in Nat, t \in Nat, e \in Nat : b = f.base /\ t = SumBase(fills) /\ e = o.exclusiveBase
      BY <1>1, <3>1, <3>2
    <3>4. \E rest \in Nat : t + b + rest <= e
      BY <1>1, <1>3, <3>3
    <3>5. t + b <= e
      BY <3>4
    <3>6. QED
      BY <3>1, <3>3, <3>5
  <2>4. ASSUME o.side = "buy", NEW b \in Of(P, "authorization"), b.hash = o.authHash
        PROVE  SumQuote(fills \cup {f}) <= b.maxQuote /\ SumFee(fills \cup {f}) <= b.maxFee
    <3>1. SignedFit(s, fills) /\ s.pc = "fill"
      BY DEF FitInv, HandFit, Signing
    <3>2. a \in P /\ o.authHash = a.hash
      BY <1>3, <1>4, <3>1 DEF SignedFit
    <3>3. a = b
      BY <1>5, <1>9, <2>4, <3>2 DEF Unique, Of
    <3>4. QED
      BY <1>1, <1>3, <2>4, <3>3
  <2>5. \A call \in SettleCalls(Q, f.hash) :
          f.fee * BuyAuth(call).maxQuote <= BuyAuth(call).maxFee * f.quote
    BY <1>2, <1>4, <1>5, <1>9, <1>13
  <2>6. FillsFit(P) /\ fills = FillsOf(P, o.hash) /\ f \notin P /\ o \in Of(P, "order")
    BY <1>1, <1>3, <1>4 DEF FitInv
  <2>7. FillsFit(Q)
    <3>1. f.type = "fill" /\ f.takerOrder = o.hash
      BY <1>1, <1>3
    <3>2. o.side = "buy" => \A b \in Of(P, "authorization") : b.hash = o.authHash =>
            SumQuote(fills \cup {f}) <= b.maxQuote /\ SumFee(fills \cup {f}) <= b.maxFee
      BY <2>4
    <3>3. QED
      BY ONLY <1>8, <1>9, <2>1, <2>3, <2>5, <2>6, <3>1, <3>2, FillFits
  <2>8. FillsFit(Published')
    BY <1>4, <2>7
  <2>9. FillsFit(Published)'
    BY <2>8
  <2>10. QED
    BY <1>3, <1>4, <1>8, <1>10, <1>11, <1>13, <2>2, <2>9
<1>14. QED
  BY <1>12, <1>13

\* The user's fill is published.
LEMMA FillFit ==
  ASSUME AppInv, WorldInv, FitInv, PublishFill
  PROVE  FitInv'
<1>1. /\ session.pc = "fill" /\ next' = next + 1 /\ UNCHANGED <<view, refresh>>
      /\ session' = [session EXCEPT !.legs = Tail(@),
                       !.pc = IF Len(session.legs) = 1 THEN "finish" ELSE "fill"]
  BY DEF PublishFill
<1>2. PICK s : s = session
  OBVIOUS
<1>3. PICK f : f = BuildFill(next, Head(s.legs), s.order, LegFee(s.order.side, Head(s.legs)), clock)
  OBVIOUS
<1>4. Put(f)
  BY <1>2, <1>3, Zenon DEF PublishFill
<1>5. Signing /\ DOMAIN session = {"pc", "auth", "order", "legs"}
  BY <1>1 DEF Signing, AppInv, SessionInv
<1>6. PICK pc, more : pc = (IF Len(session.legs) = 1 THEN "finish" ELSE "fill") /\ more = Tail(s.legs)
  OBVIOUS
<1>7. session' = [session EXCEPT !.legs = more, !.pc = pc]
  BY <1>1, <1>2, <1>6
<1>8. PICK t : t = [s EXCEPT !.legs = more, !.pc = pc]
  OBVIOUS
<1>9. session' = t /\ t.auth = s.auth /\ t.order = s.order /\ t.legs = more /\ t.pc = pc
  BY <1>2, <1>5, <1>7, <1>8
<1>10. pc \in {"finish", "fill"}
  BY <1>6
<1>11. PICK fills : fills = FillsOf(Published, s.order.hash)
  OBVIOUS
<1>12. Adds({f}) /\ f \in Published' /\ Spends
  BY <1>4, PutAdds, PutLeaves, PutSpends
<1>13. InHand' \subseteq InHand
  BY <1>2, <1>5, <1>9, <1>10 DEF InHand, Signing
<1>14. /\ HashesOK' /\ FillsFit(Published)' /\ BooksKnown' /\ FormsSided'
       /\ FillsOf(Published', s.order.hash) = fills \cup {f}
  BY <1>1, <1>2, <1>3, <1>11, <1>12, <1>13, FillGoesOut
<1>15. CASE pc = "finish"
  <2>1. HandFit'
    BY <1>9, <1>15 DEF HandFit, Signing
  <2>2. QED
    BY <1>14, <2>1 DEF FitInv
<1>16. CASE pc = "fill"
  <2>1. SignedFit(s, fills) /\ s.pc = "fill"
    BY <1>1, <1>2, <1>5, <1>11 DEF FitInv, HandFit
  <2>2. /\ FillsOK(fills) /\ f \notin Published /\ {f.base, f.quote, f.fee} \subseteq Nat
        /\ LegsFit(more, s.order.side, s.order.price)
        /\ \E rest \in Nat : Runs(more, rest) /\ SumBase(fills) + f.base + rest <= s.order.exclusiveBase
        /\ WithinTerms(s.order, s.auth, fills \cup {f}) /\ s.order \in Of(Published, "order")
    <3>1. /\ FillsOK(fills) /\ f \notin Published /\ {f.base, f.quote, f.fee} \subseteq Nat
          /\ LegsFit(Tail(s.legs), s.order.side, s.order.price)
          /\ \E rest \in Nat : /\ Runs(Tail(s.legs), rest)
                               /\ SumBase(fills) + f.base + rest <= s.order.exclusiveBase
          /\ WithinTerms(s.order, s.auth, fills \cup {f}) /\ s.order \in Of(Published, "order")
      BY <1>1, <1>2, <1>3, <1>11, NextFill
    <3>2. QED
      BY <1>6, <3>1
  <2>3. SumBase(fills \cup {f}) = SumBase(fills) + f.base
    <3>1. f \notin fills
      BY <1>11, <2>2 DEF FillsOf, Of
    <3>2. QED
      BY <2>2, <3>1, SumsOfMore
  <2>4. \E rest \in Nat : Runs(more, rest) /\ SumBase(fills \cup {f}) + rest <= s.order.exclusiveBase
    BY <2>2, <2>3
  <2>5. s.order \in Published
    BY <2>2 DEF Of
  <2>6. SignedFit(t, fills \cup {f})
    BY <1>9, <1>16, <2>1, <2>2, <2>4, <2>5 DEF SignedFit
  <2>7. SignedFit(t, fills \cup {f})'
    BY <1>12, <2>6, SignedStays DEF Adds
  <2>8. HandFit'
    BY <1>9, <1>14, <1>16, <2>7 DEF HandFit, Signing
  <2>9. QED
    BY <1>14, <2>8 DEF FitInv
<1>17. QED
  BY <1>10, <1>15, <1>16

\* No node took what the user was publishing, or one did and nobody knows.
LEMMA FailFit ==
  ASSUME AppInv, WorldInv, FitInv, PublishFails
  PROVE  FitInv'
<1>1. /\ UNCHANGED <<view, refresh>> /\ next' = next + 1 /\ session'.pc = "idle"
      /\ session.pc \in {"auth", "order", "fill", "revoke"}
  BY DEF PublishFails, tabVars, Quiet
<1>2. HandRests /\ HandFit' /\ InHand' = {}
  BY <1>1 DEF HandRests, HandFit, InHand, Signing
<1>3. PICK s : s = session
  OBVIOUS
<1>4. PICK f : f = BuildFill(next, Head(s.legs), s.order, LegFee(s.order.side, Head(s.legs)), clock)
  OBVIOUS
<1>5. CASE session.pc = "auth"
  <2>1. PutFails(session.auth)
    BY <1>5 DEF PublishFails
  <2>2. session.auth \in InHand /\ session.auth.type = "authorization"
    BY <1>5 DEF InHand, Signing, AppInv, SessionInv
  <2>3. PICK obj : obj = session.auth
    OBVIOUS
  <2>4. Resolves(obj)'
    BY <2>2, <2>3, NamesNothing
  <2>5. QED
    BY <1>1, <1>2, <2>1, <2>2, <2>3, <2>4, PutFit
<1>6. CASE session.pc = "order"
  <2>1. PutFails(session.order)
    BY <1>6 DEF PublishFails
  <2>2. session.order \in InHand /\ session.order.type = "order"
    BY <1>6 DEF InHand, Signing, AppInv, SessionInv
  <2>3. PICK obj : obj = session.order
    OBVIOUS
  <2>4. PICK fills : fills = FillsOf(Published, s.order.hash)
    OBVIOUS
  <2>5. SignedFit(s, fills) /\ s.pc = "order"
    BY <1>3, <1>6, <2>4 DEF FitInv, HandFit, Signing
  <2>6. s.auth \in Published /\ References(obj) = {s.auth.hash}
    BY <1>3, <2>2, <2>3, <2>5 DEF SignedFit, References
  <2>7. Published \subseteq Published'
    BY <2>1, PutAdds DEF Adds
  <2>8. Resolves(obj)'
    BY <2>6, <2>7 DEF Resolves
  <2>9. QED
    BY <1>1, <1>2, <2>1, <2>2, <2>3, <2>8, PutFit
<1>7. CASE session.pc = "revoke"
  <2>1. PutFails(session.revocation)
    BY <1>7 DEF PublishFails
  <2>2. session.revocation \in InHand /\ session.revocation.type = "revocation"
    BY <1>7 DEF InHand, AppInv, SessionInv
  <2>3. PICK obj : obj = session.revocation
    OBVIOUS
  <2>4. Resolves(obj)'
    BY <2>2, <2>3, NamesNothing
  <2>5. QED
    BY <1>1, <1>2, <2>1, <2>2, <2>3, <2>4, PutFit
<1>8. CASE session.pc = "fill"
  <2>1. PutFails(f)
    BY <1>3, <1>4, <1>8, Zenon DEF PublishFails
  <2>2. Adds({f}) /\ Spends
    BY <2>1, PutAdds, PutSpends
  <2>3. HashesOK' /\ FillsFit(Published)' /\ BooksKnown' /\ FormsSided'
    BY <1>1, <1>2, <1>3, <1>4, <1>8, <2>2, FillGoesOut
  <2>4. QED
    BY <1>2, <2>3 DEF FitInv
<1>9. QED
  BY <1>1, <1>5, <1>6, <1>7, <1>8

-----------------------------------------------------------------------------
(***************************************************************************)
(* What others publish.                                                    *)
(***************************************************************************)
\* Others publish what they make.
LEMMA OthersObjectsFit ==
  ASSUME WorldInv, FitInv, UNCHANGED <<tabVars, session>>, NEW objs, Adds(objs), Fresh(objs),
         next' \in Nat, next <= next', \A p \in objs : Resolves(p)', NoneOfMine(objs), Spends
  PROVE  FitInv'
<1>1. view' = view /\ refresh' = refresh /\ session' = session /\ Published \subseteq Published'
  BY DEF tabVars, Adds
<1>2. BooksKnown'
  BY <1>1, BooksStay DEF FitInv
<1>3. HandRests /\ objs \subseteq InHand \cup objs
  BY <1>1 DEF HandRests
<1>4. QED
  BY <1>2, <1>3, FitStep

\* One object more, that is no fill.
LEMMA OneMoreFit ==
  ASSUME WorldInv, FitInv, UNCHANGED <<tabVars, session>>, NEW obj, AtEveryNode({obj}),
         obj.hash = next, next' = next + 1, obj.type # "fill", Resolves(obj)', Spends
  PROVE  FitInv'
<1>1. PICK objs : objs = {obj}
  OBVIOUS
<1>2. next \in Nat /\ next' \in Nat /\ next <= next'
  BY LaterNext
<1>3. Adds(objs)
  BY <1>1, AtEveryNodeAdds
<1>4. Fresh(objs) /\ NoneOfMine(objs)
  BY <1>1, <1>2 DEF Fresh, Unique, NoneOfMine, Of
<1>5. \A p \in objs : Resolves(p)'
  BY <1>1
<1>6. QED
  BY <1>2, <1>3, <1>4, <1>5, OthersObjectsFit

LEMMA ExecuteFit ==
  ASSUME WorldInv, FitInv, NEW n, NEW f, NEW posted \in BOOLEAN, Execute(n, f, posted)
  PROVE  FitInv'
<1>1. UNCHANGED <<tabVars, session>>
  BY DEF Execute
<1>2. PICK call : IF posted
           THEN /\ AtEveryNode({BuildReceipt(next, call, FittingOf(call), clock)})
                /\ next' = next + 1 /\ Spend("receipts")
           ELSE UNCHANGED <<stored, next, left>>
  BY DEF Execute
<1>3. CASE posted
  <2>1. PICK r : r = BuildReceipt(next, call, FittingOf(call), clock)
    OBVIOUS
  <2>2. AtEveryNode({r}) /\ next' = next + 1 /\ Spends
    BY <1>2, <1>3, <2>1 DEF Spends
  <2>3. r.type = "receipt" /\ r.hash = next
    BY <2>1 DEF BuildReceipt
  <2>4. Resolves(r)'
    BY <2>3, NamesNothing
  <2>5. QED
    BY <1>1, <2>2, <2>3, <2>4, OneMoreFit
<1>4. CASE ~posted
  <2>1. stored' = stored /\ next' = next /\ left' = left
    BY <1>2, <1>4
  <2>2. view' = view /\ refresh' = refresh /\ HandRests /\ Spends
    BY <1>1, <2>1 DEF tabVars, HandRests, Spends
  <2>3. QED
    BY <2>1, <2>2, LaterNext, RestFit
<1>5. QED
  BY <1>3, <1>4

LEMMA RepublishFit ==
  ASSUME AppInv, WorldInv, FitInv, NEW n \in Nodes, NEW o \in Signed(n),
         NEW date, Republish(n, o, date)
  PROVE  FitInv'
<1>1. PICK p \in CopiesOf(n, o) : AtEveryNode({[p EXCEPT !.hash = next, !.createdAt = date]})
  BY DEF Republish
<1>2. PICK c : Redated(c, p, next, date) /\ AtEveryNode({c})
  BY <1>1 DEF Redated
<1>3. UNCHANGED <<tabVars, session>> /\ next' = next + 1 /\ Spends
  BY DEF Republish, Spends
<1>4. o \in Published /\ (o.type = "order" \/ o.type = "authorization")
  BY DEF Of, Published, Signed
<1>5. WellFormed(o)
  BY <1>4 DEF WorldInv, ObjectsOK, ObjOK
<1>6. Published \subseteq Published'
  BY <1>2, AtEveryNodeAdds DEF Adds
<1>7. CASE o.type = "order"
  <2>1. OrderTerms \subseteq DOMAIN o
    BY <1>4, <1>7 DEF AppInv, OrdersAuthentic, SignedOrders, Of
  <2>2. "hash" \in DOMAIN o /\ "type" \in DOMAIN o
    BY <1>5, <1>7, <2>1 DEF WellFormed, OrderTerms
  <2>3. "authHash" \in DOMAIN o
    BY <1>4, <1>7 DEF AppInv, OrdersAuthentic, SignedOrders, Of
  <2>4. c.hash = next /\ c.type = o.type /\ c.authHash \in NamesOf(n, o)
    BY <1>1, <1>2, <1>7, <2>2, <2>3, CopySays
  <2>5. References(c) = {c.authHash} /\ References(o) = {o.authHash}
    BY <1>7, <2>4 DEF References
  <2>6. CASE c.authHash = o.authHash
    <3>1. Resolves(c)'
      BY <1>4, <1>6, <2>5, <2>6 DEF FitInv, HashesOK, Resolves
    <3>2. QED
      BY <1>2, <1>3, <1>7, <2>4, <3>1, OneMoreFit
  <2>7. CASE c.authHash # o.authHash
    <3>1. \E a \in Published : a.hash = c.authHash
      BY <2>4, <2>7 DEF NamesOf, Of, Published
    <3>2. Resolves(c)'
      BY <1>6, <2>5, <3>1 DEF Resolves
    <3>3. QED
      BY <1>2, <1>3, <1>7, <2>4, <3>2, OneMoreFit
  <2>8. QED
    BY <2>6, <2>7
<1>8. CASE o.type = "authorization"
  <2>1. "hash" \in DOMAIN o /\ "type" \in DOMAIN o
    BY <1>5, <1>8 DEF WellFormed, AuthTerms
  <2>2. c.hash = next /\ c.type = o.type
    BY <1>1, <1>2, <1>8, <2>1, CopySays
  <2>3. Resolves(c)'
    BY <1>8, <2>2, NamesNothing
  <2>4. QED
    BY <1>2, <1>3, <1>8, <2>2, <2>3, OneMoreFit
<1>9. QED
  BY <1>4, <1>7, <1>8

LEMMA ForgeFit ==
  ASSUME WorldInv, FitInv, NEW n, NEW f, NEW moved, ForgeReceipt(n, f, moved)
  PROVE  FitInv'
<1>1. PICK call, more : AtEveryNode({[BuildReceipt(next, call, moved, clock)
                                        EXCEPT !.key.fee = @ + more, !.by = "anyone"]})
  BY DEF ForgeReceipt
<1>2. PICK r : /\ AtEveryNode({r})
               /\ r = [BuildReceipt(next, call, moved, clock)
                         EXCEPT !.key.fee = @ + more, !.by = "anyone"]
  BY <1>1
<1>3. UNCHANGED <<tabVars, session>> /\ next' = next + 1 /\ Spends
  BY DEF ForgeReceipt, Spends
<1>4. r.type = "receipt" /\ r.hash = next
  BY <1>2 DEF BuildReceipt
<1>5. Resolves(r)'
  BY <1>4, NamesNothing
<1>6. QED
  BY <1>2, <1>3, <1>4, <1>5, OneMoreFit

\* What the other trader publishes: an order, and fills of it alone, of
\* makers that are at the nodes.
RivalMade(a, o, legs, fee, fills) ==
  /\ LegsOK(legs) /\ Len(legs) <= MaxLegs
  /\ \A i \in DOMAIN legs : EntryKnown(legs[i].order)
  /\ a.type = "authorization" /\ a.hash = next
  /\ o.type = "order" /\ o.hash = next + 1 /\ o.trader = Rival /\ o.authHash = next
  /\ \A f \in fills : \E i \in DOMAIN legs :
       f = BuildFill(next + 1 + i, legs[i], o, fee[i], clock)
  /\ AtEveryNode({a, o} \cup fills)

LEMMA RivalMakes ==
  ASSUME WorldInv, FitInv, NEW n \in Nodes, NEW form \in left.theirs, RivalPlaces(n, form)
  PROVE  \E a, o, legs, fee, fills : RivalMade(a, o, legs, fee, fills)
<1>1. next \in Nat \ {0} /\ clock \in Nat
  BY DEF WorldInv, ClockOK
<1>2. form.amount \in Nat /\ form.limit \in Nat
  BY DEF WorldInv, LeftOK, FormsOK
<1>3. PICK chain : chain = [read |-> TRUE, used |-> UsedKeys,
                  filled |-> ReadTotals(Eips(n), FilledOnChain),
                  bound |-> ReadTotals(Eips(n), BoundOnChain)]
  OBVIOUS
<1>4. ChainNumbers(chain)
  <2>1. /\ chain.filled = [e \in Eips(n) |-> FilledOnChain(e)]
        /\ chain.bound = [e \in Eips(n) |-> BoundOnChain(e)]
    BY <1>3 DEF ReadTotals
  <2>2. \A e : FilledOnChain(e) \in Nat /\ BoundOnChain(e) \in Nat
    BY ChainSumsAreNat DEF WorldInv
  <2>3. QED
    BY <2>1, <2>2 DEF ChainNumbers
<1>5. PICK objs : objs = stored[n]
  OBVIOUS
<1>6. Readable(objs) /\ objs \in SUBSET Published
  BY <1>5, ListingIsReadable DEF WorldInv, Published
<1>7. PICK orders : orders = DeriveState(objs, chain, clock).orders
  OBVIOUS
<1>8. PICK book : book = FundedWith(orders, Capacity({}))
  OBVIOUS
<1>9. BookOK(book) /\ BookKnown(book)
  <2>1. BookOK(orders) /\ BookKnown(orders)
    BY <1>4, <1>6, <1>7, BookIsTyped, EntriesKnown
  <2>2. QED
    BY <1>8, <2>1, FundingKeepsBook, FundedKnown
<1>10. PICK m : m = MatchOrder(book, form.side, form.amount, form.limit, Rival, clock)
  OBVIOUS
<1>11. LegsOK(m.legs) /\ Len(m.legs) <= MaxLegs
  BY <1>2, <1>9, <1>10, MatchNumbers
<1>12. PICK x : x = [side |-> form.side, price |-> form.limit, base |-> form.amount,
                     m |-> m, filled |-> Filled(m, form.amount), market |-> FALSE,
                     maxFee |-> IF form.side = "buy"
                                THEN MaxFeeForOrder(QuoteFor(form.amount, form.limit)) ELSE 0]
  OBVIOUS
<1>13. PICK a, o : /\ a = SignedBy(Rival, next, x, clock).auth
                   /\ o = SignedBy(Rival, next, x, clock).order
  OBVIOUS
<1>14. PICK legs : legs = m.legs
  OBVIOUS
<1>15. PICK fee : fee = [i \in DOMAIN legs |-> LegFee(form.side, legs[i])]
  OBVIOUS
<1>16. PICK fills : fills = {BuildFill(next + 1 + i, legs[i], o, LegFee(form.side, legs[i]), clock)
                               : i \in DOMAIN legs}
  OBVIOUS
<1>17. AtEveryNode({a, o} \cup fills)
  <2> DEFINE bk == FundedWith(DeriveState(stored[n], [read |-> TRUE, used |-> UsedKeys,
                     filled |-> ReadTotals(Eips(n), FilledOnChain),
                     bound |-> ReadTotals(Eips(n), BoundOnChain)], clock).orders, Capacity({}))
             mt == MatchOrder(bk, form.side, form.amount, form.limit, Rival, clock)
             terms == [side |-> form.side, price |-> form.limit, base |-> form.amount,
                       m |-> mt, filled |-> Filled(mt, form.amount), market |-> FALSE,
                       maxFee |-> IF form.side = "buy"
                                  THEN MaxFeeForOrder(QuoteFor(form.amount, form.limit)) ELSE 0]
             signed == SignedBy(Rival, next, terms, clock)
             fs == {BuildFill(next + 1 + i, mt.legs[i], signed.order,
                              LegFee(form.side, mt.legs[i]), clock) : i \in DOMAIN mt.legs}
  <2>1. AtEveryNode({signed.auth, signed.order} \cup fs)
    BY Zenon DEF RivalPlaces
  <2>2. bk = book
    BY <1>3, <1>5, <1>7, <1>8, Zenon
  <2> HIDE DEF bk
  <2>3. mt = m
    BY <1>10, <2>2, Zenon
  <2> HIDE DEF mt
  <2>4. terms = x
    BY <1>12, <2>3, Zenon
  <2> HIDE DEF terms
  <2>5. signed.auth = a /\ signed.order = o
    BY <1>13, <2>4, Zenon
  <2> HIDE DEF signed
  <2>6. fs = fills
    BY <1>14, <1>16, <2>3, <2>5, Zenon
  <2> HIDE DEF fs
  <2>7. QED
    BY <2>1, <2>5, <2>6
<1>18. \A f \in fills : \E i \in DOMAIN legs :
         f = BuildFill(next + 1 + i, legs[i], o, fee[i], clock)
  BY <1>15, <1>16
<1>19. \A i \in DOMAIN legs : EntryKnown(legs[i].order)
  <2>1. m \in Matches(book, form.amount)
    BY <1>2, <1>9, <1>10, MatchTakesLegs DEF BookOK, EntryOK
  <2>2. legs \in Seq(Legs(book))
    BY <1>14, <2>1 DEF Matches
  <2>3. \A i \in DOMAIN legs : legs[i] \in Legs(book)
    BY <2>2
  <2>4. QED
    BY <1>9, <2>3 DEF Legs, BookKnown
<1>20. /\ a.type = "authorization" /\ a.hash = next
       /\ o.type = "order" /\ o.hash = next + 1 /\ o.trader = Rival /\ o.authHash = next
  BY <1>13 DEF SignedBy, BuildAuth, BuildOrder
<1>21. RivalMade(a, o, legs, fee, fills)
  BY <1>11, <1>14, <1>17, <1>18, <1>19, <1>20 DEF RivalMade
<1>22. QED
  BY <1>21

LEMMA RivalFit ==
  ASSUME WorldInv, FitInv, NEW n \in Nodes, NEW form \in left.theirs, RivalPlaces(n, form)
  PROVE  FitInv'
<1>1. UNCHANGED <<tabVars, session>> /\ next' = next + 2 + MaxLegs /\ Spends
  BY DEF RivalPlaces, Spends
<1>0. PICK a, o, legs, fee, fills : RivalMade(a, o, legs, fee, fills)
  BY RivalMakes
<1>2. /\ LegsOK(legs) /\ Len(legs) <= MaxLegs
      /\ \A i \in DOMAIN legs : EntryKnown(legs[i].order)
      /\ a.type = "authorization" /\ a.hash = next
      /\ o.type = "order" /\ o.hash = next + 1 /\ o.trader = Rival /\ o.authHash = next
      /\ \A f \in fills : \E i \in DOMAIN legs :
           f = BuildFill(next + 1 + i, legs[i], o, fee[i], clock)
      /\ AtEveryNode({a, o} \cup fills)
  BY <1>0 DEF RivalMade
<1>3. PICK now \in Nat : now = next
  BY LaterNext
<1>4. PICK objs : objs = {a, o} \cup fills
  OBVIOUS
<1>5. Adds(objs) /\ objs \subseteq Published'
  <2>1. AtEveryNode(objs)
    BY <1>2, <1>4
  <2>2. objs \subseteq stored'[n]
    BY <2>1 DEF AtEveryNode
  <2>3. QED
    BY <2>1, <2>2, AtEveryNodeAdds DEF Published
<1>6. \A i \in DOMAIN legs : i \in Nat /\ i >= 1
  <2>1. PICK S : legs \in Seq(S)
    BY <1>2 DEF LegsOK
  <2>2. QED
    BY <2>1
<1>7. ASSUME NEW f \in fills
      PROVE  \E i \in DOMAIN legs :
               /\ f = BuildFill(now + 1 + i, legs[i], o, fee[i], clock)
               /\ f.type = "fill" /\ f.hash = now + 1 + i /\ f.takerOrder = o.hash
               /\ References(f) = {legs[i].order.hash, o.hash, legs[i].order.auth.hash, a.hash}
  <2>1. PICK i \in DOMAIN legs : f = BuildFill(now + 1 + i, legs[i], o, fee[i], clock)
    BY <1>2, <1>3
  <2>2. /\ f.type = "fill" /\ f.hash = now + 1 + i /\ f.takerOrder = o.hash
        /\ f.makerOrder = legs[i].order.hash /\ f.makerAuth = legs[i].order.auth.hash
        /\ f.takerAuth = o.authHash
    BY <2>1 DEF BuildFill
  <2>3. o.authHash = a.hash
    BY <1>2
  <2>4. References(f) = {legs[i].order.hash, o.hash, legs[i].order.auth.hash, a.hash}
    BY <2>2, <2>3 DEF References
  <2>5. QED
    BY <2>1, <2>2, <2>4
<1>8. Fresh(objs)
  <2>1. \A f \in fills : f.hash \in Nat /\ now + 1 < f.hash
    BY <1>6, <1>7
  <2>2. \A f, g \in fills : f.hash = g.hash => f = g
    <3>1. ASSUME NEW f \in fills, NEW g \in fills, f.hash = g.hash
          PROVE  f = g
      <4>1. PICK i \in DOMAIN legs : /\ f = BuildFill(now + 1 + i, legs[i], o, fee[i], clock)
                                     /\ f.hash = now + 1 + i
        BY <1>7
      <4>2. PICK j \in DOMAIN legs : /\ g = BuildFill(now + 1 + j, legs[j], o, fee[j], clock)
                                     /\ g.hash = now + 1 + j
        BY <1>7
      <4>3. i = j
        BY <1>6, <3>1, <4>1, <4>2
      <4>4. QED
        BY <4>1, <4>2, <4>3
    <3>2. QED
      BY <3>1
  <2>3. a.hash = now /\ o.hash = now + 1
    BY <1>2, <1>3
  <2>4. \A p \in objs : p.hash \in Nat /\ now <= p.hash
    BY <1>4, <2>1, <2>3
  <2>5. Unique(objs)
    BY <1>4, <2>1, <2>2, <2>3 DEF Unique
  <2>6. QED
    BY <1>3, <2>4, <2>5 DEF Fresh
<1>9. \A p \in objs : Resolves(p)'
  <2>1. a \in Published' /\ o \in Published' /\ Published \subseteq Published'
    BY <1>4, <1>5 DEF Adds
  <2>2. Resolves(a)'
    BY <1>2, NamesNothing
  <2>3. Resolves(o)'
    <3>1. References(o) = {a.hash}
      BY <1>2 DEF References
    <3>2. QED
      BY <2>1, <3>1 DEF Resolves
  <2>4. ASSUME NEW f \in fills
        PROVE  Resolves(f)'
    <3>1. PICK i \in DOMAIN legs :
            References(f) = {legs[i].order.hash, o.hash, legs[i].order.auth.hash, a.hash}
      BY <1>7
    <3>2. EntryKnown(legs[i].order)
      BY <1>2
    <3>3. \A h \in References(f) : \E p \in Published' : p.hash = h
      BY <2>1, <3>1, <3>2 DEF EntryKnown, Of
    <3>4. QED
      BY <3>3 DEF Resolves
  <2>5. QED
    BY <1>4, <2>2, <2>3, <2>4
<1>10. NoneOfMine(objs)
  <2>1. \A f \in Of(objs, "fill") : f.takerOrder = now + 1
    BY <1>2, <1>3, <1>4, <1>7 DEF Of
  <2>2. \A p \in Of(objs, "order") : p = o
    BY <1>2, <1>4, <1>7 DEF Of
  <2>3. Rival # Me
    BY AppAssumption
  <2>4. QED
    BY <1>2, <1>3, <2>1, <2>2, <2>3 DEF NoneOfMine
<1>11. next' \in Nat /\ next <= next'
  BY <1>1, <1>3, MarketAssumption
<1>12. QED
  BY <1>1, <1>5, <1>8, <1>9, <1>10, <1>11, OthersObjectsFit

LEMMA OutsideFit ==
  ASSUME AppInv, WorldInv, FitInv, Outside
  PROVE  FitInv'
<1>1. ASSUME NEW n \in Nodes, NEW o, NEW target, OtherRevokes(n, o, target)
      PROVE  FitInv'
  <2>1. PICK r : r = [BuildRevocation(next, AuthOf(o, Reading(stored[n])), clock) EXCEPT !.target = target]
    OBVIOUS
  <2>2. UNCHANGED <<tabVars, session>> /\ next' = next + 1 /\ Spends /\ AtEveryNode({r})
    BY <1>1, <2>1 DEF OtherRevokes, Spends
  <2>3. r.type = "revocation" /\ r.hash = next
    BY <2>1 DEF BuildRevocation
  <2>4. Resolves(r)'
    BY <2>3, NamesNothing
  <2>5. QED
    BY <2>2, <2>3, <2>4, OneMoreFit
<1>2. CASE Propagate
  <2>1. PICK none : none = {}
    OBVIOUS
  <2>2. UNCHANGED <<tabVars, session>> /\ next' = next /\ Spends
    BY <1>2 DEF Propagate, Spends
  <2>3. Adds(none)
    BY <1>2, <2>1, PropagateAdds DEF AppInv
  <2>4. Fresh(none) /\ NoneOfMine(none) /\ \A p \in none : Resolves(p)'
    BY <2>1 DEF Fresh, Unique, NoneOfMine, Of
  <2>5. QED
    BY <2>2, <2>3, <2>4, LaterNext, OthersObjectsFit
<1>3. CASE Tick \/ \E n : NodeDown(n) \/ NodeUp(n)
  BY <1>3, QuietFit
<1>4. QED
  BY <1>1, <1>2, <1>3, ExecuteFit, RivalFit, RepublishFit, ForgeFit DEF Outside

-----------------------------------------------------------------------------
(***************************************************************************)
(* The invariant.                                                          *)
(***************************************************************************)
LEMMA InitFit ==
  ASSUME Init
  PROVE  FitInv
<1>1. /\ next = InitialHash /\ view = NoState /\ refresh = Quiet /\ session = Quiet
  BY DEF Init
<1>2. PICK s \in DOMAIN Allowed : left = Allowed[s] /\ stored = [n \in Nodes |-> Listings[s]]
  BY DEF Init
<1>3. PICK objs : objs = Listings[s]
  OBVIOUS
<1>4. /\ FillsFit(objs) /\ Unique(objs)
      /\ \A o \in objs : References(o) \subseteq 1..(InitialHash - 1)
  <2>1. s \in DOMAIN Listings
    BY AppAssumption
  <2>2. QED
    BY <1>3, <2>1, ListingsFit DEF Unique
<1>5. Published = objs \/ Published = {}
  <2>1. CASE Nodes = {}
    BY <2>1 DEF Published
  <2>2. CASE Nodes # {}
    BY <1>2, <1>3, <2>2 DEF Published
  <2>3. QED
    BY <2>1, <2>2
<1>6. FillsFit(Published)
  <2>1. \A none : none = {} => FillsFit(none)
    BY DEF FillsFit, Of
  <2>2. QED
    BY <1>4, <1>5, <2>1
<1>7. InHand = {}
  BY <1>1 DEF InHand, Signing, Quiet
<1>8. HashesOK
  <2>1. InitialHash \in Nat
    BY AppAssumption
  <2>2. \A o \in Published : Resolves(o)
    BY <1>4, <1>5, <2>1 DEF Resolves
  <2>3. Unique(Published \cup InHand)
    BY <1>4, <1>5, <1>7 DEF Unique
  <2>4. QED
    BY <1>1, <1>7, <2>1, <2>2, <2>3 DEF HashesOK
<1>9. BooksKnown
  BY <1>1 DEF BooksKnown, BookKnown, NoState, Quiet
<1>10. HandFit
  BY <1>1 DEF HandFit, Signing, Quiet
<1>11. FormsSided
  BY <1>2, AppAssumption DEF FormsSided
<1>12. QED
  BY <1>6, <1>8, <1>9, <1>10, <1>11 DEF FitInv

LEMMA NextFit ==
  ASSUME AppInv, WorldInv, FitInv, [Next]_vars
  PROVE  FitInv'
<1>1. CASE UNCHANGED vars
  <2>1. /\ stored' = stored /\ next' = next /\ session' = session /\ left' = left
        /\ view' = view /\ refresh' = refresh
    BY <1>1 DEF vars, nodeVars, tabVars
  <2>2. HandRests /\ Spends
    BY <2>1 DEF HandRests, Spends
  <2>3. QED
    BY <2>1, <2>2, LaterNext, RestFit
<1>2. CASE Interval \/ RefreshStep
  BY <1>2, RefreshFit
<1>3. CASE UserStarts
  <2>1. CASE \E c \in left.forms : Place(c)
    BY <2>1, PlaceFit
  <2>2. CASE \E o \in MyOpen, onChain \in BOOLEAN : Cancel(o, onChain)
    BY <2>2, CancelFit
  <2>3. CASE (\E v \in view.fills : SettleNow(v.hash)) \/ Unwrap
    BY <2>3, QuietFit
  <2>4. QED
    BY <1>3, <2>1, <2>2, <2>3 DEF UserStarts
<1>4. CASE SessionStep
  <2>1. CASE Wrap \/ Approve \/ Sign
    BY <2>1, WrapFit, SignFit
  <2>2. CASE PublishAuth \/ PublishOrder \/ PublishFill
    BY <2>2, AuthFit, FillFit
  <2>3. CASE PublishRevocation \/ PublishReceipt
    BY <2>3, LastPublicationsFit
  <2>4. CASE RevokeOnChain \/ CheckFits \/ Finish
    BY <2>4, QuietFit
  <2>5. CASE SendSettlement
    BY <2>5, SendFit
  <2>6. QED
    BY <1>4, <2>1, <2>2, <2>3, <2>4, <2>5 DEF SessionStep
<1>5. CASE Decline
  BY <1>5, QuietFit
<1>6. CASE PublishFails \/ Reload
  BY <1>6, FailFit, ReloadFit
<1>7. CASE Outside
  BY <1>7, OutsideFit
<1>8. QED
  BY <1>1, <1>2, <1>3, <1>4, <1>5, <1>6, <1>7 DEF Next

LEMMA FitInvariance == Spec => [](AppInv /\ WorldInv /\ FitInv)
<1>1. Init => AppInv /\ WorldInv /\ FitInv
  BY InitApp, InitWorld, InitFit
<1>2. AppInv /\ WorldInv /\ FitInv /\ [Next]_vars => (AppInv /\ WorldInv /\ FitInv)'
  BY NextApp, NextWorld, NextFit
<1>3. QED
  BY <1>1, <1>2, PTL DEF Spec

\* Every fill the app publishes for its user's order is one the contract can
\* take whole: its fee is within the buyer's pro rata cap for it, and the fills
\* of one order together, at whatever nodes, stay within what the user signed,
\* for any prices, sizes and fee rate (matchOrder, legFee, buildAuthorization
\* and buildFill, aon.ts:432-549).
THEOREM FillsAlwaysFit == Spec => []PublishedFillsFit
<1>1. FitInv => PublishedFillsFit
  BY DEF FitInv, PublishedFillsFit
<1>2. QED
  BY <1>1, FitInvariance, PTL

-----------------------------------------------------------------------------
(***************************************************************************)
(* What is said to have settled.                                           *)
(***************************************************************************)
LEMMA MinOfPair ==
  ASSUME NEW a \in Nat, NEW b \in Nat, b <= a
  PROVE  Min({a} \cup {b}) = b
<1>1. PICK S : S = {a} \cup {b}
  OBVIOUS
<1>2. b \in S /\ \A y \in S : b <= y
  BY <1>1
<1>3. \A z \in S : (\A y \in S : z <= y) => z = b
  BY <1>1
<1>4. Min(S) = b
  BY <1>2, <1>3 DEF Min
<1>5. QED
  BY <1>1, <1>4

\* The chain's nonces are what the tab has read of them.
NoncesRead(chain) == chain.read = TRUE /\ chain.used = usedCache

\* A settled fill that is shown with one receipt, of no more than its size, is
\* shown for the receipt's amount.
LEMMA ShownWithReceipt ==
  ASSUME NEW objs, NEW chain, NoncesRead(chain), NEW now, NEW x, x.key \in usedCache,
         NEW c, ReceiptFor(x, objs) = {c}, x.obj.base \in Nat, c.base \in Nat, c.base <= x.obj.base
  PROVE  FillView(x, Reading(objs), chain, now).base = c.base
<1>1. PICK receipts : receipts = ReceiptFor(x, Reading(objs).objs)
  OBVIOUS
<1>2. receipts = {c}
  BY <1>1, ReadingHolds
<1>3. {d.base : d \in receipts} = {c.base}
  BY <1>2
<1>4. Min({x.obj.base} \cup {d.base : d \in receipts}) = c.base
  BY <1>3, MinOfPair
<1>5. FillView(x, Reading(objs), chain, now).base = Min({x.obj.base} \cup {d.base : d \in receipts})
  BY <1>1 DEF FillView, NoncesRead
<1>6. QED
  BY <1>4, <1>5

\* The view of a settled fill is of a trade, and for what the trade moved when
\* the receipt it is shown with is its settler's.
LEMMA SettledViews ==
  ASSUME AppInv, WorldInv, FitInv, NEW objs \in SUBSET Published, Readable(objs),
         NEW chain, NoncesRead(chain), NEW now, NEW x \in Counted(Reading(objs)),
         NEW v, v = FillView(x, Reading(objs), chain, now), v.status = "settled"
  PROVE  \E t \in trades :
           /\ t.key = v.key
           /\ (\E r \in Of(objs, "receipt") : r.hash \in v.receipts /\ r.by = "settler")
                => v.base = t.base
<1>1. /\ v.key = x.key /\ x.key.base = x.obj.base /\ x.obj.base \in Nat /\ x.key \in usedCache
  BY ViewsOfFills DEF NoncesRead
<1>2. PICK t \in trades : t.key = x.key
  BY <1>1 DEF WorldInv, TabOK, UsedKeys
<1>3. /\ t.base \in Nat /\ t.base <= t.key.base
      /\ \A u \in trades : u.key = t.key => u = t
  BY DEF WorldInv, TradesOK
<1>4. ASSUME NEW r \in Of(objs, "receipt"), r.hash \in v.receipts, r.by = "settler"
      PROVE  v.base = t.base
  <2>1. v.receipts = {c.hash : c \in ReceiptFor(x, objs)}
    BY ReadingHolds DEF FillView
  <2>2. PICK c \in ReceiptFor(x, objs) : c.hash = r.hash
    BY <1>4, <2>1
  <2>3. \A d \in ReceiptFor(x, objs) : d \in Published /\ d.key = x.key
    BY DEF ReceiptFor, Of
  <2>4. Unique(Published) /\ \A d \in Published : d.hash \in Nat
    BY DEF FitInv, HashesOK, Unique, WorldInv, ObjectsOK, ObjOK
  <2>5. c = r
    BY <2>2, <2>3, <2>4 DEF Of, Unique
  <2>6. ReceiptFor(x, objs) = {c}
    <3>1. ASSUME NEW d \in ReceiptFor(x, objs)
          PROVE  d = c
      <4>1. d.hash <= c.hash /\ c.hash <= d.hash
        BY DEF ReceiptFor
      <4>2. QED
        BY <2>3, <2>4, <4>1 DEF Unique
    <3>2. QED
      BY <3>1
  <2>7. PICK u \in trades : u.key = r.key /\ u.base = r.base
    <3>1. r \in Published /\ r.type = "receipt"
      BY DEF Of
    <3>2. Sincere(r)
      BY <3>1 DEF AppInv
    <3>3. QED
      BY <1>4, <3>1, <3>2 DEF Sincere, Reports
  <2>8. c.base = t.base
    BY <1>2, <1>3, <2>3, <2>5, <2>7
  <2>9. c.base \in Nat /\ c.base <= x.obj.base
    BY <1>1, <1>2, <1>3, <2>8
  <2>10. PICK w : w = FillView(x, Reading(objs), chain, now)
    OBVIOUS
  <2>11. w.base = c.base
    BY <1>1, <2>6, <2>9, <2>10, ShownWithReceipt
  <2>12. QED
    BY <2>8, <2>10, <2>11
<1>5. QED
  BY <1>1, <1>2, <1>4

\* A settler's receipt reports what its settlement moved. Whatever receipts of
\* whatever amounts and keys anyone else publishes, and however the reads of a
\* refresh fall among the settlements, a fill is shown as settled only if the
\* contract settled it, and for the amount that moved when the receipt it is
\* shown with is its settler's (page.tsx:566-579, aon.ts:245-288).
THEOREM ReceiptsReportMoves == Spec => ReceiptsMatchMoves
<1>1. ASSUME AppInv, WorldInv, FitInv, ReadBound, NEW v \in refresh'.derived.fills,
             v.status = "settled"
      PROVE  \E t \in trades :
               /\ t.key = v.key
               /\ (\E r \in Of(refresh.objs, "receipt") : r.hash \in v.receipts /\ r.by = "settler")
                    => v.base = t.base
  <2>1. PICK chain : NoncesRead(chain) /\ refresh'.derived = DeriveState(refresh.objs, chain, clock)
    BY <1>1, BookRead DEF NoncesRead
  <2>2. PICK objs \in SUBSET Published : objs = refresh.objs
    <3>1. refresh.pc = "bound"
      BY <1>1 DEF ReadBound
    <3>2. QED
      BY <1>1, <3>1 DEF AppInv, RefreshInv
  <2>3. Readable(objs)
    BY <1>1, ListingIsReadable DEF WorldInv
  <2>4. PICK x \in Counted(Reading(objs)) : v = Listed(FillView(x, Reading(objs), chain, clock))
    BY <1>1, <2>1, <2>2 DEF DeriveState
  <2>5. PICK view1 : view1 = FillView(x, Reading(objs), chain, clock)
    OBVIOUS
  <2>6. /\ v.key = view1.key /\ v.status = view1.status
        /\ v.base = view1.base /\ v.receipts = view1.receipts
    BY <2>4, <2>5 DEF Listed
  <2>7. view1.status = "settled"
    BY <1>1, <2>6
  <2>8. \E t \in trades :
          /\ t.key = view1.key
          /\ (\E r \in Of(objs, "receipt") : r.hash \in view1.receipts /\ r.by = "settler")
               => view1.base = t.base
    BY <1>1, <2>1, <2>3, <2>5, <2>7, SettledViews
  <2>9. QED
    BY <2>2, <2>6, <2>8
<1>2. AppInv /\ WorldInv /\ FitInv => (ReadBound =>
        \A v \in refresh'.derived.fills : v.status = "settled" =>
          \E t \in trades :
            /\ t.key = v.key
            /\ (\E r \in Of(refresh.objs, "receipt") : r.hash \in v.receipts /\ r.by = "settler")
                 => v.base = t.base)
  BY <1>1
<1>3. AppInv => \A r \in Of(Published, "receipt") : r.by = "settler" =>
                  \E t \in trades : t.key = r.key /\ t.base = r.base
  BY DEF AppInv, Sincere, Reports, Of
<1>4. QED
  BY <1>2, <1>3, FitInvariance, PTL DEF ReceiptsMatchMoves

-----------------------------------------------------------------------------
(***************************************************************************)
(* The fourth layer: what the books say is open, and the allowance for it. *)
(***************************************************************************)
CoverFields == {"eip", "side", "base", "exclusiveBase", "exclusiveUntil", "filled", "pending",
                "remaining", "voided", "boundFilled"}

\* What an entry says is open is all there is but for what it knows filled, and
\* a reserved part that it says lapsed.
EntryOpen(e) ==
  /\ CoverFields \subseteq DOMAIN e
  /\ {e.base, e.exclusiveBase, e.exclusiveUntil, e.filled, e.pending, e.remaining, e.boundFilled}
       \subseteq Nat
  /\ (IF e.voided THEN e.base - e.exclusiveBase + e.boundFilled ELSE e.base) - e.filled
       <= e.remaining + e.pending

\* It is of a published order, whose window has closed once it says so.
EntryTrue(e) ==
  /\ e.voided => e.exclusiveUntil <= clock
  /\ \E o \in Of(Published, "order") :
       o.eip = e.eip /\ o.side = e.side /\ o.exclusiveUntil = e.exclusiveUntil
BookHolds(orders) == \A e \in orders : EntryOpen(e) /\ EntryTrue(e)
BooksHold ==
  BookHolds(view.orders) /\ (refresh.pc = "capacity" => BookHolds(refresh.derived.orders))

\* From the click to the signature: the open orders shown at the click, what
\* their sells can still pull, and the allowance there is or will be.
Placing == session.pc \in {"wrap", "reset", "approve", "sign"}
PlacingFields == {"shown", "right", "side", "need", "token", "approval"}
ShownHolds ==
  /\ PlacingFields \subseteq DOMAIN session /\ session.need \in Nat
  /\ IsFiniteSet(session.shown) /\ BookHolds(session.shown)
SellsOf(orders) == {e \in orders : e.side = "sell"}
PullOf(orders) == SumFunction([e \in SellsOf(orders) |-> CanStillPull(e)])
ShowsAll(orders) ==
  \A o \in Of(Published, "order") : o.trader = Me /\ CanFill(o) => \E e \in orders : e.eip = o.eip
SellCovered ==
  /\ session.token = "base" /\ ShowsAll(session.shown)
  /\ session.need + PullOf(session.shown)
       <= IF session.pc = "sign" THEN allow[Me].base ELSE session.approval

CoverInv ==
  /\ BooksHold /\ (Placing => ShownHolds)
  /\ Placing /\ session.side = "sell" /\ session.right => SellCovered

-----------------------------------------------------------------------------
(***************************************************************************)
(* What a settlement changes of what an order can pull.                    *)
(***************************************************************************)
LEMMA SumBaseAdds ==
  ASSUME NEW S, IsFiniteSet(S), NEW y, y \notin S, \A x \in S \cup {y} : x.base \in Nat
  PROVE  SumBase(S \cup {y}) = SumBase(S) + y.base
<1>1. PICK T : T = S \cup {y}
  OBVIOUS
<1>2. PICK f : f = [x \in T |-> x.base]
  OBVIOUS
<1>3. \A x \in T : f[x] = x.base /\ f[x] \in Int
  BY <1>1, <1>2
<1>4. IsFiniteSet(T)
  BY <1>1, FS_AddElement
<1>5. SumBase(T) = SumFunctionOnSet(f, T)
  BY <1>3, <1>4, SumBaseBy
<1>6. SumBase(S) = SumFunctionOnSet(f, S)
  BY <1>1, <1>3, SumBaseBy
<1>7. SumFunctionOnSet(f, T) = SumFunctionOnSet(f, S) + f[y]
  BY <1>1, <1>3, SumAdds
<1>8. QED
  BY <1>1, <1>3, <1>5, <1>6, <1>7

LEMMA FilledGrows ==
  ASSUME TradesOK, NEW t, t \notin trades, t.base \in Nat, trades' = trades \cup {t}, NEW e
  PROVE  /\ FilledOnChain(e)' = FilledOnChain(e)
              + (IF e \in {t.key.maker, t.key.taker} THEN t.base ELSE 0)
         /\ BoundOnChain(e)' = BoundOnChain(e)
              + (IF e \in {t.key.maker, t.key.taker} /\ e \in t.recorded THEN t.base ELSE 0)
<1>1. PICK P : P = Involving(e)
  OBVIOUS
<1>2. PICK Q : Q = {u \in Involving(e) : e \in u.recorded}
  OBVIOUS
<1>3. IsFiniteSet(P) /\ IsFiniteSet(Q) /\ P \subseteq trades /\ Q \subseteq trades
  <2>1. P \subseteq trades /\ Q \subseteq trades
    BY <1>1, <1>2 DEF Involving
  <2>2. QED
    BY <2>1, FS_Subset DEF TradesOK
<1>4. FilledOnChain(e) = SumBase(P) /\ BoundOnChain(e) = SumBase(Q)
  BY <1>1, <1>2 DEF FilledOnChain, BoundOnChain
<1>5. PICK P2, Q2 : P2 = Involving(e)' /\ Q2 = {u \in Involving(e)' : e \in u.recorded}
  OBVIOUS
<1>6. FilledOnChain(e)' = SumBase(P2) /\ BoundOnChain(e)' = SumBase(Q2)
  BY <1>5 DEF FilledOnChain, BoundOnChain
<1>7. P2 = IF e \in {t.key.maker, t.key.taker} THEN P \cup {t} ELSE P
  BY <1>1, <1>5 DEF Involving
<1>8. Q2 = IF e \in {t.key.maker, t.key.taker} /\ e \in t.recorded THEN Q \cup {t} ELSE Q
  BY <1>2, <1>5 DEF Involving
<1>9. \A u \in trades \cup {t} : u.base \in Nat
  BY DEF TradesOK
<1>10. SumBase(P \cup {t}) = SumBase(P) + t.base /\ SumBase(Q \cup {t}) = SumBase(Q) + t.base
  BY <1>3, <1>9, SumBaseAdds
<1>11. SumBase(P) \in Nat /\ SumBase(Q) \in Nat
  BY <1>3, <1>9, SumBaseIsNat
<1>12. QED
  BY <1>4, <1>6, <1>7, <1>8, <1>10, <1>11

\* The trade a settlement makes; only orders whose window is open record it.
LEMMA SettledTrade ==
  ASSUME TradesOK, NEW call, CallOK(call), Accepts(call), SettlesOnChain(call)
  PROVE  \E t : /\ trades' = trades \cup {t} /\ t \notin trades /\ t.key = call.key
                /\ t.base = FittingOf(call)
                /\ \A e \in t.recorded : \E x \in {call.maker, call.taker} : x.eip = e /\ InWindow(x)
<1>1. PICK t : /\ trades' = trades \cup {t} /\ t.key = call.key /\ t.base = FittingOf(call)
               /\ \A e \in t.recorded : \E x \in {BuyOf(call), SellOf(call)} :
                    x.eip = e /\ InWindow(x)
  BY TradeMade
<1>2. t \notin trades
  BY <1>1 DEF Accepts, UsedKeys
<1>3. {BuyOf(call), SellOf(call)} \subseteq {call.maker, call.taker}
  BY DEF BuyOf, SellOf
<1>4. QED
  BY <1>1, <1>2, <1>3

\* The seller's allowance pays for it, and nobody else's.
LEMMA SellerDelivers ==
  ASSUME MoneyOK, Me \in Traders, NEW call, SettlesOnChain(call), FittingOf(call) \in Nat
  PROVE  allow'[Me].base = allow[Me].base -
           (IF SellOf(call).trader = Me THEN FittingOf(call) ELSE 0)
<1>1. PICK b, s : b = BuyOf(call).trader /\ s = SellOf(call).trader
  OBVIOUS
<1>2. PICK base \in Nat : base = FittingOf(call)
  OBVIOUS
<1>3. PICK paid : paid = QuoteFor(base, call.fill.price) + FeeOf(call, base)
  OBVIOUS
<1>4. PICK f : f = Moved(allow, b, "quote", -paid)
  OBVIOUS
<1>5. allow' = Moved(f, s, "base", -base)
  BY <1>1, <1>2, <1>3, <1>4, Zenon DEF SettlesOnChain
<1>6. allow \in [Traders -> [base : Nat, quote : Nat]]
  BY DEF MoneyOK, Allowance
<1>7. DOMAIN f = Traders /\ f[Me].base = allow[Me].base /\ "base" \in DOMAIN f[Me]
  BY <1>4, <1>6 DEF Moved
<1>8. allow[Me].base \in Nat
  BY <1>6
<1>9. CASE s = Me
  <2>1. allow'[Me].base = f[Me].base + (-base)
    BY <1>5, <1>7, <1>9 DEF Moved
  <2>2. QED
    BY <1>1, <1>2, <1>7, <1>8, <1>9, <2>1
<1>10. CASE s # Me
  <2>1. allow'[Me].base = f[Me].base
    BY <1>5, <1>7, <1>10 DEF Moved
  <2>2. QED
    BY <1>1, <1>7, <1>8, <1>10, <2>1
<1>11. QED
  BY <1>9, <1>10

\* A sum falls by what one of its terms falls by, when none grows.
LEMMA SumFalls ==
  ASSUME NEW S, IsFiniteSet(S), NEW f, NEW g, NEW n \in Nat,
         \A x \in S : f[x] \in Int /\ g[x] \in Int /\ g[x] <= f[x],
         n = 0 \/ \E y \in S : g[y] <= f[y] - n
  PROVE  /\ SumFunctionOnSet(f, S) \in Int /\ SumFunctionOnSet(g, S) \in Int
         /\ SumFunctionOnSet(g, S) <= SumFunctionOnSet(f, S) - n
<1> DEFINE Good == {T \in SUBSET S : SumFunctionOnSet(g, T) <= SumFunctionOnSet(f, T)}
<1>1. \A T \in SUBSET S : SumFunctionOnSet(f, T) \in Int /\ SumFunctionOnSet(g, T) \in Int
  <2>1. ASSUME NEW T \in SUBSET S
        PROVE  SumFunctionOnSet(f, T) \in Int /\ SumFunctionOnSet(g, T) \in Int
    <3>1. IsFiniteSet(T)
      BY FS_Subset
    <3>2. QED
      BY <3>1, SumType
  <2>2. QED
    BY <2>1
<1>2. ASSUME NEW T \in SUBSET S, \A x \in T : T \ {x} \in Good
      PROVE  T \in Good
  <2>1. CASE T = {}
    BY <2>1, SumEmpty
  <2>2. CASE T # {}
    <3>1. PICK x \in T : x \in S
      BY <2>2
    <3>2. PICK P : P = T \ {x}
      OBVIOUS
    <3>3. IsFiniteSet(T)
      BY FS_Subset
    <3>4. /\ SumFunctionOnSet(f, T) = f[x] + SumFunctionOnSet(f, P)
          /\ SumFunctionOnSet(g, T) = g[x] + SumFunctionOnSet(g, P)
      BY <3>2, <3>3, SumWithout
    <3>5. SumFunctionOnSet(g, P) <= SumFunctionOnSet(f, P)
      BY <1>2, <3>2
    <3>6. SumFunctionOnSet(f, P) \in Int /\ SumFunctionOnSet(g, P) \in Int
      BY <1>1, <3>2
    <3>7. SumFunctionOnSet(g, T) <= SumFunctionOnSet(f, T)
      BY <3>1, <3>4, <3>5, <3>6
    <3>8. QED
      BY <3>7
  <2>3. QED
    BY <2>1, <2>2
<1>3. \A T \in SUBSET S : SumFunctionOnSet(g, T) <= SumFunctionOnSet(f, T)
  <2>1. SUBSET S \subseteq Good
    <3> HIDE DEF Good
    <3>1. QED
      BY <1>2, SubsetInduction
  <2>2. QED
    BY <2>1
<1>4. CASE n = 0
  BY <1>1, <1>3, <1>4
<1>5. CASE \E y \in S : g[y] <= f[y] - n
  <2>1. PICK y \in S : g[y] <= f[y] - n
    BY <1>5
  <2>2. PICK P : P = S \ {y}
    OBVIOUS
  <2>3. /\ SumFunctionOnSet(f, S) = f[y] + SumFunctionOnSet(f, P)
        /\ SumFunctionOnSet(g, S) = g[y] + SumFunctionOnSet(g, P)
    BY <2>2, SumWithout
  <2>4. /\ SumFunctionOnSet(g, P) <= SumFunctionOnSet(f, P)
        /\ SumFunctionOnSet(f, P) \in Int /\ SumFunctionOnSet(g, P) \in Int
    BY <1>1, <1>3, <2>2
  <2>5. f[y] \in Int /\ g[y] \in Int
    OBVIOUS
  <2>6. SumFunctionOnSet(g, S) <= SumFunctionOnSet(f, S) - n
    BY <2>1, <2>3, <2>4, <2>5
  <2>7. QED
    BY <1>1, <2>6
<1>6. QED
  BY <1>4, <1>5

LEMMA PullOfSell ==
  ASSUME TradesOK, NEW e, EntryOpen(e), e.side = "sell"
  PROVE  /\ CanStillPull(e) = (IF e.voided THEN e.base - e.exclusiveBase + BoundOnChain(e.eip)
                               ELSE e.base) - FilledOnChain(e.eip)
         /\ CanStillPull(e) \in Int
<1>1. FilledOnChain(e.eip) \in Nat /\ BoundOnChain(e.eip) \in Nat
  BY ChainSumsAreNat
<1>2. CanStillPull(e) = (IF e.voided THEN e.base - e.exclusiveBase + BoundOnChain(e.eip)
                         ELSE e.base) - FilledOnChain(e.eip)
  BY DEF CanStillPull
<1>3. e.base \in Nat /\ e.exclusiveBase \in Nat
  BY DEF EntryOpen
<1>4. QED
  BY <1>1, <1>2, <1>3

LEMMA PullOfSells ==
  ASSUME NEW orders
  PROVE  PullOf(orders) = SumFunctionOnSet([e \in SellsOf(orders) |-> CanStillPull(e)], SellsOf(orders))
  BY DEF PullOf, SumFunction

\* What the shown sells can pull falls by what one of them does.
LEMMA PullsFall ==
  ASSUME NEW orders, IsFiniteSet(orders), TradesOK, \A e \in orders : EntryOpen(e), NEW n \in Nat,
         \A e \in SellsOf(orders) : CanStillPull(e)' \in Int /\ CanStillPull(e)' <= CanStillPull(e),
         n = 0 \/ \E e \in SellsOf(orders) : CanStillPull(e)' <= CanStillPull(e) - n
  PROVE  /\ PullOf(orders) \in Int /\ PullOf(orders)' \in Int
         /\ PullOf(orders)' <= PullOf(orders) - n
<1>1. PICK S : S = SellsOf(orders)
  OBVIOUS
<1>2. IsFiniteSet(S) /\ \A e \in S : EntryOpen(e) /\ e.side = "sell"
  BY <1>1, FS_Subset DEF SellsOf
<1>3. PICK f : f = [e \in S |-> CanStillPull(e)]
  OBVIOUS
<1>4. PICK g : g = [e \in S |-> CanStillPull(e)']
  OBVIOUS
<1>5. \A e \in S : CanStillPull(e) \in Int
  BY <1>2, PullOfSell
<1>6. \A e \in S : CanStillPull(e)' \in Int
  BY <1>1
<1>7. PullOf(orders) = SumFunctionOnSet(f, S)
  BY <1>1, <1>3, PullOfSells
<1>8. PullOf(orders)' = SumFunctionOnSet(g, S)
  <2>1. SellsOf(orders)' = S
    BY <1>1 DEF SellsOf
  <2>2. PullOf(orders)' = SumFunctionOnSet([e \in SellsOf(orders)' |-> CanStillPull(e)'], SellsOf(orders)')
    BY DEF PullOf, SumFunction
  <2>3. QED
    BY <1>4, <2>1, <2>2
<1>9. \A e \in S : f[e] \in Int /\ g[e] \in Int /\ g[e] <= f[e]
  BY <1>1, <1>3, <1>4, <1>5, <1>6
<1>10. n = 0 \/ \E e \in S : g[e] <= f[e] - n
  BY <1>1, <1>3, <1>4
<1>11. QED
  BY <1>2, <1>7, <1>8, <1>9, <1>10, SumFalls

LEMMA PullsStay ==
  ASSUME NEW orders, trades' = trades
  PROVE  PullOf(orders)' = PullOf(orders)
  BY DEF PullOf, SellsOf, CanStillPull, FilledOnChain, BoundOnChain, Involving

\* What a call could settle, and how its orders relate to the published ones.
CallHolds(call) ==
  /\ CallOK(call) /\ call.key.maker = call.maker.eip /\ call.key.taker = call.taker.eip
  /\ {call.maker, call.taker} \subseteq Of(Published, "order")

LEMMA PublishedCalls ==
  ASSUME WorldInv, NEW n \in Nodes, NEW hash, NEW call \in SettleCalls(stored[n], hash)
  PROVE  CallHolds(call)
<1>1. stored[n] \subseteq Published /\ \A o \in stored[n] : WellFormed(o)
  BY DEF WorldInv, ObjectsOK, Published, ObjOK
<1>2. CallOK(call)
  BY <1>1, CallNumbers
<1>3. /\ call.maker \in Of(stored[n], "order") /\ call.taker \in Of(stored[n], "order")
      /\ call.key = FillKeyOf(call.fill, call.maker, call.taker)
  BY CallsAreOfObjects
<1>4. call.key.maker = call.maker.eip /\ call.key.taker = call.taker.eip
  BY <1>3 DEF FillKeyOf
<1>5. QED
  BY <1>1, <1>2, <1>3, <1>4 DEF CallHolds, Of

\* The contract moves something, of orders that had that much left.
LEMMA AcceptedMoves ==
  ASSUME TradesOK, NEW call, CallOK(call), Accepts(call)
  PROVE  FittingOf(call) \in Nat /\ FittingOf(call) > 0
         /\ \A o \in {call.maker, call.taker} : CanFill(o)
<1>1. PICK base \in Nat : base = FittingOf(call)
  BY FittingIsWithin
<1>2. base > 0
  <2>1. SUFFICES ASSUME base = 0 PROVE FALSE
    OBVIOUS
  <2>2. QuoteFor(base, call.fill.price) > 0
    BY <1>1, Zenon DEF Accepts
  <2>3. PICK p \in Nat : p = call.fill.price
    BY DEF CallOK
  <2>4. QuoteFor(0, p) = 0
    <3>1. 0 * p = 0
      OBVIOUS
    <3>2. 0 \div Scale = 0
      BY MarketAssumption
    <3>3. QED
      BY <3>1, <3>2 DEF QuoteFor
  <2>5. QED
    BY <2>1, <2>2, <2>3, <2>4
<1>3. ASSUME NEW o \in {call.maker, call.taker}
      PROVE  CanFill(o)
  <2>1. base <= o.base - FilledOnChain(o.eip)
    BY <1>1, <1>2, FittingIsWithin
  <2>2. FilledOnChain(o.eip) \in Nat /\ o.base \in Nat
    BY ChainSumsAreNat DEF CallOK
  <2>3. FilledOnChain(o.eip) < o.base
    BY <1>2, <2>1, <2>2
  <2>4. clock <= o.validBefore /\ o.sessionAuth \notin revokedAuth
    BY DEF Accepts, Stands
  <2>5. QED
    BY <2>3, <2>4 DEF CanFill
<1>4. QED
  BY <1>1, <1>2, <1>3

\* An entry's order can pull as much less as the settlement took of it.
LEMMA PullMoves ==
  ASSUME AppInv, WorldInv, NEW call, CallHolds(call), Accepts(call), SettlesOnChain(call),
         NEW e, EntryOpen(e), EntryTrue(e), e.side = "sell"
  PROVE  CanStillPull(e)' = CanStillPull(e) -
           (IF e.eip \in {call.maker.eip, call.taker.eip} THEN FittingOf(call) ELSE 0)
<1>1. TradesOK /\ CallOK(call) /\ FittingOf(call) \in Nat
  BY AcceptedMoves DEF WorldInv, CallHolds
<1>2. PICK t : /\ trades' = trades \cup {t} /\ t \notin trades /\ t.key = call.key
               /\ t.base = FittingOf(call)
               /\ \A i \in t.recorded : \E x \in {call.maker, call.taker} : x.eip = i /\ InWindow(x)
  BY <1>1, SettledTrade
<1>3. PICK moved \in Nat : moved = IF e.eip \in {call.maker.eip, call.taker.eip}
                                   THEN FittingOf(call) ELSE 0
  BY <1>1
<1>4. /\ FilledOnChain(e.eip)' = FilledOnChain(e.eip) + moved
      /\ BoundOnChain(e.eip)' = BoundOnChain(e.eip) + (IF e.eip \in t.recorded THEN moved ELSE 0)
  <2>1. t.key.maker = call.maker.eip /\ t.key.taker = call.taker.eip
    BY <1>2 DEF CallHolds
  <2>2. PICK i : i = e.eip
    OBVIOUS
  <2>3. /\ FilledOnChain(i)' = FilledOnChain(i)
             + (IF i \in {t.key.maker, t.key.taker} THEN t.base ELSE 0)
        /\ BoundOnChain(i)' = BoundOnChain(i)
             + (IF i \in {t.key.maker, t.key.taker} /\ i \in t.recorded THEN t.base ELSE 0)
    BY <1>1, <1>2, FilledGrows
  <2>4. FilledOnChain(i)' = FilledOnChain(i) + moved
    BY <1>2, <1>3, <2>1, <2>2, <2>3
  <2>5. BoundOnChain(i)' = BoundOnChain(i) + (IF i \in t.recorded THEN moved ELSE 0)
    BY <1>2, <1>3, <2>1, <2>2, <2>3
  <2>6. QED
    BY <2>2, <2>4, <2>5
<1>5. e.voided => e.eip \notin t.recorded
  <2>1. SUFFICES ASSUME e.voided, e.eip \in t.recorded PROVE FALSE
    OBVIOUS
  <2>2. PICK x \in {call.maker, call.taker} : x.eip = e.eip /\ InWindow(x)
    BY <1>2, <2>1
  <2>3. PICK o \in Of(Published, "order") : o.eip = e.eip /\ o.exclusiveUntil = e.exclusiveUntil
    BY DEF EntryTrue
  <2>4. x \in SignedOrders /\ o \in SignedOrders
    BY DEF CallHolds, SignedOrders
  <2>5. x.exclusiveUntil = o.exclusiveUntil
    BY <2>2, <2>3, <2>4 DEF AppInv, OrdersAuthentic, SameTerms, OrderTerms
  <2>6. clock < x.exclusiveUntil
    BY <2>2 DEF InWindow
  <2>7. e.exclusiveUntil <= clock /\ clock \in Nat /\ e.exclusiveUntil \in Nat
    BY <2>1 DEF EntryTrue, EntryOpen, WorldInv, ClockOK
  <2>8. QED
    BY <2>3, <2>5, <2>6, <2>7
<1>6. /\ CanStillPull(e) = (IF e.voided THEN e.base - e.exclusiveBase + BoundOnChain(e.eip)
                            ELSE e.base) - FilledOnChain(e.eip)
      /\ FilledOnChain(e.eip) \in Nat /\ BoundOnChain(e.eip) \in Nat
  BY <1>1, PullOfSell, ChainSumsAreNat
<1>7. CanStillPull(e)' = (IF e.voided THEN e.base - e.exclusiveBase + BoundOnChain(e.eip)'
                          ELSE e.base) - FilledOnChain(e.eip)'
  BY DEF CanStillPull
<1>8. e.base \in Nat /\ e.exclusiveBase \in Nat
  BY DEF EntryOpen
<1>9. QED
  BY <1>3, <1>4, <1>5, <1>6, <1>7, <1>8

-----------------------------------------------------------------------------
(***************************************************************************)
(* Books say what is open.                                                 *)
(***************************************************************************)
\* The entry of a canonical order says what is open of it.
LEMMA EntryHolds ==
  ASSUME NEW objs, Readable(objs), NEW chain, ChainNumbers(chain), NEW now \in Nat,
         NEW fills, ViewsOK(fills), NEW o \in Reading(objs).canonical,
         NEW e, e = RestingOrder(o, fills, Reading(objs), chain, now)
  PROVE  /\ EntryOpen(e) /\ (e.voided => e.exclusiveUntil <= now) /\ o \in Of(objs, "order")
         /\ e.eip = o.eip /\ e.side = o.side /\ e.exclusiveUntil = o.exclusiveUntil
<1>1. PICK r : r = Reading(objs)
  OBVIOUS
<1>2. o \in Of(objs, "order")
  BY ReadingHolds
<1>3. o.base \in Nat /\ o.exclusiveBase \in Nat /\ o.exclusiveUntil \in Nat
  BY <1>2 DEF Of, Readable, WellFormed
<1>4. PICK settled, boundSettled :
        /\ settled = Get(chain.filled, o.eip, Credit(o, fills, "settled"))
        /\ boundSettled = Get(chain.bound, o.eip, BoundCredit(o, fills, "settled"))
  OBVIOUS
<1>5. PICK reserved, boundPending :
        reserved = Credit(o, fills, "pending") /\ boundPending = BoundCredit(o, fills, "pending")
  OBVIOUS
<1>6. settled \in Nat /\ boundSettled \in Nat
  BY <1>4, CreditsAreNat DEF Get, ChainNumbers
<1>7. reserved \in Nat /\ boundPending \in Nat
  BY <1>5, CreditsAreNat
<1>8. PICK voided \in BOOLEAN :
        voided = (o.counterSetHash # NoLegs /\ now >= o.exclusiveUntil /\ boundSettled < o.exclusiveBase)
  OBVIOUS
<1>9. PICK remaining : remaining =
        IF voided THEN (o.base - o.exclusiveBase) - (settled - boundSettled) - (reserved - boundPending)
        ELSE o.base - settled - reserved
  OBVIOUS
<1>10. PICK a, cancelled, expired, budget :
         e = [hash |-> o.hash, eip |-> o.eip, auth |-> a, maker |-> o.trader, side |-> o.side,
              price |-> o.price, base |-> o.base, filled |-> settled, pending |-> reserved,
              remaining |-> AtLeastZero(remaining), createdAt |-> o.createdAt,
              cancelled |-> cancelled, expired |-> expired,
              exclusiveBase |-> o.exclusiveBase, exclusiveUntil |-> o.exclusiveUntil,
              boundFilled |-> boundSettled, voided |-> voided, funded |-> TRUE,
              feeBudgetLeft |-> budget]
  <2>1. PICK a, cancelled, expired, budget :
          /\ a = AuthOf(o, r) /\ cancelled = (o \in r.revoked)
          /\ expired = (ValidUntil(o, r) <= now + ExpiryMargin)
          /\ budget = IF o.side = "buy" THEN AtLeastZero(a.maxFee - FeeUsed(o.authHash, fills)) ELSE 0
    OBVIOUS
  <2>2. e = [hash |-> o.hash, eip |-> o.eip, auth |-> a, maker |-> o.trader, side |-> o.side,
              price |-> o.price, base |-> o.base, filled |-> settled, pending |-> reserved,
              remaining |-> AtLeastZero(remaining), createdAt |-> o.createdAt,
              cancelled |-> cancelled, expired |-> expired,
              exclusiveBase |-> o.exclusiveBase, exclusiveUntil |-> o.exclusiveUntil,
              boundFilled |-> boundSettled, voided |-> voided, funded |-> TRUE,
              feeBudgetLeft |-> budget]
    BY <1>1, <1>4, <1>5, <1>8, <1>9, <2>1, Zenon DEF RestingOrder
  <2>3. QED
    BY <2>2
<1>11. remaining \in Int
  BY <1>3, <1>6, <1>7, <1>9
<1>12. AtLeastZero(remaining) \in Nat /\ AtLeastZero(remaining) >= remaining
  BY <1>11, Clamped
<1>13. /\ e.eip = o.eip /\ e.side = o.side /\ e.base = o.base /\ e.exclusiveBase = o.exclusiveBase
       /\ e.exclusiveUntil = o.exclusiveUntil /\ e.filled = settled /\ e.pending = reserved
       /\ e.remaining = AtLeastZero(remaining) /\ e.voided = voided /\ e.boundFilled = boundSettled
       /\ CoverFields \subseteq DOMAIN e
  BY <1>10 DEF CoverFields
<1>14. (IF voided THEN o.base - o.exclusiveBase + boundSettled ELSE o.base) - settled
         <= AtLeastZero(remaining) + reserved
  <2>1. CASE voided
    <3>1. remaining = (o.base - o.exclusiveBase) - (settled - boundSettled) - (reserved - boundPending)
      BY <1>9, <2>1
    <3>2. QED
      BY <1>3, <1>6, <1>7, <1>11, <1>12, <2>1, <3>1
  <2>2. CASE ~voided
    <3>1. remaining = o.base - settled - reserved
      BY <1>9, <2>2
    <3>2. QED
      BY <1>3, <1>6, <1>7, <1>11, <1>12, <2>2, <3>1
  <2>3. QED
    BY <2>1, <2>2
<1>15. EntryOpen(e)
  BY <1>3, <1>6, <1>7, <1>12, <1>13, <1>14 DEF EntryOpen
<1>16. voided => o.exclusiveUntil <= now
  BY <1>3, <1>8
<1>17. QED
  BY <1>2, <1>13, <1>15, <1>16

LEMMA EntriesHold ==
  ASSUME WorldInv, NEW objs \in SUBSET Published, NEW chain, ChainNumbers(chain)
  PROVE  BookHolds(DeriveState(objs, chain, clock).orders)
<1>1. Readable(objs)
  BY ListingIsReadable DEF WorldInv
<1>2. PICK r : r = Reading(objs)
  OBVIOUS
<1>3. PICK now \in Nat : now = clock
  BY DEF WorldInv, ClockOK
<1>4. PICK fills : /\ ViewsOK(fills)
                   /\ DeriveState(objs, chain, now).orders =
                        {RestingOrder(o, fills, r, chain, now) : o \in r.canonical}
  BY <1>1, <1>2, BookOfListing
<1>5. ASSUME NEW e \in DeriveState(objs, chain, clock).orders
      PROVE  EntryOpen(e) /\ EntryTrue(e)
  <2>1. PICK o \in r.canonical : e = RestingOrder(o, fills, r, chain, now)
    BY <1>3, <1>4, <1>5
  <2>2. /\ EntryOpen(e) /\ (e.voided => e.exclusiveUntil <= now) /\ o \in Of(objs, "order")
        /\ e.eip = o.eip /\ e.side = o.side /\ e.exclusiveUntil = o.exclusiveUntil
    BY <1>1, <1>2, <1>4, <2>1, EntryHolds
  <2>3. o \in Of(Published, "order")
    BY <2>2 DEF Of
  <2>4. QED
    BY <1>3, <2>2, <2>3 DEF EntryTrue
<1>6. QED
  BY <1>5 DEF BookHolds

LEMMA FundedHolds ==
  ASSUME NEW orders, BookHolds(orders), NEW capacity
  PROVE  BookHolds(FundedWith(orders, capacity))
<1>1. \E backed : FundedWith(orders, capacity) =
        {IF IsLive(o) THEN [o EXCEPT !.funded = o.hash \in backed] ELSE o : o \in orders}
  BY Zenon DEF FundedWith
<1>2. PICK backed : FundedWith(orders, capacity) =
        {IF IsLive(o) THEN [o EXCEPT !.funded = o.hash \in backed] ELSE o : o \in orders}
  BY <1>1
<1>3. ASSUME NEW e \in FundedWith(orders, capacity)
      PROVE  EntryOpen(e) /\ EntryTrue(e)
  <2>1. PICK o \in orders : e = o \/ e = [o EXCEPT !.funded = o.hash \in backed]
    BY <1>2, <1>3
  <2>2. EntryOpen(o) /\ EntryTrue(o) /\ CoverFields \subseteq DOMAIN o
    BY DEF BookHolds, EntryOpen
  <2>3. DOMAIN e = DOMAIN o /\ \A field \in CoverFields : e[field] = o[field]
    BY <2>1, <2>2 DEF CoverFields
  <2>4. /\ e.eip = o.eip /\ e.side = o.side /\ e.base = o.base /\ e.exclusiveBase = o.exclusiveBase
        /\ e.exclusiveUntil = o.exclusiveUntil /\ e.filled = o.filled /\ e.pending = o.pending
        /\ e.remaining = o.remaining /\ e.voided = o.voided /\ e.boundFilled = o.boundFilled
    BY <2>3 DEF CoverFields
  <2>5. EntryOpen(e)
    BY <2>2, <2>3, <2>4 DEF EntryOpen
  <2>6. EntryTrue(e)
    BY <2>2, <2>4 DEF EntryTrue
  <2>7. QED
    BY <2>5, <2>6
<1>4. QED
  BY <1>3 DEF BookHolds

-----------------------------------------------------------------------------
LEMMA BookStays ==
  ASSUME NEW orders, BookHolds(orders), Published \subseteq Published', clock \in Nat,
         clock' \in Nat, clock <= clock'
  PROVE  BookHolds(orders)'
<1>1. ASSUME NEW e \in orders
      PROVE  EntryOpen(e)' /\ EntryTrue(e)'
  <2>1. EntryOpen(e) /\ EntryTrue(e)
    BY DEF BookHolds
  <2>2. EntryOpen(e)' /\ e.exclusiveUntil \in Nat
    BY <2>1 DEF EntryOpen
  <2>3. PICK o \in Of(Published', "order") :
          o.eip = e.eip /\ o.side = e.side /\ o.exclusiveUntil = e.exclusiveUntil
    BY <2>1 DEF EntryTrue, Of
  <2>4. e.voided => e.exclusiveUntil <= clock'
    BY <2>1, <2>2 DEF EntryTrue
  <2>5. Of(Published, "order")' = Of(Published', "order")
    OBVIOUS
  <2>6. QED
    BY <2>2, <2>3, <2>4, <2>5 DEF EntryTrue
<1>2. QED
  BY <1>1 DEF BookHolds

LEMMA BooksHoldOn ==
  ASSUME BooksHold, Published \subseteq Published', clock \in Nat, clock' \in Nat,
         clock <= clock', view' = view, refresh' = refresh \/ refresh'.pc # "capacity"
  PROVE  BooksHold'
<1>1. PICK shown, derived : shown = view.orders /\ derived = refresh.derived.orders
  OBVIOUS
<1>2. BookHolds(shown)'
  BY <1>1, BookStays DEF BooksHold
<1>3. BookHolds(view.orders)'
  BY <1>1, <1>2 DEF BookHolds
<1>4. ASSUME refresh'.pc = "capacity"
      PROVE  BookHolds(refresh.derived.orders)'
  <2>1. refresh' = refresh
    BY <1>4
  <2>2. BookHolds(derived)'
    BY <1>1, <1>4, <2>1, BookStays DEF BooksHold
  <2>3. QED
    BY <1>1, <2>1, <2>2 DEF BookHolds
<1>5. QED
  BY <1>3, <1>4 DEF BooksHold

\* New orders of mine are other copies of what was published.
MineFollow ==
  \A o \in Of(Published', "order") :
    o.trader = Me => \E p \in Of(Published, "order") : SameTerms(o, p)

LEMMA FewerCanFill ==
  ASSUME WorldInv, WorldInv', NEW o \in Of(Published, "order"), clock <= clock',
         FilledOnChain(o.eip) <= FilledOnChain(o.eip)', revokedAuth \subseteq revokedAuth',
         CanFill(o)'
  PROVE  CanFill(o)
<1>1. o.base \in Nat /\ o.validBefore \in Nat
  BY DEF Of, WorldInv, ObjectsOK, ObjOK, WellFormed
<1>2. clock \in Nat /\ clock' \in Nat
  BY DEF WorldInv, ClockOK
<1>3. PICK i : i = o.eip
  OBVIOUS
<1>4. PICK f \in Nat, g \in Nat : f = FilledOnChain(i) /\ g = FilledOnChain(i)'
  <2>1. FilledOnChain(i) \in Nat
    BY ChainSumsAreNat DEF WorldInv
  <2>2. FilledOnChain(i)' \in Nat
    <3>1. PICK P : P = Involving(i)'
      OBVIOUS
    <3>2. IsFiniteSet(trades') /\ \A t \in trades' : t.base \in Nat
      BY DEF WorldInv, TradesOK
    <3>3. P \subseteq trades'
      BY <3>1 DEF Involving
    <3>4. IsFiniteSet(P) /\ \A t \in P : t.base \in Nat
      BY <3>2, <3>3, FS_Subset
    <3>5. SumBase(P) \in Nat
      BY <3>4, SumBaseIsNat
    <3>6. FilledOnChain(i)' = SumBase(P)
      BY <3>1 DEF FilledOnChain
    <3>7. QED
      BY <3>5, <3>6
  <2>3. QED
    BY <2>1, <2>2
<1>5. g < o.base /\ clock' <= o.validBefore /\ o.sessionAuth \notin revokedAuth'
  BY <1>3, <1>4 DEF CanFill
<1>6. f <= g
  BY <1>3, <1>4
<1>7. f < o.base /\ clock <= o.validBefore /\ o.sessionAuth \notin revokedAuth
  BY <1>1, <1>2, <1>5, <1>6
<1>8. QED
  BY <1>3, <1>4, <1>7 DEF CanFill

LEMMA ShowsAllStays ==
  ASSUME WorldInv, WorldInv', NEW orders, ShowsAll(orders), MineFollow, clock <= clock',
         \A i : FilledOnChain(i) <= FilledOnChain(i)', revokedAuth \subseteq revokedAuth'
  PROVE  ShowsAll(orders)'
<1>1. ASSUME NEW o \in Of(Published', "order"), o.trader = Me, CanFill(o)'
      PROVE  \E e \in orders : e.eip = o.eip
  <2>1. PICK p \in Of(Published, "order") : SameTerms(o, p)
    BY <1>1 DEF MineFollow
  <2>2. /\ o.eip = p.eip /\ o.base = p.base /\ o.validBefore = p.validBefore
        /\ o.sessionAuth = p.sessionAuth /\ o.trader = p.trader
    BY <2>1 DEF SameTerms, OrderTerms
  <2>3. CanFill(p)'
    BY <1>1, <2>2 DEF CanFill
  <2>4. FilledOnChain(p.eip) <= FilledOnChain(p.eip)'
    OBVIOUS
  <2>5. CanFill(p)
    BY <2>3, <2>4, FewerCanFill
  <2>6. QED
    BY <1>1, <2>2, <2>5 DEF ShowsAll
<1>2. Of(Published, "order")' = Of(Published', "order")
  OBVIOUS
<1>3. QED
  BY <1>1, <1>2 DEF ShowsAll

-----------------------------------------------------------------------------
(***************************************************************************)
(* Steps that settle nothing, and settlements.                             *)
(***************************************************************************)
LEMMA ShownStays ==
  ASSUME WorldInv, WorldInv', Placing, ShownHolds, Published \subseteq Published', clock <= clock',
         session' = session
  PROVE  ShownHolds'
<1>1. PICK s, shown : s = session /\ shown = session.shown
  OBVIOUS
<1>2. /\ PlacingFields \subseteq DOMAIN s /\ s.need \in Nat /\ IsFiniteSet(shown)
      /\ BookHolds(shown) /\ s.shown = shown
  BY <1>1 DEF ShownHolds
<1>3. clock \in Nat /\ clock' \in Nat
  BY DEF WorldInv, ClockOK
<1>4. BookHolds(shown)'
  BY <1>2, <1>3, BookStays
<1>5. session' = s
  BY <1>1
<1>6. QED
  BY <1>2, <1>4, <1>5 DEF ShownHolds, BookHolds

LEMMA FilledSame ==
  ASSUME WorldInv, trades' = trades, NEW i
  PROVE  FilledOnChain(i) <= FilledOnChain(i)'
<1>1. FilledOnChain(i)' = FilledOnChain(i)
  BY DEF FilledOnChain, Involving
<1>2. FilledOnChain(i) \in Nat
  BY ChainSumsAreNat DEF WorldInv
<1>3. QED
  BY <1>1, <1>2

\* A step that settles nothing, and leaves the user's action where it was or
\* out of this.
LEMMA CoverStep ==
  ASSUME WorldInv, WorldInv', CoverInv, BooksHold', Published \subseteq Published', MineFollow,
         trades' = trades, clock <= clock', revokedAuth \subseteq revokedAuth',
         Placing' => session' = session /\ allow' = allow
  PROVE  CoverInv'
<1>1. CASE ~Placing'
  BY <1>1 DEF CoverInv
<1>2. CASE Placing'
  <2>1. session' = session /\ allow' = allow /\ Placing
    BY <1>2 DEF Placing
  <2>2. ShownHolds'
    BY <2>1, ShownStays DEF CoverInv
  <2>3. ASSUME session.side = "sell", session.right
        PROVE  SellCovered'
    <3>1. SellCovered
      BY <2>1, <2>3 DEF CoverInv
    <3>2. PICK s, shown : s = session /\ shown = session.shown
      OBVIOUS
    <3>3. ShowsAll(shown)'
      <4>1. ShowsAll(shown)
        BY <3>1, <3>2 DEF SellCovered
      <4>2. \A i : FilledOnChain(i) <= FilledOnChain(i)'
        BY FilledSame
      <4>3. QED
        BY <4>1, <4>2, ShowsAllStays
    <3>4. PullOf(shown)' = PullOf(shown)
      BY PullsStay
    <3>5. session' = s /\ s.shown = shown
      BY <2>1, <3>2
    <3>6. ShowsAll(session.shown)' /\ PullOf(session.shown)' = PullOf(shown)
      BY <3>3, <3>4, <3>5 DEF ShowsAll, PullOf, SellsOf
    <3>7. QED
      BY <2>1, <3>1, <3>2, <3>5, <3>6 DEF SellCovered
  <2>4. QED
    BY <2>1, <2>2, <2>3 DEF CoverInv
<1>3. QED
  BY <1>1, <1>2

LEMMA SettledSells ==
  ASSUME AppInv, WorldInv, NEW call, CallHolds(call), Accepts(call), SettlesOnChain(call),
         NEW orders, ShowsAll(orders), BookHolds(orders), SellOf(call).trader = Me
  PROVE  \E e \in SellsOf(orders) : e.eip \in {call.maker.eip, call.taker.eip}
<1>1. PICK s : s = SellOf(call)
  OBVIOUS
<1>2. s \in {call.maker, call.taker} /\ s.side = "sell"
  <2>1. {call.maker.side, call.taker.side} = {"buy", "sell"}
    BY Zenon DEF Accepts
  <2>2. call.maker.side = "buy" => call.taker.side = "sell"
    BY <2>1
  <2>3. call.maker.side # "buy" => call.maker.side = "sell"
    BY <2>1
  <2>4. s = IF call.maker.side = "buy" THEN call.taker ELSE call.maker
    BY <1>1 DEF SellOf
  <2>5. QED
    BY <2>2, <2>3, <2>4
<1>3. s \in Of(Published, "order")
  BY <1>2 DEF CallHolds
<1>4. CanFill(s)
  BY <1>2, AcceptedMoves DEF CallHolds, WorldInv
<1>5. PICK e \in orders : e.eip = s.eip
  BY <1>1, <1>3, <1>4 DEF ShowsAll
<1>6. PICK o \in Of(Published, "order") : o.eip = e.eip /\ o.side = e.side
  BY DEF BookHolds, EntryTrue
<1>7. o \in SignedOrders /\ s \in SignedOrders
  BY <1>3 DEF SignedOrders
<1>8. o.side = s.side
  BY <1>5, <1>6, <1>7 DEF AppInv, OrdersAuthentic, SameTerms, OrderTerms
<1>9. e \in SellsOf(orders)
  BY <1>2, <1>6, <1>8 DEF SellsOf
<1>10. QED
  BY <1>2, <1>5, <1>9

\* A settlement takes from the allowance what it takes from a shown sell.
LEMMA SettlementCovers ==
  ASSUME AppInv, WorldInv, WorldInv', CoverInv, Placing, session.side = "sell", session.right,
         NEW call, CallHolds(call), Accepts(call), SettlesOnChain(call), session' = session,
         MineFollow, clock' = clock, revokedAuth' = revokedAuth
  PROVE  SellCovered'
<1>1. SellCovered /\ ShownHolds
  BY DEF CoverInv
<1>2. PICK s, shown : s = session /\ shown = session.shown
  OBVIOUS
<1>3. IsFiniteSet(shown) /\ BookHolds(shown) /\ ShowsAll(shown) /\ s.need \in Nat
  BY <1>1, <1>2 DEF SellCovered, ShownHolds
<1>4. TradesOK /\ MoneyOK /\ CallOK(call) /\ Me \in Traders /\ clock \in Nat
  BY AppAssumption DEF WorldInv, CallHolds, Traders, ClockOK
<1>5. PICK fit \in Nat : fit = FittingOf(call)
  BY <1>4, AcceptedMoves
<1>6. PICK n \in Nat : n = IF SellOf(call).trader = Me THEN fit ELSE 0
  BY <1>5
<1>7. ASSUME NEW e \in SellsOf(shown)
      PROVE  /\ CanStillPull(e) \in Int
             /\ CanStillPull(e)' = CanStillPull(e) -
                  (IF e.eip \in {call.maker.eip, call.taker.eip} THEN fit ELSE 0)
  <2>1. EntryOpen(e) /\ EntryTrue(e) /\ e.side = "sell"
    BY <1>3, <1>7 DEF SellsOf, BookHolds
  <2>2. CanStillPull(e) \in Int
    BY <1>4, <2>1, PullOfSell
  <2>3. QED
    BY <1>5, <2>1, <2>2, PullMoves
<1>8. \A e \in SellsOf(shown) : CanStillPull(e)' \in Int /\ CanStillPull(e)' <= CanStillPull(e)
  <2>1. ASSUME NEW e \in SellsOf(shown)
        PROVE  CanStillPull(e)' \in Int /\ CanStillPull(e)' <= CanStillPull(e)
    <3>1. PICK p \in Int : p = CanStillPull(e)
      BY <1>7
    <3>2. PICK q : q = CanStillPull(e)'
      OBVIOUS
    <3>3. q = p - fit \/ q = p - 0
      BY <1>7, <3>1, <3>2
    <3>4. q \in Int /\ q <= p
      BY <3>3
    <3>5. QED
      BY <3>1, <3>2, <3>4
  <2>2. QED
    BY <2>1
<1>9. n = 0 \/ \E e \in SellsOf(shown) : CanStillPull(e)' <= CanStillPull(e) - n
  <2>1. SUFFICES ASSUME SellOf(call).trader = Me
                 PROVE  \E e \in SellsOf(shown) : CanStillPull(e)' <= CanStillPull(e) - n
    BY <1>6
  <2>2. PICK e \in SellsOf(shown) : e.eip \in {call.maker.eip, call.taker.eip}
    BY <1>3, <2>1, SettledSells
  <2>3. PICK p \in Int : p = CanStillPull(e)
    BY <1>7
  <2>4. PICK q : q = CanStillPull(e)'
    OBVIOUS
  <2>5. q = p - fit /\ n = fit
    BY <1>6, <1>7, <2>1, <2>2, <2>3, <2>4
  <2>6. q <= p - n
    BY <2>5
  <2>7. QED
    BY <2>3, <2>4, <2>6
<1>10. /\ PullOf(shown) \in Int /\ PullOf(shown)' \in Int /\ PullOf(shown)' <= PullOf(shown) - n
  <2>1. \A e \in shown : EntryOpen(e)
    BY <1>3 DEF BookHolds
  <2>2. QED
    BY <1>3, <1>4, <1>8, <1>9, <2>1, PullsFall
<1>11. allow'[Me].base = allow[Me].base - n
  <2>1. allow'[Me].base = allow[Me].base - (IF SellOf(call).trader = Me THEN fit ELSE 0)
    BY <1>4, <1>5, SellerDelivers
  <2>2. QED
    BY <1>6, <2>1
<1>12. ShowsAll(shown)'
  <2>1. ASSUME NEW i PROVE FilledOnChain(i) <= FilledOnChain(i)'
    <3>1. PICK t : trades' = trades \cup {t} /\ t \notin trades /\ t.base = fit
      BY <1>4, <1>5, SettledTrade
    <3>2. t.base \in Nat
      BY <3>1
    <3>3. FilledOnChain(i)' = FilledOnChain(i) + (IF i \in {t.key.maker, t.key.taker} THEN t.base ELSE 0)
      BY <1>4, <3>1, <3>2, FilledGrows
    <3>4. FilledOnChain(i) \in Nat
      BY <1>4, ChainSumsAreNat
    <3>5. QED
      BY <3>2, <3>3, <3>4
  <2>2. clock <= clock' /\ revokedAuth \subseteq revokedAuth'
    BY <1>4
  <2>3. QED
    BY <1>3, <2>1, <2>2, ShowsAllStays
<1>13. session' = s /\ s.shown = shown
  BY <1>2
<1>14. ShowsAll(session.shown)' /\ PullOf(session.shown)' = PullOf(shown)'
  BY <1>12, <1>13 DEF ShowsAll, PullOf, SellsOf
<1>15. PICK was, now : was = PullOf(shown) /\ now = PullOf(shown)'
  OBVIOUS
<1>16. s.token = "base" /\ s.need + was <= (IF s.pc = "sign" THEN allow[Me].base ELSE s.approval)
  BY <1>1, <1>2, <1>15 DEF SellCovered
<1>17. s.approval \in Nat /\ allow[Me].base \in Nat
  <2>1. s.approval \in Nat
    BY <1>2 DEF WorldInv, HandOK, PlacedOK, Placing
  <2>2. QED
    BY <1>4, <2>1 DEF MoneyOK, Allowance
<1>18. s.need + now <= (IF s.pc = "sign" THEN allow'[Me].base ELSE s.approval)
  BY <1>3, <1>10, <1>11, <1>15, <1>16, <1>17
<1>19. QED
  BY <1>13, <1>14, <1>15, <1>16, <1>18 DEF SellCovered

\* A step after which the user is not placing an order.
LEMMA CoverAway ==
  ASSUME WorldInv, WorldInv', CoverInv, ~Placing', Published \subseteq Published', clock <= clock',
         view' = view, refresh' = refresh \/ refresh'.pc # "capacity"
  PROVE  CoverInv'
<1>1. clock \in Nat /\ clock' \in Nat
  BY DEF WorldInv, ClockOK
<1>2. BooksHold'
  BY <1>1, BooksHoldOn DEF CoverInv
<1>3. QED
  BY <1>2 DEF CoverInv

LEMMA AwaySteps ==
  ASSUME AppInv, WorldInv, WorldInv', CoverInv,
         \/ \E o, onChain : Cancel(o, onChain)
         \/ \E hash : SettleNow(hash)
         \/ Unwrap \/ Sign \/ PublishAuth \/ PublishOrder \/ PublishFill
         \/ PublishRevocation \/ RevokeOnChain \/ CheckFits \/ SendSettlement
         \/ PublishReceipt \/ Finish \/ Decline \/ PublishFails
  PROVE  CoverInv'
<1>1. CASE \/ \E o, onChain : Cancel(o, onChain)
           \/ \E hash : SettleNow(hash)
           \/ Unwrap \/ Sign \/ RevokeOnChain \/ CheckFits \/ SendSettlement \/ Finish \/ Decline
  <2>1. stored' = stored /\ clock' = clock /\ view' = view
    BY <1>1 DEF Cancel, SettleNow, Unwrap, Sign, RevokeOnChain, CheckFits, SendSettlement, Finish,
       Decline, nodeVars, tabVars
  <2>2. refresh' = refresh \/ refresh'.pc # "capacity"
    BY <1>1 DEF Cancel, SettleNow, Unwrap, Sign, RevokeOnChain, CheckFits, SendSettlement, Finish,
       Decline, tabVars, RefreshCalled, RefreshStarts
  <2>3. ~Placing'
    <3>1. CASE \E o, onChain : Cancel(o, onChain)
      BY <3>1 DEF Cancel, Placing
    <3>2. CASE \E hash : SettleNow(hash)
      BY <3>2 DEF SettleNow, Placing
    <3>3. CASE Unwrap
      BY <3>3 DEF Unwrap, Placing, Quiet
    <3>4. CASE Sign
      BY <3>4 DEF Sign, Placing
    <3>5. CASE RevokeOnChain \/ CheckFits
      <4>1. PICK pc \in {"finish", "send"} : Goto(pc)
        BY <3>5 DEF RevokeOnChain, CheckFits
      <4>2. session'.pc = pc
        BY <4>1, WentTo DEF AppInv
      <4>3. QED
        BY <4>2 DEF Placing
    <3>6. CASE SendSettlement
      <4>1. session'.pc \in {"receipt", "finish", "idle"}
        BY <3>6 DEF SendSettlement, Quiet
      <4>2. QED
        BY <4>1 DEF Placing
    <3>7. CASE Finish \/ Decline
      BY <3>7 DEF Finish, Decline, Quiet, Placing
    <3>8. QED
      BY <1>1, <3>1, <3>2, <3>3, <3>4, <3>5, <3>6, <3>7
  <2>4. Published \subseteq Published' /\ clock <= clock'
    BY <2>1 DEF Published, WorldInv, ClockOK
  <2>5. QED
    BY <2>1, <2>2, <2>3, <2>4, CoverAway
<1>2. CASE \/ PublishAuth \/ PublishOrder \/ PublishFill \/ PublishRevocation \/ PublishReceipt
           \/ PublishFails
  <2>1. clock' = clock /\ view' = view /\ refresh' = refresh
    BY <1>2 DEF PublishAuth, PublishOrder, PublishFill, PublishRevocation, PublishReceipt,
       PublishFails, tabVars
  <2>2. \E obj : Put(obj) \/ PutFails(obj)
    BY <1>2, Zenon DEF PublishAuth, PublishOrder, PublishFill, PublishRevocation, PublishReceipt,
       PublishFails
  <2>3. ~Placing'
    <3>1. CASE PublishAuth \/ PublishOrder \/ PublishRevocation
      <4>1. PICK pc \in {"order", "finish", "fill", "onchain"} : Goto(pc)
        BY <3>1 DEF PublishAuth, PublishOrder, PublishRevocation
      <4>2. session'.pc = pc
        BY <4>1, WentTo DEF AppInv
      <4>3. QED
        BY <4>2 DEF Placing
    <3>2. CASE PublishFill
      <4>1. PICK legs : \E pc \in {"finish", "fill"} :
                          session' = [session EXCEPT !.legs = legs, !.pc = pc]
        BY <3>2 DEF PublishFill
      <4>2. "pc" \in DOMAIN session
        BY DEF AppInv, SessionInv
      <4>3. session'.pc \in {"finish", "fill"}
        BY <4>1, <4>2
      <4>4. QED
        BY <4>3 DEF Placing
    <3>3. CASE PublishReceipt \/ PublishFails
      BY <3>3 DEF PublishReceipt, PublishFails, Quiet, Placing
    <3>4. QED
      BY <1>2, <3>1, <3>2, <3>3
  <2>4. Published \subseteq Published' /\ clock <= clock'
    BY <2>1, <2>2, PutAdds DEF Adds, WorldInv, ClockOK
  <2>5. QED
    BY <2>1, <2>3, <2>4, CoverAway
<1>3. QED
  BY <1>1, <1>2

LEMMA ReloadCover ==
  ASSUME WorldInv, CoverInv, Reload
  PROVE  CoverInv'
<1>1. view'.orders = {} /\ refresh'.pc = "list" /\ session'.pc = "idle"
  BY DEF Reload, NoState, Quiet
<1>2. QED
  BY <1>1 DEF CoverInv, BooksHold, BookHolds, Placing

\* The same objects at the nodes.
LEMMA SameFollow ==
  ASSUME stored' = stored
  PROVE  Published' = Published /\ MineFollow
<1>1. Published' = Published
  BY DEF Published
<1>2. QED
  BY <1>1 DEF MineFollow, SameTerms

LEMMA RefreshCover ==
  ASSUME AppInv, WorldInv, WorldInv', CoverInv, Interval \/ RefreshStep
  PROVE  CoverInv'
<1>1. UNCHANGED <<stored, trades, revokedAuth, allow, clock>>
  BY DEF Interval, RefreshStep, ListObjects, ReadUsed, ReadFilled, ReadBound, ShowBook, chainVars, nodeVars
<1>2. RefreshEnds => /\ session' = session \/ session'.pc = "idle"
                     /\ refresh'.pc \in {"idle", "list"}
  BY DEF RefreshEnds, Quiet
<1>3. Placing' => session' = session /\ allow' = allow
  <2>1. session' = session \/ session'.pc = "idle"
    BY <1>2 DEF Interval, RefreshStep, ListObjects, ReadUsed, ReadFilled, ReadBound, ShowBook, RefreshFails
  <2>2. QED
    BY <1>1, <2>1 DEF Placing
<1>4. Published' = Published /\ MineFollow
  BY <1>1, SameFollow
<1>5. clock \in Nat /\ clock' \in Nat /\ clock <= clock'
  BY <1>1 DEF WorldInv, ClockOK
<1>6. CASE Interval \/ ListObjects \/ ReadUsed \/ ReadFilled
  <2>1. view' = view /\ refresh'.pc # "capacity"
    <3>1. CASE Interval
      BY <3>1 DEF Interval, RefreshStarts
    <3>2. CASE ListObjects
      BY <1>2, <3>2 DEF ListObjects, RefreshFails
    <3>3. CASE ReadUsed
      BY <3>3 DEF ReadUsed, AppInv, RefreshInv
    <3>4. CASE ReadFilled
      BY <3>4 DEF ReadFilled
    <3>5. QED
      BY <1>6, <3>1, <3>2, <3>3, <3>4
  <2>2. BooksHold'
    BY <1>4, <1>5, <2>1, BooksHoldOn DEF CoverInv
  <2>3. QED
    BY <1>1, <1>3, <1>4, <1>5, <2>2, CoverStep
<1>7. CASE ReadBound
  <2>1. PICK chain : ChainNumbers(chain) /\ refresh'.derived = DeriveState(refresh.objs, chain, clock)
    BY <1>7, BookRead
  <2>2. PICK objs : objs = refresh.objs
    OBVIOUS
  <2>3. objs \in SUBSET Published
    BY <1>7, <2>2 DEF ReadBound, AppInv, RefreshInv
  <2>4. PICK orders : orders = DeriveState(objs, chain, clock).orders
    OBVIOUS
  <2>5. BookHolds(orders)
    BY <2>1, <2>3, <2>4, EntriesHold
  <2>6. view' = view /\ refresh'.derived.orders = orders
    BY <1>7, <2>1, <2>2, <2>4 DEF ReadBound
  <2>7. PICK shown : shown = view.orders
    OBVIOUS
  <2>8. BookHolds(orders)' /\ BookHolds(shown)'
    BY <1>4, <1>5, <2>5, <2>7, BookStays DEF CoverInv, BooksHold
  <2>9. BooksHold'
    BY <2>6, <2>7, <2>8 DEF BooksHold, BookHolds
  <2>10. QED
    BY <1>1, <1>3, <1>4, <1>5, <2>9, CoverStep
<1>8. CASE ShowBook
  <2>1. refresh.pc = "capacity" /\ refresh'.pc \in {"idle", "list"}
    BY <1>2, <1>8 DEF ShowBook
  <2>2. PICK lost : view' = [refresh.derived EXCEPT !.orders = FundedWith(@, Capacity(lost))]
    BY <1>8 DEF ShowBook
  <2>3. PICK orders, capacity : orders = refresh.derived.orders /\ capacity = Capacity(lost)
    OBVIOUS
  <2>4. "orders" \in DOMAIN refresh.derived
    BY <2>1 DEF WorldInv, RefreshOK
  <2>5. PICK book : book = FundedWith(orders, capacity)
    OBVIOUS
  <2>6. view'.orders = book
    BY <2>2, <2>3, <2>4, <2>5
  <2>7. BookHolds(book)
    BY <2>1, <2>3, <2>5, FundedHolds DEF CoverInv, BooksHold
  <2>8. BookHolds(book)'
    BY <1>4, <1>5, <2>7, BookStays
  <2>9. BooksHold'
    BY <2>1, <2>6, <2>8 DEF BooksHold, BookHolds
  <2>10. QED
    BY <1>1, <1>3, <1>4, <1>5, <2>9, CoverStep
<1>9. QED
  BY <1>6, <1>7, <1>8 DEF RefreshStep

-----------------------------------------------------------------------------
(***************************************************************************)
(* Placing an order, approving it, and what others do meanwhile.           *)
(***************************************************************************)
\* What a right book shows of the user's sells covers what they can pull.
LEMMA PulledWithin ==
  ASSUME WorldInv, BookHolds(view.orders), BookIsRight
  PROVE  PullOf(MyOpen) \in Int /\ PullOf(MyOpen) <= CommittedIn("base")
<1>1. PICK S : S = {o \in view.orders : o.maker = Me /\ ~o.cancelled /\ ~o.expired
                                        /\ PayToken(o.side) = "base"}
  OBVIOUS
<1>2. PICK sells : sells = SellsOf(MyOpen)
  OBVIOUS
<1>3. sells \in SUBSET S
  BY <1>1, <1>2 DEF SellsOf, MyOpen, PayToken
<1>4. IsFiniteSet(S) /\ IsFiniteSet(sells)
  BY <1>1, <1>3, FS_Subset DEF WorldInv, TabOK, BookOK
<1>5. PICK f : f = [o \in S |-> OpenNeed(o)]
  OBVIOUS
<1>6. PICK g : g = [e \in sells |-> CanStillPull(e)]
  OBVIOUS
<1>7. \A o \in S : f[o] \in Nat
  <2>1. \A o \in S : EntryOK(o)
    BY <1>1 DEF WorldInv, TabOK, BookOK
  <2>2. QED
    BY <1>5, <2>1, NeedsAreNat
<1>8. ASSUME NEW e \in sells
      PROVE  g[e] \in Int /\ g[e] <= f[e]
  <2>1. e \in MyOpen /\ e \in view.orders /\ e.side = "sell" /\ e \in S
    BY <1>2, <1>3 DEF SellsOf, MyOpen
  <2>2. EntryOpen(e)
    BY <2>1 DEF BookHolds
  <2>3. e.filled <= FilledOnChain(e.eip) /\ (e.voided => BoundOnChain(e.eip) <= e.boundFilled)
    BY <2>1 DEF BookIsRight
  <2>4. /\ CanStillPull(e) = (IF e.voided THEN e.base - e.exclusiveBase + BoundOnChain(e.eip)
                              ELSE e.base) - FilledOnChain(e.eip)
        /\ CanStillPull(e) \in Int
    BY <2>1, <2>2, PullOfSell DEF WorldInv
  <2>5. FilledOnChain(e.eip) \in Nat /\ BoundOnChain(e.eip) \in Nat
    BY ChainSumsAreNat DEF WorldInv
  <2>6. OpenNeed(e) = e.remaining + e.pending
    BY <2>1 DEF OpenNeed
  <2>7. /\ {e.base, e.exclusiveBase, e.filled, e.pending, e.remaining, e.boundFilled} \subseteq Nat
        /\ (IF e.voided THEN e.base - e.exclusiveBase + e.boundFilled ELSE e.base) - e.filled
             <= e.remaining + e.pending
    BY <2>2 DEF EntryOpen
  <2>8. CanStillPull(e) <= e.remaining + e.pending
    <3>1. CASE e.voided
      BY <2>3, <2>4, <2>5, <2>7, <3>1
    <3>2. CASE ~e.voided
      BY <2>3, <2>4, <2>5, <2>7, <3>2
    <3>3. QED
      BY <3>1, <3>2
  <2>9. f[e] = OpenNeed(e) /\ g[e] = CanStillPull(e)
    BY <1>5, <1>6, <2>1
  <2>10. QED
    BY <2>4, <2>6, <2>8, <2>9
<1>9. CommittedIn("base") = SumFunctionOnSet(f, S)
  BY <1>1, <1>5 DEF CommittedIn, SumFunction
<1>10. PullOf(MyOpen) = SumFunctionOnSet(g, sells)
  BY <1>2, <1>6, PullOfSells
<1>11. SumFunctionOnSet(f, sells) <= SumFunctionOnSet(f, S)
  BY <1>3, <1>4, <1>7, SumOfPart
<1>12. /\ SumFunctionOnSet(f, sells) \in Int /\ SumFunctionOnSet(g, sells) \in Int
       /\ SumFunctionOnSet(g, sells) <= SumFunctionOnSet(f, sells) - 0
  <2>1. PICK n \in Nat : n = 0
    OBVIOUS
  <2>2. \A e \in sells : f[e] \in Int /\ g[e] \in Int /\ g[e] <= f[e]
    BY <1>3, <1>7, <1>8
  <2>3. /\ SumFunctionOnSet(f, sells) \in Int /\ SumFunctionOnSet(g, sells) \in Int
        /\ SumFunctionOnSet(g, sells) <= SumFunctionOnSet(f, sells) - n
    BY <1>4, <2>1, <2>2, SumFalls
  <2>4. QED
    BY <2>1, <2>3
<1>13. SumFunctionOnSet(f, S) \in Nat
  BY <1>4, <1>7, SumType
<1>14. QED
  BY <1>9, <1>10, <1>11, <1>12, <1>13

\* What is in hand after the click.
LEMMA Placed ==
  ASSUME AppInv, WorldInv, NEW form \in left.forms, Place(form)
  PROVE  \E need \in Nat :
           /\ session'.pc \in {"wrap", "approve"} /\ PlacingFields \subseteq DOMAIN session'
           /\ session'.side = form.side /\ session'.need = need
           /\ session'.token = PayToken(form.side)
           /\ session'.approval = need + CommittedIn(PayToken(form.side))
           /\ session'.shown = MyOpen /\ session'.right = BookIsRight
<1>1. form.amount \in Nat /\ form.limit \in Nat
  BY DEF WorldInv, LeftOK, FormsOK
<1>2. PICK m : m = MatchOrder(view.orders, form.side, form.amount, form.limit, Me, clock)
  OBVIOUS
<1>3. Filled(m, form.amount) \in Nat /\ WorstPrice(m) \in Nat
  BY <1>1, <1>2, MatchNumbers DEF WorldInv, TabOK
<1>4. PICK price \in Nat : price = IF form.limit = 0 THEN WorstPrice(m) ELSE form.limit
  BY <1>1, <1>3
<1>5. PICK base \in Nat : base = IF form.limit = 0 THEN Filled(m, form.amount) ELSE form.amount
  BY <1>1, <1>3
<1>6. PICK cost \in Nat : cost = QuoteFor(base, price)
  BY QuoteNat
<1>7. PICK maxFee \in Nat : maxFee = IF form.side = "buy" THEN MaxFeeForOrder(cost) ELSE 0
  BY FeesAreNat
<1>8. PICK need \in Nat : need = IF form.side = "buy" THEN cost + maxFee ELSE base
  OBVIOUS
<1>9. PICK short : short = IF form.side = "sell" /\ WrapsNative
                           THEN AtLeastZero(base - Available("base")) ELSE 0
  OBVIOUS
<1>10. PICK token, shown, right : token = PayToken(form.side) /\ shown = MyOpen /\ right = BookIsRight
  OBVIOUS
<1>11. PICK approval : approval = need + CommittedIn(token)
  OBVIOUS
<1>12. PICK pc : pc = IF short > 0 THEN "wrap" ELSE "approve"
  OBVIOUS
<1>13. session' = [pc |-> pc, side |-> form.side, price |-> price, base |-> base, maxFee |-> maxFee,
                   m |-> m, filled |-> Filled(m, form.amount), market |-> (form.limit = 0),
                   short |-> short, need |-> need, token |-> token,
                   approval |-> approval, shown |-> shown, right |-> right]
  BY <1>2, <1>4, <1>5, <1>6, <1>7, <1>8, <1>9, <1>10, <1>11, <1>12, Zenon DEF Place
<1>14. PICK s : s = session'
  OBVIOUS
<1>15. /\ s.pc = pc /\ PlacingFields \subseteq DOMAIN s /\ s.side = form.side /\ s.need = need
       /\ s.token = token /\ s.approval = approval /\ s.shown = shown /\ s.right = right
  BY <1>13, <1>14 DEF PlacingFields
<1>16. pc \in {"wrap", "approve"}
  BY <1>12
<1>17. QED
  BY <1>10, <1>11, <1>14, <1>15, <1>16

LEMMA PlaceCover ==
  ASSUME AppInv, WorldInv, WorldInv', CoverInv, NEW form \in left.forms, Place(form)
  PROVE  CoverInv'
<1>1. UNCHANGED <<clock, stored, trades, revokedAuth, view, refresh>>
  BY DEF Place, chainVars, nodeVars, tabVars
<1>2. Published' = Published /\ MineFollow
  BY <1>1, SameFollow
<1>3. clock \in Nat /\ clock' \in Nat /\ clock <= clock'
  BY <1>1 DEF WorldInv, ClockOK
<1>4. BooksHold'
  BY <1>1, <1>2, <1>3, BooksHoldOn DEF CoverInv
<1>5. PICK need \in Nat :
        /\ session'.pc \in {"wrap", "approve"} /\ PlacingFields \subseteq DOMAIN session'
        /\ session'.side = form.side /\ session'.need = need
        /\ session'.token = PayToken(form.side)
        /\ session'.approval = need + CommittedIn(PayToken(form.side))
        /\ session'.shown = MyOpen /\ session'.right = BookIsRight
  BY Placed
<1>6. PICK s, shown : s = session' /\ shown = MyOpen
  OBVIOUS
<1>7. IsFiniteSet(shown) /\ BookHolds(shown)
  <2>1. shown \subseteq view.orders
    BY <1>6 DEF MyOpen
  <2>2. QED
    BY <2>1, FS_Subset DEF WorldInv, TabOK, BookOK, CoverInv, BooksHold, BookHolds
<1>8. ShownHolds'
  <2>1. BookHolds(shown)'
    BY <1>2, <1>3, <1>7, BookStays
  <2>2. QED
    BY <1>5, <1>6, <1>7, <2>1 DEF ShownHolds, BookHolds
<1>9. ASSUME form.side = "sell", BookIsRight
      PROVE  SellCovered'
  <2>1. PICK pull \in Int : pull = PullOf(shown) /\ pull <= CommittedIn("base")
    BY <1>6, <1>9, PulledWithin DEF CoverInv, BooksHold
  <2>2. CommittedIn("base") \in Nat
    BY CommittedInIsNat DEF WorldInv, TabOK
  <2>3. s.token = "base" /\ s.approval = need + CommittedIn("base") /\ s.need = need
    BY <1>5, <1>6, <1>9 DEF PayToken
  <2>4. ShowsAll(shown)'
    <3>1. ShowsAll(shown)
      BY <1>6, <1>9 DEF BookIsRight, ShowsAll, Published, Of
    <3>2. \A i : FilledOnChain(i) <= FilledOnChain(i)'
      BY <1>1, FilledSame
    <3>3. QED
      BY <1>1, <1>2, <1>3, <3>1, <3>2, ShowsAllStays
  <2>5. PullOf(shown)' = pull
    BY <1>1, <2>1, PullsStay
  <2>6. s.shown = shown /\ s.pc # "sign" /\ session' = s
    BY <1>5, <1>6
  <2>7. ShowsAll(session.shown)' /\ PullOf(session.shown)' = pull
    BY <2>4, <2>5, <2>6 DEF ShowsAll, PullOf, SellsOf
  <2>8. s.need + pull <= s.approval
    BY <2>1, <2>2, <2>3
  <2>9. QED
    BY <2>3, <2>6, <2>7, <2>8 DEF SellCovered
<1>10. session'.side = "sell" /\ session'.right => SellCovered'
  BY <1>5, <1>9
<1>11. QED
  BY <1>4, <1>8, <1>10 DEF CoverInv

\* Wrapping and approving change nothing of what is in hand but where it is,
\* and what is approved in the end is at least what the click asked for.
LEMMA ApproveCover ==
  ASSUME AppInv, WorldInv, WorldInv', CoverInv, Wrap \/ Approve
  PROVE  CoverInv'
<1>1. /\ UNCHANGED <<clock, stored, trades, revokedAuth, view, refresh>>
      /\ session.pc \in {"wrap", "reset", "approve"} /\ Placing
  BY DEF Wrap, Approve, Placing, nodeVars, tabVars
<1>2. PICK pc \in {"approve", "sign", "reset"} : Goto(pc)
  BY DEF Wrap, Approve
<1>3. Published' = Published /\ MineFollow
  BY <1>1, SameFollow
<1>4. clock \in Nat /\ clock' \in Nat /\ clock <= clock'
  BY <1>1 DEF WorldInv, ClockOK
<1>5. BooksHold'
  BY <1>1, <1>3, <1>4, BooksHoldOn DEF CoverInv
<1>6. PICK was, s, shown : was = session /\ s = session' /\ shown = session.shown
  OBVIOUS
<1>7. /\ PlacingFields \subseteq DOMAIN was /\ was.need \in Nat /\ IsFiniteSet(shown) /\ BookHolds(shown)
  BY <1>1, <1>6 DEF CoverInv, ShownHolds
<1>8. /\ s.pc = pc /\ PlacingFields \subseteq DOMAIN s /\ s.shown = shown /\ s.right = was.right
      /\ s.side = was.side /\ s.need = was.need /\ s.token = was.token /\ s.approval = was.approval
  <2>1. /\ s.pc = pc /\ DOMAIN s = DOMAIN was
        /\ \A field \in DOMAIN was \ {"pc"} : s[field] = was[field]
    BY <1>2, <1>6, WentTo DEF AppInv
  <2>2. \A field \in PlacingFields : s[field] = was[field]
    BY <1>7, <2>1 DEF PlacingFields
  <2>3. QED
    BY <1>6, <1>7, <2>1, <2>2 DEF PlacingFields
<1>9. ShownHolds'
  <2>1. BookHolds(shown)'
    BY <1>3, <1>4, <1>7, BookStays
  <2>2. QED
    BY <1>6, <1>7, <1>8, <2>1 DEF ShownHolds, BookHolds
<1>10. ASSUME was.side = "sell", was.right
       PROVE  SellCovered'
  <2>1. SellCovered
    BY <1>1, <1>6, <1>10 DEF CoverInv
  <2>2. PICK pull : pull = PullOf(shown)
    OBVIOUS
  <2>3. was.token = "base" /\ ShowsAll(shown) /\ was.need + pull <= was.approval
    BY <1>1, <1>6, <2>1, <2>2 DEF SellCovered
  <2>4. ShowsAll(shown)'
    <3>1. \A i : FilledOnChain(i) <= FilledOnChain(i)'
      BY <1>1, FilledSame
    <3>2. QED
      BY <1>1, <1>3, <1>4, <2>3, <3>1, ShowsAllStays
  <2>5. PullOf(shown)' = pull
    BY <1>1, <2>2, PullsStay
  <2>6. ShowsAll(session.shown)' /\ PullOf(session.shown)' = pull
    BY <1>6, <1>8, <2>4, <2>5 DEF ShowsAll, PullOf, SellsOf
  <2>7. pc = "sign" => was.approval <= allow'[Me].base
    <3>1. SUFFICES ASSUME pc = "sign" PROVE was.approval <= allow'[Me].base
      OBVIOUS
    <3>2. Approve /\ ~Goto("reset") /\ ~Goto("approve")
      <4>1. s.pc = "sign"
        BY <1>8, <3>1
      <4>2. \A other : Goto(other) => s.pc = other
        BY <1>6, WentTo DEF AppInv
      <4>3. QED
        BY <4>1, <4>2 DEF Wrap
    <3>3. \/ allow' = allow /\ allow[Me].base >= was.approval
          \/ allow' = [allow EXCEPT ![Me]["base"] = was.approval]
      BY <1>6, <2>3, <3>2 DEF Approve
    <3>4. allow \in [Traders -> Allowance] /\ Me \in Traders
      BY AppAssumption DEF WorldInv, MoneyOK, Traders
    <3>5. was.approval \in Nat /\ allow[Me].base \in Nat /\ "base" \in DOMAIN allow[Me]
      <4>1. was.approval \in Nat
        BY <1>1, <1>6 DEF WorldInv, HandOK, PlacedOK, Placing
      <4>2. QED
        BY <3>4, <4>1 DEF Allowance
    <3>6. CASE allow' = allow /\ allow[Me].base >= was.approval
      BY <3>5, <3>6
    <3>7. CASE allow' = [allow EXCEPT ![Me]["base"] = was.approval]
      <4>1. PICK n \in Nat : n = was.approval
        BY <3>5
      <4>2. allow'[Me]["base"] = n
        BY <3>4, <3>5, <3>7, <4>1
      <4>3. QED
        BY <4>1, <4>2
    <3>8. QED
      BY <3>3, <3>6, <3>7
  <2>8. was.need + pull <= IF pc = "sign" THEN allow'[Me].base ELSE was.approval
    <3>1. CASE pc # "sign"
      BY <2>3, <3>1
    <3>2. CASE pc = "sign"
      <4>1. pull \in Int
        <5>1. TradesOK /\ \A e \in shown : EntryOpen(e)
          BY <1>7 DEF WorldInv, BookHolds
        <5>2. PICK S, f : S = SellsOf(shown) /\ f = [e \in SellsOf(shown) |-> CanStillPull(e)]
          OBVIOUS
        <5>3. IsFiniteSet(S) /\ \A e \in S : f[e] \in Int
          BY <1>7, <5>1, <5>2, FS_Subset, PullOfSell DEF SellsOf
        <5>4. pull = SumFunctionOnSet(f, S)
          BY <2>2, <5>2, PullOfSells
        <5>5. QED
          BY <5>3, <5>4, SumType
      <4>2. was.approval \in Nat
        BY <1>1, <1>6 DEF WorldInv, HandOK, PlacedOK, Placing
      <4>3. allow'[Me].base \in Nat
        BY AppAssumption DEF WorldInv, MoneyOK, Traders, Allowance
      <4>4. QED
        BY <1>7, <2>3, <2>7, <3>2, <4>1, <4>2, <4>3
    <3>3. QED
      BY <3>1, <3>2
  <2>9. QED
    BY <1>6, <1>8, <2>3, <2>6, <2>8 DEF SellCovered
<1>11. session'.side = "sell" /\ session'.right => SellCovered'
  BY <1>6, <1>8, <1>10
<1>12. QED
  BY <1>5, <1>9, <1>11 DEF CoverInv

-----------------------------------------------------------------------------
\* What others publish: no order of mine, but for copies.
LEMMA ObjsFollow ==
  ASSUME NEW objs, Adds(objs),
         \A o \in Of(objs, "order") : o.trader = Me =>
           \E p \in Of(Published, "order") : SameTerms(o, p)
  PROVE  Published \subseteq Published' /\ MineFollow
<1>1. ASSUME NEW o \in Of(Published', "order"), o.trader = Me
      PROVE  \E p \in Of(Published, "order") : SameTerms(o, p)
  <2>1. CASE o \in Published
    <3>1. o \in Of(Published, "order") /\ SameTerms(o, o)
      BY <1>1, <2>1 DEF Of, SameTerms
    <3>2. QED
      BY <3>1
  <2>2. CASE o \in Of(objs, "order")
    BY <1>1, <2>2
  <2>3. QED
    BY <1>1, <2>1, <2>2 DEF Adds, Of
<1>2. QED
  BY <1>1 DEF MineFollow, Adds

LEMMA OthersCover ==
  ASSUME WorldInv, WorldInv', CoverInv, UNCHANGED <<tabVars, session, trades, revokedAuth, allow>>,
         clock <= clock', Published \subseteq Published', MineFollow
  PROVE  CoverInv'
<1>1. view' = view /\ refresh' = refresh /\ clock \in Nat /\ clock' \in Nat
  BY DEF tabVars, WorldInv, ClockOK
<1>2. BooksHold'
  BY <1>1, BooksHoldOn DEF CoverInv
<1>3. QED
  BY <1>2, CoverStep

LEMMA ExecuteCover ==
  ASSUME AppInv, WorldInv, WorldInv', CoverInv, NEW n \in Nodes, NEW f, NEW posted \in BOOLEAN,
         Execute(n, f, posted)
  PROVE  CoverInv'
<1>1. UNCHANGED <<tabVars, session, clock>>
  BY DEF Execute
<1>2. PICK call \in SettleCalls(stored[n], f.hash) :
        /\ Accepts(call) /\ SettlesOnChain(call)
        /\ IF posted THEN AtEveryNode({BuildReceipt(next, call, FittingOf(call), clock)})
                     ELSE stored' = stored
  BY DEF Execute
<1>3. Published \subseteq Published' /\ MineFollow
  <2>1. CASE posted
    <3>1. PICK r : r = BuildReceipt(next, call, FittingOf(call), clock)
      OBVIOUS
    <3>2. Adds({r})
      BY <1>2, <2>1, <3>1, AtEveryNodeAdds
    <3>3. r.type = "receipt"
      BY <3>1 DEF BuildReceipt
    <3>4. QED
      BY <3>2, <3>3, ObjsFollow DEF Of
  <2>2. CASE ~posted
    BY <1>2, <2>2, SameFollow
  <2>3. QED
    BY <2>1, <2>2
<1>4. view' = view /\ refresh' = refresh /\ clock \in Nat /\ clock' \in Nat /\ clock <= clock'
  BY <1>1 DEF tabVars, WorldInv, ClockOK
<1>5. BooksHold'
  BY <1>3, <1>4, BooksHoldOn DEF CoverInv
<1>6. CallHolds(call)
  BY PublishedCalls
<1>7. revokedAuth' = revokedAuth
  BY <1>2 DEF SettlesOnChain
<1>8. Placing' => Placing /\ ShownHolds'
  <2>1. Placing' => Placing
    BY <1>1 DEF Placing
  <2>2. QED
    BY <1>1, <1>3, <1>4, <2>1, ShownStays DEF CoverInv
<1>9. Placing' /\ session'.side = "sell" /\ session'.right => SellCovered'
  <2>1. SUFFICES ASSUME Placing', session'.side = "sell", session'.right
                 PROVE  SellCovered'
    OBVIOUS
  <2>2. Placing /\ session.side = "sell" /\ session.right
    BY <1>1, <1>8, <2>1
  <2>3. QED
    BY <1>1, <1>2, <1>3, <1>6, <1>7, <2>2, SettlementCovers
<1>10. QED
  BY <1>5, <1>8, <1>9 DEF CoverInv

LEMMA RivalCover ==
  ASSUME WorldInv, WorldInv', FitInv, CoverInv, NEW n \in Nodes, NEW form \in left.theirs,
         RivalPlaces(n, form)
  PROVE  CoverInv'
<1>1. UNCHANGED <<tabVars, session, trades, revokedAuth, allow, clock>>
  BY DEF RivalPlaces, chainVars
<1>2. PICK a, o, legs, fee, fills : RivalMade(a, o, legs, fee, fills)
  BY RivalMakes
<1>3. PICK objs : objs = {a, o} \cup fills
  OBVIOUS
<1>4. Adds(objs)
  BY <1>2, <1>3, AtEveryNodeAdds DEF RivalMade
<1>5. \A f \in fills : f.type = "fill"
  BY <1>2 DEF RivalMade, BuildFill
<1>6. \A x \in Of(objs, "order") : x.trader # Me
  BY <1>2, <1>3, <1>5, AppAssumption DEF RivalMade, Of
<1>7. Published \subseteq Published' /\ MineFollow
  BY <1>4, <1>6, ObjsFollow
<1>8. clock <= clock'
  BY <1>1 DEF WorldInv, ClockOK
<1>9. QED
  BY <1>1, <1>7, <1>8, OthersCover

\* Others publish one object, that is no order or a copy of one.
LEMMA OneMoreCover ==
  ASSUME WorldInv, WorldInv', CoverInv, UNCHANGED <<tabVars, session, trades, revokedAuth, allow, clock>>,
         NEW obj, AtEveryNode({obj}),
         obj.type = "order" => \E p \in Of(Published, "order") : SameTerms(obj, p)
  PROVE  CoverInv'
<1>1. Adds({obj})
  BY AtEveryNodeAdds
<1>2. Published \subseteq Published' /\ MineFollow
  BY <1>1, ObjsFollow DEF Of
<1>3. clock <= clock'
  BY DEF WorldInv, ClockOK
<1>4. QED
  BY <1>2, <1>3, OthersCover

LEMMA RepublishCover ==
  ASSUME AppInv, WorldInv, WorldInv', CoverInv, NEW n \in Nodes, NEW o \in Signed(n),
         NEW date, Republish(n, o, date)
  PROVE  CoverInv'
<1>1. PICK p \in CopiesOf(n, o) : AtEveryNode({[p EXCEPT !.hash = next, !.createdAt = date]})
  BY DEF Republish
<1>2. PICK c : Redated(c, p, next, date) /\ AtEveryNode({c})
  BY <1>1 DEF Redated
<1>3. UNCHANGED <<tabVars, session, trades, revokedAuth, allow, clock>>
  BY DEF Republish, chainVars
<1>4. o \in Published /\ (o.type = "order" \/ o.type = "authorization")
  BY DEF Of, Published, Signed
<1>5. CASE o.type = "order"
  <2>1. o \in Of(Published, "order")
    BY <1>4, <1>5 DEF Of
  <2>2. OrderTerms \subseteq DOMAIN o
    BY <2>1 DEF AppInv, OrdersAuthentic, SignedOrders
  <2>3. "type" \in DOMAIN o
    BY <2>2 DEF OrderTerms
  <2>4. \A field \in OrderTerms : c[field] = o[field]
    BY <1>1, <1>2, <2>2, <2>3, CopySays DEF OrderTerms
  <2>5. SameTerms(c, o)
    BY <2>4 DEF SameTerms
  <2>6. QED
    BY <1>2, <1>3, <2>1, <2>5, OneMoreCover
<1>6. CASE o.type = "authorization"
  <2>1. "type" \in DOMAIN o
    BY <1>4, <1>6 DEF AppInv, Sincere
  <2>2. c.type # "order"
    BY <1>1, <1>2, <1>6, <2>1, CopySays
  <2>3. QED
    BY <1>2, <1>3, <2>2, OneMoreCover
<1>7. QED
  BY <1>4, <1>5, <1>6

LEMMA ForgeCover ==
  ASSUME WorldInv, WorldInv', CoverInv, NEW n, NEW f, NEW moved, ForgeReceipt(n, f, moved)
  PROVE  CoverInv'
<1>1. PICK call, more : AtEveryNode({[BuildReceipt(next, call, moved, clock)
                                        EXCEPT !.key.fee = @ + more, !.by = "anyone"]})
  BY DEF ForgeReceipt
<1>2. PICK r : /\ AtEveryNode({r})
               /\ r = [BuildReceipt(next, call, moved, clock)
                         EXCEPT !.key.fee = @ + more, !.by = "anyone"]
  BY <1>1
<1>3. UNCHANGED <<tabVars, session, trades, revokedAuth, allow, clock>>
  BY DEF ForgeReceipt, chainVars
<1>4. r.type = "receipt"
  BY <1>2 DEF BuildReceipt
<1>5. QED
  BY <1>2, <1>3, <1>4, OneMoreCover

LEMMA OutsideCover ==
  ASSUME AppInv, WorldInv, WorldInv', FitInv, CoverInv, Outside
  PROVE  CoverInv'
<1>1. ASSUME NEW n \in Nodes, NEW o, NEW target, OtherRevokes(n, o, target)
      PROVE  CoverInv'
  <2>1. PICK r : r = [BuildRevocation(next, AuthOf(o, Reading(stored[n])), clock) EXCEPT !.target = target]
    OBVIOUS
  <2>2. UNCHANGED <<tabVars, session, trades, revokedAuth, allow, clock>> /\ AtEveryNode({r})
    BY <1>1, <2>1 DEF OtherRevokes, chainVars
  <2>3. r.type = "revocation"
    BY <2>1 DEF BuildRevocation
  <2>4. QED
    BY <2>2, <2>3, OneMoreCover
<1>2. CASE (\E n \in Nodes : NodeDown(n) \/ NodeUp(n)) \/ Tick
  <2>1. UNCHANGED <<tabVars, session, trades, revokedAuth, allow, stored>>
    BY <1>2 DEF NodeDown, NodeUp, Tick, chainVars, nodeVars
  <2>2. clock <= clock'
    BY <1>2 DEF NodeDown, NodeUp, Tick, WorldInv, ClockOK
  <2>3. Published \subseteq Published' /\ MineFollow
    BY <2>1, SameFollow
  <2>4. QED
    BY <2>1, <2>2, <2>3, OthersCover
<1>3. CASE Propagate
  <2>1. UNCHANGED <<tabVars, session, trades, revokedAuth, allow>> /\ clock <= clock'
    BY <1>3 DEF Propagate, chainVars, WorldInv, ClockOK
  <2>2. PICK none : none = {}
    OBVIOUS
  <2>3. Adds(none)
    BY <1>3, <2>2, PropagateAdds DEF AppInv
  <2>4. Published \subseteq Published' /\ MineFollow
    BY <2>2, <2>3, ObjsFollow DEF Of
  <2>5. QED
    BY <2>1, <2>4, OthersCover
<1>4. QED
  BY <1>1, <1>2, <1>3, ExecuteCover, RivalCover, RepublishCover, ForgeCover DEF Outside

-----------------------------------------------------------------------------
LEMMA InitCover ==
  ASSUME Init
  PROVE  CoverInv
<1>1. view = NoState /\ refresh = Quiet /\ session = Quiet
  BY DEF Init
<1>2. QED
  BY <1>1 DEF CoverInv, BooksHold, BookHolds, Placing, NoState, Quiet

LEMMA NextCover ==
  ASSUME AppInv, WorldInv, WorldInv', FitInv, CoverInv, [Next]_vars
  PROVE  CoverInv'
<1>1. CASE UNCHANGED vars
  <2>1. UNCHANGED <<tabVars, session, trades, revokedAuth, allow, stored, clock>>
    BY <1>1 DEF vars, chainVars, nodeVars
  <2>2. Published \subseteq Published' /\ MineFollow
    BY <2>1, SameFollow
  <2>3. clock <= clock'
    BY <2>1 DEF WorldInv, ClockOK
  <2>4. QED
    BY <2>1, <2>2, <2>3, OthersCover
<1>2. CASE Interval \/ RefreshStep
  BY <1>2, RefreshCover
<1>3. CASE UserStarts
  <2>1. CASE \E c \in left.forms : Place(c)
    BY <2>1, PlaceCover
  <2>2. CASE \/ \E o \in MyOpen, onChain \in BOOLEAN : Cancel(o, onChain)
             \/ (\E v \in view.fills : SettleNow(v.hash)) \/ Unwrap
    BY <2>2, AwaySteps
  <2>3. QED
    BY <1>3, <2>1, <2>2 DEF UserStarts
<1>4. CASE SessionStep
  <2>1. CASE Wrap \/ Approve
    BY <2>1, ApproveCover
  <2>2. CASE ~(Wrap \/ Approve)
    BY <1>4, <2>2, AwaySteps DEF SessionStep
  <2>3. QED
    BY <2>1, <2>2
<1>5. CASE Decline \/ PublishFails
  BY <1>5, AwaySteps
<1>6. CASE Reload
  BY <1>6, ReloadCover
<1>7. CASE Outside
  BY <1>7, OutsideCover
<1>8. QED
  BY <1>1, <1>2, <1>3, <1>4, <1>5, <1>6, <1>7 DEF Next

\* When a sell is about to be signed, the allowance covers it and everything
\* the user's open sells can still deliver, whatever settled since the click,
\* if the book was right about them then: what ensureAllowance approves is
\* enough (page.tsx:298-305, 378-397).
THEOREM SellsAreCovered == Spec => []SellApprovalsCover
<1>1. Init => AppInv /\ WorldInv /\ FitInv /\ CoverInv
  BY InitApp, InitWorld, InitFit, InitCover
<1>2. AppInv /\ WorldInv /\ FitInv /\ CoverInv /\ [Next]_vars
        => (AppInv /\ WorldInv /\ FitInv /\ CoverInv)'
  BY NextApp, NextWorld, NextFit, NextCover
<1>3. AppInv /\ WorldInv /\ CoverInv => SellApprovalsCover
  <2> SUFFICES ASSUME AppInv, WorldInv, CoverInv, session.pc = "sign", session.side = "sell",
                      session.right
               PROVE  allow[Me][session.token] >= session.need +
                        SumFunction([e \in {e \in session.shown : e.side = "sell"} |-> CanStillPull(e)])
    BY DEF SellApprovalsCover, Covered
  <2>1. SellCovered
    BY DEF CoverInv, Placing
  <2>2. PICK pull : pull = PullOf(session.shown)
    OBVIOUS
  <2>3. pull = SumFunction([e \in {e \in session.shown : e.side = "sell"} |-> CanStillPull(e)])
    BY <2>2 DEF PullOf, SellsOf
  <2>4. session.token = "base" /\ session.need + pull <= allow[Me].base
    BY <2>1, <2>2 DEF SellCovered
  <2>5. allow[Me][session.token] >= session.need + pull
    BY <2>4
  <2>6. QED
    BY <2>3, <2>5
<1>4. QED
  BY <1>1, <1>2, <1>3, PTL DEF Spec

=============================================================================
