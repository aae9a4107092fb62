------------------------ MODULE SpotAppFills_proofs -------------------------
(***************************************************************************)
(* Proofs that a fill matched against an up-to-date book is one the        *)
(* contract takes, in full, for any nodes, listings, forms, faults and     *)
(* acts of others.                                                         *)
(*                                                                         *)
(* TermsInv adds to the invariants of SpotApp_proofs what is signed under  *)
(* what: every order has an authorization of its own that allows all of    *)
(* it, and every trade was of a buy and a sell there are, at a fair fee.   *)
(* From there on, one leg of a match is followed through what the page     *)
(* takes for true of it and what the contract checks.                      *)
(***************************************************************************)
EXTENDS SpotApp_proofs

-----------------------------------------------------------------------------
(***************************************************************************)
(* What is signed under what, and what trades were of.                     *)
(***************************************************************************)
SignedAuths == Of(Published, "authorization") \cup (IF Signing THEN {session.auth} ELSE {})

\* The orders a call settles are published with their authorizations.
CallKnown(call) ==
  /\ CallHolds(call) /\ call.key.price = call.fill.price
  /\ {call.makerAuth, call.takerAuth} \subseteq Of(Published, "authorization")

\* A trade is of a buy and a sell there are, at a price the buy takes, and its
\* fee is within the buyer's share.
TradeOf(t, b, s) ==
  /\ b.side = "buy" /\ s.side = "sell" /\ {b.eip, s.eip} = {t.key.maker, t.key.taker}
  /\ t.buyAuth = b.sessionAuth /\ t.sellAuth = s.sessionAuth
  /\ t.quote = QuoteFor(t.base, t.key.price) /\ t.key.price <= b.price
FeeShared(t, auths) ==
  \A a \in auths : a.eip = t.buyAuth => t.fee * a.maxQuote <= a.maxFee * t.quote
TradeKnown(t) ==
  /\ t.key.price \in Nat /\ t.quote \in Nat /\ t.fee \in Nat
  /\ \E b, s \in Of(Published, "order") : TradeOf(t, b, s)

HandTerms ==
  /\ session.pc \in {"revoke", "onchain"} =>
       "auth" \in DOMAIN session /\ session.auth.eip \in 0..(next - 1)
  /\ Placing => session.price <= MaxPrice
  /\ session.pc \in {"fit", "send"} => CallKnown(session.call)

TermsInv ==
  /\ OwnAuths(SignedOrders, SignedAuths, next)
  /\ \A t \in trades : TradeKnown(t) /\ FeeShared(t, SignedAuths)
  /\ revokedAuth \subseteq 0..(next - 1)
  /\ HandTerms

\* No new terms but copies.
OrdersFollow == \A o \in SignedOrders' : \E p \in SignedOrders : SameTerms(o, p)
SameLimits(a, b) ==
  a.eip = b.eip /\ a.maxBase = b.maxBase /\ a.maxQuote = b.maxQuote /\ a.maxFee = b.maxFee
AuthsFollow  == \A a \in SignedAuths' : \E b \in SignedAuths : SameLimits(a, b)

\* A fee that is shared fairly by some authorizations is so by copies of them.
LEMMA SharedByCopies ==
  ASSUME NEW t, NEW A, NEW B, FeeShared(t, A), \A a \in B : \E b \in A : SameLimits(a, b)
  PROVE  FeeShared(t, B)
  BY DEF FeeShared, SameLimits

LEMMA OwnFollows ==
  ASSUME NEW S, NEW A, NEW n \in Nat, OwnAuths(S, A, n),
         NEW T, NEW B, NEW m \in Nat, n <= m,
         \A a \in B : \E b \in A : SameLimits(a, b), \A o \in T : \E p \in S : SameTerms(o, p)
  PROVE  OwnAuths(T, B, m)
<1>1. 0..(n - 1) \subseteq 0..(m - 1)
  OBVIOUS
<1>2. /\ \A a \in B : a.eip \in 0..(m - 1)
      /\ \A a, b \in B : a.eip = b.eip => a.maxQuote = b.maxQuote /\ a.maxFee = b.maxFee
  <2>1. /\ \A a \in A : a.eip \in 0..(n - 1)
        /\ \A a, b \in A : a.eip = b.eip => a.maxQuote = b.maxQuote /\ a.maxFee = b.maxFee
    BY Zenon DEF OwnAuths
  <2>2. QED
    BY <1>1, <2>1 DEF SameLimits
<1>3. \A o \in T : \E p \in S :
        /\ o.sessionAuth = p.sessionAuth /\ o.counterSet = p.counterSet /\ o.side = p.side
        /\ o.price = p.price /\ o.base = p.base /\ o.eip = p.eip
  BY DEF SameTerms, OrderTerms
<1>4. ASSUME NEW o \in T
      PROVE  /\ {o.sessionAuth} \cup DOMAIN o.counterSet \subseteq 0..(m - 1)
             /\ o.price <= MaxPrice
             /\ \A a \in B : a.eip = o.sessionAuth => Allows(a, o)
             /\ \A q \in T : o.sessionAuth = q.sessionAuth => o.eip = q.eip
  <2>1. PICK p \in S : /\ o.sessionAuth = p.sessionAuth /\ o.counterSet = p.counterSet
                       /\ o.side = p.side /\ o.price = p.price /\ o.base = p.base /\ o.eip = p.eip
    BY <1>3
  <2>2. /\ {p.sessionAuth} \cup DOMAIN p.counterSet \subseteq 0..(n - 1) /\ p.price <= MaxPrice
        /\ \A a \in A : a.eip = p.sessionAuth => Allows(a, p)
        /\ \A q \in S : p.sessionAuth = q.sessionAuth => p.eip = q.eip
    BY Zenon DEF OwnAuths
  <2>3. {o.sessionAuth} \cup DOMAIN o.counterSet \subseteq 0..(m - 1) /\ o.price <= MaxPrice
    BY <1>1, <2>1, <2>2
  <2>4. ASSUME NEW a \in B, a.eip = o.sessionAuth
        PROVE  Allows(a, o)
    <3>1. PICK b \in A : SameLimits(a, b)
      OBVIOUS
    <3>2. Allows(b, p)
      BY <2>1, <2>2, <2>4, <3>1 DEF SameLimits
    <3>3. QED
      BY <2>1, <3>1, <3>2 DEF Allows, SameLimits
  <2>5. ASSUME NEW q \in T, o.sessionAuth = q.sessionAuth
        PROVE  o.eip = q.eip
    <3>1. PICK r \in S : q.sessionAuth = r.sessionAuth /\ q.eip = r.eip
      BY <1>3
    <3>2. QED
      BY <2>1, <2>2, <2>5, <3>1
  <2>6. QED
    BY <2>3, <2>4, <2>5
<1>5. QED
  BY <1>2, <1>4, Zenon DEF OwnAuths

\* An order and its authorization, signed now.
LEMMA OwnGrows ==
  ASSUME NEW S, NEW A, NEW n \in Nat, OwnAuths(S, A, n), NEW m \in Nat, n + 2 <= m,
         NEW a, a.eip = n, NEW o, o.eip = n + 1, o.sessionAuth = n,
         DOMAIN o.counterSet \subseteq 0..(n - 1), o.price <= MaxPrice, Allows(a, o)
  PROVE  OwnAuths(S \cup {o}, A \cup {a}, m)
<1>1. 0..(n - 1) \subseteq 0..(m - 1) /\ n \in 0..(m - 1) /\ n \notin 0..(n - 1)
  OBVIOUS
<1>2. /\ \A b \in A : b.eip \in 0..(n - 1)
      /\ \A b, c \in A : b.eip = c.eip => b.maxQuote = c.maxQuote /\ b.maxFee = c.maxFee
      /\ \A p \in S : /\ {p.sessionAuth} \cup DOMAIN p.counterSet \subseteq 0..(n - 1)
                      /\ p.price <= MaxPrice
                      /\ \A b \in A : b.eip = p.sessionAuth => Allows(b, p)
                      /\ \A q \in S : p.sessionAuth = q.sessionAuth => p.eip = q.eip
  BY Zenon DEF OwnAuths
<1>3. \A b \in A \cup {a} : b.eip \in 0..(m - 1)
  BY <1>1, <1>2
<1>4. \A b, c \in A \cup {a} : b.eip = c.eip => b.maxQuote = c.maxQuote /\ b.maxFee = c.maxFee
  BY <1>1, <1>2
<1>5. ASSUME NEW p \in S \cup {o}
      PROVE  /\ {p.sessionAuth} \cup DOMAIN p.counterSet \subseteq 0..(m - 1)
             /\ p.price <= MaxPrice
             /\ \A b \in A \cup {a} : b.eip = p.sessionAuth => Allows(b, p)
             /\ \A q \in S \cup {o} : p.sessionAuth = q.sessionAuth => p.eip = q.eip
  <2>1. {p.sessionAuth} \cup DOMAIN p.counterSet \subseteq 0..(m - 1) /\ p.price <= MaxPrice
    BY <1>1, <1>2
  <2>2. \A b \in A \cup {a} : b.eip = p.sessionAuth => Allows(b, p)
    BY <1>1, <1>2
  <2>3. \A q \in S \cup {o} : p.sessionAuth = q.sessionAuth => p.eip = q.eip
    BY <1>1, <1>2
  <2>4. QED
    BY <2>1, <2>2, <2>3
<1>6. QED
  BY <1>3, <1>4, <1>5, Zenon DEF OwnAuths

LEMMA RangeGrows ==
  ASSUME NEW n \in Nat, NEW m \in Nat, n <= m
  PROVE  0..(n - 1) \subseteq 0..(m - 1)
OBVIOUS

LEMMA CallStays ==
  ASSUME NEW call, CallKnown(call), Published \subseteq Published'
  PROVE  CallKnown(call)'
BY DEF CallKnown, CallHolds, CallOK, Of

LEMMA TradeStays ==
  ASSUME NEW t, TradeKnown(t), Published \subseteq Published'
  PROVE  TradeKnown(t)'
BY DEF TradeKnown, Of

\* A step that signs and settles nothing.
LEMMA TermsStep ==
  ASSUME TermsInv, next \in Nat, next' \in Nat, next <= next', Published \subseteq Published',
         UNCHANGED <<trades, revokedAuth>>, OrdersFollow, AuthsFollow, HandTerms'
  PROVE  TermsInv'
<1>1. OwnAuths(SignedOrders', SignedAuths', next')
  BY OwnFollows DEF TermsInv, OrdersFollow, AuthsFollow
<1>2. \A t \in trades' : TradeKnown(t)' /\ FeeShared(t, SignedAuths')
  <2>1. ASSUME NEW t \in trades
        PROVE  TradeKnown(t)' /\ FeeShared(t, SignedAuths')
    <3>1. TradeKnown(t) /\ FeeShared(t, SignedAuths)
      BY DEF TermsInv
    <3>2. QED
      BY <3>1, TradeStays, SharedByCopies DEF AuthsFollow
  <2>2. QED
    BY <2>1
<1>3. revokedAuth' \subseteq 0..(next' - 1)
  <2>1. 0..(next - 1) \subseteq 0..(next' - 1)
    BY RangeGrows
  <2>2. QED
    BY <2>1 DEF TermsInv
<1>4. QED
  BY <1>1, <1>2, <1>3 DEF TermsInv

LEMMA HandTermsStay ==
  ASSUME HandTerms, session' = session, next \in Nat, next' \in Nat, next <= next',
         Published \subseteq Published'
  PROVE  HandTerms'
<1>1. 0..(next - 1) \subseteq 0..(next' - 1)
  BY RangeGrows
<1>2. session.pc \in {"fit", "send"} => CallKnown(session.call)'
  <2>1. PICK call : call = session.call
    OBVIOUS
  <2>2. CallKnown(call) => CallKnown(call)'
    BY CallStays
  <2>3. call = session'.call
    BY <2>1
  <2>4. QED
    BY <2>1, <2>2, <2>3 DEF HandTerms
<1>3. QED
  BY <1>1, <1>2 DEF HandTerms, Placing

LEMMA HandTermsAway ==
  ASSUME session'.pc \in {"idle", "auth", "order", "fill", "receipt", "finish", "await"}
  PROVE  HandTerms'
BY DEF HandTerms, Placing

\* What is signed stays in hand, or is put away.
SigningStays == Signing' => Signing /\ session'.order = session.order /\ session'.auth = session.auth

LEMMA AddsTerms ==
  ASSUME NEW objs, Adds(objs), SigningStays,
         \A o \in Of(objs, "order") : \E p \in SignedOrders : SameTerms(o, p),
         \A a \in Of(objs, "authorization") : \E b \in SignedAuths : SameLimits(a, b)
  PROVE  Published \subseteq Published' /\ OrdersFollow /\ AuthsFollow
<1>1. ASSUME NEW o \in SignedOrders'
      PROVE  \E p \in SignedOrders : SameTerms(o, p)
  <2>1. CASE o \in SignedOrders
    <3>1. SameTerms(o, o)
      BY DEF SameTerms
    <3>2. QED
      BY <2>1, <3>1
  <2>2. CASE o \in Of(objs, "order")
    BY <2>2
  <2>3. o \in SignedOrders \/ o \in Of(objs, "order")
    BY <1>1 DEF SignedOrders, SigningStays, Adds, Of
  <2>4. QED
    BY <2>1, <2>2, <2>3
<1>2. \A a \in SignedAuths' : \E b \in SignedAuths : SameLimits(a, b)
  <2>1. SignedAuths' \subseteq SignedAuths \cup Of(objs, "authorization")
    BY DEF SignedAuths, SigningStays, Adds, Of
  <2>2. \A a \in SignedAuths : SameLimits(a, a)
    BY DEF SameLimits
  <2>3. QED
    BY <2>1, <2>2
<1>3. QED
  BY <1>1, <1>2 DEF OrdersFollow, AuthsFollow, Adds

LEMMA SameObjectsTerms ==
  ASSUME stored' = stored, SigningStays
  PROVE  Published \subseteq Published' /\ OrdersFollow /\ AuthsFollow
<1>1. PICK none : none = {}
  OBVIOUS
<1>2. Adds(none)
  BY <1>1, SameAdds
<1>3. QED
  BY <1>1, <1>2, AddsTerms DEF Of

\* The user's steps that publish and settle nothing.
LEMMA QuietTerms ==
  ASSUME WorldInv, WorldInv', TermsInv, UNCHANGED <<stored, trades, revokedAuth>>, next <= next',
         SigningStays, HandTerms'
  PROVE  TermsInv'
<1>1. next \in Nat /\ next' \in Nat
  BY DEF WorldInv, ClockOK
<1>2. QED
  BY <1>1, SameObjectsTerms, TermsStep

-----------------------------------------------------------------------------
LEMMA KnownCalls ==
  ASSUME WorldInv, NEW objs \in SUBSET Published, NEW hash, NEW call \in SettleCalls(objs, hash)
  PROVE  CallKnown(call)
<1>1. \A o \in objs : WellFormed(o)
  BY DEF WorldInv, ObjectsOK, ObjOK
<1>2. CallOK(call)
  BY <1>1, CallNumbers
<1>3. /\ call.maker \in Of(objs, "order") /\ call.taker \in Of(objs, "order")
      /\ call.key = FillKeyOf(call.fill, call.maker, call.taker)
  BY CallsAreOfObjects
<1>4. /\ call.key.maker = call.maker.eip /\ call.key.taker = call.taker.eip
      /\ call.key.price = call.fill.price
  BY <1>3 DEF FillKeyOf
<1>5. {call.makerAuth, call.takerAuth} \subseteq Of(objs, "authorization")
  <2>1. PICK f \in Lookup(objs, "fill", hash) :
          \E m, t : \E ma \in Lookup(objs, "authorization", f.makerAuth),
                      ta \in Lookup(objs, "authorization", f.takerAuth) :
            call = [fill |-> f, maker |-> m, taker |-> t, makerAuth |-> ma, takerAuth |-> ta,
                    key |-> FillKeyOf(f, m, t)]
    BY DEF SettleCalls
  <2>2. QED
    BY <2>1 DEF Lookup
<1>6. QED
  BY <1>2, <1>3, <1>4, <1>5 DEF CallKnown, CallHolds, Of

\* The price of an entry of the book is one of a published order.
LEMMA PricesOfBook ==
  ASSUME TermsInv, NEW e, EntryKnown(e)
  PROVE  e.price <= MaxPrice
<1>1. PICK o \in Of(Published, "order") : o.price = e.price
  BY DEF EntryKnown
<1>2. o \in SignedOrders
  BY DEF SignedOrders
<1>3. o.price <= MaxPrice
  BY <1>2 DEF TermsInv, OwnAuths
<1>4. QED
  BY <1>1, <1>3

LEMMA RefreshTerms ==
  ASSUME AppInv, WorldInv, WorldInv', TermsInv, Interval \/ RefreshStep
  PROVE  TermsInv'
<1>1. UNCHANGED <<stored, trades, revokedAuth, next>>
  BY DEF Interval, RefreshStep, ListObjects, ReadUsed, ReadFilled, ReadBound, ShowBook, chainVars, nodeVars
<1>2. session' = session \/ session'.pc = "idle"
  BY DEF Interval, RefreshStep, ListObjects, ReadUsed, ReadFilled, ReadBound, ShowBook, RefreshFails,
     RefreshEnds, Quiet
<1>3. SigningStays
  BY <1>2 DEF SigningStays, Signing
<1>4. next \in Nat /\ next' \in Nat /\ next <= next'
  BY <1>1 DEF AppInv
<1>5. HandTerms'
  <2>1. Published \subseteq Published'
    BY <1>1 DEF Published
  <2>2. QED
    BY <1>2, <1>4, <2>1, HandTermsStay, HandTermsAway DEF TermsInv
<1>6. QED
  BY <1>1, <1>3, <1>4, <1>5, QuietTerms

LEMMA PlaceTerms ==
  ASSUME AppInv, WorldInv, WorldInv', FitInv, TermsInv, NEW form \in left.forms, Place(form)
  PROVE  TermsInv'
<1>1. UNCHANGED <<stored, trades, revokedAuth, next>>
  BY DEF Place, chainVars, nodeVars
<1>2. PICK m : m = MatchOrder(view.orders, form.side, form.amount, form.limit, Me, clock)
  OBVIOUS
<1>3. PICK price : price = IF form.limit = 0 THEN WorstPrice(m) ELSE form.limit
  OBVIOUS
<1>4. session'.pc \in {"wrap", "approve"} /\ session'.price = price
  BY <1>2, <1>3 DEF Place
<1>5. form.amount \in Nat /\ form.limit <= MaxPrice
  BY DEF FitInv, FormsSided, WorldInv, LeftOK, FormsOK
<1>6. price <= MaxPrice
  <2>1. CASE form.limit # 0
    BY <1>3, <1>5, <2>1
  <2>2. CASE m.legs = <<>>
    BY <1>3, <1>5, <2>2, MarketAssumption DEF WorstPrice
  <2>3. CASE form.limit = 0 /\ m.legs # <<>>
    <3>1. BookOK(view.orders) /\ BookKnown(view.orders)
      BY DEF FitInv, BooksKnown, WorldInv, TabOK
    <3>2. m \in Matches(view.orders, form.amount)
      BY <1>2, <1>5, <3>1, MatchTakesLegs DEF BookOK, EntryOK
    <3>3. m.legs \in Seq(Legs(view.orders))
      BY <3>2 DEF Matches
    <3>4. PICK l : l = m.legs[Len(m.legs)] /\ l \in Legs(view.orders)
      BY <2>3, <3>3
    <3>5. l.order \in view.orders /\ l.price = l.order.price
      BY <3>4 DEF Legs
    <3>6. WorstPrice(m) = l.price
      BY <2>3, <3>4 DEF WorstPrice, Last
    <3>7. QED
      BY <1>3, <2>3, <3>1, <3>5, <3>6, PricesOfBook DEF BookKnown
  <2>4. QED
    BY <2>1, <2>2, <2>3
<1>7. HandTerms' /\ SigningStays
  BY <1>4, <1>6 DEF HandTerms, Placing, SigningStays, Signing
<1>8. next <= next'
  BY <1>1 DEF AppInv
<1>9. QED
  BY <1>1, <1>7, <1>8, QuietTerms

LEMMA StartTerms ==
  ASSUME AppInv, WorldInv, WorldInv', FitInv, TermsInv,
         \/ \E o, onChain : Cancel(o, onChain)
         \/ \E hash : SettleNow(hash)
         \/ Unwrap \/ Finish \/ Decline
  PROVE  TermsInv'
<1>1. UNCHANGED <<stored, trades, revokedAuth>>
  BY DEF Cancel, SettleNow, Unwrap, Finish, Decline, chainVars, nodeVars
<1>2. next \in Nat /\ next' \in Nat /\ next <= next'
  BY DEF Cancel, SettleNow, Unwrap, Finish, Decline, AppInv
<1>3. Published' = Published
  BY <1>1 DEF Published
<1>4. HandTerms' /\ SigningStays
  <2>1. ASSUME NEW o, NEW onChain, Cancel(o, onChain)
        PROVE  HandTerms' /\ SigningStays
    <3>1. EntryKnown(o)
      BY <2>1 DEF Cancel, MyOpen, FitInv, BooksKnown, BookKnown
    <3>2. o.auth \in SignedAuths
      BY <3>1 DEF EntryKnown, SignedAuths
    <3>3. o.auth.eip \in 0..(next - 1)
      BY <3>2 DEF TermsInv, OwnAuths
    <3>4. 0..(next - 1) \subseteq 0..(next' - 1)
      BY <1>2, RangeGrows
    <3>5. session'.pc = "revoke" /\ session'.auth = o.auth /\ "auth" \in DOMAIN session'
      BY <2>1 DEF Cancel
    <3>6. QED
      BY <3>3, <3>4, <3>5 DEF HandTerms, Placing, SigningStays, Signing
  <2>2. ASSUME NEW hash, SettleNow(hash)
        PROVE  HandTerms' /\ SigningStays
    <3>1. PICK call \in SettleCalls(known, hash) : session' = [pc |-> "fit", call |-> call]
      BY <2>2 DEF SettleNow
    <3>2. known \in SUBSET Published
      BY DEF WorldInv, TabOK
    <3>3. CallKnown(call)'
      BY <1>3, <3>1, <3>2, KnownCalls, CallStays
    <3>4. session'.pc = "fit" /\ session'.call = call
      BY <3>1
    <3>5. CallKnown(session.call)'
      BY <3>3, <3>4
    <3>6. QED
      BY <3>4, <3>5 DEF HandTerms, Placing, SigningStays, Signing
  <2>3. CASE Unwrap
    <3>1. session' = session
      BY <2>3 DEF Unwrap
    <3>2. SigningStays
      BY <3>1 DEF SigningStays, Signing
    <3>3. QED
      BY <1>2, <1>3, <3>1, <3>2, HandTermsStay DEF TermsInv
  <2>4. CASE Finish \/ Decline
    <3>1. session'.pc \in {"idle", "await"}
      BY <2>4 DEF Finish, Decline, Quiet
    <3>2. QED
      BY <3>1, HandTermsAway DEF SigningStays, Signing
  <2>5. QED
    BY <2>1, <2>2, <2>3, <2>4
<1>5. QED
  BY <1>1, <1>2, <1>4, QuietTerms

LEMMA WalletTerms ==
  ASSUME AppInv, WorldInv, WorldInv', TermsInv, Wrap \/ Approve \/ CheckFits
  PROVE  TermsInv'
<1>1. UNCHANGED <<stored, trades, revokedAuth, next>>
  BY DEF Wrap, Approve, CheckFits, chainVars, nodeVars
<1>2. Published' = Published /\ next <= next'
  BY <1>1 DEF Published, AppInv
<1>3. HandTerms' /\ SigningStays
  <2>1. CASE Wrap \/ Approve
    <3>1. PICK pc \in {"approve", "sign", "reset"} : Goto(pc)
      BY <2>1 DEF Wrap, Approve
    <3>2. session.pc \in {"wrap", "reset", "approve"}
      BY <2>1 DEF Wrap, Approve
    <3>3. "price" \in DOMAIN session
      BY <3>2 DEF WorldInv, HandOK, PlacedOK, PlacedFields
    <3>4. session'.pc = pc /\ session'.price = session.price
      BY <3>1, <3>3, WentTo DEF AppInv
    <3>5. QED
      BY <3>2, <3>4 DEF TermsInv, HandTerms, Placing, SigningStays, Signing
  <2>2. CASE CheckFits
    <3>1. PICK pc \in {"finish", "send"} : Goto(pc)
      BY <2>2 DEF CheckFits
    <3>2. session.pc = "fit" /\ "call" \in DOMAIN session
      BY <2>2 DEF CheckFits, WorldInv, HandOK
    <3>3. session'.pc = pc /\ session'.call = session.call
      BY <3>1, <3>2, WentTo DEF AppInv
    <3>4. PICK call : call = session.call
      OBVIOUS
    <3>5. CallKnown(call)'
      BY <1>2, <3>2, <3>4, CallStays DEF TermsInv, HandTerms
    <3>6. CallKnown(session.call)'
      BY <3>3, <3>4, <3>5
    <3>7. QED
      BY <3>3, <3>6 DEF HandTerms, Placing, SigningStays, Signing
  <2>3. QED
    BY <2>1, <2>2
<1>4. QED
  BY <1>1, <1>2, <1>3, QuietTerms

LEMMA RevokeTerms ==
  ASSUME AppInv, WorldInv, TermsInv, RevokeOnChain
  PROVE  TermsInv'
<1>1. /\ UNCHANGED <<stored, trades, next>> /\ session.pc = "onchain"
      /\ revokedAuth' = revokedAuth \cup {session.auth.eip} /\ Goto("finish")
  BY DEF RevokeOnChain, nodeVars
<1>2. session'.pc = "finish"
  BY <1>1, WentTo DEF AppInv
<1>3. HandTerms' /\ SigningStays
  BY <1>2, HandTermsAway DEF SigningStays, Signing
<1>4. Published \subseteq Published' /\ OrdersFollow /\ AuthsFollow
  BY <1>1, <1>3, SameObjectsTerms
<1>5. next \in Nat /\ next' \in Nat /\ next <= next'
  BY <1>1 DEF AppInv
<1>6. OwnAuths(SignedOrders', SignedAuths', next')
  BY <1>4, <1>5, OwnFollows DEF TermsInv, OrdersFollow, AuthsFollow
<1>7. \A t \in trades' : TradeKnown(t)' /\ FeeShared(t, SignedAuths')
  BY <1>1, <1>4, TradeStays, SharedByCopies DEF TermsInv, AuthsFollow
<1>8. revokedAuth' \subseteq 0..(next' - 1)
  BY <1>1 DEF TermsInv, HandTerms
<1>9. QED
  BY <1>3, <1>6, <1>7, <1>8 DEF TermsInv

LEMMA SignedWhole ==
  ASSUME NEW trader, NEW hash, NEW now, NEW x, x.side \in {"buy", "sell"},
         NEW a, a = SignedBy(trader, hash, x, now).auth,
         NEW o, o = SignedBy(trader, hash, x, now).order
  PROVE  /\ a.type = "authorization" /\ a.hash = hash /\ a.eip = hash
         /\ a.signer = trader /\ a.grantor = trader /\ a.side = x.side
         /\ a.validBefore = now + (IF x.market THEN MarketTtl ELSE LimitTtl)
         /\ x.side = "sell" => a.maxBase = x.base /\ a.minPrice = x.price /\ a.maxPrice = MaxPrice
         /\ x.side = "buy" => /\ a.maxQuote = QuoteFor(x.base, x.price) /\ a.maxFee = x.maxFee
                              /\ a.minPrice = 0 /\ a.maxPrice = x.price
         /\ o.type = "order" /\ o.hash = hash + 1 /\ o.eip = hash + 1
         /\ o.signer = trader /\ o.trader = trader /\ o.side = x.side
         /\ o.price = x.price /\ o.base = x.base /\ o.authHash = hash /\ o.sessionAuth = hash
         /\ o.validBefore = a.validBefore /\ (o.native => o.side = "buy")
         /\ o.counterSetHash = o.counterSet
         /\ IF LegsOf(x.m) # NoLegs /\ x.filled > 0
            THEN /\ o.counterSet = LegsOf(x.m) /\ o.exclusiveBase = x.filled
                 /\ o.exclusiveUntil = IF x.market THEN a.validBefore ELSE now + ExclusiveWindow
            ELSE o.counterSet = NoLegs /\ o.exclusiveBase = 0
<1>1. PICK until : until = now + (IF x.market THEN MarketTtl ELSE LimitTtl)
  OBVIOUS
<1>2. PICK auth : auth = BuildAuth(hash, trader, x.side, x.base, x.price, x.maxFee, until, now)
  OBVIOUS
<1>3. PICK native : native = (ReceiveNative /\ WrapsNative)
  OBVIOUS
<1>4. PICK end : end = IF x.market THEN until ELSE now + ExclusiveWindow
  OBVIOUS
<1>5. PICK legs : legs = LegsOf(x.m)
  OBVIOUS
<1>6. PICK order : order = BuildOrder(hash + 1, auth, x.price, x.base, native, legs, x.filled, end, now)
  OBVIOUS
<1>7. SignedBy(trader, hash, x, now) = [auth |-> auth, order |-> order]
  BY <1>1, <1>2, <1>3, <1>4, <1>5, <1>6, Zenon DEF SignedBy
<1>8. a = auth /\ o = order
  BY <1>7
<1>9. /\ auth.type = "authorization" /\ auth.hash = hash /\ auth.eip = hash
      /\ auth.signer = trader /\ auth.grantor = trader /\ auth.side = x.side
      /\ auth.validBefore = until
      /\ x.side = "sell" => auth.maxBase = x.base /\ auth.minPrice = x.price /\ auth.maxPrice = MaxPrice
      /\ x.side = "buy" => /\ auth.maxQuote = QuoteFor(x.base, x.price) /\ auth.maxFee = x.maxFee
                           /\ auth.minPrice = 0 /\ auth.maxPrice = x.price
  BY <1>2 DEF BuildAuth
<1>10. /\ order.type = "order" /\ order.hash = hash + 1 /\ order.eip = hash + 1
       /\ order.signer = auth.grantor /\ order.trader = auth.grantor /\ order.side = auth.side
       /\ order.price = x.price /\ order.base = x.base
       /\ order.authHash = auth.hash /\ order.sessionAuth = auth.eip
       /\ order.validBefore = auth.validBefore /\ (order.native => order.side = "buy")
       /\ order.counterSetHash = order.counterSet
       /\ IF legs # NoLegs /\ x.filled > 0
          THEN order.counterSet = legs /\ order.exclusiveBase = x.filled /\ order.exclusiveUntil = end
          ELSE order.counterSet = NoLegs /\ order.exclusiveBase = 0
  BY <1>6 DEF BuildOrder
<1>11. QED
  BY <1>1, <1>4, <1>5, <1>8, <1>9, <1>10

\* The legs of an order name orders there are.
LEMMA LegsNamed ==
  ASSUME AppInv, NEW m, \A i \in DOMAIN m.legs : EntryKnown(m.legs[i].order)
  PROVE  DOMAIN LegsOf(m) \subseteq 0..(next - 1)
<1>1. ASSUME NEW e \in DOMAIN LegsOf(m)
      PROVE  e \in 0..(next - 1)
  <2>1. PICK i \in DOMAIN m.legs : m.legs[i].order.eip = e
    BY DEF LegsOf
  <2>2. PICK o \in Of(Published, "order") : o.eip = e
    BY <2>1 DEF EntryKnown
  <2>3. o.eip \in Nat /\ o.eip < next
    BY <2>2 DEF AppInv, OrdersAuthentic, SignedOrders
  <2>4. QED
    BY <2>2, <2>3 DEF AppInv
<1>2. QED
  BY <1>1

\* What is signed now has terms of its own.
LEMMA NewTerms ==
  ASSUME AppInv, TermsInv, NEW trader, NEW now, NEW x, x.side \in {"buy", "sell"},
         x.price \in Nat, x.base \in Nat, x.price <= MaxPrice,
         \A i \in DOMAIN x.m.legs : EntryKnown(x.m.legs[i].order),
         NEW a, a = SignedBy(trader, next, x, now).auth,
         NEW o, o = SignedBy(trader, next, x, now).order,
         NEW m \in Nat, next + 2 <= m
  PROVE  OwnAuths(SignedOrders \cup {o}, SignedAuths \cup {a}, m)
<1>1. /\ a.eip = next /\ o.eip = next + 1 /\ o.sessionAuth = next
      /\ o.side = x.side /\ o.price = x.price /\ o.base = x.base
      /\ x.side = "sell" => a.maxBase = x.base
      /\ x.side = "buy" => a.maxQuote = QuoteFor(x.base, x.price)
      /\ o.counterSet \in {LegsOf(x.m), NoLegs}
  BY SignedWhole
<1>2. QuoteFor(x.base, x.price) \in Nat
  BY QuoteNat
<1>3. Allows(a, o)
  BY <1>1, <1>2 DEF Allows
<1>4. DOMAIN o.counterSet \subseteq 0..(next - 1)
  <2>1. DOMAIN NoLegs = {}
    BY DEF NoLegs
  <2>2. QED
    BY <1>1, <2>1, LegsNamed
<1>5. OwnAuths(SignedOrders, SignedAuths, next) /\ next \in Nat
  BY DEF TermsInv, AppInv
<1>6. QED
  BY <1>1, <1>3, <1>4, <1>5, OwnGrows

\* A trade's fee is of an authorization signed before.
LEMMA FeesStayShared ==
  ASSUME AppInv, TermsInv, NEW t \in trades, NEW a, a.eip = next
  PROVE  FeeShared(t, SignedAuths \cup {a})
<1>1. TradeKnown(t) /\ FeeShared(t, SignedAuths)
  BY DEF TermsInv
<1>2. PICK b, s \in Of(Published, "order") : TradeOf(t, b, s)
  BY <1>1 DEF TradeKnown
<1>3. t.buyAuth \in 0..(next - 1)
  BY <1>2 DEF TradeOf, TermsInv, OwnAuths, SignedOrders
<1>4. a.eip # t.buyAuth
  BY <1>3 DEF AppInv
<1>5. QED
  BY <1>1, <1>4 DEF FeeShared

LEMMA SignTerms ==
  ASSUME AppInv, WorldInv, FitInv, TermsInv, Sign
  PROVE  TermsInv'
<1>1. /\ UNCHANGED <<stored, trades, revokedAuth>> /\ next' = next + 2 /\ session.pc = "sign"
  BY DEF Sign, chainVars, nodeVars
<1>2. PICK x : x = session
  OBVIOUS
<1>3. PICK a, o : /\ a = SignedBy(Me, next, x, clock).auth
                  /\ o = SignedBy(Me, next, x, clock).order
  OBVIOUS
<1>4. session'.pc = "auth" /\ session'.auth = a /\ session'.order = o
  BY <1>2, <1>3 DEF Sign
<1>5. /\ PlacedFit(x) /\ {x.base, x.price} \subseteq Nat /\ x.price <= MaxPrice
  BY <1>1, <1>2 DEF FitInv, HandFit, WorldInv, HandOK, PlacedOK, TermsInv, HandTerms, Placing
<1>6. x.side \in {"buy", "sell"} /\ \A i \in DOMAIN x.m.legs : EntryKnown(x.m.legs[i].order)
  BY <1>5 DEF PlacedFit, LegsFit
<1>7. next \in Nat /\ next' \in Nat /\ next + 2 <= next' /\ next <= next'
  BY <1>1 DEF AppInv
<1>8. Published' = Published
  BY <1>1 DEF Published
<1>9. SignedOrders' \subseteq SignedOrders \cup {o} /\ SignedAuths' \subseteq SignedAuths \cup {a}
  BY <1>4, <1>8 DEF SignedOrders, SignedAuths, Signing
<1>10. OwnAuths(SignedOrders \cup {o}, SignedAuths \cup {a}, next')
  BY <1>3, <1>5, <1>6, <1>7, NewTerms
<1>11. OwnAuths(SignedOrders', SignedAuths', next')
  BY <1>9, <1>10, Zenon DEF OwnAuths
<1>12. a.eip = next
  BY <1>3, <1>6, SignedWhole
<1>13. \A t \in trades' : TradeKnown(t)' /\ FeeShared(t, SignedAuths')
  <2>1. ASSUME NEW t \in trades
        PROVE  TradeKnown(t)' /\ FeeShared(t, SignedAuths')
    <3>1. FeeShared(t, SignedAuths \cup {a}) /\ TradeKnown(t)
      BY <1>12, FeesStayShared DEF TermsInv
    <3>2. QED
      BY <1>8, <1>9, <3>1, TradeStays DEF FeeShared
  <2>2. QED
    BY <1>1, <2>1
<1>14. HandTerms'
  BY <1>4, HandTermsAway
<1>15. revokedAuth' \subseteq 0..(next' - 1)
  BY <1>1, <1>7, RangeGrows DEF TermsInv
<1>16. QED
  BY <1>11, <1>13, <1>14, <1>15 DEF TermsInv

-----------------------------------------------------------------------------
\* What is published was signed before, or has no terms.
LEMMA PublicationTerms ==
  ASSUME AppInv, WorldInv, WorldInv', TermsInv, NEW obj, Put(obj) \/ PutFails(obj),
         UNCHANGED <<trades, revokedAuth>>, next <= next', SigningStays, HandTerms',
         obj.type = "order" => obj \in SignedOrders,
         obj.type = "authorization" => obj \in SignedAuths
  PROVE  TermsInv'
<1>1. PICK objs : objs = {obj}
  OBVIOUS
<1>2. Adds(objs)
  BY <1>1, PutAdds
<1>3. \A o \in Of(objs, "order") : \E p \in SignedOrders : SameTerms(o, p)
  <2>1. \A o : SameTerms(o, o)
    BY DEF SameTerms
  <2>2. QED
    BY <1>1, <2>1 DEF Of
<1>4. \A a \in Of(objs, "authorization") : \E b \in SignedAuths : SameLimits(a, b)
  BY <1>1 DEF Of, SameLimits
<1>5. Published \subseteq Published' /\ OrdersFollow /\ AuthsFollow
  BY <1>2, <1>3, <1>4, AddsTerms
<1>6. next \in Nat /\ next' \in Nat
  BY DEF WorldInv, ClockOK
<1>7. QED
  BY <1>5, <1>6, TermsStep

LEMMA PublishTerms ==
  ASSUME AppInv, WorldInv, WorldInv', TermsInv,
         PublishAuth \/ PublishOrder \/ PublishFill \/ PublishRevocation \/ PublishReceipt
  PROVE  TermsInv'
<1>0. SessionInv /\ next <= next
  BY DEF AppInv
<1>1. CASE PublishAuth \/ PublishOrder
  <2>1. PICK obj, pc :
          /\ Put(obj) /\ Goto(pc) /\ UNCHANGED <<trades, revokedAuth, next>>
          /\ \/ session.pc = "auth" /\ obj = session.auth /\ pc = "order"
             \/ session.pc = "order" /\ obj = session.order /\ pc \in {"finish", "fill"}
    BY <1>1 DEF PublishAuth, PublishOrder, chainVars
  <2>2. /\ Signing /\ DOMAIN session = {"pc", "auth", "order", "legs"}
        /\ session.auth.type = "authorization" /\ session.order.type = "order"
    BY <1>0, <2>1 DEF SessionInv, Signing
  <2>3. session'.pc = pc /\ session'["order"] = session["order"] /\ session'["auth"] = session["auth"]
    BY <1>0, <2>1, <2>2, WentTo
  <2>4. SigningStays
    BY <2>2, <2>3 DEF SigningStays
  <2>5. HandTerms'
    BY <2>1, <2>3, HandTermsAway
  <2>6. obj.type = "order" => obj \in SignedOrders
    BY <2>1, <2>2 DEF SignedOrders
  <2>7. obj.type = "authorization" => obj \in SignedAuths
    BY <2>1, <2>2 DEF SignedAuths
  <2>8. QED
    BY <1>0, <2>1, <2>4, <2>5, <2>6, <2>7, PublicationTerms
<1>2. CASE PublishFill
  <2>1. PICK f : f.type = "fill" /\ Put(f)
    BY <1>2 DEF PublishFill, BuildFill
  <2>2. /\ session.pc = "fill" /\ next' = next + 1 /\ UNCHANGED <<trades, revokedAuth>>
        /\ session' = [session EXCEPT !.legs = Tail(@),
                         !.pc = IF Len(session.legs) = 1 THEN "finish" ELSE "fill"]
    BY <1>2 DEF PublishFill, chainVars
  <2>3. Signing /\ DOMAIN session = {"pc", "auth", "order", "legs"}
    BY <1>0, <2>2 DEF SessionInv, Signing
  <2>4. /\ session'.pc \in {"finish", "fill"}
        /\ session'.auth = session.auth /\ session'.order = session.order
    BY <2>2, <2>3
  <2>5. SigningStays /\ HandTerms'
    BY <2>3, <2>4, HandTermsAway DEF SigningStays
  <2>6. next <= next'
    BY <2>2 DEF AppInv
  <2>7. QED
    BY <2>1, <2>2, <2>5, <2>6, PublicationTerms
<1>3. CASE PublishRevocation
  <2>1. PICK pc \in {"onchain", "finish"} : Goto(pc)
    BY <1>3 DEF PublishRevocation
  <2>2. /\ session.pc = "revoke" /\ Put(session.revocation) /\ UNCHANGED <<trades, revokedAuth, next>>
    BY <1>3 DEF PublishRevocation, chainVars
  <2>3. session.revocation.type = "revocation"
    BY <1>0, <2>2 DEF SessionInv
  <2>4. "auth" \in DOMAIN session /\ session.auth.eip \in 0..(next - 1)
    BY <2>2 DEF TermsInv, HandTerms
  <2>5. /\ session'.pc = pc /\ session'["auth"] = session["auth"] /\ "auth" \in DOMAIN session'
    BY <1>0, <2>1, <2>4, WentTo
  <2>6. HandTerms' /\ SigningStays
    BY <2>2, <2>4, <2>5 DEF HandTerms, Placing, SigningStays, Signing
  <2>7. QED
    BY <1>0, <2>2, <2>3, <2>6, PublicationTerms
<1>4. CASE PublishReceipt
  <2>1. /\ session.pc = "receipt" /\ (Put(session.receipt) \/ PutFails(session.receipt))
        /\ session'.pc = "finish" /\ UNCHANGED <<trades, revokedAuth, next>>
    BY <1>4 DEF PublishReceipt, chainVars
  <2>2. session.receipt.type = "receipt"
    BY <1>0, <2>1 DEF SessionInv
  <2>3. SigningStays /\ HandTerms'
    BY <2>1, HandTermsAway DEF SigningStays, Signing
  <2>4. QED
    BY <1>0, <2>1, <2>2, <2>3, PublicationTerms
<1>5. QED
  BY <1>1, <1>2, <1>3, <1>4

LEMMA FailTerms ==
  ASSUME AppInv, WorldInv, WorldInv', TermsInv, PublishFails \/ Reload
  PROVE  TermsInv'
<1>0. SessionInv
  BY DEF AppInv
<1>1. session' = Quiet /\ UNCHANGED <<trades, revokedAuth>>
  BY DEF PublishFails, Reload, chainVars
<1>2. SigningStays /\ HandTerms'
  BY <1>1, HandTermsAway DEF Quiet, SigningStays, Signing
<1>3. CASE PublishFails
  <2>1. next <= next'
    BY <1>3 DEF PublishFails, AppInv
  <2>2. PICK obj :
          /\ PutFails(obj)
          /\ \/ session.pc = "auth" /\ obj = session.auth
             \/ session.pc = "order" /\ obj = session.order
             \/ session.pc = "revoke" /\ obj = session.revocation
             \/ obj.type = "fill"
    <3>1. PICK pc : pc = session.pc /\ pc \in {"auth", "order", "fill", "revoke"}
      BY <1>3 DEF PublishFails
    <3>2. PICK f : f = BuildFill(next, Head(session.legs), session.order,
                                 LegFee(session.order.side, Head(session.legs)), clock)
      OBVIOUS
    <3>3. f.type = "fill"
      BY <3>2 DEF BuildFill
    <3>4. PutFails(CASE pc = "auth" -> session.auth [] pc = "order" -> session.order
                     [] pc = "revoke" -> session.revocation [] pc = "fill" -> f)
      BY <1>3, <3>1, <3>2, Zenon DEF PublishFails
    <3>5. QED
      BY <3>1, <3>3, <3>4
  <2>3. obj.type = "order" => obj \in SignedOrders
    BY <1>0, <2>2 DEF SessionInv, Signing, SignedOrders
  <2>4. obj.type = "authorization" => obj \in SignedAuths
    BY <1>0, <2>2 DEF SessionInv, Signing, SignedAuths
  <2>5. QED
    BY <1>1, <1>2, <2>1, <2>2, <2>3, <2>4, PublicationTerms
<1>4. CASE Reload
  <2>1. stored' = stored /\ next <= next'
    BY <1>4 DEF Reload, AppInv
  <2>2. QED
    BY <1>1, <1>2, <2>1, QuietTerms
<1>5. QED
  BY <1>3, <1>4

-----------------------------------------------------------------------------
LEMMA ShareOfFee ==
  ASSUME NEW f \in Nat, NEW m \in Nat, NEW q \in Nat, NEW d \in Nat, f > 0 => d > 0 /\ f <= (m * q) \div d
  PROVE  f * d <= m * q
<1>1. PICK n \in Nat : n = m * q
  OBVIOUS
<1>2. CASE f = 0
  <2>1. 0 * d = 0
    OBVIOUS
  <2>2. QED
    BY <1>1, <1>2, <2>1
<1>3. CASE f > 0
  <2>1. PICK k \in Nat : k = n \div d
    BY <1>3
  <2>2. d * k <= n
    BY <1>3, <2>1, QuotientBounds
  <2>3. f * d <= k * d
    BY <1>1, <1>3, <2>1, TimesKeepsOrder
  <2>4. k * d = d * k
    OBVIOUS
  <2>5. f * d \in Nat /\ d * k \in Nat
    OBVIOUS
  <2>6. QED
    BY <1>1, <2>2, <2>3, <2>4, <2>5
<1>4. QED
  BY <1>2, <1>3

\* What the contract settles is of known orders, at a fair fee.
LEMMA TradeSettled ==
  ASSUME WorldInv, TermsInv, NEW call, CallKnown(call), Accepts(call), SettlesOnChain(call)
  PROVE  \E t : trades' = trades \cup {t} /\ TradeKnown(t) /\ FeeShared(t, SignedAuths)
<1>1. TradesOK /\ CallHolds(call) /\ CallOK(call)
  BY DEF WorldInv, CallKnown, CallHolds
<1>2. PICK base \in Nat : base = FittingOf(call)
  BY <1>1, FittingIsWithin
<1>3. PICK fee \in Nat : fee = FeeOf(call, base)
  BY <1>1, <1>2, FeeOfIsNat
<1>4. PICK price \in Nat : price = call.fill.price
  BY <1>1 DEF CallOK
<1>5. PICK quote \in Nat : quote = QuoteFor(base, price)
  BY QuoteNat
<1>6. PICK b, s, ba : b = BuyOf(call) /\ s = SellOf(call) /\ ba = BuyAuth(call)
  OBVIOUS
<1>7. PICK t : /\ trades' = trades \cup {t} /\ t.key = call.key /\ t.base = base
               /\ t.quote = quote /\ t.fee = fee
               /\ t.buyAuth = b.sessionAuth /\ t.sellAuth = s.sessionAuth
  BY <1>2, <1>3, <1>4, <1>5, <1>6, TradeMade
<1>8. /\ Stands(call.maker, call.makerAuth, price) /\ Stands(call.taker, call.takerAuth, price)
      /\ {call.maker.side, call.taker.side} = {"buy", "sell"}
      /\ s.price <= price /\ price <= b.price
      /\ SpendingFits(ba, quote, fee)
  BY <1>2, <1>3, <1>4, <1>5, <1>6, Zenon DEF Accepts
<1>9. /\ {b, s} = {call.maker, call.taker} /\ b.side = "buy" /\ s.side = "sell"
      /\ b.sessionAuth = ba.eip /\ ba \in {call.makerAuth, call.takerAuth}
  BY <1>6, <1>8 DEF BuyOf, SellOf, BuyAuth, Stands
<1>10. TradeKnown(t)
  <2>1. b \in Of(Published, "order") /\ s \in Of(Published, "order")
    BY <1>1, <1>9 DEF CallHolds
  <2>2. {b.eip, s.eip} = {t.key.maker, t.key.taker}
    BY <1>1, <1>7, <1>9 DEF CallHolds
  <2>3. t.key.price = price
    BY <1>4, <1>7 DEF CallKnown
  <2>4. TradeOf(t, b, s)
    BY <1>5, <1>7, <1>8, <1>9, <2>2, <2>3 DEF TradeOf
  <2>5. QED
    BY <1>7, <2>1, <2>3, <2>4 DEF TradeKnown
<1>11. ASSUME NEW a \in SignedAuths, a.eip = t.buyAuth
       PROVE  t.fee * a.maxQuote <= a.maxFee * t.quote
  <2>1. ba \in Of(Published, "authorization")
    BY <1>9 DEF CallKnown
  <2>2. ba \in SignedAuths
    BY <2>1 DEF SignedAuths
  <2>3. a.maxQuote = ba.maxQuote /\ a.maxFee = ba.maxFee
    BY <1>7, <1>9, <1>11, <2>2 DEF TermsInv, OwnAuths
  <2>4. ba.maxQuote \in Nat /\ ba.maxFee \in Nat
    BY <2>1 DEF WorldInv, ObjectsOK, ObjOK, WellFormed, Of
  <2>5. fee > 0 => ba.maxQuote > 0 /\ fee <= (ba.maxFee * quote) \div ba.maxQuote
    BY <1>8 DEF SpendingFits
  <2>6. fee * ba.maxQuote <= ba.maxFee * quote
    BY <2>4, <2>5, ShareOfFee
  <2>7. QED
    BY <1>7, <2>3, <2>6
<1>12. QED
  BY <1>7, <1>10, <1>11 DEF FeeShared

\* A settlement, and the receipt that may come with it.
LEMMA SettlementTerms ==
  ASSUME AppInv, WorldInv, TermsInv, NEW call, CallKnown(call), Accepts(call), SettlesOnChain(call),
         Published \subseteq Published', OrdersFollow, AuthsFollow, next' \in Nat, next <= next',
         HandTerms'
  PROVE  TermsInv'
<1>1. next \in Nat
  BY DEF AppInv
<1>2. OwnAuths(SignedOrders', SignedAuths', next')
  BY <1>1, OwnFollows DEF TermsInv, OrdersFollow, AuthsFollow
<1>3. PICK t : trades' = trades \cup {t} /\ TradeKnown(t) /\ FeeShared(t, SignedAuths)
  BY TradeSettled
<1>4. \A u \in trades' : TradeKnown(u)' /\ FeeShared(u, SignedAuths')
  <2>1. ASSUME NEW u \in trades'
        PROVE  TradeKnown(u)' /\ FeeShared(u, SignedAuths')
    <3>1. TradeKnown(u) /\ FeeShared(u, SignedAuths)
      BY <1>3, <2>1 DEF TermsInv
    <3>2. QED
      BY <3>1, TradeStays, SharedByCopies DEF AuthsFollow
  <2>2. QED
    BY <2>1
<1>5. revokedAuth' \subseteq 0..(next' - 1)
  <2>1. revokedAuth' = revokedAuth
    BY DEF SettlesOnChain
  <2>2. QED
    BY <1>1, <2>1, RangeGrows DEF TermsInv
<1>6. QED
  BY <1>2, <1>4, <1>5 DEF TermsInv

LEMMA SendTerms ==
  ASSUME AppInv, WorldInv, WorldInv', TermsInv, SendSettlement
  PROVE  TermsInv'
<1>1. stored' = stored /\ session.pc = "send"
  BY DEF SendSettlement, nodeVars
<1>2. PICK call : call = session.call
  OBVIOUS
<1>3. CASE Accepts(call)
  <2>1. SettlesOnChain(call) /\ session'.pc = "receipt" /\ next' = next + 1
    BY <1>2, <1>3 DEF SendSettlement
  <2>2. HandTerms' /\ SigningStays
    BY <2>1, HandTermsAway DEF SigningStays, Signing
  <2>3. Published \subseteq Published' /\ OrdersFollow /\ AuthsFollow
    BY <1>1, <2>2, SameObjectsTerms
  <2>4. next' \in Nat /\ next <= next'
    BY <2>1 DEF AppInv
  <2>5. CallKnown(call)
    BY <1>1, <1>2 DEF TermsInv, HandTerms
  <2>6. QED
    BY <1>3, <2>1, <2>2, <2>3, <2>4, <2>5, SettlementTerms
<1>4. CASE ~Accepts(call)
  <2>1. UNCHANGED <<trades, revokedAuth, next>> /\ session'.pc \in {"finish", "idle"}
    BY <1>2, <1>4 DEF SendSettlement, chainVars, Quiet
  <2>2. HandTerms' /\ SigningStays
    BY <2>1, HandTermsAway DEF SigningStays, Signing
  <2>3. next <= next'
    BY <2>1 DEF AppInv
  <2>4. QED
    BY <1>1, <2>1, <2>2, <2>3, QuietTerms
<1>5. QED
  BY <1>3, <1>4

LEMMA ExecuteTerms ==
  ASSUME AppInv, WorldInv, TermsInv, NEW n \in Nodes, NEW f, NEW posted \in BOOLEAN,
         Execute(n, f, posted)
  PROVE  TermsInv'
<1>1. session' = session /\ SigningStays
  BY DEF Execute, SigningStays, Signing
<1>2. PICK call \in SettleCalls(stored[n], f.hash) :
        /\ Accepts(call) /\ SettlesOnChain(call)
        /\ IF posted
           THEN /\ AtEveryNode({BuildReceipt(next, call, FittingOf(call), clock)})
                /\ next' = next + 1
           ELSE UNCHANGED <<stored, next>>
  BY DEF Execute
<1>3. stored[n] \in SUBSET Published
  BY DEF Published
<1>4. CallKnown(call)
  BY <1>2, <1>3, KnownCalls
<1>5. next \in Nat /\ next' \in Nat /\ next <= next'
  BY <1>2 DEF AppInv
<1>6. PICK objs : Adds(objs) /\ Of(objs, "order") = {} /\ Of(objs, "authorization") = {}
  <2>1. PICK r : r = BuildReceipt(next, call, FittingOf(call), clock)
    OBVIOUS
  <2>2. r.type = "receipt"
    BY <2>1 DEF BuildReceipt
  <2>3. PICK one, none : one = {r} /\ none = {}
    OBVIOUS
  <2>4. CASE posted
    <3>1. Adds(one)
      BY <1>2, <2>1, <2>3, <2>4, AtEveryNodeAdds
    <3>2. QED
      BY <2>2, <2>3, <3>1 DEF Of
  <2>5. CASE ~posted
    <3>1. Adds(none)
      BY <1>2, <2>3, <2>5, SameAdds
    <3>2. QED
      BY <2>3, <3>1 DEF Of
  <2>6. QED
    BY <2>4, <2>5
<1>7. Published \subseteq Published' /\ OrdersFollow /\ AuthsFollow
  BY <1>1, <1>6, AddsTerms
<1>8. HandTerms'
  BY <1>1, <1>5, <1>7, HandTermsStay DEF TermsInv
<1>9. QED
  BY <1>2, <1>4, <1>5, <1>7, <1>8, SettlementTerms

-----------------------------------------------------------------------------
\* What the other trader does, by its parts.
FullChain(n) == [read |-> TRUE, used |-> UsedKeys,
                 filled |-> ReadTotals(Eips(n), FilledOnChain),
                 bound |-> ReadTotals(Eips(n), BoundOnChain)]
RivalBook(n) == FundedWith(DeriveState(stored[n], FullChain(n), clock).orders, Capacity({}))
RivalMatch(n, form) == MatchOrder(RivalBook(n), form.side, form.amount, form.limit, Rival, clock)
RivalFee(form) == IF form.side = "buy" THEN MaxFeeForOrder(QuoteFor(form.amount, form.limit)) ELSE 0
RivalNeed(form) ==
  IF form.side = "buy" THEN QuoteFor(form.amount, form.limit) + RivalFee(form) ELSE form.amount
TermsOf(form, m) == [side |-> form.side, price |-> form.limit, base |-> form.amount,
                     m |-> m, filled |-> Filled(m, form.amount), market |-> FALSE,
                     maxFee |-> RivalFee(form)]
RivalFills(form, m, o) ==
  {BuildFill(next + 1 + i, m.legs[i], o, LegFee(form.side, m.legs[i]), clock) : i \in DOMAIN m.legs}

LEMMA RivalActs ==
  ASSUME NEW n, NEW form, RivalPlaces(n, form),
         NEW m, m = RivalMatch(n, form), NEW x, x = TermsOf(form, m),
         NEW a, a = SignedBy(Rival, next, x, clock).auth,
         NEW o, o = SignedBy(Rival, next, x, clock).order
  PROVE  /\ ~m.selfCross /\ RivalNeed(form) <= Capacity({})[<<Rival, PayToken(form.side)>>]
         /\ AtEveryNode({a, o} \cup RivalFills(form, m, o))
         /\ next' = next + 2 + MaxLegs
         /\ UNCHANGED <<clock, chainVars, up, preferred, tabVars, session>>
<1> DEFINE bk == FundedWith(DeriveState(stored[n], [read |-> TRUE, used |-> UsedKeys,
                   filled |-> ReadTotals(Eips(n), FilledOnChain),
                   bound |-> ReadTotals(Eips(n), BoundOnChain)], clock).orders, Capacity({}))
           mt == MatchOrder(bk, form.side, form.amount, form.limit, Rival, clock)
           cost == QuoteFor(form.amount, form.limit)
           cap == IF form.side = "buy" THEN MaxFeeForOrder(cost) ELSE 0
           need == IF form.side = "buy" THEN cost + cap ELSE form.amount
           terms == [side |-> form.side, price |-> form.limit, base |-> form.amount,
                     m |-> mt, filled |-> Filled(mt, form.amount), market |-> FALSE, maxFee |-> cap]
           signed == SignedBy(Rival, next, terms, clock)
           fs == {BuildFill(next + 1 + i, mt.legs[i], signed.order,
                            LegFee(form.side, mt.legs[i]), clock) : i \in DOMAIN mt.legs}
<1>1. /\ ~mt.selfCross /\ need <= Capacity({})[<<Rival, PayToken(form.side)>>]
      /\ AtEveryNode({signed.auth, signed.order} \cup fs)
      /\ next' = next + 2 + MaxLegs
      /\ UNCHANGED <<clock, chainVars, up, preferred, tabVars, session>>
  BY Zenon DEF RivalPlaces
<1>2. bk = RivalBook(n)
  BY Zenon DEF RivalBook, FullChain
<1> HIDE DEF bk
<1>3. mt = m
  BY <1>2, Zenon DEF RivalMatch
<1> HIDE DEF mt
<1>4. cap = RivalFee(form) /\ need = RivalNeed(form)
  BY DEF RivalFee, RivalNeed
<1> HIDE DEF cap, need
<1>5. terms = x
  BY <1>3, <1>4, Zenon DEF TermsOf
<1> HIDE DEF terms
<1>6. signed.auth = a /\ signed.order = o
  BY <1>5, Zenon
<1> HIDE DEF signed
<1>7. fs = RivalFills(form, m, o)
  BY <1>3, <1>6, Zenon DEF RivalFills
<1> HIDE DEF fs
<1>8. QED
  BY <1>1, <1>3, <1>4, <1>6, <1>7

\* The book the other trader matches against, and the match.
LEMMA RivalMatches ==
  ASSUME WorldInv, FitInv, NEW n \in Nodes, NEW form \in left.theirs, NEW m, m = RivalMatch(n, form)
  PROVE  /\ BookOK(RivalBook(n)) /\ BookKnown(RivalBook(n))
         /\ form.amount \in Nat /\ form.limit \in Nat \ {0} /\ form.limit <= MaxPrice
         /\ form.side \in {"buy", "sell"}
         /\ LegsOK(m.legs) /\ Len(m.legs) <= MaxLegs /\ m.legs \in Seq(Legs(RivalBook(n)))
         /\ \A i \in DOMAIN m.legs : m.legs[i].order \in RivalBook(n) /\ EntryKnown(m.legs[i].order)
         /\ ChainNumbers(FullChain(n)) /\ Readable(stored[n]) /\ stored[n] \in SUBSET Published
<1>1. form.amount \in Nat /\ form.limit \in Nat
  BY DEF WorldInv, LeftOK, FormsOK
<1>2. form.side \in {"buy", "sell"} /\ form.limit <= MaxPrice /\ form.limit > 0
  BY DEF FitInv, FormsSided
<1>3. PICK chain : chain = FullChain(n)
  OBVIOUS
<1>4. ChainNumbers(chain)
  <2>1. /\ chain.filled = [e \in Eips(n) |-> FilledOnChain(e)]
        /\ chain.bound = [e \in Eips(n) |-> BoundOnChain(e)]
    BY <1>3 DEF ReadTotals, FullChain
  <2>2. \A e : FilledOnChain(e) \in Nat /\ BoundOnChain(e) \in Nat
    BY ChainSumsAreNat DEF WorldInv
  <2>3. QED
    BY <2>1, <2>2 DEF ChainNumbers
<1>5. PICK objs : objs = stored[n]
  OBVIOUS
<1>6. Readable(objs) /\ objs \in SUBSET Published
  BY <1>5, ListingIsReadable DEF WorldInv, Published
<1>7. PICK orders : orders = DeriveState(objs, chain, clock).orders
  OBVIOUS
<1>8. PICK book : book = FundedWith(orders, Capacity({}))
  OBVIOUS
<1>9. BookOK(book) /\ BookKnown(book)
  <2>1. BookOK(orders) /\ BookKnown(orders)
    BY <1>4, <1>6, <1>7, BookIsTyped, EntriesKnown
  <2>2. QED
    BY <1>8, <2>1, FundingKeepsBook, FundedKnown
<1>10. book = RivalBook(n)
  BY <1>3, <1>5, <1>7, <1>8, Zenon DEF RivalBook
<1>11. m = MatchOrder(book, form.side, form.amount, form.limit, Rival, clock)
  BY <1>10, Zenon DEF RivalMatch
<1>12. LegsOK(m.legs) /\ Len(m.legs) <= MaxLegs
  BY <1>1, <1>9, <1>11, MatchNumbers
<1>13. m \in Matches(book, form.amount)
  BY <1>1, <1>9, <1>11, MatchTakesLegs DEF BookOK, EntryOK
<1>14. m.legs \in Seq(Legs(book))
  BY <1>13 DEF Matches
<1>15. \A i \in DOMAIN m.legs : m.legs[i] \in Legs(book)
  BY <1>14
<1>16. \A i \in DOMAIN m.legs : m.legs[i].order \in book /\ EntryKnown(m.legs[i].order)
  BY <1>9, <1>15 DEF Legs, BookKnown
<1>17. QED
  BY <1>1, <1>2, <1>3, <1>4, <1>5, <1>6, <1>9, <1>10, <1>12, <1>14, <1>16

LEMMA RivalTermsKept ==
  ASSUME AppInv, WorldInv, FitInv, TermsInv, NEW n \in Nodes, NEW form \in left.theirs,
         RivalPlaces(n, form)
  PROVE  TermsInv'
<1>1. PICK m : m = RivalMatch(n, form)
  OBVIOUS
<1>2. PICK x : x = TermsOf(form, m)
  OBVIOUS
<1>3. PICK a, o : /\ a = SignedBy(Rival, next, x, clock).auth
                  /\ o = SignedBy(Rival, next, x, clock).order
  OBVIOUS
<1>4. PICK fills : fills = RivalFills(form, m, o)
  OBVIOUS
<1>5. PICK objs : objs = {a, o} \cup fills
  OBVIOUS
<1>6. /\ Adds(objs) /\ next' = next + 2 + MaxLegs
      /\ UNCHANGED <<trades, revokedAuth, session>>
  <2>1. /\ AtEveryNode(objs) /\ next' = next + 2 + MaxLegs
        /\ UNCHANGED <<clock, chainVars, up, preferred, tabVars, session>>
    BY <1>1, <1>2, <1>3, <1>4, <1>5, RivalActs
  <2>2. QED
    BY <2>1, AtEveryNodeAdds DEF chainVars
<1>7. /\ x.side = form.side /\ x.price = form.limit /\ x.base = form.amount /\ x.m = m
  BY <1>2 DEF TermsOf
<1>8. /\ x.side \in {"buy", "sell"} /\ x.price \in Nat /\ x.base \in Nat /\ x.price <= MaxPrice
      /\ \A i \in DOMAIN x.m.legs : EntryKnown(x.m.legs[i].order)
  BY <1>1, <1>7, RivalMatches
<1>9. next \in Nat /\ next' \in Nat /\ next + 2 <= next' /\ next <= next'
  BY <1>6, MarketAssumption DEF AppInv
<1>10. OwnAuths(SignedOrders \cup {o}, SignedAuths \cup {a}, next')
  BY <1>3, <1>8, <1>9, NewTerms
<1>11. a.type = "authorization" /\ o.type = "order" /\ a.eip = next
  BY <1>3, <1>8, SignedWhole
<1>12. \A f \in fills : f.type = "fill"
  BY <1>4 DEF RivalFills, BuildFill
<1>13. SignedOrders' \subseteq SignedOrders \cup {o} /\ SignedAuths' \subseteq SignedAuths \cup {a}
  BY <1>5, <1>6, <1>11, <1>12 DEF SignedOrders, SignedAuths, Signing, Adds, Of
<1>14. OwnAuths(SignedOrders', SignedAuths', next')
  BY <1>10, <1>13, Zenon DEF OwnAuths
<1>15. Published \subseteq Published'
  BY <1>6 DEF Adds
<1>16. \A t \in trades' : TradeKnown(t)' /\ FeeShared(t, SignedAuths')
  <2>1. ASSUME NEW t \in trades
        PROVE  TradeKnown(t)' /\ FeeShared(t, SignedAuths')
    <3>1. FeeShared(t, SignedAuths \cup {a}) /\ TradeKnown(t)
      BY <1>11, FeesStayShared DEF TermsInv
    <3>2. QED
      BY <1>13, <1>15, <3>1, TradeStays DEF FeeShared
  <2>2. QED
    BY <1>6, <2>1
<1>17. HandTerms'
  BY <1>6, <1>9, <1>15, HandTermsStay DEF TermsInv
<1>18. revokedAuth' \subseteq 0..(next' - 1)
  BY <1>6, <1>9, RangeGrows DEF TermsInv
<1>19. QED
  BY <1>14, <1>16, <1>17, <1>18 DEF TermsInv

\* What strangers and nodes do.
LEMMA OthersTerms ==
  ASSUME AppInv, WorldInv, WorldInv', TermsInv, NEW objs, Adds(objs),
         UNCHANGED <<trades, revokedAuth, session>>, next <= next',
         \A o \in Of(objs, "order") : \E p \in SignedOrders : SameTerms(o, p),
         \A a \in Of(objs, "authorization") : \E b \in SignedAuths : SameLimits(a, b)
  PROVE  TermsInv'
<1>1. SigningStays
  BY DEF SigningStays, Signing
<1>2. Published \subseteq Published' /\ OrdersFollow /\ AuthsFollow
  BY <1>1, AddsTerms
<1>3. next \in Nat /\ next' \in Nat
  BY DEF WorldInv, ClockOK
<1>4. HandTerms'
  BY <1>2, <1>3, HandTermsStay DEF TermsInv
<1>5. QED
  BY <1>2, <1>3, <1>4, TermsStep

LEMMA OutsideTerms ==
  ASSUME AppInv, WorldInv, WorldInv', FitInv, TermsInv, Outside
  PROVE  TermsInv'
<1>0. next <= next /\ next <= next + 1
  BY DEF AppInv
<1>1. ASSUME NEW n \in Nodes, NEW o, NEW target, OtherRevokes(n, o, target)
      PROVE  TermsInv'
  <2>1. PICK r : r = [BuildRevocation(next, AuthOf(o, Reading(stored[n])), clock) EXCEPT !.target = target]
    OBVIOUS
  <2>2. PICK objs : objs = {r}
    OBVIOUS
  <2>3. UNCHANGED <<trades, revokedAuth, session>> /\ next' = next + 1 /\ AtEveryNode(objs)
    BY <1>1, <2>1, <2>2 DEF OtherRevokes, chainVars
  <2>4. r.type = "revocation"
    BY <2>1 DEF BuildRevocation
  <2>5. Of(objs, "order") = {} /\ Of(objs, "authorization") = {} /\ Adds(objs)
    BY <2>2, <2>3, <2>4, AtEveryNodeAdds DEF Of
  <2>6. QED
    BY <1>0, <2>3, <2>5, OthersTerms
<1>2. ASSUME NEW n \in Nodes, NEW o \in Signed(n), NEW date, Republish(n, o, date)
      PROVE  TermsInv'
  <2>1. PICK p \in CopiesOf(n, o) : AtEveryNode({[p EXCEPT !.hash = next, !.createdAt = date]})
    BY <1>2 DEF Republish
  <2>2. PICK c : Redated(c, p, next, date) /\ AtEveryNode({c})
    BY <2>1 DEF Redated
  <2>3. PICK objs : objs = {c}
    OBVIOUS
  <2>4. UNCHANGED <<trades, revokedAuth, session>> /\ next' = next + 1 /\ AtEveryNode(objs)
    BY <1>2, <2>2, <2>3 DEF Republish, chainVars
  <2>5. Adds(objs)
    BY <2>4, AtEveryNodeAdds
  <2>6. o \in Published /\ (o.type = "order" \/ o.type = "authorization")
    BY DEF Signed, Of, Published
  <2>7. CASE o.type = "order"
    <3>1. o \in SignedOrders
      BY <2>6, <2>7 DEF Of, SignedOrders
    <3>2. OrderTerms \subseteq DOMAIN o
      BY <3>1 DEF AppInv, OrdersAuthentic
    <3>3. "type" \in DOMAIN o
      BY <3>2 DEF OrderTerms
    <3>4. c.type = o.type /\ \A field \in OrderTerms : c[field] = o[field]
      <4>1. /\ c.type = o.type
            /\ \A field \in DOMAIN o \ {"hash", "createdAt", "authHash"} : c[field] = o[field]
        BY <2>1, <2>2, <3>3, CopySays
      <4>2. QED
        BY <3>2, <4>1 DEF OrderTerms
    <3>5. SameTerms(c, o) /\ c.type = "order"
      BY <2>7, <3>4 DEF SameTerms
    <3>6. Of(objs, "authorization") = {}
      BY <2>3, <3>5 DEF Of
    <3>7. \A x \in Of(objs, "order") : x = c
      BY <2>3 DEF Of
    <3>8. \A x \in Of(objs, "order") : \E q \in SignedOrders : SameTerms(x, q)
      BY <3>1, <3>5, <3>7
    <3>9. QED
      BY <1>0, <2>4, <2>5, <3>6, <3>8, OthersTerms
  <2>8. CASE o.type = "authorization"
    <3>1. o \in SignedAuths
      BY <2>6, <2>8 DEF Of, SignedAuths
    <3>2. AuthTerms \subseteq DOMAIN o
      BY <2>6, <2>8 DEF WorldInv, ObjectsOK, ObjOK, WellFormed
    <3>3. "type" \in DOMAIN o
      BY <3>2 DEF AuthTerms
    <3>4. c.type = o.type /\ \A field \in AuthTerms : c[field] = o[field]
      <4>1. /\ c.type = o.type
            /\ \A field \in DOMAIN o \ {"hash", "createdAt", "authHash"} : c[field] = o[field]
        BY <2>1, <2>2, <3>3, CopySays
      <4>2. QED
        BY <3>2, <4>1 DEF AuthTerms
    <3>5. SameLimits(c, o) /\ c.type = "authorization"
      BY <2>8, <3>4 DEF SameLimits, AuthTerms
    <3>6. Of(objs, "order") = {}
      BY <2>3, <3>5 DEF Of
    <3>7. \A x \in Of(objs, "authorization") : x = c
      BY <2>3 DEF Of
    <3>8. \A x \in Of(objs, "authorization") : \E b \in SignedAuths : SameLimits(x, b)
      BY <3>1, <3>5, <3>7
    <3>9. QED
      BY <1>0, <2>4, <2>5, <3>6, <3>8, OthersTerms
  <2>9. QED
    BY <2>6, <2>7, <2>8
<1>8. ASSUME NEW n \in Nodes, NEW f, NEW moved, ForgeReceipt(n, f, moved)
      PROVE  TermsInv'
  <2>1. PICK call, more : AtEveryNode({[BuildReceipt(next, call, moved, clock)
                                          EXCEPT !.key.fee = @ + more, !.by = "anyone"]})
    BY <1>8 DEF ForgeReceipt
  <2>2. PICK r : /\ AtEveryNode({r})
                 /\ r = [BuildReceipt(next, call, moved, clock)
                           EXCEPT !.key.fee = @ + more, !.by = "anyone"]
    BY <2>1
  <2>3. r.type = "receipt"
    BY <2>2 DEF BuildReceipt
  <2>4. PICK objs : objs = {r}
    OBVIOUS
  <2>5. UNCHANGED <<trades, revokedAuth, session>> /\ next' = next + 1 /\ AtEveryNode(objs)
    BY <1>8, <2>2, <2>4 DEF ForgeReceipt, chainVars
  <2>6. Of(objs, "order") = {} /\ Of(objs, "authorization") = {} /\ Adds(objs)
    BY <2>3, <2>4, <2>5, AtEveryNodeAdds DEF Of
  <2>7. QED
    BY <1>0, <2>5, <2>6, OthersTerms
<1>3. PICK none : none = {}
  OBVIOUS
<1>4. Of(none, "order") = {} /\ Of(none, "authorization") = {}
  BY <1>3 DEF Of
<1>5. CASE (\E n \in Nodes : NodeDown(n) \/ NodeUp(n)) \/ Tick
  <2>1. UNCHANGED <<trades, revokedAuth, session, stored, next>>
    BY <1>5 DEF NodeDown, NodeUp, Tick, chainVars, nodeVars
  <2>2. QED
    BY <1>0, <1>3, <1>4, <2>1, SameAdds, OthersTerms
<1>6. CASE Propagate
  <2>1. UNCHANGED <<trades, revokedAuth, session, next>>
    BY <1>6 DEF Propagate, chainVars
  <2>2. Adds(none)
    BY <1>3, <1>6, PropagateAdds DEF AppInv
  <2>3. QED
    BY <1>0, <1>4, <2>1, <2>2, OthersTerms
<1>7. QED
  BY <1>1, <1>2, <1>5, <1>6, <1>8, ExecuteTerms, RivalTermsKept DEF Outside

-----------------------------------------------------------------------------
LEMMA InitTerms ==
  ASSUME Init
  PROVE  TermsInv
<1>1. PICK s \in DOMAIN Listings : Published \subseteq Listings[s]
  <2>1. PICK s \in DOMAIN Allowed : stored = [n \in Nodes |-> Listings[s]]
    BY DEF Init
  <2>2. QED
    BY <2>1, AppAssumption DEF Published
<1>2. next = InitialHash /\ session.pc = "idle" /\ trades = {} /\ revokedAuth = {}
  BY DEF Init, Quiet
<1>3. /\ SignedOrders \subseteq Of(Listings[s], "order")
      /\ SignedAuths \subseteq Of(Listings[s], "authorization")
  BY <1>1, <1>2 DEF SignedOrders, SignedAuths, Signing, Of
<1>4. OwnAuths(Of(Listings[s], "order"), Of(Listings[s], "authorization"), InitialHash)
  BY ListingsOwnAuths
<1>5. OwnAuths(SignedOrders, SignedAuths, next)
  BY <1>2, <1>3, <1>4, Zenon DEF OwnAuths
<1>6. QED
  BY <1>2, <1>5 DEF TermsInv, HandTerms, Placing

LEMMA NextTerms ==
  ASSUME AppInv, WorldInv, WorldInv', FitInv, TermsInv, [Next]_vars
  PROVE  TermsInv'
<1>1. CASE UNCHANGED vars
  <2>1. UNCHANGED <<trades, revokedAuth, session, stored, next>>
    BY <1>1 DEF vars, chainVars, nodeVars
  <2>2. PICK none : none = {}
    OBVIOUS
  <2>3. Of(none, "order") = {} /\ Of(none, "authorization") = {} /\ Adds(none)
    BY <2>1, <2>2, SameAdds DEF Of
  <2>4. next <= next'
    BY <2>1 DEF AppInv
  <2>5. QED
    BY <2>1, <2>3, <2>4, OthersTerms
<1>2. CASE Interval \/ RefreshStep
  BY <1>2, RefreshTerms
<1>3. CASE UserStarts
  <2>1. CASE \E c \in left.forms : Place(c)
    BY <2>1, PlaceTerms
  <2>2. CASE ~(\E c \in left.forms : Place(c))
    BY <1>3, <2>2, StartTerms DEF UserStarts
  <2>3. QED
    BY <2>1, <2>2
<1>4. CASE SessionStep
  <2>1. CASE Wrap \/ Approve \/ CheckFits
    BY <2>1, WalletTerms
  <2>2. CASE Sign \/ RevokeOnChain \/ SendSettlement \/ Finish
    BY <2>2, SignTerms, RevokeTerms, SendTerms, StartTerms
  <2>3. CASE PublishAuth \/ PublishOrder \/ PublishFill \/ PublishRevocation \/ PublishReceipt
    BY <2>3, PublishTerms
  <2>4. QED
    BY <1>4, <2>1, <2>2, <2>3 DEF SessionStep
<1>5. CASE Decline
  BY <1>5, StartTerms
<1>6. CASE PublishFails \/ Reload
  BY <1>6, FailTerms
<1>7. CASE Outside
  BY <1>7, OutsideTerms
<1>8. QED
  BY <1>1, <1>2, <1>3, <1>4, <1>5, <1>6, <1>7 DEF Next

-----------------------------------------------------------------------------
(***************************************************************************)
(* The other trader's match: sums in a ratio, and each order met once.     *)
(***************************************************************************)
\* What holds of each of some numbers, in a ratio, holds of their sums.
LEMMA SumsInRatio ==
  ASSUME NEW S, IsFiniteSet(S), NEW f, NEW g, NEW c \in Nat, NEW d \in Nat,
         \A x \in S : f[x] \in Nat /\ g[x] \in Nat /\ c * f[x] <= d * g[x]
  PROVE  /\ SumFunctionOnSet(f, S) \in Nat /\ SumFunctionOnSet(g, S) \in Nat
         /\ c * SumFunctionOnSet(f, S) <= d * SumFunctionOnSet(g, S)
<1> DEFINE Good == {T \in SUBSET S : /\ SumFunctionOnSet(f, T) \in Nat /\ SumFunctionOnSet(g, T) \in Nat
                                     /\ c * SumFunctionOnSet(f, T) <= d * SumFunctionOnSet(g, T)}
<1>1. ASSUME NEW T \in SUBSET S, \A x \in T : T \ {x} \in Good
      PROVE  T \in Good
  <2>1. CASE T = {}
    <3>1. SumFunctionOnSet(f, T) = 0 /\ SumFunctionOnSet(g, T) = 0
      BY <2>1, SumEmpty
    <3>2. QED
      BY <3>1
  <2>2. CASE T # {}
    <3>1. PICK y \in T : TRUE
      BY <2>2
    <3>2. PICK R : R = T \ {y}
      OBVIOUS
    <3>3. R \in Good /\ R \in SUBSET S /\ y \in S
      BY <1>1, <3>1, <3>2
    <3>4. T = R \cup {y} /\ y \notin R /\ IsFiniteSet(R)
      BY <3>1, <3>2, <3>3, FS_Subset
    <3>5. \A x \in R \cup {y} : f[x] \in Int /\ g[x] \in Int
      BY <3>3
    <3>6. /\ SumFunctionOnSet(f, T) = SumFunctionOnSet(f, R) + f[y]
          /\ SumFunctionOnSet(g, T) = SumFunctionOnSet(g, R) + g[y]
      BY <3>4, <3>5, SumAdds
    <3>7. PICK m \in Nat, n \in Nat : m = SumFunctionOnSet(f, R) /\ n = SumFunctionOnSet(g, R)
      BY <3>3
    <3>8. PICK p \in Nat, q \in Nat : p = f[y] /\ q = g[y]
      BY <3>3
    <3>9. c * m <= d * n /\ c * p <= d * q
      BY <3>3, <3>7, <3>8
    <3>10. c * (m + p) = c * m + c * p /\ d * (n + q) = d * n + d * q
      OBVIOUS
    <3>11. c * m \in Nat /\ c * p \in Nat /\ d * n \in Nat /\ d * q \in Nat
      OBVIOUS
    <3>12. c * (m + p) <= d * (n + q)
      BY <3>9, <3>10, <3>11
    <3>13. QED
      BY <3>6, <3>7, <3>8, <3>12
  <2>3. QED
    BY <2>1, <2>2
<1>2. S \in Good
  <2> HIDE DEF Good
  <2>1. \A T \in SUBSET S : (\A x \in T : T \ {x} \in Good) => T \in Good
    BY <1>1
  <2>2. QED
    BY ONLY <2>1, IsFiniteSet(S), SubsetInduction
<1>3. QED
  BY <1>2

\* A match meets an order once, for something, and never one of its own trader.
EachOnce(m, amount, me) ==
  \A i \in DOMAIN m.legs :
    /\ m.legs[i].quote > 0 /\ m.legs[i].order.maker # me /\ m.legs[i].base <= amount - m.left
    /\ \A j \in DOMAIN m.legs : m.legs[i].order = m.legs[j].order => i = j

LEMMA TakesOnce ==
  ASSUME NEW orders, NEW amount \in Nat, NEW me, NEW acc \in Matches(orders, amount),
         NEW T, T \subseteq orders, NEW o \in T, OfferNumbers(o),
         \A i \in DOMAIN acc.legs : acc.legs[i].order \in T \ {o}, EachOnce(acc, amount, me)
  PROVE  EachOnce(TakeFrom(acc, o, me), amount, me)
<1>1. PICK base : base = Min({acc.left, o.remaining})
  OBVIOUS
<1>2. /\ acc.left \in 0..amount /\ acc.legs \in Seq(Legs(orders)) /\ acc.quote \in Nat
      /\ Len(acc.legs) \in Nat /\ o \in orders
  BY DEF Matches
<1>3. base \in Nat /\ base <= acc.left /\ base <= o.remaining
  <2>1. acc.left \in Int /\ o.remaining \in Int /\ o.remaining \in Nat /\ acc.left \in Nat
    BY <1>2 DEF OfferNumbers
  <2>2. base \in {acc.left, o.remaining} /\ base <= acc.left /\ base <= o.remaining
    BY <1>1, <2>1, MinOfTwo
  <2>3. QED
    BY <1>2, <2>1, <2>2
<1>4. PICK quote \in Nat : quote = QuoteFor(base, o.price)
  BY <1>2, <1>3, QuoteNat DEF OfferNumbers
<1>5. PICK leg : leg = [order |-> o, base |-> base, price |-> o.price, quote |-> quote]
  OBVIOUS
<1>6. leg \in Legs(orders) /\ leg.order = o /\ leg.base = base /\ leg.quote = quote
  BY <1>2, <1>3, <1>4, <1>5 DEF Legs, OfferNumbers
<1>7. PICK L : L = Legs(orders)
  OBVIOUS
<1>8. \A l \in L : l.base \in Nat
  BY <1>7 DEF Legs
<1>9. PICK legs : legs = acc.legs
  OBVIOUS
<1>10. legs \in Seq(L) /\ leg \in L
  BY <1>2, <1>6, <1>7, <1>9
<1>11. PICK more : more = Append(legs, leg)
  OBVIOUS
<1>12. /\ more[Len(legs) + 1] = leg
       /\ \A i \in 1..Len(legs) : more[i] = legs[i] /\ legs[i] \in L
       /\ DOMAIN more = 1..(Len(legs) + 1) /\ DOMAIN legs = 1..Len(legs) /\ Len(legs) \in Nat
  BY <1>10, <1>11
<1>13. PICK m : m = [acc EXCEPT !.left = @ - base, !.quote = @ + quote, !.legs = more]
  OBVIOUS
<1>14. m.left = acc.left - base /\ m.legs = more
  <2>1. acc \in [left : 0..amount, legs : Seq(Legs(orders)), quote : Nat, selfCross : BOOLEAN]
    BY DEF Matches
  <2>2. QED
    BY <1>13, <2>1
<1>15. ASSUME quote > 0, o.maker # me
       PROVE  EachOnce(m, amount, me)
  <2>1. ASSUME NEW i \in DOMAIN more
        PROVE  more[i].quote > 0 /\ more[i].order.maker # me /\ more[i].base <= amount - m.left
    <3>1. CASE i = Len(legs) + 1
      BY <1>2, <1>3, <1>6, <1>12, <1>14, <1>15, <3>1
    <3>2. CASE i # Len(legs) + 1
      <4>1. i \in DOMAIN legs /\ more[i] = legs[i] /\ legs[i] \in L
        BY <1>12, <3>2
      <4>2. legs[i].quote > 0 /\ legs[i].order.maker # me /\ legs[i].base <= amount - acc.left
        BY <1>9, <4>1 DEF EachOnce
      <4>3. QED
        BY <1>2, <1>3, <1>8, <1>14, <4>1, <4>2
    <3>3. QED
      BY <3>1, <3>2
  <2>2. ASSUME NEW i \in DOMAIN more, NEW j \in DOMAIN more, more[i].order = more[j].order
        PROVE  i = j
    <3>1. \A k \in DOMAIN legs : more[k] = legs[k] /\ legs[k].order # o
      BY <1>9, <1>12
    <3>2. \A k \in DOMAIN more : k \in DOMAIN legs \/ (k = Len(legs) + 1 /\ more[k].order = o)
      BY <1>6, <1>12
    <3>3. CASE i \in DOMAIN legs /\ j \in DOMAIN legs
      BY <1>9, <2>2, <3>1, <3>3 DEF EachOnce
    <3>4. QED
      BY <2>2, <3>1, <3>2, <3>3
  <2>3. QED
    BY <1>14, <2>1, <2>2 DEF EachOnce
<1>16. PICK same : same = [acc EXCEPT !.selfCross = TRUE]
  OBVIOUS
<1>17. EachOnce(same, amount, me)
  <2>1. acc \in [left : 0..amount, legs : Seq(Legs(orders)), quote : Nat, selfCross : BOOLEAN]
    BY DEF Matches
  <2>2. same.legs = acc.legs /\ same.left = acc.left
    BY <1>16, <2>1
  <2>3. QED
    BY <2>2 DEF EachOnce
<1>18. \/ TakeFrom(acc, o, me) \in {acc, same}
       \/ TakeFrom(acc, o, me) = m /\ o.maker # me /\ quote # 0
  <2>1. m = [acc EXCEPT !.left = @ - base, !.quote = @ + quote,
               !.legs = Append(@, [order |-> o, base |-> base, price |-> o.price, quote |-> quote])]
    BY <1>5, <1>9, <1>11, <1>13
  <2>2. QED
    BY <1>1, <1>4, <1>16, <2>1, Zenon DEF TakeFrom
<1>19. QED
  BY <1>15, <1>17, <1>18

LEMMA MatchesOnce ==
  ASSUME NEW book, IsFiniteSet(book), \A o \in book : OfferNumbers(o),
         NEW side, NEW amount \in Nat, NEW limit, NEW me, NEW now,
         NEW m, m = MatchOrder(book, side, amount, limit, me, now)
  PROVE  /\ EachOnce(m, amount, me)
         /\ \A i \in DOMAIN m.legs : m.legs[i].order \in Matchable(book, side, limit, now)
<1>1. PICK S : S = Matchable(book, side, limit, now)
  OBVIOUS
<1>2. S \subseteq book /\ \A o \in S : o.side = Opposite(side)
  BY <1>1 DEF Matchable
<1>3. IsFiniteSet(S)
  BY <1>2, FS_Subset
<1>4. PICK inv : inv = [T \in SUBSET S |-> {x \in Matches(book, amount) :
        MatchFit(x, amount, T) /\ EachOnce(x, amount, me)}]
  OBVIOUS
<1>5. \A T \in SUBSET S : \A x : x \in inv[T] <=>
        x \in Matches(book, amount) /\ MatchFit(x, amount, T) /\ EachOnce(x, amount, me)
  BY <1>4
<1>6. PICK start : start = [left |-> amount, legs |-> <<>>, quote |-> 0, selfCross |-> FALSE]
  OBVIOUS
<1>7. start \in inv[{}]
  <2>1. start \in Matches(book, amount) /\ start.legs = <<>> /\ start.left = amount
    BY <1>6, MarketAssumption DEF Matches
  <2>2. amount - start.left = 0 /\ DOMAIN start.legs = {}
    BY <2>1
  <2>3. MatchFit(start, amount, {}) /\ EachOnce(start, amount, me)
    BY <2>1, <2>2, RunsFromNone DEF MatchFit, EachOnce
  <2>4. QED
    BY <1>5, <2>1, <2>3
<1>8. ASSUME NEW T \in SUBSET S, NEW o \in T, o = LastOf(T), NEW acc \in inv[T \ {o}]
      PROVE  TakeFrom(acc, o, me) \in inv[T]
  <2>1. /\ acc \in Matches(book, amount) /\ MatchFit(acc, amount, T \ {o})
        /\ EachOnce(acc, amount, me)
    BY <1>5, <1>8
  <2>2. \A p \in T : ~Before(o, p)
    <3>1. IsFiniteSet(T) /\ T # {} /\ \A p \in T : OfferNumbers(p) /\ p.side = Opposite(side)
      BY <1>2, <1>3, <1>8, FS_Subset
    <3>2. QED
      BY <1>8, <3>1, SomeOrderIsLast
  <2>3. T \subseteq book /\ \A p \in T : OfferNumbers(p)
    BY <1>2
  <2>4. TakeFrom(acc, o, me) \in Matches(book, amount)
    BY <2>1, <2>3, TakeKeepsMatch
  <2>5. EachOnce(TakeFrom(acc, o, me), amount, me)
    BY <2>1, <2>3, TakesOnce DEF MatchFit
  <2>6. MatchFit(TakeFrom(acc, o, me), amount, T)
    BY <2>1, <2>2, <2>3, TakeKeepsFit
  <2>7. QED
    BY <1>5, <2>4, <2>5, <2>6
<1>9. Carried(inv, S, me)
  BY <1>8 DEF Carried
<1>10. m \in inv[S]
  BY <1>1, <1>6, <1>7, <1>9, MatchFolds
<1>11. QED
  BY <1>1, <1>5, <1>10 DEF MatchFit

-----------------------------------------------------------------------------
(***************************************************************************)
(* Which orders of a book their makers can pay for.                        *)
(***************************************************************************)
\* FundedWith by its parts: what funding an order adds, and the orders of one
\* maker and side that are backed.
FundOne(acc, o, capacity) ==
  IF acc.used + NeedFor(o) <= Get(capacity, <<o.maker, PayToken(o.side)>>, 0)
  THEN [used |-> acc.used + NeedFor(o), hashes |-> acc.hashes \cup {o.hash}]
  ELSE acc
Unfunded == [used |-> 0, hashes |-> {}]
OffersOf(orders, maker, side) == {o \in orders : IsLive(o) /\ o.maker = maker /\ o.side = side}
BackedOf(orders, capacity, maker, side) ==
  InBookOrder(LAMBDA acc, o : FundOne(acc, o, capacity), Unfunded, OffersOf(orders, maker, side)).hashes
Within(o, capacity) == NeedFor(o) <= Get(capacity, <<o.maker, PayToken(o.side)>>, 0)

CapacityOK(capacity) == \A k \in DOMAIN capacity : capacity[k] \in Nat

LEMMA FundsWithin ==
  ASSUME NEW S, NEW o \in S, NeedFor(o) \in Nat, NEW capacity, CapacityOK(capacity),
         NEW acc, acc.used \in Nat, \A h \in acc.hashes : \E p \in S : p.hash = h /\ Within(p, capacity)
  PROVE  /\ FundOne(acc, o, capacity).used \in Nat
         /\ \A h \in FundOne(acc, o, capacity).hashes : \E p \in S : p.hash = h /\ Within(p, capacity)
<1>1. PICK cap : cap = Get(capacity, <<o.maker, PayToken(o.side)>>, 0)
  OBVIOUS
<1>2. PICK need \in Nat : need = NeedFor(o)
  OBVIOUS
<1>3. PICK more : more = [used |-> acc.used + need, hashes |-> acc.hashes \cup {o.hash}]
  OBVIOUS
<1>4. FundOne(acc, o, capacity) = IF acc.used + need <= cap THEN more ELSE acc
  BY <1>1, <1>2, <1>3 DEF FundOne
<1>5. CASE ~(acc.used + need <= cap)
  BY <1>4, <1>5
<1>6. CASE acc.used + need <= cap
  <2>1. FundOne(acc, o, capacity) = more
    BY <1>4, <1>6
  <2>2. more.used \in Nat
    BY <1>3
  <2>3. cap \in Nat
    BY <1>1 DEF Get, CapacityOK
  <2>4. Within(o, capacity)
    BY <1>1, <1>2, <1>6, <2>3 DEF Within
  <2>5. more.hashes = acc.hashes \cup {o.hash}
    BY <1>3
  <2>6. QED
    BY <2>1, <2>2, <2>4, <2>5
<1>7. QED
  BY <1>5, <1>6

\* What is backed of a maker's orders is within what the maker has.
LEMMA BackedWithin ==
  ASSUME NEW orders, BookOK(orders), NEW capacity, CapacityOK(capacity), NEW maker, NEW side
  PROVE  \A h \in BackedOf(orders, capacity, maker, side) :
           \E p \in orders : p.hash = h /\ Within(p, capacity)
<1>1. PICK S : S = OffersOf(orders, maker, side)
  OBVIOUS
<1>2. S \subseteq orders /\ IsFiniteSet(S) /\ \A o \in S : o.side = side
  BY <1>1, FS_Subset DEF OffersOf, BookOK
<1>3. \A o \in S : OfferNumbers(o) /\ NeedFor(o) \in Nat
  BY <1>2, NeedsAreNat DEF BookOK, EntryOK
<1> DEFINE Step(T, g) == IF T = {} THEN Unfunded ELSE FundOne(g[T \ {LastOf(T)}], LastOf(T), capacity)
           Table(g)   == g = [T \in SUBSET S |-> Step(T, g)]
<1>4. BackedOf(orders, capacity, maker, side) = (CHOOSE g : Table(g))[S].hashes
  BY <1>1 DEF BackedOf, InBookOrder, MapThenFoldSet
<1>5. \A T \in SUBSET S : T # {} => LastOf(T) \in T
  BY <1>2, <1>3, FS_Subset, SomeOrderIsLast
<1>6. PICK H : H = {h : h \in {o.hash : o \in S}}
  OBVIOUS
<1>7. PICK A : A = [used : Nat, hashes : SUBSET H]
  OBVIOUS
<1>8. Unfunded \in A
  BY <1>7 DEF Unfunded
<1>9. ASSUME NEW acc \in A, NEW o \in S
      PROVE  FundOne(acc, o, capacity) \in A
  BY <1>3, <1>6, <1>7, <1>9 DEF FundOne
<1>10. \E g : Table(g)
  <2>1. PICK pick : pick = [T \in SUBSET S |-> LastOf(T)]
    OBVIOUS
  <2>2. PICK F : F = [x \in A \X S |-> FundOne(x[1], x[2], capacity)]
    OBVIOUS
  <2>3. PICK g : IsFoldTable(Unfunded, pick, F, S, g)
    BY <1>2, <1>5, <2>1, FoldTableExists
  <2>4. \A T \in SUBSET S : g[T] = FoldStep(Unfunded, pick, F, T, g)
    BY <2>3 DEF IsFoldTable
  <2> DEFINE Good == {T \in SUBSET S : g[T] \in A}
  <2>5. ASSUME NEW T \in SUBSET S, \A x \in T : T \ {x} \in Good
        PROVE  T \in Good /\ g[T] = Step(T, g)
    <3>1. CASE T = {}
      BY <1>8, <2>4, <3>1 DEF FoldStep
    <3>2. CASE T # {}
      <4>1. PICK o : o = LastOf(T) /\ o \in T /\ pick[T] = o
        BY <1>5, <2>1, <3>2
      <4>2. PICK acc : acc = g[T \ {o}]
        OBVIOUS
      <4>3. acc \in A /\ o \in S
        BY <2>5, <4>1, <4>2
      <4>4. F[<<acc, o>>] = FundOne(acc, o, capacity)
        BY <2>2, <4>3
      <4>5. g[T] = FundOne(acc, o, capacity)
        BY <2>4, <3>2, <4>1, <4>2, <4>4 DEF FoldStep
      <4>6. FundOne(acc, o, capacity) \in A
        BY <1>9, <4>3
      <4>7. QED
        BY <3>2, <4>1, <4>2, <4>5, <4>6
    <3>3. QED
      BY <3>1, <3>2
  <2>6. SUBSET S \subseteq Good
    <3> HIDE DEF Good, Step
    <3>1. \A T \in SUBSET S : (\A x \in T : T \ {x} \in Good) => T \in Good
      BY ONLY <2>5
    <3>2. IsFiniteSet(S)
      BY <1>2
    <3>3. QED
      BY ONLY <3>1, <3>2, SubsetInduction
  <2>7. \A T \in SUBSET S : g[T] = Step(T, g)
    <3> HIDE DEF Good, Step
    <3>1. QED
      BY <2>5, <2>6
  <2>8. g = [T \in SUBSET S |-> g[T]]
    BY <2>3 DEF IsFoldTable
  <2>9. g = [T \in SUBSET S |-> Step(T, g)]
    <3> HIDE DEF Step
    <3>1. QED
      BY <2>7, <2>8
  <2>10. QED
    BY <2>9
<1>11. PICK g : g = CHOOSE h : Table(h)
  OBVIOUS
<1>12. Table(g)
  BY <1>10, <1>11
<1>13. \A T \in SUBSET S : g[T] = Step(T, g)
  <2> HIDE DEF Step
  <2>1. QED
    BY <1>12
<1> DEFINE Good == {T \in SUBSET S : /\ g[T].used \in Nat
                     /\ \A h \in g[T].hashes : \E p \in S : p.hash = h /\ Within(p, capacity)}
<1>14. ASSUME NEW T \in SUBSET S, \A x \in T : T \ {x} \in Good
       PROVE  T \in Good
  <2>1. CASE T = {}
    <3>1. g[T] = Unfunded
      BY <1>13, <2>1
    <3>2. Unfunded.used = 0 /\ Unfunded.hashes = {}
      BY DEF Unfunded
    <3>3. QED
      BY <3>1, <3>2
  <2>2. CASE T # {}
    <3>1. PICK o : o = LastOf(T) /\ o \in T
      BY <1>5, <2>2
    <3>2. PICK acc : acc = g[T \ {o}]
      OBVIOUS
    <3>3. /\ acc.used \in Nat /\ o \in S /\ NeedFor(o) \in Nat
          /\ \A h \in acc.hashes : \E p \in S : p.hash = h /\ Within(p, capacity)
      BY <1>3, <1>14, <3>1, <3>2
    <3>4. g[T] = FundOne(acc, o, capacity)
      BY <1>13, <2>2, <3>1, <3>2
    <3>5. /\ g[T].used \in Nat
          /\ \A h \in g[T].hashes : \E p \in S : p.hash = h /\ Within(p, capacity)
      BY <3>3, <3>4, FundsWithin
    <3>6. QED
      BY <3>5
  <2>3. QED
    BY <2>1, <2>2
<1>15. S \in Good
  <2> HIDE DEF Good, Step, Table
  <2>1. \A T \in SUBSET S : (\A x \in T : T \ {x} \in Good) => T \in Good
    BY ONLY <1>14
  <2>2. IsFiniteSet(S)
    BY <1>2
  <2>3. SUBSET S \subseteq Good
    BY ONLY <2>1, <2>2, SubsetInduction
  <2>4. QED
    BY <2>3
<1>16. \A h \in g[S].hashes : \E p \in S : p.hash = h /\ Within(p, capacity)
  BY <1>15
<1> HIDE DEF Good, Step, Table
<1>17. QED
  BY <1>2, <1>4, <1>11, <1>16

\* An entry of a funded book is one of the book, marked; marked as funded, its
\* maker can pay what it needs (fundedOrders, aon.ts:362-388).
LEMMA FundedWithin ==
  ASSUME NEW orders, BookOK(orders), NEW capacity, CapacityOK(capacity),
         \A o, p \in orders : o.hash = p.hash => o = p,
         NEW e \in FundedWith(orders, capacity)
  PROVE  \E o \in orders :
           /\ DOMAIN e = DOMAIN o /\ \A field \in DOMAIN o \ {"funded"} : e[field] = o[field]
           /\ IsLive(o) /\ e.funded /\ "funded" \in DOMAIN o => Within(o, capacity)
<1> DEFINE backed == UNION {BackedOf(orders, capacity, o.maker, o.side) : o \in orders}
<1>1. FundedWith(orders, capacity) =
        {IF IsLive(o) THEN [o EXCEPT !.funded = o.hash \in backed] ELSE o : o \in orders}
  BY Zenon DEF FundedWith, BackedOf, OffersOf, Unfunded, FundOne
<1>2. ASSUME NEW h \in backed
      PROVE  \E p \in orders : p.hash = h /\ Within(p, capacity)
  <2>1. PICK o \in orders : h \in BackedOf(orders, capacity, o.maker, o.side)
    OBVIOUS
  <2>2. QED
    BY <2>1, BackedWithin
<1> HIDE DEF backed
<1>3. PICK o \in orders : e = IF IsLive(o) THEN [o EXCEPT !.funded = o.hash \in backed] ELSE o
  BY <1>1
<1>4. DOMAIN e = DOMAIN o /\ \A field \in DOMAIN o \ {"funded"} : e[field] = o[field]
  BY <1>3
<1>5. ASSUME IsLive(o), e.funded, "funded" \in DOMAIN o
      PROVE  Within(o, capacity)
  <2>1. o.hash \in backed
    BY <1>3, <1>5
  <2>2. QED
    BY <1>2, <2>1
<1>6. QED
  BY <1>4, <1>5

-----------------------------------------------------------------------------
(***************************************************************************)
(* What an up-to-date book says of an order.                               *)
(***************************************************************************)
\* What an entry of an up-to-date book says of the order it stands for.
Offered(e, x) ==
  /\ e.hash = x.hash /\ e.eip = x.eip /\ e.side = x.side /\ e.price = x.price /\ e.maker = x.trader
  /\ {x.base, x.price, x.exclusiveBase, x.exclusiveUntil} \subseteq Nat
  /\ OrderUnder(x, e.auth) /\ VerifySigned(e.auth, e.auth.grantor)
  /\ e.expired \/ (clock <= x.validBefore /\ clock <= e.auth.validBefore)
  /\ e.exclusiveBase = x.exclusiveBase /\ e.exclusiveUntil = x.exclusiveUntil
  /\ e.boundFilled = BoundOnChain(x.eip)
  /\ e.voided <=> /\ x.counterSetHash # NoLegs /\ clock >= x.exclusiveUntil
                  /\ BoundOnChain(x.eip) < x.exclusiveBase
  /\ e.remaining > 0 =>
       e.remaining <= IF e.voided
                      THEN (x.base - x.exclusiveBase) - (FilledOnChain(x.eip) - BoundOnChain(x.eip))
                      ELSE x.base - FilledOnChain(x.eip)
OfferFields == EntryFields \cup CoverFields \cup {"maker", "cancelled", "expired", "funded"}

LEMMA BoundIsPart ==
  ASSUME TradesOK, NEW e
  PROVE  BoundOnChain(e) <= FilledOnChain(e)
<1>1. PICK S : S = Involving(e)
  OBVIOUS
<1>2. IsFiniteSet(S) /\ \A t \in S : t.base \in Nat
  BY <1>1, FS_Subset DEF TradesOK, Involving
<1>3. {t \in S : e \in t.recorded} \in SUBSET S
  OBVIOUS
<1>4. SumBase({t \in S : e \in t.recorded}) <= SumBase(S)
  BY <1>2, <1>3, SumBaseOfPart
<1>5. QED
  BY <1>1, <1>4 DEF BoundOnChain, FilledOnChain

\* The entry of an order in the state derived with the whole chain read.
LEMMA EntryIsOffered ==
  ASSUME WorldInv, FitInv, NEW n \in Nodes, NEW fills, ViewsOK(fills),
         NEW r, r = Reading(stored[n]), NEW x \in r.canonical,
         NEW chain, chain = FullChain(n),
         NEW e, e = RestingOrder(x, fills, r, chain, clock)
  PROVE  Offered(e, x) /\ OfferFields \subseteq DOMAIN e /\ EntryOK(e)
<1>1. /\ Readable(stored[n]) /\ stored[n] \in SUBSET Published /\ Unique(Published)
      /\ ChainNumbers(chain) /\ TradesOK /\ clock \in Nat
  <2>1. stored[n] \in SUBSET Published
    BY DEF Published
  <2>2. /\ chain.filled = [k \in Eips(n) |-> FilledOnChain(k)]
        /\ chain.bound = [k \in Eips(n) |-> BoundOnChain(k)]
    BY DEF ReadTotals, FullChain
  <2>3. \A k : FilledOnChain(k) \in Nat /\ BoundOnChain(k) \in Nat
    BY ChainSumsAreNat DEF WorldInv
  <2>4. ChainNumbers(chain)
    BY <2>2, <2>3 DEF ChainNumbers
  <2>5. Unique(Published)
    BY DEF FitInv, HashesOK, Unique
  <2>6. QED
    BY <2>1, <2>4, <2>5, ListingIsReadable DEF WorldInv, ClockOK
<1>2. PICK a : a = AuthOf(x, r)
  OBVIOUS
<1>3. a \in r.auths /\ x \in r.orders /\ x \in Of(stored[n], "order") /\ a \in Of(stored[n], "authorization")
  BY <1>2, ReadingHolds
<1>4. VerifySigned(a, a.grantor) /\ OrderUnder(x, a)
  <2>1. r.auths = ValidAuths(stored[n]) /\ r.orders = ValidOrders(stored[n], ValidAuths(stored[n]))
    BY DEF Reading
  <2>2. PICK b \in r.auths : OrderUnder(x, b)
    BY <1>3, <2>1 DEF ValidOrders
  <2>3. b.hash = x.authHash
    BY <2>2 DEF OrderUnder
  <2>4. a.hash = x.authHash
    BY <1>2, <2>3 DEF AuthOf
  <2>5. a \in Published /\ b \in Published
    BY <1>1, <1>3, <2>1 DEF ValidAuths, Of
  <2>6. a = b
    BY <1>1, <2>3, <2>4, <2>5 DEF Unique
  <2>7. QED
    BY <1>3, <2>1, <2>2, <2>6 DEF ValidAuths
<1>5. /\ x.base \in Nat /\ x.price \in Nat /\ x.exclusiveBase \in Nat /\ x.exclusiveUntil \in Nat
      /\ x.validBefore \in Nat /\ a.validBefore \in Nat
  BY <1>1, <1>3 DEF Of, Readable, WellFormed
<1>6. PICK F \in Nat, B \in Nat : F = FilledOnChain(x.eip) /\ B = BoundOnChain(x.eip)
  BY <1>1, ChainSumsAreNat
<1>7. B <= F
  BY <1>1, <1>6, BoundIsPart
<1>8. /\ F = Get(chain.filled, x.eip, Credit(x, fills, "settled"))
      /\ B = Get(chain.bound, x.eip, BoundCredit(x, fills, "settled"))
  <2>1. x.eip \in Eips(n)
    BY <1>3 DEF Eips
  <2>2. /\ chain.filled = [k \in Eips(n) |-> FilledOnChain(k)]
        /\ chain.bound = [k \in Eips(n) |-> BoundOnChain(k)]
    BY DEF ReadTotals, FullChain
  <2>3. QED
    BY <1>6, <2>1, <2>2 DEF Get
<1>9. PICK reserved \in Nat, boundPending \in Nat :
        /\ reserved = Credit(x, fills, "pending") /\ boundPending = BoundCredit(x, fills, "pending")
        /\ boundPending <= reserved
  BY CreditsAreNat
<1>10. PICK voided \in BOOLEAN :
         voided = (x.counterSetHash # NoLegs /\ clock >= x.exclusiveUntil /\ B < x.exclusiveBase)
  OBVIOUS
<1>11. PICK remaining : remaining =
         IF voided THEN (x.base - x.exclusiveBase) - (F - B) - (reserved - boundPending)
         ELSE x.base - F - reserved
  OBVIOUS
<1>12. PICK until \in Nat : until = ValidUntil(x, r) /\ until <= x.validBefore /\ until <= a.validBefore
  <2>1. PICK v \in Nat, w \in Nat : v = x.validBefore /\ w = a.validBefore
    BY <1>5
  <2>2. ValidUntil(x, r) = Min({v, w})
    BY <1>2, <2>1 DEF ValidUntil
  <2>3. Min({v, w}) \in {v, w} /\ Min({v, w}) <= v /\ Min({v, w}) <= w
    BY MinOfTwo
  <2>4. QED
    BY <2>1, <2>2, <2>3
<1>22. clock \in Nat /\ ExpiryMargin \in Nat
  BY <1>1, MarketAssumption
<1>23. PICK expired : expired = (until <= clock + ExpiryMargin)
  OBVIOUS
<1>13. PICK cancelled, budget :
         /\ cancelled = (x \in r.revoked)
         /\ budget = IF x.side = "buy" THEN AtLeastZero(a.maxFee - FeeUsed(x.authHash, fills)) ELSE 0
  OBVIOUS
<1>14. e = [hash |-> x.hash, eip |-> x.eip, auth |-> a, maker |-> x.trader, side |-> x.side,
            price |-> x.price, base |-> x.base, filled |-> F, pending |-> reserved,
            remaining |-> AtLeastZero(remaining), createdAt |-> x.createdAt,
            cancelled |-> cancelled, expired |-> expired,
            exclusiveBase |-> x.exclusiveBase, exclusiveUntil |-> x.exclusiveUntil,
            boundFilled |-> B, voided |-> voided, funded |-> TRUE,
            feeBudgetLeft |-> budget]
  BY <1>2, <1>8, <1>9, <1>10, <1>11, <1>12, <1>23, <1>13, Zenon DEF RestingOrder
<1>15. /\ e.hash = x.hash /\ e.eip = x.eip /\ e.side = x.side /\ e.price = x.price
       /\ e.maker = x.trader /\ e.auth = a /\ e.expired = expired /\ e.exclusiveBase = x.exclusiveBase
       /\ e.exclusiveUntil = x.exclusiveUntil /\ e.boundFilled = B /\ e.voided = voided
       /\ e.remaining = AtLeastZero(remaining)
       /\ OfferFields \subseteq DOMAIN e
  BY <1>14 DEF OfferFields, EntryFields, CoverFields
<1>16. expired \/ (clock <= x.validBefore /\ clock <= a.validBefore)
  <2>1. CASE until <= clock + ExpiryMargin
    BY <1>23, <2>1, Zenon
  <2>2. CASE ~(until <= clock + ExpiryMargin)
    BY <1>5, <1>12, <1>22, <2>2
  <2>3. QED
    BY <2>1, <2>2
<1>17. remaining \in Int
  BY <1>5, <1>6, <1>9, <1>11
<1>18. AtLeastZero(remaining) \in {remaining, 0}
  BY <1>17, Clamped
<1>19. AtLeastZero(remaining) > 0 => AtLeastZero(remaining) <=
         IF voided THEN (x.base - x.exclusiveBase) - (F - B) ELSE x.base - F
  <2>1. AtLeastZero(remaining) > 0 => AtLeastZero(remaining) = remaining
    BY <1>18
  <2>2. remaining <= IF voided THEN (x.base - x.exclusiveBase) - (F - B) ELSE x.base - F
    BY <1>5, <1>6, <1>9, <1>11
  <2>3. QED
    BY <2>1, <2>2
<1>20. EntryOK(e)
  BY <1>1, EntryOfOrder
<1>21. QED
  BY <1>4, <1>5, <1>6, <1>10, <1>15, <1>16, <1>19, <1>20 DEF Offered

-----------------------------------------------------------------------------
(***************************************************************************)
(* What the contract has room for of an order on that book.                *)
(***************************************************************************)
LEMMA CapacityHolds ==
  ASSUME MoneyOK
  PROVE  /\ CapacityOK(Capacity({}))
         /\ \A k \in Traders \X {"base", "quote"} :
              /\ k \in DOMAIN Capacity({})
              /\ Capacity({})[k] <= bal[k[1]][k[2]] /\ Capacity({})[k] <= allow[k[1]][k[2]]
         /\ DOMAIN Capacity({}) = Traders \X {"base", "quote"}
<1>1. PICK C : C = Capacity({})
  OBVIOUS
<1>2. C = [k \in Traders \X {"base", "quote"} |-> Min({bal[k[1]][k[2]], allow[k[1]][k[2]]})]
  BY <1>1 DEF Capacity
<1>3. ASSUME NEW k \in Traders \X {"base", "quote"}
      PROVE  C[k] \in Nat /\ C[k] <= bal[k[1]][k[2]] /\ C[k] <= allow[k[1]][k[2]]
  <2>1. k[1] \in Traders /\ k[2] \in {"base", "quote"}
    OBVIOUS
  <2>2. bal[k[1]] \in Wallet /\ allow[k[1]] \in Allowance
    BY <2>1 DEF MoneyOK
  <2>3. PICK m \in Nat, w \in Nat : m = bal[k[1]][k[2]] /\ w = allow[k[1]][k[2]]
    BY <2>1, <2>2 DEF Wallet, Allowance
  <2>7. m \in Int /\ w \in Int
    OBVIOUS
  <2>4. Min({m, w}) \in {m, w} /\ Min({m, w}) <= m /\ Min({m, w}) <= w
    BY <2>7, MinOfTwo
  <2>5. C[k] = Min({m, w})
    BY <1>2, <2>3
  <2>6. QED
    BY <2>3, <2>4, <2>5
<1>4. QED
  BY <1>1, <1>2, <1>3 DEF CapacityOK

\* A live entry that may be matched has room at the contract for what is left
\* of it, for an order it does not name.
LEMMA OfferedHasRoom ==
  ASSUME TradesOK, clock \in Nat, NEW e, NEW x, Offered(e, x), EntryOK(e), IsLive(e), ~IsReserved(e, clock),
         NEW c, c.eip \notin DOMAIN x.counterSet, NEW price
  PROVE  /\ BindingAccepts(x, c, price)
         /\ BindingRoom(x, c) \in Int /\ e.remaining <= BindingRoom(x, c)
         /\ x.base - FilledOnChain(x.eip) \in Int /\ e.remaining <= x.base - FilledOnChain(x.eip)
<1>1. PICK F \in Nat, B \in Nat : F = FilledOnChain(x.eip) /\ B = BoundOnChain(x.eip)
  BY ChainSumsAreNat
<1>2. B <= F
  BY <1>1, BoundIsPart
<1>3. PICK base \in Nat, excl \in Nat, until \in Nat :
        base = x.base /\ excl = x.exclusiveBase /\ until = x.exclusiveUntil
  BY DEF Offered
<1>4. PICK left0 \in Nat : left0 = e.remaining /\ left0 > 0
  BY DEF EntryOK, OfferNumbers, IsLive
<1>5. PICK bound \in BOOLEAN, voided \in BOOLEAN :
        bound = (x.counterSetHash # NoLegs) /\ (voided <=> e.voided)
  OBVIOUS
<1>6. /\ voided <=> bound /\ clock >= until /\ B < excl
      /\ left0 <= IF voided THEN (base - excl) - (F - B) ELSE base - F
  BY <1>1, <1>3, <1>4, <1>5 DEF Offered
<1>7. ~(excl > 0 /\ clock < until /\ B < excl)
  BY <1>1, <1>3 DEF Offered, IsReserved
<1>8. ~LegActive(x, c)
  BY DEF LegActive
<1>9. left0 <= base - F
  BY <1>2, <1>6
<1>10. BindingAccepts(x, c, price)
  <2>1. InWindow(x) => clock < until
    BY <1>3 DEF InWindow
  <2>2. clock < until => B >= excl
    BY <1>7
  <2>3. QED
    BY <1>1, <1>3, <1>8, <2>1, <2>2 DEF BindingAccepts
<1>11. BindingRoom(x, c) = IF bound THEN (base - excl) - (F - B) ELSE base
  BY <1>1, <1>3, <1>5, <1>8 DEF BindingRoom
<1>12. bound /\ ~voided => B >= excl
  BY <1>6, <1>7
<1>13. left0 <= BindingRoom(x, c)
  <2>1. CASE ~bound
    BY <1>9, <1>11, <2>1
  <2>2. CASE bound /\ voided
    BY <1>6, <1>11, <2>2
  <2>3. CASE bound /\ ~voided
    BY <1>9, <1>11, <1>12, <2>3
  <2>4. QED
    BY <2>1, <2>2, <2>3
<1>14. BindingRoom(x, c) \in Int
  BY <1>11
<1>15. QED
  BY <1>1, <1>3, <1>4, <1>9, <1>10, <1>13, <1>14

\* The book an up-to-date reader matches against.
LEMMA BookIsOffered ==
  ASSUME WorldInv, FitInv, NEW n \in Nodes
  PROVE  /\ \A e \in RivalBook(n) :
              /\ EntryOK(e)
              /\ \E x \in Of(stored[n], "order") : Offered(e, x)
              /\ e.auth \in Of(stored[n], "authorization")
              /\ IsLive(e) /\ e.funded => Within(e, Capacity({}))
         /\ \A e, d \in RivalBook(n) : e.eip = d.eip => e = d
<1>1. /\ Readable(stored[n]) /\ stored[n] \in SUBSET Published /\ Unique(Published) /\ MoneyOK
  BY ListingIsReadable DEF WorldInv, FitInv, HashesOK, Unique, Published
<1>2. PICK r : r = Reading(stored[n])
  OBVIOUS
<1>3. PICK chain : chain = FullChain(n)
  OBVIOUS
<1>4. PICK orders : orders = DeriveState(stored[n], chain, clock).orders
  OBVIOUS
<1>5. PICK fills : ViewsOK(fills) /\ orders = {RestingOrder(x, fills, r, chain, clock) : x \in r.canonical}
  BY <1>1, <1>2, <1>4, BookOfListing
<1>6. \A x \in r.canonical : \A e : e = RestingOrder(x, fills, r, chain, clock) =>
        Offered(e, x) /\ OfferFields \subseteq DOMAIN e /\ EntryOK(e)
  BY <1>2, <1>3, <1>5, EntryIsOffered
<1>7. \A x \in r.canonical : x \in Of(stored[n], "order") /\ AuthOf(x, r) \in Of(stored[n], "authorization")
  BY <1>2, ReadingHolds
<1>8. \A c, d \in r.canonical : c.eip = d.eip => c = d
  BY <1>1, <1>2, OneCounts
<1>9. \A o, p \in orders : o.hash = p.hash => o = p
  <2>1. ASSUME NEW x \in r.canonical, NEW y \in r.canonical, x.hash = y.hash
        PROVE  x = y
    BY <1>1, <1>7, <2>1 DEF Of, Unique
  <2>2. ASSUME NEW o \in orders, NEW p \in orders, o.hash = p.hash
        PROVE  o = p
    <3>1. PICK x \in r.canonical : o = RestingOrder(x, fills, r, chain, clock)
      BY <1>5
    <3>2. PICK y \in r.canonical : p = RestingOrder(y, fills, r, chain, clock)
      BY <1>5
    <3>3. o.hash = x.hash /\ p.hash = y.hash
      BY <1>6, <3>1, <3>2 DEF Offered
    <3>4. QED
      BY <2>1, <2>2, <3>1, <3>2, <3>3
  <2>3. QED
    BY <2>2
<1>10. PICK capacity : capacity = Capacity({})
  OBVIOUS
<1>11. CapacityOK(capacity)
  BY <1>1, <1>10, CapacityHolds
<1>12. RivalBook(n) = FundedWith(orders, capacity)
  BY <1>3, <1>4, <1>10, Zenon DEF RivalBook
<1>13. BookOK(orders)
  <2>1. IsFiniteSet(orders)
    <3>1. ChainNumbers(chain)
      <4>1. /\ chain.filled = [k \in Eips(n) |-> FilledOnChain(k)]
            /\ chain.bound = [k \in Eips(n) |-> BoundOnChain(k)]
        BY <1>3 DEF ReadTotals, FullChain
      <4>2. \A k : FilledOnChain(k) \in Nat /\ BoundOnChain(k) \in Nat
        BY ChainSumsAreNat DEF WorldInv
      <4>3. QED
        BY <4>1, <4>2 DEF ChainNumbers
    <3>2. QED
      BY <1>1, <1>4, <3>1, BookIsTyped DEF BookOK
  <2>2. \A o \in orders : EntryOK(o)
    BY <1>5, <1>6
  <2>3. QED
    BY <2>1, <2>2 DEF BookOK
<1>14. ASSUME NEW e \in RivalBook(n)
       PROVE  /\ EntryOK(e)
              /\ \E x \in Of(stored[n], "order") : Offered(e, x)
              /\ e.auth \in Of(stored[n], "authorization")
              /\ IsLive(e) /\ e.funded => Within(e, capacity)
  <2>1. PICK o \in orders :
          /\ DOMAIN e = DOMAIN o /\ \A field \in DOMAIN o \ {"funded"} : e[field] = o[field]
          /\ IsLive(o) /\ e.funded /\ "funded" \in DOMAIN o => Within(o, capacity)
    BY <1>9, <1>11, <1>12, <1>13, <1>14, FundedWithin
  <2>2. PICK x \in r.canonical : o = RestingOrder(x, fills, r, chain, clock)
    BY <1>5
  <2>3. Offered(o, x) /\ OfferFields \subseteq DOMAIN o /\ EntryOK(o)
    BY <1>6, <2>2
  <2>4. \A field \in OfferFields \ {"funded"} : e[field] = o[field]
    BY <2>1, <2>3
  <2>5. /\ e.hash = o.hash /\ e.eip = o.eip /\ e.side = o.side /\ e.price = o.price
        /\ e.maker = o.maker /\ e.auth = o.auth /\ e.expired = o.expired
        /\ e.exclusiveBase = o.exclusiveBase /\ e.exclusiveUntil = o.exclusiveUntil
        /\ e.boundFilled = o.boundFilled /\ e.voided = o.voided /\ e.remaining = o.remaining
        /\ e.base = o.base /\ e.pending = o.pending /\ e.createdAt = o.createdAt
        /\ e.feeBudgetLeft = o.feeBudgetLeft /\ e.cancelled = o.cancelled
    BY <2>4 DEF OfferFields, EntryFields, CoverFields
  <2>6. Offered(e, x)
    BY <2>3, <2>5 DEF Offered
  <2>7. EntryOK(e)
    BY <2>1, <2>3, <2>5 DEF EntryOK, OfferNumbers
  <2>8. IsLive(e) /\ e.funded => Within(e, capacity)
    <3>1. IsLive(e) = IsLive(o) /\ NeedFor(e) = NeedFor(o)
      BY <2>5 DEF IsLive, NeedFor
    <3>2. "funded" \in DOMAIN o
      BY <2>3 DEF OfferFields
    <3>3. QED
      BY <2>1, <2>5, <3>1, <3>2 DEF Within
  <2>9. e.auth = AuthOf(x, r)
    <3>1. o.auth = AuthOf(x, r)
      BY <2>2 DEF RestingOrder
    <3>2. QED
      BY <2>5, <3>1
  <2>10. QED
    BY <1>7, <2>6, <2>7, <2>8, <2>9
<1>15. ASSUME NEW e \in RivalBook(n), NEW d \in RivalBook(n), e.eip = d.eip
       PROVE  e = d
  <2>1. \E backed : FundedWith(orders, capacity) =
          {IF IsLive(o) THEN [o EXCEPT !.funded = o.hash \in backed] ELSE o : o \in orders}
    BY Zenon DEF FundedWith
  <2>2. PICK backed : FundedWith(orders, capacity) =
          {IF IsLive(o) THEN [o EXCEPT !.funded = o.hash \in backed] ELSE o : o \in orders}
    BY <2>1
  <2>3. PICK o \in orders : e = IF IsLive(o) THEN [o EXCEPT !.funded = o.hash \in backed] ELSE o
    BY <1>12, <1>15, <2>2
  <2>4. PICK p \in orders : d = IF IsLive(p) THEN [p EXCEPT !.funded = p.hash \in backed] ELSE p
    BY <1>12, <1>15, <2>2
  <2>5. PICK x \in r.canonical : o = RestingOrder(x, fills, r, chain, clock)
    BY <1>5
  <2>6. PICK y \in r.canonical : p = RestingOrder(y, fills, r, chain, clock)
    BY <1>5
  <2>7. /\ o.eip = x.eip /\ p.eip = y.eip /\ "eip" \in DOMAIN o /\ "eip" \in DOMAIN p
    BY <1>6, <2>5, <2>6 DEF Offered, OfferFields, CoverFields
  <2>8. e.eip = o.eip /\ d.eip = p.eip
    BY <2>3, <2>4, <2>7
  <2>9. x = y
    BY <1>8, <1>15, <2>7, <2>8
  <2>10. QED
    BY <2>3, <2>4, <2>5, <2>6, <2>9
<1>16. QED
  BY <1>10, <1>14, <1>15

-----------------------------------------------------------------------------
(***************************************************************************)
(* The legs of the match.                                                  *)
(***************************************************************************)
\* What holds of a leg of the other trader's match.
LegTaken(form, m, leg) ==
  /\ EntryOK(leg.order) /\ IsLive(leg.order) /\ ~IsReserved(leg.order, clock)
  /\ Within(leg.order, Capacity({}))
  /\ leg.order.side = Opposite(form.side) /\ leg.order.maker # Rival
  /\ IF form.side = "buy" THEN leg.order.price <= form.limit ELSE leg.order.price >= form.limit
  /\ leg.order.price <= MaxPrice
  /\ LegOK(leg) /\ leg.base > 0 /\ leg.quote > 0 /\ leg.base <= leg.order.remaining
  /\ leg.base <= Filled(m, form.amount) /\ Filled(m, form.amount) <= form.amount
  /\ leg.price = leg.order.price /\ leg.quote = QuoteFor(leg.base, leg.price)
  /\ LegsOf(m) # NoLegs /\ leg.order.eip \in DOMAIN LegsOf(m) /\ LegsOf(m)[leg.order.eip] = leg.base

LEMMA NothingForNothing ==
  ASSUME NEW price \in Nat
  PROVE  QuoteFor(0, price) = 0
<1>1. 0 * price = 0
  OBVIOUS
<1>2. 0 \div Scale = 0
  BY MarketAssumption
<1>3. QED
  BY <1>1, <1>2 DEF QuoteFor

LEMMA RivalLegs ==
  ASSUME WorldInv, FitInv, TermsInv, NEW n \in Nodes, NEW form \in left.theirs,
         NEW m, m = RivalMatch(n, form), NEW i \in DOMAIN m.legs
  PROVE  m.legs[i].order \in RivalBook(n) /\ LegTaken(form, m, m.legs[i]) /\ m.left \in 0..form.amount
<1>1. PICK book : book = RivalBook(n)
  OBVIOUS
<1>2. PICK leg, e : leg = m.legs[i] /\ e = leg.order
  OBVIOUS
<1>3. /\ BookOK(book) /\ form.amount \in Nat /\ form.limit \in Nat \ {0}
      /\ form.side \in {"buy", "sell"} /\ LegsOK(m.legs)
      /\ \A j \in DOMAIN m.legs : m.legs[j].order \in book /\ EntryKnown(m.legs[j].order)
  BY <1>1, RivalMatches
<1>4. m = MatchOrder(book, form.side, form.amount, form.limit, Rival, clock)
  BY <1>1 DEF RivalMatch
<1>5. IsFiniteSet(book) /\ \A o \in book : OfferNumbers(o)
  BY <1>3 DEF BookOK, EntryOK
<1>6. m \in Matches(book, form.amount)
  BY <1>3, <1>4, <1>5, MatchTakesLegs
<1>7. /\ EachOnce(m, form.amount, Rival)
      /\ \A j \in DOMAIN m.legs : m.legs[j].order \in Matchable(book, form.side, form.limit, clock)
  BY <1>3, <1>4, <1>5, MatchesOnce
<1>8. m.left \in 0..form.amount /\ m.legs \in Seq(Legs(book))
  BY <1>6 DEF Matches
<1>9. leg \in Legs(book)
  BY <1>2, <1>8
<1>10. /\ leg.base \in Nat /\ leg.base <= e.remaining /\ leg.price = e.price
       /\ leg.quote = QuoteFor(leg.base, e.price)
  BY <1>2, <1>9 DEF Legs
<1>11. e \in Matchable(book, form.side, form.limit, clock)
  BY <1>2, <1>7
<1>12. /\ e \in book /\ IsLive(e) /\ e.funded /\ ~IsReserved(e, clock) /\ e.side = Opposite(form.side)
       /\ IF form.side = "buy" THEN e.price <= form.limit ELSE e.price >= form.limit
  BY <1>3, <1>11 DEF Matchable
<1>13. EntryOK(e) /\ Within(e, Capacity({})) /\ \A d \in book : d.eip = e.eip => d = e
  BY <1>1, <1>12, BookIsOffered
<1>14. e.price <= MaxPrice
  BY <1>2, <1>3, PricesOfBook
<1>15. leg.quote > 0 /\ e.maker # Rival /\ leg.base <= form.amount - m.left
  BY <1>2, <1>7 DEF EachOnce
<1>16. leg.base > 0
  <2>1. e.price \in Nat
    BY <1>13 DEF EntryOK, OfferNumbers
  <2>2. leg.base # 0
    BY <1>10, <1>15, <2>1, NothingForNothing
  <2>3. QED
    BY <1>10, <2>2
<1>17. LegOK(leg)
  BY <1>2, <1>3 DEF LegsOK
<1>18. Filled(m, form.amount) <= form.amount /\ leg.base <= Filled(m, form.amount)
  BY <1>3, <1>8, <1>15 DEF Filled
<1>19. LegsOf(m) # NoLegs /\ e.eip \in DOMAIN LegsOf(m) /\ LegsOf(m)[e.eip] = leg.base
  <2>1. PICK eips : eips = {m.legs[j].order.eip : j \in DOMAIN m.legs}
    OBVIOUS
  <2>2. LegsOf(m) = [k \in eips |-> (CHOOSE l \in ToSet(m.legs) : l.order.eip = k).base]
    BY <2>1 DEF LegsOf
  <2>3. e.eip \in eips
    BY <1>2, <2>1
  <2>4. leg \in ToSet(m.legs) /\ \A l \in ToSet(m.legs) : \E j \in DOMAIN m.legs : l = m.legs[j]
    BY <1>2 DEF ToSet
  <2>5. ASSUME NEW l \in ToSet(m.legs), l.order.eip = e.eip
        PROVE  l = leg
    <3>1. PICK j \in DOMAIN m.legs : l = m.legs[j]
      BY <2>4
    <3>2. l.order = e
      BY <1>3, <1>13, <2>5, <3>1
    <3>3. i = j
      BY <1>2, <1>7, <3>1, <3>2 DEF EachOnce
    <3>4. QED
      BY <1>2, <3>1, <3>3
  <2>6. (CHOOSE l \in ToSet(m.legs) : l.order.eip = e.eip) = leg
    BY <1>2, <2>4, <2>5
  <2>7. DOMAIN LegsOf(m) = eips /\ LegsOf(m)[e.eip] = leg.base
    BY <2>2, <2>3, <2>6
  <2>8. DOMAIN NoLegs = {}
    BY DEF NoLegs
  <2>9. QED
    BY <2>3, <2>7, <2>8
<1>20. QED
  BY <1>1, <1>2, <1>8, <1>10, <1>12, <1>13, <1>14, <1>15, <1>16, <1>17, <1>18, <1>19 DEF LegTaken

-----------------------------------------------------------------------------
(***************************************************************************)
(* The calls that settle the new fills, and what settled before.           *)
(***************************************************************************)
\* The call that settles a new fill is of the leg it was made for, of the
\* listed order the leg names and of what was just signed.
CallOf(call, f, form, leg, x, a, o) ==
  /\ call.fill = f /\ call.maker = x /\ call.taker = o
  /\ call.makerAuth = leg.order.auth /\ call.takerAuth = a
  /\ call.key = FillKeyOf(f, x, o)
  /\ f.base = leg.base /\ f.price = leg.price /\ f.quote = QuoteFor(leg.base, leg.price)
  /\ f.fee = LegFee(form.side, leg)

LEMMA CallParts ==
  ASSUME NEW objs, Unique(objs), NEW f \in Of(objs, "fill"), NEW call \in SettleCalls(objs, f.hash)
  PROVE  /\ call.fill = f /\ call.taker \in Of(objs, "order") /\ call.taker.hash = f.takerOrder
         /\ call.key = FillKeyOf(f, call.maker, call.taker)
<1>1. PICK g \in Lookup(objs, "fill", f.hash) :
        \E m \in Lookup(objs, "order", g.makerOrder), t \in Lookup(objs, "order", g.takerOrder),
           ma \in Lookup(objs, "authorization", g.makerAuth), ta \in Lookup(objs, "authorization", g.takerAuth) :
          call = [fill |-> g, maker |-> m, taker |-> t, makerAuth |-> ma, takerAuth |-> ta,
                  key |-> FillKeyOf(g, m, t)]
  BY DEF SettleCalls
<1>2. g = f
  BY <1>1 DEF Lookup, Of, Unique
<1>3. QED
  BY <1>1, <1>2 DEF Lookup

LEMMA RivalCalls ==
  ASSUME AppInv, WorldInv, FitInv, TermsInv, Unique(Published'),
         NEW n \in Nodes, NEW form \in left.theirs, RivalPlaces(n, form),
         NEW m, m = RivalMatch(n, form), NEW s, s = TermsOf(form, m),
         NEW a, a = SignedBy(Rival, next, s, clock).auth,
         NEW o, o = SignedBy(Rival, next, s, clock).order,
         NEW f \in Of(stored'[n], "fill") \ stored[n], NEW call \in SettleCalls(stored'[n], f.hash)
  PROVE  \E i \in DOMAIN m.legs : \E x \in Of(stored[n], "order") :
           /\ Offered(m.legs[i].order, x) /\ LegTaken(form, m, m.legs[i])
           /\ m.legs[i].order.auth \in Of(stored[n], "authorization")
           /\ CallOf(call, f, form, m.legs[i], x, a, o)
<1>1. PICK fills : fills = RivalFills(form, m, o)
  OBVIOUS
<1>2. stored'[n] = stored[n] \cup ({a, o} \cup fills)
  <2>1. AtEveryNode({a, o} \cup fills)
    BY <1>1, RivalActs
  <2>2. QED
    BY <2>1 DEF AtEveryNode
<1>3. /\ a.type = "authorization" /\ a.hash = next /\ o.type = "order" /\ o.hash = next + 1
      /\ o.authHash = next
  <2>1. s.side \in {"buy", "sell"}
    BY RivalMatches DEF TermsOf
  <2>2. QED
    BY <2>1, SignedWhole
<1>4. f \in fills
  BY <1>2, <1>3 DEF Of
<1>5. PICK i \in DOMAIN m.legs :
        f = BuildFill(next + 1 + i, m.legs[i], o, LegFee(form.side, m.legs[i]), clock)
  BY <1>1, <1>4 DEF RivalFills
<1>6. PICK leg, e : leg = m.legs[i] /\ e = leg.order
  OBVIOUS
<1>7. /\ f.makerOrder = e.hash /\ f.takerOrder = o.hash /\ f.makerAuth = e.auth.hash
      /\ f.takerAuth = o.authHash /\ f.price = leg.price /\ f.base = leg.base
      /\ f.quote = QuoteFor(leg.base, leg.price) /\ f.fee = LegFee(form.side, leg)
  BY <1>5, <1>6 DEF BuildFill
<1>8. e \in RivalBook(n) /\ LegTaken(form, m, leg)
  BY <1>6, RivalLegs
<1>9. PICK x \in Of(stored[n], "order") : Offered(e, x)
  BY <1>8, BookIsOffered
<1>10. e.auth \in Of(stored[n], "authorization")
  BY <1>8, BookIsOffered
<1>11. PICK objs : objs = stored'[n]
  OBVIOUS
<1>12. Unique(objs) /\ f \in Of(objs, "fill") /\ call \in SettleCalls(objs, f.hash)
  BY <1>11 DEF Unique, Published
<1>13. /\ call.maker \in Of(objs, "order") /\ call.maker.hash = f.makerOrder
       /\ call.makerAuth \in Of(objs, "authorization") /\ call.makerAuth.hash = f.makerAuth
       /\ call.takerAuth \in Of(objs, "authorization") /\ call.takerAuth.hash = f.takerAuth
  BY <1>12, CallNames
<1>14. /\ call.fill = f /\ call.taker \in Of(objs, "order") /\ call.taker.hash = f.takerOrder
       /\ call.key = FillKeyOf(f, call.maker, call.taker)
  BY <1>12, CallParts
<1>15. {x, o, e.auth, a} \subseteq objs
  BY <1>2, <1>9, <1>10, <1>11 DEF Of
<1>16. x.hash = e.hash
  BY <1>9 DEF Offered
<1>17. call.maker = x /\ call.taker = o /\ call.makerAuth = e.auth /\ call.takerAuth = a
  BY <1>3, <1>7, <1>12, <1>13, <1>14, <1>15, <1>16 DEF Unique, Of
<1>18. CallOf(call, f, form, leg, x, a, o)
  BY <1>6, <1>7, <1>14, <1>17 DEF CallOf
<1>19. QED
  BY <1>6, <1>8, <1>9, <1>10, <1>18

-----------------------------------------------------------------------------
\* No trade names what is yet to be signed.
LEMMA NewAreUntraded ==
  ASSUME AppInv, TermsInv
  PROVE  /\ Involving(next + 1) = {} /\ SoldUnder(next) = {} /\ BoughtUnder(next) = {}
         /\ next \notin revokedAuth
         /\ \A key \in UsedKeys : key.taker # next + 1
<1>1. next \in Nat
  BY DEF AppInv
<1>2. ASSUME NEW t \in trades
      PROVE  /\ next + 1 \notin {t.key.maker, t.key.taker} /\ t.sellAuth # next /\ t.buyAuth # next
  <2>1. PICK b \in Of(Published, "order"), s \in Of(Published, "order") : TradeOf(t, b, s)
    BY DEF TermsInv, TradeKnown
  <2>2. b \in SignedOrders /\ s \in SignedOrders
    BY DEF SignedOrders
  <2>3. b.eip \in Nat /\ b.eip < next /\ s.eip \in Nat /\ s.eip < next
    BY <2>2 DEF AppInv, OrdersAuthentic
  <2>4. b.sessionAuth \in 0..(next - 1) /\ s.sessionAuth \in 0..(next - 1)
    BY <2>2 DEF TermsInv, OwnAuths
  <2>5. {b.eip, s.eip} = {t.key.maker, t.key.taker} /\ t.buyAuth = b.sessionAuth /\ t.sellAuth = s.sessionAuth
    BY <2>1 DEF TradeOf
  <2>6. next + 1 \notin {b.eip, s.eip}
    BY <1>1, <2>3
  <2>7. QED
    BY <1>1, <2>4, <2>5, <2>6
<1>3. Involving(next + 1) = {} /\ SoldUnder(next) = {} /\ BoughtUnder(next) = {}
  BY <1>2 DEF Involving, SoldUnder, BoughtUnder
<1>4. next \notin revokedAuth
  BY <1>1 DEF TermsInv
<1>5. \A key \in UsedKeys : key.taker # next + 1
  BY <1>2 DEF UsedKeys
<1>6. QED
  BY <1>3, <1>4, <1>5

\* What settled under an order's authorization settled of that order.
LEMMA TradesAreOwn ==
  ASSUME AppInv, TermsInv, NEW x \in Of(Published, "order")
  PROVE  /\ SoldUnder(x.sessionAuth) \subseteq Involving(x.eip)
         /\ BoughtUnder(x.sessionAuth) \subseteq Involving(x.eip)
         /\ \A t \in BoughtUnder(x.sessionAuth) :
              /\ t.key.price \in Nat /\ t.quote = QuoteFor(t.base, t.key.price) /\ t.key.price <= x.price
              /\ t.quote \in Nat /\ t.fee \in Nat
<1>1. x \in SignedOrders
  BY DEF SignedOrders
<1>2. ASSUME NEW t \in trades
      PROVE  /\ t.sellAuth = x.sessionAuth => t \in Involving(x.eip)
             /\ t.buyAuth = x.sessionAuth =>
                  /\ t \in Involving(x.eip) /\ t.key.price <= x.price
                  /\ t.quote = QuoteFor(t.base, t.key.price)
             /\ t.key.price \in Nat /\ t.quote \in Nat /\ t.fee \in Nat
  <2>1. TradeKnown(t)
    BY DEF TermsInv
  <2>2. PICK b \in Of(Published, "order"), s \in Of(Published, "order") : TradeOf(t, b, s)
    BY <2>1 DEF TradeKnown
  <2>3. b \in SignedOrders /\ s \in SignedOrders
    BY DEF SignedOrders
  <2>4. /\ b.sessionAuth = x.sessionAuth => b.eip = x.eip
        /\ s.sessionAuth = x.sessionAuth => s.eip = x.eip
    BY <1>1, <2>3 DEF TermsInv, OwnAuths
  <2>5. b.eip = x.eip => b.price = x.price
    BY <1>1, <2>3 DEF AppInv, OrdersAuthentic, SameTerms, OrderTerms
  <2>6. /\ {b.eip, s.eip} = {t.key.maker, t.key.taker} /\ t.buyAuth = b.sessionAuth
        /\ t.sellAuth = s.sessionAuth /\ t.key.price <= b.price
        /\ t.quote = QuoteFor(t.base, t.key.price)
    BY <2>2 DEF TradeOf
  <2>7. QED
    BY <2>1, <2>4, <2>5, <2>6 DEF Involving, TradeKnown
<1>3. QED
  BY <1>2 DEF SoldUnder, BoughtUnder

-----------------------------------------------------------------------------
(***************************************************************************)
(* The maker's side of such a call.                                        *)
(***************************************************************************)
\* A buy on the book can spend what a leg takes of it, and its share of the fee.
LEMMA MakerSpends ==
  ASSUME AppInv, TradesOK, TermsInv, NEW x \in Of(Published, "order"),
         NEW au \in Of(Published, "authorization"), x.side = "buy", au.eip = x.sessionAuth,
         {x.base, x.price, au.maxQuote, au.maxFee} \subseteq Nat,
         NEW base \in Nat, base <= x.base - FilledOnChain(x.eip),
         NEW quote, quote = QuoteFor(base, x.price), quote > 0,
         NEW fee \in Nat, fee * au.maxQuote <= au.maxFee * quote
  PROVE  SpendingFits(au, quote, fee)
<1>1. PICK S : S = BoughtUnder(au.eip)
  OBVIOUS
<1>2. PICK price \in Nat, all \in Nat, cap \in Nat, size \in Nat :
        price = x.price /\ all = au.maxQuote /\ cap = au.maxFee /\ size = x.base
  OBVIOUS
<1>3. /\ S \subseteq Involving(x.eip)
      /\ \A t \in S : /\ t.key.price \in Nat /\ t.quote = QuoteFor(t.base, t.key.price)
                      /\ t.key.price <= price /\ t.quote \in Nat /\ t.fee \in Nat
  BY <1>1, <1>2, TradesAreOwn
<1>4. IsFiniteSet(Involving(x.eip)) /\ \A t \in Involving(x.eip) : t.base \in Nat
  BY FS_Subset DEF TradesOK, Involving
<1>5. IsFiniteSet(S) /\ \A t \in S : t.base \in Nat
  BY <1>3, <1>4, FS_Subset
<1>6. PICK q, b, p : q = [t \in S |-> t.quote] /\ b = [t \in S |-> t.base] /\ p = [t \in S |-> t.fee]
  OBVIOUS
<1>7. \A t \in S : q[t] \in Nat /\ b[t] \in Nat /\ p[t] \in Nat
  BY <1>3, <1>5, <1>6
<1>8. ASSUME NEW t \in S
      PROVE  Scale * q[t] <= price * b[t]
  <2>1. PICK at \in Nat : at = t.key.price /\ at <= price
    BY <1>3
  <2>2. PICK n \in Nat : n = t.base
    BY <1>5
  <2>3. Scale * QuoteFor(n, at) <= price * n
    BY <2>1, LegWithinPrice
  <2>4. QED
    BY <1>3, <1>6, <2>1, <2>2, <2>3
<1>9. ASSUME NEW t \in S
      PROVE  all * p[t] <= cap * q[t]
  <2>1. t \in trades /\ t.buyAuth = au.eip
    BY <1>1 DEF BoughtUnder
  <2>2. FeeShared(t, SignedAuths) /\ au \in SignedAuths
    BY <2>1 DEF TermsInv, SignedAuths
  <2>3. t.fee * au.maxQuote <= au.maxFee * t.quote
    BY <2>1, <2>2 DEF FeeShared
  <2>4. PICK k \in Nat : k = t.fee
    BY <1>3
  <2>5. k * all = all * k
    OBVIOUS
  <2>6. QED
    BY <1>2, <1>6, <2>3, <2>4, <2>5
<1>10. Scale \in Nat
  BY MarketAssumption
<1>11. PICK Q, B, P : /\ Q = SumFunctionOnSet(q, S) /\ B = SumFunctionOnSet(b, S)
                      /\ P = SumFunctionOnSet(p, S)
  OBVIOUS
<1>12. Q \in Nat /\ B \in Nat /\ Scale * Q <= price * B
  BY <1>5, <1>7, <1>8, <1>10, <1>11, SumsInRatio
<1>13. P \in Nat /\ all * P <= cap * Q
  BY <1>5, <1>7, <1>9, <1>11, SumsInRatio
<1>14. base + B <= size
  <2>1. B = SumBase(S)
    BY <1>5, <1>6, <1>11, SumBaseBy
  <2>2. SumBase(S) <= FilledOnChain(x.eip) /\ FilledOnChain(x.eip) \in Nat
    BY <1>3, <1>4, SumBaseOfPart DEF FilledOnChain
  <2>3. QED
    BY <1>2, <1>12, <2>1, <2>2
<1>15. quote \in Nat /\ Scale * quote <= price * base
  BY <1>2, LegWithinPrice
<1>16. quote + Q <= all
  <2>1. Scale * (quote + Q) <= price * (base + B)
    <3>1. Scale * (quote + Q) = Scale * quote + Scale * Q /\ price * (base + B) = price * base + price * B
      BY <1>10, <1>12, <1>15
    <3>2. /\ Scale * quote \in Nat /\ Scale * Q \in Nat /\ price * base \in Nat /\ price * B \in Nat
      BY <1>10, <1>12, <1>15
    <3>3. QED
      BY <1>12, <1>15, <3>1, <3>2
  <2>2. quote + Q \in Nat /\ base + B \in Nat
    BY <1>12, <1>15
  <2>3. quote + Q <= QuoteFor(size, price)
    BY <1>14, <2>1, <2>2, QuotesFit
  <2>4. x \in SignedOrders /\ au \in SignedAuths
    BY DEF SignedOrders, SignedAuths
  <2>5. Allows(au, x)
    BY <2>4 DEF TermsInv, OwnAuths
  <2>6. QuoteFor(size, price) <= all
    BY <1>2, <2>5 DEF Allows
  <2>7. QuoteFor(size, price) \in Nat
    BY QuoteNat
  <2>8. QED
    BY <2>2, <2>3, <2>6, <2>7
<1>17. all > 0
  BY <1>12, <1>15, <1>16
<1>18. all * fee <= cap * quote
  <2>1. fee * all = all * fee
    OBVIOUS
  <2>2. QED
    BY <1>2, <2>1
<1>19. fee + P <= cap
  <2>1. all * (fee + P) = all * fee + all * P /\ cap * (quote + Q) = cap * quote + cap * Q
    BY <1>12, <1>13, <1>15
  <2>2. /\ all * fee \in Nat /\ all * P \in Nat /\ cap * quote \in Nat /\ cap * Q \in Nat
    BY <1>12, <1>13, <1>15
  <2>3. all * (fee + P) <= cap * (quote + Q)
    BY <1>13, <1>18, <2>1, <2>2
  <2>4. PICK n \in Nat, k \in Nat : n = quote + Q /\ k = fee + P
    BY <1>12, <1>13, <1>15
  <2>5. cap * n <= cap * all
    BY <1>16, <2>4, TimesKeepsOrder
  <2>6. all * k = k * all
    OBVIOUS
  <2>7. all * k \in Nat /\ cap * n \in Nat /\ cap * all \in Nat
    OBVIOUS
  <2>8. k * all <= cap * all
    BY <2>3, <2>4, <2>5, <2>6, <2>7
  <2>9. k <= cap
    BY <1>17, <2>8, TimesCancels
  <2>10. QED
    BY <2>4, <2>9
<1>20. fee <= (cap * quote) \div all
  <2>1. PICK n \in Nat : n = cap * quote
    BY <1>15
  <2>2. fee * all <= n
    BY <1>2, <2>1
  <2>5. all \in Nat \ {0}
    BY <1>17
  <2>3. fee <= n \div all
    BY <2>2, <2>5, QuotientIsLargest
  <2>4. QED
    BY <2>1, <2>3
<1>21. SumFunction([t \in S |-> t.quote]) = Q /\ SumFunction([t \in S |-> t.fee]) = P
  BY <1>6, <1>11 DEF SumFunction
<1>22. QED
  BY <1>1, <1>2, <1>16, <1>17, <1>19, <1>20, <1>21 DEF SpendingFits

\* A sell on the book can deliver what a leg takes of it.
LEMMA MakerDelivers ==
  ASSUME AppInv, TradesOK, TermsInv, NEW x \in Of(Published, "order"),
         NEW au \in Of(Published, "authorization"), x.side = "sell", au.eip = x.sessionAuth,
         x.base \in Nat, au.maxBase \in Nat, NEW base \in Nat, base <= x.base - FilledOnChain(x.eip)
  PROVE  base + SumBase(SoldUnder(au.eip)) <= au.maxBase
<1>1. SoldUnder(au.eip) \subseteq Involving(x.eip)
  BY TradesAreOwn
<1>2. IsFiniteSet(Involving(x.eip)) /\ \A t \in Involving(x.eip) : t.base \in Nat
  BY FS_Subset DEF TradesOK, Involving
<1>3. /\ SumBase(SoldUnder(au.eip)) <= FilledOnChain(x.eip) /\ SumBase(SoldUnder(au.eip)) \in Nat
      /\ FilledOnChain(x.eip) \in Nat
  BY <1>1, <1>2, SumBaseOfPart DEF FilledOnChain
<1>4. x \in SignedOrders /\ au \in SignedAuths
  BY DEF SignedOrders, SignedAuths
<1>5. Allows(au, x)
  BY <1>4 DEF TermsInv, OwnAuths
<1>6. x.base <= au.maxBase
  BY <1>5 DEF Allows
<1>7. QED
  BY <1>3, <1>6

-----------------------------------------------------------------------------
(***************************************************************************)
(* The taker's side.                                                       *)
(***************************************************************************)
\* What the other trader signs for a form.
LEMMA RivalSigns ==
  ASSUME NEW form, form.side \in {"buy", "sell"}, NEW m, NEW s, s = TermsOf(form, m),
         NEW a, a = SignedBy(Rival, next, s, clock).auth,
         NEW o, o = SignedBy(Rival, next, s, clock).order
  PROVE  /\ a.hash = next /\ a.eip = next /\ a.signer = Rival /\ a.grantor = Rival /\ a.side = form.side
         /\ a.validBefore = clock + LimitTtl
         /\ form.side = "sell" => a.maxBase = form.amount /\ a.minPrice = form.limit /\ a.maxPrice = MaxPrice
         /\ form.side = "buy" => /\ a.maxQuote = QuoteFor(form.amount, form.limit)
                                 /\ a.maxFee = MaxFeeForOrder(a.maxQuote)
                                 /\ a.minPrice = 0 /\ a.maxPrice = form.limit
         /\ o.eip = next + 1 /\ o.signer = Rival /\ o.trader = Rival /\ o.side = form.side
         /\ o.price = form.limit /\ o.base = form.amount /\ o.sessionAuth = next
         /\ o.validBefore = clock + LimitTtl /\ (o.native => o.side = "buy")
         /\ o.counterSetHash = o.counterSet
         /\ LegsOf(m) # NoLegs /\ Filled(m, form.amount) > 0 =>
              /\ o.counterSet = LegsOf(m) /\ o.exclusiveBase = Filled(m, form.amount)
              /\ o.exclusiveUntil = clock + ExclusiveWindow
<1>1. /\ s.side = form.side /\ s.price = form.limit /\ s.base = form.amount /\ s.m = m
      /\ s.filled = Filled(m, form.amount) /\ s.market = FALSE /\ s.maxFee = RivalFee(form)
  BY DEF TermsOf
<1>2. form.side = "buy" => RivalFee(form) = MaxFeeForOrder(QuoteFor(form.amount, form.limit))
  BY DEF RivalFee
<1>3. s.side \in {"buy", "sell"}
  BY <1>1
<1>4. /\ a.hash = next /\ a.eip = next /\ a.signer = Rival /\ a.grantor = Rival /\ a.side = s.side
      /\ a.validBefore = clock + (IF s.market THEN MarketTtl ELSE LimitTtl)
      /\ s.side = "sell" => a.maxBase = s.base /\ a.minPrice = s.price /\ a.maxPrice = MaxPrice
      /\ s.side = "buy" => /\ a.maxQuote = QuoteFor(s.base, s.price) /\ a.maxFee = s.maxFee
                           /\ a.minPrice = 0 /\ a.maxPrice = s.price
      /\ o.eip = next + 1 /\ o.signer = Rival /\ o.trader = Rival /\ o.side = s.side
      /\ o.price = s.price /\ o.base = s.base /\ o.sessionAuth = next
      /\ o.validBefore = a.validBefore /\ (o.native => o.side = "buy")
      /\ o.counterSetHash = o.counterSet
      /\ IF LegsOf(s.m) # NoLegs /\ s.filled > 0
         THEN /\ o.counterSet = LegsOf(s.m) /\ o.exclusiveBase = s.filled
              /\ o.exclusiveUntil = IF s.market THEN a.validBefore ELSE clock + ExclusiveWindow
         ELSE o.counterSet = NoLegs /\ o.exclusiveBase = 0
  BY <1>3, SignedWhole
<1>5. QED
  BY <1>1, <1>2, <1>4

\* A new order has all of what it names, of each order it names.
LEMMA TakerHasRoom ==
  ASSUME AppInv, TermsInv, clock \in Nat, NEW form, form.side \in {"buy", "sell"}, form.amount \in Nat,
         NEW m, NEW s, s = TermsOf(form, m), NEW o, o = SignedBy(Rival, next, s, clock).order,
         NEW x, LegsOf(m) # NoLegs, Filled(m, form.amount) > 0, x.eip \in DOMAIN LegsOf(m),
         NEW base \in Nat, LegsOf(m)[x.eip] = base
  PROVE  /\ BindingAccepts(o, x, x.price) /\ BindingRoom(o, x) = base
         /\ o.base - FilledOnChain(o.eip) = form.amount
<1>1. /\ o.eip = next + 1 /\ o.base = form.amount /\ o.counterSetHash = o.counterSet
      /\ o.counterSet = LegsOf(m) /\ o.exclusiveUntil = clock + ExclusiveWindow
  BY RivalSigns
<1>2. LegActive(o, x)
  <2>1. clock < clock + ExclusiveWindow
    BY AppAssumption
  <2>2. QED
    BY <1>1, <2>1 DEF LegActive, InWindow
<1>3. Involving(o.eip) = {}
  BY <1>1, NewAreUntraded
<1>4. FilledOnChain(o.eip) = 0
  BY <1>3, SumOfNone DEF FilledOnChain
<1>5. FilledWith(o.eip, x.eip) = 0
  <2>1. {t \in Involving(o.eip) : o.eip \in t.recorded /\ x.eip \in {t.key.maker, t.key.taker}} = {}
    BY <1>3
  <2>2. QED
    BY <2>1, SumOfNone DEF FilledWith
<1>6. o.counterSetHash # NoLegs
  BY <1>1
<1>7. BindingRoom(o, x) = o.counterSet[x.eip] - FilledWith(o.eip, x.eip)
  BY <1>2, <1>6 DEF BindingRoom
<1>8. BindingAccepts(o, x, x.price)
  BY <1>2 DEF BindingAccepts
<1>9. QED
  BY <1>1, <1>4, <1>5, <1>7, <1>8

LEMMA TakerStands ==
  ASSUME AppInv, TermsInv, clock \in Nat, NEW form, form.side \in {"buy", "sell"},
         NEW m, NEW s, s = TermsOf(form, m),
         NEW a, a = SignedBy(Rival, next, s, clock).auth,
         NEW o, o = SignedBy(Rival, next, s, clock).order,
         NEW price \in Nat, price <= MaxPrice,
         IF form.side = "buy" THEN price <= form.limit ELSE price >= form.limit,
         form.limit \in Nat
  PROVE  Stands(o, a, price)
<1>1. /\ a.eip = next /\ a.signer = Rival /\ a.grantor = Rival /\ a.side = form.side
      /\ a.validBefore = clock + LimitTtl
      /\ form.side = "sell" => a.minPrice = form.limit /\ a.maxPrice = MaxPrice
      /\ form.side = "buy" => a.minPrice = 0 /\ a.maxPrice = form.limit
      /\ o.signer = Rival /\ o.trader = Rival /\ o.side = form.side
      /\ o.sessionAuth = next /\ o.validBefore = clock + LimitTtl /\ (o.native => o.side = "buy")
  BY RivalSigns
<1>2. clock <= clock + LimitTtl
  BY AppAssumption
<1>3. next \notin revokedAuth
  BY NewAreUntraded
<1>4. a.minPrice <= price /\ price <= a.maxPrice
  BY <1>1
<1>5. QED
  BY <1>1, <1>2, <1>3, <1>4 DEF Stands, VerifySigned

\* A new buy can spend what a leg asks, and the fee for it, and its trader
\* approved as much.
LEMMA TakerSpends ==
  ASSUME AppInv, TermsInv, NEW form, form.side = "buy", form.amount \in Nat, form.limit \in Nat,
         NEW m, NEW s, s = TermsOf(form, m), NEW a, a = SignedBy(Rival, next, s, clock).auth,
         NEW price \in Nat, price <= form.limit, NEW base \in Nat, base <= form.amount,
         NEW quote, quote = QuoteFor(base, price), quote > 0
  PROVE  /\ SpendingFits(a, quote, FeeForQuote(quote))
         /\ quote + FeeForQuote(quote) <= RivalNeed(form) /\ RivalNeed(form) \in Nat
<1>1. PICK all \in Nat : all = QuoteFor(form.amount, form.limit)
  BY QuoteNat
<1>2. PICK cap \in Nat : cap = MaxFeeForOrder(all) /\ FeeNum * all <= FeeDen * cap
  BY CapCoversRate
<1>3. a.eip = next /\ a.maxQuote = all /\ a.maxFee = cap
  BY <1>1, <1>2, RivalSigns
<1>4. quote \in Nat /\ Scale * quote <= form.limit * base
  BY LegWithinPrice
<1>5. quote <= all
  BY <1>1, <1>4, QuotesFit
<1>6. PICK fee \in Nat : fee = FeeForQuote(quote) /\ FeeDen * fee <= FeeNum * quote
  BY <1>4, FeeWithinRate
<1>7. fee <= cap
  BY <1>2, <1>4, <1>5, <1>6, FeesFit
<1>8. fee * all <= cap * quote
  BY <1>2, <1>4, <1>6, RateFits
<1>9. fee <= (cap * quote) \div all
  <2>1. PICK n \in Nat : n = cap * quote
    BY <1>4
  <2>2. all \in Nat \ {0}
    BY <1>4, <1>5
  <2>3. fee * all <= n
    BY <1>8, <2>1
  <2>4. fee <= n \div all
    BY <2>2, <2>3, QuotientIsLargest
  <2>5. QED
    BY <2>1, <2>4
<1>10. PICK S : S = BoughtUnder(a.eip)
  OBVIOUS
<1>11. S = {}
  BY <1>3, <1>10, NewAreUntraded
<1>12. SumFunction([t \in S |-> t.quote]) = 0 /\ SumFunction([t \in S |-> t.fee]) = 0
  BY <1>11, SumOfNone DEF SumQuote, SumFee
<1>13. SpendingFits(a, quote, fee)
  BY <1>3, <1>4, <1>5, <1>7, <1>9, <1>10, <1>12 DEF SpendingFits
<1>14. RivalNeed(form) = all + cap
  BY <1>1, <1>2 DEF RivalNeed, RivalFee
<1>15. QED
  BY <1>4, <1>5, <1>6, <1>7, <1>13, <1>14

LEMMA TakerDelivers ==
  ASSUME AppInv, TermsInv, NEW form, form.side = "sell", form.amount \in Nat,
         NEW m, NEW s, s = TermsOf(form, m), NEW a, a = SignedBy(Rival, next, s, clock).auth,
         NEW base \in Nat, base <= form.amount
  PROVE  base + SumBase(SoldUnder(a.eip)) <= a.maxBase /\ base <= RivalNeed(form)
<1>1. a.eip = next /\ a.maxBase = form.amount
  BY RivalSigns
<1>2. SumBase(SoldUnder(a.eip)) = 0
  BY <1>1, NewAreUntraded, SumOfNone
<1>3. RivalNeed(form) = form.amount
  BY DEF RivalNeed
<1>4. QED
  BY <1>1, <1>2, <1>3

-----------------------------------------------------------------------------
(***************************************************************************)
(* What both can pay, and what fits.                                       *)
(***************************************************************************)
\* Who has the capacity can pay.
LEMMA CapacityPays ==
  ASSUME MoneyOK, NEW w, NEW token \in {"base", "quote"}, NEW n \in Nat,
         n <= Get(Capacity({}), <<w, token>>, 0), n > 0 \/ w \in Traders
  PROVE  n <= Min({bal[w][token], allow[w][token]})
<1>1. PICK k : k = <<w, token>>
  OBVIOUS
<1>2. w \in Traders
  <2>1. CASE w \notin Traders
    <3>1. k \notin DOMAIN Capacity({})
      BY <1>1, <2>1, CapacityHolds
    <3>2. QED
      BY <1>1, <2>1, <3>1 DEF Get
  <2>2. QED
    BY <2>1
<1>3. k \in DOMAIN Capacity({})
  BY <1>1, <1>2, CapacityHolds
<1>4. Capacity({})[k] = Min({bal[w][token], allow[w][token]})
  BY <1>1, <1>2 DEF Capacity
<1>5. QED
  BY <1>1, <1>3, <1>4 DEF Get

\* The fee of a leg of a buy on the book is within what that buy set aside.
LEMMA LegFeeWithinBudget ==
  ASSUME NEW leg, LegOK(leg)
  PROVE  LegFee("sell", leg) \in Nat /\ LegFee("sell", leg) <= leg.order.feeBudgetLeft
<1>1. PICK a : a = leg.order.auth
  OBVIOUS
<1>2. PICK rata : rata = IF a.maxQuote > 0 THEN (a.maxFee * leg.quote) \div a.maxQuote ELSE 0
  OBVIOUS
<1>3. /\ a.maxQuote \in Nat /\ a.maxFee \in Nat /\ leg.quote \in Nat /\ leg.order.feeBudgetLeft \in Nat
  BY <1>1 DEF LegOK
<1>4. rata \in Nat
  <2>1. PICK n \in Nat : n = a.maxFee * leg.quote
    BY <1>3
  <2>2. a.maxQuote > 0 => n \div a.maxQuote \in Nat
    BY <1>3
  <2>3. QED
    BY <1>2, <2>1, <2>2
<1>5. PICK f \in Nat : f = FeeForQuote(leg.quote)
  BY <1>3, FeesAreNat
<1>6. PICK budget \in Nat : budget = leg.order.feeBudgetLeft
  BY <1>3
<1>7. PICK S : S = {f, rata, budget}
  OBVIOUS
<1>8. IsFiniteSet(S) /\ S # {} /\ S \subseteq Int
  <2>1. IsFiniteSet({f} \cup ({rata} \cup {budget}))
    BY FS_Singleton, FS_Union
  <2>2. S = {f} \cup ({rata} \cup {budget})
    BY <1>7
  <2>3. QED
    BY <1>4, <1>7, <2>1, <2>2
<1>9. Min(S) \in S /\ Min(S) <= budget
  BY <1>7, <1>8, MinOfSome
<1>10. LegFee("sell", leg) = Min(S)
  BY <1>1, <1>2, <1>5, <1>6, <1>7, Zenon DEF LegFee
<1>11. QED
  BY <1>4, <1>6, <1>7, <1>9, <1>10

\* The maker of a leg has what the leg takes.
LEMMA MakerPays ==
  ASSUME MoneyOK, NEW leg, LegOK(leg), EntryOK(leg.order), Within(leg.order, Capacity({})),
         leg.base > 0, leg.base <= leg.order.remaining, leg.quote > 0,
         leg.quote = QuoteFor(leg.base, leg.order.price), leg.order.side \in {"buy", "sell"}
  PROVE  /\ leg.order.side = "sell" =>
              leg.base <= Min({bal[leg.order.maker].base, allow[leg.order.maker].base})
         /\ leg.order.side = "buy" => leg.quote + LegFee("sell", leg)
              <= Min({bal[leg.order.maker].quote, allow[leg.order.maker].quote})
<1>1. PICK e : e = leg.order
  OBVIOUS
<1>2. e.remaining \in Nat /\ e.price \in Nat /\ e.feeBudgetLeft \in Nat
  BY <1>1 DEF EntryOK, OfferNumbers
<1>3. PICK base \in Nat, quote \in Nat : base = leg.base /\ quote = leg.quote
  BY DEF LegOK
<1>4. PICK cap \in Nat : cap = Get(Capacity({}), <<e.maker, PayToken(e.side)>>, 0)
  BY CapacityHolds DEF Get, CapacityOK
<1>5. NeedFor(e) <= cap
  BY <1>1, <1>4 DEF Within
<1>6. CASE e.side = "sell"
  <2>1. base <= cap /\ PayToken(e.side) = "base"
    BY <1>1, <1>2, <1>3, <1>5, <1>6 DEF NeedFor, PayToken
  <2>2. base <= Min({bal[e.maker]["base"], allow[e.maker]["base"]})
    BY <1>3, <1>4, <2>1, CapacityPays
  <2>3. QED
    BY <1>1, <1>3, <1>6, <2>2
<1>7. CASE e.side = "buy"
  <2>1. PICK fee \in Nat : fee = LegFee("sell", leg) /\ fee <= e.feeBudgetLeft
    BY <1>1, LegFeeWithinBudget
  <2>2. PICK all \in Nat : all = QuoteFor(e.remaining, e.price)
    BY <1>2, QuoteNat
  <2>3. Scale * quote <= e.price * base
    BY <1>1, <1>2, <1>3, LegWithinPrice
  <2>4. quote <= all
    BY <1>1, <1>2, <1>3, <2>2, <2>3, QuotesFit
  <2>5. NeedFor(e) = all + e.feeBudgetLeft /\ PayToken(e.side) = "quote"
    BY <1>7, <2>2 DEF NeedFor, PayToken
  <2>6. PICK n \in Nat : n = quote + fee /\ n <= cap /\ n > 0
    BY <1>2, <1>3, <1>5, <2>1, <2>4, <2>5
  <2>7. n <= Min({bal[e.maker]["quote"], allow[e.maker]["quote"]})
    BY <1>4, <2>5, <2>6, CapacityPays
  <2>8. QED
    BY <1>1, <1>3, <1>7, <2>1, <2>6, <2>7
<1>8. QED
  BY <1>1, <1>6, <1>7

\* What a fill names is what fits.
LEMMA AllFits ==
  ASSUME NEW call, NEW base \in Nat, base = call.fill.base,
         {BindingRoom(call.maker, call.taker), BindingRoom(call.taker, call.maker),
          call.maker.base - FilledOnChain(call.maker.eip),
          call.taker.base - FilledOnChain(call.taker.eip)} \subseteq Int,
         base <= BindingRoom(call.maker, call.taker), base <= BindingRoom(call.taker, call.maker),
         base <= call.maker.base - FilledOnChain(call.maker.eip),
         base <= call.taker.base - FilledOnChain(call.taker.eip)
  PROVE  FittingOf(call) = base
<1>1. PICK m, t : m = call.maker /\ t = call.taker
  OBVIOUS
<1>2. PICK b, c, d, e : /\ b = BindingRoom(m, t) /\ c = BindingRoom(t, m)
                        /\ d = m.base - FilledOnChain(m.eip) /\ e = t.base - FilledOnChain(t.eip)
  OBVIOUS
<1>3. b \in Int /\ c \in Int /\ d \in Int /\ e \in Int /\ base <= b /\ base <= c /\ base <= d /\ base <= e
  BY <1>1, <1>2
<1>4. PICK S : S = {base, b, c, d, e}
  OBVIOUS
<1>5. IsFiniteSet(S)
  <2>1. IsFiniteSet({base} \cup ({b} \cup ({c} \cup ({d} \cup {e}))))
    <3>1. IsFiniteSet({c} \cup ({d} \cup {e}))
      BY FS_Singleton, FS_Union
    <3>2. QED
      BY <3>1, FS_Singleton, FS_Union
  <2>2. S = {base} \cup ({b} \cup ({c} \cup ({d} \cup {e})))
    BY <1>4
  <2>3. QED
    BY <2>1, <2>2
<1>6. Min(S) = base
  <2>1. S # {} /\ S \subseteq Int
    BY <1>3, <1>4
  <2>2. Min(S) \in S /\ \A n \in S : Min(S) <= n
    BY <1>5, <2>1, MinOfSome
  <2>3. QED
    BY <1>3, <1>4, <2>2
<1>7. AtLeastZero(base) = base
  BY Clamped
<1>8. FittingOf(call) = AtLeastZero(Min(S))
  BY <1>1, <1>2, <1>4 DEF FittingOf
<1>9. QED
  BY <1>6, <1>7, <1>8

-----------------------------------------------------------------------------
(***************************************************************************)
(* The contract takes the call whole.                                      *)
(***************************************************************************)
LEMMA OfferedStands ==
  ASSUME NEW e, NEW x, Offered(e, x), IsLive(e), x.sessionAuth \notin revokedAuth
  PROVE  Stands(x, e.auth, x.price)
  BY DEF Offered, OrderUnder, IsLive, Stands, VerifySigned

\* What makes the contract take a call whole.
LEMMA TakesWhole ==
  ASSUME NEW call, NEW base, base = call.fill.base, FittingOf(call) = base,
         NEW price, price = call.fill.price, NEW quote, quote = QuoteFor(base, price), quote > 0,
         call.fill.quote = quote, NEW fee, fee = call.fill.fee, call.key \notin UsedKeys,
         Stands(call.maker, call.makerAuth, price), Stands(call.taker, call.takerAuth, price),
         {call.maker.side, call.taker.side} = {"buy", "sell"},
         NEW b, b = BuyOf(call), NEW s, s = SellOf(call), NEW ba, ba = BuyAuth(call),
         NEW sa, sa = SellAuth(call),
         s.price <= price, price <= b.price, b.trader # s.trader,
         BindingAccepts(call.maker, call.taker, price), BindingAccepts(call.taker, call.maker, price),
         base + SumBase(SoldUnder(sa.eip)) <= sa.maxBase, SpendingFits(ba, quote, fee),
         quote + fee <= Min({bal[b.trader].quote, allow[b.trader].quote}),
         base <= Min({bal[s.trader].base, allow[s.trader].base})
  PROVE  Accepts(call)
<1>1. FeeOf(call, base) = fee
  BY DEF FeeOf
<1>2. QED
  BY <1>1, Zenon DEF Accepts

\* A new fill is one the contract accepts whole.
LEMMA NewFillIsTaken ==
  ASSUME AppInv, WorldInv, FitInv, TermsInv, NEW n \in Nodes, NEW form \in left.theirs,
         RivalNeed(form) <= Capacity({})[<<Rival, PayToken(form.side)>>],
         NEW m, m = RivalMatch(n, form), m.left \in 0..form.amount, NEW s, s = TermsOf(form, m),
         NEW a, a = SignedBy(Rival, next, s, clock).auth,
         NEW o, o = SignedBy(Rival, next, s, clock).order,
         NEW leg, LegTaken(form, m, leg), NEW x \in Of(stored[n], "order"), Offered(leg.order, x),
         leg.order.auth \in Of(stored[n], "authorization"),
         NEW f, NEW call, CallOf(call, f, form, leg, x, a, o), x.sessionAuth \notin revokedAuth
  PROVE  Accepts(call) /\ FittingOf(call) = f.base
<1>1. PICK e, au : e = leg.order /\ au = leg.order.auth
  OBVIOUS
<1>2. /\ form.amount \in Nat /\ form.limit \in Nat /\ form.side \in {"buy", "sell"}
  BY RivalMatches
<1>3. /\ TradesOK /\ MoneyOK /\ clock \in Nat
      /\ x \in Of(Published, "order") /\ au \in Of(Published, "authorization")
      /\ x \in SignedOrders
  BY <1>1 DEF WorldInv, ClockOK, Published, Of, SignedOrders
<1>4. {au.maxBase, au.maxQuote, au.maxFee} \subseteq Nat
  BY <1>3 DEF WorldInv, ObjectsOK, ObjOK, WellFormed, Of
<1>5. PICK base \in Nat, price \in Nat, quote \in Nat :
        /\ base = leg.base /\ price = x.price /\ quote = QuoteFor(base, price)
        /\ leg.price = price /\ leg.quote = quote /\ base > 0 /\ quote > 0
        /\ base <= form.amount /\ base <= e.remaining /\ e.remaining \in Nat /\ price <= MaxPrice
        /\ Filled(m, form.amount) > 0
  <2>1. leg.base \in Nat /\ leg.quote \in Nat
    BY DEF LegTaken, LegOK
  <2>2. e.price = x.price /\ x.price \in Nat
    BY <1>1 DEF Offered
  <2>3. /\ leg.base > 0 /\ leg.quote > 0 /\ leg.base <= e.remaining /\ e.price <= MaxPrice
        /\ leg.price = e.price /\ leg.quote = QuoteFor(leg.base, leg.price)
        /\ leg.base <= Filled(m, form.amount) /\ Filled(m, form.amount) <= form.amount
    BY <1>1 DEF LegTaken
  <2>4. Filled(m, form.amount) \in Nat
    BY <1>2 DEF Filled
  <2>5. e.remaining \in Nat
    BY <1>1 DEF LegTaken, EntryOK, OfferNumbers
  <2>6. QED
    BY <1>2, <2>1, <2>2, <2>3, <2>4, <2>5
<1>6. /\ call.fill = f /\ call.maker = x /\ call.taker = o /\ call.makerAuth = au /\ call.takerAuth = a
      /\ f.base = base /\ f.price = price /\ f.quote = quote /\ f.fee = LegFee(form.side, leg)
      /\ call.key.taker = o.eip
  BY <1>1, <1>5 DEF CallOf, FillKeyOf
<1>7. /\ x.side = Opposite(form.side) /\ x.trader # Rival /\ x.base \in Nat
      /\ au.eip = x.sessionAuth /\ e.maker = x.trader /\ e.side = x.side /\ e.price = x.price
      /\ IF form.side = "buy" THEN price <= form.limit ELSE price >= form.limit
  BY <1>1, <1>5 DEF LegTaken, Offered, OrderUnder
<1>8. o.eip = next + 1 /\ o.price = form.limit /\ o.side = form.side /\ o.trader = Rival
  BY <1>2, RivalSigns
<1>9. /\ BindingAccepts(x, o, price) /\ BindingRoom(x, o) \in Int /\ base <= BindingRoom(x, o)
      /\ x.base - FilledOnChain(x.eip) \in Int /\ base <= x.base - FilledOnChain(x.eip)
  <2>1. DOMAIN x.counterSet \subseteq 0..(next - 1) /\ next \in Nat
    BY <1>3 DEF TermsInv, OwnAuths, AppInv
  <2>2. o.eip \notin DOMAIN x.counterSet
    BY <1>8, <2>1
  <2>3. EntryOK(e) /\ IsLive(e) /\ ~IsReserved(e, clock) /\ Offered(e, x)
    BY <1>1 DEF LegTaken
  <2>4. /\ BindingAccepts(x, o, price)
        /\ BindingRoom(x, o) \in Int /\ e.remaining <= BindingRoom(x, o)
        /\ x.base - FilledOnChain(x.eip) \in Int /\ e.remaining <= x.base - FilledOnChain(x.eip)
    BY <1>3, <2>2, <2>3, OfferedHasRoom
  <2>5. QED
    BY <1>5, <2>4
<1>10. /\ BindingAccepts(o, x, price) /\ BindingRoom(o, x) = base
       /\ o.base - FilledOnChain(o.eip) = form.amount
  <2>1. LegsOf(m) # NoLegs /\ x.eip \in DOMAIN LegsOf(m) /\ LegsOf(m)[x.eip] = base
    BY <1>5 DEF LegTaken, Offered
  <2>2. QED
    BY <1>2, <1>3, <1>5, <2>1, TakerHasRoom
<1>11. FittingOf(call) = base
  BY <1>2, <1>5, <1>6, <1>9, <1>10, AllFits
<1>12. Stands(x, au, price) /\ Stands(o, a, price)
  <2>1. Stands(x, au, price)
    BY <1>1, <1>5, OfferedStands DEF LegTaken
  <2>2. Stands(o, a, price)
    BY <1>2, <1>3, <1>5, <1>7, TakerStands
  <2>3. QED
    BY <2>1, <2>2
<1>13. call.key \notin UsedKeys
  BY <1>6, <1>8, NewAreUntraded
<1>14. /\ x.side = "sell" => base <= Min({bal[x.trader].base, allow[x.trader].base})
       /\ x.side = "buy" => quote + LegFee("sell", leg) <= Min({bal[x.trader].quote, allow[x.trader].quote})
  <2>1. LegOK(leg) /\ EntryOK(leg.order) /\ Within(leg.order, Capacity({}))
    BY DEF LegTaken
  <2>2. leg.order.side \in {"buy", "sell"} /\ leg.quote = QuoteFor(leg.base, leg.order.price)
    BY <1>1, <1>2, <1>5, <1>7 DEF Opposite
  <2>3. QED
    BY <1>1, <1>3, <1>5, <1>7, <2>1, <2>2, MakerPays
<1>15. Rival \in Traders /\ <<Rival, PayToken(form.side)>> \in DOMAIN Capacity({})
  BY <1>3, CapacityHolds, AppAssumption DEF Traders, PayToken
<1>16. CASE form.side = "buy"
  <2>1. x.side = "sell" /\ o.side = "buy"
    BY <1>7, <1>8, <1>16 DEF Opposite
  <2>2. BuyOf(call) = o /\ SellOf(call) = x /\ BuyAuth(call) = a /\ SellAuth(call) = au
    BY <1>6, <2>1 DEF BuyOf, SellOf, BuyAuth, SellAuth
  <2>3. PICK fee \in Nat : fee = FeeForQuote(quote)
    BY <1>5, FeesAreNat
  <2>4. f.fee = fee
    BY <1>5, <1>6, <1>16, <2>3 DEF LegFee
  <2>5. SpendingFits(a, quote, fee) /\ quote + fee <= RivalNeed(form) /\ RivalNeed(form) \in Nat
    BY <1>2, <1>5, <1>7, <1>16, <2>3, TakerSpends
  <2>6. base + SumBase(SoldUnder(au.eip)) <= au.maxBase
    BY <1>3, <1>4, <1>7, <1>9, <2>1, MakerDelivers
  <2>7. quote + fee <= Min({bal[Rival]["quote"], allow[Rival]["quote"]})
    <3>1. PICK paid \in Nat : paid = quote + fee
      BY <1>5, <2>3
    <3>2. Capacity({})[<<Rival, "quote">>] \in Nat /\ Get(Capacity({}), <<Rival, "quote">>, 0) = Capacity({})[<<Rival, "quote">>]
      BY <1>3, <1>15, <1>16, CapacityHolds DEF Get, CapacityOK, PayToken
    <3>3. RivalNeed(form) <= Capacity({})[<<Rival, "quote">>]
      BY <1>16 DEF PayToken
    <3>4. paid <= Get(Capacity({}), <<Rival, "quote">>, 0)
      BY <2>5, <3>1, <3>2, <3>3
    <3>5. paid <= Min({bal[Rival]["quote"], allow[Rival]["quote"]})
      BY <1>3, <1>15, <3>4, CapacityPays
    <3>6. QED
      BY <3>1, <3>5
  <2>8. {call.maker.side, call.taker.side} = {"buy", "sell"}
    BY <1>6, <2>1
  <2>9. x.price <= price /\ price <= o.price /\ o.trader # x.trader
    BY <1>5, <1>7, <1>8, <1>16
  <2>10. /\ quote + fee <= Min({bal[o.trader].quote, allow[o.trader].quote})
         /\ base <= Min({bal[x.trader].base, allow[x.trader].base})
    BY <1>8, <1>14, <2>1, <2>7
  <2>11. Accepts(call)
    BY <1>5, <1>6, <1>9, <1>10, <1>11, <1>12, <1>13, <2>2, <2>4, <2>5, <2>6, <2>8, <2>9, <2>10, TakesWhole
  <2>12. QED
    BY <1>6, <1>11, <2>11
<1>17. CASE form.side = "sell"
  <2>1. x.side = "buy" /\ o.side = "sell"
    BY <1>7, <1>8, <1>17 DEF Opposite
  <2>2. BuyOf(call) = x /\ SellOf(call) = o /\ BuyAuth(call) = au /\ SellAuth(call) = a
    BY <1>6, <2>1 DEF BuyOf, SellOf, BuyAuth, SellAuth
  <2>3. PICK fee \in Nat : fee = LegFee("sell", leg)
    BY LegFeeWithinBudget DEF LegTaken
  <2>4. f.fee = fee
    BY <1>6, <1>17, <2>3
  <2>5. fee * au.maxQuote <= au.maxFee * quote
    BY <1>1, <1>5, <2>3, SellFeeFits DEF LegTaken
  <2>6. SpendingFits(au, quote, fee)
    BY <1>3, <1>4, <1>5, <1>7, <1>9, <2>1, <2>5, MakerSpends
  <2>7. base + SumBase(SoldUnder(a.eip)) <= a.maxBase /\ base <= RivalNeed(form)
    BY <1>2, <1>5, <1>17, TakerDelivers
  <2>8. base <= Min({bal[Rival]["base"], allow[Rival]["base"]})
    <3>1. Capacity({})[<<Rival, "base">>] \in Nat /\ Get(Capacity({}), <<Rival, "base">>, 0) = Capacity({})[<<Rival, "base">>]
      BY <1>3, <1>15, <1>17, CapacityHolds DEF Get, CapacityOK, PayToken
    <3>2. RivalNeed(form) <= Capacity({})[<<Rival, "base">>] /\ RivalNeed(form) \in Nat
      BY <1>2, <1>17 DEF PayToken, RivalNeed
    <3>3. base <= Get(Capacity({}), <<Rival, "base">>, 0)
      BY <2>7, <3>1, <3>2
    <3>4. QED
      BY <1>3, <1>15, <3>3, CapacityPays
  <2>9. {call.maker.side, call.taker.side} = {"buy", "sell"}
    BY <1>6, <2>1
  <2>10. o.price <= price /\ price <= x.price /\ o.trader # x.trader
    BY <1>5, <1>7, <1>8, <1>17
  <2>11. /\ quote + fee <= Min({bal[x.trader].quote, allow[x.trader].quote})
         /\ base <= Min({bal[o.trader].base, allow[o.trader].base})
    BY <1>8, <1>14, <2>1, <2>3, <2>8
  <2>12. Accepts(call)
    BY <1>5, <1>6, <1>9, <1>10, <1>11, <1>12, <1>13, <2>2, <2>4, <2>6, <2>7, <2>9, <2>10, <2>11, TakesWhole
  <2>13. QED
    BY <1>6, <1>11, <2>12
<1>18. QED
  BY <1>2, <1>16, <1>17

LEMMA RivalFillsTaken ==
  ASSUME AppInv, WorldInv, FitInv, FitInv', TermsInv,
         NEW n \in Nodes, NEW form \in left.theirs, RivalPlaces(n, form),
         NEW f \in Of(stored'[n], "fill") \ stored[n], NEW call \in SettleCalls(stored'[n], f.hash),
         call.maker.sessionAuth \notin revokedAuth
  PROVE  Accepts(call) /\ FittingOf(call) = f.base
<1>1. Unique(Published')
  BY DEF FitInv, HashesOK, Unique
<1>2. PICK m : m = RivalMatch(n, form)
  OBVIOUS
<1>3. PICK s : s = TermsOf(form, m)
  OBVIOUS
<1>4. PICK a, o : a = SignedBy(Rival, next, s, clock).auth /\ o = SignedBy(Rival, next, s, clock).order
  OBVIOUS
<1>5. PICK i \in DOMAIN m.legs : \E x \in Of(stored[n], "order") :
           /\ Offered(m.legs[i].order, x) /\ LegTaken(form, m, m.legs[i])
           /\ m.legs[i].order.auth \in Of(stored[n], "authorization")
           /\ CallOf(call, f, form, m.legs[i], x, a, o)
  BY <1>1, <1>2, <1>3, <1>4, RivalCalls
<1>6. PICK x \in Of(stored[n], "order") :
           /\ Offered(m.legs[i].order, x) /\ LegTaken(form, m, m.legs[i])
           /\ m.legs[i].order.auth \in Of(stored[n], "authorization")
           /\ CallOf(call, f, form, m.legs[i], x, a, o)
  BY <1>5
<1>7. x.sessionAuth \notin revokedAuth
  BY <1>6 DEF CallOf
<1>8. m.left \in 0..form.amount
  BY <1>2, <1>5, RivalLegs
<1>9. RivalNeed(form) <= Capacity({})[<<Rival, PayToken(form.side)>>]
  BY <1>2, <1>3, <1>4, RivalActs
<1>10. QED
  BY <1>2, <1>3, <1>4, <1>6, <1>7, <1>8, <1>9, NewFillIsTaken

\* A fill matched against an up-to-date book is one the contract accepts, in
\* full: what matchLimit and the book take for reserved, void, funded and left,
\* for a fair fee and for enough to authorize, agrees with the contract's own
\* rules, however the orders it meets were filled before (aon.ts:336-549).
THEOREM FreshFillsStand == Spec => FreshFillsAreAccepted
<1>1. ASSUME AppInv, WorldInv, FitInv, FitInv', TermsInv
      PROVE  \A n \in Nodes, form \in left.theirs :
               left'.rival < left.rival /\ RivalPlaces(n, form) =>
               \A f \in Of(stored'[n], "fill") \ stored[n] : \A call \in SettleCalls(stored'[n], f.hash) :
                 call.maker.sessionAuth \notin revokedAuth => Accepts(call) /\ FittingOf(call) = f.base
  BY <1>1, RivalFillsTaken
<1>2. AppInv /\ WorldInv /\ FitInv /\ FitInv' /\ TermsInv =>
        [\A n \in Nodes, form \in left.theirs :
           left'.rival < left.rival /\ RivalPlaces(n, form) =>
           \A f \in Of(stored'[n], "fill") \ stored[n] : \A call \in SettleCalls(stored'[n], f.hash) :
             call.maker.sessionAuth \notin revokedAuth => Accepts(call) /\ FittingOf(call) = f.base]_vars
  BY <1>1
<1>3. Init => AppInv /\ WorldInv /\ FitInv /\ TermsInv
  BY InitApp, InitWorld, InitFit, InitTerms
<1>4. AppInv /\ WorldInv /\ FitInv /\ TermsInv /\ [Next]_vars => (AppInv /\ WorldInv /\ FitInv /\ TermsInv)'
  BY NextApp, NextWorld, NextFit, NextTerms
<1>5. QED
  BY <1>2, <1>3, <1>4, PTL DEF Spec, FreshFillsAreAccepted

=============================================================================
