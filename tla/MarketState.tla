---------------------------- MODULE MarketState ----------------------------
(***************************************************************************)
(* What the app makes of the signed objects a node lists: the book, the    *)
(* trades, and the orders a user signs against them.  Translated from      *)
(* covenant-frontend/src/aon.ts as operators on sets of objects, for one   *)
(* market; SpotApp gives them a node, a contract and a user.               *)
(*                                                                         *)
(* An object is a record with the `hash` it is known by.  What a wallet    *)
(* signed is known by its EIP-712 hash `eip`: anyone can publish another   *)
(* object (another hash, another createdAt) around the same signed         *)
(* message.  A signature verifies for exactly the wallet in `signer`.      *)
(* Hashes grow in the order objects are made.                              *)
(***************************************************************************)
EXTENDS Integers, Sequences, FiniteSets, FiniteSetsExt, SequencesExt

CONSTANTS
  Scale,               \* quote units per price unit are base * price / Scale
  FeeNum, FeeDen,      \* EXECUTOR_FEE_BPS / 10000
  PendingWindow,       \* PENDING_FILL_WINDOW_MS
  ExpiryMargin,        \* an order this close to validBefore counts as expired
  MaxLegs,             \* MAX_LEGS_PER_ORDER
  MaxPrice             \* stands for MAX_UINT256

ASSUME MarketAssumption ==
  /\ Scale \in Nat \ {0} /\ FeeNum \in Nat /\ FeeDen \in Nat \ {0}
  /\ PendingWindow \in Nat /\ ExpiryMargin \in Nat
  /\ MaxLegs \in Nat \ {0} /\ MaxPrice \in Nat

None   == 0      \* no object has this hash
NoLegs == <<>>   \* the counter set of an order bound to nobody

QuoteFor(base, price) == (base * price) \div Scale
FeeForQuote(quote) == (quote * FeeNum) \div FeeDen

MaxFeeExact(orderQuote) ==       \* fault: no unit of headroom for rounding
  (orderQuote * FeeNum) \div FeeDen

MaxFeeForOrder(orderQuote) ==
  IF FeeNum > 0 THEN (orderQuote * FeeNum) \div FeeDen + 1 ELSE 0

Unclamped(n) == n               \* fault: what is left may be below zero

AtLeastZero(n) == Max({n, 0})
Get(f, k, default) == IF k \in DOMAIN f THEN f[k] ELSE default
Of(objs, type) == {o \in objs : o.type = type}
VerifySigned(obj, owner) == obj.signer = owner

\* Object lists are sorted by createdAt; ties keep the node's order.
Earlier(a, b) ==
  a.createdAt < b.createdAt \/ (a.createdAt = b.createdAt /\ a.hash < b.hash)
-----------------------------------------------------------------------------
\* Orders under a valid authorization, one entry per signed order.

ValidAuths(objs) ==
  {a \in Of(objs, "authorization") : VerifySigned(a, a.grantor)}

OrderUnder(o, a) ==
  /\ o.authHash = a.hash
  /\ o.trader = a.grantor /\ o.side = a.side /\ o.sessionAuth = a.eip
  /\ a.minPrice <= o.price /\ o.price <= a.maxPrice
  /\ o.native => o.side = "buy"
  /\ o.counterSetHash # NoLegs => o.counterSet = o.counterSetHash
  /\ VerifySigned(o, o.trader)

ValidOrders(objs, auths) ==
  {o \in Of(objs, "order") : \E a \in auths : OrderUnder(o, a)}

\* The objects whose owner (an authorization's grantor, an order's trader)
\* signed a revocation of them.
RevokedTargets(objs, auths, orders) ==
  LET signed(target, w) == \E r \in Of(objs, "revocation") :
                             r.target = target /\ VerifySigned(r, w)
  IN  {a.hash : a \in {a \in auths : signed(a.hash, a.grantor)}}
        \cup {o.hash : o \in {o \in orders : signed(o.hash, o.trader)}}

Canonical(orders) ==
  {c \in orders : \A o \in orders : o.eip = c.eip => o = c \/ Earlier(c, o)}

RevokedAlone(orders, targets) == \* fault: a cancelled copy cancels only itself
  {o \in orders : {o.hash, o.authHash} \cap targets # {}}

\* A cancellation of any copy, or of the authorization, cancels the order.
RevokedOrders(orders, targets) ==
  {o \in orders : \/ o.authHash \in targets
                  \/ \E c \in orders : c.eip = o.eip /\ c.hash \in targets}

\* All of it, read from one listing.
Reading(objs) ==
  LET auths   == ValidAuths(objs)
      orders  == ValidOrders(objs, auths)
  IN  [objs |-> objs, auths |-> auths, orders |-> orders, canonical |-> Canonical(orders),
       revoked |-> RevokedOrders(orders, RevokedTargets(objs, auths, orders))]

AuthOf(o, r) == CHOOSE a \in r.auths : a.hash = o.authHash

Resolve(hash, r) ==
  {c \in r.canonical : \E o \in r.orders : o.hash = hash /\ o.eip = c.eip}

ValidUntil(o, r) == Min({o.validBefore, AuthOf(o, r).validBefore})
IsExpired(o, r, now) == ValidUntil(o, r) < now
-----------------------------------------------------------------------------
\* Fills.  With the chain read, `used` decides what settled; a receipt only
\* adds what actually moved.

FillKeyOf(f, maker, taker) ==
  [nonce |-> f.nonce, maker |-> maker.eip, taker |-> taker.eip, price |-> f.price,
   base |-> f.base, quote |-> f.quote, fee |-> f.fee]

Resolved(r) ==
  UNION {{[obj |-> f, maker |-> m, taker |-> t, key |-> FillKeyOf(f, m, t)] :
            m \in Resolve(f.makerOrder, r), t \in Resolve(f.takerOrder, r)} :
         f \in Of(r.objs, "fill")}

\* Clones share a fill key: the oldest is the one counted.
Counted(r) ==
  LET all == Resolved(r)
  IN  {x \in all : \A y \in all : y.key = x.key => y = x \/ Earlier(x.obj, y.obj)}

\* The first receipt that names the fill, if it claims this very fill.
ReceiptFor(x, objs) ==
  LET naming == {r \in Of(objs, "receipt") : r.fill = x.obj.hash /\ r.realTx}
  IN  {r \in naming : r.key = x.key /\ \A s \in naming : r.hash <= s.hash}

NoChain == [read |-> FALSE, used |-> {}, filled |-> <<>>, bound |-> <<>>]

FillView(x, r, chain, now) ==
  LET receipts == ReceiptFor(x, r.objs)
      settled  == IF chain.read THEN x.key \in chain.used ELSE receipts # {}
      base == IF settled THEN Min({x.obj.base} \cup {c.base : c \in receipts})
                         ELSE x.obj.base
      dead == \E o \in {x.maker, x.taker} : o \in r.revoked \/ IsExpired(o, r, now)
  IN  [hash |-> x.obj.hash, key |-> x.key, maker |-> x.maker, taker |-> x.taker,
       base |-> base, receipts |-> {c.hash : c \in receipts},
       quote |-> IF base = x.obj.base THEN x.obj.quote ELSE QuoteFor(base, x.obj.price),
       status |-> CASE settled -> "settled"
                    [] ~settled /\ ~dead /\ now - x.obj.createdAt < PendingWindow -> "pending"
                    [] OTHER -> "stale"]

SumBase(S) == SumFunction([x \in S |-> x.base])

Credit(o, fills, status) ==
  SumBase({v \in fills : v.status = status /\ o.hash \in {v.maker.hash, v.taker.hash}})

\* The part of it against counterparties the order named.
BoundCredit(o, fills, status) ==
  SumBase({v \in fills : v.status = status /\
    \/ o.hash = v.maker.hash /\ v.taker.eip \in DOMAIN o.counterSet
    \/ o.hash = v.taker.hash /\ v.maker.eip \in DOMAIN o.counterSet})

FeeUsed(authHash, fills) ==
  SumFunction([v \in {v \in fills : v.status # "stale" /\
    authHash = (IF v.maker.side = "buy" THEN v.maker ELSE v.taker).authHash} |-> v.key.fee])
-----------------------------------------------------------------------------
\* Orders with their live remaining size.

RestingOrder(o, fills, r, chain, now) ==
  LET a            == AuthOf(o, r)
      settled      == Get(chain.filled, o.eip, Credit(o, fills, "settled"))
      reserved     == Credit(o, fills, "pending")
      boundSettled == Get(chain.bound, o.eip, BoundCredit(o, fills, "settled"))
      boundPending == BoundCredit(o, fills, "pending")
      voided == /\ o.counterSetHash # NoLegs
                /\ now >= o.exclusiveUntil /\ boundSettled < o.exclusiveBase
      remaining == IF voided
                   THEN (o.base - o.exclusiveBase) - (settled - boundSettled)
                          - (reserved - boundPending)
                   ELSE o.base - settled - reserved
  IN  [hash |-> o.hash, eip |-> o.eip, auth |-> a, maker |-> o.trader, side |-> o.side,
       price |-> o.price, base |-> o.base, filled |-> settled, pending |-> reserved,
       remaining |-> AtLeastZero(remaining), createdAt |-> o.createdAt,
       cancelled |-> o \in r.revoked,
       expired |-> ValidUntil(o, r) <= now + ExpiryMargin,
       exclusiveBase |-> o.exclusiveBase, exclusiveUntil |-> o.exclusiveUntil,
       boundFilled |-> boundSettled, voided |-> voided, funded |-> TRUE,
       feeBudgetLeft |-> IF o.side = "buy"
         THEN AtLeastZero(a.maxFee - FeeUsed(o.authHash, fills)) ELSE 0]

\* What the page keeps of a fill.
Listed(v) == [hash |-> v.hash, key |-> v.key, base |-> v.base, quote |-> v.quote,
              status |-> v.status,
              traders |-> {v.maker.trader, v.taker.trader}, receipts |-> v.receipts]

NoState == [orders |-> {}, fills |-> {}]

DeriveState(objs, chain, now) ==
  LET r     == Reading(objs)
      fills == {FillView(x, r, chain, now) : x \in Counted(r)}
  IN  [orders |-> {RestingOrder(o, fills, r, chain, now) : o \in r.canonical},
       fills  |-> {Listed(v) : v \in fills}]

IsLive(o) == ~o.cancelled /\ ~o.expired /\ o.remaining > 0

PayToken(side) == IF side = "sell" THEN "base" ELSE "quote"
NeedFor(o) == IF o.side = "sell" THEN o.remaining
              ELSE QuoteFor(o.remaining, o.price) + o.feeBudgetLeft

\* Best price first, then oldest.
Before(a, b) ==
  IF a.price = b.price THEN Earlier(a, b)
  ELSE IF a.side = "sell" THEN a.price < b.price ELSE a.price > b.price

\* The last of these orders on the book, and a fold over them in its order.
LastOf(orders) == CHOOSE o \in orders : \A p \in orders : ~Before(o, p)
InBookOrder(Take(_, _), start, orders) ==
  MapThenFoldSet(LAMBDA o, acc : Take(acc, o), start, LAMBDA o : o, LastOf, orders)

\* A maker's orders are funded in book priority until the token runs out:
\* `capacity` is the smaller of balance and allowance, by maker and token.
FundedWith(orders, capacity) ==
  LET Fund(acc, o) ==
        IF acc.used + NeedFor(o) <= Get(capacity, <<o.maker, PayToken(o.side)>>, 0)
        THEN [used |-> acc.used + NeedFor(o), hashes |-> acc.hashes \cup {o.hash}]
        ELSE acc
      Backed(maker, side) ==
        InBookOrder(Fund, [used |-> 0, hashes |-> {}],
          {o \in orders : IsLive(o) /\ o.maker = maker /\ o.side = side})
      backed == UNION {Backed(o.maker, o.side).hashes : o \in orders}
  IN  {IF IsLive(o) THEN [o EXCEPT !.funded = o.hash \in backed] ELSE o : o \in orders}

\* What a maker's live orders need of one token.
Commitments(orders, maker, token) ==
  SumFunction([o \in {o \in orders :
    IsLive(o) /\ o.maker = maker /\ PayToken(o.side) = token} |-> NeedFor(o)])
-----------------------------------------------------------------------------
\* Matching, and what a user signs.

NeverReserved(o, now) == FALSE  \* fault: matched whoever it waits for

IsReserved(o, now) ==
  o.exclusiveBase > 0 /\ now < o.exclusiveUntil /\ o.boundFilled < o.exclusiveBase

Opposite(side) == IF side = "buy" THEN "sell" ELSE "buy"

\* What a match takes from the next order of the book.
TakeFrom(acc, o, me) ==
  LET base  == Min({acc.left, o.remaining})
      quote == QuoteFor(base, o.price)
  IN  IF acc.selfCross \/ acc.left = 0 \/ Len(acc.legs) >= MaxLegs THEN acc
      ELSE IF o.maker = me THEN [acc EXCEPT !.selfCross = TRUE]
      ELSE IF quote = 0 THEN acc
      ELSE [acc EXCEPT !.left = @ - base, !.quote = @ + quote,
              !.legs = Append(@, [order |-> o, base |-> base, price |-> o.price,
                                  quote |-> quote])]

\* limit = 0 is a market order.
Matchable(book, side, limit, now) ==
  {o \in book : /\ IsLive(o) /\ o.funded /\ ~IsReserved(o, now) /\ o.side = Opposite(side)
                /\ limit = 0 \/ IF side = "buy" THEN o.price <= limit ELSE o.price >= limit}

MatchOrder(book, side, amount, limit, me, now) ==
  InBookOrder(LAMBDA acc, o : TakeFrom(acc, o, me),
              [left |-> amount, legs |-> <<>>, quote |-> 0, selfCross |-> FALSE],
              Matchable(book, side, limit, now))

Filled(m, amount) == amount - m.left
WorstPrice(m) == IF m.legs = <<>> THEN 0 ELSE Last(m.legs).price

\* The authorization allows exactly what the order can use.
BuildAuth(hash, grantor, side, base, limitPrice, maxFee, validBefore, now) ==
  LET selling == side = "sell"
  IN  [type |-> "authorization", hash |-> hash, eip |-> hash, createdAt |-> now,
       signer |-> grantor, grantor |-> grantor, side |-> side,
       maxBase  |-> IF selling THEN base ELSE 0,
       maxQuote |-> IF selling THEN 0 ELSE QuoteFor(base, limitPrice),
       maxFee   |-> IF selling THEN 0 ELSE maxFee,
       minPrice |-> IF selling THEN limitPrice ELSE 0,
       maxPrice |-> IF selling THEN MaxPrice ELSE limitPrice,
       validBefore |-> validBefore]

\* Bound to the resting orders it fills at once, for what it takes of each.
LegsOf(m) ==
  [eip \in {m.legs[i].order.eip : i \in DOMAIN m.legs} |->
     (CHOOSE l \in ToSet(m.legs) : l.order.eip = eip).base]

BuildOrder(hash, auth, price, base, native, legs, exclusiveBase, until, now) ==
  LET bound == legs # NoLegs /\ exclusiveBase > 0
      set   == IF bound THEN legs ELSE NoLegs
  IN  [type |-> "order", hash |-> hash, eip |-> hash, createdAt |-> now,
       signer |-> auth.grantor, trader |-> auth.grantor, side |-> auth.side,
       price |-> price, base |-> base, authHash |-> auth.hash, sessionAuth |-> auth.eip,
       validBefore |-> auth.validBefore, native |-> native /\ auth.side = "buy",
       counterSetHash |-> set, counterSet |-> set,
       exclusiveBase |-> IF bound THEN exclusiveBase ELSE 0,
       exclusiveUntil |-> IF bound THEN until ELSE 0]

BuildFill(hash, leg, taker, fee, now) ==
  [type |-> "fill", hash |-> hash, nonce |-> hash, createdAt |-> now,
   makerOrder |-> leg.order.hash, takerOrder |-> taker.hash,
   makerAuth |-> leg.order.auth.hash, takerAuth |-> taker.authHash,
   price |-> leg.price, base |-> leg.base, quote |-> QuoteFor(leg.base, leg.price),
   fee |-> fee]

BuildRevocation(hash, authObj, now) ==
  [type |-> "revocation", hash |-> hash, createdAt |-> now,
   signer |-> authObj.grantor, target |-> authObj.hash]

\* Nothing in a receipt says who published it: `by` is for the properties only.
BuildReceipt(hash, call, moved, now) ==
  [type |-> "receipt", hash |-> hash, createdAt |-> now, fill |-> call.fill.hash,
   key |-> call.key, base |-> moved, realTx |-> TRUE, by |-> "settler"]

\* The settleSpotTrade call an executor would make, once every object the
\* fill names is known; {} while one is missing, or is of another kind.
Lookup(known, type, hash) == {o \in Of(known, type) : o.hash = hash}

SettleCalls(known, fillHash) ==
  UNION {{[fill |-> f, maker |-> m, taker |-> t, makerAuth |-> ma, takerAuth |-> ta,
           key |-> FillKeyOf(f, m, t)] :
            m  \in Lookup(known, "order", f.makerOrder),
            t  \in Lookup(known, "order", f.takerOrder),
            ma \in Lookup(known, "authorization", f.makerAuth),
            ta \in Lookup(known, "authorization", f.takerAuth)} :
         f \in Lookup(known, "fill", fillHash)}
=============================================================================
