------------------------------ MODULE SpotApp ------------------------------
(***************************************************************************)
(* One user's tab of the ETH trading page, with what it talks to: AON      *)
(* nodes that fail over, the settlement contract, executors, another       *)
(* trader, and strangers who may republish what they see.  Translated from *)
(* covenant-frontend/app/eth/page.tsx and src/endpoints.ts; MarketState is *)
(* its reading of the objects.                                             *)
(*                                                                         *)
(* Every await of the page is a step: a refresh reads the node, then       *)
(* usedFill, filledBaseByOrder and boundFilledBase, then the wallets; an   *)
(* order is approved, signed and published object by object.  Anything     *)
(* may happen between two of them.  A tick of the clock is five minutes.   *)
(***************************************************************************)
EXTENDS MarketState

CONSTANTS
  Nodes, NodeList,               \* the AON nodes, and the order they are tried in
  Me, Rival,                     \* the user of this tab; another trader
  Listings, InitialHash,         \* what the nodes may hold at first, in each
                                 \* scenario; the next hash to be made
  InitialBalance,                \* [trader -> [base, quote, eth]]
  InitialAllowance,              \* [trader -> [base, quote]]
  LimitTtl, MarketTtl,           \* MAKER_ORDER_TTL_SECS, MARKET_ORDER_TTL_SECS
  ExclusiveWindow,               \* EXCLUSIVE_WINDOW_SECS
  MinOrderQuote, MaxOrderQuote, GasReserve,  \* config.ts; a cap of 0 is no cap
  WrapsNative, ReceiveNative,    \* base is WETH; buys are paid out in ETH
  ResetFirst,                    \* tokens that refuse a change of a nonzero allowance
  Allowed                        \* bounds of each scenario: the forms the user
                                 \* and Rival may enter ([side, amount, limit]), how
                                 \* often the user and each kind of outside event may act

ASSUME AppAssumption ==
  /\ NodeList \in Seq(Nodes) /\ ToSet(NodeList) = Nodes
  /\ Me # Rival /\ InitialHash \in Nat \ {0}
  /\ \A s \in DOMAIN Listings : \A o \in Listings[s] : o.hash \in 1..(InitialHash - 1)
  /\ {Me, Rival} \subseteq DOMAIN InitialBalance
  /\ {GasReserve, LimitTtl, MarketTtl} \subseteq Nat /\ ExclusiveWindow \in Nat \ {0}
  /\ InitialBalance \in [DOMAIN InitialBalance -> [base : Nat, quote : Nat, eth : Nat]]
  /\ InitialAllowance \in [DOMAIN InitialBalance -> [base : Nat, quote : Nat]]
  /\ DOMAIN Allowed \subseteq DOMAIN Listings
  /\ \A s \in DOMAIN Allowed :
       /\ {"forms", "theirs"} \subseteq DOMAIN Allowed[s]
       /\ \A k \in DOMAIN Allowed[s] \ {"forms", "theirs"} : Allowed[s][k] \in Nat
       /\ \A form \in Allowed[s].forms \cup Allowed[s].theirs :
            /\ form.side \in {"buy", "sell"}
            /\ form.amount \in Nat /\ form.limit \in 0..MaxPrice
       /\ \A form \in Allowed[s].theirs : form.limit > 0

\* What an authorization says, whatever object it is in.
AuthTerms == {"type", "eip", "signer", "grantor", "side", "maxBase", "maxQuote", "maxFee",
              "minPrice", "maxPrice", "validBefore"}

\* The numbers of the objects in a scenario are naturals, as their types say.
WellFormed(o) ==
  /\ o.createdAt \in Nat
  /\ o.type = "authorization" =>
       /\ AuthTerms \cup {"hash", "createdAt"} \subseteq DOMAIN o
       /\ {o.eip, o.maxBase, o.maxQuote, o.maxFee, o.minPrice, o.maxPrice, o.validBefore} \subseteq Nat
  /\ o.type = "order" =>
       /\ {"hash", "createdAt"} \subseteq DOMAIN o
       /\ {o.price, o.base, o.exclusiveBase, o.exclusiveUntil, o.validBefore} \subseteq Nat
       /\ \A leg \in DOMAIN o.counterSet : o.counterSet[leg] \in Nat
  /\ o.type = "fill" => {o.price, o.base, o.quote, o.fee} \subseteq Nat
  /\ o.type = "receipt" => o.base \in Nat

\* A scenario starts before anything settled.  Two orders around one signed
\* message differ only in hash, date and the authorization object they name.
OrderTerms == {"trader", "signer", "side", "price", "base", "sessionAuth",
               "validBefore", "native", "counterSetHash", "counterSet", "exclusiveBase",
               "exclusiveUntil", "type", "eip"}
SameTerms(o, p) == \A field \in OrderTerms : o[field] = p[field]
ASSUME ListingsAssumption == \A s \in DOMAIN Listings :
  /\ IsFiniteSet(Listings[s]) /\ \A o \in Listings[s] : WellFormed(o)
  /\ Of(Listings[s], "receipt") = {}
  /\ \A o, p \in Of(Listings[s], "order") :
       /\ OrderTerms \cup {"authHash"} \subseteq DOMAIN o /\ o.eip \in 1..(InitialHash - 1)
       /\ o.eip = p.eip => SameTerms(o, p)

VARIABLES
  clock, next,          \* five-minute ticks; the next hash
  stored, up, preferred,\* what each node holds, which answer, the one tried first
  trades, revokedAuth,  \* what the contract settled, what it was told to revoke
  bal, allow,           \* wallets: balances, allowances of the contract
  view, refresh, again, \* the book shown; the refresh under way; refreshAgain
  usedCache, known,     \* usedNonceCache, knownObjects
  session,              \* the action the user is in
  left                  \* what is left of Allowed

chainVars == <<trades, revokedAuth, bal, allow>>
nodeVars  == <<stored, up, preferred>>
tabVars   == <<view, refresh, again, usedCache, known>>
vars == <<clock, next, chainVars, nodeVars, tabVars, session, left>>

Traders == DOMAIN InitialBalance
Quiet == [pc |-> "idle"]
NoNode == "none"

TypeOK ==
  /\ clock \in Nat /\ next \in Nat
  /\ up \subseteq Nodes /\ preferred \in Nodes \cup {NoNode}
  /\ \A n \in Nodes : \A o \in stored[n] : o.hash \in 1..(next - 1)
  /\ bal \in [Traders -> [base : Nat, quote : Nat, eth : Nat]]
  /\ allow \in [Traders -> [base : Nat, quote : Nat]]
  /\ refresh.pc \in {"idle", "list", "used", "filled", "bound", "capacity"}
  /\ session.pc \in {"idle", "wrap", "reset", "approve", "sign", "auth", "order", "fill",
                     "revoke", "onchain", "fit", "send", "receipt", "finish", "await"}
  /\ again \in BOOLEAN
  /\ \A o \in view.orders : o.remaining \in 0..o.base
  /\ \A k \in DOMAIN left \ {"forms", "theirs"} : left[k] \in Nat

Init ==
  /\ clock = 0 /\ next = InitialHash
  /\ \E s \in DOMAIN Allowed : /\ left = Allowed[s]
                             /\ stored = [n \in Nodes |-> Listings[s]]
  /\ up = Nodes /\ preferred = NoNode
  /\ trades = {} /\ revokedAuth = {}
  /\ bal = InitialBalance /\ allow = InitialAllowance
  /\ view = NoState /\ refresh = Quiet /\ again = FALSE
  /\ usedCache = {} /\ known = {}
  /\ session = Quiet

Spend(k) == left[k] > 0 /\ left' = [left EXCEPT ![k] = @ - 1]
-----------------------------------------------------------------------------
\* The contract, reduced to what the app can see of it (EvmSpotSettlement
\* models it whole).

Involving(eip) == {t \in trades : eip \in {t.key.maker, t.key.taker}}
FilledOnChain(eip) == SumBase(Involving(eip))
BoundOnChain(eip)  == SumBase({t \in Involving(eip) : eip \in t.recorded})
FilledWith(eip, other) ==
  SumBase({t \in Involving(eip) : eip \in t.recorded /\ other \in {t.key.maker, t.key.taker}})
UsedKeys == {t.key : t \in trades}

InWindow(o) == o.counterSetHash # NoLegs /\ clock < o.exclusiveUntil
LegActive(o, c) == InWindow(o) /\ c.eip \in DOMAIN o.counterSet

BindingRoom(o, c) ==
  CASE o.counterSetHash = NoLegs -> o.base
    [] LegActive(o, c) -> o.counterSet[c.eip] - FilledWith(o.eip, c.eip)
    [] OTHER -> (o.base - o.exclusiveBase) - (FilledOnChain(o.eip) - BoundOnChain(o.eip))

BindingAccepts(o, c, price) ==
  IF LegActive(o, c) THEN price = c.price
  ELSE InWindow(o) => BoundOnChain(o.eip) >= o.exclusiveBase

\* As much of a fill as still fits.
FittingOf(call) ==
  LET m == call.maker  t == call.taker
  IN  AtLeastZero(Min({call.fill.base, BindingRoom(m, t), BindingRoom(t, m),
                       m.base - FilledOnChain(m.eip), t.base - FilledOnChain(t.eip)}))

FeeOf(call, base) ==
  IF base = call.fill.base THEN call.fill.fee ELSE (call.fill.fee * base) \div call.fill.base

BuyOf(call) == IF call.maker.side = "buy" THEN call.maker ELSE call.taker
SellOf(call) == IF call.maker.side = "buy" THEN call.taker ELSE call.maker
BuyAuth(call) == IF call.maker.side = "buy" THEN call.makerAuth ELSE call.takerAuth
SellAuth(call) == IF call.maker.side = "buy" THEN call.takerAuth ELSE call.makerAuth

\* The order is open, signed, and under this authorization, which takes the
\* price.
Stands(o, a, price) ==
  /\ VerifySigned(a, a.grantor) /\ VerifySigned(o, o.trader)
  /\ o.trader = a.grantor /\ o.side = a.side /\ o.sessionAuth = a.eip
  /\ o.native => o.side = "buy"
  /\ a.eip \notin revokedAuth /\ clock <= o.validBefore /\ clock <= a.validBefore
  /\ a.minPrice <= price /\ price <= a.maxPrice

SoldUnder(auth)   == {t \in trades : t.sellAuth = auth}
BoughtUnder(auth) == {t \in trades : t.buyAuth = auth}

\* What the buyer may spend, and pay in fees for this fill and for all.
SpendingFits(a, quote, fee) ==
  /\ quote + SumFunction([t \in BoughtUnder(a.eip) |-> t.quote]) <= a.maxQuote
  /\ fee + SumFunction([t \in BoughtUnder(a.eip) |-> t.fee]) <= a.maxFee
  /\ fee > 0 => a.maxQuote > 0 /\ fee <= (a.maxFee * quote) \div a.maxQuote

Accepts(call) ==
  LET base == FittingOf(call)
      price == call.fill.price
      quote == QuoteFor(base, price)
      b == BuyOf(call)  s == SellOf(call)
      fee == FeeOf(call, base)
  IN  /\ call.key \notin UsedKeys /\ quote > 0
      /\ call.fill.quote = QuoteFor(call.fill.base, price)
      /\ Stands(call.maker, call.makerAuth, price) /\ Stands(call.taker, call.takerAuth, price)
      /\ {call.maker.side, call.taker.side} = {"buy", "sell"}
      /\ s.price <= price /\ price <= b.price /\ b.trader # s.trader
      /\ BindingAccepts(call.maker, call.taker, price)
      /\ BindingAccepts(call.taker, call.maker, price)
      /\ base + SumBase(SoldUnder(SellAuth(call).eip)) <= SellAuth(call).maxBase
      /\ SpendingFits(BuyAuth(call), quote, fee)
      /\ quote + fee <= Min({bal[b.trader].quote, allow[b.trader].quote})
      /\ base <= Min({bal[s.trader].base, allow[s.trader].base})

\* `n` more of a token in a trader's wallet.
Moved(wallets, trader, token, n) == [wallets EXCEPT ![trader][token] = @ + n]

SettlesOnChain(call) ==
  LET base == FittingOf(call)
      quote == QuoteFor(base, call.fill.price)
      fee == FeeOf(call, base)
      b == BuyOf(call)  s == SellOf(call)
      paidIn == IF b.native THEN "eth" ELSE "base"
  IN  /\ trades' = trades \cup
           {[key |-> call.key, base |-> base, quote |-> quote, fee |-> fee,
             buyAuth |-> b.sessionAuth, sellAuth |-> s.sessionAuth,
             recorded |-> {x.eip : x \in {x \in {b, s} :
                             LegActive(x, IF x = b THEN s ELSE b)}}]}
      /\ bal' = LET paid   == Moved(bal, b.trader, "quote", -(quote + fee))
                    bought == Moved(paid, b.trader, paidIn, base)
                    sold   == Moved(bought, s.trader, "quote", quote)
                IN  Moved(sold, s.trader, "base", -base)
      /\ allow' = Moved(Moved(allow, b.trader, "quote", -(quote + fee)), s.trader, "base", -base)
      /\ UNCHANGED revokedAuth
-----------------------------------------------------------------------------
\* aonFetch: the node that answered last is tried first, then the list.  A
\* node that is too slow may still have stored what was posted to it.

TryOrder == IF preferred = NoNode THEN NodeList
            ELSE <<preferred>> \o SelectSeq(NodeList, LAMBDA n : n # preferred)
TriedBefore(n) == {TryOrder[i] : i \in {i \in DOMAIN TryOrder :
                     \E j \in DOMAIN TryOrder : i < j /\ TryOrder[j] = n}}

\* Node n answers after the nodes in `slow` took too long and the others
\* before it were down.
Answers(n, slow) ==
  /\ n \in up /\ slow = up \cap TriedBefore(n)
  /\ preferred' = n
NobodyAnswers(slow) == slow = up /\ UNCHANGED preferred

TooSlow(slow) == IF slow = {} THEN UNCHANGED left ELSE Spend("faults")

StoredAt(where, obj) ==
  stored' = [n \in Nodes |-> IF n \in where THEN stored[n] \cup {obj} ELSE stored[n]]

\* aonPutObject succeeds, or throws although a slow node has the object.
Put(obj) == \E n \in Nodes, slow \in SUBSET up :
  Answers(n, slow) /\ TooSlow(slow) /\ StoredAt(slow \cup {n}, obj) /\ UNCHANGED up
PutFails(obj) == \E slow \in SUBSET up :
  NobodyAnswers(slow) /\ TooSlow(slow) /\ StoredAt(slow, obj) /\ UNCHANGED up
-----------------------------------------------------------------------------
\* refresh(): single flight.  A call while one is under way only asks for
\* another, and returns at once.

RefreshStarts == refresh' = [pc |-> "list"] /\ UNCHANGED again
RefreshCalled == IF refresh = Quiet THEN RefreshStarts
                 ELSE again' = TRUE /\ UNCHANGED refresh

NeverReset ==                    \* fault: the flag survives an error
  /\ refresh' = [pc |-> "over"] /\ UNCHANGED again
  /\ session' = IF session.pc = "await" THEN Quiet ELSE session

\* The finally block; the action waiting for this refresh ends with it.
RefreshEnds ==
  /\ IF again THEN again' = FALSE /\ refresh' = [pc |-> "list"]
              ELSE refresh' = Quiet /\ UNCHANGED again
  /\ session' = IF session.pc = "await" THEN Quiet ELSE session

RefreshFails == RefreshEnds      \* the catch block keeps the book as it was

Interval ==                      \* every 5 s
  /\ refresh = Quiet /\ RefreshStarts
  /\ UNCHANGED <<clock, next, chainVars, nodeVars, view, usedCache, known, session, left>>

ListObjects ==
  /\ refresh.pc = "list"
  /\ \/ \E n \in Nodes, slow \in SUBSET up :
          /\ Answers(n, slow) /\ TooSlow(slow)
          /\ refresh' = [pc |-> "used", objs |-> stored[n]]
          /\ known' = known \cup stored[n]
          /\ UNCHANGED <<again, session>>
     \/ \E slow \in SUBSET up :
          NobodyAnswers(slow) /\ TooSlow(slow) /\ RefreshFails /\ UNCHANGED known
  /\ UNCHANGED <<clock, next, chainVars, stored, up, view, usedCache>>

\* Reads are made at once and each may fail (null): `lost` are those that did.
Lost(lost) == IF lost = {} THEN UNCHANGED left ELSE Spend("faults")

ReadUsed ==
  /\ refresh.pc = "used"
  /\ LET unknown == {x.key : x \in Counted(Reading(refresh.objs))} \ usedCache
     IN  \E lost \in {{}, unknown} :
           Lost(lost) /\ usedCache' = usedCache \cup ((unknown \ lost) \cap UsedKeys)
  /\ refresh' = [refresh EXCEPT !.pc = "filled"]
  /\ UNCHANGED <<clock, next, chainVars, nodeVars, view, again, known, session>>

ReadTotals(eips, Total(_)) == [e \in eips |-> Total(e)]

Candidates(objs) ==
  {o \in DeriveState(objs, NoChain, clock).orders : ~o.cancelled /\ ~o.expired}

ReadFilled ==
  /\ refresh.pc = "filled"
  /\ LET eips == {o.eip : o \in Candidates(refresh.objs)}
     IN  \E lost \in {{}, eips} :
           /\ Lost(lost)
           /\ refresh' = [pc |-> "bound", objs |-> refresh.objs, eips |-> eips,
                          filled |-> ReadTotals(eips \ lost, FilledOnChain)]
  /\ UNCHANGED <<clock, next, chainVars, nodeVars, view, again, usedCache, known, session>>

BoundEips == {o.eip : o \in {o \in Of(refresh.objs, "order") :
                o.eip \in refresh.eips /\ o.exclusiveBase > 0}}

\* deriveState again, with what the contract said.
Rederive(used, lost) ==
  refresh' = [pc |-> "capacity", derived |-> DeriveState(refresh.objs,
     [read |-> TRUE, used |-> used, filled |-> refresh.filled,
      bound |-> ReadTotals(BoundEips \ lost, BoundOnChain)], clock)]

ReadUsedLast ==                  \* fault: usedFill is read after the totals
  /\ refresh.pc = "bound"
  /\ usedCache' = usedCache \cup ({x.key : x \in Counted(Reading(refresh.objs))} \cap UsedKeys)
  /\ Rederive(usedCache', {})
  /\ UNCHANGED <<clock, next, chainVars, nodeVars, view, again, known, session, left>>

ReadBound ==
  /\ refresh.pc = "bound"
  /\ \E lost \in {{}, BoundEips} : Lost(lost) /\ Rederive(usedCache, lost)
  /\ UNCHANGED <<clock, next, chainVars, nodeVars, view, again, usedCache, known, session>>

Capacity(lost) ==
  [k \in (Traders \X {"base", "quote"}) \ lost |-> Min({bal[k[1]][k[2]], allow[k[1]][k[2]]})]

ShowBook ==
  /\ refresh.pc = "capacity"
  /\ \E lost \in {{}, Traders \X {"base", "quote"}} :
       /\ Lost(lost)
       /\ view' = [refresh.derived EXCEPT !.orders = FundedWith(@, Capacity(lost))]
  /\ RefreshEnds
  /\ UNCHANGED <<clock, next, chainVars, nodeVars, usedCache, known>>

RefreshStep == ListObjects \/ ReadUsed \/ ReadFilled \/ ReadBound \/ ShowBook
-----------------------------------------------------------------------------
\* Placing an order.

MyOpen == {o \in view.orders : o.maker = Me /\ ~o.cancelled /\ ~o.expired
                               /\ (o.remaining > 0 \/ o.pending > 0)}

Available(token) == AtLeastZero(bal[Me][token] - Commitments(view.orders, Me, token))
Wrappable == IF WrapsNative THEN AtLeastZero(bal[Me].eth - GasReserve) ELSE 0

NothingCommitted(token) == 0     \* fault: only the new order is approved

\* What my open orders, and their fills awaiting settlement, can still pull.
OpenNeed(o) ==
  LET open == o.remaining + o.pending
  IN  IF o.side = "sell" THEN open ELSE QuoteFor(open, o.price) + o.feeBudgetLeft
CommittedIn(token) ==
  SumFunction([o \in {o \in view.orders :
    o.maker = Me /\ ~o.cancelled /\ ~o.expired /\ PayToken(o.side) = token} |-> OpenNeed(o)])

\* For the properties only: the book knows every order of mine that can
\* still fill, and thinks no more of one filled, or lapsed, than is.
CanFill(o) == /\ FilledOnChain(o.eip) < o.base
              /\ clock <= o.validBefore /\ o.sessionAuth \notin revokedAuth
BookIsRight ==
  /\ \A n \in Nodes : \A o \in Of(stored[n], "order") :
       o.trader = Me /\ CanFill(o) => \E e \in MyOpen : e.eip = o.eip
  /\ \A e \in MyOpen : /\ e.filled <= FilledOnChain(e.eip)
                       /\ e.voided => BoundOnChain(e.eip) <= e.boundFilled

\* The order as previewed and matched again at the click; `form` is what
\* the user entered.
Place(form) ==
  LET m      == MatchOrder(view.orders, form.side, form.amount, form.limit, Me, clock)
      market == form.limit = 0
      price  == IF market THEN WorstPrice(m) ELSE form.limit
      base   == IF market THEN Filled(m, form.amount) ELSE form.amount
      cost   == QuoteFor(base, price)
      maxFee == IF form.side = "buy" THEN MaxFeeForOrder(cost) ELSE 0
      need   == IF form.side = "buy" THEN cost + maxFee ELSE base
      token  == PayToken(form.side)
      avail  == IF form.side = "buy" THEN Available("quote") ELSE Available("base") + Wrappable
      short  == IF form.side = "sell" /\ WrapsNative
                THEN AtLeastZero(base - Available("base")) ELSE 0
  IN  /\ session = Quiet
      /\ ~m.selfCross /\ base > 0 /\ cost >= MinOrderQuote
      /\ MaxOrderQuote > 0 => cost <= MaxOrderQuote
      /\ avail >= need
      /\ session' = [pc |-> IF short > 0 THEN "wrap" ELSE "approve",
                     side |-> form.side, price |-> price, base |-> base, maxFee |-> maxFee,
                     m |-> m, filled |-> Filled(m, form.amount), market |-> market,
                     short |-> short, need |-> need, token |-> token,
                     approval |-> need + CommittedIn(token), shown |-> MyOpen, right |-> BookIsRight]
      /\ Spend("places")
      /\ UNCHANGED <<clock, next, chainVars, nodeVars, tabVars>>

Goto(pc) == session' = [session EXCEPT !.pc = pc]

Wrap ==
  /\ session.pc = "wrap"
  /\ bal[Me].eth >= session.short
  /\ bal' = Moved(Moved(bal, Me, "eth", -session.short), Me, "base", session.short)
  /\ Goto("approve")
  /\ UNCHANGED <<clock, next, trades, revokedAuth, allow, nodeVars, tabVars, left>>

\* ensureAllowance: exact, and only when what is there is too little.
Approve ==
  /\ session.pc \in {"approve", "reset"}
  /\ LET current == allow[Me][session.token]
     IN  IF session.pc = "approve" /\ current >= session.approval
         THEN UNCHANGED allow /\ Goto("sign")
         ELSE IF session.pc = "approve" /\ current > 0 /\ session.token \in ResetFirst
         THEN allow' = [allow EXCEPT ![Me][session.token] = 0] /\ Goto("reset")
         ELSE allow' = [allow EXCEPT ![Me][session.token] = session.approval] /\ Goto("sign")
  /\ UNCHANGED <<clock, next, trades, revokedAuth, bal, nodeVars, tabVars, left>>

SignedBy(trader, hash, x, now) ==
  LET until == now + (IF x.market THEN MarketTtl ELSE LimitTtl)
      auth  == BuildAuth(hash, trader, x.side, x.base, x.price, x.maxFee, until, now)
  IN  [auth |-> auth,
       order |-> BuildOrder(hash + 1, auth, x.price, x.base, ReceiveNative /\ WrapsNative,
                   LegsOf(x.m), x.filled,
                   IF x.market THEN until ELSE now + ExclusiveWindow, now)]

Sign ==
  /\ session.pc = "sign"
  /\ LET signed == SignedBy(Me, next, session, clock)
     IN  session' = [pc |-> "auth", auth |-> signed.auth, order |-> signed.order,
                     legs |-> session.m.legs]
  /\ next' = next + 2
  /\ UNCHANGED <<clock, chainVars, nodeVars, tabVars, left>>

PublishAuth ==
  /\ session.pc = "auth"
  /\ Put(session.auth) /\ known' = known \cup {session.auth}
  /\ Goto("order")
  /\ UNCHANGED <<clock, next, chainVars, view, refresh, again, usedCache>>

PublishOrder ==
  /\ session.pc = "order"
  /\ Put(session.order) /\ known' = known \cup {session.order}
  /\ Goto(IF session.legs = <<>> THEN "finish" ELSE "fill")
  /\ UNCHANGED <<clock, next, chainVars, view, refresh, again, usedCache>>

\* A resting buyer pays within their fee budget and pro rata.  Legs are
\* distinct orders, so no earlier leg used the same budget.
LegFee(side, leg) ==
  LET a == leg.order.auth
      proRata == IF a.maxQuote > 0 THEN (a.maxFee * leg.quote) \div a.maxQuote ELSE 0
  IN  IF side = "sell"
      THEN Min({FeeForQuote(leg.quote), proRata, leg.order.feeBudgetLeft})
      ELSE FeeForQuote(leg.quote)

PublishFill ==
  /\ session.pc = "fill"
  /\ LET leg == Head(session.legs)
         f == BuildFill(next, leg, session.order, LegFee(session.order.side, leg), clock)
     IN  Put(f) /\ known' = known \cup {f}
  /\ next' = next + 1
  /\ session' = [session EXCEPT !.legs = Tail(@),
                   !.pc = IF Len(session.legs) = 1 THEN "finish" ELSE "fill"]
  /\ UNCHANGED <<clock, chainVars, view, refresh, again, usedCache>>
-----------------------------------------------------------------------------
\* Cancelling, settling from the user's own wallet, unwrapping.

Cancel(o, onChain) ==
  /\ session = Quiet /\ o \in MyOpen
  /\ session' = [pc |-> "revoke", revocation |-> BuildRevocation(next, o.auth, clock),
                 auth |-> o.auth, onChain |-> onChain]
  /\ next' = next + 1
  /\ Spend("closes")
  /\ UNCHANGED <<clock, chainVars, nodeVars, tabVars>>

PublishRevocation ==
  /\ session.pc = "revoke"
  /\ Put(session.revocation)
  /\ Goto(IF session.onChain THEN "onchain" ELSE "finish")
  /\ UNCHANGED <<clock, next, chainVars, tabVars>>

RevokeOnChain ==
  /\ session.pc = "onchain"
  /\ revokedAuth' = revokedAuth \cup {session.auth.eip}
  /\ Goto("finish")
  /\ UNCHANGED <<clock, next, trades, bal, allow, nodeVars, tabVars, left>>

\* fittingBase: what is left of both orders, and of a leg still reserved.
FittingBase(call) ==
  LET m == call.maker  t == call.taker
      legs == {<<m, t>>, <<t, m>>}
  IN  AtLeastZero(Min({call.fill.base, m.base - FilledOnChain(m.eip),
                                       t.base - FilledOnChain(t.eip)} \cup
        {x[1].counterSet[x[2].eip] - FilledWith(x[1].eip, x[2].eip) :
           x \in {x \in legs : LegActive(x[1], x[2])}}))

SettleNow(hash) ==
  /\ session = Quiet
  /\ \E v \in view.fills : v.hash = hash /\ v.status = "pending" /\ Me \in v.traders
  /\ \E call \in SettleCalls(known, hash) : session' = [pc |-> "fit", call |-> call]
  /\ Spend("closes")
  /\ UNCHANGED <<clock, next, chainVars, nodeVars, tabVars>>

\* Nothing fits, or an executor was there first: nothing to send.
CheckFits ==
  /\ session.pc = "fit"
  /\ LET fit == FittingBase(session.call)
     IN  Goto(IF \/ QuoteFor(fit, session.call.fill.price) = 0
                 \/ session.call.key \in UsedKeys
              THEN "finish" ELSE "send")
  /\ UNCHANGED <<clock, next, chainVars, nodeVars, tabVars, left>>

SubmittedAmount(call) == call.fill.base      \* fault: what the fill asked for

\* What the settlement's own event reports.
SettledAmount(call) == FittingOf(call)

SendSettlement ==
  /\ session.pc = "send"
  /\ LET call == session.call
     IN  IF Accepts(call)
         THEN /\ SettlesOnChain(call)
              /\ session' = [pc |-> "receipt", receipt |->
                               BuildReceipt(next, call, SettledAmount(call), clock)]
              /\ next' = next + 1
         ELSE /\ session' = IF call.key \in UsedKeys THEN [pc |-> "finish"] ELSE Quiet
              /\ UNCHANGED <<next, chainVars>>
  /\ UNCHANGED <<clock, nodeVars, tabVars, left>>

PublishReceipt ==                \* an error is swallowed
  /\ session.pc = "receipt"
  /\ Put(session.receipt) \/ PutFails(session.receipt)
  /\ session' = [pc |-> "finish"]
  /\ UNCHANGED <<clock, next, chainVars, tabVars>>

Unwrap ==
  /\ session = Quiet /\ WrapsNative /\ Available("base") > 0
  /\ bal' = Moved(Moved(bal, Me, "base", -Available("base")), Me, "eth", Available("base"))
  /\ Spend("closes")
  /\ UNCHANGED <<clock, next, trades, revokedAuth, allow, nodeVars, tabVars, session>>

\* Every action ends in `await refresh()`.
Finish ==
  /\ session.pc = "finish"
  /\ RefreshCalled
  /\ session' = IF refresh = Quiet THEN [pc |-> "await"] ELSE Quiet
  /\ UNCHANGED <<clock, next, chainVars, nodeVars, view, usedCache, known, left>>

\* The user declines in the wallet: the action ends where it stands.
Decline ==
  /\ session.pc \in {"wrap", "reset", "approve", "sign", "revoke", "onchain", "send"}
  /\ session' = Quiet /\ Spend("faults")
  /\ UNCHANGED <<clock, next, chainVars, nodeVars, tabVars>>

\* No node takes the object: so does a failed publication.
PublishFails ==
  /\ session.pc \in {"auth", "order", "fill", "revoke"}
  /\ PutFails(CASE session.pc = "auth"   -> session.auth
                [] session.pc = "order"  -> session.order
                [] session.pc = "revoke" -> session.revocation
                [] session.pc = "fill"   ->
                     BuildFill(next, Head(session.legs), session.order,
                               LegFee(session.order.side, Head(session.legs)), clock))
  /\ next' = next + 1
  /\ session' = Quiet
  /\ UNCHANGED <<clock, chainVars, tabVars>>

Reload ==
  /\ Spend("faults")
  /\ view' = NoState /\ refresh' = [pc |-> "list"] /\ again' = FALSE
  /\ usedCache' = {} /\ known' = {} /\ session' = Quiet /\ preferred' = NoNode
  /\ UNCHANGED <<clock, next, chainVars, stored, up>>

SessionStep ==
  \/ Wrap \/ Approve \/ Sign \/ PublishAuth \/ PublishOrder \/ PublishFill
  \/ PublishRevocation \/ RevokeOnChain \/ CheckFits \/ SendSettlement
  \/ PublishReceipt \/ Finish
UserStarts ==
  \/ \E c \in left.forms : Place(c)
  \/ \E o \in MyOpen, onChain \in BOOLEAN : Cancel(o, onChain)
  \/ \E v \in view.fills : SettleNow(v.hash)
  \/ Unwrap
-----------------------------------------------------------------------------
\* Everybody else.

AtEveryNode(objs) == stored' = [n \in Nodes |-> stored[n] \cup objs]

\* The objects node n lists a revocation of, signed by their owner.
Withdrawn(n) == RevokedTargets(stored[n], ValidAuths(stored[n]), Of(stored[n], "order"))

\* An executor settles a fill it lists, honouring free cancellations, and its
\* receipt may or may not make it to the nodes.
Execute(n, f, posted) ==
  /\ \E call \in SettleCalls(stored[n], f.hash) :
       /\ Accepts(call)
       /\ f.makerAuth = call.maker.authHash /\ f.takerAuth = call.taker.authHash
       /\ {f.makerOrder, f.takerOrder, f.makerAuth, f.takerAuth} \cap Withdrawn(n) = {}
       /\ SettlesOnChain(call)
       /\ IF posted
          THEN /\ AtEveryNode({BuildReceipt(next, call, FittingOf(call), clock)})
               /\ next' = next + 1 /\ Spend("receipts")
          ELSE UNCHANGED <<stored, next, left>>
  /\ UNCHANGED <<clock, up, preferred, tabVars, session>>

Eips(n) == {o.eip : o \in Of(stored[n], "order")}

\* The other trader uses the app too, with a book that is up to date and what a
\* limit order needs already approved, and publishes everything at every node.
RivalPlaces(n, form) == left.rival > 0 /\
  LET book   == FundedWith(DeriveState(stored[n], [read |-> TRUE, used |-> UsedKeys,
                  filled |-> ReadTotals(Eips(n), FilledOnChain),
                  bound |-> ReadTotals(Eips(n), BoundOnChain)], clock).orders, Capacity({}))
      m      == MatchOrder(book, form.side, form.amount, form.limit, Rival, clock)
      cost   == QuoteFor(form.amount, form.limit)
      maxFee == IF form.side = "buy" THEN MaxFeeForOrder(cost) ELSE 0
      need   == IF form.side = "buy" THEN cost + maxFee ELSE form.amount
      x      == [side |-> form.side, price |-> form.limit, base |-> form.amount,
                 m |-> m, filled |-> Filled(m, form.amount), market |-> FALSE,
                 maxFee |-> maxFee]
      signed == SignedBy(Rival, next, x, clock)
      fills  == {BuildFill(next + 1 + i, m.legs[i], signed.order,
                           LegFee(form.side, m.legs[i]), clock) : i \in DOMAIN m.legs}
  IN  /\ ~m.selfCross
      /\ need <= Capacity({})[<<Rival, PayToken(form.side)>>]
      /\ AtEveryNode({signed.auth, signed.order} \cup fills)
      /\ next' = next + 2 + MaxLegs    \* hashes for the most fills there may be
      /\ Spend("rival")
      /\ UNCHANGED <<clock, chainVars, up, preferred, tabVars, session>>

\* Another trader may cancel one object of an order, itself or the authorization
\* it names, with other tools than this page.
OtherRevokes(n, o, target) ==
  /\ o.trader # Me /\ left.rival > 0
  /\ AtEveryNode({[BuildRevocation(next, AuthOf(o, Reading(stored[n])), clock) EXCEPT !.target = target]})
  /\ next' = next + 1
  /\ Spend("rival")
  /\ UNCHANGED <<clock, chainVars, up, preferred, tabVars, session>>

\* Anyone can publish an order or an authorization again, under any date, and an
\* order's copy under any object around the authorization it was signed for.
NamesOf(n, o) == {o.authHash} \cup {a.hash : a \in {a \in Of(stored[n], "authorization") : a.eip = o.sessionAuth}}
CopiesOf(n, o) == IF o.type = "order" THEN {[o EXCEPT !.authHash = name] : name \in NamesOf(n, o)} ELSE {o}
Signed(n) == Of(stored[n], "order") \cup Of(stored[n], "authorization")
Republish(n, o, date) ==
  /\ \E c \in CopiesOf(n, o) : AtEveryNode({[c EXCEPT !.hash = next, !.createdAt = date]})
  /\ next' = next + 1
  /\ Spend("copies")
  /\ UNCHANGED <<clock, chainVars, up, preferred, tabVars, session>>

\* Receipts are unsigned: anyone can publish one of any fill, of an amount that
\* moved or did not, and under a key that is the fill's or not.
ForgeReceipt(n, f, moved) ==
  /\ \E call \in SettleCalls(stored[n], f.hash), more \in {0, 1} :
       AtEveryNode({[BuildReceipt(next, call, moved, clock) EXCEPT !.key.fee = @ + more, !.by = "anyone"]})
  /\ next' = next + 1
  /\ Spend("forged")
  /\ UNCHANGED <<clock, chainVars, up, preferred, tabVars, session>>

NodeDown(n) ==
  /\ n \in up /\ up' = up \ {n} /\ Spend("faults")
  /\ UNCHANGED <<clock, next, chainVars, stored, preferred, tabVars, session>>
NodeUp(n) ==
  /\ n \notin up /\ up' = up \cup {n}
  /\ UNCHANGED <<clock, next, chainVars, stored, preferred, tabVars, session, left>>

\* Connected nodes pass objects on to each other (app/about/page.tsx:117).
Propagate ==
  /\ \E n, m \in up : stored[n] # stored[m]
  /\ stored' = [n \in Nodes |-> IF n \in up THEN UNION {stored[m] : m \in up} ELSE stored[n]]
  /\ UNCHANGED <<clock, next, chainVars, up, preferred, tabVars, session, left>>

Tick ==
  /\ Spend("ticks") /\ clock' = clock + 1
  /\ UNCHANGED <<next, chainVars, nodeVars, tabVars, session>>

Outside ==
  \/ \E n \in Nodes : \E f \in Of(stored[n], "fill"), posted \in BOOLEAN : Execute(n, f, posted)
  \/ \E n \in Nodes, c \in left.theirs : RivalPlaces(n, c)
  \/ \E n \in Nodes : \E o \in Reading(stored[n]).orders : \E target \in {o.hash, o.authHash} : OtherRevokes(n, o, target)
  \/ \E n \in Nodes : \E o \in Signed(n), date \in {0, clock} : Republish(n, o, date)
  \/ \E n \in Nodes : \E f \in Of(stored[n], "fill") : \E moved \in 0..f.base : ForgeReceipt(n, f, moved)
  \/ \E n \in Nodes : NodeDown(n) \/ NodeUp(n)
  \/ Propagate \/ Tick

Next == Interval \/ RefreshStep \/ UserStarts \/ SessionStep \/ Decline
        \/ PublishFails \/ Reload \/ Outside

\* Every awaited read of a refresh answers or fails (the requests time out), so
\* each RefreshStep is eventually taken; it is enabled until it is.
ReadsReturn == \A pc \in {"list", "used", "filled", "bound", "capacity"} :
                 []<>(refresh.pc # pc)

\* The page's own timer and the reads it awaits always get their turn; what
\* the user and the executors do is up to them.  Nodes in touch end up with the
\* same objects.
Spec == Init /\ [][Next]_vars /\ WF_vars(Interval) /\ ReadsReturn
             /\ WF_vars(Propagate)
-----------------------------------------------------------------------------
\* Properties.

Published == UNION {stored[n] : n \in Nodes}

\* The book never offers again what a trade it lists already took: whatever
\* settles while the reads of a refresh go on, an order is offered for no more
\* than its size less what the contract moved for the fills listed as pending
\* or settled (page.tsx:179-205; orders whose reserved part lapsed apart,
\* see the README).  Where the totals of the contract could not be read, the
\* receipts stand in for them, and only settlers' own can be relied on.
SettlersOwn(objs) == \A r \in Of(objs, "receipt") : r.by = "settler"
BookNeverOverstates == [][ReadBound =>
  \A o \in refresh'.derived.orders :
    ~o.voided /\ (o.eip \in DOMAIN refresh.filled \/ SettlersOwn(refresh.objs)) =>
    LET listed == {v.key : v \in {v \in refresh'.derived.fills : v.status # "stale"}}
    IN  o.remaining <= AtLeastZero(o.base - SumBase({t \in Involving(o.eip) : t.key \in listed}))]_vars

\* Once the objects read include a cancellation by the owner, of any copy of the
\* order that stands under an authorization or of the authorization object the
\* book has it under, no copy of that order is live, whatever date and
\* authorization object strangers publish it again with (aon.ts:217-243).
CancelSticks == [][ReadBound =>
  \A o \in refresh'.derived.orders, r \in Of(refresh.objs, "revocation") :
    (r.signer = o.maker /\ \/ r.target = o.auth.hash
                           \/ \E c \in Reading(refresh.objs).orders : c.eip = o.eip /\ c.hash = r.target)
      => ~IsLive(o)]_vars

\* A cancellation of the authorization cancels the signed order, "of any copy (or
\* of the authorization)", as the comment at aon.ts:241 has it: of any object
\* around the authorization that the order was signed for.
CancelHonoured == [][ReadBound =>
  \A o \in refresh'.derived.orders, r \in Of(refresh.objs, "revocation") :
    (r.signer = o.maker /\ \E a \in Of(refresh.objs, "authorization") : a.eip = o.auth.eip /\ a.hash = r.target)
      => ~IsLive(o)]_vars

FillsOf(objs, orderHash) == {f \in Of(objs, "fill") : f.takerOrder = orderHash}

\* The contract can take the fills of this order whole: each fee is within the
\* buyer's pro rata cap, and together they stay within what the user signed.
FitsWhole(objs, o) ==
  LET fills == FillsOf(objs, o.hash)
  IN  /\ \A f \in fills : \A call \in SettleCalls(objs, f.hash) :
           f.fee * BuyAuth(call).maxQuote <= BuyAuth(call).maxFee * f.quote
      /\ SumBase(fills) <= o.exclusiveBase
      /\ o.side = "buy" =>
           \A a \in Of(objs, "authorization") : a.hash = o.authHash =>
             /\ SumFunction([f \in fills |-> f.quote]) <= a.maxQuote
             /\ SumFunction([f \in fills |-> f.fee]) <= a.maxFee

FillsFit(objs) ==
  \A o \in Of(objs, "order") :
    o.trader = Me /\ FillsOf(objs, o.hash) # {} => FitsWhole(objs, o)

\* No object of the first listing names one that is yet to be made.
References(o) ==
  CASE o.type = "fill"  -> {o.makerOrder, o.takerOrder, o.makerAuth, o.takerAuth}
    [] o.type = "order" -> {o.authHash}
    [] OTHER -> {}
ASSUME ListingsFit == \A s \in DOMAIN Listings :
  /\ FillsFit(Listings[s])
  /\ \A o, p \in Listings[s] : o.hash = p.hash => o = p
  /\ \A o \in Listings[s] : References(o) \subseteq 1..(InitialHash - 1)

\* Orders and authorizations as the app signs them: each order has an
\* authorization of its own, which allows all of it, and names none to come.
Allows(a, o) ==
  IF o.side = "sell" THEN o.base <= a.maxBase ELSE QuoteFor(o.base, o.price) <= a.maxQuote
OwnAuths(orders, auths, n) ==
  /\ \A a \in auths : a.eip \in 0..(n - 1)
  /\ \A a, b \in auths : a.eip = b.eip => a.maxQuote = b.maxQuote /\ a.maxFee = b.maxFee
  /\ \A o \in orders : /\ {o.sessionAuth} \cup DOMAIN o.counterSet \subseteq 0..(n - 1)
                       /\ o.price <= MaxPrice
                       /\ \A a \in auths : a.eip = o.sessionAuth => Allows(a, o)
                       /\ \A p \in orders : o.sessionAuth = p.sessionAuth => o.eip = p.eip
ASSUME ListingsOwnAuths == \A s \in DOMAIN Listings :
  OwnAuths(Of(Listings[s], "order"), Of(Listings[s], "authorization"), InitialHash)

\* Every fill the app publishes for its user's order is one the contract can
\* take whole: its fee is within the buyer's pro rata cap for it, and the fills
\* of one order together, at whatever nodes, stay within what the user signed
\* (aon.ts:432-549).
PublishedFillsFit == FillsFit(Published)

\* A settler's receipt reports what the settlement moved, even when somebody took
\* part of the room after the user checked (page.tsx:574).  Whatever receipts
\* anyone else publishes, a fill is shown as settled only if the contract settled
\* it, and for the amount that moved when the receipt it is shown with is its
\* settler's (aon.ts:245-288).
ReceiptsMatchMoves ==
  /\ [](\A r \in Of(Published, "receipt") : r.by = "settler" =>
          \E t \in trades : t.key = r.key /\ t.base = r.base)
  /\ [][ReadBound => \A v \in refresh'.derived.fills : v.status = "settled" =>
          \E t \in trades :
            /\ t.key = v.key
            /\ (\E r \in Of(refresh.objs, "receipt") : r.hash \in v.receipts /\ r.by = "settler")
                 => v.base = t.base]_vars

\* What an open order of mine can still pull: what the contract has not filled
\* of it, but for a reserved part that lapsed, and for a buy the fees it may
\* still be charged.
CanStillPull(e) ==
  LET open == (IF e.voided THEN e.base - e.exclusiveBase + BoundOnChain(e.eip) ELSE e.base)
                - FilledOnChain(e.eip)
      fees == SumFunction([t \in {t \in trades : t.buyAuth = e.auth.eip} |-> t.fee])
  IN  IF e.side = "sell" THEN open ELSE QuoteFor(open, e.price) + (e.auth.maxFee - fees)

Covered(side) ==
  session.pc = "sign" /\ session.side = side /\ session.right =>
    allow[Me][session.token] >= session.need +
      SumFunction([e \in {e \in session.shown : e.side = side} |-> CanStillPull(e)])

\* When a sell is about to be signed, the allowance covers it and everything
\* the user's open sells can still deliver, whatever filled since the click, if
\* the book was right about them then (page.tsx:298-305, 378-397).
SellApprovalsCover == Covered("sell")

\* The same of buys, as the comment at page.tsx:295 has it.
ApprovalsCoverOpenOrders == Covered("sell") /\ Covered("buy")

\* A fill matched against an up-to-date book is one the contract accepts, in
\* full: what the app takes for reserved, void, funded and left, for a fair fee
\* and for enough to authorize, agrees with the contract's own rules, however
\* the orders it meets were filled before (aon.ts:336-549).
FreshFillsAreAccepted == [][\A n \in Nodes, form \in left.theirs :
  left'.rival < left.rival /\ RivalPlaces(n, form) =>
  \A f \in Of(stored'[n], "fill") \ stored[n] : \A call \in SettleCalls(stored'[n], f.hash) :
    call.maker.sessionAuth \notin revokedAuth => Accepts(call) /\ FittingOf(call) = f.base]_vars

\* The book knows every order and fill the node has, how much of each the
\* contract filled, and which of them are cancelled.
UpToDate(n) ==
  /\ {o.eip : o \in view.orders} = Eips(n)
  /\ \A o \in view.orders : o.cancelled \/ o.expired \/ o.filled = FilledOnChain(o.eip)
  /\ {v.key.nonce : v \in view.fills} = {f.nonce : f \in Of(stored[n], "fill")}
  /\ \A v \in view.fills : v.status = "settled" <=> v.key \in UsedKeys
  /\ \A r \in Of(stored[n], "revocation"), o \in view.orders :
       r.target \in {o.hash, o.auth.hash} => o.cancelled

\* When the world comes to rest with every node up, so does the book, on what
\* the nodes and the contract hold, whatever failed on the way (page.tsx:156-230).
BookConverges == <>[](up = Nodes) => <>[](\A n \in Nodes : UpToDate(n))
=============================================================================
