----------------------------- MODULE SpotPromise -----------------------------
(***************************************************************************)
(* What the settlement contract promises the people who sign: an order is  *)
(* an allowance that trades only ever use up.  There are no fills,         *)
(* executors, nonces, wallets or payouts here, only what is left of every  *)
(* order, of the part of it reserved for named counterparties, and of      *)
(* every authorization; a trade takes from both sides at once, at a price  *)
(* both accept.  EvmSpotSettlement implements this module.                 *)
(***************************************************************************)
EXTENDS Integers

CONSTANTS Auths, auth, Orders, order, Scale, MaxTime

VARIABLES
  now,
  closed,     \* orders cancelled, or whose authorization was revoked
  left,       \* base each order may still trade
  openPart,   \* of a bound order: base anyone but its legs may still take
  reserved,   \* of a bound order: base its legs are still to take first
  legLeft,    \* base each named counterparty may still take
  budget      \* base, quote and fee each authorization may still spend

vars == <<now, closed, left, openPart, reserved, legLeft, budget>>

Positive(n) == IF n > 0 THEN n ELSE 0
Quote(base, price) == (base * price) \div Scale
AuthOf(o) == order[o].sessionAuthHash

Init ==
  /\ now = 0
  /\ closed = {}
  /\ left = [o \in Orders |-> order[o].baseAmount]
  /\ openPart = [o \in Orders |-> order[o].baseAmount - order[o].exclusiveBase]
  /\ reserved = [o \in Orders |-> order[o].exclusiveBase]
  /\ legLeft = [o \in Orders |-> order[o].legs]
  /\ budget = [a \in Auths |-> [base  |-> auth[a].maxBaseExposure,
                                quote |-> auth[a].maxQuoteExposure,
                                fee   |-> auth[a].maxExecutorFeeQuote]]

Live(o) ==
  /\ o \notin closed
  /\ order[o].validAfter <= now /\ now <= order[o].validBefore
  /\ auth[AuthOf(o)].validAfter <= now /\ now <= auth[AuthOf(o)].validBefore
  /\ order[o].signer = order[o].trader
  /\ auth[AuthOf(o)].signer = order[o].trader

\* A trade of o with its named leg c, while the leg is reserved.
AsLeg(o, c) ==
  order[o].bound /\ now < order[o].exclusiveUntil /\ c \in DOMAIN order[o].legs

\* Any other trade of a bound order.
AsOther(o, c) == order[o].bound /\ ~AsLeg(o, c)

Willing(o, c, base, price) ==
  /\ Live(o)
  /\ base <= left[o]
  /\ AsLeg(o, c) => base <= legLeft[o][c] /\ price = order[c].price
  /\ AsOther(o, c) => /\ base <= openPart[o]
                      /\ reserved[o] = 0 \/ now >= order[o].exclusiveUntil

Counterparty(o, s, b) == IF o = s THEN b ELSE s

Take(o, c, base) ==
  [total |-> base,
   leg   |-> IF AsLeg(o, c) THEN base ELSE 0,
   other |-> IF AsOther(o, c) THEN base ELSE 0]

\* Sell order s and buy order b trade `base' at `price'; b's side pays `fee'.
Trade(s, b, base, price, fee) ==
  LET quote == Quote(base, price)
      T(o)  == IF o \in {s, b} THEN Take(o, Counterparty(o, s, b), base)
                               ELSE [total |-> 0, leg |-> 0, other |-> 0]
  IN
  /\ order[s].side = "sell" /\ order[b].side = "buy"
  /\ order[s].trader # order[b].trader
  /\ order[s].price <= price /\ price <= order[b].price
  /\ base > 0 /\ quote > 0
  /\ Willing(s, b, base, price) /\ Willing(b, s, base, price)
  /\ base <= budget[AuthOf(s)].base
  /\ quote <= budget[AuthOf(b)].quote
  /\ fee <= budget[AuthOf(b)].fee
  /\ left' = [o \in Orders |-> left[o] - T(o).total]
  /\ openPart' = [o \in Orders |-> openPart[o] - T(o).other]
  /\ reserved' = [o \in Orders |-> Positive(reserved[o] - T(o).leg)]
  /\ legLeft' = [o \in Orders |-> [c \in DOMAIN legLeft[o] |->
       legLeft[o][c] - (IF o \in {s, b} /\ c = Counterparty(o, s, b)
                        THEN T(o).leg ELSE 0)]]
  /\ budget' = [budget EXCEPT ![AuthOf(s)].base = @ - base,
                              ![AuthOf(b)].quote = @ - quote,
                              ![AuthOf(b)].fee = @ - fee]
  /\ UNCHANGED <<now, closed>>

Close(O) ==
  /\ closed' = closed \cup O
  /\ UNCHANGED <<now, left, openPart, reserved, legLeft, budget>>

Tick ==
  /\ now < MaxTime
  /\ now' = now + 1
  /\ UNCHANGED <<closed, left, openPart, reserved, legLeft, budget>>

Next ==
  \/ \E s, b \in Orders :
       \E base \in 1..left[s], price \in 0..order[b].price,
          fee \in 0..budget[AuthOf(b)].fee : Trade(s, b, base, price, fee)
  \/ \E O \in SUBSET Orders : Close(O)
  \/ Tick

Spec == Init /\ [][Next]_vars

=============================================================================
