----------------------- MODULE EvmSpotSettlementAudit -----------------------
(***************************************************************************)
(* Cross-ledger audits of the settlement contract.  The contract keeps     *)
(* separate totals per fill key, per order, per counterparty and per       *)
(* authorization, and the tokens keep their own; these invariants say that *)
(* they tell one story.                                                    *)
(***************************************************************************)
EXTENDS EvmSpotSettlement, FiniteSets, Functions

\* Orders and authorizations are named by their hashes, 256-bit words, so the
\* contract can ever see only finitely many.
ASSUME HashesAssumption == IsFiniteSet(Orders) /\ IsFiniteSet(Auths)

OrdersOf(a, side) == {o \in Orders : AuthOf(o) = a /\ order[o].side = side}

FillsOn(o) == {f \in usedFill : o \in TwoSides(f)}
BaseOf     == [f \in Fills |-> f.base]

\* The most quote a buy order's limit allows for what it has bought.
QuoteAtLimit == [o \in Orders |-> QuoteFor(filledBaseByOrder[o], order[o].price)]

\* Everything an order has filled is backed by distinct used fills that name
\* it: no fill is counted twice, whatever nonces executors reuse.
FilledIsBackedByFills ==
  \A o \in Orders : filledBaseByOrder[o] <= SumFunctionOnSet(BaseOf, FillsOn(o))

\* A bound order's reserved total is the sum of what its legs took.
BoundIsSumOfLegs ==
  \A o \in Orders :
    boundFilledBase[o] = SumFunctionOnSet(filledWithCounterparty[o], Orders)

\* An authorization is charged exactly for what its sell orders delivered, and
\* for no more quote than its buy orders' limits allow for what they bought,
\* so rounding over many fills never uses up a cap early.
ExposureMatchesOrders ==
  \A a \in Auths :
    /\ usedBaseByAuth[a] = SumFunctionOnSet(filledBaseByOrder, OrdersOf(a, "sell"))
    /\ usedQuoteByAuth[a] <= SumFunctionOnSet(QuoteAtLimit, OrdersOf(a, "buy"))

BuysOf(p, t) ==
  {o \in Orders : /\ order[o].side = "buy" /\ order[o].trader = p
                  /\ auth[AuthOf(o)].baseToken = t}
GrantsOf(p, t) == {a \in Auths : auth[a].grantor = p /\ auth[a].baseToken = t}

Bought(p, t) == SumFunctionOnSet(filledBaseByOrder, BuysOf(p, t))
Sold(p, t)   == SumFunctionOnSet(usedBaseByAuth, GrantsOf(p, t))

Coming(p) == IF payout.stage = "calling" /\ payout.buyer = p THEN payout.base ELSE 0

\* Base units reach the buyers that bought them, as coin or wrapped, also when
\* a payout is refused: every wallet holds what it started with, less what its
\* authorizations sold, plus what its orders bought.  (For base tokens that
\* are nobody's quote token, in runs where holders send nothing themselves.)
BaseReachesItsBuyers ==
  \A p \in Accounts, t \in {auth[a].baseToken : a \in Auths} :
    balance[t][p] + (IF t = WrappedNative THEN native[p] + Coming(p) ELSE 0)
      = InitialBalance[t][p] - Sold(p, t) + Bought(p, t)

=============================================================================
