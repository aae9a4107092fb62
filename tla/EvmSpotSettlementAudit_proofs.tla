------------------- MODULE EvmSpotSettlementAudit_proofs -------------------
(***************************************************************************)
(* The proofs that the contract's ledgers agree with each other.  Each     *)
(* audit compares one ledger with a sum over another, so each step says by *)
(* how much one settlement changes that sum.                               *)
(***************************************************************************)
EXTENDS EvmSpotSettlementAudit, EvmSpotSettlement_proofs, FunctionSums

\* The inductive invariant of the audits of the order and charge ledgers.
LedgersAgree ==
  /\ IsFiniteSet(usedFill)
  /\ FilledIsBackedByFills
  /\ BoundIsSumOfLegs
  /\ ExposureMatchesOrders

-----------------------------------------------------------------------------
(***************************************************************************)
(* What one settlement adds.                                               *)
(***************************************************************************)
\* Every set of orders and of authorizations is finite.
LEMMA FiniteSides ==
  /\ \A S \in SUBSET Orders : IsFiniteSet(S)
  /\ \A S \in SUBSET Auths : IsFiniteSet(S)
  BY HashesAssumption, FS_Subset

\* The sell order and the buy order are the two sides of a fill, and differ.
LEMMA SidesOfFill ==
  ASSUME NEW f \in Fills, Admitted(f)
  PROVE  /\ SellOrder(f) \in Orders /\ order[SellOrder(f)].side = "sell"
         /\ BuyOrder(f) \in Orders /\ order[BuyOrder(f)].side = "buy"
         /\ TwoSides(f) = {SellOrder(f), BuyOrder(f)}
         /\ f.price <= order[BuyOrder(f)].price
<1>1. /\ SellOrder(f) \in TwoSides(f) /\ BuyOrder(f) \in TwoSides(f)
      /\ TwoSides(f) \subseteq Orders
  BY PartiesOfFill
<1>2. /\ order[SellOrder(f)].side = "sell" /\ order[BuyOrder(f)].side = "buy"
      /\ f.price <= order[BuyOrder(f)].price
  BY <1>1, SignedSides
<1>3. TwoSides(f) = {SellOrder(f), BuyOrder(f)}
  BY DEF SellOrder, BuyOrder, TwoSides
<1>4. QED
  BY <1>1, <1>2, <1>3

\* An order's fills are backed by one more used fill, of at least the amount
\* that settled: a replayed fill is refused, so it was not among them before.
LEMMA SettlementKeepsBacking ==
  ASSUME TypeOK, IsFiniteSet(usedFill), FilledIsBackedByFills,
         NEW e, NEW f \in Fills, Settlement(e, f)
  PROVE  IsFiniteSet(usedFill') /\ FilledIsBackedByFills'
<1>1. PICK n : n = Amounts(f).base
  OBVIOUS
<1>2. Admitted(f) /\ n \in Nat /\ n <= f.base /\ f.base \in Nat
  BY <1>1, AmountFacts, PartiesOfFill DEF Settlement
<1>3. f \notin usedFill /\ usedFill' = usedFill \cup {f} /\ usedFill \subseteq Fills
  BY <1>2 DEF Settlement, RecordFill, Admitted, NotReplayed, TypeOK
<1>4. IsFiniteSet(usedFill')
  BY <1>3, FS_AddElement
<1>5. ASSUME NEW o \in Orders
      PROVE  filledBaseByOrder'[o] <= SumFunctionOnSet(BaseOf, FillsOn(o)')
  <2>1. PICK S : S = FillsOn(o)
    OBVIOUS
  <2>2. PICK R : R = FillsOn(o)'
    OBVIOUS
  <2>3. S \subseteq Fills /\ IsFiniteSet(S) /\ f \notin S
    BY <1>3, <2>1, FS_Subset DEF FillsOn
  <2>4. \A g \in Fills : BaseOf[g] = g.base /\ BaseOf[g] \in Int
    BY PartiesOfFill DEF BaseOf
  <2>5. /\ filledBaseByOrder[o] \in Nat /\ SumFunctionOnSet(BaseOf, S) \in Int
        /\ filledBaseByOrder[o] <= SumFunctionOnSet(BaseOf, S)
    BY <2>1, <2>3, <2>4, SumType DEF TypeOK, FilledIsBackedByFills
  <2>6. filledBaseByOrder'[o] = filledBaseByOrder[o] + (IF o \in TwoSides(f) THEN n ELSE 0)
    BY <1>1 DEF Settlement, RecordFill
  <2>7. CASE o \in TwoSides(f)
    <3>1. R = S \cup {f}
      BY <1>3, <2>1, <2>2, <2>7 DEF FillsOn
    <3>2. SumFunctionOnSet(BaseOf, R) = SumFunctionOnSet(BaseOf, S) + f.base
      BY <2>3, <2>4, <3>1, SumAdds
    <3>3. QED
      BY <1>2, <2>2, <2>5, <2>6, <2>7, <3>2
  <2>8. CASE o \notin TwoSides(f)
    <3>1. R = S
      BY <1>3, <2>1, <2>2, <2>8 DEF FillsOn
    <3>2. QED
      BY <2>2, <2>5, <2>6, <2>8, <3>1
  <2>9. QED
    BY <2>7, <2>8
<1>6. QED
  BY <1>4, <1>5 DEF FilledIsBackedByFills, BaseOf

\* The reserved total of an order grows by what the leg it filled grows by.
LEMMA SettlementKeepsLegSums ==
  ASSUME TypeOK, BoundIsSumOfLegs, NEW e, NEW f \in Fills, Settlement(e, f)
  PROVE  BoundIsSumOfLegs'
<1> SUFFICES ASSUME NEW o \in Orders
             PROVE  boundFilledBase'[o] = SumFunctionOnSet(filledWithCounterparty'[o], Orders)
  BY DEF BoundIsSumOfLegs
<1>1. PICK n : n = BoundPart(f, Amounts(f), o)
  OBVIOUS
<1>2. n \in Nat
  BY <1>1, AmountFacts DEF Settlement, BoundPart
<1>3. PICK h : h = filledWithCounterparty[o]
  OBVIOUS
<1>4. PICK k : k = filledWithCounterparty'[o]
  OBVIOUS
<1>5. h \in [Orders -> Nat] /\ boundFilledBase[o] \in Nat
  BY <1>3 DEF TypeOK
<1>6. boundFilledBase[o] = SumFunctionOnSet(h, Orders)
  BY <1>3 DEF BoundIsSumOfLegs
<1>7. /\ k = [c \in Orders |-> h[c] +
                (IF o \in TwoSides(f) /\ c = Counter(f, o) THEN n ELSE 0)]
      /\ boundFilledBase'[o] = boundFilledBase[o] + (IF o \in TwoSides(f) THEN n ELSE 0)
  BY <1>1, <1>3, <1>4 DEF Settlement, RecordFill
<1>8. CASE o \in TwoSides(f)
  <2>1. PICK c \in Orders : c = Counter(f, o)
    BY <1>8, PartiesOfFill
  <2>2. /\ \A x \in Orders : h[x] \in Int /\ k[x] \in Int
        /\ \A x \in Orders \ {c} : k[x] = h[x]
        /\ k[c] - h[c] = n
    BY <1>2, <1>5, <1>7, <1>8, <2>1
  <2>3. SumFunctionOnSet(k, Orders) = SumFunctionOnSet(h, Orders) + (k[c] - h[c])
    BY <2>2, HashesAssumption, SumChanges
  <2>4. QED
    BY <1>4, <1>6, <1>7, <1>8, <2>2, <2>3
<1>9. CASE o \notin TwoSides(f)
  <2>1. \A x \in Orders : k[x] = h[x]
    BY <1>5, <1>7, <1>9
  <2>2. SumFunctionOnSet(k, Orders) = SumFunctionOnSet(h, Orders)
    BY <2>1, HashesAssumption, SumAgrees
  <2>3. QED
    BY <1>4, <1>5, <1>6, <1>7, <1>9, <2>2
<1>10. QED
  BY <1>8, <1>9

\* What the sell orders of an authorization delivered grows by what the
\* authorization is charged.
LEMMA SettlementKeepsSales ==
  ASSUME TypeOK, NEW e, NEW f \in Fills, Settlement(e, f), NEW a \in Auths,
         usedBaseByAuth[a] = SumFunctionOnSet(filledBaseByOrder, OrdersOf(a, "sell"))
  PROVE  usedBaseByAuth'[a] = SumFunctionOnSet(filledBaseByOrder', OrdersOf(a, "sell"))
<1>1. PICK n : n = Amounts(f).base
  OBVIOUS
<1>2. Admitted(f) /\ n \in Nat
  BY <1>1, AmountFacts DEF Settlement
<1>3. PICK h : h = filledBaseByOrder
  OBVIOUS
<1>4. PICK k : k = filledBaseByOrder'
  OBVIOUS
<1>5. h \in [Orders -> Nat] /\ usedBaseByAuth \in [Auths -> Nat]
  BY <1>3 DEF TypeOK
<1>6. k = [o \in Orders |-> h[o] + (IF o \in TwoSides(f) THEN n ELSE 0)]
  BY <1>1, <1>3, <1>4 DEF Settlement, RecordFill
<1>7. PICK s \in Orders : s = SellOrder(f)
  BY <1>2, SidesOfFill
<1>8. usedBaseByAuth'[a] = usedBaseByAuth[a] + (IF a = AuthOf(s) THEN n ELSE 0)
  BY <1>1, <1>5, <1>7 DEF Settlement, ConsumeExposure
<1>9. PICK S : S = OrdersOf(a, "sell")
  OBVIOUS
<1>10. S \subseteq Orders /\ IsFiniteSet(S) /\ \A x \in S : order[x].side = "sell"
  BY <1>9, FiniteSides DEF OrdersOf
<1>11. \A x \in S : x \in TwoSides(f) <=> x = s
  BY <1>2, <1>7, <1>10, SidesOfFill
<1>12. /\ \A x \in S : h[x] \in Int /\ k[x] \in Int
       /\ \A x \in S \ {s} : k[x] = h[x]
  BY <1>2, <1>5, <1>6, <1>10, <1>11
<1>13. usedBaseByAuth[a] = SumFunctionOnSet(h, S) /\ usedBaseByAuth[a] \in Nat
  BY <1>3, <1>5, <1>9
<1>14. CASE a = AuthOf(s)
  <2>1. s \in S
    BY <1>2, <1>7, <1>9, <1>14, SidesOfFill DEF OrdersOf
  <2>2. k[s] - h[s] = n
    BY <1>2, <1>5, <1>6, <1>11, <2>1
  <2>3. SumFunctionOnSet(k, S) = SumFunctionOnSet(h, S) + (k[s] - h[s])
    BY <1>10, <1>12, <2>1, SumChanges
  <2>4. QED
    BY <1>4, <1>8, <1>9, <1>13, <1>14, <2>2, <2>3
<1>15. CASE a # AuthOf(s)
  <2>1. s \notin S
    BY <1>9, <1>15 DEF OrdersOf
  <2>2. SumFunctionOnSet(k, S) = SumFunctionOnSet(h, S)
    BY <1>10, <1>12, <2>1, SumAgrees
  <2>3. QED
    BY <1>4, <1>8, <1>9, <1>13, <1>15, <2>2
<1>16. QED
  BY <1>14, <1>15

\* What the limits of its buy orders allow for what they bought grows by at
\* least the quote an authorization is charged, although every fill's quote is
\* rounded on its own.
LEMMA SettlementKeepsPurchases ==
  ASSUME TypeOK, NEW e, NEW f \in Fills, Settlement(e, f), NEW a \in Auths,
         usedQuoteByAuth[a] <= SumFunctionOnSet(QuoteAtLimit, OrdersOf(a, "buy"))
  PROVE  usedQuoteByAuth'[a] <= SumFunctionOnSet(QuoteAtLimit', OrdersOf(a, "buy"))
<1>1. PICK n : n = Amounts(f).base
  OBVIOUS
<1>2. PICK q : q = Amounts(f).quote
  OBVIOUS
<1>3. Admitted(f) /\ n \in Nat /\ q \in Nat /\ q = QuoteFor(n, f.price) /\ f.price \in Nat
  BY <1>1, <1>2, AmountFacts, PartiesOfFill DEF Settlement, Amounts, SettledQuote
<1>4. PICK h : h = QuoteAtLimit
  OBVIOUS
<1>5. PICK k : k = QuoteAtLimit'
  OBVIOUS
<1>6. \A o \in Orders : filledBaseByOrder[o] \in Nat /\ order[o].price \in Nat
  BY SignedDataAssumption DEF TypeOK
<1>7. usedQuoteByAuth \in [Auths -> Nat]
  BY DEF TypeOK
<1>8. PICK b \in Orders : b = BuyOrder(f)
  BY <1>3, SidesOfFill
<1>9. usedQuoteByAuth'[a] = usedQuoteByAuth[a] + (IF a = AuthOf(b) THEN q ELSE 0)
  BY <1>2, <1>7, <1>8 DEF Settlement, ConsumeExposure
<1>10. PICK S : S = OrdersOf(a, "buy")
  OBVIOUS
<1>11. S \subseteq Orders /\ IsFiniteSet(S) /\ \A x \in S : order[x].side = "buy"
  BY <1>10, FiniteSides DEF OrdersOf
<1>12. \A x \in S : x \in TwoSides(f) <=> x = b
  BY <1>3, <1>8, <1>11, SidesOfFill
<1>13. \A x \in S : h[x] = QuoteFor(filledBaseByOrder[x], order[x].price) /\ h[x] \in Nat
  BY <1>4, <1>6, <1>11, QuoteNat DEF QuoteAtLimit
<1>14. \A x \in S \ {b} : k[x] = h[x]
  <2>1. \A x \in S \ {b} : filledBaseByOrder'[x] = filledBaseByOrder[x]
    BY <1>6, <1>11, <1>12 DEF Settlement, RecordFill
  <2>2. \A x \in S : k[x] = QuoteFor(filledBaseByOrder'[x], order[x].price)
    BY <1>5, <1>11 DEF QuoteAtLimit, QuoteFor
  <2>3. QED
    BY <1>13, <2>1, <2>2
<1>15. usedQuoteByAuth[a] <= SumFunctionOnSet(h, S) /\ usedQuoteByAuth[a] \in Nat
  BY <1>4, <1>7, <1>10
<1>16. SumFunctionOnSet(h, S) \in Int
  BY <1>11, <1>13, SumType
<1>17. CASE a = AuthOf(b)
  <2>1. b \in S
    BY <1>3, <1>8, <1>10, <1>17, SidesOfFill DEF OrdersOf
  <2>2. PICK x : x = filledBaseByOrder[b]
    OBVIOUS
  <2>3. PICK p : p = order[b].price
    OBVIOUS
  <2>4. x \in Nat /\ p \in Nat /\ f.price <= p /\ x + n \in Nat
    BY <1>3, <1>6, <1>8, <2>2, <2>3, SidesOfFill
  <2>5. k[b] = QuoteFor(x + n, p) /\ h[b] = QuoteFor(x, p)
    <3>1. filledBaseByOrder'[b] = x + n
      BY <1>1, <1>12, <2>1, <2>2 DEF Settlement, RecordFill
    <3>2. k[b] = QuoteFor(filledBaseByOrder'[b], p)
      BY <1>5, <2>3 DEF QuoteAtLimit, QuoteFor
    <3>3. QED
      BY <1>13, <2>1, <2>2, <2>3, <3>1, <3>2
  <2>6. q <= QuoteFor(n, p)
    BY <1>3, <2>4, QuoteMonotone
  <2>7. QuoteFor(x, p) + QuoteFor(n, p) <= QuoteFor(x + n, p)
    BY <1>3, <2>4, QuotesAddUp
  <2>8. QuoteFor(x, p) \in Nat /\ QuoteFor(n, p) \in Nat /\ QuoteFor(x + n, p) \in Nat
    BY <1>3, <2>4, QuoteNat
  <2>9. q <= k[b] - h[b] /\ k[b] \in Int /\ h[b] \in Int
    BY <1>3, <2>5, <2>6, <2>7, <2>8
  <2>10. \A y \in S : h[y] \in Int /\ k[y] \in Int
    BY <1>13, <1>14, <2>9
  <2>11. SumFunctionOnSet(k, S) = SumFunctionOnSet(h, S) + (k[b] - h[b])
    BY <1>11, <1>14, <2>1, <2>10, SumChanges
  <2>12. usedQuoteByAuth'[a] <= SumFunctionOnSet(k, S)
    BY <1>3, <1>9, <1>15, <1>16, <1>17, <2>9, <2>11
  <2>13. QED
    BY <1>5, <1>10, <2>12
<1>18. CASE a # AuthOf(b)
  <2>1. b \notin S
    BY <1>10, <1>18 DEF OrdersOf
  <2>2. SumFunctionOnSet(k, S) = SumFunctionOnSet(h, S)
    BY <1>11, <1>14, <2>1, SumAgrees
  <2>3. QED
    BY <1>5, <1>9, <1>10, <1>15, <1>18, <2>2
<1>19. QED
  BY <1>17, <1>18

-----------------------------------------------------------------------------
(***************************************************************************)
(* The ledgers of orders and charges.                                      *)
(***************************************************************************)
\* They agree before anything has settled.
LEMMA InitLedgersAgree == Init => LedgersAgree
<1> SUFFICES ASSUME Init PROVE LedgersAgree
  OBVIOUS
<1>1. IsFiniteSet(usedFill)
  BY FS_EmptySet DEF Init
<1>2. FilledIsBackedByFills
  <2>1. \A o \in Orders : FillsOn(o) = {} /\ filledBaseByOrder[o] = 0
    BY DEF Init, FillsOn
  <2>2. QED
    BY <2>1, SumEmpty DEF FilledIsBackedByFills
<1>3. BoundIsSumOfLegs
  <2>1. \A o \in Orders : /\ boundFilledBase[o] = 0
                          /\ \A c \in Orders : filledWithCounterparty[o][c] = 0
    BY DEF Init
  <2>2. QED
    BY <2>1, HashesAssumption, SumOfZeros DEF BoundIsSumOfLegs
<1>4. ExposureMatchesOrders
  <2>1. \A a \in Auths : usedBaseByAuth[a] = 0 /\ usedQuoteByAuth[a] = 0
    BY DEF Init
  <2>2. \A o \in Orders : filledBaseByOrder[o] = 0 /\ QuoteAtLimit[o] \in Nat
    BY SignedDataAssumption, QuoteNat DEF Init, QuoteAtLimit
  <2>3. \A a \in Auths, side \in Sides :
          OrdersOf(a, side) \subseteq Orders /\ IsFiniteSet(OrdersOf(a, side))
    BY FiniteSides DEF OrdersOf
  <2>4. \A a \in Auths : SumFunctionOnSet(filledBaseByOrder, OrdersOf(a, "sell")) = 0
    BY <2>2, <2>3, SumOfZeros DEF Sides
  <2>5. ASSUME NEW a \in Auths
        PROVE  SumFunctionOnSet(QuoteAtLimit, OrdersOf(a, "buy")) \in Nat
    <3>1. PICK S : S = OrdersOf(a, "buy")
      OBVIOUS
    <3>2. IsFiniteSet(S) /\ \A x \in S : QuoteAtLimit[x] \in Nat
      BY <2>2, <2>3, <3>1 DEF Sides
    <3>3. QED
      BY <3>1, <3>2, SumType
  <2>6. QED
    BY <2>1, <2>4, <2>5 DEF ExposureMatchesOrders
<1>5. QED
  BY <1>1, <1>2, <1>3, <1>4 DEF LedgersAgree

\* Every step keeps them in agreement.
LEMMA NextLedgersAgree == SettlementInv /\ LedgersAgree /\ [Next]_vars => LedgersAgree'
<1> SUFFICES ASSUME SettlementInv, LedgersAgree, [Next]_vars
             PROVE  LedgersAgree'
  OBVIOUS
<1>1. ASSUME NEW e \in Executors, NEW f \in Fills,
             SettleInTokens(e, f) \/ SettleNative(e, f)
      PROVE  LedgersAgree'
  <2>1. Settlement(e, f) /\ TypeOK
    BY <1>1, SettleFacts DEF SettlementInv
  <2>2. IsFiniteSet(usedFill') /\ FilledIsBackedByFills'
    BY <2>1, SettlementKeepsBacking DEF LedgersAgree
  <2>3. BoundIsSumOfLegs'
    BY <2>1, SettlementKeepsLegSums DEF LedgersAgree
  <2>4. \A a \in Auths :
          /\ usedBaseByAuth'[a] = SumFunctionOnSet(filledBaseByOrder', OrdersOf(a, "sell"))
          /\ usedQuoteByAuth'[a] <= SumFunctionOnSet(QuoteAtLimit', OrdersOf(a, "buy"))
    BY <2>1, SettlementKeepsSales, SettlementKeepsPurchases
    DEF LedgersAgree, ExposureMatchesOrders
  <2>5. ExposureMatchesOrders'
    BY <2>4 DEF ExposureMatchesOrders, OrdersOf, AuthOf
  <2>6. QED
    BY <2>2, <2>3, <2>5 DEF LedgersAgree
<1>2. CASE UNCHANGED <<fillVars, exposureVars>>
  BY <1>2
  DEF LedgersAgree, FilledIsBackedByFills, BoundIsSumOfLegs, ExposureMatchesOrders,
      FillsOn, BaseOf, TwoSides, OrdersOf, AuthOf, QuoteAtLimit, QuoteFor,
      fillVars, exposureVars
<1>3. QED
  BY <1>1, <1>2, LedgerWriters

\* The ledgers always agree.
THEOREM LedgersAlwaysAgree == Spec => []LedgersAgree
  BY Invariance, InitLedgersAgree, NextLedgersAgree, PTL DEF Spec

\* Everything an order has filled is backed by distinct used fills.
THEOREM FilledBacked == Spec => []FilledIsBackedByFills
<1>1. LedgersAgree => FilledIsBackedByFills
  BY DEF LedgersAgree
<1>2. QED
  BY <1>1, LedgersAlwaysAgree, PTL

\* A bound order's reserved total is always what its legs took.
THEOREM BoundIsLegs == Spec => []BoundIsSumOfLegs
<1>1. LedgersAgree => BoundIsSumOfLegs
  BY DEF LedgersAgree
<1>2. QED
  BY <1>1, LedgersAlwaysAgree, PTL

\* An authorization is charged exactly for what its orders delivered, and never
\* more than their limits allow for what they bought.
THEOREM ExposureMatches == Spec => []ExposureMatchesOrders
<1>1. LedgersAgree => ExposureMatchesOrders
  BY DEF LedgersAgree
<1>2. QED
  BY <1>1, LedgersAlwaysAgree, PTL

-----------------------------------------------------------------------------
(***************************************************************************)
(* The wallets.                                                            *)
(***************************************************************************)
\* No token is bought with in one market and bought in another.
BasesAreNotQuotes == \A a, b \in Auths : auth[a].baseToken # auth[b].quoteToken

BaseTokens == {auth[a].baseToken : a \in Auths}

\* What p has of base token t: wrapped, as coin, or as coin on its way.
Held(p, t) == balance[t][p] + (IF t = WrappedNative THEN native[p] + Coming(p) ELSE 0)

\* A settlement takes the base from the seller and delivers it to the buyer, as
\* tokens or as coin on its way, whoever the executor is.
LEMMA SettlementDelivers ==
  ASSUME BasesAreNotQuotes, TypeOK, NEW e \in Executors, NEW f \in Fills,
         SettleInTokens(e, f) \/ SettleNative(e, f),
         NEW p \in Accounts, NEW t \in BaseTokens
  PROVE  /\ t = BaseToken(f) /\ p = Seller(f) => Held(p, t)' = Held(p, t) - Amounts(f).base
         /\ t = BaseToken(f) /\ p = Buyer(f) => Held(p, t)' = Held(p, t) + Amounts(f).base
         /\ t # BaseToken(f) \/ p \notin {Seller(f), Buyer(f)} => Held(p, t)' = Held(p, t)
<1> DEFINE q == QuoteToken(f)
           b == BaseToken(f)
           s == Seller(f)
           r == Buyer(f)
           one == AfterQuote(f, Amounts(f))
           two == AfterFee(e, f, Amounts(f))
<1>1. PICK mb, mq, mf : /\ mb = Amounts(f).base
                        /\ mq = Amounts(f).quote
                        /\ mf = Amounts(f).fee
  OBVIOUS
<1>2. Settlement(e, f) /\ payout = NoPayout
  BY SettleFacts
<1>3. /\ mb \in Nat /\ mq \in Nat /\ mf \in Nat
      /\ Fits(e, f, Amounts(f)) /\ Admitted(f)
  BY <1>1, <1>2, AmountFacts DEF Settlement
<1>4. /\ q \in Tokens /\ b \in Tokens /\ s \in Holders /\ r \in Holders
      /\ e \in Holders /\ p \in Holders /\ p # Self /\ Self \in Holders
      /\ s \in Accounts /\ r \in Accounts
  BY PartiesOfFill, SignedDataAssumption DEF Holders
<1>5. s # r
  BY <1>1, <1>3, TwoWallets
<1>6. t # q /\ t \in Tokens
  <2>1. PICK a \in Auths : t = auth[a].baseToken
    BY DEF BaseTokens
  <2>2. q = auth[AuthOf(f.maker)].quoteToken /\ AuthOf(f.maker) \in Auths
    BY PartiesOfFill DEF QuoteToken
  <2>3. QED
    BY <2>1, <2>2, SignedDataAssumption DEF BasesAreNotQuotes, AuthRecord
<1>7. /\ balance \in [Tokens -> [Holders -> Nat]]
      /\ native \in [Holders -> Nat]
  BY DEF TypeOK
<1>8. one = Moved(balance, q, r, s, mq) /\ two = Moved(one, q, r, e, mf)
  BY <1>1 DEF AfterQuote, AfterFee
<1>9. one \in [Tokens -> [Holders -> Nat]] /\ two \in [Tokens -> [Holders -> Nat]]
  <2>1. balance[q][r] >= mq /\ one[q][r] >= mf
    BY <1>1, <1>3 DEF Fits, WalletsCover
  <2> HIDE DEF q, b, s, r, one, two
  <2>2. one \in [Tokens -> [Holders -> Nat]]
    BY <1>3, <1>4, <1>7, <1>8, <2>1, MovedType
  <2>3. QED
    BY <1>3, <1>4, <1>8, <2>1, <2>2, MovedType
<1>10. \/ /\ balance' = Moved(two, b, s, r, mb)
          /\ native' = native /\ payout' = NoPayout
       \/ /\ balance' = [two EXCEPT ![b][s] = @ - mb]
          /\ native' = [native EXCEPT ![Self] = @ + mb]
          /\ payout' = [stage |-> "calling", buyer |-> r, base |-> mb]
          /\ b = WrappedNative
  <2>1. CASE SettleInTokens(e, f)
    BY <1>1, <1>2, <2>1 DEF SettleInTokens
  <2>2. CASE SettleNative(e, f)
    <3>1. BuyOrder(f) \in TwoSides(f) /\ VerifyOrder(BuyOrder(f))
      BY <1>3, PartiesOfFill DEF Admitted
    <3>2. NativeAllowed(BuyOrder(f))
      BY <2>2, <3>1 DEF SettleNative, PaysNative, VerifyOrder
    <3>3. b = WrappedNative
      BY <1>3, <3>1, <3>2, TokensOfFill DEF NativeAllowed
    <3>4. QED
      BY <1>1, <2>2, <3>3 DEF SettleNative
  <2>3. QED
    BY <2>1, <2>2
<1> HIDE DEF q, b, s, r, one, two
<1>11. two[t][p] = balance[t][p]
  <2>1. Shifted(balance, Moved(balance, q, r, s, mq), q, r, s, mq, t, p)
    BY <1>3, <1>4, <1>6, <1>7, MovedAt
  <2>2. Shifted(one, Moved(one, q, r, e, mf), q, r, e, mf, t, p)
    BY <1>3, <1>4, <1>6, <1>9, MovedAt
  <2>3. QED
    BY <1>6, <1>8, <2>1, <2>2 DEF Shifted
<1>12. Held(p, t) = balance[t][p] + (IF t = WrappedNative THEN native[p] ELSE 0)
  <2>1. Coming(p) = 0
    BY <1>2 DEF Coming, NoPayout
  <2>2. native[p] \in Nat
    BY <1>4, <1>7
  <2>3. QED
    BY <2>1, <2>2 DEF Held
<1>13. balance[t][p] \in Nat /\ native[p] \in Nat
  BY <1>4, <1>6, <1>7
<1>14. PICK x, y, z : x = balance'[t][p] /\ y = native'[p] /\ z = Coming(p)'
  OBVIOUS
<1>15. Held(p, t)' = x + (IF t = WrappedNative THEN y + z ELSE 0)
  BY <1>14 DEF Held
<1>16. PICK pay : pay = payout'
  OBVIOUS
<1>17. z = IF pay.stage = "calling" /\ pay.buyer = p THEN pay.base ELSE 0
  BY <1>14, <1>16 DEF Coming
<1>18. CASE /\ balance' = Moved(two, b, s, r, mb)
            /\ native' = native /\ payout' = NoPayout
  <2>1. Shifted(two, Moved(two, b, s, r, mb), b, s, r, mb, t, p)
    BY <1>3, <1>4, <1>6, <1>9, MovedAt
  <2>2. PICK w : w = Moved(two, b, s, r, mb)
    OBVIOUS
  <2>3. x = w[t][p] /\ y = native[p] /\ z = 0
    BY <1>14, <1>16, <1>17, <1>18, <2>2 DEF NoPayout
  <2>4. /\ t = b /\ p = s => x = balance[t][p] - mb
        /\ t = b /\ p = r => x = balance[t][p] + mb
        /\ t # b \/ p \notin {s, r} => x = balance[t][p]
    BY <1>5, <1>11, <2>1, <2>2, <2>3 DEF Shifted
  <2>5. /\ t = b /\ p = s => Held(p, t)' = Held(p, t) - mb
        /\ t = b /\ p = r => Held(p, t)' = Held(p, t) + mb
        /\ t # b \/ p \notin {s, r} => Held(p, t)' = Held(p, t)
    BY <1>3, <1>12, <1>13, <1>15, <2>3, <2>4
  <2>6. QED
    BY <1>1, <2>5 DEF b, s, r
<1>19. CASE /\ balance' = [two EXCEPT ![b][s] = @ - mb]
            /\ native' = [native EXCEPT ![Self] = @ + mb]
            /\ payout' = [stage |-> "calling", buyer |-> r, base |-> mb]
            /\ b = WrappedNative
  <2>1. x = IF t = b /\ p = s THEN balance[t][p] - mb ELSE balance[t][p]
    BY <1>4, <1>6, <1>9, <1>11, <1>14, <1>19
  <2>2. y = native[p]
    BY <1>4, <1>7, <1>14, <1>19
  <2>3. pay.stage = "calling" /\ pay.buyer = r /\ pay.base = mb
    BY <1>16, <1>19
  <2>4. z = IF p = r THEN mb ELSE 0
    BY <1>17, <2>3
  <2>5. /\ t = b /\ p = s => Held(p, t)' = Held(p, t) - mb
        /\ t = b /\ p = r => Held(p, t)' = Held(p, t) + mb
        /\ t # b \/ p \notin {s, r} => Held(p, t)' = Held(p, t)
    <3>1. CASE t = b
      BY <1>3, <1>5, <1>12, <1>13, <1>15, <1>19, <2>1, <2>2, <2>4, <3>1
    <3>2. CASE t # b
      BY <1>12, <1>13, <1>15, <1>19, <2>1, <3>2
    <3>3. QED
      BY <3>1, <3>2
  <2>6. QED
    BY <1>1, <2>5 DEF b, s, r
<1>20. QED
  BY <1>10, <1>18, <1>19

\* What a wallet's authorizations sold grows by what it delivered.
LEMMA SettlementSells ==
  ASSUME TypeOK, NEW e, NEW f \in Fills, Settlement(e, f),
         NEW p \in Accounts, NEW t \in BaseTokens
  PROVE  /\ Sold(p, t) \in Int
         /\ Sold(p, t)' = Sold(p, t) +
              (IF t = BaseToken(f) /\ p = Seller(f) THEN Amounts(f).base ELSE 0)
<1>1. PICK n : n = Amounts(f).base
  OBVIOUS
<1>2. Admitted(f) /\ n \in Nat
  BY <1>1, AmountFacts DEF Settlement
<1>3. PICK h : h = usedBaseByAuth
  OBVIOUS
<1>4. PICK k : k = usedBaseByAuth'
  OBVIOUS
<1>5. PICK a \in Auths : a = AuthOf(SellOrder(f))
  BY <1>2, SidesOfFill, PartiesOfFill
<1>6. h \in [Auths -> Nat] /\ k = [h EXCEPT ![a] = @ + n]
  BY <1>1, <1>3, <1>4, <1>5 DEF TypeOK, Settlement, ConsumeExposure
<1>7. PICK S : S = GrantsOf(p, t)
  OBVIOUS
<1>8. S \subseteq Auths /\ IsFiniteSet(S)
  BY <1>7, FiniteSides DEF GrantsOf
<1>9. a \in S <=> t = BaseToken(f) /\ p = Seller(f)
  BY <1>2, <1>5, <1>7, SidesOfFill, TokensOfFill DEF GrantsOf, Seller
<1>10. /\ \A x \in S : h[x] \in Int /\ k[x] \in Int
       /\ \A x \in S \ {a} : k[x] = h[x]
       /\ k[a] - h[a] = n
  BY <1>2, <1>6, <1>8
<1>11. Sold(p, t) = SumFunctionOnSet(h, S) /\ SumFunctionOnSet(h, S) \in Int
  BY <1>3, <1>7, <1>8, <1>10, SumType DEF Sold
<1>12. Sold(p, t)' = SumFunctionOnSet(k, S)
  BY <1>4, <1>7 DEF Sold, GrantsOf
<1>13. CASE a \in S
  <2>1. SumFunctionOnSet(k, S) = SumFunctionOnSet(h, S) + (k[a] - h[a])
    BY <1>8, <1>10, <1>13, SumChanges
  <2>2. QED
    BY <1>1, <1>9, <1>10, <1>11, <1>12, <1>13, <2>1
<1>14. CASE a \notin S
  <2>1. SumFunctionOnSet(k, S) = SumFunctionOnSet(h, S)
    BY <1>8, <1>10, <1>14, SumAgrees
  <2>2. QED
    BY <1>9, <1>11, <1>12, <1>14, <2>1
<1>15. QED
  BY <1>13, <1>14

\* What a wallet's orders bought grows by what was delivered to it.
LEMMA SettlementBuys ==
  ASSUME TypeOK, NEW e, NEW f \in Fills, Settlement(e, f),
         NEW p \in Accounts, NEW t \in BaseTokens
  PROVE  /\ Bought(p, t) \in Int
         /\ Bought(p, t)' = Bought(p, t) +
              (IF t = BaseToken(f) /\ p = Buyer(f) THEN Amounts(f).base ELSE 0)
<1>1. PICK n : n = Amounts(f).base
  OBVIOUS
<1>2. Admitted(f) /\ n \in Nat
  BY <1>1, AmountFacts DEF Settlement
<1>3. PICK h : h = filledBaseByOrder
  OBVIOUS
<1>4. PICK k : k = filledBaseByOrder'
  OBVIOUS
<1>5. PICK b \in Orders : b = BuyOrder(f)
  BY <1>2, SidesOfFill
<1>6. /\ h \in [Orders -> Nat]
      /\ k = [o \in Orders |-> h[o] + (IF o \in TwoSides(f) THEN n ELSE 0)]
  BY <1>1, <1>3, <1>4 DEF TypeOK, Settlement, RecordFill
<1>7. PICK S : S = BuysOf(p, t)
  OBVIOUS
<1>8. S \subseteq Orders /\ IsFiniteSet(S) /\ \A x \in S : order[x].side = "buy"
  BY <1>7, FiniteSides DEF BuysOf
<1>9. b \in S <=> t = BaseToken(f) /\ p = Buyer(f)
  <2>1. /\ b \in TwoSides(f) /\ order[b].side = "buy" /\ order[b].trader = Buyer(f)
        /\ auth[AuthOf(b)].baseToken = BaseToken(f)
    BY <1>2, <1>5, SidesOfFill, SignedSides, TokensOfFill
  <2>2. QED
    BY <1>7, <2>1 DEF BuysOf
<1>10. \A x \in S : x \in TwoSides(f) <=> x = b
  BY <1>2, <1>5, <1>8, SidesOfFill
<1>11. /\ \A x \in S : h[x] \in Int /\ k[x] \in Int
       /\ \A x \in S \ {b} : k[x] = h[x]
       /\ b \in S => k[b] - h[b] = n
  BY <1>2, <1>6, <1>8, <1>10
<1>12. Bought(p, t) = SumFunctionOnSet(h, S) /\ SumFunctionOnSet(h, S) \in Int
  BY <1>3, <1>7, <1>8, <1>11, SumType DEF Bought
<1>13. Bought(p, t)' = SumFunctionOnSet(k, S)
  BY <1>4, <1>7 DEF Bought, BuysOf, AuthOf
<1>14. CASE b \in S
  <2>1. SumFunctionOnSet(k, S) = SumFunctionOnSet(h, S) + (k[b] - h[b])
    BY <1>8, <1>11, <1>14, SumChanges
  <2>2. QED
    BY <1>1, <1>9, <1>11, <1>12, <1>13, <1>14, <2>1
<1>15. CASE b \notin S
  <2>1. SumFunctionOnSet(k, S) = SumFunctionOnSet(h, S)
    BY <1>8, <1>11, <1>15, SumAgrees
  <2>2. QED
    BY <1>9, <1>12, <1>13, <1>15, <2>1
<1>16. QED
  BY <1>14, <1>15

\* Handing over the coin, or the wrapped token instead of it, changes what the
\* buyer holds in kind but not in amount.
LEMMA PayoutKeepsHeld ==
  ASSUME TypeOK, PayoutIsWrappedNative,
         PayoutAccepted \/ PayoutReturns \/ PayoutRefused,
         NEW p \in Accounts, NEW t \in BaseTokens
  PROVE  Held(p, t)' = Held(p, t)
<1>1. /\ p \in Holders /\ p # Self /\ Self \in Holders /\ t \in Tokens
      /\ balance \in [Tokens -> [Holders -> Nat]] /\ native \in [Holders -> Nat]
  BY SignedDataAssumption DEF TypeOK, Holders, BaseTokens, AuthRecord
<1>2. balance[t][p] \in Nat /\ native[p] \in Nat
  BY <1>1
<1>3. PICK x, y, z : x = balance'[t][p] /\ y = native'[p] /\ z = Coming(p)'
  OBVIOUS
<1>4. Held(p, t)' = x + (IF t = WrappedNative THEN y + z ELSE 0)
  BY <1>3 DEF Held
<1>5. PICK pay : pay = payout'
  OBVIOUS
<1>6. z = IF pay.stage = "calling" /\ pay.buyer = p THEN pay.base ELSE 0
  BY <1>3, <1>5 DEF Coming
<1>7. CASE PayoutReturns
  BY <1>3, <1>4, <1>5, <1>6, <1>7
  DEF PayoutReturns, walletVars, Held, Coming, NoPayout
<1>8. CASE PayoutAccepted \/ PayoutRefused
  <2>1. PICK r, n : r = payout.buyer /\ n = payout.base
    OBVIOUS
  <2>2. /\ payout.stage = "calling" /\ r \in Accounts /\ n \in Nat
        /\ r \in Holders /\ r # Self /\ WrappedNative \in Tokens
    BY <1>8, <2>1, SignedDataAssumption
    DEF PayoutAccepted, PayoutRefused, TypeOK, Payouts, NoPayout, PayoutIsWrappedNative, Holders
  <2>3. Coming(p) = IF p = r THEN n ELSE 0
    BY <2>1, <2>2 DEF Coming
  <2>4. CASE PayoutAccepted
    <3>1. x = balance[t][p]
      BY <1>3, <2>4 DEF PayoutAccepted
    <3>2. PICK sent : sent = [native EXCEPT ![Self] = @ - n]
      OBVIOUS
    <3>3. native' = [sent EXCEPT ![r] = @ + n]
      BY <2>1, <2>4, <3>2 DEF PayoutAccepted
    <3>4. y = native[p] + (IF p = r THEN n ELSE 0)
      BY <1>1, <1>3, <2>2, <3>2, <3>3
    <3>5. z = 0
      <4>1. pay = [payout EXCEPT !.stage = "accepted"] /\ "stage" \in DOMAIN payout
        BY <1>5, <2>2, <2>4 DEF PayoutAccepted, TypeOK, Payouts, NoPayout
      <4>2. pay.stage = "accepted"
        BY <4>1
      <4>3. QED
        BY <1>6, <4>2
    <3>6. QED
      BY <1>2, <1>4, <2>2, <2>3, <3>1, <3>4, <3>5 DEF Held
  <2>5. CASE PayoutRefused
    <3>1. balance' = [balance EXCEPT ![WrappedNative][r] = @ + n]
      BY <2>1, <2>5 DEF PayoutRefused
    <3>2. x = balance[t][p] + (IF t = WrappedNative /\ p = r THEN n ELSE 0)
      BY <1>1, <1>3, <2>2, <3>1
    <3>3. native' = [native EXCEPT ![Self] = @ - n]
      BY <2>1, <2>5 DEF PayoutRefused
    <3>4. y = native[p]
      BY <1>1, <1>3, <3>3
    <3>5. z = 0
      BY <1>5, <1>6, <2>5 DEF PayoutRefused, NoPayout
    <3>6. QED
      BY <1>2, <1>4, <2>2, <2>3, <3>2, <3>4, <3>5 DEF Held
  <2>6. QED
    BY <1>8, <2>4, <2>5
<1>9. QED
  BY <1>7, <1>8

\* Before anything has settled every wallet holds what it started with.
LEMMA InitBase == Init => BaseReachesItsBuyers
<1> SUFFICES ASSUME Init, NEW p \in Accounts, NEW t \in BaseTokens
             PROVE  Held(p, t) = InitialBalance[t][p] - Sold(p, t) + Bought(p, t)
  BY DEF BaseReachesItsBuyers, BaseTokens, Held
<1>1. t \in Tokens /\ p \in Holders
  BY SignedDataAssumption DEF BaseTokens, AuthRecord, Holders
<1>2. Sold(p, t) = 0
  <2>1. \A a \in GrantsOf(p, t) : usedBaseByAuth[a] = 0
    BY DEF Init, GrantsOf
  <2>2. IsFiniteSet(GrantsOf(p, t))
    BY FiniteSides DEF GrantsOf
  <2>3. QED
    BY <2>1, <2>2, SumOfZeros DEF Sold
<1>3. Bought(p, t) = 0
  <2>1. \A o \in BuysOf(p, t) : filledBaseByOrder[o] = 0
    BY DEF Init, BuysOf
  <2>2. IsFiniteSet(BuysOf(p, t))
    BY FiniteSides DEF BuysOf
  <2>3. QED
    BY <2>1, <2>2, SumOfZeros DEF Bought
<1>4. balance[t][p] = InitialBalance[t][p] /\ InitialBalance[t][p] \in Nat
  BY <1>1, EnvironmentAssumption DEF Init
<1>5. native[p] = 0 /\ Coming(p) = 0
  BY <1>1 DEF Init, Coming, NoPayout
<1>6. QED
  BY <1>2, <1>3, <1>4, <1>5 DEF Held

\* Every step keeps the account of every wallet, as long as the holders send
\* no tokens themselves.
LEMMA NextBase ==
  ASSUME BasesAreNotQuotes, Transfers = {}
  PROVE  SettlementInv /\ BaseReachesItsBuyers /\ [Next]_vars => BaseReachesItsBuyers'
<1> SUFFICES ASSUME SettlementInv, BaseReachesItsBuyers, [Next]_vars,
                    NEW p \in Accounts, NEW t \in BaseTokens
             PROVE  Held(p, t)' = InitialBalance[t][p] - Sold(p, t)' + Bought(p, t)'
  BY DEF BaseReachesItsBuyers, BaseTokens, Held
<1>1. /\ TypeOK /\ PayoutIsWrappedNative
      /\ Held(p, t) = InitialBalance[t][p] - Sold(p, t) + Bought(p, t)
  BY DEF SettlementInv, BaseReachesItsBuyers, BaseTokens, Held
<1>2. t \in Tokens /\ InitialBalance[t][p] \in Int
  BY SignedDataAssumption, EnvironmentAssumption DEF BaseTokens, AuthRecord
<1>3. ASSUME NEW e \in Executors, NEW f \in Fills,
             SettleInTokens(e, f) \/ SettleNative(e, f)
      PROVE  Held(p, t)' = InitialBalance[t][p] - Sold(p, t)' + Bought(p, t)'
  <2>1. Settlement(e, f)
    BY <1>3, SettleFacts
  <2>2. PICK n : n = Amounts(f).base
    OBVIOUS
  <2>3. n \in Nat /\ Seller(f) # Buyer(f)
    BY <1>1, <2>1, <2>2, AmountFacts, TwoWallets DEF Settlement
  <2>4. PICK x, u, v, w, y, z : /\ x = Held(p, t) /\ u = Sold(p, t) /\ v = Bought(p, t)
                                /\ w = Held(p, t)' /\ y = Sold(p, t)' /\ z = Bought(p, t)'
    OBVIOUS
  <2>5. /\ t = BaseToken(f) /\ p = Seller(f) => w = x - n
        /\ t = BaseToken(f) /\ p = Buyer(f) => w = x + n
        /\ t # BaseToken(f) \/ p \notin {Seller(f), Buyer(f)} => w = x
    BY <1>1, <1>3, <2>2, <2>4, SettlementDelivers
  <2>6. u \in Int /\ y = u + (IF t = BaseToken(f) /\ p = Seller(f) THEN n ELSE 0)
    BY <1>1, <2>1, <2>2, <2>4, SettlementSells
  <2>7. v \in Int /\ z = v + (IF t = BaseToken(f) /\ p = Buyer(f) THEN n ELSE 0)
    BY <1>1, <2>1, <2>2, <2>4, SettlementBuys
  <2>8. x = InitialBalance[t][p] - u + v
    BY <1>1, <2>4
  <2>9. w = InitialBalance[t][p] - y + z
    BY <1>2, <2>3, <2>5, <2>6, <2>7, <2>8
  <2>10. QED
    BY <2>4, <2>9
<1>4. ASSUME UNCHANGED <<fillVars, exposureVars>>, Held(p, t)' = Held(p, t)
      PROVE  Held(p, t)' = InitialBalance[t][p] - Sold(p, t)' + Bought(p, t)'
  <2>1. Sold(p, t)' = Sold(p, t) /\ Bought(p, t)' = Bought(p, t)
    BY <1>4 DEF Sold, Bought, GrantsOf, BuysOf, AuthOf, fillVars, exposureVars
  <2>2. QED
    BY <1>1, <1>4, <2>1
<1>5. CASE PayoutAccepted \/ PayoutReturns \/ PayoutRefused
  <2>1. UNCHANGED <<fillVars, exposureVars>>
    BY <1>5 DEF PayoutAccepted, PayoutReturns, PayoutRefused
  <2>2. QED
    BY <1>1, <1>4, <1>5, <2>1, PayoutKeepsHeld
<1>6. CASE \/ \E a \in Revocable : RevokeAuthorization(a)
           \/ \E o \in Cancellable : CancelOrder(o)
           \/ \E q \in Accounts, u \in Tokens, n \in Approvals : Approve(q, u, n)
           \/ Tick
           \/ UNCHANGED vars
  <2>1. UNCHANGED <<fillVars, exposureVars, balance, native, payout>>
    BY <1>6 DEF RevokeAuthorization, CancelOrder, Approve, Tick, vars, walletVars
  <2>2. Held(p, t)' = Held(p, t)
    BY <2>1 DEF Held, Coming
  <2>3. QED
    BY <1>4, <2>1, <2>2
<1>7. ~ \E q, r \in Accounts, u \in Tokens, n \in Transfers : Transfer(q, r, u, n)
  OBVIOUS
<1>8. QED
  BY <1>3, <1>5, <1>6, <1>7, StepCases

\* Every wallet always holds what it started with, less what its authorizations
\* sold, plus what its orders bought, also when payouts are refused.
THEOREM BaseArrives ==
  ASSUME BasesAreNotQuotes, Transfers = {}
  PROVE  Spec => []BaseReachesItsBuyers
<1>1. SettlementInv /\ BaseReachesItsBuyers /\ [Next]_vars => BaseReachesItsBuyers'
  BY NextBase
<1>2. QED
  BY <1>1, Invariance, InitBase, PTL DEF Spec

=============================================================================
