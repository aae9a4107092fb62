---------------------- MODULE EvmSpotSettlement_proofs ----------------------
(***************************************************************************)
(* Proofs about the settlement contract, for any signed orders, any fills  *)
(* and any wallets.                                                        *)
(***************************************************************************)
EXTENDS EvmSpotSettlement, TLAPS

-----------------------------------------------------------------------------
(***************************************************************************)
(* Arithmetic and the parties of a fill.                                   *)
(***************************************************************************)
\* Integer division of naturals, as Solidity divides uint256.
LEMMA DivNat ==
  ASSUME NEW a \in Nat, NEW b \in Nat \ {0}
  PROVE  a \div b \in Nat
  OBVIOUS

\* A product of naturals is a natural.
LEMMA TimesNat ==
  ASSUME NEW a \in Nat, NEW b \in Nat
  PROVE  a * b \in Nat
  OBVIOUS

\* The quote amount of a base amount is a natural.
LEMMA QuoteNat ==
  ASSUME NEW b \in Nat, NEW p \in Nat
  PROVE  QuoteFor(b, p) \in Nat
  BY TimesNat, DivNat, EnvironmentAssumption DEF QuoteFor

\* The smaller of two integers is one of them and below both.
LEMMA MinFacts ==
  ASSUME NEW a \in Int, NEW b \in Int
  PROVE  /\ MinOf(a, b) \in Int
         /\ MinOf(a, b) <= a /\ MinOf(a, b) <= b
         /\ MinOf(a, b) = a \/ MinOf(a, b) = b
  BY DEF MinOf

\* The accounts and tokens a fill touches are wallets and tokens.
LEMMA PartiesOfFill ==
  ASSUME NEW f \in Fills
  PROVE  /\ f.maker \in Orders /\ f.taker \in Orders
         /\ f.price \in Nat /\ f.base \in Nat /\ f.quote \in Nat /\ f.fee \in Nat
         /\ TwoSides(f) \subseteq Orders
         /\ \A o \in TwoSides(f) : Counter(f, o) \in Orders
         /\ SellOrder(f) \in TwoSides(f) /\ BuyOrder(f) \in TwoSides(f)
         /\ \A o \in Orders : AuthOf(o) \in Auths
         /\ Seller(f) \in Accounts /\ Buyer(f) \in Accounts
         /\ BaseToken(f) \in Tokens /\ QuoteToken(f) \in Tokens
<1>1. /\ f.maker \in Orders /\ f.taker \in Orders
      /\ f.price \in Nat /\ f.base \in Nat /\ f.quote \in Nat /\ f.fee \in Nat
  BY EnvironmentAssumption DEF FillRecord
<1>2. \A o \in Orders : AuthOf(o) \in Auths
  BY SignedDataAssumption DEF AuthOf
<1>3. \A a \in Auths : /\ auth[a].grantor \in Accounts
                       /\ auth[a].baseToken \in Tokens
                       /\ auth[a].quoteToken \in Tokens
  BY SignedDataAssumption DEF AuthRecord
<1>4. SellOrder(f) \in TwoSides(f) /\ BuyOrder(f) \in TwoSides(f)
  BY DEF SellOrder, BuyOrder, TwoSides
<1>5. QED
  BY <1>1, <1>2, <1>3, <1>4
  DEF TwoSides, Counter, Seller, Buyer, BaseToken, QuoteToken

\* Moving an amount a wallet holds leaves every balance a natural.
LEMMA MovedType ==
  ASSUME NEW b \in [Tokens -> [Holders -> Nat]], NEW t \in Tokens,
         NEW x \in Holders, NEW y \in Holders, NEW n \in Nat, n <= b[t][x]
  PROVE  Moved(b, t, x, y, n) \in [Tokens -> [Holders -> Nat]]
  BY DEF Moved
-----------------------------------------------------------------------------
(***************************************************************************)
(* What an admitted fill can settle.                                       *)
(***************************************************************************)
\* The room a binding leaves an admitted fill is a natural.
LEMMA BindingRoomNat ==
  ASSUME TypeOK, NEW o \in Orders, NEW c \in Orders, NEW p,
         BindingAccepts(o, c, p)
  PROVE  BindingRoom(o, c) \in Nat
<1>1. CASE ~order[o].bound
  BY <1>1, EnvironmentAssumption DEF BindingRoom
<1>2. CASE order[o].bound /\ LegActive(o, c)
  <2>1. order[o].legs[c] \in Nat
    BY <1>2, SignedDataAssumption DEF LegActive, IsLeg
  <2>2. filledWithCounterparty[o][c] \in Nat
    BY DEF TypeOK
  <2>3. filledWithCounterparty[o][c] < order[o].legs[c]
    BY <1>2 DEF BindingAccepts, LegAccepts
  <2>4. QED
    BY <1>2, <2>1, <2>2, <2>3 DEF BindingRoom
<1>3. CASE order[o].bound /\ ~LegActive(o, c)
  <2>1. order[o].baseAmount \in Nat /\ order[o].exclusiveBase \in Nat
    BY SignedDataAssumption
  <2>2. filledBaseByOrder[o] \in Nat /\ boundFilledBase[o] \in Nat
    BY DEF TypeOK
  <2>3. FilledUnbound(o) < UnreservedBase(o)
    BY <1>3 DEF BindingAccepts, OthersAccepted
  <2>4. QED
    BY <1>3, <2>1, <2>2, <2>3 DEF BindingRoom, FilledUnbound, UnreservedBase
<1>4. QED
  BY <1>1, <1>2, <1>3

\* What settles of an admitted fill is a natural, at most what was submitted,
\* and fits both orders and both bindings; the quote and the fee are naturals too.
LEMMA AmountFacts ==
  ASSUME TypeOK, NEW f \in Fills, Admitted(f)
  PROVE  /\ Amounts(f).base \in Nat
         /\ Amounts(f).quote \in Nat
         /\ Amounts(f).fee \in Nat
         /\ Amounts(f).base <= f.base
         /\ \A o \in TwoSides(f) :
              /\ Amounts(f).base <= OrderRoom(o)
              /\ Amounts(f).base <= BindingRoom(o, Counter(f, o))
<1> DEFINE x1 == MinOf(f.base, BindingRoom(f.maker, f.taker))
           x2 == MinOf(x1, BindingRoom(f.taker, f.maker))
           x3 == MinOf(x2, OrderRoom(f.maker))
           x4 == MinOf(x3, OrderRoom(f.taker))
<1>1. /\ f.maker \in Orders /\ f.taker \in Orders /\ f.maker # f.taker
      /\ f.price \in Nat /\ f.base \in Nat \ {0} /\ f.fee \in Nat
  BY PartiesOfFill DEF Admitted, VerifyFill
<1>2. /\ BindingAccepts(f.maker, f.taker, f.price)
      /\ BindingAccepts(f.taker, f.maker, f.price)
  BY <1>1 DEF Admitted, TwoSides, Counter
<1>3. /\ BindingRoom(f.maker, f.taker) \in Nat
      /\ BindingRoom(f.taker, f.maker) \in Nat
  BY <1>1, <1>2, BindingRoomNat
<1>4. OrderRoom(f.maker) \in Nat /\ OrderRoom(f.taker) \in Nat
  <2>1. \A o \in Orders : order[o].baseAmount \in Nat /\ filledBaseByOrder[o] \in Nat
    BY SignedDataAssumption DEF TypeOK
  <2>2. \A o \in TwoSides(f) : filledBaseByOrder[o] < order[o].baseAmount
    BY DEF Admitted
  <2>3. QED
    BY <1>1, <2>1, <2>2 DEF OrderRoom, TwoSides
<1>5. x1 \in Nat /\ x1 <= BindingRoom(f.maker, f.taker)
  BY <1>1, <1>3 DEF MinOf
<1>6. x2 \in Nat /\ x2 <= x1 /\ x2 <= BindingRoom(f.taker, f.maker)
  BY <1>3, <1>5 DEF MinOf
<1>7. x3 \in Nat /\ x3 <= x2 /\ x3 <= OrderRoom(f.maker)
  BY <1>4, <1>6 DEF MinOf
<1>8. x4 \in Nat /\ x4 <= x3 /\ x4 <= OrderRoom(f.taker)
  BY <1>4, <1>7 DEF MinOf
<1>9. SettledBase(f) = x4
  BY DEF SettledBase
<1> HIDE DEF x1, x2, x3, x4
<1>10. Amounts(f).base = x4
  BY <1>9 DEF Amounts
<1>11. Amounts(f).quote \in Nat
  BY <1>1, <1>8, <1>9, QuoteNat DEF Amounts, SettledQuote
<1>12. Amounts(f).fee \in Nat
  <2>1. f.fee * x4 \in Nat
    BY <1>1, <1>8, TimesNat
  <2>2. (f.fee * x4) \div f.base \in Nat
    BY <1>1, <2>1, DivNat
  <2>3. QED
    BY <1>1, <1>9, <2>2 DEF Amounts, SettledFee
<1>13. \A o \in TwoSides(f) :
         x4 <= OrderRoom(o) /\ x4 <= BindingRoom(o, Counter(f, o))
  <2>1. /\ x4 <= OrderRoom(f.maker) /\ x4 <= BindingRoom(f.maker, f.taker)
        /\ x4 <= OrderRoom(f.taker) /\ x4 <= BindingRoom(f.taker, f.maker)
    BY <1>3, <1>4, <1>5, <1>6, <1>7, <1>8
  <2>2. QED
    BY <1>1, <2>1 DEF TwoSides, Counter
<1>14. x4 <= f.base
  <2>1. x1 <= f.base
    BY <1>1, <1>3 DEF MinOf, x1
  <2>2. QED
    BY <1>1, <1>5, <1>6, <1>7, <1>8, <2>1
<1>15. QED
  BY <1>8, <1>10, <1>11, <1>12, <1>13, <1>14
-----------------------------------------------------------------------------
(***************************************************************************)
(* The parts of a settlement, each with what it preserves.                 *)
(***************************************************************************)
\* The order ledgers stay typed.
LEMMA RecordFillType ==
  ASSUME TypeOK, NEW f \in Fills, NEW m, m.base \in Nat, RecordFill(f, m)
  PROVE  /\ usedFill' \subseteq Fills
         /\ filledWithCounterparty' \in [Orders -> [Orders -> Nat]]
         /\ boundFilledBase' \in [Orders -> Nat]
         /\ filledBaseByOrder' \in [Orders -> Nat]
  BY DEF TypeOK, RecordFill, BoundPart

\* The authorization ledgers stay typed.
LEMMA ConsumeExposureType ==
  ASSUME TypeOK, NEW f \in Fills, NEW m,
         m.base \in Nat, m.quote \in Nat, m.fee \in Nat, ConsumeExposure(f, m)
  PROVE  /\ usedBaseByAuth' \in [Auths -> Nat]
         /\ usedQuoteByAuth' \in [Auths -> Nat]
         /\ usedExecutorFeeQuoteByAuth' \in [Auths -> Nat]
  BY PartiesOfFill DEF TypeOK, ConsumeExposure

\* A trade with oneself never passes the balance check of the quote leg.
LEMMA TwoWallets ==
  ASSUME TypeOK, NEW e \in Executors, NEW f \in Fills, NEW m,
         m.quote \in Nat, Fits(e, f, m)
  PROVE  Seller(f) # Buyer(f)
<1>1. /\ Seller(f) \in Holders /\ Buyer(f) \in Holders /\ QuoteToken(f) \in Tokens
  BY PartiesOfFill DEF Holders
<1>2. AfterQuote(f, m)[QuoteToken(f)][Seller(f)] >=
        balance[QuoteToken(f)][Seller(f)] + m.quote
  BY DEF Fits, WalletsCover
<1>3. balance[QuoteToken(f)][Seller(f)] \in Nat
  BY <1>1 DEF TypeOK
<1>4. ASSUME Seller(f) = Buyer(f)
      PROVE  AfterQuote(f, m)[QuoteToken(f)][Seller(f)] =
               balance[QuoteToken(f)][Seller(f)]
  BY <1>1, <1>3, <1>4 DEF AfterQuote, Moved, TypeOK
<1>5. m.quote > 0
  BY DEF Fits
<1>6. QED
  BY <1>2, <1>3, <1>4, <1>5

\* The quote legs leave balances typed, the contract's own included unchanged.
LEMMA AfterFeeType ==
  ASSUME TypeOK, NEW e \in Executors, NEW f \in Fills, NEW m,
         m.quote \in Nat, m.fee \in Nat, WalletsCover(e, f, m)
  PROVE  /\ AfterFee(e, f, m) \in [Tokens -> [Holders -> Nat]]
         /\ \A t \in Tokens : AfterFee(e, f, m)[t][Self] = balance[t][Self]
<1>1. /\ Seller(f) \in Holders /\ Buyer(f) \in Holders /\ e \in Holders
      /\ QuoteToken(f) \in Tokens
      /\ Self # Seller(f) /\ Self # Buyer(f) /\ Self # e /\ Self \in Holders
  BY PartiesOfFill, SignedDataAssumption DEF Holders
<1>2. balance \in [Tokens -> [Holders -> Nat]]
  BY DEF TypeOK
<1>3. AfterQuote(f, m) \in [Tokens -> [Holders -> Nat]]
  BY <1>1, <1>2, MovedType DEF WalletsCover, AfterQuote
<1>4. AfterFee(e, f, m) \in [Tokens -> [Holders -> Nat]]
  BY <1>1, <1>3, MovedType DEF WalletsCover, AfterFee
<1>5. \A t \in Tokens : AfterQuote(f, m)[t][Self] = balance[t][Self]
  BY <1>1, <1>2 DEF AfterQuote, Moved
<1>6. \A t \in Tokens : AfterFee(e, f, m)[t][Self] = AfterQuote(f, m)[t][Self]
  BY <1>1, <1>3 DEF AfterFee, Moved
<1>7. QED
  BY <1>4, <1>5, <1>6

\* The allowances stay typed.
LEMMA SpendAllowancesType ==
  ASSUME TypeOK, NEW e \in Executors, NEW f \in Fills, NEW m,
         m.base \in Nat, m.quote \in Nat, m.fee \in Nat,
         Fits(e, f, m), SpendAllowances(f, m)
  PROVE  allowance' \in [Tokens -> [Accounts -> Nat]]
<1>1. /\ Seller(f) \in Accounts /\ Buyer(f) \in Accounts
      /\ QuoteToken(f) \in Tokens /\ BaseToken(f) \in Tokens
      /\ Seller(f) # Buyer(f)
  BY PartiesOfFill, TwoWallets
<1>2. /\ allowance[QuoteToken(f)][Buyer(f)] >= m.quote + m.fee
      /\ allowance[BaseToken(f)][Seller(f)] >= m.base
  BY DEF Fits, WalletsCover
<1>3. allowance \in [Tokens -> [Accounts -> Nat]]
  BY DEF TypeOK
<1> DEFINE spent == [allowance EXCEPT ![QuoteToken(f)][Buyer(f)] = @ - (m.quote + m.fee)]
<1>4. spent \in [Tokens -> [Accounts -> Nat]]
  BY <1>1, <1>2, <1>3
<1>5. spent[BaseToken(f)][Seller(f)] = allowance[BaseToken(f)][Seller(f)]
  BY <1>1, <1>3
<1>6. allowance' = [spent EXCEPT ![BaseToken(f)][Seller(f)] = @ - m.base]
  BY DEF SpendAllowances
<1>7. spent[BaseToken(f)][Seller(f)] >= m.base
  BY <1>2, <1>5
<1> HIDE DEF spent
<1>8. QED
  BY <1>1, <1>4, <1>6, <1>7

\* The base leg into a wallet, and the base pulled for a native payout, leave
\* balances typed and nothing with the contract.
LEMMA BaseLegType ==
  ASSUME TypeOK, NEW e \in Executors, NEW f \in Fills, NEW m,
         m.base \in Nat, m.quote \in Nat, m.fee \in Nat, Fits(e, f, m),
         NEW b, \/ b = Moved(AfterFee(e, f, m), BaseToken(f), Seller(f), Buyer(f), m.base)
                \/ b = [AfterFee(e, f, m) EXCEPT ![BaseToken(f)][Seller(f)] = @ - m.base]
  PROVE  /\ b \in [Tokens -> [Holders -> Nat]]
         /\ \A t \in Tokens : b[t][Self] = balance[t][Self]
<1>1. /\ Seller(f) \in Holders /\ Buyer(f) \in Holders /\ BaseToken(f) \in Tokens
      /\ Self # Seller(f) /\ Self # Buyer(f) /\ Self \in Holders
  BY PartiesOfFill, SignedDataAssumption DEF Holders
<1>2. /\ AfterFee(e, f, m) \in [Tokens -> [Holders -> Nat]]
      /\ \A t \in Tokens : AfterFee(e, f, m)[t][Self] = balance[t][Self]
      /\ AfterFee(e, f, m)[BaseToken(f)][Seller(f)] >= m.base
  BY AfterFeeType DEF Fits, WalletsCover
<1> DEFINE w == AfterFee(e, f, m)
<1> HIDE DEF w
<1>3. /\ w \in [Tokens -> [Holders -> Nat]]
      /\ \A t \in Tokens : w[t][Self] = balance[t][Self]
      /\ w[BaseToken(f)][Seller(f)] >= m.base
      /\ \/ b = Moved(w, BaseToken(f), Seller(f), Buyer(f), m.base)
         \/ b = [w EXCEPT ![BaseToken(f)][Seller(f)] = @ - m.base]
  BY <1>2 DEF w
<1>4. CASE b = Moved(w, BaseToken(f), Seller(f), Buyer(f), m.base)
  <2>1. b \in [Tokens -> [Holders -> Nat]]
    BY <1>1, <1>3, <1>4, MovedType
  <2>2. \A t \in Tokens : b[t][Self] = w[t][Self]
    BY <1>1, <1>3, <1>4 DEF Moved
  <2>3. QED
    BY <1>3, <2>1, <2>2
<1>5. CASE b = [w EXCEPT ![BaseToken(f)][Seller(f)] = @ - m.base]
  BY <1>1, <1>3, <1>5
<1>6. QED
  BY <1>3, <1>4, <1>5
-----------------------------------------------------------------------------
(***************************************************************************)
(* Type correctness.                                                       *)
(***************************************************************************)
\* The common part of the two settlement actions.
Settlement(e, f) ==
  /\ Admitted(f)
  /\ Fits(e, f, Amounts(f))
  /\ RecordFill(f, Amounts(f))
  /\ ConsumeExposure(f, Amounts(f))
  /\ SpendAllowances(f, Amounts(f))

\* What every step does to the ledgers, told apart by the actions that write
\* the same variables.
LEMMA StepCases ==
  ASSUME [Next]_vars
  PROVE  \/ \E e \in Executors, f \in Fills : SettleInTokens(e, f)
         \/ \E e \in Executors, f \in Fills : SettleNative(e, f)
         \/ PayoutAccepted
         \/ PayoutReturns
         \/ PayoutRefused
         \/ \E a \in Revocable : RevokeAuthorization(a)
         \/ \E o \in Cancellable : CancelOrder(o)
         \/ \E p \in Accounts, t \in Tokens, n \in Approvals : Approve(p, t, n)
         \/ \E p, q \in Accounts, t \in Tokens, n \in Transfers : Transfer(p, q, t, n)
         \/ Tick
         \/ UNCHANGED vars
  BY DEF Next

\* Both settlement actions are a settlement, and leave the rest alone.
LEMMA SettleFacts ==
  ASSUME NEW e \in Executors, NEW f \in Fills,
         SettleInTokens(e, f) \/ SettleNative(e, f)
  PROVE  /\ Settlement(e, f)
         /\ payout = NoPayout
         /\ UNCHANGED <<now, revokedAuth, cancelledOrder>>
  BY DEF SettleInTokens, SettleNative, Settlement, closedVars

\* Initially everything has its type.
LEMMA InitType == Init => TypeOK
<1> SUFFICES ASSUME Init PROVE TypeOK
  OBVIOUS
<1>1. balance \in [Tokens -> [Holders -> Nat]]
  BY EnvironmentAssumption DEF Init
<1>2. allowance \in [Tokens -> [Accounts -> Nat]] /\ native \in [Holders -> Nat]
  BY EnvironmentAssumption DEF Init
<1>3. payout \in Payouts
  BY DEF Init, Payouts
<1>4. QED
  BY <1>1, <1>2, <1>3 DEF Init, TypeOK

\* A settlement, in tokens or with a native payout, keeps every type.
LEMMA SettleType ==
  ASSUME TypeOK, NEW e \in Executors, NEW f \in Fills,
         SettleInTokens(e, f) \/ SettleNative(e, f)
  PROVE  TypeOK'
<1> DEFINE m == Amounts(f)
<1>1. /\ Settlement(e, f) /\ payout = NoPayout
      /\ UNCHANGED <<now, revokedAuth, cancelledOrder>>
  BY SettleFacts
<1>2. m.base \in Nat /\ m.quote \in Nat /\ m.fee \in Nat
  BY <1>1, AmountFacts DEF Settlement
<1>3. /\ usedFill' \subseteq Fills
      /\ filledWithCounterparty' \in [Orders -> [Orders -> Nat]]
      /\ boundFilledBase' \in [Orders -> Nat]
      /\ filledBaseByOrder' \in [Orders -> Nat]
  BY <1>1, <1>2, RecordFillType DEF Settlement
<1>4. /\ usedBaseByAuth' \in [Auths -> Nat]
      /\ usedQuoteByAuth' \in [Auths -> Nat]
      /\ usedExecutorFeeQuoteByAuth' \in [Auths -> Nat]
  BY <1>1, <1>2, ConsumeExposureType DEF Settlement
<1>5. allowance' \in [Tokens -> [Accounts -> Nat]]
  BY <1>1, <1>2, SpendAllowancesType DEF Settlement
<1>6. balance' \in [Tokens -> [Holders -> Nat]]
  BY <1>1, <1>2, BaseLegType DEF Settlement, SettleInTokens, SettleNative
<1>7. native' \in [Holders -> Nat] /\ payout' \in Payouts
  <2>1. CASE SettleInTokens(e, f)
    BY <2>1 DEF SettleInTokens, TypeOK
  <2>2. CASE SettleNative(e, f)
    <3>1. native' = [native EXCEPT ![Self] = @ + m.base]
      BY <2>2 DEF SettleNative
    <3>2. payout' = [stage |-> "calling", buyer |-> Buyer(f), base |-> m.base]
      BY <2>2 DEF SettleNative
    <3> HIDE DEF m
    <3>3. native' \in [Holders -> Nat]
      BY <1>2, <3>1 DEF TypeOK, Holders
    <3>4. payout' \in Payouts
      BY <1>2, <3>2, PartiesOfFill DEF Payouts
    <3>5. QED
      BY <3>3, <3>4
  <2>3. QED
    BY <2>1, <2>2
<1>8. QED
  BY <1>1, <1>3, <1>4, <1>5, <1>6, <1>7 DEF TypeOK

\* The hand-over of a native payout keeps every type.
LEMMA PayoutType ==
  ASSUME TypeOK, native[Self] = IF payout.stage = "calling" THEN payout.base ELSE 0,
         PayoutAccepted \/ PayoutReturns \/ PayoutRefused,
         WrappedNative \in Tokens
  PROVE  TypeOK'
<1>1. PayoutAccepted \/ PayoutRefused =>
        /\ payout.stage = "calling" /\ payout.buyer \in Accounts
        /\ payout.base \in Nat /\ native[Self] = payout.base
        /\ payout = [stage |-> "calling", buyer |-> payout.buyer, base |-> payout.base]
  BY DEF PayoutAccepted, PayoutRefused, TypeOK, Payouts, NoPayout
<1>2. CASE PayoutAccepted
  <2>1. payout' = [payout EXCEPT !.stage = "accepted"]
    BY <1>2 DEF PayoutAccepted
  <2>2. payout' \in Payouts
    BY <1>1, <1>2, <2>1 DEF Payouts
  <2>3. native' \in [Holders -> Nat]
    BY <1>1, <1>2 DEF PayoutAccepted, TypeOK, Holders
  <2>4. QED
    BY <1>2, <2>2, <2>3
    DEF PayoutAccepted, TypeOK, closedVars, fillVars, exposureVars
<1>3. CASE PayoutReturns
  BY <1>3 DEF PayoutReturns, TypeOK, Payouts, closedVars, fillVars, exposureVars, walletVars
<1>4. CASE PayoutRefused
  <2>1. native' \in [Holders -> Nat]
    BY <1>1, <1>4 DEF PayoutRefused, TypeOK, Holders
  <2>2. balance' \in [Tokens -> [Holders -> Nat]]
    BY <1>1, <1>4 DEF PayoutRefused, TypeOK, Holders
  <2>3. payout' \in Payouts
    BY <1>4 DEF PayoutRefused, Payouts
  <2>4. QED
    BY <1>4, <2>1, <2>2, <2>3
    DEF PayoutRefused, TypeOK, closedVars, fillVars, exposureVars
<1>5. QED
  BY <1>2, <1>3, <1>4

\* The holders' own steps and the clock keep every type.
LEMMA OtherType ==
  ASSUME TypeOK,
         \/ \E a \in Revocable : RevokeAuthorization(a)
         \/ \E o \in Cancellable : CancelOrder(o)
         \/ \E p \in Accounts, t \in Tokens, n \in Approvals : Approve(p, t, n)
         \/ \E p, q \in Accounts, t \in Tokens, n \in Transfers : Transfer(p, q, t, n)
         \/ Tick
         \/ UNCHANGED vars
  PROVE  TypeOK'
<1> USE DEF closedVars, fillVars, exposureVars, walletVars
<1>1. CASE \E a \in Revocable : RevokeAuthorization(a)
  BY <1>1, EnvironmentAssumption DEF RevokeAuthorization, TypeOK
<1>2. CASE \E o \in Cancellable : CancelOrder(o)
  BY <1>2, EnvironmentAssumption DEF CancelOrder, TypeOK
<1>3. CASE \E p \in Accounts, t \in Tokens, n \in Approvals : Approve(p, t, n)
  BY <1>3, EnvironmentAssumption DEF Approve, TypeOK
<1>4. ASSUME NEW p \in Accounts, NEW q \in Accounts, NEW t \in Tokens,
             NEW n \in Transfers, Transfer(p, q, t, n)
      PROVE  TypeOK'
  <2>1. n \in Nat /\ p \in Holders /\ q \in Holders
    BY EnvironmentAssumption DEF Holders
  <2>2. balance' \in [Tokens -> [Holders -> Nat]]
    BY <1>4, <2>1, MovedType DEF Transfer, TypeOK
  <2>3. QED
    BY <1>4, <2>2 DEF Transfer, TypeOK
<1>5. CASE Tick
  BY <1>5 DEF Tick, TypeOK
<1>6. CASE UNCHANGED vars
  BY <1>6 DEF vars, TypeOK
<1>7. QED
  BY <1>1, <1>2, <1>3, <1>4, <1>5, <1>6
-----------------------------------------------------------------------------
(***************************************************************************)
(* The order ledgers.                                                      *)
(***************************************************************************)
\* One settlement keeps every order within its amount.
LEMMA SettlementKeepsOrders ==
  ASSUME TypeOK, NEW e, NEW f \in Fills, Settlement(e, f), OrdersNeverOverfill
  PROVE  OrdersNeverOverfill'
<1> DEFINE m == Amounts(f)
<1> SUFFICES ASSUME NEW o \in Orders
             PROVE  filledBaseByOrder'[o] <= order[o].baseAmount
  BY DEF OrdersNeverOverfill
<1>1. /\ m.base \in Nat
      /\ o \in TwoSides(f) => m.base <= OrderRoom(o)
  BY AmountFacts DEF Settlement
<1>2. filledBaseByOrder'[o] =
        filledBaseByOrder[o] + (IF o \in TwoSides(f) THEN m.base ELSE 0)
  BY DEF Settlement, RecordFill
<1> HIDE DEF m
<1>3. /\ filledBaseByOrder[o] \in Nat /\ order[o].baseAmount \in Nat
      /\ filledBaseByOrder[o] <= order[o].baseAmount
  BY SignedDataAssumption DEF TypeOK, OrdersNeverOverfill
<1>4. QED
  BY <1>1, <1>2, <1>3 DEF OrderRoom

\* One settlement keeps what a bound order fills outside its legs within the
\* part it did not reserve: either the whole amount counts as bound, or it is
\* within the room the binding leaves.
LEMMA SettlementKeepsReservation ==
  ASSUME TypeOK, NEW e, NEW f \in Fills, Settlement(e, f), ReservedPartKept
  PROVE  ReservedPartKept'
<1> DEFINE m == Amounts(f)
<1> SUFFICES ASSUME NEW o \in Orders, order[o].bound
             PROVE  /\ boundFilledBase'[o] <= filledBaseByOrder'[o]
                    /\ filledBaseByOrder'[o] - boundFilledBase'[o] > 0 =>
                         filledBaseByOrder'[o] - boundFilledBase'[o] <= UnreservedBase(o)
  BY DEF ReservedPartKept, FilledUnbound
<1>1. /\ m.base \in Nat
      /\ o \in TwoSides(f) => m.base <= BindingRoom(o, Counter(f, o))
  BY AmountFacts DEF Settlement
<1>2. /\ filledBaseByOrder'[o] =
           filledBaseByOrder[o] + (IF o \in TwoSides(f) THEN m.base ELSE 0)
      /\ boundFilledBase'[o] =
           boundFilledBase[o] + (IF o \in TwoSides(f) THEN BoundPart(f, m, o) ELSE 0)
  BY DEF Settlement, RecordFill
<1>3. /\ filledBaseByOrder[o] \in Nat /\ boundFilledBase[o] \in Nat
      /\ UnreservedBase(o) \in Int
  BY SignedDataAssumption DEF TypeOK, UnreservedBase
<1>4. /\ boundFilledBase[o] <= filledBaseByOrder[o]
      /\ FilledUnbound(o) > 0 => FilledUnbound(o) <= UnreservedBase(o)
  BY DEF ReservedPartKept
<1> HIDE DEF m
<1>5. CASE o \notin TwoSides(f)
  BY <1>2, <1>3, <1>4, <1>5 DEF FilledUnbound
<1>6. CASE o \in TwoSides(f) /\ LegActive(o, Counter(f, o))
  <2>1. BoundPart(f, m, o) = m.base
    BY <1>6 DEF BoundPart, RecordsBinding, LegActive
  <2>2. QED
    BY <1>1, <1>2, <1>3, <1>4, <1>6, <2>1 DEF FilledUnbound
<1>7. CASE o \in TwoSides(f) /\ ~LegActive(o, Counter(f, o))
  <2>1. BoundPart(f, m, o) = 0
    BY <1>7 DEF BoundPart, RecordsBinding, LegActive
  <2>2. m.base <= UnreservedBase(o) - FilledUnbound(o)
    BY <1>1, <1>7 DEF BindingRoom
  <2>3. QED
    BY <1>1, <1>2, <1>3, <1>4, <1>7, <2>1, <2>2 DEF FilledUnbound
<1>8. QED
  BY <1>5, <1>6, <1>7

\* One settlement keeps every named leg within its signed amount.
LEMMA SettlementKeepsLegs ==
  ASSUME TypeOK, NEW e, NEW f \in Fills, Settlement(e, f), LegsWithinSignedAmounts
  PROVE  LegsWithinSignedAmounts'
<1> DEFINE m == Amounts(f)
<1> SUFFICES ASSUME NEW o \in Orders, NEW c \in Orders,
                    filledWithCounterparty'[o][c] > 0
             PROVE  /\ order[o].bound /\ IsLeg(o, c)
                    /\ filledWithCounterparty'[o][c] <= order[o].legs[c]
  BY DEF LegsWithinSignedAmounts, IsLeg
<1>1. /\ m.base \in Nat
      /\ o \in TwoSides(f) => m.base <= BindingRoom(o, Counter(f, o))
  BY AmountFacts DEF Settlement
<1>2. filledWithCounterparty'[o][c] = filledWithCounterparty[o][c] +
        (IF o \in TwoSides(f) /\ c = Counter(f, o) THEN BoundPart(f, m, o) ELSE 0)
  BY DEF Settlement, RecordFill
<1>3. filledWithCounterparty[o][c] \in Nat
  BY DEF TypeOK
<1>4. filledWithCounterparty[o][c] > 0 =>
        /\ order[o].bound /\ IsLeg(o, c)
        /\ filledWithCounterparty[o][c] <= order[o].legs[c]
  BY DEF LegsWithinSignedAmounts
<1> HIDE DEF m
<1>5. CASE o \in TwoSides(f) /\ c = Counter(f, o) /\ RecordsBinding(o, c)
  <2>1. LegActive(o, c) /\ order[o].bound /\ IsLeg(o, c)
    BY <1>5 DEF RecordsBinding, LegActive
  <2>2. m.base <= order[o].legs[c] - filledWithCounterparty[o][c]
    BY <1>1, <1>5, <2>1 DEF BindingRoom
  <2>3. order[o].legs[c] \in Nat
    BY <2>1, SignedDataAssumption DEF IsLeg
  <2>4. filledWithCounterparty'[o][c] = filledWithCounterparty[o][c] + m.base
    BY <1>2, <1>5 DEF BoundPart
  <2>5. QED
    BY <1>1, <1>3, <2>1, <2>2, <2>3, <2>4
<1>6. CASE ~(o \in TwoSides(f) /\ c = Counter(f, o) /\ RecordsBinding(o, c))
  <2>1. filledWithCounterparty'[o][c] = filledWithCounterparty[o][c]
    BY <1>2, <1>3, <1>6 DEF BoundPart
  <2>2. QED
    BY <1>4, <2>1
<1>7. QED
  BY <1>5, <1>6

-----------------------------------------------------------------------------
(***************************************************************************)
(* The authorization ledgers.                                              *)
(***************************************************************************)
\* One settlement keeps every authorization within its caps.
LEMMA SettlementKeepsCaps ==
  ASSUME TypeOK, NEW e, NEW f \in Fills, Settlement(e, f), CapsHold
  PROVE  CapsHold'
<1> DEFINE m == Amounts(f)
           s == AuthOf(SellOrder(f))
           b == AuthOf(BuyOrder(f))
<1>1. s \in Auths /\ b \in Auths
  BY PartiesOfFill
<1>2. /\ usedBaseByAuth[s] + m.base <= auth[s].maxBaseExposure
      /\ usedQuoteByAuth[b] + m.quote <= auth[b].maxQuoteExposure
      /\ usedExecutorFeeQuoteByAuth[b] + m.fee <= auth[b].maxExecutorFeeQuote
  BY DEF Settlement, Fits, SellExposureFits, BuyExposureFits
<1>3. /\ usedBaseByAuth' = [usedBaseByAuth EXCEPT ![s] = @ + m.base]
      /\ usedQuoteByAuth' = [usedQuoteByAuth EXCEPT ![b] = @ + m.quote]
      /\ usedExecutorFeeQuoteByAuth' =
           [usedExecutorFeeQuoteByAuth EXCEPT ![b] = @ + m.fee]
  BY DEF Settlement, ConsumeExposure
<1> HIDE DEF m, s, b
<1>4. QED
  BY <1>1, <1>2, <1>3 DEF CapsHold, TypeOK

\* A fee within the pro-rata cap of a fill, added to both sides of the
\* proportion.
LEMMA ProportionStep ==
  ASSUME NEW fees \in Nat, NEW spent \in Nat, NEW fee \in Nat, NEW quote \in Nat,
         NEW maxFee \in Nat, NEW maxQuote \in Nat,
         fees * maxQuote <= maxFee * spent,
         fee * maxQuote <= maxFee * quote
  PROVE  (fees + fee) * maxQuote <= maxFee * (spent + quote)
<1>1. (fees + fee) * maxQuote = fees * maxQuote + fee * maxQuote
  OBVIOUS
<1>2. maxFee * (spent + quote) = maxFee * spent + maxFee * quote
  OBVIOUS
<1>3. /\ fees * maxQuote \in Nat /\ fee * maxQuote \in Nat
      /\ maxFee * spent \in Nat /\ maxFee * quote \in Nat
  BY TimesNat
<1>4. QED
  BY <1>1, <1>2, <1>3

\* The quotient of a division, times the divisor, is at most the dividend.
LEMMA DivTimes ==
  ASSUME NEW a \in Nat, NEW b \in Nat \ {0}
  PROVE  (a \div b) * b <= a
  OBVIOUS

\* One settlement keeps fees in proportion to what has been spent.
LEMMA SettlementKeepsProportion ==
  ASSUME TypeOK, NEW e, NEW f \in Fills, Settlement(e, f),
         CapsHold, FeesStayProportional
  PROVE  FeesStayProportional'
<1> DEFINE m == Amounts(f)
           b == AuthOf(BuyOrder(f))
<1>1. /\ m.base \in Nat /\ m.quote \in Nat /\ m.fee \in Nat
      /\ m.quote > 0
      /\ BuyExposureFits(b, m.quote, m.fee)
      /\ usedQuoteByAuth' = [usedQuoteByAuth EXCEPT ![b] = @ + m.quote]
      /\ usedExecutorFeeQuoteByAuth' =
           [usedExecutorFeeQuoteByAuth EXCEPT ![b] = @ + m.fee]
  BY AmountFacts DEF Settlement, Fits, ConsumeExposure
<1> HIDE DEF m, b
<1> SUFFICES
      ASSUME NEW a \in Auths,
             auth[a].maxExecutorFeeQuote * auth[a].maxQuoteExposure <= MaxUint
      PROVE  usedExecutorFeeQuoteByAuth'[a] * auth[a].maxQuoteExposure <=
               auth[a].maxExecutorFeeQuote * usedQuoteByAuth'[a]
  BY DEF FeesStayProportional
<1> DEFINE F == auth[a].maxExecutorFeeQuote
           Q == auth[a].maxQuoteExposure
<1>2. F \in Nat /\ Q \in Nat /\ MaxUint \in Nat
  BY SignedDataAssumption, EnvironmentAssumption DEF AuthRecord
<1>3. /\ usedExecutorFeeQuoteByAuth[a] \in Nat /\ usedQuoteByAuth[a] \in Nat
      /\ usedExecutorFeeQuoteByAuth[a] * Q <= F * usedQuoteByAuth[a]
  BY DEF TypeOK, FeesStayProportional
<1>4. CASE a # b
  BY <1>1, <1>3, <1>4 DEF TypeOK
<1>5. CASE a = b
  <2>1. m.quote <= Q /\ (m.fee > 0 => Q > 0 /\ m.fee <= FeeAllowed(a, m.quote))
    BY <1>1, <1>2, <1>3, <1>5 DEF BuyExposureFits
  <2>2. m.fee * Q <= F * m.quote
    <3>1. CASE m.fee = 0
      <4>1. m.fee * Q = 0 /\ F * m.quote \in Nat
        BY <1>1, <1>2, <3>1, TimesNat
      <4>2. QED
        BY <4>1
    <3>2. CASE m.fee > 0
      <4>1. F * m.quote <= F * Q
        BY <1>1, <1>2, <2>1
      <4>2. ~(F > MaxUint \div m.quote)
        <5>1. F * m.quote <= MaxUint
          <6>1. F * m.quote \in Nat /\ F * Q \in Nat
            BY <1>1, <1>2, TimesNat
          <6>2. QED
            BY <1>2, <4>1, <6>1
        <5>2. F <= MaxUint \div m.quote
          BY <1>1, <1>2, <5>1
        <5>3. MaxUint \div m.quote \in Nat
          BY <1>1, <1>2, DivNat
        <5>4. QED
          BY <1>2, <5>2, <5>3
      <4>3. m.fee <= (F * m.quote) \div Q
        BY <2>1, <3>2, <4>2 DEF FeeAllowed
      <4>4. /\ F * m.quote \in Nat /\ Q \in Nat \ {0}
            /\ (F * m.quote) \div Q \in Nat
        BY <1>1, <1>2, <2>1, <3>2, TimesNat, DivNat
      <4>5. ((F * m.quote) \div Q) * Q <= F * m.quote
        BY <4>4, DivTimes
      <4>6. m.fee * Q <= ((F * m.quote) \div Q) * Q
        <5> DEFINE d == (F * m.quote) \div Q
        <5>1. d \in Nat /\ m.fee <= d /\ m.fee \in Nat /\ Q \in Nat
          BY <1>1, <4>3, <4>4
        <5> HIDE DEF d
        <5>2. m.fee * Q <= d * Q
          BY <5>1
        <5>3. QED
          BY <5>2 DEF d
      <4>7. /\ m.fee * Q \in Nat /\ ((F * m.quote) \div Q) * Q \in Nat
        BY <1>1, <4>4, TimesNat
      <4>8. QED
        BY <4>4, <4>5, <4>6, <4>7
    <3>3. QED
      BY <1>1, <3>1, <3>2
  <2>3. /\ usedExecutorFeeQuoteByAuth'[a] = usedExecutorFeeQuoteByAuth[a] + m.fee
        /\ usedQuoteByAuth'[a] = usedQuoteByAuth[a] + m.quote
    BY <1>1, <1>5 DEF TypeOK
  <2> HIDE DEF F, Q
  <2>4. (usedExecutorFeeQuoteByAuth[a] + m.fee) * Q <=
          F * (usedQuoteByAuth[a] + m.quote)
    BY <1>1, <1>2, <1>3, <2>2, ProportionStep
  <2>5. QED
    BY <2>3, <2>4 DEF F, Q
<1>6. QED
  BY <1>4, <1>5
-----------------------------------------------------------------------------
(***************************************************************************)
(* What the contract holds.                                                *)
(***************************************************************************)
\* A settlement leaves nothing with the contract but the coin of the payout
\* it starts, and only wrapped coin is paid out.
LEMMA SettlementHoldsNothing ==
  ASSUME TypeOK, NEW e \in Executors, NEW f \in Fills,
         SettleInTokens(e, f) \/ SettleNative(e, f),
         HoldsNothingBetweenTrades, PayoutIsWrappedNative
  PROVE  HoldsNothingBetweenTrades' /\ PayoutIsWrappedNative'
<1> DEFINE m == Amounts(f)
<1>1. Settlement(e, f) /\ payout = NoPayout
  BY SettleFacts
<1>2. m.base \in Nat /\ m.quote \in Nat /\ m.fee \in Nat
  BY <1>1, AmountFacts DEF Settlement
<1>3. \A t \in Tokens : balance'[t][Self] = balance[t][Self]
  <2>1. Fits(e, f, m)
    BY <1>1 DEF Settlement
  <2>2. \/ balance' = Moved(AfterFee(e, f, m), BaseToken(f), Seller(f), Buyer(f), m.base)
        \/ balance' = [AfterFee(e, f, m) EXCEPT ![BaseToken(f)][Seller(f)] = @ - m.base]
    BY DEF SettleInTokens, SettleNative
  <2> HIDE DEF m
  <2>3. QED
    BY <1>2, <2>1, <2>2, BaseLegType
<1>4. /\ \A t \in Tokens : balance[t][Self] = 0
      /\ native[Self] = 0 /\ native \in [Holders -> Nat] /\ Self \in Holders
  BY <1>1 DEF HoldsNothingBetweenTrades, NoPayout, TypeOK, Holders
<1>5. CASE SettleInTokens(e, f)
  BY <1>3, <1>4, <1>5
  DEF SettleInTokens, HoldsNothingBetweenTrades, PayoutIsWrappedNative, NoPayout
<1>6. CASE SettleNative(e, f)
  <2>1. /\ native' = [native EXCEPT ![Self] = @ + m.base]
        /\ payout' = [stage |-> "calling", buyer |-> Buyer(f), base |-> m.base]
    BY <1>6 DEF SettleNative
  <2>2. WrappedNative \in Tokens
    <3>1. BuyOrder(f) \in Orders /\ VerifyOrder(BuyOrder(f))
      BY <1>1, PartiesOfFill DEF Settlement, Admitted
    <3>2. NativeAllowed(BuyOrder(f))
      BY <1>6, <3>1 DEF SettleNative, PaysNative, VerifyOrder
    <3>3. auth[AuthOf(BuyOrder(f))].baseToken \in Tokens
      BY <3>1, PartiesOfFill, SignedDataAssumption DEF AuthRecord
    <3>4. QED
      BY <3>2, <3>3 DEF NativeAllowed
  <2> HIDE DEF m
  <2>3. native'[Self] = m.base
    BY <1>2, <1>4, <2>1
  <2>4. QED
    BY <1>3, <1>4, <2>1, <2>2, <2>3 DEF HoldsNothingBetweenTrades, PayoutIsWrappedNative
<1>7. QED
  BY <1>5, <1>6

\* Handing the coin over, or the wrapped token in its place, empties the
\* contract again.
LEMMA PayoutHoldsNothing ==
  ASSUME TypeOK, HoldsNothingBetweenTrades, PayoutIsWrappedNative,
         PayoutAccepted \/ PayoutReturns \/ PayoutRefused
  PROVE  HoldsNothingBetweenTrades' /\ PayoutIsWrappedNative'
<1>1. /\ \A t \in Tokens : balance[t][Self] = 0
      /\ native \in [Holders -> Nat] /\ Self \in Holders /\ Self \notin Accounts
      /\ balance \in [Tokens -> [Holders -> Nat]] /\ Accounts \subseteq Holders
  BY SignedDataAssumption DEF HoldsNothingBetweenTrades, TypeOK, Holders
<1>2. CASE PayoutAccepted
  <2>1. /\ payout.buyer \in Accounts /\ payout.base \in Nat
        /\ native[Self] = payout.base /\ WrappedNative \in Tokens
        /\ payout' = [payout EXCEPT !.stage = "accepted"]
        /\ payout'.stage = "accepted"
    BY <1>2 DEF PayoutAccepted, TypeOK, Payouts, NoPayout,
                HoldsNothingBetweenTrades, PayoutIsWrappedNative
  <2>2. native'[Self] = 0
    BY <1>1, <1>2, <2>1 DEF PayoutAccepted
  <2>3. QED
    BY <1>1, <1>2, <2>1, <2>2
    DEF PayoutAccepted, HoldsNothingBetweenTrades, PayoutIsWrappedNative
<1>3. CASE PayoutReturns
  BY <1>3 DEF PayoutReturns, HoldsNothingBetweenTrades, PayoutIsWrappedNative,
              NoPayout, walletVars
<1>4. CASE PayoutRefused
  <2>1. /\ payout.buyer \in Accounts /\ payout.base \in Nat
        /\ native[Self] = payout.base
    BY <1>4 DEF PayoutRefused, TypeOK, Payouts, NoPayout, HoldsNothingBetweenTrades
  <2>2. native'[Self] = 0
    BY <1>1, <1>4, <2>1 DEF PayoutRefused
  <2>3. \A t \in Tokens : balance'[t][Self] = balance[t][Self]
    <3>1. balance' = [balance EXCEPT ![WrappedNative][payout.buyer] = @ + payout.base]
      BY <1>4 DEF PayoutRefused
    <3>2. payout.buyer \in Holders /\ payout.buyer # Self
      BY <1>1, <2>1
    <3>3. QED
      BY <1>1, <3>1, <3>2
  <2>4. QED
    BY <1>1, <1>4, <2>2, <2>3
    DEF PayoutRefused, HoldsNothingBetweenTrades, PayoutIsWrappedNative, NoPayout
<1>5. QED
  BY <1>2, <1>3, <1>4

-----------------------------------------------------------------------------
(***************************************************************************)
(* The inductive invariant.                                                *)
(***************************************************************************)
\* It holds before anything has happened.
LEMMA InitInv == Init => SettlementInv
<1> SUFFICES ASSUME Init PROVE SettlementInv
  OBVIOUS
<1>1. TypeOK
  BY InitType
<1>2. OrdersNeverOverfill /\ ReservedPartKept /\ LegsWithinSignedAmounts
  BY SignedDataAssumption
  DEF Init, OrdersNeverOverfill, ReservedPartKept, LegsWithinSignedAmounts, FilledUnbound
<1>3. CapsHold
  BY SignedDataAssumption DEF Init, CapsHold, AuthRecord
<1>4. FeesStayProportional
  <2>1. \A a \in Auths : /\ auth[a].maxQuoteExposure \in Nat
                         /\ auth[a].maxExecutorFeeQuote \in Nat
    BY SignedDataAssumption DEF AuthRecord
  <2>2. \A a \in Auths : /\ usedExecutorFeeQuoteByAuth[a] = 0
                         /\ usedQuoteByAuth[a] = 0
    BY DEF Init
  <2>3. QED
    BY <2>1, <2>2 DEF FeesStayProportional
<1>5. HoldsNothingBetweenTrades /\ PayoutIsWrappedNative
  BY SignedDataAssumption
  DEF Init, HoldsNothingBetweenTrades, PayoutIsWrappedNative, NoPayout, Holders
<1>6. QED
  BY <1>1, <1>2, <1>3, <1>4, <1>5 DEF SettlementInv

\* Steps that touch no ledger keep every invariant of the ledgers.
LEMMA LedgersUnchanged ==
  ASSUME SettlementInv, UNCHANGED <<fillVars, exposureVars>>
  PROVE  /\ OrdersNeverOverfill' /\ ReservedPartKept' /\ LegsWithinSignedAmounts'
         /\ CapsHold' /\ FeesStayProportional'
  BY DEF SettlementInv, fillVars, exposureVars, OrdersNeverOverfill, ReservedPartKept,
         LegsWithinSignedAmounts, CapsHold, FeesStayProportional, FilledUnbound

\* Every step keeps it.
LEMMA NextInv == SettlementInv /\ [Next]_vars => SettlementInv'
<1> SUFFICES ASSUME SettlementInv, [Next]_vars PROVE SettlementInv'
  OBVIOUS
<1>1. TypeOK /\ HoldsNothingBetweenTrades /\ PayoutIsWrappedNative
  BY DEF SettlementInv
<1>2. ASSUME NEW e \in Executors, NEW f \in Fills,
             SettleInTokens(e, f) \/ SettleNative(e, f)
      PROVE  SettlementInv'
  <2>1. Settlement(e, f)
    BY <1>2, SettleFacts
  <2>2. TypeOK'
    BY <1>1, <1>2, SettleType
  <2>3. OrdersNeverOverfill' /\ ReservedPartKept' /\ LegsWithinSignedAmounts'
    BY <2>1, SettlementKeepsOrders, SettlementKeepsReservation, SettlementKeepsLegs
    DEF SettlementInv
  <2>4. CapsHold' /\ FeesStayProportional'
    BY <2>1, SettlementKeepsCaps, SettlementKeepsProportion DEF SettlementInv
  <2>5. HoldsNothingBetweenTrades' /\ PayoutIsWrappedNative'
    BY <1>1, <1>2, SettlementHoldsNothing
  <2>6. QED
    BY <2>2, <2>3, <2>4, <2>5 DEF SettlementInv
<1>3. CASE PayoutAccepted \/ PayoutReturns \/ PayoutRefused
  <2>1. UNCHANGED <<fillVars, exposureVars>>
    BY <1>3 DEF PayoutAccepted, PayoutReturns, PayoutRefused
  <2>2. payout # NoPayout
    BY <1>3 DEF PayoutAccepted, PayoutReturns, PayoutRefused, NoPayout
  <2>3. native[Self] = IF payout.stage = "calling" THEN payout.base ELSE 0
    BY <1>1 DEF HoldsNothingBetweenTrades
  <2>4. TypeOK'
    BY <1>1, <1>3, <2>2, <2>3, PayoutType DEF PayoutIsWrappedNative
  <2>5. HoldsNothingBetweenTrades' /\ PayoutIsWrappedNative'
    BY <1>1, <1>3, PayoutHoldsNothing
  <2>6. QED
    BY <2>1, <2>4, <2>5, LedgersUnchanged DEF SettlementInv
<1>4. ASSUME \/ \E a \in Revocable : RevokeAuthorization(a)
             \/ \E o \in Cancellable : CancelOrder(o)
             \/ \E p \in Accounts, t \in Tokens, n \in Approvals : Approve(p, t, n)
             \/ \E p, q \in Accounts, t \in Tokens, n \in Transfers : Transfer(p, q, t, n)
             \/ Tick
             \/ UNCHANGED vars
      PROVE  SettlementInv'
  <2>1. TypeOK'
    BY <1>1, <1>4, OtherType
  <2>2. UNCHANGED <<fillVars, exposureVars, payout, native>>
    BY <1>4 DEF RevokeAuthorization, CancelOrder, Approve, Transfer, Tick, vars,
                walletVars
  <2>3. \A t \in Tokens : balance'[t][Self] = balance[t][Self]
    <3>1. ASSUME NEW p \in Accounts, NEW q \in Accounts, NEW t \in Tokens,
                 NEW n \in Transfers, Transfer(p, q, t, n)
          PROVE  \A u \in Tokens : balance'[u][Self] = balance[u][Self]
      <4>1. /\ balance \in [Tokens -> [Holders -> Nat]]
            /\ p \in Holders /\ q \in Holders /\ Self \in Holders
            /\ Self # p /\ Self # q
        BY <1>1, SignedDataAssumption DEF TypeOK, Holders
      <4>2. QED
        BY <3>1, <4>1 DEF Transfer, Moved
    <3>2. QED
      BY <1>4, <3>1 DEF RevokeAuthorization, CancelOrder, Approve, Tick, vars, walletVars
  <2>4. HoldsNothingBetweenTrades' /\ PayoutIsWrappedNative'
    BY <1>1, <2>2, <2>3 DEF HoldsNothingBetweenTrades, PayoutIsWrappedNative
  <2>5. QED
    BY <2>1, <2>2, <2>4, LedgersUnchanged DEF SettlementInv
<1>5. QED
  BY <1>2, <1>3, <1>4, StepCases

\* The inductive invariant is an invariant.
THEOREM Invariance == Spec => []SettlementInv
  BY InitInv, NextInv, PTL DEF Spec

-----------------------------------------------------------------------------
(***************************************************************************)
(* The results.                                                            *)
(***************************************************************************)
\* Every variable always has its type: no ledger, balance or allowance is ever
\* debited below zero.
THEOREM TypeCorrect == Spec => []TypeOK
<1>1. SettlementInv => TypeOK
  BY DEF SettlementInv
<1>2. QED
  BY <1>1, Invariance, PTL

\* No order ever settles more base than its trader signed.
THEOREM NoOverfill == Spec => []OrdersNeverOverfill
<1>1. SettlementInv => OrdersNeverOverfill
  BY DEF SettlementInv
<1>2. QED
  BY <1>1, Invariance, PTL

\* A bound order never gives others any of the part reserved for its legs.
THEOREM Reservation == Spec => []ReservedPartKept
<1>1. SettlementInv => ReservedPartKept
  BY DEF SettlementInv
<1>2. QED
  BY <1>1, Invariance, PTL

\* No named counterparty ever takes more than its leg.
THEOREM LegAmounts == Spec => []LegsWithinSignedAmounts
<1>1. SettlementInv => LegsWithinSignedAmounts
  BY DEF SettlementInv
<1>2. QED
  BY <1>1, Invariance, PTL

\* No authorization ever spends more than a cap its grantor signed.
THEOREM Caps == Spec => []CapsHold
<1>1. SettlementInv => CapsHold
  BY DEF SettlementInv
<1>2. QED
  BY <1>1, Invariance, PTL

\* Executor fees never run ahead of what has been spent.
THEOREM FeeProportion == Spec => []FeesStayProportional
<1>1. SettlementInv => FeesStayProportional
  BY DEF SettlementInv
<1>2. QED
  BY <1>1, Invariance, PTL

\* Between trades the contract holds no token and no coin.
THEOREM NonCustodial == Spec => []HoldsNothingBetweenTrades
<1>1. SettlementInv => HoldsNothingBetweenTrades
  BY DEF SettlementInv
<1>2. QED
  BY <1>1, Invariance, PTL

-----------------------------------------------------------------------------
(***************************************************************************)
(* What a step may never do.                                               *)
(***************************************************************************)
\* An order fills only in a settlement that names it.
LEMMA FilledOnlyBySettlement ==
  ASSUME TypeOK, [Next]_vars, NEW o \in Orders,
         filledBaseByOrder'[o] # filledBaseByOrder[o]
  PROVE  \E e \in Executors, f \in Fills :
           /\ SettleInTokens(e, f) \/ SettleNative(e, f)
           /\ Settlement(e, f)
           /\ o \in TwoSides(f)
<1>1. filledBaseByOrder' # filledBaseByOrder
  OBVIOUS
<1>2. \E e \in Executors, f \in Fills : SettleInTokens(e, f) \/ SettleNative(e, f)
  BY <1>1, StepCases
  DEF PayoutAccepted, PayoutReturns, PayoutRefused, RevokeAuthorization,
      CancelOrder, Approve, Transfer, Tick, vars, fillVars
<1>3. PICK e \in Executors, f \in Fills : SettleInTokens(e, f) \/ SettleNative(e, f)
  BY <1>2
<1>4. Settlement(e, f)
  BY <1>3, SettleFacts
<1>5. o \in TwoSides(f)
  <2>1. filledBaseByOrder'[o] = filledBaseByOrder[o] +
          (IF o \in TwoSides(f) THEN Amounts(f).base ELSE 0)
    BY <1>4 DEF Settlement, RecordFill
  <2>2. filledBaseByOrder[o] \in Nat
    BY DEF TypeOK
  <2>3. QED
    BY <2>1, <2>2
<1>6. QED
  BY <1>3, <1>4, <1>5

\* Cancelled and revoked orders stay closed, and never fill.
THEOREM Closed == Spec => ClosedForGood
<1> DEFINE StaysClosed ==
      /\ cancelledOrder \subseteq cancelledOrder'
      /\ revokedAuth \subseteq revokedAuth'
      /\ \A o \in Orders : filledBaseByOrder'[o] # filledBaseByOrder[o] =>
           o \notin cancelledOrder /\ AuthOf(o) \notin revokedAuth
<1>1. ASSUME SettlementInv, [Next]_vars
      PROVE  StaysClosed
  <2>1. cancelledOrder \subseteq cancelledOrder' /\ revokedAuth \subseteq revokedAuth'
    BY <1>1, StepCases
    DEF SettleInTokens, SettleNative, PayoutAccepted, PayoutReturns, PayoutRefused,
        RevokeAuthorization, CancelOrder, Approve, Transfer, Tick, vars, closedVars
  <2>2. ASSUME NEW o \in Orders, filledBaseByOrder'[o] # filledBaseByOrder[o]
        PROVE  o \notin cancelledOrder /\ AuthOf(o) \notin revokedAuth
    BY <1>1, <2>2, FilledOnlyBySettlement
    DEF SettlementInv, Settlement, Admitted, VerifyAuth, VerifyOrder
  <2>3. QED
    BY <2>1, <2>2
<1>2. SettlementInv /\ [Next]_vars => [StaysClosed]_vars
  BY <1>1
<1>3. QED
  BY <1>2, Invariance, PTL DEF Spec, ClosedForGood

\* While its reserved part is open, a bound order trades with its legs only,
\* each at its price.
THEOREM ReservationFirst == Spec => ReservationHonoured
<1> DEFINE LegsOnly ==
      \A o \in Orders :
        /\ order[o].bound /\ InWindow(o)
        /\ boundFilledBase[o] < order[o].exclusiveBase
        /\ filledBaseByOrder'[o] > filledBaseByOrder[o]
        => \E c \in DOMAIN order[o].legs :
             /\ filledBaseByOrder'[o] - filledBaseByOrder[o] =
                  filledWithCounterparty'[o][c] - filledWithCounterparty[o][c]
             /\ \A f \in usedFill' \ usedFill : f.price = order[c].price
<1>1. ASSUME SettlementInv, [Next]_vars
      PROVE  LegsOnly
  <2> SUFFICES ASSUME NEW o \in Orders, order[o].bound, InWindow(o),
                      boundFilledBase[o] < order[o].exclusiveBase,
                      filledBaseByOrder'[o] > filledBaseByOrder[o]
               PROVE  \E c \in DOMAIN order[o].legs :
                        /\ filledBaseByOrder'[o] - filledBaseByOrder[o] =
                             filledWithCounterparty'[o][c] - filledWithCounterparty[o][c]
                        /\ \A f \in usedFill' \ usedFill : f.price = order[c].price
    OBVIOUS
  <2>1. /\ TypeOK
        /\ filledBaseByOrder[o] \in Nat /\ boundFilledBase[o] \in Nat
        /\ order[o].exclusiveBase \in Nat
    BY <1>1, SignedDataAssumption DEF SettlementInv, TypeOK
  <2>2. filledBaseByOrder'[o] # filledBaseByOrder[o]
    BY <2>1
  <2>3. PICK e \in Executors, f \in Fills : Settlement(e, f) /\ o \in TwoSides(f)
    BY <1>1, <2>1, <2>2, FilledOnlyBySettlement
  <2> DEFINE c == Counter(f, o)
             m == Amounts(f)
  <2>4. BindingAccepts(o, c, f.price)
    BY <2>3 DEF Settlement, Admitted
  <2>5. ~OthersAccepted(o)
    BY <2>1 DEF OthersAccepted
  <2>6. LegActive(o, c) /\ LegAccepts(o, c, f.price)
    BY <2>4, <2>5 DEF BindingAccepts
  <2>7. c \in DOMAIN order[o].legs /\ f.price = order[c].price
    BY <2>6 DEF LegActive, IsLeg, LegAccepts
  <2>8. c \in Orders /\ filledWithCounterparty[o][c] \in Nat /\ m.base \in Nat
    BY <2>1, <2>3, PartiesOfFill, AmountFacts DEF Settlement, TypeOK
  <2>9. /\ filledBaseByOrder'[o] = filledBaseByOrder[o] + m.base
        /\ filledWithCounterparty'[o][c] = filledWithCounterparty[o][c] + m.base
    <3>1. BoundPart(f, m, o) = m.base
      BY <2>6 DEF BoundPart, RecordsBinding, LegActive
    <3>2. QED
      BY <2>3, <2>8, <3>1 DEF Settlement, RecordFill
  <2>10. usedFill' \ usedFill \subseteq {f}
    BY <2>3 DEF Settlement, RecordFill
  <2>11. filledBaseByOrder'[o] - filledBaseByOrder[o] =
           filledWithCounterparty'[o][c] - filledWithCounterparty[o][c]
    <3> HIDE DEF c, m
    <3>1. QED
      BY <2>1, <2>8, <2>9
  <2>12. QED
    BY <2>7, <2>10, <2>11
<1>2. SettlementInv /\ [Next]_vars => [LegsOnly]_vars
  BY <1>1
<1>3. QED
  BY <1>2, Invariance, PTL DEF Spec, ReservationHonoured

-----------------------------------------------------------------------------
(***************************************************************************)
(* What a step does to the wallets and to the fills that come after it,    *)
(* and that the contract implements the promise of SpotPromise.  The       *)
(* contract does not refuse an authorization whose base and quote token    *)
(* are the same; what is signed for one leg then covers the other, so the  *)
(* two theorems about the wallets are about authorizations that trade two  *)
(* different tokens.                                                       *)
(***************************************************************************)
\* Every authorization trades one token for another.
TokensDiffer == \A a \in Auths : auth[a].baseToken # auth[a].quoteToken

-----------------------------------------------------------------------------
(***************************************************************************)
(* What a settlement does to every balance.                                *)
(***************************************************************************)
\* Balances c are b after n of token t went from x to y, as far as u and p tell.
Shifted(b, c, t, x, y, n, u, p) ==
  /\ u = t /\ p = x /\ x # y => c[u][p] = b[u][p] - n
  /\ u = t /\ p = y /\ x # y => c[u][p] = b[u][p] + n
  /\ u # t \/ p \notin {x, y} \/ x = y => c[u][p] = b[u][p]

\* A move changes the payer's and the payee's balance of one token.
LEMMA MovedAt ==
  ASSUME NEW b \in [Tokens -> [Holders -> Nat]], NEW t \in Tokens,
         NEW x \in Holders, NEW y \in Holders, NEW n \in Nat,
         NEW u \in Tokens, NEW p \in Holders
  PROVE  Shifted(b, Moved(b, t, x, y, n), t, x, y, n, u, p)
<1>1. /\ b[u][p] \in Nat /\ b[t][x] \in Nat /\ b[t][y] \in Nat
      /\ DOMAIN b = Tokens /\ \A v \in Tokens : DOMAIN b[v] = Holders
  OBVIOUS
<1> DEFINE paid == [b EXCEPT ![t][x] = @ - n]
<1>2. /\ DOMAIN paid = Tokens /\ \A v \in Tokens : DOMAIN paid[v] = Holders
      /\ \A v \in Tokens, h \in Holders :
           paid[v][h] = IF v = t /\ h = x THEN b[v][h] - n ELSE b[v][h]
  BY <1>1
<1>3. Moved(b, t, x, y, n) = [paid EXCEPT ![t][y] = @ + n]
  BY DEF Moved
<1> HIDE DEF paid
<1>4. Moved(b, t, x, y, n)[u][p] = IF u = t /\ p = y THEN paid[u][p] + n ELSE paid[u][p]
  BY <1>2, <1>3
<1>5. QED
  BY <1>1, <1>2, <1>4 DEF Shifted

\* The tokens of a fill are those of both its authorizations.
LEMMA TokensOfFill ==
  ASSUME NEW f \in Fills, Admitted(f), NEW o \in TwoSides(f)
  PROVE  /\ auth[AuthOf(o)].baseToken = BaseToken(f)
         /\ auth[AuthOf(o)].quoteToken = QuoteToken(f)
  BY PartiesOfFill DEF Admitted, VerifyFill, SameMarket, TwoSides, BaseToken, QuoteToken

\* The sell order is the seller's and the buy order the buyer's, both open and
\* signed, and the price lies between their limits.
LEMMA SignedSides ==
  ASSUME NEW f \in Fills, Admitted(f), NEW o \in TwoSides(f)
  PROVE  /\ order[o].side = "sell" =>
              o = SellOrder(f) /\ order[o].trader = Seller(f) /\ order[o].price <= f.price
         /\ order[o].side = "buy" =>
              o = BuyOrder(f) /\ order[o].trader = Buyer(f) /\ f.price <= order[o].price
         /\ order[SellOrder(f)].side = "sell" /\ order[BuyOrder(f)].side = "buy"
         /\ order[o].signer = order[o].trader
         /\ auth[AuthOf(o)].signer = order[o].trader
         /\ o \notin cancelledOrder /\ AuthOf(o) \notin revokedAuth
<1>1. \A x \in TwoSides(f) : VerifyOrder(x) /\ VerifyAuth(AuthOf(x))
  BY DEF Admitted
<1>2. \A x \in TwoSides(f) :
        /\ order[x].trader = auth[AuthOf(x)].grantor
        /\ order[x].signer = order[x].trader /\ auth[AuthOf(x)].signer = order[x].trader
        /\ x \notin cancelledOrder /\ AuthOf(x) \notin revokedAuth
  BY <1>1 DEF VerifyOrder, VerifyAuth
<1>3. /\ order[f.maker].side \in Sides /\ order[f.taker].side \in Sides
      /\ order[f.maker].side # order[f.taker].side
      /\ order[SellOrder(f)].price <= f.price /\ f.price <= order[BuyOrder(f)].price
  BY PartiesOfFill, SignedDataAssumption DEF Admitted, VerifyFill
<1>4. /\ order[o].side = "sell" => o = SellOrder(f)
      /\ order[o].side = "buy" => o = BuyOrder(f)
      /\ order[SellOrder(f)].side = "sell" /\ order[BuyOrder(f)].side = "buy"
  BY <1>3 DEF SellOrder, BuyOrder, TwoSides, Sides
<1>5. QED
  BY <1>2, <1>3, <1>4 DEF Seller, Buyer

\* A settlement takes the base from the seller, the quote and the fee from the
\* buyer, gives the quote to the seller, and takes nothing else from anybody.
LEMMA SettlementMoves ==
  ASSUME TokensDiffer, TypeOK, NEW e \in Executors, NEW f \in Fills,
         SettleInTokens(e, f) \/ SettleNative(e, f),
         NEW t \in Tokens, NEW p \in Accounts
  PROVE  LET m == Amounts(f) IN
         /\ balance'[t][p] \in Nat
         /\ t = BaseToken(f) /\ p = Seller(f) => balance'[t][p] = balance[t][p] - m.base
         /\ t = QuoteToken(f) /\ p = Buyer(f) =>
              balance'[t][p] >= balance[t][p] - (m.quote + m.fee)
         /\ t = QuoteToken(f) /\ p = Seller(f) => balance'[t][p] >= balance[t][p] + m.quote
         /\ balance'[t][p] < balance[t][p] =>
              (t = BaseToken(f) /\ p = Seller(f)) \/ (t = QuoteToken(f) /\ p = Buyer(f))
<1> DEFINE m == Amounts(f)
           q == QuoteToken(f)
           b == BaseToken(f)
           s == Seller(f)
           r == Buyer(f)
           one == AfterQuote(f, m)
           two == AfterFee(e, f, m)
<1>1. Settlement(e, f)
  BY SettleFacts
<1>2. /\ m.base \in Nat /\ m.quote \in Nat /\ m.fee \in Nat
      /\ Fits(e, f, m) /\ Admitted(f)
  BY <1>1, AmountFacts DEF Settlement
<1>3. /\ q \in Tokens /\ b \in Tokens /\ s \in Holders /\ r \in Holders
      /\ e \in Holders /\ p \in Holders
  BY PartiesOfFill, SignedDataAssumption DEF Holders
<1>4. s # r
  BY <1>2, TwoWallets
<1>5. q # b
  BY <1>2, PartiesOfFill, TokensOfFill DEF TokensDiffer, TwoSides
<1>6. balance \in [Tokens -> [Holders -> Nat]] /\ TypeOK'
  BY SettleType DEF TypeOK
<1>7. one = Moved(balance, q, r, s, m.quote) /\ two = Moved(one, q, r, e, m.fee)
  BY DEF AfterQuote, AfterFee
<1>8. /\ one \in [Tokens -> [Holders -> Nat]]
      /\ two \in [Tokens -> [Holders -> Nat]]
  <2>1. balance[q][r] >= m.quote /\ one[q][r] >= m.fee
    BY <1>2 DEF Fits, WalletsCover
  <2> HIDE DEF m, q, b, s, r, one, two
  <2>2. one \in [Tokens -> [Holders -> Nat]]
    BY <1>2, <1>3, <1>6, <1>7, <2>1, MovedType
  <2>3. QED
    BY <1>2, <1>3, <1>7, <2>1, <2>2, MovedType
<1>9. \/ balance' = Moved(two, b, s, r, m.base)
      \/ balance' = [two EXCEPT ![b][s] = @ - m.base]
  BY DEF SettleInTokens, SettleNative
<1> DEFINE mq == m.quote
           mf == m.fee
           mb == m.base
<1>10. one = Moved(balance, q, r, s, mq) /\ two = Moved(one, q, r, e, mf)
  BY <1>7
<1>11. \/ balance' = Moved(two, b, s, r, mb)
       \/ balance' = [two EXCEPT ![b][s] = @ - mb]
  BY <1>9
<1>12. mq \in Nat /\ mf \in Nat /\ mb \in Nat
  BY <1>2
<1> HIDE DEF mq, mf, mb, m, q, b, s, r, one, two
<1>13. /\ t = q /\ p = r => one[t][p] = balance[t][p] - mq
       /\ t = q /\ p = s => one[t][p] = balance[t][p] + mq
       /\ t # q \/ p \notin {r, s} => one[t][p] = balance[t][p]
  <2>1. Shifted(balance, Moved(balance, q, r, s, mq), q, r, s, mq, t, p)
    BY <1>3, <1>6, <1>12, MovedAt
  <2>2. QED
    BY <1>4, <1>10, <2>1 DEF Shifted
<1>14. /\ t = q /\ p = r => two[t][p] \in {one[t][p] - mf, one[t][p]}
       /\ p # r => two[t][p] \in {one[t][p] + mf, one[t][p]}
       /\ t # q => two[t][p] = one[t][p]
  <2>1. Shifted(one, Moved(one, q, r, e, mf), q, r, e, mf, t, p)
    BY <1>3, <1>8, <1>12, MovedAt
  <2>2. QED
    BY <1>10, <2>1 DEF Shifted
<1>15. /\ t = b /\ p = s => balance'[t][p] = two[t][p] - mb
       /\ t # b \/ p # s => balance'[t][p] \in {two[t][p] + mb, two[t][p]}
  <2>1. CASE balance' = Moved(two, b, s, r, mb)
    <3>1. Shifted(two, Moved(two, b, s, r, mb), b, s, r, mb, t, p)
      BY <1>3, <1>8, <1>12, MovedAt
    <3>2. QED
      BY <1>4, <2>1, <3>1 DEF Shifted
  <2>2. CASE balance' = [two EXCEPT ![b][s] = @ - mb]
    BY <1>3, <1>8, <1>12, <2>2
  <2>3. QED
    BY <1>11, <2>1, <2>2
<1>16. /\ balance'[t][p] \in Nat /\ balance[t][p] \in Nat
       /\ two[t][p] \in Nat /\ one[t][p] \in Nat
  BY <1>3, <1>6, <1>8 DEF TypeOK
<1>17. /\ t = b /\ p = s => balance'[t][p] = balance[t][p] - mb
       /\ t = q /\ p = r => balance'[t][p] >= balance[t][p] - (mq + mf)
       /\ t = q /\ p = s => balance'[t][p] >= balance[t][p] + mq
       /\ balance'[t][p] < balance[t][p] => (t = b /\ p = s) \/ (t = q /\ p = r)
  <2>1. CASE t = b
    BY <1>5, <1>12, <1>13, <1>14, <1>15, <1>16, <2>1
  <2>2. CASE t = q
    BY <1>4, <1>5, <1>12, <1>13, <1>14, <1>15, <1>16, <2>2
  <2>3. CASE t # b /\ t # q
    BY <1>12, <1>13, <1>14, <1>15, <1>16, <2>3
  <2>4. QED
    BY <2>1, <2>2, <2>3
<1>18. QED
  BY <1>16, <1>17 DEF mq, mf, mb, m, q, b, s, r

-----------------------------------------------------------------------------
(***************************************************************************)
(* Limit prices.                                                           *)
(***************************************************************************)
\* A division by a positive number keeps the order of naturals.
LEMMA DivMonotone ==
  ASSUME NEW a \in Nat, NEW b \in Nat, NEW d \in Nat \ {0}, a <= b
  PROVE  a \div d <= b \div d
<1> DEFINE x == a \div d
           y == b \div d
<1>1. x \in Nat /\ y \in Nat
  BY DivNat
<1>2. x * d <= a
  BY DivTimes
<1>3. b < y * d + d
  <2>1. b = d * (b \div d) + (b % d) /\ b % d \in 0..(d - 1)
    OBVIOUS
  <2>2. QED
    BY <1>1, <2>1
<1> HIDE DEF x, y
<1>4. ASSUME y < x PROVE FALSE
  <2>1. y + 1 <= x
    BY <1>1, <1>4
  <2>2. (y + 1) * d <= x * d
    BY <1>1, <2>1
  <2>3. (y + 1) * d = y * d + d /\ y * d \in Nat /\ x * d \in Nat
    BY <1>1
  <2>4. QED
    BY <1>2, <1>3, <2>2, <2>3
<1>5. QED
  BY <1>1, <1>4 DEF x, y

\* A higher price never lowers the quote amount.
LEMMA QuoteMonotone ==
  ASSUME NEW base \in Nat, NEW p \in Nat, NEW q \in Nat, p <= q
  PROVE  QuoteFor(base, p) <= QuoteFor(base, q)
<1>1. base * p \in Nat /\ base * q \in Nat
  BY TimesNat
<1>2. base * p <= base * q
  OBVIOUS
<1>3. QED
  BY <1>1, <1>2, DivMonotone, EnvironmentAssumption DEF QuoteFor

\* A trade never costs a trader more, or brings it less, than its limit price
\* allows for the base that settles, whoever sends the fill and however it is
\* clamped.
THEOREM LimitPrices ==
  ASSUME TokensDiffer PROVE Spec => LimitPricesHonoured
<1> DEFINE Honoured ==
      \A o \in Orders :
        LET base == filledBaseByOrder'[o] - filledBaseByOrder[o]
            p    == order[o].trader
            q    == auth[AuthOf(o)].quoteToken
            fee  == usedExecutorFeeQuoteByAuth'[AuthOf(o)] -
                    usedExecutorFeeQuoteByAuth[AuthOf(o)]
            gain == balance'[q][p] - balance[q][p]
        IN base > 0 => IF order[o].side = "buy"
                       THEN gain >= -(QuoteFor(base, order[o].price) + fee)
                       ELSE gain >= QuoteFor(base, order[o].price)
<1>1. ASSUME SettlementInv, [Next]_vars
      PROVE  Honoured
  <2> SUFFICES ASSUME NEW o \in Orders, filledBaseByOrder'[o] - filledBaseByOrder[o] > 0
               PROVE  LET base == filledBaseByOrder'[o] - filledBaseByOrder[o]
                          p    == order[o].trader
                          q    == auth[AuthOf(o)].quoteToken
                          fee  == usedExecutorFeeQuoteByAuth'[AuthOf(o)] -
                                  usedExecutorFeeQuoteByAuth[AuthOf(o)]
                          gain == balance'[q][p] - balance[q][p]
                      IN  IF order[o].side = "buy"
                          THEN gain >= -(QuoteFor(base, order[o].price) + fee)
                          ELSE gain >= QuoteFor(base, order[o].price)
    OBVIOUS
  <2>1. TypeOK /\ filledBaseByOrder[o] \in Nat
    BY <1>1 DEF SettlementInv, TypeOK
  <2>2. filledBaseByOrder'[o] # filledBaseByOrder[o]
    BY <2>1
  <2>3. PICK e \in Executors, f \in Fills :
          /\ SettleInTokens(e, f) \/ SettleNative(e, f)
          /\ Settlement(e, f) /\ o \in TwoSides(f)
    BY <1>1, <2>1, <2>2, FilledOnlyBySettlement
  <2> DEFINE m == Amounts(f)
             p == order[o].trader
             q == auth[AuthOf(o)].quoteToken
             a == AuthOf(o)
  <2>4. Admitted(f) /\ m.base \in Nat /\ m.quote \in Nat /\ m.fee \in Nat
    BY <2>1, <2>3, AmountFacts DEF Settlement
  <2>5. filledBaseByOrder'[o] - filledBaseByOrder[o] = m.base
    <3>1. filledBaseByOrder'[o] = filledBaseByOrder[o] + m.base
      BY <2>3 DEF Settlement, RecordFill
    <3> HIDE DEF m
    <3>2. QED
      BY <2>1, <2>4, <3>1
  <2>6. m.quote = QuoteFor(m.base, f.price)
    BY DEF Amounts, SettledQuote
  <2>7. /\ a \in Auths /\ q \in Tokens /\ p \in Accounts /\ q = QuoteToken(f)
        /\ f.price \in Nat /\ order[o].price \in Nat /\ order[o].side \in Sides
    BY <2>3, <2>4, PartiesOfFill, TokensOfFill, SignedDataAssumption
  <2>8. balance[q][p] \in Nat /\ balance'[q][p] \in Nat
    BY <2>1, <2>3, <2>7, SettleType DEF TypeOK, Holders
  <2>9. CASE order[o].side = "sell"
    <3>1. p = Seller(f) /\ order[o].price <= f.price
      BY <2>3, <2>4, <2>9, SignedSides
    <3>2. balance'[q][p] >= balance[q][p] + m.quote
      BY <2>1, <2>3, <2>7, <3>1, SettlementMoves
    <3>3. QuoteFor(m.base, order[o].price) <= m.quote
      BY <2>4, <2>6, <2>7, <3>1, QuoteMonotone
    <3>4. QuoteFor(m.base, order[o].price) \in Nat
      BY <2>4, <2>7, QuoteNat
    <3> HIDE DEF m, p, q
    <3>5. balance'[q][p] - balance[q][p] >= QuoteFor(m.base, order[o].price)
      BY <2>4, <2>8, <3>2, <3>3, <3>4
    <3>6. QED
      BY <2>5, <2>9, <3>5 DEF p, q
  <2>10. CASE order[o].side = "buy"
    <3>1. p = Buyer(f) /\ f.price <= order[o].price /\ o = BuyOrder(f)
      BY <2>3, <2>4, <2>10, SignedSides
    <3>2. balance'[q][p] >= balance[q][p] - (m.quote + m.fee)
      BY <2>1, <2>3, <2>7, <3>1, SettlementMoves
    <3>3. m.quote <= QuoteFor(m.base, order[o].price)
      BY <2>4, <2>6, <2>7, <3>1, QuoteMonotone
    <3>4. QuoteFor(m.base, order[o].price) \in Nat
      BY <2>4, <2>7, QuoteNat
    <3>5. usedExecutorFeeQuoteByAuth'[a] - usedExecutorFeeQuoteByAuth[a] = m.fee
      <4>1. usedExecutorFeeQuoteByAuth' =
              [usedExecutorFeeQuoteByAuth EXCEPT ![a] = @ + m.fee]
        BY <2>3, <3>1 DEF Settlement, ConsumeExposure
      <4>2. usedExecutorFeeQuoteByAuth[a] \in Nat
        BY <2>1, <2>7 DEF TypeOK
      <4> HIDE DEF m, a
      <4>3. QED
        BY <2>1, <2>4, <2>7, <4>1, <4>2 DEF TypeOK
    <3> HIDE DEF m, p, q, a
    <3>6. balance'[q][p] - balance[q][p] >= -(QuoteFor(m.base, order[o].price) + m.fee)
      BY <2>4, <2>8, <3>2, <3>3, <3>4
    <3>7. QED
      BY <2>5, <2>10, <3>5, <3>6 DEF p, q, a
  <2>11. QED
    BY <2>7, <2>9, <2>10 DEF Sides
<1>2. SettlementInv /\ [Next]_vars => [Honoured]_vars
  BY <1>1
<1>3. QED
  BY <1>2, Invariance, PTL DEF Spec, LimitPricesHonoured

-----------------------------------------------------------------------------
(***************************************************************************)
(* Whose hand a token leaves a wallet by.                                  *)
(***************************************************************************)
\* Tokens that a settlement takes are those a signed, open order or its
\* authorization is charged for.
LEMMA SettlementTakesWhatIsSigned ==
  ASSUME TokensDiffer, TypeOK, NEW e \in Executors, NEW f \in Fills,
         SettleInTokens(e, f) \/ SettleNative(e, f),
         NEW p \in Accounts, NEW t \in Tokens, balance'[t][p] < balance[t][p]
  PROVE  \E o \in Orders \ cancelledOrder :
           LET a     == AuthOf(o)
               spent == balance[t][p] - balance'[t][p]
           IN /\ a \notin revokedAuth
              /\ order[o].signer = p /\ auth[a].signer = p
              /\ \/ /\ order[o].side = "sell" /\ t = auth[a].baseToken
                    /\ spent = filledBaseByOrder'[o] - filledBaseByOrder[o]
                 \/ /\ order[o].side = "buy" /\ t = auth[a].quoteToken
                    /\ spent <= usedQuoteByAuth'[a] - usedQuoteByAuth[a] +
                         usedExecutorFeeQuoteByAuth'[a] - usedExecutorFeeQuoteByAuth[a]
<1> DEFINE m == Amounts(f)
           s == SellOrder(f)
           b == BuyOrder(f)
           a == AuthOf(b)
<1>1. Settlement(e, f) /\ Admitted(f)
  BY SettleFacts DEF Settlement
<1>2. m.base \in Nat /\ m.quote \in Nat /\ m.fee \in Nat
  BY <1>1, AmountFacts
<1>3. /\ s \in TwoSides(f) /\ b \in TwoSides(f) /\ s \in Orders /\ b \in Orders
      /\ a \in Auths
  BY PartiesOfFill
<1>4. balance[t][p] \in Nat /\ balance'[t][p] \in Nat
  BY SettleType DEF TypeOK, Holders
<1>5. \/ t = BaseToken(f) /\ p = Seller(f) /\ balance'[t][p] = balance[t][p] - m.base
      \/ t = QuoteToken(f) /\ p = Buyer(f)
         /\ balance'[t][p] >= balance[t][p] - (m.quote + m.fee)
  BY SettlementMoves
<1>6. CASE t = BaseToken(f) /\ p = Seller(f) /\ balance'[t][p] = balance[t][p] - m.base
  <2>1. /\ order[s].side = "sell" /\ order[s].signer = p /\ auth[AuthOf(s)].signer = p
        /\ s \notin cancelledOrder /\ AuthOf(s) \notin revokedAuth
    BY <1>1, <1>3, <1>6, SignedSides
  <2>2. t = auth[AuthOf(s)].baseToken
    BY <1>1, <1>3, <1>6, TokensOfFill
  <2>3. balance[t][p] - balance'[t][p] = filledBaseByOrder'[s] - filledBaseByOrder[s]
    <3>1. filledBaseByOrder'[s] = filledBaseByOrder[s] + m.base /\ filledBaseByOrder[s] \in Nat
      BY <1>1, <1>3 DEF Settlement, RecordFill, TypeOK
    <3> HIDE DEF m, s
    <3>2. QED
      BY <1>2, <1>4, <1>6, <3>1
  <2> HIDE DEF s
  <2>4. QED
    BY <1>3, <2>1, <2>2, <2>3
<1>7. CASE t = QuoteToken(f) /\ p = Buyer(f)
           /\ balance'[t][p] >= balance[t][p] - (m.quote + m.fee)
  <2>1. /\ order[b].side = "buy" /\ order[b].signer = p /\ auth[a].signer = p
        /\ b \notin cancelledOrder /\ a \notin revokedAuth
    BY <1>1, <1>3, <1>7, SignedSides
  <2>2. t = auth[a].quoteToken
    BY <1>1, <1>3, <1>7, TokensOfFill
  <2>3. balance[t][p] - balance'[t][p] <= usedQuoteByAuth'[a] - usedQuoteByAuth[a] +
          usedExecutorFeeQuoteByAuth'[a] - usedExecutorFeeQuoteByAuth[a]
    <3>1. /\ usedQuoteByAuth' = [usedQuoteByAuth EXCEPT ![a] = @ + m.quote]
          /\ usedExecutorFeeQuoteByAuth' =
               [usedExecutorFeeQuoteByAuth EXCEPT ![a] = @ + m.fee]
      BY <1>1 DEF Settlement, ConsumeExposure
    <3> HIDE DEF m, a
    <3>2. /\ usedQuoteByAuth'[a] = usedQuoteByAuth[a] + m.quote
          /\ usedExecutorFeeQuoteByAuth'[a] = usedExecutorFeeQuoteByAuth[a] + m.fee
          /\ usedQuoteByAuth[a] \in Nat /\ usedExecutorFeeQuoteByAuth[a] \in Nat
      BY <1>3, <3>1 DEF TypeOK
    <3>3. QED
      BY <1>2, <1>4, <1>7, <3>2
  <2> HIDE DEF b
  <2>4. QED
    BY <1>3, <2>1, <2>2, <2>3 DEF a
<1>8. QED
  BY <1>5, <1>6, <1>7

\* Tokens leave a wallet by its holder's own hand, or for an order and an
\* authorization the holder signed and has not closed, no more than these are
\* charged: no executor, counterparty or callback takes anything else.
THEOREM WalletsMoves ==
  ASSUME TokensDiffer PROVE Spec => WalletsMoveOnlyAsSigned
<1> DEFINE Signed(p, t) ==
      \E o \in Orders \ cancelledOrder :
         LET a     == AuthOf(o)
             spent == balance[t][p] - balance'[t][p]
         IN /\ a \notin revokedAuth
            /\ order[o].signer = p /\ auth[a].signer = p
            /\ \/ /\ order[o].side = "sell" /\ t = auth[a].baseToken
                  /\ spent = filledBaseByOrder'[o] - filledBaseByOrder[o]
               \/ /\ order[o].side = "buy" /\ t = auth[a].quoteToken
                  /\ spent <= usedQuoteByAuth'[a] - usedQuoteByAuth[a] +
                       usedExecutorFeeQuoteByAuth'[a] - usedExecutorFeeQuoteByAuth[a]
           OnlyAsSigned ==
      \A p \in Accounts, t \in Tokens : balance'[t][p] < balance[t][p] =>
        \/ MayAct(p) /\ UNCHANGED <<fillVars, exposureVars, allowance>>
        \/ Signed(p, t)
<1>1. ASSUME SettlementInv, [Next]_vars
      PROVE  OnlyAsSigned
  <2> SUFFICES ASSUME NEW p \in Accounts, NEW t \in Tokens, balance'[t][p] < balance[t][p]
               PROVE  \/ MayAct(p) /\ UNCHANGED <<fillVars, exposureVars, allowance>>
                      \/ Signed(p, t)
    OBVIOUS
  <2>1. TypeOK /\ balance[t][p] \in Nat /\ p \in Holders
    BY <1>1 DEF SettlementInv, TypeOK, Holders
  <2>2. balance' # balance
    BY <2>1
  <2>3. CASE \E e \in Executors, f \in Fills : SettleInTokens(e, f) \/ SettleNative(e, f)
    BY <2>1, <2>3, SettlementTakesWhatIsSigned
  <2>4. CASE PayoutRefused
    <3>1. /\ balance' = [balance EXCEPT ![WrappedNative][payout.buyer] = @ + payout.base]
          /\ payout \in Payouts /\ payout.stage = "calling" /\ payout # NoPayout
      BY <2>1, <2>4 DEF PayoutRefused, TypeOK, NoPayout
    <3>2. payout.base \in Nat
      BY <3>1 DEF Payouts
    <3>3. balance'[t][p] >= balance[t][p]
      BY <2>1, <3>1, <3>2 DEF TypeOK
    <3>4. QED
      BY <2>1, <3>1, <3>2, <3>3 DEF TypeOK
  <2>5. ASSUME NEW x \in Accounts, NEW y \in Accounts, NEW u \in Tokens,
               NEW n \in Transfers, Transfer(x, y, u, n)
        PROVE  MayAct(p) /\ UNCHANGED <<fillVars, exposureVars, allowance>>
    <3>1. /\ x \in Holders /\ y \in Holders /\ n \in Nat
          /\ balance \in [Tokens -> [Holders -> Nat]]
      BY <2>1, EnvironmentAssumption DEF Holders, TypeOK
    <3>2. balance' = Moved(balance, u, x, y, n)
      BY <2>5 DEF Transfer
    <3>3. Shifted(balance, Moved(balance, u, x, y, n), u, x, y, n, t, p)
      BY <2>1, <3>1, MovedAt
    <3>4. p = x
      BY <2>1, <3>1, <3>2, <3>3 DEF Shifted
    <3>5. QED
      BY <2>5, <3>4 DEF Transfer
  <2>6. QED
    BY <1>1, <2>2, <2>3, <2>4, <2>5, StepCases
    DEF PayoutAccepted, PayoutReturns, RevokeAuthorization, CancelOrder, Approve, Tick,
        vars, walletVars
<1>2. SettlementInv /\ [Next]_vars => [OnlyAsSigned]_vars
  BY <1>1
<1>3. QED
  BY <1>2, Invariance, PTL DEF Spec, WalletsMoveOnlyAsSigned

-----------------------------------------------------------------------------
(***************************************************************************)
(* The proof that a fill without an executor fee is never made to revert   *)
(* by another fill of the same orders that settles first.  Clamping the    *)
(* base is what the contract does about it; that the quote then fits the   *)
(* signed cap is not evident, since the quote of every fill is rounded on  *)
(* its own.  It follows because the rounding is always down, so the quotes *)
(* of the parts never add up to more than the quote of the whole.          *)
(***************************************************************************)
\* No other order draws on the authorization of this one.
OwnAuth(o) == \A p \in Orders \ {o} : AuthOf(p) # AuthOf(o)

\* An authorization with one order is never charged for more than what that
\* order has filled, at its limit.
ChargedAsFilled ==
  \A o \in Orders : OwnAuth(o) =>
    /\ order[o].side = "sell" => usedBaseByAuth[AuthOf(o)] <= filledBaseByOrder[o]
    /\ order[o].side = "buy" =>
         usedQuoteByAuth[AuthOf(o)] <= QuoteFor(filledBaseByOrder[o], order[o].price)

-----------------------------------------------------------------------------
(***************************************************************************)
(* Rounding down.                                                          *)
(***************************************************************************)
\* The integer quotient is the largest whose multiple fits.
LEMMA DivLargest ==
  ASSUME NEW a \in Nat, NEW k \in Nat, NEW d \in Nat \ {0}, k * d <= a
  PROVE  k <= a \div d
<1>1. k * d \in Nat
  BY TimesNat
<1>2. (k * d) \div d <= a \div d
  BY <1>1, DivMonotone
<1>3. (k * d) \div d = k
  OBVIOUS
<1>4. QED
  BY <1>2, <1>3

\* The quotes of two parts are together at most the quote of the whole.
LEMMA QuotesAddUp ==
  ASSUME NEW x \in Nat, NEW y \in Nat, NEW p \in Nat
  PROVE  QuoteFor(x, p) + QuoteFor(y, p) <= QuoteFor(x + y, p)
<1> DEFINE u == QuoteFor(x, p)
           v == QuoteFor(y, p)
<1>1. u \in Nat /\ v \in Nat /\ Scale \in Nat \ {0}
  BY QuoteNat, EnvironmentAssumption
<1>2. x * p \in Nat /\ y * p \in Nat /\ (x + y) * p = x * p + y * p
  BY TimesNat
<1>3. u * Scale <= x * p /\ v * Scale <= y * p
  BY <1>1, <1>2, DivTimes DEF QuoteFor
<1>4. (x + y) * p \in Nat
  BY <1>2
<1> HIDE DEF u, v
<1>5. (u + v) * Scale = u * Scale + v * Scale /\ u * Scale \in Nat /\ v * Scale \in Nat
  BY <1>1
<1>6. (u + v) * Scale <= (x + y) * p
  BY <1>2, <1>3, <1>5
<1>7. u + v <= ((x + y) * p) \div Scale
  BY <1>1, <1>4, <1>6, DivLargest
<1>8. QED
  BY <1>7 DEF u, v, QuoteFor

\* More base never has a smaller quote.
LEMMA QuoteGrows ==
  ASSUME NEW x \in Nat, NEW y \in Nat, NEW p \in Nat, x <= y
  PROVE  QuoteFor(x, p) <= QuoteFor(y, p)
<1>1. x * p \in Nat /\ y * p \in Nat
  BY TimesNat
<1>2. x * p <= y * p
  OBVIOUS
<1>3. QED
  BY <1>1, <1>2, DivMonotone, EnvironmentAssumption DEF QuoteFor

-----------------------------------------------------------------------------
(***************************************************************************)
(* The charge of an authorization with one order.                          *)
(***************************************************************************)
\* A settlement charges an authorization with one order for what the order
\* fills, at most at its limit.
LEMMA SettlementKeepsCharge ==
  ASSUME TypeOK, ChargedAsFilled, NEW e, NEW f \in Fills, Settlement(e, f)
  PROVE  ChargedAsFilled'
<1> SUFFICES ASSUME NEW o \in Orders, OwnAuth(o)
             PROVE  /\ order[o].side = "sell" =>
                         usedBaseByAuth'[AuthOf(o)] <= filledBaseByOrder'[o]
                    /\ order[o].side = "buy" =>
                         usedQuoteByAuth'[AuthOf(o)] <=
                           QuoteFor(filledBaseByOrder'[o], order[o].price)
  BY DEF ChargedAsFilled, OwnAuth, AuthOf
<1> DEFINE m == Amounts(f)
           mb == m.base
           mq == m.quote
           a == AuthOf(o)
           s == AuthOf(SellOrder(f))
           r == AuthOf(BuyOrder(f))
           filled == filledBaseByOrder[o]
           price == order[o].price
<1>1. Admitted(f) /\ mb \in Nat /\ mq \in Nat
  BY AmountFacts DEF Settlement
<1>2. mq = QuoteFor(mb, f.price)
  BY DEF Amounts, SettledQuote
<1>3. /\ SellOrder(f) \in Orders /\ BuyOrder(f) \in Orders
      /\ SellOrder(f) \in TwoSides(f) /\ BuyOrder(f) \in TwoSides(f)
      /\ a \in Auths /\ s \in Auths /\ r \in Auths /\ f.price \in Nat
  BY PartiesOfFill
<1>4. /\ filled \in Nat /\ price \in Nat
      /\ usedBaseByAuth[a] \in Nat /\ usedQuoteByAuth[a] \in Nat
  BY <1>3, SignedDataAssumption DEF TypeOK
<1>5. /\ order[o].side = "sell" => usedBaseByAuth[a] <= filled
      /\ order[o].side = "buy" => usedQuoteByAuth[a] <= QuoteFor(filled, price)
  BY DEF ChargedAsFilled
<1>6. /\ filledBaseByOrder'[o] = filled + (IF o \in TwoSides(f) THEN mb ELSE 0)
      /\ usedBaseByAuth'[a] = usedBaseByAuth[a] + (IF a = s THEN mb ELSE 0)
      /\ usedQuoteByAuth'[a] = usedQuoteByAuth[a] + (IF a = r THEN mq ELSE 0)
  BY <1>3, <1>4 DEF Settlement, RecordFill, ConsumeExposure, TypeOK
<1>7. /\ a = s => o = SellOrder(f)
      /\ a = r => o = BuyOrder(f)
  BY <1>3 DEF OwnAuth
<1>8. /\ o = SellOrder(f) => o \in TwoSides(f)
      /\ o = BuyOrder(f) => o \in TwoSides(f) /\ f.price <= price
  BY <1>1, <1>3, SignedSides
<1>9. QuoteFor(filled, price) \in Nat
  BY <1>4, QuoteNat
<1> HIDE DEF m, mb, mq, a, s, r, filled, price
<1>10. ASSUME order[o].side = "sell"
       PROVE  usedBaseByAuth'[a] <= filledBaseByOrder'[o]
  BY <1>1, <1>4, <1>5, <1>6, <1>7, <1>8, <1>10
<1>11. ASSUME order[o].side = "buy"
       PROVE  usedQuoteByAuth'[a] <= QuoteFor(filledBaseByOrder'[o], price)
  <2>1. CASE a = r
    <3>1. usedQuoteByAuth'[a] = usedQuoteByAuth[a] + mq /\ filledBaseByOrder'[o] = filled + mb
      BY <1>6, <1>7, <1>8, <2>1
    <3>2. mq <= QuoteFor(mb, price)
      BY <1>1, <1>2, <1>3, <1>4, <1>7, <1>8, <2>1, QuoteMonotone
    <3>3. QuoteFor(filled, price) + QuoteFor(mb, price) <= QuoteFor(filled + mb, price)
      BY <1>1, <1>4, QuotesAddUp
    <3>4. filled + mb \in Nat
      BY <1>1, <1>4
    <3>5. QuoteFor(mb, price) \in Nat /\ QuoteFor(filled + mb, price) \in Nat
      BY <1>1, <1>4, <3>4, QuoteNat
    <3>6. QED
      BY <1>1, <1>4, <1>5, <1>9, <1>11, <3>1, <3>2, <3>3, <3>5
  <2>2. CASE a # r
    <3>1. usedQuoteByAuth'[a] = usedQuoteByAuth[a]
      BY <1>4, <1>6, <2>2
    <3>2. filledBaseByOrder'[o] \in Nat /\ filled <= filledBaseByOrder'[o]
      BY <1>1, <1>4, <1>6
    <3>3. QuoteFor(filled, price) <= QuoteFor(filledBaseByOrder'[o], price)
      BY <1>4, <3>2, QuoteGrows
    <3>4. QuoteFor(filledBaseByOrder'[o], price) \in Nat
      BY <1>4, <3>2, QuoteNat
    <3>5. QED
      BY <1>4, <1>5, <1>9, <1>11, <3>1, <3>3, <3>4
  <2>3. QED
    BY <2>1, <2>2
<1>12. QED
  BY <1>10, <1>11 DEF a, price

\* It holds before anything has been charged.
LEMMA InitCharge == Init => ChargedAsFilled
<1> SUFFICES ASSUME Init, NEW o \in Orders
             PROVE  /\ usedBaseByAuth[AuthOf(o)] <= filledBaseByOrder[o]
                    /\ usedQuoteByAuth[AuthOf(o)] <=
                         QuoteFor(filledBaseByOrder[o], order[o].price)
  BY DEF ChargedAsFilled
<1>1. AuthOf(o) \in Auths /\ order[o].price \in Nat
  BY SignedDataAssumption DEF AuthOf
<1>2. /\ usedBaseByAuth[AuthOf(o)] = 0 /\ usedQuoteByAuth[AuthOf(o)] = 0
      /\ filledBaseByOrder[o] = 0
  BY <1>1 DEF Init
<1>3. QuoteFor(filledBaseByOrder[o], order[o].price) \in Nat
  BY <1>1, <1>2, QuoteNat
<1>4. QED
  BY <1>2, <1>3

\* Only settlements write the ledgers.
LEMMA LedgerWriters ==
  ASSUME [Next]_vars
  PROVE  \/ \E e \in Executors, f \in Fills : SettleInTokens(e, f) \/ SettleNative(e, f)
         \/ UNCHANGED <<fillVars, exposureVars>>
  BY StepCases
  DEF PayoutAccepted, PayoutReturns, PayoutRefused, RevokeAuthorization, CancelOrder,
      Approve, Transfer, Tick, vars

\* Every step keeps the charge.
LEMMA NextCharge == SettlementInv /\ ChargedAsFilled /\ [Next]_vars => ChargedAsFilled'
<1> SUFFICES ASSUME SettlementInv, ChargedAsFilled, [Next]_vars
             PROVE  ChargedAsFilled'
  OBVIOUS
<1>1. CASE \E e \in Executors, f \in Fills : SettleInTokens(e, f) \/ SettleNative(e, f)
  BY <1>1, SettleFacts, SettlementKeepsCharge DEF SettlementInv
<1>2. CASE UNCHANGED <<fillVars, exposureVars>>
  BY <1>2 DEF ChargedAsFilled, OwnAuth, AuthOf, QuoteFor, fillVars, exposureVars
<1>3. QED
  BY <1>1, <1>2, LedgerWriters

-----------------------------------------------------------------------------
(***************************************************************************)
(* What fits: a fill without a fee that is admitted, with room left, fits  *)
(* the caps of two authorizations made for the two orders.                 *)
(***************************************************************************)
FreeFillFits(e, f) ==
  /\ f.fee = 0
  /\ Admitted(f) /\ RoomLeft(e, f)
  /\ \A o \in TwoSides(f) : OwnCaps(o)
  => CanSettle(e, f)

\* The sell order's cap covers what it has filled and what is left of it.
LEMMA SaleFits ==
  ASSUME SettlementInv, ChargedAsFilled, NEW f \in Fills, Admitted(f),
         \A o \in TwoSides(f) : OwnCaps(o)
  PROVE  SellExposureFits(AuthOf(SellOrder(f)), Amounts(f).base)
<1> DEFINE o == SellOrder(f)
           a == AuthOf(o)
           base == Amounts(f).base
<1>1. o \in Orders /\ o \in TwoSides(f) /\ a \in Auths
  BY PartiesOfFill
<1>2. TypeOK /\ order[o].side = "sell"
  BY <1>1, SignedSides DEF SettlementInv
<1>3. base \in Nat /\ base <= OrderRoom(o)
  BY <1>1, <1>2, AmountFacts
<1>4. /\ usedBaseByAuth[a] \in Nat /\ filledBaseByOrder[o] \in Nat
      /\ order[o].baseAmount \in Nat /\ auth[a].maxBaseExposure \in Nat
  BY <1>1, <1>2, SignedDataAssumption DEF TypeOK, AuthRecord
<1>5. OwnAuth(o) /\ auth[a].maxBaseExposure >= order[o].baseAmount
  BY <1>1, <1>2 DEF OwnCaps, OwnAuth
<1>6. usedBaseByAuth[a] <= filledBaseByOrder[o]
  BY <1>1, <1>2, <1>5 DEF ChargedAsFilled
<1> HIDE DEF o, a, base
<1>7. usedBaseByAuth[a] + base <= auth[a].maxBaseExposure
  BY <1>3, <1>4, <1>5, <1>6 DEF OrderRoom
<1>8. QED
  BY <1>7 DEF SellExposureFits, o, a, base

\* The buy order's caps cover the quote of what it has filled and of what is
\* left of it.
LEMMA PurchaseFits ==
  ASSUME SettlementInv, ChargedAsFilled, NEW f \in Fills, Admitted(f), f.fee = 0,
         \A o \in TwoSides(f) : OwnCaps(o)
  PROVE  BuyExposureFits(AuthOf(BuyOrder(f)), Amounts(f).quote, Amounts(f).fee)
<1> DEFINE o == BuyOrder(f)
           a == AuthOf(o)
           base == Amounts(f).base
           quote == Amounts(f).quote
           fee == Amounts(f).fee
           filled == filledBaseByOrder[o]
           price == order[o].price
           whole == order[o].baseAmount
<1>1. o \in Orders /\ o \in TwoSides(f) /\ a \in Auths /\ f.price \in Nat /\ f.base \in Nat
  BY PartiesOfFill
<1>2. /\ TypeOK /\ CapsHold
      /\ order[o].side = "buy" /\ f.price <= price
  BY <1>1, SignedSides DEF SettlementInv
<1>3. /\ base \in Nat /\ quote \in Nat
      /\ base <= OrderRoom(o)
  BY <1>1, <1>2, AmountFacts
<1>4. /\ usedQuoteByAuth[a] \in Nat /\ usedExecutorFeeQuoteByAuth[a] \in Nat
      /\ filled \in Nat /\ whole \in Nat /\ price \in Nat
      /\ auth[a].maxQuoteExposure \in Nat
      /\ auth[a].maxExecutorFeeQuote \in Nat
  BY <1>1, <1>2, SignedDataAssumption DEF TypeOK, AuthRecord
<1>5. OwnAuth(o) /\ auth[a].maxQuoteExposure >= QuoteFor(whole, price)
  <2>1. order[o].side # "sell"
    BY <1>2
  <2>2. QED
    BY <1>1, <2>1 DEF OwnCaps, OwnAuth
<1>6. usedQuoteByAuth[a] <= QuoteFor(filled, price)
  BY <1>1, <1>2, <1>5 DEF ChargedAsFilled
<1>7. quote = QuoteFor(base, f.price)
  BY DEF Amounts, SettledQuote
<1>8. fee = 0
  <2>1. f.base \in Nat \ {0}
    BY <1>1 DEF Admitted
  <2>2. SettledBase(f) = base /\ fee = SettledFee(f, base)
    BY DEF Amounts
  <2> HIDE DEF base, fee
  <2>3. 0 * base = 0 /\ 0 \div f.base = 0
    BY <1>3, <2>1
  <2>4. QED
    BY <2>2, <2>3 DEF SettledFee
<1>9. usedExecutorFeeQuoteByAuth[a] <= auth[a].maxExecutorFeeQuote
  BY <1>1, <1>2 DEF CapsHold
<1>10. filled + base \in Nat /\ filled + base <= whole
  <2> HIDE DEF base
  <2>1. QED
    BY <1>3, <1>4 DEF OrderRoom
<1> HIDE DEF o, a, base, quote, fee, filled, price, whole
<1>11. quote <= QuoteFor(base, price)
  BY <1>1, <1>2, <1>3, <1>4, <1>7, QuoteMonotone
<1>12. QuoteFor(filled, price) + QuoteFor(base, price) <= QuoteFor(filled + base, price)
  BY <1>3, <1>4, QuotesAddUp
<1>13. QuoteFor(filled + base, price) <= QuoteFor(whole, price)
  BY <1>4, <1>10, QuoteGrows
<1>14. /\ QuoteFor(filled, price) \in Nat /\ QuoteFor(base, price) \in Nat
       /\ QuoteFor(filled + base, price) \in Nat /\ QuoteFor(whole, price) \in Nat
  BY <1>3, <1>4, <1>10, QuoteNat
<1>15. usedQuoteByAuth[a] + quote <= auth[a].maxQuoteExposure
  BY <1>3, <1>4, <1>5, <1>6, <1>11, <1>12, <1>13, <1>14
<1>16. usedExecutorFeeQuoteByAuth[a] + fee <= auth[a].maxExecutorFeeQuote /\ ~(fee > 0)
  BY <1>4, <1>8, <1>9
<1>17. QED
  BY <1>15, <1>16 DEF BuyExposureFits, o, a, quote, fee

\* What is admitted and has room fits.
LEMMA FreeFillsFit ==
  SettlementInv /\ ChargedAsFilled => \A e \in Executors, f \in Fills : FreeFillFits(e, f)
<1> SUFFICES ASSUME SettlementInv, ChargedAsFilled, NEW e \in Executors, NEW f \in Fills,
                    f.fee = 0, Admitted(f), RoomLeft(e, f),
                    \A o \in TwoSides(f) : OwnCaps(o)
             PROVE  Fits(e, f, Amounts(f))
  BY DEF FreeFillFits, CanSettle
<1>1. SellExposureFits(AuthOf(SellOrder(f)), Amounts(f).base)
  BY SaleFits
<1>2. BuyExposureFits(AuthOf(BuyOrder(f)), Amounts(f).quote, Amounts(f).fee)
  BY PurchaseFits
<1>3. Amounts(f).quote # 0 /\ WalletsCover(e, f, Amounts(f))
  BY DEF RoomLeft, Amounts
<1>4. f.fee * Amounts(f).base <= MaxUint
  <2>1. Amounts(f).base \in Nat
    BY AmountFacts DEF SettlementInv
  <2>2. QED
    BY <2>1, EnvironmentAssumption
<1>5. QED
  BY <1>1, <1>2, <1>3, <1>4 DEF Fits

-----------------------------------------------------------------------------
\* A settlement leaves every other fill admitted that has room afterwards: it
\* moves no clock and closes no order.
LEMMA StaysAdmitted ==
  ASSUME NEW e \in Executors, NEW g \in Fills,
         SettleInTokens(e, g) \/ SettleNative(e, g),
         NEW x \in Executors, NEW f \in Fills,
         f \notin usedFill', Admitted(f), RoomLeft(x, f)'
  PROVE  Admitted(f)'
<1>1. UNCHANGED <<now, revokedAuth, cancelledOrder>>
  BY SettleFacts
<1>2. \A o \in Orders : VerifyAuth(AuthOf(o)) => VerifyAuth(AuthOf(o))'
  BY <1>1 DEF VerifyAuth, AuthOf
<1>3. \A o \in Orders : VerifyOrder(o) => VerifyOrder(o)'
  BY <1>1 DEF VerifyOrder, NativeAllowed, AuthOf
<1>4. \A o \in TwoSides(f) : /\ (filledBaseByOrder[o] < order[o].baseAmount)'
                             /\ BindingAccepts(o, Counter(f, o), f.price)'
  BY DEF RoomLeft, TwoSides, Counter
<1>5. QED
  BY <1>2, <1>3, <1>4, PartiesOfFill DEF Admitted, NotReplayed

\* A fill without an executor fee that could settle still can after another fill
\* of the same two orders settles first, as long as something of it fits and the
\* wallets cover what does.
THEOREM FreeFillsAreNotBlocked == Spec => SliverCannotBlockFreeFill
<1> DEFINE NotBlocked ==
      \A f \in Fills \ usedFill', e \in Executors :
        /\ f.fee = 0
        /\ Preempted(f) /\ CanSettle(e, f) /\ RoomLeft(e, f)'
        /\ \A o \in TwoSides(f) : OwnCaps(o)
        => CanSettle(e, f)'
           AllFit == \A e \in Executors, f \in Fills : FreeFillFits(e, f)
<1>1. Spec => []ChargedAsFilled
  BY InitCharge, NextCharge, Invariance, PTL DEF Spec
<1>2. SettlementInv /\ ChargedAsFilled => AllFit
  BY FreeFillsFit
<1>3. ASSUME [Next]_vars, AllFit' PROVE NotBlocked
  <2> SUFFICES ASSUME NEW f \in Fills, NEW e \in Executors, f \notin usedFill',
                      f.fee = 0, Preempted(f), CanSettle(e, f), RoomLeft(e, f)',
                      \A o \in TwoSides(f) : OwnCaps(o)
               PROVE  CanSettle(e, f)'
    OBVIOUS
  <2>1. usedFill' # usedFill
    BY DEF Preempted
  <2>2. PICK x \in Executors, g \in Fills : SettleInTokens(x, g) \/ SettleNative(x, g)
    BY <1>3, <2>1, LedgerWriters DEF fillVars
  <2>3. Admitted(f)'
    BY <2>2, StaysAdmitted DEF CanSettle
  <2>4. FreeFillFits(e, f)'
    BY <1>3
  <2>5. QED
    BY <2>3, <2>4 DEF FreeFillFits, OwnCaps, TwoSides, AuthOf, QuoteFor
<1>4. [Next]_vars /\ AllFit' => [NotBlocked]_vars
  BY <1>3
<1>5. QED
  BY <1>1, <1>2, <1>4, Invariance, PTL DEF Spec, SliverCannotBlockFreeFill

-----------------------------------------------------------------------------
(***************************************************************************)
(* The settlement contract implements SpotPromise: every settlement is a   *)
(* trade of the promise, a cancellation or revocation closes orders, time  *)
(* passes, and everything else the contract or a wallet does is a stutter. *)
(***************************************************************************)
\* What the promise sees of the contract, as the refinement mapping puts it.
ClosedOrders == {o \in Orders : o \in cancelledOrder \/ AuthOf(o) \in revokedAuth}
Left == [o \in Orders |-> order[o].baseAmount - filledBaseByOrder[o]]
OpenPart ==
  [o \in Orders |-> UnreservedBase(o) - FilledUnbound(o) +
                      IF order[o].bound THEN 0 ELSE FilledUnbound(o)]
Reserved == [o \in Orders |-> PositivePart(order[o].exclusiveBase - boundFilledBase[o])]
LegLeft ==
  [o \in Orders |-> [c \in DOMAIN order[o].legs |->
                       order[o].legs[c] - filledWithCounterparty[o][c]]]
Budget ==
  [a \in Auths |->
     [base  |-> auth[a].maxBaseExposure - usedBaseByAuth[a],
      quote |-> auth[a].maxQuoteExposure - usedQuoteByAuth[a],
      fee   |-> auth[a].maxExecutorFeeQuote - usedExecutorFeeQuoteByAuth[a]]]
-----------------------------------------------------------------------------
(***************************************************************************)
(* The initial states.                                                     *)
(***************************************************************************)
\* Before anything has happened, what is left is what was signed.
LEMMA InitPromise == Init => Promise!Init
<1> SUFFICES ASSUME Init PROVE Promise!Init
  OBVIOUS
<1>1. \A o \in Orders : /\ order[o].baseAmount \in Nat /\ order[o].exclusiveBase \in Nat
                        /\ order[o].legs \in [DOMAIN order[o].legs -> Nat]
                        /\ DOMAIN order[o].legs \subseteq Orders
  BY SignedDataAssumption
<1>2. \A a \in Auths : /\ auth[a].maxBaseExposure \in Nat
                       /\ auth[a].maxQuoteExposure \in Nat
                       /\ auth[a].maxExecutorFeeQuote \in Nat
  BY SignedDataAssumption DEF AuthRecord
<1>3. now = 0 /\ ClosedOrders = {}
  BY DEF Init, ClosedOrders
<1>4. Left = [o \in Orders |-> order[o].baseAmount]
  BY <1>1 DEF Init, Left
<1>5. OpenPart = [o \in Orders |-> order[o].baseAmount - order[o].exclusiveBase]
  BY <1>1 DEF Init, OpenPart, UnreservedBase, FilledUnbound
<1>6. Reserved = [o \in Orders |-> order[o].exclusiveBase]
  BY <1>1 DEF Init, Reserved, PositivePart
<1>7. LegLeft = [o \in Orders |-> order[o].legs]
  <2>1. ASSUME NEW o \in Orders
        PROVE  [c \in DOMAIN order[o].legs |->
                  order[o].legs[c] - filledWithCounterparty[o][c]] = order[o].legs
    <3>1. \A c \in DOMAIN order[o].legs : filledWithCounterparty[o][c] = 0
      BY <1>1 DEF Init
    <3>2. QED
      BY <1>1, <3>1
  <2>2. QED
    BY <2>1 DEF LegLeft
<1>8. Budget = [a \in Auths |-> [base  |-> auth[a].maxBaseExposure,
                                 quote |-> auth[a].maxQuoteExposure,
                                 fee   |-> auth[a].maxExecutorFeeQuote]]
  BY <1>2 DEF Init, Budget
<1>9. QED
  BY <1>3, <1>4, <1>5, <1>6, <1>7, <1>8
  DEF Promise!Init, ClosedOrders, Left, OpenPart, Reserved, LegLeft, Budget
-----------------------------------------------------------------------------
(***************************************************************************)
(* A settlement is a trade.                                                *)
(***************************************************************************)
\* What a settlement moves is something, at a price both sides accept, and
\* both authorizations have it to spend.
LEMMA SettlementSize ==
  ASSUME SettlementInv, NEW e \in Executors, NEW f \in Fills, Settlement(e, f)
  PROVE  /\ Amounts(f).base \in Nat /\ Amounts(f).base > 0
         /\ Amounts(f).quote \in Nat /\ Amounts(f).quote > 0
         /\ Amounts(f).fee \in Nat
         /\ Amounts(f).quote = QuoteFor(Amounts(f).base, f.price)
         /\ order[SellOrder(f)].trader # order[BuyOrder(f)].trader
<1>1. TypeOK /\ Admitted(f) /\ Fits(e, f, Amounts(f))
  BY DEF SettlementInv, Settlement
<1>2. /\ Amounts(f).base \in Nat /\ Amounts(f).quote \in Nat /\ Amounts(f).fee \in Nat
  BY <1>1, AmountFacts
<1>3. Amounts(f).quote = QuoteFor(Amounts(f).base, f.price)
  BY DEF Amounts, SettledQuote
<1>4. Amounts(f).quote > 0
  BY <1>1, <1>2 DEF Fits
<1>5. Amounts(f).base # 0
  <2>1. QuoteFor(0, f.price) = 0
    BY PartiesOfFill, EnvironmentAssumption DEF QuoteFor
  <2>2. QED
    BY <1>3, <1>4, <2>1
<1>6. order[SellOrder(f)].trader = Seller(f) /\ order[BuyOrder(f)].trader = Buyer(f)
  BY <1>1, PartiesOfFill, SignedSides
<1>7. QED
  BY <1>1, <1>2, <1>3, <1>4, <1>5, <1>6, TwoWallets

\* Both orders of a settlement are open, in time and signed by their traders,
\* and have the settled base left for this counterparty at this price.
LEMMA SettlementIsWilling ==
  ASSUME SettlementInv, NEW e \in Executors, NEW f \in Fills, Settlement(e, f),
         NEW o \in TwoSides(f)
  PROVE  Promise!Willing(o, Counter(f, o), Amounts(f).base, f.price)
<1>1. TypeOK /\ Admitted(f)
  BY DEF SettlementInv, Settlement
<1>2. o \in Orders /\ Counter(f, o) \in Orders
  BY PartiesOfFill
<1>3. Promise!Live(o)
  <2>1. VerifyAuth(AuthOf(o)) /\ VerifyOrder(o)
    BY <1>1 DEF Admitted
  <2>2. QED
    BY <1>2, <2>1 DEF VerifyAuth, VerifyOrder, Promise!Live, Promise!AuthOf, AuthOf
<1>4. /\ Amounts(f).base \in Nat
      /\ Amounts(f).base <= OrderRoom(o)
      /\ Amounts(f).base <= BindingRoom(o, Counter(f, o))
  BY <1>1, AmountFacts
<1>5. Amounts(f).base <= Left[o]
  BY <1>2, <1>4 DEF Left, OrderRoom
<1>6. BindingAccepts(o, Counter(f, o), f.price)
  BY <1>1 DEF Admitted
<1>7. ASSUME Promise!AsLeg(o, Counter(f, o))
      PROVE  /\ Amounts(f).base <= LegLeft[o][Counter(f, o)]
             /\ f.price = order[Counter(f, o)].price
  <2>1. LegActive(o, Counter(f, o)) /\ Counter(f, o) \in DOMAIN order[o].legs
    BY <1>7 DEF Promise!AsLeg, LegActive, InWindow, IsLeg
  <2>2. order[o].bound
    BY <2>1 DEF LegActive
  <2>3. QED
    BY <1>2, <1>4, <1>6, <2>1, <2>2
    DEF BindingRoom, BindingAccepts, LegAccepts, LegLeft
<1>8. ASSUME Promise!AsOther(o, Counter(f, o))
      PROVE  /\ Amounts(f).base <= OpenPart[o]
             /\ Reserved[o] = 0 \/ now >= order[o].exclusiveUntil
  <2>1. order[o].bound /\ ~LegActive(o, Counter(f, o))
    BY <1>8 DEF Promise!AsOther, Promise!AsLeg, LegActive, InWindow, IsLeg
  <2>2. OthersAccepted(o)
    BY <1>6, <2>1 DEF BindingAccepts
  <2>3. /\ order[o].exclusiveBase \in Nat /\ order[o].exclusiveUntil \in Nat
        /\ order[o].baseAmount \in Nat /\ now \in Nat
        /\ boundFilledBase[o] \in Nat /\ filledBaseByOrder[o] \in Nat
    BY <1>1, <1>2, SignedDataAssumption DEF TypeOK
  <2>4. Amounts(f).base <= UnreservedBase(o) - FilledUnbound(o)
    BY <1>4, <2>1 DEF BindingRoom
  <2>5. OpenPart[o] = UnreservedBase(o) - FilledUnbound(o)
    BY <1>2, <2>1, <2>3 DEF OpenPart, UnreservedBase, FilledUnbound
  <2>6. Reserved[o] = 0 \/ now >= order[o].exclusiveUntil
    BY <1>2, <2>2, <2>3 DEF OthersAccepted, InWindow, Reserved, PositivePart
  <2>7. QED
    BY <2>4, <2>5, <2>6
<1>9. QED
  BY <1>3, <1>5, <1>7, <1>8
  DEF Promise!Willing, Left, LegLeft, OpenPart, Reserved

\* The counterparty of an order of the fill, as the promise names it.
LEMMA CounterpartyIsCounter ==
  ASSUME NEW f \in Fills, Admitted(f), NEW o \in TwoSides(f)
  PROVE  /\ TwoSides(f) = {SellOrder(f), BuyOrder(f)}
         /\ Promise!Counterparty(o, SellOrder(f), BuyOrder(f)) = Counter(f, o)
<1>1. f.maker # f.taker
  BY DEF Admitted, VerifyFill
<1>2. QED
  BY <1>1 DEF TwoSides, SellOrder, BuyOrder, Promise!Counterparty, Counter

\* What the promise takes from an order of the fill: all of it from the order,
\* and from its leg exactly what the contract records as bound.
LEMMA TakenFromOrder ==
  ASSUME NEW f \in Fills, Admitted(f), NEW o \in TwoSides(f), NEW m, m.base \in Nat
  PROVE  LET t == Promise!Take(o, Counter(f, o), m.base)
         IN  /\ t.total = m.base
             /\ t.leg = BoundPart(f, m, o)
             /\ t.other = IF order[o].bound THEN m.base - BoundPart(f, m, o) ELSE 0
             /\ BoundPart(f, m, o) \in 0..m.base
             /\ ~order[o].bound => BoundPart(f, m, o) = 0
  BY DEF Promise!Take, Promise!AsLeg, Promise!AsOther, BoundPart, RecordsBinding,
         InWindow, IsLeg

\* What a trade takes from order o, for any order.
Taken(f, o) ==
  IF o \in TwoSides(f) THEN Promise!Take(o, Counter(f, o), Amounts(f).base)
                       ELSE [total |-> 0, leg |-> 0, other |-> 0]

\* The order ledgers move by what the trade takes.
LEMMA SettlementTakes ==
  ASSUME SettlementInv, NEW e \in Executors, NEW f \in Fills, Settlement(e, f)
  PROVE  /\ Left' = [o \in Orders |-> Left[o] - Taken(f, o).total]
         /\ OpenPart' = [o \in Orders |-> OpenPart[o] - Taken(f, o).other]
         /\ Reserved' = [o \in Orders |-> Promise!Positive(Reserved[o] - Taken(f, o).leg)]
         /\ LegLeft' = [o \in Orders |-> [c \in DOMAIN LegLeft[o] |->
              LegLeft[o][c] - (IF o \in TwoSides(f) /\ c = Counter(f, o)
                               THEN Taken(f, o).leg ELSE 0)]]
<1> DEFINE m == Amounts(f)
<1>1. TypeOK /\ Admitted(f) /\ RecordFill(f, m) /\ m.base \in Nat
  BY SettlementSize DEF SettlementInv, Settlement
<1> HIDE DEF m
<1>2. ASSUME NEW o \in Orders
      PROVE  /\ order[o].baseAmount \in Nat /\ order[o].exclusiveBase \in Nat
             /\ order[o].bound \in BOOLEAN
             /\ filledBaseByOrder[o] \in Nat /\ boundFilledBase[o] \in Nat
  BY <1>1, SignedDataAssumption DEF TypeOK
<1>3. ASSUME NEW o \in Orders
      PROVE  /\ Taken(f, o).total = IF o \in TwoSides(f) THEN m.base ELSE 0
             /\ Taken(f, o).leg = IF o \in TwoSides(f) THEN BoundPart(f, m, o) ELSE 0
             /\ Taken(f, o).other = IF o \in TwoSides(f) /\ order[o].bound
                                    THEN m.base - BoundPart(f, m, o) ELSE 0
             /\ o \in TwoSides(f) => /\ BoundPart(f, m, o) \in 0..m.base
                                     /\ ~order[o].bound => BoundPart(f, m, o) = 0
  BY <1>1, TakenFromOrder DEF Taken, m
<1>4. ASSUME NEW o \in Orders
      PROVE  /\ filledBaseByOrder'[o] = filledBaseByOrder[o] + Taken(f, o).total
             /\ boundFilledBase'[o] = boundFilledBase[o] + Taken(f, o).leg
  BY <1>1, <1>3 DEF RecordFill
<1>5. ASSUME NEW o \in Orders
      PROVE  Taken(f, o).total \in Nat /\ Taken(f, o).leg \in Nat /\ Taken(f, o).other \in Int
  BY <1>1, <1>3
<1>6. Left' = [o \in Orders |-> Left[o] - Taken(f, o).total]
  BY <1>2, <1>4, <1>5 DEF Left
<1>7. OpenPart' = [o \in Orders |-> OpenPart[o] - Taken(f, o).other]
  <2>1. ASSUME NEW o \in Orders
        PROVE  OpenPart'[o] = OpenPart[o] - Taken(f, o).other
    <3>1. CASE order[o].bound
      BY <1>1, <1>2, <1>3, <1>4, <3>1 DEF OpenPart, UnreservedBase, FilledUnbound
    <3>2. CASE ~order[o].bound
      BY <1>1, <1>2, <1>3, <1>4, <1>5, <3>2 DEF OpenPart, UnreservedBase, FilledUnbound
    <3>3. QED
      BY <3>1, <3>2
  <2>2. QED
    BY <2>1 DEF OpenPart
<1>8. Reserved' = [o \in Orders |-> Promise!Positive(Reserved[o] - Taken(f, o).leg)]
  <2>1. ASSUME NEW o \in Orders
        PROVE  Reserved'[o] = Promise!Positive(Reserved[o] - Taken(f, o).leg)
    BY <1>2, <1>4, <1>5 DEF Reserved, PositivePart, Promise!Positive
  <2>2. QED
    BY <2>1 DEF Reserved
<1>9. LegLeft' = [o \in Orders |-> [c \in DOMAIN LegLeft[o] |->
        LegLeft[o][c] - (IF o \in TwoSides(f) /\ c = Counter(f, o)
                         THEN Taken(f, o).leg ELSE 0)]]
  <2>1. ASSUME NEW o \in Orders, NEW c \in DOMAIN order[o].legs
        PROVE  order[o].legs[c] - filledWithCounterparty'[o][c] =
                 order[o].legs[c] - filledWithCounterparty[o][c] -
                   (IF o \in TwoSides(f) /\ c = Counter(f, o) THEN Taken(f, o).leg ELSE 0)
    <3>1. /\ c \in Orders /\ order[o].legs[c] \in Nat
          /\ filledWithCounterparty[o][c] \in Nat
      BY <1>1, SignedDataAssumption DEF TypeOK
    <3>2. filledWithCounterparty'[o][c] = filledWithCounterparty[o][c] +
            (IF o \in TwoSides(f) /\ c = Counter(f, o) THEN Taken(f, o).leg ELSE 0)
      BY <1>1, <1>3, <3>1 DEF RecordFill
    <3>3. QED
      BY <1>5, <3>1, <3>2
  <2>2. QED
    BY <2>1 DEF LegLeft
<1>10. QED
  BY <1>6, <1>7, <1>8, <1>9

\* The budgets of the two authorizations cover the trade, and pay for it.
LEMMA SettlementSpends ==
  ASSUME SettlementInv, NEW e \in Executors, NEW f \in Fills, Settlement(e, f)
  PROVE  /\ Amounts(f).base <= Budget[AuthOf(SellOrder(f))].base
         /\ Amounts(f).quote <= Budget[AuthOf(BuyOrder(f))].quote
         /\ Amounts(f).fee <= Budget[AuthOf(BuyOrder(f))].fee
         /\ Budget' = [Budget EXCEPT ![AuthOf(SellOrder(f))].base = @ - Amounts(f).base,
                                     ![AuthOf(BuyOrder(f))].quote = @ - Amounts(f).quote,
                                     ![AuthOf(BuyOrder(f))].fee = @ - Amounts(f).fee]
<1> DEFINE m == Amounts(f)
           s == AuthOf(SellOrder(f))
           b == AuthOf(BuyOrder(f))
<1>1. /\ TypeOK /\ ConsumeExposure(f, m) /\ Fits(e, f, m)
      /\ m.base \in Nat /\ m.quote \in Nat /\ m.fee \in Nat
      /\ s \in Auths /\ b \in Auths
  BY SettlementSize, PartiesOfFill DEF SettlementInv, Settlement
<1> HIDE DEF m
<1>2. \A a \in Auths :
        /\ auth[a].maxBaseExposure \in Nat /\ usedBaseByAuth[a] \in Nat
        /\ auth[a].maxQuoteExposure \in Nat /\ usedQuoteByAuth[a] \in Nat
        /\ auth[a].maxExecutorFeeQuote \in Nat /\ usedExecutorFeeQuoteByAuth[a] \in Nat
  BY <1>1, SignedDataAssumption DEF TypeOK, AuthRecord
<1>3. /\ usedBaseByAuth[s] + m.base <= auth[s].maxBaseExposure
      /\ usedQuoteByAuth[b] + m.quote <= auth[b].maxQuoteExposure
      /\ usedExecutorFeeQuoteByAuth[b] + m.fee <= auth[b].maxExecutorFeeQuote
  BY <1>1 DEF Fits, SellExposureFits, BuyExposureFits
<1>4. /\ m.base <= Budget[s].base /\ m.quote <= Budget[b].quote /\ m.fee <= Budget[b].fee
  BY <1>1, <1>2, <1>3 DEF Budget
<1>5. /\ usedBaseByAuth' = [usedBaseByAuth EXCEPT ![s] = @ + m.base]
      /\ usedQuoteByAuth' = [usedQuoteByAuth EXCEPT ![b] = @ + m.quote]
      /\ usedExecutorFeeQuoteByAuth' = [usedExecutorFeeQuoteByAuth EXCEPT ![b] = @ + m.fee]
  BY <1>1 DEF ConsumeExposure
<1> HIDE DEF s, b
<1>6. Budget' = [Budget EXCEPT ![s].base = @ - m.base, ![b].quote = @ - m.quote,
                               ![b].fee = @ - m.fee]
  <2> DEFINE spent == [Budget EXCEPT ![s].base = @ - m.base, ![b].quote = @ - m.quote,
                                     ![b].fee = @ - m.fee]
  <2>1. ASSUME NEW a \in Auths
        PROVE  Budget'[a] = spent[a]
    <3>1. Budget'[a] =
            [base  |-> auth[a].maxBaseExposure - usedBaseByAuth'[a],
             quote |-> auth[a].maxQuoteExposure - usedQuoteByAuth'[a],
             fee   |-> auth[a].maxExecutorFeeQuote - usedExecutorFeeQuoteByAuth'[a]]
      BY DEF Budget
    <3>2. /\ auth[a].maxBaseExposure - usedBaseByAuth'[a] =
               Budget[a].base - (IF a = s THEN m.base ELSE 0)
          /\ auth[a].maxQuoteExposure - usedQuoteByAuth'[a] =
               Budget[a].quote - (IF a = b THEN m.quote ELSE 0)
          /\ auth[a].maxExecutorFeeQuote - usedExecutorFeeQuoteByAuth'[a] =
               Budget[a].fee - (IF a = b THEN m.fee ELSE 0)
      BY <1>1, <1>2, <1>5 DEF TypeOK, Budget
    <3>3. spent[a] = [base  |-> Budget[a].base - (IF a = s THEN m.base ELSE 0),
                      quote |-> Budget[a].quote - (IF a = b THEN m.quote ELSE 0),
                      fee   |-> Budget[a].fee - (IF a = b THEN m.fee ELSE 0)]
      <4>1. /\ Budget \in [Auths -> [base : Int, quote : Int, fee : Int]]
            /\ m.base \in Int /\ m.quote \in Int /\ m.fee \in Int
        BY <1>1, <1>2 DEF Budget
      <4> HIDE DEF Budget
      <4>2. spent[a] \in [base : Int, quote : Int, fee : Int]
        <5>1. Budget[a] \in [base : Int, quote : Int, fee : Int]
          BY <4>1
        <5>2. CASE a # s /\ a # b
          BY <4>1, <5>1, <5>2
        <5>3. CASE a = s /\ a # b
          <6>1. spent[a] = [Budget[a] EXCEPT !.base = Budget[a].base - m.base]
            BY <4>1, <5>3
          <6>2. QED
            BY <4>1, <5>1, <6>1
        <5>4. CASE a # s /\ a = b
          <6>1. spent[a] = [Budget[a] EXCEPT !.quote = Budget[a].quote - m.quote,
                                             !.fee = Budget[a].fee - m.fee]
            BY <4>1, <5>4
          <6>2. QED
            BY <4>1, <5>1, <6>1
        <5>5. CASE a = s /\ a = b
          <6>1. spent[a] = [Budget[a] EXCEPT !.base = Budget[a].base - m.base,
                                             !.quote = Budget[a].quote - m.quote,
                                             !.fee = Budget[a].fee - m.fee]
            BY <4>1, <5>5
          <6>2. QED
            BY <4>1, <5>1, <6>1
        <5>6. QED
          BY <5>2, <5>3, <5>4, <5>5
      <4>3. /\ spent[a].base = Budget[a].base - (IF a = s THEN m.base ELSE 0)
            /\ spent[a].quote = Budget[a].quote - (IF a = b THEN m.quote ELSE 0)
            /\ spent[a].fee = Budget[a].fee - (IF a = b THEN m.fee ELSE 0)
        BY <1>1, <4>1
      <4> HIDE DEF spent
      <4>4. QED
        BY <4>2, <4>3
    <3>4. QED
      BY <3>1, <3>2, <3>3
  <2>2. QED
    BY <2>1 DEF Budget
<1>7. QED
  BY <1>4, <1>6 DEF m, s, b

\* A settlement is a trade of the promise, for the same base, price and fee.
LEMMA SettlementIsTrade ==
  ASSUME SettlementInv, NEW e \in Executors, NEW f \in Fills, Settlement(e, f),
         UNCHANGED <<now, revokedAuth, cancelledOrder>>,
         NEW n, n = Amounts(f).base, NEW fee, fee = Amounts(f).fee
  PROVE  Promise!Trade(SellOrder(f), BuyOrder(f), n, f.price, fee)
<1> DEFINE s == SellOrder(f)
           b == BuyOrder(f)
           T(o) == IF o \in {s, b}
                   THEN Promise!Take(o, Promise!Counterparty(o, s, b), n)
                   ELSE [total |-> 0, leg |-> 0, other |-> 0]
<1>1. Admitted(f) /\ TwoSides(f) = {s, b} /\ s \in Orders /\ b \in Orders
  BY PartiesOfFill, CounterpartyIsCounter DEF Settlement
<1>2. /\ Promise!Counterparty(s, s, b) = Counter(f, s)
      /\ Promise!Counterparty(b, s, b) = Counter(f, b)
  BY <1>1, CounterpartyIsCounter
<1>3. Promise!Counterparty(s, s, b) = b /\ Promise!Counterparty(b, s, b) = s
  BY DEF Promise!Counterparty
<1>4. /\ order[s].side = "sell" /\ order[b].side = "buy"
      /\ order[s].trader # order[b].trader
      /\ order[s].price <= f.price /\ f.price <= order[b].price
      /\ n > 0 /\ Promise!Quote(n, f.price) > 0
      /\ Amounts(f).quote = Promise!Quote(n, f.price)
  BY <1>1, SignedSides, SettlementSize DEF Promise!Quote, QuoteFor
<1>5. Promise!Willing(s, b, n, f.price) /\ Promise!Willing(b, s, n, f.price)
  BY <1>1, <1>2, <1>3, SettlementIsWilling
<1>6. \A o \in Orders : T(o) = Taken(f, o)
  BY <1>1, CounterpartyIsCounter DEF Taken
<1>7. /\ Left' = [o \in Orders |-> Left[o] - T(o).total]
      /\ OpenPart' = [o \in Orders |-> OpenPart[o] - T(o).other]
      /\ Reserved' = [o \in Orders |-> Promise!Positive(Reserved[o] - T(o).leg)]
  BY <1>6, SettlementTakes
<1>8. LegLeft' = [o \in Orders |-> [c \in DOMAIN LegLeft[o] |->
        LegLeft[o][c] - (IF o \in {s, b} /\ c = Promise!Counterparty(o, s, b)
                         THEN T(o).leg ELSE 0)]]
  <2> DEFINE X(o, c) == IF o \in TwoSides(f) /\ c = Counter(f, o)
                        THEN Taken(f, o).leg ELSE 0
             Y(o, c) == IF o \in {s, b} /\ c = Promise!Counterparty(o, s, b)
                        THEN T(o).leg ELSE 0
  <2>1. ASSUME NEW o \in Orders, NEW c PROVE X(o, c) = Y(o, c)
    BY <1>1, <1>6, CounterpartyIsCounter
  <2>2. LegLeft' = [o \in Orders |-> [c \in DOMAIN LegLeft[o] |-> LegLeft[o][c] - X(o, c)]]
    BY SettlementTakes
  <2> HIDE DEF X, Y
  <2>3. LegLeft' = [o \in Orders |-> [c \in DOMAIN LegLeft[o] |-> LegLeft[o][c] - Y(o, c)]]
    <3>1. \A o \in Orders : [c \in DOMAIN LegLeft[o] |-> LegLeft[o][c] - X(o, c)] =
                           [c \in DOMAIN LegLeft[o] |-> LegLeft[o][c] - Y(o, c)]
      BY <2>1
    <3>2. QED
      BY <2>2, <3>1
  <2>4. QED
    BY <2>3 DEF Y
<1>9. /\ n <= Budget[AuthOf(s)].base
      /\ Promise!Quote(n, f.price) <= Budget[AuthOf(b)].quote
      /\ fee <= Budget[AuthOf(b)].fee
      /\ Budget' = [Budget EXCEPT ![AuthOf(s)].base = @ - n,
                                  ![AuthOf(b)].quote = @ - Promise!Quote(n, f.price),
                                  ![AuthOf(b)].fee = @ - fee]
  BY <1>4, SettlementSpends
<1>10. UNCHANGED <<now, ClosedOrders>>
  BY DEF ClosedOrders
<1>11. Promise!AuthOf(s) = AuthOf(s) /\ Promise!AuthOf(b) = AuthOf(b)
  BY DEF Promise!AuthOf, AuthOf
<1> HIDE DEF s, b
<1>12. Promise!Trade(s, b, n, f.price, fee)
  BY <1>4, <1>5, <1>7, <1>8, <1>9, <1>10, <1>11, Zenon
  DEF Promise!Trade, Left, OpenPart, Reserved, LegLeft, Budget, ClosedOrders
<1>13. QED
  BY <1>12 DEF s, b
-----------------------------------------------------------------------------
(***************************************************************************)
(* Every step.                                                             *)
(***************************************************************************)
\* A settlement is a step of the promise.
LEMMA SettlementIsStep ==
  ASSUME SettlementInv, NEW e \in Executors, NEW f \in Fills, Settlement(e, f),
         UNCHANGED <<now, revokedAuth, cancelledOrder>>
  PROVE  Promise!Next
<1> DEFINE s == SellOrder(f)
           b == BuyOrder(f)
<1> PICK n, fee : n = Amounts(f).base /\ fee = Amounts(f).fee
  OBVIOUS
<1>1. s \in Orders /\ b \in Orders /\ s \in TwoSides(f) /\ Promise!AuthOf(b) = AuthOf(b)
      /\ Admitted(f) /\ TypeOK /\ AuthOf(b) \in Auths
  BY PartiesOfFill DEF Settlement, SettlementInv, Promise!AuthOf, AuthOf
<1>2. n \in 1..Left[s]
  <2>1. n \in Nat /\ n > 0 /\ n <= OrderRoom(s)
    BY <1>1, SettlementSize, AmountFacts
  <2>2. Left[s] = OrderRoom(s) /\ OrderRoom(s) \in Int
    BY <1>1, SignedDataAssumption DEF Left, OrderRoom, TypeOK
  <2>3. QED
    BY <2>1, <2>2
<1>3. f.price \in 0..order[b].price
  BY <1>1, PartiesOfFill, SignedSides, SignedDataAssumption
<1>4. fee \in 0..Budget[Promise!AuthOf(b)].fee
  <2>1. Budget[AuthOf(b)].fee \in Int
    <3>1. auth[AuthOf(b)].maxExecutorFeeQuote \in Int
          /\ usedExecutorFeeQuoteByAuth[AuthOf(b)] \in Int
      BY <1>1, SignedDataAssumption DEF TypeOK, AuthRecord
    <3>2. QED
      BY <1>1, <3>1 DEF Budget
  <2>2. fee \in Nat /\ fee <= Budget[AuthOf(b)].fee
    BY SettlementSize, SettlementSpends
  <2>3. QED
    BY <1>1, <2>1, <2>2
<1>5. Promise!Trade(s, b, n, f.price, fee)
  BY SettlementIsTrade
<1> HIDE DEF s, b
<1>6. \E base \in 1..Left[s], price \in 0..order[b].price,
          cost \in 0..Budget[Promise!AuthOf(b)].fee :
             Promise!Trade(s, b, base, price, cost)
  BY <1>2, <1>3, <1>4, <1>5
<1>7. QED
  BY <1>1, <1>6, Zenon DEF Promise!Next, Left, Budget

\* Closing orders takes nothing from what the others have left.
LEMMA ClosingIsStep ==
  ASSUME NEW O \in SUBSET Orders, ClosedOrders' = ClosedOrders \cup O,
         UNCHANGED <<now, fillVars, exposureVars>>
  PROVE  Promise!Next
<1>1. UNCHANGED <<Left, OpenPart, Reserved, LegLeft, Budget>>
  BY DEF Left, OpenPart, Reserved, LegLeft, Budget, FilledUnbound, fillVars, exposureVars
<1>2. Promise!Close(O)
  BY <1>1 DEF Promise!Close, ClosedOrders, Left, OpenPart, Reserved, LegLeft, Budget
<1>3. QED
  BY <1>2 DEF Promise!Next

\* A step that touches neither ledgers, nor closed orders, nor the clock is a
\* stutter of the promise.
LEMMA RestIsStutter ==
  ASSUME UNCHANGED <<now, closedVars, fillVars, exposureVars>>
  PROVE  UNCHANGED Promise!vars
<1>1. UNCHANGED <<now, ClosedOrders, Left, OpenPart, Reserved, LegLeft, Budget>>
  BY DEF ClosedOrders, Left, OpenPart, Reserved, LegLeft, Budget, FilledUnbound,
         closedVars, fillVars, exposureVars
<1>2. QED
  BY <1>1 DEF Promise!vars, ClosedOrders, Left, OpenPart, Reserved, LegLeft, Budget

\* Every step of the contract is a step of the promise or a stutter.
LEMMA StepPromise == SettlementInv /\ [Next]_vars => [Promise!Next]_(Promise!vars)
<1> SUFFICES ASSUME SettlementInv, [Next]_vars
             PROVE  Promise!Next \/ UNCHANGED Promise!vars
  OBVIOUS
<1>1. ASSUME NEW e \in Executors, NEW f \in Fills,
             SettleInTokens(e, f) \/ SettleNative(e, f)
      PROVE  Promise!Next
  BY <1>1, SettleFacts, SettlementIsStep
<1>2. ASSUME NEW a \in Revocable, RevokeAuthorization(a)
      PROVE  Promise!Next
  <2>1. ClosedOrders' = ClosedOrders \cup {o \in Orders : AuthOf(o) = a}
    BY <1>2 DEF RevokeAuthorization, ClosedOrders
  <2>2. QED
    BY <1>2, <2>1, ClosingIsStep DEF RevokeAuthorization
<1>3. ASSUME NEW o \in Cancellable, CancelOrder(o)
      PROVE  Promise!Next
  <2>1. o \in Orders
    BY EnvironmentAssumption
  <2>2. ClosedOrders' = ClosedOrders \cup {o}
    BY <1>3, <2>1 DEF CancelOrder, ClosedOrders
  <2>3. QED
    BY <1>3, <2>1, <2>2, ClosingIsStep DEF CancelOrder
<1>4. CASE Tick
  <2>1. UNCHANGED <<ClosedOrders, Left, OpenPart, Reserved, LegLeft, Budget>>
    BY <1>4 DEF Tick, ClosedOrders, Left, OpenPart, Reserved, LegLeft, Budget,
                FilledUnbound, closedVars, fillVars, exposureVars
  <2>2. Promise!Tick
    BY <1>4, <2>1
    DEF Tick, Promise!Tick, ClosedOrders, Left, OpenPart, Reserved, LegLeft, Budget
  <2>3. QED
    BY <2>2 DEF Promise!Next
<1>5. ASSUME \/ PayoutAccepted \/ PayoutReturns \/ PayoutRefused
             \/ \E p \in Accounts, t \in Tokens, n \in Approvals : Approve(p, t, n)
             \/ \E p, q \in Accounts, t \in Tokens, n \in Transfers : Transfer(p, q, t, n)
             \/ UNCHANGED vars
      PROVE  UNCHANGED Promise!vars
  <2>1. UNCHANGED <<now, closedVars, fillVars, exposureVars>>
    BY <1>5 DEF PayoutAccepted, PayoutReturns, PayoutRefused, Approve, Transfer, vars
  <2>2. QED
    BY <2>1, RestIsStutter
<1>6. QED
  BY <1>1, <1>2, <1>3, <1>4, <1>5, StepCases

\* The contract keeps its promise: every behaviour of the contract, seen through
\* the refinement mapping, is a behaviour of SpotPromise.
THEOREM PromiseKept == Spec => ImplementsPromise
  BY InitPromise, StepPromise, Invariance, PTL DEF Spec, ImplementsPromise, Promise!Spec
=============================================================================
