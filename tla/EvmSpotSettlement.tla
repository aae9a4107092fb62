------------------------- MODULE EvmSpotSettlement -------------------------
(***************************************************************************)
(* The settlement contract, GenericEvmSpotSettlement.sol.                  *)
(*                                                                         *)
(* Traders sign authorizations and orders off chain.  Anyone (an executor) *)
(* may submit a fill that pairs two signed orders; the contract checks the *)
(* signatures and everything they limit, settles as much of the fill as    *)
(* still fits, and moves the tokens from wallet to wallet.                 *)
(*                                                                         *)
(* Signed data never changes, so it is a constant: `auth' and `order' map  *)
(* the EIP-712 hash of an authorization or order to its fields.  A         *)
(* transaction that reverts changes nothing, so only the successful ones   *)
(* are actions; every revert condition is a conjunct of a guard.           *)
(***************************************************************************)
EXTENDS Integers

CONSTANTS
  Accounts,         \* wallets
  Executors,        \* the wallets that submit fills
  Self,             \* the contract's own address
  Tokens,           \* the ERC-20 tokens
  WrappedNative,    \* WRAPPED_NATIVE, the token that wraps the chain's coin
  Markets,          \* market ids
  Auths, auth,      \* authorization hashes, and the signed fields of each
  Orders, order,    \* order hashes, and the signed fields of each
  Fills,            \* the fills an executor may submit
  Scale,            \* price scale (1e18): quote = base * price / Scale
  MaxUint,          \* largest uint256
  InitialBalance,   \* token balances at the start
  InitialAllowance, \* what each wallet lets the contract pull at the start
  Revocable,        \* the authorizations and the orders whose holders may
  Cancellable,      \*   close them (all of them, unless a run bounds it)
  Approvals,        \* amounts a holder may approve
  Transfers,        \* amounts a holder may send by itself
  MaxTime           \* bound on block.timestamp

Holders == Accounts \cup {Self}
Sides   == {"sell", "buy"}

AuthRecord ==
  [grantor : Accounts, signer : Accounts, settlementContract : Holders,
   baseToken : Tokens, quoteToken : Tokens, marketId : Markets,
   sides : SUBSET Sides, maxBaseExposure : Nat, maxQuoteExposure : Nat,
   maxExecutorFeeQuote : Nat, minPrice : Nat, maxPrice : Nat,
   validAfter : Nat, validBefore : Nat]

\* `signer' is the address recovered from the accompanying signature.
\* `bound' is counterSetHash # 0; `legs' is the counter set behind that hash.
OrderFields ==
  {"trader", "signer", "marketId", "side", "price", "baseAmount",
   "sessionAuthHash", "validAfter", "validBefore", "receiveNative",
   "bound", "legs", "exclusiveBase", "exclusiveUntil"}

FillRecord ==
  [nonce : Nat, maker : Orders, taker : Orders,
   price : Nat, base : Nat, quote : Nat, fee : Nat]

\* What is signed has the types of the contract's structs.
ASSUME SignedDataAssumption ==
  /\ Self \notin Accounts
  /\ Executors \subseteq Accounts
  /\ auth \in [Auths -> AuthRecord]
  /\ DOMAIN order = Orders
  /\ \A o \in Orders :
       /\ DOMAIN order[o] = OrderFields
       /\ order[o].trader \in Accounts
       /\ order[o].signer \in Accounts
       /\ order[o].marketId \in Markets
       /\ order[o].side \in Sides
       /\ order[o].price \in Nat
       /\ order[o].baseAmount \in Nat
       /\ order[o].sessionAuthHash \in Auths
       /\ order[o].validAfter \in Nat
       /\ order[o].validBefore \in Nat
       /\ order[o].receiveNative \in BOOLEAN
       /\ order[o].bound \in BOOLEAN
       /\ DOMAIN order[o].legs \subseteq Orders
       /\ order[o].legs \in [DOMAIN order[o].legs -> Nat]
       /\ order[o].exclusiveBase \in Nat
       /\ order[o].exclusiveUntil \in Nat

\* The numbers executors, holders and the chain bring are naturals.
ASSUME EnvironmentAssumption ==
  /\ Fills \subseteq FillRecord
  /\ Scale \in Nat \ {0}
  /\ MaxUint \in Nat
  /\ \A f \in Fills : f.base <= MaxUint
  /\ InitialBalance \in [Tokens -> [Accounts -> Nat]]
  /\ InitialAllowance \in [Tokens -> [Accounts -> Nat]]
  /\ Revocable \subseteq Auths
  /\ Cancellable \subseteq Orders
  /\ Approvals \subseteq Nat
  /\ Transfers \subseteq Nat
  /\ MaxTime \in Nat

VARIABLES
  now,                        \* block.timestamp
  payout,                     \* the native payout in progress (_lock = 2)
  revokedAuth, cancelledOrder, usedFill,
  filledWithCounterparty, boundFilledBase, filledBaseByOrder,
  usedBaseByAuth, usedQuoteByAuth, usedExecutorFeeQuoteByAuth,
  balance, allowance,         \* of every token, for every wallet
  native                      \* the chain's own coin, as paid out

exposureVars == <<usedBaseByAuth, usedQuoteByAuth, usedExecutorFeeQuoteByAuth>>
fillVars     == <<usedFill, filledWithCounterparty, boundFilledBase, filledBaseByOrder>>
closedVars   == <<revokedAuth, cancelledOrder>>
walletVars   == <<balance, allowance, native>>
vars == <<now, payout, closedVars, fillVars, exposureVars, walletVars>>

NoPayout == [stage |-> "none"]
Payouts  == {NoPayout} \cup
            [stage : {"calling", "accepted"}, buyer : Accounts, base : Nat]

TypeOK ==
  /\ now \in Nat
  /\ payout \in Payouts
  /\ revokedAuth \subseteq Auths
  /\ cancelledOrder \subseteq Orders
  /\ usedFill \subseteq Fills
  /\ filledWithCounterparty \in [Orders -> [Orders -> Nat]]
  /\ boundFilledBase \in [Orders -> Nat]
  /\ filledBaseByOrder \in [Orders -> Nat]
  /\ usedBaseByAuth \in [Auths -> Nat]
  /\ usedQuoteByAuth \in [Auths -> Nat]
  /\ usedExecutorFeeQuoteByAuth \in [Auths -> Nat]
  /\ balance \in [Tokens -> [Holders -> Nat]]
  /\ allowance \in [Tokens -> [Accounts -> Nat]]
  /\ native \in [Holders -> Nat]

Init ==
  /\ now = 0
  /\ payout = NoPayout
  /\ revokedAuth = {}
  /\ cancelledOrder = {}
  /\ usedFill = {}
  /\ filledWithCounterparty = [o \in Orders |-> [c \in Orders |-> 0]]
  /\ boundFilledBase = [o \in Orders |-> 0]
  /\ filledBaseByOrder = [o \in Orders |-> 0]
  /\ usedBaseByAuth = [a \in Auths |-> 0]
  /\ usedQuoteByAuth = [a \in Auths |-> 0]
  /\ usedExecutorFeeQuoteByAuth = [a \in Auths |-> 0]
  /\ balance = [t \in Tokens |-> [h \in Holders |->
                  IF h \in Accounts THEN InitialBalance[t][h] ELSE 0]]
  /\ allowance = InitialAllowance
  /\ native = [h \in Holders |-> 0]

-----------------------------------------------------------------------------
(***************************************************************************)
(* What a fill refers to.                                                  *)
(***************************************************************************)
AuthOf(o)       == order[o].sessionAuthHash
TwoSides(f)     == {f.maker, f.taker}
Counter(f, o)   == IF o = f.maker THEN f.taker ELSE f.maker
SellOrder(f)    == IF order[f.maker].side = "sell" THEN f.maker ELSE f.taker
BuyOrder(f)     == IF order[f.maker].side = "sell" THEN f.taker ELSE f.maker
Seller(f)       == auth[AuthOf(SellOrder(f))].grantor
Buyer(f)        == auth[AuthOf(BuyOrder(f))].grantor
BaseToken(f)    == auth[AuthOf(f.maker)].baseToken
QuoteToken(f)   == auth[AuthOf(f.maker)].quoteToken
PaysNative(f)   == order[BuyOrder(f)].receiveNative

QuoteFor(base, price) == (base * price) \div Scale
MinOf(a, b)           == IF a < b THEN a ELSE b

(***************************************************************************)
(* _verifyAuth, _verifyOrder, _verifyFill: the signed limits.              *)
(***************************************************************************)
VerifyAuthUnsigned(a) ==          \* fault: the signature is not checked
  /\ auth[a].settlementContract = Self
  /\ a \notin revokedAuth
  /\ auth[a].validAfter <= now /\ now <= auth[a].validBefore

VerifyAuth(a) ==
  /\ auth[a].settlementContract = Self
  /\ a \notin revokedAuth
  /\ auth[a].validAfter <= now /\ now <= auth[a].validBefore
  /\ auth[a].signer = auth[a].grantor

NativeAllowed(o) ==
  /\ order[o].side = "buy"
  /\ auth[AuthOf(o)].baseToken = WrappedNative

VerifyOrderCancelled(o) ==        \* fault: a cancellation is not looked up
  /\ order[o].trader = auth[AuthOf(o)].grantor
  /\ order[o].marketId = auth[AuthOf(o)].marketId
  /\ order[o].receiveNative => NativeAllowed(o)
  /\ order[o].validAfter <= now /\ now <= order[o].validBefore
  /\ order[o].signer = order[o].trader

VerifyOrder(o) ==
  /\ order[o].trader = auth[AuthOf(o)].grantor
  /\ order[o].marketId = auth[AuthOf(o)].marketId
  /\ o \notin cancelledOrder
  /\ order[o].receiveNative => NativeAllowed(o)
  /\ order[o].validAfter <= now /\ now <= order[o].validBefore
  /\ order[o].signer = order[o].trader

SameMarket(a, b) ==
  /\ auth[a].marketId = auth[b].marketId
  /\ auth[a].baseToken = auth[b].baseToken
  /\ auth[a].quoteToken = auth[b].quoteToken

SideAllowed(o) == order[o].side \in auth[AuthOf(o)].sides
InBand(a, p)   == auth[a].minPrice <= p /\ p <= auth[a].maxPrice

VerifyFill(f) ==
  /\ SameMarket(AuthOf(f.maker), AuthOf(f.taker))
  /\ order[f.maker].marketId = order[f.taker].marketId
  /\ order[f.maker].side # order[f.taker].side
  /\ SideAllowed(f.maker) /\ SideAllowed(f.taker)
  /\ order[SellOrder(f)].price <= f.price
  /\ f.price <= order[BuyOrder(f)].price
  /\ InBand(AuthOf(f.maker), f.price) /\ InBand(AuthOf(f.taker), f.price)
  /\ f.base * f.price <= MaxUint
  /\ f.quote = QuoteFor(f.base, f.price)

NonceUnused(f) ==                 \* fault: replay keyed on the nonce alone
  \A g \in usedFill : g.nonce # f.nonce

ReplayUnchecked(f) == TRUE        \* fault: no replay protection

NotReplayed(f) == f \notin usedFill

(***************************************************************************)
(* Bound orders.  Until exclusiveUntil the reserved part of a bound order  *)
(* fills only against its legs; everybody else shares what was never       *)
(* reserved, and only once the reserved part has filled.                   *)
(***************************************************************************)
InWindow(o)       == now < order[o].exclusiveUntil
IsLeg(o, c)       == c \in DOMAIN order[o].legs
LegActive(o, c)   == order[o].bound /\ InWindow(o) /\ IsLeg(o, c)
UnreservedBase(o) == order[o].baseAmount - order[o].exclusiveBase
FilledUnbound(o)  == filledBaseByOrder[o] - boundFilledBase[o]

LegAccepts(o, c, price) ==
  /\ price = order[c].price
  /\ filledWithCounterparty[o][c] < order[o].legs[c]

OthersAccepted(o) ==
  /\ InWindow(o) => boundFilledBase[o] >= order[o].exclusiveBase
  /\ FilledUnbound(o) < UnreservedBase(o)

BindingIgnoresQueue(o, c, price) == \* fault: outsiders need not wait
  order[o].bound =>
    IF LegActive(o, c) THEN LegAccepts(o, c, price)
                       ELSE FilledUnbound(o) < UnreservedBase(o)

BindingAccepts(o, c, price) ==
  order[o].bound =>
    IF LegActive(o, c) THEN LegAccepts(o, c, price) ELSE OthersAccepted(o)

BindingRoomUnshared(o, c) ==      \* fault: what others already took is ignored
  IF ~order[o].bound THEN MaxUint
  ELSE IF LegActive(o, c)
       THEN order[o].legs[c] - filledWithCounterparty[o][c]
       ELSE UnreservedBase(o)

BindingRoom(o, c) ==
  IF ~order[o].bound THEN MaxUint
  ELSE IF LegActive(o, c)
       THEN order[o].legs[c] - filledWithCounterparty[o][c]
       ELSE UnreservedBase(o) - FilledUnbound(o)

RecordsAfterWindow(o, c) ==       \* fault: legs still counted after the window
  order[o].bound /\ IsLeg(o, c)

RecordsBinding(o, c) == order[o].bound /\ InWindow(o) /\ IsLeg(o, c)

(***************************************************************************)
(* Clamping: what is left of both orders, and what the bindings leave.     *)
(***************************************************************************)
OrderRoomUnfilled(o) == order[o].baseAmount   \* fault: fills are not deducted

OrderRoom(o) == order[o].baseAmount - filledBaseByOrder[o]

SettledBase(f) ==
  MinOf(MinOf(MinOf(MinOf(f.base, BindingRoom(f.maker, f.taker)),
                    BindingRoom(f.taker, f.maker)),
              OrderRoom(f.maker)),
        OrderRoom(f.taker))

QuoteAsSubmitted(f, base) == f.quote   \* fault: the quote is not clamped

SettledQuote(f, base) == QuoteFor(base, f.price)

SettledFee(f, base) == IF base = f.base THEN f.fee ELSE (f.fee * base) \div f.base

Amounts(f) ==
  LET base == SettledBase(f)
  IN  [base |-> base, quote |-> SettledQuote(f, base), fee |-> SettledFee(f, base)]

(***************************************************************************)
(* _consumeExposure: the caps of the two authorizations.                   *)
(***************************************************************************)
WholeFeeAllowed(a, quote) == auth[a].maxExecutorFeeQuote \* fault: no pro rata

FeeAllowed(a, quote) ==
  IF auth[a].maxExecutorFeeQuote > MaxUint \div quote
  THEN MaxUint
  ELSE (auth[a].maxExecutorFeeQuote * quote) \div auth[a].maxQuoteExposure

SellExposureFits(a, base) == usedBaseByAuth[a] + base <= auth[a].maxBaseExposure

BuyExposurePerFill(a, quote, fee) == \* fault: caps applied to each fill alone
  /\ quote <= auth[a].maxQuoteExposure
  /\ fee <= auth[a].maxExecutorFeeQuote
  /\ fee > 0 => auth[a].maxQuoteExposure > 0 /\ fee <= FeeAllowed(a, quote)

BuyExposureFits(a, quote, fee) ==
  /\ usedQuoteByAuth[a] + quote <= auth[a].maxQuoteExposure
  /\ usedExecutorFeeQuoteByAuth[a] + fee <= auth[a].maxExecutorFeeQuote
  /\ fee > 0 => auth[a].maxQuoteExposure > 0 /\ fee <= FeeAllowed(a, quote)

(***************************************************************************)
(* The token legs, in the order the contract pulls them: quote to the      *)
(* seller, fee to the executor (msg.sender), base to the buyer.            *)
(***************************************************************************)
Moved(b, t, from, to, amount) ==
  LET paid == [b EXCEPT ![t][from] = @ - amount]
  IN  [paid EXCEPT ![t][to] = @ + amount]

AfterQuote(f, m)  == Moved(balance, QuoteToken(f), Buyer(f), Seller(f), m.quote)
AfterFee(e, f, m) == Moved(AfterQuote(f, m), QuoteToken(f), Buyer(f), e, m.fee)

\* Enough approved and held for every leg, and the balance check after the
\* quote leg, which a trade with oneself can never pass.
WalletsCover(e, f, m) ==
  /\ allowance[QuoteToken(f)][Buyer(f)] >= m.quote + m.fee
  /\ balance[QuoteToken(f)][Buyer(f)] >= m.quote
  /\ AfterQuote(f, m)[QuoteToken(f)][Seller(f)] >=
       balance[QuoteToken(f)][Seller(f)] + m.quote
  /\ AfterQuote(f, m)[QuoteToken(f)][Buyer(f)] >= m.fee
  /\ allowance[BaseToken(f)][Seller(f)] >= m.base
  /\ AfterFee(e, f, m)[BaseToken(f)][Seller(f)] >= m.base

(***************************************************************************)
(* settleSpotTrade: a fill f is admitted, and the amounts m it would move  *)
(* must fit the caps and the wallets.                                      *)
(***************************************************************************)
Admitted(f) ==
  /\ f.base # 0 /\ f.quote # 0
  /\ NotReplayed(f)
  /\ VerifyFill(f)
  /\ \A o \in TwoSides(f) :
       /\ VerifyAuth(AuthOf(o))
       /\ VerifyOrder(o)
       /\ BindingAccepts(o, Counter(f, o), f.price)
       /\ filledBaseByOrder[o] < order[o].baseAmount

Fits(e, f, m) ==
  /\ m.quote # 0
  /\ m.base # f.base => f.fee * m.base <= MaxUint
  /\ SellExposureFits(AuthOf(SellOrder(f)), m.base)
  /\ BuyExposureFits(AuthOf(BuyOrder(f)), m.quote, m.fee)
  /\ WalletsCover(e, f, m)

CanSettle(e, f) == Admitted(f) /\ Fits(e, f, Amounts(f))

BoundPart(f, m, o) == IF RecordsBinding(o, Counter(f, o)) THEN m.base ELSE 0

RecordsLegsOnly(f, m) ==           \* fault: the reserved total is not kept
  /\ usedFill' = usedFill \cup {f}
  /\ filledWithCounterparty' = [o \in Orders |-> [c \in Orders |->
       filledWithCounterparty[o][c] +
         (IF o \in TwoSides(f) /\ c = Counter(f, o) THEN BoundPart(f, m, o) ELSE 0)]]
  /\ boundFilledBase' = boundFilledBase
  /\ filledBaseByOrder' = [o \in Orders |->
       filledBaseByOrder[o] + (IF o \in TwoSides(f) THEN m.base ELSE 0)]

RecordFill(f, m) ==
  /\ usedFill' = usedFill \cup {f}
  /\ filledWithCounterparty' = [o \in Orders |-> [c \in Orders |->
       filledWithCounterparty[o][c] +
         (IF o \in TwoSides(f) /\ c = Counter(f, o) THEN BoundPart(f, m, o) ELSE 0)]]
  /\ boundFilledBase' = [o \in Orders |->
       boundFilledBase[o] + (IF o \in TwoSides(f) THEN BoundPart(f, m, o) ELSE 0)]
  /\ filledBaseByOrder' = [o \in Orders |->
       filledBaseByOrder[o] + (IF o \in TwoSides(f) THEN m.base ELSE 0)]

ConsumeUnclamped(f, m) ==         \* fault: the submitted amount is charged
  /\ usedBaseByAuth' = [usedBaseByAuth EXCEPT ![AuthOf(SellOrder(f))] = @ + f.base]
  /\ usedQuoteByAuth' = [usedQuoteByAuth EXCEPT ![AuthOf(BuyOrder(f))] = @ + m.quote]
  /\ usedExecutorFeeQuoteByAuth' =
       [usedExecutorFeeQuoteByAuth EXCEPT ![AuthOf(BuyOrder(f))] = @ + m.fee]

ConsumeExposure(f, m) ==
  /\ usedBaseByAuth' = [usedBaseByAuth EXCEPT ![AuthOf(SellOrder(f))] = @ + m.base]
  /\ usedQuoteByAuth' = [usedQuoteByAuth EXCEPT ![AuthOf(BuyOrder(f))] = @ + m.quote]
  /\ usedExecutorFeeQuoteByAuth' =
       [usedExecutorFeeQuoteByAuth EXCEPT ![AuthOf(BuyOrder(f))] = @ + m.fee]

SpendAllowances(f, m) ==
  LET spent == [allowance EXCEPT ![QuoteToken(f)][Buyer(f)] = @ - (m.quote + m.fee)]
  IN  allowance' = [spent EXCEPT ![BaseToken(f)][Seller(f)] = @ - m.base]

\* The base goes straight to the buyer's wallet.
SettleInTokens(e, f) ==
  /\ payout = NoPayout
  /\ Admitted(f)
  /\ ~PaysNative(f)
  /\ LET m == Amounts(f) IN
       /\ Fits(e, f, m)
       /\ RecordFill(f, m) /\ ConsumeExposure(f, m) /\ SpendAllowances(f, m)
       /\ balance' = Moved(AfterFee(e, f, m), BaseToken(f), Seller(f), Buyer(f), m.base)
  /\ UNCHANGED <<now, payout, closedVars, native>>

\* The contract pulls the wrapped base, unwraps it, and calls the buyer.
SettleNative(e, f) ==
  /\ payout = NoPayout
  /\ Admitted(f)
  /\ PaysNative(f)
  /\ LET m == Amounts(f) IN
       /\ Fits(e, f, m)
       /\ RecordFill(f, m) /\ ConsumeExposure(f, m) /\ SpendAllowances(f, m)
       /\ balance' = [AfterFee(e, f, m) EXCEPT ![BaseToken(f)][Seller(f)] = @ - m.base]
       /\ native' = [native EXCEPT ![Self] = @ + m.base]
       /\ payout' = [stage |-> "calling", buyer |-> Buyer(f), base |-> m.base]
  /\ UNCHANGED <<now, closedVars>>

\* The buyer's wallet takes the coin; its code may now call back.
PayoutAccepted ==
  /\ payout.stage = "calling"
  /\ native' = LET sent == [native EXCEPT ![Self] = @ - payout.base]
               IN  [sent EXCEPT ![payout.buyer] = @ + payout.base]
  /\ payout' = [payout EXCEPT !.stage = "accepted"]
  /\ UNCHANGED <<now, closedVars, fillVars, exposureVars, balance, allowance>>

PayoutReturns ==
  /\ payout.stage = "accepted"
  /\ payout' = NoPayout
  /\ UNCHANGED <<now, closedVars, fillVars, exposureVars, walletVars>>

\* fault: the coin is wrapped again but the wrapped token stays behind
PayoutKept ==
  /\ payout.stage = "calling"
  /\ native' = [native EXCEPT ![Self] = @ - payout.base]
  /\ balance' = [balance EXCEPT ![WrappedNative][Self] = @ + payout.base]
  /\ payout' = NoPayout
  /\ UNCHANGED <<now, closedVars, fillVars, exposureVars, allowance>>

\* fault: after falling back to the wrapped token the payout is tried again
PayoutRetried ==
  /\ payout.stage = "calling"
  /\ native' = [native EXCEPT ![Self] = @ - payout.base]
  /\ balance' = [balance EXCEPT ![WrappedNative][payout.buyer] = @ + payout.base]
  /\ UNCHANGED <<now, payout, closedVars, fillVars, exposureVars, allowance>>

\* The wallet refuses (its call, with anything it did, is undone): the coin is
\* wrapped again and the buyer gets the wrapped token.
PayoutRefused ==
  /\ payout.stage = "calling"
  /\ native' = [native EXCEPT ![Self] = @ - payout.base]
  /\ balance' = [balance EXCEPT ![WrappedNative][payout.buyer] = @ + payout.base]
  /\ payout' = NoPayout
  /\ UNCHANGED <<now, closedVars, fillVars, exposureVars, allowance>>

-----------------------------------------------------------------------------
(***************************************************************************)
(* The other entry points, and the wallets.  During a payout only the      *)
(* buyer runs, inside the contract's call to it.                           *)
(***************************************************************************)
MayAct(p) ==
  \/ payout = NoPayout
  \/ payout.stage = "accepted" /\ payout.buyer = p

RevokeAuthorization(a) ==
  /\ MayAct(auth[a].grantor)
  /\ revokedAuth' = revokedAuth \cup {a}
  /\ UNCHANGED <<now, payout, cancelledOrder, fillVars, exposureVars, walletVars>>

CancelOrder(o) ==
  /\ MayAct(order[o].trader)
  /\ cancelledOrder' = cancelledOrder \cup {o}
  /\ UNCHANGED <<now, payout, revokedAuth, fillVars, exposureVars, walletVars>>

\* ERC-20 approve and transfer, called by the holder.
Approve(p, t, amount) ==
  /\ MayAct(p)
  /\ allowance' = [allowance EXCEPT ![t][p] = amount]
  /\ UNCHANGED <<now, payout, closedVars, fillVars, exposureVars, balance, native>>

Transfer(p, q, t, amount) ==
  /\ MayAct(p)
  /\ amount <= balance[t][p]
  /\ balance' = Moved(balance, t, p, q, amount)
  /\ UNCHANGED <<now, payout, closedVars, fillVars, exposureVars, allowance, native>>

Tick ==
  /\ payout = NoPayout
  /\ now < MaxTime
  /\ now' = now + 1
  /\ UNCHANGED <<payout, closedVars, fillVars, exposureVars, walletVars>>

Next ==
  \/ \E e \in Executors, f \in Fills : SettleInTokens(e, f) \/ SettleNative(e, f)
  \/ PayoutAccepted \/ PayoutReturns \/ PayoutRefused
  \/ \E a \in Revocable : RevokeAuthorization(a)
  \/ \E o \in Cancellable : CancelOrder(o)
  \/ \E p \in Accounts, t \in Tokens, amount \in Approvals : Approve(p, t, amount)
  \/ \E p, q \in Accounts, t \in Tokens, amount \in Transfers : Transfer(p, q, t, amount)
  \/ Tick

Spec == Init /\ [][Next]_vars
-----------------------------------------------------------------------------
(***************************************************************************)
(* Safety invariants.                                                      *)
(***************************************************************************)
\* However fills are sized, clamped and ordered, an order never settles more
\* base than its trader signed (_orderRoom and the clamp in settleSpotTrade).
OrdersNeverOverfill ==
  \A o \in Orders : filledBaseByOrder[o] <= order[o].baseAmount

\* What a bound order fills outside its named legs never eats into the part
\* reserved for them, in or after the window (_bindingRoom, _recordBinding).
ReservedPartKept ==
  \A o \in Orders : order[o].bound =>
    /\ boundFilledBase[o] <= filledBaseByOrder[o]
    /\ FilledUnbound(o) > 0 => FilledUnbound(o) <= UnreservedBase(o)

\* A bound order fills against a named counterparty up to the amount signed
\* for that leg in total, however many fills that takes.
LegsWithinSignedAmounts ==
  \A o, c \in Orders : filledWithCounterparty[o][c] > 0 =>
    /\ order[o].bound /\ IsLeg(o, c)
    /\ filledWithCounterparty[o][c] <= order[o].legs[c]

\* Over every order that shares it, an authorization spends within each cap
\* its grantor signed (_consumeExposure).
CapsHold ==
  \A a \in Auths :
    /\ usedBaseByAuth[a] <= auth[a].maxBaseExposure
    /\ usedQuoteByAuth[a] <= auth[a].maxQuoteExposure
    /\ usedExecutorFeeQuoteByAuth[a] <= auth[a].maxExecutorFeeQuote

\* Executor fees never run ahead of the share of the spending cap that has
\* been used, so many small fills cannot drain the fee budget early.  (Stated
\* for caps whose product is a uint256; an unlimited cap is exempt.)
FeesStayProportional ==
  \A a \in Auths :
    auth[a].maxExecutorFeeQuote * auth[a].maxQuoteExposure <= MaxUint =>
      usedExecutorFeeQuoteByAuth[a] * auth[a].maxQuoteExposure <=
        auth[a].maxExecutorFeeQuote * usedQuoteByAuth[a]

\* The contract never holds anybody's tokens between trades; within one it
\* holds exactly the coin it is about to hand over (TRUST.md).
HoldsNothingBetweenTrades ==
  /\ \A t \in Tokens : balance[t][Self] = 0
  /\ native[Self] = IF payout.stage = "calling" THEN payout.base ELSE 0

\* A payout only ever concerns the token that wraps the chain's coin.
PayoutIsWrappedNative == payout # NoPayout => WrappedNative \in Tokens

\* The inductive invariant: the parts above hold together.
SettlementInv ==
  /\ TypeOK
  /\ OrdersNeverOverfill
  /\ ReservedPartKept
  /\ LegsWithinSignedAmounts
  /\ CapsHold
  /\ FeesStayProportional
  /\ HoldsNothingBetweenTrades
  /\ PayoutIsWrappedNative

(***************************************************************************)
(* Action properties.                                                      *)
(***************************************************************************)
\* A cancelled order, or one whose authorization is revoked, stays closed and
\* never fills again, also when the cancel comes from inside a payout.
ClosedForGood ==
  [][ /\ cancelledOrder \subseteq cancelledOrder'
      /\ revokedAuth \subseteq revokedAuth'
      /\ \A o \in Orders : filledBaseByOrder'[o] # filledBaseByOrder[o] =>
           o \notin cancelledOrder /\ AuthOf(o) \notin revokedAuth ]_vars

\* Whatever part of a fill settles, the buyer pays no more than its limit for
\* what it gets (plus the recorded fee) and the seller receives at least its.
LimitPricesHonoured ==
  [][ \A o \in Orders :
        LET base == filledBaseByOrder'[o] - filledBaseByOrder[o]
            p    == order[o].trader
            q    == auth[AuthOf(o)].quoteToken
            fee  == usedExecutorFeeQuoteByAuth'[AuthOf(o)] -
                    usedExecutorFeeQuoteByAuth[AuthOf(o)]
            gain == balance'[q][p] - balance[q][p]
        IN base > 0 => IF order[o].side = "buy"
                       THEN gain >= -(QuoteFor(base, order[o].price) + fee)
                       ELSE gain >= QuoteFor(base, order[o].price) ]_vars

\* Tokens leave a wallet by its holder's own hand, or for an order that the
\* holder signed, under an authorization it signed, neither of them closed: base
\* as much as the order fills, quote as much as the authorization is charged.
WalletsMoveOnlyAsSigned ==
  [][ \A p \in Accounts, t \in Tokens : balance'[t][p] < balance[t][p] =>
        \/ MayAct(p) /\ UNCHANGED <<fillVars, exposureVars, allowance>>
        \/ \E o \in Orders \ cancelledOrder :
             LET a     == AuthOf(o)
                 spent == balance[t][p] - balance'[t][p]
             IN /\ a \notin revokedAuth
                /\ order[o].signer = p /\ auth[a].signer = p
                /\ \/ /\ order[o].side = "sell" /\ t = auth[a].baseToken
                      /\ spent = filledBaseByOrder'[o] - filledBaseByOrder[o]
                   \/ /\ order[o].side = "buy" /\ t = auth[a].quoteToken
                      /\ spent <= usedQuoteByAuth'[a] - usedQuoteByAuth[a] +
                           usedExecutorFeeQuoteByAuth'[a] - usedExecutorFeeQuoteByAuth[a]
      ]_vars

\* Until its window closes or its reserved part has filled, a bound order
\* trades with its named legs only, and at exactly the price of the leg.
ReservationHonoured ==
  [][ \A o \in Orders :
        /\ order[o].bound /\ InWindow(o)
        /\ boundFilledBase[o] < order[o].exclusiveBase
        /\ filledBaseByOrder'[o] > filledBaseByOrder[o]
        => \E c \in DOMAIN order[o].legs :
             /\ filledBaseByOrder'[o] - filledBaseByOrder[o] =
                  filledWithCounterparty'[o][c] - filledWithCounterparty[o][c]
             /\ \A f \in usedFill' \ usedFill : f.price = order[c].price ]_vars

\* An order built the way the app builds it: an authorization of its own, with
\* caps for exactly the whole order at its limit (buildAuthMessage).
OwnCaps(o) ==
  /\ \A p \in Orders \ {o} : AuthOf(p) # AuthOf(o)
  /\ IF order[o].side = "sell"
     THEN auth[AuthOf(o)].maxBaseExposure >= order[o].baseAmount
     ELSE auth[AuthOf(o)].maxQuoteExposure >=
            QuoteFor(order[o].baseAmount, order[o].price)

\* Something of the fill still fits the two orders, and their wallets cover it.
RoomLeft(e, f) ==
  /\ \A o \in TwoSides(f) : /\ filledBaseByOrder[o] < order[o].baseAmount
                            /\ BindingAccepts(o, Counter(f, o), f.price)
  /\ SettledQuote(f, SettledBase(f)) # 0
  /\ WalletsCover(e, f, Amounts(f))

\* Some other fill of the same two orders at the same price got in first.
Preempted(f) ==
  \E g \in usedFill' \ usedFill : TwoSides(g) = TwoSides(f) /\ g.price = f.price

\* "Someone settling a sliver first can't make the rest revert": a fill that
\* could settle still can after another fill of the same orders, as long as
\* anything of it fits and the wallets cover what does.
SliverCannotBlock ==
  [][ \A f \in Fills \ usedFill', e \in Executors :
        /\ Preempted(f) /\ CanSettle(e, f) /\ RoomLeft(e, f)'
        /\ \A o \in TwoSides(f) : OwnCaps(o)
        => CanSettle(e, f)' ]_vars

\* The same for fills without an executor fee, as a trader settling its own
\* order submits them.
SliverCannotBlockFreeFill ==
  [][ \A f \in Fills \ usedFill', e \in Executors :
        /\ f.fee = 0
        /\ Preempted(f) /\ CanSettle(e, f) /\ RoomLeft(e, f)'
        /\ \A o \in TwoSides(f) : OwnCaps(o)
        => CanSettle(e, f)' ]_vars
-----------------------------------------------------------------------------
(***************************************************************************)
(* The contract implements SpotPromise: what is left is what was signed    *)
(* less what the contract has counted as used.                             *)
(***************************************************************************)
PositivePart(n) == IF n > 0 THEN n ELSE 0

Promise == INSTANCE SpotPromise WITH
  closed   <- {o \in Orders : o \in cancelledOrder \/ AuthOf(o) \in revokedAuth},
  left     <- [o \in Orders |-> order[o].baseAmount - filledBaseByOrder[o]],
  openPart <- [o \in Orders |-> UnreservedBase(o) - FilledUnbound(o) +
                 IF order[o].bound THEN 0 ELSE FilledUnbound(o)],
  reserved <- [o \in Orders |->
                 PositivePart(order[o].exclusiveBase - boundFilledBase[o])],
  legLeft  <- [o \in Orders |-> [c \in DOMAIN order[o].legs |->
                 order[o].legs[c] - filledWithCounterparty[o][c]]],
  budget   <- [a \in Auths |->
                 [base  |-> auth[a].maxBaseExposure - usedBaseByAuth[a],
                  quote |-> auth[a].maxQuoteExposure - usedQuoteByAuth[a],
                  fee   |-> auth[a].maxExecutorFeeQuote - usedExecutorFeeQuoteByAuth[a]]]

\* Every settlement takes from what both signers left open, and nothing else
\* the contract does gives any of it back or uses any of it up.
ImplementsPromise == Promise!Spec

=============================================================================
