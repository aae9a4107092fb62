# Covenant: a verification development

TLA+ models, TLC runs and TLAPS proofs for Covenant, an order book without an
exchange. Traders sign orders; a browser matches them and publishes the match on
AON, an open network of signed objects; anybody may send a match to a settlement
contract, which checks both signatures and swaps the tokens wallet to wallet.

Paths below are relative to the repository (`src/` in `PROJECT.json`).

- [1. The system](#1-the-system): components, state, hard behaviours, what makes each correct
- [2. The modules](#2-the-modules): what models what
- [3. The runs](#3-the-runs): what TLC checks, bounds, fairness
- [4. The proofs](#4-the-proofs): what TLAPS proves, from what
- [5. Disagreements found](#5-disagreements-between-text-and-code)
- [6. Not modelled](#6-not-modelled-and-why) and [7. Plan](#7-plan)

To repeat: `tlc -config Settlement_orders.cfg MCEvmSpotSettlement` (and so on, the
table in section 3), `tlapm M.tla` for `FunctionSums` and each module whose name
ends in `_proofs`.

## 1. The system

```
 trader's browser ──(authorization, order, fill, revocation)──▶ AON nodes
   │   ▲                                                          │   ▲
   │   └────────── objects, receipts ─────────────────────────────┘   │ receipts
   │ approve, settle own fill,                      listing (poll)    │
   │ cancel on-chain                                        ▼         │
   │                                                  executors (any number)
   ▼                                                        │ settleSpotTrade
 tokens ◀──transferFrom── settlement contract ◀─────────────┘
                              │ native payout (calls the buyer)
                              ▼
                            buyer
```

| Component | Source | State | Operations |
|---|---|---|---|
| Settlement contract | `GenericEvmSpotSettlement.sol` | per fill key: used; per order: filled, filled against named legs, cancelled; per authorization: base, quote and fee used, revoked; a reentrancy lock | `settleSpotTrade`, `cancelOrder`, `revokeAuthorization` (and, inside a settlement, the token calls and the payout to the buyer) |
| Namespace evaluator | `executableEvmSpot.ts` | the backoff table of failed fills | `findExecutableEvmSpotGraphs`, failure recording |
| Object validators | `validators/*.ts`, `verifiers/authorization.ts` | none | `validate*Object` |
| Namespace driver, settlement executor | `namespace.ts`, `executors/evmSpotSettlement.ts` | none beyond the transaction in flight | `execute`: estimate, send, wait, read the event, build the receipt |
| covenant-executor | `executor.ts`, `deploy/install.sh` | `valid`, `failedAt` caches; the poll under way | list, validate, evaluate, execute, publish; crash and restart |
| Object builders | `builders.ts` | none | construct objects |
| Market state of the app | `aon.ts` | caches of verified signatures and hashes | `deriveState`, `applyFunding`, `matchOrder`, funding totals |
| ETH trading page | `app/eth/page.tsx` | book shown, used-fill cache, refresh flags | `refresh`, `submitOrder`, `ensureAllowance`, `cancelOrder`, `settleNow` |
| Endpoints and failover | `endpoints.ts` | the preferred node, wallet-reader chain cache | `aonFetch`, `walletReader` |
| Reference price | `reference.ts` | a cache | read an oracle, warn |
| CSD pool pricing | `csd/pool.ts` | none (pure) | `quoteBuy`, `quoteSell`, `csdForUsdc`, `csdToSellFor`, `ladder` |
| CSD wallet | `csd/useCsdWallet.ts`, `csd/csd-wallet.ts` | address counter (memory and storage), coins | `refresh`, `freshKey`, `pay`, `send` |
| CSD market client | `csd/aon-client.ts`, `csd/config.ts` | none | `put`, `offers`, `allOffers`, `response`, `buyPayment`, `receipt` |
| CSD trading page | `app/csd/page.tsx` | trades kept in the browser, makers to skip | `buy`, `sell`, `claim`, `refund`, `saveTrade` |
| CSD settlement contract | not in the repository | locks | called by the page: lock, settle with proof, refund |
| Other pages; deployment scripts | `app/page.tsx`, `app/docs`, `deploy/` | none at run time | rendering, tooling |

What is hard, and what correct means:

- **Settlement contract.** Nobody schedules fills: any wallet may send any fill
  of any size in any order, reuse a nonce, and race others. An order is filled in
  many parts, two orders may share one authorization, and a bound order divides
  itself into a part reserved for named counterparties until a deadline and a
  part open to all. The native payout calls the buyer in the middle of a
  settlement. Correct means: never more than was signed (amounts, legs, caps,
  fees, prices), never after a cancel, nothing kept by the contract, all separate
  ledgers in step with each other and with the tokens, and a small fill may not
  block the rest of a trade.
- **Executors and the AON nodes.** Objects are unordered, can be copied and
  posted by anyone; receipts are unsigned. Executors race each other, lose waits,
  crash, and see different nodes. Correct means: an executor believes only what
  the chain did, passes over no trade that can settle, honours the owner's
  cancellation and nobody else's, and a good fill is settled in the end.
- **App market state and trading page.** Derived from a listing and from several
  chain reads that are not atomic; the user acts on what was last shown. Correct
  means: what the book says can be taken can be taken; cancelled is cancelled;
  approvals cover what is open and no more is matched than the contract takes.
- **CSD side.** An atomic swap with a market maker that may fall silent at any
  step, local storage as the only memory, a counter shared by concurrent
  callbacks. Correct means: CSD leaves only against a lock with time to claim;
  every trade ends in a settlement, a claim or a refund; no address is reused; no
  rounding favours a round trip.

`PROJECT.json` lists each hazard at its line with the properties that cover it;
the eleven without a property say why: what they concern is left out of the models
(section 6) or nothing the code promises; a theorem states one of them.

## 2. The modules

| Module | What it is |
|---|---|
| `EvmSpotSettlement` | The settlement contract with the tokens and wallets it calls |
| `SpotPromise` | What the contract promises signers: the abstract specification |
| `EvmSpotSettlementAudit` | Invariants that compare the contract's ledgers by sums |
| `EvmSpotSettlement_proofs` | The proofs about `EvmSpotSettlement`: the invariant and what follows from it, what a step does to wallets and to the fills after it, and that the contract implements `SpotPromise` |
| `EvmSpotSettlementAudit_proofs` | The proofs of the audits |
| `FunctionSums` | Lemmas about sums over finite sets, which the audits and the app's book need |
| `MCEvmSpotSettlement` | Scenarios for TLC |
| `ExecutorNetwork` | AON nodes, executors, and the chain as they see it |
| `ExecutorNetwork_proofs` | The proofs about `ExecutorNetwork` |
| `MCExecutorNetwork` | Its scenario for TLC |
| `SpotObjects` | The objects builders and app write, and which of them an executor accepts (operators only) |
| `SpotObjects_proofs` | The proofs that what is built is accepted |
| `MCSpotObjects` | One object of every kind for TLC |
| `MarketState` | What the app makes of a listing: the book, matching, the objects a user signs (operators only) |
| `SpotApp` | One tab of the ETH page over `MarketState`, with nodes, contract, executors, other traders |
| `SpotApp_proofs` | The proofs about `SpotApp`: receipts, cancellations, types, what the book offers, what is published, and what is approved |
| `SpotAppFills_proofs` | The proof that the contract takes what is matched |
| `MCSpotApp` | Its scenarios for TLC |
| `CsdPool` | The integer arithmetic of the CSD pool price |
| `CsdMarket` | How the CSD page finds offers, proven makers, recent trades and routes |
| `CsdTrades` | One user of the CSD page over `CsdMarket`: trades, wallet, reloads, makers, lock contract |
| `CsdTrades_proofs` | The proofs about `CsdTrades`: what a seller has paid stays claimable, what the page shows is true, loads find the newest offers, the prices and searches of `CsdPool`, the shape of the state |
| `MCCsdTrades` | Its scenarios for TLC |

`SpotApp` extends `MarketState`; `CsdTrades` extends `CsdMarket`, which extends
`CsdPool`. `SpotApp` and `ExecutorNetwork` each carry a reduced contract of their
own, and meet `EvmSpotSettlement` only through what those reductions say.

### EvmSpotSettlement

Signed data never changes, so authorizations and orders are constants: `auth` and
`order` map an EIP-712 hash to its fields. A hash *is* the identity of what was
hashed; a signature is the field `signer`, the wallet it recovers to, so a
badly signed order is one whose signer is not its trader. A counter set is the
function `legs` from named order to amount (the contract checks the set it is
shown against `counterSetHash`; showing another set reverts).

| Variable | Code |
|---|---|
| `now` | `block.timestamp` |
| `payout` | the position inside `_payNative`, while `_lock` is taken |
| `revokedAuth`, `cancelledOrder`, `usedFill` | the mappings of those names |
| `filledWithCounterparty`, `boundFilledBase`, `filledBaseByOrder` | likewise |
| `usedBaseByAuth`, `usedQuoteByAuth`, `usedExecutorFeeQuoteByAuth` | likewise |
| `balance`, `allowance`, `native` | the ERC-20 tokens, the chain's coin paid out (external) |

A transaction that reverts changes nothing, so only successes are actions and
every `revert` is a conjunct of a guard. `settleSpotTrade` is
`SettleInTokens(e, f)` when the buyer takes the token, and `SettleNative(e, f)`
followed by `PayoutAccepted`/`PayoutReturns` or `PayoutRefused` when the contract
unwraps and calls the buyer. The split is where the buyer's code runs: in stage
`accepted` only the buyer acts, and may cancel, revoke, approve and transfer from
inside the call (`MayAct`); a second settlement is excluded by the lock. If the
call fails the coin is wrapped again, and whatever the callee did is undone, so
`PayoutRefused` leaves from stage `calling`. `Admitted` collects the checks that
do not depend on how much settles, `Amounts` is the clamp with its two
integer divisions, `Fits` the caps and the three token legs in the contract's
order, including the check that the seller's balance went up (which no trade with
oneself passes). The remaining actions are `cancelOrder`, `revokeAuthorization`,
`approve` and `transfer` of the holders, and the clock.

Products are checked against `MaxUint` where the contract multiplies submitted
numbers (a checked overflow reverts).

### SpotPromise

A signer's view: an order is an allowance that trades only use up. The state is
what is left of every order, of its open part, of its reserved part, of each leg
and of each authorization's budget; a trade takes from both sides at once at a
price both accept; closing is for good. There are no fills, nonces, executors,
wallets or payouts. `EvmSpotSettlement!Promise` is the instance with the
refinement mapping *signed amount less counted amount*, and `ImplementsPromise`
is checked as a property of `settlement_orders`: every settlement is a promise trade, and
every other step a close, a tick or a stutter.

### ExecutorNetwork

| Variable | Code |
|---|---|
| `objects`, `receipts`, `up` | what each AON node holds and whether it answers |
| `event`, `filled`, `closed`, `lapsed`, `short` | what the chain shows: the `SpotTradeSettled` event per fill key, `filledBaseByOrder`, closed and expired orders, wallets out of tokens |
| `pc`, `seen`, `todo`, `current` | the position in `pollOnce`, the listing in hand, graphs still to execute, the graph being executed |
| `valid`, `failedAt` | the maps of those names in `executor.ts`, for receipts |
| `inBackoff` | the failure table of the evaluator |
| `mempool`, `outcome` | transactions sent and not mined; what the awaited one came to |

One poll is `ListAll` (the first node that answers) → `Evaluate` (`validObjects`
and `findExecutableEvmSpotGraphs`, with the `MIN_FEE` test) → for each graph
`Send` or `EstimationFails`, then `Confirmed`, `Reverted` or `GiveUp` → `Publish`
→ … → `EndPoll`. The steps are separated where the code awaits: between any two,
other executors, nodes, traders and the chain act. `Mine` belongs to the chain.
A crash loses everything in memory, never the mempool.

The evaluator is a set of pure operators: `Complete`, `Revoked`, `Proofs` (which
receipts prove which fill key), `Credit` (base credited to an order once per key,
whatever copies are listed) and `Executable`. All objects other than receipts are
authentic or forged for good (`Forged`); a receipt is looked up on the chain
(`EventMatches`).

Two abstractions tie this module to the contract. `ContractAccepts` reduces
`settleSpotTrade` to an unused key, open orders, solvent wallets and room;
`SettledBase` is the clamp without legs. `EvmSpotSettlement` is where those
details are checked.

### SpotObjects

The other half of the namespace package: who writes an object and who accepts it.
An object is a record with every field that anything looks at. `BuildAuthorization`,
`BuildOrder`, `BuildFill` and `BuildRevocation` are `builders.ts`, each with a
`CanBuild…` for what makes it throw; `AppAuthorization` … `AppRevocation` are the
app's own constructors (`aon.ts`), which do not use the builders;
`AuthorizationAccepted` … `RevocationAccepted` are the validators, `Accepted` is
`validateObject`, and `CountsAgainst` is what the evaluator makes of a revocation.
Normalisation is modelled by what it does: `Lower`, `Checksum`, `Text` and `Big` are
constants of which `StringsAssumption` says what `toLowerCase`, `getAddress`,
`String` and `BigInt` promise (lower case of a checksummed address is that of the
address, equal lower case gives equal checksums, a number written down reads back).
Hashes and signature recovery are constants too: `Proves(a, t)` says that
`verifyTypedData` succeeds for a typed message. Nothing here keeps state, so TLC
only evaluates one object of every kind (`ObjectsCanBeBuilt`, `AndAccepted` in
`MCSpotObjects`, evaluated with the executor runs), which shows that the theorems'
hypotheses can be met.

### MarketState

An object is a record with its hash; what a wallet signed is known by its EIP-712
hash `eip`, so that a republished copy is another hash around the same `eip`.
`DeriveState(objs, chain, now)` is `deriveState`: `Reading` finds the valid
authorizations and orders, the canonical copy of each order and what is revoked;
`Counted` keeps one of the clones of a fill; `FillView` decides settled, pending
or stale; `RestingOrder` is the remaining size, with the lapse of a reserved part.
`FundedWith` is `applyFunding` with a chain's capacities, `MatchOrder` the match;
both are folds over a set of orders in book order (`InBookOrder`, which takes the
last order, `LastOf`, off the rest), with `TakeFrom` as what one order adds to a match.
`BuildAuth` … `BuildReceipt` the objects the page publishes, `SettleCalls` the
call a settlement makes from known objects. Without a chain (`NoChain`) settled
is what receipts claim, as in the code.

### SpotApp

| Variable | Code |
|---|---|
| `stored`, `up`, `preferred` | what each node holds, which answer, the node `aonFetch` tries first |
| `trades`, `revokedAuth`, `bal`, `allow` | what the contract and the wallets show |
| `refresh`, `again` | the position in `refresh` with what it has read; `refreshAgain` |
| `view` | the state rendered (`book`) |
| `usedCache`, `known` | `usedNonceCache`, `knownObjects` |
| `session` | the position in `submitOrder`, `cancelOrder` or `settleNow` and its local values |
| `clock`, `next`, `left` | ticks of five minutes; the next hash; what the scenario still allows |

Each await is a step. A refresh is `ListObjects` → `ReadUsed` → `ReadFilled` →
`ReadBound` → `ShowBook`, each of which may fail as the code lets it (a failed
list ends the refresh, a failed read is `null`). `submitOrder` is `Place` (the
match at the click) → `Wrap` → `Approve` (with a reset first for tokens that need
one) → `Sign` → `PublishAuth` → `PublishOrder` → `PublishFill` for each leg →
`Finish`. `cancelOrder` is `Cancel` → `PublishRevocation` → `RevokeOnChain`.
`settleNow` is `SettleNow` → `CheckFits` → `SendSettlement` → `PublishReceipt`.
`Decline`, `PublishFails` and `Reload` leave an action where it stands. `Put` and
`PutFails` are one `aonFetch`: nodes are tried in order, one that is too slow is
given up although it may have stored the object. Meanwhile executors settle,
another trader places orders with a fresh book, in an amount already approved
(`RivalPlaces`), or cancels one object of an order or of its authorization. Anybody
republishes an order or an authorization under another date, an order also with
another object around the authorization it was signed for (`Republish`: the object it
names is not signed, the terms are), and publishes receipts of any fill, amount and
key (`ForgeReceipt`: receipts are unsigned). A receipt's field `by` says who made it;
no code reads it, only properties do. What an executor takes up (`Execute`) are fills of
the objects it lists, of which none has been withdrawn by its owner. `Accepts`
and `SettlesOnChain` are the contract as far as the app can see it, with signatures,
price ranges, exposures, legs, windows, fee caps and wallets.

### CsdPool, CsdMarket

`QuoteBuy` and `QuoteSell` are the two quotes with their roundings, `CsdForUsdc`
and `CsdToSellFor` the searches down and up from an estimate (recursive
functions), `Asks` and `Bids` the ladder. What the code refuses by an exception is
a guard (`CanBuy`, `CanSellFor`).

A market load is the state machine `load`: `NextHint` and `Hop` follow
replacements from each remembered offer it has room for (`Followed`: the first
`MaxHints`, 16 in the code), `ListPage` reads pages newest first, with makers
publishing in between, and `ReadFails` is a node that does not answer one of these
reads: the walk ends where it is, or the listing, as the `.catch`es have it; `LoadFinds` reads receipts and payments, checks
each receipt against Ethereum once (`Verify`), each payment against the order, the
lock and the CSD network (`BuyTrade`), and assembles makers, proofs and recent
trades. Where it finds no recent trade it shows the known maker's own list, unchecked
(`ClaimedLists`: an empty one, or one with a trade nothing is known of). `Routes` are the makers a trade can go to and `BestRoutes` their order.

### CsdTrades

| Variable | Code |
|---|---|
| `storage` | `localStorage`: offer hints, proven makers, avoided makers, the address counter |
| `mine` | the trades kept in the browser, by authorization hash |
| `tab` | the page's memory: market, checked receipts and payments, the counter of the last render, coins |
| `session` | the position in `buy`, `sell`, `claim`, `refund` with local values |
| `scan`, `load`, `late` | the wallet's refresh, the market load, a save a follow-up effect is about to make |
| `offers` … `handed`, `locks`, `csdTxs`, `mined` | AON, the lock contract and the CSD network (external) |

`buy` is `BuyClicked` → load → `BuyPrepared` (or `BuyRefused`: no maker, cap full,
price moved) → `BuyPublished` → `BuyAccepted`, `BuyDeclined` or `BuyUnanswered`.
`sell` is `SellClicked` → load → `SellPrepared` → `SellRequested`, for up to three
makers in turn → `SellChecked` → `SellLockSeen` → `SellSigned` → `SellHanded` →
`SellSubmitted` → `SellDone`. `ClaimClicked` and `RefundClicked` send what the
wallet would not refuse, and `ClaimMined`, `RefundMined` save a result without
looking whether the call reverted, as the page does: in `SentMined` the transaction
did its work, or it did nothing and the trade is saved as ended all the same, or the
wait failed and nothing is saved, whatever the transaction did. The follow-up loops
(`FollowFailedBuy`, `FollowSale`, `FollowReceipt`, `WatchPayment`) read a trade,
await, and save what they read (`LateSave`), so a save can be stale. `ScanStarts`
and `ScanEnds` are the wallet's `refresh`, which keeps the counter of the render
that created it. Makers answer, decline, stay silent, lie about price,
confirmations or honesty of the lock, pay less than was ordered or somebody else,
publish offers and receipts; anyone can publish look-alikes. A tick stands for the time
between the deadlines that matter; times are scaled together.

## 3. The runs

| Run | States | Shows |
|---|---|---|
| `settlement_orders` | 23 434 | A bid for 5, paid in coin and with a fee budget, reserves 3 for two named asks until time 1; the two share one authorization that covers less than both, a third ask is not named, another buy has a spending cap below its size, and one authorization is signed by a stranger. Fills of sizes 1–3 at two prices in every order, before and after the deadline, with a cancel and a revocation: `TypeOK`, `ReservedPartKept`, `LegsWithinSignedAmounts`, `BoundIsSumOfLegs`, `ReservationHonoured`, `OrdersNeverOverfill`, `CapsHold`, `FeesStayProportional`, `HoldsNothingBetweenTrades`, `FilledIsBackedByFills`, `ExposureMatchesOrders`, `BaseReachesItsBuyers`, `SliverCannotBlockFreeFill`, `ClosedForGood`, `ImplementsPromise` |
| `settlement_wallets` | 30 024 | Wallets hold and approve too little, change both between fills, trade with themselves and execute their own fills: `LimitPricesHonoured`, `WalletsMoveOnlyAsSigned` |
| `settlement_sliver` | violation | `SliverCannotBlock`, section 5 |
| `executors_race` | 891 000 | Two executors with opposite node lists and different fee floors, a trade, its clone and a second trade built on a copy of the same ask that only partly fits; forged and copied receipts, revocations by a stranger and with a bad signature, a late true one, an on-chain cancel: `TypeOK`, `TrustedReceiptsHold`, `CreditNeverExceedsChain`, `NothingSkipped` |
| `executors_recovery` | 113 000 | One executor, two nodes, one fault of any kind at any point, a late revocation, an order that lapses, a wallet that empties and refills: `RevocationsTakeHold`, `LiveFillsSettle`, `ReceiptsFollowWithoutFaults` (liveness) |
| `executors_receipts`, `executors_cancel` | violation | section 5 |
| `spot_app` | 337 520 | Nine scenarios over one market, two nodes and three traders: `TypeOK`, `PublishedFillsFit`, `ReceiptsMatchMoves`, `SellApprovalsCover`, `BookNeverOverstates`, `CancelSticks`, `FreshFillsAreAccepted`, `BookConverges` (liveness) |
| `spot_cancel` | violation | `CancelHonoured`, section 5 |
| `spot_approval` | violation | `ApprovalsCoverOpenOrders`, section 5 |
| `csd_trades` | 757 702 | Twelve scenarios with one user and two makers, one listed by the site and one not: `TypeOK`, `PoolNeverLoses`, `NewestOffersFound`, `ProvenMakersSettled`, `RecentTradesHappened`, `PaymentsStayClaimable`, `LockedBuysEnd` (liveness) |
| `csd_addresses` | violation | `EveryBuyFresh`, section 5 |

**Bounds of the contract runs.** Prices are in halves (`Scale = 2`), so quotes,
clamped quotes and fees really round. Amounts of up to 5 allow an order to fill in
up to four parts, a leg in two, and every way of crossing the boundary between
reserved and open. Two instants are enough to stand before and at the deadline,
the only comparison made with it; the cases at `validAfter`/`validBefore` are the
same comparison. `MaxUint = 1000` lies above every reachable product in these
runs; what happens at the top of the range is a revert and changes nothing. Which
holders may close, approve or transfer is bounded per run
(`Revocable`, `Cancellable`, `Approvals`, `Transfers`); between them the runs
fire every action.

**Bounds of the executor runs.** Two executors are the smallest race; three fill
objects are the smallest set with a clone and a competitor. One fault at an
arbitrary point already separates each pair of steps of a poll, and a second
executor's restart adds nothing, since executors share no memory.
Nothing else is capped: polls, retries and backoffs repeat without limit, and the
state space is finite.

**Bounds of the app runs.** `left` is the budget of a scenario: which forms may be
entered, and how many clicks, faults, ticks, copies and acts of others happen.
One budget for everything would be out of reach, so each scenario spends on what
it is about. `spot_app`: place, then cancel, settle or unwrap; one
fault anywhere in a market buy, a receipt with it; the other user answers an
order; time passes over an exclusive window; orders lapse, are copied under other
dates and cancelled; two fills compete for more than a sell holds; a sell fills while
another is placed; receipts of settlers and of others meet; authorizations are copied,
and orders with them, and cancelled. One fault at any
await already separates every pair of steps. Fees are a quarter and prices in
halves, so every fee and clamp really rounds.
`csd_trades`: `Walk` (offers replaced and imitated while a load walks), `Prices`
(48 pools, each through the searches and the ladder), `Proofs` (others' trades,
receipts of them, trades with oneself), `OneBuy`, `Cheated` (a maker pays less
or somebody else), `Restored` (two buys of a wallet that scans for its coins), `Closed` (with the page closed and
opened), `Shown` (a buy from click to recent trade), `OneSale`, `TwoMakers` (with a
lie), `Sends` (coins spent and received), `Moved` (price, cap or offer change
between preview and order). Pages hold one offer and two pages are read, one hint
is followed, hops are three and candidates two: each limit is reached. Address gaps are one and two.

**Deadlock** is checked in the executor runs. The contract and app runs switch it
off: a contract whose finitely many fills are used up, and a user and makers who
have spent their budgets, have nothing left to do.

**Fairness.** The contract has none: nobody is obliged to call it. In
`ExecutorNetwork` the poll loop is weakly fair (`while (!stopping)`, awaits
resolve or throw), the chain mines what was sent, a backoff runs out (it is a
timestamp), and a dead process is started again (`Restart=always`,
`deploy/install.sh:100`). Nothing is assumed of nodes, traders or wallets;
`LiveFillsSettle` states its assumption that in the end some node answers.
In `SpotApp` the 5 s timer is weakly fair (`Interval`), the awaited reads of a
refresh return (`ReadsReturn`: `endpoints.ts` and the RPC transport time out), and
nodes in touch pass objects on (`Propagate`, external, `app/about/page.tsx:117`).
`BookConverges` assumes that in the end every node is up, and nothing of the user,
the executors or the chain. In `CsdTrades` time passes, the page's loops run, and
the user takes a refund that is offered and would go through; without the last,
money in a lock can wait for ever, since nobody else can refund a buy.
`LockedBuysEnd` assumes in its own text that a click's work ends (`SessionsEnd`: every
await in it times out), and, because the clock of a finite model stops, speaks of
locks the remaining ticks outlast (`Outlasted`). It leaves out the two kinds of buy for
which the code fails: one whose refund the page took for done although its
transaction did nothing (`csd/page.tsx:790`, after which `:463` hides the button), and
one whose address received another payment too (`SharesAddress`, finding 5).

Each property has a mutant in `PROJECT.json`: a definition changed the way a bug
would change it (marked `fault:` in the modules, unused otherwise), under which
TLC finds the property violated.

## 4. The proofs

`EvmSpotSettlement_proofs` proves, for all constants that satisfy
`SignedDataAssumption` (signed fields have the types of the contract's structs)
and `EnvironmentAssumption` (submitted numbers are naturals, submitted bases are
`uint256`, `Scale` is positive):

| Theorem | Says |
|---|---|
| `Invariance` | `Spec => []SettlementInv` |
| `TypeCorrect` | `TypeOK`; every ledger, balance and allowance stays a natural number: nothing is ever debited below zero |
| `NoOverfill` | `OrdersNeverOverfill` |
| `Reservation` | `ReservedPartKept` |
| `LegAmounts` | `LegsWithinSignedAmounts` |
| `Caps` | `CapsHold` |
| `FeeProportion` | `FeesStayProportional` |
| `NonCustodial` | `HoldsNothingBetweenTrades` |
| `Closed` | `ClosedForGood` |
| `ReservationFirst` | `ReservationHonoured` |

`SettlementInv` is the conjunction of the safety invariants above with
`PayoutIsWrappedNative`. None of the parts is inductive alone. Types need
`OrdersNeverOverfill` and `ReservedPartKept`, because rooms are differences that
must not be negative; the reservation argument needs `boundFilledBase` to stay
below `filledBaseByOrder`; the hand-over of a payout needs to know both that the
contract holds exactly the coin it is about to send, and that the coin's wrapper
is one of the tokens. `ReservedPartKept` is conditional on something having filled
outside the legs, because the contract never compares `exclusiveBase` with
`baseAmount`: an order may reserve more than it is for, and then nothing is open.

The argument: `StepCases` divides a step into a settlement, the payout steps, the
holders' steps and the clock. For a settlement, `AmountFacts` shows what an
admitted fill settles is at most the room of both orders and both bindings; one
lemma per ledger (`SettlementKeepsOrders`, `…Reservation`, `…Legs`, `…Caps`) adds
it. For the fee proportion, `ProportionStep` adds a fee within
`maxFee * quote \div maxQuote` to both sides, without the prover ever dividing.
`Closed` and `ReservationFirst` are action properties that follow from the guards,
the latter with the invariant: while the reserved part is open and the window
runs, only a leg passes `BindingAccepts`, and its whole amount is recorded for it.

The same module proves two action properties about token
balances. The contract does not refuse an authorization whose base and quote token
are the same, and of such a token nothing that is signed for one leg bounds what
both legs take; both theorems therefore assume `TokensDiffer`, that every
authorization trades two different tokens.

| Theorem | Says |
|---|---|
| `LimitPrices` | `LimitPricesHonoured` |
| `WalletsMoves` | `WalletsMoveOnlyAsSigned` |

`SettlementMoves` follows a settlement over its legs, one transfer at a time, and
says what has happened to every balance at the end: the executor may be the buyer or
the seller, never both, since a trade with oneself fails the balance check of the
quote leg (`TwoWallets`). The limits follow because a quote grows with its price
(`QuoteMonotone`).

It also proves the refinement:

| Theorem | Says |
|---|---|
| `PromiseKept` | `ImplementsPromise`: every behaviour of the contract is one of `SpotPromise` |

The initial states correspond (`InitPromise`). A settlement is a `Trade` of its
sell and its buy order: both are `Willing` (`SettlementIsWilling`, from the room the
contract computes), what is left of them, of their open and reserved parts and legs
shrinks by what the trade takes (`SettlementTakes`), and so do the budgets
(`SettlementSpends`). Cancelling and revoking are `Close`, the clock is `Tick`, and
payouts, approvals and transfers are stutters (`StepPromise`). The invariant is
needed for the types only: what the mapping subtracts are numbers.

and what is true of the comment about slivers:

| Theorem | Says |
|---|---|
| `FreeFillsAreNotBlocked` | `SliverCannotBlockFreeFill` |

The base is clamped, so the seller's cap holds. That the buyer's does is not evident,
since the quote of every fill is rounded on its own: the strengthening
`ChargedAsFilled` says that an authorization with one order has been charged at most
the quote of all the order has filled, and it is kept because the quotes of the parts
never add up to more than the quote of the whole (`QuotesAddUp`; rounding up would
break it). A settlement moves no clock and closes no order, so the other fill stays
admitted (`StaysAdmitted`).

`EvmSpotSettlementAudit_proofs` proves the audits, which compare a ledger with a sum
over another, under `HashesAssumption` (orders and authorizations are named by
256-bit words, so there are finitely many):

| Theorem | Says |
|---|---|
| `LedgersAlwaysAgree` | `Spec => []LedgersAgree`, the conjunction of the next three |
| `FilledBacked` | `FilledIsBackedByFills`: no fill counts twice |
| `BoundIsLegs` | `BoundIsSumOfLegs` |
| `ExposureMatches` | `ExposureMatchesOrders` |
| `BaseArrives` | `BaseReachesItsBuyers`, when no token is base of one authorization and quote of another and holders send nothing themselves |

`LedgersAgree` is inductive once it says that finitely many fills were used. Every
step is a settlement or leaves the ledgers alone, and a settlement changes each sum
at one or two arguments by what it adds to the other side. Purchases are an
inequality: the quote of a part is rounded down, and added to the quote at the limit
of what the order had filled it stays below the quote at the limit of both
(`QuotesAddUp` again). The two hypotheses of `BaseArrives` are those the
property itself needs: a transfer is nobody's trade, and a token that is base here
and quote there moves for two reasons. The prover knows nothing about
`SumFunctionOnSet`, a recursive function over sets. `FunctionSums` proves by
induction over subsets that the recursion has a solution and only one
(`SumTableExists`, `TablesAgree`), and from it what proofs cite: the sum of nothing
(`SumEmpty`), of one element more (`SumWithout`), of a function changed at one
place (`SumChanges`), of a part (`SumOfPart`).

`ExecutorNetwork_proofs` assumes `ConstantsAssumption` and proves, for any number of
executors and nodes, any objects and receipts and any number of faults:

| Theorem | Says |
|---|---|
| `NetworkTypeCorrect` | `TypeOK`; the chain never fills an order beyond its size |
| `NetworkInvariance` | `Spec => []NetworkInv`: the types, that no order overfills, `AwaitsItsOwn` and `TrustedReceiptsHold` |
| `TrustedReceipts` | `TrustedReceiptsHold` |
| `CreditBounded` | `CreditNeverExceedsChain`: no listing makes an executor credit an order with more than settled |
| `NothingPassedOver` | `NothingSkipped`: what is left out of the queue is settled, closed, lapsed, in backoff or without room |

A receipt looked up on the chain is an event by definition; the one an executor
builds is not looked up, and it is right only because the outcome it acts on is that
of the fill it holds. `AwaitsItsOwn` is the strengthening that says so: while an
executor waits, the last transaction of its account is for that fill, whatever it
sent and gave up on before, and a success it has learnt means an event for its key.
Events never change (`MiningKeepsChain`), so trust that was right stays right.
What an executor credits is a sum over the keys that trusted receipts prove. It is
bounded because the chain adds up (`ChainAddsUp`: what an order has filled is the sum
of its events), each key is credited once whatever copies are listed, and what is
credited under a key is what its event moved (`CreditIsEarned`). `NothingPassedOver`
needs the bound: an order passed over for want of room could otherwise have been
credited with too much.

`SpotObjects_proofs` assumes `StringsAssumption`:

| Theorem | Says |
|---|---|
| `EveryTermIsSigned` | The messages of authorizations, orders and revocations have the fields their EIP-712 types cover, so no term travels unsigned |
| `BuiltAuthorizationsAccepted` | An authorization the builder makes is accepted, and its grantor signed it, which the validator does not check |
| `BuiltOpenOrdersAccepted` | So is an order without named counterparties that reserves no more than it has |
| `BuiltBoundOrdersRefused` | A bound order the builder makes is accepted by nobody: `buildEvmSpotOrderObject` has no counter set to put beside the hash that was signed (`builders.ts:100-160`), and `validateOrderObject` requires one |
| `BuiltFillsAccepted` | A fill the builder makes is accepted exactly if it names what it references and its amounts are positive, with the quote rounded down |
| `BuiltRevocationsCancel` | A revocation the builder makes is accepted and, signed by default, counts with the evaluator |
| `AppAuthorizationsAccepted`, `AppOrdersAccepted`, `AppFillsAccepted`, `AppRevocationsCancel` | What the app publishes is accepted, bound orders too, and its free cancel cancels |

Each follows a record from the constructor through the normalisation to the
validator that reads it; what there is to get wrong is a field signed in one
spelling and compared in another.

`SpotApp_proofs` assumes `MarketAssumption`, `AppAssumption`,
`ListingsAssumption` and `ListingsFit`: a scenario starts before anything settled, two
orders listed at first around one signed message are copies of each other, two objects
listed at first have two hashes and name nothing still to be made (a hash is the
identity of what was hashed), and the fills listed for the user's own orders fit (they were
published by this page; `MCSpotApp` starts from such listings and from empty ones).
`FreshFillsStand`, in `SpotAppFills_proofs`, also needs `ListingsOwnAuths`: orders listed at first are as the
app signs them, each with an authorization of its own that allows all of it. It
proves, for any nodes, forms, faults and acts of others:

| Theorem | Says |
|---|---|
| `TypeCorrect` | `TypeOK`: among the types, that no wallet and no allowance goes below zero and that an entry of the book offers between nothing and its size |
| `OffersAreBacked` | `BookNeverOverstates`: the book offers of an order no more than its size less what the contract moved for the fills the book lists, if its total was read or the receipts listed are settlers' own |
| `FillsAlwaysFit` | `PublishedFillsFit`: every fill published for an order of the user's is one the contract can take whole, alone and with the others of its order |
| `MatchTakesLegs` | A match of any finite book has at most `MaxLegs` legs, each at its order's price and within what is left of it |
| `ReceiptsReportMoves` | `ReceiptsMatchMoves`: a settler's receipt reports what its settlement moved; whatever receipts others publish, a fill shown as settled was settled, and for the amount shown when its receipt is the settler's |
| `CancelledStays` | `CancelSticks`: once the listing holds an owner's cancellation, of any copy of the order that stands under an authorization or of the authorization object the book has it under, no copy of the order is live, however order and authorization are republished |
| `SellsAreCovered` | `SellApprovalsCover`: a sell is signed on an allowance that covers it and all that the open sells can still deliver |
| `FreshFillsStand` | `FreshFillsAreAccepted`: a fill matched against an up-to-date book is one the contract accepts, in full |

`AppInv` follows the objects from the browser to the nodes and back into a refresh.
An order that somebody republishes is matched with its copies by its EIP-712 hash,
so a cancellation reaches them all only if everything signed is equal among them:
`OrdersAuthentic` says so of every order at a node or about to be published, and that
the next hash is new. What a refresh has listed stays at the nodes (`RefreshInv`), so
the same holds of it at a later await. The owner's revocation of a copy that is listed
as an order, or of the authorization the canonical copy names, is then one the derivation
counts, and it reaches the canonical copy (`RevocationsReach`). A copy may name another
object around its authorization, which says the same (`AuthTerms`, `CopySays`), so what
holds of the signed terms holds under every name; what does not is a cancellation that
names the object (finding 6). For receipts, the one being
published is kept with its trade (`SessionInv`), and trades are never undone. A fill
shown as settled was found used on chain, so there is a trade of its key, whatever
receipts name it; the amount shown is taken from a receipt under the same key, which
is the trade's when a settler published it (`SettledViews`, which needs that a hash is of
one object, as `FitInv` below says).

`WorldInv` adds the numbers, along the way they take: objects at the nodes are
well formed and their hashes below `next` (`ObjectsOK`), so what `deriveState` makes
of any listing is a book of naturals (`BookOfListing`, `BookIsTyped`), so a match of
it is made of legs within the orders they take from (`MatchTakesLegs`), so what the
user or the other trader signs and publishes is well formed again (`SignedObjects`,
`RivalObjects`). A settlement moves what both wallets have, since `Accepts` compares
balance and allowance with the clamped amounts (`SettlementPays`), and keeps one
trade per fill (`TradesOK`), on which the next argument rests.

`BookNeverOverstates` compares a book made of three reads with the contract at the
end of the third. The strengthening is in `RefreshOK`: when the totals have been
read there is a set `T` of trades, a part of those there are now, that holds every
fill found used before it, and whose sums the totals are (`ReadAt`). A settlement
after the read leaves such a `T` as it is, and this is where the order of the reads
matters: were `usedFill` read after the totals, a fill could be known as used, so no
longer reserved, and missing from the totals. `EntryWithin` then splits what the
listed trades took of an order in two. What is in `T` is covered by the total that
was read, or by the settled fills when none was (`SettledCovers`; these amounts are the
receipts', hence the premise on whose they are). What is not in
`T` was not found used, so its fill is listed as pending and its base is reserved
(`CreditCovers`); one fill counts of those that share a key (`OneCounts`), and a
trade moved no more than its fill asked (`FittingIsWithin`).

`PublishedFillsFit` is about fills that go out one by one, over many steps in which the
nodes, the chain and everybody else go on. It needs a third invariant, `FitInv` (TLC
checked it on `spot_app` before it was proved). Three things make it up:

- *One object per hash.* Published objects and those in hand have different hashes,
  and what a published object names is published or older than the scenario
  (`HashesOK`). So an object that appears later is named by nothing that was there
  (`HashesKept`, `Apart`), the calls a fill stands for never change (`CallsStay`), and
  the fills of an order only grow by the user's own (`OthersFit`): the other trader's
  fills are of the order made with them, copies have no fills.
- *What the book shows is at the nodes* (`BooksKnown`): the maker of a leg and its
  authorization are found again under their hashes, with the side and the caps the
  fee was computed from (`FillWithinShare`).
- *What is left still fits* (`HandFit`). The legs of a match take between them exactly
  what it filled (`Runs`, `MatchFits`), and none is priced beyond the limit or, at the
  market, beyond the last, which is the worst since offers are taken in book order
  (`IsRising`). From the signature on, the fills out and the legs left stay
  within the reserved size, the fills' quotes are covered by price times base and
  their fees by rate times quote (`WithinTerms`). These two, without divisions, are what
  a further fill keeps (`FillTerms`); rounding down each leg then costs less than
  rounding down the whole (`QuotesFit`), and the unit of headroom in `MaxFeeForOrder`
  is what makes the cap cover the rate for any part of it (`CapCoversRate`, `RateFits`).
  A resting buyer's fee is bounded by their share directly (`SellFeeFits`).

A request that times out is in the same argument: the fill may be at a node or at
none (`FillGoesOut`), and the action ends either way (`FailFit`).

`SellApprovalsCover` compares an allowance, computed from the book at the click, with
what the contract can pull several awaits later, when fills have settled, parts have
lapsed and orders have gone. Its premise is that the book was right at the click
(`BookIsRight`: it shows every order of the user's that can still fill, and takes
none for more filled than it is); without it nothing of the kind is true, since a
total that could not be read is estimated from receipts. `CoverInv` (TLC checked it on
`spot_app` before it was proved) relates the two moments:

- *What a book says is open.* An entry's remaining and pending base cover all there is
  of its order but what it knows as filled and what it says has lapsed (`EntryOpen`);
  the order is at a node, and its window closed if a part has lapsed (`EntryTrue`). So
  when the book is right, what `committedIn` adds up covers what the sells shown can
  still deliver (`PulledWithin`).
- *What can still fill was shown.* Until the signature the user's only new objects are
  copies, by whoever republishes them, of orders there were (`MineFollow`), and no order that
  could not fill ever can again; so every sell of the user's that settles is one of those
  shown (`ShowsAll`).
- *A settlement takes both down.* What it takes from the seller's allowance is what
  the sell shown can deliver less (`SettledSells`, `SellerDelivers`, `PullMoves`). A
  part that has lapsed stays out: no leg of it is recorded any more, as the contract
  compares the same deadline.

Only sells: a buy pulls a fee as well, and there the approval is short (section 5).

`FreshFillsAreAccepted` sets two programs side by side: what the page takes for live,
reserved, void, funded and left, and what the contract checks when the fill arrives.
Most of it follows one leg of the match through both. What it needs of the past is
`TermsInv`: every order, signed at first, by the user or by the other trader, has an
authorization of its own that allows all of it (`OwnAuths`), every trade was of a buy
and a sell there are, at a price the buy takes and for no more than its share of the
fee (`TradeKnown`, `FeeShared`), and nothing so far names what is signed next. So:

- *Room.* The entry of an order in a book that read the whole chain tells the truth
  of it (`Offered`). One that is live and not reserved has, by the contract's rules for
  named legs, the reserved part, the deadline and the open part, room for all that is
  left of it (`OfferedHasRoom`). The new order has, of every order it names,
  exactly the leg (`TakerHasRoom`; a match meets an order once, `MatchesOnce`). So what
  settles is all of the fill (`AllFits`).
- *Authorizations.* What settled under a maker's authorization settled of its one order (`TradesAreOwn`; copies
  of an authorization allow the same, `SharedByCopies`), so the base cap holds (`MakerDelivers`), and the quote and fee
  caps do because quotes rounded down and fees within a share add up to less than the
  whole's (`MakerSpends`, `SumsInRatio`). Nothing settled under the new one
  (`NewAreUntraded`), and `MaxFeeForOrder` covers any part of it (`TakerSpends`).
- *Wallets.* An entry marked as funded needs no more than its maker holds and approved
  (`FundedWithin`, by induction over the book), and a leg takes no more than the entry
  needs, its fee included (`MakerPays`).

Marks are by the hash of an entry, one entry stands for all copies of an order
(`BookIsOffered`), and the calls of the new fill are found by hash among everything
published, so that hashes are of one object is needed throughout (`RivalCalls`).

`CsdTrades_proofs` assumes of the constants `TradesAssumption` (durations are numbers
and the addresses of the CSD a scenario starts with are numbers), `MarketAssumption`
(caps and pages are positive), `PoolAssumption` (positive units, a search step above
one) and, where a run's beginning matters, `ScenarioAssumption`: the offers there are
at first are well formed, the signed ones of one maker and side replace each other in
a chain (`Chained`), amounts and pools are ones that can be traded. TLC evaluates all
four on the runs. It proves, for any market, scenario, trades, faults and lies:

| Theorem | Says |
|---|---|
| `SellersCanClaim` | `PaymentsStayClaimable` |

The property speaks of locks and payments, and is far from inductive. `TradesInv`
adds what holds it up. Every authorization, order and request has a number of its
own, and a sale is agreed under a number above its request and so above every trade
kept when it was made (`RepliesInv`, `SessionInv`): a maker can answer with neither an
old trade nor a buy. A CSD transaction to a sale's address is the one its saved trade
holds, or one of the wallet's own to an address nothing was locked under (`TxInv`).
What a step of the page has read before an await still fits what is saved after it:
a copy that a loop, a claim or a refund will save has the payment of the trade it
replaces (`KeptTrade`; this is why `FollowedOpen` must pass over a sale that is not
yet paid). And between the check of a lock and the handing over nobody can
end the trade: there is no payment to prove and none to release for
(`UnsignedUnsent`, `Unsent`), and the lock has not expired (`FinalSteps`). Two limits
of the model carry over: the list of trades never reaches its cap of 100
(`csd/page.tsx:440`), and there is one tab.

That the page shows what happened:

| Theorem | Says |
|---|---|
| `ProvenMakersTraded` | `ProvenMakersSettled`: a maker shown or remembered as proven is listed by the site or settled a trade with somebody else |
| `RecentTradesAreReal` | `RecentTradesHappened`: every recent trade the page found itself was paid out, or its lock was there and the payment published for it, of the agreed CSD at least, in a block at the buyer's address; the known maker's unchecked list is shown only where the page found none |

What happened on the two chains stays so (`ChainsGrow`: locks end, payments are mined,
neither is undone), and `FactsStay` carries it over a step. `EvidenceInv` says of
every conclusion the page keeps, in the market shown, in its caches of checked
receipts and payments and in the browser's storage, that it is true of the chains (`VerifiedInv`, `CheckedInv`, `ProvenInv`, `ShownInv`; TLC checked
each on `csd_trades` before it was proved). A receipt and a payment are looked up
under a trade's authorization hash, and a published look-alike must not borrow
another trade's lock: `PublicInv` says that an order's lock is at the order's address,
that no two orders share an authorization, and that the buy being published has
neither lock nor order yet (`NotYetPublic`); this needs what `TradesInv` says of
numbers.

What a market load finds:

| Theorem | Says |
|---|---|
| `LoadsFindNewestOffers` | `NewestOffersFound`: of every offer within the listing, or within reach of a hint it followed, a load has that offer or a newer one of its maker and side |

The property compares a walk, read by read while others publish, with a choice among
all offers. Offers are only ever added, newer than those there are, and each replaces
the newest of its maker and side, so the chain between a hint and an offer due is fixed
once both exist (`OffersInv`, `Chained`, `Between`). `MarketInv` then says where an
offer that must be found still is. For hints (`WalkInv`): the hint that reaches it is
ahead, or the walk is under way, on the chain and with hops enough left (`Walking`), or
it has been found. For the listing (`ListingInv`): it has been found, or as many
offers as the pages read can hold are newer; what is published meanwhile pushes it back,
and it then counts as listed no more. A walk passes over look-alikes because only fewer
of them than `MaxCandidates` can stand before the signed replacement; with
more, dated late enough, a walk does stop, which is why `Reached` counts them
(`aon-client.ts:129` looks at ten). After a failed read nothing is due. `MarketInv` was
checked by TLC on `csd_trades` first.

The prices and searches of `csd/pool.ts`, from `PoolAssumption` alone, for every pool
with something on both sides and a spread below the whole, and every amount:

| Theorem | Says |
|---|---|
| `BuysFavourThePool` | `BuysNeverGain(p, Nat)`: a buy never lowers the product of the sides, and selling it back never brings more than it cost |
| `SalesFavourThePool` | `SalesNeverGain(p, Nat)`: the same of a sale and buying it back |
| `SearchesAreExact` | `CsdForUsdc` is the most the money buys, `CsdToSellFor` the least that brings it, both without a step of their loops |
| `LadderNeverCrosses` | No ask of the ladder lies below a bid, for any step and number of levels |
| `QuotedPoolsNeverLose` | `PoolNeverLoses`: all of this of every pool quoted on the page |

The first two rest on one inequality per direction: a buy's cost times the CSD that stays
covers the USDC that backed the CSD sold (`BuyCovers`, each `ceilDiv` rounding
against the buyer), and a sale's proceeds times the CSD then held stay within what
it is worth (`SaleIsCovered`). The searches look like induction over data, and are
not: the estimate each starts from is already exact, so the recursive function is
evaluated once, and only that it exists has to be shown. The ladder is an induction
over its levels, which goes through because the set of levels is a set like another
(`Induct`): buying raises what a unit costs and selling lowers what it brings, so
every ask is at least, and every bid at most, the pool's own price at the start
(`AsksAbove`, `BidsBelow`).

And the shape of the state:

| Theorem | Says |
|---|---|
| `StateKeepsItsShape` | `TypeOK`: among it, no payment has a change below nothing, and the address counter never comes back to the change address |

`ShapeInv` is what it takes (TLC checked it on `csd_trades` first): what a click
deals in (`DealInv`: the coins chosen for a sale cover it and its fee, `PickedCovers`,
which is why the change is not negative), every copy of a trade that is still to be
saved (`TradesGood`), the counters of the storage, of the tab and of a refresh under
way (`KeysInv`). That a route goes to a maker listed needs that the best routes are
all of them, in order (`BestShape`).

Every invariant the runs check has its theorem. Only model-checked is liveness under
fairness, out of the prover's reach: `LiveFillsSettle`, `ReceiptsFollowWithoutFaults`,
`RevocationsTakeHold`, `BookConverges`, `LockedBuysEnd`.

## 5. Disagreements between text and code

1. *A sliver can make the rest revert* (`settlement_sliver`,
   `SliverCannotBlock`). The comment at `GenericEvmSpotSettlement.sol:326-327` says
   it cannot. A clamped fill's fee and the cap it is held to are rounded
   separately, so a fill with a fee at its cap can exceed it by one unit once
   clamped, though its room and its wallets are there. Fills without a fee never do
   (`SliverCannotBlockFreeFill`, proved in general), and a new fill can always be
   published.
2. *Receipts can be lost* (`executors_receipts`, `SettlementsGetReceipts`). The docs
   (`app/docs/page.tsx:111`) say the executor publishes a receipt once the
   transaction confirms. A crash, a timed-out wait or an outage in between loses
   it for good. Without faults receipts follow (`ReceiptsFollowWithoutFaults`),
   and no fund depends on a receipt: the contract's replay key stops a second
   settlement.
3. *A free cancellation misses copies* (`executors_cancel`,
   `FreeCancelHonoured`). `README.md:126` says executors honour a free revocation.
   They match it by object hash, so a fill built on republished copies of the
   order and its authorization still goes to the contract. The on-chain cancel
   has no such gap (`ClosedForGood`).
4. *A second buy's approval can be short* (`spot_approval`,
   `ApprovalsCoverOpenOrders`). The comment at `app/eth/page.tsx:295` says an exact
   approval covers what open orders and their pending fills can still pull.
   `committedIn` (`:298`) adds a pending fill's cost, but the fee of that fill has
   already been taken out of `feeBudgetLeft` (`aon.ts:318,343`), so while a fill of
   a resting buy is pending a second buy is approved for less than the two can
   pull. One of them then fails to settle until the next approval; sells are
   covered (`SellApprovalsCover`, proved in general).
5. *Two buys can share an address* (`csd_addresses`, `EveryBuyFresh`).
   `useCsdWallet.ts:6-8` says each buy receives on a fresh address. `refresh` counts
   from the `nextIndex` of the render that created it (`:74`) and stores its result
   over a counter that `freshKey` has moved meanwhile (`:81`). The lock contract
   keeps two open locks off one address, but the page takes the first buy's coins
   for the second's (`Arrived`), and a buy that looks done offers no refund; this is why
   `LockedBuysEnd` leaves out buys that share an address.
6. *Cancelling the authorization can miss the order* (`spot_cancel`,
   `CancelHonoured`). The comment at `aon.ts:241` says that a revocation of any copy,
   or of the authorization, cancels the signed order. Copies are sought of the order
   only: the revocation of an authorization counts for the object the canonical copy
   names (`:243`). Which object that is is not signed, and the canonical copy is the one
   with the smallest date, unsigned too, so a copy of the order under an earlier
   date and a republished authorization leaves the order live on the book after its
   owner has cancelled it. The app's own free cancel is of this kind, since it revokes the
   authorization object (`app/eth/page.tsx:514-523`), and executors, who compare objects
   (finding 3), do not refuse a fill of the copy. A cancel on chain has no such gap.

## 6. Not modelled, and why

- Hashing, signature recovery, encodings: a hash is an identity here, a signature
  a field. What the contract does when they do not match is to revert.
- Tokens that lie, take fees or call back: the contract's balance check on the
  quote leg is modelled, with honest ERC-20 tokens.
- Reverting transactions, gas, events other than the one receipts quote, views.
- In `ExecutorNetwork`: the field-by-field checks of the validators (`SpotObjects`
  has them; an object is authentic or forged here), executors' own funds, the `off` and `simulate` modes, the evaluator's view for explorers, a
  chain that takes blocks back (so nothing covers validation results that outlive
  one, `executor.ts:42`), paging of the listing.
- In `MarketState` and `SpotApp`: one market; objects whose numbers are not naturals
  (`WellFormed`); the fields a wrong chain, market or
  encoding would change; number formatting and the forms; demo mode; reference
  price. The totals of all orders are one read, wallet reads happen at the click, one
  step signs both objects, a fill is settled from the page one at a time,
  `checkedOldFills` (a cache of old unsettled fills) is left out, fills and
  revocations are not republished. Of several receipts of a fill, the page takes the
  first its node lists; here it is the one with the smallest hash. A cancellation of a
  copy of an order whose authorization is not listed is not counted by the page, since
  such a copy is not listed as an order, and `CancelSticks` leaves it out. `BookNeverOverstates` leaves out orders whose reserved part has
  lapsed: when a leg fills between the read of the total and that of the bound part
  (`boundFilledBase`) and the window closes in between, the open part of such an
  order looks larger than it is until the next refresh. `FreshFillsAreAccepted` is about
  a book read at rest, for the same reason, and about listings in which each order has
  an authorization of its own that allows all of it (`ListingsOwnAuths`), as the app
  signs them: orders that share one compete for its caps, which the book does not
  look at. Of `endpoints.ts`, the RPC list and the wallet as a transport.
- In `CsdMarket` and `CsdTrades`: setting up and forgetting a wallet, keys,
  signatures, encodings; a second tab over the same storage (`csd/page.tsx:439`);
  the caps on the trade list (100) and on the hints stored (40); of the
  known maker's own list of trades, shown unchecked, all but whether there is one; failover between nodes (`SpotApp` has it); a timer's load
  under a session's; receipts and payments of one load are read at one moment; one
  refresh of the wallet and one follow-up save in flight; failed reads of the
  listings of receipts and payments, and of the lock cap. The seller's checks of an answer are reduced to its price,
  its confirmations and whether the rest is honest. Minutes do not pass between a
  checked lock and handing the payment over. A buy whose publication failed but
  arrived (`csd/page.tsx:615`) is a behaviour of the model, and no property: the
  code keeps no record of it and promises nothing.
- The CSD lock contract, the CSD network and market makers are in other
  repositories: what the page's calls and reads of them show is modelled, as
  external.
- In `SpotObjects`: the checks of an envelope and its hash, the evaluator's own
  comparisons of a graph's fields, and `validators/order.ts`, `validators/fill.ts` and
  `signatures.ts`, which nothing in the package calls. The missing counter set of
  `builders.ts:116` is a theorem and no run's property, since nothing steps.
- The other pages, charts, wallet dialogs, wording, deployment and rehearsal scripts.

## 7. Plan

Done: the contract with its promise and its audits, all of it proved; the executor
network with the proofs of its safety properties; the objects, built and validated;
the app's market state, the ETH page with failover; the CSD pool, market client,
wallet and trading page; and the proofs of every safety property the passing runs
check. Left, in this order:

1. Two tabs over one storage: `mine`, `storage` shared, `tab` and `session` per tab;
   with them the cap of 100 trades, which needs the order they were saved in.
2. A chain that takes blocks back, for the executors' `valid` cache and the page's
   `usedNonceCache`.
3. `SpotObjects!Accepted` as a filter in front of `ExecutorNetwork` and `MarketState`.
