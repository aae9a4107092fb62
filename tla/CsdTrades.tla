------------------------------ MODULE CsdTrades ------------------------------
(* One user of the CSD page: buying, selling, claiming, refunding, the wallet  *)
(* and its address counter, the loops that follow trades, reloads of the page   *)
(* (app/csd/page.tsx, csd/useCsdWallet.ts, csd/csd-wallet.ts). The market       *)
(* makers, the settlement contract and the CSD network are external: what the   *)
(* page's calls and reads of them show.                                         *)
EXTENDS CsdMarket

CONSTANTS Me,            \* the user's Ethereum address
          Scenarios,     \* a sequence of records that bound and seed a run
          CsdFee,        \* a CSD transaction's fee (10_000)
          Gap,           \* addresses looked at past the last used one (SCAN_GAP)
          FirstGap,      \* the same for the first look on a device (FIRST_SCAN_GAP)
          MaxKeys,       \* addresses ever looked at (200)
          PermitFor,     \* how long a buy's permit can be used (300 s)
          LockTime,      \* how long the contract keeps a buy's lock
          SaleLockTime,  \* and a sale's
          ClaimTime,     \* what a sale's lock must leave for claiming (minConfirmations * 240 + 300 s)
          MaxConf,       \* confirmations a sale may ask for (20)
          ClaimAfter,    \* when Claim is offered (10 min)
          RefundAfter,   \* when Refund is offered if the lock was never seen (112 min)
          BriefSkip, LongSkip,  \* how long a maker is avoided (2 and 30 min)
          FollowFor,     \* how long trades are followed (6 hours)
          OrderFor,      \* how long a buy's authorization is valid (3 hours)
          MaxTotalLocked \* the contract's cap on all locks together

ASSUME TradesAssumption ==
  /\ Me \notin Makers
  /\ {Gap, FirstGap, MaxKeys, PermitFor, LockTime, SaleLockTime, ClaimTime} \subseteq Nat
  /\ \A s \in DOMAIN Scenarios : /\ Scenarios[s].clock \in Nat
                                 /\ \A t \in Scenarios[s].txs : t.to \in Nat

(* What a run may start with: numbered offers of makers, the signed ones of one *)
(* maker and side each replacing the one before, and the amounts and pools that *)
(* may be traded and quoted.                                                    *)
OfferFields == {"id", "side", "maker", "signer", "at", "validBefore", "replaces", "pool", "fee",
                "minTrade", "maxTrade", "ours"}
OfferFits(o) ==
  /\ DOMAIN o = OfferFields /\ o.id \in Nat \ {0} /\ o.maker \in Makers /\ o.pool \in Pools
  /\ {o.at, o.replaces, o.fee, o.minTrade, o.maxTrade} \subseteq Nat
SameOffers(o, p) == o.maker = p.maker /\ o.side = p.side
Chained(S) ==
  \A o, p \in {o \in S : Signed(o)} : SameOffers(o, p) =>
    /\ o.at = p.at \/ o.replaces = p.replaces => o = p
    /\ o.replaces = p.id => o.at > p.at
    /\ o.at > p.at => \E q \in S : /\ Signed(q) /\ SameOffers(q, p) /\ q.replaces = p.id
                                   /\ q.at <= o.at
ASSUME ScenarioAssumption ==
  /\ "anyone" \notin Makers /\ CsdFee \in Nat
  /\ \A s \in DOMAIN Scenarios : LET sc == Scenarios[s] IN
       /\ IsFiniteSet(sc.offers) /\ Chained(sc.offers)
       /\ \A o \in sc.offers : /\ OfferFits(o) /\ o.id < 10 /\ o.replaces < 10
                               /\ Signed(o) => o.at <= sc.clock
                               /\ \A p \in sc.offers : o.id = p.id => o = p
       /\ sc.hints \subseteq {o.id : o \in sc.offers}
       /\ IsFiniteSet(sc.txs) /\ \A t \in sc.txs : t.value \in Nat \ {0} /\ t.change \in Nat
       /\ {"pools", "buyAmounts", "sellAmounts"} \subseteq DOMAIN sc.left
       /\ sc.left.pools \subseteq Pools /\ sc.left.buyAmounts \cup sc.left.sellAmounts \subseteq Nat \ {0}

VARIABLES requests,  \* the user's sale requests on AON
          replies,   \* makers' responses, by the object they answer
          handed,    \* sale payments handed over on AON
          mine,      \* the trades kept in this browser, by authorization hash
          session,   \* the click being worked on
          scan,      \* the wallet's refresh under way
          late,      \* a save some follow-up is about to make
          serial,    \* numbers given to objects
          left       \* what the scenario still allows

marketVars == <<offers, receipts, payments, orders>>
csdVars    == <<csdTxs, mined>>
pageVars   == <<storage, tab, load, mine, session, scan, late>>
talkVars   == <<requests, replies, handed>>
vars == <<clock, marketVars, locks, csdVars, talkVars, pageVars, serial, left>>

Put(f, k, v) == [x \in DOMAIN f \cup {k} |-> IF x = k THEN v ELSE f[x]]
SaleAddr(h) == 0 - h                 \* the CSD address a maker names for sale h
Spend(k) == left[k] > 0 /\ left' = [left EXCEPT ![k] = @ - 1]
Can(k) == k \in left.can
NewTab(next) == [market |-> NoMarket, verified |-> << >>, buyChecked |-> << >>,
                 nextIndex |-> next, coins |-> {}, deep |-> FALSE]

Init ==
  \E s \in DOMAIN Scenarios : LET sc == Scenarios[s] IN
    /\ clock = sc.clock /\ offers = sc.offers /\ csdTxs = sc.txs
    /\ mined = [id \in {t.id : t \in sc.txs} |-> 0]
    /\ receipts = {} /\ payments = {} /\ orders = {} /\ requests = {} /\ handed = {}
    /\ locks = << >> /\ replies = << >> /\ mine = << >>
    /\ storage = [hints |-> sc.hints, provenAt |-> << >>, avoid |-> << >>, next |-> 1]
    /\ tab = NewTab(1) /\ load = Idle /\ session = Idle /\ scan = Idle /\ late = Idle
    /\ serial = 10 /\ left = sc.left

---------------------------------------------------------------------------
(* The CSD wallet                                                           *)

Spent == UNION {t.ins : t \in csdTxs}
Outputs(t) == {[tx |-> t.id, key |-> t.to, value |-> t.value]}
              \cup IF t.change > 0 THEN {[tx |-> t.id, key |-> 0, value |-> t.change]} ELSE {}
ConfirmedCoins == UNION {Outputs(t) : t \in {t \in csdTxs : t.id \in DOMAIN mined}}
CoinsAt(i) == {c \in ConfirmedCoins : c.key = i} \ Spent
Worth(cs) == MapThenSumSet(LAMBDA c : c.value, cs)

(* A buy is done once enough coins show at its address; whatever changes the  *)
(* trades or the coins runs this effect.                                      *)
Arrived(ts, coins) ==
  [h \in DOMAIN ts |->
     IF ts[h].side = "buy" /\ ts[h].status = "pending" /\ Worth({c \in coins : c.key = ts[h].addr}) >= ts[h].csd
     THEN [ts[h] EXCEPT !.status = "done"] ELSE ts[h]]
Saved(h, t) == Arrived(Put(mine, h, t), tab.coins)

ScanStarts ==                        \* refresh keeps the counter it was created with
  /\ Can("scan") /\ scan.pc = "idle"
  /\ scan' = [pc |-> "reading", next |-> tab.nextIndex]
  /\ UNCHANGED <<clock, marketVars, locks, csdVars, talkVars, storage, tab, load, mine, session, late, serial, left>>

(* An address is looked at unless `gap` unused ones in a row come before it;  *)
(* the counter ends past the last used one.                                   *)
ScanEnds ==
  /\ scan.pc = "reading"
  /\ LET gap == IF tab.deep THEN Gap ELSE FirstGap
         Unused(n) == \A k \in n..(n + gap - 1) : CoinsAt(k) = {}
         looked == {i \in 0..(MaxKeys - 1) : \A n \in scan.next..(i - gap) : ~Unused(n)}
         next   == Max({scan.next} \cup {i + 1 : i \in {i \in looked : CoinsAt(i) # {}}})
         coins  == UNION {CoinsAt(i) : i \in looked}
     IN  /\ tab' = [tab EXCEPT !.coins = coins, !.deep = TRUE,
                               !.nextIndex = IF next # scan.next THEN next ELSE @]
         /\ storage' = [storage EXCEPT !.next = IF next # scan.next THEN next ELSE @]
         /\ mine' = Arrived(mine, coins)
  /\ scan' = Idle
  /\ UNCHANGED <<clock, marketVars, locks, csdVars, talkVars, load, session, late, serial, left>>

FreshKeyIndex == Max({1, storage.next})
WithFreshKey(st) == [st EXCEPT !.next = FreshKeyIndex + 1]

(* Largest coins first until they cover the payment and its fee *)
Picked(coins, need) ==
  CHOOSE p \in SUBSET coins :
    /\ Worth(p) >= need
    /\ \A u \in p : Worth(p) - u.value < need /\ \A c \in coins \ p : u.value >= c.value
FeelessPayment(id, coins, to, value) ==   \* fault: the coins need not cover the fee
  LET p == Picked(coins, value) IN
  [id |-> id, ins |-> p, to |-> to, value |-> value, change |-> Worth(p) - value - CsdFee]
Payment(id, coins, to, value) ==
  LET p == Picked(coins, value + CsdFee) IN
  [id |-> id, ins |-> p, to |-> to, value |-> value, change |-> Worth(p) - value - CsdFee]

(* A node takes a transaction it holds already or whose coins are free *)
Takes(t) == t \in csdTxs \/ t.ins \cap Spent = {}
Submitted(t) == IF Takes(t) THEN csdTxs \cup {t} ELSE csdTxs

SendCsd(value) ==
  /\ session.pc = "idle" /\ Spend("sends") /\ Worth(tab.coins) >= value + CsdFee
  /\ LET t == Payment(serial, tab.coins, SaleAddr(serial), value) IN
     /\ Takes(t)                     \* else the node refuses, and nothing changes
     /\ csdTxs' = csdTxs \cup {t}
     /\ tab' = [tab EXCEPT !.coins = @ \ t.ins]
  /\ serial' = serial + 1
  /\ UNCHANGED <<clock, marketVars, locks, mined, talkVars, storage, load, mine, session, scan, late>>

---------------------------------------------------------------------------
(* Loading the market                                                       *)

TimerLoads == /\ session.pc = "idle" /\ Spend("loads") /\ LoadStarts("timer")
              /\ UNCHANGED <<clock, marketVars, locks, csdVars, talkVars, storage, tab, mine, session, scan, late, serial>>
SessionLoads == /\ session.pc \in {"buyLoad", "sellLoad"} /\ LoadStarts("session")
                /\ UNCHANGED <<clock, marketVars, locks, csdVars, talkVars, storage, tab, mine, session, scan, late, serial, left>>
LoadReads == /\ \/ (NextHint \/ Hop \/ ListPage) /\ UNCHANGED left
                \/ ReadFails /\ Spend("faults")
             /\ UNCHANGED <<clock, marketVars, locks, csdVars, talkVars, storage, tab, mine, session, scan, late, serial>>

Goto(pc) == session' = [session EXCEPT !.pc = pc]
LoadEnds ==
  /\ \/ LoadFinds({}) /\ UNCHANGED left
     \/ LoadFinds(receipts) /\ receipts # {} /\ Spend("faults")  \* Ethereum can't be read
     \/ LoadFindsNothing /\ UNCHANGED <<storage, tab, left>>
  /\ IF load.by = "timer" THEN UNCHANGED session
     ELSE IF load.out = {} THEN session' = Idle
     ELSE Goto(IF session.pc = "buyLoad" THEN "buyRoute" ELSE "sellRoute")
  /\ UNCHANGED <<clock, marketVars, locks, csdVars, talkVars, mine, scan, late, serial>>

TotalLocked == MapThenSumSet(LAMBDA h : locks[h].usdc, {h \in DOMAIN locks : locks[h].state = "locked"})
MarketFull(amount) == TotalLocked + amount > MaxTotalLocked

---------------------------------------------------------------------------
(* Buying                                                                   *)

pageUnchanged == UNCHANGED <<load, scan, late>>
outsideUnchanged == UNCHANGED <<clock, offers, receipts, payments, locks, csdVars>>

BuyClicked(csd) ==
  /\ session.pc = "idle" /\ Spend("buys") /\ Routes(tab.market, "buy", csd) # {}
  /\ session' = [pc |-> "buyLoad", csd |-> csd, preview |-> BestRoutes(tab.market, "buy", csd)[1].total]
  /\ outsideUnchanged /\ pageUnchanged /\ UNCHANGED <<orders, talkVars, storage, tab, mine, serial>>

(* Some maker takes it, its lock fits under the cap, the price has not moved *)
BuyPossible == /\ Routes(tab.market, "buy", session.csd) # {}
               /\ LET total == BestRoutes(tab.market, "buy", session.csd)[1].total IN
                  ~MarketFull(total) /\ total * 1000 <= session.preview * 1005

BuyRefused == /\ session.pc = "buyRoute" /\ ~BuyPossible /\ session' = Idle
              /\ outsideUnchanged /\ pageUnchanged /\ UNCHANGED <<orders, talkVars, storage, tab, mine, serial, left>>

BuyPrepared ==
  /\ session.pc = "buyRoute" /\ BuyPossible
  /\ LET best == BestRoutes(tab.market, "buy", session.csd)[1]  i == FreshKeyIndex IN
     /\ storage' = WithFreshKey(storage) /\ tab' = [tab EXCEPT !.nextIndex = i + 1]
     /\ session' = [pc |-> "buyPut",
          order |-> [id |-> serial, hash |-> serial, maker |-> best.maker, addr |-> i,
                     csd |-> session.csd, usdc |-> best.total, at |-> clock,
                     deadline |-> clock + PermitFor]]
  /\ serial' = serial + 1
  /\ outsideUnchanged /\ pageUnchanged /\ UNCHANGED <<orders, talkVars, mine, left>>

BuyTradeOf(o) == [side |-> "buy", status |-> "pending", at |-> clock, csd |-> o.csd, addr |-> o.addr,
                  maker |-> o.maker, expires |-> o.at + OrderFor, lockTx |-> FALSE, lockedUntil |-> 0,
                  releaseTx |-> FALSE, unconfirmed |-> FALSE, receipt |-> FALSE]

BuyPublished ==
  /\ session.pc = "buyPut"
  /\ LET o == session.order  t == BuyTradeOf(o) IN
     /\ orders' = orders \cup {o} /\ mine' = Saved(o.hash, t)
     /\ session' = [pc |-> "buyAnswer", order |-> o, trade |-> t]
  /\ outsideUnchanged /\ pageUnchanged /\ UNCHANGED <<talkVars, storage, tab, serial, left>>

(* The signature is declined or the node fails: nothing is saved. The node   *)
(* may have stored the order before its answer was lost.                     *)
BuyNotPublished ==
  /\ session.pc = "buyPut" /\ Spend("faults") /\ session' = Idle
  /\ orders' \in {orders, orders \cup {session.order}}
  /\ outsideUnchanged /\ pageUnchanged /\ UNCHANGED <<talkVars, storage, tab, mine, serial>>

Answered(id) == id \in DOMAIN replies
(* An ordinary "not right now" skips a maker briefly, silence for longer *)
SkipFor(id) == IF Answered(id) THEN {BriefSkip, LongSkip} ELSE {LongSkip}
BuyAccepted ==
  /\ session.pc = "buyAnswer" /\ Answered(session.order.id) /\ replies[session.order.id].accepted
  /\ mine' = Saved(session.order.hash, [session.trade EXCEPT !.lockTx = TRUE])
  /\ session' = Idle
  /\ outsideUnchanged /\ pageUnchanged /\ UNCHANGED <<orders, talkVars, storage, tab, serial, left>>
BuyDeclined ==
  /\ session.pc = "buyAnswer" /\ Answered(session.order.id) /\ ~replies[session.order.id].accepted
  /\ \E for \in SkipFor(session.order.id) : storage' = Skipped(storage, session.order.maker, for)
  /\ mine' = Saved(session.order.hash, [session.trade EXCEPT !.status = "failed"])
  /\ session' = Idle
  /\ outsideUnchanged /\ pageUnchanged /\ UNCHANGED <<orders, talkVars, tab, serial, left>>
BuyUnanswered ==                     \* 45 s: the trade stays pending
  /\ session.pc = "buyAnswer" /\ ~Answered(session.order.id)
  /\ storage' = Skipped(storage, session.order.maker, LongSkip) /\ session' = Idle
  /\ outsideUnchanged /\ pageUnchanged /\ UNCHANGED <<orders, talkVars, tab, mine, serial, left>>

---------------------------------------------------------------------------
(* Selling                                                                  *)

SellClicked(csd) ==
  /\ session.pc = "idle" /\ Spend("sells") /\ Routes(tab.market, "sell", csd) # {}
  /\ session' = [pc |-> "sellLoad", csd |-> csd,
                 preview |-> BestRoutes(tab.market, "sell", csd)[1].usdc]
  /\ outsideUnchanged /\ pageUnchanged /\ UNCHANGED <<orders, talkVars, storage, tab, mine, serial>>

MinOut == (session.preview * 995) \div 1000
SellCandidates ==                    \* best first: those that still pay enough lead
  LET best   == BestRoutes(tab.market, "sell", session.csd)
      enough == {i \in DOMAIN best : best[i].usdc >= MinOut}
  IN  SubSeq(best, 1, Min({3, Cardinality(enough)}))
SellPossible == /\ ~MarketFull(session.preview + ExecutorFee) /\ SellCandidates # << >>
                /\ Worth(tab.coins) >= session.csd + CsdFee

SellRefused == /\ session.pc = "sellRoute" /\ ~SellPossible /\ session' = Idle
               /\ outsideUnchanged /\ pageUnchanged /\ UNCHANGED <<orders, talkVars, storage, tab, mine, serial, left>>

(* The request names the coins the sale will be paid with *)
SellPrepared ==
  /\ session.pc = "sellRoute" /\ SellPossible
  /\ session' = [pc |-> "sellPut", csd |-> session.csd, minOut |-> MinOut,
                 makers |-> [i \in DOMAIN SellCandidates |-> SellCandidates[i].maker],
                 coins |-> Picked(tab.coins, session.csd + CsdFee)]
  /\ outsideUnchanged /\ pageUnchanged /\ UNCHANGED <<orders, talkVars, storage, tab, mine, serial, left>>

SellRequested ==
  /\ session.pc = "sellPut"
  /\ requests' = requests \cup {[id |-> serial, maker |-> Head(session.makers), csd |-> session.csd,
                                 minOut |-> session.minOut]}
  /\ session' = Put([session EXCEPT !.pc = "sellAnswer"], "id", serial)
  /\ serial' = serial + 1
  /\ outsideUnchanged /\ pageUnchanged
  /\ UNCHANGED <<orders, replies, handed, storage, tab, mine, left>>

(* The wallet or a node fails before anything is at stake *)
SellFails ==
  /\ session.pc \in {"sellPut", "sellCheck"} /\ Spend("faults") /\ session' = Idle
  /\ outsideUnchanged /\ pageUnchanged /\ UNCHANGED <<orders, talkVars, storage, tab, mine, serial>>

SellAccepted ==
  /\ session.pc = "sellAnswer" /\ Answered(session.id) /\ replies[session.id].accepted
  /\ session' = Put([session EXCEPT !.pc = "sellCheck"], "answer", replies[session.id])
  /\ outsideUnchanged /\ pageUnchanged /\ UNCHANGED <<orders, talkVars, storage, tab, mine, serial, left>>

(* A decline, or 20 s of silence: the next maker, if there is one *)
SellNotAccepted ==
  /\ session.pc = "sellAnswer"
  /\ Answered(session.id) => ~replies[session.id].accepted
  /\ \E for \in SkipFor(session.id) : storage' = Skipped(storage, Head(session.makers), for)
  /\ session' = IF Len(session.makers) = 1 THEN Idle
                ELSE [session EXCEPT !.pc = "sellPut", !.makers = Tail(@)]
  /\ outsideUnchanged /\ pageUnchanged /\ UNCHANGED <<orders, talkVars, tab, mine, serial, left>>

AnswerGood(a) == a.honest /\ a.usdc >= session.minOut /\ a.conf <= MaxConf
SaleTrade(a, tx, released, status) ==
  [side |-> "sell", status |-> status, at |-> clock, csd |-> session.csd, maker |-> a.maker,
   tx |-> tx, releaseTx |-> released, receipt |-> FALSE]
NotPaid == {}

SellChecked ==
  /\ session.pc = "sellCheck"
  /\ IF AnswerGood(session.answer)
     THEN /\ mine' = Saved(session.answer.hash, SaleTrade(session.answer, NotPaid, FALSE, "pending"))
          /\ Goto("sellWait")
     ELSE session' = Idle /\ UNCHANGED mine
  /\ outsideUnchanged /\ pageUnchanged /\ UNCHANGED <<orders, talkVars, storage, tab, serial, left>>

IsLocked(h) == h \in DOMAIN locks /\ locks[h].state = "locked"
AnyLock(h) == IsLocked(h)            \* fault: the time left on the lock is not looked at
LongEnough(h) == IsLocked(h) /\ locks[h].until - clock > ClaimTime

SellLockSeen ==
  /\ session.pc = "sellWait" /\ LongEnough(session.answer.hash) /\ Goto("sellPay")
  /\ outsideUnchanged /\ pageUnchanged /\ UNCHANGED <<orders, talkVars, storage, tab, mine, serial, left>>

(* No lock after two minutes, or one that only its maker could settle: nothing is sent *)
SellGivesUp ==
  /\ \/ session.pc = "sellWait" /\ ~LongEnough(session.answer.hash)
     \/ session.pc = "sellPay" /\ ~locks[session.answer.hash].direct
  /\ session' = Idle
  /\ outsideUnchanged /\ pageUnchanged /\ UNCHANGED <<orders, talkVars, storage, tab, mine, serial, left>>

(* The payment is signed and saved before it is handed over *)
SellSigned ==
  /\ session.pc = "sellPay" /\ locks[session.answer.hash].direct
  /\ LET a == session.answer
         t == Payment(serial, session.coins, SaleAddr(a.hash), session.csd)
     IN  /\ mine' = Saved(a.hash, SaleTrade(a, {t}, FALSE, "pending"))
         /\ session' = Put([session EXCEPT !.pc = "sellHand"], "tx", t)
  /\ serial' = serial + 1
  /\ outsideUnchanged /\ pageUnchanged /\ UNCHANGED <<orders, talkVars, storage, tab, left>>

SellHanded ==                        \* on AON; an error is swallowed
  /\ session.pc = "sellHand" /\ Goto("sellSubmit")
  /\ \/ handed' = handed \cup {session.answer.hash} /\ UNCHANGED left
     \/ handed' = handed /\ Spend("faults")
  /\ outsideUnchanged /\ pageUnchanged
  /\ UNCHANGED <<orders, requests, replies, storage, tab, mine, serial>>

SellSubmitted ==
  /\ session.pc = "sellSubmit"
  /\ LET a == session.answer  t == session.tx
         released == a.hash \in handed /\ locks[a.hash].state = "released"
         coins == {c \in tab.coins : c.tx \notin {u.tx : u \in t.ins}}
     IN  /\ \/ csdTxs' = Submitted(t) /\ UNCHANGED left
            \/ UNCHANGED csdTxs /\ Spend("faults")
         /\ tab' = [tab EXCEPT !.coins = coins]
         /\ mine' = Arrived(Put(mine, a.hash, SaleTrade(a, {t}, released, "pending")), coins)
  /\ Goto("sellDone")
  /\ pageUnchanged /\ UNCHANGED <<clock, marketVars, locks, mined, talkVars, storage, serial>>

Final(h) == h \in DOMAIN locks /\ locks[h].state \in {"settled", "released"}
SellDone ==
  /\ session.pc = "sellDone" /\ session' = Idle
  /\ LET a == session.answer IN
     mine' = IF Final(a.hash)
             THEN Saved(a.hash, SaleTrade(a, {session.tx}, mine[a.hash].releaseTx, "done")) ELSE mine
  /\ outsideUnchanged /\ pageUnchanged /\ UNCHANGED <<orders, talkVars, storage, tab, serial, left>>

---------------------------------------------------------------------------
(* Claiming a sale and refunding a buy                                      *)

ClaimOffered(h) == /\ mine[h].side = "sell" /\ mine[h].status = "pending" /\ mine[h].tx # NotPaid
                   /\ clock - mine[h].at > ClaimAfter
PaidInBlock(h) == \E t \in csdTxs : t.to = SaleAddr(h) /\ t.id \in DOMAIN mined

(* The payment is submitted again; the wallet refuses a call that would revert *)
ClaimClicked(h) ==
  /\ session.pc = "idle" /\ ClaimOffered(h)
  /\ \E t \in mine[h].tx : csdTxs' = Submitted(t)
  /\ session' = IF PaidInBlock(h) /\ IsLocked(h) THEN [pc |-> "claimSent", hash |-> h, trade |-> mine[h]]
                ELSE Idle
  /\ pageUnchanged
  /\ UNCHANGED <<clock, marketVars, locks, mined, talkVars, storage, tab, mine, serial, left>>

SeenRefundOffered(h) ==              \* fault: only once the page has seen the lock
  /\ mine[h].side = "buy" /\ mine[h].status = "pending"
  /\ mine[h].lockedUntil > 0 /\ clock > mine[h].lockedUntil
RefundOffered(h) ==
  /\ mine[h].side = "buy" /\ mine[h].status = "pending"
  /\ IF mine[h].lockedUntil > 0 THEN clock > mine[h].lockedUntil ELSE clock - mine[h].at > RefundAfter
Expired(h) == IsLocked(h) /\ clock > locks[h].until

RefundClicked(h) ==
  /\ session.pc = "idle" /\ RefundOffered(h) /\ Expired(h)
  /\ session' = [pc |-> "refundSent", hash |-> h, trade |-> mine[h]]
  /\ outsideUnchanged /\ pageUnchanged /\ UNCHANGED <<orders, talkVars, storage, tab, mine, serial, left>>

(* The transaction is in a block: it did what it says, or it reverted, because *)
(* someone else was first or for another reason, or the wallet put another in  *)
(* its place. The page does not look which. The wait may also fail before the  *)
(* page knows: then it saves nothing, whatever the transaction does.           *)
SentMined(pc, state, status) ==
  /\ session.pc = pc /\ session' = Idle
  /\ LET h     == session.hash
         done  == IF IsLocked(h) THEN [locks EXCEPT ![h].state = state] ELSE locks
         ended == Saved(h, [session.trade EXCEPT !.status = status, !.releaseTx = TRUE])
     IN  \/ locks' = done /\ mine' = ended /\ UNCHANGED left
         \/ locks' = locks /\ mine' = ended /\ Spend("faults")
         \/ locks' \in {locks, done} /\ mine' = mine /\ Spend("faults")
  /\ pageUnchanged
  /\ UNCHANGED <<clock, marketVars, csdVars, talkVars, storage, tab, serial>>
ClaimMined == SentMined("claimSent", "settled", "done")
RefundMined == SentMined("refundSent", "refunded", "failed")

---------------------------------------------------------------------------
(* Following trades: each loop reads a trade, awaits, and saves what it read  *)

Following(h, t) ==
  /\ late.pc = "idle" /\ late' = [pc |-> "saving", hash |-> h, trade |-> t]
  /\ UNCHANGED <<clock, marketVars, locks, mined, talkVars, storage, tab, load, mine, session, scan, serial, left>>

(* A buy that failed can still be locked: its permit was public *)
FollowFailedBuy(h) ==
  LET t == mine[h] IN
  /\ t.side = "buy" /\ t.status = "failed" /\ ~t.releaseTx /\ t.expires > clock - FollowFor
  /\ IsLocked(h)
  /\ Following(h, [t EXCEPT !.status = "pending", !.lockedUntil = locks[h].until])
  /\ UNCHANGED csdTxs

FollowedOpen(t) == /\ ~t.receipt /\ t.status # "failed" /\ clock - t.at < FollowFor
                   /\ t.side = "sell" => t.tx # NotPaid
FollowSale(h) ==
  LET t == mine[h] IN
  /\ t.side = "sell" /\ FollowedOpen(t) /\ t.status = "pending" /\ Final(h)
  /\ Following(h, [t EXCEPT !.status = "done"])
  /\ UNCHANGED csdTxs
ReceiptsOf(h, maker) == {r \in receipts : r.hash = h /\ r.signer = maker}
FollowReceipt(h) ==
  LET t == mine[h] IN
  /\ FollowedOpen(t) /\ (t.side = "buy" \/ t.status = "done")
  /\ ReceiptsOf(h, t.maker) # {}
  /\ Following(h, [t EXCEPT !.receipt = TRUE])
  /\ UNCHANGED csdTxs

(* The maker's payment counts as unconfirmed once the CSD network takes it *)
BuyPayments(h, maker) == {p \in payments : p.hash = h /\ p.signer = maker}
LooksReal(tx, to, csd) == tx.to = to /\ tx.value >= csd /\ Takes(tx)
WatchPayment(h) ==
  LET t == mine[h] IN
  /\ t.side = "buy" /\ t.status = "pending" /\ ~t.unconfirmed
  /\ \E p \in BuyPayments(h, t.maker) : LooksReal(p.tx, t.addr, t.csd) /\ csdTxs' = Submitted(p.tx)
  /\ Following(h, [t EXCEPT !.unconfirmed = TRUE])

LateSave ==
  /\ late.pc = "saving" /\ late' = Idle /\ mine' = Saved(late.hash, late.trade)
  /\ UNCHANGED <<clock, marketVars, locks, csdVars, talkVars, storage, tab, load, session, scan, serial, left>>

(* Closing the tab loses what was under way; a call already sent may arrive *)
Reload ==
  /\ Spend("reloads")
  /\ IF session.pc = "buyPut" THEN orders' \in {orders, orders \cup {session.order}} ELSE UNCHANGED orders
  /\ IF session.pc = "sellHand" THEN handed' \in {handed, handed \cup {session.answer.hash}} ELSE UNCHANGED handed
  /\ session' = Idle /\ load' = Idle /\ scan' = Idle /\ late' = Idle /\ tab' = NewTab(storage.next)
  /\ UNCHANGED <<clock, offers, receipts, payments, locks, csdVars, requests, replies, storage, mine, serial>>

---------------------------------------------------------------------------
(* Market makers, the settlement contract, the CSD network, time (external)  *)

Tick == /\ Spend("ticks") /\ clock' = clock + 1
        /\ session.pc \notin {"sellPay", "sellHand"}   \* seconds pass there, not minutes
        /\ UNCHANGED <<marketVars, locks, csdVars, talkVars, pageVars, serial>>

OnAon == /\ serial' = serial + 1 /\ UNCHANGED <<clock, csdVars, pageVars>>

OffersOf(m, side) == {o \in offers : Signed(o) /\ o.maker = m /\ o.side = side}
PublishOffer(m, pool) ==
  /\ Spend("offers")
  /\ \E side \in left.sides :
       LET last == OffersOf(m, side)
           o    == NewestOf(last) IN
       /\ last # {} /\ clock > o.at
       /\ offers' = offers \cup {[o EXCEPT !.id = serial, !.at = clock, !.replaces = o.id, !.pool = pool]}
  /\ OnAon /\ UNCHANGED <<receipts, payments, orders, locks, talkVars>>

(* Anyone can publish an offer in a maker's name *)
PublishLookalike ==
  /\ Spend("lookalikes")
  /\ \E o \in offers : offers' = offers \cup {[o EXCEPT !.id = serial, !.at = clock + Slack,
                                                       !.signer = "anyone", !.replaces = o.id]}
  /\ OnAon /\ UNCHANGED <<receipts, payments, orders, locks, talkVars>>

OthersTrade(buyer, recipient, state) ==
  /\ Spend("others")
  /\ locks' = Put(locks, serial, [buyer |-> buyer, recipient |-> recipient, usdc |-> 1, csd |-> 1,
                                 addr |-> SaleAddr(serial), state |-> state, until |-> clock, direct |-> TRUE])
  /\ OnAon /\ UNCHANGED <<marketVars, talkVars>>

(* A receipt of a trade, or of the same numbers over another transaction *)
PublishReceipt(h, signer, tx) ==
  /\ Spend("receipts") /\ locks[h].state \in {"settled", "released"}
  /\ receipts' = receipts \cup {[id |-> serial, signer |-> signer, at |-> clock, tx |-> tx, hash |-> h,
                                 buyer |-> locks[h].buyer, recipient |-> locks[h].recipient,
                                 usdc |-> locks[h].usdc, csd |-> locks[h].csd]}
  /\ OnAon /\ UNCHANGED <<offers, payments, orders, locks, talkVars>>

AnswerOrder(o, yes) ==
  /\ Can("answer") /\ o.id \notin DOMAIN replies
  /\ replies' = Put(replies, o.id, [accepted |-> yes])
  /\ OnAon /\ UNCHANGED <<marketVars, locks, requests, handed, left>>

AnswerRequest(r) ==
  /\ Can("answer") /\ r.id \notin DOMAIN replies
  /\ \E usdc \in {r.minOut - 1, r.minOut}, conf \in {1, MaxConf + 1}, honest \in BOOLEAN :
       /\ IF usdc = r.minOut /\ conf = 1 /\ honest THEN UNCHANGED left ELSE Spend("lies")
       /\ replies' = Put(replies, r.id, [accepted |-> TRUE, hash |-> serial, maker |-> r.maker, csd |-> r.csd,
                                        usdc |-> usdc, conf |-> conf, honest |-> honest])
  /\ OnAon /\ UNCHANGED <<marketVars, locks, requests, handed>>
DeclineRequest(r) ==
  /\ Can("answer") /\ r.id \notin DOMAIN replies
  /\ replies' = Put(replies, r.id, [accepted |-> FALSE])
  /\ OnAon /\ UNCHANGED <<marketVars, locks, requests, handed, left>>

Locking(h, lock) ==
  /\ h \notin DOMAIN locks /\ TotalLocked + lock.usdc <= MaxTotalLocked
  /\ locks' = Put(locks, h, lock)
  /\ UNCHANGED <<clock, marketVars, csdVars, talkVars, pageVars, serial>>

(* One open lock per CSD address; the permit must still be good *)
LockBuy(o) ==
  /\ Can("lock") /\ clock <= o.deadline
  /\ \A h \in DOMAIN locks : locks[h].state = "locked" => locks[h].addr # o.addr
  /\ Locking(o.hash, [buyer |-> Me, recipient |-> o.maker, usdc |-> o.usdc, csd |-> o.csd, addr |-> o.addr,
                      state |-> "locked", until |-> clock + LockTime, direct |-> TRUE])
  /\ UNCHANGED left
LockSale(r, direct, for) ==
  /\ Can("lock") /\ Answered(r.id) /\ replies[r.id].accepted
  /\ IF direct /\ for = SaleLockTime THEN UNCHANGED left ELSE Spend("lies")
  /\ Locking(replies[r.id].hash,
       [buyer |-> r.maker, recipient |-> Me, usdc |-> replies[r.id].usdc + ExecutorFee, csd |-> r.csd,
        addr |-> SaleAddr(replies[r.id].hash), state |-> "locked", until |-> clock + for, direct |-> direct])

SomebodyElse == MaxKeys              \* an address that is not among the user's
(* A maker pays the order, or less than it asks for, or pays somebody else *)
PublishPayment(o) ==
  /\ Can("pay") /\ \A p \in payments : p.hash # o.hash
  /\ \E value \in {o.csd, o.csd - 1} \ {0}, to \in {o.addr, SomebodyElse} :
       /\ IF value = o.csd /\ to = o.addr THEN UNCHANGED left ELSE Spend("lies")
       /\ payments' = payments \cup
            {[id |-> serial, signer |-> o.maker, at |-> clock, hash |-> o.hash, refers |-> o.id,
              tx |-> [id |-> serial, ins |-> {}, to |-> to, value |-> value, change |-> 0]]}
  /\ OnAon /\ UNCHANGED <<offers, receipts, orders, locks, talkVars>>

CsdUnchanged == UNCHANGED <<clock, marketVars, talkVars, pageVars, serial, left>>
Broadcast(p) == Can("pay") /\ p.tx \notin csdTxs /\ csdTxs' = csdTxs \cup {p.tx} /\ CsdUnchanged /\ UNCHANGED <<locks, mined>>
MineTx(t) == t.id \notin DOMAIN mined /\ mined' = Put(mined, t.id, clock) /\ CsdUnchanged /\ UNCHANGED <<locks, csdTxs>>

BecomesFinal(h, state) == locks' = [locks EXCEPT ![h].state = state] /\ CsdUnchanged /\ UNCHANGED csdVars
Delivered(h) ==
  \E t \in csdTxs : t.id \in DOMAIN mined /\ t.to = locks[h].addr /\ t.value >= locks[h].csd
PaymentSeen(h) == h \in handed \/ \E t \in csdTxs : t.to = SaleAddr(h)
Prove(h) == Can("settle") /\ IsLocked(h) /\ Delivered(h) /\ BecomesFinal(h, "settled")
ReleaseSale(h) == /\ Can("release") /\ IsLocked(h) /\ locks[h].recipient = Me /\ PaymentSeen(h)
                  /\ BecomesFinal(h, "released")
MakerRefunds(h) == Can("lock") /\ Expired(h) /\ locks[h].recipient = Me /\ BecomesFinal(h, "refunded")

---------------------------------------------------------------------------
Buy  == \/ \E csd \in left.buyAmounts : BuyClicked(csd)
        \/ BuyRefused \/ BuyPrepared \/ BuyPublished \/ BuyNotPublished
        \/ BuyAccepted \/ BuyDeclined \/ BuyUnanswered
Sell == \/ \E csd \in left.sellAmounts : SellClicked(csd)
        \/ SellRefused \/ SellPrepared \/ SellRequested \/ SellFails \/ SellAccepted \/ SellNotAccepted
        \/ SellChecked \/ SellLockSeen \/ SellGivesUp \/ SellSigned \/ SellHanded \/ SellSubmitted \/ SellDone
ClaimAndRefund == \/ \E h \in DOMAIN mine : ClaimClicked(h) \/ RefundClicked(h)
                  \/ ClaimMined \/ RefundMined
Follow == \/ \E h \in DOMAIN mine : FollowFailedBuy(h) \/ FollowSale(h) \/ FollowReceipt(h) \/ WatchPayment(h)
          \/ LateSave
Market == TimerLoads \/ SessionLoads \/ LoadReads \/ LoadEnds
Wallet == ScanStarts \/ ScanEnds \/ \E v \in left.sellAmounts : SendCsd(v)
MakersAct ==
  \/ \E m \in Makers, pool \in left.pools : PublishOffer(m, pool)
  \/ PublishLookalike
  \/ \E b, r \in left.parties, state \in {"settled", "released"} : OthersTrade(b, r, state)
  \/ \E h, tx \in DOMAIN locks, m \in Makers \cap left.parties : PublishReceipt(h, m, tx)
  \/ \E o \in orders : (\E yes \in BOOLEAN : AnswerOrder(o, yes)) \/ LockBuy(o) \/ PublishPayment(o)
  \/ \E r \in requests : \/ AnswerRequest(r) \/ DeclineRequest(r)
                         \/ \E direct \in BOOLEAN, for \in {ClaimTime, SaleLockTime} : LockSale(r, direct, for)
ChainsAct == \/ \E p \in payments : Broadcast(p)
             \/ \E t \in csdTxs : MineTx(t)
             \/ \E h \in DOMAIN locks : Prove(h) \/ ReleaseSale(h) \/ MakerRefunds(h)

Next == Buy \/ Sell \/ ClaimAndRefund \/ Follow \/ Market \/ Wallet \/ Reload \/ MakersAct \/ ChainsAct \/ Tick

(* Time passes, the page's loops run, and the user takes a refund that is    *)
(* offered and would go through.                                             *)
Fairness == /\ WF_vars(Tick) /\ WF_vars(LateSave) /\ WF_vars(RefundMined)
            /\ WF_vars(\E h \in DOMAIN mine : FollowFailedBuy(h))
            /\ WF_vars(\E h \in DOMAIN mine : RefundClicked(h))
Spec == Init /\ [][Next]_vars /\ Fairness

---------------------------------------------------------------------------
(* Every part of the state has its shape; the address counter never falls to *)
(* the change address, which is where coins come back.                       *)
TypeOK ==
  /\ clock \in Nat /\ serial \in Nat /\ storage.next \in Nat \ {0}
  /\ DOMAIN storage.provenAt \cup DOMAIN storage.avoid \subseteq Makers
  /\ DOMAIN tab.market.makers \subseteq Makers
  /\ \A h \in DOMAIN mine : mine[h].side \in {"buy", "sell"} /\ mine[h].status \in {"pending", "done", "failed"}
  /\ \A h \in DOMAIN locks : locks[h].state \in {"locked", "settled", "released", "refunded"}
  /\ DOMAIN mined \subseteq {t.id : t \in csdTxs}
  /\ \A t \in csdTxs : t.value > 0 /\ t.change >= 0
  /\ load.pc \in {"idle", "hints", "walk", "list", "rest"}
  /\ late.pc \in {"idle", "saving"} /\ scan.pc \in {"idle", "reading"}

(* No trade at a quoted price lowers the product of a pool's two sides, a     *)
(* round trip through a pool never gains, csdForUsdc is the most that the     *)
(* money buys and csdToSellFor the least that brings it, and the ladder's     *)
(* asks lie at or above its bids (csd/pool.ts, for every offer on the page).  *)
PoolNeverLoses ==
  \A m \in DOMAIN tab.market.makers : \A o \in tab.market.makers[m].offers : LET p == o.pool IN
    /\ BuysNeverGain(p, 1..p.csd) /\ SalesNeverGain(p, 1..p.csd)
    /\ \A usdc \in 1..p.usdc :
         /\ LET x == CsdForUsdc(p, usdc) IN
            (x > 0 => QuoteBuy(p, x) <= usdc) /\ (CanBuy(p, x + 1) => QuoteBuy(p, x + 1) > usdc)
         /\ CanSellFor(p, usdc) => LET x == CsdToSellFor(p, usdc) IN
              QuoteSell(p, x) >= usdc /\ QuoteSell(p, x - 1) < usdc
    /\ LET asks == Asks(p, 2, 2)  bids == Bids(p, 2, 2) IN
         \A i \in DOMAIN asks, j \in DOMAIN bids : asks[i].price >= bids[j].price

(* When a load has read what it reads, it holds an offer at least as new as   *)
(* every valid offer that stood when it began and was either within the       *)
(* listing or within reach of a hint it followed, however many were published *)
(* meanwhile. A walk passes over look-alikes as long as fewer of them than it *)
(* looks at name the same offer (allOffers).                                   *)
Between(h, o) == {p \in OffersOf(o.maker, o.side) : Newer(p, h) /\ ~Newer(p, o)}
Lookalikes(p) ==
  {x \in offers : x.replaces = p.id /\ x.maker = p.maker /\ x.side = p.side /\ ~Signed(x)}
Listed(o) == Cardinality({p \in offers : Newer(p, o)}) < PageSize * OfferPages
Reached(h, o) ==
  /\ h \in OffersOf(o.maker, o.side) /\ (Newer(h, o) => Fresh(h, load.now))
  /\ Cardinality(Between(h, o)) < MaxHops
  /\ \A p \in ({h} \cup Between(h, o)) \ {o} : Cardinality(Lookalikes(p)) < MaxCandidates
Linked(o) == \E h \in load.began.offers : h.id \in load.began.hints /\ Reached(h, o)
Found(o) == \E c \in load.out : c.maker = o.maker /\ c.side = o.side /\ ~Newer(o, c)
NewestOffersFound ==
  load.pc = "rest" =>
    \A o \in load.began.offers :
      Signed(o) /\ Fresh(o, load.now) /\ (Listed(o) \/ Linked(o)) => Found(o)

(* A maker the page does not list counts as proven only if a trade of its own  *)
(* with somebody else was settled with a proof on Ethereum, whoever publishes  *)
(* receipts, and also from one visit to the next (realReceipt, provenBefore).  *)
ProvenMakersSettled ==
  \A m \in DOMAIN storage.provenAt \cup {m \in DOMAIN tab.market.makers : tab.market.makers[m].proven} :
    m \in Known \/ \E h \in DOMAIN locks : /\ locks[h].state = "settled"
                                           /\ m \in {locks[h].buyer, locks[h].recipient}
                                           /\ locks[h].buyer # locks[h].recipient

(* Every recent trade the page found itself happened: paid out on Ethereum, or *)
(* locked there and the payment its maker published for it, of the agreed CSD  *)
(* at least, in a block at the buyer's address, whatever became of it since.   *)
(* The known maker's own list, of which nothing of this is known, is shown     *)
(* only where the page found no trade, never beside one (loadMarket, recent).  *)
DeliveredFor(h) ==
  \E p \in payments : /\ p.hash = h /\ p.signer = locks[h].recipient /\ p.tx.id \in DOMAIN mined
                      /\ p.tx.to = locks[h].addr /\ p.tx.value >= locks[h].csd
RecentTradesHappened ==
  \A r \in tab.market.recent :
    IF r.hash = NoTrade THEN tab.market.recent = {r}
    ELSE r.hash \in DOMAIN locks /\ (WasPaidOut(r.hash) \/ DeliveredFor(r.hash))

(* A seller's CSD payment leaves the browser only against a lock that anyone   *)
(* can settle, with time to claim; and from then on the saved trade holds the  *)
(* payment a claim needs, reloads and late saves included.                     *)
PaymentsStayClaimable ==
  /\ \A h \in DOMAIN locks : locks[h].recipient = Me /\ PaymentSeen(h) =>
       /\ h \in DOMAIN mine /\ locks[h].direct
       /\ \A t \in csdTxs : t.to = SaleAddr(h) => mine[h].tx = {t}
       /\ mine[h].tx # NotPaid
  /\ \A t \in csdTxs : t.to < 0 /\ t.to # SaleAddr(t.id) => SaleAddr(t.to) \in DOMAIN locks
  /\ session.pc = "sellHand" => LongEnough(session.answer.hash)

(* A buy in the user's list whose USDC is locked does not stay locked for ever *)
(* without its CSD: declined, unanswered or accepted, paid in part or to        *)
(* somebody else, it ends in a delivery or a refund (buy, refund and the loop   *)
(* that follows failed buys). Two kinds of buy have no such promise: one whose  *)
(* refund the page took for done although its transaction did nothing, and one  *)
(* whose address also received another payment, which the page takes for its    *)
(* own. It is said of locks that the bounded clock can outlast.                 *)
SessionsEnd == []<>(session.pc = "idle")
Outlasted(h) == clock + left.ticks > Max({locks[h].until, mine[h].at + RefundAfter})
SharesAddress(h) == \E t \in csdTxs : t.to = mine[h].addr /\ \A p \in payments : p.tx = t => p.hash # h
Stranded ==
  {h \in DOMAIN mine : /\ mine[h].side = "buy" /\ IsLocked(h) /\ ~DeliveredFor(h)
                       /\ ~mine[h].releaseTx /\ ~SharesAddress(h) /\ Outlasted(h)}
LockedBuysEnd == SessionsEnd => Stranded # {} ~> Stranded = {}

(* "Each buy receives on a fresh address" (csd/useCsdWallet.ts:7).            *)
EveryBuyFresh == \A o, p \in orders : o # p => o.addr # p.addr
=============================================================================
