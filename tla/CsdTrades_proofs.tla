--------------------------- MODULE CsdTrades_proofs ---------------------------
(***************************************************************************)
(* Proofs about the CSD page, for every market, every scenario and every    *)
(* sequence of trades, loops, reloads, failed reads and lies of makers that  *)
(* CsdTrades allows: what a seller has paid stays claimable, what the page   *)
(* shows of the market is true, a market load finds every maker's newest     *)
(* offer, the prices of csd/pool.ts favour the pool and its searches are     *)
(* exact, and the whole state keeps its shape. Like the model they speak of  *)
(* one tab, and of a list of trades that is never full (100,                 *)
(* app/csd/page.tsx:440).                                                    *)
(***************************************************************************)
EXTENDS CsdTrades, FunctionSums, FiniteSetTheorems, WellFoundedInduction, TLAPS

-----------------------------------------------------------------------------
(***************************************************************************)
(* The invariant.                                                           *)
(***************************************************************************)
BuyFields == {"side", "status", "at", "csd", "addr", "maker", "expires", "lockTx",
              "lockedUntil", "releaseTx", "unconfirmed", "receipt"}
SaleFields == {"side", "status", "at", "csd", "maker", "tx", "releaseTx", "receipt"}
LockFields == {"buyer", "recipient", "usdc", "csd", "addr", "state", "until", "direct"}

\* A number given to an object.
Name(n) == n \in Nat /\ 0 < n /\ n < serial

\* A reply that agrees to a sale names its authorization, and h is one of those.
Agrees(i) == "hash" \in DOMAIN replies[i]
IsSale(h) == \E i \in DOMAIN replies : Agrees(i) /\ replies[i].hash = h

\* A trade as it is kept, and what a copy of it that is still to be saved must
\* share with it.
TradeShape(t) == \/ t.side = "buy" /\ DOMAIN t = BuyFields
                 \/ t.side = "sell" /\ DOMAIN t = SaleFields
KeptTrade(h, t) ==
  /\ h \in DOMAIN mine
  /\ DOMAIN t = DOMAIN mine[h] /\ t.side = mine[h].side
  /\ t.side = "sell" => t.tx = mine[h].tx /\ t.tx # NotPaid

\* A sale whose payment is signed and saved, against a lock open to anybody.
SignedSale(h) ==
  /\ h \in DOMAIN mine /\ mine[h].side = "sell" /\ mine[h].tx # NotPaid
  /\ h \in DOMAIN locks /\ locks[h].direct
  /\ \A t \in mine[h].tx : mine[h].tx = {t} /\ t.to = SaleAddr(h)

ClockInv == clock \in Nat /\ serial \in Nat \ {0}
CounterInv ==
  /\ "next" \in DOMAIN storage /\ storage.next \in Nat
  /\ "nextIndex" \in DOMAIN tab /\ tab.nextIndex \in Nat
  /\ scan.pc = "reading" => scan.next \in Nat

OrderInv(o) ==
  /\ o.id = o.hash /\ Name(o.hash) /\ o.addr \in Nat
  /\ ~IsSale(o.hash)
  /\ \A r \in requests : r.id # o.hash
  /\ \A t \in csdTxs : t.to # SaleAddr(o.hash)
OrdersInv ==
  /\ \A o \in orders : OrderInv(o)
  /\ \A p \in payments : p.tx.to \in Nat

RepliesInv ==
  /\ \A r \in requests : Name(r.id)
  /\ \A i \in DOMAIN replies :
       /\ Name(i)
       /\ replies[i].accepted /\ (\E r \in requests : r.id = i) => Agrees(i)
       /\ Agrees(i) => Name(replies[i].hash) /\ i < replies[i].hash

LocksInv ==
  \A h \in DOMAIN locks :
    /\ Name(h) /\ DOMAIN locks[h] = LockFields /\ locks[h].until \in Int
    /\ IsSale(h) => locks[h].addr = SaleAddr(h)

\* A transaction of a negative address pays a sale, or is one of the wallet's own.
TxInv ==
  \A t \in csdTxs :
    /\ t.to \in Int
    /\ t.to < 0 => \/ SignedSale(SaleAddr(t.to)) /\ mine[SaleAddr(t.to)].tx = {t}
                   \/ /\ t.to = SaleAddr(t.id) /\ Name(t.id)
                      /\ ~IsSale(t.id) /\ t.id \notin DOMAIN locks

HandedInv == \A h \in handed : SignedSale(h)

MineInv ==
  \A h \in DOMAIN mine :
    /\ Name(h) /\ TradeShape(mine[h])
    /\ mine[h].side = "sell" <=> IsSale(h)
    /\ mine[h].side = "sell" /\ mine[h].tx # NotPaid => SignedSale(h)

LateInv == late.pc \in {"idle", "saving"} /\ (late.pc = "saving" => KeptTrade(late.hash, late.trade))

\* A load the session waits for.
LoadInv ==
  load.pc # "idle" => /\ "by" \in DOMAIN load
                      /\ load.by # "timer" => session.pc \in {"buyLoad", "sellLoad"}

\* The sale being worked on: agreed, saved without its payment, paid.
Agreed(h) == IsSale(h) /\ h \notin DOMAIN mine
Saving(h) == h \in DOMAIN mine /\ mine[h].side = "sell" /\ mine[h].tx = NotPaid
Paying(h, t) == SignedSale(h) /\ mine[h].tx = {t}
Unsent(h) == h \notin handed /\ \A t \in csdTxs : t.to # SaleAddr(h)

SessionInv ==
  /\ "pc" \in DOMAIN session
  /\ session.pc = "buyPut" =>
       OrderInv(session.order) /\ session.order.hash \notin DOMAIN mine
  /\ session.pc = "buyAnswer" =>
       /\ session.order.hash \in DOMAIN mine /\ mine[session.order.hash].side = "buy"
       /\ DOMAIN session.trade = BuyFields /\ session.trade.side = "buy"
  /\ session.pc = "sellAnswer" =>
       /\ \E r \in requests : r.id = session.id
       /\ \A h \in DOMAIN mine : h < session.id
  /\ session.pc \in {"sellCheck", "sellWait", "sellPay", "sellHand", "sellSubmit", "sellDone"} =>
       "answer" \in DOMAIN session
  /\ session.pc = "sellCheck" => Agreed(session.answer.hash)
  /\ session.pc \in {"sellWait", "sellPay"} => Saving(session.answer.hash)
  /\ session.pc = "sellPay" => LongEnough(session.answer.hash)
  /\ session.pc = "sellHand" =>
       LongEnough(session.answer.hash) /\ Unsent(session.answer.hash)
  /\ session.pc \in {"sellHand", "sellSubmit", "sellDone"} =>
       "tx" \in DOMAIN session /\ Paying(session.answer.hash, session.tx)
  /\ session.pc \in {"claimSent", "refundSent"} => KeptTrade(session.hash, session.trade)

TradesInv ==
  /\ ClockInv /\ CounterInv /\ OrdersInv /\ RepliesInv /\ LocksInv /\ TxInv
  /\ HandedInv /\ MineInv /\ LateInv /\ LoadInv /\ SessionInv

-----------------------------------------------------------------------------
(***************************************************************************)
(* Tables, and the trades of this browser.                                  *)
(***************************************************************************)
\* What a table holds after an entry is put into it.
LEMMA PutAt ==
  ASSUME NEW f, NEW k, NEW v
  PROVE  /\ DOMAIN Put(f, k, v) = DOMAIN f \cup {k}
         /\ Put(f, k, v)[k] = v
         /\ \A x \in DOMAIN f : x # k => Put(f, k, v)[x] = f[x]
  BY DEF Put

\* Trades of before are still there, and what is signed stays signed.
TradesKept(old, new) ==
  /\ DOMAIN old \subseteq DOMAIN new
  /\ \A h \in DOMAIN old :
       /\ DOMAIN new[h] = DOMAIN old[h] /\ new[h].side = old[h].side
       /\ old[h].side = "sell" /\ old[h].tx # NotPaid => new[h].tx = old[h].tx

\* The same trades, as far as the invariant looks at them.
SameTrades(old, new) ==
  /\ DOMAIN new = DOMAIN old
  /\ \A h \in DOMAIN old :
       /\ DOMAIN new[h] = DOMAIN old[h] /\ new[h].side = old[h].side
       /\ old[h].side = "sell" => new[h].tx = old[h].tx

\* Coins that arrive finish buys and change nothing else.
LEMMA ArrivedSame ==
  ASSUME NEW ts, NEW coins, \A h \in DOMAIN ts : TradeShape(ts[h])
  PROVE  SameTrades(ts, Arrived(ts, coins))
  BY DEF Arrived, SameTrades, TradeShape, BuyFields

\* Saving a copy of a kept trade keeps what the invariant looks at.
LEMMA SavedSame ==
  ASSUME MineInv, NEW h, NEW t, KeptTrade(h, t)
  PROVE  SameTrades(mine, Saved(h, t))
<1> DEFINE ts == Put(mine, h, t)
<1>1. /\ DOMAIN ts = DOMAIN mine
      /\ \A x \in DOMAIN mine : ts[x] = IF x = h THEN t ELSE mine[x]
  BY DEF Put, KeptTrade
<1>2. SameTrades(mine, ts)
  BY <1>1 DEF KeptTrade, SameTrades
<1>3. \A x \in DOMAIN ts : TradeShape(ts[x])
  BY <1>1 DEF KeptTrade, MineInv, TradeShape
<1> HIDE DEF ts
<1>4. SameTrades(ts, Arrived(ts, tab.coins))
  BY <1>3, ArrivedSame
<1>5. Saved(h, t) = Arrived(ts, tab.coins)
  BY DEF Saved, ts
<1>6. QED
  BY <1>2, <1>4, <1>5 DEF SameTrades

-----------------------------------------------------------------------------
(***************************************************************************)
(* Frames: what most steps leave alone.                                     *)
(***************************************************************************)
tableVars == <<requests, replies, handed, orders, payments, locks, csdTxs>>

\* Locks of before are still there; only their state changes.
LocksKept(old, new) ==
  /\ DOMAIN old \subseteq DOMAIN new
  /\ \A h \in DOMAIN old :
       /\ DOMAIN new[h] = DOMAIN old[h]
       /\ new[h].until = old[h].until /\ new[h].addr = old[h].addr
       /\ new[h].direct = old[h].direct

\* What every step keeps.
Kept ==
  /\ clock' \in Nat /\ serial' \in Nat /\ serial <= serial'
  /\ TradesKept(mine, mine') /\ LocksKept(locks, locks')
  /\ \A h : Name(h) => (IsSale(h)' <=> IsSale(h))

\* Every new transaction pays an address of a wallet.
OnlyPayments == \A t \in csdTxs' : t \in csdTxs \/ t.to \in Nat

\* Every new lock is for an agreed sale, or under a number nothing was sent to.
LocksFree ==
  \A h \in DOMAIN locks' \ DOMAIN locks : IsSale(h) \/ \A t \in csdTxs : t.to # SaleAddr(h)

\* A signed sale stays one.
LEMMA SignedStays ==
  ASSUME Kept, TradesInv, NEW h, SignedSale(h)
  PROVE  SignedSale(h)' /\ mine'[h].tx = mine[h].tx
  BY DEF SignedSale, Kept, TradesKept, LocksKept, SaleAddr, NotPaid

\* Names stay names.
LEMMA NamesStay ==
  ASSUME Kept, TradesInv, NEW n, Name(n)
  PROVE  Name(n)'
  BY DEF Kept, TradesInv, ClockInv, Name

\* The address a maker names for a sale is not one of a wallet.
LEMMA SaleAddrNegative ==
  ASSUME NEW n, Name(n)
  PROVE  SaleAddr(n) < 0 /\ SaleAddr(n) \notin Nat /\ SaleAddr(SaleAddr(n)) = n
  BY DEF Name, SaleAddr

\* Each part of the invariant, as long as what it is about is left alone.
LEMMA Parts ==
  ASSUME TradesInv, Kept
  PROVE  /\ ClockInv'
         /\ UNCHANGED <<storage, tab, scan>> => CounterInv'
         /\ UNCHANGED <<orders, payments, requests>> /\ OnlyPayments => OrdersInv'
         /\ UNCHANGED <<requests, replies>> => RepliesInv'
         /\ DOMAIN locks' = DOMAIN locks => LocksInv'
         /\ OnlyPayments /\ LocksFree => TxInv'
         /\ handed' = handed => HandedInv'
         /\ SameTrades(mine, mine') => MineInv'
         /\ late' = late => LateInv'
         /\ UNCHANGED <<load, session>> => LoadInv'
<1>1. ClockInv' /\ \A n : Name(n) => Name(n)' /\ (IsSale(n)' <=> IsSale(n))
  BY NamesStay DEF TradesInv, ClockInv, Kept
<1>2. \A h : SignedSale(h) => SignedSale(h)' /\ mine'[h].tx = mine[h].tx
  BY SignedStays
<1>3. UNCHANGED <<storage, tab, scan>> => CounterInv'
  BY DEF TradesInv, CounterInv
<1>4. UNCHANGED <<orders, payments, requests>> /\ OnlyPayments => OrdersInv'
  BY <1>1, SaleAddrNegative DEF TradesInv, OrdersInv, OrderInv, OnlyPayments, SaleAddr
<1>5. UNCHANGED <<requests, replies>> => RepliesInv'
  BY <1>1 DEF TradesInv, RepliesInv, Agrees
<1>6. DOMAIN locks' = DOMAIN locks => LocksInv'
  BY <1>1 DEF TradesInv, LocksInv, Kept, LocksKept, SaleAddr
<1>7. ASSUME OnlyPayments, LocksFree
      PROVE  TxInv'
  <2> SUFFICES ASSUME NEW t \in csdTxs'
      PROVE  /\ t.to \in Int
             /\ t.to < 0 =>
                  \/ SignedSale(SaleAddr(t.to))' /\ mine'[SaleAddr(t.to)].tx = {t}
                  \/ /\ t.to = SaleAddr(t.id) /\ Name(t.id)'
                     /\ ~IsSale(t.id)' /\ t.id \notin DOMAIN locks'
    BY DEF TxInv, SaleAddr
  <2>1. CASE t.to \in Nat
    BY <2>1
  <2>2. CASE t \in csdTxs
    BY <1>1, <1>2, <1>7, <2>2 DEF TradesInv, TxInv, LocksFree
  <2>3. QED
    BY <1>7, <2>1, <2>2 DEF OnlyPayments
<1>8. handed' = handed => HandedInv'
  BY <1>2 DEF TradesInv, HandedInv
<1>9. SameTrades(mine, mine') => MineInv'
  BY <1>1, <1>2 DEF TradesInv, MineInv, SameTrades, TradeShape
<1>10. late' = late => LateInv'
  BY DEF TradesInv, LateInv, KeptTrade, Kept, TradesKept, NotPaid
<1>11. UNCHANGED <<load, session>> => LoadInv'
  BY DEF TradesInv, LoadInv
<1>12. QED
  BY <1>1, <1>3, <1>4, <1>5, <1>6, <1>7, <1>8, <1>9, <1>10, <1>11

\* What holds of the trade a click works on goes on holding.
LEMMA Stays ==
  ASSUME TradesInv, Kept
  PROVE  /\ \A h, t : KeptTrade(h, t) => KeptTrade(h, t)'
         /\ \A h, t : Paying(h, t) => Paying(h, t)'
         /\ requests' = requests /\ OnlyPayments => \A o : OrderInv(o) => OrderInv(o)'
         /\ SameTrades(mine, mine') => \A h : /\ Agreed(h) => Agreed(h)'
                                              /\ Saving(h) => Saving(h)'
         /\ handed' = handed /\ OnlyPayments => \A h : Name(h) /\ Unsent(h) => Unsent(h)'
         /\ UNCHANGED <<clock, locks>> => \A h : LongEnough(h) => LongEnough(h)'
<1>1. \A n : Name(n) => Name(n)' /\ (IsSale(n)' <=> IsSale(n))
  BY NamesStay DEF Kept
<1>2. \A h, t : KeptTrade(h, t) => KeptTrade(h, t)'
  BY DEF KeptTrade, Kept, TradesKept, NotPaid
<1>3. \A h, t : Paying(h, t) => Paying(h, t)'
  BY SignedStays DEF Paying
<1>4. requests' = requests /\ OnlyPayments => \A o : OrderInv(o) => OrderInv(o)'
  BY <1>1, SaleAddrNegative DEF OrderInv, OnlyPayments, SaleAddr
<1>5. SameTrades(mine, mine') => \A h : /\ Agreed(h) => Agreed(h)'
                                        /\ Saving(h) => Saving(h)'
  <2>1. \A h : IsSale(h) => Name(h)
    BY DEF TradesInv, RepliesInv, IsSale
  <2>2. QED
    BY <1>1, <2>1 DEF Agreed, Saving, SameTrades, NotPaid
<1>6. handed' = handed /\ OnlyPayments => \A h : Name(h) /\ Unsent(h) => Unsent(h)'
  BY SaleAddrNegative DEF Unsent, OnlyPayments, SaleAddr
<1>7. UNCHANGED <<clock, locks>> => \A h : LongEnough(h) => LongEnough(h)'
  BY DEF LongEnough, IsLocked
<1>8. QED
  BY <1>2, <1>3, <1>4, <1>5, <1>6, <1>7

\* The work under way is not disturbed, as long as a lock that is being paid
\* against stays good.
LEMMA SessionFrame ==
  ASSUME TradesInv, Kept, SameTrades(mine, mine'), OnlyPayments,
         UNCHANGED <<requests, handed, session>>,
         session.pc \in {"sellPay", "sellHand"} => LongEnough(session.answer.hash)'
  PROVE  SessionInv'
<1>1. \A h, t : Paying(h, t) => Name(h)
  BY DEF Paying, SignedSale, TradesInv, MineInv
<1>2. QED
  BY <1>1, Stays DEF TradesInv, SessionInv, SameTrades

\* A step of the page that writes no table.
PageOnly ==
  /\ clock' = clock /\ serial' \in Nat /\ serial <= serial'
  /\ UNCHANGED tableVars /\ SameTrades(mine, mine')

\* Such a step keeps what every step keeps, and what holds of the work under way.
LEMMA PageKeeps ==
  ASSUME TradesInv, PageOnly
  PROVE  /\ Kept /\ OnlyPayments /\ LocksFree
         /\ \A h : /\ LongEnough(h) => LongEnough(h)'
                   /\ Agreed(h) => Agreed(h)'
                   /\ Saving(h) => Saving(h)'
                   /\ Name(h) /\ Unsent(h) => Unsent(h)'
         /\ \A h, t : /\ KeptTrade(h, t) => KeptTrade(h, t)'
                      /\ Paying(h, t) => Paying(h, t)'
<1>1. Kept /\ OnlyPayments /\ LocksFree
  BY DEF TradesInv, ClockInv, PageOnly, tableVars, Kept, OnlyPayments, LocksFree,
         TradesKept, SameTrades, LocksKept, IsSale, Agrees
<1>2. QED
  BY <1>1, Stays DEF PageOnly, tableVars

\* What remains to be shown of a step of the page that writes no table.
LEMMA PageStep ==
  ASSUME TradesInv, PageOnly, CounterInv', LateInv', LoadInv', SessionInv'
  PROVE  TradesInv'
<1>1. Kept /\ OnlyPayments /\ LocksFree
  BY PageKeeps
<1>2. QED
  BY <1>1, Parts DEF TradesInv, PageOnly, tableVars

\* When the work under way is untouched.
LEMMA BackgroundStep ==
  ASSUME TradesInv, PageOnly, session' = session
  PROVE  /\ SessionInv'
         /\ late' = late => LateInv'
<1>1. /\ Kept /\ OnlyPayments
      /\ \A h : LongEnough(h) => LongEnough(h)'
  BY PageKeeps
<1>2. SessionInv'
  BY <1>1, SessionFrame DEF PageOnly, tableVars, TradesInv, SessionInv
<1>3. QED
  BY <1>1, <1>2, Parts

-----------------------------------------------------------------------------
(***************************************************************************)
(* The wallet.                                                              *)
(***************************************************************************)
\* Some number in a set is the smallest.
LEMMA NoSmaller ==
  ASSUME NEW T \in SUBSET Nat, T # {}
  PROVE  \E x \in T : \A y \in T : x <= y
<1> DEFINE R == OpToRel(<, Nat)
<1>1. \A x, y \in Nat : y < x => <<y, x>> \in R
  BY DEF OpToRel
<1>2. IsWellFoundedOn(R, Nat)
  BY NatLessThanWellFounded
<1> HIDE DEF R
<1>3. PICK x \in T : \A y \in T : ~(<<y, x>> \in R)
  BY <1>2, WFMin
<1>4. \A y \in T : x \in Nat /\ y \in Nat
  OBVIOUS
<1>5. ASSUME NEW y \in T PROVE x <= y
  <2>1. ~(<<y, x>> \in R)
    BY <1>3
  <2>2. ~(y < x)
    BY <1>1, <1>4, <2>1
  <2>3. QED
    BY <1>4, <2>2
<1>6. QED
  BY <1>5

\* A set of numbers up to a bound has a largest.
LEMMA Largest ==
  ASSUME NEW n \in Nat, NEW S \in SUBSET (0..n), S # {}
  PROVE  \E m \in S : \A k \in S : m >= k
<1> DEFINE T == {n - x : x \in S}
<1>0. \A x \in S : x \in Nat /\ n - x \in Nat
  OBVIOUS
<1>1. T \in SUBSET Nat /\ T # {}
  BY <1>0
<1>2. PICK x \in T : \A y \in T : x <= y
  <2> HIDE DEF T
  <2>1. QED
    BY <1>1, NoSmaller
<1>4. PICK m \in S : x = n - m
  OBVIOUS
<1>5. ASSUME NEW k \in S PROVE m >= k
  <2>1. n - k \in T
    OBVIOUS
  <2>2. x <= n - k
    BY <1>2, <2>1
  <2>3. m \in Nat /\ k \in Nat
    BY <1>0
  <2> HIDE DEF T
  <2>4. QED
    BY <1>4, <2>2, <2>3
<1>6. QED
  BY <1>5

\* The next address is one that can be used.
LEMMA FreshKeyNat ==
  ASSUME CounterInv
  PROVE  FreshKeyIndex \in Nat
<1>1. storage.next \in Nat
  BY DEF CounterInv
<1>2. \E x \in {1, storage.next} : \A y \in {1, storage.next} : x >= y
  BY <1>1
<1>3. QED
  BY <1>1, <1>2 DEF FreshKeyIndex, Max

\* A refresh of the wallet begins, and ends with the counter a number.
LEMMA ScanSteps ==
  ASSUME TradesInv, ScanStarts \/ ScanEnds
  PROVE  TradesInv'
<1>1. PageOnly
  BY ArrivedSame DEF ScanStarts, ScanEnds, PageOnly, tableVars, marketVars, csdVars,
       talkVars, TradesInv, ClockInv, MineInv, SameTrades
<1>2. SessionInv' /\ LateInv' /\ LoadInv'
  BY <1>1, BackgroundStep DEF ScanStarts, ScanEnds, TradesInv, LoadInv
<1>3. CASE ScanStarts
  <2>1. CounterInv'
    BY <1>3 DEF ScanStarts, CounterInv, TradesInv
  <2>2. QED
    BY <1>1, <1>2, <2>1, PageStep
<1>4. CASE ScanEnds
  <2> DEFINE used(looked) == {scan.next} \cup {i + 1 : i \in {i \in looked : CoinsAt(i) # {}}}
  <2>1. scan.next \in Nat /\ MaxKeys \in Nat
    BY <1>4, TradesAssumption DEF ScanEnds, TradesInv, CounterInv
  <2>2. ASSUME NEW looked \in SUBSET (0..(MaxKeys - 1))
        PROVE  Max(used(looked)) \in Nat
    <3> DEFINE S == used(looked)
    <3>1. scan.next + MaxKeys \in Nat
      BY <2>1
    <3>2. S \in SUBSET (0..(scan.next + MaxKeys)) /\ S # {}
      BY <2>1
    <3> HIDE DEF S
    <3>3. \E m \in S : \A k \in S : m >= k
      BY <3>1, <3>2, Largest
    <3>4. Max(S) \in S
      BY <3>3 DEF Max
    <3>5. Max(S) \in 0..(scan.next + MaxKeys)
      BY <3>2, <3>4
    <3>6. Max(S) \in Nat
      BY <3>1, <3>5
    <3>7. QED
      BY <3>6 DEF S
  <2>3. CounterInv'
    BY <1>4, <2>1, <2>2 DEF ScanEnds, CounterInv, TradesInv, Idle
  <2>4. QED
    BY <1>1, <1>2, <2>3, PageStep
<1>5. QED
  BY <1>3, <1>4

-----------------------------------------------------------------------------
(***************************************************************************)
(* The page: loading, and clicks that write no table.                       *)
(***************************************************************************)
everyTable == <<clock, requests, replies, handed, orders, payments, locks, csdTxs, mine, late>>

\* A step that leaves tables, trades and the clock alone.
LEMMA QuietStep ==
  ASSUME TradesInv, serial' \in Nat, serial <= serial', UNCHANGED everyTable
  PROVE  PageOnly /\ LateInv'
<1>1. PageOnly
  BY DEF PageOnly, everyTable, tableVars, SameTrades
<1>2. Kept
  BY <1>1, PageKeeps
<1>3. QED
  BY <1>1, <1>2, Parts DEF everyTable

\* What a load is when it starts.
LEMMA StartShape ==
  ASSUME NEW by, LoadStarts(by)
  PROVE  /\ load.pc = "idle" /\ load' = [pc |-> "hints", by |-> by, now |-> clock, hints |-> load'.hints,
                                         at |-> NoOffer, hop |-> 0, page |-> 0, out |-> {},
                                         began |-> [offers |-> offers, hints |-> load'.hints]]
         /\ "by" \in DOMAIN load' /\ load'.by = by
         /\ \E info : load'.hints \in Followed(info) /\ (info = {} \/ info \subseteq {o.id : o \in offers})
<1>1. PICK info, H : /\ H \in Followed(info) /\ (info = {} \/ info \subseteq {o.id : o \in offers})
                     /\ load' = [pc |-> "hints", by |-> by, now |-> clock, hints |-> H, at |-> NoOffer,
                                 hop |-> 0, page |-> 0, out |-> {},
                                 began |-> [offers |-> offers, hints |-> H]]
  BY DEF LoadStarts
<1>2. load'.hints = H
  BY <1>1
<1>3. QED
  BY <1>1, <1>2 DEF LoadStarts

\* Loading the market does not disturb the sale under way.
LEMMA LoadSteps ==
  ASSUME TradesInv, TimerLoads \/ SessionLoads \/ LoadReads \/ LoadEnds
  PROVE  TradesInv'
<1>1. serial' = serial /\ UNCHANGED everyTable
  BY DEF TimerLoads, SessionLoads, LoadReads, LoadEnds, everyTable, marketVars, csdVars, talkVars
<1>2. PageOnly /\ LateInv'
  BY <1>1, QuietStep DEF TradesInv, ClockInv
<1>3. CASE TimerLoads \/ SessionLoads \/ LoadReads
  <2>1. UNCHANGED <<session, storage, tab, scan>>
    BY <1>3 DEF TimerLoads, SessionLoads, LoadReads
  <2>2. CounterInv' /\ SessionInv'
    BY <1>2, <2>1, BackgroundStep DEF TradesInv, CounterInv
  <2>3. CASE TimerLoads \/ SessionLoads
    <3>1. ASSUME NEW by, LoadStarts(by) PROVE "by" \in DOMAIN load' /\ load'.by = by
      BY <3>1, StartShape
    <3>2. LoadInv'
      <4>1. CASE TimerLoads
        BY <2>1, <3>1, <4>1 DEF LoadInv, TimerLoads
      <4>2. CASE SessionLoads
        BY <2>1, <3>1, <4>2 DEF LoadInv, SessionLoads
      <4>3. QED
        BY <2>3, <4>1, <4>2
    <3>3. QED
      BY <1>2, <2>2, <3>2, PageStep
  <2>4. CASE LoadReads
    <3>0. /\ load.pc # "idle"
          /\ DOMAIN load' = DOMAIN load /\ ("by" \in DOMAIN load => load'.by = load.by)
      <4>1. CASE NextHint \/ Hop \/ ListPage
        BY <4>1 DEF NextHint, Hop, ListPage
      <4>2. CASE ReadFails
        BY <4>2 DEF ReadFails
      <4>3. QED
        BY <2>4, <4>1, <4>2 DEF LoadReads
    <3>3. LoadInv'
      BY <2>1, <3>0 DEF TradesInv, LoadInv
    <3>4. QED
      BY <1>2, <2>2, <3>3, PageStep
  <2>5. QED
    BY <1>3, <2>3, <2>4
<1>4. CASE LoadEnds
  <2>1. load' = Idle /\ scan' = scan
    BY <1>4 DEF LoadEnds, LoadFinds, LoadFindsNothing
  <2>2. CounterInv'
    BY <1>4, <2>1 DEF LoadEnds, LoadFinds, LoadFindsNothing, Assemble, TradesInv, CounterInv
  <2>3. LoadInv'
    BY <2>1 DEF LoadInv, Idle
  <2>4. CASE session' = session
    BY <1>2, <2>2, <2>3, <2>4, BackgroundStep, PageStep
  <2>5. CASE session' # session
    <3>1. \/ session' = Idle
          \/ "pc" \in DOMAIN session' /\ session'.pc \in {"buyRoute", "sellRoute"}
      BY <1>4, <2>5 DEF LoadEnds, Goto, TradesInv, SessionInv
    <3>2. SessionInv'
      BY <3>1 DEF SessionInv, Idle
    <3>3. QED
      BY <1>2, <2>2, <2>3, <3>2, PageStep
  <2>6. QED
    BY <2>4, <2>5
<1>5. QED
  BY <1>3, <1>4

\* The clicks that begin with nothing at stake, and those that end there.
LEMMA QuietClicks ==
  ASSUME TradesInv,
         \/ \E csd \in left.buyAmounts : BuyClicked(csd)
         \/ \E csd \in left.sellAmounts : SellClicked(csd)
         \/ BuyRefused \/ SellRefused \/ SellPrepared \/ SellFails \/ SellNotAccepted
         \/ SellGivesUp \/ BuyUnanswered
  PROVE  TradesInv'
<1>1. serial' = serial /\ UNCHANGED everyTable /\ UNCHANGED <<load, scan, tab>>
  BY DEF BuyClicked, SellClicked, BuyRefused, SellRefused, SellPrepared, SellFails, SellNotAccepted,
         SellGivesUp, BuyUnanswered, everyTable, talkVars, csdVars, outsideUnchanged, pageUnchanged
<1>2. PageOnly /\ LateInv'
  BY <1>1, QuietStep DEF TradesInv, ClockInv
<1>3. CounterInv'
  BY <1>1 DEF BuyClicked, SellClicked, BuyRefused, SellRefused, SellPrepared, SellFails,
         SellNotAccepted, SellGivesUp, BuyUnanswered, Skipped, TradesInv, CounterInv
<1>4. /\ "pc" \in DOMAIN session'
      /\ session'.pc \in {"idle", "buyLoad", "sellLoad", "sellPut"}
  <2>1. CASE BuyRefused \/ SellRefused \/ SellFails \/ SellGivesUp \/ BuyUnanswered
    BY <2>1 DEF BuyRefused, SellRefused, SellFails, SellGivesUp, BuyUnanswered, Idle
  <2>2. CASE \/ \E csd \in left.buyAmounts : BuyClicked(csd)
             \/ \E csd \in left.sellAmounts : SellClicked(csd)
    BY <2>2 DEF BuyClicked, SellClicked
  <2>3. CASE SellPrepared
    BY <2>3 DEF SellPrepared
  <2>4. CASE SellNotAccepted
    <3> DEFINE rest == Tail(session.makers)
    <3>1. session' = Idle \/ session' = [session EXCEPT !.pc = "sellPut", !.makers = rest]
      BY <2>4 DEF SellNotAccepted
    <3>2. "pc" \in DOMAIN session
      BY DEF TradesInv, SessionInv
    <3> HIDE DEF rest
    <3>3. CASE session' = Idle
      BY <3>3 DEF Idle
    <3>4. CASE session' = [session EXCEPT !.pc = "sellPut", !.makers = rest]
      BY <3>2, <3>4
    <3>5. QED
      BY <3>1, <3>3, <3>4
  <2>5. QED
    BY <2>1, <2>2, <2>3, <2>4
<1>5. SessionInv'
  BY <1>4 DEF SessionInv
<1>6. LoadInv'
  BY <1>1 DEF BuyClicked, SellClicked, BuyRefused, SellRefused, SellPrepared, SellFails,
         SellNotAccepted, SellGivesUp, BuyUnanswered, TradesInv, LoadInv
<1>7. QED
  BY <1>2, <1>3, <1>5, <1>6, PageStep

\* The next number has not been used.
LEMMA FreshNumber ==
  ASSUME TradesInv
  PROVE  /\ ~IsSale(serial) /\ serial \notin DOMAIN mine /\ serial \notin DOMAIN locks
         /\ serial \notin DOMAIN replies
         /\ \A r \in requests : r.id # serial
         /\ \A o \in orders : o.hash # serial
         /\ \A t \in csdTxs : t.to # SaleAddr(serial)
<1>1. serial \in Nat \ {0} /\ ~Name(serial)
  BY DEF TradesInv, ClockInv, Name
<1>2. ~IsSale(serial)
  BY <1>1 DEF TradesInv, RepliesInv, IsSale
<1>3. /\ serial \notin DOMAIN mine /\ serial \notin DOMAIN locks /\ serial \notin DOMAIN replies
      /\ \A r \in requests : r.id # serial
      /\ \A o \in orders : o.hash # serial
  BY <1>1 DEF TradesInv, MineInv, LocksInv, RepliesInv, OrdersInv, OrderInv
<1>4. ASSUME NEW t \in csdTxs, t.to = SaleAddr(serial)
      PROVE  FALSE
  <2>1. t.to < 0 /\ SaleAddr(t.to) = serial
    BY <1>1, <1>4 DEF SaleAddr
  <2>2. \/ SignedSale(serial)
        \/ t.to = SaleAddr(t.id) /\ Name(t.id)
    BY <2>1 DEF TradesInv, TxInv
  <2>3. t.to = SaleAddr(t.id) /\ Name(t.id) => t.id = serial
    BY <1>1, <1>4 DEF SaleAddr, Name
  <2>4. QED
    BY <1>1, <1>3, <2>2, <2>3 DEF SignedSale
<1>5. QED
  BY <1>2, <1>3, <1>4

-----------------------------------------------------------------------------
(***************************************************************************)
(* Buying.                                                                  *)
(***************************************************************************)
\* The order of a buy goes by a number and an address of its own.
LEMMA BuyPreparedStep ==
  ASSUME TradesInv, BuyPrepared
  PROVE  TradesInv'
<1>1. /\ serial' = serial + 1 /\ UNCHANGED everyTable
      /\ UNCHANGED <<load, scan>>
  BY DEF BuyPrepared, everyTable, talkVars, csdVars, outsideUnchanged, pageUnchanged
<1>2. PageOnly /\ LateInv'
  BY <1>1, QuietStep DEF TradesInv, ClockInv
<1>3. FreshKeyIndex \in Nat
  BY FreshKeyNat DEF TradesInv
<1>4. CounterInv'
  BY <1>1, <1>3 DEF BuyPrepared, WithFreshKey, TradesInv, CounterInv
<1>5. PICK o : o = session'.order
  OBVIOUS
<1>6. /\ "pc" \in DOMAIN session' /\ session'.pc = "buyPut"
      /\ o.id = serial /\ o.hash = serial /\ o.addr = FreshKeyIndex
  BY <1>5 DEF BuyPrepared
<1>7. LoadInv'
  BY <1>1 DEF BuyPrepared, TradesInv, LoadInv
<1>8. OrderInv(o)' /\ o.hash \notin DOMAIN mine'
  <2>1. serial \in Nat /\ 0 < serial
    BY DEF TradesInv, ClockInv
  <2>2. Name(o.hash)'
    BY <1>1, <1>6, <2>1 DEF Name
  <2>3. QED
    BY <1>1, <1>3, <1>6, <2>1, <2>2, FreshNumber
    DEF OrderInv, everyTable, SaleAddr, Name, IsSale, Agrees
<1>9. SessionInv'
  BY <1>5, <1>6, <1>8 DEF SessionInv
<1>10. QED
  BY <1>2, <1>4, <1>7, <1>9, PageStep

\* A step of the page that ends the work under way.
LEMMA SessionEnds ==
  ASSUME TradesInv, PageOnly, session' = Idle, load' = load, load.pc # "idle" => load.by = "timer"
  PROVE  SessionInv' /\ LoadInv'
  BY DEF TradesInv, LoadInv, SessionInv, Idle

\* The maker's answer is written into the saved trade.
LEMMA BuyAnsweredStep ==
  ASSUME TradesInv, BuyAccepted \/ BuyDeclined
  PROVE  TradesInv'
<1>1. session.pc = "buyAnswer" /\ session' = Idle
  BY DEF BuyAccepted, BuyDeclined
<1>2. PICK t : /\ t \in {[session.trade EXCEPT !.lockTx = TRUE], [session.trade EXCEPT !.status = "failed"]}
               /\ mine' = Saved(session.order.hash, t)
  BY DEF BuyAccepted, BuyDeclined
<1>3. KeptTrade(session.order.hash, t)
  BY <1>1, <1>2 DEF TradesInv, SessionInv, MineInv, TradeShape, KeptTrade, BuyFields
<1>4. SameTrades(mine, mine')
  BY <1>2, <1>3, SavedSame DEF TradesInv
<1>5. /\ serial' = serial /\ clock' = clock /\ UNCHANGED tableVars
      /\ UNCHANGED <<load, scan, late, tab>>
  BY DEF BuyAccepted, BuyDeclined, tableVars, talkVars, csdVars, outsideUnchanged, pageUnchanged
<1>6. PageOnly
  BY <1>4, <1>5 DEF PageOnly, TradesInv, ClockInv
<1>7. LateInv'
  BY <1>5, <1>6, PageKeeps, Parts
<1>8. CounterInv'
  BY <1>5 DEF BuyAccepted, BuyDeclined, Skipped, TradesInv, CounterInv
<1>9. SessionInv' /\ LoadInv'
  BY <1>1, <1>5, <1>6, SessionEnds DEF TradesInv, LoadInv
<1>10. QED
  BY <1>6, <1>7, <1>8, <1>9, PageStep

-----------------------------------------------------------------------------
(***************************************************************************)
(* Clicks, loops and saves that write no table.                             *)
(***************************************************************************)
\* A loop reads a trade that is kept, and so what it will save can be saved.
LEMMA FollowStep ==
  ASSUME TradesInv, NEW h \in DOMAIN mine,
         FollowFailedBuy(h) \/ FollowSale(h) \/ FollowReceipt(h)
  PROVE  TradesInv'
<1>1. PICK t : KeptTrade(h, t) /\ late' = [pc |-> "saving", hash |-> h, trade |-> t]
  <2>1. /\ TradeShape(mine[h])
        /\ mine[h].side = "sell" /\ mine[h].tx # NotPaid => KeptTrade(h, mine[h])
        /\ mine[h].side = "buy" => KeptTrade(h, mine[h])
    BY DEF TradesInv, MineInv, KeptTrade
  <2>2. CASE FollowFailedBuy(h)
    BY <2>1, <2>2 DEF FollowFailedBuy, Following, KeptTrade, TradeShape, BuyFields
  <2>3. CASE FollowSale(h)
    BY <2>1, <2>3 DEF FollowSale, FollowedOpen, Following, KeptTrade, TradeShape, SaleFields
  <2>4. CASE FollowReceipt(h)
    BY <2>1, <2>4 DEF FollowReceipt, FollowedOpen, Following, KeptTrade, TradeShape, BuyFields, SaleFields
  <2>5. QED
    BY <2>2, <2>3, <2>4
<1>2. /\ UNCHANGED <<serial, clock, mine, load, session, scan, tab, storage>>
      /\ UNCHANGED tableVars
  BY DEF FollowFailedBuy, FollowSale, FollowReceipt, Following, tableVars, marketVars, talkVars
<1>3. PageOnly
  BY <1>2 DEF PageOnly, SameTrades, TradesInv, ClockInv
<1>4. LateInv'
  <2>1. KeptTrade(h, t)'
    BY <1>1, <1>3, PageKeeps
  <2>2. late'.pc = "saving" /\ late'.hash = h /\ late'.trade = t
    BY <1>1
  <2>3. QED
    BY <2>1, <2>2 DEF LateInv
<1>5. SessionInv' /\ CounterInv' /\ LoadInv'
  BY <1>2, <1>3, BackgroundStep DEF TradesInv, CounterInv, LoadInv
<1>6. QED
  BY <1>3, <1>4, <1>5, PageStep

\* The loop saves what it read, over whatever was saved meanwhile.
LEMMA LateSaveStep ==
  ASSUME TradesInv, LateSave
  PROVE  TradesInv'
<1>1. SameTrades(mine, mine')
  BY SavedSame DEF LateSave, TradesInv, LateInv
<1>2. /\ UNCHANGED <<serial, clock, load, session, scan, tab, storage>>
      /\ UNCHANGED tableVars
  BY DEF LateSave, tableVars, marketVars, talkVars, csdVars
<1>3. PageOnly
  BY <1>1, <1>2 DEF PageOnly, TradesInv, ClockInv
<1>4. LateInv'
  BY DEF LateSave, LateInv, Idle
<1>5. SessionInv' /\ CounterInv' /\ LoadInv'
  BY <1>2, <1>3, BackgroundStep DEF TradesInv, CounterInv, LoadInv
<1>6. QED
  BY <1>3, <1>4, <1>5, PageStep

\* An agreed sale has a number above every trade kept so far.
LEMMA SellAcceptedStep ==
  ASSUME TradesInv, SellAccepted
  PROVE  TradesInv'
<1>1. /\ serial' = serial /\ UNCHANGED everyTable /\ UNCHANGED <<load, scan, tab, storage>>
  BY DEF SellAccepted, everyTable, talkVars, csdVars, outsideUnchanged, pageUnchanged
<1>2. PageOnly /\ LateInv'
  BY <1>1, QuietStep DEF TradesInv, ClockInv
<1>3. PICK h : h = replies[session.id].hash
  OBVIOUS
<1>4. IsSale(h) /\ session.id < h
  BY <1>3 DEF SellAccepted, Answered, TradesInv, SessionInv, RepliesInv, IsSale
<1>5. h \notin DOMAIN mine
  BY <1>4 DEF SellAccepted, Answered, TradesInv, SessionInv, MineInv, RepliesInv, Name
<1>6. Agreed(h)'
  BY <1>2, <1>4, <1>5, PageKeeps DEF Agreed
<1>7. /\ {"pc", "answer"} \subseteq DOMAIN session' /\ session'.pc = "sellCheck"
      /\ session'.answer.hash = h
  <2>1. "pc" \in DOMAIN session
    BY DEF TradesInv, SessionInv
  <2>2. PICK s : s = [session EXCEPT !.pc = "sellCheck"]
    OBVIOUS
  <2>3. "pc" \in DOMAIN s /\ s.pc = "sellCheck" /\ session' = Put(s, "answer", replies[session.id])
    BY <2>1, <2>2 DEF SellAccepted
  <2> DEFINE f == Put(s, "answer", replies[session.id])
  <2>4. DOMAIN f = DOMAIN s \cup {"answer"} /\ f["answer"] = replies[session.id] /\ f["pc"] = s["pc"]
    BY <2>3 DEF Put
  <2>5. session' = f
    BY <2>3
  <2> HIDE DEF f
  <2>6. QED
    BY <1>3, <2>3, <2>4, <2>5
<1>8. SessionInv'
  BY <1>6, <1>7 DEF SessionInv
<1>9. CounterInv' /\ LoadInv'
  BY <1>1 DEF SellAccepted, TradesInv, CounterInv, LoadInv
<1>10. QED
  BY <1>2, <1>8, <1>9, PageStep

\* The lock is there, with time to claim.
LEMMA SellLockSeenStep ==
  ASSUME TradesInv, SellLockSeen
  PROVE  TradesInv'
<1>1. /\ serial' = serial /\ UNCHANGED everyTable /\ UNCHANGED <<load, scan, tab, storage>>
  BY DEF SellLockSeen, everyTable, talkVars, csdVars, outsideUnchanged, pageUnchanged
<1>2. PageOnly /\ LateInv'
  BY <1>1, QuietStep DEF TradesInv, ClockInv
<1>3. PICK h : h = session.answer.hash
  OBVIOUS
<1>4. Saving(h) /\ LongEnough(h)
  BY <1>3 DEF SellLockSeen, TradesInv, SessionInv
<1>5. Saving(h)' /\ LongEnough(h)'
  BY <1>2, <1>4, PageKeeps
<1>6. /\ {"pc", "answer"} \subseteq DOMAIN session' /\ session'.pc = "sellPay"
      /\ session'.answer = session.answer
  BY DEF SellLockSeen, Goto, TradesInv, SessionInv
<1>7. SessionInv'
  BY <1>3, <1>5, <1>6 DEF SessionInv
<1>8. CounterInv' /\ LoadInv'
  BY <1>1 DEF SellLockSeen, TradesInv, CounterInv, LoadInv
<1>9. QED
  BY <1>2, <1>7, <1>8, PageStep

\* A refund is asked for with the trade as it is kept.
LEMMA RefundClickedStep ==
  ASSUME TradesInv, NEW h \in DOMAIN mine, RefundClicked(h)
  PROVE  TradesInv'
<1>1. /\ serial' = serial /\ UNCHANGED everyTable /\ UNCHANGED <<load, scan, tab, storage>>
  BY DEF RefundClicked, everyTable, talkVars, csdVars, outsideUnchanged, pageUnchanged
<1>2. PageOnly /\ LateInv'
  BY <1>1, QuietStep DEF TradesInv, ClockInv
<1>3. PICK t : t = mine[h]
  OBVIOUS
<1>4. KeptTrade(h, t)'
  <2>1. KeptTrade(h, t)
    BY <1>3 DEF RefundClicked, RefundOffered, KeptTrade
  <2>2. QED
    BY <1>2, <2>1, PageKeeps
<1>5. /\ "pc" \in DOMAIN session' /\ session'.pc = "refundSent"
      /\ session'.hash = h /\ session'.trade = t
  BY <1>3 DEF RefundClicked
<1>6. SessionInv'
  BY <1>4, <1>5 DEF SessionInv
<1>7. CounterInv' /\ LoadInv'
  BY <1>1 DEF RefundClicked, TradesInv, CounterInv, LoadInv
<1>8. QED
  BY <1>2, <1>6, <1>7, PageStep

\* The sale ends with the trade it paid, marked done if it was paid out.
LEMMA SellDoneStep ==
  ASSUME TradesInv, SellDone
  PROVE  TradesInv'
<1>1. session.pc = "sellDone" /\ session' = Idle
  BY DEF SellDone
<1>2. PICK h : h = session.answer.hash
  OBVIOUS
<1>3. PICK t : t = SaleTrade(session.answer, {session.tx}, mine[h].releaseTx, "done")
  OBVIOUS
<1>4. KeptTrade(h, t)
  <2>1. Paying(h, session.tx)
    BY <1>1, <1>2 DEF TradesInv, SessionInv
  <2>2. t.side = "sell" /\ t.tx = {session.tx} /\ DOMAIN t = SaleFields
    BY <1>3 DEF SaleTrade, SaleFields
  <2>3. QED
    BY <2>1, <2>2 DEF Paying, SignedSale, KeptTrade, TradesInv, MineInv, TradeShape, NotPaid
<1>5. SameTrades(mine, mine')
  <2>1. SameTrades(mine, Saved(h, t))
    BY <1>4, SavedSame DEF TradesInv
  <2>2. SameTrades(mine, mine)
    BY DEF SameTrades
  <2>3. mine' = mine \/ mine' = Saved(h, t)
    BY <1>2, <1>3 DEF SellDone
  <2>4. QED
    BY <2>1, <2>2, <2>3
<1>6. /\ serial' = serial /\ clock' = clock /\ UNCHANGED tableVars
      /\ UNCHANGED <<load, scan, late, tab, storage>>
  BY DEF SellDone, tableVars, talkVars, csdVars, outsideUnchanged, pageUnchanged
<1>7. PageOnly
  BY <1>5, <1>6 DEF PageOnly, TradesInv, ClockInv
<1>8. LateInv'
  BY <1>6, <1>7, PageKeeps, Parts
<1>9. SessionInv' /\ LoadInv' /\ CounterInv'
  BY <1>1, <1>6, <1>7, SessionEnds DEF TradesInv, LoadInv, CounterInv
<1>10. QED
  BY <1>7, <1>8, <1>9, PageStep

-----------------------------------------------------------------------------
(***************************************************************************)
(* Clicks that write a table.                                               *)
(***************************************************************************)
\* Steps that leave locks and replies alone keep what every step keeps.
LEMMA KeptBy ==
  ASSUME TradesInv, serial' \in Nat, serial <= serial', clock' \in Nat,
         TradesKept(mine, mine'), UNCHANGED <<locks, replies>>
  PROVE  Kept /\ LocksFree
  BY DEF Kept, LocksKept, IsSale, Agrees, LocksFree

\* Nothing is lost where nothing changes.
LEMMA SameKept ==
  ASSUME NEW old, NEW new, SameTrades(old, new)
  PROVE  TradesKept(old, new)
  BY DEF SameTrades, TradesKept

\* One trade is saved, over an earlier copy or for the first time.
OneSaved(old, new, h, t) ==
  /\ DOMAIN new = DOMAIN old \cup {h}
  /\ DOMAIN new[h] = DOMAIN t /\ new[h].side = t.side
  /\ t.side = "sell" => new[h].tx = t.tx
  /\ \A x \in DOMAIN old : x # h =>
       /\ DOMAIN new[x] = DOMAIN old[x] /\ new[x].side = old[x].side
       /\ old[x].side = "sell" => new[x].tx = old[x].tx
Supersedes(t, h) ==
  h \in DOMAIN mine =>
    /\ DOMAIN t = DOMAIN mine[h] /\ t.side = mine[h].side
    /\ t.side = "sell" /\ mine[h].tx # NotPaid => t.tx = mine[h].tx

LEMMA SaveAt ==
  ASSUME MineInv, NEW h, NEW t, NEW coins, TradeShape(t), Supersedes(t, h)
  PROVE  /\ OneSaved(mine, Arrived(Put(mine, h, t), coins), h, t)
         /\ TradesKept(mine, Arrived(Put(mine, h, t), coins))
<1> DEFINE ts == Put(mine, h, t)
<1>1. /\ DOMAIN ts = DOMAIN mine \cup {h}
      /\ \A x \in DOMAIN mine \cup {h} : ts[x] = IF x = h THEN t ELSE mine[x]
  BY DEF Put
<1>2. \A x \in DOMAIN ts : TradeShape(ts[x])
  BY <1>1 DEF MineInv
<1>3. OneSaved(mine, ts, h, t)
  BY <1>1 DEF OneSaved
<1> HIDE DEF ts
<1>4. SameTrades(ts, Arrived(ts, coins))
  BY <1>2, ArrivedSame
<1>5. OneSaved(mine, Arrived(ts, coins), h, t)
  BY <1>3, <1>4 DEF OneSaved, SameTrades
<1>6. TradesKept(mine, Arrived(ts, coins))
  BY <1>5 DEF OneSaved, TradesKept, Supersedes
<1>7. QED
  BY <1>5, <1>6 DEF ts

\* What the saved trade must be for the list to stay in order.
LEMMA SaveFits ==
  ASSUME TradesInv, Kept, NEW h, NEW t, OneSaved(mine, mine', h, t), TradeShape(t), Name(h),
         t.side = "sell" <=> IsSale(h),
         t.side = "sell" /\ t.tx # NotPaid => SignedSale(h)'
  PROVE  MineInv'
<1>1. \A n : Name(n) => Name(n)' /\ (IsSale(n)' <=> IsSale(n))
  BY NamesStay DEF Kept
<1>2. \A x : SignedSale(x) => SignedSale(x)' /\ mine'[x].tx = mine[x].tx
  BY SignedStays
<1>3. SUFFICES ASSUME NEW x \in DOMAIN mine'
               PROVE  /\ Name(x)' /\ TradeShape(mine'[x])
                      /\ mine'[x].side = "sell" <=> IsSale(x)'
                      /\ mine'[x].side = "sell" /\ mine'[x].tx # NotPaid => SignedSale(x)'
  BY DEF MineInv, NotPaid, TradeShape
<1>4. CASE x = h
  <2>1. Name(h)' /\ (IsSale(h)' <=> IsSale(h))
    BY <1>1
  <2>2. /\ DOMAIN mine'[h] = DOMAIN t /\ mine'[h].side = t.side
        /\ t.side = "sell" => mine'[h].tx = t.tx
    BY DEF OneSaved
  <2>3. QED
    BY <1>4, <2>1, <2>2 DEF TradeShape
<1>5. CASE x # h
  <2>1. x \in DOMAIN mine /\ Name(x) /\ TradeShape(mine[x])
    BY <1>5 DEF OneSaved, TradesInv, MineInv
  <2>2. QED
    BY <1>1, <1>2, <1>5, <2>1 DEF OneSaved, TradesInv, MineInv, TradeShape
<1>6. QED
  BY <1>4, <1>5

\* An order in order joins the others.
LEMMA OrdersGrow ==
  ASSUME TradesInv, Kept, OnlyPayments, UNCHANGED <<requests, payments>>,
         NEW o, OrderInv(o), orders' \subseteq orders \cup {o}
  PROVE  OrdersInv'
<1>1. \A x : OrderInv(x) => OrderInv(x)'
  BY Stays
<1>2. \A x \in orders' : OrderInv(x)'
  BY <1>1 DEF TradesInv, OrdersInv
<1>3. \A p \in payments' : p.tx.to \in Nat
  BY DEF TradesInv, OrdersInv
<1>4. QED
  BY <1>2, <1>3 DEF OrdersInv

\* A signed sale joins those handed over.
LEMMA HandedGrow ==
  ASSUME TradesInv, Kept, NEW h, SignedSale(h), handed' \subseteq handed \cup {h}
  PROVE  HandedInv'
  BY SignedStays DEF TradesInv, HandedInv

\* The order is public and the trade saved in one step.
LEMMA BuyPublishedStep ==
  ASSUME TradesInv, BuyPublished
  PROVE  TradesInv'
<1>1. PICK o : o = session.order
  OBVIOUS
<1>2. PICK t : t = BuyTradeOf(o)
  OBVIOUS
<1>3. OrderInv(o) /\ o.hash \notin DOMAIN mine
  BY <1>1 DEF BuyPublished, TradesInv, SessionInv
<1>4. DOMAIN t = BuyFields /\ t.side = "buy" /\ TradeShape(t)
  BY <1>2 DEF BuyTradeOf, BuyFields, TradeShape
<1>5. /\ orders' = orders \cup {o} /\ mine' = Arrived(Put(mine, o.hash, t), tab.coins)
      /\ session' = [pc |-> "buyAnswer", order |-> o, trade |-> t]
      /\ UNCHANGED <<clock, serial, requests, replies, handed, payments, locks, csdTxs>>
      /\ UNCHANGED <<storage, tab, load, scan, late>>
  BY <1>1, <1>2 DEF BuyPublished, Saved, talkVars, csdVars, outsideUnchanged, pageUnchanged
<1>6. OneSaved(mine, mine', o.hash, t) /\ TradesKept(mine, mine')
  BY <1>3, <1>4, <1>5, SaveAt DEF TradesInv, Supersedes
<1>7. Kept /\ LocksFree /\ OnlyPayments
  BY <1>5, <1>6, KeptBy DEF OnlyPayments, TradesInv, ClockInv
<1>8. MineInv'
  BY <1>3, <1>4, <1>6, <1>7, SaveFits DEF OrderInv
<1>9. OrdersInv'
  BY <1>3, <1>5, <1>7, OrdersGrow
<1>10. SessionInv'
  <2>1. /\ "pc" \in DOMAIN session' /\ session'.pc = "buyAnswer"
        /\ session'.order = o /\ session'.trade = t
    BY <1>5
  <2>2. o.hash \in DOMAIN mine' /\ mine'[o.hash].side = "buy"
    BY <1>4, <1>6 DEF OneSaved
  <2>3. QED
    BY <1>4, <2>1, <2>2 DEF SessionInv
<1>11. LoadInv'
  BY <1>5 DEF BuyPublished, TradesInv, LoadInv
<1>12. /\ ClockInv' /\ CounterInv' /\ RepliesInv' /\ LocksInv' /\ TxInv' /\ HandedInv' /\ LateInv'
  BY <1>5, <1>7, Parts
<1>13. QED
  BY <1>8, <1>9, <1>10, <1>11, <1>12 DEF TradesInv

\* An order that may be public without a trade being kept.
LEMMA BuyNotPublishedStep ==
  ASSUME TradesInv, BuyNotPublished
  PROVE  TradesInv'
<1>1. PICK o : o = session.order
  OBVIOUS
<1>2. OrderInv(o)
  BY <1>1 DEF BuyNotPublished, TradesInv, SessionInv
<1>3. /\ orders' \subseteq orders \cup {o} /\ session' = Idle
      /\ UNCHANGED <<clock, serial, requests, replies, handed, payments, locks, csdTxs, mine>>
      /\ UNCHANGED <<storage, tab, load, scan, late>>
  BY <1>1 DEF BuyNotPublished, talkVars, csdVars, outsideUnchanged, pageUnchanged
<1>4. SameTrades(mine, mine')
  BY <1>3 DEF SameTrades
<1>5. Kept /\ LocksFree /\ OnlyPayments
  BY <1>3, <1>4, KeptBy, SameKept DEF OnlyPayments, TradesInv, ClockInv
<1>6. OrdersInv'
  BY <1>2, <1>3, <1>5, OrdersGrow
<1>7. SessionInv'
  BY <1>3 DEF SessionInv, Idle
<1>8. LoadInv'
  BY <1>3 DEF BuyNotPublished, TradesInv, LoadInv
<1>9. /\ ClockInv' /\ CounterInv' /\ RepliesInv' /\ LocksInv' /\ TxInv' /\ HandedInv'
      /\ MineInv' /\ LateInv'
  BY <1>3, <1>4, <1>5, Parts
<1>10. QED
  BY <1>6, <1>7, <1>8, <1>9 DEF TradesInv

\* Closing the tab; what was being published may have arrived.
LEMMA ReloadStep ==
  ASSUME TradesInv, Reload
  PROVE  TradesInv'
<1>1. /\ session' = Idle /\ load' = Idle /\ scan' = Idle /\ late' = Idle /\ tab' = NewTab(storage.next)
      /\ UNCHANGED <<clock, serial, requests, replies, payments, locks, csdTxs, mine, storage>>
  BY DEF Reload, csdVars
<1>2. SameTrades(mine, mine')
  BY <1>1 DEF SameTrades
<1>3. Kept /\ LocksFree /\ OnlyPayments
  BY <1>1, <1>2, KeptBy, SameKept DEF OnlyPayments, TradesInv, ClockInv
<1>4. OrdersInv'
  <2>1. CASE session.pc = "buyPut"
    <3>1. PICK o : o = session.order
      OBVIOUS
    <3>2. OrderInv(o) /\ orders' \subseteq orders \cup {o}
      BY <2>1, <3>1 DEF Reload, TradesInv, SessionInv
    <3>3. QED
      BY <1>1, <1>3, <3>2, OrdersGrow
  <2>2. CASE session.pc # "buyPut"
    BY <1>1, <1>3, <2>2, Parts DEF Reload
  <2>3. QED
    BY <2>1, <2>2
<1>5. HandedInv'
  <2>1. CASE session.pc = "sellHand"
    <3>1. PICK h : h = session.answer.hash
      OBVIOUS
    <3>2. SignedSale(h) /\ handed' \subseteq handed \cup {h}
      BY <2>1, <3>1 DEF Reload, TradesInv, SessionInv, Paying
    <3>3. QED
      BY <1>3, <3>2, HandedGrow
  <2>2. CASE session.pc # "sellHand"
    BY <1>3, <2>2, Parts DEF Reload
  <2>3. QED
    BY <2>1, <2>2
<1>6. SessionInv' /\ LoadInv' /\ LateInv'
  BY <1>1 DEF SessionInv, LoadInv, LateInv, Idle
<1>7. CounterInv'
  BY <1>1 DEF NewTab, Idle, TradesInv, CounterInv
<1>8. /\ ClockInv' /\ RepliesInv' /\ LocksInv' /\ TxInv' /\ MineInv'
  BY <1>1, <1>2, <1>3, Parts
<1>9. QED
  BY <1>4, <1>5, <1>6, <1>7, <1>8 DEF TradesInv

\* The payment is handed over, or the attempt is lost.
LEMMA SellHandedStep ==
  ASSUME TradesInv, SellHanded
  PROVE  TradesInv'
<1>1. PICK h : h = session.answer.hash
  OBVIOUS
<1>2. PICK t : t = session.tx
  OBVIOUS
<1>3. Paying(h, t)
  BY <1>1, <1>2 DEF SellHanded, TradesInv, SessionInv
<1>4. /\ handed' \subseteq handed \cup {h}
      /\ UNCHANGED <<clock, serial, requests, replies, orders, payments, locks, csdTxs, mine>>
      /\ UNCHANGED <<storage, tab, load, scan, late>>
  BY <1>1 DEF SellHanded, csdVars, outsideUnchanged, pageUnchanged
<1>5. SameTrades(mine, mine')
  BY <1>4 DEF SameTrades
<1>6. Kept /\ LocksFree /\ OnlyPayments
  BY <1>4, <1>5, KeptBy, SameKept DEF OnlyPayments, TradesInv, ClockInv
<1>7. HandedInv'
  BY <1>3, <1>4, <1>6, HandedGrow DEF Paying
<1>8. SessionInv'
  <2>1. Paying(h, t)'
    BY <1>3, <1>6, Stays
  <2>2. /\ {"pc", "answer", "tx"} \subseteq DOMAIN session' /\ session'.pc = "sellSubmit"
        /\ session'.answer.hash = h /\ session'.tx = t
    BY <1>1, <1>2 DEF SellHanded, Goto, TradesInv, SessionInv
  <2>3. QED
    BY <2>1, <2>2 DEF SessionInv
<1>9. LoadInv'
  BY <1>4 DEF SellHanded, TradesInv, LoadInv
<1>10. /\ ClockInv' /\ CounterInv' /\ OrdersInv' /\ RepliesInv' /\ LocksInv' /\ TxInv'
       /\ MineInv' /\ LateInv'
  BY <1>4, <1>5, <1>6, Parts
<1>11. QED
  BY <1>7, <1>8, <1>9, <1>10 DEF TradesInv

\* A request has a number above every trade, order and reply.
LEMMA SellRequestedStep ==
  ASSUME TradesInv, SellRequested
  PROVE  TradesInv'
<1>1. PICK r : requests' = requests \cup {r} /\ r.id = serial
  <2>1. PICK r : r = [id |-> serial, maker |-> Head(session.makers), csd |-> session.csd,
                      minOut |-> session.minOut]
    OBVIOUS
  <2>2. r.id = serial
    BY <2>1
  <2>3. requests' = requests \cup {r}
    BY <2>1, Zenon DEF SellRequested
  <2>4. QED
    BY <2>2, <2>3
<1>2. /\ serial' = serial + 1
      /\ UNCHANGED <<clock, replies, handed, orders, payments, locks, csdTxs, mine>>
      /\ UNCHANGED <<storage, tab, load, scan, late>>
  BY DEF SellRequested, csdVars, outsideUnchanged, pageUnchanged
<1>3. SameTrades(mine, mine')
  BY <1>2 DEF SameTrades
<1>4. serial \in Nat /\ 0 < serial
  BY DEF TradesInv, ClockInv
<1>5. Kept /\ LocksFree /\ OnlyPayments
  BY <1>2, <1>3, <1>4, KeptBy, SameKept DEF OnlyPayments, TradesInv, ClockInv
<1>6. \A n : Name(n) => Name(n)' /\ (IsSale(n)' <=> IsSale(n)) /\ n # serial
  BY <1>5, NamesStay DEF Kept, Name
<1>7. OrdersInv'
  BY <1>1, <1>2, <1>6 DEF TradesInv, OrdersInv, OrderInv, SaleAddr
<1>8. RepliesInv'
  <2>1. Name(r.id)'
    BY <1>1, <1>2, <1>4 DEF Name
  <2>2. \A x \in requests' : Name(x.id)'
    BY <1>1, <1>6, <2>1 DEF TradesInv, RepliesInv
  <2>3. ASSUME NEW i \in DOMAIN replies, NEW n, n = replies[i].hash
        PROVE  /\ Name(i)'
               /\ replies[i].accepted /\ (\E x \in requests' : x.id = i) => Agrees(i)
               /\ Agrees(i) => Name(n)' /\ i < n
    BY <1>1, <1>6, <2>3 DEF TradesInv, RepliesInv
  <2>4. QED
    BY <1>2, <2>2, <2>3 DEF RepliesInv, Agrees
<1>9. SessionInv'
  <2>1. PICK s : s = [session EXCEPT !.pc = "sellAnswer"]
    OBVIOUS
  <2>2. "pc" \in DOMAIN s /\ s.pc = "sellAnswer" /\ session' = Put(s, "id", serial)
    BY <2>1 DEF SellRequested, TradesInv, SessionInv
  <2>3. "pc" \in DOMAIN session' /\ session'.pc = "sellAnswer" /\ session'.id = serial
    BY <2>2 DEF Put
  <2>4. \A h \in DOMAIN mine' : h < serial
    BY <1>2 DEF TradesInv, MineInv, Name
  <2>5. QED
    BY <1>1, <2>3, <2>4 DEF SessionInv
<1>10. LoadInv'
  BY <1>2 DEF SellRequested, TradesInv, LoadInv
<1>11. /\ ClockInv' /\ CounterInv' /\ LocksInv' /\ TxInv' /\ HandedInv' /\ MineInv' /\ LateInv'
  BY <1>2, <1>3, <1>5, Parts
<1>12. QED
  BY <1>7, <1>8, <1>9, <1>10, <1>11 DEF TradesInv

\* The agreed sale is saved before its payment is made, or dropped.
LEMMA SellCheckedStep ==
  ASSUME TradesInv, SellChecked
  PROVE  TradesInv'
<1>1. /\ serial' = serial
      /\ UNCHANGED <<clock, requests, replies, handed, orders, payments, locks, csdTxs>>
      /\ UNCHANGED <<storage, tab, load, scan, late>>
  BY DEF SellChecked, talkVars, csdVars, outsideUnchanged, pageUnchanged
<1>2. LoadInv'
  BY <1>1 DEF SellChecked, TradesInv, LoadInv
<1>3. CASE ~AnswerGood(session.answer)
  <2>1. session' = Idle /\ mine' = mine
    BY <1>3 DEF SellChecked
  <2>2. PageOnly /\ LateInv'
    BY <1>1, <2>1, QuietStep DEF everyTable, TradesInv, ClockInv
  <2>3. SessionInv' /\ CounterInv'
    BY <1>1, <2>1 DEF SessionInv, Idle, TradesInv, CounterInv
  <2>4. QED
    BY <1>2, <2>2, <2>3, PageStep
<1>4. CASE AnswerGood(session.answer)
  <2>1. PICK h : h = session.answer.hash
    OBVIOUS
  <2>2. PICK t : t = SaleTrade(session.answer, NotPaid, FALSE, "pending")
    OBVIOUS
  <2>3. t.side = "sell" /\ t.tx = NotPaid /\ DOMAIN t = SaleFields /\ TradeShape(t)
    BY <2>2 DEF SaleTrade, SaleFields, TradeShape
  <2>4. Agreed(h)
    BY <2>1 DEF SellChecked, TradesInv, SessionInv
  <2>5. Name(h)
    BY <2>4 DEF Agreed, IsSale, TradesInv, RepliesInv
  <2>6. mine' = Arrived(Put(mine, h, t), tab.coins)
    BY <1>4, <2>1, <2>2 DEF SellChecked, Saved
  <2>7. OneSaved(mine, mine', h, t) /\ TradesKept(mine, mine')
    BY <2>3, <2>4, <2>6, SaveAt DEF TradesInv, Supersedes, Agreed
  <2>8. Kept /\ LocksFree /\ OnlyPayments
    BY <1>1, <2>7, KeptBy DEF OnlyPayments, TradesInv, ClockInv
  <2>9. MineInv'
    BY <2>3, <2>4, <2>5, <2>7, <2>8, SaveFits DEF Agreed
  <2>10. SessionInv'
    <3>1. /\ {"pc", "answer"} \subseteq DOMAIN session' /\ session'.pc = "sellWait"
          /\ session'.answer = session.answer
      BY <1>4 DEF SellChecked, Goto, TradesInv, SessionInv
    <3>2. Saving(h)'
      BY <2>3, <2>7 DEF OneSaved, Saving, NotPaid
    <3>3. QED
      BY <2>1, <3>1, <3>2 DEF SessionInv
  <2>11. /\ ClockInv' /\ CounterInv' /\ OrdersInv' /\ RepliesInv' /\ LocksInv' /\ TxInv'
         /\ HandedInv' /\ LateInv'
    BY <1>1, <2>8, Parts
  <2>12. QED
    BY <1>2, <2>9, <2>10, <2>11 DEF TradesInv
<1>5. QED
  BY <1>3, <1>4

\* Nothing was sent or handed over for a sale that is not signed.
LEMMA UnsignedUnsent ==
  ASSUME TradesInv, NEW h, Name(h), IsSale(h), ~SignedSale(h)
  PROVE  Unsent(h)
<1>1. h \notin handed
  BY DEF TradesInv, HandedInv
<1>2. ASSUME NEW x \in csdTxs, x.to = SaleAddr(h)
      PROVE  FALSE
  <2>1. x.to < 0 /\ SaleAddr(x.to) = h
    BY <1>2, SaleAddrNegative
  <2>2. x.to = SaleAddr(x.id) /\ Name(x.id) /\ ~IsSale(x.id)
    BY <2>1 DEF TradesInv, TxInv
  <2>3. x.id = h
    BY <1>2, <2>2 DEF SaleAddr, Name
  <2>4. QED
    BY <2>2, <2>3
<1>3. QED
  BY <1>1, <1>2 DEF Unsent

\* The payment is signed and saved against a lock with time to claim.
LEMMA SellSignedStep ==
  ASSUME TradesInv, SellSigned
  PROVE  TradesInv'
<1>1. PICK h : h = session.answer.hash
  OBVIOUS
<1>2. PICK t : t = Payment(serial, session.coins, SaleAddr(h), session.csd)
  OBVIOUS
<1>3. PICK s : s = SaleTrade(session.answer, {t}, FALSE, "pending")
  OBVIOUS
<1>4. /\ serial' = serial + 1 /\ mine' = Arrived(Put(mine, h, s), tab.coins)
      /\ UNCHANGED <<clock, requests, replies, handed, orders, payments, locks, csdTxs>>
      /\ UNCHANGED <<storage, tab, load, scan, late>>
  BY <1>1, <1>2, <1>3
  DEF SellSigned, Saved, talkVars, csdVars, outsideUnchanged, pageUnchanged
<1>5. t.to = SaleAddr(h)
  BY <1>2 DEF Payment
<1>6. s.side = "sell" /\ s.tx = {t} /\ DOMAIN s = SaleFields /\ TradeShape(s)
  BY <1>3 DEF SaleTrade, SaleFields, TradeShape
<1>7. Saving(h) /\ LongEnough(h) /\ locks[h].direct /\ Name(h) /\ IsSale(h)
  BY <1>1 DEF SellSigned, TradesInv, SessionInv, Saving, MineInv
<1>8. OneSaved(mine, mine', h, s) /\ TradesKept(mine, mine')
  <2>1. Supersedes(s, h)
    BY <1>6, <1>7 DEF Supersedes, Saving, TradesInv, MineInv, TradeShape
  <2>2. QED
    BY <1>4, <1>6, <2>1, SaveAt DEF TradesInv
<1>9. Kept /\ LocksFree /\ OnlyPayments
  BY <1>4, <1>8, KeptBy DEF OnlyPayments, TradesInv, ClockInv
<1>10. Paying(h, t)'
  <2>1. h \in DOMAIN mine' /\ mine'[h].side = "sell" /\ mine'[h].tx = {t}
    BY <1>6, <1>8 DEF OneSaved
  <2>2. h \in DOMAIN locks' /\ locks'[h].direct
    BY <1>4, <1>7 DEF LongEnough, IsLocked
  <2>3. QED
    BY <1>5, <2>1, <2>2 DEF Paying, SignedSale, NotPaid, SaleAddr
<1>11. MineInv'
  BY <1>6, <1>7, <1>8, <1>9, <1>10, SaveFits DEF Paying
<1>12. Unsent(h)
  BY <1>7, UnsignedUnsent DEF Saving, SignedSale
<1>13. SessionInv'
  <2>1. PICK n : n = [session EXCEPT !.pc = "sellHand"]
    OBVIOUS
  <2>2. /\ "pc" \in DOMAIN n /\ n.pc = "sellHand" /\ session' = Put(n, "tx", t)
        /\ "answer" \in DOMAIN n /\ n.answer = session.answer
    BY <1>1, <1>2, <2>1 DEF SellSigned, TradesInv, SessionInv
  <2>3. PICK a : a = session'.answer
    OBVIOUS
  <2>4. /\ "pc" \in DOMAIN session' /\ session'.pc = "sellHand" /\ session'.tx = t
        /\ a.hash = h /\ {"answer", "tx"} \subseteq DOMAIN session'
    BY <1>1, <2>2, <2>3 DEF Put
  <2>5. LongEnough(h)' /\ Unsent(h)'
    BY <1>4, <1>7, <1>9, <1>12, Stays
  <2>6. QED
    BY <1>10, <2>3, <2>4, <2>5 DEF SessionInv
<1>14. LoadInv'
  BY <1>4 DEF SellSigned, TradesInv, LoadInv
<1>15. /\ ClockInv' /\ CounterInv' /\ OrdersInv' /\ RepliesInv' /\ LocksInv' /\ TxInv'
       /\ HandedInv' /\ LateInv'
  BY <1>4, <1>9, Parts
<1>16. QED
  BY <1>11, <1>13, <1>14, <1>15 DEF TradesInv

\* Sending a signed payment, once more or for the first time, pays what is kept.
LEMMA SubmitSigned ==
  ASSUME TradesInv, Kept, UNCHANGED <<requests, orders, payments, locks>>,
         NEW h, NEW t, Paying(h, t), csdTxs' \subseteq csdTxs \cup {t}
  PROVE  TxInv' /\ OrdersInv'
<1>1. \A n : Name(n) => Name(n)' /\ (IsSale(n)' <=> IsSale(n))
  BY NamesStay DEF Kept
<1>2. \A x : SignedSale(x) => SignedSale(x)' /\ mine'[x].tx = mine[x].tx
  BY SignedStays
<1>3. Name(h) /\ IsSale(h) /\ t.to = SaleAddr(h) /\ SignedSale(h) /\ mine[h].tx = {t}
  BY DEF Paying, SignedSale, TradesInv, MineInv
<1>4. t.to \in Int /\ t.to < 0 /\ SaleAddr(t.to) = h
  BY <1>3, SaleAddrNegative DEF SaleAddr, Name
<1>5. TxInv'
  <2>1. SUFFICES ASSUME NEW x \in csdTxs'
                 PROVE  /\ x.to \in Int
                        /\ x.to < 0 =>
                             \/ SignedSale(SaleAddr(x.to))' /\ mine'[SaleAddr(x.to)].tx = {x}
                             \/ /\ x.to = SaleAddr(x.id) /\ Name(x.id)'
                                /\ ~IsSale(x.id)' /\ x.id \notin DOMAIN locks'
    BY DEF TxInv, SaleAddr
  <2>2. CASE x = t
    BY <1>2, <1>3, <1>4, <2>2
  <2>3. CASE x \in csdTxs
    BY <1>1, <1>2, <2>3 DEF TradesInv, TxInv
  <2>4. QED
    BY <2>2, <2>3
<1>6. OrdersInv'
  <2>1. ASSUME NEW o \in orders PROVE OrderInv(o)'
    <3>1. OrderInv(o) /\ Name(o.hash) /\ o.hash # h
      BY <1>3 DEF TradesInv, OrdersInv, OrderInv
    <3>2. t.to # SaleAddr(o.hash)
      BY <1>3, <3>1 DEF SaleAddr, Name
    <3>3. QED
      BY <1>1, <3>1, <3>2 DEF OrderInv, SaleAddr
  <2>2. QED
    BY <2>1 DEF TradesInv, OrdersInv
<1>7. QED
  BY <1>5, <1>6

\* The signed payment is sent to the CSD network, or the attempt fails.
LEMMA SellSubmittedStep ==
  ASSUME TradesInv, SellSubmitted
  PROVE  TradesInv'
<1>1. PICK h : h = session.answer.hash
  OBVIOUS
<1>2. PICK t : t = session.tx
  OBVIOUS
<1>3. PICK s, coins : /\ s.side = "sell" /\ s.tx = {t} /\ DOMAIN s = SaleFields
                      /\ mine' = Arrived(Put(mine, h, s), coins)
                      /\ tab' = [tab EXCEPT !.coins = coins]
  <2>1. PICK coins : coins = {c \in tab.coins : c.tx \notin {u.tx : u \in t.ins}}
    OBVIOUS
  <2>2. PICK released : released = (h \in handed /\ locks[h].state = "released")
    OBVIOUS
  <2>3. PICK s : s = SaleTrade(session.answer, {t}, released, "pending")
    OBVIOUS
  <2>4. /\ mine' = Arrived(Put(mine, h, s), coins)
        /\ tab' = [tab EXCEPT !.coins = coins]
    BY <1>1, <1>2, <2>1, <2>2, <2>3, Zenon DEF SellSubmitted
  <2>5. s.side = "sell" /\ s.tx = {t} /\ DOMAIN s = SaleFields
    BY <2>3 DEF SaleTrade, SaleFields
  <2>6. QED
    BY <2>4, <2>5
<1>4. Paying(h, t)
  BY <1>1, <1>2 DEF SellSubmitted, TradesInv, SessionInv
<1>5. /\ csdTxs' \subseteq csdTxs \cup {t}
      /\ UNCHANGED <<clock, serial, requests, replies, handed, orders, payments, locks>>
      /\ UNCHANGED <<storage, load, scan, late>>
  BY <1>2 DEF SellSubmitted, Submitted, marketVars, talkVars, pageUnchanged
<1>6. OneSaved(mine, mine', h, s) /\ TradesKept(mine, mine')
  <2>1. TradeShape(s) /\ Supersedes(s, h)
    BY <1>3, <1>4 DEF Paying, SignedSale, Supersedes, TradeShape, TradesInv, MineInv
  <2>2. QED
    BY <1>3, <2>1, SaveAt DEF TradesInv
<1>7. Kept
  BY <1>5, <1>6, KeptBy DEF TradesInv, ClockInv
<1>8. TxInv' /\ OrdersInv'
  BY <1>4, <1>5, <1>7, SubmitSigned
<1>9. SameTrades(mine, mine')
  BY <1>3, <1>4, <1>6 DEF OneSaved, SameTrades, Paying, SignedSale, TradesInv, MineInv, TradeShape
<1>10. SessionInv'
  <2>1. Paying(h, t)'
    BY <1>4, <1>7, Stays
  <2>2. /\ {"pc", "answer", "tx"} \subseteq DOMAIN session' /\ session'.pc = "sellDone"
        /\ session'.answer.hash = h /\ session'.tx = t
    BY <1>1, <1>2 DEF SellSubmitted, Goto, TradesInv, SessionInv
  <2>3. QED
    BY <2>1, <2>2 DEF SessionInv
<1>11. CounterInv' /\ LoadInv'
  BY <1>3, <1>5 DEF SellSubmitted, TradesInv, LoadInv, CounterInv
<1>12. /\ ClockInv' /\ RepliesInv' /\ LocksInv' /\ HandedInv' /\ MineInv' /\ LateInv'
  BY <1>5, <1>7, <1>9, Parts
<1>13. QED
  BY <1>8, <1>10, <1>11, <1>12 DEF TradesInv

\* A claim sends the payment again.
LEMMA ClaimClickedStep ==
  ASSUME TradesInv, NEW h \in DOMAIN mine, ClaimClicked(h)
  PROVE  TradesInv'
<1>1. PICK t \in mine[h].tx : csdTxs' = Submitted(t)
  BY DEF ClaimClicked
<1>2. PICK s : s = mine[h]
  OBVIOUS
<1>3. SignedSale(h) /\ Paying(h, t) /\ KeptTrade(h, s)
  BY <1>1, <1>2 DEF ClaimClicked, ClaimOffered, TradesInv, MineInv, SignedSale, Paying, KeptTrade
<1>4. /\ csdTxs' \subseteq csdTxs \cup {t}
      /\ UNCHANGED <<clock, serial, requests, replies, handed, orders, payments, locks, mine>>
      /\ UNCHANGED <<storage, tab, load, scan, late>>
  BY <1>1 DEF ClaimClicked, Submitted, marketVars, talkVars, pageUnchanged
<1>5. SameTrades(mine, mine')
  BY <1>4 DEF SameTrades
<1>6. Kept
  BY <1>4, <1>5, KeptBy, SameKept DEF TradesInv, ClockInv
<1>7. TxInv' /\ OrdersInv'
  BY <1>3, <1>4, <1>6, SubmitSigned
<1>8. SessionInv'
  <2>1. KeptTrade(h, s)'
    BY <1>3, <1>6, Stays
  <2>2. CASE session' = Idle
    BY <2>2 DEF SessionInv, Idle
  <2>3. CASE session' = [pc |-> "claimSent", hash |-> h, trade |-> s]
    <3>1. /\ "pc" \in DOMAIN session' /\ session'.pc = "claimSent"
          /\ session'.hash = h /\ session'.trade = s
      BY <2>3
    <3>2. QED
      BY <2>1, <3>1 DEF SessionInv
  <2>4. QED
    BY <1>2, <2>2, <2>3 DEF ClaimClicked
<1>9. LoadInv'
  BY <1>4 DEF ClaimClicked, TradesInv, LoadInv
<1>10. /\ ClockInv' /\ CounterInv' /\ RepliesInv' /\ LocksInv' /\ HandedInv' /\ MineInv' /\ LateInv'
  BY <1>4, <1>5, <1>6, Parts
<1>11. QED
  BY <1>7, <1>8, <1>9, <1>10 DEF TradesInv

\* A claim or a refund is in a block.
LEMMA SentMinedStep ==
  ASSUME TradesInv, ClaimMined \/ RefundMined
  PROVE  TradesInv'
<1>1. PICK h, t : h = session.hash /\ t = session.trade
  OBVIOUS
<1>2. PICK state, status :
        /\ \/ locks' = locks
           \/ locks' = IF IsLocked(h) THEN [locks EXCEPT ![h].state = state] ELSE locks
        /\ \/ mine' = mine
           \/ mine' = Saved(h, [t EXCEPT !.status = status, !.releaseTx = TRUE])
  <2>1. CASE ClaimMined
    BY <1>1, <2>1, Zenon DEF ClaimMined, SentMined
  <2>2. CASE RefundMined
    BY <1>1, <2>2, Zenon DEF RefundMined, SentMined
  <2>3. QED
    BY <2>1, <2>2
<1>3. /\ session.pc \in {"claimSent", "refundSent"} /\ session' = Idle
      /\ UNCHANGED <<clock, serial, requests, replies, handed, orders, payments, csdTxs>>
      /\ UNCHANGED <<storage, tab, load, scan, late>>
  BY DEF ClaimMined, RefundMined, SentMined, marketVars, csdVars, talkVars, pageUnchanged
<1>4. PICK n : n = [t EXCEPT !.status = status, !.releaseTx = TRUE]
  OBVIOUS
<1>5. KeptTrade(h, n)
  <2>1. KeptTrade(h, t)
    BY <1>1, <1>3 DEF TradesInv, SessionInv
  <2>2. DOMAIN n = DOMAIN t /\ TradeShape(t)
    BY <1>4, <2>1 DEF KeptTrade, TradesInv, MineInv, TradeShape
  <2>3. n.side = t.side /\ (t.side = "sell" => n.tx = t.tx)
    BY <1>4, <2>2 DEF TradeShape, BuyFields, SaleFields
  <2>4. QED
    BY <2>1, <2>2, <2>3 DEF KeptTrade
<1>6. SameTrades(mine, mine')
  <2>1. CASE mine' = mine
    BY <2>1 DEF SameTrades
  <2>2. QED
    BY <1>2, <1>4, <1>5, <2>1, SavedSame DEF TradesInv
<1>7. LocksKept(locks, locks') /\ DOMAIN locks' = DOMAIN locks
  BY <1>2 DEF LocksKept, IsLocked, TradesInv, LocksInv, LockFields
<1>8. Kept /\ LocksFree /\ OnlyPayments
  BY <1>3, <1>6, <1>7, SameKept DEF Kept, LocksFree, OnlyPayments, IsSale, Agrees, TradesInv, ClockInv
<1>9. SessionInv' /\ LoadInv'
  BY <1>3 DEF SessionInv, Idle, TradesInv, LoadInv
<1>10. /\ ClockInv' /\ CounterInv' /\ OrdersInv' /\ RepliesInv' /\ LocksInv' /\ TxInv'
       /\ HandedInv' /\ MineInv' /\ LateInv'
  BY <1>3, <1>6, <1>7, <1>8, Parts
<1>11. QED
  BY <1>9, <1>10 DEF TradesInv

\* A payment of a maker is passed on to the CSD network.
LEMMA WatchPaymentStep ==
  ASSUME TradesInv, NEW h \in DOMAIN mine, WatchPayment(h)
  PROVE  TradesInv'
<1>1. PICK t : t = [mine[h] EXCEPT !.unconfirmed = TRUE]
  OBVIOUS
<1>2. KeptTrade(h, t)
  BY <1>1 DEF WatchPayment, KeptTrade, TradesInv, MineInv, TradeShape, BuyFields
<1>3. /\ late' = [pc |-> "saving", hash |-> h, trade |-> t]
      /\ UNCHANGED <<clock, serial, requests, replies, handed, orders, payments, locks, mine>>
      /\ UNCHANGED <<storage, tab, load, scan, session>>
  BY <1>1 DEF WatchPayment, Following, marketVars, talkVars
<1>4. SameTrades(mine, mine')
  BY <1>3 DEF SameTrades
<1>5. Kept /\ LocksFree
  BY <1>3, <1>4, KeptBy, SameKept DEF TradesInv, ClockInv
<1>6. OnlyPayments
  <2>1. PICK p \in payments : csdTxs' = Submitted(p.tx)
    BY DEF WatchPayment, BuyPayments
  <2>2. p.tx.to \in Nat
    BY DEF TradesInv, OrdersInv
  <2>3. csdTxs' \subseteq csdTxs \cup {p.tx}
    BY <2>1 DEF Submitted
  <2>4. QED
    BY <2>2, <2>3 DEF OnlyPayments
<1>7. LateInv'
  <2>1. KeptTrade(h, t)'
    BY <1>2, <1>5, Stays
  <2>2. late'.pc = "saving" /\ late'.hash = h /\ late'.trade = t
    BY <1>3
  <2>3. QED
    BY <2>1, <2>2 DEF LateInv
<1>8. SessionInv'
  BY <1>3, <1>4, <1>5, <1>6, SessionFrame DEF TradesInv, SessionInv, LongEnough, IsLocked
<1>9. /\ ClockInv' /\ CounterInv' /\ OrdersInv' /\ RepliesInv' /\ LocksInv' /\ TxInv'
      /\ HandedInv' /\ MineInv' /\ LoadInv'
  BY <1>3, <1>4, <1>5, <1>6, Parts
<1>10. QED
  BY <1>7, <1>8, <1>9 DEF TradesInv

\* CSD sent elsewhere is numbered, and nothing was locked under that number.
LEMMA SendCsdStep ==
  ASSUME TradesInv, NEW v, SendCsd(v)
  PROVE  TradesInv'
<1>1. PICK t : t = Payment(serial, tab.coins, SaleAddr(serial), v)
  OBVIOUS
<1>2. t.id = serial /\ t.to = SaleAddr(serial)
  BY <1>1 DEF Payment
<1>3. /\ csdTxs' = csdTxs \cup {t} /\ tab' = [tab EXCEPT !.coins = @ \ t.ins]
      /\ serial' = serial + 1 /\ session.pc = "idle"
      /\ UNCHANGED <<clock, requests, replies, handed, orders, payments, locks, mine>>
      /\ UNCHANGED <<storage, load, session, scan, late>>
  BY <1>1 DEF SendCsd, marketVars, talkVars
<1>4. SameTrades(mine, mine') /\ serial \in Nat /\ 0 < serial
  BY <1>3 DEF SameTrades, TradesInv, ClockInv
<1>5. Kept /\ LocksFree
  BY <1>3, <1>4, KeptBy, SameKept DEF TradesInv, ClockInv
<1>6. \A n : Name(n) => Name(n)' /\ (IsSale(n)' <=> IsSale(n)) /\ n # serial
  BY <1>5, NamesStay DEF Kept, Name
<1>7. OrdersInv'
  <2>1. ASSUME NEW o \in orders PROVE OrderInv(o)'
    <3>1. OrderInv(o) /\ Name(o.hash)
      BY DEF TradesInv, OrdersInv, OrderInv
    <3>2. t.to # SaleAddr(o.hash)
      BY <1>2, <1>4, <1>6, <3>1 DEF SaleAddr, Name
    <3>3. QED
      BY <1>3, <1>6, <3>1, <3>2 DEF OrderInv, SaleAddr
  <2>2. QED
    BY <1>3, <2>1 DEF TradesInv, OrdersInv
<1>8. TxInv'
  <2>1. \A x : SignedSale(x) => SignedSale(x)' /\ mine'[x].tx = mine[x].tx
    BY <1>5, SignedStays
  <2>2. SUFFICES ASSUME NEW x \in csdTxs'
                 PROVE  /\ x.to \in Int
                        /\ x.to < 0 =>
                             \/ SignedSale(SaleAddr(x.to))' /\ mine'[SaleAddr(x.to)].tx = {x}
                             \/ /\ x.to = SaleAddr(x.id) /\ Name(x.id)'
                                /\ ~IsSale(x.id)' /\ x.id \notin DOMAIN locks'
    BY DEF TxInv, SaleAddr
  <2>3. CASE x = t
    <3>1. Name(x.id)'
      BY <1>2, <1>3, <1>4, <2>3 DEF Name
    <3>2. ~IsSale(x.id)' /\ x.id \notin DOMAIN locks'
      BY <1>2, <1>3, <2>3, FreshNumber DEF IsSale, Agrees
    <3>3. QED
      BY <1>2, <1>4, <2>3, <3>1, <3>2 DEF SaleAddr
  <2>4. CASE x \in csdTxs
    BY <1>3, <1>6, <2>1, <2>4 DEF TradesInv, TxInv
  <2>5. QED
    BY <1>3, <2>3, <2>4
<1>9. SessionInv' /\ CounterInv'
  BY <1>3 DEF SessionInv, TradesInv, CounterInv
<1>10. /\ ClockInv' /\ RepliesInv' /\ LocksInv' /\ HandedInv' /\ MineInv' /\ LateInv' /\ LoadInv'
  BY <1>3, <1>4, <1>5, Parts
<1>11. QED
  BY <1>7, <1>8, <1>9, <1>10 DEF TradesInv

-----------------------------------------------------------------------------
(***************************************************************************)
(* Makers, the chains and time: the page stands still.                      *)
(***************************************************************************)
PageStands ==
  /\ serial' \in Nat /\ serial <= serial' /\ clock' \in Nat
  /\ UNCHANGED <<requests, handed, orders, storage, tab, load, mine, session, scan, late>>

\* What is left to be shown of a step during which the page stands still.
LEMMA OutsideStep ==
  ASSUME TradesInv, PageStands, LocksKept(locks, locks'), OnlyPayments, LocksFree,
         \A h : Name(h) => (IsSale(h)' <=> IsSale(h)),
         session.pc \in {"sellPay", "sellHand"} => LongEnough(session.answer.hash)'
  PROVE  /\ Kept
         /\ payments' = payments => OrdersInv'
         /\ replies' = replies => RepliesInv'
         /\ DOMAIN locks' = DOMAIN locks => LocksInv'
         /\ RepliesInv' /\ OrdersInv' /\ LocksInv' => TradesInv'
<1>1. SameTrades(mine, mine')
  BY DEF PageStands, SameTrades
<1>2. Kept
  BY <1>1, SameKept DEF PageStands, Kept
<1>3. SessionInv'
  BY <1>1, <1>2, SessionFrame DEF PageStands
<1>4. ClockInv' /\ CounterInv' /\ TxInv' /\ HandedInv' /\ MineInv' /\ LateInv' /\ LoadInv'
  BY <1>1, <1>2, Parts DEF PageStands
<1>5. QED
  BY <1>2, <1>3, <1>4, Parts DEF TradesInv, PageStands

\* A lock that is being paid against is as it was, if locks and clock are.
LEMMA PayingUndisturbed ==
  ASSUME TradesInv, session' = session, clock' = clock,
         \A h \in DOMAIN locks : h \in DOMAIN locks' /\ locks'[h] = locks[h],
         session.pc \in {"sellPay", "sellHand"}
  PROVE  LongEnough(session.answer.hash)'
  BY DEF TradesInv, SessionInv, LongEnough, IsLocked

\* Offers, receipts, blocks and passing time touch nothing the sale rests on.
LEMMA OtherSteps ==
  ASSUME TradesInv,
         \/ \E m \in Makers, pool \in left.pools : PublishOffer(m, pool)
         \/ PublishLookalike
         \/ \E h, tx \in DOMAIN locks, m \in Makers \cap left.parties : PublishReceipt(h, m, tx)
         \/ \E t \in csdTxs : MineTx(t)
         \/ Tick
  PROVE  TradesInv'
<1>1. PageStands /\ UNCHANGED <<replies, payments, locks, csdTxs>>
  <2>1. CASE \/ \E m \in Makers, pool \in left.pools : PublishOffer(m, pool)
             \/ PublishLookalike
             \/ \E h, tx \in DOMAIN locks, m \in Makers \cap left.parties : PublishReceipt(h, m, tx)
    <3>1. OnAon /\ UNCHANGED <<payments, orders, locks, talkVars>>
      BY <2>1 DEF PublishOffer, PublishLookalike, PublishReceipt
    <3>2. QED
      BY <3>1 DEF OnAon, PageStands, csdVars, talkVars, pageVars, TradesInv, ClockInv
  <2>2. CASE \E t \in csdTxs : MineTx(t)
    BY <2>2 DEF MineTx, CsdUnchanged, PageStands, marketVars, talkVars, pageVars, TradesInv, ClockInv
  <2>3. CASE Tick
    BY <2>3 DEF Tick, PageStands, marketVars, csdVars, talkVars, pageVars, TradesInv, ClockInv
  <2>4. QED
    BY <2>1, <2>2, <2>3
<1>2. /\ LocksKept(locks, locks') /\ OnlyPayments /\ LocksFree
      /\ \A h : Name(h) => (IsSale(h)' <=> IsSale(h))
  BY <1>1 DEF LocksKept, OnlyPayments, LocksFree, IsSale, Agrees
<1>3. session.pc \in {"sellPay", "sellHand"} => LongEnough(session.answer.hash)'
  <2>1. CASE Tick
    BY <2>1 DEF Tick
  <2>2. CASE ~Tick
    <3>1. clock' = clock
      BY <2>2 DEF PublishOffer, PublishLookalike, PublishReceipt, MineTx, OnAon, CsdUnchanged
    <3>2. QED
      BY <1>1, <3>1, PayingUndisturbed DEF PageStands
  <2>3. QED
    BY <2>1, <2>2
<1>4. QED
  BY <1>1, <1>2, <1>3, OutsideStep

\* Someone else's trade is under a number nothing was sent to.
LEMMA OthersTradeStep ==
  ASSUME TradesInv, NEW buyer, NEW recipient, NEW state, OthersTrade(buyer, recipient, state)
  PROVE  TradesInv'
<1>1. PICK lock : /\ DOMAIN lock = LockFields /\ lock.until = clock /\ lock.addr = SaleAddr(serial)
                  /\ locks' = Put(locks, serial, lock)
  <2>1. PICK lock : lock = [buyer |-> buyer, recipient |-> recipient, usdc |-> 1, csd |-> 1,
                            addr |-> SaleAddr(serial), state |-> state, until |-> clock, direct |-> TRUE]
    OBVIOUS
  <2>2. DOMAIN lock = LockFields /\ lock.until = clock /\ lock.addr = SaleAddr(serial)
    BY <2>1 DEF LockFields
  <2>3. locks' = Put(locks, serial, lock)
    BY <2>1, Zenon DEF OthersTrade
  <2>4. QED
    BY <2>2, <2>3
<1>2. /\ serial' = serial + 1 /\ clock' = clock
      /\ UNCHANGED <<replies, payments, csdTxs>> /\ PageStands
  BY DEF OthersTrade, OnAon, marketVars, csdVars, talkVars, pageVars, PageStands, TradesInv, ClockInv
<1>3. serial \in Nat /\ 0 < serial /\ clock \in Nat
  BY DEF TradesInv, ClockInv
<1>4. /\ DOMAIN locks' = DOMAIN locks \cup {serial} /\ locks'[serial] = lock
      /\ \A h \in DOMAIN locks : locks'[h] = locks[h]
  BY <1>1, FreshNumber DEF Put
<1>5. /\ LocksKept(locks, locks') /\ OnlyPayments /\ LocksFree
      /\ \A h : IsSale(h)' <=> IsSale(h)
  BY <1>2, <1>4, FreshNumber DEF LocksKept, OnlyPayments, LocksFree, IsSale, Agrees
<1>6. session.pc \in {"sellPay", "sellHand"} => LongEnough(session.answer.hash)'
  BY <1>2, <1>4, PayingUndisturbed DEF PageStands
<1>7. LocksInv'
  <2>1. PICK n : n = serial
    OBVIOUS
  <2>2. Name(n)'
    BY <1>2, <1>3, <2>1 DEF Name
  <2>3. \A h : Name(h) => Name(h)'
    BY <1>2, <1>3 DEF Name
  <2>4. lock.until \in Int /\ ~IsSale(n)'
    BY <1>1, <1>3, <1>5, <2>1, FreshNumber
  <2>5. QED
    BY <1>1, <1>4, <1>5, <2>1, <2>2, <2>3, <2>4 DEF TradesInv, LocksInv, SaleAddr
<1>8. QED
  BY <1>2, <1>5, <1>6, <1>7, OutsideStep

\* A lock is taken for an order, or for a sale that was agreed.
LEMMA LockingStep ==
  ASSUME TradesInv, NEW h, NEW lock, Locking(h, lock), Name(h), DOMAIN lock = LockFields, lock.until \in Int,
         IsSale(h) => lock.addr = SaleAddr(h),
         IsSale(h) \/ \A t \in csdTxs : t.to # SaleAddr(h)
  PROVE  TradesInv'
<1>1. /\ PageStands /\ clock' = clock /\ serial' = serial
      /\ UNCHANGED <<replies, payments, csdTxs>>
  BY DEF Locking, marketVars, csdVars, talkVars, pageVars, PageStands, TradesInv, ClockInv
<1>2. /\ DOMAIN locks' = DOMAIN locks \cup {h} /\ locks'[h] = lock
      /\ \A x \in DOMAIN locks : locks'[x] = locks[x]
  BY DEF Locking, Put
<1>3. /\ LocksKept(locks, locks') /\ OnlyPayments /\ LocksFree
      /\ \A x : IsSale(x)' <=> IsSale(x)
      /\ \A x : Name(x)' <=> Name(x)
  BY <1>1, <1>2 DEF LocksKept, OnlyPayments, LocksFree, IsSale, Agrees, Name
<1>4. session.pc \in {"sellPay", "sellHand"} => LongEnough(session.answer.hash)'
  BY <1>1, <1>2, PayingUndisturbed DEF PageStands
<1>5. LocksInv'
  BY <1>2, <1>3 DEF TradesInv, LocksInv, SaleAddr
<1>6. QED
  BY <1>1, <1>3, <1>4, <1>5, OutsideStep

LEMMA LockBuyStep ==
  ASSUME TradesInv, NEW o \in orders, LockBuy(o)
  PROVE  TradesInv'
<1>1. PICK lock : lock = [buyer |-> Me, recipient |-> o.maker, usdc |-> o.usdc, csd |-> o.csd, addr |-> o.addr,
                          state |-> "locked", until |-> clock + LockTime, direct |-> TRUE]
  OBVIOUS
<1>2. Locking(o.hash, lock)
  BY <1>1, Zenon DEF LockBuy
<1>3. DOMAIN lock = LockFields /\ lock.until = clock + LockTime
  BY <1>1 DEF LockFields
<1>4. clock \in Nat /\ LockTime \in Nat
  BY TradesAssumption DEF TradesInv, ClockInv
<1>5. OrderInv(o)
  BY DEF TradesInv, OrdersInv
<1>6. QED
  BY <1>2, <1>3, <1>4, <1>5, LockingStep DEF OrderInv

LEMMA LockSaleStep ==
  ASSUME TradesInv, NEW r \in requests, NEW direct, NEW for \in {ClaimTime, SaleLockTime},
         LockSale(r, direct, for)
  PROVE  TradesInv'
<1>1. PICK h : h = replies[r.id].hash
  OBVIOUS
<1>2. PICK lock :
        lock = [buyer |-> r.maker, recipient |-> Me, usdc |-> replies[r.id].usdc + ExecutorFee, csd |-> r.csd,
                addr |-> SaleAddr(h), state |-> "locked", until |-> clock + for, direct |-> direct]
  OBVIOUS
<1>3. Locking(h, lock)
  BY <1>1, <1>2, Zenon DEF LockSale
<1>4. DOMAIN lock = LockFields /\ lock.until = clock + for /\ lock.addr = SaleAddr(h)
  BY <1>2 DEF LockFields
<1>5. clock \in Nat /\ for \in Nat
  BY TradesAssumption DEF TradesInv, ClockInv
<1>6. Name(h) /\ IsSale(h)
  BY <1>1 DEF LockSale, Answered, TradesInv, RepliesInv, IsSale
<1>7. QED
  BY <1>3, <1>4, <1>5, <1>6, LockingStep

\* A trade that ends on Ethereum is not one whose payment is being made: that
\* one has no payment to prove, none that was seen, and time left.
LEMMA FinalSteps ==
  ASSUME TradesInv, NEW h \in DOMAIN locks, Prove(h) \/ ReleaseSale(h) \/ MakerRefunds(h)
  PROVE  TradesInv'
<1>1. PICK state : locks' = [locks EXCEPT ![h].state = state]
  BY DEF Prove, ReleaseSale, MakerRefunds, BecomesFinal
<1>2. /\ PageStands /\ clock' = clock /\ UNCHANGED <<replies, payments, csdTxs>>
  BY DEF Prove, ReleaseSale, MakerRefunds, BecomesFinal, CsdUnchanged, marketVars, csdVars, talkVars,
         pageVars, PageStands, TradesInv, ClockInv
<1>3. /\ DOMAIN locks' = DOMAIN locks
      /\ \A x \in DOMAIN locks : x # h => locks'[x] = locks[x]
      /\ LocksKept(locks, locks')
  BY <1>1 DEF LocksKept, TradesInv, LocksInv, LockFields
<1>4. OnlyPayments /\ LocksFree /\ \A x : IsSale(x)' <=> IsSale(x)
  BY <1>2, <1>3 DEF OnlyPayments, LocksFree, IsSale, Agrees
<1>5. ASSUME session.pc \in {"sellPay", "sellHand"}
      PROVE  LongEnough(session.answer.hash)'
  <2>1. PICK a : a = session.answer.hash
    OBVIOUS
  <2>2. LongEnough(a)
    BY <1>5, <2>1 DEF TradesInv, SessionInv
  <2>3. Name(a) /\ IsSale(a) /\ Unsent(a)
    <3>1. CASE session.pc = "sellPay"
      <4>1. Saving(a)
        BY <2>1, <3>1 DEF TradesInv, SessionInv
      <4>2. Name(a) /\ IsSale(a) /\ ~SignedSale(a)
        BY <4>1 DEF Saving, SignedSale, TradesInv, MineInv
      <4>3. QED
        BY <4>2, UnsignedUnsent
    <3>2. CASE session.pc = "sellHand"
      BY <2>1, <3>2 DEF TradesInv, SessionInv, Paying, SignedSale, MineInv
    <3>3. QED
      BY <1>5, <3>1, <3>2
  <2>4. a # h
    <3>1. locks[a].addr = SaleAddr(a) /\ locks[a].until \in Int /\ clock \in Nat /\ ClaimTime \in Nat
      BY <2>2, <2>3, TradesAssumption DEF LongEnough, IsLocked, TradesInv, LocksInv, ClockInv
    <3>2. CASE Prove(h)
      BY <2>3, <3>1, <3>2 DEF Prove, Delivered, Unsent
    <3>3. CASE ReleaseSale(h)
      BY <2>3, <3>3 DEF ReleaseSale, PaymentSeen, Unsent
    <3>4. CASE MakerRefunds(h)
      BY <2>2, <3>1, <3>4 DEF MakerRefunds, Expired, LongEnough
    <3>5. QED
      BY <3>2, <3>3, <3>4
  <2>5. QED
    BY <1>2, <1>3, <2>1, <2>2, <2>4 DEF LongEnough, IsLocked, PageStands
<1>6. QED
  BY <1>2, <1>3, <1>4, <1>5, OutsideStep

\* A maker's answer that agrees to no sale.
LEMMA PlainAnswerStep ==
  ASSUME TradesInv, NEW i, NEW a, Name(i), i \notin DOMAIN replies, "hash" \notin DOMAIN a,
         a.accepted => \A r \in requests : r.id # i,
         replies' = Put(replies, i, a), OnAon, UNCHANGED <<marketVars, locks, requests, handed>>
  PROVE  TradesInv'
<1>1. /\ PageStands /\ clock' = clock /\ serial' = serial + 1
      /\ UNCHANGED <<payments, locks, csdTxs>>
  BY DEF OnAon, marketVars, csdVars, pageVars, PageStands, TradesInv, ClockInv
<1>2. /\ DOMAIN replies' = DOMAIN replies \cup {i} /\ replies'[i] = a
      /\ \A x \in DOMAIN replies : replies'[x] = replies[x]
  BY DEF Put
<1>3. /\ LocksKept(locks, locks') /\ OnlyPayments /\ LocksFree
      /\ \A h : IsSale(h)' <=> IsSale(h)
      /\ \A n : Name(n) => Name(n)'
  BY <1>1, <1>2 DEF LocksKept, OnlyPayments, LocksFree, IsSale, Agrees, Name, TradesInv, ClockInv
<1>4. session.pc \in {"sellPay", "sellHand"} => LongEnough(session.answer.hash)'
  BY <1>1, PayingUndisturbed DEF PageStands
<1>5. RepliesInv'
  BY <1>1, <1>2, <1>3 DEF TradesInv, RepliesInv, Agrees, PageStands
<1>6. QED
  BY <1>1, <1>3, <1>4, <1>5, OutsideStep

LEMMA AnswerSteps ==
  ASSUME TradesInv,
         \/ \E o \in orders, yes \in BOOLEAN : AnswerOrder(o, yes)
         \/ \E r \in requests : DeclineRequest(r)
  PROVE  TradesInv'
<1>1. CASE \E o \in orders, yes \in BOOLEAN : AnswerOrder(o, yes)
  <2>1. PICK o \in orders, yes \in BOOLEAN : AnswerOrder(o, yes)
    BY <1>1
  <2>2. OrderInv(o) /\ Name(o.id) /\ \A r \in requests : r.id # o.id
    BY DEF TradesInv, OrdersInv, OrderInv
  <2>3. PICK a : a = [accepted |-> yes]
    OBVIOUS
  <2>4. "hash" \notin DOMAIN a
    BY <2>3
  <2>5. /\ o.id \notin DOMAIN replies /\ replies' = Put(replies, o.id, a)
        /\ OnAon /\ UNCHANGED <<marketVars, locks, requests, handed>>
    BY <2>1, <2>3 DEF AnswerOrder
  <2>6. QED
    BY <2>2, <2>4, <2>5, PlainAnswerStep
<1>2. CASE \E r \in requests : DeclineRequest(r)
  <2>1. PICK r \in requests : DeclineRequest(r)
    BY <1>2
  <2>2. Name(r.id)
    BY DEF TradesInv, RepliesInv
  <2>3. PICK a : a = [accepted |-> FALSE]
    OBVIOUS
  <2>4. "hash" \notin DOMAIN a /\ ~a.accepted
    BY <2>3
  <2>5. /\ r.id \notin DOMAIN replies /\ replies' = Put(replies, r.id, a)
        /\ OnAon /\ UNCHANGED <<marketVars, locks, requests, handed>>
    BY <2>1, <2>3 DEF DeclineRequest
  <2>6. QED
    BY <2>2, <2>4, <2>5, PlainAnswerStep
<1>3. QED
  BY <1>1, <1>2

\* A sale that is agreed gets a number above the request and all else.
LEMMA AnswerRequestStep ==
  ASSUME TradesInv, NEW r \in requests, AnswerRequest(r)
  PROVE  TradesInv'
<1>1. PICK a : "hash" \in DOMAIN a /\ a.hash = serial /\ replies' = Put(replies, r.id, a)
  <2>1. PICK usdc, conf, honest :
          replies' = Put(replies, r.id, [accepted |-> TRUE, hash |-> serial, maker |-> r.maker, csd |-> r.csd,
                                        usdc |-> usdc, conf |-> conf, honest |-> honest])
    BY Zenon DEF AnswerRequest
  <2>2. PICK a : a = [accepted |-> TRUE, hash |-> serial, maker |-> r.maker, csd |-> r.csd,
                      usdc |-> usdc, conf |-> conf, honest |-> honest]
    OBVIOUS
  <2>3. "hash" \in DOMAIN a /\ a.hash = serial
    BY <2>2
  <2>4. replies' = Put(replies, r.id, a)
    BY <2>1, <2>2
  <2>5. QED
    BY <2>3, <2>4
<1>2. /\ PageStands /\ clock' = clock /\ serial' = serial + 1 /\ r.id \notin DOMAIN replies
      /\ UNCHANGED <<payments, locks, csdTxs>>
  BY DEF AnswerRequest, OnAon, marketVars, csdVars, pageVars, PageStands, TradesInv, ClockInv
<1>3. /\ DOMAIN replies' = DOMAIN replies \cup {r.id} /\ replies'[r.id] = a
      /\ \A x \in DOMAIN replies : replies'[x] = replies[x]
  BY <1>1, <1>2 DEF Put
<1>4. /\ \A n : Name(n) => Name(n)'
      /\ serial \in Nat /\ 0 < serial
  BY <1>2 DEF Name, TradesInv, ClockInv
<1>5. /\ LocksKept(locks, locks') /\ OnlyPayments /\ LocksFree
      /\ \A h : Name(h) => (IsSale(h)' <=> IsSale(h))
  BY <1>1, <1>2, <1>3 DEF LocksKept, OnlyPayments, LocksFree, IsSale, Agrees, Name
<1>6. session.pc \in {"sellPay", "sellHand"} => LongEnough(session.answer.hash)'
  BY <1>2, PayingUndisturbed DEF PageStands
<1>7. RepliesInv'
  <2>1. Name(r.id)
    BY DEF TradesInv, RepliesInv
  <2>2. PICK n : n = a.hash
    OBVIOUS
  <2>3. Name(n)' /\ r.id < n
    BY <1>1, <1>2, <1>4, <2>1, <2>2 DEF Name
  <2>4. \A x \in requests' : Name(x.id)'
    BY <1>2, <1>4 DEF TradesInv, RepliesInv, PageStands
  <2>5. ASSUME NEW i \in DOMAIN replies', NEW m, m = replies'[i].hash
        PROVE  /\ Name(i)'
               /\ replies'[i].accepted /\ (\E x \in requests' : x.id = i) => "hash" \in DOMAIN replies'[i]
               /\ "hash" \in DOMAIN replies'[i] => Name(m)' /\ i < m
    <3>1. CASE i = r.id
      <4>1. m = n /\ "hash" \in DOMAIN replies'[i]
        BY <1>1, <1>3, <2>2, <2>5, <3>1
      <4>2. Name(i)'
        BY <1>4, <2>1, <3>1
      <4>3. QED
        BY <2>3, <3>1, <4>1, <4>2
    <3>2. CASE i # r.id
      BY <1>2, <1>3, <1>4, <2>5, <3>2 DEF TradesInv, RepliesInv, Agrees, PageStands
    <3>3. QED
      BY <3>1, <3>2
  <2>6. QED
    BY <2>4, <2>5 DEF RepliesInv, Agrees
<1>8. QED
  BY <1>2, <1>5, <1>6, <1>7, OutsideStep

\* A maker announces the payment of a buy, or anyone passes one on.
LEMMA PaymentSteps ==
  ASSUME TradesInv,
         \/ \E o \in orders : PublishPayment(o)
         \/ \E p \in payments : Broadcast(p)
  PROVE  TradesInv'
<1>1. CASE \E o \in orders : PublishPayment(o)
  <2>1. PICK o \in orders : PublishPayment(o)
    BY <1>1
  <2>2. PICK p : p.tx.to \in {o.addr, SomebodyElse} /\ payments' = payments \cup {p}
    <3>1. PICK value \in {o.csd, o.csd - 1} \ {0}, to \in {o.addr, SomebodyElse} :
            payments' = payments \cup
              {[id |-> serial, signer |-> o.maker, at |-> clock, hash |-> o.hash, refers |-> o.id,
                tx |-> [id |-> serial, ins |-> {}, to |-> to, value |-> value, change |-> 0]]}
      BY <2>1, Zenon DEF PublishPayment
    <3>2. PICK p : p = [id |-> serial, signer |-> o.maker, at |-> clock, hash |-> o.hash, refers |-> o.id,
                        tx |-> [id |-> serial, ins |-> {}, to |-> to, value |-> value, change |-> 0]]
      OBVIOUS
    <3>3. p.tx.to \in {o.addr, SomebodyElse}
      BY <3>2
    <3>4. payments' = payments \cup {p}
      BY <3>1, <3>2, Zenon
    <3>5. QED
      BY <3>3, <3>4
  <2>3. /\ PageStands /\ clock' = clock /\ UNCHANGED <<replies, locks, csdTxs>>
    BY <2>1 DEF PublishPayment, OnAon, csdVars, talkVars, pageVars, PageStands, TradesInv, ClockInv
  <2>4. /\ LocksKept(locks, locks') /\ OnlyPayments /\ LocksFree
        /\ \A h : IsSale(h)' <=> IsSale(h)
    BY <2>3 DEF LocksKept, OnlyPayments, LocksFree, IsSale, Agrees
  <2>5. session.pc \in {"sellPay", "sellHand"} => LongEnough(session.answer.hash)'
    BY <2>3, PayingUndisturbed DEF PageStands
  <2>6. Kept /\ RepliesInv' /\ LocksInv'
    BY <2>3, <2>4, <2>5, OutsideStep
  <2>7. OrdersInv'
    <3>1. \A x : OrderInv(x) => OrderInv(x)'
      BY <2>3, <2>4, <2>6, Stays DEF PageStands
    <3>2. o.addr \in Nat /\ SomebodyElse \in Nat
      BY TradesAssumption DEF TradesInv, OrdersInv, OrderInv, SomebodyElse
    <3>3. \A x \in orders' : OrderInv(x)'
      BY <2>3, <3>1 DEF PageStands, TradesInv, OrdersInv
    <3>4. QED
      BY <2>2, <3>2, <3>3 DEF TradesInv, OrdersInv
  <2>8. QED
    BY <2>3, <2>4, <2>5, <2>6, <2>7, OutsideStep
<1>2. CASE \E p \in payments : Broadcast(p)
  <2>1. PICK p \in payments : Broadcast(p)
    BY <1>2
  <2>2. p.tx.to \in Nat
    BY DEF TradesInv, OrdersInv
  <2>3. /\ PageStands /\ clock' = clock /\ csdTxs' = csdTxs \cup {p.tx}
        /\ UNCHANGED <<replies, payments, locks>>
    BY <2>1 DEF Broadcast, CsdUnchanged, marketVars, talkVars, pageVars, PageStands, TradesInv, ClockInv
  <2>4. /\ LocksKept(locks, locks') /\ OnlyPayments /\ LocksFree
        /\ \A h : IsSale(h)' <=> IsSale(h)
    BY <2>2, <2>3 DEF LocksKept, OnlyPayments, LocksFree, IsSale, Agrees
  <2>5. session.pc \in {"sellPay", "sellHand"} => LongEnough(session.answer.hash)'
    BY <2>3, PayingUndisturbed DEF PageStands
  <2>6. QED
    BY <2>3, <2>4, <2>5, OutsideStep
<1>3. QED
  BY <1>1, <1>2

-----------------------------------------------------------------------------
(***************************************************************************)
(* The theorem.                                                             *)
(***************************************************************************)
LEMMA InitInv ==
  ASSUME Init
  PROVE  TradesInv
<1>1. PICK s \in DOMAIN Scenarios :
        /\ clock = Scenarios[s].clock /\ csdTxs = Scenarios[s].txs
        /\ payments = {} /\ orders = {} /\ requests = {} /\ handed = {}
        /\ DOMAIN locks = {} /\ DOMAIN replies = {} /\ DOMAIN mine = {}
        /\ "next" \in DOMAIN storage /\ storage.next = 1
        /\ "nextIndex" \in DOMAIN tab /\ tab.nextIndex = 1
        /\ load.pc = "idle" /\ "pc" \in DOMAIN session /\ session.pc = "idle"
        /\ scan.pc = "idle" /\ late.pc = "idle" /\ serial = 10
  BY DEF Init, NewTab, Idle
<1>2. clock \in Nat /\ \A t \in csdTxs : t.to \in Nat
  BY <1>1, TradesAssumption
<1>3. /\ ClockInv /\ CounterInv /\ OrdersInv /\ RepliesInv /\ LocksInv
      /\ HandedInv /\ MineInv /\ LateInv /\ LoadInv
  BY <1>1, <1>2 DEF ClockInv, CounterInv, OrdersInv, RepliesInv, LocksInv, HandedInv, MineInv, LateInv, LoadInv
<1>4. TxInv
  BY <1>2 DEF TxInv
<1>5. SessionInv
  BY <1>1 DEF SessionInv
<1>6. QED
  BY <1>3, <1>4, <1>5 DEF TradesInv

\* No step leads out of the invariant, and a stutter does not either.
LEMMA NextInv ==
  ASSUME TradesInv, [Next]_vars
  PROVE  TradesInv'
<1>1. CASE Buy
  BY <1>1, QuietClicks, BuyPreparedStep, BuyPublishedStep, BuyNotPublishedStep, BuyAnsweredStep DEF Buy
<1>2. CASE Sell
  BY <1>2, QuietClicks, SellRequestedStep, SellAcceptedStep, SellCheckedStep, SellLockSeenStep,
     SellSignedStep, SellHandedStep, SellSubmittedStep, SellDoneStep DEF Sell
<1>3. CASE ClaimAndRefund
  BY <1>3, ClaimClickedStep, RefundClickedStep, SentMinedStep DEF ClaimAndRefund
<1>4. CASE Follow
  BY <1>4, FollowStep, WatchPaymentStep, LateSaveStep DEF Follow
<1>5. CASE Market
  BY <1>5, LoadSteps DEF Market
<1>6. CASE Wallet
  BY <1>6, ScanSteps, SendCsdStep DEF Wallet
<1>7. CASE Reload
  BY <1>7, ReloadStep
<1>8. CASE MakersAct
  BY <1>8, OtherSteps, OthersTradeStep, AnswerSteps, AnswerRequestStep, LockBuyStep, LockSaleStep,
     PaymentSteps DEF MakersAct
<1>9. CASE ChainsAct
  BY <1>9, PaymentSteps, OtherSteps, FinalSteps DEF ChainsAct
<1>10. CASE Tick
  BY <1>10, OtherSteps
<1>11. CASE UNCHANGED vars
  <2>1. PageOnly /\ UNCHANGED <<storage, tab, load, session, scan, late>>
    BY <1>11 DEF vars, marketVars, csdVars, talkVars, pageVars, PageOnly, tableVars, SameTrades,
       TradesInv, ClockInv
  <2>2. SessionInv' /\ LateInv' /\ CounterInv' /\ LoadInv'
    BY <2>1, BackgroundStep DEF TradesInv, CounterInv, LoadInv
  <2>3. QED
    BY <2>1, <2>2, PageStep
<1>12. QED
  BY <1>1, <1>2, <1>3, <1>4, <1>5, <1>6, <1>7, <1>8, <1>9, <1>10, <1>11 DEF Next

\* The invariant says what a seller needs: a payment of a lock is one that is
\* signed and kept, since only a sale that is kept is paid to its address.
LEMMA InvClaimable ==
  ASSUME TradesInv
  PROVE  PaymentsStayClaimable
<1>1. ASSUME NEW h \in DOMAIN locks, NEW t \in csdTxs, t.to = SaleAddr(h)
      PROVE  SignedSale(h) /\ mine[h].tx = {t}
  <2>1. Name(h)
    BY DEF TradesInv, LocksInv
  <2>2. t.to < 0 /\ SaleAddr(t.to) = h
    BY <1>1, <2>1, SaleAddrNegative
  <2>3. t.to = SaleAddr(t.id) /\ Name(t.id) => t.id = h
    BY <1>1, <2>1 DEF SaleAddr, Name
  <2>4. QED
    BY <2>2, <2>3 DEF TradesInv, TxInv
<1>2. ASSUME NEW h \in DOMAIN locks, PaymentSeen(h)
      PROVE  /\ h \in DOMAIN mine /\ locks[h].direct
             /\ \A t \in csdTxs : t.to = SaleAddr(h) => mine[h].tx = {t}
             /\ mine[h].tx # NotPaid
  <2>1. SignedSale(h)
    BY <1>1, <1>2 DEF PaymentSeen, TradesInv, HandedInv
  <2>2. QED
    BY <1>1, <2>1 DEF SignedSale
<1>3. ASSUME NEW t \in csdTxs, t.to < 0, t.to # SaleAddr(t.id)
      PROVE  SaleAddr(t.to) \in DOMAIN locks
  BY <1>3 DEF TradesInv, TxInv, SignedSale
<1>4. session.pc = "sellHand" => LongEnough(session.answer.hash)
  BY DEF TradesInv, SessionInv
<1>5. QED
  BY <1>2, <1>3, <1>4 DEF PaymentsStayClaimable

\* A seller's CSD payment leaves the browser only against a lock under the hash of
\* the sale that anybody can settle and that leaves time to claim, and from then on
\* the saved trade holds the payment a claim needs, whatever is reloaded, saved
\* late, lied or lost (sell, claim and the loops of app/csd/page.tsx).
THEOREM SellersCanClaim == Spec => []PaymentsStayClaimable
<1>1. Init => TradesInv
  BY InitInv
<1>2. TradesInv /\ [Next]_vars => TradesInv'
  BY NextInv
<1>3. TradesInv => PaymentsStayClaimable
  BY InvClaimable
<1>4. QED
  BY <1>1, <1>2, <1>3, PTL DEF Spec

-----------------------------------------------------------------------------
(***************************************************************************)
(* What cannot be undone on the two chains.                                 *)
(***************************************************************************)
\* A trade of m's with somebody else was settled with a proof.
SettledTrade(m) ==
  \E h \in DOMAIN locks : /\ locks[h].state = "settled"
                          /\ m \in {locks[h].buyer, locks[h].recipient}
                          /\ locks[h].buyer # locks[h].recipient
\* A trade was paid out, or the payment published for it is in a block.
Happened(h) == h \in DOMAIN locks /\ (WasPaidOut(h) \/ DeliveredFor(h))

\* A lock that ended stays as it ended; blocks are not undone.
LocksEnd(old, new) ==
  /\ DOMAIN old \subseteq DOMAIN new
  /\ \A h \in DOMAIN old : /\ new[h].addr = old[h].addr /\ new[h].buyer = old[h].buyer
                           /\ new[h].recipient = old[h].recipient /\ new[h].csd = old[h].csd
                           /\ old[h].state # "locked" => new[h].state = old[h].state
ChainsGrow ==
  /\ LocksEnd(locks, locks') /\ csdTxs \subseteq csdTxs' /\ DOMAIN mined \subseteq DOMAIN mined'
  /\ payments \subseteq payments'

LEMMA FactsStay ==
  ASSUME ChainsGrow
  PROVE  /\ \A m : SettledTrade(m) => SettledTrade(m)'
         /\ \A h : WasPaidOut(h) => WasPaidOut(h)'
         /\ \A h : Happened(h) => Happened(h)'
<1>1. \A m : SettledTrade(m) => SettledTrade(m)'
  BY DEF ChainsGrow, LocksEnd, SettledTrade
<1>2. \A h : WasPaidOut(h) => WasPaidOut(h)'
  BY DEF ChainsGrow, LocksEnd, WasPaidOut
<1>3. \A h \in DOMAIN locks : DeliveredFor(h) => DeliveredFor(h)'
  BY DEF ChainsGrow, LocksEnd, DeliveredFor
<1>4. \A h \in DOMAIN locks : h \in DOMAIN locks'
  BY DEF ChainsGrow, LocksEnd
<1>5. QED
  BY <1>1, <1>2, <1>3, <1>4 DEF Happened

\* A lock is written once, and then only its state, while it is locked.
LEMMA SameLocks ==
  ASSUME locks' = locks
  PROVE  LocksEnd(locks, locks')
  BY DEF LocksEnd

LEMMA LockAdded ==
  ASSUME NEW h, h \notin DOMAIN locks, NEW lock, locks' = Put(locks, h, lock)
  PROVE  LocksEnd(locks, locks') /\ DOMAIN locks' = DOMAIN locks \cup {h} /\ locks'[h] = lock
<1>1. \A x \in DOMAIN locks : x # h /\ locks'[x] = locks[x]
  BY DEF Put
<1>2. DOMAIN locks' = DOMAIN locks \cup {h} /\ locks'[h] = lock
  BY DEF Put
<1>3. QED
  BY <1>1, <1>2 DEF LocksEnd

LEMMA LockEnded ==
  ASSUME LocksInv, NEW h, NEW state, locks' = [locks EXCEPT ![h].state = state], IsLocked(h)
  PROVE  LocksEnd(locks, locks') /\ DOMAIN locks' = DOMAIN locks
<1>1. DOMAIN locks' = DOMAIN locks /\ \A x \in DOMAIN locks : x # h => locks'[x] = locks[x]
  OBVIOUS
<1>2. h \in DOMAIN locks /\ locks[h].state = "locked" /\ DOMAIN locks[h] = LockFields
  BY DEF IsLocked, LocksInv
<1>3. /\ locks'[h].addr = locks[h].addr /\ locks'[h].buyer = locks[h].buyer
      /\ locks'[h].recipient = locks[h].recipient /\ locks'[h].csd = locks[h].csd
  BY <1>2 DEF LockFields
<1>4. QED
  BY <1>1, <1>2, <1>3 DEF LocksEnd

LEMMA StepsGrow ==
  ASSUME TradesInv, [Next]_vars
  PROVE  ChainsGrow
<1>1. CASE Buy \/ Market \/ Reload \/ Tick \/ UNCHANGED vars
  BY <1>1, SameLocks DEF Buy, BuyClicked, BuyRefused, BuyPrepared, BuyPublished, BuyNotPublished,
     BuyAccepted, BuyDeclined, BuyUnanswered, Market, TimerLoads, SessionLoads, LoadReads, LoadEnds,
     Reload, Tick, vars, outsideUnchanged, marketVars, csdVars, ChainsGrow
<1>2. CASE Sell
  BY <1>2, SameLocks DEF Sell, SellClicked, SellRefused, SellPrepared, SellRequested, SellFails,
     SellAccepted, SellNotAccepted, SellChecked, SellLockSeen, SellGivesUp, SellSigned, SellHanded,
     SellSubmitted, SellDone, Submitted, outsideUnchanged, marketVars, csdVars, ChainsGrow
<1>3. CASE ClaimAndRefund
  <2>1. CASE \E h \in DOMAIN mine : ClaimClicked(h) \/ RefundClicked(h)
    BY <2>1, SameLocks DEF ClaimClicked, RefundClicked, Submitted, outsideUnchanged, marketVars, csdVars,
       ChainsGrow
  <2>2. ASSUME NEW pc, NEW state, NEW status, SentMined(pc, state, status)
        PROVE  ChainsGrow
    <3>1. PICK h : h = session.hash
      OBVIOUS
    <3>2. LocksEnd(locks, locks')
      <4>1. locks' = locks \/ (IsLocked(h) /\ locks' = [locks EXCEPT ![h].state = state])
        BY <2>2, <3>1 DEF SentMined
      <4>2. QED
        BY <4>1, LockEnded, SameLocks DEF TradesInv
    <3>3. QED
      BY <2>2, <3>2 DEF SentMined, marketVars, csdVars, ChainsGrow
  <2>3. QED
    BY <1>3, <2>1, <2>2 DEF ClaimAndRefund, ClaimMined, RefundMined
<1>4. CASE Follow
  BY <1>4, SameLocks DEF Follow, FollowFailedBuy, FollowSale, FollowReceipt, WatchPayment, LateSave,
     Following, Submitted, marketVars, csdVars, ChainsGrow
<1>5. CASE Wallet
  BY <1>5, SameLocks DEF Wallet, ScanStarts, ScanEnds, SendCsd, marketVars, csdVars, ChainsGrow
<1>6. CASE MakersAct
  <2>1. csdTxs' = csdTxs /\ mined' = mined /\ payments \subseteq payments'
    BY <1>6 DEF MakersAct, PublishOffer, PublishLookalike, OthersTrade, PublishReceipt, AnswerOrder,
       LockBuy, PublishPayment, AnswerRequest, DeclineRequest, LockSale, Locking, OnAon, marketVars, csdVars
  <2>2. CASE \E b, r \in left.parties, state \in {"settled", "released"} : OthersTrade(b, r, state)
    <3>1. PICK lock : locks' = Put(locks, serial, lock)
      BY <2>2, Zenon DEF OthersTrade
    <3>2. serial \notin DOMAIN locks
      BY FreshNumber
    <3>3. QED
      BY <2>1, <3>1, <3>2, LockAdded DEF ChainsGrow
  <2>3. CASE \E h, lock : Locking(h, lock)
    <3>1. PICK h, lock : Locking(h, lock)
      BY <2>3
    <3>2. QED
      BY <2>1, <3>1, LockAdded DEF Locking, ChainsGrow
  <2>4. CASE locks' = locks
    BY <2>1, <2>4, SameLocks DEF ChainsGrow
  <2>5. QED
    <3>1. \A o : LockBuy(o) => \E h, lock : Locking(h, lock)
      BY Zenon DEF LockBuy
    <3>2. \A r, direct, for : LockSale(r, direct, for) => \E h, lock : Locking(h, lock)
      BY Zenon DEF LockSale
    <3>3. QED
      BY <1>6, <2>2, <2>3, <2>4, <3>1, <3>2 DEF MakersAct, PublishOffer, PublishLookalike,
         PublishReceipt, AnswerOrder, PublishPayment, AnswerRequest, DeclineRequest
<1>7. CASE ChainsAct
  <2>1. CASE (\E p \in payments : Broadcast(p)) \/ \E t \in csdTxs : MineTx(t)
    BY <2>1, SameLocks DEF Broadcast, MineTx, CsdUnchanged, marketVars, Put, ChainsGrow
  <2>2. CASE \E h \in DOMAIN locks : Prove(h) \/ ReleaseSale(h) \/ MakerRefunds(h)
    <3>1. PICK h, state : IsLocked(h) /\ BecomesFinal(h, state)
      BY <2>2 DEF Prove, ReleaseSale, MakerRefunds, Expired
    <3>2. QED
      BY <3>1, LockEnded DEF BecomesFinal, TradesInv, CsdUnchanged, marketVars, csdVars, ChainsGrow
  <2>3. QED
    BY <1>7, <2>1, <2>2 DEF ChainsAct
<1>8. QED
  BY <1>1, <1>2, <1>3, <1>4, <1>5, <1>6, <1>7 DEF Next

-----------------------------------------------------------------------------
(***************************************************************************)
(* Orders and the locks taken for them.                                     *)
(***************************************************************************)
LockStates == {"locked", "settled", "released", "refunded"}
\* An order's lock is the one it asks for; the order being published has none yet.
AsOrdered(lock, o) == lock.addr = o.addr /\ lock.csd = o.csd /\ lock.recipient = o.maker
NotYetPublic(h) == h \notin DOMAIN locks /\ \A o \in orders : o.hash # h
PublicInv ==
  /\ \A o \in orders : o.hash \in DOMAIN locks => AsOrdered(locks[o.hash], o)
  /\ \A o, p \in orders : o.hash = p.hash => o = p
  /\ session.pc = "buyPut" => NotYetPublic(session.order.hash)
  /\ \A h \in DOMAIN locks : locks[h].state \in LockStates

\* Where the locks and the orders stay as they are, or only states change.
LEMMA PublicKept ==
  ASSUME PublicInv, LocksEnd(locks, locks'), DOMAIN locks' = DOMAIN locks,
         \A h \in DOMAIN locks' : locks'[h].state \in LockStates,
         orders' = orders, session'.pc = "buyPut" => session' = session
  PROVE  PublicInv'
  BY DEF PublicInv, NotYetPublic, LocksEnd, AsOrdered

LEMMA PublicSame ==
  ASSUME PublicInv, locks' = locks, orders' = orders, session'.pc = "buyPut" => session' = session
  PROVE  PublicInv'
  BY PublicKept, SameLocks DEF PublicInv

LEMMA PublicOrdered ==
  ASSUME PublicInv, session.pc = "buyPut", locks' = locks,
         orders' \in {orders, orders \cup {session.order}}, session'.pc # "buyPut"
  PROVE  PublicInv'
  BY DEF PublicInv, NotYetPublic

LEMMA PublicEnded ==
  ASSUME TradesInv, PublicInv, NEW h, NEW state \in LockStates, IsLocked(h),
         locks' = [locks EXCEPT ![h].state = state], orders' = orders,
         session'.pc = "buyPut" => session' = session
  PROVE  PublicInv'
<1>1. LocksEnd(locks, locks') /\ DOMAIN locks' = DOMAIN locks
  BY LockEnded DEF TradesInv
<1>2. /\ h \in DOMAIN locks /\ DOMAIN locks[h] = LockFields
      /\ \A x \in DOMAIN locks : x # h => locks'[x] = locks[x]
  BY DEF IsLocked, TradesInv, LocksInv
<1>3. locks'[h].state = state
  BY <1>2 DEF LockFields
<1>4. \A x \in DOMAIN locks' : locks'[x].state \in LockStates
  BY <1>1, <1>2, <1>3 DEF PublicInv
<1>5. QED
  BY <1>1, <1>4, PublicKept

\* A new lock is an order's own, or under the hash of none.
LEMMA PublicLocked ==
  ASSUME TradesInv, PublicInv, NEW h, h \notin DOMAIN locks, NEW lock, locks' = Put(locks, h, lock),
         lock.state \in LockStates, orders' = orders, session' = session,
         session.pc = "buyPut" => h # session.order.hash,
         \A o \in orders : o.hash = h => AsOrdered(lock, o)
  PROVE  PublicInv'
<1>1. /\ DOMAIN locks' = DOMAIN locks \cup {h} /\ locks'[h] = lock
      /\ \A x \in DOMAIN locks : locks'[x] = locks[x]
  BY DEF Put
<1>2. QED
  BY <1>1 DEF PublicInv, NotYetPublic

\* The steps of a sale do not lead to a buy, a claim or a refund.
LEMMA SellPcs ==
  ASSUME TradesInv, Sell
  PROVE  session'.pc \notin {"buyPut", "buyAnswer", "claimSent", "refundSent"}
<1>1. "pc" \in DOMAIN session
  BY DEF TradesInv, SessionInv
<1>2. CASE \/ \E csd \in left.sellAmounts : SellClicked(csd)
           \/ SellRefused \/ SellPrepared \/ SellFails \/ SellGivesUp \/ SellDone
  BY <1>2 DEF SellClicked, SellRefused, SellPrepared, SellFails, SellGivesUp, SellDone, Idle
<1>3. CASE SellChecked \/ SellLockSeen \/ SellHanded \/ SellSubmitted
  <2>1. \A pc : session' = [session EXCEPT !.pc = pc] => session'.pc = pc
    BY <1>1
  <2>2. session' = Idle \/ \E pc \in {"sellWait", "sellPay", "sellSubmit", "sellDone"} :
                             session' = [session EXCEPT !.pc = pc]
    BY <1>3 DEF SellChecked, SellLockSeen, SellHanded, SellSubmitted, Goto
  <2>3. QED
    BY <2>1, <2>2 DEF Idle
<1>4. ASSUME NEW pc, NEW field, NEW v, field # "pc", session' = Put([session EXCEPT !.pc = pc], field, v)
      PROVE  session'.pc = pc
  BY <1>1, <1>4 DEF Put
<1>5. CASE SellRequested
  <2>1. session' = Put([session EXCEPT !.pc = "sellAnswer"], "id", serial)
    BY <1>5 DEF SellRequested
  <2>2. QED
    BY <2>1, <1>4
<1>6. CASE SellAccepted
  <2>1. session' = Put([session EXCEPT !.pc = "sellCheck"], "answer", replies[session.id])
    BY <1>6 DEF SellAccepted
  <2>2. QED
    BY <2>1, <1>4
<1>7. CASE SellSigned
  <2>1. \E t : session' = Put([session EXCEPT !.pc = "sellHand"], "tx", t)
    BY <1>7 DEF SellSigned
  <2>2. QED
    BY <2>1, <1>4
<1>8. CASE SellNotAccepted
  <2> DEFINE others == Tail(session.makers)
  <2>1. session' = Idle \/ session' = [session EXCEPT !.pc = "sellPut", !.makers = others]
    BY <1>8 DEF SellNotAccepted
  <2> HIDE DEF others
  <2>2. CASE session' = Idle
    BY <2>2 DEF Idle
  <2>3. CASE session' = [session EXCEPT !.pc = "sellPut", !.makers = others]
    BY <1>1, <2>3
  <2>4. QED
    BY <2>1, <2>2, <2>3
<1>9. QED
  BY <1>2, <1>3, <1>5, <1>6, <1>7, <1>8 DEF Sell

LEMMA PublicSteps ==
  ASSUME TradesInv, PublicInv, [Next]_vars
  PROVE  PublicInv'
<1>1. CASE Buy
  <2>1. locks' = locks
    BY <1>1 DEF Buy, BuyClicked, BuyRefused, BuyPrepared, BuyPublished, BuyNotPublished,
       BuyAccepted, BuyDeclined, BuyUnanswered, outsideUnchanged
  <2>2. CASE BuyPublished \/ BuyNotPublished
    <3>1. session'.pc # "buyPut"
      BY <2>2 DEF BuyPublished, BuyNotPublished, Idle
    <3>2. session.pc = "buyPut" /\ orders' \in {orders, orders \cup {session.order}}
      BY <2>2 DEF BuyPublished, BuyNotPublished
    <3>3. QED
      BY <2>1, <3>1, <3>2, PublicOrdered
  <2>3. CASE BuyPrepared
    <3>1. PICK o : o = session'.order
      OBVIOUS
    <3>2. o.hash = serial /\ orders' = orders
      BY <2>3, <3>1 DEF BuyPrepared
    <3>3. NotYetPublic(o.hash)'
      BY <2>1, <3>2, FreshNumber DEF NotYetPublic
    <3>4. QED
      BY <2>1, <3>1, <3>2, <3>3 DEF PublicInv
  <2>4. CASE \/ \E csd \in left.buyAmounts : BuyClicked(csd)
             \/ BuyRefused \/ BuyAccepted \/ BuyDeclined \/ BuyUnanswered
    <3>1. orders' = orders /\ session'.pc # "buyPut"
      BY <2>4 DEF BuyClicked, BuyRefused, BuyAccepted, BuyDeclined, BuyUnanswered, Idle
    <3>2. QED
      BY <2>1, <3>1, PublicSame
  <2>5. QED
    BY <1>1, <2>2, <2>3, <2>4 DEF Buy
<1>2. CASE Sell
  <2>1. locks' = locks /\ orders' = orders
    BY <1>2 DEF Sell, SellClicked, SellRefused, SellPrepared, SellRequested, SellFails,
     SellAccepted, SellNotAccepted, SellChecked, SellLockSeen, SellGivesUp, SellSigned, SellHanded,
     SellSubmitted, SellDone, outsideUnchanged, marketVars
  <2>2. QED
    BY <1>2, <2>1, PublicSame, SellPcs
<1>3. CASE ClaimAndRefund
  <2>1. orders' = orders
    BY <1>3 DEF ClaimAndRefund, ClaimClicked, RefundClicked, ClaimMined, RefundMined, SentMined,
       outsideUnchanged, marketVars
  <2>2. session'.pc # "buyPut"
    BY <1>3 DEF ClaimAndRefund, ClaimClicked, RefundClicked, ClaimMined, RefundMined, SentMined, Idle
  <2>3. CASE \E h \in DOMAIN mine : ClaimClicked(h) \/ RefundClicked(h)
    <3>1. locks' = locks
      BY <2>3 DEF ClaimClicked, RefundClicked, outsideUnchanged
    <3>2. QED
      BY <2>1, <2>2, <3>1, PublicSame
  <2>4. ASSUME NEW pc, NEW state \in LockStates, NEW status, SentMined(pc, state, status)
        PROVE  PublicInv'
    <3>1. PICK h : h = session.hash
      OBVIOUS
    <3>2. CASE IsLocked(h) /\ locks' = [locks EXCEPT ![h].state = state]
      BY <2>1, <2>2, <3>2, PublicEnded
    <3>3. CASE locks' = locks
      BY <2>1, <2>2, <3>3, PublicSame
    <3>4. QED
      BY <2>4, <3>1, <3>2, <3>3 DEF SentMined
  <2>5. QED
    BY <1>3, <2>3, <2>4 DEF ClaimAndRefund, ClaimMined, RefundMined, LockStates
<1>4. CASE Follow \/ Market \/ Wallet \/ Tick \/ UNCHANGED vars
  <2>1. locks' = locks /\ orders' = orders
    BY <1>4 DEF Follow, FollowFailedBuy, FollowSale, FollowReceipt, WatchPayment, LateSave, Following,
       Market, TimerLoads, SessionLoads, LoadReads, LoadEnds, Wallet, ScanStarts, ScanEnds, SendCsd,
       Tick, vars, marketVars
  <2>2. session' = session \/ session'.pc # "buyPut"
    <3>1. CASE LoadEnds
      <4>1. "pc" \in DOMAIN session
        BY DEF TradesInv, SessionInv
      <4>2. QED
        BY <3>1, <4>1 DEF LoadEnds, Goto, Idle
    <3>2. QED
      BY <1>4, <3>1 DEF Follow, FollowFailedBuy, FollowSale, FollowReceipt, WatchPayment, LateSave,
         Following, Market, TimerLoads, SessionLoads, LoadReads, Wallet, ScanStarts, ScanEnds, SendCsd,
         Tick, vars, pageVars
  <2>3. QED
    BY <2>1, <2>2, PublicSame
<1>5. CASE Reload
  <2>1. locks' = locks /\ session'.pc # "buyPut"
    BY <1>5 DEF Reload, Idle
  <2>2. CASE session.pc = "buyPut"
    BY <1>5, <2>1, <2>2, PublicOrdered DEF Reload
  <2>3. CASE session.pc # "buyPut"
    BY <1>5, <2>1, <2>3, PublicSame DEF Reload
  <2>4. QED
    BY <2>2, <2>3
<1>6. CASE MakersAct
  <2>1. orders' = orders /\ session' = session
    BY <1>6 DEF MakersAct, PublishOffer, PublishLookalike, OthersTrade, PublishReceipt, AnswerOrder,
       LockBuy, PublishPayment, AnswerRequest, DeclineRequest, LockSale, Locking, OnAon, marketVars, pageVars
  <2>2. CASE \E b, r \in left.parties, state \in {"settled", "released"} : OthersTrade(b, r, state)
    <3>1. PICK lock : locks' = Put(locks, serial, lock) /\ lock.state \in LockStates
      <4>1. PICK b, r \in left.parties, state \in {"settled", "released"} : OthersTrade(b, r, state)
        BY <2>2
      <4>2. PICK lock : lock = [buyer |-> b, recipient |-> r, usdc |-> 1, csd |-> 1,
                            addr |-> SaleAddr(serial), state |-> state, until |-> clock, direct |-> TRUE]
        OBVIOUS
      <4>3. locks' = Put(locks, serial, lock)
        BY <4>1, <4>2, Zenon DEF OthersTrade
      <4>4. QED
        BY <4>2, <4>3 DEF LockStates
    <3>2. session.pc = "buyPut" => serial # session.order.hash
      BY DEF TradesInv, SessionInv, OrderInv, Name
    <3>3. QED
      BY <2>1, <3>1, <3>2, FreshNumber, PublicLocked
  <2>3. CASE \E o \in orders : LockBuy(o)
    <3>1. PICK o \in orders : LockBuy(o)
      BY <2>3
    <3>2. PICK lock : lock = [buyer |-> Me, recipient |-> o.maker, usdc |-> o.usdc, csd |-> o.csd, addr |-> o.addr,
                              state |-> "locked", until |-> clock + LockTime, direct |-> TRUE]
      OBVIOUS
    <3>3. Locking(o.hash, lock)
      BY <3>1, <3>2, Zenon DEF LockBuy
    <3>4. AsOrdered(lock, o) /\ lock.state \in LockStates
      BY <3>2 DEF AsOrdered, LockStates
    <3>5. /\ session.pc = "buyPut" => o.hash # session.order.hash
          /\ \A p \in orders : p.hash = o.hash => AsOrdered(lock, p)
      BY <3>4 DEF PublicInv, NotYetPublic
    <3>6. QED
      BY <2>1, <3>3, <3>4, <3>5, PublicLocked DEF Locking
  <2>4. CASE \E r \in requests, direct \in BOOLEAN, for \in {ClaimTime, SaleLockTime} : LockSale(r, direct, for)
    <3>1. PICK r \in requests, direct \in BOOLEAN, for \in {ClaimTime, SaleLockTime} : LockSale(r, direct, for)
      BY <2>4
    <3>2. PICK h : h = replies[r.id].hash
      OBVIOUS
    <3>3. PICK lock :
        lock = [buyer |-> r.maker, recipient |-> Me, usdc |-> replies[r.id].usdc + ExecutorFee, csd |-> r.csd,
                addr |-> SaleAddr(h), state |-> "locked", until |-> clock + for, direct |-> direct]
      OBVIOUS
    <3>4. Locking(h, lock)
      BY <3>1, <3>2, <3>3, Zenon DEF LockSale
    <3>5. IsSale(h)
      BY <3>1, <3>2 DEF LockSale, Answered, TradesInv, RepliesInv, IsSale
    <3>6. lock.state \in LockStates
      BY <3>3 DEF LockStates
    <3>7. /\ session.pc = "buyPut" => h # session.order.hash
          /\ \A o \in orders : o.hash # h
      BY <3>5 DEF TradesInv, SessionInv, OrdersInv, OrderInv
    <3>8. QED
      BY <2>1, <3>4, <3>6, <3>7, PublicLocked DEF Locking
  <2>5. CASE locks' = locks
    BY <2>1, <2>5, PublicSame
  <2>6. QED
    BY <1>6, <2>2, <2>3, <2>4, <2>5 DEF MakersAct, PublishOffer, PublishLookalike,
         PublishReceipt, AnswerOrder, PublishPayment, AnswerRequest, DeclineRequest
<1>7. CASE ChainsAct
  <2>1. orders' = orders /\ session' = session
    BY <1>7 DEF ChainsAct, Broadcast, MineTx, Prove, ReleaseSale, MakerRefunds, BecomesFinal,
       CsdUnchanged, marketVars, pageVars
  <2>2. CASE (\E p \in payments : Broadcast(p)) \/ \E t \in csdTxs : MineTx(t)
    BY <2>1, <2>2, PublicSame DEF Broadcast, MineTx
  <2>3. CASE \E h \in DOMAIN locks : Prove(h) \/ ReleaseSale(h) \/ MakerRefunds(h)
    <3>1. PICK h \in DOMAIN locks, state \in LockStates : IsLocked(h) /\ BecomesFinal(h, state)
      BY <2>3 DEF Prove, ReleaseSale, MakerRefunds, Expired, LockStates
    <3>2. QED
      BY <2>1, <3>1, PublicEnded DEF BecomesFinal
  <2>4. QED
    BY <1>7, <2>2, <2>3 DEF ChainsAct
<1>8. QED
  BY <1>1, <1>2, <1>3, <1>4, <1>5, <1>6, <1>7 DEF Next

-----------------------------------------------------------------------------
(***************************************************************************)
(* What the page has looked up, and what it shows of it.                    *)
(***************************************************************************)
VerifiedInv(verified) ==
  \A r \in DOMAIN verified : /\ verified[r] # None => WasPaidOut(r.hash)
                             /\ verified[r] = "settled" => SettledTrade(r.signer)
CheckedInv(checked) == \A p \in DOMAIN checked : checked[p].happened => Happened(p.hash)
ProvenInv(addrs) == \A m \in addrs : SettledTrade(m)
ShownInv(market) ==
  /\ \A m \in DOMAIN market.makers : market.makers[m].proven => m \in Known \/ SettledTrade(m)
  /\ \/ \A r \in market.recent : Happened(r.hash)
     \/ \E r \in market.recent : r.hash = NoTrade /\ market.recent = {r}
EvidenceInv ==
  /\ {"market", "verified", "buyChecked"} \subseteq DOMAIN tab /\ "provenAt" \in DOMAIN storage
  /\ VerifiedInv(tab.verified) /\ CheckedInv(tab.buyChecked)
  /\ ProvenInv(DOMAIN storage.provenAt) /\ ShownInv(tab.market)

\* What was true of the chains still is.
LEMMA EvidenceStays ==
  ASSUME ChainsGrow
  PROVE  /\ \A v : VerifiedInv(v) => VerifiedInv(v)'
         /\ \A c : CheckedInv(c) => CheckedInv(c)'
         /\ \A a : ProvenInv(a) => ProvenInv(a)'
         /\ \A k : ShownInv(k) => ShownInv(k)'
<1>1. \A v : VerifiedInv(v) => VerifiedInv(v)'
  BY FactsStay DEF VerifiedInv
<1>2. \A c : CheckedInv(c) => CheckedInv(c)'
  BY FactsStay DEF CheckedInv
<1>3. \A a : ProvenInv(a) => ProvenInv(a)'
  BY FactsStay DEF ProvenInv
<1>4. \A k : ShownInv(k) => ShownInv(k)'
  BY FactsStay DEF ShownInv
<1>5. QED
  BY <1>1, <1>2, <1>3, <1>4

\* A page that learns nothing new goes on being right.
LEMMA NothingLearnt ==
  ASSUME EvidenceInv, ChainsGrow, DOMAIN tab' = DOMAIN tab, DOMAIN storage' = DOMAIN storage,
         tab'.market = tab.market, tab'.verified = tab.verified, tab'.buyChecked = tab.buyChecked,
         DOMAIN storage'.provenAt \subseteq DOMAIN storage.provenAt
  PROVE  EvidenceInv'
<1>1. PICK v, c, k, a, b : /\ v = tab'.verified /\ c = tab'.buyChecked /\ k = tab'.market
                           /\ a = DOMAIN storage.provenAt /\ b = DOMAIN storage'.provenAt
  OBVIOUS
<1>2. VerifiedInv(v) /\ CheckedInv(c) /\ ShownInv(k) /\ ProvenInv(a)
  BY <1>1 DEF EvidenceInv
<1>3. VerifiedInv(v)' /\ CheckedInv(c)' /\ ShownInv(k)' /\ ProvenInv(a)'
  BY <1>2, EvidenceStays
<1>4. ProvenInv(b)'
  BY <1>1, <1>3 DEF ProvenInv
<1>5. QED
  BY <1>1, <1>3, <1>4 DEF EvidenceInv

\* An entry read from a table that was written over is the new one, or the old.
LEMMA OverAt ==
  ASSUME NEW new, NEW old
  PROVE  /\ DOMAIN Over(new, old) = DOMAIN new \cup DOMAIN old
         /\ \A x \in DOMAIN new : Over(new, old)[x] = new[x]
         /\ \A x \in DOMAIN old : x \notin DOMAIN new => Over(new, old)[x] = old[x]
  BY DEF Over

\* A receipt that is taken for real names a trade that was paid out, and a
\* proven trade is its signer's own with somebody else.
LEMMA VerifyRight ==
  ASSUME VerifiedInv(tab.verified), NEW rs, NEW unread
  PROVE  VerifiedInv(Verify(rs, unread)) /\ DOMAIN Verify(rs, unread) = rs
<1> DEFINE how == Verify(rs, unread)
<1>1. DOMAIN how = rs
  BY DEF Verify
<1>2. ASSUME NEW r \in rs
      PROVE  /\ how[r] # None => WasPaidOut(r.hash)
             /\ how[r] = "settled" => SettledTrade(r.signer)
  <2>1. how[r] \in {None, RealReceipt(r)} \/ (r \in DOMAIN tab.verified /\ how[r] = tab.verified[r])
    BY DEF Verify
  <2>2. CASE r \in DOMAIN tab.verified /\ how[r] = tab.verified[r]
    BY <2>2 DEF VerifiedInv
  <2>3. CASE how[r] = None
    BY <2>3 DEF None
  <2>4. CASE how[r] = RealReceipt(r) /\ how[r] # None
    <3>1. /\ WasPaidOut(r.tx) /\ r.tx = r.hash
          /\ r.signer \in {locks[r.tx].buyer, locks[r.tx].recipient}
          /\ locks[r.tx].buyer # locks[r.tx].recipient
          /\ how[r] = locks[r.tx].state
      BY <2>4 DEF RealReceipt
    <3>2. how[r] = "settled" => SettledTrade(r.signer)
      BY <3>1 DEF WasPaidOut, SettledTrade
    <3>3. QED
      BY <3>1, <3>2
  <2>5. QED
    BY <2>1, <2>2, <2>3, <2>4
<1> HIDE DEF how
<1>3. VerifiedInv(how)
  BY <1>1, <1>2 DEF VerifiedInv
<1>4. QED
  BY <1>1, <1>3 DEF how

\* A buy that counts as happened did: its lock asks for the payment that was made.
LEMMA BuyTradeRight ==
  ASSUME PublicInv, CheckedInv(tab.buyChecked), NEW p \in payments, NEW addrs, BuyTrade(p, addrs).happened
  PROVE  Happened(p.hash)
<1>1. CASE p \in DOMAIN tab.buyChecked /\ BuyTrade(p, addrs) = tab.buyChecked[p]
  BY <1>1 DEF CheckedInv
<1>2. CASE PaysTheOrder(p, addrs) /\ HappenedBuy(p)
  <2>1. PICK o \in orders : /\ o.hash = p.hash /\ o.maker = p.signer
                            /\ p.tx.to = o.addr /\ p.tx.value >= o.csd
    BY <1>2 DEF PaysTheOrder, BuyAuthOf
  <2>2. /\ p.hash \in DOMAIN locks /\ locks[p.hash].state # "refunded"
        /\ p.tx \in csdTxs /\ p.tx.id \in DOMAIN mined
    BY <1>2 DEF HappenedBuy, SettledOrLocked, Confirmed
  <2>3. AsOrdered(locks[p.hash], o)
    BY <2>1, <2>2 DEF PublicInv
  <2>4. QED
    BY <2>1, <2>2, <2>3 DEF Happened, DeliveredFor, AsOrdered
<1>3. QED
  <2> DEFINE c == tab.buyChecked[p]
             now == [at |-> clock, final |-> ~PaysTheOrder(p, addrs),
                     happened |-> PaysTheOrder(p, addrs) /\ HappenedBuy(p)]
  <2>1. BuyTrade(p, addrs) = now \/ (p \in DOMAIN tab.buyChecked /\ BuyTrade(p, addrs) = c)
    BY DEF BuyTrade
  <2>2. now.happened = (PaysTheOrder(p, addrs) /\ HappenedBuy(p))
    OBVIOUS
  <2> HIDE DEF now
  <2>3. QED
    BY <1>1, <1>2, <2>1, <2>2

\* A recent trade is named by a real receipt, or by a buy that happened.
LEMMA RecentAre ==
  ASSUME NEW real, NEW buys, NEW flying, NEW addrs, NEW t \in RecentTrades(real, buys, flying, addrs)
  PROVE  \/ \E r \in real : t.hash = r.hash
         \/ \E p \in DOMAIN flying : flying[p].happened /\ t.hash = p.hash
<1>1. CASE \E r \in real : t.hash = r.hash
  BY <1>1
<1>2. ASSUME NEW hash \in {p.hash : p \in {p \in DOMAIN flying : flying[p].happened}}, t.hash = hash
      PROVE  \E p \in DOMAIN flying : flying[p].happened /\ t.hash = p.hash
  BY <1>2
<1>3. \/ \E r \in real : t.hash = r.hash
      \/ \E hash \in {p.hash : p \in {p \in DOMAIN flying : flying[p].happened}} : t.hash = hash
  BY DEF RecentTrades
<1>4. QED
  BY <1>2, <1>3

\* A load learns only what happened.
LEMMA AssembleRight ==
  ASSUME PublicInv, EvidenceInv, NEW unread, NEW claimed \in ClaimedLists, Assemble(unread, claimed), ChainsGrow
  PROVE  EvidenceInv'
<1>1. PICK ours : ours = {o \in load.out : o.ours}
  OBVIOUS
<1>2. PICK addrs : addrs = {o.maker : o \in ours}
  OBVIOUS
<1>3. PICK rs : rs = ReadableReceipts(addrs)
  OBVIOUS
<1>4. PICK how : how = Verify(rs, unread)
  OBVIOUS
<1>5. PICK real : real = {r \in rs : how[r] # None}
  OBVIOUS
<1>6. PICK proved : proved = {r.signer : r \in {r \in real : how[r] = "settled"}}
  OBVIOUS
<1>7. PICK over : over = {r.hash : r \in real}
  OBVIOUS
<1>8. PICK buys : buys = {p \in Pages(payments, OtherPages) :
                            clock - p.at <= IF p.hash \in over THEN PaymentsFor ELSE FlyingFor}
  OBVIOUS
<1>9. PICK flying : flying = [p \in {p \in buys : p.hash \notin over} |-> BuyTrade(p, addrs)]
  OBVIOUS
<1>10. PICK makers : makers = [m \in addrs |-> [offers |-> {o \in ours : o.maker = m},
                                                proven |-> m \in Known \cup RecentlyProven \cup proved]]
  OBVIOUS
<1>11. PICK sure : sure = RecentTrades(real, buys, flying, addrs)
  OBVIOUS
<1>12. PICK marks : marks = [m \in proved |-> clock]
  OBVIOUS
<1>13. PICK hints : hints = {o.id : o \in ours}
  OBVIOUS
<1>14. /\ tab' = [tab EXCEPT !.market = [makers |-> makers, recent |-> IF sure = {} THEN claimed ELSE sure],
                             !.verified = Over(how, @), !.buyChecked = Over(flying, @)]
       /\ storage' = [storage EXCEPT !.provenAt = Over(marks, @), !.hints = hints]
  BY <1>1, <1>2, <1>3, <1>4, <1>5, <1>6, <1>7, <1>8, <1>9, <1>10, <1>11, <1>12, <1>13 DEF Assemble
<1> DEFINE recent == IF sure = {} THEN claimed ELSE sure
<1>15. PICK market : market = [makers |-> makers, recent |-> recent]
  OBVIOUS
<1>16. /\ DOMAIN tab' = DOMAIN tab /\ DOMAIN storage' = DOMAIN storage
       /\ tab'.market = market /\ tab'.verified = Over(how, tab.verified)
       /\ tab'.buyChecked = Over(flying, tab.buyChecked)
       /\ storage'.provenAt = Over(marks, storage.provenAt)
  BY <1>14, <1>15 DEF EvidenceInv
<1>17. /\ VerifiedInv(tab.verified) /\ CheckedInv(tab.buyChecked)
       /\ ProvenInv(DOMAIN storage.provenAt)
  BY DEF EvidenceInv
<1>18. VerifiedInv(how) /\ DOMAIN how = rs
  BY <1>4, <1>17, VerifyRight
<1>19. PICK verified : verified = Over(how, tab.verified)
  OBVIOUS
<1>20. VerifiedInv(verified)
  BY <1>17, <1>18, <1>19 DEF VerifiedInv, Over
<1>21. CheckedInv(flying)
  <2>1. buys \subseteq payments
    BY <1>8 DEF Pages, Page
  <2>2. QED
    BY <1>9, <1>17, <2>1, BuyTradeRight DEF CheckedInv
<1>22. PICK checked : checked = Over(flying, tab.buyChecked)
  OBVIOUS
<1>23. CheckedInv(checked)
  BY <1>17, <1>21, <1>22 DEF CheckedInv, Over
<1>24. \A m \in proved : SettledTrade(m)
  BY <1>5, <1>6, <1>18 DEF VerifiedInv
<1>25. PICK names : names = DOMAIN Over(marks, storage.provenAt)
  OBVIOUS
<1>26. ProvenInv(names)
  BY <1>12, <1>17, <1>24, <1>25 DEF ProvenInv, Over
<1>27. \A r \in real : Happened(r.hash)
  <2>1. \A r \in real : WasPaidOut(r.hash)
    BY <1>5, <1>18 DEF VerifiedInv
  <2>2. QED
    BY <2>1 DEF Happened, WasPaidOut
<1>28. \A r \in sure : Happened(r.hash)
  <2>1. SUFFICES ASSUME NEW t \in sure
                 PROVE  Happened(t.hash)
    OBVIOUS
  <2>2. \/ \E r \in real : t.hash = r.hash
        \/ \E p \in DOMAIN flying : flying[p].happened /\ t.hash = p.hash
    BY <1>11, RecentAre
  <2>3. QED
    BY <1>21, <1>27, <2>2 DEF CheckedInv
<1>29. ShownInv(market)
  <2>1. market.makers = makers /\ market.recent = recent /\ DOMAIN makers = addrs
    BY <1>10, <1>15
  <2>2. \A m \in addrs : makers[m].proven => m \in Known \/ SettledTrade(m)
    <3>1. \A m \in addrs : makers[m].proven <=> m \in Known \cup RecentlyProven \cup proved
      BY <1>10
    <3>2. QED
      BY <1>17, <1>24, <3>1 DEF ProvenInv, RecentlyProven
  <2>3. \/ \A r \in recent : Happened(r.hash)
        \/ \E r \in recent : r.hash = NoTrade /\ recent = {r}
    <3>1. UncheckedTrade.hash = NoTrade
      BY DEF UncheckedTrade
    <3>2. recent = sure \/ recent = {} \/ recent = {UncheckedTrade}
      BY DEF ClaimedLists
    <3>3. QED
      BY <1>28, <3>1, <3>2
  <2>4. QED
    BY <2>1, <2>2, <2>3 DEF ShownInv
<1>30. VerifiedInv(verified)' /\ CheckedInv(checked)' /\ ProvenInv(names)' /\ ShownInv(market)'
  BY <1>20, <1>23, <1>26, <1>29, EvidenceStays
<1>31. QED
  BY <1>16, <1>19, <1>22, <1>25, <1>30 DEF EvidenceInv

LEMMA EvidenceSteps ==
  ASSUME TradesInv, PublicInv, EvidenceInv, [Next]_vars
  PROVE  EvidenceInv'
<1>1. ChainsGrow
  BY StepsGrow
<1>2. CASE LoadEnds
  <2>1. CASE \E unread : LoadFinds(unread)
    BY <1>1, <2>1, AssembleRight DEF LoadFinds
  <2>2. CASE UNCHANGED <<storage, tab>>
    BY <1>1, <2>2, NothingLearnt
  <2>3. QED
    BY <1>2, <2>1, <2>2 DEF LoadEnds
<1>3. CASE Reload
  <2>1. tab' = NewTab(storage.next) /\ storage' = storage
    BY <1>3 DEF Reload
  <2>2. /\ DOMAIN tab' = {"market", "verified", "buyChecked", "nextIndex", "coins", "deep"}
        /\ tab'.market = NoMarket /\ DOMAIN tab'.verified = {} /\ DOMAIN tab'.buyChecked = {}
    BY <2>1 DEF NewTab
  <2>3. PICK a : a = DOMAIN storage.provenAt
    OBVIOUS
  <2>4. ProvenInv(a)'
    BY <1>1, <2>3, EvidenceStays DEF EvidenceInv
  <2>5. QED
    BY <2>1, <2>2, <2>3, <2>4 DEF EvidenceInv, VerifiedInv, CheckedInv, ShownInv, NoMarket
<1>4. CASE UNCHANGED <<storage, tab>>
  BY <1>1, <1>4, NothingLearnt
<1>5. ASSUME NEW m, NEW for, storage' = Skipped(storage, m, for), tab' = tab
      PROVE  EvidenceInv'
  <2>1. DOMAIN storage' = DOMAIN storage /\ DOMAIN storage'.provenAt \subseteq DOMAIN storage.provenAt
    BY <1>5 DEF Skipped, EvidenceInv
  <2>2. QED
    BY <1>1, <1>5, <2>1, NothingLearnt
<1>6. CASE BuyPrepared \/ ScanEnds \/ (\E v \in left.sellAmounts : SendCsd(v)) \/ SellSubmitted
  <2>1. ASSUME NEW coins, NEW deep, NEW index, NEW next,
               \/ tab' = [tab EXCEPT !.coins = coins, !.deep = deep, !.nextIndex = index]
               \/ tab' = [tab EXCEPT !.coins = coins]
               \/ tab' = [tab EXCEPT !.nextIndex = index],
               storage' \in {storage, [storage EXCEPT !.next = next]}
        PROVE  EvidenceInv'
    <3>1. /\ DOMAIN tab' = DOMAIN tab /\ tab'.market = tab.market
          /\ tab'.verified = tab.verified /\ tab'.buyChecked = tab.buyChecked
      BY <2>1 DEF EvidenceInv
    <3>2. DOMAIN storage' = DOMAIN storage /\ storage'.provenAt = storage.provenAt
      BY <2>1 DEF EvidenceInv
    <3>3. QED
      BY <1>1, <3>1, <3>2, NothingLearnt
  <2>2. CASE BuyPrepared
    <3>1. PICK i : i = FreshKeyIndex + 1
      OBVIOUS
    <3>2. tab' = [tab EXCEPT !.nextIndex = i] /\ storage' = [storage EXCEPT !.next = i]
      BY <2>2, <3>1 DEF BuyPrepared, WithFreshKey
    <3>3. QED
      BY <2>1, <3>2
  <2>3. CASE ScanEnds
    <3>1. /\ DOMAIN tab' = DOMAIN tab /\ tab'.market = tab.market
          /\ tab'.verified = tab.verified /\ tab'.buyChecked = tab.buyChecked
      BY <2>3 DEF ScanEnds, EvidenceInv
    <3>2. DOMAIN storage' = DOMAIN storage /\ storage'.provenAt = storage.provenAt
      BY <2>3 DEF ScanEnds, EvidenceInv
    <3>3. QED
      BY <1>1, <3>1, <3>2, NothingLearnt
  <2>4. CASE \E v \in left.sellAmounts : SendCsd(v)
    <3>1. (\E coins : tab' = [tab EXCEPT !.coins = coins]) /\ storage' = storage
      BY <2>4 DEF SendCsd
    <3>2. QED
      BY <2>1, <3>1
  <2>5. CASE SellSubmitted
    <3>1. (\E coins : tab' = [tab EXCEPT !.coins = coins]) /\ storage' = storage
      BY <2>5 DEF SellSubmitted
    <3>2. QED
      BY <2>1, <3>1
  <2>6. QED
    BY <1>6, <2>2, <2>3, <2>4, <2>5
<1>7. CASE BuyDeclined \/ BuyUnanswered \/ SellNotAccepted
  <2>1. \E m, for : storage' = Skipped(storage, m, for) /\ tab' = tab
    BY <1>7, Zenon DEF BuyDeclined, BuyUnanswered, SellNotAccepted
  <2>2. QED
    BY <1>5, <2>1
<1>8. CASE Buy \/ Sell
  <2>1. ASSUME UNCHANGED storage, UNCHANGED tab
        PROVE  EvidenceInv'
    BY <1>4, <2>1
  <2>2. QED
    BY <1>6, <1>7, <1>8, <2>1 DEF Buy, BuyClicked, BuyRefused, BuyPublished, BuyNotPublished,
       BuyAccepted, Sell, SellClicked, SellRefused, SellPrepared, SellRequested, SellFails,
       SellAccepted, SellChecked, SellLockSeen, SellGivesUp, SellSigned, SellHanded, SellDone
<1>9. CASE ClaimAndRefund \/ Follow \/ Tick \/ UNCHANGED vars \/ TimerLoads \/ SessionLoads \/ LoadReads \/ ScanStarts
  BY <1>4, <1>9 DEF ClaimAndRefund, ClaimClicked, RefundClicked, ClaimMined, RefundMined, SentMined,
     Follow, FollowFailedBuy, FollowSale, FollowReceipt, WatchPayment, LateSave, Following,
     Tick, vars, pageVars, TimerLoads, SessionLoads, LoadReads, ScanStarts
<1>10. CASE MakersAct \/ ChainsAct
  BY <1>4, <1>10 DEF MakersAct, PublishOffer, PublishLookalike, OthersTrade, PublishReceipt, AnswerOrder,
     LockBuy, PublishPayment, AnswerRequest, DeclineRequest, LockSale, Locking, OnAon, pageVars,
     ChainsAct, Broadcast, MineTx, Prove, ReleaseSale, MakerRefunds, BecomesFinal, CsdUnchanged
<1>11. QED
  BY <1>2, <1>3, <1>6, <1>8, <1>9, <1>10 DEF Next, Market, Wallet

LEMMA EvidenceStarts ==
  ASSUME Init
  PROVE  PublicInv /\ EvidenceInv
<1>1. PICK s \in DOMAIN Scenarios :
        /\ orders = {} /\ locks = << >> /\ session = Idle /\ tab = NewTab(1)
        /\ storage = [hints |-> Scenarios[s].hints, provenAt |-> << >>, avoid |-> << >>, next |-> 1]
  BY DEF Init
<1>2. PublicInv
  BY <1>1 DEF PublicInv, Idle
<1>3. /\ DOMAIN tab = {"market", "verified", "buyChecked", "nextIndex", "coins", "deep"}
      /\ tab.market = NoMarket /\ DOMAIN tab.verified = {} /\ DOMAIN tab.buyChecked = {}
  BY <1>1 DEF NewTab
<1>4. "provenAt" \in DOMAIN storage /\ DOMAIN storage.provenAt = {}
  BY <1>1
<1>5. QED
  BY <1>2, <1>3, <1>4 DEF EvidenceInv, VerifiedInv, CheckedInv, ProvenInv, ShownInv, NoMarket

\* Throughout a run, what the page has looked up and shows is true of the chains.
LEMMA EvidenceIsRight == Spec => [](TradesInv /\ PublicInv /\ EvidenceInv)
<1>1. Init => TradesInv /\ PublicInv /\ EvidenceInv
  BY InitInv, EvidenceStarts
<1>2. TradesInv /\ PublicInv /\ EvidenceInv /\ [Next]_vars => (TradesInv /\ PublicInv /\ EvidenceInv)'
  BY NextInv, PublicSteps, EvidenceSteps
<1>3. QED
  BY <1>1, <1>2, PTL DEF Spec

-----------------------------------------------------------------------------
(***************************************************************************)
(* What the user of the page is told.                                       *)
(***************************************************************************)
\* A maker the page calls proven, on this visit or from an earlier one, is listed
\* by the page or has had a trade with somebody else settled with a proof:
\* receipts alone, whoever publishes them, prove nobody (realReceipt, provenBefore).
THEOREM ProvenMakersTraded == Spec => []ProvenMakersSettled
<1>1. EvidenceInv => ProvenMakersSettled
  BY DEF EvidenceInv, ProvenInv, ShownInv, SettledTrade, ProvenMakersSettled
<1>2. QED
  BY <1>1, EvidenceIsRight, PTL

\* A trade the page found itself and lists as recent was paid out on Ethereum, or
\* locked there and the payment its maker published for it, of the agreed CSD at
\* least, put in a block at the buyer's address, whatever receipts and payments are
\* published and whatever the page could not read meanwhile. The known maker's own
\* list, which the page does not check, never stands beside such a trade (loadMarket).
THEOREM RecentTradesAreReal == Spec => []RecentTradesHappened
<1>1. TradesInv /\ EvidenceInv => RecentTradesHappened
  <2>1. TradesInv => NoTrade \notin DOMAIN locks
    BY DEF TradesInv, LocksInv, Name, NoTrade
  <2>2. QED
    BY <2>1 DEF EvidenceInv, ShownInv, Happened, RecentTradesHappened
<1>2. QED
  BY <1>1, EvidenceIsRight, PTL

-----------------------------------------------------------------------------
(***************************************************************************)
(* All rounding of csd/pool.ts favours the pool. A buy's cost, times the    *)
(* CSD the pool keeps, covers the USDC that backed the CSD it gives         *)
(* (BuyCovers); a sale's proceeds, times the CSD the pool then holds, stay  *)
(* within what the sold CSD is worth (SaleIsCovered). The product of the    *)
(* two sides and both round trips follow from these two.                    *)
(***************************************************************************)
---------------------------------------------------------------------------
(* Arithmetic                                                               *)

\* A product of naturals is one, and grows with its factors.
LEMMA Times ==
  ASSUME NEW a \in Nat, NEW b \in Nat, NEW c \in Nat, a <= b
  PROVE  a * c \in Nat /\ b * c \in Nat /\ a * c <= b * c
  OBVIOUS

\* A positive factor can be cancelled.
LEMMA Cancel ==
  ASSUME NEW a \in Nat, NEW b \in Nat, NEW c \in Nat \ {0}, a * c <= b * c
  PROVE  a <= b
  OBVIOUS

\* A division that rounds down, times its divisor, is at most the dividend.
LEMMA Floor ==
  ASSUME NEW a \in Nat, NEW b \in Nat \ {0}
  PROVE  a \div b \in Nat /\ (a \div b) * b <= a
  OBVIOUS

\* ceilDiv, times its divisor, is at least the dividend.
LEMMA Ceil ==
  ASSUME NEW a \in Nat, NEW b \in Nat \ {0}
  PROVE  CeilDiv(a, b) \in Nat /\ CeilDiv(a, b) * b >= a
<1> DEFINE n == a + b - 1
<1>1. n \in Nat /\ n \div b \in Nat
  OBVIOUS
<1>2. n < (n \div b) * b + b
  <2>1. n = b * (n \div b) + (n % b) /\ n % b \in 0..(b - 1)
    BY <1>1
  <2>2. QED
    BY <1>1, <2>1
<1>3. (n \div b) * b \in Nat
  BY <1>1
<1>4. QED
  BY <1>2, <1>3 DEF CeilDiv

---------------------------------------------------------------------------
(* What a quote covers                                                      *)

\* A buy costs at least the share of the pool's USDC that its CSD stands for.
LEMMA BuyCovers ==
  ASSUME NEW p \in Pools, NEW x \in Nat, CanBuy(p, x)
  PROVE  /\ QuoteBuy(p, x) \in Nat
         /\ p.usdc * x <= QuoteBuy(p, x) * (p.csd - x)
<1> DEFINE rest == p.csd - x
           k    == CeilDiv(p.usdc * x, rest)
           up   == Bps + p.spread
           cost == CeilDiv(k * up, Bps)
<1>1. /\ p.usdc \in Nat /\ rest \in Nat \ {0} /\ up \in Nat
      /\ Bps \in Nat \ {0} /\ Bps <= up
  BY PoolAssumption DEF Pools, CanBuy
<1>2. p.usdc * x \in Nat
  BY <1>1
<1> HIDE DEF rest, up
<1>3. k \in Nat /\ k * rest >= p.usdc * x
  BY <1>1, <1>2, Ceil
<1> HIDE DEF k
<1>4. k * up \in Nat /\ k * Bps <= k * up
  BY <1>1, <1>3
<1>5. cost \in Nat /\ cost * Bps >= k * up
  BY <1>1, <1>4, Ceil
<1>6. QuoteBuy(p, x) = cost
  BY DEF QuoteBuy, rest, k, up
<1> HIDE DEF cost
<1>7. k <= cost
  <2>1. k * Bps \in Nat /\ cost * Bps \in Nat
    BY <1>1, <1>3, <1>5
  <2>2. k * Bps <= cost * Bps
    BY <1>4, <1>5, <2>1
  <2>3. QED
    BY <1>1, <1>3, <1>5, <2>2, Cancel
<1>8. k * rest <= cost * rest
  BY <1>1, <1>3, <1>5, <1>7, Times
<1>9. k * rest \in Nat /\ cost * rest \in Nat
  BY <1>1, <1>3, <1>5
<1>10. QED
  BY <1>2, <1>3, <1>5, <1>6, <1>8, <1>9 DEF rest

\* A sale brings at most what its CSD is worth once the pool holds it.
LEMMA SaleIsCovered ==
  ASSUME NEW p \in Pools, NEW x \in Nat, x > 0
  PROVE  /\ QuoteSell(p, x) \in Nat
         /\ QuoteSell(p, x) * (p.csd + x) <= p.usdc * x
<1> DEFINE all  == p.csd + x
           m    == (p.usdc * x) \div all
           down == Bps - p.spread
           out  == (m * down) \div Bps
<1>1. /\ p.usdc \in Nat /\ all \in Nat \ {0} /\ down \in Nat
      /\ Bps \in Nat \ {0} /\ down <= Bps
  BY PoolAssumption DEF Pools
<1>2. p.usdc * x \in Nat
  BY <1>1
<1> HIDE DEF all, down
<1>3. m \in Nat /\ m * all <= p.usdc * x
  BY <1>1, <1>2, Floor
<1> HIDE DEF m
<1>4. m * down \in Nat /\ m * down <= m * Bps
  BY <1>1, <1>3
<1>5. out \in Nat /\ out * Bps <= m * down
  BY <1>1, <1>4, Floor
<1>6. QuoteSell(p, x) = out
  BY DEF QuoteSell, all, m, down
<1> HIDE DEF out
<1>7. out <= m
  <2>1. out * Bps \in Nat /\ m * Bps \in Nat
    BY <1>1, <1>3, <1>5
  <2>2. out * Bps <= m * Bps
    BY <1>4, <1>5, <2>1
  <2>3. QED
    BY <1>1, <1>3, <1>5, <2>2, Cancel
<1>8. out * all <= m * all
  BY <1>1, <1>3, <1>5, <1>7, Times
<1>9. out * all \in Nat /\ m * all \in Nat
  BY <1>1, <1>3, <1>5
<1>10. QED
  BY <1>2, <1>3, <1>5, <1>6, <1>8, <1>9 DEF all

\* A sale never empties the pool of its USDC.
LEMMA SaleLeavesUsdc ==
  ASSUME NEW p \in Pools, NEW x \in Nat, x > 0
  PROVE  QuoteSell(p, x) < p.usdc
<1> DEFINE out == QuoteSell(p, x)
<1>1. /\ out \in Nat /\ out * (p.csd + x) <= p.usdc * x
  BY SaleIsCovered
<1>2. p.usdc \in Nat \ {0} /\ p.csd \in Nat \ {0}
  BY DEF Pools
<1> HIDE DEF out
<1>3. SUFFICES ASSUME out >= p.usdc PROVE FALSE
  BY <1>1, <1>2 DEF out
<1>4. p.usdc * (p.csd + x) <= out * (p.csd + x)
  BY <1>1, <1>2, <1>3, Times
<1>5. p.usdc * (p.csd + x) = p.usdc * p.csd + p.usdc * x
  BY <1>2
<1>6. p.usdc * p.csd \in Nat \ {0} /\ p.usdc * x \in Nat /\ out * (p.csd + x) \in Nat
  BY <1>1, <1>2
<1>7. QED
  BY <1>1, <1>4, <1>5, <1>6

---------------------------------------------------------------------------
(* No trade, and no round trip, takes from the pool                         *)

\* Whoever buys at the quoted price leaves the pool with no smaller product, and
\* selling the same CSD back at the next quote brings no more than it cost
\* (quoteBuy, afterBuy, quoteSell).
THEOREM BuysFavourThePool ==
  \A p \in Pools : BuysNeverGain(p, Nat)
<1> SUFFICES ASSUME NEW p \in Pools, NEW x \in Nat, CanBuy(p, x)
             PROVE  LET cost == QuoteBuy(p, x)  q == AfterBuy(p, x, cost) IN
                    Product(q) >= Product(p) /\ QuoteSell(q, x) <= cost
  BY DEF BuysNeverGain
<1> DEFINE cost == QuoteBuy(p, x)
           q    == AfterBuy(p, x, cost)
           u    == p.usdc
           y    == p.csd
<1>1. cost \in Nat /\ u * x <= cost * (y - x)
  BY BuyCovers
<1>2. u \in Nat \ {0} /\ y \in Nat \ {0} /\ x \in Nat /\ x > 0 /\ y - x \in Nat \ {0}
  BY DEF Pools, CanBuy
<1>3. q \in Pools /\ q.usdc = u + cost /\ q.csd = y - x
  <2> DEFINE a == u + cost
             b == y - x
  <2>1. a \in Nat \ {0} /\ b \in Nat \ {0}
    BY <1>1, <1>2
  <2>2. q = [p EXCEPT !.usdc = a, !.csd = b]
    BY DEF AfterBuy
  <2> HIDE DEF cost, q, u, y, a, b
  <2>3. q \in Pools /\ q.usdc = a /\ q.csd = b
    BY <2>1, <2>2 DEF Pools
  <2>4. QED
    BY <2>3 DEF a, b
<1> HIDE DEF cost, q, u, y
<1>4. Product(q) >= Product(p)
  <2>1. (u + cost) * (y - x) = u * y - u * x + cost * (y - x)
    BY <1>1, <1>2
  <2>2. u * y \in Nat /\ u * x \in Nat /\ cost * (y - x) \in Nat
    BY <1>1, <1>2
  <2>3. (u + cost) * (y - x) >= u * y
    BY <1>1, <2>1, <2>2
  <2>4. QED
    BY <1>3, <2>3 DEF Product, u, y
<1>5. QuoteSell(q, x) <= cost
  <2> DEFINE out == QuoteSell(q, x)
  <2>1. out \in Nat /\ out * (q.csd + x) <= q.usdc * x
    BY <1>2, <1>3, SaleIsCovered
  <2> HIDE DEF out
  <2>2. q.csd + x = y
    BY <1>2, <1>3
  <2>3. (u + cost) * x = u * x + cost * x
    BY <1>1, <1>2
  <2>4. cost * (y - x) + cost * x = cost * y
    BY <1>1, <1>2
  <2>5. /\ u * x \in Nat /\ cost * x \in Nat /\ cost * (y - x) \in Nat
        /\ cost * y \in Nat /\ out * y \in Nat
    BY <1>1, <1>2, <2>1
  <2>6. out * y <= cost * y
    BY <1>1, <1>3, <2>1, <2>2, <2>3, <2>4, <2>5
  <2>7. QED
    BY <1>1, <1>2, <2>1, <2>6, Cancel DEF out
<1>6. QED
  BY <1>4, <1>5 DEF cost, q

\* Whoever sells at the quoted price leaves the pool with no smaller product, and
\* buying the same CSD back at the next quote costs at least what it brought
\* (quoteSell, afterSell, quoteBuy).
THEOREM SalesFavourThePool ==
  \A p \in Pools : SalesNeverGain(p, Nat)
<1> SUFFICES ASSUME NEW p \in Pools, NEW x \in Nat, x > 0
             PROVE  LET out == QuoteSell(p, x)  q == AfterSell(p, x, out) IN
                    Product(q) >= Product(p) /\ (CanBuy(q, x) => QuoteBuy(q, x) >= out)
  BY DEF SalesNeverGain
<1> DEFINE out == QuoteSell(p, x)
           q   == AfterSell(p, x, out)
           u   == p.usdc
           y   == p.csd
<1>1. out \in Nat /\ out * (y + x) <= u * x /\ out < u
  BY SaleIsCovered, SaleLeavesUsdc
<1>2. u \in Nat \ {0} /\ y \in Nat \ {0} /\ x \in Nat /\ x > 0 /\ y + x \in Nat \ {0}
  BY DEF Pools
<1>3. q \in Pools /\ q.usdc = u - out /\ q.csd = y + x
  <2> DEFINE a == u - out
             b == y + x
  <2>1. a \in Nat \ {0} /\ b \in Nat \ {0}
    BY <1>1, <1>2
  <2>2. q = [p EXCEPT !.usdc = a, !.csd = b]
    BY DEF AfterSell
  <2> HIDE DEF out, q, u, y, a, b
  <2>3. q \in Pools /\ q.usdc = a /\ q.csd = b
    BY <2>1, <2>2 DEF Pools
  <2>4. QED
    BY <2>3 DEF a, b
<1> HIDE DEF out, q, u, y
<1>4. Product(q) >= Product(p)
  <2>1. (u - out) * (y + x) = u * y + u * x - out * (y + x)
    BY <1>1, <1>2
  <2>2. u * y \in Nat /\ u * x \in Nat /\ out * (y + x) \in Nat
    BY <1>1, <1>2
  <2>3. (u - out) * (y + x) >= u * y
    BY <1>1, <2>1, <2>2
  <2>4. QED
    BY <1>3, <2>3 DEF Product, u, y
<1>5. ASSUME CanBuy(q, x) PROVE QuoteBuy(q, x) >= out
  <2> DEFINE cost == QuoteBuy(q, x)
  <2>1. cost \in Nat /\ q.usdc * x <= cost * (q.csd - x)
    BY <1>2, <1>3, <1>5, BuyCovers
  <2> HIDE DEF cost
  <2>2. q.csd - x = y
    BY <1>2, <1>3
  <2>3. (u - out) * x = u * x - out * x
    BY <1>1, <1>2
  <2>4. out * (y + x) = out * y + out * x
    BY <1>1, <1>2
  <2>5. /\ u * x \in Nat /\ out * x \in Nat /\ out * y \in Nat
        /\ cost * y \in Nat /\ out * (y + x) \in Nat
    BY <1>1, <1>2, <2>1
  <2>6. out * y <= cost * y
    BY <1>1, <1>3, <2>1, <2>2, <2>3, <2>4, <2>5
  <2>7. QED
    BY <1>1, <1>2, <2>1, <2>6, Cancel DEF cost
<1>6. QED
  BY <1>4, <1>5 DEF out, q

-----------------------------------------------------------------------------
(***************************************************************************)
(* The searches for an amount find it, and never need a second step.        *)
(***************************************************************************)
\* Induction over a set of numbers.
LEMMA Induct ==
  ASSUME NEW T \in SUBSET Nat, 0 \in T, \A n \in T : n + 1 \in T
  PROVE  T = Nat
<1>1. SUFFICES ASSUME Nat \ T # {} PROVE FALSE
  OBVIOUS
<1>2. PICK x \in Nat \ T : \A y \in Nat \ T : x <= y
  <2> DEFINE R == Nat \ T
  <2>1. R \in SUBSET Nat /\ R # {}
    BY <1>1
  <2> HIDE DEF R
  <2>2. \E x \in R : \A y \in R : x <= y
    BY <2>1, NoSmaller
  <2>3. QED
    BY <2>2 DEF R
<1>3. x - 1 \in Nat /\ x - 1 \in T
  BY <1>2
<1>4. QED
  BY <1>2, <1>3

\* ceilDiv is the least number of divisors that cover the dividend.
LEMMA CeilLeast ==
  ASSUME NEW a \in Nat, NEW b \in Nat \ {0}, NEW c \in Nat
  PROVE  /\ a <= c * b => CeilDiv(a, b) <= c
         /\ c < CeilDiv(a, b) => c * b < a
<1> DEFINE n == a + b - 1
<1>1. n \in Nat /\ n \div b \in Nat
  OBVIOUS
<1>2. (n \div b) * b <= n
  BY <1>1, Floor
<1>3. ASSUME a <= c * b, c < n \div b PROVE FALSE
  <2>1. (c + 1) * b <= (n \div b) * b
    BY <1>1, <1>3, Times
  <2>2. (c + 1) * b = c * b + b /\ c * b \in Nat /\ (n \div b) * b \in Nat
    BY <1>1
  <2>3. QED
    BY <1>2, <1>3, <2>1, <2>2
<1>4. c * b \in Nat
  OBVIOUS
<1>5. QED
  BY <1>1, <1>3, <1>4 DEF CeilDiv

\* A division that rounds down is the largest number of divisors that fit.
LEMMA FloorMost ==
  ASSUME NEW a \in Nat, NEW b \in Nat \ {0}, NEW c \in Nat
  PROVE  /\ c * b <= a => c <= a \div b
         /\ a < c * b => a \div b < c
<1>1. a \div b \in Nat /\ (a \div b) * b <= a
  BY Floor
<1>2. a < (a \div b) * b + b
  <2>1. a = b * (a \div b) + (a % b) /\ a % b \in 0..(b - 1)
    OBVIOUS
  <2>2. QED
    BY <1>1, <2>1
<1>3. c * b \in Nat /\ (a \div b) * b \in Nat
  BY <1>1
<1>4. ASSUME c * b <= a, a \div b < c PROVE FALSE
  <2>1. (a \div b + 1) * b <= c * b
    BY <1>1, <1>4, Times
  <2>2. (a \div b + 1) * b = (a \div b) * b + b
    BY <1>1
  <2>3. QED
    BY <1>2, <1>3, <1>4, <2>1, <2>2
<1>5. ASSUME a < c * b, c <= a \div b PROVE FALSE
  <2>1. c * b <= (a \div b) * b
    BY <1>1, <1>5, Times
  <2>2. QED
    BY <1>1, <1>3, <1>5, <2>1
<1>6. QED
  BY <1>1, <1>3, <1>4, <1>5

\* Fractions compare as their cross products, rounded down.
LEMMA DivOrder ==
  ASSUME NEW a \in Nat, NEW b \in Nat \ {0}, NEW c \in Nat, NEW d \in Nat \ {0}, a * d <= c * b
  PROVE  a \div b <= c \div d
<1> DEFINE q == a \div b
<1>1. q \in Nat /\ q * b <= a
  BY Floor
<1> HIDE DEF q
<1>2. q * b \in Nat /\ (q * b) * d <= a * d
  BY <1>1, Times
<1>3. (q * b) * d = (q * d) * b /\ q * d \in Nat
  BY <1>1
<1>4. (q * d) * b <= c * b
  <2>1. (q * b) * d \in Nat /\ a * d \in Nat /\ c * b \in Nat
    BY <1>2
  <2>2. QED
    BY <1>2, <1>3, <2>1
<1>5. q * d <= c
  BY <1>3, <1>4, Cancel
<1>6. QED
  BY <1>1, <1>5, FloorMost DEF q

---------------------------------------------------------------------------
\* What the money covers before the spread.
BaseOf(p, usdc) == (usdc * Bps) \div (Bps + p.spread)

\* The money left for CSD is a number, rounded down.
LEMMA BaseFacts ==
  ASSUME NEW p \in Pools, NEW usdc \in Nat
  PROVE  /\ BaseOf(p, usdc) \in Nat
         /\ BaseOf(p, usdc) * (Bps + p.spread) <= usdc * Bps
         /\ usdc * Bps < (BaseOf(p, usdc) + 1) * (Bps + p.spread)
<1> DEFINE up == Bps + p.spread
           base == (usdc * Bps) \div up
<1>1. up \in Nat \ {0} /\ Bps \in Nat /\ usdc * Bps \in Nat
  BY PoolAssumption DEF Pools
<1> HIDE DEF up
<1>2. base \in Nat /\ base * up <= usdc * Bps
  BY <1>1, Floor
<1>3. usdc * Bps < (base + 1) * up
  <2>1. (base + 1) * up <= usdc * Bps => base + 1 <= base
    BY <1>1, <1>2, FloorMost
  <2>2. (base + 1) * up \in Nat
    BY <1>1, <1>2
  <2>3. QED
    BY <1>1, <1>2, <2>1, <2>2
<1>4. QED
  BY <1>2, <1>3 DEF BaseOf, up

\* An amount that its share of the pool covers costs no more than the money.
LEMMA BuyAffordable ==
  ASSUME NEW p \in Pools, NEW usdc \in Nat, NEW x \in Nat, x < p.csd,
         x * (p.usdc + BaseOf(p, usdc)) <= p.csd * BaseOf(p, usdc)
  PROVE  QuoteBuy(p, x) \in Nat /\ QuoteBuy(p, x) <= usdc
<1> DEFINE base == BaseOf(p, usdc)
           rest == p.csd - x
           up   == Bps + p.spread
           k    == CeilDiv(p.usdc * x, rest)
<1>1. /\ p.usdc \in Nat /\ p.csd \in Nat /\ rest \in Nat \ {0} /\ up \in Nat /\ Bps \in Nat \ {0}
  BY PoolAssumption DEF Pools
<1>2. base \in Nat /\ base * up <= usdc * Bps
  BY BaseFacts
<1>3. x * (p.usdc + base) <= p.csd * base
  OBVIOUS
<1> HIDE DEF base
<1>4. p.usdc * x <= base * rest
  <2>1. x * (p.usdc + base) = p.usdc * x + base * x
    BY <1>1, <1>2
  <2>2. base * rest = p.csd * base - base * x
    BY <1>1, <1>2
  <2>3. p.usdc * x \in Nat /\ base * x \in Nat /\ p.csd * base \in Nat
    BY <1>1, <1>2
  <2>4. QED
    BY <1>3, <2>1, <2>2, <2>3
<1>5. p.usdc * x \in Nat
  BY <1>1
<1> HIDE DEF rest, up
<1>6. k \in Nat /\ k <= base
  BY <1>1, <1>2, <1>4, <1>5, Ceil, CeilLeast
<1> HIDE DEF k
<1>7. k * up \in Nat /\ k * up <= base * up
  BY <1>1, <1>2, <1>6, Times
<1>8. k * up <= usdc * Bps
  <2>1. base * up \in Nat /\ usdc * Bps \in Nat
    BY <1>1, <1>2
  <2>2. QED
    BY <1>2, <1>7, <2>1
<1>9. CeilDiv(k * up, Bps) \in Nat /\ CeilDiv(k * up, Bps) <= usdc
  BY <1>1, <1>7, <1>8, Ceil, CeilLeast
<1>10. QED
  BY <1>9 DEF QuoteBuy, k, up, rest

\* One beyond its share costs more.
LEMMA BuyTooDear ==
  ASSUME NEW p \in Pools, NEW usdc \in Nat, NEW x \in Nat, CanBuy(p, x),
         p.csd * BaseOf(p, usdc) < x * (p.usdc + BaseOf(p, usdc))
  PROVE  usdc < QuoteBuy(p, x)
<1> DEFINE base == BaseOf(p, usdc)
           rest == p.csd - x
           up   == Bps + p.spread
           k    == CeilDiv(p.usdc * x, rest)
           cost == CeilDiv(k * up, Bps)
<1>1. /\ p.usdc \in Nat /\ p.csd \in Nat /\ rest \in Nat \ {0} /\ up \in Nat /\ Bps \in Nat \ {0}
  BY PoolAssumption DEF Pools, CanBuy
<1>2. base \in Nat /\ usdc * Bps < (base + 1) * up
  BY BaseFacts
<1>3. p.csd * base < x * (p.usdc + base)
  OBVIOUS
<1> HIDE DEF base
<1>4. base * rest < p.usdc * x
  <2>1. x * (p.usdc + base) = p.usdc * x + base * x
    BY <1>1, <1>2
  <2>2. base * rest = p.csd * base - base * x
    BY <1>1, <1>2
  <2>3. p.usdc * x \in Nat /\ base * x \in Nat /\ p.csd * base \in Nat
    BY <1>1, <1>2
  <2>4. QED
    BY <1>3, <2>1, <2>2, <2>3
<1>5. p.usdc * x \in Nat
  BY <1>1
<1> HIDE DEF rest, up
<1>6. k \in Nat /\ base + 1 <= k
  <2>1. k \in Nat /\ k * rest >= p.usdc * x
    BY <1>1, <1>5, Ceil
  <2> HIDE DEF k
  <2>2. ASSUME k <= base PROVE FALSE
    <3>1. k * rest <= base * rest
      BY <1>1, <1>2, <2>1, <2>2, Times
    <3>2. k * rest \in Nat /\ base * rest \in Nat
      BY <1>1, <1>2, <2>1
    <3>3. QED
      BY <1>4, <1>5, <2>1, <3>1, <3>2
  <2>3. QED
    BY <1>2, <2>1, <2>2
<1> HIDE DEF k
<1>7. k * up \in Nat /\ (base + 1) * up <= k * up
  BY <1>1, <1>2, <1>6, Times
<1>8. cost \in Nat /\ cost * Bps >= k * up
  BY <1>1, <1>7, Ceil
<1> HIDE DEF cost
<1>9. ASSUME cost <= usdc PROVE FALSE
  <2>1. cost * Bps <= usdc * Bps
    BY <1>1, <1>8, <1>9, Times
  <2>2. cost * Bps \in Nat /\ usdc * Bps \in Nat /\ (base + 1) * up \in Nat
    BY <1>1, <1>2, <1>8
  <2>3. QED
    BY <1>2, <1>7, <1>8, <2>1, <2>2
<1>10. QED
  BY <1>8, <1>9 DEF QuoteBuy, cost, k, up, rest

\* Where the search of csdForUsdc starts: never above half the pool nor above the share.
MostFor(p, usdc) ==
  LET want == (p.csd * BaseOf(p, usdc)) \div (p.usdc + BaseOf(p, usdc))
  IN  IF 2 * want > p.csd THEN p.csd \div 2 ELSE want

\* The most that can be bought for some USDC, in numbers.
LEMMA MostForFacts ==
  ASSUME NEW p \in Pools, NEW usdc \in Nat
  PROVE  /\ MostFor(p, usdc) \in Nat /\ 2 * MostFor(p, usdc) <= p.csd
         /\ \A x \in 0..MostFor(p, usdc) : QuoteBuy(p, x) \in Nat /\ QuoteBuy(p, x) <= usdc
         /\ CanBuy(p, MostFor(p, usdc) + 1) => usdc < QuoteBuy(p, MostFor(p, usdc) + 1)
<1> DEFINE base == BaseOf(p, usdc)
           all  == p.usdc + base
           want == (p.csd * base) \div all
           most == MostFor(p, usdc)
<1>1. base \in Nat
  BY BaseFacts
<1>2. p.usdc \in Nat \ {0} /\ p.csd \in Nat \ {0}
  BY DEF Pools
<1>3. most = IF 2 * want > p.csd THEN p.csd \div 2 ELSE want
  BY DEF MostFor
<1> HIDE DEF base, most
<1>4. all \in Nat \ {0} /\ p.csd * base \in Nat
  BY <1>1, <1>2
<1> HIDE DEF all
<1>5. want \in Nat /\ want * all <= p.csd * base
  BY <1>4, Floor
<1>6. p.csd * base < (want + 1) * all
  <2>1. (want + 1) * all <= p.csd * base => want + 1 <= want
    BY <1>4, <1>5, FloorMost
  <2>2. (want + 1) * all \in Nat
    BY <1>4, <1>5
  <2>3. QED
    BY <1>4, <1>5, <2>1, <2>2
<1> HIDE DEF want
<1>7. most \in Nat /\ most <= want /\ 2 * most <= p.csd /\ most < p.csd
  <2>1. CASE 2 * want > p.csd
    <3>1. p.csd \div 2 \in Nat /\ 2 * (p.csd \div 2) <= p.csd
      BY <1>2
    <3>2. QED
      BY <1>2, <1>3, <1>5, <2>1, <3>1
  <2>2. CASE ~(2 * want > p.csd)
    BY <1>2, <1>3, <1>5, <2>2
  <2>3. QED
    BY <2>1, <2>2
<1>8. ASSUME NEW x \in 0..most
      PROVE  QuoteBuy(p, x) \in Nat /\ QuoteBuy(p, x) <= usdc
  <2>1. x \in Nat /\ x < p.csd /\ x <= want
    BY <1>2, <1>5, <1>7
  <2>2. x * all <= want * all
    BY <1>4, <1>5, <2>1, Times
  <2>3. x * all <= p.csd * base
    <3>1. x * all \in Nat /\ want * all \in Nat
      BY <1>4, <1>5, <2>1
    <3>2. QED
      BY <1>4, <1>5, <2>2, <3>1
  <2>4. QED
    BY <2>1, <2>3, BuyAffordable DEF all, base
<1>9. ASSUME CanBuy(p, most + 1) PROVE usdc < QuoteBuy(p, most + 1)
  <2>1. most = want
    <3>1. 2 * most + 2 <= p.csd
      BY <1>7, <1>9, <1>2 DEF CanBuy
    <3>2. CASE 2 * want > p.csd
      <4>1. p.csd < 2 * (p.csd \div 2) + 2
        BY <1>2
      <4>2. QED
        BY <1>2, <1>3, <1>7, <3>1, <3>2, <4>1
    <3>3. QED
      BY <1>3, <3>2
  <2>2. most + 1 \in Nat /\ p.csd * base < (most + 1) * all
    BY <1>5, <1>6, <2>1
  <2>3. QED
    BY <1>9, <2>2, BuyTooDear DEF all, base
<1>10. QED
  BY <1>7, <1>8, <1>9 DEF most

\* The search of csdForUsdc ends where it starts.
LEMMA CsdForUsdcIs ==
  ASSUME NEW p \in Pools, NEW usdc \in Nat
  PROVE  CsdForUsdc(p, usdc) = MostFor(p, usdc)
<1> DEFINE start == MostFor(p, usdc)
           Eq(f) == f = [x \in 0..start |-> IF x > 0 /\ QuoteBuy(p, x) > usdc
                                           THEN f[x - (1 + x \div Coarse)] ELSE x]
           down == CHOOSE f : Eq(f)
<1>1. start \in Nat /\ \A x \in 0..start : QuoteBuy(p, x) \in Nat /\ QuoteBuy(p, x) <= usdc
  BY MostForFacts
<1>2. CsdForUsdc(p, usdc) = down[start]
  BY DEF CsdForUsdc, MostFor, BaseOf
<1> HIDE DEF start
<1>3. \A x \in 0..start : ~(QuoteBuy(p, x) > usdc)
  BY <1>1
<1>4. Eq([x \in 0..start |-> x])
  BY <1>3
<1>5. Eq(down)
  <2> HIDE DEF Eq
  <2>1. \E f : Eq(f)
    BY <1>4
  <2>2. QED
    BY <2>1
<1> HIDE DEF down
<1>6. start \in 0..start
  BY <1>1
<1>7. down[start] = start
  BY <1>3, <1>5, <1>6
<1>8. QED
  BY <1>2, <1>7 DEF start

\* What a sale must bring before the spread.
LEMMA BaseToSellFacts ==
  ASSUME NEW p \in Pools, NEW usdc \in Nat \ {0}
  PROVE  /\ BaseToSellFor(p, usdc) \in Nat \ {0}
         /\ BaseToSellFor(p, usdc) * (Bps - p.spread) >= usdc * Bps
         /\ \A m \in Nat : m < BaseToSellFor(p, usdc) => m * (Bps - p.spread) < usdc * Bps
<1> DEFINE down == Bps - p.spread
           base == CeilDiv(usdc * Bps, down)
<1>1. down \in Nat \ {0} /\ Bps \in Nat \ {0} /\ usdc * Bps \in Nat \ {0}
  BY PoolAssumption DEF Pools
<1> HIDE DEF down
<1>2. base \in Nat /\ base * down >= usdc * Bps
  BY <1>1, Ceil
<1>3. \A m \in Nat : m < base => m * down < usdc * Bps
  BY <1>1, CeilLeast
<1> HIDE DEF base
<1>4. base # 0
  BY <1>1, <1>2
<1>5. QED
  BY <1>2, <1>3, <1>4 DEF BaseToSellFor, base, down

\* The least amount whose share of the pool covers that.
LeastFor(p, usdc) == CeilDiv(p.csd * BaseToSellFor(p, usdc), p.usdc - BaseToSellFor(p, usdc))

\* A sale brings the money exactly from that amount on.
LEMMA LeastForFacts ==
  ASSUME NEW p \in Pools, NEW usdc \in Nat \ {0}, CanSellFor(p, usdc)
  PROVE  /\ LeastFor(p, usdc) \in Nat \ {0}
         /\ \A x \in Nat : QuoteSell(p, x) \in Nat /\ (QuoteSell(p, x) < usdc <=> x < LeastFor(p, usdc))
<1> DEFINE base  == BaseToSellFor(p, usdc)
           rest  == p.usdc - base
           least == LeastFor(p, usdc)
           down  == Bps - p.spread
<1>1. /\ base \in Nat \ {0} /\ base * down >= usdc * Bps
      /\ \A m \in Nat : m < base => m * down < usdc * Bps
  BY BaseToSellFacts
<1>2. /\ p.usdc \in Nat \ {0} /\ p.csd \in Nat \ {0} /\ down \in Nat \ {0} /\ Bps \in Nat \ {0}
      /\ base < p.usdc
  BY PoolAssumption DEF Pools, CanSellFor
<1>3. least = CeilDiv(p.csd * base, rest)
  BY DEF LeastFor
<1> HIDE DEF base, least, down
<1>4. rest \in Nat \ {0} /\ p.csd * base \in Nat \ {0}
  BY <1>1, <1>2
<1>5. /\ least \in Nat /\ least * rest >= p.csd * base
      /\ \A c \in Nat : c < least => c * rest < p.csd * base
  BY <1>3, <1>4, Ceil, CeilLeast
<1>6. ASSUME NEW x \in Nat
      PROVE  QuoteSell(p, x) \in Nat /\ (QuoteSell(p, x) < usdc <=> x < least)
  <2> DEFINE all == p.csd + x
             m   == (p.usdc * x) \div all
  <2>1. all \in Nat \ {0} /\ p.usdc * x \in Nat
    BY <1>2
  <2>2. m \in Nat
    BY <2>1
  <2>3. p.usdc * x = x * rest + base * x /\ base * all = p.csd * base + base * x
    BY <1>1, <1>2
  <2>4. x * rest \in Nat /\ base * x \in Nat /\ base * all \in Nat
    BY <1>1, <1>2, <1>4
  <2>5. (m * down) \in Nat /\ usdc * Bps \in Nat
    BY <1>2, <2>2
  <2>6. QuoteSell(p, x) = (m * down) \div Bps
    BY DEF QuoteSell, down
  <2>7. (m * down) \div Bps \in Nat
    BY <1>2, <2>5
  <2>8. CASE x < least
    <3>1. x * rest < p.csd * base
      BY <1>5, <2>8
    <3>2. p.usdc * x < base * all
      BY <1>4, <2>3, <2>4, <3>1
    <3>3. m < base
      BY <1>1, <2>1, <2>4, <3>2, FloorMost
    <3>4. m * down < usdc * Bps
      BY <1>1, <2>2, <3>3
    <3>5. (m * down) \div Bps < usdc
      BY <1>2, <2>5, <3>4, FloorMost
    <3>6. QED
      BY <2>6, <2>7, <2>8, <3>5
  <2>9. CASE ~(x < least)
    <3>1. least * rest <= x * rest
      BY <1>4, <1>5, <2>9, Times
    <3>2. p.csd * base <= x * rest
      BY <1>4, <1>5, <2>4, <3>1
    <3>3. base * all <= p.usdc * x
      BY <1>4, <2>3, <2>4, <3>2
    <3>4. base <= m
      BY <1>1, <2>1, <2>4, <3>3, FloorMost
    <3>5. base * down <= m * down
      BY <1>1, <1>2, <2>2, <3>4, Times
    <3>6. usdc * Bps <= m * down
      <4>1. base * down \in Nat
        BY <1>1, <1>2
      <4>2. QED
        BY <1>1, <2>5, <3>5, <4>1
    <3>7. usdc <= (m * down) \div Bps
      BY <1>2, <2>5, <3>6, FloorMost
    <3>8. QED
      BY <1>5, <2>6, <2>7, <2>9, <3>7
  <2>10. QED
    BY <2>8, <2>9
<1>7. least # 0
  <2>1. least = 0 => least * rest = 0
    BY <1>4
  <2>2. QED
    BY <1>4, <1>5, <2>1
<1>8. QED
  BY <1>5, <1>6, <1>7 DEF least

\* The search of csdToSellFor, cut off below: it has an answer from any amount up.
SearchUp(f, n, least) ==
  f = [x \in {x \in Nat : least <= x + n} |-> IF x < least THEN f[x + 1 + x \div Coarse] ELSE x]

\* The two searches are functions: their recursions have a solution.
LEMMA SearchesExist ==
  ASSUME NEW least \in Nat, NEW n \in Nat
  PROVE  \E f : SearchUp(f, n, least)
<1> DEFINE T == {k \in Nat : \E f : SearchUp(f, k, least)}
<1>1. 0 \in T
  <2> DEFINE f == [x \in {x \in Nat : least <= x + 0} |-> x]
  <2>1. SearchUp(f, 0, least)
    BY DEF SearchUp
  <2>2. QED
    BY <2>1
<1>2. ASSUME NEW k \in T PROVE k + 1 \in T
  <2>1. k \in Nat
    OBVIOUS
  <2>2. PICK g : SearchUp(g, k, least)
    OBVIOUS
  <2> DEFINE D == {x \in Nat : least <= x + k}
             E == {x \in Nat : least <= x + (k + 1)}
             f == [x \in E |-> IF x < least THEN g[x + 1 + x \div Coarse] ELSE x]
  <2>3. g = [x \in D |-> IF x < least THEN g[x + 1 + x \div Coarse] ELSE x]
    BY <2>2 DEF SearchUp
  <2>4. D \subseteq E
    BY <2>1
  <2>5. \A x \in E : x + 1 + x \div Coarse \in D
    <3> SUFFICES ASSUME NEW x \in E PROVE x + 1 + x \div Coarse \in D
      OBVIOUS
    <3>1. x \in Nat /\ x \div Coarse \in Nat
      BY PoolAssumption
    <3>2. QED
      BY <2>1, <3>1
  <2> HIDE DEF D, E
  <2>6. \A x \in D : f[x] = g[x]
    BY <2>3, <2>4
  <2>7. f = [x \in E |-> IF x < least THEN f[x + 1 + x \div Coarse] ELSE x]
    BY <2>5, <2>6
  <2>8. SearchUp(f, k + 1, least)
    BY <2>7 DEF SearchUp, E
  <2>9. QED
    BY <2>1, <2>8
<1> HIDE DEF T
<1>3. T \in SUBSET Nat
  BY DEF T
<1>4. T = Nat
  BY <1>1, <1>2, <1>3, Induct
<1>5. QED
  BY <1>4 DEF T

\* It ends where it starts.
LEMMA CsdToSellForIs ==
  ASSUME NEW p \in Pools, NEW usdc \in Nat \ {0}, CanSellFor(p, usdc)
  PROVE  CsdToSellFor(p, usdc) = LeastFor(p, usdc)
<1> DEFINE least == LeastFor(p, usdc)
           Eq(f) == f = [x \in Nat |-> IF QuoteSell(p, x) < usdc THEN f[x + 1 + x \div Coarse] ELSE x]
           up == CHOOSE f : Eq(f)
<1>1. least \in Nat /\ \A x \in Nat : QuoteSell(p, x) < usdc <=> x < least
  BY LeastForFacts
<1>2. CsdToSellFor(p, usdc) = up[least]
  BY DEF CsdToSellFor, LeastFor
<1> HIDE DEF least
<1>3. \E f : Eq(f)
  <2>1. PICK f : SearchUp(f, least, least)
    BY <1>1, SearchesExist
  <2>2. {x \in Nat : least <= x + least} = Nat
    BY <1>1
  <2>3. f = [x \in Nat |-> IF x < least THEN f[x + 1 + x \div Coarse] ELSE x]
    BY <2>1, <2>2 DEF SearchUp
  <2>4. Eq(f)
    BY <1>1, <2>3
  <2> HIDE DEF Eq
  <2>5. QED
    BY <2>4
<1>4. Eq(up)
  <2> HIDE DEF Eq
  <2>1. QED
    BY <1>3
<1> HIDE DEF up
<1>5. up[least] = least
  BY <1>1, <1>4
<1>6. QED
  BY <1>2, <1>5 DEF least

---------------------------------------------------------------------------
\* For every pool and every amount of money, csdForUsdc returns the most CSD that
\* the money buys and csdToSellFor the least that brings it, and neither search
\* ever takes a step (csdForUsdc, csdToSellFor).
THEOREM SearchesAreExact ==
  \A p \in Pools, usdc \in Nat \ {0} :
    /\ LET x == CsdForUsdc(p, usdc) IN
       /\ x = MostFor(p, usdc) /\ x \in Nat
       /\ (x > 0 => CanBuy(p, x) /\ QuoteBuy(p, x) <= usdc)
       /\ (CanBuy(p, x + 1) => QuoteBuy(p, x + 1) > usdc)
    /\ CanSellFor(p, usdc) => LET x == CsdToSellFor(p, usdc) IN
       /\ x = LeastFor(p, usdc) /\ x \in Nat \ {0}
       /\ QuoteSell(p, x) >= usdc /\ QuoteSell(p, x - 1) < usdc
<1> SUFFICES ASSUME NEW p \in Pools, NEW usdc \in Nat \ {0}
             PROVE  /\ LET x == CsdForUsdc(p, usdc) IN
                       /\ x = MostFor(p, usdc) /\ x \in Nat
                       /\ (x > 0 => CanBuy(p, x) /\ QuoteBuy(p, x) <= usdc)
                       /\ (CanBuy(p, x + 1) => QuoteBuy(p, x + 1) > usdc)
                    /\ CanSellFor(p, usdc) => LET x == CsdToSellFor(p, usdc) IN
                       /\ x = LeastFor(p, usdc) /\ x \in Nat \ {0}
                       /\ QuoteSell(p, x) >= usdc /\ QuoteSell(p, x - 1) < usdc
  OBVIOUS
<1>1. /\ CsdForUsdc(p, usdc) = MostFor(p, usdc) /\ MostFor(p, usdc) \in Nat
      /\ 2 * MostFor(p, usdc) <= p.csd
      /\ \A x \in 0..MostFor(p, usdc) : QuoteBuy(p, x) \in Nat /\ QuoteBuy(p, x) <= usdc
      /\ CanBuy(p, MostFor(p, usdc) + 1) => usdc < QuoteBuy(p, MostFor(p, usdc) + 1)
  BY CsdForUsdcIs, MostForFacts
<1>2. MostFor(p, usdc) + 1 \in Nat /\ MostFor(p, usdc) \in 0..MostFor(p, usdc)
  BY <1>1
<1>3. CanBuy(p, MostFor(p, usdc) + 1) => QuoteBuy(p, MostFor(p, usdc) + 1) > usdc
  <2>1. CanBuy(p, MostFor(p, usdc) + 1) => QuoteBuy(p, MostFor(p, usdc) + 1) \in Nat
    BY <1>2, BuyCovers
  <2>2. QED
    BY <1>1, <2>1
<1>4. ASSUME CanSellFor(p, usdc)
      PROVE  LET x == CsdToSellFor(p, usdc) IN
             /\ x = LeastFor(p, usdc) /\ x \in Nat \ {0}
             /\ QuoteSell(p, x) >= usdc /\ QuoteSell(p, x - 1) < usdc
  <2>1. CsdToSellFor(p, usdc) = LeastFor(p, usdc)
    BY <1>4, CsdToSellForIs
  <2>2. /\ LeastFor(p, usdc) \in Nat \ {0}
        /\ \A x \in Nat : QuoteSell(p, x) \in Nat /\ (QuoteSell(p, x) < usdc <=> x < LeastFor(p, usdc))
    BY <1>4, LeastForFacts
  <2>3. LeastFor(p, usdc) - 1 \in Nat /\ LeastFor(p, usdc) - 1 < LeastFor(p, usdc)
    BY <2>2
  <2>4. QED
    BY <2>1, <2>2, <2>3
<1>5. QED
  BY <1>1, <1>2, <1>3, <1>4 DEF CanBuy

-----------------------------------------------------------------------------
(***************************************************************************)
(* The ladder: asks and bids on either side of one price.                   *)
(***************************************************************************)
\* A step from a set into itself can be repeated any number of times.
LEMMA Iterated ==
  ASSUME NEW S, NEW s0 \in S, NEW g \in [S -> S], NEW n \in Nat
  PROVE  \E f \in [0..n -> S] : f = [i \in 0..n |-> IF i = 0 THEN s0 ELSE g[f[i - 1]]]
<1> DEFINE Table(f, k) == f \in [0..k -> S] /\ f = [i \in 0..k |-> IF i = 0 THEN s0 ELSE g[f[i - 1]]]
           T == {k \in Nat : \E f : Table(f, k)}
<1>1. 0 \in T
  <2>1. Table([i \in 0..0 |-> s0], 0)
    OBVIOUS
  <2> HIDE DEF Table
  <2>2. QED
    BY <2>1
<1>2. ASSUME NEW k \in T PROVE k + 1 \in T
  <2>1. k \in Nat
    OBVIOUS
  <2>2. PICK f : Table(f, k)
    OBVIOUS
  <2> DEFINE h == [i \in 0..(k + 1) |-> IF i = k + 1 THEN g[f[k]] ELSE f[i]]
  <2>3. k \in 0..k /\ f[k] \in S /\ g[f[k]] \in S
    BY <2>1, <2>2
  <2>4. h \in [0..(k + 1) -> S]
    BY <2>1, <2>2, <2>3
  <2>5. \A i \in 0..(k + 1) : h[i] = IF i = 0 THEN s0 ELSE g[h[i - 1]]
    <3> SUFFICES ASSUME NEW i \in 0..(k + 1) PROVE h[i] = IF i = 0 THEN s0 ELSE g[h[i - 1]]
      OBVIOUS
    <3>1. CASE i = k + 1
      BY <2>1, <3>1
    <3>2. CASE i # k + 1
      <4>1. i \in 0..k /\ (i # 0 => i - 1 \in 0..(k + 1) /\ i - 1 # k + 1)
        BY <2>1, <3>2
      <4>2. h[i] = f[i] /\ (i # 0 => h[i - 1] = f[i - 1])
        BY <2>1, <4>1
      <4>3. f[i] = IF i = 0 THEN s0 ELSE g[f[i - 1]]
        BY <2>2, <4>1
      <4>4. QED
        BY <4>2, <4>3
    <3>3. QED
      BY <3>1, <3>2
  <2> HIDE DEF h
  <2>6. h = [i \in 0..(k + 1) |-> IF i = 0 THEN s0 ELSE g[h[i - 1]]]
    BY <2>4, <2>5
  <2>7. Table(h, k + 1)
    BY <2>4, <2>6
  <2> HIDE DEF Table
  <2>8. QED
    BY <2>1, <2>7
<1> HIDE DEF T
<1>3. T \in SUBSET Nat
  BY DEF T
<1>4. T = Nat
  BY <1>1, <1>2, <1>3, Induct
<1>5. QED
  BY <1>4 DEF T

\* A ladder while it is built: the pool after its rows, no cheaper (for the asks;
\* no dearer, for the bids) than the first, and the rows on their side of the
\* first pool's price.
Dearer(q, p)  == p.usdc * q.csd <= q.usdc * p.csd
RowsAbove(p)  == {r \in [price : Nat, csd : Nat] : MidPrice(p) <= r.price}
RowsBelow(p)  == {r \in [price : Nat, csd : Nat] : r.price <= MidPrice(p)}
AskStates(p)  == [pool : {q \in Pools : Dearer(q, p)}, rows : Seq(RowsAbove(p))]
BidStates(p)  == [pool : {q \in Pools : Dearer(p, q)}, rows : Seq(RowsBelow(p))]

\* A buy from a pool no cheaper than the first is priced no lower, and leaves the
\* pool no cheaper.
LEMMA AskStep ==
  ASSUME NEW p \in Pools, NEW q \in Pools, Dearer(q, p), NEW x \in Nat \ {0}, CanBuy(q, x)
  PROVE  /\ AfterBuy(q, x, QuoteBuy(q, x)) \in Pools
         /\ Dearer(AfterBuy(q, x, QuoteBuy(q, x)), p)
         /\ [price |-> (QuoteBuy(q, x) * CsdUnit) \div x, csd |-> x] \in RowsAbove(p)
<1> DEFINE cost == QuoteBuy(q, x)
           rest == q.csd - x
<1>1. cost \in Nat /\ q.usdc * x <= cost * rest
  BY BuyCovers
<1>2. /\ p.usdc \in Nat \ {0} /\ p.csd \in Nat \ {0} /\ q.usdc \in Nat \ {0} /\ q.csd \in Nat \ {0}
      /\ rest \in Nat \ {0} /\ rest <= q.csd /\ CsdUnit \in Nat \ {0}
  BY PoolAssumption DEF Pools, CanBuy
<1> HIDE DEF cost
<1>3. AfterBuy(q, x, cost) \in Pools
  <2> DEFINE r == AfterBuy(q, x, cost)
  <2>1. r.usdc = q.usdc + cost /\ r.csd = rest /\ r.spread = q.spread
    BY DEF AfterBuy, Pools
  <2>2. DOMAIN r = {"usdc", "csd", "spread"} /\ r = [k \in DOMAIN r |-> r[k]]
    BY DEF AfterBuy, Pools
  <2>3. q.usdc + cost \in Nat \ {0} /\ rest \in Nat \ {0} /\ q.spread \in 0..(Bps - 1)
    BY <1>1, <1>2 DEF Pools
  <2> HIDE DEF r, rest
  <2>4. r \in Pools
    BY <2>1, <2>2, <2>3 DEF Pools
  <2>5. QED
    BY <2>4 DEF r
<1>4. p.usdc * q.csd <= q.usdc * p.csd
  BY DEF Dearer
<1>5. Dearer(AfterBuy(q, x, cost), p)
  <2>1. p.usdc * rest <= p.usdc * q.csd
    BY <1>2, Times
  <2>2. q.usdc * p.csd <= (q.usdc + cost) * p.csd
    BY <1>1, <1>2, Times
  <2>3. /\ p.usdc * rest \in Nat /\ p.usdc * q.csd \in Nat /\ q.usdc * p.csd \in Nat
        /\ (q.usdc + cost) * p.csd \in Nat
    BY <1>1, <1>2
  <2>4. p.usdc * rest <= (q.usdc + cost) * p.csd
    BY <1>4, <2>1, <2>2, <2>3
  <2>5. AfterBuy(q, x, cost).usdc = q.usdc + cost /\ AfterBuy(q, x, cost).csd = rest
    BY <1>2 DEF AfterBuy, Pools
  <2>6. QED
    BY <2>4, <2>5 DEF Dearer
<1>6. p.usdc * x <= cost * p.csd
  <2>1. cost * rest <= cost * q.csd
    BY <1>1, <1>2, Times
  <2>2. q.usdc * x <= cost * q.csd
    <3>1. q.usdc * x \in Nat /\ cost * rest \in Nat /\ cost * q.csd \in Nat
      BY <1>1, <1>2
    <3>2. QED
      BY <1>1, <2>1, <3>1
  <2>3. (p.usdc * q.csd) * x <= (q.usdc * p.csd) * x
    <3>1. p.usdc * q.csd \in Nat /\ q.usdc * p.csd \in Nat
      BY <1>2
    <3>2. QED
      BY <1>4, <3>1, Times
  <2>4. (q.usdc * x) * p.csd <= (cost * q.csd) * p.csd
    <3>1. q.usdc * x \in Nat /\ cost * q.csd \in Nat
      BY <1>1, <1>2
    <3>2. QED
      BY <1>2, <2>2, <3>1, Times
  <2>5. (p.usdc * q.csd) * x = (p.usdc * x) * q.csd
    BY <1>2
  <2>6. (q.usdc * p.csd) * x = (q.usdc * x) * p.csd
    BY <1>2
  <2>7. (cost * q.csd) * p.csd = (cost * p.csd) * q.csd
    BY <1>1, <1>2
  <2>8. p.usdc * x \in Nat /\ cost * p.csd \in Nat /\ q.usdc * x \in Nat
    BY <1>1, <1>2
  <2>9. (p.usdc * x) * q.csd \in Nat /\ (cost * p.csd) * q.csd \in Nat /\ (q.usdc * x) * p.csd \in Nat
    BY <1>2, <2>8
  <2>10. (p.usdc * x) * q.csd <= (cost * p.csd) * q.csd
    BY <2>3, <2>4, <2>5, <2>6, <2>7, <2>9
  <2>11. QED
    BY <1>2, <2>8, <2>10, Cancel
<1>7. MidPrice(p) <= (cost * CsdUnit) \div x
  <2>1. (p.usdc * x) * CsdUnit <= (cost * p.csd) * CsdUnit
    <3>1. p.usdc * x \in Nat /\ cost * p.csd \in Nat
      BY <1>1, <1>2
    <3>2. QED
      BY <1>2, <1>6, <3>1, Times
  <2>2. (p.usdc * x) * CsdUnit = (p.usdc * CsdUnit) * x /\ (cost * p.csd) * CsdUnit = (cost * CsdUnit) * p.csd
    BY <1>1, <1>2
  <2>3. p.usdc * CsdUnit \in Nat /\ cost * CsdUnit \in Nat
    BY <1>1, <1>2
  <2>4. (p.usdc * CsdUnit) * x <= (cost * CsdUnit) * p.csd
    BY <2>1, <2>2
  <2>5. (p.usdc * CsdUnit) \div p.csd <= (cost * CsdUnit) \div x
    BY <1>2, <2>3, <2>4, DivOrder
  <2>6. QED
    BY <2>5 DEF MidPrice
<1>8. (cost * CsdUnit) \div x \in Nat
  <2>1. cost * CsdUnit \in Nat
    BY <1>1, <1>2
  <2>2. QED
    BY <2>1, Floor
<1>9. QED
  BY <1>3, <1>5, <1>7, <1>8 DEF cost, RowsAbove

\* And so of a sale to a pool no dearer than the first.
LEMMA BidStep ==
  ASSUME NEW p \in Pools, NEW q \in Pools, Dearer(p, q), NEW x \in Nat \ {0}
  PROVE  /\ AfterSell(q, x, QuoteSell(q, x)) \in Pools
         /\ Dearer(p, AfterSell(q, x, QuoteSell(q, x)))
         /\ [price |-> (QuoteSell(q, x) * CsdUnit) \div x, csd |-> x] \in RowsBelow(p)
<1> DEFINE out == QuoteSell(q, x)
           all == q.csd + x
<1>1. out \in Nat /\ out * all <= q.usdc * x /\ out < q.usdc
  BY SaleIsCovered, SaleLeavesUsdc
<1>2. /\ p.usdc \in Nat \ {0} /\ p.csd \in Nat \ {0} /\ q.usdc \in Nat \ {0} /\ q.csd \in Nat \ {0}
      /\ all \in Nat \ {0} /\ q.csd <= all /\ CsdUnit \in Nat \ {0}
  BY PoolAssumption DEF Pools
<1> HIDE DEF out
<1>3. AfterSell(q, x, out) \in Pools
  <2> DEFINE r == AfterSell(q, x, out)
  <2>1. r.usdc = q.usdc - out /\ r.csd = all /\ r.spread = q.spread
    BY DEF AfterSell, Pools
  <2>2. DOMAIN r = {"usdc", "csd", "spread"} /\ r = [k \in DOMAIN r |-> r[k]]
    BY DEF AfterSell, Pools
  <2>3. q.usdc - out \in Nat \ {0} /\ all \in Nat \ {0} /\ q.spread \in 0..(Bps - 1)
    BY <1>1, <1>2 DEF Pools
  <2> HIDE DEF r, all
  <2>4. r \in Pools
    BY <2>1, <2>2, <2>3 DEF Pools
  <2>5. QED
    BY <2>4 DEF r
<1>4. q.usdc * p.csd <= p.usdc * q.csd
  BY DEF Dearer
<1>5. Dearer(p, AfterSell(q, x, out))
  <2>1. (q.usdc - out) * p.csd <= q.usdc * p.csd
    BY <1>1, <1>2, Times
  <2>2. p.usdc * q.csd <= p.usdc * all
    BY <1>2, Times
  <2>3. /\ (q.usdc - out) * p.csd \in Nat /\ q.usdc * p.csd \in Nat /\ p.usdc * q.csd \in Nat
        /\ p.usdc * all \in Nat
    BY <1>1, <1>2
  <2>4. (q.usdc - out) * p.csd <= p.usdc * all
    BY <1>4, <2>1, <2>2, <2>3
  <2>5. AfterSell(q, x, out).usdc = q.usdc - out /\ AfterSell(q, x, out).csd = all
    BY <1>2 DEF AfterSell, Pools
  <2>6. QED
    BY <2>4, <2>5 DEF Dearer
<1>6. out * p.csd <= p.usdc * x
  <2>1. out * q.csd <= out * all
    BY <1>1, <1>2, Times
  <2>2. out * q.csd <= q.usdc * x
    <3>1. q.usdc * x \in Nat /\ out * all \in Nat /\ out * q.csd \in Nat
      BY <1>1, <1>2
    <3>2. QED
      BY <1>1, <2>1, <3>1
  <2>3. (q.usdc * p.csd) * x <= (p.usdc * q.csd) * x
    <3>1. p.usdc * q.csd \in Nat /\ q.usdc * p.csd \in Nat
      BY <1>2
    <3>2. QED
      BY <1>4, <3>1, Times
  <2>4. (out * q.csd) * p.csd <= (q.usdc * x) * p.csd
    <3>1. q.usdc * x \in Nat /\ out * q.csd \in Nat
      BY <1>1, <1>2
    <3>2. QED
      BY <1>2, <2>2, <3>1, Times
  <2>5. (p.usdc * q.csd) * x = (p.usdc * x) * q.csd
    BY <1>2
  <2>6. (q.usdc * p.csd) * x = (q.usdc * x) * p.csd
    BY <1>2
  <2>7. (out * q.csd) * p.csd = (out * p.csd) * q.csd
    BY <1>1, <1>2
  <2>8. p.usdc * x \in Nat /\ out * p.csd \in Nat /\ q.usdc * x \in Nat
    BY <1>1, <1>2
  <2>9. (p.usdc * x) * q.csd \in Nat /\ (out * p.csd) * q.csd \in Nat /\ (q.usdc * x) * p.csd \in Nat
    BY <1>2, <2>8
  <2>10. (out * p.csd) * q.csd <= (p.usdc * x) * q.csd
    BY <2>3, <2>4, <2>5, <2>6, <2>7, <2>9
  <2>11. QED
    BY <1>2, <2>8, <2>10, Cancel
<1>7. (out * CsdUnit) \div x <= MidPrice(p)
  <2>1. (out * p.csd) * CsdUnit <= (p.usdc * x) * CsdUnit
    <3>1. p.usdc * x \in Nat /\ out * p.csd \in Nat
      BY <1>1, <1>2
    <3>2. QED
      BY <1>2, <1>6, <3>1, Times
  <2>2. (p.usdc * x) * CsdUnit = (p.usdc * CsdUnit) * x /\ (out * p.csd) * CsdUnit = (out * CsdUnit) * p.csd
    BY <1>1, <1>2
  <2>3. p.usdc * CsdUnit \in Nat /\ out * CsdUnit \in Nat
    BY <1>1, <1>2
  <2>4. (out * CsdUnit) * p.csd <= (p.usdc * CsdUnit) * x
    BY <2>1, <2>2
  <2>5. (out * CsdUnit) \div x <= (p.usdc * CsdUnit) \div p.csd
    BY <1>2, <2>3, <2>4, DivOrder
  <2>6. QED
    BY <2>5 DEF MidPrice
<1>8. (out * CsdUnit) \div x \in Nat
  <2>1. out * CsdUnit \in Nat
    BY <1>1, <1>2
  <2>2. QED
    BY <2>1, Floor
<1>9. QED
  BY <1>3, <1>5, <1>7, <1>8 DEF out, RowsBelow

\* Every ask lies at or above the pool's price.
LEMMA AsksAbove ==
  ASSUME NEW p \in Pools, NEW step \in Nat \ {0}, NEW levels \in Nat
  PROVE  Asks(p, step, levels) \in Seq(RowsAbove(p))
<1> DEFINE S  == AskStates(p)
           s0 == [pool |-> p, rows |-> << >>]
           Next1(a) == LET x == CsdForUsdc(a.pool, step) IN
                       IF x <= 0 THEN a
                       ELSE LET cost == QuoteBuy(a.pool, x) IN
                            [pool |-> AfterBuy(a.pool, x, cost),
                             rows |-> Append(a.rows, [price |-> (cost * CsdUnit) \div x, csd |-> x])]
           g  == [a \in S |-> Next1(a)]
           Eq(f) == f = [i \in 0..levels |-> IF i = 0 THEN s0 ELSE Next1(f[i - 1])]
           after == CHOOSE f : Eq(f)
<1>1. Asks(p, step, levels) = after[levels].rows
  BY DEF Asks
<1>2. s0 \in S
  <2>1. Dearer(p, p)
    BY DEF Dearer, Pools
  <2>2. QED
    BY <2>1 DEF AskStates
<1>3. \A a \in S : Next1(a) \in S
  <2> SUFFICES ASSUME NEW a \in S PROVE Next1(a) \in S
    OBVIOUS
  <2>1. a.pool \in Pools /\ Dearer(a.pool, p) /\ a.rows \in Seq(RowsAbove(p))
    BY DEF AskStates
  <2> DEFINE x == CsdForUsdc(a.pool, step)
             cost == QuoteBuy(a.pool, x)
             row == [price |-> (cost * CsdUnit) \div x, csd |-> x]
  <2>2. x \in Nat /\ (x > 0 => CanBuy(a.pool, x))
    BY <2>1, SearchesAreExact
  <2> HIDE DEF x
  <2>3. CASE x <= 0
    BY <2>3 DEF x
  <2>4. CASE ~(x <= 0)
    <3>1. AfterBuy(a.pool, x, cost) \in Pools /\ Dearer(AfterBuy(a.pool, x, cost), p) /\ row \in RowsAbove(p)
      BY <2>1, <2>2, <2>4, AskStep
    <3> HIDE DEF cost, row
    <3>2. Append(a.rows, row) \in Seq(RowsAbove(p))
      BY <2>1, <3>1
    <3>3. Next1(a) = [pool |-> AfterBuy(a.pool, x, cost), rows |-> Append(a.rows, row)]
      BY <2>4 DEF x, cost, row
    <3> HIDE DEF Next1
    <3>4. QED
      BY <3>1, <3>2, <3>3 DEF AskStates
  <2>5. QED
    BY <2>3, <2>4
<1> HIDE DEF S, s0, Next1
<1>4. g \in [S -> S]
  BY <1>3
<1>5. PICK f \in [0..levels -> S] : f = [i \in 0..levels |-> IF i = 0 THEN s0 ELSE g[f[i - 1]]]
  <2> HIDE DEF g
  <2>1. QED
    BY <1>2, <1>4, Iterated
<1>6. Eq(f)
  <2>0. \A i \in 0..levels : i # 0 => i - 1 \in 0..levels
    OBVIOUS
  <2>1. \A i \in 0..levels : i # 0 => f[i - 1] \in S
    <3> HIDE DEF g
    <3>1. QED
      BY <1>5, <2>0
  <2>2. \A i \in 0..levels : (IF i = 0 THEN s0 ELSE g[f[i - 1]]) = (IF i = 0 THEN s0 ELSE Next1(f[i - 1]))
    BY <2>1
  <2>3. QED
    BY <1>5, <2>2
<1>7. Eq(after)
  <2> HIDE DEF Eq
  <2>1. QED
    BY <1>6
<1>8. after[levels] \in S
  <2> HIDE DEF after
  <2> DEFINE T == {i \in Nat : i <= levels => after[i] \in S}
  <2>1. 0 \in T
    BY <1>2, <1>7
  <2>2. ASSUME NEW n \in T PROVE n + 1 \in T
    <3>1. CASE n + 1 <= levels
      <4>1. n \in Nat /\ n + 1 \in 0..levels /\ n + 1 # 0 /\ (n + 1) - 1 = n /\ after[n] \in S
        BY <3>1
      <4>2. after[n + 1] = Next1(after[n])
        BY <1>7, <4>1
      <4>3. QED
        BY <1>3, <4>1, <4>2
    <3>2. QED
      BY <3>1
  <2> HIDE DEF T
  <2>3. T = Nat
    <3>1. T \in SUBSET Nat
      BY DEF T
    <3>2. QED
      BY <2>1, <2>2, <3>1, Induct
  <2>4. QED
    BY <2>3 DEF T
<1>9. QED
  <2> HIDE DEF after
  <2>1. QED
    BY <1>1, <1>8 DEF S, AskStates

\* Every bid lies at or below it.
LEMMA BidsBelow ==
  ASSUME NEW p \in Pools, NEW step \in Nat \ {0}, NEW levels \in Nat
  PROVE  Bids(p, step, levels) \in Seq(RowsBelow(p))
<1> DEFINE S  == BidStates(p)
           s0 == [pool |-> p, rows |-> << >>]
           Next1(a) == IF ~CanSellFor(a.pool, step) THEN a
                       ELSE LET x == CsdToSellFor(a.pool, step)  out == QuoteSell(a.pool, x) IN
                            [pool |-> AfterSell(a.pool, x, out),
                             rows |-> Append(a.rows, [price |-> (out * CsdUnit) \div x, csd |-> x])]
           g  == [a \in S |-> Next1(a)]
           Eq(f) == f = [i \in 0..levels |-> IF i = 0 THEN s0 ELSE Next1(f[i - 1])]
           after == CHOOSE f : Eq(f)
<1>1. Bids(p, step, levels) = after[levels].rows
  BY DEF Bids
<1>2. s0 \in S
  <2>1. Dearer(p, p)
    BY DEF Dearer, Pools
  <2>2. QED
    BY <2>1 DEF BidStates
<1>3. \A a \in S : Next1(a) \in S
  <2> SUFFICES ASSUME NEW a \in S PROVE Next1(a) \in S
    OBVIOUS
  <2>1. a.pool \in Pools /\ Dearer(p, a.pool) /\ a.rows \in Seq(RowsBelow(p))
    BY DEF BidStates
  <2> DEFINE x == CsdToSellFor(a.pool, step)
             out == QuoteSell(a.pool, x)
             row == [price |-> (out * CsdUnit) \div x, csd |-> x]
  <2>2. CASE ~CanSellFor(a.pool, step)
    BY <2>2
  <2>3. CASE CanSellFor(a.pool, step)
    <3>1. x \in Nat \ {0}
      BY <2>1, <2>3, SearchesAreExact
    <3> HIDE DEF x
    <3>2. AfterSell(a.pool, x, out) \in Pools /\ Dearer(p, AfterSell(a.pool, x, out)) /\ row \in RowsBelow(p)
      BY <2>1, <3>1, BidStep
    <3> HIDE DEF out, row
    <3>3. Append(a.rows, row) \in Seq(RowsBelow(p))
      BY <2>1, <3>2
    <3>4. Next1(a) = [pool |-> AfterSell(a.pool, x, out), rows |-> Append(a.rows, row)]
      BY <2>3 DEF x, out, row
    <3> HIDE DEF Next1
    <3>5. QED
      BY <3>2, <3>3, <3>4 DEF BidStates
  <2>4. QED
    BY <2>2, <2>3
<1> HIDE DEF S, s0, Next1
<1>4. g \in [S -> S]
  BY <1>3
<1>5. PICK f \in [0..levels -> S] : f = [i \in 0..levels |-> IF i = 0 THEN s0 ELSE g[f[i - 1]]]
  <2> HIDE DEF g
  <2>1. QED
    BY <1>2, <1>4, Iterated
<1>6. Eq(f)
  <2>0. \A i \in 0..levels : i # 0 => i - 1 \in 0..levels
    OBVIOUS
  <2>1. \A i \in 0..levels : i # 0 => f[i - 1] \in S
    <3> HIDE DEF g
    <3>1. QED
      BY <1>5, <2>0
  <2>2. \A i \in 0..levels : (IF i = 0 THEN s0 ELSE g[f[i - 1]]) = (IF i = 0 THEN s0 ELSE Next1(f[i - 1]))
    BY <2>1
  <2>3. QED
    BY <1>5, <2>2
<1>7. Eq(after)
  <2> HIDE DEF Eq
  <2>1. QED
    BY <1>6
<1>8. after[levels] \in S
  <2> HIDE DEF after
  <2> DEFINE T == {i \in Nat : i <= levels => after[i] \in S}
  <2>1. 0 \in T
    BY <1>2, <1>7
  <2>2. ASSUME NEW n \in T PROVE n + 1 \in T
    <3>1. CASE n + 1 <= levels
      <4>1. n \in Nat /\ n + 1 \in 0..levels /\ n + 1 # 0 /\ (n + 1) - 1 = n /\ after[n] \in S
        BY <3>1
      <4>2. after[n + 1] = Next1(after[n])
        BY <1>7, <4>1
      <4>3. QED
        BY <1>3, <4>1, <4>2
    <3>2. QED
      BY <3>1
  <2> HIDE DEF T
  <2>3. T = Nat
    <3>1. T \in SUBSET Nat
      BY DEF T
    <3>2. QED
      BY <2>1, <2>2, <3>1, Induct
  <2>4. QED
    BY <2>3 DEF T
<1>9. QED
  <2> HIDE DEF after
  <2>1. QED
    BY <1>1, <1>8 DEF S, BidStates

\* In a ladder of any number of levels of any size, no bid lies above an ask
\* (ladder).
THEOREM LadderNeverCrosses ==
  \A p \in Pools, step \in Nat \ {0}, levels \in Nat :
    LET asks == Asks(p, step, levels)  bids == Bids(p, step, levels) IN
    \A i \in DOMAIN asks, j \in DOMAIN bids : asks[i].price >= bids[j].price
<1> SUFFICES ASSUME NEW p \in Pools, NEW step \in Nat \ {0}, NEW levels \in Nat,
                    NEW i \in DOMAIN Asks(p, step, levels), NEW j \in DOMAIN Bids(p, step, levels)
             PROVE  Asks(p, step, levels)[i].price >= Bids(p, step, levels)[j].price
  OBVIOUS
<1>1. Asks(p, step, levels)[i] \in RowsAbove(p)
  BY AsksAbove
<1>2. Bids(p, step, levels)[j] \in RowsBelow(p)
  BY BidsBelow
<1>3. MidPrice(p) \in Nat
  <2>1. p.usdc * CsdUnit \in Nat /\ p.csd \in Nat \ {0}
    BY PoolAssumption DEF Pools
  <2>2. QED
    BY <2>1, Floor DEF MidPrice
<1>4. QED
  BY <1>1, <1>2, <1>3 DEF RowsAbove, RowsBelow

\* What PoolNeverLoses says of one pool.
PoolSound(p) ==
  /\ BuysNeverGain(p, 1..p.csd) /\ SalesNeverGain(p, 1..p.csd)
  /\ \A usdc \in 1..p.usdc :
       /\ LET x == CsdForUsdc(p, usdc) IN
          (x > 0 => QuoteBuy(p, x) <= usdc) /\ (CanBuy(p, x + 1) => QuoteBuy(p, x + 1) > usdc)
       /\ CanSellFor(p, usdc) => LET x == CsdToSellFor(p, usdc) IN
            QuoteSell(p, x) >= usdc /\ QuoteSell(p, x - 1) < usdc
  /\ LET asks == Asks(p, 2, 2)  bids == Bids(p, 2, 2) IN
       \A i \in DOMAIN asks, j \in DOMAIN bids : asks[i].price >= bids[j].price

\* Every pool a maker can quote keeps all of that.
LEMMA PoolsAreSound ==
  ASSUME NEW p \in Pools
  PROVE  PoolSound(p)
<1>1. p.csd \in Nat /\ p.usdc \in Nat /\ 1..p.csd \subseteq Nat /\ 1..p.usdc \subseteq Nat \ {0}
  BY DEF Pools
<1>2. BuysNeverGain(p, 1..p.csd) /\ SalesNeverGain(p, 1..p.csd)
  BY <1>1, BuysFavourThePool, SalesFavourThePool DEF BuysNeverGain, SalesNeverGain
<1>3. ASSUME NEW usdc \in 1..p.usdc
      PROVE  /\ LET x == CsdForUsdc(p, usdc) IN
                (x > 0 => QuoteBuy(p, x) <= usdc) /\ (CanBuy(p, x + 1) => QuoteBuy(p, x + 1) > usdc)
             /\ CanSellFor(p, usdc) => LET x == CsdToSellFor(p, usdc) IN
                  QuoteSell(p, x) >= usdc /\ QuoteSell(p, x - 1) < usdc
  BY <1>1, <1>3, SearchesAreExact
<1>4. LET asks == Asks(p, 2, 2)  bids == Bids(p, 2, 2) IN
        \A i \in DOMAIN asks, j \in DOMAIN bids : asks[i].price >= bids[j].price
  BY LadderNeverCrosses
<1>5. QED
  BY <1>2, <1>3, <1>4 DEF PoolSound

-----------------------------------------------------------------------------
(***************************************************************************)
(* Offers in the order of their dates, and pages of them.                   *)
(***************************************************************************)
\* Objects with a date and a number of their own, and those of them newer than one.
Dated(S) == \A o \in S : o.at \in Nat /\ o.id \in Nat /\ \A p \in S : o.id = p.id => o = p
Ahead(S, o) == {q \in S : Newer(q, o)}

\* Newer is a strict total order of them.
LEMMA NewerOrder ==
  ASSUME NEW S, Dated(S), NEW o \in S, NEW p \in S, NEW q \in S
  PROVE  /\ ~Newer(o, o) /\ (o # p => Newer(o, p) \/ Newer(p, o)) /\ ~(Newer(o, p) /\ Newer(p, o))
         /\ Newer(o, p) /\ Newer(p, q) => Newer(o, q)
  BY DEF Dated, Newer

\* Those ahead of an offer can be counted.
LEMMA AheadFinite ==
  ASSUME NEW S, IsFiniteSet(S), NEW o
  PROVE  IsFiniteSet(Ahead(S, o)) /\ Cardinality(Ahead(S, o)) \in Nat
<1>1. Ahead(S, o) \in SUBSET S
  BY DEF Ahead
<1>2. QED
  BY <1>1, FS_Subset, FS_CardinalityType

\* A proper part of a finite set is smaller.
LEMMA Smaller ==
  ASSUME NEW S, IsFiniteSet(S), NEW T \in SUBSET S, NEW x \in S, x \notin T
  PROVE  IsFiniteSet(T) /\ Cardinality(T) \in Nat /\ Cardinality(S) \in Nat /\ Cardinality(T) < Cardinality(S)
<1>1. IsFiniteSet(T) /\ Cardinality(T) <= Cardinality(S) /\ Cardinality(S) # Cardinality(T)
  BY FS_Subset
<1>2. QED
  BY <1>1, FS_CardinalityType

\* The newer of two has fewer before it.
LEMMA AheadShrinks ==
  ASSUME NEW S, IsFiniteSet(S), Dated(S), NEW o \in S, NEW p \in S, Newer(p, o)
  PROVE  Cardinality(Ahead(S, p)) < Cardinality(Ahead(S, o))
<1>1. Ahead(S, p) \in SUBSET Ahead(S, o) /\ p \in Ahead(S, o) /\ p \notin Ahead(S, p)
  BY NewerOrder DEF Ahead
<1>2. IsFiniteSet(Ahead(S, o))
  BY AheadFinite
<1>3. QED
  BY <1>1, <1>2, Smaller

\* Of some objects one is the newest.
LEMMA NewestIs ==
  ASSUME NEW S, IsFiniteSet(S), Dated(S), S # {}
  PROVE  NewestOf(S) \in S /\ \A p \in S \ {NewestOf(S)} : Newer(NewestOf(S), p)
<1> DEFINE R == {Cardinality(Ahead(S, o)) : o \in S}
<1>1. R \in SUBSET Nat /\ R # {}
  BY AheadFinite
<1>2. \E n \in R : \A m \in R : n <= m
  <2> HIDE DEF R
  <2>1. QED
    BY <1>1, NoSmaller
<1>3. PICK o \in S : \A p \in S : Cardinality(Ahead(S, o)) <= Cardinality(Ahead(S, p))
  BY <1>2
<1>4. ASSUME NEW p \in S \ {o} PROVE Newer(o, p)
  <2>1. ASSUME Newer(p, o) PROVE FALSE
    <3>1. Cardinality(Ahead(S, p)) < Cardinality(Ahead(S, o))
      BY <2>1, AheadShrinks
    <3>2. Cardinality(Ahead(S, p)) \in Nat /\ Cardinality(Ahead(S, o)) \in Nat
      BY AheadFinite
    <3>3. QED
      BY <1>3, <3>1, <3>2
  <2>2. QED
    BY <2>1, NewerOrder
<1>5. QED
  BY <1>4 DEF NewestOf

\* Up to the number of those before one, each number is how many are before some other.
LEMMA RankReached ==
  ASSUME NEW S, IsFiniteSet(S), Dated(S), NEW o \in S, NEW k \in Nat, k <= Cardinality(Ahead(S, o))
  PROVE  \E q \in S : Cardinality(Ahead(S, q)) = k
<1> DEFINE Before(q) == Cardinality(Ahead(S, q))
           R == {Before(q) : q \in {q \in S : k <= Before(q)}}
<1>1. \A q \in S : IsFiniteSet(Ahead(S, q)) /\ Before(q) \in Nat
  BY AheadFinite
<1>2. R \in SUBSET Nat /\ R # {}
  BY <1>1
<1>3. \E n \in R : \A m \in R : n <= m
  <2> HIDE DEF R
  <2>1. QED
    BY <1>2, NoSmaller
<1>4. PICK q \in S : k <= Before(q) /\ \A r \in S : k <= Before(r) => Before(q) <= Before(r)
  BY <1>3
<1>5. CASE Before(q) = k
  BY <1>5
<1>6. CASE Before(q) # k
  <2> DEFINE A == Ahead(S, q)
  <2>1. IsFiniteSet(A) /\ A # {} /\ Before(q) \in Nat
    BY <1>1, <1>4, <1>6, FS_EmptySet
  <2>2. A \subseteq S
    BY DEF Ahead
  <2> DEFINE Q == {Before(q) - Before(r) : r \in A}
  <2>3. \A r \in A : Before(r) < Before(q)
    BY <2>2, AheadShrinks DEF Ahead
  <2>4. Q \in SUBSET Nat /\ Q # {}
    <3> HIDE DEF Before
    <3>1. \A r \in A : Before(q) - Before(r) \in Nat
      BY <1>1, <2>2, <2>3
    <3>2. QED
      BY <2>1, <3>1
  <2>5. \E n \in Q : \A m \in Q : n <= m
    <3> HIDE DEF Q
    <3>1. QED
      BY <2>4, NoSmaller
  <2>6. PICK r \in A : \A s \in A : Before(q) - Before(r) <= Before(q) - Before(s)
    BY <2>5
  <2>7. \A s \in A \ {r} : Newer(s, r)
    <3> SUFFICES ASSUME NEW s \in A \ {r} PROVE Newer(s, r)
      OBVIOUS
    <3>1. ASSUME Newer(r, s) PROVE FALSE
      <4>1. Before(r) < Before(s)
        BY <2>2, <3>1, AheadShrinks
      <4>2. Before(r) \in Nat /\ Before(s) \in Nat
        BY <1>1, <2>2
      <4> HIDE DEF Before
      <4>3. QED
        BY <2>1, <2>6, <4>1, <4>2
    <3>2. QED
      BY <2>2, <3>1, NewerOrder
  <2>8. Ahead(S, r) = A \ {r}
    <3>1. \A s \in Ahead(S, r) : s \in A \ {r}
      BY <2>2, NewerOrder DEF Ahead
    <3>2. \A s \in A \ {r} : s \in Ahead(S, r)
      BY <2>2, <2>7 DEF Ahead
    <3>3. QED
      BY <3>1, <3>2
  <2>9. Before(r) = Before(q) - 1
    BY <2>1, <2>8, FS_RemoveElement
  <2>10. k <= Before(r) /\ r \in S
    BY <1>4, <1>6, <2>1, <2>2, <2>9
  <2>11. QED
    BY <1>4, <2>1, <2>9, <2>10
<1>7. QED
  BY <1>5, <1>6

\* A page is full when there is more beyond it.
LEMMA PageFull ==
  ASSUME NEW S, IsFiniteSet(S), Dated(S), NEW o \in S, NEW b \in Nat, NEW n \in Nat \ {0},
         b + n <= Cardinality(Ahead(S, o))
  PROVE  Cardinality({q \in S : Cardinality(Ahead(S, q)) \in b..(b + n - 1)}) >= n
<1> DEFINE T == {q \in S : Cardinality(Ahead(S, q)) \in b..(b + n - 1)}
           f == [q \in T |-> Cardinality(Ahead(S, q))]
           I == b..(b + n - 1)
<1>1. IsFiniteSet(T) /\ Cardinality(T) \in Nat
  BY FS_Subset, FS_CardinalityType
<1>2. \A k \in I : \E q \in T : f[q] = k
  <2> SUFFICES ASSUME NEW k \in I PROVE \E q \in T : f[q] = k
    OBVIOUS
  <2>1. k \in Nat /\ k <= Cardinality(Ahead(S, o))
    BY AheadFinite
  <2>2. PICK q \in S : Cardinality(Ahead(S, q)) = k
    BY <2>1, RankReached
  <2>3. q \in T
    BY <2>2
  <2>4. QED
    BY <2>2, <2>3
<1>3. f \in Surjection(T, I)
  <2>1. f \in [T -> I]
    OBVIOUS
  <2>2. QED
    BY <1>2, <2>1 DEF Surjection
<1>4. Cardinality(I) = n
  BY FS_Interval
<1>5. Cardinality(I) <= Cardinality(T)
  <2> HIDE DEF f, T, I
  <2>1. QED
    BY <1>1, <1>3, FS_Surjection
<1>6. QED
  BY <1>1, <1>4, <1>5

\* What a function makes of a finite set is finite.
LEMMA ImageFinite ==
  ASSUME NEW S, IsFiniteSet(S), NEW f, NEW T, \A y \in T : \E x \in S : y = f[x]
  PROVE  IsFiniteSet(T)
<1> DEFINE R == {x \in S : f[x] \in T}
           g == [x \in R |-> f[x]]
<1>1. IsFiniteSet(R)
  BY FS_Subset
<1>2. g \in Surjection(R, T)
  <2>1. g \in [R -> T]
    OBVIOUS
  <2>2. \A y \in T : \E x \in R : g[x] = y
    OBVIOUS
  <2>3. QED
    BY <2>1, <2>2 DEF Surjection
<1>3. QED
  <2> HIDE DEF R, g
  <2>1. QED
    BY <1>1, <1>2, FS_Surjection

-----------------------------------------------------------------------------
(***************************************************************************)
(* A load finds the newest offers, whatever is published meanwhile.         *)
(***************************************************************************)
\* What AON holds of offers: numbered below the next number, the signed ones of one
\* maker and side a chain in which each replaces the one before, none from the future.
OffersInv ==
  /\ IsFiniteSet(offers)
  /\ \A o \in offers : /\ OfferFits(o) /\ o.id < serial /\ o.replaces < serial
                       /\ Signed(o) => o.at <= clock
                       /\ \A p \in offers : o.id = p.id => o = p
  /\ Chained(offers)

OfferIds == {o.id : o \in offers}
QuotesInv == "pools" \in DOMAIN left /\ left.pools \subseteq Pools

\* What the page keeps of offers are offers.
PageInv ==
  /\ "hints" \in DOMAIN storage /\ storage.hints \subseteq OfferIds
  /\ "market" \in DOMAIN tab /\ "makers" \in DOMAIN tab.market
  /\ DOMAIN tab.market.makers \subseteq Makers /\ IsFiniteSet(DOMAIN tab.market.makers)
  /\ \A m \in DOMAIN tab.market.makers : tab.market.makers[m].offers \subseteq offers

LoadFields == {"pc", "by", "now", "hints", "at", "hop", "page", "out", "began"}
LoadingInv ==
  load.pc # "idle" =>
    /\ DOMAIN load = LoadFields /\ DOMAIN load.began = {"offers", "hints"}
    /\ load.pc \in {"hints", "walk", "list", "rest"}
    /\ load.now \in Nat /\ load.now <= clock
    /\ load.began.offers \subseteq offers /\ \A o \in load.began.offers : Signed(o) => o.at <= load.now
    /\ load.hints \subseteq OfferIds
    /\ load.out \subseteq {o \in offers : Signed(o)}
    /\ load.pc = "walk" => load.at \in OfferIds /\ load.hop \in Nat /\ load.hop < MaxHops
    /\ load.pc \in {"list", "rest"} => load.hints = {}
    /\ load.pc \in {"hints", "walk"} => load.page = 0
    /\ load.pc = "list" => load.page \in 0..(OfferPages - 1)

\* An offer the load must find, and how far the listing has come with it.
Due(o) == o \in load.began.offers /\ Signed(o) /\ Fresh(o, load.now)
Rank(o) == Cardinality({p \in offers : Newer(p, o)})
ListingInv ==
  /\ load.pc = "list" => \A o \in load.began.offers : Due(o) => Found(o) \/ Rank(o) >= load.page * PageSize
  /\ load.pc = "rest" => \A o \in load.began.offers : Due(o) => Found(o) \/ ~Listed(o)

\* An offer within reach of a hint is found, or still to be walked to: the walk from
\* that hint is ahead, or under way and close enough.
Walking(h, o) ==
  /\ load.pc = "walk"
  /\ OfferOf(load.at) \in {h} \cup Between(h, o)
  /\ Cardinality(Between(OfferOf(load.at), o)) < MaxHops - load.hop
WalkInv ==
  load.pc # "idle" =>
    \A o, h \in load.began.offers :
      Due(o) /\ h.id \in load.began.hints /\ Reached(h, o) => h.id \in load.hints \/ Walking(h, o) \/ Found(o)

MarketInv == OffersInv /\ QuotesInv /\ PageInv /\ LoadingInv /\ ListingInv /\ WalkInv


\* The numbers and dates of offers order them.
LEMMA OffersDated ==
  ASSUME OffersInv
  PROVE  /\ Dated(offers) /\ \A S \in SUBSET offers : Dated(S) /\ IsFiniteSet(S)
         /\ \A o \in offers : o.id # NoOffer /\ OfferOf(o.id) = o
<1>1. \A o \in offers : o.at \in Nat /\ o.id \in Nat \ {0} /\ \A p \in offers : o.id = p.id => o = p
  BY DEF OffersInv, OfferFits
<1>2. \A S \in SUBSET offers : IsFiniteSet(S)
  BY FS_Subset DEF OffersInv
<1>3. \A o \in offers : OfferOf(o.id) = o
  BY <1>1 DEF OfferOf
<1>4. QED
  BY <1>1, <1>2, <1>3 DEF Dated, NoOffer

\* The signed offers of one maker and side: one at a time, and of two the newer is
\* the one published later.
LEMMA ChainOrder ==
  ASSUME OffersInv, NEW o \in offers, NEW p \in offers, Signed(o), Signed(p), SameOffers(o, p)
  PROVE  /\ Newer(o, p) <=> o.at > p.at
         /\ ~Newer(o, p) /\ o # p => Newer(p, o) /\ p.at > o.at
         /\ Newer(o, p) => \E q \in offers : /\ Signed(q) /\ SameOffers(q, p) /\ q.replaces = p.id
                                             /\ Newer(q, p) /\ ~Newer(q, o)
<1>1. o.at \in Nat /\ p.at \in Nat /\ o.id \in Nat /\ p.id \in Nat
  BY OffersDated DEF Dated
<1>2. o.at = p.at => o = p
  BY DEF OffersInv, Chained
<1>3. Newer(o, p) <=> o.at > p.at
  BY <1>1, <1>2 DEF Newer
<1>4. ~Newer(o, p) /\ o # p => Newer(p, o) /\ p.at > o.at
  BY <1>1, <1>2, <1>3 DEF Newer
<1>5. ASSUME Newer(o, p)
      PROVE  \E q \in offers : /\ Signed(q) /\ SameOffers(q, p) /\ q.replaces = p.id
                               /\ Newer(q, p) /\ ~Newer(q, o)
  <2>1. PICK q \in {s \in offers : Signed(s)} : SameOffers(q, p) /\ q.replaces = p.id /\ q.at <= o.at
    BY <1>3, <1>5 DEF OffersInv, Chained
  <2>2. SameOffers(q, o)
    BY <2>1 DEF SameOffers
  <2>3. q.at \in Nat /\ q.id \in Nat
    BY OffersDated DEF Dated
  <2>4. q.at > p.at
    BY <2>1 DEF OffersInv, Chained
  <2>5. q.at = o.at => q = o
    BY <2>1, <2>2 DEF OffersInv, Chained
  <2>6. Newer(q, p) /\ ~Newer(q, o)
    BY <1>1, <2>1, <2>3, <2>4, <2>5 DEF Newer
  <2>7. QED
    BY <2>1, <2>6
<1>6. QED
  BY <1>3, <1>4, <1>5

\* What is left of the scenario for prices: a step uses up other things.
SpendKeys == {"sends", "loads", "faults", "buys", "sells", "reloads", "ticks", "offers",
              "lookalikes", "others", "receipts", "lies"}
LeftKept ==
  left' = left \/ \E k \in SpendKeys : left' = [left EXCEPT ![k] = @ - 1]
\* A step uses up nothing that prices are made of.
LEMMA LeftSteps ==
  ASSUME [Next]_vars
  PROVE  LeftKept
<1>1. ASSUME NEW k \in SpendKeys, Spend(k) PROVE LeftKept
  BY <1>1 DEF Spend, LeftKept
<1>2. CASE Buy
  <2>1. CASE \E csd \in left.buyAmounts : BuyClicked(csd)
    BY <1>1, <2>1 DEF BuyClicked, SpendKeys
  <2>2. CASE BuyNotPublished
    BY <1>1, <2>2 DEF BuyNotPublished, SpendKeys
  <2>3. CASE UNCHANGED left
    BY <2>3 DEF LeftKept
  <2>4. QED
    BY <1>2, <2>1, <2>2, <2>3 DEF Buy, BuyRefused, BuyPrepared, BuyPublished, BuyAccepted,
       BuyDeclined, BuyUnanswered
<1>3. CASE Sell
  <2>1. CASE (\E csd \in left.sellAmounts : SellClicked(csd)) \/ SellFails \/ SellHanded \/ SellSubmitted
    BY <1>1, <2>1 DEF SellClicked, SellFails, SellHanded, SellSubmitted, SpendKeys, LeftKept
  <2>2. CASE UNCHANGED left
    BY <2>2 DEF LeftKept
  <2>3. QED
    BY <1>3, <2>1, <2>2 DEF Sell, SellRefused, SellPrepared, SellRequested, SellAccepted,
       SellNotAccepted, SellChecked, SellLockSeen, SellGivesUp, SellSigned, SellDone
<1>4. CASE ClaimAndRefund \/ Follow \/ UNCHANGED vars
  <2>1. ASSUME NEW pc, NEW state, NEW status, SentMined(pc, state, status) PROVE LeftKept
    <3>1. UNCHANGED left \/ Spend("faults")
      BY <2>1 DEF SentMined
    <3>2. QED
      BY <1>1, <3>1 DEF SpendKeys, LeftKept
  <2>2. CASE ClaimMined \/ RefundMined
    BY <2>1, <2>2 DEF ClaimMined, RefundMined
  <2>3. QED
    BY <1>4, <2>2 DEF ClaimAndRefund, ClaimClicked, RefundClicked,
       Follow, FollowFailedBuy, FollowSale, FollowReceipt, WatchPayment, LateSave, Following,
       vars, LeftKept
<1>5. CASE Market
  BY <1>1, <1>5 DEF Market, TimerLoads, SessionLoads, LoadReads, LoadEnds, SpendKeys, LeftKept
<1>6. CASE Wallet \/ Reload \/ Tick
  BY <1>1, <1>6 DEF Wallet, ScanStarts, ScanEnds, SendCsd, Reload, Tick, SpendKeys, LeftKept
<1>7. CASE MakersAct
  <2>1. CASE \/ \E m \in Makers, pool \in left.pools : PublishOffer(m, pool)
             \/ PublishLookalike
             \/ \E b, r \in left.parties, state \in {"settled", "released"} : OthersTrade(b, r, state)
             \/ \E h, tx \in DOMAIN locks, m \in Makers \cap left.parties : PublishReceipt(h, m, tx)
    BY <1>1, <2>1 DEF PublishOffer, PublishLookalike, OthersTrade, PublishReceipt, SpendKeys
  <2>2. CASE \E o \in orders : (\E yes \in BOOLEAN : AnswerOrder(o, yes)) \/ LockBuy(o) \/ PublishPayment(o)
    <3>1. UNCHANGED left \/ Spend("lies")
      BY <2>2 DEF AnswerOrder, LockBuy, PublishPayment
    <3>2. QED
      BY <1>1, <3>1 DEF SpendKeys, LeftKept
  <2>3. CASE \E r \in requests : AnswerRequest(r)
    BY <1>1, <2>3 DEF AnswerRequest, SpendKeys, LeftKept
  <2>4. CASE \E r \in requests : DeclineRequest(r)
    BY <2>4 DEF DeclineRequest, LeftKept
  <2>5. CASE \E r \in requests : \E direct \in BOOLEAN, for \in {ClaimTime, SaleLockTime} : LockSale(r, direct, for)
    BY <1>1, <2>5 DEF LockSale, SpendKeys, LeftKept
  <2>6. QED
    BY <1>7, <2>1, <2>2, <2>3, <2>4, <2>5 DEF MakersAct
<1>8. CASE ChainsAct
  BY <1>8 DEF ChainsAct, Broadcast, MineTx, Prove, ReleaseSale, MakerRefunds, BecomesFinal,
     CsdUnchanged, LeftKept
<1>9. QED
  BY <1>2, <1>3, <1>4, <1>5, <1>6, <1>7, <1>8 DEF Next

\* The pools that may be quoted stay pools.
LEMMA QuotesStep ==
  ASSUME QuotesInv, [Next]_vars
  PROVE  QuotesInv'
<1>1. LeftKept
  BY LeftSteps
<1>2. ASSUME NEW k \in SpendKeys, left' = [left EXCEPT ![k] = @ - 1]
      PROVE  DOMAIN left' = DOMAIN left /\ left'.pools = left.pools
  <2>1. "pools" # k
    BY DEF SpendKeys
  <2>2. QED
    BY <1>2, <2>1 DEF QuotesInv
<1>3. QED
  BY <1>1, <1>2 DEF LeftKept, QuotesInv

\* Numbers and the clock only grow.
TimePasses == clock \in Nat /\ clock' \in Nat /\ clock <= clock' /\ serial \in Nat /\ serial' \in Nat /\ serial <= serial'

\* A step that touches neither offers nor the load, and of the page only what it does
\* not keep of offers.
MarketKept ==
  /\ UNCHANGED <<offers, load>>
  /\ "hints" \in DOMAIN storage' /\ storage'.hints = storage.hints
  /\ "market" \in DOMAIN tab' /\ tab'.market \in {tab.market, NoMarket}
\* Offers nobody adds to stay what they are.
LEMMA OffersKept ==
  ASSUME OffersInv, TimePasses, offers' = offers
  PROVE  OffersInv'
<1>1. \A o \in offers : /\ o.at \in Nat /\ o.id \in Nat /\ o.replaces \in Nat
  BY DEF OffersInv, OfferFits
<1>2. QED
  BY <1>1 DEF OffersInv, TimePasses, OfferFits, Chained, SameOffers, Signed

\* While nothing is published or read, what a load has found and is about to
\* reach is as it was, whatever time it is.
LEMMA LoadKept ==
  ASSUME LoadingInv, ListingInv, WalkInv, UNCHANGED <<offers, load>>, clock \in Nat, clock' \in Nat, clock <= clock'
  PROVE  LoadingInv' /\ ListingInv' /\ WalkInv'
<1>1. LoadingInv'
  BY DEF LoadingInv, OfferIds, Signed, LoadFields
<1>2. \A o : Rank(o)' = Rank(o) /\ (Found(o)' <=> Found(o)) /\ (Listed(o)' <=> Listed(o)) /\ (Due(o)' <=> Due(o))
  BY DEF Rank, Found, Listed, Due, Signed, Fresh, Newer
<1>3. ListingInv'
  BY <1>2 DEF ListingInv
<1>4. \A h, o : (Reached(h, o)' <=> Reached(h, o)) /\ (Walking(h, o)' <=> Walking(h, o))
  <2>1. \A h, o : Between(h, o)' = Between(h, o)
    BY DEF Between, OffersOf, Signed, Newer
  <2>2. \A h : OfferOf(h)' = OfferOf(h) /\ Lookalikes(h)' = Lookalikes(h)
    BY DEF OfferOf, Lookalikes, Signed
  <2>3. \A m, s : OffersOf(m, s)' = OffersOf(m, s)
    BY DEF OffersOf, Signed
  <2>4. QED
    BY <2>1, <2>2, <2>3 DEF Reached, Walking, Newer, Fresh
<1>5. WalkInv'
  BY <1>2, <1>4 DEF WalkInv
<1>6. QED
  BY <1>1, <1>3, <1>5

\* A step that leaves offers, the load and what the page keeps of offers alone.
LEMMA MarketFrame ==
  ASSUME MarketInv, TimePasses, MarketKept, QuotesInv'
  PROVE  MarketInv'
<1>1. OffersInv' /\ LoadingInv' /\ ListingInv' /\ WalkInv'
  BY OffersKept, LoadKept DEF MarketInv, MarketKept, TimePasses
<1>2. PageInv'
  <2>1. IsFiniteSet(DOMAIN NoMarket.makers)
    BY FS_EmptySet DEF NoMarket
  <2>2. QED
    BY <2>1 DEF MarketInv, PageInv, MarketKept, OfferIds, NoMarket
<1>3. QED
  BY <1>1, <1>2 DEF MarketInv

\* When an offer is published, nothing the load must find gets nearer to being missed:
\* offers ahead and look-alikes only become more, and what lies between two offers of
\* one maker stays.
Published(x) ==
  /\ x \notin offers /\ offers' = offers \cup {x} /\ load' = load
  /\ x.id = serial /\ serial' = serial + 1 /\ clock' = clock
  /\ OfferFits(x) /\ x.replaces < serial
  /\ Signed(x) => /\ x.at = clock
                  /\ \A p \in offers : Signed(p) /\ SameOffers(p, x) => p.at < clock
\* A load under way keeps what it has when one more offer is published.
LEMMA PublishedMarket ==
  ASSUME OffersInv, LoadingInv, ListingInv, WalkInv, TimePasses, NEW x, Published(x), OffersInv'
  PROVE  LoadingInv' /\ ListingInv' /\ WalkInv'
<1>1. LoadingInv'
  BY DEF LoadingInv, OfferIds, Signed, LoadFields, Published
<1>2. \A o : (Found(o)' <=> Found(o)) /\ (Due(o)' <=> Due(o))
  BY DEF Found, Due, Signed, Fresh, Newer, Published
<1>3. ASSUME NEW o PROVE Rank(o)' >= Rank(o) /\ Rank(o)' \in Int /\ Rank(o) \in Int
  <2> DEFINE A == {p \in offers : Newer(p, o)}
             B == {p \in offers' : Newer(p, o)}
  <2>1. IsFiniteSet(B) /\ A \in SUBSET B
    <3>1. IsFiniteSet(offers') /\ B \in SUBSET offers'
      BY DEF OffersInv
    <3>2. QED
      BY <3>1, FS_Subset DEF Published
  <2>2. Cardinality(A) <= Cardinality(B) /\ Cardinality(A) \in Nat /\ Cardinality(B) \in Nat
    BY <2>1, FS_Subset, FS_CardinalityType
  <2>3. Rank(o) = Cardinality(A) /\ Rank(o)' = Cardinality(B)
    BY DEF Rank, Newer
  <2>4. QED
    BY <2>2, <2>3
<1>4. load.pc = "list" => load.page * PageSize \in Int
  BY MarketAssumption DEF LoadingInv
<1>5. ListingInv'
  <2>1. ASSUME NEW o, Listed(o)' PROVE Listed(o)
    <3>1. Rank(o)' < PageSize * OfferPages
      BY <2>1 DEF Listed, Rank
    <3>2. PageSize * OfferPages \in Int
      BY MarketAssumption
    <3> DEFINE m == PageSize * OfferPages
    <3> HIDE DEF m
    <3>3. Rank(o) < m
      BY <1>3, <3>1, <3>2 DEF m
    <3>4. QED
      BY <3>3 DEF Listed, Rank, m
  <2>2. ASSUME NEW o, load.pc = "list", Rank(o) >= load.page * PageSize
        PROVE  Rank(o)' >= load.page * PageSize
    <3> DEFINE m == load.page * PageSize
    <3>1. m \in Int
      BY <1>4, <2>2
    <3> HIDE DEF m
    <3>2. Rank(o)' >= m
      BY <1>3, <2>2, <3>1 DEF m
    <3>3. QED
      BY <3>2 DEF m
  <2>3. load' = load
    BY DEF Published
  <2>4. QED
    BY <1>2, <2>1, <2>2, <2>3 DEF ListingInv
<1>6. ASSUME load.pc # "idle", NEW o \in load.began.offers, NEW h \in load.began.offers, Due(o), Reached(h, o)'
      PROVE  Reached(h, o) /\ (Walking(h, o) => Walking(h, o)')
  <2>1. o \in offers /\ h \in offers /\ Signed(o)
    BY <1>6 DEF LoadingInv, Due
  <2>2. \A g : Between(g, o)' = Between(g, o)
    <3>1. ASSUME Signed(x), x.maker = o.maker, x.side = o.side PROVE Newer(x, o)
      <4>1. x.at = clock /\ o.at < clock
        BY <2>1, <3>1 DEF Published, SameOffers
      <4>2. o.at \in Nat
        BY <2>1, OffersDated DEF Dated
      <4>3. QED
        BY <4>1, <4>2 DEF Newer, TimePasses
    <3>2. \A g : Between(g, o)' = {p \in OffersOf(o.maker, o.side)' : Newer(p, g) /\ ~Newer(p, o)}
      BY DEF Between, Newer
    <3>3. \A p : p \in OffersOf(o.maker, o.side)' =>
             p \in OffersOf(o.maker, o.side) \/ (p = x /\ Signed(x) /\ x.maker = o.maker /\ x.side = o.side)
      BY DEF OffersOf, Signed, Published
    <3>4. \A p \in OffersOf(o.maker, o.side) : p \in OffersOf(o.maker, o.side)'
      BY DEF OffersOf, Signed, Published
    <3>5. QED
      BY <3>1, <3>2, <3>3, <3>4 DEF Between
  <2>3. ASSUME NEW p, Cardinality(Lookalikes(p)') < MaxCandidates PROVE Cardinality(Lookalikes(p)) < MaxCandidates
    <3>1. IsFiniteSet(Lookalikes(p)') /\ Lookalikes(p) \in SUBSET (Lookalikes(p)')
      <4>1. IsFiniteSet(offers') /\ Lookalikes(p)' \in SUBSET offers'
        BY DEF OffersInv, Lookalikes
      <4>2. IsFiniteSet(Lookalikes(p)')
        BY <4>1, FS_Subset
      <4>3. QED
        BY <4>2 DEF Lookalikes, Signed, Published
    <3>2. Cardinality(Lookalikes(p)) <= Cardinality(Lookalikes(p)') /\ Cardinality(Lookalikes(p)) \in Nat
          /\ Cardinality(Lookalikes(p)') \in Nat
      BY <3>1, FS_Subset, FS_CardinalityType
    <3>3. QED
      BY <2>3, <3>2, MarketAssumption
  <2>4. h \in OffersOf(o.maker, o.side)' => h \in OffersOf(o.maker, o.side)
    BY <2>1 DEF OffersOf, Signed
  <2>5. Reached(h, o)
    <3>1. /\ h \in OffersOf(o.maker, o.side)' /\ (Newer(h, o) => Fresh(h, load.now))
          /\ Cardinality(Between(h, o)) < MaxHops
          /\ \A p \in ({h} \cup Between(h, o)) \ {o} : Cardinality(Lookalikes(p)') < MaxCandidates
      BY <1>6, <2>2 DEF Reached, Published, Newer, Fresh
    <3>2. QED
      BY <2>3, <2>4, <3>1 DEF Reached
  <2>6. ASSUME Walking(h, o) PROVE Walking(h, o)'
    <3>1. load.at \in OfferIds
      BY <2>6 DEF LoadingInv, Walking
    <3>2. PICK a \in offers : a.id = load.at
      BY <3>1 DEF OfferIds
    <3>3. OfferOf(load.at) = a
      BY <3>2, OffersDated
    <3>4. a \in offers' /\ \A b \in offers' : b.id = a.id => b = a
      BY <3>2 DEF OffersInv, Published
    <3>5. (OfferOf(load.at))' = a
      BY <3>2, <3>4 DEF OfferOf, Published
    <3>6. load' = load
      BY DEF Published
    <3>7. QED
      BY <2>2, <2>6, <3>3, <3>5, <3>6 DEF Walking
  <2>7. QED
    BY <2>5, <2>6
<1>7. WalkInv'
  <2>1. load' = load
    BY DEF Published
  <2>2. QED
    BY <1>2, <1>6, <2>1 DEF WalkInv
<1>8. QED
  BY <1>1, <1>5, <1>7

\* A published offer takes its place in what AON holds.
LEMMA PublishedOffers ==
  ASSUME OffersInv, TimePasses, NEW x, Published(x),
         Signed(x) => \E n \in offers : /\ Signed(n) /\ SameOffers(n, x) /\ x.replaces = n.id
                                        /\ \A p \in offers : Signed(p) /\ SameOffers(p, x) => ~Newer(p, n)
  PROVE  OffersInv'
<1>1. IsFiniteSet(offers')
  BY FS_AddElement DEF OffersInv, Published
<1>2. \A o \in offers : o.id \in Nat /\ o.at \in Nat /\ o.replaces \in Nat /\ o.id < serial /\ o.replaces < serial
  BY DEF OffersInv, OfferFits
<1>3. x.at \in Nat /\ x.replaces \in Nat
  BY DEF Published, OfferFits
<1>4. \A o \in offers' : /\ OfferFits(o) /\ o.id < serial' /\ o.replaces < serial'
                         /\ Signed(o) => o.at <= clock'
                         /\ \A p \in offers' : o.id = p.id => o = p
  BY <1>2, <1>3 DEF OffersInv, Published, TimePasses
<1>5. ASSUME NEW o \in offers', Signed(o), NEW p \in offers', Signed(p), SameOffers(o, p)
      PROVE  /\ o.at = p.at \/ o.replaces = p.replaces => o = p
             /\ o.replaces = p.id => o.at > p.at
             /\ o.at > p.at => \E q \in offers' : /\ Signed(q) /\ SameOffers(q, p) /\ q.replaces = p.id
                                                  /\ q.at <= o.at
  <2>1. CASE o \in offers /\ p \in offers
    <3>1. o \in {s \in offers : Signed(s)} /\ p \in {s \in offers : Signed(s)}
      BY <1>5, <2>1
    <3>2. QED
      BY <1>5, <3>1 DEF OffersInv, Chained, Published
  <2>2. CASE o = x /\ p = x
    BY <1>3, <2>2 DEF Published, TimePasses
  <2>3. ASSUME Signed(x)
        PROVE  \E n \in offers : /\ Signed(n) /\ SameOffers(n, x) /\ x.replaces = n.id
                                 /\ \A r \in offers : Signed(r) /\ SameOffers(r, x) /\ r # n => n.at > r.at
                                 /\ x.at > n.at /\ \A r \in offers : Signed(r) /\ SameOffers(r, x) => r.replaces # n.id
    <3>1. PICK n \in offers : /\ Signed(n) /\ SameOffers(n, x) /\ x.replaces = n.id
                              /\ \A r \in offers : Signed(r) /\ SameOffers(r, x) => ~Newer(r, n)
      BY <2>3
    <3>2. ASSUME NEW r \in offers, Signed(r), SameOffers(r, x), r # n PROVE n.at > r.at
      BY <3>1, <3>2, ChainOrder DEF SameOffers
    <3>3. x.at > n.at
      BY <1>2, <1>3, <2>3, <3>1 DEF Published, TimePasses
    <3>4. ASSUME NEW r \in offers, Signed(r), SameOffers(r, x) PROVE r.replaces # n.id
      <4>1. SameOffers(r, n) /\ r \in {s \in offers : Signed(s)} /\ n \in {s \in offers : Signed(s)}
        BY <3>1, <3>4 DEF SameOffers
      <4>2. r.replaces = n.id => r.at > n.at
        BY <4>1 DEF OffersInv, Chained
      <4>3. ~Newer(r, n)
        BY <3>1, <3>4
      <4>4. QED
        BY <4>2, <4>3 DEF Newer
    <3>5. QED
      BY <3>1, <3>2, <3>3, <3>4
  <2>4. CASE o = x /\ p \in offers
    <3>0. Signed(x) /\ SameOffers(p, x)
      BY <1>5, <2>4 DEF SameOffers
    <3>1. PICK n \in offers : /\ Signed(n) /\ SameOffers(n, x) /\ x.replaces = n.id
                              /\ \A r \in offers : Signed(r) /\ SameOffers(r, x) /\ r # n => n.at > r.at
                              /\ x.at > n.at /\ \A r \in offers : Signed(r) /\ SameOffers(r, x) => r.replaces # n.id
      BY <2>3, <3>0
    <3>2. x.at = clock /\ p.at < clock
      BY <1>5, <2>4, <3>0 DEF Published
    <3>3. p.replaces # x.replaces /\ x.at > p.at /\ x.at # p.at
      BY <1>2, <1>5, <2>4, <3>0, <3>1, <3>2 DEF TimePasses
    <3>4. CASE p = n
      <4>1. x \in offers' /\ x.at <= x.at
        BY <1>3 DEF Published
      <4>2. QED
        BY <1>5, <2>4, <3>0, <3>1, <3>3, <3>4, <4>1
    <3>5. CASE p # n
      <4>1. n.at > p.at /\ SameOffers(n, p) /\ n \in {s \in offers : Signed(s)} /\ p \in {s \in offers : Signed(s)}
        BY <1>5, <2>4, <3>0, <3>1, <3>5 DEF SameOffers
      <4>2. PICK q \in {s \in offers : Signed(s)} : SameOffers(q, p) /\ q.replaces = p.id /\ q.at <= n.at
        BY <4>1 DEF OffersInv, Chained
      <4>3. q.at <= x.at /\ q \in offers'
        BY <1>2, <1>3, <3>1, <4>2 DEF Published
      <4>4. QED
        BY <2>4, <3>3, <4>2, <4>3
    <3>6. QED
      BY <3>4, <3>5
  <2>5. CASE o \in offers /\ p = x
    <3>0. Signed(x) /\ SameOffers(o, x)
      BY <1>5, <2>5
    <3>1. o.at < x.at
      BY <1>5, <2>5, <3>0 DEF Published
    <3>2. PICK n \in offers : x.replaces = n.id /\ \A r \in offers : Signed(r) /\ SameOffers(r, x) => r.replaces # n.id
      BY <2>3, <3>0
    <3>3. o.replaces # x.replaces /\ o.replaces # x.id /\ ~(o.at > x.at) /\ o.at # x.at
      BY <1>2, <1>3, <1>5, <2>5, <3>0, <3>1, <3>2 DEF Published, TimePasses
    <3>4. QED
      BY <2>5, <3>3
  <2>6. QED
    BY <2>1, <2>2, <2>4, <2>5 DEF Published
<1>6. Chained(offers')
  BY <1>5 DEF Chained
<1>7. QED
  BY <1>1, <1>4, <1>6 DEF OffersInv

\* A maker's new offer is one signed after, and naming, its newest.
LEMMA PublishOfferStep ==
  ASSUME MarketInv, TimePasses, NEW m \in Makers, NEW pool \in left.pools, PublishOffer(m, pool), QuotesInv'
  PROVE  MarketInv'
<1>1. PICK side \in left.sides :
        LET last == OffersOf(m, side)
            o    == NewestOf(last) IN
        /\ last # {} /\ clock > o.at
        /\ offers' = offers \cup {[o EXCEPT !.id = serial, !.at = clock, !.replaces = o.id, !.pool = pool]}
  BY DEF PublishOffer
<1> DEFINE last == OffersOf(m, side)
           o == NewestOf(last)
           x == [o EXCEPT !.id = serial, !.at = clock, !.replaces = o.id, !.pool = pool]
<1>2. OffersInv /\ Dated(last) /\ IsFiniteSet(last) /\ last \in SUBSET offers /\ last # {}
  BY <1>1, OffersDated DEF MarketInv, OffersOf
<1>3. o \in last /\ \A p \in last \ {o} : Newer(o, p)
  BY <1>2, NewestIs
<1> HIDE DEF o
<1>4. /\ o \in offers /\ OfferFits(o) /\ o.id < serial /\ Signed(o) /\ o.maker = m /\ o.side = side
      /\ clock > o.at
  BY <1>1, <1>3 DEF OffersOf, MarketInv, OffersInv, o
<1>5. /\ DOMAIN x = DOMAIN o /\ x.id = serial /\ x.at = clock /\ x.replaces = o.id /\ x.pool = pool
      /\ x.maker = o.maker /\ x.side = o.side /\ x.signer = o.signer
      /\ x.fee = o.fee /\ x.minTrade = o.minTrade /\ x.maxTrade = o.maxTrade
  BY <1>4 DEF OfferFits, OfferFields
<1>6. offers' = offers \cup {x}
  BY <1>1 DEF o
<1> HIDE DEF x
<1>7. OfferFits(x) /\ Signed(x) /\ SameOffers(o, x)
  <2>1. pool \in Pools
    BY DEF MarketInv, QuotesInv
  <2>2. serial \in Nat \ {0}
    BY <1>4 DEF TimePasses, OfferFits
  <2>3. QED
    BY <1>4, <1>5, <2>1, <2>2 DEF OfferFits, Signed, SameOffers, TimePasses
<1>8. \A p \in offers : Signed(p) /\ SameOffers(p, x) => p \in last
  BY <1>4, <1>5 DEF OffersOf, SameOffers
<1>9. \A p \in last : p.at \in Nat /\ p.id \in Nat /\ (p # o => ~Newer(p, o)) /\ ~Newer(o, o) /\ p.at < clock
  <2>1. \A p \in last : p.at \in Nat /\ p.id \in Nat
    BY <1>2 DEF Dated
  <2>2. QED
    BY <1>3, <1>4, <2>1 DEF Newer, TimePasses
<1>10. x \notin offers
  BY <1>5 DEF MarketInv, OffersInv, TimePasses, OfferFits
<1>11. Published(x)
  BY <1>4, <1>5, <1>6, <1>7, <1>8, <1>9, <1>10 DEF Published, PublishOffer, OnAon, pageVars
<1>12. OffersInv'
  BY <1>2, <1>4, <1>5, <1>7, <1>8, <1>9, <1>11, PublishedOffers
<1>13. LoadingInv' /\ ListingInv' /\ WalkInv'
  BY <1>11, <1>12, PublishedMarket DEF MarketInv
<1>14. PageInv'
  BY <1>6 DEF MarketInv, PageInv, PublishOffer, OnAon, pageVars, OfferIds
<1>15. QED
  BY <1>12, <1>13, <1>14 DEF MarketInv

\* A look-alike in a maker's name is none of the maker's.
LEMMA PublishLookalikeStep ==
  ASSUME MarketInv, TimePasses, PublishLookalike, QuotesInv'
  PROVE  MarketInv'
<1>1. PICK o \in offers : offers' = offers \cup {[o EXCEPT !.id = serial, !.at = clock + Slack,
                                                        !.signer = "anyone", !.replaces = o.id]}
  BY DEF PublishLookalike
<1> DEFINE x == [o EXCEPT !.id = serial, !.at = clock + Slack, !.signer = "anyone", !.replaces = o.id]
<1>2. OfferFits(o) /\ o.id < serial
  BY DEF MarketInv, OffersInv
<1>3. /\ DOMAIN x = DOMAIN o /\ x.id = serial /\ x.at = clock + Slack /\ x.replaces = o.id /\ x.pool = o.pool
      /\ x.maker = o.maker /\ x.signer = "anyone"
      /\ x.fee = o.fee /\ x.minTrade = o.minTrade /\ x.maxTrade = o.maxTrade
  BY <1>2 DEF OfferFits, OfferFields
<1>4. offers' = offers \cup {x}
  BY <1>1
<1> HIDE DEF x
<1>5. OfferFits(x) /\ ~Signed(x)
  BY <1>2, <1>3, MarketAssumption, ScenarioAssumption DEF OfferFits, Signed, TimePasses
<1>6. x \notin offers
  BY <1>3 DEF MarketInv, OffersInv, TimePasses, OfferFits
<1>7. Published(x)
  BY <1>2, <1>3, <1>4, <1>5, <1>6 DEF Published, PublishLookalike, OnAon, pageVars
<1>8. OffersInv'
  BY <1>5, <1>7, PublishedOffers DEF MarketInv
<1>9. LoadingInv' /\ ListingInv' /\ WalkInv'
  BY <1>7, <1>8, PublishedMarket DEF MarketInv
<1>10. PageInv'
  BY <1>4 DEF MarketInv, PageInv, PublishLookalike, OnAon, pageVars, OfferIds
<1>11. QED
  BY <1>8, <1>9, <1>10 DEF MarketInv

\* What is found stays found when one more offer is considered, and an offer that is
\* considered is found, or was superseded.
LEMMA ConsiderFinds ==
  ASSUME OffersInv, NEW out, out \subseteq {s \in offers : Signed(s)}, NEW a \in offers, NEW now
  PROVE  LET new == Consider(out, a, now) IN
         /\ new \subseteq {s \in offers : Signed(s)}
         /\ \A o \in offers : (\E c \in out : SameOffers(c, o) /\ ~Newer(o, c)) =>
                                 \E c \in new : SameOffers(c, o) /\ ~Newer(o, c)
         /\ Signed(a) /\ Fresh(a, now) => \E c \in new : SameOffers(c, a) /\ ~Newer(a, c)
<1> DEFINE new == Consider(out, a, now)
<1>0. Dated(offers)
  BY OffersDated
<1>1. CASE /\ Fresh(a, now) /\ Signed(a)
           /\ \A c \in out : c.maker = a.maker /\ c.side = a.side => c.at < a.at
  <2>1. new = {c \in out : ~(c.maker = a.maker /\ c.side = a.side)} \cup {a}
    BY <1>1 DEF Consider
  <2>2. SameOffers(a, a) /\ ~Newer(a, a) /\ a \in new
    BY <1>0, <2>1, NewerOrder DEF SameOffers
  <2>3. ASSUME NEW o \in offers, NEW c \in out, SameOffers(c, o), ~Newer(o, c)
        PROVE  \E d \in new : SameOffers(d, o) /\ ~Newer(o, d)
    <3>1. CASE ~(c.maker = a.maker /\ c.side = a.side)
      BY <2>1, <2>3, <3>1
    <3>2. CASE c.maker = a.maker /\ c.side = a.side
      <4>1. c \in offers /\ c.at < a.at
        BY <1>1, <3>2
      <4>2. Newer(a, c)
        BY <4>1 DEF Newer
      <4>3. ~Newer(o, a)
        BY <1>0, <2>3, <4>1, <4>2, NewerOrder
      <4>4. SameOffers(a, o)
        BY <2>3, <3>2 DEF SameOffers
      <4>5. QED
        BY <2>2, <4>3, <4>4
    <3>3. QED
      BY <3>1, <3>2
  <2>4. QED
    BY <1>1, <2>1, <2>2, <2>3
<1>2. CASE ~(/\ Fresh(a, now) /\ Signed(a)
             /\ \A c \in out : c.maker = a.maker /\ c.side = a.side => c.at < a.at)
  <2>1. new = out
    BY <1>2 DEF Consider
  <2>2. ASSUME Signed(a), Fresh(a, now) PROVE \E c \in new : SameOffers(c, a) /\ ~Newer(a, c)
    <3>1. PICK c \in out : SameOffers(c, a) /\ ~(c.at < a.at)
      BY <1>2, <2>2 DEF SameOffers
    <3>2. c \in offers /\ Signed(c) /\ SameOffers(a, c)
      BY <3>1 DEF SameOffers
    <3>3. Newer(a, c) <=> a.at > c.at
      BY <2>2, <3>2, ChainOrder
    <3>4. ~Newer(a, c)
      BY <1>0, <3>1, <3>2, <3>3 DEF Dated
    <3>5. QED
      BY <2>1, <3>1, <3>4
  <2>3. QED
    BY <2>1, <2>2
<1>3. QED
  BY <1>1, <1>2

\* When a page is considered, what was found stays found and what is on it is found.
LEMMA ConsiderAllFinds ==
  ASSUME OffersInv, NEW out, out \subseteq {s \in offers : Signed(s)}, NEW S \in SUBSET offers, NEW now
  PROVE  LET new == ConsiderAll(out, S, now) IN
         /\ new \subseteq {s \in offers : Signed(s)}
         /\ \A o \in offers : (\E c \in out : SameOffers(c, o) /\ ~Newer(o, c)) =>
                                 \E c \in new : SameOffers(c, o) /\ ~Newer(o, c)
         /\ \A o \in S : Signed(o) /\ Fresh(o, now) => \E c \in new : SameOffers(c, o) /\ ~Newer(o, c)
<1> DEFINE T == out \cup {s \in S : Fresh(s, now) /\ Signed(s)}
           new == ConsiderAll(out, S, now)
<1>1. new = {o \in T : \A p \in T : p.maker = o.maker /\ p.side = o.side /\ p # o => Newer(o, p)}
  BY DEF ConsiderAll
<1>2. T \subseteq {s \in offers : Signed(s)}
  OBVIOUS
<1> HIDE DEF T
<1>3. ASSUME NEW o \in offers, NEW c \in T, SameOffers(c, o), ~Newer(o, c)
      PROVE  \E d \in new : SameOffers(d, o) /\ ~Newer(o, d)
  <2> DEFINE G == {p \in T : SameOffers(p, o)}
  <2>1. G \in SUBSET offers /\ c \in G
    BY <1>2, <1>3
  <2>2. Dated(G) /\ IsFiniteSet(G)
    BY <2>1, OffersDated
  <2>3. PICK d \in G : \A p \in G \ {d} : Newer(d, p)
    <3> HIDE DEF G
    <3>1. QED
      BY <2>1, <2>2, NewestIs
  <2>4. d \in new /\ SameOffers(d, o)
    BY <1>1, <2>3 DEF SameOffers
  <2>5. d = c \/ Newer(d, c)
    BY <2>1, <2>3
  <2>6. ~Newer(o, d)
    BY <1>3, <2>1, <2>5, NewerOrder, OffersDated
  <2>7. QED
    BY <2>4, <2>6
<1>4. ASSUME NEW o \in S, Signed(o), Fresh(o, now) PROVE \E c \in new : SameOffers(c, o) /\ ~Newer(o, c)
  <2>1. o \in T /\ o \in offers /\ SameOffers(o, o) /\ ~Newer(o, o)
    BY <1>4, NewerOrder, OffersDated DEF SameOffers, T
  <2>2. QED
    BY <1>3, <2>1
<1>5. QED
  BY <1>1, <1>2, <1>3, <1>4 DEF T

\* What is found, by its date.
LEMMA FoundIs ==
  ASSUME NEW o
  PROVE  Found(o) <=> \E c \in load.out : SameOffers(c, o) /\ ~Newer(o, c)
  BY DEF Found, SameOffers

\* A step of a load: the chain, the clock and what the load began with stay.
LoadStep ==
  /\ UNCHANGED <<offers, clock, serial>> /\ load.pc # "idle"
  /\ DOMAIN load' = DOMAIN load /\ load'.now = load.now /\ load'.began = load.began

\* A step of a load changes neither which offers are to be found nor how far
\* each is from where the load is.
LEMMA StepReads ==
  ASSUME LoadStep
  PROVE  /\ \A o : (Due(o)' <=> Due(o)) /\ Rank(o)' = Rank(o) /\ (Listed(o)' <=> Listed(o))
         /\ \A h, o : Between(h, o)' = Between(h, o) /\ (Reached(h, o)' <=> Reached(h, o))
         /\ \A h : OfferOf(h)' = OfferOf(h)
<1>1. \A o : (Due(o)' <=> Due(o)) /\ Rank(o)' = Rank(o) /\ (Listed(o)' <=> Listed(o))
  BY DEF LoadStep, Rank, Listed, Due, Signed, Fresh, Newer
<1>2. \A h, o : Between(h, o)' = Between(h, o)
  BY DEF LoadStep, Between, OffersOf, Signed, Newer
<1>3. \A h : OfferOf(h)' = OfferOf(h) /\ Lookalikes(h)' = Lookalikes(h)
  BY DEF LoadStep, OfferOf, Lookalikes, Signed
<1>4. \A m, s : OffersOf(m, s)' = OffersOf(m, s)
  BY DEF LoadStep, OffersOf, Signed
<1>5. \A h, o : Reached(h, o)' <=> Reached(h, o)
  BY <1>2, <1>3, <1>4 DEF LoadStep, Reached, Newer, Fresh
<1>6. QED
  BY <1>1, <1>2, <1>3, <1>5

\* A load begins: every hint is ahead.
LEMMA LoadStartsMarket ==
  ASSUME MarketInv, clock \in Nat, NEW by, LoadStarts(by), UNCHANGED <<offers, clock, serial>>
  PROVE  LoadingInv' /\ ListingInv' /\ WalkInv'
<1>1. /\ DOMAIN load' = LoadFields /\ DOMAIN load'.began = {"offers", "hints"}
      /\ load'.pc = "hints" /\ load'.now = clock /\ load'.page = 0 /\ load'.out = {}
      /\ load'.began.offers = offers /\ load'.began.hints = load'.hints
  <2>1. /\ load' = [pc |-> "hints", by |-> by, now |-> clock, hints |-> load'.hints,
                    at |-> NoOffer, hop |-> 0, page |-> 0, out |-> {},
                    began |-> [offers |-> offers, hints |-> load'.hints]]
    BY StartShape
  <2>2. PICK H : H = load'.hints
    OBVIOUS
  <2>3. load' = [pc |-> "hints", by |-> by, now |-> clock, hints |-> H, at |-> NoOffer, hop |-> 0,
                 page |-> 0, out |-> {}, began |-> [offers |-> offers, hints |-> H]]
    BY <2>1, <2>2
  <2>4. QED
    BY <2>3 DEF LoadFields
<1>2. load'.hints \subseteq OfferIds
  <2>1. PICK info : load'.hints \in Followed(info) /\ (info = {} \/ info \subseteq {o.id : o \in offers})
    BY StartShape
  <2>2. storage.hints \cup info \subseteq OfferIds
    BY <2>1 DEF MarketInv, PageInv, OfferIds
  <2>3. QED
    BY <2>1, <2>2 DEF Followed
<1>3. LoadingInv'
  BY <1>1, <1>2 DEF LoadingInv, MarketInv, OffersInv, OfferIds, Signed
<1>4. ListingInv' /\ WalkInv'
  BY <1>1 DEF ListingInv, WalkInv
<1>5. QED
  BY <1>3, <1>4

\* The next hint is taken up, or the listing begins.
LEMMA NextHintMarket ==
  ASSUME MarketInv, NextHint, UNCHANGED <<offers, clock, serial>>
  PROVE  LoadingInv' /\ ListingInv' /\ WalkInv'
<1>1. LoadStep /\ load'.out = load.out /\ load'.page = load.page
  BY DEF NextHint, LoadStep, MarketInv, LoadingInv, LoadFields
<1>2. \A o : Found(o)' <=> Found(o)
  BY <1>1 DEF Found, Newer
<1>3. CASE load.hints = {}
  <2>1. load'.pc = "list" /\ load'.hints = load.hints
    BY <1>3 DEF NextHint, MarketInv, LoadingInv, LoadFields
  <2>2. LoadingInv'
    BY <1>1, <1>3, <2>1, MarketAssumption
       DEF NextHint, LoadStep, MarketInv, LoadingInv, OfferIds, Signed
  <2>3. ListingInv'
    <3>1. load.page = 0
      BY DEF NextHint, MarketInv, LoadingInv
    <3>2. \A o : Rank(o) >= 0 * PageSize
      <4>1. ASSUME NEW o PROVE Cardinality({p \in offers : Newer(p, o)}) \in Nat
        BY AheadFinite DEF MarketInv, OffersInv, Ahead
      <4>2. 0 * PageSize = 0
        BY MarketAssumption
      <4>3. QED
        BY <4>1, <4>2 DEF Rank
    <3>3. \A o : Rank(o)' >= load'.page * PageSize
      BY <1>1, <3>1, <3>2, StepReads
    <3>4. QED
      BY <2>1, <3>3 DEF ListingInv
  <2>4. WalkInv'
    <3>1. load.pc = "hints" /\ \A h, o : ~Walking(h, o)
      BY DEF NextHint, Walking
    <3>2. QED
      BY <1>1, <1>2, <1>3, <3>1, StepReads DEF MarketInv, WalkInv, LoadStep
  <2>5. QED
    BY <2>2, <2>3, <2>4
<1>4. CASE load.hints # {}
  <2> DEFINE g == Min(load.hints)
  <2>1. load.hints \subseteq OfferIds /\ load.hints \subseteq Nat
    BY OffersDated DEF NextHint, MarketInv, LoadingInv, OfferIds, Dated
  <2>2. g \in load.hints
    <3>1. \E x \in load.hints : \A y \in load.hints : x <= y
      BY <1>4, <2>1, NoSmaller
    <3>2. QED
      BY <3>1 DEF Min
  <2> HIDE DEF g
  <2>3. /\ load'.pc = "walk" /\ load'.hints = load.hints \ {g} /\ load'.at = g /\ load'.hop = 0
    BY <1>4 DEF NextHint, MarketInv, LoadingInv, LoadFields, g
  <2>4. LoadingInv'
    BY <1>1, <2>1, <2>2, <2>3, MarketAssumption DEF NextHint, LoadStep, MarketInv, LoadingInv, OfferIds, Signed
  <2>5. ListingInv'
    BY <2>3 DEF ListingInv
  <2>6. WalkInv'
    <3> SUFFICES ASSUME NEW o \in load.began.offers, NEW h \in load.began.offers, Due(o),
                        h.id \in load.began.hints, Reached(h, o), ~Found(o), h.id \notin load'.hints
                 PROVE  Walking(h, o)'
      BY <1>1, <1>2, <2>3, StepReads DEF WalkInv, LoadStep
    <3>1. h.id = g
      <4>1. h.id \in load.hints \/ Walking(h, o) \/ Found(o)
        BY <1>1 DEF MarketInv, WalkInv, LoadStep
      <4>2. QED
        BY <2>3, <4>1 DEF NextHint, Walking
    <3>2. OfferOf(g) = h
      BY <3>1, OffersDated DEF NextHint, MarketInv, LoadingInv
    <3>3. Cardinality(Between(h, o)) < MaxHops - 0
      BY MarketAssumption DEF Reached
    <3>4. QED
      BY <1>1, <2>3, <3>2, <3>3, StepReads DEF Walking
  <2>7. QED
    BY <2>4, <2>5, <2>6
<1>5. QED
  BY <1>3, <1>4

\* The replacement a walk goes on to is the maker's own, however many look-alikes
\* there are, as long as they are fewer than the candidates looked at.
LEMMA ReplacementIs ==
  ASSUME OffersInv, NEW a \in offers, Signed(a), NEW q \in offers, Signed(q), SameOffers(q, a),
         q.replaces = a.id, NEW now \in Nat, q.at <= now,
         Cardinality(Lookalikes(a)) < MaxCandidates
  PROVE  NewestReplacement(a, now) = q.id
<1> DEFINE c == {x \in offers : /\ x.replaces = a.id /\ x.side = a.side /\ x.maker = a.maker
                                /\ x.at > a.at /\ x.at <= now + Slack}
           R == {x \in Replacements(a, now) : Signed(x)}
<1>1. Replacements(a, now) = {x \in c : Cardinality({y \in c : Newer(y, x)}) < MaxCandidates}
  BY DEF Replacements
<1>2. \A x \in offers : Signed(x) /\ x.replaces = a.id /\ x.side = a.side /\ x.maker = a.maker => x = q
  BY DEF OffersInv, Chained, SameOffers
<1>3. q \in c
  <2>1. q.at > a.at
    BY DEF OffersInv, Chained
  <2>2. q.at \in Nat /\ Slack \in Nat
    BY OffersDated, MarketAssumption DEF Dated
  <2>3. QED
    BY <2>1, <2>2 DEF SameOffers
<1>4. Cardinality({y \in c : Newer(y, q)}) < MaxCandidates
  <2>1. \A y \in {y \in c : Newer(y, q)} : y \in Lookalikes(a)
    BY <1>2, NewerOrder, OffersDated DEF Lookalikes
  <2>2. IsFiniteSet(Lookalikes(a))
    BY OffersDated DEF Lookalikes
  <2>3. {y \in c : Newer(y, q)} \in SUBSET Lookalikes(a)
    BY <2>1
  <2> HIDE DEF c
  <2>4. /\ Cardinality({y \in c : Newer(y, q)}) <= Cardinality(Lookalikes(a))
        /\ Cardinality({y \in c : Newer(y, q)}) \in Nat /\ Cardinality(Lookalikes(a)) \in Nat
    BY <2>2, <2>3, FS_Subset, FS_CardinalityType
  <2>5. QED
    BY <2>4, MarketAssumption
<1>5. R = {q}
  BY <1>1, <1>2, <1>3, <1>4
<1>6. NewestOf(R) = q
  BY <1>5 DEF NewestOf
<1>7. QED
  BY <1>5, <1>6 DEF NewestReplacement

\* The walk goes one offer further, or ends.
LEMMA HopMarket ==
  ASSUME MarketInv, clock \in Nat, Hop, UNCHANGED <<offers, clock, serial>>
  PROVE  LoadingInv' /\ ListingInv' /\ WalkInv'
<1> DEFINE a == OfferOf(load.at)
           next == IF Signed(a) THEN NewestReplacement(a, load.now) ELSE NoOffer
           out == Consider(load.out, a, load.now)
<1>1. /\ load.pc = "walk" /\ OffersInv /\ LoadingInv /\ DOMAIN load = LoadFields /\ load.now \in Nat
      /\ load' = IF next = NoOffer \/ load.hop + 1 >= MaxHops
                 THEN [load EXCEPT !.out = out, !.pc = "hints"]
                 ELSE [load EXCEPT !.out = out, !.at = next, !.hop = @ + 1]
  BY DEF Hop, MarketInv, LoadingInv
<1>2. a \in offers /\ a.id = load.at
  <2>1. PICK b \in offers : b.id = load.at
    BY <1>1 DEF LoadingInv, OfferIds
  <2>2. QED
    BY <1>1, <2>1, OffersDated
<1>3. next # NoOffer => next \in OfferIds
  <2> DEFINE R == {x \in Replacements(a, load.now) : Signed(x)}
  <2>1. R \in SUBSET offers
    BY DEF Replacements
  <2>2. R # {} => NewestOf(R) \in R
    BY <1>1, <2>1, OffersDated, NewestIs
  <2>3. next # NoOffer => R # {} /\ next = NewestOf(R).id
    BY DEF NewestReplacement
  <2>4. QED
    BY <2>1, <2>2, <2>3 DEF OfferIds
<1> HIDE DEF next, out
<1>4. /\ LoadStep /\ load'.out = out /\ load'.page = load.page /\ load'.hints = load.hints
      /\ \/ (next = NoOffer \/ load.hop + 1 >= MaxHops) /\ load'.pc = "hints"
         \/ /\ next # NoOffer /\ ~(load.hop + 1 >= MaxHops)
            /\ load'.pc = "walk" /\ load'.at = next /\ load'.hop = load.hop + 1
  BY <1>1 DEF LoadStep, LoadFields
<1> HIDE DEF a
<1>5. /\ out \subseteq {s \in offers : Signed(s)}
      /\ \A o \in offers : (\E c \in load.out : SameOffers(c, o) /\ ~Newer(o, c)) =>
                              \E c \in out : SameOffers(c, o) /\ ~Newer(o, c)
      /\ Signed(a) /\ Fresh(a, load.now) => \E c \in out : SameOffers(c, a) /\ ~Newer(a, c)
  BY <1>1, <1>2, ConsiderFinds DEF LoadingInv, out, a
<1>6. \A o : Found(o)' <=> \E c \in out : SameOffers(c, o) /\ ~Newer(o, c)
  BY <1>4 DEF Found, SameOffers, Newer
<1>7. \A o \in offers : Found(o) => Found(o)'
  BY <1>5, <1>6, FoundIs
<1>8. LoadingInv'
  <2>1. load.hop \in Nat /\ MaxHops \in Nat
    BY <1>1, MarketAssumption DEF LoadingInv
  <2>2. QED
    BY <1>1, <1>3, <1>4, <1>5, <2>1 DEF LoadStep, LoadingInv, OfferIds, Signed
<1>9. ListingInv'
  BY <1>4 DEF ListingInv
<1>10. WalkInv'
  <2> SUFFICES ASSUME NEW o \in load.began.offers, NEW h \in load.began.offers, Due(o),
                      h.id \in load.began.hints, Reached(h, o), ~Found(o)', h.id \notin load'.hints
               PROVE  Walking(h, o)'
    BY <1>4, StepReads DEF WalkInv, LoadStep
  <2>1. o \in offers /\ h \in offers /\ Signed(o) /\ Fresh(o, load.now) /\ o.at <= load.now
    BY <1>1 DEF LoadingInv, Due
  <2>2. Walking(h, o)
    BY <1>4, <1>7, <2>1 DEF MarketInv, WalkInv, LoadStep
  <2>3. /\ a \in {h} \cup Between(h, o) /\ Cardinality(Between(a, o)) < MaxHops - load.hop
    BY <2>2 DEF Walking, a
  <2>4. h \in OffersOf(o.maker, o.side) /\ Between(h, o) \subseteq OffersOf(o.maker, o.side)
    BY DEF Reached, Between
  <2>5. Signed(a) /\ SameOffers(a, o) /\ SameOffers(o, a)
    BY <2>3, <2>4 DEF OffersOf, SameOffers
  <2>6. o # a /\ Newer(o, a)
    <3>1. ASSUME o = a \/ Newer(a, o) PROVE FALSE
      <4>1. Fresh(a, load.now)
        BY <2>1, <2>3, <3>1 DEF Reached, Between
      <4>2. PICK c \in out : SameOffers(c, a) /\ ~Newer(a, c)
        BY <1>5, <2>5, <4>1
      <4>3. c \in offers /\ SameOffers(c, o)
        BY <1>5, <2>5, <4>2 DEF SameOffers
      <4>4. ~Newer(o, c)
        BY <1>1, <1>2, <2>1, <3>1, <4>2, <4>3, NewerOrder, OffersDated
      <4>5. QED
        BY <1>6, <4>3, <4>4
    <3>2. QED
      BY <1>1, <1>2, <2>1, <3>1, NewerOrder, OffersDated
  <2>7. PICK q \in offers : /\ Signed(q) /\ SameOffers(q, a) /\ q.replaces = a.id
                            /\ Newer(q, a) /\ ~Newer(q, o)
    BY <1>1, <1>2, <2>1, <2>5, <2>6, ChainOrder
  <2>8. q.at <= o.at /\ q.at \in Nat /\ o.at \in Nat
    <3>1. q.at \in Nat /\ o.at \in Nat
      BY <1>1, <2>1, OffersDated DEF Dated
    <3>2. QED
      BY <2>7, <3>1 DEF Newer
  <2>9. Cardinality(Lookalikes(a)) < MaxCandidates
    BY <2>3, <2>6 DEF Reached
  <2>10. next = q.id /\ next # NoOffer
    <3>1. q.at <= load.now
      BY <1>1, <2>1, <2>8
    <3>2. NewestReplacement(a, load.now) = q.id
      BY <1>1, <1>2, <2>5, <2>7, <2>9, <3>1, ReplacementIs
    <3>3. QED
      BY <1>1, <2>5, <2>7, <3>2, OffersDated DEF next
  <2>11. q \in OffersOf(o.maker, o.side) /\ q \in Between(a, o) /\ q \in Between(h, o)
    <3>1. q \in OffersOf(o.maker, o.side)
      BY <2>5, <2>7 DEF OffersOf, SameOffers
    <3>2. a = h \/ Newer(a, h)
      BY <2>3 DEF Between
    <3>3. Newer(q, h)
      BY <1>1, <1>2, <2>1, <2>7, <3>2, NewerOrder, OffersDated
    <3>4. QED
      BY <2>7, <3>1, <3>3 DEF Between
  <2>12. Cardinality(Between(q, o)) < Cardinality(Between(a, o)) /\ Cardinality(Between(q, o)) \in Nat
         /\ Cardinality(Between(a, o)) \in Nat
    <3>1. \A p \in Between(q, o) : p \in Between(a, o)
      <4> SUFFICES ASSUME NEW p \in Between(q, o) PROVE Newer(p, a)
        BY DEF Between
      <4>1. p \in offers /\ Newer(p, q)
        BY DEF Between, OffersOf
      <4>2. QED
        BY <1>1, <1>2, <2>7, <4>1, NewerOrder, OffersDated
    <3>2. q \notin Between(q, o)
      BY <1>1, NewerOrder, OffersDated DEF Between
    <3>3. IsFiniteSet(Between(a, o))
      BY <1>1, OffersDated DEF Between, OffersOf
    <3>4. QED
      BY <2>11, <3>1, <3>2, <3>3, Smaller
  <2>13. load.hop \in Nat /\ MaxHops \in Nat
    BY <1>1, MarketAssumption DEF LoadingInv
  <2>14. load'.pc = "walk" /\ load'.at = q.id /\ load'.hop = load.hop + 1
    BY <1>4, <2>3, <2>10, <2>12, <2>13
  <2>15. Cardinality(Between(q, o)) < MaxHops - load'.hop
    BY <2>3, <2>12, <2>13, <2>14
  <2>16. OfferOf(q.id) = q
    BY <1>1, OffersDated
  <2>17. (OfferOf(load.at))' = q
    BY <1>4, <2>14, <2>16 DEF OfferOf, LoadStep
  <2>18. Between(h, o)' = Between(h, o) /\ Between(q, o)' = Between(q, o)
    BY <1>4, StepReads
  <2>19. QED
    BY <2>11, <2>14, <2>15, <2>17, <2>18 DEF Walking
<1>11. QED
  BY <1>8, <1>9, <1>10

\* A page of the listing is read: what is on it is found, and a page that is not full
\* is the last.
LEMMA ListPageMarket ==
  ASSUME MarketInv, ListPage, UNCHANGED <<offers, clock, serial>>
  PROVE  LoadingInv' /\ ListingInv' /\ WalkInv'
<1> DEFINE page == Page(offers, load.page)
           last == load.page + 1 = OfferPages \/ Cardinality(page) < PageSize
           out == ConsiderAll(load.out, page, load.now)
<1>1. /\ load.pc = "list" /\ OffersInv /\ LoadingInv /\ DOMAIN load = LoadFields
      /\ load.page \in 0..(OfferPages - 1) /\ load.page \in Nat
      /\ load' = [load EXCEPT !.out = out, !.page = @ + 1, !.pc = IF last THEN "rest" ELSE @]
  BY MarketAssumption DEF ListPage, MarketInv, LoadingInv
<1> HIDE DEF out
<1>2. page \in SUBSET offers
  BY DEF Page
<1>3. /\ LoadStep /\ load'.out = out /\ load'.page = load.page + 1 /\ load'.hints = load.hints
      /\ IF last THEN load'.pc = "rest" ELSE load'.pc = "list"
  <2> HIDE DEF last
  <2>1. QED
    BY <1>1 DEF LoadStep, LoadFields
<1>4. /\ out \subseteq {s \in offers : Signed(s)}
      /\ \A o \in offers : (\E c \in load.out : SameOffers(c, o) /\ ~Newer(o, c)) =>
                              \E c \in out : SameOffers(c, o) /\ ~Newer(o, c)
      /\ \A o \in page : Signed(o) /\ Fresh(o, load.now) => \E c \in out : SameOffers(c, o) /\ ~Newer(o, c)
  <2> HIDE DEF page
  <2>1. QED
    BY <1>1, <1>2, ConsiderAllFinds DEF LoadingInv, out
<1>5. \A o : Found(o)' <=> \E c \in out : SameOffers(c, o) /\ ~Newer(o, c)
  BY <1>3 DEF Found, SameOffers, Newer
<1>6. \A o \in offers : Found(o) => Found(o)'
  BY <1>4, <1>5, FoundIs
<1>7. LoadingInv'
  <2>1. OfferPages \in Nat
    BY MarketAssumption
  <2>2. load'.pc = "list" => load'.page \in 0..(OfferPages - 1)
    BY <1>1, <1>3, <2>1
  <2>3. QED
    BY <1>1, <1>3, <1>4, <2>2 DEF LoadStep, LoadingInv, OfferIds, Signed
<1>8. \A o : Rank(o) = Cardinality(Ahead(offers, o)) /\ Rank(o) \in Nat
  BY <1>1, AheadFinite DEF OffersInv, Rank, Ahead
<1>9. ASSUME NEW o \in load.began.offers, Due(o), ~Found(o)'
      PROVE  /\ Rank(o) >= load'.page * PageSize
             /\ last => ~Listed(o)
  <2>1. o \in offers
    BY <1>1, <1>9 DEF LoadingInv
  <2> DEFINE b == load.page * PageSize
  <2>2. Rank(o) >= b
    BY <1>1, <1>6, <1>9, <2>1 DEF MarketInv, ListingInv
  <2>3. b \in Nat /\ (load.page + 1) * PageSize = b + PageSize /\ PageSize \in Nat \ {0} /\ OfferPages \in Nat
    BY <1>1, MarketAssumption
  <2>4. Page(offers, load.page) =
          {q \in offers : Cardinality(Ahead(offers, q)) \in b..(b + PageSize - 1)}
    BY <2>3 DEF Page, Ahead
  <2> HIDE DEF b
  <2>5. Rank(o) >= b + PageSize
    <3>1. ASSUME Rank(o) < b + PageSize PROVE FALSE
      <4>1. Cardinality(Ahead(offers, o)) \in b..(b + PageSize - 1)
        BY <1>8, <2>2, <2>3, <3>1
      <4>2. o \in page
        BY <2>1, <2>4, <4>1
      <4>3. QED
        BY <1>4, <1>5, <1>9, <4>2 DEF Due
    <3>2. QED
      BY <1>8, <2>3, <3>1
  <2>6. Cardinality(page) >= PageSize
    <3>1. b + PageSize <= Cardinality(Ahead(offers, o))
      BY <1>8, <2>3, <2>5
    <3>2. Cardinality({q \in offers : Cardinality(Ahead(offers, q)) \in b..(b + PageSize - 1)}) >= PageSize
      BY <1>1, <2>1, <2>3, <3>1, OffersDated, PageFull DEF OffersInv
    <3>3. QED
      BY <2>4, <3>2
  <2>7. ASSUME last PROVE ~Listed(o)
    <3>1. load.page + 1 = OfferPages
      <4>1. IsFiniteSet(page)
        BY <1>1, <1>2, OffersDated
      <4>2. Cardinality(page) \in Nat
        BY <4>1, FS_CardinalityType
      <4>3. QED
        BY <2>3, <2>6, <2>7, <4>2
    <3>2. OfferPages * PageSize = b + PageSize
      BY <2>3, <3>1
    <3>3. PageSize * OfferPages = OfferPages * PageSize
      BY <2>3
    <3>4. QED
      BY <1>8, <2>3, <2>5, <3>2, <3>3 DEF Listed, Rank
  <2>8. QED
    BY <1>3, <2>3, <2>5, <2>7
<1>10. ListingInv'
  <2> HIDE DEF last
  <2>1. QED
    BY <1>3, <1>9, StepReads DEF ListingInv, LoadStep
<1>11. WalkInv'
  <2>1. \A h, o : ~Walking(h, o)
    BY <1>1 DEF Walking
  <2>2. load.hints = {} /\ load'.hints = {}
    BY <1>1, <1>3 DEF LoadingInv
  <2>3. \A o \in load.began.offers : o \in offers
    BY <1>1 DEF LoadingInv
  <2>4. QED
    BY <1>1, <1>3, <1>6, <2>1, <2>2, <2>3, StepReads DEF MarketInv, WalkInv, LoadStep
<1>12. QED
  BY <1>7, <1>10, <1>11

\* After a failure nothing is due.
LEMMA ReadFailsMarket ==
  ASSUME MarketInv, ReadFails, UNCHANGED <<offers, clock, serial>>
  PROVE  LoadingInv' /\ ListingInv' /\ WalkInv'
<1>1. /\ OffersInv /\ LoadingInv /\ load.pc \in {"walk", "list"} /\ DOMAIN load = LoadFields
      /\ DOMAIN load.began = {"offers", "hints"}
  BY DEF ReadFails, MarketInv, LoadingInv
<1>2. PICK out \in {Consider(load.out, OfferOf(load.at), load.now), load.out} :
        \/ load.pc = "walk" /\ load' = [load EXCEPT !.out = out, !.pc = "hints", !.began.offers = {}]
        \/ load.pc = "list" /\ out = load.out /\ load' = [load EXCEPT !.pc = "rest", !.began.offers = {}]
  BY DEF ReadFails
<1>3. /\ DOMAIN load' = LoadFields /\ DOMAIN load'.began = {"offers", "hints"} /\ load'.began.offers = {}
      /\ load'.now = load.now /\ load'.hints = load.hints /\ load'.page = load.page /\ load'.out = out
      /\ load'.pc \in {"hints", "rest"} /\ (load.pc = "walk" <=> load'.pc = "hints")
  <2>1. CASE load' = [load EXCEPT !.out = out, !.pc = "hints", !.began.offers = {}] /\ load.pc = "walk"
    BY <1>1, <2>1 DEF LoadFields
  <2>2. CASE load.pc = "list" /\ out = load.out /\ load' = [load EXCEPT !.pc = "rest", !.began.offers = {}]
    BY <1>1, <2>2 DEF LoadFields
  <2>3. QED
    BY <1>2, <2>1, <2>2
<1>4. load'.out \subseteq {s \in offers : Signed(s)}
  <2>1. CASE load.pc = "walk"
    <3>1. PICK b \in offers : b.id = load.at
      BY <1>1, <2>1 DEF LoadingInv, OfferIds
    <3>2. OfferOf(load.at) = b
      BY <1>1, <3>1, OffersDated
    <3>3. Consider(load.out, b, load.now) \subseteq {s \in offers : Signed(s)}
      BY <1>1, <3>1, ConsiderFinds DEF LoadingInv
    <3>4. QED
      BY <1>1, <1>2, <1>3, <2>1, <3>2, <3>3 DEF LoadingInv
  <2>2. CASE load.pc = "list"
    BY <1>1, <1>2, <1>3, <2>2 DEF LoadingInv
  <2>3. QED
    BY <1>1, <2>1, <2>2
<1>5. LoadingInv'
  BY <1>1, <1>2, <1>3, <1>4 DEF LoadingInv, OfferIds, Signed
<1>6. ListingInv' /\ WalkInv'
  BY <1>3 DEF ListingInv, WalkInv
<1>7. QED
  BY <1>5, <1>6

\* Time and numbers only grow.
LEMMA TimeGrows ==
  ASSUME TradesInv, [Next]_vars
  PROVE  TimePasses
<1>1. TradesInv'
  BY NextInv
<1>2. clock \in Nat /\ clock' \in Nat /\ serial \in Nat /\ serial' \in Nat
  BY <1>1 DEF TradesInv, ClockInv
<1>3. clock' = clock \/ clock' = clock + 1
  BY DEF Next, Buy, BuyClicked, BuyRefused, BuyPrepared, BuyPublished, BuyNotPublished, BuyAccepted,
     BuyDeclined, BuyUnanswered, outsideUnchanged, Sell, SellClicked, SellRefused, SellPrepared,
     SellRequested, SellFails, SellAccepted, SellNotAccepted, SellChecked, SellLockSeen, SellGivesUp,
     SellSigned, SellHanded, SellSubmitted, SellDone, ClaimAndRefund, ClaimClicked, RefundClicked,
     ClaimMined, RefundMined, SentMined, Follow, FollowFailedBuy, FollowSale, FollowReceipt,
     WatchPayment, LateSave, Following, Market, TimerLoads, SessionLoads, LoadReads, LoadEnds,
     Wallet, ScanStarts, ScanEnds, SendCsd, Reload, MakersAct, PublishOffer, PublishLookalike,
     OthersTrade, PublishReceipt, AnswerOrder, LockBuy, PublishPayment, AnswerRequest,
     DeclineRequest, LockSale, Locking, OnAon, ChainsAct, Broadcast, MineTx, Prove, ReleaseSale,
     MakerRefunds, BecomesFinal, CsdUnchanged, Tick, vars
<1>4. serial' = serial \/ serial' = serial + 1
  BY DEF Next, Buy, BuyClicked, BuyRefused, BuyPrepared, BuyPublished, BuyNotPublished, BuyAccepted,
     BuyDeclined, BuyUnanswered, outsideUnchanged, Sell, SellClicked, SellRefused, SellPrepared,
     SellRequested, SellFails, SellAccepted, SellNotAccepted, SellChecked, SellLockSeen, SellGivesUp,
     SellSigned, SellHanded, SellSubmitted, SellDone, ClaimAndRefund, ClaimClicked, RefundClicked,
     ClaimMined, RefundMined, SentMined, Follow, FollowFailedBuy, FollowSale, FollowReceipt,
     WatchPayment, LateSave, Following, Market, TimerLoads, SessionLoads, LoadReads, LoadEnds,
     Wallet, ScanStarts, ScanEnds, SendCsd, Reload, MakersAct, PublishOffer, PublishLookalike,
     OthersTrade, PublishReceipt, AnswerOrder, LockBuy, PublishPayment, AnswerRequest,
     DeclineRequest, LockSale, Locking, OnAon, ChainsAct, Broadcast, MineTx, Prove, ReleaseSale,
     MakerRefunds, BecomesFinal, CsdUnchanged, Tick, vars
<1>5. QED
  BY <1>2, <1>3, <1>4 DEF TimePasses

\* A load begins or reads on: nothing the page keeps changes.
LEMMA LoadReadsMarket ==
  ASSUME MarketInv, TimePasses, TimerLoads \/ SessionLoads \/ LoadReads, QuotesInv'
  PROVE  MarketInv'
<1>1. UNCHANGED <<offers, clock, serial, storage, tab>>
  BY DEF TimerLoads, SessionLoads, LoadReads, marketVars
<1>2. LoadingInv' /\ ListingInv' /\ WalkInv'
  <2>1. CASE TimerLoads \/ SessionLoads
    BY <1>1, <2>1, LoadStartsMarket DEF TimerLoads, SessionLoads, TimePasses
  <2>2. CASE LoadReads
    BY <1>1, <2>2, NextHintMarket, HopMarket, ListPageMarket, ReadFailsMarket DEF LoadReads, TimePasses
  <2>3. QED
    BY <2>1, <2>2
<1>3. OffersInv' /\ PageInv'
  BY <1>1, OffersKept DEF MarketInv, PageInv, OfferIds
<1>4. QED
  BY <1>2, <1>3 DEF MarketInv

\* What the page keeps once a load has found the market.
Assembled(ours, addrs) ==
  /\ ours = {o \in load.out : o.ours} /\ addrs = {o.maker : o \in ours}
  /\ DOMAIN tab' = DOMAIN tab /\ \A k \in DOMAIN tab \ {"market", "verified", "buyChecked"} : tab'[k] = tab[k]
  /\ "makers" \in DOMAIN tab'.market /\ DOMAIN tab'.market.makers = addrs
  /\ \A m \in addrs : tab'.market.makers[m].offers = {o \in ours : o.maker = m}
  /\ DOMAIN storage' = DOMAIN storage /\ \A k \in DOMAIN storage \ {"hints", "provenAt"} : storage'[k] = storage[k]
  /\ storage'.hints = {o.id : o \in ours}
  /\ DOMAIN storage'.provenAt \subseteq addrs \cup DOMAIN storage.provenAt
\* A load that ends leaves such a page.
LEMMA AssembledIs ==
  ASSUME NEW unread, NEW claimed, Assemble(unread, claimed), "market" \in DOMAIN tab, {"hints", "provenAt"} \subseteq DOMAIN storage
  PROVE  \E ours, addrs : Assembled(ours, addrs)
<1>1. PICK ours : ours = {o \in load.out : o.ours}
  OBVIOUS
<1>2. PICK addrs : addrs = {o.maker : o \in ours}
  OBVIOUS
<1>3. PICK rs : rs = ReadableReceipts(addrs)
  OBVIOUS
<1>4. PICK how : how = Verify(rs, unread)
  OBVIOUS
<1>5. PICK real : real = {r \in rs : how[r] # None}
  OBVIOUS
<1>6. PICK proved : proved = {r.signer : r \in {r \in real : how[r] = "settled"}}
  OBVIOUS
<1>7. PICK over : over = {r.hash : r \in real}
  OBVIOUS
<1>8. PICK buys : buys = {p \in Pages(payments, OtherPages) :
                            clock - p.at <= IF p.hash \in over THEN PaymentsFor ELSE FlyingFor}
  OBVIOUS
<1>9. PICK flying : flying = [p \in {p \in buys : p.hash \notin over} |-> BuyTrade(p, addrs)]
  OBVIOUS
<1>10. PICK makers : makers = [m \in addrs |-> [offers |-> {o \in ours : o.maker = m},
                                                proven |-> m \in Known \cup RecentlyProven \cup proved]]
  OBVIOUS
<1>11. PICK sure : sure = RecentTrades(real, buys, flying, addrs)
  OBVIOUS
<1>12. PICK marks : marks = [m \in proved |-> clock]
  OBVIOUS
<1>13. PICK hints : hints = {o.id : o \in ours}
  OBVIOUS
<1>14. /\ tab' = [tab EXCEPT !.market = [makers |-> makers, recent |-> IF sure = {} THEN claimed ELSE sure],
                             !.verified = Over(how, @), !.buyChecked = Over(flying, @)]
       /\ storage' = [storage EXCEPT !.provenAt = Over(marks, @), !.hints = hints]
  BY <1>1, <1>2, <1>3, <1>4, <1>5, <1>6, <1>7, <1>8, <1>9, <1>10, <1>11, <1>12, <1>13 DEF Assemble
<1> DEFINE recent == IF sure = {} THEN claimed ELSE sure
<1>15. PICK market : market = [makers |-> makers, recent |-> recent]
  OBVIOUS
<1>16. /\ DOMAIN tab' = DOMAIN tab /\ DOMAIN storage' = DOMAIN storage
       /\ tab'.market = market /\ storage'.hints = hints
       /\ storage'.provenAt = Over(marks, storage.provenAt)
       /\ \A k \in DOMAIN tab \ {"market", "verified", "buyChecked"} : tab'[k] = tab[k]
       /\ \A k \in DOMAIN storage \ {"hints", "provenAt"} : storage'[k] = storage[k]
  BY <1>14, <1>15
<1>17. "makers" \in DOMAIN market /\ market.makers = makers
  BY <1>15
<1>18. DOMAIN makers = addrs /\ \A m \in addrs : makers[m].offers = {o \in ours : o.maker = m}
  BY <1>10
<1>19. proved \subseteq addrs
  <2>1. \A r \in rs : r.signer \in addrs
    BY <1>3 DEF ReadableReceipts
  <2>2. QED
    BY <1>5, <1>6, <2>1
<1>20. DOMAIN storage'.provenAt \subseteq addrs \cup DOMAIN storage.provenAt
  BY <1>12, <1>16, <1>19 DEF Over
<1>21. DOMAIN tab'.market.makers = addrs /\ \A m \in addrs : tab'.market.makers[m].offers = {o \in ours : o.maker = m}
  BY <1>16, <1>17, <1>18
<1>22. storage'.hints = {o.id : o \in ours} /\ "makers" \in DOMAIN tab'.market
  BY <1>13, <1>16, <1>17
<1>23. Assembled(ours, addrs)
  BY <1>1, <1>2, <1>16, <1>20, <1>21, <1>22 DEF Assembled
<1>24. QED
  BY <1>23

\* A load ends: what it hands over are offers.
LEMMA LoadEndsMarket ==
  ASSUME MarketInv, TimePasses, LoadEnds, QuotesInv', "provenAt" \in DOMAIN storage
  PROVE  MarketInv'
<1>1. UNCHANGED <<offers, clock, serial>> /\ load' = Idle
  BY DEF LoadEnds, marketVars, LoadFinds, LoadFindsNothing
<1>2. OffersInv' /\ LoadingInv' /\ ListingInv' /\ WalkInv'
  BY <1>1, OffersKept DEF MarketInv, LoadingInv, ListingInv, WalkInv, Idle
<1>3. PageInv'
  <2>1. CASE UNCHANGED <<storage, tab>>
    BY <1>1, <2>1 DEF MarketInv, PageInv, OfferIds
  <2>2. CASE \E unread : LoadFinds(unread)
    <3>1. PICK unread : LoadFinds(unread)
      BY <2>2
    <3>2. load.out \subseteq offers
      BY <3>1 DEF LoadFinds, MarketInv, LoadingInv
    <3>3. PICK ours, addrs : Assembled(ours, addrs)
      BY <3>1, AssembledIs DEF LoadFinds, MarketInv, PageInv
    <3>4. ours \subseteq offers /\ addrs \subseteq Makers
      BY <3>2, <3>3 DEF Assembled, MarketInv, OffersInv, OfferFits
    <3>5. "hints" \in DOMAIN storage' /\ "market" \in DOMAIN tab'
      BY <3>3 DEF Assembled, MarketInv, PageInv
    <3>6. IsFiniteSet(addrs)
      <4> DEFINE maker == [o \in ours |-> o.maker]
      <4>1. IsFiniteSet(ours)
        BY <3>4, OffersDated DEF MarketInv
      <4>2. \A m \in addrs : \E o \in ours : m = maker[o]
        BY <3>3 DEF Assembled
      <4> HIDE DEF maker
      <4>3. QED
        BY <4>1, <4>2, ImageFinite
    <3>7. QED
      BY <1>1, <3>3, <3>4, <3>5, <3>6 DEF Assembled, PageInv, OfferIds
  <2>3. QED
    BY <2>1, <2>2 DEF LoadEnds
<1>4. QED
  BY <1>2, <1>3 DEF MarketInv

\* A page that is loaded anew keeps the hints.
LEMMA ReloadMarket ==
  ASSUME MarketInv, TimePasses, Reload, QuotesInv'
  PROVE  MarketInv'
<1>1. UNCHANGED <<offers, clock, serial, storage>> /\ load' = Idle /\ tab' = NewTab(storage.next)
  BY DEF Reload
<1>2. OffersInv' /\ LoadingInv' /\ ListingInv' /\ WalkInv'
  BY <1>1, OffersKept DEF MarketInv, LoadingInv, ListingInv, WalkInv, Idle
<1>3. "market" \in DOMAIN tab' /\ tab'.market = NoMarket
  BY <1>1 DEF NewTab
<1>4. PageInv'
  <2>1. IsFiniteSet(DOMAIN NoMarket.makers)
    BY FS_EmptySet DEF NoMarket
  <2>2. QED
    BY <1>1, <1>3, <2>1 DEF MarketInv, PageInv, OfferIds, NoMarket
<1>5. QED
  BY <1>2, <1>4 DEF MarketInv

\* The page's own keeping: all other steps leave its offers and the market alone.
LEMMA RestMarket ==
  ASSUME TradesInv, MarketInv, EvidenceInv, TimePasses, QuotesInv', [Next]_vars,
         ~(\E m \in Makers, pool \in left.pools : PublishOffer(m, pool)), ~PublishLookalike,
         ~(TimerLoads \/ SessionLoads \/ LoadReads \/ LoadEnds), ~Reload
  PROVE  MarketInv'
<1>1. UNCHANGED <<offers, load>>
  BY DEF Next, Buy, BuyClicked, BuyRefused, BuyPrepared, BuyPublished, BuyNotPublished, BuyAccepted,
     BuyDeclined, BuyUnanswered, outsideUnchanged, pageUnchanged, Sell, SellClicked, SellRefused,
     SellPrepared, SellRequested, SellFails, SellAccepted, SellNotAccepted, SellChecked,
     SellLockSeen, SellGivesUp, SellSigned, SellHanded, SellSubmitted, SellDone, ClaimAndRefund,
     ClaimClicked, RefundClicked, ClaimMined, RefundMined, SentMined, Follow, FollowFailedBuy,
     FollowSale, FollowReceipt, WatchPayment, LateSave, Following, Market, Wallet, ScanStarts,
     ScanEnds, SendCsd, MakersAct, OthersTrade, PublishReceipt, AnswerOrder, LockBuy, PublishPayment,
     AnswerRequest, DeclineRequest, LockSale, Locking, OnAon, ChainsAct, Broadcast, MineTx, Prove,
     ReleaseSale, MakerRefunds, BecomesFinal, CsdUnchanged, Tick, vars, marketVars, pageVars
<1>2. "hints" \in DOMAIN storage /\ "market" \in DOMAIN tab
  BY DEF MarketInv, PageInv
<1>3. ASSUME UNCHANGED storage, UNCHANGED tab PROVE MarketInv'
  BY <1>1, <1>2, <1>3, MarketFrame DEF MarketKept
<1>4. ASSUME NEW m, NEW for, storage' = Skipped(storage, m, for), tab' = tab
      PROVE  MarketInv'
  <2>1. "hints" \in DOMAIN storage' /\ storage'.hints = storage.hints
    BY <1>2, <1>4 DEF Skipped
  <2>2. QED
    BY <1>1, <1>2, <1>4, <2>1, MarketFrame DEF MarketKept
<1>5. CASE BuyPrepared
  <2>1. PICK i : i = FreshKeyIndex + 1
    OBVIOUS
  <2>2. tab' = [tab EXCEPT !.nextIndex = i] /\ storage' = [storage EXCEPT !.next = i]
    BY <1>5, <2>1 DEF BuyPrepared, WithFreshKey
  <2>3. QED
    BY <1>1, <1>2, <2>2, MarketFrame DEF MarketKept
<1>6. CASE ScanEnds
  <2>1. PICK coins, index, next :
          /\ tab' = [tab EXCEPT !.coins = coins, !.deep = TRUE, !.nextIndex = index]
          /\ storage' = [storage EXCEPT !.next = next]
    BY <1>6 DEF ScanEnds
  <2>2. QED
    BY <1>1, <1>2, <2>1, MarketFrame DEF MarketKept
<1>7. CASE (\E v \in left.sellAmounts : SendCsd(v)) \/ SellSubmitted
  <2>1. PICK coins : tab' = [tab EXCEPT !.coins = coins] /\ storage' = storage
    BY <1>7 DEF SendCsd, SellSubmitted
  <2>2. QED
    BY <1>1, <1>2, <2>1, MarketFrame DEF MarketKept
<1>8. CASE BuyDeclined \/ BuyUnanswered \/ SellNotAccepted
  <2>1. \E m, for : storage' = Skipped(storage, m, for) /\ tab' = tab
    BY <1>8, Zenon DEF BuyDeclined, BuyUnanswered, SellNotAccepted
  <2>2. QED
    BY <1>4, <2>1
<1>9. CASE Buy \/ Sell
  BY <1>3, <1>5, <1>7, <1>8, <1>9 DEF Buy, BuyClicked, BuyRefused, BuyPublished, BuyNotPublished,
     BuyAccepted, Sell, SellClicked, SellRefused, SellPrepared, SellRequested, SellFails,
     SellAccepted, SellChecked, SellLockSeen, SellGivesUp, SellSigned, SellHanded, SellDone
<1>10. CASE ClaimAndRefund \/ Follow \/ Tick \/ UNCHANGED vars \/ ScanStarts
  BY <1>3, <1>10 DEF ClaimAndRefund, ClaimClicked, RefundClicked, ClaimMined, RefundMined, SentMined,
     Follow, FollowFailedBuy, FollowSale, FollowReceipt, WatchPayment, LateSave, Following,
     Tick, vars, pageVars, ScanStarts
<1>11. CASE MakersAct \/ ChainsAct
  BY <1>3, <1>11 DEF MakersAct, OthersTrade, PublishReceipt, AnswerOrder,
     LockBuy, PublishPayment, AnswerRequest, DeclineRequest, LockSale, Locking, OnAon, pageVars,
     ChainsAct, Broadcast, MineTx, Prove, ReleaseSale, MakerRefunds, BecomesFinal, CsdUnchanged
<1>12. QED
  BY <1>6, <1>7, <1>9, <1>10, <1>11 DEF Next, Market, Wallet

\* Every step keeps the market in order.
LEMMA MarketSteps ==
  ASSUME TradesInv, EvidenceInv, MarketInv, [Next]_vars
  PROVE  MarketInv'
<1>1. TimePasses /\ QuotesInv'
  BY TimeGrows, QuotesStep DEF MarketInv
<1>2. "provenAt" \in DOMAIN storage
  BY DEF EvidenceInv
<1>3. QED
  BY <1>1, <1>2, PublishOfferStep, PublishLookalikeStep, LoadReadsMarket, LoadEndsMarket, ReloadMarket, RestMarket

\* A run starts with a market in order.
LEMMA MarketStarts ==
  ASSUME Init
  PROVE  MarketInv
<1>1. PICK s \in DOMAIN Scenarios :
        /\ clock = Scenarios[s].clock /\ offers = Scenarios[s].offers /\ load = Idle /\ serial = 10
        /\ tab = NewTab(1) /\ left = Scenarios[s].left
        /\ storage = [hints |-> Scenarios[s].hints, provenAt |-> << >>, avoid |-> << >>, next |-> 1]
  BY DEF Init
<1>2. OffersInv
  <2>1. /\ IsFiniteSet(Scenarios[s].offers) /\ Chained(Scenarios[s].offers)
        /\ \A o \in Scenarios[s].offers :
             /\ OfferFits(o) /\ o.id < 10 /\ o.replaces < 10
             /\ Signed(o) => o.at <= Scenarios[s].clock
             /\ \A p \in Scenarios[s].offers : o.id = p.id => o = p
    BY ScenarioAssumption
  <2>2. QED
    BY <1>1, <2>1 DEF OffersInv
<1>3. QuotesInv
  <2>1. "pools" \in DOMAIN Scenarios[s].left /\ Scenarios[s].left.pools \subseteq Pools
    BY ScenarioAssumption
  <2>2. QED
    BY <1>1, <2>1 DEF QuotesInv
<1>4. PageInv
  <2>1. Scenarios[s].hints \subseteq {o.id : o \in Scenarios[s].offers}
    BY ScenarioAssumption
  <2>2. "market" \in DOMAIN tab /\ tab.market = NoMarket
    BY <1>1 DEF NewTab
  <2>3. IsFiniteSet(DOMAIN NoMarket.makers)
    BY FS_EmptySet DEF NoMarket
  <2>4. QED
    BY <1>1, <2>1, <2>2, <2>3 DEF PageInv, OfferIds, NoMarket
<1>5. LoadingInv /\ ListingInv /\ WalkInv
  BY <1>1 DEF LoadingInv, ListingInv, WalkInv, Idle
<1>6. QED
  BY <1>2, <1>3, <1>4, <1>5 DEF MarketInv

\* Throughout a run the market is in order.
LEMMA MarketIsRight == Spec => [](TradesInv /\ PublicInv /\ EvidenceInv /\ MarketInv)
<1>1. Init => TradesInv /\ PublicInv /\ EvidenceInv /\ MarketInv
  BY InitInv, EvidenceStarts, MarketStarts
<1>2. TradesInv /\ PublicInv /\ EvidenceInv /\ MarketInv /\ [Next]_vars
        => (TradesInv /\ PublicInv /\ EvidenceInv /\ MarketInv)'
  BY NextInv, PublicSteps, EvidenceSteps, MarketSteps
<1>3. QED
  BY <1>1, <1>2, PTL DEF Spec

\* However many offers and look-alikes are published while the page loads the market,
\* it ends up with one at least as new as every valid offer that stood when the load
\* began and was within the listing or within reach of a hint (allOffers).
THEOREM LoadsFindNewestOffers == Spec => []NewestOffersFound
<1>1. ASSUME MarketInv PROVE NewestOffersFound
  <2> SUFFICES ASSUME load.pc = "rest", NEW o \in load.began.offers, Signed(o), Fresh(o, load.now),
                      Listed(o) \/ Linked(o)
               PROVE  Found(o)
    BY DEF NewestOffersFound
  <2>1. Due(o)
    BY DEF Due
  <2>2. CASE Listed(o)
    BY <1>1, <2>1, <2>2 DEF MarketInv, ListingInv
  <2>3. CASE Linked(o)
    <3>1. PICK h \in load.began.offers : h.id \in load.began.hints /\ Reached(h, o)
      BY <2>3 DEF Linked
    <3>2. load.hints = {} /\ ~Walking(h, o)
      BY <1>1 DEF MarketInv, LoadingInv, Walking
    <3>3. QED
      BY <1>1, <2>1, <3>1, <3>2 DEF MarketInv, WalkInv
  <2>4. QED
    BY <2>2, <2>3
<1>2. QED
  BY <1>1, MarketIsRight, PTL

-----------------------------------------------------------------------------
(***************************************************************************)
(* The shape of the state: coins and the payments they cover.               *)
(***************************************************************************)
\* What coins are worth is the sum of their values.
ValuesOf(cs) == [c \in cs |-> c.value]
LEMMA WorthIs ==
  ASSUME NEW cs, IsFiniteSet(cs)
  PROVE  Worth(cs) = SumFunctionOnSet(ValuesOf(cs), cs)
<1> DEFINE Step(T, g) == IF T = {} THEN 0 ELSE Drawn(T).value + g[T \ {Drawn(T)}]
           Table(g) == g = [T \in SUBSET cs |-> Step(T, g)]
           f == ValuesOf(cs)
<1>1. Worth(cs) = (CHOOSE g : Table(g))[cs]
  BY DEF Worth, MapThenSumSet, MapThenFoldSet, Drawn
<1>2. \A T \in SUBSET cs : T # {} => Drawn(T) \in T /\ f[Drawn(T)] = Drawn(T).value
  BY DEF Drawn, ValuesOf
<1> HIDE DEF f
<1>3. ASSUME NEW T \in SUBSET cs, NEW g PROVE Step(T, g) = SumStep(f, T, g)
  BY <1>2 DEF SumStep
<1>4. PICK g : g = [T \in SUBSET cs |-> SumStep(f, T, g)]
  BY SumTableExists DEF IsSumTable
<1>5. Table(g)
  <2>1. [T \in SUBSET cs |-> SumStep(f, T, g)] = [T \in SUBSET cs |-> Step(T, g)]
    BY <1>3
  <2>2. QED
    BY <1>4, <2>1
<1>6. PICK h : h = (CHOOSE g1 : Table(g1))
  OBVIOUS
<1>7. Table(h)
  BY <1>5, <1>6
<1>8. \A T \in SUBSET cs : h[T] = SumStep(f, T, h)
  BY <1>3, <1>7
<1>9. PICK k : SumFunctionOnSet(f, cs) = k[cs] /\ \A T \in SUBSET cs : k[T] = SumStep(f, T, k)
  BY SumIsTable DEF ReadsTable
<1>10. h[cs] = k[cs]
  BY <1>8, <1>9, TablesAgree
<1>11. QED
  BY <1>1, <1>6, <1>9, <1>10 DEF f

\* Coins are worth a number, and without one of them that much less.
LEMMA WorthOf ==
  ASSUME NEW cs, IsFiniteSet(cs), \A c \in cs : c.value \in Nat
  PROVE  /\ Worth(cs) \in Nat
         /\ \A c \in cs : Worth(cs) = c.value + Worth(cs \ {c})
<1> DEFINE f == ValuesOf(cs)
<1>1. \A c \in cs : f[c] = c.value /\ f[c] \in Nat
  BY DEF ValuesOf
<1> HIDE DEF f
<1>2. Worth(cs) = SumFunctionOnSet(f, cs)
  BY WorthIs DEF f
<1>3. SumFunctionOnSet(f, cs) \in Nat
  BY <1>1, SumType
<1>4. ASSUME NEW c \in cs PROVE Worth(cs) = c.value + Worth(cs \ {c})
  <2> DEFINE rest == cs \ {c}
             g == ValuesOf(rest)
  <2>1. IsFiniteSet(rest)
    BY FS_Subset
  <2>2. \A x \in rest : f[x] = g[x]
    BY <1>1 DEF ValuesOf
  <2>3. Worth(rest) = SumFunctionOnSet(g, rest)
    BY <2>1, WorthIs
  <2> HIDE DEF g
  <2>4. SumFunctionOnSet(f, rest) = SumFunctionOnSet(g, rest)
    BY <2>1, <2>2, SumAgrees
  <2>5. SumFunctionOnSet(f, cs) = f[c] + SumFunctionOnSet(f, rest)
    <3> HIDE DEF rest
    <3>1. \A x \in cs : f[x] \in Int
      BY <1>1
    <3>2. QED
      BY <3>1, SumWithout DEF rest
  <2>6. QED
    BY <1>1, <1>2, <2>3, <2>4, <2>5
<1>5. QED
  BY <1>2, <1>3, <1>4

\* Of finitely many things one has the largest number.
LEMMA Topmost ==
  ASSUME NEW S, IsFiniteSet(S), S # {}, NEW f, \A x \in S : f[x] \in Int
  PROVE  \E m \in S : \A k \in S : f[k] <= f[m]
<1> DEFINE Good == {T \in SUBSET S : T # {} => \E m \in T : \A k \in T : f[k] <= f[m]}
<1>1. ASSUME NEW T \in SUBSET S, \A x \in T : T \ {x} \in Good
      PROVE  T \in Good
  <2> SUFFICES ASSUME T # {} PROVE \E m \in T : \A k \in T : f[k] <= f[m]
    OBVIOUS
  <2>1. PICK x \in T : TRUE
    OBVIOUS
  <2>2. CASE T \ {x} = {}
    <3>1. \A k \in T : k = x
      BY <2>2
    <3>2. f[x] \in Int
      OBVIOUS
    <3>3. QED
      BY <2>1, <3>1, <3>2
  <2>3. CASE T \ {x} # {}
    <3>1. PICK m \in T \ {x} : \A k \in T \ {x} : f[k] <= f[m]
      BY <1>1, <2>1, <2>3
    <3>2. CASE f[x] <= f[m]
      BY <3>1, <3>2
    <3>3. CASE ~(f[x] <= f[m])
      <4>1. \A k \in T : f[k] \in Int
        OBVIOUS
      <4>2. \A k \in T : f[k] <= f[x]
        BY <2>1, <3>1, <3>3, <4>1
      <4>3. QED
        BY <2>1, <4>2
    <3>4. QED
      BY <3>2, <3>3
  <2>4. QED
    BY <2>2, <2>3
<1>2. SUBSET S \subseteq Good
  <2> HIDE DEF Good
  <2>1. QED
    BY <1>1, SubsetInduction
<1>3. S \in Good
  BY <1>2
<1>4. QED
  BY <1>3

Statuses == {"pending", "done", "failed"}

\* Coins, and transactions that move some of them.
Amount(n) == n \in Nat \ {0}
Purse(coins) == IsFiniteSet(coins) /\ \A c \in coins : Amount(c.value)
GoodTx(t) == Amount(t.value) /\ t.change \in Nat

\* Every trade that is kept, or is about to be saved, has a status and pays with such.
TradeGood(t) ==
  /\ TradeShape(t) /\ t.status \in Statuses
  /\ t.side = "sell" => \A u \in t.tx : GoodTx(u)
TradesGood ==
  /\ \A h \in DOMAIN mine : TradeGood(mine[h])
  /\ late.pc = "saving" => TradeGood(late.trade)
  /\ session.pc \in {"buyAnswer", "claimSent", "refundSent"} => TradeGood(session.trade)

\* The counter of addresses never names the change address.
KeysInv ==
  /\ storage.next > 0 /\ tab.nextIndex > 0
  /\ scan.pc \in {"idle", "reading"} /\ (scan.pc = "reading" => scan.next > 0)

LeftInv ==
  /\ {"buyAmounts", "sellAmounts"} \subseteq DOMAIN left
  /\ left.buyAmounts \cup left.sellAmounts \subseteq Nat \ {0}

\* What a click deals in: an amount, a maker, and for a sale the coins that cover it.
Selling == {"sellPut", "sellAnswer", "sellCheck", "sellWait", "sellPay"}
DealInv ==
  /\ session.pc \in {"buyLoad", "buyRoute", "sellLoad", "sellRoute"} \cup Selling =>
       "csd" \in DOMAIN session /\ Amount(session.csd)
  /\ session.pc \in {"buyPut", "buyAnswer"} =>
       "order" \in DOMAIN session /\ session.order.maker \in Makers /\ Amount(session.order.csd)
  /\ session.pc \in {"sellPut", "sellAnswer"} =>
       "makers" \in DOMAIN session /\ session.makers \in Seq(Makers) /\ Len(session.makers) > 0
  /\ session.pc \in Selling =>
       "coins" \in DOMAIN session /\ Purse(session.coins) /\ Worth(session.coins) >= session.csd + CsdFee
  /\ session.pc \in {"sellHand", "sellSubmit", "sellDone"} => GoodTx(session.tx)

\* The wallet's coins, and what the network and the makers hold of payments.
FundsInv ==
  /\ "coins" \in DOMAIN tab /\ Purse(tab.coins)
  /\ IsFiniteSet(csdTxs) /\ \A t \in csdTxs : GoodTx(t)
  /\ \A o \in orders : Amount(o.csd)
  /\ \A p \in payments : GoodTx(p.tx)

\* Makers that are avoided or remembered are makers, and blocks hold known transactions.
AvoidInv ==
  /\ "avoid" \in DOMAIN storage /\ DOMAIN storage.provenAt \cup DOMAIN storage.avoid \subseteq Makers
MinedInv == DOMAIN mined \subseteq {t.id : t \in csdTxs}

ShapeInv == TradesGood /\ KeysInv /\ LeftInv /\ DealInv /\ FundsInv /\ AvoidInv /\ MinedInv

\* Coins worth enough can be picked: the fewest of the largest that are.
LEMMA PickedCovers ==
  ASSUME NEW coins, Purse(coins), NEW need \in Nat, Worth(coins) >= need
  PROVE  /\ Picked(coins, need) \in SUBSET coins
         /\ Worth(Picked(coins, need)) \in Nat /\ Worth(Picked(coins, need)) >= need
<1> DEFINE Top(p) == \A u \in p, c \in coins \ p : u.value >= c.value
           Enough == {p \in SUBSET coins : Worth(p) >= need /\ Top(p)}
           f == [p \in Enough |-> 0 - Cardinality(p)]
<1>1. \A p \in SUBSET coins : /\ IsFiniteSet(p) /\ Cardinality(p) \in Nat /\ \A c \in p : c.value \in Nat
                              /\ Worth(p) \in Nat
  BY WorthOf, FS_Subset, FS_CardinalityType DEF Purse, Amount
<1>2. coins \in Enough
  OBVIOUS
<1>3. IsFiniteSet(Enough)
  <2>1. IsFiniteSet(SUBSET coins)
    BY FS_SUBSET DEF Purse
  <2>2. QED
    BY <2>1, FS_Subset
<1>4. \A p \in Enough : f[p] = 0 - Cardinality(p) /\ f[p] \in Int
  BY <1>1
<1>5. PICK p \in Enough : \A q \in Enough : f[q] <= f[p]
  <2> HIDE DEF Enough, f
  <2>1. QED
    BY <1>2, <1>3, <1>4, Topmost
<1>6. p \in SUBSET coins /\ Worth(p) >= need /\ Top(p)
  OBVIOUS
<1>7. \A q \in SUBSET coins : Worth(q) >= need /\ Top(q) => Cardinality(p) <= Cardinality(q)
  <2> SUFFICES ASSUME NEW q \in SUBSET coins, Worth(q) >= need, Top(q) PROVE Cardinality(p) <= Cardinality(q)
    OBVIOUS
  <2>1. f[q] <= f[p]
    BY <1>5
  <2>2. QED
    BY <1>1, <1>4, <1>6, <2>1
<1> HIDE DEF Enough, f
<1>8. ASSUME NEW u \in p PROVE Worth(p) - u.value < need
  <2> DEFINE g == [c \in p |-> 0 - c.value]
  <2>1. \A c \in p : c.value \in Nat /\ g[c] = 0 - c.value /\ g[c] \in Int
    BY <1>1, <1>6
  <2>2. IsFiniteSet(p) /\ p # {}
    BY <1>1, <1>6
  <2> HIDE DEF g
  <2>3. PICK m \in p : \A c \in p : g[c] <= g[m]
    BY <2>1, <2>2, Topmost
  <2>4. \A c \in p : m.value <= c.value
    BY <2>1, <2>3
  <2> DEFINE q == p \ {m}
  <2>5. q \in SUBSET coins /\ Cardinality(q) < Cardinality(p)
    BY <1>1, <1>6, FS_RemoveElement
  <2>6. Top(q)
    BY <1>6, <2>4
  <2>7. ~(Worth(q) >= need)
    BY <1>1, <1>6, <1>7, <2>5, <2>6
  <2>8. Worth(p) = m.value + Worth(q)
    BY <1>1, <1>6, WorthOf
  <2>9. Worth(q) \in Nat /\ m.value \in Nat /\ u.value \in Nat /\ m.value <= u.value
    BY <1>1, <2>1, <2>4, <2>5
  <2> HIDE DEF q
  <2>10. QED
    BY <1>8, <2>7, <2>8, <2>9
<1>9. /\ Picked(coins, need) \in SUBSET coins /\ Worth(Picked(coins, need)) >= need
  BY <1>6, <1>8 DEF Picked
<1>10. QED
  BY <1>1, <1>9

\* A payment from coins that cover it and its fee leaves change, and is worth what it says.
LEMMA PaymentGood ==
  ASSUME NEW id, NEW coins, Purse(coins), NEW to, NEW value, Amount(value), Worth(coins) >= value + CsdFee
  PROVE  GoodTx(Payment(id, coins, to, value)) /\ Payment(id, coins, to, value).id = id
<1>1. value + CsdFee \in Nat /\ CsdFee \in Nat /\ value \in Nat
  BY ScenarioAssumption DEF Amount
<1>2. /\ Worth(Picked(coins, value + CsdFee)) \in Nat
      /\ Worth(Picked(coins, value + CsdFee)) >= value + CsdFee
  BY <1>1, PickedCovers
<1> DEFINE w == Worth(Picked(coins, value + CsdFee))
<1>3. w - value - CsdFee \in Nat
  <2> HIDE DEF w
  <2>1. QED
    BY <1>1, <1>2 DEF w
<1>4. /\ Payment(id, coins, to, value).value = value /\ Payment(id, coins, to, value).id = id
      /\ Payment(id, coins, to, value).change = w - value - CsdFee
  BY DEF Payment
<1>5. QED
  BY <1>3, <1>4 DEF GoodTx

-----------------------------------------------------------------------------
(***************************************************************************)
(* Pools on show, and the small parts of the shape.                         *)
(***************************************************************************)
\* On every page ever shown, no trade at a quoted price lowers the product of a pool's
\* two sides, no round trip gains, the searches for an amount are exact and the ladder's
\* asks lie at or above its bids (csd/pool.ts): every quoted pool is one a maker can quote.
THEOREM QuotedPoolsNeverLose == Spec => []PoolNeverLoses
<1>1. MarketInv => PoolNeverLoses
  <2> SUFFICES ASSUME MarketInv PROVE PoolNeverLoses
    OBVIOUS
  <2>1. \A m \in DOMAIN tab.market.makers : \A o \in tab.market.makers[m].offers : o.pool \in Pools
    BY DEF MarketInv, PageInv, OffersInv, OfferFits
  <2>2. \A m \in DOMAIN tab.market.makers : \A o \in tab.market.makers[m].offers : PoolSound(o.pool)
    BY <2>1, PoolsAreSound
  <2>3. QED
    BY <2>2 DEF PoolNeverLoses, PoolSound
<1>2. QED
  BY <1>1, MarketIsRight, PTL

\* The amounts a scenario trades stay amounts.
LEMMA LeftShape ==
  ASSUME LeftInv, [Next]_vars
  PROVE  LeftInv'
<1>1. LeftKept
  BY LeftSteps
<1>2. DOMAIN left' = DOMAIN left /\ left'.buyAmounts = left.buyAmounts /\ left'.sellAmounts = left.sellAmounts
  BY <1>1 DEF LeftKept, LeftInv, SpendKeys
<1>3. QED
  BY <1>2 DEF LeftInv

\* A block holds only transactions the network holds.
LEMMA MinedShape ==
  ASSUME TradesInv, MinedInv, [Next]_vars
  PROVE  MinedInv'
<1>1. csdTxs \subseteq csdTxs'
  BY StepsGrow DEF ChainsGrow
<1>2. CASE mined' = mined
  BY <1>1, <1>2 DEF MinedInv
<1>3. CASE \E t \in csdTxs : MineTx(t)
  <2>1. PICK t \in csdTxs : mined' = Put(mined, t.id, clock)
    BY <1>3 DEF MineTx
  <2>2. DOMAIN mined' = DOMAIN mined \cup {t.id}
    BY <2>1 DEF Put
  <2>3. QED
    BY <1>1, <2>2 DEF MinedInv
<1>4. CASE Buy \/ Market \/ Reload \/ Tick \/ UNCHANGED vars
  BY <1>2, <1>4 DEF Buy, BuyClicked, BuyRefused, BuyPrepared, BuyPublished, BuyNotPublished,
     BuyAccepted, BuyDeclined, BuyUnanswered, Market, TimerLoads, SessionLoads, LoadReads, LoadEnds,
     Reload, Tick, vars, outsideUnchanged, csdVars
<1>5. CASE Sell
  BY <1>2, <1>5 DEF Sell, SellClicked, SellRefused, SellPrepared, SellRequested, SellFails,
     SellAccepted, SellNotAccepted, SellChecked, SellLockSeen, SellGivesUp, SellSigned, SellHanded,
     SellSubmitted, SellDone, outsideUnchanged, csdVars
<1>6. CASE ClaimAndRefund \/ Follow \/ Wallet
  BY <1>2, <1>6 DEF ClaimAndRefund, ClaimClicked, RefundClicked, ClaimMined, RefundMined, SentMined,
     Follow, FollowFailedBuy, FollowSale, FollowReceipt, WatchPayment, LateSave, Following,
     Wallet, ScanStarts, ScanEnds, SendCsd, outsideUnchanged, csdVars
<1>7. CASE MakersAct
  BY <1>2, <1>7 DEF MakersAct, PublishOffer, PublishLookalike, OthersTrade, PublishReceipt, AnswerOrder,
     LockBuy, PublishPayment, AnswerRequest, DeclineRequest, LockSale, Locking, OnAon, csdVars
<1>8. CASE ChainsAct
  BY <1>2, <1>3, <1>8 DEF ChainsAct, Broadcast, Prove, ReleaseSale, MakerRefunds, BecomesFinal, csdVars
<1>9. QED
  BY <1>4, <1>5, <1>6, <1>7, <1>8 DEF Next

\* A maker that is avoided, or remembered as proven, is a maker.
LEMMA SkippedShape ==
  ASSUME AvoidInv, "provenAt" \in DOMAIN storage, NEW m \in Makers, NEW for, storage' = Skipped(storage, m, for)
  PROVE  AvoidInv'
<1> DEFINE avoid == Over([x \in {m} |-> clock + for], storage.avoid)
           proven == [x \in DOMAIN storage.provenAt \ {m} |-> storage.provenAt[x]]
<1>1. storage' = [storage EXCEPT !.avoid = avoid, !.provenAt = proven]
  BY DEF Skipped, AvoidInv
<1>2. DOMAIN avoid = {m} \cup DOMAIN storage.avoid /\ DOMAIN proven \subseteq DOMAIN storage.provenAt
  BY DEF Over
<1> HIDE DEF avoid, proven
<1>3. DOMAIN storage' = DOMAIN storage /\ storage'.avoid = avoid /\ storage'.provenAt = proven
  BY <1>1 DEF AvoidInv
<1>4. QED
  BY <1>2, <1>3 DEF AvoidInv

LEMMA AvoidSame ==
  ASSUME AvoidInv, DOMAIN storage' = DOMAIN storage, storage'.avoid = storage.avoid,
         DOMAIN storage'.provenAt \subseteq Makers
  PROVE  AvoidInv'
  BY DEF AvoidInv

\* Every step keeps the makers that are avoided or remembered makers.
LEMMA AvoidShape ==
  ASSUME EvidenceInv, MarketInv, DealInv, AvoidInv, [Next]_vars
  PROVE  AvoidInv'
<1>1. {"hints", "provenAt", "avoid"} \subseteq DOMAIN storage /\ "market" \in DOMAIN tab
  BY DEF EvidenceInv, MarketInv, PageInv, AvoidInv
<1>2. DOMAIN storage.provenAt \subseteq Makers
  BY DEF AvoidInv
<1>3. CASE storage' = storage
  BY <1>2, <1>3, AvoidSame
<1>4. ASSUME NEW unread, LoadFinds(unread)
      PROVE  AvoidInv'
  <2>1. PICK ours, addrs : Assembled(ours, addrs)
    BY <1>1, <1>4, AssembledIs DEF LoadFinds
  <2>2. \A o \in load.out : o.maker \in Makers
    BY <1>4 DEF LoadFinds, MarketInv, LoadingInv, OffersInv, OfferFits
  <2>3. addrs \subseteq Makers
    BY <2>1, <2>2 DEF Assembled
  <2>4. /\ DOMAIN storage' = DOMAIN storage /\ storage'.avoid = storage.avoid
        /\ DOMAIN storage'.provenAt \subseteq addrs \cup DOMAIN storage.provenAt
    BY <1>1, <2>1 DEF Assembled
  <2>5. QED
    BY <1>2, <2>3, <2>4, AvoidSame
<1>5. CASE BuyPrepared \/ ScanEnds
  <2>1. \E next : storage' = [storage EXCEPT !.next = next]
    BY <1>5, Zenon DEF BuyPrepared, WithFreshKey, ScanEnds
  <2>2. PICK next : storage' = [storage EXCEPT !.next = next]
    BY <2>1
  <2>3. DOMAIN storage' = DOMAIN storage /\ storage'.avoid = storage.avoid /\ storage'.provenAt = storage.provenAt
    BY <1>1, <2>2
  <2>4. QED
    BY <1>2, <2>3, AvoidSame
<1>6. CASE BuyDeclined \/ BuyUnanswered \/ SellNotAccepted
  <2>1. CASE BuyDeclined \/ BuyUnanswered
    <3>1. \E for : storage' = Skipped(storage, session.order.maker, for)
      BY <2>1, Zenon DEF BuyDeclined, BuyUnanswered
    <3>2. session.order.maker \in Makers
      BY <2>1 DEF BuyDeclined, BuyUnanswered, DealInv
    <3>3. QED
      BY <1>1, <3>1, <3>2, SkippedShape
  <2>2. CASE SellNotAccepted
    <3>1. \E for : storage' = Skipped(storage, Head(session.makers), for)
      BY <2>2, Zenon DEF SellNotAccepted
    <3>2. Head(session.makers) \in Makers
      BY <2>2 DEF SellNotAccepted, DealInv
    <3>3. QED
      BY <1>1, <3>1, <3>2, SkippedShape
  <2>3. QED
    BY <1>6, <2>1, <2>2
<1>7. CASE Buy \/ Sell
  BY <1>3, <1>5, <1>6, <1>7 DEF Buy, BuyClicked, BuyRefused, BuyPublished, BuyNotPublished,
     BuyAccepted, Sell, SellClicked, SellRefused, SellPrepared, SellRequested, SellFails,
     SellAccepted, SellChecked, SellLockSeen, SellGivesUp, SellSigned, SellHanded, SellSubmitted, SellDone
<1>8. CASE ClaimAndRefund \/ Follow \/ Tick \/ UNCHANGED vars \/ TimerLoads \/ SessionLoads \/ LoadReads
  BY <1>3, <1>8 DEF ClaimAndRefund, ClaimClicked, RefundClicked, ClaimMined, RefundMined, SentMined,
     Follow, FollowFailedBuy, FollowSale, FollowReceipt, WatchPayment, LateSave, Following,
     Tick, vars, pageVars, TimerLoads, SessionLoads, LoadReads
<1>9. CASE Wallet \/ Reload \/ LoadEnds
  BY <1>3, <1>4, <1>5, <1>9 DEF Wallet, ScanStarts, SendCsd, Reload, LoadEnds
<1>10. CASE MakersAct \/ ChainsAct
  BY <1>3, <1>10 DEF MakersAct, PublishOffer, PublishLookalike, OthersTrade, PublishReceipt, AnswerOrder,
     LockBuy, PublishPayment, AnswerRequest, DeclineRequest, LockSale, Locking, OnAon, pageVars,
     ChainsAct, Broadcast, MineTx, Prove, ReleaseSale, MakerRefunds, BecomesFinal, CsdUnchanged
<1>11. QED
  BY <1>7, <1>8, <1>9, <1>10 DEF Next, Market

\* What a look through the addresses leaves the counter at is past what it was.
LEMMA ScanKeys ==
  ASSUME CounterInv, KeysInv, ScanEnds
  PROVE  /\ storage'.next > 0 /\ tab'.nextIndex > 0
<1> DEFINE used(looked) == {scan.next} \cup {i + 1 : i \in {i \in looked : CoinsAt(i) # {}}}
<1>1. scan.next \in Nat \ {0} /\ MaxKeys \in Nat
  BY TradesAssumption DEF ScanEnds, CounterInv, KeysInv
<1>2. ASSUME NEW looked \in SUBSET (0..(MaxKeys - 1))
      PROVE  Max(used(looked)) > 0
  <2> DEFINE S == used(looked)
  <2>1. S \in SUBSET (0..(scan.next + MaxKeys)) /\ S # {} /\ scan.next + MaxKeys \in Nat
    BY <1>1
  <2>2. \A k \in S : k > 0
    BY <1>1
  <2> HIDE DEF S
  <2>3. \E m \in S : \A k \in S : m >= k
    BY <2>1, Largest
  <2>4. Max(S) \in S
    BY <2>3 DEF Max
  <2>5. Max(S) > 0
    BY <2>2, <2>4
  <2>6. QED
    BY <2>5 DEF S
<1>3. QED
  BY <1>1, <1>2 DEF ScanEnds, CounterInv, KeysInv

\* Every step keeps the counter of addresses above the change address.
LEMMA KeysShape ==
  ASSUME TradesInv, MarketInv, EvidenceInv, KeysInv, [Next]_vars
  PROVE  KeysInv'
<1>0. CounterInv /\ {"next", "provenAt", "hints"} \subseteq DOMAIN storage /\ {"nextIndex", "market"} \subseteq DOMAIN tab
  BY DEF TradesInv, CounterInv, EvidenceInv, MarketInv, PageInv
<1>1. CASE storage'.next = storage.next /\ tab'.nextIndex = tab.nextIndex /\ scan' = scan
  BY <1>1 DEF KeysInv
<1>2. CASE LoadEnds
  <2>1. CASE UNCHANGED <<storage, tab>>
    BY <1>1, <1>2, <2>1 DEF LoadEnds
  <2>2. ASSUME NEW unread, LoadFinds(unread)
        PROVE  storage'.next = storage.next /\ tab'.nextIndex = tab.nextIndex
    <3>1. PICK ours, addrs : Assembled(ours, addrs)
      BY <1>0, <2>2, AssembledIs DEF LoadFinds
    <3>2. QED
      BY <1>0, <3>1 DEF Assembled
  <2>3. QED
    BY <1>1, <1>2, <2>1, <2>2 DEF LoadEnds
<1>3. CASE BuyPrepared
  <2>1. FreshKeyIndex \in Nat
    BY <1>0, FreshKeyNat
  <2> DEFINE i == FreshKeyIndex + 1
  <2>2. storage' = [storage EXCEPT !.next = i] /\ tab' = [tab EXCEPT !.nextIndex = i] /\ scan' = scan
    BY <1>3 DEF BuyPrepared, WithFreshKey, pageUnchanged
  <2>3. i \in Nat /\ i > 0
    BY <2>1
  <2> HIDE DEF i
  <2>4. storage'.next = i /\ tab'.nextIndex = i
    BY <1>0, <2>2
  <2>5. QED
    BY <2>2, <2>3, <2>4 DEF KeysInv
<1>4. CASE ScanEnds
  <2>1. scan' = Idle
    BY <1>4 DEF ScanEnds
  <2>2. QED
    BY <1>0, <1>4, <2>1, ScanKeys DEF KeysInv, Idle
<1>5. CASE ScanStarts
  BY <1>5 DEF ScanStarts, KeysInv
<1>6. CASE Reload
  BY <1>6 DEF Reload, KeysInv, NewTab, Idle
<1>7. CASE (\E v \in left.sellAmounts : SendCsd(v)) \/ SellSubmitted
  <2>1. (\E coins : tab' = [tab EXCEPT !.coins = coins]) /\ storage' = storage /\ scan' = scan
    BY <1>7 DEF SendCsd, SellSubmitted, pageUnchanged
  <2>2. tab'.nextIndex = tab.nextIndex
    BY <1>0, <2>1
  <2>3. QED
    BY <1>1, <2>1, <2>2
<1>8. CASE BuyDeclined \/ BuyUnanswered \/ SellNotAccepted
  <2>1. \E m, for : storage' = Skipped(storage, m, for) /\ tab' = tab /\ scan' = scan
    BY <1>8, Zenon DEF BuyDeclined, BuyUnanswered, SellNotAccepted, pageUnchanged
  <2>2. storage'.next = storage.next
    BY <1>0, <2>1 DEF Skipped
  <2>3. QED
    BY <1>1, <2>1, <2>2
<1>9. CASE UNCHANGED <<storage, tab, scan>>
  BY <1>1, <1>9
<1>10. CASE Buy \/ Sell
  BY <1>3, <1>7, <1>8, <1>9, <1>10 DEF Buy, BuyClicked, BuyRefused, BuyPublished, BuyNotPublished,
     BuyAccepted, Sell, SellClicked, SellRefused, SellPrepared, SellRequested, SellFails,
     SellAccepted, SellChecked, SellLockSeen, SellGivesUp, SellSigned, SellHanded, SellDone, pageUnchanged
<1>11. CASE ClaimAndRefund \/ Follow \/ Tick \/ UNCHANGED vars \/ TimerLoads \/ SessionLoads \/ LoadReads
  BY <1>9, <1>11 DEF ClaimAndRefund, ClaimClicked, RefundClicked, ClaimMined, RefundMined, SentMined,
     Follow, FollowFailedBuy, FollowSale, FollowReceipt, WatchPayment, LateSave, Following,
     Tick, vars, pageVars, pageUnchanged, TimerLoads, SessionLoads, LoadReads
<1>12. CASE MakersAct \/ ChainsAct
  BY <1>9, <1>12 DEF MakersAct, PublishOffer, PublishLookalike, OthersTrade, PublishReceipt, AnswerOrder,
     LockBuy, PublishPayment, AnswerRequest, DeclineRequest, LockSale, Locking, OnAon, pageVars,
     ChainsAct, Broadcast, MineTx, Prove, ReleaseSale, MakerRefunds, BecomesFinal, CsdUnchanged
<1>13. QED
  BY <1>2, <1>4, <1>5, <1>6, <1>7, <1>10, <1>11, <1>12 DEF Next, Market, Wallet

-----------------------------------------------------------------------------
(***************************************************************************)
(* Trades keep a status and payments.                                       *)
(***************************************************************************)
\* Trades stay good when coins arrive, when one is saved, and when one is edited.
LEMMA EditedGood ==
  ASSUME NEW t, TradeGood(t), NEW u, DOMAIN u = DOMAIN t, u.side = t.side, u.status \in Statuses,
         t.side = "sell" => u.tx = t.tx
  PROVE  TradeGood(u)
  BY DEF TradeGood, TradeShape

\* Coins that arrive change a status only.
LEMMA ArrivedGood ==
  ASSUME NEW ts, \A h \in DOMAIN ts : TradeGood(ts[h]), NEW coins
  PROVE  \A h \in DOMAIN Arrived(ts, coins) : TradeGood(Arrived(ts, coins)[h])
<1> SUFFICES ASSUME NEW h \in DOMAIN ts PROVE TradeGood(Arrived(ts, coins)[h])
  BY DEF Arrived
<1>1. Arrived(ts, coins)[h] = ts[h] \/ Arrived(ts, coins)[h] = [ts[h] EXCEPT !.status = "done"]
  BY DEF Arrived
<1>2. {"status", "side"} \subseteq DOMAIN ts[h] /\ (ts[h].side = "sell" => "tx" \in DOMAIN ts[h])
  BY DEF TradeGood, TradeShape, BuyFields, SaleFields
<1> DEFINE u == [ts[h] EXCEPT !.status = "done"]
<1>3. /\ DOMAIN u = DOMAIN ts[h] /\ u.side = ts[h].side /\ u.status \in Statuses
      /\ ts[h].side = "sell" => u.tx = ts[h].tx
  BY <1>2 DEF Statuses
<1> HIDE DEF u
<1>4. TradeGood(u)
  BY <1>3, EditedGood
<1>5. QED
  BY <1>1, <1>4 DEF u

\* A good trade can be saved.
LEMMA SavedGood ==
  ASSUME \A x \in DOMAIN mine : TradeGood(mine[x]), NEW h, NEW t, TradeGood(t), NEW coins,
         mine' = Arrived(Put(mine, h, t), coins)
  PROVE  \A x \in DOMAIN mine' : TradeGood(mine'[x])
<1> DEFINE ts == Put(mine, h, t)
<1>1. \A x \in DOMAIN ts : TradeGood(ts[x])
  BY DEF Put
<1> HIDE DEF ts
<1>2. QED
  BY <1>1, ArrivedGood DEF ts

\* What remains to be shown of a step that saves a trade, or none.
LEMMA GoodAfter ==
  ASSUME TradesGood, \A x \in DOMAIN mine' : TradeGood(mine'[x]),
         late' = late \/ late'.pc # "saving",
         session' = session \/ session'.pc \notin {"buyAnswer", "claimSent", "refundSent"}
  PROVE  TradesGood'
  BY DEF TradesGood

\* A step that saves one good trade.
LEMMA GoodSaved ==
  ASSUME TradesGood, NEW h, NEW t, TradeGood(t), NEW coins, mine' = Arrived(Put(mine, h, t), coins),
         late' = late \/ late'.pc # "saving",
         session' = session \/ session'.pc \notin {"buyAnswer", "claimSent", "refundSent"}
  PROVE  TradesGood'
<1>1. \A x \in DOMAIN mine : TradeGood(mine[x])
  BY DEF TradesGood
<1>2. \A x \in DOMAIN mine' : TradeGood(mine'[x])
  BY <1>1, SavedGood
<1>3. QED
  BY <1>2, GoodAfter

\* A step that saves none.
LEMMA GoodSame ==
  ASSUME TradesGood, mine' = mine, late' = late \/ late'.pc # "saving",
         session' = session \/ session'.pc \notin {"buyAnswer", "claimSent", "refundSent"}
  PROVE  TradesGood'
  BY DEF TradesGood

\* The trades a buy saves.
LEMMA BuyTrades ==
  ASSUME TradesInv, TradesGood, Buy
  PROVE  TradesGood'
<1>1. late' = late
  BY DEF Buy, BuyClicked, BuyRefused, BuyPrepared, BuyPublished, BuyNotPublished,
     BuyAccepted, BuyDeclined, BuyUnanswered, pageUnchanged
<1>2. CASE BuyPublished
  <2>1. PICK o, t : /\ t = BuyTradeOf(o) /\ mine' = Arrived(Put(mine, o.hash, t), tab.coins)
                    /\ session' = [pc |-> "buyAnswer", order |-> o, trade |-> t]
    BY <1>2 DEF BuyPublished, Saved
  <2>2. TradeGood(t)
    BY <2>1 DEF BuyTradeOf, TradeGood, TradeShape, BuyFields, Statuses
  <2>3. \A x \in DOMAIN mine' : TradeGood(mine'[x])
    BY <2>1, <2>2, SavedGood DEF TradesGood
  <2>4. session'.trade = t
    BY <2>1
  <2>5. QED
    BY <1>1, <2>2, <2>3, <2>4 DEF TradesGood
<1>3. CASE BuyAccepted
  <2>1. PICK h, t : /\ t = [session.trade EXCEPT !.lockTx = TRUE] /\ mine' = Arrived(Put(mine, h, t), tab.coins)
                    /\ session' = Idle
    BY <1>3 DEF BuyAccepted, Saved
  <2>2. TradeGood(session.trade)
    BY <1>3 DEF BuyAccepted, TradesGood
  <2>3. DOMAIN t = DOMAIN session.trade /\ t.side = session.trade.side /\ t.status = session.trade.status
        /\ (session.trade.side = "sell" => t.tx = session.trade.tx)
    BY <2>1, <2>2 DEF TradeGood, TradeShape, BuyFields, SaleFields
  <2>4. TradeGood(t)
    BY <2>2, <2>3, EditedGood DEF TradeGood
  <2>5. QED
    BY <1>1, <2>1, <2>4, GoodSaved DEF Idle
<1>4. CASE BuyDeclined
  <2>1. PICK h, t : /\ t = [session.trade EXCEPT !.status = "failed"] /\ mine' = Arrived(Put(mine, h, t), tab.coins)
                    /\ session' = Idle
    BY <1>4 DEF BuyDeclined, Saved
  <2>2. TradeGood(session.trade)
    BY <1>4 DEF BuyDeclined, TradesGood
  <2>3. DOMAIN t = DOMAIN session.trade /\ t.side = session.trade.side /\ t.status \in Statuses
        /\ (session.trade.side = "sell" => t.tx = session.trade.tx)
    BY <2>1, <2>2 DEF TradeGood, TradeShape, BuyFields, SaleFields, Statuses
  <2>4. TradeGood(t)
    BY <2>2, <2>3, EditedGood
  <2>5. QED
    BY <1>1, <2>1, <2>4, GoodSaved DEF Idle
<1>5. CASE BuyUnanswered \/ BuyRefused \/ BuyPrepared \/ BuyNotPublished \/ \E csd \in left.buyAmounts : BuyClicked(csd)
  <2>1. mine' = mine /\ session'.pc \notin {"buyAnswer", "claimSent", "refundSent"}
    BY <1>5 DEF BuyClicked, BuyRefused, BuyPrepared, BuyNotPublished, BuyUnanswered, Idle
  <2>2. QED
    BY <1>1, <2>1, GoodSame
<1>6. QED
  BY <1>2, <1>3, <1>4, <1>5 DEF Buy

\* A sale's trade holds the payment it is given.
LEMMA SaleTradeGood ==
  ASSUME NEW a, NEW S, NEW released, NEW status \in Statuses, \A u \in S : GoodTx(u)
  PROVE  TradeGood(SaleTrade(a, S, released, status))
<1> DEFINE t == SaleTrade(a, S, released, status)
<1>1. t.side = "sell" /\ DOMAIN t = SaleFields /\ t.status = status /\ t.tx = S
  BY DEF SaleTrade, SaleFields
<1> HIDE DEF t
<1>2. TradeGood(t)
  BY <1>1 DEF TradeGood, TradeShape
<1>3. QED
  BY <1>2 DEF t

\* The trades a sale saves.
LEMMA SellTrades ==
  ASSUME TradesInv, TradesGood, DealInv, Sell
  PROVE  TradesGood'
<1>1. late' = late /\ session'.pc \notin {"buyAnswer", "claimSent", "refundSent"}
  BY SellPcs DEF Sell, SellClicked, SellRefused, SellPrepared, SellRequested, SellFails, SellAccepted,
     SellNotAccepted, SellChecked, SellLockSeen, SellGivesUp, SellSigned, SellHanded, SellSubmitted,
     SellDone, pageUnchanged
<1>2. CASE mine' = mine
  BY <1>1, <1>2, GoodSame
<1>3. CASE SellChecked
  <2>1. CASE AnswerGood(session.answer)
    <3>1. PICK h, t : /\ t = SaleTrade(session.answer, NotPaid, FALSE, "pending")
                      /\ mine' = Arrived(Put(mine, h, t), tab.coins)
      BY <1>3, <2>1 DEF SellChecked, Saved
    <3>2. TradeGood(t)
      BY <3>1, SaleTradeGood DEF NotPaid, Statuses
    <3>3. QED
      BY <1>1, <3>1, <3>2, GoodSaved
  <2>2. QED
    BY <1>2, <1>3, <2>1 DEF SellChecked
<1>4. CASE SellSigned
  <2>1. PICK h, u, t : /\ u = Payment(serial, session.coins, SaleAddr(h), session.csd)
                       /\ t = SaleTrade(session.answer, {u}, FALSE, "pending")
                       /\ mine' = Arrived(Put(mine, h, t), tab.coins)
    BY <1>4 DEF SellSigned, Saved
  <2>2. Amount(session.csd) /\ Purse(session.coins) /\ Worth(session.coins) >= session.csd + CsdFee
    BY <1>4 DEF SellSigned, DealInv, Selling
  <2>3. GoodTx(u)
    BY <2>1, <2>2, PaymentGood
  <2>4. TradeGood(t)
    BY <2>1, <2>3, SaleTradeGood DEF Statuses
  <2>5. QED
    BY <1>1, <2>1, <2>4, GoodSaved
<1>5. CASE SellSubmitted \/ SellDone
  <2>1. GoodTx(session.tx)
    BY <1>5 DEF SellSubmitted, SellDone, DealInv
  <2>2. mine' = mine \/ \E h, t, released, status, coins :
           /\ status \in Statuses /\ t = SaleTrade(session.answer, {session.tx}, released, status)
           /\ mine' = Arrived(Put(mine, h, t), coins)
    BY <1>5 DEF SellSubmitted, SellDone, Saved, Statuses
  <2>3. ASSUME NEW h, NEW t, NEW released, NEW status \in Statuses, NEW coins,
               t = SaleTrade(session.answer, {session.tx}, released, status),
               mine' = Arrived(Put(mine, h, t), coins)
        PROVE  TradesGood'
    <3>1. TradeGood(t)
      BY <2>1, <2>3, SaleTradeGood
    <3>2. QED
      BY <1>1, <2>3, <3>1, GoodSaved
  <2>4. QED
    BY <1>2, <2>2, <2>3
<1>6. QED
  BY <1>2, <1>3, <1>4, <1>5 DEF Sell, SellClicked, SellRefused, SellPrepared, SellRequested, SellFails,
     SellAccepted, SellNotAccepted, SellLockSeen, SellGivesUp, SellHanded

\* Claims, refunds and the loops save copies of trades they read.
LEMMA FollowedTrades ==
  ASSUME TradesInv, TradesGood, ClaimAndRefund \/ Follow
  PROVE  TradesGood'
<1>1. ASSUME NEW h \in DOMAIN mine, ClaimClicked(h) \/ RefundClicked(h)
      PROVE  TradesGood'
  <2>1. mine' = mine /\ late' = late
    BY <1>1 DEF ClaimClicked, RefundClicked, pageUnchanged
  <2>2. session'.pc \in {"claimSent", "refundSent"} => session'.trade = mine[h]
    BY <1>1 DEF ClaimClicked, RefundClicked, Idle
  <2>3. session'.pc # "buyAnswer"
    BY <1>1 DEF ClaimClicked, RefundClicked, Idle
  <2>4. QED
    BY <2>1, <2>2, <2>3 DEF TradesGood
<1>2. ASSUME NEW pc \in {"claimSent", "refundSent"}, NEW state, NEW status \in Statuses, SentMined(pc, state, status)
      PROVE  TradesGood'
  <2>0. CASE mine' = mine
    BY <1>2, <2>0 DEF SentMined, TradesGood, Idle, pageUnchanged
  <2>1. PICK h, t : /\ t = [session.trade EXCEPT !.status = status, !.releaseTx = TRUE]
                    /\ mine' = mine \/ mine' = Arrived(Put(mine, h, t), tab.coins)
    BY <1>2 DEF SentMined, Saved
  <2>2. TradeGood(session.trade)
    BY <1>2 DEF SentMined, TradesGood
  <2>3. DOMAIN t = DOMAIN session.trade /\ t.side = session.trade.side /\ t.status \in Statuses
        /\ (session.trade.side = "sell" => t.tx = session.trade.tx)
    BY <2>1, <2>2 DEF TradeGood, TradeShape, BuyFields, SaleFields
  <2>4. TradeGood(t)
    BY <2>2, <2>3, EditedGood
  <2>5. late' = late /\ session' = Idle
    BY <1>2 DEF SentMined, pageUnchanged
  <2>6. QED
    BY <2>0, <2>1, <2>4, <2>5, GoodSaved DEF Idle
<1>3. ASSUME NEW h \in DOMAIN mine, NEW t, TradeGood(t), Following(h, t)
      PROVE  TradesGood'
  <2>1. late' = [pc |-> "saving", hash |-> h, trade |-> t] /\ mine' = mine /\ session' = session
    BY <1>3 DEF Following
  <2>2. late'.trade = t
    BY <2>1
  <2>3. QED
    BY <1>3, <2>1, <2>2 DEF TradesGood
<1>4. ASSUME NEW h \in DOMAIN mine, FollowFailedBuy(h) \/ FollowSale(h) \/ FollowReceipt(h) \/ WatchPayment(h)
      PROVE  TradesGood'
  <2>1. PICK t : t = mine[h]
    OBVIOUS
  <2>2. TradeGood(t) /\ {"status", "side"} \subseteq DOMAIN t /\ (t.side = "sell" => "tx" \in DOMAIN t)
    BY <2>1 DEF TradesGood, TradeGood, TradeShape, BuyFields, SaleFields
  <2>3. PICK u : /\ Following(h, u)
                 /\ \/ \E until : u = [t EXCEPT !.status = "pending", !.lockedUntil = until]
                    \/ u = [t EXCEPT !.status = "done"]
                    \/ u = [t EXCEPT !.receipt = TRUE]
                    \/ u = [t EXCEPT !.unconfirmed = TRUE]
    BY <1>4, <2>1 DEF FollowFailedBuy, FollowSale, FollowReceipt, WatchPayment
  <2>4. DOMAIN u = DOMAIN t /\ u.side = t.side /\ u.status \in Statuses /\ (t.side = "sell" => u.tx = t.tx)
    <3>0. t.status \in Statuses /\ {"pending", "done"} \subseteq Statuses
      BY <2>2 DEF TradeGood, Statuses
    <3>1. ASSUME NEW until, u = [t EXCEPT !.status = "pending", !.lockedUntil = until]
          PROVE  DOMAIN u = DOMAIN t /\ u.side = t.side /\ u.status \in Statuses /\ (t.side = "sell" => u.tx = t.tx)
      BY <2>2, <3>0, <3>1
    <3>2. CASE u = [t EXCEPT !.status = "done"]
      BY <2>2, <3>0, <3>2
    <3>3. CASE u = [t EXCEPT !.receipt = TRUE] \/ u = [t EXCEPT !.unconfirmed = TRUE]
      BY <2>2, <3>0, <3>3
    <3>4. QED
      BY <2>3, <3>1, <3>2, <3>3
  <2>5. TradeGood(u)
    BY <2>2, <2>4, EditedGood
  <2>6. QED
    BY <1>3, <2>3, <2>5
<1>5. CASE LateSave
  <2>1. TradeGood(late.trade)
    BY <1>5 DEF LateSave, TradesGood
  <2>2. PICK h, t : t = late.trade /\ mine' = Arrived(Put(mine, h, t), tab.coins)
    BY <1>5 DEF LateSave, Saved
  <2>3. late'.pc # "saving" /\ session' = session
    BY <1>5 DEF LateSave, Idle
  <2>4. QED
    BY <2>1, <2>2, <2>3, GoodSaved
<1>6. QED
  BY <1>1, <1>2, <1>4, <1>5 DEF ClaimAndRefund, ClaimMined, RefundMined, Follow, Statuses

\* Every step keeps the trades good.
LEMMA TradesShape ==
  ASSUME TradesInv, TradesGood, DealInv, [Next]_vars
  PROVE  TradesGood'
<1>1. CASE LoadEnds
  <2>1. "pc" \in DOMAIN session /\ mine' = mine /\ late' = late
    BY <1>1 DEF TradesInv, SessionInv, LoadEnds
  <2>2. session' = session \/ session'.pc \notin {"buyAnswer", "claimSent", "refundSent"}
    BY <1>1, <2>1 DEF LoadEnds, Goto, Idle
  <2>3. QED
    BY <2>1, <2>2, GoodSame
<1>2. CASE ScanEnds
  <2>1. PICK coins : mine' = Arrived(mine, coins)
    BY <1>2, Zenon DEF ScanEnds
  <2>2. \A h \in DOMAIN mine : TradeGood(mine[h])
    BY DEF TradesGood
  <2>3. \A h \in DOMAIN mine' : TradeGood(mine'[h])
    BY <2>1, <2>2, ArrivedGood
  <2>4. QED
    BY <1>2, <2>3, GoodAfter DEF ScanEnds
<1>3. CASE Reload
  BY <1>3, GoodSame DEF Reload, Idle
<1>4. CASE UNCHANGED <<mine, late, session>>
  BY <1>4, GoodSame
<1>5. CASE TimerLoads \/ SessionLoads \/ LoadReads \/ Tick \/ UNCHANGED vars \/ ScanStarts
           \/ \E v \in left.sellAmounts : SendCsd(v)
  BY <1>4, <1>5 DEF TimerLoads, SessionLoads, LoadReads, Tick, vars, pageVars, ScanStarts, SendCsd
<1>6. CASE MakersAct \/ ChainsAct
  BY <1>4, <1>6 DEF MakersAct, PublishOffer, PublishLookalike, OthersTrade, PublishReceipt, AnswerOrder,
     LockBuy, PublishPayment, AnswerRequest, DeclineRequest, LockSale, Locking, OnAon, pageVars,
     ChainsAct, Broadcast, MineTx, Prove, ReleaseSale, MakerRefunds, BecomesFinal, CsdUnchanged
<1>7. QED
  BY <1>1, <1>2, <1>3, <1>5, <1>6, BuyTrades, SellTrades, FollowedTrades DEF Next, Market, Wallet

-----------------------------------------------------------------------------
(***************************************************************************)
(* Coins, transactions, orders and payments are of amounts.                 *)
(***************************************************************************)
\* Coins are outputs of transactions, so they are finitely many and worth something.
AllOutputs == UNION {Outputs(t) : t \in csdTxs}
LEMMA OutputsFinite ==
  ASSUME FundsInv
  PROVE  Purse(AllOutputs)
<1> DEFINE paid == [t \in csdTxs |-> [tx |-> t.id, key |-> t.to, value |-> t.value]]
           back == [t \in csdTxs |-> [tx |-> t.id, key |-> 0, value |-> t.change]]
           A == {paid[t] : t \in csdTxs}
           B == {back[t] : t \in csdTxs}
<1>1. IsFiniteSet(csdTxs) /\ \A t \in csdTxs : GoodTx(t)
  BY DEF FundsInv
<1>2. IsFiniteSet(A) /\ IsFiniteSet(B)
  <2>1. \A y \in A : \E t \in csdTxs : y = paid[t]
    OBVIOUS
  <2>2. \A y \in B : \E t \in csdTxs : y = back[t]
    OBVIOUS
  <2> HIDE DEF A, B, paid, back
  <2>3. QED
    BY <1>1, <2>1, <2>2, ImageFinite
<1>3. \A t \in csdTxs : Outputs(t) \subseteq A \cup B
  BY DEF Outputs
<1>4. AllOutputs \subseteq A \cup B
  BY <1>3 DEF AllOutputs
<1>5. IsFiniteSet(AllOutputs)
  <2> HIDE DEF A, B
  <2>1. IsFiniteSet(A \cup B)
    BY <1>2, FS_Union
  <2>2. QED
    BY <1>4, <2>1, FS_Subset
<1>6. ASSUME NEW t \in csdTxs, NEW c \in Outputs(t) PROVE Amount(c.value)
  BY <1>1 DEF Outputs, GoodTx, Amount
<1>7. QED
  BY <1>5, <1>6 DEF Purse, AllOutputs

\* Some of the coins are coins.
LEMMA PurseSubset ==
  ASSUME NEW coins, Purse(coins), NEW S \in SUBSET coins
  PROVE  Purse(S)
  BY FS_Subset DEF Purse

\* The wallet's coins after a step.
LEMMA CoinsShape ==
  ASSUME MarketInv, EvidenceInv, FundsInv, [Next]_vars
  PROVE  "coins" \in DOMAIN tab' /\ Purse(tab'.coins)
<1>0. {"hints", "provenAt"} \subseteq DOMAIN storage /\ {"coins", "market"} \subseteq DOMAIN tab
  BY DEF EvidenceInv, MarketInv, PageInv, FundsInv
<1>1. Purse(tab.coins)
  BY DEF FundsInv
<1>2. CASE tab' = tab
  BY <1>0, <1>1, <1>2
<1>3. ASSUME NEW unread, LoadFinds(unread)
      PROVE  "coins" \in DOMAIN tab' /\ Purse(tab'.coins)
  <2>1. PICK ours, addrs : Assembled(ours, addrs)
    BY <1>0, <1>3, AssembledIs DEF LoadFinds
  <2>2. DOMAIN tab' = DOMAIN tab /\ tab'.coins = tab.coins
    BY <1>0, <2>1 DEF Assembled
  <2>3. QED
    BY <1>0, <1>1, <2>2
<1>4. CASE BuyPrepared
  <2>1. \E i : tab' = [tab EXCEPT !.nextIndex = i]
    BY <1>4 DEF BuyPrepared
  <2>2. DOMAIN tab' = DOMAIN tab /\ tab'.coins = tab.coins
    BY <1>0, <2>1
  <2>3. QED
    BY <1>0, <1>1, <2>2
<1>5. CASE ScanEnds
  <2>1. \A i : CoinsAt(i) \subseteq AllOutputs
    BY DEF CoinsAt, ConfirmedCoins, AllOutputs
  <2>2. PICK S, index : tab' = [tab EXCEPT !.coins = UNION {CoinsAt(i) : i \in S}, !.deep = TRUE, !.nextIndex = index]
    BY <1>5, Zenon DEF ScanEnds
  <2>3. PICK coins : coins = UNION {CoinsAt(i) : i \in S}
    OBVIOUS
  <2>4. coins \in SUBSET AllOutputs
    BY <2>1, <2>3
  <2>5. tab' = [tab EXCEPT !.coins = coins, !.deep = TRUE, !.nextIndex = index]
    BY <2>2, <2>3
  <2>6. DOMAIN tab' = DOMAIN tab /\ tab'.coins = coins
    BY <1>0, <2>5
  <2>7. Purse(AllOutputs)
    BY OutputsFinite
  <2>8. Purse(coins)
    BY <2>4, <2>7, PurseSubset
  <2>9. QED
    BY <1>0, <2>6, <2>8
<1>6. CASE (\E v \in left.sellAmounts : SendCsd(v)) \/ SellSubmitted
  <2>1. PICK coins \in SUBSET tab.coins : tab' = [tab EXCEPT !.coins = coins]
    <3>1. CASE \E v \in left.sellAmounts : SendCsd(v)
      BY <3>1 DEF SendCsd
    <3>2. CASE SellSubmitted
      BY <3>2 DEF SellSubmitted
    <3>3. QED
      BY <1>6, <3>1, <3>2
  <2>2. DOMAIN tab' = DOMAIN tab /\ tab'.coins = coins
    BY <1>0, <2>1
  <2>3. QED
    BY <1>0, <1>1, <2>1, <2>2, PurseSubset
<1>7. CASE Reload
  <2>1. tab' = NewTab(storage.next)
    BY <1>7 DEF Reload
  <2>2. "coins" \in DOMAIN tab' /\ tab'.coins = {}
    BY <2>1 DEF NewTab
  <2>3. QED
    BY <2>2, FS_EmptySet DEF Purse
<1>8. CASE Buy \/ Sell
  BY <1>2, <1>4, <1>6, <1>8 DEF Buy, BuyClicked, BuyRefused, BuyPublished, BuyNotPublished,
     BuyAccepted, BuyDeclined, BuyUnanswered, Sell, SellClicked, SellRefused, SellPrepared, SellRequested,
     SellFails, SellAccepted, SellNotAccepted, SellChecked, SellLockSeen, SellGivesUp, SellSigned,
     SellHanded, SellDone
<1>9. CASE ClaimAndRefund \/ Follow \/ Tick \/ UNCHANGED vars \/ TimerLoads \/ SessionLoads \/ LoadReads
  BY <1>2, <1>9 DEF ClaimAndRefund, ClaimClicked, RefundClicked, ClaimMined, RefundMined, SentMined,
     Follow, FollowFailedBuy, FollowSale, FollowReceipt, WatchPayment, LateSave, Following,
     Tick, vars, pageVars, TimerLoads, SessionLoads, LoadReads
<1>10. CASE Wallet \/ LoadEnds
  BY <1>2, <1>3, <1>5, <1>6, <1>10 DEF Wallet, ScanStarts, LoadEnds
<1>11. CASE MakersAct \/ ChainsAct
  BY <1>2, <1>11 DEF MakersAct, PublishOffer, PublishLookalike, OthersTrade, PublishReceipt, AnswerOrder,
     LockBuy, PublishPayment, AnswerRequest, DeclineRequest, LockSale, Locking, OnAon, pageVars,
     ChainsAct, Broadcast, MineTx, Prove, ReleaseSale, MakerRefunds, BecomesFinal, CsdUnchanged
<1>12. QED
  BY <1>7, <1>8, <1>9, <1>10, <1>11 DEF Next, Market

\* What the network holds after a step is what it held, and perhaps one good transaction more.
TxsGrow == \E t : GoodTx(t) /\ csdTxs' \in {csdTxs, csdTxs \cup {t}}
\* Every step adds at most one transaction, and a good one.
LEMMA TxsStep ==
  ASSUME TradesInv, TradesGood, LeftInv, DealInv, FundsInv, [Next]_vars
  PROVE  csdTxs' = csdTxs \/ TxsGrow
<1>1. ASSUME NEW t, GoodTx(t), csdTxs' = csdTxs \/ csdTxs' = csdTxs \cup {t} \/ csdTxs' = Submitted(t)
      PROVE  TxsGrow
  BY <1>1 DEF TxsGrow, Submitted
<1>2. ASSUME NEW v \in left.sellAmounts, SendCsd(v)
      PROVE  TxsGrow
  <2>1. PICK t, to : t = Payment(serial, tab.coins, to, v) /\ csdTxs' = csdTxs \cup {t}
    BY <1>2 DEF SendCsd
  <2>2. Amount(v) /\ Purse(tab.coins) /\ Worth(tab.coins) >= v + CsdFee
    BY <1>2 DEF SendCsd, LeftInv, FundsInv, Amount
  <2>3. GoodTx(t)
    BY <2>1, <2>2, PaymentGood
  <2>4. QED
    BY <1>1, <2>1, <2>3
<1>3. CASE SellSubmitted
  BY <1>1, <1>3 DEF SellSubmitted, DealInv
<1>4. ASSUME NEW h \in DOMAIN mine, ClaimClicked(h)
      PROVE  TxsGrow
  <2>1. PICK t \in mine[h].tx : csdTxs' = Submitted(t)
    BY <1>4 DEF ClaimClicked
  <2>2. GoodTx(t)
    BY <1>4, <2>1 DEF ClaimClicked, ClaimOffered, TradesGood, TradeGood
  <2>3. QED
    BY <1>1, <2>1, <2>2
<1>5. ASSUME NEW h \in DOMAIN mine, WatchPayment(h)
      PROVE  TxsGrow
  <2>1. PICK p \in payments : csdTxs' = Submitted(p.tx)
    BY <1>5 DEF WatchPayment, BuyPayments
  <2>2. QED
    BY <1>1, <2>1 DEF FundsInv
<1>6. ASSUME NEW p \in payments, Broadcast(p)
      PROVE  TxsGrow
  BY <1>1, <1>6 DEF Broadcast, FundsInv
<1>7. CASE Buy \/ Market \/ Reload \/ Tick \/ UNCHANGED vars
  BY <1>7 DEF Buy, BuyClicked, BuyRefused, BuyPrepared, BuyPublished, BuyNotPublished,
     BuyAccepted, BuyDeclined, BuyUnanswered, Market, TimerLoads, SessionLoads, LoadReads, LoadEnds,
     Reload, Tick, vars, outsideUnchanged, csdVars
<1>8. CASE Sell
  BY <1>3, <1>8 DEF Sell, SellClicked, SellRefused, SellPrepared, SellRequested, SellFails,
     SellAccepted, SellNotAccepted, SellChecked, SellLockSeen, SellGivesUp, SellSigned, SellHanded,
     SellDone, outsideUnchanged, csdVars
<1>9. CASE ClaimAndRefund
  BY <1>4, <1>9 DEF ClaimAndRefund, RefundClicked, ClaimMined, RefundMined, SentMined, outsideUnchanged, csdVars
<1>10. CASE Follow \/ Wallet
  BY <1>2, <1>5, <1>10 DEF Follow, FollowFailedBuy, FollowSale, FollowReceipt, LateSave, Following,
     Wallet, ScanStarts, ScanEnds, csdVars
<1>11. CASE MakersAct
  BY <1>11 DEF MakersAct, PublishOffer, PublishLookalike, OthersTrade, PublishReceipt, AnswerOrder,
     LockBuy, PublishPayment, AnswerRequest, DeclineRequest, LockSale, Locking, OnAon, csdVars
<1>12. CASE ChainsAct
  BY <1>6, <1>12 DEF ChainsAct, MineTx, Prove, ReleaseSale, MakerRefunds, BecomesFinal, csdVars
<1>13. QED
  BY <1>7, <1>8, <1>9, <1>10, <1>11, <1>12 DEF Next

\* Orders and payments are for amounts.
LEMMA OrdersStep ==
  ASSUME DealInv, FundsInv, [Next]_vars
  PROVE  (\A o \in orders' : Amount(o.csd)) /\ (\A p \in payments' : GoodTx(p.tx))
<1>0. (\A o \in orders : Amount(o.csd)) /\ (\A p \in payments : GoodTx(p.tx))
  BY DEF FundsInv
<1>1. CASE UNCHANGED <<orders, payments>>
  BY <1>0, <1>1
<1>2. ASSUME session.pc = "buyPut", payments' = payments, orders' \in {orders, orders \cup {session.order}}
      PROVE  (\A o \in orders' : Amount(o.csd)) /\ (\A p \in payments' : GoodTx(p.tx))
  BY <1>0, <1>2 DEF DealInv
<1>3. ASSUME NEW o \in orders, PublishPayment(o)
      PROVE  (\A x \in orders' : Amount(x.csd)) /\ (\A p \in payments' : GoodTx(p.tx))
  <2>1. PICK value \in {o.csd, o.csd - 1} \ {0}, to \in {o.addr, SomebodyElse} :
          payments' = payments \cup
            {[id |-> serial, signer |-> o.maker, at |-> clock, hash |-> o.hash, refers |-> o.id,
              tx |-> [id |-> serial, ins |-> {}, to |-> to, value |-> value, change |-> 0]]}
    BY <1>3, Zenon DEF PublishPayment
  <2>2. PICK p : p = [id |-> serial, signer |-> o.maker, at |-> clock, hash |-> o.hash, refers |-> o.id,
                      tx |-> [id |-> serial, ins |-> {}, to |-> to, value |-> value, change |-> 0]]
    OBVIOUS
  <2>3. p.tx.value = value /\ p.tx.change = 0 /\ payments' = payments \cup {p} /\ orders' = orders
    BY <1>3, <2>1, <2>2 DEF PublishPayment
  <2>4. Amount(value)
    BY <1>0 DEF Amount
  <2>5. GoodTx(p.tx)
    BY <2>3, <2>4 DEF GoodTx, Amount
  <2>6. QED
    BY <1>0, <2>3, <2>5
<1>4. CASE Buy
  <2>1. CASE BuyPublished \/ BuyNotPublished
    BY <1>2, <2>1 DEF BuyPublished, BuyNotPublished, outsideUnchanged
  <2>2. CASE \/ BuyRefused \/ BuyPrepared \/ BuyAccepted \/ BuyDeclined \/ BuyUnanswered
             \/ \E csd \in left.buyAmounts : BuyClicked(csd)
    BY <1>1, <2>2 DEF BuyClicked, BuyRefused, BuyPrepared, BuyAccepted, BuyDeclined, BuyUnanswered, outsideUnchanged
  <2>3. QED
    BY <1>4, <2>1, <2>2 DEF Buy
<1>5. CASE Sell
  BY <1>1, <1>5 DEF Sell, SellClicked, SellRefused, SellPrepared, SellRequested, SellFails,
     SellAccepted, SellNotAccepted, SellChecked, SellLockSeen, SellGivesUp, SellSigned, SellHanded,
     SellSubmitted, SellDone, outsideUnchanged, marketVars
<1>6. CASE ClaimAndRefund \/ Follow \/ Market \/ Wallet \/ Tick \/ UNCHANGED vars
  BY <1>1, <1>6 DEF ClaimAndRefund, ClaimClicked, RefundClicked, ClaimMined, RefundMined, SentMined,
     Follow, FollowFailedBuy, FollowSale, FollowReceipt, WatchPayment, LateSave, Following,
     Market, TimerLoads, SessionLoads, LoadReads, LoadEnds, Wallet, ScanStarts, ScanEnds, SendCsd,
     Tick, vars, marketVars, outsideUnchanged
<1>7. CASE Reload
  BY <1>1, <1>2, <1>7 DEF Reload
<1>8. CASE MakersAct
  <2>1. CASE \E o \in orders : PublishPayment(o)
    BY <1>3, <2>1
  <2>2. CASE UNCHANGED <<orders, payments>>
    BY <1>1, <2>2
  <2>3. QED
    BY <1>8, <2>1, <2>2 DEF MakersAct, PublishOffer, PublishLookalike, OthersTrade, PublishReceipt, AnswerOrder,
       LockBuy, AnswerRequest, DeclineRequest, LockSale, Locking, marketVars
<1>9. CASE ChainsAct
  BY <1>1, <1>9 DEF ChainsAct, Broadcast, MineTx, Prove, ReleaseSale, MakerRefunds, BecomesFinal,
     CsdUnchanged, marketVars
<1>10. QED
  BY <1>4, <1>5, <1>6, <1>7, <1>8, <1>9 DEF Next

\* Every step keeps coins, transactions, orders and payments good.
LEMMA FundsShape ==
  ASSUME TradesInv, EvidenceInv, MarketInv, TradesGood, LeftInv, DealInv, FundsInv, [Next]_vars
  PROVE  FundsInv'
<1>1. "coins" \in DOMAIN tab' /\ Purse(tab'.coins)
  BY CoinsShape
<1>2. (\A o \in orders' : Amount(o.csd)) /\ (\A p \in payments' : GoodTx(p.tx))
  BY OrdersStep
<1>3. IsFiniteSet(csdTxs') /\ \A t \in csdTxs' : GoodTx(t)
  <2>1. IsFiniteSet(csdTxs) /\ \A t \in csdTxs : GoodTx(t)
    BY DEF FundsInv
  <2>2. csdTxs' = csdTxs \/ TxsGrow
    BY TxsStep
  <2>3. QED
    BY <2>1, <2>2, FS_AddElement DEF TxsGrow
<1>4. QED
  BY <1>1, <1>2, <1>3 DEF FundsInv

-----------------------------------------------------------------------------
(***************************************************************************)
(* Routes are finitely many, listed best first, each to a maker on the page.*)
(***************************************************************************)
\* Finitely many things can be listed by a number they have, the largest first.
Descends(f, q) == \A i, j \in DOMAIN q : i < j => f[q[i]] >= f[q[j]]
LEMMA ListedInOrder ==
  ASSUME NEW S, IsFiniteSet(S), NEW f, \A x \in S : f[x] \in Int
  PROVE  \E q \in SetToSeqs(S) : Descends(f, q)
<1> DEFINE Good == {T \in SUBSET S : \E q \in SetToSeqs(T) : Descends(f, q)}
           g == [x \in S |-> 0 - f[x]]
<1>1. \A x \in S : g[x] = 0 - f[x] /\ g[x] \in Int
  OBVIOUS
<1> HIDE DEF g
<1>2. ASSUME NEW T \in SUBSET S, \A x \in T : T \ {x} \in Good
      PROVE  T \in Good
  <2>1. IsFiniteSet(T) /\ Cardinality(T) \in Nat
    BY FS_Subset, FS_CardinalityType
  <2>2. CASE T = {}
    <3>1. Cardinality(T) = 0
      BY <2>2, FS_EmptySet
    <3> DEFINE q == [i \in 1..0 |-> 0]
    <3>2. q \in [1..0 -> T] /\ DOMAIN q = {}
      OBVIOUS
    <3> HIDE DEF q
    <3>3. q \in SetToSeqs(T) /\ Descends(f, q)
      BY <3>1, <3>2 DEF SetToSeqs, Descends
    <3>4. QED
      BY <3>3
  <2>3. CASE T # {}
    <3>1. PICK m \in T : \A k \in T : g[k] <= g[m]
      <4>1. \A x \in T : g[x] \in Int
        BY <1>1
      <4>2. QED
        BY <2>1, <2>3, <4>1, Topmost
    <3>2. \A k \in T : f[k] >= f[m]
      BY <1>1, <3>1
    <3> DEFINE U == T \ {m}
               n == Cardinality(T)
    <3>3. Cardinality(U) = n - 1 /\ n \in Nat /\ n > 0
      BY <2>1, <3>1, FS_RemoveElement, FS_EmptySet, FS_CardinalityType, FS_Subset
    <3>4. PICK q \in SetToSeqs(U) : Descends(f, q)
      BY <1>2, <3>1
    <3>5. /\ q \in [1..(n - 1) -> U]
          /\ \A i, j \in 1..(n - 1) : i # j => q[i] # q[j]
      BY <3>3, <3>4 DEF SetToSeqs
    <3> HIDE DEF n
    <3> DEFINE r == [i \in 1..n |-> IF i = n THEN m ELSE q[i]]
    <3>6. /\ DOMAIN r = 1..n /\ r[n] = m
          /\ \A i \in 1..n : i # n => i \in 1..(n - 1) /\ r[i] = q[i] /\ q[i] \in T /\ q[i] # m
      BY <3>3, <3>5
    <3>7. r \in [1..n -> T]
      BY <3>1, <3>5, <3>6
    <3> HIDE DEF r
    <3>8. \A i, j \in 1..n : i # j => r[i] # r[j]
      BY <3>5, <3>6
    <3>9. r \in SetToSeqs(T)
      BY <3>7, <3>8 DEF SetToSeqs, n
    <3>10. Descends(f, r)
      <4> SUFFICES ASSUME NEW i \in 1..n, NEW j \in 1..n, i < j PROVE f[r[i]] >= f[r[j]]
        BY <3>6 DEF Descends
      <4>1. i # n /\ r[i] = q[i] /\ q[i] \in T /\ i \in 1..(n - 1)
        BY <3>3, <3>6
      <4>2. CASE j = n
        BY <3>2, <3>6, <4>1, <4>2
      <4>3. CASE j # n
        <5>1. r[j] = q[j] /\ j \in 1..(n - 1)
          BY <3>6, <4>3
        <5>2. DOMAIN q = 1..(n - 1)
          BY <3>5
        <5>3. f[q[i]] >= f[q[j]]
          BY <3>4, <4>1, <5>1, <5>2 DEF Descends
        <5>4. QED
          BY <4>1, <5>1, <5>3
      <4>4. QED
        BY <4>2, <4>3
    <3>11. QED
      BY <3>9, <3>10
  <2>4. QED
    BY <2>2, <2>3
<1>3. SUBSET S \subseteq Good
  <2> HIDE DEF Good
  <2>1. QED
    BY <1>2, SubsetInduction
<1>4. QED
  BY <1>3

\* A route goes to one of the makers on the page, at a price that is a number.
LEMMA RoutesShape ==
  ASSUME MarketInv, NEW side \in {"buy", "sell"}, NEW csd, Amount(csd)
  PROVE  /\ IsFiniteSet(Routes(tab.market, side, csd))
         /\ \A r \in Routes(tab.market, side, csd) : r.maker \in Makers /\ r.total \in Int
<1> DEFINE mk == tab.market
           Pairs == (DOMAIN mk.makers) \X offers
           Price(o) == IF side = "buy" THEN QuoteBuy(o.pool, csd) ELSE QuoteSell(o.pool, csd) - o.fee
           Total(o) == IF side = "buy" THEN Price(o) + o.fee ELSE Price(o)
           Route(m, o) == [maker |-> m, offer |-> o, usdc |-> Price(o), fee |-> o.fee, total |-> Total(o)]
           Fits(o) == side = "buy" => CanBuy(o.pool, csd)
<1>1. ASSUME NEW r \in Routes(mk, side, csd)
      PROVE  \E m \in DOMAIN mk.makers : \E o \in mk.makers[m].offers : Fits(o) /\ r = Route(m, o)
  BY <1>1 DEF Routes, OfferIn
<1>2. /\ DOMAIN mk.makers \subseteq Makers /\ IsFiniteSet(DOMAIN mk.makers) /\ IsFiniteSet(offers)
      /\ \A m \in DOMAIN mk.makers : mk.makers[m].offers \subseteq offers
      /\ \A o \in offers : o.pool \in Pools /\ o.fee \in Nat
  BY DEF MarketInv, PageInv, OffersInv, OfferFits
<1>3. csd \in Nat /\ csd > 0
  BY DEF Amount
<1>4. \A o \in offers : Fits(o) => Total(o) \in Int
  <2> SUFFICES ASSUME NEW o \in offers, Fits(o) PROVE Total(o) \in Int
    OBVIOUS
  <2>1. CASE side = "buy"
    <3>1. QuoteBuy(o.pool, csd) \in Nat
      BY <1>2, <1>3, <2>1, BuyCovers
    <3>2. Total(o) = QuoteBuy(o.pool, csd) + o.fee
      BY <2>1
    <3> HIDE DEF Total
    <3>3. QED
      BY <1>2, <3>1, <3>2
  <2>2. CASE side # "buy"
    <3>1. QuoteSell(o.pool, csd) \in Nat
      BY <1>2, <1>3, SaleIsCovered
    <3>2. Total(o) = QuoteSell(o.pool, csd) - o.fee
      BY <2>2
    <3> HIDE DEF Total
    <3>3. QED
      BY <1>2, <3>1, <3>2
  <2>3. QED
    BY <2>1, <2>2
<1>5. \A m, o : Route(m, o).maker = m /\ Route(m, o).total = Total(o)
  OBVIOUS
<1> DEFINE f == [x \in Pairs |-> Route(x[1], x[2])]
<1>6. \A m \in DOMAIN mk.makers, o \in offers : f[<<m, o>>] = Route(m, o) /\ <<m, o>> \in Pairs
  <2> HIDE DEF Route
  <2>1. QED
    OBVIOUS
<1>7. IsFiniteSet(Pairs)
  BY <1>2, FS_Product
<1> HIDE DEF f, Pairs, Route, Total, Fits
<1>8. ASSUME NEW r \in Routes(mk, side, csd) PROVE \E x \in Pairs : r = f[x]
  <2>1. PICK m \in DOMAIN mk.makers : \E o \in mk.makers[m].offers : r = Route(m, o)
    BY <1>1
  <2>2. PICK o \in mk.makers[m].offers : r = Route(m, o)
    BY <2>1
  <2>3. o \in offers
    BY <1>2, <2>2
  <2>4. f[<<m, o>>] = Route(m, o) /\ <<m, o>> \in Pairs
    BY <1>6, <2>3
  <2>5. QED
    BY <2>2, <2>4
<1>9. IsFiniteSet(Routes(mk, side, csd))
  BY <1>7, <1>8, ImageFinite
<1>10. \A r \in Routes(mk, side, csd) : r.maker \in Makers /\ r.total \in Int
  BY <1>1, <1>2, <1>4, <1>5
<1>11. QED
  BY <1>9, <1>10

\* The routes are listed best first.
LEMMA BestShape ==
  ASSUME MarketInv, NEW side \in {"buy", "sell"}, NEW csd, Amount(csd)
  PROVE  LET R == Routes(tab.market, side, csd)  q == BestRoutes(tab.market, side, csd) IN
         /\ Len(q) \in Nat /\ DOMAIN q = 1..Len(q) /\ (R # {} => Len(q) > 0)
         /\ \A i \in DOMAIN q : q[i] \in R /\ q[i].maker \in Makers
<1> DEFINE R == Routes(tab.market, side, csd)
           q == BestRoutes(tab.market, side, csd)
           f == [r \in R |-> IF side = "buy" THEN 0 - r.total ELSE r.total]
<1>1. IsFiniteSet(R) /\ \A r \in R : r.maker \in Makers /\ r.total \in Int
  BY RoutesShape
<1>2. \A r \in R : f[r] \in Int /\ f[r] = IF side = "buy" THEN 0 - r.total ELSE r.total
  BY <1>1
<1>3. PICK s \in SetToSeqs(R) : Descends(f, s)
  <2> HIDE DEF f, R
  <2>1. QED
    BY <1>1, <1>2, ListedInOrder
<1>4. s \in [1..Cardinality(R) -> R]
  BY DEF SetToSeqs
<1>5. \A i, j \in DOMAIN s : i < j => ~Better(side, s[j], s[i])
  <2> SUFFICES ASSUME NEW i \in DOMAIN s, NEW j \in DOMAIN s, i < j PROVE ~Better(side, s[j], s[i])
    OBVIOUS
  <2>1. f[s[i]] >= f[s[j]] /\ s[i] \in R /\ s[j] \in R
    BY <1>3, <1>4 DEF Descends
  <2> HIDE DEF f, R
  <2>2. QED
    BY <1>1, <1>2, <2>1 DEF Better
<1> HIDE DEF f
<1>6. q \in SetToSeqs(R)
  BY <1>5 DEF BestRoutes
<1>7. q \in [1..Cardinality(R) -> R]
  BY <1>6 DEF SetToSeqs
<1> HIDE DEF q, R
<1>8. Cardinality(R) \in Nat /\ (R # {} => Cardinality(R) > 0)
  BY <1>1, FS_CardinalityType, FS_EmptySet
<1>9. Len(q) = Cardinality(R) /\ DOMAIN q = 1..Len(q)
  BY <1>7, <1>8
<1>10. QED
  BY <1>1, <1>7, <1>8, <1>9 DEF q, R

\* A sale is offered to makers on the page, to some if it is possible.
LEMMA CandidatesShape ==
  ASSUME MarketInv, Amount(session.csd)
  PROVE  /\ SellCandidates \in Seq(Routes(tab.market, "sell", session.csd))
         /\ \A i \in DOMAIN SellCandidates : SellCandidates[i].maker \in Makers
<1> DEFINE best == BestRoutes(tab.market, "sell", session.csd)
           enough == {i \in DOMAIN best : best[i].usdc >= MinOut}
           n == Min({3, Cardinality(enough)})
<1>1. /\ Len(best) \in Nat /\ DOMAIN best = 1..Len(best)
      /\ \A i \in DOMAIN best : best[i] \in Routes(tab.market, "sell", session.csd) /\ best[i].maker \in Makers
  BY BestShape
<1>2. SellCandidates = SubSeq(best, 1, n)
  BY DEF SellCandidates
<1> HIDE DEF best
<1>3. Cardinality(enough) \in Nat /\ Cardinality(enough) <= Len(best)
  <2>1. IsFiniteSet(1..Len(best)) /\ Cardinality(1..Len(best)) = Len(best)
    BY <1>1, FS_Interval
  <2>2. QED
    BY <1>1, <2>1, FS_Subset, FS_CardinalityType
<1> HIDE DEF enough
<1>4. n \in Nat /\ n <= Len(best)
  <2> DEFINE S == {3, Cardinality(enough)}
  <2>1. \E x \in S : \A y \in S : x <= y
    BY <1>3
  <2>2. Min(S) \in S /\ \A y \in S : Min(S) <= y
    BY <2>1 DEF Min
  <2>3. QED
    BY <1>1, <1>3, <2>2
<1> HIDE DEF n
<1>5. SubSeq(best, 1, n) = [i \in 1..n |-> best[i]]
  BY <1>1, <1>4
<1>6. QED
  BY <1>1, <1>2, <1>4, <1>5

-----------------------------------------------------------------------------
(***************************************************************************)
(* What a click deals in, and the shape of the whole state.                 *)
(***************************************************************************)
\* A click goes on with what it has, but for the fields it edits.
GoesOn(pc, edited) ==
  /\ session'.pc = pc /\ DOMAIN session \subseteq DOMAIN session'
  /\ \A k \in DOMAIN session : k # "pc" /\ k # edited => session'[k] = session[k]
LEMMA GotoGoesOn ==
  ASSUME "pc" \in DOMAIN session, NEW pc, Goto(pc)
  PROVE  GoesOn(pc, "pc")
  BY DEF Goto, GoesOn

\* A click that takes note of something goes on with the rest.
LEMMA PutGoesOn ==
  ASSUME "pc" \in DOMAIN session, NEW pc, NEW field, NEW v, field # "pc",
         session' = Put([session EXCEPT !.pc = pc], field, v)
  PROVE  GoesOn(pc, field) /\ session'[field] = v
<1> DEFINE u == [session EXCEPT !.pc = pc]
<1>1. DOMAIN u = DOMAIN session /\ u.pc = pc /\ \A k \in DOMAIN session \ {"pc"} : u[k] = session[k]
  OBVIOUS
<1> HIDE DEF u
<1>2. session' = Put(u, field, v)
  BY DEF u
<1>3. DOMAIN session' = DOMAIN u \cup {field} /\ session'[field] = v
      /\ (\A k \in DOMAIN u : k # field => session'[k] = u[k])
  BY <1>1, <1>2 DEF Put
<1>4. QED
  BY <1>1, <1>3 DEF GoesOn

\* A sale goes on with its amount, its makers and its coins.
LEMMA SaleGoesOn ==
  ASSUME DealInv, session.pc \in Selling, NEW pc \in Selling, NEW edited,
         edited \notin {"csd", "makers", "coins"}, GoesOn(pc, edited),
         pc \in {"sellPut", "sellAnswer"} => session.pc \in {"sellPut", "sellAnswer"}
  PROVE  DealInv'
<1>1. /\ "csd" \in DOMAIN session /\ Amount(session.csd)
      /\ "coins" \in DOMAIN session /\ Purse(session.coins) /\ Worth(session.coins) >= session.csd + CsdFee
  BY DEF DealInv
<1>2. /\ "csd" \in DOMAIN session' /\ session'.csd = session.csd
      /\ "coins" \in DOMAIN session' /\ session'.coins = session.coins
  BY <1>1 DEF GoesOn
<1>3. pc \in {"sellPut", "sellAnswer"} =>
        "makers" \in DOMAIN session' /\ session'.makers \in Seq(Makers) /\ Len(session'.makers) > 0
  BY DEF DealInv, GoesOn
<1>4. session'.pc = pc
  BY DEF GoesOn
<1>5. QED
  BY <1>1, <1>2, <1>3, <1>4 DEF DealInv, Selling

\* Once the payment is signed, only it matters.
LEMMA PaymentGoesOn ==
  ASSUME NEW pc \in {"sellHand", "sellSubmit", "sellDone"}, session'.pc = pc, GoodTx(session'.tx)
  PROVE  DealInv'
  BY DEF DealInv, Selling

\* A click that ends, or is a claim or a refund, deals in nothing.
LEMMA DealSame ==
  ASSUME DealInv, session' = session \/ session'.pc \in {"idle", "claimSent", "refundSent"}
  PROVE  DealInv'
  BY DEF DealInv, Selling

\* A click that starts with an amount, or goes on with it to look for a maker.
LEMMA DealStarts ==
  ASSUME NEW pc \in {"buyLoad", "buyRoute", "sellLoad", "sellRoute"}, session'.pc = pc,
         "csd" \in DOMAIN session', Amount(session'.csd)
  PROVE  DealInv'
  BY DEF DealInv, Selling

\* What a buy deals in.
LEMMA BuyDeals ==
  ASSUME TradesInv, MarketInv, LeftInv, DealInv, Buy
  PROVE  DealInv'
<1>1. ASSUME NEW csd \in left.buyAmounts, BuyClicked(csd)
      PROVE  DealInv'
  <2>1. PICK preview : session' = [pc |-> "buyLoad", csd |-> csd, preview |-> preview]
    BY <1>1 DEF BuyClicked
  <2>2. session'.pc = "buyLoad" /\ "csd" \in DOMAIN session' /\ session'.csd = csd
    BY <2>1
  <2>3. Amount(csd)
    BY DEF LeftInv, Amount
  <2>4. QED
    BY <2>2, <2>3, DealStarts
<1>2. CASE BuyPrepared
  <2>1. Amount(session.csd) /\ Routes(tab.market, "buy", session.csd) # {}
    BY <1>2 DEF BuyPrepared, BuyPossible, DealInv
  <2>2. PICK best : best = BestRoutes(tab.market, "buy", session.csd)[1]
    OBVIOUS
  <2>3. best.maker \in Makers
    <3> DEFINE q == BestRoutes(tab.market, "buy", session.csd)
    <3>1. Len(q) \in Nat /\ Len(q) > 0 /\ DOMAIN q = 1..Len(q) /\ \A i \in DOMAIN q : q[i].maker \in Makers
      BY <2>1, BestShape
    <3> HIDE DEF q
    <3>2. q[1].maker \in Makers
      BY <3>1
    <3>3. QED
      BY <2>2, <3>2 DEF q
  <2>4. PICK o : /\ o = [id |-> serial, hash |-> serial, maker |-> best.maker, addr |-> FreshKeyIndex,
                         csd |-> session.csd, usdc |-> best.total, at |-> clock, deadline |-> clock + PermitFor]
                 /\ session' = [pc |-> "buyPut", order |-> o]
    BY <1>2, <2>2 DEF BuyPrepared
  <2>5. o.maker \in Makers /\ Amount(o.csd)
    BY <2>1, <2>3, <2>4
  <2>6. session'.pc = "buyPut" /\ "order" \in DOMAIN session' /\ session'.order = o
    BY <2>4
  <2>7. QED
    BY <2>5, <2>6 DEF DealInv, Selling
<1>3. CASE BuyPublished
  <2>1. PICK o, t : o = session.order /\ session' = [pc |-> "buyAnswer", order |-> o, trade |-> t]
    BY <1>3 DEF BuyPublished
  <2>2. session'.pc = "buyAnswer" /\ "order" \in DOMAIN session' /\ session'.order = o
    BY <2>1
  <2>3. o.maker \in Makers /\ Amount(o.csd)
    BY <1>3, <2>1 DEF BuyPublished, DealInv
  <2>4. QED
    BY <2>2, <2>3 DEF DealInv, Selling
<1>4. CASE BuyRefused \/ BuyNotPublished \/ BuyAccepted \/ BuyDeclined \/ BuyUnanswered
  <2>1. session' = Idle
    BY <1>4 DEF BuyRefused, BuyNotPublished, BuyAccepted, BuyDeclined, BuyUnanswered
  <2>2. QED
    BY <2>1, DealSame DEF Idle
<1>5. QED
  BY <1>1, <1>2, <1>3, <1>4 DEF Buy

\* What a sale deals in.
LEMMA SellDeals ==
  ASSUME TradesInv, MarketInv, LeftInv, FundsInv, DealInv, Sell
  PROVE  DealInv'
<1>0. "pc" \in DOMAIN session
  BY DEF TradesInv, SessionInv
<1>1. ASSUME NEW csd \in left.sellAmounts, SellClicked(csd)
      PROVE  DealInv'
  <2>1. PICK preview : session' = [pc |-> "sellLoad", csd |-> csd, preview |-> preview]
    BY <1>1 DEF SellClicked
  <2>2. session'.pc = "sellLoad" /\ "csd" \in DOMAIN session' /\ session'.csd = csd
    BY <2>1
  <2>3. Amount(csd)
    BY DEF LeftInv, Amount
  <2>4. QED
    BY <2>2, <2>3, DealStarts
<1>2. CASE SellPrepared
  <2>1. Amount(session.csd) /\ SellCandidates # << >> /\ Worth(tab.coins) >= session.csd + CsdFee
    BY <1>2 DEF SellPrepared, SellPossible, DealInv
  <2>2. PICK makers, coins :
          /\ makers = [i \in DOMAIN SellCandidates |-> SellCandidates[i].maker]
          /\ coins = Picked(tab.coins, session.csd + CsdFee)
          /\ session' = [pc |-> "sellPut", csd |-> session.csd, minOut |-> MinOut, makers |-> makers, coins |-> coins]
    BY <1>2 DEF SellPrepared
  <2>3. makers \in Seq(Makers) /\ Len(makers) > 0
    <3> DEFINE q == SellCandidates
               R == Routes(tab.market, "sell", session.csd)
    <3>1. q \in Seq(R) /\ \A i \in DOMAIN q : q[i].maker \in Makers
      BY <2>1, CandidatesShape
    <3>2. q # << >> /\ makers = [i \in DOMAIN q |-> q[i].maker]
      BY <2>1, <2>2
    <3> HIDE DEF q, R
    <3>3. DOMAIN q = 1..Len(q) /\ Len(q) \in Nat /\ Len(q) > 0
      BY <3>1, <3>2
    <3>4. QED
      BY <3>1, <3>2, <3>3
  <2>4. Purse(coins) /\ Worth(coins) >= session.csd + CsdFee
    <3>1. session.csd + CsdFee \in Nat /\ Purse(tab.coins)
      BY <2>1, ScenarioAssumption DEF Amount, FundsInv
    <3>2. coins \in SUBSET tab.coins /\ Worth(coins) >= session.csd + CsdFee
      BY <2>1, <2>2, <3>1, PickedCovers
    <3>3. QED
      BY <3>1, <3>2, PurseSubset
  <2>5. /\ session'.pc = "sellPut" /\ {"csd", "makers", "coins"} \subseteq DOMAIN session'
        /\ session'.csd = session.csd /\ session'.makers = makers /\ session'.coins = coins
    BY <2>2
  <2>6. QED
    BY <2>1, <2>3, <2>4, <2>5 DEF DealInv, Selling
<1>3. CASE SellRequested
  <2>1. session' = Put([session EXCEPT !.pc = "sellAnswer"], "id", serial)
    BY <1>3 DEF SellRequested
  <2>2. GoesOn("sellAnswer", "id")
    BY <1>0, <2>1, PutGoesOn
  <2>3. session.pc = "sellPut"
    BY <1>3 DEF SellRequested
  <2>4. QED
    BY <2>2, <2>3, SaleGoesOn DEF Selling
<1>4. CASE SellAccepted
  <2>1. session' = Put([session EXCEPT !.pc = "sellCheck"], "answer", replies[session.id])
    BY <1>4 DEF SellAccepted
  <2>2. GoesOn("sellCheck", "answer")
    BY <1>0, <2>1, PutGoesOn
  <2>3. session.pc = "sellAnswer"
    BY <1>4 DEF SellAccepted
  <2>4. QED
    BY <2>2, <2>3, SaleGoesOn DEF Selling
<1>5. CASE SellNotAccepted
  <2>1. CASE session' = Idle
    BY <2>1, DealSame DEF Idle
  <2>2. CASE session' # Idle
    <3>1. session.pc = "sellAnswer"
      BY <1>5 DEF SellNotAccepted
    <3>2. session.makers \in Seq(Makers) /\ Len(session.makers) > 0 /\ "makers" \in DOMAIN session
      BY <3>1 DEF DealInv
    <3>3. PICK others : others = Tail(session.makers)
      OBVIOUS
    <3>4. session' = [session EXCEPT !.pc = "sellPut", !.makers = others] /\ Len(session.makers) # 1
      BY <1>5, <2>2, <3>3 DEF SellNotAccepted
    <3>5. others \in Seq(Makers) /\ Len(others) > 0
      <4>1. PICK s \in Seq(Makers) : s = session.makers
        BY <3>2
      <4>2. Len(s) \in Nat /\ Len(s) > 1 /\ s # << >>
        <5>1. Len(s) \in Nat /\ Len(s) > 0
          BY <3>2, <4>1
        <5>2. Len(s) # 1
          BY <3>4, <4>1
        <5>3. s # << >>
          BY <5>1
        <5>4. QED
          BY <5>1, <5>2, <5>3
      <4>3. Tail(s) \in Seq(Makers) /\ Len(Tail(s)) = Len(s) - 1
        BY <4>2
      <4>4. QED
        BY <3>3, <4>1, <4>2, <4>3
    <3>6. /\ session'.pc = "sellPut" /\ DOMAIN session' = DOMAIN session /\ session'.makers = others
          /\ \A k \in DOMAIN session : k # "pc" /\ k # "makers" => session'[k] = session[k]
      BY <1>0, <3>2, <3>4
    <3>7. /\ "csd" \in DOMAIN session /\ Amount(session.csd)
          /\ "coins" \in DOMAIN session /\ Purse(session.coins) /\ Worth(session.coins) >= session.csd + CsdFee
      BY <3>1 DEF DealInv, Selling
    <3>8. session'.csd = session.csd /\ session'.coins = session.coins
      BY <3>6, <3>7
    <3>9. QED
      BY <3>2, <3>5, <3>6, <3>7, <3>8 DEF DealInv, Selling
  <2>3. QED
    BY <2>1, <2>2
<1>6. CASE SellChecked \/ SellLockSeen
  <2>1. CASE session' = Idle
    BY <2>1, DealSame DEF Idle
  <2>2. CASE session' # Idle
    <3>1. session.pc \in {"sellCheck", "sellWait"} /\ \E pc \in {"sellWait", "sellPay"} : Goto(pc)
      BY <1>6, <2>2 DEF SellChecked, SellLockSeen
    <3>2. PICK pc \in {"sellWait", "sellPay"} : GoesOn(pc, "pc")
      BY <1>0, <3>1, GotoGoesOn
    <3>3. QED
      BY <3>1, <3>2, SaleGoesOn DEF Selling
  <2>3. QED
    BY <2>1, <2>2
<1>7. CASE SellSigned
  <2>1. PICK t, to : /\ t = Payment(serial, session.coins, to, session.csd)
                     /\ session' = Put([session EXCEPT !.pc = "sellHand"], "tx", t)
    BY <1>7 DEF SellSigned
  <2>2. Amount(session.csd) /\ Purse(session.coins) /\ Worth(session.coins) >= session.csd + CsdFee
    BY <1>7 DEF SellSigned, DealInv, Selling
  <2>3. GoodTx(t)
    BY <2>1, <2>2, PaymentGood
  <2>4. session'.pc = "sellHand" /\ session'.tx = t
    BY <1>0, <2>1, PutGoesOn DEF GoesOn
  <2>5. QED
    BY <2>3, <2>4, PaymentGoesOn
<1>8. CASE SellHanded \/ SellSubmitted
  <2>1. session.pc \in {"sellHand", "sellSubmit"} /\ \E pc \in {"sellSubmit", "sellDone"} : Goto(pc)
    BY <1>8 DEF SellHanded, SellSubmitted
  <2>2. PICK pc \in {"sellSubmit", "sellDone"} : GoesOn(pc, "pc")
    BY <1>0, <2>1, GotoGoesOn
  <2>3. "tx" \in DOMAIN session /\ GoodTx(session.tx)
    BY <2>1 DEF TradesInv, SessionInv, DealInv
  <2>4. session'.pc = pc /\ session'.tx = session.tx
    BY <2>2, <2>3 DEF GoesOn
  <2>5. QED
    BY <2>3, <2>4, PaymentGoesOn
<1>9. CASE SellRefused \/ SellFails \/ SellGivesUp \/ SellDone
  <2>1. session' = Idle
    BY <1>9 DEF SellRefused, SellFails, SellGivesUp, SellDone
  <2>2. QED
    BY <2>1, DealSame DEF Idle
<1>10. QED
  BY <1>1, <1>2, <1>3, <1>4, <1>5, <1>6, <1>7, <1>8, <1>9 DEF Sell

\* Every step keeps what a click deals in.
LEMMA DealShape ==
  ASSUME TradesInv, MarketInv, LeftInv, FundsInv, DealInv, [Next]_vars
  PROVE  DealInv'
<1>1. CASE LoadEnds
  <2>1. CASE session' = session \/ session' = Idle
    BY <2>1, DealSame DEF Idle
  <2>2. CASE session' # session /\ session' # Idle
    <3>1. session.pc \in {"buyLoad", "sellLoad"} /\ "pc" \in DOMAIN session
      BY <1>1, <2>2 DEF LoadEnds, LoadFinds, LoadFindsNothing, TradesInv, LoadInv, SessionInv
    <3>2. PICK pc \in {"buyRoute", "sellRoute"} : Goto(pc)
      BY <1>1, <2>2 DEF LoadEnds
    <3>3. GoesOn(pc, "pc")
      BY <3>1, <3>2, GotoGoesOn
    <3>4. "csd" \in DOMAIN session /\ Amount(session.csd)
      BY <3>1 DEF DealInv
    <3>5. session'.pc = pc /\ "csd" \in DOMAIN session' /\ session'.csd = session.csd
      BY <3>3, <3>4 DEF GoesOn
    <3>6. QED
      BY <3>4, <3>5, DealStarts
  <2>3. QED
    BY <2>1, <2>2
<1>2. CASE session' = session
  BY <1>2, DealSame
<1>3. CASE ClaimAndRefund \/ Reload
  <2>1. session'.pc \in {"idle", "claimSent", "refundSent"}
    BY <1>3 DEF ClaimAndRefund, ClaimClicked, RefundClicked, ClaimMined, RefundMined, SentMined, Reload, Idle
  <2>2. QED
    BY <2>1, DealSame
<1>4. CASE Follow \/ Wallet \/ TimerLoads \/ SessionLoads \/ LoadReads \/ Tick \/ UNCHANGED vars
  BY <1>2, <1>4 DEF Follow, FollowFailedBuy, FollowSale, FollowReceipt, WatchPayment, LateSave, Following,
     Wallet, ScanStarts, ScanEnds, SendCsd, TimerLoads, SessionLoads, LoadReads, Tick, vars, pageVars
<1>5. CASE MakersAct \/ ChainsAct
  BY <1>2, <1>5 DEF MakersAct, PublishOffer, PublishLookalike, OthersTrade, PublishReceipt, AnswerOrder,
     LockBuy, PublishPayment, AnswerRequest, DeclineRequest, LockSale, Locking, OnAon, pageVars,
     ChainsAct, Broadcast, MineTx, Prove, ReleaseSale, MakerRefunds, BecomesFinal, CsdUnchanged
<1>6. QED
  BY <1>1, <1>3, <1>4, <1>5, BuyDeals, SellDeals DEF Next, Market

\* The shape of the state at the start.
LEMMA ShapeStarts ==
  ASSUME Init
  PROVE  ShapeInv
<1>1. PICK s \in DOMAIN Scenarios : LET sc == Scenarios[s] IN
        /\ csdTxs = sc.txs /\ DOMAIN mined = {t.id : t \in sc.txs} /\ left = sc.left
        /\ payments = {} /\ orders = {} /\ mine = << >> /\ tab = NewTab(1)
        /\ storage = [hints |-> sc.hints, provenAt |-> << >>, avoid |-> << >>, next |-> 1]
        /\ session = Idle /\ scan = Idle /\ late = Idle
  BY DEF Init
<1> DEFINE sc == Scenarios[s]
<1>2. /\ IsFiniteSet(sc.txs) /\ \A t \in sc.txs : t.value \in Nat \ {0} /\ t.change \in Nat
      /\ {"buyAmounts", "sellAmounts"} \subseteq DOMAIN sc.left
      /\ sc.left.buyAmounts \cup sc.left.sellAmounts \subseteq Nat \ {0}
  BY ScenarioAssumption
<1> HIDE DEF sc
<1>3. TradesGood
  BY <1>1 DEF TradesGood, Idle
<1>4. KeysInv
  BY <1>1 DEF KeysInv, NewTab, Idle
<1>5. LeftInv
  BY <1>1, <1>2 DEF LeftInv, sc
<1>6. DealInv
  BY <1>1 DEF DealInv, Idle, Selling
<1>7. FundsInv
  <2>1. "coins" \in DOMAIN tab /\ tab.coins = {}
    BY <1>1 DEF NewTab
  <2>2. Purse(tab.coins)
    BY <2>1, FS_EmptySet DEF Purse
  <2>3. QED
    BY <1>1, <1>2, <2>1, <2>2 DEF FundsInv, GoodTx, Amount, sc
<1>8. AvoidInv
  BY <1>1 DEF AvoidInv
<1>9. MinedInv
  BY <1>1 DEF MinedInv, sc
<1>10. QED
  BY <1>3, <1>4, <1>5, <1>6, <1>7, <1>8, <1>9 DEF ShapeInv

\* Throughout a run the state has its shape.
EveryInv == TradesInv /\ PublicInv /\ EvidenceInv /\ MarketInv
LEMMA ShapeSteps ==
  ASSUME EveryInv, ShapeInv, [Next]_vars
  PROVE  ShapeInv'
<1>1. /\ TradesInv /\ EvidenceInv /\ MarketInv
      /\ TradesGood /\ KeysInv /\ LeftInv /\ DealInv /\ FundsInv /\ AvoidInv /\ MinedInv
  BY DEF EveryInv, ShapeInv
<1>2. TradesGood' /\ KeysInv' /\ LeftInv' /\ DealInv' /\ FundsInv' /\ AvoidInv' /\ MinedInv'
  BY <1>1, TradesShape, KeysShape, LeftShape, DealShape, FundsShape, AvoidShape, MinedShape
<1>3. QED
  BY <1>2 DEF ShapeInv

\* And so has the state throughout a run.
LEMMA ShapeIsRight == Spec => [](EveryInv /\ ShapeInv)
<1>1. Spec => []EveryInv
  BY MarketIsRight, PTL DEF EveryInv
<1>2. Init => ShapeInv
  BY ShapeStarts
<1>3. EveryInv /\ ShapeInv /\ [Next]_vars => ShapeInv'
  BY ShapeSteps
<1>4. QED
  BY <1>1, <1>2, <1>3, PTL DEF Spec

\* Every part of the page's state keeps its shape, whatever the clicks, loops, makers and
\* chains do: trades have a side and a status, locks a state, payments an amount and
\* change the coins covered, and the address counter never falls to the change address.
THEOREM StateKeepsItsShape == Spec => []TypeOK
<1>1. EveryInv /\ ShapeInv => TypeOK
  <2> SUFFICES ASSUME TradesInv, PublicInv, EvidenceInv, MarketInv, TradesGood, KeysInv, FundsInv, AvoidInv, MinedInv
               PROVE  TypeOK
    BY DEF EveryInv, ShapeInv
  <2>1. clock \in Nat /\ serial \in Nat /\ storage.next \in Nat \ {0}
    BY DEF TradesInv, ClockInv, CounterInv, KeysInv
  <2>2. DOMAIN storage.provenAt \cup DOMAIN storage.avoid \subseteq Makers /\ DOMAIN tab.market.makers \subseteq Makers
    BY DEF AvoidInv, MarketInv, PageInv
  <2>3. \A h \in DOMAIN mine : mine[h].side \in {"buy", "sell"} /\ mine[h].status \in {"pending", "done", "failed"}
    BY DEF TradesGood, TradeGood, TradeShape, Statuses
  <2>4. \A h \in DOMAIN locks : locks[h].state \in {"locked", "settled", "released", "refunded"}
    BY DEF PublicInv, LockStates
  <2>5. DOMAIN mined \subseteq {t.id : t \in csdTxs} /\ \A t \in csdTxs : t.value > 0 /\ t.change >= 0
    BY DEF MinedInv, FundsInv, GoodTx, Amount
  <2>6. /\ load.pc \in {"idle", "hints", "walk", "list", "rest"}
        /\ late.pc \in {"idle", "saving"} /\ scan.pc \in {"idle", "reading"}
    BY DEF MarketInv, LoadingInv, TradesInv, LateInv, KeysInv
  <2>7. QED
    BY <2>1, <2>2, <2>3, <2>4, <2>5, <2>6 DEF TypeOK
<1>2. QED
  BY <1>1, ShapeIsRight, PTL
=============================================================================
