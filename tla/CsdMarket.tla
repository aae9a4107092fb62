------------------------------ MODULE CsdMarket ------------------------------
(* How the CSD page finds the market: it collects every maker's newest offer   *)
(* from AON while makers go on publishing, decides from receipts which makers   *)
(* are proven, lists recent trades, and picks the makers a trade can go to      *)
(* (csd/aon-client.ts and loadMarket, routes in app/csd/page.tsx).              *)
EXTENDS CsdPool, FiniteSetsExt, SequencesExt

CONSTANTS Makers,         \* market makers' addresses
          Known,          \* the makers the site lists (CSD_MARKET_MAKERS)
          MaxHints,       \* remembered offers followed in one load (16)
          MaxHops,        \* offers followed from one hint (12)
          MaxCandidates,  \* replacements looked at per offer (10)
          PageSize,       \* objects per listed page (100)
          OfferPages,     \* pages of offers read (3)
          OtherPages,     \* pages of receipts and of payments read (2)
          Slack,          \* how far in the future a createdAt may be (120 s)
          ReceiptsFor,    \* age of the oldest receipt used (8 days)
          PaymentsFor,    \* age of the oldest payment used (7 days)
          FlyingFor,      \* age of the oldest one still checked itself (6 hours)
          Recheck,        \* pause before an unconfirmed payment is looked at again (30 s)
          ProvenFor,      \* how long a maker stays remembered as proven (30 days)
          NewMakerMax,    \* largest trade of an unproven maker (NEW_MAKER_MAX_USDC)
          ExecutorFee     \* held with a sale's lock (CSD_SALE_EXECUTOR_FEE)

ASSUME MarketAssumption ==
  /\ Known \subseteq Makers
  /\ {MaxHints, MaxHops, MaxCandidates, PageSize, OfferPages, OtherPages} \subseteq Nat \ {0}
  /\ Slack \in Nat

VARIABLES
  clock,
  offers, receipts, payments, orders,   \* what AON holds, by kind
  locks,       \* trades on the settlement contract, by authorization hash
  csdTxs,      \* CSD transactions the network holds
  mined,       \* those in a block: id -> when
  storage,     \* the browser's storage: hints, provenAt, avoid, next, mine
  tab,         \* the page's memory: market, verified, buyChecked, nextIndex, coins
  load         \* the loadMarket call under way

None == "none"
NoOffer == 0
NoTrade == 0
NoMarket == [makers |-> << >>, recent |-> {}]

---------------------------------------------------------------------------
(* Offers                                                                   *)

Signed(o) == o.signer = o.maker
Fresh(o, now) == ~(o.validBefore < now) /\ o.at <= now + Slack
Newer(o, p) == o.at > p.at \/ (o.at = p.at /\ o.id > p.id)
NewestOf(S) == CHOOSE o \in S : \A p \in S \ {o} : Newer(o, p)

(* One page of a listing, newest first *)
Page(objects, p) ==
  {o \in objects : Cardinality({q \in objects : Newer(q, o)}) \in (p * PageSize)..((p + 1) * PageSize - 1)}
Pages(objects, n) == UNION {Page(objects, p) : p \in 0..(n - 1)}

Consider(out, o, now) ==
  IF Fresh(o, now) /\ Signed(o)
     /\ \A c \in out : c.maker = o.maker /\ c.side = o.side => c.at < o.at
  THEN {c \in out : ~(c.maker = o.maker /\ c.side = o.side)} \cup {o}
  ELSE out
ConsiderAll(out, S, now) ==
  {o \in out \cup {s \in S : Fresh(s, now) /\ Signed(s)} :
     \A p \in out \cup {s \in S : Fresh(s, now) /\ Signed(s)} :
        p.maker = o.maker /\ p.side = o.side /\ p # o => Newer(o, p)}

(* The newest signed replacement of an offer, or NoOffer *)
Replacements(o, now) ==
  LET c == {x \in offers : /\ x.replaces = o.id /\ x.side = o.side /\ x.maker = o.maker
                           /\ x.at > o.at /\ x.at <= now + Slack}
  IN  {x \in c : Cardinality({y \in c : Newer(y, x)}) < MaxCandidates}
TrustingReplacement(o, now) ==       \* fault: the newest candidate, signed or not
  LET c == Replacements(o, now) IN
  IF c = {} \/ ~Signed(NewestOf(c)) THEN NoOffer ELSE NewestOf(c).id
NewestReplacement(o, now) ==
  LET c == {x \in Replacements(o, now) : Signed(x)} IN IF c = {} THEN NoOffer ELSE NewestOf(c).id

Idle == [pc |-> "idle"]
OfferOf(id) == CHOOSE o \in offers : o.id = id

(* The offers a known maker answers with come first, then those of last time *)
Followed(info) ==
  {H \in SUBSET (storage.hints \cup info) :
     /\ Cardinality(H) = Min({MaxHints, Cardinality(storage.hints \cup info)})
     /\ info \subseteq H \/ H \subseteq info}

LoadStarts(by) ==
  /\ load.pc = "idle"
  /\ \E info \in {{}, {o.id : o \in {o \in offers : o.maker \in Known /\ Signed(o)
                                        /\ \A p \in offers : p.maker = o.maker /\ p.side = o.side
                                                               /\ Signed(p) => ~Newer(p, o)}}} :
       \E H \in Followed(info) :
         load' = [pc |-> "hints", by |-> by, now |-> clock, hints |-> H, at |-> NoOffer, hop |-> 0,
                  page |-> 0, out |-> {}, began |-> [offers |-> offers, hints |-> H]]

NextHint ==
  /\ load.pc = "hints"
  /\ IF load.hints = {} THEN load' = [load EXCEPT !.pc = "list"]
     ELSE LET h == Min(load.hints) IN
          load' = [load EXCEPT !.hints = @ \ {h}, !.at = h, !.hop = 0, !.pc = "walk"]

Hop ==
  /\ load.pc = "walk"
  /\ LET o    == OfferOf(load.at)
         next == IF Signed(o) THEN NewestReplacement(o, load.now) ELSE NoOffer
         out  == Consider(load.out, o, load.now)
     IN  load' = IF next = NoOffer \/ load.hop + 1 >= MaxHops
                 THEN [load EXCEPT !.out = out, !.pc = "hints"]
                 ELSE [load EXCEPT !.out = out, !.at = next, !.hop = @ + 1]

ListPage ==
  /\ load.pc = "list"
  /\ LET page == Page(offers, load.page)
         last == load.page + 1 = OfferPages \/ Cardinality(page) < PageSize
     IN  load' = [load EXCEPT !.out = ConsiderAll(@, page, load.now), !.page = @ + 1,
                              !.pc = IF last THEN "rest" ELSE @]

(* A node fails: the walk ends where it is, or the listing; what such a load   *)
(* must find is nothing.                                                       *)
ReadFails ==
  \/ /\ load.pc = "walk" /\ load.hop = 0         \* the remembered offer is not read
     /\ load' = [load EXCEPT !.pc = "hints", !.began.offers = {}]
  \/ /\ load.pc = "walk"                         \* what replaces the one read is not
     /\ load' = [load EXCEPT !.out = Consider(@, OfferOf(load.at), load.now), !.pc = "hints",
                             !.began.offers = {}]
  \/ /\ load.pc = "list"
     /\ load' = [load EXCEPT !.pc = "rest", !.began.offers = {}]

---------------------------------------------------------------------------
(* Receipts: which makers are proven                                        *)

WasPaidOut(hash) == hash \in DOMAIN locks /\ locks[hash].state \in {"settled", "released"}

(* How the transaction a receipt names really ended, or None *)
AnyPayout(r) ==                      \* fault: who traded with whom is not looked at
  IF WasPaidOut(r.tx) /\ r.tx = r.hash /\ r.signer \in {locks[r.tx].buyer, locks[r.tx].recipient}
  THEN locks[r.tx].state ELSE None
RealReceipt(r) ==
  IF /\ WasPaidOut(r.tx) /\ r.tx = r.hash
     /\ LET e == locks[r.tx] IN
        /\ r.signer \in {e.buyer, e.recipient} /\ e.buyer # e.recipient
        /\ <<r.usdc, r.csd, r.buyer, r.recipient>> = <<e.usdc, e.csd, e.buyer, e.recipient>>
  THEN locks[r.tx].state ELSE None

Over(new, old) ==                    \* a table with the entries of another written over it
  [x \in DOMAIN new \cup DOMAIN old |-> IF x \in DOMAIN new THEN new[x] ELSE old[x]]
Verify(rs, unread) ==                \* each receipt is checked once and remembered
  [r \in rs |-> IF r \in DOMAIN tab.verified THEN tab.verified[r]
                ELSE IF r \in unread THEN None ELSE RealReceipt(r)]

ReadableReceipts(addrs) ==
  {r \in Pages(receipts, OtherPages) : clock - r.at <= ReceiptsFor /\ r.signer \in addrs /\ r.csd > 0}

RecentlyProven == {m \in DOMAIN storage.provenAt : storage.provenAt[m] > clock - ProvenFor}

---------------------------------------------------------------------------
(* Recent trades: receipts, and buys from the moment they happened          *)

(* In a block, and its coin not spent in a later one *)
Confirmed(addr) ==
  {t \in csdTxs : /\ t.id \in DOMAIN mined /\ t.to = addr
                  /\ \A u \in csdTxs : u.id \in DOMAIN mined =>
                        \A c \in u.ins : <<c.tx, c.key>> # <<t.id, addr>>}
SettledOrLocked(hash) == hash \in DOMAIN locks /\ locks[hash].state # "refunded"

(* A maker's payment of a buy, checked against the buyer's order, Ethereum   *)
(* and CSD. A "no" that cannot change is final.                              *)
BuyAuthOf(p) == {o \in orders : o.hash = p.hash /\ o.id = p.refers}
PaysTheOrder(p, addrs) ==
  /\ p.signer \in addrs
  /\ \E o \in BuyAuthOf(p) : o.maker = p.signer /\ p.tx.to = o.addr /\ p.tx.value >= o.csd
UnlockedBuy(p) ==                    \* fault: Ethereum is not asked
  p.tx \in Confirmed(p.tx.to)
HappenedBuy(p) ==
  SettledOrLocked(p.hash) /\ p.tx \in Confirmed(p.tx.to)
BuyTrade(p, addrs) ==
  LET c == tab.buyChecked[p] IN
  IF p \in DOMAIN tab.buyChecked /\ (c.final \/ c.happened \/ clock - c.at < Recheck) THEN c
  ELSE [at |-> clock, final |-> ~PaysTheOrder(p, addrs),
        happened |-> PaysTheOrder(p, addrs) /\ HappenedBuy(p)]

Earliest(S) == CHOOSE p \in S : \A q \in S : p.at <= q.at
PaidAt(h, buys, addrs) ==            \* a maker's first payment of the buy
  Earliest({p \in buys : p.hash = h /\ p.signer \in addrs})
ShownAt(r, buys, addrs) ==
  IF /\ r.recipient = r.signer /\ \E p \in buys : p.hash = r.hash /\ p.signer \in addrs
     /\ PaidAt(r.hash, buys, addrs).signer = r.signer
  THEN Min({r.at, PaidAt(r.hash, buys, addrs).at}) ELSE r.at
HappenedAt(h, flying) == Earliest({p \in DOMAIN flying : p.hash = h /\ flying[p].happened}).at
RecentTrades(real, buys, flying, addrs) ==
  {[hash |-> r.hash, side |-> IF r.buyer = r.signer THEN "sell" ELSE "buy",
    at |-> ShownAt(r, buys, addrs)] : r \in real}
  \cup {[hash |-> h, side |-> "buy", at |-> HappenedAt(h, flying)]
          : h \in {p.hash : p \in {p \in DOMAIN flying : flying[p].happened}}}

(* The known maker's own list, if it answers: the page does not check it *)
UncheckedTrade == [hash |-> NoTrade, side |-> "buy", at |-> clock]
ClaimedLists == {{}, {UncheckedTrade}}

---------------------------------------------------------------------------
(* The market and its routes                                                *)

OfferIn(mk, m, side) ==
  {o \in mk.makers[m].offers : o.side = side}

Assemble(unread, claimed) ==
  LET ours   == {o \in load.out : o.ours}
      addrs  == {o.maker : o \in ours}
      rs     == ReadableReceipts(addrs)
      how    == Verify(rs, unread)
      real   == {r \in rs : how[r] # None}
      proved == {r.signer : r \in {r \in real : how[r] = "settled"}}
      over   == {r.hash : r \in real}
      buys   == {p \in Pages(payments, OtherPages) :
                   clock - p.at <= IF p.hash \in over THEN PaymentsFor ELSE FlyingFor}
      flying == [p \in {p \in buys : p.hash \notin over} |-> BuyTrade(p, addrs)]
      checked == RecentTrades(real, buys, flying, addrs)
  IN  /\ tab' = [tab EXCEPT
             !.market = [makers |-> [m \in addrs |-> [offers |-> {o \in ours : o.maker = m},
                                                      proven |-> m \in Known \cup RecentlyProven \cup proved]],
                         recent |-> IF checked = {} THEN claimed ELSE checked],
             !.verified = Over(how, @),
             !.buyChecked = Over(flying, @)]
      /\ storage' = [storage EXCEPT !.provenAt = Over([m \in proved |-> clock], @),
                                    !.hints = {o.id : o \in ours}]

(* loadMarket from the receipts on; NO_OFFER when nobody quotes *)
LoadFinds(unread) ==
  /\ load.pc = "rest" /\ \E o \in load.out : o.ours
  /\ \E claimed \in ClaimedLists : Assemble(unread, claimed)
  /\ load' = Idle
LoadFindsNothing ==
  /\ load.pc = "rest" /\ ~\E o \in load.out : o.ours
  /\ load' = Idle

Unavailable(m) == m \in DOMAIN storage.avoid /\ storage.avoid[m] > clock

(* skipMaker: a maker that declined or fell silent is avoided and forgotten *)
Skipped(st, m, for) ==
  [st EXCEPT !.avoid = Over([x \in {m} |-> clock + for], @),
             !.provenAt = [x \in DOMAIN @ \ {m} |-> @[x]]]

Opposite(side) == IF side = "buy" THEN "sell" ELSE "buy"
ProvenQuotes(mk, side) == \E m \in DOMAIN mk.makers : mk.makers[m].proven /\ OfferIn(mk, m, side) # {}

(* The makers a trade of `csd` can go to *)
Routes(mk, side, csd) ==
  LET offerSide == Opposite(side)
      priced == UNION {{[maker |-> m, offer |-> o,
                         usdc |-> IF side = "buy" THEN QuoteBuy(o.pool, csd)
                                  ELSE QuoteSell(o.pool, csd) - o.fee]
                          : o \in {o \in OfferIn(mk, m, offerSide) :
                                     IF side = "buy" THEN CanBuy(o.pool, csd) ELSE csd > 0}}
                         : m \in {m \in DOMAIN mk.makers : ~Unavailable(m)}}
      total(r) == IF side = "buy" THEN r.usdc + r.offer.fee ELSE r.usdc
      size(r)  == IF side = "buy" THEN total(r) ELSE r.usdc + ExecutorFee
  IN  {[maker |-> r.maker, offer |-> r.offer, usdc |-> r.usdc, fee |-> r.offer.fee, total |-> total(r)]
         : r \in {r \in priced : /\ r.usdc > 0 /\ size(r) <= r.offer.maxTrade
                                 /\ r.usdc >= r.offer.minTrade
                                 /\ \/ mk.makers[r.maker].proven \/ ~ProvenQuotes(mk, offerSide)
                                    \/ total(r) <= NewMakerMax}}
Better(side, r, q) == IF side = "buy" THEN r.total < q.total ELSE r.total > q.total
BestRoutes(mk, side, csd) ==         \* best first
  CHOOSE q \in SetToSeqs(Routes(mk, side, csd)) :
    \A i, j \in DOMAIN q : i < j => ~Better(side, q[j], q[i])
=============================================================================
