----------------------------- MODULE MCCsdTrades -----------------------------
(***************************************************************************)
(* Small markets for CsdTrades: makers mA, which the site lists, and mB,    *)
(* which it does not. Each scenario has its own state and its own bounds.   *)
(***************************************************************************)
EXTENDS CsdTrades

Pool(usdc, csd, spread) == [usdc |-> usdc, csd |-> csd, spread |-> spread]
Offer(id, maker, side, pool) ==
  [id |-> id, side |-> side, maker |-> maker, signer |-> maker, at |-> 0, validBefore |-> 9,
   replaces |-> NoOffer, pool |-> pool, fee |-> 1, minTrade |-> 2, maxTrade |-> 20, ours |-> TRUE]
Even == Pool(12, 6, 1)
SellA == Offer(1, "mA", "sell", Even)
SellB == Offer(2, "mB", "sell", Pool(10, 6, 1))
BuyA  == Offer(3, "mA", "buy", Even)
BuyB  == Offer(4, "mB", "buy", Pool(13, 6, 1))
Elsewhere == [Offer(5, "mB", "buy", Even) EXCEPT !.ours = FALSE]

\* The user's coins at the start: five at the change address, three at the first.
Coin(id, key, value) == [id |-> id, ins |-> {}, to |-> key, value |-> value, change |-> 0]
MyCoins == {Coin(6, 0, 5), Coin(7, 1, 3)}

Nothing == [buys |-> 0, sells |-> 0, sends |-> 0, loads |-> 0, faults |-> 0, reloads |-> 0, ticks |-> 0,
            offers |-> 0, lookalikes |-> 0, others |-> 0, receipts |-> 0, lies |-> 0,
            can |-> {}, parties |-> {}, sides |-> {}, pools |-> {}, buyAmounts |-> {}, sellAmounts |-> {}]
With(fields) == fields @@ Nothing
Scen(theOffers, hints, txs, fields) ==
  [clock |-> 1, offers |-> theOffers, hints |-> hints, txs |-> txs, left |-> With(fields)]

Walk   == Scen({SellA}, {1}, {},
            [loads |-> 1, ticks |-> 2, offers |-> 2, lookalikes |-> 2, sides |-> {"sell"}, pools |-> {Even}])
Prices == Scen({SellA}, {}, {},
            [loads |-> 1, offers |-> 1, sides |-> {"sell"},
             pools |-> {Pool(u, c, s) : u \in {1, 4, 9, 13}, c \in {2, 5, 8, 11}, s \in {0, 1, 3}}])
Proofs == Scen({SellA, SellB, Elsewhere}, {}, {},
            [loads |-> 2, others |-> 1, receipts |-> 1, reloads |-> 1, faults |-> 1, ticks |-> 1,
             parties |-> {"mB", "someone"}])
OneBuy == Scen({SellA}, {}, {},
            [loads |-> 1, buys |-> 1, buyAmounts |-> {2}, ticks |-> 3, faults |-> 1,
             can |-> {"answer", "lock", "pay"}])
Cheated == Scen({SellA}, {}, {},
            [loads |-> 1, buys |-> 1, buyAmounts |-> {2}, ticks |-> 3, lies |-> 1, can |-> {"lock", "pay"}])
\* Two buys of a wallet new on this device: the first receives where coins lie.
Restored == Scen({SellA}, {}, MyCoins,
            [loads |-> 1, buys |-> 2, buyAmounts |-> {1}, ticks |-> 3, reloads |-> 1, can |-> {"lock", "scan"}])
Closed == Scen({SellA}, {}, {},
            [loads |-> 2, buys |-> 1, buyAmounts |-> {2}, ticks |-> 3, reloads |-> 1,
             can |-> {"answer", "lock"}])
Shown  == Scen({SellA}, {}, {},
            [loads |-> 2, buys |-> 1, buyAmounts |-> {2}, receipts |-> 1, lies |-> 1, parties |-> {"mA"},
             can |-> {"answer", "lock", "pay", "settle", "scan"}])
OneSale == Scen({BuyA}, {}, MyCoins,
            [loads |-> 1, sells |-> 1, sellAmounts |-> {4}, ticks |-> 3, reloads |-> 1, faults |-> 1,
             can |-> {"answer", "lock", "settle", "release", "scan"}])
TwoMakers == Scen({BuyA, BuyB}, {}, MyCoins,
            [loads |-> 1, sells |-> 1, sellAmounts |-> {4}, lies |-> 1,
             can |-> {"answer", "lock", "release", "scan"}])
Sends  == Scen({SellA}, {}, MyCoins,
            [loads |-> 1, buys |-> 1, buyAmounts |-> {1}, sends |-> 1, sellAmounts |-> {2, 5}, reloads |-> 1,
             can |-> {"pay", "scan"}])
Moved  == Scen({[SellA EXCEPT !.validBefore = 2]}, {}, {},
            [loads |-> 1, buys |-> 2, buyAmounts |-> {2}, ticks |-> 2, offers |-> 1, can |-> {"answer", "lock"},
             sides |-> {"sell"}, pools |-> {Pool(13, 6, 1), Pool(12, 2, 1)}])
MCScenarios == <<Walk, Prices, Proofs, OneBuy, Cheated, Restored, Closed, Shown, OneSale, TwoMakers, Sends, Moved>>

\* Three buys while one refresh of the wallet waits for a slow node.
MCSlowScan == <<Scen({SellA}, {}, MyCoins,
            [loads |-> 1, buys |-> 3, buyAmounts |-> {1}, can |-> {"answer", "pay", "scan"}])>>
=============================================================================
