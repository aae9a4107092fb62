------------------------ MODULE MCEvmSpotSettlement ------------------------
(***************************************************************************)
(* Instances of the settlement contract for TLC.  Each scenario gives the  *)
(* signed orders and the fills executors may try; prices are in halves     *)
(* (Scale = 2), so that amounts really are rounded.                        *)
(***************************************************************************)
EXTENDS EvmSpotSettlementAudit

MCAccounts == {"alice", "bob", "carol", "relay"}
MCTokens   == {"weth", "usdc"}

\* An authorization and an order as the app builds them, one for the other.
SellAuth(p, base, price) ==
  [grantor |-> p, signer |-> p, settlementContract |-> "spot",
   baseToken |-> "weth", quoteToken |-> "usdc", marketId |-> "weth/usdc",
   sides |-> {"sell"}, maxBaseExposure |-> base, maxQuoteExposure |-> 0,
   maxExecutorFeeQuote |-> 0, minPrice |-> price, maxPrice |-> MaxUint,
   validAfter |-> 0, validBefore |-> MaxTime]

BuyAuth(p, base, price, fee) ==
  [SellAuth(p, 0, 0) EXCEPT !.sides = {"buy"}, !.maxPrice = price,
     !.maxQuoteExposure = QuoteFor(base, price), !.maxExecutorFeeQuote = fee]

LimitOrder(p, side, base, price, a) ==
  [trader |-> p, signer |-> p, marketId |-> "weth/usdc", side |-> side,
   price |-> price, baseAmount |-> base, sessionAuthHash |-> a,
   validAfter |-> 0, validBefore |-> MaxTime, receiveNative |-> FALSE,
   bound |-> FALSE, legs |-> <<>>, exclusiveBase |-> 0, exclusiveUntil |-> 0]

FillsOf(nonces, pairs, bases, prices, fees) ==
  {[nonce |-> n, maker |-> p[1], taker |-> p[2], price |-> x, base |-> b,
    quote |-> QuoteFor(b, x), fee |-> y] :
     n \in nonces, p \in pairs, b \in bases, x \in prices, y \in fees}

Rich == [t \in MCTokens |-> [p \in MCAccounts |-> 20]]

-----------------------------------------------------------------------------
\* Two asks of alice's share one authorization that covers 3 of their 4; bob's
\* bid of 5 reserves 3 for them until time 1, pays executor fees and wants
\* native coin; carol's ask is not named by it. Carol buys under a spending cap
\* below her order, and her other bid names an authorization that the relay
\* signed for her.
BookAuth ==
  [a1 |-> SellAuth("alice", 3, 2), a3 |-> SellAuth("carol", 3, 2),
   b1 |-> BuyAuth("bob", 5, 3, 2), c1 |-> BuyAuth("carol", 1, 3, 1),
   c2 |-> [BuyAuth("carol", 2, 3, 1) EXCEPT !.signer = "relay"]]

BookOrder ==
  [ask1 |-> LimitOrder("alice", "sell", 2, 2, "a1"),
   ask2 |-> LimitOrder("alice", "sell", 2, 3, "a1"),
   ask3 |-> LimitOrder("carol", "sell", 3, 2, "a3"),
   bid  |-> [LimitOrder("bob", "buy", 5, 3, "b1") EXCEPT
               !.receiveNative = TRUE, !.bound = TRUE,
               !.legs = [ask1 |-> 2, ask2 |-> 1],
               !.exclusiveBase = 3, !.exclusiveUntil = 1],
   capped |-> LimitOrder("carol", "buy", 2, 3, "c1"),
   fake   |-> LimitOrder("carol", "buy", 2, 3, "c2")]

BookFills ==
  FillsOf({1}, {<<"ask1", "bid">>}, 1..3, {2, 3}, {0, 1})
    \cup FillsOf({1}, {<<"bid", "ask2">>}, 1..2, {3}, {0})
    \cup FillsOf({1}, {<<"ask3", "bid">>}, {1, 3}, {2}, {0})
    \cup FillsOf({1, 2}, {<<"capped", "ask2">>}, {1}, {3}, {0})
    \cup FillsOf({1}, {<<"ask1", "fake">>}, {2}, {2}, {0})
-----------------------------------------------------------------------------
\* alice sells to bob in wallet tokens while both keep using their wallets. She
\* also has a bid of her own, and bob's second bid names an authorization that
\* somebody else signed.
WalletAuth  == [a1 |-> SellAuth("alice", 3, 2), b1 |-> BuyAuth("bob", 3, 3, 2),
                b2 |-> BuyAuth("alice", 2, 3, 0),
                b3 |-> [BuyAuth("bob", 2, 3, 0) EXCEPT !.signer = "relay"]]
WalletOrder == [ask  |-> LimitOrder("alice", "sell", 3, 2, "a1"),
                bid  |-> LimitOrder("bob", "buy", 3, 3, "b1"),
                self |-> LimitOrder("alice", "buy", 2, 3, "b2"),
                odd  |-> LimitOrder("bob", "buy", 2, 3, "b3")]
WalletFills ==
  FillsOf({1}, {<<"ask", "bid">>, <<"ask", "self">>}, 1..2, {2, 3}, {0, 1})
    \cup FillsOf({1}, {<<"ask", "odd">>}, {2}, {3}, {0})
Poor     == [t \in MCTokens |-> [p \in Accounts |-> IF p = "relay" THEN 0 ELSE 3]]
Approved == [t \in MCTokens |-> [p \in Accounts |-> IF p = "bob" THEN 2 ELSE 3]]

\* One ask and one bid for 3 at 3/2, with a fee budget of 3 on a quote of 4: a
\* fill's fee can sit exactly at its pro-rata cap.
SliverAuth  == [a1 |-> SellAuth("alice", 3, 3), b1 |-> BuyAuth("bob", 3, 3, 3)]
SliverOrder == [ask |-> LimitOrder("alice", "sell", 3, 3, "a1"),
                bid |-> LimitOrder("bob", "buy", 3, 3, "b1")]
SliverFills == FillsOf({1, 2}, {<<"ask", "bid">>}, 1..3, {3}, 0..3)

=============================================================================
