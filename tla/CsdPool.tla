------------------------------- MODULE CsdPool -------------------------------
(* The price of a CSD/USDC offer: a pool of both, priced by their ratio, moved  *)
(* by every trade, plus a spread (csd/pool.ts). Integers only; a division       *)
(* rounds down and ceilDiv up. A quote the code refuses with an exception has   *)
(* a guard here (CanBuy, CanSellFor); the loops are recursive functions.        *)
EXTENDS Integers, Sequences

CONSTANTS Bps,       \* basis points in one: the spread is so many of these
          CsdUnit,   \* base units in one CSD
          Coarse     \* the loops step by 1 + x / Coarse

ASSUME PoolAssumption == /\ Bps \in Nat \ {0} /\ CsdUnit \in Nat \ {0}
                         /\ Coarse \in Nat /\ Coarse > 1

(* Pools a maker can quote: something on both sides, a spread below the whole *)
Pools == [usdc : Nat \ {0}, csd : Nat \ {0}, spread : 0..(Bps - 1)]

CeilDiv(a, b) == (a + b - 1) \div b
MidPrice(p) == (p.usdc * CsdUnit) \div p.csd

RoundedDown(p, csd) ==              \* fault: the inner division loses the remainder
  CeilDiv(((p.usdc * csd) \div (p.csd - csd)) * (Bps + p.spread), Bps)

CanBuy(p, csd) == csd > 0 /\ 2 * csd <= p.csd
QuoteBuy(p, csd) ==
  CeilDiv(CeilDiv(p.usdc * csd, p.csd - csd) * (Bps + p.spread), Bps)
QuoteSell(p, csd) ==
  (((p.usdc * csd) \div (p.csd + csd)) * (Bps - p.spread)) \div Bps

CsdForUsdc(p, usdc) ==
  LET base  == (usdc * Bps) \div (Bps + p.spread)
      want  == (p.csd * base) \div (p.usdc + base)
      start == IF 2 * want > p.csd THEN p.csd \div 2 ELSE want
      down[x \in 0..start] == IF x > 0 /\ QuoteBuy(p, x) > usdc
                              THEN down[x - (1 + x \div Coarse)] ELSE x
  IN  down[start]

BaseToSellFor(p, usdc) == CeilDiv(usdc * Bps, Bps - p.spread)
CanSellFor(p, usdc) == BaseToSellFor(p, usdc) < p.usdc
CsdToSellFor(p, usdc) ==
  LET base == BaseToSellFor(p, usdc)
      up[x \in Nat] == IF QuoteSell(p, x) < usdc THEN up[x + 1 + x \div Coarse] ELSE x
  IN  up[CeilDiv(p.csd * base, p.usdc - base)]

AfterBuy(p, csd, usdcIn)   == [p EXCEPT !.usdc = @ + usdcIn, !.csd = @ - csd]
AfterSell(p, csd, usdcOut) == [p EXCEPT !.usdc = @ - usdcOut, !.csd = @ + csd]

(* The book view of the curve: slices of `step` USDC, each at its average price *)
Asks(p, step, levels) ==
  LET after[i \in 0..levels] ==
        IF i = 0 THEN [pool |-> p, rows |-> << >>]
        ELSE LET a == after[i - 1]  x == CsdForUsdc(a.pool, step) IN
             IF x <= 0 THEN a
             ELSE LET cost == QuoteBuy(a.pool, x) IN
                  [pool |-> AfterBuy(a.pool, x, cost),
                   rows |-> Append(a.rows, [price |-> (cost * CsdUnit) \div x, csd |-> x])]
  IN  after[levels].rows

Bids(p, step, levels) ==
  LET after[i \in 0..levels] ==
        IF i = 0 THEN [pool |-> p, rows |-> << >>]
        ELSE LET a == after[i - 1] IN
             IF ~CanSellFor(a.pool, step) THEN a
             ELSE LET x == CsdToSellFor(a.pool, step)  out == QuoteSell(a.pool, x) IN
                  [pool |-> AfterSell(a.pool, x, out),
                   rows |-> Append(a.rows, [price |-> (out * CsdUnit) \div x, csd |-> x])]
  IN  after[levels].rows

(* Reference: no trade at a quoted price lowers the product of the two sides,  *)
(* and one that is undone at the next quote gains nothing.                      *)
Product(p) == p.usdc * p.csd
BuysNeverGain(p, amounts) ==
  \A x \in amounts : CanBuy(p, x) =>
    LET cost == QuoteBuy(p, x)  q == AfterBuy(p, x, cost) IN
    Product(q) >= Product(p) /\ QuoteSell(q, x) <= cost
SalesNeverGain(p, amounts) ==
  \A x \in amounts : x > 0 =>
    LET out == QuoteSell(p, x)  q == AfterSell(p, x, out) IN
    Product(q) >= Product(p) /\ (CanBuy(q, x) => QuoteBuy(q, x) >= out)
=============================================================================
