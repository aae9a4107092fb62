----------------------------- MODULE MCSpotApp -----------------------------
(***************************************************************************)
(* A small market for SpotApp: two nodes, the user, another user and a     *)
(* market maker whose sell of two units rests on the book.                 *)
(***************************************************************************)
EXTENDS SpotApp

n1 == "n1"
n2 == "n2"
MCNodes == {n1, n2}
MCNodeList == <<n1, n2>>

\* The maker's sell, and one of the user that waits for a counterparty
\* whose order nobody published.
RestingAuth == BuildAuth(1, "maker", "sell", 2, 4, 0, 20, 0)
Resting     == BuildOrder(2, RestingAuth, 4, 2, FALSE, NoLegs, 0, 0, 0)
MyAuth      == BuildAuth(3, "me", "sell", 2, 8, 0, 20, 0)
Mine        == BuildOrder(4, MyAuth, 8, 2, FALSE, [eip \in {None} |-> 1], 1, 1, 0)
Listed0     == {RestingAuth, Resting, MyAuth, Mine}

\* The maker's, dated by a clock that is ahead: copies can be older.
Dated == {[o EXCEPT !.createdAt = 1] : o \in {RestingAuth, Resting}}

\* Two buyers whose orders took more of the maker's sell than there is.
Buyer(hash, who, base) ==
  LET auth  == BuildAuth(hash, who, "buy", base, 4, 2, 20, 0)
      order == BuildOrder(hash + 1, auth, 4, base, FALSE, [eip \in {2} |-> base], base, 3, 0)
      leg   == [order |-> [hash |-> 2, auth |-> [hash |-> 1]], base |-> base, price |-> 4]
  IN  {auth, order, BuildFill(hash + 2, leg, order, 0, 0)}
Contested == Listed0 \cup Buyer(5, "me", 2) \cup Buyer(8, "rival", 1)

\* A sell of the user that the other user is about to fill in part.
Selling == BuildOrder(2, BuildAuth(1, "me", "sell", 2, 4, 0, 20, 0), 4, 2, FALSE, NoLegs, 0, 0, 0)
Taken   == {BuildAuth(1, "me", "sell", 2, 4, 0, 20, 0), Selling} \cup Buyer(8, "rival", 1)

MCBalance == [w \in {"me", "rival", "maker"} |->
  CASE w = "me" -> [base |-> 3, quote |-> 40, eth |-> 3]
    [] w = "rival" -> [base |-> 3, quote |-> 20, eth |-> 0]
    [] w = "maker" -> [base |-> 3, quote |-> 0, eth |-> 0]]
MCAllowance == [w \in {"me", "rival", "maker"} |->
  IF w = "me" THEN [base |-> 2, quote |-> 5] ELSE [base |-> 3, quote |-> 20]]

\* A buy that takes the resting sell and rests for the rest; a market buy; a
\* sell of more than the wallet's wrapped balance.
Form(side, amount, limit) == [side |-> side, amount |-> amount, limit |-> limit]
LimitBuy  == Form("buy", 4, 5)
MarketBuy == Form("buy", 2, 0)
LimitSell == Form("sell", 3, 6)

Scenario(forms, closes, theirs, others, copies, faults, ticks, receipts) ==
  [forms |-> forms, places |-> 1, closes |-> closes, theirs |-> theirs, rival |-> others,
   copies |-> copies, faults |-> faults, ticks |-> ticks, receipts |-> receipts, forged |-> 0]
MCAllowed ==
  <<Scenario({LimitBuy, LimitSell}, 1, {}, 0, 0, 0, 0, 0),         \* place, then cancel, settle or unwrap
    Scenario({MarketBuy}, 0, {}, 0, 0, 1, 0, 1),                    \* something fails
    Scenario({LimitBuy}, 0, {Form("sell", 3, 5)}, 1, 0, 0, 0, 0),  \* the other user answers
    Scenario({LimitBuy}, 0, {}, 0, 0, 0, 1, 0),                    \* time passes
    Scenario({}, 0, {Form("buy", 1, 8)}, 1, 1, 0, 1, 0),           \* orders lapse, are copied and cancelled
    Scenario({}, 1, {}, 0, 0, 0, 0, 0),                            \* two fills compete for a sell
    Scenario({LimitSell}, 0, {}, 0, 0, 0, 0, 0),                   \* a sell fills while another is placed
    [Scenario({}, 0, {}, 0, 0, 1, 0, 1) EXCEPT !.forged = 1],       \* receipts of settlers and of others
    Scenario({}, 0, {}, 1, 2, 0, 0, 0)>>                            \* authorizations are copied, too
MCListings == [s \in DOMAIN MCAllowed |->
  CASE s \in {6, 8} -> Contested [] s = 7 -> Taken [] s = 9 -> Dated [] OTHER -> Listed0]

\* The user's own buy is being filled by a sell of the other user, fee and all.
HeldAuth   == BuildAuth(5, "me", "buy", 4, 10, MaxFeeForOrder(QuoteFor(4, 10)), 20, 0)
Held       == BuildOrder(6, HeldAuth, 10, 4, FALSE, NoLegs, 0, 0, 0)
DearAuth   == BuildAuth(1, "maker", "sell", 2, 12, 0, 20, 0)
Dear       == BuildOrder(2, DearAuth, 12, 2, FALSE, NoLegs, 0, 0, 0)
AnswerAuth == BuildAuth(7, "rival", "sell", 4, 10, 0, 20, 0)
Answer     == BuildOrder(8, AnswerAuth, 10, 4, FALSE, [eip \in {6} |-> 4], 4, 3, 0)
AnswerLeg  == [order |-> [hash |-> 6, auth |-> [hash |-> 5]], base |-> 4, price |-> 10]
MCHeldListings == <<{DearAuth, Dear, HeldAuth, Held, AnswerAuth, Answer,
  BuildFill(9, AnswerLeg, Answer, FeeForQuote(QuoteFor(4, 10)), 0)}>>
MCHeldAllowed == <<Scenario({MarketBuy}, 0, {}, 0, 0, 0, 0, 0)>>

\* The user places a sell and cancels it; strangers copy what was published.
MCCancelListings == <<{}>>
MCCancelAllowed  == <<Scenario({Form("sell", 1, 6)}, 1, {}, 0, 2, 0, 1, 0)>>
=============================================================================
