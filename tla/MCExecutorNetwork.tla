------------------------- MODULE MCExecutorNetwork -------------------------
(***************************************************************************)
(* Instances of the executor network for TLC.  alice asks 3; bob and carol *)
(* bid 2 each.  "f1" and its copy "f1x" are one trade of 2 with bob; "f2"  *)
(* offers carol 2, of which 1 fits once f1 has settled, and is built on a  *)
(* republished copy of alice's ask.                                        *)
(***************************************************************************)
EXTENDS ExecutorNetwork, MCSpotObjects

MCSize   == [ask |-> 3, bid |-> 2, bid2 |-> 2]
MCTrader == [ask |-> "alice", bid |-> "bob", bid2 |-> "carol"]

MCGrantor == [aA |-> "alice", aAx |-> "alice", aB |-> "bob", aC |-> "carol"]
MCCopyOf  ==
  [cA  |-> [signs |-> "ask",  auth |-> "aA"],
   cAx |-> [signs |-> "ask",  auth |-> "aAx"],
   cB  |-> [signs |-> "bid",  auth |-> "aB"],
   cC  |-> [signs |-> "bid2", auth |-> "aC"]]

F1 == [nonce |-> 1, makerOrder |-> "cA", takerOrder |-> "cB", makerAuth |-> "aA",
       takerAuth |-> "aB", base |-> 2, fee |-> 1]
F2 == [F1 EXCEPT !.makerOrder = "cAx", !.makerAuth = "aAx", !.takerOrder = "cC",
                 !.takerAuth = "aC", !.fee = 0]
MCFillOf == [f1 |-> F1, f1x |-> F1, f2 |-> F2]

\* rB: bob cancels his authorization.  rS: a stranger "cancels" alice's order.
\* rF: a cancellation of carol's whose signature is not hers.
MCRevokes ==
  [rA |-> [target |-> "aA", signer |-> "alice"],
   rB |-> [target |-> "aB", signer |-> "bob"],
   rS |-> [target |-> "cAx", signer |-> "mallory"],
   rF |-> [target |-> "aC", signer |-> "carol"]]
MCForged == {"rF"}

\* One receipt claims a settlement that never was, and one names the wrong fill
\* for what may become a true claim.
K1 == <<1, "ask", "bid", 2, 1>>
K2 == <<1, "ask", "bid2", 2, 0>>
MCEarlyReceipts ==
  {[fill |-> "f2", key |-> K2, base |-> 2], [fill |-> "f2", key |-> K1, base |-> 2]}

MCEarlyObjects == DOMAIN MCGrantor \cup DOMAIN MCCopyOf \cup DOMAIN MCFillOf
                    \cup {"rS", "rF"}

TwoLists == [x1 |-> <<"n1", "n2">>, x2 |-> <<"n2", "n1">>]
OneList  == [x1 |-> <<"n1", "n2">>]
NoFees   == [x1 |-> 0]
SomeFees == [x1 |-> 0, x2 |-> 1]
=============================================================================
