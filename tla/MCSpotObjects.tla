--------------------------- MODULE MCSpotObjects ---------------------------
(***************************************************************************)
(* A handful of strings for SpotObjects, and one object of every kind, so  *)
(* that TLC evaluates what the theorems about them assume.  "0xAB" is an   *)
(* address as getAddress writes it, "0xab" the same one in lower case.     *)
(***************************************************************************)
EXTENDS SpotObjects, TLC

MCAddresses == {"0xAB", "0xab", "0xCD", "0xcd"}
MCHashes == {"0x0", "0xF1", "0xf1", "0xF2", "0xf2", "0xleg"}
MCSigned == [a \in {"0xAB", "0xCD"} |-> IF a = "0xAB" THEN "0xsigAB" ELSE "0xsigCD"]
MCHexes == MCAddresses \cup MCHashes \cup {MCSigned[a] : a \in DOMAIN MCSigned}
MCAmounts == 0..12
MCNumerals == {ToString(n) : n \in MCAmounts}

MCLowered == "0xAB" :> "0xab" @@ "0xCD" :> "0xcd" @@ "0xF1" :> "0xf1" @@ "0xF2" :> "0xf2"
MCLower(s) == IF s \in DOMAIN MCLowered THEN MCLowered[s] ELSE s
MCChecksum(a) == IF a = "0xab" THEN "0xAB" ELSE IF a = "0xcd" THEN "0xCD" ELSE a
MCText(x) == ToString(x)
MCBig(s) == CHOOSE n \in MCAmounts : ToString(n) = s
MCObjectHash(obj) == IF obj.objectType = "authorization" THEN "0xF1" ELSE "0xF2"
MCProves(address, typed) == address \in DOMAIN MCSigned /\ typed.signature = MCSigned[address]
OneLeg == <<[orderHash |-> "0xF2", maxBase |-> 4]>>
MCLegsHash(legs) == IF legs = OneLeg THEN "0xleg" ELSE "0xF1"

-----------------------------------------------------------------------------
AuthorizationBody ==
  [authorization |->
     [grantor |-> "0xab", settlementContract |-> "0xcd", baseToken |-> "0xCD", quoteToken |-> "0xcd",
      marketId |-> "0xf2", sideMask |-> "1", maxBaseExposure |-> 4, maxQuoteExposure |-> 8,
      maxExecutorFeeQuote |-> Absent, minPrice |-> 0, maxPrice |-> 5, validAfter |-> 0,
      validBefore |-> 9, authNonce |-> "0xf1"],
   signer |-> Absent, domain |-> "Covenant", types |-> Absent, primaryType |-> Absent,
   namespace |-> Absent, references |-> Absent, signature |-> "0xsigAB"]
OrderBody(counterSetHash, exclusiveBase) ==
  [order |->
     [trader |-> "0xab", marketId |-> "0xf2", side |-> "1", price |-> 3, baseAmount |-> 6,
      orderNonce |-> "0xf1", sessionAuthHash |-> "0xF1", validAfter |-> 0, validBefore |-> 9,
      receiveNative |-> FALSE, counterSetHash |-> counterSetHash, exclusiveBase |-> exclusiveBase,
      exclusiveUntil |-> Absent],
   authorizationHash |-> "0xF1", signer |-> "0xAB", domain |-> "Covenant", types |-> Absent,
   primaryType |-> Absent, signature |-> "0xsigAB"]
FillBody(quote) ==
  [fill |-> [makerOrderHash |-> Absent, takerOrderHash |-> Absent, makerAuthHash |-> Absent,
             takerAuthHash |-> Absent, price |-> 3, baseAmount |-> 3, quoteAmount |-> quote,
             executorFeeQuoteAmount |-> Absent, fillNonce |-> "0xf1", settlementContract |-> "0xCD"],
   makerAuthorizationHash |-> "0xF1", takerAuthorizationHash |-> "0xF1",
   makerOrderHash |-> "0xF2", takerOrderHash |-> "0xf2"]
CancelBody ==
  [targetHash |-> "0xf1", signer |-> Absent, domain |-> "Covenant", types |-> Absent,
   primaryType |-> Absent, scheme |-> Absent, reason |-> Absent, nonce |-> "0xf2",
   signedNonce |-> Absent, signature |-> "0xsigAB"]

\* Each can be built, and all but the fill of the wrong quote and the bound
\* order, which the app's own constructor does write, are accepted.
BuiltAuthorization == BuildAuthorization(AuthorizationBody)
Bound == Binding(OneLeg, 4, 5)
BoundTerms ==
  [NormalizeOrder(OrderBody(Bound.counterSetHash, 4).order) EXCEPT !.trader = "0xAB"]

ASSUME ObjectsCanBeBuilt ==
  /\ CanBuildAuthorization(AuthorizationBody)
  /\ CanBuildOrder(OrderBody(Absent, Absent)) /\ CanBuildOrder(OrderBody("0xleg", 4))
  /\ CanBuildFill(FillBody(4)) /\ CanBuildFill(FillBody(5))
  /\ CanBuildRevocation({BuiltAuthorization}, CancelBody)

ASSUME AndAccepted ==
  /\ Accepted(BuiltAuthorization)
  /\ Accepted(BuildOrder(OrderBody(Absent, Absent))) /\ ~Accepted(BuildOrder(OrderBody("0xleg", 4)))
  /\ Accepted(BuildFill(FillBody(4))) /\ ~Accepted(BuildFill(FillBody(5)))
  /\ LET rev == BuildRevocation({BuiltAuthorization}, CancelBody) IN
     Accepted(rev) /\ CountsAgainst(rev, BuiltAuthorization)
  /\ Accepted(AppOrder("Covenant", "0xF1", BoundTerms, OneLeg, "0xsigAB"))
  /\ ~Accepted(AppOrder("Covenant", "0xF1", BoundTerms, OneLeg, "0xsigCD"))
=============================================================================
