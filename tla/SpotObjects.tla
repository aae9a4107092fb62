----------------------------- MODULE SpotObjects -----------------------------
(***************************************************************************)
(* The objects of aon:evm-spot: how the namespace package and the trading   *)
(* app build them, and which of them an executor accepts (builders.ts,      *)
(* validators/, verifiers/ and validateObject of aon-namespace-evm-spot,    *)
(* and the object constructors of covenant-frontend's aon.ts). An object is *)
(* a record with every field of its kind that anything here looks at.       *)
(* Receipts are ExecutorNetwork's.                                          *)
(***************************************************************************)
EXTENDS Integers, Sequences, FiniteSets

CONSTANTS
  Addresses,     \* the strings getAddress takes
  Hexes,         \* the strings that begin with 0x
  Hashes,        \* those of 32 bytes
  Numerals,      \* the strings BigInt reads
  Amounts,       \* the integers the app writes down
  ZeroHash,      \* 32 zero bytes
  Unit,          \* 10^18, the base units a price is for
  Absent,        \* a field that is left out
  Lower(_),      \* toLowerCase
  Checksum(_),   \* getAddress
  Text(_),       \* String(x), or toString
  Big(_),        \* BigInt(x), or Number(x)
  LegsHash(_),   \* keccak256(abi.encode(CounterLeg[]))
  ObjectHash(_), \* the hash finalizeObject gives an object for its content
  Proves(_, _)   \* verifyTypedData: this address signed this typed data

ASSUME StringsAssumption ==
  /\ \A a \in Addresses : /\ Checksum(a) \in Addresses /\ Lower(Checksum(a)) = Lower(a)
                          /\ \A b \in Addresses : Lower(b) = Lower(a) => Checksum(b) = Checksum(a)
  /\ \A h \in Hexes : Lower(Lower(h)) = Lower(h)
  /\ \A n \in Amounts : n \in Int /\ Text(n) \in Numerals /\ Big(Text(n)) = n
  /\ Hashes \subseteq Hexes /\ ZeroHash \in Hashes /\ Lower(ZeroHash) = ZeroHash
  /\ Unit \in Nat \ {0}
  /\ Absent \notin Addresses \cup Hexes /\ Absent \notin Amounts

NS == "aon:evm-spot"
Missing == << >>       \* no signature, or no counter set: the same as an empty one
Given(x, otherwise) == IF x = Absent THEN otherwise ELSE x        \* x ?? otherwise
Refs(obj) == {Lower(obj.references[i]) : i \in DOMAIN obj.references}

-----------------------------------------------------------------------------
(* The signed structs.                                                      *)

\* A signature covers the fields its EIP-712 type names, and no others.
AuthorizationFields ==
  {"grantor", "settlementContract", "baseToken", "quoteToken", "marketId", "sideMask",
   "maxBaseExposure", "maxQuoteExposure", "maxExecutorFeeQuote", "minPrice", "maxPrice",
   "validAfter", "validBefore", "authNonce"}
OrderFields ==
  {"trader", "marketId", "side", "price", "baseAmount", "orderNonce", "sessionAuthHash",
   "validAfter", "validBefore", "receiveNative", "counterSetHash", "exclusiveBase", "exclusiveUntil"}
RevocationFields == {"targetHash", "targetType", "reason", "nonce"}

\* The part of a signature that verifyTypedData is given.
Typed(sig) == [domain |-> sig.domain, types |-> sig.types, primaryType |-> sig.primaryType,
               message |-> sig.message, signature |-> sig.signature]
Eip712(signer, domain, types, primaryType, message, signature) ==
  [scheme |-> "eip712", signer |-> signer, domain |-> domain, types |-> types,
   primaryType |-> primaryType, message |-> message, signature |-> signature]

NormalizeAuthorization(a) ==
  [grantor |-> Checksum(a.grantor), settlementContract |-> Checksum(a.settlementContract),
   baseToken |-> Checksum(a.baseToken), quoteToken |-> Checksum(a.quoteToken),
   marketId |-> a.marketId, sideMask |-> Big(a.sideMask),
   maxBaseExposure |-> Text(a.maxBaseExposure), maxQuoteExposure |-> Text(a.maxQuoteExposure),
   maxExecutorFeeQuote |-> Text(Given(a.maxExecutorFeeQuote, 0)),
   minPrice |-> Text(a.minPrice), maxPrice |-> Text(a.maxPrice),
   validAfter |-> Text(a.validAfter), validBefore |-> Text(a.validBefore), authNonce |-> a.authNonce]

NormalizeOrder(o) ==
  [trader |-> Checksum(o.trader), marketId |-> o.marketId, side |-> Big(o.side),
   price |-> Text(o.price), baseAmount |-> Text(o.baseAmount), orderNonce |-> o.orderNonce,
   sessionAuthHash |-> o.sessionAuthHash, validAfter |-> Text(o.validAfter),
   validBefore |-> Text(o.validBefore), receiveNative |-> o.receiveNative = TRUE,
   counterSetHash |-> Given(o.counterSetHash, ZeroHash),
   exclusiveBase |-> Text(Given(o.exclusiveBase, 0)),
   exclusiveUntil |-> Text(Given(o.exclusiveUntil, 0))]

-----------------------------------------------------------------------------
(* builders.ts: `body` is the argument, `Can...` says that nothing throws.  *)

AuthorizationSignature(body) ==
  LET a == NormalizeAuthorization(body.authorization) IN
  Eip712(Checksum(Given(body.signer, a.grantor)), body.domain, Given(body.types, AuthorizationFields),
         Given(body.primaryType, "TradingSessionAuthorization"), a, body.signature)
CanBuildAuthorization(body) ==
  LET a == body.authorization  sig == AuthorizationSignature(body) IN
  /\ {a.grantor, a.settlementContract, a.baseToken, a.quoteToken} \subseteq Addresses
  /\ body.signer \in Addresses \cup {Absent}
  /\ Lower(sig.signer) = Lower(sig.message.grantor)
  /\ body.signature \in Hexes /\ Proves(Checksum(sig.signer), Typed(sig))
BuildAuthorization(body) ==
  LET sig == AuthorizationSignature(body) IN
  [objectType |-> "authorization", namespace |-> Given(body.namespace, NS),
   references |-> Given(body.references, << >>),
   payload |-> [authorizationType |-> "evm_spot_session", authorization |-> sig.message],
   signature |-> sig]

OrderSignature(body) ==
  LET o == NormalizeOrder(body.order) IN
  Eip712(Checksum(Given(body.signer, o.trader)), body.domain, Given(body.types, OrderFields),
         Given(body.primaryType, "SignedOrder"), o, body.signature)
CanBuildOrder(body) ==
  LET o == body.order  sig == OrderSignature(body) IN
  /\ o.trader \in Addresses /\ body.signer \in Addresses \cup {Absent}
  /\ {o.marketId, o.orderNonce, o.sessionAuthHash, body.signature} \subseteq Hexes
  /\ Lower(sig.signer) = Lower(sig.message.trader)
  /\ Proves(Checksum(sig.signer), Typed(sig))
\* The counter set a bound order is signed for has no place in what is built.
BuildOrder(body) ==
  LET sig == OrderSignature(body) IN
  [objectType |-> "order", namespace |-> NS, references |-> <<Lower(body.authorizationHash)>>,
   payload |-> [orderType |-> "evm_spot_order", order |-> sig.message, counterSet |-> Missing],
   signature |-> sig]

FillTerms(body) ==
  [makerOrderHash |-> Given(body.fill.makerOrderHash, Lower(body.makerOrderHash)),
   takerOrderHash |-> Given(body.fill.takerOrderHash, Lower(body.takerOrderHash)),
   makerAuthHash |-> Given(body.fill.makerAuthHash, Lower(body.makerAuthorizationHash)),
   takerAuthHash |-> Given(body.fill.takerAuthHash, Lower(body.takerAuthorizationHash)),
   price |-> Text(body.fill.price), baseAmount |-> Text(body.fill.baseAmount),
   quoteAmount |-> Text(body.fill.quoteAmount),
   executorFeeQuoteAmount |-> Text(Given(body.fill.executorFeeQuoteAmount, 0)),
   fillNonce |-> body.fill.fillNonce, settlementContract |-> body.fill.settlementContract]
CanBuildFill(body) ==
  LET f == FillTerms(body) IN
  {f.makerOrderHash, f.takerOrderHash, f.makerAuthHash, f.takerAuthHash, f.fillNonce} \subseteq Hexes
FillObject(references, terms) ==
  [objectType |-> "fill", namespace |-> NS, references |-> references,
   payload |-> [fillType |-> "evm_spot_fill", fill |-> terms], signature |-> Missing]
BuildFill(body) ==
  FillObject(<<Lower(body.makerAuthorizationHash), Lower(body.takerAuthorizationHash),
               Lower(body.makerOrderHash), Lower(body.takerOrderHash)>>, FillTerms(body))

\* The target is looked up among the objects the caller knows; only an
\* authorization says by itself who may revoke it.
Target(objects, body) == CHOOSE t \in objects : Lower(ObjectHash(t)) = Lower(body.targetHash)
RevocationSignature(target, body) ==
  [Eip712(Given(body.signer, IF target.objectType = "authorization"
                             THEN target.payload.authorization.grantor ELSE Absent),
          body.domain, Given(body.types, RevocationFields), Given(body.primaryType, "AonRevocation"),
          [targetHash |-> Lower(body.targetHash), targetType |-> target.objectType,
           reason |-> Given(body.reason, "user_revoked"), nonce |-> Given(body.nonce, body.signedNonce)],
          body.signature) EXCEPT !.scheme = Given(body.scheme, "eip712")]
CanBuildRevocation(objects, body) ==
  LET sig == RevocationSignature(Target(objects, body), body) IN
  /\ \E t \in objects : Lower(ObjectHash(t)) = Lower(body.targetHash)
  /\ \A o \in objects : o.objectType = "revocation" => Lower(body.targetHash) \notin Refs(o)
  /\ sig.signer \in Addresses /\ {sig.message.nonce, body.signature} \subseteq Hexes
  /\ Proves(Checksum(sig.signer), Typed(sig))
RevocationObject(namespace, msg, sig) ==
  [objectType |-> "revocation", namespace |-> namespace, references |-> <<msg.targetHash>>,
   payload |-> [targetType |-> msg.targetType, targetHash |-> msg.targetHash,
                reason |-> msg.reason, nonce |-> msg.nonce, signature |-> sig],
   signature |-> Missing]
BuildRevocation(objects, body) ==
  LET t == Target(objects, body)  sig == RevocationSignature(t, body) IN
  RevocationObject(t.namespace, sig.message, sig)

-----------------------------------------------------------------------------
(* The app's constructors (aon.ts).                                         *)

Legs(legs) == [i \in DOMAIN legs |-> [orderHash |-> legs[i].orderHash, maxBase |-> Text(legs[i].maxBase)]]
IsBound(legs, exclusiveBase) == legs # << >> /\ exclusiveBase > 0
\* What buildOrderMessage says of an order's counterparties.
Binding(legs, exclusiveBase, exclusiveUntil) ==
  LET bound == IsBound(legs, exclusiveBase) IN
  [counterSetHash |-> IF bound THEN LegsHash(legs) ELSE ZeroHash,
   exclusiveBase |-> Text(IF bound THEN exclusiveBase ELSE 0),
   exclusiveUntil |-> Text(IF bound THEN exclusiveUntil ELSE 0)]

AppAuthorization(domain, a, sig) ==
  [objectType |-> "authorization", namespace |-> NS, references |-> << >>,
   payload |-> [authorizationType |-> "evm_spot_session", authorization |-> a],
   signature |-> Eip712(a.grantor, domain, AuthorizationFields, "TradingSessionAuthorization", a, sig)]
AppOrder(domain, authHash, o, legs, sig) ==
  [objectType |-> "order", namespace |-> NS, references |-> <<Lower(authHash)>>,
   payload |-> [orderType |-> "evm_spot_order", order |-> o,
                counterSet |-> IF o.counterSetHash # ZeroHash THEN Legs(legs) ELSE Missing],
   signature |-> Eip712(o.trader, domain, OrderFields, "SignedOrder", o, sig)]
AppFill(mA, tA, mO, tO, price, base, fee, nonce, contract) ==
  FillObject(<<Lower(mA), Lower(tA), Lower(mO), Lower(tO)>>,
    [makerOrderHash |-> Lower(mO), takerOrderHash |-> Lower(tO),
     makerAuthHash |-> Lower(mA), takerAuthHash |-> Lower(tA),
     price |-> Text(price), baseAmount |-> Text(base), quoteAmount |-> Text((base * price) \div Unit),
     executorFeeQuoteAmount |-> Text(fee), fillNonce |-> nonce, settlementContract |-> Checksum(contract)])
RevocationMessage(auth, nonce) ==
  [targetHash |-> Lower(ObjectHash(auth)), targetType |-> "authorization",
   reason |-> "maker_cancelled", nonce |-> nonce]
AppRevocation(domain, auth, msg, sig) ==
  RevocationObject(NS, msg,
    Eip712(auth.payload.authorization.grantor, domain, RevocationFields, "AonRevocation", msg, sig))

-----------------------------------------------------------------------------
(* The validators: an object they refuse is dropped before evaluation.      *)

\* verifySig
SignedBy(sig, signer, primaryType) ==
  /\ sig # Missing /\ sig.scheme = "eip712" /\ sig.primaryType = primaryType
  /\ Lower(sig.signer) = Lower(signer)
  /\ signer \in Addresses /\ Proves(Checksum(signer), Typed(sig))

\* verifyAuthorizationObject looks at whoever signed, not at the grantor.
AuthorizationAccepted(obj) ==
  /\ obj.signature # Missing /\ obj.signature.scheme = "eip712"
  /\ obj.payload.authorization = obj.signature.message
  /\ obj.signature.signer \in Addresses /\ Proves(obj.signature.signer, Typed(obj.signature))

CounterSetAccepted(set, signed) ==
  IF Lower(signed) = ZeroHash THEN set = Missing
  ELSE /\ Len(set) \in 1..32
       /\ \A i \in DOMAIN set : set[i].orderHash \in Hashes /\ set[i].maxBase \in Numerals
       /\ \A i, j \in DOMAIN set : Lower(set[i].orderHash) = Lower(set[j].orderHash) => i = j
       /\ Lower(LegsHash([i \in DOMAIN set |-> [orderHash |-> set[i].orderHash,
                                               maxBase |-> Big(set[i].maxBase)]])) = Lower(signed)
OrderAccepted(obj) ==
  LET o == obj.payload.order IN
  /\ Len(obj.references) = 1
  /\ obj.signature # Missing /\ o = obj.signature.message
  /\ SignedBy(obj.signature, o.trader, "SignedOrder")
  /\ CounterSetAccepted(obj.payload.counterSet, o.counterSetHash)
  /\ {o.exclusiveBase, o.baseAmount} \subseteq Numerals /\ Big(o.exclusiveBase) <= Big(o.baseAmount)

NamedIn(f) == {Lower(h) : h \in {f.makerAuthHash, f.takerAuthHash, f.makerOrderHash, f.takerOrderHash}}
FillAccepted(obj) ==
  LET f == obj.payload.fill IN
  /\ Len(obj.references) = 4 /\ NamedIn(f) \subseteq Refs(obj)
  /\ {f.baseAmount, f.price, f.quoteAmount, f.executorFeeQuoteAmount} \subseteq Numerals
  /\ Big(f.baseAmount) > 0 /\ Big(f.price) > 0
  /\ (Big(f.baseAmount) * Big(f.price)) \div Unit = Big(f.quoteAmount)
  /\ Big(f.executorFeeQuoteAmount) >= 0

RevocationAccepted(obj) ==
  LET p == obj.payload IN
  /\ Lower(p.targetHash) \in Refs(obj)
  /\ p.signature # Missing
  /\ p.signature.message = [targetHash |-> p.targetHash, targetType |-> p.targetType,
                            reason |-> p.reason, nonce |-> p.nonce]
  /\ SignedBy(p.signature, p.signature.signer, "AonRevocation")

\* validateObject; of a type it does not know it accepts everything.
Accepted(obj) ==
  /\ obj.objectType = "authorization" => AuthorizationAccepted(obj)
  /\ obj.objectType = "order" => OrderAccepted(obj)
  /\ obj.objectType = "fill" => FillAccepted(obj)
  /\ obj.objectType = "revocation" => RevocationAccepted(obj)

\* The evaluator counts a revocation that the owner of its target signed.
Owner(target) ==
  Lower(IF target.objectType = "authorization" THEN target.payload.authorization.grantor
        ELSE target.payload.order.trader)
CountsAgainst(rev, target) ==
  /\ rev.objectType = "revocation" /\ rev.namespace = NS
  /\ Lower(rev.payload.targetHash) = Lower(ObjectHash(target))
  /\ Owner(target) = Lower(rev.payload.signature.signer)
=============================================================================
