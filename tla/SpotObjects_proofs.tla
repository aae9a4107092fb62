-------------------------- MODULE SpotObjects_proofs --------------------------
(***************************************************************************)
(* What is built is accepted: the proofs that the objects of the namespace  *)
(* package's builders and of the trading app pass an executor's validators, *)
(* and that the one kind that does not, a bound order out of builders.ts,   *)
(* never does.                                                              *)
(***************************************************************************)
EXTENDS SpotObjects, TLAPS

\* The fields of a signature, and what verifyTypedData is given of it.
LEMMA SignatureFields ==
  ASSUME NEW s, NEW d, NEW t, NEW p, NEW m, NEW x
  PROVE  LET sig == Eip712(s, d, t, p, m, x) IN
         /\ sig.scheme = "eip712" /\ sig.signer = s /\ sig.primaryType = p /\ sig.message = m
         /\ sig # Missing
  BY DEF Eip712, Missing

-----------------------------------------------------------------------------
(* Nothing a trader agrees to is outside the signature: the fields of each   *)
(* message are those its EIP-712 type names (AUTH_TYPES, ORDER_TYPES and     *)
(* REVOCATION_TYPES in namespace.ts; normalizeAuthorization and the order    *)
(* and the revocation message in builders.ts).                               *)
THEOREM EveryTermIsSigned ==
  /\ \A a : DOMAIN NormalizeAuthorization(a) = AuthorizationFields
  /\ \A o : DOMAIN NormalizeOrder(o) = OrderFields
  /\ \A target, body : DOMAIN RevocationSignature(target, body).message = RevocationFields
<1>1. \A a : DOMAIN NormalizeAuthorization(a) = AuthorizationFields
  BY DEF NormalizeAuthorization, AuthorizationFields
<1>2. \A o : DOMAIN NormalizeOrder(o) = OrderFields
  BY DEF NormalizeOrder, OrderFields
<1>3. \A target, body : DOMAIN RevocationSignature(target, body).message = RevocationFields
  BY DEF RevocationSignature, Eip712, RevocationFields
<1>4. QED
  BY <1>1, <1>2, <1>3

(* An authorization that buildEvmSpotAuthorizationObject makes is one that   *)
(* verifyAuthorizationObject accepts, and the grantor himself signed it,     *)
(* which the validator does not look at.                                     *)
THEOREM BuiltAuthorizationsAccepted ==
  ASSUME NEW body, CanBuildAuthorization(body)
  PROVE  LET obj == BuildAuthorization(body) IN
         /\ Accepted(obj)
         /\ Lower(obj.signature.signer) = Lower(obj.payload.authorization.grantor)
<1> DEFINE a == NormalizeAuthorization(body.authorization)
           sig == AuthorizationSignature(body)
           obj == BuildAuthorization(body)
<1>1. /\ sig.scheme = "eip712" /\ sig.message = a /\ sig # Missing
      /\ sig.signer = Checksum(Given(body.signer, a.grantor))
  BY SignatureFields DEF AuthorizationSignature
<1>2. Given(body.signer, a.grantor) \in Addresses
  BY StringsAssumption DEF CanBuildAuthorization, NormalizeAuthorization, Given
<1>3. sig.signer \in Addresses /\ Checksum(sig.signer) = sig.signer
  BY <1>1, <1>2, StringsAssumption
<1>4. Proves(sig.signer, Typed(sig)) /\ Lower(sig.signer) = Lower(a.grantor)
  BY <1>1, <1>3 DEF CanBuildAuthorization
<1>5. /\ obj.objectType = "authorization" /\ obj.signature = sig
      /\ obj.payload.authorization = sig.message
  BY DEF BuildAuthorization
<1>6. QED
  BY <1>1, <1>3, <1>4, <1>5 DEF Accepted, AuthorizationAccepted

-----------------------------------------------------------------------------
(* An order that buildEvmSpotOrderObject makes of an open order, one without *)
(* named counterparties, is accepted, as long as it reserves no more than it *)
(* has (validateOrderObject).                                                *)
THEOREM BuiltOpenOrdersAccepted ==
  ASSUME NEW body, CanBuildOrder(body), body.primaryType = Absent,
         Lower(Given(body.order.counterSetHash, ZeroHash)) = ZeroHash,
         LET o == NormalizeOrder(body.order) IN
           /\ {o.exclusiveBase, o.baseAmount} \subseteq Numerals
           /\ Big(o.exclusiveBase) <= Big(o.baseAmount)
  PROVE  Accepted(BuildOrder(body))
<1> DEFINE o == NormalizeOrder(body.order)
           sig == OrderSignature(body)
           obj == BuildOrder(body)
<1>1. /\ sig.scheme = "eip712" /\ sig.message = o /\ sig # Missing
      /\ sig.primaryType = "SignedOrder"
      /\ sig.signer = Checksum(Given(body.signer, o.trader))
  BY SignatureFields DEF OrderSignature, Given
<1>2. /\ obj.objectType = "order" /\ obj.signature = sig /\ Len(obj.references) = 1
      /\ obj.payload.order = o /\ obj.payload.counterSet = Missing
  BY <1>1 DEF BuildOrder
<1>3. o.trader = Checksum(body.order.trader) /\ o.counterSetHash = Given(body.order.counterSetHash, ZeroHash)
  BY DEF NormalizeOrder
<1>4. /\ o.trader \in Addresses /\ Lower(sig.signer) = Lower(o.trader)
  BY <1>1, <1>3, StringsAssumption DEF CanBuildOrder
<1>5. Proves(Checksum(sig.signer), Typed(sig))
  BY DEF CanBuildOrder
<1>6. Checksum(sig.signer) = Checksum(o.trader)
  <2>1. Given(body.signer, o.trader) \in Addresses
    BY <1>4 DEF CanBuildOrder, Given
  <2>2. QED
    BY <1>1, <1>4, <2>1, StringsAssumption
<1>7. SignedBy(sig, o.trader, "SignedOrder")
  BY <1>1, <1>4, <1>5, <1>6 DEF SignedBy
<1>8. CounterSetAccepted(Missing, o.counterSetHash)
  BY <1>3 DEF CounterSetAccepted
<1>9. OrderAccepted(obj)
  BY <1>1, <1>2, <1>7, <1>8 DEF OrderAccepted
<1>10. QED
  BY <1>2, <1>9 DEF Accepted

(* A bound order that buildEvmSpotOrderObject makes is accepted by nobody:    *)
(* it takes the counterSetHash the trader signed, and has no counter set to  *)
(* put beside it (builders.ts:100-160, validators/objects.ts:47-54).         *)
THEOREM BuiltBoundOrdersRefused ==
  ASSUME NEW body, Lower(Given(body.order.counterSetHash, ZeroHash)) # ZeroHash
  PROVE  ~Accepted(BuildOrder(body))
<1> DEFINE o == NormalizeOrder(body.order)
           obj == BuildOrder(body)
<1>1. OrderSignature(body).message = o
  BY SignatureFields DEF OrderSignature
<1>2. /\ obj.objectType = "order" /\ obj.payload.order = o /\ obj.payload.counterSet = Missing
  BY <1>1 DEF BuildOrder
<1>3. o.counterSetHash = Given(body.order.counterSetHash, ZeroHash)
  BY DEF NormalizeOrder
<1>4. ~CounterSetAccepted(Missing, o.counterSetHash)
  BY <1>3 DEF CounterSetAccepted, Missing
<1>5. QED
  BY <1>2, <1>4 DEF Accepted, OrderAccepted

-----------------------------------------------------------------------------
(* A fill that buildEvmSpotFillObject makes is accepted exactly when the     *)
(* hashes it was given beside the references are theirs and its amounts     *)
(* agree with each other, neither of which the builder looks at              *)
(* (validateFillObject).                                                     *)
GoodAmounts(f) ==
  /\ {f.baseAmount, f.price, f.quoteAmount, f.executorFeeQuoteAmount} \subseteq Numerals
  /\ Big(f.baseAmount) > 0 /\ Big(f.price) > 0
  /\ (Big(f.baseAmount) * Big(f.price)) \div Unit = Big(f.quoteAmount)
  /\ Big(f.executorFeeQuoteAmount) >= 0
FillTargets(body) ==
  {body.makerAuthorizationHash, body.takerAuthorizationHash, body.makerOrderHash, body.takerOrderHash}
THEOREM BuiltFillsAccepted ==
  ASSUME NEW body, FillTargets(body) \subseteq Hexes
  PROVE  Accepted(BuildFill(body)) <=>
           /\ NamedIn(FillTerms(body)) \subseteq {Lower(h) : h \in FillTargets(body)}
           /\ GoodAmounts(FillTerms(body))
<1> DEFINE obj == BuildFill(body)
           refs == <<Lower(body.makerAuthorizationHash), Lower(body.takerAuthorizationHash),
                     Lower(body.makerOrderHash), Lower(body.takerOrderHash)>>
<1>1. obj.objectType = "fill" /\ obj.payload.fill = FillTerms(body) /\ obj.references = refs
  BY DEF BuildFill, FillObject
<1>2. Len(refs) = 4 /\ {refs[i] : i \in DOMAIN refs} = {Lower(h) : h \in FillTargets(body)}
  BY DEF FillTargets
<1>3. \A h \in FillTargets(body) : Lower(Lower(h)) = Lower(h)
  BY StringsAssumption
<1>4. Refs(obj) = {Lower(h) : h \in FillTargets(body)}
  <2>1. Refs(obj) = {Lower(refs[i]) : i \in DOMAIN refs}
    BY <1>1 DEF Refs
  <2>2. DOMAIN refs = {1, 2, 3, 4}
    OBVIOUS
  <2>3. /\ refs[1] = Lower(body.makerAuthorizationHash) /\ refs[2] = Lower(body.takerAuthorizationHash)
        /\ refs[3] = Lower(body.makerOrderHash) /\ refs[4] = Lower(body.takerOrderHash)
    OBVIOUS
  <2>4. {Lower(refs[i]) : i \in {1, 2, 3, 4}}
          = {Lower(refs[1]), Lower(refs[2]), Lower(refs[3]), Lower(refs[4])}
    OBVIOUS
  <2>5. {Lower(h) : h \in FillTargets(body)}
          = {Lower(body.makerAuthorizationHash), Lower(body.takerAuthorizationHash),
             Lower(body.makerOrderHash), Lower(body.takerOrderHash)}
    BY DEF FillTargets
  <2> HIDE DEF refs
  <2>6. QED
    BY <1>3, <2>1, <2>2, <2>3, <2>4, <2>5 DEF FillTargets
<1>5. FillAccepted(obj) <=> /\ NamedIn(FillTerms(body)) \subseteq Refs(obj)
                            /\ GoodAmounts(FillTerms(body))
  BY <1>1, <1>2 DEF FillAccepted, GoodAmounts
<1>6. QED
  BY <1>1, <1>4, <1>5 DEF Accepted

-----------------------------------------------------------------------------
(* A revocation that buildEvmSpotRevocationObject makes without being told   *)
(* who signs it is one of an authorization, is accepted, and cancels it with *)
(* the evaluator: the builder, validateRevocationObject and the evaluator's  *)
(* ownerOf mean the same signer.                                             *)
THEOREM BuiltRevocationsCancel ==
  ASSUME NEW objects, NEW body, CanBuildRevocation(objects, body),
         {body.signer, body.scheme, body.primaryType} = {Absent},
         body.targetHash \in Hexes,
         Target(objects, body).namespace = NS
  PROVE  LET t == Target(objects, body)  rev == BuildRevocation(objects, body) IN
         /\ t \in objects /\ t.objectType = "authorization"
         /\ Accepted(rev) /\ CountsAgainst(rev, t)
<1> DEFINE t == Target(objects, body)
           sig == RevocationSignature(t, body)
           rev == BuildRevocation(objects, body)
           msg == [targetHash |-> Lower(body.targetHash), targetType |-> t.objectType,
                   reason |-> Given(body.reason, "user_revoked"),
                   nonce |-> Given(body.nonce, body.signedNonce)]
<1>0. body.signer = Absent /\ body.scheme = Absent /\ body.primaryType = Absent
  OBVIOUS
<1>1. /\ sig.scheme = "eip712" /\ sig.primaryType = "AonRevocation" /\ sig.message = msg
      /\ sig # Missing
      /\ sig.signer = IF t.objectType = "authorization" THEN t.payload.authorization.grantor ELSE Absent
  BY <1>0 DEF RevocationSignature, Eip712, Given, Missing
<1>2. t \in objects /\ Lower(ObjectHash(t)) = Lower(body.targetHash)
  BY DEF CanBuildRevocation, Target
<1>3. sig.signer \in Addresses /\ Proves(Checksum(sig.signer), Typed(sig))
  BY DEF CanBuildRevocation
<1>4. t.objectType = "authorization" /\ sig.signer = t.payload.authorization.grantor
  BY <1>1, <1>3, StringsAssumption
<1>5. /\ rev.objectType = "revocation" /\ rev.namespace = t.namespace
      /\ rev.references = <<msg.targetHash>>
      /\ rev.payload = [targetType |-> msg.targetType, targetHash |-> msg.targetHash,
                        reason |-> msg.reason, nonce |-> msg.nonce, signature |-> sig]
  BY <1>1 DEF BuildRevocation, RevocationObject
<1>6. Lower(rev.payload.targetHash) = Lower(ObjectHash(t))
  <2>1. rev.payload.targetHash = Lower(body.targetHash)
    BY <1>5
  <2>2. QED
    BY <1>2, <2>1, StringsAssumption
<1>7. Lower(rev.payload.targetHash) \in Refs(rev)
  <2>1. rev.references[1] = msg.targetHash /\ 1 \in DOMAIN rev.references
    BY <1>5
  <2>2. QED
    BY <1>5, <2>1 DEF Refs
<1>8. SignedBy(sig, sig.signer, "AonRevocation")
  BY <1>1, <1>3 DEF SignedBy
<1>9. RevocationAccepted(rev)
  BY <1>1, <1>5, <1>7, <1>8 DEF RevocationAccepted
<1>10. CountsAgainst(rev, t)
  BY <1>2, <1>4, <1>5, <1>6 DEF CountsAgainst, Owner
<1>11. QED
  BY <1>2, <1>4, <1>5, <1>9, <1>10 DEF Accepted

-----------------------------------------------------------------------------
(* What the trading app publishes, every executor accepts. First the        *)
(* authorizations its wallet signs (authObject in aon.ts).                   *)
THEOREM AppAuthorizationsAccepted ==
  ASSUME NEW domain, NEW a, NEW sig, a.grantor \in Addresses,
         Proves(a.grantor, Typed(AppAuthorization(domain, a, sig).signature))
  PROVE  Accepted(AppAuthorization(domain, a, sig))
  BY SignatureFields DEF AppAuthorization, Accepted, AuthorizationAccepted

LegType == [orderHash : Hashes, maxBase : Amounts]
LEMMA LegsShape ==
  ASSUME NEW legs \in Seq(LegType), NEW set, set = Legs(legs)
  PROVE  /\ DOMAIN set = DOMAIN legs /\ DOMAIN legs = 1..Len(legs) /\ Len(legs) \in Nat
         /\ Len(set) = Len(legs)
         /\ legs # << >> => Len(legs) # 0
         /\ \A i \in DOMAIN legs : legs[i] \in LegType
         /\ \A i \in DOMAIN legs : set[i].orderHash = legs[i].orderHash
         /\ \A i \in DOMAIN legs : set[i].maxBase = Text(legs[i].maxBase)
<1> DEFINE leg(i) == [orderHash |-> legs[i].orderHash, maxBase |-> Text(legs[i].maxBase)]
<1>1. DOMAIN legs = 1..Len(legs) /\ Len(legs) \in Nat /\ \A i \in DOMAIN legs : legs[i] \in LegType
  OBVIOUS
<1>2. set = [i \in 1..Len(legs) |-> leg(i)]
  BY <1>1 DEF Legs
<1>3. set \in [1..Len(legs) -> {leg(i) : i \in 1..Len(legs)}]
  BY <1>2
<1>4. \A i \in 1..Len(legs) : set[i] = leg(i)
  BY <1>2
<1>5. \A S, n : n \in Nat => \A f \in [1..n -> S] : f \in Seq(S) /\ DOMAIN f = 1..n /\ Len(f) = n
  OBVIOUS
<1>6. DOMAIN set = 1..Len(legs) /\ Len(set) = Len(legs)
  <2> HIDE DEF leg
  <2>1. QED
    BY <1>1, <1>3, <1>5
<1>7. legs # << >> => Len(legs) # 0
  OBVIOUS
<1>8. ASSUME NEW i \in DOMAIN legs
      PROVE  set[i].orderHash = legs[i].orderHash /\ set[i].maxBase = Text(legs[i].maxBase)
  <2>1. i \in 1..Len(legs)
    BY <1>1
  <2>2. set[i] = leg(i)
    BY <1>4, <2>1
  <2>3. QED
    BY <2>2
<1>10. QED
  BY <1>1, <1>6, <1>7, <1>8, Zenon

(* The orders, bound ones too: the counter set goes out with the order that  *)
(* was signed for its hash (buildOrderMessage and orderObject in aon.ts).    *)
THEOREM AppOrdersAccepted ==
  ASSUME NEW domain, NEW authHash, NEW o, NEW sig,
         NEW legs \in Seq(LegType), Len(legs) <= 32,
         \A i, j \in DOMAIN legs : Lower(legs[i].orderHash) = Lower(legs[j].orderHash) => i = j,
         Lower(LegsHash(legs)) = LegsHash(legs),
         NEW size \in Amounts, NEW exclusive \in Amounts, NEW until, 0 \in Amounts,
         0 <= exclusive, exclusive <= size, o.baseAmount = Text(size),
         LET b == Binding(legs, exclusive, until) IN
           o.counterSetHash = b.counterSetHash /\ o.exclusiveBase = b.exclusiveBase,
         o.trader \in Addresses,
         Proves(Checksum(o.trader), Typed(AppOrder(domain, authHash, o, legs, sig).signature))
  PROVE  Accepted(AppOrder(domain, authHash, o, legs, sig))
<1> DEFINE obj == AppOrder(domain, authHash, o, legs, sig)
           bound == IsBound(legs, exclusive)
<1>1. /\ obj.objectType = "order" /\ Len(obj.references) = 1 /\ obj.payload.order = o
      /\ obj.payload.counterSet = IF o.counterSetHash # ZeroHash THEN Legs(legs) ELSE Missing
      /\ obj.signature = Eip712(o.trader, domain, OrderFields, "SignedOrder", o, sig)
  BY DEF AppOrder
<1>2. SignedBy(obj.signature, o.trader, "SignedOrder") /\ obj.signature # Missing
      /\ obj.signature.message = o
  BY <1>1, SignatureFields DEF SignedBy
<1>3. /\ o.counterSetHash = IF bound THEN LegsHash(legs) ELSE ZeroHash
      /\ o.exclusiveBase = Text(IF bound THEN exclusive ELSE 0)
  BY DEF Binding
<1>4. Lower(o.counterSetHash) = o.counterSetHash
  BY <1>3, StringsAssumption
<1>5. {o.exclusiveBase, o.baseAmount} \subseteq Numerals /\ Big(o.exclusiveBase) <= Big(o.baseAmount)
  BY <1>3, StringsAssumption
<1>6. CounterSetAccepted(obj.payload.counterSet, o.counterSetHash)
  <2>1. CASE o.counterSetHash = ZeroHash
    BY <1>1, <1>4, <2>1 DEF CounterSetAccepted
  <2>2. CASE o.counterSetHash # ZeroHash
    <3> DEFINE set == Legs(legs)
    <3>1. bound /\ o.counterSetHash = LegsHash(legs) /\ legs # << >>
      BY <1>3, <2>2 DEF IsBound
    <3>2. /\ DOMAIN set = DOMAIN legs /\ DOMAIN legs = 1..Len(legs)
          /\ Len(set) = Len(legs) /\ Len(set) \in 1..32
      <4>1. /\ DOMAIN set = DOMAIN legs /\ DOMAIN legs = 1..Len(legs) /\ Len(legs) \in Nat
            /\ Len(set) = Len(legs) /\ Len(legs) # 0
        BY <3>1, LegsShape
      <4>2. Len(legs) \in 1..32
        <5>1. \A n \in Nat : n # 0 /\ n <= 32 => n \in 1..32
          OBVIOUS
        <5>2. QED
          BY <4>1, <5>1, Zenon
      <4>3. QED
        BY <4>1, <4>2, Zenon
    <3>3. \A i \in DOMAIN legs : /\ legs[i] \in LegType
                                 /\ set[i].orderHash = legs[i].orderHash
                                 /\ set[i].maxBase = Text(legs[i].maxBase)
      BY LegsShape
    <3>4. \A i \in DOMAIN set : set[i].orderHash \in Hashes /\ set[i].maxBase \in Numerals
      BY <3>2, <3>3, StringsAssumption DEF LegType
    <3>5. [i \in DOMAIN set |-> [orderHash |-> set[i].orderHash, maxBase |-> Big(set[i].maxBase)]] = legs
      <4>1. \A i \in DOMAIN legs :
              [orderHash |-> set[i].orderHash, maxBase |-> Big(set[i].maxBase)] = legs[i]
        BY <3>3, StringsAssumption DEF LegType
      <4> HIDE DEF set
      <4>2. legs = [i \in DOMAIN legs |-> legs[i]]
        OBVIOUS
      <4>3. QED
        BY <3>2, <4>1, <4>2
    <3>6. \A i, j \in DOMAIN set : Lower(set[i].orderHash) = Lower(set[j].orderHash) => i = j
      BY <3>2, <3>3
    <3>7. CounterSetAccepted(set, o.counterSetHash)
      <4> HIDE DEF set
      <4>1. QED
        BY <1>4, <2>2, <3>1, <3>2, <3>4, <3>5, <3>6 DEF CounterSetAccepted
    <3>8. QED
      BY <1>1, <2>2, <3>7
  <2>3. QED
    BY <2>1, <2>2
<1>7. QED
  BY <1>1, <1>2, <1>5, <1>6 DEF Accepted, OrderAccepted

(* The fills, whose quote is computed as the validator computes it, rounded  *)
(* down from the same price (fillObject in aon.ts).                          *)
THEOREM AppFillsAccepted ==
  ASSUME NEW mA, NEW tA, NEW mO, NEW tO, {mA, tA, mO, tO} \subseteq Hexes,
         NEW price \in Amounts, NEW base \in Amounts, NEW fee \in Amounts,
         price > 0, base > 0, fee >= 0, (base * price) \div Unit \in Amounts,
         NEW nonce, NEW contract
  PROVE  Accepted(AppFill(mA, tA, mO, tO, price, base, fee, nonce, contract))
<1> DEFINE obj == AppFill(mA, tA, mO, tO, price, base, fee, nonce, contract)
           f == obj.payload.fill
           refs == <<Lower(mA), Lower(tA), Lower(mO), Lower(tO)>>
<1>1. /\ obj.objectType = "fill" /\ obj.references = refs
      /\ f.makerOrderHash = Lower(mO) /\ f.takerOrderHash = Lower(tO)
      /\ f.makerAuthHash = Lower(mA) /\ f.takerAuthHash = Lower(tA)
      /\ f.price = Text(price) /\ f.baseAmount = Text(base) /\ f.executorFeeQuoteAmount = Text(fee)
      /\ f.quoteAmount = Text((base * price) \div Unit)
  BY DEF AppFill, FillObject
<1>2. DOMAIN refs = 1..4 /\ Len(refs) = 4
  OBVIOUS
<1>3. /\ refs[1] = Lower(mA) /\ refs[2] = Lower(tA) /\ refs[3] = Lower(mO) /\ refs[4] = Lower(tO)
  OBVIOUS
<1>4. NamedIn(f) = {Lower(Lower(mA)), Lower(Lower(tA)), Lower(Lower(mO)), Lower(Lower(tO))}
  BY <1>1 DEF NamedIn
<1>5. {1, 2, 3, 4} \subseteq DOMAIN refs
  BY <1>2
<1> HIDE DEF f, refs
<1>6. NamedIn(f) \subseteq Refs(obj)
  BY <1>1, <1>3, <1>4, <1>5 DEF Refs
<1>7. /\ {f.baseAmount, f.price, f.quoteAmount, f.executorFeeQuoteAmount} \subseteq Numerals
      /\ Big(f.baseAmount) = base /\ Big(f.price) = price /\ Big(f.executorFeeQuoteAmount) = fee
      /\ Big(f.quoteAmount) = (base * price) \div Unit
  BY <1>1, StringsAssumption
<1>8. FillAccepted(obj)
  <2>1. obj.payload.fill = f
    BY DEF f
  <2>2. QED
    BY <1>1, <1>2, <1>6, <1>7, <2>1 DEF FillAccepted
<1>9. QED
  BY <1>1, <1>8 DEF Accepted

(* A free cancel is accepted and cancels: the evaluator takes its signer for *)
(* the owner of the authorization (buildRevocationMessage and                *)
(* revocationObject in aon.ts, ownerOf in the evaluator).                    *)
THEOREM AppRevocationsCancel ==
  ASSUME NEW domain, NEW auth, NEW nonce, NEW sig,
         auth.objectType = "authorization", ObjectHash(auth) \in Hexes,
         auth.payload.authorization.grantor \in Addresses,
         LET rev == AppRevocation(domain, auth, RevocationMessage(auth, nonce), sig) IN
           Proves(Checksum(auth.payload.authorization.grantor), Typed(rev.payload.signature))
  PROVE  LET rev == AppRevocation(domain, auth, RevocationMessage(auth, nonce), sig) IN
         Accepted(rev) /\ CountsAgainst(rev, auth)
<1> DEFINE msg == RevocationMessage(auth, nonce)
           rev == AppRevocation(domain, auth, msg, sig)
           who == auth.payload.authorization.grantor
           sigd == Eip712(who, domain, RevocationFields, "AonRevocation", msg, sig)
<1>1. /\ rev.objectType = "revocation" /\ rev.namespace = NS /\ rev.references = <<msg.targetHash>>
      /\ rev.payload = [targetType |-> msg.targetType, targetHash |-> msg.targetHash,
                        reason |-> msg.reason, nonce |-> msg.nonce, signature |-> sigd]
  BY DEF AppRevocation, RevocationObject
<1>2. /\ msg = [targetHash |-> msg.targetHash, targetType |-> msg.targetType,
                reason |-> msg.reason, nonce |-> msg.nonce]
      /\ Lower(msg.targetHash) = Lower(ObjectHash(auth))
      /\ msg.targetHash = Lower(ObjectHash(auth))
  BY StringsAssumption DEF RevocationMessage
<1>3. /\ sigd.scheme = "eip712" /\ sigd.primaryType = "AonRevocation" /\ sigd.message = msg
      /\ sigd # Missing /\ sigd.signer = who
  BY SignatureFields
<1>4. SignedBy(sigd, who, "AonRevocation")
  BY <1>1, <1>3 DEF SignedBy
<1>5. Lower(rev.payload.targetHash) \in Refs(rev)
  <2>1. rev.references[1] = msg.targetHash /\ 1 \in DOMAIN rev.references
    BY <1>1
  <2>2. QED
    BY <1>1, <2>1 DEF Refs
<1> HIDE DEF msg, sigd
<1>6. RevocationAccepted(rev)
  BY <1>1, <1>2, <1>3, <1>4, <1>5 DEF RevocationAccepted
<1>7. CountsAgainst(rev, auth)
  BY <1>1, <1>2, <1>3 DEF CountsAgainst, Owner
<1>8. QED
  BY <1>1, <1>6, <1>7 DEF Accepted, msg
=============================================================================
