---------------------- MODULE ExecutorNetwork_proofs ----------------------
(***************************************************************************)
(* Proofs about the executors: for any number of executors and nodes, any  *)
(* objects and receipts, and any crashes, outages and timeouts, a receipt  *)
(* an executor trusts reports a settlement that took place.                *)
(***************************************************************************)
EXTENDS ExecutorNetwork, FunctionSums, SequenceTheorems

\* The types of all variables, as function sets.
NetworkTypes ==
  /\ objects \in [Nodes -> SUBSET Objects]
  /\ receipts \in [Nodes -> SUBSET Receipts]
  /\ up \in [Nodes -> BOOLEAN]
  /\ event \in [Keys -> Nat]
  /\ filled \in [Orders -> Nat]
  /\ closed \subseteq Orders /\ lapsed \subseteq Orders /\ short \subseteq Orders
  /\ pc \in [Executors -> {"idle", "listed", "working", "waiting",
                           "publishing", "down"}]
  /\ seen \in [Executors -> [objects : SUBSET Objects, receipts : SUBSET Receipts]]
  /\ valid \in [Executors -> SUBSET Receipts]
  /\ failedAt \in [Executors -> SUBSET Receipts]
  /\ inBackoff \in [Executors -> SUBSET Fills]
  /\ todo \in [Executors -> SUBSET Fills]
  /\ current \in [Executors -> Fills \cup {Nobody}]
  /\ mempool \in [Executors -> Seq(Fills)]
  /\ outcome \in [Executors -> {"none", "success", "reverted"}]
  /\ faults \in 0..MaxFaults

\* The chain never fills an order beyond its size.
NeverOverfilled == \A o \in Orders : filled[o] <= Size[o]

\* The transaction an executor waits for is the last it sent, and its success
\* means an event for the key of the fill under way.
Awaits(e) ==
  /\ pc[e] = "waiting" =>
       /\ current[e] \in Fills
       /\ outcome[e] = "none" =>
            mempool[e] # <<>> /\ mempool[e][Len(mempool[e])] = current[e]
       /\ outcome[e] = "success" => event[KeyOf(current[e])] > 0
  /\ pc[e] # "waiting" => outcome[e] = "none"
  /\ outcome[e] # "none" => mempool[e] = <<>>
  /\ pc[e] = "publishing" => current[e] \in Fills /\ event[KeyOf(current[e])] > 0

AwaitsItsOwn == \A e \in Executors : Awaits(e)

\* The inductive invariant.
NetworkInv == NetworkTypes /\ NeverOverfilled /\ AwaitsItsOwn /\ TrustedReceiptsHold
-----------------------------------------------------------------------------
(***************************************************************************)
(* Keys and amounts.                                                       *)
(***************************************************************************)
\* A fill has a key, its orders are orders, its amount is positive.
LEMMA FillFacts ==
  ASSUME NEW f \in Fills
  PROVE  /\ KeyOf(f) \in Keys
         /\ OrdersOf(KeyOf(f)) \subseteq Orders
         /\ FillOf[f].base \in Nat \ {0}
<1>1. KeyOf(f) \in Keys
  BY DEF Keys
<1>2. /\ FillOf[f].makerOrder \in OrderCopies /\ FillOf[f].takerOrder \in OrderCopies
      /\ FillOf[f].base \in Nat \ {0}
  BY ConstantsAssumption
<1>3. \A c \in OrderCopies : CopyOf[c].signs \in Orders
  BY ConstantsAssumption
<1>4. OrdersOf(KeyOf(f)) = {CopyOf[FillOf[f].makerOrder].signs,
                            CopyOf[FillOf[f].takerOrder].signs}
  BY DEF OrdersOf, KeyOf
<1>5. QED
  BY <1>1, <1>2, <1>3, <1>4

\* The least of three naturals is one of them, and below them all.
LEMMA MinOfThree ==
  ASSUME NEW a \in Nat, NEW b \in Nat, NEW c \in Nat
  PROVE  /\ Min({a, b, c}) \in {a, b, c}
         /\ Min({a, b, c}) <= a /\ Min({a, b, c}) <= b /\ Min({a, b, c}) <= c
<1>1. \E x \in {a, b, c} : \A y \in {a, b, c} : x <= y
  <2>1. CASE a <= b /\ a <= c
    BY <2>1
  <2>2. CASE b <= a /\ b <= c
    BY <2>2
  <2>3. CASE c <= a /\ c <= b
    BY <2>3
  <2>4. QED
    BY <2>1, <2>2, <2>3
<1>2. QED
  BY <1>1 DEF Min

\* What the contract settles of a fill it accepts is something, and fits both
\* orders.
LEMMA SettledFacts ==
  ASSUME NetworkInv, NEW f \in Fills, ContractAccepts(f)
  PROVE  /\ SettledBase(f) \in Nat /\ SettledBase(f) > 0
         /\ \A o \in OrdersOf(KeyOf(f)) : SettledBase(f) <= Room(o)
<1> DEFINE x == KeyOf(f)[2]
           y == KeyOf(f)[3]
<1>1. OrdersOf(KeyOf(f)) = {x, y}
  BY DEF OrdersOf
<1>2. x \in Orders /\ y \in Orders
  BY <1>1, FillFacts
<1>3. \A o \in {x, y} : Room(o) \in Nat /\ Room(o) > 0
  BY <1>1, <1>2, ConstantsAssumption
  DEF ContractAccepts, Room, NetworkInv, NetworkTypes, NeverOverfilled
<1> HIDE DEF x, y
<1>4. {FillOf[f].base} \cup {Room(o) : o \in {x, y}} = {FillOf[f].base, Room(x), Room(y)}
  OBVIOUS
<1>5. SettledBase(f) = Min({FillOf[f].base, Room(x), Room(y)})
  BY <1>1, <1>4 DEF SettledBase
<1>6. QED
  BY <1>1, <1>3, <1>5, FillFacts, MinOfThree
-----------------------------------------------------------------------------
(***************************************************************************)
(* What each kind of step does.                                            *)
(***************************************************************************)
\* The invariant holds before anything has happened.
LEMMA InitNetwork == Init => NetworkInv
<1> SUFFICES ASSUME Init PROVE NetworkInv
  OBVIOUS
<1>1. NetworkTypes
  <2>1. EarlyObjects \in SUBSET Objects /\ EarlyReceipts \in SUBSET Receipts
    BY ConstantsAssumption
  <2>2. MaxFaults \in Nat
    BY ConstantsAssumption
  <2>3. seen \in [Executors -> [objects : SUBSET Objects, receipts : SUBSET Receipts]]
    BY DEF Init, Nothing
  <2>4. mempool \in [Executors -> Seq(Fills)]
    BY DEF Init
  <2>5. QED
    BY <2>1, <2>2, <2>3, <2>4 DEF Init, NetworkTypes
<1>2. NeverOverfilled
  BY ConstantsAssumption DEF Init, NeverOverfilled
<1>3. AwaitsItsOwn /\ TrustedReceiptsHold
  BY DEF Init, AwaitsItsOwn, Awaits, TrustedReceiptsHold
<1>4. QED
  BY <1>1, <1>2, <1>3 DEF NetworkInv

\* The steps of the world around the executors.
LEMMA EnvironmentKeeps ==
  ASSUME NetworkInv, Environment
  PROVE  NetworkInv' /\ UNCHANGED event
<1>1. /\ UNCHANGED <<event, filled, loopVars, mindVars, txVars>>
  BY DEF Environment, NodeDown, NodeUp, Post, CloseOnChain, Lapse, MoveTokens,
         chainVars
<1>2. NetworkTypes'
  <2>1. NetworkTypes
    BY DEF NetworkInv
  <2>2. CASE \E n \in Nodes : NodeDown(n) \/ NodeUp(n)
    <3>1. UNCHANGED <<objects, receipts, chainVars>>
      BY <2>2 DEF NodeDown, NodeUp
    <3>2. up' \in [Nodes -> BOOLEAN]
      BY <2>1, <2>2 DEF NodeDown, NodeUp, NetworkTypes
    <3>3. faults' \in 0..MaxFaults
      BY <2>1, <2>2, ConstantsAssumption DEF NodeDown, NodeUp, Fault, NetworkTypes
    <3>4. QED
      BY <1>1, <2>1, <3>1, <3>2, <3>3
      DEF NetworkTypes, chainVars, loopVars, mindVars, txVars
  <2>3. ASSUME NEW x \in LateObjects, Post(x)
        PROVE  NetworkTypes'
    <3>1. {x} \subseteq Objects
      BY ConstantsAssumption
    <3>2. objects' \in [Nodes -> SUBSET Objects]
      BY <2>1, <2>3, <3>1 DEF Post, NetworkTypes
    <3>3. QED
      BY <1>1, <2>1, <2>3, <3>2
      DEF Post, NetworkTypes, chainVars, loopVars, mindVars, txVars
  <2>4. CASE \E o \in Orders : CloseOnChain(o) \/ Lapse(o) \/ MoveTokens(o)
    <3>1. UNCHANGED <<nodeVars, faults>>
      BY <2>4 DEF CloseOnChain, Lapse, MoveTokens
    <3>2. closed' \subseteq Orders /\ lapsed' \subseteq Orders /\ short' \subseteq Orders
      BY <2>1, <2>4 DEF CloseOnChain, Lapse, MoveTokens, NetworkTypes
    <3>3. QED
      BY <1>1, <2>1, <3>1, <3>2 DEF NetworkTypes, nodeVars, loopVars, mindVars, txVars
  <2>5. QED
    BY <2>2, <2>3, <2>4 DEF Environment
<1>3. NeverOverfilled' /\ AwaitsItsOwn' /\ TrustedReceiptsHold'
  BY <1>1 DEF NetworkInv, NeverOverfilled, AwaitsItsOwn, Awaits, TrustedReceiptsHold,
              EventMatches, loopVars, mindVars, txVars
<1>4. QED
  BY <1>1, <1>2, <1>3 DEF NetworkInv

\* Mining gives a key an event once and for all, and fits both orders.
LEMMA MiningKeepsChain ==
  ASSUME NetworkInv, NEW e \in Executors, Mine(e)
  PROVE  /\ event' \in [Keys -> Nat] /\ filled' \in [Orders -> Nat]
         /\ NeverOverfilled'
         /\ \A k \in Keys : event[k] > 0 => event'[k] = event[k]
         /\ ContractAccepts(Head(mempool[e])) => event'[KeyOf(Head(mempool[e]))] > 0
<1> DEFINE f == Head(mempool[e])
<1>1. /\ event \in [Keys -> Nat] /\ filled \in [Orders -> Nat]
      /\ mempool[e] \in Seq(Fills) /\ mempool[e] # <<>>
  BY DEF NetworkInv, NetworkTypes, Mine
<1>2. f \in Fills
  BY <1>1
<1>3. KeyOf(f) \in Keys /\ OrdersOf(KeyOf(f)) \subseteq Orders
  BY <1>2, FillFacts
<1> HIDE DEF f
<1>4. CASE ~ContractAccepts(f)
  <2>1. UNCHANGED <<event, filled>>
    BY <1>4 DEF Mine, f
  <2>2. QED
    BY <1>1, <1>4, <2>1 DEF NetworkInv, NeverOverfilled, f
<1>5. CASE ContractAccepts(f)
  <2>1. /\ event' = [event EXCEPT ![KeyOf(f)] = SettledBase(f)]
        /\ filled' = [o \in Orders |-> IF o \in OrdersOf(KeyOf(f))
                                      THEN filled[o] + SettledBase(f) ELSE filled[o]]
    BY <1>5 DEF Mine, f
  <2>2. /\ SettledBase(f) \in Nat /\ SettledBase(f) > 0
        /\ \A o \in OrdersOf(KeyOf(f)) : SettledBase(f) <= Room(o)
    BY <1>2, <1>5, SettledFacts
  <2>3. event[KeyOf(f)] = 0
    BY <1>5 DEF ContractAccepts
  <2>4. \A k \in Keys : event[k] > 0 => event'[k] = event[k]
    BY <1>1, <1>3, <2>1, <2>3
  <2>5. event'[KeyOf(f)] > 0
    BY <1>1, <1>3, <2>1, <2>2
  <2>6. NeverOverfilled'
    BY <1>1, <2>1, <2>2, ConstantsAssumption DEF NetworkInv, NeverOverfilled, Room
  <2>7. QED
    BY <1>1, <1>3, <2>1, <2>2, <2>4, <2>5, <2>6 DEF f
<1>6. QED
  BY <1>4, <1>5

\* A step that spends a fault stays within the bound, and so does one that
\* does not.
LEMMA FaultsBounded ==
  ASSUME NetworkTypes, Fault \/ UNCHANGED faults
  PROVE  faults' \in 0..MaxFaults
  BY ConstantsAssumption DEF NetworkTypes, Fault

\* Trust survives as long as events stay, and what is added is an event.
LEMMA TrustKept ==
  ASSUME NetworkInv, valid' \in [Executors -> SUBSET Receipts],
         \A k \in Keys : event[k] > 0 => event'[k] = event[k],
         \A e \in Executors : \A r \in valid'[e] :
           r \in valid[e] \/ (r.base > 0 /\ event'[r.key] = r.base)
  PROVE  TrustedReceiptsHold'
<1> SUFFICES ASSUME NEW e \in Executors, NEW r \in valid'[e]
             PROVE  r.base > 0 /\ event'[r.key] = r.base
  BY DEF TrustedReceiptsHold, EventMatches
<1>1. CASE r \in valid[e]
  <2>1. EventMatches(r) /\ r.key \in Keys /\ r.base \in Nat
    BY <1>1 DEF NetworkInv, NetworkTypes, TrustedReceiptsHold, Receipts
  <2>2. QED
    BY <2>1 DEF EventMatches
<1>2. QED
  BY <1>1

\* A queue that loses its head keeps its last, unless that was the head.
LEMMA LastOfTail ==
  ASSUME NEW S, NEW q \in Seq(S), q # <<>>
  PROVE  /\ Len(q) = 1 => Head(q) = q[Len(q)] /\ Tail(q) = <<>>
         /\ Len(q) # 1 => Tail(q) # <<>> /\ Tail(q)[Len(Tail(q))] = q[Len(q)]
<1>1. Len(q) \in Nat /\ Len(q) > 0 /\ Head(q) = q[1]
  BY HeadTailProperties, EmptySeq
<1>2. /\ Tail(q) \in Seq(S) /\ Len(Tail(q)) = Len(q) - 1
      /\ \A i \in 1..Len(Tail(q)) : Tail(q)[i] = q[i + 1]
  BY HeadTailProperties
<1>3. ASSUME Len(q) = 1
      PROVE  Head(q) = q[Len(q)] /\ Tail(q) = <<>>
  <2>1. Len(Tail(q)) = 0
    BY <1>2, <1>3
  <2>2. Tail(q) = <<>>
    BY <1>2, <2>1, EmptySeq
  <2>3. QED
    BY <1>1, <1>3, <2>2
<1>4. ASSUME Len(q) # 1
      PROVE  Tail(q) # <<>> /\ Tail(q)[Len(Tail(q))] = q[Len(q)]
  <2>1. Len(Tail(q)) \in 1..Len(Tail(q))
    BY <1>1, <1>2, <1>4
  <2>2. Tail(q)[Len(Tail(q))] = q[Len(Tail(q)) + 1]
    BY <1>2, <2>1
  <2>3. Len(Tail(q)) + 1 = Len(q)
    BY <1>1, <1>2
  <2>4. Tail(q) # <<>>
    <3>1. Len(Tail(q)) # 0
      BY <1>1, <1>2, <1>4
    <3>2. Len(<<>>) = 0
      BY EmptySeq
    <3>3. QED
      BY <3>1, <3>2, Zenon
  <2>5. QED
    BY <2>2, <2>3, <2>4
<1>5. QED
  BY <1>3, <1>4

\* Mining a transaction keeps the invariant: the awaited one is the last, so
\* its outcome is learnt when it is alone.
LEMMA MineKeeps ==
  ASSUME NetworkInv, NEW e \in Executors, Mine(e)
  PROVE  NetworkInv'
<1> DEFINE f == Head(mempool[e])
<1>1. /\ NetworkTypes /\ AwaitsItsOwn
      /\ UNCHANGED <<nodeVars, closed, lapsed, short, loopVars, mindVars, faults>>
  BY DEF NetworkInv, Mine
<1>2. /\ mempool[e] \in Seq(Fills) /\ mempool[e] # <<>>
      /\ mempool' = [mempool EXCEPT ![e] = Tail(@)]
      /\ mempool \in [Executors -> Seq(Fills)]
  BY <1>1 DEF NetworkTypes, Mine
<1>3. mempool' \in [Executors -> Seq(Fills)]
  BY <1>2
<1>4. /\ event' \in [Keys -> Nat] /\ filled' \in [Orders -> Nat] /\ NeverOverfilled'
      /\ \A k \in Keys : event[k] > 0 => event'[k] = event[k]
      /\ ContractAccepts(f) => event'[KeyOf(f)] > 0
  BY MiningKeepsChain
<1> DEFINE awaited == pc[e] = "waiting" /\ Len(mempool[e]) = 1
<1>5. outcome' = [outcome EXCEPT ![e] =
        IF awaited THEN (IF ContractAccepts(f) THEN "success" ELSE "reverted") ELSE @]
  BY DEF Mine
<1> HIDE DEF f
<1>6. outcome' \in [Executors -> {"none", "success", "reverted"}]
  BY <1>1, <1>5 DEF NetworkTypes
<1>7. NetworkTypes'
  BY <1>1, <1>3, <1>4, <1>6 DEF NetworkTypes, nodeVars, loopVars, mindVars
<1>8. ASSUME NEW d \in Executors, d # e
      PROVE  mempool'[d] = mempool[d] /\ outcome'[d] = outcome[d]
  BY <1>1, <1>2, <1>5, <1>8 DEF NetworkTypes
<1>9. \A g \in Fills : event[KeyOf(g)] > 0 => event'[KeyOf(g)] > 0
  BY <1>4, FillFacts
<1>10. AwaitsItsOwn'
  <2> SUFFICES ASSUME NEW d \in Executors
               PROVE  /\ pc[d] = "waiting" =>
                           /\ current[d] \in Fills
                           /\ outcome'[d] = "none" =>
                                /\ mempool'[d] # <<>>
                                /\ mempool'[d][Len(mempool'[d])] = current[d]
                           /\ outcome'[d] = "success" => event'[KeyOf(current[d])] > 0
                      /\ pc[d] # "waiting" => outcome'[d] = "none"
                      /\ outcome'[d] # "none" => mempool'[d] = <<>>
                      /\ pc[d] = "publishing" =>
                           current[d] \in Fills /\ event'[KeyOf(current[d])] > 0
    BY <1>1 DEF AwaitsItsOwn, Awaits, loopVars
  <2>1. /\ pc[d] = "waiting" =>
             /\ current[d] \in Fills
             /\ outcome[d] = "none" =>
                  mempool[d] # <<>> /\ mempool[d][Len(mempool[d])] = current[d]
             /\ outcome[d] = "success" => event[KeyOf(current[d])] > 0
        /\ pc[d] # "waiting" => outcome[d] = "none"
        /\ outcome[d] # "none" => mempool[d] = <<>>
        /\ pc[d] = "publishing" => current[d] \in Fills /\ event[KeyOf(current[d])] > 0
    BY <1>1 DEF AwaitsItsOwn, Awaits
  <2>2. CASE d # e
    BY <1>8, <1>9, <2>1, <2>2
  <2>3. CASE d = e /\ awaited
    <3>1. outcome'[e] = IF ContractAccepts(f) THEN "success" ELSE "reverted"
      BY <1>1, <1>5, <2>3 DEF NetworkTypes
    <3>2. outcome[e] = "none" /\ current[e] = f /\ mempool'[e] = <<>>
      BY <1>2, <2>1, <2>3, LastOfTail DEF f
    <3>3. QED
      BY <1>4, <2>1, <2>3, <3>1, <3>2
  <2>4. CASE d = e /\ ~awaited
    <3>1. outcome'[e] = outcome[e] /\ mempool'[e] = Tail(mempool[e])
      BY <1>1, <1>2, <1>5, <2>4 DEF NetworkTypes
    <3>2. ASSUME pc[e] = "waiting"
          PROVE  /\ mempool'[e] # <<>>
                 /\ mempool'[e][Len(mempool'[e])] = mempool[e][Len(mempool[e])]
      BY <1>2, <2>4, <3>1, <3>2, LastOfTail
    <3>3. outcome[e] = "none"
      BY <1>2, <2>1, <2>4
    <3>4. QED
      BY <1>9, <2>1, <2>4, <3>1, <3>2, <3>3
  <2>5. QED
    BY <2>2, <2>3, <2>4
<1>11. TrustedReceiptsHold'
  BY <1>1, <1>4, <1>7, TrustKept DEF NetworkTypes, mindVars
<1>12. QED
  BY <1>4, <1>7, <1>10, <1>11 DEF NetworkInv

\* A step of one executor of its own that leaves the chain alone keeps the
\* invariant when it keeps the types, the executor awaits its own, and what it
\* newly trusts is an event.
LEMMA OwnStep ==
  ASSUME NetworkInv, NEW e \in Executors, NetworkTypes', UNCHANGED <<event, filled>>,
         \A d \in Executors : d # e =>
           /\ pc'[d] = pc[d] /\ current'[d] = current[d]
           /\ mempool'[d] = mempool[d] /\ outcome'[d] = outcome[d],
         Awaits(e)',
         \A d \in Executors : \A r \in valid'[d] :
           r \in valid[d] \/ (r.base > 0 /\ event'[r.key] = r.base)
  PROVE  NetworkInv'
<1>1. NeverOverfilled'
  BY DEF NetworkInv, NeverOverfilled
<1>2. AwaitsItsOwn'
  <2> SUFFICES ASSUME NEW d \in Executors PROVE Awaits(d)'
    BY DEF AwaitsItsOwn
  <2>1. CASE d # e
    BY <2>1 DEF NetworkInv, AwaitsItsOwn, Awaits
  <2>2. QED
    BY <2>1
<1>3. TrustedReceiptsHold'
  BY TrustKept DEF NetworkTypes
<1>4. QED
  BY <1>1, <1>2, <1>3 DEF NetworkInv

\* A listing is taken over as the node holds it.
LEMMA ListAllKeeps ==
  ASSUME NetworkInv, NEW e \in Executors, ListAll(e)
  PROVE  NetworkInv'
<1>1. NetworkTypes /\ Awaits(e) /\ pc[e] = "idle"
  BY DEF NetworkInv, AwaitsItsOwn, ListAll
<1>2. PICK n \in FirstReachable(e) :
        seen' = [seen EXCEPT ![e] = [objects |-> objects[n], receipts |-> receipts[n]]]
  BY DEF ListAll
<1>3. n \in Nodes
  BY ConstantsAssumption DEF FirstReachable
<1>4. seen' \in [Executors -> [objects : SUBSET Objects, receipts : SUBSET Receipts]]
  BY <1>1, <1>2, <1>3 DEF NetworkTypes
<1>5. pc' = [pc EXCEPT ![e] = "listed"]
      /\ UNCHANGED <<nodeVars, chainVars, todo, current, mindVars, txVars, faults>>
  BY DEF ListAll
<1>6. NetworkTypes'
  BY <1>1, <1>4, <1>5 DEF NetworkTypes, nodeVars, chainVars, mindVars, txVars
<1>7. Awaits(e)'
  BY <1>1, <1>5 DEF NetworkTypes, Awaits, txVars
<1>8. QED
  BY <1>1, <1>5, <1>6, <1>7, OwnStep DEF NetworkTypes, chainVars, mindVars, txVars

\* An evaluation comes to trust only what it found on the chain.
LEMMA EvaluateKeeps ==
  ASSUME NetworkInv, NEW e \in Executors, Evaluate(e)
  PROVE  NetworkInv'
<1>1. NetworkTypes /\ Awaits(e) /\ pc[e] = "listed"
  BY DEF NetworkInv, AwaitsItsOwn, Evaluate
<1> DEFINE fresh == seen[e].receipts \ (valid[e] \cup failedAt[e])
           sound == {r \in fresh : EventMatches(r)}
<1>2. PICK hiccup \in SUBSET sound :
        /\ IF hiccup = {} THEN UNCHANGED faults ELSE Fault
        /\ valid' = [valid EXCEPT ![e] = @ \cup (sound \ hiccup)]
        /\ failedAt' = [failedAt EXCEPT ![e] = @ \cup (fresh \ (sound \ hiccup))]
        /\ todo' = [todo EXCEPT ![e] =
             {f \in Executable(Authentic(seen[e]), seen[e].receipts \cap valid'[e],
                               inBackoff[e]) : FillOf[f].fee >= MinFee[e]}]
  BY DEF Evaluate
<1>3. /\ seen' = [seen EXCEPT ![e] = Nothing] /\ pc' = [pc EXCEPT ![e] = "working"]
      /\ UNCHANGED <<nodeVars, chainVars, current, inBackoff, txVars>>
  BY DEF Evaluate
<1>4. fresh \subseteq Receipts /\ sound \subseteq Receipts
  BY <1>1 DEF NetworkTypes
<1>5. \A r \in sound : r.base > 0 /\ event[r.key] = r.base
  BY DEF EventMatches
<1> HIDE DEF fresh, sound
<1>6. /\ valid' \in [Executors -> SUBSET Receipts]
      /\ failedAt' \in [Executors -> SUBSET Receipts]
  BY <1>1, <1>2, <1>4 DEF NetworkTypes
<1>7. todo' \in [Executors -> SUBSET Fills]
  <2>1. \A O, R, B : Executable(O, R, B) \subseteq Fills
    BY DEF Executable
  <2>2. QED
    BY <1>1, <1>2, <2>1 DEF NetworkTypes
<1>8. faults' \in 0..MaxFaults
  BY <1>1, <1>2, FaultsBounded
<1>9. NetworkTypes'
  BY <1>1, <1>3, <1>6, <1>7, <1>8 DEF NetworkTypes, Nothing, nodeVars, chainVars, txVars
<1>10. Awaits(e)'
  BY <1>1, <1>3 DEF NetworkTypes, Awaits, txVars
<1>11. ASSUME NEW d \in Executors, NEW r \in valid'[d]
       PROVE  r \in valid[d] \/ (r.base > 0 /\ event'[r.key] = r.base)
  <2>1. valid'[d] \subseteq valid[d] \cup sound
    BY <1>1, <1>2 DEF NetworkTypes
  <2>2. QED
    BY <1>3, <1>5, <1>11, <2>1 DEF chainVars
<1>12. QED
  BY <1>1, <1>3, <1>9, <1>10, <1>11, OwnStep DEF NetworkTypes, chainVars, txVars

\* A transaction sent is the last of the executor's queue.
LEMMA SendKeeps ==
  ASSUME NetworkInv, NEW e \in Executors, NEW f \in Fills, Send(e, f)
  PROVE  NetworkInv'
<1>1. /\ NetworkTypes /\ Awaits(e) /\ pc[e] = "working"
      /\ mempool' = [mempool EXCEPT ![e] = Append(@, f)]
      /\ todo' = [todo EXCEPT ![e] = @ \ {f}]
      /\ current' = [current EXCEPT ![e] = f]
      /\ pc' = [pc EXCEPT ![e] = "waiting"]
      /\ UNCHANGED <<nodeVars, chainVars, seen, mindVars, outcome, faults>>
  BY DEF NetworkInv, AwaitsItsOwn, Send
<1>2. mempool[e] \in Seq(Fills)
  BY <1>1 DEF NetworkTypes
<1>3. /\ Append(mempool[e], f) \in Seq(Fills) /\ Append(mempool[e], f) # <<>>
      /\ Append(mempool[e], f)[Len(Append(mempool[e], f))] = f
  BY <1>2, AppendProperties
<1>4. mempool'[e] = Append(mempool[e], f) /\ mempool' \in [Executors -> Seq(Fills)]
  BY <1>1, <1>3 DEF NetworkTypes
<1>5. NetworkTypes'
  BY <1>1, <1>4 DEF NetworkTypes, nodeVars, chainVars, mindVars
<1>6. Awaits(e)'
  <2>1. pc'[e] = "waiting" /\ current'[e] = f /\ outcome'[e] = "none"
    BY <1>1 DEF NetworkTypes, Awaits
  <2>2. QED
    BY <1>3, <1>4, <2>1 DEF Awaits
<1>7. QED
  BY <1>1, <1>5, <1>6, OwnStep DEF NetworkTypes, chainVars, mindVars

\* A failure, an estimate that fails, a revert and giving up end the wait.
LEMMA FailureKeeps ==
  ASSUME NetworkInv, NEW e \in Executors,
         (\E f \in Fills : EstimationFails(e, f)) \/ Reverted(e) \/ GiveUp(e)
  PROVE  NetworkInv'
<1>1. NetworkTypes /\ Awaits(e)
  BY DEF NetworkInv, AwaitsItsOwn
<1>2. PICK f \in Fills :
        /\ pc[e] \in {"working", "waiting"}
        /\ Fails(e, f)
        /\ Fault \/ UNCHANGED faults
        /\ UNCHANGED <<nodeVars, chainVars, seen, valid, failedAt, mempool>>
        /\ \/ outcome' = [outcome EXCEPT ![e] = "none"] /\ UNCHANGED todo
           \/ pc[e] = "working" /\ UNCHANGED outcome /\ todo' = [todo EXCEPT ![e] = @ \ {f}]
  BY <1>1 DEF EstimationFails, Reverted, GiveUp, Awaits, txVars
<1>3. /\ inBackoff' = [inBackoff EXCEPT ![e] = @ \cup {f}]
      /\ current' = [current EXCEPT ![e] = Nobody]
      /\ pc' = [pc EXCEPT ![e] = "working"]
  BY <1>2 DEF Fails
<1>4. faults' \in 0..MaxFaults
  BY <1>1, <1>2, FaultsBounded
<1>5. /\ outcome' \in [Executors -> {"none", "success", "reverted"}]
      /\ outcome'[e] = "none"
      /\ \A d \in Executors : d # e => outcome'[d] = outcome[d]
      /\ todo' \in [Executors -> SUBSET Fills]
  BY <1>1, <1>2 DEF NetworkTypes, Awaits
<1>6. NetworkTypes'
  BY <1>1, <1>2, <1>3, <1>4, <1>5 DEF NetworkTypes, nodeVars, chainVars
<1>7. Awaits(e)'
  BY <1>1, <1>3, <1>5 DEF NetworkTypes, Awaits
<1>8. QED
  BY <1>1, <1>2, <1>3, <1>5, <1>6, <1>7, OwnStep DEF NetworkTypes, chainVars

\* A confirmed transaction's receipt is that of its event.
LEMMA ConfirmedKeeps ==
  ASSUME NetworkInv, NEW e \in Executors, Confirmed(e)
  PROVE  NetworkInv'
<1> DEFINE r == ReceiptFor(current[e])
<1>1. /\ NetworkTypes /\ Awaits(e) /\ pc[e] = "waiting" /\ outcome[e] = "success"
      /\ valid' = [valid EXCEPT ![e] = @ \cup {r}]
      /\ inBackoff' = [inBackoff EXCEPT ![e] = @ \ {current[e]}]
      /\ outcome' = [outcome EXCEPT ![e] = "none"]
      /\ pc' = [pc EXCEPT ![e] = "publishing"]
      /\ UNCHANGED <<nodeVars, chainVars, seen, todo, current, failedAt, mempool, faults>>
  BY DEF NetworkInv, AwaitsItsOwn, Confirmed
<1>2. current[e] \in Fills /\ event[KeyOf(current[e])] > 0
  BY <1>1 DEF Awaits
<1>3. r \in Receipts /\ r.base > 0 /\ event[r.key] = r.base
  <2>1. KeyOf(current[e]) \in Keys /\ event[KeyOf(current[e])] \in Nat
    BY <1>1, <1>2, FillFacts DEF NetworkTypes
  <2>2. QED
    BY <1>2, <2>1 DEF ReceiptFor, Receipts
<1> HIDE DEF r
<1>4. NetworkTypes'
  BY <1>1, <1>3 DEF NetworkTypes, nodeVars, chainVars
<1>5. Awaits(e)'
  BY <1>1, <1>2 DEF NetworkTypes, Awaits, chainVars
<1>6. ASSUME NEW d \in Executors, NEW x \in valid'[d]
      PROVE  x \in valid[d] \/ (x.base > 0 /\ event'[x.key] = x.base)
  BY <1>1, <1>3, <1>6 DEF NetworkTypes, chainVars
<1>7. QED
  BY <1>1, <1>4, <1>5, <1>6, OwnStep DEF NetworkTypes, chainVars

\* What is published is the receipt of an event.
LEMMA PublishKeeps ==
  ASSUME NetworkInv, NEW e \in Executors, Publish(e)
  PROVE  NetworkInv'
<1> DEFINE r == ReceiptFor(current[e])
<1>1. /\ NetworkTypes /\ Awaits(e) /\ pc[e] = "publishing"
      /\ current' = [current EXCEPT ![e] = Nobody]
      /\ pc' = [pc EXCEPT ![e] = "working"]
      /\ UNCHANGED <<objects, up, chainVars, seen, todo, mindVars, txVars, faults>>
  BY DEF NetworkInv, AwaitsItsOwn, Publish
<1>2. r \in Receipts
  <2>1. current[e] \in Fills
    BY <1>1 DEF Awaits
  <2>2. KeyOf(current[e]) \in Keys /\ event[KeyOf(current[e])] \in Nat
    BY <1>1, <2>1, FillFacts DEF NetworkTypes
  <2>3. QED
    BY <2>1, <2>2 DEF ReceiptFor, Receipts
<1>3. receipts' \in [Nodes -> SUBSET Receipts]
  BY <1>1, <1>2 DEF Publish, NetworkTypes
<1>4. NetworkTypes'
  BY <1>1, <1>3 DEF NetworkTypes, chainVars, mindVars, txVars
<1>5. Awaits(e)'
  BY <1>1 DEF NetworkTypes, Awaits, txVars
<1>6. QED
  BY <1>1, <1>4, <1>5, OwnStep DEF NetworkTypes, chainVars, mindVars, txVars

\* Dying forgets everything but the transactions already sent.
LEMMA CrashKeeps ==
  ASSUME NetworkInv, NEW e \in Executors, Crash(e)
  PROVE  NetworkInv'
<1>1. NetworkTypes /\ Awaits(e)
  BY DEF NetworkInv, AwaitsItsOwn
<1>2. faults' \in 0..MaxFaults
  BY <1>1, FaultsBounded DEF Crash
<1>3. NetworkTypes'
  <2>1. /\ pc' \in [Executors -> {"idle", "listed", "working", "waiting",
                                  "publishing", "down"}]
        /\ seen' \in [Executors -> [objects : SUBSET Objects,
                                    receipts : SUBSET Receipts]]
        /\ todo' \in [Executors -> SUBSET Fills]
        /\ current' \in [Executors -> Fills \cup {Nobody}]
        /\ outcome' \in [Executors -> {"none", "success", "reverted"}]
    BY <1>1 DEF Crash, NetworkTypes, Nothing
  <2>2. /\ valid' \in [Executors -> SUBSET Receipts]
        /\ failedAt' \in [Executors -> SUBSET Receipts]
        /\ inBackoff' \in [Executors -> SUBSET Fills]
    BY <1>1 DEF Crash, NetworkTypes
  <2>3. UNCHANGED <<nodeVars, chainVars, mempool>>
    BY DEF Crash
  <2>4. QED
    BY <1>1, <1>2, <2>1, <2>2, <2>3 DEF NetworkTypes, nodeVars, chainVars
<1>4. /\ pc'[e] = "down" /\ outcome'[e] = "none" /\ UNCHANGED <<event, filled>>
      /\ \A d \in Executors : d # e =>
           /\ pc'[d] = pc[d] /\ current'[d] = current[d]
           /\ mempool'[d] = mempool[d] /\ outcome'[d] = outcome[d]
      /\ \A d \in Executors : valid'[d] \subseteq valid[d]
  BY <1>1 DEF Crash, NetworkTypes, chainVars
<1>5. Awaits(e)'
  BY <1>4 DEF Awaits
<1>6. QED
  BY <1>3, <1>4, <1>5, OwnStep

\* The steps that only move the loop on, or let a timer run out.
LEMMA RestKeeps ==
  ASSUME NetworkInv, NEW e \in Executors,
         \/ EndPoll(e) \/ Restart(e) \/ RetryReceipt(e)
         \/ \E f \in Fills : BackoffEnds(e, f)
  PROVE  NetworkInv'
<1>1. NetworkTypes /\ Awaits(e)
  BY DEF NetworkInv, AwaitsItsOwn
<1>2. UNCHANGED <<nodeVars, chainVars, seen, todo, current, valid, txVars, faults>>
  BY DEF EndPoll, Restart, RetryReceipt, BackoffEnds, mindVars, loopVars
<1>3. /\ pc' \in [Executors -> {"idle", "listed", "working", "waiting",
                                "publishing", "down"}]
      /\ \/ UNCHANGED pc
         \/ pc' = [pc EXCEPT ![e] = "idle"] /\ pc[e] \in {"working", "down"}
  BY <1>1 DEF EndPoll, Restart, RetryReceipt, BackoffEnds, loopVars, NetworkTypes
<1>4. /\ inBackoff' \in [Executors -> SUBSET Fills]
      /\ failedAt' \in [Executors -> SUBSET Receipts]
  BY <1>1 DEF EndPoll, Restart, RetryReceipt, BackoffEnds, mindVars, NetworkTypes
<1>5. NetworkTypes'
  BY <1>1, <1>2, <1>3, <1>4 DEF NetworkTypes, nodeVars, chainVars, txVars
<1>6. Awaits(e)'
  BY <1>1, <1>2, <1>3 DEF NetworkTypes, Awaits, chainVars, txVars
<1>7. QED
  BY <1>1, <1>2, <1>3, <1>5, <1>6, OwnStep DEF NetworkTypes, chainVars, txVars
-----------------------------------------------------------------------------
(***************************************************************************)
(* The results.                                                            *)
(***************************************************************************)
\* Every step keeps the invariant.
LEMMA NextNetwork == NetworkInv /\ [Next]_vars => NetworkInv'
<1> SUFFICES ASSUME NetworkInv, [Next]_vars PROVE NetworkInv'
  OBVIOUS
<1>1. ASSUME NEW e \in Executors, Loop(e) PROVE NetworkInv'
  BY <1>1, ListAllKeeps, EvaluateKeeps, SendKeeps, FailureKeeps, ConfirmedKeeps,
     PublishKeeps, RestKeeps DEF Loop
<1>2. ASSUME NEW e \in Executors,
             \/ Mine(e) \/ GiveUp(e) \/ Crash(e) \/ Restart(e) \/ RetryReceipt(e)
             \/ \E f \in Fills : BackoffEnds(e, f)
      PROVE  NetworkInv'
  BY <1>2, MineKeeps, FailureKeeps, CrashKeeps, RestKeeps
<1>3. CASE Environment
  BY <1>3, EnvironmentKeeps
<1>4. CASE UNCHANGED vars
  <2>1. NetworkTypes' /\ NeverOverfilled'
    BY <1>4 DEF NetworkInv, NetworkTypes, NeverOverfilled, vars, nodeVars, chainVars,
                loopVars, mindVars, txVars
  <2>2. AwaitsItsOwn' /\ TrustedReceiptsHold'
    BY <1>4 DEF NetworkInv, AwaitsItsOwn, Awaits, TrustedReceiptsHold, EventMatches,
                vars, chainVars, loopVars, mindVars, txVars
  <2>3. QED
    BY <2>1, <2>2 DEF NetworkInv
<1>5. QED
  BY <1>1, <1>2, <1>3, <1>4 DEF Next

\* The inductive invariant is an invariant.
THEOREM NetworkInvariance == Spec => []NetworkInv
  BY InitNetwork, NextNetwork, PTL DEF Spec

\* Every variable of nodes, chain and executors always has its type, and the
\* chain never fills an order beyond its size.
THEOREM NetworkTypeCorrect == Spec => []TypeOK
<1>1. NetworkInv => TypeOK
  <2> SUFFICES ASSUME NetworkInv PROVE TypeOK
    OBVIOUS
  <2>1. \A o \in Orders : filled[o] \in 0..Size[o]
    BY ConstantsAssumption DEF NetworkInv, NetworkTypes, NeverOverfilled
  <2>2. QED
    BY <2>1 DEF NetworkInv, NetworkTypes, TypeOK
<1>2. QED
  BY <1>1, NetworkInvariance, PTL

\* A receipt an executor trusts, looked up or built from the executor's own
\* transaction, reports a settlement of its key and the base that moved.
THEOREM TrustedReceipts == Spec => []TrustedReceiptsHold
<1>1. NetworkInv => TrustedReceiptsHold
  BY DEF NetworkInv
<1>2. QED
  BY <1>1, NetworkInvariance, PTL

-----------------------------------------------------------------------------
(***************************************************************************)
(* What executors credit against an order.                                 *)
(***************************************************************************)
SettledKeys   == {k \in Keys : event[k] > 0}
SettledOn(o)  == {k \in SettledKeys : o \in OrdersOf(k)}

\* The chain's two ledgers agree: an order is filled by the sum of the events
\* that settle it.  There are finitely many events at any time, whatever the
\* number of keys.
ChainAddsUp ==
  /\ IsFiniteSet(SettledKeys)
  /\ \A o \in Orders : filled[o] = SumFunctionOnSet(event, SettledOn(o))

\* It adds up before anything has settled.
LEMMA InitAddsUp == Init => ChainAddsUp
<1> SUFFICES ASSUME Init PROVE ChainAddsUp
  OBVIOUS
<1>1. SettledKeys = {}
  BY DEF Init, SettledKeys
<1>2. \A o \in Orders : SettledOn(o) = {} /\ filled[o] = 0
  BY <1>1 DEF Init, SettledOn
<1>3. QED
  BY <1>1, <1>2, SumEmpty, FS_EmptySet DEF ChainAddsUp

\* A settlement adds one event, of what it adds to its two orders.
LEMMA MineAddsUp ==
  ASSUME NetworkInv, ChainAddsUp, NEW e \in Executors, Mine(e)
  PROVE  ChainAddsUp'
<1>1. PICK f : f = Head(mempool[e])
  OBVIOUS
<1>2. /\ event \in [Keys -> Nat] /\ filled \in [Orders -> Nat]
      /\ mempool[e] \in Seq(Fills) /\ mempool[e] # <<>>
  BY DEF NetworkInv, NetworkTypes, Mine
<1>3. f \in Fills
  BY <1>1, <1>2
<1>4. CASE ~ContractAccepts(f)
  BY <1>1, <1>4 DEF Mine, ChainAddsUp, SettledKeys, SettledOn
<1>5. CASE ContractAccepts(f)
  <2>1. PICK key \in Keys : key = KeyOf(f)
    BY <1>3, FillFacts
  <2>2. PICK n : n = SettledBase(f)
    OBVIOUS
  <2>3. PICK h : h = event
    OBVIOUS
  <2>4. PICK g : g = event'
    OBVIOUS
  <2>5. n \in Nat /\ n > 0
    BY <1>3, <1>5, <2>2, SettledFacts
  <2>6. /\ h \in [Keys -> Nat] /\ h[key] = 0 /\ g = [h EXCEPT ![key] = n]
        /\ filled' = [o \in Orders |-> IF o \in OrdersOf(key) THEN filled[o] + n
                                                            ELSE filled[o]]
    BY <1>1, <1>2, <1>5, <2>1, <2>2, <2>3, <2>4 DEF Mine, ContractAccepts
  <2>7. PICK S : S = SettledKeys
    OBVIOUS
  <2>8. SettledKeys' = S \cup {key}
    BY <2>3, <2>4, <2>5, <2>6, <2>7 DEF SettledKeys
  <2>9. key \notin S /\ IsFiniteSet(S) /\ S \subseteq Keys
    BY <2>3, <2>6, <2>7 DEF SettledKeys, ChainAddsUp
  <2>10. IsFiniteSet(SettledKeys')
    BY <2>8, <2>9, FS_AddElement
  <2>11. ASSUME NEW o \in Orders
         PROVE  filled'[o] = SumFunctionOnSet(g, SettledOn(o)')
    <3>1. PICK T : T = SettledOn(o)
      OBVIOUS
    <3>2. PICK R : R = SettledOn(o)'
      OBVIOUS
    <3>3. /\ T \subseteq S /\ key \notin T /\ IsFiniteSet(T)
          /\ R = {k \in S \cup {key} : o \in OrdersOf(k)}
          /\ T = {k \in S : o \in OrdersOf(k)}
      <4>1. T = {k \in S : o \in OrdersOf(k)} /\ R = {k \in S \cup {key} : o \in OrdersOf(k)}
        BY <2>7, <2>8, <3>1, <3>2 DEF SettledOn
      <4>2. QED
        BY <2>9, <4>1, FS_Subset
    <3>4. filled[o] = SumFunctionOnSet(h, T) /\ filled[o] \in Nat
      BY <1>2, <2>3, <3>1 DEF ChainAddsUp
    <3>5. \A x \in T : g[x] = h[x] /\ h[x] \in Int
      BY <2>6, <2>9, <3>3
    <3>6. SumFunctionOnSet(g, T) = SumFunctionOnSet(h, T)
      BY <3>3, <3>5, SumAgrees
    <3>7. CASE o \in OrdersOf(key)
      <4>1. R = T \cup {key} /\ g[key] = n
        BY <2>6, <3>3, <3>7
      <4>2. \A x \in T \cup {key} : g[x] \in Int
        BY <2>5, <3>5, <4>1
      <4>3. SumFunctionOnSet(g, R) = SumFunctionOnSet(g, T) + g[key]
        BY <3>3, <4>1, <4>2, SumAdds
      <4>4. QED
        BY <2>6, <3>2, <3>4, <3>6, <3>7, <4>1, <4>3
    <3>8. CASE o \notin OrdersOf(key)
      <4>1. R = T
        BY <3>3, <3>8
      <4>2. QED
        BY <2>6, <3>2, <3>4, <3>6, <3>8, <4>1
    <3>9. QED
      BY <3>7, <3>8
  <2>12. QED
    BY <2>4, <2>10, <2>11 DEF ChainAddsUp
<1>6. QED
  BY <1>4, <1>5

\* Only mining writes the chain's ledgers.
LEMMA ChainWriters ==
  ASSUME [Next]_vars
  PROVE  (\E e \in Executors : Mine(e)) \/ UNCHANGED <<event, filled>>
<1>1. ASSUME NEW e \in Executors, Loop(e) PROVE UNCHANGED <<event, filled>>
  BY <1>1 DEF Loop, ListAll, Evaluate, Send, EstimationFails, Confirmed, Reverted,
              Publish, EndPoll, chainVars
<1>2. ASSUME NEW e \in Executors,
             \/ GiveUp(e) \/ Crash(e) \/ Restart(e) \/ RetryReceipt(e)
             \/ \E f \in Fills : BackoffEnds(e, f)
      PROVE  UNCHANGED <<event, filled>>
  BY <1>2 DEF GiveUp, Crash, Restart, RetryReceipt, BackoffEnds, chainVars
<1>3. CASE Environment
  BY <1>3 DEF Environment, NodeDown, NodeUp, Post, CloseOnChain, Lapse, MoveTokens,
              chainVars
<1>4. CASE UNCHANGED vars
  BY <1>4 DEF vars, chainVars
<1>5. QED
  BY <1>1, <1>2, <1>3, <1>4 DEF Next

\* Every step keeps the chain's ledgers in agreement.
LEMMA NextAddsUp == NetworkInv /\ ChainAddsUp /\ [Next]_vars => ChainAddsUp'
<1> SUFFICES ASSUME NetworkInv, ChainAddsUp, [Next]_vars PROVE ChainAddsUp'
  OBVIOUS
<1>1. CASE UNCHANGED <<event, filled>>
  BY <1>1 DEF ChainAddsUp, SettledKeys, SettledOn
<1>2. QED
  BY <1>1, MineAddsUp, ChainWriters

\* Receipts that report settlements credit an order with some of its events,
\* each once: never with more than the chain filled.
LEMMA CreditIsEarned ==
  ASSUME NetworkInv, ChainAddsUp, NEW objs, NEW rs \in SUBSET Receipts,
         \A r \in rs : EventMatches(r), NEW o \in Orders
  PROVE  Credit(o, objs, rs) <= filled[o]
<1>1. PICK P : P = ProvenKeys(objs, rs)
  OBVIOUS
<1>2. PICK b : b = [k \in P |-> ProvenBase(k, objs, rs)]
  OBVIOUS
<1>3. PICK S : S = {k \in P : o \in OrdersOf(k)}
  OBVIOUS
<1>4. Credit(o, objs, rs) = SumFunctionOnSet(b, S)
  BY <1>1, <1>2, <1>3 DEF Credit
<1>5. \A r \in Proofs(objs, rs) : r \in rs /\ r.key \in Keys
  BY DEF Proofs, Receipts
<1>6. \A k \in P : k \in SettledKeys /\ b[k] = event[k]
  <2> SUFFICES ASSUME NEW k \in P PROVE k \in SettledKeys /\ b[k] = event[k]
    OBVIOUS
  <2>1. \E r \in Proofs(objs, rs) : r.key = k
    BY <1>1 DEF ProvenKeys
  <2>2. PICK r \in Proofs(objs, rs) : /\ r = CHOOSE x \in Proofs(objs, rs) : x.key = k
                                      /\ r.key = k
    BY <2>1
  <2>3. b[k] = r.base
    BY <1>2, <2>2 DEF ProvenBase
  <2>4. EventMatches(r) /\ r.key \in Keys /\ event \in [Keys -> Nat]
    BY <1>5 DEF NetworkInv, NetworkTypes
  <2>5. QED
    BY <2>2, <2>3, <2>4 DEF EventMatches, SettledKeys
<1>7. PICK T : T = SettledOn(o)
  OBVIOUS
<1>8. /\ S \in SUBSET T /\ IsFiniteSet(T) /\ IsFiniteSet(S)
      /\ filled[o] = SumFunctionOnSet(event, T)
      /\ \A x \in T : event[x] \in Nat
  <2>1. S \subseteq T /\ T \subseteq SettledKeys
    BY <1>3, <1>6, <1>7 DEF SettledOn
  <2>2. IsFiniteSet(T) /\ IsFiniteSet(S)
    BY <2>1, FS_Subset DEF ChainAddsUp
  <2>3. \A x \in T : event[x] \in Nat
    BY <2>1 DEF SettledKeys, NetworkInv, NetworkTypes
  <2>4. QED
    BY <1>7, <2>1, <2>2, <2>3 DEF ChainAddsUp
<1>9. SumFunctionOnSet(b, S) = SumFunctionOnSet(event, S)
  BY <1>3, <1>6, <1>8, SumAgrees
<1>10. SumFunctionOnSet(event, S) <= SumFunctionOnSet(event, T)
  BY <1>8, SumOfPart
<1>11. QED
  BY <1>4, <1>8, <1>9, <1>10

\* What the network and its chain hold, together.
LEMMA ChainInvariance == Spec => [](NetworkInv /\ ChainAddsUp)
<1>1. Init => NetworkInv /\ ChainAddsUp
  BY InitNetwork, InitAddsUp
<1>2. NetworkInv /\ ChainAddsUp /\ [Next]_vars => (NetworkInv /\ ChainAddsUp)'
  BY NextNetwork, NextAddsUp
<1>3. QED
  BY <1>1, <1>2, PTL DEF Spec

\* No executor ever believes that more of an order has settled than has.
THEOREM CreditBounded == Spec => []CreditNeverExceedsChain
<1>1. NetworkInv /\ ChainAddsUp => CreditNeverExceedsChain
  <2> SUFFICES ASSUME NetworkInv, ChainAddsUp, NEW e \in Executors, NEW o \in Orders,
                      NEW rs, rs = {r \in seen[e].receipts : r \in valid[e] \/ EventMatches(r)}
               PROVE  Credit(o, Authentic(seen[e]), rs) <= filled[o]
    BY DEF CreditNeverExceedsChain
  <2>1. rs \in SUBSET Receipts
    BY DEF NetworkInv, NetworkTypes
  <2>2. \A r \in rs : EventMatches(r)
    BY DEF NetworkInv, TrustedReceiptsHold
  <2>3. QED
    BY <2>1, <2>2, CreditIsEarned
<1>2. QED
  BY <1>1, ChainInvariance, PTL

\* What an evaluation lets through: everything that deserves it.
LEMMA DeservingIsExecutable ==
  ASSUME NetworkInv, ChainAddsUp, NEW e \in Executors, NEW f \in Fills, Deserving(e, f),
         NEW rs \in SUBSET Receipts, \A r \in rs : EventMatches(r)
  PROVE  f \in Executable(Authentic(seen[e]), rs, inBackoff[e])
<1>1. PICK objs : objs = Authentic(seen[e])
  OBVIOUS
<1>2. /\ Complete(f, objs) /\ RevocationsOf[f] \cap objs = {}
      /\ ContractAccepts(f) /\ f \notin inBackoff[e]
  BY <1>1 DEF Deserving, Authentic
<1>3. Named(f) \cap Revoked(objs) = {}
  <2> SUFFICES ASSUME NEW t \in Named(f), t \in Revoked(objs) PROVE FALSE
    OBVIOUS
  <2>1. PICK v \in objs \cap Revocations :
          Revokes[v].target = t /\ Revokes[v].signer = OwnerOf(t)
    BY DEF Revoked
  <2>2. v \notin Forged
    BY <1>1 DEF Authentic
  <2>3. v \in RevocationsOf[f]
    BY <2>1, <2>2 DEF RevocationsOf
  <2>4. QED
    BY <1>2, <2>1, <2>3
<1>4. KeyOf(f) \notin ProvenKeys(objs, rs)
  <2> SUFFICES ASSUME NEW r \in rs, r.key = KeyOf(f) PROVE FALSE
    BY DEF ProvenKeys, Proofs
  <2>1. r.base > 0 /\ event[KeyOf(f)] = r.base /\ event[KeyOf(f)] = 0
    BY <1>2 DEF EventMatches, ContractAccepts
  <2>2. QED
    BY <2>1
<1>5. ASSUME NEW o \in OrdersOf(KeyOf(f))
      PROVE  Credit(o, objs, rs) < Size[o] /\ o \notin lapsed
  <2>1. o \in Orders
    BY FillFacts
  <2>2. Credit(o, objs, rs) <= filled[o]
    BY <2>1, CreditIsEarned
  <2>3. /\ Size[o] - filled[o] > 0 /\ o \notin lapsed
        /\ Size[o] \in Nat /\ filled[o] \in Nat
    BY <1>2, <2>1, ConstantsAssumption DEF ContractAccepts, Room, NetworkInv, NetworkTypes
  <2>4. PICK c : c = Credit(o, objs, rs)
    OBVIOUS
  <2>5. c \in Int
    <3>1. PICK b : b = [k \in ProvenKeys(objs, rs) |-> ProvenBase(k, objs, rs)]
      OBVIOUS
    <3>2. PICK S : S = {k \in ProvenKeys(objs, rs) : o \in OrdersOf(k)}
      OBVIOUS
    <3>3. ASSUME NEW k \in ProvenKeys(objs, rs)
          PROVE  k \in SettledKeys /\ b[k] \in Int
      <4>1. \E r \in Proofs(objs, rs) : r.key = k
        BY DEF ProvenKeys
      <4>2. PICK r \in Proofs(objs, rs) : /\ r = CHOOSE x \in Proofs(objs, rs) : x.key = k
                                          /\ r.key = k
        BY <4>1
      <4>3. b[k] = r.base /\ r \in Receipts /\ EventMatches(r)
        BY <3>1, <4>2 DEF ProvenBase, Proofs
      <4>4. QED
        BY <4>2, <4>3 DEF EventMatches, SettledKeys, Receipts
    <3>4. IsFiniteSet(S) /\ \A x \in S : b[x] \in Int
      BY <3>2, <3>3, FS_Subset DEF ChainAddsUp
    <3>5. SumFunctionOnSet(b, S) \in Int
      BY <3>4, SumType
    <3>6. QED
      BY <2>4, <3>1, <3>2, <3>5 DEF Credit
  <2>6. QED
    BY <2>2, <2>3, <2>4, <2>5
<1>6. QED
  BY <1>1, <1>2, <1>3, <1>4, <1>5 DEF Executable

\* Nothing others publish makes an executor pass over a fill that can settle.
THEOREM NothingPassedOver == Spec => NothingSkipped
<1> DEFINE Kept ==
      \A e \in Executors : pc[e] = "listed" /\ pc'[e] = "working" =>
        {f \in Fills : Deserving(e, f)} \subseteq todo'[e]
<1>1. NetworkInv /\ ChainAddsUp /\ NetworkInv' /\ [Next]_vars => Kept
  <2> SUFFICES ASSUME NetworkInv, ChainAddsUp, NetworkInv', [Next]_vars,
                      NEW e \in Executors, pc[e] = "listed", pc'[e] = "working"
               PROVE  {f \in Fills : Deserving(e, f)} \subseteq todo'[e]
    BY DEF Kept
  <2>1. Evaluate(e)
    <3>1. pc \in [Executors -> {"idle", "listed", "working", "waiting",
                                "publishing", "down"}]
      BY DEF NetworkInv, NetworkTypes
    <3>2. ASSUME NEW d \in Executors, d # e,
                 \/ Loop(d) \/ Mine(d) \/ GiveUp(d) \/ Crash(d) \/ Restart(d)
                 \/ RetryReceipt(d) \/ \E f \in Fills : BackoffEnds(d, f)
          PROVE  pc'[e] = pc[e]
      BY <3>1, <3>2
      DEF Loop, ListAll, Evaluate, Send, EstimationFails, Confirmed, Reverted, Publish,
          EndPoll, Mine, GiveUp, Crash, Restart, RetryReceipt, BackoffEnds, Fails, loopVars
    <3>3. ASSUME \/ Loop(e) \/ Mine(e) \/ GiveUp(e) \/ Crash(e) \/ Restart(e)
                 \/ RetryReceipt(e) \/ \E f \in Fills : BackoffEnds(e, f)
          PROVE  Evaluate(e)
      BY <3>1, <3>3
      DEF Loop, ListAll, Send, EstimationFails, Confirmed, Reverted, Publish,
          EndPoll, Mine, GiveUp, Crash, Restart, RetryReceipt, BackoffEnds, loopVars
    <3>4. CASE Environment \/ UNCHANGED vars
      BY <3>4 DEF Environment, NodeDown, NodeUp, Post, CloseOnChain, Lapse, MoveTokens,
                  vars, loopVars
    <3>5. QED
      BY <3>2, <3>3, <3>4 DEF Next
  <2>2. PICK rs : rs = seen[e].receipts \cap valid'[e]
    OBVIOUS
  <2>3. rs \in SUBSET Receipts
    BY <2>2 DEF NetworkInv, NetworkTypes
  <2>4. \A r \in rs : EventMatches(r)
    <3>1. UNCHANGED event
      BY <2>1 DEF Evaluate, chainVars
    <3>2. \A r \in valid'[e] : r.base > 0 /\ event'[r.key] = r.base
      BY DEF NetworkInv, TrustedReceiptsHold, EventMatches
    <3>3. QED
      BY <2>2, <3>1, <3>2 DEF EventMatches
  <2>5. todo'[e] = {f \in Executable(Authentic(seen[e]), rs, inBackoff[e]) :
                      FillOf[f].fee >= MinFee[e]}
    <3>1. todo \in [Executors -> SUBSET Fills]
      BY DEF NetworkInv, NetworkTypes
    <3>2. QED
      BY <2>1, <2>2, <3>1 DEF Evaluate
  <2>6. ASSUME NEW f \in Fills, Deserving(e, f)
        PROVE  f \in todo'[e]
    <3>1. f \in Executable(Authentic(seen[e]), rs, inBackoff[e])
      BY <2>3, <2>4, <2>6, DeservingIsExecutable
    <3>2. FillOf[f].fee >= MinFee[e]
      BY <2>6 DEF Deserving
    <3>3. QED
      BY <2>5, <3>1, <3>2
  <2>7. QED
    BY <2>6
<1>2. NetworkInv /\ ChainAddsUp /\ NetworkInv' /\ [Next]_vars => [Kept]_vars
  BY <1>1
<1>3. QED
  BY <1>2, ChainInvariance, PTL DEF Spec, NothingSkipped
=============================================================================
