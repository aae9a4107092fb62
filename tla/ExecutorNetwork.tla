-------------------------- MODULE ExecutorNetwork --------------------------
(***************************************************************************)
(* The off-chain half of Covenant: AON nodes hold the signed objects,      *)
(* executors poll a node, validate and evaluate what it lists, send the    *)
(* executable fills to the settlement contract and publish receipts.       *)
(* Translated from covenant-executor/executor.ts and, in                   *)
(* aon-namespace-evm-spot, from executableEvmSpot.ts (the evaluator),      *)
(* validators/objects.ts, namespace.ts and executors/evmSpotSettlement.ts. *)
(*                                                                         *)
(* The chain is reduced to what an executor can see of it: the base each   *)
(* fill key settled for, and whether the contract would take a fill now.   *)
(* EvmSpotSettlement models the contract itself.                           *)
(***************************************************************************)
EXTENDS Integers, Sequences, FiniteSets, FiniteSetsExt, Functions

CONSTANTS
  Executors, Nodes,
  NodeList,      \* [Executors -> Seq(Nodes)]: AON_NODE_URLS, in order
  MinFee,        \* [Executors -> Nat]: MIN_FEE_QUOTE
  Orders,        \* the signed orders, by EIP-712 hash
  Size, Trader,  \* [Orders -> Nat], [Orders -> the wallet that signed it]
  Auths,         \* authorization objects, by AON hash
  Grantor,       \* [Auths -> the wallet that signed it]
  OrderCopies,   \* order objects, by AON hash: one order may have several
  CopyOf,        \* [OrderCopies -> [signs : Orders, auth : Auths]]
  Fills,         \* fill objects, by AON hash
  FillOf,        \* [Fills -> record, see KeyOf and Named]
  Revocations,   \* revocation objects, by AON hash
  Revokes,       \* [Revocations -> [target : object, signer : wallet]]
  Forged,        \* the objects whose signature does not verify
  EarlyObjects, EarlyReceipts,  \* what the nodes hold at the start
  LateObjects,   \* what may still be posted
  Cancellable, Expiring, Poorly,\* the orders that may be closed on-chain, may
                 \* lapse, and whose wallet may run short of tokens
  MaxFaults      \* bound on crashes, outages, timeouts and RPC errors

Objects == Auths \cup OrderCopies \cup Fills \cup Revocations

\* fillKeyFor: the contract's replay key covers the two EIP-712 orders and
\* every field of the fill, so copies of a fill have one key.
KeyOf(f) ==
  LET x == FillOf[f]
  IN  <<x.nonce, CopyOf[x.makerOrder].signs, CopyOf[x.takerOrder].signs,
        x.base, x.fee>>

Keys == {KeyOf(f) : f \in Fills}
OrdersOf(k) == {k[2], k[3]}

\* What a receipt claims.  The reference to the fill is not signed by anyone.
Receipts == [fill : Fills, key : Keys, base : Nat]

ASSUME ConstantsAssumption ==
  /\ NodeList \in [Executors -> Seq(Nodes)]
  /\ MinFee \in [Executors -> Nat] /\ MaxFaults \in Nat
  /\ Size \in [Orders -> Nat \ {0}]
  /\ CopyOf \in [OrderCopies -> [signs : Orders, auth : Auths]]
  /\ FillOf \in [Fills -> [nonce : Nat, makerOrder : OrderCopies,
                           takerOrder : OrderCopies, makerAuth : Auths,
                           takerAuth : Auths, base : Nat \ {0}, fee : Nat]]
  /\ Forged \cup EarlyObjects \cup LateObjects \subseteq Objects
  /\ EarlyReceipts \subseteq Receipts
  /\ Cancellable \cup Expiring \cup Poorly \subseteq Orders
-----------------------------------------------------------------------------
VARIABLES
  objects, receipts, up,   \* per node: what it holds, whether it answers
  event,     \* per key: the base its SpotTradeSettled event reports, or 0
  filled,    \* per order: filledBaseByOrder
  closed,    \* orders revoked or cancelled in the contract
  lapsed,    \* orders past validBefore
  short,     \* orders whose wallet cannot pay at the moment
  pc,        \* per executor: where its poll loop is
  seen,      \* the listing being evaluated: [objects, receipts]
  valid, failedAt, \* receipts that validated; receipts not to be retried yet
  inBackoff, \* fills that failed and are not to be retried yet
  todo, current, \* the graphs of this poll still to execute; the one under way
  mempool, outcome, \* sent fills not yet mined; what became of the awaited one
  faults

nodeVars  == <<objects, receipts, up>>
chainVars == <<event, filled, closed, lapsed, short>>
loopVars  == <<pc, seen, todo, current>>
mindVars  == <<valid, failedAt, inBackoff>>
txVars    == <<mempool, outcome>>
vars == <<nodeVars, chainVars, loopVars, mindVars, txVars, faults>>

Nobody == "none"
Nothing == [objects |-> {}, receipts |-> {}]

TypeOK ==
  /\ objects \in [Nodes -> SUBSET Objects]
  /\ \A n \in Nodes : receipts[n] \subseteq Receipts
  /\ up \in [Nodes -> BOOLEAN]
  /\ event \in [Keys -> Nat]
  /\ \A o \in Orders : filled[o] \in 0..Size[o]
  /\ closed \subseteq Orders /\ lapsed \subseteq Orders /\ short \subseteq Orders
  /\ pc \in [Executors -> {"idle", "listed", "working", "waiting",
                           "publishing", "down"}]
  /\ \A e \in Executors :
       /\ seen[e].objects \subseteq Objects /\ seen[e].receipts \subseteq Receipts
       /\ valid[e] \subseteq Receipts /\ failedAt[e] \subseteq Receipts
       /\ inBackoff[e] \subseteq Fills /\ todo[e] \subseteq Fills
       /\ current[e] \in Fills \cup {Nobody}
       /\ mempool[e] \in Seq(Fills)
       /\ outcome[e] \in {"none", "success", "reverted"}
  /\ faults \in 0..MaxFaults
-----------------------------------------------------------------------------
\* The contract, as seen from outside.

Room(o) == Size[o] - filled[o]

\* settleSpotTrade would not revert now: what gas estimation finds out.
ContractAccepts(f) ==
  /\ event[KeyOf(f)] = 0
  /\ \A o \in OrdersOf(KeyOf(f)) :
       o \notin closed \cup lapsed \cup short /\ Room(o) > 0

\* The contract settles as much of a fill as still fits both orders.
SettledBase(f) ==
  Min({FillOf[f].base} \cup {Room(o) : o \in OrdersOf(KeyOf(f))})
-----------------------------------------------------------------------------
\* Validators and evaluator: pure functions of a listing.

\* validateReceiptObject: the claims must be those of an event on the chain.
EventMatches(r) == r.base > 0 /\ event[r.key] = r.base

\* Every other object validates by its own signature, always the same way.
Authentic(listing) == listing.objects \ Forged

Named(f) == LET x == FillOf[f]
            IN  {x.makerOrder, x.takerOrder, x.makerAuth, x.takerAuth}

\* The objects a fill names are there, each order under the authorization the
\* fill names for it.
Complete(f, objs) ==
  LET x == FillOf[f]
  IN  /\ f \in objs /\ Named(f) \subseteq objs
      /\ CopyOf[x.makerOrder].auth = x.makerAuth
      /\ CopyOf[x.takerOrder].auth = x.takerAuth

OwnerOf(t) == IF t \in Auths THEN Grantor[t] ELSE Trader[CopyOf[t].signs]

RevokedByAnyone(objs) ==    \* fault: whoever signed it
  {Revokes[v].target : v \in objs \cap Revocations}

RevokedOrders(objs) ==      \* fault: authorizations are not looked up
  {Revokes[v].target : v \in {v \in objs \cap Revocations :
     /\ Revokes[v].target \in objs \cap OrderCopies
     /\ Revokes[v].signer = OwnerOf(Revokes[v].target)}}

\* A revocation counts when the owner of a listed target signed it.
Revoked(objs) ==
  {Revokes[v].target : v \in {v \in objs \cap Revocations :
     /\ Revokes[v].target \in objs \cap (Auths \cup OrderCopies)
     /\ Revokes[v].signer = OwnerOf(Revokes[v].target)}}

\* computeGenuineReceipts: the receipts that prove the key of the fill they
\* refer to, given objects objs and receipts rs that validated.
Proofs(objs, rs) ==
  {r \in rs : /\ r.fill \in objs
              /\ {FillOf[r.fill].makerOrder, FillOf[r.fill].takerOrder} \subseteq objs
              /\ r.key = KeyOf(r.fill)}

ProvenKeys(objs, rs) == {r.key : r \in Proofs(objs, rs)}
ProvenBase(k, objs, rs) == (CHOOSE r \in Proofs(objs, rs) : r.key = k).base

CreditPerFill(o, objs, rs) ==  \* fault: every copy of a settled fill counts
  MapThenSumSet(LAMBDA f : ProvenBase(KeyOf(f), objs, rs),
    {f \in objs \cap Fills : /\ KeyOf(f) \in ProvenKeys(objs, rs)
                             /\ o \in OrdersOf(KeyOf(f))})

\* sumReceiptedBaseForOrder: each settlement is credited once, whichever
\* copies of the fill and of the order it is seen through.
Credit(o, objs, rs) ==
  SumFunctionOnSet([k \in ProvenKeys(objs, rs) |-> ProvenBase(k, objs, rs)],
                   {k \in ProvenKeys(objs, rs) : o \in OrdersOf(k)})

\* findExecutableEvmSpotGraphs: the fills whose status is "executable".
Executable(objs, rs, backoff) ==
  {f \in Fills :
     /\ Complete(f, objs)
     /\ Named(f) \cap Revoked(objs) = {}
     /\ KeyOf(f) \notin ProvenKeys(objs, rs)
     /\ \A o \in OrdersOf(KeyOf(f)) : Credit(o, objs, rs) < Size[o]
     /\ OrdersOf(KeyOf(f)) \cap lapsed = {}
     /\ f \notin backoff}

ReceiptAsSubmitted(f) ==    \* fault: the fill's amount, not the event's
  [fill |-> f, key |-> KeyOf(f), base |-> FillOf[f].base]

ReceiptForKey(f) ==         \* fault: refers to the fill by its key
  [fill |-> KeyOf(f), key |-> KeyOf(f), base |-> event[KeyOf(f)]]

\* The receipt an executor builds from the event of its own transaction.
ReceiptFor(f) == [fill |-> f, key |-> KeyOf(f), base |-> event[KeyOf(f)]]
-----------------------------------------------------------------------------
Init ==
  /\ objects = [n \in Nodes |-> EarlyObjects]
  /\ receipts = [n \in Nodes |-> EarlyReceipts]
  /\ up = [n \in Nodes |-> TRUE]
  /\ event = [k \in Keys |-> 0]
  /\ filled = [o \in Orders |-> 0]
  /\ closed = {} /\ lapsed = {} /\ short = {}
  /\ pc = [e \in Executors |-> "idle"]
  /\ seen = [e \in Executors |-> Nothing]
  /\ valid = [e \in Executors |-> {}]
  /\ failedAt = [e \in Executors |-> {}]
  /\ inBackoff = [e \in Executors |-> {}]
  /\ todo = [e \in Executors |-> {}]
  /\ current = [e \in Executors |-> Nobody]
  /\ mempool = [e \in Executors |-> <<>>]
  /\ outcome = [e \in Executors |-> "none"]
  /\ faults = 0

\* A fault of the environment, within the bound.
Fault == faults < MaxFaults /\ faults' = faults + 1

FirstListed(e) ==           \* fault: no failover to the next node
  {n \in {NodeList[e][1]} : up[n]}

\* listAll: the whole listing of the first node that answers.
FirstReachable(e) ==
  {NodeList[e][i] : i \in {i \in 1..Len(NodeList[e]) :
     /\ up[NodeList[e][i]]
     /\ \A j \in 1..(i - 1) : ~up[NodeList[e][j]]}}

ListAll(e) ==
  /\ pc[e] = "idle"
  /\ \E n \in FirstReachable(e) :
       seen' = [seen EXCEPT ![e] = [objects |-> objects[n], receipts |-> receipts[n]]]
  /\ pc' = [pc EXCEPT ![e] = "listed"]
  /\ UNCHANGED <<nodeVars, chainVars, todo, current, mindVars, txVars, faults>>

\* validObjects and evaluate, with the MIN_FEE test of pollOnce.  A receipt is
\* looked up on the chain once; an RPC error (hiccup) counts as a failure, and
\* failures are left out of this and of later evaluations for five minutes.
Evaluate(e) ==
  /\ pc[e] = "listed"
  /\ LET fresh == seen[e].receipts \ (valid[e] \cup failedAt[e])
         sound == {r \in fresh : EventMatches(r)}
     IN  \E hiccup \in SUBSET sound :
           /\ IF hiccup = {} THEN UNCHANGED faults ELSE Fault
           /\ valid' = [valid EXCEPT ![e] = @ \cup (sound \ hiccup)]
           /\ failedAt' = [failedAt EXCEPT ![e] = @ \cup (fresh \ (sound \ hiccup))]
           /\ todo' = [todo EXCEPT ![e] =
                {f \in Executable(Authentic(seen[e]), seen[e].receipts \cap valid'[e],
                                  inBackoff[e]) : FillOf[f].fee >= MinFee[e]}]
  /\ seen' = [seen EXCEPT ![e] = Nothing]
  /\ pc' = [pc EXCEPT ![e] = "working"]
  /\ UNCHANGED <<nodeVars, chainVars, current, inBackoff, txVars>>

\* recordFillFailure, after which pollOnce goes on with the next graph.
Fails(e, f) ==
  /\ inBackoff' = [inBackoff EXCEPT ![e] = @ \cup {f}]
  /\ current' = [current EXCEPT ![e] = Nobody]
  /\ pc' = [pc EXCEPT ![e] = "working"]

\* writeContract: a call that would revert fails at gas estimation and nothing
\* is sent, and so does any call while the RPC is in trouble.
Send(e, f) ==
  /\ pc[e] = "working" /\ f \in todo[e]
  /\ ContractAccepts(f)
  /\ mempool' = [mempool EXCEPT ![e] = Append(@, f)]
  /\ todo' = [todo EXCEPT ![e] = @ \ {f}]
  /\ current' = [current EXCEPT ![e] = f]
  /\ pc' = [pc EXCEPT ![e] = "waiting"]
  /\ UNCHANGED <<nodeVars, chainVars, seen, mindVars, outcome, faults>>

EstimationFails(e, f) ==
  /\ pc[e] = "working" /\ f \in todo[e]
  /\ IF ContractAccepts(f) THEN Fault ELSE UNCHANGED faults
  /\ Fails(e, f)
  /\ todo' = [todo EXCEPT ![e] = @ \ {f}]
  /\ UNCHANGED <<nodeVars, chainVars, seen, valid, failedAt, txVars>>

\* The chain mines an account's transactions in order.  The executor learns
\* the outcome of the one it waits for, the last it sent.
Mine(e) ==
  /\ mempool[e] # <<>>
  /\ LET f == Head(mempool[e])
         awaited == pc[e] = "waiting" /\ Len(mempool[e]) = 1
         result == IF ContractAccepts(f) THEN "success" ELSE "reverted"
     IN  /\ IF ContractAccepts(f)
            THEN /\ event' = [event EXCEPT ![KeyOf(f)] = SettledBase(f)]
                 /\ filled' = [o \in Orders |-> IF o \in OrdersOf(KeyOf(f))
                                               THEN filled[o] + SettledBase(f)
                                               ELSE filled[o]]
            ELSE UNCHANGED <<event, filled>>
         /\ outcome' = [outcome EXCEPT ![e] = IF awaited THEN result ELSE @]
  /\ mempool' = [mempool EXCEPT ![e] = Tail(@)]
  /\ UNCHANGED <<nodeVars, closed, lapsed, short, loopVars, mindVars, faults>>

ConfirmedUnpublished(e) ==  \* fault: the receipt is kept to itself
  /\ pc[e] = "waiting" /\ outcome[e] = "success"
  /\ valid' = [valid EXCEPT ![e] = @ \cup {ReceiptFor(current[e])}]
  /\ current' = [current EXCEPT ![e] = Nobody]
  /\ outcome' = [outcome EXCEPT ![e] = "none"]
  /\ pc' = [pc EXCEPT ![e] = "working"]
  /\ UNCHANGED <<nodeVars, chainVars, seen, todo, failedAt, inBackoff, mempool, faults>>

\* waitForTransactionReceipt returns: the event is read, and the executor
\* trusts the receipt it builds without looking it up again.
Confirmed(e) ==
  /\ pc[e] = "waiting" /\ outcome[e] = "success"
  /\ valid' = [valid EXCEPT ![e] = @ \cup {ReceiptFor(current[e])}]
  /\ inBackoff' = [inBackoff EXCEPT ![e] = @ \ {current[e]}]
  /\ outcome' = [outcome EXCEPT ![e] = "none"]
  /\ pc' = [pc EXCEPT ![e] = "publishing"]
  /\ UNCHANGED <<nodeVars, chainVars, seen, todo, current, failedAt, mempool, faults>>

Reverted(e) ==
  /\ pc[e] = "waiting" /\ outcome[e] = "reverted"
  /\ Fails(e, current[e])
  /\ outcome' = [outcome EXCEPT ![e] = "none"]
  /\ UNCHANGED <<nodeVars, chainVars, seen, todo, valid, failedAt, mempool, faults>>

\* waitForTransactionReceipt throws: it timed out, or the RPC failed, whatever
\* becomes of the transaction.
GiveUp(e) ==
  /\ pc[e] = "waiting"
  /\ Fault
  /\ Fails(e, current[e])
  /\ outcome' = [outcome EXCEPT ![e] = "none"]
  /\ UNCHANGED <<nodeVars, chainVars, seen, todo, valid, failedAt, mempool>>

\* publish: one put to every node, none of them repeated.
Publish(e) ==
  /\ pc[e] = "publishing"
  /\ receipts' = [n \in Nodes |->
       IF up[n] /\ \E i \in DOMAIN NodeList[e] : NodeList[e][i] = n
       THEN receipts[n] \cup {ReceiptFor(current[e])} ELSE receipts[n]]
  /\ current' = [current EXCEPT ![e] = Nobody]
  /\ pc' = [pc EXCEPT ![e] = "working"]
  /\ UNCHANGED <<objects, up, chainVars, seen, todo, mindVars, txVars, faults>>

EndPoll(e) ==
  /\ pc[e] = "working" /\ todo[e] = {}
  /\ pc' = [pc EXCEPT ![e] = "idle"]
  /\ UNCHANGED <<nodeVars, chainVars, seen, todo, current, mindVars, txVars, faults>>

\* The timers run out: BACKOFF_BASE_MS .. BACKOFF_MAX_MS, and five minutes.
BackoffEnds(e, f) ==
  /\ f \in inBackoff[e]
  /\ inBackoff' = [inBackoff EXCEPT ![e] = @ \ {f}]
  /\ UNCHANGED <<nodeVars, chainVars, loopVars, valid, failedAt, txVars, faults>>

RetryReceipt(e) ==
  /\ \E r \in failedAt[e] : failedAt' = [failedAt EXCEPT ![e] = @ \ {r}]
  /\ UNCHANGED <<nodeVars, chainVars, loopVars, valid, inBackoff, txVars, faults>>

\* The process dies and systemd starts it again; it keeps nothing on disk.
Crash(e) ==
  /\ pc[e] # "down"
  /\ Fault
  /\ pc' = [pc EXCEPT ![e] = "down"]
  /\ seen' = [seen EXCEPT ![e] = Nothing]
  /\ todo' = [todo EXCEPT ![e] = {}]
  /\ current' = [current EXCEPT ![e] = Nobody]
  /\ valid' = [valid EXCEPT ![e] = {}]
  /\ failedAt' = [failedAt EXCEPT ![e] = {}]
  /\ inBackoff' = [inBackoff EXCEPT ![e] = {}]
  /\ outcome' = [outcome EXCEPT ![e] = "none"]
  /\ UNCHANGED <<nodeVars, chainVars, mempool>>

Restart(e) ==
  /\ pc[e] = "down"
  /\ pc' = [pc EXCEPT ![e] = "idle"]
  /\ UNCHANGED <<nodeVars, chainVars, seen, todo, current, mindVars, txVars, faults>>
-----------------------------------------------------------------------------
\* The rest of the world.

NodeDown(n) ==
  /\ up[n] /\ Fault
  /\ up' = [up EXCEPT ![n] = FALSE]
  /\ UNCHANGED <<objects, receipts, chainVars, loopVars, mindVars, txVars>>

NodeUp(n) ==
  /\ ~up[n]
  /\ up' = [up EXCEPT ![n] = TRUE]
  /\ UNCHANGED <<objects, receipts, chainVars, loopVars, mindVars, txVars, faults>>

\* Anyone posts an object, to the nodes that answer.
Post(x) ==
  /\ x \in LateObjects
  /\ \E n \in Nodes : up[n] /\ x \notin objects[n]
  /\ objects' = [n \in Nodes |-> objects[n] \cup (IF up[n] THEN {x} ELSE {})]
  /\ UNCHANGED <<receipts, up, chainVars, loopVars, mindVars, txVars, faults>>

CloseOnChain(o) ==
  /\ o \in Cancellable \ closed
  /\ closed' = closed \cup {o}
  /\ UNCHANGED <<nodeVars, event, filled, lapsed, short, loopVars, mindVars, txVars, faults>>

Lapse(o) ==
  /\ o \in Expiring \ lapsed
  /\ lapsed' = lapsed \cup {o}
  /\ UNCHANGED <<nodeVars, event, filled, closed, short, loopVars, mindVars, txVars, faults>>

\* A wallet moves its tokens away, or back.
MoveTokens(o) ==
  /\ o \in Poorly
  /\ short' = IF o \in short THEN short \ {o} ELSE short \cup {o}
  /\ UNCHANGED <<nodeVars, event, filled, closed, lapsed, loopVars, mindVars, txVars, faults>>

Environment ==
  \/ \E n \in Nodes : NodeDown(n) \/ NodeUp(n)
  \/ \E x \in LateObjects : Post(x)
  \/ \E o \in Orders : CloseOnChain(o) \/ Lapse(o) \/ MoveTokens(o)

\* What an executor does of itself, one step at a time.
Loop(e) ==
  \/ ListAll(e) \/ Evaluate(e)
  \/ \E f \in Fills : Send(e, f) \/ EstimationFails(e, f)
  \/ Confirmed(e) \/ Reverted(e) \/ Publish(e) \/ EndPoll(e)

Next ==
  \/ \E e \in Executors :
       \/ Loop(e) \/ Mine(e) \/ GiveUp(e) \/ Crash(e) \/ Restart(e)
       \/ RetryReceipt(e) \/ \E f \in Fills : BackoffEnds(e, f)
  \/ Environment

\* The poll loop runs, the chain mines, timers run out and systemd restarts
\* what died.  Nothing is assumed of nodes, traders or wallets.
Fairness ==
  \A e \in Executors :
    /\ WF_vars(Loop(e)) /\ WF_vars(Mine(e)) /\ WF_vars(Restart(e))
    /\ \A f \in Fills : WF_vars(BackoffEnds(e, f))

Spec == Init /\ [][Next]_vars /\ Fairness
-----------------------------------------------------------------------------
\* What executors may and must do.

\* A receipt an executor trusts reports a settlement of that very key and the
\* base that moved, however it was come by: looked up on the chain, or built
\* from the executor's own transaction (which may settle part of the fill).
TrustedReceiptsHold ==
  \A e \in Executors : \A r \in valid[e] : EventMatches(r)

\* What an executor believes an order has settled is never more than what the
\* chain has settled of it, with copies of fills and of orders, forged receipts
\* and copies of genuine receipts in the listing.
CreditNeverExceedsChain ==
  \A e \in Executors : pc[e] = "listed" =>
    LET rs == {r \in seen[e].receipts : r \in valid[e] \/ EventMatches(r)}
    IN  \A o \in Orders : Credit(o, Authentic(seen[e]), rs) <= filled[o]

\* The authentic revocations by their owners of objects fill f names.
RevocationsOf ==
  [f \in Fills |-> {v \in Revocations \ Forged :
                      /\ Revokes[v].target \in Named(f)
                      /\ Revokes[v].signer = OwnerOf(Revokes[v].target)}]

\* A fill that executor e has before it, that pays its fee, that nobody with a
\* right to has revoked, and that the contract would take.
Deserving(e, f) ==
  LET objs == seen[e].objects \ Forged
  IN  /\ Complete(f, objs) /\ RevocationsOf[f] \cap objs = {}
      /\ FillOf[f].fee >= MinFee[e]
      /\ ContractAccepts(f)
      /\ f \notin inBackoff[e]

\* An evaluation leaves out no such fill: nothing that others publish (forged
\* receipts, receipts of other fills, copies, revocations by strangers) makes
\* an executor pass over a trade that can settle.
NothingSkipped ==
  [][\A e \in Executors : pc[e] = "listed" /\ pc'[e] = "working" =>
       {f \in Fills : Deserving(e, f)} \subseteq todo'[e]]_vars

\* No listing can miss it.
RevokedEverywhere(f) ==
  {v \in RevocationsOf[f] : \A n \in Nodes : {v} \cup Named(f) \subseteq objects[n]} # {}

RevokedSomewhere(f) == RevocationsOf[f] \cap UNION {objects[n] : n \in Nodes} # {}

\* A free cancellation takes hold: once the owner's revocation of an object is
\* on every node, executors in time stop sending the fills that name it.
RevocationsTakeHold ==
  \A f \in Fills : RevokedEverywhere(f) ~>
    [](\A e \in Executors : f \notin todo[e] /\ current[e] # f)

\* A published fill does not stay settleable for ever: executors settle it, or
\* something stops it.  Assumes that in the end some node answers.
SomeNodeAnswers == <>[](TRUE \in {up[n] : n \in Nodes})

\* It also assumes that the fill is complete and pays some executor's fee.
Payable == {f \in Fills : /\ Complete(f, EarlyObjects \ Forged)
                         /\ \E e \in Executors : FillOf[f].fee >= MinFee[e]}

LiveFillsSettle ==
  SomeNodeAnswers =>
    \A f \in Payable : []<>(~ContractAccepts(f) \/ RevokedSomewhere(f))

HasReceipt(k) ==
  {r \in UNION {receipts[n] : n \in Nodes} : r.key = k /\ EventMatches(r)} # {}

\* The docs' "published by the executor after the settlement transaction
\* confirms": every settlement gets its receipt.
SettlementsGetReceipts ==
  \A k \in Keys : event[k] > 0 ~> HasReceipt(k)

\* It does where nothing fails on the way: a receipt can be lost only to a
\* crash, an outage, a timeout or an RPC error.
ReceiptsFollowWithoutFaults == [](faults = 0) => SettlementsGetReceipts

\* The README's "free signed revocation that executors honour": a fill is not
\* queued when the listing holds the owner's revocation of an authorization,
\* or of an order, of one of the signed orders it trades.
FreeCancelHonoured ==
  [][\A e \in Executors : pc[e] = "listed" /\ pc'[e] = "working" =>
       \A f \in todo'[e] : \A x \in Revoked(Authentic(seen[e])) :
         \A c \in OrderCopies \cap seen[e].objects :
           x \in {c, CopyOf[c].auth} => CopyOf[c].signs \notin OrdersOf(KeyOf(f))]_vars
=============================================================================
