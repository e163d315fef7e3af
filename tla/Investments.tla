----------------------------- MODULE Investments ------------------------------
(***************************************************************************)
(* Orders of one property's tokens, the table investments.  An investor    *)
(* prepares an order, pays the token contract from the own wallet and      *)
(* reports the transaction's hash; the route binds the hash to the order   *)
(* in one database transaction and reconciles it in another.  The indexer  *)
(* reconciles the same transaction when it meets it (module Indexer), but  *)
(* it may never do so: a failed log query hides a transaction for good, and*)
(* every chunk waits for one whose payment the database refuses.           *)
(*                                                                         *)
(* Wallets are free: they pay without an order, pay another amount, pass   *)
(* tokens on or back to the contract, which sells them again, and report   *)
(* any transaction they sent to the token contract.                        *)
(***************************************************************************)
EXTENDS Integers, Sequences, FiniteSets, Functions

CONSTANTS
  Investors,   \* wallets
  Supply,      \* tokens minted to the token contract for sale
  Amounts,     \* tokens bought at a time
  Handlers,    \* API worker threads
  MaxOrders,   \* bound: orders prepared
  MaxTxs,      \* bound: transactions sent to the token contract
  MaxConfirms, \* bound: confirm requests
  MaxFaults    \* bound: requests that die, transactions the indexer misses

ASSUME InvestmentsAssumption ==
  /\ IsFiniteSet(Investors) /\ Supply \in Nat /\ Amounts \subseteq Nat \ {0}
  /\ {MaxOrders, MaxTxs, MaxConfirms, MaxFaults} \subseteq Nat

VARIABLES
  txs,      \* mined transactions to the token contract; index = hash
  orders,   \* rows of investments; index = id, tx 0 = NULL
  indexed,  \* transactions whose events are recorded
  missed,   \* transactions the indexer does not get at, for good
  req,      \* the confirm request each handler serves
  left      \* what remains of the bounds

vars == <<txs, orders, indexed, missed, req, left>>

Idle == [stage |-> "off", id |-> 0, tx |-> 0]

Init ==
  /\ txs = <<>> /\ orders = <<>> /\ indexed = {} /\ missed = {}
  /\ req = [h \in Handlers |-> Idle]
  /\ left = [orders |-> MaxOrders, confirms |-> MaxConfirms, faults |-> MaxFaults]

Spend(what) == left[what] > 0 /\ left' = [left EXCEPT ![what] = @ - 1]

Sale == "sale"  \* the token contract as a holder of tokens

Purchases == {t \in DOMAIN txs : txs[t].kind = "invest"}
Returns == {t \in DOMAIN txs : txs[t].to = Sale}

(* The tokens that the transactions of a set move.                         *)
Moved(set) == SumFunction([t \in 1 .. MaxTxs |-> IF t \in set THEN txs[t].amount ELSE 0])

Holds(w) ==
  Moved({t \in DOMAIN txs : txs[t].to = w})
    - Moved({t \in DOMAIN txs : txs[t].kind = "transfer" /\ txs[t].who = w})
-------------------------------------------------------------------------------
(* The chain: invest() sells from the contract's own balance; a holder may *)
(* call transfer() as well, to another wallet or to the contract itself.   *)
MutSellsBeyond(n) == TRUE
InventoryCovers(n) == n <= Supply - Moved(Purchases) + Moved(Returns)

Invest(w, n) ==
  /\ Len(txs) < MaxTxs /\ InventoryCovers(n)
  /\ txs' = Append(txs, [kind |-> "invest", who |-> w, to |-> w, amount |-> n])
  /\ UNCHANGED <<orders, indexed, missed, req, left>>

Transfer(w, to) ==
  /\ Len(txs) < MaxTxs /\ to # w /\ Holds(w) >= 1
  /\ txs' = Append(txs, [kind |-> "transfer", who |-> w, to |-> to, amount |-> 1])
  /\ UNCHANGED <<orders, indexed, missed, req, left>>
-------------------------------------------------------------------------------
(* prepare_investment, with the property's row locked: orders that nobody  *)
(* paid for reserve nothing, and the balances it reads are the indexed ones. *)
Prepare(w, n) ==
  /\ Spend("orders")
  /\ Moved(indexed \cap Purchases) - Moved(indexed \cap Returns) + n <= Supply
  /\ InventoryCovers(n)
  /\ orders' = Append(orders, [who |-> w, amount |-> n, tx |-> 0, status |-> "awaiting_deposit"])
  /\ UNCHANGED <<txs, indexed, missed, req>>

(* The partial unique index on deposit_tx_hash.                            *)
MutNoUniqueIndex(t) == TRUE
HashFree(t) == \A i \in DOMAIN orders : orders[i].tx # t

MutKeepsRow(i, t) == orders[i]
MutKeepsAmount(i, t) == [orders[i] EXCEPT !.status = "funded"]
(* ON CONFLICT (deposit_tx_hash) DO UPDATE                                 *)
Merged(i, t) ==
  [who |-> txs[t].who, amount |-> txs[t].amount, tx |-> t, status |-> "funded"]

(* _upsert_investment_row, for the purchase a transaction made, if any.    *)
Upserted(t) ==
  IF t \notin Purchases THEN orders
  ELSE IF HashFree(t)
  THEN Append(orders, [who |-> txs[t].who, amount |-> txs[t].amount,
                       tx |-> t, status |-> "funded"])
  ELSE [i \in DOMAIN orders |-> IF orders[i].tx = t THEN Merged(i, t) ELSE orders[i]]

(* reconcile_transaction is one database transaction.                      *)
Reconcile(t) == orders' = Upserted(t) /\ indexed' = indexed \cup {t}

(* sync_once, a first time or again; unless the query for its logs failed  *)
(* each time a scan covered its block, or a chunk before it fails for ever.*)
Index(t) ==
  /\ t \in DOMAIN txs \ missed /\ Reconcile(t)
  /\ UNCHANGED <<txs, missed, req, left>>

Miss(t) ==
  /\ t \in DOMAIN txs \ (missed \cup indexed) /\ Spend("faults")
  /\ missed' = missed \cup {t}
  /\ UNCHANGED <<txs, orders, indexed, req>>
-------------------------------------------------------------------------------
(* confirm_investment, once the receipt is there.                          *)
StartConfirm(h, i, t) ==
  /\ req[h].stage = "off" /\ Spend("confirms")
  /\ i \in DOMAIN orders /\ t \in DOMAIN txs /\ txs[t].who = orders[i].who
  /\ req' = [req EXCEPT ![h] = [stage |-> "claim", id |-> i, tx |-> t]]
  /\ UNCHANGED <<txs, orders, indexed, missed>>

Unbound(i) == orders[i].tx = 0

(* The hash is bound to the order, unless the order has one, and committed;*)
(* if another row has this hash the request fails.                         *)
ClaimTx(h) ==
  LET i == req[h].id
      t == req[h].tx
  IN /\ req[h].stage = "claim"
     /\ \/ /\ Unbound(i) /\ HashFree(t)
           /\ orders' = [orders EXCEPT ![i].tx = t]
           /\ req' = [req EXCEPT ![h].stage = "reconcile"]
        \/ /\ Unbound(i) /\ ~HashFree(t)
           /\ req' = [req EXCEPT ![h] = Idle] /\ UNCHANGED orders
        \/ /\ ~Unbound(i)
           /\ req' = [req EXCEPT ![h].stage = "reconcile"] /\ UNCHANGED orders
     /\ UNCHANGED <<txs, indexed, missed, left>>

(* Then it reconciles, and answers with the row that has the hash.         *)
ConfirmReconciles(h) ==
  /\ req[h].stage = "reconcile"
  /\ Reconcile(req[h].tx)
  /\ req' = [req EXCEPT ![h] = Idle]
  /\ UNCHANGED <<txs, missed, left>>

Crash(h) ==
  /\ req[h].stage # "off" /\ Spend("faults")
  /\ req' = [req EXCEPT ![h] = Idle]
  /\ UNCHANGED <<txs, orders, indexed, missed>>

Ids == 1 .. MaxOrders + MaxTxs

Next ==
  \/ \E w \in Investors, n \in Amounts : Invest(w, n) \/ Prepare(w, n)
  \/ \E w \in Investors, to \in Investors \cup {Sale} : Transfer(w, to)
  \/ \E t \in 1 .. MaxTxs : Index(t) \/ Miss(t)
  \/ \E h \in Handlers, i \in Ids, t \in 1 .. MaxTxs : StartConfirm(h, i, t)
  \/ \E h \in Handlers : ClaimTx(h) \/ ConfirmReconciles(h) \/ Crash(h)

Spec == Init /\ [][Next]_vars

(* The loop reconciles what it gets at, as long as it runs.  Nobody has to *)
(* pay, report a hash or finish a request.                                 *)
FairSpec == Spec /\ \A t \in 1 .. MaxTxs : WF_vars(Index(t))
-------------------------------------------------------------------------------
(* Types of every variable.                                                *)
Row == [who : Investors, amount : Amounts, tx : 0 .. MaxTxs,
        status : {"awaiting_deposit", "funded"}]

TypeOK ==
  /\ Len(txs) <= MaxTxs /\ indexed \cup missed \subseteq DOMAIN txs
  /\ Len(orders) <= MaxOrders + MaxTxs
  /\ \A i \in DOMAIN orders : orders[i] \in Row

Funded(t) == {i \in DOMAIN orders : orders[i].tx = t /\ orders[i].status = "funded"}

(* The funded orders are exactly the indexed purchases, one row for each,  *)
(* with the buyer and the amount the chain has: whoever reported which     *)
(* hash for which order, and whoever reconciled it first or again.         *)
LedgerMatchesChain ==
  /\ \A t \in indexed \cap Purchases : Cardinality(Funded(t)) = 1
  /\ \A i \in DOMAIN orders : orders[i].status = "funded"
       => /\ orders[i].tx \in indexed \cap Purchases
          /\ orders[i].who = txs[orders[i].tx].who
          /\ orders[i].amount = txs[orders[i].tx].amount

(* Unpaid orders reserve nothing and prepare reads a table that lags the   *)
(* chain, yet the funded orders hold no more tokens than there are, but for*)
(* those that came back to the contract and were sold again.               *)
FundedTokens ==
  SumFunction([i \in Ids |-> IF i \in DOMAIN orders /\ orders[i].status = "funded"
                             THEN orders[i].amount ELSE 0])
FundedWithinSupply == FundedTokens <= Supply + Moved(Returns)

(* An order bound to a purchase is funded in the end, also if the request  *)
(* that bound it died before it reconciled; but for a purchase the indexer *)
(* does not get at, whose order waits until somebody confirms it again.    *)
BoundOrderIsFunded ==
  \A t \in 1 .. MaxTxs :
    (t \in Purchases /\ ~HashFree(t)) ~> (Funded(t) # {} \/ t \in missed)
===============================================================================
