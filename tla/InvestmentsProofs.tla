-------------------------- MODULE InvestmentsProofs ---------------------------
(***************************************************************************)
(* Proof about Investments, for any number of wallets, orders, requests    *)
(* and transactions: the funded orders are exactly the indexed purchases,  *)
(* and hold no more tokens than the contract had for sale.                 *)
(***************************************************************************)
EXTENDS Investments, FiniteSums, SequenceTheorems

Txs == [kind : {"invest"}, who : Investors, to : Investors, amount : Amounts]
         \cup [kind : {"transfer"}, who : Investors, to : Investors \cup {Sale}, amount : {1}]

Confirms == [stage : {"off", "claim", "reconcile"}, id : Nat, tx : Nat]

(* What a request was told is there as long as the request is under way *)
Fits(q) == q.stage # "off" => q.id \in DOMAIN orders /\ q.tx \in DOMAIN txs

Typed ==
  /\ txs \in Seq(Txs) /\ Len(txs) <= MaxTxs /\ indexed \cup missed \subseteq DOMAIN txs
  /\ orders \in Seq(Row)
  /\ req \in [Handlers -> Confirms] /\ \A h \in Handlers : Fits(req[h])

(* The partial unique index *)
HashUnique ==
  \A i, j \in DOMAIN orders : orders[i].tx = orders[j].tx /\ orders[i].tx # 0 => i = j

Pays(row, t) == row.tx = t /\ row.status = "funded"

IndexedAreFunded ==
  \A t \in indexed \cap Purchases : \E i \in DOMAIN orders : Pays(orders[i], t)

(* A funded row has the buyer and the amount of its transaction *)
Matches(row) ==
  row.status = "funded" =>
    /\ row.tx \in indexed \cap Purchases
    /\ row.who = txs[row.tx].who /\ row.amount = txs[row.tx].amount

FundedMatch == \A i \in DOMAIN orders : Matches(orders[i])

IInv == Typed /\ HashUnique /\ IndexedAreFunded /\ FundedMatch
-------------------------------------------------------------------------------
LEMMA InitKeepsInv == Init => IInv
<1> SUFFICES ASSUME Init PROVE IInv
  OBVIOUS
<1>1. txs = <<>> /\ orders = <<>> /\ indexed = {} /\ missed = {}
      /\ txs \in Seq(Txs) /\ orders \in Seq(Row) /\ Len(txs) = 0
      /\ DOMAIN txs = {} /\ DOMAIN orders = {}
  BY EmptySeq DEF Init
<1>2. req \in [Handlers -> Confirms] /\ \A h \in Handlers : req[h].stage = "off"
  BY DEF Init, Idle, Confirms
<1>3. QED
  BY <1>1, <1>2, InvestmentsAssumption
     DEF IInv, Typed, Fits, HashUnique, IndexedAreFunded, FundedMatch
-------------------------------------------------------------------------------
(* Transactions are only ever added, and keep their hash *)
LEMMA TxAdded ==
  ASSUME Typed, NEW x \in Txs, txs' = Append(txs, x), Len(txs) < MaxTxs
  PROVE  /\ txs' \in Seq(Txs) /\ Len(txs') <= MaxTxs
         /\ DOMAIN txs \subseteq DOMAIN txs'
         /\ \A t \in DOMAIN txs : txs'[t] = txs[t]
<1>1. txs \in Seq(Txs) /\ MaxTxs \in Nat
  BY InvestmentsAssumption DEF Typed
<1>2. QED
  BY <1>1, AppendProperties, LenProperties

LEMMA ChainMovesOn ==
  ASSUME IInv, NEW x \in Txs, txs' = Append(txs, x), Len(txs) < MaxTxs,
         UNCHANGED <<orders, indexed, missed, req>>
  PROVE  IInv'
<1>1. /\ txs' \in Seq(Txs) /\ Len(txs') <= MaxTxs
      /\ DOMAIN txs \subseteq DOMAIN txs'
      /\ \A t \in DOMAIN txs : txs'[t] = txs[t]
  BY TxAdded DEF IInv
<1>2. Typed'
  BY <1>1 DEF IInv, Typed, Fits
<1>3. HashUnique'
  BY DEF IInv, HashUnique
<1>4. indexed' \cap Purchases' = indexed \cap Purchases
  BY <1>1 DEF IInv, Typed, Purchases
<1>5. IndexedAreFunded'
  BY <1>4 DEF IInv, IndexedAreFunded, Pays
<1>6. FundedMatch'
  BY <1>1, <1>4 DEF IInv, FundedMatch, Matches, Typed
<1>7. QED
  BY <1>2, <1>3, <1>5, <1>6 DEF IInv
-------------------------------------------------------------------------------
(* Preparing an order adds a row that no transaction pays *)
LEMMA PrepareAddsRow ==
  ASSUME Typed, NEW w \in Investors, NEW n \in Amounts, Prepare(w, n)
  PROVE  /\ orders' \in Seq(Row)
         /\ DOMAIN orders' = DOMAIN orders \cup {Len(orders) + 1}
         /\ Len(orders) + 1 \notin DOMAIN orders
         /\ \A i \in DOMAIN orders : orders'[i] = orders[i]
         /\ orders'[Len(orders) + 1].tx = 0 /\ orders'[Len(orders) + 1].status # "funded"
<1> DEFINE row == [who |-> w, amount |-> n, tx |-> 0, status |-> "awaiting_deposit"]
<1>1. row \in Row /\ row.tx = 0 /\ row.status # "funded"
  BY InvestmentsAssumption DEF Row
<1>2. orders' = Append(orders, row)
  BY DEF Prepare
<1> HIDE DEF row
<1>3. QED
  BY <1>1, <1>2, AppendProperties, LenProperties DEF Typed

LEMMA PrepareKeepsInv ==
  ASSUME IInv, NEW w \in Investors, NEW n \in Amounts, Prepare(w, n)
  PROVE  IInv'
<1>1. UNCHANGED <<txs, indexed, missed, req>>
  BY DEF Prepare
<1>2. /\ orders' \in Seq(Row)
      /\ DOMAIN orders' = DOMAIN orders \cup {Len(orders) + 1}
      /\ \A i \in DOMAIN orders : orders'[i] = orders[i]
      /\ orders'[Len(orders) + 1].tx = 0 /\ orders'[Len(orders) + 1].status # "funded"
  BY PrepareAddsRow DEF IInv
<1>3. Typed'
  BY <1>1, <1>2 DEF IInv, Typed, Fits
<1>4. HashUnique'
  BY <1>2 DEF IInv, HashUnique
<1>5. IndexedAreFunded'
  BY <1>1, <1>2 DEF IInv, IndexedAreFunded, Purchases
<1>6. FundedMatch'
  BY <1>1, <1>2 DEF IInv, FundedMatch, Matches, Purchases
<1>7. QED
  BY <1>3, <1>4, <1>5, <1>6 DEF IInv
-------------------------------------------------------------------------------
(* A row that is changed keeps its place *)
LEMMA RowsChanged ==
  ASSUME Typed, NEW f \in [DOMAIN orders -> Row], orders' = f
  PROVE  orders' \in Seq(Row) /\ DOMAIN orders' = DOMAIN orders
<1>1. DOMAIN orders = 1 .. Len(orders) /\ Len(orders) \in Nat
  BY LenProperties DEF Typed
<1>2. QED
  BY <1>1, SeqDef

(* What the upsert writes for a transaction is a row *)
LEMMA PaidRow ==
  ASSUME Typed, NEW t \in Purchases
  PROVE  /\ [who |-> txs[t].who, amount |-> txs[t].amount,
             tx |-> t, status |-> "funded"] \in Row
         /\ t # 0
<1>1. t \in 1 .. Len(txs) /\ Len(txs) \in Nat /\ txs[t] \in Txs /\ txs[t].kind = "invest"
  BY LenProperties, ElementOfSeq DEF Typed, Purchases
<1>2. t \in 0 .. MaxTxs /\ t # 0
  BY <1>1, InvestmentsAssumption DEF Typed
<1>3. txs[t].who \in Investors /\ txs[t].amount \in Amounts
  BY <1>1 DEF Txs
<1>4. QED
  BY <1>2, <1>3 DEF Row

(* The upsert leaves one funded row for its purchase, and the other rows   *)
(* as they are: a new row if none has the hash, else the one that has it.  *)
LEMMA UpsertPays ==
  ASSUME Typed, HashUnique, NEW t \in Purchases, orders' = Upserted(t)
  PROVE  /\ orders' \in Seq(Row) /\ DOMAIN orders \subseteq DOMAIN orders'
         /\ \E k \in DOMAIN orders' :
              /\ orders'[k] = [who |-> txs[t].who, amount |-> txs[t].amount,
                               tx |-> t, status |-> "funded"]
              /\ k \in DOMAIN orders => orders[k].tx = t
              /\ \A i \in DOMAIN orders' \ {k} :
                   i \in DOMAIN orders /\ orders'[i] = orders[i] /\ orders[i].tx # t
<1> DEFINE row == [who |-> txs[t].who, amount |-> txs[t].amount,
                   tx |-> t, status |-> "funded"]
<1>1. row \in Row /\ t # 0
  BY PaidRow
<1>2. CASE HashFree(t)
  <2>1. orders' = Append(orders, row)
    BY <1>2 DEF Upserted
  <2> HIDE DEF row
  <2>2. /\ orders' \in Seq(Row) /\ DOMAIN orders = 1 .. Len(orders)
        /\ DOMAIN orders' = DOMAIN orders \cup {Len(orders) + 1} /\ Len(orders) \in Nat
        /\ \A i \in DOMAIN orders : orders'[i] = orders[i]
        /\ orders'[Len(orders) + 1] = row
    BY <1>1, <2>1, AppendProperties, LenProperties DEF Typed
  <2>3. Len(orders) + 1 \in DOMAIN orders' /\ Len(orders) + 1 \notin DOMAIN orders
    BY <2>2
  <2>4. \A i \in DOMAIN orders' \ {Len(orders) + 1} :
          i \in DOMAIN orders /\ orders'[i] = orders[i] /\ orders[i].tx # t
    BY <1>2, <2>2 DEF HashFree
  <2>5. QED
    BY <2>2, <2>3, <2>4 DEF row
<1>3. CASE ~HashFree(t)
  <2>1. PICK k \in DOMAIN orders : orders[k].tx = t
    BY <1>3 DEF HashFree
  <2>2. orders' = [i \in DOMAIN orders |-> IF orders[i].tx = t THEN row ELSE orders[i]]
    BY <1>3 DEF Upserted, Merged
  <2> HIDE DEF row
  <2>3. \A i \in DOMAIN orders : orders[i] \in Row
    BY LenProperties DEF Typed
  <2>4. orders' \in Seq(Row) /\ DOMAIN orders' = DOMAIN orders
    BY <1>1, <2>2, <2>3, RowsChanged
  <2>5. orders'[k] = row
    BY <2>1, <2>2
  <2>6. \A i \in DOMAIN orders \ {k} : orders[i].tx # t
    BY <1>1, <2>1 DEF HashUnique
  <2>7. \A i \in DOMAIN orders \ {k} : orders'[i] = orders[i]
    BY <2>2, <2>6
  <2>8. QED
    BY <2>1, <2>4, <2>5, <2>6, <2>7 DEF row
<1>4. QED
  BY <1>2, <1>3

LEMMA ReconcileKeepsInv ==
  ASSUME IInv, NEW t \in DOMAIN txs, Reconcile(t), UNCHANGED <<txs, missed>>,
         req' \in [Handlers -> Confirms],
         \A h \in Handlers : req'[h] = req[h] \/ req'[h].stage = "off"
  PROVE  IInv'
<1>1. indexed' = indexed \cup {t} /\ Purchases' = Purchases
  BY DEF Reconcile, Purchases
<1>2. CASE t \notin Purchases
  <2>1. UNCHANGED orders
    BY <1>2 DEF Reconcile, Upserted
  <2>2. indexed' \cap Purchases' = indexed \cap Purchases
    BY <1>1, <1>2
  <2>3. Typed'
    BY <1>1, <2>1 DEF IInv, Typed, Fits
  <2>4. HashUnique' /\ IndexedAreFunded' /\ FundedMatch'
    BY <2>1, <2>2 DEF IInv, HashUnique, IndexedAreFunded, FundedMatch, Matches, Pays
  <2>5. QED
    BY <2>3, <2>4 DEF IInv
<1>3. CASE t \in Purchases
  <2>1. /\ orders' \in Seq(Row) /\ DOMAIN orders \subseteq DOMAIN orders'
        /\ \E k \in DOMAIN orders' :
             /\ orders'[k] = [who |-> txs[t].who, amount |-> txs[t].amount,
                              tx |-> t, status |-> "funded"]
             /\ k \in DOMAIN orders => orders[k].tx = t
             /\ \A i \in DOMAIN orders' \ {k} :
                  i \in DOMAIN orders /\ orders'[i] = orders[i] /\ orders[i].tx # t
    BY <1>3, UpsertPays DEF IInv, Reconcile
  <2>2. PICK k \in DOMAIN orders' :
          /\ orders'[k] = [who |-> txs[t].who, amount |-> txs[t].amount,
                           tx |-> t, status |-> "funded"]
          /\ k \in DOMAIN orders => orders[k].tx = t
          /\ \A i \in DOMAIN orders' \ {k} :
               i \in DOMAIN orders /\ orders'[i] = orders[i] /\ orders[i].tx # t
    BY <2>1
  <2>3. /\ orders'[k].tx = t /\ orders'[k].status = "funded"
        /\ orders'[k].who = txs[t].who /\ orders'[k].amount = txs[t].amount
    BY <2>2
  <2>4. Typed'
    BY <1>1, <2>1 DEF IInv, Typed, Fits
  <2>5. HashUnique'
    BY <2>2, <2>3 DEF IInv, HashUnique
  <2>6. IndexedAreFunded'
    <3> SUFFICES ASSUME NEW u \in indexed' \cap Purchases'
                 PROVE  \E i \in DOMAIN orders' : Pays(orders'[i], u)
      BY DEF IndexedAreFunded, Pays
    <3>1. CASE u = t
      BY <2>3, <3>1 DEF Pays
    <3>2. CASE u # t
      <4>1. PICK i \in DOMAIN orders : Pays(orders[i], u)
        BY <1>1, <3>2 DEF IInv, IndexedAreFunded
      <4>2. i \in DOMAIN orders' /\ orders'[i].tx = u /\ orders'[i].status = "funded"
        <5>1. i \in DOMAIN orders' /\ orders[i].tx = u
          BY <2>1, <4>1 DEF Pays
        <5>2. CASE i # k
          BY <2>2, <4>1, <5>1, <5>2 DEF Pays
        <5>3. CASE i = k
          BY <2>2, <3>2, <4>1, <5>1, <5>3
        <5>4. QED
          BY <5>2, <5>3
      <4>3. QED
        BY <4>2 DEF Pays
    <3>3. QED
      BY <3>1, <3>2
  <2>7. FundedMatch'
    <3> SUFFICES ASSUME NEW i \in DOMAIN orders', orders'[i].status = "funded"
                 PROVE  /\ orders'[i].tx \in indexed' \cap Purchases'
                        /\ orders'[i].who = txs[orders'[i].tx].who
                        /\ orders'[i].amount = txs[orders'[i].tx].amount
      BY DEF FundedMatch, Matches
    <3>1. CASE i = k
      BY <1>1, <1>3, <2>3, <3>1
    <3>2. CASE i # k
      BY <1>1, <2>2, <3>2 DEF IInv, FundedMatch, Matches
    <3>3. QED
      BY <3>1, <3>2
  <2>8. QED
    BY <2>4, <2>5, <2>6, <2>7 DEF IInv
<1>4. QED
  BY <1>2, <1>3
-------------------------------------------------------------------------------
(* Requests *)
LEMMA StartKeepsInv ==
  ASSUME IInv, NEW h \in Handlers, NEW i \in Ids, NEW t \in 1 .. MaxTxs, StartConfirm(h, i, t)
  PROVE  IInv'
<1>1. /\ i \in DOMAIN orders /\ t \in DOMAIN txs /\ i \in Nat /\ t \in Nat
      /\ req' = [req EXCEPT ![h] = [stage |-> "claim", id |-> i, tx |-> t]]
      /\ UNCHANGED <<txs, orders, indexed, missed>>
  BY LenProperties, InvestmentsAssumption DEF StartConfirm, IInv, Typed
<1>2. Typed'
  BY <1>1 DEF IInv, Typed, Fits, Confirms
<1>3. QED
  BY <1>1, <1>2 DEF IInv, HashUnique, IndexedAreFunded, FundedMatch, Matches, Pays, Purchases

(* A request that goes on keeps its row and its transaction *)
LEMMA RequestGoesOn ==
  ASSUME Typed, NEW h \in Handlers, req[h].stage # "off",
         req' = [req EXCEPT ![h] = Idle] \/ req' = [req EXCEPT ![h].stage = "reconcile"]
  PROVE  /\ req' \in [Handlers -> Confirms]
         /\ \A g \in Handlers : req'[g].stage # "off" =>
              req[g].stage # "off" /\ req'[g].id = req[g].id /\ req'[g].tx = req[g].tx
<1>1. req \in [Handlers -> Confirms]
  BY DEF Typed
<1>2. CASE req' = [req EXCEPT ![h] = Idle]
  <2>1. Idle \in Confirms /\ Idle.stage = "off"
    BY DEF Idle, Confirms
  <2> HIDE DEF Idle
  <2>2. QED
    BY <1>1, <1>2, <2>1
<1>3. CASE req' = [req EXCEPT ![h].stage = "reconcile"]
  <2> DEFINE q == [req[h] EXCEPT !.stage = "reconcile"]
  <2>1. q \in Confirms /\ q.id = req[h].id /\ q.tx = req[h].tx
    BY <1>1 DEF Confirms
  <2>2. req' = [req EXCEPT ![h] = q]
    BY <1>3
  <2> HIDE DEF q
  <2>3. QED
    BY <1>1, <2>1, <2>2
<1>4. QED
  BY <1>2, <1>3

(* A request that ends leaves the tables as they are *)
LEMMA EndKeepsInv ==
  ASSUME IInv, NEW h \in Handlers, UNCHANGED <<txs, orders, indexed, missed>>,
         req' = [req EXCEPT ![h] = Idle] \/ req' = [req EXCEPT ![h].stage = "reconcile"],
         req[h].stage # "off"
  PROVE  IInv'
<1>1. Typed'
  BY RequestGoesOn DEF IInv, Typed, Fits
<1>2. QED
  BY <1>1 DEF IInv, HashUnique, IndexedAreFunded, FundedMatch, Matches, Pays, Purchases

(* A hash that no row has goes to a row without one *)
LEMMA BindKeepsInv ==
  ASSUME IInv, NEW i \in DOMAIN orders, NEW t \in DOMAIN txs, NEW h \in Handlers,
         Unbound(i), HashFree(t), orders' = [orders EXCEPT ![i].tx = t],
         req' = [req EXCEPT ![h].stage = "reconcile"], req[h].stage # "off",
         UNCHANGED <<txs, indexed, missed>>
  PROVE  IInv'
<1> DEFINE row == [orders[i] EXCEPT !.tx = t]
<1>1. t \in 0 .. MaxTxs /\ t # 0
  BY LenProperties, InvestmentsAssumption DEF IInv, Typed
<1>2. orders[i] \in Row /\ orders[i].tx = 0
  BY LenProperties, ElementOfSeq DEF IInv, Typed, Unbound
<1>3. /\ row \in Row /\ row.tx = t /\ row.status = orders[i].status
  BY <1>1, <1>2 DEF Row
<1>4. orders' = [orders EXCEPT ![i] = row]
  OBVIOUS
<1>5. orders[i].status # "funded"
  <2>1. 0 \notin DOMAIN txs
    BY LenProperties DEF IInv, Typed
  <2>2. QED
    BY <1>2, <2>1 DEF IInv, FundedMatch, Matches, Purchases
<1> HIDE DEF row
<1>6. /\ orders' \in Seq(Row) /\ DOMAIN orders' = DOMAIN orders
      /\ \A j \in DOMAIN orders : orders'[j] = IF j = i THEN row ELSE orders[j]
  <2>1. orders \in Seq(Row) /\ i \in 1 .. Len(orders) /\ DOMAIN orders = 1 .. Len(orders)
    BY LenProperties DEF IInv, Typed
  <2>2. /\ orders' \in Seq(Row) /\ Len(orders') = Len(orders)
        /\ \A j \in 1 .. Len(orders) : orders'[j] = IF j = i THEN row ELSE orders[j]
    BY <1>3, <1>4, <2>1, ExceptSeq
  <2>3. QED
    BY <2>1, <2>2, LenProperties
<1>7. Typed'
  BY <1>6, RequestGoesOn DEF IInv, Typed, Fits
<1>8. HashUnique'
  BY <1>3, <1>6 DEF IInv, HashUnique, HashFree
<1>9. IndexedAreFunded'
  BY <1>5, <1>6 DEF IInv, IndexedAreFunded, Pays, Purchases
<1>10. FundedMatch'
  BY <1>3, <1>5, <1>6 DEF IInv, FundedMatch, Matches, Purchases
<1>11. QED
  BY <1>7, <1>8, <1>9, <1>10 DEF IInv

LEMMA ClaimKeepsInv ==
  ASSUME IInv, NEW h \in Handlers, ClaimTx(h)
  PROVE  IInv'
<1> DEFINE i == req[h].id
           t == req[h].tx
<1>1. /\ req[h].stage = "claim" /\ i \in DOMAIN orders /\ t \in DOMAIN txs
      /\ UNCHANGED <<txs, indexed, missed>>
  BY DEF ClaimTx, IInv, Typed, Fits
<1>2. CASE /\ Unbound(i) /\ HashFree(t)
           /\ orders' = [orders EXCEPT ![i].tx = t]
           /\ req' = [req EXCEPT ![h].stage = "reconcile"]
  BY <1>1, <1>2, BindKeepsInv
<1>3. CASE req' = [req EXCEPT ![h] = Idle] /\ UNCHANGED orders
  BY <1>1, <1>3, EndKeepsInv
<1>4. CASE req' = [req EXCEPT ![h].stage = "reconcile"] /\ UNCHANGED orders
  BY <1>1, <1>4, EndKeepsInv
<1>5. QED
  BY <1>2, <1>3, <1>4 DEF ClaimTx

LEMMA NextKeepsInv == IInv /\ [Next]_vars => IInv'
<1> SUFFICES ASSUME IInv, [Next]_vars PROVE IInv'
  OBVIOUS
<1>1. ASSUME NEW w \in Investors, NEW n \in Amounts, Invest(w, n) PROVE IInv'
  <2>1. [kind |-> "invest", who |-> w, to |-> w, amount |-> n] \in Txs
    BY DEF Txs
  <2>2. QED
    BY <1>1, <2>1, ChainMovesOn DEF Invest
<1>2. ASSUME NEW w \in Investors, NEW n \in Amounts, Prepare(w, n) PROVE IInv'
  BY <1>2, PrepareKeepsInv
<1>3. ASSUME NEW w \in Investors, NEW to \in Investors \cup {Sale}, Transfer(w, to) PROVE IInv'
  <2>1. [kind |-> "transfer", who |-> w, to |-> to, amount |-> 1] \in Txs
    BY DEF Txs
  <2>2. QED
    BY <1>3, <2>1, ChainMovesOn DEF Transfer
<1>4. ASSUME NEW t \in 1 .. MaxTxs, Index(t) PROVE IInv'
  <2>1. req' \in [Handlers -> Confirms] /\ \A h \in Handlers : req'[h] = req[h]
    BY <1>4 DEF Index, IInv, Typed
  <2>2. QED
    BY <1>4, <2>1, ReconcileKeepsInv DEF Index
<1>5. ASSUME NEW h \in Handlers, NEW i \in Ids, NEW t \in 1 .. MaxTxs, StartConfirm(h, i, t)
      PROVE  IInv'
  BY <1>5, StartKeepsInv
<1>6. ASSUME NEW h \in Handlers, ClaimTx(h) PROVE IInv'
  BY <1>6, ClaimKeepsInv
<1>7. ASSUME NEW h \in Handlers, ConfirmReconciles(h) PROVE IInv'
  <2>1. /\ req[h].tx \in DOMAIN txs
        /\ req' = [req EXCEPT ![h] = Idle] /\ req \in [Handlers -> Confirms]
    BY <1>7 DEF ConfirmReconciles, IInv, Typed, Fits
  <2>2. req' \in [Handlers -> Confirms]
        /\ \A g \in Handlers : req'[g] = req[g] \/ req'[g].stage = "off"
    BY <2>1 DEF Idle, Confirms
  <2>3. QED
    BY <1>7, <2>1, <2>2, ReconcileKeepsInv DEF ConfirmReconciles
<1>8. ASSUME NEW h \in Handlers, Crash(h) PROVE IInv'
  BY <1>8, EndKeepsInv DEF Crash
<1>9. CASE UNCHANGED vars
  <2>1. Typed'
    BY <1>9 DEF vars, IInv, Typed, Fits
  <2>2. QED
    BY <1>9, <2>1 DEF vars, IInv, HashUnique, IndexedAreFunded, FundedMatch, Matches,
                      Pays, Purchases
<1>10. ASSUME NEW t \in 1 .. MaxTxs, Miss(t) PROVE IInv'
  <2>1. Typed'
    BY <1>10 DEF Miss, IInv, Typed, Fits
  <2>2. QED
    BY <1>10, <2>1 DEF Miss, IInv, HashUnique, IndexedAreFunded, FundedMatch, Matches,
                       Pays, Purchases
<1>11. QED
  BY <1>1, <1>2, <1>3, <1>4, <1>5, <1>6, <1>7, <1>8, <1>9, <1>10 DEF Next

(* One row pays each indexed purchase, as no other row has its hash *)
LEMMA OneRowPays == IInv => LedgerMatchesChain
<1> SUFFICES ASSUME IInv PROVE LedgerMatchesChain
  OBVIOUS
<1>1. ASSUME NEW t \in indexed \cap Purchases PROVE Cardinality(Funded(t)) = 1
  <2>1. PICK i \in DOMAIN orders : Pays(orders[i], t)
    BY <1>1 DEF IInv, IndexedAreFunded
  <2>2. t # 0
    BY LenProperties DEF IInv, Typed, Purchases
  <2>3. Funded(t) = {i}
    BY <2>1, <2>2 DEF Funded, Pays, IInv, HashUnique
  <2>4. QED
    BY <2>3, FS_Singleton
<1>2. QED
  BY <1>1 DEF LedgerMatchesChain, IInv, FundedMatch, Matches
-------------------------------------------------------------------------------
(* The length of the table: a row without a transaction was prepared, and  *)
(* the others have different transactions.                                 *)
Unpaid == {i \in DOMAIN orders : orders[i].tx = 0}

Counted ==
  /\ left \in [orders : Nat, confirms : Nat, faults : Nat]
  /\ Cardinality(Unpaid) + left.orders <= MaxOrders
  /\ \A i \in DOMAIN orders : orders[i].tx \in {0} \cup DOMAIN txs

LEMMA FirstNumbers ==
  ASSUME NEW n \in Nat
  PROVE  IsFiniteSet(1 .. n) /\ Cardinality(1 .. n) = n
<1>1. 1 \in Int /\ n \in Int
  OBVIOUS
<1>2. IsFiniteSet(1 .. n) /\ Cardinality(1 .. n) = IF 1 > n THEN 0 ELSE n - 1 + 1
  BY <1>1, FS_Interval
<1>3. (IF 1 > n THEN 0 ELSE n - 1 + 1) = n
  OBVIOUS
<1>4. QED
  BY <1>2, <1>3

LEMMA UnpaidIsFinite ==
  ASSUME Typed
  PROVE  IsFiniteSet(Unpaid) /\ Cardinality(Unpaid) \in Nat
<1>1. Len(orders) \in Nat /\ DOMAIN orders = 1 .. Len(orders)
  BY LenProperties DEF Typed
<1>2. IsFiniteSet(1 .. Len(orders)) /\ Unpaid \in SUBSET (1 .. Len(orders))
  BY <1>1, FirstNumbers DEF Unpaid
<1>3. QED
  BY <1>2, FS_Subset, FS_CardinalityType

LEMMA SpendingCounts ==
  ASSUME Counted, NEW what \in {"orders", "confirms", "faults"}, Spend(what)
  PROVE  /\ left' \in [orders : Nat, confirms : Nat, faults : Nat]
         /\ left'.orders <= left.orders
         /\ what = "orders" => left'.orders = left.orders - 1
  BY DEF Counted, Spend

LEMMA FewerUnpaid ==
  ASSUME IInv, Counted, Unpaid' \subseteq Unpaid,
         left' \in [orders : Nat, confirms : Nat, faults : Nat], left'.orders <= left.orders,
         \A i \in DOMAIN orders' : orders'[i].tx \in {0} \cup DOMAIN txs'
  PROVE  Counted'
<1>1. Cardinality(Unpaid') <= Cardinality(Unpaid)
      /\ Cardinality(Unpaid) \in Nat /\ Cardinality(Unpaid') \in Nat
  BY UnpaidIsFinite, FS_Subset, FS_CardinalityType DEF IInv
<1>2. left.orders \in Nat /\ left'.orders \in Nat /\ MaxOrders \in Nat
      /\ Cardinality(Unpaid) + left.orders <= MaxOrders
  BY InvestmentsAssumption DEF Counted
<1>3. Cardinality(Unpaid') + left'.orders <= MaxOrders
  BY <1>1, <1>2
<1>4. QED
  BY <1>3 DEF Counted

LEMMA SameRowsCount ==
  ASSUME IInv, Counted, UNCHANGED orders, DOMAIN txs \subseteq DOMAIN txs',
         UNCHANGED left \/ \E what \in {"confirms", "faults"} : Spend(what)
  PROVE  Counted'
<1>1. Unpaid' = Unpaid
  BY DEF Unpaid
<1>2. left' \in [orders : Nat, confirms : Nat, faults : Nat] /\ left'.orders <= left.orders
  BY SpendingCounts DEF Counted
<1>3. QED
  BY <1>1, <1>2, FewerUnpaid DEF Counted

LEMMA PrepareCounts ==
  ASSUME IInv, Counted, NEW w \in Investors, NEW n \in Amounts, Prepare(w, n)
  PROVE  Counted'
<1>1. /\ DOMAIN orders' = DOMAIN orders \cup {Len(orders) + 1}
      /\ Len(orders) + 1 \notin DOMAIN orders
      /\ \A i \in DOMAIN orders : orders'[i] = orders[i]
      /\ orders'[Len(orders) + 1].tx = 0
  BY PrepareAddsRow DEF IInv
<1>2. Unpaid' = Unpaid \cup {Len(orders) + 1} /\ Len(orders) + 1 \notin Unpaid
  BY <1>1 DEF Unpaid
<1>3. Cardinality(Unpaid') = Cardinality(Unpaid) + 1 /\ Cardinality(Unpaid) \in Nat
  BY <1>2, UnpaidIsFinite, FS_AddElement DEF IInv
<1>4. /\ left' \in [orders : Nat, confirms : Nat, faults : Nat]
      /\ left'.orders = left.orders - 1
  BY SpendingCounts DEF Prepare
<1>5. left.orders \in Nat /\ Cardinality(Unpaid) + left.orders <= MaxOrders /\ MaxOrders \in Nat
  BY InvestmentsAssumption DEF Counted
<1>6. Cardinality(Unpaid') + left'.orders <= MaxOrders
  BY <1>3, <1>4, <1>5
<1>7. \A i \in DOMAIN orders' : orders'[i].tx \in {0} \cup DOMAIN txs'
  BY <1>1 DEF Counted, Prepare
<1>8. QED
  BY <1>4, <1>6, <1>7 DEF Counted

LEMMA ReconcileCounts ==
  ASSUME IInv, Counted, NEW t \in DOMAIN txs, Reconcile(t), UNCHANGED <<txs, left>>
  PROVE  Counted'
<1>1. CASE t \notin Purchases
  <2>1. UNCHANGED orders
    BY <1>1 DEF Reconcile, Upserted
  <2>2. QED
    BY <2>1, SameRowsCount
<1>2. CASE t \in Purchases
  <2>1. PICK k \in DOMAIN orders' :
          /\ orders'[k] = [who |-> txs[t].who, amount |-> txs[t].amount,
                           tx |-> t, status |-> "funded"]
          /\ \A i \in DOMAIN orders' \ {k} :
               i \in DOMAIN orders /\ orders'[i] = orders[i] /\ orders[i].tx # t
    BY <1>2, UpsertPays DEF IInv, Reconcile
  <2>2. orders'[k].tx = t /\ t # 0
    BY <1>2, <2>1, PaidRow DEF IInv
  <2>3. Unpaid' \subseteq Unpaid
    BY <2>1, <2>2 DEF Unpaid
  <2>4. \A i \in DOMAIN orders' : orders'[i].tx \in {0} \cup DOMAIN txs'
    BY <2>1, <2>2 DEF Counted
  <2>5. left.orders <= left.orders
    BY DEF Counted
  <2>6. QED
    BY <2>3, <2>4, <2>5, FewerUnpaid DEF Counted
<1>3. QED
  BY <1>1, <1>2

LEMMA ClaimCounts ==
  ASSUME IInv, Counted, NEW h \in Handlers, ClaimTx(h)
  PROVE  Counted'
<1> DEFINE i == req[h].id
           t == req[h].tx
<1>1. i \in DOMAIN orders /\ t \in DOMAIN txs /\ t # 0 /\ UNCHANGED <<txs, left>>
  BY LenProperties DEF ClaimTx, IInv, Typed, Fits
<1>2. CASE UNCHANGED orders
  BY <1>1, <1>2, SameRowsCount
<1>3. CASE orders' = [orders EXCEPT ![i].tx = t]
  <2>1. orders[i] \in Row
    BY <1>1, LenProperties, ElementOfSeq DEF IInv, Typed
  <2>2. /\ DOMAIN orders' = DOMAIN orders /\ orders'[i].tx = t
        /\ \A j \in DOMAIN orders \ {i} : orders'[j] = orders[j]
    <3>1. [orders[i] EXCEPT !.tx = t].tx = t
      BY <2>1 DEF Row
    <3>2. orders \in [1 .. Len(orders) -> Row]
      BY LenProperties DEF IInv, Typed
    <3>3. orders' = [orders EXCEPT ![i] = [orders[i] EXCEPT !.tx = t]]
      BY <1>3
    <3>4. QED
      BY <1>1, <3>1, <3>2, <3>3
  <2>3. Unpaid' \subseteq Unpaid
    BY <1>1, <2>2 DEF Unpaid
  <2>4. \A j \in DOMAIN orders' : orders'[j].tx \in {0} \cup DOMAIN txs'
    BY <1>1, <2>2 DEF Counted
  <2>5. left'.orders <= left.orders
    BY <1>1 DEF Counted
  <2>6. QED
    BY <1>1, <2>3, <2>4, <2>5, FewerUnpaid DEF Counted
<1>4. QED
  BY <1>2, <1>3 DEF ClaimTx

LEMMA NextCounts == IInv /\ Counted /\ [Next]_vars => Counted'
<1> SUFFICES ASSUME IInv, Counted, [Next]_vars PROVE Counted'
  OBVIOUS
<1>1. ASSUME NEW w \in Investors, NEW n \in Amounts, Invest(w, n) PROVE Counted'
  <2>1. [kind |-> "invest", who |-> w, to |-> w, amount |-> n] \in Txs
    BY DEF Txs
  <2>2. DOMAIN txs \subseteq DOMAIN txs'
    BY <1>1, <2>1, TxAdded DEF Invest, IInv
  <2>3. QED
    BY <1>1, <2>2, SameRowsCount DEF Invest
<1>2. ASSUME NEW w \in Investors, NEW to \in Investors \cup {Sale}, Transfer(w, to) PROVE Counted'
  <2>1. [kind |-> "transfer", who |-> w, to |-> to, amount |-> 1] \in Txs
    BY DEF Txs
  <2>2. DOMAIN txs \subseteq DOMAIN txs'
    BY <1>2, <2>1, TxAdded DEF Transfer, IInv
  <2>3. QED
    BY <1>2, <2>2, SameRowsCount DEF Transfer
<1>3. ASSUME NEW w \in Investors, NEW n \in Amounts, Prepare(w, n) PROVE Counted'
  BY <1>3, PrepareCounts
<1>4. ASSUME NEW t \in 1 .. MaxTxs, Index(t) PROVE Counted'
  BY <1>4, ReconcileCounts DEF Index
<1>5. ASSUME NEW h \in Handlers, NEW i \in Ids, NEW t \in 1 .. MaxTxs, StartConfirm(h, i, t)
      PROVE  Counted'
  BY <1>5, SameRowsCount DEF StartConfirm
<1>6. ASSUME NEW h \in Handlers, ClaimTx(h) PROVE Counted'
  BY <1>6, ClaimCounts
<1>7. ASSUME NEW h \in Handlers, ConfirmReconciles(h) PROVE Counted'
  <2>1. req[h].tx \in DOMAIN txs
    BY <1>7 DEF ConfirmReconciles, IInv, Typed, Fits
  <2>2. QED
    BY <1>7, <2>1, ReconcileCounts DEF ConfirmReconciles
<1>8. ASSUME NEW h \in Handlers, Crash(h) PROVE Counted'
  BY <1>8, SameRowsCount DEF Crash
<1>9. CASE UNCHANGED vars
  BY <1>9, SameRowsCount DEF vars
<1>10. ASSUME NEW t \in 1 .. MaxTxs, Miss(t) PROVE Counted'
  BY <1>10, SameRowsCount DEF Miss
<1>11. QED
  BY <1>1, <1>2, <1>3, <1>4, <1>5, <1>6, <1>7, <1>8, <1>9, <1>10 DEF Next

LEMMA InitCounts == Init => Counted
<1> SUFFICES ASSUME Init PROVE Counted
  OBVIOUS
<1>1. DOMAIN orders = {}
  BY DEF Init
<1>2. Unpaid = {} /\ Cardinality(Unpaid) = 0
  BY <1>1, FS_EmptySet DEF Unpaid
<1>3. MaxOrders \in Nat /\ MaxConfirms \in Nat /\ MaxFaults \in Nat
  BY InvestmentsAssumption
<1>4. QED
  BY <1>1, <1>2, <1>3 DEF Init, Counted

LEMMA RowsAreFew == IInv /\ Counted => TypeOK
<1> SUFFICES ASSUME IInv, Counted PROVE TypeOK
  OBVIOUS
<1> DEFINE Bound == DOMAIN orders \ Unpaid
           hash == [i \in Bound |-> orders[i].tx]
<1>1. /\ DOMAIN orders = 1 .. Len(orders) /\ Len(orders) \in Nat
      /\ DOMAIN txs = 1 .. Len(txs) /\ Len(txs) \in Nat
      /\ Len(txs) <= MaxTxs /\ MaxTxs \in Nat /\ MaxOrders \in Nat
  BY LenProperties, InvestmentsAssumption DEF IInv, Typed
<1>2. hash \in Injection(Bound, DOMAIN txs)
  <2>1. hash \in [Bound -> DOMAIN txs]
    BY DEF Counted, Unpaid
  <2>2. \A i, j \in Bound : hash[i] = hash[j] => i = j
    BY DEF IInv, HashUnique, Unpaid
  <2>3. QED
    BY <2>1, <2>2 DEF Injection, IsInjective
<1>3. IsFiniteSet(Bound) /\ Cardinality(Bound) <= Len(txs)
  <2>1. IsFiniteSet(DOMAIN txs) /\ Cardinality(DOMAIN txs) = Len(txs)
    BY <1>1, FirstNumbers
  <2> HIDE DEF hash, Bound
  <2>2. QED
    BY <1>2, <2>1, FS_Injection
<1>4. Cardinality(Bound) \in Nat /\ IsFiniteSet(Unpaid) /\ Cardinality(Unpaid) \in Nat
  BY <1>3, FS_CardinalityType, UnpaidIsFinite DEF IInv
<1>5. Len(orders) = Cardinality(Unpaid) + Cardinality(Bound)
  <2>1. Unpaid \cup Bound = 1 .. Len(orders) /\ Unpaid \cap Bound = {}
    BY <1>1 DEF Unpaid
  <2>2. Cardinality(1 .. Len(orders)) = Len(orders)
    BY <1>1, FirstNumbers
  <2> HIDE DEF Bound
  <2>3. Cardinality(Unpaid \cup Bound) =
          Cardinality(Unpaid) + Cardinality(Bound) - Cardinality(Unpaid \cap Bound)
    BY <1>3, <1>4, FS_Union
  <2>4. Cardinality(Unpaid \cap Bound) = 0
    BY <2>1, FS_EmptySet
  <2>5. Cardinality(Unpaid \cup Bound) = Len(orders)
    BY <2>1, <2>2
  <2>6. QED
    BY <1>4, <2>3, <2>4, <2>5
<1>6. Cardinality(Unpaid) <= MaxOrders
  BY <1>1, <1>4 DEF Counted
<1>7. Len(orders) <= MaxOrders + MaxTxs
  BY <1>1, <1>3, <1>4, <1>5, <1>6
<1>8. \A i \in DOMAIN orders : orders[i] \in Row
  BY <1>1, ElementOfSeq DEF IInv, Typed
<1>9. QED
  BY <1>1, <1>7, <1>8 DEF TypeOK, IInv, Typed

(* Rows, hashes and the table's length are what the bounds allow: each     *)
(* order is prepared once or comes with a hash that no other row has.      *)
THEOREM TypeCorrect == Spec => []TypeOK
<1>1. Init => IInv /\ Counted
  BY InitKeepsInv, InitCounts
<1>2. IInv /\ Counted /\ [Next]_vars => (IInv /\ Counted)'
  BY NextKeepsInv, NextCounts
<1>3. IInv /\ Counted => TypeOK
  BY RowsAreFew
<1>4. QED
  BY <1>1, <1>2, <1>3, PTL DEF Spec
-------------------------------------------------------------------------------
(* The table of orders and the chain agree, whoever reported which hash    *)
(* for which order and whoever reconciled it first: the funded rows are    *)
(* exactly the indexed purchases, one for each, with buyer and amount.     *)
THEOREM LedgerIsTheChains == Spec => []LedgerMatchesChain
<1>1. Init => IInv
  BY InitKeepsInv
<1>2. IInv /\ [Next]_vars => IInv'
  BY NextKeepsInv
<1>3. IInv => LedgerMatchesChain
  BY OneRowPays
<1>4. QED
  BY <1>1, <1>2, <1>3, PTL DEF Spec
-------------------------------------------------------------------------------
(* What the contract sold is what it had and what came back.  Every        *)
(* transaction is a term of its own of both sums.                          *)
Sold == Moved(Purchases) <= Supply + Moved(Returns)

Terms(set) == [t \in 1 .. MaxTxs |-> IF t \in set THEN txs[t].amount ELSE 0]

LEMMA AmountIsNat ==
  ASSUME NEW x \in Txs
  PROVE  x.amount \in Nat
<1>1. Amounts \subseteq Nat
  BY InvestmentsAssumption
<1>2. CASE x \in [kind : {"invest"}, who : Investors, to : Investors, amount : Amounts]
  BY <1>1, <1>2
<1>3. CASE x \in [kind : {"transfer"}, who : Investors, to : Investors \cup {Sale}, amount : {1}]
  BY <1>3
<1>4. QED
  BY <1>2, <1>3 DEF Txs

LEMMA AmountsAreNat ==
  ASSUME txs \in Seq(Txs), NEW t \in DOMAIN txs
  PROVE  txs[t].amount \in Nat
<1>1. txs[t] \in Txs
  BY LenProperties, ElementOfSeq
<1>2. QED
  BY <1>1, AmountIsNat

LEMMA TermsAreNat ==
  ASSUME txs \in Seq(Txs), NEW set \in SUBSET DOMAIN txs
  PROVE  /\ IsFiniteSet(1 .. MaxTxs)
         /\ Terms(set) \in [1 .. MaxTxs -> Nat] /\ Moved(set) = SumFunction(Terms(set))
         /\ Moved(set) \in Nat
<1>1. IsFiniteSet(1 .. MaxTxs)
  BY FirstNumbers, InvestmentsAssumption
<1>2. Terms(set) \in [1 .. MaxTxs -> Nat]
  BY AmountsAreNat DEF Terms
<1>3. Moved(set) = SumFunction(Terms(set))
  BY Zenon DEF Moved, Terms
<1>4. QED
  BY <1>1, <1>2, <1>3, SumNat

(* A transaction more: the terms there were stay as they are *)
LEMMA TermAdded ==
  ASSUME IInv, NEW x \in Txs, txs' = Append(txs, x), Len(txs) < MaxTxs
  PROVE  /\ Len(txs) + 1 \in 1 .. MaxTxs /\ Len(txs) + 1 \notin DOMAIN txs
         /\ txs' \in Seq(Txs) /\ txs'[Len(txs) + 1] = x
         /\ DOMAIN txs' = DOMAIN txs \cup {Len(txs) + 1}
         /\ \A t \in DOMAIN txs : txs'[t] = txs[t]
  BY TxAdded, AppendProperties, LenProperties, InvestmentsAssumption DEF IInv, Typed

LEMMA MovedGrows ==
  ASSUME IInv, NEW x \in Txs, txs' = Append(txs, x), Len(txs) < MaxTxs
  PROVE  /\ Moved(Returns)' >= Moved(Returns)
         /\ Moved(Purchases)' = Moved(Purchases)
                                  + IF x.kind = "invest" THEN x.amount ELSE 0
         /\ Moved(Purchases) \in Nat /\ Moved(Returns) \in Nat
         /\ Moved(Purchases)' \in Nat /\ Moved(Returns)' \in Nat
<1> DEFINE k == Len(txs) + 1
           d == IF x.kind = "invest" THEN x.amount ELSE 0
<1>1. /\ k \in 1 .. MaxTxs /\ k \notin DOMAIN txs
      /\ txs' \in Seq(Txs) /\ txs'[k] = x
      /\ DOMAIN txs' = DOMAIN txs \cup {k} /\ \A t \in DOMAIN txs : txs'[t] = txs[t]
  BY TermAdded
<1> HIDE DEF k
<1>2. txs \in Seq(Txs) /\ Purchases \in SUBSET DOMAIN txs /\ Returns \in SUBSET DOMAIN txs
  BY DEF IInv, Typed, Purchases, Returns
<1>3. /\ IsFiniteSet(1 .. MaxTxs)
      /\ Terms(Purchases) \in [1 .. MaxTxs -> Nat] /\ Terms(Returns) \in [1 .. MaxTxs -> Nat]
      /\ Moved(Purchases) = SumFunction(Terms(Purchases)) /\ Moved(Purchases) \in Nat
      /\ Moved(Returns) = SumFunction(Terms(Returns)) /\ Moved(Returns) \in Nat
  BY <1>2, TermsAreNat
<1>4. /\ \A t \in DOMAIN txs' : txs'[t].amount \in Nat
      /\ d \in Nat
  <2>1. \A t \in DOMAIN txs : txs[t].amount \in Nat
    BY <1>2, AmountsAreNat
  <2>2. x.amount \in Nat
    BY AmountIsNat
  <2>3. QED
    BY <1>1, <2>1, <2>2
<1> DEFINE bought == [t \in 1 .. MaxTxs |-> IF t \in Purchases' THEN txs'[t].amount ELSE 0]
           back == [t \in 1 .. MaxTxs |-> IF t \in Returns' THEN txs'[t].amount ELSE 0]
<1>5. Moved(Purchases)' = SumFunction(bought) /\ Moved(Returns)' = SumFunction(back)
  BY Zenon DEF Moved
<1>6. bought \in [1 .. MaxTxs -> Nat] /\ back \in [1 .. MaxTxs -> Nat]
  BY <1>4 DEF Purchases, Returns
<1>7. /\ bought[k] = Terms(Purchases)[k] + d
      /\ \A t \in (1 .. MaxTxs) \ {k} : bought[t] = Terms(Purchases)[t]
  BY <1>1, <1>4 DEF Purchases, Terms
<1>8. \A t \in 1 .. MaxTxs : Terms(Returns)[t] <= back[t]
  BY <1>1, <1>3, <1>4, <1>6 DEF Returns, Terms
<1> HIDE DEF bought, back, d
<1>9. SumFunction(bought) = SumFunction(Terms(Purchases)) + d
  <2>1. bought \in [1 .. MaxTxs -> Int] /\ Terms(Purchases) \in [1 .. MaxTxs -> Int] /\ d \in Int
    BY <1>3, <1>4, <1>6
  <2> DEFINE bought0 == Terms(Purchases)
             hashes == 1 .. MaxTxs
  <2>2. /\ IsFiniteSet(hashes) /\ k \in hashes /\ d \in Int
        /\ bought0 \in [hashes -> Int] /\ bought \in [hashes -> Int]
        /\ bought[k] = bought0[k] + d
        /\ \A t \in hashes \ {k} : bought[t] = bought0[t]
    BY <1>1, <1>3, <1>7, <2>1
  <2> HIDE DEF bought0, hashes
  <2>3. SumFunction(bought) = SumFunction(bought0) + d
    BY <2>2, SumRaised
  <2>4. QED
    BY <2>3 DEF bought0
<1>10. SumFunction(Terms(Returns)) <= SumFunction(back)
  <2>1. back \in [1 .. MaxTxs -> Int] /\ Terms(Returns) \in [1 .. MaxTxs -> Int]
    BY <1>3, <1>6
  <2>2. QED
    BY <1>3, <1>8, <2>1, SumMonotone
<1>11. SumFunction(bought) \in Nat /\ SumFunction(back) \in Nat
  BY <1>3, <1>6, SumNat
<1>12. QED
  BY <1>3, <1>5, <1>9, <1>10, <1>11 DEF d

LEMMA SaleIsCovered == IInv /\ Sold /\ [Next]_vars => Sold'
<1> SUFFICES ASSUME IInv, Sold, [Next]_vars PROVE Sold'
  OBVIOUS
<1>1. ASSUME NEW w \in Investors, NEW n \in Amounts, Invest(w, n) PROVE Sold'
  <2> DEFINE x == [kind |-> "invest", who |-> w, to |-> w, amount |-> n]
  <2>1. x \in Txs /\ x.kind = "invest" /\ x.amount = n
    BY DEF Txs
  <2>2. txs' = Append(txs, x) /\ Len(txs) < MaxTxs
        /\ n <= Supply - Moved(Purchases) + Moved(Returns)
    BY <1>1 DEF Invest, InventoryCovers
  <2> HIDE DEF x
  <2>3. /\ Moved(Returns)' >= Moved(Returns) /\ Moved(Purchases)' = Moved(Purchases) + n
        /\ Moved(Purchases) \in Nat /\ Moved(Returns) \in Nat
        /\ Moved(Purchases)' \in Nat /\ Moved(Returns)' \in Nat
    BY <2>1, <2>2, MovedGrows
  <2>4. n \in Nat /\ Supply \in Nat
    BY InvestmentsAssumption
  <2>5. QED
    BY <2>2, <2>3, <2>4 DEF Sold
<1>2. ASSUME NEW w \in Investors, NEW to \in Investors \cup {Sale}, Transfer(w, to) PROVE Sold'
  <2> DEFINE x == [kind |-> "transfer", who |-> w, to |-> to, amount |-> 1]
  <2>1. x \in Txs /\ x.kind # "invest"
    BY DEF Txs
  <2>2. txs' = Append(txs, x) /\ Len(txs) < MaxTxs
    BY <1>2 DEF Transfer
  <2> HIDE DEF x
  <2>3. /\ Moved(Returns)' >= Moved(Returns) /\ Moved(Purchases)' = Moved(Purchases) + 0
        /\ Moved(Purchases) \in Nat /\ Moved(Returns) \in Nat
        /\ Moved(Purchases)' \in Nat /\ Moved(Returns)' \in Nat
    BY <2>1, <2>2, MovedGrows
  <2>4. QED
    BY <2>3, InvestmentsAssumption DEF Sold
<1>3. CASE UNCHANGED txs
  BY <1>3 DEF Sold, Moved, Purchases, Returns
<1>4. QED
  BY <1>1, <1>2, <1>3
     DEF Next, vars, Prepare, Index, Miss, StartConfirm, ClaimTx, ConfirmReconciles, Crash

LEMMA InitSold == Init => Sold
<1> SUFFICES ASSUME Init PROVE Sold
  OBVIOUS
<1>1. txs = <<>> /\ txs \in Seq(Txs) /\ DOMAIN txs = {}
  BY EmptySeq DEF Init
<1>2. Purchases = {} /\ Returns = {}
  BY <1>1 DEF Purchases, Returns
<1>3. Terms({}) \in [1 .. MaxTxs -> Int] /\ \A t \in 1 .. MaxTxs : Terms({})[t] = 0
  BY DEF Terms
<1>4. Moved({}) = 0
  BY <1>1, <1>3, TermsAreNat, SumZero
<1>5. QED
  BY <1>2, <1>4, InvestmentsAssumption DEF Sold

(* Each funded row has the hash of a purchase of its own, so the funded    *)
(* rows hold no more than was sold.                                        *)
LEMMA FundedAreSold == IInv /\ Sold => FundedWithinSupply
<1> SUFFICES ASSUME IInv, Sold PROVE FundedWithinSupply
  OBVIOUS
<1> DEFINE Paid(i) == i \in DOMAIN orders /\ orders[i].status = "funded"
           f == [i \in Ids |-> IF Paid(i) THEN orders[i].amount ELSE 0]
           hash == [i \in Ids |-> IF Paid(i) THEN orders[i].tx ELSE 0]
<1>1. txs \in Seq(Txs) /\ Purchases \in SUBSET DOMAIN txs /\ Returns \in SUBSET DOMAIN txs
      /\ DOMAIN txs = 1 .. Len(txs) /\ Len(txs) \in Nat /\ Len(txs) <= MaxTxs
      /\ MaxTxs \in Nat /\ MaxOrders \in Nat
  BY LenProperties, InvestmentsAssumption DEF IInv, Typed, Purchases, Returns
<1>2. /\ IsFiniteSet(1 .. MaxTxs) /\ Terms(Purchases) \in [1 .. MaxTxs -> Nat]
      /\ Moved(Purchases) = SumFunction(Terms(Purchases))
      /\ Moved(Purchases) \in Nat /\ Moved(Returns) \in Nat
  BY <1>1, TermsAreNat
<1>3. IsFiniteSet(Ids)
  BY <1>1, FirstNumbers DEF Ids
<1>4. \A i \in Ids : Paid(i) =>
        /\ orders[i].amount \in Nat
        /\ orders[i].tx \in 1 .. MaxTxs /\ orders[i].tx # 0
        /\ orders[i].amount = Terms(Purchases)[orders[i].tx]
  <2> SUFFICES ASSUME NEW i \in Ids, Paid(i)
               PROVE  /\ orders[i].amount \in Nat
                      /\ orders[i].tx \in 1 .. MaxTxs /\ orders[i].tx # 0
                      /\ orders[i].amount = Terms(Purchases)[orders[i].tx]
    OBVIOUS
  <2>1. orders[i].tx \in Purchases /\ orders[i].amount = txs[orders[i].tx].amount
    BY DEF IInv, FundedMatch, Matches
  <2>2. orders[i].tx \in 1 .. MaxTxs
    BY <1>1, <2>1
  <2>3. orders[i].amount \in Nat
    BY <1>1, <2>1, AmountsAreNat
  <2>4. QED
    BY <2>1, <2>2, <2>3 DEF Terms
<1>5. f \in [Ids -> Nat]
  BY <1>4
<1>6. \A i \in Ids : f[i] > 0 =>
        Paid(i) /\ hash[i] \in 1 .. MaxTxs /\ f[i] <= Terms(Purchases)[hash[i]]
  BY <1>4
<1>7. \A i, j \in Ids : f[i] > 0 /\ f[j] > 0 /\ hash[i] = hash[j] => i = j
  BY <1>4, <1>6 DEF IInv, HashUnique
<1>8. FundedTokens = SumFunction(f)
  BY Zenon DEF FundedTokens
<1> HIDE DEF f, hash
<1>9. SumFunction(f) <= SumFunction(Terms(Purchases))
  BY <1>2, <1>3, <1>5, <1>6, <1>7, SumInjection
<1>10. SumFunction(f) \in Nat
  BY <1>3, <1>5, SumNat
<1>11. QED
  BY <1>2, <1>8, <1>9, <1>10, InvestmentsAssumption DEF Sold, FundedWithinSupply

(* Whatever was prepared, reported and reconciled in whichever order, the  *)
(* funded orders hold at most the tokens there were for sale and those     *)
(* that came back: only the contract's own balance is needed for it, none  *)
(* of the checks of prepare.                                               *)
THEOREM FundedFitsSupply == Spec => []FundedWithinSupply
<1>1. Init => IInv /\ Sold
  BY InitKeepsInv, InitSold
<1>2. IInv /\ Sold /\ [Next]_vars => (IInv /\ Sold)'
  BY NextKeepsInv, SaleIsCovered
<1>3. IInv /\ Sold => FundedWithinSupply
  BY FundedAreSold
<1>4. QED
  BY <1>1, <1>2, <1>3, PTL DEF Spec
===============================================================================
