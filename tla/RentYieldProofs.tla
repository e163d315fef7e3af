--------------------------- MODULE RentYieldProofs -----------------------------
(***************************************************************************)
(* Proofs about RentYield, for any investors, supply, rent, handlers and   *)
(* bounds: the rows and the credits, for every mix of requests, whatever   *)
(* fails, the indexer running beside them and requests that die.           *)
(***************************************************************************)
EXTENDS RentYield, FiniteSums, SequenceTheorems

Statuses == {"none", "claimable", "claimed"}
Rows == [amount : Nat, status : Statuses]
Txs == [kind : {"rent"}, pay : [Investors -> Nat]] \cup [kind : {"claim"}, who : Investors]
Stages == {"off", "handle", "read", "add", "credit", "creditAll", "rows", "buyer", "accrue", "end"}

(* The rows a handler has written: own writes, each under <<d, w>>         *)
IsOwn(own) ==
  /\ own = [x \in DOMAIN own |-> own[x]] /\ DOMAIN own \subseteq Ids \X Investors
  /\ \A x \in DOMAIN own : own[x] \in Rows
Fields == {"kind", "stage", "pay", "new", "own", "todo", "sent"}
IsRequest(r) ==
  /\ r = [f \in Fields |-> r[f]]
  /\ r.kind \in Kinds \cup {"none"} /\ r.stage \in Stages /\ r.pay \in Ids \cup {0}
  /\ r.new \subseteq Investors /\ IsOwn(r.own)
  /\ r.todo \subseteq Ids \X Investors /\ r.sent \subseteq Ids \X Investors

Typed ==
  /\ bal \in [Investors -> Nat] /\ SumFunction(bal) <= Supply
  /\ most \in [Investors -> Nat] /\ \A w \in Investors : bal[w] <= most[w]
  /\ claimable \in [Investors -> Nat] /\ credit \in [Ids -> [Investors -> Nat]]
  /\ listed \subseteq Investors /\ known \subseteq Investors /\ eth \in Nat
  /\ txs \in Seq(Txs) /\ Len(txs) <= MaxTxs /\ indexed \subseteq DOMAIN txs
  /\ row \in [Ids -> [Investors -> Rows]]
  /\ req = [h \in Handlers |-> req[h]] /\ \A h \in Handlers : IsRequest(req[h])

(* Every claim after payment d that is indexed and not raced is on row r   *)
(* of d and w, if r holds just what the payment made                       *)
Settled(r, d, w) ==
  (r.amount = txs[d].pay[w] /\ r.amount > 0 /\ r.status # "claimed") =>
    \A t \in indexed : IsClaim(t) /\ d < t /\ txs[t].who = w => t \in raced

(* Own writes of a request for payment p: for payments that are known, and *)
(* no less than they made                                                  *)
OwnOK(own, p) ==
  \A d \in Ids, w \in Investors : <<d, w>> \in DOMAIN own =>
    /\ IsRent(d) /\ d \in indexed \cup {p}
    /\ own[<<d, w>>].status # "none" /\ own[<<d, w>>].amount >= txs[d].pay[w]
    /\ Settled(own[<<d, w>>], d, w)

(* Payment d is seen with all that it made                                 *)
Covers(own, d) == \A w \in Investors : SeenBy(own, d, w).amount >= txs[d].pay[w]

RowsOK ==
  \A d \in Ids, w \in Investors :
    /\ row[d][w].status = "none" => row[d][w].amount = 0
    /\ row[d][w].status # "none" => d \in indexed
    /\ d \in indexed /\ IsRent(d) => /\ row[d][w].amount >= txs[d].pay[w]
                                     /\ Settled(row[d][w], d, w)

(* What is left to credit is for payments that are known                   *)
TodoOK(r) == \A x \in r.todo : IsRent(x[1]) /\ x[1] \in indexed \cup {r.pay}

RequestOK(h) ==
  /\ TodoOK(req[h])
  /\ req[h].stage \in {"off", "handle"} => req[h].own = Idle.own
  /\ req[h].kind = "confirm" \/ req[h].stage \in {"handle", "rows", "accrue"} => req[h].pay # 0
  /\ req[h].pay # 0 => IsRent(req[h].pay)
  /\ req[h].pay # 0 /\ req[h].stage # "handle" => Covers(req[h].own, req[h].pay)
  /\ OwnOK(req[h].own, req[h].pay)

YieldInv == Typed /\ RowsOK /\ \A h \in Handlers : RequestOK(h)
-------------------------------------------------------------------------------
(* Shares *)
LEMMA DivMonotone ==
  ASSUME NEW s \in Nat \ {0}, NEW a \in Nat, NEW b \in Nat, a <= b
  PROVE  a \div s \in Nat /\ b \div s \in Nat /\ a \div s <= b \div s
<1> DEFINE q == a \div s
           r == b \div s
<1>1. q \in Nat /\ s * q <= a
  OBVIOUS
<1>2. r \in Nat /\ s * r <= b /\ b < s * r + s
  OBVIOUS
<1> HIDE DEF q, r
<1>3. SUFFICES ASSUME r + 1 <= q PROVE FALSE
  BY <1>1, <1>2 DEF q, r
<1>4. s * (r + 1) <= s * q
  BY <1>1, <1>2, <1>3
<1>5. s * (r + 1) = s * r + s
  BY <1>2
<1>6. s * q \in Nat /\ s * r \in Nat
  BY <1>1, <1>2
<1>7. QED
  BY <1>1, <1>2, <1>4, <1>5, <1>6

LEMMA ShareMonotone ==
  ASSUME NEW b \in [Investors -> Nat], NEW c \in [Investors -> Nat], NEW w \in Investors,
         b[w] <= c[w]
  PROVE  Share(b, w) \in Nat /\ Share(c, w) \in Nat /\ Share(b, w) <= Share(c, w)
<1>1. Rent \in Nat /\ Supply \in Nat \ {0} /\ b[w] \in Nat /\ c[w] \in Nat
  BY YieldAssumption
<1> DEFINE m == Rent * b[w]
           n == Rent * c[w]
<1>2. m \in Nat /\ n \in Nat /\ m <= n
  BY <1>1
<1> HIDE DEF m, n
<1>3. m \div Supply \in Nat /\ n \div Supply \in Nat /\ m \div Supply <= n \div Supply
  BY <1>1, <1>2, DivMonotone
<1>4. QED
  BY <1>3 DEF Share, m, n

LEMMA ShareNat ==
  ASSUME Typed, NEW w \in Investors
  PROVE  Share(bal, w) \in Nat
<1>1. bal \in [Investors -> Nat] /\ bal[w] <= bal[w]
  BY DEF Typed
<1>2. QED
  BY <1>1, ShareMonotone

LEMMA SharesNowTyped ==
  ASSUME Typed
  PROVE  SharesNow \in [Investors -> Nat]
<1>1. \A w \in Investors : Share(bal, w) \in Nat
  BY ShareNat
<1>2. QED
  BY <1>1 DEF SharesNow
-------------------------------------------------------------------------------
(* Own writes *)
LEMMA IdleTyped ==
  /\ IsOwn(Idle.own) /\ DOMAIN Idle.own = {} /\ IsRequest(Idle)
  /\ Idle.kind = "none" /\ Idle.stage = "off" /\ Idle.pay = 0 /\ Idle.new = {}
  /\ Idle.todo = {} /\ Idle.sent = {}
<1> DEFINE none == [x \in {} |-> NoRow]
<1>1. none = [x \in DOMAIN none |-> none[x]] /\ DOMAIN none = {}
  OBVIOUS
<1> HIDE DEF none
<1>2. IsOwn(none)
  BY <1>1 DEF IsOwn
<1>3. Idle = [kind |-> "none", stage |-> "off", pay |-> 0, new |-> {}, own |-> none,
              todo |-> {}, sent |-> {}]
  BY DEF Idle, none
<1>4. /\ Idle.own = none /\ Idle.kind = "none" /\ Idle.stage = "off" /\ Idle.pay = 0
      /\ Idle.new = {} /\ Idle.todo = {} /\ Idle.sent = {}
  BY <1>3
<1>5. Idle = [f \in Fields |-> Idle[f]]
  BY <1>3 DEF Fields
<1>6. IsRequest(Idle)
  BY <1>2, <1>4, <1>5 DEF IsRequest, Stages
<1>7. QED
  BY <1>1, <1>2, <1>4, <1>6

LEMMA SeenTyped ==
  ASSUME Typed, NEW own, IsOwn(own), NEW d \in Ids, NEW w \in Investors
  PROVE  /\ SeenBy(own, d, w) \in Rows /\ SeenBy(own, d, w).amount \in Nat
         /\ SeenBy(own, d, w).status \in Statuses
<1>1. row[d][w] \in Rows
  BY DEF Typed
<1>2. SeenBy(own, d, w) \in Rows
  BY <1>1 DEF SeenBy, IsOwn
<1>3. QED
  BY <1>2 DEF Rows

(* The effect of inserting rows *)
LEMMA InsertedRows ==
  ASSUME Typed, NEW own, IsOwn(own), NEW d \in Ids, NEW amounts \in [Investors -> Nat]
  PROVE  LET n == Inserted(own, d, amounts)
             new == {<<d, w>> : w \in {v \in Investors : amounts[v] > 0
                                         /\ SeenBy(own, d, v).status = "none"}}
         IN /\ IsOwn(n) /\ DOMAIN n = DOMAIN own \cup new
            /\ \A x \in DOMAIN own \ new : n[x] = own[x]
            /\ \A w \in Investors : <<d, w>> \in new =>
                 n[<<d, w>>] = [amount |-> amounts[w], status |-> NewStatus(d, w)]
            /\ \A w \in Investors : <<d, w>> \in new <=>
                 amounts[w] > 0 /\ SeenBy(own, d, w).status = "none"
<1> DEFINE fresh == {v \in Investors : amounts[v] > 0 /\ SeenBy(own, d, v).status = "none"}
           new == {<<d, w>> : w \in fresh}
           val(x) == IF x \in new THEN [amount |-> amounts[x[2]], status |-> NewStatus(d, x[2])]
                     ELSE own[x]
           n == [x \in DOMAIN own \cup new |-> val(x)]
<1>1. Inserted(own, d, amounts) = n
  BY DEF Inserted
<1>2. fresh \subseteq Investors /\ new \subseteq Ids \X Investors
  OBVIOUS
<1>3. \A w \in Investors : <<d, w>> \in new <=> w \in fresh
  OBVIOUS
<1>4. \A x \in new : x[2] \in Investors
  BY <1>2
<1>5. \A w \in Investors : NewStatus(d, w) \in Statuses
  BY DEF NewStatus, Statuses
<1> HIDE DEF fresh, new
<1>6. \A x \in DOMAIN own \cup new : val(x) \in Rows
  <2>1. ASSUME NEW x \in new PROVE val(x) \in Rows
    BY <1>4, <1>5 DEF Rows
  <2>2. ASSUME NEW x \in DOMAIN own, x \notin new PROVE val(x) \in Rows
    BY <2>2 DEF IsOwn
  <2>3. QED
    BY <2>1, <2>2
<1>7. IsOwn(n)
  <2> HIDE DEF val
  <2>1. n = [x \in DOMAIN n |-> n[x]] /\ DOMAIN n = DOMAIN own \cup new
    OBVIOUS
  <2>2. \A x \in DOMAIN n : n[x] \in Rows
    BY <1>6
  <2> HIDE DEF n
  <2>3. DOMAIN n \subseteq Ids \X Investors
    BY <1>2, <2>1 DEF IsOwn
  <2>4. QED
    BY <2>1, <2>2, <2>3 DEF IsOwn
<1>8. \A x \in DOMAIN own \ new : n[x] = own[x]
  OBVIOUS
<1>9. \A w \in Investors : <<d, w>> \in new =>
        n[<<d, w>>] = [amount |-> amounts[w], status |-> NewStatus(d, w)]
  OBVIOUS
<1>10. DOMAIN n = DOMAIN own \cup new
  OBVIOUS
<1> HIDE DEF n
<1>11. \A w \in Investors : <<d, w>> \in new <=> amounts[w] > 0 /\ SeenBy(own, d, w).status = "none"
  BY <1>3 DEF fresh
<1>12. QED
  BY <1>1, <1>7, <1>8, <1>9, <1>10, <1>11 DEF fresh, new
-------------------------------------------------------------------------------
(* What own writes and rows say of payments *)
LEMMA PayTyped ==
  ASSUME Typed, NEW d, IsRent(d)
  PROVE  txs[d].pay \in [Investors -> Nat] /\ d \in Ids /\ d # 0
<1>1. txs[d] \in Txs /\ d \in 1 .. Len(txs) /\ Len(txs) \in Nat
  BY DEF Typed, IsRent
<1>2. txs[d].pay \in [Investors -> Nat]
  BY <1>1 DEF IsRent, Txs
<1>3. d \in Ids /\ d # 0
  BY <1>1, YieldAssumption DEF Typed, Ids
<1>4. QED
  BY <1>2, <1>3

LEMMA SeenPays ==
  ASSUME RowsOK, NEW own, NEW p, OwnOK(own, p), NEW d \in Ids, IsRent(d), NEW w \in Investors
  PROVE  /\ SeenBy(own, d, w).status # "none" => SeenBy(own, d, w).amount >= txs[d].pay[w]
         /\ SeenBy(own, d, w).status = "none" =>
              SeenBy(own, d, w).amount = 0 /\ <<d, w>> \notin DOMAIN own
<1>1. CASE <<d, w>> \in DOMAIN own
  BY <1>1 DEF OwnOK, SeenBy
<1>2. CASE <<d, w>> \notin DOMAIN own
  BY <1>2 DEF RowsOK, SeenBy
<1>3. QED
  BY <1>1, <1>2

LEMMA InsertKeepsOwn ==
  ASSUME Typed, RowsOK, NEW own, IsOwn(own), NEW p, OwnOK(own, p),
         NEW d \in Ids, IsRent(d), d \in indexed \cup {p}, NEW amounts \in [Investors -> Nat],
         \A w \in Investors : SeenBy(own, d, w).status = "none" /\ amounts[w] > 0
                                => amounts[w] >= txs[d].pay[w]
  PROVE  LET n == Inserted(own, d, amounts)
         IN /\ IsOwn(n) /\ OwnOK(n, p)
            /\ \A w \in Investors : IF amounts[w] > 0 /\ SeenBy(own, d, w).status = "none"
                                    THEN SeenBy(n, d, w).amount = amounts[w]
                                    ELSE SeenBy(n, d, w) = SeenBy(own, d, w)
            /\ \A w \in Investors :
                 amounts[w] > 0 /\ SeenBy(own, d, w).status = "none" => n # own
<1> DEFINE n == Inserted(own, d, amounts)
           new == {<<d, w>> : w \in {v \in Investors : amounts[v] > 0
                                       /\ SeenBy(own, d, v).status = "none"}}
<1>1. /\ IsOwn(n) /\ DOMAIN n = DOMAIN own \cup new
      /\ \A x \in DOMAIN own \ new : n[x] = own[x]
      /\ \A w \in Investors : <<d, w>> \in new =>
           n[<<d, w>>] = [amount |-> amounts[w], status |-> NewStatus(d, w)]
      /\ \A w \in Investors : <<d, w>> \in new <=>
           amounts[w] > 0 /\ SeenBy(own, d, w).status = "none"
  BY InsertedRows, SMTT(60)
<1>2. \A x \in new : x[1] = d
  OBVIOUS
<1>b. ASSUME NEW w \in Investors, <<d, w>> \in new
      PROVE  /\ n[<<d, w>>].amount = amounts[w] /\ n[<<d, w>>].status = NewStatus(d, w)
             /\ <<d, w>> \in DOMAIN n
  <2> DEFINE r == n[<<d, w>>]
  <2>1. r = [amount |-> amounts[w], status |-> NewStatus(d, w)] /\ <<d, w>> \in DOMAIN n
    BY <1>1, <1>b
  <2> HIDE DEF r
  <2>2. r.amount = amounts[w] /\ r.status = NewStatus(d, w)
    BY <2>1
  <2>3. QED
    BY <2>1, <2>2 DEF r
<1>a. \A w \in Investors : <<d, w>> \in new => <<d, w>> \notin DOMAIN own
  BY <1>1, SeenPays
<1> HIDE DEF n, new
<1>3. ASSUME NEW e \in Ids, NEW w \in Investors, <<e, w>> \in DOMAIN n
      PROVE  /\ IsRent(e) /\ e \in indexed \cup {p}
             /\ n[<<e, w>>].status # "none" /\ n[<<e, w>>].amount >= txs[e].pay[w]
             /\ Settled(n[<<e, w>>], e, w)
  <2>1. CASE <<e, w>> \in new
    <3>1. e = d
      <4>1. <<e, w>>[1] = d
        BY <1>2, <2>1, Zenon
      <4>2. QED
        BY <4>1
    <3>2. n[<<e, w>>].amount = amounts[w] /\ n[<<e, w>>].status = NewStatus(d, w)
      BY <1>b, <2>1, <3>1
    <3>3. amounts[w] >= txs[d].pay[w]
      BY <1>1, <2>1, <3>1
    <3>4. NewStatus(d, w) \in {"claimed", "claimable"}
      BY DEF NewStatus
    <3>5. Settled(n[<<e, w>>], e, w)
      <4>1. ASSUME NewStatus(d, w) # "claimed", NEW t \in indexed, IsClaim(t), d < t,
                   txs[t].who = w
            PROVE  FALSE
        <5>1. t \in Int /\ d \in Int
          BY DEF Typed, Ids
        <5>2. t >= d
          BY <4>1, <5>1
        <5>3. QED
          BY <4>1, <5>2 DEF NewStatus
      <4>2. QED
        BY <3>1, <3>2, <4>1 DEF Settled
    <3>6. QED
      BY <3>1, <3>2, <3>3, <3>4, <3>5
  <2>2. CASE <<e, w>> \notin new
    <3>1. <<e, w>> \in DOMAIN own /\ n[<<e, w>>] = own[<<e, w>>]
      BY <1>1, <1>3, <2>2
    <3>2. QED
      BY <3>1 DEF OwnOK
  <2>3. QED
    BY <2>1, <2>2
<1>4. OwnOK(n, p)
  BY <1>3 DEF OwnOK
<1>5. ASSUME NEW w \in Investors
      PROVE  IF amounts[w] > 0 /\ SeenBy(own, d, w).status = "none"
             THEN SeenBy(n, d, w).amount = amounts[w]
             ELSE SeenBy(n, d, w) = SeenBy(own, d, w)
  <2>1. CASE <<d, w>> \in new
    <3>1. n[<<d, w>>].amount = amounts[w] /\ <<d, w>> \in DOMAIN n
      BY <1>b, <2>1
    <3>2. SeenBy(n, d, w) = n[<<d, w>>]
      BY <3>1 DEF SeenBy
    <3>3. QED
      BY <1>1, <2>1, <3>1, <3>2
  <2>2. CASE <<d, w>> \notin new
    <3>1. SeenBy(n, d, w) = SeenBy(own, d, w)
      BY <1>1, <2>2 DEF SeenBy
    <3>2. QED
      BY <1>1, <2>2, <3>1
  <2>3. QED
    BY <2>1, <2>2
<1>6. ASSUME NEW w \in Investors, amounts[w] > 0, SeenBy(own, d, w).status = "none"
      PROVE  n # own
  BY <1>1, <1>a, <1>6
<1>7. QED
  BY <1>1, <1>4, <1>5, <1>6 DEF n

(* Shares as of now go to rows the payment did not make *)
LEMMA BackfillKeepsOwn ==
  ASSUME Typed, RowsOK, NEW own, IsOwn(own), NEW p, OwnOK(own, p),
         NEW d \in Ids, IsRent(d), d \in indexed \cup {p},
         \A w \in Investors : SeenBy(own, d, w).status = "none" => txs[d].pay[w] = 0
  PROVE  LET n == RowsBackfilled(own, d)
         IN IsOwn(n) /\ OwnOK(n, p) /\ Covers(n, d)
<1> DEFINE n == RowsBackfilled(own, d)
<1>1. SharesNow \in [Investors -> Nat] /\ txs[d].pay \in [Investors -> Nat]
  BY SharesNowTyped, PayTyped
<1>2. \A w \in Investors : SeenBy(own, d, w).status = "none" /\ SharesNow[w] > 0
                             => SharesNow[w] >= txs[d].pay[w]
  BY <1>1
<1>3. /\ IsOwn(n) /\ OwnOK(n, p)
      /\ \A w \in Investors : IF SharesNow[w] > 0 /\ SeenBy(own, d, w).status = "none"
                              THEN SeenBy(n, d, w).amount = SharesNow[w]
                              ELSE SeenBy(n, d, w) = SeenBy(own, d, w)
  BY <1>1, <1>2, InsertKeepsOwn DEF RowsBackfilled
<1>4. \A w \in Investors : SeenBy(n, d, w).amount >= txs[d].pay[w]
  <2>1. ASSUME NEW w \in Investors PROVE SeenBy(n, d, w).amount >= txs[d].pay[w]
    <3>1. CASE SharesNow[w] > 0 /\ SeenBy(own, d, w).status = "none"
      BY <1>1, <1>2, <1>3, <3>1
    <3>2. CASE ~(SharesNow[w] > 0 /\ SeenBy(own, d, w).status = "none")
      <4>1. SeenBy(n, d, w) = SeenBy(own, d, w)
        BY <1>3, <3>2
      <4>2. SeenBy(own, d, w).status = "none" => SeenBy(own, d, w).amount = 0 /\ txs[d].pay[w] = 0
        BY SeenPays
      <4>3. SeenBy(own, d, w).status # "none" => SeenBy(own, d, w).amount >= txs[d].pay[w]
        BY SeenPays
      <4>4. QED
        BY <4>1, <4>2, <4>3
    <3>3. QED
      BY <3>1, <3>2
  <2>2. QED
    BY <2>1
<1>5. QED
  BY <1>3, <1>4 DEF Covers

(* The rows of a payment, from its events or filled up with shares as of now *)
LEMMA RentRowsKeepsOwn ==
  ASSUME Typed, RowsOK, NEW own, IsOwn(own), NEW p, OwnOK(own, p),
         NEW d \in Ids, IsRent(d), d \in indexed \cup {p}
  PROVE  LET n == RentRows(own, d)
         IN IsOwn(n) /\ OwnOK(n, p) /\ Covers(n, d)
<1> DEFINE pay == txs[d].pay
           paid == Inserted(own, d, pay)
<1>1. pay \in [Investors -> Nat]
  BY PayTyped
<1> HIDE DEF pay
<1>2. \A w \in Investors : SeenBy(own, d, w).status = "none" /\ pay[w] > 0
                             => pay[w] >= txs[d].pay[w]
  BY <1>1 DEF pay
<1>3. /\ IsOwn(paid) /\ OwnOK(paid, p)
      /\ \A w \in Investors : IF pay[w] > 0 /\ SeenBy(own, d, w).status = "none"
                              THEN SeenBy(paid, d, w).amount = pay[w]
                              ELSE SeenBy(paid, d, w) = SeenBy(own, d, w)
      /\ \A w \in Investors : pay[w] > 0 /\ SeenBy(own, d, w).status = "none" => paid # own
  BY <1>1, <1>2, InsertKeepsOwn
<1> HIDE DEF paid
<1>4. CASE paid = own
  <2>1. RentRows(own, d) = RowsBackfilled(own, d)
    BY <1>4 DEF RentRows, RowsOrBackfill, paid, pay
  <2>2. \A w \in Investors : SeenBy(own, d, w).status = "none" => txs[d].pay[w] = 0
    BY <1>1, <1>3, <1>4 DEF pay
  <2>3. QED
    BY <2>1, <2>2, BackfillKeepsOwn
<1>5. CASE paid # own
  <2>1. RentRows(own, d) = paid
    BY <1>5 DEF RentRows, RowsOrBackfill, paid, pay
  <2>2. ASSUME NEW w \in Investors PROVE SeenBy(paid, d, w).amount >= pay[w]
    <3>1. CASE pay[w] > 0 /\ SeenBy(own, d, w).status = "none"
      BY <1>1, <1>3, <3>1
    <3>2. CASE ~(pay[w] > 0 /\ SeenBy(own, d, w).status = "none")
      <4>1. SeenBy(paid, d, w) = SeenBy(own, d, w)
        BY <1>3, <3>2
      <4>2. SeenBy(own, d, w).status = "none" => SeenBy(own, d, w).amount = 0
        BY SeenPays
      <4>3. SeenBy(own, d, w).status # "none" => SeenBy(own, d, w).amount >= pay[w]
        BY SeenPays DEF pay
      <4>4. QED
        BY <1>1, <3>2, <4>1, <4>2, <4>3
    <3>3. QED
      BY <3>1, <3>2
  <2>3. QED
    BY <1>3, <2>1, <2>2 DEF Covers, pay
<1>6. QED
  BY <1>4, <1>5
-------------------------------------------------------------------------------
(* What keeps a request's promises: rows grow, what is known stays, and no *)
(* claim becomes indexed and not raced                                     *)
RowsGrow == \A d \in Ids, w \in Investors : row'[d][w].amount >= row[d][w].amount
TxsStay == \A d \in DOMAIN txs : d \in DOMAIN txs' /\ txs'[d] = txs[d]
Calm == /\ indexed \subseteq indexed'
        /\ \A t \in indexed' : IsClaim(t)' /\ t \notin raced' => t \in indexed \ raced

LEMMA SettledStays ==
  ASSUME Typed, TxsStay, NEW r, NEW d, IsRent(d), NEW w \in Investors,
         \A t \in indexed' : IsClaim(t)' /\ t \notin raced' => t \in indexed \ raced,
         Settled(r, d, w)
  PROVE  Settled(r, d, w)'
<1>1. d \in DOMAIN txs /\ txs'[d] = txs[d]
  BY DEF TxsStay, IsRent
<1>2. ASSUME r.amount = txs[d].pay[w] /\ r.amount > 0 /\ r.status # "claimed",
             NEW t \in indexed', IsClaim(t)', d < t, txs'[t].who = w, t \notin raced'
      PROVE  FALSE
  <2>1. t \in indexed \ raced
    BY <1>2
  <2>2. t \in DOMAIN txs /\ txs'[t] = txs[t]
    BY <2>1 DEF TxsStay, Typed
  <2>3. IsClaim(t) /\ txs[t].who = w
    BY <1>2, <2>2 DEF IsClaim
  <2>4. QED
    BY <1>2, <2>1, <2>3 DEF Settled
<1>3. QED
  BY <1>1, <1>2 DEF Settled

LEMMA RequestStays ==
  ASSUME Typed, TxsStay, NEW h \in Handlers, RequestOK(h), req'[h] = req[h],
         RowsGrow, indexed \subseteq indexed',
         Calm \/ DOMAIN req[h].own = {}, Typed'
  PROVE  RequestOK(h)'
<1> DEFINE own == req[h].own
           p == req[h].pay
<1>1. PICK r : r = req[h] /\ r = req'[h]
  OBVIOUS
<1>2. /\ r.stage \in {"off", "handle"} => r.own = Idle.own
      /\ r.kind = "confirm" \/ r.stage \in {"handle", "rows", "accrue"} => r.pay # 0
      /\ r.pay # 0 => IsRent(r.pay)
      /\ r.pay # 0 /\ r.stage # "handle" => Covers(r.own, r.pay)
      /\ OwnOK(r.own, r.pay) /\ TodoOK(r)
  BY <1>1 DEF RequestOK
<1>3. ASSUME NEW d, IsRent(d) PROVE IsRent(d)' /\ txs'[d] = txs[d] /\ d \in Ids
  BY <1>3, PayTyped DEF IsRent, TxsStay
<1>4. IsOwn(r.own)
  BY <1>1 DEF Typed, IsRequest
<1>5. ASSUME r.pay # 0, r.stage # "handle", NEW w \in Investors
      PROVE  SeenBy(r.own, r.pay, w)'.amount >= txs'[r.pay].pay[w]
  <2> DEFINE d == r.pay
  <2>1. IsRent(d) /\ d \in Ids /\ txs'[d] = txs[d]
    BY <1>2, <1>3, <1>5
  <2>2. SeenBy(r.own, d, w).amount >= txs[d].pay[w]
    BY <1>2, <1>5 DEF Covers
  <2>3. CASE <<d, w>> \in DOMAIN r.own
    BY <2>1, <2>2, <2>3 DEF SeenBy
  <2>4. CASE <<d, w>> \notin DOMAIN r.own
    <3>1. row[d][w].amount >= txs[d].pay[w]
      BY <2>2, <2>4 DEF SeenBy
    <3>2. row'[d][w].amount >= row[d][w].amount
      BY <2>1 DEF RowsGrow
    <3>3. row'[d][w].amount \in Nat /\ row[d][w].amount \in Nat /\ txs[d].pay[w] \in Nat
      <4>1. row'[d][w] \in Rows /\ row[d][w] \in Rows
        BY <2>1 DEF Typed
      <4>2. QED
        BY <2>1, <4>1, PayTyped DEF Rows
    <3>4. row'[d][w].amount >= txs[d].pay[w]
      BY <3>1, <3>2, <3>3
    <3>5. QED
      BY <2>1, <2>4, <3>4 DEF SeenBy
  <2>5. QED
    BY <2>3, <2>4
<1>6. ASSUME NEW d \in Ids, NEW w \in Investors, <<d, w>> \in DOMAIN r.own
      PROVE  /\ IsRent(d)' /\ d \in indexed' \cup {r.pay}
             /\ r.own[<<d, w>>].status # "none" /\ r.own[<<d, w>>].amount >= txs'[d].pay[w]
             /\ Settled(r.own[<<d, w>>], d, w)'
  <2>1. /\ IsRent(d) /\ d \in indexed \cup {r.pay}
        /\ r.own[<<d, w>>].status # "none" /\ r.own[<<d, w>>].amount >= txs[d].pay[w]
        /\ Settled(r.own[<<d, w>>], d, w)
    BY <1>2, <1>6 DEF OwnOK
  <2>2. \A t \in indexed' : IsClaim(t)' /\ t \notin raced' => t \in indexed \ raced
    BY <1>1, <1>6 DEF Calm
  <2> DEFINE x == r.own[<<d, w>>]
  <2>3. Settled(x, d, w)'
    BY <2>1, <2>2, SettledStays
  <2>4. QED
    BY <1>3, <2>1, <2>3
<1>7. /\ r.pay # 0 => IsRent(r.pay)'
      /\ r.pay # 0 /\ r.stage # "handle" => Covers(r.own, r.pay)'
      /\ OwnOK(r.own, r.pay)'
      /\ TodoOK(r)'
  BY <1>2, <1>3, <1>5, <1>6 DEF Covers, OwnOK, TodoOK
<1>8. QED
  BY <1>1, <1>2, <1>7 DEF RequestOK

(* A step of h that writes nothing to the tables *)
LEMMA RequestWritten ==
  ASSUME NEW h, NEW r, req'[h] = r, OwnOK(r.own, r.pay), TodoOK(r),
         r.stage \in {"off", "handle"} => r.own = Idle.own,
         r.kind = "confirm" \/ r.stage \in {"handle", "rows", "accrue"} => r.pay # 0,
         r.pay # 0 => IsRent(r.pay), r.pay # 0 /\ r.stage # "handle" => Covers(r.own, r.pay),
         UNCHANGED <<txs, indexed, raced, row>>
  PROVE  RequestOK(h)'
<1>1. r.pay # 0 => IsRent(r.pay)'
  BY DEF IsRent
<1>2. r.pay # 0 /\ r.stage # "handle" => Covers(r.own, r.pay)'
  BY DEF Covers, SeenBy
<1>3. OwnOK(r.own, r.pay)'
  BY DEF OwnOK, Settled, IsRent, IsClaim
<1>4. TodoOK(r)'
  BY DEF TodoOK, IsRent
<1>5. QED
  BY <1>1, <1>2, <1>3, <1>4 DEF RequestOK

LEMMA IdleKeeps ==
  ASSUME NEW h, req'[h] = Idle
  PROVE  RequestOK(h)'
<1>1. /\ req'[h].own = Idle.own /\ req'[h].pay = 0 /\ req'[h].todo = {}
      /\ req'[h].stage = "off" /\ req'[h].kind = "none"
  BY IdleTyped
<1>2. DOMAIN req'[h].own = {}
  BY <1>1, IdleTyped
<1>3. QED
  BY <1>1, <1>2 DEF RequestOK, OwnOK, TodoOK

(* A commit of own writes for payment p *)
Commits(own, p) ==
  /\ row' = Committed(own) /\ indexed' = indexed \cup ({p} \ {0})
  /\ UNCHANGED <<txs, raced>>

LEMMA CommitRows ==
  ASSUME Typed, RowsOK, NEW own, IsOwn(own), NEW p \in Ids \cup {0}, OwnOK(own, p),
         p # 0 => IsRent(p) /\ Covers(own, p), Commits(own, p)
  PROVE  /\ row' \in [Ids -> [Investors -> Rows]] /\ indexed' \subseteq DOMAIN txs'
         /\ RowsOK' /\ RowsGrow /\ TxsStay /\ Calm
         /\ \A d \in Ids, w \in Investors : row'[d][w].amount >= SeenBy(own, d, w).amount
<1>1. row' = Committed(own) /\ indexed' = indexed \cup ({p} \ {0}) /\ txs' = txs /\ raced' = raced
  BY DEF Commits
<1>2. ASSUME NEW d \in Ids, NEW w \in Investors
      PROVE  /\ row'[d][w] = IF <<d, w>> \notin DOMAIN own THEN row[d][w]
                  ELSE IF row[d][w].status # "none" /\ own[<<d, w>>].amount <= row[d][w].amount
                  THEN row[d][w] ELSE own[<<d, w>>]
             /\ row[d][w] \in Rows /\ row[d][w].amount \in Nat
             /\ row'[d][w] \in Rows
             /\ <<d, w>> \in DOMAIN own => own[<<d, w>>].amount \in Nat
  <2>1. row'[d][w] = IF <<d, w>> \notin DOMAIN own THEN row[d][w]
                  ELSE IF row[d][w].status # "none" /\ own[<<d, w>>].amount <= row[d][w].amount
                  THEN row[d][w] ELSE own[<<d, w>>]
    BY <1>1 DEF Committed
  <2>2. row[d][w] \in Rows /\ (<<d, w>> \in DOMAIN own => own[<<d, w>>] \in Rows)
    BY DEF Typed, IsOwn
  <2>3. QED
    BY <2>1, <2>2 DEF Rows
<1>3. row' \in [Ids -> [Investors -> Rows]]
  <2>1. \A d \in Ids, w \in Investors : row'[d][w] \in Rows
    BY <1>2
  <2>2. row' = [d \in Ids |-> [w \in Investors |-> row'[d][w]]]
    BY <1>1 DEF Committed
  <2>3. QED
    BY <2>1, <2>2
<1>4. indexed' \subseteq DOMAIN txs'
  BY <1>1 DEF Typed, IsRent
<1>5. TxsStay
  BY <1>1 DEF TxsStay
<1>6. Calm
  <2>1. ASSUME NEW t \in indexed', IsClaim(t)', t \notin raced' PROVE t \in indexed \ raced
    <3>1. IsClaim(t)
      BY <1>1, <2>1 DEF IsClaim
    <3>2. t # p \/ p = 0
      BY <3>1 DEF IsClaim, IsRent
    <3>3. t \in indexed
      BY <1>1, <2>1, <3>2
    <3>4. QED
      BY <1>1, <2>1, <3>3
  <2>2. QED
    BY <1>1, <2>1 DEF Calm
<1>7. ASSUME NEW d \in Ids, NEW w \in Investors
      PROVE  /\ row'[d][w].amount >= row[d][w].amount
             /\ row'[d][w].amount >= SeenBy(own, d, w).amount
  <2>1. CASE <<d, w>> \notin DOMAIN own
    <3>1. row'[d][w] = row[d][w] /\ SeenBy(own, d, w) = row[d][w]
      BY <1>2, <2>1 DEF SeenBy
    <3>2. row[d][w].amount \in Nat
      BY <1>2
    <3>3. QED
      BY <3>1, <3>2
  <2>2. CASE <<d, w>> \in DOMAIN own
    <3>1. SeenBy(own, d, w) = own[<<d, w>>]
      BY <2>2 DEF SeenBy
    <3>2. row[d][w].status = "none" => row[d][w].amount = 0
      BY DEF RowsOK
    <3>3. own[<<d, w>>].amount \in Nat /\ row[d][w].amount \in Nat
      BY <1>2, <2>2
    <3>4. CASE row[d][w].status # "none" /\ own[<<d, w>>].amount <= row[d][w].amount
      <4>1. row'[d][w] = row[d][w]
        BY <1>2, <2>2, <3>4
      <4>2. QED
        BY <3>1, <3>3, <3>4, <4>1
    <3>5. CASE ~(row[d][w].status # "none" /\ own[<<d, w>>].amount <= row[d][w].amount)
      <4>1. row'[d][w] = own[<<d, w>>]
        BY <1>2, <2>2, <3>5
      <4>2. QED
        BY <3>1, <3>2, <3>3, <3>5, <4>1
    <3>6. QED
      BY <3>4, <3>5
  <2>3. QED
    BY <2>1, <2>2
<1>8. RowsGrow
  BY <1>7 DEF RowsGrow
<1>9. ASSUME NEW d \in Ids, NEW w \in Investors
      PROVE  /\ row'[d][w].status = "none" => row'[d][w].amount = 0
             /\ row'[d][w].status # "none" => d \in indexed'
             /\ d \in indexed' /\ IsRent(d)' => /\ row'[d][w].amount >= txs'[d].pay[w]
                                                /\ Settled(row[d][w], d, w)'
  <2>1. IsRent(d)' <=> IsRent(d)
    BY <1>1 DEF IsRent
  <2>2. IsRent(d) => txs[d].pay[w] \in Nat
    BY PayTyped
  <2>3. /\ row[d][w].status = "none" => row[d][w].amount = 0
        /\ row[d][w].status # "none" => d \in indexed
        /\ d \in indexed /\ IsRent(d) => /\ row[d][w].amount >= txs[d].pay[w]
                                         /\ Settled(row[d][w], d, w)
    BY DEF RowsOK
  <2>4. <<d, w>> \in DOMAIN own =>
           /\ IsRent(d) /\ d \in indexed \cup {p}
           /\ own[<<d, w>>].status # "none" /\ own[<<d, w>>].amount >= txs[d].pay[w]
           /\ Settled(own[<<d, w>>], d, w)
    BY DEF OwnOK
  <2>5. \A t \in indexed' : IsClaim(t)' /\ t \notin raced' => t \in indexed \ raced
    BY <1>6 DEF Calm
  <2>6. row'[d][w] = row[d][w] \/ (<<d, w>> \in DOMAIN own /\ row'[d][w] = own[<<d, w>>])
    BY <1>2
  <2>7. row'[d][w].status = "none" => row'[d][w].amount = 0
    BY <2>3, <2>4, <2>6
  <2>8. p # 0 => p \in indexed'
    BY <1>1
  <2>9. d \in Ids => d # 0
    BY DEF Ids
  <2>10. row'[d][w].status # "none" => d \in indexed'
    BY <1>1, <2>3, <2>4, <2>6, <2>8, <2>9
  <2>11. ASSUME d \in indexed', IsRent(d)
         PROVE  row'[d][w].amount >= txs'[d].pay[w] /\ Settled(row[d][w], d, w)'
    <3>1. CASE d \in indexed
      <4>1. PICK r : r = row'[d][w]
        OBVIOUS
      <4>2. Settled(r, d, w) /\ r.amount >= txs[d].pay[w]
        BY <2>3, <2>4, <2>6, <2>11, <3>1, <4>1
      <4>3. Settled(r, d, w)'
        BY <1>5, <2>5, <2>11, <4>2, SettledStays
      <4>4. QED
        BY <1>1, <4>1, <4>2, <4>3 DEF Settled
    <3>2. CASE d \notin indexed
      <4>1. d = p /\ p # 0
        BY <1>1, <2>11, <3>2
      <4>2. SeenBy(own, d, w).amount >= txs[d].pay[w]
        BY <4>1 DEF Covers
      <4>3. row[d][w].status = "none" /\ row[d][w].amount = 0
        BY <2>3, <3>2
      <4>4. CASE <<d, w>> \in DOMAIN own
        <5>1. PICK r : r = row'[d][w]
          OBVIOUS
        <5>2. r = own[<<d, w>>]
          BY <1>2, <4>3, <4>4, <5>1
        <5>3. Settled(r, d, w) /\ r.amount >= txs[d].pay[w]
          BY <2>4, <4>4, <5>2
        <5>4. Settled(r, d, w)'
          BY <1>5, <2>5, <2>11, <5>3, SettledStays
        <5>5. QED
          BY <1>1, <5>1, <5>3, <5>4 DEF Settled
      <4>5. CASE <<d, w>> \notin DOMAIN own
        <5>1. row'[d][w] = row[d][w] /\ SeenBy(own, d, w) = row[d][w]
          BY <1>2, <4>5 DEF SeenBy
        <5>2. 0 >= txs[d].pay[w] /\ row'[d][w].amount = 0
          BY <4>2, <4>3, <5>1
        <5>3. QED
          BY <1>1, <5>2 DEF Settled
      <4>6. QED
        BY <4>4, <4>5
    <3>3. QED
      BY <3>1, <3>2
  <2>12. QED
    BY <2>1, <2>7, <2>10, <2>11
<1>10. RowsOK'
  BY <1>9 DEF RowsOK
<1>11. QED
  BY <1>3, <1>4, <1>5, <1>6, <1>7, <1>8, <1>10
-------------------------------------------------------------------------------
(* Steps that leave the rows alone *)
LEMMA RowsStay ==
  ASSUME Typed, RowsOK, TxsStay, Calm, row' = row, indexed' = indexed
  PROVE  RowsOK' /\ RowsGrow
<1>1. RowsGrow
  <2>1. ASSUME NEW d \in Ids, NEW w \in Investors PROVE row[d][w].amount >= row[d][w].amount
    <3>1. row[d][w] \in Rows
      BY DEF Typed
    <3>2. row[d][w].amount \in Nat
      BY <3>1 DEF Rows
    <3>3. QED
      BY <3>2
  <2>2. QED
    BY <2>1 DEF RowsGrow
<1>2. ASSUME NEW d \in Ids, NEW w \in Investors
      PROVE  /\ row'[d][w].status = "none" => row'[d][w].amount = 0
             /\ row'[d][w].status # "none" => d \in indexed'
             /\ d \in indexed' /\ IsRent(d)' => /\ row'[d][w].amount >= txs'[d].pay[w]
                                                /\ Settled(row[d][w], d, w)'
  <2>1. /\ row[d][w].status = "none" => row[d][w].amount = 0
        /\ row[d][w].status # "none" => d \in indexed
        /\ d \in indexed /\ IsRent(d) => /\ row[d][w].amount >= txs[d].pay[w]
                                         /\ Settled(row[d][w], d, w)
    BY DEF RowsOK
  <2>2. ASSUME d \in indexed, IsRent(d)'
        PROVE  row'[d][w].amount >= txs'[d].pay[w] /\ Settled(row[d][w], d, w)'
    <3>1. d \in DOMAIN txs /\ txs'[d] = txs[d]
      BY <2>2 DEF Typed, TxsStay
    <3>2. IsRent(d)
      BY <2>2, <3>1 DEF IsRent
    <3>3. PICK r : r = row[d][w]
      OBVIOUS
    <3>4. Settled(r, d, w)
      BY <2>1, <2>2, <3>2, <3>3
    <3>5. \A t \in indexed' : IsClaim(t)' /\ t \notin raced' => t \in indexed \ raced
      BY DEF Calm
    <3>6. Settled(r, d, w)'
      BY <3>2, <3>4, <3>5, SettledStays
    <3>7. row'[d][w] = r
      BY <3>3
    <3>8. QED
      BY <2>1, <2>2, <3>1, <3>2, <3>6, <3>7 DEF Settled
  <2>3. QED
    BY <2>1, <2>2
<1>3. QED
  BY <1>1, <1>2 DEF RowsOK

LEMMA ChainStepKeeps ==
  ASSUME YieldInv, Typed', TxsStay, UNCHANGED <<req, row, indexed, raced>>
  PROVE  YieldInv'
<1>1. Calm
  <2>1. ASSUME NEW t \in indexed, IsClaim(t)' PROVE IsClaim(t)
    BY <2>1 DEF YieldInv, Typed, TxsStay, IsClaim
  <2>2. QED
    BY <2>1 DEF Calm
<1>2. RowsOK' /\ RowsGrow
  BY <1>1, RowsStay DEF YieldInv
<1>3. ASSUME NEW h \in Handlers PROVE RequestOK(h)'
  BY <1>1, <1>2, RequestStays DEF YieldInv
<1>4. QED
  BY <1>2, <1>3 DEF YieldInv

LEMMA ReqTyped ==
  ASSUME Typed, NEW h \in Handlers, NEW r, IsRequest(r), req' = [req EXCEPT ![h] = r]
  PROVE  /\ req' = [g \in Handlers |-> req'[g]] /\ req'[h] = r
         /\ \A g \in Handlers : g # h => req'[g] = req[g]
         /\ \A g \in Handlers : IsRequest(req[g])'
<1>1. req = [g \in Handlers |-> req[g]] /\ \A g \in Handlers : IsRequest(req[g])
  BY DEF Typed
<1>2. /\ req' = [g \in Handlers |-> req'[g]] /\ req'[h] = r
      /\ \A g \in Handlers : g # h => req'[g] = req[g]
  BY <1>1
<1>3. ASSUME NEW g \in Handlers PROVE IsRequest(req[g])'
  <2>1. req'[g] = r \/ req'[g] = req[g]
    BY <1>2
  <2>2. QED
    BY <1>1, <2>1 DEF IsRequest, IsOwn
<1>4. QED
  BY <1>2, <1>3

(* A step in which a request goes on, to a next stage or not *)
LEMMA RequestGoesOn ==
  ASSUME YieldInv, NEW h \in Handlers, NEW r, IsRequest(r), req' = [req EXCEPT ![h] = r],
         r.kind = req[h].kind, r.pay = req[h].pay, r.stage \in Stages \ {"off", "handle"},
         OwnOK(r.own, r.pay), TodoOK(r), r.pay # 0 => Covers(r.own, r.pay),
         r.stage \in {"rows", "accrue"} => r.pay # 0,
         claimable' \in [Investors -> Nat], credit' \in [Ids -> [Investors -> Nat]],
         listed' \subseteq Investors,
         UNCHANGED <<bal, most, eth, txs, known, indexed, row, raced>>
  PROVE  YieldInv'
<1>1. RequestOK(h) /\ Typed /\ RowsOK
  BY DEF YieldInv
<1>2. /\ req' = [g \in Handlers |-> req'[g]] /\ req'[h] = r
      /\ \A g \in Handlers : g # h => req'[g] = req[g]
      /\ \A g \in Handlers : IsRequest(req[g])'
  BY <1>1, ReqTyped
<1>3. Typed'
  BY <1>1, <1>2 DEF Typed
<1>4. TxsStay /\ Calm
  BY DEF TxsStay, Calm, IsClaim
<1>5. RowsOK' /\ RowsGrow
  BY <1>1, <1>4, RowsStay
<1>6. RequestOK(h)'
  <2>1. r.pay # 0 => IsRent(r.pay)
    BY <1>1 DEF RequestOK
  <2>2. r.kind = "confirm" \/ r.stage \in {"handle", "rows", "accrue"} => r.pay # 0
    BY <1>1 DEF RequestOK
  <2>3. QED
    BY <1>2, <2>1, <2>2, RequestWritten
<1>7. ASSUME NEW g \in Handlers, g # h PROVE RequestOK(g)'
  <2>1. RequestOK(g) /\ req'[g] = req[g]
    BY <1>2, <1>7 DEF YieldInv
  <2>2. indexed \subseteq indexed'
    OBVIOUS
  <2>3. QED
    BY <1>1, <1>3, <1>4, <1>5, <2>1, <2>2, RequestStays
<1>8. QED
  BY <1>3, <1>5, <1>6, <1>7 DEF YieldInv
-------------------------------------------------------------------------------
(* The chain *)
LEMMA IdsFinite == IsFiniteSet(Ids)
<1>1. MaxTxs \in Nat /\ 1 \in Int
  BY YieldAssumption
<1>2. QED
  BY <1>1, FS_Interval DEF Ids

(* Balances of w and v after one token came in and went out *)
LEMMA BalanceUp ==
  ASSUME NEW b \in [Investors -> Nat], NEW w \in Investors
  PROVE  /\ [b EXCEPT ![w] = @ + 1] \in [Investors -> Nat]
         /\ SumFunction([b EXCEPT ![w] = @ + 1]) = SumFunction(b) + 1
         /\ \A v \in Investors : b[v] <= [b EXCEPT ![w] = @ + 1][v]
<1>1. IsFiniteSet(Investors) /\ b \in [Investors -> Int] /\ 1 \in Int
  BY YieldAssumption
<1>2. [b EXCEPT ![w] = @ + 1] = [b EXCEPT ![w] = b[w] + 1]
  OBVIOUS
<1>3. SumFunction([b EXCEPT ![w] = b[w] + 1]) = SumFunction(b) + 1
  BY <1>1, SumUpdate, ZenonT(60)
<1>4. [b EXCEPT ![w] = @ + 1] \in [Investors -> Nat]
  OBVIOUS
<1>5. QED
  BY <1>2, <1>3, <1>4

(* The most that was held keeps up with the balances *)
LEMMA MostUp ==
  ASSUME Typed, bal' \in [Investors -> Nat], NotesMost
  PROVE  /\ most' \in [Investors -> Nat] /\ \A w \in Investors : bal'[w] <= most'[w]
         /\ \A w \in Investors : most[w] <= most'[w]
  BY DEF Typed, NotesMost

LEMMA BuyKeeps ==
  ASSUME YieldInv, NEW w \in Investors, Buy(w)
  PROVE  YieldInv'
<1>1. /\ bal' = [bal EXCEPT ![w] = @ + 1] /\ SumFunction(bal) < Supply
      /\ NotesMost /\ UNCHANGED <<listed, claimable, eth, txs, credit, db, req, left, raced>>
  BY DEF Buy, HasInventory
<1>2. bal \in [Investors -> Nat] /\ Typed
  BY DEF YieldInv, Typed
<1>3. bal' \in [Investors -> Nat] /\ SumFunction(bal') = SumFunction(bal) + 1
  BY <1>1, <1>2, BalanceUp
<1>4. SumFunction(bal) \in Nat /\ Supply \in Nat
  BY <1>2, SumNat, YieldAssumption
<1>5. SumFunction(bal') <= Supply
  BY <1>1, <1>3, <1>4
<1>6. Typed'
  <2>1. most' \in [Investors -> Nat] /\ \A v \in Investors : bal'[v] <= most'[v]
    BY <1>1, <1>2, <1>3, MostUp
  <2>2. QED
    BY <1>1, <1>2, <1>3, <1>5, <2>1 DEF Typed, db, IsRequest, IsOwn
<1>7. TxsStay
  BY <1>1 DEF TxsStay
<1>8. UNCHANGED <<req, row, indexed, raced>>
  BY <1>1 DEF db
<1>9. QED
  BY <1>6, <1>7, <1>8, ChainStepKeeps

LEMMA TransferKeeps ==
  ASSUME YieldInv, NEW v \in Investors, NEW w \in Investors, Transfer(v, w)
  PROVE  YieldInv'
<1>1. /\ v # w /\ bal[v] > 0 /\ bal' = [bal EXCEPT ![v] = @ - 1, ![w] = @ + 1]
      /\ NotesMost /\ UNCHANGED <<listed, claimable, eth, txs, credit, db, req, raced>>
  BY DEF Transfer
<1>2. bal \in [Investors -> Nat] /\ SumFunction(bal) <= Supply /\ Typed
  BY DEF YieldInv, Typed
<1> DEFINE b == [bal EXCEPT ![v] = bal[v] + (-1)]
<1>3. b \in [Investors -> Nat]
  BY <1>1, <1>2
<1>4. SumFunction(b) = SumFunction(bal) + (-1)
  <2>1. IsFiniteSet(Investors) /\ bal \in [Investors -> Int] /\ -1 \in Int
    BY <1>2, YieldAssumption
  <2>2. QED
    BY <2>1, SumUpdate
<1>5. bal' = [b EXCEPT ![w] = @ + 1]
  BY <1>1, <1>2
<1> HIDE DEF b
<1>6. bal' \in [Investors -> Nat] /\ SumFunction(bal') = SumFunction(b) + 1
  BY <1>3, <1>5, BalanceUp
<1>7. SumFunction(bal) \in Nat
  BY <1>2, SumNat, YieldAssumption
<1>8. SumFunction(bal') <= Supply
  BY <1>2, <1>4, <1>6, <1>7
<1>9. Typed'
  <2>1. most' \in [Investors -> Nat] /\ \A u \in Investors : bal'[u] <= most'[u]
    BY <1>1, <1>2, <1>6, MostUp
  <2>2. QED
    BY <1>1, <1>2, <1>6, <1>8, <2>1 DEF Typed, db, IsRequest, IsOwn
<1>10. TxsStay
  BY <1>1 DEF TxsStay
<1>11. UNCHANGED <<req, row, indexed, raced>>
  BY <1>1 DEF db
<1>12. QED
  BY <1>9, <1>10, <1>11, ChainStepKeeps

(* A transaction is mined *)
LEMMA Mined ==
  ASSUME Typed, NEW t \in Txs, Len(txs) + 1 \in Ids, txs' = Append(txs, t)
  PROVE  /\ txs' \in Seq(Txs) /\ Len(txs') <= MaxTxs /\ indexed \subseteq DOMAIN txs'
         /\ TxsStay /\ DOMAIN txs' = DOMAIN txs \cup {Len(txs) + 1}
         /\ txs'[Len(txs) + 1] = t /\ Len(txs) + 1 \notin DOMAIN txs
<1>1. txs \in Seq(Txs) /\ Len(txs) \in Nat /\ DOMAIN txs = 1 .. Len(txs) /\ indexed \subseteq DOMAIN txs
  BY DEF Typed
<1>2. /\ txs' \in Seq(Txs) /\ Len(txs') = Len(txs) + 1 /\ DOMAIN txs' = 1 .. Len(txs) + 1
      /\ \A i \in 1 .. Len(txs) : txs'[i] = txs[i]
      /\ txs'[Len(txs) + 1] = t
  BY <1>1, AppendProperties
<1>3. Len(txs') <= MaxTxs
  BY <1>1, <1>2, YieldAssumption DEF Ids
<1>4. TxsStay
  BY <1>1, <1>2 DEF TxsStay
<1>5. DOMAIN txs' = DOMAIN txs \cup {Len(txs) + 1} /\ Len(txs) + 1 \notin DOMAIN txs
  BY <1>1, <1>2
<1>6. QED
  BY <1>1, <1>2, <1>3, <1>4, <1>5

LEMMA PayRentKeeps ==
  ASSUME YieldInv, PayRent
  PROVE  YieldInv'
<1> DEFINE pay == [w \in Investors |-> IF w \in listed THEN Share(bal, w) ELSE 0]
           t == [kind |-> "rent", pay |-> pay]
           d == Len(txs) + 1
<1>1. /\ d \in Ids /\ txs' = Append(txs, t)
      /\ claimable' = [w \in Investors |-> claimable[w] + pay[w]]
      /\ credit' = [credit EXCEPT ![d] = pay] /\ eth' = eth + Rent
      /\ UNCHANGED <<bal, most, listed, db, req, left, raced>>
  BY DEF PayRent
<1>2. Typed
  BY DEF YieldInv
<1>3. pay \in [Investors -> Nat]
  <2>1. \A w \in Investors : Share(bal, w) \in Nat
    BY <1>2, ShareNat
  <2>2. QED
    BY <2>1
<1> HIDE DEF pay
<1>4. t \in Txs
  BY <1>3 DEF Txs
<1> HIDE DEF t
<1>5. txs' \in Seq(Txs) /\ Len(txs') <= MaxTxs /\ indexed \subseteq DOMAIN txs' /\ TxsStay
  BY <1>1, <1>2, <1>4, Mined
<1>6. claimable' \in [Investors -> Nat] /\ credit' \in [Ids -> [Investors -> Nat]] /\ eth' \in Nat
  <2>1. claimable \in [Investors -> Nat] /\ credit \in [Ids -> [Investors -> Nat]] /\ eth \in Nat
    BY <1>2 DEF Typed
  <2>2. QED
    BY <1>1, <1>3, <2>1, YieldAssumption
<1>7. Typed'
  BY <1>1, <1>2, <1>5, <1>6 DEF Typed, db, IsRequest, IsOwn
<1>8. UNCHANGED <<req, row, indexed, raced>>
  BY <1>1 DEF db
<1>9. QED
  BY <1>5, <1>7, <1>8, ChainStepKeeps

LEMMA ClaimKeeps ==
  ASSUME YieldInv, NEW w \in Investors, Claim(w)
  PROVE  YieldInv'
<1> DEFINE t == [kind |-> "claim", who |-> w]
           d == Len(txs) + 1
<1>1. /\ eth >= claimable[w] /\ d \in Ids /\ txs' = Append(txs, t)
      /\ claimable' = [claimable EXCEPT ![w] = 0] /\ eth' = eth - claimable[w]
      /\ UNCHANGED <<bal, most, listed, credit, db, req, left, raced>>
  BY DEF Claim
<1>2. Typed
  BY DEF YieldInv
<1>3. t \in Txs
  BY DEF Txs
<1> HIDE DEF t
<1>4. txs' \in Seq(Txs) /\ Len(txs') <= MaxTxs /\ indexed \subseteq DOMAIN txs' /\ TxsStay
  BY <1>1, <1>2, <1>3, Mined
<1>5. claimable' \in [Investors -> Nat] /\ eth' \in Nat
  <2>1. claimable \in [Investors -> Nat] /\ eth \in Nat
    BY <1>2 DEF Typed
  <2>2. QED
    BY <1>1, <2>1
<1>6. Typed'
  BY <1>1, <1>2, <1>4, <1>5 DEF Typed, db, IsRequest, IsOwn
<1>7. UNCHANGED <<req, row, indexed, raced>>
  BY <1>1 DEF db
<1>8. QED
  BY <1>4, <1>6, <1>7, ChainStepKeeps
-------------------------------------------------------------------------------
(* The tables *)
LEMMA NothingOwned == ASSUME NEW p PROVE OwnOK(Idle.own, p)
  BY IdleTyped DEF OwnOK

(* A commit, after which every request goes on or is over *)
LEMMA CommitKeeps ==
  ASSUME YieldInv, NEW own, IsOwn(own), NEW p \in Ids \cup {0}, OwnOK(own, p),
         p # 0 => IsRent(p) /\ Covers(own, p), Commits(own, p),
         UNCHANGED <<chain, known>>, req' = [h \in Handlers |-> req'[h]],
         \A h \in Handlers : req'[h] = req[h] \/ req'[h] = Idle
  PROVE  YieldInv'
<1>1. /\ row' \in [Ids -> [Investors -> Rows]] /\ indexed' \subseteq DOMAIN txs'
      /\ RowsOK' /\ RowsGrow /\ TxsStay /\ Calm
  BY CommitRows DEF YieldInv
<1>2. ASSUME NEW h \in Handlers PROVE IsRequest(req[h])'
  <2>1. IsRequest(req[h]) /\ IsRequest(Idle)
    BY IdleTyped DEF YieldInv, Typed
  <2>2. req'[h] = req[h] \/ req'[h] = Idle
    OBVIOUS
  <2>3. QED
    BY <2>1, <2>2 DEF IsRequest, IsOwn
<1>3. Typed'
  BY <1>1, <1>2 DEF YieldInv, Typed, chain
<1>4. ASSUME NEW h \in Handlers PROVE RequestOK(h)'
  <2>1. CASE req'[h] = Idle
    BY <2>1, IdleKeeps
  <2>2. CASE req'[h] = req[h]
    <3>1. indexed \subseteq indexed' /\ Typed /\ RequestOK(h)
      BY DEF YieldInv, Commits
    <3>2. QED
      BY <1>1, <1>3, <2>2, <3>1, RequestStays
  <2>3. QED
    BY <2>1, <2>2
<1>5. QED
  BY <1>1, <1>3, <1>4 DEF YieldInv

LEMMA IndexRentKeeps ==
  ASSUME YieldInv, NEW t \in Ids, IndexRent(t)
  PROVE  YieldInv'
<1> DEFINE n == RentRows(Idle.own, t)
<1>1. /\ IsRent(t) /\ row' = Committed(n) /\ indexed' = indexed \cup {t}
      /\ UNCHANGED <<chain, known, req, left, raced>>
  BY DEF IndexRent
<1>2. IsOwn(Idle.own) /\ OwnOK(Idle.own, t) /\ Typed /\ RowsOK
  BY IdleTyped, NothingOwned DEF YieldInv
<1>3. t \in indexed \cup {t} /\ t # 0 /\ t \in Ids \cup {0}
  BY DEF Ids
<1>4. IsOwn(n) /\ OwnOK(n, t) /\ Covers(n, t)
  BY <1>1, <1>2, <1>3, RentRowsKeepsOwn
<1> HIDE DEF n
<1>5. Commits(n, t)
  BY <1>1, <1>3 DEF Commits, chain
<1>6. req' = [h \in Handlers |-> req'[h]]
  BY <1>1, <1>2 DEF Typed
<1>7. UNCHANGED <<chain, known>> /\ \A h \in Handlers : req'[h] = req[h]
  BY <1>1
<1>8. QED
  BY <1>1, <1>3, <1>4, <1>5, <1>6, <1>7, CommitKeeps

LEMMA IndexClaimKeeps ==
  ASSUME YieldInv, NEW t \in Ids, IndexClaim(t)
  PROVE  YieldInv'
<1> DEFINE claimed(d, w) == w = txs[t].who /\ Precedes(d, t) /\ row[d][w].status = "claimable"
<1>1. /\ IsClaim(t) /\ indexed' = indexed \cup {t}
      /\ row' = [d \in Ids |-> [w \in Investors |->
                   IF claimed(d, w) THEN [row[d][w] EXCEPT !.status = "claimed"] ELSE row[d][w]]]
      /\ raced' = IF \E h \in Handlers : req[h].own # Idle.own THEN raced \cup {t} ELSE raced \ {t}
      /\ UNCHANGED <<chain, known, req>>
  BY DEF IndexClaim
<1>2. Typed /\ RowsOK
  BY DEF YieldInv
<1>3. txs' = txs /\ TxsStay
  BY <1>1 DEF chain, TxsStay
<1>4. ASSUME NEW d \in Ids, NEW w \in Investors
      PROVE  /\ row'[d][w] \in Rows /\ row[d][w].amount \in Nat
             /\ row'[d][w].amount = row[d][w].amount
             /\ row'[d][w].status = "none" <=> row[d][w].status = "none"
             /\ row'[d][w].status # "claimed" => row[d][w].status # "claimed"
             /\ txs[t].who = w /\ d < t => row'[d][w].status \in {"none", "claimed"}
  <2>1. row[d][w] \in Rows
    BY <1>2 DEF Typed
  <2>2. row'[d][w] = IF claimed(d, w) THEN [row[d][w] EXCEPT !.status = "claimed"] ELSE row[d][w]
    BY <1>1
  <2>3. CASE claimed(d, w)
    BY <2>1, <2>2, <2>3 DEF Rows, Statuses
  <2>4. CASE ~claimed(d, w)
    <3>1. row'[d][w] = row[d][w]
      BY <2>2, <2>4
    <3>2. row[d][w].status \in {"none", "claimable", "claimed"} /\ row[d][w].amount \in Nat
      BY <2>1 DEF Rows, Statuses
    <3>3. txs[t].who = w /\ d < t => row[d][w].status # "claimable"
      BY <2>4 DEF Precedes, Ids
    <3>4. QED
      BY <2>1, <3>1, <3>2, <3>3
  <2>5. QED
    BY <2>3, <2>4
<1>5. row' \in [Ids -> [Investors -> Rows]]
  <2>1. \A d \in Ids, w \in Investors : row'[d][w] \in Rows
    BY <1>4
  <2>2. row' = [d \in Ids |-> [w \in Investors |-> row'[d][w]]]
    BY <1>1
  <2>3. QED
    BY <2>1, <2>2
<1>6. indexed' \subseteq DOMAIN txs'
  BY <1>1, <1>2, <1>3 DEF Typed, IsClaim
<1>7. Typed'
  BY <1>1, <1>2, <1>3, <1>5, <1>6 DEF Typed, chain, IsRequest, IsOwn
<1>8. RowsGrow
  <2>1. ASSUME NEW d \in Ids, NEW w \in Investors PROVE row'[d][w].amount >= row[d][w].amount
    <3>1. row'[d][w].amount = row[d][w].amount /\ row[d][w].amount \in Nat
      BY <1>4
    <3>2. QED
      BY <3>1
  <2>2. QED
    BY <2>1 DEF RowsGrow
<1>9. ASSUME NEW d \in Ids, NEW w \in Investors
      PROVE  /\ row'[d][w].status = "none" => row'[d][w].amount = 0
             /\ row'[d][w].status # "none" => d \in indexed'
             /\ d \in indexed' /\ IsRent(d)' => /\ row'[d][w].amount >= txs'[d].pay[w]
                                                /\ Settled(row[d][w], d, w)'
  <2>1. /\ row[d][w].status = "none" => row[d][w].amount = 0
        /\ row[d][w].status # "none" => d \in indexed
        /\ d \in indexed /\ IsRent(d) => /\ row[d][w].amount >= txs[d].pay[w]
                                         /\ Settled(row[d][w], d, w)
    BY <1>2 DEF RowsOK
  <2>2. /\ row'[d][w].amount = row[d][w].amount
        /\ row'[d][w].status = "none" <=> row[d][w].status = "none"
        /\ row'[d][w].status # "claimed" => row[d][w].status # "claimed"
        /\ txs[t].who = w /\ d < t => row'[d][w].status \in {"none", "claimed"}
    BY <1>4
  <2>3. ASSUME d \in indexed', IsRent(d)'
        PROVE  row'[d][w].amount >= txs'[d].pay[w] /\ Settled(row[d][w], d, w)'
    <3>1. IsRent(d) /\ d # t
      BY <1>1, <1>3, <2>3 DEF IsRent, IsClaim
    <3>2. d \in indexed
      BY <1>1, <2>3, <3>1
    <3>3. ASSUME row'[d][w].amount = txs'[d].pay[w], row'[d][w].amount > 0,
                 row'[d][w].status # "claimed",
                 NEW s \in indexed', IsClaim(s)', d < s, txs'[s].who = w
          PROVE  s \in raced'
      <4>1. row[d][w].amount = txs[d].pay[w] /\ row[d][w].amount > 0 /\ row[d][w].status # "claimed"
        BY <1>3, <2>2, <3>3
      <4>2. row'[d][w].status # "none"
        <5>1. row[d][w].amount \in Nat
          BY <1>4
        <5>2. QED
          BY <2>1, <2>2, <4>1, <5>1
      <4>3. s # t
        BY <1>3, <2>2, <3>3, <4>2
      <4>4. s \in indexed /\ IsClaim(s) /\ txs[s].who = w
        BY <1>1, <1>3, <3>3, <4>3 DEF IsClaim
      <4>5. s \in raced
        BY <2>1, <3>1, <3>2, <3>3, <4>1, <4>4 DEF Settled
      <4>6. QED
        BY <1>1, <4>3, <4>5
    <3>4. QED
      BY <1>3, <2>1, <2>2, <3>1, <3>2, <3>3 DEF Settled
  <2>4. QED
    BY <1>1, <2>1, <2>2, <2>3
<1>10. RowsOK'
  BY <1>9 DEF RowsOK
<1>11. Calm \/ \A h \in Handlers : DOMAIN req[h].own = {}
  <2>1. CASE \E h \in Handlers : req[h].own # Idle.own
    <3>1. raced' = raced \cup {t}
      BY <1>1, <2>1
    <3>2. \A s \in indexed' : IsClaim(s)' => IsClaim(s)
      BY <1>3 DEF IsClaim
    <3>3. Calm
      BY <1>1, <3>1, <3>2 DEF Calm
    <3>4. QED
      BY <3>3
  <2>2. CASE \A h \in Handlers : req[h].own = Idle.own
    BY <2>2, IdleTyped
  <2>3. QED
    BY <2>1, <2>2
<1>12. ASSUME NEW h \in Handlers PROVE RequestOK(h)'
  <2>1. RequestOK(h) /\ req'[h] = req[h] /\ indexed \subseteq indexed'
    BY <1>1 DEF YieldInv
  <2>2. Calm \/ DOMAIN req[h].own = {}
    BY <1>11
  <2>3. QED
    BY <1>2, <1>3, <1>7, <1>8, <2>1, <2>2, RequestStays
<1>13. QED
  BY <1>7, <1>10, <1>12 DEF YieldInv

LEMMA IndexHolderKeeps ==
  ASSUME YieldInv, NEW w \in Investors, IndexHolder(w)
  PROVE  YieldInv'
<1>1. known' \subseteq Investors /\ UNCHANGED <<chain, indexed, row, req, left, raced>>
  BY DEF IndexHolder, YieldInv, Typed
<1>2. Typed'
  BY <1>1 DEF YieldInv, Typed, chain, IsRequest, IsOwn
<1>3. TxsStay /\ UNCHANGED <<req, row, indexed, raced>>
  BY <1>1 DEF TxsStay, chain
<1>4. QED
  BY <1>2, <1>3, ChainStepKeeps
-------------------------------------------------------------------------------
(* Requests that begin and end *)
LEMMA StartKeeps ==
  ASSUME YieldInv, NEW h \in Handlers, NEW kind \in Kinds, NEW d \in Ids \cup {0},
         Start(h, kind, d)
  PROVE  YieldInv'
<1> DEFINE stage == IF kind = "confirm" THEN "handle" ELSE "read"
           r == [Idle EXCEPT !.kind = kind, !.pay = d, !.stage = stage]
<1>1. /\ IF kind = "confirm" THEN IsRent(d) ELSE d = 0
      /\ req' = [req EXCEPT ![h] = r] /\ UNCHANGED <<chain, db, raced>>
  BY DEF Start
<1>2. stage \in {"handle", "read"} /\ (d # 0 => IsRent(d) /\ stage = "handle")
  BY <1>1
<1>3. kind = "confirm" \/ stage = "handle" => d # 0
  <2>1. IsRent(d) => d # 0
    BY PayTyped DEF YieldInv
  <2>2. QED
    BY <1>1, <2>1
<1> HIDE DEF stage
<1>4. /\ r = [f \in Fields |-> r[f]]
      /\ r.kind = kind /\ r.stage = stage /\ r.pay = d /\ r.new = Idle.new
      /\ r.own = Idle.own /\ r.todo = Idle.todo /\ r.sent = Idle.sent
  <2>1. Idle = [f \in Fields |-> Idle[f]]
    BY IdleTyped DEF IsRequest
  <2> DEFINE i == Idle
  <2> HIDE DEF i
  <2>2. i = [f \in Fields |-> i[f]]
    BY <2>1 DEF i
  <2> DEFINE q == [i EXCEPT !.kind = kind, !.pay = d, !.stage = stage]
  <2>3. /\ q = [f \in Fields |-> q[f]]
        /\ q.kind = kind /\ q.stage = stage /\ q.pay = d /\ q.new = i.new
        /\ q.own = i.own /\ q.todo = i.todo /\ q.sent = i.sent
    BY <2>2 DEF Fields
  <2>4. QED
    BY <2>3 DEF i
<1> HIDE DEF r
<1>5. IsRequest(r)
  BY <1>2, <1>4, IdleTyped DEF IsRequest, Stages
<1>6. Typed /\ RowsOK
  BY DEF YieldInv
<1>7. /\ req' = [g \in Handlers |-> req'[g]] /\ req'[h] = r
      /\ \A g \in Handlers : g # h => req'[g] = req[g]
      /\ \A g \in Handlers : IsRequest(req[g])'
  BY <1>1, <1>5, <1>6, ReqTyped
<1>8. Typed'
  BY <1>1, <1>6, <1>7 DEF Typed, chain, db
<1>9. TxsStay /\ Calm /\ row' = row /\ indexed' = indexed /\ indexed \subseteq indexed'
  BY <1>1 DEF TxsStay, Calm, IsClaim, chain, db
<1>10. RowsOK' /\ RowsGrow
  BY <1>6, <1>9, RowsStay
<1>11. RequestOK(h)'
  <2>1. UNCHANGED <<txs, indexed, raced, row>>
    BY <1>1 DEF chain, db
  <2>2. OwnOK(r.own, r.pay) /\ TodoOK(r)
    BY <1>4, NothingOwned, IdleTyped DEF TodoOK
  <2>3. QED
    BY <1>2, <1>3, <1>4, <1>7, <2>1, <2>2, RequestWritten
<1>12. ASSUME NEW g \in Handlers, g # h PROVE RequestOK(g)'
  <2>1. RequestOK(g) /\ req'[g] = req[g]
    BY <1>7, <1>12 DEF YieldInv
  <2>2. QED
    BY <1>6, <1>8, <1>9, <1>10, <2>1, RequestStays
<1>13. QED
  BY <1>8, <1>10, <1>11, <1>12 DEF YieldInv

(* A request is over *)
LEMMA BecomesIdle ==
  ASSUME YieldInv, NEW h \in Handlers, req' = [req EXCEPT ![h] = Idle]
  PROVE  /\ req' = [g \in Handlers |-> req'[g]] /\ \A g \in Handlers : IsRequest(req[g])'
         /\ req'[h] = Idle /\ \A g \in Handlers : g # h => req'[g] = req[g]
  BY IdleTyped, ReqTyped DEF YieldInv

LEMMA OverKeeps ==
  ASSUME YieldInv, NEW h \in Handlers, req' = [req EXCEPT ![h] = Idle],
         listed' \subseteq Investors,
         UNCHANGED <<bal, most, claimable, eth, txs, credit, db, raced>>
  PROVE  YieldInv'
<1>1. /\ req' = [g \in Handlers |-> req'[g]] /\ \A g \in Handlers : IsRequest(req[g])'
      /\ req'[h] = Idle /\ \A g \in Handlers : g # h => req'[g] = req[g]
  BY BecomesIdle
<1>2. Typed'
  BY <1>1 DEF YieldInv, Typed, db
<1>3. TxsStay /\ Calm /\ row' = row /\ indexed' = indexed /\ indexed \subseteq indexed'
  BY DEF TxsStay, Calm, IsClaim, db
<1>4. RowsOK' /\ RowsGrow
  BY <1>3, RowsStay DEF YieldInv
<1>5. ASSUME NEW g \in Handlers PROVE RequestOK(g)'
  <2>1. CASE g = h
    BY <1>1, <2>1, IdleKeeps
  <2>2. CASE g # h
    BY <1>1, <1>2, <1>3, <1>4, <2>2, RequestStays DEF YieldInv
  <2>3. QED
    BY <2>1, <2>2
<1>6. QED
  BY <1>2, <1>4, <1>5 DEF YieldInv

LEMMA EndKeeps ==
  ASSUME YieldInv, NEW h \in Handlers, End(h)
  PROVE  YieldInv'
<1> DEFINE own == req[h].own
           p == req[h].pay
<1>1. req[h].stage = "end" /\ req' = [req EXCEPT ![h] = Idle] /\ UNCHANGED <<chain, known, left, raced>>
  BY DEF End
<1>2. /\ req' = [g \in Handlers |-> req'[g]]
      /\ req'[h] = Idle /\ \A g \in Handlers : g # h => req'[g] = req[g]
  BY <1>1, BecomesIdle
<1>3. CASE req[h].kind = "prepare"
  <2>1. UNCHANGED <<row, indexed>>
    BY <1>3 DEF End, RollsBack
  <2>2. listed' \subseteq Investors
    BY <1>1 DEF YieldInv, Typed, chain
  <2>3. QED
    BY <1>1, <2>1, <2>2, OverKeeps DEF chain, db
<1>4. CASE req[h].kind # "prepare"
  <2>1. row' = Committed(own) /\ indexed' = indexed \cup ({p} \ {0})
    BY <1>4 DEF End
  <2>2. Commits(own, p)
    BY <1>1, <2>1 DEF Commits, chain
  <2>3. IsOwn(own) /\ p \in Ids \cup {0}
    BY DEF YieldInv, Typed, IsRequest
  <2>4. OwnOK(own, p) /\ (p # 0 => IsRent(p) /\ Covers(own, p))
    BY <1>1 DEF YieldInv, RequestOK
  <2> HIDE DEF own, p
  <2>5. \A g \in Handlers : req'[g] = req[g] \/ req'[g] = Idle
    BY <1>2
  <2>6. QED
    BY <1>1, <1>2, <2>2, <2>3, <2>4, <2>5, CommitKeeps
<1>5. QED
  BY <1>3, <1>4
-------------------------------------------------------------------------------
(* The steps of a request *)
LEMMA OwnState ==
  ASSUME YieldInv, NEW h \in Handlers
  PROVE  /\ IsRequest(req[h]) /\ req = [g \in Handlers |-> req[g]]
         /\ req[h].pay \in Ids \cup {0} /\ req[h].new \subseteq Investors /\ IsOwn(req[h].own)
         /\ req[h].todo \subseteq Ids \X Investors /\ req[h].sent \subseteq Ids \X Investors
         /\ OwnOK(req[h].own, req[h].pay) /\ TodoOK(req[h]) /\ RequestOK(h) /\ Typed /\ RowsOK
         /\ claimable \in [Investors -> Nat] /\ credit \in [Ids -> [Investors -> Nat]]
         /\ listed \subseteq Investors /\ known \subseteq Investors
  BY DEF YieldInv, Typed, IsRequest, RequestOK

LEMMA HandleRentKeeps ==
  ASSUME YieldInv, NEW h \in Handlers, HandleRent(h)
  PROVE  YieldInv'
<1> DEFINE d == req[h].pay
           n == RentRows(req[h].own, d)
           r == [req[h] EXCEPT !.stage = "read", !.own = n]
<1>1. /\ req[h].stage = "handle"
      /\ req' = [req EXCEPT ![h].stage = "read", ![h].own = RentRows(@, d)]
      /\ UNCHANGED <<chain, db, left, raced>>
  BY DEF HandleRent
<1>2. IsRent(d) /\ d \in Ids /\ d # 0 /\ d \in indexed \cup {d}
  BY <1>1, OwnState DEF RequestOK
<1>3. IsOwn(n) /\ OwnOK(n, d) /\ Covers(n, d)
  BY <1>2, OwnState, RentRowsKeepsOwn
<1>4. req' = [req EXCEPT ![h] = r]
  BY <1>1, OwnState
<1> HIDE DEF n
<1>5. /\ r = [f \in Fields |-> r[f]] /\ r.kind = req[h].kind /\ r.pay = d /\ r.stage = "read"
      /\ r.own = n /\ r.new = req[h].new /\ r.todo = req[h].todo /\ r.sent = req[h].sent
  BY OwnState, ZenonT(60) DEF IsRequest, Fields
<1> HIDE DEF r
<1>6. IsRequest(r) /\ TodoOK(r) /\ r.stage \in Stages \ {"off", "handle"}
  BY <1>3, <1>5, OwnState DEF IsRequest, TodoOK, Stages
<1>7. UNCHANGED <<bal, most, eth, txs, known, indexed, row, raced, claimable, credit, listed>>
  BY <1>1 DEF chain, db
<1>8. QED
  BY <1>3, <1>4, <1>5, <1>6, <1>7, OwnState, RequestGoesOn

(* A step that changes neither rows nor own writes *)
LEMMA StepsOn ==
  ASSUME YieldInv, NEW h \in Handlers, req[h].stage # "handle", NEW r, IsRequest(r),
         req' = [req EXCEPT ![h] = r], r.kind = req[h].kind, r.pay = req[h].pay,
         r.stage \in Stages \ {"off", "handle"}, r.own = req[h].own, TodoOK(r),
         r.stage \in {"rows", "accrue"} => r.pay # 0,
         claimable' \in [Investors -> Nat], credit' \in [Ids -> [Investors -> Nat]],
         listed' \subseteq Investors, UNCHANGED <<bal, most, eth, txs, db, raced>>
  PROVE  YieldInv'
<1>1. OwnOK(r.own, r.pay) /\ (r.pay # 0 => Covers(r.own, r.pay))
  BY OwnState DEF RequestOK
<1>2. UNCHANGED <<bal, most, eth, txs, known, indexed, row, raced>>
  BY DEF db
<1>3. QED
  BY <1>1, <1>2, RequestGoesOn

LEMMA ReadListedKeeps ==
  ASSUME YieldInv, NEW h \in Handlers, ReadListed(h)
  PROVE  YieldInv'
<1>1. PICK already \in {listed, {}} :
        req' = [req EXCEPT ![h].new = {w \in known : bal[w] > 0} \ already, ![h].stage = "add"]
  BY DEF ReadListed
<1> DEFINE new == {w \in known : bal[w] > 0} \ already
           r == [req[h] EXCEPT !.new = new, !.stage = "add"]
<1>2. req[h].stage = "read" /\ UNCHANGED <<chain, db, raced>>
  BY DEF ReadListed
<1>3. new \subseteq Investors
  BY OwnState
<1> HIDE DEF new
<1>4. req' = [req EXCEPT ![h] = r]
  BY <1>1, OwnState DEF new
<1>5. /\ r = [f \in Fields |-> r[f]] /\ r.kind = req[h].kind /\ r.pay = req[h].pay
      /\ r.stage = "add" /\ r.own = req[h].own /\ r.new = new /\ r.todo = req[h].todo
      /\ r.sent = req[h].sent
  BY OwnState, ZenonT(60) DEF IsRequest, Fields
<1> HIDE DEF r
<1>6. IsRequest(r) /\ TodoOK(r) /\ r.stage \in Stages \ {"off", "handle"}
  BY <1>3, <1>5, OwnState DEF IsRequest, TodoOK, Stages
<1>7. UNCHANGED <<bal, most, eth, txs, db, raced, claimable, credit, listed>>
  BY <1>2 DEF chain
<1>8. QED
  BY <1>2, <1>4, <1>5, <1>6, <1>7, OwnState, StepsOn

LEMMA DistributionsKnown ==
  ASSUME YieldInv, NEW h \in Handlers
  PROVE  /\ Distributions(req[h]) \subseteq Ids
         /\ \A d \in Distributions(req[h]) : IsRent(d) /\ d \in indexed \cup {req[h].pay}
  BY OwnState, PayTyped DEF Distributions

LEMMA AddInvestorsKeeps ==
  ASSUME YieldInv, NEW h \in Handlers, AddInvestors(h)
  PROVE  YieldInv'
<1> DEFINE todo == Distributions(req[h]) \X req[h].new
           r == [req[h] EXCEPT !.stage = "credit", !.todo = todo]
<1>1. /\ req[h].stage = "add" /\ req' = [req EXCEPT ![h].stage = "credit", ![h].todo = todo]
      /\ listed' = listed \cup req[h].new
      /\ UNCHANGED <<bal, most, claimable, eth, txs, credit, db, left, raced>>
  BY DEF AddInvestors
<1>2. todo \subseteq Ids \X Investors /\ \A x \in todo : IsRent(x[1]) /\ x[1] \in indexed \cup {req[h].pay}
  BY OwnState, DistributionsKnown
<1> HIDE DEF todo
<1>3. req' = [req EXCEPT ![h] = r]
  BY <1>1, OwnState
<1>4. /\ r = [f \in Fields |-> r[f]] /\ r.kind = req[h].kind /\ r.pay = req[h].pay
      /\ r.stage = "credit" /\ r.own = req[h].own /\ r.new = req[h].new /\ r.todo = todo
      /\ r.sent = req[h].sent
  BY OwnState, ZenonT(60) DEF IsRequest, Fields
<1> HIDE DEF r
<1>5. IsRequest(r) /\ TodoOK(r) /\ r.stage \in Stages \ {"off", "handle"}
  BY <1>2, <1>4, OwnState DEF IsRequest, TodoOK, Stages
<1>6. /\ UNCHANGED <<bal, most, eth, txs, db, raced>>
      /\ listed' \subseteq Investors /\ claimable' \in [Investors -> Nat]
      /\ credit' \in [Ids -> [Investors -> Nat]]
  BY <1>1, OwnState
<1>7. QED
  BY <1>1, <1>3, <1>4, <1>5, <1>6, StepsOn

LEMMA AddFailsKeeps ==
  ASSUME YieldInv, NEW h \in Handlers, AddFails(h)
  PROVE  YieldInv'
<1> DEFINE r == [req[h] EXCEPT !.stage = "rows"]
<1>1. /\ req[h].stage = "add" /\ listed' \in {listed, listed \cup req[h].new}
      /\ req' = [req EXCEPT ![h] = IF req[h].kind = "confirm" THEN r ELSE Idle]
      /\ UNCHANGED <<bal, most, claimable, eth, txs, credit, db, raced>>
  BY OwnState DEF AddFails
<1>2. listed' \subseteq Investors
  BY <1>1, OwnState
<1>3. CASE req[h].kind = "confirm"
  <2>1. req' = [req EXCEPT ![h] = r]
    BY <1>1, <1>3
  <2>2. /\ r = [f \in Fields |-> r[f]] /\ r.kind = req[h].kind /\ r.pay = req[h].pay
        /\ r.stage = "rows" /\ r.own = req[h].own /\ r.new = req[h].new /\ r.todo = req[h].todo
        /\ r.sent = req[h].sent
    BY OwnState, ZenonT(60) DEF IsRequest, Fields
  <2> HIDE DEF r
  <2>3. IsRequest(r) /\ TodoOK(r) /\ r.stage \in Stages \ {"off", "handle"}
    BY <2>2, OwnState DEF IsRequest, TodoOK, Stages
  <2>4. r.pay # 0
    BY <1>3, <2>2, OwnState DEF RequestOK
  <2>5. claimable' \in [Investors -> Nat] /\ credit' \in [Ids -> [Investors -> Nat]]
    BY <1>1, OwnState
  <2>6. QED
    BY <1>1, <1>2, <2>1, <2>2, <2>3, <2>4, <2>5, StepsOn
<1>4. CASE req[h].kind # "confirm"
  <2>1. req' = [req EXCEPT ![h] = Idle]
    BY <1>1, <1>4
  <2>2. QED
    BY <1>1, <1>2, <2>1, OverKeeps
<1>5. QED
  BY <1>3, <1>4

LEMMA RegisterBuyerKeeps ==
  ASSUME YieldInv, NEW h \in Handlers, RegisterBuyer(h)
  PROVE  YieldInv'
<1> DEFINE r == [req[h] EXCEPT !.stage = "end"]
<1>1. /\ req[h].stage = "buyer" /\ req' = [req EXCEPT ![h].stage = "end"]
      /\ \E w \in Investors : listed' \in {listed, IF bal[w] > 0 THEN listed \cup {w} ELSE listed}
      /\ UNCHANGED <<bal, most, claimable, eth, txs, credit, db, left, raced>>
  BY DEF RegisterBuyer
<1>2. req' = [req EXCEPT ![h] = r]
  BY <1>1, OwnState
<1>3. /\ r = [f \in Fields |-> r[f]] /\ r.kind = req[h].kind /\ r.pay = req[h].pay
      /\ r.stage = "end" /\ r.own = req[h].own /\ r.new = req[h].new /\ r.todo = req[h].todo
      /\ r.sent = req[h].sent
  BY OwnState, ZenonT(60) DEF IsRequest, Fields
<1> HIDE DEF r
<1>4. IsRequest(r) /\ TodoOK(r) /\ r.stage \in Stages \ {"off", "handle"}
  BY <1>3, OwnState DEF IsRequest, TodoOK, Stages
<1>5. listed' \subseteq Investors
  BY <1>1, OwnState
<1>6. claimable' \in [Investors -> Nat] /\ credit' \in [Ids -> [Investors -> Nat]]
  BY <1>1, OwnState
<1>7. QED
  BY <1>1, <1>2, <1>3, <1>4, <1>5, <1>6, StepsOn

LEMMA FinalizeRowsKeeps ==
  ASSUME YieldInv, NEW h \in Handlers, FinalizeRows(h)
  PROVE  YieldInv'
<1> DEFINE d == req[h].pay
           n == RowsBackfilled(req[h].own, d)
           todo == {d} \X Investors
           r == [req[h] EXCEPT !.stage = "accrue", !.todo = todo, !.own = n]
<1>1. /\ req[h].stage = "rows"
      /\ req' = [req EXCEPT ![h].stage = "accrue", ![h].todo = todo, ![h].own = n]
      /\ UNCHANGED <<chain, db, left, raced>>
  BY DEF FinalizeRows
<1>2. IsRent(d) /\ d \in Ids /\ d # 0 /\ d \in indexed \cup {d} /\ Covers(req[h].own, d)
  BY <1>1, OwnState DEF RequestOK
<1>3. \A w \in Investors : SeenBy(req[h].own, d, w).status = "none" => txs[d].pay[w] = 0
  <2>1. ASSUME NEW w \in Investors, SeenBy(req[h].own, d, w).status = "none"
        PROVE  txs[d].pay[w] = 0
    <3>1. SeenBy(req[h].own, d, w).amount = 0
      BY <1>2, <2>1, OwnState, SeenPays, ZenonT(60)
    <3>2. txs[d].pay[w] \in Nat /\ 0 >= txs[d].pay[w]
      BY <1>2, <3>1, OwnState, PayTyped DEF Covers
    <3>3. QED
      BY <3>2
  <2>2. QED
    BY <2>1
<1>4. IsOwn(n) /\ OwnOK(n, d) /\ Covers(n, d)
  BY <1>2, <1>3, OwnState, BackfillKeepsOwn
<1>5. todo \subseteq Ids \X Investors /\ \A x \in todo : IsRent(x[1]) /\ x[1] \in indexed \cup {d}
  BY <1>2
<1> HIDE DEF n, todo
<1>6. req' = [req EXCEPT ![h] = r]
  BY <1>1, OwnState
<1>7. /\ r = [f \in Fields |-> r[f]] /\ r.kind = req[h].kind /\ r.pay = d /\ r.stage = "accrue"
      /\ r.own = n /\ r.new = req[h].new /\ r.todo = todo /\ r.sent = req[h].sent
  BY OwnState, ZenonT(60) DEF IsRequest, Fields
<1> HIDE DEF r
<1>8. IsRequest(r) /\ TodoOK(r) /\ r.stage \in Stages \ {"off", "handle"}
  BY <1>4, <1>5, <1>7, OwnState DEF IsRequest, TodoOK, Stages
<1>9. UNCHANGED <<bal, most, eth, txs, known, indexed, row, raced, claimable, credit, listed>>
  BY <1>1 DEF chain, db
<1>10. QED
  BY <1>2, <1>4, <1>6, <1>7, <1>8, <1>9, OwnState, RequestGoesOn

(* What credits do to the chain's books *)
LEMMA AccrueTyped ==
  ASSUME Typed, NEW d \in Ids, NEW w \in Investors, NEW amount \in Nat, NEW n \in Nat,
         NEW answered \in BOOLEAN, Accrue(<<d, w>>, amount, n, answered)
  PROVE  /\ claimable' \in [Investors -> Nat] /\ credit' \in [Ids -> [Investors -> Nat]]
         /\ n * amount \in Nat /\ credit[d][w] \in Nat
         /\ credit'[d][w] = credit[d][w] + n * amount
         /\ \A e \in Ids, v \in Investors : <<e, v>> # <<d, w>> => credit'[e][v] = credit[e][v]
         /\ UNCHANGED <<bal, most, listed, eth, txs, db, raced>>
<1>1. claimable \in [Investors -> Nat] /\ credit \in [Ids -> [Investors -> Nat]]
  BY DEF Typed
<1> DEFINE c == n * amount
<1>2. c \in Nat
  OBVIOUS
<1>3. /\ claimable' = [claimable EXCEPT ![w] = @ + c]
      /\ credit' = [credit EXCEPT ![d][w] = @ + c]
      /\ UNCHANGED <<bal, most, listed, eth, txs, db, raced>>
  BY DEF Accrue
<1> HIDE DEF c
<1>4. claimable' \in [Investors -> Nat]
  BY <1>1, <1>2, <1>3
<1>5. credit' = [credit EXCEPT ![d] = [credit[d] EXCEPT ![w] = credit[d][w] + c]]
  BY <1>1, <1>3
<1> DEFINE f == [credit[d] EXCEPT ![w] = credit[d][w] + c]
<1>6. f \in [Investors -> Nat] /\ f[w] = credit[d][w] + c /\ \A v \in Investors : v # w => f[v] = credit[d][v]
  BY <1>1, <1>2
<1> HIDE DEF f
<1>7. credit' = [credit EXCEPT ![d] = f]
  BY <1>5 DEF f
<1>8. credit' \in [Ids -> [Investors -> Nat]] /\ credit'[d] = f /\ \A e \in Ids : e # d => credit'[e] = credit[e]
  BY <1>1, <1>6, <1>7
<1>9. QED
  BY <1>1, <1>2, <1>3, <1>4, <1>6, <1>8 DEF c

LEMMA FinalizeAccrueKeeps ==
  ASSUME YieldInv, NEW h \in Handlers, FinalizeAccrue(h)
  PROVE  YieldInv'
<1>1. PICK x \in UnpaidBy(req[h]), n \in 0 .. Attempts, answered \in BOOLEAN :
        /\ Accrue(x, Share(bal, x[2]), n, answered)
        /\ req' = [req EXCEPT ![h].todo = @ \ {x}]
  BY DEF FinalizeAccrue
<1> DEFINE todo == req[h].todo \ {x}
           r == [req[h] EXCEPT !.todo = todo]
<1>2. req[h].stage = "accrue" /\ x \in Ids \X Investors
  BY OwnState DEF FinalizeAccrue, UnpaidBy
<1>3. PICK d \in Ids, w \in Investors : x = <<d, w>>
  BY <1>2
<1>4. Share(bal, w) \in Nat /\ n \in Nat
  BY OwnState, ShareNat DEF Attempts
<1>5. /\ claimable' \in [Investors -> Nat] /\ credit' \in [Ids -> [Investors -> Nat]]
      /\ UNCHANGED <<bal, most, listed, eth, txs, db, raced>>
  <2>1. Accrue(<<d, w>>, Share(bal, w), n, answered)
    BY <1>1, <1>3
  <2>2. Typed
    BY OwnState
  <2>3. QED
    BY <1>4, <2>1, <2>2, AccrueTyped
<1>6. req' = [req EXCEPT ![h] = r]
  BY <1>1, OwnState
<1>7. todo \subseteq req[h].todo
  OBVIOUS
<1> HIDE DEF todo
<1>8. /\ r = [f \in Fields |-> r[f]] /\ r.kind = req[h].kind /\ r.pay = req[h].pay
      /\ r.stage = req[h].stage /\ r.own = req[h].own /\ r.new = req[h].new /\ r.todo = todo
      /\ r.sent = req[h].sent
  BY OwnState, ZenonT(60) DEF IsRequest, Fields
<1> HIDE DEF r
<1>9. IsRequest(r) /\ TodoOK(r) /\ r.stage \in Stages \ {"off", "handle"} /\ r.pay # 0
  BY <1>2, <1>7, <1>8, OwnState DEF IsRequest, TodoOK, Stages, RequestOK
<1>10. listed' \subseteq Investors
  BY <1>5, OwnState
<1>11. QED
  BY <1>2, <1>5, <1>6, <1>8, <1>9, <1>10, StepsOn

LEMMA FinalizedKeeps ==
  ASSUME YieldInv, NEW h \in Handlers, Finalized(h)
  PROVE  YieldInv'
<1> DEFINE r == [req[h] EXCEPT !.stage = "end", !.todo = {}]
<1>1. /\ req[h].stage = "accrue" /\ req' = [req EXCEPT ![h].stage = "end", ![h].todo = {}]
      /\ UNCHANGED <<chain, db, left, raced>>
  BY DEF Finalized
<1>2. req' = [req EXCEPT ![h] = r]
  BY <1>1, OwnState
<1>3. /\ r = [f \in Fields |-> r[f]] /\ r.kind = req[h].kind /\ r.pay = req[h].pay
      /\ r.stage = "end" /\ r.own = req[h].own /\ r.new = req[h].new /\ r.todo = {}
      /\ r.sent = req[h].sent
  BY OwnState, ZenonT(60) DEF IsRequest, Fields
<1> HIDE DEF r
<1>4. IsRequest(r) /\ TodoOK(r) /\ r.stage \in Stages \ {"off", "handle"}
  BY <1>3, OwnState DEF IsRequest, TodoOK, Stages
<1>5. UNCHANGED <<bal, most, eth, txs, db, raced, claimable, credit, listed>>
  BY <1>1 DEF chain
<1>6. QED
  BY <1>1, <1>2, <1>3, <1>4, <1>5, OwnState, StepsOn

LEMMA CreditsDoneKeeps ==
  ASSUME YieldInv, NEW h \in Handlers, CreditsDone(h)
  PROVE  YieldInv'
<1> DEFINE next == IF req[h].stage = "credit" THEN AfterSync(req[h].kind) ELSE "end"
           todo == IF next = "creditAll" THEN Distributions(req[h]) \X Investors ELSE {}
           r == [req[h] EXCEPT !.stage = next, !.todo = todo]
<1>1. /\ req[h].stage \in {"credit", "creditAll"}
      /\ req' = [req EXCEPT ![h].stage = next, ![h].todo = todo]
      /\ UNCHANGED <<chain, db, left, raced>>
  BY DEF CreditsDone
<1>2. next \in Stages \ {"off", "handle", "accrue"} /\ (next = "rows" => req[h].pay # 0)
  <2>1. req[h].kind = "confirm" => req[h].pay # 0
    BY OwnState DEF RequestOK
  <2>2. CASE req[h].kind = "confirm"
    BY <2>1, <2>2 DEF AfterSync, Stages
  <2>3. CASE req[h].kind = "sync"
    BY <2>3 DEF AfterSync, Stages
  <2>4. CASE req[h].kind = "register"
    BY <2>4 DEF AfterSync, Stages
  <2>5. CASE req[h].kind \notin {"confirm", "sync", "register"}
    BY <2>5 DEF AfterSync, Stages
  <2>6. QED
    BY <2>2, <2>3, <2>4, <2>5
<1> HIDE DEF next
<1>3. todo \subseteq Ids \X Investors /\ \A x \in todo : IsRent(x[1]) /\ x[1] \in indexed \cup {req[h].pay}
  BY OwnState, DistributionsKnown
<1> HIDE DEF todo
<1>4. req' = [req EXCEPT ![h] = r]
  BY <1>1, OwnState
<1>5. /\ r = [f \in Fields |-> r[f]] /\ r.kind = req[h].kind /\ r.pay = req[h].pay
      /\ r.stage = next /\ r.own = req[h].own /\ r.new = req[h].new /\ r.todo = todo
      /\ r.sent = req[h].sent
  BY OwnState, ZenonT(60) DEF IsRequest, Fields
<1> HIDE DEF r
<1>6. IsRequest(r) /\ TodoOK(r) /\ r.stage \in Stages \ {"off", "handle"}
  BY <1>2, <1>3, <1>5, OwnState DEF IsRequest, TodoOK
<1>7. UNCHANGED <<bal, most, eth, txs, db, raced, claimable, credit, listed>>
  BY <1>1 DEF chain
<1>8. r.stage \in {"rows", "accrue"} => r.pay # 0
  BY <1>2, <1>5
<1>9. QED
  BY <1>1, <1>4, <1>5, <1>6, <1>7, <1>8, OwnState, StepsOn

(* What CreditMissed does for a payment d and investor w: n credits of     *)
(* what the rows fall short of the share, and a row if one is answered     *)
CreditsPair(h, d, w, n, answered, r) ==
  LET own == req[h].own
      missing == Share(bal, w) - SeenBy(own, d, w).amount
  IN /\ req' = [req EXCEPT ![h] = r] /\ IsRequest(r) /\ TodoOK(r)
     /\ r.kind = req[h].kind /\ r.pay = req[h].pay /\ r.stage = req[h].stage
     /\ OwnOK(r.own, r.pay) /\ IsRent(d) /\ d \in indexed \cup {r.pay}
     /\ missing \in Nat /\ missing > 0 /\ SeenBy(own, d, w).amount >= txs[d].pay[w]
     /\ credit'[d][w] = credit[d][w] + n * missing
     /\ \A e \in Ids, v \in Investors : <<e, v>> # <<d, w>> => credit'[e][v] = credit[e][v]
     /\ answered => /\ n > 0 /\ DOMAIN r.own = DOMAIN own \cup {<<d, w>>}
                    /\ r.own[<<d, w>>].amount = Share(bal, w)
                    /\ \A y \in DOMAIN own : y # <<d, w>> => r.own[y] = own[y]
                    /\ r.sent = req[h].sent \cup {<<d, w>>}
     /\ ~answered => r.own = own /\ r.sent = req[h].sent
     /\ offBooks' = offBooks \cup (IF OffBooks(h, <<d, w>>, n, answered) THEN {<<d, w>>} ELSE {})
     /\ claimable' \in [Investors -> Nat] /\ credit' \in [Ids -> [Investors -> Nat]]
     /\ UNCHANGED <<bal, most, listed, eth, txs, db, raced>>

LEMMA Credits ==
  ASSUME YieldInv, NEW h \in Handlers, CreditMissed(h)
  PROVE  \E d \in Ids, w \in Investors, n \in 0 .. Attempts, answered \in BOOLEAN :
           \E r : CreditsPair(h, d, w, n, answered, r)
<1> DEFINE own == req[h].own
           p == req[h].pay
<1>1. PICK x \in MissedBy(req[h]), n \in 0 .. Attempts, answered \in BOOLEAN :
        /\ Accrue(x, Shortfall(own, x[1], x[2]), n, answered)
        /\ offBooks' = offBooks \cup (IF OffBooks(h, x, n, answered) THEN {x} ELSE {})
        /\ req' = [req EXCEPT ![h] =
             IF answered
             THEN [req[h] EXCEPT !.todo = {y \in req[h].todo : y[1] >= x[1]} \ {x},
                                 !.sent = req[h].sent \cup {x},
                                 !.own = [y \in DOMAIN own \cup {x} |->
                                    IF y = x
                                    THEN [amount |-> Share(bal, x[2]), status |-> "claimable"]
                                    ELSE own[y]]]
             ELSE [req[h] EXCEPT !.todo = {}]]
  BY ZenonT(60) DEF CreditMissed
<1>2. /\ IsRequest(req[h]) /\ IsOwn(own) /\ OwnOK(own, p) /\ Typed /\ RowsOK
      /\ TodoOK(req[h]) /\ req[h].todo \subseteq Ids \X Investors
      /\ req[h].sent \subseteq Ids \X Investors
  BY OwnState
<1>3. x \in req[h].todo /\ Shortfall(own, x[1], x[2]) > 0 /\ req[h].stage \in {"credit", "creditAll"}
  BY DEF MissedBy, CreditMissed
<1>4. PICK d \in Ids, w \in Investors : x = <<d, w>>
  BY <1>2, <1>3
<1>5. IsRent(d) /\ d \in indexed \cup {p}
  BY <1>2, <1>3, <1>4 DEF TodoOK
<1>6. Share(bal, w) \in Nat /\ SeenBy(own, d, w).amount \in Nat
  BY <1>2, ShareNat, SeenTyped
<1> DEFINE missing == Share(bal, w) - SeenBy(own, d, w).amount
<1>7. Shortfall(own, d, w) = missing /\ missing \in Nat /\ missing > 0
  BY <1>3, <1>4, <1>6 DEF Shortfall
<1> HIDE DEF missing
<1>8. SeenBy(own, d, w).amount >= txs[d].pay[w] /\ txs[d].pay[w] \in Nat
  <2>1. txs[d].pay[w] \in Nat
    BY <1>2, <1>5, PayTyped
  <2>2. CASE d \in indexed
    <3>1. CASE <<d, w>> \in DOMAIN own
      BY <1>2, <3>1, <2>1 DEF OwnOK, SeenBy
    <3>2. CASE <<d, w>> \notin DOMAIN own
      BY <1>2, <1>5, <2>1, <2>2, <3>2 DEF RowsOK, SeenBy
    <3>3. QED
      BY <3>1, <3>2
  <2>3. CASE d = p
    <3>1. p # 0
      BY <1>2, <1>5, <2>3, PayTyped
    <3>2. Covers(own, p)
      BY <1>3, <3>1, OwnState DEF RequestOK
    <3>3. QED
      BY <2>1, <2>3, <3>2 DEF Covers
  <2>4. QED
    BY <1>5, <2>1, <2>2, <2>3
<1>9. /\ claimable' \in [Investors -> Nat] /\ credit' \in [Ids -> [Investors -> Nat]]
      /\ credit'[d][w] = credit[d][w] + n * missing
      /\ \A e \in Ids, v \in Investors : <<e, v>> # <<d, w>> => credit'[e][v] = credit[e][v]
      /\ UNCHANGED <<bal, most, listed, eth, txs, db, raced>>
  <2>1. Accrue(<<d, w>>, missing, n, answered)
    <3>1. Shortfall(own, x[1], x[2]) = missing
      BY <1>4, <1>7
    <3>2. QED
      BY <1>1, <1>4, <3>1, Zenon
  <2>2. n \in Nat
    BY DEF Attempts
  <2>3. QED
    BY <1>2, <1>7, <2>1, <2>2, AccrueTyped
<1>10. offBooks' = offBooks \cup (IF OffBooks(h, <<d, w>>, n, answered) THEN {<<d, w>>} ELSE {})
  BY <1>1, <1>4
<1>11. CASE answered
  <2> DEFINE todo == {y \in req[h].todo : y[1] >= x[1]} \ {x}
             sent == req[h].sent \cup {<<d, w>>}
             entry == [amount |-> Share(bal, w), status |-> "claimable"]
             m == [y \in DOMAIN own \cup {<<d, w>>} |-> IF y = <<d, w>> THEN entry ELSE own[y]]
             r == [req[h] EXCEPT !.todo = todo, !.sent = sent, !.own = m]
  <2>1. req' = [req EXCEPT ![h] = r]
    BY <1>1, <1>4, <1>11
  <2>2. todo \subseteq req[h].todo /\ sent \subseteq Ids \X Investors
    BY <1>2
  <2>3. entry \in Rows /\ entry.amount = Share(bal, w) /\ entry.status = "claimable"
    BY <1>6 DEF Rows, Statuses
  <2> HIDE DEF entry
  <2>4. /\ m = [y \in DOMAIN m |-> m[y]] /\ DOMAIN m = DOMAIN own \cup {<<d, w>>}
        /\ m[<<d, w>>] = entry /\ \A y \in DOMAIN own : y # <<d, w>> => m[y] = own[y]
    OBVIOUS
  <2> HIDE DEF m, todo, sent
  <2>5. /\ r = [f \in Fields |-> r[f]] /\ r.kind = req[h].kind /\ r.pay = p
        /\ r.stage = req[h].stage /\ r.own = m /\ r.new = req[h].new /\ r.todo = todo
        /\ r.sent = sent
    BY <1>2 DEF IsRequest, Fields
  <2> HIDE DEF r
  <2>6. IsOwn(m)
    BY <1>2, <2>3, <2>4 DEF IsOwn
  <2>7. OwnOK(m, p)
    <3>1. ASSUME NEW e \in Ids, NEW v \in Investors, <<e, v>> \in DOMAIN m
          PROVE  /\ IsRent(e) /\ e \in indexed \cup {p}
                 /\ m[<<e, v>>].status # "none" /\ m[<<e, v>>].amount >= txs[e].pay[v]
                 /\ Settled(m[<<e, v>>], e, v)
      <4>1. CASE <<e, v>> = <<d, w>>
        <5>1. e = d /\ v = w /\ m[<<e, v>>] = entry
          BY <2>4, <4>1
        <5>2. Share(bal, w) > SeenBy(own, d, w).amount
          BY <1>6, <1>7 DEF missing
        <5>3. Share(bal, w) >= txs[d].pay[w] /\ Share(bal, w) # txs[d].pay[w]
          BY <1>6, <1>8, <5>2
        <5>4. QED
          BY <1>5, <2>3, <5>1, <5>3 DEF Settled
      <4>2. CASE <<e, v>> # <<d, w>>
        BY <1>2, <2>4, <3>1, <4>2 DEF OwnOK
      <4>3. QED
        BY <4>1, <4>2
    <3>2. QED
      BY <3>1 DEF OwnOK
  <2>8. IsRequest(r) /\ TodoOK(r)
    BY <1>2, <2>2, <2>5, <2>6 DEF IsRequest, TodoOK
  <2>9. n > 0
    BY <1>1, <1>11 DEF Accrue
  <2>10. CreditsPair(h, d, w, n, answered, r)
    BY <1>5, <1>7, <1>8, <1>9, <1>10, <1>11, <2>1, <2>3, <2>4, <2>5, <2>7, <2>8, <2>9
       DEF CreditsPair, missing, sent
  <2>11. QED
    BY <2>10
<1>12. CASE ~answered
  <2> DEFINE r == [req[h] EXCEPT !.todo = {}]
  <2>1. req' = [req EXCEPT ![h] = r]
    BY <1>1, <1>12
  <2>2. /\ r = [f \in Fields |-> r[f]] /\ r.kind = req[h].kind /\ r.pay = p
        /\ r.stage = req[h].stage /\ r.own = own /\ r.new = req[h].new /\ r.todo = {}
        /\ r.sent = req[h].sent
    BY <1>2 DEF IsRequest, Fields
  <2> HIDE DEF r
  <2>3. IsRequest(r) /\ TodoOK(r)
    BY <1>2, <2>2 DEF IsRequest, TodoOK
  <2>4. CreditsPair(h, d, w, n, answered, r)
    BY <1>2, <1>5, <1>7, <1>8, <1>9, <1>10, <1>12, <2>1, <2>2, <2>3 DEF CreditsPair, missing
  <2>5. QED
    BY <2>4
<1>13. QED
  BY <1>11, <1>12

LEMMA CreditMissedKeeps ==
  ASSUME YieldInv, NEW h \in Handlers, CreditMissed(h)
  PROVE  YieldInv'
<1>0. PICK d \in Ids, w \in Investors, n \in 0 .. Attempts, answered \in BOOLEAN :
        \E r : CreditsPair(h, d, w, n, answered, r)
  BY Credits
<1>1. PICK r : CreditsPair(h, d, w, n, answered, r)
  BY <1>0
<1>2. /\ req' = [req EXCEPT ![h] = r] /\ IsRequest(r) /\ TodoOK(r) /\ OwnOK(r.own, r.pay)
      /\ r.kind = req[h].kind /\ r.pay = req[h].pay /\ r.stage = req[h].stage
      /\ claimable' \in [Investors -> Nat] /\ credit' \in [Ids -> [Investors -> Nat]]
      /\ UNCHANGED <<bal, most, listed, eth, txs, db, raced>>
  BY <1>1 DEF CreditsPair
<1>3. req[h].stage \in {"credit", "creditAll"}
  BY DEF CreditMissed
<1>4. r.pay # 0 => Covers(r.own, r.pay)
  <2>1. ASSUME r.pay # 0, NEW v \in Investors
        PROVE  SeenBy(r.own, r.pay, v).amount >= txs[r.pay].pay[v]
    <3> DEFINE p == r.pay
    <3>1. IsRent(p) /\ Covers(req[h].own, p) /\ Typed
      BY <1>2, <1>3, <2>1, OwnState DEF RequestOK
    <3>2. p \in Ids /\ txs[p].pay[v] \in Nat
      BY <3>1, PayTyped
    <3>3. SeenBy(req[h].own, p, v).amount >= txs[p].pay[v]
      BY <3>1 DEF Covers
    <3> HIDE DEF p
    <3>4. CASE ~answered \/ <<p, v>> # <<d, w>>
      <4>1. SeenBy(r.own, p, v) = SeenBy(req[h].own, p, v)
        BY <1>1, <3>4 DEF CreditsPair, SeenBy
      <4>2. QED
        BY <3>3, <4>1 DEF p
    <3>5. CASE answered /\ <<p, v>> = <<d, w>>
      <4>1. p = d /\ v = w
        BY <3>5
      <4>2. SeenBy(r.own, d, w).amount = Share(bal, w)
        BY <1>1, <3>5 DEF CreditsPair, SeenBy
      <4>3. Share(bal, w) \in Nat /\ SeenBy(req[h].own, d, w).amount \in Nat
        BY <3>1, ShareNat, SeenTyped, OwnState
      <4>4. Share(bal, w) > SeenBy(req[h].own, d, w).amount
        BY <1>1, <4>3 DEF CreditsPair
      <4>5. QED
        BY <3>2, <3>3, <4>1, <4>2, <4>3, <4>4 DEF p
    <3>6. QED
      BY <3>4, <3>5
  <2>2. QED
    BY <2>1 DEF Covers
<1>5. r.stage \in Stages \ {"off", "handle", "rows", "accrue"}
  BY <1>2, <1>3 DEF Stages
<1>6. UNCHANGED <<bal, most, eth, txs, known, indexed, row, raced>> /\ listed' \subseteq Investors
  BY <1>2, OwnState DEF db
<1>7. QED
  BY <1>2, <1>4, <1>5, <1>6, RequestGoesOn

LEMMA CrashKeeps ==
  ASSUME YieldInv, NEW h \in Handlers, Crash(h)
  PROVE  YieldInv'
<1>1. req' = [req EXCEPT ![h] = Idle] /\ UNCHANGED <<chain, db, raced>>
  BY DEF Crash, RollsBack, db
<1>2. listed' \subseteq Investors /\ UNCHANGED <<bal, most, claimable, eth, txs, credit, db, raced>>
  BY <1>1 DEF chain, YieldInv, Typed
<1>3. QED
  BY <1>1, <1>2, OverKeeps
-------------------------------------------------------------------------------
(* The invariant of the rows *)
LEMMA InitGivesYieldInv ==
  ASSUME Init
  PROVE  YieldInv
<1>1. bal \in [Investors -> Nat] /\ SumFunction(bal) <= Supply
  <2>1. bal \in [Investors -> Int] /\ bal \in [Investors -> Nat] /\ \A w \in Investors : bal[w] = 0
    BY DEF Init
  <2>2. SumFunction(bal) = 0
    BY <2>1, YieldAssumption, SumZero
  <2>3. QED
    BY <2>1, <2>2, YieldAssumption
<1>2. row \in [Ids -> [Investors -> Rows]]
      /\ \A d \in Ids, w \in Investors : row[d][w].status = "none" /\ row[d][w].amount = 0
  <2>1. NoRow \in Rows /\ NoRow.status = "none" /\ NoRow.amount = 0
    BY DEF NoRow, Rows, Statuses
  <2> HIDE DEF NoRow
  <2>2. QED
    BY <2>1 DEF Init
<1>3. txs \in Seq(Txs) /\ Len(txs) <= MaxTxs /\ indexed \subseteq DOMAIN txs /\ indexed = {}
  BY YieldAssumption DEF Init
<1>4. req = [h \in Handlers |-> Idle] /\ \A h \in Handlers : req[h] = Idle
  BY DEF Init
<1>5. req = [h \in Handlers |-> req[h]] /\ \A h \in Handlers : IsRequest(req[h])
  BY <1>4, IdleTyped
<1>6. Typed
  BY <1>1, <1>2, <1>3, <1>5 DEF Init, Typed
<1>7. RowsOK
  BY <1>2, <1>3 DEF RowsOK
<1>8. \A h \in Handlers : RequestOK(h)
  BY <1>4, IdleTyped DEF RequestOK, OwnOK, TodoOK
<1>9. QED
  BY <1>6, <1>7, <1>8 DEF YieldInv

LEMMA NextKeepsYieldInv ==
  ASSUME YieldInv, [Next]_vars
  PROVE  YieldInv'
<1>1. ASSUME NEW w \in Investors, Buy(w) \/ Claim(w) \/ IndexHolder(w) PROVE YieldInv'
  BY <1>1, BuyKeeps, ClaimKeeps, IndexHolderKeeps
<1>2. ASSUME NEW v \in Investors, NEW w \in Investors, Transfer(v, w) PROVE YieldInv'
  BY <1>2, TransferKeeps
<1>3. CASE PayRent
  BY <1>3, PayRentKeeps
<1>4. ASSUME NEW t \in Ids, IndexRent(t) \/ IndexClaim(t) PROVE YieldInv'
  BY <1>4, IndexRentKeeps, IndexClaimKeeps
<1>5. ASSUME NEW h \in Handlers, NEW kind \in Kinds, NEW d \in Ids \cup {0}, Start(h, kind, d)
      PROVE  YieldInv'
  BY <1>5, StartKeeps
<1>6. ASSUME NEW h \in Handlers,
             \/ HandleRent(h) \/ ReadListed(h) \/ AddInvestors(h) \/ AddFails(h)
             \/ CreditMissed(h) \/ CreditsDone(h) \/ RegisterBuyer(h)
             \/ FinalizeRows(h) \/ FinalizeAccrue(h) \/ Finalized(h) \/ End(h) \/ Crash(h)
      PROVE  YieldInv'
  BY <1>6, HandleRentKeeps, ReadListedKeeps, AddInvestorsKeeps, AddFailsKeeps,
     CreditMissedKeeps, CreditsDoneKeeps, RegisterBuyerKeeps, FinalizeRowsKeeps,
     FinalizeAccrueKeeps, FinalizedKeeps, EndKeeps, CrashKeeps
<1>7. CASE UNCHANGED vars
  <2>1. UNCHANGED <<bal, most, known, listed, claimable, eth, txs, indexed, row, req, credit, raced>>
    BY <1>7 DEF vars, chain, db
  <2>2. Typed' /\ TxsStay
    BY <2>1 DEF YieldInv, Typed, TxsStay, IsRequest, IsOwn
  <2>3. QED
    BY <2>1, <2>2, ChainStepKeeps
<1>8. QED
  BY <1>1, <1>2, <1>3, <1>4, <1>5, <1>6, <1>7 DEF Next

LEMMA YieldInvariant == Spec => []YieldInv
<1>1. Init => YieldInv
  BY InitGivesYieldInv
<1>2. YieldInv /\ [Next]_vars => YieldInv'
  BY NextKeepsYieldInv
<1>3. QED
  BY <1>1, <1>2, PTL DEF Spec

(* Types of the balances, the lists, the rows and what is indexed: no      *)
(* balance exceeds the supply, only mined transactions are indexed and     *)
(* every row has an amount and a status, whatever requests run or die.     *)
THEOREM YieldTyped == Spec => []TypeOK
<1>1. YieldInv => TypeOK
  <2>1. ASSUME Typed PROVE TypeOK
    <3>1. \A w \in Investors : bal[w] \in 0 .. Supply
      <4>1. ASSUME NEW w \in Investors PROVE bal[w] \in 0 .. Supply
        <5>1. bal \in [Investors -> Nat] /\ SumFunction(bal) <= Supply /\ bal[w] \in Nat
          BY <2>1 DEF Typed
        <5>2. bal[w] <= SumFunction(bal) /\ SumFunction(bal) \in Nat
          BY <5>1, YieldAssumption, SumTerm, SumNat
        <5>3. QED
          BY <5>1, <5>2, YieldAssumption
      <4>2. QED
        BY <4>1
    <3>2. bal \in [Investors -> 0 .. Supply]
      BY <2>1, <3>1 DEF Typed
    <3>3. QED
      BY <2>1, <3>2 DEF Typed, TypeOK, Rows, Statuses
  <2>2. QED
    BY <2>1 DEF YieldInv
<1>2. QED
  BY <1>1, YieldInvariant, PTL

(* The row a payment made is claimed once it and a later claim of its      *)
(* investor are indexed, in either order and again, whatever handlers      *)
(* write, commit or leave uncommitted (_handle_rent_events,                *)
(* _handle_reward_claim_event, ensure_investor_rent_payout_row); left out  *)
(* are claims indexed last while a handler had rows to commit.             *)
THEOREM ClaimedRowsSettled == Spec => []ClaimSettlesRows
<1>1. YieldInv => ClaimSettlesRows
  <2>1. ASSUME YieldInv, NEW d \in indexed, NEW t \in indexed \ raced, NEW w \in Investors,
               IsRent(d), IsClaim(t), d < t, txs[t].who = w,
               txs[d].pay[w] > 0, row[d][w].amount = txs[d].pay[w]
        PROVE  row[d][w].status = "claimed"
    <3>1. RowsOK /\ Typed
      BY <2>1 DEF YieldInv
    <3>2. d \in Ids
      BY <2>1, <3>1, PayTyped
    <3>3. Settled(row[d][w], d, w)
      BY <2>1, <3>1, <3>2 DEF RowsOK
    <3>4. QED
      BY <2>1, <3>3 DEF Settled
  <2>2. QED
    BY <2>1 DEF ClaimSettlesRows
<1>2. QED
  BY <1>1, YieldInvariant, PTL
-------------------------------------------------------------------------------
(* The credits.  What is on no handler's books is on the row or was paid   *)
(* by the event; what a handler holds is its alone, no less than the row,  *)
(* and, once it credited it, no less than all that was credited.           *)
Booked(d, w) ==
  /\ \A g, h \in Handlers : Holds(g, <<d, w>>) /\ Holds(h, <<d, w>>) => g = h
  /\ \A h \in Handlers : Holds(h, <<d, w>>) =>
       /\ row[d][w].amount <= req[h].own[<<d, w>>].amount
       /\ <<d, w>> \in req[h].sent => credit[d][w] <= req[h].own[<<d, w>>].amount
  /\ \/ \E h \in Handlers : <<d, w>> \in req[h].sent
     \/ credit[d][w] <= row[d][w].amount
     \/ IsRent(d) /\ credit[d][w] <= txs[d].pay[w]

SentOK(r) ==
  /\ r.sent \subseteq DOMAIN r.own
  /\ r.stage \in {"off", "handle", "read", "add"} => r.sent = {}

Ledger ==
  /\ CreditWithinShare
  /\ \A h \in Handlers : SentOK(req[h])
  /\ \A d \in Ids, w \in Investors : <<d, w>> \in offBooks \/ Booked(d, w)

Books == YieldInv /\ Ledger

(* What has been held only grows *)
MostGrows == \A w \in Investors : most[w] <= most'[w]

LEMMA SharesStay ==
  ASSUME YieldInv, YieldInv', CreditWithinShare, MostGrows, offBooks \subseteq offBooks',
         \A d \in Ids, w \in Investors :
           \/ credit'[d][w] = credit[d][w] \/ <<d, w>> \in offBooks'
           \/ credit'[d][w] <= Share(bal, w)
  PROVE  CreditWithinShare'
<1>1. ASSUME NEW d \in Ids, NEW w \in Investors, <<d, w>> \notin offBooks'
      PROVE  credit'[d][w] <= Share(most', w)
  <2>1. /\ bal \in [Investors -> Nat] /\ most \in [Investors -> Nat]
        /\ most' \in [Investors -> Nat] /\ bal[w] <= most[w] /\ most[w] <= most'[w]
        /\ credit[d][w] \in Nat /\ credit'[d][w] \in Nat
    BY DEF YieldInv, Typed, MostGrows
  <2>2. Share(bal, w) \in Nat /\ Share(most, w) \in Nat /\ Share(bal, w) <= Share(most, w)
    BY <2>1, ShareMonotone
  <2>3. Share(most', w) \in Nat /\ Share(most, w) <= Share(most', w)
    BY <2>1, ShareMonotone
  <2>4. credit[d][w] <= Share(most, w)
    BY <1>1 DEF CreditWithinShare
  <2>5. QED
    BY <1>1, <2>1, <2>2, <2>3, <2>4
<1>2. QED
  BY <1>1 DEF CreditWithinShare, Share

(* Nothing happens to the rows and credits of d and w *)
LEMMA BookedStays ==
  ASSUME NEW d \in Ids, NEW w \in Investors, Booked(d, w), YieldInv, TxsStay,
         credit'[d][w] = credit[d][w], row'[d][w].amount = row[d][w].amount,
         \A h \in Handlers :
           /\ Holds(h, <<d, w>>)' <=> Holds(h, <<d, w>>)
           /\ Holds(h, <<d, w>>) => req'[h].own[<<d, w>>] = req[h].own[<<d, w>>]
           /\ <<d, w>> \in req'[h].sent <=> <<d, w>> \in req[h].sent
  PROVE  Booked(d, w)'
<1>1. IsRent(d) => IsRent(d)' /\ txs'[d] = txs[d]
  BY DEF IsRent, TxsStay
<1>2. \A g, h \in Handlers : Holds(g, <<d, w>>)' /\ Holds(h, <<d, w>>)' => g = h
  BY DEF Booked
<1>3. \A h \in Handlers : Holds(h, <<d, w>>)' =>
        /\ row'[d][w].amount <= req'[h].own[<<d, w>>].amount
        /\ <<d, w>> \in req'[h].sent => credit'[d][w] <= req'[h].own[<<d, w>>].amount
  BY DEF Booked
<1>4. \/ \E h \in Handlers : <<d, w>> \in req'[h].sent
      \/ credit'[d][w] <= row'[d][w].amount
      \/ IsRent(d)' /\ credit'[d][w] <= txs'[d].pay[w]
  BY <1>1 DEF Booked
<1>5. QED
  BY <1>2, <1>3, <1>4 DEF Booked

(* A step that neither writes rows nor credits on the books *)
LEMMA LedgerStays ==
  ASSUME YieldInv, Ledger, YieldInv', TxsStay, MostGrows, offBooks \subseteq offBooks',
         \A d \in Ids, w \in Investors :
           /\ credit'[d][w] = credit[d][w] \/ <<d, w>> \in offBooks'
           /\ row'[d][w].amount = row[d][w].amount,
         \A h \in Handlers :
           /\ req'[h].own = req[h].own /\ req'[h].sent = req[h].sent
           /\ \/ req'[h].stage = req[h].stage \/ req[h].sent = {}
              \/ req'[h].stage \notin {"off", "handle", "read", "add"}
  PROVE  Ledger'
<1>1. CreditWithinShare'
  BY SharesStay DEF Ledger
<1>2. \A h \in Handlers : SentOK(req[h])'
  BY DEF Ledger, SentOK
<1>3. ASSUME NEW d \in Ids, NEW w \in Investors, <<d, w>> \notin offBooks' PROVE Booked(d, w)'
  <2>1. Booked(d, w) /\ credit'[d][w] = credit[d][w] /\ row'[d][w].amount = row[d][w].amount
    BY <1>3 DEF Ledger
  <2>2. \A h \in Handlers :
           /\ Holds(h, <<d, w>>)' <=> Holds(h, <<d, w>>)
           /\ Holds(h, <<d, w>>) => req'[h].own[<<d, w>>] = req[h].own[<<d, w>>]
           /\ <<d, w>> \in req'[h].sent <=> <<d, w>> \in req[h].sent
    BY DEF Holds
  <2>3. QED
    BY <2>1, <2>2, BookedStays
<1>4. QED
  BY <1>1, <1>2, <1>3 DEF Ledger

LEMMA MostStays ==
  ASSUME Typed, most' = most
  PROVE  MostGrows
<1>1. ASSUME NEW w \in Investors PROVE most[w] <= most[w]
  BY DEF Typed
<1>2. QED
  BY <1>1 DEF MostGrows

LEMMA BuyBooks ==
  ASSUME Books, YieldInv', NEW w \in Investors, Buy(w)
  PROVE  Ledger'
<1>1. NotesMost /\ UNCHANGED <<txs, credit, row, req, offBooks>>
  BY DEF Buy, db
<1>2. MostGrows /\ TxsStay
  BY <1>1, MostUp DEF Books, YieldInv, Typed, MostGrows, TxsStay
<1>3. QED
  BY <1>1, <1>2, LedgerStays DEF Books

LEMMA TransferBooks ==
  ASSUME Books, YieldInv', NEW v \in Investors, NEW w \in Investors, Transfer(v, w)
  PROVE  Ledger'
<1>1. NotesMost /\ UNCHANGED <<txs, credit, row, req, offBooks>>
  BY DEF Transfer, db
<1>2. MostGrows /\ TxsStay
  BY <1>1, MostUp DEF Books, YieldInv, Typed, MostGrows, TxsStay
<1>3. QED
  BY <1>1, <1>2, LedgerStays DEF Books

LEMMA ClaimBooks ==
  ASSUME Books, YieldInv', NEW w \in Investors, Claim(w)
  PROVE  Ledger'
<1> DEFINE t == [kind |-> "claim", who |-> w]
<1>1. Len(txs) + 1 \in Ids /\ txs' = Append(txs, t) /\ UNCHANGED <<most, credit, row, req, offBooks>>
  BY DEF Claim, db
<1>2. t \in Txs
  BY DEF Txs
<1> HIDE DEF t
<1>3. TxsStay /\ MostGrows
  BY <1>1, <1>2, Mined, MostStays DEF Books, YieldInv
<1>4. QED
  BY <1>1, <1>3, LedgerStays DEF Books

LEMMA IndexHolderBooks ==
  ASSUME Books, YieldInv', NEW w \in Investors, IndexHolder(w)
  PROVE  Ledger'
<1>1. UNCHANGED <<txs, most, credit, row, req, offBooks>>
  BY DEF IndexHolder, chain
<1>2. TxsStay /\ MostGrows
  BY <1>1, MostStays DEF Books, YieldInv, TxsStay
<1>3. QED
  BY <1>1, <1>2, LedgerStays DEF Books

LEMMA IndexClaimBooks ==
  ASSUME Books, YieldInv', NEW t \in Ids, IndexClaim(t)
  PROVE  Ledger'
<1>1. UNCHANGED <<txs, most, credit, req, offBooks>>
  BY DEF IndexClaim, chain
<1>2. ASSUME NEW d \in Ids, NEW w \in Investors PROVE row'[d][w].amount = row[d][w].amount
  <2>1. row[d][w] \in Rows
    BY DEF Books, YieldInv, Typed
  <2>2. row'[d][w] \in {row[d][w], [row[d][w] EXCEPT !.status = "claimed"]}
    BY DEF IndexClaim
  <2>3. QED
    BY <2>1, <2>2 DEF Rows
<1>3. TxsStay /\ MostGrows
  BY <1>1, MostStays DEF Books, YieldInv, TxsStay
<1>4. QED
  BY <1>1, <1>2, <1>3, LedgerStays DEF Books

(* The new payment is paid by its event and nobody has credited it *)
LEMMA PayRentBooks ==
  ASSUME Books, YieldInv', PayRent
  PROVE  Ledger'
<1> DEFINE pay == [w \in Investors |-> IF w \in listed THEN Share(bal, w) ELSE 0]
           t == [kind |-> "rent", pay |-> pay]
<1>0. PICK d : d = Len(txs) + 1
  OBVIOUS
<1>1. /\ d \in Ids /\ txs' = Append(txs, t) /\ credit' = [credit EXCEPT ![d] = pay]
      /\ UNCHANGED <<bal, most, row, req, offBooks>>
  BY <1>0 DEF PayRent, db
<1>2. /\ YieldInv /\ Ledger /\ Typed /\ \A h \in Handlers : RequestOK(h) /\ SentOK(req[h])
      /\ credit \in [Ids -> [Investors -> Nat]]
  BY DEF Books, YieldInv, Ledger, Typed
<1>3. \A w \in Investors : Share(bal, w) \in Nat
  BY <1>2, ShareNat
<1>4. pay \in [Investors -> Nat] /\ \A w \in Investors : pay[w] <= Share(bal, w)
  BY <1>3
<1> HIDE DEF pay
<1>5. t \in Txs /\ t.kind = "rent" /\ t.pay = pay
  BY <1>4 DEF Txs
<1> HIDE DEF t
<1>6. TxsStay /\ d \in DOMAIN txs' /\ txs'[d] = t /\ d \notin DOMAIN txs
  BY <1>0, <1>1, <1>2, <1>5, Mined
<1>7. credit'[d] = pay /\ \A e \in Ids : e # d => credit'[e] = credit[e]
  BY <1>1, <1>2
<1>8. MostGrows
  BY <1>1, <1>2, MostStays
<1>9. CreditWithinShare'
  <2>1. \A e \in Ids, w \in Investors :
           credit'[e][w] = credit[e][w] \/ credit'[e][w] <= Share(bal, w)
    BY <1>4, <1>7
  <2>2. offBooks \subseteq offBooks'
    BY <1>1
  <2>3. QED
    BY <1>2, <1>8, <2>1, <2>2, SharesStay DEF Ledger
<1>10. \A h \in Handlers : SentOK(req[h])'
  BY <1>1, <1>2 DEF SentOK
<1>11. ASSUME NEW e \in Ids, NEW w \in Investors, <<e, w>> \notin offBooks' PROVE Booked(e, w)'
  <2>1. CASE e = d
    <3>1. \A h \in Handlers : ~Holds(h, <<d, w>>)'
      <4>1. ASSUME NEW h \in Handlers, <<d, w>> \in DOMAIN req[h].own PROVE FALSE
        <5>1. IsRent(d)
          BY <1>1, <1>2, <4>1 DEF RequestOK, OwnOK
        <5>2. QED
          BY <1>6, <5>1 DEF IsRent
      <4>2. QED
        BY <1>1, <4>1 DEF Holds
    <3>2. IsRent(d)' /\ txs'[d].pay = pay
      BY <1>5, <1>6 DEF IsRent
    <3>3. credit'[d][w] <= txs'[d].pay[w]
      BY <1>4, <1>7, <3>2
    <3>4. QED
      BY <2>1, <3>1, <3>2, <3>3 DEF Booked
  <2>2. CASE e # d
    <3>1. Booked(e, w) /\ credit'[e][w] = credit[e][w]
      BY <1>1, <1>2, <1>7, <1>11, <2>2 DEF Ledger
    <3>2. QED
      BY <1>1, <1>2, <1>6, <3>1, BookedStays DEF Holds
  <2>3. QED
    BY <2>1, <2>2
<1>12. QED
  BY <1>9, <1>10, <1>11 DEF Ledger

(* A request starts or is dropped; credits whose rows are dropped with it  *)
(* go off the books                                                        *)
LEMMA DropBooks ==
  ASSUME Books, YieldInv', NEW h \in Handlers, NEW r, r.own = Idle.own, r.sent = {},
         req' = [req EXCEPT ![h] = r], offBooks \cup req[h].sent \subseteq offBooks',
         UNCHANGED <<txs, most, credit, row>>
  PROVE  Ledger'
<1>1. YieldInv /\ Ledger /\ Typed /\ req = [g \in Handlers |-> req[g]]
  BY DEF Books, YieldInv, Typed
<1>2. req'[h] = r /\ \A g \in Handlers : g # h => req'[g] = req[g]
  BY <1>1
<1>3. TxsStay /\ MostGrows
  BY <1>1, MostStays DEF TxsStay
<1>4. CreditWithinShare'
  BY <1>1, <1>3, SharesStay DEF Ledger
<1>5. \A g \in Handlers : SentOK(req[g])'
  BY <1>1, <1>2 DEF Ledger, SentOK
<1>6. DOMAIN r.own = {}
  BY IdleTyped
<1>7. ASSUME NEW d \in Ids, NEW w \in Investors, <<d, w>> \notin offBooks' PROVE Booked(d, w)'
  <2>1. Booked(d, w) /\ <<d, w>> \notin req[h].sent
    BY <1>1, <1>7 DEF Ledger
  <2>2. \A g \in Handlers : Holds(g, <<d, w>>)' => g # h /\ Holds(g, <<d, w>>) /\ req'[g] = req[g]
    BY <1>2, <1>6 DEF Holds
  <2>3. \A f, g \in Handlers : Holds(f, <<d, w>>)' /\ Holds(g, <<d, w>>)' => f = g
    BY <2>1, <2>2 DEF Booked
  <2>4. \A g \in Handlers : Holds(g, <<d, w>>)' =>
          /\ row'[d][w].amount <= req'[g].own[<<d, w>>].amount
          /\ <<d, w>> \in req'[g].sent => credit'[d][w] <= req'[g].own[<<d, w>>].amount
    BY <2>1, <2>2 DEF Booked
  <2>5. \/ \E g \in Handlers : <<d, w>> \in req'[g].sent
        \/ credit'[d][w] <= row'[d][w].amount
        \/ IsRent(d)' /\ credit'[d][w] <= txs'[d].pay[w]
    <3>1. \A g \in Handlers : <<d, w>> \in req[g].sent => <<d, w>> \in req'[g].sent
      BY <1>2, <2>1
    <3>2. IsRent(d)' <=> IsRent(d)
      BY DEF IsRent
    <3>3. QED
      BY <2>1, <3>1, <3>2 DEF Booked
  <2>6. QED
    BY <2>3, <2>4, <2>5 DEF Booked
<1>8. QED
  BY <1>4, <1>5, <1>7 DEF Ledger

LEMMA StartBooks ==
  ASSUME Books, YieldInv', NEW h \in Handlers, NEW kind, NEW d, Start(h, kind, d)
  PROVE  Ledger'
<1> DEFINE stage == IF kind = "confirm" THEN "handle" ELSE "read"
           r == [Idle EXCEPT !.kind = kind, !.pay = d, !.stage = stage]
<1>1. /\ req[h].stage = "off" /\ req' = [req EXCEPT ![h] = r]
      /\ UNCHANGED <<txs, most, credit, row, offBooks>>
  BY DEF Start, chain, db
<1> HIDE DEF stage
<1>2. r.own = Idle.own /\ r.sent = {}
  <2> DEFINE i == Idle
             q == [i EXCEPT !.kind = kind, !.pay = d, !.stage = stage]
  <2>1. i = [f \in Fields |-> i[f]] /\ i.sent = {}
    BY IdleTyped DEF IsRequest
  <2> HIDE DEF i
  <2>2. q.own = i.own /\ q.sent = i.sent
    BY <2>1 DEF Fields
  <2>3. QED
    BY <2>1, <2>2 DEF i
<1> HIDE DEF r
<1>3. req[h].sent = {}
  BY <1>1 DEF Books, Ledger, SentOK
<1>4. QED
  BY <1>1, <1>2, <1>3, DropBooks

LEMMA CrashBooks ==
  ASSUME Books, YieldInv', NEW h \in Handlers, Crash(h)
  PROVE  Ledger'
<1>1. /\ req' = [req EXCEPT ![h] = Idle] /\ offBooks' = offBooks \cup req[h].sent
      /\ UNCHANGED <<txs, most, credit, row>>
  BY DEF Crash, RollsBack, chain
<1>2. QED
  BY <1>1, IdleTyped, DropBooks

LEMMA AddFailsBooks ==
  ASSUME Books, YieldInv', NEW h \in Handlers, AddFails(h)
  PROVE  Ledger'
<1> DEFINE r == [req[h] EXCEPT !.stage = "rows"]
<1>1. /\ req[h].stage = "add" /\ UNCHANGED <<txs, most, credit, row, offBooks>>
      /\ req' = [req EXCEPT ![h] = IF req[h].kind = "confirm" THEN r ELSE Idle]
      /\ YieldInv
  BY DEF AddFails, db, Books, YieldInv, Typed
<1>2. req[h].sent = {}
  BY <1>1 DEF Books, Ledger, SentOK
<1>3. CASE req[h].kind = "confirm"
  <2>1. r.own = req[h].own /\ r.sent = req[h].sent /\ r.stage = "rows"
    BY <1>1, OwnState DEF IsRequest, Fields
  <2> HIDE DEF r
  <2>2. req'[h] = r /\ \A g \in Handlers : g # h => req'[g] = req[g]
    BY <1>1, <1>3, OwnState
  <2>3. TxsStay /\ MostGrows
    BY <1>1, MostStays DEF YieldInv, TxsStay
  <2>4. QED
    BY <1>1, <1>2, <2>1, <2>2, <2>3, LedgerStays DEF Books
<1>4. CASE req[h].kind # "confirm"
  <2>1. req' = [req EXCEPT ![h] = Idle]
    BY <1>1, <1>4
  <2>2. QED
    BY <1>1, <1>2, <2>1, IdleTyped, DropBooks
<1>5. QED
  BY <1>3, <1>4

(* Steps of a request that write no row *)
LEMMA StepBooks ==
  ASSUME Books, YieldInv', NEW h \in Handlers, NEW r, req' = [req EXCEPT ![h] = r],
         r.own = req[h].own, r.sent = req[h].sent,
         r.stage \in {"off", "handle", "read", "add"} => req[h].sent = {},
         offBooks \subseteq offBooks',
         \A d \in Ids, w \in Investors : credit'[d][w] = credit[d][w] \/ <<d, w>> \in offBooks',
         UNCHANGED <<txs, most, row>>
  PROVE  Ledger'
<1>1. YieldInv /\ Ledger
  BY DEF Books
<1>2. req'[h] = r /\ \A g \in Handlers : g # h => req'[g] = req[g]
  BY <1>1, OwnState
<1>3. TxsStay /\ MostGrows
  BY <1>1, MostStays DEF YieldInv, TxsStay
<1>4. QED
  BY <1>1, <1>2, <1>3, LedgerStays

LEMMA PlainBooks ==
  ASSUME Books, YieldInv', NEW h \in Handlers,
         \/ ReadListed(h) \/ AddInvestors(h) \/ CreditsDone(h)
         \/ RegisterBuyer(h) \/ Finalized(h)
  PROVE  Ledger'
<1>1. YieldInv /\ SentOK(req[h])
  BY DEF Books, Ledger
<1>2. ASSUME NEW stage, NEW new, NEW todo, NEW r,
             \/ r = [req[h] EXCEPT !.stage = stage]
             \/ r = [req[h] EXCEPT !.stage = stage, !.todo = todo]
             \/ r = [req[h] EXCEPT !.new = new, !.stage = stage]
      PROVE  r.own = req[h].own /\ r.sent = req[h].sent /\ r.stage = stage
  BY <1>1, <1>2, OwnState DEF IsRequest, Fields
<1>3. ASSUME UNCHANGED <<txs, most, credit, row, offBooks>>, NEW stage, NEW r,
             req' = [req EXCEPT ![h] = r],
             r.own = req[h].own, r.sent = req[h].sent, r.stage = stage,
             stage \in {"off", "handle", "read", "add"} => req[h].sent = {}
      PROVE  Ledger'
  BY <1>3, StepBooks
<1>4. CASE ReadListed(h)
  <2>1. PICK already \in {listed, {}} :
          req' = [req EXCEPT ![h].new = {w \in known : bal[w] > 0} \ already, ![h].stage = "add"]
    BY <1>4 DEF ReadListed
  <2> DEFINE new == {w \in known : bal[w] > 0} \ already
             r == [req[h] EXCEPT !.new = new, !.stage = "add"]
  <2> HIDE DEF new
  <2>2. req' = [req EXCEPT ![h] = r]
    BY <1>1, <2>1, OwnState DEF new
  <2>3. r.own = req[h].own /\ r.sent = req[h].sent /\ r.stage = "add"
    BY <1>2
  <2>4. req[h].sent = {} /\ UNCHANGED <<txs, most, credit, row, offBooks>>
    BY <1>1, <1>4 DEF ReadListed, SentOK, chain, db
  <2> HIDE DEF r
  <2>5. QED
    BY <1>3, <2>2, <2>3, <2>4
<1>5. CASE AddInvestors(h)
  <2> DEFINE todo == Distributions(req[h]) \X req[h].new
             r == [req[h] EXCEPT !.stage = "credit", !.todo = todo]
  <2>1. req' = [req EXCEPT ![h].stage = "credit", ![h].todo = todo]
    BY <1>5 DEF AddInvestors
  <2> HIDE DEF todo
  <2>2. req' = [req EXCEPT ![h] = r]
    BY <1>1, <2>1, OwnState
  <2>3. r.own = req[h].own /\ r.sent = req[h].sent /\ r.stage = "credit"
    BY <1>2
  <2>4. UNCHANGED <<txs, most, credit, row, offBooks>>
    BY <1>5 DEF AddInvestors, db
  <2> HIDE DEF r
  <2>5. QED
    BY <1>3, <2>2, <2>3, <2>4
<1>6. CASE CreditsDone(h)
  <2> DEFINE next == IF req[h].stage = "credit" THEN AfterSync(req[h].kind) ELSE "end"
             todo == IF next = "creditAll" THEN Distributions(req[h]) \X Investors ELSE {}
             r == [req[h] EXCEPT !.stage = next, !.todo = todo]
  <2>1. req' = [req EXCEPT ![h].stage = next, ![h].todo = todo]
    BY <1>6 DEF CreditsDone
  <2>2. next \notin {"off", "handle", "read", "add"}
    BY DEF AfterSync
  <2> HIDE DEF next, todo
  <2>3. req' = [req EXCEPT ![h] = r]
    BY <1>1, <2>1, OwnState
  <2>4. r.own = req[h].own /\ r.sent = req[h].sent /\ r.stage = next
    BY <1>2
  <2>5. UNCHANGED <<txs, most, credit, row, offBooks>>
    BY <1>6 DEF CreditsDone, chain, db
  <2> HIDE DEF r
  <2>6. QED
    BY <1>3, <2>2, <2>3, <2>4, <2>5
<1>7. CASE RegisterBuyer(h)
  <2> DEFINE r == [req[h] EXCEPT !.stage = "end"]
  <2>1. req' = [req EXCEPT ![h].stage = "end"] /\ UNCHANGED <<txs, most, credit, row, offBooks>>
    BY <1>7 DEF RegisterBuyer, db
  <2>2. req' = [req EXCEPT ![h] = r]
    BY <1>1, <2>1, OwnState
  <2>3. r.own = req[h].own /\ r.sent = req[h].sent /\ r.stage = "end"
    BY <1>2
  <2> HIDE DEF r
  <2>4. QED
    BY <1>3, <2>1, <2>2, <2>3
<1>8. CASE Finalized(h)
  <2> DEFINE r == [req[h] EXCEPT !.stage = "end", !.todo = {}]
  <2>1. /\ req' = [req EXCEPT ![h].stage = "end", ![h].todo = {}]
        /\ UNCHANGED <<txs, most, credit, row, offBooks>>
    BY <1>8 DEF Finalized, chain, db
  <2>2. req' = [req EXCEPT ![h] = r]
    BY <1>1, <2>1, OwnState
  <2>3. r.own = req[h].own /\ r.sent = req[h].sent /\ r.stage = "end"
    BY <1>2, ZenonT(60)
  <2> HIDE DEF r
  <2>4. QED
    BY <1>3, <2>1, <2>2, <2>3
<1>9. QED
  BY <1>4, <1>5, <1>6, <1>7, <1>8

LEMMA FinalizeAccrueBooks ==
  ASSUME Books, YieldInv', NEW h \in Handlers, FinalizeAccrue(h)
  PROVE  Ledger'
<1>1. YieldInv /\ Typed
  BY DEF Books, YieldInv
<1>2. PICK x \in UnpaidBy(req[h]), n \in 0 .. Attempts, answered \in BOOLEAN :
        /\ Accrue(x, Share(bal, x[2]), n, answered)
        /\ offBooks' = IF n > 0 THEN offBooks \cup {x} ELSE offBooks
        /\ req' = [req EXCEPT ![h].todo = @ \ {x}]
  BY DEF FinalizeAccrue
<1> DEFINE todo == req[h].todo \ {x}
           r == [req[h] EXCEPT !.todo = todo]
<1>3. req[h].stage = "accrue" /\ x \in Ids \X Investors
  BY <1>1, OwnState DEF FinalizeAccrue, UnpaidBy
<1>4. PICK d \in Ids, w \in Investors : x = <<d, w>>
  BY <1>3
<1>5. Share(bal, w) \in Nat /\ n \in Nat
  BY <1>1, ShareNat DEF Attempts
<1>6. /\ credit'[d][w] = credit[d][w] + n * Share(bal, w) /\ credit[d][w] \in Nat
      /\ \A e \in Ids, v \in Investors : <<e, v>> # <<d, w>> => credit'[e][v] = credit[e][v]
      /\ UNCHANGED <<bal, most, listed, eth, txs, db, raced>>
  <2>1. Accrue(<<d, w>>, Share(bal, w), n, answered)
    BY <1>2, <1>4
  <2>2. QED
    BY <1>1, <1>5, <2>1, AccrueTyped
<1>7. \A e \in Ids, v \in Investors : credit'[e][v] = credit[e][v] \/ <<e, v>> \in offBooks'
  <2>1. CASE n > 0
    <3>1. <<d, w>> \in offBooks'
      BY <1>2, <1>4, <2>1
    <3>2. QED
      BY <1>6, <3>1
  <2>2. CASE n = 0
    <3>1. n * Share(bal, w) = 0
      BY <1>5, <2>2
    <3>2. credit'[d][w] = credit[d][w]
      BY <1>6, <3>1
    <3>3. QED
      BY <1>6, <3>2
  <2>3. n > 0 \/ n = 0
    BY <1>5
  <2>4. QED
    BY <2>1, <2>2, <2>3, Zenon
<1>8. req' = [req EXCEPT ![h] = r]
  BY <1>1, <1>2, OwnState
<1> HIDE DEF todo
<1>9. r.own = req[h].own /\ r.sent = req[h].sent /\ r.stage = "accrue"
  BY <1>1, <1>3, OwnState DEF IsRequest, Fields
<1> HIDE DEF r
<1>10. offBooks \subseteq offBooks' /\ UNCHANGED <<txs, most, row>>
  BY <1>2, <1>6 DEF db
<1>11. QED
  BY <1>7, <1>8, <1>9, <1>10, StepBooks

(* A credit of CreditMissed: its row covers all that was credited *)
LEMMA CreditMissedBooks ==
  ASSUME Books, YieldInv', NEW h \in Handlers, CreditMissed(h)
  PROVE  Ledger'
<1>1. /\ YieldInv /\ Ledger /\ Typed /\ RowsOK /\ SentOK(req[h])
      /\ req = [g \in Handlers |-> req[g]] /\ IsOwn(req[h].own)
  BY OwnState DEF Books, Ledger, YieldInv
<1>0. PICK d \in Ids, w \in Investors, n \in 0 .. Attempts, answered \in BOOLEAN :
        \E r : CreditsPair(h, d, w, n, answered, r)
  BY <1>1, Credits
<1>2. PICK r : CreditsPair(h, d, w, n, answered, r)
  BY <1>0
<1> DEFINE own == req[h].own
           seen == SeenBy(own, d, w).amount
           share == Share(bal, w)
           missing == share - seen
<1>3. /\ seen \in Nat /\ share \in Nat /\ credit[d][w] \in Nat /\ row[d][w].amount \in Nat
      /\ missing \in Nat /\ missing > 0 /\ seen >= txs[d].pay[w] /\ txs[d].pay[w] \in Nat
  <2>1. row[d][w] \in Rows /\ credit[d][w] \in Nat
    BY <1>1 DEF Typed
  <2>2. IsRent(d) /\ missing \in Nat /\ missing > 0 /\ seen >= txs[d].pay[w]
    BY <1>2 DEF CreditsPair
  <2>3. QED
    BY <1>1, <2>1, <2>2, PayTyped, SeenTyped, ShareNat DEF Rows
<1>4. /\ req'[h] = r /\ (\A g \in Handlers : g # h => req'[g] = req[g]) /\ r.stage = req[h].stage
      /\ credit'[d][w] = credit[d][w] + n * missing
      /\ \A e \in Ids, v \in Investors : <<e, v>> # <<d, w>> => credit'[e][v] = credit[e][v]
      /\ answered => /\ n > 0 /\ DOMAIN r.own = DOMAIN own \cup {<<d, w>>}
                     /\ r.own[<<d, w>>].amount = share
                     /\ \A y \in DOMAIN own : y # <<d, w>> => r.own[y] = own[y]
                     /\ r.sent = req[h].sent \cup {<<d, w>>}
      /\ ~answered => r.own = own /\ r.sent = req[h].sent
      /\ offBooks' = offBooks \cup (IF OffBooks(h, <<d, w>>, n, answered) THEN {<<d, w>>} ELSE {})
      /\ UNCHANGED <<bal, most, txs, row>>
  BY <1>1, <1>2 DEF CreditsPair, db
<1> HIDE DEF missing, seen, share
<1>5. TxsStay /\ MostGrows
  BY <1>1, <1>4, MostStays DEF TxsStay
<1>6. ASSUME <<d, w>> \notin offBooks', n > 0
      PROVE  Booked(d, w)' /\ (credit'[d][w] = credit[d][w] \/ credit'[d][w] <= share)
  <2>1. /\ n = 1 /\ answered /\ <<d, w>> \notin offBooks
        /\ \A g \in Handlers \ {h} : ~Holds(g, <<d, w>>)
    BY <1>4, <1>6 DEF OffBooks
  <2>2. Booked(d, w)
    BY <1>1, <2>1 DEF Ledger
  <2>3. row[d][w].amount <= seen
    <3>1. CASE <<d, w>> \in DOMAIN own
      BY <2>2, <3>1 DEF Booked, Holds, SeenBy, seen
    <3>2. CASE <<d, w>> \notin DOMAIN own
      BY <1>3, <3>2 DEF SeenBy, seen
    <3>3. QED
      BY <3>1, <3>2
  <2>4. credit[d][w] <= seen
    <3>1. CASE \E g \in Handlers : <<d, w>> \in req[g].sent
      <4>1. PICK g \in Handlers : <<d, w>> \in req[g].sent
        BY <3>1
      <4>2. Holds(g, <<d, w>>)
        BY <1>1, <4>1 DEF Ledger, SentOK, Holds
      <4>3. g = h
        BY <2>1, <4>2
      <4>4. credit[d][w] <= own[<<d, w>>].amount /\ <<d, w>> \in DOMAIN own
        BY <2>2, <4>1, <4>2, <4>3 DEF Booked, Holds
      <4>5. QED
        BY <4>4 DEF SeenBy, seen
    <3>2. CASE credit[d][w] <= row[d][w].amount
      BY <1>3, <2>3, <3>2
    <3>3. CASE credit[d][w] <= txs[d].pay[w]
      BY <1>3, <3>3
    <3>4. QED
      BY <2>2, <3>1, <3>2, <3>3 DEF Booked
  <2>5. credit'[d][w] <= share /\ row[d][w].amount <= share
    <3>1. credit'[d][w] = credit[d][w] + missing
      BY <1>3, <1>4, <2>1
    <3>2. missing = share - seen
      BY DEF missing
    <3>3. QED
      BY <1>3, <2>3, <2>4, <3>1, <3>2
  <2>6. Booked(d, w)'
    <3>1. \A g \in Handlers : Holds(g, <<d, w>>)' => g = h
      BY <1>4, <2>1 DEF Holds
    <3>2. <<d, w>> \in req'[h].sent /\ req'[h].own[<<d, w>>].amount = share
      BY <1>4, <2>1
    <3>3. \A f, g \in Handlers : Holds(f, <<d, w>>)' /\ Holds(g, <<d, w>>)' => f = g
      BY <3>1
    <3>4. \A g \in Handlers : Holds(g, <<d, w>>)' =>
            /\ row'[d][w].amount <= req'[g].own[<<d, w>>].amount
            /\ <<d, w>> \in req'[g].sent => credit'[d][w] <= req'[g].own[<<d, w>>].amount
      BY <1>4, <2>5, <3>1, <3>2
    <3>5. QED
      BY <3>2, <3>3, <3>4 DEF Booked
  <2>7. QED
    BY <2>5, <2>6
<1>7. ASSUME <<d, w>> \notin offBooks', n = 0
      PROVE  Booked(d, w)' /\ (credit'[d][w] = credit[d][w] \/ credit'[d][w] <= share)
  <2>1. ~answered /\ Booked(d, w)
    BY <1>1, <1>4, <1>7 DEF Ledger
  <2>2. credit'[d][w] = credit[d][w]
    BY <1>3, <1>4, <1>7
  <2>3. \A g \in Handlers : req'[g].own = req[g].own /\ req'[g].sent = req[g].sent
    BY <1>4, <2>1
  <2>4. Booked(d, w)'
    BY <1>1, <1>4, <1>5, <2>1, <2>2, <2>3, BookedStays DEF Holds
  <2>5. QED
    BY <2>2, <2>4
<1>8. n = 0 \/ n > 0
  BY DEF Attempts
<1>9. <<d, w>> \notin offBooks' =>
        Booked(d, w)' /\ (credit'[d][w] = credit[d][w] \/ credit'[d][w] <= share)
  BY <1>6, <1>7, <1>8
<1>10. CreditWithinShare'
  <2>1. \A e \in Ids, v \in Investors :
           \/ credit'[e][v] = credit[e][v] \/ <<e, v>> \in offBooks'
           \/ credit'[e][v] <= Share(bal, v)
    <3>1. ASSUME NEW e \in Ids, NEW v \in Investors
          PROVE  \/ credit'[e][v] = credit[e][v] \/ <<e, v>> \in offBooks'
                 \/ credit'[e][v] <= Share(bal, v)
      <4>1. CASE <<e, v>> = <<d, w>>
        <5>1. e = d /\ v = w
          BY <4>1
        <5>2. QED
          BY <1>9, <5>1 DEF share
      <4>2. CASE <<e, v>> # <<d, w>>
        BY <1>4, <4>2
      <4>3. QED
        BY <4>1, <4>2
    <3>2. QED
      BY <3>1
  <2>2. offBooks \subseteq offBooks'
    BY <1>4
  <2>3. QED
    BY <1>1, <1>5, <2>1, <2>2, SharesStay DEF Ledger
<1>11. \A g \in Handlers : SentOK(req[g])'
  <2>1. SentOK(r)
    <3>1. r.stage \in {"credit", "creditAll"}
      BY <1>4 DEF CreditMissed
    <3>2. r.sent \subseteq DOMAIN r.own
      BY <1>1, <1>4 DEF SentOK
    <3>3. QED
      BY <3>1, <3>2 DEF SentOK
  <2>2. QED
    BY <1>1, <1>4, <2>1 DEF Ledger, SentOK
<1>12. ASSUME NEW e \in Ids, NEW v \in Investors, <<e, v>> \notin offBooks' PROVE Booked(e, v)'
  <2>1. CASE <<e, v>> = <<d, w>>
    <3>1. e = d /\ v = w
      BY <2>1
    <3>2. QED
      BY <1>9, <1>12, <3>1
  <2>2. CASE <<e, v>> # <<d, w>>
    <3>1. Booked(e, v) /\ credit'[e][v] = credit[e][v]
      BY <1>1, <1>4, <1>12, <2>2 DEF Ledger
    <3>2. \A g \in Handlers :
            /\ <<e, v>> \in DOMAIN req'[g].own <=> <<e, v>> \in DOMAIN req[g].own
            /\ <<e, v>> \in DOMAIN req[g].own => req'[g].own[<<e, v>>] = req[g].own[<<e, v>>]
            /\ <<e, v>> \in req'[g].sent <=> <<e, v>> \in req[g].sent
      BY <1>4, <2>2
    <3>3. QED
      BY <1>1, <1>4, <1>5, <3>1, <3>2, BookedStays DEF Holds
  <2>3. QED
    BY <2>1, <2>2
<1>13. QED
  BY <1>10, <1>11, <1>12 DEF Ledger
-------------------------------------------------------------------------------
(* Own writes that grow: rows added where none was seen *)
AddsRows(own, n) ==
  /\ IsOwn(n) /\ DOMAIN own \subseteq DOMAIN n
  /\ \A x \in DOMAIN own : n[x] = own[x]
  /\ \A d \in Ids, w \in Investors :
       <<d, w>> \in DOMAIN n \ DOMAIN own => row[d][w].amount = 0

LEMMA InsertedAdds ==
  ASSUME YieldInv, NEW h \in Handlers, NEW d \in Ids, NEW amounts \in [Investors -> Nat]
  PROVE  AddsRows(req[h].own, Inserted(req[h].own, d, amounts))
<1> DEFINE own == req[h].own
           n == Inserted(own, d, amounts)
           new == {<<d, w>> : w \in {v \in Investors : amounts[v] > 0
                                       /\ SeenBy(own, d, v).status = "none"}}
<1>1. IsOwn(own) /\ OwnOK(own, req[h].pay) /\ Typed /\ RowsOK
  BY OwnState
<1>2. /\ IsOwn(n) /\ DOMAIN n = DOMAIN own \cup new
      /\ \A x \in DOMAIN own \ new : n[x] = own[x]
      /\ \A w \in Investors : <<d, w>> \in new <=>
           amounts[w] > 0 /\ SeenBy(own, d, w).status = "none"
  BY <1>1, InsertedRows, SMTT(60)
<1>3. \A x \in new : \E w \in Investors : x = <<d, w>>
  OBVIOUS
<1> HIDE DEF new, n
<1>4. ASSUME NEW w \in Investors, <<d, w>> \in new
      PROVE  <<d, w>> \notin DOMAIN own /\ row[d][w].amount = 0
  <2>1. SeenBy(own, d, w).status = "none"
    BY <1>2, <1>4
  <2>2. <<d, w>> \notin DOMAIN own
    <3>1. ASSUME <<d, w>> \in DOMAIN own PROVE FALSE
      <4>1. own[<<d, w>>].status # "none"
        BY <1>1, <3>1 DEF OwnOK
      <4>2. QED
        BY <2>1, <3>1, <4>1 DEF SeenBy
    <3>2. QED
      BY <3>1
  <2>3. row[d][w].status = "none"
    BY <2>1, <2>2 DEF SeenBy
  <2>4. QED
    BY <1>1, <2>2, <2>3 DEF RowsOK
<1>5. \A x \in DOMAIN own : x \notin new
  BY <1>3, <1>4
<1>6. \A e \in Ids, w \in Investors : <<e, w>> \in DOMAIN n \ DOMAIN own => row[e][w].amount = 0
  <2>1. ASSUME NEW e \in Ids, NEW w \in Investors, <<e, w>> \in new PROVE row[e][w].amount = 0
    <3>1. e = d
      BY <1>3, <2>1
    <3>2. QED
      BY <1>4, <2>1, <3>1
  <2>2. QED
    BY <1>2, <2>1
<1>7. QED
  BY <1>2, <1>5, <1>6 DEF AddsRows, n

LEMMA RowsAdded ==
  ASSUME YieldInv, NEW h \in Handlers, NEW d \in Ids
  PROVE  /\ AddsRows(req[h].own, RowsBackfilled(req[h].own, d))
         /\ IsRent(d) => AddsRows(req[h].own, RentRows(req[h].own, d))
<1>1. Typed /\ SharesNow \in [Investors -> Nat]
  BY OwnState, SharesNowTyped
<1>2. AddsRows(req[h].own, RowsBackfilled(req[h].own, d))
  BY <1>1, InsertedAdds DEF RowsBackfilled
<1>3. ASSUME IsRent(d) PROVE AddsRows(req[h].own, RentRows(req[h].own, d))
  <2>1. txs[d].pay \in [Investors -> Nat]
    BY <1>1, <1>3, PayTyped
  <2>2. AddsRows(req[h].own, Inserted(req[h].own, d, txs[d].pay))
    BY <2>1, InsertedAdds
  <2>3. QED
    BY <1>2, <2>2 DEF RentRows, RowsOrBackfill
<1>4. QED
  BY <1>2, <1>3

(* A handler adds rows that no other handler has inserted *)
LEMMA AddsBooks ==
  ASSUME Books, YieldInv', NEW h \in Handlers, NEW r, req' = [req EXCEPT ![h] = r],
         AddsRows(req[h].own, r.own), r.sent = req[h].sent,
         r.stage \in {"off", "handle", "read", "add"} => r.sent = {},
         MayInsert(DOMAIN r.own \ DOMAIN req[h].own, Handlers \ {h}),
         UNCHANGED <<txs, most, credit, row, offBooks>>
  PROVE  Ledger'
<1>1. /\ YieldInv /\ Ledger /\ Typed /\ req = [g \in Handlers |-> req[g]] /\ SentOK(req[h])
  BY DEF Books, YieldInv, Typed, Ledger
<1>2. req'[h] = r /\ \A g \in Handlers : g # h => req'[g] = req[g]
  BY <1>1
<1>3. TxsStay /\ MostGrows
  BY <1>1, MostStays DEF TxsStay
<1>4. CreditWithinShare'
  BY <1>1, <1>3, SharesStay DEF Ledger
<1>5. \A g \in Handlers : SentOK(req[g])'
  <2>1. SentOK(r)
    BY <1>1 DEF SentOK, AddsRows
  <2>2. QED
    BY <1>1, <1>2, <2>1 DEF Ledger, SentOK
<1>6. ASSUME NEW d \in Ids, NEW w \in Investors, <<d, w>> \notin offBooks' PROVE Booked(d, w)'
  <2>1. Booked(d, w)
    BY <1>1, <1>6 DEF Ledger
  <2>2. CASE <<d, w>> \in DOMAIN r.own \ DOMAIN req[h].own
    <3>1. row[d][w].amount = 0 /\ r.own[<<d, w>>] \in Rows
      BY <2>2 DEF AddsRows, IsOwn
    <3>2. r.own[<<d, w>>].amount \in Nat
      BY <3>1 DEF Rows
    <3>3. \A g \in Handlers : ~Holds(g, <<d, w>>)
      BY <2>2 DEF MayInsert, Holds
    <3>4. \A g \in Handlers : <<d, w>> \notin req[g].sent
      BY <1>1, <3>3 DEF Ledger, SentOK, Holds
    <3>5. \A g \in Handlers : Holds(g, <<d, w>>)' => g = h
      BY <1>2, <3>3 DEF Holds
    <3>6. <<d, w>> \notin req'[h].sent /\ req'[h].own = r.own
      BY <1>2, <3>4
    <3>7. \A f, g \in Handlers : Holds(f, <<d, w>>)' /\ Holds(g, <<d, w>>)' => f = g
      BY <3>5
    <3>8. \A g \in Handlers : Holds(g, <<d, w>>)' =>
            /\ row'[d][w].amount <= req'[g].own[<<d, w>>].amount
            /\ <<d, w>> \in req'[g].sent => credit'[d][w] <= req'[g].own[<<d, w>>].amount
      BY <3>1, <3>2, <3>5, <3>6
    <3>9. \/ credit'[d][w] <= row'[d][w].amount
          \/ IsRent(d)' /\ credit'[d][w] <= txs'[d].pay[w]
      BY <2>1, <3>4 DEF Booked, IsRent
    <3>10. QED
      BY <3>7, <3>8, <3>9 DEF Booked
  <2>3. CASE <<d, w>> \notin DOMAIN r.own \ DOMAIN req[h].own
    <3>1. \A g \in Handlers :
            /\ <<d, w>> \in DOMAIN req'[g].own <=> <<d, w>> \in DOMAIN req[g].own
            /\ <<d, w>> \in DOMAIN req[g].own => req'[g].own[<<d, w>>] = req[g].own[<<d, w>>]
            /\ <<d, w>> \in req'[g].sent <=> <<d, w>> \in req[g].sent
      BY <1>2, <2>3 DEF AddsRows
    <3>2. QED
      BY <1>1, <1>3, <2>1, <3>1, BookedStays DEF Holds
  <2>4. QED
    BY <2>2, <2>3
<1>7. QED
  BY <1>4, <1>5, <1>6 DEF Ledger

LEMMA HandleRentBooks ==
  ASSUME Books, YieldInv', NEW h \in Handlers, HandleRent(h)
  PROVE  Ledger'
<1> DEFINE d == req[h].pay
           n == RentRows(req[h].own, d)
           r == [req[h] EXCEPT !.stage = "read", !.own = n]
<1>1. /\ req[h].stage = "handle" /\ MayInsert(DOMAIN n, Handlers \ {h})
      /\ req' = [req EXCEPT ![h].stage = "read", ![h].own = RentRows(@, d)]
      /\ UNCHANGED <<txs, most, credit, row, offBooks>>
  BY DEF HandleRent, chain, db
<1>2. YieldInv /\ SentOK(req[h])
  BY DEF Books, Ledger
<1>3. IsRent(d) /\ d \in Ids
  BY <1>1, <1>2, OwnState, PayTyped DEF RequestOK
<1>4. AddsRows(req[h].own, n)
  BY <1>2, <1>3, RowsAdded
<1>5. req' = [req EXCEPT ![h] = r]
  BY <1>1, <1>2, OwnState
<1> HIDE DEF n
<1>6. r.own = n /\ r.sent = req[h].sent /\ r.stage = "read"
  BY <1>2, OwnState DEF IsRequest, Fields
<1> HIDE DEF r
<1>7. req[h].sent = {}
  BY <1>1, <1>2 DEF SentOK
<1>8. MayInsert(DOMAIN r.own \ DOMAIN req[h].own, Handlers \ {h})
  BY <1>1, <1>6 DEF MayInsert
<1>9. QED
  BY <1>1, <1>4, <1>5, <1>6, <1>7, <1>8, AddsBooks

LEMMA FinalizeRowsBooks ==
  ASSUME Books, YieldInv', NEW h \in Handlers, FinalizeRows(h)
  PROVE  Ledger'
<1> DEFINE d == req[h].pay
           n == RowsBackfilled(req[h].own, d)
           todo == {d} \X Investors
           r == [req[h] EXCEPT !.stage = "accrue", !.todo = todo, !.own = n]
<1>1. /\ req[h].stage = "rows"
      /\ MayInsert(DOMAIN n \ DOMAIN req[h].own, Handlers \ {h})
      /\ req' = [req EXCEPT ![h].stage = "accrue", ![h].todo = todo, ![h].own = n]
      /\ UNCHANGED <<txs, most, credit, row, offBooks>>
  BY DEF FinalizeRows, chain, db
<1>2. YieldInv
  BY DEF Books
<1>3. d \in Ids
  BY <1>1, <1>2, OwnState DEF RequestOK
<1>4. AddsRows(req[h].own, n)
  BY <1>2, <1>3, RowsAdded
<1> HIDE DEF n, todo
<1>5. req' = [req EXCEPT ![h] = r]
  BY <1>1, <1>2, OwnState
<1>6. r.own = n /\ r.sent = req[h].sent /\ r.stage = "accrue"
  BY <1>2, OwnState DEF IsRequest, Fields
<1> HIDE DEF r
<1>7. QED
  BY <1>1, <1>4, <1>5, <1>6, AddsBooks
-------------------------------------------------------------------------------
(* A commit of rows that nobody else holds, after which nobody holds them *)
LEMMA CommitBooks ==
  ASSUME Books, YieldInv', NEW own, IsOwn(own), NEW p \in Ids \cup {0}, OwnOK(own, p),
         p # 0 => IsRent(p) /\ Covers(own, p), Commits(own, p),
         \A h \in Handlers : req'[h] = req[h] \/ (req'[h] = Idle /\ req[h].own = own),
         \A x \in DOMAIN own \ offBooks, h \in Handlers : Holds(h, x) => req'[h] = Idle,
         UNCHANGED <<most, credit, offBooks>>
  PROVE  Ledger'
<1>1. /\ YieldInv /\ Ledger /\ Typed /\ RowsOK
      /\ Idle.sent = {} /\ DOMAIN Idle.own = {} /\ Idle.stage = "off"
  BY IdleTyped DEF Books, YieldInv
<1>2. /\ TxsStay /\ RowsGrow
      /\ \A d \in Ids, w \in Investors : row'[d][w].amount >= SeenBy(own, d, w).amount
  BY <1>1, CommitRows
<1>3. MostGrows
  BY <1>1, MostStays
<1>4. CreditWithinShare'
  BY <1>1, <1>3, SharesStay DEF Ledger
<1>5. \A h \in Handlers : SentOK(req[h])'
  BY <1>1 DEF Ledger, SentOK
<1>6. ASSUME NEW d \in Ids, NEW w \in Investors, <<d, w>> \notin offBooks' PROVE Booked(d, w)'
  <2>1. Booked(d, w) /\ <<d, w>> \notin offBooks
    BY <1>1, <1>6 DEF Ledger
  <2>2. CASE <<d, w>> \in DOMAIN own
    <3>1. \A h \in Handlers : Holds(h, <<d, w>>) => req'[h] = Idle
      BY <2>1, <2>2
    <3>2. \A h \in Handlers : ~Holds(h, <<d, w>>)'
      BY <1>1, <3>1 DEF Holds
    <3>3. IsRent(d)' <=> IsRent(d)
      BY DEF Commits, IsRent
    <3>4. \/ credit'[d][w] <= row'[d][w].amount
          \/ IsRent(d)' /\ credit'[d][w] <= txs'[d].pay[w]
      <4>1. /\ row[d][w].amount \in Nat /\ row'[d][w].amount \in Nat /\ credit[d][w] \in Nat
            /\ own[<<d, w>>].amount \in Nat
        <5>1. row[d][w] \in Rows /\ row'[d][w] \in Rows /\ own[<<d, w>>] \in Rows
          BY <1>1, <2>2 DEF YieldInv, Typed, IsOwn
        <5>2. credit[d][w] \in Nat
          BY <1>1 DEF Typed
        <5>3. QED
          BY <5>1, <5>2 DEF Rows
      <4>2. CASE \E h \in Handlers : <<d, w>> \in req[h].sent
        <5>1. PICK h \in Handlers : <<d, w>> \in req[h].sent
          BY <4>2
        <5>2. Holds(h, <<d, w>>) /\ req[h] # Idle
          BY <1>1, <5>1 DEF Ledger, SentOK, Holds
        <5>3. req[h].own = own
          BY <3>1, <5>2
        <5>4. credit[d][w] <= own[<<d, w>>].amount
          BY <2>1, <5>1, <5>2, <5>3 DEF Booked
        <5>5. row'[d][w].amount >= own[<<d, w>>].amount
          BY <1>2, <2>2 DEF SeenBy
        <5>6. QED
          BY <4>1, <5>4, <5>5
      <4>3. CASE credit[d][w] <= row[d][w].amount
        <5>1. row'[d][w].amount >= row[d][w].amount
          BY <1>2 DEF RowsGrow
        <5>2. QED
          BY <4>1, <4>3, <5>1
      <4>4. CASE IsRent(d) /\ credit[d][w] <= txs[d].pay[w]
        BY <3>3, <4>4 DEF Commits
      <4>5. QED
        BY <2>1, <4>2, <4>3, <4>4 DEF Booked
    <3>5. QED
      BY <3>2, <3>4 DEF Booked
  <2>3. CASE <<d, w>> \notin DOMAIN own
    <3>1. row'[d][w] = row[d][w]
      BY <2>3 DEF Commits, Committed
    <3>2. \A h \in Handlers : req'[h] # req[h] => ~Holds(h, <<d, w>>) /\ <<d, w>> \notin req[h].sent
      BY <1>1, <2>3 DEF Holds, Ledger, SentOK
    <3>3. \A h \in Handlers :
            /\ Holds(h, <<d, w>>)' <=> Holds(h, <<d, w>>)
            /\ Holds(h, <<d, w>>) => req'[h].own[<<d, w>>] = req[h].own[<<d, w>>]
            /\ <<d, w>> \in req'[h].sent <=> <<d, w>> \in req[h].sent
      BY <1>1, <3>2 DEF Holds
    <3>4. QED
      BY <1>1, <1>2, <2>1, <3>1, <3>3, BookedStays
  <2>4. QED
    BY <2>2, <2>3
<1>7. QED
  BY <1>4, <1>5, <1>6 DEF Ledger

LEMMA IndexRentBooks ==
  ASSUME Books, YieldInv', NEW t \in Ids, IndexRent(t)
  PROVE  Ledger'
<1> DEFINE n == RentRows(Idle.own, t)
<1>1. /\ IsRent(t) /\ row' = Committed(n) /\ indexed' = indexed \cup {t}
      /\ MayInsert(DOMAIN n, Handlers) /\ UNCHANGED <<chain, req, offBooks, raced>>
  BY DEF IndexRent
<1>2. IsOwn(Idle.own) /\ OwnOK(Idle.own, t) /\ Typed /\ RowsOK
  BY IdleTyped, NothingOwned DEF Books, YieldInv
<1>3. t \in indexed \cup {t} /\ t # 0 /\ t \in Ids \cup {0}
  BY DEF Ids
<1>4. IsOwn(n) /\ OwnOK(n, t) /\ Covers(n, t)
  BY <1>1, <1>2, <1>3, RentRowsKeepsOwn
<1> HIDE DEF n
<1>5. Commits(n, t) /\ UNCHANGED <<most, credit, offBooks>>
  BY <1>1, <1>3 DEF Commits, chain
<1>6. \A x \in DOMAIN n \ offBooks, h \in Handlers : ~Holds(h, x)
  BY <1>1 DEF MayInsert
<1>7. \A h \in Handlers : req'[h] = req[h]
  BY <1>1
<1>8. QED
  BY <1>1, <1>3, <1>4, <1>5, <1>6, <1>7, CommitBooks

LEMMA EndBooks ==
  ASSUME Books, YieldInv', NEW h \in Handlers, End(h)
  PROVE  Ledger'
<1> DEFINE own == req[h].own
           p == req[h].pay
<1>1. /\ req[h].stage = "end" /\ req' = [req EXCEPT ![h] = Idle]
      /\ UNCHANGED <<chain, raced>> /\ YieldInv
  BY DEF End, Books
<1>2. req'[h] = Idle /\ \A g \in Handlers : g # h => req'[g] = req[g]
  BY <1>1, BecomesIdle
<1>3. CASE req[h].kind = "prepare"
  <2>1. UNCHANGED row /\ offBooks' = offBooks \cup req[h].sent
    BY <1>3 DEF End, RollsBack
  <2>2. QED
    BY <1>1, <2>1, IdleTyped, DropBooks DEF chain
<1>4. CASE req[h].kind # "prepare"
  <2>1. row' = Committed(own) /\ indexed' = indexed \cup ({p} \ {0}) /\ UNCHANGED offBooks
    BY <1>4 DEF End
  <2>2. Commits(own, p) /\ UNCHANGED <<most, credit, offBooks>>
    BY <1>1, <2>1 DEF Commits, chain
  <2>3. IsOwn(own) /\ p \in Ids \cup {0} /\ OwnOK(own, p)
    BY <1>1, OwnState
  <2>4. p # 0 => IsRent(p) /\ Covers(own, p)
    BY <1>1, OwnState DEF RequestOK
  <2>5. ASSUME NEW x \in DOMAIN own \ offBooks, NEW g \in Handlers, Holds(g, x) PROVE g = h
    <3>1. PICK d \in Ids, w \in Investors : x = <<d, w>>
      BY <2>3, <2>5 DEF IsOwn
    <3>2. Booked(d, w) /\ Holds(h, <<d, w>>) /\ Holds(g, <<d, w>>)
      BY <2>5, <3>1 DEF Books, Ledger, Holds
    <3>3. QED
      BY <3>2 DEF Booked
  <2>6. \A x \in DOMAIN own \ offBooks, g \in Handlers : Holds(g, x) => req'[g] = Idle
    BY <1>2, <2>5
  <2>7. ASSUME NEW g \in Handlers PROVE req'[g] = req[g] \/ (req'[g] = Idle /\ req[g].own = own)
    <3>1. CASE g = h
      BY <1>2, <3>1
    <3>2. CASE g # h
      BY <1>2, <3>2
    <3>3. QED
      BY <3>1, <3>2
  <2> HIDE DEF own, p
  <2>8. QED
    BY <2>2, <2>3, <2>4, <2>6, <2>7, CommitBooks
<1>5. QED
  BY <1>3, <1>4

LEMMA InitGivesBooks ==
  ASSUME Init
  PROVE  Books
<1>1. YieldInv
  BY InitGivesYieldInv
<1>2. /\ \A d \in Ids, w \in Investors : credit[d][w] = 0 /\ row[d][w] = NoRow
      /\ \A h \in Handlers : req[h] = Idle
  BY DEF Init
<1>3. NoRow.amount = 0
  BY DEF NoRow
<1>4. CreditWithinShare
  <2>1. ASSUME NEW d \in Ids, NEW w \in Investors PROVE credit[d][w] <= Share(most, w)
    <3>1. most \in [Investors -> Nat] /\ most[w] <= most[w]
      BY <1>1 DEF YieldInv, Typed
    <3>2. Share(most, w) \in Nat
      BY <3>1, ShareMonotone
    <3>3. QED
      BY <1>2, <3>2
  <2>2. QED
    BY <2>1 DEF CreditWithinShare
<1>5. \A h \in Handlers : SentOK(req[h])
  BY <1>2, IdleTyped DEF SentOK
<1>6. \A d \in Ids, w \in Investors : Booked(d, w)
  BY <1>2, <1>3, IdleTyped DEF Booked, Holds
<1>7. QED
  BY <1>1, <1>4, <1>5, <1>6 DEF Books, Ledger

LEMMA NextKeepsBooks ==
  ASSUME Books, [Next]_vars
  PROVE  Books'
<1>1. YieldInv'
  BY NextKeepsYieldInv DEF Books
<1>2. ASSUME NEW w \in Investors, Buy(w) \/ Claim(w) \/ IndexHolder(w) PROVE Ledger'
  BY <1>1, <1>2, BuyBooks, ClaimBooks, IndexHolderBooks
<1>3. ASSUME NEW v \in Investors, NEW w \in Investors, Transfer(v, w) PROVE Ledger'
  BY <1>1, <1>3, TransferBooks
<1>4. ASSUME PayRent PROVE Ledger'
  BY <1>1, <1>4, PayRentBooks
<1>5. ASSUME NEW t \in Ids, IndexRent(t) \/ IndexClaim(t) PROVE Ledger'
  BY <1>1, <1>5, IndexRentBooks, IndexClaimBooks
<1>6. ASSUME NEW h \in Handlers, NEW kind \in Kinds, NEW d \in Ids \cup {0}, Start(h, kind, d)
      PROVE  Ledger'
  BY <1>1, <1>6, StartBooks
<1>7. ASSUME NEW h \in Handlers,
             \/ HandleRent(h) \/ ReadListed(h) \/ AddInvestors(h) \/ AddFails(h)
             \/ CreditMissed(h) \/ CreditsDone(h) \/ RegisterBuyer(h)
             \/ FinalizeRows(h) \/ FinalizeAccrue(h) \/ Finalized(h) \/ End(h) \/ Crash(h)
      PROVE  Ledger'
  <2>1. CASE ReadListed(h) \/ AddInvestors(h) \/ CreditsDone(h) \/ RegisterBuyer(h) \/ Finalized(h)
    BY <1>1, <2>1, PlainBooks
  <2>2. CASE HandleRent(h) \/ AddFails(h) \/ CreditMissed(h)
    BY <1>1, <2>2, HandleRentBooks, AddFailsBooks, CreditMissedBooks
  <2>3. CASE FinalizeRows(h) \/ FinalizeAccrue(h) \/ End(h) \/ Crash(h)
    BY <1>1, <2>3, FinalizeRowsBooks, FinalizeAccrueBooks, EndBooks, CrashBooks
  <2>4. QED
    BY <1>7, <2>1, <2>2, <2>3
<1>8. ASSUME UNCHANGED vars PROVE Ledger'
  <2>1. UNCHANGED <<txs, most, row, req, credit, offBooks>>
    BY <1>8 DEF vars, chain, db
  <2>2. MostGrows /\ TxsStay
    BY <2>1, MostStays DEF Books, YieldInv, TxsStay
  <2>3. QED
    BY <1>1, <2>1, <2>2, LedgerStays DEF Books
<1>9. Ledger'
  BY <1>2, <1>3, <1>4, <1>5, <1>6, <1>7, <1>8 DEF Next
<1>10. QED
  BY <1>1, <1>9 DEF Books

LEMMA BooksKept == Spec => []Books
<1>1. Init => Books
  BY InitGivesBooks
<1>2. Books /\ [Next]_vars => Books'
  BY NextKeepsBooks
<1>3. QED
  BY <1>1, <1>2, PTL DEF Spec

(* Nobody is credited more for a payment than the share of the most they   *)
(* held, whatever requests overlap, fail or die (sync_investors_to_contract*)
(* and backfill_missed_rent_accruals), but for credits off the books.      *)
THEOREM CreditsStayWithinShares == Spec => []CreditWithinShare
<1>1. Books => CreditWithinShare
  BY DEF Books, Ledger
<1>2. QED
  BY <1>1, BooksKept, PTL

(* What was credited for an indexed payment is on the rows of the payment, *)
(* or on those of a running request that will commit it, but for credits   *)
(* off the books (backfill_missed_rent_accruals writes a row after its     *)
(* credit; the rows are what the next request reads).                      *)
THEOREM CreditsAreRecorded == Spec => []CreditsRecorded
<1>1. Books => CreditsRecorded
  <2>1. ASSUME Books, NEW d \in indexed, NEW w \in Investors, <<d, w>> \notin offBooks,
               \A h \in Handlers : <<d, w>> \notin req[h].sent
        PROVE  credit[d][w] <= row[d][w].amount
    <3>1. Typed /\ RowsOK /\ Ledger /\ txs \in Seq(Txs) /\ Len(txs) <= MaxTxs
      BY <2>1 DEF Books, YieldInv, Typed
    <3>2. d \in Ids
      <4>1. d \in 1 .. Len(txs) /\ Len(txs) \in Nat
        BY <2>1, <3>1 DEF Typed
      <4>2. QED
        BY <3>1, <4>1, YieldAssumption DEF Ids
    <3>3. Booked(d, w)
      BY <2>1, <3>1, <3>2 DEF Ledger
    <3>4. row[d][w].amount \in Nat /\ credit[d][w] \in Nat
      <4>1. row[d][w] \in Rows /\ credit[d][w] \in Nat
        BY <3>1, <3>2 DEF Typed
      <4>2. QED
        BY <4>1 DEF Rows
    <3>5. CASE credit[d][w] <= row[d][w].amount
      BY <3>5
    <3>6. CASE IsRent(d) /\ credit[d][w] <= txs[d].pay[w]
      <4>1. row[d][w].amount >= txs[d].pay[w] /\ txs[d].pay[w] \in Nat
        BY <2>1, <3>1, <3>2, <3>6, PayTyped DEF RowsOK
      <4>2. QED
        BY <3>4, <3>6, <4>1
    <3>7. QED
      BY <2>1, <3>3, <3>5, <3>6 DEF Booked
  <2>2. QED
    BY <2>1 DEF CreditsRecorded
<1>2. QED
  BY <1>1, BooksKept, PTL
===============================================================================
