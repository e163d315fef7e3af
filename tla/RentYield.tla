------------------------------ MODULE RentYield -------------------------------
(***************************************************************************)
(* How the backend keeps the rent yield of one property: RentDistribution  *)
(* holds what investors may claim, and the tables rent_distributions and   *)
(* investor_rent_payouts say what each rent payment earned whom.  Request  *)
(* handlers of routers/rent.py and routers/investments.py credit investors *)
(* that a payment missed (accrueInvestorRewards) and write the rows they   *)
(* credited; the indexer writes rows from events.  A credit is a           *)
(* transaction, sent again when its receipt does not come, so it may be    *)
(* mined several times; a handler's rows exist only once it commits.       *)
(*                                                                         *)
(* Payments and claims are the entries of txs; an entry's index stands for *)
(* its hash and for its block's timestamp.                                 *)
(***************************************************************************)
EXTENDS Integers, Sequences, FiniteSets, Functions

CONSTANTS
  Investors,    \* wallets that may hold the property's tokens
  Supply,       \* totalSupply() of the token, unsold inventory included
  Rent,         \* the monthly rent
  Handlers,     \* API worker threads
  Kinds,        \* which requests are made
  MaxTxs,       \* bound: payments and claims
  MaxRequests,  \* bound: requests
  MaxMoves,     \* bound: secondary transfers
  MaxCrashes,   \* bound: requests that die
  MaxFaults     \* bound: calls that fail or whose receipt does not come in time

ASSUME YieldAssumption ==
  /\ IsFiniteSet(Investors) /\ Supply \in Nat \ {0} /\ Rent \in Nat \ {0}
  /\ Kinds \subseteq {"prepare", "sync", "register", "confirm"}
  /\ {MaxTxs, MaxRequests, MaxMoves, MaxCrashes, MaxFaults} \subseteq Nat

VARIABLES
  bal,        \* balanceOf of each investor; the rest is unsold
  known,      \* holders in token_ownerships
  listed,     \* _isInvestor
  claimable,  \* propertyClaimableRewards
  eth,        \* ETH held by RentDistribution for this property
  txs,        \* payRent and claimRewards transactions, in the order mined
  indexed,    \* transactions whose rows are committed
  row,        \* investor_rent_payouts, per payment and investor
  req,        \* the request each handler is serving
  left,       \* what remains of the bounds
  credit,     \* history: all an investor was credited for a payment
  most,       \* history: the most tokens an investor ever held
  offBooks,   \* history: credits the rows do not vouch for (see OffBooks)
  raced       \* history: claims last indexed while a handler had rows to commit

chain == <<bal, most, listed, claimable, eth, txs, credit>>
db == <<known, indexed, row>>
vars == <<chain, db, req, left, offBooks, raced>>

Ids == 1 .. MaxTxs
Attempts == 3  \* how often build_and_send sends
NoRow == [amount |-> 0, status |-> "none"]
Idle == [kind |-> "none", stage |-> "off", pay |-> 0, new |-> {},
         own |-> [x \in {} |-> NoRow], todo |-> {}, sent |-> {}]

Init ==
  /\ bal = [w \in Investors |-> 0] /\ known = {} /\ listed = {}
  /\ claimable = [w \in Investors |-> 0] /\ eth = 0 /\ txs = <<>>
  /\ indexed = {} /\ row = [d \in Ids |-> [w \in Investors |-> NoRow]]
  /\ req = [h \in Handlers |-> Idle]
  /\ left = [requests |-> MaxRequests, moves |-> MaxMoves,
              crashes |-> MaxCrashes, faults |-> MaxFaults]
  /\ credit = [d \in Ids |-> [w \in Investors |-> 0]] /\ most = bal
  /\ offBooks = {} /\ raced = {}

IsRent(t) == t \in DOMAIN txs /\ txs[t].kind = "rent"
IsClaim(t) == t \in DOMAIN txs /\ txs[t].kind = "claim"
Spend(what) == left[what] > 0 /\ left' = [left EXCEPT ![what] = @ - 1]
-------------------------------------------------------------------------------
(* The chain.                                                              *)
Share(b, w) == (Rent * b[w]) \div Supply

MutOneTooMany == SumFunction(bal) <= Supply
HasInventory == SumFunction(bal) < Supply

NotesMost == most' = [w \in Investors |-> IF bal'[w] > most[w] THEN bal'[w] ELSE most[w]]

(* SecurityToken.invest, and a transfer between two investors.             *)
Buy(w) ==
  /\ HasInventory
  /\ bal' = [bal EXCEPT ![w] = @ + 1] /\ NotesMost
  /\ UNCHANGED <<listed, claimable, eth, txs, credit, db, req, left, offBooks, raced>>

Transfer(v, w) ==
  /\ v # w /\ bal[v] > 0 /\ Spend("moves")
  /\ bal' = [bal EXCEPT ![v] = @ - 1, ![w] = @ + 1] /\ NotesMost
  /\ UNCHANGED <<listed, claimable, eth, txs, credit, db, req, offBooks, raced>>

PayRent ==
  LET pay == [w \in Investors |-> IF w \in listed THEN Share(bal, w) ELSE 0]
      d == Len(txs) + 1
  IN /\ listed # {} /\ d \in Ids
     /\ txs' = Append(txs, [kind |-> "rent", pay |-> pay])
     /\ claimable' = [w \in Investors |-> claimable[w] + pay[w]]
     /\ credit' = [credit EXCEPT ![d] = pay]
     /\ eth' = eth + Rent
     /\ UNCHANGED <<bal, most, listed, db, req, left, offBooks, raced>>

Claim(w) ==
  /\ claimable[w] > 0 /\ eth >= claimable[w] /\ Len(txs) + 1 \in Ids
  /\ txs' = Append(txs, [kind |-> "claim", who |-> w])
  /\ claimable' = [claimable EXCEPT ![w] = 0]
  /\ eth' = eth - claimable[w]
  /\ UNCHANGED <<bal, most, listed, credit, db, req, left, offBooks, raced>>
-------------------------------------------------------------------------------
(* Rows and what writes them.                                              *)

(* get_rent_distribution_breakdown: the listed investors' shares now or,   *)
(* if there is none, those of all indexed holders.                         *)
Breakdown ==
  LET shared == {w \in listed : Share(bal, w) > 0}
  IN IF shared # {} THEN shared ELSE {w \in known : Share(bal, w) > 0}

MutNeverClaimed(d, w) == "claimable"
(* A new row is claimed if a claim at or after the payment is indexed.     *)
NewStatus(d, w) ==
  IF \E t \in indexed : IsClaim(t) /\ txs[t].who = w /\ t >= d
  THEN "claimed" ELSE "claimable"

(* Rows as a handler sees them: its own writes, else the committed ones.   *)
SeenBy(own, d, w) == IF <<d, w>> \in DOMAIN own THEN own[<<d, w>>] ELSE row[d][w]

(* Inserts of rows that are not there, as own writes.                      *)
Inserted(own, d, amounts) ==
  LET new == {<<d, w>> : w \in {v \in Investors : amounts[v] > 0
                                  /\ SeenBy(own, d, v).status = "none"}}
  IN [x \in DOMAIN own \cup new |->
        IF x \in new THEN [amount |-> amounts[x[2]], status |-> NewStatus(d, x[2])]
        ELSE own[x]]

(* backfill_investor_payout_rows_for_distribution                          *)
SharesNow == [w \in Investors |-> IF w \in Breakdown THEN Share(bal, w) ELSE 0]
RowsBackfilled(own, d) == Inserted(own, d, SharesNow)

(* _handle_rent_events: rows from the InvestorPaid events; if they add no  *)
(* row (as in every replay), rows for whoever holds a share now.           *)
RowsOrBackfill(own, paid, d) == IF paid = own THEN RowsBackfilled(own, d) ELSE paid
RentRows(own, d) == RowsOrBackfill(own, Inserted(own, d, txs[d].pay), d)

(* A commit: ON CONFLICT DO NOTHING keeps a row another one committed      *)
(* first, unless this request updated that row.                            *)
Committed(own) ==
  [d \in Ids |-> [w \in Investors |->
     IF <<d, w>> \notin DOMAIN own THEN row[d][w]
     ELSE IF row[d][w].status # "none" /\ own[<<d, w>>].amount <= row[d][w].amount
     THEN row[d][w] ELSE own[<<d, w>>]]]

(* The upsert of rent_payments waits for a handler that has done it and    *)
(* not committed, an insert for the handler that inserted the same row.    *)
Unlocked(d) == \A h \in Handlers : ~(req[h].pay = d /\ req[h].stage \notin {"off", "handle"})
Holds(h, x) == x \in DOMAIN req[h].own
MayInsert(keys, others) == \A x \in keys, h \in others : ~Holds(h, x)

Precedes(d, t) == d <= t

(* reconcile_transaction, by the indexer or a confirm route, first time or *)
(* again: one database transaction.                                        *)
IndexRent(t) ==
  /\ IsRent(t) /\ Unlocked(t) /\ MayInsert(DOMAIN RentRows(Idle.own, t), Handlers)
  /\ row' = Committed(RentRows(Idle.own, t))
  /\ indexed' = indexed \cup {t}
  /\ UNCHANGED <<chain, known, req, left, offBooks, raced>>

(* _handle_reward_claim_event                                              *)
IndexClaim(t) ==
  /\ IsClaim(t)
  /\ row' = [d \in Ids |-> [w \in Investors |->
               IF w = txs[t].who /\ Precedes(d, t) /\ row[d][w].status = "claimable"
               THEN [row[d][w] EXCEPT !.status = "claimed"] ELSE row[d][w]]]
  /\ indexed' = indexed \cup {t}
  /\ raced' = IF \E h \in Handlers : req[h].own # Idle.own THEN raced \cup {t} ELSE raced \ {t}
  /\ UNCHANGED <<chain, known, req, left, offBooks>>

(* The ownership rows follow the chain (module Indexer).                   *)
IndexHolder(w) ==
  /\ (w \in known) # (bal[w] > 0)
  /\ known' = IF bal[w] > 0 THEN known \cup {w} ELSE known \ {w}
  /\ UNCHANGED <<chain, indexed, row, req, left, offBooks, raced>>
-------------------------------------------------------------------------------
(* Requests.  sync-rent-chain locks the property's row until it commits.   *)
MayStart(kind) == kind = "sync" => \A h \in Handlers : req[h].kind # "sync"

Start(h, kind, d) ==
  /\ req[h].stage = "off" /\ MayStart(kind) /\ Spend("requests")
  /\ IF kind = "confirm" THEN IsRent(d) /\ d \notin indexed ELSE d = 0
  /\ req' = [req EXCEPT ![h] = [Idle EXCEPT !.kind = kind, !.pay = d,
                      !.stage = IF kind = "confirm" THEN "handle" ELSE "read"]]
  /\ UNCHANGED <<chain, db, offBooks, raced>>

(* confirm_rent_payment, up to _handle_rent_events.                        *)
HandleRent(h) ==
  LET d == req[h].pay
  IN /\ req[h].stage = "handle" /\ Unlocked(d)
     /\ MayInsert(DOMAIN RentRows(req[h].own, d), Handlers \ {h})
     /\ req' = [req EXCEPT ![h].stage = "read", ![h].own = RentRows(@, d)]
     /\ UNCHANGED <<chain, db, left, offBooks, raced>>

(* sync_investors_to_contract: the holders not yet listed, or all of them  *)
(* when the list cannot be read, ...                                       *)
ReadListed(h) ==
  /\ req[h].stage = "read"
  /\ \E already \in {listed, {}} :
       /\ IF already = listed THEN UNCHANGED left ELSE Spend("faults")
       /\ req' = [req EXCEPT ![h].new = {w \in known : bal[w] > 0} \ already,
                             ![h].stage = "add"]
  /\ UNCHANGED <<chain, db, offBooks, raced>>

Distributions(r) == {d \in indexed \cup {r.pay} : IsRent(d)}

(* ... are added, in one transaction ...                                   *)
AddInvestors(h) ==
  LET r == req[h]
  IN /\ r.stage = "add"
     /\ listed' = listed \cup r.new
     /\ req' = [req EXCEPT ![h].stage = "credit", ![h].todo = Distributions(r) \X r.new]
     /\ UNCHANGED <<bal, most, claimable, eth, txs, credit, db, left, offBooks, raced>>

(* (no receipt came for it, mined or not: confirm_rent_payment goes on     *)
(* without a sync, the others end in a rollback)                           *)
AddFails(h) ==
  /\ req[h].stage = "add" /\ req[h].new # {} /\ Spend("faults")
  /\ listed' \in {listed, listed \cup req[h].new}
  /\ req' = [req EXCEPT ![h] = IF @.kind = "confirm" THEN [@ EXCEPT !.stage = "rows"] ELSE Idle]
  /\ UNCHANGED <<bal, most, claimable, eth, txs, credit, db, offBooks, raced>>

MutForgetsRows(own, d, w) == Share(bal, w)
(* What backfill_missed_rent_accruals credits for one payment.             *)
Shortfall(own, d, w) == Share(bal, w) - SeenBy(own, d, w).amount

AfterSync(kind) ==
  CASE kind = "sync" -> "creditAll" [] kind = "confirm" -> "rows"
    [] kind = "register" -> "buyer" [] OTHER -> "end"

(* accrueInvestorRewards, sent until a receipt comes or for the last time: *)
(* answered or not, n of the transactions sent are mined.                  *)
Accrue(x, amount, n, answered) ==
  /\ answered => n > 0
  /\ IF answered /\ n = 1 THEN UNCHANGED left ELSE Spend("faults")
  /\ claimable' = [claimable EXCEPT ![x[2]] = @ + n * amount]
  /\ credit' = [credit EXCEPT ![x[1]][x[2]] = @ + n * amount]
  /\ UNCHANGED <<bal, most, listed, eth, txs, db, raced>>

(* Credits the rows do not vouch for: mined more than once or without an   *)
(* answer, or made while another request had an uncommitted row for the    *)
(* same payment and investor.                                              *)
OffBooks(h, x, n, answered) ==
  n > 0 /\ (n > 1 \/ ~answered \/ \E g \in Handlers \ {h} : Holds(g, x))

(* ... and credited, one by one, for the payments they missed; the credit  *)
(* goes out before its row is written, and one that fails ends the rest.   *)
MissedBy(r) ==
  {x \in r.todo : x[2] \in Breakdown \cap listed /\ Shortfall(r.own, x[1], x[2]) > 0}

CreditMissed(h) ==
  LET r == req[h]
  IN /\ r.stage \in {"credit", "creditAll"}
     /\ \E x \in MissedBy(r), n \in 0 .. Attempts, answered \in BOOLEAN :
          /\ \A y \in MissedBy(r) : x[1] <= y[1]
          /\ Accrue(x, Shortfall(r.own, x[1], x[2]), n, answered)
          /\ offBooks' = offBooks \cup (IF OffBooks(h, x, n, answered) THEN {x} ELSE {})
          /\ req' = [req EXCEPT ![h] =
               IF answered
               THEN [r EXCEPT !.todo = {y \in @ : y[1] >= x[1]} \ {x}, !.sent = @ \cup {x},
                              !.own = [y \in DOMAIN @ \cup {x} |->
                                 IF y = x THEN [amount |-> Share(bal, x[2]), status |-> "claimable"]
                                 ELSE @[y]]]
               ELSE [r EXCEPT !.todo = {}]]

(* sync-rent-chain then does the same for every investor.                  *)
CreditsDone(h) ==
  LET r == req[h]
      next == IF r.stage = "credit" THEN AfterSync(r.kind) ELSE "end"
  IN /\ r.stage \in {"credit", "creditAll"} /\ MissedBy(r) = {}
     /\ req' = [req EXCEPT ![h].stage = next, ![h].todo =
                  IF next = "creditAll" THEN Distributions(r) \X Investors ELSE {}]
     /\ UNCHANGED <<chain, db, left, offBooks, raced>>

(* register_investor_for_property_yield: the buyer is listed even if no    *)
(* ownership row says so, and then gets no credit for earlier payments; a  *)
(* call that fails ends it without an error.                               *)
RegisterBuyer(h) ==
  /\ req[h].stage = "buyer"
  /\ \E w \in Investors : listed' \in {listed, IF bal[w] > 0 THEN listed \cup {w} ELSE listed}
  /\ req' = [req EXCEPT ![h].stage = "end"]
  /\ UNCHANGED <<bal, most, claimable, eth, txs, credit, db, left, offBooks, raced>>

(* finalize_investor_rent_yield_after_payment, after its sync: rows for    *)
(* the holders, then a credit for each share the events did not pay,       *)
(* whatever the rows say.  tx.value is the rent: payRent takes no other.   *)
FinalizeRows(h) ==
  LET d == req[h].pay
      own == RowsBackfilled(req[h].own, d)
  IN /\ req[h].stage = "rows"
     /\ MayInsert(DOMAIN own \ DOMAIN req[h].own, Handlers \ {h})
     /\ req' = [req EXCEPT ![h].stage = "accrue", ![h].todo = {d} \X Investors, ![h].own = own]
     /\ UNCHANGED <<chain, db, left, offBooks, raced>>

UnpaidBy(r) ==
  {x \in r.todo : x[2] \in Breakdown \cap listed /\ txs[x[1]].pay[x[2]] = 0}

(* One that fails is logged and the loop goes on.                          *)
FinalizeAccrue(h) ==
  /\ req[h].stage = "accrue"
  /\ \E x \in UnpaidBy(req[h]), n \in 0 .. Attempts, answered \in BOOLEAN :
       /\ Accrue(x, Share(bal, x[2]), n, answered)
       /\ offBooks' = IF n > 0 THEN offBooks \cup {x} ELSE offBooks
       /\ req' = [req EXCEPT ![h].todo = @ \ {x}]

Finalized(h) ==
  /\ req[h].stage = "accrue" /\ UnpaidBy(req[h]) = {}
  /\ req' = [req EXCEPT ![h].stage = "end", ![h].todo = {}]
  /\ UNCHANGED <<chain, db, left, offBooks, raced>>

(* pay-rent/prepare ends without a commit: closing its connection rolls    *)
(* back.  The others commit.                                               *)
RollsBack(h) ==
  /\ offBooks' = offBooks \cup req[h].sent
  /\ UNCHANGED <<row, indexed>>

End(h) ==
  /\ req[h].stage = "end"
  /\ IF req[h].kind = "prepare" THEN RollsBack(h)
     ELSE /\ row' = Committed(req[h].own)
          /\ indexed' = indexed \cup ({req[h].pay} \ {0})
          /\ UNCHANGED offBooks
  /\ req' = [req EXCEPT ![h] = Idle]
  /\ UNCHANGED <<chain, known, left, raced>>

Crash(h) ==
  /\ req[h].stage # "off" /\ Spend("crashes") /\ RollsBack(h)
  /\ req' = [req EXCEPT ![h] = Idle]
  /\ UNCHANGED <<chain, known, raced>>

Next ==
  \/ \E w \in Investors : Buy(w) \/ Claim(w) \/ IndexHolder(w)
  \/ \E v, w \in Investors : Transfer(v, w)
  \/ PayRent
  \/ \E t \in Ids : IndexRent(t) \/ IndexClaim(t)
  \/ \E h \in Handlers, kind \in Kinds, d \in Ids \cup {0} : Start(h, kind, d)
  \/ \E h \in Handlers :
       \/ HandleRent(h) \/ ReadListed(h) \/ AddInvestors(h) \/ AddFails(h)
       \/ CreditMissed(h) \/ CreditsDone(h) \/ RegisterBuyer(h)
       \/ FinalizeRows(h) \/ FinalizeAccrue(h) \/ Finalized(h) \/ End(h) \/ Crash(h)

Spec == Init /\ [][Next]_vars
-------------------------------------------------------------------------------
(* Types of every variable.                                                *)
TypeOK ==
  /\ bal \in [Investors -> 0 .. Supply] /\ claimable \in [Investors -> Nat]
  /\ listed \subseteq Investors /\ known \subseteq Investors /\ eth \in Nat
  /\ indexed \subseteq DOMAIN txs
  /\ row \in [Ids -> [Investors -> [amount : Nat, status : {"none", "claimable", "claimed"}]]]

(* Nobody is credited more for a payment than the share of the most they   *)
(* held, unless a credit for it was off the books: sent again or never     *)
(* answered, of a request that overlapped or did not commit, or made by    *)
(* confirm's own loop.  Nothing else credits twice.                        *)
CreditWithinShare ==
  \A d \in Ids, w \in Investors :
    credit[d][w] <= Share(most, w) \/ <<d, w>> \in offBooks

(* All that was credited for an indexed payment is on its rows, or will be *)
(* when a running request commits, but for credits off the books.          *)
CreditsRecorded ==
  \A d \in indexed, w \in Investors :
    \/ credit[d][w] <= row[d][w].amount \/ <<d, w>> \in offBooks
    \/ \E h \in Handlers : <<d, w>> \in req[h].sent

(* What finalize_investor_rent_yield_after_payment says of itself, with    *)
(* requests one by one and no faults: it credits who was still skipped, so *)
(* nobody gets more for a payment than the share of what they hold.        *)
CreditedOnce == \A d \in Ids, w \in Investors : credit[d][w] <= Share(bal, w)

(* Whatever order a payment and a later claim are indexed in, the row the  *)
(* payment made is claimed, unless a credit was added to it afterwards or  *)
(* a request that had not committed was about to write it; indexing the    *)
(* claim again after that request mends it.                                *)
ClaimSettlesRows ==
  \A d \in indexed, t \in indexed \ raced, w \in Investors :
    (/\ IsRent(d) /\ IsClaim(t) /\ d < t /\ txs[t].who = w
     /\ txs[d].pay[w] > 0 /\ row[d][w].amount = txs[d].pay[w])
    => row[d][w].status = "claimed"
===============================================================================
