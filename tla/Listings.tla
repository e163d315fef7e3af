------------------------------- MODULE Listings -------------------------------
(***************************************************************************)
(* How a property gets its token: the setup pipeline behind POST           *)
(* /properties and its streaming variant (create), deploy-token,           *)
(* repair-sale-inventory, issue-tokens and delete.  Every step locks the   *)
(* property's row, sends transactions while it holds the lock, and writes  *)
(* the row; the transactions stay if the step then fails.                  *)
(*                                                                         *)
(* All requests are about one owner's one payload, without monthly rent    *)
(* (the pipeline's rent step then changes nothing).  Amounts are whole     *)
(* tokens.                                                                 *)
(*                                                                         *)
(* One process serves everything.  Its event loop starts the requests,     *)
(* closes their connections and runs the streaming variant up to its       *)
(* insert; all other steps run in threads.                                 *)
(***************************************************************************)
EXTENDS Integers, Sequences, FiniteSets, SequencesExt

CONSTANTS
  Handlers,     \* API worker threads
  Kinds,        \* which requests are made
  NoOne,        \* nobody holds a lock
  Supply,       \* token_supply
  Attempts,     \* sends of one transaction before it is given up, 3 in the code
  MaxRequests,  \* bound: requests
  MaxTokens,    \* bound: token contracts deployed
  Budget,       \* bounds: how often each kind of fault happens
  MaxFaults     \* bound: how many kinds of fault happen in one behaviour

Faults == {"rpc", "timeout", "revert", "session", "crash"}

ASSUME ListingsAssumption ==
  /\ NoOne \notin Handlers /\ IsFiniteSet(Handlers)
  /\ Kinds \subseteq {"create", "stream", "deploy", "repair", "issue", "delete"}
  /\ Supply \in Nat \ {0} /\ Attempts \in Nat \ {0}
  /\ MaxRequests \in Nat /\ MaxTokens \in Nat /\ Budget \in [Faults -> Nat]
  /\ MaxFaults \in Nat

VARIABLES
  rows,        \* properties; index = id, token 0 = NULL, again: inserted
               \* although a listing was found
  tokens,      \* token contracts sent to the chain; index = address
  issues,      \* mints to wallets; index = hash
  indexed,     \* issues whose reconciliation has committed
  createLock,  \* the advisory lock of the payload's fingerprint
  rowLock,     \* who locked a row of properties FOR UPDATE
  req,         \* the request each handler serves
  left,        \* what remains of the bounds
  doubtful     \* history: tokens whose sale mint was not seen to the end

db == <<rows, indexed, createLock, rowLock>>
chain == <<tokens, issues>>
vars == <<db, chain, req, left, doubtful>>

Idle == [kind |-> "none", phase |-> "none", stage |-> "off", row |-> 0,
         token |-> 0, issue |-> 0, tries |-> 0, lost |-> FALSE]
Ids == 1 .. MaxRequests

Init ==
  /\ rows = <<>> /\ tokens = <<>> /\ issues = <<>> /\ indexed = {}
  /\ createLock = NoOne /\ rowLock = [i \in Ids |-> NoOne]
  /\ req = [h \in Handlers |-> Idle]
  /\ left = [f \in Faults \cup {"request"} |-> IF f = "request" THEN MaxRequests ELSE Budget[f]]
  /\ doubtful = {}

Spend(what) ==
  /\ left[what] > 0
  /\ what \in Faults
       => Cardinality({f \in Faults \ {what} : left[f] < Budget[f]}) < MaxFaults
  /\ left' = [left EXCEPT ![what] = @ - 1]

Listed == {i \in DOMAIN rows : rows[i].state = "active"}
Investable(i) == rows[i].token # 0 /\ tokens[rows[i].token].code
OnSale(k) == tokens[k].minted + tokens[k].issued > 0
Owned(i) == Cardinality({t \in indexed : issues[t] = rows[i].token})

(* The end of a request's database transaction, committed or not.          *)
Unlocked(h) == [i \in Ids |-> IF rowLock[i] = h THEN NoOne ELSE rowLock[i]]
Close(h) ==
  /\ rowLock' = Unlocked(h)
  /\ createLock' = IF createLock = h THEN NoOne ELSE createLock
End(h) == Close(h) /\ req' = [req EXCEPT ![h] = Idle]
-------------------------------------------------------------------------------
(* Requests.                                                               *)
MutNoCreateLock(h) == TRUE
(* pg_advisory_xact_lock                                                   *)
CreateLockFree(h) == createLock = NoOne

(* A stream calls it on the event loop, which waits with it.               *)
LoopFree ==
  \A h \in Handlers : req[h].kind = "stream" /\ req[h].stage = "enter" => CreateLockFree(h)

(* An archived row is still found by its id.                               *)
Start(h, kind, i) ==
  /\ req[h].stage = "off" /\ kind \in Kinds /\ Spend("request") /\ LoopFree
  /\ IF kind \in {"create", "stream"} THEN i = 0
     ELSE i \in DOMAIN rows /\ rows[i].state # "deleted"
  /\ req' = [req EXCEPT ![h] =
               [Idle EXCEPT !.kind = kind, !.row = i,
                  !.phase = IF i = 0 THEN "create" ELSE kind,
                  !.stage = IF i = 0 THEN "enter" ELSE "lock"]]
  /\ UNCHANGED <<db, chain, doubtful>>

(* is_investable_token_contract takes a failing call for a missing token.  *)
Check(i, ok) ==
  IF ok \/ rows[i].token = 0 THEN ok /\ UNCHANGED left ELSE Spend("rpc")
Seen(i, ok) == ok /\ Investable(i)

(* find_existing_property, under the lock: a listing that has its token is *)
(* the answer, one that has not is set up again, and else a row is         *)
(* inserted.  The streaming variant announces that it resumes the listing  *)
(* and then goes on to insert another.                                     *)
Find(h, ok) ==
  LET found == IF Listed = {} THEN 0 ELSE CHOOSE i \in Listed : \A j \in Listed : i <= j
  IN /\ req[h].stage = "enter" /\ CreateLockFree(h)
     /\ IF found = 0 THEN ok /\ UNCHANGED left ELSE Check(found, ok)
     /\ createLock' = h
     /\ req' = [req EXCEPT ![h].row = found,
                  ![h].stage = IF found # 0 /\ Seen(found, ok) THEN "close" ELSE "insert"]
     /\ UNCHANGED <<rows, rowLock, indexed, chain, doubtful>>

(* The answer leaves without a commit: the lock ends with the connection.  *)
Finish(h) ==
  /\ req[h].stage = "close" /\ LoopFree
  /\ End(h)
  /\ UNCHANGED <<rows, indexed, chain, left, doubtful>>

Resumes(h) == req[h].row # 0 /\ req[h].kind # "stream"

(* The insert, if any, and the commit that ends the lock.  A stream sends  *)
(* its client an event first.                                              *)
Insert(h) ==
  LET new == Append(rows, [token |-> 0, state |-> "active", again |-> req[h].row # 0])
  IN /\ req[h].stage = "insert" /\ ~req[h].lost
     /\ req[h].kind = "stream" => LoopFree
     /\ rows' = IF Resumes(h) THEN rows ELSE new
     /\ Close(h)
     /\ req' = [req EXCEPT ![h].phase = "deploy", ![h].stage = "lock",
                           ![h].row = IF Resumes(h) THEN @ ELSE Len(new)]
     /\ UNCHANGED <<indexed, chain, left, doubtful>>
-------------------------------------------------------------------------------
(* One step on one row, from its lock to its commit.                       *)
MutNoRowLock(i) == TRUE
(* SELECT ... FOR UPDATE                                                   *)
RowFree(i) == rowLock[i] = NoOne

MutAlwaysDeploys(i, ok) == TRUE
NeedsToken(i, ok) == ~Seen(i, ok)

(* Where a step goes once it has the row: deploy_property_token, with      *)
(* ensure_security_token_sale_inventory if the token is there, or          *)
(* issue_tokens.                                                           *)
FirstStage(phase, i, ok) ==
  LET inventory == IF Seen(i, ok) /\ ~OnSale(rows[i].token) THEN "mint" ELSE "write"
  IN CASE phase = "deploy" -> IF NeedsToken(i, ok) THEN "deployTx" ELSE inventory
       [] phase = "inventory" -> inventory
       [] phase = "repair" -> IF Seen(i, ok) THEN inventory ELSE "refuse"
       [] phase = "issue" -> IF Seen(i, ok) /\ Owned(i) + 1 <= Supply THEN "whitelist" ELSE "refuse"
       [] phase = "delete" -> "write"

LockRow(h, ok) ==
  LET i == req[h].row
      next == FirstStage(req[h].phase, i, ok)
  IN /\ req[h].stage = "lock" /\ RowFree(i)
     /\ IF req[h].phase = "delete" THEN ok /\ UNCHANGED left ELSE Check(i, ok)
     /\ IF rows[i].state = "deleted" \/ next = "refuse"
        THEN End(h)
        ELSE /\ rowLock' = [rowLock EXCEPT ![i] = h]
             /\ req' = [req EXCEPT ![h].stage = next, ![h].token = rows[i].token]
             /\ UNCHANGED createLock
     /\ UNCHANGED <<rows, indexed, chain, doubtful>>

(* build_and_send_with_retry.  Whether a transaction did anything: a       *)
(* receipt that says it reverted is not looked at, and a call to an        *)
(* address without code succeeds and does nothing.                         *)
Sending(h) == req[h].stage \in {"deployTx", "mint", "whitelist", "issueTx"}
After(stage) == CASE stage = "deployTx" -> "mint" [] stage = "mint" -> "write"
                  [] stage = "whitelist" -> "issueTx" [] OTHER -> "reconcile"

Effect(h, ok) ==
  LET r == req[h]
      works == ok /\ r.token \in DOMAIN tokens /\ tokens[r.token].code
  IN /\ r.stage = "deployTx" => Len(tokens) < MaxTokens
     /\ tokens' = CASE r.stage = "deployTx" ->
                         Append(tokens, [code |-> ok, minted |-> 0, issued |-> 0])
                    [] r.stage = "mint" /\ works -> [tokens EXCEPT ![r.token].minted = @ + Supply]
                    [] r.stage = "issueTx" /\ works -> [tokens EXCEPT ![r.token].issued = @ + 1]
                    [] OTHER -> tokens
     /\ issues' = IF r.stage = "issueTx" /\ works THEN Append(issues, r.token) ELSE issues

MutNextAddress(sent) == Len(sent) + 1
(* The address in the receipt of a deployment.                             *)
Address(sent) == Len(sent)

Sent(h, ok) ==
  /\ Sending(h) /\ IF ok THEN UNCHANGED left ELSE Spend("revert")
  /\ Effect(h, ok)
  /\ req' = [req EXCEPT ![h].stage = After(@), ![h].tries = 0,
               ![h].token = IF req[h].stage = "deployTx" THEN Address(tokens') ELSE @,
               ![h].issue = IF issues' # issues THEN Len(issues') ELSE @]
  /\ UNCHANGED <<db, doubtful>>

Doubt(h) == doubtful' = IF req[h].stage = "mint" THEN doubtful \cup {req[h].token} ELSE doubtful

(* No receipt in time, mined or not: sent again with a fresh nonce, until  *)
(* the attempts are used up.                                               *)
TimedOut(h) ==
  /\ Sending(h) /\ Spend("timeout") /\ Doubt(h)
  /\ Effect(h, TRUE) \/ UNCHANGED chain
  /\ IF req[h].tries + 1 < Attempts
     THEN req' = [req EXCEPT ![h].tries = @ + 1] /\ UNCHANGED <<rowLock, createLock>>
     ELSE End(h)
  /\ UNCHANGED <<rows, indexed>>

MutKeepsLock(h) == UNCHANGED <<rowLock, createLock>>
Release(h) == Close(h)

(* The row is written and committed, and the pipeline goes on.             *)
Write(h) ==
  LET r == req[h]
  IN /\ r.stage = "write" /\ ~r.lost
     /\ rows' = CASE r.phase = "deploy" -> [rows EXCEPT ![r.row].token = r.token]
                  [] r.phase = "delete" ->
                       [rows EXCEPT ![r.row].state =
                          IF rows[r.row].token # 0 THEN "archived" ELSE "deleted"]
                  [] OTHER -> rows
     /\ Release(h)
     /\ req' = [req EXCEPT ![h] =
                  IF r.kind \in {"create", "stream"} /\ r.phase = "deploy"
                  THEN [Idle EXCEPT !.kind = r.kind, !.row = r.row,
                          !.phase = "inventory", !.stage = "lock"]
                  ELSE Idle]
     /\ UNCHANGED <<indexed, chain, left, doubtful>>

(* reconcile_transaction, on a connection of its own: its inserts refer to *)
(* the property, and so wait for the lock on the property's row.           *)
Reconcile(t) ==
  /\ \A i \in DOMAIN rows : rows[i].token = issues[t] => RowFree(i)
  /\ indexed' = indexed \cup {t}

Index(t) ==
  /\ t \in DOMAIN issues \ indexed /\ Reconcile(t)
  /\ UNCHANGED <<rows, createLock, rowLock, chain, req, left, doubtful>>

(* issue_tokens calls it while it holds that lock, so it gets here only if *)
(* the session with the lock is gone; the commit that follows then fails.  *)
IssueReconciles(h) ==
  /\ req[h].stage = "reconcile"
  /\ IF req[h].issue \in DOMAIN issues THEN Reconcile(req[h].issue) ELSE UNCHANGED indexed
  /\ End(h)
  /\ UNCHANGED <<rows, chain, left, doubtful>>

(* A step whose session is gone fails at its next statement.               *)
Fail(h) ==
  /\ req[h].stage \in {"insert", "write"} /\ req[h].lost
  /\ End(h)
  /\ UNCHANGED <<rows, indexed, chain, left, doubtful>>

LoseSession(h) ==
  /\ h \in {createLock} \cup Range(rowLock) /\ Spend("session") /\ Doubt(h)
  /\ Close(h)
  /\ req' = [req EXCEPT ![h].lost = TRUE]
  /\ UNCHANGED <<rows, indexed, chain>>

Crash(h) ==
  /\ req[h].stage # "off" /\ Spend("crash") /\ Doubt(h)
  /\ End(h)
  /\ UNCHANGED <<rows, indexed, chain>>
-------------------------------------------------------------------------------
Step(h) ==
  \/ Find(h, TRUE) \/ Finish(h) \/ Insert(h) \/ LockRow(h, TRUE) \/ Sent(h, TRUE) \/ Write(h)
  \/ IssueReconciles(h) \/ Fail(h)

Next ==
  \/ \E h \in Handlers, kind \in Kinds, i \in Ids \cup {0} : Start(h, kind, i)
  \/ \E h \in Handlers : Step(h)
  \/ \E h \in Handlers : \/ Find(h, FALSE) \/ LockRow(h, FALSE) \/ Sent(h, FALSE)
                        \/ TimedOut(h) \/ LoseSession(h) \/ Crash(h)
  \/ \E t \in Ids : Index(t)

Spec == Init /\ [][Next]_vars

(* Threads keep running and every send gets an answer in the end.          *)
FairSpec == Spec /\ \A h \in Handlers : WF_vars(Step(h))
-------------------------------------------------------------------------------
(* Types of every variable.                                                *)
TypeOK ==
  /\ Len(rows) <= MaxRequests
  /\ \A i \in DOMAIN rows : /\ rows[i].token \in 0 .. Len(tokens)
                            /\ rows[i].state \in {"active", "archived", "deleted"}
                            /\ rows[i].again \in BOOLEAN
  /\ \A k \in DOMAIN tokens : tokens[k] \in [code : BOOLEAN, minted : Nat, issued : Nat]
  /\ indexed \subseteq DOMAIN issues /\ doubtful \subseteq DOMAIN tokens
  /\ createLock \in Handlers \cup {NoOne} /\ rowLock \in [Ids -> Handlers \cup {NoOne}]

(* However many requests deploy, resume and repair a listing at once, the  *)
(* sale inventory of a token is minted once at most, unless one of them    *)
(* stopped waiting for the mint or lost its lock during it.                *)
MintedOnce ==
  \A k \in DOMAIN tokens \ doubtful : tokens[k].minted <= Supply

(* One owner's one payload has one listing, however often and concurrently *)
(* it is submitted and wherever the setup of an earlier one broke off; but *)
(* for those that a stream inserted beside a listing it had found without a*)
(* token.  The others each found none.                                     *)
OneListing == \A i, j \in Listed : i < j => rows[j].again

(* A listing keeps its token as long as the node answers every check of a  *)
(* token, whatever else fails: a deployment decides and writes under one   *)
(* lock.                                                                   *)
TokenKept ==
  [][\A i \in DOMAIN rows :
       Investable(i) /\ left["rpc"] = Budget["rpc"] => rows'[i].token = rows[i].token]_vars

(* The loop waits for a lock whose owner needs the loop to let it go.      *)
LoopStuck ==
  ~LoopFree /\ \E g \in Handlers : createLock = g /\ (req[g].stage = "close" \/ req[g].kind = "stream")

(* Every request ends, unless an issue-tokens request waits in its         *)
(* reconciliation for the lock that it holds itself, or the event loop for *)
(* a stream's lock behind an answered request or another stream.           *)
RequestsEnd ==
  \A h \in Handlers : req[h].stage # "off"
    ~> req[h].stage = "off" \/ LoopStuck \/ \E g \in Handlers : req[g].stage = "reconcile"
===============================================================================
