------------------------------- MODULE Indexer --------------------------------
(***************************************************************************)
(* backend/services/blockchain_indexer.py: token ownership in PostgreSQL   *)
(* is derived from the chain's transfer events.  Background loops scan new *)
(* blocks, and API requests reconcile the transaction they are told about; *)
(* every reconciliation is one database transaction.  A portfolio refresh  *)
(* writes the chain's balances into the same rows without any event.       *)
(*                                                                         *)
(* A job's writes are buffered until it commits; the keys of the buffer    *)
(* are the rows PostgreSQL has locked for it, and a job that recorded its  *)
(* event but has not committed holds the unique key (tx_hash, log_index).  *)
(***************************************************************************)
EXTENDS Integers, Sequences, FiniteSets, FiniteSetsExt

CONSTANTS
  Wallets,      \* investors
  Sale,         \* the token contract, which sells the tokens it holds
  Txs,          \* token transactions, numbered in the order of their hashes
  Loops,        \* processes that run the background indexer
  Requests,     \* API worker threads that reconcile
  NoOne,        \* nobody holds the advisory lock
  StartBlock,   \* INDEXER_START_BLOCK
  ReplayDepth,  \* REPLAY_DEPTH
  ChunkSize,    \* BLOCK_CHUNK_SIZE
  MaxHead,      \* bound: length of the chain
  MaxLag,       \* bound: how far the chain runs ahead of the indexer
  Budget        \* bounds: how often each kind of fault or request happens

Faults == {"scan", "read", "abort", "session", "crash", "request", "refresh",
           "refused", "bypass"}

ASSUME IndexerAssumption ==
  /\ Txs \subseteq Nat \ {0} /\ IsFiniteSet(Txs) /\ IsFiniteSet(Wallets)
  /\ Sale \notin Wallets /\ NoOne \notin Loops /\ Loops \cap Requests = {}
  /\ StartBlock \in 0 .. MaxHead /\ ReplayDepth \in Nat
  /\ ChunkSize \in Nat /\ ChunkSize > ReplayDepth
  /\ MaxHead \in Nat /\ MaxLag \in Nat /\ Budget \in [Faults -> Nat]

Workers == Loops \cup Requests

VARIABLES
  head,       \* eth.block_number
  minedAt,    \* the block of each transaction, 0 before it is mined
  move,       \* what each mined transaction transferred
  bypassing,  \* transactions that reach a token through another contract, or
              \*   pay rent for a property that has no row
  balance,    \* balanceOf on chain
  recorded,   \* transactions whose events are in blockchain_event_log
  owned,      \* token_ownerships.token_amount
  lastBlock,  \* blockchain_sync_state.last_block
  holder,     \* the session that holds the advisory lock
  looping,    \* loops past the lock acquisition
  pass,       \* the sync_once call each loop is in
  job,        \* the reconcile_transaction call each worker is in
  left,       \* what remains of Budget
  missed,     \* history: transactions some scan failed to see
  applied,    \* history: how often a transaction's delta was committed
  outdated    \* history: rows last written, by a request or a loop that is
              \*   not the only one, with a balance the chain has changed

chain == <<head, minedAt, move, bypassing, balance>>
db == <<recorded, owned, lastBlock>>
procs == <<holder, looping, pass>>
history == <<missed, applied, outdated>>
vars == <<chain, db, procs, job, left, history>>

NoTx == 0  \* what a portfolio refresh reconciles

NoMove == [from |-> Sale, to |-> Sale]
NoPass == [stage |-> "off", cur |-> 0, end |-> 0, latest |-> 0,
           queue |-> {}, failed |-> FALSE]
NoJob == [stage |-> "off", tx |-> NoTx, fresh |-> FALSE, todo |-> <<>>,
          read |-> 0, writes |-> [w \in {} |-> 0]]

Init ==
  /\ head = StartBlock /\ minedAt = [t \in Txs |-> 0]
  /\ move = [t \in Txs |-> NoMove] /\ balance = [w \in Wallets |-> 0]
  /\ bypassing = {}
  /\ recorded = {} /\ owned = [w \in Wallets |-> 0] /\ lastBlock = 0
  /\ holder = NoOne /\ looping = {}
  /\ pass = [i \in Loops |-> NoPass] /\ job = [w \in Workers |-> NoJob]
  /\ left = Budget /\ missed = {} /\ applied = [t \in Txs |-> 0] /\ outdated = {}

Spend(fault) == left[fault] > 0 /\ left' = [left EXCEPT ![fault] = @ - 1]
-------------------------------------------------------------------------------
(* The chain: a block holds at most one of the modelled transactions.  It  *)
(* moves one token (invest: from Sale; transfer: between wallets), sent to *)
(* the token contract or, bypassing it, to another contract that calls it. *)
(* Or it is a tenant's second rent payment of a month, which the chain     *)
(* accepts, for a property that the database knows or, bypassing, does not.*)
Credit(b, m) == [w \in Wallets |-> b[w] + (IF w = m.to THEN 1 ELSE 0)
                                        - (IF w = m.from THEN 1 ELSE 0)]

NewBlock ==
  /\ head < MaxHead /\ head - lastBlock < MaxLag
  /\ head' = head + 1
  /\ \/ UNCHANGED <<minedAt, move, bypassing, balance, left>>
     \/ \E t \in Txs :
          /\ minedAt[t] = 0
          /\ \/ Spend("refused") /\ UNCHANGED bypassing
             \/ Spend("bypass") /\ bypassing' = bypassing \cup {t}
          /\ minedAt' = [minedAt EXCEPT ![t] = head + 1]
          /\ UNCHANGED <<move, balance>>
     \/ \E t \in Txs, from, to \in Wallets \cup {Sale} :
          /\ minedAt[t] = 0 /\ from # to
          /\ from # Sale => balance[from] > 0
          /\ minedAt' = [minedAt EXCEPT ![t] = head + 1]
          /\ move' = [move EXCEPT ![t] = [from |-> from, to |-> to]]
          /\ balance' = Credit(balance, move'[t])
          /\ \/ UNCHANGED <<bypassing, left>>
             \/ Spend("bypass") /\ bypassing' = bypassing \cup {t}
  /\ UNCHANGED <<db, procs, job, history>>

(* rent_payments holds one payment per tenant, property and month.         *)
Refused == {t \in Txs \ bypassing : minedAt[t] # 0 /\ move[t] = NoMove}
-------------------------------------------------------------------------------
(* reconcile_transaction.                                                  *)
(* The rows a job updates, in order: the sender's, then the recipient's.   *)
Touched(t) == LET Row(x) == IF x = Sale THEN <<>> ELSE <<x>>
              IN Row(move[t].from) \o Row(move[t].to)

MutKeyAlwaysFree(w, t) == TRUE
(* INSERT ... ON CONFLICT waits for an uncommitted insert of the same key. *)
KeyFree(w, t) == \A v \in Workers \ {w} : ~(job[v].fresh /\ job[v].tx = t)

RowFree(w, x) == \A v \in Workers \ {w} : x \notin DOMAIN job[v].writes

MutUnclamped(n) == n
Clamped(n) == IF n < 0 THEN 0 ELSE n

StartJob(w, t) ==
  job' = [job EXCEPT ![w] = [NoJob EXCEPT !.stage = "record", !.tx = t]]

(* The events are looked for by the receiver of the transaction: one that  *)
(* is no known contract, or a property without a row, ends the job without *)
(* a record and without an error.                                          *)
Recognised(t) == t \notin bypassing

PassOver(w) ==
  /\ job[w].stage = "record" /\ ~Recognised(job[w].tx)
  /\ job' = [job EXCEPT ![w] = NoJob]
  /\ UNCHANGED <<chain, db, procs, left, history>>

(* _record_event: a job is fresh if its insert made the row.               *)
RecordEvent(w) ==
  LET t == job[w].tx
  IN /\ job[w].stage = "record" /\ Recognised(t)
     /\ KeyFree(w, t)
     /\ job' = [job EXCEPT ![w].stage = "update", ![w].todo = Touched(t),
                           ![w].fresh = t \notin recorded]
     /\ UNCHANGED <<chain, db, procs, left, history>>

NextRow(w) == Head(job[w].todo)
Put(f, x, n) == [y \in DOMAIN f \cup {x} |-> IF y = x THEN n ELSE f[y]]
Wrote(w, n) == [job EXCEPT ![w].stage = "update", ![w].todo = Tail(@),
                           ![w].read = 0, ![w].writes = Put(@, NextRow(w), n)]

(* _update_ownership: a new event moves the stored amount by its delta.    *)
ApplyDelta(w) ==
  LET x == NextRow(w)
      delta == IF x = move[job[w].tx].to THEN 1 ELSE -1
  IN /\ job[w].stage = "update" /\ job[w].fresh /\ job[w].todo # <<>>
     /\ RowFree(w, x)
     /\ job' = Wrote(w, Clamped(owned[x] + delta))
     /\ UNCHANGED <<chain, db, procs, left, history>>

(* _sync_ownership_to_chain: an event seen before sets the stored amount   *)
(* to the chain's balance now; a failed balance call leaves it as it is.   *)
ReadBalance(w) ==
  /\ job[w].stage = "update" /\ ~job[w].fresh /\ job[w].todo # <<>>
  /\ job' = [job EXCEPT ![w].stage = "write", ![w].read = balance[NextRow(w)]]
  /\ UNCHANGED <<chain, db, procs, left, history>>

BalanceCallFails(w) ==
  /\ job[w].stage = "update" /\ ~job[w].fresh /\ job[w].todo # <<>>
  /\ Spend("read")
  /\ job' = [job EXCEPT ![w].todo = Tail(@)]
  /\ UNCHANGED <<chain, db, procs, history>>

WriteBalance(w) ==
  /\ job[w].stage = "write"
  /\ RowFree(w, NextRow(w))
  /\ job' = Wrote(w, job[w].read)
  /\ UNCHANGED <<chain, db, procs, left, history>>

Commit(w) ==
  LET t == job[w].tx
      rows == DOMAIN job[w].writes
  IN /\ job[w].stage = "update" /\ job[w].todo = <<>> /\ t \notin Refused
     /\ owned' = [x \in Wallets |->
                    IF x \in rows THEN job[w].writes[x] ELSE owned[x]]
     /\ recorded' = recorded \cup ({t} \ {NoTx})
     /\ applied' = [u \in Txs |-> applied[u] + (IF u = t /\ job[w].fresh THEN 1 ELSE 0)]
     /\ outdated' = (outdated \ rows) \cup
          {x \in rows : Loops # {w} /\ ~job[w].fresh /\ job[w].writes[x] # balance[x]}
     /\ job' = [job EXCEPT ![w] = NoJob]
     /\ UNCHANGED <<chain, lastBlock, procs, left, missed>>

(* An exception rolls the transaction back; the loop notes the failure and *)
(* goes on with the chunk's other transactions.                            *)
RollBack(w) ==
  /\ job' = [job EXCEPT ![w] = NoJob]
  /\ pass' = [i \in Loops |-> IF i = w THEN [pass[i] EXCEPT !.failed = TRUE] ELSE pass[i]]
  /\ UNCHANGED <<chain, db, holder, looping, history>>

Abort(w) == job[w].stage # "off" /\ Spend("abort") /\ RollBack(w)

(* The unique index refuses the second payment, every time it is tried.    *)
Refuse(w) ==
  /\ job[w].stage = "update" /\ job[w].tx \in Refused
  /\ RollBack(w) /\ UNCHANGED left

Wanted(w) == IF job[w].todo = <<>> THEN {} ELSE {NextRow(w)}
Blocks(v, w) == Wanted(w) \cap DOMAIN job[v].writes # {}

(* Two jobs that each wait for a row of the other: PostgreSQL ends one.    *)
DeadlockVictim(w) ==
  /\ \E v \in Workers \ {w} : Blocks(v, w) /\ Blocks(w, v)
  /\ RollBack(w) /\ UNCHANGED left
-------------------------------------------------------------------------------
(* sync_once and the loop around it.                                       *)
MutNoReplay(last) == last + 1
ScanStart(last) == IF last - ReplayDepth > StartBlock THEN last - ReplayDepth ELSE StartBlock

MutIgnoresFailures(p) == TRUE
ChunkOk(p) == ~p.failed

AcquireLock(i) ==
  /\ i \notin looping /\ holder = NoOne
  /\ holder' = i /\ looping' = looping \cup {i}
  /\ UNCHANGED <<chain, db, pass, job, left, history>>

(* The session that holds the lock ends; the loop does not notice.         *)
LoseSession ==
  /\ holder # NoOne /\ Spend("session")
  /\ holder' = NoOne
  /\ UNCHANGED <<chain, db, looping, pass, job, history>>

Crash(i) ==
  /\ i \in looping /\ Spend("crash")
  /\ looping' = looping \ {i}
  /\ holder' = IF holder = i THEN NoOne ELSE holder
  /\ pass' = [pass EXCEPT ![i] = NoPass] /\ job' = [job EXCEPT ![i] = NoJob]
  /\ UNCHANGED <<chain, db, history>>

(* The first pass seeds the cursor; a pass without new blocks ends at once.*)
BeginPass(i) ==
  LET last == IF lastBlock = 0 THEN StartBlock ELSE lastBlock
  IN /\ i \in looping /\ pass[i].stage = "off"
     /\ head > last \/ lastBlock # last
     /\ lastBlock' = last
     /\ pass' = IF head > last
                THEN [pass EXCEPT ![i] = [NoPass EXCEPT !.stage = "scan",
                                            !.cur = ScanStart(last), !.latest = head]]
                ELSE pass
     /\ UNCHANGED <<chain, recorded, owned, holder, looping, job, left, history>>

(* _discover_transaction_hashes: what the scanned blocks hold.             *)
LoggedIn(from, to) == {t \in Txs : minedAt[t] \in (from .. to) \ {0}}

(* A log query that keeps failing yields an empty list, not an error, and  *)
(* a token is not asked for its logs before its address is in properties.  *)
Scan(i) ==
  LET p == pass[i]
      end == IF p.cur + ChunkSize - 1 < p.latest THEN p.cur + ChunkSize - 1 ELSE p.latest
      logged == LoggedIn(p.cur, end)
  IN /\ p.stage = "scan"
     /\ \E unseen \in SUBSET logged :
          /\ IF unseen = {} THEN UNCHANGED left ELSE Spend("scan")
          /\ missed' = missed \cup unseen
          /\ pass' = [pass EXCEPT ![i].stage = "work", ![i].end = end,
                                  ![i].queue = logged \ unseen]
     /\ UNCHANGED <<chain, db, holder, looping, job, applied, outdated>>

(* Transactions are taken in the order of their hashes.                    *)
TakeTx(i) ==
  /\ pass[i].stage = "work" /\ pass[i].queue # {} /\ job[i].stage = "off"
  /\ StartJob(i, Min(pass[i].queue))
  /\ pass' = [pass EXCEPT ![i].queue = @ \ {Min(@)}]
  /\ UNCHANGED <<chain, db, holder, looping, left, history>>

EndChunk(i) ==
  LET p == pass[i]
  IN /\ p.stage = "work" /\ p.queue = {} /\ job[i].stage = "off"
     /\ IF ChunkOk(p)
        THEN /\ lastBlock' = p.end
             /\ pass' = [pass EXCEPT ![i] =
                           IF p.end < p.latest
                           THEN [p EXCEPT !.stage = "scan", !.cur = p.end + 1]
                           ELSE NoPass]
        ELSE pass' = [pass EXCEPT ![i] = NoPass] /\ UNCHANGED lastBlock
     /\ UNCHANGED <<chain, recorded, owned, holder, looping, job, left, history>>

(* POST /investments/{id}/confirm and the other confirm routes.            *)
Request(r, t) ==
  /\ job[r].stage = "off" /\ minedAt[t] # 0
  /\ Spend("request")
  /\ StartJob(r, t)
  /\ UNCHANGED <<chain, db, procs, history>>

(* A portfolio refresh: the investor's rows take the chain's balances, on  *)
(* a connection of its own.  Empty balances and failed calls are skipped.  *)
Refresh(r, x) ==
  /\ job[r].stage = "off" /\ balance[x] > 0
  /\ Spend("refresh")
  /\ job' = [job EXCEPT ![r] = [NoJob EXCEPT !.stage = "write", !.todo = <<x>>,
                                             !.read = balance[x]]]
  /\ UNCHANGED <<chain, db, procs, history>>
-------------------------------------------------------------------------------
JobStep(w) ==
  \/ PassOver(w) \/ RecordEvent(w) \/ ApplyDelta(w) \/ ReadBalance(w) \/ WriteBalance(w)
  \/ Commit(w) \/ Refuse(w) \/ DeadlockVictim(w)

LoopStep(i) ==
  AcquireLock(i) \/ BeginPass(i) \/ Scan(i) \/ TakeTx(i) \/ EndChunk(i)

Next ==
  \/ NewBlock
  \/ \E w \in Workers : JobStep(w)
  \/ \E w \in Workers : BalanceCallFails(w)
  \/ \E w \in Workers : Abort(w)
  \/ \E i \in Loops : LoopStep(i)
  \/ \E i \in Loops : Crash(i)
  \/ LoseSession
  \/ \E r \in Requests, t \in Txs : Request(r, t)
  \/ \E r \in Requests, x \in Wallets : Refresh(r, x)

Spec == Init /\ [][Next]_vars

(* Threads keep running. A job that waits for a row or a key is in         *)
(* PostgreSQL's lock queue, so a lock released again and again reaches it: *)
(* strong fairness. Blocks, faults and requests are up to the environment. *)
FairSpec ==
  /\ Spec
  /\ \A w \in Workers : SF_vars(JobStep(w))
  /\ \A i \in Loops : WF_vars(LoopStep(i))
-------------------------------------------------------------------------------
(* Types of every variable that a step could take out of its range.        *)
TypeOK ==
  /\ head \in 0 .. MaxHead /\ minedAt \in [Txs -> 0 .. MaxHead]
  /\ balance \in [Wallets -> Nat] /\ owned \in [Wallets -> Nat]
  /\ recorded \subseteq Txs /\ lastBlock \in 0 .. MaxHead
  /\ holder \in Loops \cup {NoOne} /\ looping \subseteq Loops
  /\ \A i \in Loops : pass[i].stage \in {"off", "scan", "work"}
  /\ \A w \in Workers : job[w].stage \in {"off", "record", "update", "write"}

(* However many loops and requests reconcile a transaction at once, its    *)
(* delta reaches the ownership table at most once, and exactly when the    *)
(* event is in the log.                                                    *)
AppliedOnce == \A t \in Txs : applied[t] = IF t \in recorded THEN 1 ELSE 0

(* The cursor never passes a transaction that was not indexed, unless a    *)
(* log scan failed to see it or it bypasses what the indexer recognises:   *)
(* failures, crashes, a second loop and a payment that is refused every    *)
(* time do not make it skip anything.                                      *)
NoSilentGap ==
  \A t \in Txs : minedAt[t] \in (StartBlock + 1) .. lastBlock
                   => t \in recorded \cup missed \cup bypassing

(* Every mined transaction is behind the replay window, no scan missed it  *)
(* and no job runs.                                                        *)
Settled ==
  /\ \A w \in Workers : job[w].stage = "off"
  /\ \A t \in Txs : minedAt[t] # 0
       => t \in recorded \ missed /\ minedAt[t] < lastBlock - ReplayDepth

(* Once indexing has settled, the ownership table equals the chain.  Only  *)
(* rows may differ that were last written with a balance read before a     *)
(* transfer, by a request, a portfolio refresh or one of several loops: a  *)
(* loop that runs alone reaches that transfer later and writes the row     *)
(* again.  Nothing else goes wrong in any order of blocks, replays,        *)
(* crashes, refreshes and failed jobs.                                     *)
SettledAgrees ==
  Settled => \A x \in Wallets : owned[x] = balance[x] \/ x \in outdated

(* Every mined transaction is indexed in the end, unless a log scan failed *)
(* to see it, it bypasses what the indexer recognises, or it is, or lies   *)
(* behind, a rent payment that is refused every time: whatever finite      *)
(* number of crashes and failed reconciliations happen on the way.         *)
EventuallyIndexed ==
  \A t \in Txs :
    minedAt[t] # 0 ~> \/ t \in recorded \cup missed \cup bypassing
                       \/ \E s \in Refused : minedAt[s] <= minedAt[t]
===============================================================================
