----------------------------- MODULE IndexerProofs -----------------------------
(***************************************************************************)
(* Proofs about Indexer, for any number of loops, requests, wallets,       *)
(* transactions and faults: every delta counts at most once, and the       *)
(* cursor passes nothing that was not indexed but what a scan missed and   *)
(* what bypasses the indexer.                                              *)
(***************************************************************************)
EXTENDS Indexer, SequenceTheorems, WellFoundedInduction, TLAPS

Moves == [from : Wallets \cup {Sale}, to : Wallets \cup {Sale}]
Buffers == UNION {[D -> Nat] : D \in SUBSET Wallets}
Jobs == [stage : {"off", "record", "update", "write"}, tx : Txs \cup {NoTx},
         fresh : BOOLEAN, todo : Seq(Wallets), read : Nat, writes : Buffers]
Passes == [stage : {"off", "scan", "work"}, cur : Nat, end : Nat, latest : Nat,
           queue : SUBSET Txs, failed : BOOLEAN]

(* What a reconciliation carries at each of its stages *)
Fits(j) ==
  /\ j.stage = "record" => j.tx \in Txs
  /\ j.stage = "write" => j.todo # <<>>
  /\ j.fresh => j.stage = "update" /\ j.tx \in Txs

JobsFit == job \in [Workers -> Jobs] /\ \A w \in Workers : Fits(job[w])

Typed ==
  /\ head \in StartBlock .. MaxHead /\ minedAt \in [Txs -> 0 .. MaxHead]
  /\ move \in [Txs -> Moves]
  /\ balance \in [Wallets -> Nat] /\ owned \in [Wallets -> Nat]
  /\ recorded \subseteq Txs /\ lastBlock \in 0 .. head
  /\ holder \in Loops \cup {NoOne} /\ looping \subseteq Loops
  /\ pass \in [Loops -> Passes] /\ JobsFit
  /\ applied \in [Txs -> Nat]

(* A job with an uncommitted insert of its key is alone with it, ...       *)
FreshAlone ==
  \A w \in Workers : job[w].fresh =>
    /\ job[w].tx \notin recorded
    /\ \A v \in Workers : job[v].fresh /\ job[v].tx = job[w].tx => v = w

(* ... and one without, past the insert, has seen the key committed.       *)
SeenRecorded ==
  \A w \in Workers : job[w].stage \in {"update", "write"} /\ ~job[w].fresh
    => job[w].tx \in recorded \cup {NoTx}

Counted == FreshAlone /\ SeenRecorded /\ AppliedOnce

(* The transactions of the blocks up to n *)
Behind(n) == {t \in Txs : minedAt[t] \in (StartBlock + 1) .. n}

(* What a loop still has to reconcile in its chunk *)
InHand(i) == pass[i].queue \cup IF job[i].stage = "off" THEN {} ELSE {job[i].tx}

(* What a loop has scanned was indexed, is in its hands, or has failed;    *)
(* no pass looks beyond the chain, so no later block falls behind it.      *)
Covers(i) ==
  /\ pass[i].stage # "off" =>
       /\ pass[i].cur <= pass[i].latest /\ pass[i].latest <= head
       /\ Behind(pass[i].cur - 1) \subseteq recorded \cup missed \cup bypassing
  /\ pass[i].stage = "work" =>
       /\ pass[i].end <= pass[i].latest
       /\ pass[i].failed \/ Behind(pass[i].end) \subseteq recorded \cup missed \cup bypassing \cup InHand(i)

NothingSkipped == Behind(lastBlock) \subseteq recorded \cup missed \cup bypassing /\ \A i \in Loops : Covers(i)

IInv == Typed /\ Counted /\ NothingSkipped
-------------------------------------------------------------------------------
LEMMA MinIsMember ==
  ASSUME NEW S \in SUBSET Nat, S # {}
  PROVE  Min(S) \in S
<1>1. PICK x \in S : \A y \in S : ~(<<y, x>> \in OpToRel(<, Nat))
  BY NatLessThanWellFounded, WFMin
<1>2. ASSUME NEW y \in Nat, NEW z \in Nat, y < z
      PROVE  <<y, z>> \in OpToRel(<, Nat)
  BY <1>2, Zenon DEF OpToRel
<1>3. \A y \in S : ~(y < x)
  BY <1>1, <1>2, Zenon
<1>4. \A y \in S : x <= y
  BY <1>3
<1>5. QED
  BY <1>4 DEF Min

LEMMA NoJobFits == NoJob \in Jobs /\ Fits(NoJob) /\ ~NoJob.fresh /\ NoJob.stage = "off"
<1>1. [w \in {} |-> 0] \in [{} -> Nat]
  OBVIOUS
<1>2. [w \in {} |-> 0] \in Buffers
  BY <1>1 DEF Buffers
<1>3. QED
  BY <1>2, EmptySeq DEF NoJob, Jobs, Fits

LEMMA NoPassIsPass == NoPass \in Passes
  BY DEF NoPass, Passes

LEMMA OneJob ==
  ASSUME JobsFit, NEW w \in Workers, NEW j \in Jobs, Fits(j), job' = [job EXCEPT ![w] = j]
  PROVE  JobsFit'
  BY DEF JobsFit

LEMMA TouchedRows ==
  ASSUME Typed, NEW t \in Txs
  PROVE  Touched(t) \in Seq(Wallets)
<1> DEFINE Row(x) == IF x = Sale THEN <<>> ELSE <<x>>
<1>1. \A x \in Wallets \cup {Sale} : Row(x) \in Seq(Wallets)
  BY EmptySeq
<1>2. move[t].from \in Wallets \cup {Sale} /\ move[t].to \in Wallets \cup {Sale}
  BY DEF Typed, Moves
<1>3. Row(move[t].from) \in Seq(Wallets) /\ Row(move[t].to) \in Seq(Wallets)
  BY <1>1, <1>2
<1> HIDE DEF Row
<1>4. Row(move[t].from) \o Row(move[t].to) \in Seq(Wallets)
  BY <1>3, ConcatProperties
<1>5. QED
  BY <1>4 DEF Touched, Row

LEMMA NextRowTyped ==
  ASSUME NEW j \in Jobs, j.todo # <<>>
  PROVE  Head(j.todo) \in Wallets /\ Tail(j.todo) \in Seq(Wallets)
  BY HeadTailProperties DEF Jobs

LEMMA PutTyped ==
  ASSUME NEW f \in Buffers, NEW x \in Wallets, NEW n \in Nat
  PROVE  Put(f, x, n) \in Buffers
<1>1. PICK D \in SUBSET Wallets : f \in [D -> Nat]
  BY DEF Buffers
<1>2. Put(f, x, n) \in [D \cup {x} -> Nat]
  BY <1>1 DEF Put
<1>3. QED
  BY <1>2 DEF Buffers
-------------------------------------------------------------------------------
(* A job goes on as j, and changes nothing that others can see but a lock. *)
Works(w) == RecordEvent(w) \/ ApplyDelta(w) \/ ReadBalance(w) \/ BalanceCallFails(w)
              \/ WriteBalance(w)

GoesOn(w, j) ==
  /\ job' = [job EXCEPT ![w] = j]
  /\ j.tx = job[w].tx /\ j.stage \in {"update", "write"}
  /\ \/ job[w].stage \in {"update", "write"} /\ j.fresh = job[w].fresh
     \/ /\ job[w].stage = "record" /\ j.fresh = (job[w].tx \notin recorded)
        /\ KeyFree(w, job[w].tx)

LEMMA WroteGoesOn ==
  ASSUME Typed, NEW w \in Workers, NEW n \in Nat, job' = Wrote(w, n),
         job[w].stage \in {"update", "write"}, job[w].todo # <<>>
  PROVE  \E j \in Jobs : Fits(j) /\ GoesOn(w, j)
<1> DEFINE j == [job[w] EXCEPT !.stage = "update", !.todo = Tail(@), !.read = 0,
                               !.writes = Put(@, NextRow(w), n)]
<1>1. job \in [Workers -> Jobs] /\ job[w] \in Jobs /\ Fits(job[w])
  BY DEF Typed, JobsFit
<1>2. Tail(job[w].todo) \in Seq(Wallets) /\ NextRow(w) \in Wallets
  BY <1>1, NextRowTyped DEF NextRow
<1>3. Put(job[w].writes, NextRow(w), n) \in Buffers
  BY <1>1, <1>2, PutTyped DEF Jobs
<1>4. j \in Jobs /\ j.tx = job[w].tx /\ j.stage = "update" /\ j.fresh = job[w].fresh
  BY <1>1, <1>2, <1>3 DEF Jobs
<1>5. Fits(j)
  BY <1>1, <1>4 DEF Fits
<1>6. job' = [job EXCEPT ![w] = j]
  BY <1>1 DEF Wrote, Jobs
<1> HIDE DEF j
<1>7. QED
  BY <1>4, <1>5, <1>6 DEF GoesOn

LEMMA WorkGoesOn ==
  ASSUME Typed, NEW w \in Workers, Works(w)
  PROVE  \E j \in Jobs : Fits(j) /\ GoesOn(w, j)
<1>0. job \in [Workers -> Jobs] /\ job[w] \in Jobs /\ Fits(job[w])
  BY DEF Typed, JobsFit
<1>1. CASE RecordEvent(w)
  <2> DEFINE t == job[w].tx
             j == [job[w] EXCEPT !.stage = "update", !.todo = Touched(t),
                                 !.fresh = t \notin recorded]
  <2>1. t \in Txs
    BY <1>0, <1>1 DEF RecordEvent, Fits
  <2>2. Touched(t) \in Seq(Wallets)
    BY <2>1, TouchedRows
  <2>3. j \in Jobs /\ j.tx = t /\ j.stage = "update" /\ j.fresh = (t \notin recorded)
    BY <1>0, <2>2 DEF Jobs
  <2>4. Fits(j)
    BY <2>1, <2>3 DEF Fits
  <2>5. job' = [job EXCEPT ![w] = j]
    BY <1>0, <1>1 DEF RecordEvent, Jobs
  <2>6. job[w].stage = "record" /\ KeyFree(w, t)
    BY <1>1 DEF RecordEvent
  <2> HIDE DEF j
  <2>7. QED
    BY <2>3, <2>4, <2>5, <2>6 DEF GoesOn
<1>2. CASE ApplyDelta(w)
  <2>1. PICK n \in Int : job' = Wrote(w, Clamped(n))
    <3>1. owned[NextRow(w)] \in Nat
      BY <1>0, <1>2, NextRowTyped DEF ApplyDelta, NextRow, Typed
    <3>2. QED
      BY <1>2, <3>1 DEF ApplyDelta
  <2>2. Clamped(n) \in Nat
    BY DEF Clamped
  <2>3. QED
    BY <1>2, <2>1, <2>2, WroteGoesOn DEF ApplyDelta
<1>3. CASE ReadBalance(w)
  <2> DEFINE j == [job[w] EXCEPT !.stage = "write", !.read = balance[NextRow(w)]]
  <2>1. balance[NextRow(w)] \in Nat
    BY <1>0, <1>3, NextRowTyped DEF ReadBalance, NextRow, Typed
  <2>2. j \in Jobs /\ j.tx = job[w].tx /\ j.stage = "write" /\ j.fresh = job[w].fresh
        /\ j.todo = job[w].todo
    BY <1>0, <2>1 DEF Jobs
  <2>3. Fits(j)
    BY <1>3, <2>2 DEF Fits, ReadBalance
  <2>4. job' = [job EXCEPT ![w] = j]
    BY <1>0, <1>3 DEF ReadBalance, Jobs
  <2> HIDE DEF j
  <2>5. QED
    BY <1>3, <2>2, <2>3, <2>4 DEF GoesOn, ReadBalance
<1>4. CASE BalanceCallFails(w)
  <2> DEFINE j == [job[w] EXCEPT !.todo = Tail(@)]
  <2>1. Tail(job[w].todo) \in Seq(Wallets)
    BY <1>0, <1>4, NextRowTyped DEF BalanceCallFails
  <2>2. j \in Jobs /\ j.tx = job[w].tx /\ j.stage = job[w].stage /\ j.fresh = job[w].fresh
    BY <1>0, <2>1 DEF Jobs
  <2>3. Fits(j)
    BY <1>0, <1>4, <2>2 DEF Fits, BalanceCallFails
  <2>4. job' = [job EXCEPT ![w] = j]
    BY <1>0, <1>4 DEF BalanceCallFails, Jobs
  <2> HIDE DEF j
  <2>5. QED
    BY <1>4, <2>2, <2>3, <2>4 DEF GoesOn, BalanceCallFails
<1>5. CASE WriteBalance(w)
  <2>1. job[w].todo # <<>> /\ job[w].read \in Nat /\ job[w].stage = "write"
    BY <1>0, <1>5 DEF WriteBalance, Fits, Jobs
  <2>2. QED
    BY <1>5, <2>1, WroteGoesOn DEF WriteBalance
<1>6. QED
  BY <1>1, <1>2, <1>3, <1>4, <1>5 DEF Works

(* What these steps leave alone *)
Still == UNCHANGED <<chain, db, procs, history>>

LEMMA WorkIsStill ==
  ASSUME NEW w \in Workers, Works(w)
  PROVE  Still
  BY DEF Works, Still, RecordEvent, ApplyDelta, ReadBalance, BalanceCallFails, WriteBalance

LEMMA WorkCounted ==
  ASSUME Typed, Counted, NEW w \in Workers, NEW j \in Jobs, Fits(j), GoesOn(w, j), Still
  PROVE  Counted'
<1>0. job \in [Workers -> Jobs] /\ recorded' = recorded /\ applied' = applied
  BY DEF Typed, JobsFit, Still, db, history
<1>1. \A v \in Workers : job'[v] = IF v = w THEN j ELSE job[v]
  BY <1>0 DEF GoesOn
<1>2. j.tx = job[w].tx /\ (j.fresh => job[w].tx \notin recorded)
  BY DEF GoesOn, Counted, FreshAlone
<1>3. \A v \in Workers \ {w} : ~(j.fresh /\ job[v].fresh /\ job[v].tx = j.tx)
  BY DEF GoesOn, Counted, FreshAlone, KeyFree
<1>4. FreshAlone'
  BY <1>0, <1>1, <1>2, <1>3 DEF Counted, FreshAlone
<1>5. SeenRecorded'
  BY <1>0, <1>1 DEF Counted, SeenRecorded, GoesOn
<1>6. QED
  BY <1>0, <1>4, <1>5 DEF Counted, AppliedOnce

(* A running job goes on with its transaction in hand.                     *)
LEMMA WorkSkipsNothing ==
  ASSUME Typed, NothingSkipped, NEW w \in Workers, NEW j \in Jobs, GoesOn(w, j), Still
  PROVE  NothingSkipped'
<1>0. /\ job \in [Workers -> Jobs] /\ pass' = pass /\ recorded' = recorded
      /\ missed' = missed /\ lastBlock' = lastBlock /\ head' = head /\ minedAt' = minedAt
      /\ bypassing' = bypassing
  BY DEF Typed, JobsFit, Still, db, history, procs, chain
<1>1. \A i \in Loops : InHand(i)' = InHand(i)
  BY <1>0 DEF GoesOn, InHand, Workers
<1>2. \A i \in Loops : Covers(i)'
  BY <1>0, <1>1 DEF NothingSkipped, Covers, Behind
<1>3. QED
  BY <1>0, <1>2 DEF NothingSkipped, Behind

LEMMA WorkKeepsInv ==
  ASSUME IInv, NEW w \in Workers, Works(w)
  PROVE  IInv'
<1>1. PICK j \in Jobs : Fits(j) /\ GoesOn(w, j)
  BY WorkGoesOn DEF IInv
<1>2. Still
  BY WorkIsStill
<1>3. Typed'
  <2>1. JobsFit'
    BY <1>1, OneJob DEF IInv, Typed, GoesOn
  <2>2. QED
    BY <1>2, <2>1 DEF IInv, Typed, Still, chain, db, procs, history
<1>4. QED
  BY <1>1, <1>2, <1>3, WorkCounted, WorkSkipsNothing DEF IInv
-------------------------------------------------------------------------------
LEMMA CommitTyped ==
  ASSUME Typed, NEW w \in Workers, Commit(w)
  PROVE  Typed'
<1>0. job[w] \in Jobs
  BY DEF Typed, JobsFit
<1>1. JobsFit'
  BY NoJobFits, OneJob DEF Typed, Commit
<1>2. owned' \in [Wallets -> Nat]
  <2>1. PICK D \in SUBSET Wallets : job[w].writes \in [D -> Nat]
    BY <1>0 DEF Jobs, Buffers
  <2>2. QED
    BY <2>1 DEF Commit, Typed
<1>3. recorded' \subseteq Txs
  BY <1>0 DEF Commit, Typed, Jobs
<1>4. applied' \in [Txs -> Nat]
  BY DEF Commit, Typed
<1>5. QED
  BY <1>1, <1>2, <1>3, <1>4 DEF Commit, Typed, chain, procs

(* A fresh job is the one that records its key, any other finds it there.  *)
LEMMA CommitCounted ==
  ASSUME Typed, Counted, NEW w \in Workers, Commit(w)
  PROVE  Counted'
<1> DEFINE t == job[w].tx
<1>0. /\ job \in [Workers -> Jobs] /\ Fits(job[w]) /\ NoTx \notin Txs
      /\ recorded' = recorded \cup ({t} \ {NoTx}) /\ t \in Txs \cup {NoTx}
      /\ applied' = [u \in Txs |-> applied[u] + (IF u = t /\ job[w].fresh THEN 1 ELSE 0)]
      /\ job[w].stage = "update"
  BY IndexerAssumption DEF Typed, JobsFit, Commit, NoTx, Jobs
<1>1. \A v \in Workers : job'[v] = IF v = w THEN NoJob ELSE job[v]
  BY <1>0 DEF Commit
<1>2. job[w].fresh => t \in Txs /\ t \notin recorded /\ recorded' = recorded \cup {t}
  BY <1>0 DEF Fits, Counted, FreshAlone
<1>3. ~job[w].fresh => recorded' = recorded
  BY <1>0 DEF Counted, SeenRecorded
<1>4. FreshAlone'
  BY <1>0, <1>1, <1>2, <1>3, NoJobFits DEF Counted, FreshAlone
<1>5. SeenRecorded'
  BY <1>0, <1>1, NoJobFits DEF Counted, SeenRecorded
<1>6. AppliedOnce'
  <2>1. CASE job[w].fresh
    <3>1. SUFFICES ASSUME NEW u \in Txs PROVE applied'[u] = IF u \in recorded' THEN 1 ELSE 0
      BY DEF AppliedOnce
    <3>2. applied[u] = IF u \in recorded THEN 1 ELSE 0
      BY DEF Counted, AppliedOnce
    <3>3. QED
      BY <1>0, <1>2, <2>1, <3>2
  <2>2. CASE ~job[w].fresh
    BY <1>0, <1>3, <2>2 DEF Counted, AppliedOnce, Typed
  <2>3. QED
    BY <2>1, <2>2
<1>7. QED
  BY <1>4, <1>5, <1>6 DEF Counted

LEMMA CommitSkipsNothing ==
  ASSUME Typed, NothingSkipped, NEW w \in Workers, Commit(w)
  PROVE  NothingSkipped'
<1>0. /\ job \in [Workers -> Jobs] /\ NoTx \notin Txs
      /\ recorded' = recorded \cup ({job[w].tx} \ {NoTx})
      /\ pass' = pass /\ missed' = missed /\ lastBlock' = lastBlock
      /\ head' = head /\ minedAt' = minedAt /\ bypassing' = bypassing
  BY IndexerAssumption DEF Typed, JobsFit, Commit, NoTx, procs, chain
<1>1. \A n : Behind(n)' = Behind(n) /\ Behind(n) \subseteq Txs
  BY <1>0 DEF Behind
<1>2. ASSUME NEW i \in Loops
      PROVE  InHand(i) \cap Txs \subseteq recorded' \cup InHand(i)'
  <2>1. job'[i] = IF i = w THEN NoJob ELSE job[i]
    BY <1>0 DEF Commit, Workers
  <2>2. QED
    BY <1>0, <2>1, NoJobFits DEF InHand
<1>3. \A i \in Loops : Covers(i)'
  BY <1>0, <1>1, <1>2 DEF NothingSkipped, Covers
<1>4. QED
  BY <1>0, <1>1, <1>3 DEF NothingSkipped

LEMMA CommitKeepsInv ==
  ASSUME IInv, NEW w \in Workers, Commit(w)
  PROVE  IInv'
  BY CommitTyped, CommitCounted, CommitSkipsNothing DEF IInv

(* A job that begins is not fresh and has not passed its insert yet, unless*)
(* it is a portfolio refresh.                                              *)
LEMMA BeginCounted ==
  ASSUME Counted, job \in [Workers -> Jobs], NEW w \in Workers, NEW j \in Jobs,
         job' = [job EXCEPT ![w] = j],
         ~j.fresh, j.stage \in {"off", "record"} \/ j.tx = NoTx,
         UNCHANGED <<recorded, applied>>
  PROVE  Counted'
<1>1. \A v \in Workers : job'[v] = IF v = w THEN j ELSE job[v]
  OBVIOUS
<1>2. FreshAlone' /\ SeenRecorded'
  BY <1>1 DEF Counted, FreshAlone, SeenRecorded
<1>3. QED
  BY <1>2 DEF Counted, AppliedOnce

(* What a job passes over bypasses the indexer, and is accounted for so.   *)
LEMMA PassOverKeepsInv ==
  ASSUME IInv, NEW w \in Workers, PassOver(w)
  PROVE  IInv'
<1>0. /\ job \in [Workers -> Jobs] /\ job[w].tx \in bypassing
      /\ UNCHANGED <<head, minedAt, move, bypassing, balance, recorded, owned, lastBlock>>
      /\ UNCHANGED <<holder, looping, pass, missed, applied>>
      /\ job' = [job EXCEPT ![w] = NoJob]
  BY DEF IInv, Typed, JobsFit, PassOver, Recognised, chain, db, procs, history
<1>1. Typed'
  <2>1. JobsFit'
    BY <1>0, NoJobFits, OneJob DEF IInv, Typed
  <2>2. QED
    BY <1>0, <2>1 DEF IInv, Typed
<1>2. Counted'
  BY <1>0, NoJobFits, BeginCounted DEF IInv
<1>3. ASSUME NEW i \in Loops PROVE Covers(i)'
  <2>1. InHand(i) \subseteq bypassing \cup InHand(i)'
    BY <1>0 DEF InHand, Workers
  <2>2. QED
    BY <1>0, <2>1 DEF IInv, NothingSkipped, Covers, Behind
<1>4. QED
  BY <1>0, <1>1, <1>2, <1>3 DEF IInv, NothingSkipped, Behind

(* A job that ends without a commit is not fresh any more, and its loop    *)
(* knows of the failure.                                                   *)
LEMMA RollBackKeepsInv ==
  ASSUME IInv, NEW w \in Workers, RollBack(w)
  PROVE  IInv'
<1>0. /\ job \in [Workers -> Jobs] /\ pass \in [Loops -> Passes] /\ JobsFit
      /\ recorded' = recorded /\ applied' = applied /\ missed' = missed
      /\ lastBlock' = lastBlock /\ head' = head /\ minedAt' = minedAt
      /\ bypassing' = bypassing /\ job' = [job EXCEPT ![w] = NoJob]
  BY DEF IInv, Typed, JobsFit, RollBack, chain, db, history
<1>1. \A v \in Workers : job'[v] = IF v = w THEN NoJob ELSE job[v]
  BY <1>0
<1>2. ASSUME NEW i \in Loops
      PROVE  /\ pass'[i] \in Passes /\ pass'[i].stage = pass[i].stage
             /\ pass'[i].cur = pass[i].cur /\ pass'[i].end = pass[i].end
             /\ pass'[i].latest = pass[i].latest /\ pass'[i].queue = pass[i].queue
             /\ pass'[i].failed = (i = w \/ pass[i].failed)
  BY <1>0 DEF RollBack, Passes
<1>3. Typed'
  <2>1. JobsFit'
    BY <1>0, NoJobFits, OneJob
  <2>2. pass' \in [Loops -> Passes]
    BY <1>2 DEF RollBack
  <2>3. QED
    BY <2>1, <2>2 DEF IInv, Typed, RollBack, chain, db, history
<1>4. Counted'
  BY <1>0, <1>1, NoJobFits DEF IInv, Counted, FreshAlone, SeenRecorded, AppliedOnce
<1>5. NothingSkipped'
  <2>1. \A n : Behind(n)' = Behind(n)
    BY <1>0 DEF Behind
  <2>2. \A i \in Loops : i # w => InHand(i)' = InHand(i)
    BY <1>1, <1>2 DEF InHand, Workers
  <2>3. \A i \in Loops : Covers(i)'
    BY <1>0, <1>2, <2>1, <2>2 DEF IInv, NothingSkipped, Covers
  <2>4. QED
    BY <1>0, <2>1, <2>3 DEF IInv, NothingSkipped
<1>6. QED
  BY <1>3, <1>4, <1>5 DEF IInv

(* A new block is above everything that is behind a cursor or in a pass.   *)
LEMMA NewBlockKeepsInv ==
  ASSUME IInv, NewBlock
  PROVE  IInv'
<1>0. /\ job' = job /\ pass' = pass /\ recorded' = recorded /\ applied' = applied
      /\ missed' = missed /\ lastBlock' = lastBlock /\ head' = head + 1
      /\ holder' = holder /\ looping' = looping /\ owned' = owned
      /\ head \in StartBlock .. MaxHead /\ head < MaxHead
      /\ minedAt \in [Txs -> 0 .. MaxHead] /\ lastBlock \in 0 .. head
      /\ StartBlock \in Nat /\ MaxHead \in Nat
  BY IndexerAssumption DEF IInv, Typed, NewBlock, db, procs, history
<1>1. /\ bypassing \subseteq bypassing'
      /\ \/ UNCHANGED <<minedAt, move, balance>>
         \/ \E t \in Txs : /\ minedAt[t] = 0 /\ minedAt' = [minedAt EXCEPT ![t] = head + 1]
                           /\ UNCHANGED <<move, balance>>
         \/ \E t \in Txs, from, to \in Wallets \cup {Sale} :
              /\ minedAt[t] = 0 /\ minedAt' = [minedAt EXCEPT ![t] = head + 1]
              /\ from # to /\ (from # Sale => balance[from] > 0)
              /\ move' = [move EXCEPT ![t] = [from |-> from, to |-> to]]
              /\ balance' = Credit(balance, move'[t])
  BY DEF NewBlock
<1>2. minedAt' \in [Txs -> 0 .. MaxHead]
  BY <1>0, <1>1
<1>3. move' \in [Txs -> Moves]
  BY <1>1 DEF IInv, Typed, Moves
<1>4. balance' \in [Wallets -> Nat]
  <2>1. CASE balance' = balance
    BY <2>1 DEF IInv, Typed
  <2>2. ASSUME NEW t \in Txs, NEW from \in Wallets \cup {Sale}, NEW to \in Wallets \cup {Sale},
               from # to, from # Sale => balance[from] > 0,
               move' = [move EXCEPT ![t] = [from |-> from, to |-> to]],
               balance' = Credit(balance, move'[t])
        PROVE  balance' \in [Wallets -> Nat]
    <3>1. move'[t].from = from /\ move'[t].to = to
      BY <2>2 DEF IInv, Typed
    <3>2. balance' = [x \in Wallets |-> balance[x] + (IF x = to THEN 1 ELSE 0)
                                                   - (IF x = from THEN 1 ELSE 0)]
      BY <2>2, <3>1 DEF Credit
    <3>3. \A x \in Wallets : balance[x] \in Nat /\ (x = from => balance[x] > 0)
      BY <2>2, IndexerAssumption DEF IInv, Typed
    <3>4. \A x \in Wallets : balance[x] + (IF x = to THEN 1 ELSE 0)
                             - (IF x = from THEN 1 ELSE 0) \in Nat
      BY <2>2, <3>3
    <3>5. QED
      BY <3>2, <3>4
  <2>3. QED
    BY <1>1, <2>1, <2>2
<1>5. Typed'
  BY <1>0, <1>2, <1>3, <1>4 DEF IInv, Typed, JobsFit
<1>6. \A n \in Int : n <= head => Behind(n)' = Behind(n)
  BY <1>0, <1>1 DEF Behind
<1>7. Counted'
  BY <1>0 DEF IInv, Counted, FreshAlone, SeenRecorded, AppliedOnce
<1>8. ASSUME NEW i \in Loops PROVE Covers(i)'
  <2>1. pass[i].cur \in Nat /\ pass[i].end \in Nat /\ pass[i].latest \in Nat
    BY DEF IInv, Typed, Passes
  <2>2. Covers(i) /\ InHand(i)' = InHand(i)
    BY <1>0 DEF IInv, NothingSkipped, InHand
  <2>3. QED
    BY <1>0, <1>1, <1>6, <2>1, <2>2 DEF Covers
<1>9. (Behind(lastBlock) \subseteq recorded \cup missed \cup bypassing)'
  BY <1>0, <1>1, <1>6 DEF IInv, NothingSkipped
<1>10. QED
  BY <1>5, <1>7, <1>8, <1>9 DEF IInv, NothingSkipped
-------------------------------------------------------------------------------
(* When no job moves and nothing is committed, only the passes matter.     *)
LEMMA JobsStayCounted ==
  ASSUME Counted, UNCHANGED <<job, recorded, applied>>
  PROVE  Counted'
  BY DEF Counted, FreshAlone, SeenRecorded, AppliedOnce

LEMMA StartsJob ==
  ASSUME JobsFit, NEW w \in Workers, NEW t \in Txs, StartJob(w, t)
  PROVE  \E j \in Jobs : /\ Fits(j) /\ job' = [job EXCEPT ![w] = j]
                         /\ j.tx = t /\ j.stage = "record" /\ ~j.fresh
<1> DEFINE j == [NoJob EXCEPT !.stage = "record", !.tx = t]
<1>1. j \in Jobs /\ j.tx = t /\ j.stage = "record" /\ ~j.fresh
  BY NoJobFits DEF Jobs
<1>2. Fits(j)
  BY <1>1 DEF Fits
<1> HIDE DEF j
<1>3. QED
  BY <1>1, <1>2 DEF StartJob, j

LEMMA BehindGrows ==
  ASSUME NEW m \in Int, NEW n \in Int, m <= n, minedAt \in [Txs -> 0 .. MaxHead]
  PROVE  Behind(m) \subseteq Behind(n)
  BY IndexerAssumption DEF Behind

(* The other loops cover what they covered while events and misses stay.   *)
LEMMA OthersCover ==
  ASSUME IInv, NEW i \in Loops, Covers(i),
         pass'[i] = pass[i], job'[i] = job[i], minedAt' = minedAt, head' = head,
         bypassing' = bypassing, recorded' = recorded, missed \subseteq missed'
  PROVE  Covers(i)'
<1>1. \A n : Behind(n)' = Behind(n)
  BY DEF Behind
<1>2. InHand(i)' = InHand(i)
  BY DEF InHand
<1>3. QED
  BY <1>1, <1>2 DEF Covers

LEMMA LockKeepsInv ==
  ASSUME IInv, (\E i \in Loops : AcquireLock(i)) \/ LoseSession
  PROVE  IInv'
<1>1. UNCHANGED <<chain, db, pass, job, history>>
  BY DEF AcquireLock, LoseSession
<1>2. holder' \in Loops \cup {NoOne} /\ looping' \subseteq Loops
  BY DEF AcquireLock, LoseSession, IInv, Typed
<1>3. Typed'
  BY <1>1, <1>2 DEF IInv, Typed, JobsFit, chain, db, history
<1>4. Counted'
  BY <1>1, JobsStayCounted DEF IInv, db, history
<1>5. NothingSkipped'
  BY <1>1 DEF IInv, NothingSkipped, Covers, Behind, InHand, chain, db, history
<1>6. QED
  BY <1>3, <1>4, <1>5 DEF IInv

LEMMA CrashKeepsInv ==
  ASSUME IInv, NEW i \in Loops, Crash(i)
  PROVE  IInv'
<1>0. /\ job' = [job EXCEPT ![i] = NoJob] /\ pass' = [pass EXCEPT ![i] = NoPass]
      /\ UNCHANGED <<head, minedAt, move, bypassing, balance, recorded, owned, lastBlock>>
      /\ UNCHANGED <<missed, applied>> /\ i \in Workers
      /\ job \in [Workers -> Jobs] /\ pass \in [Loops -> Passes]
  BY DEF Crash, chain, db, history, Workers, IInv, Typed, JobsFit
<1>1. Typed'
  <2>1. JobsFit'
    BY <1>0, NoJobFits, OneJob DEF IInv, Typed
  <2>2. pass' \in [Loops -> Passes]
    BY <1>0, NoPassIsPass
  <2>3. holder' \in Loops \cup {NoOne} /\ looping' \subseteq Loops
    BY DEF Crash, IInv, Typed
  <2>4. QED
    BY <1>0, <2>1, <2>2, <2>3 DEF IInv, Typed
<1>2. Counted'
  BY <1>0, NoJobFits, BeginCounted DEF IInv
<1>3. \A k \in Loops : Covers(k)'
  <2>1. Covers(i)'
    BY <1>0 DEF Covers, NoPass
  <2>2. ASSUME NEW k \in Loops \ {i} PROVE Covers(k)'
    BY <1>0, OthersCover DEF IInv, NothingSkipped, Workers
  <2>3. QED
    BY <2>1, <2>2
<1>4. QED
  BY <1>0, <1>1, <1>2, <1>3 DEF IInv, NothingSkipped, Behind

(* Behind the block where a pass starts everything is indexed: it starts   *)
(* at most one above the cursor, or at the first block.                    *)
LEMMA BeginPassKeepsInv ==
  ASSUME IInv, NEW i \in Loops, BeginPass(i)
  PROVE  IInv'
<1> DEFINE last == IF lastBlock = 0 THEN StartBlock ELSE lastBlock
           p == [NoPass EXCEPT !.stage = "scan", !.cur = ScanStart(last), !.latest = head]
<1>0. /\ UNCHANGED <<head, minedAt, move, bypassing, balance, recorded, owned, holder, looping, job>>
      /\ UNCHANGED <<missed, applied>> /\ lastBlock' = last
      /\ pass' = IF head > last THEN [pass EXCEPT ![i] = p] ELSE pass
      /\ pass[i].stage = "off" /\ pass \in [Loops -> Passes]
  BY DEF BeginPass, chain, history, IInv, Typed
<1>1. /\ head \in StartBlock .. MaxHead /\ lastBlock \in 0 .. head /\ StartBlock \in Nat
      /\ MaxHead \in Nat /\ ReplayDepth \in Nat /\ minedAt \in [Txs -> 0 .. MaxHead]
  BY IndexerAssumption DEF IInv, Typed
<1>2. last \in 0 .. head /\ ScanStart(last) \in Nat
      /\ (ScanStart(last) <= last \/ ScanStart(last) = StartBlock)
  BY <1>1 DEF ScanStart
<1>3. Behind(last) \subseteq recorded \cup missed \cup bypassing
  <2>1. Behind(StartBlock) = {}
    BY <1>1 DEF Behind
  <2>2. QED
    BY <2>1 DEF IInv, NothingSkipped
<1>4. Behind(ScanStart(last) - 1) \subseteq recorded \cup missed \cup bypassing
  <2>1. CASE ScanStart(last) <= last
    BY <1>1, <1>2, <1>3, <2>1, BehindGrows
  <2>2. CASE ScanStart(last) = StartBlock
    BY <1>1, <2>2 DEF Behind
  <2>3. QED
    BY <1>2, <2>1, <2>2
<1>5. p \in Passes /\ p.stage = "scan" /\ p.cur = ScanStart(last) /\ p.latest = head
  <2>1. ASSUME NEW c \in Nat, NEW l \in Nat
        PROVE  LET q == [NoPass EXCEPT !.stage = "scan", !.cur = c, !.latest = l]
               IN q \in Passes /\ q.stage = "scan" /\ q.cur = c /\ q.latest = l
    BY DEF Passes, NoPass
  <2>2. head \in Nat
    BY <1>1
  <2> HIDE DEF last
  <2>3. QED
    BY <1>2, <2>1, <2>2
<1> HIDE DEF p, last
<1>6. Typed'
  <2>1. pass' \in [Loops -> Passes]
    BY <1>0, <1>5
  <2>2. QED
    BY <1>0, <1>2, <2>1 DEF IInv, Typed, JobsFit
<1>7. Counted'
  BY <1>0, JobsStayCounted DEF IInv
<1>8. \A n : Behind(n)' = Behind(n)
  BY <1>0 DEF Behind
<1>9. ASSUME NEW k \in Loops PROVE Covers(k)'
  <2>1. CASE k = i /\ head > last
    <3>1. pass'[k] = p
      BY <1>0, <2>1
    <3>2. ScanStart(last) <= head
      BY <1>1, <1>2, <2>1 DEF ScanStart
    <3>3. QED
      BY <1>0, <1>1, <1>4, <1>5, <1>8, <3>1, <3>2 DEF Covers
  <2>2. CASE ~(k = i /\ head > last)
    <3>1. pass'[k] = pass[k]
      BY <1>0, <2>2
    <3>2. QED
      BY <1>0, <3>1, OthersCover DEF IInv, NothingSkipped
  <2>3. QED
    BY <2>1, <2>2
<1>10. QED
  BY <1>0, <1>3, <1>6, <1>7, <1>8, <1>9 DEF IInv, NothingSkipped

(* A scan takes its chunk in hand, except for what it does not see.        *)
LEMMA ScanKeepsInv ==
  ASSUME IInv, NEW i \in Loops, Scan(i)
  PROVE  IInv'
<1> DEFINE p == pass[i]
           end == IF p.cur + ChunkSize - 1 < p.latest THEN p.cur + ChunkSize - 1 ELSE p.latest
           logged == LoggedIn(p.cur, end)
<1>0. /\ UNCHANGED <<head, minedAt, move, bypassing, balance, recorded, owned, lastBlock>>
      /\ UNCHANGED <<holder, looping, job>>
      /\ applied' = applied
      /\ p.stage = "scan" /\ p \in Passes /\ pass \in [Loops -> Passes] /\ Covers(i)
  BY DEF Scan, chain, db, IInv, Typed, NothingSkipped
<1>1. PICK unseen \in SUBSET logged :
        /\ missed' = missed \cup unseen
        /\ pass' = [pass EXCEPT ![i].stage = "work", ![i].end = end,
                                ![i].queue = logged \ unseen]
  BY DEF Scan
<1>2. end \in Nat /\ end <= p.latest /\ p.cur \in Nat /\ p.latest \in Nat
  BY <1>0, IndexerAssumption DEF Passes
<1>3. minedAt \in [Txs -> 0 .. MaxHead] /\ StartBlock \in Nat /\ MaxHead \in Nat
  BY IndexerAssumption DEF IInv, Typed
<1>4. logged \subseteq Txs
  BY DEF LoggedIn
<1>5. Behind(end) \subseteq Behind(p.cur - 1) \cup logged
  BY <1>2, <1>3 DEF Behind, LoggedIn
<1> HIDE DEF end, logged
<1>6. pass'[i] \in Passes /\ pass' \in [Loops -> Passes] /\ pass'[i].queue = logged \ unseen
      /\ pass'[i].stage = "work" /\ pass'[i].end = end /\ pass'[i].cur = p.cur
      /\ pass'[i].latest = p.latest
  BY <1>0, <1>1, <1>2, <1>4 DEF Passes
<1>7. Typed'
  BY <1>0, <1>6 DEF IInv, Typed, JobsFit
<1>8. Counted'
  BY <1>0, JobsStayCounted DEF IInv
<1>9. \A n : Behind(n)' = Behind(n)
  BY <1>0 DEF Behind
<1>10. ASSUME NEW k \in Loops PROVE Covers(k)'
  <2>1. CASE k = i
    <3>1. Behind(p.cur - 1) \subseteq recorded \cup missed \cup bypassing
      BY <1>0 DEF Covers
    <3>2. Behind(end) \subseteq recorded' \cup missed' \cup bypassing' \cup InHand(i)'
      BY <1>0, <1>1, <1>5, <1>6, <3>1 DEF InHand
    <3>3. QED
      BY <1>0, <1>1, <1>2, <1>6, <1>9, <2>1, <3>1, <3>2 DEF Covers
  <2>2. CASE k # i
    <3>1. pass'[k] = pass[k] /\ missed \subseteq missed'
      BY <1>0, <1>1, <2>2
    <3>2. QED
      BY <1>0, <3>1, OthersCover DEF IInv, NothingSkipped
  <2>3. QED
    BY <2>1, <2>2
<1>11. QED
  BY <1>0, <1>1, <1>7, <1>8, <1>9, <1>10 DEF IInv, NothingSkipped

(* The transaction a loop takes from its queue stays in its hands.         *)
LEMMA TakeTxKeepsInv ==
  ASSUME IInv, NEW i \in Loops, TakeTx(i)
  PROVE  IInv'
<1> DEFINE q == pass[i].queue
<1>0. /\ UNCHANGED <<head, minedAt, move, bypassing, balance, recorded, owned, lastBlock, holder, looping>>
      /\ UNCHANGED <<missed, applied>>
      /\ pass[i].stage = "work" /\ q # {} /\ job[i].stage = "off" /\ StartJob(i, Min(q))
      /\ pass' = [pass EXCEPT ![i].queue = @ \ {Min(@)}]
      /\ pass[i] \in Passes /\ pass \in [Loops -> Passes] /\ q \subseteq Txs
      /\ job \in [Workers -> Jobs] /\ JobsFit /\ i \in Workers
  BY DEF TakeTx, chain, db, history, IInv, Typed, JobsFit, Passes, Workers
<1>1. Min(q) \in q /\ Min(q) \in Txs
  BY <1>0, MinIsMember, IndexerAssumption
<1>2. PICK j \in Jobs : /\ Fits(j) /\ job' = [job EXCEPT ![i] = j]
                       /\ j.tx = Min(q) /\ j.stage = "record" /\ ~j.fresh
  BY <1>0, <1>1, StartsJob
<1>3. /\ pass'[i] \in Passes /\ pass' \in [Loops -> Passes]
      /\ pass'[i].queue = q \ {Min(q)} /\ pass'[i].stage = pass[i].stage
      /\ pass'[i].end = pass[i].end /\ pass'[i].cur = pass[i].cur
      /\ pass'[i].latest = pass[i].latest /\ pass'[i].failed = pass[i].failed
  BY <1>0 DEF Passes
<1>4. Typed'
  <2>1. JobsFit'
    BY <1>0, <1>2, OneJob
  <2>2. QED
    BY <1>0, <1>3, <2>1 DEF IInv, Typed
<1>5. Counted'
  BY <1>0, <1>2, BeginCounted DEF IInv
<1>6. \A n : Behind(n)' = Behind(n)
  BY <1>0 DEF Behind
<1>7. InHand(i) \subseteq InHand(i)'
  BY <1>0, <1>2, <1>3 DEF InHand
<1>8. ASSUME NEW k \in Loops PROVE Covers(k)'
  <2>1. CASE k = i
    BY <1>0, <1>3, <1>6, <1>7, <2>1 DEF IInv, NothingSkipped, Covers
  <2>2. CASE k # i
    <3>1. pass'[k] = pass[k] /\ job'[k] = job[k]
      BY <1>0, <1>2, <2>2 DEF Workers
    <3>2. QED
      BY <1>0, <3>1, OthersCover DEF IInv, NothingSkipped
  <2>3. QED
    BY <2>1, <2>2
<1>9. QED
  BY <1>0, <1>4, <1>5, <1>6, <1>8 DEF IInv, NothingSkipped

(* The cursor moves over a chunk only with nothing in hand and no failure. *)
LEMMA EndChunkKeepsInv ==
  ASSUME IInv, NEW i \in Loops, EndChunk(i)
  PROVE  IInv'
<1> DEFINE p == pass[i]
           n == [p EXCEPT !.stage = "scan", !.cur = p.end + 1]
<1>0. /\ UNCHANGED <<head, minedAt, move, bypassing, balance, recorded, owned, holder, looping, job>>
      /\ UNCHANGED <<missed, applied>>
      /\ p.stage = "work" /\ p.queue = {} /\ job[i].stage = "off"
      /\ p \in Passes /\ pass \in [Loops -> Passes] /\ Covers(i)
      /\ head \in Nat /\ lastBlock \in 0 .. head
  BY IndexerAssumption DEF EndChunk, chain, history, IInv, Typed, NothingSkipped
<1>1. p.end \in Nat /\ p.end <= p.latest /\ p.latest <= head /\ p.latest \in Nat
      /\ p.failed \in BOOLEAN
  BY <1>0 DEF Covers, Passes
<1>2. n \in Passes /\ n.stage = "scan" /\ n.cur = p.end + 1 /\ n.latest = p.latest
  <2>1. ASSUME NEW q \in Passes, NEW c \in Nat
        PROVE  LET m == [q EXCEPT !.stage = "scan", !.cur = c]
               IN m \in Passes /\ m.stage = "scan" /\ m.cur = c /\ m.latest = q.latest
    BY DEF Passes
  <2>2. p.end + 1 \in Nat
    BY <1>1
  <2> HIDE DEF p
  <2>3. QED
    BY <1>0, <2>1, <2>2
<1>3. \/ /\ ~p.failed /\ lastBlock' = p.end
         /\ \/ p.end < p.latest /\ pass' = [pass EXCEPT ![i] = n]
            \/ pass' = [pass EXCEPT ![i] = NoPass]
      \/ lastBlock' = lastBlock /\ pass' = [pass EXCEPT ![i] = NoPass]
  BY DEF EndChunk, ChunkOk
<1>4. ~p.failed => Behind(p.end) \subseteq recorded \cup missed \cup bypassing
  BY <1>0 DEF Covers, InHand
<1> HIDE DEF n
<1>5. Typed'
  <2>1. pass' \in [Loops -> Passes]
    BY <1>0, <1>2, <1>3, NoPassIsPass
  <2>2. lastBlock' \in 0 .. head
    BY <1>0, <1>1, <1>3
  <2>3. QED
    BY <1>0, <2>1, <2>2 DEF IInv, Typed, JobsFit
<1>6. Counted'
  BY <1>0, JobsStayCounted DEF IInv
<1>7. \A m : Behind(m)' = Behind(m)
  BY <1>0 DEF Behind
<1>8. ASSUME NEW k \in Loops PROVE Covers(k)'
  <2>1. CASE k = i /\ pass'[k] = NoPass
    BY <2>1 DEF Covers, NoPass
  <2>2. CASE k = i /\ pass'[k] = n /\ p.end < p.latest /\ ~p.failed
    <3>1. n.cur <= n.latest /\ n.cur - 1 = p.end
      BY <1>1, <1>2, <2>2
    <3>2. QED
      BY <1>0, <1>1, <1>2, <1>4, <1>7, <2>2, <3>1 DEF Covers
  <2>3. CASE k # i
    <3>1. pass'[k] = pass[k]
      BY <1>0, <1>3, <2>3
    <3>2. QED
      BY <1>0, <3>1, OthersCover DEF IInv, NothingSkipped
  <2>4. QED
    BY <1>0, <1>3, <2>1, <2>2, <2>3
<1>9. (Behind(lastBlock) \subseteq recorded \cup missed \cup bypassing)'
  BY <1>0, <1>3, <1>4, <1>7 DEF IInv, NothingSkipped
<1>10. QED
  BY <1>5, <1>6, <1>8, <1>9 DEF IInv, NothingSkipped

(* A request that begins is no loop, so no loop had its job in hand.       *)
LEMMA RequestBegins ==
  ASSUME IInv, NEW r \in Requests, NEW j \in Jobs, Fits(j), job' = [job EXCEPT ![r] = j],
         ~j.fresh, j.stage = "record" \/ j.tx = NoTx, UNCHANGED <<chain, db, procs, history>>
  PROVE  IInv'
<1>0. /\ UNCHANGED <<head, minedAt, move, bypassing, balance, recorded, owned, lastBlock>>
      /\ UNCHANGED <<holder, looping, pass, missed, applied>>
      /\ r \in Workers /\ r \notin Loops /\ job \in [Workers -> Jobs]
  BY IndexerAssumption DEF chain, db, procs, history, Workers, IInv, Typed, JobsFit
<1>1. Typed'
  <2>1. JobsFit'
    BY <1>0, OneJob DEF IInv, Typed
  <2>2. QED
    BY <1>0, <2>1 DEF IInv, Typed
<1>2. Counted'
  BY <1>0, BeginCounted DEF IInv
<1>3. ASSUME NEW k \in Loops PROVE Covers(k)'
  <2>1. pass'[k] = pass[k] /\ job'[k] = job[k]
    BY <1>0 DEF Workers
  <2>2. QED
    BY <1>0, <2>1, OthersCover DEF IInv, NothingSkipped
<1>4. QED
  BY <1>0, <1>1, <1>2, <1>3 DEF IInv, NothingSkipped, Behind

LEMMA RequestKeepsInv ==
  ASSUME IInv, NEW r \in Requests, NEW t \in Txs, Request(r, t)
  PROVE  IInv'
  BY StartsJob, RequestBegins DEF Request, IInv, Typed, Workers

LEMMA RefreshKeepsInv ==
  ASSUME IInv, NEW r \in Requests, NEW x \in Wallets, Refresh(r, x)
  PROVE  IInv'
<1> DEFINE j == [NoJob EXCEPT !.stage = "write", !.todo = <<x>>, !.read = balance[x]]
<1>1. balance[x] \in Nat /\ <<x>> \in Seq(Wallets) /\ <<x>> # <<>>
  BY DEF IInv, Typed
<1>2. j \in Jobs /\ j.tx = NoTx /\ j.stage = "write" /\ ~j.fresh /\ j.todo = <<x>>
  BY <1>1, NoJobFits DEF Jobs, NoJob
<1>3. Fits(j)
  BY <1>1, <1>2 DEF Fits
<1>4. job' = [job EXCEPT ![r] = j] /\ UNCHANGED <<chain, db, procs, history>>
  BY DEF Refresh
<1> HIDE DEF j
<1>5. QED
  BY <1>2, <1>3, <1>4, RequestBegins
-------------------------------------------------------------------------------
LEMMA InitKeepsInv ==
  ASSUME Init
  PROVE  IInv
<1>1. Typed
  <2>1. move \in [Txs -> Moves]
    BY DEF Init, NoMove, Moves
  <2>2. JobsFit
    BY NoJobFits DEF Init, JobsFit
  <2>3. pass \in [Loops -> Passes]
    BY NoPassIsPass DEF Init
  <2>4. QED
    BY <2>1, <2>2, <2>3, IndexerAssumption DEF Init, Typed
<1>2. Counted
  BY NoJobFits DEF Init, Counted, FreshAlone, SeenRecorded, AppliedOnce
<1>3. \A i \in Loops : Covers(i)
  BY DEF Init, Covers, NoPass
<1>4. Behind(lastBlock) = {}
  BY IndexerAssumption DEF Init, Behind
<1>5. QED
  BY <1>1, <1>2, <1>3, <1>4 DEF IInv, NothingSkipped

LEMMA NextKeepsInv ==
  ASSUME IInv, [Next]_vars
  PROVE  IInv'
<1>1. CASE NewBlock
  BY <1>1, NewBlockKeepsInv
<1>2. ASSUME NEW w \in Workers, JobStep(w) \/ BalanceCallFails(w) \/ Abort(w)
      PROVE  IInv'
  <2>1. CASE Works(w)
    BY <2>1, WorkKeepsInv
  <2>2. CASE Commit(w)
    BY <2>2, CommitKeepsInv
  <2>3. CASE PassOver(w)
    BY <2>3, PassOverKeepsInv
  <2>4. CASE Refuse(w) \/ DeadlockVictim(w) \/ Abort(w)
    BY <2>4, RollBackKeepsInv DEF Refuse, DeadlockVictim, Abort
  <2>5. QED
    BY <1>2, <2>1, <2>2, <2>3, <2>4 DEF JobStep, Works
<1>3. ASSUME NEW i \in Loops, LoopStep(i) \/ Crash(i)
      PROVE  IInv'
  BY <1>3, LockKeepsInv, BeginPassKeepsInv, ScanKeepsInv, TakeTxKeepsInv, EndChunkKeepsInv,
     CrashKeepsInv DEF LoopStep
<1>4. CASE LoseSession
  BY <1>4, LockKeepsInv
<1>5. CASE UNCHANGED vars
  <2>1. UNCHANGED <<chain, db, procs, job, history>>
    BY <1>5 DEF vars
  <2>2. UNCHANGED <<head, minedAt, move, bypassing, balance, recorded, owned, lastBlock>>
        /\ UNCHANGED <<holder, looping, pass, job, missed, applied>>
    BY <2>1 DEF chain, db, procs, history
  <2>3. Typed' /\ Counted'
    BY <2>2, JobsStayCounted DEF IInv, Typed, JobsFit
  <2>4. NothingSkipped'
    BY <2>2 DEF IInv, NothingSkipped, Covers, Behind, InHand
  <2>5. QED
    BY <2>3, <2>4 DEF IInv
<1>6. QED
  BY <1>1, <1>2, <1>3, <1>4, <1>5, RequestKeepsInv, RefreshKeepsInv DEF Next

(* The inductive invariant holds in every state of every behaviour.        *)
THEOREM Invariance == Spec => []IInv
<1>1. Init => IInv
  BY InitKeepsInv
<1>2. IInv /\ [Next]_vars => IInv'
  BY NextKeepsInv
<1>3. QED
  BY <1>1, <1>2, PTL DEF Spec

(* Whatever runs at once, the tables and the passes keep their types: no   *)
(* ownership row goes below zero.                                          *)
THEOREM TypeCorrect == Spec => []TypeOK
<1>1. IInv => TypeOK
  BY IndexerAssumption DEF IInv, Typed, JobsFit, TypeOK, Passes, Jobs
<1>2. QED
  BY <1>1, Invariance, PTL

(* A delta is committed at most once, and exactly with its event, for any  *)
(* number of loops and requests that reconcile the same transaction.       *)
THEOREM CountedOnce == Spec => []AppliedOnce
<1>1. IInv => AppliedOnce
  BY DEF IInv, Counted
<1>2. QED
  BY <1>1, Invariance, PTL

(* The cursor passes only what was indexed, what a scan failed to see and  *)
(* what bypasses the token contracts and properties the indexer knows, with*)
(* any number of loops, lost locks, crashes and failed jobs.               *)
THEOREM NothingPassedOver == Spec => []NoSilentGap
<1>1. IInv => NoSilentGap
  BY DEF IInv, NothingSkipped, Behind, NoSilentGap
<1>2. QED
  BY <1>1, Invariance, PTL
===============================================================================
