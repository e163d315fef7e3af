---------------------------- MODULE ListingsProofs ----------------------------
(***************************************************************************)
(* Proofs about Listings, for any number of handlers, requests and tokens  *)
(* and any budget of faults: a token's sale inventory is minted once, a    *)
(* listing keeps its token, and one payload has one listing but for those  *)
(* that a stream inserts beside another.                                   *)
(***************************************************************************)
EXTENDS Listings, FiniteSetTheorems, SequenceTheorems, WellFoundedInduction,
        TLAPS

Statuses == {"active", "archived", "deleted"}
Row == [token : Nat, state : Statuses, again : BOOLEAN]
Token == [code : BOOLEAN, minted : Nat, issued : Nat]

Phases == {"none", "create", "deploy", "inventory", "repair", "issue", "delete"}

(* The stages of a step that has locked its row *)
OnRow == {"deployTx", "mint", "write", "whitelist", "issueTx", "reconcile"}

Requests ==
  [kind : Kinds \cup {"none"}, phase : Phases,
   stage : {"off", "enter", "insert", "close", "lock"} \cup OnRow, row : Nat, token : Nat,
   issue : Nat, tries : Nat, lost : BOOLEAN]

(* What a request refers to is there, and before it has a lock it has not  *)
(* lost one                                                                *)
Fits(r) ==
  /\ r.stage \in OnRow \cup {"lock"} => r.row \in DOMAIN rows
  /\ r.stage = "insert" => r.row \in DOMAIN rows \cup {0}
  /\ r.stage \in {"off", "enter", "lock"} => ~r.lost
  /\ r.stage = "lock" => r.phase \in Phases \ {"none", "create"}
  /\ r.token <= Len(tokens)
  /\ r.stage = "mint" => r.token # 0

Typed ==
  /\ rows \in Seq(Row) /\ \A i \in DOMAIN rows : rows[i].token <= Len(tokens)
  /\ tokens \in Seq(Token) /\ issues \in Seq(Nat)
  /\ indexed \subseteq DOMAIN issues /\ doubtful \subseteq DOMAIN tokens
  /\ createLock \in Handlers \cup {NoOne} /\ rowLock \in [Ids -> Handlers \cup {NoOne}]
  /\ req \in [Handlers -> Requests] /\ \A h \in Handlers : Fits(req[h])
  /\ left \in [Faults \cup {"request"} -> Nat]

(* Every row is or was the request of a handler that is to insert it *)
Inserting == {h \in Handlers : req[h].stage \in {"enter", "insert"}}
Bounded == Len(rows) + Cardinality(Inserting) + left["request"] <= MaxRequests

(* The stages of a submission that has locked its payload *)
OnPayload == {"insert", "close"}

(* Each has its lock until its session is gone *)
Locked ==
  /\ \A h \in Handlers : createLock = h <=> req[h].stage \in OnPayload /\ ~req[h].lost
  /\ \A h \in Handlers, i \in Ids :
       rowLock[i] = h <=> req[h].stage \in OnRow /\ ~req[h].lost /\ req[h].row = i

TypeInv == Typed /\ Bounded /\ Locked
-------------------------------------------------------------------------------
(* Rows are numbered by Ids *)
LEMMA RowsAreIds ==
  ASSUME Typed, Bounded
  PROVE  /\ DOMAIN rows = 1 .. Len(rows) /\ Len(rows) \in Nat
         /\ Len(rows) <= MaxRequests
         /\ DOMAIN rows \subseteq Ids /\ 0 \notin DOMAIN rows
<1>1. DOMAIN rows = 1 .. Len(rows) /\ Len(rows) \in Nat
  BY LenProperties DEF Typed
<1>2. Inserting \in SUBSET Handlers /\ IsFiniteSet(Handlers) /\ MaxRequests \in Nat
  BY ListingsAssumption DEF Inserting
<1>3. Cardinality(Inserting) \in Nat
  BY <1>2, FS_Subset, FS_CardinalityType
<1>4. left["request"] \in Nat
  BY DEF Typed
<1>5. Len(rows) <= MaxRequests
  BY <1>1, <1>2, <1>3, <1>4 DEF Bounded
<1>6. QED
  BY <1>1, <1>2, <1>5 DEF Ids

LEMMA RowTyped ==
  ASSUME Typed, NEW i \in DOMAIN rows
  PROVE  /\ rows[i] \in Row /\ rows[i].token \in Nat /\ rows[i].state \in Statuses
         /\ rows[i].again \in BOOLEAN
<1>1. rows[i] \in Row
  BY LenProperties DEF Typed
<1>2. QED
  BY <1>1 DEF Row

LEMMA TokenInUse ==
  ASSUME Typed, NEW h \in Handlers, req[h].stage = "mint"
  PROVE  req[h].token \in DOMAIN tokens
<1>1. DOMAIN tokens = 1 .. Len(tokens) /\ Len(tokens) \in Nat
  BY LenProperties DEF Typed
<1>2. req[h].token \in Nat /\ Fits(req[h])
  BY DEF Typed, Requests
<1>3. QED
  BY <1>1, <1>2 DEF Fits

(* A nonempty set of rows has a first one *)
LEMMA FirstOfRows ==
  ASSUME NEW n \in Nat, NEW S \in SUBSET (1 .. n), S # {}
  PROVE  \E i \in S : \A j \in S : i <= j
<1> DEFINE T == {1 .. i : i \in S}
<1>1. IsFiniteSet(1 .. n)
  <2>1. 1 \in Int /\ n \in Int
    OBVIOUS
  <2>2. QED
    BY <2>1, FS_Interval
<1>2. IsWellFoundedOn(StrictSubsetOrdering(1 .. n), SUBSET (1 .. n))
  BY <1>1, FS_FiniteSubsetsOfFinite, FS_StrictSubsetOrderingWellFounded
<1>3. T \subseteq SUBSET (1 .. n) /\ T # {}
  <2>1. \A i \in S : (1 .. i) \in SUBSET (1 .. n)
    OBVIOUS
  <2>2. QED
    BY <2>1
<1>4. PICK x \in T : \A y \in T : ~ (<<y, x>> \in StrictSubsetOrdering(1 .. n))
  BY <1>2, <1>3, WFMin
<1>5. PICK i \in S : x = 1 .. i
  OBVIOUS
<1>6. ASSUME NEW j \in S, ~ (i <= j)
      PROVE  FALSE
  <2>1. (1 .. j) \in SUBSET (1 .. n) /\ (1 .. i) \in SUBSET (1 .. n)
    <3>1. i \in 1 .. n /\ j \in 1 .. n
      OBVIOUS
    <3> HIDE DEF T
    <3>2. QED
      BY <3>1
  <2>2. (1 .. j) \in T
    BY Zenon
  <2>3. (1 .. j) \subseteq (1 .. i) /\ (1 .. j) # (1 .. i)
    <3>1. i \in 1 .. i /\ i \notin 1 .. j
      BY <1>6
    <3>2. QED
      BY <1>6, <3>1
  <2>4. <<1 .. j, 1 .. i>> \in StrictSubsetOrdering(1 .. n)
    BY <2>1, <2>3 DEF StrictSubsetOrdering
  <2>5. QED
    BY <1>4, <1>5, <2>2, <2>4, Zenon
<1>7. QED
  BY <1>6
-------------------------------------------------------------------------------
(* Only the request of one handler changes *)
Others(h) ==
  /\ req' \in [Handlers -> Requests]
  /\ \A g \in Handlers : g # h => req'[g] = req[g]

LEMMA IdleFields ==
  /\ Idle \in Requests /\ Idle.stage = "off" /\ Idle.kind = "none" /\ Idle.row = 0
  /\ Idle.token = 0 /\ ~Idle.lost
<1>1. Idle \in Requests
  BY DEF Idle, Requests, Phases, OnRow
<1>2. QED
  BY <1>1 DEF Idle

(* The other requests fit still when rows and tokens are only added *)
LEMMA OthersFit ==
  ASSUME Typed, NEW h \in Handlers, Others(h), NEW g \in Handlers, g # h,
         DOMAIN rows \subseteq DOMAIN rows',
         tokens' \in Seq(Token), Len(tokens) <= Len(tokens')
  PROVE  Fits(req[g])'
<1>1. req'[g] = req[g] /\ req[g] \in Requests /\ Fits(req[g])
  BY DEF Typed, Others
<1>2. Len(tokens) \in Nat /\ Len(tokens') \in Nat /\ req[g].token \in Nat
  BY <1>1, LenProperties DEF Typed, Requests
<1>3. req[g].token <= Len(tokens')
  BY <1>1, <1>2 DEF Fits
<1>4. QED
  BY <1>1, <1>3 DEF Fits

(* Spending a bound lowers it *)
LEMMA Spending ==
  ASSUME Typed, NEW what \in Faults \cup {"request"}, Spend(what)
  PROVE  /\ left' \in [Faults \cup {"request"} -> Nat]
         /\ left'[what] = left[what] - 1
         /\ \A f \in Faults \cup {"request"} : f # what => left'[f] = left[f]
  BY DEF Typed, Spend

(* What the end of a transaction does to the locks *)
LEMMA Closing ==
  ASSUME Typed, NEW h \in Handlers, Close(h)
  PROVE  /\ createLock' \in Handlers \cup {NoOne}
         /\ rowLock' \in [Ids -> Handlers \cup {NoOne}]
         /\ createLock' # h /\ \A g \in Handlers : g # h => (createLock' = g <=> createLock = g)
         /\ \A i \in Ids : /\ rowLock'[i] # h
                           /\ \A g \in Handlers : g # h => (rowLock'[i] = g <=> rowLock[i] = g)
  BY ListingsAssumption DEF Typed, Close, Unlocked

LEMMA Ending ==
  ASSUME Typed, NEW h \in Handlers, End(h)
  PROVE  Close(h) /\ Others(h) /\ req'[h] = Idle
  BY IdleFields DEF Typed, End, Others

(* The end of a transaction keeps the locks where they belong, when the    *)
(* request holds none afterwards                                           *)
LEMMA ClosingKeepsLocked ==
  ASSUME Typed, Locked, NEW h \in Handlers, Close(h), Others(h),
         req'[h].lost \/ req'[h].stage \notin OnRow \cup OnPayload
  PROVE  Locked'
<1>1. /\ createLock' # h /\ \A g \in Handlers : g # h => (createLock' = g <=> createLock = g)
      /\ \A i \in Ids : /\ rowLock'[i] # h
                        /\ \A g \in Handlers : g # h => (rowLock'[i] = g <=> rowLock[i] = g)
  BY Closing
<1>2. QED
  BY <1>1 DEF Locked, Others

LEMMA StayingKeepsLocked ==
  ASSUME Typed, Locked, NEW h \in Handlers, UNCHANGED <<createLock, rowLock>>, Others(h),
         req'[h].lost = req[h].lost, req'[h].row = req[h].row,
         req'[h].stage \in OnPayload <=> req[h].stage \in OnPayload,
         req'[h].stage \in OnRow <=> req[h].stage \in OnRow
  PROVE  Locked'
  BY DEF Locked, Others

(* No handler begins to insert and no row is added *)
LEMMA NoneInserts ==
  ASSUME Typed, Bounded, Inserting' \subseteq Inserting, Len(rows') = Len(rows),
         left' \in [Faults \cup {"request"} -> Nat], left'["request"] <= left["request"]
  PROVE  Bounded'
<1>1. IsFiniteSet(Inserting) /\ Inserting' \in SUBSET Inserting
  BY ListingsAssumption, FS_Subset DEF Inserting
<1>2. /\ Cardinality(Inserting) \in Nat /\ Cardinality(Inserting') \in Nat
      /\ Cardinality(Inserting') <= Cardinality(Inserting)
  BY <1>1, FS_Subset, FS_CardinalityType
<1>3. left["request"] \in Nat /\ left'["request"] \in Nat /\ Len(rows) \in Nat
  BY LenProperties DEF Typed
<1>4. MaxRequests \in Nat
  BY ListingsAssumption
<1>5. QED
  BY <1>2, <1>3, <1>4 DEF Bounded

(* Typed again, when what the step changed is *)
LEMMA TypedAgain ==
  ASSUME Typed, NEW h \in Handlers, Others(h), Fits(req[h])',
         rows' \in Seq(Row), \A i \in DOMAIN rows' : rows'[i].token <= Len(tokens'),
         DOMAIN rows \subseteq DOMAIN rows',
         tokens' \in Seq(Token), Len(tokens) <= Len(tokens'), issues' \in Seq(Nat),
         indexed' \subseteq DOMAIN issues', doubtful' \subseteq DOMAIN tokens',
         createLock' \in Handlers \cup {NoOne}, rowLock' \in [Ids -> Handlers \cup {NoOne}],
         left' \in [Faults \cup {"request"} -> Nat]
  PROVE  Typed'
<1>1. ASSUME NEW g \in Handlers
      PROVE  Fits(req[g])'
  BY OthersFit
<1>2. QED
  BY <1>1 DEF Typed, Others

LEMMA RowsTyped ==
  ASSUME Typed, UNCHANGED rows, tokens' \in Seq(Token), Len(tokens) <= Len(tokens')
  PROVE  rows' \in Seq(Row) /\ \A i \in DOMAIN rows' : rows'[i].token <= Len(tokens')
<1>1. \A i \in DOMAIN rows : rows[i] \in Row
  BY LenProperties DEF Typed
<1>2. Len(tokens) \in Nat /\ Len(tokens') \in Nat
  BY LenProperties DEF Typed
<1>3. QED
  BY <1>1, <1>2 DEF Typed, Row

LEMMA TypedOnLocks ==
  ASSUME Typed, NEW h \in Handlers, Others(h), Fits(req[h])',
         UNCHANGED <<rows, tokens, issues, indexed, doubtful>>,
         createLock' \in Handlers \cup {NoOne}, rowLock' \in [Ids -> Handlers \cup {NoOne}],
         left' \in [Faults \cup {"request"} -> Nat]
  PROVE  Typed'
<1>1. Len(tokens) \in Nat /\ Len(tokens') = Len(tokens)
  BY LenProperties DEF Typed
<1>2. /\ rows' \in Seq(Row) /\ DOMAIN rows' = DOMAIN rows
      /\ \A i \in DOMAIN rows' : rows'[i].token <= Len(tokens')
      /\ tokens' \in Seq(Token) /\ issues' \in Seq(Nat)
      /\ indexed' \subseteq DOMAIN issues' /\ doubtful' \subseteq DOMAIN tokens'
  BY DEF Typed
<1>3. QED
  BY <1>1, <1>2, TypedAgain

(* Only a token that is being minted becomes doubtful *)
LEMMA DoubtTyped ==
  ASSUME Typed, NEW h \in Handlers, Doubt(h), DOMAIN tokens \subseteq DOMAIN tokens'
  PROVE  doubtful' \subseteq DOMAIN tokens' /\ doubtful \subseteq doubtful'
  BY TokenInUse DEF Doubt, Typed

(* A request that ends while the rest stays *)
LEMMA EndingKeepsTypeInv ==
  ASSUME TypeInv, NEW h \in Handlers, End(h), UNCHANGED rows,
         tokens' \in Seq(Token), Len(tokens) <= Len(tokens'), issues' \in Seq(Nat),
         indexed' \subseteq DOMAIN issues', doubtful' \subseteq DOMAIN tokens',
         left' \in [Faults \cup {"request"} -> Nat], left'["request"] <= left["request"]
  PROVE  TypeInv'
<1>1. Close(h) /\ Others(h) /\ req'[h] = Idle /\ Idle.stage = "off" /\ ~Idle.lost
  BY Ending, IdleFields DEF TypeInv
<1>2. Locked'
  BY <1>1, ClosingKeepsLocked DEF OnPayload, TypeInv, OnRow
<1>3. Inserting' \subseteq Inserting
  BY <1>1 DEF Inserting, Others
<1>4. Bounded'
  BY <1>3, NoneInserts DEF TypeInv
<1>5. createLock' \in Handlers \cup {NoOne} /\ rowLock' \in [Ids -> Handlers \cup {NoOne}]
  BY <1>1, Closing DEF TypeInv
<1>6. rows' \in Seq(Row) /\ \A i \in DOMAIN rows' : rows'[i].token <= Len(tokens')
  BY RowsTyped DEF TypeInv
<1>7. Fits(req[h])'
  <2>1. Len(tokens') \in Nat
    BY LenProperties
  <2>2. QED
    BY <1>1, <2>1, IdleFields DEF Fits, OnRow
<1>8. Typed'
  BY <1>1, <1>5, <1>6, <1>7, TypedAgain DEF TypeInv
<1>9. QED
  BY <1>2, <1>4, <1>8 DEF TypeInv

LEMMA EndingAlone ==
  ASSUME TypeInv, NEW h \in Handlers, End(h), UNCHANGED <<rows, tokens, issues>>,
         indexed' \subseteq DOMAIN issues, Doubt(h) \/ UNCHANGED doubtful,
         left' \in [Faults \cup {"request"} -> Nat], left'["request"] = left["request"]
  PROVE  TypeInv'
<1>1. tokens' \in Seq(Token) /\ Len(tokens) <= Len(tokens') /\ issues' \in Seq(Nat)
  BY LenProperties DEF TypeInv, Typed
<1>2. indexed' \subseteq DOMAIN issues'
  OBVIOUS
<1>3. doubtful' \subseteq DOMAIN tokens'
  BY DoubtTyped DEF TypeInv, Typed
<1>4. left'["request"] <= left["request"]
  BY DEF TypeInv, Typed
<1>5. QED
  BY <1>1, <1>2, <1>3, <1>4, EndingKeepsTypeInv
-------------------------------------------------------------------------------
(* A request begins: to enter the pipeline, or to lock a row *)
LEMMA Starting ==
  ASSUME TypeInv, NEW h \in Handlers, NEW kind \in Kinds, NEW i \in Ids \cup {0},
         Start(h, kind, i)
  PROVE  /\ Others(h) /\ Fits(req[h])' /\ req[h].stage = "off"
         /\ req'[h].stage = (IF i = 0 THEN "enter" ELSE "lock") /\ req'[h].kind = kind
         /\ req'[h].row = i /\ req'[h].token = 0 /\ ~req'[h].lost
         /\ Spend("request") /\ UNCHANGED <<db, chain, doubtful>>
<1> DEFINE phase == IF i = 0 THEN "create" ELSE kind
           r == [Idle EXCEPT !.kind = kind, !.row = i, !.phase = phase,
                   !.stage = IF i = 0 THEN "enter" ELSE "lock"]
<1>1. i \in Nat /\ kind \in {"create", "stream", "deploy", "repair", "issue", "delete"}
  BY ListingsAssumption DEF Ids
<1>2. IF kind \in {"create", "stream"} THEN i = 0 ELSE i \in DOMAIN rows
  BY DEF Start
<1>3. 0 \notin DOMAIN rows
  BY RowsAreIds DEF TypeInv
<1>4. phase \in Phases /\ (i # 0 => phase \in Phases \ {"none", "create"} /\ i \in DOMAIN rows)
  BY <1>1, <1>2, <1>3 DEF Phases
<1> HIDE DEF phase
<1>5. /\ r \in Requests /\ r.stage = (IF i = 0 THEN "enter" ELSE "lock") /\ r.kind = kind
      /\ r.row = i /\ r.token = 0 /\ ~r.lost /\ r.phase = phase
  BY <1>1, <1>4 DEF Idle, Requests, OnRow, Phases
<1>6. req' = [req EXCEPT ![h] = r] /\ UNCHANGED <<db, chain, doubtful>> /\ Spend("request")
      /\ req[h].stage = "off"
  BY DEF Start, phase
<1> HIDE DEF r
<1>7. Others(h) /\ req'[h] = r
  BY <1>5, <1>6 DEF TypeInv, Typed, Others
<1>8. UNCHANGED <<rows, tokens>> /\ 0 <= Len(tokens)
  BY <1>6, LenProperties DEF db, chain, TypeInv, Typed
<1>9. Fits(req[h])'
  BY <1>4, <1>5, <1>7, <1>8 DEF Fits, OnRow
<1>10. QED
  BY <1>5, <1>6, <1>7, <1>9

LEMMA StartKeepsTypeInv ==
  ASSUME TypeInv, NEW h \in Handlers, NEW kind \in Kinds, NEW i \in Ids \cup {0},
         Start(h, kind, i)
  PROVE  TypeInv'
<1>1. /\ Others(h) /\ Fits(req[h])' /\ req[h].stage = "off"
      /\ req'[h].stage \in {"enter", "lock"} /\ Spend("request")
      /\ UNCHANGED <<rows, indexed, createLock, rowLock, tokens, issues, doubtful>>
  BY Starting DEF db, chain
<1>2. /\ left' \in [Faults \cup {"request"} -> Nat]
      /\ left'["request"] = left["request"] - 1
  BY <1>1, Spending DEF TypeInv
<1>3. /\ createLock' \in Handlers \cup {NoOne}
      /\ rowLock' \in [Ids -> Handlers \cup {NoOne}]
  BY <1>1 DEF TypeInv, Typed
<1>4. Typed'
  BY <1>1, <1>2, <1>3, TypedOnLocks DEF TypeInv
<1>5. Locked'
  BY <1>1 DEF OnPayload, TypeInv, Locked, Others, OnRow
<1>6. Bounded'
  <2>1. Inserting' \subseteq Inserting \cup {h}
    BY <1>1 DEF Inserting, Others
  <2>2. IsFiniteSet(Inserting) /\ Inserting \cup {h} \in SUBSET Handlers
    BY ListingsAssumption, FS_Subset DEF Inserting
  <2>3. /\ IsFiniteSet(Inserting \cup {h}) /\ Cardinality(Inserting) \in Nat
        /\ Cardinality(Inserting \cup {h}) <= Cardinality(Inserting) + 1
    <3>1. Cardinality(Inserting) \in Nat /\ IsFiniteSet(Inserting \cup {h})
      BY <2>2, FS_AddElement, FS_CardinalityType
    <3>2. Cardinality(Inserting \cup {h}) =
            IF h \in Inserting THEN Cardinality(Inserting) ELSE Cardinality(Inserting) + 1
      BY <2>2, FS_AddElement
    <3>3. QED
      BY <3>1, <3>2
  <2>4. /\ Cardinality(Inserting') \in Nat
        /\ Cardinality(Inserting') <= Cardinality(Inserting \cup {h})
        /\ Cardinality(Inserting \cup {h}) \in Nat
    BY <2>1, <2>3, FS_Subset, FS_CardinalityType
  <2>5. left["request"] \in Nat /\ Len(rows) \in Nat /\ MaxRequests \in Nat
    BY LenProperties, ListingsAssumption DEF TypeInv, Typed
  <2>6. QED
    BY <1>1, <1>2, <2>3, <2>4, <2>5 DEF TypeInv, Bounded
<1>7. QED
  BY <1>4, <1>5, <1>6 DEF TypeInv

(* The look for a listing: the request ends, or holds the payload's lock   *)
(* and goes on with the listing that was found or a row to insert          *)
Found == IF Listed = {} THEN 0 ELSE CHOOSE i \in Listed : \A j \in Listed : i <= j

LEMMA FoundIsListed ==
  ASSUME Typed, Bounded
  PROVE  Found \in Listed \cup {0} /\ (Found = 0 <=> Listed = {})
<1>1. /\ Len(rows) \in Nat /\ Listed \in SUBSET (1 .. Len(rows)) /\ 0 \notin Listed
  BY RowsAreIds DEF Listed
<1>2. Listed # {} => \E i \in Listed : \A j \in Listed : i <= j
  BY <1>1, FirstOfRows
<1>3. QED
  BY <1>1, <1>2 DEF Found

LEMMA Finding ==
  ASSUME TypeInv, NEW h \in Handlers, NEW ok \in BOOLEAN, Find(h, ok)
  PROVE  /\ req[h].stage = "enter" /\ ~req[h].lost /\ createLock = NoOne
         /\ UNCHANGED <<rows, indexed, chain, doubtful>>
         /\ left' \in [Faults \cup {"request"} -> Nat]
         /\ left'["request"] = left["request"] /\ left'["rpc"] <= left["rpc"]
         /\ createLock' = h /\ UNCHANGED rowLock
         /\ Others(h) /\ Fits(req[h])'
         /\ req'[h].stage \in OnPayload /\ ~req'[h].lost
         /\ req'[h].kind = req[h].kind /\ req'[h].row = Found
<1>1. req[h].stage = "enter" /\ createLock = NoOne /\ UNCHANGED <<rows, indexed, chain, doubtful>>
  BY DEF Find, CreateLockFree
<1>2. Fits(req[h]) /\ req[h] \in Requests /\ ~req[h].lost
  BY <1>1 DEF TypeInv, Typed, Fits
<1>3. UNCHANGED left \/ Spend("rpc")
  BY DEF Find, Check
<1>4. /\ left' \in [Faults \cup {"request"} -> Nat]
      /\ left'["request"] = left["request"] /\ left'["rpc"] <= left["rpc"]
  BY <1>3, Spending DEF TypeInv, Typed, Faults
<1> DEFINE stage == IF Found # 0 /\ Seen(Found, ok) THEN "close" ELSE "insert"
<1>5. /\ createLock' = h /\ UNCHANGED rowLock
      /\ req' = [req EXCEPT ![h].row = Found, ![h].stage = stage]
  BY DEF Find, Found
<1>6. Found \in DOMAIN rows \cup {0} /\ Found \in Nat /\ stage \in OnPayload
  BY FoundIsListed, RowsAreIds DEF TypeInv, Listed, OnPayload
<1> HIDE DEF stage
<1>7. /\ Others(h) /\ req'[h].stage \in OnPayload /\ ~req'[h].lost /\ req'[h].row = Found
      /\ req'[h].kind = req[h].kind /\ req'[h].token = req[h].token
  BY <1>2, <1>5, <1>6 DEF TypeInv, Typed, Others, Requests, OnPayload
<1>8. Fits(req[h])'
  BY <1>1, <1>2, <1>6, <1>7 DEF Fits, chain, OnRow, OnPayload
<1>9. QED
  BY <1>1, <1>2, <1>4, <1>5, <1>7, <1>8

LEMMA FindKeepsTypeInv ==
  ASSUME TypeInv, NEW h \in Handlers, NEW ok \in BOOLEAN, Find(h, ok)
  PROVE  TypeInv'
<1>1. /\ req[h].stage = "enter" /\ createLock = NoOne
      /\ UNCHANGED <<rows, indexed, tokens, issues, doubtful>>
      /\ left' \in [Faults \cup {"request"} -> Nat]
      /\ left'["request"] = left["request"] /\ left["request"] \in Nat
      /\ createLock' = h /\ UNCHANGED rowLock /\ Others(h) /\ Fits(req[h])'
      /\ req'[h].stage \in OnPayload /\ ~req'[h].lost
  BY Finding DEF chain, TypeInv, Typed
<1>2. Typed'
  <2>1. rowLock' \in [Ids -> Handlers \cup {NoOne}]
    BY <1>1 DEF TypeInv, Typed
  <2>2. QED
    BY <1>1, <2>1, TypedOnLocks DEF TypeInv
<1>3. Locked'
  BY <1>1, ListingsAssumption DEF TypeInv, Locked, Others, OnRow, OnPayload
<1>4. Inserting' \subseteq Inserting
  BY <1>1 DEF Inserting, Others
<1>5. QED
  BY <1>1, <1>2, <1>3, <1>4, NoneInserts DEF TypeInv

(* The insert adds a row, or goes on with one that is there *)
NewRow(again) == [token |-> 0, state |-> "active", again |-> again]

LEMMA InsertedRows ==
  ASSUME TypeInv, NEW again \in BOOLEAN
  PROVE  /\ Append(rows, NewRow(again)) \in Seq(Row)
         /\ Len(Append(rows, NewRow(again))) = Len(rows) + 1
         /\ DOMAIN Append(rows, NewRow(again)) = DOMAIN rows \cup {Len(rows) + 1}
         /\ \A i \in DOMAIN rows : Append(rows, NewRow(again))[i] = rows[i]
         /\ Append(rows, NewRow(again))[Len(rows) + 1] = NewRow(again)
         /\ NewRow(again).token = 0 /\ NewRow(again).again = again
<1> DEFINE row == NewRow(again)
<1>1. row \in Row /\ row.token = 0 /\ row.again = again
  BY DEF NewRow, Row, Statuses
<1>2. rows \in Seq(Row)
  BY DEF TypeInv, Typed
<1> HIDE DEF row
<1>3. /\ Append(rows, row) \in Seq(Row) /\ Len(Append(rows, row)) = Len(rows) + 1
      /\ DOMAIN Append(rows, row) = DOMAIN rows \cup {Len(rows) + 1}
      /\ \A i \in DOMAIN rows : Append(rows, row)[i] = rows[i]
      /\ Append(rows, row)[Len(rows) + 1] = row
  BY <1>1, <1>2, AppendProperties, LenProperties
<1>4. QED
  BY <1>1, <1>3 DEF row

LEMMA Inserted ==
  ASSUME TypeInv, NEW h \in Handlers, Insert(h)
  PROVE  /\ req[h].stage = "insert" /\ ~req[h].lost
         /\ UNCHANGED <<indexed, chain, left, doubtful>> /\ Close(h) /\ Others(h)
         /\ \/ /\ rows' = Append(rows, NewRow(req[h].row # 0))
               /\ req'[h].row = Len(rows) + 1
            \/ /\ req[h].row \in DOMAIN rows /\ UNCHANGED rows
               /\ req'[h].row = req[h].row
         /\ req'[h].stage = "lock" /\ ~req'[h].lost /\ req'[h].phase = "deploy"
         /\ req'[h].token = req[h].token
<1> DEFINE new == Append(rows, NewRow(req[h].row # 0))
           row == IF Resumes(h) THEN req[h].row ELSE Len(new)
<1>1. /\ req[h].stage = "insert" /\ ~req[h].lost /\ Close(h)
      /\ UNCHANGED <<indexed, chain, left, doubtful>>
      /\ rows' = IF Resumes(h) THEN rows ELSE new
      /\ req' = [req EXCEPT ![h].phase = "deploy", ![h].stage = "lock", ![h].row = row]
  BY DEF Insert, NewRow, TypeInv, Typed, Requests
<1>2. req[h] \in Requests /\ req[h].row \in DOMAIN rows \cup {0}
  BY <1>1 DEF TypeInv, Typed, Fits
<1>3. Len(new) = Len(rows) + 1 /\ Len(rows) \in Nat
  BY InsertedRows, LenProperties DEF TypeInv, Typed
<1> HIDE DEF new
<1>4. /\ row \in Nat
      /\ IF Resumes(h) THEN row = req[h].row ELSE row = Len(rows) + 1
  BY <1>2, <1>3 DEF Requests
<1>5. Resumes(h) => req[h].row \in DOMAIN rows
  BY <1>2 DEF Resumes
<1> HIDE DEF row
<1>6. /\ Others(h) /\ req'[h].row = row /\ req'[h].stage = "lock" /\ ~req'[h].lost
      /\ req'[h].phase = "deploy" /\ req'[h].token = req[h].token
  BY <1>1, <1>2, <1>4 DEF TypeInv, Typed, Others, Requests, Phases, OnRow
<1>7. QED
  BY <1>1, <1>4, <1>5, <1>6 DEF new

LEMMA InsertKeepsTypeInv ==
  ASSUME TypeInv, NEW h \in Handlers, Insert(h)
  PROVE  TypeInv'
<1>1. /\ req[h].stage = "insert" /\ ~req[h].lost
      /\ UNCHANGED <<indexed, tokens, issues, left, doubtful>> /\ Close(h) /\ Others(h)
      /\ \/ /\ rows' = Append(rows, NewRow(req[h].row # 0))
            /\ req'[h].row = Len(rows) + 1
         \/ /\ req[h].row \in DOMAIN rows /\ UNCHANGED rows
            /\ req'[h].row = req[h].row
      /\ req'[h].stage = "lock" /\ ~req'[h].lost /\ req'[h].phase = "deploy"
      /\ req'[h].token = req[h].token
  BY Inserted DEF chain
<1>2. Len(tokens) \in Nat /\ Len(tokens') = Len(tokens)
  BY <1>1, LenProperties DEF TypeInv, Typed
<1>3. /\ rows' \in Seq(Row) /\ DOMAIN rows \subseteq DOMAIN rows'
      /\ \A i \in DOMAIN rows' : rows'[i].token <= Len(tokens')
      /\ req'[h].row \in DOMAIN rows'
      /\ Len(rows') <= Len(rows) + 1
  <2>1. CASE UNCHANGED rows /\ req[h].row \in DOMAIN rows /\ req'[h].row = req[h].row
    BY <1>2, <2>1, LenProperties DEF TypeInv, Typed
  <2>2. CASE rows' = Append(rows, NewRow(req[h].row # 0)) /\ req'[h].row = Len(rows) + 1
    <3>1. Len(rows) \in Nat
      BY LenProperties DEF TypeInv, Typed
    <3>2. /\ rows' \in Seq(Row) /\ Len(rows') = Len(rows) + 1
          /\ DOMAIN rows' = DOMAIN rows \cup {Len(rows) + 1}
          /\ \A i \in DOMAIN rows : rows'[i] = rows[i]
          /\ rows'[Len(rows) + 1].token = 0
      BY <2>2, InsertedRows
    <3>3. \A i \in DOMAIN rows' : rows'[i].token <= Len(tokens')
      BY <1>2, <3>2 DEF TypeInv, Typed
    <3>4. QED
      BY <2>2, <3>1, <3>2, <3>3
  <2>3. QED
    BY <1>1, <2>1, <2>2
<1>4. createLock' \in Handlers \cup {NoOne} /\ rowLock' \in [Ids -> Handlers \cup {NoOne}]
  BY <1>1, Closing DEF TypeInv
<1>5. Fits(req[h])'
  <2>1. req[h].token <= Len(tokens)
    BY DEF TypeInv, Typed, Fits
  <2>2. QED
    BY <1>1, <1>2, <1>3, <2>1 DEF Fits, OnRow, Phases
<1>6. Typed'
  <2>1. /\ tokens' \in Seq(Token) /\ issues' \in Seq(Nat) /\ Len(tokens) <= Len(tokens')
        /\ indexed' \subseteq DOMAIN issues' /\ doubtful' \subseteq DOMAIN tokens'
        /\ left' \in [Faults \cup {"request"} -> Nat]
    BY <1>1, <1>2 DEF TypeInv, Typed
  <2>2. QED
    BY <1>1, <1>3, <1>4, <1>5, <2>1, TypedAgain DEF TypeInv
<1>7. Locked'
  BY <1>1, ClosingKeepsLocked DEF OnPayload, TypeInv, OnRow
<1>8. Bounded'
  <2>1. Inserting' = Inserting \ {h} /\ h \in Inserting
    BY <1>1 DEF Inserting, Others
  <2>2. IsFiniteSet(Inserting)
    BY ListingsAssumption, FS_Subset DEF Inserting
  <2>3. Cardinality(Inserting \ {h}) = Cardinality(Inserting) - 1 /\ Cardinality(Inserting) \in Nat
    BY <2>1, <2>2, FS_RemoveElement, FS_CardinalityType
  <2>4. /\ left["request"] \in Nat /\ left' = left /\ MaxRequests \in Nat
        /\ Len(rows) \in Nat /\ Len(rows') \in Nat
    BY <1>1, <1>3, LenProperties, ListingsAssumption DEF TypeInv, Typed
  <2>5. QED
    BY <1>3, <2>1, <2>3, <2>4 DEF TypeInv, Bounded
<1>9. QED
  BY <1>6, <1>7, <1>8 DEF TypeInv
-------------------------------------------------------------------------------
(* A step gets its row, and goes to mint only for a token without          *)
(* inventory, to deploy only for a listing that is seen to have no token   *)
Seeable == {"deployTx", "mint", "write", "whitelist", "refuse"}

LEMMA FirstStages ==
  ASSUME NEW phase \in Phases \ {"none", "create"}, NEW i, NEW ok \in BOOLEAN
  PROVE  /\ FirstStage(phase, i, ok) \in Seeable
         /\ FirstStage(phase, i, ok) = "mint" => Seen(i, ok) /\ ~OnSale(rows[i].token)
         /\ FirstStage(phase, i, ok) = "deployTx" => ~Seen(i, ok) /\ phase = "deploy"
  BY DEF FirstStage, NeedsToken, Phases, Seeable

LEMMA Locking ==
  ASSUME TypeInv, NEW h \in Handlers, NEW ok \in BOOLEAN, LockRow(h, ok)
  PROVE  LET i == req[h].row
         IN  /\ req[h].stage = "lock" /\ ~req[h].lost /\ i \in DOMAIN rows
             /\ rowLock[i] = NoOne /\ UNCHANGED <<rows, indexed, chain, doubtful>>
             /\ left' \in [Faults \cup {"request"} -> Nat]
             /\ left'["request"] = left["request"] /\ left'["rpc"] <= left["rpc"]
             /\ \/ End(h)
                \/ /\ rowLock' = [rowLock EXCEPT ![i] = h] /\ UNCHANGED createLock
                   /\ Others(h) /\ req'[h].stage \in {"deployTx", "mint", "write", "whitelist"}
                   /\ ~req'[h].lost /\ req'[h].row = i /\ req'[h].kind = req[h].kind
                   /\ req'[h].token = rows[i].token
                   /\ req'[h].stage = "mint" => Investable(i) /\ ~OnSale(rows[i].token)
                   /\ req'[h].stage = "deployTx" /\ Investable(i) =>
                        left'["rpc"] < left["rpc"]
<1> DEFINE i == req[h].row
           next == FirstStage(req[h].phase, i, ok)
           r == [req[h] EXCEPT !.stage = next, !.token = rows[i].token]
<1>1. /\ req[h].stage = "lock" /\ rowLock[i] = NoOne
      /\ UNCHANGED <<rows, indexed, chain, doubtful>>
  BY DEF LockRow, RowFree
<1>2. /\ Fits(req[h]) /\ req[h] \in Requests /\ ~req[h].lost /\ i \in DOMAIN rows
      /\ req[h].phase \in Phases \ {"none", "create"}
  BY <1>1 DEF TypeInv, Typed, Fits
<1>3. IF req[h].phase = "delete" THEN ok /\ UNCHANGED left ELSE Check(i, ok)
  BY DEF LockRow
<1>4. /\ left' \in [Faults \cup {"request"} -> Nat]
      /\ left'["request"] = left["request"] /\ left'["rpc"] <= left["rpc"]
      /\ ok \/ left'["rpc"] < left["rpc"]
  <2>1. (ok /\ UNCHANGED left) \/ Spend("rpc")
    BY <1>3 DEF Check
  <2>2. "rpc" \in Faults /\ left \in [Faults \cup {"request"} -> Nat]
    BY DEF Faults, TypeInv, Typed
  <2>3. CASE ok /\ UNCHANGED left
    BY <2>2, <2>3
  <2>4. CASE Spend("rpc")
    BY <2>2, <2>4, Spending DEF TypeInv, Faults
  <2>5. QED
    BY <2>1, <2>3, <2>4
<1>5. CASE End(h)
  BY <1>1, <1>2, <1>4, <1>5
<1>6. CASE ~End(h)
  <2>1. /\ next # "refuse" /\ UNCHANGED createLock
        /\ rowLock' = [rowLock EXCEPT ![i] = h] /\ req' = [req EXCEPT ![h] = r]
    BY <1>6 DEF LockRow, TypeInv, Typed
  <2>2. /\ next \in Seeable \ {"refuse"}
        /\ next = "mint" => Seen(i, ok) /\ ~OnSale(rows[i].token)
        /\ next = "deployTx" => ~Seen(i, ok)
    BY <1>2, <2>1, FirstStages
  <2>3. rows[i].token \in Nat
    BY <1>2, RowTyped DEF TypeInv
  <2> HIDE DEF next
  <2>4. /\ r \in Requests /\ r.stage = next /\ r.token = rows[i].token /\ r.row = i
        /\ r.kind = req[h].kind /\ ~r.lost
    BY <1>2, <2>2, <2>3 DEF Requests, Seeable, OnRow
  <2> HIDE DEF r
  <2>5. Others(h) /\ req'[h] = r
    BY <2>1, <2>4 DEF TypeInv, Typed, Others
  <2>6. next = "mint" => Investable(i)
    BY <2>2 DEF Seen
  <2>7. next = "deployTx" /\ Investable(i) => left'["rpc"] < left["rpc"]
    BY <1>4, <2>2 DEF Seen
  <2>8. QED
    BY <1>1, <1>2, <1>4, <2>1, <2>2, <2>4, <2>5, <2>6, <2>7 DEF Seeable
<1>7. QED
  BY <1>5, <1>6

LEMMA LockRowKeepsTypeInv ==
  ASSUME TypeInv, NEW h \in Handlers, NEW ok \in BOOLEAN, LockRow(h, ok)
  PROVE  TypeInv'
<1> DEFINE i == req[h].row
<1>1. /\ req[h].stage = "lock" /\ ~req[h].lost /\ i \in DOMAIN rows
      /\ rowLock[i] = NoOne /\ UNCHANGED <<rows, indexed, tokens, issues, doubtful>>
      /\ left' \in [Faults \cup {"request"} -> Nat]
      /\ left'["request"] = left["request"] /\ left["request"] \in Nat
  BY Locking DEF chain, TypeInv, Typed
<1>2. CASE End(h)
  <2>1. indexed' \subseteq DOMAIN issues
    BY <1>1 DEF TypeInv, Typed
  <2>2. QED
    BY <1>1, <1>2, <2>1, EndingAlone
<1>3. CASE ~End(h)
  <2>1. /\ rowLock' = [rowLock EXCEPT ![i] = h] /\ UNCHANGED createLock
        /\ Others(h) /\ req'[h].stage \in {"deployTx", "mint", "write", "whitelist"}
        /\ ~req'[h].lost /\ req'[h].row = i /\ req'[h].token = rows[i].token
        /\ req'[h].stage = "mint" => Investable(i)
    BY <1>3, Locking
  <2>2. i \in Ids
    BY <1>1, RowsAreIds DEF TypeInv
  <2>3. Fits(req[h])'
    <3>1. rows[i].token <= Len(tokens')
      BY <1>1 DEF TypeInv, Typed
    <3>2. req'[h].stage = "mint" => rows[i].token # 0
      BY <2>1 DEF Investable
    <3>3. QED
      BY <1>1, <2>1, <3>1, <3>2 DEF Fits, OnRow
  <2>4. Typed'
    <3>1. /\ createLock' \in Handlers \cup {NoOne}
          /\ rowLock' \in [Ids -> Handlers \cup {NoOne}]
      BY <2>1 DEF TypeInv, Typed
    <3>2. QED
      BY <1>1, <2>1, <2>3, <3>1, TypedOnLocks DEF TypeInv
  <2>5. Locked'
    <3>1. rowLock \in [Ids -> Handlers \cup {NoOne}] /\ NoOne \notin Handlers
      BY ListingsAssumption DEF TypeInv, Typed
    <3>2. ASSUME NEW g \in Handlers
          PROVE  createLock' = g <=> req'[g].stage \in OnPayload /\ ~req'[g].lost
      BY <1>1, <2>1 DEF OnPayload, TypeInv, Locked, Others
    <3>3. ASSUME NEW g \in Handlers, NEW j \in Ids
          PROVE  rowLock'[j] = g <=> req'[g].stage \in OnRow /\ ~req'[g].lost /\ req'[g].row = j
      BY <1>1, <2>1, <2>2, <3>1 DEF TypeInv, Locked, Others, OnRow
    <3>4. QED
      BY <3>2, <3>3 DEF Locked
  <2>6. Inserting' \subseteq Inserting
    BY <1>1, <2>1 DEF Inserting, Others
  <2>7. QED
    BY <1>1, <2>4, <2>5, <2>6, NoneInserts DEF TypeInv
<1>4. QED
  BY <1>2, <1>3
-------------------------------------------------------------------------------
(* What a transaction does: a deployment adds a token without inventory,   *)
(* a mint adds the supply to one token, and nothing else has an effect     *)
Grows(h) ==
  /\ tokens' \in Seq(Token) /\ issues' \in Seq(Nat)
  /\ Len(tokens) <= Len(tokens') /\ DOMAIN issues \subseteq DOMAIN issues'
  /\ DOMAIN tokens \subseteq DOMAIN tokens'
  /\ \A k \in DOMAIN tokens :
       /\ tokens'[k].code = tokens[k].code
       /\ \/ tokens'[k].minted = tokens[k].minted
          \/ /\ req[h].stage = "mint" /\ req[h].token = k
             /\ tokens'[k].minted = tokens[k].minted + Supply
  /\ \A k \in DOMAIN tokens' \ DOMAIN tokens : tokens'[k].minted = 0

LEMMA StandingStill ==
  ASSUME Typed, NEW h \in Handlers, UNCHANGED <<tokens, issues>>
  PROVE  Grows(h)
<1>1. Len(tokens) \in Nat
  BY LenProperties DEF Typed
<1>2. QED
  BY <1>1 DEF Typed, Grows

LEMMA Deploying ==
  ASSUME Typed, NEW h \in Handlers, NEW ok \in BOOLEAN, UNCHANGED issues,
         tokens' = Append(tokens, [code |-> ok, minted |-> 0, issued |-> 0])
  PROVE  Grows(h) /\ Len(tokens') = Len(tokens) + 1
<1> DEFINE new == [code |-> ok, minted |-> 0, issued |-> 0]
<1>1. new \in Token /\ new.minted = 0
  BY DEF Token
<1> HIDE DEF new
<1>2. tokens' = Append(tokens, new) /\ tokens \in Seq(Token)
  BY DEF new, Typed
<1>3. Len(tokens) \in Nat /\ DOMAIN tokens = 1 .. Len(tokens)
  BY <1>2, LenProperties
<1>4. /\ tokens' \in Seq(Token) /\ Len(tokens') = Len(tokens) + 1
      /\ \A k \in 1 .. Len(tokens) : tokens'[k] = tokens[k]
      /\ tokens'[Len(tokens) + 1] = new
  BY <1>1, <1>2, AppendProperties
<1>5. DOMAIN tokens' = 1 .. Len(tokens) + 1
  BY <1>4, LenProperties
<1>6. \A k \in DOMAIN tokens' \ DOMAIN tokens : k = Len(tokens) + 1
  BY <1>3, <1>5
<1>7. QED
  BY <1>1, <1>3, <1>4, <1>5, <1>6 DEF Grows, Typed

LEMMA TokenChanged ==
  ASSUME Typed, NEW k \in DOMAIN tokens, NEW token \in Token,
         tokens' = [tokens EXCEPT ![k] = token]
  PROVE  /\ tokens' \in Seq(Token) /\ DOMAIN tokens' = DOMAIN tokens
         /\ Len(tokens') = Len(tokens) /\ Len(tokens) \in Nat
         /\ tokens'[k] = token /\ \A j \in DOMAIN tokens : j # k => tokens'[j] = tokens[j]
<1>1. tokens \in Seq(Token) /\ DOMAIN tokens = 1 .. Len(tokens) /\ Len(tokens) \in Nat
  BY LenProperties DEF Typed
<1>2. QED
  BY <1>1, ExceptSeq, LenProperties

LEMMA Minting ==
  ASSUME Typed, NEW h \in Handlers, req[h].stage = "mint", UNCHANGED issues,
         req[h].token \in DOMAIN tokens,
         tokens' = [tokens EXCEPT ![req[h].token].minted = @ + Supply]
  PROVE  Grows(h) /\ DOMAIN tokens' = DOMAIN tokens
<1> DEFINE k == req[h].token
           token == [tokens[k] EXCEPT !.minted = @ + Supply]
<1>1. tokens[k] \in Token /\ Supply \in Nat
  BY LenProperties, ListingsAssumption DEF Typed
<1>2. /\ token \in Token /\ token.minted = tokens[k].minted + Supply
      /\ token.code = tokens[k].code
  BY <1>1 DEF Token
<1>3. tokens' = [tokens EXCEPT ![k] = token]
  BY DEF Typed
<1> HIDE DEF token
<1>4. QED
  BY <1>2, <1>3, TokenChanged DEF Grows, Typed

LEMMA Issuing ==
  ASSUME Typed, NEW h \in Handlers, req[h].token \in DOMAIN tokens,
         issues' = Append(issues, req[h].token),
         tokens' = [tokens EXCEPT ![req[h].token].issued = @ + 1]
  PROVE  Grows(h) /\ DOMAIN tokens' = DOMAIN tokens
<1> DEFINE k == req[h].token
           token == [tokens[k] EXCEPT !.issued = @ + 1]
<1>1. tokens[k] \in Token
  BY LenProperties DEF Typed
<1>2. token \in Token /\ token.minted = tokens[k].minted /\ token.code = tokens[k].code
  BY <1>1 DEF Token
<1>3. tokens' = [tokens EXCEPT ![k] = token]
  BY DEF Typed
<1> HIDE DEF token
<1>4. req[h].token \in Nat /\ issues \in Seq(Nat)
  BY DEF Typed, Requests
<1>5. issues' \in Seq(Nat) /\ DOMAIN issues \subseteq DOMAIN issues'
  BY <1>4, AppendProperties, LenProperties
<1>6. QED
  BY <1>2, <1>3, <1>5, TokenChanged DEF Grows, Typed

LEMMA Effecting ==
  ASSUME Typed, NEW h \in Handlers, NEW ok \in BOOLEAN, Effect(h, ok)
  PROVE  /\ Grows(h)
         /\ req[h].stage = "deployTx" => Len(tokens') = Len(tokens) + 1
         /\ req[h].stage # "deployTx" => DOMAIN tokens' = DOMAIN tokens
<1>1. CASE req[h].stage = "deployTx"
  BY <1>1, Deploying DEF Effect
<1>2. CASE /\ req[h].stage = "mint" /\ ok /\ req[h].token \in DOMAIN tokens
           /\ tokens[req[h].token].code
  BY <1>2, Minting DEF Effect
<1>3. CASE /\ req[h].stage = "issueTx" /\ ok /\ req[h].token \in DOMAIN tokens
           /\ tokens[req[h].token].code
  BY <1>3, Issuing DEF Effect
<1>4. CASE /\ req[h].stage # "deployTx"
           /\ ~ /\ req[h].stage \in {"mint", "issueTx"} /\ ok
                /\ req[h].token \in DOMAIN tokens /\ tokens[req[h].token].code
  BY <1>4, StandingStill DEF Effect
<1>5. QED
  BY <1>1, <1>2, <1>3, <1>4

(* A send that is answered takes the request to its next stage, and a      *)
(* deployment gives it the new token                                       *)
Sends == {"deployTx", "mint", "whitelist", "issueTx"}

LEMMA Answered ==
  ASSUME TypeInv, NEW h \in Handlers, NEW ok \in BOOLEAN, Sent(h, ok)
  PROVE  /\ req[h].stage \in Sends /\ Grows(h) /\ UNCHANGED <<db, doubtful>>
         /\ req[h].stage = "deployTx" => Len(tokens') = Len(tokens) + 1
         /\ req[h].stage # "deployTx" => DOMAIN tokens' = DOMAIN tokens
         /\ Others(h) /\ req'[h].stage = After(req[h].stage)
         /\ req'[h].row = req[h].row /\ req'[h].lost = req[h].lost
         /\ req'[h].kind = req[h].kind
         /\ req'[h].token = IF req[h].stage = "deployTx" THEN Len(tokens') ELSE req[h].token
         /\ left' \in [Faults \cup {"request"} -> Nat]
         /\ left'["request"] = left["request"] /\ left'["rpc"] = left["rpc"]
<1> DEFINE next == After(req[h].stage)
           token == IF req[h].stage = "deployTx" THEN Address(tokens') ELSE req[h].token
           issue == IF issues' # issues THEN Len(issues') ELSE req[h].issue
           r == [req[h] EXCEPT !.stage = next, !.tries = 0, !.token = token, !.issue = issue]
<1>1. /\ req[h].stage \in Sends /\ Effect(h, ok) /\ UNCHANGED <<db, doubtful>>
      /\ UNCHANGED left \/ Spend("revert")
  BY DEF Sent, Sending, Sends
<1>2. /\ Grows(h)
      /\ req[h].stage = "deployTx" => Len(tokens') = Len(tokens) + 1
      /\ req[h].stage # "deployTx" => DOMAIN tokens' = DOMAIN tokens
  BY <1>1, Effecting DEF TypeInv
<1>3. /\ left' \in [Faults \cup {"request"} -> Nat]
      /\ left'["request"] = left["request"] /\ left'["rpc"] = left["rpc"]
  BY <1>1, Spending DEF TypeInv, Typed, Faults
<1>4. req' = [req EXCEPT ![h] = r]
  BY DEF Sent, TypeInv, Typed
<1>5. req[h] \in Requests /\ next \in OnRow
  BY <1>1 DEF TypeInv, Typed, After, Sends, OnRow
<1>6. token \in Nat /\ issue \in Nat
  <2>1. req[h].token \in Nat /\ req[h].issue \in Nat
    BY <1>5 DEF Requests
  <2>2. Len(tokens') \in Nat /\ Len(issues') \in Nat
    BY <1>2, LenProperties DEF Grows
  <2>3. QED
    BY <2>1, <2>2 DEF Address
<1> HIDE DEF next, token, issue
<1>7. /\ r \in Requests /\ r.stage = next /\ r.token = token /\ r.row = req[h].row
      /\ r.kind = req[h].kind /\ r.lost = req[h].lost
  BY <1>5, <1>6 DEF Requests
<1> HIDE DEF r
<1>8. Others(h) /\ req'[h] = r
  BY <1>4, <1>7 DEF TypeInv, Typed, Others
<1>9. QED
  BY <1>1, <1>2, <1>3, <1>7, <1>8 DEF next, token, Address

LEMMA SentKeepsTypeInv ==
  ASSUME TypeInv, NEW h \in Handlers, NEW ok \in BOOLEAN, Sent(h, ok)
  PROVE  TypeInv'
<1>1. /\ req[h].stage \in Sends /\ Grows(h)
      /\ UNCHANGED <<rows, indexed, createLock, rowLock, doubtful>>
      /\ req[h].stage = "deployTx" => Len(tokens') = Len(tokens) + 1
      /\ Others(h) /\ req'[h].stage = After(req[h].stage)
      /\ req'[h].row = req[h].row /\ req'[h].lost = req[h].lost
      /\ req'[h].token = IF req[h].stage = "deployTx" THEN Len(tokens') ELSE req[h].token
      /\ left' \in [Faults \cup {"request"} -> Nat]
      /\ left'["request"] = left["request"] /\ left["request"] \in Nat
  BY Answered DEF db, TypeInv, Typed
<1>2. req'[h].stage \in OnRow \ {"deployTx"} /\ (req'[h].stage = "mint" => req[h].stage = "deployTx")
  BY <1>1 DEF After, Sends, OnRow
<1>3. Len(tokens) \in Nat /\ Len(tokens') \in Nat
  BY <1>1, LenProperties DEF Grows, TypeInv, Typed
<1>4. Fits(req[h])'
  <2>1. Fits(req[h]) /\ req[h].row \in DOMAIN rows /\ req[h].token \in Nat
    BY <1>1 DEF TypeInv, Typed, Fits, Requests, Sends, OnRow
  <2>2. req'[h].token <= Len(tokens') /\ (req'[h].stage = "mint" => req'[h].token # 0)
    BY <1>1, <1>2, <1>3, <2>1 DEF Fits, Grows
  <2>3. QED
    BY <1>1, <1>2, <2>1, <2>2 DEF Fits, OnRow
<1>5. Typed'
  <2>1. /\ tokens' \in Seq(Token) /\ issues' \in Seq(Nat) /\ Len(tokens) <= Len(tokens')
        /\ indexed' \subseteq DOMAIN issues' /\ doubtful' \subseteq DOMAIN tokens'
        /\ createLock' \in Handlers \cup {NoOne}
        /\ rowLock' \in [Ids -> Handlers \cup {NoOne}]
    BY <1>1 DEF Grows, TypeInv, Typed
  <2>2. /\ rows' \in Seq(Row) /\ DOMAIN rows' = DOMAIN rows
        /\ \A i \in DOMAIN rows' : rows'[i].token <= Len(tokens')
    BY <1>1, <2>1, RowsTyped DEF TypeInv
  <2>3. QED
    BY <1>1, <1>4, <2>1, <2>2, TypedAgain DEF TypeInv
<1>6. Locked'
  BY <1>1, <1>2, StayingKeepsLocked DEF OnPayload, TypeInv, OnRow, Sends
<1>7. Inserting' \subseteq Inserting
  BY <1>1, <1>2 DEF Inserting, Others, OnRow
<1>8. QED
  BY <1>1, <1>5, <1>6, <1>7, NoneInserts DEF TypeInv

(* A send without an answer is made again, or ends the request *)
LEMMA Unanswered ==
  ASSUME TypeInv, NEW h \in Handlers, TimedOut(h)
  PROVE  /\ req[h].stage \in Sends /\ Grows(h) /\ UNCHANGED <<rows, indexed>> /\ Doubt(h)
         /\ req[h].stage # "deployTx" => DOMAIN tokens' = DOMAIN tokens
         /\ left' \in [Faults \cup {"request"} -> Nat]
         /\ left'["request"] = left["request"] /\ left'["rpc"] = left["rpc"]
         /\ \/ End(h)
            \/ /\ UNCHANGED <<createLock, rowLock>> /\ Others(h)
               /\ req'[h].stage = req[h].stage /\ req'[h].token = req[h].token
               /\ req'[h].row = req[h].row /\ req'[h].lost = req[h].lost
               /\ req'[h].kind = req[h].kind
<1>1. /\ req[h].stage \in Sends /\ UNCHANGED <<rows, indexed>> /\ Doubt(h)
      /\ Effect(h, TRUE) \/ UNCHANGED <<tokens, issues>>
  BY DEF TimedOut, Sending, Sends, chain
<1>2. Grows(h) /\ (req[h].stage # "deployTx" => DOMAIN tokens' = DOMAIN tokens)
  BY <1>1, Effecting, StandingStill DEF TypeInv
<1>3. /\ left' \in [Faults \cup {"request"} -> Nat]
      /\ left'["request"] = left["request"] /\ left'["rpc"] = left["rpc"]
  BY Spending DEF TimedOut, TypeInv, Faults
<1>4. CASE End(h)
  BY <1>1, <1>2, <1>3, <1>4
<1>5. CASE ~End(h)
  <2>1. req' = [req EXCEPT ![h].tries = @ + 1] /\ UNCHANGED <<rowLock, createLock>>
    BY <1>5 DEF TimedOut
  <2>2. req[h] \in Requests /\ req[h].tries \in Nat /\ req[h].tries + 1 \in Nat
    BY DEF TypeInv, Typed, Requests
  <2>3. /\ Others(h)
        /\ req'[h].stage = req[h].stage /\ req'[h].token = req[h].token
        /\ req'[h].row = req[h].row /\ req'[h].lost = req[h].lost
        /\ req'[h].kind = req[h].kind
    BY <2>1, <2>2 DEF TypeInv, Typed, Others, Requests
  <2>4. QED
    BY <1>1, <1>2, <1>3, <2>1, <2>3
<1>6. QED
  BY <1>4, <1>5

LEMMA TimedOutKeepsTypeInv ==
  ASSUME TypeInv, NEW h \in Handlers, TimedOut(h)
  PROVE  TypeInv'
<1>1. /\ req[h].stage \in Sends /\ Grows(h) /\ UNCHANGED <<rows, indexed>> /\ Doubt(h)
      /\ left' \in [Faults \cup {"request"} -> Nat]
      /\ left'["request"] = left["request"] /\ left["request"] \in Nat
  BY Unanswered DEF TypeInv, Typed
<1>2. /\ tokens' \in Seq(Token) /\ issues' \in Seq(Nat) /\ Len(tokens) <= Len(tokens')
      /\ indexed' \subseteq DOMAIN issues' /\ doubtful' \subseteq DOMAIN tokens'
  BY <1>1, DoubtTyped DEF Grows, TypeInv, Typed
<1>3. CASE End(h)
  BY <1>1, <1>2, <1>3, EndingKeepsTypeInv, SMTT(60)
<1>4. CASE ~End(h)
  <2>1. /\ UNCHANGED <<createLock, rowLock>> /\ Others(h)
        /\ req'[h].stage = req[h].stage /\ req'[h].token = req[h].token
        /\ req'[h].row = req[h].row /\ req'[h].lost = req[h].lost
    BY <1>4, Unanswered
  <2>2. Fits(req[h])'
    <3>1. Fits(req[h]) /\ req[h].token \in Nat /\ req[h].stage \notin {"lock"} \cup OnPayload
      BY <1>1 DEF OnPayload, TypeInv, Typed, Requests, Sends
    <3>2. Len(tokens) \in Nat /\ Len(tokens') \in Nat
      BY <1>2, LenProperties DEF TypeInv, Typed
    <3>3. QED
      BY <1>1, <1>2, <2>1, <3>1, <3>2 DEF Fits
  <2>3. /\ rows' \in Seq(Row) /\ DOMAIN rows' = DOMAIN rows
        /\ \A i \in DOMAIN rows' : rows'[i].token <= Len(tokens')
        /\ createLock' \in Handlers \cup {NoOne} /\ rowLock' \in [Ids -> Handlers \cup {NoOne}]
    BY <1>1, <1>2, <2>1, RowsTyped DEF TypeInv, Typed
  <2>4. Typed'
    BY <1>1, <1>2, <2>1, <2>2, <2>3, TypedAgain DEF TypeInv
  <2>5. Locked'
    BY <2>1, StayingKeepsLocked DEF TypeInv
  <2>6. Inserting' \subseteq Inserting
    BY <2>1 DEF Inserting, Others
  <2>7. QED
    BY <1>1, <2>4, <2>5, <2>6, NoneInserts DEF TypeInv
<1>5. QED
  BY <1>3, <1>4
-------------------------------------------------------------------------------
(* A row that is written keeps its place, and no row becomes active again *)
LEMMA RowChanged ==
  ASSUME Typed, NEW i \in DOMAIN rows, NEW row \in Row, rows' = [rows EXCEPT ![i] = row]
  PROVE  /\ rows' \in Seq(Row) /\ DOMAIN rows' = DOMAIN rows /\ Len(rows') = Len(rows)
         /\ rows'[i] = row /\ \A j \in DOMAIN rows : j # i => rows'[j] = rows[j]
<1>1. rows \in Seq(Row) /\ DOMAIN rows = 1 .. Len(rows)
  BY LenProperties DEF Typed
<1>2. QED
  BY <1>1, ExceptSeq, LenProperties

LEMMA WrittenRow ==
  ASSUME TypeInv, NEW h \in Handlers, Write(h)
  PROVE  LET i == req[h].row
         IN  /\ req[h].stage = "write" /\ ~req[h].lost /\ i \in DOMAIN rows
             /\ rows' \in Seq(Row) /\ DOMAIN rows' = DOMAIN rows /\ Len(rows') = Len(rows)
             /\ \A j \in DOMAIN rows : j # i => rows'[j] = rows[j]
             /\ rows'[i].token \in {rows[i].token, req[h].token}
             /\ rows'[i].state = "active" => rows[i].state = "active"
             /\ rows'[i].again = rows[i].again
<1> DEFINE i == req[h].row
<1>1. req[h].stage = "write" /\ ~req[h].lost
  BY DEF Write
<1>2. i \in DOMAIN rows /\ req[h] \in Requests
  BY <1>1 DEF TypeInv, Typed, Fits, OnRow
<1>3. rows[i] \in Row
  BY <1>2, RowTyped DEF TypeInv
<1>4. CASE req[h].phase = "deploy"
  <2> DEFINE row == [rows[i] EXCEPT !.token = req[h].token]
  <2>1. /\ row \in Row /\ row.token = req[h].token /\ row.state = rows[i].state
        /\ row.again = rows[i].again
    BY <1>2, <1>3 DEF Row, Requests
  <2>2. rows' = [rows EXCEPT ![i] = row]
    BY <1>4 DEF Write, TypeInv, Typed
  <2> HIDE DEF row
  <2>3. QED
    BY <1>1, <1>2, <2>1, <2>2, RowChanged DEF TypeInv
<1>5. CASE req[h].phase = "delete"
  <2> DEFINE row == [rows[i] EXCEPT !.state =
                       IF rows[i].token # 0 THEN "archived" ELSE "deleted"]
  <2>1. /\ row \in Row /\ row.token = rows[i].token /\ row.state # "active"
        /\ row.again = rows[i].again
    BY <1>3 DEF Row, Statuses
  <2>2. rows' = [rows EXCEPT ![i] = row]
    BY <1>5 DEF Write, TypeInv, Typed
  <2> HIDE DEF row
  <2>3. QED
    BY <1>1, <1>2, <2>1, <2>2, RowChanged DEF TypeInv
<1>6. CASE req[h].phase \notin {"deploy", "delete"}
  <2>1. rows' = rows
    BY <1>6 DEF Write
  <2>2. QED
    BY <1>1, <1>2, <2>1 DEF TypeInv, Typed
<1>7. QED
  BY <1>4, <1>5, <1>6

(* After its write a request ends, or goes on to the inventory *)
LEMMA Written ==
  ASSUME TypeInv, NEW h \in Handlers, Write(h)
  PROVE  /\ UNCHANGED <<indexed, chain, left, doubtful>> /\ Close(h) /\ Others(h)
         /\ Fits(req[h])' /\ req'[h].stage \in {"off", "lock"} /\ ~req'[h].lost
         /\ req'[h].kind \in {req[h].kind, "none"}
<1> DEFINE r == [Idle EXCEPT !.kind = req[h].kind, !.row = req[h].row,
                   !.phase = "inventory", !.stage = "lock"]
<1>1. /\ UNCHANGED <<indexed, chain, left, doubtful>> /\ Close(h)
      /\ \/ req' = [req EXCEPT ![h] = r]
         \/ req' = [req EXCEPT ![h] = Idle]
  BY DEF Write, Release
<1>2. req[h] \in Requests /\ req[h].row \in DOMAIN rows /\ DOMAIN rows' = DOMAIN rows
  BY WrittenRow DEF TypeInv, Typed
<1>3. /\ r \in Requests /\ r.stage = "lock" /\ r.row = req[h].row /\ r.kind = req[h].kind
      /\ r.phase = "inventory" /\ r.token = 0 /\ ~r.lost
  BY <1>2 DEF Idle, Requests, Phases, OnRow
<1> HIDE DEF r
<1>4. 0 <= Len(tokens) /\ Len(tokens') = Len(tokens)
  BY <1>1, LenProperties DEF chain, TypeInv, Typed
<1>5. CASE req' = [req EXCEPT ![h] = r]
  <2>1. Others(h) /\ req'[h] = r
    BY <1>3, <1>5 DEF TypeInv, Typed, Others
  <2>2. Fits(req[h])'
    BY <1>2, <1>3, <1>4, <2>1 DEF Fits, OnRow, Phases
  <2>3. QED
    BY <1>1, <1>3, <2>1, <2>2
<1>6. CASE req' = [req EXCEPT ![h] = Idle]
  <2>1. Others(h) /\ req'[h] = Idle
    BY <1>6, IdleFields DEF TypeInv, Typed, Others
  <2>2. Fits(req[h])'
    BY <1>4, <2>1, IdleFields DEF Fits, OnRow
  <2>3. QED
    BY <1>1, <2>1, <2>2, IdleFields
<1>7. QED
  BY <1>1, <1>5, <1>6

LEMMA WriteKeepsTypeInv ==
  ASSUME TypeInv, NEW h \in Handlers, Write(h)
  PROVE  TypeInv'
<1>1. /\ UNCHANGED <<indexed, tokens, issues, left, doubtful>> /\ Close(h) /\ Others(h)
      /\ Fits(req[h])' /\ req'[h].stage \in {"off", "lock"}
  BY Written DEF chain
<1>2. /\ rows' \in Seq(Row) /\ DOMAIN rows' = DOMAIN rows /\ Len(rows') = Len(rows)
      /\ req[h].row \in DOMAIN rows
      /\ \A j \in DOMAIN rows : j # req[h].row => rows'[j] = rows[j]
      /\ rows'[req[h].row].token \in {rows[req[h].row].token, req[h].token}
  BY WrittenRow
<1>3. \A i \in DOMAIN rows' : rows'[i].token <= Len(tokens')
  BY <1>1, <1>2 DEF TypeInv, Typed, Fits
<1>4. /\ createLock' \in Handlers \cup {NoOne} /\ rowLock' \in [Ids -> Handlers \cup {NoOne}]
  BY <1>1, Closing DEF TypeInv
<1>5. /\ tokens' \in Seq(Token) /\ issues' \in Seq(Nat) /\ Len(tokens) <= Len(tokens')
      /\ indexed' \subseteq DOMAIN issues' /\ doubtful' \subseteq DOMAIN tokens'
      /\ left' \in [Faults \cup {"request"} -> Nat] /\ left'["request"] <= left["request"]
  BY <1>1, LenProperties DEF TypeInv, Typed
<1>6. Typed'
  BY <1>1, <1>2, <1>3, <1>4, <1>5, TypedAgain DEF TypeInv
<1>7. Locked'
  BY <1>1, ClosingKeepsLocked DEF OnPayload, TypeInv, OnRow
<1>8. Inserting' \subseteq Inserting
  BY <1>1 DEF Inserting, Others
<1>9. QED
  BY <1>2, <1>5, <1>6, <1>7, <1>8, NoneInserts DEF TypeInv
-------------------------------------------------------------------------------
(* The reconciliation only adds to what is indexed *)
LEMMA IndexKeepsTypeInv ==
  ASSUME TypeInv, NEW t \in Ids, Index(t)
  PROVE  TypeInv'
<1>1. UNCHANGED <<rows, createLock, rowLock, tokens, issues, req, left, doubtful>>
  BY DEF Index, chain
<1>2. indexed' \subseteq DOMAIN issues'
  BY <1>1 DEF Index, Reconcile, TypeInv, Typed
<1>3. QED
  BY <1>1, <1>2 DEF TypeInv, Typed, Fits, Bounded, Inserting, Locked

LEMMA IssueReconcilesKeepsTypeInv ==
  ASSUME TypeInv, NEW h \in Handlers, IssueReconciles(h)
  PROVE  TypeInv'
<1>1. End(h) /\ UNCHANGED <<rows, tokens, issues, left, doubtful>>
  BY DEF IssueReconciles, chain
<1>2. indexed' \subseteq DOMAIN issues
  BY DEF IssueReconciles, Reconcile, TypeInv, Typed
<1>3. left' \in [Faults \cup {"request"} -> Nat] /\ left'["request"] = left["request"]
  BY <1>1 DEF TypeInv, Typed
<1>4. QED
  BY <1>1, <1>2, <1>3, EndingAlone

LEMMA FailKeepsTypeInv ==
  ASSUME TypeInv, NEW h \in Handlers, Fail(h)
  PROVE  TypeInv'
<1>1. End(h) /\ UNCHANGED <<rows, indexed, tokens, issues, left, doubtful>>
  BY DEF Fail, chain
<1>2. indexed' \subseteq DOMAIN issues
  BY <1>1 DEF TypeInv, Typed
<1>3. left' \in [Faults \cup {"request"} -> Nat] /\ left'["request"] = left["request"]
  BY <1>1 DEF TypeInv, Typed
<1>4. QED
  BY <1>1, <1>2, <1>3, EndingAlone

LEMMA FinishKeepsTypeInv ==
  ASSUME TypeInv, NEW h \in Handlers, Finish(h)
  PROVE  TypeInv'
<1>1. End(h) /\ UNCHANGED <<rows, indexed, tokens, issues, left, doubtful>>
  BY DEF Finish, chain
<1>2. indexed' \subseteq DOMAIN issues
  BY <1>1 DEF TypeInv, Typed
<1>3. left' \in [Faults \cup {"request"} -> Nat] /\ left'["request"] = left["request"]
  BY <1>1 DEF TypeInv, Typed
<1>4. QED
  BY <1>1, <1>2, <1>3, EndingAlone

LEMMA CrashKeepsTypeInv ==
  ASSUME TypeInv, NEW h \in Handlers, Crash(h)
  PROVE  TypeInv'
<1>1. End(h) /\ UNCHANGED <<rows, indexed, tokens, issues>> /\ Spend("crash") /\ Doubt(h)
  BY DEF Crash, chain
<1>2. indexed' \subseteq DOMAIN issues
  BY <1>1 DEF TypeInv, Typed
<1>3. left' \in [Faults \cup {"request"} -> Nat] /\ left'["request"] = left["request"]
  BY <1>1, Spending DEF TypeInv, Faults
<1>4. QED
  BY <1>1, <1>2, <1>3, EndingAlone

(* A lost session takes the locks, and the request goes on without them *)
LEMMA SessionLost ==
  ASSUME TypeInv, NEW h \in Handlers, LoseSession(h)
  PROVE  /\ Close(h) /\ Others(h) /\ Doubt(h) /\ UNCHANGED <<rows, indexed, chain>>
         /\ req[h].stage \in OnRow \cup OnPayload /\ ~req[h].lost
         /\ req'[h].lost /\ req'[h].stage = req[h].stage /\ req'[h].row = req[h].row
         /\ req'[h].token = req[h].token /\ req'[h].kind = req[h].kind
         /\ left' \in [Faults \cup {"request"} -> Nat]
         /\ left'["request"] = left["request"] /\ left'["rpc"] = left["rpc"]
<1>1. /\ h \in {createLock} \cup Range(rowLock) /\ Spend("session") /\ Doubt(h) /\ Close(h)
      /\ req' = [req EXCEPT ![h].lost = TRUE] /\ UNCHANGED <<rows, indexed, chain>>
  BY DEF LoseSession
<1>2. createLock = h \/ \E i \in Ids : rowLock[i] = h
  BY <1>1 DEF Range, TypeInv, Typed
<1>3. req[h].stage \in OnRow \cup OnPayload /\ ~req[h].lost
  BY <1>2 DEF TypeInv, Locked
<1>4. /\ Others(h) /\ req'[h].lost /\ req'[h].stage = req[h].stage
      /\ req'[h].row = req[h].row
      /\ req'[h].token = req[h].token /\ req'[h].kind = req[h].kind
  <2>1. req \in [Handlers -> Requests] /\ req[h] \in Requests
    BY DEF TypeInv, Typed
  <2> DEFINE r == [req[h] EXCEPT !.lost = TRUE]
  <2>2. /\ r \in Requests /\ r.lost /\ r.stage = req[h].stage /\ r.row = req[h].row
        /\ r.token = req[h].token /\ r.kind = req[h].kind
    BY <2>1 DEF Requests
  <2>3. req' = [req EXCEPT ![h] = r]
    BY <1>1, <2>1
  <2> HIDE DEF r
  <2>4. QED
    BY <2>1, <2>2, <2>3 DEF Others
<1>5. /\ left' \in [Faults \cup {"request"} -> Nat]
      /\ left'["request"] = left["request"] /\ left'["rpc"] = left["rpc"]
  BY <1>1, Spending DEF TypeInv, Faults
<1>6. QED
  BY <1>1, <1>3, <1>4, <1>5

LEMMA LoseSessionKeepsTypeInv ==
  ASSUME TypeInv, NEW h \in Handlers, LoseSession(h)
  PROVE  TypeInv'
<1>1. /\ Close(h) /\ Others(h) /\ Doubt(h) /\ UNCHANGED <<rows, indexed, tokens, issues>>
      /\ req[h].stage \in OnRow \cup OnPayload
      /\ req'[h].lost /\ req'[h].stage = req[h].stage /\ req'[h].row = req[h].row
      /\ req'[h].token = req[h].token
      /\ left' \in [Faults \cup {"request"} -> Nat]
      /\ left'["request"] = left["request"] /\ left["request"] \in Nat
  BY SessionLost DEF chain, TypeInv, Typed
<1>2. /\ createLock' \in Handlers \cup {NoOne} /\ rowLock' \in [Ids -> Handlers \cup {NoOne}]
  BY <1>1, Closing DEF TypeInv
<1>3. Fits(req[h])'
  <2>1. Fits(req[h])
    BY DEF TypeInv, Typed
  <2>2. QED
    BY <1>1, <2>1 DEF OnPayload, Fits, OnRow
<1>4. /\ tokens' \in Seq(Token) /\ issues' \in Seq(Nat) /\ Len(tokens) <= Len(tokens')
      /\ indexed' \subseteq DOMAIN issues' /\ doubtful' \subseteq DOMAIN tokens'
  BY <1>1, DoubtTyped, LenProperties DEF TypeInv, Typed
<1>5. rows' \in Seq(Row) /\ \A i \in DOMAIN rows' : rows'[i].token <= Len(tokens')
  BY <1>1, <1>4, RowsTyped DEF TypeInv
<1>6. Typed'
  BY <1>1, <1>2, <1>3, <1>4, <1>5, TypedAgain DEF TypeInv
<1>7. Locked'
  BY <1>1, ClosingKeepsLocked DEF TypeInv
<1>8. Inserting' \subseteq Inserting
  BY <1>1 DEF Inserting, Others
<1>9. QED
  BY <1>1, <1>6, <1>7, <1>8, NoneInserts DEF TypeInv
-------------------------------------------------------------------------------
LEMMA InitKeepsTypeInv == Init => TypeInv
<1> SUFFICES ASSUME Init PROVE TypeInv
  OBVIOUS
<1>1. /\ rows \in Seq(Row) /\ tokens \in Seq(Token) /\ issues \in Seq(Nat)
      /\ DOMAIN rows = {} /\ Len(rows) = 0 /\ Len(tokens) = 0
      /\ indexed = {} /\ doubtful = {}
  BY EmptySeq DEF Init
<1>2. req \in [Handlers -> Requests] /\ \A h \in Handlers : req[h] = Idle
  BY IdleFields DEF Init
<1>3. left \in [Faults \cup {"request"} -> Nat] /\ left["request"] = MaxRequests
  BY ListingsAssumption DEF Init, Faults
<1>4. createLock = NoOne /\ rowLock = [i \in Ids |-> NoOne]
  BY DEF Init
<1>5. Typed
  <2>1. Fits(Idle)
    BY <1>1, IdleFields DEF Fits, OnRow
  <2>2. QED
    BY <1>1, <1>2, <1>3, <1>4, <2>1 DEF Typed
<1>6. Locked
  BY <1>2, <1>4, IdleFields, ListingsAssumption DEF OnPayload, Locked, OnRow
<1>7. Bounded
  <2>1. Inserting = {}
    BY <1>2, IdleFields DEF Inserting
  <2>2. Cardinality(Inserting) = 0 /\ MaxRequests \in Nat
    BY <2>1, FS_EmptySet, ListingsAssumption
  <2>3. QED
    BY <1>1, <1>3, <2>2 DEF Bounded
<1>8. QED
  BY <1>5, <1>6, <1>7 DEF TypeInv

LEMMA NextKeepsTypeInv ==
  ASSUME TypeInv, [Next]_vars
  PROVE  TypeInv'
<1>1. CASE \E h \in Handlers, kind \in Kinds, i \in Ids \cup {0} : Start(h, kind, i)
  BY <1>1, StartKeepsTypeInv
<1>2. CASE \E h \in Handlers, ok \in BOOLEAN : Find(h, ok)
  BY <1>2, FindKeepsTypeInv
<1>3. CASE \E h \in Handlers : Insert(h)
  BY <1>3, InsertKeepsTypeInv
<1>4. CASE \E h \in Handlers, ok \in BOOLEAN : LockRow(h, ok)
  BY <1>4, LockRowKeepsTypeInv
<1>5. CASE \E h \in Handlers, ok \in BOOLEAN : Sent(h, ok)
  BY <1>5, SentKeepsTypeInv
<1>6. CASE \E h \in Handlers : TimedOut(h)
  BY <1>6, TimedOutKeepsTypeInv
<1>7. CASE \E h \in Handlers : Write(h)
  BY <1>7, WriteKeepsTypeInv
<1>8. CASE \E h \in Handlers : IssueReconciles(h) \/ Fail(h) \/ Finish(h) \/ Crash(h) \/ LoseSession(h)
  BY <1>8, IssueReconcilesKeepsTypeInv, FailKeepsTypeInv, FinishKeepsTypeInv, CrashKeepsTypeInv,
     LoseSessionKeepsTypeInv
<1>9. CASE \E t \in Ids : Index(t)
  BY <1>9, IndexKeepsTypeInv
<1>10. CASE UNCHANGED vars
  BY <1>10 DEF vars, db, chain, TypeInv, Typed, Fits, Bounded, Inserting, Locked
<1>11. QED
  BY <1>1, <1>2, <1>3, <1>4, <1>5, <1>6, <1>7, <1>8, <1>9, <1>10 DEF Next, Step

LEMMA TypeInvHolds == Spec => []TypeInv
<1>1. Init => TypeInv
  BY InitKeepsTypeInv
<1>2. TypeInv /\ [Next]_vars => TypeInv'
  BY NextKeepsTypeInv
<1>3. QED
  BY <1>1, <1>2, PTL DEF Spec

(* Types of every variable: in particular a request never works on a row   *)
(* or a token that is not there, and the rows stay within the requests.    *)
THEOREM TypesHold == Spec => []TypeOK
<1>1. TypeInv => TypeOK
  <2> SUFFICES ASSUME TypeInv PROVE TypeOK
    OBVIOUS
  <2>1. Len(rows) <= MaxRequests
    BY RowsAreIds DEF TypeInv
  <2>2. ASSUME NEW i \in DOMAIN rows
        PROVE  /\ rows[i].token \in 0 .. Len(tokens) /\ rows[i].state \in Statuses
               /\ rows[i].again \in BOOLEAN
    <3>1. Len(tokens) \in Nat /\ rows[i].token <= Len(tokens)
      BY LenProperties DEF TypeInv, Typed
    <3>2. QED
      BY <3>1, RowTyped DEF TypeInv
  <2>3. \A k \in DOMAIN tokens : tokens[k] \in Token
    BY LenProperties DEF TypeInv, Typed
  <2>4. QED
    BY <2>1, <2>2, <2>3 DEF TypeOK, TypeInv, Typed, Token, Statuses
<1>2. QED
  BY <1>1, TypeInvHolds, PTL
-------------------------------------------------------------------------------
(* The inventory of a token is minted once: what a request mints or writes *)
(* is the token of the row it has locked, or one that it deployed itself   *)
(* and nothing else knows, or its session is gone.                         *)
Distinct ==
  \A i, j \in DOMAIN rows : rows[i].token = rows[j].token /\ rows[i].token # 0 => i = j

Has(g, k) == req[g].stage \in {"mint", "write"} /\ req[g].token = k

Fresh(h) ==
  /\ req[h].token # 0 /\ \A i \in DOMAIN rows : rows[i].token # req[h].token
  /\ \A g \in Handlers : g # h => ~Has(g, req[h].token)

Held(h) ==
  req[h].stage \in {"mint", "write"} =>
    \/ ~req[h].lost /\ req[h].token = rows[req[h].row].token
    \/ Fresh(h)
    \/ req[h].lost /\ (req[h].stage = "mint" => req[h].token \in doubtful)

Ready(h) ==
  req[h].stage = "mint" => req[h].token \in doubtful \/ tokens[req[h].token].minted = 0

MintInv ==
  /\ Distinct /\ MintedOnce
  /\ \A h \in Handlers : Held(h) /\ Ready(h)

(* No two requests mint one token, but for a doubtful one *)
LEMMA MintsApart ==
  ASSUME TypeInv, MintInv, NEW g \in Handlers, NEW h \in Handlers, g # h,
         req[g].stage = "mint", req[h].stage = "mint", req[g].token = req[h].token
  PROVE  req[h].token \in doubtful
<1>1. Has(g, req[h].token) /\ Has(h, req[g].token)
  BY DEF Has
<1>2. ~Fresh(g) /\ ~Fresh(h)
  BY <1>1 DEF Fresh
<1>3. Held(g) /\ Held(h)
  BY DEF MintInv
<1>4. CASE req[g].lost \/ req[h].lost
  BY <1>2, <1>3, <1>4 DEF Held
<1>5. CASE ~req[g].lost /\ ~req[h].lost
  <2>1. /\ rows[req[g].row].token = rows[req[h].row].token
        /\ rows[req[h].row].token = req[h].token
    BY <1>2, <1>3, <1>5 DEF Held
  <2>2. /\ req[g].row \in DOMAIN rows /\ req[h].row \in DOMAIN rows /\ req[h].token # 0
    BY DEF TypeInv, Typed, Fits, OnRow
  <2>3. req[g].row = req[h].row
    BY <2>1, <2>2 DEF MintInv, Distinct
  <2>4. rowLock[req[h].row] = g /\ rowLock[req[h].row] = h
    BY <1>5, <2>2, <2>3, RowsAreIds DEF TypeInv, Locked, OnRow
  <2>5. QED
    BY <2>4
<1>6. QED
  BY <1>4, <1>5

(* A transaction of one request leaves the others ready, and mints at most *)
(* the supply                                                              *)
LEMMA OthersReady ==
  ASSUME TypeInv, MintInv, NEW h \in Handlers, Others(h), Grows(h), doubtful \subseteq doubtful',
         NEW g \in Handlers, g # h
  PROVE  Ready(g)'
<1> SUFFICES ASSUME req[g].stage = "mint", req[g].token \notin doubtful
             PROVE  tokens'[req[g].token].minted = 0
  BY DEF Ready, Others
<1>1. tokens[req[g].token].minted = 0
  BY DEF MintInv, Ready
<1>2. req[g].token \in DOMAIN tokens
  BY TokenInUse DEF TypeInv
<1>3. ~(req[h].stage = "mint" /\ req[h].token = req[g].token)
  BY MintsApart
<1>4. QED
  BY <1>1, <1>2, <1>3 DEF Grows

LEMMA MintedOnceStays ==
  ASSUME TypeInv, MintInv, NEW h \in Handlers, Grows(h), doubtful \subseteq doubtful'
  PROVE  MintedOnce'
<1> SUFFICES ASSUME NEW k \in DOMAIN tokens', k \notin doubtful'
             PROVE  tokens'[k].minted <= Supply
  BY DEF MintedOnce
<1>1. Supply \in Nat
  BY ListingsAssumption
<1>2. CASE k \notin DOMAIN tokens
  BY <1>1, <1>2 DEF Grows
<1>3. CASE k \in DOMAIN tokens /\ tokens'[k].minted = tokens[k].minted
  BY <1>3 DEF MintInv, MintedOnce
<1>4. CASE /\ req[h].stage = "mint" /\ req[h].token = k /\ k \in DOMAIN tokens
           /\ tokens'[k].minted = tokens[k].minted + Supply
  <2>1. tokens[k].minted = 0
    BY <1>4 DEF MintInv, Ready
  <2>2. QED
    BY <1>1, <1>4, <2>1
<1>5. QED
  BY <1>2, <1>3, <1>4 DEF Grows

(* What the others hold stays theirs, when rows get no token but that of   *)
(* the request, and the request no token but that of a row or a new one    *)
LEMMA OthersHold ==
  ASSUME TypeInv, MintInv, NEW h \in Handlers, Others(h), doubtful \subseteq doubtful',
         NEW g \in Handlers, g # h,
         \A i \in DOMAIN rows' :
           \/ i \in DOMAIN rows /\ rows'[i].token = rows[i].token
           \/ rows'[i].token = 0 \/ Has(h, rows'[i].token),
         \A i \in DOMAIN rows :
           (req[g].stage \in OnRow /\ ~req[g].lost /\ req[g].row = i) =>
              rows'[i].token = rows[i].token,
         req'[h].stage \in {"mint", "write"} =>
           \/ req'[h].token > Len(tokens) \/ Has(h, req'[h].token)
           \/ \E i \in DOMAIN rows : rows[i].token = req'[h].token
  PROVE  Held(g)'
<1> SUFFICES ASSUME req[g].stage \in {"mint", "write"}
             PROVE  \/ ~req[g].lost /\ req[g].token = rows'[req[g].row].token
                    \/ Fresh(g)'
                    \/ req[g].lost /\ (req[g].stage = "mint" => req[g].token \in doubtful')
  BY DEF Held, Others
<1>1. /\ req[g].token \in Nat /\ req[g].token <= Len(tokens) /\ Len(tokens) \in Nat
      /\ req[g].row \in DOMAIN rows /\ req'[g] = req[g]
  BY LenProperties DEF TypeInv, Typed, Fits, Requests, OnRow, Others
<1>2. CASE ~req[g].lost /\ req[g].token = rows[req[g].row].token
  BY <1>1, <1>2 DEF OnRow
<1>3. CASE Fresh(g)
  <2>1. \A i \in DOMAIN rows' : rows'[i].token # req[g].token
    BY <1>3 DEF Fresh
  <2>2. ~(req'[h].stage \in {"mint", "write"} /\ req'[h].token = req[g].token)
    <3>1. ~(req[g].token > Len(tokens))
      BY <1>1
    <3>2. ~Has(h, req[g].token) /\ \A i \in DOMAIN rows : rows[i].token # req[g].token
      BY <1>3 DEF Fresh
    <3>3. QED
      BY <3>1, <3>2
  <2>3. ASSUME NEW f \in Handlers, f # g
        PROVE  ~(req'[f].stage \in {"mint", "write"} /\ req'[f].token = req[g].token)
    BY <1>3, <2>2, <2>3 DEF Fresh, Has, Others
  <2>4. QED
    BY <1>1, <1>3, <2>1, <2>3 DEF Fresh, Has
<1>4. CASE req[g].lost /\ (req[g].stage = "mint" => req[g].token \in doubtful)
  BY <1>4
<1>5. QED
  BY <1>2, <1>3, <1>4 DEF MintInv, Held

(* A step that leaves the tokens of the rows alone *)
LEMMA MintInvStays ==
  ASSUME TypeInv, MintInv, NEW h \in Handlers, Others(h), Grows(h), doubtful \subseteq doubtful',
         UNCHANGED rows, Held(h)', Ready(h)',
         req'[h].stage \in {"mint", "write"} =>
           \/ req'[h].token > Len(tokens) \/ Has(h, req'[h].token)
           \/ \E i \in DOMAIN rows : rows[i].token = req'[h].token
  PROVE  MintInv'
<1>1. MintedOnce'
  BY MintedOnceStays
<1>2. Distinct'
  BY DEF MintInv, Distinct
<1>3. ASSUME NEW g \in Handlers, g # h
      PROVE  Held(g)' /\ Ready(g)'
  BY <1>3, OthersHold, OthersReady
<1>4. \A g \in Handlers : Held(g)' /\ Ready(g)'
  BY <1>3
<1>5. QED
  BY <1>1, <1>2, <1>4 DEF MintInv

LEMMA LeavingKeepsMintInv ==
  ASSUME TypeInv, MintInv, NEW h \in Handlers, Others(h), Grows(h), doubtful \subseteq doubtful',
         UNCHANGED rows, req'[h].stage \notin {"mint", "write"}
  PROVE  MintInv'
<1>1. Held(h)' /\ Ready(h)'
  BY DEF Held, Ready
<1>2. QED
  BY <1>1, MintInvStays
-------------------------------------------------------------------------------
LEMMA InsertKeepsMintInv ==
  ASSUME TypeInv, MintInv, NEW h \in Handlers, Insert(h)
  PROVE  MintInv'
<1>1. /\ UNCHANGED <<tokens, issues, doubtful>> /\ Others(h) /\ req'[h].stage = "lock"
      /\ (\E again \in BOOLEAN : rows' = Append(rows, NewRow(again))) \/ UNCHANGED rows
  BY Inserted DEF chain
<1>2. Grows(h)
  BY <1>1, StandingStill DEF TypeInv
<1>3. CASE UNCHANGED rows
  BY <1>1, <1>2, <1>3, LeavingKeepsMintInv
<1>4. CASE \E again \in BOOLEAN : rows' = Append(rows, NewRow(again))
  <2>1. /\ DOMAIN rows' = DOMAIN rows \cup {Len(rows) + 1}
        /\ \A i \in DOMAIN rows : rows'[i] = rows[i]
        /\ rows'[Len(rows) + 1].token = 0
    BY <1>4, InsertedRows
  <2>2. Distinct'
    BY <2>1 DEF MintInv, Distinct
  <2>3. MintedOnce'
    BY <1>1, <1>2, MintedOnceStays
  <2>4. ASSUME NEW g \in Handlers, g # h
        PROVE  Held(g)' /\ Ready(g)'
    BY <1>1, <1>2, <2>1, <2>4, OthersHold, OthersReady
  <2>5. Held(h)' /\ Ready(h)'
    BY <1>1 DEF Held, Ready
  <2>6. QED
    BY <2>2, <2>3, <2>4, <2>5 DEF MintInv
<1>5. QED
  BY <1>1, <1>3, <1>4

LEMMA LockRowKeepsMintInv ==
  ASSUME TypeInv, MintInv, NEW h \in Handlers, NEW ok \in BOOLEAN, LockRow(h, ok)
  PROVE  MintInv'
<1> DEFINE i == req[h].row
<1>1. UNCHANGED <<rows, tokens, issues, doubtful>> /\ i \in DOMAIN rows
  BY Locking DEF chain
<1>2. Grows(h)
  BY <1>1, StandingStill DEF TypeInv
<1>3. CASE End(h)
  <2>1. Others(h) /\ req'[h].stage = "off"
    BY <1>3, Ending, IdleFields DEF TypeInv
  <2>2. QED
    BY <1>1, <1>2, <2>1, LeavingKeepsMintInv
<1>4. CASE ~End(h)
  <2>1. /\ Others(h) /\ ~req'[h].lost /\ req'[h].row = i /\ req'[h].token = rows[i].token
        /\ req'[h].stage = "mint" => Investable(i) /\ ~OnSale(rows[i].token)
    BY <1>4, Locking
  <2>2. Held(h)'
    BY <1>1, <2>1 DEF Held
  <2>3. Ready(h)'
    <3>1. req'[h].stage = "mint" => rows[i].token \in DOMAIN tokens
      <4>1. DOMAIN tokens = 1 .. Len(tokens) /\ Len(tokens) \in Nat
        BY LenProperties DEF TypeInv, Typed
      <4>2. rows[i].token \in Nat /\ rows[i].token <= Len(tokens)
        BY <1>1, RowTyped DEF TypeInv, Typed
      <4>3. QED
        BY <2>1, <4>1, <4>2 DEF Investable
    <3>2. \A k \in DOMAIN tokens : tokens[k] \in Token
      BY LenProperties DEF TypeInv, Typed
    <3>3. req'[h].stage = "mint" => tokens[rows[i].token].minted = 0
      BY <2>1, <3>1, <3>2 DEF OnSale, Token
    <3>4. QED
      BY <1>1, <2>1, <3>3 DEF Ready
  <2>4. QED
    BY <1>1, <1>2, <2>1, <2>2, <2>3, MintInvStays
<1>5. QED
  BY <1>3, <1>4

LEMMA SentKeepsMintInv ==
  ASSUME TypeInv, MintInv, NEW h \in Handlers, NEW ok \in BOOLEAN, Sent(h, ok)
  PROVE  MintInv'
<1>1. /\ req[h].stage \in Sends /\ Grows(h) /\ UNCHANGED <<rows, doubtful>>
      /\ req[h].stage = "deployTx" => Len(tokens') = Len(tokens) + 1
      /\ Others(h) /\ req'[h].stage = After(req[h].stage)
      /\ req'[h].row = req[h].row /\ req'[h].lost = req[h].lost
      /\ req'[h].token = IF req[h].stage = "deployTx" THEN Len(tokens') ELSE req[h].token
  BY Answered DEF db
<1>2. CASE req[h].stage = "deployTx"
  <2>1. /\ req'[h].stage = "mint" /\ req'[h].token = Len(tokens) + 1
        /\ Len(tokens') = Len(tokens) + 1
    BY <1>1, <1>2 DEF After
  <2>2. /\ Len(tokens) \in Nat /\ DOMAIN tokens = 1 .. Len(tokens)
        /\ DOMAIN tokens' = 1 .. Len(tokens')
    BY <1>1, LenProperties DEF Grows, TypeInv, Typed
  <2>3. Ready(h)'
    BY <1>1, <2>1, <2>2 DEF Ready, Grows
  <2>4. Held(h)'
    <3>1. \A i \in DOMAIN rows : rows[i].token # Len(tokens) + 1
      BY <2>2, RowTyped DEF TypeInv, Typed
    <3>2. \A g \in Handlers : req[g].token # Len(tokens) + 1
      BY <2>2 DEF TypeInv, Typed, Fits, Requests
    <3>3. Fresh(h)'
      BY <1>1, <2>1, <2>2, <3>1, <3>2 DEF Fresh, Has, Others
    <3>4. QED
      BY <3>3 DEF Held
  <2>5. QED
    BY <1>1, <2>1, <2>2, <2>3, <2>4, MintInvStays
<1>3. CASE req[h].stage = "mint"
  <2>1. req'[h].stage = "write" /\ req'[h].token = req[h].token
    BY <1>1, <1>3 DEF After
  <2>2. Has(h, req'[h].token)
    BY <1>3, <2>1 DEF Has
  <2>3. Ready(h)'
    BY <2>1 DEF Ready
  <2>4. Held(h)'
    <3>1. CASE ~req[h].lost /\ req[h].token = rows[req[h].row].token
      BY <1>1, <2>1, <3>1 DEF Held
    <3>2. CASE Fresh(h)
      <4>1. Fresh(h)'
        BY <1>1, <2>1, <3>2 DEF Fresh, Has, Others
      <4>2. QED
        BY <4>1 DEF Held
    <3>3. CASE req[h].lost
      BY <1>1, <2>1, <3>3 DEF Held
    <3>4. QED
      BY <1>3, <3>1, <3>2, <3>3 DEF MintInv, Held
  <2>5. QED
    BY <1>1, <2>2, <2>3, <2>4, MintInvStays
<1>4. CASE req[h].stage \in {"whitelist", "issueTx"}
  <2>1. req'[h].stage \notin {"mint", "write"}
    BY <1>1, <1>4 DEF After
  <2>2. QED
    BY <1>1, <2>1, LeavingKeepsMintInv
<1>5. QED
  BY <1>1, <1>2, <1>3, <1>4 DEF Sends

LEMMA TimedOutKeepsMintInv ==
  ASSUME TypeInv, MintInv, NEW h \in Handlers, TimedOut(h)
  PROVE  MintInv'
<1>1. req[h].stage \in Sends /\ Grows(h) /\ UNCHANGED rows /\ Doubt(h)
  BY Unanswered
<1>2. doubtful \subseteq doubtful'
  BY <1>1 DEF Doubt
<1>3. CASE End(h)
  <2>1. Others(h) /\ req'[h].stage = "off"
    BY <1>3, Ending, IdleFields DEF TypeInv
  <2>2. QED
    BY <1>1, <1>2, <2>1, LeavingKeepsMintInv
<1>4. CASE ~End(h)
  <2>1. /\ Others(h) /\ req'[h].stage = req[h].stage /\ req'[h].token = req[h].token
        /\ req'[h].row = req[h].row /\ req'[h].lost = req[h].lost
    BY <1>4, Unanswered
  <2>2. CASE req[h].stage # "mint"
    BY <1>1, <1>2, <2>1, <2>2, LeavingKeepsMintInv DEF Sends
  <2>3. CASE req[h].stage = "mint"
    <3>1. req'[h].token \in doubtful' /\ Has(h, req'[h].token)
      BY <1>1, <2>1, <2>3 DEF Doubt, Has
    <3>2. Ready(h)'
      BY <3>1 DEF Ready
    <3>3. Held(h)'
      <4>1. CASE ~req[h].lost /\ req[h].token = rows[req[h].row].token
        BY <1>1, <2>1, <4>1 DEF Held
      <4>2. CASE Fresh(h)
        <5>1. Fresh(h)'
          BY <1>1, <2>1, <4>2 DEF Fresh, Has, Others
        <5>2. QED
          BY <5>1 DEF Held
      <4>3. CASE req[h].lost
        BY <2>1, <3>1, <4>3 DEF Held
      <4>4. QED
        BY <2>3, <4>1, <4>2, <4>3 DEF MintInv, Held
    <3>4. QED
      BY <1>1, <1>2, <2>1, <3>1, <3>2, <3>3, MintInvStays
  <2>4. QED
    BY <2>2, <2>3
<1>5. QED
  BY <1>3, <1>4

LEMMA LoseSessionKeepsMintInv ==
  ASSUME TypeInv, MintInv, NEW h \in Handlers, LoseSession(h)
  PROVE  MintInv'
<1>1. /\ Others(h) /\ Doubt(h) /\ UNCHANGED <<rows, tokens, issues>>
      /\ req'[h].lost /\ req'[h].stage = req[h].stage /\ req'[h].token = req[h].token
  BY SessionLost DEF chain
<1>2. Grows(h) /\ doubtful \subseteq doubtful'
  BY <1>1, StandingStill DEF Doubt, TypeInv
<1>3. req'[h].stage = "mint" => req'[h].token \in doubtful'
  BY <1>1 DEF Doubt
<1>4. Held(h)' /\ Ready(h)'
  BY <1>1, <1>3 DEF Held, Ready
<1>5. req'[h].stage \in {"mint", "write"} => Has(h, req'[h].token)
  BY <1>1 DEF Has
<1>6. QED
  BY <1>1, <1>2, <1>4, <1>5, MintInvStays

(* The write gives its row the token that the request holds *)
LEMMA WriteKeepsMintInv ==
  ASSUME TypeInv, MintInv, NEW h \in Handlers, Write(h)
  PROVE  MintInv'
<1> DEFINE i == req[h].row
<1>1. /\ UNCHANGED <<tokens, issues, doubtful>> /\ Others(h) /\ req'[h].stage \in {"off", "lock"}
  BY Written DEF chain
<1>2. /\ req[h].stage = "write" /\ ~req[h].lost /\ i \in DOMAIN rows
      /\ DOMAIN rows' = DOMAIN rows
      /\ \A j \in DOMAIN rows : j # i => rows'[j] = rows[j]
      /\ rows'[i].token \in {rows[i].token, req[h].token}
  BY WrittenRow
<1>3. Grows(h)
  BY <1>1, StandingStill DEF TypeInv
<1>4. Has(h, req[h].token)
  BY <1>2 DEF Has
<1>5. Distinct'
  <2>1. CASE rows'[i].token = rows[i].token
    BY <1>2, <2>1 DEF MintInv, Distinct
  <2>2. CASE rows'[i].token = req[h].token /\ req[h].token # rows[i].token
    <3>1. Fresh(h)
      BY <1>2, <2>2 DEF MintInv, Held
    <3>2. \A j \in DOMAIN rows : rows[j].token # req[h].token
      BY <3>1 DEF Fresh
    <3>3. QED
      BY <1>2, <2>2, <3>2 DEF MintInv, Distinct
  <2>3. QED
    BY <1>2, <2>1, <2>2
<1>6. MintedOnce'
  BY <1>1, <1>3, MintedOnceStays
<1>7. ASSUME NEW g \in Handlers, g # h
      PROVE  Held(g)' /\ Ready(g)'
  <2>1. ~(req[g].stage \in OnRow /\ ~req[g].lost /\ req[g].row = i)
    <3>1. i \in Ids /\ rowLock[i] = h
      BY <1>2, RowsAreIds DEF TypeInv, Locked, OnRow
    <3>2. QED
      BY <1>7, <3>1 DEF TypeInv, Locked
  <2>2. \A j \in DOMAIN rows' :
          \/ j \in DOMAIN rows /\ rows'[j].token = rows[j].token
          \/ rows'[j].token = 0 \/ Has(h, rows'[j].token)
    BY <1>2, <1>4
  <2>3. \A j \in DOMAIN rows :
          (req[g].stage \in OnRow /\ ~req[g].lost /\ req[g].row = j) =>
             rows'[j].token = rows[j].token
    BY <1>2, <2>1
  <2>4. Held(g)'
    BY <1>1, <1>7, <2>2, <2>3, OthersHold
  <2>5. QED
    BY <1>1, <1>3, <1>7, <2>4, OthersReady
<1>8. Held(h)' /\ Ready(h)'
  BY <1>1 DEF Held, Ready
<1>9. QED
  BY <1>5, <1>6, <1>7, <1>8 DEF MintInv

LEMMA NextKeepsMintInv ==
  ASSUME TypeInv, MintInv, [Next]_vars
  PROVE  MintInv'
<1>1. CASE \E h \in Handlers, kind \in Kinds, i \in Ids \cup {0} : Start(h, kind, i)
  <2>1. PICK h \in Handlers, kind \in Kinds, i \in Ids \cup {0} : Start(h, kind, i)
    BY <1>1
  <2>2. /\ Others(h) /\ UNCHANGED <<rows, tokens, issues, doubtful>>
        /\ req'[h].stage \in {"enter", "lock"}
    BY <2>1, Starting DEF db, chain
  <2>3. QED
    BY <2>2, StandingStill, LeavingKeepsMintInv DEF TypeInv
<1>2. CASE \E h \in Handlers, ok \in BOOLEAN : Find(h, ok)
  <2>1. PICK h \in Handlers, ok \in BOOLEAN : Find(h, ok)
    BY <1>2
  <2>2. /\ UNCHANGED <<rows, tokens, issues, doubtful>>
        /\ Others(h) /\ req'[h].stage \in OnPayload
    BY <2>1, Finding DEF chain
  <2>3. req'[h].stage \notin {"mint", "write"}
    BY <2>2 DEF OnPayload
  <2>4. QED
    BY <2>2, <2>3, StandingStill, LeavingKeepsMintInv DEF TypeInv
<1>3. CASE \E h \in Handlers : Insert(h)
  BY <1>3, InsertKeepsMintInv
<1>4. CASE \E h \in Handlers, ok \in BOOLEAN : LockRow(h, ok)
  BY <1>4, LockRowKeepsMintInv
<1>5. CASE \E h \in Handlers, ok \in BOOLEAN : Sent(h, ok)
  BY <1>5, SentKeepsMintInv
<1>6. CASE \E h \in Handlers : TimedOut(h) \/ Write(h) \/ LoseSession(h)
  BY <1>6, TimedOutKeepsMintInv, WriteKeepsMintInv, LoseSessionKeepsMintInv
<1>7. CASE \E h \in Handlers : IssueReconciles(h) \/ Fail(h) \/ Finish(h) \/ Crash(h)
  <2>1. PICK h \in Handlers : IssueReconciles(h) \/ Fail(h) \/ Finish(h) \/ Crash(h)
    BY <1>7
  <2>2. /\ End(h) /\ UNCHANGED <<rows, tokens, issues>> /\ doubtful \subseteq doubtful'
    BY <2>1 DEF IssueReconciles, Fail, Finish, Crash, Doubt, chain
  <2>3. Others(h) /\ req'[h].stage \notin {"mint", "write"}
    BY <2>2, Ending, IdleFields DEF TypeInv
  <2>4. QED
    BY <2>2, <2>3, StandingStill, LeavingKeepsMintInv DEF TypeInv
<1>8. CASE (\E t \in Ids : Index(t)) \/ UNCHANGED vars
  <2>1. UNCHANGED <<rows, tokens, req, doubtful>>
    BY <1>8 DEF Index, vars, db, chain
  <2>2. QED
    BY <2>1 DEF MintInv, Distinct, MintedOnce, Held, Ready, Fresh, Has
<1>9. QED
  BY <1>1, <1>2, <1>3, <1>4, <1>5, <1>6, <1>7, <1>8 DEF Next, Step

(* However many requests deploy, resume and repair a listing at once, for  *)
(* any number of them and any budget of faults, the sale inventory of a    *)
(* token is minted at most once unless its mint was left in doubt.         *)
THEOREM InventoryMintedOnce == Spec => []MintedOnce
<1>1. Init => MintInv
  <2> SUFFICES ASSUME Init PROVE MintInv
    OBVIOUS
  <2>1. DOMAIN rows = {} /\ DOMAIN tokens = {} /\ \A h \in Handlers : req[h].stage = "off"
    BY IdleFields DEF Init
  <2>2. QED
    BY <2>1 DEF MintInv, Distinct, MintedOnce, Held, Ready
<1>2. TypeInv /\ MintInv /\ [Next]_vars => MintInv'
  BY NextKeepsMintInv
<1>3. MintInv => MintedOnce
  BY DEF MintInv
<1>4. QED
  BY <1>1, <1>2, <1>3, TypeInvHolds, PTL DEF Spec
-------------------------------------------------------------------------------
(* A listing keeps its token: a request that is to give its row another    *)
(* token saw under the lock of the row that it has none, unless a check of *)
(* a token failed.                                                         *)
Due(h) ==
  \/ req[h].stage = "deployTx"
  \/ req[h].stage \in {"mint", "write"} /\ req[h].token # rows[req[h].row].token

MayDeploy(h) ==
  left["rpc"] = Budget["rpc"] /\ Due(h) /\ ~req[h].lost => ~Investable(req[h].row)

KeptInv == left["rpc"] <= Budget["rpc"] /\ \A h \in Handlers : MayDeploy(h)

(* A token that is on the chain stays as it is *)
LEMMA StillInvestable ==
  ASSUME TypeInv, NEW h \in Handlers, Grows(h), NEW i \in DOMAIN rows,
         rows'[i].token = rows[i].token, Investable(i)'
  PROVE  Investable(i)
<1>1. rows[i].token \in Nat /\ rows[i].token <= Len(tokens) /\ rows[i].token # 0
  BY RowTyped DEF TypeInv, Typed, Investable
<1>2. DOMAIN tokens = 1 .. Len(tokens) /\ Len(tokens) \in Nat
  BY LenProperties DEF TypeInv, Typed
<1>3. rows[i].token \in DOMAIN tokens
  BY <1>1, <1>2
<1>4. QED
  BY <1>3 DEF Investable, Grows

LEMMA KeptStays ==
  ASSUME TypeInv, KeptInv, NEW h \in Handlers, Others(h), Grows(h),
         left' \in [Faults \cup {"request"} -> Nat], left'["rpc"] <= left["rpc"], MayDeploy(h)',
         \A g \in Handlers : g # h /\ req[g].stage \in OnRow /\ ~req[g].lost =>
            rows'[req[g].row].token = rows[req[g].row].token
  PROVE  KeptInv'
<1>1. left["rpc"] \in Nat /\ left'["rpc"] \in Nat /\ Budget["rpc"] \in Nat
  BY ListingsAssumption DEF TypeInv, Typed, Faults
<1>2. left'["rpc"] <= Budget["rpc"]
  BY <1>1 DEF KeptInv
<1>3. ASSUME NEW g \in Handlers, g # h,
             left'["rpc"] = Budget["rpc"], Due(g)', ~req[g].lost
      PROVE  ~Investable(req[g].row)'
  <2>1. req'[g] = req[g] /\ left["rpc"] = Budget["rpc"]
    BY <1>1, <1>3 DEF Others, KeptInv
  <2>2. req[g].stage \in OnRow
    BY <1>3, <2>1 DEF Due, OnRow
  <2>3. req[g].row \in DOMAIN rows /\ rows'[req[g].row].token = rows[req[g].row].token
    BY <1>3, <2>2 DEF TypeInv, Typed, Fits
  <2>4. Due(g)
    BY <1>3, <2>1, <2>3 DEF Due
  <2>5. ~Investable(req[g].row)
    BY <1>3, <2>1, <2>4 DEF KeptInv, MayDeploy
  <2>6. QED
    BY <2>1, <2>3, <2>5, StillInvestable
<1>4. ASSUME NEW g \in Handlers
      PROVE  MayDeploy(g)'
  BY <1>3 DEF MayDeploy, Others
<1>5. QED
  BY <1>2, <1>4 DEF KeptInv

LEMMA KeptWithRows ==
  ASSUME TypeInv, KeptInv, NEW h \in Handlers, Others(h), Grows(h), UNCHANGED rows,
         left' \in [Faults \cup {"request"} -> Nat], left'["rpc"] <= left["rpc"],
         ~Due(h)' \/ req'[h].lost
  PROVE  KeptInv'
<1>1. MayDeploy(h)'
  BY DEF MayDeploy
<1>2. QED
  BY <1>1, KeptStays

LEMMA LockRowKeepsKept ==
  ASSUME TypeInv, KeptInv, NEW h \in Handlers, NEW ok \in BOOLEAN, LockRow(h, ok)
  PROVE  KeptInv'
<1> DEFINE i == req[h].row
<1>1. /\ UNCHANGED <<rows, tokens, issues>> /\ i \in DOMAIN rows
      /\ left' \in [Faults \cup {"request"} -> Nat] /\ left'["rpc"] <= left["rpc"]
  BY Locking DEF chain
<1>2. Grows(h)
  BY <1>1, StandingStill DEF TypeInv
<1>3. CASE End(h)
  <2>1. Others(h) /\ ~Due(h)'
    BY <1>3, Ending, IdleFields DEF TypeInv, Due
  <2>2. QED
    BY <1>1, <1>2, <2>1, KeptWithRows
<1>4. CASE ~End(h)
  <2>1. /\ Others(h) /\ ~req'[h].lost /\ req'[h].row = i /\ req'[h].token = rows[i].token
        /\ req'[h].stage = "deployTx" /\ Investable(i) => left'["rpc"] < left["rpc"]
    BY <1>4, Locking
  <2>2. MayDeploy(h)'
    <3>1. left["rpc"] \in Nat /\ left'["rpc"] \in Nat /\ Budget["rpc"] \in Nat
      BY <1>1, ListingsAssumption DEF TypeInv, Typed, Faults
    <3>2. left["rpc"] <= Budget["rpc"]
      BY DEF KeptInv
    <3>3. left'["rpc"] = Budget["rpc"] /\ Due(h)' => ~Investable(i)
      BY <1>1, <2>1, <3>1, <3>2 DEF Due
    <3>4. ~Investable(i) => ~Investable(req[h].row)'
      BY <1>1, <2>1 DEF Investable
    <3>5. QED
      BY <2>1, <3>3, <3>4 DEF MayDeploy
  <2>3. QED
    BY <1>1, <1>2, <2>1, <2>2, KeptStays
<1>5. QED
  BY <1>3, <1>4

LEMMA SentKeepsKept ==
  ASSUME TypeInv, KeptInv, NEW h \in Handlers, NEW ok \in BOOLEAN, Sent(h, ok)
  PROVE  KeptInv'
<1>1. /\ req[h].stage \in Sends /\ Grows(h) /\ UNCHANGED rows
      /\ Others(h) /\ req'[h].stage = After(req[h].stage)
      /\ req'[h].row = req[h].row /\ req'[h].lost = req[h].lost
      /\ req'[h].token = IF req[h].stage = "deployTx" THEN Len(tokens') ELSE req[h].token
      /\ left' \in [Faults \cup {"request"} -> Nat] /\ left'["rpc"] = left["rpc"]
  BY Answered DEF db
<1>2. req[h].row \in DOMAIN rows
  BY <1>1 DEF TypeInv, Typed, Fits, Sends, OnRow
<1>3. Due(h)' => Due(h)
  BY <1>1 DEF Due, After, Sends
<1>4. MayDeploy(h)'
  BY <1>1, <1>2, <1>3, StillInvestable DEF KeptInv, MayDeploy
<1>5. left'["rpc"] <= left["rpc"]
  BY <1>1 DEF TypeInv, Typed, Faults
<1>6. QED
  BY <1>1, <1>4, <1>5, KeptStays

LEMMA TimedOutKeepsKept ==
  ASSUME TypeInv, KeptInv, NEW h \in Handlers, TimedOut(h)
  PROVE  KeptInv'
<1>1. /\ req[h].stage \in Sends /\ Grows(h) /\ UNCHANGED rows
      /\ left' \in [Faults \cup {"request"} -> Nat] /\ left'["rpc"] = left["rpc"]
  BY Unanswered
<1>2. left'["rpc"] <= left["rpc"]
  BY <1>1 DEF TypeInv, Typed, Faults
<1>3. CASE End(h)
  <2>1. Others(h) /\ ~Due(h)'
    BY <1>3, Ending, IdleFields DEF TypeInv, Due
  <2>2. QED
    BY <1>1, <1>2, <2>1, KeptWithRows
<1>4. CASE ~End(h)
  <2>1. /\ Others(h) /\ req'[h].stage = req[h].stage /\ req'[h].token = req[h].token
        /\ req'[h].row = req[h].row /\ req'[h].lost = req[h].lost
    BY <1>4, Unanswered
  <2>2. req[h].row \in DOMAIN rows
    BY <1>1 DEF TypeInv, Typed, Fits, Sends, OnRow
  <2>3. Due(h)' => Due(h)
    BY <1>1, <2>1 DEF Due
  <2>4. MayDeploy(h)'
    BY <1>1, <2>1, <2>2, <2>3, StillInvestable DEF KeptInv, MayDeploy
  <2>5. QED
    BY <1>1, <1>2, <2>1, <2>4, KeptStays
<1>5. QED
  BY <1>3, <1>4

LEMMA InsertKeepsKept ==
  ASSUME TypeInv, KeptInv, NEW h \in Handlers, Insert(h)
  PROVE  KeptInv'
<1>1. /\ UNCHANGED <<tokens, issues, left>> /\ Others(h) /\ req'[h].stage = "lock"
      /\ (\E again \in BOOLEAN : rows' = Append(rows, NewRow(again))) \/ UNCHANGED rows
  BY Inserted DEF chain
<1>2. Grows(h) /\ left' \in [Faults \cup {"request"} -> Nat] /\ left'["rpc"] <= left["rpc"]
  BY <1>1, StandingStill DEF TypeInv, Typed, Faults
<1>3. \A i \in DOMAIN rows : rows'[i].token = rows[i].token
  BY <1>1, InsertedRows
<1>4. \A g \in Handlers : req[g].stage \in OnRow =>
         rows'[req[g].row].token = rows[req[g].row].token
  BY <1>3 DEF TypeInv, Typed, Fits
<1>5. MayDeploy(h)'
  BY <1>1 DEF MayDeploy, Due
<1>6. QED
  BY <1>1, <1>2, <1>4, <1>5, KeptStays

LEMMA WriteKeepsKept ==
  ASSUME TypeInv, KeptInv, NEW h \in Handlers, Write(h)
  PROVE  KeptInv'
<1>1. /\ UNCHANGED <<tokens, issues, left>> /\ Others(h) /\ req'[h].stage \in {"off", "lock"}
  BY Written DEF chain
<1>2. /\ req[h].stage = "write" /\ ~req[h].lost /\ req[h].row \in DOMAIN rows
      /\ \A j \in DOMAIN rows : j # req[h].row => rows'[j] = rows[j]
  BY WrittenRow
<1>3. Grows(h) /\ left' \in [Faults \cup {"request"} -> Nat] /\ left'["rpc"] <= left["rpc"]
  BY <1>1, StandingStill DEF TypeInv, Typed, Faults
<1>4. ASSUME NEW g \in Handlers, g # h, req[g].stage \in OnRow, ~req[g].lost
      PROVE  rows'[req[g].row].token = rows[req[g].row].token
  <2>1. req[h].row \in Ids /\ rowLock[req[h].row] = h
    BY <1>2, RowsAreIds DEF TypeInv, Locked, OnRow
  <2>2. req[g].row # req[h].row /\ req[g].row \in DOMAIN rows
    BY <1>4, <2>1 DEF TypeInv, Typed, Fits, Locked
  <2>3. QED
    BY <1>2, <2>2
<1>5. MayDeploy(h)'
  BY <1>1 DEF MayDeploy, Due
<1>6. QED
  BY <1>1, <1>3, <1>4, <1>5, KeptStays

LEMMA NextKeepsKept ==
  ASSUME TypeInv, KeptInv, [Next]_vars
  PROVE  KeptInv'
<1>1. CASE \E h \in Handlers, kind \in Kinds, i \in Ids \cup {0} : Start(h, kind, i)
  <2>1. PICK h \in Handlers, kind \in Kinds, i \in Ids \cup {0} : Start(h, kind, i)
    BY <1>1
  <2>2. /\ Others(h) /\ UNCHANGED <<rows, tokens, issues>> /\ Spend("request")
        /\ req'[h].stage \in {"enter", "lock"}
    BY <2>1, Starting DEF db, chain
  <2>3. Grows(h) /\ left' \in [Faults \cup {"request"} -> Nat] /\ left'["rpc"] <= left["rpc"]
    BY <2>2, StandingStill, Spending DEF TypeInv, Typed, Faults
  <2>4. ~Due(h)'
    BY <2>2 DEF Due
  <2>5. QED
    BY <2>2, <2>3, <2>4, KeptWithRows
<1>2. CASE \E h \in Handlers, ok \in BOOLEAN : Find(h, ok)
  <2>1. PICK h \in Handlers, ok \in BOOLEAN : Find(h, ok)
    BY <1>2
  <2>2. /\ UNCHANGED <<rows, tokens, issues>>
        /\ left' \in [Faults \cup {"request"} -> Nat] /\ left'["rpc"] <= left["rpc"]
        /\ Others(h) /\ req'[h].stage \in OnPayload
    BY <2>1, Finding DEF chain
  <2>3. ~Due(h)'
    BY <2>2 DEF Due, OnPayload
  <2>4. QED
    BY <2>2, <2>3, StandingStill, KeptWithRows DEF TypeInv
<1>3. CASE \E h \in Handlers : Insert(h)
  BY <1>3, InsertKeepsKept
<1>4. CASE \E h \in Handlers, ok \in BOOLEAN : LockRow(h, ok)
  BY <1>4, LockRowKeepsKept
<1>5. CASE \E h \in Handlers, ok \in BOOLEAN : Sent(h, ok)
  BY <1>5, SentKeepsKept
<1>6. CASE \E h \in Handlers : TimedOut(h) \/ Write(h)
  BY <1>6, TimedOutKeepsKept, WriteKeepsKept
<1>7. CASE \E h \in Handlers : LoseSession(h)
  <2>1. PICK h \in Handlers : LoseSession(h)
    BY <1>7
  <2>2. /\ Others(h) /\ UNCHANGED <<rows, tokens, issues>> /\ req'[h].lost
        /\ left' \in [Faults \cup {"request"} -> Nat] /\ left'["rpc"] = left["rpc"]
    BY <2>1, SessionLost DEF chain
  <2>3. left'["rpc"] <= left["rpc"]
    BY <2>2 DEF TypeInv, Typed, Faults
  <2>4. QED
    BY <2>2, <2>3, StandingStill, KeptWithRows DEF TypeInv
<1>8. CASE \E h \in Handlers : IssueReconciles(h) \/ Fail(h) \/ Finish(h) \/ Crash(h)
  <2>1. PICK h \in Handlers : IssueReconciles(h) \/ Fail(h) \/ Finish(h) \/ Crash(h)
    BY <1>8
  <2>2. /\ End(h) /\ UNCHANGED <<rows, tokens, issues>>
        /\ UNCHANGED left \/ Spend("crash")
    BY <2>1 DEF IssueReconciles, Fail, Finish, Crash, chain
  <2>3. left' \in [Faults \cup {"request"} -> Nat] /\ left'["rpc"] <= left["rpc"]
    BY <2>2, Spending DEF TypeInv, Typed, Faults
  <2>4. Others(h) /\ ~Due(h)'
    BY <2>2, Ending, IdleFields DEF TypeInv, Due
  <2>5. QED
    BY <2>2, <2>3, <2>4, StandingStill, KeptWithRows DEF TypeInv
<1>9. CASE (\E t \in Ids : Index(t)) \/ UNCHANGED vars
  <2>1. UNCHANGED <<rows, tokens, req, left>>
    BY <1>9 DEF Index, vars, db, chain
  <2>2. QED
    BY <2>1 DEF KeptInv, MayDeploy, Due, Investable
<1>10. QED
  BY <1>1, <1>2, <1>3, <1>4, <1>5, <1>6, <1>7, <1>8, <1>9 DEF Next, Step

(* Only a write changes the token of a row *)
LEMMA StepKeepsToken ==
  ASSUME TypeInv, KeptInv, Next, NEW i \in DOMAIN rows, Investable(i),
         left["rpc"] = Budget["rpc"]
  PROVE  rows'[i].token = rows[i].token
<1>1. CASE \E h \in Handlers : Write(h)
  <2>1. PICK h \in Handlers : Write(h)
    BY <1>1
  <2>2. /\ req[h].stage = "write" /\ ~req[h].lost
        /\ \A j \in DOMAIN rows : j # req[h].row => rows'[j] = rows[j]
        /\ rows'[req[h].row].token \in {rows[req[h].row].token, req[h].token}
    BY <2>1, WrittenRow
  <2>3. CASE i = req[h].row
    <3>1. ~Due(h)
      BY <2>2, <2>3 DEF KeptInv, MayDeploy
    <3>2. QED
      BY <2>2, <2>3, <3>1 DEF Due
  <2>4. QED
    BY <2>2, <2>3
<1>2. CASE \E h \in Handlers : Insert(h)
  BY <1>2, Inserted, InsertedRows
<1>3. CASE UNCHANGED rows
  BY <1>3
<1>4. UNCHANGED rows \/ \E h \in Handlers : Write(h) \/ Insert(h)
  BY DEF Next, Step, Start, Find, LockRow, Sent, IssueReconciles, Fail, Finish, TimedOut,
         LoseSession, Crash, Index, db
<1>5. QED
  BY <1>1, <1>2, <1>3, <1>4

(* As long as the node answers every check of a token, no step of any      *)
(* number of concurrent setups gives a listing that has its token another, *)
(* whatever sends time out or revert, sessions are lost and workers crash. *)
THEOREM ListingKeepsToken == Spec => TokenKept
<1>1. Init => KeptInv
  <2> SUFFICES ASSUME Init PROVE KeptInv
    OBVIOUS
  <2>1. left["rpc"] = Budget["rpc"] /\ Budget["rpc"] \in Nat
    BY ListingsAssumption DEF Init, Faults
  <2>2. \A h \in Handlers : ~Due(h)
    BY IdleFields DEF Init, Due
  <2>3. QED
    BY <2>1, <2>2 DEF KeptInv, MayDeploy
<1>2. TypeInv /\ KeptInv /\ [Next]_vars => KeptInv'
  BY NextKeepsKept
<1>3. TypeInv /\ KeptInv /\ [Next]_vars =>
        [\A i \in DOMAIN rows :
           Investable(i) /\ left["rpc"] = Budget["rpc"] => rows'[i].token = rows[i].token]_vars
  BY StepKeepsToken
<1>4. QED
  BY <1>1, <1>2, <1>3, TypeInvHolds, PTL DEF Spec, TokenKept
-------------------------------------------------------------------------------
(* A payload's later listings were inserted beside one that was found: a   *)
(* request that is to insert a row and has found none holds the payload's  *)
(* lock since then.                                                        *)
Alone(h) ==
  req[h].stage = "insert" /\ ~req[h].lost /\ req[h].row = 0 => Listed = {}

ListInv == OneListing /\ \A h \in Handlers : Alone(h)

LEMMA ListedShrinks ==
  ASSUME ListInv, NEW h \in Handlers, Others(h), Listed' \subseteq Listed,
         \A i \in Listed' : rows'[i].again = rows[i].again, Alone(h)'
  PROVE  ListInv'
<1>1. ASSUME NEW g \in Handlers
      PROVE  Alone(g)'
  BY DEF ListInv, Alone, Others
<1>2. OneListing'
  BY DEF ListInv, OneListing
<1>3. QED
  BY <1>1, <1>2 DEF ListInv

LEMMA ListedStays ==
  ASSUME ListInv, NEW h \in Handlers, Others(h), UNCHANGED rows,
         req'[h].stage # "insert" \/ req'[h].lost
  PROVE  ListInv'
<1>1. Listed' \subseteq Listed
  BY DEF Listed
<1>2. Alone(h)'
  BY DEF Alone
<1>3. QED
  BY <1>1, <1>2, ListedShrinks

LEMMA FindKeepsListInv ==
  ASSUME TypeInv, ListInv, NEW h \in Handlers, NEW ok \in BOOLEAN, Find(h, ok)
  PROVE  ListInv'
<1>1. UNCHANGED rows /\ Others(h) /\ req'[h].row = Found
  BY Finding
<1>2. Listed' = Listed
  BY <1>1 DEF Listed
<1>3. Alone(h)'
  BY <1>1, <1>2, FoundIsListed DEF Alone, TypeInv
<1>4. QED
  BY <1>1, <1>2, <1>3, ListedShrinks

LEMMA InsertKeepsListInv ==
  ASSUME TypeInv, ListInv, NEW h \in Handlers, Insert(h)
  PROVE  ListInv'
<1>1. /\ req[h].stage = "insert" /\ ~req[h].lost /\ Others(h)
      /\ \/ rows' = Append(rows, NewRow(req[h].row # 0))
         \/ UNCHANGED rows
      /\ req'[h].stage = "lock"
  BY Inserted
<1>2. CASE UNCHANGED rows
  BY <1>1, <1>2, ListedStays
<1>3. CASE rows' = Append(rows, NewRow(req[h].row # 0))
  <2> DEFINE n == Len(rows) + 1
  <2>1. /\ DOMAIN rows' = DOMAIN rows \cup {n}
        /\ \A i \in DOMAIN rows : rows'[i] = rows[i]
        /\ rows'[n].again = (req[h].row # 0)
    BY <1>3, InsertedRows
  <2>2. /\ DOMAIN rows = 1 .. Len(rows) /\ Len(rows) \in Nat
    BY RowsAreIds DEF TypeInv
  <2>3. Listed' \subseteq Listed \cup {n} /\ Listed \subseteq DOMAIN rows
    BY <2>1 DEF Listed
  <2>4. ASSUME NEW i \in Listed', NEW j \in Listed', i < j PROVE rows'[j].again
    <3>1. CASE j \in DOMAIN rows
      <4>1. i \in DOMAIN rows
        BY <2>2, <2>3, <2>4, <3>1
      <4>2. i \in Listed /\ j \in Listed
        BY <2>1, <3>1, <4>1 DEF Listed
      <4>3. QED
        BY <2>1, <2>4, <3>1, <4>2 DEF ListInv, OneListing
    <3>2. CASE j = n
      <4>1. i \in Listed
        BY <2>3, <2>4, <2>2, <3>2
      <4>2. req[h].row # 0
        BY <1>1, <4>1 DEF ListInv, Alone
      <4>3. QED
        BY <2>1, <3>2, <4>2
    <3>3. QED
      BY <2>3, <3>1, <3>2
  <2>5. ASSUME NEW g \in Handlers
        PROVE  Alone(g)'
    <3>1. createLock = h
      BY <1>1 DEF TypeInv, Locked, OnPayload
    <3>2. g # h => ~(req[g].stage = "insert" /\ ~req[g].lost)
      BY <3>1 DEF TypeInv, Locked, OnPayload
    <3>3. QED
      BY <1>1, <3>2 DEF Alone, Others
  <2>6. OneListing'
    BY <2>4 DEF OneListing
  <2>7. QED
    BY <2>5, <2>6 DEF ListInv
<1>4. QED
  BY <1>1, <1>2, <1>3

LEMMA WriteKeepsListInv ==
  ASSUME TypeInv, ListInv, NEW h \in Handlers, Write(h)
  PROVE  ListInv'
<1>1. Others(h) /\ req'[h].stage \in {"off", "lock"}
  BY Written
<1>2. Listed' \subseteq Listed /\ \A i \in Listed' : rows'[i].again = rows[i].again
  BY WrittenRow DEF Listed
<1>3. Alone(h)'
  BY <1>1 DEF Alone
<1>4. QED
  BY <1>1, <1>2, <1>3, ListedShrinks

LEMMA NextKeepsListInv ==
  ASSUME TypeInv, ListInv, [Next]_vars
  PROVE  ListInv'
<1>1. CASE \E h \in Handlers, kind \in Kinds, i \in Ids \cup {0} : Start(h, kind, i)
  <2>1. PICK h \in Handlers, kind \in Kinds, i \in Ids \cup {0} : Start(h, kind, i)
    BY <1>1
  <2>2. /\ Others(h) /\ UNCHANGED rows /\ req'[h].stage \in {"enter", "lock"}
    BY <2>1, Starting DEF db
  <2>3. QED
    BY <2>2, ListedStays
<1>2. CASE \E h \in Handlers, ok \in BOOLEAN : Find(h, ok)
  BY <1>2, FindKeepsListInv
<1>3. CASE \E h \in Handlers : Insert(h)
  BY <1>3, InsertKeepsListInv
<1>4. CASE \E h \in Handlers, ok \in BOOLEAN : LockRow(h, ok)
  <2>1. PICK h \in Handlers, ok \in BOOLEAN : LockRow(h, ok)
    BY <1>4
  <2>2. /\ UNCHANGED rows
        /\ \/ End(h)
           \/ /\ Others(h) /\ req'[h].stage \in {"deployTx", "mint", "write", "whitelist"}
    BY <2>1, Locking
  <2>3. Others(h) /\ req'[h].stage # "insert"
    BY <2>2, Ending, IdleFields DEF TypeInv
  <2>4. QED
    BY <2>2, <2>3, ListedStays
<1>5. CASE \E h \in Handlers, ok \in BOOLEAN : Sent(h, ok)
  <2>1. PICK h \in Handlers, ok \in BOOLEAN : Sent(h, ok)
    BY <1>5
  <2>2. /\ UNCHANGED rows /\ Others(h) /\ req'[h].stage # "insert"
    BY <2>1, Answered DEF db, After, Sends
  <2>3. QED
    BY <2>2, ListedStays
<1>6. CASE \E h \in Handlers : TimedOut(h)
  <2>1. PICK h \in Handlers : TimedOut(h)
    BY <1>6
  <2>2. /\ UNCHANGED rows /\ req[h].stage \in Sends
        /\ \/ End(h)
           \/ /\ Others(h) /\ req'[h].stage = req[h].stage
    BY <2>1, Unanswered
  <2>3. Others(h) /\ req'[h].stage # "insert"
    BY <2>2, Ending, IdleFields DEF TypeInv, Sends
  <2>4. QED
    BY <2>2, <2>3, ListedStays
<1>7. CASE \E h \in Handlers : Write(h)
  BY <1>7, WriteKeepsListInv
<1>8. CASE \E h \in Handlers : LoseSession(h)
  <2>1. PICK h \in Handlers : LoseSession(h)
    BY <1>8
  <2>2. Others(h) /\ UNCHANGED rows /\ req'[h].lost
    BY <2>1, SessionLost
  <2>3. QED
    BY <2>2, ListedStays
<1>9. CASE \E h \in Handlers : IssueReconciles(h) \/ Fail(h) \/ Finish(h) \/ Crash(h)
  <2>1. PICK h \in Handlers : IssueReconciles(h) \/ Fail(h) \/ Finish(h) \/ Crash(h)
    BY <1>9
  <2>2. End(h) /\ UNCHANGED rows
    BY <2>1 DEF IssueReconciles, Fail, Finish, Crash
  <2>3. QED
    BY <2>2, Ending, IdleFields, ListedStays DEF TypeInv
<1>10. CASE (\E t \in Ids : Index(t)) \/ UNCHANGED vars
  <2>1. UNCHANGED <<rows, req>>
    BY <1>10 DEF Index, vars, db
  <2>2. QED
    BY <2>1 DEF ListInv, OneListing, Alone, Listed
<1>11. QED
  BY <1>1, <1>2, <1>3, <1>4, <1>5, <1>6, <1>7, <1>8, <1>9, <1>10 DEF Next, Step

(* One owner's one payload has at most one listing, for any number of      *)
(* submissions of either route, resumed setups and deletions at once and   *)
(* whatever fails, but for those that a stream inserted beside a listing   *)
(* that it had found.                                                      *)
THEOREM OneListingPerPayload == Spec => []OneListing
<1>1. Init => ListInv
  BY IdleFields DEF Init, ListInv, OneListing, Listed, Alone
<1>2. TypeInv /\ ListInv /\ [Next]_vars => ListInv'
  BY NextKeepsListInv
<1>3. ListInv => OneListing
  BY DEF ListInv
<1>4. QED
  BY <1>1, <1>2, <1>3, TypeInvHolds, PTL DEF Spec
===============================================================================
