----------------------------- MODULE AuthProofs -----------------------------
(***************************************************************************)
(* Proofs about Auth, for any number of wallets, challenges and handlers:  *)
(* a challenge leads to one session, tokens agree with rows, display ids   *)
(* are unique, and Auth implements SignIn.                                 *)
(***************************************************************************)
EXTENDS Auth, TLAPS

(* What a request carries at each of its steps *)
Fits(q) ==
    q.step # "idle" =>
        /\ q.kind \in Kinds /\ q.wallet \in Wallets
        /\ q.kind # "lookup" /\ q.token = None => q.nonce \in Nonces
        /\ q.kind = "register" => q.token = None /\ q.role \in Roles
        /\ q.step \in {"look", "mark", "signature", "session"}
             => q.kind # "lookup" /\ q.token = None
        /\ q.step = "rename" => q.row # None /\ q.row.role = "admin"
        /\ q.step \in {"number", "write"} /\ q.row # None => q.row.role # "admin"
        /\ q.step = "write" => q.row # None
        /\ q.step \in {"write", "insert"} => q.num # None
        /\ q.step \in {"number", "session"} /\ q.row = None => q.kind = "register"
        /\ q.step = "insert" => q.kind = "register" /\ q.row = None

WellFormed == \A h \in Handlers : Fits(req[h])

(* The role a wallet has, in the words of today *)
RoleOf(w) == IF users[w] = None THEN None ELSE Canonical(users[w].role)

(* A row read before is still right about the role, though others write *)
RowsAgree ==
    \A h \in Handlers : req[h].row # None =>
        /\ req[h].wallet \in Wallets
        /\ Canonical(req[h].row.role) = RoleOf(req[h].wallet)

(* A registration that inserted its row finds that row when it ends *)
JoinedAgree ==
    \A h \in Handlers : At(h, "session") /\ req[h].row = None =>
        RoleOf(req[h].wallet) = Canonical(req[h].role)

(* A challenge that a request holds is its wallet's, still locked until it *)
(* is marked and spent from then on, and no other request holds it.        *)
HoldersOwn ==
    \A h \in Handlers, n \in Nonces : Holds(h, n) =>
        /\ nonces[n].wallet = req[h].wallet /\ req[h].wallet \in Wallets
        /\ nonces[n].state \in IF At(h, "mark") THEN {"pending", "expired"}
                                                ELSE {"used", "purged"}

OneHolder ==
    \A g, h \in Handlers, n \in Nonces : Holds(g, n) /\ Holds(h, n) => g = h

(* A challenge that led to a session is spent, and nobody holds it *)
SpentBySession ==
    \A s \in sessions :
        /\ nonces[s.nonce].state \in {"used", "purged"}
        /\ \A h \in Handlers : ~Holds(h, s.nonce)

OffersAreWallets == \A n \in Nonces : nonces[n].state # "none" => nonces[n].wallet \in Wallets

ChallengesHold == OffersAreWallets /\ HoldersOwn /\ OneHolder /\ SpentBySession /\ NonceOnce

IInv == /\ TypeOK /\ WellFormed
        /\ RowsAgree /\ JoinedAgree /\ SessionsAgree /\ DisplayIdsUnique
        /\ ChallengesHold
-----------------------------------------------------------------------------
LEMMA IdleFits == Idle \in Requests /\ Fits(Idle)
  BY DEF Idle, Requests, Fits, Steps

LEMMA OneRequest ==
    ASSUME req \in [Handlers -> Requests], WellFormed,
           NEW h \in Handlers, NEW q \in Requests, Fits(q), req' = [req EXCEPT ![h] = q]
    PROVE  req' \in [Handlers -> Requests] /\ WellFormed'
  BY DEF WellFormed

(* A request arrives without a row, and without holding its challenge *)
Fresh(q) == q.row = None /\ q.step # "session" /\ (q.step = "look" \/ q.nonce = None)

LEMMA ArriveBegins ==
    ASSUME IInv, NEW h \in Handlers, Arrive(h)
    PROVE  \E q \in Requests : Fits(q) /\ Fresh(q) /\ Begin(h, q)
<1>1. ASSUME NEW w \in Wallets, NEW n \in Issued, NEW signed \in BOOLEAN,
             Verify(h, w, n, signed)
      PROVE  \E q \in Requests : Fits(q) /\ Fresh(q) /\ Begin(h, q)
  BY <1>1 DEF Verify, Issued, Idle, Requests, Fits, Steps, Kinds, Fresh
<1>2. ASSUME NEW w \in Wallets, NEW n \in Issued, NEW role \in Roles,
             Register(h, w, n, role)
      PROVE  \E q \in Requests : Fits(q) /\ Fresh(q) /\ Begin(h, q)
  BY <1>2 DEF Register, Issued, Idle, Requests, Fits, Steps, Kinds, Fresh
<1>3. ASSUME NEW w \in Wallets, Lookup(h, w)
      PROVE  \E q \in Requests : Fits(q) /\ Fresh(q) /\ Begin(h, q)
  BY <1>3 DEF Lookup, Idle, Requests, Fits, Steps, Kinds, Fresh
<1>4. ASSUME NEW s \in live, Call(h, s)
      PROVE  \E w \in Wallets : Lookup(h, w)
  BY <1>4 DEF Call, IInv, TypeOK, Sessions
<1>5. QED
  BY <1>1, <1>2, <1>3, <1>4 DEF Arrive

LEMMA ArriveTyped ==
    ASSUME IInv, NEW h \in Handlers, Arrive(h)
    PROVE  TypeOK' /\ WellFormed'
  BY ArriveBegins, OneRequest DEF IInv, TypeOK, Begin

(* What follows a complete row fits *)
LEMMA LoadedTyped ==
    ASSUME IInv, NEW h \in Handlers, NEW row \in Rows, ~At(h, "idle"), Loaded(h, row)
    PROVE  req' \in [Handlers -> Requests] /\ WellFormed'
<1> req[h] \in Requests /\ Fits(req[h]) /\ req \in [Handlers -> Requests] /\ row # None
  BY AuthAssumption DEF IInv, TypeOK, WellFormed
<1>1. CASE req[h].kind = "verify" /\ req[h].token = None
  <2> DEFINE q == [req[h] EXCEPT !.step = "session", !.row = row, !.num = None]
  <2>1. q \in Requests
    BY DEF Requests, Steps
  <2>2. Fits(q)
    BY <1>1 DEF Fits, Requests, At, Kinds
  <2>3. req' = [req EXCEPT ![h] = q]
    BY <1>1 DEF Loaded
  <2>4. QED
    BY <2>1, <2>2, <2>3, OneRequest DEF IInv
<1>2. CASE ~(req[h].kind = "verify" /\ req[h].token = None)
  BY <1>2, IdleFits, OneRequest DEF Loaded, End, IInv
<1>3. QED
  BY <1>1, <1>2

LEMMA EndTyped ==
    ASSUME IInv, NEW h \in Handlers, End(h)
    PROVE  req' \in [Handlers -> Requests] /\ WellFormed'
  BY IdleFits, OneRequest DEF End, IInv, TypeOK

LEMMA NextIdIsTyped ==
    ASSUME TypeOK, NEW h \in Handlers, req[h].num \in Numbers,
           req[h].row = None => req[h].role \in Roles,
           req[h].row # None => req[h].row.role # "admin"
    PROVE  NewId(h) \in Ids
  BY AuthAssumption DEF NewId, NewRole, TypeOK, Requests, Ids, Rows

(* The row that a request read is still there *)
LEMMA RowThere ==
    ASSUME IInv, NEW h \in Handlers, req[h].row # None
    PROVE  req[h].wallet \in Wallets /\ users[req[h].wallet] \in Rows
<1>1. req[h].row \in Rows
  BY DEF IInv, TypeOK, Requests
<1>2. Canonical(req[h].row.role) \in Roles
  BY <1>1, AuthAssumption DEF Canonical, Rows
<1>3. req[h].wallet \in Wallets /\ RoleOf(req[h].wallet) \in Roles
  BY <1>2 DEF IInv, RowsAgree
<1>4. users[req[h].wallet] # None
  BY <1>3, AuthAssumption DEF RoleOf
<1>5. QED
  BY <1>3, <1>4 DEF IInv, TypeOK

(* A session has the values of its type when it is issued *)
LEMMA SessionTyped ==
    ASSUME IInv, NEW h \in Handlers, At(h, "session")
    PROVE  [nonce |-> req[h].nonce, by |-> h, wallet |-> req[h].wallet,
            role |-> Canonical(NewRole(h))] \in Sessions
<1>1. req[h] \in Requests /\ Fits(req[h])
  BY DEF IInv, TypeOK, WellFormed
<1>2. req[h].nonce \in Nonces /\ req[h].wallet \in Wallets
  BY <1>1 DEF Fits, At
<1>3. CASE req[h].row = None
  <2>1. req[h].role \in Roles
    BY <1>1, <1>3 DEF Fits, At
  <2>2. QED
    BY <1>2, <1>3, <2>1, AuthAssumption DEF NewRole, Canonical, Sessions
<1>4. CASE req[h].row # None
  <2>1. req[h].row \in Rows
    BY <1>1, <1>4 DEF Requests
  <2>2. QED
    BY <1>2, <1>4, <2>1, AuthAssumption DEF NewRole, Canonical, Sessions, Rows
<1>5. QED
  BY <1>3, <1>4

(* Requests stay well-formed at every step they take *)
LEMMA ServeTyped ==
    ASSUME IInv, NEW h \in Handlers, Serve(h)
    PROVE  TypeOK' /\ WellFormed'
<1> USE DEF At
<1>0. /\ req[h] \in Requests /\ Fits(req[h]) /\ req \in [Handlers -> Requests] /\ TypeOK
      /\ users \in [Wallets -> Rows \cup {None}] /\ WellFormed
  BY DEF IInv, TypeOK, WellFormed
<1>1. CASE Look(h)
  <2> DEFINE q == [req[h] EXCEPT !.step = "mark"]
  <2>1. q \in Requests /\ Fits(q)
    BY <1>0, <1>1 DEF Look, Fits, Requests, Steps
  <2>2. req' = [req EXCEPT ![h] = q] \/ End(h)
    BY <1>0, <1>1 DEF Look, Goto
  <2>3. QED
    BY <1>0, <1>1, <2>1, <2>2, OneRequest, EndTyped DEF Look, TypeOK
<1>2. CASE Mark(h)
  <2> DEFINE q == [req[h] EXCEPT !.step = "signature"]
  <2>1. q \in Requests /\ Fits(q)
    BY <1>0, <1>2 DEF Mark, Fits, Requests, Steps
  <2>2. req' = [req EXCEPT ![h] = q]
    BY <1>0, <1>2 DEF Mark, Goto
  <2>3. req' \in [Handlers -> Requests] /\ WellFormed'
    BY <1>0, <2>1, <2>2, OneRequest
  <2>4. QED
    BY <1>0, <1>2, <2>3 DEF Mark, TypeOK
<1>3. CASE CheckSignature(h)
  <2> DEFINE q == [req[h] EXCEPT !.step = "read", !.signed = FALSE]
  <2>1. q \in Requests /\ Fits(q)
    BY <1>0, <1>3 DEF CheckSignature, Fits, Requests, Steps
  <2>2. req' = [req EXCEPT ![h] = q] \/ End(h)
    BY <1>0, <1>3 DEF CheckSignature
  <2>3. req' \in [Handlers -> Requests] /\ WellFormed'
    BY <1>0, <2>1, <2>2, OneRequest, EndTyped
  <2>4. QED
    BY <1>0, <1>3, <2>3 DEF CheckSignature, TypeOK
<1>4. CASE Read(h)
  <2> DEFINE row == users[req[h].wallet]
             q(step) == [req[h] EXCEPT !.step = step, !.row = row]
  <2>0. row \in Rows \cup {None} /\ req[h].wallet \in Wallets
    BY <1>0, <1>4 DEF Read, Fits
  <2>1. CASE row = None
    <3>1. CASE req[h].kind = "register"
      <4>1. q("number") \in Requests /\ Fits(q("number"))
        BY <1>0, <1>4, <2>0, <2>1, <3>1 DEF Read, Fits, Requests, Steps
      <4>2. req' = [req EXCEPT ![h] = q("number")]
        BY <1>0, <1>4, <2>1, <3>1 DEF Read
      <4>3. QED
        BY <1>0, <4>1, <4>2, OneRequest, <1>4 DEF Read, TypeOK
    <3>2. CASE req[h].kind # "register"
      BY <1>0, <1>4, <2>1, <3>2, EndTyped DEF Read, TypeOK
    <3>3. QED
      BY <3>1, <3>2
  <2>2. CASE row # None /\ row.role = "admin"
    <3>1. q("rename") \in Requests /\ Fits(q("rename"))
      BY <1>0, <1>4, <2>0, <2>2 DEF Read, Fits, Requests, Steps
    <3>2. req' = [req EXCEPT ![h] = q("rename")]
      BY <1>0, <1>4, <2>2 DEF Read
    <3>3. QED
      BY <1>0, <3>1, <3>2, OneRequest, <1>4 DEF Read, TypeOK
  <2>3. CASE row # None /\ row.role # "admin" /\ row.id = None
    <3>1. q("number") \in Requests /\ Fits(q("number"))
      BY <1>0, <1>4, <2>0, <2>3, ZenonT(60) DEF Read, Fits, Requests, Steps
    <3>2. req' = [req EXCEPT ![h] = q("number")]
      BY <1>0, <1>4, <2>3 DEF Read
    <3>3. QED
      BY <1>0, <3>1, <3>2, OneRequest, <1>4 DEF Read, TypeOK
  <2>4. CASE row # None /\ row.role # "admin" /\ row.id # None
    <3>1. Loaded(h, row)
      BY <1>4, <2>4 DEF Read
    <3>2. QED
      BY <1>0, <3>1, <2>0, <2>4, LoadedTyped, <1>4 DEF Read, TypeOK
  <2>5. QED
    BY <2>1, <2>2, <2>3, <2>4
<1>5. CASE Rename(h)
  <2> DEFINE row == [req[h].row EXCEPT !.role = "property_owner"]
             q == [req[h] EXCEPT !.step = "number", !.row = row]
  <2>0. req[h].row \in Rows /\ row \in Rows /\ row # None /\ row.role # "admin"
        /\ req[h].wallet \in Wallets
    BY <1>0, <1>5, AuthAssumption DEF Rename, Fits, Requests, Rows
  <2>1. q \in Requests /\ Fits(q)
    BY <1>0, <1>5, <2>0 DEF Rename, Fits, Requests, Steps
  <2>2. req' = [req EXCEPT ![h] = q] \/ Loaded(h, row)
    BY <1>0, <1>5 DEF Rename
  <2>3. req' \in [Handlers -> Requests] /\ WellFormed'
    BY <1>0, <1>5, <2>0, <2>1, <2>2, OneRequest, LoadedTyped DEF Rename
  <2>4. users' \in [Wallets -> Rows \cup {None}]
    <3>1. users[req[h].wallet] \in Rows
      BY <1>0, <2>0, RowThere, AuthAssumption
    <3>2. [users[req[h].wallet] EXCEPT !.role = "property_owner"] \in Rows
      BY <3>1, AuthAssumption DEF Rows
    <3>3. QED
      BY <1>0, <1>5, <3>2 DEF Rename
  <2>5. QED
    BY <1>0, <1>5, <2>3, <2>4 DEF Rename, TypeOK
<1>6. CASE Number(h)
  <2>1. PICK n \in Numbers :
          req' = [req EXCEPT ![h].step = IF req[h].row = None THEN "insert" ELSE "write",
                             ![h].num = n]
    BY <1>6 DEF Number
  <2> DEFINE q == [req[h] EXCEPT !.step = IF req[h].row = None THEN "insert" ELSE "write",
                                 !.num = n]
  <2>2. q \in Requests /\ Fits(q)
    BY <1>0, <1>6, AuthAssumption DEF Number, Fits, Requests, Steps
  <2>3. req' = [req EXCEPT ![h] = q]
    BY <1>0, <2>1
  <2>4. req' \in [Handlers -> Requests] /\ WellFormed'
    BY <1>0, <2>2, <2>3, OneRequest
  <2>5. QED
    BY <1>0, <1>6, <2>4 DEF Number, TypeOK
<1>7. CASE Write(h)
  <2> DEFINE row == [req[h].row EXCEPT !.id = NewId(h)]
  <2>0. req[h].row \in Rows /\ req[h].row # None /\ req[h].num \in Numbers
        /\ req[h].row.role # "admin"
    BY <1>0, <1>7, AuthAssumption DEF Write, Fits, Requests
  <2>1. NewId(h) \in Ids
    BY <1>0, <2>0, NextIdIsTyped
  <2>2. row \in Rows
    BY <2>0, <2>1 DEF Rows
  <2>3. req' \in [Handlers -> Requests] /\ WellFormed'
    BY <1>0, <1>7, <2>2, EndTyped, LoadedTyped DEF Write
  <2>4. users' \in [Wallets -> Rows \cup {None}]
    <3>1. users[req[h].wallet] \in Rows
      BY <1>0, <2>0, RowThere
    <3>2. [users[req[h].wallet] EXCEPT !.id = NewId(h)] \in Rows
      BY <3>1, <2>1 DEF Rows
    <3>3. QED
      BY <1>0, <1>7, <3>2 DEF Write
  <2>5. QED
    BY <1>0, <1>7, <2>3, <2>4 DEF Write, TypeOK
<1>8. CASE Insert(h)
  <2>0. req[h].num \in Numbers /\ req[h].row = None /\ req[h].role \in Roles
        /\ req[h].wallet \in Wallets
    BY <1>0, <1>8, AuthAssumption DEF Insert, Fits, Requests
  <2>1. NewId(h) \in Ids
    BY <1>0, <2>0, NextIdIsTyped
  <2> DEFINE q == [req[h] EXCEPT !.step = "session", !.num = None]
  <2>2. q \in Requests /\ Fits(q)
    <3>1. /\ q \in Requests /\ q.step = "session" /\ q.kind = req[h].kind
          /\ q.wallet = req[h].wallet /\ q.nonce = req[h].nonce /\ q.token = req[h].token
          /\ q.row = req[h].row /\ q.role = req[h].role
      BY <1>0 DEF Requests, Steps
    <3>2. req[h].step = "insert"
      BY <1>8 DEF Insert
    <3> HIDE DEF q
    <3>3. QED
      BY <1>0, <2>0, <3>1, <3>2 DEF Fits
  <2>3. req' = [req EXCEPT ![h] = q] \/ End(h)
    BY <1>0, <1>8 DEF Insert
  <2>4. req' \in [Handlers -> Requests] /\ WellFormed'
    BY <1>0, <2>2, <2>3, OneRequest, EndTyped
  <2>5. [role |-> req[h].role, id |-> NewId(h)] \in Rows
    BY <2>0, <2>1 DEF Rows
  <2>6. users' \in [Wallets -> Rows \cup {None}]
    BY <1>0, <1>8, <2>0, <2>5 DEF Insert
  <2>7. QED
    BY <1>0, <1>8, <2>4, <2>6 DEF Insert, TypeOK
<1>9. CASE IssueSession(h)
  <2> DEFINE s == [nonce |-> req[h].nonce, by |-> h, wallet |-> req[h].wallet,
                   role |-> Canonical(NewRole(h))]
             q == [req[h] EXCEPT !.step = "read", !.nonce = None, !.row = None, !.token = s]
  <2>1. s \in Sessions
    BY <1>0, <1>9, SessionTyped DEF IssueSession
  <2>2. CASE req[h].kind = "verify"
    <3>1. q \in Requests /\ Fits(q)
      BY <1>0, <1>9, <2>1, <2>2, AuthAssumption DEF IssueSession, Fits, Requests, Steps
    <3>2. req' = [req EXCEPT ![h] = q]
      BY <1>0, <1>9, <2>2 DEF IssueSession
    <3>3. req' \in [Handlers -> Requests] /\ WellFormed'
      BY <1>0, <3>1, <3>2, OneRequest
    <3>4. QED
      BY <1>0, <1>9, <3>3, <2>1 DEF IssueSession, TypeOK
  <2>3. CASE req[h].kind # "verify"
    BY <1>0, <1>9, <2>1, <2>3, EndTyped DEF IssueSession, TypeOK
  <2>4. QED
    BY <2>2, <2>3
<1>10. QED
  BY <1>1, <1>2, <1>3, <1>4, <1>5, <1>6, <1>7, <1>8, <1>9 DEF Serve

LEMMA AbandonTyped ==
    ASSUME IInv, NEW S \in SUBSET Handlers, Abandon(S)
    PROVE  TypeOK' /\ WellFormed'
  BY IdleFits DEF IInv, TypeOK, WellFormed, Abandon

LEMMA SeeWalletTyped ==
    ASSUME IInv, NEW w \in Wallets, SeeWallet(w)
    PROVE  TypeOK' /\ WellFormed'
<1>1. [role |-> "investor", id |-> None] \in Rows
  BY AuthAssumption DEF Rows
<1>2. QED
  BY <1>1 DEF IInv, TypeOK, WellFormed, SeeWallet

LEMMA ChallengeTyped ==
    ASSUME IInv,
           \/ \E w \in Wallets, n \in Nonces : IssueNonce(w, n)
           \/ \E n \in Nonces : Expire(n)
    PROVE  TypeOK' /\ WellFormed'
<1> DEFINE States == {"none", "pending", "expired", "used", "purged"}
<1>0. nonces \in [Nonces -> [state : States, wallet : Wallets \cup {None}]]
  BY DEF IInv, TypeOK
<1>1. nonces' \in [Nonces -> [state : States, wallet : Wallets \cup {None}]]
  <2>1. CASE \E n \in Nonces : Expire(n)
    BY <1>0, <2>1 DEF Expire
  <2>2. ASSUME NEW w \in Wallets, NEW n \in Nonces, IssueNonce(w, n)
        PROVE  nonces' \in [Nonces -> [state : States, wallet : Wallets \cup {None}]]
    BY <1>0, <2>2 DEF IssueNonce
  <2>3. QED
    BY <2>1, <2>2
<1>2. UNCHANGED <<users, sessions, live, req>>
  BY DEF IssueNonce, Expire
<1>3. QED
  BY <1>1, <1>2 DEF IInv, TypeOK, WellFormed

LEMMA NextTyped ==
    ASSUME IInv, Next
    PROVE  TypeOK' /\ WellFormed'
<1>1. ASSUME NEW h \in Handlers, Fail(h)
      PROVE  TypeOK' /\ WellFormed'
  BY <1>1, AbandonTyped DEF Fail
<1>2. ASSUME NEW s \in live, Revoke(s)
      PROVE  TypeOK' /\ WellFormed'
  BY <1>2 DEF IInv, TypeOK, WellFormed, Revoke
<1>3. CASE Restart
  BY <1>3, AbandonTyped DEF Restart
<1>4. QED
  BY <1>1, <1>2, <1>3, ArriveTyped, ServeTyped, SeeWalletTyped, ChallengeTyped DEF Next
-----------------------------------------------------------------------------
LEMMA UsersChange ==
    ASSUME Next
    PROVE  \/ \E h \in Handlers : Rename(h) \/ Write(h) \/ Insert(h)
           \/ \E v \in Wallets : SeeWallet(v)
           \/ users' = users
  BY DEF Next, Arrive, Serve, Verify, Register, Lookup, Call, Begin, Look, Mark, CheckSignature,
         Read, Number, IssueSession, Fail, Restart, Abandon, IssueNonce, Expire, Revoke

(* A wallet that has a role keeps it *)
LEMMA RolesKept ==
    ASSUME IInv, Next, NEW w \in Wallets, RoleOf(w) # None
    PROVE  RoleOf(w)' = RoleOf(w)
<1>0. users \in [Wallets -> Rows \cup {None}] /\ users[w] # None
  BY DEF IInv, TypeOK, RoleOf
<1>1. ASSUME NEW h \in Handlers, Rename(h)
      PROVE  RoleOf(w)' = RoleOf(w)
  <2>1. req[h].row # None /\ req[h].row.role = "admin"
    BY <1>1 DEF IInv, WellFormed, Fits, Rename, At
  <2>2. RoleOf(req[h].wallet) = "property_owner" /\ req[h].wallet \in Wallets
    BY <2>1 DEF IInv, RowsAgree, Canonical
  <2>3. users[req[h].wallet] \in Rows
    BY <2>1, RowThere
  <2>4. CASE w = req[h].wallet
    <3>1. users'[w] = [users[w] EXCEPT !.role = "property_owner"]
      BY <1>0, <1>1, <2>4 DEF Rename
    <3>2. users'[w] \in Rows /\ users'[w].role = "property_owner"
      BY <3>1, <2>3, <2>4, AuthAssumption DEF Rows
    <3>3. QED
      BY <3>2, <2>2, <2>4, AuthAssumption DEF RoleOf, Canonical
  <2>5. CASE w # req[h].wallet
    BY <1>0, <1>1, <2>5 DEF Rename, RoleOf
  <2>6. QED
    BY <2>4, <2>5
<1>2. ASSUME NEW h \in Handlers, Write(h)
      PROVE  RoleOf(w)' = RoleOf(w)
  <2>1. users[w] \in Rows
    BY <1>0
  <2>2. users'[w] = users[w] \/ users'[w] = [users[w] EXCEPT !.id = NewId(h)]
    BY <1>0, <1>2 DEF Write
  <2>3. [users[w] EXCEPT !.id = NewId(h)].role = users[w].role
    BY <2>1 DEF Rows
  <2>4. NewId(h) \in Ids
    <3>1. req[h].row \in Rows /\ req[h].row # None /\ req[h].num \in Numbers
          /\ req[h].row.role # "admin"
      BY <1>2, AuthAssumption DEF IInv, TypeOK, WellFormed, Write, At, Fits, Requests
    <3>2. QED
      BY <3>1, NextIdIsTyped DEF IInv
  <2>5. [users[w] EXCEPT !.id = NewId(h)] \in Rows
    BY <2>1, <2>4 DEF Rows
  <2>6. QED
    BY <1>0, <2>2, <2>3, <2>5, AuthAssumption DEF RoleOf
<1>3. ASSUME NEW h \in Handlers, Insert(h)
      PROVE  RoleOf(w)' = RoleOf(w)
  BY <1>0, <1>3 DEF Insert, WalletFree, RoleOf
<1>4. ASSUME NEW v \in Wallets, SeeWallet(v)
      PROVE  RoleOf(w)' = RoleOf(w)
  BY <1>0, <1>4 DEF SeeWallet, RoleOf
<1>5. QED
  BY <1>1, <1>2, <1>3, <1>4, UsersChange DEF RoleOf

LEMMA LoadedRow ==
    ASSUME IInv, NEW h \in Handlers, NEW row, Loaded(h, row)
    PROVE  \/ req'[h].row = None /\ req'[h].step = "idle"
           \/ req'[h].row = row /\ req'[h].wallet = req[h].wallet
<1>1. req \in [Handlers -> Requests] /\ req[h] \in Requests
  BY DEF IInv, TypeOK
<1>2. CASE req[h].kind = "verify" /\ req[h].token = None
  BY <1>1, <1>2 DEF Loaded, Requests
<1>3. CASE ~(req[h].kind = "verify" /\ req[h].token = None)
  BY <1>1, <1>3 DEF Loaded, End, Idle
<1>4. QED
  BY <1>2, <1>3

(* Where the row comes from that a request holds after a step of its own *)
LEMMA RowRead ==
    ASSUME IInv, NEW h \in Handlers, Read(h) \/ Rename(h) \/ Write(h)
    PROVE  \/ req'[h].row = None
           \/ /\ req'[h].wallet = req[h].wallet /\ req[h].wallet \in Wallets
              /\ req'[h].row \in Rows /\ Canonical(req'[h].row.role) = RoleOf(req[h].wallet)
<1>0. req \in [Handlers -> Requests] /\ req[h] \in Requests /\ Fits(req[h])
  BY DEF IInv, TypeOK, WellFormed
<1>1. req[h].wallet \in Wallets /\ users[req[h].wallet] \in Rows \cup {None}
  BY <1>0 DEF Read, Rename, Write, At, Fits, IInv, TypeOK
<1>2. CASE Read(h)
  <2>1. CASE users[req[h].wallet] = None
    <3>1. req' = [req EXCEPT ![h].step = "number", ![h].row = None] \/ End(h)
      BY <1>2, <2>1 DEF Read
    <3>2. QED
      BY <1>0, <3>1 DEF End, Idle, Requests
  <2>2. CASE users[req[h].wallet] # None
    <3>1. \/ req'[h].row = None
          \/ req'[h].row = users[req[h].wallet] /\ req'[h].wallet = req[h].wallet
      BY <1>0, <1>2, <2>2, LoadedRow DEF Read, Requests
    <3>2. QED
      BY <1>1, <2>2, <3>1 DEF RoleOf
  <2>3. QED
    BY <2>1, <2>2
<1>3. CASE Rename(h)
  <2> DEFINE row == [req[h].row EXCEPT !.role = "property_owner"]
  <2>1. req[h].row \in Rows /\ req[h].row # None /\ req[h].row.role = "admin"
    BY <1>0, <1>3 DEF Rename, At, Fits, Requests
  <2>2. row \in Rows /\ row.role = "property_owner"
    BY <2>1, AuthAssumption DEF Rows
  <2>3. RoleOf(req[h].wallet) = "property_owner"
    BY <2>1 DEF IInv, RowsAgree, Canonical
  <2>4. \/ req'[h].row = None
        \/ req'[h].row = row /\ req'[h].wallet = req[h].wallet
    BY <1>0, <1>3, LoadedRow DEF Rename, Requests
  <2>5. QED
    BY <1>1, <2>2, <2>3, <2>4 DEF Canonical
<1>4. CASE Write(h)
  <2> DEFINE row == [req[h].row EXCEPT !.id = NewId(h)]
  <2>1. req[h].row \in Rows /\ req[h].row # None /\ req[h].num \in Numbers
        /\ req[h].row.role # "admin"
    BY <1>0, <1>4 DEF Write, At, Fits, Requests
  <2>2. NewId(h) \in Ids
    BY <2>1, NextIdIsTyped DEF IInv
  <2>3. row \in Rows /\ row.role = req[h].row.role
    BY <2>1, <2>2 DEF Rows
  <2>4. Canonical(row.role) = RoleOf(req[h].wallet)
    BY <2>1, <2>3 DEF IInv, RowsAgree
  <2>5. \/ req'[h].row = None
        \/ req'[h].row = row /\ req'[h].wallet = req[h].wallet
    BY <1>0, <1>4, LoadedRow DEF Write, End, Idle
  <2>6. QED
    BY <1>1, <2>3, <2>4, <2>5
<1>5. QED
  BY <1>2, <1>3, <1>4

LEMMA RowChange ==
    ASSUME IInv, Next, NEW g \in Handlers
    PROVE  \/ req'[g].row = None
           \/ req'[g].row = req[g].row /\ req'[g].wallet = req[g].wallet
           \/ Read(g) \/ Rename(g) \/ Write(g)
<1>0. req \in [Handlers -> Requests] /\ req[g] \in Requests
  BY DEF IInv, TypeOK
<1>1. ASSUME NEW h \in Handlers, NEW q, Begin(h, q), q.row = None
      PROVE  req'[g].row = None \/ req'[g] = req[g]
  BY <1>0, <1>1 DEF Begin
<1>2. ASSUME NEW h \in Handlers, Arrive(h)
      PROVE  req'[g].row = None \/ req'[g] = req[g]
  <2>1. \E q : Begin(h, q) /\ q.row = None
    BY <1>2, ArriveBegins DEF Fresh
  <2>2. QED
    BY <1>1, <2>1
<1>3. ASSUME NEW h \in Handlers, Serve(h), h # g
      PROVE  req'[g] = req[g]
  BY <1>0, <1>3 DEF Serve, Look, Mark, CheckSignature, Read, Rename, Number, Write, Insert,
                    IssueSession, Loaded, Goto, End
<1>4. ASSUME Look(g) \/ Mark(g) \/ CheckSignature(g) \/ Number(g) \/ Insert(g) \/ IssueSession(g)
      PROVE  req'[g].row = None \/ (req'[g].row = req[g].row /\ req'[g].wallet = req[g].wallet)
  <2>1. CASE Look(g) \/ Mark(g) \/ CheckSignature(g)
    BY <1>0, <2>1 DEF Look, Mark, CheckSignature, Goto, End, Idle, Requests
  <2>2. CASE Number(g)
    BY <1>0, <2>2 DEF Number, Requests
  <2>3. CASE Insert(g)
    BY <1>0, <2>3 DEF Insert, End, Idle, Requests
  <2>4. CASE IssueSession(g)
    BY <1>0, <2>4 DEF IssueSession, End, Idle, Requests
  <2>5. QED
    BY <1>4, <2>1, <2>2, <2>3, <2>4
<1>5. ASSUME NEW S, Abandon(S)
      PROVE  req'[g].row = None \/ req'[g] = req[g]
  BY <1>0, <1>5 DEF Abandon, Idle
<1>6. CASE UNCHANGED req
  BY <1>6
<1>7. QED
  BY <1>2, <1>3, <1>4, <1>5, <1>6 DEF Next, Serve, Fail, Restart, IssueNonce, Expire, Revoke,
                                      SeeWallet

LEMMA RowsStillAgree ==
    ASSUME IInv, Next
    PROVE  RowsAgree'
<1> SUFFICES ASSUME NEW g \in Handlers, req'[g].row # None
             PROVE  /\ req'[g].wallet \in Wallets
                    /\ Canonical(req'[g].row.role) = RoleOf(req[g].wallet)'
  BY DEF RowsAgree
<1>1. /\ req'[g].wallet \in Wallets
      /\ \A w \in Wallets : w = req'[g].wallet => Canonical(req'[g].row.role) = RoleOf(w)
      /\ req'[g].row \in Rows
  <2>1. CASE req'[g].row = req[g].row /\ req'[g].wallet = req[g].wallet
    <3>1. req[g].row \in Rows
      BY <2>1 DEF IInv, TypeOK, Requests
    <3>2. QED
      BY <2>1, <3>1 DEF IInv, RowsAgree
  <2>2. CASE Read(g) \/ Rename(g) \/ Write(g)
    BY <2>2, RowRead
  <2>3. QED
    BY <2>1, <2>2, RowChange
<1>2. PICK w \in Wallets : w = req'[g].wallet
  BY <1>1
<1>3. RoleOf(w) = Canonical(req'[g].row.role) /\ RoleOf(w) # None
  BY <1>1, <1>2, AuthAssumption DEF Canonical, Rows
<1>4. RoleOf(w)' = RoleOf(w)
  BY <1>3, RolesKept
<1>5. QED
  BY <1>2, <1>3, <1>4 DEF RoleOf

LEMMA SessionStep ==
    ASSUME IInv, Next, NEW g \in Handlers, req'[g].step = "session", req'[g].row = None
    PROVE  req'[g] = req[g] \/ Insert(g)
<1>0. req \in [Handlers -> Requests] /\ req[g] \in Requests /\ Fits(req[g])
  BY DEF IInv, TypeOK, WellFormed
<1>1. ASSUME NEW h \in Handlers, Arrive(h)
      PROVE  req'[g] = req[g]
  BY <1>0, <1>1, ArriveBegins DEF Begin, Fresh
<1>2. ASSUME NEW h \in Handlers, Serve(h), h # g
      PROVE  req'[g] = req[g]
  BY <1>0, <1>2 DEF Serve, Look, Mark, CheckSignature, Read, Rename, Number, Write, Insert,
                    IssueSession, Loaded, Goto, End
<1>3. ASSUME Look(g) \/ Mark(g) \/ CheckSignature(g) \/ Number(g) \/ IssueSession(g)
      PROVE  FALSE
  BY <1>0, <1>3 DEF Look, Mark, CheckSignature, Number, IssueSession, Goto, End, Idle, Requests
<1>4. ASSUME Read(g)
      PROVE  FALSE
  <2>1. CASE users[req[g].wallet] = None
    <3>1. req' = [req EXCEPT ![g].step = "number", ![g].row = None] \/ End(g)
      BY <1>4, <2>1 DEF Read
    <3>2. QED
      BY <1>0, <3>1 DEF End, Idle, Requests
  <2>2. CASE users[req[g].wallet] # None
    BY <1>0, <1>4, <2>2, LoadedRow DEF Read, Requests
  <2>3. QED
    BY <2>1, <2>2
<1>5. ASSUME Rename(g) \/ Write(g)
      PROVE  FALSE
  <2>1. req[g].row \in Rows
    BY <1>0, <1>5 DEF Rename, Write, At, Fits, Requests
  <2>2. CASE Rename(g)
    <3>1. [req[g].row EXCEPT !.role = "property_owner"] \in Rows
      BY <2>1, AuthAssumption DEF Rows
    <3>2. QED
      BY <1>0, <2>2, <3>1, LoadedRow, AuthAssumption DEF Rename, Requests
  <2>3. CASE Write(g)
    <3>1. NewId(g) \in Ids
      BY <1>0, <2>1, <2>3, AuthAssumption, NextIdIsTyped DEF Write, At, Fits, Requests, IInv
    <3>2. [req[g].row EXCEPT !.id = NewId(g)] \in Rows
      BY <2>1, <3>1 DEF Rows
    <3>3. QED
      BY <1>0, <2>3, <3>2, LoadedRow, AuthAssumption DEF Write, End, Idle
  <2>4. QED
    BY <1>5, <2>2, <2>3
<1>6. ASSUME NEW S, Abandon(S)
      PROVE  req'[g] = req[g]
  BY <1>0, <1>6 DEF Abandon, Idle
<1>7. CASE UNCHANGED req
  BY <1>7
<1>8. QED
  BY <1>1, <1>2, <1>3, <1>4, <1>5, <1>6, <1>7
     DEF Next, Serve, Fail, Restart, IssueNonce, Expire, Revoke, SeeWallet

LEMMA JoinedStillAgree ==
    ASSUME IInv, Next
    PROVE  JoinedAgree'
<1> SUFFICES ASSUME NEW g \in Handlers, req'[g].step = "session", req'[g].row = None
             PROVE  RoleOf(req[g].wallet)' = Canonical(req'[g].role)
  BY DEF JoinedAgree, At
<1>0. req \in [Handlers -> Requests] /\ req[g] \in Requests /\ Fits(req[g])
  BY DEF IInv, TypeOK, WellFormed
<1>1. CASE req'[g] = req[g]
  <2>1. req[g].role \in Roles /\ req[g].wallet \in Wallets
    BY <1>0, <1>1 DEF Fits
  <2>2. RoleOf(req[g].wallet) = Canonical(req[g].role)
    BY <1>1 DEF IInv, JoinedAgree, At
  <2>3. PICK w \in Wallets : w = req[g].wallet
    BY <2>1
  <2>4. RoleOf(w)' = RoleOf(w)
    BY <2>1, <2>2, <2>3, RolesKept, AuthAssumption DEF Canonical
  <2>5. QED
    BY <1>1, <2>2, <2>3, <2>4 DEF RoleOf
<1>2. CASE Insert(g)
  <2>1. req[g].role \in Roles /\ req[g].wallet \in Wallets /\ req[g].num \in Numbers
        /\ req[g].row = None
    BY <1>0, <1>2 DEF Insert, At, Fits, Requests
  <2>2. NewId(g) \in Ids
    BY <2>1, NextIdIsTyped DEF IInv
  <2> DEFINE row == [role |-> req[g].role, id |-> NewId(g)]
  <2>3. row \in Rows
    BY <2>1, <2>2 DEF Rows
  <2>4. users'[req[g].wallet] = row /\ req'[g].role = req[g].role
        /\ req'[g].wallet = req[g].wallet
    BY <1>0, <1>2, <2>1 DEF Insert, End, Idle, IInv, TypeOK, Requests
  <2>5. QED
    BY <2>3, <2>4, AuthAssumption DEF RoleOf
<1>3. QED
  BY <1>1, <1>2, SessionStep

(* The role that a session is issued with is the role the wallet has *)
LEMMA IssuedRole ==
    ASSUME IInv, NEW h \in Handlers, At(h, "session")
    PROVE  Canonical(NewRole(h)) = RoleOf(req[h].wallet)
<1>1. CASE req[h].row = None
  BY <1>1 DEF IInv, JoinedAgree, NewRole
<1>2. CASE req[h].row # None
  BY <1>2 DEF IInv, RowsAgree, NewRole
<1>3. QED
  BY <1>1, <1>2

LEMMA AgreeIsRole ==
    ASSUME IInv
    PROVE  \A s \in sessions : s.wallet \in Wallets /\ s.role \in Roles /\ RoleOf(s.wallet) = s.role
  BY DEF IInv, TypeOK, Sessions, SessionsAgree, RoleOf

LEMMA SessionsStillAgree ==
    ASSUME IInv, Next
    PROVE  SessionsAgree'
<1> SUFFICES ASSUME NEW s \in sessions'
             PROVE  users'[s.wallet] # None /\ Canonical(users'[s.wallet].role) = s.role
  BY DEF SessionsAgree
<1>1. s.wallet \in Wallets /\ s.role \in Roles /\ RoleOf(s.wallet) = s.role
  <2>1. CASE s \in sessions
    BY <2>1, AgreeIsRole
  <2>2. CASE s \notin sessions
    <3>1. PICK h \in Handlers : IssueSession(h)
      BY <2>2 DEF Next, Arrive, Serve, Verify, Register, Lookup, Call, Begin, Look, Mark,
                  CheckSignature, Read, Rename, Number, Write, Insert, Fail, Restart, Abandon,
                  IssueNonce, Expire, Revoke, SeeWallet
    <3>2. s = [nonce |-> req[h].nonce, by |-> h, wallet |-> req[h].wallet,
               role |-> Canonical(NewRole(h))]
      BY <2>2, <3>1 DEF IssueSession
    <3>3. s \in Sessions
      BY <3>1, <3>2, SessionTyped DEF IssueSession
    <3>4. QED
      BY <3>1, <3>2, <3>3, IssuedRole DEF IssueSession, Sessions
  <2>3. QED
    BY <2>1, <2>2
<1>2. PICK w \in Wallets : w = s.wallet
  BY <1>1
<1>3. RoleOf(w)' = s.role
  BY <1>1, <1>2, RolesKept, AuthAssumption
<1>4. QED
  BY <1>1, <1>2, <1>3, AuthAssumption DEF RoleOf

LEMMA DisplayIdsStillUnique ==
    ASSUME IInv, Next
    PROVE  DisplayIdsUnique'
<1>0. users \in [Wallets -> Rows \cup {None}] /\ DisplayIdsUnique
  BY DEF IInv, TypeOK
<1>1. ASSUME NEW u \in Wallets, NEW id,
             id \in Ids => IdFree(u, id),
             \A w \in Wallets \ {u} : users'[w] = users[w],
             users'[u] # None => users'[u].id = id
      PROVE  DisplayIdsUnique'
  BY <1>0, <1>1 DEF DisplayIdsUnique, HasId, IdFree
<1>2. ASSUME NEW h \in Handlers, Rename(h)
      PROVE  DisplayIdsUnique'
  <2>1. req[h].row # None
    BY <1>2 DEF IInv, WellFormed, Fits, Rename, At
  <2>2. req[h].wallet \in Wallets /\ users[req[h].wallet] \in Rows
    BY <2>1, RowThere
  <2> DEFINE u == req[h].wallet
  <2>3. users'[u] = [users[u] EXCEPT !.role = "property_owner"]
        /\ \A w \in Wallets \ {u} : users'[w] = users[w]
    BY <1>0, <1>2, <2>2 DEF Rename
  <2>4. users'[u].id = users[u].id
    BY <2>2, <2>3 DEF Rows
  <2>5. users[u].id \in Ids => IdFree(u, users[u].id)
    BY <1>0, <2>2, AuthAssumption DEF DisplayIdsUnique, HasId, IdFree
  <2>6. QED
    BY <1>1, <2>2, <2>3, <2>4, <2>5
<1>3. ASSUME NEW h \in Handlers, Write(h)
      PROVE  DisplayIdsUnique'
  <2>1. req[h].row # None
    BY <1>3 DEF IInv, WellFormed, Fits, Write, At
  <2>2. req[h].wallet \in Wallets /\ users[req[h].wallet] \in Rows
    BY <2>1, RowThere
  <2>3. CASE IdFree(req[h].wallet, NewId(h))
    <3>1. users'[req[h].wallet] = [users[req[h].wallet] EXCEPT !.id = NewId(h)]
          /\ \A w \in Wallets \ {req[h].wallet} : users'[w] = users[w]
      BY <1>0, <1>3, <2>2, <2>3 DEF Write
    <3>2. users'[req[h].wallet].id = NewId(h)
      BY <2>2, <3>1 DEF Rows
    <3>3. QED
      BY <1>1, <2>2, <2>3, <3>1, <3>2
  <2>4. CASE ~IdFree(req[h].wallet, NewId(h))
    BY <1>0, <1>3, <2>4 DEF Write, DisplayIdsUnique, HasId
  <2>5. QED
    BY <2>3, <2>4
<1>4. ASSUME NEW h \in Handlers, Insert(h)
      PROVE  DisplayIdsUnique'
  <2>1. CASE users' = users
    BY <1>0, <2>1 DEF DisplayIdsUnique, HasId
  <2>2. CASE users' # users
    <3>1. req[h].wallet \in Wallets /\ IdFree(req[h].wallet, NewId(h))
      BY <1>4, <2>2 DEF Insert, IInv, WellFormed, Fits, At
    <3>2. users'[req[h].wallet].id = NewId(h)
          /\ \A w \in Wallets \ {req[h].wallet} : users'[w] = users[w]
      BY <1>0, <1>4, <2>2, <3>1 DEF Insert
    <3>3. QED
      BY <1>1, <3>1, <3>2
  <2>3. QED
    BY <2>1, <2>2
<1>5. ASSUME NEW v \in Wallets, SeeWallet(v)
      PROVE  DisplayIdsUnique'
  <2>1. users'[v].id = None /\ \A w \in Wallets \ {v} : users'[w] = users[w]
    BY <1>0, <1>5 DEF SeeWallet
  <2>2. QED
    BY <1>1, <2>1, AuthAssumption
<1>6. CASE users' = users
  BY <1>0, <1>6 DEF DisplayIdsUnique, HasId
<1>7. \/ \E h \in Handlers : Rename(h) \/ Write(h) \/ Insert(h)
      \/ \E v \in Wallets : SeeWallet(v)
      \/ users' = users
  BY UsersChange
<1>8. QED
  BY <1>2, <1>3, <1>4, <1>5, <1>6, <1>7
-----------------------------------------------------------------------------
(* The steps that touch neither challenges nor sessions *)
QuietStep ==
    \/ \E h \in Handlers : \/ Arrive(h) \/ CheckSignature(h) \/ Read(h) \/ Rename(h)
                           \/ Number(h) \/ Write(h) \/ Insert(h) \/ Fail(h)
    \/ \E s \in live : Revoke(s)
    \/ \E w \in Wallets : SeeWallet(w)
    \/ Restart

(* A request holds afterwards only what it held before, in the same way *)
StillHeld(h) ==
    \A n \in Nonces : Holds(h, n)' =>
        /\ Holds(h, n) /\ req'[h].wallet = req[h].wallet
        /\ req'[h].step = "mark" <=> req[h].step = "mark"

LEMMA EndHolds ==
    ASSUME TypeOK, NEW h \in Handlers, req'[h] = Idle
    PROVE  StillHeld(h)
  BY DEF StillHeld, Holds, Idle

LEMMA LoadedHolds ==
    ASSUME TypeOK, NEW h \in Handlers, NEW row, Loaded(h, row),
           req[h].step \in {"read", "rename", "write"}
    PROVE  StillHeld(h)
<1>1. req \in [Handlers -> Requests] /\ req[h] \in Requests
  BY DEF TypeOK
<1>2. CASE req[h].kind = "verify" /\ req[h].token = None
  BY <1>1, <1>2 DEF Loaded, StillHeld, Holds, Requests
<1>3. CASE ~(req[h].kind = "verify" /\ req[h].token = None)
  BY <1>1, <1>3, EndHolds DEF Loaded, End
<1>4. QED
  BY <1>2, <1>3

LEMMA ReadHolds ==
    ASSUME IInv, NEW h \in Handlers, Read(h)
    PROVE  StillHeld(h)
<1>0. req \in [Handlers -> Requests] /\ req[h] \in Requests /\ req[h].step = "read" /\ TypeOK
  BY DEF IInv, TypeOK, Read, At
<1> DEFINE hold(step) == req' = [req EXCEPT ![h].step = step, ![h].row = users[req[h].wallet]]
<1>1. hold("number") \/ hold("rename") \/ End(h) \/ Loaded(h, users[req[h].wallet])
  BY DEF Read
<1>2. CASE hold("number") \/ hold("rename")
  BY <1>0, <1>2 DEF StillHeld, Holds, Requests
<1>3. CASE End(h)
  BY <1>0, <1>3, EndHolds DEF End
<1>4. QED
  BY <1>0, <1>1, <1>2, <1>3, LoadedHolds

LEMMA QuietHolds ==
    ASSUME IInv, QuietStep, NEW g \in Handlers
    PROVE  UNCHANGED <<nonces, sessions>> /\ StillHeld(g)
<1>0. req \in [Handlers -> Requests] /\ req[g] \in Requests /\ TypeOK
  BY DEF IInv, TypeOK
<1>1. ASSUME req'[g] = req[g]
      PROVE  StillHeld(g)
  BY <1>1 DEF StillHeld, Holds
<1>2. ASSUME NEW h \in Handlers, Arrive(h)
      PROVE  UNCHANGED <<nonces, sessions>> /\ StillHeld(g)
  <2>1. PICK q \in Requests : Fresh(q) /\ Begin(h, q)
    BY <1>2, ArriveBegins
  <2>2. CASE g = h
    BY <1>0, <2>1, <2>2, AuthAssumption DEF Begin, Fresh, StillHeld, Holds
  <2>3. QED
    BY <1>0, <1>1, <2>1, <2>2 DEF Begin
<1>3. ASSUME NEW h \in Handlers,
             CheckSignature(h) \/ Read(h) \/ Rename(h) \/ Number(h) \/ Write(h) \/ Insert(h), h # g
      PROVE  req'[g] = req[g]
  BY <1>0, <1>3 DEF CheckSignature, Read, Rename, Number, Write, Insert, Loaded, End
<1>4. ASSUME CheckSignature(g)
      PROVE  StillHeld(g)
  <2>1. CASE req' = [req EXCEPT ![g].step = "read", ![g].signed = FALSE]
    BY <1>0, <1>4, <2>1 DEF CheckSignature, At, StillHeld, Holds, Requests
  <2>2. QED
    BY <1>0, <1>4, <2>1, EndHolds DEF CheckSignature, End
<1>5. ASSUME Rename(g)
      PROVE  StillHeld(g)
  <2> DEFINE row == [req[g].row EXCEPT !.role = "property_owner"]
  <2>1. CASE req' = [req EXCEPT ![g].step = "number", ![g].row = row]
    BY <1>0, <1>5, <2>1 DEF Rename, At, StillHeld, Holds, Requests
  <2>2. QED
    BY <1>0, <1>5, <2>1, LoadedHolds DEF Rename, At
<1>6. ASSUME Number(g)
      PROVE  StillHeld(g)
  <2>1. PICK n \in Numbers :
          req' = [req EXCEPT ![g].step = IF req[g].row = None THEN "insert" ELSE "write",
                             ![g].num = n]
    BY <1>6 DEF Number
  <2>2. req[g].step = "number"
    BY <1>6 DEF Number, At
  <2>3. QED
    BY <1>0, <2>1, <2>2 DEF StillHeld, Holds, Requests
<1>7. ASSUME Write(g)
      PROVE  StillHeld(g)
  BY <1>0, <1>7, EndHolds, LoadedHolds DEF Write, At, End
<1>8. ASSUME Insert(g)
      PROVE  StillHeld(g)
  <2>1. CASE req' = [req EXCEPT ![g].step = "session", ![g].num = None]
    BY <1>0, <1>8, <2>1 DEF Insert, At, StillHeld, Holds, Requests
  <2>2. QED
    BY <1>0, <1>8, <2>1, EndHolds DEF Insert, End
<1>9. ASSUME NEW S, Abandon(S)
      PROVE  UNCHANGED <<nonces, sessions>> /\ StillHeld(g)
  BY <1>0, <1>1, <1>9, EndHolds DEF Abandon
<1>10. CASE UNCHANGED <<nonces, sessions, req>>
  BY <1>1, <1>10
<1>11. ASSUME NEW h \in Handlers,
              CheckSignature(h) \/ Read(h) \/ Rename(h) \/ Number(h) \/ Write(h) \/ Insert(h)
       PROVE  UNCHANGED <<nonces, sessions>> /\ StillHeld(g)
  <2>1. UNCHANGED <<nonces, sessions>>
    BY <1>11 DEF CheckSignature, Read, Rename, Number, Write, Insert
  <2>2. QED
    BY <2>1, <1>1, <1>3, <1>4, <1>5, <1>6, <1>7, <1>8, <1>11, ReadHolds
<1>12. QED
  BY <1>2, <1>9, <1>10, <1>11 DEF QuietStep, Fail, Restart, Revoke, SeeWallet

LEMMA QuietKeeps ==
    ASSUME IInv, QuietStep
    PROVE  ChallengesHold'
<1>1. nonces' = nonces /\ sessions' = sessions
  BY QuietHolds DEF QuietStep, Restart, Abandon, Revoke, SeeWallet
<1>2. \A h \in Handlers : StillHeld(h)
  BY QuietHolds
<1>3. OffersAreWallets /\ HoldersOwn /\ OneHolder /\ SpentBySession /\ NonceOnce
      /\ sessions \subseteq Sessions
  BY DEF IInv, ChallengesHold, TypeOK
<1>4. OffersAreWallets' /\ NonceOnce'
  BY <1>1, <1>3 DEF OffersAreWallets, NonceOnce
<1>5. HoldersOwn'
  BY <1>1, <1>2, <1>3 DEF HoldersOwn, StillHeld, At
<1>6. OneHolder'
  BY <1>2, <1>3 DEF OneHolder, StillHeld
<1>7. SpentBySession'
  BY <1>1, <1>2, <1>3 DEF SpentBySession, StillHeld, Sessions
<1>8. QED
  BY <1>4, <1>5, <1>6, <1>7 DEF ChallengesHold

LEMMA LookKeeps ==
    ASSUME IInv, NEW h \in Handlers, Look(h)
    PROVE  ChallengesHold'
<1>0. /\ req \in [Handlers -> Requests] /\ req[h] \in Requests /\ Fits(req[h])
      /\ OffersAreWallets /\ HoldersOwn /\ OneHolder /\ SpentBySession /\ NonceOnce
      /\ sessions \subseteq Sessions
  BY DEF IInv, TypeOK, WellFormed, ChallengesHold
<1>1. UNCHANGED <<nonces, sessions>> /\ \A g \in Handlers \ {h} : req'[g] = req[g]
  BY <1>0 DEF Look, Goto, End
<1>2. CASE End(h)
  <2>1. \A g \in Handlers : StillHeld(g)
    BY <1>0, <1>1, <1>2 DEF End, Idle, StillHeld, Holds
  <2>2. HoldersOwn' /\ OneHolder'
    BY <1>0, <1>1, <2>1 DEF HoldersOwn, OneHolder, StillHeld, At
  <2>3. SpentBySession'
    BY <1>0, <1>1, <2>1 DEF SpentBySession, StillHeld, Sessions
  <2>4. QED
    BY <1>0, <1>1, <2>2, <2>3 DEF ChallengesHold, OffersAreWallets, NonceOnce
<1>3. CASE ~End(h)
  <2> DEFINE n == req[h].nonce
  <2>1. /\ Pending(req[h].wallet, n) /\ RowFree(n) /\ req[h].step = "look"
        /\ req' = [req EXCEPT ![h].step = "mark"]
    BY <1>3 DEF Look, Goto, At
  <2>2. n \in Nonces /\ req[h].wallet \in Wallets
    BY <1>0, <2>1 DEF Fits
  <2>3. nonces[n].state = "pending" /\ nonces[n].wallet = req[h].wallet
    BY <2>1 DEF Pending
  <2>4. \A g \in Handlers : ~Holds(g, n)
    BY <1>0, <2>1, <2>2, <2>3 DEF HoldersOwn, RowFree, At, Holds
  <2>5. /\ req'[h].step = "mark" /\ req'[h].wallet = req[h].wallet /\ req'[h].nonce = n
    BY <1>0, <2>1 DEF Requests
  <2>6. \A g \in Handlers, m \in Nonces : Holds(g, m)' => (Holds(g, m) /\ g # h) \/ (g = h /\ m = n)
    BY <1>1, <2>5 DEF Holds
  <2>7. HoldersOwn'
    BY <1>0, <1>1, <2>2, <2>3, <2>5, <2>6 DEF HoldersOwn, At
  <2>8. OneHolder'
    BY <1>0, <2>4, <2>6 DEF OneHolder
  <2>9. SpentBySession'
    <3> SUFFICES ASSUME NEW s \in sessions
                 PROVE  /\ nonces[s.nonce].state \in {"used", "purged"}
                        /\ \A g \in Handlers : ~Holds(g, s.nonce)'
      BY <1>1 DEF SpentBySession
    <3>1. nonces[s.nonce].state \in {"used", "purged"} /\ s.nonce \in Nonces /\ s.nonce # n
      BY <1>0, <2>3 DEF SpentBySession, Sessions
    <3>2. QED
      BY <1>0, <2>6, <3>1 DEF SpentBySession
  <2>10. QED
    BY <1>0, <1>1, <2>7, <2>8, <2>9 DEF ChallengesHold, OffersAreWallets, NonceOnce
<1>4. QED
  BY <1>2, <1>3

LEMMA MarkKeeps ==
    ASSUME IInv, NEW h \in Handlers, Mark(h)
    PROVE  ChallengesHold'
<1>0. /\ req \in [Handlers -> Requests] /\ req[h] \in Requests /\ Fits(req[h])
      /\ OffersAreWallets /\ HoldersOwn /\ OneHolder /\ SpentBySession /\ NonceOnce
      /\ sessions \subseteq Sessions /\ TypeOK
  BY DEF IInv, TypeOK, WellFormed, ChallengesHold
<1> DEFINE n == req[h].nonce
<1>1. n \in Nonces /\ req[h].wallet \in Wallets /\ req[h].token = None
      /\ req[h].step = "mark"
  BY <1>0 DEF Mark, At, Fits
<1>2. Holds(h, n)
  BY <1>1 DEF Holds
<1>3. /\ sessions' = sessions /\ req' = [req EXCEPT ![h].step = "signature"]
      /\ nonces' = [nonces EXCEPT ![n].state = "used"]
  BY DEF Mark, Goto
<1>4. /\ nonces'[n].state = "used" /\ nonces'[n].wallet = nonces[n].wallet
      /\ \A m \in Nonces \ {n} : nonces'[m] = nonces[m]
  BY <1>0, <1>1, <1>3 DEF TypeOK
<1>5. /\ \A g \in Handlers \ {h} : req'[g] = req[g]
      /\ req'[h].step = "signature" /\ req'[h].wallet = req[h].wallet
      /\ req'[h].nonce = n /\ req'[h].token = None
  BY <1>0, <1>1, <1>3 DEF Requests
<1>6. \A g \in Handlers, m \in Nonces : Holds(g, m)' <=> Holds(g, m)
  BY <1>1, <1>5 DEF Holds
<1>7. \A g \in Handlers \ {h} : ~Holds(g, n)
  BY <1>0, <1>1, <1>2 DEF OneHolder
<1>8. HoldersOwn'
  <2> SUFFICES ASSUME NEW g \in Handlers, NEW m \in Nonces, Holds(g, m)
               PROVE  /\ nonces'[m].wallet = req'[g].wallet /\ req'[g].wallet \in Wallets
                      /\ nonces'[m].state \in IF req'[g].step = "mark" THEN {"pending", "expired"}
                                                                      ELSE {"used", "purged"}
    BY <1>6 DEF HoldersOwn, At
  <2>1. CASE g = h
    BY <1>0, <1>1, <1>4, <1>5, <2>1 DEF HoldersOwn, Holds
  <2>2. CASE g # h
    BY <1>0, <1>4, <1>5, <1>7, <2>2 DEF HoldersOwn, At
  <2>3. QED
    BY <2>1, <2>2
<1>9. OneHolder'
  BY <1>0, <1>6 DEF OneHolder
<1>10. SpentBySession'
  BY <1>0, <1>2, <1>3, <1>4, <1>6 DEF SpentBySession, Sessions
<1>11. OffersAreWallets'
  BY <1>0, <1>1, <1>2, <1>4 DEF OffersAreWallets, HoldersOwn
<1>12. QED
  BY <1>0, <1>3, <1>8, <1>9, <1>10, <1>11 DEF ChallengesHold, NonceOnce

(* Challenges that change where no request holds them *)
LEMMA OfferKeeps ==
    ASSUME IInv,
           \/ \E w \in Wallets, n \in Nonces : IssueNonce(w, n)
           \/ \E n \in Nonces : Expire(n)
    PROVE  ChallengesHold'
<1>0. /\ OffersAreWallets /\ HoldersOwn /\ OneHolder /\ SpentBySession /\ NonceOnce
      /\ sessions \subseteq Sessions
      /\ nonces \in [Nonces -> [state : {"none", "pending", "expired", "used", "purged"},
                               wallet : Wallets \cup {None}]]
  BY DEF IInv, TypeOK, ChallengesHold
<1>1. sessions' = sessions /\ req' = req
  BY DEF IssueNonce, Expire
<1>2. \A m \in Nonces :
        /\ nonces'[m].state # "none" => nonces'[m].wallet \in Wallets
        /\ nonces[m].state # "none" => nonces'[m].wallet = nonces[m].wallet
        /\ nonces[m].state \in {"used", "purged"} => nonces'[m].state \in {"used", "purged"}
        /\ nonces[m].state \in {"pending", "expired"} /\ ~RowFree(m)
             => nonces'[m].state \in {"pending", "expired"}
  <2>1. ASSUME NEW n \in Nonces, Expire(n), NEW m \in Nonces
        PROVE  /\ nonces'[m] = nonces[m] \/ nonces'[m] = [nonces[m] EXCEPT !.state = "expired"]
               /\ nonces[m].state # "pending" => nonces'[m] = nonces[m]
    BY <1>0, <2>1 DEF Expire
  <2>2. ASSUME NEW w \in Wallets, NEW n \in Nonces, IssueNonce(w, n), NEW m \in Nonces, m # n
        PROVE  \/ nonces'[m] = nonces[m]
               \/ /\ nonces'[m] = [nonces[m] EXCEPT !.state = "purged"]
                  /\ nonces[m].state \in {"expired", "used"} /\ RowFree(m)
    <3>1. nonces'[m] = IF m \in Stale(w) THEN [nonces[m] EXCEPT !.state = "purged"]
                                         ELSE nonces[m]
      BY <2>2 DEF IssueNonce
    <3>2. m \in Stale(w) => RowFree(m)
      BY <2>2 DEF IssueNonce
    <3>3. m \in Stale(w) => nonces[m].state \in {"expired", "used"}
      BY DEF Stale
    <3>4. CASE m \in Stale(w)
      <4>1. nonces'[m] = [nonces[m] EXCEPT !.state = "purged"]
        BY <3>1, <3>4
      <4>2. RowFree(m) /\ nonces[m].state \in {"expired", "used"}
        BY <3>2, <3>3, <3>4
      <4>3. QED
        BY <4>1, <4>2
    <3>5. CASE m \notin Stale(w)
      BY <3>1, <3>5
    <3>6. QED
      BY <3>4, <3>5
  <2>6. ASSUME NEW w \in Wallets, NEW n \in Nonces, IssueNonce(w, n)
        PROVE  nonces[n].state = "none" /\ nonces'[n] = [state |-> "pending", wallet |-> w]
    <3>1. nonces[n].state = "none"
      BY <2>6 DEF IssueNonce
    <3>2. n \notin Stale(w)
      BY <3>1 DEF Stale
    <3>3. QED
      BY <2>6, <3>1, <3>2 DEF IssueNonce
  <2>3. CASE \E n \in Nonces : Expire(n)
    BY <1>0, <2>1, <2>3 DEF OffersAreWallets
  <2>4. CASE \E w \in Wallets, n \in Nonces : IssueNonce(w, n)
    <3>1. PICK w \in Wallets, n \in Nonces : IssueNonce(w, n)
      BY <2>4
    <3>2. TAKE m \in Nonces
    <3>a. nonces[m].state \in {"none", "pending", "expired", "used", "purged"}
          /\ nonces[m] \in [state : {"none", "pending", "expired", "used", "purged"},
                             wallet : Wallets \cup {None}]
      BY <1>0
    <3>3. CASE m = n
      <4>1. nonces[m].state = "none" /\ nonces'[m] = [state |-> "pending", wallet |-> w]
        BY <2>6, <3>1, <3>3
      <4>2. nonces'[m].wallet = w
        BY <4>1
      <4>3. QED
        BY <4>1, <4>2
    <3>4. CASE m # n
      <4>1. \/ nonces'[m] = nonces[m]
            \/ /\ nonces'[m] = [nonces[m] EXCEPT !.state = "purged"]
               /\ nonces[m].state \in {"expired", "used"} /\ RowFree(m)
        BY <2>2, <3>1, <3>4
      <4>2. CASE nonces'[m] = nonces[m]
        BY <1>0, <4>2 DEF OffersAreWallets
      <4>3. CASE /\ nonces'[m] = [nonces[m] EXCEPT !.state = "purged"]
                 /\ nonces[m].state \in {"expired", "used"} /\ RowFree(m)
        <5>1. nonces'[m].state = "purged" /\ nonces'[m].wallet = nonces[m].wallet
          BY <3>a, <4>3
        <5>2. QED
          BY <1>0, <4>3, <5>1 DEF OffersAreWallets
      <4>4. QED
        BY <4>1, <4>2, <4>3
    <3>5. QED
      BY <3>3, <3>4
  <2>5. QED
    BY <2>3, <2>4
<1>3. \A h \in Handlers, n \in Nonces : Holds(h, n)' <=> Holds(h, n)
  BY <1>1 DEF Holds
<1>4. HoldersOwn'
  <2> SUFFICES ASSUME NEW h \in Handlers, NEW n \in Nonces, Holds(h, n)
               PROVE  /\ nonces'[n].wallet = req[h].wallet /\ req[h].wallet \in Wallets
                      /\ nonces'[n].state \in IF At(h, "mark") THEN {"pending", "expired"}
                                                               ELSE {"used", "purged"}
    BY <1>1, <1>3 DEF HoldersOwn, At
  <2>1. /\ nonces[n].wallet = req[h].wallet /\ req[h].wallet \in Wallets
        /\ nonces[n].state \in IF At(h, "mark") THEN {"pending", "expired"} ELSE {"used", "purged"}
    BY <1>0 DEF HoldersOwn
  <2>2. At(h, "mark") => ~RowFree(n)
    BY DEF RowFree, Holds
  <2>3. QED
    BY <1>2, <2>1, <2>2
<1>5. OneHolder'
  BY <1>0, <1>3 DEF OneHolder
<1>6. SpentBySession'
  BY <1>0, <1>1, <1>2, <1>3 DEF SpentBySession, Sessions
<1>7. QED
  BY <1>0, <1>1, <1>2, <1>4, <1>5, <1>6 DEF ChallengesHold, OffersAreWallets, NonceOnce

(* A session releases its challenge, and no other *)
LEMMA SessionReleases ==
    ASSUME IInv, NEW h \in Handlers, IssueSession(h)
    PROVE  /\ req[h].nonce \in Nonces /\ Holds(h, req[h].nonce)
           /\ \A g \in Handlers \ {h} : req'[g] = req[g]
           /\ \A g \in Handlers, m \in Nonces :
                Holds(g, m)' <=> Holds(g, m) /\ g # h /\ m # req[h].nonce
<1>0. req \in [Handlers -> Requests] /\ req[h] \in Requests /\ Fits(req[h]) /\ OneHolder
  BY DEF IInv, TypeOK, WellFormed, ChallengesHold
<1> DEFINE n == req[h].nonce
           s == [nonce |-> n, by |-> h, wallet |-> req[h].wallet, role |-> Canonical(NewRole(h))]
<1>1. /\ n \in Nonces /\ req[h].token = None /\ req[h].step = "session"
  BY <1>0 DEF IssueSession, At, Fits
<1>2. Holds(h, n)
  BY <1>1 DEF Holds
<1>3. /\ \A g \in Handlers \ {h} : req'[g] = req[g]
      /\ req'[h].nonce = None
  <2>1. \/ req' = [req EXCEPT ![h].step = "read", ![h].nonce = None, ![h].row = None, ![h].token = s]
        \/ End(h)
    BY DEF IssueSession
  <2>2. QED
    BY <1>0, <2>1 DEF End, Idle, Requests
<1>4. ASSUME NEW g \in Handlers, NEW m \in Nonces
      PROVE  Holds(g, m)' <=> Holds(g, m) /\ g # h /\ m # n
  <2>1. CASE g = h
    BY <1>3, <2>1, AuthAssumption DEF Holds
  <2>2. CASE g # h
    <3>1. Holds(g, m)' <=> Holds(g, m)
      BY <1>3, <2>2 DEF Holds
    <3>2. Holds(g, m) => m # n
      BY <1>0, <1>1, <1>2, <2>2 DEF OneHolder
    <3>3. QED
      BY <2>2, <3>1, <3>2
  <2>3. QED
    BY <2>1, <2>2
<1>5. QED
  BY <1>1, <1>2, <1>3, <1>4

LEMMA SessionKeeps ==
    ASSUME IInv, NEW h \in Handlers, IssueSession(h)
    PROVE  ChallengesHold'
<1>0. /\ OffersAreWallets /\ HoldersOwn /\ OneHolder /\ SpentBySession /\ NonceOnce
      /\ sessions \subseteq Sessions /\ req[h].step = "session"
  BY DEF IInv, TypeOK, ChallengesHold, IssueSession, At
<1> DEFINE n == req[h].nonce
           s == [nonce |-> n, by |-> h, wallet |-> req[h].wallet, role |-> Canonical(NewRole(h))]
<1>1. nonces' = nonces /\ sessions' = sessions \cup {s}
  BY DEF IssueSession
<1>2. n \in Nonces /\ Holds(h, n) /\ \A g \in Handlers \ {h} : req'[g] = req[g]
  BY SessionReleases
<1>3. \A g \in Handlers, m \in Nonces : Holds(g, m)' => Holds(g, m) /\ g # h /\ m # n
  BY SessionReleases
<1>4. HoldersOwn'
  BY <1>0, <1>1, <1>2, <1>3 DEF HoldersOwn, At
<1>5. OneHolder'
  BY <1>0, <1>3 DEF OneHolder
<1>6. nonces[n].state \in {"used", "purged"}
  BY <1>0, <1>2 DEF HoldersOwn, At
<1>7. SpentBySession'
  BY <1>0, <1>1, <1>2, <1>3, <1>6 DEF SpentBySession, Sessions
<1>8. NonceOnce'
  BY <1>0, <1>1, <1>2 DEF NonceOnce, SpentBySession
<1>9. QED
  BY <1>0, <1>1, <1>4, <1>5, <1>7, <1>8 DEF ChallengesHold, OffersAreWallets
-----------------------------------------------------------------------------
LEMMA StepKinds ==
    ASSUME Next
    PROVE  \/ QuietStep
           \/ \E h \in Handlers : Look(h) \/ Mark(h) \/ IssueSession(h)
           \/ \E w \in Wallets, n \in Nonces : IssueNonce(w, n)
           \/ \E n \in Nonces : Expire(n)
  BY DEF Next, Serve, QuietStep

LEMMA InitInv == Init => IInv
<1> SUFFICES ASSUME Init
             PROVE  IInv
  OBVIOUS
<1>1. /\ req = [h \in Handlers |-> Idle] /\ sessions = {} /\ live = {}
      /\ nonces = [n \in Nonces |-> Blank]
      /\ users \in [Wallets -> {None, [role |-> "admin", id |-> None]}]
  BY DEF Init
<1>2. [role |-> "admin", id |-> None] \in Rows
  BY DEF Rows
<1>3. TypeOK /\ WellFormed
  BY <1>1, <1>2, IdleFits DEF TypeOK, WellFormed, Blank
<1>4. RowsAgree /\ JoinedAgree /\ SessionsAgree
  BY <1>1 DEF RowsAgree, JoinedAgree, SessionsAgree, Idle, At
<1>5. DisplayIdsUnique
  BY <1>1, AuthAssumption DEF DisplayIdsUnique, HasId
<1>6. ChallengesHold
  BY <1>1 DEF ChallengesHold, OffersAreWallets, HoldersOwn, OneHolder, SpentBySession, NonceOnce,
              Holds, Idle, Blank
<1>7. QED
  BY <1>3, <1>4, <1>5, <1>6 DEF IInv

LEMMA NextInv == IInv /\ [Next]_vars => IInv'
<1>1. ASSUME IInv, Next
      PROVE  IInv'
  <2>1. ChallengesHold'
    BY <1>1, StepKinds, QuietKeeps, LookKeeps, MarkKeeps, OfferKeeps, SessionKeeps
  <2>2. QED
    BY <1>1, <2>1, NextTyped, RowsStillAgree, JoinedStillAgree, SessionsStillAgree,
       DisplayIdsStillUnique DEF IInv
<1>2. ASSUME IInv, UNCHANGED vars
      PROVE  IInv'
  BY <1>2 DEF vars, IInv, TypeOK, WellFormed, RowsAgree, JoinedAgree, RoleOf, SessionsAgree,
              DisplayIdsUnique, HasId, ChallengesHold, OffersAreWallets, HoldersOwn, OneHolder,
              SpentBySession, NonceOnce, Holds, At
<1>3. QED
  BY <1>1, <1>2

(* The inductive invariant: rows that requests read stay right about the   *)
(* role, and a challenge is its holder's alone until the session.          *)
THEOREM Invariance == Spec => []IInv
  BY InitInv, NextInv, PTL DEF Spec

(* Tables and requests keep their types, whatever fails between two steps. *)
THEOREM TypeCorrect == Spec => []TypeOK
<1>1. IInv => TypeOK
  BY DEF IInv
<1>2. QED
  BY <1>1, Invariance, PTL

(* A challenge leads to at most one session: _consume_nonce locks its row, *)
(* commits its use before the signature is checked, and a request that was *)
(* waiting for the row finds it used.                                      *)
THEOREM ChallengeAdmitsOnce == Spec => []NonceOnce
<1>1. IInv => NonceOnce
  BY DEF IInv, ChallengesHold
<1>2. QED
  BY <1>1, Invariance, PTL

(* No token has another role than the row of its wallet, though rows are   *)
(* renamed, backfilled and inserted by other requests and by the indexer.  *)
THEOREM TokensAgree == Spec => []SessionsAgree
<1>1. IInv => SessionsAgree
  BY DEF IInv
<1>2. QED
  BY <1>1, Invariance, PTL

(* No two users have the same display id, for any number of requests that  *)
(* take the next number at once.                                           *)
THEOREM IdsAreUnique == Spec => []DisplayIdsUnique
<1>1. IInv => DisplayIdsUnique
  BY DEF IInv
<1>2. QED
  BY <1>1, Invariance, PTL
-----------------------------------------------------------------------------
(* Auth implements SignIn: each step is a step of the promise *)

(* An open challenge is one that was offered, to a wallet *)
LEMMA OpenOffered ==
    ASSUME IInv, NEW n \in Nonces, Open(n)
    PROVE  nonces[n].state # "none" /\ nonces[n].wallet \in Wallets
<1>1. nonces[n].state # "none"
  BY DEF IInv, ChallengesHold, HoldersOwn, Open, At
<1>2. QED
  BY <1>1 DEF IInv, ChallengesHold, OffersAreWallets

(* The challenges that a step may only close *)
OnlyCloses ==
    \A n \in Nonces : /\ Open(n)' => Open(n)
                      /\ nonces'[n].wallet = nonces[n].wallet
                      /\ nonces'[n].state = "none" <=> nonces[n].state = "none"

LEMMA Closing ==
    ASSUME IInv, accountOf' = accountOf, sessions' = sessions, OnlyCloses
    PROVE  Promise!Close
<1>1. grantedOf' = grantedOf
  BY DEF grantedOf
<1>2. ASSUME NEW n \in Nonces
      PROVE  \/ challengeOf'[n] = challengeOf[n] /\ challengeOf[n] \in Wallets \cup {"new", "closed"}
             \/ challengeOf[n] \in Wallets /\ challengeOf'[n] = "closed"
  <2>1. /\ Open(n)' => Open(n)
        /\ nonces'[n].wallet = nonces[n].wallet
        /\ nonces'[n].state = "none" <=> nonces[n].state = "none"
    BY DEF OnlyCloses
  <2>2. challengeOf[n] = IF Open(n) THEN nonces[n].wallet
                         ELSE IF nonces[n].state = "none" THEN "new" ELSE "closed"
    BY DEF challengeOf
  <2>3. challengeOf'[n] = IF Open(n)' THEN nonces'[n].wallet
                          ELSE IF nonces'[n].state = "none" THEN "new" ELSE "closed"
    BY DEF challengeOf
  <2>4. CASE Open(n)
    BY <2>1, <2>2, <2>3, <2>4, OpenOffered
  <2>5. CASE ~Open(n)
    BY <2>1, <2>2, <2>3, <2>5
  <2>6. QED
    BY <2>4, <2>5
<1>3. challengeOf' \in [Nonces -> Wallets \cup {"new", "closed"}]
  <2>1. challengeOf' = [n \in Nonces |-> challengeOf'[n]]
    BY DEF challengeOf
  <2>2. \A n \in Nonces : challengeOf'[n] \in Wallets \cup {"new", "closed"}
    BY <1>2
  <2>3. QED
    BY <2>1, <2>2
<1>4. QED
  BY <1>1, <1>2, <1>3 DEF Promise!Close

(* Who has an account changes only where one is made *)
LEMMA AccountsStay ==
    ASSUME IInv, Next,
           \/ users' = users
           \/ \E h \in Handlers : Rename(h) \/ Write(h)
    PROVE  accountOf' = accountOf
<1>1. ASSUME NEW w \in Wallets
      PROVE  RoleOf(w)' = RoleOf(w)
  <2>1. CASE RoleOf(w) # None
    BY <2>1, RolesKept
  <2>2. CASE users' = users
    BY <2>2 DEF RoleOf
  <2>3. CASE RoleOf(w) = None /\ \E h \in Handlers : Rename(h) \/ Write(h)
    <3>1. PICK h \in Handlers : Rename(h) \/ Write(h)
      BY <2>3
    <3>2. req[h].row # None
      BY <3>1 DEF IInv, WellFormed, Fits, Rename, Write, At
    <3>3. req[h].wallet \in Wallets /\ RoleOf(req[h].wallet) \in Roles
      <4>1. req[h].row \in Rows /\ RoleOf(req[h].wallet) = Canonical(req[h].row.role)
        BY <3>2 DEF IInv, TypeOK, Requests, RowsAgree
      <4>2. QED
        BY <3>2, <4>1, RowThere, AuthAssumption DEF Canonical, Rows
    <3>4. w # req[h].wallet
      BY <2>3, <3>3, AuthAssumption
    <3>5. users'[w] = users[w]
      BY <3>1, <3>4 DEF Rename, Write, IInv, TypeOK
    <3>6. QED
      BY <3>5 DEF RoleOf
  <2>4. QED
    BY <2>1, <2>2, <2>3
<1>2. QED
  BY <1>1 DEF accountOf, RoleOf

LEMMA HeldStaysOpen ==
    ASSUME nonces' = nonces, \A h \in Handlers : StillHeld(h)
    PROVE  OnlyCloses
  BY DEF OnlyCloses, Open, StillHeld

LEMMA LookOnlyCloses ==
    ASSUME IInv, NEW h \in Handlers, Look(h)
    PROVE  OnlyCloses
<1>0. req \in [Handlers -> Requests] /\ nonces' = nonces
  BY DEF IInv, TypeOK, Look
<1>1. CASE End(h)
  <2>1. \A g \in Handlers : StillHeld(g)
    BY <1>0, <1>1 DEF End, Idle, StillHeld, Holds
  <2>2. QED
    BY <1>0, <2>1, HeldStaysOpen
<1>2. CASE ~End(h)
  <2>1. Pending(req[h].wallet, req[h].nonce) /\ req' = [req EXCEPT ![h].step = "mark"]
    BY <1>2 DEF Look, Goto
  <2>2. nonces[req[h].nonce].state = "pending"
    BY <2>1 DEF Pending
  <2>3. \A g \in Handlers \ {h} : req'[g] = req[g]
    BY <1>0, <2>1
  <2>4. req'[h].nonce = req[h].nonce
    BY <1>0, <2>1 DEF Requests
  <2>5. \A g \in Handlers, m \in Nonces : Holds(g, m)' => Holds(g, m) \/ m = req[h].nonce
    BY <2>3, <2>4 DEF Holds
  <2>6. QED
    BY <1>0, <2>2, <2>5 DEF OnlyCloses, Open
<1>3. QED
  BY <1>1, <1>2

LEMMA MarkOnlyCloses ==
    ASSUME IInv, NEW h \in Handlers, Mark(h)
    PROVE  OnlyCloses
<1>0. /\ req \in [Handlers -> Requests] /\ req[h] \in Requests /\ Fits(req[h])
      /\ TypeOK /\ HoldersOwn
  BY DEF IInv, TypeOK, WellFormed, ChallengesHold
<1> DEFINE n == req[h].nonce
<1>1. n \in Nonces /\ req[h].token = None /\ req[h].step = "mark" /\ Holds(h, n)
  BY <1>0 DEF Mark, At, Fits, Holds
<1>2. /\ req' = [req EXCEPT ![h].step = "signature"]
      /\ nonces' = [nonces EXCEPT ![n].state = "used"]
  BY DEF Mark, Goto
<1>3. /\ nonces'[n].state = "used" /\ nonces'[n].wallet = nonces[n].wallet
      /\ \A m \in Nonces \ {n} : nonces'[m] = nonces[m]
  BY <1>0, <1>1, <1>2 DEF TypeOK
<1>4. nonces[n].state # "none"
  BY <1>0, <1>1 DEF HoldersOwn, At
<1>5. /\ \A g \in Handlers \ {h} : req'[g] = req[g]
      /\ req'[h].nonce = n
  BY <1>0, <1>1, <1>2 DEF Requests
<1>6. \A g \in Handlers, m \in Nonces : Holds(g, m)' => Holds(g, m) \/ m = n
  BY <1>5 DEF Holds
<1>7. QED
  BY <1>1, <1>3, <1>4, <1>6 DEF OnlyCloses, Open

LEMMA ExpireOnlyCloses ==
    ASSUME IInv, NEW n \in Nonces, Expire(n)
    PROVE  OnlyCloses
<1>1. nonces \in [Nonces -> [state : {"none", "pending", "expired", "used", "purged"},
                             wallet : Wallets \cup {None}]]
  BY DEF IInv, TypeOK
<1>2. /\ nonces[n].state = "pending"
      /\ nonces'[n].state = "expired" /\ nonces'[n].wallet = nonces[n].wallet
      /\ \A m \in Nonces \ {n} : nonces'[m] = nonces[m]
  BY <1>1 DEF Expire
<1>3. \A h \in Handlers, m \in Nonces : Holds(h, m)' <=> Holds(h, m)
  BY DEF Expire, Holds
<1>4. QED
  BY <1>2, <1>3 DEF OnlyCloses, Open

(* An account is made with nothing else *)
LEMMA InsertJoins ==
    ASSUME IInv, NEW h \in Handlers, Insert(h), ~(users' = users)
    PROVE  \E w \in Wallets, r \in Roles : Promise!Join(w, r)
<1> DEFINE w == req[h].wallet
           r == req[h].role
<1>0. /\ req \in [Handlers -> Requests] /\ req[h] \in Requests /\ Fits(req[h])
      /\ users \in [Wallets -> Rows \cup {None}]
  BY DEF IInv, TypeOK, WellFormed
<1>1. /\ w \in Wallets /\ r \in Roles /\ req[h].token = None /\ req[h].step = "insert"
  BY <1>0 DEF Insert, At, Fits
<1>2. /\ users[w] = None
      /\ users' = [users EXCEPT ![w] = [role |-> r, id |-> NewId(h)]]
      /\ req' = [req EXCEPT ![h].step = "session", ![h].num = None]
      /\ nonces' = nonces /\ sessions' = sessions
  BY DEF Insert, WalletFree
<1>3. [role |-> r, id |-> NewId(h)] # None
  <2>1. req[h].num \in Numbers /\ req[h].row = None
    BY <1>0, <1>1, AuthAssumption DEF Fits, Requests
  <2>2. NewId(h) \in Ids
    BY <1>0, <1>1, <2>1, NextIdIsTyped DEF IInv
  <2>3. [role |-> r, id |-> NewId(h)] \in Rows
    BY <1>1, <2>2 DEF Rows
  <2>4. QED
    BY <2>3, AuthAssumption
<1>4. accountOf[w] = None /\ accountOf' = [accountOf EXCEPT ![w] = r]
  <2>1. accountOf[w] = None
    BY <1>1, <1>2 DEF accountOf
  <2>2. users'[w] = [role |-> r, id |-> NewId(h)] /\ \A v \in Wallets \ {w} : users'[v] = users[v]
    BY <1>0, <1>1, <1>2
  <2>3. Canonical(users'[w].role) = r
    BY <1>1, <2>2, AuthAssumption DEF Canonical
  <2>4. QED
    BY <1>1, <1>3, <2>1, <2>2, <2>3 DEF accountOf
<1>5. \A g \in Handlers, m \in Nonces : Holds(g, m)' <=> Holds(g, m)
  <2>1. /\ \A g \in Handlers \ {h} : req'[g] = req[g]
        /\ req'[h].nonce = req[h].nonce /\ req'[h].token = None /\ req'[h].step = "session"
    BY <1>0, <1>1, <1>2 DEF Requests
  <2>2. QED
    BY <1>1, <2>1 DEF Holds
<1>6. challengeOf' = challengeOf
  <2>1. \A m \in Nonces : Open(m)' <=> Open(m)
    BY <1>2, <1>5 DEF Open
  <2>2. QED
    BY <1>2, <2>1 DEF challengeOf
<1>7. grantedOf' = grantedOf
  BY <1>2 DEF grantedOf
<1>8. Promise!Join(w, r)
  BY <1>4, <1>6, <1>7 DEF Promise!Join
<1>9. QED
  BY <1>1, <1>8

LEMMA SeeWalletJoins ==
    ASSUME IInv, NEW w \in Wallets, SeeWallet(w)
    PROVE  \E r \in Roles : Promise!Join(w, r)
<1>0. users \in [Wallets -> Rows \cup {None}]
  BY DEF IInv, TypeOK
<1>1. [role |-> "investor", id |-> None] # None
  BY AuthAssumption DEF Rows
<1>2. accountOf[w] = None /\ accountOf' = [accountOf EXCEPT ![w] = "investor"]
  <2>1. accountOf[w] = None
    BY DEF accountOf, SeeWallet
  <2>2. /\ users'[w] = [role |-> "investor", id |-> None]
        /\ \A v \in Wallets \ {w} : users'[v] = users[v]
    BY <1>0 DEF SeeWallet
  <2>3. Canonical(users'[w].role) = "investor"
    BY <2>2 DEF Canonical
  <2>4. QED
    BY <1>1, <2>1, <2>2, <2>3 DEF accountOf
<1>3. \A g \in Handlers, m \in Nonces : Holds(g, m)' <=> Holds(g, m)
  BY DEF SeeWallet, Holds
<1>4. challengeOf' = challengeOf /\ grantedOf' = grantedOf
  <2>1. \A m \in Nonces : Open(m)' <=> Open(m)
    BY <1>3 DEF Open, SeeWallet
  <2>2. QED
    BY <2>1 DEF challengeOf, grantedOf, SeeWallet
<1>5. Promise!Join(w, "investor")
  BY <1>2, <1>4 DEF Promise!Join
<1>6. QED
  BY <1>5, AuthAssumption

LEMMA IssueNonceOffers ==
    ASSUME IInv, NEW w \in Wallets, NEW n \in Nonces, IssueNonce(w, n)
    PROVE  Promise!Offer(n, w)
<1>1. nonces[n].state = "none" /\ n \notin Stale(w)
  BY DEF IssueNonce, Stale
<1>2. nonces'[n] = [state |-> "pending", wallet |-> w]
  BY <1>1 DEF IssueNonce
<1>3. ASSUME NEW m \in Nonces, m # n
      PROVE  /\ nonces'[m].wallet = nonces[m].wallet
             /\ nonces'[m].state = "pending" <=> nonces[m].state = "pending"
             /\ nonces'[m].state = "none" <=> nonces[m].state = "none"
  <2>1. nonces[m] \in [state : {"none", "pending", "expired", "used", "purged"},
                       wallet : Wallets \cup {None}]
    BY DEF IInv, TypeOK
  <2>2. nonces'[m] = IF m \in Stale(w) THEN [nonces[m] EXCEPT !.state = "purged"] ELSE nonces[m]
    BY <1>3 DEF IssueNonce
  <2>3. m \in Stale(w) => nonces[m].state \in {"expired", "used"}
    BY DEF Stale
  <2>4. QED
    BY <2>1, <2>2, <2>3
<1>4. \A h \in Handlers, m \in Nonces : Holds(h, m)' <=> Holds(h, m)
  BY DEF IssueNonce, Holds
<1>5. ~Open(n) /\ Open(n)'
  BY <1>1, <1>2, OpenOffered DEF Open
<1>6. \A m \in Nonces \ {n} : Open(m)' <=> Open(m)
  BY <1>3, <1>4 DEF Open
<1>7. challengeOf[n] = "new"
  BY <1>1, <1>5 DEF challengeOf
<1>8. challengeOf' = [challengeOf EXCEPT ![n] = w]
  <2>1. nonces'[n].wallet = w
    BY <1>2
  <2>2. QED
    BY <1>3, <1>5, <1>6, <2>1 DEF challengeOf
<1>9. accountOf' = accountOf /\ grantedOf' = grantedOf
  BY DEF IssueNonce, accountOf, grantedOf
<1>10. QED
  BY <1>7, <1>8, <1>9 DEF Promise!Offer

(* The session closes the challenge that its request held *)
LEMMA IssueSessionAdmits ==
    ASSUME IInv, NEW h \in Handlers, IssueSession(h)
    PROVE  \E n \in Nonces, w \in Wallets : Promise!Admit(n, w)
<1>1. [nonce |-> req[h].nonce, by |-> h, wallet |-> req[h].wallet,
       role |-> Canonical(NewRole(h))] \in Sessions
  BY SessionTyped DEF IssueSession
<1>2. PICK n \in Nonces, w \in Wallets, role \in Roles :
         n = req[h].nonce /\ w = req[h].wallet /\ role = Canonical(NewRole(h))
  BY <1>1 DEF Sessions
<1> DEFINE s == [nonce |-> n, by |-> h, wallet |-> w, role |-> role]
<1>3. Holds(h, n)
  BY <1>2, SessionReleases
<1>4. nonces[n].wallet = w /\ nonces[n].state \in {"used", "purged"}
  BY <1>2, <1>3 DEF IInv, ChallengesHold, HoldersOwn, IssueSession, At
<1>5. users' = users /\ nonces' = nonces /\ sessions' = sessions \cup {s}
  BY <1>2 DEF IssueSession
<1>6. challengeOf[n] = w
  BY <1>2, <1>3, <1>4 DEF challengeOf, Open
<1>7. accountOf[w] = role /\ accountOf[w] # None
  BY <1>2, IssuedRole, AuthAssumption DEF accountOf, RoleOf, IssueSession
<1>8. ~Open(n)'
  BY <1>2, <1>4, <1>5, SessionReleases DEF Open
<1>9. ASSUME NEW m \in Nonces, m # n
      PROVE  Open(m)' <=> Open(m)
  <2>1. \A g \in Handlers : Holds(g, m)' <=> Holds(g, m)
    <3>1. ~Holds(h, m)
      BY <1>2, <1>9 DEF Holds
    <3>2. QED
      BY <1>2, <1>9, <3>1, SessionReleases
  <2>2. QED
    BY <1>5, <2>1 DEF Open
<1>10. challengeOf' = [challengeOf EXCEPT ![n] = "closed"]
  BY <1>4, <1>5, <1>8, <1>9 DEF challengeOf
<1>11. grantedOf' = [grantedOf EXCEPT ![n] = {[wallet |-> w, role |-> role]}]
  <2>1. \A t \in sessions : t.nonce # n
    BY <1>2, <1>3 DEF IInv, ChallengesHold, SpentBySession
  <2>2. {t \in sessions' : t.nonce = n} = {s}
    BY <1>5, <2>1
  <2>3. \A m \in Nonces \ {n} : {t \in sessions' : t.nonce = m} = {t \in sessions : t.nonce = m}
    BY <1>5
  <2>4. grantedOf'[n] = {[wallet |-> w, role |-> role]}
    <3>1. grantedOf'[n] = {[wallet |-> x.wallet, role |-> x.role] : x \in {t \in sessions' : t.nonce = n}}
      BY DEF grantedOf
    <3>2. grantedOf'[n] = {[wallet |-> x.wallet, role |-> x.role] : x \in {s}}
      BY <2>2, <3>1
    <3>3. s.wallet = w /\ s.role = role
      OBVIOUS
    <3>4. {[wallet |-> x.wallet, role |-> x.role] : x \in {s}} = {[wallet |-> s.wallet, role |-> s.role]}
      OBVIOUS
    <3>5. QED
      BY <3>2, <3>3, <3>4
  <2>5. \A m \in Nonces \ {n} : grantedOf'[m] = grantedOf[m]
    BY <2>3 DEF grantedOf
  <2>6. QED
    BY <2>4, <2>5 DEF grantedOf
<1>12. accountOf' = accountOf
  BY <1>5 DEF accountOf
<1>13. Promise!Admit(n, w)
  BY <1>6, <1>7, <1>10, <1>11, <1>12 DEF Promise!Admit
<1>14. QED
  BY <1>2, <1>13

LEMMA QuietPromised ==
    ASSUME IInv, Next, QuietStep
    PROVE  Promise!Next
<1>1. nonces' = nonces /\ sessions' = sessions /\ \A h \in Handlers : StillHeld(h)
  BY QuietHolds DEF QuietStep, Restart, Abandon, Revoke, SeeWallet
<1>2. CASE accountOf' = accountOf
  BY <1>1, <1>2, HeldStaysOpen, Closing DEF Promise!Next
<1>3. CASE accountOf' # accountOf
  <2>1. ~(users' = users) /\ ~\E h \in Handlers : Rename(h) \/ Write(h)
    BY <1>3, AccountsStay
  <2>2. (\E h \in Handlers : Insert(h)) \/ \E w \in Wallets : SeeWallet(w)
    BY <2>1, UsersChange
  <2>3. QED
    BY <2>1, <2>2, InsertJoins, SeeWalletJoins DEF Promise!Next
<1>4. QED
  BY <1>2, <1>3

LEMMA StepPromised ==
    ASSUME IInv, Next
    PROVE  Promise!Next
<1>1. ASSUME NEW h \in Handlers, Look(h) \/ Mark(h)
      PROVE  Promise!Next
  <2>1. users' = users /\ sessions' = sessions
    BY <1>1 DEF Look, Mark
  <2>2. QED
    BY <1>1, <2>1, AccountsStay, LookOnlyCloses, MarkOnlyCloses, Closing DEF Promise!Next
<1>2. ASSUME NEW n \in Nonces, Expire(n)
      PROVE  Promise!Next
  <2>1. users' = users /\ sessions' = sessions
    BY <1>2 DEF Expire
  <2>2. QED
    BY <1>2, <2>1, AccountsStay, ExpireOnlyCloses, Closing DEF Promise!Next
<1>3. ASSUME NEW w \in Wallets, NEW n \in Nonces, IssueNonce(w, n)
      PROVE  Promise!Next
  BY <1>3, IssueNonceOffers DEF Promise!Next
<1>4. ASSUME NEW h \in Handlers, IssueSession(h)
      PROVE  Promise!Next
  BY <1>4, IssueSessionAdmits DEF Promise!Next
<1>5. QED
  BY <1>1, <1>2, <1>3, <1>4, StepKinds, QuietPromised

LEMMA InitPromised == Init => Promise!Init
<1> SUFFICES ASSUME Init
             PROVE  Promise!Init
  OBVIOUS
<1>1. /\ users \in [Wallets -> {None, [role |-> "admin", id |-> None]}]
      /\ nonces = [n \in Nonces |-> Blank] /\ sessions = {} /\ req = [h \in Handlers |-> Idle]
  BY DEF Init
<1>2. accountOf \in [Wallets -> Roles \cup {None}]
  BY <1>1, AuthAssumption DEF accountOf, Canonical
<1>3. \A n \in Nonces : ~Open(n) /\ nonces[n].state = "none"
  BY <1>1 DEF Open, Holds, Blank, Idle
<1>4. challengeOf = [n \in Nonces |-> "new"]
  BY <1>3 DEF challengeOf
<1>5. grantedOf = [n \in Nonces |-> {}]
  BY <1>1 DEF grantedOf
<1>6. QED
  BY <1>2, <1>4, <1>5 DEF Promise!Init

(* Signing in keeps its promise: every step of Auth is a step of SignIn or *)
(* changes nothing that SignIn speaks of.                                  *)
THEOREM Implements == Spec => KeepsPromise
<1>1. ASSUME UNCHANGED vars
      PROVE  UNCHANGED Promise!signInVars
  <2>1. accountOf' = accountOf /\ grantedOf' = grantedOf
    BY <1>1 DEF vars, accountOf, grantedOf
  <2>2. \A n \in Nonces : Open(n)' <=> Open(n)
    BY <1>1 DEF vars, Open, Holds
  <2>3. challengeOf' = challengeOf
    BY <1>1, <2>2 DEF vars, challengeOf
  <2>4. QED
    BY <2>1, <2>3 DEF Promise!signInVars
<1>2. IInv /\ [Next]_vars => [Promise!Next]_(Promise!signInVars)
  BY <1>1, StepPromised
<1>3. QED
  BY <1>2, InitPromised, Invariance, PTL DEF Spec, KeepsPromise, Promise!Spec

=============================================================================
