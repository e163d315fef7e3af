-------------------------------- MODULE Auth --------------------------------
(***************************************************************************)
(* Signing in with a wallet: the requests of the /auth routes, step by     *)
(* step as they read, write and commit, and the two other parties that     *)
(* insert users, the indexer and the investment routes.  Requests of every *)
(* kind may arrive at any time and in any number of handlers.              *)
(***************************************************************************)
EXTENDS Naturals

CONSTANTS Wallets,
          Nonces,     \* random values a nonce can be drawn from
          Handlers,   \* threads that serve requests
          Roles,      \* the roles a user may choose
          MaxNumber,  \* bound: numbers of display ids
          None

Numbers == 1..MaxNumber
Ids == Roles \X Numbers
Rows == [role : Roles \cup {"admin"}, id : Ids \cup {None}]
Sessions == [nonce : Nonces, by : Handlers, wallet : Wallets, role : Roles]
Kinds == {"verify", "register", "lookup"}

ASSUME AuthAssumption ==
    /\ {"investor", "property_owner"} \subseteq Roles /\ "admin" \notin Roles
    /\ {"new", "closed"} \cap Wallets = {}
    /\ None \notin Wallets \cup Nonces \cup Roles /\ None \notin Numbers
    /\ None \notin Ids /\ None \notin Rows /\ None \notin Sessions
    /\ MaxNumber \in Nat

VARIABLES users,     \* rows of users by wallet, None if there is none
          nonces,    \* rows of auth_nonces, and the values that were rows
          sessions,  \* rows of auth_sessions
          live,      \* sessions that are neither revoked nor expired
          req        \* what each handler is doing

vars == <<users, nonces, sessions, live, req>>

Steps == {"idle", "look", "mark", "signature", "read", "rename", "number",
          "write", "insert", "session"}
Requests ==
    [kind : Kinds \cup {None}, step : Steps, wallet : Wallets \cup {None},
     nonce : Nonces \cup {None}, signed : BOOLEAN, role : Roles \cup {None},
     row : Rows \cup {None}, num : Numbers \cup {None}, token : Sessions \cup {None}]
Idle == [kind |-> None, step |-> "idle", wallet |-> None, nonce |-> None, signed |-> FALSE,
         role |-> None, row |-> None, num |-> None, token |-> None]

(* Rows from before the role was renamed still say "admin" *)
Canonical(role) == IF role = "admin" THEN "property_owner" ELSE role

At(h, step) == req[h].step = step
Goto(h, step) == req' = [req EXCEPT ![h].step = step]
End(h) == req' = [req EXCEPT ![h] = Idle]
-----------------------------------------------------------------------------
(* requests arrive *)
Begin(h, q) == /\ At(h, "idle")
               /\ req' = [req EXCEPT ![h] = q]
               /\ UNCHANGED <<users, nonces, sessions, live>>

Verify(h, w, n, signed) ==
    Begin(h, [Idle EXCEPT !.kind = "verify", !.step = "look", !.wallet = w, !.nonce = n,
                          !.signed = signed])

(* A form without a role or a name, or with a wrong signature, fares as a  *)
(* sign-in with a wrong signature does.                                    *)
Register(h, w, n, role) ==
    Begin(h, [Idle EXCEPT !.kind = "register", !.step = "look", !.wallet = w, !.nonce = n,
                          !.signed = TRUE, !.role = role])

Lookup(h, w) == Begin(h, [Idle EXCEPT !.kind = "lookup", !.step = "read", !.wallet = w])

(* A request with a token loads the user as a lookup does, then compares   *)
(* the roles: SessionsAgree says what it finds.                            *)
Call(h, s) == s \in live /\ Lookup(h, s.wallet)
-----------------------------------------------------------------------------
(* challenges *)
MutNoRowLock(n) == TRUE
RowFree(n) == \A h \in Handlers : ~(At(h, "mark") /\ req[h].nonce = n)

MutAnyWallet(w, n) == nonces[n].state = "pending"
Pending(w, n) == nonces[n] = [state |-> "pending", wallet |-> w]

Stale(w) == {n \in Nonces : nonces[n].wallet = w /\ nonces[n].state \in {"expired", "used"}}

IssueNonce(w, n) ==
    /\ nonces[n].state = "none"
    /\ \A m \in Stale(w) : RowFree(m)
    /\ nonces' = [m \in Nonces |->
                    CASE m = n -> [state |-> "pending", wallet |-> w]
                      [] m \in Stale(w) -> [nonces[m] EXCEPT !.state = "purged"]
                      [] OTHER -> nonces[m]]
    /\ UNCHANGED <<users, sessions, live, req>>

Expire(n) ==
    /\ nonces[n].state = "pending"
    /\ nonces' = [nonces EXCEPT ![n].state = "expired"]
    /\ UNCHANGED <<users, sessions, live, req>>

(* SELECT ... FOR UPDATE, which waits for another request at the same row *)
Look(h) ==
    /\ At(h, "look") /\ RowFree(req[h].nonce)
    /\ IF Pending(req[h].wallet, req[h].nonce) THEN Goto(h, "mark") ELSE End(h)
    /\ UNCHANGED <<users, nonces, sessions, live>>

Mark(h) ==
    /\ At(h, "mark")
    /\ nonces' = [nonces EXCEPT ![req[h].nonce].state = "used"]
    /\ Goto(h, "signature")
    /\ UNCHANGED <<users, sessions, live>>

CheckSignature(h) ==
    /\ At(h, "signature")
    /\ IF req[h].signed THEN req' = [req EXCEPT ![h].step = "read", ![h].signed = FALSE]
       ELSE End(h)
    /\ UNCHANGED <<users, nonces, sessions, live>>
-----------------------------------------------------------------------------
(* get_user_by_wallet, which fills in what an old row lacks *)
HasId(w, id) == users[w] # None /\ users[w].id = id
MutNoIndex(w, id) == TRUE
IdFree(w, id) == \A v \in Wallets \ {w} : ~HasId(v, id)
IsNext(n, role) ==
    /\ n = 1 \/ \E w \in Wallets : HasId(w, <<role, n - 1>>)
    /\ \A m \in Numbers, w \in Wallets : HasId(w, <<role, m>>) => m < n

MutForgetsRow(h, row) ==
    IF req[h].kind = "verify" /\ req[h].token = None THEN Goto(h, "session") ELSE End(h)

(* What follows a complete row: a session the first time of a sign-in, else *)
(* the answer, which for a registration is that the wallet has an account.  *)
Loaded(h, row) ==
    IF req[h].kind = "verify" /\ req[h].token = None
    THEN req' = [req EXCEPT ![h].step = "session", ![h].row = row, ![h].num = None]
    ELSE End(h)

Read(h) ==
    /\ At(h, "read")
    /\ LET row == users[req[h].wallet]
           hold(step) == req' = [req EXCEPT ![h].step = step, ![h].row = row]
       IN IF row = None THEN IF req[h].kind = "register" THEN hold("number") ELSE End(h)
          ELSE IF row.role = "admin" THEN hold("rename")
          ELSE IF row.id = None THEN hold("number")
          ELSE Loaded(h, row)
    /\ UNCHANGED <<users, nonces, sessions, live>>

Rename(h) ==
    /\ At(h, "rename")
    /\ users' = [users EXCEPT ![req[h].wallet].role = "property_owner"]
    /\ LET row == [req[h].row EXCEPT !.role = "property_owner"]
       IN IF row.id = None THEN req' = [req EXCEPT ![h].step = "number", ![h].row = row]
          ELSE Loaded(h, row)
    /\ UNCHANGED <<nonces, sessions, live>>

NewRole(h) == IF req[h].row = None THEN req[h].role ELSE req[h].row.role

(* MAX + 1 of what is committed by now *)
Number(h) ==
    /\ At(h, "number")
    /\ \E n \in Numbers :
          /\ IsNext(n, NewRole(h))
          /\ req' = [req EXCEPT ![h].step = IF req[h].row = None THEN "insert" ELSE "write",
                                ![h].num = n]
    /\ UNCHANGED <<users, nonces, sessions, live>>

NewId(h) == <<NewRole(h), req[h].num>>

Write(h) ==
    /\ At(h, "write")
    /\ IF IdFree(req[h].wallet, NewId(h))
       THEN /\ users' = [users EXCEPT ![req[h].wallet].id = NewId(h)]
            /\ Loaded(h, [req[h].row EXCEPT !.id = NewId(h)])
       ELSE End(h) /\ UNCHANGED users
    /\ UNCHANGED <<nonces, sessions, live>>
-----------------------------------------------------------------------------
MutUpserts(w) == TRUE
WalletFree(w) == users[w] = None

Insert(h) ==
    /\ At(h, "insert")
    /\ IF WalletFree(req[h].wallet) /\ IdFree(req[h].wallet, NewId(h))
       THEN /\ users' = [users EXCEPT ![req[h].wallet] =
                            [role |-> req[h].role, id |-> NewId(h)]]
            /\ req' = [req EXCEPT ![h].step = "session", ![h].num = None]
       ELSE End(h) /\ UNCHANGED users
    /\ UNCHANGED <<nonces, sessions, live>>

(* A sign-in then loads the user once more for its answer *)
IssueSession(h) ==
    /\ At(h, "session")
    /\ LET s == [nonce |-> req[h].nonce, by |-> h, wallet |-> req[h].wallet,
                 role |-> Canonical(NewRole(h))]
       IN /\ sessions' = sessions \cup {s}
          /\ live' = live \cup {s}
          /\ IF req[h].kind = "verify"
             THEN req' = [req EXCEPT ![h].step = "read", ![h].nonce = None, ![h].row = None,
                                        ![h].token = s]
             ELSE End(h)
    /\ UNCHANGED <<users, nonces>>

(* A logout, or the end of the session's time *)
Revoke(s) == /\ s \in live
             /\ live' = live \ {s}
             /\ UNCHANGED <<users, nonces, sessions, req>>

(* The indexer meets a wallet, or an order is prepared for it *)
SeeWallet(w) ==
    /\ users[w] = None
    /\ users' = [users EXCEPT ![w] = [role |-> "investor", id |-> None]]
    /\ UNCHANGED <<nonces, sessions, live, req>>

(* A statement or a connection fails: the request ends with an error, and  *)
(* what it did not commit is rolled back.  A restart does so to all.       *)
Abandon(S) == /\ req' = [h \in Handlers |-> IF h \in S THEN Idle ELSE req[h]]
              /\ UNCHANGED <<users, nonces, sessions, live>>
Fail(h) == ~At(h, "idle") /\ Abandon({h})
Restart == Abandon(Handlers)
-----------------------------------------------------------------------------
Blank == [state |-> "none", wallet |-> None]

(* Users of the time when an owner's role was called "admin" *)
Init == /\ users \in [Wallets -> {None, [role |-> "admin", id |-> None]}]
        /\ nonces = [n \in Nonces |-> Blank]
        /\ sessions = {}
        /\ live = {}
        /\ req = [h \in Handlers |-> Idle]

Issued == {n \in Nonces : nonces[n].state # "none"}
Arrive(h) ==
    \/ \E w \in Wallets, n \in Issued :
          \/ \E signed \in BOOLEAN : Verify(h, w, n, signed)
          \/ \E role \in Roles : Register(h, w, n, role)
    \/ \E w \in Wallets : Lookup(h, w)
    \/ \E s \in live : Call(h, s)

Serve(h) == \/ Look(h) \/ Mark(h) \/ CheckSignature(h)
            \/ Read(h) \/ Rename(h) \/ Number(h) \/ Write(h)
            \/ Insert(h) \/ IssueSession(h)

Next == \/ \E h \in Handlers : Arrive(h) \/ Serve(h) \/ Fail(h)
        \/ \E w \in Wallets, n \in Nonces : IssueNonce(w, n)
        \/ \E n \in Nonces : Expire(n)
        \/ \E s \in live : Revoke(s)
        \/ \E w \in Wallets : SeeWallet(w)
        \/ Restart

Spec == Init /\ [][Next]_vars
-----------------------------------------------------------------------------
(* Rows, sessions and requests hold values of their types. *)
TypeOK ==
    /\ users \in [Wallets -> Rows \cup {None}]
    /\ nonces \in [Nonces -> [state : {"none", "pending", "expired", "used", "purged"},
                              wallet : Wallets \cup {None}]]
    /\ sessions \subseteq Sessions /\ live \subseteq sessions
    /\ req \in [Handlers -> Requests]

(* A challenge leads to at most one session, however many requests carry   *)
(* it at once, and whichever of them fail half-way.                        *)
NonceOnce == \A s, t \in sessions : s.nonce = t.nonce => s = t

(* The role in a token is the role of its wallet's row, so that no token   *)
(* is refused for a role that changed: neither the rename of "admin" nor   *)
(* a registration that meets a row of the indexer comes between the two.   *)
SessionsAgree ==
    \A s \in sessions : users[s.wallet] # None /\ Canonical(users[s.wallet].role) = s.role

(* No two users show the same display id, though ids are counted from what *)
(* was committed a moment ago.                                             *)
DisplayIdsUnique ==
    \A v, w \in Wallets : \A id \in Ids : HasId(v, id) /\ HasId(w, id) => v = w
-----------------------------------------------------------------------------
(* A request holds a challenge from finding it to the session or the error *)
Holds(h, n) == req[h].nonce = n /\ req[h].token = None /\ req[h].step \notin {"idle", "look"}
Open(n) == nonces[n].state = "pending" \/ \E h \in Handlers : Holds(h, n)

accountOf == [w \in Wallets |-> IF users[w] = None THEN None ELSE Canonical(users[w].role)]
challengeOf == [n \in Nonces |-> IF Open(n) THEN nonces[n].wallet
                                 ELSE IF nonces[n].state = "none" THEN "new" ELSE "closed"]
grantedOf == [n \in Nonces |->
                 {[wallet |-> s.wallet, role |-> s.role] : s \in {t \in sessions : t.nonce = n}}]

Promise == INSTANCE SignIn WITH account <- accountOf, challenge <- challengeOf,
                                granted <- grantedOf

(* The steps of the requests keep the promise of SignIn: from the moment a *)
(* challenge is found to the session, no other request can use it, and the *)
(* session has the wallet it was offered to and the role that wallet has.  *)
KeepsPromise == Promise!Spec
=============================================================================
