------------------------------- MODULE SignIn -------------------------------
(***************************************************************************)
(* What signing in promises, whatever the requests and the database do:    *)
(* a wallet gets its role once, a challenge is for one wallet and admits   *)
(* it at most once, with the role the wallet has.                          *)
(***************************************************************************)
CONSTANTS Wallets, Nonces, Roles,
          None  \* no role; no wallet is called "new" or "closed"

VARIABLES account,    \* the role of each wallet, None before it has one
          challenge,  \* "new", the wallet it is open for, or "closed"
          granted     \* the sessions each challenge has led to

signInVars == <<account, challenge, granted>>

Init == /\ account \in [Wallets -> Roles \cup {None}]
        /\ challenge = [n \in Nonces |-> "new"]
        /\ granted = [n \in Nonces |-> {}]

Join(w, r) == /\ account[w] = None
              /\ account' = [account EXCEPT ![w] = r]
              /\ UNCHANGED <<challenge, granted>>

Offer(n, w) == /\ challenge[n] = "new"
               /\ challenge' = [challenge EXCEPT ![n] = w]
               /\ UNCHANGED <<account, granted>>

(* Time, a refusal, or a restart that ends many requests at once *)
Close == /\ challenge' \in [Nonces -> Wallets \cup {"new", "closed"}]
         /\ \A n \in Nonces : challenge'[n] # challenge[n] =>
                challenge[n] \in Wallets /\ challenge'[n] = "closed"
         /\ UNCHANGED <<account, granted>>

Admit(n, w) == /\ challenge[n] = w /\ account[w] # None
               /\ challenge' = [challenge EXCEPT ![n] = "closed"]
               /\ granted' = [granted EXCEPT ![n] = {[wallet |-> w, role |-> account[w]]}]
               /\ UNCHANGED account

Next == \/ Close
        \/ \E w \in Wallets, r \in Roles : Join(w, r)
        \/ \E n \in Nonces, w \in Wallets : Offer(n, w) \/ Admit(n, w)

Spec == Init /\ [][Next]_signInVars
=============================================================================
