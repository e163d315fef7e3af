------------------------------ MODULE RentLedger ------------------------------
(***************************************************************************)
(* What the rent contract promises its investors, however it keeps its     *)
(* books: a payment of rent gives each account its share of the tokens, in *)
(* whole wei, or nothing; what an account is owed for a property grows     *)
(* until a withdrawal pays all of it out of the fund, and nothing else     *)
(* ever leaves the fund.                                                   *)
(***************************************************************************)
EXTENDS Integers, Functions

CONSTANTS Properties, Accounts,
          Rents,   \* what a payment may be
          Amounts  \* what may be given or credited without a payment

VARIABLES stake,   \* tokens of each property that each account holds
          owed,    \* wei each account may withdraw for each property
          paid,    \* wei each account has withdrawn for each property
          fund     \* wei held

ledgerVars == <<stake, owed, paid, fund>>

Nothing == [p \in Properties |-> [a \in Accounts |-> 0]]

Init == stake = Nothing /\ owed = Nothing /\ paid = Nothing /\ fund = 0

(* The market for the tokens is not the contract's business.               *)
Trade == /\ stake' \in [Properties -> [Accounts -> Nat]]
         /\ UNCHANGED <<owed, paid, fund>>

(* n is the fraction of a total, rounded down.                             *)
IsShare(n, rent, part, total) == n * total <= rent * part /\ rent * part < (n + 1) * total

Deposit(p, rent) ==
  \E due \in [Accounts -> 0 .. rent] :
    /\ \A a \in Accounts :
         due[a] # 0 => IsShare(due[a], rent, stake[p][a], SumFunction(stake[p]))
    /\ owed' = [owed EXCEPT ![p] = [a \in Accounts |-> @[a] + due[a]]]
    /\ fund' = fund + rent
    /\ UNCHANGED <<stake, paid>>

Credit(p, a, n) == /\ owed' = [owed EXCEPT ![p][a] = @ + n]
                   /\ UNCHANGED <<stake, paid, fund>>

Give(n) == /\ fund' = fund + n
           /\ UNCHANGED <<stake, owed, paid>>

Withdraw(p, a) == /\ 0 < owed[p][a] /\ owed[p][a] <= fund
                  /\ owed' = [owed EXCEPT ![p][a] = 0]
                  /\ paid' = [paid EXCEPT ![p][a] = @ + owed[p][a]]
                  /\ fund' = fund - owed[p][a]
                  /\ UNCHANGED stake

Next == \/ Trade
        \/ \E p \in Properties, rent \in Rents : Deposit(p, rent)
        \/ \E n \in Amounts : Give(n)
        \/ \E p \in Properties, a \in Accounts :
             Withdraw(p, a) \/ \E n \in Amounts : Credit(p, a, n)

Spec == Init /\ [][Next]_ledgerVars
===============================================================================
