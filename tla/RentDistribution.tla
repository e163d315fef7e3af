--------------------------- MODULE RentDistribution ---------------------------
(***************************************************************************)
(* contracts/RentDistribution.sol: the on-chain ledger of rent and yield.  *)
(* A tenant pays a property's monthly rent; every listed investor is       *)
(* credited the floor of its pro-rata share and later withdraws it.  The   *)
(* owner may also credit an investor without paying anything in            *)
(* (accrueInvestorRewards), which is how the backend back-fills yield.     *)
(* A transaction that reverts changes nothing, so it is no step here, and  *)
(* a transfer of ETH that fails reverts the transaction it is part of.     *)
(***************************************************************************)
EXTENDS Integers, FiniteSets, Sequences, Functions

CONSTANTS
  Properties,     \* property ids (all positive: registerProperty refuses 0)
  Accounts,       \* addresses that can hold tokens, be listed and pay rent
  Zero,           \* address(0)
  MaxInvestors,   \* 1000 in the code
  Rents,          \* the rents the owner may set, each in 1 .. 100 ether
  Amounts,        \* amounts of direct deposits, accruals and token moves
  MaxBatch,       \* longest addInvestors batch enumerated
  MaxSupply,      \* bound: tokens minted per property
  MaxCollected,   \* bound: total rent collected
  MaxUnbacked,    \* bound: total accrued without payment
  MaxDonated      \* bound: total received by receive()

ASSUME RentAssumption ==
  /\ IsFiniteSet(Properties) /\ IsFiniteSet(Accounts)
  /\ Zero \notin Accounts
  /\ Rents \subseteq Nat \ {0} /\ Amounts \subseteq Nat \ {0}
  /\ MaxInvestors \in Nat /\ MaxBatch \in Nat /\ MaxSupply \in Nat
  /\ MaxCollected \in Nat /\ MaxUnbacked \in Nat /\ MaxDonated \in Nat

VARIABLES
  active,         \* properties[p].active
  monthlyRent,    \* properties[p].monthlyRentWei, 0 when not set
  investorList,   \* _investors[p], as the number of times each account is listed
  isInvestor,     \* _isInvestor[p]
  paused,         \* Pausable
  claimable,      \* claimableRewards[account]
  propClaimable,  \* propertyClaimableRewards[p][account]
  claimed,        \* totalClaimedRewards[account]
  propClaimed,    \* propertyClaimedRewards[p][account]
  collected,      \* totalRentCollected
  distributed,    \* totalRentDistributed
  eth,            \* address(this).balance
  supply,         \* the security token's totalSupply, per property
  tokens,         \* the security token's balanceOf, per property
  unbacked,       \* history: sum of accrueInvestorRewards amounts
  donated         \* history: sum received by receive()

config == <<active, monthlyRent, investorList, isInvestor, paused>>
ledger == <<claimable, propClaimable, claimed, propClaimed>>
totals == <<collected, distributed, eth, unbacked, donated>>
market == <<supply, tokens>>
vars == <<config, ledger, totals, market>>

None == [a \in Accounts |-> 0]

Init ==
  /\ active = [p \in Properties |-> FALSE]
  /\ monthlyRent = [p \in Properties |-> 0]
  /\ investorList = [p \in Properties |-> None]
  /\ isInvestor = [p \in Properties |-> {}]
  /\ paused = FALSE
  /\ claimable = None
  /\ propClaimable = [p \in Properties |-> None]
  /\ claimed = None
  /\ propClaimed = [p \in Properties |-> None]
  /\ collected = 0 /\ distributed = 0 /\ eth = 0
  /\ unbacked = 0 /\ donated = 0
  /\ supply = [p \in Properties |-> 0]
  /\ tokens = [p \in Properties |-> None]

ListLength(p) == SumFunction(investorList[p])

(* Each operator below named Mut* is a plausible bug, used only to confirm *)
(* that the properties notice it; none is part of the specification.       *)
MutShareRoundsUp(p, a, rent) ==
  (rent * tokens[p][a] + supply[p] - 1) \div supply[p]
MutSharePerToken(p, a, rent) == tokens[p][a] * (rent \div supply[p])

(* The whole-wei share of a rent that one listing of an account earns.     *)
Share(p, a, rent) == (rent * tokens[p][a]) \div supply[p]

(* What payRent credits to each account: the loop runs over the list, so   *)
(* an account listed twice would be credited twice.                        *)
Payouts(p, rent) ==
  [a \in Accounts |-> investorList[p][a] * Share(p, a, rent)]

MutAlwaysListable(p, a) == TRUE
NotYetListed(p, a) == a \notin isInvestor[p]

(* The part of msg.value that payRent sends back.                          *)
MutNoRefund(value, rent) == 0
Refund(value, rent) == value - rent

MutClaimsWholeBalance(p, a) == claimable[a]
ClaimAmount(p, a) == propClaimable[p][a]

MutKeepsTotal(a, amount) == claimable
AfterClaim(a, amount) == [claimable EXCEPT ![a] = @ - amount]

MutUncheckedBalance(p, from, n) == TRUE
HasTokens(p, from, n) == tokens[p][from] >= n

-------------------------------------------------------------------------------
RegisterProperty(p) ==
  /\ ~active[p]
  /\ active' = [active EXCEPT ![p] = TRUE]
  /\ monthlyRent' = [monthlyRent EXCEPT ![p] = 0]
  /\ UNCHANGED <<investorList, isInvestor, paused, ledger, totals, market>>

SetMonthlyRent(p, rent) ==
  /\ active[p]
  /\ monthlyRent' = [monthlyRent EXCEPT ![p] = rent]
  /\ UNCHANGED <<active, investorList, isInvestor, paused, ledger, totals, market>>

AddInvestor(p, a) ==
  /\ active[p]
  /\ ListLength(p) < MaxInvestors
  /\ NotYetListed(p, a)
  /\ isInvestor' = [isInvestor EXCEPT ![p] = @ \cup {a}]
  /\ investorList' = [investorList EXCEPT ![p][a] = @ + 1]
  /\ UNCHANGED <<active, monthlyRent, paused, ledger, totals, market>>

(* The batch may repeat an address or hold address(0); both are skipped,   *)
(* though they count towards the length limit.                             *)
AddInvestors(p, batch) ==
  LET added == {batch[i] : i \in DOMAIN batch} \ (isInvestor[p] \cup {Zero})
  IN /\ active[p]
     /\ batch # <<>>
     /\ ListLength(p) + Len(batch) <= MaxInvestors
     /\ isInvestor' = [isInvestor EXCEPT ![p] = @ \cup added]
     /\ investorList' = [investorList EXCEPT ![p] =
                           [a \in Accounts |-> @[a] + (IF a \in added THEN 1 ELSE 0)]]
     /\ UNCHANGED <<active, monthlyRent, paused, ledger, totals, market>>

SetPaused(b) ==
  /\ paused # b
  /\ paused' = b
  /\ UNCHANGED <<active, monthlyRent, investorList, isInvestor, ledger, totals, market>>

PayRent(p, value) ==
  LET rent == monthlyRent[p]
      pay  == Payouts(p, rent)
  IN /\ ~paused
     /\ active[p] /\ rent > 0
     /\ value >= rent /\ value <= 2 * rent
     /\ ListLength(p) > 0 /\ ListLength(p) <= MaxInvestors
     /\ supply[p] > 0
     /\ collected + rent <= MaxCollected
     /\ collected' = collected + rent
     /\ distributed' = distributed + SumFunction(pay)
     /\ claimable' = [a \in Accounts |-> claimable[a] + pay[a]]
     /\ propClaimable' = [propClaimable EXCEPT ![p] =
                            [a \in Accounts |-> @[a] + pay[a]]]
     /\ eth' = eth + value - Refund(value, rent)
     /\ UNCHANGED <<config, claimed, propClaimed, unbacked, donated, market>>

AccrueInvestorRewards(p, a, amount) ==
  /\ active[p]
  /\ a \in isInvestor[p]
  /\ unbacked + amount <= MaxUnbacked
  /\ claimable' = [claimable EXCEPT ![a] = @ + amount]
  /\ propClaimable' = [propClaimable EXCEPT ![p][a] = @ + amount]
  /\ unbacked' = unbacked + amount
  /\ UNCHANGED <<config, claimed, propClaimed, collected, distributed, eth, donated, market>>

ClaimRewards(p, a) ==
  LET amount == ClaimAmount(p, a)
  IN /\ ~paused
     /\ active[p]
     /\ amount > 0
     /\ eth >= amount                          \* else sendValue reverts
     /\ claimable[a] >= amount                 \* else the subtraction reverts
     /\ propClaimable' = [propClaimable EXCEPT ![p][a] = 0]
     /\ claimable' = AfterClaim(a, amount)
     /\ propClaimed' = [propClaimed EXCEPT ![p][a] = @ + amount]
     /\ claimed' = [claimed EXCEPT ![a] = @ + amount]
     /\ eth' = eth - amount
     /\ UNCHANGED <<config, collected, distributed, unbacked, donated, market>>

Receive(amount) ==
  /\ donated + amount <= MaxDonated
  /\ eth' = eth + amount
  /\ donated' = donated + amount
  /\ UNCHANGED <<config, ledger, collected, distributed, unbacked, market>>

(* The security token's _transfer, which this contract reads through       *)
(* balanceOf: an investment or a secondary transfer between two payments.  *)
TransferTokens(p, from, to, n) ==
  /\ from # to
  /\ HasTokens(p, from, n)
  /\ tokens' = [tokens EXCEPT ![p][from] = @ - n, ![p][to] = @ + n]
  /\ UNCHANGED <<config, ledger, totals, supply>>

(* The token's mint: nothing is minted at deployment, and the supply may   *)
(* grow between two payments, which dilutes every later share.             *)
MintTokens(p, to, n) ==
  /\ supply[p] + n <= MaxSupply
  /\ supply' = [supply EXCEPT ![p] = @ + n]
  /\ tokens' = [tokens EXCEPT ![p][to] = @ + n]
  /\ UNCHANGED <<config, ledger, totals>>

Batches == UNION {[1 .. n -> Accounts \cup {Zero}] : n \in 1 .. MaxBatch}
PaymentValues == UNION {r .. 2 * r : r \in Rents}

Next ==
  \/ \E p \in Properties : RegisterProperty(p)
  \/ \E p \in Properties, r \in Rents : SetMonthlyRent(p, r)
  \/ \E p \in Properties, a \in Accounts : AddInvestor(p, a)
  \/ \E p \in Properties, b \in Batches : AddInvestors(p, b)
  \/ \E b \in BOOLEAN : SetPaused(b)
  \/ \E p \in Properties, v \in PaymentValues : PayRent(p, v)
  \/ \E p \in Properties, a \in Accounts, n \in Amounts : AccrueInvestorRewards(p, a, n)
  \/ \E p \in Properties, a \in Accounts : ClaimRewards(p, a)
  \/ \E n \in Amounts : Receive(n)
  \/ \E p \in Properties, a, b \in Accounts, n \in Amounts : TransferTokens(p, a, b, n)
  \/ \E p \in Properties, a \in Accounts, n \in Amounts : MintTokens(p, a, n)

Spec == Init /\ [][Next]_vars
-------------------------------------------------------------------------------
(* Types of every variable.                                                *)
TypeOK ==
  /\ active \in [Properties -> BOOLEAN]
  /\ monthlyRent \in [Properties -> Rents \cup {0}]
  /\ investorList \in [Properties -> [Accounts -> Nat]]
  /\ isInvestor \in [Properties -> SUBSET Accounts]
  /\ paused \in BOOLEAN
  /\ claimable \in [Accounts -> Nat] /\ claimed \in [Accounts -> Nat]
  /\ propClaimable \in [Properties -> [Accounts -> Nat]]
  /\ propClaimed \in [Properties -> [Accounts -> Nat]]
  /\ collected \in Nat /\ distributed \in Nat /\ eth \in Nat
  /\ unbacked \in Nat /\ donated \in Nat
  /\ supply \in [Properties -> Nat]
  /\ tokens \in [Properties -> [Accounts -> Nat]]

(* No account is listed twice, and the list and the dedup map agree, so    *)
(* that payRent's loop credits every investor exactly once.                *)
ListedOnce ==
  \A p \in Properties, a \in Accounts :
    investorList[p][a] = IF a \in isInvestor[p] THEN 1 ELSE 0

(* The per-account total that claimRewards decrements is the sum of the    *)
(* per-property amounts it withdraws: the checked subtraction in           *)
(* claimRewards can never revert.                                          *)
BooksAgree ==
  \A a \in Accounts :
    /\ claimable[a] = SumFunction([p \in Properties |-> propClaimable[p][a]])
    /\ claimed[a] = SumFunction([p \in Properties |-> propClaimed[p][a]])

(* What investors are still owed, over all accounts.                       *)
Owed == SumFunction(claimable)
PaidOut == SumFunction(claimed)

(* Rounding only ever loses wei: no sequence of rent payments, with any    *)
(* token movement in between, credits more than the tenants paid.          *)
NeverOverDistributes == distributed <= collected

(* Every wei credited is owed or paid out, and every wei received is held  *)
(* or paid out: the two sides of the contract's books.                     *)
Conservation ==
  /\ Owed + PaidOut = distributed + unbacked
  /\ eth + PaidOut = collected + donated

(* The contract can be short of what it owes by at most what the owner     *)
(* accrued without paying it in; funded only by rent it is solvent.        *)
Solvency == Owed <= eth + unbacked

(* Rent in transit to nobody: when every holder is listed, a payment       *)
(* strands less than one wei per holder; a holder the backend did not list *)
(* is the only way to strand more.                                         *)
DustBounded ==
  [][\A p \in Properties :
       (/\ collected' > collected
        /\ propClaimable'[p] # propClaimable[p]
        /\ \A a \in Accounts : tokens[p][a] > 0 => a \in isInvestor[p])
       => (collected' - collected) - (distributed' - distributed)
            < Cardinality({a \in Accounts : tokens[p][a] > 0})]_vars

(* The contract keeps the promise of RentLedger: each investor of a        *)
(* payment is credited its floor share, a withdrawal takes the whole of    *)
(* one account's credit for one property and no other step takes any, and  *)
(* no wei leaves the contract but by a withdrawal (payRent's refund        *)
(* included): for the code's books, in which a credit is kept twice.       *)
Promise == INSTANCE RentLedger WITH stake <- tokens, owed <- propClaimable,
                                    paid <- propClaimed, fund <- eth
KeepsLedger == Promise!Spec
===============================================================================
