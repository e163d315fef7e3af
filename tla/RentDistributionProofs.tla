------------------------ MODULE RentDistributionProofs ------------------------
(***************************************************************************)
(* Proofs about RentDistribution, for every set of properties, investors,  *)
(* rents and bounds.  Type correctness comes first; the other invariants   *)
(* are then proved one after the other, each using those before it.        *)
(***************************************************************************)
EXTENDS RentDistribution, FiniteSums

(* A share is a whole number of wei, and never rounds up, once there is a  *)
(* supply: payRent refuses a property without one.                         *)
LEMMA ShareBound ==
  ASSUME TypeOK, NEW p \in Properties, NEW a \in Accounts, NEW rent \in Nat,
         supply[p] > 0
  PROVE  /\ Share(p, a, rent) \in Nat
         /\ supply[p] * Share(p, a, rent) <= rent * tokens[p][a]
<1> DEFINE s == supply[p]
           n == rent * tokens[p][a]
<1>1. s \in Nat \ {0}
  BY DEF TypeOK
<1>2. n \in Nat
  <2>1. tokens[p][a] \in Nat
    BY DEF TypeOK
  <2>. QED
    BY <2>1
<1> HIDE DEF s, n
<1>3. (n \div s) \in Nat /\ s * (n \div s) <= n
  BY <1>1, <1>2
<1>. QED
  BY <1>3 DEF Share, s, n

LEMMA PayoutsType ==
  ASSUME TypeOK, NEW p \in Properties, NEW rent \in Nat, supply[p] > 0
  PROVE  Payouts(p, rent) \in [Accounts -> Nat]
<1>1. ASSUME NEW a \in Accounts PROVE investorList[p][a] * Share(p, a, rent) \in Nat
  <2>1. investorList[p][a] \in Nat
    BY DEF TypeOK
  <2>. QED
    BY <2>1, ShareBound
<1>. QED
  BY <1>1 DEF Payouts

LEMMA RentIsNat ==
  ASSUME RentAssumption, TypeOK, NEW p \in Properties
  PROVE  monthlyRent[p] \in Nat
<1>1. monthlyRent[p] \in Rents \/ monthlyRent[p] = 0
  BY DEF TypeOK
<1>2. \A r \in Rents : r \in Nat
  BY DEF RentAssumption
<1>3. 0 \in Nat
  OBVIOUS
<1>. QED
  BY <1>1, <1>2, <1>3, Zenon

(* Every variable keeps its type.                                          *)
THEOREM TypeCorrect == Spec => []TypeOK
<1> USE RentAssumption
<1>1. Init => TypeOK
  <2>1. None \in [Accounts -> Nat]
    BY DEF None
  <2> SUFFICES ASSUME Init PROVE TypeOK
    OBVIOUS
  <2>2. supply \in [Properties -> Nat] /\ tokens \in [Properties -> [Accounts -> Nat]]
    BY <2>1, Zenon DEF Init
  <2>3. /\ propClaimable \in [Properties -> [Accounts -> Nat]]
        /\ propClaimed \in [Properties -> [Accounts -> Nat]]
        /\ investorList \in [Properties -> [Accounts -> Nat]]
    BY <2>1, Zenon DEF Init
  <2>4. /\ active \in [Properties -> BOOLEAN]
        /\ monthlyRent \in [Properties -> Rents \cup {0}]
        /\ isInvestor \in [Properties -> SUBSET Accounts]
    BY DEF Init
  <2>. QED
    BY <2>1, <2>2, <2>3, <2>4 DEF Init, TypeOK
<1>2. TypeOK /\ [Next]_vars => TypeOK'
  <2> SUFFICES ASSUME TypeOK, [Next]_vars PROVE TypeOK'
    OBVIOUS
  <2> USE DEF TypeOK, config, ledger, totals, market
  <2>1. ASSUME NEW p \in Properties, RegisterProperty(p) PROVE TypeOK'
    BY <2>1 DEF RegisterProperty
  <2>2. ASSUME NEW p \in Properties, NEW r \in Rents, SetMonthlyRent(p, r) PROVE TypeOK'
    BY <2>2 DEF SetMonthlyRent
  <2>3. ASSUME NEW p \in Properties, NEW a \in Accounts, AddInvestor(p, a) PROVE TypeOK'
    BY <2>3 DEF AddInvestor
  <2>4. ASSUME NEW p \in Properties, NEW b \in Batches, AddInvestors(p, b) PROVE TypeOK'
    <3>1. {b[i] : i \in DOMAIN b} \ (isInvestor[p] \cup {Zero}) \subseteq Accounts
      BY DEF Batches
    <3>. QED
      BY <2>4, <3>1 DEF AddInvestors
  <2>5. ASSUME NEW b \in BOOLEAN, SetPaused(b) PROVE TypeOK'
    BY <2>5 DEF SetPaused
  <2>6. ASSUME NEW p \in Properties, NEW v \in PaymentValues, PayRent(p, v) PROVE TypeOK'
    <3> DEFINE pay == Payouts(p, monthlyRent[p])
    <3>1. monthlyRent[p] \in Nat /\ v \in Nat
      <4>1. PICK r \in Rents : v \in r .. 2 * r
        BY DEF PaymentValues
      <4>2. r \in Nat
        BY DEF RentAssumption
      <4>3. v \in Nat
        BY <4>1, <4>2
      <4>4. monthlyRent[p] \in Nat
        BY RentIsNat
      <4>. QED
        BY <4>3, <4>4
    <3>2. pay \in [Accounts -> Nat]
      BY <2>6, <3>1, PayoutsType DEF PayRent
    <3>3. SumFunction(pay) \in Nat
      BY <3>2, SumNat DEF RentAssumption
    <3> HIDE DEF pay
    <3>. QED
      BY <2>6, <3>1, <3>2, <3>3 DEF PayRent, Refund, pay
  <2>7. ASSUME NEW p \in Properties, NEW a \in Accounts, NEW n \in Amounts,
               AccrueInvestorRewards(p, a, n)
        PROVE  TypeOK'
    BY <2>7 DEF AccrueInvestorRewards, RentAssumption
  <2>8. ASSUME NEW p \in Properties, NEW a \in Accounts, ClaimRewards(p, a) PROVE TypeOK'
    BY <2>8 DEF ClaimRewards, ClaimAmount, AfterClaim
  <2>9. ASSUME NEW n \in Amounts, Receive(n) PROVE TypeOK'
    BY <2>9 DEF Receive, RentAssumption
  <2>10. ASSUME NEW p \in Properties, NEW a \in Accounts, NEW b \in Accounts,
                NEW n \in Amounts, TransferTokens(p, a, b, n)
         PROVE  TypeOK'
    BY <2>10 DEF TransferTokens, HasTokens, RentAssumption
  <2>11. ASSUME NEW p \in Properties, NEW a \in Accounts, NEW n \in Amounts,
                MintTokens(p, a, n)
         PROVE  TypeOK'
    BY <2>11 DEF MintTokens, RentAssumption
  <2>12. CASE UNCHANGED vars
    BY <2>12 DEF vars
  <2>. QED
    BY <2>1, <2>2, <2>3, <2>4, <2>5, <2>6, <2>7, <2>8, <2>9, <2>10, <2>11, <2>12
       DEF Next
<1>. QED
  BY <1>1, <1>2, PTL DEF Spec

(* The dedup map and the list agree, so payRent's loop visits an investor  *)
(* at most once (addInvestor, addInvestors).                               *)
THEOREM InvestorsListedOnce == Spec => []ListedOnce
<1>1. Init => ListedOnce
  BY DEF Init, ListedOnce, None
<1>2. TypeOK /\ ListedOnce /\ [Next]_vars => ListedOnce'
  <2> SUFFICES ASSUME TypeOK, ListedOnce, [Next]_vars PROVE ListedOnce'
    OBVIOUS
  <2> USE DEF ListedOnce
  <2>1. ASSUME NEW p \in Properties, NEW a \in Accounts, AddInvestor(p, a)
        PROVE  ListedOnce'
    BY <2>1 DEF AddInvestor, NotYetListed, TypeOK
  <2>2. ASSUME NEW p \in Properties, NEW b \in Batches, AddInvestors(p, b)
        PROVE  ListedOnce'
    <3> DEFINE added == {b[i] : i \in DOMAIN b} \ (isInvestor[p] \cup {Zero})
    <3>1. /\ isInvestor' = [isInvestor EXCEPT ![p] = isInvestor[p] \cup added]
          /\ investorList' = [investorList EXCEPT ![p] =
               [a \in Accounts |-> investorList[p][a] + (IF a \in added THEN 1 ELSE 0)]]
      BY <2>2 DEF AddInvestors
    <3>2. added \cap isInvestor[p] = {}
      OBVIOUS
    <3> HIDE DEF added
    <3>. QED
      BY <3>1, <3>2 DEF TypeOK
  <2>3. CASE UNCHANGED <<investorList, isInvestor>>
    BY <2>3
  <2>. QED
    BY <2>1, <2>2, <2>3 DEF Next, RegisterProperty, SetMonthlyRent, SetPaused, PayRent,
         AccrueInvestorRewards, ClaimRewards, Receive, TransferTokens, MintTokens,
         vars, config
<1>. QED
  BY <1>1, <1>2, TypeCorrect, PTL DEF Spec

(* The balances of a property's token add up to its supply: a transfer     *)
(* moves tokens, and only mint creates them.                               *)
TokensConserved ==
  \A p \in Properties : SumFunction(tokens[p]) = supply[p]

LEMMA TokensAreConserved == Spec => []TokensConserved
<1> USE RentAssumption
<1>1. Init => TokensConserved
  <2>1. None \in [Accounts -> Int] /\ \A a \in Accounts : None[a] = 0
    BY DEF None
  <2>2. SumFunction(None) = 0
    BY <2>1, SumZero DEF RentAssumption
  <2>. QED
    BY <2>2 DEF Init, TokensConserved
<1>2. TypeOK /\ TokensConserved /\ [Next]_vars => TokensConserved'
  <2> SUFFICES ASSUME TypeOK, TokensConserved, [Next]_vars PROVE TokensConserved'
    OBVIOUS
  <2>1. ASSUME NEW p \in Properties, NEW a \in Accounts, NEW b \in Accounts,
               NEW n \in Amounts, TransferTokens(p, a, b, n)
        PROVE  TokensConserved'
    <3> DEFINE f == tokens[p]
               d == -n
               g == [f EXCEPT ![a] = f[a] + d]
               h == [g EXCEPT ![b] = g[b] + n]
    <3>1. f \in [Accounts -> Int] /\ n \in Int /\ d \in Int /\ d = -n /\ a # b
      BY <2>1 DEF TypeOK, RentAssumption, TransferTokens
    <3>2. g \in [Accounts -> Int]
      BY <3>1
    <3>3. tokens' = [tokens EXCEPT ![p] = h]
      BY <2>1, <3>1 DEF TransferTokens, TypeOK
    <3> HIDE DEF f, d
    <3>4. SumFunction(g) = SumFunction(f) + d
      <4>1. IsFiniteSet(Accounts) /\ f \in [Accounts -> Int] /\ d \in Int
        BY <3>1 DEF RentAssumption
      <4>. QED
        BY <4>1, SumUpdate, ZenonT(60)
    <3> HIDE DEF g
    <3>5. SumFunction(h) = SumFunction(g) + n
      <4>1. IsFiniteSet(Accounts) /\ n \in Int
        BY <3>1 DEF RentAssumption
      <4>. QED
        BY <3>2, <4>1, SumUpdate, Zenon
    <3>6. SumFunction(f) \in Int
      BY <3>1, SumInt DEF RentAssumption
    <3> HIDE DEF h
    <3>7. SumFunction(h) = SumFunction(f)
      BY <3>1, <3>4, <3>5, <3>6
    <3>. QED
      BY <2>1, <3>3, <3>7 DEF TokensConserved, TypeOK, TransferTokens, f
  <2>2. ASSUME NEW p \in Properties, NEW a \in Accounts, NEW n \in Amounts,
               MintTokens(p, a, n)
        PROVE  TokensConserved'
    <3> DEFINE f == tokens[p]
               g == [f EXCEPT ![a] = f[a] + n]
    <3>1. f \in [Accounts -> Int] /\ n \in Int /\ IsFiniteSet(Accounts)
      BY DEF TypeOK, RentAssumption
    <3>2. tokens' = [tokens EXCEPT ![p] = g] /\ supply' = [supply EXCEPT ![p] = supply[p] + n]
      BY <2>2 DEF MintTokens, TypeOK
    <3> HIDE DEF f
    <3>3. SumFunction(g) = SumFunction(f) + n
      BY <3>1, SumUpdate, ZenonT(40)
    <3> HIDE DEF g
    <3>. QED
      BY <3>2, <3>3 DEF TokensConserved, TypeOK, f
  <2>3. CASE UNCHANGED market
    BY <2>3 DEF TokensConserved, market
  <2>. QED
    BY <2>1, <2>2, <2>3 DEF Next, RegisterProperty, SetMonthlyRent, AddInvestor, AddInvestors,
         SetPaused, PayRent, AccrueInvestorRewards, ClaimRewards, Receive, vars
<1>. QED
  BY <1>1, <1>2, TypeCorrect, PTL DEF Spec

(* One payment credits at most the rent: the floors of the shares of       *)
(* investors listed once, over a supply that the balances add up to.       *)
LEMMA PayoutsWithinRent ==
  ASSUME RentAssumption, TypeOK, ListedOnce, TokensConserved,
         NEW p \in Properties, NEW rent \in Nat, supply[p] > 0
  PROVE  SumFunction(Payouts(p, rent)) <= rent
<1> DEFINE pay == Payouts(p, rent)
           s == supply[p]
           f == tokens[p]
<1>1. s \in Nat \ {0} /\ s \in Int /\ rent \in Int
  BY DEF TypeOK
<1>2. f \in [Accounts -> Int] /\ SumFunction(f) = s
  BY DEF TypeOK, TokensConserved
<1>3. pay \in [Accounts -> Nat] /\ pay \in [Accounts -> Int]
  BY PayoutsType
<1>4. ASSUME NEW a \in Accounts PROVE s * pay[a] <= rent * f[a]
  <2>1. /\ Share(p, a, rent) \in Nat
        /\ s * Share(p, a, rent) <= rent * f[a]
    BY ShareBound
  <2>2. f[a] \in Nat /\ rent * f[a] \in Nat
    BY DEF TypeOK
  <2>3. pay[a] = Share(p, a, rent) \/ pay[a] = 0
    <3>1. pay[a] = investorList[p][a] * Share(p, a, rent)
      BY DEF Payouts
    <3>2. investorList[p][a] \in {0, 1}
      BY DEF ListedOnce
    <3>. QED
      BY <2>1, <3>1, <3>2
  <2> HIDE DEF pay, s, f
  <2>. QED
    BY <1>1, <2>1, <2>2, <2>3
<1> HIDE DEF pay, s, f
<1>5. s * SumFunction(pay) <= rent * SumFunction(f)
  BY <1>1, <1>2, <1>3, <1>4, SumScaled DEF RentAssumption
<1>6. SumFunction(pay) \in Nat
  BY <1>3, SumNat DEF RentAssumption
<1>7. s * SumFunction(pay) <= s * rent
  BY <1>1, <1>2, <1>5
<1>8. SumFunction(pay) <= rent
  BY <1>1, <1>6, <1>7
<1>. QED
  BY <1>8 DEF pay

(* No sequence of rent payments credits more wei than the tenants paid.    *)
THEOREM NeverOverDistributed == Spec => []NeverOverDistributes
<1> USE RentAssumption
<1>1. Init => NeverOverDistributes
  BY DEF Init, NeverOverDistributes
<1>2. /\ TypeOK /\ ListedOnce /\ TokensConserved /\ NeverOverDistributes
      /\ [Next]_vars
      => NeverOverDistributes'
  <2> SUFFICES ASSUME TypeOK, ListedOnce, TokensConserved, NeverOverDistributes,
                      [Next]_vars
               PROVE  NeverOverDistributes'
    OBVIOUS
  <2>1. ASSUME NEW p \in Properties, NEW v \in PaymentValues, PayRent(p, v)
        PROVE  NeverOverDistributes'
    <3> DEFINE n == SumFunction(Payouts(p, monthlyRent[p]))
    <3>1. monthlyRent[p] \in Nat
      BY RentIsNat
    <3>2. n <= monthlyRent[p]
      BY <2>1, <3>1, PayoutsWithinRent DEF PayRent
    <3>3. n \in Nat
      BY <2>1, <3>1, PayoutsType, SumNat DEF PayRent, RentAssumption
    <3>4. collected' = collected + monthlyRent[p] /\ distributed' = distributed + n
      BY <2>1 DEF PayRent
    <3> HIDE DEF n
    <3>. QED
      BY <3>1, <3>2, <3>3, <3>4 DEF NeverOverDistributes, TypeOK
  <2>2. CASE UNCHANGED <<collected, distributed>>
    BY <2>2 DEF NeverOverDistributes
  <2>. QED
    BY <2>1, <2>2 DEF Next, RegisterProperty, SetMonthlyRent, AddInvestor, AddInvestors,
         SetPaused, AccrueInvestorRewards, ClaimRewards, Receive, TransferTokens, MintTokens, vars, totals
<1>. QED
  BY <1>1, <1>2, TypeCorrect, InvestorsListedOnce, TokensAreConserved, PTL DEF Spec

(* Both sides of the contract's books balance after every transaction.     *)
THEOREM BooksBalance == Spec => []Conservation
<1> USE RentAssumption
<1>1. Init => Conservation
  <2>1. None \in [Accounts -> Int] /\ \A a \in Accounts : None[a] = 0
    BY DEF None
  <2>2. SumFunction(None) = 0
    BY <2>1, SumZero DEF RentAssumption
  <2>. QED
    BY <2>2 DEF Init, Conservation, Owed, PaidOut
<1>2. TypeOK /\ Conservation /\ [Next]_vars => Conservation'
  <2> SUFFICES ASSUME TypeOK, Conservation, [Next]_vars PROVE Conservation'
    OBVIOUS
  <2>1. /\ IsFiniteSet(Accounts)
        /\ claimable \in [Accounts -> Int] /\ claimed \in [Accounts -> Int]
        /\ Owed \in Int /\ PaidOut \in Int
    <3>1. claimable \in [Accounts -> Int] /\ claimed \in [Accounts -> Int]
      BY DEF TypeOK
    <3>. QED
      BY <3>1, SumInt DEF RentAssumption, Owed, PaidOut
  <2>2. ASSUME NEW p \in Properties, NEW v \in PaymentValues, PayRent(p, v)
        PROVE  Conservation'
    <3> DEFINE pay == Payouts(p, monthlyRent[p])
    <3>1. monthlyRent[p] \in Nat
      BY RentIsNat
    <3>2. pay \in [Accounts -> Nat] /\ pay \in [Accounts -> Int]
      BY <2>2, <3>1, PayoutsType DEF PayRent
    <3>3. v \in Nat
      <4>1. PICK r \in Rents : v \in r .. 2 * r
        BY DEF PaymentValues
      <4>2. r \in Nat
        BY DEF RentAssumption
      <4>. QED
        BY <4>1, <4>2
    <3>4. /\ claimable' = [a \in Accounts |-> claimable[a] + pay[a]]
          /\ claimed' = claimed /\ unbacked' = unbacked /\ donated' = donated
          /\ collected' = collected + monthlyRent[p]
          /\ distributed' = distributed + SumFunction(pay)
          /\ eth' = eth + v - (v - monthlyRent[p])
      BY <2>2 DEF PayRent, Refund
    <3> HIDE DEF pay
    <3>5. Owed' = Owed + SumFunction(pay)
      BY <2>1, <3>2, <3>4, SumOfSums DEF Owed
    <3>6. SumFunction(pay) \in Nat
      BY <2>1, <3>2, SumNat
    <3>7. PaidOut' = PaidOut
      BY <3>4 DEF PaidOut
    <3>8. collected \in Nat /\ distributed \in Nat /\ eth \in Nat /\ unbacked \in Nat
          /\ donated \in Nat
      BY DEF TypeOK
    <3>9. eth' = eth + monthlyRent[p]
      BY <3>1, <3>3, <3>4, <3>8
    <3>10. Owed' + PaidOut' = distributed' + unbacked'
      BY <2>1, <3>4, <3>5, <3>6, <3>7, <3>8 DEF Conservation
    <3>11. eth' + PaidOut' = collected' + donated'
      BY <2>1, <3>1, <3>4, <3>7, <3>8, <3>9 DEF Conservation
    <3>. QED
      BY <3>10, <3>11 DEF Conservation
  <2>3. ASSUME NEW p \in Properties, NEW a \in Accounts, NEW n \in Amounts,
               AccrueInvestorRewards(p, a, n)
        PROVE  Conservation'
    <3>1. n \in Int
      BY DEF RentAssumption
    <3>2. claimable' = [claimable EXCEPT ![a] = claimable[a] + n]
      BY <2>3 DEF AccrueInvestorRewards
    <3>3. SumFunction([claimable EXCEPT ![a] = claimable[a] + n]) = SumFunction(claimable) + n
      BY <2>1, <3>1, SumUpdate, ZenonT(60)
    <3>4. Owed' = Owed + n
      BY <3>2, <3>3 DEF Owed
    <3>5. PaidOut' = PaidOut
      BY <2>3 DEF AccrueInvestorRewards, PaidOut
    <3>. QED
      BY <2>1, <2>3, <3>1, <3>4, <3>5 DEF AccrueInvestorRewards, Conservation, TypeOK
  <2>4. ASSUME NEW p \in Properties, NEW a \in Accounts, ClaimRewards(p, a)
        PROVE  Conservation'
    <3> DEFINE n == propClaimable[p][a]
               d == -n
    <3>1. n \in Int /\ d \in Int /\ d = -n
      BY DEF TypeOK
    <3>2. /\ claimable' = [claimable EXCEPT ![a] = claimable[a] + d]
          /\ claimed' = [claimed EXCEPT ![a] = claimed[a] + n]
          /\ eth' = eth - n
          /\ collected' = collected /\ distributed' = distributed
          /\ unbacked' = unbacked /\ donated' = donated
      BY <2>1, <2>4, <3>1 DEF ClaimRewards, ClaimAmount, AfterClaim
    <3> HIDE DEF n, d
    <3>3. SumFunction([claimable EXCEPT ![a] = claimable[a] + d]) = SumFunction(claimable) + d
      <4>1. d \in Int
        BY <3>1
      <4>2. IsFiniteSet(Accounts) /\ claimable \in [Accounts -> Int]
        BY <2>1
      <4>. QED
        BY <4>1, <4>2, SumUpdate, ZenonT(40)
    <3>4. SumFunction([claimed EXCEPT ![a] = claimed[a] + n]) = SumFunction(claimed) + n
      <4>1. n \in Int
        BY <3>1
      <4>2. IsFiniteSet(Accounts) /\ claimed \in [Accounts -> Int]
        BY <2>1
      <4>. QED
        BY <4>1, <4>2, SumUpdate, ZenonT(40)
    <3>5. Owed' = Owed + d /\ PaidOut' = PaidOut + n
      BY <3>2, <3>3, <3>4 DEF Owed, PaidOut
    <3>. QED
      BY <2>1, <3>1, <3>2, <3>5 DEF Conservation, TypeOK
  <2>5. ASSUME NEW n \in Amounts, Receive(n) PROVE Conservation'
    <3>1. n \in Int
      BY DEF RentAssumption
    <3>2. Owed' = Owed /\ PaidOut' = PaidOut
      BY <2>5 DEF Receive, ledger, Owed, PaidOut
    <3>. QED
      BY <2>1, <2>5, <3>1, <3>2 DEF Receive, Conservation, TypeOK
  <2>6. CASE UNCHANGED <<ledger, totals>>
    BY <2>6 DEF ledger, totals, Conservation, Owed, PaidOut
  <2>. QED
    BY <2>2, <2>3, <2>4, <2>5, <2>6 DEF Next, RegisterProperty, SetMonthlyRent,
         AddInvestor, AddInvestors, SetPaused, TransferTokens, MintTokens, vars
<1>. QED
  BY <1>1, <1>2, TypeCorrect, PTL DEF Spec

(* What investors are owed exceeds the ETH held by at most what the owner  *)
(* accrued without paying it in.                                           *)
THEOREM ContractIsSolvent == Spec => []Solvency
<1>1. TypeOK /\ NeverOverDistributes /\ Conservation => Solvency
  <2> SUFFICES ASSUME TypeOK, NeverOverDistributes, Conservation PROVE Solvency
    OBVIOUS
  <2>1. Owed \in Int /\ PaidOut \in Int
    <3>1. claimable \in [Accounts -> Int] /\ claimed \in [Accounts -> Int]
      BY DEF TypeOK
    <3>. QED
      BY <3>1, RentAssumption, SumInt DEF RentAssumption, Owed, PaidOut
  <2>. QED
    BY <2>1 DEF TypeOK, NeverOverDistributes, Conservation, Solvency
<1>. QED
  BY <1>1, TypeCorrect, NeverOverDistributed, BooksBalance, PTL

(* The per-account totals are the sums of the per-property amounts, so the *)
(* checked subtraction in claimRewards never reverts.                      *)
THEOREM TotalsAgree == Spec => []BooksAgree
<1> USE RentAssumption
<1>1. Init => BooksAgree
  <2> SUFFICES ASSUME Init, NEW a \in Accounts
               PROVE  /\ claimable[a] = SumFunction([p \in Properties |-> propClaimable[p][a]])
                      /\ claimed[a] = SumFunction([p \in Properties |-> propClaimed[p][a]])
    BY DEF BooksAgree
  <2> DEFINE z == [p \in Properties |-> 0]
  <2>1. SumFunction(z) = 0
    BY SumZero DEF RentAssumption
  <2>2. /\ [p \in Properties |-> propClaimable[p][a]] = z
        /\ [p \in Properties |-> propClaimed[p][a]] = z
        /\ claimable[a] = 0 /\ claimed[a] = 0
    BY DEF Init, None
  <2>. QED
    BY <2>1, <2>2
<1>2. TypeOK /\ BooksAgree /\ [Next]_vars => BooksAgree'
  <2> SUFFICES ASSUME TypeOK, BooksAgree, [Next]_vars, NEW a \in Accounts
               PROVE  /\ claimable'[a] = SumFunction([p \in Properties |-> propClaimable'[p][a]])
                      /\ claimed'[a] = SumFunction([p \in Properties |-> propClaimed'[p][a]])
    BY DEF BooksAgree
  <2> DEFINE f == [p \in Properties |-> propClaimable[p][a]]
             g == [p \in Properties |-> propClaimed[p][a]]
  <2>1. /\ IsFiniteSet(Properties)
        /\ f \in [Properties -> Int] /\ g \in [Properties -> Int]
        /\ claimable[a] = SumFunction(f) /\ claimed[a] = SumFunction(g)
    <3>1. IsFiniteSet(Properties)
      BY DEF RentAssumption
    <3>2. f \in [Properties -> Int] /\ g \in [Properties -> Int]
      BY DEF TypeOK
    <3>3. claimable[a] = SumFunction(f) /\ claimed[a] = SumFunction(g)
      BY Zenon DEF BooksAgree
    <3>. QED
      BY <3>1, <3>2, <3>3
  <2>2. ASSUME NEW p \in Properties, NEW d \in Int, NEW c \in Int,
               [q \in Properties |-> propClaimable'[q][a]] = [f EXCEPT ![p] = f[p] + d],
               [q \in Properties |-> propClaimed'[q][a]] = [g EXCEPT ![p] = g[p] + c],
               claimable'[a] = claimable[a] + d, claimed'[a] = claimed[a] + c
        PROVE  /\ claimable'[a] = SumFunction([q \in Properties |-> propClaimable'[q][a]])
               /\ claimed'[a] = SumFunction([q \in Properties |-> propClaimed'[q][a]])
    <3> HIDE DEF f, g
    <3>0. /\ IsFiniteSet(Properties)
          /\ f \in [Properties -> Int] /\ g \in [Properties -> Int]
      BY <2>1
    <3>1. SumFunction([f EXCEPT ![p] = f[p] + d]) = SumFunction(f) + d
      BY <3>0, SumUpdate, ZenonT(60)
    <3>2. SumFunction([g EXCEPT ![p] = g[p] + c]) = SumFunction(g) + c
      BY <3>0, SumUpdate, ZenonT(60)
    <3>. QED
      BY <2>1, <2>2, <3>1, <3>2
  <2>3. CASE UNCHANGED ledger
    BY <2>1, <2>3 DEF ledger
  <2>4. ASSUME NEW p \in Properties, NEW d \in Int, NEW c \in Int,
               propClaimable'[p][a] = propClaimable[p][a] + d,
               propClaimed'[p][a] = propClaimed[p][a] + c,
               \A q \in Properties \ {p} : /\ propClaimable'[q][a] = propClaimable[q][a]
                                           /\ propClaimed'[q][a] = propClaimed[q][a],
               claimable'[a] = claimable[a] + d, claimed'[a] = claimed[a] + c
        PROVE  /\ claimable'[a] = SumFunction([q \in Properties |-> propClaimable'[q][a]])
               /\ claimed'[a] = SumFunction([q \in Properties |-> propClaimed'[q][a]])
    <3>1. [q \in Properties |-> propClaimable'[q][a]] = [f EXCEPT ![p] = f[p] + d]
      BY <2>4
    <3>2. [q \in Properties |-> propClaimed'[q][a]] = [g EXCEPT ![p] = g[p] + c]
      BY <2>4
    <3>. QED
      BY <2>2, <2>4, <3>1, <3>2
  <2> HIDE DEF f, g
  <2>5. ASSUME NEW p \in Properties, NEW v \in PaymentValues, PayRent(p, v)
        PROVE  \E d \in Int :
                 /\ propClaimable'[p][a] = propClaimable[p][a] + d
                 /\ \A q \in Properties \ {p} : propClaimable'[q][a] = propClaimable[q][a]
                 /\ claimable'[a] = claimable[a] + d
                 /\ propClaimed' = propClaimed /\ claimed' = claimed
    <3> DEFINE pay == Payouts(p, monthlyRent[p])
    <3>1. pay \in [Accounts -> Nat]
      BY <2>5, RentIsNat, PayoutsType DEF PayRent
    <3>2. pay[a] \in Int
      BY <3>1
    <3> HIDE DEF pay
    <3>3. /\ claimable' = [b \in Accounts |-> claimable[b] + pay[b]]
          /\ propClaimable' = [propClaimable EXCEPT ![p] =
                                 [b \in Accounts |-> propClaimable[p][b] + pay[b]]]
          /\ propClaimed' = propClaimed /\ claimed' = claimed
      BY <2>5 DEF PayRent, pay
    <3>4. /\ propClaimable'[p][a] = propClaimable[p][a] + pay[a]
          /\ \A q \in Properties \ {p} : propClaimable'[q][a] = propClaimable[q][a]
          /\ claimable'[a] = claimable[a] + pay[a]
      BY <3>3 DEF TypeOK
    <3>. QED
      BY <3>2, <3>3, <3>4
  <2>6. ASSUME NEW p \in Properties, NEW b \in Accounts, NEW n \in Amounts,
               AccrueInvestorRewards(p, b, n)
        PROVE  \E d \in Int :
                 /\ propClaimable'[p][a] = propClaimable[p][a] + d
                 /\ \A q \in Properties \ {p} : propClaimable'[q][a] = propClaimable[q][a]
                 /\ claimable'[a] = claimable[a] + d
                 /\ propClaimed' = propClaimed /\ claimed' = claimed
    <3>1. n \in Int
      BY DEF RentAssumption
    <3>2. CASE a = b
      BY <2>6, <3>1, <3>2 DEF AccrueInvestorRewards, TypeOK
    <3>3. CASE a # b
      <4>1. 0 \in Int
        OBVIOUS
      <4>2. /\ propClaimable'[p][a] = propClaimable[p][a] + 0
            /\ \A q \in Properties \ {p} : propClaimable'[q][a] = propClaimable[q][a]
            /\ claimable'[a] = claimable[a] + 0
            /\ propClaimed' = propClaimed /\ claimed' = claimed
        BY <2>6, <3>3 DEF AccrueInvestorRewards, TypeOK
      <4>. QED
        BY <4>1, <4>2
    <3>. QED
      BY <3>2, <3>3
  <2>7. ASSUME NEW p \in Properties, NEW b \in Accounts, ClaimRewards(p, b), a = b
        PROVE  \E c \in Int, d \in Int :
                 /\ propClaimable'[p][a] = propClaimable[p][a] + d
                 /\ propClaimed'[p][a] = propClaimed[p][a] + c
                 /\ \A q \in Properties \ {p} : /\ propClaimable'[q][a] = propClaimable[q][a]
                                                /\ propClaimed'[q][a] = propClaimed[q][a]
                 /\ claimable'[a] = claimable[a] + d
                 /\ claimed'[a] = claimed[a] + c
    <3> DEFINE c == propClaimable[p][a]
               d == -c
    <3>1. c \in Int /\ d \in Int
      BY DEF TypeOK
    <3>2. /\ propClaimable'[p][a] = propClaimable[p][a] + d
          /\ propClaimed'[p][a] = propClaimed[p][a] + c
          /\ \A q \in Properties \ {p} : /\ propClaimable'[q][a] = propClaimable[q][a]
                                         /\ propClaimed'[q][a] = propClaimed[q][a]
          /\ claimable'[a] = claimable[a] + d
          /\ claimed'[a] = claimed[a] + c
      BY <2>7 DEF ClaimRewards, ClaimAmount, AfterClaim, TypeOK
    <3> HIDE DEF c, d
    <3>. QED
      BY <3>1, <3>2
  <2>8. ASSUME NEW p \in Properties, NEW b \in Accounts, ClaimRewards(p, b), a # b
        PROVE  \A q \in Properties : /\ propClaimable'[q][a] = propClaimable[q][a]
                                     /\ propClaimed'[q][a] = propClaimed[q][a]
                                     /\ claimable'[a] = claimable[a]
                                     /\ claimed'[a] = claimed[a]
    BY <2>8 DEF ClaimRewards, ClaimAmount, AfterClaim, TypeOK
  <2>9. claimable[a] \in Int /\ claimed[a] \in Int
        /\ \A q \in Properties : propClaimable[q][a] \in Int /\ propClaimed[q][a] \in Int
    BY DEF TypeOK
  <2>10. ASSUME NEW p \in Properties, NEW v \in PaymentValues, PayRent(p, v)
         PROVE  /\ claimable'[a] = SumFunction([q \in Properties |-> propClaimable'[q][a]])
                /\ claimed'[a] = SumFunction([q \in Properties |-> propClaimed'[q][a]])
    <3>1. PICK d \in Int :
                 /\ propClaimable'[p][a] = propClaimable[p][a] + d
                 /\ \A q \in Properties \ {p} : propClaimable'[q][a] = propClaimable[q][a]
                 /\ claimable'[a] = claimable[a] + d
                 /\ propClaimed' = propClaimed /\ claimed' = claimed
      BY <2>5, <2>10
    <3>2. 0 \in Int /\ \A q \in Properties : propClaimed'[q][a] = propClaimed[q][a]
      BY <3>1
    <3>3. propClaimed'[p][a] = propClaimed[p][a] + 0 /\ claimed'[a] = claimed[a] + 0
      BY <2>9, <3>1
    <3>. QED
      BY <2>4, <3>1, <3>2, <3>3, ZenonT(60)
  <2>11. ASSUME NEW p \in Properties, NEW b \in Accounts, NEW n \in Amounts,
                AccrueInvestorRewards(p, b, n)
         PROVE  /\ claimable'[a] = SumFunction([q \in Properties |-> propClaimable'[q][a]])
                /\ claimed'[a] = SumFunction([q \in Properties |-> propClaimed'[q][a]])
    <3>1. PICK d \in Int :
                 /\ propClaimable'[p][a] = propClaimable[p][a] + d
                 /\ \A q \in Properties \ {p} : propClaimable'[q][a] = propClaimable[q][a]
                 /\ claimable'[a] = claimable[a] + d
                 /\ propClaimed' = propClaimed /\ claimed' = claimed
      BY <2>6, <2>11
    <3>2. 0 \in Int /\ \A q \in Properties : propClaimed'[q][a] = propClaimed[q][a]
      BY <3>1
    <3>3. propClaimed'[p][a] = propClaimed[p][a] + 0 /\ claimed'[a] = claimed[a] + 0
      BY <2>9, <3>1
    <3>. QED
      BY <2>4, <3>1, <3>2, <3>3
  <2>12. ASSUME NEW p \in Properties, NEW b \in Accounts, ClaimRewards(p, b)
         PROVE  /\ claimable'[a] = SumFunction([q \in Properties |-> propClaimable'[q][a]])
                /\ claimed'[a] = SumFunction([q \in Properties |-> propClaimed'[q][a]])
    <3>1. CASE a = b
      BY <2>4, <2>7, <2>12, <3>1
    <3>2. CASE a # b
      <4>1. \A q \in Properties : /\ propClaimable'[q][a] = propClaimable[q][a]
                                  /\ propClaimed'[q][a] = propClaimed[q][a]
                                  /\ claimable'[a] = claimable[a]
                                  /\ claimed'[a] = claimed[a]
        BY <2>8, <2>12, <3>2
      <4>2. /\ propClaimable'[p][a] = propClaimable[p][a] + 0
            /\ propClaimed'[p][a] = propClaimed[p][a] + 0
            /\ claimable'[a] = claimable[a] + 0
            /\ claimed'[a] = claimed[a] + 0
        BY <2>9, <4>1
      <4>3. 0 \in Int
        OBVIOUS
      <4>. QED
        BY <2>4, <4>1, <4>2, <4>3
    <3>. QED
      BY <3>1, <3>2
  <2>. QED
    BY <2>3, <2>10, <2>11, <2>12 DEF Next, RegisterProperty, SetMonthlyRent, AddInvestor,
         AddInvestors, SetPaused, Receive, TransferTokens, MintTokens, vars
<1>. QED
  BY <1>1, <1>2, TypeCorrect, PTL DEF Spec

(* A positive factor can be cancelled from a strict bound.                 *)
LEMMA Cancel ==
  ASSUME NEW s \in Nat \ {0}, NEW x \in Int, NEW n \in Nat \ {0}, s * x <= (s - 1) * n
  PROVE  x < n
<1>1. SUFFICES ASSUME x >= n PROVE FALSE
  OBVIOUS
<1>2. s * x >= s * n
  BY <1>1
<1>3. (s - 1) * n = s * n - n /\ s * n \in Int /\ s * x \in Int
  OBVIOUS
<1>. QED
  BY <1>2, <1>3

(* The floor of a share loses less than one wei, and a holder alone can    *)
(* lose something.                                                         *)
LEMMA ShareRest ==
  ASSUME TypeOK, NEW p \in Properties, NEW a \in Accounts, NEW rent \in Nat, supply[p] > 0
  PROVE  rent * tokens[p][a]
           <= supply[p] * Share(p, a, rent) + (IF tokens[p][a] > 0 THEN supply[p] - 1 ELSE 0)
<1> DEFINE s == supply[p]
           t == tokens[p][a]
           n == rent * t
<1>1. s \in Nat \ {0} /\ t \in Nat
  BY DEF TypeOK
<1>2. n \in Nat
  BY <1>1
<1>3. CASE t > 0
  <2> HIDE DEF n, s, t
  <2>1. n <= s * (n \div s) + (s - 1)
    BY <1>1, <1>2
  <2>. QED
    BY <1>3, <2>1 DEF Share, n, s, t
<1>4. CASE t = 0
  <2>1. n = 0
    BY <1>4
  <2>2. s * Share(p, a, rent) \in Nat
    BY <1>1, ShareBound
  <2>. QED
    BY <1>1, <1>4, <2>1, <2>2
<1>. QED
  BY <1>1, <1>3, <1>4

Holders(p) == {a \in Accounts : tokens[p][a] > 0}

(* When every holder is listed, the floors of one payment lose less than   *)
(* one wei for each of them.                                               *)
LEMMA PaymentDust ==
  ASSUME RentAssumption, TypeOK, ListedOnce, TokensConserved,
         NEW p \in Properties, NEW rent \in Nat, supply[p] > 0,
         Holders(p) \subseteq isInvestor[p]
  PROVE  rent - SumFunction(Payouts(p, rent)) < Cardinality(Holders(p))
<1> DEFINE pay == Payouts(p, rent)
           s == supply[p]
           f == tokens[p]
           one == [a \in Accounts |-> IF a \in Holders(p) THEN 1 ELSE 0]
           due == [a \in Accounts |-> rent * f[a]]
           given == [a \in Accounts |-> s * pay[a]]
           rest == [a \in Accounts |-> (s - 1) * one[a]]
<1>1. s \in Nat \ {0} /\ s \in Int /\ s - 1 \in Int /\ rent \in Int
  BY DEF TypeOK
<1>2. f \in [Accounts -> Nat] /\ f \in [Accounts -> Int] /\ SumFunction(f) = s
  BY DEF TypeOK, TokensConserved
<1>3. pay \in [Accounts -> Nat] /\ pay \in [Accounts -> Int]
  BY PayoutsType
<1>4. one \in [Accounts -> Int]
  OBVIOUS
<1>5. IsFiniteSet(Accounts) /\ Holders(p) \in SUBSET Accounts
  BY DEF RentAssumption, Holders
<1>6. SumFunction(one) = Cardinality(Holders(p)) /\ Cardinality(Holders(p)) \in Nat
  BY <1>5, SumIndicator, FS_Subset, FS_CardinalityType
<1>7. ASSUME NEW a \in Accounts PROVE rent * f[a] <= s * pay[a] + (s - 1) * one[a]
  <2>1. rent * f[a] <= s * Share(p, a, rent) + (IF f[a] > 0 THEN s - 1 ELSE 0)
    BY ShareRest
  <2>2. Share(p, a, rent) \in Nat /\ f[a] \in Nat
    BY <1>2, ShareBound
  <2>3. CASE f[a] > 0
    <3>1. a \in isInvestor[p] /\ one[a] = 1
      BY <2>3 DEF Holders
    <3>2. pay[a] = Share(p, a, rent)
      <4>1. investorList[p][a] = 1
        BY <3>1 DEF ListedOnce
      <4>. QED
        BY <2>2, <4>1 DEF Payouts
    <3> HIDE DEF pay, s, f, one
    <3>. QED
      BY <1>1, <2>1, <2>2, <2>3, <3>1, <3>2
  <2>4. CASE f[a] = 0
    <3>1. one[a] = 0
      BY <2>4 DEF Holders
    <3>2. pay[a] \in Nat
      BY <1>3
    <3> HIDE DEF pay, s, f, one
    <3>3. rent * f[a] = 0 /\ (s - 1) * one[a] = 0 /\ s * pay[a] \in Nat
      BY <1>1, <2>4, <3>1, <3>2
    <3>. QED
      BY <3>3
  <2>. QED
    BY <2>2, <2>3, <2>4
<1> HIDE DEF pay, s, f, one
<1>8. /\ due \in [Accounts -> Int] /\ given \in [Accounts -> Int] /\ rest \in [Accounts -> Int]
      /\ \A a \in Accounts : due[a] = rent * f[a]
      /\ \A a \in Accounts : given[a] = s * pay[a]
      /\ \A a \in Accounts : rest[a] = (s - 1) * one[a]
  BY <1>1, <1>2, <1>3, <1>4
<1>9. \A a \in Accounts : due[a] <= given[a] + rest[a]
  BY <1>7
<1> HIDE DEF due, given, rest
<1>10. SumFunction(due) = rent * s
  BY <1>1, <1>2, <1>5, <1>8, SumTimes, SMTT(60)
<1>11. SumFunction(given) = s * SumFunction(pay)
  BY <1>1, <1>3, <1>5, <1>8, SumTimes
<1>12. SumFunction(rest) = (s - 1) * SumFunction(one)
  BY <1>1, <1>4, <1>5, <1>8, SumTimes
<1>13. SumFunction(due) <= SumFunction(given) + SumFunction(rest)
  <2> DEFINE both == [a \in Accounts |-> given[a] + rest[a]]
  <2>1. both \in [Accounts -> Int] /\ \A a \in Accounts : due[a] <= both[a]
    BY <1>8, <1>9
  <2>2. SumFunction(both) = SumFunction(given) + SumFunction(rest)
    <3>1. /\ IsFiniteSet(Accounts)
          /\ given \in [Accounts -> Int] /\ rest \in [Accounts -> Int]
      BY <1>5, <1>8
    <3>2. SumFunction([a \in Accounts |-> given[a] + rest[a]])
            = SumFunction(given) + SumFunction(rest)
      BY <3>1, SumOfSums
    <3>. QED
      BY <3>2
  <2> HIDE DEF both
  <2>3. SumFunction(due) <= SumFunction(both)
    BY <1>5, <1>8, <2>1, SumMonotone
  <2>. QED
    BY <2>2, <2>3
<1>14. SumFunction(one) # 0
  <2>1. SUFFICES ASSUME SumFunction(one) = 0 PROVE FALSE
    OBVIOUS
  <2>2. Holders(p) = {}
    BY <1>5, <1>6, <2>1, FS_Subset, FS_EmptySet
  <2>3. \A a \in Accounts : f[a] = 0
    BY <1>2, <2>2 DEF Holders, f
  <2>4. SumFunction(f) = 0
    BY <1>2, <1>5, <2>3, SumZero
  <2>. QED
    BY <1>1, <1>2, <2>4
<1> DEFINE P == SumFunction(pay)
           n == SumFunction(one)
<1>15. P \in Nat /\ n \in Nat \ {0}
  BY <1>3, <1>5, <1>6, <1>14, SumNat
<1>16. rent * s <= s * P + (s - 1) * n
  BY <1>10, <1>11, <1>12, <1>13
<1> HIDE DEF P, n
<1>17. s * (rent - P) <= (s - 1) * n
  <2>1. s * (rent - P) = rent * s - s * P /\ s * P \in Int /\ rent * s \in Int
        /\ (s - 1) * n \in Int
    BY <1>1, <1>15
  <2>. QED
    BY <1>16, <2>1
<1>18. rent - P \in Int
  BY <1>1, <1>15
<1>19. rent - P < n
  BY <1>1, <1>15, <1>17, <1>18, Cancel
<1>. QED
  BY <1>6, <1>19 DEF P, n, pay

(* What a payment strands is rounding only, and less than one wei for each *)
(* holder, as long as the backend has listed all of them.                  *)
THEOREM DustIsBounded == Spec => DustBounded
<1> USE RentAssumption
<1> DEFINE Dusty(p) ==
             (/\ collected' > collected
              /\ propClaimable'[p] # propClaimable[p]
              /\ \A a \in Accounts : tokens[p][a] > 0 => a \in isInvestor[p])
             => (collected' - collected) - (distributed' - distributed)
                  < Cardinality({a \in Accounts : tokens[p][a] > 0})
           Step == \A p \in Properties : Dusty(p)
<1>1. TypeOK /\ ListedOnce /\ TokensConserved /\ [Next]_vars => [Step]_vars
  <2> SUFFICES ASSUME TypeOK, ListedOnce, TokensConserved, [Next]_vars, NEW p \in Properties
               PROVE  Dusty(p)
    OBVIOUS
  <2>1. ASSUME NEW q \in Properties, NEW v \in PaymentValues, PayRent(q, v)
        PROVE  Dusty(p)
    <3> SUFFICES ASSUME propClaimable'[p] # propClaimable[p],
                        \A a \in Accounts : tokens[p][a] > 0 => a \in isInvestor[p]
                 PROVE  (collected' - collected) - (distributed' - distributed)
                          < Cardinality(Holders(p))
      BY DEF Holders
    <3> DEFINE rent == monthlyRent[p]
               paid == SumFunction(Payouts(p, rent))
    <3>1. p = q
      BY <2>1 DEF PayRent, TypeOK
    <3>2. /\ collected' = collected + rent /\ distributed' = distributed + paid
          /\ supply[p] > 0 /\ rent \in Nat
      BY <2>1, <3>1, RentIsNat DEF PayRent
    <3>3. Holders(p) \subseteq isInvestor[p]
      BY DEF Holders
    <3>4. rent - paid < Cardinality(Holders(p))
      BY <3>2, <3>3, PaymentDust
    <3>5. paid \in Nat
      BY <3>2, PayoutsType, SumNat DEF RentAssumption
    <3>6. collected \in Nat /\ distributed \in Nat
      BY DEF TypeOK
    <3> HIDE DEF rent, paid
    <3>7. (collected' - collected) - (distributed' - distributed) = rent - paid
      BY <3>2, <3>5, <3>6
    <3>. QED
      BY <3>4, <3>7
  <2>2. CASE UNCHANGED collected
    BY <2>2 DEF TypeOK
  <2>. QED
    BY <2>1, <2>2 DEF Next, RegisterProperty, SetMonthlyRent, AddInvestor, AddInvestors,
         SetPaused, AccrueInvestorRewards, ClaimRewards, Receive, TransferTokens, MintTokens, vars, totals
<1>. QED
  BY <1>1, TypeCorrect, InvestorsListedOnce, TokensAreConserved, PTL DEF Spec, DustBounded

(* The promise adds up as the contract's proofs do.                        *)
LEMMA SameSum ==
  ASSUME NEW f
  PROVE  Promise!SumFunction(f) = SumFunction(f)
BY DEF SumFunction, SumFunctionOnSet, FoldFunctionOnSet, MapThenFoldSet, Promise!SumFunction,
       Promise!SumFunctionOnSet, Promise!FoldFunctionOnSet, Promise!MapThenFoldSet

(* What payRent credits is a fair payout: to each account its share        *)
(* rounded down or nothing, and never more than the rent.                  *)
LEMMA PayoutsAreShares ==
  ASSUME RentAssumption, TypeOK, ListedOnce, TokensConserved,
         NEW p \in Properties, NEW rent \in Nat, supply[p] > 0, NEW a \in Accounts
  PROVE  /\ Payouts(p, rent)[a] \in 0 .. rent
         /\ Payouts(p, rent)[a] # 0
              => Promise!IsShare(Payouts(p, rent)[a], rent, tokens[p][a], SumFunction(tokens[p]))
<1> DEFINE s == supply[p]
           t == tokens[p][a]
           n == Share(p, a, rent)
<1>1. s \in Nat \ {0} /\ t \in Nat
  BY DEF TypeOK
<1>2. n \in Nat /\ s * n <= rent * t
  BY ShareBound
<1>3. rent * t <= s * n + (s - 1)
  <2>1. rent * t <= s * n + (IF t > 0 THEN s - 1 ELSE 0)
    BY ShareRest
  <2> HIDE DEF s, t, n
  <2>. QED
    BY <1>1, <1>2, <2>1
<1>4. t <= s
  <2>1. tokens[p] \in [Accounts -> Nat] /\ SumFunction(tokens[p]) = s
    BY DEF TypeOK, TokensConserved
  <2>. QED
    BY <2>1, SumTerm DEF RentAssumption
<1>5. Payouts(p, rent)[a] = n \/ Payouts(p, rent)[a] = 0
  <2>1. Payouts(p, rent)[a] = investorList[p][a] * n
    BY DEF Payouts
  <2>2. investorList[p][a] \in {0, 1}
    BY DEF ListedOnce
  <2>. QED
    BY <1>2, <2>1, <2>2
<1>6. SumFunction(tokens[p]) = s
  BY DEF TokensConserved
<1> HIDE DEF s, t, n
<1>7. n \in 0 .. rent
  <2>1. rent * t <= rent * s
    BY <1>1, <1>4
  <2>2. s * n <= s * rent
    BY <1>1, <1>2, <2>1
  <2>3. n <= rent
    BY <1>1, <1>2, <2>2
  <2>. QED
    BY <1>2, <2>3
<1>8. n * s <= rent * t /\ rent * t < (n + 1) * s
  <2>1. n * s = s * n /\ (n + 1) * s = s * n + s /\ s * n \in Nat /\ rent * t \in Nat
    BY <1>1, <1>2
  <2>. QED
    BY <1>1, <1>2, <1>3, <2>1
<1>9. Promise!IsShare(n, rent, t, s)
  BY <1>8 DEF Promise!IsShare
<1>. QED
  BY <1>5, <1>6, <1>7, <1>9 DEF t

(* A payment of rent is a deposit of it.                                   *)
LEMMA PaymentDeposits ==
  ASSUME RentAssumption, TypeOK, ListedOnce, TokensConserved,
         NEW p \in Properties, NEW v \in PaymentValues, PayRent(p, v)
  PROVE  \E rent \in Rents : Promise!Deposit(p, rent)
<1> DEFINE rent == monthlyRent[p]
           due == Payouts(p, rent)
<1>1. rent \in Rents /\ rent \in Nat /\ supply[p] > 0
  <2>1. rent \in Nat /\ rent > 0
    BY RentIsNat DEF PayRent
  <2>. QED
    BY <2>1 DEF PayRent, TypeOK
<1>2. due \in [Accounts -> 0 .. rent]
  <2>1. \A a \in Accounts : due[a] \in 0 .. rent
    BY <1>1, PayoutsAreShares
  <2>. QED
    BY <2>1 DEF Payouts
<1>3. \A a \in Accounts :
        due[a] # 0 => Promise!IsShare(due[a], rent, tokens[p][a], SumFunction(tokens[p]))
  BY <1>1, PayoutsAreShares
<1>4. propClaimable' = [propClaimable EXCEPT ![p] =
                          [a \in Accounts |-> propClaimable[p][a] + due[a]]]
  BY DEF PayRent
<1>5. eth' = eth + rent
  <2>1. PICK r \in Rents : v \in r .. 2 * r
    BY DEF PaymentValues
  <2>2. v \in Nat /\ eth \in Nat
    BY <2>1 DEF RentAssumption, TypeOK
  <2>3. eth' = eth + v - (v - rent)
    BY DEF PayRent, Refund
  <2> HIDE DEF rent
  <2>. QED
    BY <1>1, <2>2, <2>3
<1>6. UNCHANGED <<tokens, propClaimed>>
  BY DEF PayRent, market
<1> HIDE DEF due
<1>7. Promise!Deposit(p, rent)
  BY <1>2, <1>3, <1>4, <1>5, <1>6, SameSum DEF Promise!Deposit
<1>. QED
  BY <1>1, <1>7

(* The contract implements the ledger of its promise: whatever the owner,  *)
(* tenants, investors and the market do, every transaction is a payment    *)
(* that credits floor shares, a credit, a gift, a whole withdrawal, or     *)
(* nothing that the ledger speaks of.                                      *)
THEOREM Implements == Spec => KeepsLedger
<1> USE RentAssumption
<1>1. Init => Promise!Init
  BY DEF Init, None, Promise!Init, Promise!Nothing
<1>2. TypeOK /\ TypeOK' /\ ListedOnce /\ TokensConserved /\ [Next]_vars
        => [Promise!Next]_(Promise!ledgerVars)
  <2> SUFFICES ASSUME TypeOK, TypeOK', ListedOnce, TokensConserved, [Next]_vars
               PROVE  Promise!Next \/ UNCHANGED Promise!ledgerVars
    OBVIOUS
  <2>1. ASSUME NEW p \in Properties, NEW v \in PaymentValues, PayRent(p, v)
        PROVE  Promise!Next
    BY <2>1, PaymentDeposits DEF Promise!Next
  <2>2. ASSUME NEW p \in Properties, NEW a \in Accounts, NEW n \in Amounts,
               AccrueInvestorRewards(p, a, n)
        PROVE  Promise!Next
    <3>1. Promise!Credit(p, a, n)
      BY <2>2 DEF AccrueInvestorRewards, Promise!Credit, market
    <3>. QED
      BY <3>1 DEF Promise!Next
  <2>3. ASSUME NEW p \in Properties, NEW a \in Accounts, ClaimRewards(p, a)
        PROVE  Promise!Next
    <3>1. propClaimable[p][a] \in Nat /\ eth \in Nat
      BY DEF TypeOK
    <3>2. Promise!Withdraw(p, a)
      BY <2>3, <3>1 DEF ClaimRewards, ClaimAmount, Promise!Withdraw, market
    <3>. QED
      BY <3>2 DEF Promise!Next
  <2>4. ASSUME NEW n \in Amounts, Receive(n)
        PROVE  Promise!Next
    <3>1. Promise!Give(n)
      BY <2>4 DEF Receive, Promise!Give, ledger, market
    <3>. QED
      BY <3>1 DEF Promise!Next
  <2>5. CASE UNCHANGED <<ledger, eth>>
    <3>1. tokens' \in [Properties -> [Accounts -> Nat]]
      BY DEF TypeOK
    <3>2. Promise!Trade
      BY <2>5, <3>1 DEF Promise!Trade, ledger
    <3>. QED
      BY <3>2 DEF Promise!Next
  <2>. QED
    BY <2>1, <2>2, <2>3, <2>4, <2>5 DEF Next, RegisterProperty, SetMonthlyRent, AddInvestor,
         AddInvestors, SetPaused, TransferTokens, MintTokens, vars, totals
<1>. QED
  BY <1>1, <1>2, TypeCorrect, InvestorsListedOnce, TokensAreConserved, PTL
     DEF Spec, KeepsLedger, Promise!Spec
===============================================================================
