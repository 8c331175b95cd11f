---------------------------- MODULE BankingProofs ----------------------------
(***************************************************************************)
(* Types, solvency, the loan book, and that accounts which are not open    *)
(* hold and owe nothing, for any clients, amounts and rates.  The loop     *)
(* that pays deposit interest and the sums over all addresses are handled  *)
(* by RecursionProofs: whatever the list holds, each round of the loop     *)
(* leaves natural balances, does not touch an address without an account   *)
(* and moves between the funds and one balance what it pays.  An open      *)
(* account is always in the list, so the loop pays it.                     *)
(***************************************************************************)
EXTENDS Banking, RecursionProofs, SequenceTheorems, FiniteSetTheorems

BankInv == TypeOK /\ ClosedHoldsNothing

-----------------------------------------------------------------------------
(* Sums over all addresses                                                   *)

LEMMA AddressFinite == IsFiniteSet(Address)
BY BankingAssumption, FS_AddElement DEF Address

LEMMA SumType ==
  ASSUME NEW f \in Amounts
  PROVE  Sum(f) \in Int
<1>1. f \in [Address -> Int]
  BY DEF Amounts
<1> QED BY <1>1, AddressFinite, TotalType DEF Sum, Total

LEMMA SumChange ==
  ASSUME NEW f \in Amounts, NEW e \in Amounts, NEW a \in Address,
         \A x \in Address : x # a => e[x] = f[x]
  PROVE  Sum(e) = Sum(f) - f[a] + e[a]
<1>1. f \in [Address -> Int] /\ e \in [Address -> Int]
  BY DEF Amounts
<1> QED BY <1>1, AddressFinite, TotalChange DEF Sum, Total

-----------------------------------------------------------------------------
(* The second loop of addDepositInterest                                     *)

\* the states of the loop: what it preserves
Paying ==
  {s \in [balance : Amounts, funds : Int] :
     /\ \A a \in Address : ~ exists[a] => s.balance[a] = balance[a]
     /\ Sum(s.balance) + s.funds = Sum(balance) + operational_funds}

\* one round
PayEntry(i, s) ==
  LET addr == addressList[i]
      interest == Percent(s.balance[addr], depositInterestRate)
  IN  IF exists[addr]
      THEN [balance |-> [s.balance EXCEPT ![addr] = @ + interest],
            funds |-> s.funds - interest]
      ELSE s

LEMMA PercentType ==
  ASSUME NEW amount \in Nat, NEW rate \in Nat
  PROVE  Percent(amount, rate) \in Nat
BY DEF Percent

LEMMA PayEntryType ==
  ASSUME TypeOK, NEW i \in 1 .. Len(addressList), NEW s \in Paying
  PROVE  PayEntry(i, s) \in Paying
<1> DEFINE addr == addressList[i]
           interest == Percent(s.balance[addr], depositInterestRate)
<1>1. addr \in Address
  BY ElementOfSeq DEF TypeOK
<1>2. s.balance \in [Address -> Nat] /\ s.funds \in Int
  BY DEF Paying, Amounts
<1>3. interest \in Nat
  BY <1>1, <1>2, PercentType DEF TypeOK
<1> HIDE DEF interest, addr
<1>4. CASE exists[addr]
  <2> DEFINE raised == [s.balance EXCEPT ![addr] = @ + interest]
  <2>1. raised \in [Address -> Nat]
    BY <1>1, <1>2, <1>3
  <2>2. \A a \in Address : ~ exists[a] => raised[a] = balance[a]
    BY <1>2, <1>4 DEF Paying
  <2>3. PayEntry(i, s) = [balance |-> raised, funds |-> s.funds - interest]
    BY <1>4 DEF PayEntry, addr, interest
  <2>4. raised[addr] = s.balance[addr] + interest
        /\ \A x \in Address : x # addr => raised[x] = s.balance[x]
    BY <1>1, <1>2
  <2> HIDE DEF raised
  <2>5. Sum(raised) = Sum(s.balance) - s.balance[addr] + raised[addr]
    BY <1>1, <1>2, <2>1, <2>4, SumChange DEF Amounts
  <2>6. Sum(raised) + (s.funds - interest) = Sum(s.balance) + s.funds
    <3>1. Sum(s.balance) \in Int /\ s.balance[addr] \in Int
      BY <1>1, <1>2, SumType DEF Amounts
    <3> QED BY <1>2, <1>3, <2>4, <2>5, <3>1
  <2>7. Sum(s.balance) + s.funds = Sum(balance) + operational_funds
    BY DEF Paying
  <2> QED BY <1>2, <1>3, <2>1, <2>2, <2>3, <2>6, <2>7 DEF Paying, Amounts
<1>5. CASE ~ exists[addr]
  BY <1>5 DEF PayEntry, addr
<1> QED BY <1>4, <1>5

\* The loop goes entry by entry, through states it preserves.
LEMMA PayoutRounds ==
  ASSUME TypeOK
  PROVE  /\ Len(addressList) \in Nat
         /\ Payout[0] = [balance |-> balance, funds |-> operational_funds]
         /\ \A i \in 1 .. Len(addressList) : Payout[i] = PayEntry(i, Payout[i - 1])
         /\ \A i \in 0 .. Len(addressList) : Payout[i] \in Paying
<1> DEFINE n == Len(addressList)
           start == [balance |-> balance, funds |-> operational_funds]
           step == [p \in (1 .. n) \X Paying |-> PayEntry(p[1], p[2])]
<1>1. n \in Nat
  BY LenProperties DEF TypeOK
<1>2. start \in Paying
  BY DEF TypeOK, Paying
<1>3. step \in [(1 .. n) \X Paying -> Paying]
  BY PayEntryType
<1> HIDE DEF start, step, n
<1>4. PICK g \in [0 .. n -> Paying] : Rounds(g, n, start, step)
  BY <1>1, <1>2, <1>3, LoopExists
<1>5. g = [i \in 0 .. n |-> IF i = 0 THEN start ELSE PayEntry(i, g[i - 1])]
  <2>1. \A i \in 1 .. n : step[<<i, g[i - 1]>>] = PayEntry(i, g[i - 1])
    BY <1>1, <1>4 DEF step
  <2>2. g[0] = start /\ \A i \in 1 .. n : g[i] = PayEntry(i, g[i - 1])
    BY <1>1, <1>4, <2>1 DEF Rounds
  <2>3. ASSUME NEW i \in 0 .. n
        PROVE  g[i] = IF i = 0 THEN start ELSE PayEntry(i, g[i - 1])
    BY <1>1, <2>2
  <2> QED BY <2>3
<1>6. Payout = [i \in 0 .. n |-> IF i = 0 THEN start ELSE PayEntry(i, Payout[i - 1])]
  BY <1>5 DEF Payout, PayEntry, start, n
<1>7. Payout[0] = start
  BY <1>1, <1>6
<1>8. \A i \in 1 .. n : Payout[i] = PayEntry(i, Payout[i - 1])
  BY <1>1, <1>6
<1>9. \A i \in 1 .. n : Payout[i - 1] \in Paying => Payout[i] \in Paying
  BY <1>8, PayEntryType DEF n
<1>10. \A i \in 0 .. n : Payout[i] \in Paying
  BY <1>1, <1>2, <1>7, <1>9, LoopInvariant
<1> QED BY <1>1, <1>7, <1>8, <1>10 DEF n, start

LEMMA PayoutType ==
  ASSUME TypeOK
  PROVE  Payout[Len(addressList)] \in Paying
BY PayoutRounds

-----------------------------------------------------------------------------
(* The invariant, one lemma per group of functions                           *)

LEMMA BankInit == Init => BankInv
BY BankingAssumption DEF Init, Zero, BankInv, TypeOK, ClosedHoldsNothing, Amounts, Address

LEMMA AccountsKeep ==
  ASSUME BankInv, NEW a \in Address, openAccount(a) \/ closeAccount(a)
  PROVE  BankInv'
<1> USE DEF BankInv
<1>1. CASE openAccount(a)
  <2>1. addressList' \in Seq(Address)
    BY <1>1, AppendProperties DEF openAccount, TypeOK
  <2>2. TypeOK'
    BY <1>1, <2>1 DEF openAccount, TypeOK, Amounts, rates
  <2>3. ClosedHoldsNothing'
    BY <1>1 DEF openAccount, TypeOK, Amounts, ClosedHoldsNothing
  <2> QED BY <2>2, <2>3
<1>2. CASE closeAccount(a)
  <2>1. TypeOK'
    BY <1>2 DEF closeAccount, TypeOK, Amounts, rates
  <2>2. ClosedHoldsNothing'
    BY <1>2 DEF closeAccount, TypeOK, Amounts, ClosedHoldsNothing
  <2> QED BY <2>1, <2>2
<1> QED BY <1>1, <1>2

\* Ether that comes in is at most what the sender has; what goes out the contract has.
LEMMA PayType ==
  ASSUME TypeOK, NEW a \in Address, NEW v \in Nat,
         (PayIn(a, v) /\ v <= wallet[a]) \/ PayOut(a, v)
  PROVE  vault' \in Nat /\ wallet' \in Amounts
<1>1. wallet \in [Address -> Nat] /\ vault \in Nat
  BY DEF TypeOK, Amounts
<1>2. CASE PayIn(a, v) /\ v <= wallet[a]
  <2>1. vault' = vault + v /\ wallet' = [wallet EXCEPT ![a] = @ - v]
    BY <1>2 DEF PayIn
  <2>2. wallet[a] - v \in Nat
    BY <1>1, <1>2
  <2> QED BY <1>1, <2>1, <2>2 DEF Amounts
<1>3. CASE PayOut(a, v)
  <2>1. vault >= v /\ vault' = vault - v /\ wallet' = [wallet EXCEPT ![a] = @ + v]
    BY <1>3 DEF PayOut
  <2> QED BY <1>1, <2>1 DEF Amounts
<1> QED BY <1>2, <1>3

LEMMA DepositsKeep ==
  ASSUME BankInv, NEW a \in Address, NEW v \in Nat,
         (v <= wallet[a] /\ depositAmount(a, v)) \/ withDraw(a, v)
  PROVE  BankInv'
<1> USE DEF BankInv
<1>1. vault' \in Nat /\ wallet' \in Amounts
  BY PayType DEF depositAmount, withDraw
<1>2. a # Owner
  BY DEF depositAmount, withDraw, ClosedHoldsNothing
<1>3. /\ exists[a] /\ balance \in [Address -> Nat]
      /\ \/ balance' = [balance EXCEPT ![a] = @ + v]
         \/ v <= balance[a] /\ balance' = [balance EXCEPT ![a] = @ - v]
  BY DEF depositAmount, withDraw, TypeOK, Amounts
<1>4. balance' \in [Address -> Nat] /\ \A c \in Address : c # a => balance'[c] = balance[c]
  <2>1. balance[a] + v \in Nat /\ (v <= balance[a] => balance[a] - v \in Nat)
    BY <1>3
  <2> QED BY <1>3, <2>1
<1>5. UNCHANGED <<exists, principalLoan, interestLoan, addressList,
                  loan_funds, operational_funds, rates>>
  BY DEF depositAmount, withDraw
<1>6. TypeOK'
  BY <1>1, <1>4, <1>5 DEF TypeOK, Amounts, rates
<1>7. ClosedHoldsNothing'
  BY <1>2, <1>3, <1>4, <1>5 DEF ClosedHoldsNothing
<1> QED BY <1>6, <1>7

LEMMA TransferKeeps ==
  ASSUME BankInv, NEW a \in Address, NEW r \in Address, NEW v \in Nat,
         TransferEth(a, r, v)
  PROVE  BankInv'
<1> USE DEF BankInv
<1> DEFINE debited == [balance EXCEPT ![a] = @ - v]
<1>1. exists[a] /\ exists[r] /\ balance[a] >= v /\ balance \in [Address -> Nat]
  BY DEF TransferEth, TypeOK, Amounts
<1>2. debited \in [Address -> Nat] /\ \A c \in Address : c # a => debited[c] = balance[c]
  <2>1. balance[a] - v \in Nat
    BY <1>1
  <2> QED BY <1>1, <2>1
<1>3. balance' = [debited EXCEPT ![r] = @ + v]
  BY DEF TransferEth
<1> HIDE DEF debited
<1>4. balance' \in [Address -> Nat]
      /\ \A c \in Address : c # a /\ c # r => balance'[c] = balance[c]
  BY <1>2, <1>3
<1>5. UNCHANGED <<exists, principalLoan, interestLoan, addressList,
                  loan_funds, operational_funds, rates, vault, wallet>>
  BY DEF TransferEth
<1>6. TypeOK'
  BY <1>4, <1>5 DEF TypeOK, Amounts, rates
<1>7. a # Owner /\ r # Owner
  BY <1>1 DEF ClosedHoldsNothing
<1>8. ClosedHoldsNothing'
  BY <1>1, <1>4, <1>5, <1>7 DEF ClosedHoldsNothing
<1> QED BY <1>6, <1>8

LEMMA FundsKeep ==
  ASSUME BankInv, NEW a \in Address, NEW v \in Nat, v <= wallet[a],
         depositTopUp(a, v) \/ depositOperationalFunds(a, v)
  PROVE  BankInv'
<1> USE DEF BankInv
<1>1. vault' \in Nat /\ wallet' \in Amounts
  BY PayType DEF depositTopUp, depositOperationalFunds
<1>2. loan_funds' \in Nat /\ operational_funds' \in Nat /\ UNCHANGED <<accounts, rates>>
  BY DEF depositTopUp, depositOperationalFunds, TypeOK
<1>3. TypeOK'
  BY <1>1, <1>2 DEF TypeOK, accounts, rates
<1>4. ClosedHoldsNothing'
  BY <1>2 DEF ClosedHoldsNothing, accounts
<1> QED BY <1>3, <1>4

LEMMA TakeLoanKeeps ==
  ASSUME BankInv, NEW a \in Address, NEW v \in Nat, TakeLoan(a, v)
  PROVE  BankInv'
<1> USE DEF BankInv
<1>1. vault' \in Nat /\ wallet' \in Amounts
  BY PayType DEF TakeLoan
<1>2. loan_funds' \in Nat
  BY DEF TakeLoan, TypeOK
<1>3. a # Owner /\ exists[a] /\ principalLoan \in [Address -> Nat]
      /\ principalLoan' = [principalLoan EXCEPT ![a] = @ + v]
  BY DEF TakeLoan, TypeOK, Amounts
<1>4. UNCHANGED <<exists, balance, interestLoan, addressList, operational_funds, rates>>
  BY DEF TakeLoan
<1>5. TypeOK'
  BY <1>1, <1>2, <1>3, <1>4 DEF TypeOK, Amounts, rates
<1>6. ClosedHoldsNothing'
  BY <1>3, <1>4 DEF ClosedHoldsNothing
<1> QED BY <1>5, <1>6

LEMMA ReturnLoanKeeps ==
  ASSUME BankInv, NEW a \in Address, NEW v \in Nat, v <= wallet[a], returnLoan(a, v)
  PROVE  BankInv'
<1> USE DEF BankInv
<1> DEFINE interestPaid == IF v <= interestLoan[a] THEN v ELSE interestLoan[a]
           payment == v - interestPaid
<1>1. vault' \in Nat /\ wallet' \in Amounts
  BY PayType DEF returnLoan
<1>2. /\ exists[a] /\ v <= principalLoan[a] + interestLoan[a]
      /\ interestLoan' = [interestLoan EXCEPT ![a] = @ - interestPaid]
      /\ operational_funds' = operational_funds + interestPaid
      /\ principalLoan' = [principalLoan EXCEPT ![a] = @ - payment]
      /\ loan_funds' = loan_funds + payment
      /\ UNCHANGED <<exists, balance, addressList, rates>>
  BY DEF returnLoan
<1>3. principalLoan \in [Address -> Nat] /\ interestLoan \in [Address -> Nat]
  BY DEF TypeOK, Amounts
<1>4. /\ interestPaid \in Nat /\ payment \in Nat
      /\ interestLoan[a] - interestPaid \in Nat /\ principalLoan[a] - payment \in Nat
  BY <1>2, <1>3
<1> HIDE DEF interestPaid, payment
<1>5. principalLoan' \in [Address -> Nat] /\ interestLoan' \in [Address -> Nat]
  BY <1>2, <1>3, <1>4
<1>6. operational_funds' \in Nat /\ loan_funds' \in Nat
  BY <1>2, <1>4 DEF TypeOK
<1>7. TypeOK'
  BY <1>1, <1>2, <1>5, <1>6 DEF TypeOK, Amounts, rates
<1>8. a # Owner
  BY <1>2 DEF ClosedHoldsNothing
<1>9. ClosedHoldsNothing'
  BY <1>2, <1>3, <1>8 DEF ClosedHoldsNothing
<1> QED BY <1>7, <1>9

LEMMA DepositInterestKeeps ==
  ASSUME BankInv, NEW a \in Address, addDepositInterest(a)
  PROVE  BankInv'
<1> USE DEF BankInv
<1> DEFINE last == Payout[Len(addressList)]
<1>1. last \in Paying
  BY PayoutType
<1>2. last.funds >= 0 /\ balance' = last.balance /\ operational_funds' = last.funds
      /\ UNCHANGED <<exists, principalLoan, interestLoan, addressList,
                     loan_funds, rates, vault, wallet>>
  BY DEF addDepositInterest
<1> HIDE DEF last
<1>3. /\ balance' \in Amounts /\ operational_funds' \in Nat
      /\ \A c \in Address : ~ exists[c] => balance'[c] = balance[c]
  BY <1>1, <1>2 DEF Paying
<1>4. TypeOK'
  BY <1>2, <1>3 DEF TypeOK, rates
<1>5. ClosedHoldsNothing'
  BY <1>2, <1>3 DEF ClosedHoldsNothing
<1> QED BY <1>4, <1>5

LEMMA EntriesType ==
  ASSUME TypeOK, NEW a \in Address
  PROVE  Entries(a) \in Nat
<1>1. DOMAIN addressList = 1 .. Len(addressList) /\ Len(addressList) \in Nat
  BY LenProperties DEF TypeOK
<1>2. IsFiniteSet(1 .. Len(addressList))
  BY <1>1, FS_Interval
<1>3. IsFiniteSet({i \in DOMAIN addressList : addressList[i] = a})
  BY <1>1, <1>2, FS_Subset
<1> QED BY <1>3, FS_CardinalityType DEF Entries

LEMMA LoanInterestKeeps ==
  ASSUME BankInv, NEW a \in Address, addLoanInterest(a)
  PROVE  BankInv'
<1> USE DEF BankInv
<1>1. interestLoan' = [c \in Address |->
         IF exists[c] /\ principalLoan[c] > 0
         THEN interestLoan[c] + Entries(c) * Percent(principalLoan[c], loanInterestRate)
         ELSE interestLoan[c]]
      /\ UNCHANGED <<exists, balance, principalLoan, addressList,
                     loan_funds, operational_funds, rates, vault, wallet>>
  BY DEF addLoanInterest
<1>2. interestLoan' \in Amounts
  <2>1. ASSUME NEW c \in Address
        PROVE  interestLoan[c] + Entries(c) * Percent(principalLoan[c], loanInterestRate) \in Nat
    <3>1. Percent(principalLoan[c], loanInterestRate) \in Nat
      BY PercentType DEF TypeOK, Amounts
    <3>2. Entries(c) \in Nat /\ interestLoan[c] \in Nat
      BY EntriesType DEF TypeOK, Amounts
    <3> QED BY <3>1, <3>2
  <2>2. \A c \in Address : interestLoan[c] \in Nat
    BY DEF TypeOK, Amounts
  <2> QED BY <1>1, <2>1, <2>2 DEF Amounts
<1>3. TypeOK'
  BY <1>1, <1>2 DEF TypeOK, rates
<1>4. ClosedHoldsNothing'
  <2>1. \A c \in Address : ~ exists[c] => interestLoan'[c] = interestLoan[c]
    BY <1>1
  <2> QED BY <1>1, <2>1 DEF ClosedHoldsNothing
<1> QED BY <1>3, <1>4

LEMMA BankStep == BankInv /\ [Next]_vars => BankInv'
<1> SUFFICES ASSUME BankInv, [Next]_vars PROVE BankInv'
  OBVIOUS
<1>1. CASE UNCHANGED vars
  BY <1>1 DEF vars, accounts, rates, BankInv, TypeOK, ClosedHoldsNothing
<1>2. CASE Next
  <2>1. PICK a \in Address :
          \/ openAccount(a) \/ closeAccount(a)
          \/ \E value \in 0 .. wallet[a] :
               \/ depositAmount(a, value)
               \/ depositTopUp(a, value)
               \/ depositOperationalFunds(a, value)
               \/ returnLoan(a, value)
          \/ \E amount \in 0 .. balance[a] :
               \/ withDraw(a, amount)
               \/ \E recipient \in Address : TransferEth(a, recipient, amount)
          \/ \E amount \in 0 .. loan_funds : TakeLoan(a, amount)
          \/ \E deposit, loan \in Rate : setInterestRates(a, deposit, loan)
          \/ addDepositInterest(a)
          \/ addLoanInterest(a)
    BY <1>2 DEF Next
  <2>2. CASE openAccount(a) \/ closeAccount(a)
    BY <2>2, AccountsKeep
  <2>3. CASE \E value \in 0 .. wallet[a] :
               \/ depositAmount(a, value) \/ depositTopUp(a, value)
               \/ depositOperationalFunds(a, value) \/ returnLoan(a, value)
    <3>1. PICK value \in 0 .. wallet[a] :
               \/ depositAmount(a, value) \/ depositTopUp(a, value)
               \/ depositOperationalFunds(a, value) \/ returnLoan(a, value)
      BY <2>3
    <3>2. value \in Nat /\ value <= wallet[a]
      BY DEF BankInv, TypeOK, Amounts
    <3> QED BY <3>1, <3>2, DepositsKeep, FundsKeep, ReturnLoanKeeps
  <2>4. CASE \E amount \in 0 .. balance[a] :
               \/ withDraw(a, amount)
               \/ \E recipient \in Address : TransferEth(a, recipient, amount)
    BY <2>4, DepositsKeep, TransferKeeps
  <2>5. CASE \E amount \in 0 .. loan_funds : TakeLoan(a, amount)
    BY <2>5, TakeLoanKeeps
  <2>6. CASE \E deposit, loan \in Rate : setInterestRates(a, deposit, loan)
    BY <2>6, BankingAssumption
       DEF setInterestRates, accounts, BankInv, TypeOK, ClosedHoldsNothing
  <2>7. CASE addDepositInterest(a)
    BY <2>7, DepositInterestKeeps
  <2>8. CASE addLoanInterest(a)
    BY <2>8, LoanInterestKeeps
  <2> QED BY <2>1, <2>2, <2>3, <2>4, <2>5, <2>6, <2>7, <2>8
<1> QED BY <1>1, <1>2

\* The state of the contract keeps its types: no balance, debt or fund goes below 0.
THEOREM TypeCorrect == Spec => []TypeOK
<1>1. BankInv => TypeOK
  BY DEF BankInv
<1> QED BY BankInit, BankStep, <1>1, PTL DEF Spec

\* An address without an account, the owner's among them, holds and owes nothing,
\* after any number of openings, closings, transfers and interest payments.
THEOREM ClosedHoldsNothingAlways == Spec => []ClosedHoldsNothing
<1>1. BankInv => ClosedHoldsNothing
  BY DEF BankInv
<1> QED BY BankInit, BankStep, <1>1, PTL DEF Spec

-----------------------------------------------------------------------------
(* Solvency and the loan book                                                *)

\* What an action changes of the sums, given the types before and after it.
LEMMA SumsOf ==
  ASSUME TypeOK, TypeOK'
  PROVE  /\ Sum(balance) \in Int /\ Sum(principalLoan) \in Int
         /\ (UNCHANGED balance => Sum(balance') = Sum(balance))
         /\ (UNCHANGED principalLoan => Sum(principalLoan') = Sum(principalLoan))
         /\ \A a \in Address :
              /\ \A v \in Int : balance' = [balance EXCEPT ![a] = @ + v]
                                  => Sum(balance') = Sum(balance) + v
              /\ \A v \in Int : principalLoan' = [principalLoan EXCEPT ![a] = @ + v]
                                  => Sum(principalLoan') = Sum(principalLoan) + v
<1>1. /\ balance \in Amounts /\ balance' \in Amounts
      /\ principalLoan \in Amounts /\ principalLoan' \in Amounts
  BY DEF TypeOK
<1>2. ASSUME NEW f \in Amounts, NEW e \in Amounts, NEW a \in Address, NEW v \in Int,
             e = [f EXCEPT ![a] = @ + v]
      PROVE  Sum(e) = Sum(f) + v
  <2>1. f[a] \in Int /\ e[a] = f[a] + v /\ \A x \in Address : x # a => e[x] = f[x]
    BY <1>2 DEF Amounts
  <2>2. Sum(e) = Sum(f) - f[a] + e[a] /\ Sum(f) \in Int
    BY <2>1, SumChange, SumType
  <2> QED BY <2>1, <2>2
<1>3. Sum(balance) \in Int /\ Sum(principalLoan) \in Int
  BY <1>1, SumType
<1> QED BY <1>1, <1>2, <1>3

LEMMA SolvencyInit == Init => Solvency
<1> SUFFICES ASSUME Init PROVE Solvency
  OBVIOUS
<1> DEFINE zero == [x \in Address |-> 0]
<1>1. balance = zero /\ zero \in [Address -> Int]
  BY DEF Init, Zero
<1>2. Total(zero, Address) = 0
  BY <1>1, AddressFinite, TotalZero
<1>3. Sum(balance) = 0
  BY <1>1, <1>2 DEF Sum, Total
<1> QED BY <1>3 DEF Init, Solvency

\* The step of every action but the payment of interest on deposits.
LEMMA SolvencyOf ==
  ASSUME BankInv, BankInv', Solvency, NEW d \in Int, NEW w \in Int, NEW l \in Int,
         Sum(balance') = Sum(balance) + d, vault' = vault + w,
         loan_funds' + operational_funds' = loan_funds + operational_funds + l,
         w = d + l
  PROVE  Solvency'
<1>1. /\ Sum(balance) \in Int /\ vault \in Int
      /\ loan_funds \in Int /\ operational_funds \in Int
      /\ loan_funds' \in Int /\ operational_funds' \in Int
  BY SumType DEF BankInv, TypeOK
<1>2. Sum(balance') \in Int
  BY <1>1
<1>3. vault' = Sum(balance) + (loan_funds + operational_funds) + d + l
  BY <1>1 DEF Solvency
<1>4. vault' = Sum(balance') + (loan_funds + operational_funds + l)
  BY <1>1, <1>2, <1>3
<1>5. vault' = Sum(balance') + (loan_funds' + operational_funds')
  BY <1>4
<1>6. vault' = Sum(balance') + loan_funds' + operational_funds'
  BY <1>1, <1>2, <1>5
<1> QED BY <1>6 DEF Solvency

LEMMA TransferSum ==
  ASSUME BankInv, BankInv', NEW a \in Address, NEW r \in Address, NEW v \in Nat,
         TransferEth(a, r, v)
  PROVE  Sum(balance') = Sum(balance)
<1> DEFINE debited == [balance EXCEPT ![a] = @ - v]
<1>1. balance \in [Address -> Nat] /\ balance' \in [Address -> Nat] /\ balance[a] >= v
  BY DEF BankInv, TypeOK, Amounts, TransferEth
<1>2. balance[a] - v \in Nat
  BY <1>1
<1>3. /\ debited \in [Address -> Nat] /\ debited[a] = balance[a] - v
      /\ \A c \in Address : c # a => debited[c] = balance[c]
  BY <1>1, <1>2
<1>4. balance' = [debited EXCEPT ![r] = @ + v]
  BY DEF TransferEth
<1> HIDE DEF debited
<1>5. balance'[r] = debited[r] + v /\ \A c \in Address : c # r => balance'[c] = debited[c]
  BY <1>3, <1>4
<1>6. Sum(debited) = Sum(balance) - balance[a] + debited[a]
  BY <1>1, <1>3, SumChange DEF Amounts
<1>7. Sum(balance') = Sum(debited) - debited[r] + balance'[r]
  BY <1>1, <1>3, <1>5, SumChange DEF Amounts
<1>8. Sum(debited) = Sum(balance) - v /\ Sum(balance) \in Int
  BY <1>1, <1>3, <1>6, SumType DEF Amounts
<1>9. Sum(balance') = Sum(debited) + v
  BY <1>1, <1>3, <1>5, <1>7, <1>8
<1> QED BY <1>8, <1>9

\* An account that is opened holds and owes nothing already.
LEMMA OpenChangesNothing ==
  ASSUME BankInv, NEW a \in Address, openAccount(a)
  PROVE  UNCHANGED <<balance, principalLoan, interestLoan>>
<1>1. balance[a] = 0 /\ principalLoan[a] = 0 /\ interestLoan[a] = 0
  BY DEF BankInv, ClosedHoldsNothing, openAccount
<1>2. /\ balance \in [Address -> Nat] /\ principalLoan \in [Address -> Nat]
      /\ interestLoan \in [Address -> Nat]
  BY DEF BankInv, TypeOK, Amounts
<1>3. /\ balance' = [balance EXCEPT ![a] = 0]
      /\ principalLoan' = [principalLoan EXCEPT ![a] = 0]
      /\ interestLoan' = [interestLoan EXCEPT ![a] = 0]
  BY DEF openAccount
<1>4. balance' = balance
  BY <1>1, <1>2, <1>3
<1>5. principalLoan' = principalLoan
  BY <1>1, <1>2, <1>3
<1>6. interestLoan' = interestLoan
  BY <1>1, <1>2, <1>3
<1> QED BY <1>4, <1>5, <1>6

LEMMA PaymentsSolvent ==
  ASSUME BankInv, BankInv', Solvency, NEW a \in Address, NEW v \in Nat,
         \/ depositAmount(a, v) \/ withDraw(a, v)
         \/ depositTopUp(a, v) \/ depositOperationalFunds(a, v)
         \/ TakeLoan(a, v) \/ returnLoan(a, v)
  PROVE  Solvency'
<1> USE SumsOf DEF BankInv
<1>1. /\ vault \in Int /\ loan_funds \in Int /\ operational_funds \in Int
      /\ v \in Int /\ -v \in Int /\ 0 \in Int
      /\ Sum(balance) \in Int
  BY DEF TypeOK
<1>2. CASE depositAmount(a, v)
  <2>1. Sum(balance') = Sum(balance) + v
    BY <1>1, <1>2 DEF depositAmount
  <2>2. vault' = vault + v
        /\ loan_funds' + operational_funds' = loan_funds + operational_funds + 0
    BY <1>1, <1>2 DEF depositAmount, PayIn
  <2> QED BY <1>1, <2>1, <2>2, SolvencyOf
<1>3. CASE withDraw(a, v)
  <2>1. balance' = [balance EXCEPT ![a] = @ + (-v)]
    <3>1. balance' = [balance EXCEPT ![a] = @ - v] /\ balance[a] \in Int
      BY <1>3 DEF withDraw, TypeOK, Amounts
    <3>2. balance[a] - v = balance[a] + (-v)
      BY <3>1
    <3> QED BY <3>1, <3>2
  <2>2. Sum(balance') = Sum(balance) + (-v)
    BY <1>1, <2>1
  <2>3. vault' = vault + (-v)
        /\ loan_funds' + operational_funds' = loan_funds + operational_funds + 0
    BY <1>1, <1>3 DEF withDraw, PayOut
  <2> QED BY <1>1, <2>2, <2>3, SolvencyOf
<1>4. CASE depositTopUp(a, v) \/ depositOperationalFunds(a, v)
  <2>1. Sum(balance') = Sum(balance) + 0
    BY <1>1, <1>4 DEF depositTopUp, depositOperationalFunds, accounts
  <2>2. vault' = vault + v
        /\ loan_funds' + operational_funds' = loan_funds + operational_funds + v
    BY <1>1, <1>4 DEF depositTopUp, depositOperationalFunds, PayIn
  <2> QED BY <1>1, <2>1, <2>2, SolvencyOf
<1>5. CASE TakeLoan(a, v)
  <2>1. Sum(balance') = Sum(balance) + 0
    BY <1>1, <1>5 DEF TakeLoan
  <2>2. vault' = vault + (-v)
        /\ loan_funds' + operational_funds' = loan_funds + operational_funds + (-v)
    BY <1>1, <1>5 DEF TakeLoan, PayOut
  <2> QED BY <1>1, <2>1, <2>2, SolvencyOf
<1>6. CASE returnLoan(a, v)
  <2>1. Sum(balance') = Sum(balance) + 0
    BY <1>1, <1>6 DEF returnLoan
  <2>2. interestLoan[a] \in Int
    BY DEF TypeOK, Amounts
  <2>3. vault' = vault + v
        /\ loan_funds' + operational_funds' = loan_funds + operational_funds + v
    BY <1>1, <1>6, <2>2 DEF returnLoan, PayIn
  <2> QED BY <1>1, <2>1, <2>3, SolvencyOf
<1> QED BY <1>2, <1>3, <1>4, <1>5, <1>6

LEMMA DepositInterestSolvent ==
  ASSUME BankInv, BankInv', Solvency, NEW a \in Address, addDepositInterest(a)
  PROVE  Solvency'
<1> DEFINE paid == operational_funds - operational_funds'
<1>1. Sum(balance') + operational_funds' = Sum(balance) + operational_funds
  BY PayoutType DEF BankInv, Paying, addDepositInterest
<1>2. /\ loan_funds \in Int /\ operational_funds \in Int /\ operational_funds' \in Int
      /\ vault \in Int /\ Sum(balance) \in Int /\ Sum(balance') \in Int
  BY SumsOf, SumType DEF BankInv, TypeOK
<1>3. Sum(balance') = Sum(balance) + paid
  <2>1. ASSUME NEW x \in Int, NEW y \in Int, NEW p \in Int, NEW q \in Int, x + p = y + q
        PROVE  x = y + (q - p)
    BY <2>1
  <2> QED BY <1>1, <1>2, <2>1
<1>4. vault' = vault + 0 /\ loan_funds' = loan_funds
  BY <1>2 DEF addDepositInterest
<1>5. loan_funds' + operational_funds' = loan_funds + operational_funds + (-paid)
  <2>1. ASSUME NEW x \in Int, NEW p \in Int, NEW q \in Int
        PROVE  x + p = x + q + (-(q - p))
    OBVIOUS
  <2>2. loan_funds + operational_funds' = loan_funds + operational_funds + (-paid)
    BY <1>2, <2>1
  <2> QED BY <1>4, <2>2
<1>6. paid \in Int
  BY <1>2
<1> HIDE DEF paid
<1>7. -paid \in Int /\ 0 = paid + (-paid) /\ 0 \in Int
  BY <1>6
<1> QED BY <1>3, <1>4, <1>5, <1>6, <1>7, SolvencyOf

LEMMA SolvencyStep ==
  ASSUME BankInv, BankInv', Solvency, [Next]_vars
  PROVE  Solvency'
<1> USE DEF BankInv
<1>1. CASE UNCHANGED <<balance, loan_funds, operational_funds, vault>>
  BY <1>1, SumsOf DEF Solvency
<1>2. CASE Next /\ ~ UNCHANGED <<balance, loan_funds, operational_funds, vault>>
  <2>1. PICK a \in Address :
          \/ openAccount(a) \/ closeAccount(a)
          \/ \E value \in 0 .. wallet[a] :
               \/ depositAmount(a, value)
               \/ depositTopUp(a, value)
               \/ depositOperationalFunds(a, value)
               \/ returnLoan(a, value)
          \/ \E amount \in 0 .. balance[a] :
               \/ withDraw(a, amount)
               \/ \E recipient \in Address : TransferEth(a, recipient, amount)
          \/ \E amount \in 0 .. loan_funds : TakeLoan(a, amount)
          \/ \E deposit, loan \in Rate : setInterestRates(a, deposit, loan)
          \/ addDepositInterest(a)
          \/ addLoanInterest(a)
    BY <1>2 DEF Next
  <2>2. CASE openAccount(a) \/ closeAccount(a)
    BY <1>2, <2>2, OpenChangesNothing DEF openAccount, closeAccount
  <2>3. CASE \E value \in 0 .. wallet[a] :
               \/ depositAmount(a, value) \/ depositTopUp(a, value)
               \/ depositOperationalFunds(a, value) \/ returnLoan(a, value)
    BY <2>3, PaymentsSolvent
  <2>4. CASE \E amount \in 0 .. balance[a] :
               \/ withDraw(a, amount)
               \/ \E recipient \in Address : TransferEth(a, recipient, amount)
    <3>1. ASSUME NEW amount \in 0 .. balance[a], NEW r \in Address, TransferEth(a, r, amount)
          PROVE  Solvency'
      <4>1. Sum(balance') = Sum(balance)
        BY <3>1, TransferSum
      <4> QED BY <3>1, <4>1 DEF Solvency, TransferEth
    <3> QED BY <2>4, <3>1, PaymentsSolvent
  <2>5. CASE \E amount \in 0 .. loan_funds : TakeLoan(a, amount)
    BY <2>5, PaymentsSolvent
  <2>6. CASE \E deposit, loan \in Rate : setInterestRates(a, deposit, loan)
    BY <1>2, <2>6 DEF setInterestRates, accounts
  <2>7. CASE addDepositInterest(a)
    BY <2>7, DepositInterestSolvent
  <2>8. CASE addLoanInterest(a)
    BY <1>2, <2>8 DEF addLoanInterest
  <2> QED BY <2>1, <2>2, <2>3, <2>4, <2>5, <2>6, <2>7, <2>8
<1> QED BY <1>1, <1>2 DEF vars, accounts

\* After any number of transactions the ether in the contract is what it owes its
\* clients and what its two funds hold: no payment out can fail for want of ether.
THEOREM SolvencyAlways == Spec => []Solvency
<1>1. BankInv /\ Solvency /\ [Next]_vars => (BankInv /\ Solvency)'
  BY BankStep, SolvencyStep
<1>2. Init => BankInv /\ Solvency
  BY BankInit, SolvencyInit
<1> QED BY <1>1, <1>2, PTL DEF Spec

-----------------------------------------------------------------------------
\* Only a top-up by the owner changes what is lent and may be lent together.
LEMMA LoanBookStep ==
  ASSUME BankInv, BankInv', Next, LoanBook' # LoanBook
  PROVE  LoanBook' - LoanBook = wallet[Owner] - wallet'[Owner]
<1> USE DEF BankInv
<1>1. LoanBook' = loan_funds' + Sum(principalLoan') /\ LoanBook = loan_funds + Sum(principalLoan)
  BY DEF LoanBook
<1>2. /\ loan_funds \in Int /\ loan_funds' \in Int
      /\ Sum(principalLoan) \in Int /\ Sum(principalLoan') \in Int
  BY SumType DEF TypeOK
<1>3. ~ UNCHANGED <<principalLoan, loan_funds>>
  BY <1>1
<1>4. PICK a \in Address :
          \/ openAccount(a) \/ closeAccount(a)
          \/ \E value \in 0 .. wallet[a] :
               \/ depositAmount(a, value)
               \/ depositTopUp(a, value)
               \/ depositOperationalFunds(a, value)
               \/ returnLoan(a, value)
          \/ \E amount \in 0 .. balance[a] :
               \/ withDraw(a, amount)
               \/ \E recipient \in Address : TransferEth(a, recipient, amount)
          \/ \E amount \in 0 .. loan_funds : TakeLoan(a, amount)
          \/ \E deposit, loan \in Rate : setInterestRates(a, deposit, loan)
          \/ addDepositInterest(a)
          \/ addLoanInterest(a)
  BY DEF Next
<1>5. \/ \E value \in 0 .. wallet[a] : depositTopUp(a, value) \/ returnLoan(a, value)
      \/ \E amount \in 0 .. loan_funds : TakeLoan(a, amount)
  BY <1>3, <1>4, OpenChangesNothing
     DEF openAccount, closeAccount, depositAmount, depositOperationalFunds, withDraw,
         TransferEth, setInterestRates, addDepositInterest, addLoanInterest, accounts
<1>6. ASSUME NEW v \in 0 .. wallet[a], depositTopUp(a, v)
      PROVE  LoanBook' - LoanBook = wallet[Owner] - wallet'[Owner]
  <2>1. Sum(principalLoan') = Sum(principalLoan) /\ loan_funds' = loan_funds + v
    BY <1>6, SumsOf DEF depositTopUp, accounts
  <2>2. v \in Int /\ wallet[Owner] \in Int /\ wallet'[Owner] = wallet[Owner] - v
    BY <1>6 DEF depositTopUp, PayIn, TypeOK, Amounts, Address
  <2>3. LoanBook' - LoanBook = v
    BY <1>1, <1>2, <2>1, <2>2
  <2> QED BY <2>2, <2>3
<1>7. ASSUME NEW v \in 0 .. wallet[a], returnLoan(a, v)
      PROVE  LoanBook' = LoanBook
  <2> DEFINE interestPaid == IF v <= interestLoan[a] THEN v ELSE interestLoan[a]
             payment == v - interestPaid
  <2>1. /\ principalLoan' = [principalLoan EXCEPT ![a] = @ - payment]
        /\ loan_funds' = loan_funds + payment
    BY <1>7 DEF returnLoan
  <2>2. /\ principalLoan[a] \in Int /\ payment \in Int
    BY DEF TypeOK, Amounts
  <2> HIDE DEF payment, interestPaid
  <2>3. -payment \in Int /\ principalLoan[a] - payment = principalLoan[a] + (-payment)
    BY <2>2
  <2>4. principalLoan' = [principalLoan EXCEPT ![a] = @ + (-payment)]
    BY <2>1, <2>3
  <2>5. Sum(principalLoan') = Sum(principalLoan) + (-payment)
    BY <2>3, <2>4, SumsOf
  <2> QED BY <1>1, <1>2, <2>1, <2>2, <2>5
<1>8. ASSUME NEW v \in 0 .. loan_funds, TakeLoan(a, v)
      PROVE  LoanBook' = LoanBook
  <2>1. v \in Int /\ principalLoan' = [principalLoan EXCEPT ![a] = @ + v]
        /\ loan_funds' = loan_funds - v
    BY <1>8 DEF TakeLoan
  <2>2. Sum(principalLoan') = Sum(principalLoan) + v
    BY <2>1, SumsOf
  <2> QED BY <1>1, <1>2, <2>1, <2>2
<1> QED BY <1>5, <1>6, <1>7, <1>8

\* No sequence of loans, repayments, closings and interest loses or creates principal.
THEOREM LoanBookKeptAlways == Spec => LoanBookKept
<1>1. BankInv /\ BankInv' /\ [Next]_vars =>
        [LoanBook' # LoanBook => LoanBook' - LoanBook = wallet[Owner] - wallet'[Owner]]_vars
  BY LoanBookStep
<1> QED BY <1>1, BankInit, BankStep, PTL DEF Spec, LoanBookKept

-----------------------------------------------------------------------------
(* Nobody is skipped                                                         *)

\* An account that is open is in the list the loop goes through.
Listed ==
  \A a \in Address : exists[a] => \E i \in 1 .. Len(addressList) : addressList[i] = a

LEMMA ListedStep ==
  ASSUME BankInv, Listed, [Next]_vars
  PROVE  Listed'
<1>1. addressList \in Seq(Address) /\ Len(addressList) \in Nat /\ exists \in [Address -> BOOLEAN]
  BY LenProperties DEF BankInv, TypeOK
<1>2. CASE \E a \in Address : openAccount(a)
  <2>1. PICK a \in Address : openAccount(a)
    BY <1>2
  <2>2. exists' = [exists EXCEPT ![a] = TRUE] /\ addressList' = Append(addressList, a)
    BY <2>1 DEF openAccount
  <2>3. /\ Len(addressList') = Len(addressList) + 1
        /\ \A i \in 1 .. Len(addressList) : addressList'[i] = addressList[i]
        /\ addressList'[Len(addressList) + 1] = a
    BY <1>1, <2>2, AppendProperties
  <2>4. ASSUME NEW c \in Address, exists'[c]
        PROVE  \E i \in 1 .. Len(addressList') : addressList'[i] = c
    <3>1. CASE c = a
      <4>1. Len(addressList) + 1 \in 1 .. Len(addressList')
        BY <1>1, <2>3
      <4> QED  BY <2>3, <3>1, <4>1
    <3>2. CASE c # a
      <4>1. exists[c]
        BY <1>1, <2>2, <2>4, <3>2
      <4>2. PICK i \in 1 .. Len(addressList) : addressList[i] = c
        BY <4>1 DEF Listed
      <4>3. i \in 1 .. Len(addressList') /\ addressList'[i] = c
        BY <1>1, <2>3, <4>2
      <4> QED  BY <4>3
    <3> QED  BY <3>1, <3>2
  <2> QED  BY <2>4 DEF Listed
<1>3. CASE addressList' = addressList /\ \A a \in Address : exists'[a] => exists[a]
  BY <1>3 DEF Listed
<1>4. ASSUME NEW a \in Address, closeAccount(a)
      PROVE  addressList' = addressList /\ \A c \in Address : exists'[c] => exists[c]
  BY <1>1, <1>4 DEF closeAccount
<1>5. (\E a \in Address : openAccount(a) \/ closeAccount(a))
        \/ (exists' = exists /\ addressList' = addressList)
  BY DEF Next, vars, accounts, depositAmount, depositTopUp, depositOperationalFunds,
         returnLoan, withDraw, TransferEth, TakeLoan, setInterestRates,
         addDepositInterest, addLoanInterest
<1> QED  BY <1>2, <1>3, <1>4, <1>5

\* More principal gets no less interest.
LEMMA PercentGrows ==
  ASSUME NEW x \in Nat, NEW y \in Nat, NEW rate \in Nat, x <= y
  PROVE  Percent(x, rate) <= Percent(y, rate)
<1>1. x * rate \in Nat /\ y * rate \in Nat
  OBVIOUS
<1>2. x * rate <= y * rate
  <2>1. (y - x) * rate >= 0
    OBVIOUS
  <2>2. (y - x) * rate = y * rate - x * rate
    OBVIOUS
  <2> QED  BY <1>1, <2>1, <2>2
<1> DEFINE m == x * rate
           n == y * rate
<1> HIDE DEF m, n
<1>3. m \in Nat /\ n \in Nat /\ m <= n
  BY <1>1, <1>2 DEF m, n
<1>4. m \div 100 <= n \div 100
  BY <1>3
<1> QED  BY <1>4 DEF Percent, m, n

\* One round lowers no balance, and pays the account of its entry.
LEMMA PayEntryPays ==
  ASSUME TypeOK, NEW i \in 1 .. Len(addressList), NEW s \in Paying
  PROVE  /\ \A a \in Address : PayEntry(i, s).balance[a] >= s.balance[a]
         /\ exists[addressList[i]] =>
              PayEntry(i, s).balance[addressList[i]]
                = s.balance[addressList[i]]
                    + Percent(s.balance[addressList[i]], depositInterestRate)
<1> DEFINE addr == addressList[i]
           interest == Percent(s.balance[addr], depositInterestRate)
<1>1. addr \in Address
  BY ElementOfSeq DEF TypeOK
<1>2. s.balance \in [Address -> Nat]
  BY DEF Paying, Amounts
<1>3. interest \in Nat
  BY <1>1, <1>2, PercentType DEF TypeOK
<1>4. CASE exists[addr]
  <2>1. PayEntry(i, s).balance = [s.balance EXCEPT ![addr] = @ + interest]
    BY <1>4 DEF PayEntry
  <2> HIDE DEF interest, addr
  <2>2. \A a \in Address :
          PayEntry(i, s).balance[a] = IF a = addr THEN s.balance[a] + interest ELSE s.balance[a]
    BY <1>1, <1>2, <2>1
  <2>3. \A a \in Address : PayEntry(i, s).balance[a] >= s.balance[a]
    BY <1>2, <1>3, <2>2
  <2> QED  BY <1>1, <2>2, <2>3 DEF interest, addr
<1>5. CASE ~ exists[addr]
  <2>1. PayEntry(i, s) = s
    BY <1>5 DEF PayEntry
  <2> QED  BY <1>2, <1>5, <2>1
<1> QED  BY <1>4, <1>5

\* After k rounds no balance is lower, and the first k entries have been paid.
LEMMA LoopPays ==
  ASSUME TypeOK
  PROVE  \A i \in 1 .. Len(addressList) : exists[addressList[i]] =>
           Payout[Len(addressList)].balance[addressList[i]]
             >= balance[addressList[i]] + Percent(balance[addressList[i]], depositInterestRate)
<1> DEFINE n == Len(addressList)
           Paid(s, a) == s.balance[a] >= balance[a] + Percent(balance[a], depositInterestRate)
           P == {k \in 0 .. n :
                   /\ \A a \in Address : Payout[k].balance[a] >= balance[a]
                   /\ \A i \in 1 .. k : exists[addressList[i]] => Paid(Payout[k], addressList[i])}
<1>1. /\ n \in Nat /\ \A i \in 1 .. n : Payout[i] = PayEntry(i, Payout[i - 1])
      /\ \A i \in 0 .. n : Payout[i] \in Paying
      /\ Payout[0].balance = balance
  BY PayoutRounds
<1>2. /\ \A a \in Address : balance[a] \in Nat
      /\ depositInterestRate \in Nat
      /\ \A i \in 1 .. n : addressList[i] \in Address
  BY ElementOfSeq DEF TypeOK, Amounts
<1>3. \A k \in 0 .. n, a \in Address : Payout[k].balance[a] \in Nat
  BY <1>1 DEF Paying, Amounts
<1>4. 0 \in P
  <2>1. \A a \in Address : Payout[0].balance[a] >= balance[a]
    BY <1>1, <1>2
  <2> QED  BY <1>1, <2>1
<1>5. ASSUME NEW k \in 1 .. n, k - 1 \in P PROVE k \in P
  <2> DEFINE s == Payout[k - 1]
             t == Payout[k]
             b == addressList[k]
  <2>1. k - 1 \in 0 .. n /\ k \in 0 .. n /\ s \in Paying /\ t = PayEntry(k, s) /\ b \in Address
    BY <1>1, <1>2
  <2>2. /\ \A a \in Address : t.balance[a] >= s.balance[a]
        /\ exists[b] => t.balance[b] = s.balance[b] + Percent(s.balance[b], depositInterestRate)
    BY <2>1, PayEntryPays
  <2>3. /\ \A a \in Address : s.balance[a] >= balance[a]
        /\ \A i \in 1 .. k - 1 : exists[addressList[i]] => Paid(s, addressList[i])
    BY <1>5
  <2>4. \A a \in Address : s.balance[a] \in Nat /\ t.balance[a] \in Nat
    BY <1>3, <2>1
  <2> HIDE DEF s, t
  <2>5. \A a \in Address : t.balance[a] >= balance[a]
    BY <1>2, <2>2, <2>3, <2>4
  <2>6. ASSUME NEW i \in 1 .. k, exists[addressList[i]] PROVE Paid(t, addressList[i])
    <3>1. addressList[i] \in Address
      BY <1>1, <1>2
    <3>2. CASE i = k
      <4>1. Percent(balance[b], depositInterestRate) <= Percent(s.balance[b], depositInterestRate)
        BY <1>2, <2>1, <2>3, <2>4, PercentGrows
      <4>2. /\ Percent(balance[b], depositInterestRate) \in Nat
            /\ Percent(s.balance[b], depositInterestRate) \in Nat
        BY <1>2, <2>1, <2>4, PercentType
      <4>3. t.balance[b] = s.balance[b] + Percent(s.balance[b], depositInterestRate)
        BY <2>2, <2>6, <3>2
      <4>4. s.balance[b] >= balance[b] /\ s.balance[b] \in Nat /\ balance[b] \in Nat
        BY <1>2, <2>1, <2>3, <2>4
      <4> HIDE DEF b
      <4>5. Paid(t, b)
        BY <4>1, <4>2, <4>3, <4>4
      <4> QED  BY <3>2, <4>5 DEF b
    <3>3. CASE i # k
      <4>1. Paid(s, addressList[i])
        BY <1>1, <2>3, <2>6, <3>3
      <4>2. Percent(balance[addressList[i]], depositInterestRate) \in Nat
        BY <1>2, <3>1, PercentType
      <4>3. t.balance[addressList[i]] >= s.balance[addressList[i]]
        BY <2>2, <3>1
      <4> QED  BY <1>2, <2>4, <3>1, <4>1, <4>2, <4>3
    <3> QED  BY <3>2, <3>3
  <2> QED  BY <2>1, <2>5, <2>6 DEF t
<1>6. \A k \in 1 .. n : k - 1 \in P => k \in P
  BY <1>5
<1>7. n \in P
  <2>1. n \in Nat
    BY <1>1
  <2> HIDE DEF n, P
  <2>2. \A k \in 0 .. n : k \in P
    BY <2>1, <1>4, <1>6, Induction
  <2> QED  BY <2>1, <2>2
<1> QED  BY <1>1, <1>7

\* The operational funds fall only when interest is paid on the deposits.
LEMMA InterestPaid ==
  ASSUME BankInv, [Next]_vars, operational_funds' < operational_funds
  PROVE  balance' = Payout[Len(addressList)].balance
<1>1. operational_funds \in Nat /\ interestLoan \in [Address -> Nat]
  BY DEF BankInv, TypeOK, Amounts
<1>2. PICK c \in Address : addDepositInterest(c)
  <2>1. ASSUME NEW c \in Address, NEW value \in 0 .. wallet[c],
               depositAmount(c, value) \/ depositTopUp(c, value)
                 \/ depositOperationalFunds(c, value) \/ returnLoan(c, value)
        PROVE  FALSE
    <3>1. value \in Nat
      BY DEF BankInv, TypeOK, Amounts
    <3>2. \/ operational_funds' = operational_funds
          \/ operational_funds' = operational_funds + value
          \/ operational_funds' = operational_funds
                                    + (IF value <= interestLoan[c] THEN value ELSE interestLoan[c])
      BY <2>1 DEF depositAmount, depositTopUp, depositOperationalFunds, returnLoan
    <3> QED  BY <1>1, <3>1, <3>2
  <2>2. ASSUME operational_funds' = operational_funds PROVE FALSE
    BY <1>1, <2>2
  <2> QED
    BY <2>1, <2>2
    DEF Next, vars, openAccount, closeAccount, withDraw, TransferEth, TakeLoan,
        setInterestRates, addLoanInterest
<1> QED  BY <1>2 DEF addDepositInterest

\* When interest is paid on the deposits, every open account gets at least its own,
\* wherever it is in the list and however often, closed accounts in between.
THEOREM NobodyIsSkipped == Spec => NobodySkipped
<1>1. Init => Listed
  BY DEF Init, Listed
<1>2. BankInv /\ Listed /\ [Next]_vars => Listed'
  BY ListedStep
<1>3. ASSUME BankInv, Listed, [Next]_vars
      PROVE  [operational_funds' < operational_funds =>
                \A a \in Address : exists[a] =>
                  balance'[a] >= balance[a] + Percent(balance[a], depositInterestRate)]_vars
  <2> SUFFICES ASSUME operational_funds' < operational_funds, NEW a \in Address, exists[a]
               PROVE  balance'[a] >= balance[a] + Percent(balance[a], depositInterestRate)
    OBVIOUS
  <2>1. balance' = Payout[Len(addressList)].balance
    BY <1>3, InterestPaid
  <2>2. PICK i \in 1 .. Len(addressList) : addressList[i] = a
    BY <1>3 DEF Listed
  <2> QED  BY <1>3, <2>1, <2>2, LoopPays DEF BankInv
<1> QED  BY BankInit, BankStep, <1>1, <1>2, <1>3, PTL DEF Spec, NobodySkipped

\* An account opened once is in the list once, also after others were closed.
ListedOnce(a) ==
  \A i, j \in DOMAIN addressList : addressList[i] = a /\ addressList[j] = a => i = j

PaidOnceIfListedOnce ==
  [][operational_funds' < operational_funds =>
       \A a \in Address : exists[a] /\ ListedOnce(a) =>
         balance'[a] = balance[a] + Percent(balance[a], depositInterestRate)]_vars

\* A round pays no other account than that of its entry.
LEMMA PayEntryOthers ==
  ASSUME TypeOK, NEW i \in 1 .. Len(addressList), NEW s \in Paying,
         NEW a \in Address, a # addressList[i]
  PROVE  PayEntry(i, s).balance[a] = s.balance[a]
<1>1. s.balance \in [Address -> Nat]
  BY DEF Paying, Amounts
<1> QED  BY <1>1 DEF PayEntry

\* The account of the only entry that names it is paid in that round, and in no other.
LEMMA LoopPaysOnce ==
  ASSUME TypeOK, NEW j \in 1 .. Len(addressList), exists[addressList[j]],
         ListedOnce(addressList[j])
  PROVE  Payout[Len(addressList)].balance[addressList[j]]
           = balance[addressList[j]] + Percent(balance[addressList[j]], depositInterestRate)
<1> DEFINE n == Len(addressList)
           a == addressList[j]
           more == Percent(balance[a], depositInterestRate)
           P == {k \in 0 .. n : Payout[k].balance[a] = IF k < j THEN balance[a]
                                                       ELSE balance[a] + more}
<1>1. /\ n \in Nat /\ \A i \in 1 .. n : Payout[i] = PayEntry(i, Payout[i - 1])
      /\ \A i \in 0 .. n : Payout[i] \in Paying
      /\ Payout[0].balance = balance
  BY PayoutRounds
<1>2. a \in Address /\ j \in 1 .. n
  BY ElementOfSeq DEF TypeOK
<1>3. \A i \in 1 .. n : i # j => addressList[i] # a
  <2>1. DOMAIN addressList = 1 .. n
    BY LenProperties DEF TypeOK
  <2> QED  BY <2>1 DEF ListedOnce
<1>4. 0 \in P
  BY <1>1, <1>2
<1>5. ASSUME NEW k \in 1 .. n, k - 1 \in P PROVE k \in P
  <2> DEFINE s == Payout[k - 1]
             t == Payout[k]
  <2>1. k - 1 \in 0 .. n /\ k \in 0 .. n /\ s \in Paying /\ t = PayEntry(k, s)
    BY <1>1
  <2>2. s.balance[a] = IF k - 1 < j THEN balance[a] ELSE balance[a] + more
    BY <1>5
  <2> HIDE DEF s, more
  <2>3. CASE k = j
    <3>1. t.balance[a] = s.balance[a] + Percent(s.balance[a], depositInterestRate)
      BY <2>1, <2>3, PayEntryPays
    <3>2. s.balance[a] = balance[a]
      BY <1>1, <1>2, <2>2, <2>3
    <3>3. t.balance[a] = balance[a] + more
      BY <3>1, <3>2 DEF more
    <3> HIDE DEF t, a
    <3> QED  BY <1>1, <1>2, <2>1, <2>3, <3>3 DEF t
  <2>4. CASE k # j
    <3>1. t.balance[a] = s.balance[a]
      BY <1>2, <1>3, <2>1, <2>4, PayEntryOthers
    <3> HIDE DEF t, a
    <3>2. t.balance[a] = IF k < j THEN balance[a] ELSE balance[a] + more
      BY <1>1, <1>2, <2>1, <2>2, <2>4, <3>1
    <3> QED  BY <2>1, <3>2 DEF t
  <2> QED  BY <2>3, <2>4
<1>6. \A k \in 1 .. n : k - 1 \in P => k \in P
  BY <1>5
<1>7. n \in P
  <2>1. n \in Nat
    BY <1>1
  <2> HIDE DEF n, P
  <2>2. \A k \in 0 .. n : k \in P
    BY <2>1, <1>4, <1>6, Induction
  <2> QED  BY <2>1, <2>2
<1> QED  BY <1>1, <1>2, <1>7

\* What interest_test.js expects holds of every account that was opened once: it gets
\* its interest and no more, whoever else was closed and opened again.  With
\* InterestOnce, which fails, this says that a second entry is all that goes wrong.
THEOREM InterestOnceIfListedOnce == Spec => PaidOnceIfListedOnce
<1>1. Init => Listed
  BY DEF Init, Listed
<1>2. BankInv /\ Listed /\ [Next]_vars => Listed'
  BY ListedStep
<1>3. ASSUME BankInv, Listed, [Next]_vars
      PROVE  [operational_funds' < operational_funds =>
                \A a \in Address : exists[a] /\ ListedOnce(a) =>
                  balance'[a] = balance[a] + Percent(balance[a], depositInterestRate)]_vars
  <2> SUFFICES ASSUME operational_funds' < operational_funds,
                      NEW a \in Address, exists[a], ListedOnce(a)
               PROVE  balance'[a] = balance[a] + Percent(balance[a], depositInterestRate)
    OBVIOUS
  <2>1. balance' = Payout[Len(addressList)].balance
    BY <1>3, InterestPaid
  <2>2. PICK i \in 1 .. Len(addressList) : addressList[i] = a
    BY <1>3 DEF Listed
  <2> QED  BY <1>3, <2>1, <2>2, LoopPaysOnce DEF BankInv
<1> QED  BY BankInit, BankStep, <1>1, <1>2, <1>3, PTL DEF Spec, PaidOnceIfListedOnce
=============================================================================
