------------------------------- MODULE Banking -------------------------------
(***************************************************************************)
(* The BankingSystem contract of PA2 (banking_26106_contract.sol).  A      *)
(* transaction is atomic, and the ether it sends goes to tx.origin, which  *)
(* runs no code: each public function is one action, absent when the       *)
(* function reverts.  Ether the outside world holds is in wallet, so that  *)
(* payments in and out can be weighed against what the contract records.   *)
(***************************************************************************)
EXTENDS Integers, Sequences, FiniteSets, FiniteSetsExt

CONSTANTS
  Client,        \* addresses other than the owner's
  Owner,         \* the address that deployed the contract
  Ether,         \* 1 ether, in the unit of the model
  Wealth,        \* [Address -> Nat], ether held outside at first
  Rate,          \* percentages the owner may set
  MaxOpenings,   \* bound: entries of addressList
  MaxDue         \* bound: interest a loan accrues

Address == Client \cup {Owner}

ASSUME BankingAssumption ==
  /\ IsFiniteSet(Client) /\ Owner \notin Client
  /\ Ether \in Nat \ {0}
  /\ Wealth \in [Address -> Nat]
  /\ Rate \subseteq Nat
  /\ MaxOpenings \in Nat /\ MaxDue \in Nat

VARIABLES
  exists,               \* userAccounts, field by field: [Address -> BOOLEAN]
  balance,              \* [Address -> Nat]
  principalLoan,        \* [Address -> Nat]
  interestLoan,         \* [Address -> Nat]
  addressList,          \* addresses in the order accounts were opened
  loan_funds,
  operational_funds,
  depositInterestRate,
  loanInterestRate,
  vault,                \* address(this).balance
  wallet                \* [Address -> Nat], ether outside the contract
accounts == <<exists, balance, principalLoan, interestLoan, addressList>>
rates == <<depositInterestRate, loanInterestRate>>
vars == <<accounts, loan_funds, operational_funds, rates, vault, wallet>>

Percent(amount, rate) == (amount * rate) \div 100

Zero == [a \in Address |-> 0]
Init ==
  /\ exists = [a \in Address |-> FALSE]
  /\ balance = Zero /\ principalLoan = Zero /\ interestLoan = Zero
  /\ addressList = <<>>
  /\ loan_funds = 0 /\ operational_funds = 0
  /\ depositInterestRate = 0 /\ loanInterestRate = 0
  /\ vault = 0
  /\ wallet = Wealth

-----------------------------------------------------------------------------
(* Ether sent with a transaction, or by the contract to tx.origin            *)

PayIn(a, value) ==
  /\ wallet' = [wallet EXCEPT ![a] = @ - value]
  /\ vault' = vault + value

PayOut(a, amount) ==
  /\ vault >= amount           \* else the call fails and all is reverted
  /\ vault' = vault - amount
  /\ wallet' = [wallet EXCEPT ![a] = @ + amount]

-----------------------------------------------------------------------------
(* Accounts                                                                  *)

openAccount(a) ==
  /\ a # Owner
  /\ ~ exists[a]
  /\ Len(addressList) < MaxOpenings
  /\ exists' = [exists EXCEPT ![a] = TRUE]
  /\ balance' = [balance EXCEPT ![a] = 0]
  /\ principalLoan' = [principalLoan EXCEPT ![a] = 0]
  /\ interestLoan' = [interestLoan EXCEPT ![a] = 0]
  /\ addressList' = Append(addressList, a)
  /\ UNCHANGED <<loan_funds, operational_funds, rates, vault, wallet>>

\* mutant: an account is closed whatever it owes
closeAccountWithDues(a) ==
  /\ a # Owner
  /\ exists[a]
  /\ balance[a] = 0
  /\ exists' = [exists EXCEPT ![a] = FALSE]
  /\ principalLoan' = [principalLoan EXCEPT ![a] = 0]
  /\ interestLoan' = [interestLoan EXCEPT ![a] = 0]
  /\ UNCHANGED <<balance, addressList, loan_funds, operational_funds, rates, vault, wallet>>

\* mutant: the address list is shortened too, by its last entry
closeAccountPops(a) ==
  /\ a # Owner
  /\ exists[a]
  /\ principalLoan[a] = 0 /\ interestLoan[a] = 0 /\ balance[a] = 0
  /\ exists' = [exists EXCEPT ![a] = FALSE]
  /\ addressList' = SubSeq(addressList, 1, Len(addressList) - 1)
  /\ UNCHANGED <<balance, principalLoan, interestLoan, loan_funds, operational_funds,
                 rates, vault, wallet>>

\* delete resets the account; the address stays in addressList
closeAccount(a) ==
  /\ a # Owner
  /\ exists[a]
  /\ principalLoan[a] = 0 /\ interestLoan[a] = 0
  /\ balance[a] = 0
  /\ exists' = [exists EXCEPT ![a] = FALSE]
  /\ UNCHANGED <<balance, principalLoan, interestLoan, addressList,
                 loan_funds, operational_funds, rates, vault, wallet>>

depositAmount(a, value) ==
  /\ exists[a]
  /\ value >= Ether
  /\ balance' = [balance EXCEPT ![a] = @ + value]
  /\ PayIn(a, value)
  /\ UNCHANGED <<exists, principalLoan, interestLoan, addressList,
                 loan_funds, operational_funds, rates>>

\* mutant: one more than the balance may be withdrawn
withDrawUnchecked(a, amount) ==
  /\ a # Owner
  /\ exists[a]
  /\ balance' = [balance EXCEPT ![a] = @ - amount - 1]
  /\ PayOut(a, amount + 1)
  /\ UNCHANGED <<exists, principalLoan, interestLoan, addressList,
                 loan_funds, operational_funds, rates>>

withDraw(a, amount) ==
  /\ a # Owner
  /\ exists[a]
  /\ balance[a] >= amount
  /\ balance' = [balance EXCEPT ![a] = @ - amount]
  /\ PayOut(a, amount)
  /\ UNCHANGED <<exists, principalLoan, interestLoan, addressList,
                 loan_funds, operational_funds, rates>>

\* mutant: the recipient is not looked up
TransferEthAnywhere(a, recipient, amount) ==
  /\ a # Owner
  /\ exists[a]
  /\ balance[a] >= amount
  /\ balance' = [[balance EXCEPT ![a] = @ - amount] EXCEPT ![recipient] = @ + amount]
  /\ UNCHANGED <<exists, principalLoan, interestLoan, addressList,
                 loan_funds, operational_funds, rates, vault, wallet>>

TransferEth(a, recipient, amount) ==
  /\ a # Owner
  /\ exists[a] /\ exists[recipient]
  /\ balance[a] >= amount
  /\ balance' = [[balance EXCEPT ![a] = @ - amount] EXCEPT ![recipient] = @ + amount]
  /\ UNCHANGED <<exists, principalLoan, interestLoan, addressList,
                 loan_funds, operational_funds, rates, vault, wallet>>

-----------------------------------------------------------------------------
(* Loans                                                                     *)

depositTopUp(a, value) ==
  /\ a = Owner
  /\ loan_funds' = loan_funds + value
  /\ PayIn(a, value)
  /\ UNCHANGED <<accounts, operational_funds, rates>>

depositOperationalFunds(a, value) ==
  /\ a = Owner
  /\ operational_funds' = operational_funds + value
  /\ PayIn(a, value)
  /\ UNCHANGED <<accounts, loan_funds, rates>>

\* the limit bounds each loan, not what is owed in all
TakeLoan(a, loanAmount) ==
  /\ a # Owner
  /\ exists[a]
  /\ loan_funds >= loanAmount
  /\ loanAmount <= balance[a] * 2
  /\ loan_funds' = loan_funds - loanAmount
  /\ principalLoan' = [principalLoan EXCEPT ![a] = @ + loanAmount]
  /\ PayOut(a, loanAmount)
  /\ UNCHANGED <<exists, balance, interestLoan, addressList, operational_funds, rates>>

\* mutant: the whole payment is booked as principal
returnLoanWhole(a, value) ==
  /\ exists[a]
  /\ principalLoan[a] > 0 \/ interestLoan[a] > 0
  /\ value <= principalLoan[a] + interestLoan[a]
  /\ LET interestPaid == IF value <= interestLoan[a] THEN value ELSE interestLoan[a]
         payment == value - interestPaid
     IN  /\ interestLoan' = [interestLoan EXCEPT ![a] = @ - interestPaid]
         /\ operational_funds' = operational_funds + interestPaid
         /\ principalLoan' = [principalLoan EXCEPT ![a] = @ - payment]
         /\ loan_funds' = loan_funds + value
  /\ PayIn(a, value)
  /\ UNCHANGED <<exists, balance, addressList, rates>>

\* interest first, the rest is principal
returnLoan(a, value) ==
  /\ exists[a]
  /\ principalLoan[a] > 0 \/ interestLoan[a] > 0
  /\ value <= principalLoan[a] + interestLoan[a]
  /\ LET interestPaid == IF value <= interestLoan[a] THEN value ELSE interestLoan[a]
         payment == value - interestPaid
     IN  /\ interestLoan' = [interestLoan EXCEPT ![a] = @ - interestPaid]
         /\ operational_funds' = operational_funds + interestPaid
         /\ principalLoan' = [principalLoan EXCEPT ![a] = @ - payment]
         /\ loan_funds' = loan_funds + payment
  /\ PayIn(a, value)
  /\ UNCHANGED <<exists, balance, addressList, rates>>

-----------------------------------------------------------------------------
(* Interest                                                                  *)

setInterestRates(a, deposit, loan) ==
  /\ a = Owner
  /\ depositInterestRate' = deposit
  /\ loanInterestRate' = loan
  /\ UNCHANGED <<accounts, loan_funds, operational_funds, vault, wallet>>

\* the first loop: on the balances before any is raised
TotalInterest ==
  MapThenSumSet(LAMBDA i : IF exists[addressList[i]]
                           THEN Percent(balance[addressList[i]], depositInterestRate) ELSE 0,
                DOMAIN addressList)

\* the second loop, entry by entry: an address listed twice is raised twice
Payout ==
  LET after[i \in 0 .. Len(addressList)] ==
        IF i = 0 THEN [balance |-> balance, funds |-> operational_funds]
        ELSE LET s == after[i - 1]
                 addr == addressList[i]
                 interest == Percent(s.balance[addr], depositInterestRate)
             IN  IF exists[addr]
                 THEN [balance |-> [s.balance EXCEPT ![addr] = @ + interest],
                       funds |-> s.funds - interest]
                 ELSE s
  IN  after

\* funds only fall in the loop, so its last value tells of an underflow
addDepositInterest(a) ==
  /\ a = Owner
  /\ operational_funds >= TotalInterest
  /\ LET last == Payout[Len(addressList)]
     IN  /\ last.funds >= 0
         /\ balance' = last.balance
         /\ operational_funds' = last.funds
  /\ UNCHANGED <<exists, principalLoan, interestLoan, addressList,
                 loan_funds, rates, vault, wallet>>

\* the principal stays, so n entries of an address add n times the same
Entries(a) == Cardinality({i \in DOMAIN addressList : addressList[i] = a})
addLoanInterest(a) ==
  /\ a = Owner
  /\ interestLoan' = [c \in Address |->
       IF exists[c] /\ principalLoan[c] > 0
       THEN interestLoan[c] + Entries(c) * Percent(principalLoan[c], loanInterestRate)
       ELSE interestLoan[c]]
  /\ \A c \in Address : interestLoan'[c] <= MaxDue
  /\ UNCHANGED <<exists, balance, principalLoan, addressList,
                 loan_funds, operational_funds, rates, vault, wallet>>

-----------------------------------------------------------------------------
Next ==
  \E a \in Address :
    \/ openAccount(a) \/ closeAccount(a)
    \/ \E value \in 0 .. wallet[a] :
         \/ depositAmount(a, value)
         \/ depositTopUp(a, value)
         \/ depositOperationalFunds(a, value)
         \/ returnLoan(a, value)
    \/ \E amount \in 0 .. balance[a] :
         \/ withDraw(a, amount)
         \/ \E recipient \in Address : TransferEth(a, recipient, amount)
    \/ \E amount \in 0 .. loan_funds : TakeLoan(a, amount)
    \/ \E deposit, loan \in Rate : setInterestRates(a, deposit, loan)
    \/ addDepositInterest(a)
    \/ addLoanInterest(a)

Spec == Init /\ [][Next]_vars

-----------------------------------------------------------------------------
Amounts == [Address -> Nat]

TypeOK ==
  /\ exists \in [Address -> BOOLEAN]
  /\ balance \in Amounts /\ principalLoan \in Amounts /\ interestLoan \in Amounts
  /\ addressList \in Seq(Address)
  /\ loan_funds \in Nat /\ operational_funds \in Nat
  /\ depositInterestRate \in Nat /\ loanInterestRate \in Nat
  /\ vault \in Nat /\ wallet \in Amounts

Sum(f) == MapThenSumSet(LAMBDA a : f[a], Address)

\* The ether the contract holds is what it owes its clients and the two funds
\* together, so a withdrawal or a granted loan never fails for want of ether.
Solvency == vault = Sum(balance) + loan_funds + operational_funds

\* An address without an account holds and owes nothing: nothing is stranded by
\* closing an account and nobody is credited without one, the owner included.
ClosedHoldsNothing ==
  \A a \in Address : ~ exists[a] \/ a = Owner =>
    /\ ~ exists[a]
    /\ balance[a] = 0 /\ principalLoan[a] = 0 /\ interestLoan[a] = 0

\* What may be lent and what is lent grow together only by the owner's own ether:
\* no sequence of loans, repayments and closings loses or creates principal.
LoanBook == loan_funds + Sum(principalLoan)
LoanBookKept == [][LoanBook' # LoanBook => LoanBook' - LoanBook = wallet[Owner] - wallet'[Owner]]_vars

\* When deposit interest is paid every open account gets at least its own.
NobodySkipped ==
  [][operational_funds' < operational_funds =>
       \A a \in Address : exists[a] =>
         balance'[a] >= balance[a] + Percent(balance[a], depositInterestRate)]_vars

\* "Correct addition of interest to deposit balance" (PA2/test/interest_test.js:21,
\* 20 ether at 10% become 22): interest is added once.  An account closed and
\* opened again is listed twice and gets it twice.
InterestOnce ==
  [][operational_funds' < operational_funds =>
       \A a \in Address : exists[a] =>
         balance'[a] = balance[a] + Percent(balance[a], depositInterestRate)]_vars
=============================================================================
