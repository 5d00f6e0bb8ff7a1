------------------------------ MODULE BankData ------------------------------
(***************************************************************************)
(* The data of the bank simulator (src/ass6/code): branches, accounts, the *)
(* commands of the generator and what each does to the balances.  Shared   *)
(* by the abstract bank (BankAtomic), the concurrent one (BankTeller) and  *)
(* the driver (BankDriver).                                                *)
(***************************************************************************)
EXTENDS Integers, Sequences, FiniteSets, FiniteSetsExt

CONSTANTS NumBranches,        \* bank->numberBranches
          AccountsPerBranch,  \* branch->numberAccounts
          InitialBalance      \* balance each account is created with

Branch == 0 .. NumBranches - 1

SubAccount == 0 .. AccountsPerBranch - 1

(***************************************************************************)
(* An account number packs the branch into its high word and the index     *)
(* within the branch into its low one; a pair has the same two projections *)
(* and, compared component by component, the same order.                   *)
(***************************************************************************)
Account == Branch \X SubAccount

BranchOf(a) == a[1]

IsSameBranch(a, b) == BranchOf(a) = BranchOf(b)

AccountLess(a, b) ==
  \/ a[1] < b[1]
  \/ a[1] = b[1] /\ a[2] < b[2]

(***************************************************************************)
(* Commands, as Action_GetNext builds them.  A deposit or a withdrawal has *)
(* one account, in src; a branch balance asks about the branch of src.     *)
(***************************************************************************)
Op == {"deposit", "withdraw", "transfer", "branchBalance", "bankBalance"}

Command == [op : Op, src : Account, dst : Account, amount : Nat]

Deposit(a, n)     == [op |-> "deposit", src |-> a, dst |-> a, amount |-> n]
Withdraw(a, n)    == [op |-> "withdraw", src |-> a, dst |-> a, amount |-> n]
Transfer(a, b, n) == [op |-> "transfer", src |-> a, dst |-> b, amount |-> n]
BranchBalance(b)  == [op |-> "branchBalance", src |-> <<b, 0>>,
                      dst |-> <<b, 0>>, amount |-> 0]
BankBalance       == [op |-> "bankBalance", src |-> <<0, 0>>,
                      dst |-> <<0, 0>>, amount |-> 0]

IsTeller(c) == c.op \in {"deposit", "withdraw", "transfer"}

IsSelfTransfer(c) == c.op = "transfer" /\ c.src = c.dst

(***************************************************************************)
(* What a command whose account has the funds does to the balances: the    *)
(* calls of Account_Adjust it makes, in the order it makes them.           *)
(***************************************************************************)
Adjustment(a, n, upd) == [account |-> a, amount |-> n, updateBranch |-> upd]

Adjustments(c) ==
  CASE c.op = "deposit"  -> << Adjustment(c.src, c.amount, TRUE) >>
    [] c.op = "withdraw" -> << Adjustment(c.src, -c.amount, TRUE) >>
    [] c.op = "transfer" ->
         LET updateBranch == ~IsSameBranch(c.src, c.dst)
         IN  << Adjustment(c.src, -c.amount, updateBranch),
                Adjustment(c.dst, c.amount, updateBranch) >>
    [] OTHER -> << >>

(***************************************************************************)
(* The balances after a command: what leaves src arrives at dst.           *)
(***************************************************************************)
Applied(bal, c) ==
  LET adjs == Adjustments(c)
      amount == [i \in DOMAIN adjs |-> adjs[i].amount]
      change(a) == SumFunctionOnSet(amount, {i \in DOMAIN adjs : adjs[i].account = a})
  IN  [a \in Account |-> bal[a] + change(a)]

(***************************************************************************)
(* A teller returns ERROR_INSUFFICIENT_FUNDS when the account the money    *)
(* leaves holds less than the amount, and touches nothing.                 *)
(***************************************************************************)
InsufficientUnlessTransfer(c, available) ==   \* mutant: a transfer is not checked
  c.op = "withdraw" /\ c.amount > available

Insufficient(c, available) ==
  c.op \in {"withdraw", "transfer"} /\ c.amount > available

(***************************************************************************)
(* Sum of the balances of the accounts of branch b, added up one account   *)
(* after the other as Branch_Init and Branch_Validate do.                  *)
(***************************************************************************)
RunningSum(bal, b) ==
  LET sum[n \in 0 .. AccountsPerBranch] ==
        IF n = 0 THEN 0 ELSE sum[n - 1] + bal[<<b, n - 1>>]
  IN  sum

BranchSum(bal, b) == RunningSum(bal, b)[AccountsPerBranch]

ASSUME SizeAssumption ==
  NumBranches \in Nat \ {0} /\ AccountsPerBranch \in Nat \ {0}

ASSUME InitialAssumption == InitialBalance \in [Account -> Int]
=============================================================================
