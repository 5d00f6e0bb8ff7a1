---------------------------- MODULE MCBankTeller ----------------------------
(***************************************************************************)
(* Instances of BankTeller for TLC.                                        *)
(***************************************************************************)
EXTENDS BankTeller, TLC

MCSymmetry == Permutations(Worker)

MCA == <<0, 0>>
MCB == <<0, 1>>
MCC == <<1, 0>>

(***************************************************************************)
(* Every account starts with two units, which one withdrawal, or two       *)
(* transfers, can empty.                                                   *)
(***************************************************************************)
MCBalance == [a \in Account |-> 2]

(***************************************************************************)
(* As testfailurecode leaves it: an account starts below zero, which no    *)
(* withdrawal, not even of nothing, may pass.                              *)
(***************************************************************************)
MCFailureBalance == [a \in Account |-> IF a = MCA THEN -1 ELSE 2]

(***************************************************************************)
(* Transfers both ways within a branch, to the same account, and both ways *)
(* across branches, against all other commands; as with testbankbalance no *)
(* command moves funds in or out.                                          *)
(***************************************************************************)
MCTransferWorkload ==
  { Deposit(MCC, 0), Withdraw(MCA, 0), Withdraw(MCB, 0), Transfer(MCA, MCB, 1),
    Transfer(MCB, MCA, 2), Transfer(MCB, MCB, 1), Transfer(MCB, MCC, 1),
    Transfer(MCC, MCA, 2), BranchBalance(0), BankBalance }

(***************************************************************************)
(* One account per branch: deposits, withdrawals and transfers both ways   *)
(* while enquiries read.                                                   *)
(***************************************************************************)
MCCrossWorkload ==
  { Deposit(MCA, 1), Withdraw(MCA, 2), Transfer(MCA, MCC, 1),
    Transfer(MCC, MCA, 2), BranchBalance(0), BankBalance }

(***************************************************************************)
(* Transfers and enquiries in one branch.                                  *)
(***************************************************************************)
MCOneBranchWorkload == { Transfer(MCA, MCB, 1), Transfer(MCB, MCA, 1), BranchBalance(0) }
=============================================================================
