---------------------------- MODULE MCBankDriver ----------------------------
(***************************************************************************)
(* Three workers and six streams of commands: each worker draws from two   *)
(* streams, does eight commands and reports after every second one.        *)
(***************************************************************************)
EXTENDS BankDriver

(***************************************************************************)
(* As in the failure tests, what fails fails in every order: account 0 of  *)
(* a branch is below zero and is given nothing.                            *)
(***************************************************************************)
MCBalance == [a \in Account |-> IF a[2] = 0 THEN -1 ELSE 9]

MCP == <<0, 1>>
MCQ == <<1, 1>>

(***************************************************************************)
(* A row per period, with the command of each stream.  Amounts of 3 are    *)
(* reported; the log holds the three of the first period and overflows in  *)
(* the second; after the second report none is stored.                     *)
(***************************************************************************)
MCRows ==
  << << Deposit(MCP, 3), BankBalance, Withdraw(<<0, 0>>, 2),
        Transfer(MCP, MCQ, 3), Deposit(MCQ, 1), BranchBalance(0) >>,
     << Transfer(MCQ, MCP, 3), BankBalance, Deposit(MCP, 3),
        BranchBalance(1), Withdraw(MCP, 3), Transfer(<<1, 0>>, MCQ, 1) >>,
     << Transfer(MCP, MCP, 3), BankBalance, BranchBalance(0),
        BankBalance, BranchBalance(1), Withdraw(MCQ, 2) >>,
     << BankBalance, BranchBalance(0), BankBalance,
        Transfer(MCP, <<0, 0>>, 0), BankBalance, BranchBalance(0) >> >>

MCDrawn ==
  [s \in Stream |-> [k \in 0 .. NumCommands \div MaxWorkers - 1 |-> MCRows[k + 1][s + 1]]]

(***************************************************************************)
(* No failure of the workload depends on the order.                        *)
(***************************************************************************)
ASSUME MCFailuresFixed == FundsSettled /\ FailuresFixed(Overdrawing)
=============================================================================
