----------------------------- MODULE BankAtomic -----------------------------
(***************************************************************************)
(* What the bank promises its tellers, without semaphores: a deposit, a    *)
(* withdrawal or a transfer takes effect in one step; a branch enquiry     *)
(* returns the sum of the branch's accounts at one instant; a bank enquiry *)
(* adds up the branches one after the other, and between its first and its *)
(* last branch no transfer takes effect and no other bank enquiry reads.   *)
(***************************************************************************)
EXTENDS BankData

CONSTANTS Worker,       \* the worker threads
          Workload,     \* the commands the generator may hand out
          MaxCommands   \* commands each worker carries out (cmdCount)

VARIABLES balance,   \* balance of each account
          cmdCount,  \* commands a worker has still to ask for
          cmd,       \* the command it carries out
          phase,     \* "idle", "called" or "done", when the result is set
          scan,      \* branches a bank enquiry has read
          value,     \* what an enquiry returns, or has added up so far
          err        \* what a teller command returns

vars == <<balance, cmdCount, cmd, phase, scan, value, err>>

Init ==
  /\ balance = InitialBalance
  /\ cmdCount = [w \in Worker |-> MaxCommands]
  /\ cmd = [w \in Worker |-> BankBalance]
  /\ phase = [w \in Worker |-> "idle"]
  /\ scan = [w \in Worker |-> 0]
  /\ value = [w \in Worker |-> 0]
  /\ err = [w \in Worker |-> "SUCCESS"]

Call(w, c) ==
  /\ phase[w] = "idle" /\ cmdCount[w] > 0
  /\ cmdCount' = [cmdCount EXCEPT ![w] = @ - 1]
  /\ cmd' = [cmd EXCEPT ![w] = c]
  /\ phase' = [phase EXCEPT ![w] = "called"]
  /\ UNCHANGED <<balance, scan, value, err>>

(***************************************************************************)
(* A bank enquiry is under way: it has read a branch and not yet the last. *)
(***************************************************************************)
Enquiring(w) == scan[w] \in 1 .. NumBranches - 1

TellerTakesEffect(w) ==
  /\ phase[w] = "called" /\ IsTeller(cmd[w])
  /\ IF ~IsSelfTransfer(cmd[w]) /\ Insufficient(cmd[w], balance[cmd[w].src])
     THEN /\ err' = [err EXCEPT ![w] = "INSUFFICIENT_FUNDS"]
          /\ UNCHANGED balance
     ELSE /\ balance' = Applied(balance, cmd[w])
          /\ cmd[w].op = "transfer" /\ balance' # balance =>
               \A v \in Worker : ~Enquiring(v)
          /\ UNCHANGED err
  /\ phase' = [phase EXCEPT ![w] = "done"]
  /\ UNCHANGED <<cmdCount, cmd, scan, value>>

BranchEnquiry(w) ==
  /\ phase[w] = "called" /\ cmd[w].op = "branchBalance"
  /\ value' = [value EXCEPT ![w] = BranchSum(balance, BranchOf(cmd[w].src))]
  /\ phase' = [phase EXCEPT ![w] = "done"]
  /\ UNCHANGED <<balance, cmdCount, cmd, scan, err>>

BankEnquiry(w) ==
  /\ phase[w] = "called" /\ cmd[w].op = "bankBalance"
  /\ \A v \in Worker \ {w} : ~Enquiring(v)
  /\ value' = [value EXCEPT ![w] = @ + BranchSum(balance, scan[w])]
  /\ scan' = [scan EXCEPT ![w] = @ + 1]
  /\ phase' = [phase EXCEPT ![w] = IF scan[w] + 1 = NumBranches
                                   THEN "done" ELSE "called"]
  /\ UNCHANGED <<balance, cmdCount, cmd, err>>

Return(w) ==
  /\ phase[w] = "done"
  /\ phase' = [phase EXCEPT ![w] = "idle"]
  /\ cmd' = [cmd EXCEPT ![w] = BankBalance]
  /\ scan' = [scan EXCEPT ![w] = 0]
  /\ value' = [value EXCEPT ![w] = 0]
  /\ err' = [err EXCEPT ![w] = "SUCCESS"]
  /\ UNCHANGED <<balance, cmdCount>>

Next ==
  \E w \in Worker :
    \/ \E c \in Workload : Call(w, c)
    \/ TellerTakesEffect(w)
    \/ BranchEnquiry(w)
    \/ BankEnquiry(w)
    \/ Return(w)

Spec == Init /\ [][Next]_vars
=============================================================================
