----------------------------- MODULE BankTeller -----------------------------
(***************************************************************************)
(* The concurrent bank: worker threads that carry out deposits,            *)
(* withdrawals, transfers and balance enquiries on shared accounts and     *)
(* branches, guarded by one binary semaphore per account, one per branch   *)
(* and one for the bank (teller.c, account.c, branch.c, bank.c, and the    *)
(* command loop of MyWorker in bankdriver.c).                              *)
(*                                                                         *)
(* Every sem_wait, every sem_post and every load or store of a shared      *)
(* balance is a step of its own: between two of them any other thread may  *)
(* run, which is also where the source's Y macro yields.                   *)
(***************************************************************************)
EXTENDS BankData

CONSTANTS Worker,       \* the worker threads
          Workload,     \* the commands the generator may hand out
          MaxCommands   \* commands each worker carries out (cmdCount)

ASSUME WorkerAssumption ==
  IsFiniteSet(Worker) /\ Workload \subseteq Command /\ MaxCommands \in Nat

VARIABLES sem,            \* value of each semaphore
          balance,        \* account->balance
          branchBalance,  \* branch->balance
          cmdCount,       \* commands a worker has still to ask for
          pc,             \* where each worker is
          cmd,            \* the command it carries out
          sems,           \* semaphores it has still to wait for, or to post
          held,           \* history: semaphores waited for and not posted
          adj,            \* which of its Account_Adjust calls it is in
          reg,            \* the balance it last loaded
          scan,           \* next branch of the loop in Bank_Balance
          total,          \* bankTotal of that loop
          err             \* the code the teller returns

shared == <<sem, balance, branchBalance>>
local  == <<cmdCount, pc, cmd, sems, held, adj, reg, scan, total, err>>
vars   == <<shared, local>>
-----------------------------------------------------------------------------
(***************************************************************************)
(* Semaphores.                                                             *)
(***************************************************************************)
BankSem       == <<"bank", 0, 0>>
AccountSem(a) == <<"account", a[1], a[2]>>
BranchSem(b)  == <<"branch", b, 0>>

Semaphore == {BankSem} \cup {AccountSem(a) : a \in Account}
                       \cup {BranchSem(b) : b \in Branch}

(***************************************************************************)
(* The sem_wait calls of a command, in program order.  A transfer always   *)
(* takes the bank's semaphore, then its two accounts, then, across         *)
(* branches, the two branches; a transfer to the same account returns      *)
(* before any of them.  Bank_Balance waits for the bank and then, one at a *)
(* time, for each branch: the first two are listed here.                   *)
(***************************************************************************)
TransferLocksUnordered(src, dst) ==   \* mutant: source first, the bank last
  << AccountSem(src), AccountSem(dst) >> \o
  (IF IsSameBranch(src, dst) THEN << >>
   ELSE << BranchSem(BranchOf(src)), BranchSem(BranchOf(dst)) >>) \o << BankSem >>

TransferLocksNoBank(src, dst) ==      \* mutant: the bank's semaphore is not taken
  LET fst == IF AccountLess(src, dst) THEN src ELSE dst
      snd == IF AccountLess(src, dst) THEN dst ELSE src
  IN  << AccountSem(fst), AccountSem(snd) >> \o
      (IF IsSameBranch(src, dst) THEN << >>
       ELSE << BranchSem(BranchOf(fst)), BranchSem(BranchOf(snd)) >>)

TransferLocks(src, dst) ==
  LET srcFirst == IF IsSameBranch(src, dst) THEN AccountLess(src, dst)
                                            ELSE BranchOf(src) < BranchOf(dst)
      fst == IF srcFirst THEN src ELSE dst
      snd == IF srcFirst THEN dst ELSE src
  IN  IF IsSameBranch(src, dst)
      THEN << BankSem, AccountSem(fst), AccountSem(snd) >>
      ELSE << BankSem, AccountSem(fst), AccountSem(snd),
              BranchSem(BranchOf(fst)), BranchSem(BranchOf(snd)) >>

LocksWithoutBranch(c) ==   \* mutant: a teller leaves the branch unprotected
  CASE c.op \in {"deposit", "withdraw"} -> << AccountSem(c.src) >>
    [] c.op = "transfer" ->
         IF IsSelfTransfer(c) THEN << >> ELSE TransferLocks(c.src, c.dst)
    [] c.op = "branchBalance" -> << BranchSem(BranchOf(c.src)) >>
    [] c.op = "bankBalance" -> << BankSem, BranchSem(0) >>

LocksOf(c) ==
  CASE c.op \in {"deposit", "withdraw"} ->
         << AccountSem(c.src), BranchSem(BranchOf(c.src)) >>
    [] c.op = "transfer" ->
         IF IsSelfTransfer(c) THEN << >> ELSE TransferLocks(c.src, c.dst)
    [] c.op = "branchBalance" -> << BranchSem(BranchOf(c.src)) >>
    [] c.op = "bankBalance" -> << BankSem, BranchSem(0) >>

(***************************************************************************)
(* The sem_post calls of a teller, in program order: the same whether the  *)
(* funds suffice or not.                                                   *)
(***************************************************************************)
PostsTwice(c) ==   \* mutant: the branch is posted on the way out and again
  CASE c.op \in {"deposit", "withdraw"} ->
         << BranchSem(BranchOf(c.src)), AccountSem(c.src), BranchSem(BranchOf(c.src)) >>
    [] c.op = "transfer" -> TransferLocks(c.src, c.dst)

PostsOf(c) ==
  CASE c.op = "deposit" -> << BranchSem(BranchOf(c.src)), AccountSem(c.src) >>
    [] c.op = "withdraw" -> << AccountSem(c.src), BranchSem(BranchOf(c.src)) >>
    [] c.op = "transfer" ->
         IF IsSameBranch(c.src, c.dst)
         THEN << AccountSem(c.src), AccountSem(c.dst), BankSem >>
         ELSE << AccountSem(c.src), AccountSem(c.dst),
                 BranchSem(BranchOf(c.dst)), BranchSem(BranchOf(c.src)), BankSem >>

(***************************************************************************)
(* The branch whose balance Branch_Balance reads for a worker.             *)
(***************************************************************************)
ReadBranch(w) ==
  IF cmd[w].op = "bankBalance" THEN scan[w] ELSE BranchOf(cmd[w].src)

Adjusting(w) == Adjustments(cmd[w])[adj[w]]

NoCommand == BankBalance   \* the value of cmd[w] between two commands

Set(f, w, v) == [f EXCEPT ![w] = v]
-----------------------------------------------------------------------------
Init ==
  /\ sem = [s \in Semaphore |-> 1]
  /\ balance = InitialBalance
  /\ branchBalance = [b \in Branch |-> BranchSum(InitialBalance, b)]
  /\ cmdCount = [w \in Worker |-> MaxCommands]
  /\ pc = [w \in Worker |-> "idle"]
  /\ cmd = [w \in Worker |-> NoCommand]
  /\ sems = [w \in Worker |-> << >>]
  /\ held = [w \in Worker |-> {}]
  /\ adj = [w \in Worker |-> 1]
  /\ reg = [w \in Worker |-> 0]
  /\ scan = [w \in Worker |-> 0]
  /\ total = [w \in Worker |-> 0]
  /\ err = [w \in Worker |-> "SUCCESS"]

(***************************************************************************)
(* Action_GetNext hands worker w the command c, which starts to wait for   *)
(* its semaphores.                                                         *)
(***************************************************************************)
Begin(w, c) ==
  /\ pc[w] = "idle" /\ cmdCount[w] > 0
  /\ cmdCount' = Set(cmdCount, w, cmdCount[w] - 1)
  /\ cmd' = Set(cmd, w, c)
  /\ sems' = Set(sems, w, LocksOf(c))
  /\ pc' = Set(pc, w, "wait")
  /\ UNCHANGED <<shared, held, adj, reg, scan, total, err>>

(***************************************************************************)
(* sem_wait: passes only while the semaphore is positive.                  *)
(***************************************************************************)
SemWait(w) ==
  LET s == Head(sems[w])
  IN  /\ pc[w] = "wait" /\ sems[w] # << >>
      /\ sem[s] > 0
      /\ sem' = [sem EXCEPT ![s] = @ - 1]
      /\ held' = Set(held, w, held[w] \cup {s})
      /\ sems' = Set(sems, w, Tail(sems[w]))
      /\ UNCHANGED <<balance, branchBalance, cmdCount, pc, cmd, adj, reg, scan,
                     total, err>>

Locked(w) == pc[w] = "wait" /\ sems[w] = << >>

(***************************************************************************)
(* A transfer from an account to itself returns at once, with success and  *)
(* without taking a semaphore or looking at the funds.                     *)
(***************************************************************************)
SameAccount(w) ==
  /\ Locked(w) /\ IsSelfTransfer(cmd[w])
  /\ pc' = Set(pc, w, "return")
  /\ UNCHANGED <<shared, cmdCount, cmd, sems, held, adj, reg, scan, total, err>>

(***************************************************************************)
(* With its semaphores taken a teller that moves money out of an account   *)
(* compares the amount with the balance and gives up if it is larger.      *)
(***************************************************************************)
CheckFunds(w) ==
  /\ Locked(w) /\ IsTeller(cmd[w]) /\ ~IsSelfTransfer(cmd[w])
  /\ IF Insufficient(cmd[w], balance[cmd[w].src])
     THEN /\ err' = Set(err, w, "INSUFFICIENT_FUNDS")
          /\ sems' = Set(sems, w, PostsOf(cmd[w]))
          /\ pc' = Set(pc, w, "post")
     ELSE /\ pc' = Set(pc, w, "load")
          /\ UNCHANGED <<err, sems>>
  /\ UNCHANGED <<shared, cmdCount, cmd, held, adj, reg, scan, total>>

(***************************************************************************)
(* Account_Adjust: load the account, store the new balance, and, unless    *)
(* the transfer stays within a branch, load and store the branch.          *)
(***************************************************************************)
LoadAccount(w) ==
  /\ pc[w] = "load"
  /\ reg' = Set(reg, w, balance[Adjusting(w).account])
  /\ pc' = Set(pc, w, "store")
  /\ UNCHANGED <<shared, cmdCount, cmd, sems, held, adj, scan, total, err>>

(***************************************************************************)
(* After an adjustment: the next Account_Adjust, or the sem_post calls.    *)
(***************************************************************************)
Adjusted(w) ==
  IF adj[w] < Len(Adjustments(cmd[w]))
  THEN /\ adj' = Set(adj, w, adj[w] + 1)
       /\ pc' = Set(pc, w, "load")
       /\ UNCHANGED sems
  ELSE /\ sems' = Set(sems, w, PostsOf(cmd[w]))
       /\ pc' = Set(pc, w, "post")
       /\ UNCHANGED adj

StoreAccount(w) ==
  /\ pc[w] = "store"
  /\ balance' = [balance EXCEPT ![Adjusting(w).account] =
                                  reg[w] + Adjusting(w).amount]
  /\ IF Adjusting(w).updateBranch
     THEN pc' = Set(pc, w, "loadBranch") /\ UNCHANGED <<adj, sems>>
     ELSE Adjusted(w)
  /\ UNCHANGED <<sem, branchBalance, cmdCount, cmd, held, reg, scan, total, err>>

LoadBranch(w) ==
  /\ pc[w] = "loadBranch"
  /\ reg' = Set(reg, w, branchBalance[BranchOf(Adjusting(w).account)])
  /\ pc' = Set(pc, w, "storeBranch")
  /\ UNCHANGED <<shared, cmdCount, cmd, sems, held, adj, scan, total, err>>

StoreBranch(w) ==
  /\ pc[w] = "storeBranch"
  /\ branchBalance' = [branchBalance EXCEPT ![BranchOf(Adjusting(w).account)] =
                                               reg[w] + Adjusting(w).amount]
  /\ Adjusted(w)
  /\ UNCHANGED <<sem, balance, cmdCount, cmd, held, reg, scan, total, err>>

(***************************************************************************)
(* Branch_Balance, called for a branch enquiry and for each branch of a    *)
(* bank enquiry: read the balance under the branch's semaphore and post.   *)
(***************************************************************************)
ReadBranchBalance(w) ==
  /\ Locked(w) /\ ~IsTeller(cmd[w])
  /\ reg' = Set(reg, w, branchBalance[ReadBranch(w)])
  /\ sems' = Set(sems, w, << BranchSem(ReadBranch(w)) >>)
  /\ pc' = Set(pc, w, "post")
  /\ UNCHANGED <<shared, cmdCount, cmd, held, adj, scan, total, err>>

(***************************************************************************)
(* sem_post never blocks.                                                  *)
(***************************************************************************)
SemPost(w) ==
  LET s == Head(sems[w])
  IN  /\ pc[w] = "post" /\ sems[w] # << >>
      /\ sem' = [sem EXCEPT ![s] = @ + 1]
      /\ held' = Set(held, w, held[w] \ {s})
      /\ sems' = Set(sems, w, Tail(sems[w]))
      /\ UNCHANGED <<balance, branchBalance, cmdCount, pc, cmd, adj, reg, scan,
                     total, err>>

Posted(w) == pc[w] = "post" /\ sems[w] = << >>

(***************************************************************************)
(* Bank_Balance after Branch_Balance has returned: add the branch to the   *)
(* total and go on to the next one, or post the bank's semaphore.          *)
(***************************************************************************)
NextBranch(w) ==
  /\ Posted(w) /\ cmd[w].op = "bankBalance" /\ scan[w] < NumBranches
  /\ total' = Set(total, w, total[w] + reg[w])
  /\ scan' = Set(scan, w, scan[w] + 1)
  /\ IF scan[w] + 1 < NumBranches
     THEN /\ sems' = Set(sems, w, << BranchSem(scan[w] + 1) >>)
          /\ pc' = Set(pc, w, "wait")
     ELSE /\ sems' = Set(sems, w, << BankSem >>)
          /\ UNCHANGED pc
  /\ UNCHANGED <<shared, cmdCount, cmd, held, adj, reg, err>>

(***************************************************************************)
(* All semaphores posted: the operation returns.                           *)
(***************************************************************************)
Finish(w) ==
  /\ Posted(w) /\ (cmd[w].op = "bankBalance" => scan[w] = NumBranches)
  /\ pc' = Set(pc, w, "return")
  /\ UNCHANGED <<shared, cmdCount, cmd, sems, held, adj, reg, scan, total, err>>

(***************************************************************************)
(* The worker uses the result and loops; its locals are dead.              *)
(***************************************************************************)
Return(w) ==
  /\ pc[w] = "return"
  /\ pc' = Set(pc, w, "idle")
  /\ cmd' = Set(cmd, w, NoCommand)
  /\ adj' = Set(adj, w, 1)
  /\ reg' = Set(reg, w, 0)
  /\ scan' = Set(scan, w, 0)
  /\ total' = Set(total, w, 0)
  /\ err' = Set(err, w, "SUCCESS")
  /\ UNCHANGED <<shared, cmdCount, sems, held>>

Done(w) == pc[w] = "idle" /\ cmdCount[w] = 0

Terminating == (\A w \in Worker : Done(w)) /\ UNCHANGED vars

Step(w) ==
  \/ \E c \in Workload : Begin(w, c)
  \/ SemWait(w)
  \/ SameAccount(w)
  \/ CheckFunds(w)
  \/ LoadAccount(w)
  \/ StoreAccount(w)
  \/ LoadBranch(w)
  \/ StoreBranch(w)
  \/ ReadBranchBalance(w)
  \/ SemPost(w)
  \/ NextBranch(w)
  \/ Finish(w)
  \/ Return(w)

Next == (\E w \in Worker : Step(w)) \/ Terminating

Spec == Init /\ [][Next]_vars

(***************************************************************************)
(* The operating system goes on scheduling every runnable thread.          *)
(***************************************************************************)
FairSpec == Spec /\ \A w \in Worker : WF_vars(Step(w))
-----------------------------------------------------------------------------
PC == {"idle", "wait", "load", "store", "loadBranch", "storeBranch", "post",
       "return"}

(***************************************************************************)
(* Type invariant.  A binary semaphore is 0 or 1: a sem_post by a thread   *)
(* that does not hold it would raise it to 2.                              *)
(***************************************************************************)
TypeOK ==
  /\ sem \in [Semaphore -> {0, 1}]
  /\ balance \in [Account -> Int]
  /\ branchBalance \in [Branch -> Int]
  /\ cmdCount \in [Worker -> 0 .. MaxCommands]
  /\ pc \in [Worker -> PC]
  /\ cmd \in [Worker -> Command]
  /\ sems \in [Worker -> Seq(Semaphore)]
  /\ held \in [Worker -> SUBSET Semaphore]
  /\ adj \in [Worker -> {1, 2}]
  /\ reg \in [Worker -> Int]
  /\ scan \in [Worker -> 0 .. NumBranches]
  /\ total \in [Worker -> Int]
  /\ err \in [Worker -> {"SUCCESS", "INSUFFICIENT_FUNDS"}]

(***************************************************************************)
(* The balances a worker is about to access, or is between the load and    *)
(* the store of.                                                           *)
(***************************************************************************)
Touches(w) ==
  CASE Locked(w) /\ cmd[w].op \in {"withdraw", "transfer"} /\ ~IsSelfTransfer(cmd[w])
         -> {AccountSem(cmd[w].src)}
    [] Locked(w) /\ ~IsTeller(cmd[w]) -> {BranchSem(ReadBranch(w))}
    [] pc[w] \in {"load", "store"} -> {AccountSem(Adjusting(w).account)}
    [] pc[w] \in {"loadBranch", "storeBranch"}
         -> {BranchSem(BranchOf(Adjusting(w).account))}
    [] OTHER -> {}

(***************************************************************************)
(* No data race: two workers are never at an access of the same account's, *)
(* or the same branch's, balance.  Account_Adjust and Branch_UpdateBalance *)
(* load and store without a check, so a race loses an update.              *)
(***************************************************************************)
NoDataRace ==
  \A v, w \in Worker : v # w => Touches(v) \cap Touches(w) = {}

(***************************************************************************)
(* The order in which semaphores are taken: the bank, then accounts by     *)
(* number, then branches by ID.                                            *)
(***************************************************************************)
Kind(s) == CASE s[1] = "bank" -> 0 [] s[1] = "account" -> 1 [] OTHER -> 2

Before(s, t) ==
  \/ Kind(s) < Kind(t)
  \/ Kind(s) = Kind(t) /\ s[2] < t[2]
  \/ Kind(s) = Kind(t) /\ s[2] = t[2] /\ s[3] < t[3]

(***************************************************************************)
(* A worker only waits for a semaphore that comes after all it holds: the  *)
(* discipline that Teller_DoTransfer's branches on the account number and  *)
(* on the branch ID are there to keep.                                     *)
(***************************************************************************)
LockOrder ==
  \A w \in Worker :
    pc[w] = "wait" /\ sems[w] # << >> =>
      \A s \in held[w] : Before(s, Head(sems[w]))

Blocked(w) == pc[w] = "wait" /\ sems[w] # << >> /\ sem[Head(sems[w])] = 0

(***************************************************************************)
(* Workers never all wait for one another: unless every worker has carried *)
(* out all its commands, one that has not is free to go on.                *)
(***************************************************************************)
NoDeadlock ==
  (\E w \in Worker : ~Done(w)) => \E w \in Worker : ~Done(w) /\ ~Blocked(w)

(***************************************************************************)
(* What worker w's unfinished Account_Adjust calls will still add to the   *)
(* accounts of branch b, less what they will still add to b's own balance. *)
(***************************************************************************)
Owed(w, b) ==
  LET adjs == Adjustments(cmd[w])
      account(i) == i > adj[w] \/ pc[w] \in {"load", "store"}
      amount == [i \in DOMAIN adjs |->
                   (IF account(i) THEN adjs[i].amount ELSE 0)
                     - (IF adjs[i].updateBranch THEN adjs[i].amount ELSE 0)]
  IN  IF pc[w] \in {"load", "store", "loadBranch", "storeBranch"}
      THEN SumFunctionOnSet(amount, {i \in adj[w] .. Len(adjs) :
                                       BranchOf(adjs[i].account) = b})
      ELSE 0

(***************************************************************************)
(* The balance of a branch is the sum of its accounts, up to what the      *)
(* adjustments in progress still owe: no interleaving loses an update, and *)
(* a transfer within a branch rightly leaves the branch's balance alone.   *)
(***************************************************************************)
BranchConsistent ==
  \A b \in Branch :
    branchBalance[b] = BranchSum(balance, b)
                         + SumFunctionOnSet([w \in Worker |-> Owed(w, b)], Worker)

(***************************************************************************)
(* An account goes below zero only if it was created so, and then no       *)
(* command takes anything from it: the check of the funds and the          *)
(* adjustment it licenses see the same balance.                            *)
(***************************************************************************)
NoOverdraft ==
  \A a \in Account : balance[a] < 0 => balance[a] >= InitialBalance[a]

(***************************************************************************)
(* When no command moves funds in or out, as in test 7 of the driver,      *)
(* every Bank_Balance returns the total the bank was created with,         *)
(* whatever transfers run meanwhile.                                       *)
(***************************************************************************)
NoFundsFlow ==
  \A c \in Workload : c.op \in {"deposit", "withdraw"} => c.amount = 0

FixedBankBalance ==
  NoFundsFlow =>
    \A w \in Worker :
      pc[w] = "return" /\ cmd[w].op = "bankBalance" =>
        total[w] = SumFunctionOnSet(InitialBalance, Account)

(***************************************************************************)
(* Every worker carries out all its commands.                              *)
(***************************************************************************)
AllFinish == <>(\A w \in Worker : Done(w))

(***************************************************************************)
(* branch.c says of the point where Branch_Balance reads the balance that  *)
(* Branch_Validate would succeed there.                                    *)
(***************************************************************************)
BranchValidAtRead ==
  \A w \in Worker :
    Locked(w) /\ ~IsTeller(cmd[w]) =>
      branchBalance[ReadBranch(w)] = BranchSum(balance, ReadBranch(w))
-----------------------------------------------------------------------------
(***************************************************************************)
(* Refinement of BankAtomic.  A command takes effect at its first store    *)
(* to an account, at the check that finds the funds insufficient, or, for  *)
(* an enquiry, at its read; a transfer in progress still owes the amount   *)
(* to its destination.                                                     *)
(***************************************************************************)
OwesDestination(w) ==
  /\ cmd[w].op = "transfer"
  /\ \/ pc[w] \in {"loadBranch", "storeBranch"} /\ adj[w] = 1
     \/ pc[w] \in {"load", "store"} /\ adj[w] = 2

ReadNotAdded(w) ==
  pc[w] = "post" /\ cmd[w].op = "bankBalance" /\ scan[w] < NumBranches

scanned == [w \in Worker |-> IF ReadNotAdded(w) THEN scan[w] + 1 ELSE scan[w]]

Committed(w) ==
  CASE cmd[w].op = "bankBalance" -> scanned[w] = NumBranches
    [] cmd[w].op = "branchBalance" -> pc[w] \in {"post", "return"}
    [] OTHER -> \/ pc[w] \in {"post", "return", "loadBranch", "storeBranch"}
                \/ pc[w] \in {"load", "store"} /\ adj[w] = 2

phase == [w \in Worker |-> CASE pc[w] = "idle" -> "idle"
                              [] pc[w] # "idle" /\ Committed(w) -> "done"
                              [] OTHER -> "called"]

value == [w \in Worker |->
            IF ReadNotAdded(w) THEN total[w] + reg[w]
            ELSE IF cmd[w].op = "branchBalance" THEN reg[w] ELSE total[w]]

accounts == [a \in Account |->
               balance[a] + SumFunctionOnSet(
                 [w \in Worker |-> IF OwesDestination(w) /\ cmd[w].dst = a
                                   THEN cmd[w].amount ELSE 0], Worker)]

Atomic == INSTANCE BankAtomic WITH balance <- accounts, scan <- scanned

(***************************************************************************)
(* The bank implements one in which every teller command is a single step. *)
(***************************************************************************)
Refinement == Atomic!Spec
=============================================================================
