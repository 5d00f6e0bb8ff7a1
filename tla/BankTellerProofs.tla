-------------------------- MODULE BankTellerProofs --------------------------
(***************************************************************************)
(* Theorems about BankTeller for any number of workers, branches, accounts *)
(* and commands, in three parts: the semaphore discipline, with type       *)
(* correctness, freedom from data races and freedom from deadlock; the     *)
(* balances; and that BankTeller implements BankAtomic.                    *)
(***************************************************************************)
EXTENDS BankTeller, OperatorProofs

(***************************************************************************)
(* The running sum is what its recursion says.                             *)
(***************************************************************************)
LEMMA RunningSumFact ==
  ASSUME NEW bal \in [Account -> Int], NEW b \in Branch
  PROVE  /\ RunningSum(bal, b) \in [0 .. AccountsPerBranch -> Int]
         /\ RunningSum(bal, b)[0] = 0
         /\ \A n \in 1 .. AccountsPerBranch :
              RunningSum(bal, b)[n] = RunningSum(bal, b)[n - 1] + bal[<<b, n - 1>>]
<1> DEFINE N == AccountsPerBranch
           Sums(f, n) == /\ f \in [0 .. n -> Int] /\ f[0] = 0
                         /\ \A i \in 1 .. n : f[i] = f[i - 1] + bal[<<b, i - 1>>]
           T == {n \in 0 .. N : \A f : ~Sums(f, n)}
<1>0. /\ N \in Nat \ {0}
      /\ \A i \in 1 .. N : <<b, i - 1>> \in Account /\ bal[<<b, i - 1>>] \in Int
  BY SizeAssumption DEF Account, SubAccount
<1>1. T = {}
  <2> SUFFICES ASSUME T # {} PROVE FALSE
    OBVIOUS
  <2>1. PICK n \in T : \A m \in T : n <= m
    <3>1. T \in SUBSET Nat
      BY <1>0
    <3> HIDE DEF T
    <3> QED BY <3>1, LeastNat
  <2>2. CASE n = 0
    <3>1. Sums([i \in 0 .. 0 |-> 0], 0)
      OBVIOUS
    <3> QED BY <2>1, <2>2, <3>1
  <2>3. CASE n # 0
    <3>1. n \in 1 .. N /\ n - 1 \in 0 .. N /\ n - 1 \notin T
      BY <1>0, <2>1, <2>3, SMTT(30)
    <3>2. PICK f : Sums(f, n - 1)
      BY <3>1
    <3> DEFINE g == [i \in 0 .. n |-> IF i = n THEN f[n - 1] + bal[<<b, n - 1>>] ELSE f[i]]
    <3>3. g \in [0 .. n -> Int] /\ g[0] = 0
      BY <1>0, <3>1, <3>2
    <3>4. ASSUME NEW i \in 1 .. n PROVE g[i] = g[i - 1] + bal[<<b, i - 1>>]
      <4>1. CASE i = n
        BY <3>1, <4>1
      <4>2. CASE i # n
        <5>1. i \in 1 .. n - 1 /\ i \in 0 .. n /\ i - 1 \in 0 .. n /\ i - 1 # n
          BY <3>1, <4>2
        <5>2. f[i] = f[i - 1] + bal[<<b, i - 1>>]
          BY <3>2, <5>1
        <5> QED BY <4>2, <5>1, <5>2
      <4> QED BY <4>1, <4>2
    <3>5. Sums(g, n)
      BY <3>3, <3>4
    <3> QED BY <2>1, <3>5
  <2> QED BY <2>2, <2>3
<1>2. PICK f : Sums(f, N)
  BY <1>0, <1>1
<1>3. f = [n \in 0 .. N |-> IF n = 0 THEN 0 ELSE f[n - 1] + bal[<<b, n - 1>>]]
  BY <1>0, <1>2
<1> DEFINE r == RunningSum(bal, b)
<1>4. r = [n \in 0 .. N |-> IF n = 0 THEN 0 ELSE r[n - 1] + bal[<<b, n - 1>>]]
  BY <1>3 DEF RunningSum
<1> HIDE DEF r
<1>5. /\ r[0] = 0
      /\ \A n \in 1 .. N : r[n] = r[n - 1] + bal[<<b, n - 1>>]
  BY <1>0, <1>4
<1> DEFINE U == {n \in 0 .. N : r[n] \notin Int}
<1>6. U = {}
  <2> SUFFICES ASSUME U # {} PROVE FALSE
    OBVIOUS
  <2>1. PICK n \in U : \A m \in U : n <= m
    <3>1. U \in SUBSET Nat
      BY <1>0
    <3> HIDE DEF U
    <3> QED BY <3>1, LeastNat
  <2>2. n # 0 /\ n \in 1 .. N /\ n - 1 \in 0 .. N /\ n - 1 \notin U
    BY <1>0, <1>5, <2>1
  <2>3. r[n - 1] \in Int /\ bal[<<b, n - 1>>] \in Int
    BY <1>0, <2>2
  <2>4. r[n] = r[n - 1] + bal[<<b, n - 1>>]
    BY <1>5, <2>2
  <2>5. r[n] \in Int
    BY <2>3, <2>4
  <2> QED BY <2>1, <2>5
<1>7. r \in [0 .. N -> Int]
  BY <1>4, <1>6
<1> QED BY <1>5, <1>7 DEF r

LEMMA BranchSumType ==
  ASSUME NEW bal \in [Account -> Int], NEW b \in Branch
  PROVE  BranchSum(bal, b) \in Int
BY RunningSumFact, SizeAssumption DEF BranchSum

(***************************************************************************)
(* The sum of a branch follows a change of one account.                    *)
(***************************************************************************)
LEMMA BranchSumChange ==
  ASSUME NEW bal \in [Account -> Int], NEW new \in [Account -> Int], NEW a \in Account,
         \A x \in Account \ {a} : new[x] = bal[x], NEW b \in Branch
  PROVE  BranchSum(new, b) =
           BranchSum(bal, b) + (IF BranchOf(a) = b THEN new[a] - bal[a] ELSE 0)
<1> DEFINE r == RunningSum(bal, b)
           q == RunningSum(new, b)
           d(n) == IF BranchOf(a) = b /\ a[2] < n THEN new[a] - bal[a] ELSE 0
           T == {n \in 0 .. AccountsPerBranch : q[n] # r[n] + d(n)}
<1>0. /\ AccountsPerBranch \in Nat /\ a = <<a[1], a[2]>> /\ a[2] \in 0 .. AccountsPerBranch - 1
      /\ \A n \in 1 .. AccountsPerBranch : <<b, n - 1>> \in Account
  BY SizeAssumption DEF Account, SubAccount
<1>1. /\ r \in [0 .. AccountsPerBranch -> Int] /\ q \in [0 .. AccountsPerBranch -> Int]
      /\ r[0] = 0 /\ q[0] = 0
      /\ \A n \in 1 .. AccountsPerBranch :
           r[n] = r[n - 1] + bal[<<b, n - 1>>] /\ q[n] = q[n - 1] + new[<<b, n - 1>>]
  BY RunningSumFact
<1> HIDE DEF r, q
<1>2. T = {}
  <2> SUFFICES ASSUME T # {} PROVE FALSE
    OBVIOUS
  <2>1. PICK n \in T : \A m \in T : n <= m
    <3>1. T \in SUBSET Nat
      BY <1>0
    <3> HIDE DEF T
    <3> QED BY <3>1, LeastNat
  <2>2. n # 0
    BY <1>0, <1>1, <2>1
  <2>3. n \in 1 .. AccountsPerBranch /\ n - 1 \in 0 .. AccountsPerBranch /\ n - 1 \notin T
    BY <1>0, <2>1, <2>2
  <2>4. q[n - 1] = r[n - 1] + d(n - 1)
    BY <2>3
  <2>5. new[<<b, n - 1>>] = bal[<<b, n - 1>>] + d(n) - d(n - 1)
    <3>1. new[a] \in Int /\ bal[a] \in Int /\ bal[<<b, n - 1>>] \in Int
      BY <1>0, <2>3
    <3>2. CASE <<b, n - 1>> = a
      BY <1>0, <2>3, <3>1, <3>2 DEF BranchOf
    <3>3. CASE <<b, n - 1>> # a
      <4>1. new[<<b, n - 1>>] = bal[<<b, n - 1>>]
        BY <1>0, <2>3, <3>3
      <4>2. d(n) = d(n - 1)
        BY <1>0, <2>3, <3>3 DEF BranchOf
      <4>3. d(n) \in Int
        BY <3>1
      <4> HIDE DEF d
      <4> QED BY <3>1, <4>1, <4>2, <4>3
    <3> QED BY <3>2, <3>3
  <2>6. d(n) \in Int /\ d(n - 1) \in Int
    OBVIOUS
  <2>7. r[n - 1] \in Int /\ bal[<<b, n - 1>>] \in Int
    BY <1>0, <1>1, <2>3
  <2> HIDE DEF d
  <2>8. q[n] = r[n] + d(n)
    BY <1>1, <2>3, <2>4, <2>5, <2>6, <2>7
  <2> QED BY <2>1, <2>8
<1>3. q[AccountsPerBranch] = r[AccountsPerBranch] + d(AccountsPerBranch)
  BY <1>0, <1>2
<1> QED BY <1>0, <1>3 DEF BranchSum, q, r
-----------------------------------------------------------------------------
(***************************************************************************)
(* A command makes at most two adjustments.                                *)
(***************************************************************************)
AdjustmentRecord == [account : Account, amount : Int, updateBranch : BOOLEAN]

LEMMA AdjustmentsType ==
  ASSUME NEW c \in Command
  PROVE  /\ Adjustments(c) \in Seq(AdjustmentRecord)
         /\ Len(Adjustments(c)) \in {0, 1, 2}
         /\ IsTeller(c) <=> Len(Adjustments(c)) # 0
<1>0. c.src \in Account /\ c.dst \in Account /\ c.amount \in Nat /\ c.op \in Op
  BY DEF Command
<1>1. /\ Len(<< >>) = 0 /\ << >> \in Seq(AdjustmentRecord)
      /\ \A x \in AdjustmentRecord : Len(<<x>>) = 1 /\ <<x>> \in Seq(AdjustmentRecord)
      /\ \A x, y \in AdjustmentRecord :
           Len(<<x, y>>) = 2 /\ <<x, y>> \in Seq(AdjustmentRecord)
  OBVIOUS
<1>2. \A a \in Account, n \in Int, u \in BOOLEAN : Adjustment(a, n, u) \in AdjustmentRecord
  BY DEF Adjustment, AdjustmentRecord
<1>3. /\ IsSameBranch(c.src, c.dst) \in BOOLEAN
      /\ c.amount \in Int /\ -c.amount \in Int
  BY <1>0 DEF IsSameBranch
<1>4. CASE c.op \in {"deposit", "withdraw"}
  <2> DEFINE n == IF c.op = "deposit" THEN c.amount ELSE -c.amount
             d == Adjustment(c.src, n, TRUE)
  <2>1. n \in Int /\ Adjustments(c) = << d >>
    BY <1>3, <1>4 DEF Adjustments
  <2>2. d \in AdjustmentRecord
    <3> HIDE DEF n
    <3>1. TRUE \in BOOLEAN
      OBVIOUS
    <3> QED BY <1>0, <1>2, <2>1, <3>1
  <2> HIDE DEF d
  <2> QED BY <1>1, <1>4, <2>1, <2>2 DEF IsTeller
<1>5. CASE c.op = "transfer"
  <2> DEFINE adj1 == Adjustment(c.src, -c.amount, ~IsSameBranch(c.src, c.dst))
             adj2 == Adjustment(c.dst, c.amount, ~IsSameBranch(c.src, c.dst))
  <2>1. Adjustments(c) = << adj1, adj2 >>
    BY <1>5 DEF Adjustments
  <2>2. adj1 \in AdjustmentRecord /\ adj2 \in AdjustmentRecord
    BY <1>0, <1>2, <1>3
  <2> HIDE DEF adj1, adj2
  <2> QED BY <1>1, <1>5, <2>1, <2>2 DEF IsTeller
<1>6. CASE c.op \in {"branchBalance", "bankBalance"}
  BY <1>1, <1>6 DEF Adjustments, IsTeller
<1> QED BY <1>0, <1>4, <1>5, <1>6 DEF Op
-----------------------------------------------------------------------------
(***************************************************************************)
(* The accounts, taken branch by branch: the sum over all accounts is the  *)
(* sum of the branches'.                                                   *)
(***************************************************************************)
AccountsBefore(k, n) == {a \in Account : a[1] < k \/ (a[1] = k /\ a[2] < n)}

LEMMA FiniteData == IsFiniteSet(Branch) /\ IsFiniteSet(SubAccount) /\ IsFiniteSet(Account)
<1>1. NumBranches \in Int /\ AccountsPerBranch \in Int
  BY SizeAssumption
<1>2. NumBranches - 1 \in Int /\ AccountsPerBranch - 1 \in Int /\ 0 \in Int
  BY <1>1
<1>3. IsFiniteSet(0 .. NumBranches - 1) /\ IsFiniteSet(0 .. AccountsPerBranch - 1)
  BY <1>2, FS_Interval, Zenon
<1> QED BY <1>3, FS_Product DEF Branch, SubAccount, Account

LEMMA BranchOfAccounts ==
  ASSUME NEW bal \in [Account -> Int], NEW k \in Branch
  PROVE  SumFunctionOnSet(bal, AccountsBefore(k + 1, 0)) =
           SumFunctionOnSet(bal, AccountsBefore(k, 0)) + BranchSum(bal, k)
<1> DEFINE N == AccountsPerBranch
           r == RunningSum(bal, k)
           s(n) == SumFunctionOnSet(bal, AccountsBefore(k, n))
           T == {n \in 0 .. N : s(n) # s(0) + r[n]}
<1>0. N \in Nat /\ k \in Nat /\ \A a \in Account : a[1] \in Nat /\ a[2] \in Nat /\ a[2] < N
                                  /\ a = <<a[1], a[2]>>
  BY SizeAssumption DEF Account, Branch, SubAccount
<1>1. /\ r \in [0 .. N -> Int] /\ r[0] = 0
      /\ \A n \in 1 .. N : r[n] = r[n - 1] + bal[<<k, n - 1>>]
  BY RunningSumFact
<1>2. \A n \in 0 .. N : AccountsBefore(k, n) \in SUBSET Account /\ s(n) \in Int
  BY FiniteData, SumFact DEF AccountsBefore
<1>3. ASSUME NEW n \in 1 .. N PROVE s(n) = s(n - 1) + bal[<<k, n - 1>>]
  <2>1. <<k, n - 1>> \in Account /\ n \in 0 .. N /\ n - 1 \in 0 .. N
    BY <1>0 DEF Account, SubAccount
  <2>2. <<k, n - 1>> \in AccountsBefore(k, n)
    BY <1>0, <2>1 DEF AccountsBefore
  <2>3. AccountsBefore(k, n) \ {<<k, n - 1>>} = AccountsBefore(k, n - 1)
    BY <1>0, <2>1 DEF AccountsBefore
  <2>4. s(n) = bal[<<k, n - 1>>] + s(n - 1)
    BY <1>2, <2>1, <2>2, <2>3, FiniteData, SumRemove
  <2>5. bal[<<k, n - 1>>] \in Int /\ s(n - 1) \in Int
    BY <1>2, <2>1
  <2> HIDE DEF s
  <2> QED BY <2>4, <2>5
<1> HIDE DEF r, s
<1>4. T = {}
  <2> SUFFICES ASSUME T # {} PROVE FALSE
    OBVIOUS
  <2>1. PICK n \in T : \A m \in T : n <= m
    <3>1. T \in SUBSET Nat
      BY <1>0
    <3> HIDE DEF T
    <3> QED BY <3>1, LeastNat
  <2>2. n # 0
    BY <1>0, <1>1, <1>2, <2>1
  <2>3. n \in 1 .. N /\ n - 1 \in 0 .. N /\ n - 1 \notin T /\ 0 \in 0 .. N
    BY <1>0, <2>1, <2>2
  <2>4. s(n - 1) = s(0) + r[n - 1] /\ s(n) = s(n - 1) + bal[<<k, n - 1>>]
        /\ r[n] = r[n - 1] + bal[<<k, n - 1>>]
    BY <1>1, <1>3, <2>3
  <2>5. s(0) \in Int /\ r[n - 1] \in Int /\ bal[<<k, n - 1>>] \in Int
    <3>1. <<k, n - 1>> \in Account
      BY <1>0, <2>3 DEF Account, SubAccount
    <3> QED BY <1>1, <1>2, <2>3, <3>1
  <2> QED BY <2>1, <2>4, <2>5
<1>5. s(N) = s(0) + r[N]
  BY <1>0, <1>4
<1>6. AccountsBefore(k, N) = AccountsBefore(k + 1, 0)
  BY <1>0 DEF AccountsBefore
<1> QED BY <1>5, <1>6 DEF s, r, BranchSum

LEMMA AccountsByBranch ==
  ASSUME NEW bal \in [Account -> Int]
  PROVE  SumFunctionOnSet([b \in Branch |-> BranchSum(bal, b)], Branch) =
           SumFunctionOnSet(bal, Account)
<1> DEFINE N == NumBranches
           f == [b \in Branch |-> BranchSum(bal, b)]
           p(k) == SumFunctionOnSet(f, 0 .. k - 1)
           s(k) == SumFunctionOnSet(bal, AccountsBefore(k, 0))
           T == {k \in 0 .. N : p(k) # s(k)}
<1>0. N \in Nat /\ \A a \in Account : a[1] \in Nat /\ a[2] \in Nat /\ a[1] < N
  BY SizeAssumption DEF Account, Branch, SubAccount
<1>1. f \in [Branch -> Int]
  BY BranchSumType
<1>2. \A k \in 0 .. N : AccountsBefore(k, 0) \in SUBSET Account /\ s(k) \in Int
  BY FiniteData, SumFact DEF AccountsBefore
<1>3. p(0) = 0 /\ s(0) = 0
  <2>1. 0 .. 0 - 1 = {} /\ AccountsBefore(0, 0) = {}
    BY <1>0 DEF AccountsBefore
  <2>2. SumFunctionOnSet(f, {}) = 0 /\ SumFunctionOnSet(bal, {}) = 0
    <3> HIDE DEF f
    <3> QED BY <1>1, FiniteData, SumFact
  <2> QED BY <2>1, <2>2
<1>4. ASSUME NEW k \in Branch PROVE p(k + 1) = p(k) + BranchSum(bal, k) /\ p(k) \in Int
  <2> DEFINE I == 0 .. (k + 1) - 1
             J == 0 .. k - 1
  <2>1. k \in I /\ I \ {k} = J /\ I \in SUBSET Branch /\ J \in SUBSET Branch
    BY <1>0 DEF Branch
  <2>2. f[k] = BranchSum(bal, k) /\ f[k] \in Int
    BY <1>1
  <2> HIDE DEF f
  <2> HIDE DEF I, J
  <2>3. SumFunctionOnSet(f, I) = f[k] + SumFunctionOnSet(f, J) /\ SumFunctionOnSet(f, J) \in Int
    BY <1>1, <2>1, FiniteData, SumFact
  <2>4. p(k + 1) = f[k] + p(k) /\ p(k) \in Int
    BY <2>3 DEF I, J
  <2> HIDE DEF p
  <2> QED BY <2>2, <2>4
<1>5. ASSUME NEW k \in Branch PROVE s(k + 1) = s(k) + BranchSum(bal, k)
  BY BranchOfAccounts
<1> HIDE DEF f, p, s
<1>6. T = {}
  <2> SUFFICES ASSUME T # {} PROVE FALSE
    OBVIOUS
  <2>1. PICK n \in T : \A m \in T : n <= m
    <3>1. T \in SUBSET Nat
      BY <1>0
    <3> HIDE DEF T
    <3> QED BY <3>1, LeastNat
  <2>2. n # 0
    BY <1>3, <2>1
  <2>3. n - 1 \in Branch /\ n - 1 \in 0 .. N /\ n - 1 \notin T /\ (n - 1) + 1 = n
    BY <1>0, <2>1, <2>2 DEF Branch
  <2>4. p(n - 1) = s(n - 1)
    BY <2>3
  <2>5. p(n) = p(n - 1) + BranchSum(bal, n - 1)
    BY <1>4, <2>3
  <2>6. s(n) = s(n - 1) + BranchSum(bal, n - 1)
    BY <1>5, <2>3
  <2> QED BY <2>1, <2>4, <2>5, <2>6
<1>7. p(N) = s(N)
  BY <1>0, <1>6
<1>8. AccountsBefore(N, 0) = Account
  BY <1>0 DEF AccountsBefore
<1> QED BY <1>7, <1>8 DEF p, s, f, Branch

LEMMA AdjustmentValues ==
  ASSUME NEW c \in Command
  PROVE  /\ c.op = "deposit" => Adjustments(c) = << Adjustment(c.src, c.amount, TRUE) >>
         /\ c.op = "withdraw" => Adjustments(c) = << Adjustment(c.src, -c.amount, TRUE) >>
         /\ c.op = "transfer" =>
              /\ Len(Adjustments(c)) = 2
              /\ Adjustments(c)[1].account = c.src /\ Adjustments(c)[1].amount = -c.amount
              /\ Adjustments(c)[2].account = c.dst /\ Adjustments(c)[2].amount = c.amount
<1>1. CASE c.op = "transfer"
  <2> DEFINE adj1 == Adjustment(c.src, -c.amount, ~IsSameBranch(c.src, c.dst))
             adj2 == Adjustment(c.dst, c.amount, ~IsSameBranch(c.src, c.dst))
  <2>1. Adjustments(c) = << adj1, adj2 >>
    BY <1>1 DEF Adjustments
  <2>2. /\ adj1.account = c.src /\ adj1.amount = -c.amount
        /\ adj2.account = c.dst /\ adj2.amount = c.amount
    BY DEF Adjustment
  <2> HIDE DEF adj1, adj2
  <2>3. Len(<< adj1, adj2 >>) = 2 /\ << adj1, adj2 >>[1] = adj1 /\ << adj1, adj2 >>[2] = adj2
    OBVIOUS
  <2> QED BY <1>1, <2>1, <2>2, <2>3
<1>2. CASE c.op # "transfer"
  BY <1>2 DEF Adjustments
<1> QED BY <1>1, <1>2

(***************************************************************************)
(* What a command adds to an account.                                      *)
(***************************************************************************)
Change(c, a) ==
  CASE c.op = "deposit" -> IF a = c.src THEN c.amount ELSE 0
    [] c.op = "withdraw" -> IF a = c.src THEN -c.amount ELSE 0
    [] c.op = "transfer" -> (IF a = c.src THEN -c.amount ELSE 0)
                              + (IF a = c.dst THEN c.amount ELSE 0)
    [] OTHER -> 0

LEMMA AppliedFact ==
  ASSUME NEW bal \in [Account -> Int], NEW c \in Command, NEW a \in Account
  PROVE  /\ Applied(bal, c) \in [Account -> Int]
         /\ Change(c, a) \in Int
         /\ Applied(bal, c)[a] = bal[a] + Change(c, a)
<1> DEFINE adjs == Adjustments(c)
           D == DOMAIN adjs
           f == [i \in D |-> adjs[i].amount]
           I(x) == {i \in D : adjs[i].account = x}
<1>0. c.src \in Account /\ c.dst \in Account /\ c.amount \in Nat /\ c.op \in Op
  BY DEF Command
<1>1. adjs \in Seq(AdjustmentRecord) /\ Len(adjs) \in {0, 1, 2}
  BY AdjustmentsType
<1>2. D = 1 .. Len(adjs) /\ \A i \in D : adjs[i].amount \in Int
  <2> HIDE DEF adjs
  <2>1. D = 1 .. Len(adjs) /\ \A i \in 1 .. Len(adjs) : adjs[i] \in AdjustmentRecord
    BY <1>1
  <2> QED BY <2>1 DEF AdjustmentRecord
<1>3. D \subseteq {1, 2} /\ IsFiniteSet(D)
  <2>1. D \subseteq {1, 2}
    <3> DEFINE n == Len(adjs)
    <3>1. n \in {0, 1, 2} /\ D = 1 .. n
      BY <1>1, <1>2
    <3> HIDE DEF n, D
    <3> QED BY <3>1
  <2>2. IsFiniteSet({1, 2})
    <3>1. IsFiniteSet({1})
      BY FS_Singleton
    <3>2. IsFiniteSet({1} \cup {2})
      BY <3>1, FS_AddElement
    <3>3. {1} \cup {2} = {1, 2}
      OBVIOUS
    <3> QED BY <3>2, <3>3
  <2> QED BY <2>1, <2>2, FS_Subset
<1>4. f \in [D -> Int]
  BY <1>2
<1>5. \A x \in Account : Applied(bal, c)[x] = bal[x] + SumFunctionOnSet(f, I(x))
  BY DEF Applied
<1>6. ASSUME NEW x \in Account
      PROVE  /\ SumFunctionOnSet(f, I(x)) \in Int
             /\ SumFunctionOnSet(f, I(x)) =
                  (IF 1 \in I(x) THEN f[1] ELSE 0) + (IF 2 \in I(x) THEN f[2] ELSE 0)
  <2> DEFINE J == I(x)
  <2>1. J \in SUBSET D /\ J \subseteq {1, 2} /\ 1 # 2
    BY <1>3
  <2> HIDE DEF f, D, J
  <2>2. SumFunctionOnSet(f, J) \in Int
    BY <1>3, <1>4, <2>1, SumFact
  <2>3. SumFunctionOnSet(f, J) = (IF 1 \in J THEN f[1] ELSE 0) + (IF 2 \in J THEN f[2] ELSE 0)
    BY <1>3, <1>4, <2>1, SumPair
  <2> QED BY <2>2, <2>3 DEF J
<1>7. Applied(bal, c) \in [Account -> Int]
  <2>1. \A x \in Account : bal[x] + SumFunctionOnSet(f, I(x)) \in Int
    BY <1>6
  <2> QED BY <2>1 DEF Applied
<1>8. Change(c, a) \in Int /\ SumFunctionOnSet(f, I(a)) = Change(c, a)
  <2>1. CASE c.op \in {"deposit", "withdraw"}
    <3> DEFINE n == IF c.op = "deposit" THEN c.amount ELSE -c.amount
               d == Adjustment(c.src, n, TRUE)
    <3>1. adjs = << d >> /\ d.account = c.src /\ d.amount = n /\ n \in Int
      BY <1>0, <2>1, AdjustmentValues DEF Adjustment
    <3>2. Change(c, a) = IF a = c.src THEN n ELSE 0
      BY <2>1 DEF Change
    <3> HIDE DEF d, n
    <3>3. Len(<< d >>) = 1 /\ << d >>[1] = d
      OBVIOUS
    <3>4. D = {1} /\ adjs[1] = d
      BY <1>2, <3>1, <3>3
    <3>5. (1 \in I(a) <=> a = c.src) /\ ~(2 \in I(a)) /\ f[1] = n
      BY <3>1, <3>4
    <3> HIDE DEF f, D
    <3> QED BY <1>6, <3>1, <3>2, <3>5
  <2>2. CASE c.op = "transfer"
    <3>1. /\ Len(adjs) = 2 /\ adjs[1].account = c.src /\ adjs[1].amount = -c.amount
          /\ adjs[2].account = c.dst /\ adjs[2].amount = c.amount
      BY <2>2, AdjustmentValues
    <3>2. Change(c, a) = (IF a = c.src THEN -c.amount ELSE 0) + (IF a = c.dst THEN c.amount ELSE 0)
      BY <2>2 DEF Change
    <3> HIDE DEF adjs
    <3>3. 1 \in D /\ 2 \in D
      BY <1>2, <3>1
    <3>4. /\ 1 \in I(a) <=> a = c.src
          /\ 2 \in I(a) <=> a = c.dst
          /\ f[1] = -c.amount /\ f[2] = c.amount
      BY <3>1, <3>3
    <3> HIDE DEF f, D
    <3> QED BY <1>0, <1>6, <3>2, <3>4
  <2>3. CASE c.op \in {"branchBalance", "bankBalance"}
    <3>1. adjs = << >> /\ Change(c, a) = 0
      BY <2>3 DEF Adjustments, Change
    <3>2. D = {}
      BY <3>1
    <3>3. 1 \notin I(a) /\ 2 \notin I(a)
      BY <3>2
    <3> HIDE DEF f, D
    <3> QED BY <1>6, <3>1, <3>3
  <2> QED BY <1>0, <2>1, <2>2, <2>3 DEF Op
<1> QED BY <1>5, <1>7, <1>8
-----------------------------------------------------------------------------
(***************************************************************************)
(* Sequences of semaphores.                                                *)
(***************************************************************************)
Elems(s) == {s[i] : i \in 1 .. Len(s)}

Ascending(s) == \A i, j \in 1 .. Len(s) : i < j => Before(s[i], s[j])

Distinct(s) == \A i, j \in 1 .. Len(s) : i # j => s[i] # s[j]

LEMMA TailElems ==
  ASSUME NEW S, NEW s \in Seq(S), s # << >>
  PROVE  /\ Head(s) \in S /\ Tail(s) \in Seq(S)
         /\ Elems(s) = {Head(s)} \cup Elems(Tail(s))
         /\ Head(s) \in Elems(s)
<1>1. /\ Len(s) \in Nat \ {0} /\ Head(s) = s[1]
      /\ Len(Tail(s)) = Len(s) - 1
      /\ \A i \in 1 .. Len(s) - 1 : Tail(s)[i] = s[i + 1]
  OBVIOUS
<1>2. ASSUME NEW x \in Elems(s) PROVE x \in {Head(s)} \cup Elems(Tail(s))
  <2>1. PICK i \in 1 .. Len(s) : x = s[i]
    BY DEF Elems
  <2>2. CASE i = 1
    BY <1>1, <2>1, <2>2
  <2>3. CASE i # 1
    <3>1. i - 1 \in 1 .. Len(Tail(s)) /\ Tail(s)[i - 1] = s[i]
      BY <1>1, <2>3
    <3> QED BY <2>1, <3>1 DEF Elems
  <2> QED BY <2>2, <2>3
<1>3. ASSUME NEW x \in Elems(Tail(s)) PROVE x \in Elems(s)
  <2>1. PICK i \in 1 .. Len(Tail(s)) : x = Tail(s)[i]
    BY DEF Elems
  <2>2. i + 1 \in 1 .. Len(s) /\ x = s[i + 1]
    BY <1>1, <2>1
  <2> QED BY <2>2 DEF Elems
<1>4. Head(s) \in Elems(s)
  BY <1>1 DEF Elems
<1> QED BY <1>1, <1>2, <1>3, <1>4

LEMMA TailDistinct ==
  ASSUME NEW S, NEW s \in Seq(S), s # << >>, Distinct(s)
  PROVE  Distinct(Tail(s)) /\ Head(s) \notin Elems(Tail(s))
<1>1. /\ Len(s) \in Nat \ {0} /\ Head(s) = s[1]
      /\ Len(Tail(s)) = Len(s) - 1
      /\ \A i \in 1 .. Len(s) - 1 : Tail(s)[i] = s[i + 1]
  OBVIOUS
<1>2. Head(s) \notin Elems(Tail(s))
  BY <1>1 DEF Elems, Distinct
<1>3. Distinct(Tail(s))
  BY <1>1 DEF Distinct
<1> QED BY <1>2, <1>3

LEMMA TailAscending ==
  ASSUME NEW S, NEW s \in Seq(S), s # << >>, Ascending(s)
  PROVE  /\ Ascending(Tail(s))
         /\ \A t \in Elems(Tail(s)) : Before(Head(s), t)
<1>1. /\ Len(s) \in Nat \ {0} /\ Head(s) = s[1]
      /\ Len(Tail(s)) = Len(s) - 1
      /\ \A i \in 1 .. Len(s) - 1 : Tail(s)[i] = s[i + 1]
  OBVIOUS
<1>2. \A t \in Elems(Tail(s)) : Before(Head(s), t)
  <2> SUFFICES ASSUME NEW i \in 1 .. Len(s) - 1
                 PROVE  Before(s[1], s[i + 1])
    BY <1>1 DEF Elems
  <2> QED BY <1>1 DEF Ascending
<1>3. Ascending(Tail(s))
  <2> SUFFICES ASSUME NEW i \in 1 .. Len(s) - 1, NEW j \in 1 .. Len(s) - 1, i < j
                 PROVE  Before(s[i + 1], s[j + 1])
    BY <1>1 DEF Ascending
  <2> QED BY <1>1 DEF Ascending
<1> QED BY <1>2, <1>3

-----------------------------------------------------------------------------
(***************************************************************************)
(* The semaphores of a command.                                            *)
(***************************************************************************)
USE DEF Set

LockSet(c) == Elems(LocksOf(c))

LEMMA BranchFact ==
  /\ 0 \in Branch /\ 0 \in SubAccount
  /\ \A a \in Account : BranchOf(a) \in Branch /\ a = <<a[1], a[2]>>
                          /\ a[1] \in Branch /\ a[2] \in SubAccount
  /\ Branch \subseteq Nat /\ SubAccount \subseteq Nat
BY SizeAssumption DEF Branch, SubAccount, Account, BranchOf

LEMMA SemaphoreFact ==
  /\ BankSem \in Semaphore
  /\ \A a \in Account : AccountSem(a) \in Semaphore
  /\ \A b \in Branch : BranchSem(b) \in Semaphore
BY DEF Semaphore

LEMMA BeforeIrreflexive ==
  ASSUME NEW s \in Semaphore PROVE ~Before(s, s)
BY BranchFact DEF Before, Semaphore, BankSem, AccountSem, BranchSem, Kind

LEMMA LocksAscending ==
  ASSUME NEW c \in Command
  PROVE  LocksOf(c) \in Seq(Semaphore) /\ Ascending(LocksOf(c))
<1> USE BranchFact, SemaphoreFact
<1>0. c.src \in Account /\ c.dst \in Account /\ c.op \in Op
  BY DEF Command
<1>1. CASE c.op \in {"deposit", "withdraw"}
  BY <1>0, <1>1 DEF LocksOf, Ascending, Before, Kind, AccountSem, BranchSem
<1>2. CASE c.op = "branchBalance"
  BY <1>0, <1>2 DEF LocksOf, Ascending, Before, Kind, AccountSem, BranchSem
<1>3. CASE c.op = "bankBalance"
  BY <1>0, <1>3 DEF LocksOf, Ascending, Before, Kind, BankSem, BranchSem
<1>4. CASE c.op = "transfer" /\ IsSelfTransfer(c)
  BY <1>4 DEF LocksOf, Ascending
<1>5. CASE c.op = "transfer" /\ ~IsSelfTransfer(c)
  <2> DEFINE a == c.src
             b == c.dst
             L == TransferLocks(a, b)
  <2>1. LocksOf(c) = L /\ a # b
    BY <1>5 DEF LocksOf, IsSelfTransfer
  <2>2. AccountSem(a) \in Semaphore /\ AccountSem(b) \in Semaphore
        /\ BranchSem(BranchOf(a)) \in Semaphore /\ BranchSem(BranchOf(b)) \in Semaphore
    BY <1>0
  <2>3. L \in Seq(Semaphore)
    BY <2>2 DEF TransferLocks
  <2>4. CASE IsSameBranch(a, b)
    <3>1. PICK f \in {a, b}, g \in {a, b} :
             AccountLess(f, g) /\ L = << BankSem, AccountSem(f), AccountSem(g) >>
      BY <1>0, <2>1, <2>4 DEF TransferLocks, IsSameBranch, AccountLess, BranchOf
    <3>2. Before(AccountSem(f), AccountSem(g))
      BY <3>1 DEF AccountLess, AccountSem, Before, Kind
    <3>3. Before(BankSem, AccountSem(f)) /\ Before(BankSem, AccountSem(g))
      BY DEF BankSem, AccountSem, Before, Kind
    <3> QED BY <2>1, <2>3, <3>1, <3>2, <3>3 DEF Ascending
  <2>5. CASE ~IsSameBranch(a, b)
    <3>1. PICK f \in {a, b}, g \in {a, b} :
             /\ BranchOf(f) < BranchOf(g)
             /\ L = << BankSem, AccountSem(f), AccountSem(g),
                       BranchSem(BranchOf(f)), BranchSem(BranchOf(g)) >>
      BY <1>0, <2>1, <2>5 DEF TransferLocks, IsSameBranch, BranchOf
    <3>2. /\ Before(AccountSem(f), AccountSem(g))
          /\ Before(BranchSem(BranchOf(f)), BranchSem(BranchOf(g)))
      BY <3>1 DEF BranchOf, AccountSem, BranchSem, Before, Kind
    <3>3. \A h \in {f, g} : Before(BankSem, AccountSem(h))
                           /\ Before(BankSem, BranchSem(BranchOf(h)))
      BY DEF BankSem, AccountSem, BranchSem, Before, Kind
    <3>4. \A h, k \in {f, g} : Before(AccountSem(h), BranchSem(BranchOf(k)))
      BY DEF AccountSem, BranchSem, Before, Kind
    <3> QED BY <2>1, <2>3, <3>1, <3>2, <3>3, <3>4 DEF Ascending
  <2> QED BY <2>4, <2>5
<1> QED BY <1>0, <1>1, <1>2, <1>3, <1>4, <1>5 DEF Op

(***************************************************************************)
(* The semaphores a command needs, whatever the order it takes them in.    *)
(***************************************************************************)
LEMMA LockSets ==
  ASSUME NEW c \in Command
  PROVE  /\ c.op \in {"deposit", "withdraw"} =>
               LockSet(c) = {AccountSem(c.src), BranchSem(BranchOf(c.src))}
         /\ c.op = "branchBalance" => LockSet(c) = {BranchSem(BranchOf(c.src))}
         /\ c.op = "bankBalance" => LockSet(c) = {BankSem, BranchSem(0)}
         /\ c.op = "transfer" /\ IsSelfTransfer(c) => LockSet(c) = {}
         /\ c.op = "transfer" /\ ~IsSelfTransfer(c) /\ IsSameBranch(c.src, c.dst) =>
               LockSet(c) = {BankSem, AccountSem(c.src), AccountSem(c.dst)}
         /\ c.op = "transfer" /\ ~IsSelfTransfer(c) /\ ~IsSameBranch(c.src, c.dst) =>
               LockSet(c) = {BankSem, AccountSem(c.src), AccountSem(c.dst),
                             BranchSem(BranchOf(c.src)), BranchSem(BranchOf(c.dst))}
<1>1. /\ \A x, y : Elems(<<x, y>>) = {x, y}
      /\ \A x : Elems(<<x>>) = {x}
      /\ Elems(<< >>) = {}
      /\ \A x, y, z : Elems(<<x, y, z>>) = {x, y, z}
      /\ \A x, y, z, u, v : Elems(<<x, y, z, u, v>>) = {x, y, z, u, v}
  BY DEF Elems
<1> QED BY <1>1 DEF LockSet, LocksOf, TransferLocks

LEMMA PostsDistinct ==
  ASSUME NEW c \in Command, IsTeller(c), ~IsSelfTransfer(c)
  PROVE  /\ PostsOf(c) \in Seq(Semaphore)
         /\ Distinct(PostsOf(c))
         /\ Elems(PostsOf(c)) = LockSet(c)
<1>0. c.src \in Account /\ c.dst \in Account
  BY DEF Command
<1>1. /\ AccountSem(c.src) \in Semaphore /\ AccountSem(c.dst) \in Semaphore
      /\ BranchSem(BranchOf(c.src)) \in Semaphore
      /\ BranchSem(BranchOf(c.dst)) \in Semaphore /\ BankSem \in Semaphore
  BY <1>0, BranchFact, SemaphoreFact
<1>2. /\ \A x, y : Elems(<<x, y>>) = {x, y}
      /\ \A x, y, z : Elems(<<x, y, z>>) = {x, y, z}
      /\ \A x, y, z, u, v : Elems(<<x, y, z, u, v>>) = {x, y, z, u, v}
  BY DEF Elems
<1>3. \A a \in Account, b \in Branch :
        AccountSem(a) # BranchSem(b) /\ AccountSem(a) # BankSem /\ BranchSem(b) # BankSem
  BY DEF AccountSem, BranchSem, BankSem
<1>4. CASE c.op \in {"deposit", "withdraw"}
  <2> DEFINE x == AccountSem(c.src)
             y == BranchSem(BranchOf(c.src))
  <2>1. x # y /\ LockSet(c) = {x, y}
    BY <1>0, <1>3, <1>4, BranchFact, LockSets
  <2>2. PostsOf(c) = <<x, y>> \/ PostsOf(c) = <<y, x>>
    BY <1>4 DEF PostsOf
  <2>3. x \in Semaphore /\ y \in Semaphore
    BY <1>1
  <2> HIDE DEF x, y
  <2>4. Distinct(<<x, y>>) /\ Distinct(<<y, x>>)
    BY <2>1 DEF Distinct
  <2>5. Elems(<<x, y>>) = {x, y} /\ Elems(<<y, x>>) = {x, y}
    BY <1>2
  <2>6. <<x, y>> \in Seq(Semaphore) /\ <<y, x>> \in Seq(Semaphore)
    BY <2>3
  <2>7. CASE PostsOf(c) = <<x, y>>
    BY <2>1, <2>4, <2>5, <2>6, <2>7, Zenon
  <2>8. CASE PostsOf(c) = <<y, x>>
    BY <2>1, <2>4, <2>5, <2>6, <2>8, Zenon
  <2> QED BY <2>2, <2>7, <2>8
<1>5. CASE c.op = "transfer"
  <2>1. AccountSem(c.src) # AccountSem(c.dst)
    BY <1>0, <1>5, BranchFact DEF IsSelfTransfer, AccountSem
  <2>2. CASE IsSameBranch(c.src, c.dst)
    BY <1>0, <1>1, <1>2, <1>3, <1>5, <2>1, <2>2, BranchFact, LockSets DEF PostsOf, Distinct
  <2>3. CASE ~IsSameBranch(c.src, c.dst)
    <3>1. BranchSem(BranchOf(c.src)) # BranchSem(BranchOf(c.dst))
      BY <2>3 DEF IsSameBranch, BranchSem
    <3> QED
      BY <1>0, <1>1, <1>2, <1>3, <1>5, <2>1, <2>3, <3>1, BranchFact, LockSets
         DEF PostsOf, Distinct
  <2> QED BY <2>2, <2>3
<1> QED BY <1>4, <1>5 DEF IsTeller
-----------------------------------------------------------------------------
(***************************************************************************)
(* The inductive invariant.  A semaphore is 0 exactly while one worker     *)
(* holds it; and at each point of its program a worker holds what the      *)
(* sem_wait and sem_post calls already made leave it with.                 *)
(***************************************************************************)
SemaphoreInv ==
  /\ \A v, w \in Worker : v # w => held[v] \cap held[w] = {}
  /\ \A s \in Semaphore : sem[s] = 0 <=> \E w \in Worker : s \in held[w]

Needed(w) ==
  IF cmd[w].op = "bankBalance" THEN {BankSem, BranchSem(scan[w])} ELSE LockSet(cmd[w])

(***************************************************************************)
(* While Branch_Balance posts its branch, Bank_Balance keeps the bank.     *)
(***************************************************************************)
Kept(w) ==
  IF cmd[w].op = "bankBalance" /\ scan[w] < NumBranches THEN {BankSem} ELSE {}

WaitInv(w) ==
  /\ held[w] \cup Elems(sems[w]) = Needed(w)
  /\ Ascending(sems[w])
  /\ \A s \in held[w], t \in Elems(sems[w]) : Before(s, t)
  /\ adj[w] = 1
  /\ cmd[w].op = "bankBalance" => scan[w] < NumBranches

AdjustInv(w) ==
  /\ held[w] = Needed(w) /\ sems[w] = << >>
  /\ IsTeller(cmd[w]) /\ ~IsSelfTransfer(cmd[w])
  /\ adj[w] <= Len(Adjustments(cmd[w]))
  /\ pc[w] \in {"loadBranch", "storeBranch"} => Adjusting(w).updateBranch

PostInv(w) ==
  /\ Distinct(sems[w])
  /\ held[w] = Elems(sems[w]) \cup Kept(w)
  /\ Elems(sems[w]) \cap Kept(w) = {}
  /\ cmd[w].op = "bankBalance" => adj[w] = 1

LocalInv(w) ==
  /\ pc[w] \in {"idle", "return"} => held[w] = {} /\ sems[w] = << >>
  /\ pc[w] = "idle" => scan[w] = 0 /\ adj[w] = 1
  /\ pc[w] = "wait" => WaitInv(w)
  /\ pc[w] \in {"load", "store", "loadBranch", "storeBranch"} => AdjustInv(w)
  /\ pc[w] = "post" => PostInv(w)

IInv == TypeOK /\ SemaphoreInv /\ \A w \in Worker : LocalInv(w)

LEMMA AdjustmentsFact ==
  ASSUME NEW c \in Command, IsTeller(c), ~IsSelfTransfer(c)
  PROVE  /\ Len(Adjustments(c)) \in {1, 2}
         /\ \A i \in 1 .. Len(Adjustments(c)) :
              /\ Adjustments(c)[i].account \in Account
              /\ Adjustments(c)[i].amount \in Int
              /\ AccountSem(Adjustments(c)[i].account) \in LockSet(c)
              /\ Adjustments(c)[i].updateBranch =>
                   BranchSem(BranchOf(Adjustments(c)[i].account)) \in LockSet(c)
<1>0. c.src \in Account /\ c.dst \in Account /\ c.amount \in Nat
  BY DEF Command
<1>1. CASE c.op = "deposit"
  BY <1>0, <1>1, LockSets DEF Adjustments, Adjustment
<1>2. CASE c.op = "withdraw"
  BY <1>0, <1>2, LockSets DEF Adjustments, Adjustment
<1>3. CASE c.op = "transfer"
  <2> DEFINE upd == ~IsSameBranch(c.src, c.dst)
             adj1 == Adjustment(c.src, -c.amount, upd)
             adj2 == Adjustment(c.dst, c.amount, upd)
  <2>1. Adjustments(c) = << adj1, adj2 >>
    BY <1>3 DEF Adjustments
  <2>2. /\ adj1.account = c.src /\ adj1.amount = -c.amount /\ adj1.updateBranch = upd
        /\ adj2.account = c.dst /\ adj2.amount = c.amount /\ adj2.updateBranch = upd
    BY DEF Adjustment
  <2>3. /\ AccountSem(c.src) \in LockSet(c) /\ AccountSem(c.dst) \in LockSet(c)
        /\ upd => /\ BranchSem(BranchOf(c.src)) \in LockSet(c)
                  /\ BranchSem(BranchOf(c.dst)) \in LockSet(c)
    BY <1>3, LockSets
  <2> HIDE DEF adj1, adj2, upd
  <2>4. Len(<< adj1, adj2 >>) = 2 /\ << adj1, adj2 >>[1] = adj1 /\ << adj1, adj2 >>[2] = adj2
    OBVIOUS
  <2> QED BY <1>0, <2>1, <2>2, <2>3, <2>4
<1> QED BY <1>1, <1>2, <1>3 DEF IsTeller

(***************************************************************************)
(* A worker's step leaves the other workers' locals alone, so what they    *)
(* hold and wait for keeps their part of the invariant.                    *)
(***************************************************************************)
SameLocals(v) ==
  /\ pc'[v] = pc[v] /\ cmd'[v] = cmd[v] /\ sems'[v] = sems[v] /\ held'[v] = held[v]
  /\ adj'[v] = adj[v] /\ scan'[v] = scan[v]

LEMMA OthersLocals ==
  ASSUME TypeOK, NEW w \in Worker, Step(w), NEW v \in Worker, v # w
  PROVE  SameLocals(v)
<1> USE DEF TypeOK, SameLocals, shared
<1>1. ASSUME NEW c \in Workload, Begin(w, c) PROVE SameLocals(v)
  BY <1>1 DEF Begin
<1>2. CASE SemWait(w)
  BY <1>2 DEF SemWait
<1>3. CASE SameAccount(w)
  BY <1>3 DEF SameAccount
<1>4. CASE CheckFunds(w)
  BY <1>4 DEF CheckFunds
<1>5. CASE LoadAccount(w)
  BY <1>5 DEF LoadAccount
<1>6. CASE StoreAccount(w)
  BY <1>6 DEF StoreAccount, Adjusted
<1>7. CASE LoadBranch(w)
  BY <1>7 DEF LoadBranch
<1>8. CASE StoreBranch(w)
  BY <1>8 DEF StoreBranch, Adjusted
<1>9. CASE ReadBranchBalance(w)
  BY <1>9 DEF ReadBranchBalance
<1>10. CASE SemPost(w)
  BY <1>10 DEF SemPost
<1>11. CASE NextBranch(w)
  BY <1>11 DEF NextBranch
<1>12. CASE Finish(w)
  BY <1>12 DEF Finish
<1>13. CASE Return(w)
  BY <1>13 DEF Return
<1> QED
  BY <1>1, <1>2, <1>3, <1>4, <1>5, <1>6, <1>7, <1>8, <1>9, <1>10, <1>11, <1>12, <1>13
     DEF Step

LEMMA LocalFrame ==
  ASSUME NEW v \in Worker, LocalInv(v), SameLocals(v)
  PROVE  LocalInv(v)'
BY DEF LocalInv, WaitInv, AdjustInv, PostInv, Needed, Kept, Adjusting, SameLocals

(***************************************************************************)
(* Steps that leave the semaphores alone, and those that change one.       *)
(***************************************************************************)
LEMMA SemaphoreFrame ==
  ASSUME SemaphoreInv, UNCHANGED <<sem, held>> PROVE SemaphoreInv'
BY DEF SemaphoreInv

LEMMA WaitSemaphore ==
  ASSUME TypeOK, SemaphoreInv, NEW w \in Worker, NEW s \in Semaphore, sem[s] > 0,
         sem' = [sem EXCEPT ![s] = @ - 1],
         held' = [held EXCEPT ![w] = held[w] \cup {s}]
  PROVE  /\ SemaphoreInv' /\ sem' \in [Semaphore -> {0, 1}]
         /\ held' \in [Worker -> SUBSET Semaphore]
<1>1. sem[s] = 1 /\ sem'[s] = 0 /\ \A t \in Semaphore \ {s} : sem'[t] = sem[t]
  BY DEF TypeOK
<1>2. /\ held'[w] = held[w] \cup {s}
      /\ \A v \in Worker \ {w} : held'[v] = held[v] /\ s \notin held[v]
  <2>1. \A v \in Worker : s \notin held[v]
    BY <1>1 DEF SemaphoreInv
  <2> QED BY <2>1 DEF TypeOK
<1>3. sem' \in [Semaphore -> {0, 1}] /\ held' \in [Worker -> SUBSET Semaphore]
  BY <1>1 DEF TypeOK
<1>4. \A u, v \in Worker : u # v => held'[u] \cap held'[v] = {}
  BY <1>2 DEF SemaphoreInv
<1>5. ASSUME NEW t \in Semaphore
      PROVE  sem'[t] = 0 <=> \E v \in Worker : t \in held'[v]
  BY <1>1, <1>2 DEF SemaphoreInv
<1> QED BY <1>3, <1>4, <1>5 DEF SemaphoreInv

LEMMA PostSemaphore ==
  ASSUME TypeOK, SemaphoreInv, NEW w \in Worker, NEW s \in Semaphore, s \in held[w],
         sem' = [sem EXCEPT ![s] = @ + 1],
         held' = [held EXCEPT ![w] = held[w] \ {s}]
  PROVE  /\ SemaphoreInv' /\ sem' \in [Semaphore -> {0, 1}]
         /\ held' \in [Worker -> SUBSET Semaphore]
<1>1. sem[s] = 0 /\ sem'[s] = 1 /\ \A t \in Semaphore \ {s} : sem'[t] = sem[t]
  BY DEF TypeOK, SemaphoreInv
<1>2. /\ held'[w] = held[w] \ {s}
      /\ \A v \in Worker \ {w} : held'[v] = held[v] /\ s \notin held[v]
  BY DEF TypeOK, SemaphoreInv
<1>3. sem' \in [Semaphore -> {0, 1}] /\ held' \in [Worker -> SUBSET Semaphore]
  BY <1>1 DEF TypeOK
<1>4. \A u, v \in Worker : u # v => held'[u] \cap held'[v] = {}
  BY <1>2 DEF SemaphoreInv
<1>5. ASSUME NEW t \in Semaphore
      PROVE  sem'[t] = 0 <=> \E v \in Worker : t \in held'[v]
  BY <1>1, <1>2 DEF SemaphoreInv
<1> QED BY <1>3, <1>4, <1>5 DEF SemaphoreInv
-----------------------------------------------------------------------------
(***************************************************************************)
(* Each action preserves the invariant for the worker that takes it.       *)
(***************************************************************************)
Preserved(w) == TypeOK' /\ SemaphoreInv' /\ LocalInv(w)'

LEMMA NoCommandType == NoCommand \in Command
BY BranchFact DEF NoCommand, BankBalance, Command, Op, Account

LEMMA ElemsEmpty == Elems(<< >>) = {}
BY DEF Elems

LEMMA ElemsOne == \A x : Elems(<<x>>) = {x} /\ Distinct(<<x>>)
BY DEF Elems, Distinct

LEMMA BeginPreserves ==
  ASSUME IInv, NEW w \in Worker, NEW c \in Workload, Begin(w, c)
  PROVE  Preserved(w)
<1> USE DEF IInv, Begin, shared
<1>1. c \in Command
  BY WorkerAssumption
<1>2. LocksOf(c) \in Seq(Semaphore) /\ Ascending(LocksOf(c))
  BY <1>1, LocksAscending
<1>3. TypeOK'
  BY <1>1, <1>2, WorkerAssumption DEF TypeOK, PC
<1>4. SemaphoreInv'
  BY SemaphoreFrame
<1>5. /\ pc'[w] = "wait" /\ cmd'[w] = c /\ sems'[w] = LocksOf(c) /\ held'[w] = {}
      /\ scan'[w] = 0 /\ adj'[w] = 1
  BY DEF TypeOK, LocalInv
<1>6. Needed(w)' = LockSet(c)
  BY <1>1, <1>5, LockSets DEF Needed
<1>7. WaitInv(w)'
  BY <1>2, <1>5, <1>6, SizeAssumption DEF WaitInv, LockSet
<1>8. LocalInv(w)'
  BY <1>5, <1>7 DEF LocalInv
<1> QED BY <1>3, <1>4, <1>8 DEF Preserved

LEMMA SemWaitPreserves ==
  ASSUME IInv, NEW w \in Worker, SemWait(w)
  PROVE  Preserved(w)
<1> DEFINE s == Head(sems[w])
<1> USE DEF IInv
<1>1. /\ s \in Semaphore /\ Tail(sems[w]) \in Seq(Semaphore)
      /\ Elems(sems[w]) = {s} \cup Elems(Tail(sems[w]))
      /\ sems[w] # << >> /\ pc[w] = "wait"
  BY TailElems DEF SemWait, TypeOK
<1>2. /\ SemaphoreInv' /\ sem' \in [Semaphore -> {0, 1}]
      /\ held' \in [Worker -> SUBSET Semaphore]
  BY <1>1, WaitSemaphore DEF SemWait
<1>3. TypeOK'
  BY <1>1, <1>2 DEF TypeOK, SemWait
<1>4. /\ pc'[w] = "wait" /\ cmd'[w] = cmd[w] /\ sems'[w] = Tail(sems[w])
      /\ held'[w] = held[w] \cup {s} /\ scan'[w] = scan[w] /\ adj'[w] = adj[w]
  BY <1>1 DEF TypeOK, SemWait
<1>5. WaitInv(w)
  BY <1>1 DEF LocalInv
<1>6. Ascending(Tail(sems[w])) /\ \A t \in Elems(Tail(sems[w])) : Before(s, t)
  <2>1. sems[w] \in Seq(Semaphore) /\ Ascending(sems[w])
    BY <1>5 DEF WaitInv, TypeOK
  <2> QED BY <1>1, <2>1, TailAscending
<1>7. Needed(w)' = Needed(w)
  BY <1>4 DEF Needed
<1>8. WaitInv(w)'
  <2> HIDE DEF s
  <2>1. (held[w] \cup {s}) \cup Elems(Tail(sems[w])) = Needed(w)
    BY <1>1, <1>5 DEF WaitInv
  <2>2. \A r \in held[w] \cup {s}, t \in Elems(Tail(sems[w])) : Before(r, t)
    BY <1>1, <1>5, <1>6 DEF WaitInv
  <2> QED BY <1>4, <1>5, <1>6, <1>7, <2>1, <2>2 DEF WaitInv
<1>9. LocalInv(w)'
  BY <1>4, <1>8 DEF LocalInv
<1> QED BY <1>2, <1>3, <1>9 DEF Preserved

LEMMA SameAccountPreserves ==
  ASSUME IInv, NEW w \in Worker, SameAccount(w)
  PROVE  Preserved(w)
<1> USE DEF IInv, SameAccount, Locked, shared
<1>1. TypeOK' /\ SemaphoreInv'
  BY SemaphoreFrame DEF TypeOK, PC
<1>2. held[w] = LockSet(cmd[w]) /\ cmd[w] \in Command
  BY ElemsEmpty DEF LocalInv, WaitInv, Needed, IsSelfTransfer, TypeOK
<1>3. held[w] = {}
  BY <1>2, LockSets DEF IsSelfTransfer
<1>4. pc'[w] = "return" /\ held'[w] = {} /\ sems'[w] = << >>
  BY <1>3 DEF TypeOK
<1>5. LocalInv(w)'
  BY <1>4 DEF LocalInv
<1> QED BY <1>1, <1>5 DEF Preserved

LEMMA CheckFundsPreserves ==
  ASSUME IInv, NEW w \in Worker, CheckFunds(w)
  PROVE  Preserved(w)
<1> USE DEF IInv, CheckFunds, Locked, shared
<1>0. cmd[w] \in Command /\ IsTeller(cmd[w]) /\ ~IsSelfTransfer(cmd[w])
  BY DEF TypeOK
<1>1. /\ PostsOf(cmd[w]) \in Seq(Semaphore) /\ Distinct(PostsOf(cmd[w]))
      /\ Elems(PostsOf(cmd[w])) = LockSet(cmd[w])
  BY <1>0, PostsDistinct
<1>2. TypeOK' /\ SemaphoreInv'
  BY <1>1, SemaphoreFrame DEF TypeOK, PC
<1>3. /\ held[w] = LockSet(cmd[w]) /\ Needed(w) = LockSet(cmd[w]) /\ adj[w] = 1
      /\ sems[w] = << >> /\ cmd[w].op # "bankBalance"
  BY <1>0, ElemsEmpty DEF LocalInv, WaitInv, Needed, IsTeller
<1>4. /\ held'[w] = held[w] /\ cmd'[w] = cmd[w] /\ adj'[w] = 1 /\ scan'[w] = scan[w]
  BY <1>3 DEF TypeOK
<1>5. CASE Insufficient(cmd[w], balance[cmd[w].src])
  <2>1. pc'[w] = "post" /\ sems'[w] = PostsOf(cmd[w])
    BY <1>5 DEF TypeOK
  <2>2. Kept(w)' = {}
    BY <1>3, <1>4 DEF Kept
  <2>3. PostInv(w)'
    BY <1>1, <1>3, <1>4, <2>1, <2>2 DEF PostInv
  <2>4. LocalInv(w)'
    BY <2>1, <2>3 DEF LocalInv
  <2> QED BY <1>2, <2>4 DEF Preserved
<1>6. CASE ~Insufficient(cmd[w], balance[cmd[w].src])
  <2>1. pc'[w] = "load" /\ sems'[w] = << >>
    BY <1>3, <1>6 DEF TypeOK
  <2>2. Needed(w)' = Needed(w) /\ Len(Adjustments(cmd[w])) \in {1, 2}
    BY <1>0, <1>3, <1>4, AdjustmentsFact DEF Needed
  <2>5. IsTeller(cmd[w])' /\ ~IsSelfTransfer(cmd[w])'
    BY <1>0, <1>4
  <2>6. (adj[w] <= Len(Adjustments(cmd[w])))'
    BY <1>4, <2>2
  <2>3. AdjustInv(w)'
    BY <1>3, <1>4, <2>1, <2>2, <2>5, <2>6 DEF AdjustInv
  <2>4. LocalInv(w)'
    BY <2>1, <2>3 DEF LocalInv
  <2> QED BY <1>2, <2>4 DEF Preserved
<1> QED BY <1>5, <1>6

(***************************************************************************)
(* What Account_Adjust works on is well typed and protected.               *)
(***************************************************************************)
LEMMA AdjustingFact ==
  ASSUME TypeOK, NEW w \in Worker, AdjustInv(w)
  PROVE  /\ cmd[w] \in Command /\ cmd[w].op # "bankBalance"
         /\ held[w] = LockSet(cmd[w])
         /\ Len(Adjustments(cmd[w])) \in {1, 2} /\ adj[w] \in {1, 2}
         /\ Adjusting(w).account \in Account /\ Adjusting(w).amount \in Int
         /\ AccountSem(Adjusting(w).account) \in held[w]
         /\ Adjusting(w).updateBranch =>
              BranchSem(BranchOf(Adjusting(w).account)) \in held[w]
         /\ BranchOf(Adjusting(w).account) \in Branch
<1>1. /\ cmd[w] \in Command /\ IsTeller(cmd[w]) /\ ~IsSelfTransfer(cmd[w])
      /\ adj[w] \in {1, 2} /\ adj[w] <= Len(Adjustments(cmd[w]))
      /\ cmd[w].op # "bankBalance"
  BY DEF TypeOK, AdjustInv, IsTeller
<1>2. held[w] = LockSet(cmd[w])
  BY <1>1 DEF AdjustInv, Needed
<1>3. Len(Adjustments(cmd[w])) \in {1, 2} /\ adj[w] \in 1 .. Len(Adjustments(cmd[w]))
  BY <1>1, AdjustmentsFact
<1> QED BY <1>1, <1>2, <1>3, AdjustmentsFact, BranchFact DEF Adjusting

LEMMA AdjustedLocal ==
  ASSUME TypeOK, NEW w \in Worker, AdjustInv(w), Adjusted(w),
         cmd' = cmd, held' = held, scan' = scan
  PROVE  /\ LocalInv(w)'
         /\ sems' \in [Worker -> Seq(Semaphore)]
         /\ adj' \in [Worker -> {1, 2}] /\ pc' \in [Worker -> PC]
<1>1. /\ cmd[w] \in Command /\ IsTeller(cmd[w]) /\ ~IsSelfTransfer(cmd[w])
      /\ cmd[w].op # "bankBalance"
      /\ Len(Adjustments(cmd[w])) \in {1, 2} /\ adj[w] \in {1, 2}
      /\ held[w] = LockSet(cmd[w]) /\ sems[w] = << >>
  BY AdjustingFact DEF AdjustInv
<1>2. /\ PostsOf(cmd[w]) \in Seq(Semaphore) /\ Distinct(PostsOf(cmd[w]))
      /\ Elems(PostsOf(cmd[w])) = LockSet(cmd[w])
  BY <1>1, PostsDistinct
<1>3. CASE adj[w] < Len(Adjustments(cmd[w]))
  <2>1. /\ pc' = [pc EXCEPT ![w] = "load"] /\ sems' = sems
        /\ adj' = [adj EXCEPT ![w] = adj[w] + 1]
    BY <1>3 DEF Adjusted
  <2>6. adj[w] = 1
    <3> DEFINE n == Len(Adjustments(cmd[w]))
    <3>1. n \in {1, 2} /\ adj[w] \in {1, 2} /\ adj[w] < n
      BY <1>1, <1>3
    <3> HIDE DEF n
    <3> QED BY <3>1
  <2>2. /\ pc'[w] = "load" /\ sems'[w] = << >> /\ adj'[w] = 2
        /\ cmd'[w] = cmd[w] /\ held'[w] = held[w]
    BY <1>1, <2>1, <2>6 DEF TypeOK
  <2>4. Needed(w)' = LockSet(cmd[w]) /\ 2 <= Len(Adjustments(cmd[w]))
    BY <1>1, <1>3, <2>2 DEF Needed
  <2>5. AdjustInv(w)'
    BY <1>1, <2>2, <2>4 DEF AdjustInv
  <2>3. LocalInv(w)'
    BY <2>2, <2>5 DEF LocalInv
  <2> QED BY <2>1, <2>3, <2>6 DEF TypeOK, PC
<1>4. CASE ~(adj[w] < Len(Adjustments(cmd[w])))
  <2>1. /\ pc' = [pc EXCEPT ![w] = "post"] /\ adj' = adj
        /\ sems' = [sems EXCEPT ![w] = PostsOf(cmd[w])]
    BY <1>4 DEF Adjusted
  <2>2. pc'[w] = "post" /\ sems'[w] = PostsOf(cmd[w])
    BY <2>1 DEF TypeOK
  <2>3. Kept(w)' = {}
    BY <1>1 DEF Kept
  <2>4. PostInv(w)'
    BY <1>1, <1>2, <2>2, <2>3 DEF PostInv
  <2>5. LocalInv(w)'
    BY <2>2, <2>4 DEF LocalInv
  <2> QED BY <1>2, <2>1, <2>5 DEF TypeOK, PC
<1> QED BY <1>3, <1>4

LEMMA LoadAccountPreserves ==
  ASSUME IInv, NEW w \in Worker, LoadAccount(w)
  PROVE  Preserved(w)
<1> USE DEF IInv, LoadAccount, shared
<1>1. AdjustInv(w)
  BY DEF LocalInv
<1>2. TypeOK' /\ SemaphoreInv'
  BY <1>1, AdjustingFact, SemaphoreFrame DEF TypeOK, PC
<1>3. /\ pc'[w] = "store" /\ cmd' = cmd /\ held' = held /\ sems' = sems /\ adj' = adj
      /\ scan' = scan
  BY DEF TypeOK
<1>4. AdjustInv(w)'
  BY <1>1, <1>3 DEF AdjustInv, Needed
<1>5. LocalInv(w)'
  BY <1>3, <1>4 DEF LocalInv
<1> QED BY <1>2, <1>5 DEF Preserved

LEMMA StoreAccountPreserves ==
  ASSUME IInv, NEW w \in Worker, StoreAccount(w)
  PROVE  Preserved(w)
<1> USE DEF IInv, StoreAccount
<1>1. AdjustInv(w)
  BY DEF LocalInv
<1>2. SemaphoreInv'
  BY SemaphoreFrame
<1>3. balance' \in [Account -> Int]
  BY <1>1, AdjustingFact DEF TypeOK
<1>4. CASE Adjusting(w).updateBranch
  <2>1. /\ pc' = [pc EXCEPT ![w] = "loadBranch"] /\ adj' = adj /\ sems' = sems
        /\ cmd' = cmd /\ held' = held /\ scan' = scan
    BY <1>4
  <2>2. TypeOK'
    BY <1>3, <2>1 DEF TypeOK, PC
  <2>3. pc'[w] = "loadBranch"
    BY <2>1 DEF TypeOK
  <2>4. AdjustInv(w)'
    BY <1>1, <1>4, <2>1, <2>3 DEF AdjustInv, Needed, Adjusting
  <2>5. LocalInv(w)'
    BY <2>3, <2>4 DEF LocalInv
  <2> QED BY <1>2, <2>2, <2>5 DEF Preserved
<1>5. CASE ~Adjusting(w).updateBranch
  <2>1. Adjusted(w) /\ cmd' = cmd /\ held' = held /\ scan' = scan
    BY <1>5
  <2>2. /\ LocalInv(w)' /\ sems' \in [Worker -> Seq(Semaphore)]
        /\ adj' \in [Worker -> {1, 2}] /\ pc' \in [Worker -> PC]
    BY <1>1, <2>1, AdjustedLocal
  <2>3. TypeOK'
    BY <1>3, <2>2 DEF TypeOK
  <2> QED BY <1>2, <2>2, <2>3 DEF Preserved
<1> QED BY <1>4, <1>5

LEMMA LoadBranchPreserves ==
  ASSUME IInv, NEW w \in Worker, LoadBranch(w)
  PROVE  Preserved(w)
<1> USE DEF IInv, LoadBranch, shared
<1>1. AdjustInv(w)
  BY DEF LocalInv
<1>2. TypeOK' /\ SemaphoreInv'
  BY <1>1, AdjustingFact, SemaphoreFrame DEF TypeOK, PC
<1>3. /\ pc'[w] = "storeBranch" /\ cmd' = cmd /\ held' = held /\ sems' = sems
      /\ adj' = adj /\ scan' = scan
  BY DEF TypeOK
<1>4. AdjustInv(w)'
  BY <1>1, <1>3 DEF AdjustInv, Needed, Adjusting
<1>5. LocalInv(w)'
  BY <1>3, <1>4 DEF LocalInv
<1> QED BY <1>2, <1>5 DEF Preserved

LEMMA StoreBranchPreserves ==
  ASSUME IInv, NEW w \in Worker, StoreBranch(w)
  PROVE  Preserved(w)
<1> USE DEF IInv, StoreBranch
<1>1. AdjustInv(w)
  BY DEF LocalInv
<1>2. SemaphoreInv'
  BY SemaphoreFrame
<1>3. branchBalance' \in [Branch -> Int]
  BY <1>1, AdjustingFact DEF TypeOK
<1>4. /\ LocalInv(w)' /\ sems' \in [Worker -> Seq(Semaphore)]
      /\ adj' \in [Worker -> {1, 2}] /\ pc' \in [Worker -> PC]
  BY <1>1, AdjustedLocal
<1>5. TypeOK'
  BY <1>3, <1>4 DEF TypeOK
<1> QED BY <1>2, <1>4, <1>5 DEF Preserved

LEMMA ReadBranchFact ==
  ASSUME IInv, NEW w \in Worker, Locked(w), ~IsTeller(cmd[w])
  PROVE  /\ ReadBranch(w) \in Branch
         /\ BranchSem(ReadBranch(w)) \in held[w]
         /\ cmd[w].op = "bankBalance" =>
              /\ held[w] = {BankSem, BranchSem(ReadBranch(w))}
              /\ scan[w] < NumBranches /\ ReadBranch(w) = scan[w]
         /\ cmd[w].op # "bankBalance" => held[w] = {BranchSem(ReadBranch(w))}
<1> USE DEF IInv
<1>1. held[w] = Needed(w) /\ WaitInv(w) /\ cmd[w] \in Command
  BY ElemsEmpty DEF Locked, LocalInv, WaitInv, TypeOK
<1>2. CASE cmd[w].op = "bankBalance"
  <2>1. scan[w] \in Branch
    BY <1>1, <1>2, SizeAssumption DEF WaitInv, TypeOK, Branch
  <2> QED BY <1>1, <1>2, <2>1 DEF Needed, ReadBranch, WaitInv
<1>3. CASE cmd[w].op # "bankBalance"
  <2>1. cmd[w].op = "branchBalance" /\ cmd[w].src \in Account
    BY <1>1, <1>3 DEF Command, Op, IsTeller
  <2> QED BY <1>1, <1>3, <2>1, LockSets, BranchFact DEF Needed, ReadBranch
<1> QED BY <1>2, <1>3

LEMMA ReadBranchBalancePreserves ==
  ASSUME IInv, NEW w \in Worker, ReadBranchBalance(w)
  PROVE  Preserved(w)
<1> USE DEF ReadBranchBalance, shared
<1> DEFINE b == BranchSem(ReadBranch(w))
<1>0. TypeOK /\ SemaphoreInv
  BY DEF IInv
<1>1. /\ ReadBranch(w) \in Branch /\ b \in Semaphore
      /\ cmd[w].op = "bankBalance" => held[w] = {BankSem, b} /\ scan[w] < NumBranches
      /\ cmd[w].op # "bankBalance" => held[w] = {b}
  BY ReadBranchFact, SemaphoreFact
<1>2. TypeOK' /\ SemaphoreInv'
  BY <1>0, <1>1, SemaphoreFrame DEF TypeOK, PC
<1>3. /\ pc'[w] = "post" /\ sems'[w] = << b >> /\ held' = held /\ cmd' = cmd /\ scan' = scan
  BY <1>0 DEF TypeOK
<1>4. b # BankSem
  BY DEF BankSem, BranchSem
<1> HIDE DEF b
<1>5. /\ Distinct(sems'[w]) /\ Elems(sems'[w]) = {b}
  BY <1>3, ElemsOne
<1>6. Kept(w)' = IF cmd[w].op = "bankBalance" /\ scan[w] < NumBranches THEN {BankSem} ELSE {}
  BY <1>3 DEF Kept
<1>9. adj'[w] = 1
  BY DEF IInv, LocalInv, WaitInv, Locked
<1>7. PostInv(w)'
  BY <1>1, <1>3, <1>4, <1>5, <1>6, <1>9 DEF PostInv
<1>8. LocalInv(w)'
  BY <1>3, <1>7 DEF LocalInv
<1> QED BY <1>2, <1>8 DEF Preserved

LEMMA SemPostPreserves ==
  ASSUME IInv, NEW w \in Worker, SemPost(w)
  PROVE  Preserved(w)
<1> DEFINE s == Head(sems[w])
<1>0. TypeOK /\ SemaphoreInv /\ LocalInv(w)
  BY DEF IInv
<1>1. /\ s \in Semaphore /\ Tail(sems[w]) \in Seq(Semaphore)
      /\ Elems(sems[w]) = {s} \cup Elems(Tail(sems[w]))
      /\ sems[w] # << >> /\ pc[w] = "post" /\ sems[w] \in Seq(Semaphore)
  BY <1>0, TailElems DEF SemPost, TypeOK
<1>2. PostInv(w) /\ s \in held[w]
  BY <1>0, <1>1 DEF LocalInv, PostInv
<1>3. /\ SemaphoreInv' /\ sem' \in [Semaphore -> {0, 1}]
      /\ held' \in [Worker -> SUBSET Semaphore]
  BY <1>0, <1>1, <1>2, PostSemaphore DEF SemPost
<1>4. TypeOK'
  BY <1>0, <1>1, <1>3 DEF TypeOK, SemPost
<1>5. /\ pc'[w] = "post" /\ cmd'[w] = cmd[w] /\ sems'[w] = Tail(sems[w])
      /\ held'[w] = held[w] \ {s} /\ scan'[w] = scan[w] /\ adj'[w] = adj[w]
  BY <1>0, <1>1 DEF TypeOK, SemPost
<1>6. Distinct(Tail(sems[w])) /\ s \notin Elems(Tail(sems[w]))
  BY <1>1, <1>2, TailDistinct DEF PostInv
<1>7. Kept(w)' = Kept(w)
  BY <1>5 DEF Kept
<1> HIDE DEF s
<1>8. PostInv(w)'
  BY <1>1, <1>2, <1>5, <1>6, <1>7 DEF PostInv
<1>9. LocalInv(w)'
  BY <1>5, <1>8 DEF LocalInv
<1> QED BY <1>3, <1>4, <1>9 DEF Preserved

LEMMA NextBranchPreserves ==
  ASSUME IInv, NEW w \in Worker, NextBranch(w)
  PROVE  Preserved(w)
<1> USE DEF NextBranch, Posted, shared
<1>0. TypeOK /\ SemaphoreInv /\ LocalInv(w)
  BY DEF IInv
<1>1. /\ held[w] = {BankSem} /\ scan[w] \in Branch /\ scan[w] + 1 \in 0 .. NumBranches
      /\ NumBranches \in Nat
  BY <1>0, ElemsEmpty, SizeAssumption, SMTT(30) DEF LocalInv, PostInv, Kept, TypeOK, Branch
<1>2. SemaphoreInv'
  BY <1>0, SemaphoreFrame
<1>3. /\ cmd' = cmd /\ held' = held /\ scan'[w] = scan[w] + 1 /\ cmd[w].op = "bankBalance"
      /\ adj' = adj
  BY <1>0 DEF TypeOK
<1>6. /\ total' \in [Worker -> Int] /\ scan' \in [Worker -> 0 .. NumBranches]
      /\ <<sem, balance, branchBalance, cmdCount, cmd, held, adj, reg, err>>'
           = <<sem, balance, branchBalance, cmdCount, cmd, held, adj, reg, err>>
  BY <1>0, <1>1 DEF TypeOK
<1>7. adj[w] = 1
  BY <1>0 DEF LocalInv, PostInv
<1>4. CASE scan[w] + 1 < NumBranches
  <2> DEFINE b == BranchSem(scan[w] + 1)
  <2>1. scan[w] + 1 \in Branch /\ b \in Semaphore
    BY <1>1, <1>4, SemaphoreFact DEF Branch
  <2>2. pc'[w] = "wait" /\ sems'[w] = << b >>
    BY <1>0, <1>4 DEF TypeOK
  <2>3. TypeOK'
    <3>1. << b >> \in Seq(Semaphore)
      BY <2>1
    <3> HIDE DEF b
    <3>2. sems' \in [Worker -> Seq(Semaphore)] /\ pc' \in [Worker -> PC]
      BY <1>0, <1>4, <3>1 DEF TypeOK, PC, b
    <3> QED BY <1>0, <1>6, <3>2 DEF TypeOK
  <2>4. Before(BankSem, b)
    BY DEF Before, BankSem, BranchSem, Kind
  <2>5. Needed(w)' = {BankSem, b}
    BY <1>3 DEF Needed
  <2> HIDE DEF b
  <2>6. Elems(sems'[w]) = {b} /\ Ascending(sems'[w])
    BY <2>2, ElemsOne DEF Ascending
  <2>8. WaitInv(w)'
    BY <1>1, <1>3, <1>4, <1>7, <2>2, <2>4, <2>5, <2>6 DEF WaitInv
  <2>9. LocalInv(w)'
    BY <2>2, <2>8 DEF LocalInv
  <2> QED BY <1>2, <2>3, <2>9 DEF Preserved
<1>5. CASE ~(scan[w] + 1 < NumBranches)
  <2>1. pc'[w] = "post" /\ sems'[w] = << BankSem >> /\ scan'[w] = NumBranches
    BY <1>0, <1>1, <1>3, <1>5 DEF TypeOK, Branch
  <2>2. TypeOK'
    <3>1. << BankSem >> \in Seq(Semaphore)
      BY SemaphoreFact
    <3>2. sems' \in [Worker -> Seq(Semaphore)] /\ pc' \in [Worker -> PC]
      BY <1>0, <1>5, <3>1 DEF TypeOK
    <3> QED BY <1>0, <1>6, <3>2 DEF TypeOK
  <2>3. Kept(w)' = {}
    BY <1>1, <2>1 DEF Kept
  <2>4. PostInv(w)'
    BY <1>1, <1>3, <1>7, <2>1, <2>3, ElemsOne DEF PostInv
  <2>5. LocalInv(w)'
    BY <2>1, <2>4 DEF LocalInv
  <2> QED BY <1>2, <2>2, <2>5 DEF Preserved
<1> QED BY <1>4, <1>5

LEMMA FinishPreserves ==
  ASSUME IInv, NEW w \in Worker, Finish(w)
  PROVE  Preserved(w)
<1> USE DEF Finish, Posted, shared
<1>0. TypeOK /\ SemaphoreInv /\ LocalInv(w)
  BY DEF IInv
<1>1. TypeOK' /\ SemaphoreInv'
  BY <1>0, SemaphoreFrame DEF TypeOK, PC
<1>2. held[w] = {}
  BY <1>0, ElemsEmpty, SizeAssumption DEF LocalInv, PostInv, Kept
<1>3. pc'[w] = "return" /\ held'[w] = {} /\ sems'[w] = << >>
  BY <1>0, <1>2 DEF TypeOK
<1>4. LocalInv(w)'
  BY <1>3 DEF LocalInv
<1> QED BY <1>1, <1>4 DEF Preserved

LEMMA ReturnPreserves ==
  ASSUME IInv, NEW w \in Worker, Return(w)
  PROVE  Preserved(w)
<1> USE DEF Return, shared
<1>0. TypeOK /\ SemaphoreInv /\ LocalInv(w)
  BY DEF IInv
<1>1. TypeOK' /\ SemaphoreInv'
  BY <1>0, SemaphoreFrame, NoCommandType, SizeAssumption, WorkerAssumption DEF TypeOK, PC
<1>2. /\ pc'[w] = "idle" /\ held'[w] = {} /\ sems'[w] = << >> /\ scan'[w] = 0 /\ adj'[w] = 1
  BY <1>0 DEF TypeOK, LocalInv
<1>3. LocalInv(w)'
  BY <1>2 DEF LocalInv
<1> QED BY <1>1, <1>3 DEF Preserved

LEMMA InitInvariant == Init => IInv
<1> SUFFICES ASSUME Init PROVE IInv
  OBVIOUS
<1> USE DEF Init
<1>1. TypeOK
  <2>1. branchBalance \in [Branch -> Int] /\ balance \in [Account -> Int]
    BY InitialAssumption, BranchSumType
  <2>2. /\ cmdCount \in [Worker -> 0 .. MaxCommands] /\ cmd \in [Worker -> Command]
        /\ scan \in [Worker -> 0 .. NumBranches]
    BY NoCommandType, SizeAssumption, WorkerAssumption
  <2>3. << >> \in Seq(Semaphore)
    OBVIOUS
  <2> QED BY <2>1, <2>2, <2>3 DEF TypeOK, PC
<1>2. SemaphoreInv
  BY DEF SemaphoreInv
<1>3. \A w \in Worker : LocalInv(w)
  BY DEF LocalInv
<1> QED BY <1>1, <1>2, <1>3 DEF IInv

LEMMA NextInvariant == IInv /\ [Next]_vars => IInv'
<1> SUFFICES ASSUME IInv, [Next]_vars PROVE IInv'
  OBVIOUS
<1>1. CASE UNCHANGED vars
  <2> USE <1>1 DEF vars, shared, local
  <2>1. TypeOK' /\ SemaphoreInv'
    BY SemaphoreFrame DEF IInv, TypeOK
  <2>2. ASSUME NEW v \in Worker PROVE LocalInv(v)'
    BY LocalFrame DEF SameLocals, IInv
  <2> QED BY <2>1, <2>2 DEF IInv
<1>2. ASSUME NEW w \in Worker, Step(w) PROVE IInv'
  <2>1. Preserved(w)
    BY <1>2, BeginPreserves, SemWaitPreserves, SameAccountPreserves, CheckFundsPreserves,
       LoadAccountPreserves, StoreAccountPreserves, LoadBranchPreserves,
       StoreBranchPreserves, ReadBranchBalancePreserves, SemPostPreserves,
       NextBranchPreserves, FinishPreserves, ReturnPreserves DEF Step
  <2>2. ASSUME NEW v \in Worker, v # w PROVE LocalInv(v)'
    BY <1>2, <2>2, OthersLocals, LocalFrame DEF IInv
  <2> QED BY <2>1, <2>2 DEF Preserved, IInv
<1>3. CASE Terminating
  BY <1>1, <1>3 DEF Terminating
<1> QED BY <1>1, <1>2, <1>3 DEF Next

(***************************************************************************)
(* The semaphores and the workers' places in the code agree in every       *)
(* state.                                                                  *)
(***************************************************************************)
THEOREM Invariance == Spec => []IInv
BY InitInvariant, NextInvariant, PTL DEF Spec

(***************************************************************************)
(* Every reachable state is well typed; in particular no semaphore is ever *)
(* posted twice, so none exceeds 1.                                        *)
(***************************************************************************)
THEOREM TypeCorrect == Spec => []TypeOK
<1>1. IInv => TypeOK
  BY DEF IInv
<1> QED BY <1>1, Invariance, PTL

(***************************************************************************)
(* A worker holds the semaphore of what it touches.                        *)
(***************************************************************************)
LEMMA TouchesHeld ==
  ASSUME IInv, NEW w \in Worker
  PROVE  Touches(w) \subseteq held[w]
<1>0. TypeOK /\ LocalInv(w)
  BY DEF IInv
<1>1. CASE Locked(w) /\ cmd[w].op \in {"withdraw", "transfer"} /\ ~IsSelfTransfer(cmd[w])
  <2>1. held[w] = LockSet(cmd[w]) /\ cmd[w] \in Command
    BY <1>0, <1>1, ElemsEmpty DEF Locked, LocalInv, WaitInv, Needed, TypeOK
  <2>2. AccountSem(cmd[w].src) \in held[w]
    BY <1>1, <2>1, LockSets
  <2>3. Touches(w) = {AccountSem(cmd[w].src)}
    BY <1>1 DEF Touches, IsTeller, Locked
  <2> QED BY <2>2, <2>3
<1>2. CASE Locked(w) /\ ~IsTeller(cmd[w])
  <2>1. Touches(w) = {BranchSem(ReadBranch(w))}
    BY <1>2 DEF Touches, IsTeller, Locked
  <2> QED BY <1>2, <2>1, ReadBranchFact
<1>3. CASE pc[w] \in {"load", "store"}
  <2>1. AdjustInv(w)
    BY <1>0, <1>3 DEF LocalInv
  <2>2. Touches(w) = {AccountSem(Adjusting(w).account)}
    BY <1>3 DEF Touches, Locked
  <2> QED BY <1>0, <2>1, <2>2, AdjustingFact
<1>4. CASE pc[w] \in {"loadBranch", "storeBranch"}
  <2>1. AdjustInv(w) /\ Adjusting(w).updateBranch
    BY <1>0, <1>4 DEF LocalInv, AdjustInv
  <2>2. Touches(w) = {BranchSem(BranchOf(Adjusting(w).account))}
    BY <1>4 DEF Touches, Locked
  <2> QED BY <1>0, <2>1, <2>2, AdjustingFact
<1> QED BY <1>1, <1>2, <1>3, <1>4 DEF Touches

(***************************************************************************)
(* No two workers are ever at accesses of the same balance.                *)
(***************************************************************************)
THEOREM DataRaceFreedom == Spec => []NoDataRace
<1>1. IInv => NoDataRace
  <2> SUFFICES ASSUME IInv, NEW v \in Worker, NEW w \in Worker, v # w
               PROVE  Touches(v) \cap Touches(w) = {}
    BY DEF NoDataRace
  <2>1. held[v] \cap held[w] = {}
    BY DEF IInv, SemaphoreInv
  <2> QED BY <2>1, TouchesHeld
<1> QED BY <1>1, Invariance, PTL

(***************************************************************************)
(* Semaphores are always taken in the order Before.                        *)
(***************************************************************************)
THEOREM LocksOrdered == Spec => []LockOrder
<1>1. IInv => LockOrder
  <2> SUFFICES ASSUME IInv, NEW w \in Worker, pc[w] = "wait", sems[w] # << >>,
                      NEW s \in held[w]
               PROVE  Before(s, Head(sems[w]))
    BY DEF LockOrder
  <2>1. WaitInv(w) /\ sems[w] \in Seq(Semaphore)
    BY DEF IInv, LocalInv, TypeOK
  <2>2. Head(sems[w]) \in Elems(sems[w])
    BY <2>1, TailElems
  <2> QED BY <2>1, <2>2 DEF WaitInv
<1> QED BY <1>1, Invariance, PTL

-----------------------------------------------------------------------------
(***************************************************************************)
(* Among finitely many places in the order Before, a set of semaphores has *)
(* a last one: the greatest kind, then branch, then account.               *)
(***************************************************************************)
LEMMA LastSemaphore ==
  ASSUME NEW T \in SUBSET Semaphore, T # {}
  PROVE  \E s \in T : \A t \in T : ~Before(s, t)
<1>1. \A s \in T : /\ Kind(s) \in Nat /\ Kind(s) <= 2
                   /\ s[2] \in Nat /\ s[2] <= NumBranches
                   /\ s[3] \in Nat /\ s[3] <= AccountsPerBranch
  BY SizeAssumption DEF Semaphore, Kind, BankSem, AccountSem, BranchSem, Account, Branch,
                        SubAccount
<1>2. NumBranches \in Nat /\ AccountsPerBranch \in Nat
  BY SizeAssumption
<1>3. PICK a \in T : \A t \in T : Kind(t) <= Kind(a)
  <2> DEFINE K == {Kind(t) : t \in T}
  <2>1. K \in SUBSET Nat /\ K # {} /\ \A k \in K : k <= 2
    BY <1>1
  <2> HIDE DEF K
  <2>2. PICK k \in K : \A j \in K : j <= k
    BY <2>1, GreatestNat
  <2> QED BY <2>2 DEF K
<1>4. PICK b \in T : /\ Kind(b) = Kind(a)
                    /\ \A t \in T : Kind(t) = Kind(a) => t[2] <= b[2]
  <2> DEFINE K == {t[2] : t \in {x \in T : Kind(x) = Kind(a)}}
  <2>1. K \in SUBSET Nat /\ K # {} /\ \A k \in K : k <= NumBranches
    BY <1>1
  <2> HIDE DEF K
  <2>2. PICK k \in K : \A j \in K : j <= k
    BY <1>2, <2>1, GreatestNat
  <2> QED BY <2>2 DEF K
<1>5. PICK c \in T : /\ Kind(c) = Kind(a) /\ c[2] = b[2]
                    /\ \A t \in T : Kind(t) = Kind(a) /\ t[2] = b[2] => t[3] <= c[3]
  <2> DEFINE K == {t[3] : t \in {x \in T : Kind(x) = Kind(a) /\ x[2] = b[2]}}
  <2>1. K \in SUBSET Nat /\ K # {} /\ \A k \in K : k <= AccountsPerBranch
    BY <1>1, <1>4
  <2> HIDE DEF K
  <2>2. PICK k \in K : \A j \in K : j <= k
    BY <1>2, <2>1, GreatestNat
  <2> QED BY <2>2 DEF K
<1>6. ASSUME NEW t \in T PROVE ~Before(c, t)
  BY <1>1, <1>3, <1>4, <1>5 DEF Before
<1> QED BY <1>6

(***************************************************************************)
(* Workers never all wait for one another.  Of the semaphores waited for   *)
(* take the last: whoever holds it is not done, and if it waited it would  *)
(* wait for a later one still.                                             *)
(***************************************************************************)
THEOREM DeadlockFreedom == Spec => []NoDeadlock
<1>1. IInv => NoDeadlock
  <2> SUFFICES ASSUME IInv, NEW u \in Worker, ~Done(u),
                      \A w \in Worker : ~Done(w) => Blocked(w)
               PROVE  FALSE
    BY DEF NoDeadlock
  <2> DEFINE T == {Head(sems[w]) : w \in {x \in Worker : Blocked(x)}}
  <2>1. ASSUME NEW w \in Worker, Blocked(w)
        PROVE  /\ Head(sems[w]) \in Semaphore /\ Head(sems[w]) \in Elems(sems[w])
               /\ WaitInv(w) /\ sem[Head(sems[w])] = 0
    <3>1. sems[w] \in Seq(Semaphore) /\ sems[w] # << >>
      BY <2>1 DEF IInv, TypeOK, Blocked
    <3>2. WaitInv(w) /\ sem[Head(sems[w])] = 0
      BY <2>1 DEF IInv, LocalInv, Blocked
    <3> QED BY <3>1, <3>2, TailElems
  <2>2. T \in SUBSET Semaphore /\ T # {}
    BY <2>1
  <2> HIDE DEF T
  <2>3. PICK s \in T : \A t \in T : ~Before(s, t)
    BY <2>2, LastSemaphore
  <2>4. PICK w \in Worker : Blocked(w) /\ s = Head(sems[w])
    BY DEF T
  <2>5. PICK v \in Worker : s \in held[v]
    BY <2>1, <2>4 DEF IInv, SemaphoreInv
  <2>6. Blocked(v)
    BY <2>5 DEF IInv, LocalInv, Done
  <2>7. Before(s, Head(sems[v])) /\ Head(sems[v]) \in T
    BY <2>1, <2>5, <2>6 DEF WaitInv, T
  <2> QED BY <2>3, <2>7
<1> QED BY <1>1, Invariance, PTL
-----------------------------------------------------------------------------
(***************************************************************************)
(* The balances: no account is overdrawn, and a branch's balance follows   *)
(* its accounts whatever adjustments are in progress.                      *)
(***************************************************************************)

(***************************************************************************)
(* What a worker between a load and a store relies on: its register still  *)
(* holds the balance it loaded, and an adjustment that takes money from an *)
(* account finds it there.                                                 *)
(***************************************************************************)
Active(w) == pc[w] \in {"load", "store", "loadBranch", "storeBranch"}

RegInv(w) ==
  /\ pc[w] = "store" => reg[w] = balance[Adjusting(w).account]
  /\ pc[w] = "storeBranch" => reg[w] = branchBalance[BranchOf(Adjusting(w).account)]

FundsInv(w) ==
  pc[w] \in {"load", "store"} /\ Adjusting(w).amount < 0 =>
    balance[Adjusting(w).account] + Adjusting(w).amount >= 0

AccessInv == \A w \in Worker : RegInv(w) /\ FundsInv(w)

(***************************************************************************)
(* The stores, and why no other worker notices them: whoever relies on a   *)
(* balance holds its semaphore.                                            *)
(***************************************************************************)
LEMMA Stores ==
  ASSUME TypeOK, NEW w \in Worker, Step(w)
  PROVE  /\ balance' # balance => StoreAccount(w)
         /\ branchBalance' # branchBalance => StoreBranch(w)
<1> USE DEF shared
<1>1. ASSUME NEW c \in Workload, Begin(w, c) PROVE UNCHANGED <<balance, branchBalance>>
  BY <1>1 DEF Begin
<1>2. SemWait(w) => UNCHANGED <<balance, branchBalance>>
  BY DEF SemWait
<1>3. SameAccount(w) => UNCHANGED <<balance, branchBalance>>
  BY DEF SameAccount
<1>4. CheckFunds(w) => UNCHANGED <<balance, branchBalance>>
  BY DEF CheckFunds
<1>5. LoadAccount(w) => UNCHANGED <<balance, branchBalance>>
  BY DEF LoadAccount
<1>6. StoreAccount(w) => UNCHANGED branchBalance
  BY DEF StoreAccount
<1>7. LoadBranch(w) => UNCHANGED <<balance, branchBalance>>
  BY DEF LoadBranch
<1>8. StoreBranch(w) => UNCHANGED balance
  BY DEF StoreBranch
<1>9. ReadBranchBalance(w) => UNCHANGED <<balance, branchBalance>>
  BY DEF ReadBranchBalance
<1>10. SemPost(w) => UNCHANGED <<balance, branchBalance>>
  BY DEF SemPost
<1>11. NextBranch(w) => UNCHANGED <<balance, branchBalance>>
  BY DEF NextBranch
<1>12. Finish(w) => UNCHANGED <<balance, branchBalance>>
  BY DEF Finish
<1>13. Return(w) => UNCHANGED <<balance, branchBalance>>
  BY DEF Return
<1> QED
  BY <1>1, <1>2, <1>3, <1>4, <1>5, <1>6, <1>7, <1>8, <1>9, <1>10, <1>11, <1>12, <1>13
     DEF Step

LEMMA StoreFact ==
  ASSUME IInv, NEW w \in Worker
  PROVE  /\ StoreAccount(w) =>
              /\ Adjusting(w).account \in Account
              /\ AccountSem(Adjusting(w).account) \in held[w]
              /\ \A a \in Account : balance'[a] =
                   IF a = Adjusting(w).account THEN reg[w] + Adjusting(w).amount ELSE balance[a]
         /\ StoreBranch(w) =>
              /\ BranchOf(Adjusting(w).account) \in Branch
              /\ BranchSem(BranchOf(Adjusting(w).account)) \in held[w]
              /\ \A b \in Branch : branchBalance'[b] =
                   IF b = BranchOf(Adjusting(w).account)
                   THEN reg[w] + Adjusting(w).amount ELSE branchBalance[b]
<1>0. TypeOK /\ LocalInv(w)
  BY DEF IInv
<1>1. CASE StoreAccount(w)
  <2>1. AdjustInv(w) /\ pc[w] = "store"
    BY <1>0, <1>1 DEF LocalInv, StoreAccount
  <2>2. ~StoreBranch(w)
    BY <2>1 DEF StoreBranch
  <2> QED BY <1>0, <1>1, <2>1, <2>2, AdjustingFact DEF StoreAccount, TypeOK
<1>2. CASE StoreBranch(w)
  <2>1. AdjustInv(w) /\ pc[w] = "storeBranch" /\ Adjusting(w).updateBranch
    BY <1>0, <1>2 DEF LocalInv, AdjustInv, StoreBranch
  <2>2. ~StoreAccount(w)
    BY <2>1 DEF StoreAccount
  <2> QED BY <1>0, <1>2, <2>1, <2>2, AdjustingFact DEF StoreBranch, TypeOK
<1> QED BY <1>1, <1>2

LEMMA Protected ==
  ASSUME IInv, NEW w \in Worker, Step(w), NEW v \in Worker, v # w
  PROVE  /\ \A a \in Account : AccountSem(a) \in held[v] => balance'[a] = balance[a]
         /\ \A b \in Branch : BranchSem(b) \in held[v] => branchBalance'[b] = branchBalance[b]
<1>0. TypeOK /\ held[v] \cap held[w] = {}
  BY DEF IInv, SemaphoreInv
<1>1. ASSUME NEW a \in Account, AccountSem(a) \in held[v] PROVE balance'[a] = balance[a]
  BY <1>0, <1>1, Stores, StoreFact
<1>2. ASSUME NEW b \in Branch, BranchSem(b) \in held[v]
      PROVE  branchBalance'[b] = branchBalance[b]
  BY <1>0, <1>2, Stores, StoreFact
<1> QED BY <1>1, <1>2

(***************************************************************************)
(* A step of another worker leaves what worker v relies on as it is.       *)
(***************************************************************************)
SameRegisters(v) ==
  /\ reg'[v] = reg[v] /\ total'[v] = total[v]
  /\ err'[v] = err[v] /\ cmdCount'[v] = cmdCount[v]

LEMMA OthersRegister ==
  ASSUME TypeOK, NEW w \in Worker, Step(w), NEW v \in Worker, v # w
  PROVE  SameRegisters(v)
<1> USE DEF TypeOK, SameRegisters, shared
<1>1. ASSUME NEW c \in Workload, Begin(w, c) PROVE SameRegisters(v)
  BY <1>1 DEF Begin
<1>2. CASE SemWait(w)
  BY <1>2 DEF SemWait
<1>3. CASE SameAccount(w)
  BY <1>3 DEF SameAccount
<1>4. CASE CheckFunds(w)
  BY <1>4 DEF CheckFunds
<1>5. CASE LoadAccount(w)
  BY <1>5 DEF LoadAccount
<1>6. CASE StoreAccount(w)
  BY <1>6 DEF StoreAccount
<1>7. CASE LoadBranch(w)
  BY <1>7 DEF LoadBranch
<1>8. CASE StoreBranch(w)
  BY <1>8 DEF StoreBranch
<1>9. CASE ReadBranchBalance(w)
  BY <1>9 DEF ReadBranchBalance
<1>10. CASE SemPost(w)
  BY <1>10 DEF SemPost
<1>11. CASE NextBranch(w)
  BY <1>11 DEF NextBranch
<1>12. CASE Finish(w)
  BY <1>12 DEF Finish
<1>13. CASE Return(w)
  BY <1>13 DEF Return
<1> QED
  BY <1>1, <1>2, <1>3, <1>4, <1>5, <1>6, <1>7, <1>8, <1>9, <1>10, <1>11, <1>12, <1>13
     DEF Step

LEMMA OthersAccess ==
  ASSUME IInv, NEW w \in Worker, Step(w), NEW v \in Worker, v # w,
         RegInv(v), FundsInv(v)
  PROVE  RegInv(v)' /\ FundsInv(v)'
<1>0. TypeOK /\ LocalInv(v)
  BY DEF IInv
<1>1. SameLocals(v) /\ reg'[v] = reg[v]
  BY <1>0, OthersLocals, OthersRegister DEF SameRegisters
<1>2. Adjusting(v)' = Adjusting(v) /\ pc'[v] = pc[v]
  BY <1>1 DEF Adjusting, SameLocals
<1>3. CASE pc[v] \in {"load", "store"}
  <2>1. AdjustInv(v)
    BY <1>0, <1>3 DEF LocalInv
  <2>2. /\ Adjusting(v).account \in Account
        /\ AccountSem(Adjusting(v).account) \in held[v]
    BY <1>0, <2>1, AdjustingFact
  <2>3. balance'[Adjusting(v).account] = balance[Adjusting(v).account]
    BY <2>2, Protected
  <2> QED BY <1>1, <1>2, <1>3, <2>3 DEF RegInv, FundsInv
<1>4. CASE pc[v] \in {"loadBranch", "storeBranch"}
  <2>1. AdjustInv(v) /\ Adjusting(v).updateBranch
    BY <1>0, <1>4 DEF LocalInv, AdjustInv
  <2>2. /\ BranchOf(Adjusting(v).account) \in Branch
        /\ BranchSem(BranchOf(Adjusting(v).account)) \in held[v]
    BY <1>0, <2>1, AdjustingFact
  <2>3. branchBalance'[BranchOf(Adjusting(v).account)]
          = branchBalance[BranchOf(Adjusting(v).account)]
    BY <2>2, Protected
  <2> QED BY <1>1, <1>2, <1>4, <2>3 DEF RegInv, FundsInv
<1>5. CASE ~Active(v)
  BY <1>2, <1>5 DEF RegInv, FundsInv, Active
<1> QED BY <1>3, <1>4, <1>5 DEF Active
-----------------------------------------------------------------------------
(***************************************************************************)
(* Only the first adjustment of a withdrawal or a transfer takes money     *)
(* away: what the check of the funds has licensed.                         *)
(***************************************************************************)
LEMMA AdjustmentSigns ==
  ASSUME NEW c \in Command, IsTeller(c), NEW i \in 1 .. Len(Adjustments(c)),
         Adjustments(c)[i].amount < 0
  PROVE  /\ i = 1 /\ c.op \in {"withdraw", "transfer"}
         /\ Adjustments(c)[i].account = c.src /\ Adjustments(c)[i].amount = -c.amount
<1>0. c.amount \in Nat
  BY DEF Command
<1>1. CASE c.op = "deposit"
  BY <1>0, <1>1 DEF Adjustments, Adjustment
<1>2. CASE c.op = "withdraw"
  BY <1>0, <1>2 DEF Adjustments, Adjustment
<1>3. CASE c.op = "transfer"
  <2> DEFINE upd == ~IsSameBranch(c.src, c.dst)
             adj1 == Adjustment(c.src, -c.amount, upd)
             adj2 == Adjustment(c.dst, c.amount, upd)
  <2>1. Adjustments(c) = << adj1, adj2 >>
    BY <1>3 DEF Adjustments
  <2>2. adj1.account = c.src /\ adj1.amount = -c.amount /\ adj2.amount = c.amount
    BY DEF Adjustment
  <2> HIDE DEF adj1, adj2
  <2>3. Len(<< adj1, adj2 >>) = 2 /\ << adj1, adj2 >>[1] = adj1 /\ << adj1, adj2 >>[2] = adj2
    OBVIOUS
  <2>4. i \in {1, 2}
    BY <2>1, <2>3
  <2> QED BY <1>0, <1>3, <2>1, <2>2, <2>3, <2>4
<1> QED BY <1>1, <1>2, <1>3 DEF IsTeller

(***************************************************************************)
(* After an adjustment comes the second one, or the way out.               *)
(***************************************************************************)
LEMMA AdjustedFact ==
  ASSUME TypeOK, NEW w \in Worker, AdjustInv(w), Adjusted(w)
  PROVE  \/ /\ adj[w] = 1 /\ Len(Adjustments(cmd[w])) = 2
            /\ pc'[w] = "load" /\ adj'[w] = 2
         \/ /\ adj[w] = Len(Adjustments(cmd[w]))
            /\ pc'[w] = "post" /\ adj'[w] = adj[w]
<1> DEFINE n == Len(Adjustments(cmd[w]))
<1>1. n \in {1, 2} /\ adj[w] \in {1, 2} /\ adj[w] <= n
  BY AdjustingFact DEF AdjustInv
<1>2. /\ adj[w] < n => pc'[w] = "load" /\ adj'[w] = adj[w] + 1
      /\ ~(adj[w] < n) => pc'[w] = "post" /\ adj'[w] = adj[w]
  BY DEF Adjusted, TypeOK
<1> HIDE DEF n
<1>3. CASE adj[w] < n
  <2>1. adj[w] = 1 /\ n = 2
    BY <1>1, <1>3
  <2>2. pc'[w] = "load" /\ adj'[w] = 2
    BY <1>2, <1>3, <2>1
  <2> QED BY <2>1, <2>2 DEF n
<1>4. CASE ~(adj[w] < n)
  BY <1>1, <1>2, <1>4 DEF n
<1> QED BY <1>3, <1>4

LEMMA OwnAccess ==
  ASSUME IInv, NEW w \in Worker, Step(w), RegInv(w), FundsInv(w)
  PROVE  RegInv(w)' /\ FundsInv(w)'
<1>0. TypeOK /\ LocalInv(w)
  BY DEF IInv
<1>1. ASSUME ~Active(w)' PROVE RegInv(w)' /\ FundsInv(w)'
  BY <1>1 DEF RegInv, FundsInv, Active
<1>2. ASSUME NEW c \in Workload, Begin(w, c) PROVE ~Active(w)'
  BY <1>0, <1>2 DEF Begin, Active, TypeOK
<1>3. SemWait(w) \/ SameAccount(w) \/ ReadBranchBalance(w) => ~Active(w)'
  BY <1>0 DEF SemWait, SameAccount, ReadBranchBalance, Active, TypeOK
<1>4. SemPost(w) \/ NextBranch(w) \/ Finish(w) \/ Return(w) => ~Active(w)'
  BY <1>0 DEF SemPost, NextBranch, Posted, Finish, Return, Active, TypeOK
<1>5. CASE CheckFunds(w)
  <2>1. CASE Insufficient(cmd[w], balance[cmd[w].src])
    BY <1>0, <1>1, <1>5, <2>1 DEF CheckFunds, Active, TypeOK
  <2>2. CASE ~Insufficient(cmd[w], balance[cmd[w].src])
    <3>1. pc'[w] = "load" /\ adj'[w] = 1 /\ cmd'[w] = cmd[w] /\ balance' = balance
      BY <1>0, <1>5, <2>2 DEF CheckFunds, Locked, LocalInv, WaitInv, TypeOK, shared
    <3>2. /\ cmd[w] \in Command /\ IsTeller(cmd[w]) /\ ~IsSelfTransfer(cmd[w])
          /\ cmd[w].src \in Account /\ cmd[w].amount \in Nat
      BY <1>0, <1>5 DEF CheckFunds, TypeOK, Command
    <3>3. 1 \in 1 .. Len(Adjustments(cmd[w])) /\ Adjusting(w)' = Adjustments(cmd[w])[1]
      <4>1. Len(Adjustments(cmd[w])) \in {1, 2}
        BY <3>2, AdjustmentsFact
      <4>2. Adjusting(w)' = Adjustments(cmd[w])[1]
        BY <3>1 DEF Adjusting
      <4> QED BY <4>1, <4>2
    <3>4. Adjusting(w)'.amount < 0 =>
            balance[Adjusting(w)'.account] + Adjusting(w)'.amount >= 0
      <4>1. SUFFICES ASSUME Adjustments(cmd[w])[1].amount < 0
                     PROVE  balance[Adjustments(cmd[w])[1].account]
                              + Adjustments(cmd[w])[1].amount >= 0
        BY <3>3
      <4>2. /\ cmd[w].op \in {"withdraw", "transfer"}
            /\ Adjustments(cmd[w])[1].account = cmd[w].src
            /\ Adjustments(cmd[w])[1].amount = -cmd[w].amount
        BY <3>2, <3>3, <4>1, AdjustmentSigns
      <4>3. balance[cmd[w].src] \in Int /\ ~(cmd[w].amount > balance[cmd[w].src])
        BY <1>0, <2>2, <3>2, <4>2 DEF Insufficient, TypeOK
      <4> QED BY <3>2, <4>2, <4>3
    <3> QED BY <3>1, <3>4 DEF RegInv, FundsInv
  <2> QED BY <2>1, <2>2
<1>6. CASE LoadAccount(w)
  <2>1. /\ reg'[w] = balance[Adjusting(w).account] /\ pc'[w] = "store" /\ pc[w] = "load"
        /\ balance' = balance /\ Adjusting(w)' = Adjusting(w)
    BY <1>0, <1>6 DEF LoadAccount, TypeOK, Adjusting, shared
  <2> QED BY <2>1 DEF RegInv, FundsInv
<1>7. CASE LoadBranch(w)
  <2>1. /\ reg'[w] = branchBalance[BranchOf(Adjusting(w).account)]
        /\ pc'[w] = "storeBranch" /\ branchBalance' = branchBalance
        /\ Adjusting(w)' = Adjusting(w)
    BY <1>0, <1>7 DEF LoadBranch, TypeOK, Adjusting, shared
  <2> QED BY <2>1 DEF RegInv, FundsInv
<1>8. ASSUME AdjustInv(w), Adjusted(w), cmd' = cmd PROVE RegInv(w)' /\ FundsInv(w)'
  <2>1. CASE pc'[w] = "post"
    BY <1>1, <2>1 DEF Active
  <2>2. CASE pc'[w] = "load" /\ adj'[w] = 2 /\ Len(Adjustments(cmd[w])) = 2
    <3>1. /\ cmd[w] \in Command /\ IsTeller(cmd[w])
          /\ Adjusting(w)' = Adjustments(cmd[w])[2]
      BY <1>0, <1>8, <2>2 DEF AdjustInv, TypeOK, Adjusting
    <3>2. ~(Adjustments(cmd[w])[2].amount < 0)
      BY <2>2, <3>1, AdjustmentSigns
    <3> QED BY <2>2, <3>1, <3>2 DEF RegInv, FundsInv
  <2> QED BY <1>0, <1>8, <2>1, <2>2, AdjustedFact
<1>9. CASE StoreAccount(w)
  <2>1. AdjustInv(w) /\ cmd' = cmd
    BY <1>0, <1>9 DEF LocalInv, StoreAccount
  <2>2. CASE Adjusting(w).updateBranch
    BY <1>0, <1>9, <2>2 DEF StoreAccount, TypeOK, RegInv, FundsInv
  <2>3. CASE ~Adjusting(w).updateBranch
    BY <1>8, <1>9, <2>1, <2>3 DEF StoreAccount
  <2> QED BY <2>2, <2>3
<1>10. CASE StoreBranch(w)
  <2>1. AdjustInv(w) /\ cmd' = cmd /\ Adjusted(w)
    BY <1>0, <1>10 DEF LocalInv, StoreBranch
  <2> QED BY <1>8, <2>1
<1> QED BY <1>1, <1>2, <1>3, <1>4, <1>5, <1>6, <1>7, <1>9, <1>10 DEF Step

(***************************************************************************)
(* A store that takes an account below zero adds to it.                    *)
(***************************************************************************)
LEMMA OverdraftStep ==
  ASSUME IInv, NEW w \in Worker, Step(w), RegInv(w), FundsInv(w), NoOverdraft
  PROVE  NoOverdraft'
<1>0. TypeOK /\ LocalInv(w)
  BY DEF IInv
<1>1. SUFFICES ASSUME NEW a \in Account, balance'[a] < 0
               PROVE  balance'[a] >= InitialBalance[a]
  BY DEF NoOverdraft
<1>2. CASE balance'[a] = balance[a]
  BY <1>1, <1>2 DEF NoOverdraft
<1>3. CASE balance'[a] # balance[a]
  <2>1. StoreAccount(w)
    BY <1>0, <1>3, Stores
  <2>2. AdjustInv(w) /\ pc[w] = "store"
    BY <1>0, <2>1 DEF LocalInv, StoreAccount
  <2>3. /\ a = Adjusting(w).account /\ balance'[a] = balance[a] + Adjusting(w).amount
    BY <1>3, <2>1, <2>2, StoreFact DEF RegInv
  <2>4. /\ balance[a] \in Int /\ InitialBalance[a] \in Int /\ Adjusting(w).amount \in Int
    BY <1>0, <2>2, AdjustingFact, InitialAssumption DEF TypeOK
  <2>5. ~(Adjusting(w).amount < 0)
    BY <1>1, <2>2, <2>3, <2>4 DEF FundsInv
  <2>6. balance[a] < 0 => balance[a] >= InitialBalance[a]
    BY DEF NoOverdraft
  <2> QED BY <1>1, <2>3, <2>4, <2>5, <2>6
<1> QED BY <1>2, <1>3
-----------------------------------------------------------------------------
(***************************************************************************)
(* What an adjustment in progress owes, without the sum: its own part, and *)
(* that of the one that follows.                                           *)
(***************************************************************************)
AdjustmentOwes(w, i) ==
  LET d == Adjustments(cmd[w])[i]
  IN  (IF i > adj[w] \/ pc[w] \in {"load", "store"} THEN d.amount ELSE 0)
        - (IF d.updateBranch THEN d.amount ELSE 0)

Part(w, i, b) ==
  IF BranchOf(Adjustments(cmd[w])[i].account) = b THEN AdjustmentOwes(w, i) ELSE 0

OwedSplit(w, b) ==
  /\ Owed(w, b) \in Int
  /\ ~Active(w) => Owed(w, b) = 0
  /\ Active(w) =>
       /\ Part(w, adj[w], b) \in Int
       /\ adj[w] < Len(Adjustments(cmd[w])) => Part(w, 2, b) \in Int
       /\ Owed(w, b) =
            Part(w, adj[w], b)
              + (IF adj[w] < Len(Adjustments(cmd[w])) THEN Part(w, 2, b) ELSE 0)

LEMMA OwedFact ==
  ASSUME IInv, NEW w \in Worker, NEW b \in Branch
  PROVE  OwedSplit(w, b)
<1> USE DEF OwedSplit
<1>0. TypeOK /\ LocalInv(w)
  BY DEF IInv
<1>1. CASE ~Active(w)
  BY <1>1 DEF Owed, Active
<1>2. CASE Active(w)
  <2> DEFINE adjs == Adjustments(cmd[w])
             n == Len(adjs)
             k == adj[w]
             f == [i \in DOMAIN adjs |->
                     (IF i > adj[w] \/ pc[w] \in {"load", "store"} THEN adjs[i].amount ELSE 0)
                       - (IF adjs[i].updateBranch THEN adjs[i].amount ELSE 0)]
             I == {i \in adj[w] .. Len(adjs) : BranchOf(adjs[i].account) = b}
  <2>1. AdjustInv(w)
    BY <1>0, <1>2 DEF LocalInv, Active
  <2>2. n \in {1, 2} /\ k \in {1, 2} /\ k <= n
    BY <1>0, <2>1, AdjustingFact DEF AdjustInv
  <2>3. Owed(w, b) = SumFunctionOnSet(f, I)
    BY <1>2 DEF Owed, Active
  <2>4. DOMAIN adjs = 1 .. n /\ \A i \in 1 .. n : adjs[i].amount \in Int
    <3>1. cmd[w] \in Command /\ IsTeller(cmd[w]) /\ ~IsSelfTransfer(cmd[w])
      BY <1>0, <2>1 DEF TypeOK, AdjustInv
    <3>2. adjs \in Seq(AdjustmentRecord)
      BY <3>1, AdjustmentsType
    <3> QED BY <3>1, <3>2, AdjustmentsFact
  <2>5. \A i \in 1 .. n : f[i] = AdjustmentOwes(w, i) /\ f[i] \in Int
    BY <2>4 DEF AdjustmentOwes
  <2>6. I = {i \in 1 .. n : i >= k /\ BranchOf(adjs[i].account) = b}
    BY <2>2
  <2>7. f \in [1 .. n -> Int] /\ I \in SUBSET (1 .. n) /\ I \subseteq {1, 2}
    BY <2>2, <2>4, <2>5, <2>6
  <2>8. IsFiniteSet(1 .. n)
    <3> HIDE DEF n
    <3>1. n \in Int /\ 1 \in Int
      BY <2>2
    <3> QED BY <3>1, FS_Interval
  <2>9. SumFunctionOnSet(f, I) = (IF 1 \in I THEN f[1] ELSE 0) + (IF 2 \in I THEN f[2] ELSE 0)
    <3> DEFINE S == 1 .. n
    <3>1. IsFiniteSet(S) /\ f \in [S -> Int] /\ I \in SUBSET S /\ I \subseteq {1, 2} /\ 1 # 2
      BY <2>7, <2>8
    <3> HIDE DEF f, I, S
    <3> QED BY <3>1, SumPair
  <2>10. \A i \in 1 .. n : Part(w, i, b) = (IF BranchOf(adjs[i].account) = b THEN f[i] ELSE 0)
    BY <2>5 DEF Part
  <2> HIDE DEF f, adjs
  <2>11. CASE k = 1 /\ n = 1
    BY <1>2, <2>3, <2>5, <2>6, <2>9, <2>10, <2>11 DEF adjs
  <2>12. CASE k = 1 /\ n = 2
    BY <1>2, <2>3, <2>5, <2>6, <2>9, <2>10, <2>12 DEF adjs
  <2>13. CASE k = 2 /\ n = 2
    BY <1>2, <2>3, <2>5, <2>6, <2>9, <2>10, <2>13 DEF adjs
  <2>14. (k = 1 /\ n = 1) \/ (k = 1 /\ n = 2) \/ (k = 2 /\ n = 2)
    <3> HIDE DEF n, k
    <3> QED BY <2>2
  <2> QED BY <2>11, <2>12, <2>13, <2>14
<1> QED BY <1>1, <1>2

LEMMA OwedAfter == (IInv => \A w \in Worker, b \in Branch : OwedSplit(w, b))'
<1>1. IInv => \A w \in Worker, b \in Branch : OwedSplit(w, b)
  BY OwedFact
<1> QED BY <1>1, PTL

(***************************************************************************)
(* Either every adjustment of a command updates its branch, or they move   *)
(* money within one.                                                       *)
(***************************************************************************)
LEMMA AdjustmentsBalance ==
  ASSUME NEW c \in Command, IsTeller(c), ~IsSelfTransfer(c)
  PROVE  \/ \A i \in 1 .. Len(Adjustments(c)) : Adjustments(c)[i].updateBranch
         \/ /\ Len(Adjustments(c)) = 2
            /\ ~Adjustments(c)[1].updateBranch /\ ~Adjustments(c)[2].updateBranch
            /\ Adjustments(c)[2].amount = -Adjustments(c)[1].amount
            /\ BranchOf(Adjustments(c)[2].account) = BranchOf(Adjustments(c)[1].account)
<1>0. c.amount \in Nat
  BY DEF Command
<1>1. CASE c.op \in {"deposit", "withdraw"}
  <2> DEFINE n == IF c.op = "deposit" THEN c.amount ELSE -c.amount
             d == Adjustment(c.src, n, TRUE)
  <2>1. Adjustments(c) = << d >> /\ d.updateBranch
    BY <1>1 DEF Adjustments, Adjustment
  <2> HIDE DEF d
  <2>2. Len(<< d >>) = 1 /\ << d >>[1] = d
    OBVIOUS
  <2> QED BY <2>1, <2>2
<1>2. CASE c.op = "transfer"
  <2> DEFINE upd == ~IsSameBranch(c.src, c.dst)
             adj1 == Adjustment(c.src, -c.amount, upd)
             adj2 == Adjustment(c.dst, c.amount, upd)
  <2>1. Adjustments(c) = << adj1, adj2 >>
    BY <1>2 DEF Adjustments
  <2>2. /\ adj1.account = c.src /\ adj1.amount = -c.amount /\ adj1.updateBranch = upd
        /\ adj2.account = c.dst /\ adj2.amount = c.amount /\ adj2.updateBranch = upd
    BY DEF Adjustment
  <2> HIDE DEF adj1, adj2
  <2>3. Len(<< adj1, adj2 >>) = 2 /\ << adj1, adj2 >>[1] = adj1 /\ << adj1, adj2 >>[2] = adj2
    OBVIOUS
  <2>4. adj2.amount = -adj1.amount
    BY <1>0, <2>2
  <2>5. CASE upd
    <3>1. adj1.updateBranch /\ adj2.updateBranch
      BY <2>5 DEF adj1, adj2, Adjustment
    <3>2. ASSUME NEW i \in 1 .. 2 PROVE << adj1, adj2 >>[i].updateBranch
      BY <2>3, <3>1
    <3> QED BY <2>1, <2>3, <3>2
  <2>6. CASE ~upd
    <3>1. BranchOf(c.dst) = BranchOf(c.src)
      BY <2>6 DEF IsSameBranch
    <3>2. ~adj1.updateBranch /\ ~adj2.updateBranch
      BY <2>6 DEF adj1, adj2, Adjustment
    <3> QED BY <2>1, <2>2, <2>3, <2>4, <3>1, <3>2
  <2> QED BY <2>5, <2>6
<1> QED BY <1>1, <1>2 DEF IsTeller

(***************************************************************************)
(* The worker's own step moves what it owes into the balances.             *)
(***************************************************************************)
Drift(w, b) == branchBalance[b] - BranchSum(balance, b) - Owed(w, b)

LEMMA OwedQuiet ==
  ASSUME IInv, IInv', NEW w \in Worker, NEW b \in Branch,
         UNCHANGED <<balance, branchBalance>>, Owed(w, b)' = Owed(w, b)
  PROVE  Drift(w, b)' = Drift(w, b)
BY DEF Drift

LEMMA OwedCheck ==
  ASSUME IInv, IInv', NEW w \in Worker, CheckFunds(w), NEW b \in Branch
  PROVE  Drift(w, b)' = Drift(w, b)
<1>0. TypeOK /\ LocalInv(w) /\ ~Active(w) /\ UNCHANGED <<balance, branchBalance>>
  BY DEF IInv, CheckFunds, Locked, Active, shared
<1>1. OwedSplit(w, b) /\ OwedSplit(w, b)'
  BY OwedFact, OwedAfter
<1>2. CASE Insufficient(cmd[w], balance[cmd[w].src])
  <2>1. ~Active(w)'
    BY <1>0, <1>2 DEF CheckFunds, Active, TypeOK
  <2> QED BY <1>0, <1>1, <2>1, OwedQuiet DEF OwedSplit
<1>3. CASE ~Insufficient(cmd[w], balance[cmd[w].src])
  <2>1. pc'[w] = "load" /\ adj'[w] = 1 /\ cmd'[w] = cmd[w]
    BY <1>0, <1>3 DEF CheckFunds, Locked, LocalInv, WaitInv, TypeOK, shared
  <2>2. cmd[w] \in Command /\ IsTeller(cmd[w]) /\ ~IsSelfTransfer(cmd[w])
    BY <1>0 DEF CheckFunds, TypeOK
  <2> DEFINE adjs == Adjustments(cmd[w])
             n == Len(adjs)
  <2>3. n \in {1, 2} /\ \A i \in 1 .. n : adjs[i].amount \in Int
    BY <2>2, AdjustmentsFact
  <2>4. \A i \in {1, 2} : Part(w, i, b)' =
          IF BranchOf(adjs[i].account) = b
          THEN adjs[i].amount - (IF adjs[i].updateBranch THEN adjs[i].amount ELSE 0) ELSE 0
    BY <2>1 DEF Part, AdjustmentOwes
  <2>5. Owed(w, b)' = Part(w, 1, b)' + (IF 1 < n THEN Part(w, 2, b)' ELSE 0)
    BY <1>1, <2>1 DEF OwedSplit, Active
  <2>6. \/ \A i \in 1 .. n : adjs[i].updateBranch
        \/ /\ n = 2 /\ ~adjs[1].updateBranch /\ ~adjs[2].updateBranch
           /\ adjs[2].amount = -adjs[1].amount
           /\ BranchOf(adjs[2].account) = BranchOf(adjs[1].account)
    BY <2>2, AdjustmentsBalance
  <2> HIDE DEF adjs, n
  <2>7. Owed(w, b)' = 0
    <3>1. CASE n = 1
      BY <2>3, <2>4, <2>5, <2>6, <3>1
    <3>2. CASE n = 2
      BY <2>3, <2>4, <2>5, <2>6, <3>2
    <3> QED BY <2>3, <3>1, <3>2
  <2> QED BY <1>0, <1>1, <2>7, OwedQuiet DEF OwedSplit
<1> QED BY <1>2, <1>3

LEMMA OwedLoad ==
  ASSUME IInv, IInv', NEW w \in Worker, LoadAccount(w) \/ LoadBranch(w), NEW b \in Branch
  PROVE  Drift(w, b)' = Drift(w, b)
<1>0. TypeOK /\ Active(w) /\ Active(w)' /\ UNCHANGED <<balance, branchBalance, cmd, adj>>
  BY DEF IInv, TypeOK, LoadAccount, LoadBranch, Active, shared
<1>1. OwedSplit(w, b) /\ OwedSplit(w, b)'
  BY OwedFact, OwedAfter
<1>2. pc[w] \in {"load", "store"} <=> pc'[w] \in {"load", "store"}
  BY <1>0 DEF LoadAccount, LoadBranch, TypeOK
<1>3. \A i : Part(w, i, b)' = Part(w, i, b)
  BY <1>0, <1>2 DEF Part, AdjustmentOwes
<1> QED BY <1>0, <1>1, <1>3, OwedQuiet DEF OwedSplit

(***************************************************************************)
(* What Adjusted leaves owing: the part of the adjustment made is gone.    *)
(***************************************************************************)
LEMMA OwedAdjusted ==
  ASSUME IInv, IInv', NEW w \in Worker, Active(w), Adjusted(w), cmd' = cmd, NEW b \in Branch
  PROVE  Owed(w, b)' = Owed(w, b) - Part(w, adj[w], b)
<1>0. TypeOK /\ AdjustInv(w)
  BY DEF IInv, LocalInv, Active
<1>1. OwedSplit(w, b) /\ OwedSplit(w, b)'
  BY OwedFact, OwedAfter
<1>2. CASE /\ adj[w] = 1 /\ Len(Adjustments(cmd[w])) = 2
           /\ pc'[w] = "load" /\ adj'[w] = 2
  <2>1. Part(w, 2, b)' = Part(w, 2, b)
    BY <1>2 DEF Part, AdjustmentOwes
  <2>2. Owed(w, b)' = Part(w, 2, b)'
    BY <1>1, <1>2 DEF OwedSplit, Active
  <2>3. Owed(w, b) = Part(w, 1, b) + Part(w, 2, b)
        /\ Part(w, 1, b) \in Int /\ Part(w, 2, b) \in Int
    BY <1>1, <1>2 DEF OwedSplit
  <2> QED BY <1>2, <2>1, <2>2, <2>3
<1>3. CASE adj[w] = Len(Adjustments(cmd[w])) /\ pc'[w] = "post"
  <2>1. Owed(w, b)' = 0
    BY <1>1, <1>3 DEF OwedSplit, Active
  <2>2. Owed(w, b) = Part(w, adj[w], b) + 0 /\ Part(w, adj[w], b) \in Int
    <3>1. ~(adj[w] < Len(Adjustments(cmd[w])))
      BY <1>0, <1>3 DEF TypeOK
    <3> QED BY <1>1, <3>1 DEF OwedSplit
  <2> QED BY <2>1, <2>2
<1> QED BY <1>0, <1>2, <1>3, AdjustedFact

LEMMA LessThanTwo ==
  ASSUME NEW k \in {1, 2}, NEW n \in {1, 2}
  PROVE  /\ k < n => 2 > k
         /\ k <= n /\ n = 1 => k = 1
OBVIOUS

LEMMA OwedStoreAccount ==
  ASSUME IInv, IInv', NEW w \in Worker, RegInv(w), StoreAccount(w), NEW b \in Branch
  PROVE  Drift(w, b)' = Drift(w, b)
<1> DEFINE d == Adjusting(w)
           n == IF BranchOf(d.account) = b THEN d.amount ELSE 0
<1>0. TypeOK /\ AdjustInv(w) /\ Active(w) /\ pc[w] = "store" /\ TypeOK'
  BY DEF IInv, LocalInv, StoreAccount, Active
<1>1. OwedSplit(w, b) /\ OwedSplit(w, b)'
  BY OwedFact, OwedAfter
<1>2. /\ d.account \in Account /\ d.amount \in Int
      /\ adj[w] \in {1, 2} /\ Len(Adjustments(cmd[w])) \in {1, 2}
  BY <1>0, AdjustingFact
<1>3. /\ balance'[d.account] = balance[d.account] + d.amount
      /\ \A a \in Account \ {d.account} : balance'[a] = balance[a]
      /\ branchBalance' = branchBalance
  BY <1>0, StoreFact, ZenonT(30) DEF RegInv, StoreAccount
<1>4. balance \in [Account -> Int] /\ balance' \in [Account -> Int]
      /\ branchBalance \in [Branch -> Int]
  BY <1>0 DEF TypeOK
<1>5. BranchSum(balance', b) = BranchSum(balance, b) + n
  <2>1. BranchSum(balance', b) = BranchSum(balance, b)
          + (IF BranchOf(d.account) = b THEN balance'[d.account] - balance[d.account] ELSE 0)
    BY <1>2, <1>3, <1>4, BranchSumChange
  <2>2. balance[d.account] \in Int
    BY <1>2, <1>4
  <2> QED BY <1>2, <1>3, <2>1, <2>2
<1>6. Owed(w, b)' = Owed(w, b) - n
  <2>1. Part(w, adj[w], b) = IF BranchOf(d.account) = b
                             THEN d.amount - (IF d.updateBranch THEN d.amount ELSE 0) ELSE 0
    BY <1>0 DEF Part, AdjustmentOwes, Adjusting
  <2>2. CASE d.updateBranch
    <3>1. pc'[w] = "loadBranch" /\ adj' = adj /\ cmd' = cmd
      BY <1>0, <2>2 DEF StoreAccount, TypeOK
    <3>2. Part(w, adj[w], b)' = IF BranchOf(d.account) = b THEN 0 - d.amount ELSE 0
      <4>1. ~(adj[w] > adj[w])
        BY <1>2
      <4> QED BY <2>2, <3>1, <4>1 DEF Part, AdjustmentOwes, Adjusting
    <3>3. adj[w] < Len(Adjustments(cmd[w])) => Part(w, 2, b)' = Part(w, 2, b)
      <4>1. adj[w] < Len(Adjustments(cmd[w])) => 2 > adj[w]
        BY <1>2, LessThanTwo
      <4> QED BY <3>1, <4>1 DEF Part, AdjustmentOwes
    <3>4. Active(w)'
      BY <3>1 DEF Active
    <3>5. Part(w, adj[w], b)' = Part(w, adj[w], b) - n
      BY <1>2, <2>1, <2>2, <3>2
    <3>6. Owed(w, b)' = Part(w, adj[w], b)'
                          + (IF adj[w] < Len(Adjustments(cmd[w])) THEN Part(w, 2, b)' ELSE 0)
      BY <1>1, <3>1, <3>4 DEF OwedSplit
    <3>7. /\ n \in Int /\ Part(w, adj[w], b) \in Int
          /\ adj[w] < Len(Adjustments(cmd[w])) => Part(w, 2, b) \in Int
      BY <1>0, <1>1, <1>2 DEF OwedSplit
    <3>8. Owed(w, b) = Part(w, adj[w], b)
                          + (IF adj[w] < Len(Adjustments(cmd[w])) THEN Part(w, 2, b) ELSE 0)
      BY <1>0, <1>1 DEF OwedSplit
    <3>9. ASSUME NEW x \in Int, NEW y \in Int, NEW z \in Int PROVE (x - y) + z = (x + z) - y
      OBVIOUS
    <3>10. CASE adj[w] < Len(Adjustments(cmd[w]))
      <4> HIDE DEF n
      <4>1. Owed(w, b)' = (Part(w, adj[w], b) - n) + Part(w, 2, b)
        BY <3>3, <3>5, <3>6, <3>10
      <4>2. Owed(w, b) = Part(w, adj[w], b) + Part(w, 2, b)
        BY <3>8, <3>10
      <4> QED BY <3>7, <3>9, <3>10, <4>1, <4>2
    <3>11. CASE ~(adj[w] < Len(Adjustments(cmd[w])))
      <4> HIDE DEF n
      <4>1. Owed(w, b)' = (Part(w, adj[w], b) - n) + 0
        BY <3>5, <3>6, <3>11
      <4>2. Owed(w, b) = Part(w, adj[w], b) + 0
        BY <3>8, <3>11
      <4> QED BY <3>7, <3>9, <4>1, <4>2
    <3> QED BY <3>10, <3>11
  <2>3. CASE ~d.updateBranch
    <3>1. Adjusted(w) /\ cmd' = cmd
      BY <2>3 DEF StoreAccount
    <3>2. Owed(w, b)' = Owed(w, b) - Part(w, adj[w], b)
      BY <1>0, <3>1, OwedAdjusted
    <3>3. Part(w, adj[w], b) = n
      BY <1>2, <2>1, <2>3
    <3> QED BY <3>2, <3>3
  <2> QED BY <2>2, <2>3
<1>7. /\ Owed(w, b) \in Int /\ n \in Int /\ BranchSum(balance, b) \in Int
      /\ branchBalance[b] \in Int
  BY <1>1, <1>2, <1>4, BranchSumType DEF OwedSplit
<1> HIDE DEF n
<1> QED BY <1>3, <1>5, <1>6, <1>7 DEF Drift

LEMMA OwedStoreBranch ==
  ASSUME IInv, IInv', NEW w \in Worker, RegInv(w), StoreBranch(w), NEW b \in Branch
  PROVE  Drift(w, b)' = Drift(w, b)
<1> DEFINE d == Adjusting(w)
           n == IF BranchOf(d.account) = b THEN d.amount ELSE 0
<1>0. TypeOK /\ AdjustInv(w) /\ Active(w) /\ pc[w] = "storeBranch" /\ d.updateBranch
  BY DEF IInv, LocalInv, AdjustInv, StoreBranch, Active
<1>1. OwedSplit(w, b)
  BY OwedFact
<1>2. d.account \in Account /\ d.amount \in Int /\ branchBalance \in [Branch -> Int]
      /\ adj[w] \in {1, 2} /\ balance \in [Account -> Int]
  BY <1>0, AdjustingFact DEF TypeOK
<1>3. branchBalance'[b] = branchBalance[b] + n /\ balance' = balance
  BY <1>0, <1>2, StoreFact DEF RegInv, StoreBranch
<1>4. Part(w, adj[w], b) = 0 - n
  <2>1. ~(adj[w] > adj[w])
    BY <1>2
  <2> QED BY <1>0, <1>2, <2>1 DEF Part, AdjustmentOwes, Adjusting
<1>5. Owed(w, b)' = Owed(w, b) - Part(w, adj[w], b)
  BY <1>0, OwedAdjusted DEF StoreBranch
<1>6. /\ Owed(w, b) \in Int /\ n \in Int /\ BranchSum(balance, b) \in Int
      /\ branchBalance[b] \in Int
  BY <1>1, <1>2, BranchSumType DEF OwedSplit
<1> HIDE DEF n
<1> QED BY <1>3, <1>4, <1>5, <1>6 DEF Drift

LEMMA OwedStep ==
  ASSUME IInv, IInv', NEW w \in Worker, RegInv(w), Step(w), NEW b \in Branch
  PROVE  Drift(w, b)' = Drift(w, b)
<1> USE DEF shared
<1>0. TypeOK /\ OwedSplit(w, b) /\ OwedSplit(w, b)'
  BY OwedFact, OwedAfter DEF IInv
<1>1. ASSUME ~Active(w), ~Active(w)', UNCHANGED <<balance, branchBalance>>
      PROVE  Drift(w, b)' = Drift(w, b)
  <2>1. Owed(w, b)' = Owed(w, b)
    BY <1>0, <1>1 DEF OwedSplit
  <2> QED BY <1>1, <2>1, OwedQuiet
<1>2. ASSUME NEW c \in Workload, Begin(w, c) PROVE Drift(w, b)' = Drift(w, b)
  BY <1>0, <1>1, <1>2 DEF Begin, Active, TypeOK
<1>3. CASE SemWait(w)
  BY <1>0, <1>1, <1>3 DEF SemWait, Active, TypeOK
<1>4. CASE SameAccount(w)
  BY <1>0, <1>1, <1>4 DEF SameAccount, Locked, Active, TypeOK
<1>5. CASE ReadBranchBalance(w)
  BY <1>0, <1>1, <1>5 DEF ReadBranchBalance, Locked, Active, TypeOK
<1>6. CASE SemPost(w)
  BY <1>0, <1>1, <1>6 DEF SemPost, Active, TypeOK
<1>7. CASE NextBranch(w)
  BY <1>0, <1>1, <1>7 DEF NextBranch, Posted, Active, TypeOK
<1>8. CASE Finish(w)
  BY <1>0, <1>1, <1>8 DEF Finish, Posted, Active, TypeOK
<1>9. CASE Return(w)
  BY <1>0, <1>1, <1>9 DEF Return, Active, TypeOK
<1> QED
  BY <1>2, <1>3, <1>4, <1>5, <1>6, <1>7, <1>8, <1>9, OwedCheck, OwedLoad,
     OwedStoreAccount, OwedStoreBranch DEF Step

(***************************************************************************)
(* No step loses an update: what it adds to the accounts and the branches  *)
(* it no longer owes.                                                      *)
(***************************************************************************)
LEMMA ConsistentStep ==
  ASSUME IInv, IInv', NEW w \in Worker, RegInv(w), Step(w), BranchConsistent
  PROVE  BranchConsistent'
<1> SUFFICES ASSUME NEW b \in Branch
             PROVE  branchBalance'[b] = BranchSum(balance', b)
                      + SumFunctionOnSet([v \in Worker |-> Owed(v, b)'], Worker)
  BY DEF BranchConsistent
<1> DEFINE f == [v \in Worker |-> Owed(v, b)]
           g == [v \in Worker |-> Owed(v, b)']
<1>1. \A v \in Worker : Owed(v, b) \in Int
  BY OwedFact DEF OwedSplit
<1>2. \A v \in Worker : Owed(v, b)' \in Int
  BY OwedAfter DEF OwedSplit
<1>3. ASSUME NEW v \in Worker, v # w PROVE Owed(v, b)' = Owed(v, b)
  <2>1. SameLocals(v)
    BY <1>3, OthersLocals DEF IInv
  <2> QED BY <2>1 DEF SameLocals, Owed
<1>4. f \in [Worker -> Int] /\ g \in [Worker -> Int]
  BY <1>1, <1>2
<1>5. \A v \in Worker \ {w} : f[v] = g[v]
  BY <1>3
<1>6. SumFunctionOnSet(g, Worker) = SumFunctionOnSet(f, Worker) + g[w] - f[w]
      /\ SumFunctionOnSet(f, Worker) \in Int
  <2> HIDE DEF f, g
  <2> QED BY <1>4, <1>5, SumChange, SumFact, WorkerAssumption
<1>7. f[w] = Owed(w, b) /\ g[w] = Owed(w, b)'
  OBVIOUS
<1>8. branchBalance[b] = BranchSum(balance, b) + SumFunctionOnSet(f, Worker)
  BY DEF BranchConsistent
<1>9. branchBalance'[b] - BranchSum(balance', b) - Owed(w, b)'
        = branchBalance[b] - BranchSum(balance, b) - Owed(w, b)
  BY OwedStep DEF Drift
<1>10. /\ balance \in [Account -> Int] /\ balance' \in [Account -> Int]
       /\ branchBalance \in [Branch -> Int] /\ branchBalance' \in [Branch -> Int]
  BY DEF IInv, TypeOK
<1>11. /\ BranchSum(balance, b) \in Int /\ BranchSum(balance', b) \in Int
       /\ branchBalance[b] \in Int /\ branchBalance'[b] \in Int
  BY <1>10, BranchSumType
<1> HIDE DEF f, g
<1>12. branchBalance'[b] = BranchSum(balance', b) + SumFunctionOnSet(g, Worker)
  BY <1>1, <1>2, <1>6, <1>7, <1>8, <1>9, <1>11
<1> QED BY <1>12 DEF g
-----------------------------------------------------------------------------
(***************************************************************************)
(* The inductive invariant: the semaphore discipline, what workers rely on *)
(* between a load and a store, and the two properties themselves.          *)
(***************************************************************************)
BalanceInv == IInv /\ AccessInv /\ NoOverdraft /\ BranchConsistent

LEMMA InitBalance == Init => BalanceInv
<1> SUFFICES ASSUME Init PROVE BalanceInv
  OBVIOUS
<1>1. IInv
  BY InitInvariant
<1>2. AccessInv
  BY DEF Init, AccessInv, RegInv, FundsInv
<1>3. NoOverdraft
  <2>1. balance = InitialBalance /\ \A a \in Account : InitialBalance[a] \in Int
    BY InitialAssumption DEF Init
  <2> QED BY <2>1 DEF NoOverdraft
<1>4. BranchConsistent
  <2> SUFFICES ASSUME NEW b \in Branch
               PROVE  branchBalance[b] = BranchSum(balance, b)
                        + SumFunctionOnSet([w \in Worker |-> Owed(w, b)], Worker)
    BY DEF BranchConsistent
  <2> DEFINE f == [w \in Worker |-> Owed(w, b)]
  <2>1. \A w \in Worker : Owed(w, b) = 0
    BY DEF Init, Owed
  <2>2. f \in [Worker -> Int] /\ \A w \in Worker : f[w] = 0
    BY <2>1
  <2>3. SumFunctionOnSet(f, Worker) = 0
    <3> HIDE DEF f
    <3> QED BY <2>2, SumZero, WorkerAssumption
  <2>4. branchBalance[b] = BranchSum(balance, b) /\ BranchSum(balance, b) \in Int
    BY InitialAssumption, BranchSumType DEF Init
  <2> HIDE DEF f
  <2>5. branchBalance[b] = BranchSum(balance, b) + SumFunctionOnSet(f, Worker)
    BY <2>3, <2>4
  <2> QED BY <2>5 DEF f
<1> QED BY <1>1, <1>2, <1>3, <1>4 DEF BalanceInv

LEMMA NextBalance == BalanceInv /\ [Next]_vars => BalanceInv'
<1> SUFFICES ASSUME BalanceInv, [Next]_vars PROVE BalanceInv'
  OBVIOUS
<1>1. IInv /\ IInv' /\ AccessInv /\ NoOverdraft /\ BranchConsistent
  BY NextInvariant DEF BalanceInv
<1>2. ASSUME NEW w \in Worker, Step(w) PROVE AccessInv' /\ NoOverdraft' /\ BranchConsistent'
  <2>1. RegInv(w) /\ FundsInv(w)
    BY <1>1 DEF AccessInv
  <2>2. AccessInv'
    BY <1>1, <1>2, OthersAccess, OwnAccess DEF AccessInv
  <2>3. NoOverdraft'
    BY <1>1, <1>2, <2>1, OverdraftStep
  <2>4. BranchConsistent'
    BY <1>1, <1>2, <2>1, ConsistentStep
  <2> QED BY <2>2, <2>3, <2>4
<1>3. ASSUME UNCHANGED vars PROVE AccessInv' /\ NoOverdraft' /\ BranchConsistent'
  <2> USE <1>3 DEF vars, shared, local
  <2>1. AccessInv'
    BY <1>1 DEF AccessInv, RegInv, FundsInv, Adjusting
  <2>2. NoOverdraft'
    BY <1>1 DEF NoOverdraft
  <2>3. BranchConsistent'
    BY <1>1, ZenonT(30) DEF BranchConsistent, Owed
  <2> QED BY <2>1, <2>2, <2>3
<1>4. Terminating => UNCHANGED vars
  BY DEF Terminating
<1> QED BY <1>1, <1>2, <1>3, <1>4 DEF Next, BalanceInv

(***************************************************************************)
(* So do the balances and the workers' registers.                          *)
(***************************************************************************)
THEOREM BalanceInvariance == Spec => []BalanceInv
BY InitBalance, NextBalance, PTL DEF Spec

(***************************************************************************)
(* The check of the funds and the adjustment it licenses see the same      *)
(* balance: no account is overdrawn.                                       *)
(***************************************************************************)
THEOREM OverdraftFreedom == Spec => []NoOverdraft
<1>1. BalanceInv => NoOverdraft
  BY DEF BalanceInv
<1> QED BY <1>1, BalanceInvariance, PTL

(***************************************************************************)
(* A branch's balance is the sum of its accounts, up to what adjustments   *)
(* in progress still owe: no update is lost.                               *)
(***************************************************************************)
THEOREM BranchesConsistent == Spec => []BranchConsistent
<1>1. BalanceInv => BranchConsistent
  BY DEF BalanceInv
<1> QED BY <1>1, BalanceInvariance, PTL
-----------------------------------------------------------------------------
(***************************************************************************)
(* A bank enquiry.  What a transfer across branches has taken from one     *)
(* branch and not yet given to the other:                                  *)
(***************************************************************************)
OnItsWay(w) ==
  IF Active(w) /\ cmd[w].op = "transfer" /\ adj[w] = 2 /\ Adjusting(w).updateBranch
  THEN cmd[w].amount ELSE 0

InitialTotal == SumFunctionOnSet(InitialBalance, Account)

BankFunds == SumFunctionOnSet(branchBalance, Branch)

FundsKept ==
  BankFunds + SumFunctionOnSet([w \in Worker |-> OnItsWay(w)], Worker) = InitialTotal

(***************************************************************************)
(* The loop of Bank_Balance: under the bank's semaphore the total is that  *)
(* of the branches it has been to.                                         *)
(***************************************************************************)
Enquiring(w) == pc[w] \in {"wait", "post", "return"} /\ cmd[w].op = "bankBalance"

ScanInv(w) ==
  /\ cmd[w] \in Workload \cup {NoCommand}
  /\ pc[w] = "idle" => total[w] = 0
  /\ Enquiring(w) /\ scan[w] < NumBranches =>
       /\ pc[w] # "return"
       /\ scan[w] = 0 \/ BankSem \in held[w]
       /\ total[w] = SumFunctionOnSet(branchBalance, 0 .. scan[w] - 1)
       /\ pc[w] = "post" => reg[w] = branchBalance[scan[w]]
  /\ Enquiring(w) /\ scan[w] = NumBranches => total[w] = InitialTotal

FlowInv == FundsKept /\ \A w \in Worker : ScanInv(w)

(***************************************************************************)
(* The two halves of a transfer cancel; without deposits and withdrawals   *)
(* no other command adds anything.                                         *)
(***************************************************************************)
LEMMA AdjustmentAmounts ==
  ASSUME NEW c \in Command, IsTeller(c)
  PROVE  /\ c.op = "transfer" =>
              /\ Len(Adjustments(c)) = 2
              /\ Adjustments(c)[1].amount = -c.amount /\ Adjustments(c)[2].amount = c.amount
              /\ Adjustments(c)[1].updateBranch <=> Adjustments(c)[2].updateBranch
         /\ c.op # "transfer" /\ c.amount = 0 =>
              /\ Len(Adjustments(c)) = 1 /\ Adjustments(c)[1].amount = 0
<1>1. CASE c.op = "transfer"
  <2> DEFINE upd == ~IsSameBranch(c.src, c.dst)
             adj1 == Adjustment(c.src, -c.amount, upd)
             adj2 == Adjustment(c.dst, c.amount, upd)
  <2>1. Adjustments(c) = << adj1, adj2 >>
    BY <1>1 DEF Adjustments
  <2>2. /\ adj1.amount = -c.amount /\ adj2.amount = c.amount
        /\ adj1.updateBranch <=> adj2.updateBranch
    BY DEF Adjustment
  <2> HIDE DEF adj1, adj2
  <2>3. Len(<< adj1, adj2 >>) = 2 /\ << adj1, adj2 >>[1] = adj1 /\ << adj1, adj2 >>[2] = adj2
    OBVIOUS
  <2> QED BY <1>1, <2>1, <2>2, <2>3
<1>2. CASE c.op # "transfer" /\ c.amount = 0
  <2> DEFINE n == IF c.op = "deposit" THEN c.amount ELSE -c.amount
             d == Adjustment(c.src, n, TRUE)
  <2>1. Adjustments(c) = << d >>
    BY <1>2 DEF Adjustments, IsTeller
  <2>2. d.amount = 0
    <3>1. n = 0
      <4>1. \A k \in Int : k >= 0 /\ k <= 0 => -k = 0
        OBVIOUS
      <4>2. c.amount \in Int /\ c.amount >= 0 /\ c.amount <= 0
        BY <1>2
      <4>3. -c.amount = 0
        BY <4>1, <4>2
      <4> QED BY <1>2, <4>3
    <3> HIDE DEF n
    <3> QED BY <3>1 DEF Adjustment
  <2> HIDE DEF d
  <2>3. Len(<< d >>) = 1 /\ << d >>[1] = d
    OBVIOUS
  <2> QED BY <1>2, <2>1, <2>2, <2>3
<1>3. CASE c.op # "transfer" /\ c.amount # 0
  BY <1>3
<1> QED BY <1>1, <1>2, <1>3

LEMMA NoFlow ==
  ASSUME NoFundsFlow, TypeOK, NEW w \in Worker, ScanInv(w), AdjustInv(w)
  PROVE  /\ cmd[w] \in Command /\ IsTeller(cmd[w]) /\ ~IsSelfTransfer(cmd[w])
         /\ cmd[w].amount \in Nat
         /\ cmd[w].op # "transfer" => cmd[w].amount = 0
         /\ cmd[w].op = "transfer" => BankSem \in held[w]
<1>1. cmd[w] \in Command /\ IsTeller(cmd[w]) /\ ~IsSelfTransfer(cmd[w]) /\ cmd[w].amount \in Nat
  BY DEF AdjustInv, TypeOK, Command
<1>2. cmd[w].op # "transfer" => cmd[w].amount = 0
  <2>1. cmd[w] # NoCommand
    BY <1>1 DEF NoCommand, BankBalance, IsTeller
  <2> QED BY <1>1, <2>1 DEF ScanInv, NoFundsFlow, IsTeller
<1>3. cmd[w].op = "transfer" => BankSem \in held[w]
  BY <1>1, LockSets DEF AdjustInv, Needed
<1> QED BY <1>1, <1>2, <1>3

LEMMA AdjustingAmount ==
  ASSUME NoFundsFlow, TypeOK, NEW w \in Worker, ScanInv(w), AdjustInv(w)
  PROVE  /\ cmd[w].op # "transfer" => Adjusting(w).amount = 0
         /\ cmd[w].op = "transfer" /\ adj[w] = 1 => Adjusting(w).amount = -cmd[w].amount
         /\ cmd[w].op = "transfer" /\ adj[w] = 2 => Adjusting(w).amount = cmd[w].amount
<1>1. cmd[w].op # "transfer" => adj[w] = 1
  <2>1. cmd[w].op # "transfer" => Len(Adjustments(cmd[w])) = 1
    BY NoFlow, AdjustmentAmounts
  <2>2. adj[w] \in {1, 2} /\ adj[w] <= Len(Adjustments(cmd[w]))
    BY AdjustingFact DEF AdjustInv
  <2>3. Len(Adjustments(cmd[w])) \in {1, 2}
    BY AdjustingFact
  <2> QED BY <2>1, <2>2, <2>3, LessThanTwo
<1> QED BY <1>1, NoFlow, AdjustmentAmounts DEF Adjusting

(***************************************************************************)
(* While a worker holds the bank's semaphore no other changes a branch.    *)
(***************************************************************************)
LEMMA BranchesStill ==
  ASSUME NoFundsFlow, IInv, IInv', NEW w \in Worker, Step(w), RegInv(w), ScanInv(w),
         NEW v \in Worker, v # w, BankSem \in held[v]
  PROVE  branchBalance' = branchBalance
<1>0. TypeOK /\ TypeOK' /\ LocalInv(w) /\ held[v] \cap held[w] = {}
  BY DEF IInv, SemaphoreInv
<1>1. CASE ~StoreBranch(w)
  BY <1>0, <1>1, Stores
<1>2. CASE StoreBranch(w)
  <2>1. AdjustInv(w) /\ pc[w] = "storeBranch"
    BY <1>0, <1>2 DEF LocalInv, StoreBranch
  <2>2. Adjusting(w).amount = 0
    BY <1>0, <2>1, NoFlow, AdjustingAmount
  <2>3. BranchOf(Adjusting(w).account) \in Branch
        /\ reg[w] = branchBalance[BranchOf(Adjusting(w).account)]
    BY <1>2, <2>1, StoreFact DEF RegInv
  <2>4. reg[w] + Adjusting(w).amount = reg[w]
    BY <1>0, <2>2 DEF TypeOK
  <2>5. \A b \in Branch : branchBalance'[b] = branchBalance[b]
    BY <1>2, <2>3, <2>4, StoreFact
  <2>6. branchBalance \in [Branch -> Int] /\ branchBalance' \in [Branch -> Int]
    BY <1>0 DEF TypeOK
  <2> QED BY <2>5, <2>6
<1> QED BY <1>1, <1>2

(***************************************************************************)
(* A worker's own step moves what is on its way into a branch.             *)
(***************************************************************************)
LEMMA FundsOwn ==
  ASSUME NoFundsFlow, IInv, IInv', NEW w \in Worker, Step(w), RegInv(w), ScanInv(w)
  PROVE  /\ BankFunds' + OnItsWay(w)' = BankFunds + OnItsWay(w)
         /\ BankFunds \in Int /\ BankFunds' \in Int
         /\ OnItsWay(w) \in Int /\ OnItsWay(w)' \in Int
<1> USE DEF shared
<1>0. TypeOK /\ TypeOK' /\ LocalInv(w)
  BY DEF IInv
<1>1. /\ branchBalance \in [Branch -> Int] /\ branchBalance' \in [Branch -> Int]
      /\ cmd[w].amount \in Int /\ cmd'[w].amount \in Int
  BY <1>0, SMTT(30) DEF TypeOK, Command
<1>2. BankFunds \in Int /\ BankFunds' \in Int
  BY <1>1, FiniteData, SumFact DEF BankFunds
<1>3. OnItsWay(w) \in Int /\ OnItsWay(w)' \in Int
  BY <1>1 DEF OnItsWay
<1> DEFINE Moved == BankFunds' + OnItsWay(w)' = BankFunds + OnItsWay(w)
<1> SUFFICES Moved
  BY <1>2, <1>3
<1>4. ASSUME OnItsWay(w)' = OnItsWay(w), branchBalance' = branchBalance PROVE Moved
  BY <1>4 DEF BankFunds
<1>5. ASSUME ~Active(w), ~Active(w)', branchBalance' = branchBalance PROVE Moved
  BY <1>4, <1>5 DEF OnItsWay
<1>6. ASSUME NEW c \in Workload, Begin(w, c) PROVE Moved
  BY <1>0, <1>5, <1>6 DEF Begin, Active, TypeOK
<1>7. CASE SemWait(w)
  BY <1>0, <1>5, <1>7 DEF SemWait, Active, TypeOK
<1>8. CASE SameAccount(w)
  BY <1>0, <1>5, <1>8 DEF SameAccount, Locked, Active, TypeOK
<1>9. CASE ReadBranchBalance(w)
  BY <1>0, <1>5, <1>9 DEF ReadBranchBalance, Locked, Active, TypeOK
<1>10. CASE SemPost(w)
  BY <1>0, <1>5, <1>10 DEF SemPost, Active, TypeOK
<1>11. CASE NextBranch(w)
  BY <1>0, <1>5, <1>11 DEF NextBranch, Posted, Active, TypeOK
<1>12. CASE Finish(w)
  BY <1>0, <1>5, <1>12 DEF Finish, Posted, Active, TypeOK
<1>13. CASE Return(w)
  BY <1>0, <1>5, <1>13 DEF Return, Active, TypeOK
<1>14. CASE CheckFunds(w)
  <2>1. ~Active(w) /\ adj[w] = 1 /\ adj' = adj /\ branchBalance' = branchBalance
    BY <1>0, <1>14 DEF CheckFunds, Locked, Active, LocalInv, WaitInv
  <2>2. OnItsWay(w) = 0 /\ OnItsWay(w)' = 0
    BY <2>1 DEF OnItsWay
  <2> QED BY <1>4, <2>1, <2>2
<1>15. CASE LoadAccount(w) \/ LoadBranch(w)
  <2>1. Active(w) /\ Active(w)' /\ UNCHANGED <<cmd, adj, branchBalance>>
    BY <1>0, <1>15 DEF LoadAccount, LoadBranch, Active, TypeOK
  <2>2. OnItsWay(w)' = OnItsWay(w)
    BY <2>1 DEF OnItsWay, Adjusting
  <2> QED BY <1>4, <2>1, <2>2
<1>16. CASE StoreAccount(w)
  <2>1. Active(w) /\ AdjustInv(w) /\ cmd' = cmd /\ branchBalance' = branchBalance
    BY <1>0, <1>16 DEF StoreAccount, LocalInv, Active
  <2>2. CASE Adjusting(w).updateBranch
    <3>1. Active(w)' /\ adj' = adj
      BY <1>0, <1>16, <2>2 DEF StoreAccount, Active, TypeOK
    <3>2. OnItsWay(w)' = OnItsWay(w)
      BY <2>1, <3>1 DEF OnItsWay, Adjusting
    <3> QED BY <1>4, <2>1, <3>2
  <2>3. CASE ~Adjusting(w).updateBranch
    <3>1. OnItsWay(w) = 0
      BY <2>3 DEF OnItsWay
    <3>2. Adjusted(w)
      BY <1>16, <2>3 DEF StoreAccount
    <3>3. CASE pc'[w] = "post"
      BY <1>4, <2>1, <3>1, <3>3 DEF OnItsWay, Active
    <3>4. CASE adj[w] = 1 /\ adj'[w] = 2
      <4>1. cmd[w].op = "transfer" => ~Adjustments(cmd[w])[2].updateBranch
        BY <1>0, <2>1, <2>3, <3>4, NoFlow, AdjustmentAmounts DEF Adjusting
      <4>2. OnItsWay(w)' = 0
        BY <2>1, <3>4, <4>1 DEF OnItsWay, Adjusting
      <4> QED BY <1>4, <2>1, <3>1, <4>2
    <3> QED BY <1>0, <2>1, <3>2, <3>3, <3>4, AdjustedFact
  <2> QED BY <2>2, <2>3
<1>17. CASE StoreBranch(w)
  <2> DEFINE d == Adjusting(w)
             b == BranchOf(d.account)
  <2>1. Active(w) /\ AdjustInv(w) /\ cmd' = cmd /\ Adjusted(w) /\ d.updateBranch
        /\ pc[w] = "storeBranch"
    BY <1>0, <1>17 DEF StoreBranch, LocalInv, AdjustInv, Active
  <2>2. d.amount \in Int /\ b \in Branch
    BY <1>0, <1>17, <2>1, AdjustingFact, StoreFact
  <2>3. branchBalance'[b] = branchBalance[b] + d.amount
        /\ \A x \in Branch \ {b} : branchBalance[x] = branchBalance'[x]
    BY <1>17, <2>1, <2>2, StoreFact DEF RegInv
  <2>4. BankFunds' = BankFunds + d.amount
    <3> HIDE DEF b, d
    <3>1. BankFunds' = BankFunds + branchBalance'[b] - branchBalance[b]
      BY <1>1, <2>2, <2>3, FiniteData, SumChange DEF BankFunds
    <3>2. branchBalance[b] \in Int
      BY <1>1, <2>2
    <3> QED BY <1>2, <2>2, <2>3, <3>1, <3>2
  <2>5. OnItsWay(w)' = OnItsWay(w) - d.amount
    <3>1. CASE cmd[w].op # "transfer"
      <4>1. OnItsWay(w) = 0 /\ OnItsWay(w)' = 0 /\ d.amount = 0
        BY <1>0, <2>1, <3>1, AdjustingAmount DEF OnItsWay
      <4> QED BY <4>1
    <3>2. CASE cmd[w].op = "transfer" /\ adj[w] = 1
      <4>1. /\ Len(Adjustments(cmd[w])) = 2 /\ d.amount = -cmd[w].amount
            /\ Adjustments(cmd[w])[2].updateBranch
        BY <1>0, <2>1, <3>2, NoFlow, AdjustmentAmounts, AdjustingAmount DEF Adjusting
      <4>2. pc'[w] = "load" /\ adj'[w] = 2
        BY <1>0, <2>1, <3>2, <4>1, AdjustedFact
      <4>3. OnItsWay(w) = 0
        BY <3>2 DEF OnItsWay
      <4>4. OnItsWay(w)' = cmd[w].amount
        BY <2>1, <3>2, <4>1, <4>2 DEF OnItsWay, Active, Adjusting
      <4> HIDE DEF d
      <4> QED BY <1>1, <4>1, <4>3, <4>4
    <3>3. CASE cmd[w].op = "transfer" /\ adj[w] = 2
      <4>1. d.amount = cmd[w].amount
        BY <1>0, <2>1, <3>3, AdjustingAmount
      <4>2. pc'[w] = "post"
        BY <1>0, <2>1, <3>3, AdjustedFact
      <4>3. OnItsWay(w) = cmd[w].amount
        BY <2>1, <3>3 DEF OnItsWay
      <4>4. OnItsWay(w)' = 0
        BY <4>2 DEF OnItsWay, Active
      <4> HIDE DEF d
      <4> QED BY <1>1, <4>1, <4>3, <4>4
    <3> QED BY <1>0, <2>1, <3>1, <3>2, <3>3, AdjustingFact
  <2> HIDE DEF d
  <2> QED BY <1>2, <1>3, <2>2, <2>4, <2>5
<1> QED
  BY <1>6, <1>7, <1>8, <1>9, <1>10, <1>11, <1>12, <1>13, <1>14, <1>15,
     <1>16, <1>17 DEF Step

LEMMA FundsStep ==
  ASSUME NoFundsFlow, IInv, IInv', NEW w \in Worker, Step(w), RegInv(w), ScanInv(w),
         FundsKept
  PROVE  FundsKept'
<1> DEFINE f == [v \in Worker |-> OnItsWay(v)]
           g == [v \in Worker |-> OnItsWay(v)']
<1>1. TypeOK /\ TypeOK'
  BY DEF IInv
<1>2. f \in [Worker -> Int] /\ g \in [Worker -> Int]
  <2>1. ASSUME NEW v \in Worker PROVE OnItsWay(v) \in Int /\ OnItsWay(v)' \in Int
    <3>1. cmd[v].amount \in Int /\ cmd'[v].amount \in Int
      <4>1. cmd[v] \in Command /\ cmd'[v] \in Command
        BY <1>1 DEF TypeOK
      <4> QED BY <4>1 DEF Command
    <3> QED BY <3>1 DEF OnItsWay
  <2> QED BY <2>1
<1>3. ASSUME NEW v \in Worker \ {w} PROVE f[v] = g[v]
  <2>1. SameLocals(v)
    BY <1>1, OthersLocals
  <2> QED BY <2>1 DEF SameLocals, OnItsWay, Active, Adjusting
<1>4. /\ BankFunds' + g[w] = BankFunds + f[w]
      /\ BankFunds \in Int /\ BankFunds' \in Int /\ f[w] \in Int /\ g[w] \in Int
  BY FundsOwn
<1>5. BankFunds + SumFunctionOnSet(f, Worker) = InitialTotal
  BY DEF FundsKept
<1> HIDE DEF f, g
<1>6. SumFunctionOnSet(g, Worker) = SumFunctionOnSet(f, Worker) + g[w] - f[w]
      /\ SumFunctionOnSet(f, Worker) \in Int
  BY <1>2, <1>3, SumChange, SumFact, WorkerAssumption
<1>7. BankFunds' + SumFunctionOnSet(g, Worker) = InitialTotal
  BY <1>4, <1>5, <1>6
<1> QED BY <1>7 DEF FundsKept, InitialTotal, g

(***************************************************************************)
(* With the bank's semaphore held by an enquiry nothing is on its way.     *)
(***************************************************************************)
LEMMA AllArrived ==
  ASSUME NoFundsFlow, IInv, \A v \in Worker : ScanInv(v), FundsKept,
         NEW w \in Worker, BankSem \in held[w], ~Active(w)
  PROVE  BankFunds = InitialTotal
<1> DEFINE f == [v \in Worker |-> OnItsWay(v)]
<1>1. ASSUME NEW v \in Worker PROVE OnItsWay(v) = 0
  <2>1. CASE v = w
    BY <2>1 DEF OnItsWay
  <2>2. CASE v # w /\ Active(v)
    <3>1. TypeOK /\ AdjustInv(v) /\ BankSem \notin held[v]
      BY <2>2 DEF IInv, SemaphoreInv, LocalInv, Active
    <3>2. cmd[v].op # "transfer"
      BY <3>1, NoFlow
    <3> QED BY <3>2 DEF OnItsWay
  <2>3. CASE ~Active(v)
    BY <2>3 DEF OnItsWay
  <2> QED BY <2>1, <2>2, <2>3
<1>2. f \in [Worker -> Int] /\ \A v \in Worker : f[v] = 0
  BY <1>1
<1>3. BankFunds + SumFunctionOnSet(f, Worker) = InitialTotal
  BY DEF FundsKept
<1> HIDE DEF f
<1>4. SumFunctionOnSet(f, Worker) = 0
  BY <1>2, SumZero, WorkerAssumption
<1>5. BankFunds \in Int
  BY FiniteData, SumFact DEF BankFunds, IInv, TypeOK
<1> QED BY <1>3, <1>4, <1>5

LEMMA PrefixSum ==
  ASSUME NEW f \in [Branch -> Int], NEW n \in Branch
  PROVE  /\ SumFunctionOnSet(f, 0 .. 0 - 1) = 0
         /\ SumFunctionOnSet(f, 0 .. n - 1) \in Int
         /\ SumFunctionOnSet(f, 0 .. (n + 1) - 1) = SumFunctionOnSet(f, 0 .. n - 1) + f[n]
         /\ n + 1 = NumBranches => SumFunctionOnSet(f, 0 .. (n + 1) - 1) = SumFunctionOnSet(f, Branch)
<1> DEFINE I == 0 .. (n + 1) - 1
           J == 0 .. n - 1
           E == 0 .. 0 - 1
<1>1. /\ n \in I /\ I \ {n} = J /\ I \in SUBSET Branch /\ J \in SUBSET Branch
      /\ E = {}
      /\ n + 1 = NumBranches => I = Branch
  BY SizeAssumption DEF Branch
<1>2. f[n] \in Int
  OBVIOUS
<1> HIDE DEF I, J, E
<1>3. /\ SumFunctionOnSet(f, E) = 0 /\ SumFunctionOnSet(f, J) \in Int
      /\ SumFunctionOnSet(f, I) = f[n] + SumFunctionOnSet(f, J)
  BY <1>1, FiniteData, SumFact
<1>4. SumFunctionOnSet(f, I) = SumFunctionOnSet(f, J) + f[n]
  BY <1>2, <1>3
<1> QED BY <1>1, <1>3, <1>4 DEF I, J, E

(***************************************************************************)
(* Steps of others, and of the enquiring worker itself.                    *)
(***************************************************************************)
LEMMA ScanOthers ==
  ASSUME NoFundsFlow, IInv, IInv', NEW w \in Worker, Step(w), RegInv(w), ScanInv(w),
         NEW v \in Worker, v # w, ScanInv(v)
  PROVE  ScanInv(v)'
<1>1. TypeOK /\ TypeOK' /\ SameLocals(v) /\ SameRegisters(v)
  BY OthersLocals, OthersRegister DEF IInv
<1>2. CASE BankSem \in held[v]
  <2>1. branchBalance' = branchBalance
    BY <1>2, BranchesStill
  <2> QED BY <1>1, <2>1 DEF SameLocals, SameRegisters, ScanInv, Enquiring, InitialTotal
<1>3. CASE BankSem \notin held[v] /\ Enquiring(v) /\ scan[v] < NumBranches
  <2>1. scan[v] = 0 /\ pc[v] # "return"
    BY <1>3 DEF ScanInv
  <2>2. pc[v] # "post"
    <3>1. pc[v] = "post" => PostInv(v)
      BY DEF IInv, LocalInv
    <3> QED BY <1>3, <3>1 DEF PostInv, Kept, Enquiring
  <2>3. SumFunctionOnSet(branchBalance, 0 .. 0 - 1) = 0
        /\ SumFunctionOnSet(branchBalance', 0 .. 0 - 1) = 0
    <3>1. 0 \in Branch
      BY BranchFact
    <3> QED BY <1>1, <3>1, PrefixSum DEF TypeOK
  <2> QED BY <1>1, <1>3, <2>1, <2>2, <2>3
          DEF SameLocals, SameRegisters, ScanInv, Enquiring, InitialTotal
<1>4. CASE ~(Enquiring(v) /\ scan[v] < NumBranches)
  BY <1>1, <1>4 DEF SameLocals, SameRegisters, ScanInv, Enquiring, InitialTotal
<1> QED BY <1>2, <1>3, <1>4

LEMMA ScanOwn ==
  ASSUME NoFundsFlow, IInv, IInv', NEW w \in Worker, Step(w), FundsKept,
         \A v \in Worker : ScanInv(v)
  PROVE  ScanInv(w)'
<1> USE DEF shared
<1>0. TypeOK /\ LocalInv(w) /\ ScanInv(w) /\ TypeOK'
  BY DEF IInv
<1>1. NumBranches \in Nat \ {0}
  BY SizeAssumption
<1>2. ASSUME NEW c \in Workload, Begin(w, c) PROVE ScanInv(w)'
  <2>1. /\ pc'[w] = "wait" /\ cmd'[w] = c /\ scan'[w] = 0 /\ total'[w] = 0
        /\ branchBalance' = branchBalance
    BY <1>0, <1>2 DEF Begin, TypeOK, LocalInv, ScanInv
  <2>2. SumFunctionOnSet(branchBalance, 0 .. 0 - 1) = 0
    <3>1. 0 \in Branch
      BY BranchFact
    <3> QED BY <1>0, <3>1, PrefixSum DEF TypeOK
  <2> QED BY <1>1, <2>1, <2>2 DEF ScanInv, Enquiring
<1>3. CASE SemWait(w)
  <2>1. /\ pc'[w] = pc[w] /\ pc[w] = "wait" /\ branchBalance' = branchBalance
        /\ held[w] \subseteq held'[w]
        /\ cmd' = cmd /\ scan' = scan /\ total' = total /\ reg' = reg
    BY <1>0, <1>3 DEF SemWait, TypeOK
  <2> QED BY <1>0, <2>1 DEF ScanInv, Enquiring, InitialTotal
<1>4. ASSUME ~Enquiring(w)', pc'[w] # "idle", cmd' = cmd PROVE ScanInv(w)'
  BY <1>0, <1>4 DEF ScanInv
<1>5. CASE SameAccount(w)
  <2>1. cmd[w].op = "transfer" /\ cmd' = cmd /\ pc'[w] = "return"
    BY <1>0, <1>5 DEF SameAccount, IsSelfTransfer, TypeOK
  <2> QED BY <1>4, <2>1 DEF Enquiring
<1>6. CASE CheckFunds(w)
  <2>1. IsTeller(cmd[w]) /\ cmd' = cmd /\ pc'[w] # "idle"
    BY <1>0, <1>6 DEF CheckFunds, TypeOK
  <2> QED BY <1>4, <2>1 DEF Enquiring, IsTeller
<1>7. CASE LoadAccount(w) \/ LoadBranch(w) \/ StoreAccount(w) \/ StoreBranch(w)
  <2>1. AdjustInv(w) /\ cmd' = cmd
    BY <1>0, <1>7 DEF LocalInv, LoadAccount, LoadBranch, StoreAccount, StoreBranch
  <2>2. pc'[w] # "idle"
    BY <1>0, <1>7 DEF LoadAccount, LoadBranch, StoreAccount, StoreBranch, Adjusted, TypeOK
  <2> QED BY <1>4, <2>1, <2>2 DEF Enquiring, IsTeller, AdjustInv
<1>8. CASE ReadBranchBalance(w)
  <2>1. /\ pc[w] = "wait" /\ pc'[w] = "post" /\ cmd' = cmd /\ scan' = scan /\ held' = held
        /\ total' = total /\ branchBalance' = branchBalance
        /\ reg'[w] = branchBalance[ReadBranch(w)]
    BY <1>0, <1>8 DEF ReadBranchBalance, Locked, TypeOK
  <2>2. cmd[w].op = "bankBalance" => scan[w] < NumBranches /\ ReadBranch(w) = scan[w]
    BY <1>8, ReadBranchFact DEF ReadBranchBalance, ReadBranch
  <2> QED BY <1>0, <2>1, <2>2 DEF ScanInv, Enquiring, InitialTotal
<1>9. CASE SemPost(w)
  <2>1. /\ pc[w] = "post" /\ pc'[w] = "post" /\ cmd' = cmd /\ scan' = scan
        /\ total' = total /\ branchBalance' = branchBalance /\ reg' = reg
    BY <1>0, <1>9 DEF SemPost, TypeOK
  <2>2. PostInv(w)'
    BY <2>1 DEF IInv, LocalInv
  <2>3. cmd'[w].op = "bankBalance" /\ scan'[w] < NumBranches => BankSem \in held'[w]
    BY <2>2 DEF PostInv, Kept
  <2> QED BY <1>0, <2>1, <2>3 DEF ScanInv, Enquiring, InitialTotal
<1>10. CASE NextBranch(w)
  <2> DEFINE n == scan[w]
  <2>1. /\ pc[w] = "post" /\ cmd[w].op = "bankBalance" /\ n < NumBranches
        /\ cmd' = cmd /\ scan'[w] = n + 1 /\ total'[w] = total[w] + reg[w]
        /\ branchBalance' = branchBalance /\ held' = held
        /\ n + 1 < NumBranches => pc'[w] = "wait"
        /\ ~(n + 1 < NumBranches) => pc'[w] = "post"
    BY <1>0, <1>10 DEF NextBranch, Posted, TypeOK
  <2>2. /\ total[w] = SumFunctionOnSet(branchBalance, 0 .. n - 1)
        /\ reg[w] = branchBalance[n]
    BY <1>0, <2>1 DEF ScanInv, Enquiring
  <2>3. n \in Branch /\ n + 1 \in 0 .. NumBranches
    BY <1>0, <1>1, <2>1 DEF TypeOK, Branch
  <2>4. total'[w] = SumFunctionOnSet(branchBalance, 0 .. (n + 1) - 1)
    BY <1>0, <2>1, <2>2, <2>3, PrefixSum DEF TypeOK
  <2>5. PostInv(w)
    BY <1>0, <2>1 DEF LocalInv
  <2>6. BankSem \in held[w]
    BY <2>1, <2>5 DEF PostInv, Kept
  <2>7. n + 1 = NumBranches => total'[w] = InitialTotal
    <3>1. BankFunds = InitialTotal
      BY <2>1, <2>6, AllArrived DEF Active
    <3>2. n + 1 = NumBranches => total'[w] = SumFunctionOnSet(branchBalance, Branch)
      BY <1>0, <2>3, <2>4, PrefixSum DEF TypeOK
    <3> QED BY <3>1, <3>2 DEF BankFunds
  <2>8. n + 1 < NumBranches \/ n + 1 = NumBranches
    BY <1>1, <2>3
  <2> HIDE DEF n
  <2> QED BY <1>0, <1>1, <2>1, <2>3, <2>4, <2>6, <2>7, <2>8 DEF ScanInv, Enquiring, InitialTotal
<1>11. CASE Finish(w)
  <2>1. /\ pc[w] = "post" /\ pc'[w] = "return" /\ cmd' = cmd /\ scan' = scan /\ total' = total
        /\ cmd[w].op = "bankBalance" => scan[w] = NumBranches
    BY <1>0, <1>11 DEF Finish, Posted, TypeOK
  <2> QED BY <1>0, <1>1, <2>1 DEF ScanInv, Enquiring, InitialTotal
<1>12. CASE Return(w)
  <2>1. pc'[w] = "idle" /\ cmd'[w] = NoCommand /\ total'[w] = 0
    BY <1>0, <1>12 DEF Return, TypeOK
  <2> QED BY <2>1 DEF ScanInv, Enquiring
<1> QED
  BY <1>2, <1>3, <1>5, <1>6, <1>7, <1>8, <1>9, <1>10, <1>11, <1>12 DEF Step

LEMMA InitFlow == Init /\ NoFundsFlow => FlowInv
<1> SUFFICES ASSUME Init, NoFundsFlow PROVE FlowInv
  OBVIOUS
<1>1. FundsKept
  <2> DEFINE f == [w \in Worker |-> OnItsWay(w)]
  <2>1. \A w \in Worker : OnItsWay(w) = 0
    BY DEF Init, OnItsWay, Active
  <2>2. f \in [Worker -> Int] /\ \A w \in Worker : f[w] = 0
    BY <2>1
  <2>3. BankFunds = InitialTotal
    BY InitialAssumption, AccountsByBranch DEF BankFunds, InitialTotal, Init
  <2>4. InitialTotal \in Int
    BY InitialAssumption, FiniteData, SumFact DEF InitialTotal
  <2> HIDE DEF f
  <2>5. SumFunctionOnSet(f, Worker) = 0
    BY <2>2, SumZero, WorkerAssumption
  <2>6. BankFunds + SumFunctionOnSet(f, Worker) = InitialTotal
    BY <2>3, <2>4, <2>5
  <2> QED BY <2>6 DEF FundsKept, f
<1>2. ASSUME NEW w \in Worker PROVE ScanInv(w)
  BY DEF Init, ScanInv, Enquiring
<1> QED BY <1>1, <1>2 DEF FlowInv

LEMMA NextFlow ==
  NoFundsFlow /\ FlowInv /\ BalanceInv /\ BalanceInv' /\ [Next]_vars => FlowInv'
<1> SUFFICES ASSUME NoFundsFlow, FlowInv, BalanceInv, BalanceInv', [Next]_vars
             PROVE  FlowInv'
  OBVIOUS
<1>1. IInv /\ IInv' /\ \A w \in Worker : RegInv(w)
  BY DEF BalanceInv, AccessInv
<1>2. ASSUME NEW w \in Worker, Step(w) PROVE FlowInv'
  BY <1>1, <1>2, FundsStep, ScanOthers, ScanOwn DEF FlowInv
<1>3. ASSUME UNCHANGED vars PROVE FlowInv'
  BY <1>3 DEF FlowInv, FundsKept, BankFunds, OnItsWay, Active, Adjusting, InitialTotal,
              ScanInv, Enquiring, vars, shared, local
<1>4. Terminating => UNCHANGED vars
  BY DEF Terminating
<1> QED BY <1>2, <1>3, <1>4 DEF Next

(***************************************************************************)
(* When no command moves funds in or out, every Bank_Balance returns the   *)
(* total the bank was created with, whatever transfers run meanwhile.      *)
(***************************************************************************)
THEOREM BankBalanceFixed == Spec => []FixedBankBalance
<1>1. Init => (NoFundsFlow => FlowInv)
  BY InitFlow
<1>2. (NoFundsFlow => FlowInv) /\ BalanceInv /\ BalanceInv' /\ [Next]_vars
        => (NoFundsFlow => FlowInv)'
  BY NextFlow DEF NoFundsFlow
<1>3. (NoFundsFlow => FlowInv) /\ BalanceInv => FixedBankBalance
  <2> SUFFICES ASSUME FlowInv, BalanceInv, NEW w \in Worker, pc[w] = "return",
                      cmd[w].op = "bankBalance"
               PROVE  total[w] = SumFunctionOnSet(InitialBalance, Account)
    BY DEF FixedBankBalance
  <2>1. scan[w] \in 0 .. NumBranches /\ NumBranches \in Nat
    BY SizeAssumption DEF BalanceInv, IInv, TypeOK
  <2>2. scan[w] = NumBranches
    BY <2>1 DEF FlowInv, ScanInv, Enquiring
  <2> QED BY <2>2 DEF FlowInv, ScanInv, Enquiring, InitialTotal
<1> QED BY <1>1, <1>2, <1>3, BalanceInvariance, PTL DEF Spec
-----------------------------------------------------------------------------
(***************************************************************************)
(* The refinement: every step of a worker maps to a step of the bank in    *)
(* which a teller command is one step, or to no step at all.               *)
(***************************************************************************)

(***************************************************************************)
(* What the mapping needs besides the balances: the locals of an idle      *)
(* worker are reset, an enquiry goes on under the bank's semaphore until   *)
(* it has read all branches, and up to its first store a teller sees the   *)
(* funds it has found sufficient.                                          *)
(***************************************************************************)
LoopInv(w) ==
  /\ pc[w] = "idle" => reg[w] = 0 /\ total[w] = 0 /\ cmd[w].op = "bankBalance"
  /\ cmd[w].op # "bankBalance" => scan[w] = 0
  /\ Enquiring(w) /\ scan[w] < NumBranches =>
       pc[w] # "return" /\ (scan[w] = 0 \/ BankSem \in held[w])

CheckedInv(w) ==
  pc[w] \in {"load", "store"} /\ adj[w] = 1 => ~Insufficient(cmd[w], balance[cmd[w].src])

MapInv == BalanceInv /\ \A w \in Worker : LoopInv(w) /\ CheckedInv(w)

LEMMA LoopOthers ==
  ASSUME IInv, NEW w \in Worker, Step(w), NEW v \in Worker, v # w, LoopInv(v), CheckedInv(v)
  PROVE  LoopInv(v)' /\ CheckedInv(v)'
<1>1. TypeOK /\ LocalInv(v) /\ SameLocals(v) /\ SameRegisters(v)
  BY OthersLocals, OthersRegister DEF IInv
<1>2. LoopInv(v)'
  BY <1>1 DEF LoopInv, Enquiring, SameLocals, SameRegisters
<1>3. CASE pc[v] \in {"load", "store"} /\ adj[v] = 1 /\ cmd[v].op \in {"withdraw", "transfer"}
  <2>1. AdjustInv(v) /\ cmd[v] \in Command /\ ~IsSelfTransfer(cmd[v])
    BY <1>1, <1>3 DEF LocalInv, AdjustInv, TypeOK
  <2>2. cmd[v].src \in Account /\ AccountSem(cmd[v].src) \in held[v]
    BY <1>3, <2>1, LockSets DEF AdjustInv, Needed, Command
  <2>3. balance'[cmd[v].src] = balance[cmd[v].src]
    BY <2>2, Protected
  <2> QED BY <1>1, <1>2, <2>3 DEF CheckedInv, SameLocals
<1>4. CASE ~(pc[v] \in {"load", "store"} /\ adj[v] = 1 /\ cmd[v].op \in {"withdraw", "transfer"})
  BY <1>1, <1>2, <1>4 DEF CheckedInv, SameLocals, Insufficient
<1> QED BY <1>3, <1>4

LEMMA LoopOwn ==
  ASSUME IInv, IInv', NEW w \in Worker, Step(w), LoopInv(w), CheckedInv(w)
  PROVE  LoopInv(w)' /\ CheckedInv(w)'
<1> USE DEF shared
<1>0. TypeOK /\ LocalInv(w) /\ TypeOK' /\ LocalInv(w)'
  BY DEF IInv
<1>1. ASSUME ~Active(w)', LoopInv(w)' PROVE LoopInv(w)' /\ CheckedInv(w)'
  BY <1>1 DEF CheckedInv, Active
<1>2. ASSUME cmd' = cmd, scan' = scan, cmd[w].op # "bankBalance", pc'[w] # "idle"
      PROVE  LoopInv(w)'
  BY <1>2 DEF LoopInv, Enquiring
<1>3. ASSUME NEW c \in Workload, Begin(w, c) PROVE LoopInv(w)' /\ CheckedInv(w)'
  <2>1. pc'[w] = "wait" /\ scan'[w] = 0
    BY <1>0, <1>3 DEF Begin, TypeOK, LocalInv
  <2> QED BY <1>1, <2>1 DEF LoopInv, Enquiring, Active
<1>4. CASE SemWait(w)
  <2>1. /\ pc'[w] = pc[w] /\ pc[w] = "wait" /\ held[w] \subseteq held'[w]
        /\ cmd' = cmd /\ scan' = scan
    BY <1>0, <1>4 DEF SemWait, TypeOK
  <2> QED BY <1>1, <2>1 DEF LoopInv, Enquiring, Active
<1>5. CASE SameAccount(w)
  <2>1. cmd[w].op = "transfer" /\ cmd' = cmd /\ scan' = scan /\ pc'[w] = "return"
    BY <1>0, <1>5 DEF SameAccount, IsSelfTransfer, TypeOK
  <2> QED BY <1>1, <1>2, <2>1 DEF Active
<1>6. CASE CheckFunds(w)
  <2>1. cmd[w].op # "bankBalance" /\ cmd' = cmd /\ scan' = scan /\ balance' = balance
        /\ pc'[w] \in {"load", "post"}
    BY <1>0, <1>6 DEF CheckFunds, IsTeller, TypeOK
  <2>2. pc'[w] = "load" => ~Insufficient(cmd[w], balance[cmd[w].src])
    BY <1>0, <1>6 DEF CheckFunds, TypeOK
  <2> QED BY <1>2, <2>1, <2>2 DEF CheckedInv
<1>7. CASE LoadAccount(w)
  <2>1. cmd[w].op # "bankBalance"
    BY <1>0, <1>7 DEF LocalInv, LoadAccount, AdjustInv, IsTeller
  <2>2. /\ pc[w] = "load" /\ pc'[w] = "store"
        /\ UNCHANGED <<cmd, scan, adj, balance>>
    BY <1>0, <1>7 DEF LoadAccount, TypeOK
  <2> QED BY <1>2, <2>1, <2>2 DEF CheckedInv
<1>8. CASE LoadBranch(w)
  <2>1. cmd[w].op # "bankBalance"
    BY <1>0, <1>8 DEF LocalInv, LoadBranch, AdjustInv, IsTeller
  <2>2. pc'[w] = "storeBranch" /\ UNCHANGED <<cmd, scan>>
    BY <1>0, <1>8 DEF LoadBranch, TypeOK
  <2> QED BY <1>2, <2>1, <2>2 DEF CheckedInv
<1>9. CASE StoreAccount(w) \/ StoreBranch(w)
  <2>1. cmd[w].op # "bankBalance" /\ AdjustInv(w) /\ UNCHANGED <<cmd, scan>>
    BY <1>0, <1>9 DEF LocalInv, StoreAccount, StoreBranch, AdjustInv, IsTeller
  <2>2. Adjusted(w) \/ pc'[w] = "loadBranch"
    BY <1>0, <1>9 DEF StoreAccount, StoreBranch, TypeOK
  <2>3. pc'[w] # "idle" /\ (pc'[w] \in {"load", "store"} => adj'[w] # 1)
    BY <1>0, <2>1, <2>2, AdjustedFact
  <2> QED BY <1>2, <2>1, <2>3 DEF CheckedInv
<1>10. CASE ReadBranchBalance(w)
  <2>1. /\ pc[w] = "wait" /\ pc'[w] = "post"
        /\ UNCHANGED <<cmd, scan, held>>
    BY <1>0, <1>10 DEF ReadBranchBalance, Locked, TypeOK
  <2> QED BY <1>1, <2>1 DEF LoopInv, Enquiring, Active
<1>11. CASE SemPost(w)
  <2>1. /\ pc[w] = "post" /\ pc'[w] = "post" /\ UNCHANGED <<cmd, scan>>
    BY <1>0, <1>11 DEF SemPost, TypeOK
  <2>2. cmd'[w].op = "bankBalance" /\ scan'[w] < NumBranches => BankSem \in held'[w]
    BY <1>0, <2>1 DEF LocalInv, PostInv, Kept
  <2> QED BY <1>1, <2>1, <2>2 DEF LoopInv, Enquiring, Active
<1>12. CASE NextBranch(w)
  <2>1. /\ pc[w] = "post" /\ pc'[w] \in {"wait", "post"} /\ UNCHANGED <<cmd, held>>
        /\ cmd[w].op = "bankBalance" /\ scan[w] < NumBranches
    BY <1>0, <1>12 DEF NextBranch, Posted, TypeOK
  <2>2. BankSem \in held[w]
    BY <1>0, <2>1 DEF LocalInv, PostInv, Kept
  <2> QED BY <1>1, <2>1, <2>2 DEF LoopInv, Enquiring, Active
<1>13. CASE Finish(w)
  <2>1. /\ pc[w] = "post" /\ pc'[w] = "return" /\ UNCHANGED <<cmd, scan>>
        /\ cmd[w].op = "bankBalance" => scan[w] = NumBranches
    BY <1>0, <1>13 DEF Finish, Posted, TypeOK
  <2>2. ~(NumBranches < NumBranches)
    BY SizeAssumption
  <2> QED BY <1>1, <2>1, <2>2 DEF LoopInv, Enquiring, Active
<1>14. CASE Return(w)
  <2>1. /\ pc'[w] = "idle" /\ cmd'[w] = NoCommand /\ total'[w] = 0 /\ reg'[w] = 0
        /\ scan'[w] = 0
    BY <1>0, <1>14 DEF Return, TypeOK
  <2> QED BY <1>1, <2>1 DEF LoopInv, Enquiring, Active, NoCommand, BankBalance
<1> QED
  BY <1>3, <1>4, <1>5, <1>6, <1>7, <1>8, <1>9, <1>10, <1>11, <1>12, <1>13, <1>14 DEF Step

LEMMA MapInit == Init => MapInv
<1> SUFFICES ASSUME Init PROVE MapInv
  OBVIOUS
<1>1. \A w \in Worker : LoopInv(w) /\ CheckedInv(w)
  BY DEF Init, LoopInv, CheckedInv, Enquiring, NoCommand, BankBalance
<1> QED BY <1>1, InitBalance DEF MapInv

LEMMA MapNext == MapInv /\ [Next]_vars => MapInv'
<1> SUFFICES ASSUME MapInv, [Next]_vars PROVE MapInv'
  OBVIOUS
<1>1. BalanceInv /\ BalanceInv' /\ IInv /\ IInv'
  BY NextBalance DEF MapInv, BalanceInv
<1>2. ASSUME NEW w \in Worker, Step(w) PROVE MapInv'
  BY <1>1, <1>2, LoopOthers, LoopOwn DEF MapInv
<1>3. ASSUME UNCHANGED vars PROVE MapInv'
  BY <1>1, <1>3 DEF MapInv, LoopInv, CheckedInv, Enquiring, vars, shared, local
<1>4. Terminating => UNCHANGED vars
  BY DEF Terminating
<1> QED BY <1>2, <1>3, <1>4 DEF Next
-----------------------------------------------------------------------------
(***************************************************************************)
(* The accounts of the abstract bank.                                      *)
(***************************************************************************)
Arriving(w, a) == IF OwesDestination(w) /\ cmd[w].dst = a THEN cmd[w].amount ELSE 0

LEMMA OwesFact ==
  ASSUME IInv, NEW w \in Worker
  PROVE  /\ cmd[w] \in Command /\ cmd[w].amount \in Nat
         /\ cmd[w].src \in Account /\ cmd[w].dst \in Account
         /\ \A a : Arriving(w, a) \in Int
         /\ OwesDestination(w) =>
              /\ Active(w) /\ AdjustInv(w) /\ cmd[w].op = "transfer"
              /\ BankSem \in held[w] /\ AccountSem(cmd[w].dst) \in held[w]
<1>1. TypeOK /\ LocalInv(w)
  BY DEF IInv
<1>2. cmd[w] \in Command
  BY <1>1 DEF TypeOK
<1>3. cmd[w].amount \in Nat /\ cmd[w].src \in Account /\ cmd[w].dst \in Account
  BY <1>2 DEF Command
<1>4. \A a : Arriving(w, a) \in Int
  BY <1>3 DEF Arriving
<1>5. ASSUME OwesDestination(w)
      PROVE  /\ Active(w) /\ AdjustInv(w) /\ cmd[w].op = "transfer"
             /\ BankSem \in held[w] /\ AccountSem(cmd[w].dst) \in held[w]
  <2>1. Active(w) /\ AdjustInv(w) /\ cmd[w].op = "transfer"
    BY <1>1, <1>5 DEF OwesDestination, Active, LocalInv
  <2> QED BY <1>2, <2>1, LockSets DEF AdjustInv, Needed
<1> QED BY <1>2, <1>3, <1>4, <1>5

LEMMA OwesAfter ==
  (IInv => \A w \in Worker : cmd[w] \in Command /\ \A a : Arriving(w, a) \in Int)'
<1>1. IInv => \A w \in Worker : cmd[w] \in Command /\ \A a : Arriving(w, a) \in Int
  BY OwesFact
<1> QED BY <1>1, PTL

LEMMA AccountsValue ==
  ASSUME IInv
  PROVE  /\ accounts \in [Account -> Int]
         /\ \A a \in Account :
              accounts[a] = balance[a]
                + SumFunctionOnSet([w \in Worker |-> Arriving(w, a)], Worker)
<1>1. ASSUME NEW a \in Account
      PROVE  SumFunctionOnSet([w \in Worker |-> Arriving(w, a)], Worker) \in Int
  <2> DEFINE f == [w \in Worker |-> Arriving(w, a)]
  <2>1. f \in [Worker -> Int]
    BY OwesFact
  <2> HIDE DEF f
  <2>2. SumFunctionOnSet(f, Worker) \in Int
    BY <2>1, SumFact, WorkerAssumption
  <2> QED BY <2>2 DEF f
<1>2. accounts = [a \in Account |->
         balance[a] + SumFunctionOnSet([w \in Worker |-> Arriving(w, a)], Worker)]
  BY DEF accounts, Arriving
<1>3. balance \in [Account -> Int]
  BY DEF IInv, TypeOK
<1>4. \A a \in Account :
        balance[a] + SumFunctionOnSet([w \in Worker |-> Arriving(w, a)], Worker) \in Int
  BY <1>1, <1>3
<1> QED BY <1>2, <1>4

LEMMA AccountsAfter ==
  (IInv => /\ accounts \in [Account -> Int]
           /\ \A a \in Account :
                accounts[a] = balance[a]
                  + SumFunctionOnSet([w \in Worker |-> Arriving(w, a)], Worker))'
<1>1. IInv => /\ accounts \in [Account -> Int]
              /\ \A a \in Account :
                   accounts[a] = balance[a]
                     + SumFunctionOnSet([w \in Worker |-> Arriving(w, a)], Worker)
  BY AccountsValue
<1> QED BY <1>1, PTL

(***************************************************************************)
(* Only the worker that takes a step changes what is still to arrive.      *)
(***************************************************************************)
LEMMA AccountsStep ==
  ASSUME IInv, IInv', NEW w \in Worker, Step(w), NEW a \in Account
  PROVE  accounts'[a] = accounts[a] + (balance'[a] - balance[a])
                          + (Arriving(w, a)' - Arriving(w, a))
<1> DEFINE f == [v \in Worker |-> Arriving(v, a)]
           g == [v \in Worker |-> Arriving(v, a)']
<1>1. f \in [Worker -> Int] /\ g \in [Worker -> Int]
  BY OwesFact, OwesAfter
<1>2. ASSUME NEW v \in Worker \ {w} PROVE f[v] = g[v]
  <2>1. SameLocals(v)
    BY OthersLocals DEF IInv
  <2> QED BY <2>1 DEF SameLocals, Arriving, OwesDestination
<1>3. accounts[a] = balance[a] + SumFunctionOnSet(f, Worker)
  BY AccountsValue
<1>4. accounts'[a] = balance'[a] + SumFunctionOnSet(g, Worker)
  BY AccountsAfter
<1>5. f[w] = Arriving(w, a) /\ g[w] = Arriving(w, a)' /\ f[w] \in Int /\ g[w] \in Int
  BY <1>1
<1>6. balance[a] \in Int /\ balance'[a] \in Int
  BY DEF IInv, TypeOK
<1> HIDE DEF f, g
<1>7. SumFunctionOnSet(g, Worker) = SumFunctionOnSet(f, Worker) + g[w] - f[w]
      /\ SumFunctionOnSet(f, Worker) \in Int
  BY <1>1, <1>2, SumChange, SumFact, WorkerAssumption
<1> QED BY <1>3, <1>4, <1>5, <1>6, <1>7

LEMMA AccountsQuiet ==
  ASSUME IInv, IInv', NEW w \in Worker, Step(w),
         \A a \in Account : balance'[a] + Arriving(w, a)' = balance[a] + Arriving(w, a)
  PROVE  accounts' = accounts
<1>1. accounts \in [Account -> Int] /\ accounts' \in [Account -> Int]
  BY AccountsValue, AccountsAfter
<1>2. ASSUME NEW a \in Account PROVE accounts'[a] = accounts[a]
  <2>1. /\ accounts[a] \in Int /\ balance[a] \in Int /\ balance'[a] \in Int
        /\ Arriving(w, a) \in Int /\ Arriving(w, a)' \in Int
    BY <1>1, OwesFact, OwesAfter DEF IInv, TypeOK
  <2>2. balance'[a] + Arriving(w, a)' = balance[a] + Arriving(w, a)
    OBVIOUS
  <2> QED BY <2>1, <2>2, AccountsStep
<1> QED BY <1>1, <1>2

LEMMA AccountsSame ==
  ASSUME IInv, IInv', NEW w \in Worker, Step(w), balance' = balance, cmd'[w] = cmd[w],
         OwesDestination(w)' <=> OwesDestination(w)
  PROVE  accounts' = accounts
<1>1. \A a \in Account : balance'[a] + Arriving(w, a)' = balance[a] + Arriving(w, a)
  BY DEF Arriving
<1> QED BY <1>1, AccountsQuiet

(***************************************************************************)
(* Nothing is on its way to an account whose semaphore another worker      *)
(* holds.                                                                  *)
(***************************************************************************)
LEMMA AccountSettled ==
  ASSUME IInv, NEW w \in Worker, NEW a \in Account, AccountSem(a) \in held[w],
         ~OwesDestination(w)
  PROVE  accounts[a] = balance[a]
<1> DEFINE f == [v \in Worker |-> Arriving(v, a)]
<1>1. ASSUME NEW v \in Worker PROVE f[v] = 0
  <2>1. CASE v = w
    BY <2>1 DEF Arriving
  <2>2. CASE v # w
    <3>1. AccountSem(a) \notin held[v]
      BY <2>2 DEF IInv, SemaphoreInv
    <3> QED BY <3>1, OwesFact DEF Arriving
  <2> QED BY <2>1, <2>2
<1>2. f \in [Worker -> Int]
  BY OwesFact
<1>3. accounts[a] = balance[a] + SumFunctionOnSet(f, Worker) /\ balance[a] \in Int
  BY AccountsValue DEF IInv, TypeOK
<1> HIDE DEF f
<1>4. SumFunctionOnSet(f, Worker) = 0
  BY <1>1, <1>2, SumZero, WorkerAssumption
<1> QED BY <1>3, <1>4

(***************************************************************************)
(* With a branch's semaphore held by a reader, the workers owe its         *)
(* accounts what transfers within it have still to store.                  *)
(***************************************************************************)
OwedHere(w, b) == IF OwesDestination(w) /\ BranchOf(cmd[w].dst) = b THEN cmd[w].amount ELSE 0

LEMMA OwedInBranch ==
  ASSUME IInv, NEW b \in Branch, NEW r \in Worker, BranchSem(b) \in held[r], ~Active(r),
         NEW w \in Worker
  PROVE  Owed(w, b) = OwedHere(w, b)
<1>1. TypeOK /\ LocalInv(w) /\ OwedSplit(w, b)
  BY OwedFact DEF IInv
<1>2. CASE ~Active(w)
  BY <1>1, <1>2, OwesFact DEF OwedSplit, OwedHere
<1>3. CASE Active(w)
  <2> DEFINE adjs == Adjustments(cmd[w])
             n == Len(adjs)
             k == adj[w]
  <2>1. AdjustInv(w) /\ w # r
    BY <1>1, <1>3 DEF LocalInv, Active
  <2>2. BranchSem(b) \notin held[w] /\ held[w] = LockSet(cmd[w])
    BY <1>1, <2>1, AdjustingFact DEF IInv, SemaphoreInv
  <2>3. /\ cmd[w] \in Command /\ IsTeller(cmd[w]) /\ ~IsSelfTransfer(cmd[w])
        /\ cmd[w].amount \in Nat /\ n \in {1, 2} /\ k \in {1, 2} /\ k <= n
    BY <1>1, <2>1, OwesFact, AdjustingFact DEF AdjustInv
  <2>4. \A i \in 1 .. n : /\ adjs[i].amount \in Int
                          /\ adjs[i].updateBranch => BranchOf(adjs[i].account) # b
    <3>1. \A i \in 1 .. n : adjs[i].updateBranch =>
             BranchSem(BranchOf(adjs[i].account)) \in LockSet(cmd[w])
      BY <2>3, AdjustmentsFact
    <3> QED BY <2>2, <2>3, <3>1, AdjustmentsFact
  <2>5. cmd[w].op = "transfer" => /\ n = 2 /\ adjs[2].account = cmd[w].dst
                                  /\ adjs[2].amount = cmd[w].amount
    BY <2>3, AdjustmentValues
  <2>6. Owed(w, b) = Part(w, k, b) + (IF k < n THEN Part(w, 2, b) ELSE 0)
    BY <1>1, <1>3 DEF OwedSplit
  <2>7. /\ \A i \in 1 .. n : adjs[i].updateBranch
        \/ /\ n = 2 /\ ~adjs[1].updateBranch /\ ~adjs[2].updateBranch
           /\ adjs[2].amount = -adjs[1].amount
           /\ BranchOf(adjs[2].account) = BranchOf(adjs[1].account)
    BY <2>3, AdjustmentsBalance
  <2>8. \A i \in 1 .. n : BranchOf(adjs[i].account) # b => Part(w, i, b) = 0
    BY DEF Part
  <2>9. OwesDestination(w) => cmd[w].op = "transfer"
    BY DEF OwesDestination
  <2>10. CASE \A i \in 1 .. n : BranchOf(adjs[i].account) # b
    <3> HIDE DEF n, k, adjs
    <3>1. k \in 1 .. n /\ (k < n => 2 \in 1 .. n)
      BY <2>3
    <3>2. Owed(w, b) = 0
      BY <2>6, <2>8, <2>10, <3>1
    <3>3. OwedHere(w, b) = 0
      <4>1. n = 2 => 2 \in 1 .. n
        OBVIOUS
      <4> QED BY <2>5, <2>9, <2>10, <4>1 DEF OwedHere
    <3> QED BY <3>2, <3>3
  <2>11. CASE \E i \in 1 .. n : BranchOf(adjs[i].account) = b
    <3>1. /\ n = 2 /\ ~adjs[1].updateBranch /\ ~adjs[2].updateBranch
          /\ adjs[2].amount = -adjs[1].amount
          /\ BranchOf(adjs[2].account) = BranchOf(adjs[1].account)
      BY <2>4, <2>7, <2>11
    <3>2. BranchOf(adjs[1].account) = b /\ BranchOf(adjs[2].account) = b
      <4> HIDE DEF n, adjs
      <4>1. PICK i \in 1 .. n : BranchOf(adjs[i].account) = b
        BY <2>11
      <4>2. i = 1 \/ i = 2
        BY <3>1, <4>1
      <4> QED BY <3>1, <4>1, <4>2
    <3>3. pc[w] \in {"load", "store"}
      <4>1. Adjusting(w) = adjs[k] /\ (k = 1 \/ k = 2)
        BY <2>3 DEF Adjusting
      <4>2. ~Adjusting(w).updateBranch
        BY <3>1, <4>1
      <4> QED BY <1>3, <2>1, <4>2 DEF AdjustInv, Active
    <3>4. /\ Part(w, 2, b) = adjs[2].amount - 0
          /\ k = 1 => Part(w, 1, b) = adjs[1].amount - 0
      BY <3>1, <3>2, <3>3 DEF Part, AdjustmentOwes
    <3>5. cmd[w].op = "transfer"
      <4>1. cmd[w].op \in {"deposit", "withdraw"} => n = 1
        <5> DEFINE d == Adjustment(cmd[w].src, cmd[w].amount, TRUE)
                   e == Adjustment(cmd[w].src, -cmd[w].amount, TRUE)
        <5>1. cmd[w].op \in {"deposit", "withdraw"} => adjs = << d >> \/ adjs = << e >>
          BY <2>3, AdjustmentValues
        <5> HIDE DEF d, e, adjs
        <5>2. Len(<< d >>) = 1 /\ Len(<< e >>) = 1
          OBVIOUS
        <5> QED BY <5>1, <5>2
      <4> QED BY <2>3, <3>1, <4>1 DEF IsTeller
    <3>6. adjs[1].amount \in Int /\ adjs[2].amount \in Int
      <4> HIDE DEF n, adjs
      <4>1. 1 \in 1 .. n /\ 2 \in 1 .. n
        BY <3>1
      <4> QED BY <2>4, <4>1
    <3>7. OwedHere(w, b) = IF k = 2 THEN adjs[2].amount ELSE 0
      BY <2>5, <3>2, <3>3, <3>5 DEF OwedHere, OwesDestination
    <3>8. k = 1 \/ k = 2
      BY <2>3
    <3> HIDE DEF n, k, adjs
    <3>9. CASE k = 1
      BY <2>6, <3>1, <3>4, <3>6, <3>7, <3>9
    <3>10. CASE k = 2
      BY <2>6, <3>1, <3>4, <3>6, <3>7, <3>10
    <3> QED BY <3>8, <3>9, <3>10
  <2> QED BY <2>10, <2>11
<1> QED BY <1>2, <1>3

(***************************************************************************)
(* At most one transfer is under way, so what is still to arrive changes   *)
(* at most one account: the balance a reader finds is the sum of the       *)
(* abstract accounts of its branch.                                        *)
(***************************************************************************)
LEMMA ReadSum ==
  ASSUME MapInv, NEW b \in Branch, NEW r \in Worker, BranchSem(b) \in held[r], ~Active(r)
  PROVE  branchBalance[b] = BranchSum(accounts, b)
<1> DEFINE f == [w \in Worker |-> Owed(w, b)]
<1>0. IInv /\ BranchConsistent
  BY DEF MapInv, BalanceInv
<1>1. branchBalance[b] = BranchSum(balance, b) + SumFunctionOnSet(f, Worker)
  BY <1>0 DEF BranchConsistent
<1>2. \A w \in Worker : f[w] = OwedHere(w, b)
  BY <1>0, OwedInBranch
<1>3. f \in [Worker -> Int]
  <2>1. \A w \in Worker : Owed(w, b) \in Int
    BY <1>0, OwedFact DEF OwedSplit
  <2> QED BY <2>1
<1>4. /\ balance \in [Account -> Int] /\ accounts \in [Account -> Int]
      /\ BranchSum(balance, b) \in Int
  <2>1. balance \in [Account -> Int]
    BY <1>0 DEF IInv, TypeOK
  <2> QED BY <1>0, <2>1, AccountsValue, BranchSumType
<1> HIDE DEF f
<1>5. CASE \A w \in Worker : ~OwesDestination(w)
  <2>1. SumFunctionOnSet(f, Worker) = 0
    BY <1>2, <1>3, <1>5, SumZero, WorkerAssumption DEF OwedHere
  <2>2. ASSUME NEW a \in Account PROVE accounts[a] = balance[a]
    <3> DEFINE g == [w \in Worker |-> Arriving(w, a)]
    <3>1. g \in [Worker -> Int] /\ \A w \in Worker : g[w] = 0
      BY <1>5 DEF Arriving
    <3>2. accounts[a] = balance[a] + SumFunctionOnSet(g, Worker) /\ balance[a] \in Int
      BY <1>0, <1>4, AccountsValue
    <3> HIDE DEF g
    <3>3. SumFunctionOnSet(g, Worker) = 0
      BY <3>1, SumZero, WorkerAssumption
    <3> QED BY <3>2, <3>3
  <2>3. accounts = balance
    BY <1>4, <2>2
  <2> QED BY <1>1, <1>4, <2>1, <2>3
<1>6. CASE \E w \in Worker : OwesDestination(w)
  <2>1. PICK u \in Worker : OwesDestination(u)
    BY <1>6
  <2> DEFINE d == cmd[u].dst
             m == cmd[u].amount
  <2>2. d \in Account /\ m \in Int
    BY <1>0, OwesFact
  <2>3. ASSUME NEW v \in Worker \ {u} PROVE ~OwesDestination(v)
    <3>1. held[v] \cap held[u] = {}
      BY <1>0 DEF IInv, SemaphoreInv
    <3> QED BY <1>0, <2>1, <3>1, OwesFact
  <2>4. SumFunctionOnSet(f, Worker) = OwedHere(u, b)
    BY <1>2, <1>3, <2>3, SumSingle, WorkerAssumption DEF OwedHere
  <2>5. ASSUME NEW a \in Account PROVE accounts[a] = balance[a] + (IF a = d THEN m ELSE 0)
    <3> DEFINE g == [w \in Worker |-> Arriving(w, a)]
    <3>1. g \in [Worker -> Int]
      BY <1>0, OwesFact
    <3>2. accounts[a] = balance[a] + SumFunctionOnSet(g, Worker) /\ balance[a] \in Int
      BY <1>0, <1>4, AccountsValue
    <3>3. \A v \in Worker \ {u} : g[v] = 0
      BY <2>3 DEF Arriving
    <3>4. g[u] = IF a = d THEN m ELSE 0
      BY <2>1 DEF Arriving
    <3> HIDE DEF g
    <3>5. SumFunctionOnSet(g, Worker) = g[u]
      BY <3>1, <3>3, SumSingle, WorkerAssumption
    <3> QED BY <3>2, <3>4, <3>5
  <2> HIDE DEF d, m
  <2>6. accounts[d] - balance[d] = m
    BY <1>4, <2>2, <2>5
  <2>7. \A a \in Account \ {d} : accounts[a] = balance[a]
    BY <1>4, <2>5
  <2>8. BranchSum(accounts, b) = BranchSum(balance, b) + (IF BranchOf(d) = b THEN m ELSE 0)
    BY <1>4, <2>2, <2>6, <2>7, BranchSumChange
  <2>9. OwedHere(u, b) = IF BranchOf(d) = b THEN m ELSE 0
    BY <2>1 DEF OwedHere, d, m
  <2> QED BY <1>1, <2>4, <2>8, <2>9
<1> QED BY <1>5, <1>6

(***************************************************************************)
(* A step of the abstract bank by w leaves the others' places as they are. *)
(***************************************************************************)
OthersMapped(w) ==
  \A v \in Worker \ {w} :
    /\ phase'[v] = phase[v] /\ scanned'[v] = scanned[v] /\ value'[v] = value[v]
    /\ err'[v] = err[v] /\ cmdCount'[v] = cmdCount[v] /\ cmd'[v] = cmd[v]

LEMMA MapOthers ==
  ASSUME IInv, NEW w \in Worker, Step(w)
  PROVE  OthersMapped(w)
<1> SUFFICES ASSUME NEW v \in Worker \ {w}
             PROVE  /\ phase'[v] = phase[v] /\ scanned'[v] = scanned[v]
                    /\ value'[v] = value[v]
                    /\ err'[v] = err[v] /\ cmdCount'[v] = cmdCount[v] /\ cmd'[v] = cmd[v]
  BY DEF OthersMapped
<1>1. SameLocals(v) /\ SameRegisters(v)
  BY OthersLocals, OthersRegister DEF IInv
<1>2. (ReadNotAdded(v)' <=> ReadNotAdded(v))
  BY <1>1 DEF ReadNotAdded, SameLocals
<1>3. scanned'[v] = scanned[v]
  BY <1>1, <1>2 DEF scanned, SameLocals
<1>4. Committed(v)' <=> Committed(v)
  BY <1>1, <1>3 DEF Committed, SameLocals
<1> QED BY <1>1, <1>2, <1>3, <1>4 DEF phase, value, SameLocals, SameRegisters

LEMMA UpdateOne ==
  ASSUME NEW f, NEW g, NEW w \in Worker, f = [v \in Worker |-> f[v]],
         g = [v \in Worker |-> g[v]], \A v \in Worker \ {w} : g[v] = f[v]
  PROVE  g = [f EXCEPT ![w] = g[w]] /\ (g[w] = f[w] => g = f)
<1>1. g[w] = f[w] => g = f
  <2> SUFFICES ASSUME g[w] = f[w] PROVE g = f
    OBVIOUS
  <2>1. \A v \in Worker : g[v] = f[v]
    OBVIOUS
  <2> QED BY <2>1
<1> DEFINE h == [f EXCEPT ![w] = g[w]]
<1>2. h = [v \in Worker |-> h[v]] /\ \A v \in Worker : h[v] = g[v]
  OBVIOUS
<1>3. h = g
  <2> HIDE DEF h
  <2> QED BY <1>2
<1> QED BY <1>1, <1>3

(***************************************************************************)
(* The abstract variables after a step, and when they stay as they are.    *)
(***************************************************************************)
LEMMA MapUpdate ==
  ASSUME IInv, IInv', NEW w \in Worker, Step(w)
  PROVE  /\ phase' = [phase EXCEPT ![w] = phase'[w]]
         /\ phase'[w] = phase[w] => phase' = phase
         /\ scanned' = [scanned EXCEPT ![w] = scanned'[w]]
         /\ scanned'[w] = scanned[w] => scanned' = scanned
         /\ value' = [value EXCEPT ![w] = value'[w]]
         /\ value'[w] = value[w] => value' = value
         /\ err' = [err EXCEPT ![w] = err'[w]]
         /\ err'[w] = err[w] => err' = err
         /\ cmdCount' = [cmdCount EXCEPT ![w] = cmdCount'[w]]
         /\ cmdCount'[w] = cmdCount[w] => cmdCount' = cmdCount
         /\ cmd' = [cmd EXCEPT ![w] = cmd'[w]]
         /\ cmd'[w] = cmd[w] => cmd' = cmd
<1>1. OthersMapped(w)
  BY MapOthers
<1>2. /\ phase = [v \in Worker |-> phase[v]] /\ phase' = [v \in Worker |-> phase'[v]]
      /\ scanned = [v \in Worker |-> scanned[v]] /\ scanned' = [v \in Worker |-> scanned'[v]]
      /\ value = [v \in Worker |-> value[v]] /\ value' = [v \in Worker |-> value'[v]]
  BY DEF phase, scanned, value
<1>3. /\ err = [v \in Worker |-> err[v]] /\ err' = [v \in Worker |-> err'[v]]
      /\ cmdCount = [v \in Worker |-> cmdCount[v]] /\ cmdCount' = [v \in Worker |-> cmdCount'[v]]
      /\ cmd = [v \in Worker |-> cmd[v]] /\ cmd' = [v \in Worker |-> cmd'[v]]
  BY DEF IInv, TypeOK
<1>4. /\ \A v \in Worker \ {w} : phase'[v] = phase[v]
      /\ \A v \in Worker \ {w} : scanned'[v] = scanned[v]
      /\ \A v \in Worker \ {w} : value'[v] = value[v]
      /\ \A v \in Worker \ {w} : err'[v] = err[v]
      /\ \A v \in Worker \ {w} : cmdCount'[v] = cmdCount[v]
      /\ \A v \in Worker \ {w} : cmd'[v] = cmd[v]
  BY <1>1 DEF OthersMapped
<1>5. phase' = [phase EXCEPT ![w] = phase'[w]] /\ (phase'[w] = phase[w] => phase' = phase)
  BY <1>2, <1>4, UpdateOne
<1>6. scanned' = [scanned EXCEPT ![w] = scanned'[w]]
      /\ (scanned'[w] = scanned[w] => scanned' = scanned)
  BY <1>2, <1>4, UpdateOne
<1>7. value' = [value EXCEPT ![w] = value'[w]] /\ (value'[w] = value[w] => value' = value)
  BY <1>2, <1>4, UpdateOne
<1>8. err' = [err EXCEPT ![w] = err'[w]] /\ (err'[w] = err[w] => err' = err)
  BY <1>3, <1>4, UpdateOne
<1>9. cmdCount' = [cmdCount EXCEPT ![w] = cmdCount'[w]]
      /\ (cmdCount'[w] = cmdCount[w] => cmdCount' = cmdCount)
  BY <1>3, <1>4, UpdateOne
<1>10. cmd' = [cmd EXCEPT ![w] = cmd'[w]] /\ (cmd'[w] = cmd[w] => cmd' = cmd)
  BY <1>3, <1>4, UpdateOne
<1> QED BY <1>5, <1>6, <1>7, <1>8, <1>9, <1>10

LEMMA MapStutter ==
  ASSUME IInv, IInv', NEW w \in Worker, Step(w), accounts' = accounts,
         phase'[w] = phase[w], scanned'[w] = scanned[w], value'[w] = value[w],
         err'[w] = err[w], cmdCount'[w] = cmdCount[w], cmd'[w] = cmd[w]
  PROVE  UNCHANGED Atomic!vars
BY MapUpdate DEF Atomic!vars

(***************************************************************************)
(* The data of the two banks is the same.                                  *)
(***************************************************************************)
LEMMA SameData ==
  /\ \A bal, c : Atomic!Applied(bal, c) = Applied(bal, c)
  /\ \A c, n : Atomic!Insufficient(c, n) <=> Insufficient(c, n)
  /\ \A c : (Atomic!IsTeller(c) <=> IsTeller(c)) /\ (Atomic!IsSelfTransfer(c) <=> IsSelfTransfer(c))
  /\ \A bal, b : Atomic!BranchSum(bal, b) = BranchSum(bal, b)
  /\ \A a : Atomic!BranchOf(a) = BranchOf(a)
  /\ Atomic!BankBalance = BankBalance
<1>1. ASSUME NEW bal, NEW c PROVE Atomic!Applied(bal, c) = Applied(bal, c)
  <2>1. Atomic!Account = Account
    BY DEF Atomic!Account, Account, Atomic!Branch, Branch, Atomic!SubAccount, SubAccount
  <2>2. Atomic!Adjustments(c) = Adjustments(c)
    BY DEF Atomic!Adjustments, Adjustments, Atomic!Adjustment, Adjustment,
           Atomic!IsSameBranch, IsSameBranch, Atomic!BranchOf, BranchOf
  <2>3. ASSUME NEW f, NEW S PROVE Atomic!SumFunctionOnSet(f, S) = SumFunctionOnSet(f, S)
    BY DEF Atomic!SumFunctionOnSet, SumFunctionOnSet, Atomic!FoldFunctionOnSet, FoldFunctionOnSet, MapThenFoldSet, Atomic!MapThenFoldSet
  <2> QED BY <2>1, <2>2, <2>3 DEF Atomic!Applied, Applied
<1>2. \A c, n : Atomic!Insufficient(c, n) <=> Insufficient(c, n)
  BY DEF Atomic!Insufficient, Insufficient
<1>3. \A c : (Atomic!IsTeller(c) <=> IsTeller(c)) /\ (Atomic!IsSelfTransfer(c) <=> IsSelfTransfer(c))
  BY DEF Atomic!IsTeller, IsTeller, Atomic!IsSelfTransfer, IsSelfTransfer
<1>4. \A bal, b : Atomic!BranchSum(bal, b) = BranchSum(bal, b)
  BY DEF Atomic!BranchSum, BranchSum, Atomic!RunningSum, RunningSum
<1>5. \A a : Atomic!BranchOf(a) = BranchOf(a)
  BY DEF Atomic!BranchOf, BranchOf
<1>6. Atomic!BankBalance = BankBalance
  BY DEF Atomic!BankBalance, BankBalance
<1> QED BY <1>1, <1>2, <1>3, <1>4, <1>5, <1>6

Refines == [Atomic!Next]_(Atomic!vars)

(***************************************************************************)
(* Steps that the abstract bank does not see: a worker waits, loads, posts *)
(* or stores what it already owed.                                         *)
(***************************************************************************)
LEMMA Unseen ==
  ASSUME IInv, IInv', NEW w \in Worker, Step(w), accounts' = accounts,
         UNCHANGED <<cmd, cmdCount, err>>, pc[w] # "idle", pc'[w] # "idle",
         Committed(w)' <=> Committed(w), scanned'[w] = scanned[w], value'[w] = value[w]
  PROVE  Refines
<1>1. phase'[w] = phase[w]
  BY DEF phase
<1> QED BY <1>1, MapStutter DEF Refines

LEMMA TellerUnseen ==
  ASSUME MapInv, MapInv', NEW w \in Worker, Step(w), accounts' = accounts,
         UNCHANGED <<cmd, cmdCount, err, scan, total>>, pc[w] # "idle", pc'[w] # "idle",
         IsTeller(cmd[w]), Committed(w)' <=> Committed(w)
  PROVE  Refines
<1>1. IInv /\ IInv' /\ cmd[w].op # "bankBalance" /\ cmd[w].op # "branchBalance"
  BY DEF MapInv, BalanceInv, IsTeller
<1>2. scanned'[w] = scanned[w] /\ value'[w] = value[w]
  BY <1>1 DEF scanned, value, ReadNotAdded
<1> QED BY <1>1, <1>2, Unseen

LEMMA SemWaitRefines ==
  ASSUME MapInv, MapInv', NEW w \in Worker, SemWait(w)
  PROVE  Refines
<1>1. IInv /\ IInv' /\ Step(w) /\ pc[w] = "wait"
  BY DEF MapInv, BalanceInv, Step, SemWait
<1>2. UNCHANGED <<balance, cmdCount, pc, cmd, adj, reg, scan, total, err>>
  BY DEF SemWait
<1>3. accounts' = accounts
  BY <1>1, <1>2, AccountsSame DEF OwesDestination
<1>4. scanned'[w] = scanned[w] /\ value'[w] = value[w]
  BY <1>2 DEF scanned, value, ReadNotAdded
<1>5. Committed(w)' <=> Committed(w)
  BY <1>2, <1>4 DEF Committed
<1> QED BY <1>1, <1>2, <1>3, <1>4, <1>5, Unseen

LEMMA SemPostRefines ==
  ASSUME MapInv, MapInv', NEW w \in Worker, SemPost(w)
  PROVE  Refines
<1>1. IInv /\ IInv' /\ Step(w) /\ pc[w] = "post"
  BY DEF MapInv, BalanceInv, Step, SemPost
<1>2. UNCHANGED <<balance, cmdCount, pc, cmd, adj, reg, scan, total, err>>
  BY DEF SemPost
<1>3. accounts' = accounts
  BY <1>1, <1>2, AccountsSame DEF OwesDestination
<1>4. scanned'[w] = scanned[w] /\ value'[w] = value[w]
  BY <1>2 DEF scanned, value, ReadNotAdded
<1>5. Committed(w)' <=> Committed(w)
  BY <1>2, <1>4 DEF Committed
<1> QED BY <1>1, <1>2, <1>3, <1>4, <1>5, Unseen

LEMMA LoadRefines ==
  ASSUME MapInv, MapInv', NEW w \in Worker, LoadAccount(w) \/ LoadBranch(w)
  PROVE  Refines
<1> USE DEF shared
<1>1. IInv /\ IInv' /\ Step(w) /\ TypeOK /\ LocalInv(w)
  BY DEF MapInv, BalanceInv, Step, IInv
<1>2. IsTeller(cmd[w])
  BY <1>1 DEF LocalInv, AdjustInv, LoadAccount, LoadBranch
<1>3. /\ UNCHANGED <<balance, cmdCount, cmd, adj, scan, total, err>>
      /\ \/ pc[w] = "load" /\ pc'[w] = "store"
         \/ pc[w] = "loadBranch" /\ pc'[w] = "storeBranch"
  BY <1>1 DEF LoadAccount, LoadBranch, TypeOK
<1>4. accounts' = accounts
  BY <1>1, <1>3, AccountsSame DEF OwesDestination
<1>5. Committed(w)' <=> Committed(w)
  BY <1>2, <1>3 DEF Committed, IsTeller
<1> QED BY <1>1, <1>2, <1>3, <1>4, <1>5, TellerUnseen

LEMMA FinishRefines ==
  ASSUME MapInv, MapInv', NEW w \in Worker, Finish(w)
  PROVE  Refines
<1> USE DEF shared
<1>1. IInv /\ IInv' /\ Step(w) /\ TypeOK
  BY DEF MapInv, BalanceInv, Step, IInv
<1>2. /\ UNCHANGED <<balance, cmdCount, cmd, adj, reg, scan, total, err>>
      /\ pc[w] = "post" /\ pc'[w] = "return"
      /\ cmd[w].op = "bankBalance" => scan[w] = NumBranches
  BY <1>1 DEF Finish, Posted, TypeOK
<1>3. accounts' = accounts
  BY <1>1, <1>2, AccountsSame DEF OwesDestination
<1>4. ~ReadNotAdded(w) /\ ~ReadNotAdded(w)'
  <2>1. ~(NumBranches < NumBranches)
    BY SizeAssumption
  <2> QED BY <1>2, <2>1 DEF ReadNotAdded
<1>5. scanned'[w] = scanned[w] /\ value'[w] = value[w]
  BY <1>2, <1>4 DEF scanned, value
<1>6. Committed(w)' <=> Committed(w)
  BY <1>2, <1>5 DEF Committed
<1> QED BY <1>1, <1>2, <1>3, <1>5, <1>6, Unseen

LEMMA NextBranchRefines ==
  ASSUME MapInv, MapInv', NEW w \in Worker, NextBranch(w)
  PROVE  Refines
<1> USE DEF shared
<1>1. IInv /\ IInv' /\ Step(w) /\ TypeOK
  BY DEF MapInv, BalanceInv, Step, IInv
<1>2. /\ UNCHANGED <<balance, cmdCount, cmd, adj, reg, err>>
      /\ pc[w] = "post" /\ cmd[w].op = "bankBalance" /\ scan[w] < NumBranches
      /\ total'[w] = total[w] + reg[w] /\ scan'[w] = scan[w] + 1
      /\ \/ pc'[w] = "wait"
         \/ pc'[w] = "post" /\ ~(scan[w] + 1 < NumBranches)
  BY <1>1 DEF NextBranch, Posted, TypeOK
<1>3. accounts' = accounts
  BY <1>1, <1>2, AccountsSame DEF OwesDestination
<1>4. ReadNotAdded(w) /\ ~ReadNotAdded(w)'
  BY <1>2 DEF ReadNotAdded
<1>5. scanned'[w] = scanned[w] /\ value'[w] = value[w]
  BY <1>2, <1>4 DEF scanned, value
<1>6. Committed(w)' <=> Committed(w)
  BY <1>2, <1>5 DEF Committed
<1> QED BY <1>1, <1>2, <1>3, <1>5, <1>6, Unseen

LEMMA StoreBranchRefines ==
  ASSUME MapInv, MapInv', NEW w \in Worker, StoreBranch(w)
  PROVE  Refines
<1>1. IInv /\ IInv' /\ Step(w) /\ TypeOK /\ LocalInv(w)
  BY DEF MapInv, BalanceInv, Step, IInv
<1>2. AdjustInv(w) /\ pc[w] = "storeBranch" /\ IsTeller(cmd[w]) /\ cmd[w] \in Command
  BY <1>1 DEF LocalInv, AdjustInv, StoreBranch, TypeOK
<1>3. UNCHANGED <<balance, cmdCount, cmd, scan, total, err>> /\ Adjusted(w)
  BY DEF StoreBranch
<1>4. \/ /\ adj[w] = 1 /\ Len(Adjustments(cmd[w])) = 2
         /\ pc'[w] = "load" /\ adj'[w] = 2
      \/ /\ adj[w] = Len(Adjustments(cmd[w]))
         /\ pc'[w] = "post" /\ adj'[w] = adj[w]
  BY <1>1, <1>2, <1>3, AdjustedFact
<1>5. cmd[w].op = "transfer" => Len(Adjustments(cmd[w])) = 2
  BY <1>2, AdjustmentValues
<1>6. accounts' = accounts
  BY <1>1, <1>2, <1>3, <1>4, <1>5, AccountsSame DEF OwesDestination
<1>7. Committed(w)' <=> Committed(w)
  BY <1>2, <1>3, <1>4 DEF Committed, IsTeller
<1> QED BY <1>1, <1>2, <1>3, <1>4, <1>6, <1>7, TellerUnseen

(***************************************************************************)
(* A worker that has read a branch and not yet the last one keeps the      *)
(* bank's semaphore.                                                       *)
(***************************************************************************)
LEMMA EnquiryHolds ==
  ASSUME MapInv, NEW v \in Worker, Atomic!Enquiring(v)
  PROVE  BankSem \in held[v] /\ cmd[v].op = "bankBalance"
<1>1. scanned[v] \in 1 .. NumBranches - 1
  BY DEF Atomic!Enquiring
<1>2. LoopInv(v) /\ TypeOK /\ LocalInv(v)
  BY DEF MapInv, BalanceInv, IInv
<1>3. NumBranches \in Nat /\ scan[v] \in 0 .. NumBranches
  BY <1>2, SizeAssumption DEF TypeOK
<1>4. CASE ReadNotAdded(v)
  BY <1>2, <1>4 DEF ReadNotAdded, LocalInv, PostInv, Kept
<1>5. CASE ~ReadNotAdded(v)
  <2>1. scan[v] # 0 /\ scan[v] < NumBranches
    BY <1>1, <1>3, <1>5 DEF scanned
  <2>2. cmd[v].op = "bankBalance"
    BY <1>2, <2>1 DEF LoopInv
  <2>3. pc[v] \in PC /\ pc[v] # "idle"
    BY <1>2, <2>1 DEF TypeOK, LocalInv
  <2>4. ~Active(v)
    BY <1>2, <2>2 DEF Active, LocalInv, AdjustInv, IsTeller
  <2>5. Enquiring(v)
    BY <2>2, <2>3, <2>4 DEF Enquiring, Active, PC
  <2> QED BY <1>2, <2>1, <2>2, <2>5 DEF LoopInv
<1> QED BY <1>4, <1>5

LEMMA AccountNotEmpty == <<0, 0>> \in Account
BY SizeAssumption DEF Account, Branch, SubAccount

(***************************************************************************)
(* A teller's command takes effect: at its first store, when it finds that *)
(* the funds do not suffice, or at once on a transfer to the same account. *)
(***************************************************************************)
LEMMA TellerEffect ==
  ASSUME MapInv, MapInv', NEW w \in Worker, Step(w),
         IsTeller(cmd[w]), UNCHANGED <<cmd, cmdCount, scan, total>>,
         pc[w] # "idle", pc'[w] # "idle", ~Committed(w), Committed(w)',
         \/ /\ ~IsSelfTransfer(cmd[w]) /\ Insufficient(cmd[w], accounts[cmd[w].src])
            /\ err'[w] = "INSUFFICIENT_FUNDS" /\ accounts' = accounts
         \/ /\ IsSelfTransfer(cmd[w]) \/ ~Insufficient(cmd[w], accounts[cmd[w].src])
            /\ err' = err /\ accounts' = Applied(accounts, cmd[w])
            /\ cmd[w].op = "transfer" /\ accounts' # accounts => BankSem \in held[w]
  PROVE  Refines
<1>1. IInv /\ IInv' /\ cmd[w].op # "bankBalance" /\ cmd[w].op # "branchBalance"
  BY DEF MapInv, BalanceInv, IsTeller
<1>2. scanned'[w] = scanned[w] /\ value'[w] = value[w]
  BY <1>1 DEF scanned, value, ReadNotAdded
<1>3. phase[w] = "called" /\ phase'[w] = "done"
  BY DEF phase
<1>4. phase' = [phase EXCEPT ![w] = "done"] /\ UNCHANGED <<cmdCount, cmd, scanned, value>>
  BY <1>1, <1>2, <1>3, MapUpdate
<1>5. err' = [err EXCEPT ![w] = err'[w]]
  BY <1>1, MapUpdate
<1>6. BankSem \in held[w] => \A v \in Worker : ~Atomic!Enquiring(v)
  <2> SUFFICES ASSUME BankSem \in held[w], NEW v \in Worker, Atomic!Enquiring(v) PROVE FALSE
    OBVIOUS
  <2>1. BankSem \in held[v] /\ cmd[v].op = "bankBalance"
    BY EnquiryHolds
  <2>2. v # w
    BY <1>1, <2>1
  <2> QED BY <1>1, <2>1, <2>2 DEF IInv, SemaphoreInv
<1>7. Atomic!TellerTakesEffect(w)
  <2>1. CASE /\ ~IsSelfTransfer(cmd[w]) /\ Insufficient(cmd[w], accounts[cmd[w].src])
             /\ err'[w] = "INSUFFICIENT_FUNDS" /\ accounts' = accounts
    BY <1>3, <1>4, <1>5, <2>1, SameData DEF Atomic!TellerTakesEffect
  <2>2. CASE /\ IsSelfTransfer(cmd[w]) \/ ~Insufficient(cmd[w], accounts[cmd[w].src])
             /\ err' = err /\ accounts' = Applied(accounts, cmd[w])
             /\ cmd[w].op = "transfer" /\ accounts' # accounts => BankSem \in held[w]
    BY <1>3, <1>4, <1>6, <2>2, SameData DEF Atomic!TellerTakesEffect
  <2> QED BY <2>1, <2>2
<1> QED BY <1>7 DEF Refines, Atomic!Next

LEMMA SameAccountRefines ==
  ASSUME MapInv, MapInv', NEW w \in Worker, SameAccount(w)
  PROVE  Refines
<1> USE DEF shared
<1>1. IInv /\ IInv' /\ Step(w) /\ TypeOK
  BY DEF MapInv, BalanceInv, Step, IInv
<1>2. /\ UNCHANGED <<balance, cmdCount, cmd, adj, reg, scan, total, err>>
      /\ pc[w] = "wait" /\ pc'[w] = "return" /\ IsSelfTransfer(cmd[w])
  BY <1>1 DEF SameAccount, Locked, TypeOK
<1>3. accounts' = accounts
  BY <1>1, <1>2, AccountsSame DEF OwesDestination
<1>4. IsTeller(cmd[w]) /\ ~Committed(w) /\ Committed(w)'
  BY <1>2 DEF IsTeller, Committed, IsSelfTransfer
<1>5. Applied(accounts, cmd[w]) = accounts
  <2> DEFINE c == cmd[w]
  <2>1. c \in Command /\ accounts \in [Account -> Int] /\ c.amount \in Nat
        /\ c.op = "transfer" /\ c.src = c.dst
    BY <1>1, <1>2, AccountsValue DEF TypeOK, Command, IsSelfTransfer
  <2> HIDE DEF c
  <2>2. ASSUME NEW a \in Account PROVE Change(c, a) = 0
    BY <2>1 DEF Change
  <2>3. /\ Applied(accounts, c) \in [Account -> Int]
        /\ \A a \in Account : Applied(accounts, c)[a] = accounts[a]
    <3> DEFINE bal == accounts
    <3>1. bal \in [Account -> Int]
      BY <2>1
    <3> HIDE DEF bal
    <3>2. Applied(bal, c) \in [Account -> Int]
      BY <2>1, <3>1, AppliedFact, AccountNotEmpty
    <3>3. ASSUME NEW a \in Account PROVE Applied(bal, c)[a] = bal[a]
      <4>1. Applied(bal, c)[a] = bal[a] + Change(c, a)
        BY <2>1, <3>1, AppliedFact
      <4> QED BY <2>2, <3>1, <4>1
    <3> QED BY <3>2, <3>3 DEF bal
  <2>4. Applied(accounts, c) = accounts
    BY <2>1, <2>3
  <2> QED BY <2>4 DEF c
<1> QED BY <1>1, <1>2, <1>3, <1>4, <1>5, TellerEffect

LEMMA CheckFundsRefines ==
  ASSUME MapInv, MapInv', NEW w \in Worker, CheckFunds(w)
  PROVE  Refines
<1> USE DEF shared
<1>1. IInv /\ IInv' /\ Step(w) /\ TypeOK /\ LocalInv(w)
  BY DEF MapInv, BalanceInv, Step, IInv
<1>2. /\ UNCHANGED <<balance, cmdCount, cmd, adj, reg, scan, total>>
      /\ Locked(w) /\ IsTeller(cmd[w]) /\ ~IsSelfTransfer(cmd[w]) /\ cmd[w] \in Command
      /\ IF Insufficient(cmd[w], balance[cmd[w].src])
         THEN err'[w] = "INSUFFICIENT_FUNDS" /\ pc'[w] = "post"
         ELSE err' = err /\ pc'[w] = "load"
  BY <1>1 DEF CheckFunds, TypeOK
<1>3. pc[w] = "wait" /\ adj[w] = 1
  BY <1>1, <1>2 DEF Locked, LocalInv, WaitInv
<1>4. accounts' = accounts
  BY <1>1, <1>2, <1>3, AccountsSame DEF OwesDestination
<1>5. ~Committed(w) /\ (Committed(w)' <=> pc'[w] = "post")
  BY <1>2, <1>3 DEF IsTeller, Committed
<1>6. CASE Insufficient(cmd[w], balance[cmd[w].src])
  <2>1. cmd[w].src \in Account /\ AccountSem(cmd[w].src) \in held[w]
    <3>1. held[w] = LockSet(cmd[w])
      BY <1>1, <1>2, <1>3, ElemsEmpty DEF Locked, LocalInv, WaitInv, Needed, IsTeller
    <3> QED BY <1>2, <1>6, <3>1, LockSets DEF Insufficient, Command
  <2>2. accounts[cmd[w].src] = balance[cmd[w].src]
    BY <1>1, <1>3, <2>1, AccountSettled DEF OwesDestination
  <2> QED BY <1>1, <1>2, <1>3, <1>4, <1>5, <1>6, <2>2, TellerEffect
<1>7. CASE ~Insufficient(cmd[w], balance[cmd[w].src])
  BY <1>1, <1>2, <1>3, <1>4, <1>5, <1>7, TellerUnseen
<1> QED BY <1>6, <1>7

(***************************************************************************)
(* The store of a command's first adjustment is where it takes effect; the *)
(* second one of a transfer delivers what the abstract bank already has.   *)
(***************************************************************************)
LEMMA StoreAmounts ==
  ASSUME IInv, NEW w \in Worker, AdjustInv(w)
  PROVE  /\ cmd[w].op = "transfer" =>
              /\ Len(Adjustments(cmd[w])) = 2
              /\ adj[w] = 1 => /\ Adjusting(w).account = cmd[w].src
                               /\ Adjusting(w).amount = -cmd[w].amount
              /\ adj[w] = 2 => /\ Adjusting(w).account = cmd[w].dst
                               /\ Adjusting(w).amount = cmd[w].amount
         /\ cmd[w].op # "transfer" =>
              /\ adj[w] = 1 /\ Len(Adjustments(cmd[w])) = 1
              /\ Adjusting(w).account = cmd[w].src
              /\ \A a \in Account :
                   Change(cmd[w], a) = IF a = cmd[w].src THEN Adjusting(w).amount ELSE 0
<1>1. /\ cmd[w] \in Command /\ IsTeller(cmd[w]) /\ adj[w] \in {1, 2}
      /\ adj[w] <= Len(Adjustments(cmd[w]))
  BY DEF IInv, TypeOK, AdjustInv
<1>2. CASE cmd[w].op = "transfer"
  BY <1>1, <1>2, AdjustmentValues DEF Adjusting
<1>3. CASE cmd[w].op # "transfer"
  <2> DEFINE n == IF cmd[w].op = "deposit" THEN cmd[w].amount ELSE -cmd[w].amount
             d == Adjustment(cmd[w].src, n, TRUE)
  <2>1. Adjustments(cmd[w]) = << d >>
    BY <1>1, <1>3, AdjustmentValues DEF IsTeller
  <2>2. d.account = cmd[w].src /\ d.amount = n
    BY DEF Adjustment
  <2>3. \A a \in Account : Change(cmd[w], a) = IF a = cmd[w].src THEN n ELSE 0
    BY <1>1, <1>3 DEF Change, IsTeller
  <2> HIDE DEF d, n
  <2>4. Len(<< d >>) = 1 /\ << d >>[1] = d
    OBVIOUS
  <2>5. adj[w] = 1
    BY <1>1, <2>1, <2>4, LessThanTwo
  <2> QED BY <1>3, <2>1, <2>2, <2>3, <2>4, <2>5 DEF Adjusting
<1> QED BY <1>2, <1>3

LEMMA StoreAccountRefines ==
  ASSUME MapInv, MapInv', NEW w \in Worker, StoreAccount(w)
  PROVE  Refines
<1>1. IInv /\ IInv' /\ Step(w) /\ TypeOK /\ TypeOK' /\ LocalInv(w) /\ RegInv(w) /\ CheckedInv(w)
  BY DEF MapInv, BalanceInv, Step, IInv, AccessInv
<1>2. /\ AdjustInv(w) /\ pc[w] = "store" /\ IsTeller(cmd[w]) /\ ~IsSelfTransfer(cmd[w])
      /\ cmd[w] \in Command
  BY <1>1 DEF LocalInv, AdjustInv, StoreAccount, TypeOK
<1>3. /\ UNCHANGED <<cmdCount, cmd, scan, total, err>>
      /\ \/ /\ pc'[w] = "loadBranch" /\ adj'[w] = adj[w]
         \/ /\ adj[w] = 1 /\ Len(Adjustments(cmd[w])) = 2
            /\ pc'[w] = "load" /\ adj'[w] = 2
         \/ /\ adj[w] = Len(Adjustments(cmd[w]))
            /\ pc'[w] = "post" /\ adj'[w] = adj[w]
  <2>1. (pc'[w] = "loadBranch" /\ adj'[w] = adj[w]) \/ Adjusted(w)
    BY <1>1 DEF StoreAccount, TypeOK
  <2> QED BY <1>1, <1>2, <2>1, AdjustedFact DEF StoreAccount
<1>4. /\ cmd[w].src \in Account /\ cmd[w].dst \in Account /\ cmd[w].amount \in Nat
      /\ balance \in [Account -> Int] /\ balance' \in [Account -> Int]
      /\ Adjusting(w).amount \in Int /\ adj[w] \in {1, 2}
  BY <1>1, <1>2, AdjustingFact DEF TypeOK, Command
<1>5. \A a \in Account : balance'[a] =
         balance[a] + (IF a = Adjusting(w).account THEN Adjusting(w).amount ELSE 0)
  BY <1>1, <1>2, <1>4, StoreFact DEF RegInv
<1>6. Committed(w)'
  BY <1>2, <1>3 DEF Committed, IsTeller
<1>7. CASE adj[w] = 2
  <2>1. /\ cmd[w].op = "transfer" /\ Adjusting(w).account = cmd[w].dst
        /\ Adjusting(w).amount = cmd[w].amount
    BY <1>1, <1>2, <1>7, StoreAmounts
  <2>2. OwesDestination(w) /\ ~OwesDestination(w)'
    BY <1>2, <1>3, <1>7, <2>1 DEF OwesDestination
  <2>3. ASSUME NEW a \in Account
        PROVE  balance'[a] + Arriving(w, a)' = balance[a] + Arriving(w, a)
    <3>1. /\ Arriving(w, a) = IF a = cmd[w].dst THEN cmd[w].amount ELSE 0
          /\ Arriving(w, a)' = 0
      BY <2>2 DEF Arriving
    <3>2. balance[a] \in Int /\ balance'[a] \in Int
      BY <1>4
    <3> QED BY <1>4, <1>5, <2>1, <3>1, <3>2
  <2>4. accounts' = accounts
    BY <1>1, <2>3, AccountsQuiet
  <2>5. Committed(w)
    BY <1>2, <1>7 DEF Committed, IsTeller
  <2> QED BY <1>1, <1>2, <1>3, <1>6, <2>4, <2>5, TellerUnseen
<1>8. CASE adj[w] = 1
  <2>1. ~Committed(w) /\ ~OwesDestination(w)
    BY <1>2, <1>8 DEF Committed, OwesDestination, IsTeller
  <2>2. OwesDestination(w)' <=> cmd[w].op = "transfer"
    BY <1>1, <1>2, <1>3, <1>8, StoreAmounts DEF OwesDestination
  <2>3. ASSUME NEW a \in Account PROVE accounts'[a] = accounts[a] + Change(cmd[w], a)
    <3>1. accounts'[a] = accounts[a] + (balance'[a] - balance[a])
                            + (Arriving(w, a)' - Arriving(w, a))
      BY <1>1, AccountsStep
    <3>2. /\ Arriving(w, a) = 0
          /\ Arriving(w, a)' = IF cmd[w].op = "transfer" /\ a = cmd[w].dst
                               THEN cmd[w].amount ELSE 0
      BY <1>3, <2>1, <2>2 DEF Arriving
    <3>3. accounts[a] \in Int /\ balance[a] \in Int
      BY <1>1, <1>4, AccountsValue
    <3>4. CASE cmd[w].op = "transfer"
      <4>1. Change(cmd[w], a) = (IF a = cmd[w].src THEN -cmd[w].amount ELSE 0)
                                  + (IF a = cmd[w].dst THEN cmd[w].amount ELSE 0)
        BY <3>4 DEF Change
      <4>2. Adjusting(w).account = cmd[w].src /\ Adjusting(w).amount = -cmd[w].amount
        BY <1>1, <1>2, <1>8, <3>4, StoreAmounts
      <4> QED BY <1>4, <1>5, <3>1, <3>2, <3>3, <3>4, <4>1, <4>2
    <3>5. CASE cmd[w].op # "transfer"
      <4>1. /\ Adjusting(w).account = cmd[w].src
            /\ Change(cmd[w], a) = IF a = cmd[w].src THEN Adjusting(w).amount ELSE 0
        BY <1>1, <1>2, <3>5, StoreAmounts
      <4> QED BY <1>4, <1>5, <3>1, <3>2, <3>3, <3>5, <4>1
    <3> QED BY <3>4, <3>5
  <2>4. accounts' = Applied(accounts, cmd[w])
    <3>1. accounts \in [Account -> Int] /\ accounts' \in [Account -> Int]
      BY <1>1, AccountsValue, AccountsAfter
    <3>2. Applied(accounts, cmd[w]) \in [Account -> Int]
      BY <1>2, <3>1, AppliedFact, AccountNotEmpty
    <3>3. \A a \in Account : Applied(accounts, cmd[w])[a] = accounts[a] + Change(cmd[w], a)
      BY <1>2, <3>1, AppliedFact
    <3> QED BY <2>3, <3>1, <3>2, <3>3
  <2>5. ~Insufficient(cmd[w], accounts[cmd[w].src])
    <3>1. CASE cmd[w].op \in {"withdraw", "transfer"}
      <4>1. AccountSem(cmd[w].src) \in held[w]
        BY <1>1, <1>2, <3>1, AdjustingFact, LockSets
      <4>2. accounts[cmd[w].src] = balance[cmd[w].src]
        BY <1>1, <1>4, <2>1, <4>1, AccountSettled
      <4> QED BY <1>1, <1>2, <1>8, <4>2 DEF CheckedInv
    <3>2. CASE cmd[w].op \notin {"withdraw", "transfer"}
      BY <3>2 DEF Insufficient
    <3> QED BY <3>1, <3>2
  <2>6. cmd[w].op = "transfer" => BankSem \in held[w]
    BY <1>1, <1>2, AdjustingFact, LockSets
  <2> QED BY <1>1, <1>2, <1>3, <1>6, <2>1, <2>4, <2>5, <2>6, TellerEffect
<1> QED BY <1>4, <1>7, <1>8

(***************************************************************************)
(* A call, an enquiry's read and a return are steps of the abstract bank.  *)
(***************************************************************************)
LEMMA BeginRefines ==
  ASSUME MapInv, MapInv', NEW w \in Worker, NEW c \in Workload, Begin(w, c)
  PROVE  Refines
<1> USE DEF shared
<1>1. IInv /\ IInv' /\ Step(w) /\ TypeOK /\ LocalInv(w) /\ LoopInv(w)
  BY DEF MapInv, BalanceInv, Step, IInv
<1>2. /\ UNCHANGED <<balance, adj, reg, scan, total, err>>
      /\ pc[w] = "idle" /\ pc'[w] = "wait" /\ cmd'[w] = c
      /\ cmdCount[w] > 0 /\ cmdCount'[w] = cmdCount[w] - 1
      /\ scan[w] = 0 /\ adj[w] = 1 /\ reg[w] = 0 /\ total[w] = 0 /\ cmd[w].op = "bankBalance"
  BY <1>1 DEF Begin, TypeOK, LocalInv, LoopInv
<1>3. accounts' = accounts
  <2>1. \A a \in Account : Arriving(w, a) = 0 /\ Arriving(w, a)' = 0
    BY <1>2 DEF Arriving, OwesDestination
  <2> QED BY <1>1, <1>2, <2>1, AccountsQuiet
<1>4. ~ReadNotAdded(w) /\ ~ReadNotAdded(w)'
  BY <1>2 DEF ReadNotAdded
<1>5. scanned[w] = 0 /\ scanned'[w] = 0 /\ value[w] = 0 /\ value'[w] = 0
  BY <1>2, <1>4 DEF scanned, value
<1>6. ~Committed(w)'
  BY <1>2, <1>5, SizeAssumption DEF Committed
<1>7. phase[w] = "idle" /\ phase'[w] = "called"
  BY <1>2, <1>6 DEF phase
<1>8. Atomic!Call(w, c)
  BY <1>1, <1>2, <1>3, <1>5, <1>7, MapUpdate DEF Atomic!Call
<1> QED BY <1>8 DEF Refines, Atomic!Next

LEMMA ReadBranchBalanceRefines ==
  ASSUME MapInv, MapInv', NEW w \in Worker, ReadBranchBalance(w)
  PROVE  Refines
<1> USE DEF shared
<1>1. IInv /\ IInv' /\ Step(w) /\ TypeOK /\ LoopInv(w)
  BY DEF MapInv, BalanceInv, Step, IInv
<1>2. /\ UNCHANGED <<balance, cmdCount, cmd, adj, scan, total, err>>
      /\ Locked(w) /\ pc[w] = "wait" /\ pc'[w] = "post" /\ ~IsTeller(cmd[w])
      /\ reg'[w] = branchBalance[ReadBranch(w)] /\ cmd[w].op \in {"branchBalance", "bankBalance"}
  BY <1>1 DEF ReadBranchBalance, Locked, TypeOK, Command, Op, IsTeller
<1>3. /\ ReadBranch(w) \in Branch /\ BranchSem(ReadBranch(w)) \in held[w]
      /\ cmd[w].op = "bankBalance" =>
           BankSem \in held[w] /\ scan[w] < NumBranches /\ ReadBranch(w) = scan[w]
  BY <1>1, <1>2, ReadBranchFact
<1>4. accounts' = accounts
  BY <1>1, <1>2, AccountsSame DEF OwesDestination
<1>5. reg'[w] = BranchSum(accounts, ReadBranch(w))
  BY <1>2, <1>3, ReadSum DEF Active
<1>6. ~ReadNotAdded(w) /\ scanned[w] = scan[w]
  BY <1>2 DEF ReadNotAdded, scanned
<1>7. CASE cmd[w].op = "branchBalance"
  <2>1. ~ReadNotAdded(w)' /\ scanned'[w] = scanned[w]
    BY <1>2, <1>6, <1>7 DEF ReadNotAdded, scanned
  <2>2. ~Committed(w) /\ Committed(w)'
    BY <1>2, <1>7 DEF Committed
  <2>3. phase[w] = "called" /\ phase'[w] = "done" /\ value'[w] = reg'[w]
    BY <1>2, <1>7, <2>1, <2>2 DEF phase, value
  <2>4. ReadBranch(w) = BranchOf(cmd[w].src)
    BY <1>7 DEF ReadBranch
  <2>5. Atomic!BranchEnquiry(w)
    BY <1>1, <1>2, <1>4, <1>5, <1>7, <2>1, <2>3, <2>4, MapUpdate, SameData
       DEF Atomic!BranchEnquiry
  <2> QED BY <2>5 DEF Refines, Atomic!Next
<1>8. CASE cmd[w].op = "bankBalance"
  <2>1. ReadNotAdded(w)' /\ scanned'[w] = scanned[w] + 1
    BY <1>2, <1>3, <1>6, <1>8 DEF ReadNotAdded, scanned
  <2>2. ~Committed(w) /\ (Committed(w)' <=> scanned[w] + 1 = NumBranches)
    <3>1. scan[w] # NumBranches
      BY <1>3, <1>8, SizeAssumption
    <3> QED BY <1>2, <1>6, <1>8, <2>1, <3>1 DEF Committed
  <2>3. /\ phase[w] = "called"
        /\ phase'[w] = IF scanned[w] + 1 = NumBranches THEN "done" ELSE "called"
        /\ value'[w] = value[w] + BranchSum(accounts, scanned[w])
    BY <1>2, <1>3, <1>5, <1>6, <1>8, <2>1, <2>2 DEF phase, value
  <2>4. ASSUME NEW v \in Worker \ {w} PROVE ~Atomic!Enquiring(v)
    BY <1>1, <1>3, <1>8, EnquiryHolds DEF IInv, SemaphoreInv
  <2>5. Atomic!BankEnquiry(w)
    BY <1>1, <1>2, <1>4, <1>8, <2>1, <2>3, <2>4, MapUpdate, SameData
       DEF Atomic!BankEnquiry
  <2> QED BY <2>5 DEF Refines, Atomic!Next
<1> QED BY <1>2, <1>7, <1>8

LEMMA ReturnRefines ==
  ASSUME MapInv, MapInv', NEW w \in Worker, Return(w)
  PROVE  Refines
<1> USE DEF shared
<1>1. IInv /\ IInv' /\ Step(w) /\ TypeOK /\ LoopInv(w)
  BY DEF MapInv, BalanceInv, Step, IInv
<1>2. /\ UNCHANGED <<balance, cmdCount>>
      /\ pc[w] = "return" /\ pc'[w] = "idle" /\ cmd'[w] = NoCommand
      /\ scan'[w] = 0 /\ total'[w] = 0 /\ reg'[w] = 0 /\ err'[w] = "SUCCESS"
  BY <1>1 DEF Return, TypeOK
<1>3. accounts' = accounts
  <2>1. \A a \in Account : Arriving(w, a) = 0 /\ Arriving(w, a)' = 0
    BY <1>2 DEF Arriving, OwesDestination
  <2> QED BY <1>1, <1>2, <2>1, AccountsQuiet
<1>4. Committed(w)
  <2>1. cmd[w].op = "bankBalance" => scan[w] = NumBranches
    BY <1>1, <1>2, SizeAssumption DEF LoopInv, Enquiring, TypeOK
  <2> QED BY <1>2, <2>1 DEF Committed, scanned, ReadNotAdded
<1>5. phase[w] = "done" /\ phase'[w] = "idle" /\ scanned'[w] = 0 /\ value'[w] = 0
  BY <1>2, <1>4 DEF phase, scanned, value, ReadNotAdded, NoCommand, BankBalance
<1>6. Atomic!Return(w)
  BY <1>1, <1>2, <1>3, <1>5, MapUpdate, SameData DEF Atomic!Return, NoCommand
<1> QED BY <1>6 DEF Refines, Atomic!Next

LEMMA InitRefines == Init => Atomic!Init
<1> SUFFICES ASSUME Init PROVE Atomic!Init
  OBVIOUS
<1>1. IInv
  BY InitInvariant
<1>2. accounts = InitialBalance
  <2>1. ASSUME NEW a \in Account PROVE accounts[a] = InitialBalance[a]
    <3> DEFINE f == [w \in Worker |-> Arriving(w, a)]
    <3>1. f \in [Worker -> Int] /\ \A w \in Worker : f[w] = 0
      BY DEF Init, Arriving, OwesDestination
    <3>2. /\ accounts[a] = balance[a] + SumFunctionOnSet(f, Worker)
          /\ balance[a] = InitialBalance[a] /\ balance[a] \in Int
      BY <1>1, AccountsValue DEF Init, IInv, TypeOK
    <3> HIDE DEF f
    <3>3. SumFunctionOnSet(f, Worker) = 0
      BY <3>1, SumZero, WorkerAssumption
    <3> QED BY <3>2, <3>3
  <2> QED BY <1>1, <2>1, AccountsValue, InitialAssumption
<1>3. \A w \in Worker : ~ReadNotAdded(w)
  BY DEF Init, ReadNotAdded
<1>4. /\ phase = [w \in Worker |-> "idle"] /\ scanned = [w \in Worker |-> 0]
      /\ value = [w \in Worker |-> 0]
  BY <1>3 DEF Init, phase, scanned, value, NoCommand, BankBalance
<1> QED BY <1>2, <1>4, SameData DEF Init, Atomic!Init, NoCommand

LEMMA StepRefines == MapInv /\ MapInv' /\ [Next]_vars => Refines
<1> SUFFICES ASSUME MapInv, MapInv', [Next]_vars PROVE Refines
  OBVIOUS
<1>1. ASSUME NEW w \in Worker, Step(w) PROVE Refines
  BY <1>1, BeginRefines, SemWaitRefines, SameAccountRefines, CheckFundsRefines, LoadRefines,
     StoreAccountRefines, StoreBranchRefines, ReadBranchBalanceRefines, SemPostRefines,
     NextBranchRefines, FinishRefines, ReturnRefines DEF Step
<1>2. ASSUME UNCHANGED vars PROVE Refines
  BY <1>2 DEF Refines, Atomic!vars, accounts, phase, scanned, value, Committed, ReadNotAdded,
              OwesDestination, vars, shared, local
<1>3. Terminating => UNCHANGED vars
  BY DEF Terminating
<1> QED BY <1>1, <1>2, <1>3 DEF Next

(***************************************************************************)
(* The bank of semaphores, loads and stores implements the one in which    *)
(* every deposit, withdrawal and transfer is a single step and every       *)
(* enquiry reads the sum of a branch's accounts.                           *)
(***************************************************************************)
THEOREM BankImplementsAtomic == Spec => Refinement
<1>1. Init => Atomic!Init /\ MapInv
  BY InitRefines, MapInit
<1>2. MapInv /\ [Next]_vars => MapInv'
  BY MapNext
<1>3. MapInv /\ MapInv' /\ [Next]_vars => [Atomic!Next]_(Atomic!vars)
  BY StepRefines DEF Refines
<1> QED BY <1>1, <1>2, <1>3, PTL DEF Spec, Refinement, Atomic!Spec
=============================================================================
