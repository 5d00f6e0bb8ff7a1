-------------------------- MODULE BankDriverProofs --------------------------
(***************************************************************************)
(* Theorems about BankDriver for any number of workers, streams, commands, *)
(* reports and log entries: type correctness, no race for a seed, the      *)
(* barrier around every report, and the comparison with the sequential run.*)
(***************************************************************************)
EXTENDS BankDriver, OperatorProofs

LEMMA FiniteData == IsFiniteSet(Branch) /\ IsFiniteSet(SubAccount) /\ IsFiniteSet(Account)
<1>1. NumBranches \in Int /\ AccountsPerBranch \in Int
  BY SizeAssumption
<1>2. NumBranches - 1 \in Int /\ AccountsPerBranch - 1 \in Int /\ 0 \in Int
  BY <1>1
<1>3. IsFiniteSet(0 .. NumBranches - 1) /\ IsFiniteSet(0 .. AccountsPerBranch - 1)
  BY <1>2, FS_Interval, Zenon
<1> QED BY <1>3, FS_Product DEF Branch, SubAccount, Account

(***************************************************************************)
(* A command makes at most two adjustments.                                *)
(***************************************************************************)
AdjustmentRecord == [account : Account, amount : Int, updateBranch : BOOLEAN]

LEMMA AdjustmentsType ==
  ASSUME NEW c \in Command
  PROVE  /\ Adjustments(c) \in Seq(AdjustmentRecord)
         /\ Len(Adjustments(c)) \in {0, 1, 2}
         /\ IsTeller(c) <=> Len(Adjustments(c)) # 0
<1>0. c.src \in Account /\ c.dst \in Account /\ c.amount \in Nat /\ c.op \in Op
  BY DEF Command
<1>1. /\ Len(<< >>) = 0 /\ << >> \in Seq(AdjustmentRecord)
      /\ \A x \in AdjustmentRecord : Len(<<x>>) = 1 /\ <<x>> \in Seq(AdjustmentRecord)
      /\ \A x, y \in AdjustmentRecord :
           Len(<<x, y>>) = 2 /\ <<x, y>> \in Seq(AdjustmentRecord)
  OBVIOUS
<1>2. \A a \in Account, n \in Int, u \in BOOLEAN : Adjustment(a, n, u) \in AdjustmentRecord
  BY DEF Adjustment, AdjustmentRecord
<1>3. /\ IsSameBranch(c.src, c.dst) \in BOOLEAN
      /\ c.amount \in Int /\ -c.amount \in Int
  BY <1>0 DEF IsSameBranch
<1>4. CASE c.op \in {"deposit", "withdraw"}
  <2> DEFINE n == IF c.op = "deposit" THEN c.amount ELSE -c.amount
             d == Adjustment(c.src, n, TRUE)
  <2>1. n \in Int /\ Adjustments(c) = << d >>
    BY <1>3, <1>4 DEF Adjustments
  <2>2. d \in AdjustmentRecord
    <3> HIDE DEF n
    <3>1. TRUE \in BOOLEAN
      OBVIOUS
    <3> QED BY <1>0, <1>2, <2>1, <3>1
  <2> HIDE DEF d
  <2> QED BY <1>1, <1>4, <2>1, <2>2 DEF IsTeller
<1>5. CASE c.op = "transfer"
  <2> DEFINE adj1 == Adjustment(c.src, -c.amount, ~IsSameBranch(c.src, c.dst))
             adj2 == Adjustment(c.dst, c.amount, ~IsSameBranch(c.src, c.dst))
  <2>1. Adjustments(c) = << adj1, adj2 >>
    BY <1>5 DEF Adjustments
  <2>2. adj1 \in AdjustmentRecord /\ adj2 \in AdjustmentRecord
    BY <1>0, <1>2, <1>3
  <2> HIDE DEF adj1, adj2
  <2> QED BY <1>1, <1>5, <2>1, <2>2 DEF IsTeller
<1>6. CASE c.op \in {"branchBalance", "bankBalance"}
  BY <1>1, <1>6 DEF Adjustments, IsTeller
<1> QED BY <1>0, <1>4, <1>5, <1>6 DEF Op

LEMMA AdjustmentValues ==
  ASSUME NEW c \in Command
  PROVE  /\ c.op = "deposit" => Adjustments(c) = << Adjustment(c.src, c.amount, TRUE) >>
         /\ c.op = "withdraw" => Adjustments(c) = << Adjustment(c.src, -c.amount, TRUE) >>
         /\ c.op = "transfer" =>
              /\ Len(Adjustments(c)) = 2
              /\ Adjustments(c)[1].account = c.src /\ Adjustments(c)[1].amount = -c.amount
              /\ Adjustments(c)[2].account = c.dst /\ Adjustments(c)[2].amount = c.amount
<1>1. CASE c.op = "transfer"
  <2> DEFINE adj1 == Adjustment(c.src, -c.amount, ~IsSameBranch(c.src, c.dst))
             adj2 == Adjustment(c.dst, c.amount, ~IsSameBranch(c.src, c.dst))
  <2>1. Adjustments(c) = << adj1, adj2 >>
    BY <1>1 DEF Adjustments
  <2>2. /\ adj1.account = c.src /\ adj1.amount = -c.amount
        /\ adj2.account = c.dst /\ adj2.amount = c.amount
    BY DEF Adjustment
  <2> HIDE DEF adj1, adj2
  <2>3. Len(<< adj1, adj2 >>) = 2 /\ << adj1, adj2 >>[1] = adj1 /\ << adj1, adj2 >>[2] = adj2
    OBVIOUS
  <2> QED BY <1>1, <2>1, <2>2, <2>3
<1>2. CASE c.op # "transfer"
  BY <1>2 DEF Adjustments
<1> QED BY <1>1, <1>2

(***************************************************************************)
(* What a command adds to an account.                                      *)
(***************************************************************************)
Change(c, a) ==
  CASE c.op = "deposit" -> IF a = c.src THEN c.amount ELSE 0
    [] c.op = "withdraw" -> IF a = c.src THEN -c.amount ELSE 0
    [] c.op = "transfer" -> (IF a = c.src THEN -c.amount ELSE 0)
                              + (IF a = c.dst THEN c.amount ELSE 0)
    [] OTHER -> 0

LEMMA AppliedFact ==
  ASSUME NEW bal \in [Account -> Int], NEW c \in Command, NEW a \in Account
  PROVE  /\ Applied(bal, c) \in [Account -> Int]
         /\ Change(c, a) \in Int
         /\ Applied(bal, c)[a] = bal[a] + Change(c, a)
<1> DEFINE adjs == Adjustments(c)
           D == DOMAIN adjs
           f == [i \in D |-> adjs[i].amount]
           I(x) == {i \in D : adjs[i].account = x}
<1>0. c.src \in Account /\ c.dst \in Account /\ c.amount \in Nat /\ c.op \in Op
  BY DEF Command
<1>1. adjs \in Seq(AdjustmentRecord) /\ Len(adjs) \in {0, 1, 2}
  BY AdjustmentsType
<1>2. D = 1 .. Len(adjs) /\ \A i \in D : adjs[i].amount \in Int
  <2> HIDE DEF adjs
  <2>1. D = 1 .. Len(adjs) /\ \A i \in 1 .. Len(adjs) : adjs[i] \in AdjustmentRecord
    BY <1>1
  <2> QED BY <2>1 DEF AdjustmentRecord
<1>3. D \subseteq {1, 2} /\ IsFiniteSet(D)
  <2>1. D \subseteq {1, 2}
    <3> DEFINE n == Len(adjs)
    <3>1. n \in {0, 1, 2} /\ D = 1 .. n
      BY <1>1, <1>2
    <3> HIDE DEF n, D
    <3> QED BY <3>1
  <2>2. IsFiniteSet({1, 2})
    <3>1. IsFiniteSet({1})
      BY FS_Singleton
    <3>2. IsFiniteSet({1} \cup {2})
      BY <3>1, FS_AddElement
    <3>3. {1} \cup {2} = {1, 2}
      OBVIOUS
    <3> QED BY <3>2, <3>3
  <2> QED BY <2>1, <2>2, FS_Subset
<1>4. f \in [D -> Int]
  BY <1>2
<1>5. \A x \in Account : Applied(bal, c)[x] = bal[x] + SumFunctionOnSet(f, I(x))
  BY DEF Applied
<1>6. ASSUME NEW x \in Account
      PROVE  /\ SumFunctionOnSet(f, I(x)) \in Int
             /\ SumFunctionOnSet(f, I(x)) =
                  (IF 1 \in I(x) THEN f[1] ELSE 0) + (IF 2 \in I(x) THEN f[2] ELSE 0)
  <2> DEFINE J == I(x)
  <2>1. J \in SUBSET D /\ J \subseteq {1, 2} /\ 1 # 2
    BY <1>3
  <2> HIDE DEF f, D, J
  <2>2. SumFunctionOnSet(f, J) \in Int
    BY <1>3, <1>4, <2>1, SumFact
  <2>3. SumFunctionOnSet(f, J) = (IF 1 \in J THEN f[1] ELSE 0) + (IF 2 \in J THEN f[2] ELSE 0)
    BY <1>3, <1>4, <2>1, SumPair
  <2> QED BY <2>2, <2>3 DEF J
<1>7. Applied(bal, c) \in [Account -> Int]
  <2>1. \A x \in Account : bal[x] + SumFunctionOnSet(f, I(x)) \in Int
    BY <1>6
  <2> QED BY <2>1 DEF Applied
<1>8. Change(c, a) \in Int /\ SumFunctionOnSet(f, I(a)) = Change(c, a)
  <2>1. CASE c.op \in {"deposit", "withdraw"}
    <3> DEFINE n == IF c.op = "deposit" THEN c.amount ELSE -c.amount
               d == Adjustment(c.src, n, TRUE)
    <3>1. adjs = << d >> /\ d.account = c.src /\ d.amount = n /\ n \in Int
      BY <1>0, <2>1, AdjustmentValues DEF Adjustment
    <3>2. Change(c, a) = IF a = c.src THEN n ELSE 0
      BY <2>1 DEF Change
    <3> HIDE DEF d, n
    <3>3. Len(<< d >>) = 1 /\ << d >>[1] = d
      OBVIOUS
    <3>4. D = {1} /\ adjs[1] = d
      BY <1>2, <3>1, <3>3
    <3>5. (1 \in I(a) <=> a = c.src) /\ ~(2 \in I(a)) /\ f[1] = n
      BY <3>1, <3>4
    <3> HIDE DEF f, D
    <3> QED BY <1>6, <3>1, <3>2, <3>5
  <2>2. CASE c.op = "transfer"
    <3>1. /\ Len(adjs) = 2 /\ adjs[1].account = c.src /\ adjs[1].amount = -c.amount
          /\ adjs[2].account = c.dst /\ adjs[2].amount = c.amount
      BY <2>2, AdjustmentValues
    <3>2. Change(c, a) = (IF a = c.src THEN -c.amount ELSE 0) + (IF a = c.dst THEN c.amount ELSE 0)
      BY <2>2 DEF Change
    <3> HIDE DEF adjs
    <3>3. 1 \in D /\ 2 \in D
      BY <1>2, <3>1
    <3>4. /\ 1 \in I(a) <=> a = c.src
          /\ 2 \in I(a) <=> a = c.dst
          /\ f[1] = -c.amount /\ f[2] = c.amount
      BY <3>1, <3>3
    <3> HIDE DEF f, D
    <3> QED BY <1>0, <1>6, <3>2, <3>4
  <2>3. CASE c.op \in {"branchBalance", "bankBalance"}
    <3>1. adjs = << >> /\ Change(c, a) = 0
      BY <2>3 DEF Adjustments, Change
    <3>2. D = {}
      BY <3>1
    <3>3. 1 \notin I(a) /\ 2 \notin I(a)
      BY <3>2
    <3> HIDE DEF f, D
    <3> QED BY <1>6, <3>1, <3>3
  <2> QED BY <1>0, <2>1, <2>2, <2>3 DEF Op
<1> QED BY <1>5, <1>7, <1>8
-----------------------------------------------------------------------------
USE DEF Set, At, Goto

(***************************************************************************)
(* Division, as Action_Init deals out the commands and the streams.        *)
(***************************************************************************)
LEMMA DivMod ==
  ASSUME NEW m \in Nat \ {0}, NEW a \in Int
  PROVE  a = m * (a \div m) + (a % m) /\ a \div m \in Int /\ a % m \in 0 .. m - 1
<1>1. a \div m \in Int
  OBVIOUS
<1>2. a % m \in Int
  OBVIOUS
<1>3. 0 <= a % m /\ a % m < m
  OBVIOUS
<1>4. m * (a \div m) + (a % m) = a
  OBVIOUS
<1> QED BY <1>1, <1>2, <1>3, <1>4

LEMMA ModUnique ==
  ASSUME NEW m \in Nat \ {0}, NEW k \in Int, NEW r \in 0 .. m - 1
  PROVE  (r + m * k) % m = r
OBVIOUS

LEMMA DivExact ==
  ASSUME NEW m \in Nat \ {0}, NEW k \in Int
  PROVE  (m * k) \div m = k
OBVIOUS

LEMMA QuotientLess ==
  ASSUME NEW m \in Nat \ {0}, NEW q \in Int, NEW d \in Int, NEW r \in Nat, q * m + r < d * m
  PROVE  q < d
OBVIOUS

LEMMA SumsDiffer ==
  ASSUME NEW n \in Nat \ {0}, NEW v \in 0 .. n - 1, NEW w \in 0 .. n - 1,
         NEW i \in Int, NEW j \in Int, v + n * i = w + n * j
  PROVE  v = w /\ i = j
OBVIOUS

(***************************************************************************)
(* The streams of a worker, and the commands in each.                      *)
(***************************************************************************)
StreamsEach == MaxWorkers \div NumWorkers

StreamLength == NumCommands \div MaxWorkers

LEMMA Sizes ==
  /\ NumWorkers \in Nat \ {0} /\ MaxWorkers \in Nat \ {0}
  /\ StreamsEach \in Nat \ {0} /\ MaxWorkers = NumWorkers * StreamsEach
  /\ StreamLength \in Nat /\ PerWorker(NumWorkers) = StreamLength * StreamsEach
  /\ PerWorker(NumWorkers) \in Nat
  /\ PerReport(NumWorkers) \in Int
<1> DEFINE n == NumWorkers
           m == MaxWorkers
           c == NumCommands
           k == StreamsEach
           d == StreamLength
<1>0. /\ n \in Nat \ {0} /\ m \in Nat \ {0} /\ c \in Nat /\ m % n = 0 /\ c % (4 * m) = 0
      /\ k = m \div n /\ d = c \div m
  BY DriverAssumption DEF StreamsEach, StreamLength
<1> HIDE DEF n, m, c, k, d
<1>1. k \in Int /\ m = n * k
  BY <1>0, DivMod
<1>2. k \in Nat \ {0}
  BY <1>0, <1>1
<1>3. PICK x \in Int : c = m * x
  <2> DEFINE f == 4 * m
             y == c \div f
  <2>1. f \in Nat \ {0} /\ c % f = 0
    BY <1>0
  <2>2. c = f * y /\ y \in Int
    <3> HIDE DEF f
    <3> QED BY <1>0, <2>1, DivMod
  <2>3. c = m * (4 * y) /\ 4 * y \in Int
    <3> HIDE DEF y
    <3> QED BY <1>0, <2>2
  <2> QED BY <2>3
<1>4. d = x
  BY <1>0, <1>3, DivExact
<1>5. d \in Nat
  <2>1. -1 * m + (m - 1) < d * m /\ m - 1 \in Nat /\ d \in Int
    BY <1>0, <1>3, <1>4
  <2>2. -1 < d
    BY <1>0, <2>1, QuotientLess
  <2> QED BY <2>1, <2>2
<1>6. c \div n = d * k
  <2>1. c = n * (d * k)
    BY <1>0, <1>1, <1>2, <1>3, <1>4, <1>5
  <2>2. d * k \in Int
    BY <1>2, <1>5
  <2> QED BY <1>0, <2>1, <2>2, DivExact
<1>7. d * k \in Nat
  BY <1>2, <1>5
<1>8. (c \div 4) \div n \in Int
  <2>1. c \div 4 \in Int
    BY <1>0
  <2> QED BY <1>0, <2>1
<1> QED BY <1>0, <1>1, <1>2, <1>5, <1>6, <1>7, <1>8 DEF n, m, c, k, d, PerWorker, PerReport

(***************************************************************************)
(* Turn q * StreamsEach + r of worker w is for its r-th stream.            *)
(***************************************************************************)
OwnStream(w, r) == w + NumWorkers * r

LEMMA StreamNumber ==
  ASSUME NEW w \in Worker, NEW q \in Nat, NEW r \in 0 .. StreamsEach - 1
  PROVE  /\ SeedList(w, (q * StreamsEach + r) % MaxWorkers, NumWorkers) = OwnStream(w, r)
         /\ OwnStream(w, r) \in Stream
<1> DEFINE n == NumWorkers
           k == StreamsEach
           m == n * k
           a == q * k + r
           d == a \div m
<1>0. n \in Nat \ {0} /\ k \in Nat \ {0} /\ MaxWorkers = m /\ w \in 0 .. n - 1 /\ r \in 0 .. k - 1
  BY Sizes DEF Worker
<1> HIDE DEF n, k
<1>1. m \in Nat \ {0} /\ a \in Int
  BY <1>0
<1>2. d \in Int /\ a % m = a - m * d
  <2> HIDE DEF m, a
  <2> QED BY <1>1, DivMod
<1>3. w + (a % m) * n = (w + n * r) + m * (q - d * n)
  <2>1. (a % m) * n = a * n - (m * d) * n
    <3> HIDE DEF a, m
    <3> QED BY <1>0, <1>1, <1>2
  <2>2. a * n = m * q + n * r
    BY <1>0
  <2>3. m * (q - d * n) = m * q - (m * d) * n
    <3> HIDE DEF a, m, d
    <3> QED BY <1>0, <1>1, <1>2
  <2> HIDE DEF a, m, d
  <2> QED BY <1>0, <1>1, <1>2, <2>1, <2>2, <2>3
<1>4. w + n * r \in 0 .. m - 1
  <2>1. n * r <= n * (k - 1)
    BY <1>0
  <2>2. n * (k - 1) = m - n
    BY <1>0
  <2> QED BY <1>0, <2>1, <2>2
<1>5. q - d * n \in Int
  BY <1>0, <1>2
<1>6. ((w + n * r) + m * (q - d * n)) % m = w + n * r
  <2> HIDE DEF m, d
  <2> QED BY <1>1, <1>4, <1>5, ModUnique
<1>7. (w + (a % m) * n) % m = w + n * r
  <2> HIDE DEF m, d, a
  <2> QED BY <1>3, <1>6
<1>8. SeedList(w, a % MaxWorkers, n) = (w + (a % m) * n) % m
  BY <1>0 DEF SeedList
<1>9. OwnStream(w, r) = w + n * r /\ Stream = 0 .. m - 1
  BY <1>0 DEF OwnStream, Stream, n
<1> HIDE DEF m, d, a
<1> QED BY <1>4, <1>7, <1>8, <1>9 DEF n, k, a

LEMMA StreamOwner ==
  ASSUME NEW s \in Stream
  PROVE  \E w \in Worker, j \in 0 .. StreamsEach - 1 : s = OwnStream(w, j)
<1> DEFINE n == NumWorkers
           k == StreamsEach
           j == s \div n
           w == s % n
<1>1. n \in Nat \ {0} /\ k \in Nat \ {0} /\ s \in Int /\ 0 <= s /\ s < n * k
  BY Sizes DEF Stream
<1> HIDE DEF n, k
<1>2. s = n * j + w /\ j \in Int /\ w \in 0 .. n - 1
  BY <1>1, DivMod
<1> HIDE DEF j, w
<1>3. j * n + w < k * n /\ w \in Nat
  BY <1>1, <1>2
<1>4. j < k
  BY <1>1, <1>2, <1>3, QuotientLess
<1>5. (-1) * n + (n - 1 - w) < j * n
  <2>1. j * n + w >= 0
    BY <1>1, <1>2
  <2> QED BY <1>1, <1>2, <2>1
<1>6. -1 < j
  <2>1. n - 1 - w \in Nat /\ -1 \in Int
    BY <1>1, <1>2
  <2>2. ((-1) * n + (n - 1 - w)) < j * n
    BY <1>5
  <2> QED BY <1>1, <1>2, <2>1, <2>2, QuotientLess
<1>7. s = w + n * j /\ j \in 0 .. k - 1
  BY <1>1, <1>2, <1>4, <1>6
<1> QED BY <1>2, <1>7 DEF OwnStream, Worker, n, k
-----------------------------------------------------------------------------
(***************************************************************************)
(* The inductive invariant.  First the shape of the state, with the parts  *)
(* of TypeOK that need a reason taken out.                                 *)
(***************************************************************************)
Report == [balance : Int, hasOverflowed : BOOLEAN, numLogEntries : 0 .. MaxLogEntries,
           transferLog : [0 .. MaxLogEntries - 1 -> LogRecord \cup {NoEntry}]]

Shape ==
  /\ cmdCount \in [Worker -> Nat]
  /\ nextReport \in [Worker -> Int]
  /\ nextSeed \in [Worker -> Nat]
  /\ drawn \in [Stream -> Nat]
  /\ balance \in [Account -> Int]
  /\ numReports \in 0 .. MaxReports
  /\ daily \in [Period -> Report]
  /\ repLock \in {0, 1} /\ finishCheck \in {0, 1}
  /\ canContinue \in [Worker -> {0, 1}]
  /\ numToFinish \in Int
  /\ pc \in [Worker -> PC]
  /\ cmd \in [Worker -> Command]
  /\ entries \in [Worker -> Seq(LogRecord)]
  /\ period \in [Worker -> Period]
  /\ reg \in [Worker -> Nat]

(***************************************************************************)
(* Every worker draws from streams of its own, in turn, and from none      *)
(* before the ones ahead of it: so no stream runs out.                     *)
(***************************************************************************)
Drawing(w) == IF At(w, "draw") THEN 1 ELSE 0

TurnOf(w, q, r) ==
  /\ nextSeed[w] = q * StreamsEach + r
  /\ \A j \in 0 .. StreamsEach - 1 :
       drawn[OwnStream(w, j)] = q + (IF j < r THEN 1 ELSE 0)

SeedLocal(w) ==
  /\ nextSeed[w] + cmdCount[w] + Drawing(w) = PerWorker(NumWorkers)
  /\ \E q \in Nat, r \in 0 .. StreamsEach - 1 : TurnOf(w, q, r)

SeedInv == \A w \in Worker : SeedLocal(w)

(***************************************************************************)
(* One worker at a time is in Report_Transfer: the slot it found free is   *)
(* still the first free one when it fills it.                              *)
(***************************************************************************)
LogLocal(w) ==
  /\ pc[w] \in {"log"} \cup Logging => entries[w] # << >>
  /\ At(w, "logStore") =>
       reg[w] = daily[period[w]].numLogEntries /\ reg[w] < MaxLogEntries

LogInv ==
  /\ \A v, w \in Worker : v # w /\ pc[v] \in Logging => pc[w] \notin Logging
  /\ repLock = 0 <=> \E w \in Worker : pc[w] \in Logging
  /\ \A r \in Period : \A i \in 0 .. daily[r].numLogEntries - 1 :
       daily[r].transferLog[i] \in LogRecord
  /\ \A w \in Worker : LogLocal(w)

(***************************************************************************)
(* The barrier.  A worker that is let go may come to the barrier again     *)
(* while the last one is still letting others go: those are pending.  The  *)
(* workers that numToFinish has counted are the ones that wait and are not *)
(* pending.                                                                *)
(***************************************************************************)
Counting == {"postReport"} \cup Reporting

Closing == Counting \cup {"release"}

Pending(v) == \E u \in Worker \ {v} : At(u, "release") /\ reg[u] <= v

Counted(v) ==
  \/ pc[v] \in {"postWait"} \cup Counting
  \/ At(v, "blocked") /\ canContinue[v] = 0 /\ ~Pending(v)

CountedSet == {v \in Worker : Counted(v)}

Waits(v) == At(v, "blocked") /\ canContinue[v] = 0

BarrierLocal(w) ==
  /\ At(w, "storeCount") => reg[w] = numToFinish
  /\ pc[w] \notin {"logStore", "repPost", "storeCount", "release"} => reg[w] = 0
  /\ At(w, "release") => reg[w] <= NumWorkers
  /\ canContinue[w] = 1 => At(w, "blocked")
  /\ At(w, "countReport") => numReports < MaxReports
  /\ pc[w] \in Counting => \A v \in Worker \ {w} : Waits(v)
  /\ At(w, "release") => \A v \in Worker \ {w} : reg[w] <= v => Waits(v)

BarrierInv ==
  /\ \A v, w \in Worker : v # w /\ pc[v] \in Finishing => pc[w] \notin Finishing
  /\ finishCheck = 0 <=> \E w \in Worker : pc[w] \in Finishing
  /\ \A v, w \in Worker : v # w /\ pc[v] \in Closing => pc[w] \notin Closing
  /\ numToFinish = NumWorkers - Cardinality(CountedSet)
  /\ \A w \in Worker : BarrierLocal(w)

(***************************************************************************)
(* All workers report after the same commands: from the moment one sees    *)
(* that a report is due, until the barrier opens, nextReport is already    *)
(* the next.                                                               *)
(***************************************************************************)
CheckedIn(v) == pc[v] \in {"arrive"} \cup Finishing \/ Counted(v)

Base(v) == IF CheckedIn(v) THEN nextReport[v] + PerReport(NumWorkers) ELSE nextReport[v]

RoundInv ==
  /\ \A v, w \in Worker : Base(v) = Base(w)
  /\ \A w \in Worker : CheckedIn(w) => cmdCount[w] = Base(w)

DriverInv == Shape /\ SeedInv /\ LogInv /\ BarrierInv /\ RoundInv
-----------------------------------------------------------------------------
(***************************************************************************)
(* A worker's step leaves the other workers' locals alone.                 *)
(***************************************************************************)
SameLocals(v) ==
  /\ pc'[v] = pc[v] /\ reg'[v] = reg[v] /\ cmdCount'[v] = cmdCount[v]
  /\ nextReport'[v] = nextReport[v] /\ nextSeed'[v] = nextSeed[v]
  /\ entries'[v] = entries[v] /\ period'[v] = period[v]

LEMMA OthersLocals ==
  ASSUME Shape, NEW w \in Worker, Step(w), NEW v \in Worker, v # w
  PROVE  SameLocals(v)
<1> USE DEF Shape, SameLocals, generator, local
<1>1. CASE NextDone(w) \/ NextReport(w) \/ NextCommand(w)
  BY <1>1 DEF NextDone, NextReport, NextCommand
<1>2. CASE Draw(w) \/ Execute(w)
  BY <1>2 DEF Draw, Execute
<1>3. CASE RepWait(w) \/ LogPeriod(w) \/ LogEntry(w) \/ LogStore(w) \/ RepPost(w)
  BY <1>3 DEF RepWait, LogPeriod, LogEntry, LogStore, RepPost
<1>4. CASE FinishWait(w) \/ LoadCount(w) \/ StoreCount(w) \/ FinishPost(w) \/ Continue(w)
  BY <1>4 DEF FinishWait, LoadCount, StoreCount, FinishPost, Continue
<1>5. CASE ReportFull(w) \/ ReportBalance(w) \/ CountReport(w)
  BY <1>5 DEF ReportFull, ReportBalance, CountReport
<1>6. CASE ResetCount(w) \/ Release(w) \/ Released(w)
  BY <1>6 DEF ResetCount, Release, Released
<1> QED BY <1>1, <1>2, <1>3, <1>4, <1>5, <1>6 DEF Step

(***************************************************************************)
(* What a worker logs and draws.                                           *)
(***************************************************************************)
LEMMA EntriesSize ==
  ASSUME NEW c \in Command
  PROVE  /\ Entries(c) \in Seq(LogRecord) /\ Len(Entries(c)) \in {0, 1, 2}
         /\ IsTeller(c) <=> Len(Entries(c)) # 0
<1> DEFINE adjs == Adjustments(c)
           n == Len(adjs)
<1>1. adjs \in Seq(AdjustmentRecord) /\ n \in {0, 1, 2} /\ (IsTeller(c) <=> n # 0)
  BY AdjustmentsType
<1> HIDE DEF adjs
<1>3. n \in Nat /\ DOMAIN adjs = 1 .. n /\ \A i \in 1 .. n : adjs[i] \in AdjustmentRecord
  BY <1>1
<1>4. Entries(c) = [i \in 1 .. n |-> [account |-> adjs[i].account, amount |-> adjs[i].amount]]
  BY <1>3 DEF Entries, adjs
<1>5. \A i \in 1 .. n : [account |-> adjs[i].account, amount |-> adjs[i].amount] \in LogRecord
  BY <1>3 DEF AdjustmentRecord, LogRecord
<1> HIDE DEF n
<1>6. Entries(c) \in Seq(LogRecord)
  BY <1>3, <1>4, <1>5
<1>7. Len(Entries(c)) = n
  BY <1>3, <1>4, <1>6
<1> QED BY <1>1, <1>6, <1>7

LEMMA DrawFact ==
  ASSUME Shape, SeedInv, NEW w \in Worker, At(w, "draw"),
         NEW q \in Nat, NEW r \in 0 .. StreamsEach - 1, TurnOf(w, q, r)
  PROVE  /\ StreamOf(w) = OwnStream(w, r) /\ StreamOf(w) \in Stream
         /\ drawn[StreamOf(w)] = q /\ q < StreamLength
         /\ Drawn[StreamOf(w)][q] \in Command
<1>1. StreamOf(w) = OwnStream(w, r) /\ StreamOf(w) \in Stream
  BY StreamNumber DEF StreamOf, TurnOf
<1>2. drawn[StreamOf(w)] = q
  BY <1>1 DEF TurnOf
<1>3. q * StreamsEach + r < StreamLength * StreamsEach
  <2>1. nextSeed[w] + cmdCount[w] + 1 = PerWorker(NumWorkers)
    BY DEF SeedInv, SeedLocal, Drawing
  <2>2. nextSeed[w] \in Nat /\ cmdCount[w] \in Nat
    BY DEF Shape
  <2>3. nextSeed[w] < PerWorker(NumWorkers)
    BY <2>1, <2>2
  <2> QED BY <2>3, Sizes DEF TurnOf
<1>4. q < StreamLength
  BY <1>3, Sizes, QuotientLess
<1>5. q \in 0 .. NumCommands \div MaxWorkers - 1
  BY <1>4, Sizes DEF StreamLength
<1> QED BY <1>1, <1>2, <1>4, <1>5, DriverAssumption

(***************************************************************************)
(* No two workers draw from the same stream.                               *)
(***************************************************************************)
LEMMA SeedsApart ==
  ASSUME NEW v \in Worker, NEW w \in Worker, v # w,
         NEW i \in 0 .. StreamsEach - 1, NEW j \in 0 .. StreamsEach - 1
  PROVE  OwnStream(v, i) # OwnStream(w, j)
<1>1. /\ NumWorkers \in Nat \ {0} /\ v \in 0 .. NumWorkers - 1 /\ w \in 0 .. NumWorkers - 1
      /\ i \in Int /\ j \in Int
  BY Sizes DEF Worker
<1> QED BY <1>1, SumsDiffer DEF OwnStream

LEMMA NoRace == Shape /\ SeedInv => NoSeedRace
<1> SUFFICES ASSUME Shape, SeedInv, NEW v \in Worker, NEW w \in Worker, v # w,
                    At(v, "draw"), At(w, "draw")
             PROVE  StreamOf(v) # StreamOf(w)
  BY DEF NoSeedRace
<1>1. PICK q \in Nat, r \in 0 .. StreamsEach - 1 : TurnOf(v, q, r)
  BY DEF SeedInv, SeedLocal
<1>2. PICK p \in Nat, s \in 0 .. StreamsEach - 1 : TurnOf(w, p, s)
  BY DEF SeedInv, SeedLocal
<1>3. StreamOf(v) = OwnStream(v, r)
  BY <1>1, DrawFact
<1>4. StreamOf(w) = OwnStream(w, s)
  BY <1>2, DrawFact
<1> QED BY <1>3, <1>4, SeedsApart
-----------------------------------------------------------------------------
(***************************************************************************)
(* The shape of the state, step by step.                                   *)
(***************************************************************************)
LEMMA ShapeGenerator ==
  ASSUME Shape, SeedInv, NEW w \in Worker,
         NextDone(w) \/ NextReport(w) \/ NextCommand(w) \/ Draw(w) \/ Execute(w)
  PROVE  Shape'
<1> USE DEF Shape, generator, bank, barrier, local, PC
<1>1. CASE NextDone(w)
  BY <1>1 DEF NextDone
<1>2. CASE NextReport(w)
  BY <1>2, Sizes DEF NextReport
<1>3. CASE NextCommand(w)
  BY <1>3 DEF NextCommand
<1>4. CASE Draw(w)
  <2>1. PICK q \in Nat, r \in 0 .. StreamsEach - 1 : TurnOf(w, q, r)
    BY DEF SeedInv, SeedLocal
  <2>2. Drawn[StreamOf(w)][drawn[StreamOf(w)]] \in Command /\ StreamOf(w) \in Stream
    BY <1>4, <2>1, DrawFact DEF Draw
  <2> HIDE DEF PC
  <2>3. "command" \in PC
    BY DEF PC
  <2> QED BY <1>4, <2>2, <2>3 DEF Draw
<1>5. CASE Execute(w)
  <2>1. NoCommand \in Command
    BY SizeAssumption DEF NoCommand, BankBalance, Command, Op, Account, Branch, SubAccount
  <2>2. cmd[w] \in Command
    OBVIOUS
  <2>3. <<0, 0>> \in Account
    BY SizeAssumption DEF Account, Branch, SubAccount
  <2>4. Applied(balance, cmd[w]) \in [Account -> Int]
    BY <2>2, <2>3, AppliedFact
  <2>5. IsTeller(cmd[w]) => Entries(cmd[w]) \in Seq(LogRecord)
    BY <2>2, EntriesSize
  <2> HIDE DEF PC
  <2>6. "next" \in PC /\ "log" \in PC
    BY DEF PC
  <2> QED BY <1>5, <2>1, <2>4, <2>5, <2>6 DEF Execute
<1> QED BY <1>1, <1>2, <1>3, <1>4, <1>5

LEMMA LoggedType ==
  ASSUME NEW d \in Report, NEW n \in 0 .. MaxLogEntries - 1, NEW e \in LogRecord
  PROVE  /\ Logged(d, n, e) \in Report
         /\ Logged(d, n, e).numLogEntries = n + 1
         /\ Logged(d, n, e).transferLog = [d.transferLog EXCEPT ![n] = e]
<1>1. n + 1 \in 0 .. MaxLogEntries
  BY DriverAssumption
<1> QED BY <1>1 DEF Logged, Report

LEMMA ShapeLog ==
  ASSUME Shape, LogInv, NEW w \in Worker,
         RepWait(w) \/ LogPeriod(w) \/ LogEntry(w) \/ LogStore(w) \/ RepPost(w)
  PROVE  Shape'
<1> USE DEF Shape, generator, bank, barrier, local
<1>0. Logging \subseteq PC /\ "log" \in PC /\ "next" \in PC /\ MaxLogEntries \in Nat
  BY DriverAssumption DEF PC
<1>1. CASE RepWait(w)
  BY <1>0, <1>1 DEF RepWait, Logging
<1>2. CASE LogPeriod(w)
  <2>1. numReports < MaxReports => numReports \in Period
    BY DriverAssumption DEF Period
  <2>2. ~(numReports >= MaxReports) => numReports < MaxReports
    BY DriverAssumption
  <2> QED BY <1>0, <1>2, <2>1, <2>2 DEF LogPeriod, Logging
<1>3. CASE LogEntry(w)
  <2> DEFINE r == period[w]
             d == [daily[r] EXCEPT !.hasOverflowed = TRUE]
  <2>1. r \in Period /\ daily[r] \in Report
    OBVIOUS
  <2>2. d \in Report /\ daily[r].numLogEntries \in Nat
    <3> DEFINE e == daily[r]
    <3>1. e \in Report
      BY <2>1
    <3> HIDE DEF e
    <3>2. [e EXCEPT !.hasOverflowed = TRUE] \in Report
      BY <3>1 DEF Report
    <3>3. e.numLogEntries \in 0 .. MaxLogEntries
      BY <3>1 DEF Report
    <3> QED BY <1>0, <3>2, <3>3 DEF e
  <2>3. [daily EXCEPT ![r].hasOverflowed = TRUE] = [daily EXCEPT ![r] = d]
    BY <2>1
  <2> HIDE DEF d
  <2>4. [daily EXCEPT ![r] = d] \in [Period -> Report]
    BY <2>1, <2>2
  <2>5. daily' = daily \/ daily' = [daily EXCEPT ![r] = d]
    BY <1>3, <2>3 DEF LogEntry
  <2>6. daily' \in [Period -> Report]
    BY <2>4, <2>5
  <2>7. pc' \in [Worker -> PC] /\ reg' \in [Worker -> Nat]
    BY <1>0, <1>3, <2>2 DEF LogEntry, Logging
  <2> QED BY <1>3, <2>6, <2>7 DEF LogEntry
<1>4. CASE LogStore(w)
  <2> DEFINE d == Logged(daily[period[w]], reg[w], Head(entries[w]))
  <2>1. /\ period[w] \in Period /\ daily[period[w]] \in Report
        /\ reg[w] \in 0 .. MaxLogEntries - 1 /\ Head(entries[w]) \in LogRecord
    <3>1. reg[w] < MaxLogEntries /\ entries[w] # << >>
      BY <1>4 DEF LogStore, LogInv, LogLocal, Logging
    <3>2. reg[w] \in 0 .. MaxLogEntries - 1
      BY <1>0, <3>1
    <3>3. Head(entries[w]) \in LogRecord
      BY <3>1
    <3> QED BY <3>2, <3>3
  <2>2. d \in Report
    BY <2>1, LoggedType
  <2>3. daily' = [daily EXCEPT ![period[w]] = d]
    BY <1>4 DEF LogStore
  <2> HIDE DEF d
  <2> QED BY <1>0, <1>4, <2>1, <2>2, <2>3 DEF LogStore, Logging
<1>5. CASE RepPost(w)
  <2>1. repLock = 0 /\ entries[w] # << >>
    BY <1>5 DEF RepPost, LogInv, LogLocal, Logging
  <2>2. Tail(entries[w]) \in Seq(LogRecord) /\ 0 \in Period
    BY <2>1, DriverAssumption DEF Period
  <2> QED BY <1>0, <1>5, <2>1, <2>2 DEF RepPost
<1> QED BY <1>1, <1>2, <1>3, <1>4, <1>5

LEMMA ShapeBarrier ==
  ASSUME Shape, BarrierInv, NEW w \in Worker,
         FinishWait(w) \/ LoadCount(w) \/ StoreCount(w) \/ FinishPost(w) \/ Continue(w),
         numToFinish \in Nat
  PROVE  Shape'
<1> USE DEF Shape, generator, bank, barrier, local
<1>0. Finishing \subseteq PC /\ {"blocked", "report", "next"} \subseteq PC
  BY DEF PC, Reporting
<1>1. CASE FinishWait(w)
  BY <1>0, <1>1 DEF FinishWait, Finishing
<1>2. CASE LoadCount(w)
  BY <1>0, <1>2 DEF LoadCount, Finishing
<1>3. CASE StoreCount(w)
  BY <1>0, <1>3 DEF StoreCount, Finishing
<1>4. CASE FinishPost(w)
  <2>1. finishCheck = 0
    BY <1>4 DEF FinishPost, BarrierInv, Finishing
  <2> QED BY <1>0, <1>4, <2>1 DEF FinishPost
<1>5. CASE Continue(w)
  BY <1>0, <1>5 DEF Continue
<1> QED BY <1>1, <1>2, <1>3, <1>4, <1>5

LEMMA ShapeReport ==
  ASSUME Shape, BarrierInv, NEW w \in Worker,
         ReportFull(w) \/ ReportBalance(w) \/ CountReport(w)
           \/ ResetCount(w) \/ Release(w) \/ Released(w)
  PROVE  Shape'
<1> USE DEF Shape, generator, bank, barrier, local
<1>0. Reporting \subseteq PC /\ {"release", "next"} \subseteq PC
  BY DEF PC
<1>1. CASE ReportFull(w)
  BY <1>0, <1>1 DEF ReportFull, Reporting
<1>2. CASE ReportBalance(w)
  <2> DEFINE d == [daily[numReports] EXCEPT !.balance = BankTotal(balance)]
  <2>1. numReports \in Period /\ daily[numReports] \in Report
    BY <1>2, DriverAssumption DEF ReportBalance, Period
  <2>2. BankTotal(balance) \in Int
    BY FiniteData, SumFact DEF BankTotal
  <2>3. d \in Report
    BY <2>1, <2>2 DEF Report
  <2>4. daily' = [daily EXCEPT ![numReports] = d]
    BY <1>2, <2>1 DEF ReportBalance
  <2> HIDE DEF d
  <2>5. daily' \in [Period -> Report]
    BY <2>1, <2>3, <2>4
  <2>6. pc' \in [Worker -> PC]
    BY <1>0, <1>2 DEF ReportBalance, Reporting
  <2> QED BY <1>2, <2>5, <2>6 DEF ReportBalance
<1>3. CASE CountReport(w)
  <2>1. numReports < MaxReports
    BY <1>3 DEF CountReport, BarrierInv, BarrierLocal
  <2>2. numReports + 1 \in 0 .. MaxReports
    BY <2>1, DriverAssumption
  <2> QED BY <1>0, <1>3, <2>2 DEF CountReport, Reporting
<1>4. CASE ResetCount(w)
  BY <1>0, <1>4, Sizes DEF ResetCount
<1>5. CASE Release(w)
  <2>1. reg[w] \in Worker
    BY <1>5, Sizes, SMTT(30) DEF Release, Worker
  <2>2. reg[w] # w => canContinue[reg[w]] = 0
    <3>1. reg[w] <= reg[w] /\ At(w, "release") /\ BarrierLocal(w)
      BY <1>5 DEF Release, BarrierInv
    <3>2. \A v \in Worker \ {w} : reg[w] <= v => Waits(v)
      BY <3>1 DEF BarrierLocal
    <3> QED BY <2>1, <3>1, <3>2 DEF Waits
  <2> QED BY <1>0, <1>5, <2>1, <2>2 DEF Release
<1>6. CASE Released(w)
  BY <1>0, <1>6 DEF Released
<1> QED BY <1>1, <1>2, <1>3, <1>4, <1>5, <1>6
-----------------------------------------------------------------------------
(***************************************************************************)
(* A draw takes the next command of the stream whose turn it is.           *)
(***************************************************************************)
LEMMA DrawTurn ==
  ASSUME Shape, SeedInv, NEW w \in Worker, Draw(w)
  PROVE  /\ \E q \in Nat, r \in 0 .. StreamsEach - 1 : TurnOf(w, q, r)'
         /\ \A v \in Worker \ {w} : \A j \in 0 .. StreamsEach - 1 :
              drawn'[OwnStream(v, j)] = drawn[OwnStream(v, j)]
<1> DEFINE K == StreamsEach
<1>1. PICK q \in Nat, r \in 0 .. StreamsEach - 1 : TurnOf(w, q, r)
  BY DEF SeedInv, SeedLocal
<1>2. /\ StreamOf(w) = OwnStream(w, r) /\ StreamOf(w) \in Stream
      /\ drawn[StreamOf(w)] = q
  BY <1>1, DrawFact DEF Draw
<1>3. /\ \A s \in Stream : drawn'[s] = IF s = OwnStream(w, r) THEN q + 1 ELSE drawn[s]
      /\ nextSeed'[w] = q * K + r + 1
  BY <1>1, <1>2 DEF Draw, Shape, TurnOf
<1>4. \A v \in Worker : \A j \in 0 .. K - 1 : OwnStream(v, j) \in Stream
  BY <1>1, StreamNumber
<1>5. \A v \in Worker \ {w} : \A j \in 0 .. K - 1 : drawn'[OwnStream(v, j)] = drawn[OwnStream(v, j)]
  BY <1>3, <1>4, SeedsApart
<1>6. ASSUME NEW j \in 0 .. K - 1
      PROVE  drawn'[OwnStream(w, j)] = q + (IF j <= r THEN 1 ELSE 0)
  <2>1. OwnStream(w, j) = OwnStream(w, r) => j = r
    <3>1. NumWorkers \in Nat \ {0} /\ w \in 0 .. NumWorkers - 1 /\ j \in Int /\ r \in Int
      BY Sizes DEF Worker
    <3> QED BY <3>1, SumsDiffer DEF OwnStream
  <2>2. drawn[OwnStream(w, j)] = q + (IF j < r THEN 1 ELSE 0)
    BY <1>1 DEF TurnOf
  <2>3. drawn'[OwnStream(w, j)] = IF j = r THEN q + 1 ELSE q + (IF j < r THEN 1 ELSE 0)
    BY <1>3, <1>4, <2>1, <2>2
  <2> QED BY <2>3
<1>7. CASE r + 1 < K
  <2>1. r + 1 \in 0 .. K - 1 /\ q * K + r + 1 = q * K + (r + 1)
    BY <1>7, Sizes
  <2>2. \A j \in 0 .. K - 1 : j <= r <=> j < r + 1
    OBVIOUS
  <2>3. TurnOf(w, q, r + 1)'
    BY <1>3, <1>6, <2>1, <2>2 DEF TurnOf
  <2> QED BY <1>5, <2>1, <2>3
<1>8. CASE ~(r + 1 < K)
  <2>1. r = K - 1 /\ q * K + r + 1 = (q + 1) * K + 0 /\ 0 \in 0 .. K - 1 /\ q + 1 \in Nat
    BY <1>8, Sizes
  <2>2. \A j \in 0 .. K - 1 : j <= r /\ ~(j < 0)
    BY <2>1
  <2>3. \A j \in 0 .. K - 1 : drawn'[OwnStream(w, j)] = q + 1 + (IF j < 0 THEN 1 ELSE 0)
    BY <1>6, <2>2
  <2>4. TurnOf(w, q + 1, 0)'
    BY <1>3, <2>1, <2>3 DEF TurnOf
  <2> QED BY <1>5, <2>1, <2>4
<1> QED BY <1>7, <1>8

LEMMA SeedQuiet ==
  ASSUME Shape, NEW w \in Worker, Step(w), ~NextCommand(w), ~Draw(w)
  PROVE  /\ drawn' = drawn /\ nextSeed' = nextSeed /\ cmdCount' = cmdCount
         /\ ~At(w, "draw") /\ ~At(w, "draw")'
<1> USE DEF Shape, generator
<1>1. CASE NextDone(w) \/ NextReport(w) \/ Execute(w)
  BY <1>1 DEF NextDone, NextReport, Execute
<1>2. CASE RepWait(w) \/ LogPeriod(w) \/ LogEntry(w) \/ LogStore(w) \/ RepPost(w)
  BY <1>2 DEF RepWait, LogPeriod, LogEntry, LogStore, RepPost
<1>3. CASE FinishWait(w) \/ LoadCount(w) \/ StoreCount(w) \/ FinishPost(w) \/ Continue(w)
  BY <1>3 DEF FinishWait, LoadCount, StoreCount, FinishPost, Continue
<1>4. CASE ReportFull(w) \/ ReportBalance(w) \/ CountReport(w)
  BY <1>4 DEF ReportFull, ReportBalance, CountReport
<1>5. CASE ResetCount(w) \/ Release(w) \/ Released(w)
  BY <1>5 DEF ResetCount, Release, Released
<1> QED BY <1>1, <1>2, <1>3, <1>4, <1>5 DEF Step

LEMMA SeedOthers ==
  ASSUME Shape, SeedInv, NEW w \in Worker, Step(w), NEW v \in Worker, v # w
  PROVE  SeedLocal(v)'
<1>1. SameLocals(v)
  BY OthersLocals
<1>2. PICK q \in Nat, r \in 0 .. StreamsEach - 1 : TurnOf(v, q, r)
  BY DEF SeedInv, SeedLocal
<1>3. \A j \in 0 .. StreamsEach - 1 : drawn'[OwnStream(v, j)] = drawn[OwnStream(v, j)]
  <2>1. CASE Draw(w)
    BY <2>1, DrawTurn
  <2>2. CASE ~Draw(w)
    BY <2>2, SeedQuiet DEF NextCommand
  <2> QED BY <2>1, <2>2
<1>4. TurnOf(v, q, r)'
  BY <1>1, <1>2, <1>3 DEF TurnOf, SameLocals
<1>5. nextSeed[v] + cmdCount[v] + Drawing(v) = PerWorker(NumWorkers)
  BY DEF SeedInv, SeedLocal
<1>6. (nextSeed[v] + cmdCount[v] + Drawing(v) = PerWorker(NumWorkers))'
  BY <1>1, <1>5 DEF SameLocals, Drawing
<1> QED BY <1>2, <1>4, <1>6 DEF SeedLocal

LEMMA SeedOwn ==
  ASSUME Shape, SeedInv, NEW w \in Worker, Step(w)
  PROVE  SeedLocal(w)'
<1>0. /\ nextSeed[w] \in Nat /\ cmdCount[w] \in Nat
      /\ nextSeed[w] + cmdCount[w] + Drawing(w) = PerWorker(NumWorkers)
      /\ \E q \in Nat, r \in 0 .. StreamsEach - 1 : TurnOf(w, q, r)
  BY DEF Shape, SeedInv, SeedLocal
<1>1. CASE NextCommand(w)
  <2>1. /\ drawn' = drawn /\ nextSeed' = nextSeed /\ cmdCount'[w] = cmdCount[w] - 1
        /\ At(w, "next") /\ At(w, "draw")'
    BY <1>1 DEF NextCommand, Shape
  <2>2. Drawing(w) = 0 /\ Drawing(w)' = 1
    BY <2>1 DEF Drawing
  <2> QED BY <1>0, <2>1, <2>2 DEF SeedLocal, TurnOf
<1>2. CASE Draw(w)
  <2>1. /\ cmdCount' = cmdCount /\ nextSeed'[w] = nextSeed[w] + 1
        /\ At(w, "draw") /\ At(w, "command")'
    BY <1>2 DEF Draw, Shape
  <2>2. Drawing(w) = 1 /\ Drawing(w)' = 0
    BY <2>1 DEF Drawing
  <2>3. \E q \in Nat, r \in 0 .. StreamsEach - 1 : TurnOf(w, q, r)'
    BY <1>2, DrawTurn
  <2> QED BY <1>0, <2>1, <2>2, <2>3 DEF SeedLocal
<1>3. CASE ~NextCommand(w) /\ ~Draw(w)
  BY <1>0, <1>3, SeedQuiet DEF SeedLocal, TurnOf, Drawing
<1> QED BY <1>1, <1>2, <1>3

LEMMA SeedStep ==
  ASSUME Shape, SeedInv, NEW w \in Worker, Step(w)
  PROVE  SeedInv'
BY SeedOthers, SeedOwn DEF SeedInv
-----------------------------------------------------------------------------
(***************************************************************************)
(* The semaphore of the log.                                               *)
(***************************************************************************)
LEMMA LogQuiet ==
  ASSUME Shape, NEW w \in Worker, Step(w), ~RepWait(w), ~LogPeriod(w), ~LogEntry(w),
         ~LogStore(w), ~RepPost(w)
  PROVE  /\ repLock' = repLock /\ pc[w] \notin Logging /\ pc'[w] \notin Logging
         /\ pc'[w] = "log" => At(w, "command") /\ Execute(w)
<1> USE DEF Shape, generator, Logging
<1>1. CASE NextDone(w) \/ NextReport(w) \/ NextCommand(w) \/ Draw(w) \/ Execute(w)
  BY <1>1 DEF NextDone, NextReport, NextCommand, Draw, Execute
<1>2. CASE FinishWait(w) \/ LoadCount(w) \/ StoreCount(w) \/ FinishPost(w) \/ Continue(w)
  BY <1>2 DEF FinishWait, LoadCount, StoreCount, FinishPost, Continue
<1>3. CASE ReportFull(w) \/ ReportBalance(w) \/ CountReport(w)
  BY <1>3 DEF ReportFull, ReportBalance, CountReport
<1>4. CASE ResetCount(w) \/ Release(w) \/ Released(w)
  BY <1>4 DEF ResetCount, Release, Released
<1> QED BY <1>1, <1>2, <1>3, <1>4 DEF Step

SameLogs ==
  \A r \in Period : /\ daily'[r].numLogEntries = daily[r].numLogEntries
                    /\ daily'[r].transferLog = daily[r].transferLog

LEMMA LogsKept ==
  ASSUME Shape, Shape', NEW w \in Worker, Step(w), ~LogStore(w)
  PROVE  SameLogs
<1> USE DEF Shape, SameLogs, bank
<1>1. CASE NextDone(w) \/ NextReport(w) \/ NextCommand(w) \/ Draw(w) \/ Execute(w)
  BY <1>1 DEF NextDone, NextReport, NextCommand, Draw, Execute
<1>2. CASE RepWait(w) \/ LogPeriod(w) \/ RepPost(w)
  BY <1>2 DEF RepWait, LogPeriod, RepPost
<1>3. CASE LogEntry(w)
  <2>1. period[w] \in Period
    OBVIOUS
  <2>2. daily' = daily \/ daily' = [daily EXCEPT ![period[w]].hasOverflowed = TRUE]
    BY <1>3 DEF LogEntry
  <2> DEFINE p == period[w]
             d == [daily[p] EXCEPT !.hasOverflowed = TRUE]
  <2>3. daily' = daily \/ daily' = [daily EXCEPT ![p] = d]
    BY <2>1, <2>2
  <2>4. daily[p] \in Report
    BY <2>1
  <2>5. d.numLogEntries = daily[p].numLogEntries /\ d.transferLog = daily[p].transferLog
    BY <2>4 DEF Report
  <2> HIDE DEF d, p
  <2>6. \A r \in Period : daily'[r] = daily[r] \/ (r = p /\ daily'[r] = d)
    BY <2>3
  <2> QED BY <2>5, <2>6
<1>4. CASE FinishWait(w) \/ LoadCount(w) \/ StoreCount(w) \/ FinishPost(w) \/ Continue(w)
  BY <1>4 DEF FinishWait, LoadCount, StoreCount, FinishPost, Continue
<1>5. CASE ReportFull(w) \/ CountReport(w)
  BY <1>5 DEF ReportFull, CountReport
<1>6. CASE ReportBalance(w)
  <2>1. daily' = [daily EXCEPT ![numReports].balance = BankTotal(balance)]
    BY <1>6 DEF ReportBalance
  <2>2. \A r \in Period : daily[r] \in Report
    OBVIOUS
  <2> QED BY <2>1, <2>2 DEF Report
<1>7. CASE ResetCount(w) \/ Release(w) \/ Released(w)
  BY <1>7 DEF ResetCount, Release, Released
<1> QED BY <1>1, <1>2, <1>3, <1>4, <1>5, <1>6, <1>7 DEF Step

(***************************************************************************)
(* The entry goes to the first free slot.                                  *)
(***************************************************************************)
LEMMA StoreLogged ==
  ASSUME Shape, LogInv, NEW w \in Worker, LogStore(w)
  PROVE  \A r \in Period : \A i \in 0 .. daily'[r].numLogEntries - 1 :
           daily'[r].transferLog[i] \in LogRecord
<1> DEFINE p == period[w]
           n == reg[w]
           e == Head(entries[w])
           d == daily[p]
<1>1. p \in Period /\ d \in Report /\ e \in LogRecord
  BY DEF Shape, LogStore, LogInv, LogLocal, Logging
<1>2. n = d.numLogEntries /\ n \in 0 .. MaxLogEntries - 1
  BY DriverAssumption DEF Shape, LogStore, LogInv, LogLocal
<1>3. \A i \in 0 .. n - 1 : d.transferLog[i] \in LogRecord
  BY <1>1, <1>2 DEF LogInv
<1>4. daily' = [daily EXCEPT ![p] = Logged(d, n, e)]
  BY DEF LogStore
<1>5. /\ Logged(d, n, e).numLogEntries = n + 1
      /\ Logged(d, n, e).transferLog = [d.transferLog EXCEPT ![n] = e]
  BY <1>1, <1>2, LoggedType
<1>6. d.transferLog \in [0 .. MaxLogEntries - 1 -> LogRecord \cup {NoEntry}]
  BY <1>1 DEF Report
<1> SUFFICES ASSUME NEW r \in Period, NEW i \in 0 .. daily'[r].numLogEntries - 1
             PROVE  daily'[r].transferLog[i] \in LogRecord
  OBVIOUS
<1>7. CASE r = p
  <2>1. daily'[r] = Logged(d, n, e)
    BY <1>1, <1>4, <1>7 DEF Shape
  <2> HIDE DEF d, n, e
  <2>2. i \in 0 .. n
    BY <1>2, <1>5, <2>1
  <2>3. i \in 0 .. MaxLogEntries - 1
    BY <1>2, <2>2, DriverAssumption
  <2>4. daily'[r].transferLog[i] = IF i = n THEN e ELSE d.transferLog[i]
    BY <1>5, <1>6, <2>1, <2>3
  <2>5. i # n => i \in 0 .. n - 1
    BY <1>2, <2>2, DriverAssumption
  <2> QED BY <1>1, <1>3, <2>4, <2>5
<1>8. CASE r # p
  <2>1. daily'[r] = daily[r]
    BY <1>4, <1>8 DEF Shape
  <2> QED BY <2>1 DEF LogInv
<1> QED BY <1>7, <1>8

LEMMA LogStep ==
  ASSUME Shape, Shape', LogInv, NEW w \in Worker, Step(w)
  PROVE  LogInv'
<1> DEFINE Only == \A v \in Worker \ {w} : pc[v] \notin Logging
           Records == \A r \in Period : \A i \in 0 .. daily[r].numLogEntries - 1 :
                        daily[r].transferLog[i] \in LogRecord
<1>0. \A v \in Worker \ {w} : SameLocals(v)
  BY OthersLocals
<1>1. Records'
  <2>1. CASE LogStore(w)
    BY <2>1, StoreLogged
  <2>2. CASE ~LogStore(w)
    <3>1. SameLogs
      BY <2>2, LogsKept
    <3> QED BY <3>1 DEF SameLogs, LogInv
  <2> QED BY <2>1, <2>2
<1>2. ASSUME NEW v \in Worker, v # w PROVE LogLocal(v)'
  <2>1. SameLocals(v) /\ LogLocal(v) /\ period[v] \in Period
    BY <1>0, <1>2 DEF LogInv, Shape
  <2>2. CASE At(v, "logStore")
    <3>1. ~LogStore(w)
      BY <1>2, <2>2 DEF LogInv, LogStore, Logging
    <3>2. SameLogs
      BY <3>1, LogsKept
    <3> QED BY <2>1, <2>2, <3>2 DEF LogLocal, SameLocals, SameLogs
  <2>3. CASE ~At(v, "logStore")
    BY <2>1, <2>3 DEF LogLocal, SameLocals
  <2> QED BY <2>2, <2>3
<1>3. CASE RepWait(w)
  <2>1. /\ repLock = 1 /\ repLock' = 0 /\ At(w, "log") /\ pc'[w] = "logPeriod"
        /\ entries' = entries
    BY <1>3 DEF RepWait, Shape, local
  <2>2. Only
    BY <2>1 DEF LogInv
  <2>3. LogLocal(w)'
    BY <2>1 DEF LogInv, LogLocal
  <2> QED BY <1>0, <1>1, <1>2, <2>1, <2>2, <2>3 DEF LogInv, SameLocals, Logging
<1>4. CASE LogPeriod(w) \/ LogEntry(w) \/ LogStore(w)
  <2>1. /\ pc[w] \in Logging /\ pc'[w] \in Logging /\ repLock' = repLock /\ entries' = entries
    BY <1>4 DEF LogPeriod, LogEntry, LogStore, Shape, Logging, local
  <2>2. Only
    BY <2>1 DEF LogInv
  <2>3. LogLocal(w)'
    <3>1. CASE LogEntry(w)
      <4>1. pc'[w] = "logStore" => /\ reg'[w] = daily[period[w]].numLogEntries
                                   /\ ~(daily[period[w]].numLogEntries >= MaxLogEntries)
                                   /\ daily' = daily /\ period' = period
        BY <3>1 DEF LogEntry, Shape
      <4>2. daily[period[w]].numLogEntries \in 0 .. MaxLogEntries /\ MaxLogEntries \in Nat
        BY DriverAssumption DEF Shape, Report
      <4>3. ~(daily[period[w]].numLogEntries >= MaxLogEntries) =>
               daily[period[w]].numLogEntries < MaxLogEntries
        BY <4>2
      <4> QED BY <2>1, <4>1, <4>3 DEF LogInv, LogLocal
    <3>2. CASE LogPeriod(w) \/ LogStore(w)
      <4>1. pc'[w] # "logStore"
        BY <3>2 DEF LogPeriod, LogStore, Shape
      <4> QED BY <2>1, <4>1 DEF LogInv, LogLocal
    <3> QED BY <1>4, <3>1, <3>2
  <2> QED BY <1>0, <1>1, <1>2, <2>1, <2>2, <2>3 DEF LogInv, SameLocals
<1>5. CASE RepPost(w)
  <2>1. /\ At(w, "repPost") /\ pc'[w] = IF Len(entries[w]) > 1 THEN "log" ELSE "next"
        /\ entries'[w] = Tail(entries[w]) /\ repLock' = repLock + 1
        /\ entries[w] \in Seq(LogRecord)
    BY <1>5 DEF RepPost, Shape
  <2>2. Only /\ repLock = 0 /\ entries[w] # << >>
    BY <2>1 DEF LogInv, LogLocal, Logging
  <2>3. Len(entries[w]) > 1 => Tail(entries[w]) # << >>
    <3> DEFINE s == entries[w]
    <3>1. s \in Seq(LogRecord) /\ s # << >>
      BY <2>1, <2>2
    <3> HIDE DEF s
    <3> DEFINE rest == Tail(s)
    <3>2. Len(rest) = Len(s) - 1 /\ Len(s) \in Nat /\ Len(<< >>) = 0
      BY <3>1
    <3> HIDE DEF rest
    <3>3. Len(s) > 1 => rest # << >>
      BY <3>2
    <3> QED BY <3>3 DEF s, rest
  <2>4. LogLocal(w)'
    BY <2>1, <2>3 DEF LogLocal, Logging
  <2>5. pc'[w] \notin Logging
    BY <2>1 DEF Logging
  <2> QED BY <1>0, <1>1, <1>2, <2>1, <2>2, <2>4, <2>5 DEF LogInv, SameLocals
<1>6. CASE ~(RepWait(w) \/ LogPeriod(w) \/ LogEntry(w) \/ LogStore(w) \/ RepPost(w))
  <2>1. /\ repLock' = repLock /\ pc[w] \notin Logging /\ pc'[w] \notin Logging
        /\ pc'[w] = "log" => At(w, "command") /\ Execute(w)
    BY <1>6, LogQuiet
  <2>2. Execute(w) /\ pc'[w] = "log" => entries'[w] # << >>
    <3>1. cmd[w] \in Command
      BY DEF Shape
    <3>2. IsTeller(cmd[w]) => Entries(cmd[w]) # << >>
      BY <3>1, EntriesSize
    <3> QED BY <3>1, <3>2 DEF Execute, Shape
  <2>3. LogLocal(w)'
    BY <2>1, <2>2 DEF LogLocal, Logging
  <2> QED BY <1>0, <1>1, <1>2, <2>1, <2>3 DEF LogInv, SameLocals
<1> QED BY <1>3, <1>4, <1>5, <1>6
-----------------------------------------------------------------------------
(***************************************************************************)
(* How many workers a set has.                                             *)
(***************************************************************************)
LEMMA WorkersCounted ==
  ASSUME NEW S \in SUBSET Worker
  PROVE  /\ Cardinality(S) \in 0 .. NumWorkers
         /\ Cardinality(S) = NumWorkers => S = Worker
         /\ S = {} => Cardinality(S) = 0
         /\ \A w \in Worker \ S : Cardinality(S \cup {w}) = Cardinality(S) + 1
<1>1. IsFiniteSet(Worker) /\ Cardinality(Worker) = NumWorkers
  <2>1. 0 \in Int /\ NumWorkers - 1 \in Int
    BY Sizes
  <2>2. /\ IsFiniteSet(0 .. NumWorkers - 1)
        /\ Cardinality(0 .. NumWorkers - 1) =
             IF 0 > NumWorkers - 1 THEN 0 ELSE (NumWorkers - 1) - 0 + 1
    BY <2>1, FS_Interval
  <2> QED BY <2>2, Sizes DEF Worker
<1>2. IsFiniteSet(S) /\ Cardinality(S) <= NumWorkers /\ (Cardinality(S) = NumWorkers => S = Worker)
  BY <1>1, FS_Subset
<1>3. Cardinality(S) \in Nat
  BY <1>2, FS_CardinalityType
<1>4. \A w \in Worker \ S : Cardinality(S \cup {w}) = Cardinality(S) + 1
  BY <1>2, FS_AddElement
<1>5. S = {} => Cardinality(S) = 0
  BY FS_EmptySet
<1> QED BY <1>2, <1>3, <1>4, <1>5, Sizes

LEMMA CountRange == BarrierInv => numToFinish \in 0 .. NumWorkers
<1>1. CountedSet \in SUBSET Worker
  BY DEF CountedSet
<1>2. Cardinality(CountedSet) \in 0 .. NumWorkers
  BY <1>1, WorkersCounted
<1> QED BY <1>2, Sizes DEF BarrierInv

(***************************************************************************)
(* A worker that waits takes no step, so none is taken while the one that  *)
(* came last reports, but by that one.                                     *)
(***************************************************************************)
LEMMA WaitersStuck ==
  ASSUME NEW w \in Worker, Step(w)
  PROVE  ~Waits(w)
<1>1. CASE Continue(w)
  <2>1. canContinue[w] # 0
    BY <1>1 DEF Continue
  <2> QED BY <2>1 DEF Waits
<1>2. CASE ~Continue(w)
  <2>1. ~At(w, "blocked")
    BY <1>2 DEF Step, NextDone, NextReport, NextCommand, Draw, Execute, RepWait, LogPeriod,
                LogEntry, LogStore, RepPost, FinishWait, LoadCount, StoreCount, FinishPost,
                ReportFull, ReportBalance, CountReport, ResetCount, Release, Released
  <2> QED BY <2>1 DEF Waits
<1> QED BY <1>1, <1>2

LEMMA OneCounts ==
  ASSUME BarrierInv, NEW w \in Worker, Step(w), NEW v \in Worker, v # w
  PROVE  pc[v] \notin Counting
BY WaitersStuck DEF BarrierInv, BarrierLocal

(***************************************************************************)
(* The steps that have nothing to do with the barrier.                     *)
(***************************************************************************)
Plain == {"next", "draw", "command", "log", "arrive", "done"} \cup Logging

LEMMA PlainFact ==
  /\ Plain \cap Finishing = {} /\ Plain \cap Closing = {} /\ Plain \cap Counting = {}
  /\ Plain \cap {"blocked", "postWait", "storeCount", "release", "countReport"} = {}
BY DEF Plain, Logging, Finishing, Closing, Counting, Reporting

Aside(w) ==
  \/ NextDone(w) \/ NextReport(w) \/ NextCommand(w) \/ Draw(w) \/ Execute(w)
  \/ RepWait(w) \/ LogPeriod(w) \/ LogEntry(w) \/ LogStore(w) \/ RepPost(w)

LEMMA AsidePlain ==
  ASSUME Shape, BarrierInv, NEW w \in Worker, Aside(w)
  PROVE  /\ pc[w] \in Plain /\ pc'[w] \in Plain
         /\ finishCheck' = finishCheck /\ numToFinish' = numToFinish
         /\ canContinue' = canContinue /\ numReports' = numReports
         /\ pc'[w] \notin {"logStore", "repPost"} => reg'[w] = 0
<1> USE DEF Shape, Plain, Logging, bank, barrier, local
<1>0. pc[w] \notin {"logStore", "repPost", "storeCount", "release"} => reg[w] = 0
  BY DEF BarrierInv, BarrierLocal
<1>1. CASE NextDone(w) \/ NextReport(w) \/ NextCommand(w)
  BY <1>0, <1>1 DEF NextDone, NextReport, NextCommand
<1>2. CASE Draw(w) \/ Execute(w)
  BY <1>0, <1>2 DEF Draw, Execute
<1>3. CASE RepWait(w) \/ LogPeriod(w)
  BY <1>0, <1>3 DEF RepWait, LogPeriod
<1>4. CASE LogEntry(w) \/ LogStore(w)
  BY <1>0, <1>4 DEF LogEntry, LogStore
<1>5. CASE RepPost(w)
  BY <1>0, <1>5 DEF RepPost
<1> QED BY <1>1, <1>2, <1>3, <1>4, <1>5 DEF Aside

(***************************************************************************)
(* The counters of the barrier in the other steps.                         *)
(***************************************************************************)
LEMMA CountersKept ==
  ASSUME Shape, BarrierInv, NEW w \in Worker, Step(w)
  PROVE  /\ ~StoreCount(w) /\ ~ResetCount(w) => numToFinish' = numToFinish
         /\ ~CountReport(w) => numReports' = numReports
         /\ ~Release(w) => \A v \in Worker \ {w} : canContinue'[v] = canContinue[v]
         /\ ~Release(w) /\ ~Continue(w) => canContinue' = canContinue
<1> USE DEF Shape, bank, barrier
<1>1. CASE Aside(w)
  BY <1>1, AsidePlain
<1>2. CASE FinishWait(w) \/ LoadCount(w) \/ StoreCount(w) \/ FinishPost(w) \/ Continue(w)
  BY <1>2 DEF FinishWait, LoadCount, StoreCount, FinishPost, Continue
<1>3. CASE ReportFull(w) \/ ReportBalance(w) \/ CountReport(w)
  BY <1>3 DEF ReportFull, ReportBalance, CountReport
<1>4. CASE ResetCount(w) \/ Release(w) \/ Released(w)
  BY <1>4 DEF ResetCount, Release, Released
<1> QED BY <1>1, <1>2, <1>3, <1>4 DEF Step, Aside

LEMMA ReportersSteps ==
  ASSUME NEW w \in Worker
  PROVE  /\ ResetCount(w) \/ CountReport(w) => pc[w] \in Counting \cap Closing
         /\ Release(w) => At(w, "release") /\ pc[w] \in Closing
         /\ StoreCount(w) => pc[w] \in Finishing
BY DEF ResetCount, CountReport, Release, StoreCount, Counting, Closing, Reporting, Finishing

(***************************************************************************)
(* What a worker relies on at the barrier no other worker takes away.      *)
(***************************************************************************)
LEMMA OthersBarrier ==
  ASSUME Shape, BarrierInv, NEW w \in Worker, Step(w), NEW v \in Worker, v # w
  PROVE  BarrierLocal(v)'
<1>0. /\ SameLocals(v) /\ BarrierLocal(v) /\ pc[v] \notin Counting /\ ~Waits(w)
  BY OthersLocals, OneCounts, WaitersStuck DEF BarrierInv
<1>1. At(v, "storeCount") => numToFinish' = numToFinish
  <2>1. At(v, "storeCount") => pc[v] \in Finishing /\ ~Waits(v)
    BY DEF Finishing, Waits
  <2>2. At(v, "storeCount") => ~StoreCount(w) /\ ~ResetCount(w)
    BY <2>1, ReportersSteps DEF BarrierInv, BarrierLocal
  <2> QED BY <2>2, CountersKept
<1>2. canContinue'[v] = 1 => At(v, "blocked")
  <2>1. CASE Release(w)
    <3>1. BarrierLocal(w) /\ At(w, "release") /\ reg[w] <= reg[w]
      BY <2>1 DEF BarrierInv, Release, Shape
    <3>2. v = reg[w] => Waits(v)
      BY <3>1 DEF BarrierLocal
    <3>3. v # reg[w] => canContinue'[v] = canContinue[v]
      BY <2>1 DEF Release, Shape
    <3> QED BY <1>0, <3>2, <3>3 DEF BarrierLocal, Waits
  <2>2. CASE ~Release(w)
    BY <1>0, <2>2, CountersKept DEF BarrierLocal
  <2> QED BY <2>1, <2>2
<1>3. At(v, "countReport") => FALSE
  BY <1>0 DEF Counting, Reporting
<1>4. ASSUME At(v, "release"), NEW u \in Worker \ {v}, reg[v] <= u
      PROVE  Waits(u)'
  <2>1. Waits(u)
    BY <1>0, <1>4 DEF BarrierLocal
  <2>2. u # w
    BY <1>0, <2>1
  <2>3. ~Release(w)
    BY <1>4, ReportersSteps DEF BarrierInv, Closing
  <2> QED BY <2>1, <2>2, <2>3, OthersLocals, CountersKept DEF SameLocals, Waits
<1> QED BY <1>0, <1>1, <1>2, <1>3, <1>4 DEF BarrierLocal, SameLocals

(***************************************************************************)
(* A step that is not about letting workers go does not change whether     *)
(* another worker is counted.                                              *)
(***************************************************************************)
LEMMA CountedOthers ==
  ASSUME Shape, BarrierInv, NEW w \in Worker, Step(w),
         ~At(w, "release"), pc'[w] # "release", NEW v \in Worker, v # w
  PROVE  /\ Counted(v)' <=> Counted(v)
         /\ Pending(v)' <=> Pending(v)
<1>0. \A u \in Worker \ {w} : SameLocals(u)
  BY OthersLocals
<1>1. Pending(v)' <=> Pending(v)
  BY <1>0 DEF Pending, SameLocals
<1>2. canContinue'[v] = canContinue[v]
  BY CountersKept DEF Release
<1> QED BY <1>0, <1>1, <1>2 DEF Counted, SameLocals

LEMMA CountKept ==
  ASSUME \A v \in Worker : Counted(v)' <=> Counted(v)
  PROVE  CountedSet' = CountedSet
BY DEF CountedSet

(***************************************************************************)
(* Whether worker w is counted does not depend on where w lets others go.  *)
(***************************************************************************)
LEMMA CountedOwn ==
  ASSUME NEW w \in Worker
  PROVE  /\ pc[w] \in Plain \cup {"loadCount", "storeCount", "release"} => ~Counted(w)
         /\ pc[w] \in {"postWait"} \cup Counting => Counted(w)
         /\ At(w, "blocked") /\ canContinue[w] # 0 => ~Counted(w)
BY DEF Counted, Plain, Logging, Counting, Reporting

LEMMA CountedOwnNext ==
  ASSUME NEW w \in Worker
  PROVE  /\ pc'[w] \in Plain \cup {"loadCount", "storeCount", "release"} => ~Counted(w)'
         /\ pc'[w] \in {"postWait"} \cup Counting => Counted(w)'
BY DEF Counted, Plain, Logging, Counting, Reporting
-----------------------------------------------------------------------------
(***************************************************************************)
(* The barrier, step by step.  BarrierBuild says what is left to show of a *)
(* step of worker w.                                                       *)
(***************************************************************************)
LEMMA BarrierBuild ==
  ASSUME Shape, BarrierInv, NEW w \in Worker, Step(w),
         BarrierLocal(w)',
         numToFinish' = NumWorkers - Cardinality(CountedSet'),
         pc'[w] \in Finishing => \A v \in Worker \ {w} : pc[v] \notin Finishing,
         finishCheck' = 0 <=>
           (pc'[w] \in Finishing \/ \E v \in Worker \ {w} : pc[v] \in Finishing),
         pc'[w] \in Closing => \A v \in Worker \ {w} : pc[v] \notin Closing
  PROVE  BarrierInv'
<1>1. \A v \in Worker \ {w} : BarrierLocal(v)' /\ pc'[v] = pc[v]
  BY OthersBarrier, OthersLocals DEF SameLocals
<1>2. \A v \in Worker : BarrierLocal(v)'
  BY <1>1
<1>3. (\A u, v \in Worker : u # v /\ pc[u] \in Finishing => pc[v] \notin Finishing)'
  BY <1>1 DEF BarrierInv
<1>4. (finishCheck = 0 <=> \E v \in Worker : pc[v] \in Finishing)'
  BY <1>1
<1>5. (\A u, v \in Worker : u # v /\ pc[u] \in Closing => pc[v] \notin Closing)'
  BY <1>1 DEF BarrierInv
<1> QED BY <1>2, <1>3, <1>4, <1>5 DEF BarrierInv

LEMMA AsideBarrier ==
  ASSUME Shape, BarrierInv, NEW w \in Worker, Step(w), Aside(w)
  PROVE  BarrierInv' /\ \A v \in Worker : Counted(v)' <=> Counted(v)
<1>1. /\ pc[w] \in Plain /\ pc'[w] \in Plain
      /\ finishCheck' = finishCheck /\ numToFinish' = numToFinish
      /\ canContinue' = canContinue /\ numReports' = numReports
      /\ pc'[w] \notin {"logStore", "repPost"} => reg'[w] = 0
  BY AsidePlain
<1>2. /\ pc[w] \notin Finishing \cup Closing /\ pc'[w] \notin Finishing \cup Closing \cup Counting
      /\ pc'[w] \notin {"storeCount", "release", "countReport"}
      /\ pc[w] # "release" /\ pc[w] # "blocked"
  BY <1>1, PlainFact
<1>3. \A v \in Worker : Counted(v)' <=> Counted(v)
  <2>1. ~Counted(w) /\ ~Counted(w)'
    BY <1>1, CountedOwn, CountedOwnNext
  <2> QED BY <1>2, <2>1, CountedOthers
<1>4. numToFinish' = NumWorkers - Cardinality(CountedSet')
  BY <1>1, <1>3, CountKept DEF BarrierInv
<1>5. BarrierLocal(w)'
  <2>1. canContinue[w] # 1
    BY <1>2 DEF BarrierInv, BarrierLocal
  <2> QED BY <1>1, <1>2, <2>1 DEF BarrierLocal
<1>6. finishCheck' = 0 <=> \E v \in Worker \ {w} : pc[v] \in Finishing
  BY <1>1, <1>2 DEF BarrierInv
<1> QED BY <1>2, <1>3, <1>4, <1>5, <1>6, BarrierBuild

(***************************************************************************)
(* finish_check is taken, and numToFinish read under it.                   *)
(***************************************************************************)
LEMMA TakeBarrier ==
  ASSUME Shape, BarrierInv, NEW w \in Worker, Step(w), FinishWait(w) \/ LoadCount(w)
  PROVE  BarrierInv' /\ \A v \in Worker : Counted(v)' <=> Counted(v)
<1>1. /\ pc[w] \in {"arrive", "loadCount"} /\ pc'[w] \in {"loadCount", "storeCount"}
      /\ numToFinish' = numToFinish /\ canContinue' = canContinue
      /\ At(w, "storeCount")' => reg'[w] = numToFinish
      /\ At(w, "loadCount")' => reg'[w] = reg[w] /\ reg[w] = 0
      /\ finishCheck' = 0
      /\ \A v \in Worker \ {w} : pc[v] \notin Finishing
  <2>1. CASE FinishWait(w)
    <3>1. finishCheck = 1 /\ At(w, "arrive")
      BY <2>1 DEF FinishWait, Shape
    <3>2. reg[w] = 0 /\ \A v \in Worker : pc[v] \notin Finishing
      BY <3>1 DEF BarrierInv, BarrierLocal
    <3> QED BY <2>1, <3>1, <3>2 DEF FinishWait, Shape, local
  <2>2. CASE LoadCount(w)
    <3>1. At(w, "loadCount") /\ pc[w] \in Finishing
      BY <2>2 DEF LoadCount, Finishing
    <3> QED BY <2>2, <3>1 DEF LoadCount, Shape, barrier, BarrierInv
  <2> QED BY <2>1, <2>2
<1>2. /\ pc'[w] \in Finishing /\ pc'[w] \notin Closing \cup Counting
      /\ ~Counted(w) /\ ~Counted(w)'
  <2>1. ~Counted(w) /\ ~Counted(w)'
    BY <1>1, CountedOwn, CountedOwnNext DEF Plain
  <2> QED BY <1>1, <2>1 DEF Finishing, Closing, Counting, Reporting
<1>3. \A v \in Worker : Counted(v)' <=> Counted(v)
  BY <1>1, <1>2, CountedOthers
<1>4. numToFinish' = NumWorkers - Cardinality(CountedSet')
  BY <1>1, <1>3, CountKept DEF BarrierInv
<1>5. BarrierLocal(w)'
  <2>1. canContinue[w] # 1
    BY <1>1 DEF BarrierInv, BarrierLocal
  <2> QED BY <1>1, <1>2, <2>1 DEF BarrierLocal
<1> QED BY <1>1, <1>2, <1>3, <1>4, <1>5, BarrierBuild

(***************************************************************************)
(* Whoever finds that everybody is counted is the last: the others wait,   *)
(* and none has been let go.                                               *)
(***************************************************************************)
LEMMA StoreBarrier ==
  ASSUME Shape, BarrierInv, NEW w \in Worker, Step(w), StoreCount(w)
  PROVE  /\ BarrierInv' /\ Counted(w)'
         /\ \A v \in Worker \ {w} : Counted(v)' <=> Counted(v)
<1>1. /\ At(w, "storeCount") /\ pc[w] \in Finishing
      /\ numToFinish' = numToFinish - 1 /\ reg'[w] = 0
      /\ pc'[w] = IF numToFinish' > 0 THEN "postWait" ELSE "postReport"
      /\ pc'[w] \in Finishing
      /\ finishCheck' = finishCheck /\ canContinue' = canContinue
  <2>1. At(w, "storeCount") /\ reg[w] = numToFinish
    BY DEF StoreCount, BarrierInv, BarrierLocal
  <2> QED BY <2>1 DEF StoreCount, Shape, Finishing
<1>2. ~Counted(w) /\ Counted(w)' /\ pc'[w] # "release"
  BY <1>1, CountedOwn, CountedOwnNext DEF Counting
<1>3. \A v \in Worker \ {w} : Counted(v)' <=> Counted(v)
  BY <1>1, <1>2, CountedOthers
<1>4. numToFinish' = NumWorkers - Cardinality(CountedSet') /\ Cardinality(CountedSet') \in Nat
  <2>1. CountedSet' = CountedSet \cup {w} /\ w \in Worker \ CountedSet
    BY <1>2, <1>3 DEF CountedSet
  <2>2. CountedSet \in SUBSET Worker /\ CountedSet' \in SUBSET Worker
    BY DEF CountedSet
  <2>3. Cardinality(CountedSet') = Cardinality(CountedSet) + 1
    BY <2>1, <2>2, WorkersCounted
  <2>4. Cardinality(CountedSet) \in 0 .. NumWorkers
    BY <2>2, WorkersCounted
  <2> QED BY <1>1, <2>3, <2>4, Sizes DEF BarrierInv
<1>5. ASSUME pc'[w] = "postReport", NEW v \in Worker \ {w}
      PROVE  Waits(v) /\ Waits(v)' /\ pc[v] \notin Closing
  <2>1. Cardinality(CountedSet') = NumWorkers
    <3>1. CountedSet' \in SUBSET Worker
      BY DEF CountedSet
    <3>2. Cardinality(CountedSet') \in 0 .. NumWorkers
      BY <3>1, WorkersCounted
    <3>3. ~(numToFinish' > 0)
      BY <1>1, <1>5
    <3>4. ~(NumWorkers - Cardinality(CountedSet') > 0)
      BY <1>4, <3>3
    <3> QED BY <3>2, <3>4, Sizes
  <2>2. Counted(v)'
    <3>1. CountedSet' \in SUBSET Worker
      BY DEF CountedSet
    <3>2. CountedSet' = Worker
      BY <2>1, <3>1, WorkersCounted
    <3> QED BY <3>2 DEF CountedSet
  <2>3. Counted(v)
    BY <1>3, <2>2
  <2>4. pc[v] # "postWait" /\ pc[v] \notin Counting
    BY <1>1, OneCounts DEF BarrierInv, Finishing
  <2>5. Waits(v)
    BY <2>3, <2>4 DEF Counted, Waits
  <2>6. pc'[v] = pc[v]
    BY OthersLocals DEF SameLocals
  <2> QED BY <1>1, <2>5, <2>6 DEF Waits, Closing, Counting, Reporting
<1>6. BarrierLocal(w)'
  <2>1. canContinue[w] # 1
    BY <1>1 DEF BarrierInv, BarrierLocal
  <2>2. pc'[w] \in Counting => pc'[w] = "postReport"
    BY <1>1 DEF Counting, Reporting
  <2> QED BY <1>1, <1>5, <2>1, <2>2 DEF BarrierLocal
<1>7. pc'[w] \in Closing => \A v \in Worker \ {w} : pc[v] \notin Closing
  <2>1. pc'[w] \in Closing => pc'[w] = "postReport"
    BY <1>1 DEF Closing, Counting, Reporting
  <2> QED BY <1>5, <2>1
<1>8. finishCheck' = 0 /\ \A v \in Worker \ {w} : pc[v] \notin Finishing
  BY <1>1 DEF BarrierInv
<1>9. BarrierInv'
  BY <1>1, <1>4, <1>6, <1>7, <1>8, BarrierBuild
<1> QED BY <1>2, <1>3, <1>9

LEMMA PostBarrier ==
  ASSUME Shape, BarrierInv, NEW w \in Worker, Step(w), FinishPost(w)
  PROVE  BarrierInv' /\ \A v \in Worker : Counted(v)' <=> Counted(v)
<1>1. /\ pc[w] \in {"postWait", "postReport"} /\ pc[w] \in Finishing
      /\ pc'[w] = IF At(w, "postWait") THEN "blocked" ELSE "report"
      /\ numToFinish' = numToFinish /\ canContinue' = canContinue /\ reg' = reg
      /\ finishCheck' = finishCheck + 1 /\ finishCheck \in {0, 1}
  BY DEF FinishPost, Shape, local, Finishing
<1>2. finishCheck = 0 /\ reg[w] = 0 /\ canContinue[w] = 0
  <2>1. finishCheck = 0 /\ reg[w] = 0 /\ canContinue[w] # 1
    BY <1>1 DEF BarrierInv, BarrierLocal
  <2> QED BY <2>1 DEF Shape
<1>3. Counted(w) /\ Counted(w)'
  <2>1. CASE At(w, "postReport")
    BY <1>1, <2>1, CountedOwn, CountedOwnNext DEF Counting, Reporting
  <2>2. CASE At(w, "postWait")
    <3>1. ~Pending(w)
      <4>1. ~Waits(w)
        BY <2>2 DEF Waits
      <4> QED BY <4>1 DEF Pending, BarrierInv, BarrierLocal
    <3>2. ~Pending(w)'
      <4>1. \A u \in Worker \ {w} : pc'[u] = pc[u] /\ reg'[u] = reg[u]
        BY OthersLocals DEF SameLocals
      <4> QED BY <3>1, <4>1 DEF Pending
    <3> QED BY <1>1, <1>2, <2>2, <3>2 DEF Counted
  <2> QED BY <1>1, <2>1, <2>2
<1>4. \A v \in Worker : Counted(v)' <=> Counted(v)
  BY <1>1, <1>3, CountedOthers
<1>5. numToFinish' = NumWorkers - Cardinality(CountedSet')
  BY <1>1, <1>4, CountKept DEF BarrierInv
<1>6. pc'[w] \in Closing => pc[w] \in Counting /\ pc[w] \in Closing
  BY <1>1 DEF Closing, Counting, Reporting
<1>7. BarrierLocal(w)'
  <2>1. pc'[w] \in Counting => \A v \in Worker \ {w} : Waits(v)'
    <3>1. pc'[w] \in Counting => \A v \in Worker \ {w} : Waits(v)
      BY <1>6 DEF Closing, BarrierInv, BarrierLocal
    <3> QED BY <1>1, <3>1, OthersLocals DEF SameLocals, Waits
  <2>2. pc'[w] \in {"blocked", "report"}
    BY <1>1
  <2> QED BY <1>1, <1>2, <2>1, <2>2 DEF BarrierLocal
<1>8. pc'[w] \notin Finishing /\ \A v \in Worker \ {w} : pc[v] \notin Finishing
  BY <1>1 DEF BarrierInv, Finishing
<1>9. pc'[w] \in Closing => \A v \in Worker \ {w} : pc[v] \notin Closing
  BY <1>6 DEF BarrierInv
<1>10. BarrierInv'
  BY <1>1, <1>2, <1>5, <1>7, <1>8, <1>9, BarrierBuild
<1> QED BY <1>4, <1>10

LEMMA ContinueBarrier ==
  ASSUME Shape, BarrierInv, NEW w \in Worker, Step(w), Continue(w)
  PROVE  BarrierInv' /\ \A v \in Worker : Counted(v)' <=> Counted(v)
<1>1. /\ At(w, "blocked") /\ canContinue[w] = 1 /\ canContinue'[w] = 0
      /\ pc'[w] = "next" /\ numToFinish' = numToFinish
      /\ finishCheck' = finishCheck /\ reg' = reg
  <2>1. canContinue[w] = 1
    BY DEF Continue, Shape
  <2> QED BY <2>1 DEF Continue, Shape, local
<1>2. /\ pc[w] \notin Finishing \cup Closing /\ pc'[w] \notin Finishing \cup Closing
      /\ pc'[w] \notin Counting
  BY <1>1 DEF Finishing, Closing, Counting, Reporting
<1>3. \A v \in Worker : Counted(v)' <=> Counted(v)
  <2>1. ~Counted(w) /\ ~Counted(w)'
    BY <1>1, CountedOwn, CountedOwnNext DEF Plain
  <2> QED BY <1>1, <2>1, CountedOthers
<1>4. numToFinish' = NumWorkers - Cardinality(CountedSet')
  BY <1>1, <1>3, CountKept DEF BarrierInv
<1>5. BarrierLocal(w)'
  <2>1. reg[w] = 0
    BY <1>1 DEF BarrierInv, BarrierLocal
  <2> QED BY <1>1, <1>2, <2>1 DEF BarrierLocal
<1>6. finishCheck' = 0 <=> \E v \in Worker \ {w} : pc[v] \in Finishing
  BY <1>1, <1>2 DEF BarrierInv
<1> QED BY <1>2, <1>3, <1>4, <1>5, <1>6, BarrierBuild

(***************************************************************************)
(* The last worker reports, makes the barrier ready and opens it.          *)
(***************************************************************************)
LEMMA ReportBarrier ==
  ASSUME Shape, BarrierInv, NEW w \in Worker, Step(w),
         ReportFull(w) \/ ReportBalance(w) \/ CountReport(w)
  PROVE  BarrierInv' /\ \A v \in Worker : Counted(v)' <=> Counted(v)
<1>1. /\ pc[w] \in Reporting /\ pc'[w] \in Reporting
      /\ numToFinish' = numToFinish /\ canContinue' = canContinue
      /\ finishCheck' = finishCheck /\ reg' = reg
      /\ At(w, "countReport")' => numReports < MaxReports /\ numReports' = numReports
  <2> USE DEF Shape, Reporting, barrier, local
  <2>1. CASE ReportFull(w)
    BY <2>1 DEF ReportFull
  <2>2. CASE ReportBalance(w)
    BY <2>2 DEF ReportBalance
  <2>3. CASE CountReport(w)
    BY <2>3 DEF CountReport
  <2> QED BY <2>1, <2>2, <2>3
<1>2. /\ pc[w] \in Counting \cap Closing /\ pc'[w] \in Counting \cap Closing
      /\ pc[w] \notin Finishing \cup {"blocked", "release"}
      /\ pc'[w] \notin Finishing \cup {"release", "storeCount"}
      /\ pc[w] \notin {"logStore", "repPost", "storeCount", "release"}
  BY <1>1 DEF Closing, Counting, Reporting, Finishing
<1>3. \A v \in Worker : Counted(v)' <=> Counted(v)
  BY <1>2, CountedOwn, CountedOwnNext, CountedOthers
<1>4. numToFinish' = NumWorkers - Cardinality(CountedSet')
  BY <1>1, <1>3, CountKept DEF BarrierInv
<1>5. BarrierLocal(w)'
  <2>1. reg[w] = 0 /\ canContinue[w] # 1 /\ \A v \in Worker \ {w} : Waits(v)
    BY <1>2 DEF BarrierInv, BarrierLocal
  <2>2. \A v \in Worker \ {w} : Waits(v)'
    BY <1>1, <2>1, OthersLocals DEF SameLocals, Waits
  <2> QED BY <1>1, <1>2, <2>1, <2>2 DEF BarrierLocal
<1>6. finishCheck' = 0 <=> \E v \in Worker \ {w} : pc[v] \in Finishing
  BY <1>1, <1>2 DEF BarrierInv
<1>7. \A v \in Worker \ {w} : pc[v] \notin Closing
  BY <1>2 DEF BarrierInv
<1> QED BY <1>2, <1>3, <1>4, <1>5, <1>6, <1>7, BarrierBuild

LEMMA ResetBarrier ==
  ASSUME Shape, BarrierInv, NEW w \in Worker, Step(w), ResetCount(w)
  PROVE  BarrierInv' /\ \A v \in Worker : Counted(v) /\ ~Counted(v)'
<1>1. /\ At(w, "reset") /\ At(w, "release")' /\ numToFinish' = NumWorkers
      /\ canContinue' = canContinue /\ finishCheck' = finishCheck /\ reg' = reg
  BY DEF ResetCount, Shape, local
<1>2. /\ pc[w] \in Counting \cap Closing /\ pc[w] \notin Finishing /\ pc'[w] \notin Finishing
      /\ pc'[w] \notin Counting
  BY <1>1 DEF Closing, Counting, Reporting, Finishing
<1>3. reg[w] = 0 /\ canContinue[w] # 1 /\ \A v \in Worker \ {w} : Waits(v) /\ pc[v] \notin Closing
  BY <1>1, <1>2 DEF BarrierInv, BarrierLocal
<1>4. \A v \in Worker \ {w} : Waits(v)' /\ 0 <= v
  <2>1. \A v \in Worker : 0 <= v
    BY DEF Worker
  <2> QED BY <1>1, <1>3, <2>1, OthersLocals DEF SameLocals, Waits
<1>5. \A v \in Worker : Counted(v)
  <2>1. \A v \in Worker \ {w} : ~Pending(v)
    <3>1. \A u \in Worker : ~At(u, "release")
      BY <1>1, <1>3 DEF Closing
    <3> QED BY <3>1 DEF Pending
  <2> QED BY <1>2, <1>3, <2>1 DEF Counted, Waits
<1>6. \A v \in Worker : ~Counted(v)'
  <2>1. ~Counted(w)'
    BY <1>1, CountedOwnNext
  <2>2. \A v \in Worker \ {w} : Pending(v)'
    BY <1>1, <1>3, <1>4 DEF Pending
  <2>3. \A v \in Worker \ {w} : ~Counted(v)'
    BY <1>4, <2>2 DEF Counted, Waits, Counting, Reporting
  <2> QED BY <2>1, <2>3
<1>7. numToFinish' = NumWorkers - Cardinality(CountedSet')
  <2>1. CountedSet' = {} /\ {} \in SUBSET Worker
    BY <1>6 DEF CountedSet
  <2>2. Cardinality(CountedSet') = 0
    BY <2>1, WorkersCounted
  <2> QED BY <1>1, <2>2, Sizes
<1>8. BarrierLocal(w)'
  BY <1>1, <1>2, <1>3, <1>4, Sizes DEF BarrierLocal
<1>9. finishCheck' = 0 <=> \E v \in Worker \ {w} : pc[v] \in Finishing
  BY <1>1, <1>2 DEF BarrierInv
<1> QED BY <1>2, <1>3, <1>5, <1>6, <1>7, <1>8, <1>9, BarrierBuild

LEMMA ReleaseBarrier ==
  ASSUME Shape, BarrierInv, NEW w \in Worker, Step(w), Release(w)
  PROVE  BarrierInv' /\ \A v \in Worker : Counted(v)' <=> Counted(v)
<1> DEFINE k == reg[w]
<1>1. /\ At(w, "release") /\ pc' = pc /\ k \in Nat /\ k < NumWorkers /\ k \in Worker
      /\ reg' = [reg EXCEPT ![w] = k + 1] /\ reg'[w] = k + 1
      /\ numToFinish' = numToFinish /\ finishCheck' = finishCheck
  BY Sizes, SMTT(30) DEF Release, Shape, Worker
<1>2. \A v \in Worker \ {k} : canContinue'[v] = canContinue[v]
  BY DEF Release, Shape
<1>3. k # w => Waits(k) /\ canContinue'[k] = 1
  <2>1. BarrierLocal(w) /\ k <= k
    BY <1>1 DEF BarrierInv
  <2>2. k # w => Waits(k)
    BY <1>1, <2>1 DEF BarrierLocal
  <2> QED BY <1>1, <2>2 DEF Release, Shape, Waits
<1>4. /\ pc[w] \in Closing /\ pc[w] \notin Finishing \cup Counting
      /\ \A v \in Worker \ {w} : pc[v] \notin Closing /\ ~At(v, "release")
  <2>1. pc[w] \in Closing /\ pc[w] \notin Finishing \cup Counting
    BY <1>1 DEF Closing, Counting, Reporting, Finishing
  <2>2. \A v \in Worker \ {w} : pc[v] \notin Closing
    BY <2>1 DEF BarrierInv
  <2> QED BY <2>1, <2>2 DEF Closing
<1>5. \A v \in Worker \ {w} : (Pending(v) <=> k <= v) /\ (Pending(v)' <=> k + 1 <= v)
  BY <1>1, <1>4 DEF Pending
<1>6. \A v \in Worker : Counted(v)' <=> Counted(v)
  <2>1. ~Counted(w) /\ ~Counted(w)'
    BY <1>1, CountedOwn, CountedOwnNext
  <2>2. ASSUME NEW v \in Worker \ {w}, v = k PROVE ~Counted(v) /\ ~Counted(v)'
    <3>1. k <= v
      BY <1>1, <2>2
    <3>2. Waits(v) /\ Pending(v) /\ canContinue'[v] = 1 /\ At(v, "blocked")'
      BY <1>1, <1>3, <1>5, <2>2, <3>1 DEF Waits
    <3> QED BY <3>2 DEF Counted, Waits, Counting, Reporting
  <2>3. ASSUME NEW v \in Worker \ {w}, v # k PROVE Counted(v)' <=> Counted(v)
    <3>1. k <= v <=> k + 1 <= v
      BY <1>1, <2>3 DEF Worker
    <3>2. canContinue'[v] = canContinue[v] /\ pc'[v] = pc[v] /\ (Pending(v)' <=> Pending(v))
      BY <1>1, <1>2, <1>5, <2>3, <3>1
    <3> QED BY <3>2 DEF Counted
  <2> QED BY <2>1, <2>2, <2>3
<1>7. numToFinish' = NumWorkers - Cardinality(CountedSet')
  BY <1>1, <1>6, CountKept DEF BarrierInv
<1>8. BarrierLocal(w)'
  <2>1. ASSUME NEW v \in Worker \ {w}, reg'[w] <= v PROVE Waits(v)'
    <3>1. k <= v /\ v # k
      BY <1>1, <2>1 DEF Worker
    <3>2. Waits(v)
      BY <1>1, <3>1 DEF BarrierInv, BarrierLocal
    <3> QED BY <1>1, <1>2, <3>1, <3>2 DEF Waits
  <2>2. canContinue'[w] # 1
    <3>1. canContinue[w] # 1
      BY <1>1 DEF BarrierInv, BarrierLocal
    <3>2. canContinue'[w] = canContinue[w]
      BY <1>1, <1>2 DEF Release
    <3> QED BY <3>1, <3>2
  <2>3. reg'[w] <= NumWorkers
    BY <1>1, Sizes
  <2>4. At(w, "release")'
    BY <1>1
  <2> QED BY <1>1, <1>4, <2>1, <2>2, <2>3, <2>4 DEF BarrierLocal
<1>9. finishCheck' = 0 <=> \E v \in Worker \ {w} : pc[v] \in Finishing
  BY <1>1, <1>4 DEF BarrierInv
<1>10. BarrierInv'
  BY <1>1, <1>4, <1>7, <1>8, <1>9, BarrierBuild
<1> QED BY <1>6, <1>10

LEMMA ReleasedBarrier ==
  ASSUME Shape, BarrierInv, NEW w \in Worker, Step(w), Released(w)
  PROVE  BarrierInv' /\ \A v \in Worker : Counted(v)' <=> Counted(v)
<1>1. /\ At(w, "release") /\ At(w, "next")' /\ reg[w] = NumWorkers /\ reg'[w] = 0
      /\ numToFinish' = numToFinish /\ finishCheck' = finishCheck
      /\ canContinue' = canContinue
  BY DEF Released, Shape, barrier
<1>2. /\ pc[w] \in Closing /\ pc[w] \notin Finishing /\ pc'[w] \notin Finishing \cup Counting \cup Closing
      /\ \A v \in Worker \ {w} : pc[v] \notin Closing /\ ~At(v, "release")
  <2>1. pc[w] \in Closing /\ pc[w] \notin Finishing /\ pc'[w] \notin Finishing \cup Counting \cup Closing
    BY <1>1 DEF Closing, Counting, Reporting, Finishing
  <2>2. \A v \in Worker \ {w} : pc[v] \notin Closing
    BY <2>1 DEF BarrierInv
  <2> QED BY <2>1, <2>2 DEF Closing
<1>3. \A v \in Worker \ {w} : pc'[v] = pc[v] /\ reg'[v] = reg[v]
  BY OthersLocals DEF SameLocals
<1>4. \A v \in Worker : Counted(v)' <=> Counted(v)
  <2>1. ~Counted(w) /\ ~Counted(w)'
    BY <1>1, CountedOwn, CountedOwnNext DEF Plain
  <2>2. \A v \in Worker \ {w} : ~Pending(v) /\ ~Pending(v)'
    <3>1. \A v \in Worker : ~(NumWorkers <= v)
      BY Sizes DEF Worker
    <3> QED BY <1>1, <1>2, <1>3, <3>1 DEF Pending
  <2> QED BY <1>1, <1>3, <2>1, <2>2 DEF Counted
<1>5. numToFinish' = NumWorkers - Cardinality(CountedSet')
  BY <1>1, <1>4, CountKept DEF BarrierInv
<1>6. BarrierLocal(w)'
  <2>1. canContinue[w] # 1
    BY <1>1 DEF BarrierInv, BarrierLocal
  <2> QED BY <1>1, <1>2, <2>1 DEF BarrierLocal
<1>7. finishCheck' = 0 <=> \E v \in Worker \ {w} : pc[v] \in Finishing
  BY <1>1, <1>2 DEF BarrierInv
<1> QED BY <1>2, <1>4, <1>5, <1>6, <1>7, BarrierBuild

LEMMA BarrierStep ==
  ASSUME Shape, BarrierInv, NEW w \in Worker, Step(w)
  PROVE  /\ BarrierInv'
         /\ ~StoreCount(w) /\ ~ResetCount(w) => \A v \in Worker : Counted(v)' <=> Counted(v)
<1>1. CASE Aside(w)
  BY <1>1, AsideBarrier
<1>2. CASE FinishWait(w) \/ LoadCount(w)
  BY <1>2, TakeBarrier
<1>3. CASE StoreCount(w)
  BY <1>3, StoreBarrier
<1>4. CASE FinishPost(w)
  BY <1>4, PostBarrier
<1>5. CASE Continue(w)
  BY <1>5, ContinueBarrier
<1>6. CASE ReportFull(w) \/ ReportBalance(w) \/ CountReport(w)
  BY <1>6, ReportBarrier
<1>7. CASE ResetCount(w)
  BY <1>7, ResetBarrier
<1>8. CASE Release(w)
  BY <1>8, ReleaseBarrier
<1>9. CASE Released(w)
  BY <1>9, ReleasedBarrier
<1> QED BY <1>1, <1>2, <1>3, <1>4, <1>5, <1>6, <1>7, <1>8, <1>9 DEF Step, Aside
-----------------------------------------------------------------------------
(***************************************************************************)
(* The rounds.  Only the step that sees a report due makes a worker check  *)
(* in, and only the opening of the barrier checks workers out.             *)
(***************************************************************************)
LEMMA CheckedOwn ==
  ASSUME Shape, BarrierInv, NEW w \in Worker, Step(w), ~NextReport(w), ~ResetCount(w)
  PROVE  /\ CheckedIn(w)' <=> CheckedIn(w)
         /\ nextReport' = nextReport
         /\ cmdCount' = cmdCount \/ ~CheckedIn(w)
<1> USE DEF Shape, generator, CheckedIn, Finishing, Logging
<1>0. ~StoreCount(w) => (Counted(w)' <=> Counted(w))
  BY BarrierStep
<1>1. CASE NextDone(w) \/ NextCommand(w) \/ Draw(w) \/ Execute(w)
  <2>1. pc[w] \in Plain \ {"arrive"} /\ pc'[w] \in Plain \ {"arrive"} /\ nextReport' = nextReport
    BY <1>1 DEF NextDone, NextCommand, Draw, Execute, Plain
  <2>2. ~Counted(w)
    BY <2>1, CountedOwn
  <2> QED BY <1>0, <1>1, <2>1, <2>2, PlainFact DEF StoreCount, Plain
<1>2. CASE RepWait(w) \/ LogPeriod(w) \/ LogEntry(w) \/ LogStore(w) \/ RepPost(w)
  BY <1>0, <1>2 DEF RepWait, LogPeriod, LogEntry, LogStore, RepPost, StoreCount
<1>3. CASE FinishWait(w) \/ LoadCount(w)
  BY <1>0, <1>3 DEF FinishWait, LoadCount, StoreCount
<1>4. CASE StoreCount(w)
  BY <1>4, StoreBarrier DEF StoreCount
<1>5. CASE FinishPost(w)
  <2>1. Counted(w)
    <3>1. pc[w] \in {"postWait"} \cup Counting
      BY <1>5 DEF FinishPost, Counting
    <3> QED BY <3>1, CountedOwn
  <2> QED BY <1>0, <1>5, <2>1 DEF FinishPost, StoreCount
<1>6. CASE Continue(w)
  BY <1>0, <1>6 DEF Continue, StoreCount
<1>7. CASE ReportFull(w) \/ ReportBalance(w) \/ CountReport(w)
  BY <1>0, <1>7 DEF ReportFull, ReportBalance, CountReport, StoreCount
<1>8. CASE Release(w) \/ Released(w)
  BY <1>0, <1>8 DEF Release, Released, StoreCount
<1> QED BY <1>1, <1>2, <1>3, <1>4, <1>5, <1>6, <1>7, <1>8 DEF Step

LEMMA CheckedOthers ==
  ASSUME Shape, BarrierInv, NEW w \in Worker, Step(w), ~ResetCount(w), NEW v \in Worker, v # w
  PROVE  /\ CheckedIn(v)' <=> CheckedIn(v)
         /\ cmdCount'[v] = cmdCount[v] /\ nextReport'[v] = nextReport[v]
<1>1. SameLocals(v)
  BY OthersLocals
<1>2. Counted(v)' <=> Counted(v)
  BY BarrierStep, StoreBarrier
<1> QED BY <1>1, <1>2 DEF CheckedIn, SameLocals

LEMMA RoundStep ==
  ASSUME Shape, BarrierInv, RoundInv, NEW w \in Worker, Step(w)
  PROVE  RoundInv'
<1> DEFINE PR == PerReport(NumWorkers)
<1>0. PR \in Int /\ \A v \in Worker : nextReport[v] \in Int
  BY Sizes DEF Shape
<1> HIDE DEF PR
<1>1. CASE NextReport(w)
  <2>1. /\ At(w, "next") /\ At(w, "arrive")' /\ cmdCount[w] = nextReport[w]
        /\ cmdCount' = cmdCount /\ nextReport'[w] = nextReport[w] - PR
    BY <1>1 DEF NextReport, Shape, PR
  <2>2. ~CheckedIn(w) /\ CheckedIn(w)' /\ ~ResetCount(w)
    BY <2>1, CountedOwn DEF CheckedIn, Plain, Finishing, ResetCount
  <2>3. Base(w) = nextReport[w] /\ Base(w)' = nextReport[w]
    <3>1. Base(w)' = nextReport'[w] + PR
      BY <2>2 DEF Base, PR
    <3> QED BY <1>0, <2>1, <2>2, <3>1 DEF Base
  <2>4. \A v \in Worker \ {w} : /\ CheckedIn(v)' <=> CheckedIn(v)
                                /\ Base(v)' = Base(v) /\ cmdCount'[v] = cmdCount[v]
    BY <2>2, CheckedOthers DEF Base
  <2>5. \A v \in Worker : Base(v)' = Base(v)
    BY <2>3, <2>4
  <2> QED BY <2>1, <2>2, <2>3, <2>4, <2>5 DEF RoundInv
<1>2. CASE ResetCount(w)
  <2>1. nextReport' = nextReport /\ cmdCount' = cmdCount /\ pc' = [pc EXCEPT ![w] = "release"]
    BY <1>2 DEF ResetCount, generator
  <2>2. \A v \in Worker : Counted(v) /\ ~Counted(v)'
    BY <1>2, ResetBarrier
  <2>3. \A v \in Worker : CheckedIn(v)
    BY <2>2 DEF CheckedIn
  <2>4. \A v \in Worker : ~CheckedIn(v)'
    <3>1. \A v \in Worker \ {w} : Waits(v)
      BY <1>2, ReportersSteps DEF BarrierInv, BarrierLocal
    <3>2. \A v \in Worker : pc'[v] \in {"blocked", "release"}
      BY <2>1, <3>1 DEF Waits, Shape
    <3> QED BY <2>2, <3>2 DEF CheckedIn, Finishing
  <2>5. \A v \in Worker : Base(v) = nextReport[v] + PR /\ Base(v)' = nextReport[v]
    BY <2>1, <2>3, <2>4 DEF Base, PR
  <2>6. ASSUME NEW u \in Worker, NEW v \in Worker PROVE nextReport[u] = nextReport[v]
    <3>1. nextReport[u] + PR = nextReport[v] + PR
      BY <2>5 DEF RoundInv
    <3>2. nextReport[u] \in Int /\ nextReport[v] \in Int
      BY <1>0
    <3> DEFINE a == nextReport[u]
               b == nextReport[v]
    <3>3. a + PR = b + PR /\ a \in Int /\ b \in Int /\ PR \in Int
      BY <1>0, <3>1, <3>2
    <3> HIDE DEF a, b
    <3>4. a = b
      BY <3>3
    <3> QED BY <3>4 DEF a, b
  <2> QED BY <2>4, <2>5, <2>6 DEF RoundInv
<1>3. CASE ~NextReport(w) /\ ~ResetCount(w)
  <2>1. /\ CheckedIn(w)' <=> CheckedIn(w)
        /\ nextReport' = nextReport
        /\ cmdCount' = cmdCount \/ ~CheckedIn(w)
    BY <1>3, CheckedOwn
  <2>2. \A v \in Worker \ {w} : (CheckedIn(v)' <=> CheckedIn(v)) /\ cmdCount'[v] = cmdCount[v]
    BY <1>3, CheckedOthers
  <2>3. \A v \in Worker : Base(v)' = Base(v)
    BY <2>1, <2>2 DEF Base
  <2>4. \A v \in Worker : CheckedIn(v)' => CheckedIn(v) /\ cmdCount'[v] = cmdCount[v]
    BY <2>1, <2>2
  <2> QED BY <2>3, <2>4 DEF RoundInv
<1> QED BY <1>1, <1>2, <1>3
-----------------------------------------------------------------------------
(***************************************************************************)
(* The invariant holds at first, and every step keeps it.                  *)
(***************************************************************************)
LEMMA InitDriver == Init => DriverInv
<1> SUFFICES ASSUME Init PROVE DriverInv
  OBVIOUS
<1>1. Shape
  <2>1. NoCommand \in Command /\ 0 \in Period /\ << >> \in Seq(LogRecord)
    <3>1. NoCommand \in Command
      BY SizeAssumption DEF NoCommand, BankBalance, Command, Op, Account, Branch, SubAccount
    <3> QED BY <3>1, DriverAssumption DEF Period
  <2>2. EmptyReport \in Report
    <3>1. [i \in 0 .. MaxLogEntries - 1 |-> NoEntry] \in [0 .. MaxLogEntries - 1 -> LogRecord \cup {NoEntry}]
      OBVIOUS
    <3>2. 0 \in Int /\ 0 \in 0 .. MaxLogEntries
      BY DriverAssumption
    <3> QED BY <3>1, <3>2 DEF EmptyReport, Report
  <2>3. NoDaily \in [Period -> Report]
    BY <2>2 DEF NoDaily
  <2>4. "next" \in PC
    BY DEF PC
  <2> QED BY <2>1, <2>3, <2>4, Sizes, InitialAssumption, DriverAssumption DEF Init, Shape
<1>2. SeedInv
  <2> SUFFICES ASSUME NEW w \in Worker PROVE SeedLocal(w)
    BY DEF SeedInv
  <2>1. /\ cmdCount[w] = PerWorker(NumWorkers) /\ nextSeed[w] = 0 /\ Drawing(w) = 0
        /\ \A s \in Stream : drawn[s] = 0
    BY DEF Init, Drawing
  <2>2. 0 \in Nat /\ 0 \in 0 .. StreamsEach - 1 /\ 0 * StreamsEach + 0 = 0
    BY Sizes
  <2>3. \A j \in 0 .. StreamsEach - 1 : OwnStream(w, j) \in Stream /\ ~(j < 0)
    BY <2>2, StreamNumber
  <2>4. TurnOf(w, 0, 0)
    BY <2>1, <2>2, <2>3 DEF TurnOf
  <2>5. nextSeed[w] + cmdCount[w] + Drawing(w) = PerWorker(NumWorkers)
    BY <2>1, Sizes
  <2> QED BY <2>2, <2>4, <2>5 DEF SeedLocal
<1>3. \A w \in Worker : pc[w] = "next" /\ reg[w] = 0 /\ canContinue[w] = 0
  BY DEF Init
<1>4. LogInv
  <2>1. \A w \in Worker : LogLocal(w) /\ pc[w] \notin Logging
    BY <1>3 DEF LogLocal, Logging
  <2>2. \A r \in Period : daily[r].numLogEntries = 0
    BY DEF Init, NoDaily, EmptyReport
  <2>3. \A r \in Period : \A i \in 0 .. daily[r].numLogEntries - 1 :
          daily[r].transferLog[i] \in LogRecord
    BY <2>2
  <2>4. repLock = 1
    BY DEF Init
  <2> QED BY <2>1, <2>3, <2>4 DEF LogInv
<1>5. \A w \in Worker : pc[w] \notin Finishing \cup Closing \cup Counting /\ ~Counted(w)
  BY <1>3 DEF Finishing, Closing, Counting, Reporting, Counted
<1>6. BarrierInv
  <2>1. \A w \in Worker : BarrierLocal(w)
    BY <1>3, <1>5 DEF BarrierLocal
  <2>2. CountedSet = {} /\ {} \in SUBSET Worker
    BY <1>5 DEF CountedSet
  <2>3. Cardinality(CountedSet) = 0
    BY <2>2, WorkersCounted
  <2>4. numToFinish = NumWorkers - Cardinality(CountedSet) /\ finishCheck = 1
    BY <2>3, Sizes DEF Init
  <2> QED BY <1>5, <2>1, <2>4 DEF BarrierInv
<1>7. RoundInv
  <2>1. \A w \in Worker : ~CheckedIn(w)
    BY <1>3, <1>5 DEF CheckedIn
  <2>2. \A w \in Worker : nextReport[w] = PerWorker(NumWorkers) - PerReport(NumWorkers)
    BY DEF Init
  <2> QED BY <2>1, <2>2 DEF RoundInv, Base
<1> QED BY <1>1, <1>2, <1>4, <1>6, <1>7 DEF DriverInv

LEMMA ShapeStep ==
  ASSUME Shape, SeedInv, LogInv, BarrierInv, NEW w \in Worker, Step(w)
  PROVE  Shape'
<1>1. CASE NextDone(w) \/ NextReport(w) \/ NextCommand(w) \/ Draw(w) \/ Execute(w)
  BY <1>1, ShapeGenerator
<1>2. CASE RepWait(w) \/ LogPeriod(w) \/ LogEntry(w) \/ LogStore(w) \/ RepPost(w)
  BY <1>2, ShapeLog
<1>3. CASE FinishWait(w) \/ LoadCount(w) \/ StoreCount(w) \/ FinishPost(w) \/ Continue(w)
  <2>1. numToFinish \in Nat
    BY CountRange
  <2> QED BY <1>3, <2>1, ShapeBarrier
<1>4. CASE ReportFull(w) \/ ReportBalance(w) \/ CountReport(w)
             \/ ResetCount(w) \/ Release(w) \/ Released(w)
  BY <1>4, ShapeReport
<1> QED BY <1>1, <1>2, <1>3, <1>4 DEF Step

LEMMA NextDriver == DriverInv /\ [Next]_vars => DriverInv'
<1> SUFFICES ASSUME DriverInv, [Next]_vars PROVE DriverInv'
  OBVIOUS
<1>1. ASSUME NEW w \in Worker, Step(w) PROVE DriverInv'
  <2>1. Shape'
    BY <1>1, ShapeStep DEF DriverInv
  <2>2. SeedInv'
    BY <1>1, SeedStep DEF DriverInv
  <2>3. LogInv'
    BY <1>1, <2>1, LogStep DEF DriverInv
  <2>4. BarrierInv'
    BY <1>1, BarrierStep DEF DriverInv
  <2>5. RoundInv'
    BY <1>1, RoundStep DEF DriverInv
  <2> QED BY <2>1, <2>2, <2>3, <2>4, <2>5 DEF DriverInv
<1>2. CASE UNCHANGED vars
  <2> USE <1>2 DEF vars, generator, bank, barrier, local
  <2>1. Shape'
    BY DEF DriverInv, Shape
  <2>2. SeedInv'
    BY DEF DriverInv, SeedInv, SeedLocal, TurnOf, Drawing
  <2>3. LogInv'
    BY DEF DriverInv, LogInv, LogLocal
  <2>4. \A v \in Worker : Counted(v)' <=> Counted(v)
    BY DEF Counted, Pending
  <2>5. BarrierInv'
    <3>1. CountedSet' = CountedSet
      BY <2>4, CountKept
    <3>2. \A w \in Worker : BarrierLocal(w)' <=> BarrierLocal(w)
      BY DEF BarrierLocal, Waits
    <3> QED BY <3>1, <3>2 DEF DriverInv, BarrierInv
  <2>6. RoundInv'
    BY <2>4 DEF DriverInv, RoundInv, Base, CheckedIn
  <2> QED BY <2>1, <2>2, <2>3, <2>5, <2>6 DEF DriverInv
<1> QED BY <1>1, <1>2 DEF Next, Terminating

(***************************************************************************)
(* The inductive invariant is one.                                         *)
(***************************************************************************)
THEOREM DriverInvariance == Spec => []DriverInv
<1>1. Init => DriverInv
  BY InitDriver
<1>2. DriverInv /\ [Next]_vars => DriverInv'
  BY NextDriver
<1> QED BY <1>1, <1>2, PTL DEF Spec

(***************************************************************************)
(* No stream is drawn from beyond its end, and the counters stay in their  *)
(* ranges: among them numToFinish, and the semaphores, which are binary.   *)
(***************************************************************************)
THEOREM DriverTypeCorrect == Spec => []TypeOK
<1>1. DriverInv => TypeOK
  <2> SUFFICES ASSUME DriverInv PROVE TypeOK
    OBVIOUS
  <2> USE DEF DriverInv
  <2>1. cmdCount \in [Worker -> 0 .. PerWorker(NumWorkers)]
    <3>1. ASSUME NEW w \in Worker PROVE cmdCount[w] \in 0 .. PerWorker(NumWorkers)
      <4>1. nextSeed[w] + cmdCount[w] + Drawing(w) = PerWorker(NumWorkers)
        BY DEF SeedInv, SeedLocal
      <4>2. nextSeed[w] \in Nat /\ cmdCount[w] \in Nat /\ Drawing(w) \in Nat
        BY DEF Shape, Drawing
      <4> QED BY <4>1, <4>2, Sizes
    <3>2. cmdCount \in [Worker -> Nat]
      BY DEF Shape
    <3> QED BY <3>1, <3>2
  <2>2. drawn \in [Stream -> 0 .. NumCommands \div MaxWorkers]
    <3>1. ASSUME NEW s \in Stream PROVE drawn[s] \in 0 .. StreamLength
      <4>1. PICK w \in Worker, j \in 0 .. StreamsEach - 1 : s = OwnStream(w, j)
        BY StreamOwner
      <4>2. PICK q \in Nat, r \in 0 .. StreamsEach - 1 : TurnOf(w, q, r)
        BY DEF SeedInv, SeedLocal
      <4>3. drawn[s] = q + (IF j < r THEN 1 ELSE 0)
        BY <4>1, <4>2 DEF TurnOf
      <4>4. q * StreamsEach + r <= StreamLength * StreamsEach
        <5>1. nextSeed[w] + cmdCount[w] + Drawing(w) = StreamLength * StreamsEach
          BY Sizes DEF SeedInv, SeedLocal
        <5>2. nextSeed[w] \in Nat /\ cmdCount[w] \in Nat /\ Drawing(w) \in Nat
          BY DEF Shape, Drawing
        <5>3. nextSeed[w] = q * StreamsEach + r
          BY <4>2 DEF TurnOf
        <5> HIDE DEF StreamsEach, StreamLength
        <5> QED BY <5>1, <5>2, <5>3
      <4> DEFINE x == IF j < r THEN 1 ELSE 0
      <4>5. q + x <= StreamLength
        <5>1. CASE j < r
          <6>1. q * StreamsEach + (r - 1) < StreamLength * StreamsEach /\ r - 1 \in Nat
            BY <4>4, <5>1, Sizes
          <6>2. q < StreamLength
            BY <6>1, Sizes, QuotientLess
          <6> QED BY <5>1, <6>2, Sizes
        <5>2. CASE ~(j < r)
          <6>1. (q - 1) * StreamsEach + (StreamsEach - 1 + r) < StreamLength * StreamsEach
            BY <4>4, Sizes
          <6>2. StreamsEach - 1 + r \in Nat /\ q - 1 \in Int
            BY Sizes
          <6>3. q - 1 < StreamLength
            BY <6>1, <6>2, Sizes, QuotientLess
          <6> QED BY <5>2, <6>3, Sizes
        <5> QED BY <5>1, <5>2
      <4> QED BY <4>3, <4>5, Sizes
    <3>2. drawn \in [Stream -> Nat]
      BY DEF Shape
    <3> QED BY <3>1, <3>2 DEF StreamLength
  <2>3. ASSUME NEW r \in Period
        PROVE  /\ daily[r].balance \in Int /\ daily[r].hasOverflowed \in BOOLEAN
               /\ daily[r].numLogEntries \in 0 .. MaxLogEntries
               /\ \A i \in 0 .. daily[r].numLogEntries - 1 :
                    daily[r].transferLog[i] \in LogRecord
    <3>1. daily[r] \in Report
      BY DEF Shape
    <3> QED BY <3>1 DEF Report, LogInv
  <2>4. numToFinish \in 0 .. NumWorkers
    BY CountRange
  <2> QED BY <2>1, <2>2, <2>3, <2>4 DEF Shape, TypeOK, Period
<1> QED BY <1>1, DriverInvariance, PTL

(***************************************************************************)
(* The seeds that workerState keeps without a semaphore need none: the     *)
(* workers that draw at the same time draw from different streams.         *)
(***************************************************************************)
THEOREM SeedsRaceFree == Spec => []NoSeedRace
<1>1. DriverInv => NoSeedRace
  BY NoRace DEF DriverInv
<1> QED BY <1>1, DriverInvariance, PTL

(***************************************************************************)
(* While a worker takes the report all the others wait at the barrier, and *)
(* have done as many commands.                                             *)
(***************************************************************************)
THEOREM ReportsQuiescent == Spec => []ReportQuiescent
<1>1. DriverInv => ReportQuiescent
  <2> SUFFICES ASSUME DriverInv, NEW w \in Worker, pc[w] \in Reporting, NEW v \in Worker \ {w}
               PROVE  At(v, "blocked") /\ canContinue[v] = 0 /\ cmdCount[v] = cmdCount[w]
    BY DEF ReportQuiescent
  <2>1. pc[w] \in Counting \cap Closing
    BY DEF Counting, Closing
  <2>2. Waits(v)
    BY <2>1 DEF DriverInv, BarrierInv, BarrierLocal
  <2>3. \A u \in Worker : ~At(u, "release")
    BY <2>1 DEF DriverInv, BarrierInv, Closing, Reporting
  <2>4. CheckedIn(w) /\ CheckedIn(v)
    BY <2>1, <2>2, <2>3 DEF CheckedIn, Counted, Pending, Waits
  <2> QED BY <2>2, <2>4 DEF DriverInv, RoundInv, Waits
<1> QED BY <1>1, DriverInvariance, PTL
-----------------------------------------------------------------------------
(***************************************************************************)
(* The comparison of the runs.  Four periods, in each of which PerPeriod   *)
(* commands are taken from every stream.                                   *)
(***************************************************************************)
LEMMA PeriodSizes ==
  /\ PerPeriod \in Nat /\ StreamLength = 4 * PerPeriod
  /\ PerReport(NumWorkers) = StreamsEach * PerPeriod
  /\ PerWorker(NumWorkers) = 4 * (StreamsEach * PerPeriod)
  /\ PerReport(1) = MaxWorkers * PerPeriod
  /\ NumCommands = MaxWorkers * (4 * PerPeriod)
<1> DEFINE n == NumWorkers
           m == MaxWorkers
           c == NumCommands
           k == StreamsEach
           f == 4 * m
           y == c \div f
<1>0. /\ n \in Nat \ {0} /\ m \in Nat \ {0} /\ k \in Nat \ {0} /\ m = n * k
      /\ c \in Nat /\ c % f = 0
  BY Sizes, DriverAssumption
<1>1. f \in Nat \ {0}
  BY <1>0
<1>2. c = f * y /\ y \in Int
  <2> HIDE DEF f
  <2> QED BY <1>0, <1>1, DivMod
<1>3. y = PerPeriod
  BY DEF PerPeriod
<1> HIDE DEF y
<1>4. y \in Nat
  <2>1. (-1) * f + (f - 1) < y * f /\ f - 1 \in Nat
    <3> HIDE DEF f
    <3> QED BY <1>0, <1>1, <1>2
  <2>2. -1 < y
    <3> HIDE DEF f
    <3> QED BY <1>1, <1>2, <2>1, QuotientLess
  <2> QED BY <1>2, <2>2
<1>5. c = m * (4 * y) /\ c = 4 * (m * y) /\ c = n * (4 * (k * y)) /\ m * y = n * (k * y)
  BY <1>0, <1>2, <1>4
<1>6. 4 * y \in Int /\ m * y \in Int /\ k * y \in Int /\ 4 * (k * y) \in Int
  BY <1>0, <1>4
<1> HIDE DEF n, m, c, k, f
<1>7. c \div m = 4 * y
  BY <1>0, <1>5, <1>6, DivExact
<1>8. c \div 4 = m * y
  BY <1>5, <1>6, DivExact
<1>9. (m * y) \div n = k * y
  BY <1>0, <1>5, <1>6, DivExact
<1>10. c \div n = 4 * (k * y)
  BY <1>0, <1>5, <1>6, DivExact
<1>11. (m * y) \div 1 = m * y
  BY <1>6
<1> QED BY <1>3, <1>4, <1>5, <1>7, <1>8, <1>9, <1>10, <1>11
        DEF n, m, c, k, StreamLength, PerReport, PerWorker

(***************************************************************************)
(* What a command passes to Report_Transfer.                               *)
(***************************************************************************)
EntriesOf(id) == Entries(CommandOf(id))

LEMMA IdFact ==
  /\ IsFiniteSet(Stream) /\ IsFiniteSet(CommandId)
  /\ \A id \in CommandId :
       /\ id[1] \in Stream /\ id[2] \in 0 .. StreamLength - 1 /\ id = <<id[1], id[2]>>
       /\ CommandOf(id) \in Command
  /\ \A s \in Stream, k \in 0 .. StreamLength - 1 :
       /\ <<s, k>> \in CommandId
       /\ CommandOf(<<s, k>>) = Drawn[s][k]
<1>1. 0 \in Int /\ MaxWorkers - 1 \in Int /\ StreamLength - 1 \in Int
  BY Sizes
<1>2. IsFiniteSet(0 .. MaxWorkers - 1) /\ IsFiniteSet(0 .. StreamLength - 1)
  BY <1>1, FS_Interval
<1>3. CommandId = Stream \X (0 .. StreamLength - 1) /\ IsFiniteSet(Stream)
  BY <1>2 DEF CommandId, StreamLength, Stream
<1>4. IsFiniteSet(CommandId)
  BY <1>2, <1>3, FS_Product
<1>5. \A s \in Stream, k \in 0 .. StreamLength - 1 : Drawn[s][k] \in Command
  BY DriverAssumption DEF StreamLength
<1> QED BY <1>3, <1>4, <1>5 DEF CommandOf
-----------------------------------------------------------------------------
(***************************************************************************)
(* The items of a report: the entries of the commands of its period that   *)
(* succeed, but for the small ones.  Passed are those that Report_Transfer *)
(* has dealt with when n commands of each stream are done, and the items   *)
(* in hold are still to be passed.                                         *)
(***************************************************************************)
Failing == CHOOSE failing \in SUBSET CommandId : FailuresFixed(failing)

Item == CommandId \X (1 .. 2)

EntryOf(it) == EntriesOf(it[1])[it[2]]

LargeItems(p) ==
  {it \in Item : /\ it[1] \notin Failing
                 /\ it[2] <= Len(EntriesOf(it[1])) /\ ~IsSmall(EntryOf(it))
                 /\ p * PerPeriod <= it[1][2] /\ it[1][2] < (p + 1) * PerPeriod}

Passed(n, hold, p) ==
  {it \in LargeItems(p) : it[1][2] < n[it[1][1]] /\ it \notin hold}

LEMMA PassedFinite ==
  ASSUME NEW n, NEW hold, NEW p
  PROVE  IsFiniteSet(Passed(n, hold, p)) /\ IsFiniteSet(LargeItems(p))
<1>1. IsFiniteSet(1 .. 2)
  <2>1. 1 \in Int /\ 2 \in Int
    OBVIOUS
  <2> QED BY <2>1, FS_Interval, Zenon
<1>2. IsFiniteSet(Item)
  BY <1>1, IdFact, FS_Product DEF Item
<1>3. LargeItems(p) \subseteq Item /\ Passed(n, hold, p) \subseteq Item
  BY DEF LargeItems, Passed
<1> QED BY <1>2, <1>3, FS_Subset

(***************************************************************************)
(* A command that is done has its items in hold, if it has any.            *)
(***************************************************************************)
Advanced(n, id) == [n EXCEPT ![id[1]] = @ + 1]

Kept(next, hold, id, p) ==
  \A it \in LargeItems(p) : /\ it[1] # id => (it \in next <=> it \in hold)
                            /\ it[1] = id => it \in next

LEMMA PassedKept ==
  ASSUME NEW n \in [Stream -> Nat], NEW id \in CommandId, n[id[1]] = id[2],
         NEW hold, NEW next, NEW p,
         Kept(next, hold, id, p)
  PROVE  Passed(Advanced(n, id), next, p) = Passed(n, hold, p)
<1> DEFINE m == Advanced(n, id)
<1>1. /\ id[1] \in Stream /\ id[2] \in Nat /\ id = <<id[1], id[2]>>
      /\ \A it \in LargeItems(p) :
           it[1] \in CommandId /\ it[1][1] \in Stream /\ it[1][2] \in Nat
             /\ it[1] = <<it[1][1], it[1][2]>>
  <2>1. \A c \in CommandId : c[1] \in Stream /\ c[2] \in Nat /\ c = <<c[1], c[2]>>
    BY IdFact
  <2>2. \A it \in LargeItems(p) : it[1] \in CommandId
    BY DEF LargeItems, Item
  <2> QED BY <2>1, <2>2
<1>2. /\ m[id[1]] = id[2] + 1 /\ n[id[1]] = id[2]
      /\ \A s \in Stream : s # id[1] => m[s] = n[s]
  BY <1>1 DEF Advanced
<1> HIDE DEF m
<1>3. ASSUME NEW it \in LargeItems(p)
      PROVE  it[1][2] < m[it[1][1]] /\ it \notin next <=> it[1][2] < n[it[1][1]] /\ it \notin hold
  <2>1. CASE it[1] = id
    BY <1>1, <1>2, <2>1 DEF Kept
  <2>2. CASE it[1] # id
    <3>1. it \in next <=> it \in hold
      BY <2>2 DEF Kept
    <3>2. it[1][1] = id[1] => it[1][2] # id[2]
      BY <1>1, <2>2
    <3>3. it[1][2] < m[it[1][1]] <=> it[1][2] < n[it[1][1]]
      <4>1. CASE it[1][1] = id[1]
        BY <1>1, <1>2, <3>2, <4>1
      <4>2. CASE it[1][1] # id[1]
        BY <1>1, <1>2, <4>2
      <4> QED BY <4>1, <4>2
    <3> QED BY <3>1, <3>3
  <2> QED BY <2>1, <2>2
<1>4. Passed(m, next, p) = Passed(n, hold, p)
  BY <1>3 DEF Passed
<1> QED BY <1>4 DEF m

LEMMA PassedMore ==
  ASSUME NEW n, NEW it \in Item, NEW hold, it \in hold, it[1][2] < n[it[1][1]],
         NEW next, \A j \in Item : j \in next <=> j \in hold /\ j # it, NEW p
  PROVE  /\ it \notin Passed(n, hold, p)
         /\ it \in LargeItems(p) => Passed(n, next, p) = Passed(n, hold, p) \cup {it}
         /\ it \notin LargeItems(p) => Passed(n, next, p) = Passed(n, hold, p)
<1>1. LargeItems(p) \subseteq Item
  BY DEF LargeItems
<1> QED BY <1>1 DEF Passed

(***************************************************************************)
(* A report holds the items of S: all of them, once each, or it is full    *)
(* and S has more than it can hold.                                        *)
(***************************************************************************)
LogHolds(report, S) ==
  IF report.hasOverflowed
  THEN report.numLogEntries = MaxLogEntries /\ Cardinality(S) > MaxLogEntries
  ELSE /\ report.numLogEntries = Cardinality(S)
       /\ \A e : Cardinality({i \in 0 .. Cardinality(S) - 1 : report.transferLog[i] = e})
                   = Cardinality({it \in S : EntryOf(it) = e})

LEMMA LogSame ==
  ASSUME NEW d1, NEW d2, NEW S,
         d1.hasOverflowed = d2.hasOverflowed, d1.numLogEntries = d2.numLogEntries,
         d1.transferLog = d2.transferLog
  PROVE  LogHolds(d1, S) <=> LogHolds(d2, S)
BY DEF LogHolds

LEMMA LogAppend ==
  ASSUME NEW d \in Report, NEW S, IsFiniteSet(S), LogHolds(d, S), NEW it, it \notin S,
         d.numLogEntries < MaxLogEntries, EntryOf(it) \in LogRecord
  PROVE  LogHolds(Logged(d, d.numLogEntries, EntryOf(it)), S \cup {it})
<1> DEFINE n == Cardinality(S)
           a == EntryOf(it)
           log == d.transferLog
           after == Logged(d, d.numLogEntries, a)
           Slots(l, m, e) == {i \in 0 .. m - 1 : l[i] = e}
           Those(T, e) == {j \in T : EntryOf(j) = e}
<1>1. /\ n \in Nat /\ IsFiniteSet(S \cup {it}) /\ Cardinality(S \cup {it}) = n + 1
      /\ MaxLogEntries \in Nat
  BY FS_CardinalityType, FS_AddElement, DriverAssumption
<1>2. ~d.hasOverflowed /\ d.numLogEntries = n /\ d.hasOverflowed \in BOOLEAN
  <2>1. d.hasOverflowed => d.numLogEntries = MaxLogEntries
    BY DEF LogHolds
  <2>2. ~d.hasOverflowed
    BY <1>1, <2>1
  <2> QED BY <2>2 DEF LogHolds, Report
<1>3. \A e : Cardinality(Slots(log, n, e)) = Cardinality(Those(S, e))
  BY <1>2 DEF LogHolds
<1>4. /\ n \in 0 .. MaxLogEntries - 1 /\ after.numLogEntries = n + 1
      /\ after.transferLog = [log EXCEPT ![n] = a]
      /\ after.hasOverflowed = d.hasOverflowed
      /\ log \in [0 .. MaxLogEntries - 1 -> LogRecord \cup {NoEntry}]
  <2>1. n \in 0 .. MaxLogEntries - 1
    BY <1>1, <1>2
  <2>2. /\ Logged(d, n, a).numLogEntries = n + 1
        /\ Logged(d, n, a).transferLog = [log EXCEPT ![n] = a]
    BY <2>1, LoggedType
  <2>3. Logged(d, n, a).hasOverflowed = d.hasOverflowed
    BY DEF Logged, Report
  <2> QED BY <1>2, <2>1, <2>2, <2>3 DEF Report
<1>5. /\ after.transferLog[n] = a
      /\ \A i \in 0 .. n - 1 : after.transferLog[i] = log[i]
  BY <1>1, <1>4
<1> DEFINE new == after.transferLog
<1> HIDE DEF after, n, a, log, new
<1>6. ASSUME NEW e
      PROVE  Cardinality(Slots(new, n + 1, e)) = Cardinality(Those(S \cup {it}, e))
  <2>1. IsFiniteSet(Slots(log, n, e)) /\ IsFiniteSet(Those(S, e))
    <3>1. IsFiniteSet(0 .. n - 1)
      BY <1>1, FS_Interval
    <3> QED BY <3>1, FS_Subset
  <2>2. Cardinality(Slots(log, n, e)) = Cardinality(Those(S, e))
    BY <1>3
  <2>3. n \notin Slots(log, n, e) /\ it \notin Those(S, e)
    BY <1>1
  <2>4. (0 .. (n + 1) - 1) = (0 .. n - 1) \cup {n}
    BY <1>1
  <2>5. CASE a = e
    <3>1. Slots(new, n + 1, e) = Slots(log, n, e) \cup {n}
      BY <1>5, <2>4, <2>5 DEF new
    <3>2. Those(S \cup {it}, e) = Those(S, e) \cup {it}
      BY <2>5 DEF a
    <3>3. /\ Cardinality(Slots(log, n, e) \cup {n}) = Cardinality(Slots(log, n, e)) + 1
          /\ Cardinality(Those(S, e) \cup {it}) = Cardinality(Those(S, e)) + 1
      BY <2>1, <2>3, FS_AddElement
    <3> QED BY <2>2, <3>1, <3>2, <3>3
  <2>6. CASE a # e
    <3>1. Slots(new, n + 1, e) = Slots(log, n, e)
      BY <1>5, <2>4, <2>6 DEF new
    <3>2. Those(S \cup {it}, e) = Those(S, e)
      BY <2>6 DEF a
    <3> QED BY <2>2, <3>1, <3>2
  <2> QED BY <2>5, <2>6
<1>7. LogHolds(after, S \cup {it})
  <2>1. ~after.hasOverflowed /\ after.numLogEntries = Cardinality(S \cup {it})
    BY <1>1, <1>2, <1>4
  <2>2. \A e : Cardinality({i \in 0 .. Cardinality(S \cup {it}) - 1 : after.transferLog[i] = e})
                   = Cardinality({j \in S \cup {it} : EntryOf(j) = e})
    BY <1>1, <1>6 DEF new
  <2> QED BY <2>1, <2>2 DEF LogHolds
<1> QED BY <1>2, <1>7 DEF after, a

LEMMA LogOverflow ==
  ASSUME NEW d \in Report, NEW S, IsFiniteSet(S), LogHolds(d, S), NEW it, it \notin S,
         d.numLogEntries >= MaxLogEntries
  PROVE  LogHolds([d EXCEPT !.hasOverflowed = TRUE], S \cup {it})
<1> DEFINE n == Cardinality(S)
           after == [d EXCEPT !.hasOverflowed = TRUE]
<1>1. n \in Nat /\ Cardinality(S \cup {it}) = n + 1 /\ MaxLogEntries \in Nat
  BY FS_CardinalityType, FS_AddElement, DriverAssumption
<1>2. after.hasOverflowed /\ after.numLogEntries = d.numLogEntries
      /\ d.numLogEntries \in 0 .. MaxLogEntries
  BY DEF Report
<1>3. d.numLogEntries = MaxLogEntries /\ n >= MaxLogEntries
  <2>1. d.numLogEntries = MaxLogEntries
    BY <1>1, <1>2
  <2>2. d.hasOverflowed => n > MaxLogEntries
    BY DEF LogHolds
  <2>3. ~d.hasOverflowed => n = MaxLogEntries
    BY <2>1 DEF LogHolds
  <2> QED BY <1>1, <2>1, <2>2, <2>3
<1> HIDE DEF after, n
<1>4. n + 1 > MaxLogEntries
  BY <1>1, <1>3
<1>5. LogHolds(after, S \cup {it})
  BY <1>1, <1>2, <1>3, <1>4 DEF LogHolds
<1> QED BY <1>5 DEF after

(***************************************************************************)
(* Two reports that hold the same items compare.                           *)
(***************************************************************************)
LEMMA LogCompare ==
  ASSUME NEW d1 \in Report, NEW d2 \in Report, NEW S, IsFiniteSet(S),
         LogHolds(d1, S), LogHolds(d2, S)
  PROVE  /\ d1.numLogEntries = d2.numLogEntries
         /\ ~d1.hasOverflowed => SameEntries(d1.transferLog, d2.transferLog, d1.numLogEntries)
<1> DEFINE n == Cardinality(S)
<1>1. n \in Nat /\ MaxLogEntries \in Nat
  BY FS_CardinalityType, DriverAssumption
<1>2. ASSUME NEW d \in Report, LogHolds(d, S)
      PROVE  d.hasOverflowed <=> n > MaxLogEntries
  <2>1. d.numLogEntries \in 0 .. MaxLogEntries
    BY DEF Report
  <2>2. d.hasOverflowed => n > MaxLogEntries
    BY <1>2 DEF LogHolds
  <2>3. ~d.hasOverflowed => n = d.numLogEntries
    BY <1>2 DEF LogHolds
  <2> QED BY <1>1, <2>1, <2>2, <2>3
<1>3. d1.hasOverflowed <=> d2.hasOverflowed
  BY <1>2
<1>4. d1.numLogEntries = d2.numLogEntries
  BY <1>3 DEF LogHolds
<1>5. ASSUME ~d1.hasOverflowed
      PROVE  SameEntries(d1.transferLog, d2.transferLog, d1.numLogEntries)
  <2>1. d1.numLogEntries = n
    BY <1>5 DEF LogHolds
  <2>2. \A e : /\ Cardinality({i \in 0 .. n - 1 : d1.transferLog[i] = e})
                   = Cardinality({it \in S : EntryOf(it) = e})
               /\ Cardinality({i \in 0 .. n - 1 : d2.transferLog[i] = e})
                   = Cardinality({it \in S : EntryOf(it) = e})
    BY <1>3, <1>5 DEF LogHolds
  <2> HIDE DEF n
  <2>3. \A e : Cardinality({i \in 0 .. n - 1 : d1.transferLog[i] = e})
                 = Cardinality({i \in 0 .. n - 1 : d2.transferLog[i] = e})
    BY <2>2
  <2>4. SameEntries(d1.transferLog, d2.transferLog, n)
    BY <2>3 DEF SameEntries
  <2> QED BY <2>1, <2>4
<1> QED BY <1>4, <1>5
-----------------------------------------------------------------------------
(***************************************************************************)
(* The balances when n commands of each stream are done.                   *)
(***************************************************************************)
Effect(failing, a) ==
  [id \in CommandId |-> IF id \in failing THEN 0
                        ELSE Applied([b \in Account |-> 0], CommandOf(id))[a]]

LEMMA EffectFact ==
  ASSUME NEW F, NEW a \in Account
  PROVE  /\ Effect(F, a) \in [CommandId -> Int]
         /\ \A id \in CommandId :
              Effect(F, a)[id] = IF id \in F THEN 0 ELSE Change(CommandOf(id), a)
<1> DEFINE zero == [b \in Account |-> 0]
<1>1. zero \in [Account -> Int] /\ zero[a] = 0
  OBVIOUS
<1> HIDE DEF zero
<1>2. ASSUME NEW id \in CommandId
      PROVE  /\ Change(CommandOf(id), a) \in Int
             /\ Applied(zero, CommandOf(id))[a] = Change(CommandOf(id), a)
  <2>1. CommandOf(id) \in Command
    BY IdFact
  <2>2. /\ Change(CommandOf(id), a) \in Int
        /\ Applied(zero, CommandOf(id))[a] = zero[a] + Change(CommandOf(id), a)
    BY <1>1, <2>1, AppliedFact
  <2> QED BY <1>1, <2>2
<1>3. Effect(F, a) = [id \in CommandId |-> IF id \in F THEN 0
                                           ELSE Applied(zero, CommandOf(id))[a]]
  BY DEF Effect, zero
<1> QED BY <1>2, <1>3

LEMMA BalanceType ==
  ASSUME NEW F, NEW n
  PROVE  /\ BalanceAfter(n, F) \in [Account -> Int]
         /\ \A a \in Account :
              BalanceAfter(n, F)[a] =
                InitialBalance[a] + SumFunctionOnSet(Effect(F, a), DoneBefore(n))
<1>1. BalanceAfter(n, F) = [a \in Account |->
          InitialBalance[a] + SumFunctionOnSet(Effect(F, a), DoneBefore(n))]
  BY DEF BalanceAfter, Effect
<1>2. DoneBefore(n) \in SUBSET CommandId
  BY DEF DoneBefore
<1>3. ASSUME NEW a \in Account
      PROVE  SumFunctionOnSet(Effect(F, a), DoneBefore(n)) \in Int
  BY <1>2, IdFact, EffectFact, SumFact
<1> QED BY <1>1, <1>3, InitialAssumption

LEMMA BalanceStart ==
  ASSUME NEW F, NEW n, \A s \in Stream : n[s] = 0
  PROVE  BalanceAfter(n, F) = InitialBalance
<1>1. DoneBefore(n) = {}
  <2>1. \A id \in CommandId : id[1] \in Stream /\ id[2] \in Nat
    BY IdFact
  <2>2. \A id \in CommandId : ~(id[2] < n[id[1]])
    BY <2>1
  <2> QED BY <2>2 DEF DoneBefore
<1>2. \A a \in Account : SumFunctionOnSet(Effect(F, a), {}) = 0
  BY IdFact, EffectFact, SumFact
<1>3. \A a \in Account : BalanceAfter(n, F)[a] = InitialBalance[a]
  BY <1>1, <1>2, BalanceType, InitialAssumption
<1> QED BY <1>3, BalanceType, InitialAssumption

LEMMA BalanceNext ==
  ASSUME NEW F, NEW n \in [Stream -> Nat], NEW id \in CommandId, n[id[1]] = id[2]
  PROVE  BalanceAfter(Advanced(n, id), F) =
           IF id \in F THEN BalanceAfter(n, F) ELSE Applied(BalanceAfter(n, F), CommandOf(id))
<1> DEFINE m == Advanced(n, id)
           bal == BalanceAfter(n, F)
           new == BalanceAfter(m, F)
<1>1. /\ id[1] \in Stream /\ id[2] \in Nat /\ id = <<id[1], id[2]>>
      /\ \A j \in CommandId : j[1] \in Stream /\ j[2] \in Nat /\ j = <<j[1], j[2]>>
  BY IdFact
<1>2. /\ m[id[1]] = id[2] + 1 /\ n[id[1]] = id[2]
      /\ \A s \in Stream : s # id[1] => m[s] = n[s]
  BY <1>1 DEF Advanced
<1> HIDE DEF m
<1>3. DoneBefore(m) \in SUBSET CommandId /\ id \in DoneBefore(m)
  BY <1>1, <1>2 DEF DoneBefore
<1>4. DoneBefore(n) = DoneBefore(m) \ {id}
  <2>1. ASSUME NEW j \in CommandId
        PROVE  j[2] < n[j[1]] <=> (j[2] < m[j[1]] /\ j # id)
    <3>1. CASE j[1] = id[1]
      BY <1>1, <1>2, <3>1
    <3>2. CASE j[1] # id[1]
      BY <1>1, <1>2, <3>2
    <3> QED BY <3>1, <3>2
  <2> QED BY <2>1 DEF DoneBefore
<1>5. bal \in [Account -> Int] /\ new \in [Account -> Int] /\ CommandOf(id) \in Command
  BY BalanceType, IdFact
<1>6. ASSUME NEW a \in Account
      PROVE  new[a] = bal[a] + (IF id \in F THEN 0 ELSE Change(CommandOf(id), a))
  <2> DEFINE f == Effect(F, a)
             old == SumFunctionOnSet(f, DoneBefore(n))
  <2>1. f \in [CommandId -> Int]
        /\ f[id] = IF id \in F THEN 0 ELSE Change(CommandOf(id), a)
    BY EffectFact
  <2>2. bal[a] = InitialBalance[a] + old
        /\ new[a] = InitialBalance[a] + SumFunctionOnSet(f, DoneBefore(m))
    BY BalanceType
  <2> HIDE DEF f
  <2>3. SumFunctionOnSet(f, DoneBefore(m)) = f[id] + SumFunctionOnSet(f, DoneBefore(m) \ {id})
    BY <1>3, <2>1, IdFact, SumRemove
  <2>4. old \in Int
    <3>1. DoneBefore(n) \in SUBSET CommandId
      BY DEF DoneBefore
    <3> QED BY <2>1, <3>1, IdFact, SumFact
  <2>5. SumFunctionOnSet(f, DoneBefore(m)) = f[id] + old
    BY <1>4, <2>3
  <2>6. InitialBalance[a] \in Int /\ f[id] \in Int
    BY <2>1, InitialAssumption
  <2> HIDE DEF old, bal, new
  <2>7. new[a] = bal[a] + f[id]
    BY <2>2, <2>4, <2>5, <2>6
  <2> QED BY <2>1, <2>7
<1> HIDE DEF bal, new
<1>7. CASE id \in F
  <2>1. \A a \in Account : new[a] = bal[a]
    BY <1>5, <1>6, <1>7
  <2>2. new = bal
    BY <1>5, <2>1
  <2> QED BY <1>7, <2>2 DEF new, bal, m
<1>8. CASE id \notin F
  <2>1. \A a \in Account : Applied(bal, CommandOf(id)) \in [Account -> Int]
                           /\ Applied(bal, CommandOf(id))[a] = bal[a] + Change(CommandOf(id), a)
    BY <1>5, AppliedFact
  <2>2. \A a \in Account : new[a] = Applied(bal, CommandOf(id))[a]
    BY <1>6, <1>8, <2>1
  <2>3. <<0, 0>> \in Account
    BY SizeAssumption DEF Account, Branch, SubAccount
  <2>4. new = Applied(bal, CommandOf(id))
    BY <1>5, <2>1, <2>2, <2>3
  <2> QED BY <1>8, <2>4 DEF new, bal, m
<1> QED BY <1>7, <1>8

LEMMA EnquiryQuiet ==
  ASSUME NEW bal \in [Account -> Int], NEW c \in Command, ~IsTeller(c)
  PROVE  Applied(bal, c) = bal /\ ~Refused(bal, c)
<1>1. \A a \in Account : Change(c, a) = 0
  BY DEF Change, IsTeller
<1>2. \A a \in Account : /\ Applied(bal, c) \in [Account -> Int]
                         /\ Applied(bal, c)[a] = bal[a] + Change(c, a)
  BY AppliedFact
<1>3. \A a \in Account : Applied(bal, c)[a] = bal[a]
  BY <1>1, <1>2
<1>4. <<0, 0>> \in Account
  BY SizeAssumption DEF Account, Branch, SubAccount
<1> QED BY <1>2, <1>3, <1>4 DEF Refused

(***************************************************************************)
(* The calls of Report_Transfer of a command, one after the other.         *)
(***************************************************************************)
Folded(g, run, s) ==
  g = [T \in SUBSET DOMAIN s |->
         IF T = {} THEN run ELSE ReportTransfer(g[T \ {Max(T)}], s[Max(T)])]

LEMMA FoldTransfers ==
  ASSUME NEW run, NEW s \in Seq(LogRecord), Len(s) \in {0, 1, 2}
  PROVE  /\ Len(s) = 0 => FoldLeft(ReportTransfer, run, s) = run
         /\ Len(s) = 1 => FoldLeft(ReportTransfer, run, s) = ReportTransfer(run, s[1])
         /\ Len(s) = 2 => FoldLeft(ReportTransfer, run, s)
                            = ReportTransfer(ReportTransfer(run, s[1]), s[2])
<1> DEFINE D == DOMAIN s
           g == CHOOSE g : Folded(g, run, s)
           one == ReportTransfer(run, s[1])
           two == ReportTransfer(run, s[2])
           both == ReportTransfer(one, s[2])
           h == [T \in SUBSET D |->
                   IF T = {} THEN run
                   ELSE IF T = {1} THEN one ELSE IF T = {2} THEN two ELSE both]
<1>1. FoldLeft(ReportTransfer, run, s) = g[D]
  BY DEF FoldLeft, MapThenFoldSet, Folded
<1>2. D = 1 .. Len(s)
  OBVIOUS
<1>3. Max({1}) = 1 /\ Max({2}) = 2 /\ Max({1, 2}) = 2
  BY DEF Max
<1>4. Folded(h, run, s)
  <2>1. ASSUME NEW T \in SUBSET D, T # {}
        PROVE  h[T] = ReportTransfer(h[T \ {Max(T)}], s[Max(T)])
    <3>1. T \in {{1}, {2}, {1, 2}}
      <4>1. D \subseteq {1, 2}
        BY <1>2
      <4> QED BY <2>1, <4>1
    <3>2. CASE T = {1}
      <4>1. T \ {Max(T)} = {}
        BY <1>3, <3>2
      <4> QED BY <1>3, <3>2, <4>1
    <3>3. CASE T = {2}
      <4>1. T \ {Max(T)} = {} /\ T # {1}
        BY <1>3, <3>3
      <4> QED BY <1>3, <3>3, <4>1
    <3>4. CASE T = {1, 2}
      <4>1. T \ {Max(T)} = {1} /\ T # {1} /\ T # {2} /\ {1} \in SUBSET D
        BY <1>3, <3>4
      <4> QED BY <1>3, <3>4, <4>1
    <3> QED BY <3>1, <3>2, <3>3, <3>4
  <2>2. h[{}] = run
    OBVIOUS
  <2>3. h = [T \in SUBSET D |-> h[T]]
    OBVIOUS
  <2> HIDE DEF h
  <2>4. \A T \in SUBSET D :
          h[T] = IF T = {} THEN run ELSE ReportTransfer(h[T \ {Max(T)}], s[Max(T)])
    BY <2>1, <2>2
  <2> QED BY <2>3, <2>4 DEF Folded
<1>5. Folded(g, run, s)
  BY <1>4
<1> HIDE DEF g, h
<1>6. \A T \in SUBSET D :
        g[T] = IF T = {} THEN run ELSE ReportTransfer(g[T \ {Max(T)}], s[Max(T)])
  BY <1>5 DEF Folded
<1>7. g[{}] = run
  BY <1>6
<1>8. Len(s) = 0 => g[D] = run
  BY <1>2, <1>7
<1>9. 1 \in D => g[{1}] = ReportTransfer(run, s[1])
  <2>1. {1} \ {Max({1})} = {} /\ {1} # {}
    BY <1>3
  <2> QED BY <1>3, <1>6, <1>7, <2>1
<1>10. Len(s) = 1 => g[D] = ReportTransfer(run, s[1])
  <2>1. Len(s) = 1 => D = {1}
    BY <1>2
  <2> QED BY <1>9, <2>1
<1>11. Len(s) = 2 => g[D] = ReportTransfer(ReportTransfer(run, s[1]), s[2])
  <2>1. Len(s) = 2 => D = {1, 2} /\ 1 \in D
    BY <1>2
  <2>2. {1, 2} \ {Max({1, 2})} = {1} /\ {1, 2} # {}
    BY <1>3
  <2> QED BY <1>3, <1>6, <1>9, <2>1, <2>2
<1> QED BY <1>1, <1>8, <1>10, <1>11
-----------------------------------------------------------------------------
(***************************************************************************)
(* The bank when made reports were due and n commands of each stream are   *)
(* done: every report has the balance of the end of its period, and holds  *)
(* the items that were passed.                                             *)
(***************************************************************************)
All(k) == [s \in Stream |-> k]

Made(made) == IF made <= MaxReports THEN made ELSE MaxReports

ReportBalanceOf(p) == BankTotal(BalanceAfter(All((p + 1) * PerPeriod), Failing))

LogsHold(reports, n, hold) == \A p \in Period : LogHolds(reports[p], Passed(n, hold, p))

RunHolds(run, made, n, hold) ==
  /\ run \in [balance : [Account -> Int], numReports : 0 .. MaxReports,
              daily : [Period -> Report]]
  /\ run.balance = BalanceAfter(n, Failing)
  /\ run.numReports = Made(made)
  /\ \A p \in Period : p < run.numReports => run.daily[p].balance = ReportBalanceOf(p)
  /\ LogsHold(run.daily, n, hold)

(***************************************************************************)
(* An item passed in period r is one of report r, if of any.               *)
(***************************************************************************)
InPeriod(k, r) == r * PerPeriod <= k /\ k < (r + 1) * PerPeriod

LEMMA PeriodUnique ==
  ASSUME NEW k \in Int, NEW p \in Nat, NEW r \in Nat, InPeriod(k, p), InPeriod(k, r)
  PROVE  p = r
<1> DEFINE x == PerPeriod
<1>1. x \in Nat /\ p * x <= k /\ k < (p + 1) * x /\ r * x <= k /\ k < (r + 1) * x
  BY PeriodSizes DEF InPeriod
<1> HIDE DEF x
<1>2. ASSUME NEW i \in Nat, NEW j \in Nat, i < j PROVE (i + 1) * x <= j * x
  <2>1. PICK d \in Nat : j = (i + 1) + d
    <3>1. j - (i + 1) \in Nat /\ j = (i + 1) + (j - (i + 1))
      BY <1>2
    <3> QED BY <3>1
  <2>2. j * x = (i + 1) * x + d * x /\ d * x \in Nat
    BY <1>1, <2>1
  <2> QED BY <1>1, <2>2
<1>3. ~(p < r)
  <2>1. p < r => (p + 1) * x <= r * x
    BY <1>2
  <2>2. (p + 1) * x \in Int /\ r * x \in Int
    BY <1>1
  <2> QED BY <1>1, <2>1, <2>2
<1>4. ~(r < p)
  <2>1. r < p => (r + 1) * x <= p * x
    BY <1>2
  <2>2. (r + 1) * x \in Int /\ p * x \in Int
    BY <1>1
  <2> QED BY <1>1, <2>1, <2>2
<1> QED BY <1>3, <1>4

(***************************************************************************)
(* What may be passed next: an entry of a command done in period r.        *)
(***************************************************************************)
Passable(it, n, hold, r) ==
  /\ it \in Item /\ it \in hold /\ it[1] \notin Failing
  /\ it[2] <= Len(EntriesOf(it[1]))
  /\ InPeriod(it[1][2], r) /\ it[1][2] < n[it[1][1]]

Without(next, hold, it) == \A j \in Item : j \in next <=> j \in hold /\ j # it

Gives(n, hold, next, it, r, p) ==
  /\ p # r \/ IsSmall(EntryOf(it)) => Passed(n, next, p) = Passed(n, hold, p)
  /\ p = r /\ ~IsSmall(EntryOf(it)) =>
       /\ it \notin Passed(n, hold, p)
       /\ Passed(n, next, p) = Passed(n, hold, p) \cup {it}

LEMMA ItemFact ==
  ASSUME NEW it \in Item
  PROVE  /\ it[1] \in CommandId /\ it[2] \in 1 .. 2 /\ it[1][1] \in Stream /\ it[1][2] \in Nat
         /\ it[2] <= Len(EntriesOf(it[1])) => EntryOf(it) \in LogRecord
<1>1. it[1] \in CommandId /\ it[2] \in 1 .. 2
  BY DEF Item
<1>2. CommandOf(it[1]) \in Command /\ it[1][1] \in Stream /\ it[1][2] \in Nat
  BY <1>1, IdFact
<1>3. EntriesOf(it[1]) \in Seq(LogRecord)
  BY <1>2, EntriesSize DEF EntriesOf
<1>4. it[2] <= Len(EntriesOf(it[1])) => EntriesOf(it[1])[it[2]] \in LogRecord
  <2> DEFINE s == EntriesOf(it[1])
             i == it[2]
  <2>1. s \in Seq(LogRecord) /\ i \in 1 .. 2
    BY <1>1, <1>3
  <2> HIDE DEF s, i
  <2>2. i <= Len(s) => s[i] \in LogRecord
    BY <2>1
  <2> QED BY <2>2 DEF s, i
<1> QED BY <1>1, <1>2, <1>4 DEF EntryOf

LEMMA GiveItem ==
  ASSUME NEW n, NEW hold, NEW r \in Nat, NEW it, Passable(it, n, hold, r),
         NEW next, Without(next, hold, it)
  PROVE  \A p \in Period : Gives(n, hold, next, it, r, p)
<1> SUFFICES ASSUME NEW p \in Period
             PROVE  Gives(n, hold, next, it, r, p)
  OBVIOUS
<1>1. it \in Item /\ it \in hold /\ it[1][2] < n[it[1][1]] /\ p \in Nat
  BY DriverAssumption DEF Passable, Period
<1>2. it \in LargeItems(p) <=> ~IsSmall(EntryOf(it)) /\ InPeriod(it[1][2], p)
  BY DEF Passable, LargeItems, InPeriod
<1>3. InPeriod(it[1][2], p) <=> p = r
  BY <1>1, ItemFact, PeriodUnique DEF Passable
<1> QED BY <1>1, <1>2, <1>3, PassedMore DEF Gives, Without

LEMMA TransferRun ==
  ASSUME NEW run, NEW r \in Nat, NEW n, NEW hold, RunHolds(run, r, n, hold),
         NEW it, Passable(it, n, hold, r),
         NEW next, Without(next, hold, it)
  PROVE  RunHolds(ReportTransfer(run, EntryOf(it)), r, n, next)
<1> DEFINE e == EntryOf(it)
           nr == run.numReports
           small == IsSmall(e)
<1>1. /\ run.balance \in [Account -> Int] /\ nr \in 0 .. MaxReports
      /\ run.daily \in [Period -> Report]
      /\ run = [balance |-> run.balance, numReports |-> nr, daily |-> run.daily]
      /\ nr = Made(r) /\ LogsHold(run.daily, n, hold)
      /\ MaxReports \in Nat /\ Period = 0 .. MaxReports - 1
  BY DriverAssumption DEF RunHolds, Period
<1>2. e \in LogRecord
  BY ItemFact DEF Passable
<1>3. \A p \in Period :
        /\ p # r \/ small => Passed(n, next, p) = Passed(n, hold, p)
        /\ p = r /\ ~small =>
             /\ it \notin Passed(n, hold, p)
             /\ Passed(n, next, p) = Passed(n, hold, p) \cup {it}
  <2>1. \A p \in Period : Gives(n, hold, next, it, r, p)
    BY GiveItem
  <2> QED BY <2>1 DEF Gives
<1>4. CASE small \/ nr >= MaxReports
  <2>1. ReportTransfer(run, e) = run
    BY <1>4 DEF ReportTransfer
  <2>2. nr >= MaxReports => \A p \in Period : p # r
    BY <1>1 DEF Made
  <2>3. LogsHold(run.daily, n, next)
    BY <1>1, <1>3, <1>4, <2>2 DEF LogsHold
  <2> QED BY <2>1, <2>3 DEF RunHolds
<1>5. CASE ~small /\ nr < MaxReports
  <2>1. nr = r /\ r \in Period
    BY <1>1, <1>5 DEF Made
  <2> DEFINE d == run.daily[r]
             new == IF d.numLogEntries >= MaxLogEntries
                    THEN [d EXCEPT !.hasOverflowed = TRUE]
                    ELSE Logged(d, d.numLogEntries, e)
             after == [run EXCEPT !.daily[r] = new]
  <2>2. d \in Report /\ d.numLogEntries \in 0 .. MaxLogEntries /\ MaxLogEntries \in Nat
        /\ LogHolds(d, Passed(n, hold, r))
    <3>1. d \in Report
      BY <1>1, <2>1
    <3> QED BY <1>1, <2>1, <3>1, DriverAssumption DEF LogsHold, Report
  <2>3. ReportTransfer(run, e) = after
    <3>1. ~(IsSmall(e) \/ run.numReports >= MaxReports) /\ run.numReports = r
      BY <1>1, <1>5, <2>1
    <3>2. CASE d.numLogEntries >= MaxLogEntries
      BY <1>1, <2>1, <3>1, <3>2 DEF ReportTransfer
    <3>3. CASE ~(d.numLogEntries >= MaxLogEntries)
      BY <1>1, <2>1, <3>1, <3>3 DEF ReportTransfer
    <3> QED BY <3>2, <3>3
  <2>4. new \in Report /\ new.balance = d.balance /\ LogHolds(new, Passed(n, next, r))
    <3>1. IsFiniteSet(Passed(n, hold, r)) /\ it \notin Passed(n, hold, r)
          /\ Passed(n, next, r) = Passed(n, hold, r) \cup {it}
      BY <1>3, <1>5, <2>1, PassedFinite
    <3>2. CASE d.numLogEntries >= MaxLogEntries
      <4>1. LogHolds([d EXCEPT !.hasOverflowed = TRUE], Passed(n, hold, r) \cup {it})
        BY <2>2, <3>1, <3>2, LogOverflow
      <4>2. [d EXCEPT !.hasOverflowed = TRUE] \in Report
            /\ [d EXCEPT !.hasOverflowed = TRUE].balance = d.balance
        BY <2>2 DEF Report
      <4> QED BY <3>1, <3>2, <4>1, <4>2
    <3>3. CASE ~(d.numLogEntries >= MaxLogEntries)
      <4>1. d.numLogEntries < MaxLogEntries /\ d.numLogEntries \in 0 .. MaxLogEntries - 1
        BY <2>2, <3>3
      <4>2. LogHolds(Logged(d, d.numLogEntries, e), Passed(n, hold, r) \cup {it})
        BY <1>2, <2>2, <3>1, <4>1, LogAppend
      <4>3. Logged(d, d.numLogEntries, e) \in Report
        BY <1>2, <2>2, <4>1, LoggedType
      <4>4. Logged(d, d.numLogEntries, e).balance = d.balance
        BY <2>2 DEF Logged, Report
      <4> QED BY <3>1, <3>3, <4>2, <4>3, <4>4
    <3> QED BY <3>2, <3>3
  <2> HIDE DEF new
  <2>5. /\ after.balance = run.balance /\ after.numReports = nr
        /\ after.daily = [run.daily EXCEPT ![r] = new]
        /\ after = [balance |-> run.balance, numReports |-> nr,
                    daily |-> [run.daily EXCEPT ![r] = new]]
    <3>1. run \in [balance : [Account -> Int], numReports : 0 .. MaxReports,
                   daily : [Period -> Report]]
      BY DEF RunHolds
    <3> QED BY <3>1
  <2>6. [run.daily EXCEPT ![r] = new] \in [Period -> Report]
    BY <1>1, <2>1, <2>4
  <2>7. \A p \in Period : [run.daily EXCEPT ![r] = new][p] = IF p = r THEN new ELSE run.daily[p]
    BY <1>1
  <2>8. LogsHold(after.daily, n, next)
    BY <1>1, <1>3, <2>4, <2>5, <2>7 DEF LogsHold
  <2>9. \A p \in Period : p < nr => after.daily[p].balance = ReportBalanceOf(p)
    BY <2>4, <2>5, <2>7 DEF RunHolds
  <2>10. after \in [balance : [Account -> Int], numReports : 0 .. MaxReports,
                    daily : [Period -> Report]]
    BY <1>1, <2>5, <2>6
  <2> HIDE DEF after
  <2>11. RunHolds(after, r, n, next)
    BY <1>1, <2>5, <2>8, <2>9, <2>10 DEF RunHolds
  <2> QED BY <2>3, <2>11
<1> QED BY <1>1, <1>4, <1>5
-----------------------------------------------------------------------------
(***************************************************************************)
(* One command of the sequential run, and one report.                      *)
(***************************************************************************)
WithinPeriod(n, r) == n \in [Stream -> r * PerPeriod .. (r + 1) * PerPeriod]

LEMMA NextId ==
  ASSUME NEW r \in 0 .. 3, NEW n, WithinPeriod(n, r), NEW s \in Stream,
         n[s] < (r + 1) * PerPeriod
  PROVE  /\ n \in [Stream -> Nat] /\ <<s, n[s]>> \in CommandId
         /\ InPeriod(n[s], r)
         /\ CommandOf(<<s, n[s]>>) = Drawn[s][n[s]] /\ Drawn[s][n[s]] \in Command
<1> DEFINE x == PerPeriod
           a == r * x
           b == (r + 1) * x
<1>1. x \in Nat /\ StreamLength = 4 * x
  BY PeriodSizes
<1>2. a \in Nat /\ b \in Nat /\ b <= 4 * x
  <2> HIDE DEF x
  <2>1. r \in {0, 1, 2, 3}
    OBVIOUS
  <2> QED BY <1>1, <2>1
<1>3. n \in [Stream -> a .. b] /\ n[s] < b
  BY DEF WithinPeriod
<1> HIDE DEF a, b
<1>4. n \in [Stream -> Nat]
  BY <1>2, <1>3
<1>5. n[s] \in 0 .. StreamLength - 1 /\ a <= n[s]
  <2> HIDE DEF x
  <2> QED BY <1>1, <1>2, <1>3
<1>6. <<s, n[s]>> \in CommandId /\ CommandOf(<<s, n[s]>>) = Drawn[s][n[s]]
  BY <1>5, IdFact
<1>7. CommandOf(<<s, n[s]>>) \in Command
  BY <1>6, IdFact
<1> QED BY <1>3, <1>4, <1>5, <1>6, <1>7 DEF InPeriod, a, b

LEMMA RefusedFact ==
  ASSUME FailuresFixed(Failing), NEW r \in 0 .. 3, NEW n, WithinPeriod(n, r),
         NEW s \in Stream, n[s] < (r + 1) * PerPeriod
  PROVE  Refused(BalanceAfter(n, Failing), Drawn[s][n[s]]) <=> <<s, n[s]>> \in Failing
BY DEF FailuresFixed, WithinPeriod

HeldOf(id, i) == {it \in Item : it[1] = id /\ it[2] > i}

LEMMA TransferNext ==
  ASSUME NEW run, NEW r \in Nat, NEW n, NEW id \in CommandId, NEW i \in {0, 1},
         RunHolds(run, r, n, HeldOf(id, i)), i + 1 <= Len(EntriesOf(id)),
         id \notin Failing, InPeriod(id[2], r), id[2] < n[id[1]]
  PROVE  RunHolds(ReportTransfer(run, EntriesOf(id)[i + 1]), r, n, HeldOf(id, i + 1))
<1> DEFINE it == <<id, i + 1>>
<1>1. /\ it \in Item /\ it[1] = id /\ it[2] = i + 1 /\ it[2] > i
      /\ EntryOf(it) = EntriesOf(id)[i + 1]
  BY DEF Item, EntryOf
<1>2. \A j \in Item : j = <<j[1], j[2]>> /\ j[2] \in 1 .. 2
  BY DEF Item
<1>3. \A j \in Item : j = it <=> j[1] = id /\ j[2] = i + 1
  BY <1>2
<1> HIDE DEF it
<1>4. Without(HeldOf(id, i + 1), HeldOf(id, i), it)
  BY <1>2, <1>3 DEF Without, HeldOf
<1>5. Passable(it, n, HeldOf(id, i), r)
  BY <1>1 DEF Passable, HeldOf
<1> QED BY <1>1, <1>4, <1>5, TransferRun

LEMMA CommandRun ==
  ASSUME FailuresFixed(Failing), NEW r \in 0 .. 3, NEW n, WithinPeriod(n, r),
         NEW s \in Stream, n[s] < (r + 1) * PerPeriod,
         NEW run, RunHolds(run, r, n, {})
  PROVE  RunHolds(DoCommand(run, Drawn[s][n[s]]), r, Advanced(n, <<s, n[s]>>), {})
<1> DEFINE c == Drawn[s][n[s]]
           id == <<s, n[s]>>
           m == Advanced(n, id)
           bal == BalanceAfter(n, Failing)
<1>1. /\ n \in [Stream -> Nat] /\ id \in CommandId /\ InPeriod(id[2], r)
      /\ CommandOf(id) = c /\ c \in Command /\ r \in Nat
      /\ id[1] = s /\ id[2] = n[s]
  BY NextId
<1>2. Refused(bal, c) <=> id \in Failing
  BY RefusedFact
<1>3. n[id[1]] = id[2] /\ m[id[1]] = id[2] + 1 /\ id[2] \in Nat
  BY <1>1 DEF Advanced
<1>4. BalanceAfter(m, Failing) = IF id \in Failing THEN bal ELSE Applied(bal, c)
  BY <1>1, <1>3, BalanceNext
<1>5. /\ run \in [balance : [Account -> Int], numReports : 0 .. MaxReports,
                  daily : [Period -> Report]]
      /\ run.balance = bal /\ bal \in [Account -> Int]
      /\ run.numReports = Made(r)
      /\ \A p \in Period : p < run.numReports => run.daily[p].balance = ReportBalanceOf(p)
      /\ LogsHold(run.daily, n, {})
  BY BalanceType DEF RunHolds
<1>6. \A p : \A it \in LargeItems(p) :
        it[1] \notin Failing /\ it[2] <= Len(EntriesOf(it[1])) /\ it \in Item
  BY DEF LargeItems
<1> HIDE DEF m, bal, id, c
<1>7. CASE id \in Failing
  <2>1. DoCommand(run, c) = run
    BY <1>2, <1>5, <1>7 DEF DoCommand
  <2>2. \A p \in Period : Passed(m, {}, p) = Passed(n, {}, p)
    <3>1. \A p \in Period : Kept({}, {}, id, p)
      BY <1>6, <1>7 DEF Kept
    <3> QED BY <1>1, <1>3, <3>1, PassedKept DEF m
  <2>3. LogsHold(run.daily, m, {})
    BY <1>5, <2>2 DEF LogsHold
  <2>4. RunHolds(run, r, m, {})
    BY <1>4, <1>5, <1>7, <2>3 DEF RunHolds
  <2> QED BY <2>1, <2>4 DEF m, c, id
<1>8. CASE id \notin Failing
  <2> DEFINE start == [run EXCEPT !.balance = Applied(@, c)]
             s0 == EntriesOf(id)
             end == FoldLeft(ReportTransfer, start, s0)
  <2>1. DoCommand(run, c) = end
    BY <1>1, <1>2, <1>5, <1>8 DEF DoCommand, EntriesOf
  <2>2. s0 \in Seq(LogRecord) /\ Len(s0) \in {0, 1, 2}
    BY <1>1, EntriesSize DEF EntriesOf
  <2>3. Applied(bal, c) \in [Account -> Int]
    BY <1>4, <1>8, BalanceType
  <2>4. start = [balance |-> Applied(bal, c), numReports |-> run.numReports,
                 daily |-> run.daily]
    BY <1>5
  <2>5. /\ start \in [balance : [Account -> Int], numReports : 0 .. MaxReports,
                      daily : [Period -> Report]]
        /\ start.balance = Applied(bal, c) /\ start.numReports = run.numReports
        /\ start.daily = run.daily
    BY <1>5, <2>3, <2>4
  <2> HIDE DEF start
  <2>6. \A p \in Period : Passed(m, HeldOf(id, 0), p) = Passed(n, {}, p)
    <3> SUFFICES ASSUME NEW p \in Period PROVE Passed(m, HeldOf(id, 0), p) = Passed(n, {}, p)
      OBVIOUS
    <3>1. \A it \in Item : it[2] > 0
      BY ItemFact
    <3>2. Kept(HeldOf(id, 0), {}, id, p)
      BY <1>6, <3>1 DEF HeldOf, Kept
    <3> QED BY <1>1, <1>3, <3>2, PassedKept DEF m
  <2>7. RunHolds(start, r, m, HeldOf(id, 0))
    <3>1. LogsHold(start.daily, m, HeldOf(id, 0))
      BY <1>5, <2>5, <2>6 DEF LogsHold
    <3> QED BY <1>4, <1>5, <1>8, <2>5, <3>1 DEF RunHolds
  <2>8. id[2] < m[id[1]]
    BY <1>3
  <2>9. RunHolds(end, r, m, HeldOf(id, Len(s0)))
    <3> DEFINE run1 == ReportTransfer(start, s0[1])
               run2 == ReportTransfer(run1, s0[2])
    <3>1. Len(s0) >= 1 => RunHolds(run1, r, m, HeldOf(id, 1))
      <4>1. 0 \in {0, 1} /\ 0 + 1 = 1
        OBVIOUS
      <4> QED BY <1>1, <1>8, <2>7, <2>8, <4>1, TransferNext
    <3> HIDE DEF run1
    <3>2. Len(s0) >= 2 => RunHolds(run2, r, m, HeldOf(id, 2))
      <4>1. 1 \in {0, 1} /\ 1 + 1 = 2 /\ (Len(s0) >= 2 => Len(s0) >= 1)
        BY <2>2
      <4> QED BY <1>1, <1>8, <2>8, <3>1, <4>1, TransferNext
    <3> HIDE DEF s0, end
    <3>3. /\ Len(s0) = 0 => end = start
          /\ Len(s0) = 1 => end = run1
          /\ Len(s0) = 2 => end = run2
      BY <2>2, FoldTransfers DEF run1, end
    <3>4. CASE Len(s0) = 0
      BY <2>7, <3>3, <3>4
    <3>5. CASE Len(s0) = 1
      BY <3>1, <3>3, <3>5
    <3>6. CASE Len(s0) = 2
      BY <3>2, <3>3, <3>6
    <3> QED BY <2>2, <3>4, <3>5, <3>6
  <2>10. \A p : Passed(m, HeldOf(id, Len(s0)), p) = Passed(m, {}, p)
    <3> SUFFICES ASSUME NEW p PROVE Passed(m, HeldOf(id, Len(s0)), p) = Passed(m, {}, p)
      OBVIOUS
    <3>1. \A it \in LargeItems(p) : it \notin HeldOf(id, Len(s0))
      <4>1. ASSUME NEW it \in LargeItems(p), it \in HeldOf(id, Len(s0)) PROVE FALSE
        <5>1. it[1] = id /\ it[2] > Len(s0) /\ it[2] <= Len(EntriesOf(it[1])) /\ it[2] \in 1 .. 2
          BY <1>6, <4>1, ItemFact DEF HeldOf
        <5> QED BY <2>2, <5>1
      <4> QED BY <4>1
    <3> QED BY <3>1 DEF Passed
  <2> HIDE DEF end, s0
  <2>11. RunHolds(end, r, m, {})
    BY <2>9, <2>10 DEF RunHolds, LogsHold
  <2> QED BY <2>1, <2>11 DEF m, c, id
<1> QED BY <1>7, <1>8

LEMMA ReportRun ==
  ASSUME NEW r \in Nat, NEW run, NEW hold,
         RunHolds(run, r, All((r + 1) * PerPeriod), hold)
  PROVE  RunHolds(DoReport(run), r + 1, All((r + 1) * PerPeriod), hold)
<1> DEFINE n == All((r + 1) * PerPeriod)
           nr == run.numReports
<1>1. /\ run \in [balance : [Account -> Int], numReports : 0 .. MaxReports,
                  daily : [Period -> Report]]
      /\ run.balance = BalanceAfter(n, Failing)
      /\ nr = Made(r) /\ nr \in 0 .. MaxReports
      /\ \A p \in Period : p < nr => run.daily[p].balance = ReportBalanceOf(p)
      /\ LogsHold(run.daily, n, hold)
      /\ MaxReports \in Nat /\ Period = 0 .. MaxReports - 1
  BY DriverAssumption DEF RunHolds, Period
<1>2. CASE nr >= MaxReports
  <2>1. nr = Made(r + 1)
    BY <1>1, <1>2 DEF Made
  <2>2. DoReport(run) = run
    BY <1>2 DEF DoReport
  <2> QED BY <2>1, <2>2 DEF RunHolds
<1>3. CASE nr < MaxReports
  <2>1. nr = r /\ r + 1 = Made(r + 1) /\ r \in Period /\ r + 1 \in 0 .. MaxReports
    BY <1>1, <1>3 DEF Made
  <2> DEFINE b == BankTotal(run.balance)
             d == [run.daily[r] EXCEPT !.balance = b]
             after == [balance |-> run.balance, numReports |-> r + 1,
                       daily |-> [run.daily EXCEPT ![r] = d]]
  <2>2. run.daily[r] \in Report
    BY <1>1, <2>1
  <2>3. b = ReportBalanceOf(r) /\ b \in Int
    <3>1. b = ReportBalanceOf(r)
      BY <1>1 DEF ReportBalanceOf
    <3>2. b \in Int
      BY <1>1, FiniteData, SumFact DEF BankTotal
    <3> QED BY <3>1, <3>2
  <2> HIDE DEF b
  <2>4. DoReport(run) = after
    <3>1. ~(run.numReports >= MaxReports)
      BY <1>1, <1>3
    <3> QED BY <1>1, <2>1, <3>1 DEF DoReport, b
  <2>5. /\ d \in Report /\ d.balance = b /\ d.hasOverflowed = run.daily[r].hasOverflowed
        /\ d.numLogEntries = run.daily[r].numLogEntries
        /\ d.transferLog = run.daily[r].transferLog
    BY <2>2, <2>3 DEF Report
  <2> HIDE DEF d
  <2>6. /\ [run.daily EXCEPT ![r] = d] \in [Period -> Report]
        /\ \A p \in Period : [run.daily EXCEPT ![r] = d][p] = IF p = r THEN d ELSE run.daily[p]
    BY <1>1, <2>1, <2>5
  <2>7. \A p \in Period : p < r + 1 => after.daily[p].balance = ReportBalanceOf(p)
    <3>1. \A p \in Period : p < r + 1 => p < nr \/ p = r
      BY <1>1, <2>1
    <3> QED BY <1>1, <2>3, <2>5, <2>6, <3>1
  <2>8. LogsHold(after.daily, n, hold)
    <3>1. ASSUME NEW p \in Period PROVE LogHolds(after.daily[p], Passed(n, hold, p))
      <4>1. LogHolds(run.daily[p], Passed(n, hold, p))
        BY <1>1 DEF LogsHold
      <4>2. after.daily[p] = IF p = r THEN d ELSE run.daily[p]
        BY <2>6
      <4> HIDE DEF after
      <4>3. LogHolds(d, Passed(n, hold, r)) <=> LogHolds(run.daily[r], Passed(n, hold, r))
        BY <2>5, LogSame
      <4> QED BY <4>1, <4>2, <4>3
    <3> QED BY <3>1 DEF LogsHold
  <2>9. after \in [balance : [Account -> Int], numReports : 0 .. MaxReports,
                   daily : [Period -> Report]]
    BY <1>1, <2>1, <2>6
  <2>10. after.balance = run.balance /\ after.numReports = r + 1
    OBVIOUS
  <2> HIDE DEF after
  <2>11. RunHolds(after, r + 1, n, hold)
    BY <1>1, <2>1, <2>7, <2>8, <2>9, <2>10 DEF RunHolds
  <2> QED BY <2>4, <2>11
<1> QED BY <1>1, <1>2, <1>3
-----------------------------------------------------------------------------
(***************************************************************************)
(* The sequential run takes the streams in turn: how many commands of each *)
(* are done after k commands.                                              *)
(***************************************************************************)
Progress(k) ==
  [s \in Stream |-> (k \div MaxWorkers) + (IF s < k % MaxWorkers THEN 1 ELSE 0)]

LEMMA DivModUnique ==
  ASSUME NEW m \in Nat \ {0}, NEW q \in Int, NEW i \in 0 .. m - 1, NEW a \in Int, a = m * q + i
  PROVE  a \div m = q /\ a % m = i
<1>1. a % m = i
  <2>1. (i + m * q) % m = i
    BY ModUnique
  <2>2. i + m * q = m * q + i
    <3>1. m * q \in Int
      OBVIOUS
    <3> QED BY <3>1
  <2> QED BY <2>1, <2>2
<1>2. a = m * (a \div m) + (a % m) /\ a \div m \in Int
  BY DivMod
<1>3. m * (a \div m) = m * q
  BY <1>1, <1>2
<1>4. (m * (a \div m)) \div m = a \div m /\ (m * q) \div m = q
  BY <1>2, DivExact
<1> QED BY <1>1, <1>3, <1>4

LEMMA ProgressNext ==
  ASSUME NEW k \in Nat
  PROVE  /\ k % MaxWorkers \in Stream /\ k \div MaxWorkers \in Int
         /\ k = MaxWorkers * (k \div MaxWorkers) + (k % MaxWorkers)
         /\ Progress(k)[k % MaxWorkers] = k \div MaxWorkers
         /\ SeedList(0, k % MaxWorkers, 1) = k % MaxWorkers
         /\ Progress(k) \in [Stream -> Int]
         /\ Progress(k + 1) = Advanced(Progress(k), <<k % MaxWorkers, k \div MaxWorkers>>)
<1> DEFINE m == MaxWorkers
           q == k \div m
           i == k % m
<1>1. /\ m \in Nat \ {0} /\ k = m * q + i /\ q \in Int /\ i \in 0 .. m - 1
      /\ Stream = 0 .. m - 1
  <2>1. m \in Nat \ {0} /\ k \in Int /\ Stream = 0 .. m - 1
    BY Sizes DEF Stream
  <2> HIDE DEF m
  <2> QED BY <2>1, DivMod
<1>2. /\ \A s \in Stream : Progress(k)[s] = q + (IF s < i THEN 1 ELSE 0)
      /\ Progress(k) = [s \in Stream |-> Progress(k)[s]]
  BY DEF Progress
<1>3. \A s \in Stream : Progress(k + 1)[s] = ((k + 1) \div m) + (IF s < (k + 1) % m THEN 1 ELSE 0)
  BY DEF Progress
<1>4. Progress(k + 1) = [s \in Stream |-> Progress(k + 1)[s]]
  BY DEF Progress
<1>5. SeedList(0, i, 1) = i
  <2>1. (i + m * 0) % m = i
    BY <1>1, ModUnique
  <2>2. SeedList(0, i, 1) = (0 + i * 1) % m
    BY DEF SeedList
  <2> HIDE DEF i
  <2>3. i + m * 0 = i /\ 0 + i * 1 = i
    BY <1>1
  <2> QED BY <2>1, <2>2, <2>3
<1> HIDE DEF m, q, i
<1>6. \A s \in Stream : Progress(k + 1)[s] = q + (IF s <= i THEN 1 ELSE 0)
  <2>1. CASE i + 1 < m
    <3> DEFINE a == k + 1
               j == i + 1
    <3>1. j \in 0 .. m - 1 /\ a = m * q + j /\ a \in Int
      <4>1. m * q \in Int
        BY <1>1
      <4> QED BY <1>1, <2>1, <4>1
    <3>2. a \div m = q /\ a % m = j
      <4> HIDE DEF a, j
      <4> QED BY <1>1, <3>1, DivModUnique
    <3> QED BY <1>1, <1>3, <3>2
  <2>2. CASE ~(i + 1 < m)
    <3>1. i + 1 = m
      BY <1>1, <2>2
    <3> DEFINE a == k + 1
               d == q + 1
    <3>2. a = m * d + 0 /\ a \in Int /\ 0 \in 0 .. m - 1 /\ d \in Int
      <4>1. m * q \in Int /\ m * (q + 1) = m * q + m
        BY <1>1
      <4> QED BY <1>1, <3>1, <4>1
    <3>3. a \div m = d /\ a % m = 0
      <4> HIDE DEF a, d
      <4> QED BY <1>1, <3>2, DivModUnique
    <3> QED BY <1>1, <1>3, <3>1, <3>3
  <2> QED BY <2>1, <2>2
<1>7. Progress(k)[i] = q
  BY <1>1, <1>2
<1>8. Progress(k + 1) = Advanced(Progress(k), <<i, q>>)
  <2>1. <<i, q>>[1] = i
    OBVIOUS
  <2>2. Advanced(Progress(k), <<i, q>>) = [Progress(k) EXCEPT ![i] = q + 1]
    BY <1>7, <2>1 DEF Advanced
  <2>3. \A s \in Stream : [Progress(k) EXCEPT ![i] = q + 1][s] = IF s = i THEN q + 1 ELSE Progress(k)[s]
    BY <1>1, <1>2
  <2>4. [Progress(k) EXCEPT ![i] = q + 1]
          = [s \in Stream |-> [Progress(k) EXCEPT ![i] = q + 1][s]]
    BY <1>2
  <2>5. \A s \in Stream : Progress(k + 1)[s] = [Progress(k) EXCEPT ![i] = q + 1][s]
    BY <1>1, <1>2, <1>6, <2>3
  <2> QED BY <1>4, <2>2, <2>4, <2>5
<1>9. Progress(k) \in [Stream -> Int]
  BY <1>1, <1>2
<1> QED BY <1>1, <1>5, <1>7, <1>8, <1>9 DEF m, q, i

LEMMA ProgressWithin ==
  ASSUME NEW k \in Nat, NEW r \in 0 .. 3, r * PerReport(1) <= k, k < (r + 1) * PerReport(1)
  PROVE  WithinPeriod(Progress(k), r) /\ k \div MaxWorkers < (r + 1) * PerPeriod
<1> DEFINE m == MaxWorkers
           q == k \div m
           i == k % m
           x == PerPeriod
           a == r * x
           b == (r + 1) * x
<1>1. /\ m \in Nat \ {0} /\ k = m * q + i /\ q \in Int /\ i \in 0 .. m - 1
      /\ Stream = 0 .. m - 1 /\ x \in Nat /\ PerReport(1) = m * x
  <2>1. m \in Nat \ {0} /\ k \in Int /\ Stream = 0 .. m - 1
    BY Sizes DEF Stream
  <2>2. x \in Nat /\ PerReport(1) = m * x
    BY PeriodSizes
  <2> HIDE DEF m, x
  <2> QED BY <2>1, <2>2, DivMod
<1>2. \A s \in Stream : Progress(k)[s] = q + (IF s < i THEN 1 ELSE 0)
  BY DEF Progress
<1>3. Progress(k) = [s \in Stream |-> Progress(k)[s]]
  BY DEF Progress
<1> HIDE DEF m, q, i, x
<1>4. a \in Nat /\ b \in Nat /\ r * (m * x) = a * m /\ (r + 1) * (m * x) = b * m
  BY <1>1
<1>5. a * m <= k /\ k < b * m
  BY <1>1, <1>4
<1> HIDE DEF a, b
<1>6. q < b
  <2>1. q * m + i < b * m
    BY <1>1, <1>5
  <2>2. i \in Nat /\ b \in Int
    BY <1>1, <1>4
  <2> QED BY <1>1, <2>1, <2>2, QuotientLess
<1>7. a <= q
  <2>1. (a - 1) * m + (m - 1 - i) < q * m
    <3>1. (a - 1) * m = a * m - m /\ q * m = m * q /\ m * q \in Int /\ a * m \in Int
      BY <1>1, <1>4
    <3> QED BY <1>1, <1>5, <3>1
  <2>2. m - 1 - i \in Nat /\ a - 1 \in Int
    BY <1>1, <1>4
  <2>3. a - 1 < q
    BY <1>1, <2>1, <2>2, QuotientLess
  <2> QED BY <1>1, <1>4, <2>3
<1>8. \A s \in Stream : Progress(k)[s] \in a .. b
  <2>1. q \in a .. b /\ q + 1 \in a .. b
    BY <1>1, <1>4, <1>6, <1>7
  <2>2. ASSUME NEW s \in Stream PROVE Progress(k)[s] = q \/ Progress(k)[s] = q + 1
    <3>1. CASE s < i
      BY <1>2, <3>1
    <3>2. CASE ~(s < i)
      <4>1. Progress(k)[s] = q + 0
        BY <1>2, <3>2
      <4> QED BY <1>1, <4>1
    <3> QED BY <3>1, <3>2
  <2> QED BY <2>1, <2>2
<1> QED BY <1>3, <1>6, <1>8 DEF WithinPeriod, a, b, x, q, m

LEMMA ProgressAll ==
  ASSUME NEW j \in Nat
  PROVE  Progress(MaxWorkers * j) = All(j)
<1> DEFINE m == MaxWorkers
           k == m * j
<1>1. m \in Nat \ {0} /\ 0 \in 0 .. m - 1 /\ k = m * j + 0 /\ k \in Int
  BY Sizes
<1>2. k \div m = j /\ k % m = 0
  <2> HIDE DEF k, m
  <2> QED BY <1>1, DivModUnique
<1>3. \A s \in Stream : (k \div m) + (IF s < k % m THEN 1 ELSE 0) = j
  <2> HIDE DEF k, m
  <2>1. \A s \in Stream : ~(s < 0)
    BY DEF Stream
  <2> QED BY <1>2, <2>1
<1> QED BY <1>3 DEF Progress, All

(***************************************************************************)
(* The sequential run, command by command.                                 *)
(***************************************************************************)
RunStart == [balance |-> InitialBalance, numReports |-> 0, daily |-> NoDaily]

ReportDue(k) == k > 0 /\ k % PerReport(1) = 0

RunNext(k, run) ==
  DoCommand(IF ReportDue(k) THEN DoReport(run) ELSE run,
            Drawn[SeedList(0, k % MaxWorkers, 1)][k \div MaxWorkers])

RunsTo(run, n) ==
  run = [k \in 0 .. n |-> IF k = 0 THEN RunStart ELSE RunNext(k - 1, run[k - 1])]

LEMMA RunExists ==
  ASSUME NEW n \in Nat
  PROVE  \E run : RunsTo(run, n)
<1> DEFINE T == {k \in Nat : ~\E run : RunsTo(run, k)}
<1>1. SUFFICES ASSUME T # {} PROVE FALSE
  OBVIOUS
<1>2. PICK m \in T : \A k \in T : m <= k
  <2>1. T \in SUBSET Nat
    OBVIOUS
  <2> HIDE DEF T
  <2> QED BY <1>1, <2>1, LeastNat
<1>3. m # 0
  <2> DEFINE run == [k \in 0 .. 0 |-> RunStart]
  <2>1. run = [k \in 0 .. 0 |-> IF k = 0 THEN RunStart ELSE RunNext(k - 1, run[k - 1])]
    OBVIOUS
  <2>2. RunsTo(run, 0)
    BY <2>1 DEF RunsTo
  <2> QED BY <2>2
<1>4. m \in Nat /\ m - 1 \in Nat
  BY <1>3
<1>5. m - 1 \notin T
  BY <1>2, <1>4
<1>6. PICK run : RunsTo(run, m - 1)
  BY <1>4, <1>5
<1> DEFINE more == [k \in 0 .. m |-> IF k = m THEN RunNext(m - 1, run[m - 1]) ELSE run[k]]
<1>7. \A k \in 0 .. m - 1 : run[k] = IF k = 0 THEN RunStart ELSE RunNext(k - 1, run[k - 1])
  BY <1>6 DEF RunsTo
<1>8. ASSUME NEW k \in 0 .. m
      PROVE  more[k] = IF k = 0 THEN RunStart ELSE RunNext(k - 1, more[k - 1])
  <2>1. CASE k = m
    <3>1. k - 1 \in 0 .. m /\ k - 1 # m
      BY <1>3, <1>4, <2>1
    <3> QED BY <1>3, <2>1, <3>1
  <2>2. CASE k # m
    <3>1. k \in 0 .. m - 1 /\ (k # 0 => k - 1 \in 0 .. m /\ k - 1 # m)
      BY <1>4, <2>2
    <3>2. more[k] = run[k] /\ (k # 0 => more[k - 1] = run[k - 1])
      BY <2>2, <3>1
    <3> HIDE DEF more
    <3> QED BY <1>7, <3>1, <3>2
  <2> QED BY <2>1, <2>2
<1>9. RunsTo(more, m)
  <2>1. more = [k \in 0 .. m |-> more[k]]
    OBVIOUS
  <2> HIDE DEF more
  <2> QED BY <1>8, <2>1 DEF RunsTo
<1> QED BY <1>9

LEMMA RunFact ==
  \E run : /\ SequentialRun = run[NumCommands]
           /\ run[0] = RunStart
           /\ \A k \in 0 .. NumCommands - 1 : run[k + 1] = RunNext(k, run[k])
<1> DEFINE run == CHOOSE run : RunsTo(run, NumCommands)
<1>1. SequentialRun = run[NumCommands]
  BY DEF SequentialRun, RunsTo, RunNext, RunStart, ReportDue
<1>2. RunsTo(run, NumCommands)
  BY RunExists, DriverAssumption
<1> HIDE DEF run
<1>3. \A k \in 0 .. NumCommands :
        run[k] = IF k = 0 THEN RunStart ELSE RunNext(k - 1, run[k - 1])
  BY <1>2 DEF RunsTo
<1>4. /\ 0 \in 0 .. NumCommands
      /\ \A k \in 0 .. NumCommands - 1 :
           k + 1 \in 0 .. NumCommands /\ k + 1 # 0 /\ (k + 1) - 1 = k
  BY DriverAssumption
<1>5. run[0] = RunStart
  BY <1>3, <1>4
<1>6. ASSUME NEW k \in 0 .. NumCommands - 1 PROVE run[k + 1] = RunNext(k, run[k])
  <2>1. k + 1 \in 0 .. NumCommands /\ k + 1 # 0 /\ (k + 1) - 1 = k
    BY <1>4
  <2>2. run[k + 1] = RunNext((k + 1) - 1, run[(k + 1) - 1])
    BY <1>3, <2>1
  <2> QED BY <2>1, <2>2
<1> QED BY <1>1, <1>5, <1>6

FinalRound == IF PerPeriod = 0 THEN 0 ELSE 3

LEMMA StartHolds ==
  ASSUME NEW hold
  PROVE  RunHolds(RunStart, 0, All(0), hold)
<1>1. NoDaily \in [Period -> Report] /\ \A p \in Period : NoDaily[p] = EmptyReport
  <2>1. EmptyReport \in Report
    <3>1. [i \in 0 .. MaxLogEntries - 1 |-> NoEntry]
            \in [0 .. MaxLogEntries - 1 -> LogRecord \cup {NoEntry}]
      OBVIOUS
    <3>2. 0 \in Int /\ 0 \in 0 .. MaxLogEntries
      BY DriverAssumption
    <3> QED BY <3>1, <3>2 DEF EmptyReport, Report
  <2> QED BY <2>1 DEF NoDaily
<1>2. \A p \in Period : Passed(All(0), hold, p) = {}
  <2> SUFFICES ASSUME NEW p \in Period PROVE Passed(All(0), hold, p) = {}
    OBVIOUS
  <2>1. ASSUME NEW it \in LargeItems(p) PROVE ~(it[1][2] < All(0)[it[1][1]])
    <3>1. it \in Item
      BY DEF LargeItems
    <3>2. it[1][1] \in Stream /\ it[1][2] \in Nat
      BY <3>1, ItemFact
    <3> QED BY <3>2 DEF All
  <2> QED BY <2>1 DEF Passed
<1>3. LogHolds(EmptyReport, {})
  <2>1. Cardinality({}) = 0
    BY FS_EmptySet
  <2>2. ~EmptyReport.hasOverflowed /\ EmptyReport.numLogEntries = 0
    BY DEF EmptyReport
  <2>3. \A e : {i \in 0 .. 0 - 1 : EmptyReport.transferLog[i] = e} = {}
    OBVIOUS
  <2>4. \A e : {it \in {} : EntryOf(it) = e} = {}
    OBVIOUS
  <2>5. \A e : Cardinality({i \in 0 .. Cardinality({}) - 1 : EmptyReport.transferLog[i] = e})
                 = Cardinality({it \in {} : EntryOf(it) = e})
    BY <2>1, <2>3, <2>4
  <2> QED BY <2>1, <2>2, <2>5 DEF LogHolds
<1>4. LogsHold(NoDaily, All(0), hold)
  BY <1>1, <1>2, <1>3 DEF LogsHold
<1>5. BalanceAfter(All(0), Failing) = InitialBalance
  BY BalanceStart DEF All
<1>6. Made(0) = 0 /\ 0 \in 0 .. MaxReports /\ \A p \in Period : ~(p < 0)
  BY DriverAssumption DEF Made, Period
<1>7. /\ RunStart.balance = InitialBalance /\ RunStart.numReports = 0 /\ RunStart.daily = NoDaily
      /\ RunStart \in [balance : [Account -> Int], numReports : 0 .. MaxReports,
                       daily : [Period -> Report]]
  BY <1>1, <1>6, InitialAssumption DEF RunStart
<1> QED BY <1>4, <1>5, <1>6, <1>7 DEF RunHolds

SequentialInv(k, run) ==
  \E r \in 0 .. 3 :
    /\ r * PerReport(1) <= k /\ k <= (r + 1) * PerReport(1)
    /\ k = r * PerReport(1) => r = 0
    /\ RunHolds(run, r, Progress(k), {})

LEMMA SequentialNext ==
  ASSUME FailuresFixed(Failing), NEW k \in 0 .. NumCommands - 1, NEW run, SequentialInv(k, run)
  PROVE  SequentialInv(k + 1, RunNext(k, run))
<1> DEFINE m == MaxWorkers
           d == PerReport(1)
           x == PerPeriod
           s == k % m
           q == k \div m
           due == IF ReportDue(k) THEN DoReport(run) ELSE run
<1>1. PICK r \in 0 .. 3 : /\ r * d <= k /\ k <= (r + 1) * d
                          /\ k = r * d => r = 0
                          /\ RunHolds(run, r, Progress(k), {})
  BY DEF SequentialInv
<1>2. /\ m \in Nat \ {0} /\ x \in Nat /\ d = m * x /\ d \in Nat
      /\ k \in Nat /\ k < m * (4 * x)
  <2>1. m \in Nat \ {0} /\ x \in Nat /\ d = m * x /\ NumCommands = m * (4 * x)
    BY Sizes, PeriodSizes
  <2> HIDE DEF m, x, d
  <2>2. d \in Nat /\ m * (4 * x) \in Nat
    BY <2>1
  <2> QED BY <2>1, <2>2
<1>3. k < 4 * d /\ d > 0
  <2> HIDE DEF m, x, d
  <2>1. m * (4 * x) = 4 * d
    BY <1>2
  <2> QED BY <1>2, <2>1
<1>4. /\ s \in Stream /\ Progress(k)[s] = q /\ SeedList(0, s, 1) = s
      /\ Progress(k + 1) = Advanced(Progress(k), <<s, q>>)
  BY <1>2, ProgressNext
<1>5. RunNext(k, run) = DoCommand(due, Drawn[s][q])
  BY <1>4 DEF RunNext
<1>6. ASSUME NEW u \in 0 .. 3, u * d <= k, k < (u + 1) * d, RunHolds(due, u, Progress(k), {})
      PROVE  SequentialInv(k + 1, RunNext(k, run))
  <2>1. WithinPeriod(Progress(k), u) /\ Progress(k)[s] < (u + 1) * x
    BY <1>2, <1>4, <1>6, ProgressWithin
  <2> DEFINE n == Progress(k)
  <2> HIDE DEF due, s, q, n, x
  <2>2. RunHolds(DoCommand(due, Drawn[s][n[s]]), u, Advanced(n, <<s, n[s]>>), {})
    BY <1>4, <1>6, <2>1, CommandRun DEF x, n
  <2>3. RunHolds(RunNext(k, run), u, Progress(k + 1), {})
    BY <1>4, <1>5, <2>2 DEF n
  <2>4. u * d <= k + 1 /\ k + 1 <= (u + 1) * d /\ k + 1 # u * d
    <3> DEFINE a == u * d
               b == (u + 1) * d
    <3> HIDE DEF d
    <3>1. a \in Int /\ b \in Int /\ a <= k /\ k < b
      BY <1>2, <1>6
    <3> HIDE DEF a, b
    <3>2. a <= k + 1 /\ k + 1 <= b /\ k + 1 # a
      BY <1>2, <3>1
    <3> QED BY <3>2 DEF a, b
  <2> QED BY <2>3, <2>4 DEF SequentialInv
<1>7. CASE k = (r + 1) * d
  <2>1. k > 0 /\ k % d = 0
    <3> HIDE DEF d
    <3>1. (0 + d * (r + 1)) % d = 0
      <4>1. d \in Nat \ {0} /\ r + 1 \in Int /\ 0 \in 0 .. d - 1
        BY <1>2, <1>3
      <4> QED BY <4>1, ModUnique
    <3>2. 0 + d * (r + 1) = k
      BY <1>2, <1>7
    <3>3. k > 0
      BY <1>2, <1>3, <1>7
    <3> QED BY <3>1, <3>2, <3>3
  <2>2. due = DoReport(run)
    BY <2>1 DEF ReportDue
  <2>3. Progress(k) = All((r + 1) * x)
    <3> HIDE DEF d, x, m
    <3>1. k = m * ((r + 1) * x) /\ (r + 1) * x \in Nat
      BY <1>2, <1>7
    <3> QED BY <3>1, ProgressAll DEF m
  <2>4. RunHolds(due, r + 1, Progress(k), {})
    BY <1>1, <2>2, <2>3, ReportRun
  <2>5. r + 1 \in 0 .. 3 /\ (r + 1) * d <= k /\ k < ((r + 1) + 1) * d
    <3> HIDE DEF d
    <3>1. r \in {0, 1, 2, 3}
      OBVIOUS
    <3> QED BY <1>2, <1>3, <1>7, <3>1
  <2> QED BY <1>6, <2>4, <2>5
<1>8. CASE k # (r + 1) * d
  <2>1. k < (r + 1) * d
    <3> HIDE DEF d
    <3>1. (r + 1) * d \in Int
      BY <1>2
    <3> QED BY <1>1, <1>2, <1>8, <3>1
  <2>2. ~ReportDue(k)
    <3> SUFFICES ASSUME k > 0, k % d = 0 PROVE FALSE
      BY DEF ReportDue
    <3> DEFINE i == k - r * d
    <3> HIDE DEF d
    <3>1. i \in 0 .. d - 1 /\ k = i + d * r
      <4>1. r * d \in Int /\ (r + 1) * d = r * d + d /\ d * r = r * d
        BY <1>2
      <4> QED BY <1>1, <1>2, <2>1, <4>1
    <3>2. (i + d * r) % d = i
      <4>1. d \in Nat \ {0} /\ r \in Int
        BY <1>2, <1>3
      <4> HIDE DEF i
      <4> QED BY <3>1, <4>1, ModUnique
    <3>3. i = 0
      BY <3>1, <3>2
    <3>4. k = r * d
      BY <1>2, <3>1, <3>3
    <3>5. r = 0
      BY <1>1, <3>4 DEF d
    <3> QED BY <1>2, <3>4, <3>5
  <2>3. due = run
    BY <2>2
  <2> QED BY <1>1, <1>6, <2>1, <2>3
<1> QED BY <1>7, <1>8

LEMMA SequentialHolds ==
  ASSUME FailuresFixed(Failing)
  PROVE  RunHolds(SequentialRun, FinalRound, All(4 * PerPeriod), {})
<1>1. PICK run : /\ SequentialRun = run[NumCommands] /\ run[0] = RunStart
                 /\ \A k \in 0 .. NumCommands - 1 : run[k + 1] = RunNext(k, run[k])
  BY RunFact
<1> DEFINE T == {k \in 0 .. NumCommands : ~SequentialInv(k, run[k])}
<1>2. SequentialInv(0, run[0])
  <2>1. Progress(0) = All(0)
    <3>1. MaxWorkers * 0 = 0 /\ 0 \in Nat
      BY Sizes
    <3> QED BY <3>1, ProgressAll
  <2>2. 0 \in 0 .. 3 /\ 0 * PerReport(1) <= 0 /\ 0 <= (0 + 1) * PerReport(1)
    <3>1. MaxWorkers \in Nat /\ PerPeriod \in Nat /\ PerReport(1) = MaxWorkers * PerPeriod
      BY Sizes, PeriodSizes
    <3>2. MaxWorkers * PerPeriod \in Nat
      BY <3>1
    <3> QED BY <3>1, <3>2
  <2> QED BY <1>1, <2>1, <2>2, StartHolds DEF SequentialInv
<1>3. T = {}
  <2> SUFFICES ASSUME T # {} PROVE FALSE
    OBVIOUS
  <2>1. T \in SUBSET Nat
    BY DriverAssumption
  <2>2. PICK k \in T : \A j \in T : k <= j
    <3> HIDE DEF T
    <3> QED BY <2>1, LeastNat
  <2>3. k \in 0 .. NumCommands /\ k # 0 /\ ~SequentialInv(k, run[k])
    BY <1>2, <2>2
  <2> DEFINE j == k - 1
  <2>4. j \in 0 .. NumCommands - 1 /\ j \in 0 .. NumCommands /\ j < k /\ j + 1 = k
    BY <2>3, DriverAssumption
  <2>5. SequentialInv(j, run[j])
    <3> HIDE DEF j
    <3>1. j \notin T
      <4>1. ~(k <= j) /\ j \in Int
        BY <2>3, <2>4
      <4> HIDE DEF T
      <4> QED BY <2>2, <4>1
    <3> QED BY <2>4, <3>1
  <2> HIDE DEF j, T
  <2>6. SequentialInv(j + 1, RunNext(j, run[j]))
    BY <2>4, <2>5, SequentialNext
  <2>7. run[j + 1] = RunNext(j, run[j])
    BY <1>1, <2>4
  <2> QED BY <2>3, <2>4, <2>6, <2>7
<1>4. SequentialInv(NumCommands, SequentialRun)
  <2>1. NumCommands \in 0 .. NumCommands
    BY DriverAssumption
  <2> QED BY <1>1, <1>3, <2>1
<1> DEFINE x == PerPeriod
           m == MaxWorkers
           d == PerReport(1)
<1>5. PICK r \in 0 .. 3 : /\ r * d <= NumCommands /\ NumCommands <= (r + 1) * d
                          /\ NumCommands = r * d => r = 0
                          /\ RunHolds(SequentialRun, r, Progress(NumCommands), {})
  BY <1>4 DEF SequentialInv
<1>6. m \in Nat \ {0} /\ x \in Nat /\ d = m * x /\ NumCommands = m * (4 * x)
  BY Sizes, PeriodSizes
<1>7. r = FinalRound
  <2> HIDE DEF m, x, d
  <2>1. NumCommands = 4 * d /\ d \in Nat /\ r \in {0, 1, 2, 3}
    BY <1>6
  <2>2. CASE x = 0
    <3>1. d = 0
      BY <1>6, <2>2
    <3>2. NumCommands = r * d
      BY <2>1, <3>1
    <3> QED BY <1>5, <2>2, <3>2 DEF FinalRound, x
  <2>3. CASE x # 0
    <3>1. d # 0
      BY <1>6, <2>3
    <3>2. r = 3
      BY <1>5, <2>1, <3>1
    <3> QED BY <2>3, <3>2 DEF FinalRound, x
  <2> QED BY <2>2, <2>3
<1>8. Progress(NumCommands) = All(4 * x)
  <2> HIDE DEF x, m
  <2>1. 4 * x \in Nat
    BY <1>6
  <2> QED BY <1>6, <2>1, ProgressAll DEF m
<1> QED BY <1>5, <1>7, <1>8
-----------------------------------------------------------------------------
(***************************************************************************)
(* The concurrent run.  In round r, every worker does the commands of      *)
(* period r and no other.                                                  *)
(***************************************************************************)
RoundLocal(v, r) ==
  /\ Base(v) + (r + 1) * PerReport(NumWorkers) = PerWorker(NumWorkers)
  /\ Base(v) <= cmdCount[v]
  /\ cmdCount[v] + Drawing(v) <= Base(v) + PerReport(NumWorkers)
  /\ CheckedIn(v) => cmdCount[v] > 0
  /\ At(v, "done") => cmdCount[v] = 0

RoundOf(r) ==
  /\ r \in 0 .. 3 /\ (PerPeriod = 0 => r = 0)
  /\ \A v \in Worker : RoundLocal(v, r)

LEMMA ReportSize ==
  /\ PerReport(NumWorkers) \in Nat
  /\ PerWorker(NumWorkers) = 4 * PerReport(NumWorkers)
  /\ PerReport(NumWorkers) = 0 <=> PerPeriod = 0
<1> DEFINE x == PerPeriod
           k == StreamsEach
<1>1. /\ x \in Nat /\ k \in Nat \ {0} /\ PerReport(NumWorkers) = k * x
      /\ PerWorker(NumWorkers) = 4 * (k * x)
  BY Sizes, PeriodSizes
<1> HIDE DEF x, k
<1>2. k * x \in Nat /\ (k * x = 0 <=> x = 0)
  BY <1>1
<1> QED BY <1>1, <1>2 DEF x

LEMMA RoundInit == Init => RoundOf(0)
<1> SUFFICES ASSUME Init, NEW v \in Worker PROVE RoundLocal(v, 0)
  BY DEF RoundOf
<1>1. /\ pc[v] = "next" /\ cmdCount[v] = PerWorker(NumWorkers)
      /\ nextReport[v] = PerWorker(NumWorkers) - PerReport(NumWorkers)
  BY DEF Init
<1>2. ~CheckedIn(v) /\ Drawing(v) = 0
  BY <1>1 DEF CheckedIn, Counted, Counting, Reporting, Finishing, Drawing
<1>3. Base(v) = PerWorker(NumWorkers) - PerReport(NumWorkers)
  BY <1>1, <1>2 DEF Base
<1> HIDE DEF At
<1>4. ~At(v, "done")
  BY <1>1 DEF At
<1> DEFINE d == PerReport(NumWorkers)
           e == PerWorker(NumWorkers)
<1>5. d \in Nat /\ e = 4 * d
  BY ReportSize
<1> HIDE DEF d, e
<1>6. (e - d) + (0 + 1) * d = e /\ e - d <= e /\ e + 0 <= (e - d) + d
  BY <1>5
<1> QED BY <1>1, <1>2, <1>3, <1>4, <1>6 DEF RoundLocal, d, e

LEMMA RoundOwn ==
  ASSUME Shape, BarrierInv, RoundInv, NEW w \in Worker, Step(w), ~ResetCount(w),
         NEW r \in 0 .. 3, RoundLocal(w, r)
  PROVE  RoundLocal(w, r)'
<1> DEFINE d == PerReport(NumWorkers)
           e == PerWorker(NumWorkers)
           b == Base(w)
           c == cmdCount[w]
<1>1. d \in Nat /\ c \in Nat /\ nextReport[w] \in Int /\ b \in Int
  <2>1. d \in Nat /\ c \in Nat /\ nextReport[w] \in Int
    BY ReportSize DEF Shape
  <2> QED BY <2>1 DEF Base
<1>2. CASE NextReport(w)
  <2>1. /\ At(w, "next") /\ At(w, "arrive")' /\ c = nextReport[w] /\ c > 0
        /\ cmdCount' = cmdCount /\ nextReport'[w] = nextReport[w] - d
    BY <1>2 DEF NextReport, Shape
  <2>2. ~CheckedIn(w) /\ CheckedIn(w)' /\ Drawing(w) = 0 /\ Drawing(w)' = 0 /\ ~At(w, "done")'
    BY <2>1, CountedOwn DEF CheckedIn, Plain, Finishing, Drawing
  <2>3. Base(w)' = b
    <3>1. Base(w)' = nextReport'[w] + d /\ b = nextReport[w]
      BY <2>2 DEF Base
    <3> QED BY <1>1, <2>1, <3>1
  <2>4. cmdCount'[w] = c
    BY <2>1
  <2> QED BY <2>1, <2>2, <2>3, <2>4 DEF RoundLocal
<1>3. CASE ~NextReport(w)
  <2>1. /\ CheckedIn(w)' <=> CheckedIn(w)
        /\ nextReport' = nextReport
        /\ cmdCount' = cmdCount \/ ~CheckedIn(w)
    BY <1>3, CheckedOwn
  <2>2. Base(w)' = b
    BY <2>1 DEF Base
  <2>3. CheckedIn(w)' => cmdCount'[w] > 0
    BY <2>1 DEF RoundLocal
  <2>4. CASE NextCommand(w)
    <3>1. /\ At(w, "next") /\ At(w, "draw")' /\ c > 0 /\ c # nextReport[w]
          /\ cmdCount'[w] = c - 1
      BY <2>4 DEF NextCommand, Shape
    <3>2. ~CheckedIn(w) /\ Drawing(w) = 0 /\ Drawing(w)' = 1 /\ ~At(w, "done")'
      BY <3>1, CountedOwn DEF CheckedIn, Plain, Finishing, Drawing
    <3>3. b <= c /\ c + 0 <= b + d /\ b = nextReport[w]
      BY <3>2 DEF RoundLocal, Base
    <3> HIDE DEF b, c, d
    <3>4. b <= c - 1 /\ (c - 1) + 1 <= b + d
      BY <1>1, <3>1, <3>3
    <3>5. cmdCount'[w] + Drawing(w)' = (c - 1) + 1
      BY <3>1, <3>2
    <3> QED BY <2>2, <2>3, <3>1, <3>2, <3>4, <3>5 DEF RoundLocal, b, c, d
  <2>5. CASE Draw(w)
    <3>1. At(w, "draw") /\ At(w, "command")' /\ cmdCount' = cmdCount
      BY <2>5 DEF Draw, Shape
    <3>2. Drawing(w) = 1 /\ Drawing(w)' = 0 /\ ~At(w, "done")'
      BY <3>1 DEF Drawing
    <3>3. c + 1 <= b + d
      BY <3>2 DEF RoundLocal
    <3> HIDE DEF b, c, d
    <3>4. c + 0 <= b + d
      BY <1>1, <3>3
    <3>5. cmdCount'[w] + Drawing(w)' = c + 0 /\ cmdCount'[w] = c
      BY <3>1, <3>2 DEF c
    <3> QED BY <2>2, <2>3, <3>2, <3>4, <3>5 DEF RoundLocal, b, c, d
  <2>6. CASE ~NextCommand(w) /\ ~Draw(w)
    <3>1. cmdCount' = cmdCount /\ Drawing(w)' = 0 /\ Drawing(w) = 0
      BY <2>6, SeedQuiet DEF Drawing
    <3>2. At(w, "done")' => cmdCount[w] = 0
      <4>1. CASE NextDone(w)
        BY <4>1 DEF NextDone
      <4>2. CASE ~NextDone(w)
        <5>1. ~At(w, "done")'
          <6> USE DEF Shape
          <6>1. CASE NextReport(w) \/ Execute(w)
            BY <6>1 DEF NextReport, Execute
          <6>2. CASE RepWait(w) \/ LogPeriod(w) \/ LogEntry(w) \/ LogStore(w) \/ RepPost(w)
            BY <6>2 DEF RepWait, LogPeriod, LogEntry, LogStore, RepPost
          <6>3. CASE FinishWait(w) \/ LoadCount(w) \/ StoreCount(w) \/ FinishPost(w) \/ Continue(w)
            BY <6>3 DEF FinishWait, LoadCount, StoreCount, FinishPost, Continue
          <6>4. CASE ReportFull(w) \/ ReportBalance(w) \/ CountReport(w)
            BY <6>4 DEF ReportFull, ReportBalance, CountReport
          <6>5. CASE ResetCount(w) \/ Release(w) \/ Released(w)
            BY <6>5 DEF ResetCount, Release, Released
          <6> QED BY <2>6, <4>2, <6>1, <6>2, <6>3, <6>4, <6>5 DEF Step
        <5> QED BY <5>1
      <4> QED BY <4>1, <4>2
    <3> QED BY <2>2, <2>3, <3>1, <3>2 DEF RoundLocal
  <2> QED BY <2>4, <2>5, <2>6
<1> QED BY <1>2, <1>3

LEMMA RoundNext ==
  ASSUME Shape, BarrierInv, RoundInv, NEW w \in Worker, Step(w), NEW r, RoundOf(r)
  PROVE  /\ ~ResetCount(w) => RoundOf(r)'
         /\ ResetCount(w) => RoundOf(r + 1)'
<1>0. r \in 0 .. 3 /\ (PerPeriod = 0 => r = 0) /\ \A v \in Worker : RoundLocal(v, r)
  BY DEF RoundOf
<1>1. CASE ~ResetCount(w)
  <2>1. RoundLocal(w, r)'
    BY <1>0, <1>1, RoundOwn
  <2>2. ASSUME NEW v \in Worker, v # w PROVE RoundLocal(v, r)'
    <3>1. /\ CheckedIn(v)' <=> CheckedIn(v)
          /\ cmdCount'[v] = cmdCount[v] /\ nextReport'[v] = nextReport[v]
      BY <1>1, <2>2, CheckedOthers
    <3>2. pc'[v] = pc[v]
      BY <2>2, OthersLocals DEF SameLocals
    <3>3. Base(v)' = Base(v) /\ Drawing(v)' = Drawing(v)
      BY <3>1, <3>2 DEF Base, Drawing
    <3> QED BY <1>0, <3>1, <3>2, <3>3 DEF RoundLocal
  <2> QED BY <1>0, <1>1, <2>1, <2>2 DEF RoundOf
<1>2. CASE ResetCount(w)
  <2> DEFINE d == PerReport(NumWorkers)
             e == PerWorker(NumWorkers)
  <2>0. d \in Nat /\ e = 4 * d /\ (d = 0 <=> PerPeriod = 0) /\ r \in Nat
    BY <1>0, ReportSize
  <2>1. nextReport' = nextReport /\ cmdCount' = cmdCount /\ pc' = [pc EXCEPT ![w] = "release"]
    BY <1>2 DEF ResetCount, generator
  <2>2. \A v \in Worker : CheckedIn(v) /\ ~Counted(v)'
    BY <1>2, ResetBarrier DEF CheckedIn
  <2>3. \A v \in Worker : pc'[v] \in {"blocked", "release"} /\ pc[v] \in {"blocked", "reset"}
    <3>1. \A v \in Worker \ {w} : Waits(v)
      BY <1>2, ReportersSteps DEF BarrierInv, BarrierLocal
    <3>2. At(w, "reset")
      BY <1>2 DEF ResetCount
    <3> QED BY <2>1, <3>1, <3>2 DEF Waits, Shape
  <2>4. \A v \in Worker : ~CheckedIn(v)' /\ Drawing(v)' = 0 /\ ~At(v, "done")'
    BY <2>2, <2>3 DEF CheckedIn, Finishing, Drawing
  <2>5. ASSUME NEW v \in Worker
        PROVE  RoundLocal(v, r + 1)' /\ r + 1 \in 0 .. 3 /\ PerPeriod # 0
    <3> DEFINE b == Base(v)
               c == cmdCount[v]
               a == nextReport[v]
    <3>1. b = a + d /\ Base(v)' = a /\ a \in Int /\ c \in Nat
      BY <2>1, <2>2, <2>4 DEF Base, Shape
    <3>2. c = b /\ c > 0 /\ b + (r + 1) * d = e
      BY <1>0, <2>2 DEF RoundInv, RoundLocal
    <3>3. cmdCount'[v] = c
      BY <2>1
    <3> HIDE DEF a, b, c, d, e
    <3>4. a + ((r + 1) + 1) * d = e
      <4>1. (r + 1) * d \in Int /\ ((r + 1) + 1) * d = (r + 1) * d + d
        BY <2>0
      <4> QED BY <2>0, <3>1, <3>2, <4>1
    <3>5. a <= c /\ c + 0 <= a + d
      BY <2>0, <3>1, <3>2
    <3>6. r + 1 \in 0 .. 3 /\ d # 0
      <4>1. r \in {0, 1, 2, 3}
        BY <1>0
      <4>2. CASE r = 3
        BY <2>0, <3>1, <3>2, <4>2
      <4>3. CASE r # 3
        <5>1. d # 0
          BY <2>0, <3>1, <3>2
        <5> QED BY <4>1, <4>3, <5>1
      <4> QED BY <4>2, <4>3
    <3> QED BY <2>0, <2>4, <3>1, <3>3, <3>4, <3>5, <3>6 DEF RoundLocal, d, e
  <2>6. RoundOf(r + 1)'
    BY <2>5 DEF RoundOf
  <2> QED BY <1>2, <2>6
<1> QED BY <1>1, <1>2

(***************************************************************************)
(* What a worker has drawn in all says how far each of its streams is.     *)
(***************************************************************************)
LEMMA TurnBounds ==
  ASSUME NEW m \in Nat \ {0}, NEW q \in Nat, NEW j \in 0 .. m - 1, NEW d \in Nat
  PROVE  /\ d * m <= q * m + j => d <= q
         /\ q * m + j <= d * m => q < d \/ (q = d /\ j = 0)
         /\ q * m + j < d * m => q < d
<1>1. q * m \in Nat /\ d * m \in Nat /\ (q + 1) * m = q * m + m
  OBVIOUS
<1>2. ASSUME d * m <= q * m + j PROVE d <= q
  <2>1. d * m + 0 < (q + 1) * m
    BY <1>1, <1>2
  <2>2. q + 1 \in Int /\ d \in Int /\ 0 \in Nat
    OBVIOUS
  <2>3. d < q + 1
    BY <2>1, <2>2, QuotientLess
  <2> QED BY <2>3
<1>3. ASSUME q * m + j < d * m PROVE q < d
  <2>1. q * m + 0 < d * m
    BY <1>1, <1>3
  <2>2. q \in Int /\ d \in Int /\ 0 \in Nat
    OBVIOUS
  <2> QED BY <2>1, <2>2, QuotientLess
<1>4. ASSUME q * m + j <= d * m PROVE q < d \/ (q = d /\ j = 0)
  <2>1. CASE q * m + j < d * m
    BY <1>3, <2>1
  <2>2. CASE q * m + j = d * m
    <3>1. d <= q
      BY <1>1, <1>2, <2>2
    <3>2. CASE j # 0
      <4>1. q * m + 0 < d * m
        BY <1>1, <2>2, <3>2
      <4>2. q \in Int /\ d \in Int /\ 0 \in Nat
        OBVIOUS
      <4>3. q < d
        BY <4>1, <4>2, QuotientLess
      <4> QED BY <3>1, <4>3
    <3>3. CASE j = 0
      <4>1. q * m <= d * m + 0
        BY <1>1, <2>2, <3>3
      <4>2. q * m + 0 < (d + 1) * m
        BY <1>1, <4>1
      <4>3. q \in Int /\ d + 1 \in Int /\ 0 \in Nat
        OBVIOUS
      <4>4. q < d + 1
        BY <4>2, <4>3, QuotientLess
      <4> QED BY <3>1, <3>3, <4>4
    <3> QED BY <3>2, <3>3
  <2> QED BY <1>1, <1>4, <2>1, <2>2
<1> QED BY <1>2, <1>3, <1>4

(***************************************************************************)
(* In round r a worker draws commands of period r only; when it has        *)
(* checked in it has drawn them all, and when it is done it has drawn its  *)
(* streams to their ends.                                                  *)
(***************************************************************************)
LEMMA RoundDrawn ==
  ASSUME Shape, SeedInv, RoundInv, NEW r, RoundOf(r), NEW v \in Worker
  PROVE  /\ \A j \in 0 .. StreamsEach - 1 :
              /\ drawn[OwnStream(v, j)] \in r * PerPeriod .. (r + 1) * PerPeriod
              /\ CheckedIn(v) => drawn[OwnStream(v, j)] = (r + 1) * PerPeriod
              /\ At(v, "done") => drawn[OwnStream(v, j)] = 4 * PerPeriod
         /\ At(v, "draw") => drawn[StreamOf(v)] < (r + 1) * PerPeriod
<1> DEFINE x == PerPeriod
           m == StreamsEach
           b == Base(v)
           c == cmdCount[v]
           g == Drawing(v)
           t == nextSeed[v]
<1>1. x \in Nat /\ m \in Nat \ {0} /\ PerReport(NumWorkers) = m * x
      /\ PerWorker(NumWorkers) = 4 * (m * x) /\ r \in Nat
  BY Sizes, PeriodSizes DEF RoundOf
<1>2. PICK q \in Nat, j \in 0 .. m - 1 : TurnOf(v, q, j)
  BY DEF SeedInv, SeedLocal
<1>3. /\ t = q * m + j /\ t + c + g = 4 * (m * x)
      /\ b + (r + 1) * (m * x) = 4 * (m * x) /\ b <= c /\ c + g <= b + m * x
      /\ CheckedIn(v) => c = b
      /\ At(v, "done") => c = 0
      /\ \A i \in 0 .. m - 1 : drawn[OwnStream(v, i)] = q + (IF i < j THEN 1 ELSE 0)
  BY <1>1, <1>2 DEF TurnOf, SeedInv, SeedLocal, RoundOf, RoundLocal, RoundInv
<1>4. c \in Nat /\ g \in {0, 1} /\ (At(v, "draw") => g = 1) /\ (~At(v, "draw") => g = 0)
  BY DEF Shape, Drawing
<1>12. b \in Int
  <2>1. nextReport[v] \in Int /\ PerReport(NumWorkers) \in Int
    BY ReportSize DEF Shape
  <2> QED BY <2>1 DEF Base
<1>5. CheckedIn(v) \/ At(v, "done") => ~At(v, "draw")
  <2>1. At(v, "draw") => ~Counted(v)
    BY CountedOwn DEF Plain
  <2> QED BY <2>1 DEF CheckedIn, Finishing
<1>6. At(v, "draw") => drawn[StreamOf(v)] = q
  BY <1>2, DrawFact
<1> HIDE DEF x, m, b, c, g, t
<1>7. r * x \in Nat /\ (r + 1) * x \in Nat /\ 4 * x \in Nat /\ (r + 1) * x = r * x + x
  BY <1>1
<1>8. /\ (r * x) * m = r * (m * x) /\ ((r + 1) * x) * m = r * (m * x) + m * x
      /\ (r + 1) * (m * x) = r * (m * x) + m * x /\ (4 * x) * m = 4 * (m * x)
      /\ r * (m * x) \in Nat /\ m * x \in Nat
  BY <1>1
<1>9. /\ (r * x) * m <= q * m + j
      /\ q * m + j <= ((r + 1) * x) * m
      /\ g = 1 => q * m + j < ((r + 1) * x) * m
      /\ c = b /\ g = 0 => q * m + j = ((r + 1) * x) * m
      /\ c = 0 /\ g = 0 => q * m + j = (4 * x) * m
  <2> DEFINE y == m * x
             z == r * (m * x)
             a == q * m + j
  <2>1. b + (z + y) = 4 * y /\ a + c + g = 4 * y /\ y \in Nat /\ z \in Nat /\ a \in Nat
    <3>1. q * m + j \in Nat
      BY <1>1
    <3> QED BY <1>3, <1>8, <3>1
  <2>2. b <= c /\ c + g <= b + y
    BY <1>3
  <2> HIDE DEF y, z, a
  <2>3. b = 3 * y - z
    BY <2>1, <1>12
  <2>4. /\ z <= a /\ a <= z + y /\ (g = 1 => a < z + y)
        /\ (c = b /\ g = 0 => a = z + y) /\ (c = 0 /\ g = 0 => a = 4 * y)
    BY <1>4, <2>1, <2>2, <2>3
  <2> QED BY <1>8, <2>4 DEF y, z, a
<1>10. /\ r * x <= q
       /\ q < (r + 1) * x \/ (q = (r + 1) * x /\ j = 0)
       /\ g = 1 => q < (r + 1) * x
       /\ c = b /\ g = 0 => q = (r + 1) * x /\ j = 0
       /\ c = 0 /\ g = 0 => q = 4 * x /\ j = 0
  <2>1. r * x <= q
    BY <1>1, <1>7, <1>9, TurnBounds
  <2>2. q < (r + 1) * x \/ (q = (r + 1) * x /\ j = 0)
    BY <1>1, <1>7, <1>9, TurnBounds
  <2>3. g = 1 => q < (r + 1) * x
    BY <1>1, <1>7, <1>9, TurnBounds
  <2>4. ASSUME NEW d \in Nat, q * m + j = d * m PROVE q = d /\ j = 0
    <3>1. d * m \in Int
      BY <1>1
    <3>2. d * m <= q * m + j /\ q * m + j <= d * m
      BY <2>4, <3>1
    <3>3. d <= q /\ (q < d \/ (q = d /\ j = 0))
      BY <1>1, <3>2, TurnBounds
    <3> QED BY <3>3
  <2> QED BY <1>7, <1>9, <2>1, <2>2, <2>3, <2>4
<1>11. ASSUME NEW i \in 0 .. m - 1
       PROVE  /\ drawn[OwnStream(v, i)] \in r * x .. (r + 1) * x
              /\ CheckedIn(v) => drawn[OwnStream(v, i)] = (r + 1) * x
              /\ At(v, "done") => drawn[OwnStream(v, i)] = 4 * x
  <2>1. drawn[OwnStream(v, i)] = q + (IF i < j THEN 1 ELSE 0)
    BY <1>3
  <2>2. j = 0 => ~(i < j)
    BY <1>1
  <2> DEFINE u == (r + 1) * x
             l == r * x
             f == 4 * x
  <2>3. /\ l <= q /\ (q < u \/ (q = u /\ j = 0)) /\ u \in Nat /\ l \in Nat
        /\ CheckedIn(v) => q = u /\ j = 0
        /\ At(v, "done") => q = f /\ j = 0
    BY <1>3, <1>4, <1>5, <1>7, <1>10
  <2> HIDE DEF u, l, f
  <2>4. drawn[OwnStream(v, i)] \in l .. u
    BY <2>1, <2>2, <2>3
  <2>5. CheckedIn(v) => drawn[OwnStream(v, i)] = u
    BY <2>1, <2>2, <2>3
  <2>6. At(v, "done") => drawn[OwnStream(v, i)] = f
    BY <2>1, <2>2, <2>3
  <2> QED BY <2>4, <2>5, <2>6 DEF u, l, f
<1> QED BY <1>4, <1>6, <1>10, <1>11 DEF x, m

-----------------------------------------------------------------------------
(***************************************************************************)
(* What a state of the concurrent run owes to the commands done so far: n  *)
(* of each stream, the latest of worker w being cur[w], of which the last  *)
(* left[w] entries have still to reach the log; Held are those entries.    *)
(***************************************************************************)
Commanding == {"log"} \cup Logging

LeftOf(w) ==
  IF pc[w] \in Commanding \ {"repPost"} THEN Len(entries[w])
  ELSE IF At(w, "repPost") THEN Len(entries[w]) - 1 ELSE 0

Ending(e, id) ==
  /\ Len(e) <= Len(EntriesOf(id))
  /\ \A i \in 1 .. Len(e) : e[i] = EntriesOf(id)[Len(EntriesOf(id)) - Len(e) + i]

OwnOf(w) == {OwnStream(w, j) : j \in 0 .. StreamsEach - 1}

Started(w, c, s) == IF At(w, "command") /\ c[1] = s THEN 1 ELSE 0

WorkerFollows(w, n, c, l, r) ==
  /\ c[1] \in OwnOf(w)
  /\ l = LeftOf(w)
  /\ \A s \in OwnOf(w) : drawn[s] = n[s] + Started(w, c, s)
  /\ At(w, "command") =>
       c \in CommandId /\ InPeriod(c[2], r) /\ n[c[1]] = c[2] /\ cmd[w] = CommandOf(c)
  /\ pc[w] \in Commanding =>
       /\ c \in CommandId \ Failing /\ InPeriod(c[2], r) /\ c[2] < n[c[1]]
       /\ Ending(entries[w], c)
  /\ pc[w] \in {"logEntry", "logStore"} =>
       ~IsSmall(Head(entries[w])) /\ period[w] = r /\ r < MaxReports

Held(cur, left) ==
  {it \in Item : \E w \in Worker :
     /\ it[1] = cur[w] /\ it[2] <= Len(EntriesOf(cur[w]))
     /\ it[2] + left[w] > Len(EntriesOf(cur[w]))}

(***************************************************************************)
(* The bank: the balances after n, and the logs of what has reached them;  *)
(* the reports, of which the r-th is taken when all have checked in.       *)
(***************************************************************************)
BankFollows(n, hold) == balance = BalanceAfter(n, Failing) /\ LogsHold(daily, n, hold)

Taken(r) == IF \E w \in Worker : At(w, "reset") THEN r + 1 ELSE r

ReportsFollow(r) ==
  /\ numReports = Made(Taken(r))
  /\ \A p \in Period :
       p < numReports \/ (p = numReports /\ \E w \in Worker : At(w, "countReport")) =>
         daily[p].balance = ReportBalanceOf(p)

Ghosts(n, cur, left) ==
  n \in [Stream -> Nat] /\ cur \in [Worker -> Stream \X Nat] /\ left \in [Worker -> Nat]

Follows(n, cur, left, r) ==
  /\ Ghosts(n, cur, left)
  /\ \A w \in Worker : WorkerFollows(w, n, cur[w], left[w], r)
  /\ BankFollows(n, Held(cur, left)) /\ ReportsFollow(r) /\ RoundOf(r)

LEMMA OwnFact ==
  /\ \A w \in Worker : OwnOf(w) \subseteq Stream
  /\ \A v, w \in Worker : v # w => OwnOf(v) \cap OwnOf(w) = {}
  /\ \A s \in Stream : \E w \in Worker : s \in OwnOf(w)
<1>1. ASSUME NEW w \in Worker, NEW j \in 0 .. StreamsEach - 1 PROVE OwnStream(w, j) \in Stream
  <2>1. 0 \in Nat
    OBVIOUS
  <2> QED BY <2>1, StreamNumber
<1>2. \A v, w \in Worker : v # w => OwnOf(v) \cap OwnOf(w) = {}
  BY SeedsApart DEF OwnOf
<1>3. \A s \in Stream : \E w \in Worker : s \in OwnOf(w)
  BY StreamOwner DEF OwnOf
<1> QED BY <1>1, <1>2, <1>3 DEF OwnOf

(***************************************************************************)
(* A worker's step leaves alone what the others owe.                       *)
(***************************************************************************)
LEMMA OthersDrawn ==
  ASSUME Shape, SeedInv, NEW w \in Worker, Step(w), NEW v \in Worker, v # w
  PROVE  /\ \A s \in OwnOf(v) : drawn'[s] = drawn[s]
         /\ cmd'[v] = cmd[v]
<1>1. \A s \in OwnOf(v) : drawn'[s] = drawn[s]
  <2>1. CASE Draw(w)
    <3>1. v \in Worker \ {w}
      OBVIOUS
    <3> QED BY <2>1, <3>1, DrawTurn DEF OwnOf
  <2>2. CASE NextCommand(w)
    BY <2>2 DEF NextCommand
  <2>3. CASE ~Draw(w) /\ ~NextCommand(w)
    BY <2>3, SeedQuiet
  <2> QED BY <2>1, <2>2, <2>3
<1>2. cmd'[v] = cmd[v]
  <2> USE DEF Shape, local
  <2>1. CASE NextDone(w) \/ NextReport(w) \/ NextCommand(w) \/ Draw(w) \/ Execute(w)
    BY <2>1 DEF NextDone, NextReport, NextCommand, Draw, Execute
  <2>2. CASE RepWait(w) \/ LogPeriod(w) \/ LogEntry(w) \/ LogStore(w) \/ RepPost(w)
    BY <2>2 DEF RepWait, LogPeriod, LogEntry, LogStore, RepPost
  <2>3. CASE FinishWait(w) \/ LoadCount(w) \/ StoreCount(w) \/ FinishPost(w) \/ Continue(w)
    BY <2>3 DEF FinishWait, LoadCount, StoreCount, FinishPost, Continue
  <2>4. CASE ReportFull(w) \/ ReportBalance(w) \/ CountReport(w)
    BY <2>4 DEF ReportFull, ReportBalance, CountReport
  <2>5. CASE ResetCount(w) \/ Release(w) \/ Released(w)
    BY <2>5 DEF ResetCount, Release, Released
  <2> QED BY <2>1, <2>2, <2>3, <2>4, <2>5 DEF Step
<1> QED BY <1>1, <1>2

LEMMA FollowOthers ==
  ASSUME Shape, SeedInv, BarrierInv, NEW w \in Worker, Step(w), NEW v \in Worker, v # w,
         NEW n, NEW c, NEW l, NEW r, WorkerFollows(v, n, c, l, r),
         NEW n2, \A s \in OwnOf(v) : n2[s] = n[s],
         NEW r2, ~ResetCount(w) => r2 = r
  PROVE  WorkerFollows(v, n2, c, l, r2)'
<1>1. SameLocals(v) /\ cmd'[v] = cmd[v] /\ \A s \in OwnOf(v) : drawn'[s] = drawn[s]
  BY OthersLocals, OthersDrawn
<1>2. pc'[v] = pc[v] /\ entries'[v] = entries[v] /\ period'[v] = period[v]
  BY <1>1 DEF SameLocals
<1>3. LeftOf(v)' = LeftOf(v) /\ \A s : Started(v, c, s)' = Started(v, c, s)
  BY <1>2 DEF LeftOf, Started
<1>4. c[1] \in OwnOf(v) /\ n2[c[1]] = n[c[1]]
  BY DEF WorkerFollows
<1>5. ResetCount(w) => pc[v] = "blocked"
  BY ReportersSteps DEF BarrierInv, BarrierLocal, Waits
<1>6. CASE r2 = r
  BY <1>1, <1>2, <1>3, <1>4, <1>6 DEF WorkerFollows
<1>7. CASE pc[v] = "blocked"
  BY <1>1, <1>2, <1>3, <1>4, <1>7 DEF WorkerFollows, Commanding, Logging
<1> QED BY <1>5, <1>6, <1>7

LEMMA Apart ==
  ASSUME NEW n, NEW cur, NEW left, NEW r, Follows(n, cur, left, r),
         NEW v \in Worker, NEW w \in Worker, v # w
  PROVE  cur[v] # cur[w] /\ \A s \in OwnOf(v) : s # cur[w][1]
BY OwnFact DEF Follows, WorkerFollows

(***************************************************************************)
(* The state after a step of w, put together.                              *)
(***************************************************************************)
LEMMA FollowBuild ==
  ASSUME DriverInv, NEW w \in Worker, Step(w),
         NEW n, NEW cur, NEW left, NEW r, Follows(n, cur, left, r),
         NEW n2 \in [Stream -> Nat], NEW c2 \in Stream \X Nat, NEW l2 \in Nat, NEW r2,
         \A s \in Stream : s \notin OwnOf(w) => n2[s] = n[s],
         IF ResetCount(w) THEN r2 = r + 1 ELSE r2 = r,
         WorkerFollows(w, n2, c2, l2, r2)',
         BankFollows(n2, Held([cur EXCEPT ![w] = c2], [left EXCEPT ![w] = l2]))',
         ReportsFollow(r2)'
  PROVE  Follows(n2, [cur EXCEPT ![w] = c2], [left EXCEPT ![w] = l2], r2)'
<1> DEFINE cur2 == [cur EXCEPT ![w] = c2]
           left2 == [left EXCEPT ![w] = l2]
<1>1. cur \in [Worker -> Stream \X Nat] /\ left \in [Worker -> Nat]
  BY DEF Follows, Ghosts
<1>2. Ghosts(n2, cur2, left2)
  BY <1>1 DEF Ghosts
<1>3. ASSUME NEW v \in Worker PROVE WorkerFollows(v, n2, cur2[v], left2[v], r2)'
  <2>1. CASE v = w
    <3>1. cur2[v] = c2 /\ left2[v] = l2
      BY <1>1, <2>1
    <3> HIDE DEF cur2, left2
    <3> QED BY <2>1, <3>1
  <2>2. CASE v # w
    <3>1. cur2[v] = cur[v] /\ left2[v] = left[v]
      BY <1>1, <2>2
    <3> HIDE DEF cur2, left2
    <3>2. WorkerFollows(v, n, cur[v], left[v], r)
      BY DEF Follows
    <3>3. \A s \in OwnOf(v) : n2[s] = n[s]
      BY <2>2, OwnFact
    <3>4. WorkerFollows(v, n2, cur[v], left[v], r2)'
      BY <2>2, <3>2, <3>3, FollowOthers DEF DriverInv
    <3> QED BY <3>1, <3>4
  <2> QED BY <2>1, <2>2
<1>4. RoundOf(r2)'
  BY RoundNext DEF DriverInv, Follows
<1> QED BY <1>2, <1>3, <1>4 DEF Follows

(***************************************************************************)
(* A step that changes none of a worker's ghosts.                          *)
(***************************************************************************)
LEMMA FollowSame ==
  ASSUME DriverInv, NEW w \in Worker, Step(w),
         NEW n, NEW cur, NEW left, NEW r, Follows(n, cur, left, r), NEW r2,
         IF ResetCount(w) THEN r2 = r + 1 ELSE r2 = r,
         WorkerFollows(w, n, cur[w], left[w], r2)',
         BankFollows(n, Held(cur, left))', ReportsFollow(r2)'
  PROVE  Follows(n, cur, left, r2)'
<1>1. Ghosts(n, cur, left)
  BY DEF Follows
<1>2. ASSUME NEW v \in Worker PROVE WorkerFollows(v, n, cur[v], left[v], r2)'
  <2>1. CASE v # w
    <3>2. WorkerFollows(v, n, cur[v], left[v], r)
      BY DEF Follows
    <3> QED BY <2>1, <3>2, FollowOthers DEF DriverInv
  <2> QED BY <2>1
<1>3. RoundOf(r2)'
  BY RoundNext DEF DriverInv, Follows
<1> QED BY <1>1, <1>2, <1>3 DEF Follows

(***************************************************************************)
(* What is held back when a command is drawn, done, and passed on.         *)
(***************************************************************************)
LEMMA HeldDraw ==
  ASSUME NEW cur \in [Worker -> Stream \X Nat], NEW left \in [Worker -> Nat],
         NEW w \in Worker, left[w] = 0, NEW id \in CommandId
  PROVE  Held([cur EXCEPT ![w] = id], left) = Held(cur, left)
<1> DEFINE cur2 == [cur EXCEPT ![w] = id]
<1>1. \A v \in Worker : v # w => cur2[v] = cur[v]
  OBVIOUS
<1>2. ASSUME NEW it \in Item, NEW e \in Nat, it[2] <= e PROVE ~(it[2] + left[w] > e)
  <2>1. it[2] \in Nat
    BY DEF Item
  <2> QED BY <1>2, <2>1
<1>3. \A c \in CommandId : Len(EntriesOf(c)) \in Nat
  <2>1. ASSUME NEW c \in CommandId PROVE Len(EntriesOf(c)) \in Nat
    <3>1. CommandOf(c) \in Command
      BY IdFact
    <3>2. Len(Entries(CommandOf(c))) \in {0, 1, 2}
      BY <3>1, EntriesSize
    <3> QED BY <3>2 DEF EntriesOf
  <2> QED BY <2>1
<1>4. \A it \in Item : it[1] \in CommandId
  BY DEF Item
<1> HIDE DEF cur2
<1>5. ASSUME NEW it \in Item, NEW v \in Worker, NEW c, it[1] = c, c = cur2[v] \/ c = cur[v],
             it[2] <= Len(EntriesOf(c)), it[2] + left[v] > Len(EntriesOf(c))
      PROVE  v # w
  BY <1>2, <1>3, <1>4, <1>5
<1> QED BY <1>1, <1>5 DEF Held, cur2

LEMMA HeldDone ==
  ASSUME NEW cur \in [Worker -> Stream \X Nat], NEW left \in [Worker -> Nat],
         NEW w \in Worker, \A v \in Worker : v # w => cur[v] # cur[w],
         NEW l \in Nat, l = Len(EntriesOf(cur[w])), NEW p
  PROVE  Kept(Held(cur, [left EXCEPT ![w] = l]), Held(cur, left), cur[w], p)
<1> DEFINE left2 == [left EXCEPT ![w] = l]
<1>1. left2[w] = l /\ \A v \in Worker : v # w => left2[v] = left[v]
  OBVIOUS
<1>2. ASSUME NEW it \in LargeItems(p)
      PROVE  /\ it[2] \in Nat /\ it[2] > 0 /\ it \in Item
             /\ it[2] <= Len(EntriesOf(it[1]))
  BY DEF LargeItems, Item
<1>3. ASSUME NEW it \in LargeItems(p), it[1] = cur[w] PROVE it[2] + l > Len(EntriesOf(cur[w]))
  BY <1>2, <1>3
<1> HIDE DEF left2
<1>4. ASSUME NEW it \in LargeItems(p), it[1] = cur[w] PROVE it \in Held(cur, left2)
  BY <1>1, <1>2, <1>3, <1>4 DEF Held
<1>5. ASSUME NEW it \in LargeItems(p), it[1] # cur[w]
      PROVE  it \in Held(cur, left2) <=> it \in Held(cur, left)
  BY <1>1, <1>5 DEF Held
<1> QED BY <1>4, <1>5 DEF Kept, left2

LEMMA HeldGive ==
  ASSUME NEW cur \in [Worker -> Stream \X Nat], NEW left \in [Worker -> Nat],
         NEW w \in Worker, \A v \in Worker : v # w => cur[v] # cur[w], cur[w] \in CommandId,
         left[w] > 0, left[w] <= Len(EntriesOf(cur[w])),
         NEW it, it = <<cur[w], Len(EntriesOf(cur[w])) - left[w] + 1>>
  PROVE  /\ it \in Item /\ it \in Held(cur, left)
         /\ it[1] = cur[w] /\ it[2] = Len(EntriesOf(cur[w])) - left[w] + 1
         /\ it[2] <= Len(EntriesOf(cur[w]))
         /\ left[w] - 1 \in Nat
         /\ Without(Held(cur, [left EXCEPT ![w] = left[w] - 1]), Held(cur, left), it)
<1> DEFINE l == left[w]
           e == Len(EntriesOf(cur[w]))
           left2 == [left EXCEPT ![w] = l - 1]
<1>1. left2[w] = l - 1 /\ \A v \in Worker : v # w => left2[v] = left[v]
  OBVIOUS
<1>2. e \in {0, 1, 2}
  <2>1. CommandOf(cur[w]) \in Command
    BY IdFact
  <2> QED BY <2>1, EntriesSize DEF EntriesOf
<1>3. l \in Nat /\ l > 0 /\ l <= e /\ it[1] = cur[w] /\ it[2] = e - l + 1
  OBVIOUS
<1> HIDE DEF l, e, left2
<1>4. e - l + 1 \in 1 .. 2 /\ e - l + 1 <= e /\ (e - l + 1) + l > e /\ l - 1 \in Nat
  BY <1>2, <1>3
<1>5. it \in Item
  <2>1. it = <<cur[w], e - l + 1>>
    BY DEF l, e
  <2> QED BY <1>4, <2>1 DEF Item
<1>6. it \in Held(cur, left)
  BY <1>3, <1>4, <1>5 DEF Held, l, e
<1>7. ASSUME NEW j \in Item, j[1] = cur[w]
      PROVE  /\ j \in Held(cur, left2) <=> j[2] <= e /\ j[2] + (l - 1) > e
             /\ j \in Held(cur, left) <=> j[2] <= e /\ j[2] + l > e
             /\ j = it <=> j[2] = e - l + 1
             /\ j[2] \in 1 .. 2
  <2>1. j = <<j[1], j[2]>> /\ j[2] \in 1 .. 2
    BY DEF Item
  <2>2. \A v \in Worker : j[1] = cur[v] <=> v = w
    BY <1>7
  <2>3. j \in Held(cur, left2) <=> j[2] <= e /\ j[2] + (l - 1) > e
    BY <1>1, <2>2, <1>7 DEF Held, e
  <2>4. j \in Held(cur, left) <=> j[2] <= e /\ j[2] + l > e
    BY <2>2, <1>7 DEF Held, e, l
  <2>5. j = it <=> j[2] = e - l + 1
    <3>1. it = <<cur[w], e - l + 1>>
      BY DEF l, e
    <3> QED BY <1>7, <2>1, <3>1
  <2> QED BY <2>1, <2>3, <2>4, <2>5
<1>8. ASSUME NEW j \in Item, j[1] = cur[w]
      PROVE  j \in Held(cur, left2) <=> j \in Held(cur, left) /\ j # it
  <2> DEFINE k == j[2]
  <2>1. k \in 1 .. 2
    BY <1>7, <1>8
  <2>2. k <= e /\ k + (l - 1) > e <=> k <= e /\ k + l > e /\ k # e - l + 1
    BY <1>2, <1>3, <2>1
  <2> QED BY <1>7, <1>8, <2>2
<1>9. ASSUME NEW j \in Item, j[1] # cur[w]
      PROVE  j \in Held(cur, left2) <=> j \in Held(cur, left) /\ j # it
  BY <1>1, <1>3, <1>9 DEF Held
<1>10. Without(Held(cur, left2), Held(cur, left), it)
  BY <1>8, <1>9 DEF Without
<1> QED BY <1>3, <1>4, <1>5, <1>6, <1>10 DEF l, e, left2

-----------------------------------------------------------------------------
(***************************************************************************)
(* The steps in which no command is drawn, done or logged.                 *)
(***************************************************************************)
Moves(w) ==
  \/ NextDone(w) \/ NextReport(w) \/ NextCommand(w)
  \/ FinishWait(w) \/ LoadCount(w) \/ StoreCount(w) \/ FinishPost(w) \/ Continue(w)
  \/ Release(w) \/ Released(w)

Reports(w) == ReportFull(w) \/ ReportBalance(w) \/ CountReport(w) \/ ResetCount(w)

LEMMA MovesQuiet ==
  ASSUME Shape, NEW w \in Worker, Moves(w) \/ Reports(w)
  PROVE  /\ pc[w] \notin {"command"} \cup Commanding
         /\ pc'[w] \notin {"command"} \cup Commanding
         /\ drawn' = drawn /\ balance' = balance /\ (~ReportBalance(w) => daily' = daily)
         /\ Moves(w) => /\ pc[w] \notin {"reset", "countReport"}
                        /\ pc'[w] \notin {"reset", "countReport"}
<1> USE DEF Shape, generator, bank, Commanding, Logging
<1>1. CASE NextDone(w) \/ NextReport(w) \/ NextCommand(w)
  BY <1>1 DEF NextDone, NextReport, NextCommand
<1>2. CASE FinishWait(w) \/ LoadCount(w) \/ StoreCount(w) \/ FinishPost(w) \/ Continue(w)
  BY <1>2 DEF FinishWait, LoadCount, StoreCount, FinishPost, Continue
<1>3. CASE Release(w) \/ Released(w)
  BY <1>3 DEF Release, Released
<1>4. CASE Reports(w)
  <2>1. /\ pc[w] \in {"report", "countReport", "reset"}
        /\ pc'[w] \in {"countReport", "reset", "release"}
        /\ drawn' = drawn /\ balance' = balance /\ (~ReportBalance(w) => daily' = daily)
    BY <1>4 DEF Reports, ReportFull, ReportBalance, CountReport, ResetCount
  <2>2. ~Moves(w)
    BY <1>4 DEF Reports, ReportFull, ReportBalance, CountReport, ResetCount, Moves, NextDone,
                NextReport, NextCommand, FinishWait, LoadCount, StoreCount, FinishPost,
                Continue, Release, Released
  <2> QED BY <2>1, <2>2
<1> QED BY <1>1, <1>2, <1>3, <1>4 DEF Moves

LEMMA MovesFollow ==
  ASSUME Shape, NEW w \in Worker, Moves(w) \/ Reports(w),
         NEW n, NEW c, NEW l, NEW r, WorkerFollows(w, n, c, l, r), NEW r2
  PROVE  WorkerFollows(w, n, c, l, r2)'
<1>1. /\ pc[w] \notin {"command"} \cup Commanding
      /\ pc'[w] \notin {"command"} \cup Commanding
      /\ drawn' = drawn
  BY MovesQuiet
<1>2. LeftOf(w) = 0 /\ LeftOf(w)' = 0
  BY <1>1 DEF LeftOf, Commanding, Logging
<1>3. \A s : Started(w, c, s) = 0 /\ Started(w, c, s)' = 0
  BY <1>1 DEF Started
<1>4. /\ c[1] \in OwnOf(w) /\ l = 0 /\ \A s \in OwnOf(w) : drawn'[s] = n[s] + 0
  BY <1>1, <1>2, <1>3 DEF WorkerFollows
<1> QED BY <1>1, <1>2, <1>3, <1>4 DEF WorkerFollows, Commanding, Logging

LEMMA StepSorts ==
  ASSUME NEW w \in Worker, Step(w)
  PROVE  \/ Moves(w) \/ Reports(w) \/ Draw(w) \/ Execute(w)
         \/ RepWait(w) \/ LogPeriod(w) \/ LogEntry(w) \/ LogStore(w) \/ RepPost(w)
BY DEF Step, Moves, Reports

(***************************************************************************)
(* The reports change only when one is taken: an entry of a log leaves the *)
(* balances of the reports as they are.                                    *)
(***************************************************************************)
LEMMA ReportsKept ==
  ASSUME DriverInv, NEW w \in Worker, Step(w), ~Reports(w),
         NEW r, ReportsFollow(r)
  PROVE  ReportsFollow(r)'
<1>0. Shape
  BY DEF DriverInv
<1>1. numReports' = numReports
  BY CountersKept DEF DriverInv, Reports
<1>2. /\ pc[w] \notin {"reset", "countReport"}
      /\ pc'[w] \notin {"reset", "countReport"}
  <2>1. CASE Moves(w)
    BY <1>0, <2>1, MovesQuiet
  <2>2. CASE Draw(w) \/ Execute(w)
    BY <1>0, <2>2 DEF Draw, Execute, Shape
  <2>3. CASE RepWait(w) \/ LogPeriod(w) \/ LogEntry(w) \/ LogStore(w) \/ RepPost(w)
    BY <1>0, <2>3 DEF RepWait, LogPeriod, LogEntry, LogStore, RepPost, Shape
  <2> QED BY <2>1, <2>2, <2>3, StepSorts
<1>3. \A v \in Worker : v # w => pc'[v] = pc[v]
  BY <1>0, OthersLocals DEF SameLocals
<1>4. \A p \in Period : daily'[p].balance = daily[p].balance
  <2> USE DEF bank
  <2>1. CASE Moves(w)
    <3>1. ~ReportBalance(w)
      BY DEF Reports
    <3> QED BY <1>0, <2>1, <3>1, MovesQuiet
  <2>2. CASE Draw(w) \/ Execute(w)
    BY <2>2 DEF Draw, Execute
  <2>3. CASE RepWait(w) \/ LogPeriod(w) \/ RepPost(w)
    BY <2>3 DEF RepWait, LogPeriod, RepPost
  <2>4. CASE LogEntry(w)
    <3>1. CASE daily' = daily
      BY <3>1
    <3>2. CASE daily' = [daily EXCEPT ![period[w]].hasOverflowed = TRUE]
      BY <1>0, <3>2 DEF Shape, Report
    <3> QED BY <2>4, <3>1, <3>2 DEF LogEntry
  <2>5. CASE LogStore(w)
    <3>1. daily' = [daily EXCEPT ![period[w]] = Logged(@, reg[w], Head(entries[w]))]
      BY <2>5 DEF LogStore
    <3> QED BY <1>0, <3>1 DEF Shape, Report, Logged
  <2> QED BY <2>1, <2>2, <2>3, <2>4, <2>5, StepSorts
<1>5. (\E v \in Worker : At(v, "reset"))' <=> \E v \in Worker : At(v, "reset")
  BY <1>2, <1>3
<1>6. (\E v \in Worker : At(v, "countReport"))' <=> \E v \in Worker : At(v, "countReport")
  BY <1>2, <1>3
<1>7. Taken(r)' = Taken(r)
  BY <1>5 DEF Taken
<1> QED BY <1>1, <1>4, <1>6, <1>7 DEF ReportsFollow

(***************************************************************************)
(* A move leaves everything owed as it is.                                 *)
(***************************************************************************)
LEMMA FollowMoves ==
  ASSUME DriverInv, NEW w \in Worker, Step(w), Moves(w), ~Reports(w),
         NEW n, NEW cur, NEW left, NEW r, Follows(n, cur, left, r)
  PROVE  Follows(n, cur, left, r)'
<1>1. Shape /\ WorkerFollows(w, n, cur[w], left[w], r)
  BY DEF DriverInv, Follows
<1>2. WorkerFollows(w, n, cur[w], left[w], r)'
  BY <1>1, MovesFollow
<1>3. BankFollows(n, Held(cur, left))'
  <2>1. balance' = balance /\ daily' = daily
    BY <1>1, MovesQuiet DEF Reports
  <2> QED BY <2>1 DEF Follows, BankFollows, LogsHold
<1>4. ReportsFollow(r)'
  BY ReportsKept DEF Follows
<1>5. ~ResetCount(w)
  BY DEF Reports
<1> QED BY <1>2, <1>3, <1>4, <1>5, FollowSame

(***************************************************************************)
(* When a report is taken every worker has checked in: n is the end of the *)
(* period in all streams.                                                  *)
(***************************************************************************)
LEMMA AllIn ==
  ASSUME DriverInv, NEW w \in Worker, pc[w] \in Reporting,
         NEW n, NEW cur, NEW left, NEW r, Follows(n, cur, left, r)
  PROVE  /\ \A v \in Worker : v # w => At(v, "blocked")
         /\ n = All((r + 1) * PerPeriod)
<1>0. Shape /\ SeedInv /\ BarrierInv /\ RoundInv /\ RoundOf(r)
  BY DEF DriverInv, Follows
<1>1. pc[w] \in Counting /\ pc[w] \in Closing /\ ~At(w, "release") /\ ~At(w, "command")
  BY DEF Counting, Closing, Reporting
<1>2. \A v \in Worker : v # w => Waits(v)
  BY <1>0, <1>1 DEF BarrierInv, BarrierLocal
<1>3. \A v \in Worker : ~At(v, "release")
  BY <1>0, <1>1 DEF BarrierInv, Closing
<1>4. \A v \in Worker : CheckedIn(v) /\ ~At(v, "command")
  BY <1>1, <1>2, <1>3 DEF CheckedIn, Counted, Pending, Waits
<1>5. ASSUME NEW s \in Stream PROVE n[s] = (r + 1) * PerPeriod
  <2>1. PICK v \in Worker : s \in OwnOf(v)
    BY OwnFact
  <2>2. PICK j \in 0 .. StreamsEach - 1 : s = OwnStream(v, j)
    BY <2>1 DEF OwnOf
  <2>3. drawn[s] = (r + 1) * PerPeriod
    BY <1>0, <1>4, <2>2, RoundDrawn
  <2>4. drawn[s] = n[s] + 0
    BY <1>4, <2>1 DEF Follows, WorkerFollows, Started
  <2>5. n[s] \in Nat
    BY DEF Follows, Ghosts
  <2> QED BY <2>3, <2>4, <2>5
<1>6. n \in [Stream -> Nat]
  BY DEF Follows, Ghosts
<1>7. n = [s \in Stream |-> n[s]]
  BY <1>6
<1>8. n = All((r + 1) * PerPeriod)
  BY <1>5, <1>7 DEF All
<1> QED BY <1>2, <1>8 DEF Waits

LEMMA MadeFact ==
  ASSUME NEW r \in Nat
  PROVE  /\ Made(r) < MaxReports => Made(r) = r /\ Made(r + 1) = r + 1 /\ r \in Period
         /\ Made(r) >= MaxReports => Made(r + 1) = Made(r)
         /\ Made(r) \in Nat
BY DriverAssumption DEF Made, Period

LEMMA ReportsTaken ==
  ASSUME DriverInv, NEW w \in Worker, Step(w), Reports(w),
         NEW n, NEW cur, NEW left, NEW r, Follows(n, cur, left, r), NEW r2,
         IF ResetCount(w) THEN r2 = r + 1 ELSE r2 = r
  PROVE  ReportsFollow(r2)' /\ BankFollows(n, Held(cur, left))'
<1>0. Shape /\ r \in Nat /\ ReportsFollow(r) /\ BankFollows(n, Held(cur, left))
  BY DEF DriverInv, Follows, RoundOf
<1>1. pc[w] \in Reporting
  BY DEF Reports, ReportFull, ReportBalance, CountReport, ResetCount, Reporting
<1>2. (\A v \in Worker : v # w => At(v, "blocked")) /\ n = All((r + 1) * PerPeriod)
  BY <1>1, AllIn
<1>3. \A v \in Worker : v # w => At(v, "blocked")'
  BY <1>0, <1>2, OthersLocals DEF SameLocals
<1>4. \A label \in {"reset", "countReport"} :
        /\ (\E v \in Worker : At(v, label)) <=> At(w, label)
        /\ (\E v \in Worker : At(v, label))' <=> At(w, label)'
  BY <1>2, <1>3
<1>5. Taken(r) = (IF At(w, "reset") THEN r + 1 ELSE r)
  BY <1>4 DEF Taken
<1>6. Taken(r2)' = (IF At(w, "reset")' THEN r2 + 1 ELSE r2)
  BY <1>4 DEF Taken
<1>7. /\ numReports = Made(Taken(r))
      /\ \A p \in Period : p < numReports \/ (p = numReports /\ At(w, "countReport")) =>
           daily[p].balance = ReportBalanceOf(p)
  BY <1>0, <1>4 DEF ReportsFollow
<1>8. SUFFICES /\ numReports' = Made(Taken(r2)')
               /\ \A p \in Period :
                    p < numReports' \/ (p = numReports' /\ At(w, "countReport")') =>
                      daily'[p].balance = ReportBalanceOf(p)
               /\ BankFollows(n, Held(cur, left))'
  BY <1>4 DEF ReportsFollow
<1>9. numReports \in Nat /\ MaxReports \in Nat
  BY <1>0, DriverAssumption DEF Shape
<1>10. CASE ReportFull(w)
  <2>1. /\ At(w, "report") /\ At(w, "reset")' /\ numReports >= MaxReports /\ r2 = r
        /\ balance' = balance /\ daily' = daily /\ numReports' = numReports
    BY <1>0, <1>10 DEF ReportFull, ResetCount, Shape, bank
  <2>2. Taken(r) = r /\ Taken(r2)' = r + 1
    BY <1>5, <1>6, <2>1
  <2>3. numReports' = Made(Taken(r2)')
    BY <1>0, <1>7, <2>1, <2>2, MadeFact
  <2> QED BY <1>0, <1>7, <2>1, <2>3 DEF BankFollows, LogsHold
<1>11. CASE ReportBalance(w)
  <2>1. /\ At(w, "report") /\ At(w, "countReport")' /\ numReports < MaxReports /\ r2 = r
        /\ balance' = balance /\ numReports' = numReports
        /\ daily' = [daily EXCEPT ![numReports].balance = BankTotal(balance)]
    BY <1>0, <1>11 DEF ReportBalance, ResetCount, Shape
  <2>2. Taken(r) = r /\ Taken(r2)' = r
    BY <1>5, <1>6, <2>1
  <2>3. numReports = r /\ r \in Period
    BY <1>0, <1>7, <2>1, <2>2, MadeFact
  <2>4. daily \in [Period -> Report]
    BY <1>0 DEF Shape
  <2>5. daily'[r].balance = ReportBalanceOf(r)
    <3>1. daily'[r].balance = BankTotal(balance)
      BY <2>1, <2>3, <2>4 DEF Report
    <3> QED BY <1>0, <1>2, <3>1 DEF BankFollows, ReportBalanceOf
  <2>6. \A p \in Period : p # r => daily'[p] = daily[p]
    BY <2>1, <2>3, <2>4
  <2>7. ASSUME NEW p \in Period, p < numReports' \/ (p = numReports' /\ At(w, "countReport")')
        PROVE  daily'[p].balance = ReportBalanceOf(p)
    <3>1. CASE p = r
      BY <2>5, <3>1
    <3>2. CASE p # r
      BY <1>7, <2>1, <2>3, <2>6, <2>7, <3>2
    <3> QED BY <3>1, <3>2
  <2>8. ASSUME NEW p \in Period PROVE LogHolds(daily'[p], Passed(n, Held(cur, left), p))
    <3>1. LogHolds(daily[p], Passed(n, Held(cur, left), p))
      BY <1>0 DEF BankFollows, LogsHold
    <3>2. /\ daily'[p].hasOverflowed = daily[p].hasOverflowed
          /\ daily'[p].numLogEntries = daily[p].numLogEntries
          /\ daily'[p].transferLog = daily[p].transferLog
      BY <2>1, <2>3, <2>4 DEF Report
    <3> QED BY <3>1, <3>2, LogSame
  <2>9. BankFollows(n, Held(cur, left))'
    BY <1>0, <2>1, <2>8 DEF BankFollows, LogsHold
  <2> QED BY <1>7, <2>1, <2>2, <2>7, <2>9
<1>12. CASE CountReport(w)
  <2>1. /\ At(w, "countReport") /\ At(w, "reset")' /\ r2 = r
        /\ balance' = balance /\ daily' = daily /\ numReports' = numReports + 1
    BY <1>0, <1>12 DEF CountReport, ResetCount, Shape
  <2>2. Taken(r) = r /\ Taken(r2)' = r + 1
    BY <1>5, <1>6, <2>1
  <2>3. numReports < MaxReports
    BY <2>1 DEF DriverInv, BarrierInv, BarrierLocal
  <2>4. numReports = r /\ numReports' = Made(Taken(r2)')
    BY <1>0, <1>7, <2>1, <2>2, <2>3, MadeFact
  <2>5. \A p \in Period : p < numReports' => p < numReports \/ p = numReports
    BY <1>9, <2>1 DEF Period
  <2>6. ~At(w, "countReport")'
    BY <2>1
  <2> QED BY <1>0, <1>7, <2>1, <2>4, <2>5, <2>6 DEF BankFollows, LogsHold
<1>13. CASE ResetCount(w)
  <2>1. /\ At(w, "reset") /\ At(w, "release")' /\ r2 = r + 1
        /\ balance' = balance /\ daily' = daily /\ numReports' = numReports
    BY <1>0, <1>13 DEF ResetCount, Shape, bank
  <2>2. Taken(r) = r + 1 /\ Taken(r2)' = r + 1
    BY <1>5, <1>6, <2>1
  <2> QED BY <1>0, <1>7, <2>1, <2>2 DEF BankFollows, LogsHold
<1> QED BY <1>10, <1>11, <1>12, <1>13 DEF Reports

LEMMA FollowReports ==
  ASSUME DriverInv, NEW w \in Worker, Step(w), Reports(w),
         NEW n, NEW cur, NEW left, NEW r, Follows(n, cur, left, r)
  PROVE  \E r2 \in Nat : Follows(n, cur, left, r2)'
<1>1. /\ Shape /\ WorkerFollows(w, n, cur[w], left[w], r) /\ r \in Nat
  BY DEF DriverInv, Follows, RoundOf
<1>2. PICK q \in Nat : IF ResetCount(w) THEN q = r + 1 ELSE q = r
  <2>1. r + 1 \in Nat
    BY <1>1
  <2> QED BY <1>1, <2>1
<1>3. WorkerFollows(w, n, cur[w], left[w], q)'
  BY <1>1, MovesFollow
<1>4. ReportsFollow(q)' /\ BankFollows(n, Held(cur, left))'
  BY <1>2, ReportsTaken
<1>5. Follows(n, cur, left, q)'
  BY <1>2, <1>3, <1>4, FollowSame
<1> QED BY <1>5

-----------------------------------------------------------------------------
(***************************************************************************)
(* Drawing a command changes nothing in the bank.                          *)
(***************************************************************************)
LEMMA FollowDraw ==
  ASSUME DriverInv, NEW w \in Worker, Step(w), Draw(w),
         NEW n, NEW cur, NEW left, NEW r, Follows(n, cur, left, r)
  PROVE  \E cur2 \in [Worker -> Stream \X Nat] : Follows(n, cur2, left, r)'
<1>0. /\ Shape /\ SeedInv /\ RoundInv /\ RoundOf(r) /\ Ghosts(n, cur, left)
      /\ WorkerFollows(w, n, cur[w], left[w], r) /\ BankFollows(n, Held(cur, left))
      /\ ReportsFollow(r) /\ r \in Nat
  BY DEF DriverInv, Follows, RoundOf
<1>1. At(w, "draw") /\ At(w, "command")'
  BY <1>0 DEF Draw, Shape
<1>2. PICK q \in Nat, j \in 0 .. StreamsEach - 1 : TurnOf(w, q, j)
  BY <1>0 DEF SeedInv, SeedLocal
<1>3. PICK s : s = StreamOf(w)
  OBVIOUS
<1>4. /\ s = OwnStream(w, j) /\ s \in Stream /\ drawn[s] = q /\ q < StreamLength
  BY <1>0, <1>1, <1>2, <1>3, DrawFact
<1>5. s \in OwnOf(w)
  BY <1>4 DEF OwnOf
<1>6. InPeriod(q, r)
  <2>1. drawn[s] \in r * PerPeriod .. (r + 1) * PerPeriod
    BY <1>0, <1>4, RoundDrawn
  <2>2. drawn[s] < (r + 1) * PerPeriod
    BY <1>0, <1>1, <1>3, RoundDrawn
  <2> QED BY <1>4, <2>1, <2>2 DEF InPeriod
<1>7. PICK id : id = <<s, q>>
  OBVIOUS
<1>8. /\ id \in CommandId /\ id[1] = s /\ id[2] = q /\ CommandOf(id) = Drawn[s][q]
      /\ id \in Stream \X Nat
  <2>1. StreamLength \in Nat
    BY Sizes
  <2>2. q \in 0 .. StreamLength - 1
    BY <1>4, <2>1
  <2> QED BY <1>4, <1>7, <2>2, IdFact
<1>9. /\ cmd'[w] = CommandOf(id) /\ drawn' = [drawn EXCEPT ![s] = @ + 1]
      /\ balance' = balance /\ daily' = daily /\ drawn \in [Stream -> Int]
  BY <1>0, <1>3, <1>4, <1>8 DEF Draw, Shape, bank
<1>10. left[w] = 0 /\ LeftOf(w)' = 0 /\ \A t \in OwnOf(w) : drawn[t] = n[t] + 0
  <2>1. LeftOf(w) = 0 /\ LeftOf(w)' = 0 /\ \A t : Started(w, cur[w], t) = 0
    BY <1>1 DEF LeftOf, Started, Commanding, Logging
  <2> QED BY <1>0, <2>1 DEF WorkerFollows
<1>11. n \in [Stream -> Nat] /\ cur \in [Worker -> Stream \X Nat] /\ left \in [Worker -> Nat]
  BY <1>0 DEF Ghosts
<1>12. WorkerFollows(w, n, id, 0, r)'
  <2>1. ASSUME NEW t \in OwnOf(w) PROVE drawn'[t] = n[t] + Started(w, id, t)'
    <3>1. t \in Stream /\ n[t] \in Nat /\ drawn[t] = n[t]
      BY <1>10, <1>11, OwnFact
    <3>2. CASE t = s
      <4>1. Started(w, id, t)' = 1 /\ drawn'[t] = drawn[t] + 1
        BY <1>1, <1>4, <1>8, <1>9, <3>2 DEF Started
      <4> QED BY <3>1, <4>1
    <3>3. CASE t # s
      <4>1. Started(w, id, t)' = 0 /\ drawn'[t] = drawn[t]
        BY <1>1, <1>4, <1>8, <1>9, <3>1, <3>3 DEF Started
      <4> QED BY <3>1, <4>1
    <3> QED BY <3>2, <3>3
  <2>2. n[s] = q
    BY <1>4, <1>5, <1>10, <1>11
  <2> QED BY <1>1, <1>5, <1>6, <1>8, <1>9, <1>10, <2>1, <2>2
          DEF WorkerFollows, Commanding, Logging
<1>13. [left EXCEPT ![w] = 0] = left
  BY <1>10, <1>11
<1>14. BankFollows(n, Held([cur EXCEPT ![w] = id], [left EXCEPT ![w] = 0]))'
  <2>1. Held([cur EXCEPT ![w] = id], left) = Held(cur, left)
    BY <1>8, <1>10, <1>11, HeldDraw
  <2> HIDE DEF Held
  <2>2. BankFollows(n, Held(cur, left))'
    BY <1>0, <1>9 DEF BankFollows, LogsHold
  <2> QED BY <1>13, <2>1, <2>2
<1>15. ~Reports(w) /\ ~ResetCount(w)
  BY <1>1 DEF Reports, ReportFull, ReportBalance, CountReport, ResetCount
<1>16. ReportsFollow(r)'
  BY <1>0, <1>15, ReportsKept
<1>17. Follows(n, [cur EXCEPT ![w] = id], [left EXCEPT ![w] = 0], r)'
  <2>1. 0 \in Nat
    OBVIOUS
  <2> QED BY <1>8, <1>11, <1>12, <1>14, <1>15, <1>16, <2>1, FollowBuild
<1>18. [cur EXCEPT ![w] = id] \in [Worker -> Stream \X Nat]
  BY <1>8, <1>11
<1>19. PICK cur2 : cur2 = [cur EXCEPT ![w] = id]
  OBVIOUS
<1>20. Follows(n, cur2, left, r)'
  BY <1>13, <1>17, <1>19
<1> QED BY <1>18, <1>19, <1>20

(***************************************************************************)
(* What is done is in the period: so the next command of a stream is       *)
(* refused just if it is one of those that always are.                     *)
(***************************************************************************)
LEMMA FollowsWithin ==
  ASSUME DriverInv, NEW n, NEW cur, NEW left, NEW r, Follows(n, cur, left, r)
  PROVE  WithinPeriod(n, r)
<1>0. Shape /\ SeedInv /\ RoundInv /\ RoundOf(r) /\ r \in Nat /\ n \in [Stream -> Nat]
  BY DEF DriverInv, Follows, RoundOf, Ghosts
<1>1. ASSUME NEW s \in Stream PROVE n[s] \in r * PerPeriod .. (r + 1) * PerPeriod
  <2>1. PICK v \in Worker : s \in OwnOf(v)
    BY OwnFact
  <2>2. PICK j \in 0 .. StreamsEach - 1 : s = OwnStream(v, j)
    BY <2>1 DEF OwnOf
  <2>3. drawn[s] \in r * PerPeriod .. (r + 1) * PerPeriod
    BY <1>0, <2>2, RoundDrawn
  <2>4. WorkerFollows(v, n, cur[v], left[v], r)
    BY DEF Follows
  <2>5. n[s] \in Nat
    BY <1>0
  <2>6. CASE Started(v, cur[v], s) = 0
    <3>1. drawn[s] = n[s] + 0
      BY <2>1, <2>4, <2>6 DEF WorkerFollows
    <3> QED BY <2>3, <2>5, <3>1
  <2>7. CASE Started(v, cur[v], s) # 0
    <3>1. At(v, "command") /\ cur[v][1] = s
      BY <2>7 DEF Started
    <3>2. InPeriod(n[s], r)
      BY <2>4, <3>1 DEF WorkerFollows
    <3> QED BY <2>5, <3>2, <1>0, PeriodSizes DEF InPeriod
  <2> QED BY <2>6, <2>7
<1>2. n = [s \in Stream |-> n[s]]
  BY <1>0
<1> QED BY <1>1, <1>2 DEF WithinPeriod

(***************************************************************************)
(* Doing a command: the balances it leaves are those after one command     *)
(* more, and its entries are held back until they are logged.              *)
(***************************************************************************)
LEMMA AdvancedFact ==
  ASSUME NEW n \in [Stream -> Nat], NEW id \in CommandId, n[id[1]] = id[2]
  PROVE  /\ Advanced(n, id) \in [Stream -> Nat]
         /\ Advanced(n, id)[id[1]] = n[id[1]] + 1 /\ id[2] < Advanced(n, id)[id[1]]
         /\ \A s \in Stream : s # id[1] => Advanced(n, id)[s] = n[s]
<1>1. id[1] \in Stream
  BY IdFact
<1> QED BY <1>1 DEF Advanced

LEMMA ExecuteFollows ==
  ASSUME Shape, NEW w \in Worker, Execute(w), NEW n \in [Stream -> Nat], NEW c, NEW l, NEW r,
         WorkerFollows(w, n, c, l, r),
         Refused(balance, cmd[w]) <=> c \in Failing
  PROVE  \E l2 \in Nat :
           /\ WorkerFollows(w, Advanced(n, c), c, l2, r)'
           /\ \/ /\ l2 = Len(EntriesOf(c)) /\ c \notin Failing
                 /\ balance' = Applied(balance, CommandOf(c))
              \/ /\ l2 = 0 /\ balance' = balance
                 /\ c \in Failing \/ ~IsTeller(CommandOf(c))
<1>1. /\ At(w, "command") /\ c \in CommandId /\ InPeriod(c[2], r) /\ n[c[1]] = c[2]
      /\ cmd[w] = CommandOf(c) /\ c[1] \in OwnOf(w)
  BY DEF Execute, WorkerFollows
<1>2. drawn' = drawn
  BY DEF Execute, generator
<1>3. PICK n2 : n2 = Advanced(n, c)
  OBVIOUS
<1>4. /\ n2 \in [Stream -> Nat] /\ n2[c[1]] = n[c[1]] + 1 /\ c[2] < n2[c[1]]
      /\ \A s \in Stream : s # c[1] => n2[s] = n[s]
  BY <1>1, <1>3, AdvancedFact
<1>5. CommandOf(c) \in Command /\ EntriesOf(c) \in Seq(LogRecord) /\ Len(EntriesOf(c)) \in Nat
  <2>1. CommandOf(c) \in Command
    BY <1>1, IdFact
  <2> QED BY <2>1, EntriesSize DEF EntriesOf
<1>6. At(w, "command")' = FALSE /\ \A s \in OwnOf(w) : drawn'[s] = n2[s] + Started(w, c, s)'
  <2>1. ~At(w, "command")'
    BY DEF Execute, Shape
  <2>2. ASSUME NEW s \in OwnOf(w) PROVE drawn[s] = n2[s] + 0
    <3>1. s \in Stream /\ n2[s] \in Nat
      BY <1>4, OwnFact
    <3>2. drawn[s] = n[s] + Started(w, c, s)
      BY DEF WorkerFollows
    <3>3. CASE s = c[1]
      <4>1. Started(w, c, s) = 1
        BY <1>1, <3>3 DEF Started
      <4> QED BY <1>4, <3>1, <3>2, <3>3, <4>1
    <3>4. CASE s # c[1]
      <4>1. Started(w, c, s) = 0
        BY <3>4 DEF Started
      <4> QED BY <1>4, <3>1, <3>2, <3>4, <4>1
    <3> QED BY <3>3, <3>4
  <2>3. \A s : Started(w, c, s)' = 0
    BY <2>1 DEF Started
  <2> QED BY <1>2, <2>1, <2>2, <2>3
<1>7. CASE Refused(balance, cmd[w]) \/ ~IsTeller(cmd[w])
  <2>1. pc'[w] = "next" /\ balance' = balance
    BY <1>7 DEF Execute, Shape
  <2>2. LeftOf(w)' = 0
    BY <2>1 DEF LeftOf, Commanding, Logging
  <2>3. WorkerFollows(w, n2, c, 0, r)'
    BY <1>1, <1>6, <2>1, <2>2 DEF WorkerFollows, Commanding, Logging
  <2>4. 0 \in Nat
    OBVIOUS
  <2> QED BY <1>1, <1>3, <1>7, <2>1, <2>3, <2>4
<1>8. CASE ~(Refused(balance, cmd[w]) \/ ~IsTeller(cmd[w]))
  <2>1. /\ pc'[w] = "log" /\ balance' = Applied(balance, cmd[w])
        /\ entries'[w] = EntriesOf(c)
    BY <1>1, <1>8 DEF Execute, Shape, EntriesOf
  <2>2. LeftOf(w)' = Len(EntriesOf(c))
    BY <2>1 DEF LeftOf, Commanding, Logging
  <2>3. Ending(EntriesOf(c), c)
    <3> DEFINE e == Len(EntriesOf(c))
    <3>1. \A i \in 1 .. e : e - e + i = i
      BY <1>5
    <3>2. e <= e
      BY <1>5
    <3> QED BY <3>1, <3>2 DEF Ending
  <2>4. c \notin Failing
    BY <1>8
  <2>5. WorkerFollows(w, n2, c, Len(EntriesOf(c)), r)'
    BY <1>1, <1>4, <1>6, <2>1, <2>2, <2>3, <2>4 DEF WorkerFollows, Commanding, Logging
  <2> QED BY <1>1, <1>3, <1>5, <2>1, <2>4, <2>5
<1> QED BY <1>7, <1>8

LEMMA FollowExecute ==
  ASSUME FailuresFixed(Failing), DriverInv, NEW w \in Worker, Step(w), Execute(w),
         NEW n, NEW cur, NEW left, NEW r, Follows(n, cur, left, r)
  PROVE  \E n2 \in [Stream -> Nat], left2 \in [Worker -> Nat] : Follows(n2, cur, left2, r)'
<1>0. /\ Shape /\ r \in 0 .. 3 /\ Ghosts(n, cur, left)
      /\ WorkerFollows(w, n, cur[w], left[w], r) /\ BankFollows(n, Held(cur, left))
      /\ ReportsFollow(r)
  BY DEF DriverInv, Follows, RoundOf
<1>1. n \in [Stream -> Nat] /\ cur \in [Worker -> Stream \X Nat] /\ left \in [Worker -> Nat]
  BY <1>0 DEF Ghosts
<1>2. PICK c : c = cur[w]
  OBVIOUS
<1>3. /\ c \in CommandId /\ InPeriod(c[2], r) /\ n[c[1]] = c[2] /\ c[1] \in OwnOf(w)
      /\ cmd[w] = CommandOf(c) /\ c \in Stream \X Nat /\ c = <<c[1], c[2]>>
      /\ c[1] \in Stream /\ CommandOf(c) = Drawn[c[1]][c[2]] /\ CommandOf(c) \in Command
  <2>1. /\ c \in CommandId /\ InPeriod(c[2], r) /\ n[c[1]] = c[2] /\ c[1] \in OwnOf(w)
        /\ cmd[w] = CommandOf(c)
    BY <1>0, <1>2 DEF Execute, WorkerFollows
  <2> QED BY <1>1, <1>2, <2>1, IdFact DEF CommandOf
<1>4. Refused(balance, cmd[w]) <=> c \in Failing
  <2>1. WithinPeriod(n, r)
    BY FollowsWithin
  <2>2. n[c[1]] < (r + 1) * PerPeriod
    BY <1>3 DEF InPeriod
  <2>3. Refused(BalanceAfter(n, Failing), Drawn[c[1]][n[c[1]]]) <=> <<c[1], n[c[1]]>> \in Failing
    BY <1>0, <1>3, <2>1, <2>2, RefusedFact
  <2>4. balance = BalanceAfter(n, Failing)
    BY <1>0 DEF BankFollows
  <2>5. Drawn[c[1]][n[c[1]]] = cmd[w] /\ <<c[1], n[c[1]]>> = c
    BY <1>3
  <2> QED BY <2>3, <2>4, <2>5, Zenon
<1>5. PICK l2 \in Nat :
        /\ WorkerFollows(w, Advanced(n, c), c, l2, r)'
        /\ \/ /\ l2 = Len(EntriesOf(c)) /\ c \notin Failing
              /\ balance' = Applied(balance, CommandOf(c))
           \/ /\ l2 = 0 /\ balance' = balance
              /\ c \in Failing \/ ~IsTeller(CommandOf(c))
  BY <1>0, <1>1, <1>2, <1>4, ExecuteFollows, SMTT(30)
<1>6. PICK n2 : n2 = Advanced(n, c)
  OBVIOUS
<1>7. n2 \in [Stream -> Nat] /\ \A s \in Stream : s # c[1] => n2[s] = n[s]
  BY <1>1, <1>3, <1>6, AdvancedFact
<1>8. PICK left2 : left2 = [left EXCEPT ![w] = l2]
  OBVIOUS
<1>9. daily' = daily
  BY DEF Execute
<1>10. left[w] = 0
  BY <1>0 DEF WorkerFollows, LeftOf, Execute, Commanding, Logging
<1>11. ASSUME NEW p \in Period PROVE Kept(Held(cur, left2), Held(cur, left), c, p)
  <2>1. CASE l2 = Len(EntriesOf(c)) /\ c \notin Failing
    <3>1. \A v \in Worker : v # w => cur[v] # cur[w]
      BY Apart
    <3> QED BY <1>1, <1>2, <1>8, <2>1, <3>1, HeldDone
  <2>2. CASE l2 = 0 /\ (c \in Failing \/ ~IsTeller(CommandOf(c)))
    <3>1. left2 = left
      BY <1>1, <1>8, <1>10, <2>2
    <3>2. ASSUME NEW it \in LargeItems(p), it[1] = c PROVE FALSE
      <4>1. c \notin Failing /\ it[2] <= Len(EntriesOf(c)) /\ it[2] \in 1 .. 2
        BY <3>2 DEF LargeItems, Item
      <4>2. Len(EntriesOf(c)) = 0
        BY <1>3, <2>2, <4>1, EntriesSize DEF EntriesOf
      <4> QED BY <4>1, <4>2
    <3> QED BY <3>1, <3>2 DEF Kept
  <2> QED BY <1>5, <2>1, <2>2
<1>12. BankFollows(n2, Held(cur, left2))'
  <2>1. balance' = BalanceAfter(n2, Failing)
    <3>1. balance = BalanceAfter(n, Failing) /\ balance \in [Account -> Int]
      BY <1>0 DEF BankFollows, Shape
    <3>2. BalanceAfter(n2, Failing) =
            IF c \in Failing THEN balance ELSE Applied(balance, CommandOf(c))
      BY <1>1, <1>3, <1>6, <3>1, BalanceNext
    <3>3. ~IsTeller(CommandOf(c)) => Applied(balance, CommandOf(c)) = balance
      BY <1>3, <3>1, EnquiryQuiet
    <3> QED BY <1>5, <3>2, <3>3
  <2>2. ASSUME NEW p \in Period PROVE LogHolds(daily[p], Passed(n2, Held(cur, left2), p))
    <3>1. LogHolds(daily[p], Passed(n, Held(cur, left), p))
      BY <1>0 DEF BankFollows, LogsHold
    <3>2. Passed(n2, Held(cur, left2), p) = Passed(n, Held(cur, left), p)
      BY <1>1, <1>3, <1>6, <1>11, PassedKept
    <3> QED BY <3>1, <3>2
  <2> QED BY <1>9, <2>1, <2>2 DEF BankFollows, LogsHold
<1>13. ~Reports(w) /\ ~ResetCount(w)
  BY DEF Execute, Reports, ReportFull, ReportBalance, CountReport, ResetCount
<1>14. ReportsFollow(r)'
  BY <1>0, <1>13, ReportsKept
<1>15. [cur EXCEPT ![w] = c] = cur
  BY <1>1, <1>2
<1>16. WorkerFollows(w, n2, c, l2, r)'
  BY <1>5, <1>6
<1>17. Follows(n2, [cur EXCEPT ![w] = c], [left EXCEPT ![w] = l2], r)'
  <2>1. \A s \in Stream : s \notin OwnOf(w) => n2[s] = n[s]
    BY <1>3, <1>7
  <2>2. BankFollows(n2, Held([cur EXCEPT ![w] = c], [left EXCEPT ![w] = l2]))'
    BY <1>8, <1>12, <1>15
  <2> QED BY <1>3, <1>7, <1>13, <1>14, <1>16, <2>1, <2>2, FollowBuild
<1>18. left2 \in [Worker -> Nat]
  BY <1>1, <1>8
<1>19. Follows(n2, cur, left2, r)'
  BY <1>8, <1>15, <1>17
<1> QED BY <1>7, <1>18, <1>19

-----------------------------------------------------------------------------
(***************************************************************************)
(* Logging.  The next entry to pass on is the first that is held back.     *)
(***************************************************************************)
LEMMA HeadFact ==
  ASSUME Shape, LogInv, NEW w \in Worker, pc[w] \in Commanding \ {"repPost"},
         NEW n, NEW c, NEW l, NEW r, WorkerFollows(w, n, c, l, r)
  PROVE  /\ l = Len(entries[w]) /\ l > 0 /\ l <= Len(EntriesOf(c))
         /\ Head(entries[w]) = EntriesOf(c)[Len(EntriesOf(c)) - l + 1]
         /\ c \in CommandId \ Failing /\ InPeriod(c[2], r) /\ c[2] < n[c[1]]
<1>1. l = Len(entries[w]) /\ Ending(entries[w], c)
  BY DEF WorkerFollows, LeftOf
<1>2. PICK e : e = entries[w]
  OBVIOUS
<1>3. e \in Seq(LogRecord) /\ e # << >>
  BY <1>2 DEF Shape, LogInv, LogLocal, Commanding
<1>4. Head(e) = e[1] /\ Len(e) > 0 /\ 1 \in 1 .. Len(e)
  BY <1>3
<1>5. e[1] = EntriesOf(c)[Len(EntriesOf(c)) - Len(e) + 1]
  BY <1>1, <1>2, <1>4 DEF Ending
<1> QED BY <1>1, <1>2, <1>4, <1>5 DEF WorkerFollows, Ending

LEMMA NotTaken ==
  ASSUME DriverInv, NEW w \in Worker, pc[w] \in Commanding, NEW r, ReportsFollow(r)
  PROVE  numReports = Made(r)
<1>1. \A v \in Worker : ~At(v, "reset")
  <2>1. ASSUME NEW v \in Worker, At(v, "reset") PROVE FALSE
    <3>1. pc[v] \in Counting /\ v # w
      BY <2>1 DEF Counting, Reporting, Commanding, Logging
    <3>2. Waits(w)
      BY <3>1 DEF DriverInv, BarrierInv, BarrierLocal
    <3> QED BY <3>2 DEF Waits, Commanding, Logging
  <2> QED BY <2>1
<1> QED BY <1>1 DEF ReportsFollow, Taken

(***************************************************************************)
(* The steps of Report_Transfer that put nothing into a log.               *)
(***************************************************************************)
LEMMA PostEnding ==
  ASSUME NEW e \in Seq(LogRecord), e # << >>, NEW c, Ending(e, c), Len(EntriesOf(c)) \in Nat
  PROVE  /\ Ending(Tail(e), c) /\ Len(Tail(e)) = Len(e) - 1 /\ Len(e) \in Nat \ {0}
<1> DEFINE t == Tail(e)
           k == Len(e)
           m == Len(EntriesOf(c))
<1>1. k \in Nat \ {0} /\ Len(t) = k - 1 /\ \A i \in 1 .. k - 1 : t[i] = e[i + 1]
  OBVIOUS
<1>2. k <= m /\ m \in Nat /\ \A i \in 1 .. k : e[i] = EntriesOf(c)[m - k + i]
  BY DEF Ending
<1> HIDE DEF t, k, m
<1>3. ASSUME NEW i \in 1 .. Len(t) PROVE t[i] = EntriesOf(c)[m - Len(t) + i]
  <2>1. i \in 1 .. k - 1 /\ i + 1 \in 1 .. k /\ m - Len(t) + i = m - k + (i + 1)
    BY <1>1, <1>2
  <2> QED BY <1>1, <1>2, <2>1
<1>4. Len(t) <= m
  BY <1>1, <1>2
<1> QED BY <1>1, <1>3, <1>4 DEF Ending, t, k, m

LEMMA LogPasses ==
  ASSUME DriverInv, NEW w \in Worker, NEW n, NEW c, NEW l, NEW r \in Nat, ReportsFollow(r),
         WorkerFollows(w, n, c, l, r),
         \/ RepWait(w) \/ RepPost(w)
         \/ (LogPeriod(w) \/ LogEntry(w)) /\ pc'[w] # "repPost"
  PROVE  WorkerFollows(w, n, c, l, r)' /\ balance' = balance /\ daily' = daily
<1> USE DEF bank, generator, local
<1>0. Shape /\ LogInv
  BY DEF DriverInv
<1>1. pc[w] \in Commanding /\ drawn' = drawn /\ balance' = balance /\ pc'[w] # "command"
  BY <1>0 DEF RepWait, RepPost, LogPeriod, LogEntry, Commanding, Logging, Shape
<1>2. /\ c[1] \in OwnOf(w) /\ l = LeftOf(w) /\ Ending(entries[w], c)
      /\ c \in CommandId \ Failing /\ InPeriod(c[2], r) /\ c[2] < n[c[1]]
      /\ \A s \in OwnOf(w) : drawn'[s] = n[s] + Started(w, c, s)'
  <2>1. \A s : Started(w, c, s) = 0 /\ Started(w, c, s)' = 0
    BY <1>1 DEF Started, Commanding, Logging
  <2> QED BY <1>1, <2>1 DEF WorkerFollows
<1>3. CASE RepWait(w)
  <2>1. pc[w] = "log" /\ pc'[w] = "logPeriod" /\ entries' = entries /\ daily' = daily
    BY <1>0, <1>3 DEF RepWait, Shape
  <2>2. LeftOf(w)' = LeftOf(w)
    BY <2>1 DEF LeftOf, Commanding, Logging
  <2> QED BY <1>1, <1>2, <2>1, <2>2 DEF WorkerFollows
<1>4. CASE LogPeriod(w) /\ pc'[w] # "repPost"
  <2>1. /\ pc[w] = "logPeriod" /\ pc'[w] = "logEntry" /\ entries' = entries /\ daily' = daily
        /\ ~IsSmall(Head(entries[w])) /\ ~(numReports >= MaxReports)
        /\ period'[w] = numReports
    BY <1>0, <1>4 DEF LogPeriod, Shape
  <2>2. LeftOf(w)' = LeftOf(w)
    BY <2>1 DEF LeftOf, Commanding, Logging
  <2>3. numReports = r /\ r < MaxReports
    <3>1. numReports = Made(r)
      BY <1>1, NotTaken
    <3>2. numReports < MaxReports
      BY <1>0, <2>1, DriverAssumption DEF Shape
    <3> QED BY <3>1, <3>2, MadeFact
  <2> QED BY <1>1, <1>2, <2>1, <2>2, <2>3 DEF WorkerFollows
<1>5. CASE LogEntry(w) /\ pc'[w] # "repPost"
  <2>1. /\ pc[w] = "logEntry" /\ pc'[w] = "logStore" /\ entries' = entries /\ daily' = daily
        /\ period' = period
    BY <1>0, <1>5 DEF LogEntry, Shape
  <2>2. LeftOf(w)' = LeftOf(w)
    BY <2>1 DEF LeftOf, Commanding, Logging
  <2>3. ~IsSmall(Head(entries[w])) /\ period[w] = r /\ r < MaxReports
    BY <2>1 DEF WorkerFollows
  <2> QED BY <1>1, <1>2, <2>1, <2>2, <2>3 DEF WorkerFollows
<1>6. CASE RepPost(w)
  <2>1. /\ pc[w] = "repPost" /\ pc'[w] = IF Len(entries[w]) > 1 THEN "log" ELSE "next"
        /\ entries'[w] = Tail(entries[w]) /\ daily' = daily
    BY <1>0, <1>6 DEF RepPost, Shape
  <2>2. entries[w] \in Seq(LogRecord) /\ entries[w] # << >>
    BY <1>0, <2>1 DEF Shape, LogInv, LogLocal, Logging
  <2>3. Len(EntriesOf(c)) \in Nat
    <3>1. CommandOf(c) \in Command
      BY <1>2, IdFact
    <3>2. Len(Entries(CommandOf(c))) \in {0, 1, 2}
      BY <3>1, EntriesSize
    <3> QED BY <3>2 DEF EntriesOf
  <2>4. /\ Ending(Tail(entries[w]), c) /\ Len(Tail(entries[w])) = Len(entries[w]) - 1
        /\ Len(entries[w]) \in Nat \ {0}
    BY <1>2, <2>2, <2>3, PostEnding
  <2>5. l = Len(entries[w]) - 1
    BY <1>2, <2>1 DEF LeftOf, Commanding, Logging
  <2>6. CASE Len(entries[w]) > 1
    <3>1. LeftOf(w)' = l /\ pc'[w] = "log"
      BY <2>1, <2>4, <2>5, <2>6 DEF LeftOf, Commanding, Logging
    <3> QED BY <1>1, <1>2, <2>1, <2>4, <3>1 DEF WorkerFollows
  <2>7. CASE ~(Len(entries[w]) > 1)
    <3>1. pc'[w] = "next" /\ l = 0
      <4>1. Len(entries[w]) = 1
        <5> DEFINE k == Len(entries[w])
        <5>1. k \in Nat \ {0} /\ ~(k > 1)
          BY <2>4, <2>7
        <5> HIDE DEF k
        <5>2. k = 1
          BY <5>1
        <5> QED BY <5>2 DEF k
      <4>2. l = 0
        <5>1. l = 1 - 1
          BY <2>5, <4>1
        <5> QED BY <5>1
      <4>3. pc'[w] = "next"
        BY <2>1, <2>7
      <4> QED BY <4>2, <4>3
    <3>2. LeftOf(w)' = 0
      BY <3>1 DEF LeftOf, Commanding, Logging
    <3> QED BY <1>1, <1>2, <2>1, <3>1, <3>2 DEF WorkerFollows, Commanding, Logging
  <2> QED BY <1>1, <2>1, <2>6, <2>7
<1> QED BY <1>1, <1>3, <1>4, <1>5, <1>6

LEMMA FollowPasses ==
  ASSUME DriverInv, NEW w \in Worker, Step(w),
         NEW n, NEW cur, NEW left, NEW r, Follows(n, cur, left, r),
         \/ RepWait(w) \/ RepPost(w)
         \/ (LogPeriod(w) \/ LogEntry(w)) /\ pc'[w] # "repPost"
  PROVE  Follows(n, cur, left, r)'
<1>1. /\ WorkerFollows(w, n, cur[w], left[w], r) /\ r \in Nat /\ ReportsFollow(r)
      /\ BankFollows(n, Held(cur, left))
  BY DEF Follows, RoundOf
<1>2. WorkerFollows(w, n, cur[w], left[w], r)' /\ balance' = balance /\ daily' = daily
  BY <1>1, LogPasses
<1>3. BankFollows(n, Held(cur, left))'
  BY <1>1, <1>2 DEF BankFollows, LogsHold
<1>4. ~Reports(w) /\ ~ResetCount(w)
  BY DEF RepWait, RepPost, LogPeriod, LogEntry,
         Reports, ReportFull, ReportBalance, CountReport, ResetCount
<1>5. ReportsFollow(r)'
  BY <1>1, <1>4, ReportsKept
<1> QED BY <1>2, <1>3, <1>4, <1>5, FollowSame

(***************************************************************************)
(* The steps that are through with an entry: it is small, or no report is  *)
(* left, or the log of its period has it, or has overflowed.               *)
(***************************************************************************)
LEMMA EntryLogged ==
  ASSUME DriverInv, NEW w \in Worker, LogPeriod(w) \/ LogEntry(w) \/ LogStore(w),
         pc'[w] = "repPost",
         NEW n, NEW c, NEW l, NEW r \in Nat, WorkerFollows(w, n, c, l, r), ReportsFollow(r),
         NEW hold, LogsHold(daily, n, hold),
         NEW it, it = <<c, Len(EntriesOf(c)) - l + 1>>,
         NEW next, \A p \in Period : Gives(n, hold, next, it, r, p),
         EntryOf(it) \in LogRecord
  PROVE  LogsHold(daily', n, next)
<1>0. Shape /\ LogInv /\ pc[w] \in Commanding \ {"repPost"}
  BY DEF DriverInv, LogPeriod, LogEntry, LogStore, Commanding, Logging
<1>1. Head(entries[w]) = EntryOf(it)
  <2>1. Head(entries[w]) = EntriesOf(c)[Len(EntriesOf(c)) - l + 1]
    BY <1>0, HeadFact
  <2> QED BY <2>1 DEF EntryOf
<1>2. \A p \in Period : LogHolds(daily[p], Passed(n, hold, p))
  BY DEF LogsHold
<1>3. daily \in [Period -> Report]
  BY <1>0 DEF Shape
<1>4. CASE LogPeriod(w)
  <2>1. daily' = daily /\ (IsSmall(EntryOf(it)) \/ numReports >= MaxReports)
    BY <1>0, <1>1, <1>4 DEF LogPeriod, Shape, bank
  <2>2. ASSUME NEW p \in Period PROVE p # r \/ IsSmall(EntryOf(it))
    <3>1. ASSUME numReports >= MaxReports PROVE p # r
      <4>1. numReports = Made(r)
        BY <1>0, NotTaken
      <4>2. p = r => Made(r) = r /\ r < MaxReports
        BY DriverAssumption DEF Made, Period
      <4>3. r < MaxReports => ~(r >= MaxReports)
        BY DriverAssumption
      <4> QED BY <3>1, <4>1, <4>2, <4>3
    <3> QED BY <2>1, <3>1
  <2>3. \A p \in Period : Passed(n, next, p) = Passed(n, hold, p)
    BY <2>2 DEF Gives
  <2> QED BY <1>2, <2>1, <2>3 DEF LogsHold
<1>5. ASSUME LogEntry(w) \/ LogStore(w)
      PROVE  ~IsSmall(EntryOf(it)) /\ period[w] = r /\ r \in Period
  <2>1. pc[w] \in {"logEntry", "logStore"}
    BY <1>5 DEF LogEntry, LogStore
  <2> QED BY <1>1, <2>1, DriverAssumption DEF WorkerFollows, Period
<1>6. ASSUME NEW d, d \in Report, daily' = [daily EXCEPT ![r] = d], r \in Period,
             ~IsSmall(EntryOf(it)), LogHolds(d, Passed(n, hold, r) \cup {it})
      PROVE  LogsHold(daily', n, next)
  <2>1. ASSUME NEW p \in Period PROVE LogHolds(daily'[p], Passed(n, next, p))
    <3>1. CASE p = r
      <4>1. Passed(n, next, p) = Passed(n, hold, p) \cup {it}
        BY <1>6, <3>1 DEF Gives
      <4>2. daily'[p] = d
        BY <1>3, <1>6, <3>1
      <4> QED BY <1>6, <3>1, <4>1, <4>2
    <3>2. CASE p # r
      <4>1. Passed(n, next, p) = Passed(n, hold, p)
        BY <3>2 DEF Gives
      <4>2. daily'[p] = daily[p]
        BY <1>3, <1>6, <3>2
      <4> QED BY <1>2, <4>1, <4>2
    <3> QED BY <3>1, <3>2
  <2> QED BY <2>1 DEF LogsHold
<1>7. ASSUME r \in Period, ~IsSmall(EntryOf(it))
      PROVE  /\ daily[r] \in Report /\ LogHolds(daily[r], Passed(n, hold, r))
             /\ IsFiniteSet(Passed(n, hold, r)) /\ it \notin Passed(n, hold, r)
  BY <1>2, <1>3, <1>7, PassedFinite DEF Gives
<1>8. CASE LogEntry(w)
  <2>1. /\ daily[r].numLogEntries >= MaxLogEntries
        /\ daily' = [daily EXCEPT ![r].hasOverflowed = TRUE]
    BY <1>0, <1>5, <1>8 DEF LogEntry, Shape
  <2>2. PICK d : d = [daily[r] EXCEPT !.hasOverflowed = TRUE]
    OBVIOUS
  <2>3. daily' = [daily EXCEPT ![r] = d]
    BY <2>1, <2>2
  <2>4. d \in Report
    BY <1>5, <1>7, <1>8, <2>2 DEF Report
  <2>5. LogHolds(d, Passed(n, hold, r) \cup {it})
    BY <1>5, <1>7, <1>8, <2>1, <2>2, LogOverflow
  <2> QED BY <1>5, <1>6, <1>8, <2>3, <2>4, <2>5
<1>9. CASE LogStore(w)
  <2>1. /\ reg[w] = daily[r].numLogEntries /\ reg[w] < MaxLogEntries
        /\ daily' = [daily EXCEPT ![r] = Logged(@, reg[w], EntryOf(it))]
    BY <1>0, <1>1, <1>5, <1>9 DEF LogStore, LogInv, LogLocal
  <2>2. PICK d : d = Logged(daily[r], daily[r].numLogEntries, EntryOf(it))
    OBVIOUS
  <2>3. daily' = [daily EXCEPT ![r] = d]
    BY <2>1, <2>2
  <2>4. d \in Report
    <3>1. daily[r].numLogEntries \in 0 .. MaxLogEntries - 1
      <4>1. daily[r].numLogEntries \in 0 .. MaxLogEntries
        BY <1>5, <1>7, <1>9 DEF Report
      <4> QED BY <2>1, <4>1, DriverAssumption
    <3> QED BY <1>5, <1>7, <1>9, <2>2, <3>1, LoggedType
  <2>5. LogHolds(d, Passed(n, hold, r) \cup {it})
    BY <1>5, <1>7, <1>9, <2>1, <2>2, LogAppend
  <2> QED BY <1>5, <1>6, <1>9, <2>3, <2>4, <2>5
<1> QED BY <1>4, <1>8, <1>9

LEMMA FollowGives ==
  ASSUME DriverInv, NEW w \in Worker, Step(w),
         NEW n, NEW cur, NEW left, NEW r, Follows(n, cur, left, r),
         LogPeriod(w) \/ LogEntry(w) \/ LogStore(w), pc'[w] = "repPost"
  PROVE  \E left2 \in [Worker -> Nat] : Follows(n, cur, left2, r)'
<1>0. /\ Shape /\ LogInv /\ r \in Nat /\ Ghosts(n, cur, left)
      /\ WorkerFollows(w, n, cur[w], left[w], r) /\ BankFollows(n, Held(cur, left))
      /\ ReportsFollow(r) /\ pc[w] \in Commanding \ {"repPost"}
  BY DEF DriverInv, Follows, RoundOf, LogPeriod, LogEntry, LogStore, Commanding, Logging
<1>1. n \in [Stream -> Nat] /\ cur \in [Worker -> Stream \X Nat] /\ left \in [Worker -> Nat]
  BY <1>0 DEF Ghosts
<1>2. PICK c, l : c = cur[w] /\ l = left[w]
  OBVIOUS
<1>3. /\ l = Len(entries[w]) /\ l > 0 /\ l <= Len(EntriesOf(c))
      /\ c \in CommandId \ Failing /\ InPeriod(c[2], r) /\ c[2] < n[c[1]]
  BY <1>0, <1>2, HeadFact
<1>4. PICK it : it = <<c, Len(EntriesOf(c)) - l + 1>>
  OBVIOUS
<1>5. PICK left2 : left2 = [left EXCEPT ![w] = l - 1]
  OBVIOUS
<1>6. /\ it \in Item /\ it \in Held(cur, left) /\ it[1] = c
      /\ it[2] <= Len(EntriesOf(c)) /\ l - 1 \in Nat
      /\ Without(Held(cur, left2), Held(cur, left), it)
  <2>1. \A v \in Worker : v # w => cur[v] # cur[w]
    BY Apart
  <2>2. cur[w] \in CommandId /\ left[w] > 0 /\ left[w] <= Len(EntriesOf(cur[w]))
    BY <1>2, <1>3
  <2>3. it = <<cur[w], Len(EntriesOf(cur[w])) - left[w] + 1>>
    BY <1>2, <1>4
  <2>4. /\ it \in Item /\ it \in Held(cur, left) /\ it[1] = cur[w]
        /\ it[2] <= Len(EntriesOf(cur[w])) /\ left[w] - 1 \in Nat
        /\ Without(Held(cur, [left EXCEPT ![w] = left[w] - 1]), Held(cur, left), it)
    BY <1>1, <2>1, <2>2, <2>3, HeldGive
  <2> QED BY <1>2, <1>5, <2>4
<1>7. Passable(it, n, Held(cur, left), r)
  BY <1>3, <1>6 DEF Passable
<1>8. \A p \in Period : Gives(n, Held(cur, left), Held(cur, left2), it, r, p)
  BY <1>0, <1>6, <1>7, GiveItem
<1>9. EntryOf(it) \in LogRecord
  BY <1>6, ItemFact
<1>10. LogsHold(daily', n, Held(cur, left2))
  BY <1>0, <1>2, <1>4, <1>8, <1>9, EntryLogged DEF BankFollows
<1>11. balance' = balance
  BY DEF LogPeriod, LogEntry, LogStore, bank
<1>12. BankFollows(n, Held(cur, left2))'
  BY <1>0, <1>10, <1>11 DEF BankFollows, LogsHold
<1>13. WorkerFollows(w, n, c, l - 1, r)'
  <2>1. entries' = entries /\ drawn' = drawn /\ pc[w] # "command"
    BY <1>0 DEF LogPeriod, LogEntry, LogStore, generator, local, Commanding, Logging
  <2>2. LeftOf(w)' = l - 1
    BY <1>3, <2>1 DEF LeftOf, Commanding, Logging
  <2>3. \A s : Started(w, c, s) = 0 /\ Started(w, c, s)' = 0
    BY <2>1 DEF Started
  <2>4. /\ c[1] \in OwnOf(w) /\ Ending(entries[w], c)
        /\ \A s \in OwnOf(w) : drawn[s] = n[s] + Started(w, c, s)
    BY <1>0, <1>2 DEF WorkerFollows
  <2> QED BY <1>3, <2>1, <2>2, <2>3, <2>4 DEF WorkerFollows
<1>14. ~Reports(w) /\ ~ResetCount(w)
  BY DEF LogPeriod, LogEntry, LogStore,
         Reports, ReportFull, ReportBalance, CountReport, ResetCount
<1>15. ReportsFollow(r)'
  BY <1>0, <1>14, ReportsKept
<1>16. [cur EXCEPT ![w] = c] = cur
  BY <1>1, <1>2
<1>17. Follows(n, [cur EXCEPT ![w] = c], [left EXCEPT ![w] = l - 1], r)'
  <2>1. c \in Stream \X Nat
    BY <1>1, <1>2
  <2>2. BankFollows(n, Held([cur EXCEPT ![w] = c], [left EXCEPT ![w] = l - 1]))'
    BY <1>5, <1>12, <1>16
  <2> QED BY <1>1, <1>6, <1>13, <1>14, <1>15, <2>1, <2>2, FollowBuild
<1>18. left2 \in [Worker -> Nat]
  BY <1>1, <1>5, <1>6
<1>19. Follows(n, cur, left2, r)'
  BY <1>5, <1>16, <1>17
<1> QED BY <1>18, <1>19

-----------------------------------------------------------------------------
CompareInv ==
  \E n \in [Stream -> Nat], cur \in [Worker -> Stream \X Nat], left \in [Worker -> Nat],
     r \in Nat : Follows(n, cur, left, r)

LEMMA InitFollows == Init => CompareInv
<1> SUFFICES ASSUME Init PROVE CompareInv
  OBVIOUS
<1>1. PICK cur : cur = [w \in Worker |-> <<OwnStream(w, 0), 0>>]
  OBVIOUS
<1>2. PICK left : left = [w \in Worker |-> 0]
  OBVIOUS
<1>3. ASSUME NEW w \in Worker PROVE OwnStream(w, 0) \in OwnOf(w) /\ OwnStream(w, 0) \in Stream
  <2>1. 0 \in 0 .. StreamsEach - 1
    BY Sizes
  <2>2. OwnStream(w, 0) \in OwnOf(w)
    BY <2>1 DEF OwnOf
  <2> QED BY <2>2, OwnFact
<1>4. /\ cur \in [Worker -> Stream \X Nat] /\ left \in [Worker -> Nat]
      /\ All(0) \in [Stream -> Nat]
  BY <1>1, <1>2, <1>3 DEF All
<1>5. ASSUME NEW w \in Worker PROVE WorkerFollows(w, All(0), cur[w], left[w], 0)
  <2>1. pc[w] = "next" /\ \A s \in Stream : drawn[s] = 0
    BY DEF Init
  <2>2. LeftOf(w) = 0 /\ \A s : Started(w, cur[w], s) = 0
    BY <2>1 DEF LeftOf, Started, Commanding, Logging
  <2>3. cur[w][1] \in OwnOf(w) /\ left[w] = 0
    BY <1>1, <1>2, <1>3
  <2>4. \A s \in OwnOf(w) : drawn[s] = All(0)[s] + Started(w, cur[w], s)
    <3>1. \A s \in OwnOf(w) : s \in Stream
      BY OwnFact
    <3> QED BY <2>1, <2>2, <3>1 DEF All
  <2> QED BY <2>1, <2>2, <2>3, <2>4 DEF WorkerFollows, Commanding, Logging
<1>6. BankFollows(All(0), Held(cur, left))
  <2>1. RunHolds(RunStart, 0, All(0), Held(cur, left))
    BY StartHolds
  <2>2. RunStart.balance = balance /\ RunStart.daily = daily
    BY DEF Init, RunStart
  <2> QED BY <2>1, <2>2 DEF RunHolds, BankFollows
<1>7. ReportsFollow(0)
  <2>1. \A w \in Worker : ~At(w, "reset") /\ ~At(w, "countReport")
    BY DEF Init
  <2>2. numReports = 0 /\ Made(0) = 0
    BY DriverAssumption DEF Init, Made
  <2>3. \A p \in Period : ~(p < 0)
    BY DEF Period
  <2> QED BY <2>1, <2>2, <2>3 DEF ReportsFollow, Taken
<1>8. Follows(All(0), cur, left, 0)
  BY <1>4, <1>5, <1>6, <1>7, RoundInit DEF Follows, Ghosts
<1>9. 0 \in Nat
  OBVIOUS
<1> QED BY <1>4, <1>8, <1>9 DEF CompareInv

LEMMA NextFollows ==
  ASSUME FailuresFixed(Failing), DriverInv, CompareInv, NEW w \in Worker, Step(w)
  PROVE  CompareInv'
<1>1. PICK n \in [Stream -> Nat], cur \in [Worker -> Stream \X Nat], left \in [Worker -> Nat],
           r \in Nat : Follows(n, cur, left, r)
  BY DEF CompareInv
<1>2. CASE Reports(w)
  <2>1. PICK r2 \in Nat : Follows(n, cur, left, r2)'
    BY <1>1, <1>2, FollowReports
  <2> QED BY <2>1 DEF CompareInv
<1>3. CASE Moves(w) /\ ~Reports(w)
  <2>1. Follows(n, cur, left, r)'
    BY <1>1, <1>3, FollowMoves
  <2> QED BY <2>1 DEF CompareInv
<1>4. CASE Draw(w)
  <2>1. PICK cur2 \in [Worker -> Stream \X Nat] : Follows(n, cur2, left, r)'
    BY <1>1, <1>4, FollowDraw
  <2> QED BY <2>1 DEF CompareInv
<1>5. CASE Execute(w)
  <2>1. PICK n2 \in [Stream -> Nat], left2 \in [Worker -> Nat] : Follows(n2, cur, left2, r)'
    BY <1>1, <1>5, FollowExecute
  <2> QED BY <2>1 DEF CompareInv
<1>6. CASE RepWait(w) \/ RepPost(w) \/ ((LogPeriod(w) \/ LogEntry(w)) /\ pc'[w] # "repPost")
  <2>1. Follows(n, cur, left, r)'
    BY <1>1, <1>6, FollowPasses
  <2> QED BY <2>1 DEF CompareInv
<1>7. CASE (LogPeriod(w) \/ LogEntry(w) \/ LogStore(w)) /\ pc'[w] = "repPost"
  <2>1. PICK left2 \in [Worker -> Nat] : Follows(n, cur, left2, r)'
    BY <1>1, <1>7, FollowGives
  <2> QED BY <2>1 DEF CompareInv
<1>8. LogStore(w) => pc'[w] = "repPost"
  BY DEF LogStore, DriverInv, Shape
<1> QED BY <1>2, <1>3, <1>4, <1>5, <1>6, <1>7, <1>8, StepSorts

LEMMA StutterFollows == ASSUME CompareInv, UNCHANGED vars PROVE CompareInv'
<1> USE DEF vars, generator, bank, barrier, local
<1>1. PICK n \in [Stream -> Nat], cur \in [Worker -> Stream \X Nat], left \in [Worker -> Nat],
           r \in Nat : Follows(n, cur, left, r)
  BY DEF CompareInv
<1>2. ASSUME NEW w \in Worker PROVE WorkerFollows(w, n, cur[w], left[w], r)'
  <2>1. LeftOf(w)' = LeftOf(w) /\ \A s : Started(w, cur[w], s)' = Started(w, cur[w], s)
    BY DEF LeftOf, Started
  <2>2. WorkerFollows(w, n, cur[w], left[w], r)
    BY <1>1 DEF Follows
  <2> QED BY <2>1, <2>2 DEF WorkerFollows
<1>3. BankFollows(n, Held(cur, left))'
  BY <1>1 DEF Follows, BankFollows, LogsHold
<1>4. ReportsFollow(r)'
  <2>1. Taken(r)' = Taken(r)
    BY DEF Taken
  <2> QED BY <1>1, <2>1 DEF Follows, ReportsFollow
<1>5. RoundOf(r)'
  <2>1. ASSUME NEW v \in Worker PROVE RoundLocal(v, r)'
    <3>1. Counted(v)' <=> Counted(v)
      BY DEF Counted, Pending
    <3>2. (CheckedIn(v)' <=> CheckedIn(v)) /\ Drawing(v)' = Drawing(v)
      BY <3>1 DEF CheckedIn, Drawing
    <3>3. Base(v)' = Base(v)
      BY <3>2 DEF Base
    <3>4. RoundLocal(v, r)
      BY <1>1 DEF Follows, RoundOf
    <3> QED BY <3>2, <3>3, <3>4 DEF RoundLocal
  <2> QED BY <1>1, <2>1 DEF Follows, RoundOf
<1>6. Follows(n, cur, left, r)'
  BY <1>1, <1>2, <1>3, <1>4, <1>5 DEF Follows, Ghosts
<1> QED BY <1>6 DEF CompareInv

(***************************************************************************)
(* When all are done the last round is over and nothing is held back.      *)
(***************************************************************************)
LEMMA DoneFollows ==
  ASSUME DriverInv, CompareInv, Done
  PROVE  RunHolds([balance |-> balance, numReports |-> numReports, daily |-> daily],
                  FinalRound, All(4 * PerPeriod), {})
<1>1. PICK n \in [Stream -> Nat], cur \in [Worker -> Stream \X Nat], left \in [Worker -> Nat],
           r \in Nat : Follows(n, cur, left, r)
  BY DEF CompareInv
<1>0. /\ Shape /\ SeedInv /\ RoundInv /\ RoundOf(r) /\ ReportsFollow(r)
      /\ BankFollows(n, Held(cur, left)) /\ \A w \in Worker : At(w, "done")
  BY <1>1 DEF DriverInv, Follows, Done
<1>2. 0 \in Worker
  BY Sizes DEF Worker
<1>3. r = FinalRound
  <2> DEFINE x == PerPeriod
             d == PerReport(NumWorkers)
             b == Base(0)
  <2>1. /\ r \in 0 .. 3 /\ (x = 0 => r = 0) /\ b + (r + 1) * d = PerWorker(NumWorkers)
        /\ b <= cmdCount[0] /\ cmdCount[0] = 0
    BY <1>0, <1>2 DEF RoundOf, RoundLocal
  <2>2. d \in Nat /\ PerWorker(NumWorkers) = 4 * d /\ (d = 0 <=> x = 0)
    BY ReportSize
  <2>3. b \in Int
    <3>1. nextReport[0] \in Int
      BY <1>0, <1>2 DEF Shape
    <3> QED BY <2>2, <3>1 DEF Base
  <2> HIDE DEF x, d, b
  <2>4. x # 0 => r = 3
    <3>1. r \in {0, 1, 2, 3}
      BY <2>1
    <3>2. CASE r = 0
      BY <2>1, <2>2, <2>3, <3>2
    <3>3. CASE r = 1
      BY <2>1, <2>2, <2>3, <3>3
    <3>4. CASE r = 2
      BY <2>1, <2>2, <2>3, <3>4
    <3> QED BY <3>1, <3>2, <3>3, <3>4
  <2> QED BY <2>1, <2>4 DEF FinalRound, x
<1>4. n = All(4 * PerPeriod)
  <2>1. ASSUME NEW s \in Stream PROVE n[s] = 4 * PerPeriod
    <3>1. PICK v \in Worker : s \in OwnOf(v)
      BY OwnFact
    <3>2. PICK j \in 0 .. StreamsEach - 1 : s = OwnStream(v, j)
      BY <3>1 DEF OwnOf
    <3>3. drawn[s] = 4 * PerPeriod
      BY <1>0, <3>2, RoundDrawn
    <3>4. drawn[s] = n[s] + 0
      BY <1>0, <1>1, <3>1 DEF Follows, WorkerFollows, Started
    <3>5. n[s] \in Nat
      BY <1>1
    <3> QED BY <3>3, <3>4, <3>5
  <2>2. n = [s \in Stream |-> n[s]]
    BY <1>1
  <2> QED BY <2>1, <2>2 DEF All
<1>5. \A w \in Worker : left[w] = 0
  BY <1>0, <1>1 DEF Follows, WorkerFollows, LeftOf, Commanding, Logging
<1>6. Held(cur, left) = {}
  <2>1. ASSUME NEW it \in Held(cur, left) PROVE FALSE
    <3>1. PICK w \in Worker : /\ it \in Item /\ it[1] = cur[w]
                              /\ it[2] <= Len(EntriesOf(cur[w]))
                              /\ it[2] + left[w] > Len(EntriesOf(cur[w]))
      BY <2>1 DEF Held
    <3>2. it[2] \in 1 .. 2 /\ it[1] \in CommandId
      BY <3>1 DEF Item
    <3>3. Len(EntriesOf(cur[w])) \in {0, 1, 2}
      <4>1. CommandOf(cur[w]) \in Command
        BY <3>1, <3>2, IdFact
      <4> QED BY <4>1, EntriesSize DEF EntriesOf
    <3> QED BY <1>5, <3>1, <3>2, <3>3
  <2> QED BY <2>1
<1>7. numReports = Made(r)
  BY <1>0 DEF ReportsFollow, Taken
<1> DEFINE run == [balance |-> balance, numReports |-> numReports, daily |-> daily]
<1>8. run.balance = balance /\ run.numReports = numReports /\ run.daily = daily
  OBVIOUS
<1>9. run \in [balance : [Account -> Int], numReports : 0 .. MaxReports,
               daily : [Period -> Report]]
  BY <1>0 DEF Shape
<1> HIDE DEF run
<1>10. RunHolds(run, FinalRound, All(4 * PerPeriod), {})
  BY <1>0, <1>3, <1>4, <1>6, <1>7, <1>8, <1>9 DEF RunHolds, BankFollows, ReportsFollow
<1> QED BY <1>10 DEF run

LEMMA RunsCompare ==
  ASSUME NEW run1, NEW run2, NEW made, NEW n, RunHolds(run1, made, n, {}),
         RunHolds(run2, made, n, {})
  PROVE  /\ run2.balance = run1.balance
         /\ ReportCompare(run1.numReports, run1.daily, run2.numReports, run2.daily)
<1>1. run2.balance = run1.balance /\ run1.numReports = run2.numReports
  BY DEF RunHolds
<1>2. /\ run1.daily \in [Period -> Report] /\ run2.daily \in [Period -> Report]
      /\ run1.numReports \in 0 .. MaxReports
  BY DEF RunHolds
<1>3. ASSUME NEW p \in 0 .. run1.numReports - 1
      PROVE  /\ run1.daily[p].balance = run2.daily[p].balance
             /\ run1.daily[p].numLogEntries = run2.daily[p].numLogEntries
             /\ ~run1.daily[p].hasOverflowed =>
                  SameEntries(run1.daily[p].transferLog, run2.daily[p].transferLog,
                              run1.daily[p].numLogEntries)
  <2>1. p \in Period /\ p < run1.numReports /\ p < run2.numReports
    BY <1>1, <1>2, DriverAssumption DEF Period
  <2>2. run1.daily[p].balance = run2.daily[p].balance
    BY <2>1 DEF RunHolds
  <2>3. PICK S : S = Passed(n, {}, p)
    OBVIOUS
  <2>4. LogHolds(run1.daily[p], S) /\ LogHolds(run2.daily[p], S)
    BY <2>1, <2>3 DEF RunHolds, LogsHold
  <2>5. IsFiniteSet(S)
    BY <2>3, PassedFinite
  <2>6. run1.daily[p] \in Report /\ run2.daily[p] \in Report
    BY <1>2, <2>1
  <2> QED BY <2>2, <2>4, <2>5, <2>6, LogCompare
<1> QED BY <1>1, <1>3 DEF ReportCompare

(***************************************************************************)
(* TestBank's comparison succeeds however the workers interleave, however  *)
(* many they are, however many commands they do, and whatever the size of  *)
(* the log and the number of reports: if the failures do not depend on the *)
(* order of a period's commands.                                           *)
(***************************************************************************)
THEOREM ComparisonSucceeds ==
  ASSUME \E failing \in SUBSET CommandId : FailuresFixed(failing)
  PROVE  Spec => []CompareSucceeds
<1>1. FailuresFixed(Failing)
  BY DEF Failing
<1>2. Init => DriverInv /\ CompareInv
  BY InitDriver, InitFollows
<1>3. DriverInv /\ CompareInv /\ [Next]_vars => (DriverInv /\ CompareInv)'
  <2> SUFFICES ASSUME DriverInv, CompareInv, [Next]_vars PROVE DriverInv' /\ CompareInv'
    OBVIOUS
  <2>1. DriverInv'
    BY NextDriver
  <2>2. CASE \E w \in Worker : Step(w)
    BY <1>1, <2>1, <2>2, NextFollows
  <2>3. CASE UNCHANGED vars
    BY <2>1, <2>3, StutterFollows
  <2> QED BY <2>2, <2>3 DEF Next, Terminating
<1>4. DriverInv /\ CompareInv => CompareSucceeds
  <2> SUFFICES ASSUME DriverInv, CompareInv, Done
               PROVE  /\ balance = SequentialRun.balance
                      /\ ReportCompare(SequentialRun.numReports, SequentialRun.daily,
                                       numReports, daily)
    BY DEF CompareSucceeds
  <2>1. RunHolds(SequentialRun, FinalRound, All(4 * PerPeriod), {})
    BY <1>1, SequentialHolds
  <2> DEFINE run == [balance |-> balance, numReports |-> numReports, daily |-> daily]
  <2>2. RunHolds(run, FinalRound, All(4 * PerPeriod), {})
    BY DoneFollows
  <2>3. run.balance = balance /\ run.numReports = numReports /\ run.daily = daily
    OBVIOUS
  <2> HIDE DEF run
  <2>4. /\ run.balance = SequentialRun.balance
        /\ ReportCompare(SequentialRun.numReports, SequentialRun.daily, run.numReports, run.daily)
    BY <2>1, <2>2, RunsCompare
  <2> QED BY <2>3, <2>4
<1> QED BY <1>2, <1>3, <1>4, PTL DEF Spec
-----------------------------------------------------------------------------
(***************************************************************************)
(* Among subsets of a finite set there is one from which no single element *)
(* can be removed to give another of them.                                 *)
(***************************************************************************)
LEMMA LeastSubset ==
  ASSUME NEW S, IsFiniteSet(S), NEW Bad \in SUBSET (SUBSET S), Bad # {}
  PROVE  \E b \in Bad : \A x \in b : b \ {x} \notin Bad
<1> DEFINE T == {Cardinality(b) : b \in Bad}
<1>1. \A b \in Bad : /\ Cardinality(b) \in Nat
                     /\ \A x \in b : Cardinality(b \ {x}) = Cardinality(b) - 1
  BY SubsetFact
<1>2. T \in SUBSET Nat /\ T # {}
  BY <1>1
<1>3. PICK k \in T : \A m \in T : k <= m
  <2> HIDE DEF T
  <2> QED BY <1>2, LeastNat
<1>4. PICK b \in Bad : k = Cardinality(b)
  OBVIOUS
<1>5. ASSUME NEW x \in b, b \ {x} \in Bad PROVE FALSE
  <2>1. k <= Cardinality(b \ {x})
    BY <1>3, <1>5
  <2>2. Cardinality(b \ {x}) = k - 1 /\ k \in Nat
    BY <1>1, <1>4
  <2> QED BY <2>1, <2>2
<1> QED BY <1>4, <1>5

(***************************************************************************)
(* Two sums, one over part of the other's domain, that make up for each    *)
(* other element by element make up for each other.                        *)
(***************************************************************************)
LEMMA SumsOffset ==
  ASSUME NEW S, IsFiniteSet(S), NEW f \in [S -> Int], NEW g \in [S -> Int],
         \A x \in S : f[x] + g[x] >= 0 /\ g[x] >= 0,
         NEW B \in SUBSET S, NEW A \in SUBSET B
  PROVE  SumFunctionOnSet(f, A) + SumFunctionOnSet(g, B) >= 0
<1> DEFINE Good(a, b) == SumFunctionOnSet(f, a) + SumFunctionOnSet(g, b) >= 0
           Bad == {b \in SUBSET S : \E a \in SUBSET b : ~Good(a, b)}
<1> SUFFICES ASSUME Bad # {} PROVE FALSE
  <2> HIDE DEF Good
  <2>1. B \in Bad \/ Good(A, B)
    OBVIOUS
  <2>2. Good(A, B)
    BY <2>1
  <2> QED BY <2>2 DEF Good
<1> HIDE DEF Good
<1>1. PICK b \in Bad : \A x \in b : b \ {x} \notin Bad
  <2>1. Bad \in SUBSET (SUBSET S)
    OBVIOUS
  <2> HIDE DEF Bad
  <2> QED BY <2>1, LeastSubset
<1>2. PICK a \in SUBSET b : ~Good(a, b)
  OBVIOUS
<1>3. b \in SUBSET S /\ a \in SUBSET S
  OBVIOUS
<1>4. ASSUME NEW x \in b PROVE Good(a \ {x}, b \ {x})
  <2>1. b \ {x} \in SUBSET S /\ a \ {x} \in SUBSET (b \ {x})
    BY <1>3
  <2> QED BY <1>1, <2>1
<1> HIDE DEF Bad
<1>5. b # {}
  <2>1. SumFunctionOnSet(f, {}) = 0 /\ SumFunctionOnSet(g, {}) = 0
    BY SumFact
  <2>2. Good({}, {})
    BY <2>1 DEF Good
  <2> QED BY <1>2, <2>2
<1>6. PICK x : x \in b
  BY <1>5
<1> DEFINE c == a \ {x}
           d == b \ {x}
<1>7. SumFunctionOnSet(f, c) + SumFunctionOnSet(g, d) >= 0
  BY <1>4, <1>6 DEF Good
<1>8. ~(SumFunctionOnSet(f, a) + SumFunctionOnSet(g, b) >= 0)
  BY <1>2 DEF Good
<1>9. /\ SumFunctionOnSet(f, c) \in Int /\ SumFunctionOnSet(g, d) \in Int
      /\ f[x] \in Int /\ g[x] \in Int /\ f[x] + g[x] >= 0 /\ g[x] >= 0
  <2>1. c \in SUBSET S /\ d \in SUBSET S /\ x \in S
    BY <1>3, <1>6
  <2> HIDE DEF c, d
  <2> QED BY <2>1, SumFact
<1>10. SumFunctionOnSet(g, b) = g[x] + SumFunctionOnSet(g, d)
  BY <1>3, <1>6, SumFact
<1>11. CASE x \in a
  <2>1. SumFunctionOnSet(f, a) = f[x] + SumFunctionOnSet(f, c)
    BY <1>3, <1>11, SumFact
  <2> HIDE DEF c, d
  <2> QED BY <1>7, <1>8, <1>9, <1>10, <2>1
<1>12. CASE x \notin a
  <2>1. c = a
    BY <1>12
  <2> HIDE DEF d
  <2>2. SumFunctionOnSet(f, a) \in Int /\ SumFunctionOnSet(f, a) + SumFunctionOnSet(g, d) >= 0
    BY <1>7, <1>9, <2>1
  <2> QED BY <1>8, <1>9, <1>10, <2>2
<1> QED BY <1>11, <1>12

(***************************************************************************)
(* A sum of numbers none of which is positive is not positive.             *)
(***************************************************************************)
LEMMA SumNonPositive ==
  ASSUME NEW S, IsFiniteSet(S), NEW f \in [S -> Int], \A x \in S : f[x] <= 0,
         NEW A \in SUBSET S
  PROVE  SumFunctionOnSet(f, A) <= 0
<1> DEFINE Good(a) == SumFunctionOnSet(f, a) <= 0
           Bad == {a \in SUBSET S : ~Good(a)}
<1> SUFFICES ASSUME Bad # {} PROVE FALSE
  <2> HIDE DEF Good
  <2>1. Good(A)
    OBVIOUS
  <2> QED BY <2>1 DEF Good
<1> HIDE DEF Good
<1>1. PICK a \in Bad : \A x \in a : a \ {x} \notin Bad
  <2>1. Bad \in SUBSET (SUBSET S)
    OBVIOUS
  <2> HIDE DEF Bad
  <2> QED BY <2>1, LeastSubset
<1>2. a \in SUBSET S /\ ~Good(a)
  OBVIOUS
<1>3. ASSUME NEW x \in a PROVE Good(a \ {x})
  BY <1>1, <1>2
<1> HIDE DEF Bad
<1>4. a # {}
  <2>1. SumFunctionOnSet(f, {}) = 0
    BY SumFact
  <2>2. Good({})
    BY <2>1 DEF Good
  <2> QED BY <1>2, <2>2
<1>5. PICK x : x \in a
  BY <1>4
<1> DEFINE c == a \ {x}
<1>6. SumFunctionOnSet(f, c) <= 0 /\ ~(SumFunctionOnSet(f, a) <= 0)
  BY <1>2, <1>3, <1>5 DEF Good
<1>7. SumFunctionOnSet(f, a) = f[x] + SumFunctionOnSet(f, c)
  BY <1>2, <1>5, SumFact
<1>8. SumFunctionOnSet(f, c) \in Int /\ f[x] \in Int /\ f[x] <= 0
  <2>1. c \in SUBSET S /\ x \in S
    BY <1>2, <1>5
  <2> HIDE DEF c
  <2> QED BY <2>1, SumFact
<1> HIDE DEF c
<1> QED BY <1>6, <1>7, <1>8

(***************************************************************************)
(* What a command can take from an account, and when it can only take.     *)
(***************************************************************************)
LEMMA ChangeBound ==
  ASSUME NEW c \in Command, NEW a \in Account
  PROVE  /\ Change(c, a) + (IF Takes(c, a) THEN c.amount ELSE 0) >= 0
         /\ (Receives(c, a) => c.amount = 0) => Change(c, a) <= 0
<1>1. PICK m \in Nat : m = c.amount
  BY DEF Command
<1>2. PICK o \in Op : o = c.op
  BY DEF Command
<1>3. CASE o = "deposit"
  <2>1. Change(c, a) = IF a = c.src THEN m ELSE 0
    BY <1>1, <1>2, <1>3 DEF Change
  <2>2. ~Takes(c, a) /\ (Receives(c, a) <=> a = c.src)
    BY <1>2, <1>3 DEF Takes, Receives
  <2> HIDE DEF Takes, Receives, Change
  <2> QED BY <1>1, <2>1, <2>2
<1>4. CASE o = "withdraw"
  <2>1. Change(c, a) = IF a = c.src THEN -m ELSE 0
    BY <1>1, <1>2, <1>4 DEF Change
  <2>2. Takes(c, a) <=> a = c.src
    BY <1>2, <1>4 DEF Takes, IsSelfTransfer
  <2> QED BY <1>1, <2>1, <2>2
<1>5. CASE o = "transfer" /\ c.src = c.dst
  <2>1. Change(c, a) = 0
    BY <1>1, <1>2, <1>5 DEF Change
  <2>2. ~Takes(c, a)
    BY <1>2, <1>5 DEF Takes, IsSelfTransfer
  <2> QED BY <2>1, <2>2
<1>6. CASE o = "transfer" /\ c.src # c.dst
  <2>1. Change(c, a) = IF a = c.src THEN -m ELSE IF a = c.dst THEN m ELSE 0
    BY <1>1, <1>2, <1>6 DEF Change
  <2>2. (Takes(c, a) <=> a = c.src) /\ (Receives(c, a) <=> a = c.dst)
    BY <1>2, <1>6 DEF Takes, Receives, IsSelfTransfer
  <2> QED BY <1>1, <1>6, <2>1, <2>2
<1>7. CASE o \in {"branchBalance", "bankBalance"}
  <2>1. Change(c, a) = 0
    BY <1>2, <1>7 DEF Change
  <2>2. ~Takes(c, a)
    BY <1>2, <1>7 DEF Takes
  <2> QED BY <2>1, <2>2
<1> QED BY <1>3, <1>4, <1>5, <1>6, <1>7 DEF Op

(***************************************************************************)
(* Where every account starts with all that the run takes from it, or      *)
(* below zero and is given nothing, no failure depends on the order.       *)
(***************************************************************************)
THEOREM SettledFailuresFixed ==
  ASSUME FundsSettled
  PROVE  FailuresFixed(Overdrawing)
<1> DEFINE F == Overdrawing
<1> SUFFICES ASSUME NEW r \in 0 .. 3,
                    NEW n \in [Stream -> r * PerPeriod .. (r + 1) * PerPeriod],
                    NEW s \in Stream, n[s] < (r + 1) * PerPeriod
             PROVE  Refused(BalanceAfter(n, F), Drawn[s][n[s]]) <=> <<s, n[s]>> \in F
  BY DEF FailuresFixed
<1>1. WithinPeriod(n, r)
  BY DEF WithinPeriod
<1>2. PICK id : id = <<s, n[s]>>
  OBVIOUS
<1>3. PICK c : c = CommandOf(id)
  OBVIOUS
<1>4. id \in CommandId /\ Drawn[s][n[s]] = c /\ c \in Command /\ id[1] = s /\ id[2] = n[s]
      /\ n \in [Stream -> Nat]
  BY <1>1, <1>2, <1>3, NextId
<1>5. id \in F <=> \E a \in Account : Takes(c, a) /\ InitialBalance[a] < 0
  BY <1>3, <1>4 DEF Overdrawing
<1>6. Refused(BalanceAfter(n, F), c) <=>
        \E a \in Account : Takes(c, a) /\ c.amount > BalanceAfter(n, F)[a]
  BY <1>4 DEF Refused, Takes, Insufficient, IsTeller, Command
<1>7. ASSUME NEW a \in Account, Takes(c, a)
      PROVE  c.amount > BalanceAfter(n, F)[a] <=> InitialBalance[a] < 0
  <2> DEFINE e == Effect(F, a)
             t == Taking(a)
             done == DoneBefore(n)
             init == InitialBalance[a]
  <2>1. /\ IsFiniteSet(CommandId) /\ e \in [CommandId -> Int] /\ done \in SUBSET CommandId
        /\ c.amount \in Nat /\ init \in Int
        /\ BalanceAfter(n, F)[a] = init + SumFunctionOnSet(e, done)
    BY <1>4, IdFact, EffectFact, BalanceType, InitialAssumption DEF DoneBefore, Command
  <2>2. t \in [CommandId -> Int] /\ t[id] = c.amount
        /\ \A x \in CommandId : t[x] = IF Takes(CommandOf(x), a) THEN CommandOf(x).amount ELSE 0
    <3>1. \A x \in CommandId : CommandOf(x).amount \in Nat
      BY IdFact DEF Command
    <3> QED BY <1>3, <1>4, <1>7, <3>1 DEF Taking
  <2>3. \A x \in CommandId : e[x] + t[x] >= 0 /\ t[x] >= 0
    <3>1. ASSUME NEW x \in CommandId PROVE e[x] + t[x] >= 0 /\ t[x] >= 0
      <4>1. CommandOf(x) \in Command /\ CommandOf(x).amount \in Nat
        BY IdFact DEF Command
      <4>2. e[x] = IF x \in F THEN 0 ELSE Change(CommandOf(x), a)
        BY EffectFact
      <4>3. Change(CommandOf(x), a) + t[x] >= 0 /\ t[x] >= 0
        BY <2>2, <4>1, ChangeBound
      <4> HIDE DEF F, e, t
      <4>4. t[x] \in Int
        BY <2>2
      <4> QED BY <4>2, <4>3, <4>4
    <3> QED BY <3>1
  <2>4. CASE Funded(a)
    <3> DEFINE rest == CommandId \ {id}
    <3>1. id \notin done /\ done \in SUBSET rest /\ rest \in SUBSET CommandId
      <4>1. id \notin done
        BY <1>4 DEF DoneBefore
      <4> QED BY <2>1, <4>1
    <3> HIDE DEF e, t, done, rest, F
    <3>2. SumFunctionOnSet(e, done) + SumFunctionOnSet(t, rest) >= 0
      BY <2>1, <2>2, <2>3, <3>1, SumsOffset
    <3>3. /\ SumFunctionOnSet(t, CommandId) = c.amount + SumFunctionOnSet(t, rest)
          /\ SumFunctionOnSet(t, rest) \in Int /\ SumFunctionOnSet(e, done) \in Int
      <4>1. CommandId \in SUBSET CommandId
        OBVIOUS
      <4>2. SumFunctionOnSet(t, CommandId) = t[id] + SumFunctionOnSet(t, rest)
        BY <1>4, <2>1, <2>2, <4>1, SumFact DEF rest
      <4>3. SumFunctionOnSet(t, rest) \in Int /\ SumFunctionOnSet(e, done) \in Int
        BY <2>1, <2>2, <3>1, SumFact
      <4> QED BY <2>2, <4>2, <4>3
    <3>4. init >= SumFunctionOnSet(t, CommandId)
      BY <2>4 DEF Funded, t
    <3>5. SumFunctionOnSet(t, rest) >= 0
      <4>1. {} \in SUBSET rest /\ SumFunctionOnSet(e, {}) = 0
        BY <2>1, SumFact
      <4>2. SumFunctionOnSet(e, {}) + SumFunctionOnSet(t, rest) >= 0
        BY <2>1, <2>2, <2>3, <3>1, <4>1, SumsOffset
      <4> QED BY <3>3, <4>1, <4>2
    <3> HIDE DEF init
    <3>6. ~(init < 0) /\ ~(c.amount > init + SumFunctionOnSet(e, done))
      BY <2>1, <3>2, <3>3, <3>4, <3>5
    <3> QED BY <2>1, <3>6 DEF init
  <2>5. CASE Frozen(a)
    <3>1. \A x \in CommandId : e[x] <= 0
      <4>1. ASSUME NEW x \in CommandId PROVE e[x] <= 0
        <5>1. CommandOf(x) \in Command
          BY IdFact
        <5>2. Receives(CommandOf(x), a) => CommandOf(x).amount = 0
          BY <2>5 DEF Frozen
        <5>3. Change(CommandOf(x), a) <= 0
          BY <5>1, <5>2, ChangeBound
        <5>4. e[x] = IF x \in F THEN 0 ELSE Change(CommandOf(x), a)
          BY EffectFact
        <5> HIDE DEF F, e
        <5> QED BY <5>3, <5>4
      <4> QED BY <4>1
    <3> HIDE DEF e, t, done, F
    <3>2. SumFunctionOnSet(e, done) <= 0 /\ SumFunctionOnSet(e, done) \in Int
      <4>1. SumFunctionOnSet(e, done) \in Int
        BY <2>1, SumFact
      <4> QED BY <2>1, <3>1, <4>1, SumNonPositive
    <3>3. init < 0
      BY <2>5 DEF Frozen
    <3> HIDE DEF init
    <3>4. c.amount > init + SumFunctionOnSet(e, done)
      BY <2>1, <3>2, <3>3
    <3> QED BY <2>1, <3>3, <3>4 DEF init
  <2> QED BY <2>4, <2>5 DEF FundsSettled
<1> HIDE DEF F
<1> QED BY <1>2, <1>4, <1>5, <1>6, <1>7

(***************************************************************************)
(* So for such a workload the comparison succeeds.                         *)
(***************************************************************************)
THEOREM SettledComparisonSucceeds ==
  ASSUME FundsSettled
  PROVE  Spec => []CompareSucceeds
<1>1. Overdrawing \in SUBSET CommandId /\ FailuresFixed(Overdrawing)
  BY SettledFailuresFixed DEF Overdrawing
<1> QED BY <1>1, ComparisonSucceeds
=============================================================================
