----------------------------- MODULE BankDriver -----------------------------
(***************************************************************************)
(* The driver of the bank simulator: worker threads that draw commands     *)
(* from shared random streams (action.c), log large transfers (report.c),  *)
(* meet at a barrier before every report (MyWorker in bankdriver.c), and   *)
(* whose bank is in the end compared with that of a sequential run of the  *)
(* same commands (TestBank).                                               *)
(*                                                                         *)
(* A teller command is one step here: BankTeller implements BankAtomic,    *)
(* in which it is one.                                                     *)
(***************************************************************************)
EXTENDS BankData, SequencesExt

CONSTANTS NumWorkers,       \* numWorkers
          MaxWorkers,       \* MAX_WORKERS, which is also the number of streams
          NumCommands,      \* commands of the whole run
          Drawn,            \* Drawn[s][k]: the k-th command of stream s
          ReportingAmount,  \* reportingAmount
          MaxReports,       \* MAX_NUM_REPORTS
          MaxLogEntries     \* MAX_LOG_ENTRIES

Worker == 0 .. NumWorkers - 1

Stream == 0 .. MaxWorkers - 1

Period == 0 .. MaxReports - 1

(***************************************************************************)
(* main accepts 1, 2, 4, 8 or 16 workers, of at most 16, and every test    *)
(* has a multiple of 64 commands.                                          *)
(***************************************************************************)
ASSUME DriverAssumption ==
  /\ NumWorkers \in Nat \ {0} /\ MaxWorkers \in Nat \ {0}
  /\ NumCommands \in Nat /\ ReportingAmount \in Nat
  /\ MaxReports \in Nat \ {0} /\ MaxLogEntries \in Nat
  /\ MaxWorkers % NumWorkers = 0
  /\ NumCommands % (4 * MaxWorkers) = 0
  /\ Drawn \in [Stream -> [0 .. NumCommands \div MaxWorkers - 1 -> Command]]

(***************************************************************************)
(* Action_Init: the commands of one of n workers, how many of them it does *)
(* between two reports, and the stream it draws from at its i-th turn.     *)
(***************************************************************************)
PerWorker(n) == NumCommands \div n

PerReport(n) == (NumCommands \div 4) \div n

SeedListAdjacent(w, i, n) == (w + i) % MaxWorkers   \* mutant: streams not dealt out

SeedList(w, i, n) == (w + i * n) % MaxWorkers

(***************************************************************************)
(* What a command that succeeds passes to Report_Transfer, call by call.   *)
(***************************************************************************)
Entries(c) ==
  [i \in DOMAIN Adjustments(c) |->
     [account |-> Adjustments(c)[i].account, amount |-> Adjustments(c)[i].amount]]

IsSmall(e) == (IF e.amount < 0 THEN -e.amount ELSE e.amount) < ReportingAmount

Refused(bal, c) ==
  IsTeller(c) /\ ~IsSelfTransfer(c) /\ Insufficient(c, bal[c.src])

BankTotal(bal) == SumFunctionOnSet(bal, Account)

(***************************************************************************)
(* A report as malloc leaves it but for its counters: NoEntry stands for   *)
(* the junk in a slot of the log that is not in use.                       *)
(***************************************************************************)
NoEntry == "none"

EmptyReport == [balance |-> 0, hasOverflowed |-> FALSE, numLogEntries |-> 0,
                transferLog |-> [i \in 0 .. MaxLogEntries - 1 |-> NoEntry]]

NoDaily == [r \in Period |-> EmptyReport]
-----------------------------------------------------------------------------
(***************************************************************************)
(* The sequential run of TestBank: one worker, no semaphores, each         *)
(* operation of report.c in one piece.                                     *)
(***************************************************************************)
Logged(report, ent, e) ==
  [report EXCEPT !.transferLog[ent] = e, !.numLogEntries = ent + 1]

ReportTransfer(run, e) ==
  LET r == run.numReports
  IN  IF IsSmall(e) \/ r >= MaxReports THEN run
      ELSE IF run.daily[r].numLogEntries >= MaxLogEntries
           THEN [run EXCEPT !.daily[r].hasOverflowed = TRUE]
           ELSE [run EXCEPT !.daily[r] = Logged(@, @.numLogEntries, e)]

DoReport(run) ==
  IF run.numReports >= MaxReports THEN run
  ELSE [run EXCEPT !.daily[run.numReports].balance = BankTotal(run.balance),
                   !.numReports = @ + 1]

DoCommand(run, c) ==
  IF Refused(run.balance, c) THEN run
  ELSE FoldLeft(ReportTransfer, [run EXCEPT !.balance = Applied(@, c)], Entries(c))

SequentialRun ==
  LET drawn(k) == Drawn[SeedList(0, k % MaxWorkers, 1)][k \div MaxWorkers]
      reports(k) == k > 0 /\ k % PerReport(1) = 0
      run[k \in 0 .. NumCommands] ==
        IF k = 0
        THEN [balance |-> InitialBalance, numReports |-> 0, daily |-> NoDaily]
        ELSE DoCommand(IF reports(k - 1) THEN DoReport(run[k - 1]) ELSE run[k - 1],
                       drawn(k - 1))
  IN  run[NumCommands]

(***************************************************************************)
(* Bank_Compare: the balances of the accounts (and so of the branches),    *)
(* and each report: its balance, how many entries it logged and, unless    *)
(* they overflowed, which, in any order.                                   *)
(***************************************************************************)
SameEntries(log1, log2, n) ==
  \A i \in 0 .. n - 1 :
    Cardinality({j \in 0 .. n - 1 : log1[j] = log1[i]})
      = Cardinality({j \in 0 .. n - 1 : log2[j] = log1[i]})

ReportCompare(n1, daily1, n2, daily2) ==
  /\ n1 = n2
  /\ \A r \in 0 .. n1 - 1 :
       /\ daily1[r].balance = daily2[r].balance
       /\ daily1[r].numLogEntries = daily2[r].numLogEntries
       /\ ~daily1[r].hasOverflowed =>
            SameEntries(daily1[r].transferLog, daily2[r].transferLog,
                        daily1[r].numLogEntries)
-----------------------------------------------------------------------------
VARIABLES cmdCount,     \* commands a worker has still to do
          nextReport,   \* the value of cmdCount at which it reports next
          nextSeed,     \* commands it has drawn
          drawn,        \* commands drawn from each stream
          balance,      \* account->balance
          numReports,   \* bank->report->numReports
          daily,        \* bank->report->dailyData
          repLock,      \* semaphore around Report_Transfer
          finishCheck,  \* semaphore around numToFinish
          numToFinish,  \* workers that have still to reach the barrier
          canContinue,  \* semaphore each worker waits for at the barrier
          pc,           \* where each worker is
          cmd,          \* the command it does
          entries,      \* what it has still to pass to Report_Transfer
          period,       \* the report Report_Transfer found current
          reg           \* the counter it last read, or its loop's index

generator == <<cmdCount, nextReport, nextSeed, drawn>>
bank      == <<balance, numReports, daily>>
barrier   == <<finishCheck, numToFinish, canContinue>>
local     == <<cmd, entries, period, reg>>
vars      == <<generator, bank, repLock, barrier, pc, local>>

Set(f, w, v) == [f EXCEPT ![w] = v]

At(w, label) == pc[w] = label

Goto(w, label) == pc' = Set(pc, w, label)

NoCommand == BankBalance   \* the value of cmd[w] between two commands

Init ==
  /\ cmdCount = [w \in Worker |-> PerWorker(NumWorkers)]
  /\ nextReport = [w \in Worker |-> PerWorker(NumWorkers) - PerReport(NumWorkers)]
  /\ nextSeed = [w \in Worker |-> 0]
  /\ drawn = [s \in Stream |-> 0]
  /\ balance = InitialBalance
  /\ numReports = 0
  /\ daily = NoDaily
  /\ repLock = 1 /\ finishCheck = 1
  /\ numToFinish = NumWorkers
  /\ canContinue = [w \in Worker |-> 0]
  /\ pc = [w \in Worker |-> "next"]
  /\ cmd = [w \in Worker |-> NoCommand]
  /\ entries = [w \in Worker |-> << >>]
  /\ period = [w \in Worker |-> 0]
  /\ reg = [w \in Worker |-> 0]

(***************************************************************************)
(* Action_GetNext: no command left, a report due, or a command.            *)
(***************************************************************************)
NextDone(w) ==
  /\ At(w, "next") /\ cmdCount[w] = 0
  /\ Goto(w, "done")
  /\ UNCHANGED <<generator, bank, repLock, barrier, local>>

NextReport(w) ==
  /\ At(w, "next") /\ cmdCount[w] > 0 /\ cmdCount[w] = nextReport[w]
  /\ nextReport' = Set(nextReport, w, nextReport[w] - PerReport(NumWorkers))
  /\ Goto(w, "arrive")
  /\ UNCHANGED <<cmdCount, nextSeed, drawn, bank, repLock, barrier, local>>

NextCommand(w) ==
  /\ At(w, "next") /\ cmdCount[w] > 0 /\ cmdCount[w] # nextReport[w]
  /\ cmdCount' = Set(cmdCount, w, cmdCount[w] - 1)
  /\ Goto(w, "draw")
  /\ UNCHANGED <<nextReport, nextSeed, drawn, bank, repLock, barrier, local>>

(***************************************************************************)
(* GetRandom: the command comes from the next of the worker's streams,     *)
(* which advances without a semaphore.                                     *)
(***************************************************************************)
StreamOf(w) == SeedList(w, nextSeed[w] % MaxWorkers, NumWorkers)

Draw(w) ==
  /\ At(w, "draw")
  /\ cmd' = Set(cmd, w, Drawn[StreamOf(w)][drawn[StreamOf(w)]])
  /\ drawn' = [drawn EXCEPT ![StreamOf(w)] = @ + 1]
  /\ nextSeed' = Set(nextSeed, w, nextSeed[w] + 1)
  /\ Goto(w, "command")
  /\ UNCHANGED <<cmdCount, nextReport, bank, repLock, barrier, entries, period, reg>>

(***************************************************************************)
(* The command takes effect; one that fails, and an enquiry, logs nothing. *)
(***************************************************************************)
Execute(w) ==
  /\ At(w, "command")
  /\ IF Refused(balance, cmd[w]) \/ ~IsTeller(cmd[w])
     THEN Goto(w, "next") /\ UNCHANGED <<balance, entries>>
     ELSE /\ balance' = Applied(balance, cmd[w])
          /\ entries' = Set(entries, w, Entries(cmd[w]))
          /\ Goto(w, "log")
  /\ cmd' = Set(cmd, w, NoCommand)
  /\ UNCHANGED <<generator, numReports, daily, repLock, barrier, period, reg>>

(***************************************************************************)
(* One call of Report_Transfer, between a sem_wait and a sem_post.         *)
(***************************************************************************)
RepWaitUnlocked(w) ==   \* mutant: no sem_wait
  /\ At(w, "log")
  /\ Goto(w, "logPeriod")
  /\ UNCHANGED <<generator, bank, repLock, barrier, local>>

RepWait(w) ==
  /\ At(w, "log") /\ repLock > 0
  /\ repLock' = repLock - 1
  /\ Goto(w, "logPeriod")
  /\ UNCHANGED <<generator, bank, barrier, local>>

LogPeriod(w) ==
  /\ At(w, "logPeriod")
  /\ IF IsSmall(Head(entries[w])) \/ numReports >= MaxReports
     THEN Goto(w, "repPost") /\ UNCHANGED period
     ELSE Goto(w, "logEntry") /\ period' = Set(period, w, numReports)
  /\ UNCHANGED <<generator, bank, repLock, barrier, cmd, entries, reg>>

LogEntry(w) ==
  LET ent == daily[period[w]].numLogEntries
  IN  /\ At(w, "logEntry")
      /\ IF ent >= MaxLogEntries
         THEN /\ daily' = [daily EXCEPT ![period[w]].hasOverflowed = TRUE]
              /\ Goto(w, "repPost")
              /\ UNCHANGED reg
         ELSE /\ reg' = Set(reg, w, ent)
              /\ Goto(w, "logStore")
              /\ UNCHANGED daily
      /\ UNCHANGED <<generator, balance, numReports, repLock, barrier, cmd, entries,
                     period>>

LogStore(w) ==
  /\ At(w, "logStore")
  /\ daily' = [daily EXCEPT ![period[w]] = Logged(@, reg[w], Head(entries[w]))]
  /\ Goto(w, "repPost")
  /\ UNCHANGED <<generator, balance, numReports, repLock, barrier, local>>

RepPost(w) ==
  /\ At(w, "repPost")
  /\ repLock' = repLock + 1
  /\ entries' = Set(entries, w, Tail(entries[w]))
  /\ period' = Set(period, w, 0)
  /\ reg' = Set(reg, w, 0)
  /\ Goto(w, IF Len(entries[w]) > 1 THEN "log" ELSE "next")
  /\ UNCHANGED <<generator, bank, barrier, cmd>>

(***************************************************************************)
(* ACTION_REPORT: decrement numToFinish, with finish_check taken; whoever  *)
(* is not the last posts finish_check and waits for a semaphore of its own.*)
(***************************************************************************)
FinishWait(w) ==
  /\ At(w, "arrive") /\ finishCheck > 0
  /\ finishCheck' = finishCheck - 1
  /\ Goto(w, "loadCount")
  /\ UNCHANGED <<generator, bank, repLock, numToFinish, canContinue, local>>

LoadCount(w) ==
  /\ At(w, "loadCount")
  /\ reg' = Set(reg, w, numToFinish)
  /\ Goto(w, "storeCount")
  /\ UNCHANGED <<generator, bank, repLock, barrier, cmd, entries, period>>

StoreCountOneEarly(w) ==   \* mutant: the last but one does not wait
  /\ At(w, "storeCount")
  /\ numToFinish' = reg[w] - 1
  /\ reg' = Set(reg, w, 0)
  /\ Goto(w, IF numToFinish' > 1 THEN "postWait" ELSE "postReport")
  /\ UNCHANGED <<generator, bank, repLock, finishCheck, canContinue, cmd, entries,
                 period>>

StoreCount(w) ==
  /\ At(w, "storeCount")
  /\ numToFinish' = reg[w] - 1
  /\ reg' = Set(reg, w, 0)
  /\ Goto(w, IF numToFinish' > 0 THEN "postWait" ELSE "postReport")
  /\ UNCHANGED <<generator, bank, repLock, finishCheck, canContinue, cmd, entries,
                 period>>

FinishPost(w) ==
  /\ At(w, "postWait") \/ At(w, "postReport")
  /\ finishCheck' = finishCheck + 1
  /\ Goto(w, IF At(w, "postWait") THEN "blocked" ELSE "report")
  /\ UNCHANGED <<generator, bank, repLock, numToFinish, canContinue, local>>

Continue(w) ==
  /\ At(w, "blocked") /\ canContinue[w] > 0
  /\ canContinue' = Set(canContinue, w, canContinue[w] - 1)
  /\ Goto(w, "next")
  /\ UNCHANGED <<generator, bank, repLock, finishCheck, numToFinish, local>>

(***************************************************************************)
(* Report_DoReport, which only the last worker calls; when no report is    *)
(* left it returns an error that the driver masks.                         *)
(***************************************************************************)
ReportFull(w) ==
  /\ At(w, "report") /\ numReports >= MaxReports
  /\ Goto(w, "reset")
  /\ UNCHANGED <<generator, bank, repLock, barrier, local>>

ReportBalance(w) ==
  /\ At(w, "report") /\ numReports < MaxReports
  /\ daily' = [daily EXCEPT ![numReports].balance = BankTotal(balance)]
  /\ Goto(w, "countReport")
  /\ UNCHANGED <<generator, balance, numReports, repLock, barrier, local>>

CountReport(w) ==
  /\ At(w, "countReport")
  /\ numReports' = numReports + 1
  /\ Goto(w, "reset")
  /\ UNCHANGED <<generator, balance, daily, repLock, barrier, local>>

(***************************************************************************)
(* The last worker makes the barrier ready for the next period before it   *)
(* lets the others go, one after the other.                                *)
(***************************************************************************)
ResetNothing(w) ==   \* mutant: numToFinish is left at zero
  /\ At(w, "reset")
  /\ Goto(w, "release")
  /\ UNCHANGED <<generator, bank, repLock, barrier, local>>

ResetCount(w) ==
  /\ At(w, "reset")
  /\ numToFinish' = NumWorkers
  /\ Goto(w, "release")
  /\ UNCHANGED <<generator, bank, repLock, finishCheck, canContinue, local>>

ReleaseLaterOnes(w) ==   \* mutant: the loop starts at the worker itself
  /\ At(w, "release") /\ reg[w] < NumWorkers
  /\ canContinue' = IF reg[w] <= w THEN canContinue
                    ELSE Set(canContinue, reg[w], canContinue[reg[w]] + 1)
  /\ reg' = Set(reg, w, reg[w] + 1)
  /\ UNCHANGED <<generator, bank, repLock, finishCheck, numToFinish, pc, cmd, entries,
                 period>>

Release(w) ==
  /\ At(w, "release") /\ reg[w] < NumWorkers
  /\ canContinue' = IF reg[w] = w THEN canContinue
                    ELSE Set(canContinue, reg[w], canContinue[reg[w]] + 1)
  /\ reg' = Set(reg, w, reg[w] + 1)
  /\ UNCHANGED <<generator, bank, repLock, finishCheck, numToFinish, pc, cmd, entries,
                 period>>

Released(w) ==
  /\ At(w, "release") /\ reg[w] = NumWorkers
  /\ reg' = Set(reg, w, 0)
  /\ Goto(w, "next")
  /\ UNCHANGED <<generator, bank, repLock, barrier, cmd, entries, period>>

Done == \A w \in Worker : At(w, "done")

Terminating == Done /\ UNCHANGED vars

Step(w) ==
  \/ NextDone(w) \/ NextReport(w) \/ NextCommand(w) \/ Draw(w) \/ Execute(w)
  \/ RepWait(w) \/ LogPeriod(w) \/ LogEntry(w) \/ LogStore(w) \/ RepPost(w)
  \/ FinishWait(w) \/ LoadCount(w) \/ StoreCount(w) \/ FinishPost(w) \/ Continue(w)
  \/ ReportFull(w) \/ ReportBalance(w) \/ CountReport(w)
  \/ ResetCount(w) \/ Release(w) \/ Released(w)

Next == (\E w \in Worker : Step(w)) \/ Terminating

Spec == Init /\ [][Next]_vars

(***************************************************************************)
(* The operating system goes on scheduling every runnable thread.          *)
(***************************************************************************)
FairSpec == Spec /\ \A w \in Worker : WF_vars(Step(w))
-----------------------------------------------------------------------------
Logging   == {"logPeriod", "logEntry", "logStore", "repPost"}
Finishing == {"loadCount", "storeCount", "postWait", "postReport"}
Reporting == {"report", "countReport", "reset"}
PC == {"next", "draw", "command", "log", "arrive", "blocked", "release", "done"}
        \cup Logging \cup Finishing \cup Reporting

LogRecord == [account : Account, amount : Int]

(***************************************************************************)
(* Type invariant.                                                         *)
(***************************************************************************)
TypeOK ==
  /\ cmdCount \in [Worker -> 0 .. PerWorker(NumWorkers)]
  /\ nextReport \in [Worker -> Int]
  /\ nextSeed \in [Worker -> Nat]
  /\ drawn \in [Stream -> 0 .. NumCommands \div MaxWorkers]
  /\ balance \in [Account -> Int]
  /\ numReports \in 0 .. MaxReports
  /\ \A r \in Period :
       /\ daily[r].balance \in Int /\ daily[r].hasOverflowed \in BOOLEAN
       /\ daily[r].numLogEntries \in 0 .. MaxLogEntries
       /\ \A i \in 0 .. daily[r].numLogEntries - 1 :
            daily[r].transferLog[i] \in LogRecord
  /\ repLock \in {0, 1} /\ finishCheck \in {0, 1}
  /\ numToFinish \in 0 .. NumWorkers
  /\ canContinue \in [Worker -> {0, 1}]
  /\ pc \in [Worker -> PC]
  /\ cmd \in [Worker -> Command]
  /\ entries \in [Worker -> Seq(LogRecord)]
  /\ period \in [Worker -> 0 .. MaxReports - 1]
  /\ reg \in [Worker -> Nat]

(***************************************************************************)
(* No two workers are ever at a draw from the same stream: workerState     *)
(* keeps its seeds without a semaphore, and the runs could not be compared *)
(* if a seed were lost.                                                    *)
(***************************************************************************)
NoSeedRace ==
  \A v, w \in Worker :
    v # w /\ At(v, "draw") /\ At(w, "draw") => StreamOf(v) # StreamOf(w)

(***************************************************************************)
(* While the report is taken and the barrier made ready, every other       *)
(* worker waits at the barrier, has done as many commands as the one that  *)
(* reports, and none has been let go.                                      *)
(***************************************************************************)
ReportQuiescent ==
  \A w \in Worker :
    pc[w] \in Reporting =>
      \A v \in Worker \ {w} :
        At(v, "blocked") /\ canContinue[v] = 0 /\ cmdCount[v] = cmdCount[w]

(***************************************************************************)
(* The runs can be compared only if no failure depends on the order, and   *)
(* so CreateBank gives the accounts much more than a command takes, or, to *)
(* test failures, nothing ever (account.c:28, action.c:128).  In           *)
(* FailuresFixed, whatever part of a period's commands is done, the next   *)
(* one of a stream is refused just if it is in failing.                    *)
(***************************************************************************)
CommandId == Stream \X (0 .. NumCommands \div MaxWorkers - 1)

CommandOf(id) == Drawn[id[1]][id[2]]

PerPeriod == NumCommands \div (4 * MaxWorkers)

DoneBefore(n) == {id \in CommandId : id[2] < n[id[1]]}

BalanceAfter(n, failing) ==
  LET effect(id) == Applied([a \in Account |-> 0], CommandOf(id))
  IN  [a \in Account |->
         InitialBalance[a] +
           SumFunctionOnSet([id \in CommandId |-> IF id \in failing THEN 0 ELSE effect(id)[a]],
                            DoneBefore(n))]

FailuresFixed(failing) ==
  \A r \in 0 .. 3 : \A n \in [Stream -> r * PerPeriod .. (r + 1) * PerPeriod] :
    \A s \in Stream :
      n[s] < (r + 1) * PerPeriod =>
        (Refused(BalanceAfter(n, failing), Drawn[s][n[s]]) <=> <<s, n[s]>> \in failing)

(***************************************************************************)
(* Enough for that: every account starts with all that is taken from it,   *)
(* or below zero and is given nothing.                                     *)
(***************************************************************************)
Takes(c, a) == c.op \in {"withdraw", "transfer"} /\ ~IsSelfTransfer(c) /\ c.src = a

Receives(c, a) ==
  \/ c.op = "deposit" /\ c.src = a
  \/ c.op = "transfer" /\ ~IsSelfTransfer(c) /\ c.dst = a

Taking(a) ==
  [id \in CommandId |-> IF Takes(CommandOf(id), a) THEN CommandOf(id).amount ELSE 0]

Funded(a) == InitialBalance[a] >= SumFunctionOnSet(Taking(a), CommandId)

Frozen(a) ==
  /\ InitialBalance[a] < 0
  /\ \A id \in CommandId : Receives(CommandOf(id), a) => CommandOf(id).amount = 0

FundsSettled == \A a \in Account : Funded(a) \/ Frozen(a)

Overdrawing ==
  {id \in CommandId : \E a \in Account : Takes(CommandOf(id), a) /\ InitialBalance[a] < 0}

(***************************************************************************)
(* However the workers interleave, the bank ends with the balances and the *)
(* reports of the sequential run: what TestBank checks after each run.     *)
(***************************************************************************)
CompareSucceeds ==
  Done =>
    /\ balance = SequentialRun.balance
    /\ ReportCompare(SequentialRun.numReports, SequentialRun.daily, numReports, daily)

(***************************************************************************)
(* Every worker comes to the end of its commands: nobody is left waiting   *)
(* at the barrier.                                                         *)
(***************************************************************************)
AllFinish == <>Done
=============================================================================
