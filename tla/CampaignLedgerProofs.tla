---- MODULE CampaignLedgerProofs ----
(***************************************************************************)
(* The ledger keeps its budget and lists whatever may have a bill, for any *)
(* number of invocations, any configurations and any caps; and run(), as   *)
(* CampaignRun models it, keeps to what CampaignLedger lets it do.         *)
(***************************************************************************)
EXTENDS CampaignRun, TLAPS

\* Nobody stands behind the lock but its holder, so what the holder has read is
\* still what the file holds.
Locked ==
  \A p \in Procs :
    /\ stage[p] \in Holding => lock = p
    /\ stage[p] \in {"checked", "named"} => copy[p] = ledger
    /\ stage[p] = "written" => temporary = Reservation(ledger, p)

Fits(p) == Affordable(Charged(ledger.spent, Category(cell[p]), cell[p].liability))

WithinCaps ==
  /\ Affordable(ledger.spent)
  /\ \A p \in Procs : stage[p] \in {"checked", "named", "written"} => Fits(p)

\* A directory is made by one attempt only, and the entry names it.
Listed ==
  /\ \A p \in Procs : stage[p] \in {"reserved", "run"} => p \in ledger.attempts
  /\ launched \subseteq ledger.attempts
  /\ \A p \in ledger.attempts : cell[p].output \in outputs
  /\ \A p, q \in ledger.attempts : cell[p].output = cell[q].output => p = q
  /\ \A p \in Procs : stage[p] \in {"named", "written"} =>
       /\ cell[p].output \in outputs
       /\ \A q \in ledger.attempts : cell[q].output # cell[p].output

LedgerInv == LedgerTypeOK /\ Locked /\ WithinCaps /\ Listed

-----------------------------------------------------------------------------

LEMMA TotalType == ASSUME NEW s \in Spendings PROVE Total(s) \in Nat
  BY DEF Total, SumOver, Spendings, Categories

LEMMA ChargedType ==
  ASSUME NEW s \in Spendings, NEW c \in Categories, NEW n \in Nat
  PROVE  Charged(s, c, n) \in Spendings
  BY DEF Charged, Spendings, Categories

LEMMA CategoryType == ASSUME NEW c PROVE Category(c) \in Categories
  BY DEF Category, Categories

\* What check_budget admits is within the caps, whichever categories one adds up.
LEMMA AffordableBounds ==
  ASSUME NEW s \in Spendings, Affordable(s), NEW S \in SUBSET Categories
  PROVE  SumOver(S, s) <= SumOver(S, Caps) + Contingency
  <1> DEFINE over(c) == IF s[c] > Caps[c] THEN s[c] - Caps[c] ELSE 0
             has(c) == IF c \in S THEN s[c] ELSE 0
             may(c) == IF c \in S THEN Caps[c] ELSE 0
  <1>1. \A c \in Categories : s[c] \in Nat /\ Caps[c] \in Nat
    BY CapsAssumption DEF Spendings
  <1>2. \A c \in Categories : over(c) \in Nat /\ has(c) \in Nat /\ may(c) \in Nat
    BY <1>1
  <1>3. \A c \in Categories : has(c) <= may(c) + over(c)
    BY <1>1
  <1>4. over("qualification") + over("vla") + over("wam") + over("recovery") <= Contingency
    BY DEF Affordable, ContingencyUsed, SumOver, Categories
  <1>5. /\ SumOver(S, s) = has("qualification") + has("vla") + has("wam") + has("recovery")
        /\ SumOver(S, Caps) = may("qualification") + may("vla") + may("wam") + may("recovery")
    BY DEF SumOver
  <1>6. {"qualification", "vla", "wam", "recovery"} \subseteq Categories
    BY DEF Categories
  <1>7. Contingency \in Nat
    BY CapsAssumption
  <1> HIDE DEF over, has, may
  <1> QED BY <1>2, <1>3, <1>4, <1>5, <1>6, <1>7

LEMMA ReservationType ==
  ASSUME LedgerTypeOK, NEW p \in Procs, NEW l \in Ledgers
  PROVE  Reservation(l, p) \in Ledgers
  <1>1. cell[p].liability \in Nat
    BY ConfigsAssumption DEF LedgerTypeOK
  <1>2. Charged(l.spent, Category(cell[p]), cell[p].liability) \in Spendings
    BY <1>1, ChargedType, CategoryType DEF Ledgers
  <1> QED BY <1>2 DEF Reservation, Ledgers

-----------------------------------------------------------------------------

LEMMA LedgerInitial == LedgerInit => LedgerInv
  <1> SUFFICES ASSUME LedgerInit PROVE LedgerInv
    OBVIOUS
  <1>1. PICK s \in PriorSpent : ledger = [spent |-> s, attempts |-> {}]
    BY DEF LedgerInit
  <1>2. s \in Spendings /\ Affordable(s)
    BY PriorAssumption
  <1>3. LedgerTypeOK
    BY <1>1, <1>2 DEF LedgerInit, LedgerTypeOK, Ledgers, Stages
  <1>4. Locked /\ WithinCaps /\ Listed
    BY <1>1, <1>2 DEF LedgerInit, Locked, WithinCaps, Listed, Holding
  <1> QED BY <1>3, <1>4 DEF LedgerInv

LEMMA TypedStep ==
  ASSUME LedgerTypeOK, [LedgerNext]_ledgerVars PROVE LedgerTypeOK'
  <1> USE DEF LedgerTypeOK
  <1>1. CASE UNCHANGED ledgerVars
    BY <1>1 DEF ledgerVars
  <1>2. ASSUME NEW p \in Procs, Reserve(p) PROVE LedgerTypeOK'
    <2>1. CASE TakeLock(p) \/ FindLocked(p) \/ ReadLedger(p)
      BY <2>1 DEF TakeLock, FindLocked, ReadLedger, Goes, files, Stages, Holding
    <2>2. CASE MakeOutput(p)
      <3>1. cell[p].output \in Outputs
        BY ConfigsAssumption
      <3> QED BY <2>2, <3>1 DEF MakeOutput, Goes, Stages, Holding
    <2>3. CASE WriteTemporary(p)
      <3>1. Reservation(copy[p], p) \in Ledgers
        BY ReservationType
      <3> QED BY <2>3, <3>1 DEF WriteTemporary, Goes, Stages, Holding
    <2>4. CASE Replace(p)
      BY <2>4 DEF Replace, Goes, Stages, Holding
    <2> QED BY <1>2, <2>1, <2>2, <2>3, <2>4 DEF Reserve
  <1>3. ASSUME NEW p \in Procs, Launch(p) \/ Leave(p) PROVE LedgerTypeOK'
    BY <1>3 DEF Launch, Leave, Goes, files, Stages, Holding
  <1>4. ASSUME NEW p \in Procs, Pay(p) \/ Audit(p) PROVE LedgerTypeOK'
    BY <1>4 DEF Pay, Audit, files
  <1> QED BY <1>1, <1>2, <1>3, <1>4 DEF LedgerNext

\* A step of p that leaves the file alone, or p's replacement of it while it holds
\* the lock, keeps what every other holder has read.
LEMMA LockedStep ==
  ASSUME LedgerTypeOK, Locked, [LedgerNext]_ledgerVars PROVE Locked'
  <1> USE DEF Locked, LedgerTypeOK
  <1>1. CASE UNCHANGED ledgerVars
    BY <1>1 DEF ledgerVars, Reservation
  <1>2. ASSUME NEW p \in Procs, Reserve(p) PROVE Locked'
    <2>1. CASE TakeLock(p)
      BY <2>1, ProcsAssumption DEF TakeLock, Goes, files, Holding, Reservation
    <2>2. CASE FindLocked(p)
      BY <2>2 DEF FindLocked, Goes, files, Holding, Reservation
    <2>3. CASE ReadLedger(p)
      BY <2>3 DEF ReadLedger, Goes, files, Holding, Reservation
    <2>4. CASE MakeOutput(p)
      BY <2>4 DEF MakeOutput, Goes, Holding, Reservation
    <2>5. CASE WriteTemporary(p)
      BY <2>5 DEF WriteTemporary, Goes, Holding, Reservation
    <2>6. CASE Replace(p)
      BY <2>6 DEF Replace, Goes, Holding, Reservation
    <2> QED BY <1>2, <2>1, <2>2, <2>3, <2>4, <2>5, <2>6 DEF Reserve
  <1>3. ASSUME NEW p \in Procs, Launch(p) \/ Leave(p) PROVE Locked'
    BY <1>3, ProcsAssumption DEF Launch, Leave, Goes, files, Holding, Reservation
  <1>4. ASSUME NEW p \in Procs, Pay(p) \/ Audit(p) PROVE Locked'
    BY <1>4 DEF Pay, Audit, files, Reservation
  <1> QED BY <1>1, <1>2, <1>3, <1>4 DEF LedgerNext

LEMMA WithinCapsStep ==
  ASSUME LedgerTypeOK, Locked, WithinCaps, [LedgerNext]_ledgerVars PROVE WithinCaps'
  <1> USE DEF WithinCaps, LedgerTypeOK, Fits
  <1>1. CASE UNCHANGED <<cell, stage, ledger>>
    BY <1>1
  <1>2. ASSUME NEW p \in Procs, Reserve(p) PROVE WithinCaps'
    <2>1. CASE TakeLock(p) \/ FindLocked(p)
      BY <2>1 DEF TakeLock, FindLocked, Goes, files
    <2>2. CASE ReadLedger(p)
      BY <2>2 DEF ReadLedger, Goes, files, Preflight, CheckBudget
    <2>3. CASE MakeOutput(p) \/ WriteTemporary(p)
      BY <2>3 DEF MakeOutput, WriteTemporary, Goes
    <2>4. CASE Replace(p)
      <3>1. /\ stage[p] = "written" /\ stage' = [stage EXCEPT ![p] = "reserved"]
            /\ ledger' = Reservation(ledger, p) /\ cell' = cell
        BY <2>4 DEF Replace, Goes, Locked
      <3>2. ledger'.spent = Charged(ledger.spent, Category(cell[p]), cell[p].liability)
        BY <3>1 DEF Reservation
      <3>3. Affordable(ledger'.spent)
        BY <3>1, <3>2
      <3>4. \A q \in Procs : stage'[q] \notin {"checked", "named", "written"}
        BY <3>1 DEF Locked, Holding
      <3> QED BY <3>1, <3>3, <3>4
    <2> QED BY <1>2, <2>1, <2>2, <2>3, <2>4 DEF Reserve
  <1>3. ASSUME NEW p \in Procs, Launch(p) \/ Leave(p) PROVE WithinCaps'
    BY <1>3 DEF Launch, Leave, Goes, files
  <1>4. ASSUME NEW p \in Procs, Pay(p) \/ Audit(p) PROVE WithinCaps'
    BY <1>4, <1>1 DEF Pay, Audit, files
  <1> QED BY <1>1, <1>2, <1>3, <1>4 DEF LedgerNext, ledgerVars, files

LEMMA ListedStep ==
  ASSUME LedgerTypeOK, Locked, Listed, [LedgerNext]_ledgerVars PROVE Listed'
  <1> USE DEF Listed, LedgerTypeOK
  <1>1. CASE UNCHANGED <<cell, stage, ledger, outputs, launched>>
    BY <1>1
  <1>2. ASSUME NEW p \in Procs, Reserve(p) PROVE Listed'
    <2>1. CASE TakeLock(p) \/ FindLocked(p) \/ ReadLedger(p)
      BY <2>1 DEF TakeLock, FindLocked, ReadLedger, Goes, files
    <2>2. CASE MakeOutput(p)
      <3>1. /\ stage[p] = "checked" /\ stage' = [stage EXCEPT ![p] = "named"]
            /\ cell[p].output \notin outputs /\ outputs' = outputs \cup {cell[p].output}
            /\ UNCHANGED <<cell, ledger, launched>>
        BY <2>2 DEF MakeOutput, Goes
      <3>2. \A q \in Procs : stage[q] \notin {"named", "written"}
        BY <3>1 DEF Locked, Holding
      <3> QED BY <3>1, <3>2
    <2>3. CASE WriteTemporary(p)
      BY <2>3 DEF WriteTemporary, Goes
    <2>4. CASE Replace(p)
      <3>1. /\ stage[p] = "written" /\ stage' = [stage EXCEPT ![p] = "reserved"]
            /\ ledger'.attempts = ledger.attempts \cup {p}
            /\ UNCHANGED <<cell, outputs, launched>>
        BY <2>4 DEF Replace, Goes, Locked, Reservation
      <3>2. \A q \in Procs : stage'[q] \notin {"named", "written"}
        BY <3>1 DEF Locked, Holding
      <3>3. /\ cell[p].output \in outputs
            /\ \A q \in ledger.attempts : cell[q].output # cell[p].output
        BY <3>1
      <3>4. \A q \in Procs : stage'[q] \in {"reserved", "run"} => q \in ledger'.attempts
        BY <3>1
      <3>5. \A q, r \in ledger'.attempts : cell'[q].output = cell'[r].output => q = r
        BY <3>1, <3>3
      <3>6. \A q \in ledger'.attempts : cell'[q].output \in outputs'
        BY <3>1, <3>3
      <3> QED BY <3>1, <3>2, <3>4, <3>5, <3>6
    <2> QED BY <1>2, <2>1, <2>2, <2>3, <2>4 DEF Reserve
  <1>3. ASSUME NEW p \in Procs, Launch(p) PROVE Listed'
    BY <1>3 DEF Launch, Goes, files
  <1>4. ASSUME NEW p \in Procs, Leave(p) PROVE Listed'
    BY <1>4 DEF Leave, files
  <1>5. ASSUME NEW p \in Procs, Pay(p) \/ Audit(p) PROVE Listed'
    BY <1>5, <1>1 DEF Pay, Audit, files
  <1> QED BY <1>1, <1>2, <1>3, <1>4, <1>5 DEF LedgerNext, ledgerVars, files

LEMMA LedgerInductive ==
  ASSUME LedgerInv, [LedgerNext]_ledgerVars PROVE LedgerInv'
  BY TypedStep, LockedStep, WithinCapsStep, ListedStep DEF LedgerInv

\* For any number of invocations, configurations and caps the inductive invariant of
\* the ledger holds: what the lock's holder has read is what the file says.
THEOREM LedgerInvariant == LedgerSpec => []LedgerInv
  <1>1. LedgerInv /\ [LedgerNext]_ledgerVars => LedgerInv'
    BY LedgerInductive
  <1> QED BY <1>1, LedgerInitial, PTL DEF LedgerSpec

LEMMA BudgetKept == LedgerInv => WithinBudget
  <1> SUFFICES ASSUME LedgerInv PROVE WithinBudget
    OBVIOUS
  <1>1. ledger.spent \in Spendings /\ Affordable(ledger.spent)
    BY DEF LedgerInv, LedgerTypeOK, Ledgers, WithinCaps
  <1>2. Total(ledger.spent) <= TotalCap
    BY <1>1 DEF Affordable
  <1> QED BY <1>1, <1>2, AffordableBounds DEF WithinBudget

LEMMA ReservationsKept == LedgerInv => ReservedBeforePaid
  BY DEF LedgerInv, LedgerTypeOK, Listed, ReservedBeforePaid

-----------------------------------------------------------------------------
(* run() keeps to the ledger's rules.                                       *)

\* The process in run() is the one that holds the lock.
InRun ==
  at # "off" => lock \in Procs /\ lock \in launched /\ stage[lock] = "run"

RunInv == LedgerTypeOK /\ Locked /\ InRun

LEMMA MainIsLedger ==
  ASSUME NEW p \in Procs, Main(p) \/ AuditRun(p)
  PROVE  LedgerNext
  BY DEF Main, Start, Dies, AuditRun, LedgerNext

LEMMA StepIsLedger ==
  ASSUME RunInv, [Next]_vars PROVE [LedgerNext]_ledgerVars
  <1> USE DEF RunInv, InRun
  <1>1. CASE UNCHANGED vars
    BY <1>1 DEF vars
  <1>2. CASE Startup
    <2>1. CASE SetupEnds
      <3>1. at # "off"
        BY <2>1 DEF SetupEnds
      <3> QED BY <2>1, <3>1 DEF SetupEnds, Pay, LedgerNext
    <2> QED BY <1>2, <2>1 DEF Startup, ProviderEnters, PoolEnters, JoinStartup, Lease, Within
  <1>3. CASE Cohort
    BY <1>3 DEF Cohort, StartJob, WaveEnds, CohortFails, DrainEnds, DrainTimesOut,
                RolloutReturns, RolloutRaises, Within
  <1>4. CASE Finish
    <2>1. CASE Return
      <3>1. lock \in Procs /\ Leave(lock)
        BY <2>1 DEF Return, Dies
      <3> QED BY <3>1 DEF LedgerNext
    <2> QED BY <1>4, <2>1 DEF Finish, CloseSimulators, CloseCompute, DeletesEnd, WriteSummary,
                              Flush, Reap, Delete, Within
  <1>5. CASE RunTimesOut \/ Interrupt
    BY <1>5 DEF RunTimesOut, Interrupt, CancelMain
  <1> QED BY <1>1, <1>2, <1>3, <1>4, <1>5, MainIsLedger DEF Next

LEMMA InRunStep ==
  ASSUME RunInv, [Next]_vars PROVE InRun'
  <1> USE DEF RunInv, InRun, LedgerTypeOK
  <1>1. CASE UNCHANGED ledgerVars /\ (at = "off" => at' = "off")
    BY <1>1 DEF ledgerVars
  <1>2. CASE Startup
    <2>1. CASE SetupEnds
      BY <2>1 DEF SetupEnds
    <2> QED BY <1>1, <1>2, <2>1 DEF Startup, ProviderEnters, PoolEnters, JoinStartup, Lease, Within
  <1>3. CASE Cohort
    BY <1>1, <1>3 DEF Cohort, StartJob, WaveEnds, CohortFails, DrainEnds, DrainTimesOut,
                RolloutReturns, RolloutRaises, Within
  <1>4. CASE Finish
    BY <1>1, <1>4 DEF Finish, CloseSimulators, CloseCompute, DeletesEnd, WriteSummary,
                Flush, Reap, Return, Dies, Delete, Within
  <1>5. CASE RunTimesOut \/ Interrupt
    <2>1. CancelMain
      BY <1>5 DEF RunTimesOut, Interrupt
    <2> QED BY <1>1, <2>1 DEF CancelMain, Absorbed, Timed, Final
  <1>6. ASSUME NEW p \in Procs, Main(p) PROVE InRun'
    <2>1. CASE Start(p)
      <3>1. stage[p] = "reserved" /\ stage' = [stage EXCEPT ![p] = "run"] /\ lock' = lock
            /\ launched' = launched \cup {p}
        BY <2>1 DEF Start, Launch, Goes
      <3>2. lock = p
        BY <3>1 DEF Locked, Holding
      <3> QED BY <3>1, <3>2
    <2>2. CASE Dies(p)
      BY <2>2 DEF Dies
    <2>3. CASE Reserve(p) /\ UNCHANGED <<paying, runVars>>
      <3>1. CASE at = "off"
        BY <2>3, <3>1 DEF runVars
      <3>2. CASE at # "off"
        <4>1. at' = at /\ lock # NoProc /\ stage[lock] = "run" /\ lock \in Procs
          BY <2>3, <3>2, ProcsAssumption DEF runVars
        <4>2. lock' = lock /\ launched' = launched
              /\ \E s : stage' = [stage EXCEPT ![p] = s] /\ stage[p] # "run"
          BY <2>3, <4>1 DEF Reserve, TakeLock, FindLocked, ReadLedger, MakeOutput,
                            WriteTemporary, Replace, Goes
        <4> QED BY <4>1, <4>2, <3>2
      <3> QED BY <3>1, <3>2
    <2> QED BY <1>6, <2>1, <2>2, <2>3 DEF Main
  <1>7. ASSUME NEW p \in Procs, AuditRun(p) PROVE InRun'
    BY <1>7 DEF AuditRun, Audit, runVars
  <1>8. CASE UNCHANGED vars
    BY <1>1, <1>8 DEF vars, runVars
  <1> QED BY <1>2, <1>3, <1>4, <1>5, <1>6, <1>7, <1>8 DEF Next

\* The campaign as a whole implements the ledger's specification: whatever run()
\* does, cancelled or killed at any point, is a step of it or none.
THEOREM RunImplementsLedger == Spec => LedgerSpec /\ []RunInv
  <1>1. Init => LedgerInit /\ RunInv
    <2> SUFFICES ASSUME Init PROVE LedgerInit /\ RunInv
      OBVIOUS
    <2>1. LedgerInit /\ at = "off"
      BY DEF Init
    <2> QED BY <2>1, LedgerInitial DEF LedgerInv, RunInv, InRun
  <1>2. RunInv /\ [Next]_vars => RunInv' /\ [LedgerNext]_ledgerVars
    BY StepIsLedger, InRunStep, TypedStep, LockedStep DEF RunInv
  <1> QED BY <1>1, <1>2, PTL DEF Spec, LedgerSpec

\* However many invocations share the ledger, overruns share one contingency.
THEOREM CampaignWithinBudget == Spec => []WithinBudget
  BY RunImplementsLedger, LedgerInvariant, BudgetKept, PTL

\* Whatever may have a bill is in the ledger, with an output directory of its own.
THEOREM CampaignReserved == Spec => []ReservedBeforePaid
  BY RunImplementsLedger, LedgerInvariant, ReservationsKept, PTL
====
