---- MODULE CampaignRunProofs ----
(***************************************************************************)
(* What run() promises, for any number of lanes, rows, invocations and     *)
(* interrupts: contexts left in order, workers cancelled once, every grade *)
(* counted, receipts that are true, and no measurement without a run that  *)
(* was sound.                                                              *)
(***************************************************************************)
EXTENDS CampaignLedgerProofs, FiniteSetTheorems

\* Where run() stands says which contexts it is in.
Contexts ==
  /\ PlacesOK
  /\ at = "startup" /\ ~aborting =>
       provider \in {"entering", "in"} /\ pool \in {"entering", "joining", "in"}
  /\ at \in {"job", "cohort", "drain"} => provider = "in" /\ pool = "in"
  /\ at = "simulators" =>
       /\ provider # "entering" /\ pool \in {"out", "in", "abandoned"}
       /\ provider = "out" => aborting
  /\ at = "compute" => provider # "entering" /\ pool \in {"out", "abandoned"}
  /\ at \in Final \cup {"off", "setup", "over", "reap"} =>
       provider = "out" /\ pool \in {"out", "abandoned"}

\* A worker is in the wave's rows, and what returned is recorded.
Workers ==
  /\ WorkersOK
  /\ runs = done
  /\ at \in {"off", "setup", "startup", "job"} =>
       \A l \in Lanes : lane[l] = "none" /\ turn[l] = 1
  /\ at = "cohort" => wave > 0
  /\ \A l \in Lanes : lane[l] = "rollout" => turn[l] <= LastRow
  /\ at # "reap" => \A l \in Lanes : asked[l] <= 1

\* Deleted sessions are gone, and the receipt says no more than that.
Sessions ==
  /\ SessionsOK
  /\ deleted \cap alive = {}
  /\ snapshot.acknowledged => /\ at \in {"rebuild", "flush", "over", "reap"}
                              /\ owned \cap alive = {}

-----------------------------------------------------------------------------
LEMMA ContextsStep ==
  ASSUME Contexts, [Next]_vars PROVE Contexts'
  <1> USE DEF Contexts, PlacesOK, Timed, Final
  <1>0. 0 \in 0..MaxInterrupts
    BY SizesAssumption
  <1>1. CASE UNCHANGED <<at, startVars, cancelVars>>
    BY <1>1 DEF startVars, cancelVars
  <1>2. CASE Startup
    <2>1. CASE SetupEnds
      BY <2>1 DEF SetupEnds, cancelVars
    <2>2. CASE ProviderEnters
      BY <2>2 DEF ProviderEnters, Within, Abort, cancelVars
    <2>3. CASE PoolEnters
      BY <2>3 DEF PoolEnters, Within, cancelVars
    <2>4. CASE JoinStartup
      BY <2>4 DEF JoinStartup, Within, startVars, cancelVars
    <2>5. ASSUME NEW l \in Lanes, Lease(l) PROVE Contexts'
      BY <2>5 DEF Lease, Within, startVars, cancelVars
    <2> QED BY <1>2, <2>1, <2>2, <2>3, <2>4, <2>5 DEF Startup
  <1>3. CASE Cohort
    BY <1>3 DEF Cohort, StartJob, WaveEnds, CohortFails, DrainEnds, DrainTimesOut,
                RolloutReturns, RolloutRaises, Within, startVars, cancelVars
  <1>4. CASE Finish
    <2>1. CASE CloseSimulators
      BY <2>1 DEF CloseSimulators, Within, cancelVars
    <2>2. CASE CloseCompute
      BY <2>2 DEF CloseCompute, Within, cancelVars
    <2>3. CASE Return
      BY <1>0, <2>3 DEF Return, Dies, RunReset
    <2>4. CASE DeletesEnd \/ WriteSummary \/ Flush \/ Reap \/ \E l \in Lanes : Delete(l)
      BY <2>4 DEF DeletesEnd, WriteSummary, Flush, Reap, Delete, Within, startVars, cancelVars
    <2> QED BY <1>4, <2>1, <2>2, <2>3, <2>4 DEF Finish
  <1>5. CASE RunTimesOut \/ Interrupt
    <2>1. interrupts' \in 0..MaxInterrupts
      BY <1>5, SizesAssumption DEF RunTimesOut, Interrupt
    <2>3. expired' \in BOOLEAN
      BY <1>5, Zenon DEF RunTimesOut, Interrupt
    <2>2. CancelMain
      BY <1>5 DEF RunTimesOut, Interrupt
    <2> QED BY <2>1, <2>2, <2>3 DEF CancelMain, Absorbed, Abort, startVars
  <1>6. ASSUME NEW p \in Procs, Start(p) \/ Dies(p) PROVE Contexts'
    BY <1>0, <1>6 DEF Start, Dies, RunReset
  <1> QED BY <1>1, <1>2, <1>3, <1>4, <1>5, <1>6 DEF Next, Main, AuditRun, vars, runVars

LEMMA Acknowledged ==
  ASSUME NEW b, Summarize(b) PROVE snapshot'.acknowledged = b
  BY DEF Summarize

LEMMA SessionsStep ==
  ASSUME PlacesOK, Sessions, [Next]_vars PROVE Sessions'
  <1> USE DEF Sessions, SessionsOK
  <1>1. CASE UNCHANGED <<at, sessionVars, deleteVars, snapshot>>
    BY <1>1 DEF sessionVars, deleteVars
  <1>2. CASE Startup
    <2>1. CASE SetupEnds \/ ProviderEnters \/ JoinStartup
      BY <2>1 DEF SetupEnds, ProviderEnters, JoinStartup, Within, sessionVars, deleteVars,
                  evidenceVars
    <2>2. CASE PoolEnters
      <3>1. at = "startup" /\ at' = "startup" /\ UNCHANGED <<leased, deleteVars, snapshot>>
            /\ alive' \subseteq alive
        BY <2>2 DEF PoolEnters, PoolCloses, Within, sessionVars, evidenceVars
      <3> QED BY <3>1 DEF deleteVars
    <2>3. ASSUME NEW l \in Lanes, Lease(l) PROVE Sessions'
      <3>1. /\ leased' = leased \cup {l} /\ alive' = alive \cup {l} /\ l \notin leased
            /\ UNCHANGED <<at, owned, tries, deleted, snapshot>>
        BY <2>3 DEF Lease, Within, deleteVars, evidenceVars
      <3> QED BY <3>1
    <2> QED BY <1>2, <2>1, <2>2, <2>3 DEF Startup
  <1>3. CASE Cohort
    BY <1>3 DEF Cohort, StartJob, WaveEnds, CohortFails, DrainEnds, DrainTimesOut,
                RolloutReturns, RolloutRaises, Within, sessionVars, deleteVars, evidenceVars
  <1>4. CASE Finish
    <2>1. CASE CloseSimulators
      <3>1. at = "simulators" /\ UNCHANGED <<leased, deleteVars, snapshot>> /\ alive' \subseteq alive
        BY <2>1 DEF CloseSimulators, PoolCloses, Within, evidenceVars
      <3> QED BY <3>1 DEF deleteVars
    <2>2. CASE CloseCompute
      <3>1. /\ at = "compute" /\ owned' = leased
            /\ UNCHANGED <<leased, alive, tries, deleted, snapshot>>
        BY <2>2 DEF CloseCompute, Within, sessionVars, evidenceVars
      <3> QED BY <3>1
    <2>3. ASSUME NEW l \in Lanes, Delete(l) PROVE Sessions'
      <3>1. /\ at = "deletes" /\ l \in owned /\ tries[l] < DeleteAttempts
            /\ tries' = [tries EXCEPT ![l] = @ + 1]
            /\ deleted' \subseteq owned /\ deleted' \cap alive' = {} /\ alive' \subseteq alive
            /\ UNCHANGED <<leased, owned, snapshot>>
        BY <2>3 DEF Delete, Within, evidenceVars
      <3>2. tries' \in [Lanes -> 0..DeleteAttempts]
        BY <3>1, SizesAssumption
      <3> QED BY <3>1, <3>2
    <2>4. CASE DeletesEnd
      <3>1. /\ at' = "rebuild" /\ UNCHANGED <<leased, alive, owned>> /\ deleted' = {}
            /\ tries' = [l \in Lanes |-> 0]
        BY <2>4 DEF DeletesEnd, Summarize, Within, sessionVars
      <3>2. ASSUME Summarize(owned \subseteq deleted)
            PROVE  snapshot'.acknowledged => owned \subseteq deleted
        BY <3>2, Acknowledged, Zenon
      <3>3. ASSUME Summarize(FALSE)
            PROVE  snapshot'.acknowledged => owned \subseteq deleted
        BY <3>3, Acknowledged, Zenon
      <3>4. snapshot'.acknowledged => owned \subseteq deleted
        BY <2>4, <3>2, <3>3 DEF DeletesEnd
      <3> QED BY <3>1, <3>4, SizesAssumption
    <2>5. CASE Return
      BY <2>5, SizesAssumption DEF Return, Dies, RunReset, NoSummary
    <2>6. CASE WriteSummary \/ Flush \/ Reap
      BY <2>6 DEF WriteSummary, Flush, Reap, Within, sessionVars, deleteVars, evidenceVars
    <2> QED BY <1>4, <2>1, <2>2, <2>3, <2>4, <2>5, <2>6 DEF Finish
  <1>5. CASE RunTimesOut \/ Interrupt
    <2>1. CancelMain
      BY <1>5 DEF RunTimesOut, Interrupt
    <2> QED BY <2>1 DEF CancelMain, Absorbed, Final, sessionVars, deleteVars, evidenceVars
  <1>6. ASSUME NEW p \in Procs, Start(p) \/ Dies(p) PROVE Sessions'
    BY <1>6, SizesAssumption DEF Start, Dies, RunReset, NoSummary
  <1> QED BY <1>1, <1>2, <1>3, <1>4, <1>5, <1>6
          DEF Next, Main, AuditRun, vars, runVars, evidenceVars

-----------------------------------------------------------------------------
\* While run() goes on, nobody else takes the lock.
LEMMA LockStays ==
  ASSUME RunInv, at # "off", NEW p \in Procs, Reserve(p)
  PROVE  lock' = lock /\ cell' = cell
  BY ProcsAssumption DEF RunInv, InRun, Reserve, TakeLock, FindLocked, ReadLedger, MakeOutput,
                         WriteTemporary, Replace, files

LEMMA ResetWorkers ==
  ASSUME RunReset, at' \in {"off", "setup"} PROVE Workers'
  BY SizesAssumption DEF RunReset, Workers, WorkersOK

LEMMA Still ==
  ASSUME Workers, UNCHANGED laneVars, (lock' = lock /\ cell' = cell) \/ at = "off",
         at = "reap" => at' = "reap", at' = "cohort" => at = "cohort",
         at' \in {"off", "setup", "startup", "job"} => at \in {"off", "setup", "startup", "job"}
  PROVE  Workers'
  BY DEF Workers, WorkersOK, laneVars, LastRow

LEMMA WorkersStep ==
  ASSUME RunInv, Workers, PlacesOK, [Next]_vars PROVE Workers'
  <1> DEFINE Early == {"off", "setup", "startup", "job"}
  <1>1. CASE UNCHANGED vars
    BY <1>1, Still DEF vars, ledgerVars, runVars
  <1>2. CASE Startup
    BY <1>2, Still DEF Startup, SetupEnds, ProviderEnters, PoolEnters, JoinStartup, Lease,
                       Within, ledgerVars
  <1>3. CASE StartJob
    <2>1. wave' \in 0..PerLane
      BY <1>3, SizesAssumption DEF StartJob, Workers, WorkersOK
    <2>2. CASE Within("job", "cohort") /\ wave' = 1 /\ lane' = [l \in Lanes |-> "rollout"]
      <3>1. \A l \in Lanes : turn'[l] = 1
        BY <1>3, <2>2 DEF StartJob, Workers, Within
      <3>2. 1 <= LastRow'
        BY <2>2, SizesAssumption DEF LastRow
      <3> QED BY <1>3, <2>1, <2>2, <3>1, <3>2 DEF StartJob, Workers, WorkersOK, Within
    <2>3. CASE Within("job", "simulators") /\ UNCHANGED <<wave, lane>>
      BY <1>3, <2>3, Still DEF StartJob, Within, ledgerVars, laneVars
    <2> QED BY <1>3, <2>2, <2>3 DEF StartJob
  <1>4. CASE WaveEnds
    <2>1. CASE at' = "cohort"
      <3>1. /\ at = "cohort" /\ LastRow < PerLane /\ wave' = wave + 1
            /\ turn' = [l \in Lanes |-> wave + 1] /\ lane' = [l \in Lanes |-> "rollout"]
            /\ UNCHANGED <<asked, done, runs, faulty, lock, cell>>
        BY <1>4, <2>1 DEF WaveEnds, Within, ledgerVars
      <3>2. cell[lock].kind = "scored" /\ wave < PerLane
        BY <3>1, SizesAssumption DEF LastRow
      <3>3. wave' \in 1..PerLane /\ LastRow' = wave'
        BY <3>1, <3>2, SizesAssumption DEF LastRow, Workers, WorkersOK
      <3> QED BY <2>1, <3>1, <3>3 DEF Workers, WorkersOK
    <2>2. CASE at' = "simulators"
      BY <1>4, <2>2, Still DEF WaveEnds, Within, ledgerVars, laneVars
    <2> QED BY <1>4, <2>1, <2>2 DEF WaveEnds, Within
  <1>5. ASSUME NEW l \in Lanes, RolloutReturns(l) PROVE Workers'
    <2>1. /\ lane[l] = "rollout" /\ turn[l] \in 1..PerLane /\ turn[l] <= LastRow
          /\ UNCHANGED <<at, wave, asked, lock, cell>> /\ at \notin Early
      BY <1>5 DEF RolloutReturns, Workers, WorkersOK, ledgerVars
    <2>2. LastRow' = LastRow /\ LastRow \in 0..PerLane
      BY <2>1, SizesAssumption DEF LastRow, Workers, WorkersOK
    <2>3. /\ done' \subseteq Rows /\ runs' = done' /\ faulty' \subseteq runs'
      <3>1. <<l, turn[l]>> \in Rows
        BY <2>1 DEF Rows
      <3> QED BY <1>5, <3>1 DEF RolloutReturns, Workers, WorkersOK
    <2>4. /\ turn' \in [Lanes -> 1..PerLane]
          /\ lane' \in [Lanes -> {"none", "rollout", "ended", "raised"}]
          /\ \A k \in Lanes : lane'[k] = "rollout" => turn'[k] <= LastRow
      <3>1. NextRow(l)
        BY <1>5 DEF RolloutReturns
      <3>2. CASE turn[l] = LastRow /\ lane' = [lane EXCEPT ![l] = "ended"] /\ UNCHANGED turn
        BY <3>2 DEF Workers, WorkersOK
      <3>3. CASE turn[l] < LastRow /\ turn' = [turn EXCEPT ![l] = @ + 1] /\ UNCHANGED lane
        <4>1. turn[l] + 1 \in 1..PerLane /\ turn[l] + 1 <= LastRow
          BY <2>1, <2>2, <3>3, SizesAssumption
        <4> QED BY <3>3, <4>1 DEF Workers, WorkersOK
      <3> QED BY <3>1, <3>2, <3>3 DEF NextRow
    <2> QED BY <2>1, <2>2, <2>3, <2>4 DEF Workers, WorkersOK
  <1>6. ASSUME NEW l \in Lanes, RolloutRaises(l) PROVE Workers'
    <2>1. /\ lane[l] = "rollout" /\ lane' = [lane EXCEPT ![l] = "raised"] /\ at \notin Early
          /\ UNCHANGED <<at, wave, turn, asked, done, runs, faulty, lock, cell>>
      BY <1>6 DEF RolloutRaises, Workers, ledgerVars
    <2> QED BY <2>1 DEF Workers, WorkersOK, LastRow
  <1>7. ASSUME CancelWorkers, at = "cohort", at' = "drain",
               UNCHANGED <<wave, lane, turn, done, runs, faulty, lock, cell>>
        PROVE  Workers'
    <2>1. asked' \in [Lanes -> 0..2] /\ \A l \in Lanes : asked'[l] <= 1
      BY <1>7 DEF CancelWorkers, Workers, WorkersOK
    <2> QED BY <1>7, <2>1 DEF Workers, WorkersOK, LastRow
  <1>8. CASE Cohort
    <2>1. CASE CohortFails
      BY <1>7, <2>1 DEF CohortFails, Within, ledgerVars
    <2>2. CASE DrainEnds \/ DrainTimesOut
      BY <2>2, Still DEF DrainEnds, DrainTimesOut, Within, ledgerVars
    <2> QED BY <1>3, <1>4, <1>5, <1>6, <1>8, <2>1, <2>2 DEF Cohort
  <1>9. CASE Finish
    <2>1. CASE Reap
      <3>1. /\ at = "over" /\ at' = "reap" /\ asked' \in [Lanes -> 0..2]
            /\ UNCHANGED <<wave, lane, turn, done, runs, faulty, lock, cell>>
        BY <2>1 DEF Reap, Within, ledgerVars, Workers, WorkersOK
      <3> QED BY <3>1 DEF Workers, WorkersOK, LastRow
    <2>2. CASE Return
      BY <2>2, ResetWorkers DEF Return, Dies
    <2>3. CASE CloseSimulators \/ CloseCompute \/ DeletesEnd \/ WriteSummary \/ Flush
               \/ \E l \in Lanes : Delete(l)
      BY <2>3, Still DEF CloseSimulators, CloseCompute, DeletesEnd, WriteSummary, Flush, Delete,
                         Within, ledgerVars
    <2> QED BY <1>9, <2>1, <2>2, <2>3 DEF Finish
  <1>10. CASE RunTimesOut \/ Interrupt
    <2>1. CancelMain
      BY <1>10 DEF RunTimesOut, Interrupt
    <2>2. CASE at = "cohort" /\ at' = "drain" /\ CancelWorkers
      BY <1>7, <2>1, <2>2 DEF CancelMain, ledgerVars
    <2> QED BY <2>1, <2>2, Still DEF CancelMain, Absorbed, Final, ledgerVars, laneVars
  <1>11. ASSUME NEW p \in Procs, Main(p) \/ AuditRun(p) PROVE Workers'
    <2>1. CASE Start(p) \/ Dies(p)
      BY <2>1, ResetWorkers DEF Start, Dies
    <2>2. CASE Reserve(p) /\ UNCHANGED <<paying, runVars>>
      BY <2>2, LockStays, Still DEF runVars
    <2>3. CASE AuditRun(p)
      BY <2>3, Still DEF AuditRun, Audit, runVars
    <2> QED BY <1>11, <2>1, <2>2, <2>3 DEF Main
  <1> QED BY <1>1, <1>2, <1>8, <1>9, <1>10, <1>11 DEF Next

-----------------------------------------------------------------------------
\* What a qualified attempt leaves was made by a sound run, and a cell to be
\* measured was not admitted without one.
Evidence ==
  /\ snapshot \in [completed : Nat, failed : Nat, acknowledged : BOOLEAN]
  /\ at = "rebuild" /\ snapshot.failed <= Tolerated => lock \in sound
  /\ passing \subseteq sound /\ sound \subseteq launched
  /\ proofs \subseteq passing

Admitted(p) ==
  stage[p] \in {"checked", "named", "written", "reserved", "run"} \/ p \in launched

\* Evidence that goes back to a qualification.
QualifiedFirst(c) == \E q \in proofs : cell[q].setup = c.setup /\ cell[q].kind = "qualification"

Proven ==
  \A p \in Procs : Admitted(p) /\ Category(cell[p]) = "vla" => QualifiedFirst(cell[p])

RunInvariant == RunInv /\ Contexts /\ Workers /\ Sessions /\ Evidence /\ Proven

LEMMA RowsFinite == IsFiniteSet(Rows)
  <1>1. IsFiniteSet(1..PerLane)
    BY SizesAssumption, FS_Interval
  <1> QED BY <1>1, SizesAssumption, FS_Product DEF Rows

\* Rows that did not fail are rows that are done.
LEMMA FewFailed ==
  ASSUME Workers, Failed <= Tolerated
  PROVE  Cardinality(done \ faulty) + Tolerated >= Cardinality(Rows)
  <1> DEFINE good == done \ faulty
  <1>1. good \subseteq Rows /\ runs \ faulty = good
    BY DEF Workers, WorkersOK
  <1>2. IsFiniteSet(good) /\ Cardinality(good) \in Nat /\ Cardinality(Rows) \in Nat
    BY <1>1, RowsFinite, FS_Subset, FS_CardinalityType
  <1>3. Rows \cap good = good
    BY <1>1
  <1>4. Cardinality(Rows \ good) = Cardinality(Rows) - Cardinality(good)
    BY <1>3, RowsFinite, FS_Difference
  <1>5. Failed = Cardinality(Rows \ good)
    BY <1>1 DEF Failed
  <1> HIDE DEF good
  <1> QED BY <1>2, <1>4, <1>5, SizesAssumption DEF good

LEMMA SummaryType ==
  ASSUME Workers, NEW b \in BOOLEAN, Summarize(b)
  PROVE  snapshot' \in [completed : Nat, failed : Nat, acknowledged : BOOLEAN]
  <1>1. IsFiniteSet(runs) /\ IsFiniteSet(Rows \ (runs \ faulty))
    BY RowsFinite, FS_Subset DEF Workers, WorkersOK
  <1>2. Cardinality(runs) \in Nat /\ Failed \in Nat
    BY <1>1, FS_CardinalityType DEF Failed
  <1> QED BY <1>2 DEF Summarize

LEMMA NoSummaryType == NoSummary \in [completed : Nat, failed : Nat, acknowledged : BOOLEAN]
  BY RowsFinite, FS_CardinalityType DEF NoSummary

LEMMA EvidenceStep ==
  ASSUME RunInv, Workers, PlacesOK, Evidence, [Next]_vars PROVE Evidence'
  <1> USE DEF Evidence
  <1>1. ASSUME UNCHANGED <<cell, launched, proofs, evidenceVars>>, at' # "rebuild" PROVE Evidence'
    BY <1>1 DEF evidenceVars
  <1>2. ASSUME UNCHANGED <<at, lock, cell, launched, proofs, evidenceVars>> PROVE Evidence'
    BY <1>2 DEF evidenceVars
  <1>3. CASE UNCHANGED vars
    BY <1>2, <1>3 DEF vars, ledgerVars, runVars
  <1>4. CASE Startup
    <2>1. CASE SetupEnds
      BY <1>1, <2>1 DEF SetupEnds
    <2>2. CASE \E l \in Lanes : Lease(l)
      BY <1>2, <2>2 DEF Lease, Within, ledgerVars
    <2>3. CASE ProviderEnters \/ PoolEnters \/ JoinStartup
      BY <1>1, <2>3 DEF ProviderEnters, PoolEnters, JoinStartup, Within, ledgerVars
    <2> QED BY <1>4, <2>1, <2>2, <2>3 DEF Startup
  <1>5. CASE Cohort
    <2>1. CASE \E l \in Lanes : RolloutReturns(l) \/ RolloutRaises(l)
      BY <1>2, <2>1 DEF RolloutReturns, RolloutRaises, ledgerVars
    <2>2. CASE StartJob \/ WaveEnds \/ CohortFails \/ DrainEnds \/ DrainTimesOut
      BY <1>1, <2>2 DEF StartJob, WaveEnds, CohortFails, DrainEnds, DrainTimesOut, Within, ledgerVars
    <2> QED BY <1>5, <2>1, <2>2 DEF Cohort
  <1>6. CASE Finish
    <2>1. CASE DeletesEnd
      <3>1. PICK b \in BOOLEAN : Summarize(b)
        <4>1. ASSUME Summarize(owned \subseteq deleted) PROVE \E b \in BOOLEAN : Summarize(b)
          BY <4>1, Zenon
        <4>2. ASSUME Summarize(FALSE) PROVE \E b \in BOOLEAN : Summarize(b)
          BY <4>2, Zenon
        <4> QED BY <2>1, <4>1, <4>2 DEF DeletesEnd
      <3>2. snapshot' \in [completed : Nat, failed : Nat, acknowledged : BOOLEAN]
        BY <3>1, SummaryType
      <3>3. at = "deletes" /\ UNCHANGED <<lock, cell, launched, proofs, passing>>
        BY <2>1, <3>1 DEF DeletesEnd, Within, ledgerVars, Summarize
      <3>4. sound' \subseteq launched /\ sound \subseteq sound'
        BY <3>1, <3>3 DEF Summarize, RunInv, InRun
      <3>5. snapshot'.failed <= Tolerated => lock \in sound'
        <4>1. snapshot'.failed = Failed
          BY <3>1 DEF Summarize
        <4> QED BY <3>1, <4>1, FewFailed DEF Summarize
      <3> QED BY <3>2, <3>3, <3>4, <3>5
    <2>2. CASE WriteSummary
      <3>1. /\ at = "rebuild" /\ at' = "flush"
            /\ UNCHANGED <<lock, cell, launched, proofs, snapshot, sound>>
        BY <2>2 DEF WriteSummary, Within, ledgerVars
      <3>2. \/ passing' = passing
            \/ passing' = passing \cup {lock} /\ snapshot.failed <= Tolerated
        BY <2>2 DEF WriteSummary, Qualify
      <3> QED BY <3>1, <3>2
    <2>3. CASE Return
      BY <2>3, NoSummaryType DEF Return, Dies, Leave, RunReset
    <2>4. CASE CloseSimulators \/ CloseCompute \/ Flush \/ Reap \/ \E l \in Lanes : Delete(l)
      BY <1>1, <2>4 DEF CloseSimulators, CloseCompute, Flush, Reap, Delete, Within, ledgerVars
    <2> QED BY <1>6, <2>1, <2>2, <2>3, <2>4 DEF Finish
  <1>7. CASE RunTimesOut \/ Interrupt
    <2>1. CancelMain
      BY <1>7 DEF RunTimesOut, Interrupt
    <2> QED BY <1>1, <2>1 DEF CancelMain, Absorbed, ledgerVars
  <1>8. ASSUME NEW p \in Procs, Main(p) \/ AuditRun(p) PROVE Evidence'
    <2>1. CASE Start(p)
      BY <2>1, NoSummaryType DEF Start, Launch, RunReset
    <2>2. CASE Dies(p)
      BY <2>2, NoSummaryType DEF Dies, Leave, RunReset
    <2>3. CASE Reserve(p) /\ UNCHANGED <<paying, runVars>>
      <3>1. UNCHANGED <<cell, launched, proofs>> /\ (at = "off" \/ lock' = lock)
        BY <2>3, LockStays DEF Reserve, TakeLock, FindLocked, ReadLedger, MakeOutput,
                               WriteTemporary, Replace
      <3> QED BY <2>3, <3>1 DEF runVars, evidenceVars
    <2>4. CASE AuditRun(p)
      BY <2>4 DEF AuditRun, Audit, runVars, evidenceVars
    <2> QED BY <1>8, <2>1, <2>2, <2>3, <2>4 DEF Main
  <1> QED BY <1>3, <1>4, <1>5, <1>6, <1>7, <1>8 DEF Next

\* On the ledger's steps: evidence is never withdrawn, and preflight asks for it.
LEMMA ProvenStep ==
  ASSUME LedgerTypeOK, Proven, [LedgerNext]_ledgerVars PROVE Proven'
  <1> USE DEF Proven, Admitted, QualifiedFirst, LedgerTypeOK
  <1>1. ASSUME UNCHANGED <<cell, proofs>>,
               \A p \in Procs : Admitted(p)' => Admitted(p) \/ QualifiedFirst(cell[p]) \/ Category(cell[p]) # "vla"
        PROVE  Proven'
    BY <1>1 DEF Category
  <1>2. CASE UNCHANGED ledgerVars
    BY <1>2 DEF ledgerVars, Category
  <1>3. ASSUME NEW p \in Procs, Reserve(p) PROVE Proven'
    <2>1. CASE TakeLock(p) \/ FindLocked(p)
      BY <1>1, <2>1 DEF TakeLock, FindLocked, Goes
    <2>2. CASE ReadLedger(p)
      <3>1. ASSUME Category(cell[p]) = "vla" PROVE QualifiedFirst(cell[p])
        <4>1. PICK q \in proofs : cell[q].setup = cell[p].setup
          BY <2>2, <3>1 DEF ReadLedger, Preflight, Qualified
        <4>2. q \in Procs /\ Admitted(q)
          BY <4>1
        <4> QED BY <4>1, <4>2 DEF Category
      <3> QED BY <1>1, <2>2, <3>1 DEF ReadLedger, Goes
    <2>3. CASE MakeOutput(p) \/ WriteTemporary(p) \/ Replace(p)
      BY <1>1, <2>3 DEF MakeOutput, WriteTemporary, Replace, Goes
    <2> QED BY <1>3, <2>1, <2>2, <2>3 DEF Reserve
  <1>4. ASSUME NEW p \in Procs, Launch(p) \/ Leave(p) \/ Pay(p) PROVE Proven'
    BY <1>1, <1>4 DEF Launch, Leave, Pay, Goes
  <1>5. ASSUME NEW p \in Procs, Audit(p) PROVE Proven'
    BY <1>5 DEF Audit, Category
  <1> QED BY <1>2, <1>3, <1>4, <1>5 DEF LedgerNext

-----------------------------------------------------------------------------
LEMMA RunInitial == Init => RunInvariant
  <1> SUFFICES ASSUME Init PROVE RunInvariant
    OBVIOUS
  <1>1. RunInv
    BY LedgerInitial DEF Init, LedgerInv, RunInv, InRun
  <1>2. Contexts
    <2>1. 0 \in 0..MaxInterrupts
      BY SizesAssumption
    <2> QED BY <2>1 DEF Init, Contexts, PlacesOK, Timed, Final
  <1>3. Workers
    BY SizesAssumption DEF Init, Workers, WorkersOK
  <1>4. Sessions
    BY SizesAssumption DEF Init, Sessions, SessionsOK, NoSummary
  <1>5. Evidence
    BY NoSummaryType DEF Init, LedgerInit, Evidence
  <1>6. Proven
    BY DEF Init, LedgerInit, Proven, Admitted
  <1> QED BY <1>1, <1>2, <1>3, <1>4, <1>5, <1>6 DEF RunInvariant

LEMMA RunInductive == RunInvariant /\ [Next]_vars => RunInvariant'
  <1> SUFFICES ASSUME RunInvariant, [Next]_vars PROVE RunInvariant'
    OBVIOUS
  <1> USE DEF RunInvariant
  <1>1. PlacesOK
    BY DEF Contexts
  <1>2. [LedgerNext]_ledgerVars
    BY StepIsLedger
  <1>3. RunInv'
    BY <1>2, TypedStep, LockedStep, InRunStep DEF RunInv
  <1>4. Proven'
    BY <1>2, ProvenStep DEF RunInv
  <1> QED BY <1>1, <1>3, <1>4, ContextsStep, WorkersStep, SessionsStep, EvidenceStep

LEMMA RunAlways == Spec => []RunInvariant
  BY RunInitial, RunInductive, PTL DEF Spec

\* Every variable of the campaign keeps its type.
THEOREM CampaignTyped == Spec => []TypeOK
  <1>1. RunInvariant => TypeOK
    BY DEF RunInvariant, RunInv, Contexts, Workers, Sessions, Evidence, TypeOK
  <1> QED BY <1>1, RunAlways, PTL

\* Both contexts are left, simulators first, whatever failed or was cancelled.
THEOREM CampaignClosed == Spec => []ClosedInOrder
  <1>1. RunInvariant => ClosedInOrder
    BY DEF RunInvariant, Contexts, PlacesOK, ClosedInOrder, Timed, Final
  <1> QED BY <1>1, RunAlways, PTL

\* No worker is cancelled twice before the event loop ends.
THEOREM CampaignCancels == Spec => []CancelledOnce
  <1>1. RunInvariant => CancelledOnce
    BY DEF RunInvariant, Workers, CancelledOnce
  <1> QED BY <1>1, RunAlways, PTL

\* An acknowledged receipt is true of every session it names.
THEOREM CampaignReceipts == Spec => []AcknowledgedMeansDeleted
  <1>1. RunInvariant => AcknowledgedMeansDeleted
    BY DEF RunInvariant, Sessions, AcknowledgedMeansDeleted
  <1> QED BY <1>1, RunAlways, PTL

\* A measurement has a sound qualification run behind it.
THEOREM CampaignMeasures == Spec => []MeasuredAfterSoundRun
  <1>1. RunInvariant => MeasuredAfterSoundRun
    <2> SUFFICES ASSUME RunInvariant, NEW p \in launched, Category(cell[p]) = "vla"
                 PROVE  \E q \in sound \cap passing :
                          cell[q].setup = cell[p].setup /\ cell[q].kind = "qualification"
      BY DEF MeasuredAfterSoundRun
    <2>1. p \in Procs /\ QualifiedFirst(cell[p])
      BY DEF RunInvariant, RunInv, LedgerTypeOK, Proven, Admitted
    <2>2. PICK q \in proofs : cell[q].setup = cell[p].setup /\ cell[q].kind = "qualification"
      BY <2>1 DEF QualifiedFirst
    <2>3. q \in passing /\ q \in sound
      BY <2>2 DEF RunInvariant, Evidence
    <2> QED BY <2>2, <2>3
  <1> QED BY <1>1, RunAlways, PTL

\* The summary counts exactly what has returned.
THEOREM CampaignGrades == Spec => GradesKept
  <1>1. ASSUME RunInvariant, [Next]_vars, snapshot' # snapshot, at' = "rebuild"
        PROVE  /\ snapshot'.completed = Cardinality(done)
               /\ snapshot'.failed = Cardinality(Rows \ (done \ faulty))
    <2>1. CASE DeletesEnd
      <3>1. \E b : Summarize(b)
        BY <2>1 DEF DeletesEnd
      <3>2. snapshot'.completed = Cardinality(runs) /\ snapshot'.failed = Failed
        BY <3>1 DEF Summarize
      <3> QED BY <1>1, <3>2 DEF RunInvariant, Workers, Failed
    <2>2. CASE Startup \/ Cohort
      BY <1>1, <2>2 DEF Startup, SetupEnds, ProviderEnters, PoolEnters, JoinStartup, Lease, Within,
                        Cohort, StartJob, WaveEnds, CohortFails, DrainEnds, DrainTimesOut,
                        RolloutReturns, RolloutRaises, evidenceVars
    <2>3. CASE Finish /\ ~DeletesEnd
      BY <1>1, <2>3 DEF Finish, CloseSimulators, CloseCompute, WriteSummary, Flush, Reap, Return,
                        Dies, Delete, Within, evidenceVars
    <2>4. CASE RunTimesOut \/ Interrupt
      BY <1>1, <2>4 DEF RunTimesOut, Interrupt, CancelMain, evidenceVars
    <2>5. ASSUME NEW p \in Procs, Main(p) \/ AuditRun(p) PROVE FALSE
      BY <1>1, <2>5 DEF Main, Start, Dies, AuditRun, runVars, evidenceVars
    <2> QED BY <1>1, <2>1, <2>2, <2>3, <2>4, <2>5 DEF Next, vars, runVars, evidenceVars
  <1>2. RunInvariant /\ [Next]_vars =>
          [snapshot' # snapshot /\ at' = "rebuild" =>
             /\ snapshot'.completed = Cardinality(done)
             /\ snapshot'.failed = Cardinality(Rows \ (done \ faulty))]_vars
    BY <1>1
  <1> QED BY <1>2, RunAlways, PTL DEF Spec, GradesKept
====
