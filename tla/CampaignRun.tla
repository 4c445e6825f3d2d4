---- MODULE CampaignRun ----
(***************************************************************************)
(* run() of the invocation that holds the campaign's lock: the HUD build   *)
(* is verified, compute and simulators start together, one worker per lane *)
(* drives the cohort, both contexts close in order, recorded sessions are  *)
(* deleted and the evidence is written. main() of all invocations comes    *)
(* from CampaignLedger. At any await the run's timeout or an interrupt may *)
(* cancel the main task; a process can be killed at any step.              *)
(* What the pool and the provider do inside is RuntimePool's and           *)
(* PooledPredict's; here they are entered, left, or left behind.           *)
(***************************************************************************)
EXTENDS CampaignLedger, FiniteSets

CONSTANTS
  Lanes,           \* concurrency; a lane leases one HUD session
  PerLane,         \* rows of one lane, those of all waves together
  Tolerated,       \* rows that qualify lets fail: 1 of 128 in the code
  DeleteAttempts,  \* 3 in the code
  MaxErrors,       \* bound: rollouts of a run that fail
  MaxInterrupts    \* bound: interrupts from the keyboard

ASSUME SizesAssumption ==
  /\ {PerLane, DeleteAttempts} \subseteq Nat \ {0} /\ Tolerated \in Nat
  /\ {MaxErrors, MaxInterrupts} \subseteq Nat
  /\ IsFiniteSet(Lanes)

VARIABLES
  at,         \* where run() stands
  aborting,   \* the startup's task group has cancelled its children
  provider,   \* the compute context
  pool,       \* the simulator context
  expired,    \* max_run_seconds has passed
  interrupts,
  wave,
  lane,       \* each worker: drive_lane
  turn,       \* the row each worker is at
  asked,      \* cancellations each worker was sent
  done,       \* rows whose rollout returned
  runs,       \* job.runs
  faulty,     \* recorded runs that are integration errors
  leased,     \* sessions of runtime_lease_acquired events
  alive,      \* sessions that exist at HUD
  owned,      \* the sessions to delete, collected in the finally clause
  tries,
  deleted,    \* answered 200, 204 or 404
  snapshot,   \* summarize_cohort's result, in memory
  passing,    \* invocations whose summary.json passes qualify once audited
  sound       \* history: invocations whose episodes did complete

startVars == <<aborting, provider, pool>>
laneVars == <<wave, lane, turn, asked, done, runs, faulty>>
sessionVars == <<leased, alive>>
deleteVars == <<owned, tries, deleted>>
evidenceVars == <<snapshot, passing, sound>>
cancelVars == <<expired, interrupts>>
runVars == <<at, startVars, laneVars, sessionVars, deleteVars, evidenceVars, cancelVars>>
vars == <<ledgerVars, runVars>>

Rows == Lanes \X (1..PerLane)
Timed == {"startup", "job", "cohort", "drain", "simulators", "compute"}
Final == {"deletes", "rebuild", "flush"}
NoSummary == [completed |-> 0, failed |-> Cardinality(Rows), acknowledged |-> FALSE]

PlacesOK ==
  /\ at \in Timed \cup Final \cup {"off", "setup", "over", "reap"}
  /\ aborting \in BOOLEAN /\ expired \in BOOLEAN /\ interrupts \in 0..MaxInterrupts
  /\ provider \in {"out", "entering", "in"}
  /\ pool \in {"out", "entering", "joining", "interrupted", "in", "abandoned"}

WorkersOK ==
  /\ wave \in 0..PerLane
  /\ lane \in [Lanes -> {"none", "rollout", "ended", "raised"}]
  /\ turn \in [Lanes -> 1..PerLane] /\ asked \in [Lanes -> 0..2]
  /\ faulty \subseteq runs /\ runs \subseteq done /\ done \subseteq Rows

SessionsOK ==
  /\ alive \subseteq leased /\ owned \subseteq leased /\ leased \subseteq Lanes
  /\ tries \in [Lanes -> 0..DeleteAttempts] /\ deleted \subseteq owned

TypeOK ==
  /\ LedgerTypeOK /\ PlacesOK /\ WorkersOK /\ SessionsOK
  /\ snapshot \in [completed : Nat, failed : Nat, acknowledged : BOOLEAN]
  /\ passing \subseteq launched /\ sound \subseteq launched

\* A process that is not in run() has none of its state.
RunReset ==
  /\ aborting' = FALSE /\ provider' = "out" /\ pool' = "out"
  /\ wave' = 0 /\ lane' = [l \in Lanes |-> "none"] /\ turn' = [l \in Lanes |-> 1]
  /\ asked' = [l \in Lanes |-> 0]
  /\ done' = {} /\ runs' = {} /\ faulty' = {}
  /\ leased' = {} /\ alive' = {}
  /\ owned' = {} /\ tries' = [l \in Lanes |-> 0] /\ deleted' = {}
  /\ snapshot' = NoSummary
  /\ expired' = FALSE /\ interrupts' = 0

Init ==
  /\ LedgerInit
  /\ at = "off"
  /\ aborting = FALSE /\ provider = "out" /\ pool = "out"
  /\ wave = 0 /\ lane = [l \in Lanes |-> "none"] /\ turn = [l \in Lanes |-> 1]
  /\ asked = [l \in Lanes |-> 0]
  /\ done = {} /\ runs = {} /\ faulty = {}
  /\ leased = {} /\ alive = {}
  /\ owned = {} /\ tries = [l \in Lanes |-> 0] /\ deleted = {}
  /\ snapshot = NoSummary
  /\ expired = FALSE /\ interrupts = 0
  /\ passing = {} /\ sound = {}

-----------------------------------------------------------------------------
(* main() and the end of a process.                                         *)

Start(p) == Launch(p) /\ at' = "setup" /\ RunReset /\ UNCHANGED <<passing, sound>>

\* Killed anywhere, or main() raises. What it rented is not told.
Dies(p) ==
  /\ Leave(p)
  /\ at' = "off" /\ RunReset /\ UNCHANGED <<passing, sound>>

\* The lock holder's run() goes on; main() and the others stand still.
Within(from, to) == at = from /\ at' = to /\ UNCHANGED ledgerVars

-----------------------------------------------------------------------------
(* parallel_startup.                                                        *)

SetupEnds ==
  /\ at = "setup" /\ at' = "startup"
  /\ provider' = "entering" /\ pool' = "entering"
  /\ paying' = paying \cup {lock}
  /\ UNCHANGED <<cell, stage, lock, files, copy, launched, proofs>>
  /\ UNCHANGED <<aborting, laneVars, sessionVars, deleteVars, evidenceVars, cancelVars>>

\* The group cancels each child once. A pool that has failed by itself is joining
\* its lanes in a bare await: interrupted there it never closes.
Abort ==
  /\ aborting' = TRUE
  /\ pool' = IF pool = "joining" /\ ~aborting THEN "interrupted" ELSE pool

\* PooledProvider cleans up a failed or cancelled entry before it raises.
ProviderEnters ==
  /\ Within("startup", "startup")
  /\ provider = "entering"
  /\ \/ ~aborting /\ provider' = "in" /\ UNCHANGED <<aborting, pool>>
     \/ provider' = "out" /\ Abort
  /\ UNCHANGED <<laneVars, sessionVars, deleteVars, evidenceVars, cancelVars>>

\* An exchange with HUD is finished, and recorded, whatever was cancelled: a pool
\* that fails, interrupted or not, joins its lanes first.
Lease(l) ==
  /\ Within("startup", "startup")
  /\ pool \in {"entering", "joining", "interrupted"}
  /\ l \notin leased
  /\ leased' = leased \cup {l} /\ alive' = alive \cup {l}
  /\ UNCHANGED <<startVars, laneVars, deleteVars, evidenceVars, cancelVars>>

\* Leaving the pool deletes sessions; HUD's client hides a DELETE that failed.
PoolCloses == alive' \in SUBSET alive

PoolEnters ==
  /\ Within("startup", "startup")
  /\ \/ /\ pool = "entering" /\ ~aborting
        /\ \/ leased = Lanes /\ pool' = "in"
           \/ pool' = "joining"
        /\ UNCHANGED <<aborting, sessionVars>>
     \/ /\ pool = "joining" \/ (pool = "entering" /\ aborting)
        /\ pool' = "out" /\ aborting' = TRUE
        /\ PoolCloses /\ UNCHANGED leased
     \/ /\ pool = "interrupted" /\ pool' = "abandoned"
        /\ UNCHANGED <<aborting, sessionVars>>
  /\ UNCHANGED <<provider, laneVars, deleteVars, evidenceVars, cancelVars>>

\* Mutation: the startup does not wait for the sibling it cancelled.
JoinNobody ==
  /\ \/ Within("startup", "job") /\ ~aborting /\ provider = "in" /\ pool = "in"
     \/ Within("startup", "simulators") /\ aborting
  /\ UNCHANGED <<startVars, laneVars, sessionVars, deleteVars, evidenceVars, cancelVars>>

JoinStartup ==
  /\ provider # "entering" /\ pool \notin {"entering", "joining", "interrupted"}
  /\ \/ Within("startup", "job") /\ ~aborting
     \/ Within("startup", "simulators") /\ aborting
  /\ UNCHANGED <<startVars, laneVars, sessionVars, deleteVars, evidenceVars, cancelVars>>

-----------------------------------------------------------------------------
(* The waves of a cohort.                                                   *)

\* Scored cells have a barrier between initial states; other cells have one wave.
LastRow == IF cell[lock].kind = "scored" THEN wave ELSE PerLane

\* The worker's loop goes on to the row after this one, if its wave has one.
NextRow(l) ==
  \/ turn[l] = LastRow /\ lane' = [lane EXCEPT ![l] = "ended"] /\ UNCHANGED turn
  \/ turn[l] < LastRow /\ turn' = [turn EXCEPT ![l] = @ + 1] /\ UNCHANGED lane

Errors == Cardinality(faulty) + Cardinality({l \in Lanes : lane[l] = "raised"})

StartJob ==
  /\ \/ /\ Within("job", "cohort")
        /\ wave' = 1 /\ lane' = [l \in Lanes |-> "rollout"]
     \/ Within("job", "simulators") /\ UNCHANGED <<wave, lane>>
  /\ UNCHANGED <<turn, asked, done, runs, faulty>>
  /\ UNCHANGED <<startVars, sessionVars, deleteVars, evidenceVars, cancelVars>>

\* Mutation: a worker records its runs when all of them have returned.
ReturnsUnrecorded(l) ==
  /\ lane[l] = "rollout"
  /\ done' = done \cup {<<l, turn[l]>>}
  /\ runs' = IF turn[l] = LastRow THEN {r \in done' : r[1] = l} \cup runs ELSE runs
  /\ UNCHANGED faulty
  /\ NextRow(l)
  /\ UNCHANGED <<ledgerVars, at, wave, asked>>
  /\ UNCHANGED <<startVars, sessionVars, deleteVars, evidenceVars, cancelVars>>

\* HUD returns a run, good or not, possibly after its worker was cancelled: the
\* worker records it and takes its next row.
RolloutReturns(l) ==
  /\ lane[l] = "rollout"
  /\ done' = done \cup {<<l, turn[l]>>}
  /\ runs' = runs \cup {<<l, turn[l]>>}
  /\ \/ UNCHANGED faulty
     \/ Errors < MaxErrors /\ faulty' = faulty \cup {<<l, turn[l]>>}
  /\ NextRow(l)
  /\ UNCHANGED <<ledgerVars, at, wave, asked>>
  /\ UNCHANGED <<startVars, sessionVars, deleteVars, evidenceVars, cancelVars>>

RolloutRaises(l) ==
  /\ lane[l] = "rollout" /\ Errors < MaxErrors
  /\ lane' = [lane EXCEPT ![l] = "raised"]
  /\ UNCHANGED <<ledgerVars, at, wave, turn, asked, done, runs, faulty>>
  /\ UNCHANGED <<startVars, sessionVars, deleteVars, evidenceVars, cancelVars>>

Running == {l \in Lanes : lane[l] = "rollout"}

WaveEnds ==
  /\ \A l \in Lanes : lane[l] = "ended"
  /\ \/ /\ Within("cohort", "cohort") /\ LastRow < PerLane
        /\ wave' = wave + 1 /\ turn' = [l \in Lanes |-> wave + 1]
        /\ lane' = [l \in Lanes |-> "rollout"]
     \/ Within("cohort", "simulators") /\ LastRow = PerLane /\ UNCHANGED <<wave, turn, lane>>
  /\ UNCHANGED <<asked, done, runs, faulty>>
  /\ UNCHANGED <<startVars, sessionVars, deleteVars, evidenceVars, cancelVars>>

\* Workers that run and were not cancelled before.
CancelWorkers ==
  asked' = [l \in Lanes |-> IF l \in Running /\ asked[l] = 0 THEN 1 ELSE asked[l]]

CohortFails ==
  /\ Within("cohort", "drain")
  /\ \E l \in Lanes : lane[l] = "raised"
  /\ CancelWorkers
  /\ UNCHANGED <<wave, lane, turn, done, runs, faulty>>
  /\ UNCHANGED <<startVars, sessionVars, deleteVars, evidenceVars, cancelVars>>

DrainEnds ==
  /\ Within("drain", "simulators")
  /\ Running = {}
  /\ UNCHANGED <<startVars, laneVars, sessionVars, deleteVars, evidenceVars, cancelVars>>

\* Mutation: no deadline for the workers.
DrainForever == DrainEnds

\* cleanup_timeout: a wedged worker does not keep the paid resources.
DrainTimesOut ==
  /\ Within("drain", "simulators")
  /\ UNCHANGED <<startVars, laneVars, sessionVars, deleteVars, evidenceVars, cancelVars>>

-----------------------------------------------------------------------------
(* The exit stacks and the finally clause.                                  *)

\* Both closes absorb cancellations, and the second runs whatever the first raised.
CloseSimulators ==
  /\ Within("simulators", "compute")
  /\ \/ pool = "in" /\ pool' = "out" /\ PoolCloses
     \/ pool # "in" /\ UNCHANGED <<pool, alive>>
  /\ UNCHANGED <<aborting, provider, leased>>
  /\ UNCHANGED <<laneVars, deleteVars, evidenceVars, cancelVars>>

CloseCompute ==
  /\ Within("compute", "deletes")
  /\ provider' = IF provider = "in" THEN "out" ELSE provider
  /\ owned' = leased
  /\ UNCHANGED <<aborting, pool, laneVars, sessionVars, tries, deleted, evidenceVars, cancelVars>>

\* Mutation: a session is tried until it answers.
DeleteUnbounded(l) ==
  /\ Within("deletes", "deletes")
  /\ l \in owned \ deleted
  /\ tries' = [tries EXCEPT ![l] = @ + 1]
  /\ \/ deleted' = deleted \cup {l} /\ alive' = alive \ {l}
     \/ UNCHANGED deleted /\ alive' \in {alive, alive \ {l}}
  /\ UNCHANGED <<leased, owned, startVars, laneVars, evidenceVars, cancelVars>>

\* A transport error does not tell whether the session was deleted.
Delete(l) ==
  /\ Within("deletes", "deletes")
  /\ l \in owned \ deleted /\ tries[l] < DeleteAttempts
  /\ tries' = [tries EXCEPT ![l] = @ + 1]
  /\ \/ deleted' = deleted \cup {l} /\ alive' = alive \ {l}
     \/ UNCHANGED deleted /\ alive' \in {alive, alive \ {l}}
  /\ UNCHANGED <<leased, owned, startVars, laneVars, evidenceVars, cancelVars>>

\* summarize_cohort: a row without a recorded run is an integration error.
Failed == Cardinality(Rows \ (runs \ faulty))

Summarize(acknowledged) ==
  /\ snapshot' = [completed |-> Cardinality(runs), failed |-> Failed,
                  acknowledged |-> acknowledged]
  /\ sound' = IF Cardinality(done \ faulty) + Tolerated >= Cardinality(Rows)
                THEN sound \cup {lock} ELSE sound
  /\ UNCHANGED passing

\* Mutation: every answered row of the receipt is good, so the receipt is.
DeletesTrusted ==
  /\ Within("deletes", "rebuild")
  /\ Summarize(\A l \in owned : l \in deleted \/ tries[l] = 0)
  /\ tries' = [l \in Lanes |-> 0] /\ deleted' = {} /\ UNCHANGED owned
  /\ UNCHANGED <<startVars, laneVars, sessionVars, cancelVars>>

\* Every session was tried to the end, or the 90 seconds passed, or it raised.
DeletesEnd ==
  /\ Within("deletes", "rebuild")
  /\ \/ /\ \A l \in owned : l \in deleted \/ tries[l] = DeleteAttempts
        /\ Summarize(owned \subseteq deleted)
     \/ Summarize(FALSE)
  /\ tries' = [l \in Lanes |-> 0] /\ deleted' = {} /\ UNCHANGED owned
  /\ UNCHANGED <<startVars, laneVars, sessionVars, cancelVars>>

\* Mutation: completion alone qualifies.
QualifyCompleted(summary, unchanged) ==
  unchanged /\ summary.completed + Tolerated >= Cardinality(Rows)

\* qualify, as far as this run decides it: an audit adds the rest.
Qualify(summary, unchanged) ==
  /\ unchanged
  /\ summary.completed + Tolerated >= Cardinality(Rows)
  /\ summary.failed <= Tolerated

WriteSummary ==
  /\ Within("rebuild", "flush")
  /\ \E unchanged \in BOOLEAN :
       passing' = IF Qualify(snapshot, unchanged) THEN passing \cup {lock} ELSE passing
  /\ UNCHANGED <<snapshot, sound>>
  /\ UNCHANGED <<startVars, laneVars, sessionVars, deleteVars, cancelVars>>

Flush ==
  /\ Within("flush", "over")
  /\ UNCHANGED <<startVars, laneVars, sessionVars, deleteVars, evidenceVars, cancelVars>>

\* asyncio.run cancels what is left, workers a second time, and waits for it.
Reap ==
  /\ Within("over", "reap")
  /\ asked' = [l \in Lanes |-> IF l \in Running THEN asked[l] + 1 ELSE asked[l]]
  /\ UNCHANGED <<wave, lane, turn, done, runs, faulty>>
  /\ UNCHANGED <<startVars, sessionVars, deleteVars, evidenceVars, cancelVars>>

Return ==
  /\ at = "reap" /\ Running = {}
  /\ Dies(lock)

-----------------------------------------------------------------------------
(* Cancellation of the main task.                                           *)

\* Mutation: the workers are cancelled again with every cancellation.
AbsorbedRecancelling ==
  /\ at \in {"drain", "simulators", "compute"} /\ UNCHANGED <<at, startVars>>
  /\ asked' = [l \in Lanes |-> IF at = "drain" /\ l \in Running /\ asked[l] < 2
                                  THEN asked[l] + 1 ELSE asked[l]]

Absorbed ==
  /\ at \in {"drain", "simulators", "compute"}
  /\ UNCHANGED <<at, startVars, asked>>

CancelMain ==
  /\ \/ /\ at = "startup" /\ UNCHANGED <<at, provider, asked>> /\ Abort
     \/ at = "job" /\ at' = "simulators" /\ UNCHANGED <<startVars, asked>>
     \/ at = "cohort" /\ at' = "drain" /\ CancelWorkers /\ UNCHANGED startVars
     \/ Absorbed
     \/ at \in Final \cup {"setup"} /\ at' = "over" /\ UNCHANGED <<startVars, asked>>
  /\ UNCHANGED <<ledgerVars, wave, lane, turn, done, runs, faulty>>
  /\ UNCHANGED <<sessionVars, deleteVars, evidenceVars>>

RunTimesOut ==
  /\ at \in Timed /\ ~expired
  /\ expired' = TRUE /\ UNCHANGED interrupts
  /\ CancelMain

Interrupt ==
  /\ interrupts < MaxInterrupts
  /\ interrupts' = interrupts + 1 /\ UNCHANGED expired
  /\ CancelMain

-----------------------------------------------------------------------------
AuditRun(p) == p \in passing /\ Audit(p) /\ UNCHANGED runVars

Startup == SetupEnds \/ ProviderEnters \/ PoolEnters \/ JoinStartup
           \/ \E l \in Lanes : Lease(l)
Cohort == StartJob \/ WaveEnds \/ CohortFails \/ DrainEnds \/ DrainTimesOut
          \/ \E l \in Lanes : RolloutReturns(l) \/ RolloutRaises(l)
Finish == CloseSimulators \/ CloseCompute \/ DeletesEnd \/ WriteSummary \/ Flush
          \/ Reap \/ Return \/ \E l \in Lanes : Delete(l)
Main(p) == (Reserve(p) /\ UNCHANGED <<paying, runVars>>) \/ Start(p) \/ Dies(p)

Next ==
  \/ Startup \/ Cohort \/ Finish
  \/ RunTimesOut \/ Interrupt
  \/ \E p \in Procs : Main(p) \/ AuditRun(p)

\* The run's deadline and those inside it fire, its own steps are taken. Nothing is
\* assumed of a lease, a rollout, or of workers that are left after the drain.
Fairness ==
  /\ WF_vars(RunTimesOut) /\ WF_vars(ProviderEnters) /\ WF_vars(PoolEnters)
  /\ WF_vars(JoinStartup) /\ WF_vars(DrainTimesOut)
  /\ WF_vars(CloseSimulators) /\ WF_vars(CloseCompute) /\ WF_vars(DeletesEnd)
  /\ WF_vars(WriteSummary) /\ WF_vars(Flush)

Spec == Init /\ [][Next]_vars /\ Fairness

-----------------------------------------------------------------------------
(* Properties.                                                              *)

\* Whatever failed or was cancelled during the startup, both contexts have been
\* left when the final clause deletes sessions, and simulators never outlive the
\* compute they talk to. A pool interrupted while it joins its lanes is the exception
\* shown by RuntimePool's own run.
ClosedInOrder ==
  /\ at \in Final \cup {"over", "reap"} =>
       provider = "out" /\ pool \in {"out", "abandoned"}
  /\ at \in Timed \ {"startup"} /\ provider = "out" => aborting \/ pool # "in"

\* Until the event loop ends no worker is cancelled twice: HUD's handler of the
\* first cancellation is stopping the driver.
CancelledOnce == at # "reap" => \A l \in Lanes : asked[l] <= 1

\* The summary counts every rollout that has returned when it is taken, whoever
\* was cancelled in between, as a run and not as an error unless it is one.
GradesKept ==
  [][snapshot' # snapshot /\ at' = "rebuild" =>
       /\ snapshot'.completed = Cardinality(done)
       /\ snapshot'.failed = Cardinality(Rows \ (done \ faulty))]_vars

\* An acknowledged receipt means that no recorded session exists any more.
AcknowledgedMeansDeleted ==
  snapshot.acknowledged => owned \cap alive = {}

\* No cell is measured unless a qualification of the same setup, run to its end
\* earlier, did complete its episodes, and its evidence was written. Preflight would
\* take the evidence of another measurement; that one had to be admitted too.
MeasuredAfterSoundRun ==
  \A p \in launched : Category(cell[p]) = "vla" =>
    \E q \in sound \cap passing : cell[q].setup = cell[p].setup /\ cell[q].kind = "qualification"

\* Once the resources start, run() ends.
RunEnds == (at = "startup") ~> (at \in {"off", "over", "reap"})
====
