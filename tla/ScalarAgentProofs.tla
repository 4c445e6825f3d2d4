---- MODULE ScalarAgentProofs ----
(***************************************************************************)
(* ScalarAgent for any number of rollouts, any limits and any number of    *)
(* cancellations. The invariant: one call of the agent drives at a time,   *)
(* the model's trace is its own while it asks, and it asks only while the  *)
(* job runs, during which the session is open.                             *)
(***************************************************************************)
EXTENDS ScalarAgent, TLAPS

USE ScalarAssumption

Asking == {"predicting", "acting"}

\* _running tells whether a call drives, and no two do.
OneDriver ==
  /\ \A d \in Rollouts : drive[d] \in Driving => running
  /\ \A c, d \in Rollouts : drive[c] \in Driving /\ drive[d] \in Driving => c = d

\* A call that waits or asks was not cancelled and the job goes on; one that asks does so
\* under its own trace.
WhileRunning ==
  /\ \A d \in Rollouts : drive[d] \in Asking \cup {"waiting"} =>
       at = "running" /\ d \notin timedOut
  /\ \A d \in Rollouts : drive[d] \in Asking => trace = d /\ conn = "ready"
  /\ \A d \in timedOut : drive[d] # "none"

\* The session of a connection that is, or will be, ready is the agent's until it closes.
SessionHeld ==
  /\ conn = "resolving" => held
  /\ conn = "ready" /\ at \in {"opening", "leasing", "running", "releasing"} => held

ScalarInv == ScalarTypeOK /\ OneDriver /\ WhileRunning /\ SessionHeld
             /\ InferenceNamesItsEpisode

-----------------------------------------------------------------------------
(* Types.                                                                   *)

\* Whatever main's clean-up or a cancellation does to the connection has its type.
LEMMA CancelTyped ==
  ASSUME ScalarTypeOK, CancelConnection
  PROVE  /\ conn' \in Connecting \cup {"none", "ready", "failed"} /\ held' \in BOOLEAN
         /\ closer' \in {"none", "running", "closed", "abandoned"}
BY DEF ScalarTypeOK, CancelConnection, TakePolicy, Connecting

LEMMA CloseTyped ==
  ASSUME ScalarTypeOK, Close
  PROVE  /\ conn' \in Connecting \cup {"none", "ready", "failed"} /\ held' \in BOOLEAN
         /\ closer' \in {"none", "running", "closed", "abandoned"} /\ closed' \in BOOLEAN
         /\ at' \in {"gathering", "closing", "exporting", "over"}
BY CancelTyped DEF ScalarTypeOK, Close, After, TakePolicy

LEMMA TypeStep ==
  ASSUME ScalarTypeOK, [ScalarNext]_scalarVars
  PROVE  ScalarTypeOK'
<1>1. CASE Connection
  <2>1. held' \in BOOLEAN
    BY <1>1, Zenon DEF ScalarTypeOK, Connection, Connect, Identify, PolicyCloses,
       ConnectionFails, TakePolicy
  <2> QED
    BY <1>1, <2>1 DEF ScalarTypeOK, Connection, Connect, Identify, PolicyCloses, ConnectionFails,
       TakePolicy, driveVars, mainVars, Connecting
<1>2. CASE \E d \in Rollouts : Drive(d)
  <2> PICK d \in Rollouts : Drive(d)
    BY <1>2
  <2>1. CASE CallAgent(d)
    <3>1. running' \in BOOLEAN
      BY <2>1, Zenon DEF ScalarTypeOK, CallAgent
    <3> QED
      BY <2>1, <3>1 DEF ScalarTypeOK, CallAgent, agentVars, mainVars, Driving
  <2>2. CASE Identified(d)
    <3>1. running' \in BOOLEAN
      BY <2>2, Zenon DEF ScalarTypeOK, Identified, FinishCall
    <3> QED
      BY <2>2, <3>1 DEF ScalarTypeOK, Identified, FinishCall, agentVars, mainVars, Driving
  <2>3. CASE Predict(d)
    BY <2>3 DEF ScalarTypeOK, Predict, agentVars, mainVars, Driving
  <2>4. CASE Predicted(d)
    BY <2>4 DEF ScalarTypeOK, Predicted, agentVars, mainVars, Driving
  <2>5. CASE Act(d)
    BY <2>5 DEF ScalarTypeOK, Act, agentVars, mainVars, Driving
  <2>6. CASE Stop(d)
    BY <2>6 DEF ScalarTypeOK, Stop, agentVars, mainVars, Driving
  <2>7. CASE Unwound(d)
    <3>1. running' \in BOOLEAN
      BY <2>7, Zenon DEF ScalarTypeOK, Unwound, FinishCall
    <3> QED
      BY <2>7, <3>1 DEF ScalarTypeOK, Unwound, FinishCall, agentVars, mainVars, Driving
  <2>8. CASE TimesOut(d)
    <3>1. running' \in BOOLEAN
      BY <2>8, Zenon DEF ScalarTypeOK, TimesOut, CancelDrivers
    <3> QED
      BY <2>8, <3>1 DEF ScalarTypeOK, TimesOut, CancelDrivers, agentVars, mainVars, Driving
  <2> QED
    BY <2>1, <2>2, <2>3, <2>4, <2>5, <2>6, <2>7, <2>8 DEF Drive
<1>3. CASE EnterAgent
  BY <1>3 DEF ScalarTypeOK, EnterAgent, driveVars, Connecting
<1>4. CASE Opened
  BY <1>4, CloseTyped DEF ScalarTypeOK, Opened, agentVars, driveVars
<1>5. CASE Lease
  BY <1>5, CloseTyped DEF ScalarTypeOK, Lease, agentVars, driveVars
<1>6. CASE JobEnds
  <2>1. raising' \in BOOLEAN
    BY <1>6, Zenon DEF ScalarTypeOK, JobEnds
  <2> QED
    BY <1>6, <2>1 DEF ScalarTypeOK, JobEnds, agentVars, driveVars
<1>7. CASE Release
  BY <1>7, CloseTyped DEF ScalarTypeOK, Release, agentVars, driveVars
<1>8. CASE Gathered
  <2>1. raising' \in BOOLEAN /\ held' \in BOOLEAN
    BY <1>8, Zenon DEF ScalarTypeOK, Gathered, TakePolicy
  <2> QED
    BY <1>8, <2>1 DEF ScalarTypeOK, Gathered, After, TakePolicy, driveVars
<1>9. CASE ClosedPolicy
  BY <1>9 DEF ScalarTypeOK, ClosedPolicy, After, agentVars, driveVars
<1>10. CASE Export
  <2>1. raising' \in BOOLEAN
    BY <1>10, Zenon DEF ScalarTypeOK, Export, ExportVideosFails, VerifyPlatform
  <2> QED
    BY <1>10, <2>1 DEF ScalarTypeOK, Export, ExportVideosFails, VerifyPlatform, agentVars, driveVars
<1>11. CASE InterruptMain
  <2>1. scalarInterrupts' \in 0..ScalarInterrupts /\ background' \in BOOLEAN
        /\ summary' \in {"none", "made", "verified", "unverified"}
    BY <1>11 DEF ScalarTypeOK, InterruptMain
  <2>2. CASE at = "running"
    BY <1>11, <2>1, <2>2 DEF ScalarTypeOK, InterruptMain, CancelDrivers, agentVars, Driving
  <2>3. CASE at # "running"
    BY <1>11, <2>1, <2>3, CloseTyped, CancelTyped
    DEF ScalarTypeOK, InterruptMain, agentVars, driveVars
  <2> QED
    BY <2>2, <2>3
<1>12. CASE UNCHANGED scalarVars
  BY <1>12 DEF ScalarTypeOK, scalarVars, agentVars, driveVars, mainVars
<1> QED
  BY <1>1, <1>2, <1>3, <1>4, <1>5, <1>6, <1>7, <1>8, <1>9, <1>10, <1>11, <1>12
  DEF ScalarNext, Evaluate

-----------------------------------------------------------------------------
(* The steps of main and of the connection leave the drivers alone.         *)

\* What remains of the invariant when no driver moves: whoever asks goes on only if
\* the job, its connection and its session do.
LEMMA DriversUntouched ==
  ASSUME ScalarInv, UNCHANGED driveVars,
         \A d \in Rollouts : drive[d] \in Asking \cup {"waiting"} => at' = "running",
         conn = "ready" => conn' = "ready",
         SessionHeld'
  PROVE  OneDriver' /\ WhileRunning' /\ InferenceNamesItsEpisode'
<1>1. OneDriver'
  BY DEF ScalarInv, OneDriver, driveVars
<1>2. WhileRunning'
  BY DEF ScalarInv, WhileRunning, driveVars
<1>3. InferenceNamesItsEpisode'
  BY <1>2 DEF ScalarInv, WhileRunning, SessionHeld, InferenceNamesItsEpisode, driveVars, Asking
<1> QED
  BY <1>1, <1>2, <1>3

\* close() leaves no session behind that would have to be open.
LEMMA CloseHolds ==
  ASSUME ScalarInv, Close
  PROVE  SessionHeld' /\ (conn = "ready" => conn' = "ready")
BY DEF ScalarInv, SessionHeld, Close, CancelConnection, TakePolicy, After, Connecting

\* A cancelled connection either goes on or fails.
LEMMA CancelHolds ==
  ASSUME ScalarInv, CancelConnection, at' \in {at, "abandoning"}
  PROVE  SessionHeld' /\ (conn = "ready" => conn' = "ready")
BY DEF ScalarInv, SessionHeld, CancelConnection, TakePolicy, Connecting

\* Cancelled drivers stop asking; if one of them was waiting, no other drives.
LEMMA DriversCancelled ==
  ASSUME ScalarInv, NEW S \in SUBSET Rollouts, CancelDrivers(S),
         UNCHANGED <<agentVars, inferences>>,
         \A d \in Rollouts : drive'[d] \in Asking \cup {"waiting"} =>
           at' = "running" /\ d \notin timedOut',
         \A d \in timedOut' : drive'[d] # "none"
  PROVE  OneDriver' /\ WhileRunning' /\ InferenceNamesItsEpisode'
<1>1. \A d \in Rollouts : /\ drive'[d] \in Driving => drive[d] \in Driving \ (IF d \in S THEN {"waiting"} ELSE {})
                          /\ drive'[d] \in Asking => drive[d] \in Asking /\ drive'[d] = drive[d]
  BY DEF ScalarInv, ScalarTypeOK, CancelDrivers, Driving, Asking
<1>2. CASE \E d \in S : drive[d] = "waiting"
  <2>1. \A d \in Rollouts : drive'[d] \notin Driving
    BY <1>1, <1>2 DEF ScalarInv, OneDriver, Driving
  <2> QED
    BY <2>1 DEF ScalarInv, OneDriver, WhileRunning, InferenceNamesItsEpisode, Driving, Asking
<1>3. CASE ~ \E d \in S : drive[d] = "waiting"
  <2>1. UNCHANGED <<running, trace>>
    BY <1>3 DEF CancelDrivers
  <2>2. OneDriver'
    BY <1>1, <2>1 DEF ScalarInv, OneDriver
  <2>3. WhileRunning'
    BY <1>1, <2>1 DEF ScalarInv, WhileRunning, agentVars
  <2>4. InferenceNamesItsEpisode'
    BY <1>1 DEF ScalarInv, InferenceNamesItsEpisode, agentVars, Asking
  <2> QED
    BY <2>2, <2>3, <2>4
<1> QED
  BY <1>2, <1>3

-----------------------------------------------------------------------------
(* The invariant.                                                           *)

LEMMA InvStep ==
  ASSUME ScalarInv, [ScalarNext]_scalarVars
  PROVE  ScalarInv'
<1>0. ScalarTypeOK'
  BY TypeStep DEF ScalarInv
<1> SUFFICES OneDriver' /\ WhileRunning' /\ SessionHeld' /\ InferenceNamesItsEpisode'
  BY <1>0 DEF ScalarInv
<1>1. CASE Connection
  <2>1. SessionHeld' /\ UNCHANGED <<driveVars, at>> /\ (conn = "ready" => conn' = "ready")
    BY <1>1 DEF ScalarInv, SessionHeld, Connection, Connect, Identify, PolicyCloses,
       ConnectionFails, TakePolicy, mainVars
  <2> QED
    BY <2>1, DriversUntouched DEF ScalarInv, WhileRunning
<1>2. CASE \E d \in Rollouts : Drive(d)
  <2> PICK d \in Rollouts : Drive(d)
    BY <1>2
  <2>0. UNCHANGED <<agentVars, at>> /\ SessionHeld'
    BY DEF Drive, CallAgent, Identified, Predict, Predicted, Act, Stop, Unwound, TimesOut,
       agentVars, mainVars, ScalarInv, SessionHeld
  <2>1. CASE CallAgent(d)
    <3>1. OneDriver'
      BY <2>1 DEF ScalarInv, ScalarTypeOK, OneDriver, CallAgent, Accepts, Driving
    <3>2. d \notin timedOut
      BY <2>1 DEF ScalarInv, WhileRunning, CallAgent
    <3>3. WhileRunning'
      BY <2>0, <2>1, <3>2 DEF ScalarInv, ScalarTypeOK, WhileRunning, CallAgent,
         Driving, Asking, agentVars
    <3> QED
      BY <2>0, <2>1, <3>1, <3>3 DEF ScalarInv, ScalarTypeOK, InferenceNamesItsEpisode, CallAgent,
         agentVars
  <2>2. CASE Identified(d)
    <3>1. OneDriver' /\ WhileRunning'
      BY <2>0, <2>2 DEF ScalarInv, ScalarTypeOK, OneDriver, WhileRunning, Identified, FinishCall,
         Driving, Asking, agentVars
    <3> QED
      BY <2>0, <2>2, <3>1 DEF ScalarInv, ScalarTypeOK, InferenceNamesItsEpisode, Identified,
         FinishCall, agentVars
  <2>3. CASE Predict(d)
    <3>1. OneDriver' /\ WhileRunning'
      BY <2>0, <2>3 DEF ScalarInv, ScalarTypeOK, OneDriver, WhileRunning, Predict,
         Driving, Asking, agentVars
    <3> QED
      BY <2>0, <2>3, <3>1 DEF ScalarInv, ScalarTypeOK, SessionHeld, WhileRunning,
         InferenceNamesItsEpisode, Predict, Asking, agentVars
  <2>4. CASE Predicted(d)
    <3>1. OneDriver' /\ WhileRunning'
      BY <2>0, <2>4 DEF ScalarInv, ScalarTypeOK, OneDriver, WhileRunning, Predicted,
         Driving, Asking, agentVars
    <3>2. trace = d
      BY <2>4 DEF ScalarInv, WhileRunning, Predicted, Asking
    <3> QED
      BY <2>0, <2>4, <3>1, <3>2 DEF ScalarInv, ScalarTypeOK, InferenceNamesItsEpisode, Predicted,
         agentVars
  <2>5. CASE Act(d)
    BY <2>0, <2>5 DEF ScalarInv, OneDriver, WhileRunning, InferenceNamesItsEpisode, Act, agentVars
  <2>6. CASE Stop(d)
    <3>1. OneDriver' /\ WhileRunning'
      BY <2>0, <2>6 DEF ScalarInv, ScalarTypeOK, OneDriver, WhileRunning, Stop,
         Driving, Asking, agentVars
    <3> QED
      BY <2>0, <2>6, <3>1 DEF ScalarInv, ScalarTypeOK, InferenceNamesItsEpisode, Stop, agentVars
  <2>7. CASE Unwound(d)
    <3>1. OneDriver' /\ WhileRunning'
      BY <2>0, <2>7 DEF ScalarInv, ScalarTypeOK, OneDriver, WhileRunning, Unwound, FinishCall,
         Driving, Asking, agentVars
    <3> QED
      BY <2>0, <2>7, <3>1 DEF ScalarInv, ScalarTypeOK, InferenceNamesItsEpisode, Unwound,
         FinishCall, agentVars
  <2>8. CASE TimesOut(d)
    <3>1. CancelDrivers({d}) /\ UNCHANGED <<agentVars, inferences>> /\ timedOut' = timedOut \cup {d}
      BY <2>8 DEF TimesOut
    <3>2. /\ \A c \in Rollouts : drive'[c] \in Asking \cup {"waiting"} =>
               at' = "running" /\ c \notin timedOut'
          /\ \A c \in timedOut' : drive'[c] # "none"
      BY <2>0, <2>8, <3>1
      DEF ScalarInv, ScalarTypeOK, WhileRunning, TimesOut, CancelDrivers, Asking, Driving
    <3> QED
      BY <2>0, <3>1, <3>2, DriversCancelled
  <2> QED
    BY <2>0, <2>1, <2>2, <2>3, <2>4, <2>5, <2>6, <2>7, <2>8 DEF Drive
<1>3. CASE EnterAgent \/ Opened \/ Lease \/ Release \/ Gathered \/ ClosedPolicy \/ Export
  <2>1. at # "running" /\ UNCHANGED driveVars
    BY <1>3 DEF EnterAgent, Opened, Lease, Release, Gathered, ClosedPolicy, Export
  <2>2. SessionHeld'
    <3>1. CASE Close
      BY <3>1, CloseHolds
    <3>2. CASE EnterAgent
      BY <3>2 DEF EnterAgent, ScalarInv, SessionHeld
    <3>3. CASE (Opened \/ Lease \/ Release) /\ ~Close
      <4>1. UNCHANGED <<conn, held>> /\ at \in {"opening", "leasing"}
        BY <3>3, Zenon DEF Opened, Lease, Release, agentVars
      <4> QED
        BY <4>1 DEF ScalarInv, SessionHeld
    <3>4. CASE Gathered
      BY <3>4 DEF Gathered, After, TakePolicy, Connecting, ScalarInv, SessionHeld
    <3>5. CASE ClosedPolicy \/ Export
      BY <3>5 DEF ClosedPolicy, Export, After, agentVars, ScalarInv, SessionHeld
    <3> QED
      BY <1>3, <3>1, <3>2, <3>3, <3>4, <3>5
  <2>3. \A d \in Rollouts : drive[d] \notin Asking \cup {"waiting"}
    BY <2>1 DEF ScalarInv, WhileRunning
  <2> QED
    BY <2>1, <2>2, <2>3 DEF ScalarInv, OneDriver, WhileRunning, InferenceNamesItsEpisode, driveVars,
       Asking
<1>4. CASE JobEnds
  <2>1. \A d \in Rollouts : drive[d] \notin Asking \cup {"waiting"}
    BY <1>4 DEF ScalarInv, WhileRunning, JobEnds, Returned, Asking
  <2>2. SessionHeld' /\ UNCHANGED driveVars /\ UNCHANGED conn
    BY <1>4 DEF ScalarInv, SessionHeld, JobEnds, agentVars
  <2> QED
    BY <2>1, <2>2, DriversUntouched
<1>5. CASE InterruptMain
  <2>1. CASE at = "running"
    <3>1. /\ CancelDrivers(Rollouts) /\ at' = "releasing"
          /\ UNCHANGED <<agentVars, timedOut, inferences>>
      BY <1>5, <2>1 DEF InterruptMain
    <3>2. /\ \A d \in Rollouts : drive'[d] \notin Asking \cup {"waiting"}
          /\ \A d \in timedOut' : drive'[d] # "none"
      BY <3>1 DEF ScalarInv, ScalarTypeOK, WhileRunning, CancelDrivers, Asking
    <3>3. SessionHeld'
      BY <2>1, <3>1 DEF ScalarInv, SessionHeld, agentVars
    <3> QED
      BY <3>1, <3>2, <3>3, DriversCancelled
  <2>2. CASE at # "running"
    <3>1. UNCHANGED driveVars /\ \A d \in Rollouts : drive[d] \notin Asking \cup {"waiting"}
      BY <1>5, <2>2 DEF InterruptMain, ScalarInv, WhileRunning
    <3>2. SessionHeld' /\ (conn = "ready" => conn' = "ready")
      BY <1>5, <2>2, CloseHolds, CancelHolds DEF InterruptMain, ScalarInv, SessionHeld, agentVars
    <3> QED
      BY <3>1, <3>2, DriversUntouched
  <2> QED
    BY <2>1, <2>2
<1>6. CASE UNCHANGED scalarVars
  BY <1>6 DEF ScalarInv, OneDriver, WhileRunning, SessionHeld, InferenceNamesItsEpisode, scalarVars,
     agentVars, driveVars, mainVars
<1> QED
  BY <1>1, <1>2, <1>3, <1>4, <1>5, <1>6 DEF ScalarNext, Evaluate

LEMMA InvInit == ScalarInit => ScalarInv
<1> SUFFICES ASSUME ScalarInit PROVE ScalarInv
  OBVIOUS
<1>1. 0 \in 0..ChunkSize /\ 0 \in 0..ActionLimit /\ 0 \in 0..ScalarInterrupts
  OBVIOUS
<1>2. ScalarTypeOK
  BY <1>1 DEF ScalarInit, ScalarTypeOK
<1> QED
  BY <1>2 DEF ScalarInit, ScalarInv, OneDriver, WhileRunning, SessionHeld,
     InferenceNamesItsEpisode, Driving, Asking

\* The inductive invariant of the agent and of the program around it.
THEOREM ScalarInvariant == ScalarSpec => []ScalarInv
BY InvInit, InvStep, PTL DEF ScalarSpec

\* Type correctness, for any limits: no rollout sends more actions than its limit.
THEOREM ScalarTyped == ScalarSpec => []ScalarTypeOK
<1>1. ScalarInv => ScalarTypeOK
  BY DEF ScalarInv
<1> QED
  BY <1>1, ScalarInvariant, PTL

\* Every observation goes to an identified, open session and every inference is recorded
\* under the trace of the rollout that asked for it.
THEOREM ScalarInferences == ScalarSpec => []InferenceNamesItsEpisode
<1>1. ScalarInv => InferenceNamesItsEpisode
  BY DEF ScalarInv
<1> QED
  BY <1>1, ScalarInvariant, PTL

-----------------------------------------------------------------------------
(* What becomes of the session.                                             *)

Leaving == {"gathering", "abandoning", "closing", "joining", "exporting", "over"}

\* The agent holds the session of a connection that goes on or is ready, and when it has
\* begun to close, none: it is with the task that closes it.
SessionFollowed ==
  /\ held => conn \in {"resolving", "ready"}
  /\ at \in Leaving => ~held /\ conn \notin {"connecting", "resolving"}
  /\ at = "start" => conn = "none"

LEMMA CancelFollowed ==
  ASSUME SessionFollowed, CancelConnection
  PROVE  /\ held' => conn' \in {"resolving", "ready"}
         /\ conn \in Connecting => ~held' /\ conn' \notin {"connecting", "resolving"}
         /\ at \in Leaving => ~held' /\ conn' \notin {"connecting", "resolving"}
BY DEF SessionFollowed, CancelConnection, TakePolicy, Connecting

LEMMA CloseFollowed == ASSUME SessionFollowed, Close PROVE SessionFollowed'
BY CancelFollowed DEF SessionFollowed, Close, TakePolicy, After, Leaving, Connecting

LEMMA FollowedStep ==
  ASSUME SessionFollowed, [ScalarNext]_scalarVars
  PROVE  SessionFollowed'
<1>1. CASE Connection
  BY <1>1 DEF SessionFollowed, Connection, Connect, Identify, PolicyCloses, ConnectionFails,
     TakePolicy, mainVars, Leaving
<1>2. CASE \E d \in Rollouts : Drive(d)
  <2>1. UNCHANGED <<agentVars, at>>
    BY <1>2 DEF Drive, CallAgent, Identified, Predict, Predicted, Act, Stop, Unwound, TimesOut,
       mainVars
  <2> QED
    BY <2>1 DEF SessionFollowed, agentVars
<1>3. CASE EnterAgent
  BY <1>3 DEF SessionFollowed, EnterAgent, Leaving
<1>4. CASE Opened \/ Lease \/ Release
  <2>1. CASE Close
    BY <2>1, CloseFollowed
  <2>2. CASE ~Close
    <3>1. UNCHANGED <<conn, held>> /\ at' = "running"
      BY <1>4, <2>2, Zenon DEF Opened, Lease, Release, agentVars
    <3> QED
      BY <3>1 DEF SessionFollowed, Leaving
  <2> QED
    BY <2>1, <2>2
<1>5. CASE JobEnds \/ Export
  BY <1>5 DEF SessionFollowed, JobEnds, Export, agentVars, Leaving
<1>6. CASE Gathered \/ ClosedPolicy
  BY <1>6 DEF SessionFollowed, Gathered, ClosedPolicy, After, TakePolicy, agentVars, Leaving
<1>7. CASE InterruptMain
  <2>1. CASE Close
    BY <2>1, CloseFollowed
  <2>2. CASE at \in {"opening", "gathering", "abandoning"} /\ ~Close
    BY <1>7, <2>2, CancelFollowed DEF InterruptMain, SessionFollowed, Leaving
  <2>3. CASE at \notin {"opening", "gathering", "abandoning"} /\ ~Close
    <3>1. /\ UNCHANGED <<conn, held>> /\ at # "start" /\ at' # "start"
          /\ at' \in Leaving => at \in Leaving
      BY <1>7, <2>3 DEF InterruptMain, agentVars, Leaving
    <3> QED
      BY <3>1 DEF SessionFollowed
  <2> QED
    BY <2>1, <2>2, <2>3
<1>8. CASE UNCHANGED scalarVars
  BY <1>8 DEF SessionFollowed, scalarVars, agentVars, mainVars
<1> QED
  BY <1>1, <1>2, <1>3, <1>4, <1>5, <1>6, <1>7, <1>8 DEF ScalarNext, Evaluate

\* However the program is cancelled, it never ends with a session nobody closes: what can
\* go wrong with the session, and does, is that its close is cut short.
THEOREM NothingHeldAtExit == ScalarSpec => [](at = "over" => ~held)
<1>1. ScalarInit => SessionFollowed
  BY DEF ScalarInit, SessionFollowed, Leaving
<1>2. SessionFollowed => (at = "over" => ~held)
  BY DEF SessionFollowed, Leaving
<1> QED
  BY <1>1, <1>2, FollowedStep, PTL DEF ScalarSpec
====
