---- MODULE RobolabWaveProofs ----
(***************************************************************************)
(* RobolabWave for any episodes, limits and cancellations. Two invariants, *)
(* one of the sandboxes and one of the sessions: when the final check      *)
(* begins nothing is being placed any more, and an episode's session is    *)
(* known from the place its call has come to. At the end the two robot     *)
(* programs together, as MCRobots runs them.                               *)
(***************************************************************************)
EXTENDS MCRobots, ScalarAgentProofs

USE WaveAssumption

\* A sandbox that is being placed is requested and nobody has cancelled it; a named one
\* has an entry; after the rollouts no entry is in use.
Placement ==
  /\ \A e \in Episodes : stage[e] = "placing" =>
       entry[e] = "requested" /\ e \notin cancelled /\ ~failing
  /\ \A e \in Episodes : stage[e] = "none" => e \notin cancelled
  /\ \A e \in named : e \in Episodes /\ entry[e] # "none"
  /\ wave # "rollouts" => \A e \in Episodes : entry[e] \notin {"requested", "ready"}

\* Of the named sandboxes the check has come to, those that run are recorded.
CheckedSoFar ==
  wave # "rollouts" => \A e \in named \ unchecked :
    e \in exists => e \in terminated \cup unknown

SandboxInv == WaveTypeOK /\ Placement /\ CheckedSoFar

\* Where the call stands tells what became of the session, until it has ended.
SessionByStage == \A e \in Episodes :
  /\ stage[e] \in {"none", "placing", "opening", "never"} =>
       session[e] = "none" /\ e \notin cut /\ e \notin evidence
  /\ stage[e] \in {"dialing", "observing", "hangup", "hangupAgain", "session"} \cup Looping =>
       session[e] = "open" /\ e \notin cut /\ e \notin evidence
  /\ stage[e] = "video" => session[e] \in {"none", "open"} /\ e \notin cut /\ e \notin evidence
  /\ stage[e] = "ended" => \/ session[e] \in {"none", "closed"}
                           \/ session[e] = "failed" /\ e \in evidence
                           \/ e \in cut \ evidence

-----------------------------------------------------------------------------
(* Types.                                                                   *)

\* A cancellation takes a call to one of its stages.
LEMMA CancelledTyped ==
  ASSUME WaveTypeOK, NEW S \in SUBSET Episodes, CancelCalls(S)
  PROVE  /\ stage' \in [Episodes -> Rolling \cup Cleaning \cup Ended \cup {"none", "placing"}]
         /\ attempt' \in [Episodes -> 0..OpenAttempts]
         /\ step' \in [Episodes -> 0..StepLimit] /\ chunk' \in [Episodes -> 0..Horizon]
         /\ cut' \subseteq Episodes
         /\ UNCHANGED <<session, evidence>>
<1>1. 0 \in 0..OpenAttempts /\ 0 \in 0..StepLimit /\ 0 \in 0..Horizon
  OBVIOUS
<1>2. \A s \in Rolling \cup Cleaning \cup Ended \cup {"none", "placing"} :
        CancelledTo(s) \in Rolling \cup Cleaning \cup Ended \cup {"none", "placing"}
  BY DEF CancelledTo, Rolling, Looping, Cleaning, Ended
<1> QED
  BY <1>1, <1>2 DEF WaveTypeOK, CancelCalls

LEMMA WaveTypeStep ==
  ASSUME WaveTypeOK, [WaveNext]_waveVars
  PROVE  WaveTypeOK'
<1>1. CASE \E e \in Episodes : Sandbox(e)
  BY <1>1 DEF WaveTypeOK, Sandbox, Place, SandboxStarts, SandboxReady, PlacingFails, SandboxStops,
     ReleaseSandbox, callVars, sandboxVars, checkVars, mainVarsOfWave, Rolling, Ended
<1>2. CASE \E e \in Episodes : Call(e)
  <2> PICK e \in Episodes : Call(e)
    BY <1>2
  <2>0. /\ UNCHANGED <<cancelled, sandboxVars, checkVars, mainVarsOfWave, cut>>
        /\ 0 \in 0..OpenAttempts /\ 0 \in 0..StepLimit /\ 0 \in 0..Horizon
        /\ Horizon \in 0..Horizon
    BY DEF Call, CallFails, OpenSession, Dial, Observe, Tick, PredictChunk, SendAction, LeaveLoop, Hangup,
       CloseVideo, CloseSession
  <2>1. CASE CallFails(e) \/ OpenSession(e)
    BY <2>0, <2>1 DEF WaveTypeOK, CallFails, OpenSession, Moves, sandboxVars, checkVars,
       mainVarsOfWave, Rolling, Cleaning, Ended
  <2>2. CASE Dial(e) \/ Observe(e) \/ Hangup(e)
    BY <2>0, <2>2 DEF WaveTypeOK, Dial, Observe, Hangup, Moves, sandboxVars, checkVars,
       mainVarsOfWave, Rolling, Looping, Cleaning
  <2>3. CASE Tick(e) \/ PredictChunk(e) \/ LeaveLoop(e)
    BY <2>0, <2>3 DEF WaveTypeOK, Tick, PredictChunk, LeaveLoop, Moves, sandboxVars, checkVars,
       mainVarsOfWave, Rolling, Looping, Cleaning
  <2>4. CASE SendAction(e)
    <3>1. chunk[e] - 1 \in 0..Horizon /\ step[e] + 1 \in 0..StepLimit
      BY <2>4 DEF WaveTypeOK, SendAction
    <3> QED
      BY <2>0, <2>4, <3>1 DEF WaveTypeOK, SendAction, Moves, sandboxVars, checkVars,
         mainVarsOfWave, Rolling, Looping
  <2>5. CASE CloseVideo(e) \/ CloseSession(e)
    BY <2>0, <2>5 DEF WaveTypeOK, CloseVideo, CloseSession, WriteEvidence, Moves, sandboxVars,
       checkVars, mainVarsOfWave, Cleaning, Ended
  <2> QED
    BY <2>1, <2>2, <2>3, <2>4, <2>5 DEF Call
<1>3. CASE \E e \in Episodes : RolloutTimesOut(e)
  <2> PICK e \in Episodes : RolloutTimesOut(e)
    BY <1>3
  <2>1. CancelCalls({e}) /\ {e} \in SUBSET Episodes
    BY DEF RolloutTimesOut
  <2> QED
    BY <2>1, CancelledTyped
    DEF RolloutTimesOut, WaveTypeOK, sandboxVars, checkVars, mainVarsOfWave
<1>4. CASE \E e \in Episodes : Check(e)
  BY <1>4 DEF WaveTypeOK, Check, Checked, SkipNameless, RecordExit, TerminateSurvivor, CheckFails,
     callVars, sandboxVars, mainVarsOfWave
<1>5. CASE RolloutsEnd \/ CheckEnds \/ Summarize
  BY <1>5 DEF WaveTypeOK, RolloutsEnd, CheckEnds, Summarize, callVars, sandboxVars, checkVars
<1>6. CASE InterruptWave
  <2>1. waveInterrupts' \in 0..WaveInterrupts
    BY <1>6 DEF InterruptWave, WaveTypeOK
  <2> QED
    BY <1>6, <2>1, CancelledTyped DEF InterruptWave, WaveTypeOK, callVars, sandboxVars
<1>7. CASE UNCHANGED waveVars
  BY <1>7 DEF WaveTypeOK, waveVars, callVars, sandboxVars, checkVars, mainVarsOfWave
<1> QED
  BY <1>1, <1>2, <1>3, <1>4, <1>5, <1>6, <1>7 DEF WaveNext

LEMMA WaveTypeInit == ASSUME WaveInit PROVE WaveTypeOK
<1>1. 0 \in 0..OpenAttempts /\ 0 \in 0..StepLimit /\ 0 \in 0..Horizon /\ 0 \in 0..WaveInterrupts
  OBVIOUS
<1>2. /\ attempt \in [Episodes -> 0..OpenAttempts]
      /\ step \in [Episodes -> 0..StepLimit] /\ chunk \in [Episodes -> 0..Horizon]
  BY <1>1 DEF WaveInit
<1>3. /\ session \in [Episodes -> {"none", "open", "closed", "failed"}]
      /\ entry \in [Episodes -> {"none", "requested", "ready", "released"}]
      /\ stage \in [Episodes -> Rolling \cup Cleaning \cup Ended \cup {"none", "placing"}]
  BY DEF WaveInit
<1>4. {unchecked, joined, cancelled, cut, evidence, exists, named, terminated, unknown}
        \subseteq SUBSET Episodes
  BY DEF WaveInit
<1>5. /\ wave \in {"rollouts", "checking", "summary", "over"}
      /\ failing \in BOOLEAN /\ waveInterrupts \in 0..WaveInterrupts
  BY <1>1 DEF WaveInit
<1> QED
  BY <1>2, <1>3, <1>4, <1>5 DEF WaveTypeOK

-----------------------------------------------------------------------------
(* Sandboxes.                                                               *)

\* A cancelled placement is over, and nothing else becomes one.
LEMMA CancelledPlaces ==
  ASSUME WaveTypeOK, NEW S \in SUBSET Episodes, CancelCalls(S), NEW e \in Episodes
  PROVE  /\ stage'[e] = "placing" => stage[e] = "placing" /\ e \notin S
         /\ stage'[e] = "none" => stage[e] = "none"
BY DEF WaveTypeOK, CancelCalls, CancelledTo, Rolling, Looping, Cleaning, Ended

LEMMA SandboxStep ==
  ASSUME SandboxInv, [WaveNext]_waveVars
  PROVE  SandboxInv'
<1>0. WaveTypeOK /\ WaveTypeOK'
  BY WaveTypeStep DEF SandboxInv
<1> SUFFICES Placement' /\ CheckedSoFar'
  BY <1>0 DEF SandboxInv
<1>1. CASE \E e \in Episodes : Sandbox(e)
  <2> PICK e \in Episodes : Sandbox(e)
    BY <1>1
  <2>0. /\ UNCHANGED <<cancelled, checkVars, mainVarsOfWave>>
        /\ named' = named \/ (named' = named \cup {e} /\ stage[e] = "placing")
        /\ exists' \subseteq exists \/ (exists' = exists \cup {e} /\ stage[e] = "placing")
    BY DEF Sandbox, Place, SandboxStarts, SandboxReady, PlacingFails, SandboxStops, ReleaseSandbox,
       sandboxVars
  <2>1. stage[e] = "placing" => wave = "rollouts"
    BY DEF SandboxInv, Placement
  <2>2. CheckedSoFar'
    BY <2>0, <2>1 DEF SandboxInv, CheckedSoFar, checkVars, mainVarsOfWave
  <2>3. Placement'
    <3>1. CASE Place(e)
      BY <1>0, <3>1 DEF SandboxInv, Placement, WaveTypeOK, Place, mainVarsOfWave
    <3>2. CASE SandboxStarts(e) \/ SandboxStops(e)
      BY <3>2 DEF SandboxInv, Placement, SandboxStarts, SandboxStops, mainVarsOfWave, callVars
    <3>3. CASE SandboxReady(e)
      BY <1>0, <2>1, <3>3 DEF SandboxInv, Placement, WaveTypeOK, SandboxReady, mainVarsOfWave
    <3>4. CASE PlacingFails(e)
      BY <1>0, <3>4 DEF SandboxInv, Placement, WaveTypeOK, PlacingFails, mainVarsOfWave, sandboxVars
    <3>5. CASE ReleaseSandbox(e)
      <4>1. stage[e] # "placing"
        BY <3>5 DEF ReleaseSandbox, SandboxInv, Placement, Ended
      <4> QED
        BY <1>0, <3>5, <4>1 DEF SandboxInv, Placement, WaveTypeOK, ReleaseSandbox, mainVarsOfWave,
           callVars
    <3> QED
      BY <3>1, <3>2, <3>3, <3>4, <3>5 DEF Sandbox
  <2> QED
    BY <2>2, <2>3
<1>2. CASE \E e \in Episodes : Call(e)
  <2> PICK e \in Episodes : Call(e)
    BY <1>2
  <2>1. UNCHANGED <<cancelled, sandboxVars, checkVars, mainVarsOfWave>>
    BY DEF Call, CallFails, OpenSession, Dial, Observe, Tick, PredictChunk, SendAction, LeaveLoop, Hangup,
       CloseVideo, CloseSession
  <2>2. \A d \in Episodes : stage'[d] \in {"placing", "none"} => stage'[d] = stage[d]
    BY <1>0 DEF WaveTypeOK, Call, CallFails, OpenSession, Dial, Observe, Tick, PredictChunk, SendAction,
       LeaveLoop, Hangup, CloseVideo, CloseSession, Moves
  <2> QED
    BY <2>1, <2>2 DEF SandboxInv, Placement, CheckedSoFar, sandboxVars, checkVars, mainVarsOfWave
<1>3. CASE \E e \in Episodes : RolloutTimesOut(e)
  <2> PICK e \in Episodes : RolloutTimesOut(e)
    BY <1>3
  <2>1. /\ CancelCalls({e}) /\ cancelled' = cancelled \cup {e}
        /\ stage[e] # "none"
        /\ UNCHANGED <<sandboxVars, checkVars, mainVarsOfWave>>
    BY DEF RolloutTimesOut, Rolling, Looping, Cleaning
  <2>2. \A d \in Episodes : /\ stage'[d] = "placing" => stage[d] = "placing" /\ d # e
                            /\ stage'[d] = "none" => stage[d] = "none"
    BY <1>0, <2>1, CancelledPlaces
  <2> QED
    BY <2>1, <2>2 DEF SandboxInv, Placement, CheckedSoFar, sandboxVars, checkVars, mainVarsOfWave
<1>4. CASE \E e \in Episodes : Check(e)
  <2> PICK e \in Episodes : Check(e)
    BY <1>4
  <2>1. /\ unchecked' = unchecked \ {e}
        /\ terminated \subseteq terminated' /\ unknown \subseteq unknown'
        /\ UNCHANGED <<callVars, cancelled, sandboxVars, mainVarsOfWave>>
    BY DEF Check, SkipNameless, RecordExit, TerminateSurvivor, CheckFails, Checked
  <2>2. e \in named \cap exists => e \in terminated' \cup unknown'
    BY DEF Check, SkipNameless, RecordExit, TerminateSurvivor, CheckFails
  <2> QED
    BY <2>1, <2>2 DEF SandboxInv, Placement, CheckedSoFar, callVars, sandboxVars, mainVarsOfWave
<1>5. CASE RolloutsEnd
  <2>1. \A e \in Episodes : entry[e] \notin {"requested", "ready"}
    BY <1>5 DEF RolloutsEnd, Occupied
  <2>2. named \subseteq unchecked'
    BY <1>0, <1>5, <2>1 DEF RolloutsEnd, SandboxInv, Placement, WaveTypeOK
  <2> QED
    BY <1>5, <2>1, <2>2
    DEF RolloutsEnd, SandboxInv, Placement, CheckedSoFar, callVars, sandboxVars
<1>6. CASE CheckEnds \/ Summarize
  BY <1>6 DEF CheckEnds, Summarize, SandboxInv, Placement, CheckedSoFar, callVars, sandboxVars,
     checkVars
<1>7. CASE InterruptWave
  <2>1. CASE wave = "rollouts"
    <3>1. /\ CancelCalls(Episodes)
          /\ UNCHANGED <<wave, unchecked, cancelled, sandboxVars, terminated, unknown>>
      BY <1>7, <2>1 DEF InterruptWave
    <3>2. \A d \in Episodes : /\ stage'[d] # "placing"
                              /\ stage'[d] = "none" => stage[d] = "none"
      BY <1>0, <3>1, CancelledPlaces
    <3> QED
      BY <2>1, <3>1, <3>2 DEF SandboxInv, Placement, CheckedSoFar, sandboxVars
  <2>2. CASE wave = "checking"
    <3>1. \A d \in Episodes : stage[d] # "placing"
      BY <2>2 DEF SandboxInv, Placement
    <3> QED
      BY <1>7, <2>2, <3>1
      DEF InterruptWave, SandboxInv, Placement, CheckedSoFar, callVars, sandboxVars
  <2> QED
    BY <1>7, <2>1, <2>2 DEF InterruptWave
<1>8. CASE UNCHANGED waveVars
  BY <1>8 DEF SandboxInv, Placement, CheckedSoFar, waveVars, callVars, sandboxVars, checkVars,
     mainVarsOfWave
<1> QED
  BY <1>1, <1>2, <1>3, <1>4, <1>5, <1>6, <1>7, <1>8 DEF WaveNext

-----------------------------------------------------------------------------
(* Sessions.                                                                *)

\* A cancelled call keeps its session where its clauses close it, and is marked where
\* they do not.
LEMMA SessionsCancelled ==
  ASSUME WaveTypeOK, SessionByStage, NEW S \in SUBSET Episodes, CancelCalls(S)
  PROVE  SessionByStage'
<1> SUFFICES ASSUME NEW e \in Episodes PROVE SessionByStage!(e)'
  BY DEF SessionByStage
<1>1. /\ UNCHANGED <<session, evidence>>
      /\ stage'[e] = IF e \in S THEN CancelledTo(stage[e]) ELSE stage[e]
      /\ e \in cut' <=> e \in cut \/ (e \in S /\ stage[e] \in {"video", "session"})
  BY DEF CancelCalls
<1>2. stage[e] \in Rolling \cup Cleaning \cup Ended \cup {"none", "placing"}
  BY DEF WaveTypeOK
<1> QED
  BY <1>1, <1>2 DEF SessionByStage, CancelledTo, Rolling, Looping, Cleaning, Ended

LEMMA SessionStep ==
  ASSUME WaveTypeOK, SessionByStage, [WaveNext]_waveVars
  PROVE  SessionByStage'
<1>1. CASE \E e \in Episodes : Sandbox(e)
  BY <1>1 DEF WaveTypeOK, SessionByStage, Sandbox, Place, SandboxStarts, SandboxReady, PlacingFails,
     SandboxStops, ReleaseSandbox, callVars, Looping
<1>2. CASE \E e \in Episodes : Call(e)
  <2> PICK e \in Episodes : Call(e)
    BY <1>2
  <2>1. CASE CallFails(e) \/ OpenSession(e)
    BY <2>1 DEF WaveTypeOK, SessionByStage, CallFails, OpenSession, Moves, Looping
  <2>2. CASE Dial(e) \/ Observe(e) \/ Hangup(e)
    BY <2>2 DEF WaveTypeOK, SessionByStage, Dial, Observe, Hangup, Moves, Looping
  <2>3. CASE Tick(e) \/ PredictChunk(e) \/ SendAction(e) \/ LeaveLoop(e)
    BY <2>3 DEF WaveTypeOK, SessionByStage, Tick, PredictChunk, SendAction, LeaveLoop, Moves, Looping
  <2>4. CASE CloseVideo(e)
    BY <2>4 DEF WaveTypeOK, SessionByStage, CloseVideo, WriteEvidence, Moves, Looping
  <2>5. CASE CloseSession(e)
    BY <2>5 DEF WaveTypeOK, SessionByStage, CloseSession, WriteEvidence, Moves, Looping
  <2> QED
    BY <2>1, <2>2, <2>3, <2>4, <2>5 DEF Call
<1>3. CASE \E e \in Episodes : RolloutTimesOut(e)
  BY <1>3, SessionsCancelled DEF RolloutTimesOut
<1>4. CASE \E e \in Episodes : Check(e)
  BY <1>4 DEF SessionByStage, Check, Checked, SkipNameless, RecordExit, TerminateSurvivor,
     CheckFails, callVars
<1>5. CASE RolloutsEnd \/ CheckEnds \/ Summarize
  BY <1>5 DEF SessionByStage, RolloutsEnd, CheckEnds, Summarize, callVars
<1>6. CASE InterruptWave
  <2>1. CASE CancelCalls(Episodes)
    BY <2>1, SessionsCancelled
  <2>2. CASE UNCHANGED callVars
    BY <2>2 DEF SessionByStage, callVars
  <2> QED
    BY <1>6, <2>1, <2>2 DEF InterruptWave
<1>7. CASE UNCHANGED waveVars
  BY <1>7 DEF SessionByStage, waveVars, callVars
<1> QED
  BY <1>1, <1>2, <1>3, <1>4, <1>5, <1>6, <1>7 DEF WaveNext

-----------------------------------------------------------------------------
(* Theorems.                                                                *)

LEMMA SandboxInvInit == WaveInit => SandboxInv
BY WaveTypeInit DEF WaveInit, SandboxInv, Placement, CheckedSoFar

\* The sandboxes' invariant, with type correctness, for any episodes and limits.
THEOREM WaveInvariant == WaveSpec => []SandboxInv
BY SandboxInvInit, SandboxStep, PTL DEF WaveSpec

\* Once the final check is through, a sandbox that runs was terminated by it, could not be
\* asked about, or never had a name.
THEOREM WaveSandboxes == WaveSpec => []SandboxesAccounted
<1>1. SandboxInv => SandboxesAccounted
  BY DEF SandboxInv, CheckedSoFar, SandboxesAccounted
<1> QED
  BY <1>1, WaveInvariant, PTL

\* A session is left open only by a cancellation that fell into its episode's clean-up, and
\* an episode that reports its end reports what became of the session.
THEOREM WaveSessions == WaveSpec => []SessionsExplained
<1>1. WaveInit => SessionByStage
  BY DEF WaveInit, SessionByStage, Looping
<1>2. SandboxInv /\ SessionByStage /\ [WaveNext]_waveVars => SessionByStage'
  BY SessionStep DEF SandboxInv
<1>3. SandboxInv /\ SessionByStage => SessionsExplained
  BY DEF SessionByStage, SessionsExplained, Ended
<1> QED
  BY <1>1, <1>2, <1>3, WaveInvariant, PTL DEF WaveSpec

-----------------------------------------------------------------------------
(* The two programs.                                                        *)

\* Type correctness of whichever program drives the robots; the other one rests in its
\* initial state.
THEOREM RobotsTyped == Spec => []TypeOK
<1>1. Init => TypeOK
  BY InvInit, WaveTypeInit DEF Init, TypeOK, ScalarInv
<1>2. TypeOK /\ [Next]_<<program, scalarVars, waveVars>> => TypeOK'
  BY TypeStep, WaveTypeStep DEF TypeOK, Next
<1> QED
  BY <1>1, <1>2, PTL DEF Spec

\* What holds of each program by itself holds of the one that runs: its inferences name
\* their episode, its sandboxes are accounted for and its sessions explained.
THEOREM RobotsSafe ==
  Spec => [](InferenceNamesItsEpisode /\ SandboxesAccounted /\ SessionsExplained)
<1> DEFINE RobotsInv == ScalarInv /\ SandboxInv /\ SessionByStage
<1>1. Init => RobotsInv
  <2>1. WaveInit => SessionByStage
    BY DEF WaveInit, SessionByStage, Looping
  <2> QED
    BY <2>1, InvInit, SandboxInvInit DEF Init
<1>2. RobotsInv /\ [Next]_<<program, scalarVars, waveVars>> => RobotsInv'
  <2> SUFFICES ASSUME RobotsInv, [Next]_<<program, scalarVars, waveVars>> PROVE RobotsInv'
    OBVIOUS
  <2>1. [ScalarNext]_scalarVars /\ [WaveNext]_waveVars
    BY DEF Next
  <2>2. ScalarInv'
    BY <2>1, InvStep
  <2>3. SandboxInv'
    BY <2>1, SandboxStep
  <2>4. SessionByStage'
    BY <2>1, SessionStep DEF SandboxInv
  <2> QED
    BY <2>2, <2>3, <2>4
<1>3. RobotsInv => InferenceNamesItsEpisode /\ SandboxesAccounted /\ SessionsExplained
  BY DEF ScalarInv, SandboxInv, CheckedSoFar, SandboxesAccounted, SessionByStage,
         SessionsExplained, Ended
<1> QED
  BY <1>1, <1>2, <1>3, PTL DEF Spec
====
