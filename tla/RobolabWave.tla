---- MODULE RobolabWave ----
(***************************************************************************)
(* run_wave and RobolabDreamscaleAgent: HUD drives some episodes at a      *)
(* time, each in a Modal sandbox of its own and with a policy session of   *)
(* its own; afterwards every sandbox is checked, and the summary joins     *)
(* what the agents left on disk. A rollout may time out and the wave may   *)
(* be interrupted at any await, also while an episode cleans up.           *)
(* HUD's runner and its ModalRuntime, Modal, the simulator and the SDK are *)
(* external.                                                               *)
(***************************************************************************)
EXTENDS Integers, FiniteSets

CONSTANTS
  Episodes,
  Concurrency,     \* rollouts that run at a time
  StepLimit,       \* the smallest of the limits of an episode
  Horizon,         \* actions of one chunk
  OpenAttempts,    \* 4 in the code
  WaveInterrupts   \* bound: cancellations of the main task

ASSUME WaveAssumption ==
  /\ {Concurrency, StepLimit, Horizon, OpenAttempts} \subseteq Nat \ {0}
  /\ WaveInterrupts \in Nat /\ IsFiniteSet(Episodes)

VARIABLES
  wave,        \* run_wave
  unchecked,   \* sandbox entries the final check has not come to
  failing,     \* an exception is on its way out of run_wave
  joined,      \* episodes whose evidence is in the summary
  waveInterrupts,
  stage,       \* each episode's rollout, and within it the agent's call
  attempt,     \* session admissions tried
  session,     \* its policy session
  step, chunk, \* of _episode: actions executed, actions left of the last chunk
  cancelled,   \* episodes cancelled by HUD's timeout
  cut,         \* history: episodes cancelled while they cleaned up
  evidence,    \* episode.json files
  exists,      \* sandboxes that run at Modal
  entry,       \* runtime.sandboxes: requested, ready, released
  named,       \* entries that hold an instance_id
  terminated, unknown  \* what the check recorded

callVars == <<stage, attempt, session, step, chunk, cut, evidence>>
sandboxVars == <<exists, entry, named>>
checkVars == <<unchecked, terminated, unknown>>
mainVarsOfWave == <<wave, failing, joined, waveInterrupts>>
waveVars == <<callVars, cancelled, sandboxVars, checkVars, mainVarsOfWave>>

Looping == {"ticking", "predicting", "acting"}
Rolling == {"opening", "dialing", "observing"} \cup Looping
Cleaning == {"hangup", "hangupAgain", "video", "session"}
Ended == {"ended", "never"}

WaveTypeOK ==
  /\ wave \in {"rollouts", "checking", "summary", "over"}
  /\ failing \in BOOLEAN /\ waveInterrupts \in 0..WaveInterrupts
  /\ stage \in [Episodes -> Rolling \cup Cleaning \cup Ended \cup {"none", "placing"}]
  /\ attempt \in [Episodes -> 0..OpenAttempts]
  /\ session \in [Episodes -> {"none", "open", "closed", "failed"}]
  /\ step \in [Episodes -> 0..StepLimit] /\ chunk \in [Episodes -> 0..Horizon]
  /\ entry \in [Episodes -> {"none", "requested", "ready", "released"}]
  /\ {unchecked, joined, cancelled, cut, evidence, exists, named, terminated, unknown} \subseteq SUBSET Episodes

WaveInit ==
  /\ wave = "rollouts" /\ unchecked = {} /\ failing = FALSE /\ joined = {}
  /\ waveInterrupts = 0
  /\ stage = [e \in Episodes |-> "none"]
  /\ attempt = [e \in Episodes |-> 0]
  /\ session = [e \in Episodes |-> "none"]
  /\ step = [e \in Episodes |-> 0] /\ chunk = [e \in Episodes |-> 0]
  /\ cancelled = {} /\ cut = {} /\ evidence = {}
  /\ exists = {} /\ named = {} /\ entry = [e \in Episodes |-> "none"]
  /\ terminated = {} /\ unknown = {}

-----------------------------------------------------------------------------
(* An episode's sandbox.                                                    *)

Occupied == {e \in Episodes : entry[e] \in {"requested", "ready"}}

Place(e) ==
  /\ wave = "rollouts" /\ ~failing /\ stage[e] = "none"
  /\ Cardinality(Occupied) < Concurrency
  /\ stage' = [stage EXCEPT ![e] = "placing"]
  /\ entry' = [entry EXCEPT ![e] = "requested"]
  /\ UNCHANGED <<attempt, session, step, chunk, cut, evidence, cancelled>>
  /\ UNCHANGED <<exists, named, checkVars, mainVarsOfWave>>

\* At Modal; the answer is on its way.
SandboxStarts(e) ==
  /\ stage[e] = "placing" /\ e \notin exists
  /\ exists' = exists \cup {e}
  /\ UNCHANGED <<callVars, cancelled, entry, named, checkVars, mainVarsOfWave>>

SandboxReady(e) ==
  /\ stage[e] = "placing" /\ e \in exists
  /\ stage' = [stage EXCEPT ![e] = "opening"]
  /\ entry' = [entry EXCEPT ![e] = "ready"] /\ named' = named \cup {e}
  /\ UNCHANGED <<attempt, session, step, chunk, cut, evidence, cancelled>>
  /\ UNCHANGED <<exists, checkVars, mainVarsOfWave>>

\* It may not answer in time, or not be told.
PlacingFails(e) ==
  /\ stage[e] = "placing"
  /\ stage' = [stage EXCEPT ![e] = "never"]
  /\ UNCHANGED <<attempt, session, step, chunk, cut, evidence, cancelled>>
  /\ UNCHANGED <<sandboxVars, checkVars, mainVarsOfWave>>

\* It crashes, or what terminated it takes effect.
SandboxStops(e) ==
  /\ e \in exists
  /\ exists' = exists \ {e}
  /\ UNCHANGED <<callVars, cancelled, entry, named, checkVars, mainVarsOfWave>>

\* HUD leaves the sandbox's context when the agent has returned, or was cancelled and
\* may still be cleaning up.
ReleaseSandbox(e) ==
  /\ entry[e] \in {"requested", "ready"}
  /\ stage[e] \in Ended \/ e \in cancelled \/ failing
  /\ entry' = [entry EXCEPT ![e] = "released"]
  /\ UNCHANGED <<callVars, cancelled, exists, named, checkVars, mainVarsOfWave>>

Sandbox(e) == Place(e) \/ SandboxStarts(e) \/ SandboxReady(e) \/ PlacingFails(e)
              \/ SandboxStops(e) \/ ReleaseSandbox(e)

-----------------------------------------------------------------------------
(* The agent's call.                                                        *)

Moves(e, from, to) == stage[e] = from /\ stage' = [stage EXCEPT ![e] = to]

\* What precedes the try clause raises, before the first await.
CallFails(e) ==
  /\ Moves(e, "opening", "ended") /\ attempt[e] = 0
  /\ UNCHANGED <<attempt, session, step, chunk, cut, evidence, cancelled>>
  /\ UNCHANGED <<sandboxVars, checkVars, mainVarsOfWave>>

\* Nothing has stepped yet: an admission that failed for want of a worker is tried again.
OpenSession(e) ==
  /\ \/ /\ stage[e] = "opening" /\ attempt[e] + 1 < OpenAttempts
        /\ attempt' = [attempt EXCEPT ![e] = @ + 1] /\ UNCHANGED <<stage, session>>
     \/ /\ Moves(e, "opening", "dialing")
        /\ session' = [session EXCEPT ![e] = "open"] /\ attempt' = [attempt EXCEPT ![e] = 0]
     \/ /\ Moves(e, "opening", "video")
        /\ attempt' = [attempt EXCEPT ![e] = 0] /\ UNCHANGED session
  /\ UNCHANGED <<step, chunk, cut, evidence, cancelled>>
  /\ UNCHANGED <<sandboxVars, checkVars, mainVarsOfWave>>

\* Only once the session is open: a cold start would outlast the robot's patience.
Dial(e) ==
  /\ Moves(e, "dialing", "observing") \/ Moves(e, "dialing", "video")
  /\ UNCHANGED <<attempt, session, step, chunk, cut, evidence, cancelled>>
  /\ UNCHANGED <<sandboxVars, checkVars, mainVarsOfWave>>

Observe(e) ==
  /\ Moves(e, "observing", "ticking") \/ Moves(e, "observing", "hangupAgain")
  /\ UNCHANGED <<attempt, session, step, chunk, cut, evidence, cancelled>>
  /\ UNCHANGED <<sandboxVars, checkVars, mainVarsOfWave>>

\* The observation is recorded and written to the video, by a thread; the next action is
\* the chunk's next or the first of a new chunk.
Tick(e) ==
  /\ step[e] < StepLimit
  /\ \/ Moves(e, "ticking", "predicting") /\ chunk[e] = 0
     \/ Moves(e, "ticking", "acting") /\ chunk[e] > 0
  /\ UNCHANGED <<attempt, session, step, chunk, cut, evidence, cancelled>>
  /\ UNCHANGED <<sandboxVars, checkVars, mainVarsOfWave>>

PredictChunk(e) ==
  /\ Moves(e, "predicting", "acting")
  /\ chunk' = [chunk EXCEPT ![e] = Horizon]
  /\ UNCHANGED <<attempt, session, step, cut, evidence, cancelled>>
  /\ UNCHANGED <<sandboxVars, checkVars, mainVarsOfWave>>

SendAction(e) ==
  /\ Moves(e, "acting", "ticking") /\ chunk[e] > 0 /\ step[e] < StepLimit
  /\ chunk' = [chunk EXCEPT ![e] = @ - 1] /\ step' = [step EXCEPT ![e] = @ + 1]
  /\ UNCHANGED <<attempt, session, cut, evidence, cancelled>>
  /\ UNCHANGED <<sandboxVars, checkVars, mainVarsOfWave>>

\* The observation ends the episode, the last step was taken, or an await raised. The
\* chunk is the loop's own.
LeaveLoop(e) ==
  /\ stage[e] \in Looping
  /\ stage' = [stage EXCEPT ![e] = "hangup"]
  /\ step' = [step EXCEPT ![e] = 0] /\ chunk' = [chunk EXCEPT ![e] = 0]
  /\ UNCHANGED <<attempt, session, cut, evidence, cancelled>>
  /\ UNCHANGED <<sandboxVars, checkVars, mainVarsOfWave>>

\* robot.close, in the inner and again in the outer finally clause; either may raise.
Hangup(e) ==
  /\ Moves(e, "hangup", "hangupAgain") \/ Moves(e, "hangupAgain", "video")
  /\ UNCHANGED <<attempt, session, step, chunk, cut, evidence, cancelled>>
  /\ UNCHANGED <<sandboxVars, checkVars, mainVarsOfWave>>

\* episode.json is the last thing an agent does.
WriteEvidence(e) == evidence' = evidence \cup {e}

\* Mutation: a video that cannot be closed fails the episode there and then.
VideoErrorRaises(e) ==
  /\ \/ Moves(e, "video", "session") /\ session[e] # "none" /\ UNCHANGED evidence
     \/ Moves(e, "video", "ended") /\ session[e] = "none" /\ WriteEvidence(e)
     \/ Moves(e, "video", "ended") /\ UNCHANGED evidence
  /\ UNCHANGED <<attempt, session, step, chunk, cut, cancelled>>
  /\ UNCHANGED <<sandboxVars, checkVars, mainVarsOfWave>>

\* An error of the video is noted and does not matter.
CloseVideo(e) ==
  /\ \/ Moves(e, "video", "session") /\ session[e] # "none" /\ UNCHANGED evidence
     \/ Moves(e, "video", "ended") /\ session[e] = "none" /\ WriteEvidence(e)
  /\ UNCHANGED <<attempt, session, step, chunk, cut, cancelled>>
  /\ UNCHANGED <<sandboxVars, checkVars, mainVarsOfWave>>

CloseSession(e) ==
  /\ Moves(e, "session", "ended")
  /\ \E result \in {"closed", "failed"} : session' = [session EXCEPT ![e] = result]
  /\ WriteEvidence(e)
  /\ UNCHANGED <<attempt, step, chunk, cut, cancelled>>
  /\ UNCHANGED <<sandboxVars, checkVars, mainVarsOfWave>>

Call(e) == CallFails(e) \/ OpenSession(e) \/ Dial(e) \/ Observe(e) \/ Tick(e) \/ PredictChunk(e)
           \/ SendAction(e) \/ LeaveLoop(e) \/ Hangup(e) \/ CloseVideo(e) \/ CloseSession(e)

\* Where an await that is cancelled leaves the episode. The clauses around the video's
\* and the session's close catch Exception, which a cancellation is not.
CancelledTo(s) ==
  CASE s = "placing" -> "never"
    [] s \in {"opening", "dialing", "hangupAgain"} -> "video"
    [] s \in {"observing", "hangup"} -> "hangupAgain"
    [] s \in Looping -> "hangup"
    [] s \in {"video", "session"} -> "ended"
    [] OTHER -> s

CancelCalls(S) ==
  /\ stage' = [e \in Episodes |-> IF e \in S THEN CancelledTo(stage[e]) ELSE stage[e]]
  /\ cut' = cut \cup {e \in S : stage[e] \in {"video", "session"}}
  /\ attempt' = [e \in Episodes |-> IF e \in S THEN 0 ELSE attempt[e]]
  /\ step' = [e \in Episodes |-> IF e \in S THEN 0 ELSE step[e]]
  /\ chunk' = [e \in Episodes |-> IF e \in S THEN 0 ELSE chunk[e]]
  /\ UNCHANGED <<session, evidence>>

\* ROLLOUT_TIMEOUT_S
RolloutTimesOut(e) ==
  /\ stage[e] \in Rolling \cup Cleaning \cup {"placing"} /\ e \notin cancelled
  /\ wave = "rollouts"
  /\ cancelled' = cancelled \cup {e}
  /\ CancelCalls({e})
  /\ UNCHANGED <<sandboxVars, checkVars, mainVarsOfWave>>

-----------------------------------------------------------------------------
(* The wave.                                                                *)

\* HUD's runner returns, or raises, when it has left every sandbox it requested.
RolloutsEnd ==
  /\ wave = "rollouts" /\ wave' = "checking"
  /\ Occupied = {}
  /\ failing \/ \A e \in Episodes : entry[e] = "released"
  /\ unchecked' = {e \in Episodes : entry[e] = "released"}
  /\ UNCHANGED <<callVars, cancelled, sandboxVars, terminated, unknown>>
  /\ UNCHANGED <<failing, joined, waveInterrupts>>

Checked(e) ==
  /\ wave = "checking" /\ e \in unchecked
  /\ unchecked' = unchecked \ {e}
  /\ UNCHANGED <<callVars, cancelled, sandboxVars, mainVarsOfWave>>

SkipNameless(e) == Checked(e) /\ e \notin named /\ UNCHANGED <<terminated, unknown>>

RecordExit(e) ==
  /\ Checked(e) /\ e \in named \ exists
  /\ UNCHANGED <<terminated, unknown>>

\* Mutation: a survivor is reported only.
ReportSurvivor(e) == Checked(e) /\ e \in named \cap exists /\ UNCHANGED <<terminated, unknown>>

\* It still runs when its grace period is over.
TerminateSurvivor(e) ==
  /\ Checked(e) /\ e \in named \cap exists
  /\ terminated' = terminated \cup {e} /\ UNCHANGED unknown

\* Modal does not answer one of the calls: the error is recorded, the check goes on.
CheckFails(e) ==
  /\ Checked(e) /\ e \in named
  /\ unknown' = unknown \cup {e} /\ UNCHANGED terminated

CheckEnds ==
  /\ wave = "checking" /\ unchecked = {}
  /\ wave' = IF failing THEN "over" ELSE "summary"
  /\ UNCHANGED <<callVars, cancelled, sandboxVars, checkVars, failing, joined, waveInterrupts>>

\* Runs are joined with the episode.json of their trace, when it is there.
Summarize ==
  /\ wave = "summary" /\ wave' = "over"
  /\ joined' = evidence
  /\ UNCHANGED <<callVars, cancelled, sandboxVars, checkVars, failing, waveInterrupts>>

\* HUD cancels what it drives; the check itself is in no one's protection.
InterruptWave ==
  /\ waveInterrupts < WaveInterrupts
  /\ waveInterrupts' = waveInterrupts + 1 /\ failing' = TRUE
  /\ \/ wave = "rollouts" /\ CancelCalls(Episodes) /\ UNCHANGED <<wave, unchecked>>
     \/ wave = "checking" /\ wave' = "over" /\ UNCHANGED <<callVars, unchecked>>
  /\ UNCHANGED <<cancelled, sandboxVars, terminated, unknown, joined>>

Check(e) == SkipNameless(e) \/ RecordExit(e) \/ TerminateSurvivor(e) \/ CheckFails(e)

WaveNext ==
  \/ RolloutsEnd \/ CheckEnds \/ Summarize \/ InterruptWave
  \/ \E e \in Episodes : Sandbox(e) \/ Call(e) \/ RolloutTimesOut(e) \/ Check(e)

WaveSpec == WaveInit /\ [][WaveNext]_waveVars

-----------------------------------------------------------------------------
(* Properties.                                                              *)

\* When the check has come to its end, after a good wave as after one that raised,
\* every sandbox that still runs was terminated by it, or could not be asked about
\* and says so, or never told the runner who it is.
SandboxesAccounted ==
  wave \in {"summary", "over"} /\ unchecked = {} =>
    exists \cap named \subseteq terminated \cup unknown

\* An episode leaves its session open only when a cancellation arrived while it was
\* cleaning up, and then has no episode.json; a close that failed is in it.
SessionsExplained ==
  \A e \in Episodes : stage[e] \in Ended =>
    \/ session[e] \in {"none", "closed"}
    \/ session[e] = "failed" /\ e \in evidence
    \/ e \in cut \ evidence
====
