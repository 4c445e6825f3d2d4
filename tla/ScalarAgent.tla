---- MODULE ScalarAgent ----
(***************************************************************************)
(* DreamscaleRobotAgent, and the program around it: evaluate() of the      *)
(* command line, which connects in the background while it leases one      *)
(* simulator, or a caller of the README's example, which connects first.   *)
(* One inference session serves all rollouts, one after the other; HUD     *)
(* runs each with a timeout of its own. An interrupt may cancel the main   *)
(* task at any await.                                                      *)
(* HUD's runner, the simulator lease and the SDK's session are external.   *)
(***************************************************************************)
EXTENDS Integers, FiniteSets

CONSTANTS
  NumRollouts,     \* rows of the taskset; HUD starts them in order
  ActionLimit,     \* max_steps of a rollout
  ChunkSize,       \* actions of one inference: 10 in the code
  ScalarInterrupts \* bound: cancellations of the main task

ASSUME ScalarAssumption ==
  /\ {NumRollouts, ActionLimit, ChunkSize} \subseteq Nat \ {0}
  /\ ScalarInterrupts \in Nat

Rollouts == 1..NumRollouts
NoTrace == 0  \* a rollout's number is its trace

VARIABLES
  at,          \* the main task
  background,  \* connect_in_background, and a simulator for the whole job
  conn,        \* _connection_task
  held,        \* self._policy is set
  closer,      \* the task of policy.close()
  closed,      \* self._closed
  raising,     \* an exception is on its way out of main
  summary,     \* evaluate's summary, written when main ends
  drive,       \* each rollout's call of the agent
  running,     \* self._running
  trace,       \* model.trace_id
  queue,       \* actions left of a rollout's last chunk
  actions,     \* actions a rollout has sent
  timedOut,    \* rollouts HUD gave up
  inferences,  \* "inference" events: by whom, and under which trace
  scalarInterrupts

agentVars == <<conn, held, closer, closed>>
driveVars == <<drive, running, trace, queue, actions, timedOut, inferences>>
mainVars == <<at, raising, summary, scalarInterrupts>>
scalarVars == <<background, agentVars, driveVars, mainVars>>

Connecting == {"connecting", "resolving", "closing", "joining"}
Driving == {"waiting", "predicting", "acting", "unwinding"}

ScalarTypeOK ==
  /\ at \in {"start", "opening", "leasing", "running", "releasing", "gathering",
             "abandoning", "closing", "joining", "exporting", "over"}
  /\ background \in BOOLEAN /\ held \in BOOLEAN /\ closed \in BOOLEAN
  /\ raising \in BOOLEAN /\ running \in BOOLEAN
  /\ conn \in Connecting \cup {"none", "ready", "failed"}
  /\ closer \in {"none", "running", "closed", "abandoned"}
  /\ summary \in {"none", "made", "verified", "unverified"}
  /\ drive \in [Rollouts -> Driving \cup {"none", "rejected", "ended"}]
  /\ trace \in Rollouts \cup {NoTrace}
  /\ queue \in [Rollouts -> 0..ChunkSize]
  /\ actions \in [Rollouts -> 0..ActionLimit]
  /\ timedOut \subseteq Rollouts
  /\ inferences \subseteq [by : Rollouts, under : Rollouts \cup {NoTrace}]
  /\ scalarInterrupts \in 0..ScalarInterrupts

ScalarInit ==
  /\ at = "start" /\ background \in BOOLEAN
  /\ conn = "none" /\ held = FALSE /\ closer = "none" /\ closed = FALSE
  /\ raising = FALSE /\ summary = "none"
  /\ drive = [d \in Rollouts |-> "none"]
  /\ running = FALSE /\ trace = NoTrace
  /\ queue = [d \in Rollouts |-> 0] /\ actions = [d \in Rollouts |-> 0]
  /\ timedOut = {} /\ inferences = {}
  /\ scalarInterrupts = 0

-----------------------------------------------------------------------------
(* The connection task.                                                     *)

\* _close_policy takes the session out of the agent, so that it closes once, and
\* lets a task of its own close it.
TakePolicy == held' = FALSE /\ closer' = "running"

\* The connector has opened the session, or raises and leaves nothing.
Connect ==
  /\ conn = "connecting"
  /\ \/ conn' = "resolving" /\ held' = TRUE
     \/ conn' = "failed" /\ UNCHANGED held
  /\ UNCHANGED <<background, closer, closed, driveVars, mainVars>>

\* The artifact's identity comes from the session, or from the one live worker; what
\* cannot be identified is closed.
Identify ==
  /\ conn = "resolving"
  /\ \/ conn' = "ready" /\ UNCHANGED <<held, closer>>
     \/ conn' = "closing" /\ TakePolicy
  /\ UNCHANGED <<background, closed, driveVars, mainVars>>

PolicyCloses ==
  /\ closer = "running" /\ closer' = "closed"
  /\ UNCHANGED <<background, conn, held, closed, driveVars, mainVars>>

ConnectionFails ==
  /\ conn \in {"closing", "joining"} /\ closer # "running"
  /\ conn' = "failed"
  /\ UNCHANGED <<background, held, closer, closed, driveVars, mainVars>>

\* The shield takes one cancellation; the next one reaches the task that is awaited
\* without it.
CancelConnection ==
  \/ conn = "connecting" /\ conn' = "failed" /\ UNCHANGED <<held, closer>>
  \/ conn = "resolving" /\ conn' = "closing" /\ TakePolicy
  \/ conn = "closing" /\ conn' = "joining" /\ UNCHANGED <<held, closer>>
  \/ /\ conn = "joining" /\ UNCHANGED <<conn, held>>
     /\ closer' = IF closer = "running" THEN "abandoned" ELSE closer
  \/ conn \notin Connecting /\ UNCHANGED <<conn, held, closer>>

Connection == Connect \/ Identify \/ PolicyCloses \/ ConnectionFails

-----------------------------------------------------------------------------
(* One rollout: the agent is called with its run.                           *)

Returned(d) == drive[d] \in {"rejected", "ended"} \/ d \in timedOut

\* Mutation: the agent takes whoever calls.
AcceptsAlways == ~closed

Accepts == ~closed /\ ~running

\* HUD calls the agent when the rollout before has returned, which a timed-out one
\* does while its driver may still be stopping.
CallAgent(d) ==
  /\ at = "running" /\ drive[d] = "none"
  /\ \A c \in 1..(d - 1) : Returned(c)
  /\ \/ ~Accepts /\ drive' = [drive EXCEPT ![d] = "rejected"] /\ UNCHANGED running
     \/ Accepts /\ drive' = [drive EXCEPT ![d] = "waiting"] /\ running' = TRUE
     \/ Accepts /\ drive' = [drive EXCEPT ![d] = "ended"] /\ UNCHANGED running
  /\ UNCHANGED <<background, agentVars, mainVars>>
  /\ UNCHANGED <<trace, queue, actions, timedOut, inferences>>

\* The finally clause of the call.
FinishCall(d) ==
  /\ drive' = [drive EXCEPT ![d] = "ended"]
  /\ running' = FALSE /\ trace' = NoTrace

\* No observation is submitted before the connection is ready.
Identified(d) ==
  /\ drive[d] = "waiting" /\ conn \in {"ready", "failed"}
  /\ \/ /\ conn = "ready"
        /\ drive' = [drive EXCEPT ![d] = "acting"] /\ trace' = d /\ UNCHANGED running
     \/ conn = "failed" /\ FinishCall(d)
  /\ UNCHANGED <<background, agentVars, mainVars, queue, actions, timedOut, inferences>>

Predict(d) ==
  /\ drive[d] = "acting" /\ queue[d] = 0 /\ actions[d] < ActionLimit
  /\ drive' = [drive EXCEPT ![d] = "predicting"]
  /\ UNCHANGED <<background, agentVars, mainVars>>
  /\ UNCHANGED <<running, trace, queue, actions, timedOut, inferences>>

\* The event is written after the answer, under the trace the model has then.
Predicted(d) ==
  /\ drive[d] = "predicting"
  /\ \/ /\ drive' = [drive EXCEPT ![d] = "acting"]
        /\ queue' = [queue EXCEPT ![d] = ChunkSize]
        /\ inferences' = inferences \cup {[by |-> d, under |-> trace]}
     \/ drive' = [drive EXCEPT ![d] = "unwinding"] /\ UNCHANGED <<queue, inferences>>
  /\ UNCHANGED <<background, agentVars, mainVars, running, trace, actions, timedOut>>

\* Mutation: the tick that only records the last observation acts too.
ActOnLastTick(d) ==
  /\ drive[d] = "acting" /\ queue[d] > 0 /\ actions[d] <= ActionLimit
  /\ queue' = [queue EXCEPT ![d] = @ - 1]
  /\ actions' = [actions EXCEPT ![d] = @ + 1]
  /\ UNCHANGED <<background, agentVars, mainVars>>
  /\ UNCHANGED <<drive, running, trace, timedOut, inferences>>

\* HUD's loop has a tick more than max_steps, to record; should_stop keeps it from acting.
Act(d) ==
  /\ drive[d] = "acting" /\ queue[d] > 0 /\ actions[d] < ActionLimit
  /\ queue' = [queue EXCEPT ![d] = @ - 1]
  /\ actions' = [actions EXCEPT ![d] = @ + 1]
  /\ UNCHANGED <<background, agentVars, mainVars>>
  /\ UNCHANGED <<drive, running, trace, timedOut, inferences>>

\* should_stop, at the limit or because the simulator says so; or the robot is lost.
Stop(d) ==
  /\ drive[d] = "acting"
  /\ drive' = [drive EXCEPT ![d] = "unwinding"]
  /\ UNCHANGED <<background, agentVars, mainVars>>
  /\ UNCHANGED <<running, trace, queue, actions, timedOut, inferences>>

Unwound(d) ==
  /\ drive[d] = "unwinding"
  /\ FinishCall(d)
  /\ UNCHANGED <<background, agentVars, mainVars, queue, actions, timedOut, inferences>>

\* Cancelled drivers: one that waits has nothing to undo, the others HUD's loop closes.
CancelDrivers(S) ==
  /\ drive' = [d \in Rollouts |->
                 IF d \notin S THEN drive[d]
                 ELSE IF drive[d] = "waiting" THEN "ended"
                 ELSE IF drive[d] \in {"predicting", "acting"} THEN "unwinding"
                 ELSE drive[d]]
  /\ IF \E d \in S : drive[d] = "waiting"
       THEN running' = FALSE /\ trace' = NoTrace
       ELSE UNCHANGED <<running, trace>>

\* rollout_timeout
TimesOut(d) ==
  /\ at = "running" /\ drive[d] \in Driving /\ d \notin timedOut
  /\ timedOut' = timedOut \cup {d}
  /\ CancelDrivers({d})
  /\ UNCHANGED <<background, agentVars, mainVars, queue, actions, inferences>>

Drive(d) == CallAgent(d) \/ Identified(d) \/ Predict(d) \/ Predicted(d) \/ Act(d)
            \/ Stop(d) \/ Unwound(d) \/ TimesOut(d)

-----------------------------------------------------------------------------
(* The main task.                                                           *)

EnterAgent ==
  /\ at = "start" /\ at' = IF background THEN "leasing" ELSE "opening"
  /\ conn' = "connecting"
  /\ UNCHANGED <<background, held, closer, closed, driveVars, raising, summary,
                 scalarInterrupts>>

\* Where main goes from the agent's end: the README's example exports nothing.
After == IF raising' \/ ~background THEN "over" ELSE "exporting"

\* close() up to its first await: gather of a task that is done does not suspend.
Close ==
  /\ closed' = TRUE
  /\ \/ conn \in Connecting /\ CancelConnection /\ at' = "gathering"
     \/ conn \notin Connecting /\ held /\ TakePolicy /\ at' = "closing" /\ UNCHANGED conn
     \/ /\ conn \notin Connecting /\ ~held
        /\ at' = After
        /\ UNCHANGED <<conn, held, closer>>

\* Without a background connection __aenter__ awaits it, and closes when it fails.
Opened ==
  /\ at = "opening" /\ conn \in {"ready", "failed"}
  /\ \/ conn = "ready" /\ at' = "running" /\ UNCHANGED <<raising, agentVars>>
     \/ conn = "failed" /\ raising' = TRUE /\ Close
  /\ UNCHANGED <<background, driveVars, summary, scalarInterrupts>>

Lease ==
  /\ at = "leasing"
  /\ \/ at' = "running" /\ UNCHANGED <<raising, agentVars>>
     \/ raising' = TRUE /\ Close
  /\ UNCHANGED <<background, driveVars, summary, scalarInterrupts>>

\* HUD's runner or the summary may raise, the runner also between two rollouts.
JobEnds ==
  /\ at = "running" /\ at' = "releasing"
  /\ \/ /\ \A d \in Rollouts : Returned(d)
        /\ summary' = "made" /\ UNCHANGED raising
     \/ /\ \A d \in Rollouts : drive[d] = "none" \/ Returned(d)
        /\ raising' = TRUE /\ UNCHANGED summary
  /\ UNCHANGED <<background, agentVars, driveVars, scalarInterrupts>>

\* The simulator's context is left first, whether that raises or not.
Release ==
  /\ at = "releasing"
  /\ raising' \in {raising, TRUE}
  /\ Close
  /\ UNCHANGED <<background, driveVars, summary, scalarInterrupts>>

\* After the gather: a cancelled one raises in close(), before _close_policy.
Gathered ==
  /\ at \in {"gathering", "abandoning"} /\ conn \notin Connecting
  /\ \/ /\ at = "gathering" /\ held /\ TakePolicy /\ at' = "closing"
        /\ UNCHANGED raising
     \/ /\ at = "gathering" /\ ~held /\ UNCHANGED <<held, closer, raising>>
        /\ at' = After
     \/ at = "abandoning" /\ at' = "over" /\ raising' = TRUE /\ UNCHANGED <<held, closer>>
  /\ UNCHANGED <<background, conn, closed, driveVars, summary, scalarInterrupts>>

ClosedPolicy ==
  /\ at \in {"closing", "joining"} /\ closer # "running"
  /\ raising' = (raising \/ at = "joining")
  /\ at' = After
  /\ UNCHANGED <<background, agentVars, driveVars, summary, scalarInterrupts>>

\* A trace whose camera segments conflict or have gaps raises.
ExportVideosFails == raising' = TRUE /\ UNCHANGED summary

\* No platform, a trace it lacks and an error of its own all come out as unverified.
VerifyPlatform == summary' \in {"verified", "unverified"} /\ UNCHANGED raising

\* results.json is written however this ends.
Export ==
  /\ at = "exporting" /\ at' = "over"
  /\ ExportVideosFails \/ VerifyPlatform
  /\ UNCHANGED <<background, agentVars, driveVars, scalarInterrupts>>

\* Cancelled while it awaits: the connection, the lease, HUD's runner, the lease's
\* end, the gather, the shielded and the bare close, the exports. A connection that has
\* ended takes no cancellation: it is raised where main awaits it.
InterruptMain ==
  /\ scalarInterrupts < ScalarInterrupts
  /\ scalarInterrupts' = scalarInterrupts + 1
  /\ \/ /\ at = "opening" /\ conn \in Connecting /\ CancelConnection
        /\ UNCHANGED <<at, raising, closed, driveVars>>
     \/ /\ at = "opening" /\ conn \notin Connecting
        /\ raising' = TRUE /\ Close /\ UNCHANGED driveVars
     \/ at = "leasing" /\ raising' = TRUE /\ Close /\ UNCHANGED driveVars
     \/ /\ at = "running" /\ at' = "releasing" /\ raising' = TRUE
        /\ CancelDrivers(Rollouts)
        /\ UNCHANGED <<agentVars, queue, actions, timedOut, inferences>>
     \/ at = "releasing" /\ raising' = TRUE /\ Close /\ UNCHANGED driveVars
     \/ /\ at \in {"gathering", "abandoning"} /\ at' = "abandoning" /\ CancelConnection
        /\ UNCHANGED <<raising, closed, driveVars>>
     \/ at = "closing" /\ at' = "joining" /\ UNCHANGED <<raising, agentVars, driveVars>>
     \/ /\ at = "joining" /\ closer' = IF closer = "running" THEN "abandoned" ELSE closer
        /\ UNCHANGED <<at, raising, conn, held, closed, driveVars>>
     \/ /\ at = "exporting" /\ at' = "over" /\ raising' = TRUE
        /\ UNCHANGED <<agentVars, driveVars>>
  /\ UNCHANGED <<background, summary>>

Evaluate == EnterAgent \/ Opened \/ Lease \/ JobEnds \/ Release \/ Gathered
            \/ ClosedPolicy \/ Export

ScalarNext == Connection \/ Evaluate \/ InterruptMain \/ \E d \in Rollouts : Drive(d)

ScalarSpec == ScalarInit /\ [][ScalarNext]_scalarVars

-----------------------------------------------------------------------------
(* Properties.                                                              *)

\* Every observation goes to a session that was identified and is open, and what the
\* model answers is recorded under the trace of the rollout that asked, although a
\* rollout that timed out may still be stopping when the next one calls.
InferenceNamesItsEpisode ==
  /\ \A d \in Rollouts : drive[d] = "predicting" => conn = "ready" /\ held
  /\ \A i \in inferences : i.under = i.by

\* When the program ends the agent holds no session, and the close of the one it had
\* was not cancelled on the way ("A cancellation must not abandon the billable
\* session cleanup").
SessionClosedAtExit == at = "over" => ~held /\ closer # "abandoned"
====
