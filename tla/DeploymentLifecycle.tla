---- MODULE DeploymentLifecycle ----
(***************************************************************************)
(* The life of a PooledProvider's deployment: __aenter__ creates it and    *)
(* waits until it serves, close and _cleanup stop it. Creation answers can *)
(* be lost, rejected or late, every await can raise, be cancelled or run   *)
(* into a timeout. What happens on the slots meanwhile is PooledPredict's. *)
(* Entry, close and cleanup run one after the other, so one stage tells    *)
(* where the program awaits. A journal is configured.                      *)
(***************************************************************************)
EXTENDS Naturals

CONSTANTS
  MaxCalls,   \* bound: creation calls of one provider
  NoJob       \* deployment is None

\* The idempotency keys a provider could send; it has one only (_key).
Keys == 0..MaxCalls

ASSUME MaxCallsAssumption == MaxCalls \in Nat
ASSUME NoJobAssumption == NoJob \notin Keys

VARIABLES
  stage,        \* the await the entry or the cleanup stands at
  calls,        \* _creation_calls
  attempted,    \* _create_attempted
  deployment,   \* deployment: the key of the job whose identity is known
  rows,         \* phases of the durable journal rows
  watch,        \* is _status_task running?
  statusError,  \* _status_error is set
  evidence,     \* _cleanup_evidence_errors is not empty
  failure,      \* failure is set in _cleanup
  confirmed,    \* cleanup_confirmed
  wire,         \* creation calls the gateway has not processed yet
  reply,        \* its answer to the last creation call
  job,          \* its job for each idempotency key
  stopSent      \* keys whose job it was asked to stop

creation == <<calls, attempted, deployment>>
reports == <<watch, statusError, evidence, failure, confirmed>>
gateway == <<wire, reply, job, stopSent>>
vars == <<stage, creation, rows, reports, gateway>>

\* Stages of __aenter__; those in Timed count against ready_timeout. A loop's
\* sleep is part of the await it leads back to.
Timed == {"create", "deployment_created", "query", "connect"}
Entry == Timed \cup {"creation_intent", "ready"}

\* Stages of _cleanup inside its close_timeout, and all of them.
Draining == {"drain", "recreate", "stop_intent", "stop", "stop status", "stopped"}
Stages == Entry \cup Draining
          \cup {"serving", "scheduled", "cleanup_uncertain", "clients", "closed"}

\* Stages that use the job's identity.
Known == {"deployment_created", "query", "connect", "ready", "serving",
          "stop_intent", "stop", "stop status", "stopped"}

Replies == {"none", "created", "rejected", "error"}
JobStates == {"none", "starting", "ready", "draining", "failed", "stopped"}
Running == {"starting", "ready", "draining"}
Phases == {"creation_intent", "deployment_created", "ready", "stop_intent",
           "stopped", "cleanup_uncertain"}

TypeOK ==
  /\ stage \in Stages
  /\ calls \in 0..MaxCalls
  /\ attempted \in BOOLEAN
  /\ deployment \in Keys \cup {NoJob}
  /\ rows \in SUBSET Phases
  /\ watch \in BOOLEAN /\ statusError \in BOOLEAN
  /\ evidence \in BOOLEAN /\ failure \in BOOLEAN /\ confirmed \in BOOLEAN
  /\ wire \in SUBSET (1..MaxCalls)
  /\ reply \in Replies
  /\ job \in [Keys -> JobStates]
  /\ stopSent \in SUBSET Keys
  /\ wire # {} => calls > 0
  /\ stage \in Known => deployment # NoJob

\* The journal is open and __aenter__ awaits its first checkpoint.
Init ==
  /\ stage = "creation_intent"
  /\ calls = 0
  /\ attempted = FALSE
  /\ deployment = NoJob
  /\ rows = {}
  /\ watch = FALSE /\ statusError = FALSE
  /\ evidence = FALSE /\ failure = FALSE /\ confirmed = FALSE
  /\ wire = {}
  /\ reply = "none"
  /\ job = [k \in Keys |-> "none"]
  /\ stopSent = {}

-----------------------------------------------------------------------------
(* _create, called by the entry and again by the cleanup.                   *)

Goes(from, to) == stage = from /\ stage' = to

\* Mutation: every creation call has a key of its own.
FreshKey(n) == n

\* _key is drawn once, in __init__.
CreationKey(n) == 0

SendCreation ==
  /\ calls < MaxCalls
  /\ calls' = calls + 1
  /\ wire' = wire \cup {calls + 1}
  /\ reply' = "none"
  /\ UNCHANGED <<job, stopSent>>

Creating == stage \in {"create", "recreate"}

\* A stage that writes a row is named after it.
WriteRow == rows' = rows \cup ({stage} \cap Phases)

\* __aenter__'s except clause calls close. A protected write still ends.
FailEntry ==
  /\ stage' = "scheduled"
  /\ WriteRow \/ UNCHANGED rows
  /\ UNCHANGED reports

\* _cleanup's except clause.
FailCleanup ==
  /\ stage' = "cleanup_uncertain"
  /\ failure' = TRUE
  /\ WriteRow \/ UNCHANGED rows
  /\ UNCHANGED <<watch, statusError, evidence, confirmed>>

CreationSucceeds ==
  /\ Creating
  /\ reply = "created"
  /\ deployment' = CreationKey(calls)
  /\ stage' = IF stage = "create" THEN "deployment_created" ELSE "stop_intent"
  /\ UNCHANGED <<calls, attempted, rows, reports, gateway>>

\* A transport error, and the next call: the last may still reach the gateway.
CreationRetried ==
  /\ Creating
  /\ SendCreation
  /\ UNCHANGED <<stage, attempted, deployment, rows, reports>>

\* Mutation: any explicit rejection is taken for "nothing allocated".
RejectionTrusted ==
  /\ Creating
  /\ reply \in {"rejected", "error"}
  /\ attempted' = (reply # "rejected")
  /\ IF stage = "create" THEN FailEntry ELSE FailCleanup
  /\ UNCHANGED <<calls, deployment, gateway>>

\* A DreamscaleError. Only the explicit rejection of the first call means that
\* nothing was allocated.
CreationRefused ==
  /\ Creating
  /\ reply \in {"rejected", "error"}
  /\ attempted' = ~(calls = 1 /\ reply = "rejected")
  /\ IF stage = "create" THEN FailEntry ELSE FailCleanup
  /\ UNCHANGED <<calls, deployment, gateway>>

-----------------------------------------------------------------------------
(* __aenter__.                                                              *)

\* A validated answer about our own job with one of these statuses.
Answered(states) == job[deployment] \in states

\* Mutation: the creation is not announced in the journal.
CreateUnannounced ==
  /\ Goes("creation_intent", "create")
  /\ SendCreation
  /\ attempted' = TRUE
  /\ UNCHANGED <<deployment, rows, reports>>

\* The creation_intent row is durable before the first creation call.
WriteIntent ==
  /\ Goes("creation_intent", "create")
  /\ WriteRow
  /\ SendCreation
  /\ attempted' = TRUE
  /\ UNCHANGED <<deployment, reports>>

WriteCreated ==
  /\ Goes("deployment_created", "query")
  /\ WriteRow
  /\ UNCHANGED <<creation, reports, gateway>>

\* Enough robots are ready; until then the query is repeated.
StatusReady ==
  /\ Goes("query", "connect")
  /\ Answered({"ready"})
  /\ UNCHANGED <<creation, rows, reports, gateway>>

Connected ==
  /\ Goes("connect", "ready")
  /\ UNCHANGED <<creation, rows, reports, gateway>>

\* The entry ends; the watch over the authority begins.
WriteReady ==
  /\ Goes("ready", "serving")
  /\ WriteRow
  /\ watch' = TRUE
  /\ UNCHANGED <<creation, statusError, evidence, failure, confirmed, gateway>>

\* Anything else in __aenter__ raises: a failed write, an answer that does not
\* validate, a status that will never serve, a connection, a cancellation.
EntryRaises ==
  /\ stage \in Entry
  /\ FailEntry
  /\ UNCHANGED <<creation, gateway>>

\* Mutation: __aenter__ without its ready_timeout.
EntryUnbounded == stage \in {} /\ FALSE

ReadyTimesOut ==
  /\ stage \in Timed
  /\ FailEntry
  /\ UNCHANGED <<creation, gateway>>

-----------------------------------------------------------------------------
(* close and _cleanup.                                                      *)

Close ==
  /\ Goes("serving", "scheduled")
  /\ UNCHANGED <<creation, rows, reports, gateway>>

\* The watch loses the authority and schedules the cleanup, or finds it scheduled.
WatchFails ==
  /\ watch
  /\ watch' = FALSE
  /\ statusError' = TRUE
  /\ stage' = "scheduled"
  /\ UNCHANGED <<creation, rows, evidence, failure, confirmed, gateway>>

CleanupStarts ==
  /\ Goes("scheduled", "drain")
  /\ watch' = FALSE
  /\ UNCHANGED <<creation, rows, statusError, evidence, failure, confirmed, gateway>>

\* The drivers have left: was a creation ever attempted and not rejected?
DrainedUnallocated ==
  /\ Goes("drain", "clients")
  /\ ~attempted
  /\ confirmed' = TRUE
  /\ UNCHANGED <<creation, rows, watch, statusError, evidence, failure, gateway>>

\* A creation whose answer never came is repeated with the same key, to learn
\* what is to be stopped.
DrainedUnknown ==
  /\ Goes("drain", "recreate")
  /\ attempted /\ deployment = NoJob
  /\ SendCreation
  /\ UNCHANGED <<attempted, deployment, rows, reports>>

\* Mutation: the identity is not asked for.
DrainedUnchecked ==
  /\ Goes("drain", "stop_intent")
  /\ attempted
  /\ UNCHANGED <<creation, rows, reports, gateway>>

DrainedAllocated ==
  /\ Goes("drain", "stop_intent")
  /\ attempted /\ deployment # NoJob
  /\ UNCHANGED <<creation, rows, reports, gateway>>

\* Mutation: a failed write is forgotten.
CleanupRowForgotten ==
  /\ WriteRow \/ UNCHANGED rows
  /\ UNCHANGED <<creation, watch, statusError, evidence, failure, confirmed, gateway>>

\* _cleanup_checkpoint and the events around it: a failure, with or without its
\* row on disk, is kept as evidence and goes no further.
CleanupRow ==
  /\ \/ WriteRow /\ UNCHANGED evidence
     \/ (WriteRow \/ UNCHANGED rows) /\ evidence' = TRUE
  /\ UNCHANGED <<creation, watch, statusError, failure, confirmed, gateway>>

WriteStopIntent == Goes("stop_intent", "stop") /\ CleanupRow

StopAccepted ==
  /\ Goes("stop", "stop status")
  /\ stopSent' = stopSent \cup {deployment}
  /\ UNCHANGED <<creation, rows, reports, wire, reply, job>>

\* A transport error, whose stop arrived nevertheless. (One that did not arrive,
\* or lost a race, is sent again.)
StopUnanswered ==
  /\ stage = "stop"
  /\ stopSent' = stopSent \cup {deployment}
  /\ UNCHANGED <<stage, creation, rows, reports, wire, reply, job>>

StatusStopped ==
  /\ Goes("stop status", "stopped")
  /\ Answered({"stopped"})
  /\ confirmed' = TRUE
  /\ UNCHANGED <<creation, rows, watch, statusError, evidence, failure, gateway>>

\* Another status, a transport error or a lost race: stop again.
StatusUndecided ==
  /\ Goes("stop status", "stop")
  /\ UNCHANGED <<creation, rows, reports, gateway>>

WriteStopped == Goes("stopped", "clients") /\ CleanupRow

\* An error that is not retried: authentication, ownership, another identity.
CleanupRaises ==
  /\ stage \in {"recreate", "stop", "stop status"}
  /\ FailCleanup
  /\ UNCHANGED <<creation, gateway>>

\* Mutation: _cleanup without its close_timeout.
CleanupUnbounded == stage \in {} /\ FALSE

\* close_timeout covers everything from the drain to the "stopped" row.
CleanupTimesOut ==
  /\ stage \in Draining
  /\ FailCleanup
  /\ UNCHANGED <<creation, gateway>>

WriteUncertain == Goes("cleanup_uncertain", "clients") /\ CleanupRow

\* The SDK clients and the journal are closed, or fail to.
CloseClients ==
  /\ Goes("clients", "closed")
  /\ UNCHANGED evidence \/ evidence' = TRUE
  /\ UNCHANGED failure \/ failure' = TRUE
  /\ UNCHANGED <<creation, rows, watch, statusError, confirmed, gateway>>

-----------------------------------------------------------------------------
(* The gateway (external).                                                  *)

\* A creation call creates the job of its key once, and answers with it.
GatewayCreates(n) ==
  /\ n \in wire
  /\ wire' = wire \ {n}
  /\ job' = [job EXCEPT ![CreationKey(n)] = IF @ = "none" THEN "starting" ELSE @]
  /\ reply' = IF n = calls THEN "created" ELSE reply
  /\ UNCHANGED <<stage, creation, rows, reports, stopSent>>

\* A call may be rejected even if an earlier one with its key was not.
GatewayRefuses(n) ==
  /\ n \in wire
  /\ wire' = wire \ {n}
  /\ reply' \in (IF n = calls THEN {"rejected", "error"} ELSE {reply})
  /\ UNCHANGED <<stage, creation, rows, reports, job, stopSent>>

JobBecomes(k, s) ==
  /\ job' = [job EXCEPT ![k] = s]
  /\ UNCHANGED <<stage, creation, rows, reports, wire, reply, stopSent>>

\* A job comes up, fails, expires or stops, and stops when asked to.
JobMoves(k) ==
  \/ job[k] = "starting" /\ JobBecomes(k, "ready")
  \/ job[k] \in {"starting", "ready"} /\ JobBecomes(k, "failed")
  \/ job[k] \in {"starting", "ready"} /\ JobBecomes(k, "draining")
  \/ job[k] = "draining" /\ JobBecomes(k, "stopped")
  \/ k \in stopSent /\ job[k] \in Running \cup {"failed"} /\ JobBecomes(k, "stopped")

-----------------------------------------------------------------------------
Create == CreationSucceeds \/ CreationRetried \/ CreationRefused

Enter == WriteIntent \/ WriteCreated \/ StatusReady \/ Connected \/ WriteReady
         \/ EntryRaises

Cleanup == CleanupStarts \/ DrainedUnallocated \/ DrainedUnknown \/ DrainedAllocated
           \/ WriteStopIntent \/ StopAccepted \/ StopUnanswered \/ StatusStopped
           \/ StatusUndecided \/ WriteStopped \/ CleanupRaises \/ WriteUncertain
           \/ CloseClients

Gateway == \/ \E n \in 1..MaxCalls : GatewayCreates(n) \/ GatewayRefuses(n)
           \/ \E k \in Keys : JobMoves(k)

Next == Create \/ Enter \/ ReadyTimesOut \/ Close \/ WatchFails \/ Cleanup
        \/ CleanupTimesOut \/ Gateway

\* Timeouts fire whatever the loops they bound do, and what no timeout bounds
\* ends: a file's write, the scheduling of a task, the bounded client closing.
\* Nothing is assumed of the gateway, of other awaits or of the caller.
Fairness ==
  /\ WF_vars(ReadyTimesOut)
  /\ WF_vars(CleanupTimesOut)
  /\ WF_vars(WriteIntent \/ WriteReady \/ WriteUncertain \/ CleanupStarts \/ CloseClients)

Spec == Init /\ [][Next]_vars
FairSpec == Spec /\ Fairness

-----------------------------------------------------------------------------
(* Properties.                                                              *)

\* May a job run now, or come up later from a call still on its way?
MayRun == \/ \E k \in Keys : job[k] \in Running
          \/ \E n \in wire : job[CreationKey(n)] = "none"

\* A provider that takes its rejection for final is right: nothing was, or will
\* be, allocated for it, and closing it allocates nothing either.
RejectedMeansNothing ==
  calls > 0 /\ ~attempted => ~MayRun /\ \A k \in Keys : job[k] = "none"

\* A crash at any moment leaves a journal that names whatever may run: the key
\* is announced, and no row says it stopped.
JournalNamesTheJob ==
  MayRun => "creation_intent" \in rows /\ "stopped" \notin rows

\* A close that raises nothing has stopped the deployment and has said so in the
\* journal: failed evidence is never silent.
CleanCloseIsRecorded ==
  stage = "closed" /\ ~failure /\ ~evidence /\ ~statusError =>
    /\ confirmed
    /\ attempted => {"stop_intent", "stopped"} \subseteq rows

\* __aenter__ ends, whatever the gateway answers.
EntryEnds == stage \in Entry ~> stage \notin Entry

\* A close that has begun ends, even if the gateway never answers again.
CloseEnds == stage = "scheduled" ~> stage = "closed"

\* The deployment is a paid resource, rented at most once, whose end is
\* confirmed only when it is true and stays true.
Promise == INSTANCE PaidResource WITH
  resource <- IF \E k \in Keys : job[k] \in Running THEN "live"
              ELSE IF \A k \in Keys : job[k] = "none" THEN "none" ELSE "ended",
  report   <- IF confirmed THEN "confirmed"
              ELSE IF stage = "closed" THEN "uncertain" ELSE "open"

KeepsPromise == Promise!PaidSpec
====
