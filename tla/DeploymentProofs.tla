---- MODULE DeploymentProofs ----
(***************************************************************************)
(* Proofs about DeploymentLifecycle, for every number of creation calls:   *)
(* what a rejection, the journal and a clean close mean, and that the      *)
(* deployment keeps the promise of a paid resource. Inv is inductive: it   *)
(* says that there is one job only, when it cannot exist yet, and what a   *)
(* stage has behind it.                                                    *)
(***************************************************************************)
EXTENDS DeploymentLifecycle, TLAPS

\* Every call carries the one key, so no other job is ever created.
OneJob ==
  /\ \A k \in Keys : k # CreationKey(calls) => job[k] = "none"
  /\ deployment \in {NoJob, CreationKey(calls)}
  /\ deployment # NoJob \/ reply = "created" => job[CreationKey(calls)] # "none"

\* Only calls that were made are on their way, and a first call that is not
\* processed yet, or was rejected, has created nothing.
FirstCall ==
  /\ \A n \in wire : n <= calls
  /\ reply # "none" => calls \notin wire
  /\ calls = 0 => reply = "none" /\ job[CreationKey(calls)] = "none"
  /\ calls = 1 /\ (wire # {} \/ reply = "rejected") => job[CreationKey(calls)] = "none"

\* What "nothing was allocated" rests on, and where the program then stands.
Unattempted ==
  /\ ~attempted => /\ stage \in {"creation_intent", "scheduled", "drain",
                                 "cleanup_uncertain", "clients", "closed"}
                   /\ wire = {}
                   /\ calls \in {0, 1}
                   /\ job[CreationKey(calls)] = "none"
  /\ attempted => calls > 0
  /\ stage = "creation_intent" => calls = 0 /\ ~attempted
  /\ calls > 0 => "creation_intent" \in rows

\* A confirmed end is final: no stage that allocates follows it.
Final ==
  /\ confirmed => /\ stage \in {"stopped", "cleanup_uncertain", "clients", "closed"}
                  /\ attempted => job[CreationKey(calls)] = "stopped"
  /\ "stopped" \in rows => confirmed /\ attempted
  /\ stage = "stopped" => confirmed /\ attempted
  /\ watch => stage \in {"serving", "scheduled"}

\* What the cleanup has behind it unless it failed on its way.
CleanSoFar ==
  /\ stage \in {"stop", "stop status", "stopped"} /\ ~evidence => "stop_intent" \in rows
  /\ stage = "cleanup_uncertain" => failure
  /\ stage \in {"clients", "closed"} /\ ~failure => confirmed
  /\ stage \in {"clients", "closed"} /\ ~failure /\ ~evidence /\ attempted =>
       {"stop_intent", "stopped"} \subseteq rows

History == OneJob /\ FirstCall /\ Unattempted /\ Final /\ CleanSoFar

Inv == TypeOK /\ History

-----------------------------------------------------------------------------
\* Every step keeps the types.
LEMMA TypedStep == TypeOK /\ [Next]_vars => TypeOK'
<1> SUFFICES ASSUME TypeOK, [Next]_vars PROVE TypeOK'
  OBVIOUS
<1> USE MaxCallsAssumption, NoJobAssumption
<1> USE DEF TypeOK, Goes, creation, reports, gateway
<1>1. CASE CreationSucceeds
  <2>1. 0 \in Keys /\ 0 # NoJob
    BY DEF Keys
  <2>2. stage' \in Stages
    BY <1>1 DEF CreationSucceeds, Stages, Entry, Timed, Draining, Known
  <2> QED
    BY <1>1, <2>1, <2>2 DEF CreationSucceeds, CreationKey
<1>2. CASE CreationRetried
  <2>1. calls + 1 \in 1..MaxCalls /\ wire \cup {calls + 1} \in SUBSET (1..MaxCalls)
    BY <1>2 DEF CreationRetried, SendCreation
  <2> QED
    BY <1>2, <2>1 DEF CreationRetried, SendCreation, Replies
<1>3. CASE CreationRefused
  BY <1>3 DEF CreationRefused, Creating, FailEntry, FailCleanup, WriteRow, Stages,
     Entry, Timed, Draining, Known
<1>4. CASE WriteIntent
  BY <1>4 DEF WriteIntent, WriteRow, SendCreation, Stages, Entry, Timed, Draining,
     Known, Replies
<1>5. CASE WriteCreated
  BY <1>5 DEF WriteCreated, WriteRow, Stages, Entry, Timed, Draining, Known
<1>6. CASE StatusReady
  BY <1>6 DEF StatusReady, Stages, Entry, Timed, Draining, Known
<1>7. CASE Connected
  BY <1>7 DEF Connected, Stages, Entry, Timed, Draining, Known
<1>8. CASE WriteReady
  BY <1>8 DEF WriteReady, WriteRow, Stages, Entry, Timed, Draining, Known
<1>9. CASE EntryRaises
  BY <1>9 DEF EntryRaises, FailEntry, WriteRow, Stages, Entry, Timed, Draining, Known
<1>10. CASE ReadyTimesOut
  BY <1>10 DEF ReadyTimesOut, FailEntry, WriteRow, Stages, Entry, Timed, Draining,
     Known
<1>11. CASE Close
  BY <1>11 DEF Close, Stages, Entry, Timed, Draining, Known
<1>12. CASE WatchFails
  BY <1>12 DEF WatchFails, Stages, Entry, Timed, Draining, Known
<1>13. CASE CleanupStarts
  BY <1>13 DEF CleanupStarts, Stages, Entry, Timed, Draining, Known
<1>14. CASE DrainedUnallocated
  BY <1>14 DEF DrainedUnallocated, Stages, Entry, Timed, Draining, Known
<1>15. CASE DrainedUnknown
  BY <1>15 DEF DrainedUnknown, SendCreation, Stages, Entry, Timed, Draining, Known,
     Replies
<1>16. CASE DrainedAllocated
  BY <1>16 DEF DrainedAllocated, Stages, Entry, Timed, Draining, Known
<1>17. CASE WriteStopIntent
  BY <1>17 DEF WriteStopIntent, CleanupRow, WriteRow, Stages, Entry, Timed, Draining,
     Known
<1>18. CASE StopAccepted
  BY <1>18 DEF StopAccepted, Stages, Entry, Timed, Draining, Known
<1>19. CASE StopUnanswered
  BY <1>19 DEF StopUnanswered, Stages, Entry, Timed, Draining, Known
<1>20. CASE StatusStopped
  BY <1>20 DEF StatusStopped, Stages, Entry, Timed, Draining, Known
<1>21. CASE StatusUndecided
  BY <1>21 DEF StatusUndecided, Stages, Entry, Timed, Draining, Known
<1>22. CASE WriteStopped
  BY <1>22 DEF WriteStopped, CleanupRow, WriteRow, Stages, Entry, Timed, Draining,
     Known
<1>23. CASE CleanupRaises
  BY <1>23 DEF CleanupRaises, FailCleanup, WriteRow, Stages, Entry, Timed, Draining,
     Known
<1>24. CASE WriteUncertain
  BY <1>24 DEF WriteUncertain, CleanupRow, WriteRow, Stages, Entry, Timed, Draining,
     Known
<1>25. CASE CloseClients
  BY <1>25 DEF CloseClients, Stages, Entry, Timed, Draining, Known
<1>26. CASE CleanupTimesOut
  BY <1>26 DEF CleanupTimesOut, FailCleanup, WriteRow, Stages, Entry, Timed, Draining,
     Known
<1>27. ASSUME NEW n \in 1..MaxCalls, GatewayCreates(n) PROVE TypeOK'
  BY <1>27 DEF GatewayCreates, CreationKey, Keys, Replies, JobStates
<1>28. ASSUME NEW n \in 1..MaxCalls, GatewayRefuses(n) PROVE TypeOK'
  BY <1>28 DEF GatewayRefuses, Replies
<1>29. ASSUME NEW k \in Keys, JobMoves(k) PROVE TypeOK'
  BY <1>29 DEF JobMoves, JobBecomes, JobStates
<1>30. CASE UNCHANGED vars
  BY <1>30 DEF vars
<1> HIDE DEF TypeOK
<1> QED
  BY <1>1, <1>2, <1>3, <1>4, <1>5, <1>6, <1>7, <1>8, <1>9, <1>10, <1>11, <1>12, <1>13,
     <1>14, <1>15, <1>16, <1>17, <1>18, <1>19, <1>20, <1>21, <1>22, <1>23, <1>24,
     <1>25, <1>26, <1>27, <1>28, <1>29, <1>30 DEF Next, Create, Enter, Cleanup,
     Gateway

\* What is on its way when one call was made at most.
LEMMA OnTheWire ==
  ASSUME Inv
  PROVE  /\ calls \in Nat
         /\ \A i \in wire : i \in Nat /\ 0 < i /\ i <= calls
         /\ calls = 1 => wire \subseteq {1}
         /\ calls = 1 /\ reply # "none" => wire = {}
<1>1. calls \in Nat /\ wire \subseteq 1..MaxCalls
  BY DEF Inv, TypeOK
<1>2. \A i \in wire : i \in Nat /\ 0 < i /\ i <= calls
  BY <1>1, MaxCallsAssumption DEF Inv, History, FirstCall
<1>3. calls = 1 => wire \subseteq {1}
  BY <1>2
<1>4. calls = 1 /\ reply # "none" => wire = {}
  BY <1>3 DEF Inv, History, FirstCall
<1> QED
  BY <1>1, <1>2, <1>3, <1>4

\* Inv is inductive.
LEMMA InvStep == Inv /\ [Next]_vars => Inv'
<1> SUFFICES ASSUME Inv, [Next]_vars PROVE History'
  BY TypedStep DEF Inv
<1> USE MaxCallsAssumption, NoJobAssumption
<1> USE DEF Inv, History, OneJob, FirstCall, Unattempted, Final, CleanSoFar, TypeOK,
            CreationKey, Goes, creation, reports, gateway
<1>1. CASE CreationSucceeds
  BY <1>1 DEF CreationSucceeds, Creating
<1>2. CASE CreationRetried
  <2>1. attempted /\ ~confirmed /\ stage \notin {"clients", "closed"} /\ calls > 0
    BY <1>2 DEF CreationRetried, Creating
  <2>2. /\ calls' = calls + 1 /\ wire' = wire \cup {calls + 1} /\ reply' = "none"
        /\ UNCHANGED <<stage, attempted, deployment, rows, reports, job>>
    BY <1>2 DEF CreationRetried, SendCreation
  <2>3. calls' \notin {0, 1} /\ \A i \in wire' : i <= calls'
    <3> HIDE DEF Inv, TypeOK
    <3> QED
      BY <2>1, <2>2, OnTheWire
  <2>4. OneJob' /\ FirstCall'
    BY <2>1, <2>2, <2>3
  <2>5. Unattempted'
    <3>1. calls' > 0
      <4>1. calls > 0 /\ calls' = calls + 1
        BY <2>1, <2>2
      <4> HIDE DEF Inv, TypeOK, History, Unattempted, FirstCall
      <4> QED
        BY <4>1, OnTheWire
    <3>2. attempted'
      BY <2>1, <2>2
    <3>3. stage' # "creation_intent" /\ "creation_intent" \in rows'
      BY <2>1, <2>2
    <3> QED
      BY <3>1, <3>2, <3>3
  <2>6. Final' /\ CleanSoFar'
    BY <2>1, <2>2
  <2> QED
    BY <2>4, <2>5, <2>6
<1>3. CASE CreationRefused
  <2>1. attempted /\ ~confirmed /\ "stopped" \notin rows
    BY <1>3 DEF CreationRefused, Creating
  <2>2. ASSUME calls = 1, reply = "rejected" PROVE wire = {}
    BY <2>2, OnTheWire
  <2>3. stage' = "scheduled" \/ (stage' = "cleanup_uncertain" /\ failure')
    BY <1>3 DEF CreationRefused, FailEntry, FailCleanup
  <2>4. rows' = rows
    <3>1. stage \notin Phases
      BY <1>3 DEF CreationRefused, Creating, Phases
    <3>2. {stage} \cap Phases = {}
      BY <3>1
    <3> QED
      BY <1>3, <3>2 DEF CreationRefused, FailEntry, FailCleanup, WriteRow
  <2>5. UNCHANGED <<calls, deployment, wire, reply, job, watch, confirmed>>
    BY <1>3 DEF CreationRefused, FailEntry, FailCleanup
  <2>6. ~attempted' <=> calls = 1 /\ reply = "rejected"
    BY <1>3 DEF CreationRefused
  <2>7. ~watch
    BY <1>3 DEF CreationRefused, Creating
  <2>8. OneJob' /\ FirstCall'
    BY <2>5
  <2>9. Unattempted'
    <3>1. ~attempted' => calls' = 1 /\ wire' = {} /\ job'[0] = "none"
      BY <2>2, <2>5, <2>6
    <3>2. calls' > 0 /\ stage' # "creation_intent" /\ "creation_intent" \in rows'
      BY <2>1, <2>3, <2>4, <2>5
    <3>3. stage' \in {"scheduled", "cleanup_uncertain"}
      BY <2>3
    <3> QED
      BY <3>1, <3>2, <3>3
  <2>10. Final' /\ CleanSoFar'
    BY <2>1, <2>3, <2>4, <2>5, <2>7
  <2> QED
    BY <2>8, <2>9, <2>10
<1>4. CASE WriteIntent
  BY <1>4 DEF WriteIntent, WriteRow, SendCreation, Phases
<1>5. CASE WriteCreated
  BY <1>5 DEF WriteCreated, WriteRow
<1>6. CASE StatusReady
  BY <1>6 DEF StatusReady
<1>7. CASE Connected
  BY <1>7 DEF Connected
<1>8. CASE WriteReady
  BY <1>8 DEF WriteReady, WriteRow
<1>9. CASE EntryRaises
  BY <1>9 DEF EntryRaises, FailEntry, WriteRow, Entry, Timed
<1>10. CASE ReadyTimesOut
  BY <1>10 DEF ReadyTimesOut, FailEntry, WriteRow, Timed
<1>11. CASE Close
  BY <1>11 DEF Close
<1>12. CASE WatchFails
  BY <1>12 DEF WatchFails
<1>13. CASE CleanupStarts
  BY <1>13 DEF CleanupStarts
<1>14. CASE DrainedUnallocated
  BY <1>14 DEF DrainedUnallocated
<1>15. CASE DrainedUnknown
  BY <1>15 DEF DrainedUnknown, SendCreation
<1>16. CASE DrainedAllocated
  BY <1>16 DEF DrainedAllocated
<1>17. CASE WriteStopIntent
  BY <1>17 DEF WriteStopIntent, CleanupRow, WriteRow, Phases
<1>18. CASE StopAccepted
  BY <1>18 DEF StopAccepted
<1>19. CASE StopUnanswered
  BY <1>19 DEF StopUnanswered
<1>20. CASE StatusStopped
  <2>1. deployment = 0 /\ attempted /\ ~confirmed /\ ~watch
    BY <1>20 DEF StatusStopped, Known
  <2>2. job[0] = "stopped"
    BY <1>20, <2>1 DEF StatusStopped, Answered
  <2> QED
    BY <1>20, <2>1, <2>2 DEF StatusStopped
<1>21. CASE StatusUndecided
  BY <1>21 DEF StatusUndecided
<1>22. CASE WriteStopped
  BY <1>22 DEF WriteStopped, CleanupRow, WriteRow, Phases
<1>23. CASE CleanupRaises
  BY <1>23 DEF CleanupRaises, FailCleanup, WriteRow
<1>24. CASE WriteUncertain
  BY <1>24 DEF WriteUncertain, CleanupRow, WriteRow
<1>25. CASE CloseClients
  <2>1. (~failure' => ~failure) /\ (~evidence' => ~evidence)
    BY <1>25 DEF CloseClients
  <2>2. stage = "clients" /\ stage' = "closed"
    BY <1>25 DEF CloseClients
  <2>3. UNCHANGED <<creation, rows, watch, statusError, confirmed, gateway>>
    BY <1>25 DEF CloseClients
  <2>4. OneJob' /\ FirstCall' /\ Unattempted' /\ Final'
    BY <2>2, <2>3
  <2>5. CleanSoFar'
    BY <2>1, <2>2, <2>3
  <2> QED
    BY <2>4, <2>5
<1>26. CASE CleanupTimesOut
  BY <1>26 DEF CleanupTimesOut, FailCleanup, WriteRow, Draining
<1>27. ASSUME NEW n \in 1..MaxCalls, GatewayCreates(n) PROVE History'
  <2>1. /\ n \in wire /\ attempted /\ calls > 0
        /\ wire' = wire \ {n} /\ reply' = IF n = calls THEN "created" ELSE reply
        /\ UNCHANGED <<stage, creation, rows, reports>>
    BY <1>27 DEF GatewayCreates
  <2>2. /\ \A k \in Keys \ {0} : job'[k] = job[k]
        /\ job'[0] = IF job[0] = "none" THEN "starting" ELSE job[0]
    <3> HIDE DEF OneJob, FirstCall, Unattempted, Final, CleanSoFar
    <3>1. 0 \in Keys
      BY DEF Keys
    <3>2. job' = [job EXCEPT ![0] = IF @ = "none" THEN "starting" ELSE @]
      BY <1>27 DEF GatewayCreates
    <3> QED
      BY <3>1, <3>2
  <2>3. OneJob'
    BY <2>1, <2>2
  <2>4. calls = 1 => wire' = {} /\ reply' = "created"
    BY <2>1, OnTheWire
  <2>5. FirstCall'
    <3> HIDE DEF TypeOK, OneJob, Unattempted, Final, CleanSoFar
    <3>1. reply' # "none" => calls \notin wire'
      BY <2>1
    <3>2. calls' = calls /\ calls' # 0 /\ \A i \in wire' : i <= calls'
      BY <2>1, OnTheWire
    <3> QED
      BY <2>1, <2>4, <3>1, <3>2
  <2>6. Unattempted' /\ Final' /\ CleanSoFar'
    BY <2>1, <2>2
  <2> QED
    BY <2>3, <2>5, <2>6
<1>28. ASSUME NEW n \in 1..MaxCalls, GatewayRefuses(n) PROVE History'
  <2>1. /\ n \in wire /\ attempted /\ calls > 0
        /\ wire' = wire \ {n}
        /\ reply' \in IF n = calls THEN {"rejected", "error"} ELSE {reply}
        /\ UNCHANGED <<stage, creation, rows, reports, job>>
    BY <1>28 DEF GatewayRefuses
  <2>2. reply' = "created" => reply = "created"
    BY <2>1
  <2>3. calls = 1 => wire' = {} /\ job[0] = "none"
    BY <2>1, OnTheWire
  <2>4. FirstCall'
    <3> HIDE DEF TypeOK, OneJob, Unattempted, Final, CleanSoFar
    <3>1. reply' # "none" => calls \notin wire'
      BY <2>1
    <3> QED
      BY <2>1, <2>3, <3>1
  <2>5. OneJob' /\ Unattempted' /\ Final' /\ CleanSoFar'
    BY <2>1, <2>2
  <2> QED
    BY <2>4, <2>5
<1>29. ASSUME NEW k \in Keys, JobMoves(k) PROVE History'
  <2>1. /\ job[k] \notin {"none", "stopped"}
        /\ UNCHANGED <<stage, creation, rows, reports, wire, reply>>
    BY <1>29 DEF JobMoves, JobBecomes, Running
  <2>2. PICK s \in JobStates \ {"none"} : job' = [job EXCEPT ![k] = s]
    BY <1>29 DEF JobMoves, JobBecomes, JobStates
  <2>3. k = 0
    BY <2>1
  <2>4. OneJob' /\ FirstCall'
    BY <2>1, <2>2, <2>3 DEF Keys
  <2>5. Unattempted' /\ Final' /\ CleanSoFar'
    BY <2>1, <2>2, <2>3 DEF Keys
  <2> QED
    BY <2>4, <2>5
<1>30. CASE UNCHANGED vars
  BY <1>30 DEF vars
<1> HIDE DEF Inv, History, OneJob, FirstCall, Unattempted, Final, CleanSoFar
<1> QED
  BY <1>1, <1>2, <1>3, <1>4, <1>5, <1>6, <1>7, <1>8, <1>9, <1>10, <1>11, <1>12, <1>13,
     <1>14, <1>15, <1>16, <1>17, <1>18, <1>19, <1>20, <1>21, <1>22, <1>23, <1>24,
     <1>25, <1>26, <1>27, <1>28, <1>29, <1>30 DEF Next, Create, Enter, Cleanup,
     Gateway

LEMMA Invariant == Spec => []Inv
<1>1. Init => TypeOK
  <2> SUFFICES ASSUME Init PROVE TypeOK
    OBVIOUS
  <2>1. job \in [Keys -> JobStates]
    BY DEF Init, JobStates
  <2>2. stage \in Stages /\ stage \notin Known /\ reply \in Replies
    BY DEF Init, Stages, Entry, Timed, Known, Replies
  <2>3. calls \in 0..MaxCalls /\ wire = {}
    BY MaxCallsAssumption DEF Init
  <2> QED
    BY <2>1, <2>2, <2>3 DEF Init, TypeOK
<1>2. 0 \in Keys
  BY MaxCallsAssumption DEF Keys
<1>3. Init => History
  BY <1>2 DEF Init, History, OneJob, FirstCall, Unattempted, Final, CleanSoFar,
     CreationKey
<1> QED
  BY <1>1, <1>3, InvStep, PTL DEF Spec, Inv

-----------------------------------------------------------------------------
(* Safety.                                                                  *)

\* The types of the lifecycle, whatever the number of calls.
THEOREM Typed == Spec => []TypeOK
<1>1. Inv => TypeOK
  BY DEF Inv
<1> QED
  BY <1>1, Invariant, PTL

\* A rejection that is taken for final was: closing the provider (_cleanup)
\* neither finds nor makes a deployment.
THEOREM RejectionsFinal == Spec => []RejectedMeansNothing
<1>1. Inv => RejectedMeansNothing
  BY DEF Inv, History, OneJob, Unattempted, RejectedMeansNothing, MayRun, Running
<1> QED
  BY <1>1, Invariant, PTL

\* Whatever may run after a crash is named by the journal (_checkpoint).
THEOREM JournalComplete == Spec => []JournalNamesTheJob
<1>1. ASSUME Inv, MayRun PROVE "creation_intent" \in rows /\ "stopped" \notin rows
  <2>1. /\ MaxCalls \in Nat /\ calls \in 0..MaxCalls /\ (wire # {} => calls > 0)
        /\ CreationKey(calls) = 0
        /\ \A k \in Keys : k # 0 => job[k] = "none"
        /\ calls = 0 => job[0] = "none"
    BY <1>1, MaxCallsAssumption DEF Inv, TypeOK, History, OneJob, FirstCall, CreationKey
  <2>2. job[0] \in Running \/ (wire # {} /\ job[0] = "none")
    BY <1>1, <2>1 DEF MayRun, Running, CreationKey
  <2>3. calls > 0
    BY <2>1, <2>2 DEF Running
  <2>4. "creation_intent" \in rows
    BY <1>1, <2>3 DEF Inv, History, Unattempted
  <2>5. "stopped" \in rows => job[0] = "stopped"
    BY <1>1, <2>1 DEF Inv, History, Final
  <2> QED
    BY <2>2, <2>4, <2>5 DEF Running
<1>2. Inv => JournalNamesTheJob
  BY <1>1 DEF JournalNamesTheJob
<1> QED
  BY <1>2, Invariant, PTL

\* A close that raises nothing stopped the deployment and recorded that it did.
THEOREM CleanClosesRecorded == Spec => []CleanCloseIsRecorded
<1>1. Inv => CleanCloseIsRecorded
  BY DEF Inv, History, CleanSoFar, CleanCloseIsRecorded
<1> QED
  BY <1>1, Invariant, PTL

-----------------------------------------------------------------------------
(* The deployment keeps the promise of a paid resource.                     *)

\* Only the gateway moves the job.
LEMMA JobSteps ==
  ASSUME Inv, Next
  PROVE  \/ UNCHANGED job
         \/ /\ UNCHANGED <<stage, confirmed>>
            /\ \/ job[0] = "none" /\ ~confirmed /\ job'[0] = "starting"
               \/ job[0] \in Running /\ job'[0] \in JobStates \ {"none"}
               \/ job[0] = "failed" /\ job'[0] = "stopped"
<1>1. MaxCalls \in Nat /\ 0 \in Keys /\ job \in [Keys -> JobStates]
  BY MaxCallsAssumption DEF Keys, Inv, TypeOK
<1>2. ASSUME NEW n \in 1..MaxCalls, GatewayCreates(n)
      PROVE /\ UNCHANGED <<stage, confirmed>>
            /\ \/ UNCHANGED job
               \/ job[0] = "none" /\ ~confirmed /\ job'[0] = "starting"
  <2>1. UNCHANGED <<stage, confirmed>> /\ wire # {}
    BY <1>2 DEF GatewayCreates, reports
  <2>2. job' = [job EXCEPT ![0] = IF @ = "none" THEN "starting" ELSE @]
    BY <1>2 DEF GatewayCreates, CreationKey
  <2>3. CASE job[0] # "none"
    BY <1>1, <2>1, <2>2, <2>3
  <2>4. CASE job[0] = "none"
    <3>1. job'[0] = "starting"
      BY <1>1, <2>2, <2>4
    <3>2. ~confirmed
      BY <2>1, <2>4 DEF Inv, History, Unattempted, Final, CreationKey
    <3> QED
      BY <2>1, <2>4, <3>1, <3>2
  <2> QED
    BY <2>3, <2>4
<1>3. ASSUME NEW k \in Keys, JobMoves(k)
      PROVE /\ UNCHANGED <<stage, confirmed>>
            /\ \/ job[0] \in Running /\ job'[0] \in JobStates \ {"none"}
               \/ job[0] = "failed" /\ job'[0] = "stopped"
  <2>1. /\ UNCHANGED <<stage, confirmed>>
        /\ \/ /\ job[k] \in Running
              /\ \E s \in JobStates \ {"none"} : job' = [job EXCEPT ![k] = s]
           \/ job[k] = "failed" /\ job' = [job EXCEPT ![k] = "stopped"]
    BY <1>3 DEF JobMoves, JobBecomes, Running, JobStates, reports
  <2>2. k = 0
    BY <2>1 DEF Inv, History, OneJob, CreationKey, Running
  <2> QED
    BY <1>1, <2>1, <2>2
<1>4. ASSUME NEW n \in 1..MaxCalls, GatewayRefuses(n) PROVE UNCHANGED job
  BY <1>4 DEF GatewayRefuses
<1>5. ASSUME Create \/ Enter \/ ReadyTimesOut \/ Close \/ WatchFails \/ Cleanup
             \/ CleanupTimesOut
      PROVE UNCHANGED job
  BY <1>5 DEF Create, Enter, Cleanup, CreationSucceeds, CreationRetried, CreationRefused,
     WriteIntent, WriteCreated, StatusReady, Connected, WriteReady, EntryRaises,
     ReadyTimesOut, Close, WatchFails, CleanupStarts, DrainedUnallocated,
     DrainedUnknown, DrainedAllocated, WriteStopIntent, StopAccepted, StopUnanswered,
     StatusStopped, StatusUndecided, WriteStopped, CleanupRaises, WriteUncertain,
     CloseClients, CleanupTimesOut, SendCreation, FailEntry, FailCleanup, CleanupRow,
     Goes, creation, reports, gateway
<1> QED
  BY <1>2, <1>3, <1>4, <1>5 DEF Next, Gateway

\* A report is made once, at the end or when nothing runs any more.
LEMMA ReportSteps ==
  ASSUME Inv, Next
  PROVE  /\ confirmed => confirmed'
         /\ ~confirmed /\ confirmed' => stage # "closed" /\ job[0] \notin Running
         /\ stage = "closed" => stage' = "closed"
<1>1. CASE DrainedUnallocated
  BY <1>1 DEF DrainedUnallocated, Goes, Inv, History, Unattempted, CreationKey, Running
<1>2. CASE StatusStopped
  BY <1>2 DEF StatusStopped, Goes, Answered, Inv, TypeOK, Known, History, OneJob,
     CreationKey, Running
<1>3. ASSUME ~DrainedUnallocated, ~StatusStopped PROVE UNCHANGED confirmed
  BY <1>3 DEF Next, Create, Enter, Cleanup, Gateway, GatewayCreates, GatewayRefuses,
     JobMoves, JobBecomes, CreationSucceeds, CreationRetried, CreationRefused,
     WriteIntent, WriteCreated, StatusReady, Connected, WriteReady, EntryRaises,
     ReadyTimesOut, Close, WatchFails, CleanupStarts, DrainedUnallocated,
     DrainedUnknown, DrainedAllocated, WriteStopIntent, StopAccepted, StopUnanswered,
     StatusStopped, StatusUndecided, WriteStopped, CleanupRaises, WriteUncertain,
     CloseClients, CleanupTimesOut, SendCreation, FailEntry, FailCleanup, CleanupRow,
     Goes, creation, reports, gateway
<1>4. stage = "closed" => stage' = "closed"
  <2>1. ~watch \/ stage # "closed"
    BY DEF Inv, History, Final
  <2> QED
    BY <2>1 DEF Next, Create, Enter, Cleanup, Gateway, GatewayCreates, GatewayRefuses,
       JobMoves, JobBecomes, Creating, Entry, Timed, Draining, CreationSucceeds,
       CreationRetried, CreationRefused, WriteIntent, WriteCreated, StatusReady,
       Connected, WriteReady, EntryRaises, ReadyTimesOut, Close, WatchFails,
       CleanupStarts, DrainedUnallocated, DrainedUnknown, DrainedAllocated,
       WriteStopIntent, StopAccepted, StopUnanswered, StatusStopped, StatusUndecided,
       WriteStopped, CleanupRaises, WriteUncertain, CloseClients, CleanupTimesOut,
       SendCreation, FailEntry, FailCleanup, CleanupRow, Goes, creation, reports,
       gateway
<1> QED
  BY <1>1, <1>2, <1>3, <1>4

\* The resource of the promise is the one job there is.
LEMMA OneResource ==
  ASSUME NEW j, \A k \in Keys : k # 0 => j[k] = "none"
  PROVE  /\ (\E k \in Keys : j[k] \in Running) <=> j[0] \in Running
         /\ (\A k \in Keys : j[k] = "none") <=> j[0] = "none"
BY MaxCallsAssumption DEF Keys, Running

\* Every step of the provider and the gateway is a step of the promise, or none
\* that it sees: _create rents once, _cleanup confirms only what has ended.
THEOREM PromiseKept == Spec => KeepsPromise
<1>1. Init => Promise!PaidInit
  BY MaxCallsAssumption DEF Init, Promise!PaidInit, Running, Keys
<1>2. ASSUME Inv, Inv', Next
      PROVE \/ Promise!Allocate \/ Promise!End \/ Promise!Confirm \/ Promise!GiveUp
            \/ UNCHANGED Promise!paidVars
  <2>1. /\ (\E k \in Keys : job[k] \in Running) <=> job[0] \in Running
        /\ (\A k \in Keys : job[k] = "none") <=> job[0] = "none"
    BY <1>2, OneResource DEF Inv, History, OneJob, CreationKey
  <2>2. /\ (\E k \in Keys : job'[k] \in Running) <=> job'[0] \in Running
        /\ (\A k \in Keys : job'[k] = "none") <=> job'[0] = "none"
    BY <1>2, OneResource DEF Inv, History, OneJob, CreationKey
  <2>3. CASE UNCHANGED job
    BY <1>2, <2>1, <2>2, <2>3, ReportSteps
    DEF Promise!Confirm, Promise!GiveUp, Promise!paidVars
  <2>4. CASE /\ UNCHANGED <<stage, confirmed>>
             /\ job[0] = "none" /\ ~confirmed /\ job'[0] = "starting"
    BY <2>1, <2>2, <2>4 DEF Promise!Allocate, Running
  <2>5. CASE /\ UNCHANGED <<stage, confirmed>>
             /\ \/ job[0] \in Running /\ job'[0] \in JobStates \ {"none"}
                \/ job[0] = "failed" /\ job'[0] = "stopped"
    BY <2>1, <2>2, <2>5 DEF Promise!End, Promise!paidVars, Running, JobStates
  <2> QED
    BY <1>2, <2>3, <2>4, <2>5, JobSteps
<1>3. UNCHANGED vars => UNCHANGED Promise!paidVars
  BY DEF vars, reports, gateway, Promise!paidVars
<1> QED
  BY <1>1, <1>2, <1>3, Invariant, PTL DEF Spec, KeepsPromise, Promise!PaidSpec
====
