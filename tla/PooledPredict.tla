---- MODULE PooledPredict ----
(***************************************************************************)
(* PooledProvider.predict: one deployment shared by several robot slots,   *)
(* driver tasks calling predict on them, the inference gateway that admits *)
(* and executes the requests, the watch over the deployment's authority    *)
(* and the cleanup that drains the drivers before the deployment stops.    *)
(* A step runs from one await to the next, as the asyncio event loop does. *)
(***************************************************************************)
EXTENDS Naturals, FiniteSets

CONSTANTS
  Slots,              \* robot slots of the deployment, range(self.concurrency)
  Tasks,              \* asyncio tasks that call predict, the episode drivers
  SlotOf,             \* the slot each driver calls: its lane's
  MaxCalls,           \* bound: logical predict calls per slot
  MaxResubmissions,   \* max_not_admitted_resubmissions, 0..2 in the code
  SoftRejections,     \* may a POST or GET report request_not_admitted while
                      \* the POST can still be admitted?
  NoRequest           \* no entry of the _pending dict

Calls == 1..MaxCalls
Attempts == 0..MaxResubmissions

\* An identity is fresh for each attempt of each logical call of a slot.
Requests == Slots \X Calls \X Attempts

ASSUME SlotOfAssumption == SlotOf \in [Tasks -> Slots]
ASSUME BoundsAssumption == MaxCalls \in Nat /\ MaxResubmissions \in Nat
ASSUME SoftAssumption == SoftRejections \in BOOLEAN
ASSUME NoRequestAssumption == NoRequest \notin Requests

VARIABLES
  task,        \* each driver's frame of predict: where it awaits, its locals
  busy,        \* _busy
  fenced,      \* _fenced
  pending,     \* _pending: the identity each slot may still owe an answer for
  sequences,   \* _sequences: the next sequence number of each slot
  calls,       \* logical calls begun on each slot
  outcome,     \* how each logical call ended for its driver
  seqno,       \* the sequence number inside each identity
  journal,     \* durable rows <<identity, phase>>
  ready,       \* _ready
  closing,     \* _closing
  authority,   \* _authority_remaining() > 0
  watch,       \* is _status_task still running?
  closeTask,   \* how far _close_task has come
  gateway      \* the gateway's view of each identity

driverVars == <<task, busy, fenced, pending, sequences, calls, outcome, seqno, journal>>
providerVars == <<ready, closing, authority, watch, closeTask>>
vars == <<driverVars, providerVars, gateway>>

\* Where a driver awaits inside predict.
Points == {"idle",       \* not in predict
           "encode",     \* the encoding gate and executor
           "intent",     \* the before_post checkpoint
           "recheck",    \* the checkpoint is durable, the task not resumed
           "post",       \* the answer to the POST
           "lookup",     \* GET of _recover
           "resolve",    \* atomic resolution of _recover
           "terminal",   \* the terminal (or cancelled_resolved) checkpoint
           "yield",      \* sleep(0) between two attempts
           "fencing"}    \* the "fenced" checkpoint

\* "voided": request_not_admitted returned by the atomic resolution.
\* "not_admitted": the same code from the POST or from a GET.
Results == {"none", "completed", "failed", "not_admitted", "voided"}

Outcomes == {"none", "actions", "failed", "cancelled", "error"}

\* "wire": posted and not seen; "refused": can never be admitted any more.
GatewayStates == {"unsent", "wire", "admitted", "completed", "failed", "refused"}

Phases == {"before_post", "completed", "failed", "not_admitted", "voided",
           "cancelled_resolved", "fenced"}

CleanupStages == {"none", "scheduled", "watch", "drain", "late", "stopping",
                  "confirmed", "uncertain"}

Frame == [pc : Points, call : 0..MaxCalls, attempt : Attempts, result : Results,
          unwinding : BOOLEAN, cancelled : BOOLEAN]

\* The locals of a call that has just come to a point; call 0 is none at all.
NewFrame(point, n) == [pc |-> point, call |-> n, attempt |-> 0, result |-> "none",
                       unwinding |-> FALSE, cancelled |-> FALSE]

IdleFrame == NewFrame("idle", 0)

Req(t) == <<SlotOf[t], task[t].call, task[t].attempt>>

Posted(r) == gateway[r] # "unsent"

\* A driver inside predict works on some call; what it checkpoints is a result.
WellFormed(f) ==
  /\ f.pc # "idle" => f.call \in Calls
  /\ f.pc = "terminal" => f.result # "none"

TypeOK ==
  /\ task \in [Tasks -> Frame]
  /\ busy \in SUBSET Slots
  /\ fenced \in SUBSET Slots
  /\ pending \in [Slots -> Requests \cup {NoRequest}]
  /\ sequences \in [Slots -> Nat]
  /\ calls \in [Slots -> 0..MaxCalls]
  /\ outcome \in [Slots \X Calls -> Outcomes]
  /\ seqno \in [Requests -> Nat]
  /\ journal \in SUBSET (Requests \X Phases)
  /\ ready \in BOOLEAN
  /\ closing \in BOOLEAN
  /\ authority \in BOOLEAN
  /\ watch \in BOOLEAN
  /\ closeTask \in CleanupStages
  /\ gateway \in [Requests -> GatewayStates]
  /\ \A t \in Tasks : WellFormed(task[t])

\* The state at the end of a successful __aenter__.
Init ==
  /\ task = [t \in Tasks |-> IdleFrame]
  /\ busy = {}
  /\ fenced = {}
  /\ pending = [s \in Slots |-> NoRequest]
  /\ sequences = [s \in Slots |-> 0]
  /\ calls = [s \in Slots |-> 0]
  /\ outcome = [c \in Slots \X Calls |-> "none"]
  /\ seqno = [r \in Requests |-> 0]
  /\ journal = {}
  /\ ready = TRUE
  /\ closing = FALSE
  /\ authority = TRUE
  /\ watch = TRUE
  /\ closeTask = "none"
  /\ gateway = [r \in Requests |-> "unsent"]

-----------------------------------------------------------------------------
(* Parts of predict shared by several of its steps.                         *)

\* Mutation: two drivers may be inside predict on one slot.
AvailableWhenBusy(s) == ready /\ ~closing /\ s \notin fenced

IsSlotAvailable(s) == ready /\ ~closing /\ s \notin busy /\ s \notin fenced

\* A cancellation reaches the task at its await, except inside _protected.
Undisturbed(t) == task[t].unwinding \/ ~task[t].cancelled

\* Mutation: one attempt too many.
MayResubmitOnceMore(t) == task[t].attempt <= MaxResubmissions

MayResubmit(t) == task[t].attempt < MaxResubmissions

\* The resolution source matters only while another attempt is possible.
RequireAtomic(t) == ~task[t].unwinding /\ MayResubmit(t)

At(t, points) == task[t].pc \in points

MoveTo(t, point) == task' = [task EXCEPT ![t].pc = point]

Record(t, phase) == journal \cup {<<Req(t), phase>>}

\* predict's finally clause, and the result its driver sees.
Leave(t, how) ==
  /\ task' = [task EXCEPT ![t] = IdleFrame]
  /\ busy' = busy \ {SlotOf[t]}
  /\ outcome' = [outcome EXCEPT ![<<SlotOf[t], task[t].call>>] = how]

\* An exception while the identity is pending: the slot is fenced. The normal
\* path still writes its "fenced" row; an unwinding cancellation just ends.
FenceSlot(t) ==
  /\ fenced' = fenced \cup {SlotOf[t]}
  /\ \/ /\ task[t].unwinding
        /\ Leave(t, "cancelled")
     \/ /\ ~task[t].unwinding
        /\ task' = [task EXCEPT ![t].pc = "fencing", ![t].cancelled = FALSE]
        /\ UNCHANGED <<busy, outcome>>

\* A decided request goes to its terminal checkpoint. A cancellation absorbed
\* by _protected during the recovery is raised now, and fences.
Decide(t, result) ==
  \/ /\ task[t].unwinding /\ task[t].cancelled
     /\ FenceSlot(t)
  \/ /\ Undisturbed(t) /\ ~task[t].cancelled
     /\ task' = [task EXCEPT ![t].pc = "terminal", ![t].result = result]
     /\ UNCHANGED <<busy, fenced, outcome>>

\* What the gateway answers about a request it holds in state g.
Answers(g) ==
  CASE g \in {"completed", "failed"} -> {g}
    [] g = "refused"  -> {"not_admitted"}
    [] g = "wire"     -> IF SoftRejections THEN {"pending", "not_admitted"} ELSE {"pending"}
    [] OTHER          -> {"pending"}

-----------------------------------------------------------------------------
(* predict, before the request is submitted.                                *)

Begin(t) ==
  LET s == SlotOf[t]
      n == calls[s] + 1
  IN  /\ At(t, {"idle"})
      /\ IsSlotAvailable(s)
      /\ authority
      /\ calls[s] < MaxCalls
      /\ task' = [task EXCEPT ![t] = NewFrame("encode", n)]
      /\ busy' = busy \cup {s}
      /\ calls' = [calls EXCEPT ![s] = n]
      /\ seqno' = [seqno EXCEPT ![<<s, n, 0>>] = sequences[s]]
      /\ UNCHANGED <<fenced, pending, sequences, outcome, journal, providerVars, gateway>>

\* A call that finds the grant expired fences every slot.
RefuseExpired(t) ==
  /\ At(t, {"idle"})
  /\ IsSlotAvailable(SlotOf[t])
  /\ ~authority
  /\ fenced' = Slots
  /\ UNCHANGED <<task, busy, pending, sequences, calls, outcome, seqno, journal,
                 providerVars, gateway>>

\* Mutation: the before_post row is not awaited.
EncodeWithoutIntent(t) ==
  /\ At(t, {"encode"})
  /\ Undisturbed(t)
  /\ MoveTo(t, "recheck")
  /\ UNCHANGED <<busy, fenced, pending, sequences, calls, outcome, seqno, journal,
                 providerVars, gateway>>

Encode(t) ==
  /\ At(t, {"encode"})
  /\ Undisturbed(t)
  /\ MoveTo(t, "intent")
  /\ UNCHANGED <<busy, fenced, pending, sequences, calls, outcome, seqno, journal,
                 providerVars, gateway>>

\* The write runs to its end in the executor even if the task is cancelled.
WriteIntent(t) ==
  /\ At(t, {"intent"})
  /\ MoveTo(t, "recheck")
  /\ journal' = Record(t, "before_post")
  /\ UNCHANGED <<busy, fenced, pending, sequences, calls, outcome, seqno,
                 providerVars, gateway>>

\* Mutation: the state read before the two awaits is trusted.
PostUnchecked(t) ==
  /\ At(t, {"recheck"})
  /\ Undisturbed(t)
  /\ MoveTo(t, "post")
  /\ sequences' = [sequences EXCEPT ![SlotOf[t]] = @ + 1]
  /\ pending' = [pending EXCEPT ![SlotOf[t]] = Req(t)]
  /\ gateway' = [gateway EXCEPT ![Req(t)] = "wire"]
  /\ UNCHANGED <<busy, fenced, calls, outcome, seqno, journal, providerVars>>

Post(t) ==
  LET s == SlotOf[t]
  IN  /\ At(t, {"recheck"})
      /\ Undisturbed(t)
      /\ ~closing /\ authority
      /\ MoveTo(t, "post")
      /\ sequences' = [sequences EXCEPT ![s] = @ + 1]
      /\ pending' = [pending EXCEPT ![s] = Req(t)]
      /\ gateway' = [gateway EXCEPT ![Req(t)] = "wire"]
      /\ UNCHANGED <<busy, fenced, calls, outcome, seqno, journal, providerVars>>

RefuseToPost(t) ==
  /\ At(t, {"recheck"})
  /\ Undisturbed(t)
  /\ closing \/ ~authority
  /\ Leave(t, "error")
  /\ UNCHANGED <<fenced, pending, sequences, calls, seqno, journal, providerVars, gateway>>

\* Encoding or the journal raised: nothing was submitted, nothing is fenced.
FailUnposted(t) ==
  /\ At(t, {"encode", "intent"})
  /\ Leave(t, "error")
  /\ UNCHANGED <<fenced, pending, sequences, calls, seqno, journal, providerVars, gateway>>

\* Cancelled with no identity pending. In "intent" the task waits for the lock.
CancelUnposted(t) ==
  /\ At(t, {"encode", "intent", "recheck", "yield"})
  /\ task[t].cancelled
  /\ Leave(t, "cancelled")
  /\ UNCHANGED <<fenced, pending, sequences, calls, seqno, journal, providerVars, gateway>>

-----------------------------------------------------------------------------
(* predict and _recover, while the identity is pending.                     *)

\* A decoded answer that ends the attempt without recovery.
PostDecides(t) ==
  /\ At(t, {"post"})
  /\ Undisturbed(t)
  /\ \E a \in Answers(gateway[Req(t)]) \ {"pending"} :
       /\ ~(MayResubmit(t) /\ a = "not_admitted")
       /\ Decide(t, a)
  /\ UNCHANGED <<pending, sequences, calls, seqno, journal, providerVars, gateway>>

\* Mutation: a lost answer is taken for a failed request.
PostLostMeansFailed(t) ==
  /\ At(t, {"post"})
  /\ Undisturbed(t)
  /\ pending' = [pending EXCEPT ![SlotOf[t]] = NoRequest]
  /\ Leave(t, "failed")
  /\ UNCHANGED <<fenced, sequences, calls, seqno, journal, providerVars, gateway>>

\* No decoded answer, a pending one, or a rejection that could allow another
\* attempt: recover this identity.
PostUndecided(t) ==
  /\ At(t, {"post"})
  /\ Undisturbed(t)
  /\ MoveTo(t, "lookup")
  /\ UNCHANGED <<busy, fenced, pending, sequences, calls, outcome, seqno, journal,
                 providerVars, gateway>>

\* Mutation: a GET's request_not_admitted is trusted like the resolver's.
LookupAuthorizes(t) ==
  /\ At(t, {"lookup"})
  /\ Undisturbed(t)
  /\ \E a \in Answers(gateway[Req(t)]) \ {"pending"} :
       Decide(t, IF a = "not_admitted" THEN "voided" ELSE a)
  /\ UNCHANGED <<pending, sequences, calls, seqno, journal, providerVars, gateway>>

LookupDecides(t) ==
  /\ At(t, {"lookup"})
  /\ Undisturbed(t)
  /\ \E a \in Answers(gateway[Req(t)]) \ {"pending"} :
       /\ ~(RequireAtomic(t) /\ a = "not_admitted")
       /\ Decide(t, a)
  /\ UNCHANGED <<pending, sequences, calls, seqno, journal, providerVars, gateway>>

LookupUndecided(t) ==
  /\ At(t, {"lookup"})
  /\ Undisturbed(t)
  /\ MoveTo(t, "resolve")
  /\ UNCHANGED <<busy, fenced, pending, sequences, calls, outcome, seqno, journal,
                 providerVars, gateway>>

\* The resolver answered, after its compare-and-set (GatewayResolves).
ResolveDecides(t) ==
  /\ At(t, {"resolve"})
  /\ Undisturbed(t)
  /\ gateway[Req(t)] \in {"completed", "failed", "refused"}
  /\ Decide(t, IF gateway[Req(t)] = "refused" THEN "voided" ELSE gateway[Req(t)])
  /\ UNCHANGED <<pending, sequences, calls, seqno, journal, providerVars, gateway>>

\* The resolver's answer was lost, an error or pending; poll again.
ResolveUndecided(t) ==
  /\ At(t, {"resolve"})
  /\ Undisturbed(t)
  /\ MoveTo(t, "lookup")
  /\ UNCHANGED <<busy, fenced, pending, sequences, calls, outcome, seqno, journal,
                 providerVars, gateway>>

\* An answer whose identity, model, release or actions do not check.
InvalidAnswer(t) ==
  /\ At(t, {"post", "lookup", "resolve"})
  /\ Undisturbed(t)
  /\ FenceSlot(t)
  /\ UNCHANGED <<pending, sequences, calls, seqno, journal, providerVars, gateway>>

\* Mutation: _recover without its deadline.
RecoveryUnbounded(t) == At(t, {}) /\ FALSE

RecoveryTimesOut(t) ==
  /\ At(t, {"lookup", "resolve"})
  /\ Undisturbed(t)
  /\ FenceSlot(t)
  /\ UNCHANGED <<pending, sequences, calls, seqno, journal, providerVars, gateway>>

\* Mutation: a cancelled call drops its request instead of resolving it.
CancelAbandons(t) ==
  /\ At(t, {"post", "lookup", "resolve", "terminal"})
  /\ task[t].cancelled /\ ~task[t].unwinding
  /\ pending' = [pending EXCEPT ![SlotOf[t]] = NoRequest]
  /\ Leave(t, "cancelled")
  /\ UNCHANGED <<fenced, sequences, calls, seqno, journal, providerVars, gateway>>

\* Cancelled while pending: recover the same identity inside _protected.
CancelPosted(t) ==
  /\ At(t, {"post", "lookup", "resolve", "terminal"})
  /\ task[t].cancelled /\ ~task[t].unwinding
  /\ task' = [task EXCEPT ![t].pc = "lookup", ![t].result = "none",
                          ![t].unwinding = TRUE, ![t].cancelled = FALSE]
  /\ \/ UNCHANGED journal
     \/ /\ At(t, {"terminal"})           \* the protected write ended first
        /\ journal' = Record(t, task[t].result)
  /\ UNCHANGED <<busy, fenced, pending, sequences, calls, outcome, seqno,
                 providerVars, gateway>>

-----------------------------------------------------------------------------
(* predict, the terminal checkpoints.                                       *)

WriteTerminal(t) ==
  /\ At(t, {"terminal"})
  /\ ~task[t].unwinding /\ ~task[t].cancelled
  /\ journal' = Record(t, task[t].result)
  /\ pending' = [pending EXCEPT ![SlotOf[t]] = NoRequest]
  /\ \/ /\ task[t].result = "voided" /\ MayResubmit(t)
        /\ MoveTo(t, "yield")
        /\ UNCHANGED <<busy, outcome>>
     \/ /\ task[t].result = "completed"
        /\ Leave(t, "actions")
     \/ /\ task[t].result \in {"failed", "not_admitted", "voided"}
        /\ ~(task[t].result = "voided" /\ MayResubmit(t))
        /\ Leave(t, "failed")
  /\ UNCHANGED <<fenced, sequences, calls, seqno, providerVars, gateway>>

\* The cancelled_resolved row; a second cancellation during it fences.
WriteUnwound(t) ==
  /\ At(t, {"terminal"})
  /\ task[t].unwinding
  /\ journal' = Record(t, "cancelled_resolved")
  /\ Leave(t, "cancelled")
  /\ \/ /\ task[t].cancelled
        /\ fenced' = fenced \cup {SlotOf[t]}
        /\ UNCHANGED pending
     \/ /\ ~task[t].cancelled
        /\ pending' = [pending EXCEPT ![SlotOf[t]] = NoRequest]
        /\ UNCHANGED fenced
  /\ UNCHANGED <<sequences, calls, seqno, providerVars, gateway>>

\* Mutation: the pending entry is deleted before the write that may fail.
WriteFailsAfterDelete(t) ==
  /\ At(t, {"terminal"})
  /\ pending' = [pending EXCEPT ![SlotOf[t]] = NoRequest]
  /\ FenceSlot(t)
  /\ UNCHANGED <<sequences, calls, seqno, journal, providerVars, gateway>>

WriteFails(t) ==
  /\ At(t, {"terminal"})
  /\ FenceSlot(t)
  /\ UNCHANGED <<pending, sequences, calls, seqno, journal, providerVars, gateway>>

\* The "fenced" row, or its failure, replaces the exception and ends the call.
WriteFence(t) ==
  /\ At(t, {"fencing"})
  /\ journal' \in {journal, Record(t, "fenced")}
  /\ Leave(t, IF task[t].cancelled THEN "cancelled" ELSE "error")
  /\ UNCHANGED <<fenced, pending, sequences, calls, seqno, providerVars, gateway>>

\* A new identity for the same logical call.
Resubmit(t) ==
  LET a == task[t].attempt + 1
  IN  /\ At(t, {"yield"})
      /\ Undisturbed(t)
      /\ MayResubmit(t)
      /\ ~closing /\ ready /\ authority
      /\ task' = [task EXCEPT ![t].pc = "encode", ![t].attempt = a, ![t].result = "none"]
      /\ seqno' = [seqno EXCEPT ![<<SlotOf[t], task[t].call, a>>] = sequences[SlotOf[t]]]
      /\ UNCHANGED <<busy, fenced, pending, sequences, calls, outcome, journal,
                     providerVars, gateway>>

RefuseToResubmit(t) ==
  /\ At(t, {"yield"})
  /\ Undisturbed(t)
  /\ closing \/ ~ready \/ ~authority
  /\ Leave(t, "error")
  /\ UNCHANGED <<fenced, pending, sequences, calls, seqno, journal, providerVars, gateway>>

\* Some other task cancels this driver, at any await.
Cancel(t) ==
  /\ ~At(t, {"idle"})
  /\ ~task[t].cancelled
  /\ task' = [task EXCEPT ![t].cancelled = TRUE]
  /\ UNCHANGED <<busy, fenced, pending, sequences, calls, outcome, seqno, journal,
                 providerVars, gateway>>

-----------------------------------------------------------------------------
(* The gateway.                                                             *)

\* A delayed POST is admitted, or refused for good; an admitted request ends.
GatewayMoves(r) ==
  /\ \/ /\ gateway[r] = "wire"
        /\ gateway' = [gateway EXCEPT ![r] = "admitted"]
     \/ /\ gateway[r] = "wire"
        /\ gateway' = [gateway EXCEPT ![r] = "refused"]
     \/ /\ gateway[r] = "admitted"
        /\ gateway' = [gateway EXCEPT ![r] = "completed"]
     \/ /\ gateway[r] = "admitted"
        /\ gateway' = [gateway EXCEPT ![r] = "failed"]
  /\ UNCHANGED <<driverVars, providerVars>>

\* The atomic resolution: a request not admitted yet never will be.
GatewayResolves(t) ==
  /\ At(t, {"resolve"})
  /\ gateway[Req(t)] = "wire"
  /\ gateway' = [gateway EXCEPT ![Req(t)] = "refused"]
  /\ UNCHANGED <<driverVars, providerVars>>

-----------------------------------------------------------------------------
(* The watch over the deployment's authority, close and _cleanup.           *)

AuthorityLapses ==
  /\ authority
  /\ authority' = FALSE
  /\ UNCHANGED <<driverVars, ready, closing, watch, closeTask, gateway>>

\* Mutation: the watch fences and waits for somebody to close.
FenceOnly ==
  /\ ready' = FALSE
  /\ fenced' = Slots
  /\ watch' = FALSE
  /\ UNCHANGED <<task, busy, pending, sequences, calls, outcome, seqno, journal,
                 closing, authority, closeTask, gateway>>

\* The watch's except clause. The cleanup it creates has not run yet, so
\* closing is still FALSE when this step ends.
LoseAuthority ==
  /\ ready' = FALSE
  /\ fenced' = Slots
  /\ watch' = FALSE
  /\ closeTask' = IF closeTask = "none" THEN "scheduled" ELSE closeTask
  /\ UNCHANGED <<task, busy, pending, sequences, calls, outcome, seqno, journal,
                 closing, authority, gateway>>

WatchSeesLapse ==
  /\ watch /\ ~closing
  /\ ~authority
  /\ LoseAuthority

\* A refresh finds another identity, a deployment no longer serving, an expired
\* lease or an authentication error. It may be in flight while close begins.
WatchSeesRejection ==
  /\ watch
  /\ LoseAuthority

\* Mutation: close only marks the provider.
CloseWithoutTask ==
  /\ ~closing
  /\ closing' = TRUE
  /\ ready' = FALSE
  /\ UNCHANGED <<driverVars, authority, watch, closeTask, gateway>>

Close ==
  /\ ~closing
  /\ closing' = TRUE
  /\ ready' = FALSE
  /\ closeTask' = IF closeTask = "none" THEN "scheduled" ELSE closeTask
  /\ UNCHANGED <<driverVars, authority, watch, gateway>>

\* _cleanup starts: it refuses new calls and cancels the watch.
CleanupStarts ==
  /\ closeTask = "scheduled"
  /\ closing' = TRUE
  /\ ready' = FALSE
  /\ watch' = FALSE
  /\ closeTask' = "watch"
  /\ UNCHANGED <<driverVars, authority, gateway>>

CancelActive ==
  task' = [t \in Tasks |-> IF At(t, {"idle"}) THEN task[t]
                           ELSE [task[t] EXCEPT !.cancelled = TRUE]]

DrainStarts ==
  /\ closeTask = "watch"
  /\ closeTask' = "drain"
  /\ CancelActive
  /\ UNCHANGED <<busy, fenced, pending, sequences, calls, outcome, seqno, journal,
                 ready, closing, authority, watch, gateway>>

\* close_timeout cancels the gather, which cancels every driver once more and
\* still waits for all of them.
DrainTimesOut ==
  /\ closeTask = "drain"
  /\ \E t \in Tasks : ~At(t, {"idle"})
  /\ closeTask' = "late"
  /\ CancelActive
  /\ UNCHANGED <<busy, fenced, pending, sequences, calls, outcome, seqno, journal,
                 ready, closing, authority, watch, gateway>>

\* Mutation: the cancelled drivers are not awaited.
DrainWithoutWaiting ==
  /\ closeTask = "drain"
  /\ closeTask' = "stopping"
  /\ UNCHANGED <<driverVars, ready, closing, authority, watch, gateway>>

DrainEnds ==
  /\ closeTask = "drain"
  /\ \A t \in Tasks : At(t, {"idle"})
  /\ closeTask' = "stopping"
  /\ UNCHANGED <<driverVars, ready, closing, authority, watch, gateway>>

StopConfirmed ==
  /\ closeTask = "stopping"
  /\ closeTask' = "confirmed"
  /\ UNCHANGED <<driverVars, ready, closing, authority, watch, gateway>>

\* The stop failed or ran out of time, or the drain took all of it.
CleanupUncertain ==
  /\ \/ closeTask = "stopping"
     \/ closeTask = "late" /\ \A t \in Tasks : At(t, {"idle"})
  /\ closeTask' = "uncertain"
  /\ fenced' = Slots
  /\ UNCHANGED <<task, busy, pending, sequences, calls, outcome, seqno, journal,
                 ready, closing, authority, watch, gateway>>

-----------------------------------------------------------------------------
BeforePost(t) == Encode(t) \/ WriteIntent(t) \/ Post(t) \/ RefuseToPost(t)
                 \/ FailUnposted(t) \/ CancelUnposted(t)

WhilePending(t) == PostDecides(t) \/ PostUndecided(t) \/ LookupDecides(t)
                   \/ LookupUndecided(t) \/ ResolveDecides(t) \/ ResolveUndecided(t)
                   \/ InvalidAnswer(t) \/ RecoveryTimesOut(t) \/ CancelPosted(t)

AfterDecision(t) == WriteTerminal(t) \/ WriteUnwound(t) \/ WriteFails(t)
                    \/ WriteFence(t) \/ Resubmit(t) \/ RefuseToResubmit(t)

Advance(t) == BeforePost(t) \/ WhilePending(t) \/ AfterDecision(t)

Cleanup == CleanupStarts \/ DrainStarts \/ DrainTimesOut \/ DrainEnds
           \/ StopConfirmed \/ CleanupUncertain

Provider == AuthorityLapses \/ WatchSeesLapse \/ WatchSeesRejection \/ Close \/ Cleanup

Next ==
  \/ \E t \in Tasks : Begin(t) \/ RefuseExpired(t) \/ Advance(t) \/ Cancel(t)
                      \/ GatewayResolves(t)
  \/ \E r \in Requests : GatewayMoves(r)
  \/ Provider

\* Every await of predict ends: HTTP calls within request_timeout, _recover
\* within recovery_timeout, journal writes on their own thread. The watch's
\* sleep ends, and so does each await of _cleanup. Nothing is assumed of the
\* gateway, of the callers or of whoever cancels.
Fairness ==
  /\ \A t \in Tasks : WF_vars(Advance(t)) /\ WF_vars(RecoveryTimesOut(t))
  /\ WF_vars(WatchSeesLapse)
  /\ WF_vars(Cleanup)

Spec == Init /\ [][Next]_vars
FairSpec == Spec /\ Fairness

-----------------------------------------------------------------------------
(* Properties.                                                              *)

\* An optional resubmission never executes one logical call twice, however the
\* first POST is delayed: of a call's identities at most one is ever admitted.
AtMostOneAdmission ==
  \A s \in Slots, n \in Calls : \A a, b \in Attempts :
    (/\ gateway[<<s, n, a>>] \in {"admitted", "completed", "failed"}
     /\ gateway[<<s, n, b>>] \in {"admitted", "completed", "failed"}) => a = b

\* Phases of a row that says what became of an identity.
SettledPhases == {"completed", "failed", "not_admitted", "voided", "cancelled_resolved"}

\* No posted request is lost track of: its fate is in the journal, or it is its
\* slot's pending entry, and such a slot is in use or fenced. The cleanup's
\* pending_requests therefore names everything still owed.
NothingForgotten ==
  /\ \A r \in Requests : Posted(r) =>
       pending[r[1]] = r \/ \E p \in SettledPhases : <<r, p>> \in journal
  /\ \A s \in Slots : pending[s] # NoRequest => s \in busy \cup fenced

\* The journal is written ahead: whatever the gateway may know of, a crash at
\* this very moment leaves the operator its identity.
WriteAhead ==
  \A r \in Requests : Posted(r) => <<r, "before_post">> \in journal

\* The identities a slot posts carry 0, 1, 2, ... in turn, although the number is
\* read two awaits before it is used and aborted attempts use none.
SequencesGapless ==
  \A s \in Slots :
    LET sent == {r \in Requests : r[1] = s /\ Posted(r)}
    IN  /\ {seqno[r] : r \in sent} = {k \in 0..sequences[s] : k < sequences[s]}
        /\ \A r, q \in sent : seqno[r] = seqno[q] => r = q

\* A durable terminal row is true and stays true, whatever arrives later.
JournalTruthful ==
  \A r \in Requests :
    /\ <<r, "completed">> \in journal => gateway[r] = "completed"
    /\ <<r, "failed">> \in journal => gateway[r] = "failed"
    /\ <<r, "voided">> \in journal => gateway[r] = "refused"

\* With a gateway that rejects only for good, a slot that can be called again
\* has no request in flight or executing.
FreeSlotQuiet ==
  \A r \in Requests :
    gateway[r] \in {"wire", "admitted"} => r[1] \in busy \cup fenced

\* The deployment is stopped only after every driver has left predict, so each
\* had its chance to resolve what it posted.
StopsQuiet ==
  closeTask \in {"stopping", "confirmed"} => \A t \in Tasks : At(t, {"idle"})

\* Once close began nothing is posted, although drivers were past the first check.
NoPostAfterClose ==
  [][closing => \A r \in Requests : gateway[r] = "unsent" => gateway'[r] = "unsent"]_vars

\* A fenced slot posts nothing more (SlotFencedError: "prevents further use").
NoPostFromFencedSlot ==
  [][\A r \in Requests :
       gateway[r] = "unsent" /\ r[1] \in fenced => gateway'[r] = "unsent"]_vars

\* No call of predict hangs, even with a dead gateway and repeated cancellation.
CallsEnd == \A t \in Tasks : ~At(t, {"idle"}) ~> At(t, {"idle"})

\* Closing ends, with the stop confirmed or reported uncertain.
CloseEnds == closing ~> closeTask \in {"confirmed", "uncertain"}

\* An expired authority starts the teardown even if nobody calls predict.
LapseCloses == ~authority ~> closing

\* Each slot implements the abstract calls (checked with a strict gateway).
Promise == INSTANCE ActionCalls WITH
  phase    <- [s \in Slots |-> IF s \in fenced THEN "dead"
                               ELSE IF s \in busy THEN "busy" ELSE "free"],
  last     <- calls,
  inferred <- [c \in Slots \X Calls |->
                 \E a \in Attempts : gateway[<<c[1], c[2], a>>] = "completed"],
  result   <- outcome

KeepsPromise == Promise!AbsSpec
====
