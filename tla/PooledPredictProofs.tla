---- MODULE PooledPredictProofs ----
(***************************************************************************)
(* Proofs about PooledPredict, for every set of slots and drivers and for  *)
(* every bound on calls and resubmissions. The lemmas follow the parts of  *)
(* the specification: before the POST, while the identity is pending,      *)
(* after the decision, and everybody else's steps.                         *)
(***************************************************************************)
EXTENDS PooledPredict, TLAPS

\* A step of predict replaces one driver's frame; the other drivers keep theirs.
LEMMA ReplaceTyped ==
  ASSUME TypeOK, NEW t \in Tasks, NEW f \in Frame, WellFormed(f),
         task' = [task EXCEPT ![t] = f]
  PROVE  /\ task' \in [Tasks -> Frame]
         /\ \A u \in Tasks : WellFormed(task'[u])
<1>1. \A u \in Tasks : task'[u] = IF u = t THEN f ELSE task[u]
  BY DEF TypeOK
<1>2. task' \in [Tasks -> Frame]
  BY DEF TypeOK
<1> QED
  BY <1>1, <1>2 DEF TypeOK

\* The frames a driver has outside predict and when it enters it.
LEMMA FrameTyped ==
  /\ IdleFrame \in Frame /\ WellFormed(IdleFrame)
  /\ \A n \in Calls : NewFrame("encode", n) \in Frame /\ WellFormed(NewFrame("encode", n))
  BY BoundsAssumption DEF WellFormed, Frame, IdleFrame, NewFrame, Points, Results, Attempts, Calls

\* A driver inside predict goes on to another await.
LEMMA MoveTyped ==
  ASSUME TypeOK, NEW t \in Tasks, task[t].pc # "idle", NEW p \in Points,
         p # "terminal", MoveTo(t, p)
  PROVE  /\ task' \in [Tasks -> Frame]
         /\ \A u \in Tasks : WellFormed(task'[u])
<1> DEFINE f == [task[t] EXCEPT !.pc = p]
<1>1. f \in Frame /\ WellFormed(f)
  BY DEF Frame, TypeOK, WellFormed
<1>2. task' = [task EXCEPT ![t] = f]
  BY DEF MoveTo
<1> HIDE DEF f
<1> QED
  BY <1>1, <1>2, ReplaceTyped

\* The identity of a driver inside predict, and a row it writes.
LEMMA RecordTyped ==
  ASSUME TypeOK, NEW t \in Tasks, task[t].pc # "idle", NEW p \in Phases
  PROVE  /\ Req(t) \in Requests
         /\ Record(t, p) \in SUBSET (Requests \X Phases)
<1>1. Req(t) \in Requests
  BY SlotOfAssumption DEF WellFormed, Req, Requests, Frame, TypeOK
<1> QED
  BY <1>1 DEF Record, TypeOK

\* predict's finally clause.
LEMMA LeaveTyped ==
  ASSUME TypeOK, NEW t \in Tasks, NEW how \in Outcomes, Leave(t, how)
  PROVE  /\ task' \in [Tasks -> Frame]
         /\ \A u \in Tasks : WellFormed(task'[u])
         /\ busy' \in SUBSET Slots
         /\ outcome' \in [Slots \X Calls -> Outcomes]
<1>1. task' = [task EXCEPT ![t] = IdleFrame]
  BY DEF Leave
<1>2. /\ task' \in [Tasks -> Frame]
      /\ \A u \in Tasks : WellFormed(task'[u])
  BY <1>1, FrameTyped, ReplaceTyped
<1>3. busy' \in SUBSET Slots /\ outcome' \in [Slots \X Calls -> Outcomes]
  BY DEF Leave, TypeOK
<1> QED
  BY <1>2, <1>3

\* An exception while the identity is pending.
LEMMA FenceTyped ==
  ASSUME TypeOK, NEW t \in Tasks, task[t].pc # "idle", FenceSlot(t)
  PROVE  /\ task' \in [Tasks -> Frame]
         /\ \A u \in Tasks : WellFormed(task'[u])
         /\ busy' \in SUBSET Slots
         /\ fenced' \in SUBSET Slots
         /\ outcome' \in [Slots \X Calls -> Outcomes]
<1>1. fenced' \in SUBSET Slots
  BY SlotOfAssumption DEF FenceSlot, TypeOK
<1>2. CASE Leave(t, "cancelled")
  BY <1>1, <1>2, LeaveTyped DEF Outcomes
<1>3. CASE /\ task' = [task EXCEPT ![t].pc = "fencing", ![t].cancelled = FALSE]
           /\ UNCHANGED <<busy, outcome>>
  <2> DEFINE f == [task[t] EXCEPT !.pc = "fencing", !.cancelled = FALSE]
  <2>1. f \in Frame /\ WellFormed(f)
    BY DEF Frame, TypeOK, Points, WellFormed
  <2>2. task' = [task EXCEPT ![t] = f]
    BY <1>3
  <2> HIDE DEF f
  <2> QED
    BY <1>1, <1>3, <2>1, <2>2, ReplaceTyped DEF TypeOK
<1> QED
  BY <1>2, <1>3 DEF FenceSlot

\* A decided request.
LEMMA DecideTyped ==
  ASSUME TypeOK, NEW t \in Tasks, task[t].pc # "idle", NEW result \in Results,
         result # "none", Decide(t, result)
  PROVE  /\ task' \in [Tasks -> Frame]
         /\ \A u \in Tasks : WellFormed(task'[u])
         /\ busy' \in SUBSET Slots
         /\ fenced' \in SUBSET Slots
         /\ outcome' \in [Slots \X Calls -> Outcomes]
<1>1. CASE FenceSlot(t)
  BY <1>1, FenceTyped
<1>2. CASE /\ task' = [task EXCEPT ![t].pc = "terminal", ![t].result = result]
           /\ UNCHANGED <<busy, fenced, outcome>>
  <2> DEFINE f == [task[t] EXCEPT !.pc = "terminal", !.result = result]
  <2>1. f \in Frame /\ WellFormed(f)
    BY DEF Frame, TypeOK, Points, WellFormed
  <2>2. task' = [task EXCEPT ![t] = f]
    BY <1>2
  <2> HIDE DEF f
  <2> QED
    BY <1>2, <2>1, <2>2, ReplaceTyped DEF TypeOK
<1> QED
  BY <1>1, <1>2 DEF Decide

-----------------------------------------------------------------------------
\* Each step of predict before the POST keeps the types.
LEMMA BeforePostTyped ==
  ASSUME TypeOK, NEW t \in Tasks, Begin(t) \/ RefuseExpired(t) \/ BeforePost(t)
  PROVE  TypeOK'
<1>1. CASE Begin(t)
  <2> DEFINE n == calls[SlotOf[t]] + 1
  <2>1. SlotOf[t] \in Slots /\ calls[SlotOf[t]] \in 0..MaxCalls
    BY SlotOfAssumption DEF TypeOK
  <2>2. calls[SlotOf[t]] < MaxCalls
    BY <1>1 DEF Begin
  <2>3. n \in Calls /\ n \in 0..MaxCalls
    BY <2>1, <2>2, BoundsAssumption DEF Calls
  <2>4. task' = [task EXCEPT ![t] = NewFrame("encode", n)]
    BY <1>1 DEF Begin
  <2>5. /\ task' \in [Tasks -> Frame]
        /\ \A u \in Tasks : WellFormed(task'[u])
    <3> HIDE DEF n
    <3> QED BY <2>3, <2>4, FrameTyped, ReplaceTyped
  <2>6. calls' \in [Slots -> 0..MaxCalls] /\ busy' \in SUBSET Slots
    BY <1>1, <2>1, <2>3 DEF Begin, TypeOK
  <2>7. seqno' \in [Requests -> Nat]
    BY <1>1, <2>1 DEF Begin, TypeOK
  <2> QED
    BY <1>1, <2>5, <2>6, <2>7 DEF Begin, TypeOK, providerVars
<1>2. CASE RefuseExpired(t)
  BY <1>2 DEF RefuseExpired, TypeOK, providerVars
<1>3. CASE Encode(t)
  <2>1. task[t].pc # "idle" /\ MoveTo(t, "intent")
    BY <1>3 DEF Encode, At
  <2> QED
    BY <1>3, <2>1, MoveTyped DEF Encode, TypeOK, providerVars, Points
<1>4. CASE WriteIntent(t)
  <2>1. task[t].pc # "idle" /\ MoveTo(t, "recheck")
    BY <1>4 DEF WriteIntent, At
  <2>2. journal' \in SUBSET (Requests \X Phases)
    BY <1>4, <2>1, RecordTyped DEF WriteIntent, Phases
  <2> QED
    BY <1>4, <2>1, <2>2, MoveTyped DEF WriteIntent, TypeOK, providerVars, Points
<1>5. CASE Post(t)
  <2>1. task[t].pc # "idle" /\ MoveTo(t, "post")
    BY <1>5 DEF Post, At
  <2>2. Req(t) \in Requests
    BY <2>1, RecordTyped DEF Phases
  <2>3. gateway' \in [Requests -> GatewayStates]
    BY <1>5, <2>2 DEF Post, TypeOK, GatewayStates
  <2>4. pending' \in [Slots -> Requests \cup {NoRequest}]
    BY <1>5, <2>2 DEF Post, TypeOK
  <2>5. sequences' \in [Slots -> Nat]
    <3>1. sequences' = [sequences EXCEPT ![SlotOf[t]] = @ + 1]
      BY <1>5 DEF Post
    <3>2. SlotOf[t] \in Slots /\ sequences[SlotOf[t]] + 1 \in Nat
      BY SlotOfAssumption DEF TypeOK
    <3> QED
      BY <3>1, <3>2 DEF TypeOK
  <2> QED
    BY <1>5, <2>1, <2>3, <2>4, <2>5, MoveTyped DEF Post, TypeOK, providerVars, Points
<1>6. CASE RefuseToPost(t) \/ FailUnposted(t)
  <2>1. Leave(t, "error")
    BY <1>6 DEF RefuseToPost, FailUnposted
  <2> QED
    BY <1>6, <2>1, LeaveTyped DEF RefuseToPost, FailUnposted, TypeOK, providerVars, Outcomes
<1>7. CASE CancelUnposted(t)
  BY <1>7, LeaveTyped DEF CancelUnposted, TypeOK, providerVars, Outcomes
<1> QED
  BY <1>1, <1>2, <1>3, <1>4, <1>5, <1>6, <1>7 DEF BeforePost

\* Each step while the identity is pending keeps the types.
LEMMA WhilePendingTyped ==
  ASSUME TypeOK, NEW t \in Tasks, WhilePending(t)
  PROVE  TypeOK'
<1>1. \A r \in Requests : Answers(gateway[r]) \ {"pending"} \in SUBSET (Results \ {"none"})
  BY DEF Answers, TypeOK, GatewayStates, Results
<1>2. CASE PostUndecided(t)
  <2>1. task[t].pc # "idle" /\ MoveTo(t, "lookup")
    BY <1>2 DEF PostUndecided, At
  <2> QED
    BY <1>2, <2>1, MoveTyped DEF PostUndecided, TypeOK, providerVars, Points
<1>3. CASE LookupUndecided(t)
  <2>1. task[t].pc # "idle" /\ MoveTo(t, "resolve")
    BY <1>3 DEF LookupUndecided, At
  <2> QED
    BY <1>3, <2>1, MoveTyped DEF LookupUndecided, TypeOK, providerVars, Points
<1>4. CASE ResolveUndecided(t)
  <2>1. task[t].pc # "idle" /\ MoveTo(t, "lookup")
    BY <1>4 DEF ResolveUndecided, At
  <2> QED
    BY <1>4, <2>1, MoveTyped DEF ResolveUndecided, TypeOK, providerVars, Points
<1>5. CASE PostDecides(t) \/ LookupDecides(t)
  <2>1. task[t].pc # "idle"
    BY <1>5 DEF PostDecides, LookupDecides, At
  <2>2. Req(t) \in Requests
    BY <2>1, RecordTyped DEF Phases
  <2>3. PICK a \in Answers(gateway[Req(t)]) \ {"pending"} : Decide(t, a)
    BY <1>5 DEF PostDecides, LookupDecides
  <2>4. a \in Results /\ a # "none"
    BY <1>1, <2>2, <2>3
  <2> QED
    BY <1>5, <2>1, <2>3, <2>4, DecideTyped
       DEF PostDecides, LookupDecides, TypeOK, providerVars
<1>6. CASE ResolveDecides(t)
  <2>1. task[t].pc # "idle"
    BY <1>6 DEF ResolveDecides, At
  <2>2. PICK a \in Results : a # "none" /\ Decide(t, a)
    BY <1>6 DEF ResolveDecides, Results
  <2> QED
    BY <1>6, <2>1, <2>2, DecideTyped DEF ResolveDecides, TypeOK, providerVars
<1>7. CASE InvalidAnswer(t) \/ RecoveryTimesOut(t)
  <2>1. task[t].pc # "idle" /\ FenceSlot(t)
    BY <1>7 DEF InvalidAnswer, RecoveryTimesOut, At
  <2> QED
    BY <1>7, <2>1, FenceTyped DEF InvalidAnswer, RecoveryTimesOut, TypeOK, providerVars
<1>8. CASE CancelPosted(t)
  <2> DEFINE f == [task[t] EXCEPT !.pc = "lookup", !.result = "none",
                                  !.unwinding = TRUE, !.cancelled = FALSE]
  <2>1. task[t].pc # "idle"
    BY <1>8 DEF CancelPosted, At
  <2>2. f \in Frame /\ WellFormed(f)
    BY <2>1 DEF Frame, TypeOK, Points, Results, WellFormed
  <2>3. task' = [task EXCEPT ![t] = f]
    BY <1>8 DEF CancelPosted
  <2>4. journal' \in SUBSET (Requests \X Phases)
    <3>1. CASE UNCHANGED journal
      BY <3>1 DEF TypeOK
    <3>2. CASE At(t, {"terminal"}) /\ journal' = Record(t, task[t].result)
      <4>1. task[t].result \in Phases
        BY <3>2 DEF At, TypeOK, WellFormed, Frame, Results, Phases
      <4> QED
        BY <2>1, <3>2, <4>1, RecordTyped
    <3> QED
      BY <1>8, <3>1, <3>2 DEF CancelPosted
  <2> HIDE DEF f
  <2> QED
    BY <1>8, <2>2, <2>3, <2>4, ReplaceTyped DEF CancelPosted, TypeOK, providerVars
<1> QED
  BY <1>2, <1>3, <1>4, <1>5, <1>6, <1>7, <1>8 DEF WhilePending

-----------------------------------------------------------------------------
\* Each step after the decision keeps the types.
LEMMA AfterDecisionTyped ==
  ASSUME TypeOK, NEW t \in Tasks, AfterDecision(t)
  PROVE  TypeOK'
<1>1. CASE WriteTerminal(t)
  <2>1. task[t].pc # "idle" /\ task[t].result \in Phases
    BY <1>1 DEF WriteTerminal, At, TypeOK, WellFormed, Frame, Results, Phases
  <2>2. journal' \in SUBSET (Requests \X Phases)
    BY <1>1, <2>1, RecordTyped DEF WriteTerminal
  <2>3. pending' \in [Slots -> Requests \cup {NoRequest}]
    BY <1>1 DEF WriteTerminal, TypeOK
  <2>4. CASE MoveTo(t, "yield") /\ UNCHANGED <<busy, outcome>>
    BY <1>1, <2>1, <2>2, <2>3, <2>4, MoveTyped DEF WriteTerminal, TypeOK, providerVars, Points
  <2>5. CASE Leave(t, "actions") \/ Leave(t, "failed")
    BY <1>1, <2>2, <2>3, <2>5, LeaveTyped DEF WriteTerminal, TypeOK, providerVars, Outcomes
  <2> QED
    BY <1>1, <2>4, <2>5 DEF WriteTerminal
<1>2. CASE WriteUnwound(t)
  <2>1. task[t].pc # "idle" /\ Leave(t, "cancelled")
    BY <1>2 DEF WriteUnwound, At
  <2>2. journal' \in SUBSET (Requests \X Phases)
    BY <1>2, <2>1, RecordTyped DEF WriteUnwound, Phases
  <2>3. pending' \in [Slots -> Requests \cup {NoRequest}]
    BY <1>2 DEF WriteUnwound, TypeOK
  <2>4. fenced' \in SUBSET Slots
    BY <1>2, SlotOfAssumption DEF WriteUnwound, TypeOK
  <2> QED
    BY <1>2, <2>1, <2>2, <2>3, <2>4, LeaveTyped DEF WriteUnwound, TypeOK, providerVars, Outcomes
<1>3. CASE WriteFails(t)
  <2>1. task[t].pc # "idle" /\ FenceSlot(t)
    BY <1>3 DEF WriteFails, At
  <2> QED
    BY <1>3, <2>1, FenceTyped DEF WriteFails, TypeOK, providerVars
<1>4. CASE WriteFence(t)
  <2>1. task[t].pc # "idle"
    BY <1>4 DEF WriteFence, At
  <2>2. journal' \in SUBSET (Requests \X Phases)
    BY <1>4, <2>1, RecordTyped DEF WriteFence, Phases, TypeOK
  <2>3. Leave(t, "cancelled") \/ Leave(t, "error")
    BY <1>4 DEF WriteFence
  <2> QED
    BY <1>4, <2>2, <2>3, LeaveTyped DEF WriteFence, TypeOK, providerVars, Outcomes
<1>5. CASE Resubmit(t)
  <2> DEFINE a == task[t].attempt + 1
             f == [task[t] EXCEPT !.pc = "encode", !.attempt = a, !.result = "none"]
  <2>1. task[t].pc # "idle" /\ task[t].attempt < MaxResubmissions
    BY <1>5 DEF Resubmit, At, MayResubmit
  <2>2. a \in Attempts
    BY <2>1, BoundsAssumption DEF TypeOK, Frame, Attempts
  <2>3. f \in Frame /\ WellFormed(f)
    BY <2>1, <2>2 DEF Frame, TypeOK, Points, Results, WellFormed
  <2>4. task' = [task EXCEPT ![t] = f]
    BY <1>5 DEF Resubmit
  <2>5. seqno' \in [Requests -> Nat]
    BY <1>5, SlotOfAssumption DEF Resubmit, TypeOK
  <2> HIDE DEF a, f
  <2> QED
    BY <1>5, <2>3, <2>4, <2>5, ReplaceTyped DEF Resubmit, TypeOK, providerVars
<1>6. CASE RefuseToResubmit(t)
  BY <1>6, LeaveTyped DEF RefuseToResubmit, TypeOK, providerVars, Outcomes
<1> QED
  BY <1>1, <1>2, <1>3, <1>4, <1>5, <1>6 DEF AfterDecision

\* Cancelling drivers, one or all of them, keeps the types.
LEMMA CancelTyped ==
  ASSUME TypeOK, NEW who \in SUBSET Tasks,
         task' = [t \in Tasks |-> IF t \in who THEN [task[t] EXCEPT !.cancelled = TRUE]
                                   ELSE task[t]]
  PROVE  /\ task' \in [Tasks -> Frame]
         /\ \A u \in Tasks : WellFormed(task'[u])
<1>1. \A t \in Tasks : /\ [task[t] EXCEPT !.cancelled = TRUE] \in Frame
                       /\ WellFormed([task[t] EXCEPT !.cancelled = TRUE])
  BY DEF TypeOK, Frame, WellFormed
<1> QED
  BY <1>1 DEF TypeOK

\* The steps of the gateway, the callers' cancellations and the provider.
LEMMA OthersTyped ==
  ASSUME TypeOK,
         \/ \E t \in Tasks : Cancel(t) \/ GatewayResolves(t)
         \/ \E r \in Requests : GatewayMoves(r)
         \/ Provider
  PROVE  TypeOK'
<1>1. ASSUME NEW t \in Tasks, Cancel(t) PROVE TypeOK'
  <2>1. task' = [u \in Tasks |-> IF u \in {t} THEN [task[u] EXCEPT !.cancelled = TRUE]
                                 ELSE task[u]]
    BY <1>1 DEF Cancel, TypeOK
  <2>2. /\ task' \in [Tasks -> Frame]
        /\ \A u \in Tasks : WellFormed(task'[u])
    <3>1. {t} \in SUBSET Tasks
      OBVIOUS
    <3> QED BY <2>1, <3>1, CancelTyped
  <2>3. UNCHANGED <<busy, fenced, pending, sequences, calls, outcome, seqno, journal,
                    providerVars, gateway>>
    BY <1>1 DEF Cancel
  <2> QED
    BY <2>2, <2>3 DEF TypeOK, providerVars
<1>2. ASSUME NEW t \in Tasks, GatewayResolves(t) PROVE TypeOK'
  BY <1>2 DEF GatewayResolves, TypeOK, GatewayStates, driverVars, providerVars
<1>3. ASSUME NEW r \in Requests, GatewayMoves(r) PROVE TypeOK'
  BY <1>3 DEF GatewayMoves, TypeOK, GatewayStates, driverVars, providerVars
<1>4. CASE AuthorityLapses \/ WatchSeesLapse \/ WatchSeesRejection \/ Close
  BY <1>4 DEF AuthorityLapses, WatchSeesLapse, WatchSeesRejection, LoseAuthority, Close,
              TypeOK, CleanupStages, driverVars
<1>5. CASE DrainStarts \/ DrainTimesOut
  <2> DEFINE who == {t \in Tasks : ~At(t, {"idle"})}
  <2>1. task' = [t \in Tasks |-> IF t \in who THEN [task[t] EXCEPT !.cancelled = TRUE]
                                 ELSE task[t]]
    BY <1>5 DEF DrainStarts, DrainTimesOut, CancelActive
  <2>2. /\ task' \in [Tasks -> Frame]
        /\ \A u \in Tasks : WellFormed(task'[u])
    <3>1. who \in SUBSET Tasks
      OBVIOUS
    <3> HIDE DEF who
    <3> QED BY <2>1, <3>1, CancelTyped
  <2> QED
    BY <1>5, <2>2 DEF DrainStarts, DrainTimesOut, TypeOK, CleanupStages
<1>6. CASE CleanupStarts \/ DrainEnds \/ StopConfirmed \/ CleanupUncertain
  BY <1>6 DEF CleanupStarts, DrainEnds, StopConfirmed, CleanupUncertain, TypeOK,
              CleanupStages, driverVars
<1> QED
  BY <1>1, <1>2, <1>3, <1>4, <1>5, <1>6 DEF Provider, Cleanup

-----------------------------------------------------------------------------
\* The state after __aenter__ has the types.
LEMMA InitTyped == Init => TypeOK
<1> SUFFICES ASSUME Init PROVE TypeOK
  OBVIOUS
<1>1. /\ task \in [Tasks -> Frame]
      /\ \A t \in Tasks : WellFormed(task[t])
  BY FrameTyped DEF Init
<1>2. calls \in [Slots -> 0..MaxCalls]
  BY BoundsAssumption DEF Init
<1> QED
  BY <1>1, <1>2 DEF Init, TypeOK, CleanupStages, GatewayStates, Outcomes

\* Every step keeps the types.
LEMMA NextTyped == TypeOK /\ [Next]_vars => TypeOK'
<1> SUFFICES ASSUME TypeOK, [Next]_vars PROVE TypeOK'
  OBVIOUS
<1>1. CASE UNCHANGED vars
  BY <1>1 DEF vars, driverVars, providerVars, TypeOK
<1>2. ASSUME NEW t \in Tasks, Begin(t) \/ RefuseExpired(t) \/ Advance(t)
      PROVE  TypeOK'
  BY <1>2, BeforePostTyped, WhilePendingTyped, AfterDecisionTyped DEF Advance
<1>3. ASSUME \/ \E t \in Tasks : Cancel(t) \/ GatewayResolves(t)
             \/ \E r \in Requests : GatewayMoves(r)
             \/ Provider
      PROVE  TypeOK'
  BY <1>3, OthersTyped
<1> QED
  BY <1>1, <1>2, <1>3 DEF Next

\* The types hold in every state, for every set of slots and drivers and every
\* bound on calls and resubmissions.
THEOREM Typed == Spec => []TypeOK
  BY InitTyped, NextTyped, PTL DEF Spec
====
