---- MODULE PooledPredictSafety ----
(***************************************************************************)
(* The safety properties of PooledPredict, proved for every set of slots   *)
(* and drivers and every bound on calls and resubmissions. The invariant   *)
(* has one layer for each question: who may use a slot (Exclusive), what a *)
(* slot owes (Owed), what the gateway may know of each identity (Chain),   *)
(* what the journal says (Rows, Truth), how identities are numbered        *)
(* (Numbered) and how far close has come (Closed). On top of them          *)
(* PooledPredict is shown to implement ActionCalls (Answered), what        *)
(* remains of NoPostFromFencedSlot is proved (Overtaken), and that the     *)
(* journal proves each result (Unrecorded).                                *)
(***************************************************************************)
EXTENDS PooledPredictProofs

\* Where nothing is pending, and where the slot's entry is the driver's request.
Clear == {"encode", "intent", "recheck", "yield"}
Owing == {"post", "lookup", "resolve", "terminal"}

\* A driver inside predict has its slot to itself and works on its last call.
Exclusive ==
  /\ \A t \in Tasks : ~At(t, {"idle"}) =>
       SlotOf[t] \in busy /\ task[t].call = calls[SlotOf[t]]
  /\ \A t, u \in Tasks :
       ~At(t, {"idle"}) /\ ~At(u, {"idle"}) /\ SlotOf[t] = SlotOf[u] => t = u

\* What a slot's pending entry is while a driver stands at each point.
Owed ==
  \A t \in Tasks :
    /\ At(t, Clear) => pending[SlotOf[t]] = NoRequest
    /\ At(t, Owing) => pending[SlotOf[t]] = Req(t)
    /\ At(t, {"fencing"}) => SlotOf[t] \in fenced

\* The attempts before a driver's are refused for good, those after it, and the
\* calls to come, unsent; of all a call's attempts one at most may still count.
Chain ==
  /\ \A t \in Tasks : ~At(t, {"idle"}) => \A a \in Attempts :
       /\ a < task[t].attempt => gateway[<<SlotOf[t], task[t].call, a>>] = "refused"
       /\ a > task[t].attempt => gateway[<<SlotOf[t], task[t].call, a>>] = "unsent"
  /\ \A t \in Tasks :
       /\ At(t, {"encode", "intent", "recheck"}) => gateway[Req(t)] = "unsent"
       /\ At(t, {"yield"}) => gateway[Req(t)] = "refused"
  /\ \A s \in Slots, n \in Calls, a \in Attempts :
       n > calls[s] => gateway[<<s, n, a>>] = "unsent"
  /\ \A s \in Slots, n \in Calls : \A a, b \in Attempts :
       (/\ gateway[<<s, n, a>>] \notin {"unsent", "refused"}
        /\ gateway[<<s, n, b>>] \notin {"unsent", "refused"}) => a = b

\* The row a driver needs before it may post is there when it comes to post.
Rows ==
  /\ WriteAhead
  /\ \A t \in Tasks : At(t, {"recheck"}) => <<Req(t), "before_post">> \in journal

\* What a result says of the request the gateway holds in state g.
Says(result, g) ==
  /\ result = "completed" => g = "completed"
  /\ result = "failed" => g = "failed"
  /\ result = "voided" => g = "refused"
  /\ result = "not_admitted" => SoftRejections \/ g = "refused"

\* A driver at its terminal checkpoint knows the truth, and so does the journal.
Truth ==
  /\ \A t \in Tasks : At(t, {"terminal"}) => Says(task[t].result, gateway[Req(t)])
  /\ JournalTruthful

\* An identity carries its slot's next number until it is posted; the posted ones
\* carry the numbers before it, each one of them.
Sent(s) == {r \in Requests : r[1] = s /\ Posted(r)}

InTurn(s) ==
  /\ \A r \in Sent(s) : seqno[r] < sequences[s]
  /\ \A k \in 0..sequences[s] : k < sequences[s] => \E r \in Sent(s) : seqno[r] = k
  /\ \A r, q \in Sent(s) : seqno[r] = seqno[q] => r = q

Numbered ==
  /\ \A t \in Tasks : At(t, {"encode", "intent", "recheck"}) =>
       seqno[Req(t)] = sequences[SlotOf[t]]
  /\ \A s \in Slots : InTurn(s)

\* Whatever of close runs has set _closing.
Closed ==
  /\ closeTask \notin {"none", "scheduled"} => closing
  /\ StopsQuiet

\* With final rejections only a pending request can be in flight or executing.
Settled ==
  ~SoftRejections => \A r \in Requests :
    gateway[r] \in {"wire", "admitted"} => pending[r[1]] = r

Inv == /\ TypeOK /\ Exclusive /\ Owed /\ NothingForgotten /\ Chain /\ Rows
       /\ Truth /\ Numbered /\ Closed /\ Settled

-----------------------------------------------------------------------------
(* The kinds of steps a driver takes inside predict, with its next frame f: *)
(* what the layers of the invariant need to know of them.                   *)

SameRequest(t, f) == f.call = task[t].call /\ f.attempt = task[t].attempt

\* The driver stays in predict, or leaves it and frees its slot.
Stays(t, f) == f.pc # "idle" /\ f.call = task[t].call /\ busy' = busy
Leaves(t, f) == f = IdleFrame /\ busy' = busy \ {SlotOf[t]}

Prepares(t, f) ==
  /\ At(t, {"encode", "intent"}) /\ f.pc \in {"intent", "recheck"}
  /\ SameRequest(t, f) /\ Stays(t, f)
  /\ journal' \in {journal, Record(t, "before_post")}
  /\ f.pc = "recheck" => <<Req(t), "before_post">> \in journal'
  /\ UNCHANGED <<fenced, pending, sequences, seqno, gateway>>

Posts(t, f) ==
  /\ At(t, {"recheck"}) /\ f.pc = "post"
  /\ SameRequest(t, f) /\ Stays(t, f)
  /\ ~closing
  /\ sequences' = [sequences EXCEPT ![SlotOf[t]] = @ + 1]
  /\ pending' = [pending EXCEPT ![SlotOf[t]] = Req(t)]
  /\ gateway' = [gateway EXCEPT ![Req(t)] = "wire"]
  /\ UNCHANGED <<fenced, seqno, journal>>

Recovers(t, f) ==
  /\ At(t, Owing) /\ f.pc \in {"lookup", "resolve"}
  /\ SameRequest(t, f) /\ Stays(t, f)
  /\ \/ UNCHANGED journal
     \/ /\ At(t, {"terminal"})
        /\ journal' = Record(t, task[t].result)
  /\ UNCHANGED <<fenced, pending, sequences, seqno, gateway>>

Decides(t, f) ==
  /\ At(t, Owing) /\ f.pc = "terminal" /\ f.result # "none"
  /\ SameRequest(t, f) /\ Stays(t, f)
  /\ Says(f.result, gateway[Req(t)])
  /\ UNCHANGED <<fenced, pending, sequences, seqno, journal, gateway>>

Fences(t, f) ==
  /\ At(t, Owing)
  /\ \/ Leaves(t, f)
     \/ /\ Stays(t, f) /\ SameRequest(t, f)
        /\ f.pc = "fencing"
  /\ fenced' = fenced \cup {SlotOf[t]}
  /\ UNCHANGED <<pending, sequences, seqno, journal, gateway>>

\* The terminal row is written. The pending entry goes, or the slot is fenced.
Settles(t, f) ==
  /\ At(t, {"terminal"})
  /\ \/ journal' = Record(t, task[t].result)
     \/ journal' = Record(t, "cancelled_resolved")
  /\ \/ Leaves(t, f)
     \/ /\ Stays(t, f) /\ SameRequest(t, f)
        /\ f.pc = "yield" /\ task[t].result = "voided"
  /\ \/ /\ pending' = [pending EXCEPT ![SlotOf[t]] = NoRequest]
        /\ fenced' = fenced
     \/ /\ Leaves(t, f)
        /\ pending' = pending
        /\ fenced' = fenced \cup {SlotOf[t]}
  /\ UNCHANGED <<sequences, seqno, gateway>>

\* The driver leaves with nothing pending, or from a fenced slot.
GivesUp(t, f) ==
  /\ At(t, Clear \cup {"fencing"})
  /\ Leaves(t, f)
  /\ journal' \in {journal, Record(t, "fenced")}
  /\ UNCHANGED <<fenced, pending, sequences, seqno, gateway>>

Renews(t, f) ==
  /\ At(t, {"yield"}) /\ f.pc = "encode"
  /\ Stays(t, f) /\ MayResubmit(t) /\ f.attempt = task[t].attempt + 1
  /\ seqno' = [seqno EXCEPT ![<<SlotOf[t], f.call, f.attempt>>] = sequences[SlotOf[t]]]
  /\ UNCHANGED <<fenced, pending, sequences, journal, gateway>>

Kinds(t, f) == Prepares(t, f) \/ Posts(t, f) \/ Recovers(t, f) \/ Decides(t, f)
               \/ Fences(t, f) \/ Settles(t, f) \/ GivesUp(t, f) \/ Renews(t, f)

\* t's frame becomes f, and nothing else changes that a driver may not change.
Turns(t, f) ==
  /\ f \in Frame
  /\ task' = [task EXCEPT ![t] = f]
  /\ UNCHANGED <<calls, providerVars>>

\* An exception while the identity is pending is a step of its kind.
LEMMA FenceKind ==
  ASSUME TypeOK, NEW t \in Tasks, At(t, Owing), FenceSlot(t),
         UNCHANGED <<pending, sequences, calls, seqno, journal, providerVars, gateway>>
  PROVE  \E f : Turns(t, f) /\ Fences(t, f)
<1>1. CASE Leave(t, "cancelled")
  BY <1>1, FrameTyped DEF Leave, FenceSlot, Turns, Fences, Leaves
<1>2. CASE /\ task' = [task EXCEPT ![t].pc = "fencing", ![t].cancelled = FALSE]
           /\ UNCHANGED <<busy, outcome>>
  <2> DEFINE f == [task[t] EXCEPT !.pc = "fencing", !.cancelled = FALSE]
  <2>1. f \in Frame /\ f.pc = "fencing" /\ f.call = task[t].call /\ f.attempt = task[t].attempt
    BY DEF Frame, TypeOK, Points
  <2>2. task' = [task EXCEPT ![t] = f]
    BY <1>2
  <2> HIDE DEF f
  <2> QED
    BY <1>2, <2>1, <2>2 DEF FenceSlot, Turns, Fences, Stays, SameRequest
<1> QED
  BY <1>1, <1>2 DEF FenceSlot

\* A true decision is a step of its kind, or fences.
LEMMA DecideKind ==
  ASSUME TypeOK, NEW t \in Tasks, At(t, Owing), NEW result \in Results, result # "none",
         Says(result, gateway[Req(t)]), Decide(t, result),
         UNCHANGED <<pending, sequences, calls, seqno, journal, providerVars, gateway>>
  PROVE  \E f : Turns(t, f) /\ Kinds(t, f)
<1>1. CASE FenceSlot(t)
  BY <1>1, FenceKind DEF Kinds
<1>2. CASE /\ task' = [task EXCEPT ![t].pc = "terminal", ![t].result = result]
           /\ UNCHANGED <<busy, fenced, outcome>>
  <2> DEFINE f == [task[t] EXCEPT !.pc = "terminal", !.result = result]
  <2>1. /\ f \in Frame /\ f.pc = "terminal" /\ f.call = task[t].call
        /\ f.attempt = task[t].attempt /\ f.result = result
    BY DEF Frame, TypeOK, Points
  <2>2. task' = [task EXCEPT ![t] = f]
    BY <1>2
  <2> HIDE DEF f
  <2> QED
    BY <1>2, <2>1, <2>2 DEF Turns, Kinds, Decides, Stays, SameRequest
<1> QED
  BY <1>1, <1>2 DEF Decide

\* Going on to another await with the same request.
LEMMA MoveFrame ==
  ASSUME TypeOK, NEW t \in Tasks, NEW p \in Points, MoveTo(t, p)
  PROVE  \E f \in Frame : task' = [task EXCEPT ![t] = f] /\ f.pc = p /\ SameRequest(t, f)
<1> DEFINE f == [task[t] EXCEPT !.pc = p]
<1>1. f \in Frame /\ f.pc = p /\ f.call = task[t].call /\ f.attempt = task[t].attempt
  BY DEF Frame, TypeOK
<1>2. task' = [task EXCEPT ![t] = f]
  BY DEF MoveTo
<1> HIDE DEF f
<1> QED
  BY <1>1, <1>2 DEF SameRequest

\* Leaving with nothing pending.
LEMMA LeaveKind ==
  ASSUME TypeOK, NEW t \in Tasks, NEW how, At(t, Clear \cup {"fencing"}), Leave(t, how),
         journal' \in {journal, Record(t, "fenced")},
         UNCHANGED <<fenced, pending, sequences, calls, seqno, providerVars, gateway>>
  PROVE  \E f : Turns(t, f) /\ Kinds(t, f)
  BY FrameTyped DEF Leave, Turns, Kinds, GivesUp, Leaves

\* The steps before the POST.
LEMMA BeforePostKind ==
  ASSUME TypeOK, NEW t \in Tasks, BeforePost(t)
  PROVE  \E f : Turns(t, f) /\ Kinds(t, f)
<1>1. CASE Encode(t)
  <2>1. PICK f \in Frame : /\ task' = [task EXCEPT ![t] = f]
                           /\ f.pc = "intent" /\ SameRequest(t, f)
    BY <1>1, MoveFrame DEF Encode, Points
  <2> QED
    BY <1>1, <2>1 DEF Encode, Turns, Kinds, Prepares, Stays, SameRequest, At
<1>2. CASE WriteIntent(t)
  <2>1. PICK f \in Frame : /\ task' = [task EXCEPT ![t] = f]
                           /\ f.pc = "recheck" /\ SameRequest(t, f)
    BY <1>2, MoveFrame DEF WriteIntent, Points
  <2> QED
    BY <1>2, <2>1 DEF WriteIntent, Turns, Kinds, Prepares, Stays, SameRequest, At, Record
<1>3. CASE Post(t)
  <2>1. PICK f \in Frame : /\ task' = [task EXCEPT ![t] = f]
                           /\ f.pc = "post" /\ SameRequest(t, f)
    BY <1>3, MoveFrame DEF Post, Points
  <2> QED
    BY <1>3, <2>1 DEF Post, Turns, Kinds, Posts, Stays, SameRequest
<1>4. CASE RefuseToPost(t) \/ FailUnposted(t) \/ CancelUnposted(t)
  BY <1>4, LeaveKind DEF RefuseToPost, FailUnposted, CancelUnposted, At, Clear
<1> QED
  BY <1>1, <1>2, <1>3, <1>4 DEF BeforePost

\* What the gateway answers is true.
LEMMA AnswersTrue ==
  ASSUME TypeOK, NEW r \in Requests, NEW a \in Answers(gateway[r]) \ {"pending"}
  PROVE  a \in Results /\ a # "none" /\ Says(a, gateway[r])
  BY SoftAssumption DEF Answers, Says, Results, TypeOK, GatewayStates

\* The steps while the identity is pending.
LEMMA WhilePendingKind ==
  ASSUME TypeOK, NEW t \in Tasks, WhilePending(t)
  PROVE  \E f : Turns(t, f) /\ Kinds(t, f)
<1>1. At(t, Owing) /\ Req(t) \in Requests
  <2>1. At(t, Owing)
    BY DEF WhilePending, PostDecides, PostUndecided, LookupDecides, LookupUndecided,
           ResolveDecides, ResolveUndecided, InvalidAnswer, RecoveryTimesOut, CancelPosted,
           At, Owing
  <2> QED
    BY <2>1, RecordTyped DEF At, Owing, Phases
<1>2. ASSUME NEW p \in {"lookup", "resolve"}, MoveTo(t, p),
             UNCHANGED <<busy, fenced, pending, sequences, calls, seqno, journal,
                         providerVars, gateway>>
      PROVE  \E f : Turns(t, f) /\ Kinds(t, f)
  <2>1. PICK f \in Frame : /\ task' = [task EXCEPT ![t] = f]
                           /\ f.pc = p /\ SameRequest(t, f)
    BY <1>2, MoveFrame DEF Points
  <2> QED
    BY <1>1, <1>2, <2>1 DEF Turns, Kinds, Recovers, Stays, SameRequest
<1>3. CASE PostUndecided(t) \/ LookupUndecided(t) \/ ResolveUndecided(t)
  BY <1>2, <1>3 DEF PostUndecided, LookupUndecided, ResolveUndecided
<1>4. CASE PostDecides(t) \/ LookupDecides(t)
  <2>1. PICK a \in Answers(gateway[Req(t)]) \ {"pending"} : Decide(t, a)
    BY <1>4 DEF PostDecides, LookupDecides
  <2> QED
    BY <1>1, <1>4, <2>1, AnswersTrue, DecideKind DEF PostDecides, LookupDecides
<1>5. CASE ResolveDecides(t)
  <2>1. PICK a \in {"completed", "failed", "voided"} :
          Decide(t, a) /\ Says(a, gateway[Req(t)])
    BY <1>5 DEF ResolveDecides, Says
  <2> QED
    BY <1>1, <1>5, <2>1, DecideKind DEF ResolveDecides, Results
<1>6. CASE InvalidAnswer(t) \/ RecoveryTimesOut(t)
  BY <1>1, <1>6, FenceKind DEF InvalidAnswer, RecoveryTimesOut, Kinds
<1>7. CASE CancelPosted(t)
  <2> DEFINE f == [task[t] EXCEPT !.pc = "lookup", !.result = "none",
                                  !.unwinding = TRUE, !.cancelled = FALSE]
  <2>1. f \in Frame /\ f.pc = "lookup" /\ f.call = task[t].call /\ f.attempt = task[t].attempt
    BY DEF Frame, TypeOK, Points, Results
  <2>2. task' = [task EXCEPT ![t] = f]
    BY <1>7 DEF CancelPosted
  <2> HIDE DEF f
  <2> QED
    BY <1>1, <1>7, <2>1, <2>2 DEF CancelPosted, Turns, Kinds, Recovers, Stays, SameRequest
<1> QED
  BY <1>3, <1>4, <1>5, <1>6, <1>7 DEF WhilePending

\* The steps after the decision.
LEMMA AfterDecisionKind ==
  ASSUME TypeOK, NEW t \in Tasks, AfterDecision(t)
  PROVE  \E f : Turns(t, f) /\ Kinds(t, f)
<1>1. CASE WriteTerminal(t)
  <2>1. CASE Leave(t, "actions") \/ Leave(t, "failed")
    BY <1>1, <2>1, FrameTyped DEF WriteTerminal, Leave, Turns, Kinds, Settles, Leaves
  <2>2. CASE MoveTo(t, "yield") /\ task[t].result = "voided" /\ UNCHANGED <<busy, outcome>>
    <3>1. PICK f \in Frame : /\ task' = [task EXCEPT ![t] = f]
                             /\ f.pc = "yield" /\ SameRequest(t, f)
      BY <2>2, MoveFrame DEF Points
    <3> QED
      BY <1>1, <2>2, <3>1 DEF WriteTerminal, Turns, Kinds, Settles, Stays, SameRequest
  <2> QED
    BY <1>1, <2>1, <2>2 DEF WriteTerminal
<1>2. CASE WriteUnwound(t)
  BY <1>2, FrameTyped DEF WriteUnwound, Leave, Turns, Kinds, Settles, Leaves
<1>3. CASE WriteFails(t)
  BY <1>3, FenceKind DEF WriteFails, Kinds, At, Owing
<1>4. CASE WriteFence(t)
  BY <1>4, LeaveKind DEF WriteFence, At
<1>5. CASE Resubmit(t)
  <2> DEFINE a == task[t].attempt + 1
             f == [task[t] EXCEPT !.pc = "encode", !.attempt = a, !.result = "none"]
  <2>1. a \in Attempts
    BY <1>5, BoundsAssumption DEF Resubmit, MayResubmit, TypeOK, Frame, Attempts
  <2>2. f \in Frame /\ f.pc = "encode" /\ f.call = task[t].call /\ f.attempt = a
    BY <2>1 DEF Frame, TypeOK, Points, Results
  <2>3. task' = [task EXCEPT ![t] = f]
    BY <1>5 DEF Resubmit
  <2>4. seqno' = [seqno EXCEPT ![<<SlotOf[t], f.call, f.attempt>>] = sequences[SlotOf[t]]]
    BY <1>5, <2>2 DEF Resubmit
  <2>5. MayResubmit(t) /\ f.attempt = task[t].attempt + 1
    BY <1>5, <2>2 DEF Resubmit
  <2> HIDE DEF f
  <2> QED
    BY <1>5, <2>2, <2>3, <2>4, <2>5 DEF Resubmit, Turns, Kinds, Renews, Stays
<1>6. CASE RefuseToResubmit(t)
  BY <1>6, LeaveKind DEF RefuseToResubmit, At, Clear
<1> QED
  BY <1>1, <1>2, <1>3, <1>4, <1>5, <1>6 DEF AfterDecision

\* Every step of a driver inside predict is of one of the kinds.
LEMMA AdvanceKind ==
  ASSUME TypeOK, NEW t \in Tasks, Advance(t)
  PROVE  \E f : Turns(t, f) /\ Kinds(t, f)
  BY BeforePostKind, WhilePendingKind, AfterDecisionKind DEF Advance

\* Whatever its kind, such a step touches only the driver's own slot and request.
LEMMA KindsTouch ==
  ASSUME TypeOK, NEW t \in Tasks, NEW f, Turns(t, f), Kinds(t, f)
  PROVE  /\ \A u \in Tasks : task'[u] = IF u = t THEN f ELSE task[u]
         /\ ~At(t, {"idle"}) /\ Req(t) \in Requests
         /\ Stays(t, f) \/ Leaves(t, f)
         /\ \A s \in Slots : s # SlotOf[t] =>
              pending'[s] = pending[s] /\ sequences'[s] = sequences[s]
         /\ \A r \in Requests : r # Req(t) => gateway'[r] = gateway[r]
         /\ \A r \in Requests : r[1] # SlotOf[t] => seqno'[r] = seqno[r]
         /\ fenced \subseteq fenced' /\ journal \subseteq journal'
         /\ calls' = calls
<1>1. \A u \in Tasks : task'[u] = IF u = t THEN f ELSE task[u]
  BY DEF Turns, TypeOK
<1>2. ~At(t, {"idle"}) /\ (Stays(t, f) \/ Leaves(t, f))
  BY DEF Kinds, Prepares, Posts, Recovers, Decides, Fences, Settles, GivesUp, Renews,
         At, Clear, Owing
<1>3. Req(t) \in Requests
  BY <1>2, RecordTyped DEF At, Phases
<1>4. \A s \in Slots : s # SlotOf[t] =>
        pending'[s] = pending[s] /\ sequences'[s] = sequences[s]
  BY DEF Kinds, Prepares, Posts, Recovers, Decides, Fences, Settles, GivesUp, Renews, TypeOK
<1>5. \A r \in Requests : r # Req(t) => gateway'[r] = gateway[r]
  BY DEF Kinds, Prepares, Posts, Recovers, Decides, Fences, Settles, GivesUp, Renews, TypeOK
<1>6. \A r \in Requests : r[1] # SlotOf[t] => seqno'[r] = seqno[r]
  BY DEF Kinds, Prepares, Posts, Recovers, Decides, Fences, Settles, GivesUp, Renews, TypeOK
<1>7. fenced \subseteq fenced' /\ journal \subseteq journal'
  BY DEF Kinds, Prepares, Posts, Recovers, Decides, Fences, Settles, GivesUp, Renews, Record
<1> QED
  BY <1>1, <1>2, <1>3, <1>4, <1>5, <1>6, <1>7 DEF Turns

\* Steps of everybody else that leave the drivers where they are.
Elsewhere ==
  /\ \A t \in Tasks : /\ task'[t].pc = task[t].pc /\ task'[t].call = task[t].call
                      /\ task'[t].attempt = task[t].attempt /\ task'[t].result = task[t].result
                      /\ task'[t].unwinding = task[t].unwinding
  /\ UNCHANGED <<busy, pending, sequences, calls, seqno, journal>>
  /\ fenced \subseteq fenced'

\* What the gateway does to a request: it never takes back what is final.
GatewayTurns ==
  \A r \in Requests :
    \/ gateway'[r] = gateway[r]
    \/ gateway[r] = "wire" /\ gateway'[r] \in {"admitted", "refused"}
    \/ gateway[r] = "admitted" /\ gateway'[r] \in {"completed", "failed"}

-----------------------------------------------------------------------------
(* Exclusive: who may use a slot.                                           *)

\* A driver's step keeps its slot its own.
LEMMA ExclusiveByKind ==
  ASSUME TypeOK, Exclusive, NEW t \in Tasks, NEW f, Turns(t, f), Kinds(t, f)
  PROVE  Exclusive'
<1>1. /\ \A u \in Tasks : task'[u] = IF u = t THEN f ELSE task[u]
      /\ ~At(t, {"idle"})
      /\ Stays(t, f) \/ Leaves(t, f)
      /\ calls' = calls
  BY KindsTouch
<1>2. CASE Stays(t, f)
  BY <1>1, <1>2 DEF Stays, Exclusive, At
<1>3. CASE Leaves(t, f)
  BY <1>1, <1>3 DEF Leaves, Exclusive, At, IdleFrame, NewFrame
<1> QED
  BY <1>1, <1>2, <1>3

\* A new call finds its slot free.
LEMMA ExclusiveByBegin ==
  ASSUME TypeOK, Exclusive, NEW t \in Tasks, Begin(t)
  PROVE  Exclusive'
<1> DEFINE s == SlotOf[t]
           n == calls[s] + 1
<1>1. /\ s \in Slots /\ s \notin busy
      /\ busy' = busy \cup {s}
      /\ calls' = [calls EXCEPT ![s] = n]
      /\ task' = [task EXCEPT ![t] = NewFrame("encode", n)]
  BY SlotOfAssumption DEF Begin, IsSlotAvailable
<1>2. \A u \in Tasks : ~At(u, {"idle"}) => SlotOf[u] # s
  BY <1>1 DEF Exclusive
<1>3. \A u \in Tasks : task'[u] = IF u = t THEN NewFrame("encode", n) ELSE task[u]
  BY <1>1 DEF TypeOK
<1>4. calls'[s] = n /\ \A q \in Slots : q # s => calls'[q] = calls[q]
  BY <1>1 DEF TypeOK
<1>5. NewFrame("encode", n).call = n
  BY DEF NewFrame
<1> HIDE DEF s, n
<1> QED
  BY <1>1, <1>2, <1>3, <1>4, <1>5, SlotOfAssumption DEF Exclusive, At, s

\* A driver shares its slot with no other inside predict.
LEMMA AloneOnSlot ==
  ASSUME Exclusive, NEW t \in Tasks, ~At(t, {"idle"}),
         NEW u \in Tasks, u # t, ~At(u, {"idle"})
  PROVE  SlotOf[u] # SlotOf[t]
  BY DEF Exclusive

\* Steps elsewhere move no driver.
LEMMA ExclusiveElsewhere ==
  ASSUME Exclusive, Elsewhere
  PROVE  Exclusive'
  BY DEF Exclusive, Elsewhere, At

-----------------------------------------------------------------------------
(* Owed and NothingForgotten: what a slot owes.                             *)

\* A driver's step keeps the pending entries right.
LEMMA OwedByKind ==
  ASSUME TypeOK, Exclusive, Owed, NEW t \in Tasks, NEW f, Turns(t, f), Kinds(t, f)
  PROVE  Owed'
<1> SUFFICES ASSUME NEW u \in Tasks
             PROVE  /\ At(u, Clear)' => pending'[SlotOf[u]] = NoRequest
                    /\ At(u, Owing)' => pending'[SlotOf[u]] = Req(u)'
                    /\ At(u, {"fencing"})' => SlotOf[u] \in fenced'
  BY DEF Owed
<1>1. /\ task'[u] = IF u = t THEN f ELSE task[u]
      /\ ~At(t, {"idle"})
      /\ \A s \in Slots : s # SlotOf[t] => pending'[s] = pending[s]
      /\ fenced \subseteq fenced'
  BY KindsTouch
<1>2. SlotOf[t] \in Slots /\ SlotOf[u] \in Slots
  BY SlotOfAssumption
<1>3. CASE u # t
  <2>1. CASE At(u, {"idle"})
    BY <1>1, <1>3, <2>1 DEF At, Clear, Owing
  <2>2. CASE ~At(u, {"idle"})
    BY <1>1, <1>2, <1>3, <2>2, AloneOnSlot DEF Owed, At, Req
  <2> QED BY <2>1, <2>2
<1>4. CASE u = t
  <2>1. task'[t] = f
    BY <1>1, <1>4
  <2>2. SameRequest(t, f) => Req(t)' = Req(t)
    BY <2>1 DEF SameRequest, Req
  <2>3. CASE Leaves(t, f)
    BY <1>4, <2>1, <2>3 DEF Leaves, IdleFrame, NewFrame, At, Clear, Owing
  <2>4. CASE Prepares(t, f) \/ Renews(t, f)
    BY <1>4, <2>1, <2>4 DEF Prepares, Renews, Owed, At, Clear, Owing
  <2>5. CASE Posts(t, f)
    BY <1>2, <1>4, <2>1, <2>2, <2>5 DEF Posts, At, Clear, Owing, TypeOK
  <2>6. CASE Recovers(t, f) \/ Decides(t, f)
    BY <1>4, <2>1, <2>2, <2>6 DEF Recovers, Decides, Owed, At, Clear, Owing
  <2>7. CASE Fences(t, f)
    BY <1>4, <2>1, <2>3, <2>7 DEF Fences, At, Clear, Owing
  <2>8. CASE Settles(t, f)
    BY <1>2, <1>4, <2>1, <2>3, <2>8 DEF Settles, At, Clear, Owing, TypeOK
  <2>9. CASE GivesUp(t, f)
    BY <2>3, <2>9 DEF GivesUp
  <2> QED
    BY <2>4, <2>5, <2>6, <2>7, <2>8, <2>9 DEF Kinds
<1> QED
  BY <1>3, <1>4

\* A call begins on a slot that is neither busy nor fenced, so it owes nothing.
LEMMA OwedByBegin ==
  ASSUME TypeOK, Exclusive, Owed, NothingForgotten, NEW t \in Tasks, Begin(t)
  PROVE  Owed' /\ NothingForgotten'
<1> DEFINE s == SlotOf[t]
           f == NewFrame("encode", calls[s] + 1)
<1>1. /\ s \in Slots /\ s \notin busy /\ s \notin fenced
      /\ busy' = busy \cup {s}
      /\ task' = [task EXCEPT ![t] = f]
      /\ UNCHANGED <<fenced, pending, journal, gateway>>
  BY SlotOfAssumption DEF Begin, IsSlotAvailable
<1>2. pending[s] = NoRequest
  BY <1>1 DEF NothingForgotten
<1>3. \A u \in Tasks : task'[u] = IF u = t THEN f ELSE task[u]
  BY <1>1 DEF TypeOK
<1>4. f.pc = "encode"
  BY DEF NewFrame
<1>5. Owed'
  <2> HIDE DEF f
  <2> QED
    BY <1>1, <1>2, <1>3, <1>4 DEF Owed, At, Clear, Owing, Req
<1>6. NothingForgotten'
  BY <1>1 DEF NothingForgotten, Posted
<1> QED
  BY <1>5, <1>6

\* Steps elsewhere change no pending entry.
LEMMA OwedElsewhere ==
  ASSUME Owed, Elsewhere
  PROVE  Owed'
  BY DEF Owed, Elsewhere, At, Req

\* A driver's step forgets nothing: it clears its slot's entry only together with
\* a row that settles the request, and frees the slot only with the entry clear.
LEMMA ForgottenByKind ==
  ASSUME TypeOK, Exclusive, Owed, NothingForgotten,
         NEW t \in Tasks, NEW f, Turns(t, f), Kinds(t, f)
  PROVE  NothingForgotten'
<1> DEFINE s == SlotOf[t]
<1>1. /\ ~At(t, {"idle"}) /\ Req(t) \in Requests
      /\ Stays(t, f) \/ Leaves(t, f)
      /\ \A q \in Slots : q # s => pending'[q] = pending[q]
      /\ \A r \in Requests : r # Req(t) => gateway'[r] = gateway[r]
      /\ fenced \subseteq fenced' /\ journal \subseteq journal'
  BY KindsTouch
<1>2. s \in Slots /\ Req(t)[1] = s
  BY SlotOfAssumption DEF Req
<1>3. \A r \in Requests : r[1] \in Slots
  BY DEF Requests
<1>4. ASSUME NEW r \in Requests, Posted(r)'
      PROVE  pending'[r[1]] = r \/ \E p \in SettledPhases : <<r, p>> \in journal'
  <2>1. CASE Posts(t, f)
    <3>1. CASE r = Req(t)
      BY <1>2, <2>1, <3>1 DEF Posts, TypeOK
    <3>2. CASE r # Req(t)
      <4>1. Posted(r)
        BY <1>1, <1>4, <3>2 DEF Posted
      <4>2. pending[s] # r
        BY <2>1, NoRequestAssumption DEF Posts, Owed, At, Clear
      <4> QED
        BY <1>1, <1>3, <4>1, <4>2 DEF NothingForgotten
    <3> QED BY <3>1, <3>2
  <2>2. CASE Settles(t, f)
    <3>1. Posted(r)
      BY <1>4, <2>2 DEF Settles, Posted
    <3>2. pending[s] = Req(t)
      BY <2>2 DEF Settles, Owed, At, Owing
    <3>3. \E p \in SettledPhases : <<Req(t), p>> \in journal'
      <4>1. task[t].result \in SettledPhases
        BY <2>2 DEF Settles, At, TypeOK, WellFormed, Frame, Results, SettledPhases
      <4> QED
        BY <2>2, <4>1 DEF Settles, Record, SettledPhases
    <3>4. CASE r = Req(t)
      BY <3>3, <3>4
    <3>5. CASE r # Req(t)
      BY <1>1, <1>3, <3>1, <3>2, <3>5 DEF NothingForgotten
    <3> QED BY <3>4, <3>5
  <2>3. CASE ~Posts(t, f) /\ ~Settles(t, f)
    <3>1. UNCHANGED <<pending, gateway>>
      BY <2>3 DEF Kinds, Prepares, Recovers, Decides, Fences, GivesUp, Renews
    <3> QED
      BY <1>1, <1>4, <3>1 DEF NothingForgotten, Posted
  <2> QED
    BY <2>1, <2>2, <2>3
<1>5. ASSUME NEW q \in Slots, pending'[q] # NoRequest
      PROVE  q \in busy' \cup fenced'
  <2>1. CASE q # s
    <3>1. q \in busy \cup fenced
      BY <1>1, <1>5, <2>1 DEF NothingForgotten
    <3> QED
      BY <1>1, <2>1, <3>1 DEF Stays, Leaves
  <2>2. CASE q = s /\ Stays(t, f)
    BY <1>1, <2>2 DEF Stays, Exclusive
  <2>3. CASE q = s /\ Leaves(t, f)
    <3>1. CASE Fences(t, f)
      BY <2>3, <3>1 DEF Fences
    <3>2. CASE Settles(t, f)
      BY <1>2, <1>5, <2>3, <3>2 DEF Settles, TypeOK
    <3>3. CASE GivesUp(t, f)
      <4>1. CASE At(t, Clear)
        BY <1>5, <2>3, <3>3, <4>1 DEF GivesUp, Owed
      <4>2. CASE At(t, {"fencing"})
        BY <1>1, <2>3, <4>2 DEF Owed
      <4> QED BY <3>3, <4>1, <4>2 DEF GivesUp, At
    <3>4. f.pc = "idle"
      BY <2>3 DEF Leaves, IdleFrame, NewFrame
    <3>5. ~Prepares(t, f) /\ ~Posts(t, f) /\ ~Recovers(t, f) /\ ~Decides(t, f) /\ ~Renews(t, f)
      BY <3>4 DEF Prepares, Posts, Recovers, Decides, Renews
    <3> QED
      BY <3>1, <3>2, <3>3, <3>5 DEF Kinds
  <2> QED
    BY <1>1, <2>1, <2>2, <2>3
<1> QED
  BY <1>4, <1>5 DEF NothingForgotten

\* Steps elsewhere forget nothing.
LEMMA ForgottenElsewhere ==
  ASSUME NothingForgotten, Elsewhere,
         \A r \in Requests : gateway[r] = "unsent" => gateway'[r] = "unsent"
  PROVE  NothingForgotten'
  BY DEF NothingForgotten, Elsewhere, Posted

-----------------------------------------------------------------------------
(* Chain: what the gateway may know of each identity.                       *)

\* A driver that posts adds to its call's attempts the only one that counts.
LEMMA ChainByPost ==
  ASSUME TypeOK, Exclusive, Chain, NEW t \in Tasks, NEW f, Turns(t, f), Posts(t, f)
  PROVE  Chain'
<1> DEFINE s == SlotOf[t]
           n == task[t].call
           c == task[t].attempt
<1>1. /\ \A u \in Tasks : task'[u] = IF u = t THEN f ELSE task[u]
      /\ ~At(t, {"idle"}) /\ Req(t) \in Requests
      /\ \A r \in Requests : r # Req(t) => gateway'[r] = gateway[r]
      /\ calls' = calls
  BY KindsTouch DEF Kinds
<1>2. /\ s \in Slots /\ n \in Calls /\ c \in Attempts /\ n = calls[s]
      /\ Req(t) = <<s, n, c>>
  BY <1>1, SlotOfAssumption DEF Req, Requests, Exclusive
<1>3. /\ f.pc = "post" /\ f.call = n /\ f.attempt = c
      /\ gateway[<<s, n, c>>] = "unsent"
  BY <1>2 DEF Posts, SameRequest, Chain, At
<1>4. \A a \in Attempts : /\ a < c => gateway[<<s, n, a>>] = "refused"
                          /\ a > c => gateway[<<s, n, a>>] = "unsent"
  BY <1>1 DEF Chain
<1>5. \A a \in Attempts : a # c => a < c \/ a > c
  BY <1>2 DEF Attempts
<1>6. \A a \in Attempts : ~(a < a) /\ ~(a > a)
  BY DEF Attempts
<1> HIDE DEF s, n, c
<1>7. ASSUME NEW u \in Tasks, ~At(u, {"idle"})', NEW a \in Attempts
      PROVE  /\ a < task'[u].attempt =>
                  gateway'[<<SlotOf[u], task'[u].call, a>>] = "refused"
             /\ a > task'[u].attempt =>
                  gateway'[<<SlotOf[u], task'[u].call, a>>] = "unsent"
  <2>1. CASE u = t
    <3>1. a # c => gateway'[<<s, n, a>>] = gateway[<<s, n, a>>]
      BY <1>1, <1>2 DEF Requests
    <3> QED
      BY <1>1, <1>3, <1>4, <1>6, <2>1, <3>1 DEF s
  <2>2. CASE u # t
    <3>1. task'[u] = task[u] /\ ~At(u, {"idle"})
      BY <1>1, <1>7, <2>2 DEF At
    <3>2. SlotOf[u] # s /\ SlotOf[u] \in Slots /\ task[u].call \in Calls
      BY <1>1, <2>2, <3>1, AloneOnSlot, SlotOfAssumption DEF s, TypeOK, WellFormed, At
    <3>3. gateway'[<<SlotOf[u], task[u].call, a>>] = gateway[<<SlotOf[u], task[u].call, a>>]
      BY <1>1, <1>2, <3>2 DEF Requests
    <3> QED
      BY <3>1, <3>3 DEF Chain
  <2> QED BY <2>1, <2>2
<1>8. ASSUME NEW u \in Tasks
      PROVE  /\ At(u, {"encode", "intent", "recheck"})' => gateway'[Req(u)'] = "unsent"
             /\ At(u, {"yield"})' => gateway'[Req(u)'] = "refused"
  <2>1. CASE u = t
    BY <1>1, <1>3, <2>1 DEF At
  <2>2. CASE u # t /\ ~At(u, {"idle"})
    <3>1. task'[u] = task[u] /\ Req(u)' = Req(u)
      BY <1>1, <2>2 DEF Req
    <3>2. SlotOf[u] # s /\ Req(u) \in Requests
      BY <1>1, <2>2, AloneOnSlot, RecordTyped DEF s, At, Phases
    <3>3. gateway'[Req(u)] = gateway[Req(u)]
      BY <1>1, <1>2, <3>2 DEF Req
    <3> QED
      BY <3>1, <3>3 DEF Chain, At
  <2>3. CASE u # t /\ At(u, {"idle"})
    BY <1>1, <2>3 DEF At
  <2> QED BY <2>1, <2>2, <2>3
<1>9. ASSUME NEW q \in Slots, NEW m \in Calls, NEW a \in Attempts, m > calls'[q]
      PROVE  gateway'[<<q, m, a>>] = "unsent"
  <2>1. <<q, m, a>> # Req(t)
    <3>1. calls[q] \in Nat /\ m \in Nat
      BY DEF TypeOK, Calls
    <3>2. m # calls[q]
      BY <1>1, <1>9, <3>1
    <3> QED
      BY <1>2, <3>2
  <2>2. gateway[<<q, m, a>>] = "unsent"
    BY <1>1, <1>9 DEF Chain
  <2> QED
    BY <1>1, <2>1, <2>2 DEF Requests
<1>10. ASSUME NEW q \in Slots, NEW m \in Calls, NEW a \in Attempts, NEW b \in Attempts,
              gateway'[<<q, m, a>>] \notin {"unsent", "refused"},
              gateway'[<<q, m, b>>] \notin {"unsent", "refused"}
       PROVE  a = b
  <2>1. CASE q = s /\ m = n
    <3>1. \A d \in Attempts : d # c => gateway'[<<s, n, d>>] \in {"unsent", "refused"}
      <4> TAKE d \in Attempts
      <4>1. d # c => gateway'[<<s, n, d>>] = gateway[<<s, n, d>>]
        BY <1>1, <1>2 DEF Requests
      <4> QED BY <1>4, <1>5, <4>1
    <3> QED
      BY <1>10, <2>1, <3>1
  <2>2. CASE ~(q = s /\ m = n)
    <3>1. \A d \in Attempts : gateway'[<<q, m, d>>] = gateway[<<q, m, d>>]
      BY <1>1, <1>2, <2>2 DEF Requests
    <3> QED
      BY <1>10, <3>1 DEF Chain
  <2> QED BY <2>1, <2>2
<1> QED
  BY <1>7, <1>8, <1>9, <1>10 DEF Chain

\* A driver that does not post goes on with its attempt, or with the next one
\* once the resolver has refused this one.
LEMMA ChainByKind ==
  ASSUME TypeOK, Exclusive, Chain, Truth, NEW t \in Tasks, NEW f, Turns(t, f), Kinds(t, f)
  PROVE  Chain'
<1>1. CASE Posts(t, f)
  BY <1>1, ChainByPost
<1>2. CASE ~Posts(t, f)
  <2>1. /\ \A u \in Tasks : task'[u] = IF u = t THEN f ELSE task[u]
        /\ ~At(t, {"idle"}) /\ Req(t) \in Requests
        /\ calls' = calls
    BY KindsTouch
  <2>2. gateway' = gateway
    BY <1>2 DEF Kinds, Prepares, Recovers, Decides, Fences, Settles, GivesUp, Renews
  <2>3. /\ f.pc \notin {"idle"} => f.call = task[t].call
        /\ f.pc \notin {"idle"} /\ ~Renews(t, f) => f.attempt = task[t].attempt
    BY <1>2 DEF Kinds, Prepares, Recovers, Decides, Fences, Settles, GivesUp, Renews,
                Stays, Leaves, SameRequest, IdleFrame, NewFrame
  <2>4. ASSUME NEW a \in Attempts, f.pc \notin {"idle"}
        PROVE  /\ a < f.attempt => gateway[<<SlotOf[t], f.call, a>>] = "refused"
               /\ a > f.attempt => gateway[<<SlotOf[t], f.call, a>>] = "unsent"
    <3>1. CASE ~Renews(t, f)
      BY <2>1, <2>3, <2>4, <3>1 DEF Chain
    <3>2. CASE Renews(t, f)
      <4> DEFINE c == task[t].attempt
      <4>1. f.attempt = c + 1 /\ gateway[Req(t)] = "refused"
        BY <3>2 DEF Renews, Chain
      <4>2. a \in Nat /\ c \in Nat
        BY DEF TypeOK, Frame, Attempts
      <4>3. /\ a < c + 1 => a < c \/ a = c
            /\ a > c + 1 => a > c
        BY <4>2
      <4>4. a = c => gateway[<<SlotOf[t], f.call, a>>] = "refused"
        BY <2>3, <2>4, <4>1 DEF Req
      <4>5. /\ a < c => gateway[<<SlotOf[t], f.call, a>>] = "refused"
            /\ a > c => gateway[<<SlotOf[t], f.call, a>>] = "unsent"
        BY <2>1, <2>3, <2>4 DEF Chain
      <4> HIDE DEF c
      <4> QED
        BY <4>1, <4>3, <4>4, <4>5
    <3> QED BY <3>1, <3>2
  <2>5. /\ f.pc \in {"encode", "intent", "recheck"} =>
             gateway[<<SlotOf[t], f.call, f.attempt>>] = "unsent"
        /\ f.pc \in {"yield"} => gateway[<<SlotOf[t], f.call, f.attempt>>] = "refused"
    <3>1. CASE Prepares(t, f)
      BY <3>1 DEF Prepares, SameRequest, Chain, Req, At
    <3>2. CASE Renews(t, f)
      <4> DEFINE c == task[t].attempt
      <4>1. f.attempt = c + 1 /\ f.attempt \in Attempts /\ f.call = task[t].call
        BY <3>2 DEF Renews, Stays, Turns, Frame
      <4>2. c + 1 > c
        BY DEF TypeOK, Frame, Attempts
      <4>3. f.pc = "encode"
        BY <3>2 DEF Renews
      <4> QED
        BY <2>1, <4>1, <4>2, <4>3 DEF Chain
    <3>3. CASE Settles(t, f)
      <4>1. f.pc \in {"idle", "yield"}
        BY <3>3 DEF Settles, Leaves, IdleFrame, NewFrame
      <4>2. f.pc = "yield" => /\ task[t].result = "voided"
                              /\ f.call = task[t].call /\ f.attempt = task[t].attempt
        BY <3>3 DEF Settles, Leaves, IdleFrame, NewFrame, SameRequest
      <4>3. Says(task[t].result, gateway[Req(t)])
        BY <3>3 DEF Settles, Truth
      <4> QED
        BY <4>1, <4>2, <4>3 DEF Says, Req
    <3>4. CASE Recovers(t, f) \/ Decides(t, f) \/ Fences(t, f) \/ GivesUp(t, f)
      BY <3>4 DEF Recovers, Decides, Fences, GivesUp, Leaves, IdleFrame, NewFrame
    <3> QED
      BY <1>2, <3>1, <3>2, <3>3, <3>4 DEF Kinds
  <2> QED
    BY <2>1, <2>2, <2>4, <2>5 DEF Chain, At, Req
<1> QED
  BY <1>1, <1>2

\* The identities of a call that begins are all unsent.
LEMMA ChainByBegin ==
  ASSUME TypeOK, Exclusive, Chain, NEW t \in Tasks, Begin(t)
  PROVE  Chain'
<1> DEFINE s == SlotOf[t]
           n == calls[s] + 1
           f == NewFrame("encode", n)
<1>1. /\ s \in Slots /\ s \notin busy
      /\ calls' = [calls EXCEPT ![s] = n]
      /\ task' = [task EXCEPT ![t] = f]
      /\ UNCHANGED gateway
  BY SlotOfAssumption DEF Begin, IsSlotAvailable
<1>2. \A u \in Tasks : task'[u] = IF u = t THEN f ELSE task[u]
  BY <1>1 DEF TypeOK
<1>3. /\ calls'[s] = n /\ \A q \in Slots : q # s => calls'[q] = calls[q]
      /\ calls[s] \in Nat /\ n > calls[s]
  BY <1>1 DEF TypeOK
<1>4. n \in Calls /\ 0 \in Attempts /\ \A a \in Attempts : ~(a < 0)
  BY <1>3, BoundsAssumption DEF Begin, Calls, Attempts
<1>5. \A a \in Attempts : gateway[<<s, n, a>>] = "unsent"
  BY <1>1, <1>3, <1>4 DEF Chain
<1>6. f.call = n /\ f.attempt = 0 /\ f.pc = "encode"
  BY DEF NewFrame
<1>7. \A q \in Slots, m \in Calls : m > calls'[q] => m > calls[q]
  <2> TAKE q \in Slots, m \in Calls
  <2>1. m \in Nat /\ calls[q] \in Nat
    BY DEF Calls, TypeOK
  <2>2. m > n => m > calls[s]
    BY <1>3, <2>1
  <2> HIDE DEF n
  <2> QED
    BY <1>3, <2>2
<1> HIDE DEF s, n, f
<1>8. \A u \in Tasks : ~At(u, {"idle"})' => \A a \in Attempts :
        /\ a < task'[u].attempt => gateway[<<SlotOf[u], task'[u].call, a>>] = "refused"
        /\ a > task'[u].attempt => gateway[<<SlotOf[u], task'[u].call, a>>] = "unsent"
  BY <1>2, <1>4, <1>5, <1>6 DEF Chain, At, s
<1>9. \A u \in Tasks :
        /\ At(u, {"encode", "intent", "recheck"})' => gateway[Req(u)'] = "unsent"
        /\ At(u, {"yield"})' => gateway[Req(u)'] = "refused"
  BY <1>2, <1>4, <1>5, <1>6 DEF Chain, At, Req, s
<1> QED
  BY <1>1, <1>7, <1>8, <1>9 DEF Chain

\* The gateway neither takes a refusal back nor admits what was not sent.
LEMMA ChainElsewhere ==
  ASSUME TypeOK, Chain, Elsewhere, GatewayTurns
  PROVE  Chain'
<1>1. \A u \in Tasks : ~At(u, {"idle"}) => Req(u) \in Requests
  BY RecordTyped DEF At, Phases
<1>2. \A u \in Tasks : ~At(u, {"idle"}) =>
        \A a \in Attempts : <<SlotOf[u], task[u].call, a>> \in Requests
  BY SlotOfAssumption DEF At, TypeOK, WellFormed, Requests
<1>3. \A u \in Tasks : Req(u)' = Req(u)
  BY DEF Elsewhere, Req
<1>4. \A r \in Requests : /\ gateway[r] = "unsent" => gateway'[r] = "unsent"
                          /\ gateway[r] = "refused" => gateway'[r] = "refused"
                          /\ gateway[r] \in {"unsent", "refused"} =>
                               gateway'[r] \in {"unsent", "refused"}
  BY DEF GatewayTurns
<1>5. \A s \in Slots, n \in Calls, a \in Attempts : <<s, n, a>> \in Requests
  BY DEF Requests
<1>6. \A u \in Tasks : ~At(u, {"idle"})' => \A a \in Attempts :
        /\ a < task'[u].attempt => gateway'[<<SlotOf[u], task'[u].call, a>>] = "refused"
        /\ a > task'[u].attempt => gateway'[<<SlotOf[u], task'[u].call, a>>] = "unsent"
  BY <1>2, <1>4 DEF Chain, Elsewhere, At
<1>7. \A u \in Tasks :
        /\ At(u, {"encode", "intent", "recheck"})' => gateway'[Req(u)'] = "unsent"
        /\ At(u, {"yield"})' => gateway'[Req(u)'] = "refused"
  BY <1>1, <1>3, <1>4 DEF Chain, Elsewhere, At
<1>8. \A s \in Slots, n \in Calls, a \in Attempts :
        n > calls'[s] => gateway'[<<s, n, a>>] = "unsent"
  BY <1>4, <1>5 DEF Chain, Elsewhere
<1>9. \A s \in Slots, n \in Calls : \A a, b \in Attempts :
        (/\ gateway'[<<s, n, a>>] \notin {"unsent", "refused"}
         /\ gateway'[<<s, n, b>>] \notin {"unsent", "refused"}) => a = b
  BY <1>4, <1>5 DEF Chain
<1> QED
  BY <1>6, <1>7, <1>8, <1>9 DEF Chain

-----------------------------------------------------------------------------
(* Rows: the journal is written ahead.                                      *)

\* A driver posts only what its before_post row names.
LEMMA RowsByKind ==
  ASSUME TypeOK, Rows, NEW t \in Tasks, NEW f, Turns(t, f), Kinds(t, f)
  PROVE  Rows'
<1>1. /\ \A u \in Tasks : task'[u] = IF u = t THEN f ELSE task[u]
      /\ \A r \in Requests : r # Req(t) => gateway'[r] = gateway[r]
      /\ journal \subseteq journal'
  BY KindsTouch
<1>2. ASSUME NEW r \in Requests, Posted(r)' PROVE <<r, "before_post">> \in journal'
  <2>1. CASE Posted(r)
    BY <1>1, <2>1 DEF Rows, WriteAhead
  <2>2. CASE ~Posted(r)
    <3>1. Posts(t, f) /\ r = Req(t)
      BY <1>1, <1>2, <2>2 DEF Posted, Kinds, Prepares, Recovers, Decides, Fences, Settles,
                              GivesUp, Renews
    <3> QED
      BY <1>1, <3>1 DEF Posts, Rows
  <2> QED BY <2>1, <2>2
<1>3. ASSUME NEW u \in Tasks, At(u, {"recheck"})'
      PROVE  <<Req(u)', "before_post">> \in journal'
  <2>1. CASE u # t
    BY <1>1, <1>3, <2>1 DEF Rows, At, Req
  <2>2. CASE u = t
    <3>1. f.pc = "recheck"
      BY <1>1, <1>3, <2>2 DEF At
    <3>2. Prepares(t, f)
      BY <3>1 DEF Kinds, Posts, Recovers, Decides, Fences, Settles, GivesUp, Renews,
                  Leaves, IdleFrame, NewFrame
    <3>3. Req(t)' = Req(t)
      BY <1>1, <3>2 DEF Prepares, SameRequest, Req
    <3> QED
      BY <2>2, <3>1, <3>2, <3>3 DEF Prepares
  <2> QED BY <2>1, <2>2
<1> QED
  BY <1>2, <1>3 DEF Rows, WriteAhead

\* A call that begins has no row yet and needs none.
LEMMA RowsByBegin ==
  ASSUME TypeOK, Rows, NEW t \in Tasks, Begin(t)
  PROVE  Rows'
<1> DEFINE f == NewFrame("encode", calls[SlotOf[t]] + 1)
<1>1. /\ \A u \in Tasks : task'[u] = IF u = t THEN f ELSE task[u]
      /\ UNCHANGED <<journal, gateway>>
  BY DEF Begin, TypeOK
<1>2. f.pc = "encode"
  BY DEF NewFrame
<1> HIDE DEF f
<1> QED
  BY <1>1, <1>2 DEF Rows, WriteAhead, Posted, At, Req

\* The gateway learns of nothing by itself.
LEMMA RowsElsewhere ==
  ASSUME Rows, Elsewhere, GatewayTurns
  PROVE  Rows'
<1>1. \A r \in Requests : Posted(r)' => Posted(r)
  BY DEF GatewayTurns, Posted
<1>2. \A u \in Tasks : Req(u)' = Req(u) /\ (At(u, {"recheck"})' <=> At(u, {"recheck"}))
  BY DEF Elsewhere, Req, At
<1> QED
  BY <1>1, <1>2 DEF Rows, WriteAhead, Elsewhere

-----------------------------------------------------------------------------
(* Truth: what drivers and the journal say of a request.                    *)

\* A driver decides and journals only what the gateway has made final.
LEMMA TruthByKind ==
  ASSUME TypeOK, Exclusive, Chain, Truth, NEW t \in Tasks, NEW f, Turns(t, f), Kinds(t, f)
  PROVE  Truth'
<1>1. /\ \A u \in Tasks : task'[u] = IF u = t THEN f ELSE task[u]
      /\ ~At(t, {"idle"}) /\ Req(t) \in Requests
      /\ \A r \in Requests : r # Req(t) => gateway'[r] = gateway[r]
  BY KindsTouch
<1>2. ASSUME NEW r \in Requests, gateway[r] # "unsent" PROVE gateway'[r] = gateway[r]
  <2>1. CASE Posts(t, f)
    <3>1. gateway[Req(t)] = "unsent"
      BY <2>1 DEF Posts, Chain, At
    <3> QED BY <1>1, <1>2, <3>1
  <2>2. CASE ~Posts(t, f)
    BY <2>2 DEF Kinds, Prepares, Recovers, Decides, Fences, Settles, GivesUp, Renews
  <2> QED BY <2>1, <2>2
<1>3. ASSUME NEW u \in Tasks, At(u, {"terminal"})'
      PROVE  Says(task'[u].result, gateway'[Req(u)'])
  <2>1. CASE u = t
    <3>1. f.pc = "terminal"
      BY <1>1, <1>3, <2>1 DEF At
    <3>2. Decides(t, f)
      BY <3>1 DEF Kinds, Prepares, Posts, Recovers, Fences, Settles, GivesUp, Renews,
                  Leaves, IdleFrame, NewFrame
    <3>3. Req(t)' = Req(t)
      BY <1>1, <3>2 DEF Decides, SameRequest, Req
    <3> QED
      BY <1>1, <2>1, <3>2, <3>3 DEF Decides
  <2>2. CASE u # t
    <3>1. /\ task'[u] = task[u] /\ Req(u)' = Req(u)
          /\ At(u, {"terminal"}) /\ ~At(u, {"idle"})
      BY <1>1, <1>3, <2>2 DEF At, Req
    <3>2. SlotOf[u] # SlotOf[t] /\ Req(u) \in Requests
      BY <1>1, <2>2, <3>1, AloneOnSlot, RecordTyped DEF At, Phases
    <3>3. Req(u) # Req(t)
      BY <3>2 DEF Req
    <3> QED
      BY <1>1, <3>1, <3>2, <3>3 DEF Truth
  <2> QED BY <2>1, <2>2
<1>4. ASSUME NEW r \in Requests, NEW p \in {"completed", "failed", "voided"},
             <<r, p>> \in journal'
      PROVE  Says(p, gateway'[r])
  <2>1. Says(p, gateway[r])
    <3>1. CASE <<r, p>> \in journal
      BY <3>1 DEF Truth, JournalTruthful, Says
    <3>2. CASE <<r, p>> \notin journal
      <4>1. At(t, {"terminal"}) /\ r = Req(t) /\ p = task[t].result
        BY <1>4, <3>2 DEF Kinds, Prepares, Posts, Recovers, Decides, Fences, Settles,
                          GivesUp, Renews, Record
      <4> QED
        BY <4>1 DEF Truth
    <3> QED BY <3>1, <3>2
  <2>2. gateway[r] # "unsent"
    BY <2>1 DEF Says
  <2> QED
    BY <1>2, <2>1, <2>2
<1> QED
  BY <1>3, <1>4 DEF Truth, JournalTruthful, Says

\* A driver that begins has decided nothing.
LEMMA TruthByBegin ==
  ASSUME TypeOK, Truth, NEW t \in Tasks, Begin(t)
  PROVE  Truth'
<1> DEFINE f == NewFrame("encode", calls[SlotOf[t]] + 1)
<1>1. /\ \A u \in Tasks : task'[u] = IF u = t THEN f ELSE task[u]
      /\ UNCHANGED <<journal, gateway>>
  BY DEF Begin, TypeOK
<1>2. f.pc = "encode"
  BY DEF NewFrame
<1> HIDE DEF f
<1>3. \A u \in Tasks : At(u, {"terminal"})' => Says(task'[u].result, gateway'[Req(u)'])
  BY <1>1, <1>2 DEF Truth, At, Req
<1> QED
  BY <1>1, <1>3 DEF Truth, JournalTruthful

\* What is final for the gateway stays.
LEMMA TruthElsewhere ==
  ASSUME TypeOK, Truth, Elsewhere, GatewayTurns
  PROVE  Truth'
<1>1. ASSUME NEW r \in Requests, NEW result, Says(result, gateway[r])
      PROVE  Says(result, gateway'[r])
  BY <1>1 DEF Says, GatewayTurns
<1>2. \A u \in Tasks : At(u, {"terminal"}) => Req(u) \in Requests
  BY RecordTyped DEF At, Phases
<1>3. \A u \in Tasks : At(u, {"terminal"})' => Says(task'[u].result, gateway'[Req(u)'])
  BY <1>1, <1>2 DEF Truth, Elsewhere, At, Req
<1>4. JournalTruthful'
  BY DEF Truth, JournalTruthful, Elsewhere, GatewayTurns
<1> QED
  BY <1>3, <1>4 DEF Truth

-----------------------------------------------------------------------------
(* Settled: with final rejections only a pending request runs.              *)

\* A driver clears its entry only when the gateway is done with the request.
LEMMA SettledByKind ==
  ASSUME TypeOK, Owed, Truth, Settled, NEW t \in Tasks, NEW f, Turns(t, f), Kinds(t, f)
  PROVE  Settled'
<1> SUFFICES ASSUME ~SoftRejections, NEW r \in Requests, gateway'[r] \in {"wire", "admitted"}
             PROVE  pending'[r[1]] = r
  BY DEF Settled
<1>1. /\ Req(t) \in Requests
      /\ \A s \in Slots : s # SlotOf[t] => pending'[s] = pending[s]
      /\ \A q \in Requests : q # Req(t) => gateway'[q] = gateway[q]
  BY KindsTouch
<1>2. SlotOf[t] \in Slots /\ Req(t)[1] = SlotOf[t] /\ r[1] \in Slots
  BY SlotOfAssumption DEF Req, Requests
<1>3. CASE Posts(t, f)
  <2>1. CASE r = Req(t)
    BY <1>2, <1>3, <2>1 DEF Posts, TypeOK
  <2>2. CASE r # Req(t)
    <3>1. pending[r[1]] = r
      BY <1>1, <2>2 DEF Settled
    <3>2. pending[SlotOf[t]] = NoRequest
      BY <1>3 DEF Posts, Owed, At, Clear
    <3> QED
      BY <1>1, <1>2, <3>1, <3>2, NoRequestAssumption
  <2> QED BY <2>1, <2>2
<1>4. CASE Settles(t, f)
  <2>1. gateway'[r] = gateway[r] /\ pending[r[1]] = r
    BY <1>4 DEF Settles, Settled
  <2>2. pending[SlotOf[t]] = Req(t) /\ Says(task[t].result, gateway[Req(t)])
    BY <1>4 DEF Settles, Owed, Truth, At, Owing
  <2>3. task[t].result \in {"completed", "failed", "not_admitted", "voided"}
    BY <1>4 DEF Settles, At, TypeOK, WellFormed, Frame, Results
  <2>4. r # Req(t)
    BY <2>1, <2>2, <2>3 DEF Says
  <2> QED
    BY <1>1, <1>2, <2>1, <2>2, <2>4
<1>5. CASE ~Posts(t, f) /\ ~Settles(t, f)
  BY <1>5 DEF Kinds, Prepares, Recovers, Decides, Fences, GivesUp, Renews, Settled
<1> QED
  BY <1>3, <1>4, <1>5

\* Elsewhere nothing new runs.
LEMMA SettledElsewhere ==
  ASSUME Settled, UNCHANGED pending, GatewayTurns
  PROVE  Settled'
  BY DEF Settled, GatewayTurns

-----------------------------------------------------------------------------
(* Numbered: how identities are numbered.                                   *)

\* A slot that posts nothing keeps the numbers of what it has posted.
LEMMA InTurnKept ==
  ASSUME NEW s \in Slots, InTurn(s), sequences'[s] = sequences[s],
         \A r \in Requests : r[1] = s =>
           /\ Posted(r)' <=> Posted(r)
           /\ Posted(r) => seqno'[r] = seqno[r]
  PROVE  InTurn(s)'
<1>1. Sent(s)' = Sent(s) /\ \A r \in Sent(s) : seqno'[r] = seqno[r]
  BY DEF Sent
<1> QED
  BY <1>1 DEF InTurn

\* The request a driver posts takes the slot's next number.
LEMMA InTurnByPost ==
  ASSUME TypeOK, Chain, Numbered, NEW t \in Tasks, NEW f, Turns(t, f), Posts(t, f)
  PROVE  InTurn(SlotOf[t])'
<1> DEFINE s == SlotOf[t]
           k0 == sequences[s]
<1>1. s \in Slots /\ k0 \in Nat /\ Req(t) \in Requests /\ Req(t)[1] = s
  BY SlotOfAssumption, KindsTouch DEF Kinds, TypeOK, Req
<1>2. seqno[Req(t)] = k0 /\ gateway[Req(t)] = "unsent" /\ InTurn(s)
  BY <1>1 DEF Posts, Numbered, Chain, At
<1>3. sequences'[s] = k0 + 1 /\ seqno' = seqno
  BY <1>1 DEF Posts, TypeOK
<1>4. Sent(s)' = Sent(s) \cup {Req(t)}
  <2>1. \A r \in Requests : Posted(r)' <=> Posted(r) \/ r = Req(t)
    BY <1>1 DEF Posts, Posted, TypeOK
  <2> QED
    BY <1>1, <2>1 DEF Sent
<1>5. \A r \in Sent(s) : seqno[r] \in Nat
  BY DEF Sent, TypeOK
<1> HIDE DEF s, k0
<1>6. \A r \in Sent(s)' : seqno'[r] < sequences'[s]
  BY <1>1, <1>2, <1>3, <1>4, <1>5 DEF InTurn, k0
<1>7. ASSUME NEW k \in 0..(k0 + 1), k < k0 + 1
      PROVE  \E r \in Sent(s)' : seqno'[r] = k
  <2>1. CASE k = k0
    BY <1>2, <1>3, <1>4, <2>1
  <2>2. CASE k < k0
    <3>1. k \in 0..k0
      BY <1>1, <2>2
    <3> QED
      BY <1>2, <1>3, <1>4, <2>2, <3>1 DEF InTurn, k0
  <2> QED BY <1>1, <1>7, <2>1, <2>2
<1>8. \A r, q \in Sent(s)' : seqno'[r] = seqno'[q] => r = q
  <2>1. \A r \in Sent(s) : seqno[r] # k0
    BY <1>1, <1>2, <1>5 DEF InTurn, k0
  <2> QED
    BY <1>2, <1>3, <1>4, <2>1 DEF InTurn
<1> QED
  BY <1>3, <1>6, <1>7, <1>8 DEF InTurn, s

\* A driver's step numbers only a request that is not posted yet.
LEMMA NumberedByKind ==
  ASSUME TypeOK, Exclusive, Chain, Numbered, NEW t \in Tasks, NEW f, Turns(t, f), Kinds(t, f)
  PROVE  Numbered'
<1>1. /\ \A u \in Tasks : task'[u] = IF u = t THEN f ELSE task[u]
      /\ ~At(t, {"idle"}) /\ Req(t) \in Requests
      /\ \A s \in Slots : s # SlotOf[t] => sequences'[s] = sequences[s]
      /\ \A r \in Requests : r # Req(t) => gateway'[r] = gateway[r]
      /\ \A r \in Requests : r[1] # SlotOf[t] => seqno'[r] = seqno[r]
  BY KindsTouch
<1>2. SlotOf[t] \in Slots /\ Req(t)[1] = SlotOf[t]
  BY SlotOfAssumption DEF Req
<1>3. Renews(t, f) =>
        /\ <<SlotOf[t], f.call, f.attempt>> \in Requests
        /\ gateway[<<SlotOf[t], f.call, f.attempt>>] = "unsent"
  <2> SUFFICES ASSUME Renews(t, f)
               PROVE  /\ <<SlotOf[t], f.call, f.attempt>> \in Requests
                      /\ gateway[<<SlotOf[t], f.call, f.attempt>>] = "unsent"
    OBVIOUS
  <2> DEFINE c == task[t].attempt
  <2>1. f.attempt = c + 1 /\ f.attempt \in Attempts /\ f.call = task[t].call
    BY DEF Renews, Stays, Turns, Frame
  <2>2. c + 1 > c
    BY DEF TypeOK, Frame, Attempts
  <2>3. task[t].call \in Calls
    BY <1>1 DEF At, TypeOK, WellFormed
  <2> QED
    BY <1>1, <1>2, <2>1, <2>2, <2>3 DEF Chain, Requests
<1>4. ASSUME NEW u \in Tasks, At(u, {"encode", "intent", "recheck"})'
      PROVE  seqno'[Req(u)'] = sequences'[SlotOf[u]]
  <2>1. CASE u # t
    <3>1. task'[u] = task[u] /\ Req(u)' = Req(u) /\ ~At(u, {"idle"})
      BY <1>1, <1>4, <2>1 DEF At, Req
    <3>2. SlotOf[u] # SlotOf[t] /\ Req(u) \in Requests /\ SlotOf[u] \in Slots
      BY <1>1, <2>1, <3>1, AloneOnSlot, RecordTyped, SlotOfAssumption DEF At, Phases
    <3>3. Req(u)[1] = SlotOf[u]
      BY DEF Req
    <3>4. seqno[Req(u)] = sequences[SlotOf[u]]
      BY <1>4, <3>1 DEF Numbered, At
    <3> QED
      BY <1>1, <3>1, <3>2, <3>3, <3>4
  <2>2. CASE u = t
    <3>1. f.pc \in {"encode", "intent", "recheck"}
      BY <1>1, <1>4, <2>2 DEF At
    <3>2. CASE Prepares(t, f)
      <4>1. Req(t)' = Req(t)
        BY <1>1, <3>2 DEF Prepares, SameRequest, Req
      <4> QED
        BY <2>2, <3>2, <4>1 DEF Prepares, Numbered, At
    <3>3. CASE Renews(t, f)
      <4>1. Req(t)' = <<SlotOf[t], f.call, f.attempt>>
        BY <1>1 DEF Req
      <4> QED
        BY <1>3, <2>2, <3>3, <4>1 DEF Renews, TypeOK
    <3>4. Prepares(t, f) \/ Renews(t, f)
      BY <3>1 DEF Kinds, Posts, Recovers, Decides, Fences, Settles, GivesUp, Leaves,
                  IdleFrame, NewFrame
    <3> QED
      BY <3>2, <3>3, <3>4
  <2> QED BY <2>1, <2>2
<1>5. ASSUME NEW s \in Slots PROVE InTurn(s)'
  <2>1. CASE Posts(t, f) /\ s = SlotOf[t]
    BY <2>1, InTurnByPost
  <2>2. CASE ~(Posts(t, f) /\ s = SlotOf[t])
    <3>1. sequences'[s] = sequences[s]
      BY <1>1, <2>2 DEF Kinds, Prepares, Recovers, Decides, Fences, Settles, GivesUp, Renews
    <3>2. \A r \in Requests : r[1] = s => gateway'[r] = gateway[r]
      BY <1>1, <1>2, <2>2 DEF Kinds, Prepares, Recovers, Decides, Fences, Settles, GivesUp,
                              Renews
    <3>3. \A r \in Requests : Posted(r) => seqno'[r] = seqno[r]
      <4>1. CASE Renews(t, f)
        BY <1>3, <4>1 DEF Renews, Posted, TypeOK
      <4>2. CASE ~Renews(t, f)
        BY <4>2 DEF Kinds, Prepares, Posts, Recovers, Decides, Fences, Settles, GivesUp
      <4> QED BY <4>1, <4>2
    <3> QED
      BY <3>1, <3>2, <3>3, InTurnKept DEF Numbered, Posted
  <2> QED BY <2>1, <2>2
<1> QED
  BY <1>4, <1>5 DEF Numbered

\* A new call takes the slot's next number for an identity nobody has posted.
LEMMA NumberedByBegin ==
  ASSUME TypeOK, Exclusive, Chain, Numbered, NEW t \in Tasks, Begin(t)
  PROVE  Numbered'
<1> DEFINE s == SlotOf[t]
           n == calls[s] + 1
           f == NewFrame("encode", n)
           r0 == <<s, n, 0>>
<1>1. /\ s \in Slots /\ s \notin busy
      /\ task' = [task EXCEPT ![t] = f]
      /\ seqno' = [seqno EXCEPT ![r0] = sequences[s]]
      /\ UNCHANGED <<sequences, gateway>>
  BY SlotOfAssumption DEF Begin, IsSlotAvailable
<1>2. \A u \in Tasks : task'[u] = IF u = t THEN f ELSE task[u]
  BY <1>1 DEF TypeOK
<1>3. n \in Calls /\ 0 \in Attempts /\ n > calls[s]
  BY <1>1, BoundsAssumption DEF Begin, Calls, Attempts, TypeOK
<1>4. r0 \in Requests /\ gateway[r0] = "unsent"
  BY <1>1, <1>3 DEF Requests, Chain
<1>5. Req(t)' = r0
  BY <1>2 DEF Req, NewFrame
<1> HIDE DEF n, f
<1>6. ASSUME NEW u \in Tasks, At(u, {"encode", "intent", "recheck"})'
      PROVE  seqno'[Req(u)'] = sequences'[SlotOf[u]]
  <2>1. CASE u = t
    BY <1>1, <1>4, <1>5, <2>1 DEF TypeOK
  <2>2. CASE u # t
    <3>1. task'[u] = task[u] /\ Req(u)' = Req(u) /\ ~At(u, {"idle"})
      BY <1>2, <1>6, <2>2 DEF At, Req
    <3>2. SlotOf[u] # s
      BY <1>1, <3>1 DEF Exclusive
    <3>3. Req(u) # r0 /\ Req(u) \in Requests
      BY <3>1, <3>2, RecordTyped DEF Req, At, Phases
    <3> QED
      BY <1>1, <1>6, <3>1, <3>3 DEF Numbered, At, TypeOK
  <2> QED BY <2>1, <2>2
<1>7. \A r \in Requests : Posted(r) => seqno'[r] = seqno[r]
  BY <1>1, <1>4 DEF Posted, TypeOK
<1>8. ASSUME NEW q \in Slots PROVE InTurn(q)'
  BY <1>1, <1>7, InTurnKept DEF Numbered, Posted
<1> QED
  BY <1>6, <1>8 DEF Numbered

\* Nobody else numbers or posts.
LEMMA NumberedElsewhere ==
  ASSUME TypeOK, Numbered, Elsewhere, GatewayTurns
  PROVE  Numbered'
<1>1. \A r \in Requests : Posted(r)' <=> Posted(r)
  BY DEF GatewayTurns, Posted
<1>2. \A u \in Tasks : At(u, {"encode", "intent", "recheck"})' =>
        seqno'[Req(u)'] = sequences'[SlotOf[u]]
  BY DEF Numbered, Elsewhere, At, Req
<1>3. \A s \in Slots : InTurn(s)'
  BY <1>1, InTurnKept DEF Numbered, Elsewhere
<1> QED
  BY <1>2, <1>3 DEF Numbered

-----------------------------------------------------------------------------
(* Closed: how far close has come.                                          *)

\* A driver inside predict holds the stop back.
LEMMA ClosedByKind ==
  ASSUME TypeOK, Closed, NEW t \in Tasks, NEW f, Turns(t, f), Kinds(t, f)
  PROVE  Closed'
<1>1. ~At(t, {"idle"})
  BY KindsTouch
<1> QED
  BY <1>1 DEF Closed, StopsQuiet, Turns, providerVars

\* No call begins once close has begun.
LEMMA ClosedByBegin ==
  ASSUME Closed, NEW t \in Tasks, Begin(t)
  PROVE  Closed'
  BY DEF Closed, StopsQuiet, Begin, IsSlotAvailable, providerVars

\* Drivers that stay where they are do not disturb close.
LEMMA ClosedElsewhere ==
  ASSUME Closed, Elsewhere, UNCHANGED <<closing, closeTask>>
  PROVE  Closed'
  BY DEF Closed, StopsQuiet, Elsewhere, At

\* The provider stops the deployment only once every driver has left.
LEMMA ClosedByProvider ==
  ASSUME Closed, Elsewhere, Provider
  PROVE  Closed'
<1>1. \A t \in Tasks : At(t, {"idle"})' <=> At(t, {"idle"})
  BY DEF Elsewhere, At
<1>2. CASE AuthorityLapses \/ WatchSeesLapse \/ WatchSeesRejection \/ Close
  BY <1>1, <1>2 DEF AuthorityLapses, WatchSeesLapse, WatchSeesRejection, LoseAuthority, Close,
                    Closed, StopsQuiet
<1>3. CASE Cleanup
  BY <1>1, <1>3 DEF Cleanup, CleanupStarts, DrainStarts, DrainTimesOut, DrainEnds,
                    StopConfirmed, CleanupUncertain, Closed, StopsQuiet
<1> QED
  BY <1>2, <1>3 DEF Provider

-----------------------------------------------------------------------------
(* The steps of everybody else.                                             *)

\* The gateway's steps and the callers' cancellations, and a refused call.
LEMMA OthersElsewhere ==
  ASSUME TypeOK,
         \/ UNCHANGED vars
         \/ \E t \in Tasks : RefuseExpired(t) \/ Cancel(t) \/ GatewayResolves(t)
         \/ \E r \in Requests : GatewayMoves(r)
  PROVE  Elsewhere /\ GatewayTurns /\ UNCHANGED <<closing, closeTask>>
<1>1. CASE UNCHANGED vars
  BY <1>1 DEF vars, driverVars, providerVars, Elsewhere, GatewayTurns
<1>2. ASSUME NEW t \in Tasks, RefuseExpired(t)
      PROVE  Elsewhere /\ GatewayTurns /\ UNCHANGED <<closing, closeTask>>
  BY <1>2 DEF RefuseExpired, providerVars, Elsewhere, GatewayTurns, TypeOK
<1>3. ASSUME NEW t \in Tasks, Cancel(t)
      PROVE  Elsewhere /\ GatewayTurns /\ UNCHANGED <<closing, closeTask>>
  <2>1. \A u \in Tasks : task'[u] = IF u = t THEN [task[u] EXCEPT !.cancelled = TRUE]
                                    ELSE task[u]
    BY <1>3 DEF Cancel, TypeOK
  <2>2. \A u \in Tasks : task[u] \in Frame
    BY DEF TypeOK
  <2>3. \A u \in Tasks :
          /\ task'[u].pc = task[u].pc /\ task'[u].call = task[u].call
          /\ task'[u].attempt = task[u].attempt /\ task'[u].result = task[u].result
          /\ task'[u].unwinding = task[u].unwinding
    BY <2>1, <2>2 DEF Frame
  <2> QED
    BY <1>3, <2>3 DEF Cancel, providerVars, Elsewhere, GatewayTurns
<1>4. ASSUME NEW t \in Tasks, GatewayResolves(t)
      PROVE  Elsewhere /\ GatewayTurns /\ UNCHANGED <<closing, closeTask>>
  BY <1>4 DEF GatewayResolves, driverVars, providerVars, Elsewhere, GatewayTurns, TypeOK
<1>5. ASSUME NEW r \in Requests, GatewayMoves(r)
      PROVE  Elsewhere /\ GatewayTurns /\ UNCHANGED <<closing, closeTask>>
  BY <1>5 DEF GatewayMoves, driverVars, providerVars, Elsewhere, GatewayTurns, TypeOK
<1> QED
  BY <1>1, <1>2, <1>3, <1>4, <1>5

\* The watch and the cleanup fence and cancel, and move no driver.
LEMMA ProviderElsewhere ==
  ASSUME TypeOK, Provider
  PROVE  Elsewhere /\ UNCHANGED gateway
<1>1. CASE DrainStarts \/ DrainTimesOut
  <2>1. \A u \in Tasks : task'[u] = IF At(u, {"idle"}) THEN task[u]
                                    ELSE [task[u] EXCEPT !.cancelled = TRUE]
    BY <1>1 DEF DrainStarts, DrainTimesOut, CancelActive
  <2>2. \A u \in Tasks : task[u] \in Frame
    BY DEF TypeOK
  <2>3. \A u \in Tasks :
          /\ task'[u].pc = task[u].pc /\ task'[u].call = task[u].call
          /\ task'[u].attempt = task[u].attempt /\ task'[u].result = task[u].result
          /\ task'[u].unwinding = task[u].unwinding
    BY <2>1, <2>2 DEF Frame
  <2> QED
    BY <1>1, <2>3 DEF DrainStarts, DrainTimesOut, Elsewhere
<1>2. CASE AuthorityLapses \/ WatchSeesLapse \/ WatchSeesRejection \/ Close
  BY <1>2 DEF AuthorityLapses, WatchSeesLapse, WatchSeesRejection, LoseAuthority, Close,
              driverVars, Elsewhere, TypeOK
<1>3. CASE CleanupStarts \/ DrainEnds \/ StopConfirmed \/ CleanupUncertain
  BY <1>3 DEF CleanupStarts, DrainEnds, StopConfirmed, CleanupUncertain, driverVars,
              Elsewhere, TypeOK
<1> QED
  BY <1>1, <1>2, <1>3 DEF Provider, Cleanup

-----------------------------------------------------------------------------
(* The invariant.                                                           *)

\* It holds when the session opens: nothing is posted, nobody is inside.
LEMMA InitInv == Init => Inv
<1> SUFFICES ASSUME Init PROVE Inv
  OBVIOUS
<1>1. TypeOK
  BY InitTyped
<1>2. /\ \A t \in Tasks : task[t] = IdleFrame
      /\ \A r \in Requests : gateway[r] = "unsent"
      /\ \A s \in Slots : pending[s] = NoRequest /\ sequences[s] = 0
      /\ journal = {} /\ closeTask = "none"
  BY DEF Init
<1>3. \A t \in Tasks : task[t].pc = "idle"
  BY <1>2 DEF IdleFrame, NewFrame
<1>4. Exclusive /\ Owed /\ Rows /\ Truth /\ Closed /\ Settled
  BY <1>2, <1>3 DEF Exclusive, Owed, Rows, WriteAhead, Posted, Truth, JournalTruthful, Closed,
                    StopsQuiet, Settled, At, Clear, Owing
<1>5. NothingForgotten
  BY <1>2 DEF NothingForgotten, Posted
<1>6. Chain
  <2>1. \A s \in Slots, n \in Calls, a \in Attempts : gateway[<<s, n, a>>] = "unsent"
    BY <1>2 DEF Requests
  <2> QED
    BY <1>3, <2>1 DEF Chain, At
<1>7. Numbered
  <2>1. \A s \in Slots : Sent(s) = {} /\ sequences[s] = 0
    BY <1>2 DEF Sent, Posted
  <2>2. \A s \in Slots : InTurn(s)
    BY <2>1 DEF InTurn
  <2> QED
    BY <1>3, <2>2 DEF Numbered, At
<1> QED
  BY <1>1, <1>4, <1>5, <1>6, <1>7 DEF Inv

\* A driver's step inside predict keeps it, whatever its kind.
LEMMA AdvanceInv ==
  ASSUME Inv, TypeOK', NEW t \in Tasks, Advance(t)
  PROVE  Inv'
<1>1. TypeOK /\ Exclusive /\ Owed /\ NothingForgotten /\ Chain /\ Rows /\ Truth /\ Numbered
      /\ Closed /\ Settled
  BY DEF Inv
<1>2. PICK f : Turns(t, f) /\ Kinds(t, f)
  BY <1>1, AdvanceKind
<1>3. Exclusive' /\ Owed' /\ NothingForgotten'
  BY <1>1, <1>2, ExclusiveByKind, OwedByKind, ForgottenByKind
<1>4. Chain' /\ Rows' /\ Truth'
  BY <1>1, <1>2, ChainByKind, RowsByKind, TruthByKind
<1>5. Numbered' /\ Closed' /\ Settled'
  BY <1>1, <1>2, NumberedByKind, ClosedByKind, SettledByKind
<1> QED
  BY <1>3, <1>4, <1>5 DEF Inv

\* A call that begins keeps it.
LEMMA BeginInv ==
  ASSUME Inv, TypeOK', NEW t \in Tasks, Begin(t)
  PROVE  Inv'
<1>1. TypeOK /\ Exclusive /\ Owed /\ NothingForgotten /\ Chain /\ Rows /\ Truth /\ Numbered
      /\ Closed /\ Settled
  BY DEF Inv
<1>2. Exclusive' /\ Owed' /\ NothingForgotten'
  BY <1>1, ExclusiveByBegin, OwedByBegin
<1>3. Chain' /\ Rows' /\ Truth'
  BY <1>1, ChainByBegin, RowsByBegin, TruthByBegin
<1>4. Numbered' /\ Closed'
  BY <1>1, NumberedByBegin, ClosedByBegin
<1>5. Settled'
  BY <1>1 DEF Begin, Settled
<1> QED
  BY <1>2, <1>3, <1>4, <1>5 DEF Inv

\* Everybody else's steps keep it.
LEMMA ElsewhereInv ==
  ASSUME Inv, TypeOK', Elsewhere, GatewayTurns,
         Provider \/ UNCHANGED <<closing, closeTask>>
  PROVE  Inv'
<1>1. TypeOK /\ Exclusive /\ Owed /\ NothingForgotten /\ Chain /\ Rows /\ Truth /\ Numbered
      /\ Closed /\ Settled
  BY DEF Inv
<1>2. \A r \in Requests : gateway[r] = "unsent" => gateway'[r] = "unsent"
  BY DEF GatewayTurns
<1>3. Exclusive' /\ Owed' /\ NothingForgotten'
  BY <1>1, <1>2, ExclusiveElsewhere, OwedElsewhere, ForgottenElsewhere
<1>4. Chain' /\ Rows' /\ Truth'
  BY <1>1, ChainElsewhere, RowsElsewhere, TruthElsewhere
<1>5. Numbered' /\ Closed'
  BY <1>1, NumberedElsewhere, ClosedElsewhere, ClosedByProvider
<1>6. Settled'
  BY <1>1, SettledElsewhere DEF Elsewhere
<1> QED
  BY <1>3, <1>4, <1>5, <1>6 DEF Inv

\* Every step keeps it.
LEMMA NextInv == Inv /\ [Next]_vars => Inv'
<1> SUFFICES ASSUME Inv, [Next]_vars PROVE Inv'
  OBVIOUS
<1>1. TypeOK /\ TypeOK'
  BY NextTyped DEF Inv
<1>2. ASSUME NEW t \in Tasks, Begin(t) \/ Advance(t) PROVE Inv'
  BY <1>1, <1>2, BeginInv, AdvanceInv
<1>3. ASSUME \/ UNCHANGED vars
             \/ \E t \in Tasks : RefuseExpired(t) \/ Cancel(t) \/ GatewayResolves(t)
             \/ \E r \in Requests : GatewayMoves(r)
      PROVE  Inv'
  BY <1>1, <1>3, OthersElsewhere, ElsewhereInv
<1>4. CASE Provider
  <2>1. Elsewhere /\ GatewayTurns
    BY <1>1, <1>4, ProviderElsewhere DEF GatewayTurns
  <2> QED
    BY <1>1, <1>4, <2>1, ElsewhereInv
<1> QED
  BY <1>2, <1>3, <1>4 DEF Next

\* The layers hold together in every state.
THEOREM Invariance == Spec => []Inv
  BY InitInv, NextInv, PTL DEF Spec

-----------------------------------------------------------------------------
(* The properties.                                                          *)

\* An optional resubmission never executes one logical call twice.
THEOREM OneAdmission == Spec => []AtMostOneAdmission
<1>1. Inv => AtMostOneAdmission
  BY DEF Inv, Chain, AtMostOneAdmission
<1> QED
  BY <1>1, Invariance, PTL

\* Every posted request is settled in the journal or is its slot's pending entry.
THEOREM NoneForgotten == Spec => []NothingForgotten
<1>1. Inv => NothingForgotten
  BY DEF Inv
<1> QED
  BY <1>1, Invariance, PTL

\* Whatever the gateway may know of is in the journal.
THEOREM WrittenAhead == Spec => []WriteAhead
<1>1. Inv => WriteAhead
  BY DEF Inv, Rows
<1> QED
  BY <1>1, Invariance, PTL

\* A durable terminal row is true and stays true.
THEOREM RowsTruthful == Spec => []JournalTruthful
<1>1. Inv => JournalTruthful
  BY DEF Inv, Truth
<1> QED
  BY <1>1, Invariance, PTL

\* The posted identities of a slot are numbered 0, 1, 2, ... without a gap.
THEOREM Gapless == Spec => []SequencesGapless
<1>1. ASSUME Inv PROVE SequencesGapless
  <2> SUFFICES ASSUME NEW s \in Slots
               PROVE  /\ {seqno[r] : r \in Sent(s)} =
                           {k \in 0..sequences[s] : k < sequences[s]}
                      /\ \A r, q \in Sent(s) : seqno[r] = seqno[q] => r = q
    BY DEF SequencesGapless, Sent
  <2>1. InTurn(s)
    BY <1>1 DEF Inv, Numbered
  <2>2. sequences[s] \in Nat /\ \A r \in Sent(s) : seqno[r] \in Nat
    BY <1>1 DEF Inv, TypeOK, Sent
  <2>3. \A r \in Sent(s) : seqno[r] \in 0..sequences[s]
    BY <2>1, <2>2 DEF InTurn
  <2> QED
    BY <2>1, <2>3 DEF InTurn
<1> QED
  BY <1>1, Invariance, PTL

\* The deployment stops only after every driver has left predict.
THEOREM QuietStop == Spec => []StopsQuiet
<1>1. Inv => StopsQuiet
  BY DEF Inv, Closed
<1> QED
  BY <1>1, Invariance, PTL

\* With a gateway whose rejections are final, a slot that can be called again has
\* nothing in flight or executing.
THEOREM QuietWhenFree == ASSUME ~SoftRejections PROVE Spec => []FreeSlotQuiet
<1>1. ASSUME Inv PROVE FreeSlotQuiet
  <2> SUFFICES ASSUME NEW r \in Requests, gateway[r] \in {"wire", "admitted"}
               PROVE  r[1] \in busy \cup fenced
    BY DEF FreeSlotQuiet
  <2>1. r[1] \in Slots /\ pending[r[1]] = r
    BY <1>1 DEF Inv, Settled, Requests
  <2> QED
    BY <1>1, <2>1, NoRequestAssumption DEF Inv, NothingForgotten
<1> QED
  BY <1>1, Invariance, PTL

\* Once close began nothing is posted.
THEOREM QuietAfterClose == Spec => NoPostAfterClose
<1> DEFINE Keeps == \A r \in Requests : gateway[r] = "unsent" => gateway'[r] = "unsent"
<1>1. ASSUME Inv, [Next]_vars PROVE [closing => Keeps]_vars
  <2> SUFFICES ASSUME closing PROVE Keeps
    OBVIOUS
  <2>1. TypeOK
    BY <1>1 DEF Inv
  <2>2. ASSUME NEW t \in Tasks, Advance(t) PROVE Keeps
    <3>1. PICK f : Turns(t, f) /\ Kinds(t, f)
      BY <2>1, <2>2, AdvanceKind
    <3> QED
      BY <3>1 DEF Kinds, Prepares, Posts, Recovers, Decides, Fences, Settles, GivesUp, Renews
  <2>3. ASSUME NEW t \in Tasks, Begin(t) PROVE Keeps
    BY <2>3 DEF Begin
  <2>4. ASSUME \/ UNCHANGED vars
               \/ \E t \in Tasks : RefuseExpired(t) \/ Cancel(t) \/ GatewayResolves(t)
               \/ \E r \in Requests : GatewayMoves(r)
        PROVE  Keeps
    BY <2>1, <2>4, OthersElsewhere DEF GatewayTurns
  <2>5. CASE Provider
    BY <2>1, <2>5, ProviderElsewhere
  <2> QED
    BY <1>1, <2>2, <2>3, <2>4, <2>5 DEF Next
<1> QED
  BY <1>1, Invariance, PTL DEF Spec, NoPostAfterClose

-----------------------------------------------------------------------------
(* The refinement of ActionCalls.                                           *)

\* A call has no result while its driver is inside predict, nor has one to come; and what a
\* slot's pending entry names is its last call, which has ended in no result that would
\* say whether it was executed.
Answered ==
  /\ \A t \in Tasks : ~At(t, {"idle"}) => outcome[<<SlotOf[t], task[t].call>>] = "none"
  /\ \A s \in Slots, n \in Calls : n > calls[s] => outcome[<<s, n>>] = "none"
  /\ \A s \in Slots : pending[s] # NoRequest =>
       /\ pending[s][1] = s /\ pending[s][2] = calls[s]
       /\ outcome[<<s, calls[s]>>] \notin {"actions", "failed"}

\* What a driver must know to give its caller this result.
Deserves(t, how) ==
  /\ how \in {"actions", "failed"} =>
       At(t, {"terminal"}) /\ pending' = [pending EXCEPT ![SlotOf[t]] = NoRequest]
  /\ how = "actions" => task[t].result = "completed"
  /\ how = "failed" => task[t].result \in {"failed", "not_admitted", "voided"}

\* A driver ends its call with a result it deserves, or says nothing yet.
Replies(t) ==
  /\ fenced' \in {fenced, fenced \cup {SlotOf[t]}}
  /\ \/ UNCHANGED <<busy, outcome>>
     \/ \E how \in Outcomes \ {"none"} : Leave(t, how) /\ Deserves(t, how)

\* A driver that fences its slot answers in uncertainty, and keeps what the slot owes.
LEMMA FenceReplies ==
  ASSUME NEW t \in Tasks, FenceSlot(t)
  PROVE  Replies(t)
  BY DEF FenceSlot, Replies, Deserves, Outcomes

\* A driver that learnt the gateway's decision answers with it, or goes on.
LEMMA DecideReplies ==
  ASSUME NEW t \in Tasks, NEW result, Decide(t, result)
  PROVE  Replies(t)
  BY FenceReplies DEF Decide, Replies

\* Each step of a driver inside predict answers its own call, if any, as it deserves.
LEMMA AdvanceReplies ==
  ASSUME NEW t \in Tasks, Advance(t)
  PROVE  Replies(t)
<1>1. CASE BeforePost(t)
  BY <1>1 DEF BeforePost, Encode, WriteIntent, Post, RefuseToPost, FailUnposted, CancelUnposted,
              Replies, Deserves, Outcomes
<1>2. CASE WhilePending(t)
  BY <1>2, DecideReplies, FenceReplies
  DEF WhilePending, PostDecides, PostUndecided, LookupDecides, LookupUndecided, ResolveDecides,
      ResolveUndecided, InvalidAnswer, RecoveryTimesOut, CancelPosted, Replies
<1>3. CASE WriteTerminal(t)
  BY <1>3 DEF WriteTerminal, Replies, Deserves, Outcomes
<1>4. CASE WriteUnwound(t) \/ WriteFence(t) \/ Resubmit(t) \/ RefuseToResubmit(t)
  BY <1>4 DEF WriteUnwound, WriteFence, Resubmit, RefuseToResubmit, Replies, Deserves, Outcomes
<1>5. CASE WriteFails(t)
  BY <1>5, FenceReplies DEF WriteFails
<1> QED
  BY <1>1, <1>2, <1>3, <1>4, <1>5 DEF Advance, AfterDecision

\* A driver's step answers no call but its own, and only one it owes nothing for.
LEMMA AnsweredByAdvance ==
  ASSUME Inv, Answered, NEW t \in Tasks, Advance(t)
  PROVE  Answered'
<1> DEFINE s == SlotOf[t]
           n == task[t].call
<1>1. TypeOK /\ Exclusive /\ Owed
  BY DEF Inv
<1>2. PICK f : Turns(t, f) /\ Kinds(t, f)
  BY <1>1, AdvanceKind
<1>3. /\ \A u \in Tasks : task'[u] = IF u = t THEN f ELSE task[u]
      /\ ~At(t, {"idle"}) /\ Req(t) \in Requests
      /\ Stays(t, f) \/ Leaves(t, f)
      /\ \A q \in Slots : q # s => pending'[q] = pending[q]
      /\ calls' = calls
  BY <1>1, <1>2, KindsTouch
<1>4. /\ s \in Slots /\ n \in Calls /\ n = calls[s] /\ outcome[<<s, n>>] = "none"
      /\ Req(t) = <<s, n, task[t].attempt>>
  BY <1>1, <1>3, SlotOfAssumption DEF Req, Requests, Exclusive, Answered
<1>5. \A q \in Slots, m \in Calls : <<q, m>> # <<s, n>> => outcome'[<<q, m>>] = outcome[<<q, m>>]
  BY <1>1, AdvanceReplies DEF Replies, Leave, TypeOK
<1>6. \/ outcome' = outcome
      \/ outcome'[<<s, n>>] \notin {"actions", "failed"} /\ f.pc = "idle"
      \/ pending'[s] = NoRequest /\ f.pc = "idle"
  <2>1. ASSUME NEW how \in Outcomes \ {"none"}, Leave(t, how), Deserves(t, how)
        PROVE  \/ outcome'[<<s, n>>] \notin {"actions", "failed"} /\ f.pc = "idle"
               \/ pending'[s] = NoRequest /\ f.pc = "idle"
    <3>1. f.pc = "idle"
      BY <1>1, <1>3, <2>1 DEF Leave, TypeOK, IdleFrame, NewFrame
    <3>2. outcome'[<<s, n>>] = how
      BY <1>1, <1>4, <2>1 DEF Leave, TypeOK
    <3>3. how \in {"actions", "failed"} => pending'[s] = NoRequest
      BY <1>1, <1>4, <2>1 DEF Deserves, TypeOK
    <3> QED
      BY <3>1, <3>2, <3>3
  <2> QED
    BY <2>1, AdvanceReplies DEF Replies
<1>7. pending'[s] \in {pending[s], NoRequest, Req(t)}
  BY <1>1, <1>2, <1>4 DEF Kinds, Prepares, Posts, Recovers, Decides, Fences, Settles, GivesUp,
                          Renews, TypeOK
<1> HIDE DEF s, n
<1>8. ASSUME NEW u \in Tasks, ~At(u, {"idle"})'
      PROVE  outcome'[<<SlotOf[u], task'[u].call>>] = "none"
  <2>1. CASE u = t
    <3>1. f.pc # "idle" /\ f.call = n
      BY <1>3, <1>8, <2>1 DEF At, Stays, Leaves, IdleFrame, NewFrame, n
    <3>2. outcome' = outcome
      <4>1. ASSUME NEW how, Leave(t, how) PROVE f.pc = "idle"
        BY <1>1, <1>3, <4>1 DEF Leave, TypeOK, IdleFrame, NewFrame
      <4> QED
        BY <3>1, <4>1, AdvanceReplies DEF Replies
    <3> QED
      BY <1>3, <1>4, <2>1, <3>1, <3>2 DEF s
  <2>2. CASE u # t
    <3>1. task'[u] = task[u] /\ ~At(u, {"idle"})
      BY <1>3, <1>8, <2>2 DEF At
    <3>2. SlotOf[u] # s /\ SlotOf[u] \in Slots /\ task[u].call \in Calls
      BY <1>1, <1>3, <2>2, <3>1, AloneOnSlot, SlotOfAssumption DEF s, TypeOK, WellFormed, At
    <3> QED
      BY <1>5, <3>1, <3>2 DEF Answered
  <2> QED
    BY <2>1, <2>2
<1>9. ASSUME NEW q \in Slots, NEW m \in Calls, m > calls'[q]
      PROVE  outcome'[<<q, m>>] = "none"
  <2>1. <<q, m>> # <<s, n>> /\ outcome[<<q, m>>] = "none"
    BY <1>3, <1>4, <1>9 DEF Answered, Calls
  <2> QED
    BY <1>5, <2>1
<1>10. ASSUME NEW q \in Slots, pending'[q] # NoRequest
       PROVE  /\ pending'[q][1] = q /\ pending'[q][2] = calls'[q]
              /\ outcome'[<<q, calls'[q]>>] \notin {"actions", "failed"}
  <2>1. CASE q # s
    <3>1. pending'[q] = pending[q] /\ calls[q] \in 0..MaxCalls
      BY <1>1, <1>3, <2>1 DEF TypeOK
    <3>2. pending[q] \in Requests
      BY <1>1, <1>10, <3>1 DEF TypeOK
    <3>3. pending[q][2] = calls[q] /\ calls[q] \in Calls
      BY <1>10, <3>1, <3>2 DEF Answered, Requests
    <3> QED
      BY <1>3, <1>5, <1>10, <2>1, <3>1, <3>3 DEF Answered
  <2>2. CASE q = s
    BY <1>3, <1>4, <1>6, <1>7, <1>10, <2>2 DEF Answered
  <2> QED
    BY <2>1, <2>2
<1> QED
  BY <1>8, <1>9, <1>10 DEF Answered

\* A call that begins has no result, and its slot owes nothing.
LEMMA AnsweredByBegin ==
  ASSUME Inv, Answered, NEW t \in Tasks, Begin(t)
  PROVE  Answered'
<1> DEFINE s == SlotOf[t]
           n == calls[s] + 1
           f == NewFrame("encode", n)
<1>1. TypeOK /\ Exclusive /\ NothingForgotten
  BY DEF Inv
<1>2. /\ s \in Slots /\ s \notin busy /\ s \notin fenced /\ calls[s] < MaxCalls
      /\ task' = [task EXCEPT ![t] = f]
      /\ calls' = [calls EXCEPT ![s] = n]
      /\ UNCHANGED <<pending, outcome>>
  BY SlotOfAssumption DEF Begin, IsSlotAvailable
<1>3. pending[s] = NoRequest
  BY <1>1, <1>2 DEF NothingForgotten
<1>4. n \in Calls /\ n > calls[s] /\ \A m \in Calls : m > n => m > calls[s]
  BY <1>1, <1>2, BoundsAssumption DEF TypeOK, Calls
<1>5. /\ \A u \in Tasks : task'[u] = IF u = t THEN f ELSE task[u]
      /\ \A q \in Slots : calls'[q] = IF q = s THEN n ELSE calls[q]
      /\ f.call = n
  BY <1>1, <1>2 DEF TypeOK, NewFrame
<1> HIDE DEF s, n, f
<1>6. ASSUME NEW u \in Tasks, ~At(u, {"idle"})'
      PROVE  outcome'[<<SlotOf[u], task'[u].call>>] = "none"
  <2>1. CASE u = t
    BY <1>2, <1>4, <1>5, <2>1 DEF Answered, s
  <2>2. CASE u # t
    BY <1>2, <1>5, <1>6, <2>2 DEF Answered, At
  <2> QED
    BY <2>1, <2>2
<1>7. \A q \in Slots, m \in Calls : m > calls'[q] => outcome'[<<q, m>>] = "none"
  BY <1>2, <1>4, <1>5 DEF Answered
<1>8. \A q \in Slots : pending'[q] # NoRequest =>
        /\ pending'[q][1] = q /\ pending'[q][2] = calls'[q]
        /\ outcome'[<<q, calls'[q]>>] \notin {"actions", "failed"}
  BY <1>2, <1>3, <1>5 DEF Answered
<1> QED
  BY <1>6, <1>7, <1>8 DEF Answered

\* Nobody else answers.
LEMMA OthersAnswerNothing ==
  ASSUME \/ UNCHANGED vars \/ Provider
         \/ \E t \in Tasks : RefuseExpired(t) \/ Cancel(t) \/ GatewayResolves(t)
         \/ \E r \in Requests : GatewayMoves(r)
  PROVE  UNCHANGED <<busy, outcome, calls>> /\ fenced' \in {fenced, Slots}
<1>1. CASE Provider
  BY <1>1 DEF Provider, AuthorityLapses, WatchSeesLapse, WatchSeesRejection, LoseAuthority, Close,
              Cleanup, CleanupStarts, DrainStarts, DrainTimesOut, DrainEnds, StopConfirmed,
              CleanupUncertain, driverVars
<1>2. CASE ~Provider
  BY <1>2 DEF RefuseExpired, Cancel, GatewayResolves, GatewayMoves, vars, driverVars
<1> QED
  BY <1>1, <1>2

\* Answered survives the steps of everybody else,
LEMMA AnsweredElsewhere ==
  ASSUME Answered, Elsewhere, UNCHANGED outcome
  PROVE  Answered'
  BY DEF Answered, Elsewhere, At

\* and every step.
LEMMA AnsweredNext == Inv /\ Answered /\ [Next]_vars => Answered'
<1> SUFFICES ASSUME Inv, Answered, [Next]_vars PROVE Answered'
  OBVIOUS
<1>1. ASSUME NEW t \in Tasks, Begin(t) \/ Advance(t) PROVE Answered'
  BY <1>1, AnsweredByBegin, AnsweredByAdvance
<1>2. CASE \/ UNCHANGED vars \/ Provider
           \/ \E t \in Tasks : RefuseExpired(t) \/ Cancel(t) \/ GatewayResolves(t)
           \/ \E r \in Requests : GatewayMoves(r)
  <2>1. UNCHANGED outcome
    BY <1>2, OthersAnswerNothing
  <2>2. TypeOK
    BY DEF Inv
  <2>3. Elsewhere
    BY <1>2, <2>2, OthersElsewhere, ProviderElsewhere
  <2> QED
    BY <2>1, <2>3, AnsweredElsewhere
<1> QED
  BY <1>1, <1>2 DEF Next

\* The refinement mapping, and what leaves the mapped variables alone.
SlotPhase == [s \in Slots |-> IF s \in fenced THEN "dead"
                              ELSE IF s \in busy THEN "busy" ELSE "free"]

CallsInferred == [c \in Slots \X Calls |->
                    \E a \in Attempts : gateway[<<c[1], c[2], a>>] = "completed"]

\* Steps that move no call from or to its execution infer nothing new.
LEMMA InferredKept ==
  ASSUME \A r \in Requests : gateway'[r] = "completed" <=> gateway[r] = "completed"
  PROVE  CallsInferred' = CallsInferred
<1>1. \A c \in Slots \X Calls, a \in Attempts : <<c[1], c[2], a>> \in Requests
  BY DEF Requests
<1> QED
  BY <1>1 DEF CallsInferred

\* A driver that ends its call ends the abstract one, and has seen what it reports.
LEMMA LeavingEnds ==
  ASSUME Inv, Answered, ~SoftRejections, NEW t \in Tasks, Advance(t), Replies(t),
         NEW how \in Outcomes \ {"none"}, Leave(t, how), Deserves(t, how),
         UNCHANGED calls, CallsInferred' = CallsInferred
  PROVE  Promise!EndCall(SlotOf[t], how)
<1> DEFINE s == SlotOf[t]
           n == task[t].call
<1>1. TypeOK /\ Exclusive /\ Chain /\ Truth
  BY DEF Inv
<1>2. PICK f : Turns(t, f) /\ Kinds(t, f)
  BY <1>1, AdvanceKind
<1>3. ~At(t, {"idle"}) /\ Req(t) \in Requests
  BY <1>1, <1>2, KindsTouch
<1>4. /\ s \in Slots /\ s \in busy /\ n \in Calls /\ n = calls[s] /\ n > 0
      /\ task[t].attempt \in Attempts
      /\ Req(t) = <<s, n, task[t].attempt>> /\ outcome[<<s, n>>] = "none"
  BY <1>1, <1>3, SlotOfAssumption DEF Req, Requests, Exclusive, Answered, Calls
<1>5. how = "actions" => CallsInferred[<<s, n>>]
  BY <1>1, <1>4 DEF Deserves, Truth, Says, CallsInferred
<1>6. how = "failed" => ~CallsInferred[<<s, n>>]
  <2> SUFFICES ASSUME how = "failed", NEW a \in Attempts, gateway[<<s, n, a>>] = "completed"
               PROVE  FALSE
    BY <1>4 DEF CallsInferred
  <2>1. gateway[Req(t)] \in {"failed", "refused"}
    BY <1>1 DEF Deserves, Truth, Says
  <2>2. a # task[t].attempt
    BY <1>4, <2>1
  <2>3. gateway[<<s, n, a>>] \in {"refused", "unsent"}
    <3>1. a < task[t].attempt \/ a > task[t].attempt
      BY <1>4, <2>2 DEF Attempts
    <3> QED
      BY <1>1, <1>3, <3>1 DEF Chain
  <2> QED
    BY <2>3
<1>7. SlotPhase[s] \in {"busy", "dead"}
  BY <1>4 DEF SlotPhase
<1>8. SlotPhase' \in {[SlotPhase EXCEPT ![s] = IF @ = "dead" THEN "dead" ELSE "free"],
                      [SlotPhase EXCEPT ![s] = "dead"]}
  <2>1. busy' = busy \ {s}
    BY DEF Leave
  <2>2. CASE fenced' = fenced
    BY <1>4, <2>1, <2>2 DEF SlotPhase
  <2>3. CASE fenced' = fenced \cup {s}
    BY <1>4, <2>1, <2>3 DEF SlotPhase
  <2> QED
    BY <2>2, <2>3 DEF Replies
<1>9. outcome' = [outcome EXCEPT ![<<s, calls[s]>>] = how]
  BY <1>4 DEF Leave
<1> QED
  BY <1>4, <1>5, <1>6, <1>7, <1>8, <1>9 DEF Promise!EndCall, SlotPhase, CallsInferred

\* A slot dies with the driver that fenced it, or all of them do; or nothing is seen.
LEMMA FencingKills ==
  ASSUME TypeOK, UNCHANGED <<busy, outcome, calls>>, CallsInferred' = CallsInferred,
         NEW dead \in SUBSET Slots, fenced' \in {fenced, fenced \cup dead, Slots}
  PROVE  Promise!Die
<1>1. PICK more \in SUBSET Slots : fenced' = fenced \cup more
  BY DEF TypeOK
<1>2. SlotPhase' = [s \in Slots |-> IF s \in more THEN "dead" ELSE SlotPhase[s]]
  BY <1>1 DEF SlotPhase
<1> QED
  BY <1>2 DEF Promise!Die, SlotPhase, CallsInferred

\* A call begins on a slot that is free.
LEMMA BeginningBegins ==
  ASSUME TypeOK, NEW t \in Tasks, Begin(t)
  PROVE  Promise!BeginCall(SlotOf[t])
<1> DEFINE s == SlotOf[t]
<1>1. /\ s \in Slots /\ s \notin busy /\ s \notin fenced /\ calls[s] < MaxCalls
      /\ busy' = busy \cup {s} /\ calls' = [calls EXCEPT ![s] = calls[s] + 1]
      /\ UNCHANGED <<fenced, outcome, gateway>>
  BY SlotOfAssumption DEF Begin, IsSlotAvailable
<1>2. SlotPhase[s] = "free"
  BY <1>1 DEF SlotPhase
<1>3. SlotPhase' = [SlotPhase EXCEPT ![s] = "busy"]
  BY <1>1 DEF SlotPhase
<1>4. CallsInferred' = CallsInferred
  BY <1>1, InferredKept
<1> QED
  BY <1>1, <1>2, <1>3, <1>4 DEF Promise!BeginCall, SlotPhase, CallsInferred

\* A request completes once for its call, which is its slot's last and has no result that
\* would deny or anticipate it.
LEMMA CompletingInfers ==
  ASSUME Inv, Answered, ~SoftRejections, NEW r \in Requests, GatewayMoves(r),
         gateway[r] = "admitted", gateway' = [gateway EXCEPT ![r] = "completed"]
  PROVE  Promise!Infer(r[1])
<1>1. TypeOK /\ NothingForgotten /\ Chain /\ Settled
  BY DEF Inv
<1>2. PICK s \in Slots, n \in Calls, b \in Attempts : r = <<s, n, b>>
  BY DEF Requests
<1>3. pending[s] = r /\ pending[s] # NoRequest
  BY <1>1, <1>2, NoRequestAssumption DEF Settled
<1>4. n = calls[s] /\ n > 0 /\ outcome[<<s, n>>] \notin {"actions", "failed"}
  <2>1. pending[s][2] = n
    BY <1>2, <1>3
  <2>2. pending[s][2] = calls[s] /\ outcome[<<s, calls[s]>>] \notin {"actions", "failed"}
    BY <1>3 DEF Answered
  <2> QED
    BY <2>1, <2>2 DEF Calls
<1>5. SlotPhase[s] \in {"busy", "dead"}
  BY <1>1, <1>3 DEF NothingForgotten, SlotPhase
<1>6. ~CallsInferred[<<s, n>>]
  <2> SUFFICES ASSUME NEW a \in Attempts, gateway[<<s, n, a>>] = "completed" PROVE FALSE
    BY <1>2 DEF CallsInferred
  <2>1. a = b
    BY <1>1, <1>2 DEF Chain
  <2> QED
    BY <1>2, <2>1
<1>7. CallsInferred' = [CallsInferred EXCEPT ![<<s, n>>] = TRUE]
  <2>1. \A q \in Requests : gateway'[q] = IF q = r THEN "completed" ELSE gateway[q]
    BY <1>1 DEF TypeOK
  <2>2. ASSUME NEW c \in Slots \X Calls
        PROVE  CallsInferred'[c] = IF c = <<s, n>> THEN TRUE ELSE CallsInferred[c]
    <3>1. \A a \in Attempts : <<c[1], c[2], a>> \in Requests
      BY DEF Requests
    <3>2. CASE c = <<s, n>>
      BY <1>2, <2>1, <3>2 DEF CallsInferred
    <3>3. CASE c # <<s, n>>
      <4>1. \A a \in Attempts : <<c[1], c[2], a>> # r
        BY <1>2, <3>3
      <4> QED
        BY <2>1, <3>1, <3>3, <4>1 DEF CallsInferred
    <3> QED
      BY <3>2, <3>3
  <2> QED
    BY <2>2 DEF CallsInferred
<1>8. UNCHANGED <<SlotPhase, calls, outcome>>
  BY DEF GatewayMoves, driverVars, SlotPhase
<1> QED
  BY <1>2, <1>4, <1>5, <1>6, <1>7, <1>8 DEF Promise!Infer, SlotPhase, CallsInferred

\* Every step of a driver is a step of the promise.
LEMMA AdvanceKeepsPromise ==
  ASSUME Inv, Answered, ~SoftRejections, NEW t \in Tasks, Advance(t)
  PROVE  Promise!AbsNext
<1>1. TypeOK /\ SlotOf[t] \in Slots
  BY SlotOfAssumption DEF Inv
<1>2. PICK f : Turns(t, f) /\ Kinds(t, f)
  BY <1>1, AdvanceKind
<1>3. UNCHANGED calls
  BY <1>2 DEF Turns
<1>4. CallsInferred' = CallsInferred
  <2>1. CASE Posts(t, f)
    <3>1. Req(t) \in Requests /\ gateway[Req(t)] = "unsent"
      BY <1>1, <1>2, <2>1, KindsTouch DEF Posts, Inv, Chain, At
    <3>2. \A r \in Requests : gateway'[r] = IF r = Req(t) THEN "wire" ELSE gateway[r]
      BY <1>1, <2>1 DEF Posts, TypeOK
    <3> QED
      BY <3>1, <3>2, InferredKept
  <2>2. CASE ~Posts(t, f)
    <3>1. UNCHANGED gateway
      BY <1>2, <2>2 DEF Kinds, Prepares, Recovers, Decides, Fences, Settles, GivesUp, Renews
    <3> QED
      BY <3>1, InferredKept
  <2> QED
    BY <2>1, <2>2
<1>5. Replies(t)
  BY AdvanceReplies
<1>6. CASE UNCHANGED <<busy, outcome>>
  <2>1. {SlotOf[t]} \in SUBSET Slots /\ fenced' \in {fenced, fenced \cup {SlotOf[t]}, Slots}
    BY <1>1, <1>5 DEF Replies
  <2> QED
    BY <1>1, <1>3, <1>4, <1>6, <2>1, FencingKills DEF Promise!AbsNext
<1>7. CASE \E how \in Outcomes \ {"none"} : Leave(t, how) /\ Deserves(t, how)
  <2>1. PICK how \in Outcomes \ {"none"} : Leave(t, how) /\ Deserves(t, how)
    BY <1>7
  <2>2. Promise!EndCall(SlotOf[t], how)
    BY <1>3, <1>4, <1>5, <2>1, LeavingEnds
  <2> QED
    BY <1>1, <2>2 DEF Promise!AbsNext, Outcomes
<1> QED
  BY <1>5, <1>6, <1>7 DEF Replies

\* predict keeps what ActionCalls promises, once the gateway rejects only for good: a call is
\* executed at most once, its result says truly whether it was, and only a fenced slot may
\* still see its last call executed late.
THEOREM CallsKeepPromise == ASSUME ~SoftRejections PROVE Spec => KeepsPromise
<1>1. Init => Answered
  <2> SUFFICES ASSUME Init PROVE Answered
    OBVIOUS
  <2>1. \A t \in Tasks : At(t, {"idle"})
    BY DEF Init, At, IdleFrame, NewFrame
  <2> QED
    BY <2>1 DEF Init, Answered
<1>2. Init => Promise!AbsInit
  <2> SUFFICES ASSUME Init PROVE Promise!AbsInit
    OBVIOUS
  <2>1. \A c \in Slots \X Calls, a \in Attempts : gateway[<<c[1], c[2], a>>] = "unsent"
    BY DEF Init, Requests
  <2>2. CallsInferred = [c \in Slots \X Calls |-> FALSE]
    BY <2>1 DEF CallsInferred
  <2> QED
    BY <2>2 DEF Init, Promise!AbsInit, CallsInferred, Calls, Promise!Calls
<1>3. Inv /\ Answered /\ [Next]_vars => [Promise!AbsNext]_(Promise!absVars)
  <2> SUFFICES ASSUME Inv, Answered, [Next]_vars
               PROVE  [Promise!AbsNext]_(Promise!absVars)
    OBVIOUS
  <2>1. TypeOK
    BY DEF Inv
  <2>2. ASSUME NEW t \in Tasks, Advance(t) PROVE Promise!AbsNext
    BY <2>2, AdvanceKeepsPromise
  <2>3. ASSUME NEW t \in Tasks, Begin(t) PROVE Promise!AbsNext
    BY <2>1, <2>3, BeginningBegins, SlotOfAssumption DEF Promise!AbsNext
  <2>4. ASSUME NEW r \in Requests, GatewayMoves(r), gateway[r] = "admitted",
               gateway' = [gateway EXCEPT ![r] = "completed"]
        PROVE  Promise!AbsNext
    <3>1. r[1] \in Slots
      BY DEF Requests
    <3> QED
      BY <2>4, <3>1, CompletingInfers DEF Promise!AbsNext
  <2>5. CASE \/ UNCHANGED vars \/ Provider
             \/ \E t \in Tasks : RefuseExpired(t) \/ Cancel(t) \/ GatewayResolves(t)
             \/ \E r \in Requests : GatewayMoves(r) /\ gateway'[r] # "completed"
    <3>1. UNCHANGED <<busy, outcome, calls>> /\ fenced' \in {fenced, Slots}
      BY <2>5, OthersAnswerNothing
    <3>2. \A r \in Requests : gateway'[r] = "completed" <=> gateway[r] = "completed"
      <4>1. CASE UNCHANGED gateway
        BY <4>1
      <4>2. CASE \E t \in Tasks : GatewayResolves(t)
        BY <2>1, <4>2 DEF GatewayResolves, TypeOK
      <4>3. CASE \E r \in Requests : GatewayMoves(r) /\ gateway'[r] # "completed"
        BY <2>1, <4>3 DEF GatewayMoves, TypeOK
      <4>4. UNCHANGED vars \/ Provider \/ (\E t \in Tasks : RefuseExpired(t) \/ Cancel(t))
              => UNCHANGED gateway
        BY <2>1, ProviderElsewhere DEF RefuseExpired, Cancel, vars
      <4> QED
        BY <2>5, <4>1, <4>2, <4>3, <4>4
    <3>3. CallsInferred' = CallsInferred
      BY <3>2, InferredKept
    <3> QED
      BY <2>1, <3>1, <3>3, FencingKills DEF Promise!AbsNext
  <2>6. \A r \in Requests : GatewayMoves(r) =>
          \/ gateway'[r] # "completed"
          \/ gateway[r] = "admitted" /\ gateway' = [gateway EXCEPT ![r] = "completed"]
    BY <2>1 DEF GatewayMoves, TypeOK
  <2> QED
    BY <2>2, <2>3, <2>4, <2>5, <2>6 DEF Next
<1> QED
  BY <1>1, <1>2, <1>3, AnsweredNext, Invariance, PTL DEF Spec, KeepsPromise, Promise!AbsSpec

\* What a caller reads from its result, whatever happens later: actions come from a request
\* the model executed, and a failed call was not and never will be executed.
OutcomesTrue ==
  \A s \in Slots, n \in Calls :
    /\ outcome[<<s, n>>] = "actions" =>
         \E a \in Attempts : gateway[<<s, n, a>>] = "completed"
    /\ outcome[<<s, n>>] = "failed" =>
         \A a \in Attempts : gateway[<<s, n, a>>] # "completed"

\* The promise itself makes results true: no abstract step executes a call that has one, or
\* gives one that does not fit.
LEMMA PromiseMakesTrue ==
  ASSUME TypeOK, OutcomesTrue, [Promise!AbsNext]_(Promise!absVars)
  PROVE  OutcomesTrue'
<1> DEFINE Fits(how, done) == (how = "actions" => done) /\ (how = "failed" => ~done)
<1>0. \A s \in Slots, n \in Calls :
        /\ CallsInferred[<<s, n>>] <=>
             \E a \in Attempts : gateway[<<s, n, a>>] = "completed"
        /\ CallsInferred'[<<s, n>>] <=>
             \E a \in Attempts : gateway'[<<s, n, a>>] = "completed"
  BY DEF CallsInferred
<1>1. \A c \in Slots \X Calls : Fits(outcome[c], CallsInferred[c])
  <2> SUFFICES ASSUME NEW s \in Slots, NEW n \in Calls
               PROVE  Fits(outcome[<<s, n>>], CallsInferred[<<s, n>>])
    OBVIOUS
  <2> QED
    BY <1>0 DEF OutcomesTrue
<1>2. SUFFICES \A c \in Slots \X Calls : Fits(outcome'[c], CallsInferred'[c])
  BY <1>0 DEF OutcomesTrue
<1>3. outcome \in [Slots \X Calls -> Outcomes]
  BY DEF TypeOK
<1>4. CASE UNCHANGED <<CallsInferred, outcome>>
  BY <1>1, <1>4
<1>5. ASSUME NEW s \in Slots, Promise!Infer(s)
      PROVE  \A c \in Slots \X Calls : Fits(outcome'[c], CallsInferred'[c])
  <2>1. /\ outcome[<<s, calls[s]>>] \notin {"actions", "failed"}
        /\ CallsInferred' = [CallsInferred EXCEPT ![<<s, calls[s]>>] = TRUE]
        /\ outcome' = outcome
    BY <1>5 DEF Promise!Infer, CallsInferred
  <2>2. \A c \in Slots \X Calls : c # <<s, calls[s]>> => CallsInferred'[c] = CallsInferred[c]
    BY <2>1 DEF CallsInferred
  <2> QED
    BY <1>1, <2>1, <2>2
<1>6. ASSUME NEW s \in Slots, NEW how, Promise!EndCall(s, how)
      PROVE  \A c \in Slots \X Calls : Fits(outcome'[c], CallsInferred'[c])
  <2>1. /\ Fits(how, CallsInferred[<<s, calls[s]>>])
        /\ outcome' = [outcome EXCEPT ![<<s, calls[s]>>] = how]
        /\ CallsInferred' = CallsInferred
    BY <1>6 DEF Promise!EndCall, CallsInferred
  <2> QED
    BY <1>1, <1>3, <2>1
<1>7. Promise!Die \/ UNCHANGED Promise!absVars \/ (\E s \in Slots : Promise!BeginCall(s))
        => UNCHANGED <<CallsInferred, outcome>>
  BY DEF Promise!Die, Promise!BeginCall, Promise!absVars, CallsInferred
<1> QED
  BY <1>4, <1>5, <1>6, <1>7 DEF Promise!AbsNext

\* So results are true in every state, with a gateway that rejects only for good.
THEOREM TrueOutcomes == ASSUME ~SoftRejections PROVE Spec => []OutcomesTrue
<1>1. Init => OutcomesTrue
  BY DEF Init, OutcomesTrue
<1>2. Inv /\ Inv' /\ OutcomesTrue /\ [Promise!AbsNext]_(Promise!absVars) => OutcomesTrue'
  BY PromiseMakesTrue DEF Inv
<1> QED
  BY <1>1, <1>2, CallsKeepPromise, Invariance, PTL
  DEF Spec, KeepsPromise, Promise!AbsSpec

-----------------------------------------------------------------------------
(* What a fenced slot may still post.                                       *)

\* A driver that goes on inside a fenced slot, with time left and close not begun, was
\* overtaken by the watch, whose cleanup is about to run.
Overtaken ==
  \A t \in Tasks :
    ~At(t, {"idle", "fencing"}) /\ SlotOf[t] \in fenced /\ ~closing /\ authority =>
      closeTask = "scheduled"

\* Every step keeps Overtaken.
LEMMA OvertakenNext == Inv /\ Overtaken /\ [Next]_vars => Overtaken'
<1> SUFFICES ASSUME Inv, Overtaken, [Next]_vars PROVE Overtaken'
  OBVIOUS
<1>1. TypeOK /\ Exclusive /\ Closed
  BY DEF Inv
<1>2. ASSUME NEW t \in Tasks, Advance(t) PROVE Overtaken'
  <2>1. PICK f : Turns(t, f) /\ Kinds(t, f)
    BY <1>1, <1>2, AdvanceKind
  <2>0. UNCHANGED <<closing, authority, closeTask>>
    BY <2>1 DEF Turns, providerVars
  <2>2. /\ \A u \in Tasks : task'[u] = IF u = t THEN f ELSE task[u]
        /\ ~At(t, {"idle"})
    BY <1>1, <2>1, KindsTouch
  <2>3. \/ UNCHANGED fenced /\ (f.pc \in {"idle", "fencing"} \/ ~At(t, {"fencing"}))
        \/ fenced' = fenced \cup {SlotOf[t]} /\ f.pc \in {"idle", "fencing"}
    BY <2>1 DEF Kinds, Prepares, Posts, Recovers, Decides, Fences, Settles, GivesUp, Renews,
                Leaves, IdleFrame, NewFrame, At, Clear, Owing
  <2> SUFFICES ASSUME NEW u \in Tasks, ~At(u, {"idle", "fencing"})', SlotOf[u] \in fenced',
                      ~closing', authority'
               PROVE  closeTask' = "scheduled"
    BY DEF Overtaken
  <2>4. CASE u = t
    <3>1. UNCHANGED fenced /\ ~At(t, {"idle", "fencing"})
      BY <2>2, <2>3, <2>4 DEF At
    <3> QED
      BY <2>0, <2>4, <3>1 DEF Overtaken
  <2>5. CASE u # t
    <3>1. ~At(u, {"idle", "fencing"}) /\ SlotOf[u] # SlotOf[t]
      BY <1>1, <2>2, <2>5, AloneOnSlot DEF At
    <3>2. SlotOf[u] \in fenced
      BY <2>3, <3>1
    <3> QED
      BY <2>0, <3>1, <3>2 DEF Overtaken
  <2> QED
    BY <2>4, <2>5
<1>3. ASSUME NEW t \in Tasks, Begin(t) PROVE Overtaken'
  <2>1. \A u \in Tasks : u # t => task'[u] = task[u]
    BY <1>1, <1>3 DEF Begin, TypeOK
  <2> QED
    BY <1>3, <2>1 DEF Begin, IsSlotAvailable, Overtaken, At, providerVars
<1>4. CASE \E t \in Tasks : RefuseExpired(t)
  BY <1>4 DEF RefuseExpired, Overtaken, providerVars
<1>5. CASE Provider
  <2>1. Elsewhere
    BY <1>1, <1>5, ProviderElsewhere
  <2>2. \A t \in Tasks : At(t, {"idle", "fencing"})' <=> At(t, {"idle", "fencing"})
    BY <2>1 DEF Elsewhere, At
  <2>3. CASE WatchSeesLapse \/ WatchSeesRejection
    BY <1>1, <2>3 DEF WatchSeesLapse, WatchSeesRejection, LoseAuthority, Closed, TypeOK,
                      CleanupStages, Overtaken
  <2>4. CASE AuthorityLapses \/ Close
    BY <2>2, <2>4 DEF AuthorityLapses, Close, Overtaken, driverVars
  <2>5. CASE Cleanup
    <3>1. closing'
      BY <1>1, <2>5 DEF Cleanup, CleanupStarts, DrainStarts, DrainTimesOut, DrainEnds,
                        StopConfirmed, CleanupUncertain, Closed
    <3> QED
      BY <3>1 DEF Overtaken
  <2> QED
    BY <1>5, <2>3, <2>4, <2>5 DEF Provider
<1>6. CASE \/ UNCHANGED vars
           \/ \E t \in Tasks : Cancel(t) \/ GatewayResolves(t)
           \/ \E r \in Requests : GatewayMoves(r)
  <2>1. UNCHANGED <<fenced, closing, authority, closeTask>>
    BY <1>6 DEF Cancel, GatewayResolves, GatewayMoves, vars, driverVars, providerVars
  <2>2. Elsewhere
    BY <1>1, <1>6, OthersElsewhere
  <2> QED
    BY <2>1, <2>2 DEF Overtaken, Elsewhere, At
<1> QED
  BY <1>2, <1>3, <1>4, <1>5, <1>6 DEF Next

\* What remains of NoPostFromFencedSlot: a fenced slot posts only between the watch's loss of
\* authority and the first step of the cleanup it has scheduled, and only in time. A fence that
\* an uncertain or invalid result put up holds.
FencedPostsOnlyBeforeCleanup ==
  [][\A r \in Requests :
       gateway[r] = "unsent" /\ r[1] \in fenced /\ gateway'[r] # "unsent" =>
         closeTask = "scheduled" /\ ~closing /\ authority]_vars

\* Every late post is one of those.
THEOREM FencedPosts == Spec => FencedPostsOnlyBeforeCleanup
<1> DEFINE InWindow == \A r \in Requests :
             gateway[r] = "unsent" /\ r[1] \in fenced /\ gateway'[r] # "unsent" =>
               closeTask = "scheduled" /\ ~closing /\ authority
<1>1. Init => Overtaken
  BY DEF Init, Overtaken, At
<1>2. ASSUME Inv, Overtaken, [Next]_vars PROVE [InWindow]_vars
  <2>1. TypeOK
    BY <1>2 DEF Inv
  <2>2. ASSUME NEW t \in Tasks, Post(t) PROVE InWindow
    <3> SUFFICES ASSUME NEW r \in Requests, r[1] \in fenced, gateway'[r] # gateway[r]
                 PROVE  closeTask = "scheduled" /\ ~closing /\ authority
      OBVIOUS
    <3>1. r = Req(t) /\ r[1] = SlotOf[t]
      BY <2>1, <2>2 DEF Post, TypeOK, Req
    <3> QED
      BY <1>2, <2>2, <3>1 DEF Post, Overtaken, At
  <2>3. ASSUME NEW t \in Tasks, Advance(t), ~Post(t) PROVE UNCHANGED gateway
    BY <2>3 DEF Advance, BeforePost, WhilePending, AfterDecision, Encode, WriteIntent,
                RefuseToPost, FailUnposted, CancelUnposted, PostDecides, PostUndecided,
                LookupDecides, LookupUndecided, ResolveDecides, ResolveUndecided, InvalidAnswer,
                RecoveryTimesOut, CancelPosted, WriteTerminal, WriteUnwound, WriteFails,
                WriteFence, Resubmit, RefuseToResubmit
  <2>4. ASSUME NEW t \in Tasks, Begin(t) PROVE UNCHANGED gateway
    BY <2>4 DEF Begin
  <2>5. CASE \/ UNCHANGED vars
             \/ \E t \in Tasks : RefuseExpired(t) \/ Cancel(t) \/ GatewayResolves(t)
             \/ \E r \in Requests : GatewayMoves(r)
    BY <2>1, <2>5, OthersElsewhere DEF GatewayTurns
  <2>6. CASE Provider
    BY <2>1, <2>6, ProviderElsewhere
  <2> QED
    BY <1>2, <2>2, <2>3, <2>4, <2>5, <2>6 DEF Next
<1> QED
  BY <1>1, <1>2, OvertakenNext, Invariance, PTL DEF Spec, FencedPostsOnlyBeforeCleanup

-----------------------------------------------------------------------------
(* What the journal proves of a result.                                     *)

Row(s, n, a, phase) == <<<<s, n, a>>, phase>> \in journal

\* A result that says whether the call was executed rests on a terminal row that was durable
\* before the caller saw it, and the journal never says otherwise of the call.
OutcomesEvidenced ==
  \A s \in Slots, n \in Calls :
    /\ outcome[<<s, n>>] = "actions" => \E a \in Attempts : Row(s, n, a, "completed")
    /\ outcome[<<s, n>>] = "failed" =>
         /\ \E a \in Attempts, p \in {"failed", "not_admitted", "voided"} : Row(s, n, a, p)
         /\ \A a \in Attempts : ~Row(s, n, a, "completed")

\* A driver that was not cancelled has not yet recorded that its request completed.
Unrecorded ==
  \A t \in Tasks : ~At(t, {"idle"}) /\ ~task[t].unwinding =>
    <<Req(t), "completed">> \notin journal

\* What a driver's step records of its request, with the result it gives.
Evidences(t) ==
  \E p \in Phases :
    /\ journal' \in {journal, Record(t, p)}
    /\ \/ /\ UNCHANGED outcome
          /\ ~task'[t].unwinding =>
               ~task[t].unwinding /\ (p = "completed" => journal' = journal)
       \/ \E how \in {"cancelled", "error"} : Leave(t, how)
       \/ p = "completed" /\ journal' = Record(t, p) /\ Leave(t, "actions")
       \/ /\ p \in {"failed", "not_admitted", "voided"} /\ p = task[t].result
          /\ At(t, {"terminal"}) /\ ~task[t].unwinding
          /\ journal' = Record(t, p) /\ Leave(t, "failed")

\* A step that records nothing and neither answers nor forgets a cancellation.
LEMMA Silent ==
  ASSUME TypeOK, NEW t \in Tasks, NEW f, task' = [task EXCEPT ![t] = f],
         UNCHANGED <<outcome, journal>>, ~f.unwinding => ~task[t].unwinding
  PROVE  Evidences(t)
  BY DEF TypeOK, Evidences, Phases

\* A slot is fenced with no answer but a cancellation's.
LEMMA FenceEvidences ==
  ASSUME TypeOK, NEW t \in Tasks, FenceSlot(t), UNCHANGED journal
  PROVE  Evidences(t)
<1>1. CASE Leave(t, "cancelled")
  BY <1>1 DEF Evidences, Phases
<1>2. CASE /\ task' = [task EXCEPT ![t].pc = "fencing", ![t].cancelled = FALSE]
           /\ UNCHANGED outcome
  <2> DEFINE f == [task[t] EXCEPT !.pc = "fencing", !.cancelled = FALSE]
  <2>1. f.unwinding = task[t].unwinding
    BY DEF TypeOK, Frame
  <2>2. task' = [task EXCEPT ![t] = f]
    BY <1>2
  <2> HIDE DEF f
  <2> QED
    BY <1>2, <2>1, <2>2, Silent
<1> QED
  BY <1>1, <1>2 DEF FenceSlot

\* A decision waits for its terminal row.
LEMMA DecideEvidences ==
  ASSUME TypeOK, NEW t \in Tasks, NEW result, Decide(t, result), UNCHANGED journal
  PROVE  Evidences(t)
<1>1. CASE FenceSlot(t)
  BY <1>1, FenceEvidences
<1>2. CASE /\ task' = [task EXCEPT ![t].pc = "terminal", ![t].result = result]
           /\ UNCHANGED outcome
  <2> DEFINE f == [task[t] EXCEPT !.pc = "terminal", !.result = result]
  <2>1. f.unwinding = task[t].unwinding
    BY DEF TypeOK, Frame
  <2>2. task' = [task EXCEPT ![t] = f]
    BY <1>2
  <2> HIDE DEF f
  <2> QED
    BY <1>2, <2>1, <2>2, Silent
<1> QED
  BY <1>1, <1>2 DEF Decide

\* A driver that only moves on.
LEMMA MoveEvidences ==
  ASSUME TypeOK, NEW t \in Tasks, NEW point, MoveTo(t, point), UNCHANGED outcome,
         NEW p \in Phases \ {"completed"}, journal' \in {journal, Record(t, p)}
  PROVE  Evidences(t)
<1> DEFINE f == [task[t] EXCEPT !.pc = point]
<1>1. f.unwinding = task[t].unwinding
  BY DEF TypeOK, Frame
<1>2. task' = [task EXCEPT ![t] = f]
  BY DEF MoveTo
<1> HIDE DEF f
<1>3. task'[t].unwinding = task[t].unwinding
  BY <1>1, <1>2 DEF TypeOK
<1> QED
  BY <1>3 DEF Evidences

\* Every step of a driver evidences what it answers.
LEMMA AdvanceEvidences ==
  ASSUME TypeOK, NEW t \in Tasks, Advance(t)
  PROVE  Evidences(t)
<1>0. "before_post" \in Phases \ {"completed"}
  BY DEF Phases
<1>1. CASE Encode(t) \/ WriteIntent(t) \/ Post(t)
  BY <1>0, <1>1, MoveEvidences DEF Encode, WriteIntent, Post
<1>2. CASE \/ RefuseToPost(t) \/ FailUnposted(t) \/ CancelUnposted(t) \/ RefuseToResubmit(t)
  BY <1>0, <1>2 DEF RefuseToPost, FailUnposted, CancelUnposted, RefuseToResubmit, Evidences
<1>3. CASE PostDecides(t) \/ LookupDecides(t) \/ ResolveDecides(t)
  BY <1>3, DecideEvidences DEF PostDecides, LookupDecides, ResolveDecides
<1>4. CASE PostUndecided(t) \/ LookupUndecided(t) \/ ResolveUndecided(t)
  BY <1>0, <1>4, MoveEvidences DEF PostUndecided, LookupUndecided, ResolveUndecided
<1>5. CASE InvalidAnswer(t) \/ RecoveryTimesOut(t) \/ WriteFails(t)
  BY <1>5, FenceEvidences DEF InvalidAnswer, RecoveryTimesOut, WriteFails
<1>6. CASE CancelPosted(t)
  <2>1. task'[t].unwinding
    BY <1>6 DEF CancelPosted, TypeOK, Frame
  <2>2. task[t].result \in Phases \/ task[t].result = "none"
    BY DEF TypeOK, Frame, Results, Phases
  <2>3. At(t, {"terminal"}) => task[t].result # "none"
    BY DEF TypeOK, WellFormed, At
  <2>4. UNCHANGED journal \/ (journal' = Record(t, task[t].result) /\ task[t].result \in Phases)
    BY <1>6, <2>2, <2>3 DEF CancelPosted
  <2>5. UNCHANGED outcome
    BY <1>6 DEF CancelPosted
  <2> QED
    BY <1>0, <2>1, <2>4, <2>5 DEF Evidences
<1>7. CASE WriteTerminal(t)
  <2>1. ~task[t].unwinding /\ At(t, {"terminal"}) /\ journal' = Record(t, task[t].result)
    BY <1>7 DEF WriteTerminal
  <2>2. CASE task[t].result = "voided" /\ MoveTo(t, "yield") /\ UNCHANGED outcome
    BY <2>1, <2>2, MoveEvidences DEF Phases
  <2>3. CASE task[t].result = "completed" /\ Leave(t, "actions")
    BY <2>1, <2>3 DEF Evidences, Phases
  <2>4. CASE task[t].result \in {"failed", "not_admitted", "voided"} /\ Leave(t, "failed")
    BY <2>1, <2>4 DEF Evidences, Phases
  <2> QED
    BY <1>7, <2>2, <2>3, <2>4 DEF WriteTerminal
<1>8. CASE WriteUnwound(t)
  BY <1>8 DEF WriteUnwound, Evidences, Phases
<1>9. CASE WriteFence(t)
  BY <1>9 DEF WriteFence, Evidences, Phases
<1>10. CASE Resubmit(t)
  <2> DEFINE f == [task[t] EXCEPT !.pc = "encode", !.attempt = task[t].attempt + 1,
                                  !.result = "none"]
  <2>1. f.unwinding = task[t].unwinding
    BY DEF TypeOK, Frame
  <2>2. task' = [task EXCEPT ![t] = f] /\ UNCHANGED <<outcome, journal>>
    BY <1>10 DEF Resubmit
  <2> HIDE DEF f
  <2> QED
    BY <2>1, <2>2, Silent
<1> QED
  BY <1>1, <1>2, <1>3, <1>4, <1>5, <1>6, <1>7, <1>8, <1>9, <1>10
  DEF Advance, BeforePost, WhilePending, AfterDecision

\* A driver's step keeps both: it records only of its own call, which had no result.
LEMMA EvidencedByAdvance ==
  ASSUME Inv, Inv', Answered, OutcomesEvidenced, Unrecorded, NEW t \in Tasks, Advance(t)
  PROVE  OutcomesEvidenced' /\ Unrecorded'
<1> DEFINE s == SlotOf[t]
           n == task[t].call
           b == task[t].attempt
<1>1. TypeOK /\ Exclusive /\ Chain /\ JournalTruthful
  BY DEF Inv, Truth
<1>2. PICK f : Turns(t, f) /\ Kinds(t, f)
  BY <1>1, AdvanceKind
<1>3. /\ \A u \in Tasks : task'[u] = IF u = t THEN f ELSE task[u]
      /\ ~At(t, {"idle"}) /\ Req(t) \in Requests
      /\ journal \subseteq journal'
  BY <1>1, <1>2, KindsTouch
<1>4. /\ s \in Slots /\ n \in Calls /\ b \in Attempts
      /\ Req(t) = <<s, n, b>> /\ outcome[<<s, n>>] = "none"
  BY <1>1, <1>3, SlotOfAssumption DEF Req, Requests, Answered
<1>5. PICK p \in Phases :
        /\ journal' \in {journal, Record(t, p)}
        /\ \/ /\ UNCHANGED outcome
              /\ ~task'[t].unwinding =>
                   ~task[t].unwinding /\ (p = "completed" => journal' = journal)
           \/ \E how \in {"cancelled", "error"} : Leave(t, how)
           \/ p = "completed" /\ journal' = Record(t, p) /\ Leave(t, "actions")
           \/ /\ p \in {"failed", "not_admitted", "voided"} /\ p = task[t].result
              /\ At(t, {"terminal"}) /\ ~task[t].unwinding
              /\ journal' = Record(t, p) /\ Leave(t, "failed")
  BY <1>1, AdvanceEvidences DEF Evidences
<1>6. \A row \in journal' : row \in journal \/ row = <<Req(t), p>>
  BY <1>5 DEF Record
<1>7. ASSUME ~task[t].unwinding, NEW a \in Attempts PROVE ~Row(s, n, a, "completed")
  <2>1. CASE a = b
    BY <1>3, <1>4, <1>7, <2>1 DEF Unrecorded, Row
  <2>2. CASE a # b
    <3>1. a < b \/ a > b
      BY <1>4, <2>2 DEF Attempts
    <3>2. gateway[<<s, n, a>>] \in {"refused", "unsent"}
      BY <1>1, <1>3, <3>1 DEF Chain
    <3>3. <<s, n, a>> \in Requests
      BY <1>4 DEF Requests
    <3> QED
      BY <1>1, <3>2, <3>3 DEF JournalTruthful, Row
  <2> QED
    BY <2>1, <2>2
<1>8. \A q \in Slots, m \in Calls : <<q, m>> # <<s, n>> =>
        /\ outcome'[<<q, m>>] = outcome[<<q, m>>]
        /\ \A a \in Attempts : Row(q, m, a, "completed")' => Row(q, m, a, "completed")
  BY <1>1, <1>4, <1>5, <1>6 DEF Leave, TypeOK, Row
<1>9. /\ outcome'[<<s, n>>] = "actions" => p = "completed" /\ journal' = Record(t, p)
      /\ outcome'[<<s, n>>] = "failed" =>
           /\ p \in {"failed", "not_admitted", "voided"} /\ ~task[t].unwinding
           /\ journal' = Record(t, p)
  <2>1. ASSUME NEW how, Leave(t, how) PROVE outcome'[<<s, n>>] = how
    BY <1>1, <1>4, <2>1 DEF Leave, TypeOK
  <2> QED
    BY <1>4, <1>5, <2>1
<1>10. OutcomesEvidenced'
  <2> SUFFICES ASSUME NEW q \in Slots, NEW m \in Calls
               PROVE  /\ outcome'[<<q, m>>] = "actions" =>
                           \E a \in Attempts : Row(q, m, a, "completed")'
                      /\ outcome'[<<q, m>>] = "failed" =>
                           /\ \E a \in Attempts, ph \in {"failed", "not_admitted", "voided"} :
                                Row(q, m, a, ph)'
                           /\ \A a \in Attempts : ~Row(q, m, a, "completed")'
    BY DEF OutcomesEvidenced
  <2>1. CASE <<q, m>> = <<s, n>>
    <3>0. q = s /\ m = n
      BY <2>1
    <3>1. journal' = Record(t, p) => \E a \in Attempts : Row(q, m, a, p)'
      <4> SUFFICES ASSUME journal' = Record(t, p) PROVE <<<<q, m, b>>, p>> \in journal'
        BY <1>4 DEF Row
      <4>1. <<q, m, b>> = Req(t)
        BY <1>4, <3>0
      <4> QED
        BY <4>1 DEF Record
    <3>2. outcome'[<<q, m>>] = "failed" => \A a \in Attempts : ~Row(q, m, a, "completed")'
      BY <1>6, <1>7, <1>9, <2>1 DEF Row
    <3> QED
      BY <1>9, <3>0, <3>1, <3>2
  <2>2. CASE <<q, m>> # <<s, n>>
    <3>1. \A a \in Attempts, ph \in {"failed", "not_admitted", "voided", "completed"} :
            Row(q, m, a, ph) => Row(q, m, a, ph)'
      BY <1>3 DEF Row
    <3> QED
      BY <1>8, <2>2, <3>1 DEF OutcomesEvidenced
  <2> QED
    BY <2>1, <2>2
<1>11. Unrecorded'
  <2> SUFFICES ASSUME NEW u \in Tasks, task'[u].pc # "idle", ~task'[u].unwinding
               PROVE  <<Req(u)', "completed">> \notin journal'
    BY DEF Unrecorded, At
  <2>1. CASE u # t
    <3>1. /\ task'[u] = task[u] /\ ~At(u, {"idle"})
          /\ Req(u)' = Req(u) /\ SlotOf[u] # s
      BY <1>1, <1>3, <2>1, AloneOnSlot DEF At, Req
    <3>2. <<Req(u), "completed">> \notin journal
      BY <3>1 DEF Unrecorded
    <3> QED
      BY <1>4, <1>6, <3>1, <3>2 DEF Req
  <2>2. CASE u = t
    <3>1. task'[t] = f /\ f.pc # "idle"
      BY <1>3, <2>2
    <3>2. ~task[t].unwinding /\ (p = "completed" => journal' = journal)
      <4>1. \A how : ~Leave(t, how)
        BY <1>1, <3>1 DEF Leave, TypeOK, IdleFrame, NewFrame
      <4> QED
        BY <1>5, <2>2, <4>1
    <3>3. CASE SameRequest(t, f)
      <4>1. Req(t)' = Req(t)
        BY <3>1, <3>3 DEF SameRequest, Req
      <4> QED
        BY <1>3, <1>6, <2>2, <3>2, <4>1 DEF Unrecorded
    <3>4. CASE ~SameRequest(t, f)
      <4>1. f.pc = "encode"
        BY <1>2, <3>1, <3>4 DEF Kinds, Prepares, Posts, Recovers, Decides, Fences, Settles,
                                GivesUp, Renews, Leaves, IdleFrame, NewFrame
      <4>2. gateway'[Req(t)'] = "unsent" /\ Req(t)' \in Requests
        <5>1. Chain' /\ TypeOK'
          BY DEF Inv
        <5>2. gateway'[Req(t)'] = "unsent"
          BY <3>1, <4>1, <5>1 DEF Chain, At
        <5>3. task'[t].call \in Calls /\ task'[t].attempt \in Attempts
          BY <3>1, <4>1, <5>1 DEF TypeOK, Frame, WellFormed
        <5> QED
          BY <5>2, <5>3, SlotOfAssumption DEF Req, Requests
      <4> QED
        BY <2>2, <4>2 DEF Inv, Truth, JournalTruthful
    <3> QED
      BY <3>3, <3>4
  <2> QED
    BY <2>1, <2>2
<1> QED
  BY <1>10, <1>11

\* Every step keeps both; nobody else writes a row or answers.
LEMMA EvidencedNext ==
  ASSUME Inv, Inv', Answered, OutcomesEvidenced, Unrecorded, [Next]_vars
  PROVE  OutcomesEvidenced' /\ Unrecorded'
<1>1. ASSUME NEW t \in Tasks, Advance(t) PROVE OutcomesEvidenced' /\ Unrecorded'
  BY <1>1, EvidencedByAdvance
<1>2. ASSUME NEW t \in Tasks, Begin(t) PROVE OutcomesEvidenced' /\ Unrecorded'
  <2>1. /\ UNCHANGED <<outcome, journal>>
        /\ \A u \in Tasks : u # t => task'[u] = task[u]
        /\ At(t, {"encode"})'
    BY <1>2 DEF Begin, Inv, TypeOK, At, NewFrame
  <2>2. <<Req(t)', "completed">> \notin journal'
    <3>1. Chain' /\ TypeOK' /\ JournalTruthful'
      BY DEF Inv, Truth
    <3>2. gateway'[Req(t)'] = "unsent"
      BY <2>1, <3>1 DEF Chain, At
    <3>3. task'[t].call \in Calls /\ task'[t].attempt \in Attempts
      BY <2>1, <3>1 DEF TypeOK, Frame, WellFormed, At
    <3>4. Req(t)' \in Requests
      BY <3>3, SlotOfAssumption DEF Req, Requests
    <3> QED
      BY <3>1, <3>2, <3>4 DEF JournalTruthful
  <2> QED
    BY <2>1, <2>2 DEF OutcomesEvidenced, Unrecorded, Row, At, Req
<1>3. CASE \/ UNCHANGED vars \/ Provider
           \/ \E t \in Tasks : RefuseExpired(t) \/ Cancel(t) \/ GatewayResolves(t)
           \/ \E r \in Requests : GatewayMoves(r)
  <2>1. UNCHANGED outcome
    BY <1>3, OthersAnswerNothing
  <2>2. Elsewhere
    BY <1>3, OthersElsewhere, ProviderElsewhere DEF Inv
  <2> QED
    BY <2>1, <2>2 DEF Elsewhere, OutcomesEvidenced, Unrecorded, Row, At, Req
<1> QED
  BY <1>1, <1>2, <1>3 DEF Next

\* The journal proves every result that claims something, soft rejections or not.
THEOREM ResultsRecorded == Spec => []OutcomesEvidenced
<1>1. Init => Answered /\ OutcomesEvidenced /\ Unrecorded
  <2> SUFFICES ASSUME Init PROVE Answered /\ OutcomesEvidenced /\ Unrecorded
    OBVIOUS
  <2>1. \A t \in Tasks : At(t, {"idle"})
    BY DEF Init, At, IdleFrame, NewFrame
  <2> QED
    BY <2>1 DEF Init, Answered, OutcomesEvidenced, Unrecorded
<1>2. Inv /\ Inv' /\ Answered /\ OutcomesEvidenced /\ Unrecorded /\ [Next]_vars =>
        Answered' /\ OutcomesEvidenced' /\ Unrecorded'
  BY AnsweredNext, EvidencedNext
<1> QED
  BY <1>1, <1>2, Invariance, PTL DEF Spec

\* Actions a caller receives come from a request the model executed, even with a gateway
\* whose rejections are not final.
ActionsExecuted ==
  \A s \in Slots, n \in Calls :
    outcome[<<s, n>>] = "actions" =>
      \E a \in Attempts : gateway[<<s, n, a>>] = "completed"

\* The journal's rows are true, so its evidence is.
THEOREM ActionsTrue == Spec => []ActionsExecuted
<1>1. JournalTruthful /\ OutcomesEvidenced => ActionsExecuted
  <2>1. \A s \in Slots, n \in Calls, a \in Attempts : <<s, n, a>> \in Requests
    BY DEF Requests
  <2> QED
    BY <2>1 DEF JournalTruthful, OutcomesEvidenced, ActionsExecuted, Row
<1> QED
  BY <1>1, RowsTruthful, ResultsRecorded, PTL
====
