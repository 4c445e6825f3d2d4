---- MODULE RuntimePool ----
(***************************************************************************)
(* RuntimePool: one leased simulator per lane. The lanes open together,    *)
(* each retrying a bounded number of times; episodes borrow a lane under   *)
(* its lock; closing drains the borrows and then releases every lease.     *)
(* The caller that enters the pool may be cancelled at any await.          *)
(***************************************************************************)
EXTENDS Naturals

CONSTANTS
  Lanes,          \* range(self.concurrency)
  Episodes,       \* tasks that borrow a lane for an episode
  LaneOf,         \* the lane an episode's columns select
  MaxAttempts,    \* lane_ready_attempts
  MaxDepth,       \* bound: nested "async with pool", as Taskset.run does
  Shielded        \* is lease_acquisition_timeout given?

Attempts == 1..MaxAttempts

ASSUME LaneOfAssumption == LaneOf \in [Episodes -> Lanes]
ASSUME AttemptsAssumption == MaxAttempts \in Nat \ {0}
ASSUME DepthAssumption == MaxDepth \in Nat \ {0}
ASSUME ShieldedAssumption == Shielded \in BOOLEAN

VARIABLES
  opener,       \* each lane's open_lane task: where it awaits, its attempt
  lease,        \* what became of the lease of each attempt of a lane
  entry,        \* how far the outer __aenter__ or close has come
  interrupted,  \* has the gather that entry awaits been cancelled?
  overdue,      \* did startup_timeout expire?
  depth,        \* _depth
  drained,      \* close's drain_lane of each lane
  errors,       \* did close see an error?
  confirmed,    \* cleanup_confirmed
  episode       \* where each episode stands in __call__

vars == <<opener, lease, entry, interrupted, overdue, depth, drained, errors, confirmed, episode>>

Running == {"lease", "hello", "release"}

Points == Running \cup {"ready", "failed", "cancelled"}

\* "asked": the provider's context is being entered, by a task of its own if the
\* acquisition is shielded. "refused": it raised. "unknown": the acquisition
\* timed out. "abandoned": a cancellation cut it short.
\* "dropped": the owner's stack is empty but the release did not complete.
LeaseStates == {"none", "asked", "refused", "unknown", "abandoned", "owned",
                "released", "dropped"}

\* "failed": __aenter__ raised without close.
Entries == {"opening", "joining", "open", "draining", "releasing", "done", "failed"}

\* "cancelled": a cancellation awaits delivery. "absorbed": the loop around the
\* shielded acquisition of this attempt has noted one.
Openers == [pc : Points, attempt : Attempts, cancelled : BOOLEAN, absorbed : BOOLEAN]

TypeOK ==
  /\ opener \in [Lanes -> Openers]
  /\ lease \in [Lanes \X Attempts -> LeaseStates]
  /\ entry \in Entries
  /\ interrupted \in BOOLEAN
  /\ overdue \in BOOLEAN
  /\ depth \in 0..MaxDepth
  /\ drained \in [Lanes -> {"no", "yes", "late"}]
  /\ errors \in BOOLEAN
  /\ confirmed \in BOOLEAN
  /\ episode \in [Episodes -> {"idle", "waiting", "inside"}]

Current(l) == <<l, opener[l].attempt>>

\* _closed
Closed == entry \in {"draining", "releasing", "done"}

LockFree(l) == \A e \in Episodes : LaneOf[e] = l => episode[e] # "inside"

\* An attempt begins: its lease is being acquired.
Begun(a) == [pc |-> "lease", attempt |-> a, cancelled |-> FALSE, absorbed |-> FALSE]

Init ==
  /\ opener = [l \in Lanes |-> Begun(1)]
  /\ lease = [r \in Lanes \X Attempts |-> IF r[2] = 1 THEN "asked" ELSE "none"]
  /\ entry = "opening"
  /\ interrupted = FALSE
  /\ overdue = FALSE
  /\ depth = 0
  /\ drained = [l \in Lanes |-> "no"]
  /\ errors = FALSE
  /\ confirmed = FALSE
  /\ episode = [e \in Episodes |-> "idle"]

poolVars == <<entry, interrupted, overdue, depth, drained, errors, confirmed, episode>>

-----------------------------------------------------------------------------
(* open_lane                                                                *)

OpenerAt(l, point) == opener[l].pc = point

\* open_lane ends, or awaits something else, and its lease has come to state s.
Goes(l, point, s) ==
  /\ opener' = [opener EXCEPT ![l].pc = point]
  /\ lease' = [lease EXCEPT ![Current(l)] = s]

\* Mutation: one attempt too many.
AttemptsLeftOnceMore(l) == opener[l].attempt <= MaxAttempts

AttemptsLeft(l) == opener[l].attempt < MaxAttempts

\* No attempt fits into startup_timeout once it has expired. Whether there is
\* time before that is left open.
MayRetry(l) == AttemptsLeft(l) /\ ~overdue

\* The next attempt owns its lease in a fresh stack. The lease of the attempt
\* before has come to state s.
Retries(l, s) ==
  LET a == opener[l].attempt
  IN  /\ opener' = [opener EXCEPT ![l] = Begun(a + 1)]
      /\ lease' = [lease EXCEPT ![<<l, a>>] = s, ![<<l, a + 1>>] = "asked"]

\* The provider answers, or lease_acquisition_timeout expires, whatever has
\* become of the lane's task in the meantime.
AllocationEnds(l) ==
  /\ lease[Current(l)] = "asked"
  /\ \E s \in {"owned", "refused", "unknown"} : lease' = [lease EXCEPT ![Current(l)] = s]
  /\ UNCHANGED opener
  /\ UNCHANGED poolVars

Acquired(l) == OpenerAt(l, "lease") /\ lease[Current(l)] # "asked" /\ ~opener[l].cancelled

\* The lease is recorded before an absorbed cancellation is raised.
AcquireSucceeds(l) ==
  /\ Acquired(l)
  /\ lease[Current(l)] = "owned"
  /\ Goes(l, IF opener[l].absorbed THEN "cancelled" ELSE "hello", "owned")
  /\ UNCHANGED poolVars

\* acquire() raised, whether or not a cancellation was absorbed. With nothing to
\* release the next attempt follows at once. If only the evidence of an acquired
\* lease could not be written, it is released first, or left to close.
AcquireFails(l) ==
  /\ Acquired(l)
  /\ LET s == lease[Current(l)]
     IN  \/ s # "owned" /\ MayRetry(l) /\ Retries(l, s)
         \/ s = "owned" /\ MayRetry(l) /\ Goes(l, "release", s)
         \/ Goes(l, "failed", s)
  /\ UNCHANGED poolVars

HelloSucceeds(l) ==
  /\ OpenerAt(l, "hello")
  /\ ~opener[l].cancelled
  /\ Goes(l, "ready", "owned")
  /\ UNCHANGED poolVars

\* Mutation: the hello has no timeout of its own.
HelloUnbounded(l) == OpenerAt(l, "hello") /\ FALSE /\ UNCHANGED vars

\* Not ready in time: release for a retry. Another environment, the last attempt
\* or no time left: fail, and leave the lease to close.
HelloFails(l) ==
  /\ OpenerAt(l, "hello")
  /\ ~opener[l].cancelled
  /\ \/ MayRetry(l) /\ Goes(l, "release", "owned")
     \/ Goes(l, "failed", "owned")
  /\ UNCHANGED poolVars

\* No timeout bounds this await.
ReleaseSucceeds(l) ==
  /\ OpenerAt(l, "release")
  /\ ~opener[l].cancelled
  /\ Retries(l, "released")
  /\ UNCHANGED poolVars

\* Mutation: a failed release is retried into a second lease.
ReleaseFailureRetried(l) ==
  /\ OpenerAt(l, "release")
  /\ ~opener[l].cancelled
  /\ Retries(l, "dropped")
  /\ UNCHANGED poolVars

\* The stack popped the context before its exit raised.
ReleaseFails(l) ==
  /\ OpenerAt(l, "release")
  /\ ~opener[l].cancelled
  /\ Goes(l, "failed", "dropped")
  /\ UNCHANGED poolVars

\* Mutation: the allocation is shielded, but awaited once, without the loop.
CancelledOutOfShield(l) ==
  /\ opener[l].pc \in Running
  /\ opener[l].cancelled \/ opener[l].absorbed
  /\ Goes(l, "cancelled", lease[Current(l)])
  /\ UNCHANGED poolVars

\* CancelledError at the await. An acquisition without a task of its own ends
\* with it.
OpenerCancelled(l) ==
  /\ opener[l].pc \in Running
  /\ opener[l].cancelled
  /\ Goes(l, "cancelled", CASE lease[Current(l)] = "asked" -> "abandoned"
                            [] OpenerAt(l, "release") -> "dropped"
                            [] OTHER -> lease[Current(l)])
  /\ UNCHANGED poolVars

OpenerStep(l) == AllocationEnds(l) \/ AcquireSucceeds(l) \/ AcquireFails(l)
                 \/ HelloSucceeds(l) \/ HelloFails(l) \/ ReleaseSucceeds(l) \/ ReleaseFails(l)
                 \/ OpenerCancelled(l)

-----------------------------------------------------------------------------
(* __aenter__                                                               *)

\* task.cancel(): noted by the loop around a shielded acquisition, and otherwise
\* raised at the lane's await.
CancelOpener(o) ==
  CASE o.pc \notin Running          -> o
    [] o.pc = "lease" /\ Shielded   -> [o EXCEPT !.absorbed = TRUE]
    [] OTHER                        -> [o EXCEPT !.cancelled = TRUE]

CancelOpeners == opener' = [l \in Lanes |-> CancelOpener(opener[l])]

\* Somebody cancels the caller: the gather passes it on to every lane.
Interrupt ==
  /\ entry = "opening"
  /\ interrupted' = TRUE
  /\ CancelOpeners
  /\ UNCHANGED <<lease, entry, overdue, depth, drained, errors, confirmed, episode>>

\* startup_timeout expires, once, and does the same.
StartupTimesOut ==
  /\ entry = "opening" /\ ~overdue
  /\ overdue' = TRUE
  /\ interrupted' = TRUE
  /\ CancelOpeners
  /\ UNCHANGED <<lease, entry, depth, drained, errors, confirmed, episode>>

OpenSucceeds ==
  /\ entry = "opening" /\ ~interrupted
  /\ \A l \in Lanes : OpenerAt(l, "ready")
  /\ entry' = "open"
  /\ depth' = 1
  /\ UNCHANGED <<opener, lease, interrupted, overdue, drained, errors, confirmed, episode>>

\* The gather raised at the first lane that did, or two lanes have one address.
\* The lanes that still run are cancelled, possibly a second time.
OpenFails ==
  /\ entry = "opening"
  /\ \/ \E l \in Lanes : opener[l].pc \in {"failed", "cancelled"}
     \/ \A l \in Lanes : OpenerAt(l, "ready")
  /\ entry' = "joining"
  /\ interrupted' = FALSE
  /\ CancelOpeners
  /\ UNCHANGED <<lease, overdue, depth, drained, errors, confirmed, episode>>

\* A cancellation of the caller while it joins the lanes of a failed startup.
InterruptJoin ==
  /\ entry = "joining"
  /\ interrupted' = TRUE
  /\ CancelOpeners
  /\ UNCHANGED <<lease, entry, overdue, depth, drained, errors, confirmed, episode>>

JoinEnds ==
  /\ entry = "joining"
  /\ \A l \in Lanes : opener[l].pc \notin Running
  /\ entry' = IF interrupted THEN "failed" ELSE "draining"
  /\ UNCHANGED <<opener, lease, interrupted, overdue, depth, drained, errors, confirmed, episode>>

-----------------------------------------------------------------------------
(* Borrowing a lane.                                                        *)

EnterAgain ==
  /\ entry = "open"
  /\ depth < MaxDepth
  /\ depth' = depth + 1
  /\ UNCHANGED <<opener, lease, entry, interrupted, overdue, drained, errors, confirmed, episode>>

\* __aexit__: the last one out closes.
Exit ==
  /\ entry = "open"
  /\ depth' = depth - 1
  /\ entry' = IF depth' = 0 THEN "draining" ELSE entry
  /\ UNCHANGED <<opener, lease, interrupted, overdue, drained, errors, confirmed, episode>>

Moves(e, where) ==
  /\ episode' = [episode EXCEPT ![e] = where]
  /\ UNCHANGED <<opener, lease, entry, interrupted, overdue, depth, drained, errors, confirmed>>

BorrowStarts(e) ==
  /\ episode[e] = "idle"
  /\ entry = "open"
  /\ Moves(e, "waiting")

\* Mutation: _closed is only tested before the wait for the lock.
BorrowQueued(e) ==
  /\ episode[e] = "waiting"
  /\ LockFree(LaneOf[e])
  /\ Moves(e, "inside")

Borrow(e) ==
  /\ episode[e] = "waiting"
  /\ LockFree(LaneOf[e])
  /\ ~Closed
  /\ Moves(e, "inside")

\* The pool closed while the episode waited, or the episode was cancelled.
BorrowRefused(e) ==
  /\ episode[e] = "waiting"
  /\ Moves(e, "idle")

EpisodeEnds(e) ==
  /\ episode[e] = "inside"
  /\ Moves(e, "idle")

-----------------------------------------------------------------------------
(* close. Its cleanup runs in a task of its own, which cancelling does not    *)
(* reach.                                                                   *)

DrainLane(l) ==
  /\ entry = "draining"
  /\ drained[l] = "no"
  /\ LockFree(l)
  /\ drained' = [drained EXCEPT ![l] = "yes"]
  /\ UNCHANGED <<opener, lease, entry, interrupted, overdue, depth, errors, confirmed, episode>>

\* Mutation: a borrow that does not unwind in time is not an error.
DrainTimeoutIgnored(l) ==
  /\ entry = "draining"
  /\ drained[l] = "no"
  /\ drained' = [drained EXCEPT ![l] = "late"]
  /\ UNCHANGED <<opener, lease, entry, interrupted, overdue, depth, errors, confirmed, episode>>

\* Mutation: drain_lane without cleanup_timeout.
DrainUnbounded(l) == entry = "draining" /\ ~LockFree(l) /\ FALSE /\ UNCHANGED vars

DrainTimesOut(l) ==
  /\ entry = "draining"
  /\ drained[l] = "no"
  /\ ~LockFree(l)
  /\ drained' = [drained EXCEPT ![l] = "late"]
  /\ errors' = TRUE
  /\ UNCHANGED <<opener, lease, entry, interrupted, overdue, depth, confirmed, episode>>

DrainEnds ==
  /\ entry = "draining"
  /\ \A l \in Lanes : drained[l] # "no"
  /\ entry' = "releasing"
  /\ UNCHANGED <<opener, lease, interrupted, overdue, depth, drained, errors, confirmed, episode>>

\* An owner's exit ends, raises, or runs out of time, perhaps before it began.
CloseOwner(l) ==
  /\ entry = "releasing"
  /\ lease[Current(l)] = "owned"
  /\ \/ /\ lease' = [lease EXCEPT ![Current(l)] = "released"]
        /\ errors' \in {errors, TRUE}      \* the evidence may fail to be written
     \/ /\ lease' = [lease EXCEPT ![Current(l)] = "dropped"]
        /\ errors' = TRUE
  /\ UNCHANGED <<opener, entry, interrupted, overdue, depth, drained, confirmed, episode>>

CloseEnds ==
  /\ entry = "releasing"
  /\ \A l \in Lanes : lease[Current(l)] # "owned"
  /\ entry' = "done"
  /\ confirmed' = ~errors
  /\ UNCHANGED <<opener, lease, interrupted, overdue, depth, drained, errors, episode>>

-----------------------------------------------------------------------------
Entering == Interrupt \/ StartupTimesOut \/ OpenSucceeds \/ OpenFails \/ InterruptJoin \/ JoinEnds

EpisodeStep(e) == BorrowStarts(e) \/ Borrow(e) \/ BorrowRefused(e) \/ EpisodeEnds(e)

Closing(l) == DrainLane(l) \/ DrainTimesOut(l) \/ CloseOwner(l)

Next ==
  \/ \E l \in Lanes : OpenerStep(l) \/ Closing(l)
  \/ Entering \/ EnterAgain \/ Exit \/ DrainEnds \/ CloseEnds
  \/ \E e \in Episodes : EpisodeStep(e)

\* A shielded acquisition, a hello, a drain and each owner's exit have timeouts of
\* their own, startup_timeout expires while the pool is opening, and a task that
\* can go on, or was cancelled, runs. Nothing is assumed of an acquisition without
\* a timeout, of a release for a retry, of the episodes or of the caller's block.
Fairness ==
  /\ \A l \in Lanes : /\ WF_vars(Shielded /\ AllocationEnds(l))
                      /\ WF_vars(AcquireSucceeds(l) \/ AcquireFails(l))
                      /\ WF_vars(HelloFails(l))
                      /\ WF_vars(OpenerCancelled(l))
                      /\ WF_vars(Closing(l))
  /\ WF_vars(StartupTimesOut) /\ WF_vars(OpenSucceeds \/ OpenFails) /\ WF_vars(JoinEnds)
  /\ WF_vars(DrainEnds) /\ WF_vars(CloseEnds)

Spec == Init /\ [][Next]_vars
FairSpec == Spec /\ Fairness

-----------------------------------------------------------------------------
(* Properties.                                                              *)

\* Retrying never holds two simulators of one lane: the next one is leased
\* after the one before was released, and a failed release is not retried. (A
\* lease whose acquisition timed out is not known to the pool.)
OneLeasePerLane ==
  \A l \in Lanes : \A a, b \in Attempts :
    (/\ lease[<<l, a>>] \in {"asked", "owned", "dropped"}
     /\ lease[<<l, b>>] \in {"asked", "owned", "dropped"}) => a = b

\* No simulator comes into being behind the pool's back. An allocation goes on when
\* its lane is cancelled, and the lane waits for it however often it is cancelled: when
\* close begins, or entry has raised, none is under way, and close leaves none held.
NoLateLease ==
  /\ Closed \/ entry = "failed" => \A r \in Lanes \X Attempts : lease[r] # "asked"
  /\ entry = "done" => \A r \in Lanes \X Attempts : lease[r] # "owned"

\* An episode inside a lane has its simulator, until its drain is given up.
BorrowKeepsRuntime ==
  \A e \in Episodes : episode[e] = "inside" =>
    \/ lease[Current(LaneOf[e])] = "owned"
    \/ drained[LaneOf[e]] = "late"

\* A confirmed cleanup released every lane's last lease and no episode is, or
\* will ever again be, inside a lane.
ConfirmedMeansQuiet ==
  confirmed => /\ \A e \in Episodes : episode[e] # "inside"
               /\ \A l \in Lanes : OpenerAt(l, "ready") => lease[Current(l)] = "released"

\* A confirmed cleanup released every lease the pool was ever given.
ConfirmedMeansReleased ==
  confirmed => \A r \in Lanes \X Attempts : lease[r] \notin {"owned", "dropped"}

\* A lane that has been cancelled leases nothing more, even if the shielded
\* acquisition absorbed the cancellation.
CancelledLeasesNothing ==
  [][\A l \in Lanes : opener[l].cancelled \/ opener[l].absorbed =>
                        opener'[l].attempt = opener[l].attempt]_vars

\* An entry that raises has given its leases back.
FailedEntryOwnsNothing ==
  entry = "failed" => \A r \in Lanes \X Attempts : lease[r] # "owned"

\* Entering ends: the pool is open, or closing, or entry has raised.
EntryEnds == entry \in {"opening", "joining"} ~> entry \notin {"opening", "joining"}

\* Every release for a retry ends.
ReleasesEnd == \A l \in Lanes : OpenerAt(l, "release") ~> ~OpenerAt(l, "release")

\* Nothing but a release for a retry can keep the pool from being entered: not a
\* provider that never answers the leases, not a simulator that never says hello,
\* not cancellations, however often repeated, of a caller who waits for the join.
OnlyReleasesDelayEntry == ReleasesEnd => EntryEnds

\* Closing ends, even with an episode that never leaves its lane.
CloseTerminates == Closed ~> entry = "done"
====
