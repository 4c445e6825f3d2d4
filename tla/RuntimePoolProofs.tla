---- MODULE RuntimePoolProofs ----
(***************************************************************************)
(* Proofs about RuntimePool, for every set of lanes and episodes and every *)
(* number of attempts. Inv is the inductive invariant: beside the types it *)
(* says how leases succeed one another, how far each part of the pool can  *)
(* have come at each stage of entry and close, and what close has seen.    *)
(* The last part proves what remains of the claims that pool_confirm,      *)
(* pool_cancel and pool_entry refute, and on what the violations depend.   *)
(***************************************************************************)
EXTENDS RuntimePool, TLAPS

\* Leases are taken in turn: the ones before the current are over and given
\* back, as far as the pool knows of them, the ones after it not asked for.
Succession ==
  \A l \in Lanes : \A a \in Attempts :
    /\ a < opener[l].attempt => lease[<<l, a>>] \in {"refused", "unknown", "released"}
    /\ a > opener[l].attempt => lease[<<l, a>>] = "none"

\* Only a lane with an attempt left releases its lease to lease again.
Retrying == \A l \in Lanes : OpenerAt(l, "release") => AttemptsLeft(l)

\* A lane waits for its allocation to end: none is under way without its lane.
Acquiring ==
  \A l \in Lanes :
    /\ lease[Current(l)] = "asked" => OpenerAt(l, "lease")
    /\ OpenerAt(l, "lease") => lease[Current(l)] \in {"asked", "owned", "refused", "unknown"}

\* Lanes open only while the pool does; an open pool has all its lanes.
Opening ==
  /\ \A l \in Lanes : opener[l].pc \in Running => entry \in {"opening", "joining"}
  /\ entry = "open" => depth > 0 /\ \A l \in Lanes : OpenerAt(l, "ready")

\* A lane that became ready owns its lease until close gives it back, or fails to.
ReadyOwns ==
  \A l \in Lanes : OpenerAt(l, "ready") =>
    /\ entry \notin {"releasing", "done"} => lease[Current(l)] = "owned"
    /\ ~errors => lease[Current(l)] \in {"owned", "released"}
    /\ entry = "done" => lease[Current(l)] # "owned"

\* Only an opened pool is borrowed, and only lanes that became ready.
Borrowed ==
  \A e \in Episodes :
    /\ episode[e] # "idle" => entry \notin {"opening", "joining", "failed"}
    /\ episode[e] = "inside" => OpenerAt(LaneOf[e], "ready")

\* What the drain of each lane found.
Drained ==
  /\ \A l \in Lanes : /\ drained[l] # "no" => Closed
                      /\ drained[l] = "yes" => LockFree(l)
                      /\ drained[l] = "late" => errors
                      /\ entry \in {"releasing", "done"} => drained[l] # "no"
  /\ confirmed => entry = "done" /\ ~errors

Inv == TypeOK /\ Retrying /\ Acquiring /\ Succession /\ Opening /\ ReadyOwns /\ Borrowed /\ Drained

-----------------------------------------------------------------------------
(* The steps of open_lane.                                                  *)

\* An allocation ends in state s, its lane waiting for it.
Settles(l, s) ==
  /\ OpenerAt(l, "lease") /\ lease[Current(l)] = "asked"
  /\ UNCHANGED opener
  /\ lease' = [lease EXCEPT ![Current(l)] = s]

\* What a step of open_lane can do: its allocation ends; it ends or moves on with the
\* lease it has; or it goes on to the next attempt with the lease behind it given back
\* or never had.
LEMMA OpenerSteps ==
  ASSUME TypeOK, Retrying, Acquiring, NEW l \in Lanes, OpenerStep(l)
  PROVE  /\ opener[l].pc \in Running
         /\ UNCHANGED poolVars
         /\ \/ \E s \in {"owned", "refused", "unknown"} : Settles(l, s)
            \/ \E p \in Points \ {"lease"}, s \in LeaseStates \ {"asked"} :
                 /\ Goes(l, p, s)
                 /\ p = "ready" => s = "owned"
                 /\ p = "release" => AttemptsLeft(l)
            \/ /\ AttemptsLeft(l)
               /\ \E s \in {"refused", "unknown", "released"} : Retries(l, s)
<1>0. CASE AllocationEnds(l)
  BY <1>0 DEF AllocationEnds, Acquiring, Settles, OpenerAt, Running
<1>1. CASE AcquireSucceeds(l)
  BY <1>1 DEF AcquireSucceeds, Acquired, OpenerAt, Running, Points, LeaseStates
<1>2. CASE AcquireFails(l)
  <2>1. OpenerAt(l, "lease") /\ lease[Current(l)] \in {"owned", "refused", "unknown"}
    BY <1>2 DEF AcquireFails, Acquired, Acquiring
  <2> QED
    BY <1>2, <2>1 DEF AcquireFails, MayRetry, OpenerAt, Running, Points, LeaseStates
<1>3. CASE HelloSucceeds(l) \/ HelloFails(l)
  BY <1>3 DEF HelloSucceeds, HelloFails, MayRetry, OpenerAt, Running, Points, LeaseStates
<1>4. CASE ReleaseSucceeds(l)
  BY <1>4 DEF ReleaseSucceeds, Retrying, OpenerAt, Running
<1>5. CASE ReleaseFails(l)
  BY <1>5 DEF ReleaseFails, OpenerAt, Running, Points, LeaseStates
<1>6. CASE OpenerCancelled(l)
  <2>1. lease[Current(l)] \in LeaseStates
    BY DEF TypeOK, Openers, Current
  <2> QED
    BY <1>6, <2>1 DEF OpenerCancelled, OpenerAt, Running, Points, LeaseStates
<1> QED
  BY <1>0, <1>1, <1>2, <1>3, <1>4, <1>5, <1>6 DEF OpenerStep

\* The variables after open_lane ends or moves on.
LEMMA GoesPointwise ==
  ASSUME TypeOK, NEW l \in Lanes, NEW p \in Points, NEW s \in LeaseStates, Goes(l, p, s)
  PROVE  /\ opener' \in [Lanes -> Openers]
         /\ lease' \in [Lanes \X Attempts -> LeaseStates]
         /\ \A k \in Lanes : /\ opener'[k].pc = IF k = l THEN p ELSE opener[k].pc
                             /\ opener'[k].attempt = opener[k].attempt
                             /\ opener'[k].absorbed = opener[k].absorbed
         /\ \A r \in Lanes \X Attempts : lease'[r] = IF r = Current(l) THEN s ELSE lease[r]
<1> DEFINE f == [opener[l] EXCEPT !.pc = p]
<1>1. /\ f \in Openers
      /\ f.pc = p /\ f.attempt = opener[l].attempt /\ f.absorbed = opener[l].absorbed
  BY DEF TypeOK, Openers
<1>2. opener' = [opener EXCEPT ![l] = f]
  BY DEF Goes
<1>3. Current(l) \in Lanes \X Attempts
  BY DEF Current, TypeOK, Openers
<1>4. lease' = [lease EXCEPT ![Current(l)] = s]
  BY DEF Goes
<1> HIDE DEF f
<1>5. \A k \in Lanes : opener'[k] = IF k = l THEN f ELSE opener[k]
  BY <1>2 DEF TypeOK
<1>6. opener' \in [Lanes -> Openers]
  BY <1>1, <1>2 DEF TypeOK
<1>7. \A r \in Lanes \X Attempts : lease'[r] = IF r = Current(l) THEN s ELSE lease[r]
  BY <1>3, <1>4 DEF TypeOK
<1>8. lease' \in [Lanes \X Attempts -> LeaseStates]
  BY <1>3, <1>4 DEF TypeOK
<1> QED
  BY <1>1, <1>5, <1>6, <1>7, <1>8

\* The variables after it begins another attempt.
LEMMA RetriesPointwise ==
  ASSUME TypeOK, NEW l \in Lanes, NEW s \in LeaseStates, AttemptsLeft(l), Retries(l, s)
  PROVE  /\ opener' \in [Lanes -> Openers]
         /\ lease' \in [Lanes \X Attempts -> LeaseStates]
         /\ opener[l].attempt + 1 \in Attempts
         /\ \A k \in Lanes : IF k = l THEN /\ opener'[k].pc = "lease"
                                           /\ opener'[k].attempt = opener[k].attempt + 1
                                           /\ ~opener'[k].absorbed
                                      ELSE opener'[k] = opener[k]
         /\ \A r \in Lanes \X Attempts :
              lease'[r] = IF r = <<l, opener[l].attempt + 1>> THEN "asked"
                          ELSE IF r = Current(l) THEN s ELSE lease[r]
<1> DEFINE a == opener[l].attempt
           f == Begun(a + 1)
<1>1. a \in Attempts /\ a + 1 \in Attempts /\ a + 1 # a
  BY AttemptsAssumption DEF TypeOK, Openers, AttemptsLeft, Attempts
<1>2. f \in Openers /\ f.pc = "lease" /\ f.attempt = a + 1 /\ f.absorbed = FALSE
  BY <1>1 DEF Openers, Begun, Points, Running
<1>3. /\ opener' = [opener EXCEPT ![l] = f]
      /\ lease' = [lease EXCEPT ![<<l, a>>] = s, ![<<l, a + 1>>] = "asked"]
  BY DEF Retries
<1>4. \A k \in Lanes : opener'[k] = IF k = l THEN f ELSE opener[k]
  BY <1>3 DEF TypeOK
<1>5. opener' \in [Lanes -> Openers]
  <2> HIDE DEF f
  <2> QED BY <1>2, <1>3 DEF TypeOK
<1>6. <<l, a>> \in Lanes \X Attempts /\ <<l, a + 1>> \in Lanes \X Attempts
  BY <1>1
<1>7. \A r \in Lanes \X Attempts :
        lease'[r] = IF r = <<l, a + 1>> THEN "asked" ELSE IF r = <<l, a>> THEN s ELSE lease[r]
  BY <1>3, <1>6 DEF TypeOK
<1>8. lease' \in [Lanes \X Attempts -> LeaseStates]
  BY <1>3, <1>6 DEF TypeOK, LeaseStates
<1> QED
  <2> HIDE DEF f
  <2> QED BY <1>1, <1>2, <1>4, <1>5, <1>7, <1>8 DEF Current

\* A step of open_lane keeps the invariant.
LEMMA OpenerKeepsInv ==
  ASSUME Inv, NEW l \in Lanes, OpenerStep(l)
  PROVE  Inv'
<1>1. opener[l].pc \in Running /\ UNCHANGED poolVars
  BY OpenerSteps DEF Inv
<1>2. entry \in {"opening", "joining"} /\ ~confirmed
  BY <1>1 DEF Inv, Opening, Drained
<1>3. \A e \in Episodes : episode[e] = "idle"
  BY <1>2 DEF Inv, Borrowed, TypeOK
<1>4. \A k \in Lanes : drained[k] = "no"
  BY <1>2 DEF Inv, Drained, Closed, TypeOK
<1>5. Borrowed' /\ Drained'
  BY <1>1, <1>2, <1>3, <1>4 DEF poolVars, Borrowed, Drained
<1>6. Opening'
  BY <1>1, <1>2 DEF poolVars, Opening
<1>7. \A k \in Lanes : /\ Current(k) \in Lanes \X Attempts
                        /\ k # l => Current(k) # Current(l)
  BY DEF Current, Inv, TypeOK, Openers
<1>8. ASSUME NEW s \in {"owned", "refused", "unknown"}, Settles(l, s)
      PROVE  Inv'
  <2>1. \A r \in Lanes \X Attempts : lease'[r] = IF r = Current(l) THEN s ELSE lease[r]
    BY <1>8, <1>7 DEF Settles, Inv, TypeOK
  <2>2. TypeOK'
    BY <1>8, <1>1, <1>7 DEF Settles, Inv, TypeOK, poolVars, LeaseStates
  <2>3. Retrying' /\ \A k \in Lanes : Current(k)' = Current(k)
    BY <1>8 DEF Settles, Inv, Retrying, OpenerAt, AttemptsLeft, Current
  <2>4. Acquiring'
    BY <1>8, <1>7, <2>1, <2>3 DEF Settles, Inv, Acquiring, OpenerAt
  <2>5. Succession'
    <3> SUFFICES ASSUME NEW k \in Lanes, NEW b \in Attempts
                 PROVE  /\ b < opener[k].attempt =>
                             lease'[<<k, b>>] \in {"refused", "unknown", "released"}
                        /\ b > opener[k].attempt => lease'[<<k, b>>] = "none"
      BY <1>8 DEF Settles, Succession
    <3>1. b < opener[k].attempt \/ b > opener[k].attempt => <<k, b>> # Current(l)
      BY DEF Current, Inv, TypeOK, Openers, Attempts
    <3> QED
      BY <2>1, <3>1 DEF Inv, Succession
  <2>6. ReadyOwns'
    BY <1>8, <1>1, <1>2, <1>7, <2>1, <2>3 DEF Settles, Inv, ReadyOwns, OpenerAt, poolVars
  <2> QED
    BY <1>5, <1>6, <2>2, <2>3, <2>4, <2>5, <2>6 DEF Inv
<1>9. ASSUME NEW p \in Points \ {"lease"}, NEW s \in LeaseStates \ {"asked"},
             Goes(l, p, s), p = "ready" => s = "owned", p = "release" => AttemptsLeft(l)
      PROVE  Inv'
  <2>1. /\ opener' \in [Lanes -> Openers]
        /\ lease' \in [Lanes \X Attempts -> LeaseStates]
        /\ \A k \in Lanes : /\ opener'[k].pc = IF k = l THEN p ELSE opener[k].pc
                            /\ opener'[k].attempt = opener[k].attempt
                            /\ opener'[k].absorbed = opener[k].absorbed
        /\ \A r \in Lanes \X Attempts : lease'[r] = IF r = Current(l) THEN s ELSE lease[r]
    BY <1>9, GoesPointwise DEF Inv
  <2>2. \A k \in Lanes : Current(k)' = Current(k)
    BY <2>1 DEF Current
  <2>3. \A k \in Lanes : lease'[Current(k)'] = IF k = l THEN s ELSE lease[Current(k)]
    <3> SUFFICES ASSUME NEW k \in Lanes
                 PROVE  lease'[Current(k)] = IF k = l THEN s ELSE lease[Current(k)]
      BY <2>2
    <3>1. Current(k) \in Lanes \X Attempts /\ (k # l => Current(k) # Current(l))
      BY DEF Current, Inv, TypeOK, Openers
    <3> QED
      BY <2>1, <3>1
  <2>4. Acquiring'
    BY <1>9, <2>1, <2>3 DEF Inv, Acquiring, OpenerAt
  <2>5. TypeOK'
    BY <1>1, <2>1 DEF Inv, TypeOK, poolVars
  <2>6. Retrying'
    BY <1>9, <2>1 DEF Inv, Retrying, OpenerAt, AttemptsLeft
  <2>7. Succession'
    <3> SUFFICES ASSUME NEW k \in Lanes, NEW b \in Attempts
                 PROVE  /\ b < opener[k].attempt =>
                             lease'[<<k, b>>] \in {"refused", "unknown", "released"}
                        /\ b > opener[k].attempt => lease'[<<k, b>>] = "none"
      BY <2>1 DEF Succession
    <3>1. opener[k].attempt \in Nat /\ b \in Nat
      BY DEF Inv, TypeOK, Openers, Attempts
    <3>2. b # opener[k].attempt => lease'[<<k, b>>] = lease[<<k, b>>]
      BY <2>1 DEF Current
    <3>3. b < opener[k].attempt \/ b > opener[k].attempt => b # opener[k].attempt
      BY <3>1
    <3>4. /\ b < opener[k].attempt => lease[<<k, b>>] \in {"refused", "unknown", "released"}
          /\ b > opener[k].attempt => lease[<<k, b>>] = "none"
      BY DEF Inv, Succession
    <3> QED
      BY <3>2, <3>3, <3>4
  <2>8. ReadyOwns'
    BY <1>1, <1>2, <1>9, <2>1, <2>3 DEF Inv, ReadyOwns, OpenerAt, poolVars
  <2> QED
    BY <1>5, <1>6, <2>4, <2>5, <2>6, <2>7, <2>8 DEF Inv
<1>10. ASSUME AttemptsLeft(l), NEW s \in {"refused", "unknown", "released"}, Retries(l, s)
      PROVE  Inv'
  <2> DEFINE a == opener[l].attempt
  <2>1. /\ opener' \in [Lanes -> Openers]
        /\ lease' \in [Lanes \X Attempts -> LeaseStates]
        /\ a + 1 \in Attempts
        /\ \A k \in Lanes : IF k = l THEN /\ opener'[k].pc = "lease"
                                          /\ opener'[k].attempt = opener[k].attempt + 1
                                          /\ ~opener'[k].absorbed
                                     ELSE opener'[k] = opener[k]
        /\ \A r \in Lanes \X Attempts :
             lease'[r] = IF r = <<l, a + 1>> THEN "asked"
                         ELSE IF r = Current(l) THEN s ELSE lease[r]
    <3>1. s \in LeaseStates
      BY DEF LeaseStates
    <3> QED
      BY <1>10, <3>1, RetriesPointwise DEF Inv
  <2>2. Acquiring'
    <3> SUFFICES ASSUME NEW k \in Lanes
                 PROVE  /\ lease'[Current(k)'] = "asked" => opener'[k].pc = "lease"
                        /\ opener'[k].pc = "lease" =>
                             lease'[Current(k)'] \in {"asked", "owned", "refused", "unknown"}
      BY DEF Acquiring, OpenerAt
    <3>1. CASE k = l
      <4>1. Current(k)' = <<l, a + 1>>
        BY <2>1, <3>1 DEF Current
      <4> QED
        BY <2>1, <3>1, <4>1
    <3>2. CASE k # l
      <4>1. Current(k)' = Current(k) /\ opener'[k] = opener[k]
        BY <2>1, <3>2 DEF Current
      <4>2. Current(k) # <<l, a + 1>> /\ Current(k) # Current(l)
        BY <3>2 DEF Current
      <4>3. lease'[Current(k)] = lease[Current(k)]
        <5>1. Current(k) \in Lanes \X Attempts
          BY DEF Current, Inv, TypeOK, Openers
        <5> QED BY <2>1, <4>2, <5>1
      <4> QED
        BY <4>1, <4>3 DEF Inv, Acquiring, OpenerAt
    <3> QED
      BY <3>1, <3>2
  <2>3. TypeOK'
    BY <1>1, <2>1 DEF Inv, TypeOK, poolVars
  <2>4. Retrying'
    BY <2>1 DEF Inv, Retrying, OpenerAt, AttemptsLeft
  <2>5. Succession'
    <3> SUFFICES ASSUME NEW k \in Lanes, NEW b \in Attempts
                 PROVE  /\ b < opener'[k].attempt =>
                             lease'[<<k, b>>] \in {"refused", "unknown", "released"}
                        /\ b > opener'[k].attempt => lease'[<<k, b>>] = "none"
      BY DEF Succession
    <3>1. CASE k = l
      <4>1. a \in Nat /\ b \in Nat
        BY DEF Inv, TypeOK, Openers, Attempts
      <4>2. b < a + 1 => b < a \/ b = a
        BY <4>1
      <4>3. b > a + 1 => b > a /\ b # a /\ b # a + 1
        BY <4>1
      <4>4. opener'[k].attempt = a + 1
        BY <2>1, <3>1
      <4>5. b < a => b # a /\ b # a + 1
        BY <4>1
      <4>6. b = a => b # a + 1
        BY <4>1
      <4>7. /\ b = a => lease'[<<k, b>>] = s
            /\ b # a /\ b # a + 1 => lease'[<<k, b>>] = lease[<<k, b>>]
        BY <2>1, <3>1, <4>6 DEF Current
      <4>8. /\ b < a => lease[<<k, b>>] \in {"refused", "unknown", "released"}
            /\ b > a => lease[<<k, b>>] = "none"
        BY <3>1 DEF Inv, Succession
      <4> HIDE DEF a
      <4> QED
        BY <4>2, <4>3, <4>4, <4>5, <4>7, <4>8
    <3>2. CASE k # l
      BY <2>1, <3>2 DEF Inv, Succession, Current
    <3> QED
      BY <3>1, <3>2
  <2>6. ReadyOwns'
    <3> SUFFICES ASSUME NEW k \in Lanes, OpenerAt(k, "ready")'
                 PROVE  lease'[Current(k)'] = "owned"
      BY <1>1, <1>2 DEF ReadyOwns, poolVars
    <3>1. k # l /\ opener'[k] = opener[k]
      BY <2>1 DEF OpenerAt
    <3>2. Current(k)' = Current(k) /\ Current(k) \in Lanes \X Attempts
      BY <3>1 DEF Current, Inv, TypeOK, Openers
    <3>3. lease'[Current(k)] = lease[Current(k)]
      BY <2>1, <3>1, <3>2 DEF Current
    <3> QED
      BY <1>2, <3>1, <3>2, <3>3 DEF Inv, ReadyOwns, OpenerAt
  <2> QED
    BY <1>5, <1>6, <2>2, <2>3, <2>4, <2>5, <2>6 DEF Inv
<1> QED
  BY <1>8, <1>9, <1>10, OpenerSteps DEF Inv

-----------------------------------------------------------------------------
(* The steps of entry.                                                      *)

\* Cancelling the lanes moves none of them; only a shield absorbs.
LEMMA CancelOpenersPointwise ==
  ASSUME TypeOK, CancelOpeners
  PROVE  /\ opener' \in [Lanes -> Openers]
         /\ \A l \in Lanes : /\ opener'[l].pc = opener[l].pc
                             /\ opener'[l].attempt = opener[l].attempt
                             /\ opener'[l].absorbed => opener[l].absorbed \/ Shielded
<1>1. ASSUME NEW o \in Openers
      PROVE  LET f == CancelOpener(o)
             IN  /\ f \in Openers
                 /\ f.pc = o.pc
                 /\ f.attempt = o.attempt
                 /\ f.absorbed => o.absorbed \/ Shielded
  BY DEF Openers, CancelOpener
<1> QED
  BY <1>1 DEF CancelOpeners, TypeOK

\* What the invariant says of the lanes stays while no lane moves, no lease
\* changes, and close has not come further.
LEMMA LanesStay ==
  ASSUME Inv, UNCHANGED lease,
         \A l \in Lanes : opener'[l].pc = opener[l].pc /\ opener'[l].attempt = opener[l].attempt
  PROVE  /\ Retrying' /\ Acquiring' /\ Succession'
         /\ \A l \in Lanes : Current(l)' = Current(l)
         /\ \A l \in Lanes : OpenerAt(l, "ready")' <=> OpenerAt(l, "ready")
<1>1. \A l \in Lanes : Current(l)' = Current(l)
  BY DEF Current
<1>2. \A l \in Lanes, p \in Points : OpenerAt(l, p)' <=> OpenerAt(l, p)
  BY DEF OpenerAt
<1>3. Acquiring'
  BY <1>1, <1>2 DEF Inv, Acquiring, Points, Running
<1> QED
  BY <1>1, <1>3 DEF Inv, Retrying, Succession, OpenerAt, AttemptsLeft

\* A step of __aenter__ keeps the invariant.
LEMMA EnteringKeepsInv ==
  ASSUME Inv, Entering
  PROVE  Inv'
<1>1. /\ entry \in {"opening", "joining"}
      /\ UNCHANGED <<lease, drained, errors, confirmed, episode>>
      /\ CancelOpeners \/ UNCHANGED opener
      /\ entry' \in {"opening", "joining", "open", "failed", "draining"}
  BY DEF Entering, Interrupt, StartupTimesOut, OpenSucceeds, OpenFails, InterruptJoin, JoinEnds
<1>2. /\ opener' \in [Lanes -> Openers]
      /\ \A l \in Lanes : /\ opener'[l].pc = opener[l].pc
                          /\ opener'[l].attempt = opener[l].attempt
  BY <1>1, CancelOpenersPointwise DEF Inv, TypeOK
<1>3. /\ Retrying' /\ Acquiring' /\ Succession'
      /\ \A l \in Lanes : Current(l)' = Current(l)
      /\ \A l \in Lanes : OpenerAt(l, "ready")' <=> OpenerAt(l, "ready")
  BY <1>1, <1>2, LanesStay
<1>4. depth' \in 0..MaxDepth
  BY DepthAssumption DEF Inv, TypeOK, Entering, Interrupt, StartupTimesOut, OpenSucceeds, OpenFails,
                         InterruptJoin, JoinEnds
<1>5. interrupted' \in BOOLEAN /\ overdue' \in BOOLEAN
  BY DEF Inv, TypeOK, Entering, Interrupt, StartupTimesOut, OpenSucceeds, OpenFails,
         InterruptJoin, JoinEnds
<1>6. TypeOK'
  BY <1>1, <1>2, <1>4, <1>5 DEF Inv, TypeOK, Entries
<1>7. Opening'
  <2>1. CASE Interrupt \/ StartupTimesOut \/ OpenFails \/ InterruptJoin
    BY <2>1, <1>1 DEF Opening, Interrupt, StartupTimesOut, OpenFails, InterruptJoin
  <2>2. CASE OpenSucceeds
    BY <2>2, <1>2 DEF Opening, OpenSucceeds, OpenerAt, Running
  <2>3. CASE JoinEnds
    BY <2>3, <1>2 DEF Opening, JoinEnds
  <2> QED
    BY <2>1, <2>2, <2>3 DEF Entering
<1>8. ReadyOwns'
  BY <1>1, <1>3 DEF Inv, ReadyOwns
<1>9. Borrowed'
  BY <1>1 DEF Inv, Borrowed, TypeOK
<1>10. Drained'
  <2>1. \A l \in Lanes : drained[l] = "no"
    BY <1>1 DEF Inv, Drained, Closed, TypeOK
  <2>2. ~confirmed
    BY <1>1 DEF Inv, Drained
  <2> QED
    BY <1>1, <2>1, <2>2 DEF Drained
<1> QED
  BY <1>3, <1>6, <1>7, <1>8, <1>9, <1>10 DEF Inv

\* Entering again and leaving keep the invariant.
LEMMA NestingKeepsInv ==
  ASSUME Inv, EnterAgain \/ Exit
  PROVE  Inv'
<1>1. /\ entry = "open" /\ entry' \in {"open", "draining"}
      /\ UNCHANGED <<opener, lease, interrupted, overdue, drained, errors, confirmed, episode>>
  BY DEF EnterAgain, Exit
<1>2. depth' \in 0..MaxDepth /\ (entry' = "open" => depth' > 0)
  <2>1. depth \in Nat /\ 0 < depth /\ depth <= MaxDepth /\ MaxDepth \in Nat
    BY <1>1, DepthAssumption DEF Inv, TypeOK, Opening
  <2>2. CASE EnterAgain
    <3>1. depth < MaxDepth /\ depth' = depth + 1
      BY <2>2 DEF EnterAgain
    <3> QED BY <2>1, <3>1
  <2>3. CASE Exit
    <3>1. depth' = depth - 1 /\ (entry' = "open" => depth' # 0)
      BY <2>3 DEF Exit
    <3> QED BY <2>1, <3>1
  <2> QED BY <2>2, <2>3
<1>3. TypeOK'
  BY <1>1, <1>2 DEF Inv, TypeOK, Entries
<1>4. Retrying' /\ Acquiring' /\ Succession' /\ Opening' /\ ReadyOwns' /\ Borrowed'
  BY <1>1, <1>2 DEF Inv, Retrying, Acquiring, Succession, Opening, ReadyOwns, Borrowed, OpenerAt,
                    AttemptsLeft, Current
<1>5. Drained'
  BY <1>1 DEF Inv, Drained, Closed, LockFree
<1> QED
  BY <1>3, <1>4, <1>5 DEF Inv

-----------------------------------------------------------------------------
(* Borrowing and close.                                                     *)

\* A step of an episode keeps the invariant.
LEMMA EpisodeKeepsInv ==
  ASSUME Inv, NEW e \in Episodes, EpisodeStep(e)
  PROVE  Inv'
<1>1. UNCHANGED <<opener, lease, entry, interrupted, overdue, depth, drained, errors, confirmed>>
  BY DEF EpisodeStep, BorrowStarts, Borrow, BorrowRefused, EpisodeEnds, Moves
<1>2. Retrying' /\ Acquiring' /\ Succession' /\ Opening' /\ ReadyOwns'
  BY <1>1 DEF Inv, Retrying, Acquiring, Succession, Opening, ReadyOwns, OpenerAt, AttemptsLeft, Current
<1>3. PICK where \in {"idle", "waiting", "inside"} :
        /\ episode' = [episode EXCEPT ![e] = where]
        /\ where # "idle" => entry = "open"
        /\ where = "inside" => ~Closed
  BY DEF EpisodeStep, BorrowStarts, Borrow, BorrowRefused, EpisodeEnds, Moves,
         Inv, Borrowed, Closed, TypeOK, Entries
<1>4. TypeOK'
  BY <1>1, <1>3 DEF Inv, TypeOK
<1>5. \A d \in Episodes : episode'[d] = IF d = e THEN where ELSE episode[d]
  BY <1>3 DEF Inv, TypeOK
<1>6. Borrowed'
  BY <1>1, <1>3, <1>5, LaneOfAssumption DEF Inv, Borrowed, Opening, OpenerAt
<1>7. Drained'
  <2>1. CASE where = "inside"
    <3>1. \A l \in Lanes : drained[l] = "no"
      BY <1>3, <2>1 DEF Inv, Drained, TypeOK
    <3>2. entry \notin {"releasing", "done"}
      BY <1>3, <2>1
    <3> QED
      BY <1>1, <3>1, <3>2 DEF Drained, Inv
  <2>2. CASE where # "inside"
    <3>1. \A l \in Lanes : LockFree(l) => LockFree(l)'
      BY <1>5, <2>2 DEF LockFree
    <3> QED
      BY <1>1, <3>1 DEF Inv, Drained, Closed
  <2> QED
    BY <2>1, <2>2
<1> QED
  BY <1>2, <1>4, <1>6, <1>7 DEF Inv

\* Draining a lane keeps the invariant.
LEMMA DrainKeepsInv ==
  ASSUME Inv, NEW l \in Lanes, DrainLane(l) \/ DrainTimesOut(l)
  PROVE  Inv'
<1>1. /\ entry = "draining"
      /\ UNCHANGED <<opener, lease, entry, interrupted, overdue, depth, confirmed, episode>>
  BY DEF DrainLane, DrainTimesOut
<1>2. PICK found \in {"yes", "late"} :
        /\ drained' = [drained EXCEPT ![l] = found]
        /\ found = "yes" => LockFree(l) /\ UNCHANGED errors
        /\ found = "late" => errors' = TRUE
  BY DEF DrainLane, DrainTimesOut
<1>3. TypeOK'
  BY <1>1, <1>2 DEF Inv, TypeOK
<1>4. Retrying' /\ Acquiring' /\ Succession' /\ Opening' /\ Borrowed'
  BY <1>1 DEF Inv, Retrying, Acquiring, Succession, Opening, Borrowed, OpenerAt, AttemptsLeft, Current
<1>5. ReadyOwns'
  BY <1>1 DEF Inv, ReadyOwns, OpenerAt, Current
<1>6. Drained'
  <2>1. \A k \in Lanes : drained'[k] = IF k = l THEN found ELSE drained[k]
    BY <1>2 DEF Inv, TypeOK
  <2>2. \A k \in Lanes : LockFree(k)' <=> LockFree(k)
    BY <1>1 DEF LockFree
  <2>3. errors => errors'
    BY <1>2
  <2>4. ~confirmed
    BY <1>1 DEF Inv, Drained
  <2> QED
    BY <1>1, <1>2, <2>1, <2>2, <2>3, <2>4 DEF Inv, Drained, Closed
<1> QED
  BY <1>3, <1>4, <1>5, <1>6 DEF Inv

\* Releasing a lane's lease, or failing to, keeps the invariant.
LEMMA CloseOwnerKeepsInv ==
  ASSUME Inv, NEW l \in Lanes, CloseOwner(l)
  PROVE  Inv'
<1>1. /\ entry = "releasing"
      /\ UNCHANGED <<opener, entry, interrupted, overdue, depth, drained, confirmed, episode>>
  BY DEF CloseOwner
<1>2. PICK s \in {"released", "dropped"} :
        /\ lease' = [lease EXCEPT ![Current(l)] = s]
        /\ errors' \in {errors, TRUE}
        /\ s = "dropped" => errors' = TRUE
  BY DEF CloseOwner
<1>3. /\ TypeOK'
      /\ \A r \in Lanes \X Attempts : lease'[r] = IF r = Current(l) THEN s ELSE lease[r]
  BY <1>1, <1>2 DEF Inv, TypeOK, LeaseStates
<1>4. \A k \in Lanes : Current(k)' = Current(k) /\ Current(k) \in Lanes \X Attempts
  BY <1>1 DEF Current, Inv, TypeOK, Openers
<1>5. Retrying' /\ Opening' /\ Borrowed'
  BY <1>1 DEF Inv, Retrying, Opening, Borrowed, OpenerAt, AttemptsLeft, Current
<1>6. Acquiring'
  <2>1. \A k \in Lanes : ~OpenerAt(k, "lease")
    BY <1>1 DEF Inv, Opening, OpenerAt, Running
  <2> QED
    BY <1>1, <1>2, <1>3, <1>4, <2>1 DEF Inv, Acquiring, OpenerAt
<1>7. Succession'
  <2> SUFFICES ASSUME NEW k \in Lanes, NEW b \in Attempts
               PROVE  /\ b < opener[k].attempt =>
                           lease'[<<k, b>>] \in {"refused", "unknown", "released"}
                      /\ b > opener[k].attempt => lease'[<<k, b>>] = "none"
    BY <1>1 DEF Succession
  <2>1. opener[k].attempt \in Nat /\ b \in Nat
    BY DEF Inv, TypeOK, Openers, Attempts
  <2>2. b # opener[k].attempt => lease'[<<k, b>>] = lease[<<k, b>>]
    BY <1>3 DEF Current
  <2>3. b < opener[k].attempt \/ b > opener[k].attempt => b # opener[k].attempt
    BY <2>1
  <2>4. /\ b < opener[k].attempt => lease[<<k, b>>] \in {"refused", "unknown", "released"}
        /\ b > opener[k].attempt => lease[<<k, b>>] = "none"
    BY DEF Inv, Succession
  <2> QED
    BY <2>2, <2>3, <2>4
<1>8. ReadyOwns'
  <2> SUFFICES ASSUME NEW k \in Lanes, OpenerAt(k, "ready")
               PROVE  ~errors' => lease'[Current(k)] \in {"owned", "released"}
    BY <1>1, <1>4 DEF ReadyOwns, OpenerAt
  <2>1. ~errors' => ~errors /\ s = "released"
    BY <1>2 DEF Inv, TypeOK
  <2>2. ~errors => lease[Current(k)] \in {"owned", "released"}
    BY DEF Inv, ReadyOwns
  <2> QED
    BY <1>3, <1>4, <2>1, <2>2
<1>9. Drained'
  <2>1. errors => errors'
    BY <1>2 DEF Inv, TypeOK
  <2>2. ~confirmed
    BY <1>1 DEF Inv, Drained
  <2> QED
    BY <1>1, <2>1, <2>2 DEF Inv, Drained, Closed, LockFree
<1> QED
  BY <1>3, <1>5, <1>6, <1>7, <1>8, <1>9 DEF Inv

\* The two stages of close keep the invariant.
LEMMA StagesKeepInv ==
  ASSUME Inv, DrainEnds \/ CloseEnds
  PROVE  Inv'
<1>1. /\ entry \in {"draining", "releasing"} /\ entry' \in {"releasing", "done"}
      /\ UNCHANGED <<opener, lease, interrupted, overdue, depth, drained, errors, episode>>
  BY DEF DrainEnds, CloseEnds
<1>2. confirmed' \in BOOLEAN /\ (confirmed' => entry' = "done" /\ ~errors)
  <2>1. CASE DrainEnds
    <3>1. confirmed' = confirmed /\ entry # "done"
      BY <2>1 DEF DrainEnds
    <3> QED BY <3>1 DEF Inv, Drained, TypeOK
  <2>2. CASE CloseEnds
    <3>1. confirmed' = ~errors /\ entry' = "done"
      BY <2>2 DEF CloseEnds
    <3> QED BY <3>1, Zenon
  <2> QED BY <2>1, <2>2
<1>3. TypeOK'
  BY <1>1, <1>2 DEF Inv, TypeOK, Entries
<1>4. Retrying' /\ Acquiring' /\ Succession' /\ Opening' /\ Borrowed'
  BY <1>1 DEF Inv, Retrying, Acquiring, Succession, Opening, Borrowed, OpenerAt, AttemptsLeft, Current
<1>5. ReadyOwns'
  <2>1. entry' = "done" => \A l \in Lanes : lease[Current(l)] # "owned"
    BY DEF DrainEnds, CloseEnds
  <2> QED
    BY <1>1, <2>1 DEF Inv, ReadyOwns, OpenerAt, Current
<1>6. Drained'
  <2>1. \A l \in Lanes : drained[l] # "no"
    BY DEF DrainEnds, CloseEnds, Inv, Drained
  <2> QED
    BY <1>1, <1>2, <2>1 DEF Inv, Drained, Closed, LockFree
<1> QED
  BY <1>3, <1>4, <1>5, <1>6 DEF Inv

-----------------------------------------------------------------------------
(* The theorems.                                                            *)

\* The pool before its lanes have answered.
LEMMA InitInv == Init => Inv
<1> SUFFICES ASSUME Init PROVE Inv
  OBVIOUS
<1>1. 1 \in Attempts /\ \A a \in Attempts : ~(a < 1) /\ (a > 1 => a # 1)
  BY AttemptsAssumption DEF Attempts
<1>2. TypeOK
  <2>1. opener \in [Lanes -> Openers]
    <3> DEFINE f == Begun(1)
    <3>1. f \in Openers
      BY <1>1 DEF Openers, Begun, Points, Running
    <3>2. opener = [l \in Lanes |-> f]
      BY DEF Init
    <3> HIDE DEF f
    <3> QED BY <3>1, <3>2
  <2>2. lease \in [Lanes \X Attempts -> LeaseStates]
    BY DEF Init, LeaseStates
  <2>3. depth \in 0..MaxDepth
    BY DepthAssumption DEF Init
  <2> QED
    BY <2>1, <2>2, <2>3 DEF Init, TypeOK, Entries
<1>3. Succession
  BY <1>1 DEF Init, Begun, Succession
<1>4. Acquiring
  BY <1>1 DEF Init, Begun, Acquiring, OpenerAt, Current
<1>5. Retrying /\ Opening /\ ReadyOwns /\ Borrowed /\ Drained
  BY DEF Init, Begun, Retrying, Opening, ReadyOwns, Borrowed, Drained, OpenerAt
<1> QED
  BY <1>2, <1>3, <1>4, <1>5 DEF Inv

\* Every step keeps the invariant.
LEMMA NextInv == Inv /\ [Next]_vars => Inv'
<1> SUFFICES ASSUME Inv, [Next]_vars PROVE Inv'
  OBVIOUS
<1>1. CASE UNCHANGED vars
  BY <1>1 DEF vars, Inv, TypeOK, Retrying, Acquiring, Succession, Opening, ReadyOwns, Borrowed, Drained,
              OpenerAt, AttemptsLeft, Current, Closed, LockFree
<1>2. ASSUME NEW l \in Lanes, OpenerStep(l) \/ Closing(l) PROVE Inv'
  BY <1>2, OpenerKeepsInv, DrainKeepsInv, CloseOwnerKeepsInv DEF Closing
<1>3. CASE Entering \/ EnterAgain \/ Exit \/ DrainEnds \/ CloseEnds
  BY <1>3, EnteringKeepsInv, NestingKeepsInv, StagesKeepInv
<1>4. ASSUME NEW e \in Episodes, EpisodeStep(e) PROVE Inv'
  BY <1>4, EpisodeKeepsInv
<1> QED
  BY <1>1, <1>2, <1>3, <1>4 DEF Next

\* Inv holds in every state.
THEOREM Invariance == Spec => []Inv
  BY InitInv, NextInv, PTL DEF Spec

\* The types hold.
THEOREM Typed == Spec => []TypeOK
<1>1. Inv => TypeOK
  BY DEF Inv
<1> QED
  BY <1>1, Invariance, PTL

\* A lane never holds two simulators, however its attempts fail.
THEOREM LeasesExclusive == Spec => []OneLeasePerLane
<1>1. Inv => OneLeasePerLane
  <2> SUFFICES ASSUME Inv, NEW l \in Lanes, NEW a \in Attempts, NEW b \in Attempts,
                      lease[<<l, a>>] \in {"asked", "owned", "dropped"},
                      lease[<<l, b>>] \in {"asked", "owned", "dropped"}
               PROVE  a = b
    BY DEF OneLeasePerLane
  <2>1. opener[l].attempt \in Nat /\ a \in Nat /\ b \in Nat
    BY DEF Inv, TypeOK, Openers, Attempts
  <2>2. ~(a < opener[l].attempt) /\ ~(a > opener[l].attempt)
    BY DEF Inv, Succession
  <2>3. ~(b < opener[l].attempt) /\ ~(b > opener[l].attempt)
    BY DEF Inv, Succession
  <2> QED
    BY <2>1, <2>2, <2>3
<1> QED
  BY <1>1, Invariance, PTL

\* A borrowed lane keeps its simulator, until its drain is given up.
THEOREM BorrowsKept == Spec => []BorrowKeepsRuntime
<1>1. Inv => BorrowKeepsRuntime
  <2> SUFFICES ASSUME Inv, NEW e \in Episodes, episode[e] = "inside",
                      drained[LaneOf[e]] # "late"
               PROVE  lease[Current(LaneOf[e])] = "owned"
    BY DEF BorrowKeepsRuntime
  <2>1. LaneOf[e] \in Lanes /\ OpenerAt(LaneOf[e], "ready") /\ ~LockFree(LaneOf[e])
    BY LaneOfAssumption DEF Inv, Borrowed, LockFree
  <2>2. drained[LaneOf[e]] = "no"
    BY <2>1 DEF Inv, Drained, TypeOK
  <2> QED
    BY <2>1, <2>2 DEF Inv, Drained, ReadyOwns
<1> QED
  BY <1>1, Invariance, PTL

\* A confirmed cleanup has no episode inside a lane, and every lane that had
\* become ready has been released.
THEOREM ConfirmedQuiet == Spec => []ConfirmedMeansQuiet
<1>1. Inv => ConfirmedMeansQuiet
  <2> SUFFICES ASSUME Inv, confirmed
               PROVE  /\ \A e \in Episodes : episode[e] # "inside"
                      /\ \A l \in Lanes : OpenerAt(l, "ready") => lease[Current(l)] = "released"
    BY DEF ConfirmedMeansQuiet
  <2>1. entry = "done" /\ ~errors
    BY DEF Inv, Drained
  <2>2. \A l \in Lanes : LockFree(l)
    BY <2>1 DEF Inv, Drained, TypeOK
  <2> QED
    BY <2>1, <2>2, LaneOfAssumption DEF Inv, ReadyOwns, LockFree
<1> QED
  BY <1>1, Invariance, PTL

-----------------------------------------------------------------------------
(* What remains of three claims the code does not keep: which leases a      *)
(* confirmed cleanup can leave behind, when a cancelled lane leases again,  *)
(* and what an entry that raises leaves.                                    *)

\* A release that failed while the lane had an attempt left, outside close.
MayDrop(l) == AttemptsLeft(l) /\ opener[l].pc \in {"failed", "cancelled"}

\* A lane's last lease: dropped without close's knowledge only by a release for a
\* retry; given up once close ends.
LastLease ==
  \A l \in Lanes :
    /\ lease[Current(l)] = "dropped" /\ ~errors => MayDrop(l)
    /\ entry = "done" => lease[Current(l)] # "owned"

\* OpenerSteps, with where a lane goes that drops its lease.
LEMMA OpenerDrops ==
  ASSUME Inv, LastLease, ~errors, NEW l \in Lanes, OpenerStep(l)
  PROVE  \/ \E s \in {"owned", "refused", "unknown"} : Settles(l, s)
         \/ \E p \in Points \ {"lease"}, s \in LeaseStates \ {"asked"} :
              /\ Goes(l, p, s)
              /\ s = "dropped" => AttemptsLeft(l) /\ p \in {"failed", "cancelled"}
         \/ AttemptsLeft(l) /\ \E s \in {"refused", "unknown", "released"} : Retries(l, s)
<1>1. CASE AllocationEnds(l)
  BY <1>1 DEF AllocationEnds, Inv, Acquiring, Settles
<1>2. CASE AcquireSucceeds(l)
  BY <1>2 DEF AcquireSucceeds, Running, Points, LeaseStates
<1>3. CASE AcquireFails(l)
  <2>1. lease[Current(l)] \in {"owned", "refused", "unknown"}
    BY <1>3 DEF AcquireFails, Acquired, Inv, Acquiring
  <2> QED
    BY <1>3, <2>1 DEF AcquireFails, MayRetry, Running, Points, LeaseStates
<1>4. CASE HelloSucceeds(l) \/ HelloFails(l)
  BY <1>4 DEF HelloSucceeds, HelloFails, Running, Points, LeaseStates
<1>5. CASE ReleaseSucceeds(l) \/ ReleaseFails(l)
  BY <1>5 DEF ReleaseSucceeds, ReleaseFails, Inv, Retrying, Running, Points, LeaseStates
<1>6. CASE OpenerCancelled(l)
  <2>1. lease[Current(l)] \in LeaseStates /\ lease[Current(l)] # "dropped"
    BY <1>6 DEF Inv, TypeOK, Openers, Current, LastLease, MayDrop, OpenerCancelled, Running
  <2>2. OpenerAt(l, "release") => AttemptsLeft(l)
    BY DEF Inv, Retrying
  <2> QED
    BY <1>6, <2>1, <2>2 DEF OpenerCancelled, Running, Points, LeaseStates
<1> QED
  BY <1>1, <1>2, <1>3, <1>4, <1>5, <1>6 DEF OpenerStep

\* A lane that opens keeps LastLease.
LEMMA OpenerKeepsLast ==
  ASSUME Inv, LastLease, NEW l \in Lanes, OpenerStep(l)
  PROVE  LastLease'
<1>1. entry' # "done" /\ UNCHANGED errors
  BY OpenerSteps DEF Inv, Opening, poolVars
<1> SUFFICES ASSUME NEW k \in Lanes, ~errors
             PROVE  lease'[Current(k)'] = "dropped" => MayDrop(k)'
  BY <1>1 DEF LastLease
<1>2. lease[Current(k)] = "dropped" => MayDrop(k)
  BY DEF LastLease
<1>3. Current(k) \in Lanes \X Attempts /\ (k # l => Current(k) # Current(l))
  BY DEF Current, Inv, TypeOK, Openers
<1>4. ASSUME NEW s \in {"owned", "refused", "unknown"}, Settles(l, s)
      PROVE  lease'[Current(k)'] = "dropped" => MayDrop(k)'
  <2>1. Current(k)' = Current(k) /\ (MayDrop(k)' <=> MayDrop(k))
    BY <1>4 DEF Settles, Current, MayDrop, AttemptsLeft
  <2>2. lease'[Current(k)] = IF Current(k) = Current(l) THEN s ELSE lease[Current(k)]
    BY <1>3, <1>4 DEF Settles, Inv, TypeOK
  <2> QED
    BY <1>2, <2>1, <2>2
<1>5. ASSUME NEW p \in Points \ {"lease"}, NEW s \in LeaseStates \ {"asked"}, Goes(l, p, s),
             s = "dropped" => AttemptsLeft(l) /\ p \in {"failed", "cancelled"}
      PROVE  lease'[Current(k)'] = "dropped" => MayDrop(k)'
  <2>1. /\ opener'[k].pc = IF k = l THEN p ELSE opener[k].pc
        /\ opener'[k].attempt = opener[k].attempt
        /\ lease'[Current(k)] = IF Current(k) = Current(l) THEN s ELSE lease[Current(k)]
    BY <1>3, <1>5, GoesPointwise DEF Inv
  <2>2. Current(k)' = Current(k) /\ (AttemptsLeft(k)' <=> AttemptsLeft(k))
    BY <2>1 DEF Current, AttemptsLeft
  <2>3. CASE k = l
    BY <1>5, <2>1, <2>2, <2>3 DEF MayDrop
  <2>4. CASE k # l
    BY <1>2, <1>3, <2>1, <2>2, <2>4 DEF MayDrop
  <2> QED
    BY <2>3, <2>4
<1>6. ASSUME AttemptsLeft(l), NEW s \in {"refused", "unknown", "released"}, Retries(l, s)
      PROVE  lease'[Current(k)'] = "dropped" => MayDrop(k)'
  <2>1. /\ opener[l].attempt + 1 \in Attempts
        /\ IF k = l THEN /\ opener'[k].pc = "lease"
                         /\ opener'[k].attempt = opener[k].attempt + 1
                    ELSE opener'[k] = opener[k]
        /\ \A r \in Lanes \X Attempts :
             lease'[r] = IF r = <<l, opener[l].attempt + 1>> THEN "asked"
                         ELSE IF r = Current(l) THEN s ELSE lease[r]
    <3>1. s \in LeaseStates
      BY DEF LeaseStates
    <3> QED
      BY <1>6, <3>1, RetriesPointwise DEF Inv
  <2>2. CASE k = l
    <3>1. Current(k)' = <<l, opener[l].attempt + 1>>
      BY <2>1, <2>2 DEF Current
    <3> QED
      BY <2>1, <2>2, <3>1
  <2>3. CASE k # l
    <3>1. Current(k)' = Current(k) /\ Current(k) # <<l, opener[l].attempt + 1>>
      BY <2>1, <2>3 DEF Current
    <3>2. lease'[Current(k)] = lease[Current(k)]
      BY <1>3, <2>1, <2>3, <3>1
    <3> QED
      BY <1>2, <2>1, <2>3, <3>1, <3>2 DEF MayDrop, AttemptsLeft
  <2> QED
    BY <2>2, <2>3
<1> QED
  BY <1>4, <1>5, <1>6, OpenerDrops

\* Every step keeps LastLease.
LEMMA LastLeaseNext == Inv /\ LastLease /\ [Next]_vars => LastLease'
<1> SUFFICES ASSUME Inv, LastLease, [Next]_vars PROVE LastLease'
  OBVIOUS
<1>1. ASSUME NEW l \in Lanes, OpenerStep(l) PROVE LastLease'
  BY <1>1, OpenerKeepsLast
<1>2. ASSUME NEW l \in Lanes, CloseOwner(l) PROVE LastLease'
  <2>1. /\ entry = "releasing" /\ UNCHANGED <<opener, entry>>
        /\ lease[Current(l)] = "owned"
    BY <1>2 DEF CloseOwner
  <2>2. PICK s \in {"released", "dropped"} :
          /\ lease' = [lease EXCEPT ![Current(l)] = s]
          /\ errors' \in {errors, TRUE}
          /\ s = "dropped" => errors' = TRUE
    BY <1>2 DEF CloseOwner
  <2>3. \A k \in Lanes : Current(k)' = Current(k) /\ Current(k) \in Lanes \X Attempts
    BY <2>1 DEF Current, Inv, TypeOK, Openers
  <2>4. \A r \in Lanes \X Attempts : lease'[r] = IF r = Current(l) THEN s ELSE lease[r]
    BY <2>2 DEF Inv, TypeOK
  <2>5. ~errors' => ~errors /\ s = "released"
    BY <2>2 DEF Inv, TypeOK
  <2>6. \A k \in Lanes : MayDrop(k)' <=> MayDrop(k)
    BY <2>1 DEF MayDrop, AttemptsLeft
  <2> QED
    BY <2>1, <2>2, <2>3, <2>4, <2>5, <2>6 DEF LastLease
<1>3. ASSUME NEW l \in Lanes, DrainLane(l) \/ DrainTimesOut(l) PROVE LastLease'
  <2>1. UNCHANGED <<opener, lease, entry>> /\ errors' \in {errors, TRUE}
    BY <1>3 DEF DrainLane, DrainTimesOut
  <2> QED
    BY <2>1 DEF LastLease, Current, MayDrop, AttemptsLeft, Inv, TypeOK
<1>4. CASE Entering
  <2>1. /\ UNCHANGED <<lease, errors>> /\ entry' # "done"
        /\ CancelOpeners \/ UNCHANGED opener
    BY <1>4 DEF Entering, Interrupt, StartupTimesOut, OpenSucceeds, OpenFails, InterruptJoin, JoinEnds
  <2>2. \A l \in Lanes : opener'[l].pc = opener[l].pc /\ opener'[l].attempt = opener[l].attempt
    BY <2>1, CancelOpenersPointwise DEF Inv
  <2> QED
    BY <2>1, <2>2 DEF LastLease, Current, MayDrop, AttemptsLeft
<1>5. CASE CloseEnds
  BY <1>5 DEF CloseEnds, LastLease, Current, MayDrop, AttemptsLeft
<1>6. CASE \/ EnterAgain \/ Exit \/ DrainEnds
           \/ \E e \in Episodes : EpisodeStep(e)
           \/ UNCHANGED vars
  <2>1. UNCHANGED <<opener, lease, errors>> /\ (entry' = "done" => entry = "done")
    BY <1>6 DEF EnterAgain, Exit, DrainEnds, EpisodeStep, BorrowStarts, Borrow, BorrowRefused,
                EpisodeEnds, Moves, vars
  <2> QED
    BY <2>1 DEF LastLease, Current, MayDrop, AttemptsLeft
<1> QED
  BY <1>1, <1>2, <1>3, <1>4, <1>5, <1>6 DEF Next, Closing

LEMMA LastLeaseInvariant == Spec => []LastLease
<1>1. ASSUME Init PROVE LastLease
  <2>1. 1 \in Attempts
    BY AttemptsAssumption DEF Attempts
  <2>2. \A l \in Lanes : Current(l) = <<l, 1>> /\ lease[<<l, 1>>] = "asked"
    BY <1>1, <2>1 DEF Init, Begun, Current
  <2> QED
    BY <1>1, <2>2 DEF LastLease
<1> QED
  BY <1>1, LastLeaseNext, Invariance, PTL DEF Spec

\* When close begins or entry has raised no allocation is under way, and close leaves
\* no lease held.
THEOREM NoLateLeases == Spec => []NoLateLease
<1>1. Inv /\ LastLease => NoLateLease
  <2> SUFFICES ASSUME Inv, LastLease, NEW l \in Lanes, NEW a \in Attempts
               PROVE  /\ Closed \/ entry = "failed" => lease[<<l, a>>] # "asked"
                      /\ entry = "done" => lease[<<l, a>>] # "owned"
    BY DEF NoLateLease
  <2>1. CASE a = opener[l].attempt
    <3>1. <<l, a>> = Current(l)
      BY <2>1 DEF Current
    <3>2. Closed \/ entry = "failed" => ~OpenerAt(l, "lease")
      BY DEF Inv, Opening, OpenerAt, Running, Closed
    <3> QED
      BY <3>1, <3>2 DEF Inv, Acquiring, LastLease
  <2>2. CASE a # opener[l].attempt
    <3>1. opener[l].attempt \in Nat /\ a \in Nat
      BY DEF Inv, TypeOK, Openers, Attempts
    <3>2. a < opener[l].attempt \/ a > opener[l].attempt
      BY <2>2, <3>1
    <3> QED
      BY <3>2 DEF Inv, Succession
  <2> QED
    BY <2>1, <2>2
<1> QED
  BY <1>1, LastLeaseInvariant, Invariance, PTL

\* What a confirmed cleanup can have left: nothing is being leased and the pool owns
\* nothing; only a lane that failed, or was cancelled, while it released a lease to lease
\* again can have dropped one, its last, without close knowing of it.
ConfirmedLeavesDropped ==
  confirmed => \A l \in Lanes : \A a \in Attempts :
    /\ lease[<<l, a>>] \notin {"asked", "owned"}
    /\ lease[<<l, a>>] = "dropped" => a = opener[l].attempt /\ MayDrop(l)

\* That is all a confirmed cleanup leaves behind.
THEOREM ConfirmedLeavings == Spec => []ConfirmedLeavesDropped
<1>1. Inv /\ LastLease => ConfirmedLeavesDropped
  <2> SUFFICES ASSUME Inv, LastLease, confirmed, NEW l \in Lanes, NEW a \in Attempts
               PROVE  /\ lease[<<l, a>>] \notin {"asked", "owned"}
                      /\ lease[<<l, a>>] = "dropped" => a = opener[l].attempt /\ MayDrop(l)
    BY DEF ConfirmedLeavesDropped
  <2>1. entry = "done" /\ ~errors
    BY DEF Inv, Drained
  <2>2. opener[l].pc # "lease"
    BY <2>1 DEF Inv, Opening, Running
  <2>3. opener[l].attempt \in Nat /\ a \in Nat
    BY DEF Inv, TypeOK, Openers, Attempts
  <2>4. a = opener[l].attempt \/ a < opener[l].attempt \/ a > opener[l].attempt
    BY <2>3
  <2>5. a # opener[l].attempt => lease[<<l, a>>] \in {"none", "refused", "unknown", "released"}
    BY <2>4 DEF Inv, Succession
  <2>6. a = opener[l].attempt => <<l, a>> = Current(l)
    BY DEF Current
  <2> QED
    BY <2>1, <2>2, <2>5, <2>6 DEF Inv, Acquiring, LastLease, OpenerAt
<1> QED
  BY <1>1, LastLeaseInvariant, Invariance, PTL

\* Retrying is the whole cause of pool_confirm's violation: with one attempt for each
\* lane a confirmed cleanup has released every lease.
THEOREM ConfirmedReleases ==
  ASSUME MaxAttempts = 1
  PROVE  Spec => []ConfirmedMeansReleased
<1>1. TypeOK /\ ConfirmedLeavesDropped => ConfirmedMeansReleased
  <2> SUFFICES ASSUME TypeOK, ConfirmedLeavesDropped, confirmed, NEW r \in Lanes \X Attempts
               PROVE  lease[r] \notin {"owned", "dropped"}
    BY DEF ConfirmedMeansReleased
  <2>1. PICK l \in Lanes, a \in Attempts : r = <<l, a>>
    OBVIOUS
  <2>2. ~MayDrop(l)
    BY DEF MayDrop, AttemptsLeft, TypeOK, Openers, Attempts
  <2> QED
    BY <2>1, <2>2 DEF ConfirmedLeavesDropped
<1> QED
  BY <1>1, Typed, ConfirmedLeavings, PTL

\* A cancelled lane leases again only by a retry after its shielded acquisition absorbed
\* the cancellation and raised: it had no lease, or one whose evidence it could not write,
\* and which it has released.
CancelledLeasesOnlyLate ==
  [][\A l \in Lanes :
       (opener[l].cancelled \/ opener[l].absorbed) /\ opener'[l].attempt # opener[l].attempt =>
         /\ Shielded /\ opener[l].absorbed /\ AttemptsLeft(l)
         /\ \/ OpenerAt(l, "lease") /\ lease[Current(l)] \in {"refused", "unknown"}
            \/ OpenerAt(l, "release") /\ lease'[Current(l)] = "released"]_vars

\* A lane's attempts advance only by its own retries.
LEMMA AttemptAdvances ==
  ASSUME Inv, [Next]_vars, NEW l \in Lanes, opener'[l].attempt # opener[l].attempt
  PROVE  /\ AttemptsLeft(l) /\ ~opener[l].cancelled
         /\ \E s \in {"refused", "unknown", "released"} : Retries(l, s)
         /\ \/ OpenerAt(l, "lease") /\ lease[Current(l)] \in {"refused", "unknown"}
            \/ OpenerAt(l, "release") /\ Retries(l, "released")
<1>1. ASSUME NEW k \in Lanes, OpenerStep(k)
      PROVE  /\ AttemptsLeft(l) /\ ~opener[l].cancelled
             /\ \E s \in {"refused", "unknown", "released"} : Retries(l, s)
             /\ \/ OpenerAt(l, "lease") /\ lease[Current(l)] \in {"refused", "unknown"}
                \/ OpenerAt(l, "release") /\ Retries(l, "released")
  <2>1. \A p \in Points, s \in LeaseStates : ~Goes(k, p, s)
    BY GoesPointwise DEF Inv
  <2>2. AttemptsLeft(k) /\ \E s \in {"refused", "unknown", "released"} : Retries(k, s)
    BY <1>1, <2>1, OpenerSteps DEF Inv, Settles
  <2>3. k = l
    BY <2>2, RetriesPointwise DEF Inv, LeaseStates
  <2>4. \A s \in LeaseStates :
          /\ ~Goes(k, "hello", s) /\ ~Goes(k, "cancelled", s) /\ ~Goes(k, "failed", s)
          /\ ~Goes(k, "ready", s) /\ ~Goes(k, "release", s)
    BY <2>1 DEF Points, Running
  <2>5. AcquireFails(k) \/ ReleaseSucceeds(k)
    <3>1. ~AllocationEnds(k)
      BY <2>3 DEF AllocationEnds
    <3>2. ~AcquireSucceeds(k)
      BY <2>4 DEF AcquireSucceeds, LeaseStates
    <3>3. ~HelloSucceeds(k) /\ ~HelloFails(k) /\ ~ReleaseFails(k)
      BY <2>4 DEF HelloSucceeds, HelloFails, ReleaseFails, LeaseStates
    <3>4. ~OpenerCancelled(k)
      <4>1. lease[Current(k)] \in LeaseStates
        BY DEF Inv, TypeOK, Openers, Current
      <4>2. OpenerCancelled(k) => \E s \in LeaseStates : Goes(k, "cancelled", s)
        BY <4>1 DEF OpenerCancelled, LeaseStates
      <4> QED
        BY <2>4, <4>2
    <3> QED
      BY <1>1, <3>1, <3>2, <3>3, <3>4 DEF OpenerStep
  <2>6. CASE AcquireFails(k)
    <3>1. OpenerAt(k, "lease") /\ ~opener[k].cancelled
      BY <2>6 DEF AcquireFails, Acquired
    <3>2. lease[Current(k)] \in {"owned", "refused", "unknown"}
      BY <2>6 DEF AcquireFails, Acquired, Inv, Acquiring
    <3>3. lease[Current(k)] # "owned"
      BY <2>4, <2>6, <3>2 DEF AcquireFails, LeaseStates
    <3> QED
      BY <2>2, <2>3, <3>1, <3>2, <3>3
  <2>7. CASE ReleaseSucceeds(k)
    BY <2>2, <2>3, <2>7 DEF ReleaseSucceeds
  <2> QED
    BY <2>5, <2>6, <2>7
<1>2. CASE Entering
  <2>1. CancelOpeners \/ UNCHANGED opener
    BY <1>2 DEF Entering, Interrupt, StartupTimesOut, OpenSucceeds, OpenFails, InterruptJoin, JoinEnds
  <2> QED
    BY <2>1, CancelOpenersPointwise DEF Inv
<1>3. CASE \/ \E k \in Lanes : Closing(k)
           \/ EnterAgain \/ Exit \/ DrainEnds \/ CloseEnds
           \/ \E e \in Episodes : EpisodeStep(e)
           \/ UNCHANGED vars
  BY <1>3 DEF Closing, DrainLane, DrainTimesOut, CloseOwner, EnterAgain, Exit, DrainEnds, CloseEnds,
              EpisodeStep, BorrowStarts, Borrow, BorrowRefused, EpisodeEnds, Moves, vars
<1> QED
  BY <1>1, <1>2, <1>3 DEF Next

\* Only the loop around a shielded acquisition absorbs a cancellation.
OnlyShieldAbsorbs == \A l \in Lanes : opener[l].absorbed => Shielded

LEMMA ShieldAbsorbs == Spec => []OnlyShieldAbsorbs
<1>1. Init => OnlyShieldAbsorbs
  BY DEF Init, Begun, OnlyShieldAbsorbs
<1>2. ASSUME Inv, OnlyShieldAbsorbs, [Next]_vars PROVE OnlyShieldAbsorbs'
  <2> SUFFICES ASSUME NEW l \in Lanes PROVE opener'[l].absorbed => opener[l].absorbed \/ Shielded
    BY <1>2 DEF OnlyShieldAbsorbs
  <2>1. ASSUME NEW k \in Lanes, OpenerStep(k)
        PROVE  opener'[l].absorbed => opener[l].absorbed
    <3>1. ASSUME NEW p \in Points, NEW s \in LeaseStates, Goes(k, p, s)
          PROVE  opener'[l].absorbed => opener[l].absorbed
      BY <1>2, <3>1, GoesPointwise DEF Inv
    <3>2. ASSUME AttemptsLeft(k), NEW s \in {"refused", "unknown", "released"}, Retries(k, s)
          PROVE  opener'[l].absorbed => opener[l].absorbed
      <4>1. s \in LeaseStates
        BY DEF LeaseStates
      <4> QED
        BY <1>2, <3>2, <4>1, RetriesPointwise DEF Inv
    <3> QED
      BY <1>2, <2>1, <3>1, <3>2, OpenerSteps DEF Inv, Settles
  <2>2. CASE Entering
    <3>1. CancelOpeners \/ UNCHANGED opener
      BY <2>2 DEF Entering, Interrupt, StartupTimesOut, OpenSucceeds, OpenFails, InterruptJoin,
                  JoinEnds
    <3> QED
      BY <1>2, <3>1, CancelOpenersPointwise DEF Inv
  <2>3. CASE \/ \E k \in Lanes : Closing(k)
             \/ EnterAgain \/ Exit \/ DrainEnds \/ CloseEnds
             \/ \E e \in Episodes : EpisodeStep(e)
             \/ UNCHANGED vars
    BY <2>3 DEF Closing, DrainLane, DrainTimesOut, CloseOwner, EnterAgain, Exit, DrainEnds,
                CloseEnds, EpisodeStep, BorrowStarts, Borrow, BorrowRefused, EpisodeEnds, Moves, vars
  <2> QED
    BY <1>2, <2>1, <2>2, <2>3 DEF Next
<1> QED
  BY <1>1, <1>2, Invariance, PTL DEF Spec

\* What remains of a lane that a cancellation stops for good.
THEOREM LateLeases == Spec => CancelledLeasesOnlyLate
<1>1. ASSUME Inv, OnlyShieldAbsorbs, [Next]_vars, NEW l \in Lanes,
             opener[l].cancelled \/ opener[l].absorbed, opener'[l].attempt # opener[l].attempt
      PROVE  /\ Shielded /\ opener[l].absorbed /\ AttemptsLeft(l)
             /\ \/ OpenerAt(l, "lease") /\ lease[Current(l)] \in {"refused", "unknown"}
                \/ OpenerAt(l, "release") /\ lease'[Current(l)] = "released"
  <2>1. Shielded /\ opener[l].absorbed /\ AttemptsLeft(l)
    BY <1>1, AttemptAdvances DEF OnlyShieldAbsorbs
  <2>2. Retries(l, "released") => lease'[Current(l)] = "released"
    <3>1. Current(l) \in Lanes \X Attempts /\ Current(l) # <<l, opener[l].attempt + 1>>
      BY <1>1 DEF Current, Inv, TypeOK, Openers, Attempts
    <3> QED
      BY <1>1, <2>1, <3>1, RetriesPointwise DEF Inv, LeaseStates
  <2> QED
    BY <1>1, <2>1, <2>2, AttemptAdvances
<1>2. Inv /\ OnlyShieldAbsorbs /\ [Next]_vars =>
        [\A l \in Lanes :
           (opener[l].cancelled \/ opener[l].absorbed) /\ opener'[l].attempt # opener[l].attempt =>
             /\ Shielded /\ opener[l].absorbed /\ AttemptsLeft(l)
             /\ \/ OpenerAt(l, "lease") /\ lease[Current(l)] \in {"refused", "unknown"}
                \/ OpenerAt(l, "release") /\ lease'[Current(l)] = "released"]_vars
  BY <1>1
<1> QED
  BY <1>2, ShieldAbsorbs, Invariance, PTL DEF Spec, CancelledLeasesOnlyLate

\* Without the shield, or with one attempt for each lane, a cancelled lane leases nothing
\* more.
THEOREM CancelledLeases ==
  ASSUME ~Shielded \/ MaxAttempts = 1
  PROVE  Spec => CancelledLeasesNothing
<1>1. Inv /\ OnlyShieldAbsorbs /\ [Next]_vars =>
        [\A l \in Lanes : opener[l].cancelled \/ opener[l].absorbed =>
                            opener'[l].attempt = opener[l].attempt]_vars
  <2> SUFFICES ASSUME Inv, OnlyShieldAbsorbs, [Next]_vars, NEW l \in Lanes,
                      opener[l].cancelled \/ opener[l].absorbed,
                      opener'[l].attempt # opener[l].attempt
               PROVE  FALSE
    OBVIOUS
  <2>1. AttemptsLeft(l) /\ ~opener[l].cancelled
    BY AttemptAdvances
  <2>2. Shielded
    BY <2>1 DEF OnlyShieldAbsorbs
  <2>3. MaxAttempts # 1
    BY <2>1 DEF AttemptsLeft, Inv, TypeOK, Openers, Attempts
  <2> QED
    BY <2>2, <2>3
<1> QED
  BY <1>1, ShieldAbsorbs, Invariance, PTL DEF Spec, CancelledLeasesNothing

\* The finding of pool_entry, delimited: an entry raises without close only when its join was
\* interrupted. Nothing is being leased then, and every lane that had become ready is left
\* with its simulator.
FailedEntryLeaves ==
  entry = "failed" => /\ interrupted
                      /\ \A l \in Lanes : /\ lease[Current(l)] # "asked"
                                          /\ OpenerAt(l, "ready") => lease[Current(l)] = "owned"

\* Nothing the pool does later gives them back.
FailedEntryFinal == [][entry = "failed" => UNCHANGED <<entry, lease>>]_vars

\* So an entry fails only by interruption, and what it leaves leased stays leased.
THEOREM FailedEntries == Spec => []FailedEntryLeaves /\ FailedEntryFinal
<1> DEFINE Raised == entry = "failed" => interrupted
<1>1. Init => Raised
  BY DEF Init
<1>2. ASSUME Inv, [Next]_vars
      PROVE  [entry = "failed" => UNCHANGED <<entry, interrupted, lease>>]_vars
  <2> SUFFICES ASSUME Next, entry = "failed" PROVE UNCHANGED <<entry, interrupted, lease>>
    BY <1>2
  <2>1. \A l \in Lanes : ~OpenerStep(l)
    BY <1>2, OpenerSteps DEF Inv, Opening
  <2>2. ~Entering /\ ~EnterAgain /\ ~Exit /\ ~DrainEnds /\ ~CloseEnds
    BY DEF Entering, Interrupt, StartupTimesOut, OpenSucceeds, OpenFails, InterruptJoin, JoinEnds,
           EnterAgain, Exit, DrainEnds, CloseEnds
  <2>3. \A l \in Lanes : ~Closing(l)
    BY DEF Closing, DrainLane, DrainTimesOut, CloseOwner
  <2>4. ASSUME NEW e \in Episodes, EpisodeStep(e) PROVE UNCHANGED <<entry, interrupted, lease>>
    BY <2>4 DEF EpisodeStep, BorrowStarts, Borrow, BorrowRefused, EpisodeEnds, Moves
  <2> QED
    BY <2>1, <2>2, <2>3, <2>4 DEF Next
<1>3. ASSUME Inv, Raised, [Next]_vars PROVE Raised'
  <2>1. CASE entry = "failed"
    BY <1>2, <1>3, <2>1 DEF vars
  <2>2. CASE entry # "failed" /\ entry' = "failed"
    <3>1. JoinEnds /\ interrupted
      <4>1. \A l \in Lanes : OpenerStep(l) \/ Closing(l) => UNCHANGED entry
        BY <1>3, OpenerSteps DEF Inv, poolVars, Closing, DrainLane, DrainTimesOut, CloseOwner
      <4>2. \A e \in Episodes : EpisodeStep(e) => UNCHANGED entry
        BY DEF EpisodeStep, BorrowStarts, Borrow, BorrowRefused, EpisodeEnds, Moves
      <4>3. ~EnterAgain /\ ~Exit /\ ~DrainEnds /\ ~CloseEnds
        BY <2>2 DEF EnterAgain, Exit, DrainEnds, CloseEnds
      <4> QED
        BY <1>3, <2>2, <4>1, <4>2, <4>3
        DEF Next, Entering, Interrupt, StartupTimesOut, OpenSucceeds, OpenFails, InterruptJoin,
            JoinEnds, vars
    <3> QED
      BY <3>1 DEF JoinEnds
  <2> QED
    BY <2>1, <2>2
<1>4. Inv /\ Raised => FailedEntryLeaves
  BY DEF Inv, Acquiring, Opening, ReadyOwns, FailedEntryLeaves, OpenerAt, Running
<1>5. Inv /\ [Next]_vars => [entry = "failed" => UNCHANGED <<entry, lease>>]_vars
  BY <1>2
<1>6. Inv /\ Raised /\ [Next]_vars => Raised'
  BY <1>3
<1> QED
  BY <1>1, <1>4, <1>5, <1>6, Invariance, PTL DEF Spec, FailedEntryFinal
====
