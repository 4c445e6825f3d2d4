---- MODULE PaidResource ----
(***************************************************************************)
(* What the owner of a rented resource (a deployment, a simulator session) *)
(* promises whoever pays for it: it is rented at most once, and once the   *)
(* owner has confirmed its end it neither runs nor ever comes up. An owner *)
(* that cannot know reports that instead.                                  *)
(***************************************************************************)

VARIABLES
  resource,   \* "none", "live" or "ended"
  report      \* "open", then "confirmed" or "uncertain"

paidVars == <<resource, report>>

PaidInit == resource = "none" /\ report = "open"

\* It may come up late, but not after a confirmed end.
Allocate ==
  /\ resource = "none"
  /\ report # "confirmed"
  /\ resource' = "live"
  /\ UNCHANGED report

End ==
  /\ resource = "live"
  /\ resource' = "ended"
  /\ UNCHANGED report

Confirm ==
  /\ report = "open"
  /\ resource # "live"
  /\ report' = "confirmed"
  /\ UNCHANGED resource

GiveUp ==
  /\ report = "open"
  /\ report' = "uncertain"
  /\ UNCHANGED resource

PaidSpec == PaidInit /\ [][Allocate \/ End \/ Confirm \/ GiveUp]_paidVars
====
