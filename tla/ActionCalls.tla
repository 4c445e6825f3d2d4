---- MODULE ActionCalls ----
(***************************************************************************)
(* What PooledProvider.predict promises its caller, slot by slot: a call   *)
(* is inferred at most once, its result says truly whether it was, and a   *)
(* slot that is free again owes nothing: only a dead (fenced) slot may     *)
(* still see its last call executed late.                                  *)
(***************************************************************************)
EXTENDS Naturals

CONSTANTS Slots, MaxCalls

Calls == 1..MaxCalls

VARIABLES
  phase,      \* what a slot is: "free", "busy" or "dead"
  last,       \* number of the last call begun on a slot
  inferred,   \* has this call been executed by the model?
  result      \* what the call gave its caller

absVars == <<phase, last, inferred, result>>

AbsTypeOK ==
  /\ phase \in [Slots -> {"free", "busy", "dead"}]
  /\ last \in [Slots -> 0..MaxCalls]
  /\ inferred \in [Slots \X Calls -> BOOLEAN]
  /\ result \in [Slots \X Calls -> {"none", "actions", "failed", "cancelled", "error"}]

AbsInit ==
  /\ phase = [s \in Slots |-> "free"]
  /\ last = [s \in Slots |-> 0]
  /\ inferred = [c \in Slots \X Calls |-> FALSE]
  /\ result = [c \in Slots \X Calls |-> "none"]

\* A call begins on a free slot only.
BeginCall(s) ==
  /\ phase[s] = "free"
  /\ last[s] < MaxCalls
  /\ phase' = [phase EXCEPT ![s] = "busy"]
  /\ last' = [last EXCEPT ![s] = @ + 1]
  /\ UNCHANGED <<inferred, result>>

\* The model executes the slot's last call, once, while the call runs or,
\* when nobody knows its fate, after the slot died.
Infer(s) ==
  /\ phase[s] \in {"busy", "dead"}
  /\ last[s] > 0
  /\ ~inferred[<<s, last[s]>>]
  /\ result[<<s, last[s]>>] \notin {"actions", "failed"}
  /\ inferred' = [inferred EXCEPT ![<<s, last[s]>>] = TRUE]
  /\ UNCHANGED <<phase, last, result>>

\* The call ends: actions only if it was executed, a failure only if not.
EndCall(s, how) ==
  /\ phase[s] \in {"busy", "dead"}
  /\ last[s] > 0
  /\ result[<<s, last[s]>>] = "none"
  /\ how = "actions" => inferred[<<s, last[s]>>]
  /\ how = "failed" => ~inferred[<<s, last[s]>>]
  /\ result' = [result EXCEPT ![<<s, last[s]>>] = how]
  /\ phase' \in {[phase EXCEPT ![s] = IF @ = "dead" THEN "dead" ELSE "free"],
                 [phase EXCEPT ![s] = "dead"]}
  /\ UNCHANGED <<last, inferred>>

\* Slots die for good: one of them, or all at once when authority is lost.
Die ==
  /\ \E dead \in SUBSET Slots :
       phase' = [s \in Slots |-> IF s \in dead THEN "dead" ELSE phase[s]]
  /\ UNCHANGED <<last, inferred, result>>

AbsNext ==
  \/ \E s \in Slots : BeginCall(s) \/ Infer(s)
  \/ \E s \in Slots, how \in {"actions", "failed", "cancelled", "error"} : EndCall(s, how)
  \/ Die

AbsSpec == AbsInit /\ [][AbsNext]_absVars
====
