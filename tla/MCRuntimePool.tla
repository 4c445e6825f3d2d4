---- MODULE MCRuntimePool ----
(***************************************************************************)
(* Instances of RuntimePool for TLC: episodes e1 and e2 compete for lane    *)
(* l1, and e3 has lane l2 to itself.                                        *)
(***************************************************************************)
EXTENDS RuntimePool

CONSTANTS l1, l2, e1, e2, e3

MCLaneOf == [e \in Episodes |-> IF e = e3 THEN l2 ELSE l1]
====
