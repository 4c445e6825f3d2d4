---- MODULE MCRobots ----
(* The two programs that drive robots through HUD's own runner. They never   *)
(* run together: a behaviour is one of the one or of the other.              *)
EXTENDS ScalarAgent, RobolabWave, TLC

CONSTANTS e1, e2, e3, Programs

VARIABLE program

Init == program \in Programs /\ ScalarInit /\ WaveInit

Next ==
  \/ program = "scalar" /\ ScalarNext /\ UNCHANGED <<program, waveVars>>
  \/ program = "robolab" /\ WaveNext /\ UNCHANGED <<program, scalarVars>>

Spec == Init /\ [][Next]_<<program, scalarVars, waveVars>>

TypeOK == program \in Programs /\ ScalarTypeOK /\ WaveTypeOK

Symmetry == Permutations(Episodes)
====
