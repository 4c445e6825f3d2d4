---- MODULE MCPooledPredict ----
(***************************************************************************)
(* Instances of PooledPredict for TLC. Drivers t1 and t2 share slot s1, as *)
(* when a lane's next episode starts while the cancelled one still unwinds; *)
(* driver t3 has slot s2 to itself.                                        *)
(***************************************************************************)
EXTENDS PooledPredict

CONSTANTS s1, s2, t1, t2, t3

MCSlotOf == [t \in Tasks |-> IF t = t3 THEN s2 ELSE s1]
====
