---- MODULE MCCampaign ----
(* Two invocations: a qualification and a cell to be measured, in any mix.   *)
EXTENDS CampaignRun

CONSTANTS p1, p2, nobody, l1, l2, s1, o1, o2

MCCaps == [c \in Categories |-> IF c = "qualification" THEN 13
                                ELSE IF c = "vla" THEN 25
                                ELSE IF c = "wam" THEN 10 ELSE 2]

Qualification == [kind |-> "qualification", setup |-> s1, liability |-> 6,
                  estimate |-> 0, output |-> o1]
Scored == [kind |-> "scored", setup |-> s1, liability |-> 2, estimate |-> 3,
           output |-> o2]
MCConfigs == {[p \in Procs |-> IF p = p1 THEN Qualification ELSE Scored],
              [p \in Procs |-> IF p = p1 THEN Qualification
                               ELSE [Qualification EXCEPT !.output = o2]]}

\* Both categories are near what they may use of the shared contingency.
MCPriorSpent == {[c \in Categories |-> IF c = "qualification" THEN 11
                                       ELSE IF c = "vla" THEN 28 ELSE 0]}
====
