------------------------------ MODULE MCEngine ------------------------------
(* The programs of MCComLocal that need no fairness, in one state space:   *)
(* the initial state chooses the scenario, and every step is one of the    *)
(* ComLocal whose programs are those of the scenario.  In the scenario     *)
(* with faults t2 calls nothing, and takes no step: not even a kill.  The  *)
(* configuration names the programs of that scenario, whose robust thread  *)
(* t1 the properties of the waits are about in all of them.                *)
EXTENDS MCComLocal

VARIABLE scenario

(* What MatchesLikeMpiAlways assumes holds of these programs. *)
ASSUME SturdyReceivers == Receivers

Pt2Pt  == INSTANCE ComLocal WITH Calls <- CallsPt2Pt, MaxOps <- OpsPt2Pt,
                                 Sends <- SendsPt2Pt, Wants <- WantsPt2Pt, Faults <- {}
Tests  == INSTANCE ComLocal WITH Calls <- CallsTests, MaxOps <- OpsTests,
                                 Sends <- SendsTests, Wants <- WantsTests, Faults <- {}
Probes == INSTANCE ComLocal WITH Calls <- CallsProbe, MaxOps <- OpsProbe,
                                 Sends <- SendsProbe, Wants <- WantsProbe, Faults <- {}
Faulty == INSTANCE ComLocal WITH Calls <- CallsFaults, MaxOps <- OpsFaults,
                                 Sends <- SendsFaults, Wants <- WantsFaults,
                                 Faults <- FaultNames

EngineInit == Init /\ scenario \in {"pt2pt", "tests", "probes", "faults"}

EngineNext ==
  /\ UNCHANGED scenario
  /\ \/ scenario = "pt2pt"  /\ Pt2Pt!Next
     \/ scenario = "tests"  /\ Tests!Next
     \/ scenario = "probes" /\ Probes!Next
     \/ /\ scenario = "faults"
        /\ \E t \in {t1, t3} : Faulty!Inside(t) \/ Faulty!Program(t) \/ Faulty!Fault(t)

EngineSpec == EngineInit /\ [][EngineNext]_<<vars, scenario>>
=============================================================================
