-------------------------- MODULE MCScenarioSuite --------------------------
(* Instances of ScenarioSuite for TLC. *)
EXTENDS ScenarioSuite

NoneOrBreach == AllBreaches \cup {"none"}
=============================================================================
