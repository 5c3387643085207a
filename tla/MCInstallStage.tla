---------------------------- MODULE MCInstallStage ----------------------------
(* Instances of InstallStage for TLC: step.sh and hdrun.sh. *)
EXTENDS InstallStage
==============================================================================
