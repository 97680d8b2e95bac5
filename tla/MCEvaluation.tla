---------------------------- MODULE MCEvaluation ----------------------------
(* Three wirings, and a score above the threshold beside those of a failed *)
(* evaluation.                                                             *)
EXTENDS Evaluation

MCWirings == {"committed", "onPath", "intended"}
MCScores  == {90}
=============================================================================
