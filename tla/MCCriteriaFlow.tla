---------------------------- MODULE MCCriteriaFlow ----------------------------
(* An instance of CriteriaFlow for TLC.                                      *)
EXTENDS CriteriaFlow
=============================================================================
