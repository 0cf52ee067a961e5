------------------------------ MODULE MCColdRun ------------------------------
(***************************************************************************)
(* TLC instance of ColdRun: workers are interchangeable, for the runs that *)
(* check no liveness property.                                             *)
(***************************************************************************)
EXTENDS ColdRun, TLC

WorkerSymmetry == Permutations(Workers)
==============================================================================
