------------------------------ MODULE MCWarmPool ------------------------------
(***************************************************************************)
(* WarmPool on small instances.  Turns and sessions are interchangeable;   *)
(* workers are not, since only some of them sweep.  Safety runs only.      *)
(***************************************************************************)
EXTENDS WarmPool, TLC

Interchangeable == Permutations(Turns) \union Permutations(Sessions)
=============================================================================
