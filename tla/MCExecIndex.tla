---------------------------- MODULE MCExecIndex ----------------------------
(***************************************************************************)
(* ExecIndex with one run that two watchers follow.                        *)
(***************************************************************************)
EXTENDS ExecIndex, TLC

CONSTANTS run, w1, w2

MCRunOf == (w1 :> run) @@ (w2 :> run)
=============================================================================
