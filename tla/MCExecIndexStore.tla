-------------------------- MODULE MCExecIndexStore --------------------------
(***************************************************************************)
(* ExecIndexStore with two requests that index one run in different        *)
(* lengths.                                                                *)
(***************************************************************************)
EXTENDS ExecIndexStore, TLC

CONSTANTS run, long, short

MCRunOf  == (long :> run) @@ (short :> run)
MCSizeOf == (long :> 2) @@ (short :> 1)
=============================================================================
