----------------------------- MODULE RunContract -----------------------------
(***************************************************************************)
(* What the runner promises agents-platform about one run, seen from its   *)
(* event stream and from the container engine: an accepted run goes back   *)
(* and forth between having no live container and having one, ends with a  *)
(* `done` entry that only comes when no container is live, never comes     *)
(* back after it, and is not launched again once an abort took effect.     *)
(*                                                                         *)
(* Stated by: execute.py, the module docstring of the abort registry and   *)
(* the docstrings of start_job, mark_aborted and abort_job.                *)
(***************************************************************************)
CONSTANT Runs

VARIABLES
    phase,      \* phase[r]: "unseen", "accepted", "live" or "over"
    cancelled   \* runs an abort took effect on

vars == <<phase, cancelled>>

Init ==
    /\ phase = [r \in Runs |-> "unseen"]
    /\ cancelled = {}

Move(r, from, to) == phase[r] = from /\ phase' = [phase EXCEPT ![r] = to]

Accept(r) == Move(r, "unseen", "accepted") /\ UNCHANGED cancelled

Launch(r) == r \notin cancelled /\ Move(r, "accepted", "live") /\ UNCHANGED cancelled

Stop(r) == Move(r, "live", "accepted") /\ UNCHANGED cancelled

Finish(r) == Move(r, "accepted", "over") /\ UNCHANGED cancelled

\* An abort may come before the run is known and after it is over; it may be
\* what stops a live container.
Cancel(r) ==
    /\ phase' = IF phase[r] = "live" THEN [phase EXCEPT ![r] = "accepted"] ELSE phase
    /\ cancelled' = cancelled \union {r}

Next == \E r \in Runs : Accept(r) \/ Launch(r) \/ Stop(r) \/ Finish(r) \/ Cancel(r)

Spec == Init /\ [][Next]_vars
==============================================================================
