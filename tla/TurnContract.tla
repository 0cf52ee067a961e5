----------------------------- MODULE TurnContract -----------------------------
(***************************************************************************)
(* What a session's caller may rely on while a turn has the warm container *)
(* to itself and nothing fails: what the CLI writes reaches the turn's     *)
(* stream, each line once and all of it before the stream's end; nothing   *)
(* of the turn follows the end; and an attempt of the CLI is replaced by   *)
(* another only as long as the caller has heard nothing of it.  A turn     *)
(* that shares the container, is aborted, or is hit by a fault is released *)
(* from these promises.                                                    *)
(*                                                                         *)
(* Stated by: agent-images/shared/aw-warm-relay.py, the module docstring;  *)
(* aw-warm-relay-codex.py, the docstrings of main and _run_codex_turn;     *)
(* warm_pool.py, the docstring of dispatch_turn.                           *)
(***************************************************************************)
EXTENDS Naturals

CONSTANTS
    Turns,
    MaxTries   \* attempts the CLI has at a turn

VARIABLES
    phase,     \* phase[t]: "open", "ended" or "released"
    unheard,   \* unheard[t]: lines the CLI wrote that are not in the stream
    heard,     \* heard[t]: lines of the turn in its stream
    tries      \* tries[t]: the attempt of the CLI at hand

vars == <<phase, unheard, heard, tries>>

Init ==
    /\ phase = [t \in Turns |-> "open"]
    /\ unheard = [t \in Turns |-> 0]
    /\ heard = [t \in Turns |-> 0]
    /\ tries = [t \in Turns |-> 0]

\* The CLI writes a line; of the lines there are then, n go into the stream.
Write(t) ==
    /\ phase[t] = "open"
    /\ \E n \in 0..(unheard[t] + 1) :
        /\ unheard' = [unheard EXCEPT ![t] = @ + 1 - n]
        /\ heard' = [heard EXCEPT ![t] = @ + n]
    /\ UNCHANGED <<phase, tries>>

Deliver(t) ==
    /\ phase[t] = "open"
    /\ \E n \in 1..unheard[t] :
        /\ unheard' = [unheard EXCEPT ![t] = @ - n]
        /\ heard' = [heard EXCEPT ![t] = @ + n]
    /\ UNCHANGED <<phase, tries>>

\* The next attempt: what the last one wrote is dropped, which nobody heard.
Attempt(t) ==
    /\ phase[t] = "open" /\ heard[t] = 0 /\ tries[t] < MaxTries
    /\ tries' = [tries EXCEPT ![t] = @ + 1]
    /\ unheard' = [unheard EXCEPT ![t] = 0]
    /\ UNCHANGED <<phase, heard>>

End(t) ==
    /\ phase[t] = "open" /\ unheard[t] = 0
    /\ phase' = [phase EXCEPT ![t] = "ended"]
    /\ tries' = [tries EXCEPT ![t] = 0]
    /\ UNCHANGED <<unheard, heard>>

Release(S) ==
    /\ phase' = [t \in Turns |-> IF t \in S THEN "released" ELSE phase[t]]
    /\ unheard' = [t \in Turns |-> IF t \in S THEN 0 ELSE unheard[t]]
    /\ heard' = [t \in Turns |-> IF t \in S THEN 0 ELSE heard[t]]
    /\ tries' = [t \in Turns |-> IF t \in S THEN 0 ELSE tries[t]]

Next ==
    \/ \E t \in Turns : Write(t) \/ Deliver(t) \/ Attempt(t) \/ End(t)
    \/ \E S \in SUBSET Turns : Release(S)

Spec == Init /\ [][Next]_vars
===============================================================================
