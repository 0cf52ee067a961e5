----------------------------- MODULE ClaudeRelay -----------------------------
(***************************************************************************)
(* The claude side of a warm container: one claude process reads turns     *)
(* from the FIFO and writes stream-json lines into fifo_out; the relay     *)
(* reads those one by one, gives each to the run current_run_id names at   *)
(* that moment, and ends that run's stream at a dispatched turn's result.  *)
(*                                                                         *)
(* Source: agent-images/shared/aw-warm-relay.py and aw-warm-wrapper.       *)
(***************************************************************************)
EXTENDS TurnFeed

CONSTANT MaxLines   \* bound: lines of a turn before its result

ASSUME ClaudeRelayAssumption == MaxLines \in Nat

VARIABLES
    claude,     \* "up" or "gone"
    busy,       \* the turn claude answers, or Nobody
    said,       \* said[t]: lines t wrote so far
    behind,     \* turns that left background work claude will wake up for
    out,        \* fifo_out: lines written and not read by the relay
    relay,      \* what the relay does: its line, the run it gave it to, step
    finalised   \* runs the relay ended

claudeVars == <<claude, busy, said, behind, out, relay, finalised>>

Lines == [kind : {"line", "result", "woken"}, of : Turns]
Line(kind, t) == [kind |-> kind, of |-> t]
RelayIdle == [step |-> "idle", run |-> Nobody, of |-> Nobody, kind |-> "none"]

ClaudeTypeOK ==
    /\ claude \in {"up", "gone"}
    /\ busy \in Runs
    /\ said \in [Turns -> 0..MaxLines]
    /\ behind \in SUBSET Turns
    /\ out \in Seq(Lines)
    /\ relay \in [step : {"idle", "line", "done"}, run : Runs, of : Runs,
                  kind : {"none", "line", "result", "woken"}]
    /\ finalised \in SUBSET Runs

ClaudeInit ==
    /\ claude = "up"
    /\ busy = Nobody
    /\ said = [t \in Turns |-> 0]
    /\ behind = {}
    /\ out = <<>>
    /\ relay = RelayIdle
    /\ finalised = {}

\* The turns whose prompt went in and whose result is not through the relay.
ClaudeHolds ==
    {t \in Turns :
        \/ \E i \in DOMAIN fifo : fifo[i] = t
        \/ busy = t
        \/ \E i \in DOMAIN out : out[i].of = t /\ out[i].kind # "woken"
        \/ relay.of = t /\ relay.kind # "woken"}

-------------------------------------------------------------------------------
(***************************************************************************)
(* claude (external): read a line, answer it, read the next; a background  *)
(* task that finishes makes it speak again, outside any turn.              *)
(***************************************************************************)
ClaudeTakes ==
    /\ Up /\ claude = "up" /\ busy = Nobody /\ fifo # <<>>
    /\ busy' = Head(fifo)
    /\ fifo' = Tail(fifo)
    /\ UNCHANGED <<lock, disp, abort, box, drain, current, stream, mishaps, apart, excused,
                   claude, said, behind, out, relay, finalised>>

ClaudeSays ==
    /\ Up /\ busy # Nobody /\ said[busy] < MaxLines
    /\ said' = [said EXCEPT ![busy] = @ + 1]
    /\ out' = Append(out, Line("line", busy))
    /\ UNCHANGED <<turnFeedVars, claude, busy, behind, relay, finalised>>

ClaudeEnds ==
    /\ Up /\ busy # Nobody
    /\ out' = Append(out, Line("result", busy))
    /\ busy' = Nobody
    /\ \E more \in BOOLEAN : behind' = IF more THEN behind \union {busy} ELSE behind
    /\ UNCHANGED <<turnFeedVars, claude, said, relay, finalised>>

ClaudeWakes(t) ==
    /\ Up /\ claude = "up" /\ busy = Nobody /\ t \in behind
    /\ behind' = behind \ {t}
    /\ out' = Append(out, Line("woken", t))
    /\ UNCHANGED <<turnFeedVars, claude, busy, said, relay, finalised>>

ClaudeExits ==
    /\ Up /\ claude = "up" /\ busy = Nobody /\ EndOfFile
    /\ claude' = "gone"
    /\ UNCHANGED <<turnFeedVars, busy, said, behind, out, relay, finalised>>

-------------------------------------------------------------------------------
(***************************************************************************)
(* The end of claude, and the wrapper.                                     *)
(***************************************************************************)

\* The TTL watcher kills claude a drain grace after the flag, or claude dies.
ClaudeDies ==
    /\ Up /\ claude = "up"
    /\ claude' = "gone"
    /\ busy' = Nobody
    /\ Fault(IF busy = Nobody THEN {} ELSE {busy})
    /\ UNCHANGED <<feedVars, stream, apart, said, behind, out, relay, finalised>>

\* `wait` returns, the relay is killed, the container stops.
ClaudeBoxStops ==
    /\ claude = "gone"
    /\ Stops(ClaudeHolds)
    /\ UNCHANGED claudeVars

-------------------------------------------------------------------------------
(***************************************************************************)
(* aw-warm-relay.py: main.                                                 *)
(***************************************************************************)
RelayReads ==
    /\ Up /\ relay.step = "idle" /\ out # <<>>
    /\ relay' = [step |-> "line", run |-> current, of |-> Head(out).of, kind |-> Head(out).kind]
    /\ out' = Tail(out)
    /\ UNCHANGED <<turnFeedVars, claude, busy, said, behind, finalised>>

\* Mutants of EndsRun: a continuation's result ends a run too; the set
\* `finalised` is not looked at; the relay remembers that it ended a run, not
\* which.
ContinuationEndsRun == relay.kind \in {"result", "woken"} /\ relay.run \notin finalised
EndsRunAgain == relay.kind = "result"
EndsOneRun == relay.kind = "result" /\ finalised = {}

\* A dispatched turn's result, of a run that was not ended yet.
EndsRun == relay.kind = "result" /\ relay.run \notin finalised

\* A refused XADD skips the rest of the loop's body.
RelayPublishes ==
    /\ Up /\ relay.step = "line"
    /\ \/ /\ NoFault
          /\ Says(relay.run, <<Entry("relay", relay.kind, relay.of, 0)>>)
          /\ relay' = IF EndsRun THEN [relay EXCEPT !.step = "done"] ELSE RelayIdle
       \/ Fault({relay.of}) /\ relay' = RelayIdle /\ UNCHANGED stream
    /\ UNCHANGED <<feedVars, apart, claude, busy, said, behind, out, finalised>>

\* The XADD of `done` may be refused; or it is applied and EXPIRE is not,
\* which leaves the run unmarked.
RelayFinalises ==
    /\ Up /\ relay.step = "done"
    /\ relay' = RelayIdle
    /\ \/ /\ NoFault
          /\ Says(relay.run, <<Entry("relay", "done", relay.of, 0)>>)
          /\ finalised' = finalised \union {relay.run}
       \/ /\ Fault({relay.of}) /\ UNCHANGED <<stream, finalised>>
       \/ /\ Fault({relay.of}) /\ UNCHANGED finalised
          /\ Says(relay.run, <<Entry("relay", "done", relay.of, 0)>>)
    /\ UNCHANGED <<feedVars, apart, claude, busy, said, behind, out>>

ClaudeWork == ClaudeTakes \/ ClaudeEnds \/ RelayReads \/ RelayPublishes \/ RelayFinalises

ClaudeNext ==
    \/ ClaudeWork
    \/ ClaudeSays
    \/ \E t \in Turns : ClaudeWakes(t)
    \/ ClaudeExits \/ ClaudeDies \/ ClaudeBoxStops
==============================================================================
