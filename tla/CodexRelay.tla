------------------------------ MODULE CodexRelay ------------------------------
(***************************************************************************)
(* The codex side of a warm container: the relay reads a turn from the     *)
(* FIFO, then the run it belongs to, and runs one codex process for it, up *)
(* to three times as long as an attempt said nothing of its own; only then *)
(* does it end the stream, with the exit code.                             *)
(*                                                                         *)
(* Source: agent-images/shared/aw-warm-relay-codex.py and                  *)
(* aw-warm-wrapper-codex.  Waiting for the shared 429 cooldown only       *)
(* takes time, as it is bounded, and its notices are not in the streams.   *)
(***************************************************************************)
EXTENDS TurnFeed

CONSTANT MaxOutput   \* bound: lines of one attempt

ASSUME CodexRelayAssumption == MaxOutput \in Nat

VARIABLES
    codex,      \* "up" or "gone": the relay, which is the container's child
    job         \* the turn at hand

codexVars == <<codex, job>>

MaxAttempts == 3

\* What one line of an attempt is: `content` is the turn's own output;
\* `error` is the 429 exhaustion, `rollout` the lost-rollout error, `banner`
\* the handshake, the start-up banner and everything on stderr.
LineKinds == {"banner", "rollout", "error", "content"}

Jobs ==
    [step : {"idle", "taken", "spawn", "run", "end"}, of : Runs, run : Runs,
     attempt : 0..MaxAttempts, lines : 0..MaxOutput, held : 0..MaxOutput,
     live : BOOLEAN, rollout : BOOLEAN, limited : BOOLEAN, rc : 0..1]
Idle ==
    [step |-> "idle", of |-> Nobody, run |-> Nobody, attempt |-> 0, lines |-> 0, held |-> 0,
     live |-> FALSE, rollout |-> FALSE, limited |-> FALSE, rc |-> 0]

CodexTypeOK == codex \in {"up", "gone"} /\ job \in Jobs

CodexInit == codex = "up" /\ job = Idle

CodexHolds == {t \in Turns : (\E i \in DOMAIN fifo : fifo[i] = t) \/ job.of = t}

At(step) == Up /\ codex = "up" /\ job.step = step
Output(n) == [i \in 1..n |-> Entry("relay", "line", job.of, job.attempt)]

\* Publishes entries one by one; one of them may be refused, and the relay
\* goes on with the next.
Publishes(entries) ==
    \/ NoFault /\ Says(job.run, entries)
    \/ entries # <<>> /\ Fault({job.of}) /\ Says(job.run, Tail(entries))

\* Mutant of Attempt: what the last attempt held back is not dropped.
AttemptHoldingOn(n, step) ==
    [Idle EXCEPT !.step = step, !.of = job.of, !.run = job.run, !.attempt = n, !.held = job.held]

\* A fresh attempt: nothing held, nothing seen.
Attempt(n, step) ==
    [Idle EXCEPT !.step = step, !.of = job.of, !.run = job.run, !.attempt = n]

-------------------------------------------------------------------------------
(***************************************************************************)
(* main: one turn.                                                         *)
(***************************************************************************)
CodexTakes ==
    /\ At("idle") /\ fifo # <<>>
    /\ job' = [Idle EXCEPT !.step = "taken", !.of = Head(fifo)]
    /\ fifo' = Tail(fifo)
    /\ UNCHANGED <<lock, disp, abort, box, drain, current, stream, mishaps, apart, excused,
                   codex>>

\* A line that is not JSON, or holds no prompt, is dropped: nobody ends its run.
CodexSkips ==
    /\ At("idle") /\ fifo # <<>>
    /\ Fault({Head(fifo)})
    /\ fifo' = Tail(fifo)
    /\ UNCHANGED <<lock, disp, abort, box, drain, current, stream, apart, codexVars>>

CodexReadsRun ==
    /\ At("taken")
    /\ job' = [job EXCEPT !.run = current, !.step = "spawn", !.attempt = 1]
    /\ UNCHANGED <<turnFeedVars, codex>>

CodexFinishes ==
    /\ At("end")
    /\ job' = Idle
    /\ \/ NoFault /\ Says(job.run, <<Entry("relay", "done", job.of, job.attempt)>>)
       \/ Fault({job.of}) /\ UNCHANGED stream
    /\ UNCHANGED <<feedVars, apart, codex>>

-------------------------------------------------------------------------------
(***************************************************************************)
(* _run_codex_turn: the attempts.                                          *)
(***************************************************************************)

\* _cooldown_wait comes first: it ends when the cooldown clears or after 150
\* seconds, whatever is armed.
CodexSpawns ==
    /\ At("spawn")
    /\ job' = [job EXCEPT !.step = "run"]
    /\ UNCHANGED <<turnFeedVars, codex>>

SpawnFails ==
    /\ At("spawn")
    /\ Fault({})
    /\ Says(job.run, Output(1))
    /\ job' = [job EXCEPT !.step = "end", !.rc = 1]
    /\ UNCHANGED <<feedVars, apart, codex>>

\* A line is held back until one of them is content; that one flushes them.
CodexSays(kind) ==
    /\ At("run") /\ job.lines < MaxOutput
    /\ IF job.live \/ kind = "content"
       THEN /\ Publishes(Output(job.held + 1))
            /\ job' = [job EXCEPT !.lines = @ + 1, !.live = TRUE, !.held = 0]
       ELSE /\ job' = [job EXCEPT !.lines = @ + 1, !.held = @ + 1,
                                  !.rollout = @ \/ kind = "rollout",
                                  !.limited = @ \/ kind = "error"]
            /\ NoFault /\ UNCHANGED stream
    /\ UNCHANGED <<feedVars, apart, codex>>

\* Mutant of Limited: a 429 is retried although the attempt spoke.
LimitedThoughLive == job.limited

Limited == ~job.live /\ job.limited
Contended(rc) == ~job.live /\ (rc # 0 \/ (job.held > 0 /\ ~job.rollout))
TryAgain(rc) == (Limited \/ Contended(rc)) /\ job.attempt < MaxAttempts

\* The process is over and the attempt said nothing of its own: drop what was
\* held.
CodexRetries(rc) ==
    /\ At("run") /\ TryAgain(rc)
    /\ job' = Attempt(job.attempt + 1, "spawn")
    /\ UNCHANGED <<turnFeedVars, codex>>

CodexEnds(rc) ==
    /\ At("run") /\ ~TryAgain(rc)
    /\ job' = [Attempt(job.attempt, "end") EXCEPT !.rc = rc]
    /\ Publishes(Output(job.held))
    /\ UNCHANGED <<feedVars, apart, codex>>

-------------------------------------------------------------------------------
(***************************************************************************)
(* The wrapper: the relay leaves at end of file between two turns, or is   *)
(* killed a drain grace after the flag.                                    *)
(***************************************************************************)
CodexExits ==
    /\ At("idle") /\ EndOfFile
    /\ codex' = "gone"
    /\ UNCHANGED <<turnFeedVars, job>>

TtlKillsCodex ==
    /\ Up /\ drain /\ codex = "up"
    /\ codex' = "gone" /\ job' = Idle
    /\ Fault(IF job.of = Nobody THEN {} ELSE {job.of})
    /\ UNCHANGED <<feedVars, stream, apart>>

CodexBoxStops ==
    /\ codex = "gone"
    /\ Stops(CodexHolds)
    /\ UNCHANGED codexVars

CodexWork ==
    \/ CodexTakes \/ CodexReadsRun \/ CodexSpawns
    \/ \E rc \in 0..1 : CodexRetries(rc) \/ CodexEnds(rc)
    \/ CodexFinishes

CodexNext ==
    \/ CodexWork
    \/ CodexSkips \/ SpawnFails
    \/ \E kind \in LineKinds : CodexSays(kind)
    \/ CodexExits \/ TtlKillsCodex \/ CodexBoxStops
==============================================================================
