------------------------------- MODULE WarmTurn -------------------------------
(***************************************************************************)
(* The turns of one chat session through its warm container: the dispatch, *)
(* abort and drain of TurnFeed together with the relay of the container's  *)
(* CLI.                                                                    *)
(***************************************************************************)
EXTENDS ClaudeRelay, CodexRelay

VARIABLE cli   \* the container's CLI, for its whole life

vars == <<turnFeedVars, claudeVars, codexVars, cli>>

TypeOK == FeedTypeOK /\ ClaudeTypeOK /\ CodexTypeOK /\ cli \in {"claude", "codex"}

Init == FeedInit /\ ClaudeInit /\ CodexInit /\ cli \in {"claude", "codex"}

\* The turns the container still works on.
Held == IF cli = "claude" THEN ClaudeHolds ELSE CodexHolds

Platform == (\E t \in Turns : Send(t)) \/ ReadsDone \/ GivesUp

\* A dispatch thread goes on until the turn is fed or its failure reported.
DispatchWork(t) ==
    NameTurn(t, Held) \/ NamedTurn(t) \/ FeedTurn(t) \/ DispatchBreaks(t) \/ ReportFailure(t)

AbortWork(t) == AbortKills(t, Held) \/ AbortTells(t) \/ AbortRemoves(t, Held)

FeedNext ==
    \/ Platform
    \/ \E t \in Turns : DispatchWork(t) \/ LoseThread(t) \/ AbortFinds(t) \/ AbortWork(t)
    \/ Drain

Next ==
    \/ FeedNext /\ UNCHANGED <<claudeVars, codexVars, cli>>
    \/ cli = "claude" /\ ClaudeNext /\ UNCHANGED <<codexVars, cli>>
    \/ cli = "codex" /\ CodexNext /\ UNCHANGED <<claudeVars, cli>>

\* Threads and processes go on, and a CLI ends what it answers: claude emits
\* a result for every turn, codex exits.  Nothing makes agents-platform send
\* or lose patience, a fault happen, or anybody abort or drain.
Fairness ==
    /\ \A t \in Turns :
        /\ WF_vars(DispatchWork(t) /\ UNCHANGED <<claudeVars, codexVars, cli>>)
        /\ WF_vars(AbortWork(t) /\ UNCHANGED <<claudeVars, codexVars, cli>>)
    /\ WF_vars(cli = "claude" /\ ClaudeWork /\ UNCHANGED <<codexVars, cli>>)
    /\ WF_vars(cli = "claude" /\ ClaudeBoxStops /\ UNCHANGED <<codexVars, cli>>)
    /\ WF_vars(cli = "codex" /\ CodexWork /\ UNCHANGED <<claudeVars, cli>>)
    /\ WF_vars(cli = "codex" /\ CodexBoxStops /\ UNCHANGED <<claudeVars, cli>>)

Spec == Init /\ [][Next]_vars
FairSpec == Spec /\ Fairness

-------------------------------------------------------------------------------
(***************************************************************************)
(* Properties.                                                             *)
(***************************************************************************)

RelayDone(e) == e.by = "relay" /\ e.kind = "done"
First(r, i) == \A j \in 1..(i - 1) : stream[r][j].kind # "done"
DoneAt(r) == {i \in DOMAIN stream[r] : RelayDone(stream[r][i])}

\* A turn that never shared the container with another turn, and that no
\* fault or foreign abort hit, gets an end of stream from its relay only
\* after its own last line: what its consumer, which stops at the first
\* `done`, has read by then is all claude said in the turn, or the output of
\* codex's last attempt.  A continuation of an earlier turn may speak in
\* between but may not end it (aw-warm-relay.py, the module docstring).
AnswerIsWhole ==
    \A r \in apart \ excused : \A i \in DoneAt(r) :
        /\ stream[r][i].of = r
        /\ cli = "claude" =>
            /\ r \notin ClaudeHolds
            /\ Cardinality({j \in 1..i : stream[r][j].of = r /\ stream[r][j].kind = "line"}) = said[r]
        /\ cli = "codex" => r \notin CodexHolds

\* The only lines of another turn a turn's consumer can read, when the two
\* never shared the container, are those of a continuation.
ForeignLinesAreContinuations ==
    \A r \in apart : \A i \in DOMAIN stream[r] :
        stream[r][i].of # r => stream[r][i].kind = "woken"

\* However turns overlap, claude's relay ends no run twice, unless Redis
\* applied the first end and failed the call (the set `finalised`).
EndedOnce ==
    cli = "claude" =>
        \A r \in Turns : Cardinality({i \in DoneAt(r) : stream[r][i].of \notin excused}) <= 1

\* Retrying an attempt of codex never publishes the output of two: what a
\* stream shows of a turn comes from one attempt (_run_codex_turn: "nothing
\* has been double-applied").
OneAttemptSpeaks ==
    cli = "codex" =>
        \A r \in Runs : \A i, j \in DOMAIN stream[r] :
            /\ stream[r][i].by = "relay" /\ stream[r][i].kind = "line"
            /\ stream[r][j].by = "relay" /\ stream[r][j].kind = "line"
            /\ stream[r][i].of = stream[r][j].of
            => stream[r][i].try = stream[r][j].try

\* An abort ends the stream of the run it killed when the relay can no
\* longer speak: nothing of the relay follows the abort's `done`.
KilledTurnIsSilent ==
    \A r \in Turns \ excused : \A i, j \in DOMAIN stream[r] :
        stream[r][i].by = "abort" /\ i < j => stream[r][j].by # "relay"

\* Every turn agents-platform sends is ended: by the relay, by the report of
\* a failed dispatch or by the abort that killed it, unless it shared the
\* container, a fault or a foreign abort hit it, or the container stopped
\* with it.
SentIsEnded ==
    \A t \in Turns :
        disp[t] = "sent" ~> HasDone(t) \/ t \in excused \/ (disp[t] = "fed" /\ t \notin apart)

-------------------------------------------------------------------------------
(***************************************************************************)
(* What the caller of a turn may rely on.                                  *)
(***************************************************************************)

\* The turns of which nothing is promised: a fault or an abort hit them, their
\* dispatch failed, or they share the container.
Released(t) ==
    \/ t \in excused
    \/ abort[t] \in {"killed", "told", "over"}
    \/ disp[t] \in {"failing", "failed", "lost"}
    \/ disp[t] \notin {"new", "sent"} /\ t \notin apart

Heard(t) == Cardinality({j \in 1..Len(stream[t]) : stream[t][j].of = t /\ stream[t][j].kind = "line"})

Buffered(t) == IF job.of = t THEN job.held ELSE 0

Unheard(t) == IF cli = "claude" THEN said[t] - Heard(t) ELSE Buffered(t)

Tries(t) == IF job.of = t THEN job.attempt ELSE 0

Phase(t) == IF Released(t) THEN "released" ELSE IF DoneAt(t) # {} THEN "ended" ELSE "open"

Kept(t, count) == IF Released(t) THEN 0 ELSE count

Contract == INSTANCE TurnContract WITH
    phase <- [t \in Turns |-> Phase(t)],
    unheard <- [t \in Turns |-> Kept(t, Unheard(t))],
    heard <- [t \in Turns |-> Kept(t, Heard(t))],
    tries <- [t \in Turns |-> Kept(t, Tries(t))],
    MaxTries <- MaxAttempts

\* WarmTurn implements TurnContract: every step is a step of the contract or
\* invisible to the caller.
ImplementsContract == Contract!Spec
==============================================================================
