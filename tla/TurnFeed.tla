------------------------------- MODULE TurnFeed -------------------------------
(***************************************************************************)
(* How turns reach one warm container and what the runner itself writes to *)
(* their streams: the dispatch of a turn (name it in current_run_id, write *)
(* its prompt into the FIFO, report a dispatch that failed), the abort of  *)
(* a warm run, and the wrapper's drain of the container.  What reads the   *)
(* FIFO is in ClaudeRelay and CodexRelay; WarmTurn composes the three.     *)
(*                                                                         *)
(* Source: warm_pool.py -- dispatch_turn; execute.py -- the warm branch of *)
(* _run_job_blocking, abort_job; agent-images/shared/aw-warm-wrapper.      *)
(* External: agents-platform, which sends one turn of a session at a time  *)
(* and holds the session's lock until it reads `done` or loses patience    *)
(* (execute.py, abort_job: "block on the run's 900s timeout holding that   *)
(* session's lock").                                                       *)
(***************************************************************************)
EXTENDS Naturals, Sequences, FiniteSets

CONSTANTS
    Turns,       \* the turns (runs) of the session the container serves
    Nobody,      \* no turn; also the stream of lines nobody can claim
    MaxMishaps   \* bound: faults (refused XADDs, engine errors, lost threads,
                 \*   TTL kills), losses of patience and aborts together

ASSUME TurnFeedAssumption ==
    /\ Nobody \notin Turns
    /\ MaxMishaps \in Nat

VARIABLES
    lock,       \* whose answer agents-platform waits for
    disp,       \* disp[t]: where the thread that dispatches t stands
    abort,      \* abort[t]: where the request that aborts t stands
    box,        \* the container: "up", "exited" or "gone" (removed)
    drain,      \* the drain flag was set and seen: fd 3 is closed
    current,    \* the file current_run_id; Nobody while it is empty
    fifo,       \* fifo_in: prompts written and not read, named by their turn
    stream,     \* stream[r]: what Redis holds of run:{r}:events
    mishaps,    \* counter behind the bound
    apart,      \* history: turns that never shared the container with another
    excused     \* history: turns a fault or an abort of another turn hit

feedVars  == <<lock, disp, abort, box, drain, current, fifo>>
turnFeedVars == <<feedVars, stream, mishaps, apart, excused>>

Runs == Turns \union {Nobody}

\* by: the relay, the dispatch or the abort that wrote the entry.  of: the
\* turn whose work it shows.  try: the attempt of codex that said it.
Entry(by, kind, of, try) == [by |-> by, kind |-> kind, of |-> of, try |-> try]
Entries ==
    [by : {"relay", "dispatch", "abort"},
     kind : {"line", "result", "woken", "done"}, of : Turns, try : 0..3]

FeedTypeOK ==
    /\ lock \in Runs
    /\ disp \in [Turns -> {"new", "sent", "naming", "named", "fed", "failing", "failed", "lost"}]
    /\ abort \in [Turns -> {"none", "found", "killed", "told", "over"}]
    /\ box \in {"up", "exited", "gone"}
    /\ drain \in BOOLEAN
    /\ current \in Runs
    /\ fifo \in Seq(Turns)
    /\ stream \in [Runs -> Seq(Entries)]
    /\ mishaps \in 0..MaxMishaps
    /\ apart \in SUBSET Turns /\ excused \in SUBSET Turns

FeedInit ==
    /\ lock = Nobody
    /\ disp = [t \in Turns |-> "new"]
    /\ abort = [t \in Turns |-> "none"]
    /\ box = "up"
    /\ drain = FALSE
    /\ current = Nobody
    /\ fifo = <<>>
    /\ stream = [r \in Runs |-> <<>>]
    /\ mishaps = 0
    /\ apart = {} /\ excused = {}

Up == box = "up"

Says(r, entries) == stream' = [stream EXCEPT ![r] = @ \o entries]

HasDone(r) == \E i \in DOMAIN stream[r] : stream[r][i].kind = "done"

Mishap == mishaps < MaxMishaps /\ mishaps' = mishaps + 1

\* A fault that hits the turns of `hit`.
Fault(hit) ==
    /\ Mishap
    /\ excused' = excused \union hit
NoFault == UNCHANGED <<mishaps, excused>>

-------------------------------------------------------------------------------
(***************************************************************************)
(* agents-platform (external): sends the next turn of the session once it  *)
(* has read the `done` of the last or has waited for it long enough.       *)
(***************************************************************************)
Send(t) ==
    /\ lock = Nobody /\ disp[t] = "new"
    /\ lock' = t
    /\ disp' = [disp EXCEPT ![t] = "sent"]
    /\ UNCHANGED <<abort, box, drain, current, fifo, stream, mishaps, apart, excused>>

ReadsDone ==
    /\ lock # Nobody /\ HasDone(lock)
    /\ lock' = Nobody
    /\ UNCHANGED <<disp, abort, box, drain, current, fifo, stream, mishaps, apart, excused>>

GivesUp ==
    /\ lock # Nobody
    /\ lock' = Nobody
    /\ Mishap
    /\ UNCHANGED <<disp, abort, box, drain, current, fifo, stream, apart, excused>>

-------------------------------------------------------------------------------
(***************************************************************************)
(* The thread that dispatches a turn.                                      *)
(***************************************************************************)
Dispatch(t, from, to) == disp[t] = from /\ disp' = [disp EXCEPT ![t] = to]

\* `printf > current_run_id` truncates the file before it writes it.
\* `held`: the turns the container still works on.
NameTurn(t, held) ==
    LET others == held \union {u \in Turns \ {t} : disp[u] \in {"naming", "named"}}
    IN
    /\ Up /\ Dispatch(t, "sent", "naming")
    /\ current' = Nobody
    /\ apart' = IF others = {} THEN apart \union {t} ELSE apart \ others
    /\ UNCHANGED <<lock, abort, box, drain, fifo, stream, mishaps, excused>>

NamedTurn(t) ==
    /\ Up /\ Dispatch(t, "naming", "named")
    /\ current' = t
    /\ UNCHANGED <<lock, abort, box, drain, fifo, stream, mishaps, apart, excused>>

\* Mutant of FeedTurn: the prompt may go in before the turn is named.
FeedUnnamed(t) ==
    /\ Up /\ disp[t] \in {"sent", "named"}
    /\ disp' = [disp EXCEPT ![t] = "fed"]
    /\ fifo' = Append(fifo, t)
    /\ UNCHANGED <<lock, abort, box, drain, current, stream, mishaps, apart, excused>>

FeedTurn(t) ==
    /\ Up /\ Dispatch(t, "named", "fed")
    /\ fifo' = Append(fifo, t)
    /\ UNCHANGED <<lock, abort, box, drain, current, stream, mishaps, apart, excused>>

\* The container is gone, or the engine fails the call; a failed write into
\* the FIFO may have delivered the prompt all the same.
DispatchBreaks(t) ==
    /\ disp[t] \in {"sent", "naming", "named"}
    /\ disp' = [disp EXCEPT ![t] = "failing"]
    /\ \/ ~Up /\ NoFault /\ UNCHANGED fifo
       \/ Up /\ Fault({}) /\ UNCHANGED fifo
       \/ Up /\ disp[t] = "named" /\ Fault({}) /\ fifo' = Append(fifo, t)
    /\ UNCHANGED <<lock, abort, box, drain, current, stream, apart>>

\* The handler's two entries; a refused XADD is logged and the next one tried.
ReportFailure(t) ==
    /\ Dispatch(t, "failing", "failed")
    /\ \/ NoFault /\ Says(t, <<Entry("dispatch", "result", t, 0), Entry("dispatch", "done", t, 0)>>)
       \/ Fault({}) /\ Says(t, <<Entry("dispatch", "done", t, 0)>>)
       \/ Fault({t}) /\ Says(t, <<Entry("dispatch", "result", t, 0)>>)
    /\ UNCHANGED <<lock, abort, box, drain, current, fifo, apart>>

\* The worker process dies and its threads with it.
LoseThread(t) ==
    /\ disp[t] \in {"sent", "naming", "named", "failing"}
    /\ disp' = [disp EXCEPT ![t] = "lost"]
    /\ Fault({t})
    /\ UNCHANGED <<lock, abort, box, drain, current, fifo, stream, apart>>

-------------------------------------------------------------------------------
(***************************************************************************)
(* POST /abort of a run that went warm: the registry still names the       *)
(* container long after the turn is over, so the kill may hit another one. *)
(***************************************************************************)
AbortFinds(t) ==
    /\ abort[t] = "none" /\ disp[t] # "new" /\ box # "gone"
    /\ abort' = [abort EXCEPT ![t] = "found"]
    /\ Mishap
    /\ UNCHANGED <<lock, disp, box, drain, current, fifo, stream, apart, excused>>

\* A kill that fails is logged: the removal at the end does the work.
AbortKills(t, held) ==
    /\ abort[t] = "found"
    /\ abort' = [abort EXCEPT ![t] = "killed"]
    /\ \/ /\ box' = IF Up THEN "exited" ELSE box
          /\ excused' = IF Up THEN excused \union (held \ {t}) ELSE excused
          /\ UNCHANGED mishaps
       \/ Up /\ Fault({t}) /\ UNCHANGED box
    /\ UNCHANGED <<lock, disp, drain, current, fifo, stream, apart>>

\* Mutant of AbortTells: the end is published before the kill.
AbortTellsAtOnce(t) ==
    /\ abort[t] = "found"
    /\ abort' = [abort EXCEPT ![t] = "told"]
    /\ \/ NoFault /\ Says(t, <<Entry("abort", "done", t, 0)>>)
       \/ Fault({t}) /\ UNCHANGED stream
    /\ UNCHANGED <<lock, disp, box, drain, current, fifo, apart>>

AbortTells(t) ==
    /\ abort[t] = "killed"
    /\ abort' = [abort EXCEPT ![t] = "told"]
    /\ \/ NoFault /\ Says(t, <<Entry("abort", "done", t, 0)>>)
       \/ Fault({t}) /\ UNCHANGED stream
    /\ UNCHANGED <<lock, disp, box, drain, current, fifo, apart>>

AbortRemoves(t, held) ==
    /\ abort[t] = "told"
    /\ abort' = [abort EXCEPT ![t] = "over"]
    /\ box' = "gone"
    /\ excused' = IF Up THEN excused \union (held \ {t}) ELSE excused
    /\ UNCHANGED <<lock, disp, drain, current, fifo, stream, mishaps, apart>>

-------------------------------------------------------------------------------
(***************************************************************************)
(* The wrapper: the drain flag, set by the pool or by the TTL, makes it    *)
(* close its end of the FIFO, so that the reader meets end of file between *)
(* two turns; when the CLI process is gone the container stops.            *)
(***************************************************************************)
Drain ==
    /\ Up /\ ~drain
    /\ drain' = TRUE
    /\ UNCHANGED <<lock, disp, abort, box, current, fifo, stream, mishaps, apart, excused>>

EndOfFile == drain /\ fifo = <<>>

\* Turns still in the container when it stops get no answer from it.
Stops(cut) ==
    /\ Up /\ box' = "exited"
    /\ excused' = excused \union cut
    /\ UNCHANGED <<lock, disp, abort, drain, current, fifo, stream, mishaps, apart>>
==============================================================================
