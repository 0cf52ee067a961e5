------------------------------ MODULE ExecIndex ------------------------------
(***************************************************************************)
(* The client of the execution index.  Every finished run is fetched from  *)
(* the platform, cut into chunks and written to each configured target.    *)
(* A warm run's watcher queues what it could not write; an hourly sweep    *)
(* works the queue off.  A cold run's thread and the backfill script write *)
(* once and queue nothing.                                                 *)
(*                                                                         *)
(* Source: execution_index.py -- index_run and its callers; the doctor of  *)
(* routes.py; scripts/backfill_execution_index.py.                         *)
(***************************************************************************)
EXTENDS Naturals, Functions

CONSTANTS
    Runs,
    Warm,         \* watchers of warm runs: a POST retried on another worker
                  \* gives a run a second one
    RunOf,        \* RunOf[t]: the run watcher t follows
    Sweepers,     \* workers whose watchdog may hold the sweep's lease
    MaxAttempts,  \* sweeps of an entry before it is given up (24 in the code)
    MaxMishaps    \* bound: calls Redis does not answer, threads that cannot be
                  \* started, restarts of the application and changes of the
                  \* settings, together

ASSUME ExecIndexAssumption ==
    /\ RunOf \in [Warm -> Runs] /\ Runs # {}
    /\ Warm \intersect Sweepers = {}
    /\ MaxAttempts \in Nat \ {0}
    /\ MaxMishaps \in Nat

VARIABLES
    over,         \* runs whose stream carries done
    ended,        \* runs the platform has set ended_at on
    dull,         \* runs the gate excludes
    settings,     \* execution_index_mode, and whether some target's URL is set
    pc, job,      \* pc[i], job[i]: indexer i and the index_run it is in
    snapshot,     \* snapshot[s]: queue entries sweep s read and has not done
    queue,        \* Redis: the retry queue, run -> attempts and first reason
    stored,       \* runs that reached at least one target: "indexed"
    started, resolved,  \* Redis: counted warm watchers
    mishaps,
    excused,      \* history: watchers killed, never started, unqueued, or run with
                  \*   the mode off
    uncounted,    \* history: watchers whose resolution was not counted
    givenUp       \* history: runs whose retries are exhausted

platformVars == <<over, ended, dull>>
counterVars  == <<started, resolved, uncounted>>
pastVars     == <<excused, givenUp>>
vars == <<platformVars, settings, pc, job, snapshot, queue, stored, counterVars,
          mishaps, pastVars>>

Indexers == Warm \union Sweepers
Reasons  == {"gate", "no answer", "no_target", "refused"}

PCs == {"none", "watch", "next", "settle", "resolve", "over"}

NoJob == [run |-> CHOOSE r \in Runs : TRUE, outcome |-> "off"]
NoEntries == [r \in {} |-> 0]
Entry == [tries : 0..(MaxAttempts - 1), why : Reasons \ {"gate"}]

TypeOK ==
    /\ over \subseteq Runs /\ ended \subseteq Runs /\ dull \subseteq Runs
    /\ settings \in [mode : {"on", "off"}, targets : BOOLEAN]
    /\ pc \in [Indexers -> PCs]
    /\ job \in [Indexers -> [run : Runs, outcome : Reasons \union {"indexed", "off"}]]
    /\ \A s \in Sweepers : /\ DOMAIN snapshot[s] \subseteq Runs
                           /\ Range(snapshot[s]) \subseteq Entry
    /\ DOMAIN queue \subseteq Runs /\ Range(queue) \subseteq Entry
    /\ stored \subseteq Runs
    /\ started \subseteq Warm /\ resolved \subseteq Warm
    /\ excused \subseteq Warm /\ uncounted \subseteq Warm
    /\ givenUp \subseteq Runs
    /\ mishaps \in 0..MaxMishaps

Init ==
    /\ over = {} /\ ended = {} /\ dull \in SUBSET Runs
    /\ settings = [mode |-> "on", targets |-> TRUE]
    /\ pc = [i \in Indexers |-> "none"]
    /\ job = [i \in Indexers |-> NoJob]
    /\ snapshot = [s \in Sweepers |-> NoEntries]
    /\ queue = NoEntries
    /\ stored = {}
    /\ started = {} /\ resolved = {} /\ uncounted = {}
    /\ mishaps = 0
    /\ excused = {} /\ givenUp = {}

-----------------------------------------------------------------------------
Goes(i, from, to) == pc[i] = from /\ pc' = [pc EXCEPT ![i] = to]

Mishap == mishaps < MaxMishaps /\ mishaps' = mishaps + 1

\* Mutant of WorthRetry: only a run that some target refused is worth it.
WorthRetryRefused(outcome) == outcome = "refused"

\* Anything but success, the gate's exclusion and a mode that is off.
WorthRetry(outcome) == outcome \in Reasons \ {"gate"}

\* HSET of one field of the hash.
Put(hash, r, entry) == [x \in DOMAIN hash \union {r} |-> IF x = r THEN entry ELSE hash[x]]

\* _queue_retry: HSETNX, so a queued run keeps its attempts and its reason.
Enqueued(r, why) ==
    IF r \in DOMAIN queue THEN queue ELSE Put(queue, r, [tries |-> 0, why |-> why])

Dequeued(r) == Restrict(queue, DOMAIN queue \ {r})

\* What index_run's caller is left with is forgotten.
Ends(i, to) ==
    /\ pc' = [pc EXCEPT ![i] = to]
    /\ job' = [job EXCEPT ![i] = NoJob]

-----------------------------------------------------------------------------
(***************************************************************************)
(* The platform, the settings, the process.                                *)
(***************************************************************************)
RunOver(r) ==
    /\ r \notin over
    /\ over' = over \union {r}
    /\ UNCHANGED <<ended, dull, settings, pc, job, snapshot, queue, stored,
                   counterVars, mishaps, pastVars>>

\* The platform finalizes the run some time after it read done.
Finalize(r) ==
    /\ r \in over \ ended
    /\ ended' = ended \union {r}
    /\ UNCHANGED <<over, dull, settings, pc, job, snapshot, queue, stored,
                   counterVars, mishaps, pastVars>>

EditSettings ==
    /\ Mishap
    /\ settings' \in [mode : {"on", "off"}, targets : BOOLEAN]
    /\ UNCHANGED <<platformVars, pc, job, snapshot, queue, stored, counterVars, pastVars>>

\* The application is a guest of its host's process: every thread dies with
\* it, nothing restarts a watcher, and Redis keeps what was written.
Restart ==
    LET hit == {i \in Indexers : pc[i] \notin {"none", "over"}}
    IN  /\ Mishap
        /\ pc' = [i \in Indexers |-> IF i \notin hit THEN pc[i]
                                     ELSE IF i \in Sweepers THEN "none" ELSE "over"]
        /\ job' = [i \in Indexers |-> IF i \in hit THEN NoJob
                                      ELSE job[i]]
        /\ snapshot' = [s \in Sweepers |-> NoEntries]
        /\ excused' = excused \union (hit \intersect Warm)
        /\ UNCHANGED <<platformVars, settings, queue, stored, counterVars, givenUp>>

-----------------------------------------------------------------------------
(***************************************************************************)
(* index_run, in whoever calls it.  It only adds to the targets, so that   *)
(* all of it is one step; what its caller makes of it is another.          *)
(***************************************************************************)

\* _interesting, on the run and its events.
Gated(r) == r \in dull

\* The posts to exec_index_targets: all of them are attempted whatever the
\* others answered, and one that succeeds is enough.
PostAll == IF settings.targets THEN {"refused", "indexed"} ELSE {"no_target"}

\* The mode; the polls until the run has ended or the deadline passes, and the
\* read of its events; the gate; the posts.
IndexRun(r, outcome) ==
    /\ \/ settings.mode = "off" /\ outcome = "off"
       \/ settings.mode = "on" /\ outcome = "no answer"
       \/ /\ settings.mode = "on" /\ r \in ended
          /\ outcome \in IF Gated(r) THEN {"gate"} ELSE PostAll
    /\ stored' = IF outcome = "indexed" THEN stored \union {r} ELSE stored

\* The outcome waits in its caller, i, to be acted on.
Indexes(i, r) ==
    \E outcome \in Reasons \union {"indexed", "off"} :
        /\ IndexRun(r, outcome)
        /\ job' = [job EXCEPT ![i] = [run |-> r, outcome |-> outcome]]

\* A caller that keeps nothing of the outcome.
IndexOnce(r) ==
    /\ \E outcome \in Reasons \union {"indexed", "off"} : IndexRun(r, outcome)
    /\ UNCHANGED <<platformVars, settings, pc, job, snapshot, queue, counterVars,
                   mishaps, pastVars>>

\* start: the thread of a cold run, behind its done.
IndexCold(r) == r \in over /\ IndexOnce(r)

\* The script that indexes every ended run again.
Backfill(r) == r \in ended /\ IndexOnce(r)

-----------------------------------------------------------------------------
(***************************************************************************)
(* start_after_stream_done: the watcher of a warm run.                     *)
(***************************************************************************)
\* The count comes first: it may fail, and so may the thread it counts.
StartWatcher(t) ==
    /\ pc[t] = "none"
    /\ \/ /\ settings.mode = "on" /\ pc' = [pc EXCEPT ![t] = "watch"]
          /\ \/ started' = started \union {t} /\ UNCHANGED mishaps
             \/ Mishap /\ UNCHANGED started
          /\ UNCHANGED excused
       \/ /\ settings.mode = "on" /\ pc' = [pc EXCEPT ![t] = "over"]
          /\ Mishap /\ started' = started \union {t} /\ excused' = excused \union {t}
       \/ /\ settings.mode = "off" /\ pc' = [pc EXCEPT ![t] = "over"]
          /\ excused' = excused \union {t}
          /\ UNCHANGED <<started, mishaps>>
    /\ UNCHANGED <<platformVars, settings, job, snapshot, queue, stored, resolved,
                   uncounted, givenUp>>

SeesDone(t) ==
    /\ RunOf[t] \in over /\ Goes(t, "watch", "settle")
    /\ Indexes(t, RunOf[t])
    /\ UNCHANGED <<platformVars, settings, snapshot, queue, counterVars, mishaps,
                   pastVars>>

\* The stream cannot be read, or carries no done for a day: the run is dropped.
WatchFails(t) ==
    /\ Mishap /\ Goes(t, "watch", "resolve")
    /\ excused' = excused \union {t}
    /\ UNCHANGED <<platformVars, settings, job, snapshot, queue, stored, counterVars, givenUp>>

\* _index_and_maybe_queue_retry, after index_run.
Settle(t) ==
    /\ t \in Warm /\ pc[t] = "settle" /\ Ends(t, "resolve")
    /\ \/ /\ WorthRetry(job[t].outcome)
          /\ queue' = Enqueued(RunOf[t], job[t].outcome)
          /\ UNCHANGED <<mishaps, excused>>
       \/ /\ WorthRetry(job[t].outcome)
          /\ Mishap /\ excused' = excused \union {t} /\ UNCHANGED queue
       \/ /\ ~WorthRetry(job[t].outcome)
          /\ excused' = IF job[t].outcome = "off" THEN excused \union {t} ELSE excused
          /\ UNCHANGED <<queue, mishaps>>
    /\ UNCHANGED <<platformVars, settings, snapshot, stored, counterVars, givenUp>>

\* Mutant of Resolve: only a run that was written counts as resolved.
ResolveStored(t) ==
    /\ Goes(t, "resolve", "over")
    /\ \/ /\ resolved' = IF RunOf[t] \in stored THEN resolved \union {t} ELSE resolved
          /\ UNCHANGED <<mishaps, uncounted>>
       \/ Mishap /\ uncounted' = uncounted \union {t} /\ UNCHANGED resolved
    /\ UNCHANGED <<platformVars, settings, job, snapshot, queue, stored, started, pastVars>>

\* warm_watchers_resolved is counted on every way out of the watcher.
Resolve(t) ==
    /\ Goes(t, "resolve", "over")
    /\ \/ resolved' = resolved \union {t} /\ UNCHANGED <<mishaps, uncounted>>
       \/ Mishap /\ uncounted' = uncounted \union {t} /\ UNCHANGED resolved
    /\ UNCHANGED <<platformVars, settings, job, snapshot, queue, stored, started, pastVars>>

-----------------------------------------------------------------------------
(***************************************************************************)
(* sweep_retry_queue, on the hourly watchdog of plugin.py.                 *)
(***************************************************************************)
BeginSweep(s) ==
    /\ pc[s] = "none" /\ DOMAIN queue # {}
    /\ pc' = [pc EXCEPT ![s] = "next"]
    /\ snapshot' = [snapshot EXCEPT ![s] = queue]
    /\ UNCHANGED <<platformVars, settings, job, queue, stored, counterVars, mishaps,
                   excused, givenUp>>

SweepEntry(s) ==
    /\ Goes(s, "next", "settle")
    /\ \E r \in DOMAIN snapshot[s] : Indexes(s, r)
    /\ UNCHANGED <<platformVars, settings, snapshot, queue, counterVars, mishaps,
                   pastVars>>

\* Mutant of NextTries: a failed retry costs the entry nothing.
NextTriesSame(entry) == entry.tries

\* The attempts are counted from the value the sweep read.
NextTries(entry) == entry.tries + 1

\* Mutant of GivesUp: one sweep too many.
GivesUpLate(tries) == tries > MaxAttempts

GivesUp(tries) == tries >= MaxAttempts

SweepSettle(s) ==
    LET r == job[s].run
        entry == snapshot[s][r]
        tries == NextTries(entry)
    IN  /\ s \in Sweepers /\ pc[s] = "settle" /\ Ends(s, "next")
        /\ snapshot' = [snapshot EXCEPT ![s] = Restrict(@, DOMAIN @ \ {r})]
        /\ \/ /\ job[s].outcome \in {"indexed", "gate"}
              /\ queue' = Dequeued(r) /\ UNCHANGED givenUp
           \/ /\ job[s].outcome \notin {"indexed", "gate"} /\ GivesUp(tries)
              /\ queue' = Dequeued(r) /\ givenUp' = givenUp \union {r}
           \/ /\ job[s].outcome \notin {"indexed", "gate"} /\ ~GivesUp(tries)
              /\ queue' = Put(queue, r, [entry EXCEPT !.tries = tries])
              /\ UNCHANGED givenUp
        /\ UNCHANGED <<platformVars, settings, stored, counterVars, mishaps,
                       excused>>

\* The write of the outcome raises and takes the rest of the sweep with it.
SweepBreaks(s) ==
    /\ Mishap /\ s \in Sweepers /\ pc[s] = "settle" /\ Ends(s, "none")
    /\ snapshot' = [snapshot EXCEPT ![s] = NoEntries]
    /\ UNCHANGED <<platformVars, settings, queue, stored, counterVars,
                   pastVars>>

EndSweep(s) ==
    /\ snapshot[s] = NoEntries /\ Goes(s, "next", "none")
    /\ UNCHANGED <<platformVars, settings, job, snapshot, queue, stored, counterVars,
                   mishaps, pastVars>>

-----------------------------------------------------------------------------
WatcherStep(t) == StartWatcher(t) \/ SeesDone(t) \/ Settle(t) \/ Resolve(t)

SweepStep(s) == SweepEntry(s) \/ SweepSettle(s) \/ EndSweep(s)

Next ==
    \/ \E r \in Runs :
          RunOver(r) \/ Finalize(r) \/ IndexCold(r) \/ Backfill(r)
    \/ EditSettings \/ Restart
    \/ \E t \in Warm : WatcherStep(t) \/ WatchFails(t)
    \/ \E s \in Sweepers : BeginSweep(s) \/ SweepStep(s) \/ SweepBreaks(s)

Spec == Init /\ [][Next]_vars

\* Some worker's hourly tick always comes, and a sweep that began runs on;
\* nothing is assumed of runs, watchers, targets or the platform.
Fairness ==
    /\ WF_vars(\E s \in Sweepers : BeginSweep(s))
    /\ \A s \in Sweepers : WF_vars(SweepStep(s))

FairSpec == Spec /\ Fairness

-----------------------------------------------------------------------------
(***************************************************************************)
(* Safety.                                                                 *)
(***************************************************************************)

\* _index_and_maybe_queue_retry and the sweep: "any genuine failure gets queued
\* ... instead of being lost outright".  Once its watcher is done, a warm run
\* is in an index, gated out, waiting in the queue or given up, however many
\* watchers, sweeps and scripts worked on it.
NothingSlips ==
    \A t \in Warm \ excused :
        pc[t] = "over" =>
            LET r == RunOf[t]
            IN  r \in stored \/ r \in dull \/ r \in DOMAIN queue \/ r \in givenUp

\* What the doctor subtracts.
Gap == started \ resolved

\* The doctor reads the gap as watchers "killed by a restart": what is in it is
\* alive, was killed, could not be started, or left while Redis did not answer.
GapIsKills ==
    \A t \in Gap :
        pc[t] # "over" \/ t \in excused \/ t \in uncounted

(***************************************************************************)
(* Liveness.                                                               *)
(***************************************************************************)

\* "A Redis HASH ... so the sweep can ... give up on an entry that keeps failing
\* instead of sweeping it forever": every queued run leaves the queue, even if
\* no target ever answers again and two workers' sweeps overlap.
QueueDrains ==
    \A r \in Runs : r \in DOMAIN queue ~> r \notin DOMAIN queue
=============================================================================
