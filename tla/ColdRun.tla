------------------------------- MODULE ColdRun -------------------------------
(***************************************************************************)
(* One-shot ("cold") runs: POST /execute starts a background thread that   *)
(* prepares a container, spawns it, streams its output into the run's      *)
(* Redis stream, retries a doomed codex attempt, and publishes the         *)
(* terminal `done` entry; POST /abort, which may be served by any other    *)
(* worker, flags the run and kills its container.                          *)
(*                                                                         *)
(* Source: execute.py -- start_job, _run_job_blocking (cold and            *)
(* raw_command branches), _run_cold_agent_with_retry,                      *)
(* _stream_cold_attempt, _codex_429_cooldown_*, mark_aborted, is_aborted,  *)
(* clear_abort, abort_job.                                                 *)
(*                                                                         *)
(* A worker is one PROCESS: a worker that crashes is never reused, and the *)
(* process that replaces it is another member of Workers.  The container   *)
(* of a run has a name derived from the run id alone, which is always one  *)
(* of abort_job's candidates; so the engine holds at most one container    *)
(* per run, and the name registry (which only speeds the lookup up for a   *)
(* cold run) is left out.  A container object obtained from the engine is  *)
(* bound to one incarnation: `mine` and `held` are incarnation numbers.    *)
(***************************************************************************)
EXTENDS Naturals

CONSTANTS
    Workers,      \* worker processes, over the whole life of the service
    Runs,         \* run ids
    MaxAttempts,  \* container spawns a codex run may use (3 in the code)
    MaxPosts,     \* bound: POST /execute calls per run (1 = never retried)
    MaxAborts,    \* bound: POST /abort calls per run
    MaxCrashes,   \* bound: worker crashes
    MaxOutages    \* bound: Redis outages and engine calls that fail for no reason

ASSUME BoundsAssumption ==
    /\ MaxAttempts \in Nat \ {0}
    /\ MaxPosts \in Nat
    /\ MaxAborts \in Nat
    /\ MaxCrashes \in Nat
    /\ MaxOutages \in Nat

VARIABLES
    kind,       \* kind[r]: what the job payload asks for; never changes
    pc,         \* pc[w][r]: where w's thread for run r stands
    attempt,    \* attempt[w][r]: the retry loop's counter
    why,        \* why[w][r]: what made the previous attempt retryable
    mine,       \* mine[w][r]: incarnation the thread spawned last, 0 if none
    cont,       \* cont[r]: state of the container named after r
    gen,        \* gen[r]: incarnation number of that container
    localFlag,  \* localFlag[w]: _ABORTED_RUN_IDS of worker w
    redisFlag,  \* runs whose abort flag is in Redis
    armed,      \* the shared codex 429 cooldown key exists
    redisUp,    \* Redis answers
    apc,        \* apc[w][r]: where w's abort_job call for r stands
    held,       \* held[w][r]: incarnation that call resolved
    hardKill,   \* runs whose hard-kill marker is in Redis
    dones,      \* dones[w][r]: `done` entries w's thread put on r's stream
    stderrOut,  \* stderrOut[r]: incarnations whose stderr reached the stream
    posts, aborts, crashes, outages,   \* counters behind the bounds
                \* (outages: of Redis, and engine calls that failed)
    killed,     \* history: runs some abort_job answered "killed" for
    signalled,  \* history: incarnations stopped by abort_job's kill
    early       \* history: runs flagged before any thread passed its check

runVars    == <<pc, attempt, why, mine>>
engineVars == <<cont, gen>>
flagVars   == <<localFlag, redisFlag>>
abortVars  == <<apc, held, hardKill, killed, signalled, early>>
streamVars == <<dones, stderrOut>>
faultVars  == <<redisUp, crashes, outages>>
callVars   == <<posts, aborts>>
vars == <<kind, runVars, engineVars, flagVars, armed, abortVars, streamVars,
          faultVars, callVars>>

Kinds == {"claude", "codex", "monitor"}

\* Steps of _run_job_blocking.  "finish", "aborted" and "error" are its three
\* ways to reach _publish_done.
PCs == {"idle", "prep", "gate", "cool", "create", "start", "stream", "fetch",
        "remove", "retry", "backoff", "nap", "finish", "aborted", "error",
        "discard", "forget", "end", "dead"}

\* Steps of abort_job.
APCs == {"idle", "mark", "get", "sign", "kill", "stderr", "remove", "dead"}

TypeOK ==
    /\ kind \in [Runs -> Kinds]
    /\ pc \in [Workers -> [Runs -> PCs]]
    /\ attempt \in [Workers -> [Runs -> 1..MaxAttempts]]
    /\ why \in [Workers -> [Runs -> {"none", "contention", "rate_limit"}]]
    /\ mine \in [Workers -> [Runs -> Nat]]
    /\ cont \in [Runs -> {"none", "created", "running", "exited"}]
    /\ gen \in [Runs -> Nat]
    /\ localFlag \in [Workers -> SUBSET Runs]
    /\ redisFlag \in SUBSET Runs
    /\ armed \in BOOLEAN
    /\ redisUp \in BOOLEAN
    /\ apc \in [Workers -> [Runs -> APCs]]
    /\ held \in [Workers -> [Runs -> Nat]]
    /\ hardKill \in SUBSET Runs
    /\ dones \in [Workers -> [Runs -> Nat]]
    /\ stderrOut \in [Runs -> SUBSET Nat]
    /\ posts \in [Runs -> Nat]
    /\ aborts \in [Runs -> Nat]
    /\ crashes \in Nat
    /\ outages \in Nat
    /\ killed \in SUBSET Runs
    /\ signalled \in [Runs -> SUBSET Nat]
    /\ early \in SUBSET Runs

Init ==
    /\ kind \in [Runs -> Kinds]
    /\ pc = [w \in Workers |-> [r \in Runs |-> "idle"]]
    /\ attempt = [w \in Workers |-> [r \in Runs |-> 1]]
    /\ why = [w \in Workers |-> [r \in Runs |-> "none"]]
    /\ mine = [w \in Workers |-> [r \in Runs |-> 0]]
    /\ cont = [r \in Runs |-> "none"]
    /\ gen = [r \in Runs |-> 0]
    /\ localFlag = [w \in Workers |-> {}]
    /\ redisFlag = {}
    /\ armed = FALSE
    /\ redisUp = TRUE
    /\ apc = [w \in Workers |-> [r \in Runs |-> "idle"]]
    /\ held = [w \in Workers |-> [r \in Runs |-> 0]]
    /\ hardKill = {}
    /\ dones = [w \in Workers |-> [r \in Runs |-> 0]]
    /\ stderrOut = [r \in Runs |-> {}]
    /\ posts = [r \in Runs |-> 0]
    /\ aborts = [r \in Runs |-> 0]
    /\ crashes = 0
    /\ outages = 0
    /\ killed = {}
    /\ signalled = [r \in Runs |-> {}]
    /\ early = {}

-----------------------------------------------------------------------------
(***************************************************************************)
(* Helpers.                                                                *)
(***************************************************************************)

\* Mutant of IsAborted: without the Redis mirror.
IsAbortedHere(w, r) == r \in localFlag[w]

\* is_aborted: this process's own record first, the Redis mirror second; a
\* Redis that does not answer counts as "not aborted".
IsAborted(w, r) == r \in localFlag[w] \/ (redisUp /\ r \in redisFlag)

\* The engine still holds incarnation g of r's container.
Present(r, g) == cont[r] # "none" /\ gen[r] = g

GoTo(w, r, from, to) == pc[w][r] = from /\ pc' = [pc EXCEPT ![w][r] = to]

AbortGoTo(w, r, from, to) ==
    apc[w][r] = from /\ apc' = [apc EXCEPT ![w][r] = to]

\* Mutant of CanRetry: one attempt too many.
CanRetryOnceMore(w, r) == kind[r] = "codex" /\ attempt[w][r] <= MaxAttempts

\* Only codex runs get more than one attempt.
CanRetry(w, r) == kind[r] = "codex" /\ attempt[w][r] < MaxAttempts

\* Mutant of AbortedExit: an abort seen by the retry loop skips `done`.
AbortedExitSilent(w, r) == IF attempt[w][r] = 1 THEN "aborted" ELSE "forget"

\* Where a thread that sees the abort flag goes: _AbortedBeforeSpawn before
\* the first spawn, out of the retry loop (and into the `finally`) after it.
AbortedExit(w, r) == IF attempt[w][r] = 1 THEN "aborted" ELSE "finish"

\* Mutant of SpawnErrorExit: a failed respawn skips `done`.
SpawnErrorExitSilent(w, r) == IF attempt[w][r] = 1 THEN "error" ELSE "forget"

\* Where a failed containers.run goes.
SpawnErrorExit(w, r) == IF attempt[w][r] = 1 THEN "error" ELSE "finish"

\* Mutant of AfterDone: the spawn-error handler forgets its `return`.
AfterDoneFallsThrough(r, step) == IF step = "error" THEN "finish" ELSE "forget"

\* What follows _publish_done: nothing after a spawn error, the removal of a
\* monitor's container, or _forget_run at once.
AfterDone(r, step) ==
    IF step = "error" THEN "end"
    ELSE IF step = "finish" /\ kind[r] = "monitor" THEN "discard" ELSE "forget"

\* One more failure of Redis or of the engine.
Outage == outages < MaxOutages /\ outages' = outages + 1

\* The log stream, or container.wait, ends once the container has stopped.
StreamOver(w, r) == ~(Present(r, mine[w][r]) /\ cont[r] = "running")

\* Mutant of AfterKill: the container is removed before its stderr is read.
AfterKillUnread(r) == "remove"

\* abort_job reads a killed CLI container's stderr before removing it.
AfterKill(r) == IF kind[r] = "monitor" THEN "remove" ELSE "stderr"

\* container.remove(force=True) on incarnation g; a container that is
\* already gone raises, and every caller swallows that.
Remove(r, g) == cont' = IF Present(r, g) THEN [cont EXCEPT ![r] = "none"] ELSE cont

\* _fetch_and_publish_cli_stderr on incarnation g: what a stopped container
\* wrote, published when both the container and Redis are there.
PublishStderr(r, g) ==
    stderrOut' = IF Present(r, g) /\ cont[r] = "exited" /\ redisUp
                   THEN [stderrOut EXCEPT ![r] = @ \union {g}] ELSE stderrOut

-----------------------------------------------------------------------------
(***************************************************************************)
(* POST /execute and the thread it starts.                                 *)
(***************************************************************************)

\* execute_job: a body that names exactly one kind of work is one more POST of
\* its run; any other is answered 400 and reaches nothing.
Posts(r) == posts[r] < MaxPosts /\ posts' = [posts EXCEPT ![r] = @ + 1]

\* start_job: the first POST of a run on this process starts a thread, a
\* retried one on the same process is ignored.
StartJob(w, r) ==
    /\ Posts(r)
    /\ pc[w][r] # "dead"
    /\ pc' = IF pc[w][r] = "idle" THEN [pc EXCEPT ![w][r] = "prep"] ELSE pc
    /\ UNCHANGED <<kind, attempt, why, mine, engineVars, flagVars, armed, abortVars,
                   streamVars, faultVars, aborts>>

\* Attachments, container arguments and image pull, and their failure.  (Before
\* them the thread builds its Redis client, which connects to nothing: only a
\* malformed URL could end the thread there, without a `done`.)
Prepare(w, r) ==
    /\ GoTo(w, r, "prep", "gate")
    /\ UNCHANGED <<kind, attempt, why, mine, engineVars, flagVars, armed, abortVars,
                   streamVars, faultVars, callVars>>

PrepareFails(w, r) ==
    /\ GoTo(w, r, "prep", "error")
    /\ UNCHANGED <<kind, attempt, why, mine, engineVars, flagVars, armed, abortVars,
                   streamVars, faultVars, callVars>>

\* The one abort check before the first spawn; a codex run then waits for
\* the shared cooldown.
CheckAborted(w, r) ==
    /\ \/ IsAborted(w, r) /\ GoTo(w, r, "gate", AbortedExit(w, r))
       \/ ~IsAborted(w, r) /\ kind[r] = "codex" /\ GoTo(w, r, "gate", "cool")
       \/ ~IsAborted(w, r) /\ kind[r] # "codex" /\ GoTo(w, r, "gate", "create")
    /\ UNCHANGED <<kind, attempt, why, mine, engineVars, flagVars, armed, abortVars,
                   streamVars, faultVars, callVars>>

\* _codex_429_cooldown_wait: the abort flag is only read while the cooldown
\* is armed; a Redis error and the wait bound both let the caller proceed.
CooldownWait(w, r) ==
    /\ LET stop == armed /\ redisUp /\ IsAborted(w, r)
       IN  \/ ~stop /\ GoTo(w, r, "cool", "create")
           \/ stop /\ GoTo(w, r, "cool", AbortedExit(w, r))
    /\ UNCHANGED <<kind, attempt, why, mine, engineVars, flagVars, armed, abortVars,
                   streamVars, faultVars, callVars>>

\* containers.run, first half: the engine accepts the name if it is free.
CreateContainer(w, r) ==
    /\ GoTo(w, r, "create", "start")
    /\ cont[r] = "none"
    /\ cont' = [cont EXCEPT ![r] = "created"]
    /\ gen' = [gen EXCEPT ![r] = @ + 1]
    /\ mine' = [mine EXCEPT ![w][r] = gen[r] + 1]
    /\ UNCHANGED <<kind, attempt, why, flagVars, armed, abortVars, streamVars,
                   faultVars, callVars>>

\* containers.run, second half.
StartContainer(w, r) ==
    /\ GoTo(w, r, "start", "stream")
    /\ Present(r, mine[w][r])
    /\ cont' = [cont EXCEPT ![r] = "running"]
    /\ UNCHANGED <<kind, attempt, why, mine, gen, flagVars, armed, abortVars,
                   streamVars, faultVars, callVars>>

\* containers.run raises: name conflict, engine error, or the container was
\* removed between its creation and its start.  What was created stays.
SpawnFails(w, r) ==
    /\ pc[w][r] \in {"create", "start"}
    /\ pc' = [pc EXCEPT ![w][r] = SpawnErrorExit(w, r)]
    /\ UNCHANGED <<kind, attempt, why, mine, engineVars, flagVars, armed, abortVars,
                   streamVars, faultVars, callVars>>

StreamEnds(w, r) ==
    /\ GoTo(w, r, "stream", "fetch")
    /\ StreamOver(w, r)
    /\ UNCHANGED <<kind, attempt, why, mine, engineVars, flagVars, armed, abortVars,
                   streamVars, faultVars, callVars>>

\* A monitor run publishes `done` before it removes its container.
AfterFetch(r) == IF kind[r] = "monitor" THEN "finish" ELSE "remove"

\* Post-exit fetch: stderr of a CLI run, the whole output of a monitor run.
FetchOutput(w, r) ==
    /\ GoTo(w, r, "fetch", AfterFetch(r))
    /\ PublishStderr(r, mine[w][r])
    /\ UNCHANGED <<kind, attempt, why, mine, engineVars, flagVars, armed, abortVars,
                   dones, faultVars, callVars>>

\* What the attempt wrote decides between another one and the end of the run.
Judge(w, r) ==
    \/ /\ CanRetry(w, r)
       /\ GoTo(w, r, "remove", "retry")
       /\ attempt' = [attempt EXCEPT ![w][r] = @ + 1]
       /\ \E y \in {"contention", "rate_limit"} : why' = [why EXCEPT ![w][r] = y]
    \/ GoTo(w, r, "remove", "finish") /\ UNCHANGED <<attempt, why>>

\* End of _stream_cold_attempt: the container is removed first.
EndAttempt(w, r) ==
    /\ Remove(r, mine[w][r])
    /\ Judge(w, r)
    /\ UNCHANGED <<kind, mine, gen, flagVars, armed, abortVars, streamVars, faultVars,
                   callVars>>

\* Top of the retry loop (why is read here, and only here): a flagged run is
\* not respawned; a 429 arms the cooldown and sleeps abortably, contention
\* sleeps plainly.
RetryCheck(w, r) ==
    /\ \/ IsAborted(w, r) /\ GoTo(w, r, "retry", AbortedExit(w, r)) /\ UNCHANGED armed
       \/ /\ ~IsAborted(w, r) /\ why[w][r] = "rate_limit"
          /\ GoTo(w, r, "retry", "backoff")
          /\ armed' = (armed \/ redisUp)
       \/ /\ ~IsAborted(w, r) /\ why[w][r] = "contention"
          /\ GoTo(w, r, "retry", "nap") /\ UNCHANGED armed
    /\ why' = [why EXCEPT ![w][r] = "none"]
    /\ UNCHANGED <<kind, attempt, mine, engineVars, flagVars, abortVars,
                   streamVars, faultVars, callVars>>

\* _sleep_abortable and time.sleep.
BackoffOver(w, r) ==
    /\ \/ GoTo(w, r, "backoff", "cool")
       \/ GoTo(w, r, "nap", "cool")
       \/ IsAborted(w, r) /\ GoTo(w, r, "backoff", AbortedExit(w, r))
    /\ UNCHANGED <<kind, attempt, why, mine, engineVars, flagVars, armed, abortVars,
                   streamVars, faultVars, callVars>>

\* The terminal sentinel; a Redis error is logged and swallowed, and nothing
\* publishes it again.  Only a monitor run still has its container to
\* remove, and the spawn-error path forgets nothing.
PublishDone(w, r) ==
    /\ \E step \in {"finish", "aborted", "error"} : GoTo(w, r, step, AfterDone(r, step))
    /\ dones' = IF redisUp THEN [dones EXCEPT ![w][r] = @ + 1] ELSE dones
    /\ UNCHANGED <<kind, attempt, why, mine, engineVars, flagVars, armed, abortVars,
                   stderrOut, faultVars, callVars>>

\* raw_command: the container is removed after `done`.
DiscardMonitor(w, r) ==
    /\ GoTo(w, r, "discard", "forget")
    /\ Remove(r, mine[w][r])
    /\ UNCHANGED <<kind, attempt, why, mine, gen, flagVars, armed, abortVars,
                   streamVars, faultVars, callVars>>

\* An engine call raises, and the thread goes on without it: a wait while the
\* container still runs (a broken log stream ends in the same wait), the fetch
\* of what it wrote, its removal.
EngineFails(w, r) ==
    /\ Outage
    /\ \/ GoTo(w, r, "stream", "fetch") /\ UNCHANGED <<attempt, why>>
       \/ GoTo(w, r, "fetch", AfterFetch(r)) /\ UNCHANGED <<attempt, why>>
       \/ Judge(w, r)
       \/ GoTo(w, r, "discard", "forget") /\ UNCHANGED <<attempt, why>>
    /\ UNCHANGED <<kind, mine, engineVars, flagVars, armed, abortVars, streamVars,
                   redisUp, crashes, callVars>>

\* _forget_run.
ForgetRun(w, r) ==
    /\ GoTo(w, r, "forget", "end")
    /\ localFlag' = [localFlag EXCEPT ![w] = @ \ {r}]
    /\ redisFlag' = IF redisUp THEN redisFlag \ {r} ELSE redisFlag
    /\ UNCHANGED <<kind, attempt, why, mine, engineVars, armed, abortVars, streamVars,
                   faultVars, callVars>>

\* A monitor run's own kill timer.
MonitorTimeout(w, r) ==
    /\ kind[r] = "monitor" /\ pc[w][r] = "stream"
    /\ Present(r, mine[w][r]) /\ cont[r] = "running"
    /\ cont' = [cont EXCEPT ![r] = "exited"]
    /\ UNCHANGED <<kind, runVars, gen, flagVars, armed, abortVars, streamVars,
                   faultVars, callVars>>

-----------------------------------------------------------------------------
(***************************************************************************)
(* POST /abort.                                                            *)
(***************************************************************************)

AbortCall(w, r) ==
    /\ aborts[r] < MaxAborts
    /\ AbortGoTo(w, r, "idle", "mark")
    /\ aborts' = [aborts EXCEPT ![r] = @ + 1]
    /\ UNCHANGED <<kind, runVars, engineVars, flagVars, armed, held, hardKill, killed,
                   signalled, early, streamVars, faultVars, posts>>

\* mark_aborted: locally, then mirrored to Redis, before anything is killed.
MarkAborted(w, r) ==
    /\ AbortGoTo(w, r, "mark", "get")
    /\ localFlag' = [localFlag EXCEPT ![w] = @ \union {r}]
    /\ redisFlag' = IF redisUp THEN redisFlag \union {r} ELSE redisFlag
    /\ early' = IF \A v \in Workers : pc[v][r] \in {"idle", "prep", "gate"}
                  THEN early \union {r} ELSE early
    /\ UNCHANGED <<kind, runVars, engineVars, armed, held, hardKill, killed,
                   signalled, streamVars, faultVars, callVars>>

\* containers.get on the run's name: nothing there answers "not_found".
AbortLookup(w, r) ==
    /\ \/ /\ cont[r] # "none"
          /\ AbortGoTo(w, r, "get", "sign")
          /\ held' = [held EXCEPT ![w][r] = gen[r]]
       \/ /\ cont[r] = "none"
          /\ AbortGoTo(w, r, "get", "idle")
          /\ UNCHANGED held
    /\ UNCHANGED <<kind, runVars, engineVars, flagVars, armed, hardKill, killed,
                   signalled, early, streamVars, faultVars, callVars>>

\* _mark_hard_kill, before the signal.
MarkHardKill(w, r) ==
    /\ AbortGoTo(w, r, "sign", "kill")
    /\ hardKill' = IF redisUp THEN hardKill \union {r} ELSE hardKill
    /\ UNCHANGED <<kind, runVars, engineVars, flagVars, armed, held, killed,
                   signalled, early, streamVars, faultVars, callVars>>

\* container.kill(): only a running container takes the signal.
AbortKill(w, r) ==
    /\ AbortGoTo(w, r, "kill", AfterKill(r))
    /\ LET hit == Present(r, held[w][r]) /\ cont[r] = "running"
       IN  /\ cont' = IF hit THEN [cont EXCEPT ![r] = "exited"] ELSE cont
           /\ signalled' = IF hit THEN [signalled EXCEPT ![r] = @ \union {gen[r]}]
                                  ELSE signalled
    /\ UNCHANGED <<kind, runVars, gen, flagVars, armed, held, hardKill, killed,
                   early, streamVars, faultVars, callVars>>

\* The killed CLI container's stderr, before anything removes it.
AbortStderr(w, r) ==
    /\ AbortGoTo(w, r, "stderr", "remove")
    /\ PublishStderr(r, held[w][r])
    /\ UNCHANGED <<kind, runVars, engineVars, flagVars, armed, held, hardKill, killed,
                   signalled, early, dones, faultVars, callVars>>

AnswerKilled(w, r) ==
    killed' = killed \union {r} /\ held' = [held EXCEPT ![w][r] = 0]

AbortRemove(w, r) ==
    /\ AbortGoTo(w, r, "remove", "idle")
    /\ Remove(r, held[w][r])
    /\ AnswerKilled(w, r)
    /\ UNCHANGED <<kind, runVars, gen, flagVars, armed, hardKill, signalled, early,
                   streamVars, faultVars, callVars>>

\* An engine call of abort_job raises.  One that finds nothing answers
\* "not_found"; a kill, a fetch or a removal that fails is logged, and the
\* answer is "killed" all the same.
AbortCallFails(w, r) ==
    /\ Outage
    /\ \/ AbortGoTo(w, r, "get", "idle") /\ UNCHANGED <<held, killed>>
       \/ AbortGoTo(w, r, "kill", AfterKill(r)) /\ UNCHANGED <<held, killed>>
       \/ AbortGoTo(w, r, "stderr", "remove") /\ UNCHANGED <<held, killed>>
       \/ AbortGoTo(w, r, "remove", "idle") /\ AnswerKilled(w, r)
    /\ UNCHANGED <<kind, runVars, engineVars, flagVars, armed, hardKill, signalled, early,
                   streamVars, redisUp, crashes, callVars>>

-----------------------------------------------------------------------------
(***************************************************************************)
(* The environment: containers exit, the cooldown key expires, Redis and   *)
(* workers fail.                                                           *)
(***************************************************************************)

ContainerExits(r) ==
    /\ cont[r] = "running"
    /\ cont' = [cont EXCEPT ![r] = "exited"]
    /\ UNCHANGED <<kind, runVars, gen, flagVars, armed, abortVars, streamVars,
                   faultVars, callVars>>

CooldownExpires ==
    /\ armed
    /\ armed' = FALSE
    /\ UNCHANGED <<kind, runVars, engineVars, flagVars, abortVars, streamVars,
                   faultVars, callVars>>

RedisFails ==
    /\ redisUp /\ Outage
    /\ redisUp' = FALSE
    /\ UNCHANGED <<kind, runVars, engineVars, flagVars, armed, abortVars, streamVars,
                   crashes, callVars>>

RedisRecovers ==
    /\ ~redisUp
    /\ redisUp' = TRUE
    /\ UNCHANGED <<kind, runVars, engineVars, flagVars, armed, abortVars, streamVars,
                   crashes, outages, callVars>>

\* Every thread of the process dies with it; containers and Redis do not.
Crash(w) ==
    /\ crashes < MaxCrashes
    /\ \E r \in Runs : pc[w][r] # "dead"
    /\ crashes' = crashes + 1
    /\ pc' = [pc EXCEPT ![w] = [r \in Runs |-> "dead"]]
    /\ apc' = [apc EXCEPT ![w] = [r \in Runs |-> "dead"]]
    /\ localFlag' = [localFlag EXCEPT ![w] = {}]
    /\ attempt' = [attempt EXCEPT ![w] = [r \in Runs |-> 1]]
    /\ why' = [why EXCEPT ![w] = [r \in Runs |-> "none"]]
    /\ held' = [held EXCEPT ![w] = [r \in Runs |-> 0]]
    /\ UNCHANGED <<kind, mine, engineVars, redisFlag, armed, hardKill, killed,
                   signalled, early, streamVars, redisUp, outages, callVars>>

-----------------------------------------------------------------------------
RunStep(w, r) ==
    \/ Prepare(w, r) \/ PrepareFails(w, r)
    \/ CheckAborted(w, r) \/ CooldownWait(w, r)
    \/ CreateContainer(w, r) \/ StartContainer(w, r) \/ SpawnFails(w, r)
    \/ StreamEnds(w, r) \/ FetchOutput(w, r) \/ EndAttempt(w, r)
    \/ RetryCheck(w, r) \/ BackoffOver(w, r)
    \/ PublishDone(w, r) \/ DiscardMonitor(w, r) \/ ForgetRun(w, r)

AbortStep(w, r) ==
    \/ MarkAborted(w, r) \/ AbortLookup(w, r) \/ MarkHardKill(w, r)
    \/ AbortKill(w, r) \/ AbortStderr(w, r) \/ AbortRemove(w, r)

Next ==
    \/ \E w \in Workers, r \in Runs :
          \/ StartJob(w, r) \/ RunStep(w, r) \/ MonitorTimeout(w, r)
          \/ AbortCall(w, r) \/ AbortStep(w, r)
          \/ EngineFails(w, r) \/ AbortCallFails(w, r)
    \/ \E r \in Runs : ContainerExits(r)
    \/ CooldownExpires
    \/ RedisFails \/ RedisRecovers
    \/ \E w \in Workers : Crash(w)

Spec == Init /\ [][Next]_vars

\* A thread and an abort call that can take a step do take it: they are OS
\* threads that nothing suspends.  Nothing is assumed of the container (an
\* agent may run for ever) nor of callers.
Fairness ==
    \A w \in Workers, r \in Runs : WF_vars(RunStep(w, r)) /\ WF_vars(AbortStep(w, r))

FairSpec == Spec /\ Fairness

-----------------------------------------------------------------------------
(***************************************************************************)
(* Safety.                                                                 *)
(***************************************************************************)

IsDone(r) == \E w \in Workers : dones[w][r] > 0

\* The comment on _STARTED_RUN_IDS and "a second `done` is noise on the
\* stream" (abort_job): one POST yields at most one `done` on the run's
\* stream, whatever is aborted, retried, killed or crashes meanwhile.
DoneAtMostOnce ==
    \A r \in Runs : posts[r] <= 1 =>
        \A w, v \in Workers :
            /\ dones[w][r] <= 1
            /\ w # v => dones[w][r] = 0 \/ dones[v][r] = 0

\* _run_job_blocking on the check before the spawn: an abort that lands while
\* the run is still being prepared -- on any worker, or even before the POST
\* itself -- keeps the container from ever being created, while Redis answers.
AbortedWhilePreparing ==
    \A r \in early : posts[r] <= 1 /\ outages = 0 => gen[r] = 0

\* mark_aborted's reason to exist: once abort_job has answered "killed", the
\* retry loop does not bring the run's container back, unless Redis or an
\* engine call failed ("killed" is answered although a kill or a removal did).
KilledStaysDead ==
    \A r \in killed : posts[r] <= 1 /\ outages = 0 => cont[r] \in {"none", "exited"}

\* A container that really took the signal, and whose run its own thread ends.
SignalledAndDone(w, r) ==
    outages = 0 /\ dones[w][r] > 0 /\ mine[w][r] \in signalled[r]

\* _mark_hard_kill, and the race of abort_job with _stream_cold_attempt to read
\* and to remove a killed container: AP-MT finalises a run on `done`, so once
\* that is out the hard-kill marker is visible and, whoever won, the stderr of
\* the CLI is on the stream.  (Neither while Redis or an engine call fails; the
\* stderr with one abort: a second one that resolved the container before it was
\* started can remove it unread.)
KillIsToldBeforeDone ==
    \A w \in Workers, r \in Runs : SignalledAndDone(w, r) =>
        /\ r \in hardKill
        /\ aborts[r] <= 1 /\ kind[r] # "monitor" => mine[w][r] \in stderrOut[r]

-----------------------------------------------------------------------------
(***************************************************************************)
(* Liveness, under FairSpec, with no crash, and no failure of Redis or of  *)
(* an engine call.                                                         *)
(***************************************************************************)

\* "Guaranteed on every exit path": unless its agent runs for ever, a run
\* that was accepted gets its `done`.
AcceptedIsDone ==
    \A r \in Runs : (<>(posts[r] > 0) /\ <>[](cont[r] # "running")) => <>IsDone(r)

\* An abort that answers "killed" is followed by the
\* run's `done` even if the agent would never have stopped by itself.
KilledIsDone == \A r \in Runs : (r \in killed) ~> IsDone(r)

-----------------------------------------------------------------------------
(***************************************************************************)
(* What agents-platform sees of a run: the abstract specification this one *)
(* implements while a run is posted once and Redis and the engine answer.  *)
(***************************************************************************)
Phase(r) ==
    CASE cont[r] = "running" -> "live"
      [] cont[r] # "running" /\ IsDone(r) -> "over"
      [] cont[r] # "running" /\ ~IsDone(r) /\ posts[r] > 0 -> "accepted"
      [] OTHER -> "unseen"

Contract == INSTANCE RunContract WITH
    phase <- [r \in Runs |-> Phase(r)], cancelled <- early \union killed

\* ColdRun implements RunContract: every step is a step of the contract or
\* changes nothing agents-platform can see.
ImplementsContract == Contract!Spec
=============================================================================
