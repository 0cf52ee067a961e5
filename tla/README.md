# Verification of the agents-platform runner

The repository is the workspace-side runner of Agents Platform: it receives
runs over HTTP, executes them in podman containers, streams their output into
Redis, keeps a pool of warm containers for chat sessions, sweeps a Kanban
board for work, and indexes finished runs.  This directory holds TLA+ modules
of its concurrent parts, TLC configurations that check them on small
instances, and TLAPS proofs.  `PROJECT.json` maps every definition to the lines
it models, and lists the runs, the mutants that show each property can fail,
and the hazards.

Paths below are relative to `src/agents_platform_runners_app/` unless they say
otherwise.

## 1. Inventory

The service is **ten uvicorn worker processes** behind one port.  They share
nothing in memory.  What they share is one Redis (run streams, abort flags,
markers, cooldown, generation, retry queue), one podman engine (containers
looked up by name), and the platform's HTTP API.  A retried or related request
(POST, abort) may reach any of the ten.

| Component | State | Operations | Talks to |
|---|---|---|---|
| Cold runs (`execute.py`) | per-process set of started runs, per-process abort set; Redis abort flag, hard-kill marker, run stream; one container named after the run | `start_job`, `_run_job_blocking`, `_run_cold_agent_with_retry`, `_stream_cold_attempt`, `abort_job` | Redis, podman, execution index |
| Codex 429 cooldown (`execute.py`, codex relay) | one Redis key with a TTL | arm (doubling), wait | cold runs, warm relays |
| Warm pool (`warm_pool.py`, `execute.py`) | containers named by session, their epoch label, age and drain flag; per-process session locks; Redis generation | `get_or_create`, `drain`, `reap`, `dispatch_turn`, `bump_generation` | podman, Redis |
| Warm container (`agent-images/shared`) | two FIFOs, `current_run_id`, drain flag; CLI process, relay | wrapper poll loop, TTL watcher, relay loop | Redis stream |
| Kanban sweep (`kanban_dispatch.py`, watchdog in `plugin.py`) | nothing of its own: card status and `AgentRunId` on the board | `sweep_ready`, `claim_card` | board API, platform API, the monolith's webhook |
| Shared codex home (`execute.py`) | one `$CODEX_HOME` per install: `auth.json`, `config.toml`, a lock file | stage, resync, fill, patch, render | codex, the workspace's own login |
| Execution index client (`execution_index.py`) | Redis retry hash and counters | `index_run`, `sweep_retry_queue`, warm watcher | platform API, two index targets |
| Index store and service (`exec_index_*.py`) | Postgres table behind one module-level connection | upsert, delete, search, prune | the client |
| Credentials (`identity_token.py`, `execute_secret.py`, `runner_registration.py`) | persisted config, live config of each worker, the platform's copy | mint, persist, register, reassert | workspace API, platform |
| Lifecycle (`plugin.py`) | live config, watchdog intervals | activate, config saved or reloaded, workspace MCP changed | all of the above |
| Provisioner (`agent_provisioner.py`) | rows on the platform with tombstones | seed, update, restore, refresh credentials | platform API |
| Routes, gallery, MCP server, telemetry, pushes, CLI, scripts | none, or a cache | forwarding and formatting | the above |

What is hard, and what makes each part correct:

* **Cold runs.**  An abort races a spawn, a retry and the stream reader from
  another process.  A POST may be retried.  Redis may be down when the one
  `done` entry is to be published.  Correct means: one `done` per run, after
  the container stopped and its stderr was published; a killed run stays dead;
  every accepted run ends.
* **Warm pool.**  A container may be judged reusable, renamed, drained by its
  own clock, condemned and removed by four actors.  Correct means: no turn is
  truncated by a drain, no turn is served by a container of another
  generation, the ceiling is exceeded by no more than concurrent spawns (and
  spawns that could not be counted), and no dead container stays.
* **Warm container.**  Lines are attributed to a run by a file the next turn
  overwrites.  Correct means: each turn's lines and `done` reach its own stream.
* **Kanban sweep.**  The board has no compare-and-set.  Correct means: one run
  per Ready card, and a Ready card is swept in the end.
* **Shared codex home.**  Concurrent spawns bring one file up to date from copies
  of different ages, while codex refreshes it.  Correct means: a newer login is
  never replaced by an older one, and no spawn hangs on the lock.
* **Execution index.**  A retry queue all workers sweep, watcher threads that die
  with their process.  Correct means: a finished run is indexed, queued or
  visibly given up, and the queue empties.
* **Index store.**  All requests share one connection, hence one transaction.
  Correct means: what was acknowledged is stored, and a run's rows are one
  version of it.
* **Credentials.**  Ten workers activate at once.  Correct means: what the
  platform holds and what every worker checks agree in the end.
* **Provisioner.**  Activations overlap with each other and with users.  Correct
  means: declared objects come to exist with valid references and the token of the
  workspace that wrote them last, and what a user edited stays.

`PROJECT.json` lists the hazards at their lines.

## 2. Modules

| Module | Models | Status |
|---|---|---|
| `ColdRun` | a cold or monitor run, its aborts, crashes and outages | checked, safety proved |
| `RunContract` | what the platform sees of a run; `ColdRun` implements it | checked as a property of `ColdRun`, proved |
| `ColdRunProofs` | TLAPS proofs about `ColdRun` | proved |
| `MCColdRun` | worker symmetry for TLC | |
| `KanbanSweep` | `sweep_ready` from several dispatchers | checked, safety proved |
| `KanbanSweepProofs` | TLAPS proofs about `KanbanSweep` | proved |
| `WarmPool` | the warm pool with the wrapper's loops | checked, safety proved |
| `WarmPoolProofs` | TLAPS proofs about `WarmPool` | proved |
| `MCWarmPool` | symmetry for TLC | |
| `TurnFeed` | how turns reach one warm container: dispatch, abort, drain | parts of `WarmTurn` |
| `ClaudeRelay`, `CodexRelay` | the CLI and the relay inside it | parts of `WarmTurn` |
| `WarmTurn` | the three composed, with the properties of a turn | checked, safety proved |
| `TurnContract` | what the caller of a turn sees; `WarmTurn` implements it | checked as a property of `WarmTurn`, proved |
| `WarmTurnProofs` | TLAPS proofs about `WarmTurn` | proved |
| `ExecIndex`, `MCExecIndex` | `index_run` and its callers, the retry queue | checked, safety proved |
| `ExecIndexProofs` | TLAPS proofs about `ExecIndex` | proved |
| `ExecIndexStore`, `MCExecIndexStore` | the requests of the index service on one connection | checked, safety proved |
| `ExecIndexStoreProofs` | TLAPS proofs about `ExecIndexStore` | proved |
| `Credentials` | token, secret and sweep flag between disk, workers and platform | checked |
| `Provisioner`, `MCProvisioner` | seeding and reconciling what applications contribute | checked, proved |
| `ProvisionerProofs` | TLAPS proofs about `Provisioner` | proved |
| `CodexHome` | the login and configuration all codex containers share | checked, safety proved |
| `CodexHomeProofs` | TLAPS proofs about `CodexHome` | proved |

### ColdRun

Actors are worker processes.  `pc[w][r]` is where worker `w`'s thread for run
`r` stands in `_run_job_blocking`; `apc[w][r]` is where its `abort_job` call
stands.  Each engine call, each Redis call and each check is a step of its
own, so every interleaving the ten processes can produce between them exists
in the model.  `containers.run` is two steps, because the engine creates and
then starts.  Any engine call may raise (`SpawnFails`, `EngineFails`,
`AbortCallFails`): a thread whose wait fails goes on to `done` while its container runs, and an abort whose kill or removal fails answers
"killed" all the same.  `outages` counts those failures and Redis outages alike,
and the properties that a swallowed failure breaks say so.

| Variable | Code |
|---|---|
| `kind` | `cli` and `raw_command` of the job: a claude, codex or raw ("monitor") run |
| `attempt`, `why` | loop counter and `reason` of `_run_cold_agent_with_retry` |
| `cont`, `gen` | the container that holds the run's name and which incarnation it is; `mine` and `held` are the objects a thread or an abort keeps |
| `localFlag`, `redisFlag` | `_ABORTED_RUN_IDS` and its Redis mirror |
| `hardKill` | the hard-kill marker |
| `dones`, `stderrOut` | the run's stream, reduced to its `done` entries and published stderr |
| `armed` | the 429 cooldown key |
| `killed`, `signalled`, `early` | history, for the properties only |

A worker is one process for its whole life: a crash ends it, and its
replacement is another member of `Workers`.  The stream's text, the argv and
mounts, the isolated directories and the name registry (for a cold run always
one of the names `abort_job` tries anyway) are left out.

`RunContract` is the abstract specification: a run is unseen, accepted, live
or over, may go live again between attempts, and a cancelled run is not
launched afresh.  `ColdRun!ImplementsContract` maps `cont`, `dones` and `posts`
to it.

### KanbanSweep

Each call of `sweep_ready` to the board or to the platform is a step.  The
dispatchers are the watchdog, a tool call and the monolith's webhook handler
(external; modelled by the claim protocol `claim_card` documents for it).
`set_property` and `move` do not look at `ok`, so a move the board refuses with a
200 passes for done (`unmoved`).
`Foreign` names the dispatchers whose runs live in another database, which
`latest_run` does not see.  A call may fail unapplied, be applied and fail, or
the whole pass may be cancelled; `MaxFaults` bounds these, `MaxRequeues` bounds
a human moving the card back to Ready.

### WarmPool

A container is named by the turn that spawned it, and its epoch label is the
generation that turn read.  `pool[c]` is what the engine and the wrapper make of
it.  `get_or_create` is followed call by call: labels, force removal, the reuse
check, the rename, the ceiling, the building
of the container's arguments, create, start.  `lock[w][s]` is the session lock
of one process, so two workers do race on one session.  The drain thread, the
reaper's listing and its later removal or condemnation, the wrapper's TTL
watcher, poll loop and last-resort kill are actions of their own.  A restart
kills every thread, leaves the containers and bumps the generation.

Calls fail one by one, as they do in the code: `_labels`, the reuse check and the
rename (which falls back to a removal, which may fail too), the start of a
created container, the count of `_check_ceiling`.  That count fails open: the
turn goes on to spawn and is in `uncounted`.  `peak` is the most counted spawns
that were ever under way at once.

Left out: two renames within one second whose names collide, the boot-time wait
for the ready marker, and a sweep's removal that fails (the next sweep plans it
again).  A `dispatch_turn` that fails is `TurnFeed`'s.

### WarmTurn

`WarmPool` asks which container serves a turn; `WarmTurn` asks what the turn's
stream shows.  It follows the turns of one session through one container.
`disp[t]` is where the thread in `_dispatch_warm_turn` stands: the file is
truncated, then written, then the prompt goes into the FIFO, and a call that
fails is reported on the stream, even when the prompt had arrived.  `abort[t]`
is where `abort_job` stands between finding the container, killing it,
publishing `done` and removing it.  `stream[r]` is the run's Redis stream; an
entry carries who wrote it and whose work it shows.

For claude, `busy` is the turn it answers, `behind` the turns whose background
work will make it speak again, `out` the pipe to the relay, `relay` the line the
relay has read and the run it gave it to, `finalised` the relay's set.  For
codex, `job` is the loop of `main` and `_run_codex_turn`: attempt, lines held
back, whether the attempt spoke, which signature it saw.  A line that is not
JSON or holds no prompt is dropped without an end (`CodexSkips`).

agents-platform is external.  It sends a session's next turn once it has read
`done` or lost patience, as `abort_job`'s comment on the session's lock says.
So turns share a container only after it lost patience, or when a dispatch was
reported failed although the prompt had arrived.

`TurnContract` is the abstract specification: what the CLI writes in a turn
(`unheard`) goes into the turn's stream (`heard`), each line once and all of it
before the stream ends; nothing of the turn follows the end; and an attempt gives
way to another, at most three of them, only while nothing was heard.  A turn is
*released* from these promises when a fault or an abort hits it, when its
dispatch fails, or when another turn shares its container.
`WarmTurn!ImplementsContract` maps `said`, `stream` and `job` to it; the ends the
contract has are the relay's, as all others come with a release.

Left out: the text of lines and prompts, `turn_env`, the diagnostics, the
models cache, and the length of the cooldown wait (bounded, so it only takes
time) with its notices.

### ExecIndex

`pc[i]` is where a watcher or a sweep stands; `job[i]` is the outcome of the
`index_run` it called and has not acted on yet.  `queue` is the Redis hash,
`snapshot[s]` the copy of it a sweep works from, `started` and `resolved` the
two counters whose difference the doctor reports.  `index_run` is one step
(`IndexRun`): it only adds to the targets.  Its outcome and what its caller
does with it are two, with anything in between.  A cold run's thread and the
backfill script (`IndexCold`, `Backfill`) keep nothing of the outcome.  Settings
may be switched off or lose their targets, Redis may not answer, a watcher may
be counted and not get its thread, and the process may restart under everybody.

Left out: text, chunks and events of a run; which target took a document (one
is enough for the code); the day after which a watcher gives up, which is
`WatchFails` at any time.

### ExecIndexStore

`conn[k]` is one psycopg connection with its open transaction: pending rows, who
wrote them, whether an error aborted it.  `global` is `_conn`, `using[t]` the
connection a request thread was given, which may be no longer the global one.
`_get_conn` looks at `_conn` (`GetConn`) and returns what it is by then
(`TakeConn`); `_reset_conn` closes it (`CloseConn`) and forgets whatever it is by
then (`DropConn`).  Every statement, commit and connect is a step too.  Postgres is external:
changes become visible at a commit, locked rows make others wait, an error
aborts the transaction, and a commit of an aborted one rolls back without
raising.

Left out: embeddings, ranking and filters of a search (it reads), timestamps
(the age prune removes any set of whole upserts, the cap prune any rows).

### Credentials

`disk` is the saved configuration, `live[w]` worker `w`'s copy, `behind[w]` a
broadcast it has not taken in.  `pc[w]` is how far `activate` has come on `w`; it
blocks that worker's event loop, so it is a sequence of whole phases.
`tick[k][w]` is the thread of a watchdog: what it read, what it minted, what it
is about to post.  A `_persist` call goes over HTTP to any worker, which may
answer, apply it without an answer, or fail (`Persist`).  Reads of a config that
is being reloaded may see it empty (`Reads`), because the code clears the dict
before it fills it.

### Provisioner

`row[o]` is an object on the platform: absent, alive or deleted softly, its
content (the version seeded, or 0 once edited) and its gateway token.  A
workspace has a token of its own (`token[w]`), which its activations resolve from
its own `.mcp.json` (`Resolved`), so activations of two workspaces overwrite each
other's.  An activation lists a kind, creates or refreshes entry by entry, asks about a 409,
restores, goes on to the next kind and then reconciles: read, update, record.
Users edit, create and delete, and the gateway tokens rotate, at any point; a
call may fail, or be applied and its answer lost.  For each activation the
model keeps the objects a call of it failed for or a user deleted since
(`amiss`), and those whose token is not what it wrote, for want of an answer or
because another activation or a user wrote later (`theirs`).
The workspace's decision what to update is external (`MayUpdate`).

### CodexHome

A slot of `Spawns` runs spawns one after another: stage a private copy, take the
lock (or fail to open it), compare, copy (truncate, then fill), check the configuration, fill a home
that has none file by file, render, run.  An `auth.json` is a login, its mtime and
whether its `last_refresh` can be read; logins are numbered by a clock.  `codex
login` writes the real home in two steps, a running codex refreshes the home it
runs on without the lock.  A resync may raise at any of its calls
(`ResyncFails`), which the code logs and passes over.
`_patch_codex_warm_token_headers` reads and rewrites the configuration without a lock; the model has that as one step, as
what all writers put there is the same.

## 3. Runs

| Run | Shows | Instance |
|---|---|---|
| `cold_safety` | type; one `done`; early abort; killed stays dead; marker and stderr before `done` | two workers, one run of each kind, two posts, an abort, a crash, and an outage or a failing engine call |
| `cold_contract` | refinement of `RunContract`; every accepted or killed run is done | two workers, the code's three attempts, two aborts |
| `kanban_sweeps` | one run per card unless dispatchers raced; no run under a Ready card; a Ready card is swept | three dispatchers, one card, a fault (or a refusal that passes for success) and a requeue |
| `warm_safety` | ceiling, generation, drain | two turns, two sessions, two workers, and any two of: a bump, a restart, a failing call, an age limit passed, an impatient caller |
| `warm_collect` | no dead, drained or abandoned container stays | two turns, one session, one worker, any two of the same events |
| `warm_turn` | a turn's answer is whole and its own; one `done`; one codex attempt speaks; nothing after an abort's `done`; every turn sent is ended; refinement of `TurnContract` | two turns, both CLIs, one mishap |
| `exec_index` | no run slips through; the doctor's gap is what a restart killed; the queue empties | one run, two watchers, two sweeps, two attempts, one mishap |
| `exec_store` | acknowledged is stored unless another's error poisoned the transaction; a run is one version | upserts of two chunks and of one for one run, a search, a prune, one mishap |
| `exec_store_ack` | violation: acknowledged without being stored | the same |
| `credentials` | drift heals on every worker and on the platform | two workers, one token, two secrets, one mishap |
| `provisioner` | a seeding converges; references exist; edits survive | an agent config and the agent that names it, two workspaces with a token each that activate two versions, two mishaps |
| `codex_home` | a resync never leaves an older login; every spawn settles | two slots of spawns, a clock of three, one mishap |

A *mishap* is one event of the kinds its module's `MaxMishaps` names: a failed or
unanswered call, a restart, an act of a user.

**Why the bounds are enough.**  Every race in this code is between two workers,
or a worker and one background thread, over one run, one card, one session's
container, one object or one file; runs share only the cooldown key.  So one
run, one card and two turns are enough to show the races, and two workers are
enough for every pair of processes.  Three attempts are the code's own limit.
Two sessions are needed for the ceiling alone.  One crash, outage, abort or
restart is enough for each recovery path, which is not re-entrant.
In the warm runs `MaxEvents` is two: a container passing both the TTL and the
slack takes two, and so does a restart or a failing call together with an expiry
or a bump, which is what the recovery paths need.  One line before a claude result and two lines per codex attempt
tell a held line from a live one.  `exec_index` gives an entry two sweeps instead
of 24: a sweep that works from a stale copy can then put back an entry another
one took out or set its attempts back, which is all that more could do.
`exec_store` has upserts of different length because a shorter one must delete
what the longer one left; two connections are what two threads can open past
each other, and a connection forgotten while another thread uses it needs no
third (the proofs hold for any number).  `credentials` has one token, so the renewal of a token already held is not
exercised: the token and the secret travel the same way, and two secrets
already race.  `provisioner`
needs two mishaps, for a delete between two activations followed by a failed
restore, and for a token lost to another workspace's activation of which one
call failed.  In `codex_home` three ticks of the clock are a login, a newer login and
a refresh of one of them.  Deadlock is not checked where the system may stop
with its counters spent; in `provisioner` and `codex_home` it is.

**Fairness.**  Dispatch, run, abort, watcher and spawn threads are
operating-system threads that nothing suspends, so those a property waits for
have weak fairness on their steps.  So do the loops over a timer: the periodic
reaper, a Kanban dispatcher in `Ticking`, the hourly sweep of the index on some
worker, the leader's watchdogs, and the wrapper's loops.  The host's broadcast
after a save is assumed to arrive.  The kernel serves those who wait for a file
lock in turn (strong fairness on `Acquire`).  Nothing is assumed of an agent (it
may run for ever; only `warm_turn` assumes, with the relay's docstring, that a
CLI ends each turn it took), of callers, of Redis, Postgres or the platform
recovering, of a drain thread (it may die) or of the TTL watcher (the reaper
exists because it may fail).  `GraceOver` is fair because it is the passing of
time.

**What the liveness properties exclude.**  A run whose worker crashed, or whose
`done` fell into an outage, never ends: nothing in the code repairs that.
`SentIsEnded` excuses a turn that a refused XADD, a lost thread, a dying CLI or
another turn's abort hit, one whose line codex's relay dropped, one the container
stopped with, and one that shared the container with another.
`ReadyIsSwept` holds unless two dispatchers overwrite each other's claim for
ever, which the code permits (both stand down and try again at their next
tick); the run gives only the watchdog a tick.
`QueueDrains` says that an entry leaves the queue, not that its run was indexed:
a run may be queued again by another watcher, and may be given up.
`DriftHeals` excludes a watchdog's thread that puts its own value over that of a
newer save its worker had already taken in (`clobbered`): that worker then
registers a stale value until the next save or restart.

## 4. Findings

`exec_store_ack` shows one disagreement with `expect: violation`: `upsert_chunks`
promises that "a failed *write* must not report success", and it does report
success for rows that were rolled back, when another thread's statement failed
inside the transaction both share.

Met while modelling, and built into the models as what the code does (each is
an exception some property names, or a step with no property over it):

* `execute.py:3594` reads the abort flag once before the first spawn; a spawn
  already past the check is not stopped.  `_STARTED_RUN_IDS` (`execute.py:3768`)
  guards one process, not ten: a POST retried on another worker starts a second
  thread on the same stream.
* `claim_card` (`kanban_dispatch.py:305`) says exactly one side can win; two
  dispatchers that both re-read the card as Ready can win one after the other.
* `BoardClient.move` and `set_property` (`kanban_dispatch.py:181`) take any 200 for
  success, where `ready_cards` and `properties` look at `ok`: a move the board
  refused leaves the card in Ready under the run it fires, and the next tick
  fires it again (`unmoved`).
* `container.wait` and `kill` failures are swallowed (`execute.py:1107`, `3397`,
  `3681`): `done` can be out, and "killed" answered, while the container runs.
* `_check_ceiling` lets a spawn through when it cannot count
  (`warm_pool.py:627`), as its docstring says and
  `tests/test_warm_pool_ceiling.py:256` pins; the ceiling says nothing of these.
* Activations of two workspaces put their own gateway token over each other's
  (`agent_provisioner.py:429`); the last one wins.
* `start_after_stream_done` counts a watcher before it starts its thread
  (`execution_index.py:853`); one that cannot be started stays in the doctor's
  gap (`uncounted` in `ExecIndex`).
* `reap` (`warm_pool.py:496`) trusts the listed status and forces the removal of
  a container that may have been started since.
* `aw-warm-wrapper:129` kills the relay as soon as claude has exited, whatever is
  still in the pipe; that turn's `done` is then never published.
* `warm_pool.configure` and the bump of `on_workspace_mcp_changed`
  (`plugin.py:1074`) work from the settings of the one worker that is called.
* `start_after_stream_done`: a watcher whose stream cannot be read counts as
  resolved and queues nothing; a run of which one target refused the document
  counts as indexed and is not retried; a cold run's failure is never queued.
* `execute_secret._persist` says it never overwrites an existing value; it
  overwrites one that was saved since its worker last read the configuration.
  `on_config_saved` (`plugin.py:1007`) looks for a change that
  `on_config_reloaded` has already taken over, so the platform hears of a
  rotated secret only from the periodic registration.
* `ensure_default_applied` says that "a human's later untick must never be
  reasserted away" (`kanban_sweep_default.py:82`).  `activate` runs on every worker,
  and the guard is read from the configuration that activation began with: a
  worker that is late posts the default once more, over an untick made after
  another worker had applied it (`ActivateDefault`; it takes three workers, since
  the first to start finds nobody to serve its save).
* An agent that an activation restores keeps the gateway token it was deleted
  with until the next activation (`revived`).
* An edit between a reconcile's read and its update is overwritten
  (`overtaken`).
* A copy into the shared codex home that fails half-way leaves a torn `auth.json`
  with a fresh mtime, which no staged copy replaces until somebody logs in
  again.  The first fill of the home (`execute.py:2590`) takes no lock and can put
  an older login over a newer one.

Other properties are stated with the exceptions the code really has:
`KillIsToldBeforeDone` asks for the stderr with one abort only (a second one that
resolved a container before it started may remove it unread), `KilledStaysDead`
and `AbortedWhilePreparing` hold without failures of Redis or the engine and with one
post (`_forget_run` clears the flag), `ServedByItsGeneration` when the caller keeps a
session's turns apart, `DrainKeepsTurns` unless the container overstayed its
grace or was removed by force.  A turn fed to a container whose CLI has just
exited is lost, and `WarmPool` has that step.

## 5. Proofs

`ColdRunProofs` proves, for every set of workers and runs and every bound:

* `TypeCorrect`: `Spec => []TypeOK`.  `TypeOK` is inductive by itself; the one
  conjunct that needs the control flow is that `attempt` stays within
  `MaxAttempts`, which follows from `CanRetry`.
* `DoneOnce`: `Spec => []DoneAtMostOnce`.  The property is not inductive: a thread
  about to publish has published nothing yet.  `DoneInv` adds that
  (`PublishedOnce`: a thread that has not passed its publishing step has no
  `done` of its own) and that a run has at most as many threads as POSTs
  (`ThreadsArePosted`), so one POST gives one thread and one `done`.
* `EarlyAbortHolds`: `Spec => []AbortedWhilePreparing`.  `EarlyInv` says that for
  a run in `early`, posted at most once and with no failure so far, no thread
  stands between the check and the end of a spawn, and that the flag is still
  in Redis whenever a thread has yet to read it: only the run's own thread
  clears it, at its end.  It needs `DoneInv` for there being one thread.

* `KilledStays`: `Spec => []KilledStaysDead`.  `EngineInv` ties a run's container
  to its one thread (`mine = gen` while an attempt is under way, no container
  before a spawn, and none running once the thread is past its stream).
  `KillInv` says what an abort call that has found the container relies on: the
  flag stays until the run is over (`FlagOrOver`), no thread stands where a spawn
  lies ahead without the retry loop's check in between, and the incarnation the
  call holds stays the last one.  Both hold while no call of Redis or the engine
  failed (`KilledInv`): a wait that fails leaves a container running behind its
  thread, and a kill that fails leaves it running behind the answer.
* `KillIsTold`: `Spec => []KillIsToldBeforeDone`, for any number of POSTs.
  `MarkInv`: marker before signal.  `OwnerInv`: an incarnation is one thread's, and
  while it runs that thread reads its output, or died doing so.  `OneAbortInv`:
  with one abort call, the signal is that call's.  `ToldInv`: until a signalled
  incarnation's stderr is on the stream, its stopped container is there, and
  neither the thread nor the call is past its reading (`Readable`).  It is
  conditioned in the same way (`TaleInv`).
* `Implements`: `Spec => ImplementsContract`, for `MaxPosts <= 1` and
  `MaxOutages = 0`.  These two are the conditions under which the docs promise
  the contract: a second POST is a second thread, without Redis neither
  flag nor `done` exists, and after a failed wait or kill `done` is out before the
  container is gone.  `OneRunAtATime` shows that a step touches one run,
  or is a crash, which nobody outside sees; `SeenEffect` shows from all the
  invariants above that what it does to that run is a step of the contract or
  invisible: `StartContainer` is *launch* (never of a cancelled run, by
  `FlagWaits` and `KillInv`), `ContainerExits`, `MonitorTimeout` and the kill are
  *stop*, `PublishDone` is *finish* (no container runs then, by `EngineInv`),
  `MarkAborted` and `AbortRemove` are *cancel*.

The later of these proofs go through `StepEffect`: what one step does to one run,
variable by variable.  The only assumption is `BoundsAssumption`: the bounds are
naturals and a run has at least one attempt.

`KanbanSweepProofs` proves `TypeCorrect`, `FiresOnce` (`FiresOnceUnlessRaced`) and
`NoRunUnderReady` (`NoRunUnderReadyCard`) for every board and every set of
dispatchers.  A sweep *owns* a card from its won claim to the start of the run.
`FireInv` says that once a card has an owner or has fired, whoever is about to
claim it is known to be outdated and whoever has claimed it will not read its
own token back (`OneShots`), and that a card about to be dispatched has left
Ready (`LeftReady`), or its move was refused unseen (`unmoved`).  `KanbanAssumption` says that there is a card, and that a
claim token is neither blank nor a run id, which is how `claim_card` builds it.

`CodexHomeProofs` proves `TypeCorrect`, which includes the mutual exclusion of the
file lock, and `ResyncKeepsTheNewer` (the action property `TakesTheNewer`).
`NewerInv`: a marked login is as old as its file and no file is from the future
(`FilesDated`), the shared file is no older than the last complete one
(`HeldIsPast`), and the copy of a spawn that nobody disturbed is no older than
that (`CopiesAreFresh`).  `NewerIsNoOlder` states what the comparison by mtime and
`last_refresh` gives.

`ProvisionerProofs` proves all four safety properties of `Provisioner`:

* `TypeCorrect`, inductive by itself.
* `EditsAreSafe` (the action property `EditsSurvive`): what a reconcile read was
  seeded and still is when it updates it, or the object is in `overtaken`
  (`ReadIsSeeded`).
* `ReferencesHold` (`ReferencesExist`): `RefInv` says that each activation has
  dealt with the kinds before its own and with the entries of its kind that are
  no longer to do, so what it creates next refers back to what was there.
* `SeedingConverges` (`SeedConverges`): `ConvInv` follows every activation from its
  start.  What it has dealt with is `Good`: the object is there unless that went
  amiss, and holds the activation's own token unless another's later write is in
  `theirs` or the row was `revived`.  What its list showed is still there
  (`ListHolds`), a restore is tried on an object that was there (`Restoring`), and
  at the end all objects are good (`AllDone`).  Activations of different workspaces
  may hold different tokens and overlap: what one writes over the other's rows is
  named, row by row, and everything else still holds.

`ProvisionerAssumption` says that `ORDER` is a non-empty list of all the kinds and
that references go to kinds before their own: the order the comment at
`agent_provisioner.py:120` calls the contract.

`WarmPoolProofs` proves all safety properties of `WarmPool`, restarts and outages
included.  `PoolStep` states the nine things a step may do to a container, and
`TurnStep` what it may do to a turn; the invariants are kept case by case.

* `TypeCorrect`, inductive by itself.
* `DrainTruncatesNothing` (`DrainKeepsTurns`): needs only that a turn that has not
  created its container has none (`Unspawned`).
* `ServedByGeneration` (`ServedByItsGeneration`): a session has at most one
  container under its stable name (`AtMostOne`) and, as long as the caller keeps
  its turns apart, one dispatch under way (`OnePending`); what that one found fit
  or created carries its generation until it is fed (`FoundFit`).
* `CeilingBound` (`CeilingHolds`): the property speaks of the containers whose spawn
  was counted, as a listing that fails lets a spawn through (`uncounted`), and says
  nothing of spawns that passed the check and have not started.  `Overshoot` counts
  those as if they had succeeded; a turn that passes the check (`Passes`) then adds
  one to both sides, and one that slips by uncounted (`Slips`) adds to neither.

`WarmPoolAssumption` says that there are finitely many turns, as the containers
counted against the ceiling are.

`WarmTurnProofs` proves all safety properties of `WarmTurn`, for any turns of a
session, any number of lines, attempts and mishaps, and either CLI.  Four groups
of lemmas carry it: what a step says (`StepSays`: streams only grow, and an entry
is the dispatch's, an abort's or the relay's), what it never takes back
(`StepLasts`), the way a turn goes through the container (`FeedWay`, `ClaudeWay`,
`CodexWay`), and what it has named (`NameMoves`).

* `TypeCorrect` (the run leaves the types to this proof): `TypeInv` adds the
  shape of what the relays hold, and that the relay of the other CLI does not
  exist.
* `KilledIsSilent` (`KilledTurnIsSilent`): `SilentInv` says that an abort that counts
  as a kill has the container down, or its turn excused.  No relay speaks in a
  container that is down, and none comes back.
* `OneAttempt` (`OneAttemptSpeaks`): what is known of the attempts of a turn is said
  by the job that works on it.  `FedOnce` says that a turn is fed once, so there
  is one job; `AttemptInv` says that if the turn has published a line, the job's
  attempt at hand wrote it and has not been given up: `JobMoves` shows that only
  an attempt that published nothing is retried.
* `EndsOnce` (`EndedOnce`): `EndInv` says that a run whose end is in its stream is in
  `finalised`, and that the relay, between its look at the set and the end, holds
  a run that is not.
* `ForeignIsWoken` (`ForeignLinesAreContinuations`): `Apart` says that a turn that
  found the container empty at its naming has it to itself (`OnlyIn`) for as long
  as `current_run_id` names it, so what the relay reads under that name is the
  turn's own, or a continuation.  `Attributed` says that the relay writes only
  into runs that were named.
* `WholeAnswer` (`AnswerIsWhole`): needs all of the above that concerns claude.
  `ResultIsLast` says that the result is the last that a turn puts out, and
  `CountInv` where its lines are: in the stream, in the relay's hands or in the
  pipe, as many as claude said, and at an end all in the stream before it.
* `Implements`: `Spec => ImplementsContract`, the refinement of `TurnContract`, under
  `TurnInv`: the invariants above and `JobInv` (what codex's relay holds goes to
  the run of its turn, and at the end of an attempt it holds nothing).  A turn
  of which something is promised has the container to itself while it is in it
  (`OpenTurn`, `HeldOwn`), so `OneMovesStep` can show that a step moves at most
  one turn, by a write, a delivery, a fresh attempt or an end, and leaves every
  other as it was or releases it.  `HeardGrows` counts the lines a step adds to
  a stream; `CountInv` gives that claude's are delivered before the end,
  `AttemptInv` that nothing was heard of an attempt codex repeats.  A release is
  never taken back (`ReleasedStays`).

The assumptions are that `Nobody` is not a turn (`TurnFeedAssumption`) and that the
bounds on mishaps, lines and output are naturals.

`ExecIndexProofs` proves, for every set of runs, watchers and sweeping workers:

* `TypeCorrect`: `Spec => []TypeOK`.  `TypeOK` is not inductive: a sweep writes
  back an entry of its own copy of the queue, so the run it settles must still be
  in that copy (`SweepsItsOwn`).  That an entry never carries the attempts that
  end it then follows from `GivesUp`, whatever copies overlap.
* `NothingSlipsThrough`: `Spec => []NothingSlips`.  `SlipInv` adds that the outcome
  an indexer still has to act on is true (`OutcomeIsTrue`: *indexed* means the run
  reached a target, *gate* that it is excluded), that a watcher holds the outcome
  of its own run (`OwnRun`), and that a run is placed as soon as its watcher has
  settled it (`SettledIsPlaced`).  The heart of it is that no step of a sweep
  takes a run off the queue without placing it elsewhere.
* `GapHolds`: `Spec => []GapIsKills`, which is inductive by itself given the types.
  What separates the two counters is a killed thread, or a watcher that was
  counted and could not be started (`uncounted`).

They assume `ExecIndexAssumption`: a watcher follows a run, there is a run, a
watcher is not a sweeper, and an entry gets at least one attempt.

`ExecIndexStoreProofs` proves all three invariants that hold of `ExecIndexStore`, for
any requests, connections, mishaps and restarts.  `StepCases` says what one step
does to each upsert and to each connection (it is emptied, aborted, opened,
committed, or one thread's statement changes it); the invariants are kept case by
case.

* `TypeCorrect`: with `Ways`, where a request that names a connection has one, and
  how many chunks an upsert has sent at each of its steps.
* `AcknowledgedIsStoredUnlessPoisoned` (`AcknowledgedUnlessPoisoned`): `StoreInv` says
  that what an upsert has sent is committed, by whichever thread, or in the
  transaction of its connection (`Kept`), or that connection is gone and the
  upsert will be refused (`Gone`).  An error that throws the transaction away
  poisons all who wrote there (`Known`).
* `RunRowsAreOneVersion` (`RunIsOneVersion`): the property says nothing while an
  upsert is writing.  `Covers` says what it has prepared by then: where the table
  holds a row of an earlier upsert on a chunk already dealt with, its transaction
  replaces it.  So its commit leaves no row but its own, wherever the others'
  commits and resets fell in between (`OwnOnly`, `NotPending`, `OneClean`).

`StoreAssumption` says that one upsert brings the most chunks, as finitely many do,
and that a request is an upsert, a read or a prune.

Every step lemma has one step per action or per effect, and every strengthening
was checked with TLC before it was proved.

Only model-checked: `Credentials`, and everything under fairness (`QueueDrains`,
`AcceptedIsDone`, `NothingLeaks`, `SentIsEnded` and the others), which TLAPS does
not reach.

## 6. Not modelled

* The MCP server, telemetry, routes that only forward, the gallery, the command
  line, the pushes of one value and the embedding of a document hold no state
  that two actors share; their correctness is in formatting and I/O.  So is the
  building of argv, mounts and rendered configurations, of which the models
  keep whether it fails.
* The length of waits: the doubling of the 429 cooldown, the second in a draining
  container's name, the day of a watcher.  The models have no clock; what a wait
  allows to happen meanwhile they do have.
* `shared_redis` is a cached probe; its consequences are the outages of the other
  models.
* The migration of the index is a one-shot copy by an operator.  The reaping of
  isolated run directories and the legacy home without a host path are left out
  of `CodexHome`.
* Faults and cases the models leave out: a commit on a
  connection that was lost while idle may be a silent no-op in the driver
  (`ExecIndexStore!CommitRefused` refuses it); a malformed `REDIS_URL` makes
  `_redis_client` raise and a run return without `done`
  (`execute.py:3459-3463`, `ColdRun!Prepare`); the codex configuration is read and
  rewritten in one step (`CodexHome!CheckConfig`); only the first mint of a token is
  exercised (`Credentials`, `MaxTokens = 1`); the names of one declaration
  resolve at one moment (`Provisioner!Resolved`); of `WarmPool`, two containers
  renamed within the same second, and the wait for a container to be ready.

## 7. Plan

Every safety property the runs check is proved but the types of `Credentials`.
Worth having next:

* safety properties of `Credentials` beyond its types, which says little besides
  `DriftHeals`: what a worker may sign with while the platform rotates.
