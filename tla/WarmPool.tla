------------------------------- MODULE WarmPool -------------------------------
(***************************************************************************)
(* The pool of warm agent containers: one long-lived CLI process per chat  *)
(* session, reused turn after turn under a stable name, replaced when the  *)
(* configuration generation moved or its time to live passed, drained      *)
(* gracefully, and swept by a reaper on every worker.                      *)
(*                                                                         *)
(* Source: warm_pool.py -- get_or_create, drain, reap, _condemn_over_ttl,  *)
(* _check_ceiling, get_generation, bump_generation, dispatch_turn;         *)
(* execute.py -- _dispatch_warm_turn, the warm branch of _run_job_blocking *)
(* and the reap loop; agent-images/shared/aw-warm-wrapper.                 *)
(*                                                                         *)
(* A turn spawns at most one container, so a container is named here by    *)
(* the turn that spawned it; its epoch label is the generation that turn   *)
(* read.  The session lock lives in one worker process.                    *)
(***************************************************************************)
EXTENDS Naturals, FiniteSets

CONSTANTS
    Turns,         \* turns (runs) dispatched warm; also names containers
    Sessions,      \* chat sessions
    Workers,       \* worker processes
    Reapers,       \* bound: the workers whose sweeps are looked at
    MaxWarm,       \* highest ceiling any worker was ever configured with
    None,          \* no turn, no session, no worker, no container
    MaxEvents,     \* bound: generation bumps, restarts of the service, calls that
                   \*   Redis or the engine fails, moments at which a
                   \*   container's age passes a limit, and impatient callers
    MaxImpatient   \* bound: those among them that are turns sent although the
                   \*   session's last is not over

ASSUME WarmPoolAssumption ==
    /\ None \notin Turns \union Sessions \union Workers
    /\ Reapers \subseteq Workers /\ IsFiniteSet(Turns)
    /\ MaxWarm \in Nat \ {0}
    /\ {MaxEvents, MaxImpatient} \subseteq Nat

VARIABLES
    sess,      \* sess[t]: session of turn t
    wk,        \* wk[t]: worker that serves t
    pc,        \* pc[t]: where t's dispatch stands
    seen,      \* seen[t]: generation t read; epoch label of t's container
    lock,      \* lock[w][s]: who holds the session lock
    gen,       \* generation in Redis, which activate set
    pool,      \* pool[c]: what the engine and the wrapper make of c
    drainer,   \* drainer[c]: step of the thread that drains c
    snap,      \* snap[w]: the removal or condemnation w's sweep is about to do
    events, impatient,   \* counters behind the bounds
    kept,      \* history: turns fed into a container not asked to exit yet,
               \*   not answered, and not taken away by force or by the grace
    uncounted, \* history: turns let through because the engine's listing
               \*   failed, which is never taken for a full pool
    peak       \* history: most spawns that passed the count and were ever
               \*   under way at one time

dispatchVars == <<sess, wk, pc, seen, lock>>
boundVars    == <<events, impatient>>
pastVars     == <<kept, uncounted, peak>>
vars == <<dispatchVars, gen, pool, drainer, snap, boundVars, pastVars>>

PCs == {"new", "lock", "look", "force", "check", "rename", "ceiling", "create",
        "start", "feed", "fed", "cold", "failed", "answered", "lost"}

\* state: "running" the CLI is up, "ending" its stdin was closed, "closing"
\* it is gone and the wrapper is not.  age: 1 past the TTL, 2 past the slack
\* too.  overdue: asked to exit longer than the drain grace ago.
Containers ==
    [state : {"none", "created", "running", "ending", "closing", "exited"},
     name : {"stable", "draining"}, flag : BOOLEAN, age : 0..2, overdue : BOOLEAN,
     inbox : SUBSET Turns, serving : Turns \union {None}]
NoContainer ==
    [state |-> "none", name |-> "stable", flag |-> FALSE, age |-> 0, overdue |-> FALSE,
     inbox |-> {}, serving |-> None]
Plans == [id : Turns, act : {"remove", "condemn"}] \union {[id |-> None, act |-> "none"]}
NoPlan == [id |-> None, act |-> "none"]

TypeOK ==
    /\ sess \in [Turns -> Sessions \union {None}]
    /\ wk \in [Turns -> Workers \union {None}]
    /\ pc \in [Turns -> PCs]
    /\ seen \in [Turns -> Nat]
    /\ lock \in [Workers -> [Sessions -> Turns \union {None}]]
    /\ gen \in Nat
    /\ pool \in [Turns -> Containers]
    /\ drainer \in [Turns -> {"none", "touch", "collect"}]
    /\ snap \in [Reapers -> Plans]
    /\ {events, impatient} \subseteq Nat
    /\ kept \in SUBSET Turns /\ uncounted \in SUBSET Turns
    /\ peak \in Nat

Init ==
    /\ sess = [t \in Turns |-> None]
    /\ wk = [t \in Turns |-> None]
    /\ pc = [t \in Turns |-> "new"]
    /\ seen = [t \in Turns |-> 0]
    /\ lock = [w \in Workers |-> [s \in Sessions |-> None]]
    /\ gen = 1
    /\ pool = [t \in Turns |-> NoContainer]
    /\ drainer = [t \in Turns |-> "none"]
    /\ snap = [w \in Reapers |-> NoPlan]
    /\ events = 0 /\ impatient = 0
    /\ kept = {} /\ uncounted = {} /\ peak = 0

-----------------------------------------------------------------------------
(***************************************************************************)
(* The engine's view.                                                      *)
(***************************************************************************)
Present(c) == pool[c].state # "none"
CliUp(c) == pool[c].state \in {"running", "ending"}

\* The engine calls a container running until its wrapper has exited.
Running(c) == CliUp(c) \/ pool[c].state = "closing"

\* The containers (at most one) that hold the stable name of session s.
Stable(s) == {c \in Turns : Present(c) /\ pool[c].name = "stable" /\ sess[c] = s}

\* Turns in c: fed and not answered.
Aboard(c) == pool[c].inbox \union ({pool[c].serving} \ {None})

\* Mutant of Discard: the record of a removed container is left half cleared.
DiscardHalf(C) ==
    /\ pool' = [c \in Turns |-> IF c \in C THEN [state |-> "none"] ELSE pool[c]]
    /\ kept' = kept \ UNION {Aboard(c) : c \in C}

\* remove(force=True) on the containers in C.
Discard(C) ==
    /\ pool' = [c \in Turns |-> IF c \in C THEN NoContainer ELSE pool[c]]
    /\ kept' = kept \ UNION {Aboard(c) : c \in C}

\* A call that fails, and a step in which none does; an impatient caller spends
\* from the same bound.
Unspent == events + impatient < MaxEvents
Event == Unspent /\ events' = events + 1
Outage == Event /\ UNCHANGED impatient
NoOutage == UNCHANGED boundVars

Step(t, from, to) == pc[t] = from /\ pc' = [pc EXCEPT ![t] = to]

Release(t) == lock' = [lock EXCEPT ![wk[t]][sess[t]] = None]

\* _check_ceiling's count: running and not on its way out.
Live == {c \in Turns : Running(c) /\ pool[c].name = "stable"}

\* Mutant of Full: one container too many.
FullPastCeiling(ceiling) == Cardinality(Live) > ceiling

\* _check_ceiling raises WarmPoolFull.
Full(ceiling) == Cardinality(Live) >= ceiling

\* Mutant of SameEpoch: any label will do.
SameEpochIgnored(t, c) == TRUE

\* get_or_create: the container's epoch label is the generation t read.
SameEpoch(t, c) == seen[c] = seen[t]

-----------------------------------------------------------------------------
(***************************************************************************)
(* One dispatch: _dispatch_warm_turn and get_or_create.                    *)
(***************************************************************************)

\* Turns whose dispatch thread is at work, and turns not answered yet.
Dispatching(t) == pc[t] \notin {"new", "fed", "cold", "failed", "answered", "lost"}
Pending(t) == Dispatching(t) \/ pc[t] = "fed"

\* A turn arrives at some worker, which reads the generation; a Redis that
\* does not answer reads as "0".  The caller keeps a session's turns apart,
\* up to its own timeout.
BeginTurn(t) ==
    /\ Step(t, "new", "lock")
    /\ \E s \in Sessions, w \in Workers :
          /\ sess' = [sess EXCEPT ![t] = s]
          /\ wk' = [wk EXCEPT ![t] = w]
          /\ IF \E u \in Turns : sess[u] = s /\ Pending(u)
               THEN impatient < MaxImpatient /\ Unspent /\ impatient' = impatient + 1
               ELSE UNCHANGED impatient
    /\ \/ seen' = [seen EXCEPT ![t] = gen] /\ UNCHANGED events
       \/ seen' = [seen EXCEPT ![t] = 0] /\ Event
    /\ UNCHANGED <<lock, gen, pool, drainer, snap, pastVars>>

Acquire(t) ==
    /\ Step(t, "lock", "look")
    /\ lock[wk[t]][sess[t]] = None
    /\ lock' = [lock EXCEPT ![wk[t]][sess[t]] = t]
    /\ UNCHANGED <<sess, wk, seen, gen, pool, drainer, snap, boundVars, pastVars>>

\* The labels of whatever holds the name, and the caller's recycle request,
\* choose between a spawn, a forced recycle, a candidate for reuse and a
\* replacement.  Labels that cannot be read are those of nobody.
Look(t) ==
    /\ \/ ((Stable(sess[t]) = {} /\ NoOutage) \/ Outage) /\ Step(t, "look", "ceiling")
       \/ /\ NoOutage
          /\ \E c \in Stable(sess[t]), recycle \in {"no", "drain", "force"} :
                \/ recycle = "force" /\ Step(t, "look", "force")
                \/ recycle = "drain" /\ Step(t, "look", "rename")
                \/ recycle = "no" /\ SameEpoch(t, c) /\ Step(t, "look", "check")
                \/ recycle = "no" /\ ~SameEpoch(t, c) /\ Step(t, "look", "rename")
    /\ UNCHANGED <<sess, wk, seen, lock, gen, pool, drainer, snap, pastVars>>

\* recycle = "force": whatever holds the name by now is removed; if nothing
\* does, or the engine fails, the drain path below is taken.
ForceRemove(t) ==
    /\ \/ /\ Stable(sess[t]) # {} /\ NoOutage
          /\ Step(t, "force", "ceiling") /\ Discard(Stable(sess[t]))
       \/ /\ (Stable(sess[t]) = {} /\ NoOutage) \/ Outage
          /\ Step(t, "force", "rename") /\ UNCHANGED <<pool, kept>>
    /\ UNCHANGED <<sess, wk, seen, lock, gen, drainer, snap, uncounted, peak>>

\* _is_running, then the age: the container is reused or replaced.  One whose
\* state cannot be read is replaced, one whose age cannot be read is reused.
CheckReuse(t) ==
    /\ LET running == \E c \in Stable(sess[t]) : Running(c)
           fresh == \E c \in Stable(sess[t]) : Running(c) /\ pool[c].age = 0
       IN  \/ /\ (fresh /\ NoOutage) \/ (running /\ Outage)
              /\ Step(t, "check", "feed") /\ Release(t)
           \/ /\ (~fresh /\ NoOutage) \/ Outage
              /\ Step(t, "check", "rename") /\ UNCHANGED lock
    /\ UNCHANGED <<sess, wk, seen, gen, pool, drainer, snap, pastVars>>

\* The name is freed at once; a background thread drains its old holder.
Rename(C) == pool' = [c \in Turns |-> IF c \in C THEN [pool[c] EXCEPT !.name = "draining"]
                                                 ELSE pool[c]]

\* A rename that fails, or took place unanswered, starts no drain; whatever
\* still holds the name is then removed by force, which may fail as well.
RenameStale(t) ==
    /\ Step(t, "rename", "ceiling")
    /\ \/ /\ NoOutage /\ Rename(Stable(sess[t])) /\ UNCHANGED kept
          /\ drainer' = [c \in Turns |-> IF c \in Stable(sess[t]) THEN "touch" ELSE drainer[c]]
       \/ /\ Outage /\ UNCHANGED drainer
          /\ \/ Discard(Stable(sess[t]))
             \/ Rename(Stable(sess[t])) /\ UNCHANGED kept
             \/ UNCHANGED <<pool, kept>>
    /\ UNCHANGED <<sess, wk, seen, lock, gen, snap, uncounted, peak>>

\* Spawns under way that passed the count.
Spawning == {t \in Turns \ uncounted : pc[t] \in {"create", "start"}}

\* _check_ceiling, against the ceiling this worker goes by: configure reaches
\* one worker only.  A listing that fails lets the spawn through uncounted.
CheckCeiling(t) ==
    /\ \/ \E ceiling \in 1..MaxWarm :
             \/ /\ Full(ceiling) /\ NoOutage
                /\ Step(t, "ceiling", "cold") /\ Release(t) /\ UNCHANGED <<uncounted, peak>>
             \/ /\ ~Full(ceiling) /\ NoOutage
                /\ Step(t, "ceiling", "create") /\ UNCHANGED <<lock, uncounted>>
                /\ LET n == Cardinality(Spawning) + 1 IN peak' = IF n > peak THEN n ELSE peak
       \/ /\ Outage
          /\ Step(t, "ceiling", "create") /\ UNCHANGED <<lock, peak>>
          /\ uncounted' = uncounted \union {t}
    /\ UNCHANGED <<sess, wk, seen, gen, pool, drainer, snap, kept>>

\* containers.run: the name must be free, and the container must still be
\* there when it is started.  A failed dispatch publishes spawn_error and
\* `done` (the warm branch's handler).
Create(t) ==
    /\ \/ /\ Stable(sess[t]) = {}
          /\ Step(t, "create", "start") /\ UNCHANGED lock
          /\ pool' = [pool EXCEPT ![t].state = "created"]
       \/ /\ Stable(sess[t]) # {}
          /\ Step(t, "create", "failed") /\ Release(t) /\ UNCHANGED pool
    /\ UNCHANGED <<sess, wk, seen, gen, drainer, snap, boundVars, pastVars>>

\* _build_warm_kwargs raises: a codex run whose scope cannot be rendered, a
\* disk that is full.
BuildFails(t) ==
    /\ Step(t, "create", "failed") /\ Release(t)
    /\ UNCHANGED <<sess, wk, seen, gen, pool, drainer, snap, boundVars, pastVars>>

\* The container is gone by now, or its start fails and leaves it created.
StartFails(t) ==
    /\ (pool[t].state # "created" /\ NoOutage) \/ Outage
    /\ Step(t, "start", "failed") /\ UNCHANGED pool

Start(t) ==
    /\ \/ /\ pool[t].state = "created" /\ NoOutage
          /\ Step(t, "start", "feed")
          /\ pool' = [pool EXCEPT ![t].state = "running"]
       \/ StartFails(t)
    /\ Release(t)
    /\ UNCHANGED <<sess, wk, seen, gen, drainer, snap, pastVars>>

\* dispatch_turn: whatever runs under the name by now gets the prompt.  A
\* container whose CLI has just exited still takes it, and nobody reads it.
Feed(t) ==
    /\ \/ \E c \in Stable(sess[t]) :
             /\ Running(c)
             /\ Step(t, "feed", "fed")
             /\ IF CliUp(c) THEN pool' = [pool EXCEPT ![c].inbox = @ \union {t}]
                            ELSE UNCHANGED pool
             /\ kept' = IF CliUp(c) /\ ~pool[c].flag THEN kept \union {t} ELSE kept
       \/ /\ \A c \in Stable(sess[t]) : ~Running(c)
          /\ Step(t, "feed", "failed")
          /\ UNCHANGED <<pool, kept>>
    /\ UNCHANGED <<sess, wk, seen, lock, gen, drainer, snap, boundVars, uncounted, peak>>

-----------------------------------------------------------------------------
(***************************************************************************)
(* Inside the container: the CLI and aw-warm-wrapper.                      *)
(***************************************************************************)
TakeTurn(c) ==
    /\ CliUp(c) /\ pool[c].serving = None
    /\ \E t \in pool[c].inbox :
          pool' = [pool EXCEPT ![c].serving = t, ![c].inbox = @ \ {t}]
    /\ UNCHANGED <<dispatchVars, gen, drainer, snap, boundVars, pastVars>>

\* The relay publishes the turn's `done`.
FinishTurn(c) ==
    /\ CliUp(c) /\ pool[c].serving # None
    /\ pc' = [pc EXCEPT ![pool[c].serving] = IF @ = "fed" THEN "answered" ELSE @]
    /\ kept' = kept \ {pool[c].serving}
    /\ pool' = [pool EXCEPT ![c].serving = None]
    /\ UNCHANGED <<sess, wk, seen, lock, gen, drainer, snap, boundVars, uncounted, peak>>

\* The TTL watcher; the reaper's backstop exists because it may not fire.
WatchTtl(c) ==
    /\ CliUp(c) /\ pool[c].age > 0 /\ ~pool[c].flag
    /\ pool' = [pool EXCEPT ![c].flag = TRUE]
    /\ UNCHANGED <<dispatchVars, gen, drainer, snap, boundVars, pastVars>>

\* The poll loop closes the CLI's stdin once it sees the flag.
SeeDrain(c) ==
    /\ pool[c].state = "running" /\ pool[c].flag
    /\ pool' = [pool EXCEPT ![c].state = "ending"]
    /\ UNCHANGED <<dispatchVars, gen, drainer, snap, boundVars, pastVars>>

\* Mutant of ReadsEof: the end of stdin is seen before what was written to it.
ReadsEofAtOnce(c) == pool[c].state = "ending" /\ pool[c].serving = None

\* The CLI sees the end of its stdin between turns, once the FIFO is empty.
ReadsEof(c) == pool[c].state = "ending" /\ pool[c].serving = None /\ pool[c].inbox = {}

CliExits(c) ==
    /\ ReadsEof(c)
    /\ pool' = [pool EXCEPT ![c].state = "closing", ![c].inbox = {}]
    /\ UNCHANGED <<dispatchVars, gen, drainer, snap, boundVars, pastVars>>

\* Second stage of the TTL watcher: a CLI that would not go is killed.
WrapperKills(c) ==
    /\ CliUp(c) /\ pool[c].age = 2 /\ pool[c].overdue
    /\ pool' = [pool EXCEPT ![c].state = "closing", ![c].inbox = {}, ![c].serving = None]
    /\ kept' = kept \ Aboard(c)
    /\ UNCHANGED <<dispatchVars, gen, drainer, snap, boundVars, uncounted, peak>>

ContainerStops(c) ==
    /\ pool[c].state = "closing"
    /\ pool' = [pool EXCEPT ![c].state = "exited"]
    /\ UNCHANGED <<dispatchVars, gen, drainer, snap, boundVars, pastVars>>

-----------------------------------------------------------------------------
(***************************************************************************)
(* warm_pool.drain, the thread that get_or_create starts.                  *)
(***************************************************************************)

\* Touch the flag; the thread ends if the container cannot take it.
DrainTouch(c) ==
    /\ drainer[c] = "touch"
    /\ IF Running(c)
         THEN /\ pool' = [pool EXCEPT ![c].flag = TRUE]
              /\ drainer' = [drainer EXCEPT ![c] = "collect"]
         ELSE drainer' = [drainer EXCEPT ![c] = "none"] /\ UNCHANGED pool
    /\ UNCHANGED <<dispatchVars, gen, snap, boundVars, pastVars>>

\* Collect the stopped container, or give up after DRAIN_COLLECT_S.
DrainCollect(c) ==
    /\ drainer[c] = "collect"
    /\ drainer' = [drainer EXCEPT ![c] = "none"]
    /\ pool' = IF pool[c].state = "exited" THEN [pool EXCEPT ![c] = NoContainer] ELSE pool
    /\ UNCHANGED <<dispatchVars, gen, snap, boundVars, pastVars>>

-----------------------------------------------------------------------------
(***************************************************************************)
(* reap, on every worker.  A sweep decides on the listing, container by    *)
(* container, and acts on it later; `snap` is what it is about to do.      *)
(***************************************************************************)

\* Mutant of Dead: only containers the pool already let go of are looked at.
DeadDrainers(c) == Present(c) /\ ~Running(c) /\ pool[c].name = "draining"

\* Listed with a status other than "running".
Dead(c) == Present(c) /\ ~Running(c)

Wedged(c) == Running(c) /\ pool[c].name = "draining" /\ pool[c].overdue
Condemnable(c) == Running(c) /\ pool[c].name = "stable" /\ pool[c].age = 2

ReapList(w) ==
    /\ snap[w] = NoPlan
    /\ \E c \in Turns :
          \/ (Dead(c) \/ Wedged(c)) /\ snap' = [snap EXCEPT ![w] = [id |-> c, act |-> "remove"]]
          \/ Condemnable(c) /\ snap' = [snap EXCEPT ![w] = [id |-> c, act |-> "condemn"]]
    /\ UNCHANGED <<dispatchVars, gen, pool, drainer, boundVars, pastVars>>

\* remove(force=True) of what was listed, by its id.
ReapRemove(w) ==
    /\ snap[w].act = "remove"
    /\ Discard({snap[w].id})
    /\ snap' = [snap EXCEPT ![w] = NoPlan]
    /\ UNCHANGED <<dispatchVars, gen, drainer, boundVars, uncounted, peak>>

\* _condemn_over_ttl, under this worker's own session lock: rename, then
\* touch the flag; both on the listed container.
ReapCondemn(w) ==
    /\ snap[w].act = "condemn"
    /\ LET c == snap[w].id
       IN  /\ lock[w][sess[c]] = None
           /\ pool' = IF ~Present(c) THEN pool
                      ELSE [pool EXCEPT ![c].name = "draining", ![c].flag = @ \/ Running(c)]
    /\ snap' = [snap EXCEPT ![w] = NoPlan]
    /\ UNCHANGED <<dispatchVars, gen, drainer, boundVars, pastVars>>

-----------------------------------------------------------------------------
(***************************************************************************)
(* Time, configuration changes and restarts.                               *)
(***************************************************************************)
Ages(c) ==
    /\ CliUp(c) /\ pool[c].age < 2
    /\ Event
    /\ pool' = [pool EXCEPT ![c].age = @ + 1]
    /\ UNCHANGED <<dispatchVars, gen, drainer, snap, impatient, pastVars>>

GraceOver(c) ==
    /\ CliUp(c) /\ (pool[c].name = "draining" \/ pool[c].flag) /\ ~pool[c].overdue
    /\ pool' = [pool EXCEPT ![c].overdue = TRUE]
    /\ UNCHANGED <<dispatchVars, gen, drainer, snap, boundVars, pastVars>>

\* on_config_saved and on_workspace_mcp_changed.
BumpGeneration ==
    /\ Event
    /\ gen' = gen + 1
    /\ UNCHANGED <<dispatchVars, pool, drainer, snap, impatient, pastVars>>

\* Every thread dies; containers live on; activate bumps the generation.
Restart ==
    /\ Event
    /\ gen' = gen + 1
    /\ pc' = [t \in Turns |-> IF Dispatching(t) THEN "lost" ELSE pc[t]]
    /\ lock' = [w \in Workers |-> [s \in Sessions |-> None]]
    /\ drainer' = [c \in Turns |-> "none"]
    /\ snap' = [w \in Reapers |-> NoPlan]
    /\ UNCHANGED <<sess, wk, seen, pool, impatient, pastVars>>

-----------------------------------------------------------------------------
DispatchStep(t) ==
    \/ Acquire(t) \/ Look(t) \/ ForceRemove(t) \/ CheckReuse(t) \/ RenameStale(t)
    \/ CheckCeiling(t) \/ Create(t) \/ BuildFails(t) \/ Start(t) \/ Feed(t)

CliStep(c) == TakeTurn(c) \/ SeeDrain(c) \/ CliExits(c) \/ ContainerStops(c)
ReapStep(w) == ReapList(w) \/ ReapRemove(w) \/ ReapCondemn(w)

Next ==
    \/ \E t \in Turns : BeginTurn(t) \/ DispatchStep(t)
    \/ \E c \in Turns :
          \/ CliStep(c) \/ FinishTurn(c) \/ WatchTtl(c) \/ WrapperKills(c)
          \/ DrainTouch(c) \/ DrainCollect(c) \/ Ages(c) \/ GraceOver(c)
    \/ \E w \in Reapers : ReapStep(w)
    \/ BumpGeneration \/ Restart

Spec == Init /\ [][Next]_vars

\* Dispatch threads, the wrapper's loops, the periodic sweep and the clock go
\* on.  A turn may take for ever, a drain thread may die, a TTL watcher fail.
Fairness ==
    /\ \A t \in Turns : WF_vars(DispatchStep(t))
    /\ \A c \in Turns : WF_vars(CliStep(c)) /\ WF_vars(GraceOver(c))
    /\ \A w \in Reapers : WF_vars(ReapStep(w))

FairSpec == Spec /\ Fairness

-----------------------------------------------------------------------------
(***************************************************************************)
(* Safety.                                                                 *)
(***************************************************************************)

\* get_or_create: "overshoot bounded by the worker concurrency": of the live
\* containers whose spawn was counted there are as many as the highest ceiling
\* allows, and one more for each other spawn that was counted and under way at
\* the same time.  A spawn that got by because the listing failed is not
\* bounded by anything: _check_ceiling means it so.
CeilingHolds == peak > 0 => Cardinality(Live \ uncounted) < MaxWarm + peak

\* get_or_create's reason to compare labels: as long as the caller keeps the
\* session's turns apart, a turn is served by a container of the generation
\* it read itself.
ServedByItsGeneration ==
    impatient = 0 => \A c \in Turns : \A t \in Aboard(c) : seen[c] = seen[t]

\* drain: "never truncates a turn": a turn that was in the container before
\* it was asked to exit is still there, or answered, unless the container
\* overstayed its grace or was removed by force.
DrainKeepsTurns == \A t \in kept : \E c \in Turns : t \in Aboard(c) /\ CliUp(c)

(***************************************************************************)
(* Liveness.                                                               *)
(***************************************************************************)

\* The leak reap exists to stop: a container that left the pool, died in it,
\* or was created by a dispatch that went no further, is removed in the end,
\* though its drain thread died or gave up.
Garbage(c) ==
    \/ Present(c) /\ pool[c].name = "draining"
    \/ pool[c].state = "exited"
    \/ pool[c].state = "created" /\ pc[c] # "start"

NothingLeaks == \A c \in Turns : Garbage(c) ~> ~Present(c)
=============================================================================
