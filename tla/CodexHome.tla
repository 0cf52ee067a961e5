------------------------------ MODULE CodexHome ------------------------------
(***************************************************************************)
(* The one $CODEX_HOME that every codex container of an install shares.    *)
(* The login is made in the real home of the workspace; every spawn stages *)
(* a private copy of that home, brings the auth.json of the shared home up *)
(* to date from its copy under a file lock, fills a shared home that was   *)
(* never filled, and renders the configuration of its own run.  Codex      *)
(* itself refreshes the login it runs on, and takes no lock.               *)
(*                                                                         *)
(* Source: execute.py, _build_container_kwargs and its codex helpers.  The *)
(* fallback for installs whose $HOME has no host path is left out.         *)
(***************************************************************************)
EXTENDS Naturals

CONSTANTS
    Spawns,       \* slots in which spawns follow one another, on any worker
    NoSpawn,      \* the lock is free
    MaxClock,     \* bound: logins and refreshes
    MaxMishaps    \* bound: failed copies and renders, and spawns that die

ASSUME CodexHomeAssumption ==
    NoSpawn \notin Spawns /\ MaxClock \in Nat \ {0} /\ MaxMishaps \in Nat

VARIABLES
    real,         \* auth.json of the real home
    shared,       \* auth.json of the shared home
    config,       \* config.toml of the shared home
    lock,         \* the holder of .auth.json.lock
    at,           \* at[s]: the next step of the spawn in slot s
    staged,       \* staged[s]: auth.json of its private copy
    home,         \* home[s]: the home its codex runs on
    todo,         \* todo[s]: what its copytree has yet to copy
    clock, mishaps,
    held,         \* history: mtime of the last complete shared auth.json
    exposed       \* history: spawns between whose comparison and copy the
                  \* shared auth.json was written by somebody without the lock

homeVars  == <<real, shared, config, lock, held>>
spawnVars == <<at, staged, home, todo, exposed>>
vars == <<homeVars, spawnVars, clock, mishaps>>

\* An auth.json: the login it holds (0: none that can be read), its mtime, and
\* whether last_refresh can be read from it.  Logins are numbered by the clock.
Times  == 0..MaxClock
File   == [login : Times, mtime : Times, marked : BOOLEAN]
NoFile == [login |-> 0, mtime |-> 0, marked |-> FALSE]
Whole(time, marked) == [login |-> time, mtime |-> time, marked |-> marked]
Torn(time) == [login |-> 0, mtime |-> time, marked |-> FALSE]

Preparing == {"stage", "resync", "compare", "copy", "write", "config", "populate", "render"}

TypeOK ==
    /\ real \in File /\ shared \in File
    /\ config \in {"none", "plain", "patched"}
    /\ lock \in Spawns \union {NoSpawn}
    /\ at \in [Spawns -> Preparing \union {"run", "over"}]
    /\ staged \in [Spawns -> File] /\ home \in [Spawns -> {"shared", "real"}]
    /\ todo \in [Spawns -> SUBSET {"auth", "config"}]
    /\ clock \in Times /\ mishaps \in 0..MaxMishaps
    /\ held \in Times /\ exposed \subseteq Spawns
    /\ \A s \in Spawns : lock = s <=> at[s] \in {"compare", "copy", "write"}

\* A shared home that was never filled, or one from before the header patch.
Init ==
    /\ real \in {NoFile, Whole(1, TRUE)}
    /\ \/ shared = NoFile /\ config = "none"
       \/ shared = Whole(1, FALSE) /\ config = "plain"
    /\ lock = NoSpawn
    /\ at = [s \in Spawns |-> "over"]
    /\ staged = [s \in Spawns |-> NoFile] /\ home = [s \in Spawns |-> "shared"]
    /\ todo = [s \in Spawns |-> {}]
    /\ clock = 1 /\ mishaps = 0
    /\ held = shared.mtime /\ exposed = {}

-----------------------------------------------------------------------------
Mishap == mishaps < MaxMishaps /\ mishaps' = mishaps + 1

\* _patch_codex_warm_token_headers, which does nothing twice.
Patched(text) == IF text = "plain" THEN "patched" ELSE text

Go(s, from, to) == at[s] = from /\ at' = [at EXCEPT ![s] = to]

\* A write that does not ask for the lock.
Exposes == exposed' = exposed \union {s \in Spawns : at[s] \in {"copy", "write"}}

-----------------------------------------------------------------------------
(***************************************************************************)
(* The real home: codex login, which is not atomic.                        *)
(***************************************************************************)
LoginBegins ==
    /\ clock < MaxClock /\ clock' = clock + 1
    /\ real' = Torn(clock + 1)
    /\ UNCHANGED <<shared, config, lock, held, spawnVars, mishaps>>

LoginEnds ==
    /\ real.login = 0 /\ real.mtime > 0
    /\ \E marked \in BOOLEAN : real' = Whole(real.mtime, marked)
    /\ UNCHANGED <<shared, config, lock, held, spawnVars, clock, mishaps>>

-----------------------------------------------------------------------------
(***************************************************************************)
(* A spawn.                                                                *)
(***************************************************************************)
Begin(s) ==
    /\ Go(s, "over", "stage")
    /\ staged' = [staged EXCEPT ![s] = NoFile]
    /\ exposed' = exposed \ {s}
    /\ UNCHANGED <<homeVars, home, todo, clock, mishaps>>

\* The private copy of the real home.
Stage(s) ==
    /\ Go(s, "stage", "resync")
    /\ staged' = [staged EXCEPT ![s] = real]
    /\ home' = [home EXCEPT ![s] = "shared"]
    /\ UNCHANGED <<homeVars, todo, exposed, clock, mishaps>>

\* It cannot be made: codex is given the real home itself.
StageFails(s) ==
    /\ Mishap /\ Go(s, "stage", "render")
    /\ home' = [home EXCEPT ![s] = "real"]
    /\ UNCHANGED <<homeVars, staged, todo, exposed, clock>>

\* Mutant of Acquire: the file is opened and never locked.
AcquireNothing(s) ==
    /\ Go(s, "resync", "compare") /\ UNCHANGED lock
    /\ staged[s] # NoFile
    /\ UNCHANGED <<real, shared, config, held, staged, home, todo, exposed, clock, mishaps>>

\* _resync_shared_cli_home_auth takes the lock if there is a login to bring.
Acquire(s) ==
    /\ Go(s, "resync", "compare")
    /\ staged[s] # NoFile
    /\ lock = NoSpawn /\ lock' = s
    /\ UNCHANGED <<real, shared, config, held, staged, home, todo, exposed, clock, mishaps>>

NothingStaged(s) ==
    /\ Go(s, "resync", "config")
    /\ staged[s] = NoFile
    /\ UNCHANGED <<homeVars, staged, home, todo, exposed, clock, mishaps>>

\* Mutant of Newer: the guard the function replaced, "copy only if missing".
NewerOnlyIfMissing(src, dst) == dst = NoFile

\* Is the staged login to replace the shared one?  By last_refresh when both
\* carry it, else by content and mtime.
Newer(src, dst) ==
    \/ dst = NoFile
    \/ src.marked /\ dst.marked /\ src.login > dst.login
    \/ ~(src.marked /\ dst.marked) /\ src.login # dst.login /\ src.mtime >= dst.mtime

\* Mutant of Compare: the return that copies nothing leaves the lock taken.
CompareKeepsLock(s) ==
    /\ Go(s, "compare", IF Newer(staged[s], shared) THEN "copy" ELSE "config")
    /\ UNCHANGED <<homeVars, staged, home, todo, exposed, clock, mishaps>>

\* Nothing to bring ends the resync; else the copy follows, under the lock.
Compare(s) ==
    /\ \/ Newer(staged[s], shared) /\ Go(s, "compare", "copy") /\ UNCHANGED lock
       \/ ~Newer(staged[s], shared) /\ Go(s, "compare", "config") /\ lock' = NoSpawn
    /\ UNCHANGED <<real, shared, config, held, staged, home, todo, exposed, clock, mishaps>>

\* copy2 truncates the shared file ...
CopyBegins(s) ==
    /\ Go(s, "copy", "write")
    /\ shared' = Torn(clock)
    /\ UNCHANGED <<real, config, lock, held, staged, home, todo, exposed, clock, mishaps>>

\* ... fills it, and gives it the mtime of its source.
CopyEnds(s) ==
    /\ Go(s, "write", "config")
    /\ shared' = staged[s] /\ held' = staged[s].mtime
    /\ lock' = NoSpawn
    /\ UNCHANGED <<real, config, staged, home, todo, exposed, clock, mishaps>>

\* Any exception, of the lock file, of the comparison or of the copy, is logged,
\* and the spawn goes on with what is there.
ResyncFails(s) ==
    /\ Mishap
    /\ at[s] \in {"resync", "compare", "copy", "write"} /\ at' = [at EXCEPT ![s] = "config"]
    /\ lock' = IF lock = s THEN NoSpawn ELSE lock
    /\ UNCHANGED <<real, shared, config, held, staged, home, todo, exposed, clock>>

\* A shared home with a config.toml gets the warm-token headers, if it has
\* not; one without is filled from the private copy.  The file is read and
\* written without the lock; in one step here, as all who patch it write the
\* same, and what a reader makes of a half-written one is left out.
CheckConfig(s) ==
    /\ \/ /\ config # "none" /\ Go(s, "config", "render")
          /\ config' = Patched(config) /\ UNCHANGED todo
       \/ /\ config = "none" /\ Go(s, "config", "populate")
          /\ todo' = [todo EXCEPT ![s] = {"config"} \union
                        (IF staged[s] = NoFile THEN {} ELSE {"auth"})]
          /\ UNCHANGED config
    /\ UNCHANGED <<real, shared, lock, held, staged, home, exposed, clock, mishaps>>

\* copytree, file by file, in the order of the directory and without the lock.
Populate(s) ==
    /\ at[s] = "populate"
    /\ \E file \in todo[s] :
          /\ todo' = [todo EXCEPT ![s] = @ \ {file}]
          /\ at' = IF todo[s] = {file} THEN [at EXCEPT ![s] = "render"] ELSE at
          /\ \/ /\ file = "config" /\ config' = Patched("plain")
                /\ UNCHANGED <<shared, held, exposed>>
             \/ /\ file = "auth" /\ shared' = staged[s] /\ held' = staged[s].mtime
                /\ Exposes
                /\ UNCHANGED config
    /\ UNCHANGED <<real, lock, staged, home, clock, mishaps>>

\* copytree raises: what was not copied yet is not there.
PopulateFails(s) ==
    /\ Mishap /\ Go(s, "populate", "render")
    /\ todo' = [todo EXCEPT ![s] = {}]
    /\ UNCHANGED <<homeVars, staged, home, exposed, clock>>

\* The scoped configuration of this run; without it there is no run.
Render(s) ==
    /\ \/ Go(s, "render", "run") /\ UNCHANGED mishaps
       \/ Go(s, "render", "over") /\ Mishap
    /\ UNCHANGED <<homeVars, staged, home, todo, exposed, clock>>

\* The process of the worker dies, and the kernel drops its lock.
Dies(s) ==
    /\ Mishap
    /\ at[s] \in Preparing /\ at' = [at EXCEPT ![s] = "over"]
    /\ lock' = IF lock = s THEN NoSpawn ELSE lock
    /\ todo' = [todo EXCEPT ![s] = {}]
    /\ UNCHANGED <<real, shared, config, held, staged, home, exposed, clock>>

\* The codex of a running container refreshes the login it can read.
Refresh(s) ==
    /\ at[s] = "run" /\ clock < MaxClock /\ clock' = clock + 1
    /\ \/ /\ home[s] = "shared" /\ shared.login > 0
          /\ shared' = Whole(clock + 1, TRUE) /\ held' = clock + 1
          /\ Exposes /\ UNCHANGED real
       \/ /\ home[s] = "real" /\ real.login > 0
          /\ real' = Whole(clock + 1, TRUE)
          /\ UNCHANGED <<shared, held, exposed>>
    /\ UNCHANGED <<config, lock, at, staged, home, todo, mishaps>>

RunEnds(s) ==
    /\ Go(s, "run", "over")
    /\ UNCHANGED <<homeVars, staged, home, todo, exposed, clock, mishaps>>

-----------------------------------------------------------------------------
Prepare(s) ==
    \/ Stage(s) \/ StageFails(s) \/ Acquire(s) \/ NothingStaged(s) \/ Compare(s)
    \/ CopyBegins(s) \/ CopyEnds(s) \/ ResyncFails(s)
    \/ CheckConfig(s) \/ Populate(s) \/ PopulateFails(s) \/ Render(s)

Next ==
    \/ LoginBegins \/ LoginEnds
    \/ \E s \in Spawns :
          Begin(s) \/ Prepare(s) \/ Dies(s) \/ Refresh(s) \/ RunEnds(s)

Spec == Init /\ [][Next]_vars

\* A thread that can take its next step takes it, and the kernel serves those
\* who wait for a file lock in turn.
Fairness == \A s \in Spawns : WF_vars(Prepare(s)) /\ SF_vars(Acquire(s))

FairSpec == Spec /\ Fairness

-----------------------------------------------------------------------------
\* _resync_shared_cli_home_auth: "a fresher login ... in the staged snapshot"
\* reaches the shared home, and a shared copy "ALREADY as fresh or fresher" is
\* never overwritten, however many spawns resync at once: when one is done, the
\* shared file is no older than its own copy, nor than what was there -- unless
\* a codex, or a spawn that fills the home, wrote in the middle without the lock.
TakesTheNewer ==
    [][\A s \in Spawns :
          /\ at[s] \in {"compare", "write"} /\ at'[s] = "config"
          /\ s \notin exposed /\ mishaps' = mishaps
          => /\ shared'.mtime >= staged[s].mtime \/ shared'.login = staged[s].login
             /\ shared'.mtime >= held]_vars

\* "a resync that fails must not stop a run from starting": whatever fails, and
\* whoever dies with the lock, every spawn comes to run codex or to its end.
SpawnsSettle == \A s \in Spawns : at[s] \in Preparing ~> at[s] \in {"run", "over"}
=============================================================================
