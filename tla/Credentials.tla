----------------------------- MODULE Credentials -----------------------------
(***************************************************************************)
(* The credentials of one install.  The configuration on disk holds the    *)
(* platform token, the execute secret and the flag of the kanban sweep;    *)
(* every worker process works from its own live copy.  Activation and the  *)
(* leader's watchdogs mint, generate and seed what is missing, save it     *)
(* through this application's own config route, and tell the platform.     *)
(*                                                                         *)
(* Source: plugin.py (activation, watchdogs, config hooks),                *)
(* identity_token.py, execute_secret.py, kanban_sweep_default.py,          *)
(* runner_registration.py.  The config route and the broadcast after a     *)
(* save belong to the host and are modelled from their use here.           *)
(***************************************************************************)
EXTENDS Naturals, FiniteSets

CONSTANTS
    Workers,
    MaxTokens,    \* bound: tokens minted (with one, no token is ever renewed)
    MaxSecrets,   \* bound: secrets generated or typed in
    MaxMishaps    \* bound: calls that fail or whose answer is lost, saves by a
                  \* human, manual registrations, lease moves and restarts

ASSUME CredentialsAssumption ==
    MaxTokens \in Nat /\ MaxSecrets \in Nat /\ MaxMishaps \in Nat

VARIABLES
    disk,         \* AppInstall.config
    live,         \* live[w]: self._live_config of worker w
    behind,       \* behind[w]: w has yet to hear of the latest save
    pc,           \* pc[w]: how far activate() has come on w
    leader,       \* the worker that holds the watchdogs' lease
    tick,         \* tick[k][w]: the thread of watchdog k on worker w
    registered,   \* the platform: token and secret of the last registration
    skills,       \* the platform: token of the last skills push
    mcp,          \* the token in mcp.json
    due,          \* tokens past half their lifetime
    tokens, secrets,    \* tokens and secrets that were saved so far
    mishaps,
    clobbered     \* history: a thread's value was put over that of a newer save

outsideVars == <<registered, skills, mcp>>
countVars   == <<due, tokens, secrets, mishaps>>
vars == <<disk, live, behind, pc, leader, tick, outsideVars, countVars, clobbered>>

\* Zero is "not configured".
Tokens   == 0..MaxTokens
Secrets  == 0..MaxSecrets
Config   == [token : Tokens, secret : Secrets, sweep : {"unset", "on", "off"}]
Blank    == [token |-> 0, secret |-> 0, sweep |-> "unset"]
Tasks    == {"identity", "ensure", "reassert"}
Idle     == [at |-> "idle", token |-> 0, secret |-> 0]
Phases   == {"off", "identity", "secret", "register", "default", "finish", "serving"}

TypeOK ==
    /\ disk \in Config /\ live \in [Workers -> Config]
    /\ behind \in [Workers -> BOOLEAN] /\ pc \in [Workers -> Phases]
    /\ leader \in Workers
    /\ tick \in [Tasks -> [Workers ->
                    [at : {"idle", "persist", "set", "post"},
                     token : Tokens, secret : Secrets]]]
    /\ registered \in [token : Tokens, secret : Secrets]
    /\ skills \in Tokens /\ mcp \in Tokens /\ due \subseteq Tokens
    /\ tokens \in Tokens /\ secrets \in Secrets
    /\ mishaps \in 0..MaxMishaps /\ clobbered \in BOOLEAN

Init ==
    /\ disk = Blank /\ live = [w \in Workers |-> Blank]
    /\ behind = [w \in Workers |-> FALSE] /\ pc = [w \in Workers |-> "off"]
    /\ leader = (CHOOSE w \in Workers : TRUE)  \* the workers are alike
    /\ tick = [k \in Tasks |-> [w \in Workers |-> Idle]]
    /\ registered = [token |-> 0, secret |-> 0] /\ skills = 0 /\ mcp = 0
    /\ due = {} /\ tokens = 0 /\ secrets = 0
    /\ mishaps = 0 /\ clobbered = FALSE

-----------------------------------------------------------------------------
Mishap == mishaps < MaxMishaps /\ mishaps' = mishaps + 1

Thread(k, w, at, token, secret) ==
    tick' = [tick EXCEPT ![k][w] = [at |-> at, token |-> token, secret |-> secret]]

Rests(k, w) == tick' = [tick EXCEPT ![k][w] = Idle]

\* needs_refresh: missing, or past half its lifetime.
NeedsRefresh(token) == token = 0 \/ token \in due

\* What a thread can read of the live config of w: _refresh_derived_config
\* clears the dict and then fills it, so that a reload lets a thread see none.
Reads(w, field) ==
    {live[w][field]} \union (IF behind[w] THEN {Blank[field]} ELSE {})

\* The config route, served by worker v: it merges the change into the disk,
\* reloads v inline, runs on_config_saved there (it regenerates mcp.json; the
\* credentials it compares are the reloaded ones twice, so that it registers
\* nothing), and broadcasts to the workers that are up.
Serve(v, change) ==
    /\ pc[v] = "serving"
    /\ disk' = change
    /\ behind' = [w \in Workers |-> w # v /\ pc[w] # "off"]
    /\ tokens' = tokens + (IF change.token > tokens THEN 1 ELSE 0)
    /\ secrets' = secrets + (IF change.secret > secrets THEN 1 ELSE 0)

\* Only a save that was answered counts for who asked for it.
Works(outcome) == outcome = "saved"

\* A _persist call: it is answered; it is applied and not answered; it fails,
\* by a mishap or because no worker is there to serve it.
Persist(v, change, outcome) ==
    \/ outcome = "saved" /\ Serve(v, change) /\ UNCHANGED mishaps
    \/ outcome = "lost" /\ Serve(v, change) /\ Mishap
    \/ /\ outcome = "failed" /\ UNCHANGED <<disk, behind, tokens, secrets>>
       /\ Mishap \/ (UNCHANGED mishaps /\ \A x \in Workers : pc[x] # "serving")

\* The live configs once v has served a change.
Served(v, change, outcome) ==
    IF outcome = "failed" THEN live ELSE [live EXCEPT ![v] = change]

\* write_mcp_json, of the worker that served the change.
Rewritten(change, outcome) == IF outcome = "failed" THEN mcp ELSE change.token

Outcomes == {"saved", "lost", "failed"}

-----------------------------------------------------------------------------
(***************************************************************************)
(* activate() on worker w.  It blocks the event loop of w, so nothing is   *)
(* reloaded there meanwhile; the other workers run on.                     *)
(***************************************************************************)
Phase(w, from, to) == pc[w] = from /\ pc' = [pc EXCEPT ![w] = to]

Activate(w) ==
    /\ Phase(w, "off", "identity")
    /\ live' = [live EXCEPT ![w] = disk]
    /\ behind' = [behind EXCEPT ![w] = FALSE]
    /\ UNCHANGED <<disk, leader, tick, outsideVars, countVars, clobbered>>

\* identity_token.refresh: mint, persist and push; a failure of any hop leaves
\* the token that is configured, which is pushed all the same.
ActivateIdentity(w) ==
    /\ Phase(w, "identity", "secret")
    /\ \/ /\ ~NeedsRefresh(live[w].token) \/ tokens = MaxTokens
          /\ UNCHANGED <<disk, behind, live, mcp, tokens, secrets, mishaps>>
       \/ /\ NeedsRefresh(live[w].token) /\ tokens < MaxTokens
          /\ \E v \in Workers, outcome \in Outcomes :
                LET change == [disk EXCEPT !.token = tokens + 1]
                IN  /\ Persist(v, change, outcome)
                    /\ mcp' = Rewritten(change, outcome)
                    /\ live' = [Served(v, change, outcome) EXCEPT
                                  ![w].token = IF Works(outcome) THEN tokens + 1 ELSE @]
    /\ skills' = IF live'[w].token = 0 THEN skills ELSE live'[w].token
    /\ UNCHANGED <<leader, tick, registered, due, clobbered>>

\* ensure_configured: only when this worker knows of no secret.
MayGenerate(secret) == secret = 0 /\ secrets < MaxSecrets

ActivateSecret(w) ==
    /\ Phase(w, "secret", "register")
    /\ \/ /\ ~MayGenerate(live[w].secret)
          /\ UNCHANGED <<disk, behind, live, mcp, tokens, secrets, mishaps>>
       \/ /\ MayGenerate(live[w].secret)
          /\ \E v \in Workers, outcome \in Outcomes :
                LET change == [disk EXCEPT !.secret = secrets + 1]
                IN  /\ Persist(v, change, outcome)
                    /\ mcp' = Rewritten(change, outcome)
                    /\ live' = [Served(v, change, outcome) EXCEPT
                                  ![w].secret = IF Works(outcome) THEN secrets + 1 ELSE @]
    /\ UNCHANGED <<leader, tick, registered, skills, due, clobbered>>

\* register_with_platform, which sends nothing without a token; the last of
\* three attempts that are answered, or none.
ActivateRegister(w) ==
    /\ Phase(w, "register", "default")
    /\ \/ /\ live[w].token # 0 /\ UNCHANGED mishaps
          /\ registered' = [token |-> live[w].token, secret |-> live[w].secret]
       \/ live[w].token = 0 /\ UNCHANGED <<registered, mishaps>>
       \/ Mishap /\ UNCHANGED registered
    /\ UNCHANGED <<disk, live, behind, leader, tick, skills, mcp, due, tokens, secrets, clobbered>>

\* ensure_default_applied, once per install; then mcp.json, the routes and the
\* watchdogs, and the worker serves.
ActivateDefault(w) ==
    /\ Phase(w, "default", "serving")
    /\ \/ /\ live[w].sweep # "unset"
          /\ UNCHANGED <<disk, behind, live, tokens, secrets, mishaps>>
       \/ /\ live[w].sweep = "unset"
          /\ \E v \in Workers, outcome \in Outcomes :
                LET change == [disk EXCEPT !.sweep = "on"]
                IN  /\ Persist(v, change, outcome)
                    /\ live' = [Served(v, change, outcome) EXCEPT
                                  ![w].sweep = IF Works(outcome) THEN "on" ELSE @]
    /\ mcp' = live[w].token
    /\ UNCHANGED <<leader, tick, registered, skills, due, clobbered>>

-----------------------------------------------------------------------------
(***************************************************************************)
(* The watchdogs: on the leader, each tick in a thread of its own, and     *)
(* what it brings back is put into the live config by the event loop.      *)
(***************************************************************************)
Watches(k, w) == w = leader /\ pc[w] = "serving" /\ tick[k][w].at = "idle"

\* push_skills_token: best effort, and nothing without a token.
Pushes(token) ==
    \/ skills' = (IF token = 0 THEN skills ELSE token) /\ UNCHANGED mishaps
    \/ Mishap /\ UNCHANGED skills

\* A token that is not due is only pushed.
BeginIdentity(w) ==
    /\ Watches("identity", w)
    /\ \E token \in Reads(w, "token") :
          IF NeedsRefresh(token) /\ tokens < MaxTokens
          THEN Thread("identity", w, "persist", token, 0) /\ UNCHANGED <<skills, mishaps>>
          ELSE Pushes(token) /\ UNCHANGED tick
    /\ UNCHANGED <<disk, live, behind, pc, leader, registered, mcp, due, tokens, secrets, clobbered>>

\* A token that could not be persisted is dropped, and the old one pushed.
MintToken(w) ==
    LET t == tick["identity"][w]
        drops == IF t.token = 0 THEN UNCHANGED skills ELSE skills' = t.token
    IN  /\ t.at = "persist"
        /\ \/ /\ tokens = MaxTokens /\ Rests("identity", w) /\ drops
              /\ UNCHANGED <<disk, live, behind, mcp, tokens, secrets, mishaps>>
           \/ /\ tokens < MaxTokens
              /\ \E v \in Workers, outcome \in Outcomes :
                    LET change == [disk EXCEPT !.token = tokens + 1]
                    IN  /\ Persist(v, change, outcome)
                        /\ mcp' = Rewritten(change, outcome)
                        /\ live' = Served(v, change, outcome)
                        /\ IF Works(outcome)
                           THEN Thread("identity", w, "set", tokens + 1, 0) /\ UNCHANGED skills
                           ELSE Rests("identity", w) /\ drops
        /\ UNCHANGED <<pc, leader, registered, due, clobbered>>

\* The push of the new token, and the return to the event loop of w.
TakeToken(w) ==
    LET t == tick["identity"][w]
    IN  /\ t.at = "set" /\ Rests("identity", w)
        /\ Pushes(t.token)
        /\ live' = [live EXCEPT ![w].token = t.token]
        /\ clobbered' = (clobbered \/ (~behind[w] /\ t.token # disk.token))
        /\ UNCHANGED <<disk, behind, pc, leader, registered, mcp, due, tokens, secrets>>

BeginEnsure(w) ==
    /\ Watches("ensure", w)
    /\ \E secret \in Reads(w, "secret") : MayGenerate(secret)
    /\ Thread("ensure", w, "persist", 0, 0)
    /\ UNCHANGED <<disk, live, behind, pc, leader, outsideVars, countVars, clobbered>>

SeedSecret(w) ==
    /\ tick["ensure"][w].at = "persist"
    /\ \/ /\ secrets = MaxSecrets /\ Rests("ensure", w)
          /\ UNCHANGED <<disk, live, behind, mcp, tokens, secrets, mishaps>>
       \/ /\ secrets < MaxSecrets
          /\ \E v \in Workers, outcome \in Outcomes :
                LET change == [disk EXCEPT !.secret = secrets + 1]
                IN  /\ Persist(v, change, outcome)
                    /\ mcp' = Rewritten(change, outcome)
                    /\ live' = Served(v, change, outcome)
                    /\ IF Works(outcome) THEN Thread("ensure", w, "set", 0, secrets + 1)
                       ELSE Rests("ensure", w)
    /\ UNCHANGED <<pc, leader, registered, skills, due, clobbered>>

\* register_with_platform in a thread of task k: it reads the token, asks four
\* CLIs for their versions, reads the secret.  Without a token it sends nothing.
Registers(k, w, config) ==
    IF config.token = 0 THEN Rests(k, w)
    ELSE \E secret \in {config.secret} \union (IF behind[w] THEN {0} ELSE {}) :
            Thread(k, w, "post", config.token, secret)

\* The event loop of w takes the secret, and registers it in a new thread.
TakeSecret(w) ==
    LET config == [live[w] EXCEPT !.secret = tick["ensure"][w].secret]
    IN  /\ tick["ensure"][w].at = "set"
        /\ live' = [live EXCEPT ![w] = config]
        /\ clobbered' = (clobbered \/ (~behind[w] /\ config.secret # disk.secret))
        /\ Registers("ensure", w, config)
        /\ UNCHANGED <<disk, behind, pc, leader, outsideVars, countVars>>

\* The periodic registration; any worker may also be asked for one (/register).
BeginReassert(w) ==
    /\ \/ Watches("reassert", w) /\ UNCHANGED mishaps
       \/ pc[w] = "serving" /\ tick["reassert"][w].at = "idle" /\ w # leader /\ Mishap
    /\ live[w].token # 0
    /\ Registers("reassert", w, live[w])
    /\ UNCHANGED <<disk, live, behind, pc, leader, outsideVars, due, tokens, secrets, clobbered>>

\* The payload is built once for all its attempts: it may arrive late.
PostRegistration(k, w) ==
    LET t == tick[k][w]
    IN  /\ t.at = "post" /\ Rests(k, w)
        /\ \/ registered' = [token |-> t.token, secret |-> t.secret] /\ UNCHANGED mishaps
           \/ Mishap /\ UNCHANGED registered
        /\ UNCHANGED <<disk, live, behind, pc, leader, skills, mcp, due, tokens, secrets, clobbered>>

\* The mcp.json watchdog, and /register-observability.
RefreshMcp(w) ==
    /\ w = leader /\ pc[w] = "serving" /\ mcp # live[w].token
    /\ mcp' = live[w].token
    /\ UNCHANGED <<disk, live, behind, pc, leader, tick, registered, skills, countVars, clobbered>>

-----------------------------------------------------------------------------
(***************************************************************************)
(* The host: the broadcast, saves by a human, the lease, time, restarts.   *)
(***************************************************************************)
\* Mutant of Reload: only the credentials are taken over.
ReloadCredentials(w) ==
    /\ pc[w] = "serving" /\ behind[w]
    /\ behind' = [behind EXCEPT ![w] = FALSE]
    /\ live' = [live EXCEPT ![w] = [token |-> disk.token, secret |-> disk.secret]]
    /\ UNCHANGED <<disk, pc, leader, tick, outsideVars, countVars, clobbered>>

\* Mutant of Reload: the hook is missing on the workers that did not serve the save.
ReloadNothing(w) ==
    /\ pc[w] = "serving" /\ behind[w]
    /\ behind' = [behind EXCEPT ![w] = FALSE]
    /\ UNCHANGED <<disk, live, pc, leader, tick, outsideVars, countVars, clobbered>>

\* on_config_reloaded, on a worker that is not in the middle of activate().
Reload(w) ==
    /\ pc[w] = "serving" /\ behind[w]
    /\ behind' = [behind EXCEPT ![w] = FALSE]
    /\ live' = [live EXCEPT ![w] = disk]
    /\ UNCHANGED <<disk, pc, leader, tick, outsideVars, countVars, clobbered>>

\* Somebody rotates the secret, or unticks the sweep; until the default was
\* applied an untick leaves it to be applied.
UserSaves(v) ==
    /\ Mishap
    /\ \E change \in {[disk EXCEPT !.secret = secrets + 1],
                      [disk EXCEPT !.sweep = IF @ = "on" THEN "off" ELSE @]} :
          /\ change # disk /\ change.secret <= MaxSecrets
          /\ Serve(v, change)
          /\ live' = [live EXCEPT ![v] = change]
          /\ mcp' = change.token
    /\ UNCHANGED <<pc, leader, tick, registered, skills, due, clobbered>>

Ages(token) ==
    /\ token \in (1..tokens) \ due
    /\ due' = due \union {token}
    /\ UNCHANGED <<disk, live, behind, pc, leader, tick, outsideVars, tokens, secrets,
                   mishaps, clobbered>>

LeaseMoves(w) ==
    /\ Mishap /\ w # leader /\ leader' = w
    /\ UNCHANGED <<disk, live, behind, pc, tick, outsideVars, due, tokens, secrets, clobbered>>

\* The workspace process: every worker and every thread with it.
Restart ==
    /\ Mishap
    /\ live' = [w \in Workers |-> Blank] /\ behind' = [w \in Workers |-> FALSE]
    /\ pc' = [w \in Workers |-> "off"]
    /\ tick' = [k \in Tasks |-> [w \in Workers |-> Idle]]
    /\ UNCHANGED <<disk, leader, outsideVars, due, tokens, secrets, clobbered>>

-----------------------------------------------------------------------------
Activation(w) ==
    \/ Activate(w) \/ ActivateIdentity(w) \/ ActivateSecret(w) \/ ActivateRegister(w)
    \/ ActivateDefault(w)

ThreadStep(w) ==
    \/ MintToken(w) \/ TakeToken(w) \/ SeedSecret(w) \/ TakeSecret(w)
    \/ \E k \in {"ensure", "reassert"} : PostRegistration(k, w)

Next ==
    \/ \E w \in Workers :
          \/ Activation(w) \/ ThreadStep(w) \/ Reload(w) \/ RefreshMcp(w)
          \/ BeginIdentity(w) \/ BeginEnsure(w) \/ BeginReassert(w)
          \/ UserSaves(w) \/ LeaseMoves(w)
    \/ \E token \in 1..MaxTokens : Ages(token)
    \/ Restart

Spec == Init /\ [][Next]_vars

\* A worker that starts finishes activate(), the broadcast arrives, threads run
\* on, and the leader's intervals (120 s, and 6 h for the token) always elapse.
Fairness ==
    \A w \in Workers :
        /\ WF_vars(Activation(w)) /\ WF_vars(Reload(w)) /\ WF_vars(RefreshMcp(w))
        /\ WF_vars(MintToken(w)) /\ WF_vars(TakeToken(w))
        /\ WF_vars(SeedSecret(w)) /\ WF_vars(TakeSecret(w))
        /\ \A k \in {"ensure", "reassert"} : WF_vars(PostRegistration(k, w))
        /\ WF_vars(BeginIdentity(w)) /\ WF_vars(BeginEnsure(w)) /\ WF_vars(BeginReassert(w))

FairSpec == Spec /\ Fairness

-----------------------------------------------------------------------------
(***************************************************************************)
(* Liveness.                                                               *)
(***************************************************************************)
Agreed ==
    /\ registered = [token |-> disk.token, secret |-> disk.secret]
    /\ skills = disk.token /\ mcp = disk.token
    /\ \A w \in Workers : live[w] = disk

\* plugin.py: "any future drift (whatever the cause) self-heals in minutes":
\* every worker, the platform and mcp.json come to hold what is on disk, unless
\* a thread put its own value over that of a save its worker had taken in
\* (which nothing heals but another save or a restart).
DriftHeals == [](~clobbered) => <>[]Agreed
=============================================================================
