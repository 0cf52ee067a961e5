---------------------------- MODULE ColdRunProofs ----------------------------
(***************************************************************************)
(* Proofs about ColdRun, for any set of workers and runs and any bounds:   *)
(* type correctness, at most one `done` per posted run, an abort during    *)
(* the preparation keeps the run from starting, a killed run stays dead,   *)
(* the tale of a kill is out before its `done`, and ColdRun implements     *)
(* RunContract.                                                            *)
(***************************************************************************)
EXTENDS ColdRun, TLAPS

USE DEF runVars, engineVars, flagVars, abortVars, streamVars, faultVars, callVars

-----------------------------------------------------------------------------
(***************************************************************************)
(* Type correctness.                                                       *)
(***************************************************************************)

\* The steps that the branching actions lead to are steps.
LEMMA StepTypes ==
  {"cool", "create", "retry", "finish", "backoff", "nap"} \subseteq PCs
BY DEF PCs

\* So is the step a thread that sees the abort flag goes to.
LEMMA ExitType ==
  ASSUME NEW w \in Workers, NEW r \in Runs
  PROVE  AbortedExit(w, r) \in PCs
BY DEF AbortedExit, PCs

\* Moving one thread to a step keeps the type of pc.
LEMMA GoToType ==
  ASSUME TypeOK, NEW w \in Workers, NEW r \in Runs, NEW from, NEW to \in PCs,
         GoTo(w, r, from, to)
  PROVE  pc' \in [Workers -> [Runs -> PCs]]
BY DEF TypeOK, GoTo

\* Every variable keeps its type: in particular the retry counter stays
\* within the attempt budget of _run_cold_agent_with_retry.
THEOREM TypeCorrect == Spec => []TypeOK
<1>1. Init => TypeOK
  <2> SUFFICES ASSUME Init PROVE TypeOK
    OBVIOUS
  <2>1. attempt \in [Workers -> [Runs -> 1..MaxAttempts]]
    BY BoundsAssumption DEF Init
  <2>2. pc \in [Workers -> [Runs -> PCs]] /\ apc \in [Workers -> [Runs -> APCs]]
    BY DEF Init, PCs, APCs
  <2> QED
    BY <2>1, <2>2 DEF Init, TypeOK
<1>2. TypeOK /\ [Next]_vars => TypeOK'
  <2> SUFFICES ASSUME TypeOK, [Next]_vars PROVE TypeOK'
    OBVIOUS
  <2> USE BoundsAssumption DEF TypeOK
  <2>1. ASSUME NEW w \in Workers, NEW r \in Runs, StartJob(w, r) PROVE TypeOK'
    BY <2>1 DEF StartJob, Posts, GoTo, PCs
  <2>2. ASSUME NEW w \in Workers, NEW r \in Runs, Prepare(w, r) PROVE TypeOK'
    BY <2>2 DEF Prepare, GoTo, PCs
  <2>3. ASSUME NEW w \in Workers, NEW r \in Runs, PrepareFails(w, r) PROVE TypeOK'
    BY <2>3 DEF PrepareFails, GoTo, PCs
  <2>4. ASSUME NEW w \in Workers, NEW r \in Runs, CheckAborted(w, r) PROVE TypeOK'
    <3>1. pc' \in [Workers -> [Runs -> PCs]]
      BY <2>4, StepTypes, ExitType, GoToType, Zenon DEF CheckAborted
    <3> QED
      BY <2>4, <3>1 DEF CheckAborted
  <2>5. ASSUME NEW w \in Workers, NEW r \in Runs, CooldownWait(w, r) PROVE TypeOK'
    <3>1. pc' \in [Workers -> [Runs -> PCs]]
      BY <2>5, StepTypes, ExitType, GoToType, Zenon DEF CooldownWait
    <3> QED
      BY <2>5, <3>1 DEF CooldownWait
  <2>6. ASSUME NEW w \in Workers, NEW r \in Runs, CreateContainer(w, r) PROVE TypeOK'
    BY <2>6 DEF CreateContainer, GoTo, PCs
  <2>7. ASSUME NEW w \in Workers, NEW r \in Runs, StartContainer(w, r) PROVE TypeOK'
    BY <2>7 DEF StartContainer, GoTo, PCs
  <2>8. ASSUME NEW w \in Workers, NEW r \in Runs, SpawnFails(w, r) PROVE TypeOK'
    BY <2>8 DEF SpawnFails, SpawnErrorExit, GoTo, PCs
  <2>9. ASSUME NEW w \in Workers, NEW r \in Runs, StreamEnds(w, r) PROVE TypeOK'
    BY <2>9 DEF StreamEnds, GoTo, PCs
  <2>10. ASSUME NEW w \in Workers, NEW r \in Runs, FetchOutput(w, r) PROVE TypeOK'
    BY <2>10 DEF FetchOutput, AfterFetch, PublishStderr, GoTo, PCs
  <2>11. ASSUME NEW w \in Workers, NEW r \in Runs, EndAttempt(w, r) PROVE TypeOK'
    <3>1. pc' \in [Workers -> [Runs -> PCs]]
      BY <2>11, StepTypes, GoToType, Zenon DEF EndAttempt, Judge
    <3>2. attempt' \in [Workers -> [Runs -> 1..MaxAttempts]]
      <4>1. CASE CanRetry(w, r) /\ attempt' = [attempt EXCEPT ![w][r] = @ + 1]
        BY <4>1 DEF CanRetry
      <4> QED
        BY <2>11, <4>1 DEF EndAttempt, Judge
    <3>3. why' \in [Workers -> [Runs -> {"none", "contention", "rate_limit"}]]
      <4>1. CASE \E y \in {"contention", "rate_limit"} : why' = [why EXCEPT ![w][r] = y]
        BY <4>1
      <4> QED
        BY <2>11, <4>1 DEF EndAttempt, Judge
    <3>4. cont' \in [Runs -> {"none", "created", "running", "exited"}]
      BY <2>11 DEF EndAttempt, Remove
    <3> QED
      BY <2>11, <3>1, <3>2, <3>3, <3>4 DEF EndAttempt
  <2>12. ASSUME NEW w \in Workers, NEW r \in Runs, RetryCheck(w, r) PROVE TypeOK'
    <3>1. pc' \in [Workers -> [Runs -> PCs]]
      BY <2>12, StepTypes, ExitType, GoToType, Zenon DEF RetryCheck
    <3>2. armed' \in BOOLEAN
      BY <2>12 DEF RetryCheck
    <3>3. why' \in [Workers -> [Runs -> {"none", "contention", "rate_limit"}]]
      BY <2>12 DEF RetryCheck
    <3> QED
      BY <2>12, <3>1, <3>2, <3>3 DEF RetryCheck
  <2>13. ASSUME NEW w \in Workers, NEW r \in Runs, BackoffOver(w, r) PROVE TypeOK'
    <3>1. pc' \in [Workers -> [Runs -> PCs]]
      BY <2>13, StepTypes, ExitType, GoToType, Zenon DEF BackoffOver
    <3> QED
      BY <2>13, <3>1 DEF BackoffOver
  <2>14. ASSUME NEW w \in Workers, NEW r \in Runs, PublishDone(w, r) PROVE TypeOK'
    BY <2>14 DEF PublishDone, AfterDone, GoTo, PCs
  <2>15. ASSUME NEW w \in Workers, NEW r \in Runs, DiscardMonitor(w, r) PROVE TypeOK'
    BY <2>15 DEF DiscardMonitor, Remove, GoTo, PCs
  <2>16. ASSUME NEW w \in Workers, NEW r \in Runs, ForgetRun(w, r) PROVE TypeOK'
    BY <2>16 DEF ForgetRun, GoTo, PCs
  <2>17. ASSUME NEW w \in Workers, NEW r \in Runs, MonitorTimeout(w, r) PROVE TypeOK'
    BY <2>17 DEF MonitorTimeout, GoTo, PCs
  <2>18. ASSUME NEW w \in Workers, NEW r \in Runs, AbortCall(w, r) PROVE TypeOK'
    BY <2>18 DEF AbortCall, AbortGoTo, APCs
  <2>19. ASSUME NEW w \in Workers, NEW r \in Runs, MarkAborted(w, r) PROVE TypeOK'
    BY <2>19 DEF MarkAborted, AbortGoTo, APCs
  <2>20. ASSUME NEW w \in Workers, NEW r \in Runs, AbortLookup(w, r) PROVE TypeOK'
    <3>1. apc' \in [Workers -> [Runs -> APCs]]
      <4>1. {"sign", "idle"} \subseteq APCs
        BY DEF APCs
      <4>2. ASSUME NEW to \in APCs, AbortGoTo(w, r, "get", to)
            PROVE  apc' \in [Workers -> [Runs -> APCs]]
        BY <4>2 DEF AbortGoTo
      <4> QED
        BY <2>20, <4>1, <4>2, Zenon DEF AbortLookup
    <3>2. held' \in [Workers -> [Runs -> Nat]]
      <4>1. CASE held' = [held EXCEPT ![w][r] = gen[r]]
        BY <4>1
      <4> QED
        BY <2>20, <4>1, Zenon DEF AbortLookup
    <3> QED
      BY <2>20, <3>1, <3>2 DEF AbortLookup
  <2>21. ASSUME NEW w \in Workers, NEW r \in Runs, MarkHardKill(w, r) PROVE TypeOK'
    BY <2>21 DEF MarkHardKill, AbortGoTo, APCs
  <2>22. ASSUME NEW w \in Workers, NEW r \in Runs, AbortKill(w, r) PROVE TypeOK'
    BY <2>22 DEF AbortKill, AfterKill, AbortGoTo, APCs
  <2>23. ASSUME NEW w \in Workers, NEW r \in Runs, AbortStderr(w, r) PROVE TypeOK'
    BY <2>23 DEF AbortStderr, PublishStderr, AbortGoTo, APCs
  <2>24. ASSUME NEW w \in Workers, NEW r \in Runs, AbortRemove(w, r) PROVE TypeOK'
    BY <2>24 DEF AbortRemove, AnswerKilled, Remove, AbortGoTo, APCs
  <2>25. CASE CooldownExpires
    BY <2>25 DEF CooldownExpires
  <2>26. CASE RedisFails
    <3>1. redisUp' \in BOOLEAN
      BY <2>26, Zenon DEF RedisFails, Outage
    <3>2. outages' = outages + 1
      BY <2>26, Zenon DEF RedisFails, Outage
    <3>3. outages' \in Nat
      BY <3>2
    <3> QED
      BY <2>26, <3>1, <3>3 DEF RedisFails, Outage
  <2>27. CASE RedisRecovers
    BY <2>27 DEF RedisRecovers
  <2>28. ASSUME NEW r \in Runs, ContainerExits(r) PROVE TypeOK'
    BY <2>28 DEF ContainerExits
  <2>29. ASSUME NEW w \in Workers, Crash(w) PROVE TypeOK'
    BY <2>29 DEF Crash, PCs, APCs
  <2>30. CASE UNCHANGED vars
    BY <2>30 DEF vars
  <2>31. ASSUME NEW w \in Workers, NEW r \in Runs, EngineFails(w, r) PROVE TypeOK'
    <3>1. pc' \in [Workers -> [Runs -> PCs]]
      <4>1. PICK from \in PCs, to \in PCs : GoTo(w, r, from, to)
        BY <2>31 DEF EngineFails, Judge, AfterFetch, PCs
      <4> QED
        BY <4>1, GoToType
    <3>2. attempt' \in [Workers -> [Runs -> 1..MaxAttempts]]
      <4>1. CASE CanRetry(w, r) /\ attempt' = [attempt EXCEPT ![w][r] = @ + 1]
        BY <4>1 DEF CanRetry
      <4> QED
        BY <2>31, <4>1 DEF EngineFails, Judge
    <3>3. why' \in [Workers -> [Runs -> {"none", "contention", "rate_limit"}]]
      <4>1. CASE \E y \in {"contention", "rate_limit"} : why' = [why EXCEPT ![w][r] = y]
        BY <4>1
      <4> QED
        BY <2>31, <4>1 DEF EngineFails, Judge
    <3>4. outages' \in Nat
      BY <2>31 DEF EngineFails, Outage
    <3> QED
      BY <2>31, <3>1, <3>2, <3>3, <3>4 DEF EngineFails
  <2>32. ASSUME NEW w \in Workers, NEW r \in Runs, AbortCallFails(w, r) PROVE TypeOK'
    <3>1. apc' \in [Workers -> [Runs -> APCs]]
      <4>1. PICK from \in APCs, to \in APCs : AbortGoTo(w, r, from, to)
        BY <2>32 DEF AbortCallFails, AfterKill, APCs
      <4> QED
        BY <4>1 DEF AbortGoTo
    <3>2. held' \in [Workers -> [Runs -> Nat]] /\ killed' \in SUBSET Runs
      <4>1. CASE AnswerKilled(w, r)
        BY <4>1 DEF AnswerKilled
      <4> QED
        BY <2>32, <4>1, Zenon DEF AbortCallFails
    <3>3. outages' \in Nat
      BY <2>32 DEF AbortCallFails, Outage
    <3> QED
      BY <2>32, <3>1, <3>2, <3>3 DEF AbortCallFails
  <2> QED
    BY <2>1, <2>2, <2>3, <2>4, <2>5, <2>6, <2>7, <2>8, <2>9, <2>10, <2>11,
       <2>12, <2>13, <2>14, <2>15, <2>16, <2>17, <2>18, <2>19, <2>20, <2>21,
       <2>22, <2>23, <2>24, <2>25, <2>26, <2>27, <2>28, <2>29, <2>30, <2>31, <2>32 DEF
       Next, RunStep, AbortStep
<1> QED
  BY <1>1, <1>2, PTL DEF Spec

-----------------------------------------------------------------------------
(***************************************************************************)
(* At most one `done` per posted run.  DoneAtMostOnce says nothing of what *)
(* keeps a second thread away; DoneInv adds it: a thread that has          *)
(* published is past its publishing step, and two threads that took part   *)
(* in a run mean two POSTs.                                                *)
(***************************************************************************)
TookPart(w, r) == pc[w][r] \notin {"idle", "dead"} \/ dones[w][r] > 0

PublishedOnce ==
    \A w \in Workers, r \in Runs :
        /\ dones[w][r] <= 1
        /\ pc[w][r] \notin {"discard", "forget", "end", "dead"} => dones[w][r] = 0

ThreadsArePosted ==
    \A r \in Runs :
        /\ posts[r] = 0 => \A w \in Workers : ~TookPart(w, r)
        /\ posts[r] <= 1 =>
              \A w, v \in Workers : w # v => ~TookPart(w, r) \/ ~TookPart(v, r)

DoneInv == PublishedOnce /\ ThreadsArePosted

(***************************************************************************)
(* An abort during the preparation.  What AbortedWhilePreparing leaves out *)
(* is where the run's threads may stand and why the flag is still there    *)
(* when one of them reads it: only the run's own thread clears it, at its  *)
(* end.                                                                    *)
(***************************************************************************)
BeforeCheck == {"idle", "prep", "gate"}
Unspawned == BeforeCheck \union {"aborted", "error", "forget", "end", "dead"}

FirstAttempt ==
    \A w \in Workers, r \in Runs : pc[w][r] \in BeforeCheck => attempt[w][r] = 1

SpawnsAfterCheck ==
    \A r \in Runs : (\A w \in Workers : pc[w][r] \in BeforeCheck) => gen[r] = 0

FlagWaits ==
    \A r \in early : posts[r] <= 1 /\ outages = 0 =>
        /\ gen[r] = 0
        /\ \A w \in Workers : pc[w][r] \in Unspawned
        /\ \/ r \in redisFlag
           \/ posts[r] = 1 /\ \A w \in Workers : pc[w][r] \notin {"prep", "gate"}

EarlyInv ==
    /\ outages = 0 => redisUp
    /\ FirstAttempt
    /\ SpawnsAfterCheck
    /\ FlagWaits

\* A move of one thread that publishes nothing and is not the start of a
\* thread keeps DoneInv.
LEMMA MoveKeepsDoneInv ==
  ASSUME TypeOK, DoneInv, NEW w \in Workers, NEW r \in Runs, NEW from, NEW to,
         GoTo(w, r, from, to), from \notin {"idle", "dead"},
         from \in {"discard", "forget", "end"} => to \in {"forget", "end"},
         UNCHANGED <<dones, posts>>
  PROVE  DoneInv'
<1>1. \A v \in Workers, q \in Runs :
         pc'[v][q] = IF v = w /\ q = r THEN to ELSE pc[v][q]
  BY DEF TypeOK, GoTo
<1>2. pc[w][r] = from
  BY DEF GoTo
<1>3. PublishedOnce'
  BY <1>1, <1>2 DEF DoneInv, PublishedOnce
<1>4. \A v \in Workers, q \in Runs : TookPart(v, q)' => TookPart(v, q)
  BY <1>1, <1>2 DEF TookPart
<1>5. ThreadsArePosted'
  BY <1>4 DEF DoneInv, ThreadsArePosted
<1> QED
  BY <1>3, <1>5 DEF DoneInv

\* One action at a time, DoneInv is kept.
LEMMA DoneInvStep == TypeOK /\ DoneInv /\ [Next]_vars => DoneInv'
<1> SUFFICES ASSUME TypeOK, DoneInv, [Next]_vars PROVE DoneInv'
  OBVIOUS
<1>0. ASSUME UNCHANGED <<pc, dones, posts>> PROVE DoneInv'
  BY <1>0 DEF DoneInv, PublishedOnce, ThreadsArePosted, TookPart
<1>1. ASSUME NEW w \in Workers, NEW r \in Runs, StartJob(w, r) PROVE DoneInv'
  <2>1. CASE pc[w][r] = "idle"
    <3>1. \A v \in Workers, q \in Runs :
             /\ pc'[v][q] = IF v = w /\ q = r THEN "prep" ELSE pc[v][q]
             /\ dones'[v][q] = dones[v][q]
      BY <1>1, <2>1 DEF StartJob, Posts, TypeOK
    <3>2. \A q \in Runs : posts'[q] = IF q = r THEN posts[r] + 1 ELSE posts[q]
      BY <1>1 DEF StartJob, Posts, TypeOK
    <3>3. PublishedOnce'
      BY <2>1, <3>1 DEF DoneInv, PublishedOnce
    <3>4. \A v \in Workers, q \in Runs : TookPart(v, q)' => TookPart(v, q) \/ (v = w /\ q = r)
      BY <3>1 DEF TookPart
    <3>5. posts[r] \in Nat
      BY DEF TypeOK
    <3>6. ThreadsArePosted'
      BY <3>2, <3>4, <3>5 DEF DoneInv, ThreadsArePosted
    <3> QED
      BY <3>3, <3>6 DEF DoneInv
  <2>2. CASE pc[w][r] # "idle"
    <3>1. UNCHANGED <<pc, dones>>
      BY <1>1, <2>2 DEF StartJob, Posts
    <3>2. \A q \in Runs : posts'[q] = IF q = r THEN posts[r] + 1 ELSE posts[q]
      BY <1>1 DEF StartJob, Posts, TypeOK
    <3>3. \A q \in Runs : posts[q] \in Nat
      BY DEF TypeOK
    <3>4. ThreadsArePosted'
      BY <3>1, <3>2, <3>3 DEF DoneInv, ThreadsArePosted, TookPart
    <3> QED
      BY <3>1, <3>4 DEF DoneInv, PublishedOnce
  <2> QED
    BY <2>1, <2>2
<1>2. ASSUME NEW w \in Workers, NEW r \in Runs, Prepare(w, r) PROVE DoneInv'
  <2>1. UNCHANGED <<dones, posts>>
    BY <1>2 DEF Prepare
  <2>2. \E from, to :
           /\ GoTo(w, r, from, to)
           /\ from \notin {"idle", "dead"}
           /\ from \in {"discard", "forget", "end"} => to \in {"forget", "end"}
    BY <1>2 DEF Prepare
  <2> QED
    BY <2>1, <2>2, MoveKeepsDoneInv
<1>3. ASSUME NEW w \in Workers, NEW r \in Runs, PrepareFails(w, r) PROVE DoneInv'
  <2>1. UNCHANGED <<dones, posts>>
    BY <1>3 DEF PrepareFails
  <2>2. \E from, to :
           /\ GoTo(w, r, from, to)
           /\ from \notin {"idle", "dead"}
           /\ from \in {"discard", "forget", "end"} => to \in {"forget", "end"}
    BY <1>3 DEF PrepareFails
  <2> QED
    BY <2>1, <2>2, MoveKeepsDoneInv
<1>4. ASSUME NEW w \in Workers, NEW r \in Runs, CheckAborted(w, r) PROVE DoneInv'
  <2>1. UNCHANGED <<dones, posts>>
    BY <1>4 DEF CheckAborted
  <2>2. \E from, to :
           /\ GoTo(w, r, from, to)
           /\ from \notin {"idle", "dead"}
           /\ from \in {"discard", "forget", "end"} => to \in {"forget", "end"}
    BY <1>4 DEF CheckAborted
  <2> QED
    BY <2>1, <2>2, MoveKeepsDoneInv
<1>5. ASSUME NEW w \in Workers, NEW r \in Runs, CooldownWait(w, r) PROVE DoneInv'
  <2>1. UNCHANGED <<dones, posts>>
    BY <1>5 DEF CooldownWait
  <2>2. \E from, to :
           /\ GoTo(w, r, from, to)
           /\ from \notin {"idle", "dead"}
           /\ from \in {"discard", "forget", "end"} => to \in {"forget", "end"}
    BY <1>5 DEF CooldownWait
  <2> QED
    BY <2>1, <2>2, MoveKeepsDoneInv
<1>6. ASSUME NEW w \in Workers, NEW r \in Runs, CreateContainer(w, r) PROVE DoneInv'
  <2>1. UNCHANGED <<dones, posts>>
    BY <1>6 DEF CreateContainer
  <2>2. \E from, to :
           /\ GoTo(w, r, from, to)
           /\ from \notin {"idle", "dead"}
           /\ from \in {"discard", "forget", "end"} => to \in {"forget", "end"}
    BY <1>6 DEF CreateContainer
  <2> QED
    BY <2>1, <2>2, MoveKeepsDoneInv
<1>7. ASSUME NEW w \in Workers, NEW r \in Runs, StartContainer(w, r) PROVE DoneInv'
  <2>1. UNCHANGED <<dones, posts>>
    BY <1>7 DEF StartContainer
  <2>2. \E from, to :
           /\ GoTo(w, r, from, to)
           /\ from \notin {"idle", "dead"}
           /\ from \in {"discard", "forget", "end"} => to \in {"forget", "end"}
    BY <1>7 DEF StartContainer
  <2> QED
    BY <2>1, <2>2, MoveKeepsDoneInv
<1>8. ASSUME NEW w \in Workers, NEW r \in Runs, SpawnFails(w, r) PROVE DoneInv'
  <2>1. UNCHANGED <<dones, posts>>
    BY <1>8 DEF SpawnFails
  <2>2. \E from, to :
           /\ GoTo(w, r, from, to)
           /\ from \notin {"idle", "dead"}
           /\ from \in {"discard", "forget", "end"} => to \in {"forget", "end"}
    BY <1>8 DEF SpawnFails, GoTo
  <2> QED
    BY <2>1, <2>2, MoveKeepsDoneInv
<1>9. ASSUME NEW w \in Workers, NEW r \in Runs, StreamEnds(w, r) PROVE DoneInv'
  <2>1. UNCHANGED <<dones, posts>>
    BY <1>9 DEF StreamEnds
  <2>2. \E from, to :
           /\ GoTo(w, r, from, to)
           /\ from \notin {"idle", "dead"}
           /\ from \in {"discard", "forget", "end"} => to \in {"forget", "end"}
    BY <1>9 DEF StreamEnds
  <2> QED
    BY <2>1, <2>2, MoveKeepsDoneInv
<1>10. ASSUME NEW w \in Workers, NEW r \in Runs, FetchOutput(w, r) PROVE DoneInv'
  <2>1. UNCHANGED <<dones, posts>>
    BY <1>10 DEF FetchOutput, AfterFetch
  <2>2. \E from, to :
           /\ GoTo(w, r, from, to)
           /\ from \notin {"idle", "dead"}
           /\ from \in {"discard", "forget", "end"} => to \in {"forget", "end"}
    BY <1>10 DEF FetchOutput, AfterFetch
  <2> QED
    BY <2>1, <2>2, MoveKeepsDoneInv
<1>11. ASSUME NEW w \in Workers, NEW r \in Runs, EndAttempt(w, r) PROVE DoneInv'
  <2>1. UNCHANGED <<dones, posts>>
    BY <1>11 DEF EndAttempt, Judge
  <2>2. \E from, to :
           /\ GoTo(w, r, from, to)
           /\ from \notin {"idle", "dead"}
           /\ from \in {"discard", "forget", "end"} => to \in {"forget", "end"}
    BY <1>11 DEF EndAttempt, Judge
  <2> QED
    BY <2>1, <2>2, MoveKeepsDoneInv
<1>12. ASSUME NEW w \in Workers, NEW r \in Runs, RetryCheck(w, r) PROVE DoneInv'
  <2>1. UNCHANGED <<dones, posts>>
    BY <1>12 DEF RetryCheck
  <2>2. \E from, to :
           /\ GoTo(w, r, from, to)
           /\ from \notin {"idle", "dead"}
           /\ from \in {"discard", "forget", "end"} => to \in {"forget", "end"}
    BY <1>12 DEF RetryCheck
  <2> QED
    BY <2>1, <2>2, MoveKeepsDoneInv
<1>13. ASSUME NEW w \in Workers, NEW r \in Runs, BackoffOver(w, r) PROVE DoneInv'
  <2>1. UNCHANGED <<dones, posts>>
    BY <1>13 DEF BackoffOver
  <2>2. \E from, to :
           /\ GoTo(w, r, from, to)
           /\ from \notin {"idle", "dead"}
           /\ from \in {"discard", "forget", "end"} => to \in {"forget", "end"}
    BY <1>13 DEF BackoffOver
  <2> QED
    BY <2>1, <2>2, MoveKeepsDoneInv
<1>14. ASSUME NEW w \in Workers, NEW r \in Runs, PublishDone(w, r) PROVE DoneInv'
  <2>1. PICK step \in {"finish", "aborted", "error"} :
           GoTo(w, r, step, AfterDone(r, step))
    BY <1>14 DEF PublishDone
  <2>2. AfterDone(r, step) \in {"discard", "forget", "end"}
    BY DEF AfterDone
  <2>3. \A v \in Workers, q \in Runs :
           pc'[v][q] = IF v = w /\ q = r THEN AfterDone(r, step) ELSE pc[v][q]
    BY <2>1 DEF TypeOK, GoTo
  <2>4. pc[w][r] = step
    BY <2>1 DEF GoTo
  <2>5. \A v \in Workers, q \in Runs :
           \/ dones'[v][q] = dones[v][q]
           \/ v = w /\ q = r /\ dones'[v][q] = dones[v][q] + 1
    BY <1>14 DEF PublishDone, TypeOK
  <2>6. dones[w][r] = 0
    BY <2>1, <2>4 DEF DoneInv, PublishedOnce
  <2>7. PublishedOnce'
    BY <2>2, <2>3, <2>5, <2>6 DEF DoneInv, PublishedOnce
  <2>8. \A v \in Workers, q \in Runs : TookPart(v, q)' => TookPart(v, q)
    BY <2>1, <2>3, <2>4, <2>5 DEF TookPart
  <2>9. UNCHANGED posts
    BY <1>14 DEF PublishDone
  <2> QED
    BY <2>7, <2>8, <2>9 DEF DoneInv, ThreadsArePosted
<1>15. ASSUME NEW w \in Workers, NEW r \in Runs, DiscardMonitor(w, r) PROVE DoneInv'
  <2>1. UNCHANGED <<dones, posts>>
    BY <1>15 DEF DiscardMonitor
  <2>2. \E from, to :
           /\ GoTo(w, r, from, to)
           /\ from \notin {"idle", "dead"}
           /\ from \in {"discard", "forget", "end"} => to \in {"forget", "end"}
    BY <1>15 DEF DiscardMonitor
  <2> QED
    BY <2>1, <2>2, MoveKeepsDoneInv
<1>16. ASSUME NEW w \in Workers, NEW r \in Runs, ForgetRun(w, r) PROVE DoneInv'
  <2>1. UNCHANGED <<dones, posts>>
    BY <1>16 DEF ForgetRun
  <2>2. \E from, to :
           /\ GoTo(w, r, from, to)
           /\ from \notin {"idle", "dead"}
           /\ from \in {"discard", "forget", "end"} => to \in {"forget", "end"}
    BY <1>16 DEF ForgetRun
  <2> QED
    BY <2>1, <2>2, MoveKeepsDoneInv
<1>17. ASSUME NEW w \in Workers, NEW r \in Runs, MonitorTimeout(w, r) PROVE DoneInv'
  BY <1>0, <1>17 DEF MonitorTimeout
<1>18. ASSUME NEW w \in Workers, NEW r \in Runs, AbortCall(w, r) PROVE DoneInv'
  BY <1>0, <1>18 DEF AbortCall
<1>19. ASSUME NEW w \in Workers, NEW r \in Runs, MarkAborted(w, r) PROVE DoneInv'
  BY <1>0, <1>19 DEF MarkAborted
<1>20. ASSUME NEW w \in Workers, NEW r \in Runs, AbortLookup(w, r) PROVE DoneInv'
  BY <1>0, <1>20 DEF AbortLookup
<1>21. ASSUME NEW w \in Workers, NEW r \in Runs, MarkHardKill(w, r) PROVE DoneInv'
  BY <1>0, <1>21 DEF MarkHardKill
<1>22. ASSUME NEW w \in Workers, NEW r \in Runs, AbortKill(w, r) PROVE DoneInv'
  BY <1>0, <1>22 DEF AbortKill
<1>23. ASSUME NEW w \in Workers, NEW r \in Runs, AbortStderr(w, r) PROVE DoneInv'
  BY <1>0, <1>23 DEF AbortStderr
<1>24. ASSUME NEW w \in Workers, NEW r \in Runs, AbortRemove(w, r) PROVE DoneInv'
  BY <1>0, <1>24 DEF AbortRemove
<1>25. CASE CooldownExpires
  BY <1>0, <1>25 DEF CooldownExpires
<1>26. CASE RedisFails
  BY <1>0, <1>26 DEF RedisFails
<1>27. CASE RedisRecovers
  BY <1>0, <1>27 DEF RedisRecovers
<1>28. ASSUME NEW r \in Runs, ContainerExits(r) PROVE DoneInv'
  BY <1>0, <1>28 DEF ContainerExits
<1>29. ASSUME NEW w \in Workers, Crash(w) PROVE DoneInv'
  <2>1. \A v \in Workers, q \in Runs :
           pc'[v][q] = IF v = w THEN "dead" ELSE pc[v][q]
    BY <1>29 DEF Crash, TypeOK
  <2>2. UNCHANGED <<dones, posts>>
    BY <1>29 DEF Crash
  <2> QED
    BY <2>1, <2>2 DEF DoneInv, PublishedOnce, ThreadsArePosted, TookPart
<1>30. CASE UNCHANGED vars
  BY <1>0, <1>30 DEF vars
<1>31. ASSUME NEW w \in Workers, NEW r \in Runs, EngineFails(w, r) PROVE DoneInv'
  <2>1. UNCHANGED <<dones, posts>>
    BY <1>31 DEF EngineFails
  <2>2. \E from, to :
           /\ GoTo(w, r, from, to)
           /\ from \notin {"idle", "dead"}
           /\ from \in {"discard", "forget", "end"} => to \in {"forget", "end"}
    BY <1>31 DEF EngineFails, Judge
  <2> QED
    BY <2>1, <2>2, MoveKeepsDoneInv
<1>32. ASSUME NEW w \in Workers, NEW r \in Runs, AbortCallFails(w, r) PROVE DoneInv'
  BY <1>0, <1>32 DEF AbortCallFails
<1> QED
  BY <1>1, <1>2, <1>3, <1>4, <1>5, <1>6, <1>7, <1>8, <1>9, <1>10, <1>11,
     <1>12, <1>13, <1>14, <1>15, <1>16, <1>17, <1>18, <1>19, <1>20, <1>21,
     <1>22, <1>23, <1>24, <1>25, <1>26, <1>27, <1>28, <1>29, <1>30, <1>31, <1>32 DEF Next,
     RunStep, AbortStep

\* DoneInv holds in every reachable state.
LEMMA DoneInvHolds == Spec => []DoneInv
<1>1. Init => DoneInv
  BY DEF Init, DoneInv, PublishedOnce, ThreadsArePosted, TookPart
<1> QED
  BY <1>1, DoneInvStep, TypeCorrect, PTL DEF Spec

\* One POST never yields two `done` entries on the run's stream, whatever is
\* aborted, retried or crashes (comment on _STARTED_RUN_IDS; abort_job).
THEOREM DoneOnce == Spec => []DoneAtMostOnce
<1>1. TypeOK /\ DoneInv => DoneAtMostOnce
  <2> SUFFICES ASSUME TypeOK, DoneInv, NEW r \in Runs, posts[r] <= 1,
                      NEW w \in Workers, NEW v \in Workers
               PROVE  /\ dones[w][r] <= 1
                      /\ w # v => dones[w][r] = 0 \/ dones[v][r] = 0
    BY DEF DoneAtMostOnce
  <2>1. dones[w][r] \in Nat /\ dones[v][r] \in Nat
    BY DEF TypeOK
  <2> QED
    BY <2>1 DEF DoneInv, PublishedOnce, ThreadsArePosted, TookPart
<1> QED
  BY <1>1, TypeCorrect, DoneInvHolds, PTL

-----------------------------------------------------------------------------
\* A move of one thread that keeps it on its side of the check, and spawns
\* and flags nothing, keeps EarlyInv.
LEMMA MoveKeepsEarlyInv ==
  ASSUME TypeOK, EarlyInv, NEW w \in Workers, NEW r \in Runs, NEW from, NEW to,
         GoTo(w, r, from, to),
         to \in BeforeCheck => from = "prep" /\ to = "gate",
         from \in Unspawned => to \in Unspawned,
         \/ UNCHANGED attempt
         \/ to \notin BeforeCheck /\ attempt' = [attempt EXCEPT ![w][r] = @ + 1],
         UNCHANGED <<gen, posts, outages, redisUp, redisFlag, early>>
  PROVE  EarlyInv'
<1>1. \A v \in Workers, q \in Runs :
         pc'[v][q] = IF v = w /\ q = r THEN to ELSE pc[v][q]
  BY DEF TypeOK, GoTo
<1>2. pc[w][r] = from
  BY DEF GoTo
<1>3. \A v \in Workers, q \in Runs :
         attempt'[v][q] = attempt[v][q] \/ (v = w /\ q = r /\ to \notin BeforeCheck)
  BY DEF TypeOK
<1>4. FirstAttempt'
  BY <1>1, <1>2, <1>3 DEF EarlyInv, FirstAttempt, BeforeCheck
<1>5. SpawnsAfterCheck'
  BY <1>1, <1>2 DEF EarlyInv, SpawnsAfterCheck, BeforeCheck
<1>6. FlagWaits'
  <2> SUFFICES ASSUME NEW q \in early, posts[q] <= 1, outages = 0
               PROVE  /\ gen[q] = 0
                      /\ \A v \in Workers : pc'[v][q] \in Unspawned
                      /\ \/ q \in redisFlag
                         \/ posts[q] = 1 /\ \A v \in Workers : pc'[v][q] \notin {"prep", "gate"}
    BY DEF FlagWaits
  <2>1. q \in Runs
    BY DEF TypeOK
  <2> QED
    BY <1>1, <1>2, <2>1 DEF EarlyInv, FlagWaits, BeforeCheck
<1> QED
  BY <1>4, <1>5, <1>6 DEF EarlyInv

\* One action at a time, EarlyInv is kept.  The actions that need DoneInv are
\* the ones that clear the flag or post the run again.
LEMMA EarlyInvStep == TypeOK /\ DoneInv /\ EarlyInv /\ [Next]_vars => EarlyInv'
<1> SUFFICES ASSUME TypeOK, DoneInv, EarlyInv, [Next]_vars PROVE EarlyInv'
  OBVIOUS
<1>0. ASSUME UNCHANGED <<pc, attempt, gen, posts, outages, redisUp, redisFlag, early>>
      PROVE  EarlyInv'
  BY <1>0 DEF EarlyInv, FirstAttempt, SpawnsAfterCheck, FlagWaits
<1>1. ASSUME NEW w \in Workers, NEW r \in Runs, StartJob(w, r) PROVE EarlyInv'
  <2>1. \A v \in Workers, q \in Runs :
           pc'[v][q] = IF v = w /\ q = r /\ pc[w][r] = "idle" THEN "prep" ELSE pc[v][q]
    BY <1>1 DEF StartJob, Posts, TypeOK
  <2>2. \A q \in Runs : posts'[q] = IF q = r THEN posts[r] + 1 ELSE posts[q]
    BY <1>1 DEF StartJob, Posts, TypeOK
  <2>3. UNCHANGED <<attempt, gen, outages, redisUp, redisFlag, early>>
    BY <1>1 DEF StartJob, Posts
  <2>4. FirstAttempt'
    BY <2>1, <2>3 DEF EarlyInv, FirstAttempt, BeforeCheck
  <2>5. SpawnsAfterCheck'
    BY <2>1, <2>3 DEF EarlyInv, SpawnsAfterCheck, BeforeCheck
  <2>6. FlagWaits'
    <3> SUFFICES ASSUME NEW q \in early, posts'[q] <= 1, outages = 0
                 PROVE  /\ gen[q] = 0
                        /\ \A v \in Workers : pc'[v][q] \in Unspawned
                        /\ \/ q \in redisFlag
                           \/ posts'[q] = 1 /\ \A v \in Workers : pc'[v][q] \notin {"prep", "gate"}
      BY <2>3 DEF FlagWaits
    <3>1. q \in Runs /\ posts[q] \in Nat
      BY DEF TypeOK
    <3>2. posts[q] <= 1 /\ (q = r => posts[q] = 0)
      BY <2>2, <3>1
    <3> QED
      BY <2>1, <2>2, <3>1, <3>2 DEF EarlyInv, FlagWaits, BeforeCheck, Unspawned
  <2> QED
    BY <2>3, <2>4, <2>5, <2>6 DEF EarlyInv
<1>2. ASSUME NEW w \in Workers, NEW r \in Runs, Prepare(w, r) PROVE EarlyInv'
  <2>1. UNCHANGED <<attempt, gen, posts, outages, redisUp, redisFlag, early>>
    BY <1>2 DEF Prepare
  <2>2. PICK to \in {"gate"} : GoTo(w, r, "prep", to)
    BY <1>2 DEF Prepare
  <2> QED
    BY <2>1, <2>2, MoveKeepsEarlyInv DEF BeforeCheck, Unspawned
<1>3. ASSUME NEW w \in Workers, NEW r \in Runs, PrepareFails(w, r) PROVE EarlyInv'
  <2>1. UNCHANGED <<attempt, gen, posts, outages, redisUp, redisFlag, early>>
    BY <1>3 DEF PrepareFails
  <2>2. PICK to \in {"error"} : GoTo(w, r, "prep", to)
    BY <1>3 DEF PrepareFails
  <2> QED
    BY <2>1, <2>2, MoveKeepsEarlyInv DEF BeforeCheck, Unspawned
<1>4. ASSUME NEW w \in Workers, NEW r \in Runs, CheckAborted(w, r) PROVE EarlyInv'
  <2>1. UNCHANGED <<attempt, gen, posts, outages, redisUp, redisFlag, early>>
    BY <1>4 DEF CheckAborted
  <2>2. attempt[w][r] = 1 /\ pc[w][r] = "gate"
    BY <1>4 DEF CheckAborted, GoTo, EarlyInv, FirstAttempt, BeforeCheck
  <2>3. CASE r \in early /\ posts[r] <= 1 /\ outages = 0
    <3>1. IsAborted(w, r)
      BY <2>2, <2>3 DEF EarlyInv, FlagWaits, IsAborted
    <3>2. GoTo(w, r, "gate", "aborted")
      BY <1>4, <2>2, <3>1 DEF CheckAborted, AbortedExit
    <3> QED
      BY <2>1, <3>2, MoveKeepsEarlyInv DEF BeforeCheck, Unspawned
  <2>4. CASE ~(r \in early /\ posts[r] <= 1 /\ outages = 0)
    <3>1. PICK to \in {"aborted", "cool", "create"} : GoTo(w, r, "gate", to)
      BY <1>4, <2>2 DEF CheckAborted, AbortedExit
    <3>2. \A v \in Workers, q \in Runs :
             pc'[v][q] = IF v = w /\ q = r THEN to ELSE pc[v][q]
      BY <3>1 DEF TypeOK, GoTo
    <3>3. FirstAttempt'
      BY <2>1, <3>1, <3>2 DEF EarlyInv, FirstAttempt, BeforeCheck
    <3>4. SpawnsAfterCheck'
      BY <2>1, <3>1, <3>2 DEF EarlyInv, SpawnsAfterCheck, BeforeCheck
    <3>5. FlagWaits'
      <4>1. \A q \in early : q \in Runs
        BY DEF TypeOK
      <4> QED
        BY <2>1, <2>4, <3>2, <4>1 DEF EarlyInv, FlagWaits
    <3> QED
      BY <2>1, <3>3, <3>4, <3>5 DEF EarlyInv
  <2> QED
    BY <2>3, <2>4
<1>5. ASSUME NEW w \in Workers, NEW r \in Runs, CooldownWait(w, r) PROVE EarlyInv'
  <2>1. UNCHANGED <<attempt, gen, posts, outages, redisUp, redisFlag, early>>
    BY <1>5 DEF CooldownWait
  <2>2. PICK to \in {"create", "aborted", "finish"} : GoTo(w, r, "cool", to)
    BY <1>5 DEF AbortedExit, CooldownWait
  <2> QED
    BY <2>1, <2>2, MoveKeepsEarlyInv DEF BeforeCheck, Unspawned
<1>6. ASSUME NEW w \in Workers, NEW r \in Runs, CreateContainer(w, r) PROVE EarlyInv'
  <2>1. UNCHANGED <<attempt, posts, outages, redisUp, redisFlag, early>>
    BY <1>6 DEF CreateContainer
  <2>2. \A v \in Workers, q \in Runs :
           pc'[v][q] = IF v = w /\ q = r THEN "start" ELSE pc[v][q]
    BY <1>6 DEF CreateContainer, TypeOK, GoTo
  <2>3. \A q \in Runs : q # r => gen'[q] = gen[q]
    BY <1>6 DEF CreateContainer, TypeOK
  <2>4. pc[w][r] = "create"
    BY <1>6 DEF CreateContainer, GoTo
  <2>5. FirstAttempt'
    BY <2>1, <2>2 DEF EarlyInv, FirstAttempt, BeforeCheck
  <2>6. SpawnsAfterCheck'
    BY <2>2, <2>3 DEF EarlyInv, SpawnsAfterCheck, BeforeCheck
  <2>7. ~(r \in early /\ posts[r] <= 1 /\ outages = 0)
    BY <2>4 DEF EarlyInv, FlagWaits, Unspawned, BeforeCheck
  <2>8. FlagWaits'
    <3>1. \A q \in early : q \in Runs
      BY DEF TypeOK
    <3> QED
      BY <2>1, <2>2, <2>3, <2>7, <3>1 DEF EarlyInv, FlagWaits
  <2> QED
    BY <2>1, <2>5, <2>6, <2>8 DEF EarlyInv
<1>7. ASSUME NEW w \in Workers, NEW r \in Runs, StartContainer(w, r) PROVE EarlyInv'
  <2>1. UNCHANGED <<attempt, gen, posts, outages, redisUp, redisFlag, early>>
    BY <1>7 DEF StartContainer
  <2>2. PICK to \in {"stream"} : GoTo(w, r, "start", to)
    BY <1>7 DEF StartContainer
  <2> QED
    BY <2>1, <2>2, MoveKeepsEarlyInv DEF BeforeCheck, Unspawned
<1>8. ASSUME NEW w \in Workers, NEW r \in Runs, SpawnFails(w, r) PROVE EarlyInv'
  <2>1. UNCHANGED <<attempt, gen, posts, outages, redisUp, redisFlag, early>>
    BY <1>8 DEF SpawnFails
  <2>2. PICK from \in {"create", "start"} : GoTo(w, r, from, SpawnErrorExit(w, r))
    BY <1>8 DEF SpawnFails, GoTo
  <2>3. SpawnErrorExit(w, r) \in {"error", "finish"}
    BY DEF SpawnErrorExit
  <2> QED
    BY <2>1, <2>2, <2>3, MoveKeepsEarlyInv DEF BeforeCheck, Unspawned
<1>9. ASSUME NEW w \in Workers, NEW r \in Runs, StreamEnds(w, r) PROVE EarlyInv'
  <2>1. UNCHANGED <<attempt, gen, posts, outages, redisUp, redisFlag, early>>
    BY <1>9 DEF StreamEnds
  <2>2. PICK to \in {"fetch"} : GoTo(w, r, "stream", to)
    BY <1>9 DEF StreamEnds
  <2> QED
    BY <2>1, <2>2, MoveKeepsEarlyInv DEF BeforeCheck, Unspawned
<1>10. ASSUME NEW w \in Workers, NEW r \in Runs, FetchOutput(w, r) PROVE EarlyInv'
  <2>1. UNCHANGED <<attempt, gen, posts, outages, redisUp, redisFlag, early>>
    BY <1>10 DEF FetchOutput, AfterFetch
  <2>2. PICK to \in {"finish", "remove"} : GoTo(w, r, "fetch", to)
    BY <1>10 DEF FetchOutput, AfterFetch
  <2> QED
    BY <2>1, <2>2, MoveKeepsEarlyInv DEF BeforeCheck, Unspawned
<1>11. ASSUME NEW w \in Workers, NEW r \in Runs, EndAttempt(w, r) PROVE EarlyInv'
  <2>1. UNCHANGED <<gen, posts, outages, redisUp, redisFlag, early>>
    BY <1>11 DEF EndAttempt, Judge
  <2>2. PICK to \in {"retry", "finish"} :
           /\ GoTo(w, r, "remove", to)
           /\ UNCHANGED attempt \/ attempt' = [attempt EXCEPT ![w][r] = @ + 1]
    BY <1>11 DEF EndAttempt, Judge
  <2> QED
    BY <2>1, <2>2, MoveKeepsEarlyInv DEF BeforeCheck, Unspawned
<1>12. ASSUME NEW w \in Workers, NEW r \in Runs, RetryCheck(w, r) PROVE EarlyInv'
  <2>1. UNCHANGED <<attempt, gen, posts, outages, redisUp, redisFlag, early>>
    BY <1>12 DEF RetryCheck
  <2>2. PICK to \in {"aborted", "finish", "backoff", "nap"} : GoTo(w, r, "retry", to)
    BY <1>12 DEF AbortedExit, RetryCheck
  <2> QED
    BY <2>1, <2>2, MoveKeepsEarlyInv DEF BeforeCheck, Unspawned
<1>13. ASSUME NEW w \in Workers, NEW r \in Runs, BackoffOver(w, r) PROVE EarlyInv'
  <2>1. UNCHANGED <<attempt, gen, posts, outages, redisUp, redisFlag, early>>
    BY <1>13 DEF BackoffOver
  <2>2. PICK from \in {"backoff", "nap"}, to \in {"cool", "aborted", "finish"} :
           GoTo(w, r, from, to)
    BY <1>13 DEF AbortedExit, BackoffOver
  <2> QED
    BY <2>1, <2>2, MoveKeepsEarlyInv DEF BeforeCheck, Unspawned
<1>14. ASSUME NEW w \in Workers, NEW r \in Runs, PublishDone(w, r) PROVE EarlyInv'
  <2>1. UNCHANGED <<attempt, gen, posts, outages, redisUp, redisFlag, early>>
    BY <1>14 DEF PublishDone
  <2>2. PICK from \in {"finish", "aborted", "error"}, to \in {"discard", "forget", "end"} :
           /\ GoTo(w, r, from, to)
           /\ to = "discard" => from = "finish"
    BY <1>14 DEF AfterDone, PublishDone
  <2> QED
    BY <2>1, <2>2, MoveKeepsEarlyInv DEF BeforeCheck, Unspawned
<1>15. ASSUME NEW w \in Workers, NEW r \in Runs, DiscardMonitor(w, r) PROVE EarlyInv'
  <2>1. UNCHANGED <<attempt, gen, posts, outages, redisUp, redisFlag, early>>
    BY <1>15 DEF DiscardMonitor
  <2>2. PICK to \in {"forget"} : GoTo(w, r, "discard", to)
    BY <1>15 DEF DiscardMonitor
  <2> QED
    BY <2>1, <2>2, MoveKeepsEarlyInv DEF BeforeCheck, Unspawned
<1>16. ASSUME NEW w \in Workers, NEW r \in Runs, ForgetRun(w, r) PROVE EarlyInv'
  <2>1. UNCHANGED <<attempt, gen, posts, outages, redisUp, early>>
    BY <1>16 DEF ForgetRun
  <2>2. \A v \in Workers, q \in Runs :
           pc'[v][q] = IF v = w /\ q = r THEN "end" ELSE pc[v][q]
    BY <1>16 DEF ForgetRun, TypeOK, GoTo
  <2>3. \A q \in Runs : q # r /\ q \in redisFlag => q \in redisFlag'
    BY <1>16 DEF ForgetRun
  <2>4. pc[w][r] = "forget"
    BY <1>16 DEF ForgetRun, GoTo
  <2>5. FirstAttempt'
    BY <2>1, <2>2 DEF EarlyInv, FirstAttempt, BeforeCheck
  <2>6. SpawnsAfterCheck'
    BY <2>1, <2>2 DEF EarlyInv, SpawnsAfterCheck, BeforeCheck
  <2>7. FlagWaits'
    <3> SUFFICES ASSUME NEW q \in early, posts[q] <= 1, outages = 0
                 PROVE  /\ gen[q] = 0
                        /\ \A v \in Workers : pc'[v][q] \in Unspawned
                        /\ \/ q \in redisFlag'
                           \/ posts[q] = 1 /\ \A v \in Workers : pc'[v][q] \notin {"prep", "gate"}
      BY <2>1 DEF FlagWaits
    <3>1. q \in Runs /\ posts[q] \in Nat
      BY DEF TypeOK
    <3>2. CASE q # r
      BY <2>2, <2>3, <3>1, <3>2 DEF EarlyInv, FlagWaits
    <3>3. CASE q = r
      <4>1. posts[r] = 1
        BY <2>4, <3>1, <3>3 DEF DoneInv, ThreadsArePosted, TookPart
      <4>2. \A v \in Workers : v # w => pc[v][r] \in {"idle", "dead"}
        BY <2>4, <4>1 DEF DoneInv, ThreadsArePosted, TookPart
      <4> QED
        BY <2>2, <3>1, <3>3, <4>1, <4>2 DEF EarlyInv, FlagWaits, Unspawned, BeforeCheck
    <3> QED
      BY <3>2, <3>3
  <2> QED
    BY <2>1, <2>5, <2>6, <2>7 DEF EarlyInv
<1>17. ASSUME NEW w \in Workers, NEW r \in Runs, MarkAborted(w, r) PROVE EarlyInv'
  <2>1. UNCHANGED <<pc, attempt, gen, posts, outages, redisUp>>
    BY <1>17 DEF MarkAborted
  <2>2. redisFlag' = IF redisUp THEN redisFlag \union {r} ELSE redisFlag
    BY <1>17 DEF MarkAborted
  <2>3. \A q \in early' : q \in early \/ (q = r /\ \A v \in Workers : pc[v][r] \in BeforeCheck)
    BY <1>17 DEF MarkAborted, BeforeCheck
  <2>4. FirstAttempt' /\ SpawnsAfterCheck'
    BY <2>1 DEF EarlyInv, FirstAttempt, SpawnsAfterCheck
  <2>5. FlagWaits'
    <3> SUFFICES ASSUME NEW q \in early', posts[q] <= 1, outages = 0
                 PROVE  /\ gen[q] = 0
                        /\ \A v \in Workers : pc[v][q] \in Unspawned
                        /\ \/ q \in redisFlag'
                           \/ posts[q] = 1 /\ \A v \in Workers : pc[v][q] \notin {"prep", "gate"}
      BY <2>1 DEF FlagWaits
    <3>1. CASE q \in early
      BY <2>2, <3>1 DEF EarlyInv, FlagWaits
    <3>2. CASE q \notin early
      BY <2>2, <2>3, <3>2 DEF EarlyInv, SpawnsAfterCheck, Unspawned
    <3> QED
      BY <3>1, <3>2
  <2> QED
    BY <2>1, <2>4, <2>5 DEF EarlyInv
<1>18. ASSUME NEW w \in Workers, NEW r \in Runs, MonitorTimeout(w, r) PROVE EarlyInv'
  BY <1>0, <1>18 DEF MonitorTimeout
<1>19. ASSUME NEW w \in Workers, NEW r \in Runs, AbortCall(w, r) PROVE EarlyInv'
  BY <1>0, <1>19 DEF AbortCall
<1>20. ASSUME NEW w \in Workers, NEW r \in Runs, AbortLookup(w, r) PROVE EarlyInv'
  BY <1>0, <1>20 DEF AbortLookup
<1>21. ASSUME NEW w \in Workers, NEW r \in Runs, MarkHardKill(w, r) PROVE EarlyInv'
  BY <1>0, <1>21 DEF MarkHardKill
<1>22. ASSUME NEW w \in Workers, NEW r \in Runs, AbortKill(w, r) PROVE EarlyInv'
  BY <1>0, <1>22 DEF AbortKill
<1>23. ASSUME NEW w \in Workers, NEW r \in Runs, AbortStderr(w, r) PROVE EarlyInv'
  BY <1>0, <1>23 DEF AbortStderr
<1>24. ASSUME NEW w \in Workers, NEW r \in Runs, AbortRemove(w, r) PROVE EarlyInv'
  BY <1>0, <1>24 DEF AbortRemove
<1>25. CASE CooldownExpires
  BY <1>0, <1>25 DEF CooldownExpires
<1>26. CASE RedisFails
  <2>1. UNCHANGED <<pc, attempt, gen, posts, redisFlag, early>>
    BY <1>26 DEF RedisFails, Outage
  <2>2. outages' = outages + 1
    BY <1>26, Zenon DEF RedisFails, Outage
  <2>3. outages' # 0
    BY <2>2 DEF TypeOK
  <2> QED
    BY <2>1, <2>3 DEF EarlyInv, FirstAttempt, SpawnsAfterCheck, FlagWaits
<1>27. CASE RedisRecovers
  BY <1>27 DEF RedisRecovers, EarlyInv, FirstAttempt, SpawnsAfterCheck, FlagWaits
<1>28. ASSUME NEW r \in Runs, ContainerExits(r) PROVE EarlyInv'
  BY <1>0, <1>28 DEF ContainerExits
<1>29. ASSUME NEW w \in Workers, Crash(w) PROVE EarlyInv'
  <2>1. \A v \in Workers, q \in Runs :
           /\ pc'[v][q] = IF v = w THEN "dead" ELSE pc[v][q]
           /\ v # w => attempt'[v][q] = attempt[v][q]
    BY <1>29 DEF Crash, TypeOK
  <2>2. UNCHANGED <<gen, posts, outages, redisUp, redisFlag, early>>
    BY <1>29 DEF Crash
  <2>3. \A q \in early : q \in Runs
    BY DEF TypeOK
  <2>4. FirstAttempt' /\ SpawnsAfterCheck'
    BY <2>1, <2>2 DEF EarlyInv, FirstAttempt, SpawnsAfterCheck, BeforeCheck
  <2>5. FlagWaits'
    BY <2>1, <2>2, <2>3 DEF EarlyInv, FlagWaits, Unspawned
  <2> QED
    BY <2>2, <2>4, <2>5 DEF EarlyInv
<1>30. CASE UNCHANGED vars
  BY <1>0, <1>30 DEF vars
<1>31. ASSUME NEW w \in Workers, NEW r \in Runs, EngineFails(w, r) PROVE EarlyInv'
  <2>1. gen' = gen /\ outages' # 0
    BY <1>31 DEF EngineFails, Outage, TypeOK
  <2>2. PICK from \in {"stream", "fetch", "remove", "discard"},
             to \in {"fetch", "finish", "remove", "retry", "forget"} : GoTo(w, r, from, to)
    BY <1>31 DEF EngineFails, Judge, AfterFetch
  <2>3. \A v \in Workers, q \in Runs :
           pc'[v][q] \in BeforeCheck => pc[v][q] \in BeforeCheck /\ ~(v = w /\ q = r)
    BY <2>2 DEF GoTo, TypeOK, BeforeCheck
  <2>4. \A v \in Workers, q \in Runs :
           attempt'[v][q] = attempt[v][q] \/ (v = w /\ q = r)
    BY <1>31 DEF EngineFails, Judge, TypeOK
  <2>5. FirstAttempt'
    BY <2>3, <2>4 DEF EarlyInv, FirstAttempt
  <2>6. SpawnsAfterCheck'
    BY <2>1, <2>3 DEF EarlyInv, SpawnsAfterCheck
  <2> QED
    BY <2>1, <2>5, <2>6 DEF EarlyInv, FlagWaits
<1>32. ASSUME NEW w \in Workers, NEW r \in Runs, AbortCallFails(w, r) PROVE EarlyInv'
  <2>1. UNCHANGED <<pc, attempt, gen>> /\ outages' # 0
    BY <1>32 DEF AbortCallFails, Outage, TypeOK
  <2> QED
    BY <2>1 DEF EarlyInv, FirstAttempt, SpawnsAfterCheck, FlagWaits
<1> QED
  BY <1>1, <1>2, <1>3, <1>4, <1>5, <1>6, <1>7, <1>8, <1>9, <1>10, <1>11,
     <1>12, <1>13, <1>14, <1>15, <1>16, <1>17, <1>18, <1>19, <1>20, <1>21,
     <1>22, <1>23, <1>24, <1>25, <1>26, <1>27, <1>28, <1>29, <1>30, <1>31, <1>32 DEF Next,
     RunStep, AbortStep

\* EarlyInv holds in every reachable state.
LEMMA EarlyInvHolds == Spec => []EarlyInv
<1>1. Init => EarlyInv
  BY DEF Init, EarlyInv, FirstAttempt, SpawnsAfterCheck, FlagWaits
<1> QED
  BY <1>1, EarlyInvStep, TypeCorrect, DoneInvHolds, PTL DEF Spec

\* An abort that lands while a run is being prepared, on any worker, keeps
\* its container from ever being created (_run_job_blocking's check before
\* containers.run, and mark_aborted's Redis mirror).
THEOREM EarlyAbortHolds == Spec => []AbortedWhilePreparing
<1>1. EarlyInv => AbortedWhilePreparing
  BY DEF EarlyInv, FlagWaits, AbortedWhilePreparing
<1> QED
  BY <1>1, EarlyInvHolds, PTL

-----------------------------------------------------------------------------
(***************************************************************************)
(* What a step does to one run, variable by variable.                      *)
(***************************************************************************)
ThreadSame(r) == \A v \in Workers : pc'[v][r] = pc[v][r]
ThreadTo(w, r, to) == pc'[w][r] = to /\ \A v \in Workers \ {w} : pc'[v][r] = pc[v][r]
DonesSame(r) == \A v \in Workers : dones'[v][r] = dones[v][r]
MineSame(r) == \A v \in Workers : mine'[v][r] = mine[v][r]
EngineSame(r) == cont'[r] = cont[r] /\ gen'[r] = gen[r]
FlagSame(r) == r \in redisFlag' <=> r \in redisFlag
CallsSame(r) == \A v \in Workers : apc'[v][r] = apc[v][r]
CallTo(w, r, to) == apc'[w][r] = to /\ \A v \in Workers \ {w} : apc'[v][r] = apc[v][r]
HeldSame(r) == \A v \in Workers : held'[v][r] = held[v][r]
KillsSame(r) ==
    /\ signalled'[r] = signalled[r]
    /\ r \in killed' <=> r \in killed
    /\ r \in hardKill' <=> r \in hardKill
EarlySame(r) == r \in early' <=> r \in early
StderrSame(r) == stderrOut'[r] = stderrOut[r]
CountsSame(r) == posts'[r] = posts[r] /\ aborts'[r] = aborts[r]

\* Nothing that belongs to an abort call, to the kills, or to a caller.
AbortsSame(r) == CallsSame(r) /\ HeldSame(r) /\ KillsSame(r) /\ EarlySame(r)
\* Nothing that belongs to the run's threads.
RunSame(r) == ThreadSame(r) /\ DonesSame(r) /\ MineSame(r)

Elsewhere(r) ==
    RunSame(r) /\ EngineSame(r) /\ FlagSame(r) /\ AbortsSame(r) /\ StderrSame(r) /\ CountsSame(r)

Posted(w, r) ==
    /\ posts'[r] = posts[r] + 1 /\ aborts'[r] = aborts[r]
    /\ ThreadSame(r) \/ (pc[w][r] = "idle" /\ ThreadTo(w, r, "prep"))
    /\ DonesSame(r) /\ MineSame(r) /\ EngineSame(r) /\ FlagSame(r) /\ AbortsSame(r)
    /\ StderrSame(r)

\* A thread goes on and changes nothing else.
Quiet(w, r, from, to) ==
    \/ /\ from \in {"prep", "gate", "cool", "retry", "backoff", "nap"}
       /\ to \in {"gate", "cool", "create", "backoff", "nap", "aborted", "finish", "error"}
       /\ from = "retry" => to \in {"aborted", "finish"} \/ ~IsAborted(w, r)
    \/ from \in {"create", "start"} /\ to \in {"error", "finish"}
    \/ from = "stream" /\ to = "fetch" /\ StreamOver(w, r)

Moved(w, r) ==
    /\ \E to \in PCs : Quiet(w, r, pc[w][r], to) /\ ThreadTo(w, r, to)
    /\ DonesSame(r) /\ MineSame(r) /\ EngineSame(r) /\ FlagSame(r) /\ AbortsSame(r)
    /\ StderrSame(r) /\ CountsSame(r)

Created(w, r) ==
    /\ pc[w][r] = "create" /\ ThreadTo(w, r, "start")
    /\ cont[r] = "none" /\ cont'[r] = "created"
    /\ gen'[r] = gen[r] + 1 /\ mine'[w][r] = gen[r] + 1
    /\ \A v \in Workers \ {w} : mine'[v][r] = mine[v][r]
    /\ DonesSame(r) /\ FlagSame(r) /\ AbortsSame(r) /\ StderrSame(r) /\ CountsSame(r)

Started(w, r) ==
    /\ pc[w][r] = "start" /\ ThreadTo(w, r, "stream")
    /\ Present(r, mine[w][r]) /\ cont'[r] = "running" /\ gen'[r] = gen[r]
    /\ DonesSame(r) /\ MineSame(r) /\ FlagSame(r) /\ AbortsSame(r) /\ StderrSame(r)
    /\ CountsSame(r)

\* What PublishStderr and Remove do, at their run.
StderrOf(r, g) ==
    stderrOut'[r] = IF Present(r, g) /\ cont[r] = "exited" /\ redisUp
                      THEN stderrOut[r] \union {g} ELSE stderrOut[r]
RemovalOf(r, g) ==
    cont'[r] = (IF Present(r, g) THEN "none" ELSE cont[r]) /\ gen'[r] = gen[r]

Fetched(w, r) ==
    /\ pc[w][r] = "fetch" /\ \E to \in {"finish", "remove"} : ThreadTo(w, r, to)
    /\ StderrOf(r, mine[w][r])
    /\ DonesSame(r) /\ MineSame(r) /\ EngineSame(r) /\ FlagSame(r) /\ AbortsSame(r)
    /\ CountsSame(r)

AttemptEnded(w, r) ==
    /\ pc[w][r] = "remove" /\ \E to \in {"finish", "retry"} : ThreadTo(w, r, to)
    /\ RemovalOf(r, mine[w][r])
    /\ DonesSame(r) /\ MineSame(r) /\ FlagSame(r) /\ AbortsSame(r) /\ StderrSame(r)
    /\ CountsSame(r)

Published(w, r) ==
    /\ pc[w][r] \in {"finish", "aborted", "error"}
    /\ \E to \in {"discard", "forget", "end"} :
          ThreadTo(w, r, to) /\ (to = "discard" => kind[r] = "monitor")
    /\ dones'[w][r] = (IF redisUp THEN dones[w][r] + 1 ELSE dones[w][r])
    /\ \A v \in Workers \ {w} : dones'[v][r] = dones[v][r]
    /\ MineSame(r) /\ EngineSame(r) /\ FlagSame(r) /\ AbortsSame(r) /\ StderrSame(r)
    /\ CountsSame(r)

Discarded(w, r) ==
    /\ pc[w][r] = "discard" /\ ThreadTo(w, r, "forget")
    /\ RemovalOf(r, mine[w][r])
    /\ DonesSame(r) /\ MineSame(r) /\ FlagSame(r) /\ AbortsSame(r) /\ StderrSame(r)
    /\ CountsSame(r)

Forgot(w, r) ==
    /\ pc[w][r] = "forget" /\ ThreadTo(w, r, "end")
    /\ DonesSame(r) /\ MineSame(r) /\ EngineSame(r) /\ AbortsSame(r) /\ StderrSame(r)
    /\ CountsSame(r)

Exited(r) ==
    /\ cont[r] = "running" /\ cont'[r] = "exited" /\ gen'[r] = gen[r]
    /\ RunSame(r) /\ FlagSame(r) /\ AbortsSame(r) /\ StderrSame(r) /\ CountsSame(r)

Called(w, r) ==
    /\ apc[w][r] = "idle" /\ CallTo(w, r, "mark")
    /\ aborts'[r] = aborts[r] + 1 /\ posts'[r] = posts[r]
    /\ RunSame(r) /\ EngineSame(r) /\ FlagSame(r) /\ HeldSame(r) /\ KillsSame(r)
    /\ EarlySame(r) /\ StderrSame(r)

Flagged(w, r) ==
    /\ apc[w][r] = "mark" /\ CallTo(w, r, "get")
    /\ r \in redisFlag' <=> redisUp \/ r \in redisFlag
    /\ r \in early' <=> r \in early \/ \A v \in Workers : pc[v][r] \in BeforeCheck
    /\ RunSame(r) /\ EngineSame(r) /\ HeldSame(r) /\ KillsSame(r) /\ StderrSame(r)
    /\ CountsSame(r)

Found(w, r) ==
    /\ apc[w][r] = "get"
    /\ \/ /\ cont[r] # "none" /\ CallTo(w, r, "sign") /\ held'[w][r] = gen[r]
          /\ \A v \in Workers \ {w} : held'[v][r] = held[v][r]
       \/ cont[r] = "none" /\ CallTo(w, r, "idle") /\ HeldSame(r)
    /\ RunSame(r) /\ EngineSame(r) /\ FlagSame(r) /\ KillsSame(r) /\ EarlySame(r)
    /\ StderrSame(r) /\ CountsSame(r)

MarkedHard(w, r) ==
    /\ apc[w][r] = "sign" /\ CallTo(w, r, "kill")
    /\ r \in hardKill' <=> redisUp \/ r \in hardKill
    /\ signalled'[r] = signalled[r] /\ (r \in killed' <=> r \in killed)
    /\ RunSame(r) /\ EngineSame(r) /\ FlagSame(r) /\ HeldSame(r) /\ EarlySame(r)
    /\ StderrSame(r) /\ CountsSame(r)

Signalled(w, r) ==
    /\ apc[w][r] = "kill" /\ CallTo(w, r, AfterKill(r))
    /\ IF Present(r, held[w][r]) /\ cont[r] = "running"
         THEN cont'[r] = "exited" /\ signalled'[r] = signalled[r] \union {gen[r]}
         ELSE cont'[r] = cont[r] /\ signalled'[r] = signalled[r]
    /\ gen'[r] = gen[r]
    /\ r \in killed' <=> r \in killed
    /\ r \in hardKill' <=> r \in hardKill
    /\ RunSame(r) /\ FlagSame(r) /\ HeldSame(r) /\ EarlySame(r) /\ StderrSame(r)
    /\ CountsSame(r)

Told(w, r) ==
    /\ apc[w][r] = "stderr" /\ CallTo(w, r, "remove")
    /\ StderrOf(r, held[w][r])
    /\ RunSame(r) /\ EngineSame(r) /\ FlagSame(r) /\ HeldSame(r) /\ KillsSame(r)
    /\ EarlySame(r) /\ CountsSame(r)

Removed(w, r) ==
    /\ apc[w][r] = "remove" /\ CallTo(w, r, "idle")
    /\ RemovalOf(r, held[w][r])
    /\ r \in killed'
    /\ \A v \in Workers \ {w} : held'[v][r] = held[v][r]
    /\ signalled'[r] = signalled[r] /\ (r \in hardKill' <=> r \in hardKill)
    /\ RunSame(r) /\ FlagSame(r) /\ EarlySame(r) /\ StderrSame(r) /\ CountsSame(r)

Crashed(w, r) ==
    /\ ThreadTo(w, r, "dead") /\ CallTo(w, r, "dead")
    /\ \A v \in Workers \ {w} : held'[v][r] = held[v][r]
    /\ DonesSame(r) /\ MineSame(r) /\ EngineSame(r) /\ FlagSame(r) /\ KillsSame(r)
    /\ EarlySame(r) /\ StderrSame(r) /\ CountsSame(r)

Effect(r) ==
    \/ Elsewhere(r) \/ Exited(r)
    \/ \E w \in Workers :
          \/ Posted(w, r) \/ Moved(w, r) \/ Created(w, r) \/ Started(w, r) \/ Fetched(w, r)
          \/ AttemptEnded(w, r) \/ Published(w, r) \/ Discarded(w, r) \/ Forgot(w, r)
          \/ Called(w, r) \/ Flagged(w, r) \/ Found(w, r) \/ MarkedHard(w, r)
          \/ Signalled(w, r) \/ Told(w, r) \/ Removed(w, r) \/ Crashed(w, r)

\* A thread that moves on one run moves on no other.
LEMMA ThreadEffect ==
  ASSUME TypeOK, NEW w \in Workers, NEW q \in Runs, NEW r \in Runs, NEW from, NEW to,
         GoTo(w, q, from, to)
  PROVE  /\ pc[w][q] = from
         /\ q = r => ThreadTo(w, r, to)
         /\ q # r => ThreadSame(r)
BY DEF TypeOK, GoTo, ThreadTo, ThreadSame

\* So does an abort call.
LEMMA CallEffect ==
  ASSUME TypeOK, NEW w \in Workers, NEW q \in Runs, NEW r \in Runs, NEW from, NEW to,
         AbortGoTo(w, q, from, to)
  PROVE  /\ apc[w][q] = from
         /\ q = r => CallTo(w, r, to)
         /\ q # r => CallsSame(r)
BY DEF TypeOK, AbortGoTo, CallTo, CallsSame

\* Removing a run's container leaves those of the other runs alone.
LEMMA RemoveEffect ==
  ASSUME TypeOK, NEW q \in Runs, NEW r \in Runs, NEW g, Remove(q, g), UNCHANGED gen
  PROVE  /\ q = r => RemovalOf(r, g)
         /\ q # r => EngineSame(r)
BY DEF TypeOK, Remove, RemovalOf, EngineSame

\* Publishing a run's stderr leaves the other runs' streams alone.
LEMMA StderrEffect ==
  ASSUME TypeOK, NEW q \in Runs, NEW r \in Runs, NEW g, PublishStderr(q, g)
  PROVE  /\ q = r => StderrOf(r, g)
         /\ q # r => StderrSame(r)
BY DEF TypeOK, PublishStderr, StderrOf, StderrSame

\* An action on run q does one of those to q and nothing to any other run r.
LEMMA ActionEffects ==
  ASSUME TypeOK, NEW w \in Workers, NEW q \in Runs, NEW r \in Runs
  PROVE
         /\ StartJob(w, q) => IF q = r THEN Posted(w, r) ELSE Elsewhere(r)
         /\ Prepare(w, q) => IF q = r THEN Moved(w, r) ELSE Elsewhere(r)
         /\ PrepareFails(w, q) => IF q = r THEN Moved(w, r) ELSE Elsewhere(r)
         /\ CheckAborted(w, q) => IF q = r THEN Moved(w, r) ELSE Elsewhere(r)
         /\ CooldownWait(w, q) => IF q = r THEN Moved(w, r) ELSE Elsewhere(r)
         /\ SpawnFails(w, q) => IF q = r THEN Moved(w, r) ELSE Elsewhere(r)
         /\ StreamEnds(w, q) => IF q = r THEN Moved(w, r) ELSE Elsewhere(r)
         /\ RetryCheck(w, q) => IF q = r THEN Moved(w, r) ELSE Elsewhere(r)
         /\ BackoffOver(w, q) => IF q = r THEN Moved(w, r) ELSE Elsewhere(r)
         /\ CreateContainer(w, q) => IF q = r THEN Created(w, r) ELSE Elsewhere(r)
         /\ StartContainer(w, q) => IF q = r THEN Started(w, r) ELSE Elsewhere(r)
         /\ FetchOutput(w, q) => IF q = r THEN Fetched(w, r) ELSE Elsewhere(r)
         /\ EndAttempt(w, q) => IF q = r THEN AttemptEnded(w, r) ELSE Elsewhere(r)
         /\ PublishDone(w, q) => IF q = r THEN Published(w, r) ELSE Elsewhere(r)
         /\ DiscardMonitor(w, q) => IF q = r THEN Discarded(w, r) ELSE Elsewhere(r)
         /\ ForgetRun(w, q) => IF q = r THEN Forgot(w, r) ELSE Elsewhere(r)
         /\ AbortCall(w, q) => IF q = r THEN Called(w, r) ELSE Elsewhere(r)
         /\ MarkAborted(w, q) => IF q = r THEN Flagged(w, r) ELSE Elsewhere(r)
         /\ AbortLookup(w, q) => IF q = r THEN Found(w, r) ELSE Elsewhere(r)
         /\ MarkHardKill(w, q) => IF q = r THEN MarkedHard(w, r) ELSE Elsewhere(r)
         /\ AbortKill(w, q) => IF q = r THEN Signalled(w, r) ELSE Elsewhere(r)
         /\ AbortStderr(w, q) => IF q = r THEN Told(w, r) ELSE Elsewhere(r)
         /\ AbortRemove(w, q) => IF q = r THEN Removed(w, r) ELSE Elsewhere(r)
         /\ MonitorTimeout(w, q) => IF q = r THEN Exited(r) ELSE Elsewhere(r)
         /\ Crash(w) => Crashed(w, r)
<1>t. /\ pc \in [Workers -> [Runs -> PCs]] /\ mine \in [Workers -> [Runs -> Nat]]
      /\ cont \in [Runs -> {"none", "created", "running", "exited"}] /\ gen \in [Runs -> Nat]
      /\ apc \in [Workers -> [Runs -> APCs]] /\ held \in [Workers -> [Runs -> Nat]]
      /\ dones \in [Workers -> [Runs -> Nat]] /\ stderrOut \in [Runs -> SUBSET Nat]
      /\ posts \in [Runs -> Nat] /\ aborts \in [Runs -> Nat]
      /\ signalled \in [Runs -> SUBSET Nat]
  BY DEF TypeOK
<1> USE DEF ThreadSame, DonesSame, MineSame, EngineSame, FlagSame, CallsSame, HeldSame,
            KillsSame, EarlySame, StderrSame, CountsSame, AbortsSame, RunSame
<1>1. ASSUME StartJob(w, q) PROVE IF q = r THEN Posted(w, r) ELSE Elsewhere(r)
  <2>1. ASSUME q = r PROVE Posted(w, r)
    BY <1>1, <1>t, <2>1 DEF StartJob, Posted, Posts, ThreadTo
  <2>2. ASSUME q # r PROVE Elsewhere(r)
    BY <1>1, <1>t, <2>2 DEF StartJob, Elsewhere, Posts, ThreadTo
  <2> QED
    BY <2>1, <2>2
<1>2. ASSUME Prepare(w, q) PROVE IF q = r THEN Moved(w, r) ELSE Elsewhere(r)
  <2>1. ASSUME q = r PROVE Moved(w, r)
    BY <1>2, <1>t, <2>1, ThreadEffect DEF Prepare, Moved, Quiet, PCs
  <2>2. ASSUME q # r PROVE Elsewhere(r)
    BY <1>2, <1>t, <2>2, ThreadEffect DEF Prepare, Elsewhere, Quiet, PCs
  <2> QED
    BY <2>1, <2>2
<1>3. ASSUME PrepareFails(w, q) PROVE IF q = r THEN Moved(w, r) ELSE Elsewhere(r)
  <2>1. ASSUME q = r PROVE Moved(w, r)
    BY <1>3, <1>t, <2>1, ThreadEffect DEF PrepareFails, Moved, Quiet, PCs
  <2>2. ASSUME q # r PROVE Elsewhere(r)
    BY <1>3, <1>t, <2>2, ThreadEffect DEF PrepareFails, Elsewhere, Quiet, PCs
  <2> QED
    BY <2>1, <2>2
<1>4. ASSUME CheckAborted(w, q) PROVE IF q = r THEN Moved(w, r) ELSE Elsewhere(r)
  <2>1. ASSUME q = r PROVE Moved(w, r)
    BY <1>4, <1>t, <2>1, ThreadEffect DEF CheckAborted, Moved, Quiet, PCs, AbortedExit
  <2>2. ASSUME q # r PROVE Elsewhere(r)
    BY <1>4, <1>t, <2>2, ThreadEffect DEF CheckAborted, Elsewhere, Quiet, PCs, AbortedExit
  <2> QED
    BY <2>1, <2>2
<1>5. ASSUME CooldownWait(w, q) PROVE IF q = r THEN Moved(w, r) ELSE Elsewhere(r)
  <2>1. ASSUME q = r PROVE Moved(w, r)
    BY <1>5, <1>t, <2>1, ThreadEffect DEF CooldownWait, Moved, Quiet, PCs, AbortedExit
  <2>2. ASSUME q # r PROVE Elsewhere(r)
    BY <1>5, <1>t, <2>2, ThreadEffect DEF CooldownWait, Elsewhere, Quiet, PCs, AbortedExit
  <2> QED
    BY <2>1, <2>2
<1>6. ASSUME SpawnFails(w, q) PROVE IF q = r THEN Moved(w, r) ELSE Elsewhere(r)
  <2>1. ASSUME q = r PROVE Moved(w, r)
    BY <1>6, <1>t, <2>1, ThreadEffect DEF SpawnFails, Moved, Quiet, PCs, SpawnErrorExit, GoTo
  <2>2. ASSUME q # r PROVE Elsewhere(r)
    BY <1>6, <1>t, <2>2, ThreadEffect DEF SpawnFails, Elsewhere, Quiet, PCs, SpawnErrorExit, GoTo
  <2> QED
    BY <2>1, <2>2
<1>7. ASSUME StreamEnds(w, q) PROVE IF q = r THEN Moved(w, r) ELSE Elsewhere(r)
  <2>1. ASSUME q = r PROVE Moved(w, r)
    BY <1>7, <1>t, <2>1, ThreadEffect DEF StreamEnds, Moved, Quiet, PCs
  <2>2. ASSUME q # r PROVE Elsewhere(r)
    BY <1>7, <1>t, <2>2, ThreadEffect DEF StreamEnds, Elsewhere, Quiet, PCs
  <2> QED
    BY <2>1, <2>2
<1>8. ASSUME RetryCheck(w, q) PROVE IF q = r THEN Moved(w, r) ELSE Elsewhere(r)
  <2>1. ASSUME q = r PROVE Moved(w, r)
    BY <1>8, <1>t, <2>1, ThreadEffect DEF RetryCheck, Moved, Quiet, PCs, AbortedExit
  <2>2. ASSUME q # r PROVE Elsewhere(r)
    BY <1>8, <1>t, <2>2, ThreadEffect DEF RetryCheck, Elsewhere, Quiet, PCs, AbortedExit
  <2> QED
    BY <2>1, <2>2
<1>9. ASSUME BackoffOver(w, q) PROVE IF q = r THEN Moved(w, r) ELSE Elsewhere(r)
  <2>1. ASSUME q = r PROVE Moved(w, r)
    BY <1>9, <1>t, <2>1, ThreadEffect DEF BackoffOver, Moved, Quiet, PCs, AbortedExit
  <2>2. ASSUME q # r PROVE Elsewhere(r)
    BY <1>9, <1>t, <2>2, ThreadEffect DEF BackoffOver, Elsewhere, Quiet, PCs, AbortedExit
  <2> QED
    BY <2>1, <2>2
<1>10. ASSUME CreateContainer(w, q) PROVE IF q = r THEN Created(w, r) ELSE Elsewhere(r)
  <2>1. ASSUME q = r PROVE Created(w, r)
    BY <1>10, <1>t, <2>1, ThreadEffect DEF CreateContainer, Created
  <2>2. ASSUME q # r PROVE Elsewhere(r)
    BY <1>10, <1>t, <2>2, ThreadEffect DEF CreateContainer, Elsewhere
  <2> QED
    BY <2>1, <2>2
<1>11. ASSUME StartContainer(w, q) PROVE IF q = r THEN Started(w, r) ELSE Elsewhere(r)
  <2>1. ASSUME q = r PROVE Started(w, r)
    BY <1>11, <1>t, <2>1, ThreadEffect DEF StartContainer, Started
  <2>2. ASSUME q # r PROVE Elsewhere(r)
    BY <1>11, <1>t, <2>2, ThreadEffect DEF StartContainer, Elsewhere
  <2> QED
    BY <2>1, <2>2
<1>12. ASSUME FetchOutput(w, q) PROVE IF q = r THEN Fetched(w, r) ELSE Elsewhere(r)
  <2>1. ASSUME q = r PROVE Fetched(w, r)
    BY <1>12, <1>t, <2>1, ThreadEffect, StderrEffect DEF FetchOutput, AfterFetch, Fetched
  <2>2. ASSUME q # r PROVE Elsewhere(r)
    BY <1>12, <1>t, <2>2, ThreadEffect, StderrEffect DEF FetchOutput, AfterFetch, Elsewhere
  <2> QED
    BY <2>1, <2>2
<1>13. ASSUME EndAttempt(w, q) PROVE IF q = r THEN AttemptEnded(w, r) ELSE Elsewhere(r)
  <2>1. ASSUME q = r PROVE AttemptEnded(w, r)
    BY <1>13, <1>t, <2>1, ThreadEffect, RemoveEffect DEF EndAttempt, Judge, AttemptEnded
  <2>2. ASSUME q # r PROVE Elsewhere(r)
    BY <1>13, <1>t, <2>2, ThreadEffect, RemoveEffect DEF EndAttempt, Judge, Elsewhere
  <2> QED
    BY <2>1, <2>2
<1>14. ASSUME PublishDone(w, q) PROVE IF q = r THEN Published(w, r) ELSE Elsewhere(r)
  <2>1. ASSUME q = r PROVE Published(w, r)
    BY <1>14, <1>t, <2>1, ThreadEffect DEF PublishDone, Published, AfterDone
  <2>2. ASSUME q # r PROVE Elsewhere(r)
    BY <1>14, <1>t, <2>2, ThreadEffect DEF PublishDone, Elsewhere, AfterDone
  <2> QED
    BY <2>1, <2>2
<1>15. ASSUME DiscardMonitor(w, q) PROVE IF q = r THEN Discarded(w, r) ELSE Elsewhere(r)
  <2>1. ASSUME q = r PROVE Discarded(w, r)
    BY <1>15, <1>t, <2>1, ThreadEffect, RemoveEffect DEF DiscardMonitor, Discarded
  <2>2. ASSUME q # r PROVE Elsewhere(r)
    BY <1>15, <1>t, <2>2, ThreadEffect, RemoveEffect DEF DiscardMonitor, Elsewhere
  <2> QED
    BY <2>1, <2>2
<1>16. ASSUME ForgetRun(w, q) PROVE IF q = r THEN Forgot(w, r) ELSE Elsewhere(r)
  <2>1. ASSUME q = r PROVE Forgot(w, r)
    BY <1>16, <1>t, <2>1, ThreadEffect DEF ForgetRun, Forgot
  <2>2. ASSUME q # r PROVE Elsewhere(r)
    BY <1>16, <1>t, <2>2, ThreadEffect DEF ForgetRun, Elsewhere
  <2> QED
    BY <2>1, <2>2
<1>17. ASSUME AbortCall(w, q) PROVE IF q = r THEN Called(w, r) ELSE Elsewhere(r)
  <2>1. ASSUME q = r PROVE Called(w, r)
    BY <1>17, <1>t, <2>1, CallEffect DEF AbortCall, Called
  <2>2. ASSUME q # r PROVE Elsewhere(r)
    BY <1>17, <1>t, <2>2, CallEffect DEF AbortCall, Elsewhere
  <2> QED
    BY <2>1, <2>2
<1>18. ASSUME MarkAborted(w, q) PROVE IF q = r THEN Flagged(w, r) ELSE Elsewhere(r)
  <2>1. ASSUME q = r PROVE Flagged(w, r)
    BY <1>18, <1>t, <2>1, CallEffect DEF MarkAborted, Flagged, BeforeCheck
  <2>2. ASSUME q # r PROVE Elsewhere(r)
    BY <1>18, <1>t, <2>2, CallEffect DEF MarkAborted, Elsewhere, BeforeCheck
  <2> QED
    BY <2>1, <2>2
<1>19. ASSUME AbortLookup(w, q) PROVE IF q = r THEN Found(w, r) ELSE Elsewhere(r)
  <2>1. ASSUME q = r PROVE Found(w, r)
    BY <1>19, <1>t, <2>1, CallEffect DEF AbortLookup, Found
  <2>2. ASSUME q # r PROVE Elsewhere(r)
    <3>1. CallsSame(r)
      BY <1>19, <2>2, CallEffect DEF AbortLookup
    <3>2. CASE held' = [held EXCEPT ![w][q] = gen[q]]
      <4>1. HeldSame(r)
        BY <1>t, <2>2, <3>2
      <4> QED
        BY <1>19, <1>t, <3>1, <4>1 DEF AbortLookup, Elsewhere
    <3>3. CASE held' = held
      BY <1>19, <1>t, <3>1, <3>3 DEF AbortLookup, Elsewhere
    <3> QED
      BY <1>19, <3>2, <3>3, Zenon DEF AbortLookup
  <2> QED
    BY <2>1, <2>2
<1>20. ASSUME MarkHardKill(w, q) PROVE IF q = r THEN MarkedHard(w, r) ELSE Elsewhere(r)
  <2>1. ASSUME q = r PROVE MarkedHard(w, r)
    BY <1>20, <1>t, <2>1, CallEffect DEF MarkHardKill, MarkedHard
  <2>2. ASSUME q # r PROVE Elsewhere(r)
    BY <1>20, <1>t, <2>2, CallEffect DEF MarkHardKill, Elsewhere
  <2> QED
    BY <2>1, <2>2
<1>21. ASSUME AbortKill(w, q) PROVE IF q = r THEN Signalled(w, r) ELSE Elsewhere(r)
  <2>1. ASSUME q = r PROVE Signalled(w, r)
    BY <1>21, <1>t, <2>1, CallEffect DEF AbortKill, Signalled
  <2>2. ASSUME q # r PROVE Elsewhere(r)
    BY <1>21, <1>t, <2>2, CallEffect DEF AbortKill, Elsewhere
  <2> QED
    BY <2>1, <2>2
<1>22. ASSUME AbortStderr(w, q) PROVE IF q = r THEN Told(w, r) ELSE Elsewhere(r)
  <2>1. ASSUME q = r PROVE Told(w, r)
    BY <1>22, <1>t, <2>1, CallEffect, StderrEffect DEF AbortStderr, Told
  <2>2. ASSUME q # r PROVE Elsewhere(r)
    BY <1>22, <1>t, <2>2, CallEffect, StderrEffect DEF AbortStderr, Elsewhere
  <2> QED
    BY <2>1, <2>2
<1>23. ASSUME AbortRemove(w, q) PROVE IF q = r THEN Removed(w, r) ELSE Elsewhere(r)
  <2>1. ASSUME q = r PROVE Removed(w, r)
    BY <1>23, <1>t, <2>1, CallEffect, RemoveEffect DEF AbortRemove, AnswerKilled, Removed
  <2>2. ASSUME q # r PROVE Elsewhere(r)
    BY <1>23, <1>t, <2>2, CallEffect, RemoveEffect DEF AbortRemove, AnswerKilled, Elsewhere
  <2> QED
    BY <2>1, <2>2
<1>24. ASSUME MonitorTimeout(w, q) PROVE IF q = r THEN Exited(r) ELSE Elsewhere(r)
  BY <1>24, <1>t DEF MonitorTimeout, Exited, Elsewhere
<1>25. ASSUME Crash(w) PROVE Crashed(w, r)
  BY <1>25, <1>t DEF Crash, Crashed, ThreadTo, CallTo
<1> HIDE DEF ThreadSame, DonesSame, MineSame, EngineSame, FlagSame, CallsSame, HeldSame,
             KillsSame, EarlySame, StderrSame, CountsSame, AbortsSame, RunSame
<1> QED
  BY <1>1, <1>2, <1>3, <1>4, <1>5, <1>6, <1>7, <1>8, <1>9, <1>10, <1>11, <1>12, <1>13,
     <1>14, <1>15, <1>16, <1>17, <1>18, <1>19, <1>20, <1>21, <1>22, <1>23, <1>24, <1>25

\* A container that exits touches no other run.
LEMMA ExitEffect ==
  ASSUME TypeOK, NEW q \in Runs, NEW r \in Runs, ContainerExits(q)
  PROVE  IF q = r THEN Exited(r) ELSE Elsewhere(r)
BY DEF TypeOK, ContainerExits, Exited, Elsewhere, ThreadSame, DonesSame, MineSame, EngineSame,
   FlagSame, CallsSame, HeldSame, KillsSame, EarlySame, StderrSame, CountsSame, AbortsSame,
   RunSame

\* Every step of the threads, of the abort calls and of the environment is one
\* of those, seen from run r, while nothing has failed.
LEMMA StepEffect ==
  ASSUME TypeOK, [Next]_vars, outages' = 0, NEW r \in Runs
  PROVE  Effect(r)
<1>1. ASSUME NEW w \in Workers, NEW q \in Runs,
             \/ StartJob(w, q) \/ RunStep(w, q) \/ MonitorTimeout(w, q) \/ AbortCall(w, q)
             \/ AbortStep(w, q)
      PROVE  Effect(r)
  BY <1>1, ActionEffects DEF RunStep, AbortStep, Effect
<1>2. ASSUME NEW w \in Workers, Crash(w) PROVE Effect(r)
  BY <1>2, ActionEffects DEF Effect
<1>3. CASE CooldownExpires \/ RedisFails \/ RedisRecovers \/ UNCHANGED vars
  <2>1. Elsewhere(r)
    BY <1>3 DEF CooldownExpires, RedisFails, RedisRecovers, vars, Elsewhere,
       ThreadSame, DonesSame, MineSame, EngineSame, FlagSame, CallsSame, HeldSame,
       KillsSame, EarlySame, StderrSame, CountsSame, AbortsSame, RunSame
  <2> QED
    BY <2>1 DEF Effect
<1>4. ASSUME NEW q \in Runs, ContainerExits(q) PROVE Effect(r)
  BY <1>4, ExitEffect DEF Effect
<1>5. ASSUME NEW w \in Workers, NEW q \in Runs, EngineFails(w, q) \/ AbortCallFails(w, q)
      PROVE  FALSE
  BY <1>5 DEF EngineFails, AbortCallFails, Outage, TypeOK
<1> QED
  BY <1>1, <1>2, <1>3, <1>4, <1>5 DEF Next

\* What a job asks for never changes, and no failure is forgotten.
LEMMA CalmStep ==
  ASSUME TypeOK, [Next]_vars
  PROVE  kind' = kind /\ (outages' = 0 => outages = 0)
<1>1. kind' = kind /\ outages' \in {outages, outages + 1}
  BY DEF Next, vars, RunStep, AbortStep, StartJob, Prepare, PrepareFails, CheckAborted,
     CooldownWait, CreateContainer, StartContainer, SpawnFails, StreamEnds, FetchOutput,
     EndAttempt, RetryCheck, BackoffOver, PublishDone, DiscardMonitor, ForgetRun,
     MonitorTimeout, AbortCall, MarkAborted, AbortLookup, MarkHardKill, AbortKill,
     AbortStderr, AbortRemove, ContainerExits, CooldownExpires, RedisFails, RedisRecovers,
     Crash, EngineFails, AbortCallFails, Outage
<1>2. outages \in Nat
  BY DEF TypeOK
<1> QED
  BY <1>1, <1>2

\* A thread at work on a run that was posted once is alone with it.
LEMMA Alone ==
  ASSUME TypeOK, DoneInv, NEW r \in Runs, posts[r] <= 1,
         NEW w \in Workers, pc[w][r] \notin {"idle", "dead"}
  PROVE  /\ posts[r] = 1
         /\ \A v \in Workers \ {w} : pc[v][r] \in {"idle", "dead"} /\ dones[v][r] = 0
         /\ pc[w][r] \notin {"discard", "forget", "end"} => dones[w][r] = 0
<1>1. posts[r] \in Nat /\ \A v \in Workers : dones[v][r] \in Nat
  BY DEF TypeOK
<1> QED
  BY <1>1 DEF DoneInv, PublishedOnce, ThreadsArePosted, TookPart

-----------------------------------------------------------------------------
(***************************************************************************)
(* The container of a run that was posted once: which incarnation its      *)
(* thread means, and where the thread stands when there is none and when   *)
(* it runs.                                                                *)
(***************************************************************************)
BeforeSpawn == {"prep", "gate", "cool", "create", "backoff", "nap"}
Attempting == {"start", "stream", "fetch", "remove"}

EngineInv(r) ==
    posts[r] <= 1 =>
        /\ posts[r] = 0 => cont[r] = "none"
        /\ \A w \in Workers :
              /\ pc[w][r] \in Attempting => mine[w][r] = gen[r]
              /\ pc[w][r] \in BeforeSpawn \union {"retry"} => cont[r] = "none"
              /\ cont[r] = "running" => pc[w][r] \in {"idle", "stream", "dead"} /\ dones[w][r] = 0

\* EngineInv is kept by every step, while nothing has failed.
LEMMA EngineStep ==
  ASSUME TypeOK, DoneInv, NEW r \in Runs, EngineInv(r), outages' = 0, [Next]_vars
  PROVE  EngineInv(r)'
<1> SUFFICES ASSUME posts'[r] <= 1 PROVE EngineInv(r)'
  BY DEF EngineInv
<1> USE DEF BeforeSpawn, Attempting
<1>t. posts[r] \in Nat /\ gen[r] \in Nat
  BY DEF TypeOK
<1>1. CASE Elsewhere(r)
  BY <1>1 DEF Elsewhere, RunSame, EngineSame, CountsSame, ThreadSame, DonesSame, MineSame,
     EngineInv
<1>2. CASE Exited(r)
  <2>1. posts'[r] = posts[r] /\ cont[r] = "running" /\ cont'[r] = "exited"
    BY <1>2 DEF Exited, CountsSame
  <2> QED
    BY <1>2, <2>1 DEF Exited, RunSame, ThreadSame, DonesSame, MineSame, EngineInv
<1>3. ASSUME NEW w \in Workers, Posted(w, r) PROVE EngineInv(r)'
  <2>1. posts[r] = 0 /\ posts'[r] = 1
    BY <1>3, <1>t DEF Posted
  <2>2. cont[r] = "none" /\ cont'[r] = "none"
    BY <1>3, <2>1 DEF Posted, EngineSame, EngineInv
  <2> QED
    BY <1>3, <2>1, <2>2 DEF Posted, ThreadSame, ThreadTo, DonesSame, MineSame, EngineSame,
       EngineInv
<1>4. ASSUME NEW w \in Workers, Moved(w, r) PROVE EngineInv(r)'
  <2>1. posts'[r] = posts[r]
    BY <1>4 DEF Moved, CountsSame
  <2>2. PICK to : Quiet(w, r, pc[w][r], to) /\ ThreadTo(w, r, to)
    BY <1>4 DEF Moved
  <2>3. cont[r] # "running"
    BY <1>4, <2>1, <2>2 DEF Quiet, StreamOver, Present, EngineInv
  <2> QED
    BY <1>4, <2>1, <2>2, <2>3 DEF Moved, Quiet, ThreadTo, DonesSame, MineSame, EngineSame,
       EngineInv
<1>5. ASSUME NEW w \in Workers, Created(w, r) PROVE EngineInv(r)'
  <2>1. posts'[r] = posts[r] /\ posts[r] = 1
        /\ \A v \in Workers \ {w} : pc[v][r] \in {"idle", "dead"}
    BY <1>5, Alone DEF Created, CountsSame
  <2> QED
    BY <1>5, <2>1 DEF Created, ThreadTo, EngineInv
<1>6. ASSUME NEW w \in Workers, Started(w, r) PROVE EngineInv(r)'
  <2>1. posts'[r] = posts[r] /\ posts[r] = 1 /\ dones[w][r] = 0
        /\ \A v \in Workers \ {w} : pc[v][r] \in {"idle", "dead"} /\ dones[v][r] = 0
    BY <1>6, Alone DEF Started, CountsSame
  <2> QED
    BY <1>6, <2>1 DEF Started, ThreadTo, DonesSame, MineSame, EngineInv
<1>7. ASSUME NEW w \in Workers, Fetched(w, r) PROVE EngineInv(r)'
  BY <1>7 DEF Fetched, ThreadTo, DonesSame, MineSame, EngineSame, CountsSame, EngineInv
<1>8. ASSUME NEW w \in Workers, AttemptEnded(w, r) PROVE EngineInv(r)'
  <2>1. posts'[r] = posts[r] /\ posts[r] = 1 /\ mine[w][r] = gen[r]
        /\ \A v \in Workers \ {w} : pc[v][r] \in {"idle", "dead"}
    BY <1>8, Alone DEF AttemptEnded, CountsSame, EngineInv
  <2>2. cont'[r] = "none"
    BY <1>8, <2>1 DEF AttemptEnded, RemovalOf, Present
  <2> QED
    BY <1>8, <2>1, <2>2 DEF AttemptEnded, ThreadTo, DonesSame, MineSame, EngineInv
<1>9. ASSUME NEW w \in Workers, Published(w, r) PROVE EngineInv(r)'
  BY <1>9 DEF Published, ThreadTo, MineSame, EngineSame, CountsSame, EngineInv
<1>10. ASSUME NEW w \in Workers, Discarded(w, r) PROVE EngineInv(r)'
  <2>1. posts'[r] = posts[r] /\ posts[r] = 1
        /\ \A v \in Workers \ {w} : pc[v][r] \in {"idle", "dead"}
    BY <1>10, Alone DEF Discarded, CountsSame
  <2>2. cont'[r] \in {cont[r], "none"} /\ gen'[r] = gen[r] /\ cont[r] # "running"
    BY <1>10, <2>1 DEF Discarded, RemovalOf, EngineInv
  <2> QED
    BY <1>10, <2>1, <2>2 DEF Discarded, ThreadTo, DonesSame, MineSame, EngineInv
<1>11. ASSUME NEW w \in Workers, Forgot(w, r) PROVE EngineInv(r)'
  BY <1>11 DEF Forgot, ThreadTo, DonesSame, MineSame, EngineSame, CountsSame, EngineInv
<1>12. ASSUME NEW w \in Workers,
              Called(w, r) \/ Flagged(w, r) \/ Found(w, r) \/ MarkedHard(w, r) \/ Told(w, r)
       PROVE  EngineInv(r)'
  BY <1>12 DEF Called, Flagged, Found, MarkedHard, Told, RunSame, ThreadSame, DonesSame,
     MineSame, EngineSame, CountsSame, EngineInv
<1>13. ASSUME NEW w \in Workers, Signalled(w, r) PROVE EngineInv(r)'
  <2>1. cont'[r] = cont[r] \/ (cont[r] = "running" /\ cont'[r] = "exited")
    BY <1>13 DEF Signalled
  <2> QED
    BY <1>13, <2>1 DEF Signalled, RunSame, ThreadSame, DonesSame, MineSame, CountsSame,
       EngineInv
<1>14. ASSUME NEW w \in Workers, Removed(w, r) PROVE EngineInv(r)'
  <2>1. cont'[r] = cont[r] \/ cont'[r] = "none"
    BY <1>14 DEF Removed, RemovalOf
  <2> QED
    BY <1>14, <2>1 DEF Removed, RemovalOf, RunSame, ThreadSame, DonesSame, MineSame,
       CountsSame, EngineInv
<1>15. ASSUME NEW w \in Workers, Crashed(w, r) PROVE EngineInv(r)'
  BY <1>15 DEF Crashed, ThreadTo, DonesSame, MineSame, EngineSame, CountsSame, EngineInv
<1> QED
  BY StepEffect, <1>1, <1>2, <1>3, <1>4, <1>5, <1>6, <1>7, <1>8, <1>9, <1>10, <1>11, <1>12,
     <1>13, <1>14, <1>15 DEF Effect

-----------------------------------------------------------------------------
(***************************************************************************)
(* A killed run stays dead.  From the moment an abort call has found the   *)
(* container, no thread of the run stands where a spawn lies before it,    *)
(* but in the retry loop, whose check reads the flag; and the incarnation  *)
(* the call holds stays the last one.                                      *)
(***************************************************************************)
Aiming == {"sign", "kill", "stderr", "remove"}
Targeted(r) == r \in killed \/ \E v \in Workers : apc[v][r] \in Aiming
Answering(r) == Targeted(r) \/ \E v \in Workers : apc[v][r] = "get"

\* The flag is there as long as a thread that may read it is.
FlagOrOver(r) ==
    r \in redisFlag \/ (posts[r] = 1 /\ \A w \in Workers : pc[w][r] \in {"idle", "end", "dead"})

KillInv(r) ==
    posts[r] <= 1 /\ outages = 0 =>
        /\ Answering(r) => FlagOrOver(r)
        /\ Targeted(r) => posts[r] = 1 /\ \A w \in Workers : pc[w][r] \notin BeforeSpawn
        /\ \A v \in Workers : apc[v][r] \in Aiming => held[v][r] = gen[r]
        /\ r \in killed => cont[r] = "none"

\* KillInv is kept by every step.
LEMMA KillStep ==
  ASSUME TypeOK, DoneInv, NEW r \in Runs, outages = 0 => redisUp, EngineInv(r), KillInv(r),
         [Next]_vars
  PROVE  KillInv(r)'
<1> SUFFICES ASSUME posts'[r] <= 1, outages' = 0 PROVE KillInv(r)'
  BY DEF KillInv
<1>c. outages = 0 /\ redisUp
  BY CalmStep
<1>t. posts[r] \in Nat
  BY DEF TypeOK
<1> USE <1>c DEF Answering, Targeted, FlagOrOver, Aiming, BeforeSpawn
<1>0. ASSUME posts'[r] = posts[r], EngineSame(r), AbortsSame(r), FlagSame(r), NEW w \in Workers,
             NEW to, ThreadTo(w, r, to), pc[w][r] \notin {"idle", "end", "dead"},
             to \in BeforeSpawn => pc[w][r] \in BeforeSpawn \/ ~Targeted(r)
      PROVE  KillInv(r)'
  <2>1. posts[r] <= 1 /\ KillInv(r)
    BY <1>0
  <2>2. Answering(r)' <=> Answering(r)
    BY <1>0 DEF AbortsSame, CallsSame, KillsSame
  <2>3. Answering(r) => r \in redisFlag /\ r \in redisFlag'
    BY <1>0, <2>1 DEF KillInv, FlagSame
  <2>4. Targeted(r)' <=> Targeted(r)
    BY <1>0 DEF AbortsSame, CallsSame, KillsSame
  <2>5. Targeted(r) => posts'[r] = 1 /\ \A v \in Workers : pc'[v][r] \notin BeforeSpawn
    BY <1>0, <2>1 DEF KillInv, ThreadTo
  <2>6. \A v \in Workers : apc'[v][r] \in Aiming => held'[v][r] = gen'[r]
    BY <1>0, <2>1 DEF KillInv, AbortsSame, CallsSame, HeldSame, EngineSame
  <2>7. r \in killed' => cont'[r] = "none"
    BY <1>0, <2>1 DEF KillInv, AbortsSame, KillsSame, EngineSame
  <2> QED
    BY <2>2, <2>3, <2>4, <2>5, <2>6, <2>7 DEF KillInv
<1>1. CASE Elsewhere(r)
  BY <1>1 DEF Elsewhere, RunSame, EngineSame, CountsSame, ThreadSame, FlagSame, AbortsSame,
     CallsSame, HeldSame, KillsSame, KillInv
<1>2. CASE Exited(r)
  BY <1>2 DEF Exited, RunSame, CountsSame, ThreadSame, FlagSame, AbortsSame,
     CallsSame, HeldSame, KillsSame, KillInv
<1>3. ASSUME NEW w \in Workers, Posted(w, r) PROVE KillInv(r)'
  <2>1. posts[r] = 0 /\ posts'[r] = 1
    BY <1>3, <1>t DEF Posted
  <2>2. ~Targeted(r) /\ (Answering(r) => r \in redisFlag)
    BY <2>1 DEF KillInv
  <2> QED
    BY <1>3, <2>1, <2>2 DEF Posted, FlagSame, AbortsSame, CallsSame, HeldSame, KillsSame,
       KillInv
<1>4. ASSUME NEW w \in Workers, Moved(w, r) PROVE KillInv(r)'
  <2>1. posts'[r] = posts[r] /\ posts[r] <= 1 /\ KillInv(r)
    BY <1>4 DEF Moved, CountsSame
  <2>2. PICK to : Quiet(w, r, pc[w][r], to) /\ ThreadTo(w, r, to)
    BY <1>4 DEF Moved
  <2>3. pc[w][r] \notin {"idle", "end", "dead"}
    BY <2>2 DEF Quiet
  <2>4. ASSUME to \in BeforeSpawn, pc[w][r] \notin BeforeSpawn PROVE ~Targeted(r)
    <3>1. pc[w][r] = "retry" /\ ~IsAborted(w, r)
      BY <2>2, <2>4 DEF Quiet
    <3>2. r \notin redisFlag
      BY <3>1 DEF IsAborted
    <3> QED
      BY <2>1, <2>3, <3>2 DEF KillInv
  <2> QED
    BY <1>0, <1>4, <2>1, <2>2, <2>3, <2>4 DEF Moved
<1>5. ASSUME NEW w \in Workers, Created(w, r) PROVE KillInv(r)'
  <2>1. posts'[r] = posts[r] /\ posts[r] <= 1 /\ KillInv(r)
    BY <1>5 DEF Created, CountsSame
  <2>2. ~Targeted(r) /\ (Answering(r) => r \in redisFlag)
    BY <1>5, <2>1 DEF KillInv, Created
  <2> QED
    BY <1>5, <2>1, <2>2 DEF Created, FlagSame, AbortsSame, CallsSame, HeldSame, KillsSame,
       KillInv
<1>6. ASSUME NEW w \in Workers, Started(w, r) PROVE KillInv(r)'
  <2>1. posts'[r] = posts[r] /\ posts[r] <= 1 /\ KillInv(r)
    BY <1>6 DEF Started, CountsSame
  <2>2. r \notin killed
    BY <1>6, <2>1 DEF KillInv, Started, Present
  <2> QED
    BY <1>6, <2>1, <2>2 DEF Started, ThreadTo, FlagSame, AbortsSame, CallsSame, HeldSame,
       KillsSame, KillInv
<1>7. ASSUME NEW w \in Workers, Fetched(w, r) PROVE KillInv(r)'
  <2>1. posts'[r] = posts[r] /\ pc[w][r] = "fetch"
    BY <1>7 DEF Fetched, CountsSame
  <2>2. PICK to \in {"finish", "remove"} : ThreadTo(w, r, to)
    BY <1>7 DEF Fetched
  <2> QED
    BY <1>0, <1>7, <2>1, <2>2 DEF Fetched
<1>8. ASSUME NEW w \in Workers, AttemptEnded(w, r) \/ Discarded(w, r) PROVE KillInv(r)'
  <2>1. posts'[r] = posts[r] /\ posts[r] <= 1 /\ KillInv(r)
    BY <1>8 DEF AttemptEnded, Discarded, CountsSame
  <2>2. cont'[r] \in {cont[r], "none"} /\ gen'[r] = gen[r]
    BY <1>8 DEF AttemptEnded, Discarded, RemovalOf
  <2>3. /\ pc[w][r] \in {"remove", "discard"}
        /\ pc'[w][r] \in {"finish", "retry", "forget"}
        /\ \A v \in Workers \ {w} : pc'[v][r] = pc[v][r]
    BY <1>8 DEF AttemptEnded, Discarded, ThreadTo
  <2> QED
    BY <1>8, <2>1, <2>2, <2>3 DEF AttemptEnded, Discarded, FlagSame, AbortsSame, CallsSame,
       HeldSame, KillsSame, KillInv
<1>9. ASSUME NEW w \in Workers, Published(w, r) PROVE KillInv(r)'
  <2>1. posts'[r] = posts[r] /\ pc[w][r] \in {"finish", "aborted", "error"}
    BY <1>9 DEF Published, CountsSame
  <2>2. PICK to \in {"discard", "forget", "end"} : ThreadTo(w, r, to)
    BY <1>9 DEF Published
  <2> QED
    BY <1>0, <1>9, <2>1, <2>2 DEF Published
<1>10. ASSUME NEW w \in Workers, Forgot(w, r) PROVE KillInv(r)'
  <2>1. posts'[r] = posts[r] /\ posts[r] = 1 /\ KillInv(r)
        /\ \A v \in Workers \ {w} : pc[v][r] \in {"idle", "dead"}
    BY <1>10, Alone DEF Forgot, CountsSame
  <2>2. FlagOrOver(r)'
    BY <1>10, <2>1 DEF Forgot, ThreadTo
  <2> QED
    BY <1>10, <2>1, <2>2 DEF Forgot, ThreadTo, EngineSame, AbortsSame, CallsSame, HeldSame,
       KillsSame, KillInv
<1>11. ASSUME NEW w \in Workers, Called(w, r) PROVE KillInv(r)'
  <2>1. posts'[r] = posts[r] /\ posts[r] <= 1 /\ KillInv(r)
    BY <1>11 DEF Called
  <2> QED
    BY <1>11, <2>1 DEF Called, CallTo, RunSame, ThreadSame, EngineSame, FlagSame, HeldSame,
       KillsSame, KillInv
<1>12. ASSUME NEW w \in Workers, Flagged(w, r) PROVE KillInv(r)'
  <2>1. posts'[r] = posts[r] /\ posts[r] <= 1 /\ KillInv(r) /\ r \in redisFlag'
    BY <1>12 DEF Flagged, CountsSame
  <2> QED
    BY <1>12, <2>1 DEF Flagged, CallTo, RunSame, ThreadSame, EngineSame, HeldSame, KillsSame,
       KillInv
<1>13. ASSUME NEW w \in Workers, Found(w, r) PROVE KillInv(r)'
  <2>1. posts'[r] = posts[r] /\ posts[r] <= 1 /\ KillInv(r)
    BY <1>13 DEF Found, CountsSame
  <2>2. Answering(r) /\ FlagOrOver(r) /\ FlagOrOver(r)'
    BY <1>13, <2>1 DEF Found, KillInv, RunSame, ThreadSame, FlagSame
  <2>3. CASE cont[r] # "none"
    <3>1. /\ CallTo(w, r, "sign") /\ held'[w][r] = gen[r]
          /\ \A v \in Workers \ {w} : held'[v][r] = held[v][r]
      BY <1>13, <2>3 DEF Found
    <3>2. posts[r] = 1 /\ \A v \in Workers : pc[v][r] \notin BeforeSpawn
      BY <2>1, <2>3, <1>t DEF EngineInv
    <3> QED
      BY <1>13, <2>1, <2>2, <3>1, <3>2 DEF Found, CallTo, RunSame, ThreadSame, EngineSame,
         KillsSame, KillInv
  <2>4. CASE cont[r] = "none"
    <3>1. CallTo(w, r, "idle") /\ HeldSame(r)
      BY <1>13, <2>4 DEF Found
    <3> QED
      BY <1>13, <2>1, <2>2, <3>1 DEF Found, CallTo, HeldSame, RunSame, ThreadSame, EngineSame,
         KillsSame, KillInv
  <2> QED
    BY <2>3, <2>4
<1>14. ASSUME NEW w \in Workers, MarkedHard(w, r) \/ Signalled(w, r) \/ Told(w, r)
       PROVE  KillInv(r)'
  <2>1. posts'[r] = posts[r] /\ posts[r] <= 1 /\ KillInv(r)
    BY <1>14 DEF MarkedHard, Signalled, Told, CountsSame
  <2>2. apc[w][r] \in Aiming /\ \E to \in Aiming : CallTo(w, r, to)
    BY <1>14 DEF MarkedHard, Signalled, Told, AfterKill
  <2>3. gen'[r] = gen[r] /\ (cont[r] = "none" => cont'[r] = "none")
    BY <1>14 DEF MarkedHard, Signalled, Told, EngineSame
  <2>4. ThreadSame(r) /\ FlagSame(r) /\ HeldSame(r) /\ (r \in killed' <=> r \in killed)
    BY <1>14 DEF MarkedHard, Signalled, Told, RunSame, KillsSame
  <2> QED
    BY <2>1, <2>2, <2>3, <2>4 DEF CallTo, ThreadSame, FlagSame, HeldSame, KillInv
<1>15. ASSUME NEW w \in Workers, Removed(w, r) PROVE KillInv(r)'
  <2>1. posts'[r] = posts[r] /\ posts[r] <= 1 /\ KillInv(r)
    BY <1>15 DEF Removed, CountsSame
  <2>2. apc[w][r] = "remove" /\ held[w][r] = gen[r]
    BY <1>15, <2>1 DEF Removed, KillInv
  <2>3. cont'[r] = "none" /\ gen'[r] = gen[r]
    BY <1>15, <2>2 DEF Removed, RemovalOf, Present
  <2>4. Targeted(r)
    BY <2>2
  <2> QED
    BY <1>15, <2>1, <2>2, <2>3, <2>4 DEF Removed, CallTo, RunSame, ThreadSame, FlagSame,
       KillInv
<1>16. ASSUME NEW w \in Workers, Crashed(w, r) PROVE KillInv(r)'
  <2>1. posts'[r] = posts[r] /\ posts[r] <= 1 /\ KillInv(r)
    BY <1>16 DEF Crashed, CountsSame
  <2> QED
    BY <1>16, <2>1 DEF Crashed, ThreadTo, CallTo, EngineSame, FlagSame, KillsSame, KillInv
<1> QED
  BY StepEffect, <1>1, <1>2, <1>3, <1>4, <1>5, <1>6, <1>7, <1>8, <1>9, <1>10, <1>11, <1>12,
     <1>13, <1>14, <1>15, <1>16 DEF Effect

KilledInv == outages = 0 => \A r \in Runs : EngineInv(r) /\ KillInv(r)

\* KilledInv holds in every reachable state.
LEMMA KilledInvHolds == Spec => []KilledInv
<1>1. Init => KilledInv
  BY DEF Init, KilledInv, EngineInv, KillInv, Answering, Targeted, Aiming, Attempting,
     BeforeSpawn
<1>2. TypeOK /\ DoneInv /\ EarlyInv /\ KilledInv /\ [Next]_vars => KilledInv'
  BY CalmStep, EngineStep, KillStep DEF KilledInv, EarlyInv
<1> QED
  BY <1>1, <1>2, TypeCorrect, DoneInvHolds, EarlyInvHolds, PTL DEF Spec

\* Once abort_job has answered "killed", on any worker, the retry loop does
\* not bring the run's container back (mark_aborted before the kill, and the
\* check at the top of _run_cold_agent_with_retry's loop).
THEOREM KilledStays == Spec => []KilledStaysDead
<1>1. TypeOK /\ KilledInv => KilledStaysDead
  BY DEF TypeOK, KilledInv, KillInv, KilledStaysDead
<1> QED
  BY <1>1, TypeCorrect, KilledInvHolds, PTL

-----------------------------------------------------------------------------
(***************************************************************************)
(* The tale of a kill, however many POSTs: the hard-kill marker comes      *)
(* before the signal; and until a signalled incarnation's stderr is on the *)
(* stream its container is there to be read, and nobody who could remove   *)
(* it, or end its run, has passed the reading.                             *)
(***************************************************************************)
MarkInv(r) ==
    outages = 0 =>
        \/ signalled[r] = {} /\ \A w \in Workers : apc[w][r] \notin {"kill", "stderr", "remove"}
        \/ r \in hardKill

\* MarkInv is kept by every step.
LEMMA MarkStep ==
  ASSUME TypeOK, NEW r \in Runs, outages = 0 => redisUp, MarkInv(r), [Next]_vars
  PROVE  MarkInv(r)'
<1> SUFFICES ASSUME outages' = 0 PROVE MarkInv(r)'
  BY DEF MarkInv
<1>c. outages = 0 /\ redisUp
  BY CalmStep
<1>1. CASE Elsewhere(r) \/ Exited(r)
  BY <1>c, <1>1 DEF Elsewhere, Exited, AbortsSame, CallsSame, KillsSame, MarkInv
<1>2. ASSUME NEW w \in Workers,
             \/ Posted(w, r) \/ Moved(w, r) \/ Created(w, r) \/ Started(w, r) \/ Fetched(w, r)
             \/ AttemptEnded(w, r) \/ Published(w, r) \/ Discarded(w, r) \/ Forgot(w, r)
      PROVE  MarkInv(r)'
  <2>1. AbortsSame(r)
    BY <1>2 DEF Posted, Moved, Created, Started, Fetched, AttemptEnded, Published, Discarded,
       Forgot
  <2> QED
    BY <1>c, <2>1 DEF AbortsSame, CallsSame, KillsSame, MarkInv
<1>3. ASSUME NEW w \in Workers, Called(w, r) \/ Flagged(w, r) \/ Found(w, r)
      PROVE  MarkInv(r)'
  <2>1. KillsSame(r) /\ \E to \in {"mark", "get", "sign", "idle"} : CallTo(w, r, to)
    BY <1>3 DEF Called, Flagged, Found
  <2> QED
    BY <1>c, <2>1 DEF CallTo, KillsSame, MarkInv
<1>4. ASSUME NEW w \in Workers, MarkedHard(w, r) PROVE MarkInv(r)'
  BY <1>c, <1>4 DEF MarkedHard, MarkInv
<1>5. ASSUME NEW w \in Workers, Signalled(w, r) \/ Told(w, r) \/ Removed(w, r)
      PROVE  MarkInv(r)'
  <2>1. r \in hardKill
    BY <1>c, <1>5 DEF Signalled, Told, Removed, MarkInv
  <2>2. r \in hardKill'
    BY <1>5, <2>1 DEF Signalled, Told, Removed, KillsSame
  <2> QED
    BY <2>2 DEF MarkInv
<1>6. ASSUME NEW w \in Workers, Crashed(w, r) PROVE MarkInv(r)'
  BY <1>c, <1>6 DEF Crashed, CallTo, KillsSame, MarkInv
<1> QED
  BY StepEffect, <1>1, <1>2, <1>3, <1>4, <1>5, <1>6 DEF Effect

\* An incarnation is one thread's; while it runs that thread reads its output,
\* or died doing so.
OwnerInv(r) ==
    /\ gen[r] = 0 => cont[r] = "none"
    /\ \A w \in Workers :
          /\ mine[w][r] <= gen[r]
          /\ pc[w][r] = "start" => mine[w][r] > 0
          /\ \A v \in Workers \ {w} : mine[v][r] = mine[w][r] => mine[w][r] = 0
          /\ cont[r] = "running" /\ mine[w][r] = gen[r] =>
                pc[w][r] = "stream" \/ (pc[w][r] = "dead" /\ dones[w][r] = 0)

\* OwnerInv is kept by every step, while nothing has failed.
LEMMA OwnerStep ==
  ASSUME TypeOK, DoneInv, NEW r \in Runs, OwnerInv(r), outages' = 0, [Next]_vars
  PROVE  OwnerInv(r)'
<1>t. gen[r] \in Nat /\ \A w \in Workers : mine[w][r] \in Nat
  BY DEF TypeOK
<1>0. ASSUME MineSame(r), gen'[r] = gen[r],
             cont'[r] = cont[r] \/ (cont[r] # "none" /\ cont'[r] # "running"),
             \A v \in Workers :
                /\ pc'[v][r] = "start" => pc[v][r] = "start"
                /\ cont'[r] = "running" /\ mine[v][r] = gen[r] =>
                      pc'[v][r] = "stream" \/ (pc'[v][r] = "dead" /\ dones'[v][r] = 0)
      PROVE  OwnerInv(r)'
  BY <1>0 DEF MineSame, OwnerInv
<1>1. CASE Elsewhere(r) \/ Exited(r)
  BY <1>0, <1>1 DEF Elsewhere, Exited, RunSame, ThreadSame, DonesSame, EngineSame, OwnerInv
<1>2. ASSUME NEW w \in Workers,
             \/ Called(w, r) \/ Flagged(w, r) \/ Found(w, r) \/ MarkedHard(w, r)
             \/ Signalled(w, r) \/ Told(w, r) \/ Removed(w, r)
      PROVE  OwnerInv(r)'
  <2>1. RunSame(r) /\ gen'[r] = gen[r]
    BY <1>2 DEF Called, Flagged, Found, MarkedHard, Signalled, Told, Removed, RemovalOf,
       EngineSame
  <2>2. cont'[r] = cont[r] \/ (cont[r] # "none" /\ cont'[r] # "running")
    BY <1>2 DEF Called, Flagged, Found, MarkedHard, Signalled, Told, Removed, RemovalOf,
       EngineSame, Present
  <2> QED
    BY <1>0, <2>1, <2>2 DEF RunSame, ThreadSame, DonesSame, OwnerInv
<1>3. ASSUME NEW w \in Workers, Posted(w, r) PROVE OwnerInv(r)'
  <2>1. \A v \in Workers : pc'[v][r] = pc[v][r] \/ (pc[v][r] = "idle" /\ pc'[v][r] = "prep")
    BY <1>3 DEF Posted, ThreadSame, ThreadTo
  <2> QED
    BY <1>0, <1>3, <2>1 DEF Posted, DonesSame, EngineSame, OwnerInv
<1>4. ASSUME NEW w \in Workers, Moved(w, r) PROVE OwnerInv(r)'
  <2>1. PICK to : Quiet(w, r, pc[w][r], to) /\ ThreadTo(w, r, to)
    BY <1>4 DEF Moved
  <2>2. to # "start" /\ ~(cont[r] = "running" /\ mine[w][r] = gen[r])
    BY <2>1 DEF Quiet, StreamOver, Present, OwnerInv
  <2> QED
    BY <1>0, <1>4, <2>1, <2>2 DEF Moved, ThreadTo, DonesSame, EngineSame, OwnerInv
<1>5. ASSUME NEW w \in Workers, Created(w, r) PROVE OwnerInv(r)'
  <2>1. cont'[r] = "created" /\ gen'[r] = gen[r] + 1 /\ mine'[w][r] = gen[r] + 1
    BY <1>5 DEF Created
  <2>2. \A v \in Workers \ {w} : mine'[v][r] = mine[v][r] /\ mine[v][r] < gen[r] + 1
    BY <1>5, <1>t DEF Created, OwnerInv
  <2>3. \A v \in Workers \ {w} : pc'[v][r] = pc[v][r]
    BY <1>5 DEF Created, ThreadTo
  <2>4. \A v \in Workers : mine'[v][r] <= gen'[r]
    BY <1>t, <2>1, <2>2
  <2>5. \A v \in Workers : pc'[v][r] = "start" => mine'[v][r] > 0
    BY <1>t, <2>1, <2>2, <2>3 DEF OwnerInv
  <2>6. \A u, v \in Workers : u # v /\ mine'[u][r] = mine'[v][r] => mine'[u][r] = 0
    BY <1>t, <2>1, <2>2 DEF OwnerInv
  <2> QED
    BY <1>t, <2>1, <2>4, <2>5, <2>6 DEF OwnerInv
<1>6. ASSUME NEW w \in Workers, Started(w, r) PROVE OwnerInv(r)'
  <2>1. /\ pc[w][r] = "start" /\ mine[w][r] = gen[r] /\ mine[w][r] > 0 /\ cont[r] # "none"
        /\ pc'[w][r] = "stream" /\ \A v \in Workers \ {w} : pc'[v][r] = pc[v][r]
    BY <1>6 DEF Started, ThreadTo, Present, OwnerInv
  <2>2. \A v \in Workers \ {w} : mine[v][r] # gen[r]
    BY <1>t, <2>1 DEF OwnerInv
  <2> QED
    BY <1>6, <1>t, <2>1, <2>2 DEF Started, MineSame, OwnerInv
<1>7. ASSUME NEW w \in Workers,
             \/ Fetched(w, r) \/ AttemptEnded(w, r) \/ Published(w, r) \/ Discarded(w, r)
             \/ Forgot(w, r)
      PROVE  OwnerInv(r)'
  <2>1. /\ MineSame(r) /\ gen'[r] = gen[r]
        /\ cont'[r] = cont[r] \/ (cont[r] # "none" /\ cont'[r] # "running")
        /\ \A v \in Workers \ {w} : dones'[v][r] = dones[v][r]
    BY <1>7 DEF Fetched, AttemptEnded, Published, Discarded, Forgot, EngineSame, RemovalOf,
       Present, DonesSame
  <2>2. pc[w][r] \notin {"stream", "dead"} /\ pc'[w][r] # "start"
        /\ \A v \in Workers \ {w} : pc'[v][r] = pc[v][r]
    BY <1>7 DEF Fetched, AttemptEnded, Published, Discarded, Forgot, ThreadTo
  <2> QED
    BY <1>0, <2>1, <2>2 DEF OwnerInv
<1>8. ASSUME NEW w \in Workers, Crashed(w, r) PROVE OwnerInv(r)'
  <2>1. pc[w][r] = "stream" => dones[w][r] = 0
    BY DEF DoneInv, PublishedOnce
  <2> QED
    BY <1>0, <1>8, <2>1 DEF Crashed, ThreadTo, DonesSame, EngineSame, OwnerInv
<1> QED
  BY StepEffect, <1>1, <1>2, <1>3, <1>4, <1>5, <1>6, <1>7, <1>8 DEF Effect

\* With one abort call there is one signal, and it is that call's.
Absent == {"idle", "dead"}

OneAbortInv(r) ==
    /\ aborts[r] = 0 => signalled[r] = {} /\ \A v \in Workers : apc[v][r] \in Absent
    /\ aborts[r] <= 1 =>
          \A v \in Workers :
              /\ apc[v][r] \notin Absent => \A u \in Workers \ {v} : apc[u][r] \in Absent
              /\ apc[v][r] \in {"mark", "get", "sign", "kill"} => signalled[r] = {}
              /\ apc[v][r] = "stderr" => signalled[r] \subseteq {held[v][r]}

\* OneAbortInv is kept by every step, while nothing has failed.
LEMMA OneAbortStep ==
  ASSUME TypeOK, NEW r \in Runs, OneAbortInv(r), outages' = 0, [Next]_vars
  PROVE  OneAbortInv(r)'
<1> USE DEF Absent
<1>t. aborts[r] \in Nat
  BY DEF TypeOK
<1>0. ASSUME AbortsSame(r), aborts'[r] = aborts[r] PROVE OneAbortInv(r)'
  BY <1>0 DEF AbortsSame, CallsSame, HeldSame, KillsSame, OneAbortInv
<1>1. CASE Elsewhere(r) \/ Exited(r)
  BY <1>0, <1>1 DEF Elsewhere, Exited, CountsSame
<1>2. ASSUME NEW w \in Workers,
             \/ Posted(w, r) \/ Moved(w, r) \/ Created(w, r) \/ Started(w, r) \/ Fetched(w, r)
             \/ AttemptEnded(w, r) \/ Published(w, r) \/ Discarded(w, r) \/ Forgot(w, r)
      PROVE  OneAbortInv(r)'
  BY <1>0, <1>2 DEF Posted, Moved, Created, Started, Fetched, AttemptEnded, Published,
     Discarded, Forgot, CountsSame
<1>3. ASSUME NEW w \in Workers, Called(w, r) PROVE OneAbortInv(r)'
  <2>1. aborts'[r] = aborts[r] + 1 /\ (aborts'[r] <= 1 => aborts[r] = 0) /\ aborts'[r] # 0
    BY <1>3, <1>t DEF Called
  <2>2. signalled'[r] = signalled[r] /\ CallTo(w, r, "mark")
    BY <1>3 DEF Called, KillsSame
  <2> QED
    BY <2>1, <2>2 DEF CallTo, OneAbortInv
<1>4. ASSUME NEW w \in Workers, Flagged(w, r) \/ Found(w, r) \/ MarkedHard(w, r)
      PROVE  OneAbortInv(r)'
  <2>1. /\ apc[w][r] \in {"mark", "get", "sign"}
        /\ \E to \in {"get", "sign", "idle", "kill"} : CallTo(w, r, to)
    BY <1>4 DEF Flagged, Found, MarkedHard
  <2>2. /\ signalled'[r] = signalled[r] /\ aborts'[r] = aborts[r]
        /\ \A v \in Workers \ {w} : held'[v][r] = held[v][r]
    BY <1>4 DEF Flagged, Found, MarkedHard, KillsSame, CountsSame, HeldSame
  <2> QED
    BY <2>1, <2>2 DEF CallTo, OneAbortInv
<1>5. ASSUME NEW w \in Workers, Signalled(w, r) PROVE OneAbortInv(r)'
  <2>1. /\ apc[w][r] = "kill" /\ aborts'[r] = aborts[r]
        /\ \E to \in {"stderr", "remove"} : CallTo(w, r, to)
        /\ \A v \in Workers : held'[v][r] = held[v][r]
    BY <1>5 DEF Signalled, AfterKill, CountsSame, HeldSame
  <2>2. aborts[r] <= 1 => signalled[r] = {} /\ \A v \in Workers \ {w} : apc[v][r] \in Absent
    BY <2>1 DEF OneAbortInv
  <2>3. aborts[r] # 0
    BY <2>1 DEF OneAbortInv
  <2>4. signalled'[r] \subseteq signalled[r] \union {held[w][r]}
    BY <1>5 DEF Signalled, Present
  <2> QED
    BY <2>1, <2>2, <2>3, <2>4 DEF CallTo, OneAbortInv
<1>6. ASSUME NEW w \in Workers, Told(w, r) \/ Removed(w, r) \/ Crashed(w, r)
      PROVE  OneAbortInv(r)'
  <2>1. /\ signalled'[r] = signalled[r] /\ aborts'[r] = aborts[r]
        /\ \A v \in Workers \ {w} : held'[v][r] = held[v][r]
    BY <1>6 DEF Told, Removed, Crashed, KillsSame, CountsSame, HeldSame
  <2>2. \/ CallTo(w, r, "idle") \/ CallTo(w, r, "dead")
        \/ CallTo(w, r, "remove") /\ apc[w][r] = "stderr"
    BY <1>6 DEF Told, Removed, Crashed
  <2> QED
    BY <2>1, <2>2 DEF CallTo, OneAbortInv
<1> QED
  BY StepEffect, <1>1, <1>2, <1>3, <1>4, <1>5, <1>6 DEF Effect

Reading(w, r) == pc[w][r] \in {"stream", "fetch"} \/ (pc[w][r] = "dead" /\ dones[w][r] = 0)

\* Incarnation g can still be read, by whoever comes first.
Readable(r, g) ==
    /\ Present(r, g) /\ cont[r] = "exited"
    /\ \A w \in Workers : (mine[w][r] = g => Reading(w, r)) /\ apc[w][r] # "remove"

ToldInv(r) ==
    aborts[r] <= 1 /\ kind[r] # "monitor" /\ outages = 0 =>
        \A g \in signalled[r] : g \in stderrOut[r] \/ Readable(r, g)

\* What is readable or told stays so.
LEMMA ToldStep ==
  ASSUME TypeOK, DoneInv, NEW r \in Runs, outages = 0 => redisUp, OwnerInv(r), OneAbortInv(r),
         ToldInv(r), outages' = 0, [Next]_vars
  PROVE  ToldInv(r)'
<1> SUFFICES ASSUME aborts'[r] <= 1, kind[r] # "monitor", outages = 0, redisUp,
                    NEW g \in signalled'[r], g \notin stderrOut'[r]
             PROVE  Readable(r, g)'
  BY CalmStep DEF ToldInv
<1>t. aborts[r] \in Nat
  BY DEF TypeOK
<1>a. ASSUME aborts'[r] = aborts[r] \/ aborts'[r] = aborts[r] + 1,
             signalled'[r] = signalled[r], stderrOut[r] \subseteq stderrOut'[r]
      PROVE  Readable(r, g) /\ g \in signalled[r]
  BY <1>t, <1>a DEF ToldInv
<1>0. ASSUME Readable(r, g), EngineSame(r), MineSame(r),
             \A v \in Workers :
                /\ mine[v][r] = g /\ Reading(v, r) => Reading(v, r)'
                /\ apc'[v][r] = "remove" => apc[v][r] = "remove"
      PROVE  Readable(r, g)'
  BY <1>0 DEF Readable, Present, EngineSame, MineSame
<1>1. CASE Elsewhere(r)
  BY <1>0, <1>1, <1>a DEF Elsewhere, CountsSame, AbortsSame, KillsSame, CallsSame, StderrSame,
     RunSame, ThreadSame, DonesSame, Reading
<1>2. CASE Exited(r)
  BY <1>2, <1>a DEF Exited, CountsSame, AbortsSame, KillsSame, StderrSame, Readable
<1>3. ASSUME NEW w \in Workers, Posted(w, r) PROVE Readable(r, g)'
  <2>1. Readable(r, g)
    BY <1>3, <1>a DEF Posted, AbortsSame, KillsSame, StderrSame
  <2>2. \A v \in Workers : pc[v][r] # "idle" => pc'[v][r] = pc[v][r]
    BY <1>3 DEF Posted, ThreadSame, ThreadTo
  <2> QED
    BY <1>0, <1>3, <2>1, <2>2 DEF Posted, AbortsSame, CallsSame, DonesSame, Reading
<1>4. ASSUME NEW w \in Workers, Moved(w, r) PROVE Readable(r, g)'
  <2>1. Readable(r, g)
    BY <1>4, <1>a DEF Moved, AbortsSame, KillsSame, StderrSame, CountsSame
  <2>2. PICK to : Quiet(w, r, pc[w][r], to) /\ ThreadTo(w, r, to)
    BY <1>4 DEF Moved
  <2> QED
    BY <1>0, <1>4, <2>1, <2>2 DEF Moved, AbortsSame, CallsSame, DonesSame, Reading, Quiet,
       ThreadTo
<1>5. ASSUME NEW w \in Workers, Created(w, r) PROVE Readable(r, g)'
  BY <1>5, <1>a DEF Created, AbortsSame, KillsSame, StderrSame, CountsSame, Readable
<1>6. ASSUME NEW w \in Workers, Started(w, r) PROVE Readable(r, g)'
  <2>1. Readable(r, g)
    BY <1>6, <1>a DEF Started, AbortsSame, KillsSame, StderrSame, CountsSame
  <2> QED
    BY <1>6, <2>1 DEF Started, Readable, Present, Reading
<1>7. ASSUME NEW w \in Workers, Fetched(w, r) PROVE Readable(r, g)'
  <2>1. stderrOut[r] \subseteq stderrOut'[r]
    BY <1>7 DEF Fetched, StderrOf
  <2>2. Readable(r, g)
    BY <1>7, <1>a, <2>1 DEF Fetched, AbortsSame, KillsSame, CountsSame
  <2>3. mine[w][r] # g
    BY <1>7, <2>2 DEF Fetched, StderrOf, Readable
  <2> QED
    BY <1>0, <1>7, <2>2, <2>3 DEF Fetched, AbortsSame, CallsSame, DonesSame, Reading, ThreadTo
<1>8. ASSUME NEW w \in Workers, AttemptEnded(w, r) \/ Discarded(w, r) PROVE Readable(r, g)'
  <2>1. Readable(r, g)
    BY <1>8, <1>a DEF AttemptEnded, Discarded, AbortsSame, KillsSame, StderrSame, CountsSame
  <2>2. mine[w][r] # g
    BY <1>8, <2>1 DEF AttemptEnded, Discarded, Readable, Reading
  <2>3. EngineSame(r)
    BY <1>8, <2>1, <2>2 DEF AttemptEnded, Discarded, RemovalOf, Readable, Present, EngineSame
  <2>4. /\ AbortsSame(r) /\ DonesSame(r) /\ MineSame(r)
        /\ \A v \in Workers \ {w} : pc'[v][r] = pc[v][r]
    BY <1>8 DEF AttemptEnded, Discarded, ThreadTo
  <2> QED
    BY <1>0, <2>1, <2>2, <2>3, <2>4 DEF AbortsSame, CallsSame, DonesSame, Reading
<1>9. ASSUME NEW w \in Workers, Published(w, r) \/ Forgot(w, r) PROVE Readable(r, g)'
  <2>1. Readable(r, g)
    BY <1>9, <1>a DEF Published, Forgot, AbortsSame, KillsSame, StderrSame, CountsSame
  <2>2. mine[w][r] # g
    BY <1>9, <2>1 DEF Published, Forgot, Readable, Reading
  <2>3. /\ AbortsSame(r) /\ MineSame(r) /\ EngineSame(r)
        /\ \A v \in Workers \ {w} : pc'[v][r] = pc[v][r] /\ dones'[v][r] = dones[v][r]
    BY <1>9 DEF Published, Forgot, ThreadTo, DonesSame
  <2> QED
    BY <1>0, <2>1, <2>2, <2>3 DEF AbortsSame, CallsSame, Reading
<1>10. ASSUME NEW w \in Workers,
              Called(w, r) \/ Flagged(w, r) \/ Found(w, r) \/ MarkedHard(w, r)
       PROVE  Readable(r, g)'
  <2>1. Readable(r, g)
    BY <1>10, <1>a DEF Called, Flagged, Found, MarkedHard, KillsSame, StderrSame, CountsSame
  <2>2. RunSame(r) /\ EngineSame(r)
        /\ \E to \in {"mark", "get", "sign", "idle", "kill"} : CallTo(w, r, to)
    BY <1>10 DEF Called, Flagged, Found, MarkedHard
  <2> QED
    BY <1>0, <2>1, <2>2 DEF RunSame, ThreadSame, DonesSame, CallTo, Reading
<1>11. ASSUME NEW w \in Workers, Signalled(w, r) PROVE Readable(r, g)'
  <2>1. aborts[r] <= 1 /\ apc[w][r] = "kill"
    BY <1>11 DEF Signalled, CountsSame
  <2>2. signalled[r] = {} /\ \A v \in Workers \ {w} : apc[v][r] \in Absent
    BY <2>1 DEF OneAbortInv, Absent
  <2>3. Present(r, held[w][r]) /\ cont[r] = "running" /\ g = gen[r]
    BY <1>11, <2>2 DEF Signalled
  <2>4. cont'[r] = "exited" /\ gen'[r] = gen[r] /\ RunSame(r)
    BY <1>11, <2>3 DEF Signalled
  <2>5. \A v \in Workers : mine[v][r] = g => Reading(v, r)
    BY <2>3 DEF OwnerInv, Reading
  <2>6. \A v \in Workers : apc'[v][r] # "remove"
    BY <1>11, <2>2 DEF Signalled, AfterKill, CallTo, Absent
  <2> QED
    BY <2>3, <2>4, <2>5, <2>6 DEF Readable, Present, RunSame, ThreadSame, DonesSame, MineSame,
       Reading
<1>12. ASSUME NEW w \in Workers, Told(w, r) PROVE Readable(r, g)'
  <2>1. stderrOut[r] \subseteq stderrOut'[r]
    BY <1>12 DEF Told, StderrOf
  <2>2. Readable(r, g) /\ g \in signalled[r]
    BY <1>12, <1>a, <2>1 DEF Told, KillsSame, CountsSame
  <2>3. aborts[r] <= 1 /\ held[w][r] = g
    BY <1>12, <2>2 DEF Told, CountsSame, OneAbortInv
  <2> QED
    BY <1>12, <2>2, <2>3 DEF Told, StderrOf, Readable
<1>13. ASSUME NEW w \in Workers, Removed(w, r) PROVE Readable(r, g)'
  BY <1>13, <1>a DEF Removed, StderrSame, CountsSame, Readable
<1>14. ASSUME NEW w \in Workers, Crashed(w, r) PROVE Readable(r, g)'
  <2>1. Readable(r, g)
    BY <1>14, <1>a DEF Crashed, KillsSame, StderrSame, CountsSame
  <2>2. Reading(w, r) => dones[w][r] = 0
    BY DEF DoneInv, PublishedOnce, Reading
  <2> QED
    BY <1>0, <1>14, <2>1, <2>2 DEF Crashed, ThreadTo, CallTo, DonesSame, Reading
<1> QED
  BY StepEffect, <1>1, <1>2, <1>3, <1>4, <1>5, <1>6, <1>7, <1>8, <1>9, <1>10, <1>11, <1>12,
     <1>13, <1>14 DEF Effect

TaleInv ==
    outages = 0 =>
        \A r \in Runs : MarkInv(r) /\ OwnerInv(r) /\ OneAbortInv(r) /\ ToldInv(r)

\* TaleInv holds in every reachable state.
LEMMA TaleInvHolds == Spec => []TaleInv
<1>1. Init => TaleInv
  BY DEF Init, TaleInv, MarkInv, OwnerInv, OneAbortInv, ToldInv, Absent
<1>2. TypeOK /\ DoneInv /\ EarlyInv /\ TaleInv /\ [Next]_vars => TaleInv'
  BY CalmStep, MarkStep, OwnerStep, OneAbortStep, ToldStep DEF TaleInv, EarlyInv
<1> QED
  BY <1>1, <1>2, TypeCorrect, DoneInvHolds, EarlyInvHolds, PTL DEF Spec

\* By the time a killed run's `done` is out, AP-MT finds the hard-kill marker,
\* and the CLI's stderr is on the stream, whether abort_job or the run's own
\* thread got to the container first (_mark_hard_kill, and the race of
\* abort_job with _stream_cold_attempt).
THEOREM KillIsTold == Spec => []KillIsToldBeforeDone
<1>1. DoneInv /\ TaleInv => KillIsToldBeforeDone
  <2> SUFFICES ASSUME DoneInv, TaleInv, NEW w \in Workers, NEW r \in Runs,
                      SignalledAndDone(w, r)
               PROVE  /\ r \in hardKill
                      /\ aborts[r] <= 1 /\ kind[r] # "monitor" => mine[w][r] \in stderrOut[r]
    BY DEF KillIsToldBeforeDone
  <2>1. outages = 0 /\ dones[w][r] > 0 /\ mine[w][r] \in signalled[r]
    BY DEF SignalledAndDone
  <2>2. r \in hardKill
    BY <2>1 DEF TaleInv, MarkInv
  <2>3. ASSUME aborts[r] <= 1, kind[r] # "monitor" PROVE mine[w][r] \in stderrOut[r]
    <3>1. mine[w][r] \in stderrOut[r] \/ Readable(r, mine[w][r])
      BY <2>1, <2>3 DEF TaleInv, ToldInv
    <3>2. ~Reading(w, r)
      BY <2>1 DEF DoneInv, PublishedOnce, Reading
    <3> QED
      BY <3>1, <3>2 DEF Readable
  <2> QED
    BY <2>2, <2>3
<1> QED
  BY <1>1, DoneInvHolds, TaleInvHolds, PTL

-----------------------------------------------------------------------------
(***************************************************************************)
(* ColdRun implements RunContract while a run is posted once and Redis     *)
(* answers.  A step touches one run at most (a crash touches none that     *)
(* agents-platform could see), and what it does to that run is a step of   *)
(* the contract or invisible.                                              *)
(***************************************************************************)

\* The counters stay within their bounds.
CallsBounded == outages <= MaxOutages /\ \A r \in Runs : posts[r] <= MaxPosts

\* CallsBounded holds in every reachable state.
LEMMA CallsBoundedHolds == Spec => []CallsBounded
<1>1. Init => CallsBounded
  BY BoundsAssumption DEF Init, CallsBounded
<1>2. ASSUME TypeOK, CallsBounded, [Next]_vars PROVE CallsBounded'
  <2>1. outages' = outages \/ (outages < MaxOutages /\ outages' = outages + 1)
    BY <1>2 DEF Next, vars, RunStep, AbortStep, StartJob, Prepare, PrepareFails, CheckAborted,
       CooldownWait, CreateContainer, StartContainer, SpawnFails, StreamEnds, FetchOutput,
       EndAttempt, RetryCheck, BackoffOver, PublishDone, DiscardMonitor, ForgetRun,
       MonitorTimeout, AbortCall, MarkAborted, AbortLookup, MarkHardKill, AbortKill,
       AbortStderr, AbortRemove, ContainerExits, CooldownExpires, RedisFails, RedisRecovers,
       Crash, EngineFails, AbortCallFails, Outage
  <2>2. \/ posts' = posts
        \/ \E q \in Runs : posts[q] < MaxPosts /\ posts' = [posts EXCEPT ![q] = @ + 1]
    BY <1>2 DEF Next, vars, RunStep, AbortStep, StartJob, Posts, Prepare, PrepareFails,
       CheckAborted, CooldownWait, CreateContainer, StartContainer, SpawnFails, StreamEnds,
       FetchOutput, EndAttempt, RetryCheck, BackoffOver, PublishDone, DiscardMonitor,
       ForgetRun, MonitorTimeout, AbortCall, MarkAborted, AbortLookup, MarkHardKill, AbortKill,
       AbortStderr, AbortRemove, ContainerExits, CooldownExpires, RedisFails, RedisRecovers,
       Crash, EngineFails, AbortCallFails, Outage
  <2>3. outages \in Nat /\ \A r \in Runs : posts[r] \in Nat
    BY <1>2 DEF TypeOK
  <2>4. \A r \in Runs : posts'[r] <= MaxPosts
    <3>1. CASE posts' = posts
      BY <1>2, <3>1 DEF CallsBounded
    <3>2. ASSUME NEW q \in Runs, posts[q] < MaxPosts, posts' = [posts EXCEPT ![q] = @ + 1]
          PROVE  \A r \in Runs : posts'[r] <= MaxPosts
      <4>1. \A r \in Runs : posts'[r] = IF r = q THEN posts[q] + 1 ELSE posts[r]
        BY <1>2, <3>2 DEF TypeOK
      <4>2. MaxPosts \in Nat
        BY BoundsAssumption
      <4> QED
        BY <1>2, <2>3, <3>2, <4>1, <4>2 DEF CallsBounded
    <3> QED
      BY <2>2, <3>1, <3>2
  <2> QED
    BY <1>2, <2>1, <2>3, <2>4, BoundsAssumption DEF CallsBounded
<1> QED
  BY <1>1, <1>2, TypeCorrect, PTL DEF Spec

\* A step changes one run at most, but for a crash, while nothing has failed.
LEMMA OneRunAtATime ==
  ASSUME TypeOK, [Next]_vars, outages' = 0
  PROVE  \/ \A r \in Runs : Elsewhere(r) \/ \E w \in Workers : Crashed(w, r)
         \/ \E q \in Runs : \A r \in Runs \ {q} : Elsewhere(r)
<1>1. ASSUME NEW w \in Workers, NEW q \in Runs,
             \/ StartJob(w, q) \/ RunStep(w, q) \/ MonitorTimeout(w, q) \/ AbortCall(w, q)
             \/ AbortStep(w, q)
      PROVE  \A r \in Runs \ {q} : Elsewhere(r)
  BY <1>1, ActionEffects DEF RunStep, AbortStep
<1>2. ASSUME NEW w \in Workers, Crash(w) PROVE \A r \in Runs : Crashed(w, r)
  BY <1>2, ActionEffects
<1>3. ASSUME CooldownExpires \/ RedisFails \/ RedisRecovers \/ UNCHANGED vars
      PROVE  \A r \in Runs : Elsewhere(r)
  BY <1>3 DEF CooldownExpires, RedisFails, RedisRecovers, vars, Elsewhere,
     ThreadSame, DonesSame, MineSame, EngineSame, FlagSame, CallsSame, HeldSame,
     KillsSame, EarlySame, StderrSame, CountsSame, AbortsSame, RunSame
<1>4. ASSUME NEW q \in Runs, ContainerExits(q) PROVE \A r \in Runs \ {q} : Elsewhere(r)
  BY <1>4, ExitEffect
<1>5. ASSUME NEW w \in Workers, NEW q \in Runs, EngineFails(w, q) \/ AbortCallFails(w, q)
      PROVE  FALSE
  BY <1>5 DEF EngineFails, AbortCallFails, Outage, TypeOK
<1> QED
  BY <1>1, <1>2, <1>3, <1>4, <1>5 DEF Next

\* What agents-platform sees of one run, before and after a step.
Cancelled(r) == r \in early \union killed
CancelledSame(r) == Cancelled(r)' <=> Cancelled(r)
SeenSame(r) == Phase(r)' = Phase(r) /\ CancelledSame(r)
SeenMove(r, from, to) == Phase(r) = from /\ Phase(r)' = to /\ CancelledSame(r)
SeenCancel(r) ==
    /\ Phase(r)' = IF Phase(r) = "live" THEN "accepted" ELSE Phase(r)
    /\ Cancelled(r)'

SeenStep(r) ==
    \/ SeenSame(r)
    \/ SeenMove(r, "unseen", "accepted")
    \/ SeenMove(r, "accepted", "live") /\ ~Cancelled(r)
    \/ SeenMove(r, "live", "accepted")
    \/ SeenMove(r, "accepted", "over")
    \/ SeenCancel(r)

\* A step that leaves the container, the `done`s and the POSTs of a run alone
\* leaves its phase alone; so does one that neither starts nor stops it.
LEMMA PhaseKept ==
  ASSUME NEW r \in Runs, DonesSame(r), posts'[r] = posts[r],
         cont'[r] = "running" <=> cont[r] = "running"
  PROVE  Phase(r)' = Phase(r)
<1>1. IsDone(r)' <=> IsDone(r)
  BY DEF DonesSame, IsDone
<1> QED
  BY <1>1 DEF Phase

\* A step that neither answers "killed" nor flags a run early cancels nothing.
LEMMA AbortsSeen ==
  ASSUME NEW r \in Runs, r \in killed' <=> r \in killed, EarlySame(r)
  PROVE  CancelledSame(r)
BY DEF EarlySame, CancelledSame, Cancelled

\* What is true of a run that was posted at most once while nothing fails.
Steady(r) ==
    /\ TypeOK /\ DoneInv /\ EarlyInv /\ KilledInv /\ TaleInv
    /\ outages = 0 /\ posts[r] <= 1

\* A live run has been posted and is not done: when its container stops, it is
\* accepted again.
LEMMA LiveIsNotDone ==
  ASSUME NEW r \in Runs, Steady(r), cont[r] = "running", cont'[r] # "running",
         DonesSame(r), posts'[r] = posts[r]
  PROVE  Phase(r) = "live" /\ Phase(r)' = "accepted"
<1>1. posts[r] > 0 /\ \A w \in Workers : dones[w][r] = 0
  BY DEF Steady, TypeOK, KilledInv, EngineInv
<1>2. ~IsDone(r)'
  BY <1>1 DEF DonesSame, IsDone
<1> QED
  BY <1>1, <1>2 DEF Phase

\* Whatever a step does to a steady run, the contract allows it.
LEMMA SeenEffect ==
  ASSUME NEW r \in Runs, Steady(r), posts'[r] <= 1, outages' = 0, [Next]_vars
  PROVE  SeenStep(r)
<1>s. /\ TypeOK /\ DoneInv /\ EarlyInv /\ OwnerInv(r) /\ EngineInv(r) /\ KillInv(r)
      /\ outages = 0 /\ posts[r] <= 1 /\ redisUp
  BY DEF Steady, EarlyInv, TaleInv, KilledInv
<1>1. CASE Elsewhere(r)
  BY <1>1, PhaseKept, AbortsSeen DEF Elsewhere, RunSame, EngineSame, CountsSame, AbortsSame,
     KillsSame, SeenStep, SeenSame
<1>2. CASE Exited(r)
  <2>1. CancelledSame(r)
    BY <1>2, AbortsSeen DEF Exited, AbortsSame, KillsSame
  <2> QED
    BY <1>2, <2>1, LiveIsNotDone DEF Exited, RunSame, CountsSame, SeenStep, SeenMove
<1>3. ASSUME NEW w \in Workers, Posted(w, r) PROVE SeenStep(r)
  <2>1. posts[r] = 0 /\ posts'[r] = 1
    BY <1>s, <1>3 DEF Posted, TypeOK
  <2>2. cont[r] = "none" /\ cont'[r] = "none" /\ ~IsDone(r)
    BY <1>s, <1>3, <2>1 DEF Posted, EngineSame, EngineInv, DoneInv, ThreadsArePosted, TookPart,
       IsDone
  <2>3. ~IsDone(r)' /\ CancelledSame(r)
    BY <1>3, <2>2, AbortsSeen DEF Posted, DonesSame, IsDone, AbortsSame, KillsSame
  <2> QED
    BY <2>1, <2>2, <2>3 DEF Phase, SeenStep, SeenMove
<1>4. ASSUME NEW w \in Workers,
             \/ Moved(w, r) \/ Fetched(w, r) \/ Forgot(w, r) \/ Called(w, r) \/ Found(w, r)
             \/ MarkedHard(w, r) \/ Told(w, r) \/ Crashed(w, r)
      PROVE  SeenStep(r)
  <2>1. DonesSame(r) /\ EngineSame(r) /\ posts'[r] = posts[r]
    BY <1>4 DEF Moved, Fetched, Forgot, Called, Found, MarkedHard, Told, Crashed, RunSame,
       CountsSame
  <2>2. (r \in killed' <=> r \in killed) /\ EarlySame(r)
    BY <1>4 DEF Moved, Fetched, Forgot, Called, Found, MarkedHard, Told, Crashed, AbortsSame,
       KillsSame
  <2> QED
    BY <2>1, <2>2, PhaseKept, AbortsSeen DEF EngineSame, SeenStep, SeenSame
<1>5. ASSUME NEW w \in Workers, Created(w, r) PROVE SeenStep(r)
  BY <1>5, PhaseKept, AbortsSeen DEF Created, CountsSame, AbortsSame, KillsSame, SeenStep,
     SeenSame
<1>6. ASSUME NEW w \in Workers, Started(w, r) PROVE SeenStep(r)
  <2>1. posts[r] = 1 /\ ~IsDone(r)
    BY <1>s, <1>6, Alone DEF Started, IsDone
  <2>2. cont[r] \notin {"running", "none"} /\ cont'[r] = "running"
    BY <1>s, <1>6 DEF Started, Present, EngineInv
  <2>3. r \notin early
    BY <1>s, <1>6 DEF Started, EarlyInv, FlagWaits, Unspawned, BeforeCheck
  <2>4. r \notin killed
    BY <1>s, <2>2 DEF KillInv
  <2>5. CancelledSame(r)
    BY <1>6, AbortsSeen DEF Started, AbortsSame, KillsSame
  <2> QED
    BY <2>1, <2>2, <2>3, <2>4, <2>5 DEF Phase, Cancelled, SeenStep, SeenMove
<1>7. ASSUME NEW w \in Workers, AttemptEnded(w, r) \/ Discarded(w, r) PROVE SeenStep(r)
  <2>1. cont[r] # "running"
    BY <1>s, <1>7 DEF AttemptEnded, Discarded, EngineInv
  <2>2. cont'[r] # "running"
    BY <1>7, <2>1 DEF AttemptEnded, Discarded, RemovalOf
  <2> QED
    BY <1>7, <2>1, <2>2, PhaseKept, AbortsSeen DEF AttemptEnded, Discarded, CountsSame,
       AbortsSame, KillsSame, SeenStep, SeenSame
<1>8. ASSUME NEW w \in Workers, Published(w, r) PROVE SeenStep(r)
  <2>1. posts[r] = 1 /\ posts'[r] = 1 /\ ~IsDone(r)
    BY <1>s, <1>8, Alone DEF Published, IsDone, CountsSame
  <2>2. cont[r] # "running" /\ cont'[r] # "running"
    BY <1>s, <1>8 DEF Published, EngineSame, EngineInv
  <2>3. IsDone(r)'
    BY <1>s, <1>8 DEF Published, TypeOK, IsDone
  <2>4. CancelledSame(r)
    BY <1>8, AbortsSeen DEF Published, AbortsSame, KillsSame
  <2> QED
    BY <2>1, <2>2, <2>3, <2>4 DEF Phase, SeenStep, SeenMove
<1>9. ASSUME NEW w \in Workers, Flagged(w, r) PROVE SeenStep(r)
  <2>1. Phase(r)' = Phase(r)
    BY <1>9, PhaseKept DEF Flagged, RunSame, EngineSame, CountsSame
  <2>2. CASE \A v \in Workers : pc[v][r] \in BeforeCheck
    <3>1. cont[r] = "none"
      BY <1>s, <2>2 DEF EarlyInv, SpawnsAfterCheck, OwnerInv
    <3>2. Phase(r) # "live"
      BY <3>1 DEF Phase
    <3>3. Cancelled(r)'
      BY <1>9, <2>2 DEF Flagged, Cancelled
    <3> QED
      BY <2>1, <3>2, <3>3 DEF SeenStep, SeenCancel
  <2>3. CASE ~\A v \in Workers : pc[v][r] \in BeforeCheck
    <3>1. CancelledSame(r)
      BY <1>9, <2>3, AbortsSeen DEF Flagged, KillsSame, EarlySame
    <3> QED
      BY <2>1, <3>1 DEF SeenStep, SeenSame
  <2> QED
    BY <2>2, <2>3
<1>10. ASSUME NEW w \in Workers, Signalled(w, r) PROVE SeenStep(r)
  <2>1. DonesSame(r) /\ posts'[r] = posts[r] /\ CancelledSame(r)
    BY <1>10, AbortsSeen DEF Signalled, RunSame, CountsSame
  <2>2. CASE cont[r] = "running" /\ cont'[r] = "exited"
    BY <1>s, <2>1, <2>2, LiveIsNotDone DEF SeenStep, SeenMove
  <2>3. CASE cont'[r] = cont[r]
    BY <2>1, <2>3, PhaseKept DEF SeenStep, SeenSame
  <2> QED
    BY <1>10, <2>2, <2>3 DEF Signalled
<1>11. ASSUME NEW w \in Workers, Removed(w, r) PROVE SeenStep(r)
  <2>1. DonesSame(r) /\ posts'[r] = posts[r] /\ Cancelled(r)'
    BY <1>11 DEF Removed, RunSame, CountsSame, Cancelled
  <2>2. cont'[r] = "none"
    BY <1>s, <1>11 DEF Removed, RemovalOf, Present, KillInv, Aiming
  <2>3. CASE cont[r] = "running"
    BY <1>s, <2>1, <2>2, <2>3, LiveIsNotDone DEF SeenStep, SeenCancel
  <2>4. CASE cont[r] # "running"
    <3>1. Phase(r)' = Phase(r) /\ Phase(r) # "live"
      BY <2>1, <2>2, <2>4, PhaseKept DEF Phase
    <3> QED
      BY <2>1, <3>1 DEF SeenStep, SeenCancel
  <2> QED
    BY <2>3, <2>4
<1> QED
  BY <1>s, StepEffect, <1>1, <1>2, <1>3, <1>4, <1>5, <1>6, <1>7, <1>8, <1>9, <1>10, <1>11
     DEF Effect

\* What one run's step is, all runs together: a step of the contract.
LEMMA SeenIsContract ==
  ASSUME TypeOK, TypeOK', NEW q \in Runs, SeenStep(q), \A r \in Runs \ {q} : SeenSame(r)
  PROVE  [Contract!Next]_(Contract!vars)
<1> DEFINE phase == [r \in Runs |-> Phase(r)]
<1> DEFINE cancelled == early \union killed
<1>t. cancelled \subseteq Runs /\ cancelled' \subseteq Runs
  BY DEF TypeOK
<1>c. \A r \in Runs : Cancelled(r) <=> r \in cancelled
  BY DEF Cancelled
<1>d. \A r \in Runs : Cancelled(r)' <=> r \in cancelled'
  BY DEF Cancelled
<1>p. phase' = [r \in Runs |-> Phase(r)']
  OBVIOUS
<1>m. ASSUME NEW from, NEW to, SeenMove(q, from, to)
      PROVE  Contract!Move(q, from, to) /\ cancelled' = cancelled
  <2>1. phase[q] = from /\ phase' = [phase EXCEPT ![q] = to]
    BY <1>m, <1>p DEF SeenMove, SeenSame
  <2>2. cancelled' = cancelled
    BY <1>t, <1>c, <1>d, <1>m DEF SeenMove, SeenSame, CancelledSame
  <2> QED
    BY <2>1, <2>2 DEF Contract!Move
<1>1. CASE SeenSame(q)
  <2>1. phase' = phase
    BY <1>1, <1>p DEF SeenSame
  <2>2. cancelled' = cancelled
    BY <1>t, <1>c, <1>d, <1>1 DEF SeenSame, CancelledSame
  <2> QED
    BY <2>1, <2>2 DEF Contract!vars
<1>2. CASE SeenMove(q, "unseen", "accepted")
  BY <1>m, <1>2 DEF Contract!Next, Contract!Accept
<1>3. CASE SeenMove(q, "accepted", "live") /\ ~Cancelled(q)
  BY <1>m, <1>3, <1>c DEF Contract!Next, Contract!Launch
<1>4. CASE SeenMove(q, "live", "accepted")
  BY <1>m, <1>4 DEF Contract!Next, Contract!Stop
<1>5. CASE SeenMove(q, "accepted", "over")
  BY <1>m, <1>5 DEF Contract!Next, Contract!Finish
<1>6. CASE SeenCancel(q)
  <2>1. phase' = IF phase[q] = "live" THEN [phase EXCEPT ![q] = "accepted"] ELSE phase
    BY <1>6, <1>p DEF SeenCancel, SeenSame
  <2>2. cancelled' = cancelled \union {q}
    BY <1>t, <1>c, <1>d, <1>6 DEF SeenCancel, SeenSame, CancelledSame
  <2> QED
    BY <2>1, <2>2 DEF Contract!Next, Contract!Cancel
<1> QED
  BY <1>1, <1>2, <1>3, <1>4, <1>5, <1>6 DEF SeenStep

\* While every run is posted once and neither Redis nor an engine call fails,
\* what agents-platform sees of the runs is a behaviour of RunContract: `done`
\* comes once and only when no container is live, nothing is launched after an
\* abort took effect.
THEOREM Implements ==
  ASSUME MaxPosts <= 1, MaxOutages = 0
  PROVE  Spec => ImplementsContract
<1>1. Init => Contract!Init
  BY DEF Init, Contract!Init, Phase, IsDone
<1> DEFINE Inv == TypeOK /\ DoneInv /\ EarlyInv /\ KilledInv /\ TaleInv /\ CallsBounded
<1>2. ASSUME Inv, Inv', [Next]_vars PROVE [Contract!Next]_(Contract!vars)
  <2>1. outages' = 0 /\ \A r \in Runs : Steady(r) /\ posts'[r] <= 1
    BY <1>2, BoundsAssumption DEF TypeOK, CallsBounded, Steady
  <2>2. \A r \in Runs : SeenStep(r)
    BY <1>2, <2>1, SeenEffect
  <2>3. ASSUME NEW r \in Runs, Elsewhere(r) \/ \E w \in Workers : Crashed(w, r)
        PROVE  SeenSame(r)
    BY <2>3, PhaseKept, AbortsSeen DEF Elsewhere, Crashed, RunSame, EngineSame, CountsSame,
       AbortsSame, KillsSame, SeenSame
  <2>4. CASE \A r \in Runs : SeenSame(r)
    <3>1. CASE Runs = {}
      <4>1. early = {} /\ killed = {} /\ early' = {} /\ killed' = {}
        BY <1>2, <3>1 DEF TypeOK
      <4> QED
        BY <3>1, <4>1 DEF Contract!vars
    <3>2. CASE Runs # {}
      BY <1>2, <2>2, <2>4, <3>2, SeenIsContract
    <3> QED
      BY <3>1, <3>2
  <2>5. ASSUME NEW q \in Runs, \A r \in Runs \ {q} : SeenSame(r)
        PROVE  [Contract!Next]_(Contract!vars)
    BY <1>2, <2>2, <2>5, SeenIsContract
  <2> QED
    BY <1>2, <2>1, <2>3, <2>4, <2>5, OneRunAtATime
<1> QED
  BY <1>1, <1>2, TypeCorrect, DoneInvHolds, EarlyInvHolds, KilledInvHolds, TaleInvHolds,
     CallsBoundedHolds, PTL DEF Spec, ImplementsContract, Contract!Spec
=============================================================================
