--------------------------- MODULE ExecIndexProofs ---------------------------
(***************************************************************************)
(* Proofs about ExecIndex, for any sets of runs, watchers and sweeping     *)
(* workers, and any number of attempts and mishaps.                        *)
(***************************************************************************)
EXTENDS ExecIndex, TLAPS

\* A sweep settles an entry it still has in its copy of the queue.
SweepsItsOwn ==
    /\ snapshot = [s \in Sweepers |-> snapshot[s]]
    /\ \A s \in Sweepers : pc[s] = "settle" => job[s].run \in DOMAIN snapshot[s]

TypeInv == TypeOK /\ SweepsItsOwn

-----------------------------------------------------------------------------
(***************************************************************************)
(* The hash.                                                               *)
(***************************************************************************)

\* A hash of entries stays one when an entry is put into it.
LEMMA PutKeepsEntries ==
    ASSUME NEW hash, NEW r \in Runs, NEW entry \in Entry,
           DOMAIN hash \subseteq Runs, Range(hash) \subseteq Entry
    PROVE  /\ DOMAIN Put(hash, r, entry) = DOMAIN hash \union {r}
           /\ DOMAIN Put(hash, r, entry) \subseteq Runs
           /\ Range(Put(hash, r, entry)) \subseteq Entry
<1>1. \A x \in DOMAIN hash : hash[x] \in Entry
  BY DEF Range
<1>2. \A x \in DOMAIN hash \union {r} : Put(hash, r, entry)[x] \in Entry
  BY <1>1 DEF Put
<1>3. DOMAIN Put(hash, r, entry) = DOMAIN hash \union {r}
  BY DEF Put
<1> QED
  BY <1>2, <1>3 DEF Range

\* ... and when one is taken out.
LEMMA RestrictKeepsEntries ==
    ASSUME NEW hash, NEW r,
           DOMAIN hash \subseteq Runs, Range(hash) \subseteq Entry
    PROVE  /\ DOMAIN Restrict(hash, DOMAIN hash \ {r}) = DOMAIN hash \ {r}
           /\ DOMAIN Restrict(hash, DOMAIN hash \ {r}) \subseteq Runs
           /\ Range(Restrict(hash, DOMAIN hash \ {r})) \subseteq Entry
<1> DEFINE less == Restrict(hash, DOMAIN hash \ {r})
<1>1. DOMAIN less = DOMAIN hash \ {r}
  BY DEF Restrict
<1>2. \A x \in DOMAIN less : less[x] = hash[x]
  BY <1>1 DEF Restrict
<1>3. \A x \in DOMAIN hash : hash[x] \in Entry
  BY DEF Range
<1>4. \A x \in DOMAIN less : less[x] \in Entry
  BY <1>1, <1>2, <1>3
<1>5. Range(less) \subseteq Entry
  BY <1>4 DEF Range
<1> QED
  BY <1>1, <1>5

\* The empty hash holds no entry.
LEMMA EmptyHash ==
    DOMAIN NoEntries = {} /\ Range(NoEntries) \subseteq Entry
<1>1. DOMAIN NoEntries = {}
  BY DEF NoEntries
<1> QED
  BY <1>1 DEF Range

\* The placeholder of a process that indexes nothing is a job.
LEMMA NoJobTypes ==
    NoJob \in [run : Runs, outcome : Reasons \union {"indexed", "off"}]
<1>1. (CHOOSE r \in Runs : TRUE) \in Runs
  BY ExecIndexAssumption
<1> QED
  BY <1>1 DEF NoJob

\* What an index_run adds, and leaves behind in its caller.
LEMMA IndexesTypes ==
    ASSUME TypeOK, NEW i \in Indexers, NEW r \in Runs, Indexes(i, r)
    PROVE  /\ stored' \subseteq Runs /\ stored \subseteq stored'
           /\ job' \in [Indexers -> [run : Runs, outcome : Reasons \union {"indexed", "off"}]]
           /\ job'[i].run = r
           /\ \A j \in Indexers : j # i => job'[j] = job[j]
           /\ job'[i].outcome = "indexed" => r \in stored'
           /\ job'[i].outcome = "gate" => r \in dull
<1>1. PICK outcome \in Reasons \union {"indexed", "off"} :
          /\ IndexRun(r, outcome)
          /\ job' = [job EXCEPT ![i] = [run |-> r, outcome |-> outcome]]
  BY DEF Indexes
<1>2. outcome = "gate" => r \in dull
  BY <1>1 DEF IndexRun, Gated, PostAll
<1>3. /\ stored' \subseteq Runs /\ stored \subseteq stored'
      /\ outcome = "indexed" => r \in stored'
  BY <1>1 DEF IndexRun, TypeOK
<1>4. [run |-> r, outcome |-> outcome] \in [run : Runs, outcome : Reasons \union {"indexed", "off"}]
  OBVIOUS
<1>5. /\ job' \in [Indexers -> [run : Runs, outcome : Reasons \union {"indexed", "off"}]]
      /\ job'[i] = [run |-> r, outcome |-> outcome]
      /\ \A j \in Indexers : j # i => job'[j] = job[j]
  BY <1>1, <1>4 DEF TypeOK
<1> QED
  BY <1>2, <1>3, <1>5

-----------------------------------------------------------------------------
(***************************************************************************)
(* Types.                                                                  *)
(***************************************************************************)
LEMMA TypeStart == Init => TypeInv
<1> SUFFICES ASSUME Init PROVE TypeInv
  OBVIOUS
<1>1. job \in [Indexers -> [run : Runs, outcome : Reasons \union {"indexed", "off"}]]
  BY NoJobTypes DEF Init
<1>2. \A s \in Sweepers : snapshot[s] = NoEntries
  BY DEF Init
<1>3. TypeOK
  BY <1>1, <1>2, EmptyHash, ExecIndexAssumption DEF Init, TypeOK, PCs
<1>4. SweepsItsOwn
  BY DEF Init, SweepsItsOwn, Indexers
<1> QED
  BY <1>3, <1>4 DEF TypeInv

\* TypeInv is kept by every step.
LEMMA TypeStep == TypeInv /\ [Next]_vars => TypeInv'
<1> SUFFICES ASSUME TypeInv, [Next]_vars PROVE TypeInv'
  OBVIOUS
<1> USE ExecIndexAssumption
<1>0. ASSUME UNCHANGED vars PROVE TypeInv'
  BY <1>0 DEF vars, platformVars, counterVars, pastVars, TypeInv, TypeOK, SweepsItsOwn
<1>1. ASSUME NEW r \in Runs, RunOver(r) PROVE TypeInv'
  BY <1>1 DEF RunOver, counterVars, pastVars, TypeInv, TypeOK, SweepsItsOwn
<1>2. ASSUME NEW r \in Runs, Finalize(r) PROVE TypeInv'
  BY <1>2 DEF Finalize, counterVars, pastVars, TypeInv, TypeOK, SweepsItsOwn
<1>3. ASSUME NEW r \in Runs, IndexCold(r) \/ Backfill(r) PROVE TypeInv'
  <2>1. IndexOnce(r)
    BY <1>3 DEF IndexCold, Backfill
  <2>2. stored' \subseteq Runs
    BY <2>1 DEF IndexOnce, IndexRun, TypeInv, TypeOK
  <2> QED
    BY <2>1, <2>2 DEF IndexOnce, platformVars, counterVars, pastVars,
                      TypeInv, TypeOK, SweepsItsOwn
<1>4. ASSUME EditSettings PROVE TypeInv'
  BY <1>4 DEF EditSettings, Mishap, platformVars, counterVars, pastVars,
              TypeInv, TypeOK, SweepsItsOwn
<1>5. ASSUME Restart PROVE TypeInv'
  <2>1. pc' \in [Indexers -> PCs]
    BY <1>5 DEF Restart, TypeInv, TypeOK, PCs
  <2>2. job' \in [Indexers -> [run : Runs, outcome : Reasons \union {"indexed", "off"}]]
    BY <1>5, NoJobTypes DEF Restart, TypeInv, TypeOK
  <2>3. /\ snapshot' = [s \in Sweepers |-> snapshot'[s]]
        /\ \A s \in Sweepers : snapshot'[s] = NoEntries
    BY <1>5 DEF Restart
  <2>4. \A s \in Sweepers : pc'[s] # "settle"
    BY <1>5 DEF Restart, TypeInv, TypeOK, PCs, Indexers
  <2>5. excused' \subseteq Warm
    BY <1>5 DEF Restart, TypeInv, TypeOK
  <2>6. TypeOK'
    BY <1>5, <2>1, <2>2, <2>3, <2>5, EmptyHash
       DEF Restart, Mishap, platformVars, counterVars, TypeInv, TypeOK
  <2> QED
    BY <2>3, <2>4, <2>6 DEF TypeInv, SweepsItsOwn
<1>6. ASSUME NEW t \in Warm, StartWatcher(t) PROVE TypeInv'
  <2>1. pc' \in [Indexers -> PCs] /\ \A s \in Sweepers : pc'[s] = pc[s]
    BY <1>6 DEF StartWatcher, TypeInv, TypeOK, PCs, Indexers
  <2>2. started' \subseteq Warm /\ excused' \subseteq Warm /\ mishaps' \in 0..MaxMishaps
    BY <1>6 DEF StartWatcher, Mishap, TypeInv, TypeOK
  <2> QED
    BY <1>6, <2>1, <2>2 DEF StartWatcher, platformVars, TypeInv, TypeOK, SweepsItsOwn
<1>7. ASSUME NEW t \in Warm, SeesDone(t) PROVE TypeInv'
  <2>1. pc' \in [Indexers -> PCs] /\ \A s \in Sweepers : pc'[s] = pc[s]
    BY <1>7 DEF SeesDone, Goes, TypeInv, TypeOK, PCs, Indexers
  <2>2. /\ stored' \subseteq Runs
        /\ job' \in [Indexers -> [run : Runs, outcome : Reasons \union {"indexed", "off"}]]
        /\ \A s \in Sweepers : job'[s] = job[s]
    BY <1>7, IndexesTypes DEF SeesDone, TypeInv, Indexers
  <2> QED
    BY <1>7, <2>1, <2>2 DEF SeesDone, platformVars, counterVars, pastVars,
                            TypeInv, TypeOK, SweepsItsOwn
<1>8. ASSUME NEW t \in Warm, WatchFails(t) PROVE TypeInv'
  <2>1. pc' \in [Indexers -> PCs] /\ \A s \in Sweepers : pc'[s] = pc[s]
    BY <1>8 DEF WatchFails, Goes, TypeInv, TypeOK, PCs, Indexers
  <2> QED
    BY <1>8, <2>1 DEF WatchFails, Mishap, platformVars, counterVars,
                      TypeInv, TypeOK, SweepsItsOwn
<1>9. ASSUME NEW t \in Warm, Settle(t) PROVE TypeInv'
  <2>1. pc' \in [Indexers -> PCs] /\ \A s \in Sweepers : pc'[s] = pc[s]
    BY <1>9 DEF Settle, Ends, TypeInv, TypeOK, PCs, Indexers
  <2>2. /\ job' \in [Indexers -> [run : Runs, outcome : Reasons \union {"indexed", "off"}]]
        /\ \A s \in Sweepers : job'[s] = job[s]
    BY <1>9, NoJobTypes DEF Settle, Ends, TypeInv, TypeOK, Indexers
  <2>3. ASSUME WorthRetry(job[t].outcome), queue' = Enqueued(RunOf[t], job[t].outcome)
        PROVE  DOMAIN queue' \subseteq Runs /\ Range(queue') \subseteq Entry
    <3>1. [tries |-> 0, why |-> job[t].outcome] \in Entry
      BY <2>3 DEF WorthRetry, Entry
    <3>2. RunOf[t] \in Runs
      OBVIOUS
    <3> QED
      BY <2>3, <3>1, <3>2, PutKeepsEntries DEF Enqueued, TypeInv, TypeOK
  <2>4. DOMAIN queue' \subseteq Runs /\ Range(queue') \subseteq Entry
    BY <1>9, <2>3 DEF Settle, TypeInv, TypeOK
  <2>5. excused' \subseteq Warm /\ mishaps' \in 0..MaxMishaps
    BY <1>9 DEF Settle, Mishap, TypeInv, TypeOK
  <2> QED
    BY <1>9, <2>1, <2>2, <2>4, <2>5 DEF Settle, platformVars, counterVars,
                                        TypeInv, TypeOK, SweepsItsOwn
<1>10. ASSUME NEW t \in Warm, Resolve(t) PROVE TypeInv'
  <2>1. pc' \in [Indexers -> PCs] /\ \A s \in Sweepers : pc'[s] = pc[s]
    BY <1>10 DEF Resolve, Goes, TypeInv, TypeOK, PCs, Indexers
  <2>2. resolved' \subseteq Warm /\ uncounted' \subseteq Warm /\ mishaps' \in 0..MaxMishaps
    BY <1>10 DEF Resolve, Mishap, TypeInv, TypeOK
  <2> QED
    BY <1>10, <2>1, <2>2 DEF Resolve, platformVars, pastVars, TypeInv, TypeOK, SweepsItsOwn
<1>11. ASSUME NEW s \in Sweepers, BeginSweep(s) PROVE TypeInv'
  <2>1. /\ pc' \in [Indexers -> PCs] /\ pc'[s] = "next"
        /\ \A x \in Sweepers : x # s => pc'[x] = pc[x]
    BY <1>11 DEF BeginSweep, TypeInv, TypeOK, PCs, Indexers
  <2>2. /\ snapshot' = [x \in Sweepers |-> snapshot'[x]]
        /\ \A x \in Sweepers : snapshot'[x] = IF x = s THEN queue ELSE snapshot[x]
    BY <1>11 DEF BeginSweep, TypeInv, SweepsItsOwn
  <2>3. TypeOK'
    BY <1>11, <2>1, <2>2 DEF BeginSweep, platformVars, counterVars, TypeInv, TypeOK
  <2>4. SweepsItsOwn'
    BY <1>11, <2>1, <2>2 DEF BeginSweep, TypeInv, SweepsItsOwn
  <2> QED
    BY <2>3, <2>4 DEF TypeInv
<1>12. ASSUME NEW s \in Sweepers, SweepEntry(s) PROVE TypeInv'
  <2>1. /\ pc' \in [Indexers -> PCs]
        /\ \A x \in Sweepers : x # s => pc'[x] = pc[x]
    BY <1>12 DEF SweepEntry, Goes, TypeInv, TypeOK, PCs, Indexers
  <2>2. PICK r \in DOMAIN snapshot[s] : Indexes(s, r)
    BY <1>12 DEF SweepEntry
  <2>3. /\ stored' \subseteq Runs
        /\ job' \in [Indexers -> [run : Runs, outcome : Reasons \union {"indexed", "off"}]]
        /\ job'[s].run = r
        /\ \A x \in Sweepers : x # s => job'[x] = job[x]
    BY <2>2, IndexesTypes DEF TypeInv, TypeOK, Indexers
  <2>4. TypeOK'
    BY <1>12, <2>1, <2>3 DEF SweepEntry, platformVars, counterVars, pastVars, TypeInv, TypeOK
  <2>5. SweepsItsOwn'
    BY <1>12, <2>1, <2>3 DEF SweepEntry, TypeInv, SweepsItsOwn
  <2> QED
    BY <2>4, <2>5 DEF TypeInv
<1>13. ASSUME NEW s \in Sweepers, SweepSettle(s) PROVE TypeInv'
  <2> DEFINE r == job[s].run
             entry == snapshot[s][r]
  <2>1. /\ pc' \in [Indexers -> PCs] /\ pc'[s] = "next"
        /\ \A x \in Sweepers : x # s => pc'[x] = pc[x]
    BY <1>13 DEF SweepSettle, Ends, TypeInv, TypeOK, PCs, Indexers
  <2>2. /\ job' \in [Indexers -> [run : Runs, outcome : Reasons \union {"indexed", "off"}]]
        /\ \A x \in Sweepers : x # s => job'[x] = job[x]
    BY <1>13, NoJobTypes DEF SweepSettle, Ends, TypeInv, TypeOK, Indexers
  <2>3. /\ snapshot' = [x \in Sweepers |-> snapshot'[x]]
        /\ snapshot'[s] = Restrict(snapshot[s], DOMAIN snapshot[s] \ {r})
        /\ \A x \in Sweepers : x # s => snapshot'[x] = snapshot[x]
    BY <1>13 DEF SweepSettle, TypeInv, SweepsItsOwn
  <2>4. \A x \in Sweepers : DOMAIN snapshot'[x] \subseteq Runs /\ Range(snapshot'[x]) \subseteq Entry
    <3>1. \A x \in Sweepers : DOMAIN snapshot[x] \subseteq Runs /\ Range(snapshot[x]) \subseteq Entry
      BY DEF TypeInv, TypeOK
    <3>2. DOMAIN snapshot'[s] \subseteq Runs /\ Range(snapshot'[s]) \subseteq Entry
      <4>1. \A hash : DOMAIN hash \subseteq Runs /\ Range(hash) \subseteq Entry
                => /\ DOMAIN Restrict(hash, DOMAIN hash \ {r}) \subseteq Runs
                   /\ Range(Restrict(hash, DOMAIN hash \ {r})) \subseteq Entry
        BY RestrictKeepsEntries
      <4>2. /\ DOMAIN Restrict(snapshot[s], DOMAIN snapshot[s] \ {r}) \subseteq Runs
            /\ Range(Restrict(snapshot[s], DOMAIN snapshot[s] \ {r})) \subseteq Entry
        BY <3>1, <4>1
      <4> QED
        BY <2>3, <4>2
    <3> QED
      BY <2>3, <3>1, <3>2
  <2>5. r \in DOMAIN snapshot[s] /\ r \in Runs /\ entry \in Entry
    BY <1>13 DEF SweepSettle, TypeInv, TypeOK, SweepsItsOwn, Range
  <2>6. DOMAIN queue' \subseteq Runs /\ Range(queue') \subseteq Entry
    <3>1. CASE queue' = Dequeued(r)
      BY <3>1, RestrictKeepsEntries DEF Dequeued, TypeInv, TypeOK
    <3>2. CASE /\ ~GivesUp(NextTries(entry))
               /\ queue' = Put(queue, r, [entry EXCEPT !.tries = NextTries(entry)])
      <4>1. entry.tries \in 0..(MaxAttempts - 1) /\ NextTries(entry) = entry.tries + 1
        BY <2>5 DEF Entry, NextTries
      <4>2. NextTries(entry) \in 0..(MaxAttempts - 1)
        BY <3>2, <4>1 DEF GivesUp
      <4>3. [entry EXCEPT !.tries = NextTries(entry)] \in Entry
        BY <2>5, <4>2 DEF Entry
      <4> QED
        BY <2>5, <3>2, <4>3, PutKeepsEntries DEF TypeInv, TypeOK
    <3> QED
      BY <1>13, <3>1, <3>2 DEF SweepSettle
  <2>7. givenUp' \subseteq Runs
    BY <1>13, <2>5 DEF SweepSettle, TypeInv, TypeOK
  <2>8. TypeOK'
    BY <1>13, <2>1, <2>2, <2>4, <2>6, <2>7
       DEF SweepSettle, platformVars, counterVars, TypeInv, TypeOK
  <2>9. SweepsItsOwn'
    BY <2>1, <2>2, <2>3 DEF TypeInv, SweepsItsOwn
  <2> QED
    BY <2>8, <2>9 DEF TypeInv
<1>14. ASSUME NEW s \in Sweepers, SweepBreaks(s) PROVE TypeInv'
  <2>1. /\ pc' \in [Indexers -> PCs] /\ pc'[s] = "none"
        /\ \A x \in Sweepers : x # s => pc'[x] = pc[x]
    BY <1>14 DEF SweepBreaks, Ends, TypeInv, TypeOK, PCs, Indexers
  <2>2. /\ job' \in [Indexers -> [run : Runs, outcome : Reasons \union {"indexed", "off"}]]
        /\ \A x \in Sweepers : x # s => job'[x] = job[x]
    BY <1>14, NoJobTypes DEF SweepBreaks, Ends, TypeInv, TypeOK, Indexers
  <2>3. /\ snapshot' = [x \in Sweepers |-> snapshot'[x]]
        /\ \A x \in Sweepers : snapshot'[x] = IF x = s THEN NoEntries ELSE snapshot[x]
    BY <1>14 DEF SweepBreaks, TypeInv, SweepsItsOwn
  <2>4. TypeOK'
    BY <1>14, <2>1, <2>2, <2>3, EmptyHash
       DEF SweepBreaks, Mishap, platformVars, counterVars, pastVars, TypeInv, TypeOK
  <2>5. SweepsItsOwn'
    BY <2>1, <2>2, <2>3 DEF TypeInv, SweepsItsOwn
  <2> QED
    BY <2>4, <2>5 DEF TypeInv
<1>15. ASSUME NEW s \in Sweepers, EndSweep(s) PROVE TypeInv'
  <2>1. /\ pc' \in [Indexers -> PCs] /\ pc'[s] = "none"
        /\ \A x \in Sweepers : x # s => pc'[x] = pc[x]
    BY <1>15 DEF EndSweep, Goes, TypeInv, TypeOK, PCs, Indexers
  <2> QED
    BY <1>15, <2>1 DEF EndSweep, platformVars, counterVars, pastVars,
                       TypeInv, TypeOK, SweepsItsOwn
<1> QED
  BY <1>0, <1>1, <1>2, <1>3, <1>4, <1>5, <1>6, <1>7, <1>8, <1>9, <1>10, <1>11, <1>12,
     <1>13, <1>14, <1>15 DEF Next, WatcherStep, SweepStep

\* Every variable of ExecIndex keeps its type: above all, an entry of the retry
\* queue never carries as many attempts as end it, whatever sweeps overlap.
THEOREM TypeCorrect == Spec => []TypeOK
<1>1. TypeInv => TypeOK
  BY DEF TypeInv
<1> QED
  BY <1>1, TypeStart, TypeStep, PTL DEF Spec

-----------------------------------------------------------------------------
(***************************************************************************)
(* No run slips through.                                                   *)
(***************************************************************************)

\* Where a finished run may be.
Placed(r) == r \in stored \/ r \in dull \/ r \in DOMAIN queue \/ r \in givenUp

\* An outcome that waits to be acted on says what was done to its run.
OutcomeIsTrue ==
    \A i \in Indexers : pc[i] = "settle" =>
        /\ job[i].outcome = "indexed" => job[i].run \in stored
        /\ job[i].outcome = "gate" => job[i].run \in dull

\* A watcher settles the run it follows.
OwnRun == \A t \in Warm : pc[t] = "settle" => job[t].run = RunOf[t]

\* What a watcher has settled is placed.
SettledIsPlaced ==
    \A t \in Warm \ excused : pc[t] \in {"resolve", "over"} => Placed(RunOf[t])

SlipInv == OutcomeIsTrue /\ OwnRun /\ SettledIsPlaced

\* Nothing but its place and the watchers' progress decides on SettledIsPlaced.
LEMMA StaysPlaced ==
    ASSUME SettledIsPlaced, excused \subseteq excused',
           \A r \in Runs : Placed(r) => Placed(r)',
           \A t \in Warm \ excused' : pc'[t] \in {"resolve", "over"} =>
               pc[t] \in {"resolve", "over"} \/ Placed(RunOf[t])'
    PROVE  SettledIsPlaced'
<1>1. \A t \in Warm : RunOf[t] \in Runs
  BY ExecIndexAssumption
<1> SUFFICES ASSUME NEW t \in Warm \ excused', pc'[t] \in {"resolve", "over"}
             PROVE  Placed(RunOf[t])'
  BY DEF SettledIsPlaced
<1>2. CASE pc[t] \in {"resolve", "over"}
  <2>1. Placed(RunOf[t])
    BY <1>2 DEF SettledIsPlaced
  <2> QED
    BY <1>1, <2>1
<1> QED
  BY <1>2

\* SlipInv holds at the start.
LEMMA SlipStart == Init => SlipInv
  BY DEF Init, SlipInv, OutcomeIsTrue, OwnRun, SettledIsPlaced, Indexers

\* SlipInv is kept by every step.
LEMMA SlipStep == TypeInv /\ SlipInv /\ [Next]_vars => SlipInv'
<1> SUFFICES ASSUME TypeInv, SlipInv, [Next]_vars PROVE SlipInv'
  OBVIOUS
<1> USE ExecIndexAssumption
<1>0. ASSUME UNCHANGED <<pc, job, dull, queue, givenUp>>, stored \subseteq stored',
             excused \subseteq excused'
      PROVE  SlipInv'
  <2>1. \A r \in Runs : Placed(r) => Placed(r)'
    BY <1>0 DEF Placed
  <2>2. SettledIsPlaced'
    BY <1>0, <2>1, StaysPlaced DEF SlipInv
  <2> QED
    BY <1>0, <2>2 DEF SlipInv, OutcomeIsTrue, OwnRun
<1>1. ASSUME UNCHANGED vars PROVE SlipInv'
  BY <1>0, <1>1 DEF vars, platformVars, pastVars
<1>2. ASSUME NEW r \in Runs, RunOver(r) \/ Finalize(r) PROVE SlipInv'
  BY <1>0, <1>2 DEF RunOver, Finalize, pastVars
<1>3. ASSUME NEW r \in Runs, IndexCold(r) \/ Backfill(r) PROVE SlipInv'
  <2>1. IndexOnce(r)
    BY <1>3 DEF IndexCold, Backfill
  <2>2. stored \subseteq stored'
    BY <2>1 DEF IndexOnce, IndexRun
  <2> QED
    BY <1>0, <2>1, <2>2 DEF IndexOnce, platformVars, pastVars
<1>4. ASSUME EditSettings PROVE SlipInv'
  BY <1>0, <1>4 DEF EditSettings, platformVars, pastVars
<1>5. ASSUME Restart PROVE SlipInv'
  <2>1. \A i \in Indexers : pc'[i] # "settle"
    BY <1>5 DEF Restart, TypeInv, TypeOK, PCs
  <2>2. \A t \in Warm \ excused' : pc'[t] \in {"resolve", "over"} => pc[t] \in {"resolve", "over"}
    BY <1>5 DEF Restart, TypeInv, TypeOK, PCs, Indexers
  <2>3. excused \subseteq excused' /\ \A r \in Runs : Placed(r) => Placed(r)'
    BY <1>5 DEF Restart, platformVars, Placed
  <2>4. SettledIsPlaced'
    BY <2>2, <2>3, StaysPlaced DEF SlipInv
  <2> QED
    BY <2>1, <2>4 DEF SlipInv, OutcomeIsTrue, OwnRun, Indexers
<1>6. ASSUME NEW t \in Warm, StartWatcher(t) PROVE SlipInv'
  <2>1. /\ pc[t] = "none" /\ pc'[t] \in {"watch", "over"}
        /\ pc'[t] = "over" => t \in excused'
        /\ \A i \in Indexers : i # t => pc'[i] = pc[i]
    BY <1>6 DEF StartWatcher, TypeInv, TypeOK, Indexers
  <2>2. /\ excused \subseteq excused' /\ \A r \in Runs : Placed(r) => Placed(r)'
        /\ UNCHANGED <<job, stored, dull>>
    BY <1>6 DEF StartWatcher, platformVars, Placed
  <2>3. SettledIsPlaced'
    BY <2>1, <2>2, StaysPlaced DEF SlipInv, Indexers
  <2> QED
    BY <2>1, <2>2, <2>3 DEF SlipInv, OutcomeIsTrue, OwnRun, Indexers
<1>7. ASSUME NEW t \in Warm, SeesDone(t) PROVE SlipInv'
  <2>1. /\ pc'[t] = "settle" /\ \A i \in Indexers : i # t => pc'[i] = pc[i]
    BY <1>7 DEF SeesDone, Goes, TypeInv, TypeOK, Indexers
  <2>2. /\ stored \subseteq stored' /\ job'[t].run = RunOf[t]
        /\ \A i \in Indexers : i # t => job'[i] = job[i]
        /\ job'[t].outcome = "indexed" => RunOf[t] \in stored'
        /\ job'[t].outcome = "gate" => RunOf[t] \in dull
    BY <1>7, IndexesTypes DEF SeesDone, TypeInv, Indexers
  <2>3. UNCHANGED <<dull, queue, givenUp, excused>>
    BY <1>7 DEF SeesDone, platformVars, pastVars
  <2>4. \A r \in Runs : Placed(r) => Placed(r)'
    BY <2>2, <2>3 DEF Placed
  <2>5. SettledIsPlaced'
    BY <2>1, <2>3, <2>4, StaysPlaced DEF SlipInv, Indexers
  <2> QED
    BY <2>1, <2>2, <2>3, <2>5 DEF SlipInv, OutcomeIsTrue, OwnRun, Indexers
<1>8. ASSUME NEW t \in Warm, WatchFails(t) PROVE SlipInv'
  <2>1. /\ pc'[t] = "resolve" /\ \A i \in Indexers : i # t => pc'[i] = pc[i]
    BY <1>8 DEF WatchFails, Goes, TypeInv, TypeOK, Indexers
  <2>2. /\ excused' = excused \union {t} /\ UNCHANGED <<job, dull, stored, queue, givenUp>>
    BY <1>8 DEF WatchFails, platformVars
  <2>3. \A r \in Runs : Placed(r) => Placed(r)'
    BY <2>2 DEF Placed
  <2>4. SettledIsPlaced'
    BY <2>1, <2>2, <2>3, StaysPlaced DEF SlipInv, Indexers
  <2> QED
    BY <2>1, <2>2, <2>4 DEF SlipInv, OutcomeIsTrue, OwnRun, Indexers
<1>9. ASSUME NEW t \in Warm, Settle(t) PROVE SlipInv'
  <2>1. /\ pc[t] = "settle" /\ pc'[t] = "resolve"
        /\ \A i \in Indexers : i # t => pc'[i] = pc[i] /\ job'[i] = job[i]
    BY <1>9 DEF Settle, Ends, TypeInv, TypeOK, Indexers
  <2>2. /\ UNCHANGED <<dull, stored, givenUp>> /\ excused \subseteq excused'
    BY <1>9 DEF Settle, platformVars
  <2>3. DOMAIN queue \subseteq DOMAIN queue'
    BY <1>9 DEF Settle, Enqueued, Put
  <2>4. \A r \in Runs : Placed(r) => Placed(r)'
    BY <2>2, <2>3 DEF Placed
  <2>5. t \notin excused' => Placed(RunOf[t])'
    <3>1. CASE WorthRetry(job[t].outcome) /\ queue' = Enqueued(RunOf[t], job[t].outcome)
      <4>1. RunOf[t] \in DOMAIN queue'
        BY <3>1 DEF Enqueued, Put
      <4> QED
        BY <4>1 DEF Placed
    <3>2. CASE ~WorthRetry(job[t].outcome)
               /\ excused' = IF job[t].outcome = "off" THEN excused \union {t} ELSE excused
      <4>1. job[t].outcome \in {"gate", "indexed", "off"}
        BY <3>2 DEF WorthRetry, TypeInv, TypeOK, Reasons, Indexers
      <4>2. /\ job[t].outcome = "indexed" => RunOf[t] \in stored
            /\ job[t].outcome = "gate" => RunOf[t] \in dull
        BY <2>1 DEF SlipInv, OutcomeIsTrue, OwnRun, Indexers
      <4> QED
        BY <2>2, <3>2, <4>1, <4>2 DEF Placed
    <3>3. CASE excused' = excused \union {t}
      BY <3>3
    <3> QED
      BY <1>9, <3>1, <3>2, <3>3 DEF Settle
  <2>6. SettledIsPlaced'
    BY <2>1, <2>2, <2>4, <2>5, StaysPlaced DEF SlipInv, Indexers
  <2> QED
    BY <2>1, <2>2, <2>6 DEF SlipInv, OutcomeIsTrue, OwnRun, Indexers
<1>10. ASSUME NEW t \in Warm, Resolve(t) PROVE SlipInv'
  <2>1. /\ pc[t] = "resolve" /\ pc'[t] = "over"
        /\ \A i \in Indexers : i # t => pc'[i] = pc[i]
    BY <1>10 DEF Resolve, Goes, TypeInv, TypeOK, Indexers
  <2>2. UNCHANGED <<job, dull, stored, queue, givenUp, excused>>
    BY <1>10 DEF Resolve, platformVars, pastVars
  <2>3. \A r \in Runs : Placed(r) => Placed(r)'
    BY <2>2 DEF Placed
  <2>4. SettledIsPlaced'
    BY <2>1, <2>2, <2>3, StaysPlaced DEF SlipInv, Indexers
  <2> QED
    BY <2>1, <2>2, <2>4 DEF SlipInv, OutcomeIsTrue, OwnRun, Indexers
<1>11. ASSUME NEW s \in Sweepers, pc'[s] # "settle", UNCHANGED <<dull, stored, excused>>,
              \A i \in Indexers : i # s => pc'[i] = pc[i] /\ job'[i] = job[i],
              \A r \in Runs : Placed(r) => Placed(r)'
       PROVE  SlipInv'
  <2>1. \A t \in Warm : pc'[t] = pc[t] /\ job'[t] = job[t]
    BY <1>11 DEF Indexers
  <2>2. SettledIsPlaced'
    BY <1>11, <2>1, StaysPlaced DEF SlipInv
  <2> QED
    BY <1>11, <2>1, <2>2 DEF SlipInv, OutcomeIsTrue, OwnRun, Indexers
<1>12. ASSUME NEW s \in Sweepers, BeginSweep(s) PROVE SlipInv'
  <2>1. /\ pc'[s] # "settle" /\ UNCHANGED <<dull, stored, excused, queue, givenUp>>
        /\ \A i \in Indexers : i # s => pc'[i] = pc[i] /\ job'[i] = job[i]
    BY <1>12 DEF BeginSweep, platformVars, TypeInv, TypeOK, Indexers
  <2> QED
    BY <1>11, <2>1 DEF Placed
<1>13. ASSUME NEW s \in Sweepers, SweepEntry(s) PROVE SlipInv'
  <2>1. PICK r \in DOMAIN snapshot[s] : Indexes(s, r)
    BY <1>13 DEF SweepEntry
  <2>2. /\ stored \subseteq stored' /\ job'[s].run = r
        /\ \A i \in Indexers : i # s => job'[i] = job[i]
        /\ job'[s].outcome = "indexed" => r \in stored'
        /\ job'[s].outcome = "gate" => r \in dull
    BY <2>1, IndexesTypes DEF TypeInv, TypeOK, Indexers
  <2>3. /\ \A i \in Indexers : i # s => pc'[i] = pc[i]
        /\ UNCHANGED <<dull, queue, givenUp, excused>>
    BY <1>13 DEF SweepEntry, Goes, platformVars, pastVars, TypeInv, TypeOK, Indexers
  <2>4. \A t \in Warm : pc'[t] = pc[t] /\ job'[t] = job[t]
    BY <2>2, <2>3 DEF Indexers
  <2>5. \A q \in Runs : Placed(q) => Placed(q)'
    BY <2>2, <2>3 DEF Placed
  <2>6. SettledIsPlaced'
    BY <2>3, <2>4, <2>5, StaysPlaced DEF SlipInv
  <2>7. OutcomeIsTrue'
    BY <2>2, <2>3 DEF SlipInv, OutcomeIsTrue
  <2> QED
    BY <2>4, <2>6, <2>7 DEF SlipInv, OwnRun
<1>14. ASSUME NEW s \in Sweepers, SweepSettle(s) PROVE SlipInv'
  <2>0. PICK r \in Runs : r = job[s].run
    BY DEF TypeInv, TypeOK, Indexers
  <2> DEFINE entry == snapshot[s][r]
             tries == NextTries(entry)
  <2>1. /\ pc[s] = "settle" /\ pc'[s] = "next"
        /\ \A i \in Indexers : i # s => pc'[i] = pc[i] /\ job'[i] = job[i]
    BY <1>14 DEF SweepSettle, Ends, TypeInv, TypeOK, Indexers
  <2>2. UNCHANGED <<dull, stored, excused>> /\ givenUp \subseteq givenUp'
    BY <1>14 DEF SweepSettle, platformVars
  <2>3. \A q \in DOMAIN queue : q # r => q \in DOMAIN queue'
    BY <1>14, <2>0 DEF SweepSettle, Dequeued, Restrict, Put
  <2>4. Placed(r)'
    <3>1. CASE job[s].outcome \in {"indexed", "gate"}
      BY <2>0, <2>1, <2>2, <3>1 DEF SlipInv, OutcomeIsTrue, Placed, Indexers
    <3>2. CASE job[s].outcome \notin {"indexed", "gate"} /\ GivesUp(tries)
      BY <1>14, <2>0, <3>2 DEF SweepSettle, Placed
    <3>3. CASE job[s].outcome \notin {"indexed", "gate"} /\ ~GivesUp(tries)
      BY <1>14, <2>0, <3>3 DEF SweepSettle, Placed, Put
    <3> QED
      BY <3>1, <3>2, <3>3
  <2>5. \A q \in Runs : Placed(q) => Placed(q)'
    BY <2>2, <2>3, <2>4 DEF Placed
  <2> QED
    BY <1>11, <2>1, <2>2, <2>5
<1>15. ASSUME NEW s \in Sweepers, SweepBreaks(s) \/ EndSweep(s) PROVE SlipInv'
  <2>1. /\ pc'[s] # "settle" /\ UNCHANGED <<dull, stored, excused, queue, givenUp>>
        /\ \A i \in Indexers : i # s => pc'[i] = pc[i] /\ job'[i] = job[i]
    BY <1>15 DEF SweepBreaks, EndSweep, Ends, Goes, platformVars, pastVars,
                 TypeInv, TypeOK, Indexers
  <2> QED
    BY <1>11, <2>1 DEF Placed
<1> QED
  BY <1>1, <1>2, <1>3, <1>4, <1>5, <1>6, <1>7, <1>8, <1>9, <1>10, <1>12, <1>13,
     <1>14, <1>15 DEF Next, WatcherStep, SweepStep

\* A finished warm run is in an index, gated out, queued or given up, whatever
\* watchers, sweeps and scripts worked on it and whatever failed.
THEOREM NothingSlipsThrough == Spec => []NothingSlips
<1>1. SlipInv => NothingSlips
  BY DEF SlipInv, SettledIsPlaced, Placed, NothingSlips
<1> QED
  BY <1>1, TypeStart, TypeStep, SlipStart, SlipStep, PTL DEF Spec

-----------------------------------------------------------------------------
(***************************************************************************)
(* The doctor's gap.                                                       *)
(***************************************************************************)
LEMMA GapStep == TypeInv /\ GapIsKills /\ [Next]_vars => GapIsKills'
<1> SUFFICES ASSUME TypeInv, GapIsKills, [Next]_vars, NEW t \in Gap', pc'[t] = "over"
             PROVE  t \in excused' \/ t \in uncounted'
  BY DEF GapIsKills
<1>1. t \in Warm /\ t \in Indexers
  BY TypeStep DEF TypeInv, TypeOK, Gap, Indexers
<1>2. ASSUME UNCHANGED <<started, resolved>>, pc'[t] = pc[t],
             excused \subseteq excused', uncounted \subseteq uncounted'
      PROVE  t \in excused' \/ t \in uncounted'
  BY <1>2 DEF GapIsKills, Gap
<1>3. CASE UNCHANGED vars
  BY <1>2, <1>3 DEF vars, counterVars, pastVars
<1>4. ASSUME NEW r \in Runs, RunOver(r) \/ Finalize(r) \/ IndexCold(r) \/ Backfill(r)
      PROVE  t \in excused' \/ t \in uncounted'
  BY <1>2, <1>4 DEF RunOver, Finalize, IndexCold, Backfill, IndexOnce, counterVars, pastVars
<1>5. CASE EditSettings
  BY <1>2, <1>5 DEF EditSettings, counterVars, pastVars
<1>6. CASE Restart
  <2>1. CASE pc[t] = "over"
    BY <1>2, <1>6, <2>1 DEF Restart, counterVars
  <2>2. CASE pc[t] # "over"
    BY <1>1, <1>6, <2>2 DEF Restart, TypeInv, TypeOK
  <2> QED
    BY <2>1, <2>2
<1>7. ASSUME NEW x \in Warm, StartWatcher(x) PROVE t \in excused' \/ t \in uncounted'
  <2>1. CASE x = t
    BY <1>1, <1>7, <2>1 DEF StartWatcher, TypeInv, TypeOK
  <2>2. CASE x # t
    <3>1. pc'[t] = pc[t] /\ t \in Gap /\ excused \subseteq excused' /\ uncounted' = uncounted
      BY <1>1, <1>7, <2>2 DEF StartWatcher, Gap, TypeInv, TypeOK
    <3> QED
      BY <3>1 DEF GapIsKills
  <2> QED
    BY <2>1, <2>2
<1>8. ASSUME NEW x \in Warm, SeesDone(x) \/ WatchFails(x) \/ Settle(x)
      PROVE  t \in excused' \/ t \in uncounted'
  <2>1. pc'[t] = pc[t]
    BY <1>1, <1>8 DEF SeesDone, WatchFails, Settle, Goes, Ends, TypeInv, TypeOK, Indexers
  <2>2. UNCHANGED <<started, resolved, uncounted>> /\ excused \subseteq excused'
    BY <1>8 DEF SeesDone, WatchFails, Settle, counterVars, pastVars
  <2> QED
    BY <1>2, <2>1, <2>2
<1>9. ASSUME NEW x \in Warm, Resolve(x) PROVE t \in excused' \/ t \in uncounted'
  <2>1. CASE x = t
    BY <1>9, <2>1 DEF Resolve, Gap
  <2>2. CASE x # t
    <3>1. pc'[t] = pc[t] /\ t \in Gap /\ excused' = excused /\ uncounted \subseteq uncounted'
      BY <1>1, <1>9, <2>2 DEF Resolve, Goes, Gap, pastVars, TypeInv, TypeOK
    <3> QED
      BY <3>1 DEF GapIsKills
  <2> QED
    BY <2>1, <2>2
<1>10. ASSUME NEW s \in Sweepers, BeginSweep(s) \/ SweepStep(s) \/ SweepBreaks(s)
       PROVE  t \in excused' \/ t \in uncounted'
  <2>1. s # t
    BY <1>1, ExecIndexAssumption
  <2>2. pc'[t] = pc[t]
    BY <1>1, <1>10, <2>1 DEF BeginSweep, SweepStep, SweepEntry, SweepSettle, EndSweep,
                             SweepBreaks, Goes, Ends, TypeInv, TypeOK
  <2>3. UNCHANGED <<started, resolved, uncounted, excused>>
    BY <1>10 DEF BeginSweep, SweepStep, SweepEntry, SweepSettle, EndSweep, SweepBreaks,
                 counterVars, pastVars
  <2> QED
    BY <1>2, <2>2, <2>3
<1> QED
  BY <1>3, <1>4, <1>5, <1>6, <1>7, <1>8, <1>9, <1>10 DEF Next, WatcherStep

\* What the doctor subtracts really are watchers that live, were killed, or
\* whose end Redis did not count.
THEOREM GapHolds == Spec => []GapIsKills
<1>1. Init => GapIsKills
  BY DEF Init, GapIsKills, Gap
<1> QED
  BY <1>1, TypeStart, TypeStep, GapStep, PTL DEF Spec
=============================================================================
