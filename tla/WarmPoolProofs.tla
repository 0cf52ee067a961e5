---------------------------- MODULE WarmPoolProofs ----------------------------
(***************************************************************************)
(* Proofs about WarmPool, for any number of turns, sessions, workers and   *)
(* sweeps: type correctness, that a graceful drain truncates no turn, that *)
(* a turn is served by its own generation, and the bound on the overshoot  *)
(* of the ceiling.                                                         *)
(***************************************************************************)
EXTENDS WarmPool, FiniteSetTheorems, TLAPS

-----------------------------------------------------------------------------
(***************************************************************************)
(* What the helpers of the model do to the variables.                      *)
(***************************************************************************)

\* A turn goes on.
LEMMA StepEffect ==
  ASSUME TypeOK, NEW t \in Turns, NEW from, NEW to \in PCs, Step(t, from, to)
  PROVE  /\ pc' \in [Turns -> PCs] /\ pc[t] = from /\ pc'[t] = to
         /\ \A u \in Turns \ {t} : pc'[u] = pc[u]
BY DEF TypeOK, Step

\* A session lock is taken or given back.
LEMMA LockEffect ==
  ASSUME TypeOK, NEW w, NEW s, NEW h \in Turns \union {None}, lock' = [lock EXCEPT ![w][s] = h]
  PROVE  lock' \in [Workers -> [Sessions -> Turns \union {None}]]
<1>1. \A v \in Workers : lock'[v] = IF v = w THEN [lock[v] EXCEPT ![s] = h] ELSE lock[v]
  BY DEF TypeOK
<1>2. \A v \in Workers : lock[v] \in [Sessions -> Turns \union {None}]
  BY DEF TypeOK
<1>3. \A v \in Workers : [lock[v] EXCEPT ![s] = h] \in [Sessions -> Turns \union {None}]
  BY <1>2
<1>4. \A v \in Workers : lock'[v] \in [Sessions -> Turns \union {None}]
  BY <1>1, <1>2, <1>3
<1>5. lock' = [v \in Workers |-> lock'[v]]
  BY DEF TypeOK
<1> QED
  BY <1>4, <1>5

\* One container changes.
LEMMA PoolEffect ==
  ASSUME TypeOK, NEW c \in Turns, NEW r \in Containers, pool' = [pool EXCEPT ![c] = r]
  PROVE  /\ pool' \in [Turns -> Containers] /\ pool'[c] = r
         /\ \A d \in Turns \ {c} : pool'[d] = pool[d]
BY DEF TypeOK

\* The records that the steps make of a container.
LEMMA ContainerTypes ==
  ASSUME TypeOK, NEW c \in Turns
  PROVE  /\ pool[c] \in Containers /\ NoContainer \in Containers
         /\ [pool[c] EXCEPT !.name = "draining"] \in Containers
         /\ [pool[c] EXCEPT !.flag = TRUE] \in Containers
         /\ [pool[c] EXCEPT !.overdue = TRUE] \in Containers
         /\ [pool[c] EXCEPT !.serving = None] \in Containers
         /\ \A state \in {"created", "running", "ending", "closing", "exited"} :
               [pool[c] EXCEPT !.state = state] \in Containers
         /\ [pool[c] EXCEPT !.state = "closing", !.inbox = {}] \in Containers
         /\ [pool[c] EXCEPT !.state = "closing", !.inbox = {}, !.serving = None] \in Containers
         /\ pool[c].age < 2 => [pool[c] EXCEPT !.age = @ + 1] \in Containers
         /\ \A t \in Turns : [pool[c] EXCEPT !.inbox = @ \union {t}] \in Containers
         /\ \A t \in Turns :
               [pool[c] EXCEPT !.serving = t, !.inbox = @ \ {t}] \in Containers
         /\ \A b \in BOOLEAN :
               [pool[c] EXCEPT !.name = "draining", !.flag = @ \/ b] \in Containers
<1>1. pool[c] \in Containers
  BY DEF TypeOK
<1>2. NoContainer \in Containers
  BY DEF Containers, NoContainer
<1>3. ASSUME NEW r \in Containers
      PROVE  /\ [r EXCEPT !.name = "draining"] \in Containers
             /\ [r EXCEPT !.flag = TRUE] \in Containers
             /\ [r EXCEPT !.overdue = TRUE] \in Containers
             /\ [r EXCEPT !.serving = None] \in Containers
             /\ \A state \in {"created", "running", "ending", "closing", "exited"} :
                   [r EXCEPT !.state = state] \in Containers
  BY DEF Containers
<1>4. ASSUME NEW r \in Containers
      PROVE  /\ [r EXCEPT !.state = "closing", !.inbox = {}] \in Containers
             /\ [r EXCEPT !.state = "closing", !.inbox = {}, !.serving = None] \in Containers
  BY DEF Containers
<1>5. ASSUME NEW r \in Containers, r.age < 2
      PROVE  [r EXCEPT !.age = @ + 1] \in Containers
  <2>1. r.age + 1 \in 0..2
    BY <1>5 DEF Containers
  <2> QED
    BY <1>5, <2>1 DEF Containers
<1>6. ASSUME NEW r \in Containers, NEW t \in Turns
      PROVE  [r EXCEPT !.inbox = @ \union {t}] \in Containers
  <2>1. r.inbox \union {t} \in SUBSET Turns
    BY DEF Containers
  <2> QED
    BY <2>1 DEF Containers
<1>7. ASSUME NEW r \in Containers, NEW t \in Turns
      PROVE  [r EXCEPT !.serving = t, !.inbox = @ \ {t}] \in Containers
  <2>1. r.inbox \ {t} \in SUBSET Turns
    BY DEF Containers
  <2> QED
    BY <2>1 DEF Containers
<1>8. ASSUME NEW r \in Containers, NEW b \in BOOLEAN
      PROVE  [r EXCEPT !.name = "draining", !.flag = @ \/ b] \in Containers
  <2>1. (r.flag \/ b) \in BOOLEAN
    OBVIOUS
  <2> QED
    BY <2>1 DEF Containers
<1> QED
  BY <1>1, <1>2, <1>3, <1>4, <1>5, <1>6, <1>7, <1>8

\* remove(force=True) leaves no trace of a container.
LEMMA DiscardEffect ==
  ASSUME TypeOK, NEW C \in SUBSET Turns, Discard(C)
  PROVE  /\ pool' \in [Turns -> Containers] /\ kept' \in SUBSET Turns
         /\ \A c \in Turns : pool'[c] = IF c \in C THEN NoContainer ELSE pool[c]
BY ContainerTypes DEF TypeOK, Discard

-----------------------------------------------------------------------------
(***************************************************************************)
(* What a step may do to a container.                                      *)
(***************************************************************************)
Same(c) == pool'[c] = pool[c]

Marked(c) ==
    /\ Present(c) /\ pool'[c].name \in {pool[c].name, "draining"}
    /\ pool'[c].state = pool[c].state /\ pool'[c].inbox = pool[c].inbox
    /\ pool'[c].serving = pool[c].serving

Removed(c) ==
    /\ pool'[c] = NoContainer
    /\ CliUp(c) => kept' \intersect Aboard(c) = {}

Created(c) ==
    /\ Create(c) /\ Stable(sess[c]) = {}
    /\ pool'[c].state = "created" /\ pool'[c].name = pool[c].name
    /\ pool'[c].inbox = pool[c].inbox /\ pool'[c].serving = pool[c].serving

Started(c) ==
    /\ Start(c) /\ pool[c].state = "created"
    /\ pool'[c].state = "running" /\ pool'[c].name = pool[c].name
    /\ pool'[c].inbox = pool[c].inbox /\ pool'[c].serving = pool[c].serving

Fed(c) ==
    \E t \in Turns :
        /\ Feed(t) /\ c \in Stable(sess[t]) /\ CliUp(c)
        /\ pool'[c].state = pool[c].state /\ pool'[c].name = pool[c].name
        /\ pool'[c].inbox = pool[c].inbox \union {t} /\ pool'[c].serving = pool[c].serving

Taken(c) ==
    /\ CliUp(c) /\ pool[c].serving = None
    /\ pool'[c].state = pool[c].state /\ pool'[c].name = pool[c].name
    /\ \E t \in pool[c].inbox :
          pool'[c].inbox = pool[c].inbox \ {t} /\ pool'[c].serving = t

Finished(c) ==
    /\ CliUp(c) /\ pool[c].serving \in Turns /\ kept' = kept \ {pool[c].serving}
    /\ pool'[c].state = pool[c].state /\ pool'[c].name = pool[c].name
    /\ pool'[c].inbox = pool[c].inbox /\ pool'[c].serving = None

Closed(c) ==
    /\ Running(c) /\ pool'[c].name = pool[c].name
    /\ \/ /\ pool[c].state = "running" /\ pool'[c].state = "ending"
          /\ pool'[c].inbox = pool[c].inbox /\ pool'[c].serving = pool[c].serving
       \/ /\ Aboard(c) = {} \/ kept' \intersect Aboard(c) = {} \/ ~CliUp(c)
          /\ pool'[c].state \in {"closing", "exited"}
          /\ pool'[c].inbox \subseteq pool[c].inbox
          /\ pool'[c].serving \in {None, pool[c].serving}

Case(c) ==
    \/ Same(c) \/ Marked(c) \/ Removed(c) \/ Created(c) \/ Started(c)
    \/ Fed(c) \/ Taken(c) \/ Finished(c) \/ Closed(c)

\* Every step of the pool does one of those to each container.
LEMMA PoolStep ==
  ASSUME TypeOK, [Next]_vars
  PROVE  pool' \in [Turns -> Containers] /\ \A c \in Turns : Case(c)
<1> USE DEF dispatchVars, boundVars, pastVars
<1>a. pool \in [Turns -> Containers] /\ \A c \in Turns : pool[c] \in Containers
  BY DEF TypeOK
<1>0. ASSUME UNCHANGED pool PROVE pool' \in [Turns -> Containers] /\ \A c \in Turns : Case(c)
  BY <1>0, <1>a DEF Case, Same
<1>d. ASSUME NEW s, Discard(Stable(s))
      PROVE  pool' \in [Turns -> Containers] /\ \A c \in Turns : Case(c)
  <2>1. Stable(s) \in SUBSET Turns
    BY DEF Stable
  <2>2. pool' \in [Turns -> Containers]
    BY <1>d, <2>1, DiscardEffect
  <2>3. ASSUME NEW c \in Turns PROVE Case(c)
    <3>1. CASE c \in Stable(s)
      BY <1>d, <2>1, <3>1, DiscardEffect DEF Discard, Case, Removed
    <3>2. CASE c \notin Stable(s)
      BY <1>d, <2>1, <3>2, DiscardEffect DEF Case, Same
    <3> QED
      BY <3>1, <3>2
  <2> QED
    BY <2>2, <2>3
<1>1. ASSUME NEW t \in Turns, ForceRemove(t)
      PROVE  pool' \in [Turns -> Containers] /\ \A c \in Turns : Case(c)
  <2>1. Discard(Stable(sess[t])) \/ UNCHANGED pool
    BY <1>1 DEF ForceRemove
  <2> QED
    BY <1>0, <1>d, <2>1
<1>2. ASSUME NEW t \in Turns, RenameStale(t)
      PROVE  pool' \in [Turns -> Containers] /\ \A c \in Turns : Case(c)
  <2>0. Rename(Stable(sess[t])) \/ Discard(Stable(sess[t])) \/ UNCHANGED pool
    BY <1>2 DEF RenameStale
  <2> SUFFICES ASSUME Rename(Stable(sess[t]))
               PROVE  pool' \in [Turns -> Containers] /\ \A c \in Turns : Case(c)
    BY <1>0, <1>d, <2>0
  <2>1. pool' = [c \in Turns |-> IF c \in Stable(sess[t]) THEN [pool[c] EXCEPT !.name = "draining"]
                                                         ELSE pool[c]]
    BY DEF Rename
  <2>2. pool' \in [Turns -> Containers]
    BY <1>a, <2>1, ContainerTypes
  <2>3. ASSUME NEW c \in Turns PROVE Case(c)
    <3>1. CASE c \in Stable(sess[t])
      BY <1>a, <2>1, <3>1 DEF Case, Marked, Stable, Containers
    <3>2. CASE c \notin Stable(sess[t])
      BY <2>1, <3>2 DEF Case, Same
    <3> QED
      BY <3>1, <3>2
  <2> QED
    BY <2>2, <2>3
<1>3. ASSUME NEW t \in Turns, Create(t)
      PROVE  pool' \in [Turns -> Containers] /\ \A c \in Turns : Case(c)
  <2>1. CASE Stable(sess[t]) = {} /\ pool' = [pool EXCEPT ![t].state = "created"]
    <3>1. pool' = [pool EXCEPT ![t] = [pool[t] EXCEPT !.state = "created"]]
      BY <1>a, <2>1
    <3>2. [pool[t] EXCEPT !.state = "created"] \in Containers
      BY ContainerTypes
    <3>3. /\ pool' \in [Turns -> Containers] /\ pool'[t] = [pool[t] EXCEPT !.state = "created"]
          /\ \A c \in Turns \ {t} : pool'[c] = pool[c]
      BY <3>1, <3>2, PoolEffect
    <3>4. Created(t)
      BY <1>3, <1>a, <2>1, <3>3 DEF Created, Containers
    <3> QED
      BY <3>3, <3>4 DEF Case, Same
  <2> QED
    BY <1>0, <1>3, <2>1 DEF Create
<1>4. ASSUME NEW t \in Turns, Start(t)
      PROVE  pool' \in [Turns -> Containers] /\ \A c \in Turns : Case(c)
  <2>1. CASE pool[t].state = "created" /\ pool' = [pool EXCEPT ![t].state = "running"]
    <3>1. pool' = [pool EXCEPT ![t] = [pool[t] EXCEPT !.state = "running"]]
      BY <1>a, <2>1
    <3>2. [pool[t] EXCEPT !.state = "running"] \in Containers
      BY ContainerTypes
    <3>3. /\ pool' \in [Turns -> Containers] /\ pool'[t] = [pool[t] EXCEPT !.state = "running"]
          /\ \A c \in Turns \ {t} : pool'[c] = pool[c]
      BY <3>1, <3>2, PoolEffect
    <3>4. Started(t)
      BY <1>4, <1>a, <2>1, <3>3 DEF Started, Containers
    <3> QED
      BY <3>3, <3>4 DEF Case, Same
  <2> QED
    BY <1>0, <1>4, <2>1 DEF Start, StartFails
<1>5. ASSUME NEW t \in Turns, Feed(t)
      PROVE  pool' \in [Turns -> Containers] /\ \A c \in Turns : Case(c)
  <2>1. ASSUME NEW c \in Stable(sess[t]), CliUp(c), pool' = [pool EXCEPT ![c].inbox = @ \union {t}]
        PROVE  pool' \in [Turns -> Containers] /\ \A d \in Turns : Case(d)
    <3>0. c \in Turns
      BY DEF Stable
    <3>1. pool' = [pool EXCEPT ![c] = [pool[c] EXCEPT !.inbox = @ \union {t}]]
      BY <1>a, <2>1, <3>0
    <3>2. [pool[c] EXCEPT !.inbox = @ \union {t}] \in Containers
      BY <3>0, ContainerTypes
    <3>3. /\ pool' \in [Turns -> Containers] /\ pool'[c] = [pool[c] EXCEPT !.inbox = @ \union {t}]
          /\ \A d \in Turns \ {c} : pool'[d] = pool[d]
      BY <3>0, <3>1, <3>2, PoolEffect
    <3>4. Fed(c)
      BY <1>5, <1>a, <2>1, <3>0, <3>3 DEF Fed, Containers
    <3> QED
      BY <3>3, <3>4 DEF Case, Same
  <2> QED
    BY <1>0, <1>5, <2>1 DEF Feed
<1>6. ASSUME NEW c \in Turns, TakeTurn(c)
      PROVE  pool' \in [Turns -> Containers] /\ \A d \in Turns : Case(d)
  <2>1. PICK t \in pool[c].inbox :
           pool' = [pool EXCEPT ![c].serving = t, ![c].inbox = @ \ {t}]
    BY <1>6 DEF TakeTurn
  <2>2. t \in Turns
    BY <1>a DEF Containers
  <2>3. pool' = [pool EXCEPT ![c] = [pool[c] EXCEPT !.serving = t, !.inbox = @ \ {t}]]
    BY <1>a, <2>1 DEF Containers
  <2>4. [pool[c] EXCEPT !.serving = t, !.inbox = @ \ {t}] \in Containers
    BY <2>2, ContainerTypes
  <2>5. /\ pool' \in [Turns -> Containers]
        /\ pool'[c] = [pool[c] EXCEPT !.serving = t, !.inbox = @ \ {t}]
        /\ \A d \in Turns \ {c} : pool'[d] = pool[d]
    BY <2>3, <2>4, PoolEffect
  <2>6. Taken(c)
    BY <1>6, <1>a, <2>1, <2>5 DEF TakeTurn, Taken, Containers
  <2> QED
    BY <2>5, <2>6 DEF Case, Same
<1>7. ASSUME NEW c \in Turns, FinishTurn(c)
      PROVE  pool' \in [Turns -> Containers] /\ \A d \in Turns : Case(d)
  <2>1. pool' = [pool EXCEPT ![c] = [pool[c] EXCEPT !.serving = None]]
    BY <1>7, <1>a DEF FinishTurn
  <2>2. [pool[c] EXCEPT !.serving = None] \in Containers
    BY ContainerTypes
  <2>3. /\ pool' \in [Turns -> Containers] /\ pool'[c] = [pool[c] EXCEPT !.serving = None]
        /\ \A d \in Turns \ {c} : pool'[d] = pool[d]
    BY <2>1, <2>2, PoolEffect
  <2>4. Finished(c)
    BY <1>7, <1>a, <2>3 DEF FinishTurn, Finished, Containers
  <2> QED
    BY <2>3, <2>4 DEF Case, Same
<1>8. ASSUME NEW c \in Turns, NEW r \in Containers, pool' = [pool EXCEPT ![c] = r],
             Present(c), r.name \in {pool[c].name, "draining"},
             r.state = pool[c].state, r.inbox = pool[c].inbox, r.serving = pool[c].serving
      PROVE  pool' \in [Turns -> Containers] /\ \A d \in Turns : Case(d)
  <2>1. pool' \in [Turns -> Containers] /\ pool'[c] = r /\ \A d \in Turns \ {c} : pool'[d] = pool[d]
    BY <1>8, PoolEffect
  <2>2. Marked(c)
    BY <1>8, <2>1 DEF Marked
  <2> QED
    BY <2>1, <2>2 DEF Case, Same
<1>9. ASSUME NEW c \in Turns, WatchTtl(c) \/ DrainTouch(c)
      PROVE  pool' \in [Turns -> Containers] /\ \A d \in Turns : Case(d)
  <2>1. CASE Running(c) /\ pool' = [pool EXCEPT ![c].flag = TRUE]
    <3>1. pool' = [pool EXCEPT ![c] = [pool[c] EXCEPT !.flag = TRUE]]
      BY <1>a, <2>1
    <3>2. Present(c) /\ [pool[c] EXCEPT !.flag = TRUE] \in Containers
      BY <2>1, ContainerTypes DEF Running, CliUp, Present
    <3> QED
      BY <1>8, <1>a, <3>1, <3>2 DEF Containers
  <2> QED
    BY <1>0, <1>9, <2>1 DEF WatchTtl, DrainTouch, Running
<1>10. ASSUME NEW c \in Turns, Ages(c)
       PROVE  pool' \in [Turns -> Containers] /\ \A d \in Turns : Case(d)
  <2>1. pool' = [pool EXCEPT ![c] = [pool[c] EXCEPT !.age = @ + 1]]
    BY <1>10, <1>a DEF Ages
  <2>2. Present(c) /\ [pool[c] EXCEPT !.age = @ + 1] \in Containers
    BY <1>10, ContainerTypes DEF Ages, CliUp, Present
  <2> QED
    BY <1>8, <1>a, <2>1, <2>2 DEF Containers
<1>11. ASSUME NEW c \in Turns, GraceOver(c)
       PROVE  pool' \in [Turns -> Containers] /\ \A d \in Turns : Case(d)
  <2>1. pool' = [pool EXCEPT ![c] = [pool[c] EXCEPT !.overdue = TRUE]]
    BY <1>11, <1>a DEF GraceOver
  <2>2. Present(c) /\ [pool[c] EXCEPT !.overdue = TRUE] \in Containers
    BY <1>11, ContainerTypes DEF GraceOver, CliUp, Present
  <2> QED
    BY <1>8, <1>a, <2>1, <2>2 DEF Containers
<1>12. ASSUME NEW c \in Turns, NEW r \in Containers, pool' = [pool EXCEPT ![c] = r],
              Running(c), r.name = pool[c].name,
              \/ /\ pool[c].state = "running" /\ r.state = "ending"
                 /\ r.inbox = pool[c].inbox /\ r.serving = pool[c].serving
              \/ /\ Aboard(c) = {} \/ kept' \intersect Aboard(c) = {} \/ ~CliUp(c)
                 /\ r.state \in {"closing", "exited"} /\ r.inbox \subseteq pool[c].inbox
                 /\ r.serving \in {None, pool[c].serving}
       PROVE  pool' \in [Turns -> Containers] /\ \A d \in Turns : Case(d)
  <2>1. pool' \in [Turns -> Containers] /\ pool'[c] = r /\ \A d \in Turns \ {c} : pool'[d] = pool[d]
    BY <1>12, PoolEffect
  <2>2. Closed(c)
    BY <1>12, <2>1 DEF Closed
  <2> QED
    BY <2>1, <2>2 DEF Case, Same
<1>13. ASSUME NEW c \in Turns, SeeDrain(c)
       PROVE  pool' \in [Turns -> Containers] /\ \A d \in Turns : Case(d)
  <2>1. pool' = [pool EXCEPT ![c] = [pool[c] EXCEPT !.state = "ending"]]
    BY <1>13, <1>a DEF SeeDrain
  <2>2. Running(c) /\ [pool[c] EXCEPT !.state = "ending"] \in Containers
    BY <1>13, ContainerTypes DEF SeeDrain, Running, CliUp
  <2> QED
    BY <1>12, <1>13, <1>a, <2>1, <2>2 DEF SeeDrain, Containers
<1>14. ASSUME NEW c \in Turns, CliExits(c)
       PROVE  pool' \in [Turns -> Containers] /\ \A d \in Turns : Case(d)
  <2>1. pool' = [pool EXCEPT ![c] = [pool[c] EXCEPT !.state = "closing", !.inbox = {}]]
    BY <1>14, <1>a DEF CliExits
  <2>2. /\ Running(c) /\ Aboard(c) = {}
        /\ [pool[c] EXCEPT !.state = "closing", !.inbox = {}] \in Containers
    BY <1>14, ContainerTypes DEF CliExits, ReadsEof, Running, CliUp, Aboard
  <2> QED
    BY <1>12, <1>a, <2>1, <2>2 DEF Containers
<1>15. ASSUME NEW c \in Turns, WrapperKills(c)
       PROVE  pool' \in [Turns -> Containers] /\ \A d \in Turns : Case(d)
  <2>1. pool' = [pool EXCEPT ![c] =
                   [pool[c] EXCEPT !.state = "closing", !.inbox = {}, !.serving = None]]
    BY <1>15, <1>a DEF WrapperKills
  <2>2. /\ Running(c) /\ kept' \intersect Aboard(c) = {}
        /\ [pool[c] EXCEPT !.state = "closing", !.inbox = {}, !.serving = None] \in Containers
    BY <1>15, ContainerTypes DEF WrapperKills, Running
  <2> QED
    BY <1>12, <1>a, <2>1, <2>2 DEF Containers
<1>16. ASSUME NEW c \in Turns, ContainerStops(c)
       PROVE  pool' \in [Turns -> Containers] /\ \A d \in Turns : Case(d)
  <2>1. pool' = [pool EXCEPT ![c] = [pool[c] EXCEPT !.state = "exited"]]
    BY <1>16, <1>a DEF ContainerStops
  <2>2. Running(c) /\ ~CliUp(c) /\ [pool[c] EXCEPT !.state = "exited"] \in Containers
    BY <1>16, ContainerTypes DEF ContainerStops, Running, CliUp
  <2> QED
    BY <1>12, <1>a, <2>1, <2>2 DEF Containers
<1>17. ASSUME NEW c \in Turns, DrainCollect(c)
       PROVE  pool' \in [Turns -> Containers] /\ \A d \in Turns : Case(d)
  <2>1. CASE pool[c].state = "exited" /\ pool' = [pool EXCEPT ![c] = NoContainer]
    <3>1. /\ pool' \in [Turns -> Containers] /\ pool'[c] = NoContainer
          /\ \A d \in Turns \ {c} : pool'[d] = pool[d]
      BY <2>1, PoolEffect, ContainerTypes
    <3>2. Removed(c)
      BY <2>1, <3>1 DEF Removed, CliUp
    <3> QED
      BY <3>1, <3>2 DEF Case, Same
  <2> QED
    BY <1>0, <1>17, <2>1 DEF DrainCollect
<1>18. ASSUME NEW w \in Reapers, ReapRemove(w)
       PROVE  pool' \in [Turns -> Containers] /\ \A d \in Turns : Case(d)
  <2>1. Discard({snap[w].id}) /\ snap[w].id \in Turns
    BY <1>18 DEF ReapRemove, TypeOK, Plans
  <2>2. pool' \in [Turns -> Containers]
    BY <2>1, DiscardEffect
  <2>3. ASSUME NEW d \in Turns PROVE Case(d)
    <3>1. CASE d = snap[w].id
      <4>1. pool'[d] = NoContainer
        BY <2>1, <3>1, DiscardEffect
      <4>2. kept' = kept \ UNION {Aboard(c) : c \in {d}}
        BY <2>1, <3>1 DEF Discard
      <4>3. kept' \intersect Aboard(d) = {}
        BY <4>2
      <4> QED
        BY <4>1, <4>3 DEF Case, Removed
    <3>2. CASE d # snap[w].id
      BY <2>1, <3>2, DiscardEffect DEF Case, Same
    <3> QED
      BY <3>1, <3>2
  <2> QED
    BY <2>2, <2>3
<1>19. ASSUME NEW w \in Reapers, ReapCondemn(w)
       PROVE  pool' \in [Turns -> Containers] /\ \A d \in Turns : Case(d)
  <2>1. PICK c \in Turns : c = snap[w].id
    BY <1>19 DEF ReapCondemn, TypeOK, Plans
  <2>2. CASE Present(c)
    <3>1. pool' = [pool EXCEPT ![c] = [pool[c] EXCEPT !.name = "draining", !.flag = @ \/ Running(c)]]
      BY <1>19, <1>a, <2>1, <2>2 DEF ReapCondemn, Containers
    <3>2. Running(c) \in BOOLEAN
      BY DEF Running, CliUp
    <3>3. [pool[c] EXCEPT !.name = "draining", !.flag = @ \/ Running(c)] \in Containers
      BY <3>2, ContainerTypes
    <3> QED
      BY <1>8, <1>a, <2>2, <3>1, <3>3 DEF Containers
  <2>3. CASE ~Present(c)
    BY <1>0, <1>19, <2>1, <2>3 DEF ReapCondemn
  <2> QED
    BY <2>2, <2>3
<1> QED
  BY <1>0, <1>1, <1>2, <1>3, <1>4, <1>5, <1>6, <1>7, <1>9, <1>10, <1>11, <1>13, <1>14, <1>15,
     <1>16, <1>17, <1>18, <1>19
     DEF Next, vars, BeginTurn, DispatchStep, CliStep, ReapStep, Acquire, Look, CheckReuse,
         CheckCeiling, BuildFails, ReapList, BumpGeneration, Restart

-----------------------------------------------------------------------------
(***************************************************************************)
(* Every variable keeps its type.                                          *)
(***************************************************************************)
LEMMA Counting ==
  \A S \in SUBSET Turns : IsFiniteSet(S) /\ Cardinality(S) \in Nat
BY WarmPoolAssumption, FS_Subset, FS_CardinalityType

\* Giving a session lock back leaves the locks well typed.
LEMMA Released ==
  ASSUME TypeOK, NEW t \in Turns, Release(t)
  PROVE  lock' \in [Workers -> [Sessions -> Turns \union {None}]]
BY LockEffect DEF Release

\* TypeOK is kept by every step.
LEMMA TypeStep ==
  ASSUME TypeOK, [Next]_vars
  PROVE  TypeOK'
<1> USE DEF dispatchVars, boundVars, pastVars
<1>p. pool' \in [Turns -> Containers]
  BY PoolStep
<1>o. ASSUME Outage \/ NoOutage PROVE {events', impatient'} \subseteq Nat
  BY <1>o DEF Outage, NoOutage, Event, TypeOK
<1>0. CASE UNCHANGED vars
  BY <1>0 DEF vars, TypeOK
<1>1. ASSUME NEW t \in Turns, BeginTurn(t) PROVE TypeOK'
  <2>1. pc' \in [Turns -> PCs]
    BY <1>1, StepEffect DEF BeginTurn, PCs
  <2>2. sess' \in [Turns -> Sessions \union {None}] /\ wk' \in [Turns -> Workers \union {None}]
    BY <1>1 DEF BeginTurn, TypeOK
  <2>3. seen' \in [Turns -> Nat]
    BY <1>1 DEF BeginTurn, TypeOK
  <2>4. impatient' \in Nat /\ events' \in Nat
    BY <1>1 DEF BeginTurn, Event, TypeOK
  <2> QED
    BY <1>1, <1>p, <2>1, <2>2, <2>3, <2>4 DEF BeginTurn, TypeOK
<1>2. ASSUME NEW t \in Turns, Acquire(t) PROVE TypeOK'
  <2>1. pc' \in [Turns -> PCs]
    BY <1>2, StepEffect DEF Acquire, PCs
  <2>2. lock' \in [Workers -> [Sessions -> Turns \union {None}]]
    BY <1>2, LockEffect DEF Acquire
  <2> QED
    BY <1>2, <1>p, <2>1, <2>2 DEF Acquire, TypeOK
<1>3. ASSUME NEW t \in Turns, Look(t) PROVE TypeOK'
  <2>1. pc' \in [Turns -> PCs]
    BY <1>3, StepEffect DEF Look, PCs
  <2>2. {events', impatient'} \subseteq Nat
    BY <1>3, <1>o DEF Look
  <2> QED
    BY <1>3, <1>p, <2>1, <2>2 DEF Look, TypeOK
<1>4. ASSUME NEW t \in Turns, ForceRemove(t) PROVE TypeOK'
  <2>1. pc' \in [Turns -> PCs]
    BY <1>4, StepEffect DEF ForceRemove, PCs
  <2>2. kept' \in SUBSET Turns
    BY <1>4 DEF ForceRemove, Discard, TypeOK
  <2>3. {events', impatient'} \subseteq Nat
    BY <1>4, <1>o DEF ForceRemove
  <2> QED
    BY <1>4, <1>p, <2>1, <2>2, <2>3 DEF ForceRemove, TypeOK
<1>5. ASSUME NEW t \in Turns, CheckReuse(t) PROVE TypeOK'
  <2>1. pc' \in [Turns -> PCs]
    BY <1>5, StepEffect DEF CheckReuse, PCs
  <2>2. lock' \in [Workers -> [Sessions -> Turns \union {None}]]
    BY <1>5, Released DEF CheckReuse, TypeOK
  <2>3. {events', impatient'} \subseteq Nat
    BY <1>5, <1>o DEF CheckReuse
  <2> QED
    BY <1>5, <1>p, <2>1, <2>2, <2>3 DEF CheckReuse, TypeOK
<1>6. ASSUME NEW t \in Turns, RenameStale(t) PROVE TypeOK'
  <2>1. pc' \in [Turns -> PCs]
    BY <1>6, StepEffect DEF RenameStale, PCs
  <2>2. drainer' \in [Turns -> {"none", "touch", "collect"}]
    BY <1>6 DEF RenameStale, TypeOK
  <2>3. kept' \in SUBSET Turns
    BY <1>6 DEF RenameStale, Discard, TypeOK
  <2>4. {events', impatient'} \subseteq Nat
    BY <1>6, <1>o DEF RenameStale
  <2> QED
    BY <1>6, <1>p, <2>1, <2>2, <2>3, <2>4 DEF RenameStale, TypeOK
<1>7. ASSUME NEW t \in Turns, CheckCeiling(t) PROVE TypeOK'
  <2>1. pc' \in [Turns -> PCs]
    BY <1>7, StepEffect DEF CheckCeiling, PCs
  <2>2. lock' \in [Workers -> [Sessions -> Turns \union {None}]]
    BY <1>7, Released DEF CheckCeiling, TypeOK
  <2>3. PICK n \in Nat : n = Cardinality(Spawning)
    BY Counting DEF Spawning
  <2>4. peak' \in {peak, n + 1}
    BY <1>7, <2>3 DEF CheckCeiling
  <2>5. peak' \in Nat
    BY <2>4 DEF TypeOK
  <2>6. uncounted' \in SUBSET Turns
    BY <1>7 DEF CheckCeiling, TypeOK
  <2>7. {events', impatient'} \subseteq Nat
    BY <1>7, <1>o DEF CheckCeiling
  <2> QED
    BY <1>7, <1>p, <2>1, <2>2, <2>5, <2>6, <2>7 DEF CheckCeiling, TypeOK
<1>8. ASSUME NEW t \in Turns, Create(t) \/ BuildFails(t) PROVE TypeOK'
  <2>1. pc' \in [Turns -> PCs]
    BY <1>8, StepEffect DEF Create, BuildFails, PCs
  <2>2. lock' \in [Workers -> [Sessions -> Turns \union {None}]]
    BY <1>8, Released DEF Create, BuildFails, TypeOK
  <2> QED
    BY <1>8, <1>p, <2>1, <2>2 DEF Create, BuildFails, TypeOK
<1>9. ASSUME NEW t \in Turns, Start(t) PROVE TypeOK'
  <2>1. pc' \in [Turns -> PCs]
    BY <1>9, StepEffect DEF Start, StartFails, PCs
  <2>2. lock' \in [Workers -> [Sessions -> Turns \union {None}]]
    BY <1>9, Released DEF Start
  <2>3. {events', impatient'} \subseteq Nat
    BY <1>9, <1>o DEF Start, StartFails
  <2> QED
    BY <1>9, <1>p, <2>1, <2>2, <2>3 DEF Start, TypeOK
<1>10. ASSUME NEW t \in Turns, Feed(t) PROVE TypeOK'
  <2>1. pc' \in [Turns -> PCs]
    BY <1>10, StepEffect DEF Feed, PCs
  <2>2. kept' \in SUBSET Turns
    BY <1>10 DEF Feed, TypeOK
  <2> QED
    BY <1>10, <1>p, <2>1, <2>2 DEF Feed, TypeOK
<1>11. ASSUME NEW c \in Turns, FinishTurn(c) PROVE TypeOK'
  <2>1. pc' \in [Turns -> PCs]
    BY <1>11 DEF FinishTurn, TypeOK, PCs
  <2> QED
    BY <1>11, <1>p, <2>1 DEF FinishTurn, TypeOK
<1>12. ASSUME NEW c \in Turns,
              CliStep(c) \/ WatchTtl(c) \/ WrapperKills(c) \/ Ages(c) \/ GraceOver(c)
       PROVE  TypeOK'
  <2>1. UNCHANGED <<dispatchVars, gen, drainer, snap, impatient, uncounted, peak>>
    BY <1>12 DEF CliStep, TakeTurn, SeeDrain, CliExits, ContainerStops, WatchTtl, WrapperKills,
                 Ages, GraceOver
  <2>2. kept' \in SUBSET Turns
    BY <1>12 DEF CliStep, TakeTurn, SeeDrain, CliExits, ContainerStops, WatchTtl, WrapperKills,
                 Ages, GraceOver, TypeOK
  <2>3. events' \in Nat
    BY <1>12 DEF CliStep, TakeTurn, SeeDrain, CliExits, ContainerStops, WatchTtl, WrapperKills,
                 Ages, GraceOver, Event, TypeOK
  <2> QED
    BY <1>p, <2>1, <2>2, <2>3 DEF TypeOK
<1>13. ASSUME NEW c \in Turns, DrainTouch(c) \/ DrainCollect(c) PROVE TypeOK'
  <2>1. drainer' \in [Turns -> {"none", "touch", "collect"}]
    BY <1>13 DEF DrainTouch, DrainCollect, TypeOK
  <2> QED
    BY <1>13, <1>p, <2>1 DEF DrainTouch, DrainCollect, TypeOK
<1>14. ASSUME NEW w \in Reapers, ReapStep(w) PROVE TypeOK'
  <2>1. snap' \in [Reapers -> Plans]
    BY <1>14 DEF ReapStep, ReapList, ReapRemove, ReapCondemn, TypeOK, Plans, NoPlan
  <2>2. kept' \in SUBSET Turns
    BY <1>14 DEF ReapStep, ReapList, ReapRemove, ReapCondemn, Discard, TypeOK
  <2> QED
    BY <1>14, <1>p, <2>1, <2>2 DEF ReapStep, ReapList, ReapRemove, ReapCondemn, TypeOK
<1>15. CASE BumpGeneration
  BY <1>15, <1>p DEF BumpGeneration, Event, TypeOK
<1>16. CASE Restart
  <2>1. pc' \in [Turns -> PCs]
    BY <1>16 DEF Restart, TypeOK, PCs
  <2>2. snap' \in [Reapers -> Plans]
    BY <1>16 DEF Restart, Plans, NoPlan
  <2>3. /\ lock' \in [Workers -> [Sessions -> Turns \union {None}]]
        /\ drainer' \in [Turns -> {"none", "touch", "collect"}]
    BY <1>16 DEF Restart
  <2>4. gen' \in Nat /\ events' \in Nat
    BY <1>16 DEF Restart, Event, TypeOK
  <2> QED
    BY <1>16, <1>p, <2>1, <2>2, <2>3, <2>4 DEF Restart, TypeOK
<1> QED
  BY <1>0, <1>1, <1>2, <1>3, <1>4, <1>5, <1>6, <1>7, <1>8, <1>9, <1>10, <1>11, <1>12, <1>13,
     <1>14, <1>15, <1>16 DEF Next, DispatchStep

\* TypeOK holds at the start.
LEMMA TypeInit == Init => TypeOK
<1> SUFFICES ASSUME Init PROVE TypeOK
  OBVIOUS
<1>1. NoContainer \in Containers
  BY DEF Containers, NoContainer
<1>2. pool \in [Turns -> Containers]
  BY <1>1 DEF Init
<1>3. snap \in [Reapers -> Plans]
  BY DEF Init, Plans, NoPlan
<1> QED
  BY <1>2, <1>3 DEF Init, TypeOK, PCs

\* Every variable of the pool keeps its type: no step leaves half a container
\* record behind, and the bookkeeping of locks, sweeps and drains stays whole.
THEOREM TypeCorrect == Spec => []TypeOK
BY TypeInit, TypeStep, PTL DEF Spec

-----------------------------------------------------------------------------
(***************************************************************************)
(* What a step may do to a turn.                                           *)
(***************************************************************************)

\* Where a turn stands as long as it has not created its container.
Unborn == {"new", "lock", "look", "force", "check", "rename", "ceiling", "create"}

Kept(t) == sess'[t] = sess[t] /\ seen'[t] = seen[t]
Still(t) == pc'[t] = pc[t] /\ Kept(t)
Begun(t) == BeginTurn(t) /\ pc[t] = "new" /\ pc'[t] = "lock"
Moved(t) == DispatchStep(t) /\ Kept(t)
Ended(t) ==
    /\ pc[t] # "new" /\ Kept(t)
    /\ pc'[t] \in {"answered", "lost"} /\ pc[t] \notin {"cold", "failed", "answered", "lost"}

TurnCase(t) == Still(t) \/ Begun(t) \/ Moved(t) \/ Ended(t)

\* A turn only moves by a step of its own dispatch, by its answer, or because
\* its worker died; meanwhile no other turn moves.
LEMMA TurnStep ==
  ASSUME TypeOK, [Next]_vars
  PROVE  \A t \in Turns :
            /\ TurnCase(t)
            /\ BeginTurn(t) \/ DispatchStep(t) => \A u \in Turns \ {t} : Still(u)
<1> USE DEF dispatchVars
<1>1. ASSUME NEW t \in Turns, BeginTurn(t)
      PROVE  Begun(t) /\ \A u \in Turns \ {t} : Still(u)
  <2>1. pc[t] = "new" /\ pc'[t] = "lock" /\ \A u \in Turns \ {t} : pc'[u] = pc[u]
    BY <1>1, StepEffect DEF BeginTurn, PCs
  <2>2. \A u \in Turns \ {t} : sess'[u] = sess[u] /\ seen'[u] = seen[u]
    BY <1>1 DEF BeginTurn, TypeOK
  <2> QED
    BY <1>1, <2>1, <2>2 DEF Begun, Still, Kept
<1>2. ASSUME NEW t \in Turns, DispatchStep(t)
      PROVE  Moved(t) /\ \A u \in Turns \ {t} : Still(u)
  <2>1. \A u \in Turns \ {t} : pc'[u] = pc[u]
    BY <1>2, StepEffect DEF DispatchStep, Acquire, Look, ForceRemove, CheckReuse, RenameStale,
       CheckCeiling, Create, BuildFails, Start, StartFails, Feed, PCs
  <2>2. UNCHANGED <<sess, seen>>
    BY <1>2 DEF DispatchStep, Acquire, Look, ForceRemove, CheckReuse, RenameStale,
       CheckCeiling, Create, BuildFails, Start, Feed
  <2> QED
    BY <1>2, <2>1, <2>2 DEF Moved, Still, Kept
<1>3. ASSUME NEW c \in Turns, FinishTurn(c)
      PROVE  \A u \in Turns : Still(u) \/ Ended(u)
  <2>1. pool[c].serving \in Turns
    BY <1>3 DEF FinishTurn, TypeOK, Containers
  <2> QED
    BY <1>3, <2>1 DEF FinishTurn, TypeOK, Still, Ended, Kept
<1>4. ASSUME Restart
      PROVE  \A u \in Turns : Still(u) \/ Ended(u)
  BY <1>4 DEF Restart, Dispatching, Still, Ended, Kept
<1>5. ASSUME UNCHANGED dispatchVars
      PROVE  \A u \in Turns : Still(u)
  BY <1>5 DEF Still, Kept
<1>6. ASSUME NEW t \in Turns, BeginTurn(t) \/ DispatchStep(t)
      PROVE  \A u \in Turns : TurnCase(u) /\ (u # t => Still(u))
  BY <1>1, <1>2, <1>6 DEF TurnCase
<1>7. CASE \E t \in Turns : BeginTurn(t) \/ DispatchStep(t)
  BY <1>6, <1>7
<1>8. CASE ~ \E t \in Turns : BeginTurn(t) \/ DispatchStep(t)
  <2>1. \A u \in Turns : Still(u) \/ Ended(u)
    BY <1>3, <1>4, <1>5, <1>8 DEF Next, vars, CliStep, TakeTurn, SeeDrain, CliExits,
       ContainerStops, WatchTtl, WrapperKills, DrainTouch, DrainCollect, Ages, GraceOver,
       ReapStep, ReapList, ReapRemove, ReapCondemn, BumpGeneration
  <2> QED
    BY <1>8, <2>1 DEF TurnCase
<1> QED
  BY <1>7, <1>8

\* The labels of the turn's dispatch: the step before each.
LEMMA DispatchOrder ==
  ASSUME TypeOK, NEW t \in Turns, DispatchStep(t)
  PROVE  /\ pc[t] \notin {"new", "fed", "cold", "failed", "answered", "lost"}
         /\ pc'[t] # "new"
         /\ pc'[t] \in Unborn => pc[t] \in Unborn
         /\ pc'[t] = "check" => Look(t)
         /\ pc'[t] = "create" => CheckCeiling(t)
         /\ pc'[t] = "start" => Create(t)
         /\ pc'[t] = "feed" => CheckReuse(t) \/ Start(t)
<1> USE DEF Unborn
<1>1. CASE Acquire(t)
  <2>1. pc[t] = "lock" /\ pc'[t] = "look"
    BY <1>1, StepEffect DEF Acquire, PCs
  <2> QED
    BY <2>1
<1>2. CASE Look(t)
  <2>1. pc[t] = "look" /\ pc'[t] \in {"ceiling", "force", "rename", "check"}
    BY <1>2, StepEffect DEF Look, PCs
  <2> QED
    BY <1>2, <2>1
<1>3. CASE ForceRemove(t) \/ RenameStale(t)
  <2>1. pc[t] \in {"force", "rename"} /\ pc'[t] \in {"rename", "ceiling"}
    BY <1>3, StepEffect DEF ForceRemove, RenameStale, PCs
  <2> QED
    BY <2>1
<1>4. CASE CheckReuse(t)
  <2>1. pc[t] = "check" /\ pc'[t] \in {"feed", "rename"}
    BY <1>4, StepEffect DEF CheckReuse, PCs
  <2> QED
    BY <1>4, <2>1
<1>5. CASE CheckCeiling(t)
  <2>1. pc[t] = "ceiling" /\ pc'[t] \in {"cold", "create"}
    BY <1>5, StepEffect DEF CheckCeiling, PCs
  <2> QED
    BY <1>5, <2>1
<1>6. CASE Create(t)
  <2>1. pc[t] = "create" /\ pc'[t] \in {"start", "failed"}
    BY <1>6, StepEffect DEF Create, PCs
  <2> QED
    BY <1>6, <2>1
<1>7. CASE BuildFails(t)
  <2>1. pc[t] = "create" /\ pc'[t] = "failed"
    BY <1>7, StepEffect DEF BuildFails, PCs
  <2> QED
    BY <2>1
<1>8. CASE Start(t)
  <2>1. pc[t] = "start" /\ pc'[t] \in {"feed", "failed"}
    BY <1>8, StepEffect DEF Start, StartFails, PCs
  <2> QED
    BY <1>8, <2>1
<1>9. CASE Feed(t)
  <2>1. pc[t] = "feed" /\ pc'[t] \in {"fed", "failed"}
    BY <1>9, StepEffect DEF Feed, PCs
  <2> QED
    BY <2>1
<1> QED
  BY <1>1, <1>2, <1>3, <1>4, <1>5, <1>6, <1>7, <1>8, <1>9 DEF DispatchStep

-----------------------------------------------------------------------------
(***************************************************************************)
(* A turn that has not created its container has none.                     *)
(***************************************************************************)
Unspawned == \A t \in Turns : pc[t] \in Unborn => pool[t] = NoContainer

\* Unspawned is kept by every step.
LEMMA UnspawnedStep ==
  ASSUME TypeOK, Unspawned, [Next]_vars
  PROVE  Unspawned'
<1> SUFFICES ASSUME NEW t \in Turns, pc'[t] \in Unborn PROVE pool'[t] = NoContainer
  BY DEF Unspawned
<1>1. pc[t] \in Unborn
  BY TurnStep, DispatchOrder DEF TurnCase, Still, Begun, Moved, Ended, Unborn
<1>2. pool[t] = NoContainer
  BY <1>1 DEF Unspawned
<1>3. ~Present(t) /\ ~CliUp(t) /\ ~Running(t) /\ pool[t].state # "created"
  BY <1>2 DEF NoContainer, Present, CliUp, Running
<1>4. ~Created(t)
  BY DispatchOrder, StepEffect DEF Created, DispatchStep, Create, PCs, Unborn
<1>5. Case(t)
  BY PoolStep
<1> QED
  BY <1>2, <1>3, <1>4, <1>5
     DEF Case, Same, Marked, Removed, Started, Fed, Taken, Finished, Closed

-----------------------------------------------------------------------------
(***************************************************************************)
(* A graceful drain truncates no turn.                                     *)
(***************************************************************************)

\* A turn becomes one to keep only when it is fed into a live CLI.
LEMMA KeptGrows ==
  ASSUME TypeOK, [Next]_vars, NEW t \in kept', t \notin kept
  PROVE  \E c \in Turns : CliUp(c) /\ t \in pool'[c].inbox /\ pool'[c].state = pool[c].state
<1>1. PICK u \in Turns : Feed(u)
  <2>1. kept' \subseteq kept \/ \E u \in Turns : Feed(u)
    BY DEF Next, vars, pastVars, BeginTurn, DispatchStep, Acquire, Look, ForceRemove, Discard,
       CheckReuse, RenameStale, CheckCeiling, Create, BuildFails, Start, CliStep, TakeTurn,
       SeeDrain, CliExits, ContainerStops, FinishTurn, WatchTtl, WrapperKills, DrainTouch,
       DrainCollect, Ages, GraceOver, ReapStep, ReapList, ReapRemove, ReapCondemn,
       BumpGeneration, Restart
  <2> QED
    BY <2>1
<1>2. PICK c \in Stable(sess[u]) :
         /\ pool' = IF CliUp(c) THEN [pool EXCEPT ![c].inbox = @ \union {u}] ELSE pool
         /\ kept' = IF CliUp(c) /\ ~pool[c].flag THEN kept \union {u} ELSE kept
  BY <1>1 DEF Feed
<1>3. CliUp(c) /\ t = u
  BY <1>2
<1>4. c \in Turns /\ pool'[c] = [pool[c] EXCEPT !.inbox = @ \union {u}]
  BY <1>2, <1>3 DEF Stable, TypeOK
<1>5. pool[c] \in Containers
  BY <1>4 DEF TypeOK
<1> QED
  BY <1>3, <1>4, <1>5 DEF Containers

\* A kept turn leaves its container only by being answered.
LEMMA KeptStays ==
  ASSUME TypeOK, Unspawned, [Next]_vars, NEW c \in Turns, NEW t \in Turns,
         t \in kept', t \in Aboard(c), CliUp(c)
  PROVE  (t \in Aboard(c) /\ CliUp(c))'
<1>1. Case(c) /\ pool[c] \in Containers /\ pool'[c] \in Containers
  BY PoolStep DEF TypeOK
<1>2. CASE Same(c) \/ Marked(c)
  BY <1>2 DEF Same, Marked, Aboard, CliUp
<1>3. CASE Removed(c)
  BY <1>3 DEF Removed
<1>4. CASE Created(c)
  <2>1. pc[c] = "create"
    BY <1>4, StepEffect DEF Created, Create, PCs
  <2> QED
    BY <2>1 DEF Unspawned, Unborn, NoContainer, CliUp
<1>5. CASE Started(c)
  BY <1>5 DEF Started, CliUp
<1>6. CASE Fed(c)
  BY <1>6 DEF Fed, Aboard, CliUp
<1>7. CASE Taken(c)
  <2>1. PICK u \in pool[c].inbox : pool'[c].inbox = pool[c].inbox \ {u} /\ pool'[c].serving = u
    BY <1>7 DEF Taken
  <2>2. t \in pool[c].inbox
    BY <1>7 DEF Taken, Aboard
  <2>3. t \in (pool'[c].inbox \union ({pool'[c].serving} \ {None}))
    BY <2>1, <2>2, WarmPoolAssumption
  <2> QED
    BY <1>7, <2>3 DEF Taken, Aboard, CliUp
<1>8. CASE Finished(c)
  BY <1>8 DEF Finished, Aboard, CliUp
<1>9. CASE Closed(c)
  BY <1>9 DEF Closed, Aboard, CliUp
<1> QED
  BY <1>1, <1>2, <1>3, <1>4, <1>5, <1>6, <1>7, <1>8, <1>9 DEF Case

DrainInv == TypeOK /\ Unspawned /\ DrainKeepsTurns

\* DrainInv holds at the start.
LEMMA DrainInit == Init => DrainInv
<1> SUFFICES ASSUME Init PROVE Unspawned /\ DrainKeepsTurns
  BY TypeInit DEF DrainInv
<1> QED
  BY DEF Init, Unspawned, DrainKeepsTurns

\* DrainInv is kept by every step.
LEMMA DrainStep == DrainInv /\ [Next]_vars => DrainInv'
<1> SUFFICES ASSUME DrainInv, [Next]_vars PROVE DrainInv'
  OBVIOUS
<1>0. TypeOK /\ Unspawned /\ DrainKeepsTurns
  BY DEF DrainInv
<1>1. TypeOK' /\ Unspawned'
  BY <1>0, TypeStep, UnspawnedStep
<1>2. ASSUME NEW t \in kept' PROVE (\E c \in Turns : t \in Aboard(c) /\ CliUp(c))'
  <2>1. t \in Turns
    BY <1>1 DEF TypeOK
  <2>2. CASE t \in kept
    <3>1. PICK c \in Turns : t \in Aboard(c) /\ CliUp(c)
      BY <1>0, <2>2 DEF DrainKeepsTurns
    <3>2. (t \in Aboard(c) /\ CliUp(c))'
      BY <1>0, <2>1, <3>1, KeptStays
    <3> QED
      BY <3>2
  <2>3. CASE t \notin kept
    <3>1. PICK c \in Turns : CliUp(c) /\ t \in pool'[c].inbox /\ pool'[c].state = pool[c].state
      BY <1>0, <2>3, KeptGrows
    <3>2. (t \in Aboard(c) /\ CliUp(c))'
      BY <3>1 DEF Aboard, CliUp
    <3> QED
      BY <3>2
  <2> QED
    BY <2>2, <2>3
<1>3. DrainKeepsTurns'
  BY <1>2 DEF DrainKeepsTurns
<1> QED
  BY <1>1, <1>3 DEF DrainInv

\* drain "never truncates a turn": whatever order the flag, the end of stdin,
\* the rename, the collecting thread and the sweeps of the workers come in, a
\* turn fed before its container was asked to exit is answered, or is still
\* aboard a live CLI, unless force or the grace took the container.
THEOREM DrainTruncatesNothing == Spec => []DrainKeepsTurns
<1>1. DrainInv => DrainKeepsTurns
  BY DEF DrainInv
<1> QED
  BY <1>1, DrainInit, DrainStep, PTL DEF Spec

-----------------------------------------------------------------------------
(***************************************************************************)
(* A turn is served by the generation it read.                             *)
(***************************************************************************)

\* containers.run takes a name only when it is free.
AtMostOne == \A s \in Sessions \union {None} : \A c, d \in Stable(s) : c = d

\* The caller keeps a session's turns apart.
OnePending ==
    impatient = 0 => \A t, u \in Turns : Pending(t) /\ Pending(u) /\ sess[t] = sess[u] => t = u

\* What a turn found fit for itself, or created, carries its label still when
\* the turn starts it, looks at its age, and feeds it.
FoundFit ==
    impatient = 0 =>
        \A t \in Turns : pc[t] \in {"start", "check", "feed"} =>
            \A c \in Stable(sess[t]) : seen[c] = seen[t]

NotAboard == \A t, c \in Turns : pc[t] = "new" => t \notin Aboard(c)

\* A stable name has its old holder, or one that was created when it was free.
LEMMA StableStep ==
  ASSUME TypeOK, Unspawned, [Next]_vars, NEW c \in Turns, Present(c)',
         pool'[c].name = "stable"
  PROVE  /\ Kept(c)
         /\ \/ Present(c) /\ pool[c].name = "stable"
            \/ Created(c)
<1>1. Case(c) /\ pool[c] \in Containers
  BY PoolStep DEF TypeOK
<1>2. (Present(c) /\ pool[c].name = "stable") \/ Created(c)
  BY <1>1 DEF Case, Same, Marked, Removed, Started, Fed, Taken, Finished, Closed, Present,
     Stable, CliUp, Running, NoContainer
<1>3. pc[c] # "new"
  <2>1. CASE Present(c)
    BY <2>1 DEF Unspawned, Unborn, Present, NoContainer
  <2>2. CASE Created(c)
    BY <2>2, StepEffect DEF Created, Create, PCs
  <2> QED
    BY <1>2, <2>1, <2>2
<1>4. Kept(c)
  BY <1>3, TurnStep DEF TurnCase, Still, Begun, Moved, Ended
<1> QED
  BY <1>2, <1>4

\* A session gets a stable container only when it has none.
LEMMA StableGrows ==
  ASSUME TypeOK, Unspawned, [Next]_vars, NEW s, NEW c \in Stable(s)'
  PROVE  /\ c \in Turns /\ Kept(c) /\ sess[c] = s
         /\ c \in Stable(s) \/ (Created(c) /\ Stable(s) = {})
<1>1. c \in Turns /\ Present(c)' /\ pool'[c].name = "stable" /\ sess'[c] = s
  BY DEF Stable
<1>2. Kept(c) /\ ((Present(c) /\ pool[c].name = "stable") \/ Created(c))
  BY <1>1, StableStep
<1> QED
  BY <1>1, <1>2 DEF Kept, Stable, Created

\* AtMostOne is kept by every step.
LEMMA AtMostOneStep ==
  ASSUME TypeOK, Unspawned, AtMostOne, [Next]_vars
  PROVE  AtMostOne'
<1> SUFFICES ASSUME NEW s \in Sessions \union {None}, NEW c \in Stable(s)',
                    NEW d \in Stable(s)'
             PROVE  c = d
  BY DEF AtMostOne
<1>1. /\ c \in Turns /\ (c \in Stable(s) \/ (Created(c) /\ Stable(s) = {}))
      /\ d \in Turns /\ (d \in Stable(s) \/ (Created(d) /\ Stable(s) = {}))
  BY StableGrows
<1>2. CASE c \in Stable(s)
  BY <1>1, <1>2 DEF AtMostOne
<1>3. CASE Created(c) /\ Created(d)
  <2>1. \A e \in Turns : Created(e) => DispatchStep(e) /\ pc'[e] # pc[e]
    BY StepEffect DEF Created, DispatchStep, Create, PCs
  <2> QED
    BY <1>1, <1>3, <2>1, TurnStep DEF Still
<1> QED
  BY <1>1, <1>2, <1>3

\* Whoever is under way after a step was before, or has just arrived.
LEMMA PendingStep ==
  ASSUME TypeOK, [Next]_vars, NEW t \in Turns, Pending(t)'
  PROVE  Begun(t) \/ (Pending(t) /\ Kept(t))
BY TurnStep, DispatchOrder DEF TurnCase, Still, Moved, Ended, Pending, Dispatching

\* Turns that overlapped in one session are never forgotten.
LEMMA ImpatientGrows ==
  ASSUME TypeOK, [Next]_vars, impatient' = 0
  PROVE  impatient = 0
<1>1. ASSUME NEW t \in Turns, BeginTurn(t) \/ DispatchStep(t)
      PROVE  impatient' = impatient \/ impatient' = impatient + 1
  <2>1. CASE BeginTurn(t)
    BY <2>1 DEF BeginTurn
  <2>2. CASE Look(t) \/ ForceRemove(t) \/ CheckReuse(t) \/ RenameStale(t)
    BY <2>2 DEF Look, ForceRemove, CheckReuse, RenameStale, Outage, NoOutage, boundVars
  <2>3. CASE CheckCeiling(t) \/ Start(t)
    BY <2>3 DEF CheckCeiling, Start, StartFails, Outage, NoOutage, boundVars
  <2>4. CASE Acquire(t) \/ Create(t) \/ BuildFails(t) \/ Feed(t)
    BY <2>4 DEF Acquire, Create, BuildFails, Feed, boundVars
  <2> QED
    BY <1>1, <2>1, <2>2, <2>3, <2>4 DEF DispatchStep
<1>2. CASE ~ \E t \in Turns : BeginTurn(t) \/ DispatchStep(t)
  BY <1>2 DEF Next, vars, boundVars, CliStep, TakeTurn, SeeDrain, CliExits, ContainerStops,
     FinishTurn, WatchTtl, WrapperKills, DrainTouch, DrainCollect, Ages, GraceOver,
     ReapStep, ReapList, ReapRemove, ReapCondemn, BumpGeneration, Restart
<1>3. impatient \in Nat
  BY DEF TypeOK
<1> QED
  BY <1>1, <1>2, <1>3

\* OnePending is kept by every step.
LEMMA OnePendingStep ==
  ASSUME TypeOK, OnePending, [Next]_vars
  PROVE  OnePending'
<1> SUFFICES ASSUME impatient' = 0, NEW t \in Turns, NEW u \in Turns,
                    Pending(t)', Pending(u)', sess'[t] = sess'[u]
             PROVE  t = u
  BY DEF OnePending
<1>1. impatient = 0
  BY ImpatientGrows
<1>2. /\ Begun(t) \/ (Pending(t) /\ Kept(t))
      /\ Begun(u) \/ (Pending(u) /\ Kept(u))
  BY PendingStep
<1>3. ASSUME NEW a \in Turns, NEW b \in Turns, Begun(a), Pending(b), Kept(b),
             sess'[a] = sess'[b]
      PROVE  FALSE
  <2>1. sess'[a] \in Sessions /\ impatient' = 0
    BY <1>3 DEF Begun, BeginTurn, TypeOK
  <2>2. PICK s \in Sessions :
           /\ sess' = [sess EXCEPT ![a] = s]
           /\ IF \E v \in Turns : sess[v] = s /\ Pending(v)
                THEN impatient < MaxImpatient /\ Unspent /\ impatient' = impatient + 1
                ELSE UNCHANGED impatient
    BY <1>3 DEF Begun, BeginTurn
  <2>3. sess[b] = s
    BY <1>3, <2>2 DEF Kept, TypeOK
  <2>4. impatient' = impatient + 1
    BY <1>3, <2>2, <2>3
  <2> QED
    BY <1>1, <2>1, <2>4
<1>4. CASE Begun(t) /\ Begun(u)
  BY <1>4, TurnStep DEF Begun, Still
<1>5. CASE Pending(t) /\ Pending(u) /\ Kept(t) /\ Kept(u)
  BY <1>1, <1>5 DEF OnePending, Kept
<1> QED
  BY <1>2, <1>3, <1>4, <1>5

\* A turn gets aboard a container by dispatch_turn, under the stable name.
LEMMA BoardStep ==
  ASSUME TypeOK, Unspawned, [Next]_vars, NEW c \in Turns, NEW t \in Aboard(c)',
         t \notin Aboard(c)
  PROVE  Feed(t) /\ c \in Stable(sess[t])
<1>1. Case(c)
  BY PoolStep
<1>2. CASE Same(c) \/ Marked(c) \/ Removed(c) \/ Started(c) \/ Finished(c)
  BY <1>2 DEF Same, Marked, Removed, Started, Finished, Aboard, NoContainer
<1>3. CASE Created(c)
  BY <1>3 DEF Created, Aboard
<1>4. CASE Fed(c)
  BY <1>4 DEF Fed, Aboard
<1>5. CASE Taken(c)
  BY <1>5 DEF Taken, Aboard
<1>6. CASE Closed(c)
  BY <1>6 DEF Closed, Aboard
<1> QED
  BY <1>1, <1>2, <1>3, <1>4, <1>5, <1>6 DEF Case

\* FoundFit is kept by every step.
LEMMA FoundFitStep ==
  ASSUME TypeOK, Unspawned, AtMostOne, OnePending, FoundFit, [Next]_vars
  PROVE  FoundFit'
<1> SUFFICES ASSUME impatient' = 0, NEW t \in Turns, pc'[t] \in {"start", "check", "feed"},
                    NEW c \in Turns, (c \in Stable(sess[t]))'
             PROVE  seen'[c] = seen'[t]
  BY DEF FoundFit, Stable
<1>1. impatient = 0
  BY ImpatientGrows
<1>2. Kept(c) /\ ((Present(c) /\ pool[c].name = "stable") \/ Created(c)) /\ sess'[c] = sess'[t]
  BY StableStep DEF Stable
<1>3. (Still(t) \/ Moved(t)) /\ Kept(t)
  BY TurnStep DEF TurnCase, Begun, Ended, Still, Moved
<1>4. /\ c \in Stable(sess[t]) \/ (Created(c) /\ Stable(sess[t]) = {})
      /\ sess[c] = sess[t] /\ seen'[c] = seen[c] /\ seen'[t] = seen[t]
  BY <1>2, <1>3 DEF Kept, Stable, Created
<1>5. CASE Created(c) /\ c # t
  <2>1. DispatchStep(c) /\ pc[c] = "create"
    BY <1>2, <1>5, StepEffect DEF Created, DispatchStep, Create, PCs
  <2>2. Still(t)
    BY <1>2, <1>5, <2>1, TurnStep
  <2>3. Pending(c) /\ Pending(t)
    BY <2>1, <2>2 DEF Still, Pending, Dispatching
  <2> QED
    BY <1>1, <1>2, <1>4, <1>5, <2>3 DEF OnePending
<1>6. CASE c = t
  BY <1>6
<1>7. CASE c \in Stable(sess[t]) /\ c # t
  <2>1. CASE Still(t)
    BY <1>1, <1>4, <1>7, <2>1 DEF FoundFit, Still
  <2>2. CASE Moved(t)
    <3>0. DispatchStep(t)
      BY <2>2 DEF Moved
    <3>1. CASE pc'[t] = "start"
      <4>1. Create(t)
        BY <3>0, <3>1, DispatchOrder
      <4>2. Stable(sess[t]) = {}
        BY <3>1, <4>1, StepEffect DEF Create, PCs
      <4> QED
        BY <1>7, <4>2
    <3>2. CASE pc'[t] = "check"
      <4>1. Look(t)
        BY <3>0, <3>2, DispatchOrder
      <4>2. PICK d \in Stable(sess[t]) : SameEpoch(t, d)
        BY <3>2, <4>1, StepEffect DEF Look, PCs
      <4>3. c = d
        BY <1>7, <4>2 DEF AtMostOne, TypeOK
      <4> QED
        BY <1>4, <4>2, <4>3 DEF SameEpoch
    <3>3. CASE pc'[t] = "feed"
      <4>1. pc[t] \in {"check", "start"}
        BY <3>0, <3>3, DispatchOrder, StepEffect DEF CheckReuse, Start, StartFails, PCs
      <4> QED
        BY <1>1, <1>4, <1>7, <4>1 DEF FoundFit
    <3> QED
      BY <3>1, <3>2, <3>3
  <2> QED
    BY <1>3, <2>1, <2>2
<1> QED
  BY <1>4, <1>5, <1>6, <1>7

\* NotAboard is kept by every step.
LEMMA NotAboardStep ==
  ASSUME TypeOK, Unspawned, NotAboard, [Next]_vars
  PROVE  NotAboard'
<1> SUFFICES ASSUME NEW t \in Turns, NEW c \in Turns, pc'[t] = "new" PROVE t \notin Aboard(c)'
  BY DEF NotAboard
<1>1. pc[t] = "new"
  BY TurnStep, DispatchOrder DEF TurnCase, Still, Begun, Moved, Ended
<1>2. t \notin Aboard(c)
  BY <1>1 DEF NotAboard
<1>3. ASSUME t \in Aboard(c)' PROVE Feed(t)
  BY <1>2, <1>3, BoardStep
<1>4. ~Feed(t)
  BY <1>1, StepEffect DEF Feed, PCs
<1> QED
  BY <1>3, <1>4

\* ServedByItsGeneration is kept, given the other parts.
LEMMA ServedStep ==
  ASSUME TypeOK, Unspawned, NotAboard, FoundFit, ServedByItsGeneration, [Next]_vars
  PROVE  ServedByItsGeneration'
<1> SUFFICES ASSUME impatient' = 0, NEW c \in Turns, NEW t \in Aboard(c)'
             PROVE  seen'[c] = seen'[t]
  BY DEF ServedByItsGeneration
<1>1. impatient = 0
  BY ImpatientGrows
<1>2. t \in Turns
  BY TypeStep DEF TypeOK, Aboard, Containers
<1>3. \A u \in Turns : pc[u] # "new" => seen'[u] = seen[u]
  BY TurnStep DEF TurnCase, Still, Begun, Moved, Ended, Kept
<1>4. CASE t \in Aboard(c)
  <2>1. pc[t] # "new" /\ seen[c] = seen[t]
    BY <1>1, <1>2, <1>4 DEF NotAboard, ServedByItsGeneration
  <2>2. pc[c] # "new"
    BY <1>4, WarmPoolAssumption DEF Unspawned, Unborn, NoContainer, Aboard
  <2> QED
    BY <1>2, <1>3, <2>1, <2>2
<1>5. CASE t \notin Aboard(c)
  <2>1. Feed(t) /\ c \in Stable(sess[t])
    BY <1>2, <1>5, BoardStep
  <2>2. pc[t] = "feed"
    BY <1>2, <2>1, StepEffect DEF Feed, PCs
  <2>3. pc[c] # "new"
    BY <2>1 DEF Unspawned, Unborn, NoContainer, Stable, Present
  <2>4. seen[c] = seen[t]
    BY <1>1, <1>2, <2>1, <2>2 DEF FoundFit
  <2> QED
    BY <1>2, <1>3, <2>2, <2>3, <2>4
<1> QED
  BY <1>4, <1>5

GenerationInv ==
    TypeOK /\ Unspawned /\ AtMostOne /\ OnePending /\ FoundFit /\ NotAboard
    /\ ServedByItsGeneration

\* GenerationInv holds at the start.
LEMMA GenerationInit == Init => GenerationInv
<1> SUFFICES ASSUME Init PROVE GenerationInv
  OBVIOUS
<1>1. Unspawned
  BY DEF Init, Unspawned
<1>2. \A c \in Turns : ~Present(c) /\ Aboard(c) = {} /\ ~Pending(c) /\ pc[c] = "new"
  BY DEF Init, NoContainer, Present, Aboard, Pending, Dispatching
<1>3. AtMostOne /\ OnePending /\ FoundFit /\ NotAboard /\ ServedByItsGeneration
  BY <1>2 DEF AtMostOne, OnePending, FoundFit, NotAboard, ServedByItsGeneration, Stable
<1> QED
  BY <1>1, <1>3, TypeInit DEF GenerationInv

\* GenerationInv is kept by every step.
LEMMA GenerationStep == GenerationInv /\ [Next]_vars => GenerationInv'
<1> SUFFICES ASSUME GenerationInv, [Next]_vars PROVE GenerationInv'
  OBVIOUS
<1> QED
  BY TypeStep, UnspawnedStep, AtMostOneStep, OnePendingStep, FoundFitStep, NotAboardStep,
     ServedStep DEF GenerationInv

\* get_or_create's reason to compare epoch labels: as long as the caller keeps
\* a session's turns apart, a turn is only ever aboard a container of the
\* generation it read, though the container is looked up again, by name, after
\* the session lock was released.
THEOREM ServedByGeneration == Spec => []ServedByItsGeneration
<1>1. GenerationInv => ServedByItsGeneration
  BY DEF GenerationInv
<1> QED
  BY <1>1, GenerationInit, GenerationStep, PTL DEF Spec

-----------------------------------------------------------------------------
(***************************************************************************)
(* The overshoot of the ceiling.                                           *)
(***************************************************************************)

\* The most live containers that the counted spawns seen at one time account
\* for, those still under way taken as if they had succeeded.
Overshoot ==
    /\ Cardinality(Spawning) <= peak
    /\ peak > 0 => Cardinality(Live \ uncounted) + Cardinality(Spawning) < MaxWarm + peak

\* A turn passes the count, or slips by because the listing failed.
Passes(t) ==
    /\ Cardinality(Live) < MaxWarm /\ pool' = pool
    /\ pc[t] = "ceiling" /\ pc'[t] = "create" /\ \A u \in Turns \ {t} : pc'[u] = pc[u]
    /\ uncounted' = uncounted
    /\ peak' = IF Cardinality(Spawning) + 1 > peak THEN Cardinality(Spawning) + 1 ELSE peak

Slips(t) == uncounted' = uncounted \union {t} /\ peak' = peak

\* What a step at the ceiling check does.
LEMMA CeilingStep ==
  ASSUME TypeOK, NEW t \in Turns, CheckCeiling(t)
  PROVE  \/ Passes(t) \/ Slips(t)
         \/ pc'[t] = "cold" /\ UNCHANGED <<uncounted, peak>>
<1>1. ASSUME NEW ceiling \in 1..MaxWarm, ~Full(ceiling) PROVE Cardinality(Live) < MaxWarm
  <2>1. Cardinality(Live) \in Nat
    BY Counting DEF Live
  <2> QED
    BY <1>1, <2>1, WarmPoolAssumption DEF Full
<1>2. ASSUME Step(t, "ceiling", "create")
      PROVE  /\ pc[t] = "ceiling" /\ pc'[t] = "create"
             /\ \A u \in Turns \ {t} : pc'[u] = pc[u]
  BY <1>2, StepEffect DEF PCs
<1>3. ASSUME Step(t, "ceiling", "cold") PROVE pc'[t] = "cold"
  BY <1>3, StepEffect DEF PCs
<1> QED
  BY <1>1, <1>2, <1>3 DEF CheckCeiling, Passes, Slips

\* A container becomes live only when its turn starts it.
LEMMA LiveStep ==
  ASSUME TypeOK, [Next]_vars, NEW c \in Live'
  PROVE  c \in Turns /\ (c \in Live \/ Start(c))
<1>1. c \in Turns /\ Running(c)' /\ pool'[c].name = "stable"
  BY DEF Live
<1>2. Case(c) /\ pool[c] \in Containers
  BY <1>1, PoolStep DEF TypeOK
<1>3. ~Created(c) /\ ~Removed(c)
  BY <1>1 DEF Created, Removed, NoContainer, Running, CliUp
<1> QED
  BY <1>1, <1>2, <1>3 DEF Case, Same, Marked, Started, Fed, Taken, Finished, Closed, Live,
     Stable, Running, CliUp

\* The count of spawns moves only at the ceiling check.
LEMMA PeakStep ==
  ASSUME TypeOK, [Next]_vars
  PROVE  UNCHANGED <<uncounted, peak>> \/ \E t \in Turns : Passes(t) \/ Slips(t)
<1>1. ASSUME NEW t \in Turns, CheckCeiling(t)
      PROVE  UNCHANGED <<uncounted, peak>> \/ Passes(t) \/ Slips(t)
  BY <1>1, CeilingStep
<1>2. CASE ~ \E t \in Turns : CheckCeiling(t)
  BY <1>2 DEF Next, vars, pastVars, BeginTurn, DispatchStep, Acquire, Look, ForceRemove,
     CheckReuse, RenameStale, Create, BuildFails, Start, Feed, CliStep, TakeTurn,
     SeeDrain, CliExits, ContainerStops, FinishTurn, WatchTtl, WrapperKills, DrainTouch,
     DrainCollect, Ages, GraceOver, ReapStep, ReapList, ReapRemove, ReapCondemn,
     BumpGeneration, Restart
<1> QED
  BY <1>1, <1>2

\* A counted spawn gets under way only by passing the count.
LEMMA SpawningStep ==
  ASSUME TypeOK, [Next]_vars, NEW t \in Spawning'
  PROVE  t \in Turns /\ (t \in Spawning \/ Passes(t))
<1>1. t \in Turns /\ t \notin uncounted' /\ pc'[t] \in {"create", "start"}
  BY DEF Spawning
<1>2. t \notin uncounted
  BY <1>1, PeakStep DEF Passes, Slips
<1>3. Still(t) \/ DispatchStep(t)
  BY <1>1, TurnStep DEF TurnCase, Begun, Moved, Ended
<1>4. CASE Still(t)
  BY <1>1, <1>2, <1>4 DEF Still, Spawning
<1>5. CASE DispatchStep(t)
  <2>1. CheckCeiling(t) \/ Create(t)
    BY <1>1, <1>5, DispatchOrder
  <2>2. Create(t) => pc[t] = "create"
    BY <1>1, StepEffect DEF Create, PCs
  <2>3. CheckCeiling(t) => Passes(t)
    BY <1>1, CeilingStep DEF Slips
  <2> QED
    BY <1>1, <1>2, <2>1, <2>2, <2>3 DEF Spawning
<1> QED
  BY <1>3, <1>4, <1>5

\* Overshoot is kept by every step.
LEMMA OvershootStep ==
  ASSUME TypeOK, Overshoot, [Next]_vars
  PROVE  Overshoot'
<1> DEFINE L == Live \ uncounted
<1>0. Live \in SUBSET Turns /\ L \in SUBSET Turns /\ Spawning \in SUBSET Turns
  BY DEF Live, Spawning
<1>1. L' \in SUBSET Turns /\ Spawning' \in SUBSET Turns
  BY DEF Live, Spawning
<1>2. /\ IsFiniteSet(Live) /\ IsFiniteSet(L) /\ IsFiniteSet(Spawning)
      /\ IsFiniteSet(L') /\ IsFiniteSet(Spawning')
      /\ Cardinality(Live) \in Nat /\ Cardinality(L) \in Nat /\ Cardinality(Spawning) \in Nat
      /\ Cardinality(L') \in Nat /\ Cardinality(Spawning') \in Nat
  BY <1>0, <1>1, Counting
<1>3. MaxWarm \in Nat /\ peak \in Nat
  BY WarmPoolAssumption DEF TypeOK
<1>4. /\ Cardinality(Spawning) <= peak
      /\ peak > 0 => Cardinality(L) + Cardinality(Spawning) < MaxWarm + peak
  BY DEF Overshoot
<1>f. ASSUME NEW n \in Nat, Cardinality(Spawning') <= peak', peak' = n,
             n > 0 => Cardinality(L') + Cardinality(Spawning') < MaxWarm + n
      PROVE  Overshoot'
  BY <1>f DEF Overshoot
<1>5. ASSUME NEW t \in Turns, Passes(t) PROVE Overshoot'
  <2>1. Spawning' \subseteq Spawning \union {t}
    BY <1>5 DEF Passes, Spawning
  <2>2. /\ IsFiniteSet(Spawning \union {t})
        /\ Cardinality(Spawning \union {t}) \in {Cardinality(Spawning), Cardinality(Spawning) + 1}
    BY <1>2, FS_AddElement
  <2>3. Cardinality(Spawning') <= Cardinality(Spawning) + 1
    <3>1. Cardinality(Spawning') <= Cardinality(Spawning \union {t})
      BY <2>1, <2>2, FS_Subset
    <3>2. Cardinality(Spawning \union {t}) \in Nat
      BY <2>2, FS_CardinalityType
    <3> QED
      BY <1>2, <2>2, <3>1, <3>2
  <2>4. L' = L
    BY <1>5 DEF Passes, Live, Running, CliUp
  <2>5. Cardinality(L) < MaxWarm
    <3>1. Cardinality(L) <= Cardinality(Live)
      BY <1>2, FS_Subset
    <3> QED
      BY <1>2, <1>3, <1>5, <3>1 DEF Passes
  <2>6. peak' = IF Cardinality(Spawning) + 1 > peak THEN Cardinality(Spawning) + 1 ELSE peak
    BY <1>5 DEF Passes
  <2>7. peak' \in Nat /\ Cardinality(Spawning) + 1 <= peak'
    BY <1>2, <1>3, <2>6
  <2>8. /\ Cardinality(Spawning') <= peak'
        /\ Cardinality(L') + Cardinality(Spawning') < MaxWarm + peak'
    BY <1>2, <1>3, <2>3, <2>4, <2>5, <2>7
  <2> QED
    BY <1>f, <2>7, <2>8
<1>6. ASSUME NEW t \in Turns, Start(t) PROVE Overshoot'
  <2>1. /\ pc[t] = "start" /\ pc'[t] \in {"feed", "failed"}
        /\ \A u \in Turns \ {t} : pc'[u] = pc[u]
    BY <1>6, StepEffect DEF Start, StartFails, PCs
  <2>2. peak' = peak /\ uncounted' = uncounted
    BY <1>6 DEF Start, pastVars
  <2>3. Spawning' = Spawning \ {t}
    BY <2>1, <2>2 DEF Spawning
  <2>4. \A c \in Turns \ {t} : ~Start(c)
    BY <2>1, StepEffect DEF Start, StartFails, PCs
  <2>5. Live' \subseteq Live \union {t}
    BY <2>4, LiveStep
  <2>6. CASE t \in uncounted
    <3>1. L' \subseteq L /\ Spawning' \subseteq Spawning
      BY <2>2, <2>3, <2>5, <2>6
    <3>2. Cardinality(L') <= Cardinality(L) /\ Cardinality(Spawning') <= Cardinality(Spawning)
      BY <1>2, <3>1, FS_Subset
    <3> QED
      BY <1>f, <1>2, <1>3, <1>4, <2>2, <3>2
  <2>7. CASE t \notin uncounted
    <3>1. t \in Spawning /\ L' \subseteq L \union {t}
      BY <2>1, <2>2, <2>5, <2>7 DEF Spawning
    <3>2. Cardinality(Spawning') = Cardinality(Spawning) - 1
      BY <1>2, <2>3, <3>1, FS_RemoveElement
    <3>3. /\ IsFiniteSet(L \union {t})
          /\ \/ Cardinality(L \union {t}) = Cardinality(L)
             \/ Cardinality(L \union {t}) = Cardinality(L) + 1
      BY <1>2, FS_AddElement
    <3>4. Cardinality(L') <= Cardinality(L \union {t})
      BY <3>1, <3>3, FS_Subset
    <3>5. /\ Cardinality(Spawning') <= peak
          /\ peak > 0 => Cardinality(L') + Cardinality(Spawning') < MaxWarm + peak
      BY <1>2, <1>3, <1>4, <3>2, <3>3, <3>4
    <3> QED
      BY <1>f, <1>3, <2>2, <3>5
  <2> QED
    BY <2>6, <2>7
<1>7. CASE ~ \E t \in Turns : Passes(t) \/ Start(t)
  <2>1. peak' = peak /\ uncounted \subseteq uncounted'
    BY <1>7, PeakStep DEF Slips
  <2>2. Live' \subseteq Live
    BY <1>7, LiveStep
  <2>3. L' \subseteq L /\ Spawning' \subseteq Spawning
    BY <1>7, <2>1, <2>2, SpawningStep
  <2>4. Cardinality(L') <= Cardinality(L) /\ Cardinality(Spawning') <= Cardinality(Spawning)
    BY <1>2, <2>3, FS_Subset
  <2> QED
    BY <1>f, <1>2, <1>3, <1>4, <2>1, <2>4
<1> QED
  BY <1>5, <1>6, <1>7

\* Overshoot holds at the start.
LEMMA OvershootInit == Init => Overshoot
<1> SUFFICES ASSUME Init PROVE Overshoot
  OBVIOUS
<1>1. Spawning = {} /\ peak = 0
  BY DEF Init, Spawning
<1> QED
  BY <1>1, FS_EmptySet DEF Overshoot

\* get_or_create: "overshoot bounded by the worker concurrency": the ceiling is
\* read and the container started in two steps, on several workers that may go
\* by different ceilings, so there may be more live containers than it allows;
\* of those whose spawn was counted, never more than the counted spawns that
\* were under way at one time explain.  Spawns that got by because the engine's
\* listing failed are outside the bound, as _check_ceiling wants them to be.
THEOREM CeilingBound == Spec => []CeilingHolds
<1>1. TypeOK /\ Overshoot => CeilingHolds
  <2> SUFFICES ASSUME TypeOK, Overshoot, peak > 0
               PROVE  Cardinality(Live \ uncounted) < MaxWarm + peak
    BY DEF CeilingHolds
  <2>1. Live \ uncounted \in SUBSET Turns /\ Spawning \in SUBSET Turns
    BY DEF Live, Spawning
  <2>2. Cardinality(Live \ uncounted) \in Nat /\ Cardinality(Spawning) \in Nat
    BY <2>1, Counting
  <2>3. MaxWarm \in Nat /\ peak \in Nat
    BY WarmPoolAssumption DEF TypeOK
  <2>4. Cardinality(Live \ uncounted) + Cardinality(Spawning) < MaxWarm + peak
    BY DEF Overshoot
  <2> QED
    BY <2>2, <2>3, <2>4
<1>2. Init => TypeOK /\ Overshoot
  BY TypeInit, OvershootInit
<1>3. TypeOK /\ Overshoot /\ [Next]_vars => TypeOK' /\ Overshoot'
  BY TypeStep, OvershootStep
<1> QED
  BY <1>1, <1>2, <1>3, PTL DEF Spec
=============================================================================
