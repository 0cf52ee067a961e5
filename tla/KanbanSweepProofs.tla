-------------------------- MODULE KanbanSweepProofs --------------------------
(***************************************************************************)
(* Proofs about KanbanSweep, for any board, any dispatchers on either side *)
(* and any number of faults: type correctness, that a card fires once      *)
(* unless it was raced for, and that no run flies under a Ready card.      *)
(***************************************************************************)
EXTENDS KanbanSweep, TLAPS

-----------------------------------------------------------------------------
(***************************************************************************)
(* The inductive invariant.  A sweep owns a card from its won claim to the *)
(* start of the run.  Once a card has an owner or has fired, nobody else   *)
(* can come to own it: who is about to claim it is known to be outdated,   *)
(* and who has claimed it will not read its own token back.                *)
(***************************************************************************)
Owns(s, c) == pc[s] \in {"move", "dispatch"} /\ at[s] = c

Taken(c) == fired[c] > 0 \/ \E s \in Sweeps : Owns(s, c)

LeftReady ==
    requeues = 0 =>
        /\ \A c \in Cards \ unmoved : fired[c] > 0 => status[c] # "ready"
        /\ \A s \in Sweeps : pc[s] = "dispatch" /\ at[s] \notin unmoved => status[at[s]] # "ready"

OneShot(c) ==
    /\ fired[c] <= 1
    /\ \A s, t \in Sweeps : Owns(s, c) /\ Owns(t, c) => s = t
    /\ \A s \in Sweeps : Owns(s, c) => fired[c] = 0
    /\ Taken(c) => \A t \in Sweeps : at[t] = c =>
          /\ pc[t] = "claim" => t \in outdated
          /\ pc[t] = "readback" => holder[c] # t

OneShots == \A c \in Cards \ (raced \union unmoved) : requeues = 0 => OneShot(c)

FireInv == LeftReady /\ OneShots

-----------------------------------------------------------------------------
\* A step that leaves the cards, the raced ones and the outdated sweeps alone
\* and only takes a sweep out of its work keeps FireInv.
LEMMA StandDown ==
  ASSUME TypeOK, FireInv,
         UNCHANGED <<status, holder, fired, outdated, raced, unmoved, requeues>>,
         \A s \in Sweeps : \/ pc'[s] = pc[s] /\ at'[s] = at[s]
                           \/ pc'[s] \in {"idle", "pick", "reread"}
  PROVE  FireInv'
<1>1. LeftReady'
  BY DEF FireInv, LeftReady
<1>2. ASSUME NEW c \in Cards \ (raced \union unmoved), requeues = 0 PROVE OneShot(c)'
  <2>1. OneShot(c)
    BY <1>2 DEF FireInv, OneShots
  <2>2. \A s \in Sweeps : Owns(s, c)' => Owns(s, c)
    BY DEF Owns
  <2>3. Taken(c)' => Taken(c)
    BY <2>2 DEF Taken
  <2> QED
    BY <2>1, <2>2, <2>3 DEF OneShot
<1> QED
  BY <1>1, <1>2 DEF FireInv, OneShots

\* A failed call stays within the bound, and so does a card put back.
LEMMA CountersBounded ==
  ASSUME TypeOK
  PROVE  /\ Fault => faults' \in 0..MaxFaults
         /\ requeues < MaxRequeues /\ requeues' = requeues + 1 => requeues' \in 0..MaxRequeues
<1>1. faults \in 0..MaxFaults /\ requeues \in 0..MaxRequeues
  BY DEF TypeOK
<1>2. MaxFaults \in Nat /\ MaxRequeues \in Nat
  BY KanbanAssumption
<1> QED
  BY <1>1, <1>2 DEF Fault

\* A run of one side starts or ends.
LEMMA RunsType ==
  ASSUME TypeOK, NEW d \in Sides, NEW c \in Cards, NEW phase \in {"live", "over"},
         runs' = [runs EXCEPT ![d][c] = phase]
  PROVE  runs' \in [Sides -> [Cards -> {"none", "live", "over"}]]
BY DEF TypeOK

\* One more run of a card.
LEMMA FiredType ==
  ASSUME TypeOK, NEW s \in Sweeps, fired' = [fired EXCEPT ![at[s]] = @ + 1]
  PROVE  fired' \in [Cards -> Nat]
<1>1. fired \in [Cards -> Nat] /\ at[s] \in Cards
  BY DEF TypeOK
<1>2. fired[at[s]] + 1 \in Nat
  BY <1>1
<1> QED
  BY <1>1, <1>2

\* The platform's own side or the monolith's.
LEMMA SideType == ASSUME NEW s \in Sweeps PROVE Side(s) \in Sides
BY DEF Side, Sides

\* Moving one sweep to a step keeps the type of pc.
LEMMA GoType ==
  ASSUME TypeOK, NEW s \in Sweeps, NEW from, NEW to \in PCs, Go(s, from, to)
  PROVE  /\ pc' \in [Sweeps -> PCs] /\ at' \in [Sweeps -> Cards]
         /\ todo' \in [Sweeps -> SUBSET Cards]
BY DEF TypeOK, Go

\* Every variable keeps its type.
LEMMA TypeStep == TypeOK /\ [Next]_vars => TypeOK'
<1> SUFFICES ASSUME TypeOK, [Next]_vars PROVE TypeOK'
  OBVIOUS
<1> USE DEF boardVars, passVars, pastVars
<1>0. {"idle", "pick", "reread", "claim", "readback", "move", "dispatch", "stamp"} = PCs
  BY DEF PCs
<1>1. ASSUME NEW s \in Sweeps, BeginPass(s) PROVE TypeOK'
  BY <1>1 DEF BeginPass, TypeOK, PCs
<1>2. ASSUME NEW s \in Sweeps, NextCard(s) PROVE TypeOK'
  <2>1. PICK c \in todo[s] :
           /\ todo' = [todo EXCEPT ![s] = @ \ {c}]
           /\ \/ UNCHANGED <<pc, at, faults>>
              \/ /\ at' = [at EXCEPT ![s] = c] /\ pc' = [pc EXCEPT ![s] = "reread"]
                 /\ Fault \/ UNCHANGED faults
    BY <1>2 DEF NextCard
  <2>2. faults' \in 0..MaxFaults
    BY <2>1, CountersBounded DEF TypeOK
  <2>3. c \in Cards
    BY DEF TypeOK
  <2>4. /\ todo' \in [Sweeps -> SUBSET Cards] /\ at' \in [Sweeps -> Cards]
        /\ pc' \in [Sweeps -> PCs]
    BY <1>0, <2>1, <2>3 DEF TypeOK
  <2> QED
    BY <1>2, <2>2, <2>4 DEF NextCard, TypeOK
<1>3. ASSUME NEW s \in Sweeps, EndPass(s) PROVE TypeOK'
  BY <1>3 DEF EndPass, TypeOK, PCs
<1>4. ASSUME NEW s \in Sweeps, Reread(s) PROVE TypeOK'
  BY <1>4 DEF Reread, Go, TypeOK, PCs
<1>5. ASSUME NEW s \in Sweeps, ClaimWrite(s) PROVE TypeOK'
  BY <1>5 DEF ClaimWrite, Go, Write, TypeOK, PCs
<1>6. ASSUME NEW s \in Sweeps, ClaimRead(s) PROVE TypeOK'
  BY <1>6 DEF ClaimRead, Go, Others, TypeOK, PCs
<1>7. ASSUME NEW s \in Sweeps, MoveCard(s) PROVE TypeOK'
  <2>1. faults' \in 0..MaxFaults
    BY <1>7, CountersBounded DEF MoveCard, TypeOK
  <2>2. pc' \in [Sweeps -> PCs] /\ at' \in [Sweeps -> Cards] /\ todo' \in [Sweeps -> SUBSET Cards]
    BY <1>0, <1>7, GoType DEF MoveCard
  <2>3. /\ status' \in [Cards -> {"ready", "running", "elsewhere"}]
        /\ unmoved' \in SUBSET Cards
    BY <1>7 DEF MoveCard, TypeOK
  <2> QED
    BY <1>7, <2>1, <2>2, <2>3 DEF MoveCard, TypeOK
<1>8. ASSUME NEW s \in Sweeps, Dispatch(s) PROVE TypeOK'
  <2>1. runs' \in [Sides -> [Cards -> {"none", "live", "over"}]]
    BY <1>8, RunsType, SideType DEF Dispatch, TypeOK
  <2>2. pc' \in [Sweeps -> PCs] /\ UNCHANGED <<at, todo>>
    BY <1>8 DEF Dispatch, Go, TypeOK, PCs
  <2>3. fired' \in [Cards -> Nat]
    BY <1>8, FiredType DEF Dispatch
  <2> QED
    BY <1>8, <2>1, <2>2, <2>3 DEF Dispatch, TypeOK
<1>9. ASSUME NEW s \in Sweeps, Stamp(s) PROVE TypeOK'
  BY <1>9 DEF Stamp, Go, Write, TypeOK, PCs
<1>10. ASSUME NEW s \in Sweeps, CallFails(s) PROVE TypeOK'
  <2>1. PICK step \in PCs : Go(s, step, "pick")
    BY <1>10 DEF CallFails
  <2>2. faults' \in 0..MaxFaults
    BY <1>10, CountersBounded DEF CallFails
  <2> QED
    BY <1>10, <1>0, <2>1, <2>2, GoType DEF CallFails, TypeOK
<1>11. ASSUME NEW s \in Sweeps, AnswerLost(s) PROVE TypeOK'
  <2>1. faults' \in 0..MaxFaults
    BY <1>11, CountersBounded DEF AnswerLost
  <2>2. CASE Go(s, "claim", "pick") /\ Write(s, s) /\ UNCHANGED <<status, runs, pastVars>>
    BY <1>11, <2>1, <2>2 DEF AnswerLost, Go, Write, TypeOK, PCs
  <2>3. CASE /\ Go(s, "move", "pick") /\ status' = [status EXCEPT ![at[s]] = "running"]
             /\ UNCHANGED <<holder, runs, pastVars>>
    BY <1>11, <2>1, <2>3 DEF AnswerLost, Go, TypeOK, PCs
  <2>4. CASE /\ Go(s, "dispatch", "pick")
             /\ fired' = [fired EXCEPT ![at[s]] = @ + 1]
             /\ runs' = [runs EXCEPT ![Side(s)][at[s]] = "live"]
             /\ UNCHANGED <<boardVars, outdated, raced, unmoved>>
    <3>1. runs' \in [Sides -> [Cards -> {"none", "live", "over"}]]
      BY <2>4, RunsType, SideType DEF TypeOK
    <3>2. pc' \in [Sweeps -> PCs] /\ UNCHANGED <<at, todo>>
      BY <2>4 DEF Go, TypeOK, PCs
    <3>3. fired' \in [Cards -> Nat]
      BY <2>4, FiredType
    <3> QED
      BY <1>11, <2>1, <2>4, <3>1, <3>2, <3>3 DEF AnswerLost, TypeOK
  <2>5. CASE Go(s, "stamp", "pick") /\ Write(s, "run id") /\ UNCHANGED <<status, runs, pastVars>>
    BY <1>11, <2>1, <2>5 DEF AnswerLost, Go, Write, TypeOK, PCs
  <2> QED
    BY <1>11, <2>2, <2>3, <2>4, <2>5 DEF AnswerLost
<1>12. ASSUME NEW s \in Sweeps, SweepDies(s) PROVE TypeOK'
  <2>1. faults' \in 0..MaxFaults
    BY <1>12, CountersBounded DEF SweepDies
  <2> QED
    BY <1>12, <2>1 DEF SweepDies, TypeOK, PCs
<1>13. ASSUME NEW d \in Sides, NEW c \in Cards, RunEnds(d, c) PROVE TypeOK'
  <2>1. runs' \in [Sides -> [Cards -> {"none", "live", "over"}]]
    BY <1>13, RunsType DEF RunEnds
  <2> QED
    BY <1>13, <2>1 DEF RunEnds, TypeOK
<1>14. ASSUME NEW c \in Cards, TakeAway(c) PROVE TypeOK'
  BY <1>14 DEF TakeAway, TypeOK
<1>15. ASSUME NEW c \in Cards, Requeue(c) PROVE TypeOK'
  <2>1. requeues' \in 0..MaxRequeues
    BY <1>15, CountersBounded DEF Requeue
  <2> QED
    BY <1>15, <2>1 DEF Requeue, TypeOK
<1>16. CASE UNCHANGED vars
  BY <1>16 DEF vars, TypeOK
<1> QED
  BY <1>1, <1>2, <1>3, <1>4, <1>5, <1>6, <1>7, <1>8, <1>9, <1>10, <1>11, <1>12,
     <1>13, <1>14, <1>15, <1>16 DEF Next, PassStep

\* Every variable of KanbanSweep keeps its type, for any board and dispatchers.
THEOREM TypeCorrect == Spec => []TypeOK
<1>1. Init => TypeOK
  <2> SUFFICES ASSUME Init PROVE TypeOK
    OBVIOUS
  <2>1. faults \in 0..MaxFaults /\ requeues \in 0..MaxRequeues
    <3>1. MaxFaults \in Nat /\ MaxRequeues \in Nat
      BY KanbanAssumption
    <3>2. faults = 0 /\ requeues = 0
      BY DEF Init
    <3> QED
      BY <3>1, <3>2
  <2>2. (CHOOSE c \in Cards : TRUE) \in Cards
    BY KanbanAssumption
  <2>3. at \in [Sweeps -> Cards]
    BY <2>2 DEF Init
  <2>4. pc \in [Sweeps -> PCs]
    BY DEF Init, PCs
  <2> QED
    BY <2>1, <2>3, <2>4 DEF Init, TypeOK
<1> QED
  BY <1>1, TypeStep, PTL DEF Spec
-----------------------------------------------------------------------------
\* A sweep that goes on at one step leaves the others where they are.
LEMMA GoMoves ==
  ASSUME TypeOK, NEW s \in Sweeps, NEW from, NEW to, Go(s, from, to)
  PROVE  /\ pc[s] = from /\ pc'[s] = to /\ at' = at
         /\ \A t \in Sweeps \ {s} : pc'[t] = pc[t]
BY DEF TypeOK, Go

\* What each card was is what it stays, in a step that moves one sweep and
\* writes at most the card it works on.
LEMMA RereadKeeps ==
  ASSUME TypeOK, FireInv, NEW s \in Sweeps, Reread(s)
  PROVE  FireInv'
<1> USE DEF boardVars
<1>1. /\ pc[s] = "reread" /\ pc'[s] \in {"claim", "pick"} /\ at' = at
      /\ pc'[s] = "claim" => status[at[s]] = "ready"
      /\ \A t \in Sweeps \ {s} : pc'[t] = pc[t]
  BY GoMoves DEF Reread, StillReady
<1>2. LeftReady'
  BY <1>1 DEF Reread, FireInv, LeftReady
<1>3. ASSUME NEW c \in Cards \ (raced \union unmoved), requeues = 0 PROVE OneShot(c)'
  <2>1. OneShot(c) /\ LeftReady
    BY <1>3 DEF FireInv, OneShots
  <2>2. \A t \in Sweeps : Owns(t, c)' <=> Owns(t, c)
    BY <1>1 DEF Owns
  <2>3. Taken(c)' <=> Taken(c)
    BY <2>2 DEF Taken, Reread
  <2>4. ASSUME NEW t \in Sweeps, at[t] = c, pc'[t] = "claim", Taken(c) PROVE t \in outdated'
    <3>1. CASE t # s
      BY <1>1, <2>1, <2>4, <3>1 DEF OneShot, Reread
    <3>2. CASE t = s
      <4>1. status[c] = "ready" /\ fired[c] = fired[c]
        BY <1>1, <2>4, <3>2
      <4>2. ~(fired[c] > 0)
        BY <1>3, <2>1, <4>1 DEF LeftReady
      <4>3. PICK u \in Sweeps : Owns(u, c)
        BY <2>4, <4>2 DEF Taken
      <4>4. pc[u] = "move" /\ at[u] = at[s] /\ u # s
        BY <1>1, <1>3, <2>1, <2>4, <3>2, <4>1, <4>3 DEF LeftReady, Owns
      <4>5. Others(s, "move") # {}
        BY <4>4 DEF Others
      <4> QED
        BY <3>2, <4>5 DEF Reread
    <3> QED
      BY <3>1, <3>2
  <2>5. ASSUME NEW t \in Sweeps, at[t] = c, pc'[t] = "readback", Taken(c) PROVE holder[c] # t
    BY <1>1, <2>1, <2>5 DEF OneShot
  <2>6. UNCHANGED <<fired, holder, at>>
    BY <1>1 DEF Reread
  <2> QED
    BY <2>1, <2>2, <2>3, <2>4, <2>5, <2>6 DEF OneShot
<1> QED
  BY <1>2, <1>3 DEF FireInv, OneShots, Reread

\* A claim of a card somebody owns, or that has fired, is a race or loses.
LEMMA ClaimWriteKeeps ==
  ASSUME TypeOK, FireInv, NEW s \in Sweeps, ClaimWrite(s)
  PROVE  FireInv'
<1> USE DEF boardVars
<1>1. /\ pc[s] = "claim" /\ pc'[s] = "readback" /\ at' = at
      /\ \A t \in Sweeps \ {s} : pc'[t] = pc[t]
  BY GoMoves DEF ClaimWrite
<1>2. LeftReady'
  BY <1>1 DEF ClaimWrite, FireInv, LeftReady
<1>3. ASSUME NEW c \in Cards \ (raced' \union unmoved), requeues = 0 PROVE OneShot(c)'
  <2>1. OneShot(c)
    BY <1>3 DEF FireInv, OneShots, ClaimWrite
  <2>2. \A t \in Sweeps : Owns(t, c)' <=> Owns(t, c)
    BY <1>1 DEF Owns
  <2>3. Taken(c)' <=> Taken(c)
    BY <2>2 DEF Taken, ClaimWrite
  <2>4. Taken(c) => at[s] # c
    BY <1>1, <1>3, <2>1 DEF OneShot, ClaimWrite
  <2>5. at[s] # c => holder'[c] = holder[c]
    BY DEF ClaimWrite, Write, TypeOK
  <2>6. UNCHANGED <<fired, outdated, at>>
    BY <1>1 DEF ClaimWrite
  <2> QED
    BY <1>1, <2>1, <2>2, <2>3, <2>4, <2>5, <2>6 DEF OneShot
<1> QED
  BY <1>2, <1>3 DEF FireInv, OneShots, ClaimWrite

\* A claim read back as written is won on a card that nobody owns and that has
\* not fired; whoever is about to claim it too is outdated from then on.
LEMMA ClaimReadKeeps ==
  ASSUME TypeOK, FireInv, NEW s \in Sweeps, ClaimRead(s), HoldsClaim(s), Go(s, "readback", "move")
  PROVE  FireInv'
<1> USE DEF boardVars
<1>1. /\ pc[s] = "readback" /\ pc'[s] = "move" /\ at' = at
      /\ \A t \in Sweeps \ {s} : pc'[t] = pc[t]
  BY GoMoves
<1>2. /\ UNCHANGED <<status, holder, fired, raced, unmoved, requeues>>
      /\ outdated' = outdated \union Others(s, "claim")
  BY <1>1 DEF ClaimRead, Go, HoldsClaim
<1>3. LeftReady'
  BY <1>1, <1>2 DEF FireInv, LeftReady
<1>4. ASSUME NEW c \in Cards \ (raced \union unmoved), requeues = 0 PROVE OneShot(c)'
  <2>1. OneShot(c)
    BY <1>4 DEF FireInv, OneShots
  <2>2. CASE at[s] # c
    <3>1. \A t \in Sweeps : Owns(t, c)' <=> Owns(t, c)
      BY <1>1, <2>2 DEF Owns
    <3>2. Taken(c)' <=> Taken(c)
      BY <1>2, <3>1 DEF Taken
    <3> QED
      BY <1>1, <1>2, <2>1, <2>2, <3>1, <3>2 DEF OneShot
  <2>3. CASE at[s] = c
    <3>1. ~Taken(c)
      BY <1>1, <2>1, <2>3 DEF OneShot, HoldsClaim
    <3>2. \A t \in Sweeps : Owns(t, c)' => t = s
      BY <1>1, <3>1 DEF Owns, Taken
    <3>3. ~(fired[c] > 0) /\ fired[c] \in Nat
      BY <3>1 DEF Taken, TypeOK
    <3>4. ASSUME NEW t \in Sweeps, at[t] = c
          PROVE  /\ pc'[t] = "claim" => t \in outdated'
                 /\ pc'[t] = "readback" => holder[c] # t
      BY <1>1, <1>2, <2>3, <3>4 DEF Others, HoldsClaim
    <3>5. fired'[c] = 0
      BY <1>2, <3>3
    <3> QED
      BY <1>1, <1>2, <3>2, <3>4, <3>5 DEF OneShot
  <2> QED
    BY <2>2, <2>3
<1> QED
  BY <1>2, <1>3, <1>4 DEF FireInv, OneShots

\* Moving the card does not change who owns it; one that did not move is known.
LEMMA MoveKeeps ==
  ASSUME TypeOK, FireInv, NEW s \in Sweeps, Go(s, "move", "dispatch"),
         \/ status' = [status EXCEPT ![at[s]] = "running"] /\ unmoved' = unmoved
         \/ status' = status /\ unmoved' = unmoved \union {at[s]},
         UNCHANGED <<holder, requeues, fired, outdated, raced>>
  PROVE  FireInv'
<1>1. /\ pc[s] = "move" /\ pc'[s] = "dispatch" /\ at' = at
      /\ \A t \in Sweeps \ {s} : pc'[t] = pc[t]
  BY GoMoves
<1>2. /\ \A c \in Cards : c # at[s] => status'[c] = status[c]
      /\ status'[at[s]] # "ready" \/ (at[s] \in unmoved' /\ status' = status)
      /\ unmoved \subseteq unmoved' /\ unmoved' \subseteq unmoved \union {at[s]}
  BY DEF TypeOK
<1>3. \A t \in Sweeps : at[t] \in Cards
  BY DEF TypeOK
<1>4. LeftReady'
  BY <1>1, <1>2, <1>3 DEF FireInv, LeftReady
<1>5. ASSUME NEW c \in Cards \ (raced \union unmoved'), requeues = 0 PROVE OneShot(c)'
  <2>1. OneShot(c)
    BY <1>2, <1>5 DEF FireInv, OneShots
  <2>2. \A t \in Sweeps : Owns(t, c)' <=> Owns(t, c)
    BY <1>1 DEF Owns
  <2>3. Taken(c)' <=> Taken(c)
    BY <2>2 DEF Taken
  <2> QED
    BY <1>1, <2>1, <2>2, <2>3 DEF OneShot
<1> QED
  BY <1>4, <1>5 DEF FireInv, OneShots

\* The run starts under the only owner of its card, which has left Ready.
LEMMA DispatchKeeps ==
  ASSUME TypeOK, FireInv, NEW s \in Sweeps, NEW to \in {"stamp", "pick"},
         Go(s, "dispatch", to), fired' = [fired EXCEPT ![at[s]] = @ + 1],
         UNCHANGED <<status, holder, requeues, outdated, raced, unmoved>>
  PROVE  FireInv'
<1>1. /\ pc[s] = "dispatch" /\ pc'[s] \in {"stamp", "pick"} /\ at' = at
      /\ \A t \in Sweeps \ {s} : pc'[t] = pc[t]
  BY GoMoves
<1>2. /\ \A c \in Cards : fired'[c] = IF c = at[s] THEN fired[c] + 1 ELSE fired[c]
      /\ fired \in [Cards -> Nat]
  BY DEF TypeOK
<1>3. LeftReady'
  <2>1. ASSUME requeues = 0, NEW c \in Cards \ unmoved, fired'[c] > 0 PROVE status[c] # "ready"
    BY <1>1, <1>2, <2>1 DEF FireInv, LeftReady
  <2>2. ASSUME requeues = 0, NEW t \in Sweeps, pc'[t] = "dispatch", at[t] \notin unmoved
        PROVE  status[at[t]] # "ready"
    BY <1>1, <2>2 DEF FireInv, LeftReady
  <2> QED
    BY <1>1, <2>1, <2>2 DEF LeftReady
<1>4. ASSUME NEW c \in Cards \ (raced \union unmoved), requeues = 0 PROVE OneShot(c)'
  <2>1. OneShot(c)
    BY <1>4 DEF FireInv, OneShots
  <2>2. \A t \in Sweeps : Owns(t, c)' => Owns(t, c) /\ t # s
    BY <1>1 DEF Owns
  <2>3. CASE at[s] # c
    <3>1. Taken(c)' => Taken(c)
      BY <1>2, <2>2, <2>3 DEF Taken
    <3> QED
      BY <1>1, <1>2, <2>1, <2>2, <2>3, <3>1 DEF OneShot
  <2>4. CASE at[s] = c
    <3>1. Owns(s, c) /\ Taken(c)
      BY <1>1, <2>4 DEF Owns, Taken
    <3>2. fired[c] = 0 /\ \A t \in Sweeps : ~Owns(t, c)'
      BY <2>1, <2>2, <3>1 DEF OneShot
    <3>3. fired'[c] = 1
      BY <1>2, <2>4, <3>2
    <3>4. \A t \in Sweeps : at'[t] = c =>
             /\ pc'[t] = "claim" => t \in outdated'
             /\ pc'[t] = "readback" => holder'[c] # t
      BY <1>1, <2>1, <3>1 DEF OneShot
    <3> QED
      BY <3>2, <3>3, <3>4 DEF OneShot
  <2> QED
    BY <2>3, <2>4
<1> QED
  BY <1>3, <1>4 DEF FireInv, OneShots

\* A sweep that stamps a card, or whose claim of it went unanswered, writes what
\* no sweep that reads its claim back takes for its own.
LEMMA WriteKeeps ==
  ASSUME TypeOK, FireInv, NEW s \in Sweeps, NEW from, Go(s, from, "pick"),
         NEW value, Write(s, value), value = s \/ value \notin Sweeps,
         UNCHANGED <<status, requeues, fired, outdated, raced, unmoved>>
  PROVE  FireInv'
<1>1. /\ pc'[s] = "pick" /\ at' = at
      /\ \A t \in Sweeps \ {s} : pc'[t] = pc[t]
  BY GoMoves
<1>2. \A c \in Cards : holder'[c] = IF c = at[s] THEN value ELSE holder[c]
  BY DEF Write, TypeOK
<1>3. LeftReady'
  BY <1>1 DEF FireInv, LeftReady
<1>4. ASSUME NEW c \in Cards \ (raced \union unmoved), requeues = 0 PROVE OneShot(c)'
  <2>1. OneShot(c)
    BY <1>4 DEF FireInv, OneShots
  <2>2. \A t \in Sweeps : Owns(t, c)' => Owns(t, c)
    BY <1>1 DEF Owns
  <2>3. Taken(c)' => Taken(c)
    BY <2>2 DEF Taken
  <2> QED
    BY <1>1, <1>2, <2>1, <2>2, <2>3 DEF OneShot
<1> QED
  BY <1>3, <1>4 DEF FireInv, OneShots

\* Every step keeps FireInv.
LEMMA FireStep == TypeOK /\ FireInv /\ [Next]_vars => FireInv'
<1> SUFFICES ASSUME TypeOK, FireInv, [Next]_vars PROVE FireInv'
  OBVIOUS
<1> USE DEF boardVars, passVars, pastVars
<1>1. ASSUME NEW s \in Sweeps, BeginPass(s) PROVE FireInv'
  BY <1>1, StandDown DEF BeginPass, TypeOK
<1>2. ASSUME NEW s \in Sweeps, NextCard(s) PROVE FireInv'
  <2>1. PICK c : \/ UNCHANGED <<pc, at>>
                 \/ at' = [at EXCEPT ![s] = c] /\ pc' = [pc EXCEPT ![s] = "reread"]
    BY <1>2 DEF NextCard
  <2>2. \A t \in Sweeps : (pc'[t] = pc[t] /\ at'[t] = at[t]) \/ pc'[t] = "reread"
    BY <2>1 DEF TypeOK
  <2> QED
    BY <1>2, <2>2, StandDown DEF NextCard
<1>3. ASSUME NEW s \in Sweeps, EndPass(s) PROVE FireInv'
  BY <1>3, StandDown DEF EndPass, TypeOK
<1>4. ASSUME NEW s \in Sweeps, Reread(s) PROVE FireInv'
  BY <1>4, RereadKeeps
<1>5. ASSUME NEW s \in Sweeps, ClaimWrite(s) PROVE FireInv'
  BY <1>5, ClaimWriteKeeps
<1>6. ASSUME NEW s \in Sweeps, ClaimRead(s) PROVE FireInv'
  <2>1. CASE HoldsClaim(s) /\ Go(s, "readback", "move")
    BY <1>6, <2>1, ClaimReadKeeps
  <2>2. CASE Go(s, "readback", "pick") /\ UNCHANGED outdated
    <3>1. \A t \in Sweeps : (pc'[t] = pc[t] /\ at'[t] = at[t]) \/ pc'[t] = "pick"
      BY <2>2, GoMoves
    <3> QED
      BY <1>6, <2>2, <3>1, StandDown DEF ClaimRead
  <2> QED
    BY <1>6, <2>1, <2>2 DEF ClaimRead
<1>7. ASSUME NEW s \in Sweeps, MoveCard(s) PROVE FireInv'
  BY <1>7, MoveKeeps DEF MoveCard
<1>8. ASSUME NEW s \in Sweeps, Dispatch(s) PROVE FireInv'
  BY <1>8, DispatchKeeps DEF Dispatch
<1>9. ASSUME NEW s \in Sweeps, Stamp(s) PROVE FireInv'
  BY <1>9, WriteKeeps, KanbanAssumption DEF Stamp
<1>10. ASSUME NEW s \in Sweeps, CallFails(s) PROVE FireInv'
  <2>1. PICK step \in PCs : Go(s, step, "pick")
    BY <1>10 DEF CallFails
  <2>2. \A t \in Sweeps : (pc'[t] = pc[t] /\ at'[t] = at[t]) \/ pc'[t] = "pick"
    BY <2>1, GoMoves
  <2> QED
    BY <1>10, <2>2, StandDown DEF CallFails
<1>11. ASSUME NEW s \in Sweeps, AnswerLost(s) PROVE FireInv'
  <2>1. CASE Go(s, "claim", "pick") /\ Write(s, s) /\ UNCHANGED <<status, runs, pastVars>>
    BY <1>11, <2>1, WriteKeeps DEF AnswerLost
  <2>2. CASE /\ Go(s, "move", "pick") /\ status' = [status EXCEPT ![at[s]] = "running"]
             /\ UNCHANGED <<holder, runs, pastVars>>
    <3>1. requeues' = requeues
      BY <1>11 DEF AnswerLost
    <3>2. LeftReady'
      BY <2>2, <3>1, GoMoves DEF FireInv, LeftReady, TypeOK
    <3>3. ASSUME NEW c \in Cards \ (raced \union unmoved), requeues = 0 PROVE OneShot(c)'
      <4>1. OneShot(c)
        BY <3>3 DEF FireInv, OneShots
      <4>2. \A t \in Sweeps : Owns(t, c)' => Owns(t, c)
        BY <2>2, GoMoves DEF Owns
      <4>3. Taken(c)' => Taken(c)
        BY <2>2, <4>2 DEF Taken
      <4> QED
        BY <2>2, <4>1, <4>2, <4>3, GoMoves DEF OneShot
    <3> QED
      BY <2>2, <3>1, <3>2, <3>3 DEF FireInv, OneShots
  <2>3. CASE /\ Go(s, "dispatch", "pick")
             /\ fired' = [fired EXCEPT ![at[s]] = @ + 1]
             /\ runs' = [runs EXCEPT ![Side(s)][at[s]] = "live"]
             /\ UNCHANGED <<boardVars, outdated, raced, unmoved>>
    BY <1>11, <2>3, DispatchKeeps DEF AnswerLost
  <2>4. CASE Go(s, "stamp", "pick") /\ Write(s, "run id") /\ UNCHANGED <<status, runs, pastVars>>
    BY <1>11, <2>4, WriteKeeps, KanbanAssumption DEF AnswerLost
  <2> QED
    BY <1>11, <2>1, <2>2, <2>3, <2>4 DEF AnswerLost
<1>12. ASSUME NEW s \in Sweeps, SweepDies(s) PROVE FireInv'
  BY <1>12, StandDown DEF SweepDies, TypeOK
<1>13. ASSUME NEW d \in Sides, NEW c \in Cards, RunEnds(d, c) PROVE FireInv'
  BY <1>13, StandDown DEF RunEnds
<1>14. ASSUME NEW c \in Cards, TakeAway(c) PROVE FireInv'
  <2>1. \A k \in Cards : status'[k] = status[k] \/ status'[k] = "elsewhere"
    BY <1>14 DEF TakeAway, TypeOK
  <2>2. \A s \in Sweeps : at[s] \in Cards
    BY DEF TypeOK
  <2>3. LeftReady'
    BY <1>14, <2>1, <2>2 DEF TakeAway, FireInv, LeftReady
  <2>4. OneShots'
    BY <1>14 DEF TakeAway, FireInv, OneShots, OneShot, Taken, Owns
  <2> QED
    BY <2>3, <2>4 DEF FireInv
<1>15. ASSUME NEW c \in Cards, Requeue(c) PROVE FireInv'
  <2>1. requeues' # 0
    <3>1. requeues \in 0..MaxRequeues
      BY DEF TypeOK
    <3>2. requeues' = requeues + 1
      BY <1>15 DEF Requeue
    <3> QED
      BY <3>1, <3>2
  <2> QED
    BY <2>1 DEF FireInv, LeftReady, OneShots
<1>16. CASE UNCHANGED vars
  BY <1>16, StandDown DEF vars
<1> QED
  BY <1>1, <1>2, <1>3, <1>4, <1>5, <1>6, <1>7, <1>8, <1>9, <1>10, <1>11, <1>12,
     <1>13, <1>14, <1>15, <1>16 DEF Next, PassStep

\* Nothing is owned and nothing has fired when the sweeps start.
LEMMA FireInit == Init => FireInv
BY DEF Init, FireInv, LeftReady, OneShots, OneShot, Taken, Owns

\* For any board and any dispatchers, a card that nobody put back into Ready
\* fires once, unless a sweep claimed it on a reading that another sweep's won
\* claim was about to outdate, or the board did not move it.
THEOREM FiresOnce == Spec => []FiresOnceUnlessRaced
<1>1. FireInv => FiresOnceUnlessRaced
  BY DEF FireInv, OneShots, OneShot, FiresOnceUnlessRaced
<1> QED
  BY <1>1, TypeCorrect, FireInit, FireStep, PTL DEF Spec

\* For any board and any dispatchers, no run flies under a card still in Ready,
\* until somebody puts a card back there, but one the board did not move.
THEOREM NoRunUnderReady == Spec => []NoRunUnderReadyCard
<1>1. FireInv => NoRunUnderReadyCard
  BY DEF FireInv, LeftReady, NoRunUnderReadyCard
<1> QED
  BY <1>1, TypeCorrect, FireInit, FireStep, PTL DEF Spec
=============================================================================
