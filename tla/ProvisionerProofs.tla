-------------------------- MODULE ProvisionerProofs --------------------------
(***************************************************************************)
(* Proofs about Provisioner, for any declaration whose references go back  *)
(* in ORDER, any activations and any number of mishaps.                    *)
(***************************************************************************)
EXTENDS Provisioner, TLAPS

-----------------------------------------------------------------------------
(***************************************************************************)
(* What the helpers of the model do to the variables.                      *)
(***************************************************************************)
Steps == [step : {"idle", "list", "entry", "reconcile", "done"}]
           \union [step : {"check", "restore", "update", "record"}, object : Objects]

Works == [kind : 0..Len(ORDER), todo : SUBSET Objects, existing : SUBSET Objects,
          token : Tokens]

\* The order of creation is a non-empty list of all the kinds.
LEMMA OrderFacts ==
  /\ Len(ORDER) \in Nat /\ Len(ORDER) >= 1
  /\ DOMAIN ORDER = 1..Len(ORDER)
  /\ \A kind \in Kinds : \E k \in 1..Len(ORDER) : ORDER[k] = kind
<1>1. ORDER \in Seq(Kinds) /\ ORDER # <<>>
  BY ProvisionerAssumption
<1>2. Len(ORDER) \in Nat /\ DOMAIN ORDER = 1..Len(ORDER)
  BY <1>1
<1>3. Len(ORDER) # 0
  BY <1>1
<1>4. \A kind \in Kinds : \E k \in 1..Len(ORDER) : ORDER[k] = kind
  BY <1>2, ProvisionerAssumption DEF ToSet
<1> QED
  BY <1>2, <1>3, <1>4

\* Versions are numbered from 1; 0 is the edited.
LEMMA NumberFacts ==
  /\ MaxMishaps \in Nat
  /\ 0 \in Versions /\ NoToken \in Tokens
  /\ \A s \in Seeders : Version[s] \in Versions /\ Version[s] # 0
BY ProvisionerAssumption DEF Versions, Tokens

\* An activation goes on to a step of its own ...
LEMMA ReturnsEffect ==
  ASSUME TypeOK, NEW s \in Seeders, NEW to \in {"idle", "list", "entry", "reconcile", "done"},
         Returns(s, to)
  PROVE  /\ at' \in [Seeders -> Steps] /\ at'[s].step = to
         /\ \A t \in Seeders \ {s} : at'[t] = at[t]
BY DEF TypeOK, Returns, Steps

\* ... or to one that works on an object.
LEMMA TurnsEffect ==
  ASSUME TypeOK, NEW s \in Seeders, NEW o \in Objects,
         NEW step \in {"check", "restore", "update", "record"}, TurnsTo(s, step, o)
  PROVE  /\ at' \in [Seeders -> Steps] /\ at'[s].step = step /\ at'[s].object = o
         /\ \A t \in Seeders \ {s} : at'[t] = at[t]
BY DEF TypeOK, TurnsTo, Steps

\* The object an activation works on.
LEMMA AtObject ==
  ASSUME TypeOK, NEW s \in Seeders, at[s].step \in {"check", "restore", "update", "record"}
  PROVE  at[s].object \in Objects
BY DEF TypeOK

\* What an activation is about to do changes.
LEMMA WorkEffect ==
  ASSUME TypeOK, NEW s \in Seeders, NEW w \in Works, work' = [work EXCEPT ![s] = w]
  PROVE  /\ work' \in [Seeders -> Works] /\ work'[s] = w
         /\ \A t \in Seeders \ {s} : work'[t] = work[t]
BY DEF TypeOK, Works

\* An object is dealt with.
LEMMA TicksEffect ==
  ASSUME TypeOK, NEW s \in Seeders, NEW o, Ticks(s, o)
  PROVE  /\ work' \in [Seeders -> Works]
         /\ work'[s].todo = work[s].todo \ {o}
         /\ work'[s].existing = work[s].existing
         /\ work'[s].kind = work[s].kind /\ work'[s].token = work[s].token
         /\ \A t \in Seeders \ {s} : work'[t] = work[t]
<1>1. work[s] \in Works
  BY DEF TypeOK, Works
<1>2. [work[s] EXCEPT !.todo = work[s].todo \ {o}] \in Works
  BY <1>1 DEF Works
<1>3. work' = [work EXCEPT ![s] = [work[s] EXCEPT !.todo = work[s].todo \ {o}]]
  BY <1>1 DEF Ticks, TypeOK
<1> QED
  BY <1>1, <1>2, <1>3, WorkEffect DEF Works

\* An object of the platform changes.
LEMMA RowEffect ==
  ASSUME TypeOK, NEW o \in Objects, NEW r \in Row, row' = [row EXCEPT ![o] = r]
  PROVE  /\ row' \in [Objects -> Row] /\ row'[o] = r
         /\ \A p \in Objects \ {o} : row'[p] = row[p]
BY DEF TypeOK

\* A mishap counts.
LEMMA CountStep ==
  ASSUME TypeOK, NoMishap \/ Mishap
  PROVE  mishaps' \in 0..MaxMishaps
BY ProvisionerAssumption DEF TypeOK, NoMishap, Mishap

\* What an activation is blamed for stays among the objects ...
LEMMA AmissEffect ==
  ASSUME TypeOK, NEW s \in Seeders, NEW o \in Objects,
         Lacks(s, o) \/ LacksForAll(o) \/ UNCHANGED amiss
  PROVE  amiss' \in [Seeders -> SUBSET Objects]
<1>1. amiss \in [Seeders -> SUBSET Objects] /\ \A t \in Seeders : amiss[t] \union {o} \subseteq Objects
  BY DEF TypeOK
<1>2. CASE Lacks(s, o)
  BY <1>1, <1>2 DEF Lacks
<1>3. CASE LacksForAll(o)
  BY <1>1, <1>3 DEF LacksForAll
<1> QED
  BY <1>1, <1>2, <1>3

\* ... and so do the tokens it does not answer for.
LEMMA TheirsEffect ==
  ASSUME TypeOK, NEW s \in Seeders, NEW objects \in SUBSET Objects, NEW o \in Objects,
         NEW writers, Misses(s, objects) \/ Writes(writers, o) \/ UNCHANGED theirs
  PROVE  theirs' \in [Seeders -> SUBSET Objects]
<1>1. /\ theirs \in [Seeders -> SUBSET Objects]
      /\ \A t \in Seeders : /\ theirs[t] \union {o} \subseteq Objects
                            /\ theirs[t] \ {o} \subseteq Objects
                            /\ theirs[t] \union (objects \intersect ByReference) \subseteq Objects
  BY DEF TypeOK
<1>2. CASE Misses(s, objects)
  BY <1>1, <1>2 DEF Misses
<1>3. CASE Writes(writers, o)
  BY <1>1, <1>3 DEF Writes
<1> QED
  BY <1>1, <1>2, <1>3

-----------------------------------------------------------------------------
(***************************************************************************)
(* Types.                                                                  *)
(***************************************************************************)
Typed ==
    /\ row \in [Objects -> Row] /\ token \in [Workspaces -> Nat] /\ baseline \in [Objects -> Versions]
    /\ at \in [Seeders -> Steps] /\ work \in [Seeders -> Works]
    /\ mishaps \in 0..MaxMishaps
    /\ amiss \in [Seeders -> SUBSET Objects] /\ theirs \in [Seeders -> SUBSET Objects]
    /\ revived \subseteq Objects /\ overtaken \subseteq Objects /\ lost \subseteq Objects

\* Typed is TypeOK with its sets named.
LEMMA TypedIsTypeOK == Typed <=> TypeOK
BY DEF Typed, TypeOK, Steps, Works

\* The platform keeps or changes one object.
LEMMA Entries ==
  ASSUME TypeOK, NEW s \in Seeders, NEW o \in Objects
  PROVE  /\ Payload(s, o) \in Row
         /\ Refreshed(s, o) \in Row
         /\ [row[o] EXCEPT !.content = Version[s]] \in Row
         /\ [row[o] EXCEPT !.content = 0] \in Row
         /\ [row[o] EXCEPT !.status = "alive"] \in Row
         /\ [row[o] EXCEPT !.status = "deleted"] \in Row
         /\ Absent \in Row /\ [Absent EXCEPT !.status = "alive"] \in Row
         /\ row[o] \in Row
<1>1. row[o] \in Row /\ work[s].token \in Tokens
  BY DEF TypeOK
<1> QED
  BY <1>1, NumberFacts DEF Row, Payload, TokenOf, Refreshed, Absent

\* Every step keeps the types.
LEMMA TypeStep == TypeOK /\ [Next]_vars => TypeOK'
<1> SUFFICES ASSUME TypeOK, [Next]_vars PROVE Typed'
  BY TypedIsTypeOK DEF Typed, TypeOK, Steps, Works
<1> USE DEF pastVars
<1>a. TypeOK /\ Typed
  BY TypedIsTypeOK
<1>1. ASSUME NEW s \in Seeders, BeginSeed(s) PROVE Typed'
  <2>1. PICK read \in Resolved(s) :
           /\ work' = [work EXCEPT ![s] = [NoWork EXCEPT !.kind = 1, !.token = read]]
           /\ NoMishap \/ Mishap
    BY <1>1 DEF BeginSeed
  <2>2. read \in Tokens
    BY <1>a, NumberFacts, ProvisionerAssumption DEF Typed, Resolved, Issued, Tokens
  <2>3. [NoWork EXCEPT !.kind = 1, !.token = read] \in Works
    <3>1. NoWork \in Works
      BY OrderFacts, NumberFacts DEF NoWork, Works
    <3>2. 1 \in 0..Len(ORDER)
      BY OrderFacts
    <3> QED
      BY <2>2, <3>1, <3>2 DEF Works
  <2>4. work' \in [Seeders -> Works]
    BY <1>a, <2>1, <2>3, WorkEffect
  <2>5. at' \in [Seeders -> Steps]
    BY <1>1, <1>a, ReturnsEffect DEF BeginSeed
  <2>6. /\ amiss' \in [Seeders -> SUBSET Objects] /\ theirs' \in [Seeders -> SUBSET Objects]
    BY <1>1, <1>a DEF BeginSeed, Typed
  <2>7. mishaps' \in 0..MaxMishaps
    BY <2>1, CountStep
  <2> QED
    BY <1>1, <1>a, <2>4, <2>5, <2>6, <2>7 DEF BeginSeed, Typed
<1>2. ASSUME NEW s \in Seeders, ListKind(s) PROVE Typed'
  <2>1. PICK todo \in SUBSET Objects, existing \in SUBSET Objects :
           work' = [work EXCEPT ![s].todo = todo, ![s].existing = existing]
    BY <1>2 DEF ListKind
  <2>2. work[s] \in Works
    BY <1>a DEF Typed
  <2>3. [work[s] EXCEPT !.todo = todo, !.existing = existing] \in Works
    BY <2>2 DEF Works
  <2>4. work' = [work EXCEPT ![s] = [work[s] EXCEPT !.todo = todo, !.existing = existing]]
    BY <1>a, <2>1 DEF Typed, Works
  <2>5. work' \in [Seeders -> Works]
    BY <1>a, <2>3, <2>4, WorkEffect
  <2>6. at' \in [Seeders -> Steps]
    BY <1>2, <1>a, ReturnsEffect DEF ListKind, Goes, Returns
  <2>7. mishaps' \in 0..MaxMishaps
    BY <1>2, CountStep DEF ListKind
  <2>8. theirs' \in [Seeders -> SUBSET Objects]
    <3> DEFINE entries == {o \in Objects : KindOf[o] = KindAt(work[s].kind)}
    <3>1. UNCHANGED theirs \/ Misses(s, entries)
      BY <1>2 DEF ListKind
    <3>2. entries \in SUBSET Objects /\ theirs \in [Seeders -> SUBSET Objects]
      BY <1>a DEF Typed
    <3> HIDE DEF entries
    <3> QED
      BY <3>1, <3>2 DEF Misses
  <2> QED
    BY <1>2, <1>a, <2>5, <2>6, <2>7, <2>8 DEF ListKind, Typed
<1>3. ASSUME NEW s \in Seeders, RefreshEntry(s) PROVE Typed'
  <2>1. PICK o \in work[s].todo :
           /\ Ticks(s, o)
           /\ \/ row' = [row EXCEPT ![o] = Refreshed(s, o)] /\ revived' = revived \ {o}
              \/ UNCHANGED <<row, revived>>
           /\ Writes({s}, o) \/ Misses(s, {o}) \/ UNCHANGED theirs
           /\ NoMishap \/ Mishap
    BY <1>3 DEF RefreshEntry
  <2>2. o \in Objects
    BY <1>a DEF Typed, Works
  <2>3. row' \in [Objects -> Row]
    BY <1>a, <2>1, <2>2, Entries, RowEffect DEF Typed
  <2>4. work' \in [Seeders -> Works]
    BY <1>a, <2>1, TicksEffect
  <2>5. mishaps' \in 0..MaxMishaps
    BY <2>1, CountStep
  <2>6. theirs' \in [Seeders -> SUBSET Objects]
    BY <2>1, <2>2, <1>a, TheirsEffect
  <2> QED
    BY <1>3, <1>a, <2>1, <2>3, <2>4, <2>5, <2>6 DEF RefreshEntry, Typed
<1>4. ASSUME NEW s \in Seeders, CreateEntry(s) PROVE Typed'
  <2>1. PICK o \in work[s].todo :
           /\ Ticks(s, o)
           /\ row' = [row EXCEPT ![o] = Payload(s, o)] \/ UNCHANGED row
           /\ TurnsTo(s, "check", o) \/ UNCHANGED at
           /\ lost' = lost \union {o} \/ UNCHANGED lost
           /\ Writes({s}, o) \/ UNCHANGED theirs
           /\ Lacks(s, o) \/ UNCHANGED amiss
           /\ NoMishap \/ Mishap
    BY <1>4 DEF CreateEntry
  <2>2. o \in Objects
    BY <1>a DEF Typed, Works
  <2>3. row' \in [Objects -> Row]
    BY <1>a, <2>1, <2>2, Entries, RowEffect DEF Typed
  <2>4. work' \in [Seeders -> Works]
    BY <1>a, <2>1, TicksEffect
  <2>5. at' \in [Seeders -> Steps]
    BY <1>a, <2>1, <2>2, TurnsEffect DEF Typed
  <2>6. mishaps' \in 0..MaxMishaps
    BY <2>1, CountStep
  <2>7. theirs' \in [Seeders -> SUBSET Objects] /\ amiss' \in [Seeders -> SUBSET Objects]
    BY <2>1, <2>2, <1>a, TheirsEffect, AmissEffect
  <2> QED
    BY <1>4, <1>a, <2>1, <2>2, <2>3, <2>4, <2>5, <2>6, <2>7 DEF CreateEntry, Typed
<1>5. ASSUME NEW s \in Seeders, CheckDeleted(s) PROVE Typed'
  <2>1. at[s].object \in Objects
    BY <1>5, <1>a, AtObject DEF CheckDeleted
  <2>2. at' \in [Seeders -> Steps]
    BY <1>5, <1>a, <2>1, TurnsEffect, ReturnsEffect DEF CheckDeleted
  <2>3. mishaps' \in 0..MaxMishaps
    BY <1>5, CountStep DEF CheckDeleted
  <2>4. amiss' \in [Seeders -> SUBSET Objects]
    BY <1>5, <1>a, <2>1, AmissEffect DEF CheckDeleted
  <2> QED
    BY <1>5, <1>a, <2>2, <2>3, <2>4 DEF CheckDeleted, Typed
<1>6. ASSUME NEW s \in Seeders, Restore(s) PROVE Typed'
  <2>1. PICK o \in Objects :
           /\ \/ row' = [row EXCEPT ![o].status = "alive"] /\ revived' = revived \union {o}
              \/ UNCHANGED <<row, revived>>
           /\ Lacks(s, o) \/ UNCHANGED amiss
           /\ NoMishap \/ Mishap
    BY <1>6, <1>a, AtObject DEF Restore
  <2>2. row' \in [Objects -> Row]
    <3>1. [row EXCEPT ![o].status = "alive"] = [row EXCEPT ![o] = [row[o] EXCEPT !.status = "alive"]]
      BY <1>a DEF Typed
    <3> QED
      BY <1>6, <1>a, <2>1, <3>1, Entries, RowEffect DEF Typed
  <2>3. at' \in [Seeders -> Steps]
    BY <1>6, <1>a, ReturnsEffect DEF Restore
  <2>4. mishaps' \in 0..MaxMishaps
    BY <2>1, CountStep
  <2>5. amiss' \in [Seeders -> SUBSET Objects]
    BY <2>1, <1>a, AmissEffect
  <2> QED
    BY <1>6, <1>a, <2>1, <2>2, <2>3, <2>4, <2>5 DEF Restore, Typed
<1>7. ASSUME NEW s \in Seeders, NextKind(s) PROVE Typed'
  <2>1. work[s] \in Works
    BY <1>a DEF Typed
  <2>2. CASE /\ MoreKinds(work[s].kind) /\ Returns(s, "list")
             /\ work' = [work EXCEPT ![s].kind = @ + 1, ![s].existing = {}]
    <3>1. work[s].kind + 1 \in 0..Len(ORDER)
      BY <2>1, <2>2, OrderFacts DEF MoreKinds, Works
    <3>2. [work[s] EXCEPT !.kind = work[s].kind + 1, !.existing = {}] \in Works
      BY <2>1, <3>1 DEF Works
    <3>3. work' = [work EXCEPT ![s] = [work[s] EXCEPT !.kind = work[s].kind + 1, !.existing = {}]]
      BY <1>a, <2>1, <2>2 DEF Typed, Works
    <3> QED
      BY <1>7, <1>a, <2>2, <3>2, <3>3, WorkEffect, ReturnsEffect DEF NextKind, Typed
  <2>3. CASE /\ Returns(s, "reconcile")
             /\ work' = [work EXCEPT ![s].existing = {}, ![s].todo = Objects]
    <3>1. [work[s] EXCEPT !.existing = {}, !.todo = Objects] \in Works
      BY <2>1 DEF Works
    <3>2. work' = [work EXCEPT ![s] = [work[s] EXCEPT !.existing = {}, !.todo = Objects]]
      BY <1>a, <2>1, <2>3 DEF Typed, Works
    <3> QED
      BY <1>7, <1>a, <2>3, <3>1, <3>2, WorkEffect, ReturnsEffect DEF NextKind, Typed
  <2> QED
    BY <1>7, <2>2, <2>3 DEF NextKind
<1>8. ASSUME NEW s \in Seeders, ReadObject(s) PROVE Typed'
  <2>1. PICK o \in work[s].todo :
           /\ Ticks(s, o)
           /\ TurnsTo(s, "update", o) \/ TurnsTo(s, "record", o) \/ UNCHANGED at
           /\ NoMishap \/ Mishap
    BY <1>8 DEF ReadObject
  <2>2. o \in Objects
    BY <1>a DEF Typed, Works
  <2>3. work' \in [Seeders -> Works]
    BY <1>a, <2>1, TicksEffect
  <2>4. at' \in [Seeders -> Steps]
    BY <1>a, <2>1, <2>2, TurnsEffect DEF Typed
  <2>5. mishaps' \in 0..MaxMishaps
    BY <1>8, <2>1, CountStep DEF ReadObject
  <2> QED
    BY <1>8, <1>a, <2>3, <2>4, <2>5 DEF ReadObject, Typed
<1>9. ASSUME NEW s \in Seeders, UpdateObject(s) PROVE Typed'
  <2>1. PICK o \in Objects :
           /\ row' = [row EXCEPT ![o].content = Version[s]] \/ UNCHANGED row
           /\ overtaken' = overtaken \ {o} \/ UNCHANGED overtaken
           /\ TurnsTo(s, "record", o) \/ Returns(s, "reconcile")
           /\ NoMishap \/ Mishap
    BY <1>9, <1>a, AtObject DEF UpdateObject
  <2>2. row' \in [Objects -> Row]
    <3>1. [row EXCEPT ![o].content = Version[s]]
             = [row EXCEPT ![o] = [row[o] EXCEPT !.content = Version[s]]]
      BY <1>a DEF Typed
    <3> QED
      BY <1>a, <2>1, <3>1, Entries, RowEffect DEF Typed
  <2>3. at' \in [Seeders -> Steps]
    BY <1>a, <2>1, TurnsEffect, ReturnsEffect
  <2>4. mishaps' \in 0..MaxMishaps
    BY <1>9, <2>1, CountStep DEF UpdateObject
  <2> QED
    BY <1>9, <1>a, <2>1, <2>2, <2>3, <2>4 DEF UpdateObject, Typed
<1>10. ASSUME NEW s \in Seeders, WriteState(s) PROVE Typed'
  <2>1. at' \in [Seeders -> Steps]
    BY <1>10, <1>a, ReturnsEffect DEF WriteState
  <2>2. baseline' \in [Objects -> Versions]
    BY <1>10, <1>a, NumberFacts DEF WriteState, Typed
  <2>3. mishaps' \in 0..MaxMishaps
    BY <1>10, CountStep DEF WriteState
  <2> QED
    BY <1>10, <1>a, <2>1, <2>2, <2>3 DEF WriteState, Typed
<1>11. ASSUME NEW s \in Seeders, EndSeed(s) PROVE Typed'
  <2>1. at' \in [Seeders -> Steps]
    BY <1>11, <1>a, ReturnsEffect DEF EndSeed, Goes, Returns
  <2> QED
    BY <1>11, <1>a, <2>1 DEF EndSeed, Typed
<1>12. ASSUME NEW o \in Objects, Edit(o) PROVE Typed'
  <2>1. [row EXCEPT ![o].content = 0] = [row EXCEPT ![o] = [row[o] EXCEPT !.content = 0]]
    BY <1>a DEF Typed
  <2>2. row[o] \in Row
    BY <1>a DEF Typed
  <2>3. [row[o] EXCEPT !.content = 0] \in Row
    BY <2>2, NumberFacts DEF Row
  <2>4. row' \in [Objects -> Row]
    BY <1>12, <1>a, <2>1, <2>3, RowEffect DEF Edit
  <2>5. mishaps' \in 0..MaxMishaps
    BY <1>12, CountStep DEF Edit
  <2> QED
    BY <1>12, <1>a, <2>4, <2>5 DEF Edit, Overtakes, Typed
<1>13. ASSUME NEW o \in Objects, CreateByHand(o) PROVE Typed'
  <2>1. [Absent EXCEPT !.status = "alive"] \in Row
    BY NumberFacts DEF Absent, Row
  <2>2. row' \in [Objects -> Row]
    BY <1>13, <1>a, <2>1, RowEffect DEF CreateByHand
  <2>3. mishaps' \in 0..MaxMishaps
    BY <1>13, CountStep DEF CreateByHand
  <2>4. theirs' \in [Seeders -> SUBSET Objects]
    BY <1>13, <1>a DEF CreateByHand, Writes, Typed
  <2> QED
    BY <1>13, <1>a, <2>2, <2>3, <2>4 DEF CreateByHand, Overtakes, Typed
<1>14. ASSUME NEW o \in Objects, NEW hard \in BOOLEAN, Delete(o, hard)
       PROVE Typed'
  <2>1. row[o] \in Row
    BY <1>a DEF Typed
  <2>2. Absent \in Row /\ [row[o] EXCEPT !.status = "deleted"] \in Row
    BY <2>1, NumberFacts DEF Absent, Row
  <2>3. row' \in [Objects -> Row]
    <3>1. CASE hard
      BY <1>14, <1>a, <2>2, <3>1, RowEffect DEF Delete
    <3>2. CASE ~hard
      <4>1. row' = [row EXCEPT ![o] = [row[o] EXCEPT !.status = "deleted"]]
        BY <1>14, <1>a, <3>2 DEF Delete, Typed
      <4> QED
        BY <1>a, <2>2, <4>1, RowEffect
    <3> QED
      BY <3>1, <3>2
  <2>4. lost' \subseteq Objects
    BY <1>14, <1>a DEF Delete, Typed
  <2>5. mishaps' \in 0..MaxMishaps
    BY <1>14, CountStep DEF Delete
  <2>6. amiss' \in [Seeders -> SUBSET Objects]
    BY <1>14, <1>a DEF Delete, LacksForAll, Typed
  <2> QED
    BY <1>14, <1>a, <2>3, <2>4, <2>5, <2>6 DEF Delete, Typed
<1>15. ASSUME NEW w \in Workspaces, Rotate(w) PROVE Typed'
  <2>1. mishaps' \in 0..MaxMishaps
    BY <1>15, CountStep DEF Rotate
  <2>2. token' \in [Workspaces -> Nat]
    BY <1>15, <1>a DEF Rotate, Typed
  <2> QED
    BY <1>15, <1>a, <2>1, <2>2 DEF Rotate, Typed
<1>16. CASE UNCHANGED vars
  BY <1>16, <1>a DEF vars, Typed
<1> QED
  BY <1>1, <1>2, <1>3, <1>4, <1>5, <1>6, <1>7, <1>8, <1>9, <1>10, <1>11, <1>12,
     <1>13, <1>14, <1>15, <1>16 DEF Next, SeedStep, ReconcileStep

\* Nothing exists yet.
LEMMA TypeInit == Init => TypeOK
<1> SUFFICES ASSUME Init PROVE Typed
  BY TypedIsTypeOK
<1>1. Absent \in Row /\ NoWork \in Works /\ [step |-> "idle"] \in Steps
  BY OrderFacts, NumberFacts DEF Absent, Row, NoWork, Works, Steps
<1>2. 0 \in 0..MaxMishaps
  BY NumberFacts
<1> QED
  BY <1>1, <1>2, NumberFacts DEF Init, Typed

\* Every variable of Provisioner keeps its type: what the platform holds is a
\* seeded or an edited content, and a token that some workspace issued, or none.
THEOREM TypeCorrect == Spec => []TypeOK
BY TypeInit, TypeStep, PTL DEF Spec

-----------------------------------------------------------------------------
(***************************************************************************)
(* What a step may do to an object, field by field.                        *)
(***************************************************************************)
Same(o) == row'[o] = row[o]

IsRefreshed(s, o) ==
    /\ RefreshEntry(s) /\ MayRefresh(s, o) /\ Alive(o) /\ Writes({s}, o)
    /\ row'[o].status = row[o].status /\ row'[o].content = row[o].content
    /\ row'[o].token = work[s].token /\ revived' = revived \ {o}

IsCreated(s, o) ==
    /\ CreateEntry(s) /\ o \in work[s].todo \ work[s].existing /\ ~Exists(o)
    /\ Writes({s}, o)
    /\ row'[o].status = "alive" /\ row'[o].content = Version[s]
    /\ row'[o].token = TokenOf(s, o)

IsRestored(s, o) ==
    /\ Restore(s) /\ Exists(o) /\ at[s].object = o
    /\ row'[o].status = "alive" /\ row'[o].content = row[o].content
    /\ row'[o].token = row[o].token /\ revived' = revived \union {o}

IsUpdated(s, o) ==
    /\ UpdateObject(s) /\ Alive(o) /\ at[s].object = o
    /\ row'[o].status = row[o].status /\ row'[o].content = Version[s]
    /\ row'[o].token = row[o].token /\ overtaken' = overtaken \ {o}

IsEdited(o) ==
    /\ Edit(o) /\ Alive(o) /\ row'[o].status = row[o].status /\ row'[o].content = 0
    /\ row'[o].token = row[o].token

IsMade(o) ==
    /\ CreateByHand(o) /\ ~Exists(o) /\ row'[o].status = "alive" /\ row'[o].content = 0
    /\ Writes({}, o)

IsDeleted(o) ==
    \E hard \in BOOLEAN :
       /\ Delete(o, hard) /\ Exists(o) /\ LacksForAll(o)
       /\ hard => row'[o].status = "absent" /\ lost' = lost \union {o}
       /\ ~hard => row'[o].status = "deleted" /\ row'[o].content = row[o].content

Touched(o) ==
    \/ \E s \in Seeders :
          IsRefreshed(s, o) \/ IsCreated(s, o) \/ IsRestored(s, o) \/ IsUpdated(s, o)
    \/ IsEdited(o) \/ IsMade(o) \/ IsDeleted(o)

\* A step leaves a row as it is, or it is one of the writes above.
LEMMA RowCases ==
  ASSUME TypeOK, [Next]_vars, NEW p \in Objects
  PROVE  Same(p) \/ Touched(p)
<1> USE DEF pastVars
<1>a. TypeOK /\ row \in [Objects -> Row]
  BY DEF TypeOK
<1>b. \A s \in Seeders : work[s] \in Works
  BY <1>a DEF TypeOK, Works
<1>1. ASSUME NEW s \in Seeders, RefreshEntry(s) PROVE Same(p) \/ Touched(p)
  <2>1. PICK o \in work[s].todo :
           \/ /\ MayRefresh(s, o) /\ Alive(o) /\ Writes({s}, o)
              /\ row' = [row EXCEPT ![o] = Refreshed(s, o)] /\ revived' = revived \ {o}
           \/ UNCHANGED row
    BY <1>1 DEF RefreshEntry
  <2>2. o \in Objects /\ row[o] \in Row
    BY <1>a, <1>b DEF Works
  <2>3. CASE UNCHANGED row
    BY <2>3 DEF Same
  <2>4. CASE /\ MayRefresh(s, o) /\ Alive(o) /\ Writes({s}, o)
             /\ row' = [row EXCEPT ![o] = Refreshed(s, o)] /\ revived' = revived \ {o}
    <3>1. row'[p] = IF p = o THEN Refreshed(s, o) ELSE row[p]
      BY <1>a, <2>4
    <3>2. p = o => IsRefreshed(s, p)
      BY <1>1, <2>2, <2>4, <3>1 DEF IsRefreshed, Refreshed, Row
    <3> QED
      BY <3>1, <3>2 DEF Same, Touched
  <2> QED
    BY <2>1, <2>3, <2>4
<1>2. ASSUME NEW s \in Seeders, CreateEntry(s) PROVE Same(p) \/ Touched(p)
  <2>1. PICK o \in work[s].todo \ work[s].existing :
           \/ ~Exists(o) /\ Writes({s}, o) /\ row' = [row EXCEPT ![o] = Payload(s, o)]
           \/ UNCHANGED row
    BY <1>2 DEF CreateEntry
  <2>2. CASE UNCHANGED row
    BY <2>2 DEF Same
  <2>3. CASE ~Exists(o) /\ Writes({s}, o) /\ row' = [row EXCEPT ![o] = Payload(s, o)]
    <3>1. row'[p] = IF p = o THEN Payload(s, o) ELSE row[p]
      BY <1>a, <2>3
    <3>2. p = o => IsCreated(s, p)
      BY <1>2, <2>1, <2>3, <3>1 DEF IsCreated, Payload
    <3> QED
      BY <3>1, <3>2 DEF Same, Touched
  <2> QED
    BY <2>1, <2>2, <2>3
<1>3. ASSUME NEW s \in Seeders, Restore(s) PROVE Same(p) \/ Touched(p)
  <2>1. CASE UNCHANGED row
    BY <2>1 DEF Same
  <2>2. CASE /\ Exists(at[s].object)
             /\ row' = [row EXCEPT ![at[s].object].status = "alive"]
             /\ revived' = revived \union {at[s].object}
    <3>1. at[s].object \in Objects /\ row[p] \in Row
      BY <1>3, <1>a, AtObject DEF Restore
    <3>2. row'[p] = IF p = at[s].object THEN [row[p] EXCEPT !.status = "alive"] ELSE row[p]
      BY <1>a, <2>2, <3>1
    <3>3. p = at[s].object => IsRestored(s, p)
      BY <1>3, <2>2, <3>1, <3>2 DEF IsRestored, Row
    <3> QED
      BY <3>2, <3>3 DEF Same, Touched
  <2> QED
    BY <1>3, <2>1, <2>2 DEF Restore
<1>4. ASSUME NEW s \in Seeders, UpdateObject(s) PROVE Same(p) \/ Touched(p)
  <2>1. CASE UNCHANGED row
    BY <2>1 DEF Same
  <2>2. CASE /\ Alive(at[s].object)
             /\ row' = [row EXCEPT ![at[s].object].content = Version[s]]
             /\ overtaken' = overtaken \ {at[s].object}
    <3>1. at[s].object \in Objects /\ row[p] \in Row
      BY <1>4, <1>a, AtObject DEF UpdateObject
    <3>2. row'[p] = IF p = at[s].object THEN [row[p] EXCEPT !.content = Version[s]] ELSE row[p]
      BY <1>a, <2>2, <3>1
    <3>3. p = at[s].object => IsUpdated(s, p)
      BY <1>4, <2>2, <3>1, <3>2 DEF IsUpdated, Row
    <3> QED
      BY <3>2, <3>3 DEF Same, Touched
  <2> QED
    BY <1>4, <2>1, <2>2 DEF UpdateObject
<1>5. ASSUME NEW o \in Objects, Edit(o) PROVE Same(p) \/ Touched(p)
  <2>1. row[p] \in Row
    BY <1>a
  <2>2. row'[p] = IF p = o THEN [row[p] EXCEPT !.content = 0] ELSE row[p]
    BY <1>5, <1>a DEF Edit
  <2>3. p = o => IsEdited(p)
    BY <1>5, <2>1, <2>2 DEF Edit, IsEdited, Row
  <2> QED
    BY <2>2, <2>3 DEF Same, Touched
<1>6. ASSUME NEW o \in Objects, CreateByHand(o) PROVE Same(p) \/ Touched(p)
  <2>1. row'[p] = IF p = o THEN [Absent EXCEPT !.status = "alive"] ELSE row[p]
    BY <1>6, <1>a DEF CreateByHand
  <2>2. p = o => IsMade(p)
    BY <1>6, <2>1 DEF CreateByHand, IsMade, Absent
  <2> QED
    BY <2>1, <2>2 DEF Same, Touched
<1>7. ASSUME NEW o \in Objects, NEW hard \in BOOLEAN, Delete(o, hard)
      PROVE Same(p) \/ Touched(p)
  <2>1. row[p] \in Row
    BY <1>a
  <2>2. row'[p] = IF p = o THEN IF hard THEN Absent ELSE [row[p] EXCEPT !.status = "deleted"]
                           ELSE row[p]
    BY <1>7, <1>a DEF Delete
  <2>3. p = o => IsDeleted(p)
    <3>1. ASSUME p = o, hard PROVE row'[p].status = "absent" /\ lost' = lost \union {p}
      BY <1>7, <2>2, <3>1 DEF Delete, Absent
    <3>2. ASSUME p = o, ~hard
          PROVE  row'[p].status = "deleted" /\ row'[p].content = row[p].content
      BY <2>1, <2>2, <3>2 DEF Row
    <3>3. p = o => Exists(p) /\ LacksForAll(p)
      BY <1>7 DEF Delete
    <3> QED
      BY <1>7, <3>1, <3>2, <3>3 DEF IsDeleted
  <2> QED
    BY <2>2, <2>3 DEF Same, Touched
<1>8. ASSUME UNCHANGED row PROVE Same(p) \/ Touched(p)
  BY <1>8 DEF Same
<1> QED
  BY <1>1, <1>2, <1>3, <1>4, <1>5, <1>6, <1>7, <1>8
     DEF Next, SeedStep, ReconcileStep, vars, BeginSeed, ListKind, CheckDeleted, NextKind,
         ReadObject, WriteState, EndSeed, Rotate

-----------------------------------------------------------------------------
(***************************************************************************)
(* An edited object.  What a reconcile read was seeded, and still is when  *)
(* it updates it, unless the object is known to be overtaken.              *)
(***************************************************************************)
ReadIsSeeded ==
    \A s \in Seeders :
        /\ at[s].step = "update" /\ at[s].object \notin overtaken /\ Exists(at[s].object)
        => row[at[s].object].content # 0

\* An object is no longer overtaken once it is updated.
LEMMA OvertakenCases ==
  ASSUME TypeOK, [Next]_vars, NEW o \in Objects, o \in overtaken, o \notin overtaken'
  PROVE  row'[o].content # 0
<1> USE DEF pastVars
<1>1. PICK s \in Seeders : UpdateObject(s)
  BY DEF Next, SeedStep, ReconcileStep, vars, BeginSeed, ListKind, RefreshEntry, CreateEntry,
         CheckDeleted, Restore, NextKind, ReadObject, WriteState, EndSeed, Edit, CreateByHand,
         Overtakes, Delete, Rotate
<1>2. at[s].object = o /\ row' = [row EXCEPT ![o].content = Version[s]]
  BY <1>1 DEF UpdateObject
<1>3. row \in [Objects -> Row]
  BY DEF TypeOK
<1>4. row'[o] = [row[o] EXCEPT !.content = Version[s]] /\ row[o] \in Row
  BY <1>2, <1>3
<1>5. row'[o].content = Version[s]
  BY <1>4 DEF Row
<1> QED
  BY <1>5, NumberFacts

\* A seeder comes to an update by reading an object that was seeded.
LEMMA UpdateCases ==
  ASSUME TypeOK, [Next]_vars, NEW t \in Seeders, at'[t].step = "update"
  PROVE  \/ at'[t] = at[t]
         \/ /\ row' = row /\ overtaken' = overtaken /\ at'[t].object \in Objects
            /\ Alive(at'[t].object) /\ row[at'[t].object].content # 0
<1> USE DEF pastVars
<1>a. TypeOK
  BY DEF TypeOK
<1>1. ASSUME at' # at
      PROVE  \E s \in Seeders :
                BeginSeed(s) \/ SeedStep(s) \/ ReconcileStep(s)
  BY <1>1 DEF Next, vars, Edit, CreateByHand, Delete, Rotate
<1>2. ASSUME NEW s \in Seeders, NEW to \in {"list", "entry", "reconcile", "done"}, Returns(s, to)
      PROVE  at'[t] = at[t]
  BY <1>2, <1>a, ReturnsEffect
<1>3. ASSUME NEW s \in Seeders, NEW o \in Objects, NEW step \in {"check", "restore", "record"},
             TurnsTo(s, step, o)
      PROVE  at'[t] = at[t]
  BY <1>3, <1>a, TurnsEffect
<1>4. \A s \in Seeders : work[s].todo \subseteq Objects
  BY <1>a DEF TypeOK
<1>5. ASSUME NEW s \in Seeders, ReadObject(s), at'[t] # at[t]
      PROVE  /\ row' = row /\ overtaken' = overtaken /\ at'[t].object \in Objects
             /\ Alive(at'[t].object) /\ row[at'[t].object].content # 0
  <2>1. PICK o \in work[s].todo :
           \/ Alive(o) /\ MayUpdate(s, o) /\ TurnsTo(s, "update", o)
           \/ TurnsTo(s, "record", o)
           \/ UNCHANGED at
    BY <1>5 DEF ReadObject
  <2>2. o \in Objects
    BY <1>4
  <2>3. Alive(o) /\ MayUpdate(s, o) /\ TurnsTo(s, "update", o)
    BY <1>3, <1>5, <2>1, <2>2
  <2>4. t = s /\ at'[t].object = o
    BY <1>5, <1>a, <2>2, <2>3, TurnsEffect
  <2> QED
    BY <1>5, <2>2, <2>3, <2>4 DEF ReadObject, MayUpdate
<1>6. ASSUME NEW s \in Seeders, CreateEntry(s) PROVE at'[t] = at[t]
  <2>1. PICK o \in work[s].todo : TurnsTo(s, "check", o) \/ UNCHANGED at
    BY <1>6 DEF CreateEntry
  <2> QED
    BY <1>3, <1>4, <2>1
<1>7. ASSUME NEW s \in Seeders, CheckDeleted(s) PROVE at'[t] = at[t]
  BY <1>2, <1>3, <1>7, <1>a, AtObject DEF CheckDeleted
<1>8. ASSUME NEW s \in Seeders, UpdateObject(s) PROVE at'[t] = at[t]
  BY <1>2, <1>3, <1>8, <1>a, AtObject DEF UpdateObject
<1>9. ASSUME NEW s \in Seeders,
             BeginSeed(s) \/ ListKind(s) \/ Restore(s) \/ NextKind(s) \/ WriteState(s) \/ EndSeed(s)
      PROVE  at'[t] = at[t]
  <2>1. PICK to \in {"list", "entry", "reconcile", "done"} : Returns(s, to)
    BY <1>9 DEF BeginSeed, ListKind, Restore, NextKind, WriteState, EndSeed, Goes, Returns
  <2> QED
    BY <1>2, <2>1
<1>10. ASSUME NEW s \in Seeders, RefreshEntry(s) PROVE at'[t] = at[t]
  BY <1>10 DEF RefreshEntry
<1> QED
  BY <1>1, <1>5, <1>6, <1>7, <1>8, <1>9, <1>10 DEF SeedStep, ReconcileStep

\* Every step keeps ReadIsSeeded.
LEMMA ReadStep == TypeOK /\ ReadIsSeeded /\ [Next]_vars => ReadIsSeeded'
<1> SUFFICES ASSUME TypeOK, ReadIsSeeded, [Next]_vars,
                    NEW t \in Seeders, NEW o, o = at'[t].object,
                    at'[t].step = "update", o \notin overtaken', Exists(o)'
             PROVE  row'[o].content # 0
  BY DEF ReadIsSeeded
<1>1. CASE at'[t] # at[t]
  BY <1>1, UpdateCases
<1>2. CASE at'[t] = at[t]
  <2>1. o \in Objects /\ at[t].step = "update" /\ at[t].object = o
    BY <1>2, AtObject DEF TypeOK
  <2>2. CASE o \in overtaken
    BY <2>1, <2>2, OvertakenCases
  <2>3. CASE o \notin overtaken
    <3>1. Exists(o) => row[o].content # 0
      BY <2>1, <2>3 DEF ReadIsSeeded
    <3>2. at[t] = [step |-> "update", object |-> o]
      BY <2>1 DEF TypeOK
    <3>3. ~Edit(o) /\ ~CreateByHand(o)
      BY <2>1, <3>2 DEF Edit, CreateByHand, Overtakes
    <3>4. Same(o) \/ Touched(o)
      BY <2>1, RowCases
    <3> QED
      BY <3>1, <3>3, <3>4, NumberFacts
         DEF Same, Touched, IsRefreshed, IsCreated, IsRestored, IsUpdated, IsEdited, IsMade,
             IsDeleted, Exists, Alive
  <2> QED
    BY <2>2, <2>3
<1> QED
  BY <1>1, <1>2

\* Whatever the activations of any workspaces do, they leave alone what a user
\* edited, unless the edit came between a reconcile's read and its update.
THEOREM EditsAreSafe == Spec => EditsSurvive
<1>1. Init => ReadIsSeeded
  BY DEF Init, ReadIsSeeded
<1>2. TypeOK /\ ReadIsSeeded /\ [Next]_vars =>
        [\A o \in Objects :
           /\ Exists(o) /\ row[o].content = 0 /\ o \notin overtaken
           /\ row'[o].status # "absent"
           => row'[o].content = 0]_vars
  <2> SUFFICES ASSUME TypeOK, ReadIsSeeded, [Next]_vars, NEW o \in Objects,
                      Exists(o), row[o].content = 0, o \notin overtaken,
                      row'[o].status # "absent"
               PROVE  row'[o].content = 0
    OBVIOUS
  <2>1. Same(o) \/ Touched(o)
    BY RowCases
  <2>2. \A s \in Seeders : ~IsUpdated(s, o)
    BY DEF IsUpdated, UpdateObject, ReadIsSeeded
  <2>3. \A s \in Seeders : ~IsCreated(s, o)
    BY DEF IsCreated
  <2> QED
    BY <2>1, <2>2, <2>3
       DEF Same, Touched, IsRefreshed, IsRestored, IsEdited, IsMade, IsDeleted
<1> QED
  BY <1>1, <1>2, TypeInit, TypeStep, ReadStep, PTL DEF Spec, EditsSurvive

-----------------------------------------------------------------------------
(***************************************************************************)
(* References.  An object that was there, or is known to be lost, stays    *)
(* so; each activation has dealt with the kinds before its own.            *)
(***************************************************************************)
There(o) == Exists(o) \/ o \in lost

Seeding == {"list", "entry", "check", "restore"}

Orderly(s) ==
    /\ \A o \in work[s].existing : There(o)
    /\ at[s].step \in Seeding =>
          /\ work[s].kind >= 1
          /\ \A o \in Objects, j \in 1..Len(ORDER) :
                j < work[s].kind /\ ORDER[j] = KindOf[o] => There(o)
    /\ at[s].step \in Seeding \ {"list"} =>
          /\ \A o \in work[s].todo : KindOf[o] = KindAt(work[s].kind)
          /\ \A o \in Objects \ work[s].todo : KindOf[o] = KindAt(work[s].kind) => There(o)
    /\ at[s].step = "update" => \A r \in Refers[at[s].object] : There(r)

SeededRefers ==
    \A o \in Objects : Exists(o) /\ row[o].content # 0 => \A r \in Refers[o] : There(r)

RefInv == SeededRefers /\ \A s \in Seeders : Orderly(s)

\* References are among the objects, and their kinds come before.
LEMMA RefersBack ==
  ASSUME NEW o \in Objects, NEW r \in Refers[o]
  PROVE  /\ r \in Objects
         /\ \A k \in 1..Len(ORDER) : ORDER[k] = KindOf[o] =>
               \E j \in 1..Len(ORDER) : j < k /\ ORDER[j] = KindOf[r]
<1>1. r \in Objects
  BY ProvisionerAssumption
<1>2. KindOf[r] \in Kinds
  BY <1>1, ProvisionerAssumption
<1>3. PICK j \in 1..Len(ORDER) : ORDER[j] = KindOf[r]
  BY <1>2, OrderFacts
<1>4. \A k \in 1..Len(ORDER) : ORDER[k] = KindOf[o] => j < k
  BY <1>3, OrderFacts, ProvisionerAssumption
<1> QED
  BY <1>1, <1>3, <1>4

\* Nothing that was there is missed.
LEMMA ThereStays ==
  ASSUME TypeOK, [Next]_vars, NEW o \in Objects, There(o)
  PROVE  There(o)'
<1> USE DEF pastVars
<1>1. lost \subseteq lost'
  BY DEF Next, SeedStep, ReconcileStep, vars, BeginSeed, ListKind, RefreshEntry, CreateEntry,
         CheckDeleted, Restore, NextKind, ReadObject, UpdateObject, WriteState, EndSeed, Edit,
         CreateByHand, Delete, Rotate
<1>2. Same(o) \/ Touched(o)
  BY RowCases
<1> QED
  BY <1>1, <1>2
     DEF There, Exists, Alive, Same, Touched, IsRefreshed, IsCreated, IsRestored, IsUpdated,
         IsEdited, IsMade, IsDeleted

\* A step of one activation does not move another.
LEMMA OthersStay ==
  ASSUME TypeOK, NEW s \in Seeders, NEW t \in Seeders, s # t,
         BeginSeed(s) \/ SeedStep(s) \/ ReconcileStep(s)
  PROVE  at'[t] = at[t] /\ work'[t] = work[t]
<1>1. work'[t] = work[t]
  BY DEF SeedStep, ReconcileStep, BeginSeed, ListKind, RefreshEntry, CreateEntry, CheckDeleted,
         Restore, NextKind, ReadObject, UpdateObject, WriteState, EndSeed, Ticks, TypeOK
<1>2. at'[t] = at[t]
  BY DEF SeedStep, ReconcileStep, BeginSeed, ListKind, RefreshEntry, CreateEntry, CheckDeleted,
         Restore, NextKind, ReadObject, UpdateObject, WriteState, EndSeed,
         Goes, Returns, TurnsTo, TypeOK
<1> QED
  BY <1>1, <1>2

\* An activation that does not move stays orderly.
LEMMA OrderlyStays ==
  ASSUME TypeOK, NEW s \in Seeders, Orderly(s), at'[s] = at[s], work'[s] = work[s],
         \A o \in Objects : There(o) => There(o)'
  PROVE  Orderly(s)'
<1>1. at[s].step = "update" => at[s].object \in Objects
  BY AtObject DEF TypeOK
<1>2. at[s].step = "update" => Refers[at[s].object] \subseteq Objects
  BY <1>1, ProvisionerAssumption
<1>3. work[s].existing \subseteq Objects /\ work[s].todo \subseteq Objects
  BY DEF TypeOK
<1>4. \A o \in work'[s].existing : There(o)'
  BY <1>3 DEF Orderly
<1>5. at'[s].step = "update" => \A r \in Refers[at'[s].object] : There(r)'
  BY <1>1, <1>2 DEF Orderly
<1>6. at'[s].step \in Seeding =>
         /\ work'[s].kind >= 1
         /\ \A o \in Objects, j \in 1..Len(ORDER) :
               j < work'[s].kind /\ ORDER[j] = KindOf[o] => There(o)'
  BY DEF Orderly
<1>7. at'[s].step \in Seeding \ {"list"} =>
         /\ \A o \in work'[s].todo : KindOf[o] = KindAt(work'[s].kind)
         /\ \A o \in Objects \ work'[s].todo : KindOf[o] = KindAt(work'[s].kind) => There(o)'
  BY DEF Orderly
<1> QED
  BY <1>4, <1>5, <1>6, <1>7 DEF Orderly

\* Every step keeps every activation orderly.
LEMMA OrderlyStep ==
  ASSUME TypeOK, RefInv, [Next]_vars, NEW t \in Seeders
  PROVE  Orderly(t)'
<1> USE DEF pastVars
<1>a. TypeOK /\ Orderly(t) /\ SeededRefers
  BY DEF TypeOK, RefInv
<1>b. \A o \in Objects : There(o) => There(o)'
  BY ThereStays
<1>c. work[t].todo \subseteq Objects /\ work[t].existing \subseteq Objects
  BY <1>a DEF TypeOK
<1>d. work[t].kind \in 0..Len(ORDER) /\ Len(ORDER) \in Nat
  BY <1>a, OrderFacts DEF TypeOK
<1>e. work \in [Seeders -> Works] /\ work[t] \in Works
  BY <1>a DEF TypeOK, Works
<1>0. ASSUME at'[t] = at[t], work'[t] = work[t] PROVE Orderly(t)'
  BY <1>0, <1>a, <1>b, OrderlyStays
<1>1. ASSUME BeginSeed(t) PROVE Orderly(t)'
  <2>1. PICK read \in Resolved(t) :
           work' = [work EXCEPT ![t] = [NoWork EXCEPT !.kind = 1, !.token = read]]
    BY <1>1 DEF BeginSeed
  <2>2. work'[t].kind = 1 /\ work'[t].existing = {}
    BY <2>1, <1>e DEF NoWork
  <2>3. at'[t].step = "list"
    BY <1>1, <1>a, ReturnsEffect DEF BeginSeed
  <2>4. \A j \in 1..Len(ORDER) : ~(j < 1)
    OBVIOUS
  <2> QED
    BY <2>2, <2>3, <2>4 DEF Orderly
<1>2. ASSUME ListKind(t) PROVE Orderly(t)'
  <2>1. PICK existing \in SUBSET {o \in Objects : Alive(o)} :
           work' = [work EXCEPT ![t].todo = {o \in Objects : KindOf[o] = KindAt(work[t].kind)},
                                ![t].existing = existing]
    BY <1>2 DEF ListKind
  <2>2. /\ work'[t].kind = work[t].kind /\ work'[t].existing = existing
        /\ work'[t].todo = {o \in Objects : KindOf[o] = KindAt(work[t].kind)}
    BY <2>1, <1>e DEF Works
  <2>3. at[t].step = "list" /\ at'[t].step = "entry"
    <3>1. at[t] = [step |-> "list"] /\ Returns(t, "entry")
      BY <1>2 DEF ListKind, Goes, Returns
    <3> QED
      BY <1>a, <3>1, ReturnsEffect
  <2>4. \A o \in existing : There(o)'
    BY <1>b DEF Alive, Exists, There
  <2> QED
    BY <1>a, <1>b, <2>2, <2>3, <2>4 DEF Orderly, Seeding, KindAt
<1>3. ASSUME RefreshEntry(t) PROVE Orderly(t)'
  <2>1. PICK o \in work[t].todo \intersect work[t].existing : Ticks(t, o)
    BY <1>3 DEF RefreshEntry
  <2>2. There(o)' /\ at'[t] = at[t] /\ at[t].step = "entry"
    BY <1>3, <1>a, <1>b, <1>c DEF RefreshEntry, Orderly
  <2>3. /\ work'[t].todo = work[t].todo \ {o} /\ work'[t].existing = work[t].existing
        /\ work'[t].kind = work[t].kind
    BY <1>a, <2>1, TicksEffect
  <2> QED
    BY <1>a, <1>b, <1>c, <2>2, <2>3 DEF Orderly, Seeding, KindAt
<1>4. ASSUME CreateEntry(t) PROVE Orderly(t)'
  <2>1. PICK o \in work[t].todo \ work[t].existing :
           /\ Ticks(t, o)
           /\ \/ /\ ~Exists(o) /\ row' = [row EXCEPT ![o] = Payload(t, o)] /\ UNCHANGED at
              \/ /\ Exists(o)
                 /\ TurnsTo(t, "check", o) \/ UNCHANGED at
              \/ lost' = lost \union {o} /\ UNCHANGED at
    BY <1>4 DEF CreateEntry
  <2>2. o \in Objects
    BY <1>c
  <2>3. There(o)'
    <3>1. CASE row' = [row EXCEPT ![o] = Payload(t, o)]
      BY <1>a, <2>2, <3>1 DEF There, Exists, Payload, TypeOK
    <3>2. CASE Exists(o)
      BY <1>b, <2>2, <3>2 DEF There
    <3>3. CASE lost' = lost \union {o}
      BY <3>3 DEF There
    <3> QED
      BY <2>1, <3>1, <3>2, <3>3
  <2>4. at[t].step = "entry" /\ at'[t].step \in {"entry", "check"}
    BY <1>4, <1>a, <2>1, <2>2, TurnsEffect DEF CreateEntry
  <2>5. /\ work'[t].todo = work[t].todo \ {o} /\ work'[t].existing = work[t].existing
        /\ work'[t].kind = work[t].kind
    BY <1>a, <2>1, TicksEffect
  <2> QED
    BY <1>a, <1>b, <1>c, <2>3, <2>4, <2>5 DEF Orderly, Seeding, KindAt
<1>5. ASSUME CheckDeleted(t) \/ Restore(t) PROVE Orderly(t)'
  <2>1. /\ at[t].step \in {"check", "restore"} /\ at'[t].step \in {"entry", "restore"}
        /\ work' = work
    BY <1>5, <1>a, AtObject, TurnsEffect, ReturnsEffect DEF CheckDeleted, Restore
  <2> QED
    BY <1>a, <1>b, <1>c, <2>1 DEF Orderly, Seeding, KindAt
<1>6. ASSUME NextKind(t) PROVE Orderly(t)'
  <2>1. at[t].step = "entry" /\ work[t].todo = {}
    BY <1>6 DEF NextKind
  <2>2. CASE /\ MoreKinds(work[t].kind) /\ Returns(t, "list")
             /\ work' = [work EXCEPT ![t].kind = @ + 1, ![t].existing = {}]
    <3>1. at'[t].step = "list" /\ work'[t].kind = work[t].kind + 1 /\ work'[t].existing = {}
      BY <1>a, <1>e, <2>2, ReturnsEffect DEF Works
    <3>2. work[t].kind >= 1 /\ work'[t].kind >= 1
      BY <1>a, <1>d, <2>1, <3>1 DEF Orderly, Seeding
    <3>3. ASSUME NEW o \in Objects, NEW j \in 1..Len(ORDER), j < work'[t].kind,
                 ORDER[j] = KindOf[o]
          PROVE  There(o)'
      <4>1. j < work[t].kind \/ j = work[t].kind
        BY <1>d, <3>1, <3>3
      <4> QED
        BY <1>a, <1>b, <2>1, <3>3, <4>1 DEF Orderly, Seeding, KindAt
    <3> QED
      BY <3>1, <3>2, <3>3 DEF Orderly, Seeding
  <2>3. CASE /\ Returns(t, "reconcile")
             /\ work' = [work EXCEPT ![t].existing = {}, ![t].todo = Objects]
    <3>1. at'[t].step = "reconcile" /\ work'[t].existing = {}
      BY <1>a, <1>e, <2>3, ReturnsEffect DEF Works
    <3> QED
      BY <3>1 DEF Orderly, Seeding
  <2> QED
    BY <1>6, <2>2, <2>3 DEF NextKind
<1>7. ASSUME ReadObject(t) PROVE Orderly(t)'
  <2>1. PICK o \in work[t].todo :
           /\ Ticks(t, o)
           /\ \/ Alive(o) /\ MayUpdate(t, o) /\ TurnsTo(t, "update", o)
              \/ TurnsTo(t, "record", o)
              \/ UNCHANGED at
    BY <1>7 DEF ReadObject
  <2>2. o \in Objects /\ at[t].step = "reconcile"
    BY <1>7, <1>c DEF ReadObject
  <2>3. /\ at'[t].step \in {"reconcile", "record", "update"}
        /\ at'[t].step = "update" => Alive(o) /\ MayUpdate(t, o) /\ at'[t].object = o
    BY <1>a, <2>1, <2>2, TurnsEffect
  <2>4. at'[t].step = "update" => \A r \in Refers[o] : There(r)'
    BY <1>a, <1>b, <2>2, <2>3, RefersBack DEF SeededRefers, MayUpdate, Alive, Exists
  <2>5. work'[t].existing = work[t].existing
    BY <1>a, <2>1, TicksEffect
  <2> QED
    BY <1>a, <1>b, <1>c, <2>3, <2>4, <2>5 DEF Orderly, Seeding
<1>8. ASSUME UpdateObject(t) PROVE Orderly(t)'
  <2>1. at'[t].step \in {"record", "reconcile"} /\ work' = work
    BY <1>8, <1>a, AtObject, TurnsEffect, ReturnsEffect DEF UpdateObject
  <2> QED
    BY <1>a, <1>b, <1>c, <2>1 DEF Orderly, Seeding
<1>9. ASSUME WriteState(t) PROVE Orderly(t)'
  <2>1. at'[t].step = "reconcile" /\ work' = work
    BY <1>9, <1>a, ReturnsEffect DEF WriteState
  <2> QED
    BY <1>a, <1>b, <1>c, <2>1 DEF Orderly, Seeding
<1>10. ASSUME EndSeed(t) PROVE Orderly(t)'
  <2>1. at'[t].step = "done" /\ work' = work
    BY <1>10, <1>a, ReturnsEffect DEF EndSeed, Goes, Returns
  <2> QED
    BY <1>a, <1>b, <1>c, <2>1 DEF Orderly, Seeding
<1>11. ASSUME NEW s \in Seeders, s # t, BeginSeed(s) \/ SeedStep(s) \/ ReconcileStep(s)
       PROVE  at'[t] = at[t] /\ work'[t] = work[t]
  BY <1>11, <1>a, OthersStay
<1>12. ASSUME \/ \E o \in Objects : Edit(o) \/ CreateByHand(o) \/ \E hard \in BOOLEAN : Delete(o, hard)
              \/ (\E w \in Workspaces : Rotate(w)) \/ UNCHANGED vars
       PROVE  at'[t] = at[t] /\ work'[t] = work[t]
  BY <1>12 DEF Edit, CreateByHand, Delete, Rotate, vars
<1> QED
  BY <1>0, <1>1, <1>2, <1>3, <1>4, <1>5, <1>6, <1>7, <1>8, <1>9, <1>10, <1>11, <1>12
     DEF Next, SeedStep, ReconcileStep

\* Every step keeps the references of what was seeded.
LEMMA SeededStep ==
  ASSUME TypeOK, RefInv, [Next]_vars
  PROVE  SeededRefers'
<1> SUFFICES ASSUME NEW o \in Objects, Exists(o)', row'[o].content # 0
             PROVE  \A r \in Refers[o] : There(r)'
  BY DEF SeededRefers
<1>1. ASSUME \A r \in Refers[o] : There(r) PROVE \A r \in Refers[o] : There(r)'
  BY <1>1, ThereStays, RefersBack
<1>2. ASSUME Exists(o), row[o].content # 0 PROVE \A r \in Refers[o] : There(r)
  BY <1>2 DEF RefInv, SeededRefers
<1>3. ASSUME NEW s \in Seeders, IsCreated(s, o) PROVE \A r \in Refers[o] : There(r)
  <2>1. at[s].step = "entry" /\ o \in work[s].todo /\ Orderly(s)
    BY <1>3 DEF IsCreated, CreateEntry, RefInv
  <2>2. KindOf[o] = ORDER[work[s].kind] /\ work[s].kind >= 1
    BY <2>1 DEF Orderly, Seeding, KindAt
  <2>3. work[s].kind \in 1..Len(ORDER)
    <3>1. work[s].kind \in 0..Len(ORDER)
      BY DEF TypeOK
    <3> QED
      BY <2>2, <3>1, OrderFacts
  <2>4. ASSUME NEW r \in Refers[o] PROVE There(r)
    <3>1. PICK j \in 1..Len(ORDER) : j < work[s].kind /\ ORDER[j] = KindOf[r]
      BY <2>2, <2>3, RefersBack
    <3>2. r \in Objects
      BY RefersBack
    <3> QED
      BY <2>1, <3>1, <3>2 DEF Orderly, Seeding
  <2> QED
    BY <2>4
<1>4. ASSUME NEW s \in Seeders, IsUpdated(s, o) PROVE \A r \in Refers[o] : There(r)
  BY <1>4 DEF IsUpdated, UpdateObject, RefInv, Orderly
<1>5. Same(o) \/ Touched(o)
  BY RowCases
<1>6. Same(o) \/ (\E s \in Seeders : IsRefreshed(s, o) \/ IsRestored(s, o)) \/ IsDeleted(o)
        => Exists(o) /\ row[o].content # 0
  BY DEF Same, IsRefreshed, IsRestored, IsDeleted, Exists, Alive
<1>7. ~IsEdited(o) /\ ~IsMade(o)
  BY DEF IsEdited, IsMade
<1> QED
  BY <1>1, <1>2, <1>3, <1>4, <1>5, <1>6, <1>7 DEF Touched

\* In any order of activations, failures and interventions, what was seeded names
\* no object that was never there.
THEOREM ReferencesHold == Spec => []ReferencesExist
<1>1. Init => RefInv
  BY DEF Init, RefInv, SeededRefers, Orderly, Seeding, Absent, NoWork, Exists
<1>2. TypeOK /\ RefInv /\ [Next]_vars => RefInv'
  BY OrderlyStep, SeededStep DEF RefInv
<1>3. RefInv => ReferencesExist
  BY DEF RefInv, SeededRefers, There, ReferencesExist
<1> QED
  BY <1>1, <1>2, <1>3, TypeInit, TypeStep, PTL DEF Spec

-----------------------------------------------------------------------------
(***************************************************************************)
(* Convergence.  What an activation has dealt with is as it should be, and *)
(* what others do to it later is known to be theirs; an object it found    *)
(* missing from the list was missing, or came to be visible through others.*)
(***************************************************************************)
Excused(s, o) == o \in revived \union theirs[s]

Present(s, o) ==
    o \notin amiss[s] => Exists(o) /\ (KindOf[o] \in Restorable => Alive(o))

HasToken(s, o) ==
    o \in ByReference /\ ~Excused(s, o) /\ Alive(o) /\ work[s].token # NoToken
       => row[o].token = work[s].token

Good(s, o) == Present(s, o) /\ HasToken(s, o)

KindsDone(s) ==
    at[s].step \in Seeding =>
        \A o \in Objects, j \in 1..Len(ORDER) :
            j < work[s].kind /\ ORDER[j] = KindOf[o] => Good(s, o)

\* The rest of the kind that is being dealt with.
ListHolds(s) ==
    \A o \in work[s].todo :
        /\ o \in work[s].existing => o \in amiss[s] \/ Alive(o)
        /\ o \notin work[s].existing =>
              (o \in ByReference /\ Alive(o) => Excused(s, o))

EntriesDone(s) ==
    at[s].step \in Seeding \ {"list"} =>
        /\ ListHolds(s)
        /\ \A o \in Objects \ work[s].todo : KindOf[o] = KindAt(work[s].kind) =>
              Good(s, o) \/ (at[s].step \in {"check", "restore"} /\ o = at[s].object)

\* The object that a restore is tried on was there, and not listed.
Restoring(s) ==
    at[s].step \in {"check", "restore"} =>
        /\ at[s].object \in amiss[s] \/ Exists(at[s].object)
        /\ HasToken(s, at[s].object)

AllDone(s) ==
    at[s].step \in {"reconcile", "update", "record", "done"} => \A o \in Objects : Good(s, o)

Converging(s) == KindsDone(s) /\ EntriesDone(s) /\ Restoring(s) /\ AllDone(s)

ConvInv == \A s \in Seeders : Busy(s) => Converging(s)

\* Under way, an activation keeps the token it resolved, and remembers what went
\* amiss.
LEMMA MemoryStays ==
  ASSUME TypeOK, [Next]_vars, NEW t \in Seeders, Busy(t), ~BeginSeed(t)
  PROVE  work'[t].token = work[t].token /\ amiss[t] \subseteq amiss'[t]
<1>a. /\ work \in [Seeders -> Works] /\ work[t] \in Works
      /\ amiss \in [Seeders -> SUBSET Objects]
  BY DEF TypeOK, Works
<1>1. ASSUME NEW s \in Seeders, s # t, BeginSeed(s) \/ SeedStep(s) \/ ReconcileStep(s)
      PROVE  work'[t] = work[t]
  BY <1>1, OthersStay
<1>2. ASSUME SeedStep(t) \/ ReconcileStep(t) PROVE work'[t].token = work[t].token
  <2>1. ASSUME NEW o, Ticks(t, o) PROVE work'[t].token = work[t].token
    BY <2>1, TicksEffect
  <2>2. CASE ListKind(t) \/ NextKind(t)
    BY <1>a, <2>2 DEF ListKind, NextKind, Works
  <2>3. CASE RefreshEntry(t) \/ CreateEntry(t) \/ ReadObject(t)
    BY <2>1, <2>3 DEF RefreshEntry, CreateEntry, ReadObject
  <2>4. CASE \/ CheckDeleted(t) \/ Restore(t) \/ UpdateObject(t) \/ WriteState(t)
            \/ EndSeed(t)
    BY <2>4 DEF CheckDeleted, Restore, UpdateObject, WriteState, EndSeed
  <2> QED
    BY <1>2, <2>2, <2>3, <2>4 DEF SeedStep, ReconcileStep
<1> USE DEF pastVars
<1>3. work'[t].token = work[t].token
  BY <1>1, <1>2 DEF Next, vars, Edit, CreateByHand, Delete, Rotate
<1>4. ASSUME NEW s \in Seeders, NEW o, Lacks(s, o) PROVE amiss[t] \subseteq amiss'[t]
  BY <1>4, <1>a DEF Lacks
<1>5. ASSUME NEW o, LacksForAll(o) PROVE amiss[t] \subseteq amiss'[t]
  BY <1>5 DEF LacksForAll
<1>6. ASSUME NEW s \in Seeders, BeginSeed(s) PROVE amiss[t] \subseteq amiss'[t]
  BY <1>6, <1>a DEF BeginSeed
<1>7. ASSUME NEW s \in Seeders, SeedStep(s) \/ ReconcileStep(s)
      PROVE  amiss[t] \subseteq amiss'[t]
  BY <1>4, <1>7 DEF SeedStep, ReconcileStep, ListKind, RefreshEntry, CreateEntry,
     CheckDeleted, Restore, NextKind, ReadObject, UpdateObject, WriteState, EndSeed
<1>8. amiss[t] \subseteq amiss'[t]
  BY <1>5, <1>6, <1>7 DEF Next, vars, Edit, CreateByHand, Delete, Rotate
<1> QED
  BY <1>3, <1>8

\* A token that was not the activation's to answer for becomes so only by its own
\* writing of it.
LEMMA ExcuseStays ==
  ASSUME TypeOK, [Next]_vars, NEW t \in Seeders, Busy(t), ~BeginSeed(t),
         NEW o \in Objects, o \in ByReference, Excused(t, o)
  PROVE  \/ Excused(t, o)'
         \/ (Ticks(t, o) /\ row'[o].token = work[t].token)
<1> USE DEF pastVars
<1>a. /\ theirs \in [Seeders -> SUBSET Objects] /\ row \in [Objects -> Row]
      /\ \A s \in Seeders : work[s].todo \subseteq Objects
  BY DEF TypeOK
<1>1. ASSUME NEW s \in Seeders, RefreshEntry(s)
      PROVE  Excused(t, o)' \/ (Ticks(t, o) /\ row'[o].token = work[t].token)
  <2>1. PICK p \in work[s].todo :
           /\ Ticks(s, p)
           /\ \/ /\ Writes({s}, p) /\ revived' = revived \ {p}
                 /\ row' = [row EXCEPT ![p] = Refreshed(s, p)]
              \/ UNCHANGED <<revived, theirs>>
              \/ Misses(s, {p}) /\ UNCHANGED revived
    BY <1>1 DEF RefreshEntry
  <2>2. CASE UNCHANGED <<revived, theirs>>
    BY <2>2 DEF Excused
  <2>3. CASE Misses(s, {p}) /\ UNCHANGED revived
    BY <1>a, <2>3 DEF Misses, Excused
  <2>4. CASE /\ Writes({s}, p) /\ revived' = revived \ {p}
             /\ row' = [row EXCEPT ![p] = Refreshed(s, p)]
    <3>1. CASE p # o \/ s # t
      BY <2>4, <3>1 DEF Writes, Excused
    <3>2. CASE p = o /\ s = t
      BY <1>a, <2>1, <2>4, <3>2 DEF Refreshed, Row
    <3> QED
      BY <3>1, <3>2
  <2> QED
    BY <2>1, <2>2, <2>3, <2>4
<1>2. ASSUME NEW s \in Seeders, CreateEntry(s)
      PROVE  Excused(t, o)' \/ (Ticks(t, o) /\ row'[o].token = work[t].token)
  <2>1. PICK p \in work[s].todo :
           /\ Ticks(s, p)
           /\ \/ Writes({s}, p) /\ row' = [row EXCEPT ![p] = Payload(s, p)]
              \/ UNCHANGED theirs
    BY <1>2 DEF CreateEntry
  <2>2. revived' = revived
    BY <1>2 DEF CreateEntry
  <2>3. CASE UNCHANGED theirs
    BY <2>2, <2>3 DEF Excused
  <2>4. CASE Writes({s}, p) /\ row' = [row EXCEPT ![p] = Payload(s, p)]
    <3>1. CASE p # o \/ s # t
      BY <2>2, <2>4, <3>1 DEF Writes, Excused
    <3>2. CASE p = o /\ s = t
      BY <1>a, <2>1, <2>4, <3>2 DEF Payload, TokenOf
    <3> QED
      BY <3>1, <3>2
  <2> QED
    BY <2>1, <2>3, <2>4
<1>3. ASSUME NEW s \in Seeders, ListKind(s) PROVE Excused(t, o)'
  <2>1. /\ revived' = revived
        /\ UNCHANGED theirs \/ \E entries \in SUBSET Objects : Misses(s, entries)
    BY <1>3 DEF ListKind
  <2> QED
    BY <1>a, <2>1 DEF Misses, Excused
<1>4. ASSUME NEW s \in Seeders, BeginSeed(s) PROVE Excused(t, o)'
  BY <1>4, <1>a DEF BeginSeed, Excused
<1>5. ASSUME NEW s \in Seeders,
             CheckDeleted(s) \/ Restore(s) \/ NextKind(s) \/ ReconcileStep(s)
      PROVE  Excused(t, o)'
  BY <1>5 DEF CheckDeleted, Restore, NextKind, ReconcileStep, ReadObject, UpdateObject,
     WriteState, EndSeed, Excused
<1>6. ASSUME NEW p \in Objects,
             Edit(p) \/ CreateByHand(p) \/ \E hard \in BOOLEAN : Delete(p, hard)
      PROVE  Excused(t, o)'
  BY <1>6 DEF Edit, CreateByHand, Delete, Writes, Excused
<1>7. ASSUME (\E w \in Workspaces : Rotate(w)) \/ UNCHANGED vars PROVE Excused(t, o)'
  BY <1>7 DEF Rotate, vars, Excused
<1> QED
  BY <1>1, <1>2, <1>3, <1>4, <1>5, <1>6, <1>7 DEF Next, SeedStep

\* Only a user takes an object away.
LEMMA PresenceStays ==
  ASSUME TypeOK, [Next]_vars, NEW t \in Seeders, Busy(t), ~BeginSeed(t),
         NEW o \in Objects, o \notin amiss'[t]
  PROVE  (Exists(o) => Exists(o)') /\ (Alive(o) => Alive(o)')
<1>1. ~LacksForAll(o)
  BY DEF LacksForAll
<1>2. Same(o) \/ Touched(o)
  BY RowCases
<1> QED
  BY <1>1, <1>2
     DEF Same, Touched, IsRefreshed, IsCreated, IsRestored, IsUpdated, IsEdited, IsMade,
         IsDeleted, Exists, Alive

\* Whoever else writes a token takes it over.
LEMMA TokenStays ==
  ASSUME TypeOK, [Next]_vars, NEW t \in Seeders, Busy(t), ~BeginSeed(t),
         NEW o \in Objects, HasToken(t, o)
  PROVE  HasToken(t, o)'
<1> SUFFICES ASSUME o \in ByReference, ~Excused(t, o)', Alive(o)', work'[t].token # NoToken
             PROVE  row'[o].token = work'[t].token
  BY DEF HasToken
<1>1. work'[t].token = work[t].token
  BY MemoryStays
<1>2. CASE Excused(t, o)
  BY <1>1, <1>2, ExcuseStays
<1>3. CASE ~Excused(t, o)
  <2>1. Alive(o) => row[o].token = work[t].token
    BY <1>1, <1>3 DEF HasToken
  <2>2. \A s \in Seeders \ {t} : ~Writes({s}, o)
    BY DEF Writes, Excused
  <2>3. ~Writes({}, o)
    BY DEF Writes, Excused
  <2>4. Same(o) \/ Touched(o)
    BY RowCases
  <2>5. \A s \in Seeders : ~IsRestored(s, o)
    BY DEF IsRestored, Excused
  <2>6. TokenOf(t, o) = work[t].token
    BY DEF TokenOf
  <2>7. \A s \in Seeders : IsRefreshed(s, o) \/ IsCreated(s, o) => row'[o].token = work[t].token
    BY <2>2, <2>6 DEF IsRefreshed, IsCreated
  <2>8. \A s \in Seeders : IsUpdated(s, o) => Alive(o) /\ row'[o].token = row[o].token
    BY DEF IsUpdated
  <2>9. ~IsMade(o) /\ ~IsDeleted(o)
    BY <2>3 DEF IsMade, IsDeleted, Alive
  <2>10. IsEdited(o) \/ Same(o) => Alive(o) /\ row'[o].token = row[o].token
    BY DEF IsEdited, Same, Alive
  <2> QED
    BY <1>1, <2>1, <2>4, <2>5, <2>7, <2>8, <2>9, <2>10 DEF Touched
<1> QED
  BY <1>2, <1>3

\* What is as it should be stays so.
LEMMA GoodStays ==
  ASSUME TypeOK, [Next]_vars, NEW t \in Seeders, Busy(t), ~BeginSeed(t),
         NEW o \in Objects, Good(t, o)
  PROVE  Good(t, o)'
<1>1. Present(t, o)'
  BY MemoryStays, PresenceStays DEF Good, Present
<1>2. HasToken(t, o)'
  BY TokenStays DEF Good
<1> QED
  BY <1>1, <1>2 DEF Good

\* What is still to be dealt with stays as the list had it.
LEMMA ListStays ==
  ASSUME TypeOK, [Next]_vars, NEW t \in Seeders, Busy(t), ~BeginSeed(t), ListHolds(t),
         work'[t].todo \subseteq work[t].todo, work'[t].existing = work[t].existing
  PROVE  ListHolds(t)'
<1> SUFFICES ASSUME NEW o \in work'[t].todo
             PROVE  /\ o \in work[t].existing => o \in amiss'[t] \/ Alive(o)'
                    /\ o \notin work[t].existing =>
                          (o \in ByReference /\ Alive(o)' => Excused(t, o)')
  BY DEF ListHolds
<1>1. o \in work[t].todo /\ o \in Objects
  BY DEF TypeOK
<1>2. ASSUME o \in work[t].existing PROVE o \in amiss'[t] \/ Alive(o)'
  BY <1>1, <1>2, MemoryStays, PresenceStays DEF ListHolds
<1>3. ASSUME o \notin work[t].existing, o \in ByReference, Alive(o)' PROVE Excused(t, o)'
  <2>1. Alive(o) => Excused(t, o)
    BY <1>1, <1>3 DEF ListHolds
  <2>2. ~Ticks(t, o)
    BY TicksEffect
  <2>3. CASE Excused(t, o)
    BY <1>1, <1>3, <2>2, <2>3, ExcuseStays
  <2>4. CASE ~Alive(o)
    <3>1. Same(o) \/ Touched(o)
      BY <1>1, RowCases
    <3>2. ~IsCreated(t, o)
      <4>1. ASSUME CreateEntry(t), ~Exists(o), Writes({t}, o), o \in work[t].todo PROVE FALSE
        <5>1. PICK p \in work[t].todo :
                 /\ Ticks(t, p)
                 /\ row' = [row EXCEPT ![p] = Payload(t, p)] \/ UNCHANGED row
          BY <4>1 DEF CreateEntry
        <5>2. p # o
          BY <2>2, <5>1
        <5>3. row'[o] = row[o]
          BY <1>1, <5>1, <5>2 DEF TypeOK
        <5> QED
          BY <1>3, <2>4, <5>3 DEF Alive
      <4> QED
        BY <4>1 DEF IsCreated
    <3>3. \A s \in Seeders \ {t} : IsCreated(s, o) => Excused(t, o)'
      BY <1>3 DEF IsCreated, Writes, Excused
    <3>4. \A s \in Seeders : IsRestored(s, o) => Excused(t, o)'
      BY DEF IsRestored, Excused
    <3>5. IsMade(o) => Excused(t, o)'
      BY <1>3 DEF IsMade, Writes, Excused
    <3>6. /\ ~Same(o) /\ ~IsEdited(o) /\ ~IsDeleted(o)
          /\ \A s \in Seeders : ~IsRefreshed(s, o) /\ ~IsUpdated(s, o)
      BY <1>3, <2>4 DEF Same, IsEdited, IsDeleted, IsRefreshed, IsUpdated, Alive
    <3> QED
      BY <3>1, <3>2, <3>3, <3>4, <3>5, <3>6 DEF Touched
  <2> QED
    BY <2>1, <2>3, <2>4
<1> QED
  BY <1>2, <1>3

\* Nothing that others do takes back what an activation has done.
LEMMA ConvStays ==
  ASSUME TypeOK, [Next]_vars, NEW t \in Seeders, Busy(t), Converging(t), ~BeginSeed(t),
         at'[t] = at[t], work'[t] = work[t]
  PROVE  Converging(t)'
<1>1. \A o \in Objects : Good(t, o) => Good(t, o)'
  BY GoodStays
<1>2. KindsDone(t)'
  BY <1>1 DEF Converging, KindsDone
<1>3. ListHolds(t) => ListHolds(t)'
  BY ListStays
<1>4. EntriesDone(t)'
  BY <1>1, <1>3 DEF Converging, EntriesDone, KindAt
<1>5. Restoring(t)'
  <2>1. CASE at[t].step \in {"check", "restore"}
    <3>1. at[t].object \in Objects
      BY <2>1, AtObject
    <3>2. PICK o \in Objects : o = at[t].object
      BY <3>1
    <3>3. HasToken(t, o)' /\ (o \in amiss'[t] \/ Exists(o)')
      BY <2>1, <3>2, TokenStays, MemoryStays, PresenceStays DEF Converging, Restoring
    <3> QED
      BY <3>2, <3>3 DEF Restoring
  <2> QED
    BY <2>1 DEF Restoring
<1>6. AllDone(t)'
  BY <1>1 DEF Converging, AllDone
<1> QED
  BY <1>2, <1>4, <1>5, <1>6 DEF Converging

\* An activation that begins has dealt with nothing.
LEMMA ConvBegins ==
  ASSUME TypeOK, NEW t \in Seeders, BeginSeed(t)
  PROVE  Converging(t)'
<1>1. PICK read \in Resolved(t) :
         work' = [work EXCEPT ![t] = [NoWork EXCEPT !.kind = 1, !.token = read]]
  BY DEF BeginSeed
<1>2. work'[t].kind = 1
  BY <1>1 DEF TypeOK, NoWork
<1>3. at'[t].step = "list"
  BY ReturnsEffect DEF BeginSeed
<1>4. \A j \in 1..Len(ORDER) : ~(j < 1)
  OBVIOUS
<1> QED
  BY <1>2, <1>3, <1>4 DEF Converging, KindsDone, EntriesDone, Restoring, AllDone

\* An activation moves on through the kinds, object by object.
LEMMA ConvMoves ==
  ASSUME TypeOK, [Next]_vars, NEW t \in Seeders, Busy(t), Converging(t), ~BeginSeed(t),
         SeedStep(t) \/ ReconcileStep(t)
  PROVE  Converging(t)'
<1> USE DEF pastVars
<1>b. /\ KindsDone(t) /\ EntriesDone(t) /\ Restoring(t) /\ AllDone(t)
  BY DEF Converging
<1>c. /\ work \in [Seeders -> Works] /\ work[t] \in Works /\ row \in [Objects -> Row]
      /\ work[t].todo \subseteq Objects /\ work[t].kind \in 0..Len(ORDER) /\ Len(ORDER) \in Nat
      /\ \A o \in Objects : row[o] \in Row
  BY OrderFacts DEF TypeOK, Works
<1>d. \A o \in Objects : Good(t, o) => Good(t, o)'
  BY GoodStays
<1>e. work'[t].token = work[t].token /\ amiss[t] \subseteq amiss'[t]
  BY MemoryStays
<1>f. \A o \in Objects : HasToken(t, o) => HasToken(t, o)'
  BY TokenStays
<1>1. CASE ListKind(t)
  <2> DEFINE entries == {o \in Objects : KindOf[o] = KindAt(work[t].kind)}
  <2>1. PICK existing \in {{}, {o \in entries : Alive(o)}} :
           /\ work' = [work EXCEPT ![t].todo = entries, ![t].existing = existing]
           /\ existing = {o \in entries : Alive(o)} \/ Misses(t, entries)
           /\ row' = row
    BY <1>1 DEF ListKind
  <2>2. /\ work'[t].kind = work[t].kind /\ work'[t].todo = entries
        /\ work'[t].existing = existing
    BY <2>1, <1>c DEF Works
  <2>3. at[t].step = "list" /\ at'[t].step = "entry"
    <3>1. at[t] = [step |-> "list"] /\ Returns(t, "entry")
      BY <1>1 DEF ListKind, Goes, Returns
    <3> QED
      BY <3>1, ReturnsEffect
  <2>4. KindsDone(t)'
    BY <1>b, <1>d, <2>2, <2>3 DEF KindsDone, Seeding
  <2>5. ListHolds(t)'
    <3> SUFFICES ASSUME NEW o \in entries
                 PROVE  /\ o \in existing => o \in amiss'[t] \/ Alive(o)'
                        /\ o \notin existing =>
                              (o \in ByReference /\ Alive(o)' => Excused(t, o)')
      BY <2>2 DEF ListHolds
    <3>1. Alive(o)' <=> Alive(o)
      BY <2>1 DEF Alive
    <3>2. o \in existing => Alive(o)
      BY <2>1
    <3>3. CASE existing = {x \in entries : Alive(x)}
      BY <3>1, <3>3
    <3>4. CASE Misses(t, entries)
      BY <3>1, <3>2, <3>4 DEF Misses, Excused, TypeOK
    <3> QED
      BY <2>1, <3>3, <3>4
  <2>6. EntriesDone(t)'
    BY <2>2, <2>3, <2>5 DEF EntriesDone, KindAt
  <2> QED
    BY <2>3, <2>4, <2>6 DEF Converging, Restoring, AllDone
<1>2. CASE RefreshEntry(t)
  <2>1. PICK o \in work[t].todo \intersect work[t].existing :
           /\ Ticks(t, o)
           /\ \/ /\ row' = [row EXCEPT ![o] = Refreshed(t, o)]
                 /\ Alive(o)
              \/ ~(MayRefresh(t, o) /\ Alive(o)) /\ UNCHANGED row
              \/ Misses(t, {o}) /\ UNCHANGED row
    BY <1>2 DEF RefreshEntry
  <2>2. o \in Objects /\ at'[t] = at[t] /\ at[t].step = "entry" /\ amiss' = amiss
    BY <1>2, <1>c, <2>1 DEF RefreshEntry
  <2>3. /\ work'[t].todo = work[t].todo \ {o} /\ work'[t].existing = work[t].existing
        /\ work'[t].kind = work[t].kind
    BY <2>1, TicksEffect
  <2>4. o \in amiss[t] \/ Alive(o)
    BY <1>b, <2>1, <2>2 DEF EntriesDone, ListHolds, Seeding
  <2>5. row'[o].status = row[o].status
    BY <1>c, <2>1, <2>2 DEF Refreshed, Row
  <2>6. Present(t, o)'
    BY <2>2, <2>4, <2>5 DEF Present, Exists, Alive
  <2>7. HasToken(t, o)'
    <3>1. CASE row' = [row EXCEPT ![o] = Refreshed(t, o)]
      <4>1. row'[o].token = work[t].token
        BY <1>c, <2>2, <3>1 DEF Refreshed, Row
      <4> QED
        BY <1>e, <4>1 DEF HasToken
    <3>2. CASE ~(MayRefresh(t, o) /\ Alive(o)) /\ UNCHANGED row
      BY <1>e, <3>2 DEF HasToken, MayRefresh, Alive
    <3>3. CASE Misses(t, {o})
      BY <2>2, <3>3 DEF HasToken, Misses, Excused, TypeOK
    <3> QED
      BY <2>1, <3>1, <3>2, <3>3
  <2>8. KindsDone(t)'
    BY <1>b, <1>d, <2>2, <2>3 DEF KindsDone
  <2>9. ListHolds(t)'
    BY <1>b, <2>2, <2>3, ListStays DEF EntriesDone, Seeding
  <2>10. EntriesDone(t)'
    BY <1>b, <1>c, <1>d, <2>2, <2>3, <2>6, <2>7, <2>9 DEF EntriesDone, Good, KindAt, Seeding
  <2> QED
    BY <2>2, <2>8, <2>10 DEF Converging, Restoring, AllDone
<1>3. CASE CreateEntry(t)
  <2>1. PICK o \in work[t].todo \ work[t].existing :
           /\ Ticks(t, o)
           /\ \/ /\ row' = [row EXCEPT ![o] = Payload(t, o)] /\ UNCHANGED at
              \/ /\ Exists(o) /\ UNCHANGED row
                 /\ IF KindOf[o] \in Restorable THEN TurnsTo(t, "check", o) ELSE UNCHANGED at
              \/ Lacks(t, o) /\ UNCHANGED <<row, at>>
    BY <1>3 DEF CreateEntry
  <2>2. o \in Objects /\ at[t].step = "entry"
    BY <1>3, <1>c, <2>1 DEF CreateEntry
  <2>3. /\ work'[t].todo = work[t].todo \ {o} /\ work'[t].existing = work[t].existing
        /\ work'[t].kind = work[t].kind
    BY <2>1, TicksEffect
  <2>4. HasToken(t, o)
    BY <1>b, <2>1, <2>2 DEF EntriesDone, ListHolds, Seeding, HasToken
  <2>5. HasToken(t, o)'
    BY <1>f, <2>2, <2>4
  <2>6. ListHolds(t)'
    BY <1>b, <2>2, <2>3, ListStays DEF EntriesDone, Seeding
  <2>7. ASSUME Present(t, o)', UNCHANGED at PROVE Converging(t)'
    <3>1. Good(t, o)'
      BY <2>5, <2>7 DEF Good
    <3>2. KindsDone(t)'
      BY <1>b, <1>d, <2>2, <2>3, <2>7 DEF KindsDone
    <3>3. EntriesDone(t)'
      BY <1>b, <1>c, <1>d, <2>2, <2>3, <2>6, <2>7, <3>1 DEF EntriesDone, KindAt, Seeding
    <3> QED
      BY <2>2, <2>7, <3>2, <3>3 DEF Converging, Restoring, AllDone
  <2>8. CASE row' = [row EXCEPT ![o] = Payload(t, o)] /\ UNCHANGED at
    <3>1. row'[o] = Payload(t, o)
      BY <1>c, <2>2, <2>8
    <3>2. Present(t, o)'
      BY <3>1 DEF Present, Exists, Alive, Payload
    <3> QED
      BY <2>7, <2>8, <3>2
  <2>9. CASE Lacks(t, o) /\ UNCHANGED <<row, at>>
    BY <2>7, <2>9 DEF Present, Lacks, TypeOK
  <2>10. CASE Exists(o) /\ UNCHANGED row /\ KindOf[o] \notin Restorable /\ UNCHANGED at
    BY <2>7, <2>10 DEF Present, Exists, Alive
  <2>11. CASE Exists(o) /\ UNCHANGED row /\ KindOf[o] \in Restorable /\ TurnsTo(t, "check", o)
    <3>1. at'[t].step = "check" /\ at'[t].object = o
      BY <2>2, <2>11, TurnsEffect
    <3>2. KindsDone(t)'
      BY <1>b, <1>d, <2>2, <2>3, <3>1 DEF KindsDone, Seeding
    <3>3. EntriesDone(t)'
      BY <1>b, <1>c, <1>d, <2>2, <2>3, <2>6, <3>1 DEF EntriesDone, KindAt, Seeding
    <3>4. Restoring(t)'
      BY <2>5, <2>11, <3>1 DEF Restoring, Exists
    <3> QED
      BY <3>1, <3>2, <3>3, <3>4 DEF Converging, AllDone
  <2> QED
    BY <2>1, <2>8, <2>9, <2>10, <2>11
<1>4. ASSUME CheckDeleted(t) \/ Restore(t), NEW o \in Objects, o = at[t].object,
             /\ at'[t].step = "entry" => Present(t, o)'
             /\ at'[t].step # "entry" => at'[t].step = "restore" /\ at'[t].object = o
      PROVE  Converging(t)'
  <2>1. at[t].step \in {"check", "restore"} /\ UNCHANGED work
    BY <1>4 DEF CheckDeleted, Restore
  <2>2. o \in Objects /\ o = at[t].object
    BY <1>4
  <2>3. HasToken(t, o)' /\ (o \in amiss'[t] \/ Exists(o)')
    BY <1>b, <1>e, <1>f, <2>1, <2>2, PresenceStays DEF Restoring
  <2>4. KindsDone(t)'
    BY <1>b, <1>d, <1>4, <2>1 DEF KindsDone, Seeding
  <2>5. ListHolds(t)'
    BY <1>b, <2>1, ListStays DEF EntriesDone, Seeding
  <2>6. at'[t].step = "entry" => Good(t, o)'
    BY <1>4, <2>2, <2>3 DEF Good
  <2>7. \A p \in Objects \ work[t].todo : KindOf[p] = KindAt(work[t].kind) =>
             Good(t, p) \/ p = o
    BY <1>b, <2>1, <2>2 DEF EntriesDone, Seeding
  <2>8. \A p \in Objects \ work'[t].todo : KindOf[p] = KindAt(work'[t].kind) =>
             Good(t, p)' \/ (at'[t].step \in {"check", "restore"} /\ p = at'[t].object)
    BY <1>d, <1>4, <2>1, <2>2, <2>6, <2>7
  <2>9. EntriesDone(t)'
    BY <2>5, <2>8 DEF EntriesDone, KindAt
  <2>10. Restoring(t)'
    BY <1>4, <2>2, <2>3 DEF Restoring
  <2>11. AllDone(t)'
    BY <1>4 DEF AllDone
  <2> QED
    BY <2>4, <2>9, <2>10, <2>11 DEF Converging
<1>5. CASE CheckDeleted(t)
  <2>1. at[t].step = "check" /\ at[t].object \in Objects /\ UNCHANGED row
    BY <1>5, AtObject DEF CheckDeleted
  <2>2. PICK o \in Objects : o = at[t].object
    BY <2>1
  <2>3. o \in amiss[t] \/ Exists(o)
    BY <1>b, <2>1, <2>2 DEF Restoring
  <2>4. CASE Returns(t, "entry") /\ ~(Exists(o) /\ ~Alive(o)) /\ UNCHANGED amiss
    <3>1. at'[t].step = "entry"
      BY <2>4, ReturnsEffect
    <3>2. Present(t, o)'
      BY <2>1, <2>3, <2>4 DEF Present, Exists, Alive
    <3> QED
      BY <1>4, <1>5, <2>2, <3>1, <3>2
  <2>5. CASE Returns(t, "entry") /\ Lacks(t, o)
    <3>1. at'[t].step = "entry"
      BY <2>5, ReturnsEffect
    <3>2. Present(t, o)'
      BY <2>5 DEF Present, Lacks, TypeOK
    <3> QED
      BY <1>4, <1>5, <2>2, <3>1, <3>2
  <2>6. CASE TurnsTo(t, "restore", o)
    <3>1. at'[t].step = "restore" /\ at'[t].object = o
      BY <2>6, TurnsEffect
    <3> QED
      BY <1>4, <1>5, <2>2, <3>1
  <2> QED
    BY <1>5, <2>2, <2>4, <2>5, <2>6 DEF CheckDeleted
<1>6. CASE Restore(t)
  <2>1. at[t].step = "restore" /\ at[t].object \in Objects /\ at'[t].step = "entry"
    BY <1>6, AtObject, ReturnsEffect DEF Restore
  <2>2. PICK o \in Objects : o = at[t].object
    BY <2>1
  <2>3. o \in amiss[t] \/ Exists(o)
    BY <1>b, <2>1, <2>2 DEF Restoring
  <2>4. Present(t, o)'
    <3>1. CASE row' = [row EXCEPT ![o].status = "alive"]
      <4>1. row'[o].status = "alive"
        BY <1>c, <3>1 DEF Row
      <4> QED
        BY <4>1 DEF Present, Exists, Alive
    <3>2. CASE ~Exists(o) /\ UNCHANGED amiss
      BY <2>3, <3>2 DEF Present
    <3>3. CASE Lacks(t, o)
      BY <3>3 DEF Present, Lacks, TypeOK
    <3> QED
      BY <1>6, <2>2, <3>1, <3>2, <3>3 DEF Restore
  <2> QED
    BY <1>4, <1>6, <2>1, <2>2, <2>4
<1>7. CASE NextKind(t)
  <2>1. at[t].step = "entry" /\ work[t].todo = {}
    BY <1>7 DEF NextKind
  <2>2. \A o \in Objects, j \in 1..Len(ORDER) :
           j <= work[t].kind /\ ORDER[j] = KindOf[o] => Good(t, o)'
    <3>1. \A o \in Objects : KindOf[o] = ORDER[work[t].kind] => Good(t, o)'
      BY <1>b, <1>d, <2>1 DEF EntriesDone, Seeding, KindAt
    <3>2. \A o \in Objects, j \in 1..Len(ORDER) :
             j < work[t].kind /\ ORDER[j] = KindOf[o] => Good(t, o)'
      BY <1>b, <1>d, <2>1 DEF KindsDone, Seeding
    <3>3. \A j \in 1..Len(ORDER) : j <= work[t].kind => j < work[t].kind \/ j = work[t].kind
      BY <1>c
    <3> QED
      BY <3>1, <3>2, <3>3
  <2>3. CASE /\ MoreKinds(work[t].kind) /\ Returns(t, "list")
             /\ work' = [work EXCEPT ![t].kind = @ + 1, ![t].existing = {}]
    <3>1. at'[t].step = "list" /\ work'[t].kind = work[t].kind + 1
      BY <1>c, <2>3, ReturnsEffect DEF Works
    <3>2. \A j \in 1..Len(ORDER) : j < work[t].kind + 1 => j <= work[t].kind
      BY <1>c
    <3>3. KindsDone(t)'
      BY <2>2, <3>1, <3>2 DEF KindsDone, Seeding
    <3> QED
      BY <3>1, <3>3 DEF Converging, EntriesDone, Restoring, AllDone
  <2>4. CASE ~MoreKinds(work[t].kind) /\ Returns(t, "reconcile")
    <3>1. at'[t].step = "reconcile"
      BY <2>4, ReturnsEffect
    <3>2. work[t].kind = Len(ORDER)
      BY <1>c, <2>4 DEF MoreKinds
    <3>3. ASSUME NEW o \in Objects PROVE Good(t, o)'
      <4>1. KindOf[o] \in Kinds
        BY ProvisionerAssumption
      <4>2. PICK j \in 1..Len(ORDER) : ORDER[j] = KindOf[o]
        BY <4>1, OrderFacts
      <4>3. j <= work[t].kind
        BY <1>c, <3>2
      <4> QED
        BY <2>2, <4>2, <4>3
    <3> QED
      BY <3>1, <3>3 DEF Converging, KindsDone, EntriesDone, Restoring, AllDone, Seeding
  <2> QED
    BY <1>7, <2>3, <2>4 DEF NextKind
<1>8. CASE ReconcileStep(t)
  <2>1. at[t].step \in {"reconcile", "update", "record"}
    BY <1>8 DEF ReconcileStep, ReadObject, UpdateObject, WriteState, EndSeed, Goes
  <2>2. at'[t].step \in {"reconcile", "update", "record", "done"}
    <3>1. CASE ReadObject(t)
      <4>1. PICK o \in work[t].todo :
               TurnsTo(t, "update", o) \/ TurnsTo(t, "record", o) \/ UNCHANGED at
        BY <3>1 DEF ReadObject
      <4> QED
        BY <1>c, <2>1, <4>1, TurnsEffect
    <3>2. CASE UpdateObject(t)
      BY <3>2, AtObject, TurnsEffect, ReturnsEffect DEF UpdateObject
    <3>3. CASE WriteState(t)
      BY <3>3, ReturnsEffect DEF WriteState
    <3>4. CASE EndSeed(t)
      BY <3>4, ReturnsEffect DEF EndSeed, Goes, Returns
    <3> QED
      BY <1>8, <3>1, <3>2, <3>3, <3>4 DEF ReconcileStep
  <2> QED
    BY <1>b, <1>d, <2>1, <2>2 DEF Converging, KindsDone, EntriesDone, Restoring, AllDone, Seeding
<1> QED
  BY <1>1, <1>2, <1>3, <1>5, <1>6, <1>7, <1>8 DEF SeedStep

\* Every step keeps every activation converging.
LEMMA ConvStep == TypeOK /\ ConvInv /\ [Next]_vars => ConvInv'
<1> SUFFICES ASSUME TypeOK, ConvInv, [Next]_vars, NEW t \in Seeders, Busy(t)'
             PROVE  Converging(t)'
  BY DEF ConvInv
<1>1. CASE BeginSeed(t)
  BY <1>1, ConvBegins
<1>2. CASE ~BeginSeed(t) /\ (SeedStep(t) \/ ReconcileStep(t))
  <2>1. Busy(t)
    BY <1>2 DEF SeedStep, ReconcileStep, ListKind, RefreshEntry, CreateEntry, CheckDeleted,
       Restore, NextKind, ReadObject, UpdateObject, WriteState, EndSeed, Goes, Busy
  <2> QED
    BY <1>2, <2>1, ConvMoves DEF ConvInv
<1>3. CASE ~BeginSeed(t) /\ ~SeedStep(t) /\ ~ReconcileStep(t)
  <2>1. at'[t] = at[t] /\ work'[t] = work[t]
    BY <1>3, OthersStay DEF Next, Edit, CreateByHand, Delete, Rotate, vars
  <2> QED
    BY <1>3, <2>1, ConvStays DEF ConvInv, Busy
<1> QED
  BY <1>1, <1>2, <1>3

\* For any declaration, any workspaces and any activations of them at once: after
\* an activation every object exists, and is visible if it can be restored, except
\* those that a call of it failed for or a user deleted; and those by reference
\* hold the token it resolved, except those it could not write, those others wrote
\* after it, and those that were restored.
THEOREM SeedingConverges == Spec => []SeedConverges
<1>1. Init => ConvInv
  BY DEF Init, ConvInv, Busy
<1>2. ConvInv => SeedConverges
  BY DEF ConvInv, Busy, Converging, AllDone, Good, Present, HasToken, Excused, SeedConverges
<1> QED
  BY <1>1, <1>2, TypeInit, TypeStep, ConvStep, PTL DEF Spec
=============================================================================
