--------------------------- MODULE CodexHomeProofs ---------------------------
(***************************************************************************)
(* Proofs about CodexHome, for any number of spawns, logins and mishaps:   *)
(* type correctness with the file lock's mutual exclusion, and that the    *)
(* resync never puts an older login over a fresher one.                    *)
(***************************************************************************)
EXTENDS CodexHome, TLAPS

-----------------------------------------------------------------------------
(***************************************************************************)
(* The inductive invariant.  A marked login is as old as its file; no file *)
(* is from the future; the shared file is never older than the last        *)
(* complete one; and a copy that nobody disturbed is of a file no older    *)
(* than that.                                                              *)
(***************************************************************************)
Dated(file) == (file.marked => file.login = file.mtime) /\ file.mtime <= clock

FilesDated == Dated(real) /\ Dated(shared) /\ \A s \in Spawns : Dated(staged[s])

HeldIsPast == held <= shared.mtime

CopiesAreFresh ==
    \A s \in Spawns \ exposed : at[s] \in {"copy", "write"} => staged[s].mtime >= held

NewerInv == FilesDated /\ HeldIsPast /\ CopiesAreFresh

-----------------------------------------------------------------------------
\* The comparison of _resync_shared_cli_home_auth goes by the age of the files:
\* what it copies is no older, and what it leaves is no older or the same login.
LEMMA NewerIsNoOlder ==
  ASSUME NEW src \in File, NEW dst \in File,
         src.marked => src.login = src.mtime, dst.marked => dst.login = dst.mtime
  PROVE  /\ Newer(src, dst) => src.mtime >= dst.mtime
         /\ ~Newer(src, dst) => dst.mtime >= src.mtime \/ dst.login = src.login
<1>1. /\ src.login \in Nat /\ src.mtime \in Nat /\ dst.login \in Nat /\ dst.mtime \in Nat
  BY CodexHomeAssumption DEF File, Times
<1>2. dst = NoFile => dst.mtime = 0
  BY DEF NoFile
<1> QED
  BY <1>1, <1>2 DEF Newer

\* The files there can be.
LEMMA FileTypes ==
  /\ NoFile \in File
  /\ \A t \in Times, m \in BOOLEAN : Whole(t, m) \in File
  /\ \A t \in Times : Torn(t) \in File
<1>1. 0 \in Times
  BY CodexHomeAssumption DEF Times
<1> QED
  BY <1>1 DEF NoFile, Whole, Torn, File

\* The clock and the count of mishaps stay within their bounds.
LEMMA CountersBounded ==
  ASSUME TypeOK
  PROVE  /\ Mishap => mishaps' \in 0..MaxMishaps
         /\ clock < MaxClock => clock + 1 \in Times
         /\ clock \in Nat
<1>1. clock \in 0..MaxClock /\ mishaps \in 0..MaxMishaps
  BY DEF TypeOK, Times
<1>2. MaxClock \in Nat /\ MaxMishaps \in Nat
  BY CodexHomeAssumption
<1> QED
  BY <1>1, <1>2 DEF Mishap, Times

\* Lock and steps: who is in the critical section is who has the lock.
Exclusion == \A s \in Spawns : lock = s <=> at[s] \in {"compare", "copy", "write"}

\* A spawn that goes on.
LEMMA GoMoves ==
  ASSUME TypeOK, NEW s \in Spawns, NEW from,
         NEW to \in Preparing \union {"run", "over"}, Go(s, from, to)
  PROVE  /\ at' \in [Spawns -> Preparing \union {"run", "over"}]
         /\ at[s] = from /\ at'[s] = to
         /\ \A t \in Spawns \ {s} : at'[t] = at[t]
BY DEF TypeOK, Go

\* The kernel gives the lock to one spawn, and a spawn gives back its own.
LEMMA LockKept ==
  ASSUME TypeOK, NEW s \in Spawns, \A t \in Spawns \ {s} : at'[t] = at[t],
         \/ lock' = lock /\ (at[s] \in {"compare", "copy", "write"}
                              <=> at'[s] \in {"compare", "copy", "write"})
         \/ lock = NoSpawn /\ lock' = s /\ at'[s] \in {"compare", "copy", "write"}
         \/ /\ at[s] \in {"compare", "copy", "write"} /\ lock' = NoSpawn
            /\ at'[s] \notin {"compare", "copy", "write"}
  PROVE  Exclusion' /\ lock' \in Spawns \union {NoSpawn}
BY CodexHomeAssumption DEF TypeOK, Exclusion

\* Every variable keeps its type, and the lock its holder.
LEMMA TypeStep == TypeOK /\ [Next]_vars => TypeOK'
<1> SUFFICES ASSUME TypeOK, [Next]_vars PROVE TypeOK'
  OBVIOUS
<1> USE DEF homeVars, spawnVars
<1>a. {"stage", "resync", "compare", "copy", "write", "config", "populate", "render",
       "run", "over"} = Preparing \union {"run", "over"}
  BY DEF Preparing
<1>b. Exclusion
  BY DEF TypeOK, Exclusion
<1>1. CASE LoginBegins
  <2>1. clock' \in Times /\ real' \in File
    BY <1>1, CountersBounded, FileTypes DEF LoginBegins
  <2> QED
    BY <1>1, <2>1 DEF LoginBegins, TypeOK
<1>2. CASE LoginEnds
  <2>1. real' \in File
    <3>1. real.mtime \in Times
      BY DEF TypeOK, File
    <3> QED
      BY <1>2, <3>1, FileTypes DEF LoginEnds
  <2> QED
    BY <1>2, <2>1 DEF LoginEnds, TypeOK
<1>3. ASSUME NEW s \in Spawns, Begin(s) PROVE TypeOK'
  <2>1. Exclusion' /\ at' \in [Spawns -> Preparing \union {"run", "over"}]
    BY <1>3, <1>a, GoMoves, LockKept DEF Begin
  <2> QED
    BY <1>3, <2>1, FileTypes DEF Begin, TypeOK, Exclusion
<1>4. ASSUME NEW s \in Spawns, Stage(s) PROVE TypeOK'
  <2>1. Exclusion' /\ at' \in [Spawns -> Preparing \union {"run", "over"}]
    BY <1>4, <1>a, GoMoves, LockKept DEF Stage
  <2> QED
    BY <1>4, <2>1 DEF Stage, TypeOK, Exclusion
<1>5. ASSUME NEW s \in Spawns, StageFails(s) PROVE TypeOK'
  <2>1. Exclusion' /\ at' \in [Spawns -> Preparing \union {"run", "over"}]
    BY <1>5, <1>a, GoMoves, LockKept DEF StageFails
  <2>2. mishaps' \in 0..MaxMishaps
    BY <1>5, CountersBounded DEF StageFails
  <2> QED
    BY <1>5, <2>1, <2>2 DEF StageFails, TypeOK, Exclusion
<1>6. ASSUME NEW s \in Spawns, Acquire(s) PROVE TypeOK'
  <2>1. /\ Exclusion' /\ lock' \in Spawns \union {NoSpawn}
        /\ at' \in [Spawns -> Preparing \union {"run", "over"}]
    BY <1>6, <1>a, GoMoves, LockKept DEF Acquire
  <2> QED
    BY <1>6, <2>1 DEF Acquire, TypeOK, Exclusion
<1>7. ASSUME NEW s \in Spawns, NothingStaged(s) PROVE TypeOK'
  <2>1. Exclusion' /\ at' \in [Spawns -> Preparing \union {"run", "over"}]
    BY <1>7, <1>a, GoMoves, LockKept DEF NothingStaged
  <2> QED
    BY <1>7, <2>1 DEF NothingStaged, TypeOK, Exclusion
<1>8. ASSUME NEW s \in Spawns, Compare(s) PROVE TypeOK'
  <2>1. /\ Exclusion' /\ lock' \in Spawns \union {NoSpawn}
        /\ at' \in [Spawns -> Preparing \union {"run", "over"}]
    <3>1. CASE Go(s, "compare", "copy") /\ UNCHANGED lock
      <4>1. lock \in Spawns \union {NoSpawn}
        BY DEF TypeOK
      <4> QED
        BY <1>a, <3>1, <4>1, GoMoves, LockKept
    <3>2. CASE Go(s, "compare", "config") /\ lock' = NoSpawn
      BY <1>a, <3>2, GoMoves, LockKept
    <3> QED
      BY <1>8, <3>1, <3>2 DEF Compare
  <2> QED
    BY <1>8, <2>1 DEF Compare, TypeOK, Exclusion
<1>9. ASSUME NEW s \in Spawns, CopyBegins(s) PROVE TypeOK'
  <2>1. Exclusion' /\ at' \in [Spawns -> Preparing \union {"run", "over"}]
    BY <1>9, <1>a, GoMoves, LockKept DEF CopyBegins
  <2>2. shared' \in File
    BY <1>9, FileTypes DEF CopyBegins, TypeOK
  <2> QED
    BY <1>9, <2>1, <2>2 DEF CopyBegins, TypeOK, Exclusion
<1>10. ASSUME NEW s \in Spawns, CopyEnds(s) PROVE TypeOK'
  <2>1. /\ Exclusion' /\ lock' \in Spawns \union {NoSpawn}
        /\ at' \in [Spawns -> Preparing \union {"run", "over"}]
    BY <1>10, <1>a, GoMoves, LockKept DEF CopyEnds
  <2>2. shared' \in File /\ held' \in Times
    BY <1>10 DEF CopyEnds, TypeOK, File
  <2> QED
    BY <1>10, <2>1, <2>2 DEF CopyEnds, TypeOK, Exclusion
<1>11. ASSUME NEW s \in Spawns, ResyncFails(s) PROVE TypeOK'
  <2>1. /\ at' \in [Spawns -> Preparing \union {"run", "over"}]
        /\ at'[s] = "config" /\ \A t \in Spawns \ {s} : at'[t] = at[t]
    BY <1>11, <1>a DEF ResyncFails, TypeOK
  <2>2. Exclusion' /\ lock' \in Spawns \union {NoSpawn}
    <3>1. lock = s <=> at[s] \in {"compare", "copy", "write"}
      BY DEF TypeOK
    <3>2. at'[s] \notin {"compare", "copy", "write"}
      BY <2>1
    <3> QED
      BY <1>11, <2>1, <3>1, <3>2, LockKept DEF ResyncFails
  <2>3. mishaps' \in 0..MaxMishaps
    BY <1>11, CountersBounded DEF ResyncFails
  <2> QED
    BY <1>11, <2>1, <2>2, <2>3 DEF ResyncFails, TypeOK, Exclusion
<1>12. ASSUME NEW s \in Spawns, CheckConfig(s) PROVE TypeOK'
  <2>1. /\ Exclusion' /\ at' \in [Spawns -> Preparing \union {"run", "over"}]
    BY <1>12, <1>a, GoMoves, LockKept DEF CheckConfig
  <2>2. todo' \in [Spawns -> SUBSET {"auth", "config"}]
    BY <1>12 DEF CheckConfig, TypeOK
  <2>3. config' \in {"none", "plain", "patched"}
    BY <1>12 DEF CheckConfig, TypeOK, Patched
  <2> QED
    BY <1>12, <2>1, <2>2, <2>3 DEF CheckConfig, TypeOK, Exclusion
<1>13. ASSUME NEW s \in Spawns, Populate(s) PROVE TypeOK'
  <2>1. /\ at' \in [Spawns -> Preparing \union {"run", "over"}]
        /\ \A t \in Spawns : \/ at'[t] = at[t]
                             \/ at[t] = "populate" /\ at'[t] = "render"
        /\ todo' \in [Spawns -> SUBSET {"auth", "config"}]
    <3>1. at[s] = "populate" /\ at' \in {at, [at EXCEPT ![s] = "render"]}
      BY <1>13 DEF Populate
    <3>2. PICK file : todo' = [todo EXCEPT ![s] = @ \ {file}]
      BY <1>13 DEF Populate
    <3>3. at' \in [Spawns -> Preparing \union {"run", "over"}]
      BY <3>1 DEF TypeOK, Preparing
    <3>4. todo' \in [Spawns -> SUBSET {"auth", "config"}]
      BY <3>2 DEF TypeOK
    <3>5. \A t \in Spawns : \/ at'[t] = at[t]
                            \/ at[t] = "populate" /\ at'[t] = "render"
      BY <3>1 DEF TypeOK
    <3> QED
      BY <3>3, <3>4, <3>5
  <2>2. Exclusion'
    BY <1>13, <1>b, <2>1 DEF Populate, Exclusion
  <2>3. /\ config' \in {"none", "plain", "patched"}
        /\ shared' \in File /\ held' \in Times /\ exposed' \subseteq Spawns
    BY <1>13 DEF Populate, Patched, Exposes, TypeOK, File
  <2> QED
    BY <1>13, <2>1, <2>2, <2>3 DEF Populate, TypeOK, Exclusion
<1>14. ASSUME NEW s \in Spawns, PopulateFails(s) PROVE TypeOK'
  <2>1. Exclusion' /\ at' \in [Spawns -> Preparing \union {"run", "over"}]
    BY <1>14, <1>a, GoMoves, LockKept DEF PopulateFails
  <2>2. mishaps' \in 0..MaxMishaps
    BY <1>14, CountersBounded DEF PopulateFails
  <2> QED
    BY <1>14, <2>1, <2>2 DEF PopulateFails, TypeOK, Exclusion
<1>15. ASSUME NEW s \in Spawns, Render(s) PROVE TypeOK'
  <2>1. Exclusion' /\ at' \in [Spawns -> Preparing \union {"run", "over"}]
    BY <1>15, <1>a, GoMoves, LockKept DEF Render
  <2>2. mishaps' \in 0..MaxMishaps
    BY <1>15, CountersBounded DEF Render, TypeOK
  <2> QED
    BY <1>15, <2>1, <2>2 DEF Render, TypeOK, Exclusion
<1>16. ASSUME NEW s \in Spawns, Dies(s) PROVE TypeOK'
  <2>1. /\ at' \in [Spawns -> Preparing \union {"run", "over"}]
        /\ at'[s] = "over" /\ \A t \in Spawns \ {s} : at'[t] = at[t]
    BY <1>16, <1>a DEF Dies, TypeOK
  <2>2. Exclusion' /\ lock' \in Spawns \union {NoSpawn}
    <3>1. lock \in Spawns \union {NoSpawn}
      BY DEF TypeOK
    <3> QED
      BY <1>16, <1>b, <2>1, <3>1, LockKept DEF Dies, Exclusion
  <2>3. mishaps' \in 0..MaxMishaps
    BY <1>16, CountersBounded DEF Dies
  <2> QED
    BY <1>16, <2>1, <2>2, <2>3 DEF Dies, TypeOK, Exclusion
<1>17. ASSUME NEW s \in Spawns, Refresh(s) PROVE TypeOK'
  <2>1. /\ clock' \in Times /\ shared' \in File /\ real' \in File
        /\ held' \in Times /\ exposed' \subseteq Spawns
    BY <1>17, CountersBounded, FileTypes DEF Refresh, Exposes, TypeOK
  <2> QED
    BY <1>17, <2>1 DEF Refresh, TypeOK
<1>18. ASSUME NEW s \in Spawns, RunEnds(s) PROVE TypeOK'
  <2>1. Exclusion' /\ at' \in [Spawns -> Preparing \union {"run", "over"}]
    BY <1>18, <1>a, GoMoves, LockKept DEF RunEnds
  <2> QED
    BY <1>18, <2>1 DEF RunEnds, TypeOK, Exclusion
<1>19. CASE UNCHANGED vars
  BY <1>19 DEF vars, TypeOK
<1> QED
  BY <1>1, <1>2, <1>3, <1>4, <1>5, <1>6, <1>7, <1>8, <1>9, <1>10, <1>11, <1>12, <1>13,
     <1>14, <1>15, <1>16, <1>17, <1>18, <1>19 DEF Next, Prepare

\* Every variable of CodexHome keeps its type, and of all the spawns that share a
\* home only the holder of .auth.json.lock is ever between its comparison and the
\* end of its copy.
THEOREM TypeCorrect == Spec => []TypeOK
<1>1. Init => TypeOK
  <2> SUFFICES ASSUME Init PROVE TypeOK
    OBVIOUS
  <2>1. MaxClock \in Nat \ {0} /\ MaxMishaps \in Nat
    BY CodexHomeAssumption
  <2>2. 0 \in Times /\ 1 \in Times /\ 0 \in 0..MaxMishaps
    BY <2>1 DEF Times
  <2>3. real \in File /\ shared \in File /\ held \in Times
    BY <2>2, FileTypes DEF Init, File
  <2>4. NoFile \in File /\ "over" \in Preparing \union {"run", "over"}
    BY FileTypes
  <2>5. \A s \in Spawns : lock # s /\ at[s] = "over"
    BY CodexHomeAssumption DEF Init
  <2> QED
    BY <2>2, <2>3, <2>4, <2>5 DEF Init, TypeOK
<1> QED
  BY <1>1, TypeStep, PTL DEF Spec

-----------------------------------------------------------------------------
\* A step that leaves every auth.json alone and begins no copy keeps NewerInv.
LEMMA FilesAlone ==
  ASSUME NewerInv, UNCHANGED <<real, shared, held, staged, exposed, clock>>,
         \A s \in Spawns : at'[s] \in {"copy", "write"} => at[s] \in {"copy", "write"}
  PROVE  NewerInv'
BY DEF NewerInv, FilesDated, Dated, HeldIsPast, CopiesAreFresh

\* A write without the lock exposes every copy under way.
LEMMA ExposesAll ==
  ASSUME NewerInv, Exposes,
         \A s \in Spawns : at'[s] \in {"copy", "write"} => at[s] \in {"copy", "write"}
  PROVE  CopiesAreFresh'
BY DEF Exposes, CopiesAreFresh

\* The times that the invariants compare are numbers.
LEMMA TimesAreNumbers ==
  ASSUME TypeOK
  PROVE  /\ clock \in Nat /\ held \in Nat
         /\ real.mtime \in Nat /\ real.login \in Nat
         /\ shared.mtime \in Nat /\ shared.login \in Nat
         /\ \A s \in Spawns : staged[s].mtime \in Nat /\ staged[s].login \in Nat
<1>1. Times \subseteq Nat
  BY CodexHomeAssumption DEF Times
<1>2. \A f \in File : f.mtime \in Nat /\ f.login \in Nat
  BY <1>1 DEF File
<1> QED
  BY <1>1, <1>2 DEF TypeOK

\* Every step keeps NewerInv.
LEMMA NewerStep == TypeOK /\ NewerInv /\ [Next]_vars => NewerInv'
<1> SUFFICES ASSUME TypeOK, NewerInv, [Next]_vars PROVE NewerInv'
  OBVIOUS
<1> USE DEF homeVars, spawnVars
<1>a. Preparing = {"stage", "resync", "compare", "copy", "write", "config", "populate", "render"}
  BY DEF Preparing
<1>b. /\ clock \in Nat /\ held \in Nat /\ real.mtime \in Nat /\ shared.mtime \in Nat
      /\ \A s \in Spawns : staged[s].mtime \in Nat
  BY TimesAreNumbers
<1>1. CASE LoginBegins
  BY <1>1, <1>b DEF LoginBegins, Torn, NewerInv, FilesDated, Dated, HeldIsPast, CopiesAreFresh
<1>2. CASE LoginEnds
  BY <1>2 DEF LoginEnds, Whole, NewerInv, FilesDated, Dated, HeldIsPast, CopiesAreFresh
<1>3. ASSUME NEW s \in Spawns, Begin(s) PROVE NewerInv'
  <2>1. at'[s] = "stage" /\ \A t \in Spawns \ {s} : at'[t] = at[t]
    BY <1>3, <1>a, GoMoves DEF Begin
  <2>2. \A t \in Spawns : staged'[t] = IF t = s THEN NoFile ELSE staged[t]
    BY <1>3 DEF Begin, TypeOK
  <2>3. Dated(NoFile)
    BY <1>b DEF Dated, NoFile
  <2>4. FilesDated'
    BY <1>3, <2>2, <2>3 DEF Begin, NewerInv, FilesDated, Dated
  <2>5. CopiesAreFresh'
    BY <1>3, <2>1, <2>2 DEF Begin, NewerInv, CopiesAreFresh
  <2> QED
    BY <1>3, <2>4, <2>5 DEF Begin, NewerInv, HeldIsPast
<1>4. ASSUME NEW s \in Spawns, Stage(s) PROVE NewerInv'
  <2>1. at'[s] = "resync" /\ \A t \in Spawns \ {s} : at'[t] = at[t]
    BY <1>4, <1>a, GoMoves DEF Stage
  <2>2. \A t \in Spawns : staged'[t] = IF t = s THEN real ELSE staged[t]
    BY <1>4 DEF Stage, TypeOK
  <2>3. FilesDated'
    BY <1>4, <2>2 DEF Stage, NewerInv, FilesDated, Dated
  <2>4. CopiesAreFresh'
    BY <1>4, <2>1, <2>2 DEF Stage, NewerInv, CopiesAreFresh
  <2> QED
    BY <1>4, <2>3, <2>4 DEF Stage, NewerInv, HeldIsPast
<1>5. ASSUME NEW s \in Spawns, StageFails(s) PROVE NewerInv'
  BY <1>5, <1>a, GoMoves, FilesAlone DEF StageFails
<1>6. ASSUME NEW s \in Spawns, Acquire(s) PROVE NewerInv'
  BY <1>6, <1>a, GoMoves, FilesAlone DEF Acquire
<1>7. ASSUME NEW s \in Spawns, NothingStaged(s) PROVE NewerInv'
  BY <1>7, <1>a, GoMoves, FilesAlone DEF NothingStaged
<1>8. ASSUME NEW s \in Spawns, Compare(s) PROVE NewerInv'
  <2>1. CASE Newer(staged[s], shared) /\ Go(s, "compare", "copy")
    <3>1. at[s] = "compare" /\ \A t \in Spawns \ {s} : at'[t] = at[t]
      BY <1>a, <2>1, GoMoves
    <3>2. staged[s] \in File /\ shared \in File /\ Dated(staged[s]) /\ Dated(shared)
      BY DEF TypeOK, NewerInv, FilesDated
    <3>3. staged[s].mtime >= shared.mtime
      BY <2>1, <3>2, NewerIsNoOlder DEF Dated
    <3>4. staged[s].mtime >= held
      BY <1>b, <3>3 DEF NewerInv, HeldIsPast
    <3>5. CopiesAreFresh'
      BY <1>8, <3>1, <3>4 DEF Compare, NewerInv, CopiesAreFresh
    <3> QED
      BY <1>8, <3>5 DEF Compare, NewerInv, FilesDated, Dated, HeldIsPast
  <2>2. CASE Go(s, "compare", "config")
    BY <1>8, <1>a, <2>2, GoMoves, FilesAlone DEF Compare
  <2> QED
    BY <1>8, <2>1, <2>2 DEF Compare
<1>9. ASSUME NEW s \in Spawns, CopyBegins(s) PROVE NewerInv'
  <2>1. at[s] = "copy" /\ \A t \in Spawns \ {s} : at'[t] = at[t]
    BY <1>9, <1>a, GoMoves DEF CopyBegins
  <2>2. held <= clock
    BY <1>b DEF NewerInv, HeldIsPast, FilesDated, Dated
  <2>3. FilesDated' /\ HeldIsPast'
    BY <1>9, <1>b, <2>2 DEF CopyBegins, Torn, NewerInv, FilesDated, Dated, HeldIsPast
  <2>4. CopiesAreFresh'
    BY <1>9, <2>1 DEF CopyBegins, NewerInv, CopiesAreFresh
  <2> QED
    BY <2>3, <2>4 DEF NewerInv
<1>10. ASSUME NEW s \in Spawns, CopyEnds(s) PROVE NewerInv'
  <2>1. at[s] = "write" /\ at'[s] = "config" /\ \A t \in Spawns \ {s} : at'[t] = at[t]
    BY <1>10, <1>a, GoMoves DEF CopyEnds
  <2>2. \A t \in Spawns : at'[t] \notin {"copy", "write"}
    BY <2>1, CodexHomeAssumption DEF TypeOK
  <2>3. FilesDated' /\ HeldIsPast'
    BY <1>10, <1>b DEF CopyEnds, NewerInv, FilesDated, Dated, HeldIsPast
  <2> QED
    BY <2>2, <2>3 DEF NewerInv, CopiesAreFresh
<1>11. ASSUME NEW s \in Spawns, ResyncFails(s) PROVE NewerInv'
  BY <1>11, FilesAlone DEF ResyncFails, TypeOK
<1>12. ASSUME NEW s \in Spawns, CheckConfig(s) PROVE NewerInv'
  BY <1>12, <1>a, GoMoves, FilesAlone DEF CheckConfig
<1>13. ASSUME NEW s \in Spawns, Populate(s) PROVE NewerInv'
  <2>1. \A t \in Spawns : at'[t] \in {"copy", "write"} => at[t] \in {"copy", "write"}
    BY <1>13 DEF Populate, TypeOK
  <2>2. CASE UNCHANGED <<shared, held, exposed>>
    BY <1>13, <2>1, <2>2, FilesAlone DEF Populate
  <2>3. CASE shared' = staged[s] /\ held' = staged[s].mtime /\ Exposes
    <3>1. FilesDated' /\ HeldIsPast'
      BY <1>13, <1>b, <2>3 DEF Populate, NewerInv, FilesDated, Dated, HeldIsPast
    <3> QED
      BY <2>1, <2>3, <3>1, ExposesAll DEF NewerInv
  <2> QED
    BY <1>13, <2>2, <2>3 DEF Populate
<1>14. ASSUME NEW s \in Spawns, PopulateFails(s) PROVE NewerInv'
  BY <1>14, <1>a, GoMoves, FilesAlone DEF PopulateFails
<1>15. ASSUME NEW s \in Spawns, Render(s) PROVE NewerInv'
  BY <1>15, <1>a, GoMoves, FilesAlone DEF Render
<1>16. ASSUME NEW s \in Spawns, Dies(s) PROVE NewerInv'
  BY <1>16, FilesAlone DEF Dies, TypeOK
<1>17. ASSUME NEW s \in Spawns, Refresh(s) PROVE NewerInv'
  <2>1. CASE shared' = Whole(clock + 1, TRUE) /\ held' = clock + 1 /\ Exposes /\ UNCHANGED real
    <3>1. FilesDated' /\ HeldIsPast'
      BY <1>17, <1>b, <2>1 DEF Refresh, Whole, NewerInv, FilesDated, Dated, HeldIsPast
    <3> QED
      BY <1>17, <2>1, <3>1, ExposesAll DEF Refresh, NewerInv
  <2>2. CASE real' = Whole(clock + 1, TRUE) /\ UNCHANGED <<shared, held, exposed>>
    BY <1>17, <1>b, <2>2
       DEF Refresh, Whole, NewerInv, FilesDated, Dated, HeldIsPast, CopiesAreFresh
  <2> QED
    BY <1>17, <2>1, <2>2 DEF Refresh
<1>18. ASSUME NEW s \in Spawns, RunEnds(s) PROVE NewerInv'
  BY <1>18, <1>a, GoMoves, FilesAlone DEF RunEnds
<1>19. CASE UNCHANGED vars
  BY <1>19, FilesAlone DEF vars
<1> QED
  BY <1>1, <1>2, <1>3, <1>4, <1>5, <1>6, <1>7, <1>8, <1>9, <1>10, <1>11, <1>12, <1>13,
     <1>14, <1>15, <1>16, <1>17, <1>18, <1>19 DEF Next, Prepare

\* The homes an install starts with.
LEMMA NewerInit == Init => NewerInv
BY DEF Init, NoFile, Whole, NewerInv, FilesDated, Dated, HeldIsPast, CopiesAreFresh

\* A resync that ends by itself, under the invariants, has taken the newer file.
LEMMA ResyncTakesTheNewer ==
  ASSUME TypeOK, NewerInv, [Next]_vars, NEW s \in Spawns,
         at[s] \in {"compare", "write"}, at'[s] = "config",
         s \notin exposed, mishaps' = mishaps
  PROVE  /\ shared'.mtime >= staged[s].mtime \/ shared'.login = staged[s].login
         /\ shared'.mtime >= held
<1> USE DEF homeVars, spawnVars
<1>1. at'[s] # at[s]
  OBVIOUS
<1>2. \/ Compare(s) \/ CopyEnds(s)
  <2>1. at # at'
    BY <1>1
  <2>2. PICK t \in Spawns : Begin(t) \/ Prepare(t) \/ Dies(t) \/ RunEnds(t)
    BY <2>1 DEF Next, vars, LoginBegins, LoginEnds, Refresh
  <2>3. t = s
    BY <1>1, <2>2 DEF Go, TypeOK, Begin, Prepare, Dies, RunEnds, Stage, StageFails, Acquire,
                     NothingStaged, Compare, CopyBegins, CopyEnds, ResyncFails, CheckConfig,
                     Populate, PopulateFails, Render
  <2>4. mishaps \in Nat
    BY CodexHomeAssumption DEF TypeOK
  <2>5. ~Mishap
    BY <2>4 DEF Mishap
  <2> QED
    BY <2>2, <2>3, <2>5 DEF Go, TypeOK, Begin, Prepare, Dies, RunEnds, Stage, StageFails,
                     Acquire, NothingStaged, CopyBegins, ResyncFails, CheckConfig,
                     Populate, PopulateFails, Render
<1>3. /\ held \in Nat /\ shared.mtime \in Nat /\ staged[s].mtime \in Nat
      /\ shared \in File /\ staged[s] \in File
      /\ Dated(shared) /\ Dated(staged[s]) /\ shared.mtime >= held
  BY TimesAreNumbers DEF TypeOK, NewerInv, FilesDated, HeldIsPast
<1>4. CASE Compare(s)
  <2>1. ~Newer(staged[s], shared) /\ shared' = shared
    BY <1>4 DEF Compare, Go, TypeOK
  <2>2. shared.mtime >= staged[s].mtime \/ shared.login = staged[s].login
    BY <1>3, <2>1, NewerIsNoOlder DEF Dated
  <2> QED
    BY <1>3, <2>1, <2>2
<1>5. CASE CopyEnds(s)
  <2>1. at[s] = "write" /\ shared' = staged[s]
    BY <1>5 DEF CopyEnds, Go
  <2>2. staged[s].mtime >= held
    BY <2>1 DEF NewerInv, CopiesAreFresh
  <2> QED
    BY <1>3, <2>1, <2>2
<1> QED
  BY <1>2, <1>4, <1>5

\* For any number of spawns that resync one shared home: when one is done, the
\* shared login is no older than its own copy nor than what was there, unless
\* somebody wrote in the middle without the lock.
THEOREM ResyncKeepsTheNewer == Spec => TakesTheNewer
<1>1. TypeOK /\ NewerInv /\ [Next]_vars =>
        [\A s \in Spawns :
           /\ at[s] \in {"compare", "write"} /\ at'[s] = "config"
           /\ s \notin exposed /\ mishaps' = mishaps
           => /\ shared'.mtime >= staged[s].mtime \/ shared'.login = staged[s].login
              /\ shared'.mtime >= held]_vars
  BY ResyncTakesTheNewer
<1> QED
  BY <1>1, TypeCorrect, NewerInit, NewerStep, PTL DEF Spec, TakesTheNewer
=============================================================================
