------------------------ MODULE ExecIndexStoreProofs ------------------------
(***************************************************************************)
(* Proofs about ExecIndexStore, for any requests, any number of            *)
(* connections and any number of mishaps: type correctness, that an upsert *)
(* which reports success is stored unless another thread's error poisoned  *)
(* its transaction, and that a run's rows are one version of it.           *)
(***************************************************************************)
EXTENDS ExecIndexStore, FiniteSetTheorems, TLAPS

-----------------------------------------------------------------------------
(***************************************************************************)
(* The way of a request.  It has a connection from its first statement to  *)
(* its last, and connections are never opened twice.                       *)
(***************************************************************************)
Writing == {"insert", "delete", "commit"}

WayOf(u) ==
    /\ pc[u] \in {"none", "get", "connect", "take"} => sent[u] = 0
    /\ pc[u] = "insert" => sent[u] < SizeOf[u]
    /\ pc[u] \in {"delete", "commit", "ok"} => sent[u] = SizeOf[u]
    /\ pc[u] \notin (Statements \union CommitSteps) \ Writing

Ways ==
    /\ global <= opened /\ \A t \in Threads : using[t] <= opened
    /\ \A t \in Threads : pc[t] \in Statements \union CommitSteps => using[t] # 0
    /\ \A u \in Upserts : WayOf(u)

\* No transaction begins before the schema exists.
NothingYet == ~table => \A k \in Conns : conn[k].tx # "open"

\* Who wrote in a transaction is known to it.
Known == \A k \in Conns, u \in Upserts, c \in Chunks :
            <<u, c>> \in conn[k].wrote => u \in conn[k].by

(***************************************************************************)
(* What an unpoisoned upsert has sent is committed, or in the transaction  *)
(* of its connection, or the connection is gone and it will fail.          *)
(***************************************************************************)
Gone(u) == Of(u).tx \in {"closed", "lost"}

Kept(u) ==
    \A n \in 1..sent[u] :
        LET c == <<RunOf[u], n>> IN <<u, c>> \in durable \union Of(u).wrote

StoreInv ==
    /\ NothingYet /\ Known
    /\ \A u \in Upserts \ poisoned :
          /\ pc[u] \in Writing => Gone(u) \/ Kept(u)
          /\ pc[u] = "ok" => Complete(u)

(***************************************************************************)
(* One version.  A clean upsert was answered, or never came; it has no row *)
(* left in a transaction.  An upsert that is writing has dealt with the    *)
(* chunks it covers: where the table holds the row of a clean one, its     *)
(* transaction replaces it, and will poison it if it is aborted.           *)
(***************************************************************************)
Clean(u) == pc[u] \in {"none", "ok"} /\ u \notin poisoned

ChunksOfRun(r) == {r} \X (1..MaxSize)

Covered(u) ==
    IF pc[u] = "insert" THEN {RunOf[u]} \X (1..sent[u])
    ELSE IF pc[u] = "delete" THEN ChunksOf(u) ELSE ChunksOfRun(RunOf[u])

CleanRow(row) == row \in Upserts /\ Clean(row)

\* Rows are where the upsert puts them.
AtHome ==
    /\ \A k \in Conns, c \in Chunks :
          conn[k].pending[c] \in Upserts => c \in ChunksOf(conn[k].pending[c])
    /\ \A c \in Chunks : db[c] \in Upserts => c \in ChunksOf(db[c])

OneAtATime ==
    \A u, v \in Upserts :
        u # v /\ RunOf[u] = RunOf[v] /\ InFlight(u) /\ InFlight(v) => u \in raced /\ v \in raced

NotPending == \A k \in Conns, c \in Chunks : ~CleanRow(conn[k].pending[c])

\* Nor has one that is writing, but in its own transaction.
OwnOnly ==
    \A u \in Upserts : pc[u] \in Writing =>
        \A k \in Conns \ {using[u]} : \A n \in 1..sent[u] :
            conn[k].pending[<<RunOf[u], n>>] # u

Unraced(r) == \A u \in Upserts : RunOf[u] = r => u \notin raced

Covers ==
    \A u \in Upserts \ poisoned : Unraced(RunOf[u]) /\ pc[u] \in Writing /\ ~Gone(u) =>
        \A c \in Covered(u) :
            CleanRow(db[c]) => Of(u).pending[c] # "same" /\ u \in Of(u).by

OneClean ==
    \A r \in Runs : Unraced(r) =>
        \A c, d \in ChunksOfRun(r) : CleanRow(db[c]) /\ CleanRow(db[d]) => db[c] = db[d]

VersionInv == AtHome /\ OneAtATime /\ NotPending /\ OwnOnly /\ Covers /\ OneClean

-----------------------------------------------------------------------------
(***************************************************************************)
(* What the helpers of the model do to the variables.                      *)
(***************************************************************************)
Connection == [tx : {"closed", "lost", "idle", "open", "error"},
               pending : [Chunks -> Rows \union {"same"}],
               wrote : SUBSET (Upserts \X Chunks), by : SUBSET Upserts]

\* Chunks of an upsert are chunks of the table.
LEMMA SizeFacts ==
  /\ MaxSize \in Nat
  /\ \A u \in Upserts : /\ SizeOf[u] \in Nat /\ SizeOf[u] >= 1 /\ SizeOf[u] <= MaxSize
                        /\ RunOf[u] \in Runs
                        /\ ChunksOf(u) \subseteq ChunksOfRun(RunOf[u])
  /\ \A r \in Runs : ChunksOfRun(r) \subseteq Chunks
<1> DEFINE Sizes == {SizeOf[u] : u \in Upserts}
<1>1. \A u \in Upserts : SizeOf[u] \in Nat /\ SizeOf[u] >= 1 /\ RunOf[u] \in Runs
  BY StoreAssumption
<1>2. \E n \in Sizes : \A u \in Upserts : SizeOf[u] <= n
  BY StoreAssumption
<1>3. MaxSize \in Sizes /\ \A u \in Upserts : SizeOf[u] <= MaxSize
  BY <1>2 DEF MaxSize
<1>4. MaxSize \in Nat
  BY <1>1, <1>3
<1> QED
  BY <1>1, <1>3, <1>4 DEF ChunksOf, ChunksOfRun, Chunks

\* The placeholders are no requests.
LEMMA Placeholders ==
  /\ "none" \notin Upserts /\ "same" \notin Upserts
  /\ "none" \notin Threads /\ "same" \notin Threads
  /\ \A u \in Upserts : u \notin Readers /\ u # Pruner
BY StoreAssumption DEF Threads

\* An emptied connection is a connection.
Emptied(tx) == [tx |-> tx, pending |-> NoChange, wrote |-> {}, by |-> {}]

\* What the emptied connections are called in the model, and their type.
LEMMA EmptiedFacts ==
  /\ Fresh = Emptied("idle") /\ Closed = Emptied("closed")
  /\ [Fresh EXCEPT !.tx = "error"] = Emptied("error")
  /\ [Closed EXCEPT !.tx = "lost"] = Emptied("lost")
  /\ \A tx : [Fresh EXCEPT !.tx = tx] = Emptied(tx)
  /\ \A tx \in {"closed", "lost", "idle", "open", "error"} : Emptied(tx) \in Connection
  /\ NoChange \in [Chunks -> Rows \union {"same"}]
<1>1. NoChange \in [Chunks -> Rows \union {"same"}]
  BY DEF NoChange
<1> QED
  BY <1>1 DEF Emptied, Fresh, Closed, Connection

\* A thread goes on ...
LEMMA GoesEffect ==
  ASSUME TypeOK, NEW t \in Threads, NEW from, NEW to \in PCs, Goes(t, from, to)
  PROVE  /\ pc' \in [Threads -> PCs] /\ pc[t] = from /\ pc'[t] = to
         /\ \A x \in Threads \ {t} : pc'[x] = pc[x]
BY DEF TypeOK, Goes

\* ... and lets go of its connection where it ends.
LEMMA EndsEffect ==
  ASSUME TypeOK, NEW t \in Threads, NEW from, NEW to \in PCs, Ends(t, from, to)
  PROVE  /\ pc' \in [Threads -> PCs] /\ pc[t] = from /\ pc'[t] = to
         /\ using' \in [Threads -> Conns \union {0}] /\ using'[t] = 0
         /\ \A x \in Threads \ {t} : pc'[x] = pc[x] /\ using'[x] = using[x]
<1>1. using' = [using EXCEPT ![t] = 0] /\ Goes(t, from, to)
  BY DEF Ends
<1>2. using \in [Threads -> Conns \union {0}]
  BY DEF TypeOK
<1> QED
  BY <1>1, <1>2, GoesEffect

\* One connection changes.
LEMMA ConnEffect ==
  ASSUME TypeOK, NEW k \in Conns, NEW x \in Connection, conn' = [conn EXCEPT ![k] = x]
  PROVE  /\ conn' \in [Conns -> Connection] /\ conn'[k] = x
         /\ \A j \in Conns \ {k} : conn'[j] = conn[j]
BY DEF TypeOK, Connection

\* A statement takes effect in the transaction of its thread.
Changed(k, t, chunks, row) ==
    /\ conn[k].tx \in {"idle", "open"} /\ table
    /\ conn'[k].tx = "open"
    /\ \A c \in Chunks : conn'[k].pending[c] = IF c \in chunks THEN row ELSE conn[k].pending[c]
    /\ conn'[k].wrote = (IF row = t THEN conn[k].wrote \union ({t} \X chunks) ELSE conn[k].wrote)
    /\ conn'[k].by = conn[k].by \union ({t} \intersect Upserts)
    /\ \A j \in Conns \ {k} : conn'[j] = conn[j] /\ \A c \in chunks : conn[j].pending[c] = "same"

\* Changes(t, chunks, row) alters one connection, and nothing another holds.
LEMMA ChangesEffect ==
  ASSUME TypeOK, NEW t \in Threads, using[t] # 0, NEW chunks \in SUBSET Chunks, NEW row \in Rows,
         row = t => t \in Upserts, Changes(t, chunks, row)
  PROVE  /\ using[t] \in Conns
         /\ conn' \in [Conns -> Connection]
         /\ Changed(using[t], t, chunks, row)
<1> DEFINE k == using[t]
<1>1. k \in Conns
  BY DEF TypeOK
<1>2. /\ conn[k] \in Connection /\ conn[k].tx \in {"idle", "open"} /\ table
  BY <1>1 DEF TypeOK, Connection, Changes, Refused, Of
<1> DEFINE pending == [c \in Chunks |-> IF c \in chunks THEN row ELSE conn[k].pending[c]]
           wrote == IF row = t THEN conn[k].wrote \union ({t} \X chunks) ELSE conn[k].wrote
           by == conn[k].by \union ({t} \intersect Upserts)
           x == [tx |-> "open", pending |-> pending, wrote |-> wrote, by |-> by]
<1>3. conn' = [conn EXCEPT ![k] = x]
  BY DEF Changes
<1>4. pending \in [Chunks -> Rows \union {"same"}]
  BY <1>2 DEF Connection
<1>5. wrote \in SUBSET (Upserts \X Chunks) /\ by \in SUBSET Upserts
  BY <1>2 DEF Connection
<1>6. x \in Connection
  BY <1>4, <1>5 DEF Connection
<1>7. /\ conn' \in [Conns -> Connection] /\ conn'[k] = x
      /\ \A j \in Conns \ {k} : conn'[j] = conn[j]
  BY <1>1, <1>3, <1>6, ConnEffect
<1>8. \A j \in Conns \ {k}, c \in chunks : conn[j].pending[c] = "same"
  BY DEF Changes, Unlocked
<1> QED
  BY <1>1, <1>2, <1>7, <1>8 DEF Changed

\* A transaction is committed, whoever's it was.
Committed(k) ==
    /\ conn[k].tx \notin {"closed", "lost"}
    /\ conn'[k] = Emptied("idle")
    /\ \A j \in Conns \ {k} : conn'[j] = conn[j]
    /\ durable' = durable \union conn[k].wrote
    /\ \A c \in Chunks :
          db'[c] = IF conn[k].pending[c] = "same" THEN db[c] ELSE conn[k].pending[c]

\* Commits(t) empties one connection into the table.
LEMMA CommitsEffect ==
  ASSUME TypeOK, NEW t \in Threads, using[t] # 0, Commits(t)
  PROVE  /\ using[t] \in Conns
         /\ conn' \in [Conns -> Connection] /\ durable' \subseteq Upserts \X Chunks
         /\ db' \in [Chunks -> Rows]
         /\ Committed(using[t])
<1> DEFINE k == using[t]
<1>1. k \in Conns
  BY DEF TypeOK
<1>2. conn[k] \in Connection /\ db \in [Chunks -> Rows] /\ durable \subseteq Upserts \X Chunks
  BY <1>1 DEF TypeOK, Connection
<1>3. /\ conn' \in [Conns -> Connection] /\ conn'[k] = Emptied("idle")
      /\ \A j \in Conns \ {k} : conn'[j] = conn[j]
  BY <1>1, EmptiedFacts, ConnEffect DEF Commits
<1>4. db' = [c \in Chunks |-> IF conn[k].pending[c] = "same" THEN db[c] ELSE conn[k].pending[c]]
  BY DEF Commits, Seen, Of
<1>5. db' \in [Chunks -> Rows]
  BY <1>2, <1>4 DEF Connection
<1>6. durable' = durable \union conn[k].wrote /\ conn[k].tx \notin {"closed", "lost"}
  BY DEF Commits, Of
<1> QED
  BY <1>1, <1>2, <1>3, <1>4, <1>5, <1>6 DEF Committed, Connection
-----------------------------------------------------------------------------
(***************************************************************************)
(* Types, and the way of a request.                                        *)
(***************************************************************************)
TypeInv == TypeOK /\ Ways

\* What a step may do to the connections and the table, as far as types go.
StoreTyped ==
    /\ conn' \in [Conns -> Connection]
    /\ \A k \in Conns : conn'[k].tx # "open" => conn'[k] = Emptied(conn'[k].tx)
    /\ db' \in [Chunks -> Rows] /\ durable' \subseteq Upserts \X Chunks
    /\ poisoned' \subseteq Upserts /\ raced' \subseteq Upserts
    /\ mishaps' \in 0..MaxMishaps
    /\ table' \in BOOLEAN /\ service' \in {"starting", "up"}

ThreadsTyped ==
    /\ pc' \in [Threads -> PCs] /\ using' \in [Threads -> Conns \union {0}]
    /\ sent' \in [Upserts -> Nat] /\ \A u \in Upserts : sent'[u] <= SizeOf[u]
    /\ global' \in Conns \union {0} /\ opened' \in 0..MaxConns

\* The way of a thread that goes on, the others standing still.
Walks(t) ==
    /\ \A x \in Threads \ {t} : pc'[x] = pc[x] /\ using'[x] = using[x]
    /\ \A u \in Upserts \ {t} : sent'[u] = sent[u]

\* The service begins with no request, no connection and no row.
LEMMA TypeInit == Init => TypeInv
<1> SUFFICES ASSUME Init PROVE TypeInv
  OBVIOUS
<1>0. table \in BOOLEAN
  BY DEF Init
<1>1. /\ service \in {"starting", "up"}
      /\ mishaps \in 0..MaxMishaps /\ opened \in 0..MaxConns /\ global \in Conns \union {0}
      /\ durable \subseteq Upserts \X Chunks /\ poisoned \subseteq Upserts /\ raced \subseteq Upserts
  BY StoreAssumption DEF Init
<1>2. pc \in [Threads -> PCs] /\ using \in [Threads -> Conns \union {0}]
  BY DEF Init, PCs
<1>3. sent \in [Upserts -> Nat] /\ \A u \in Upserts : sent[u] <= SizeOf[u]
  BY SizeFacts DEF Init
<1>4. conn \in [Conns -> Connection] /\ db \in [Chunks -> Rows]
  BY EmptiedFacts DEF Init, Rows
<1>5. \A k \in Conns : conn[k].tx # "open" => conn[k] = [Fresh EXCEPT !.tx = conn[k].tx]
  BY EmptiedFacts DEF Init, Emptied
<1>6. TypeOK
  BY <1>0, <1>1, <1>2, <1>3, <1>4, <1>5 DEF TypeOK, Connection
<1>7. \A u \in Upserts : WayOf(u)
  BY DEF Init, WayOf, Threads, Statements, CommitSteps
<1>8. Ways
  BY <1>7 DEF Init, Ways, Statements, CommitSteps
<1> QED
  BY <1>6, <1>8 DEF TypeInv

\* A mishap stays within their bound.
LEMMA MishapEffect ==
  ASSUME TypeOK, Mishap
  PROVE  mishaps' \in 0..MaxMishaps
BY StoreAssumption DEF TypeOK, Mishap

\* A change keeps the connections well typed ...
LEMMA ChangedTyped ==
  ASSUME TypeOK, NEW t \in Threads, NEW k \in Conns, NEW chunks, NEW row,
         conn' \in [Conns -> Connection], Changed(k, t, chunks, row)
  PROVE  \A j \in Conns : conn'[j].tx # "open" => conn'[j] = Emptied(conn'[j].tx)
BY EmptiedFacts DEF TypeOK, Changed

\* ... and so does a commit.
LEMMA CommittedTyped ==
  ASSUME TypeOK, NEW k \in Conns, Committed(k)
  PROVE  \A j \in Conns : conn'[j].tx # "open" => conn'[j] = Emptied(conn'[j].tx)
BY EmptiedFacts DEF TypeOK, Committed, Emptied

\* ... and the loss, the reset and the abortion of one.
LEMMA EmptiedTyped ==
  ASSUME TypeOK, NEW k \in Conns, NEW tx \in {"closed", "lost", "idle", "error"},
         conn' = [conn EXCEPT ![k] = Emptied(tx)]
  PROVE  /\ conn' \in [Conns -> Connection] /\ conn'[k] = Emptied(tx)
         /\ \A j \in Conns \ {k} : conn'[j] = conn[j]
         /\ \A j \in Conns : conn'[j].tx # "open" => conn'[j] = Emptied(conn'[j].tx)
<1>1. Emptied(tx) \in Connection
  BY EmptiedFacts
<1>2. /\ conn' \in [Conns -> Connection] /\ conn'[k] = Emptied(tx)
      /\ \A j \in Conns \ {k} : conn'[j] = conn[j]
  BY <1>1, ConnEffect
<1>3. \A j \in Conns : conn[j].tx # "open" => conn[j] = Emptied(conn[j].tx)
  BY EmptiedFacts DEF TypeOK
<1> QED
  BY <1>2, <1>3 DEF Emptied

\* The parts that most steps leave alone.
LEMMA TypedNow ==
  ASSUME TypeOK
  PROVE  /\ conn \in [Conns -> Connection]
         /\ \A k \in Conns : conn[k].tx # "open" => conn[k] = Emptied(conn[k].tx)
         /\ db \in [Chunks -> Rows] /\ durable \subseteq Upserts \X Chunks
         /\ poisoned \subseteq Upserts /\ raced \subseteq Upserts
         /\ mishaps \in 0..MaxMishaps
         /\ table \in BOOLEAN /\ service \in {"starting", "up"}
         /\ pc \in [Threads -> PCs] /\ using \in [Threads -> Conns \union {0}]
         /\ sent \in [Upserts -> Nat] /\ \A u \in Upserts : sent[u] <= SizeOf[u]
         /\ global \in Conns \union {0} /\ opened \in 0..MaxConns
BY EmptiedFacts DEF TypeOK, Connection

\* The parts of a typed next state make the invariant.
LEMMA TypeDone ==
  ASSUME StoreTyped, ThreadsTyped, Ways'
  PROVE  TypeInv'
BY EmptiedFacts DEF StoreTyped, ThreadsTyped, TypeInv, TypeOK, Connection

\* One thread goes on: the ways of the others stay what they were.
LEMMA WayGoes ==
  ASSUME TypeOK, Ways, NEW t \in Threads, Walks(t), ThreadsTyped,
         opened' >= opened, global' <= opened', using'[t] <= opened',
         pc'[t] \in Statements \union CommitSteps => using'[t] # 0,
         t \in Upserts => WayOf(t)'
  PROVE  Ways'
<1>1. \A x \in Threads : using'[x] <= opened'
  <2> TAKE x \in Threads
  <2>1. using[x] \in Conns \union {0} /\ opened \in 0..MaxConns /\ opened' \in 0..MaxConns
    BY DEF TypeOK, ThreadsTyped
  <2>2. x # t => using'[x] = using[x] /\ using[x] <= opened
    BY DEF Walks, Ways
  <2> QED
    BY <2>1, <2>2, StoreAssumption DEF Conns
<1>2. \A x \in Threads : pc'[x] \in Statements \union CommitSteps => using'[x] # 0
  BY DEF Walks, Ways
<1>3. \A u \in Upserts : WayOf(u)'
  BY DEF Walks, Ways, WayOf, Threads
<1> QED
  BY <1>1, <1>2, <1>3 DEF Ways
\* An upsert that has its connection begins with its first chunk.
LEMMA FirstWay ==
  ASSUME TypeOK, NEW u \in Upserts, WayOf(u), pc[u] \in {"get", "connect", "take"},
         pc'[u] \in {"connect", "take", "insert", "reset"}, sent' = sent
  PROVE  WayOf(u)'
<1>1. sent'[u] = 0
  BY DEF WayOf
<1>2. sent'[u] < SizeOf[u]
  BY <1>1, SizeFacts
<1> QED
  BY <1>1, <1>2 DEF WayOf, Statements, CommitSteps, Writing

\* Every action keeps the types and the ways.
LEMMA TypeStep ==
  ASSUME TypeInv, [Next]_vars
  PROVE  TypeInv'
<1> USE DEF pastVars
<1>t. TypeOK /\ Ways
  BY DEF TypeInv
<1>n. /\ conn \in [Conns -> Connection]
      /\ \A k \in Conns : conn[k].tx # "open" => conn[k] = Emptied(conn[k].tx)
      /\ db \in [Chunks -> Rows] /\ durable \subseteq Upserts \X Chunks
      /\ poisoned \subseteq Upserts /\ raced \subseteq Upserts
      /\ mishaps \in 0..MaxMishaps
      /\ table \in BOOLEAN /\ service \in {"starting", "up"}
      /\ pc \in [Threads -> PCs] /\ using \in [Threads -> Conns \union {0}]
      /\ sent \in [Upserts -> Nat] /\ \A u \in Upserts : sent[u] <= SizeOf[u]
      /\ global \in Conns \union {0} /\ opened \in 0..MaxConns
  BY <1>t, TypedNow
<1>o. opened \in Nat /\ opened >= opened /\ global <= opened /\ global \in Nat
  BY <1>n, <1>t, StoreAssumption DEF Conns, Ways
<1>z. 0 <= opened
  BY <1>o
<1>u. \A t \in Threads : using[t] <= opened /\ using[t] \in Nat
  BY <1>n, <1>t, StoreAssumption DEF Conns, Ways
<1>r. \A u \in Upserts : u \in Threads /\ u \notin Readers /\ u # Pruner
  BY Placeholders DEF Threads
<1>e. ASSUME UNCHANGED conn
      PROVE  /\ conn' \in [Conns -> Connection]
             /\ \A k \in Conns : conn'[k].tx # "open" => conn'[k] = Emptied(conn'[k].tx)
  BY <1>n, <1>e
<1>l. \A t \in Threads : pc[t] \in Statements \union CommitSteps => using[t] \in Conns /\ using[t] # 0
  BY <1>n, <1>t DEF Ways
<1>1. CASE ServiceStarts
  <2>1. /\ UNCHANGED <<pc, using, sent, global, conn, opened, db, pastVars>>
        /\ table' \in BOOLEAN /\ service' \in {"starting", "up"}
    BY <1>1, <1>n DEF ServiceStarts
  <2>2. mishaps' \in 0..MaxMishaps
    BY <1>1, <1>n, <1>t, MishapEffect DEF ServiceStarts
  <2>3. StoreTyped
    BY <2>1, <2>2, <1>n, <1>e DEF StoreTyped
  <2>4. ThreadsTyped /\ Ways'
    BY <2>1, <1>n, <1>t DEF ThreadsTyped, Ways, WayOf
  <2> QED
    BY <2>3, <2>4, TypeDone
<1>2. CASE ServiceDies
  <2>1. /\ pc' = [t \in Threads |-> IF InFlight(t) THEN "failed" ELSE pc[t]]
        /\ using' = [t \in Threads |-> 0] /\ global' = 0
        /\ conn' = [k \in Conns |-> Emptied("closed")]
        /\ UNCHANGED <<table, sent, opened, db, pastVars>> /\ service' = "starting"
    BY <1>2, EmptiedFacts DEF ServiceDies
  <2>2. mishaps' \in 0..MaxMishaps
    BY <1>2, <1>t, MishapEffect DEF ServiceDies
  <2>3. /\ conn' \in [Conns -> Connection]
        /\ \A k \in Conns : conn'[k].tx # "open" => conn'[k] = Emptied(conn'[k].tx)
    BY <2>1, EmptiedFacts DEF Emptied
  <2>4. StoreTyped
    BY <2>1, <2>2, <2>3, <1>n DEF StoreTyped
  <2>5. ThreadsTyped
    BY <2>1, <1>n DEF ThreadsTyped, PCs
  <2>6. \A t \in Threads : pc'[t] \in {"none", "ok", "failed"} /\ (pc'[t] = "failed" \/ pc'[t] = pc[t])
    BY <2>1 DEF InFlight
  <2>7. \A u \in Upserts : WayOf(u)'
    BY <2>1, <2>6, <1>t, <1>r DEF Ways, WayOf, Statements, CommitSteps, Writing
  <2>8. Ways'
    BY <2>1, <2>6, <2>7, <1>z, <1>o DEF Ways, Statements, CommitSteps
  <2> QED
    BY <2>4, <2>5, <2>8, TypeDone
<1>3. CASE \E k \in Conns : ConnectionLost(k)
  <2> PICK k \in Conns : ConnectionLost(k)
    BY <1>3
  <2>1. /\ conn' = [conn EXCEPT ![k] = Emptied("lost")]
        /\ UNCHANGED <<table, service, pc, using, sent, global, opened, db, pastVars>>
    BY EmptiedFacts DEF ConnectionLost
  <2>2. mishaps' \in 0..MaxMishaps
    BY <1>t, MishapEffect DEF ConnectionLost
  <2>3. /\ conn' \in [Conns -> Connection]
        /\ \A j \in Conns : conn'[j].tx # "open" => conn'[j] = Emptied(conn'[j].tx)
    BY <2>1, <1>t, EmptiedTyped
  <2>4. StoreTyped
    BY <2>1, <2>2, <2>3, <1>n DEF StoreTyped
  <2>5. ThreadsTyped /\ Ways'
    BY <2>1, <1>n, <1>t DEF ThreadsTyped, Ways, WayOf
  <2> QED
    BY <2>4, <2>5, TypeDone
<1>4. CASE \E t \in Threads : Arrive(t)
  <2> PICK t \in Threads : Arrive(t)
    BY <1>4
  <2>1. /\ Goes(t, "none", "get")
        /\ UNCHANGED <<table, service, using, sent, global, conn, opened, db, mishaps, durable, poisoned>>
        /\ raced' \subseteq Upserts
    BY <1>n DEF Arrive
  <2>2. /\ pc' \in [Threads -> PCs] /\ pc[t] = "none" /\ pc'[t] = "get"
        /\ \A x \in Threads \ {t} : pc'[x] = pc[x]
    BY <2>1, <1>t, GoesEffect DEF PCs
  <2>3. t \in Upserts => WayOf(t)'
    BY <2>1, <2>2, <1>t DEF Ways, WayOf, Statements, CommitSteps
  <2>5. StoreTyped
    BY <2>1, <1>n, <1>e DEF StoreTyped
  <2>6. ThreadsTyped
    BY <2>1, <2>2, <1>n DEF ThreadsTyped
  <2>13. /\ using'[t] <= opened' /\ global' <= opened' /\ opened' >= opened
         /\ pc'[t] \in Statements \union CommitSteps => using'[t] # 0
    BY <2>1, <2>2, <2>3, <2>6, <1>o, <1>z, <1>u DEF Statements, CommitSteps
  <2>14. Walks(t)
    BY <2>1, <2>2, <2>3, <2>6 DEF Walks
  <2>7. Ways'
    BY <2>1, <2>2, <2>3, <2>6, <2>13, <2>14, <1>t, WayGoes
  <2> QED
    BY <2>5, <2>6, <2>7, TypeDone
<1>5. CASE \E u \in Upserts : Retry(u)
  <2> PICK u \in Upserts : Retry(u)
    BY <1>5
  <2>1. /\ Goes(u, "failed", "get") /\ sent' = [sent EXCEPT ![u] = 0]
        /\ UNCHANGED <<table, service, using, global, conn, opened, db, mishaps>>
        /\ raced' \subseteq Upserts /\ poisoned' \subseteq Upserts /\ durable' \subseteq Upserts \X Chunks
    BY <1>n DEF Retry
  <2>2. /\ pc' \in [Threads -> PCs] /\ pc[u] = "failed" /\ pc'[u] = "get"
        /\ \A x \in Threads \ {u} : pc'[x] = pc[x]
    BY <2>1, <1>t, <1>r, GoesEffect DEF PCs
  <2>3. /\ sent' \in [Upserts -> Nat] /\ sent'[u] = 0
        /\ \A x \in Upserts \ {u} : sent'[x] = sent[x]
    BY <2>1, <1>n
  <2>4. WayOf(u)'
    BY <2>2, <2>3 DEF WayOf, Statements, CommitSteps
  <2>5. StoreTyped
    BY <2>1, <1>n, <1>e DEF StoreTyped
  <2>6. ThreadsTyped
    BY <2>1, <2>2, <2>3, <1>n, SizeFacts DEF ThreadsTyped
  <2>13. /\ using'[u] <= opened' /\ global' <= opened' /\ opened' >= opened
         /\ pc'[u] \in Statements \union CommitSteps => using'[u] # 0
    BY <2>1, <2>2, <2>3, <2>4, <2>6, <1>r, <1>o, <1>z, <1>u DEF Statements, CommitSteps
  <2>14. Walks(u)
    BY <2>1, <2>2, <2>3, <2>4, <2>6, <1>r DEF Walks
  <2>7. Ways'
    BY <2>1, <2>2, <2>3, <2>4, <2>6, <1>r, <2>13, <2>14, <1>t, WayGoes
  <2> QED
    BY <2>5, <2>6, <2>7, TypeDone
<1>6. CASE \E t \in Threads : GetConn(t)
  <2> PICK t \in Threads : GetConn(t)
    BY <1>6
  <2>1. UNCHANGED <<table, service, using, sent, global, conn, opened, db, mishaps, pastVars>>
    BY DEF GetConn
  <2>2. PICK to \in PCs : to \in {"take", "connect"} /\ Goes(t, "get", to)
    BY DEF GetConn, PCs
  <2>3. /\ pc' \in [Threads -> PCs] /\ pc[t] = "get" /\ pc'[t] = to
        /\ \A x \in Threads \ {t} : pc'[x] = pc[x]
    BY <2>2, <1>t, GoesEffect
  <2>4. t \in Upserts => WayOf(t)'
    BY <2>1, <2>2, <2>3, <1>t, FirstWay DEF Ways
  <2>5. StoreTyped
    BY <2>1, <1>n, <1>e DEF StoreTyped
  <2>6. ThreadsTyped
    BY <2>1, <2>3, <1>n DEF ThreadsTyped
  <2>13. /\ using'[t] <= opened' /\ global' <= opened' /\ opened' >= opened
         /\ pc'[t] \in Statements \union CommitSteps => using'[t] # 0
    BY <2>1, <2>2, <2>3, <2>4, <2>6, <1>o, <1>z, <1>u DEF Statements, CommitSteps
  <2>14. Walks(t)
    BY <2>1, <2>2, <2>3, <2>4, <2>6 DEF Walks
  <2>7. Ways'
    BY <2>1, <2>2, <2>3, <2>4, <2>6, <2>13, <2>14, <1>t, WayGoes
  <2> QED
    BY <2>5, <2>6, <2>7, TypeDone
<1>7. CASE \E t \in Threads : Connect(t)
  <2> PICK t \in Threads : Connect(t)
    BY <1>7
  <2>1. /\ opened < MaxConns /\ opened' = opened + 1
        /\ Goes(t, "connect", "take")
        /\ conn' = [conn EXCEPT ![opened'] = Emptied("idle")]
        /\ global' = opened'
        /\ UNCHANGED <<table, service, using, sent, db, mishaps, pastVars>>
    BY EmptiedFacts DEF Connect
  <2>2. opened' \in Conns /\ opened' \in 0..MaxConns /\ opened' >= opened
    BY <2>1, <1>n, StoreAssumption DEF Conns
  <2>3. /\ pc' \in [Threads -> PCs] /\ pc'[t] = "take" /\ pc[t] = "connect"
        /\ \A x \in Threads \ {t} : pc'[x] = pc[x]
    BY <2>1, <1>t, GoesEffect DEF PCs
  <2>4. t \in Upserts => WayOf(t)'
    BY <2>1, <2>3, <1>t, FirstWay DEF Ways
  <2>9. /\ conn' \in [Conns -> Connection]
        /\ \A j \in Conns : conn'[j].tx # "open" => conn'[j] = Emptied(conn'[j].tx)
    BY <2>1, <2>2, <1>t, EmptiedTyped
  <2>5. StoreTyped
    BY <2>1, <2>9, <1>n DEF StoreTyped
  <2>6. ThreadsTyped
    BY <2>1, <2>2, <2>3, <1>n DEF ThreadsTyped
  <2>13. /\ using'[t] <= opened' /\ global' <= opened' /\ opened' >= opened
         /\ pc'[t] \in Statements \union CommitSteps => using'[t] # 0
    BY <2>1, <2>2, <2>3, <2>4, <2>6, <1>o, <1>z, <1>u DEF Statements, CommitSteps
  <2>14. Walks(t)
    BY <2>1, <2>2, <2>3, <2>4, <2>6 DEF Walks
  <2>7. Ways'
    BY <2>1, <2>2, <2>3, <2>4, <2>6, <2>13, <2>14, <1>t, WayGoes
  <2> QED
    BY <2>5, <2>6, <2>7, TypeDone
<1>23. CASE \E t \in Threads : TakeConn(t)
  <2> PICK t \in Threads : TakeConn(t)
    BY <1>23
  <2>1. /\ Goes(t, "take", IF global = 0 THEN "reset" ELSE First(t))
        /\ using' = [using EXCEPT ![t] = global]
        /\ UNCHANGED <<table, service, sent, global, conn, opened, db, mishaps, pastVars>>
    BY DEF TakeConn
  <2>2. First(t) \in {"insert", "select", "age"} /\ (t \in Upserts => First(t) = "insert")
        /\ First(t) \in PCs /\ "reset" \in PCs
    BY DEF First, PCs
  <2>3. /\ pc' \in [Threads -> PCs] /\ pc[t] = "take"
        /\ pc'[t] = IF global = 0 THEN "reset" ELSE First(t)
        /\ \A x \in Threads \ {t} : pc'[x] = pc[x]
        /\ using' \in [Threads -> Conns \union {0}] /\ using'[t] = global
        /\ \A x \in Threads \ {t} : using'[x] = using[x]
    BY <2>1, <2>2, <1>n, <1>t, GoesEffect
  <2>4. t \in Upserts => WayOf(t)'
    BY <2>1, <2>2, <2>3, <1>t, FirstWay DEF Ways
  <2>5. StoreTyped
    BY <2>1, <1>n, <1>e DEF StoreTyped
  <2>6. ThreadsTyped
    BY <2>1, <2>3, <1>n DEF ThreadsTyped
  <2>13. /\ using'[t] <= opened' /\ global' <= opened' /\ opened' >= opened
         /\ pc'[t] \in Statements \union CommitSteps => using'[t] # 0
    BY <2>1, <2>2, <2>3, <2>4, <2>6, <1>o, <1>z, <1>u DEF Statements, CommitSteps
  <2>14. Walks(t)
    BY <2>1, <2>2, <2>3, <2>4, <2>6 DEF Walks
  <2>7. Ways'
    BY <2>1, <2>2, <2>3, <2>4, <2>6, <2>13, <2>14, <1>t, WayGoes
  <2> QED
    BY <2>5, <2>6, <2>7, TypeDone
<1>8. CASE \E t \in Threads : ConnectFails(t)
  <2> PICK t \in Threads : ConnectFails(t)
    BY <1>8
  <2>1. /\ Goes(t, "connect", IF t \in Upserts THEN "failed" ELSE "reset")
        /\ UNCHANGED <<table, service, using, sent, global, conn, opened, db, pastVars>>
    BY DEF ConnectFails
  <2>2. mishaps' \in 0..MaxMishaps
    BY <1>t, MishapEffect DEF ConnectFails
  <2>3. /\ pc' \in [Threads -> PCs] /\ pc'[t] \in {"failed", "reset"}
        /\ \A x \in Threads \ {t} : pc'[x] = pc[x]
    BY <2>1, <1>t, GoesEffect DEF PCs
  <2>4. t \in Upserts => WayOf(t)'
    BY <2>3 DEF WayOf, Statements, CommitSteps
  <2>5. StoreTyped
    BY <2>1, <2>2, <1>n, <1>e DEF StoreTyped
  <2>6. ThreadsTyped
    BY <2>1, <2>3, <1>n DEF ThreadsTyped
  <2>13. /\ using'[t] <= opened' /\ global' <= opened' /\ opened' >= opened
         /\ pc'[t] \in Statements \union CommitSteps => using'[t] # 0
    BY <2>1, <2>3, <2>4, <2>6, <1>o, <1>z, <1>u DEF Statements, CommitSteps
  <2>14. Walks(t)
    BY <2>1, <2>3, <2>4, <2>6 DEF Walks
  <2>7. Ways'
    BY <2>1, <2>3, <2>4, <2>6, <2>13, <2>14, <1>t, WayGoes
  <2> QED
    BY <2>5, <2>6, <2>7, TypeDone
<1>9. CASE \E t \in Threads : CloseConn(t)
  <2> PICK t \in Threads : CloseConn(t)
    BY <1>9
  <2>1. /\ Goes(t, "reset", "drop")
        /\ conn' = IF global = 0 THEN conn ELSE [conn EXCEPT ![global] = Emptied("closed")]
        /\ UNCHANGED <<table, service, using, sent, global, opened, db, mishaps, pastVars>>
    BY EmptiedFacts DEF CloseConn
  <2>2. /\ conn' \in [Conns -> Connection]
        /\ \A j \in Conns : conn'[j].tx # "open" => conn'[j] = Emptied(conn'[j].tx)
    BY <2>1, <1>t, <1>n, <1>e, EmptiedTyped
  <2>3. /\ pc' \in [Threads -> PCs] /\ pc'[t] = "drop"
        /\ \A x \in Threads \ {t} : pc'[x] = pc[x]
    BY <2>1, <1>t, GoesEffect DEF PCs
  <2>4. t \in Upserts => WayOf(t)'
    BY <2>3 DEF WayOf, Statements, CommitSteps
  <2>5. StoreTyped
    BY <2>1, <2>2, <1>n DEF StoreTyped
  <2>6. ThreadsTyped
    BY <2>1, <2>3, <1>n DEF ThreadsTyped
  <2>13. /\ using'[t] <= opened' /\ global' <= opened' /\ opened' >= opened
         /\ pc'[t] \in Statements \union CommitSteps => using'[t] # 0
    BY <2>1, <2>2, <2>3, <2>4, <2>6, <1>o, <1>z, <1>u DEF Statements, CommitSteps
  <2>14. Walks(t)
    BY <2>1, <2>2, <2>3, <2>4, <2>6 DEF Walks
  <2>7. Ways'
    BY <2>1, <2>2, <2>3, <2>4, <2>6, <2>13, <2>14, <1>t, WayGoes
  <2> QED
    BY <2>5, <2>6, <2>7, TypeDone
<1>24. CASE \E t \in Threads : DropConn(t)
  <2> PICK t \in Threads : DropConn(t)
    BY <1>24
  <2>1. /\ Ends(t, "drop", IF t \in Upserts THEN "failed" ELSE "ok")
        /\ global' = 0
        /\ UNCHANGED <<table, service, sent, conn, opened, db, mishaps, pastVars>>
    BY DEF DropConn
  <2>2. "failed" \in PCs /\ "ok" \in PCs
    BY DEF PCs
  <2>3. /\ pc' \in [Threads -> PCs] /\ pc'[t] \in {"failed", "ok"} /\ (t \in Upserts => pc'[t] = "failed")
        /\ using' \in [Threads -> Conns \union {0}] /\ using'[t] = 0
        /\ \A x \in Threads \ {t} : pc'[x] = pc[x] /\ using'[x] = using[x]
    BY <2>1, <2>2, <1>t, EndsEffect
  <2>4. t \in Upserts => WayOf(t)'
    BY <2>3 DEF WayOf, Statements, CommitSteps
  <2>5. StoreTyped
    BY <2>1, <1>n, <1>e DEF StoreTyped
  <2>6. ThreadsTyped
    BY <2>1, <2>3, <1>n DEF ThreadsTyped
  <2>13. /\ using'[t] <= opened' /\ global' <= opened' /\ opened' >= opened
         /\ pc'[t] \in Statements \union CommitSteps => using'[t] # 0
    BY <2>1, <2>2, <2>3, <2>4, <2>6, <1>o, <1>z, <1>u DEF Statements, CommitSteps
  <2>14. Walks(t)
    BY <2>1, <2>2, <2>3, <2>4, <2>6 DEF Walks
  <2>7. Ways'
    BY <2>1, <2>2, <2>3, <2>4, <2>6, <2>13, <2>14, <1>t, WayGoes
  <2> QED
    BY <2>5, <2>6, <2>7, TypeDone
<1>10. CASE \E t \in Threads : StatementFails(t)
  <2> PICK t \in Threads : StatementFails(t)
    BY <1>10
  <2>1. /\ \E step \in Statements : Goes(t, step, "reset")
        /\ conn' = [conn EXCEPT ![using[t]] = Emptied("error")]
        /\ UNCHANGED <<table, service, using, sent, global, opened, db, durable, raced>>
    BY EmptiedFacts DEF StatementFails
  <2>2. PICK step \in Statements : Goes(t, step, "reset")
    BY <2>1
  <2>3. /\ pc' \in [Threads -> PCs] /\ pc[t] = step /\ pc'[t] = "reset"
        /\ \A x \in Threads \ {t} : pc'[x] = pc[x]
    BY <2>2, <1>t, GoesEffect DEF PCs
  <2>4. t \in Upserts => WayOf(t)'
    BY <2>3 DEF WayOf, Statements, CommitSteps
  <2>8. using[t] \in Conns
    BY <2>3, <1>l
  <2>9. mishaps' \in 0..MaxMishaps
    BY <1>t, MishapEffect DEF StatementFails
  <2>10. poisoned' \subseteq Upserts
    BY <2>8, <1>n DEF StatementFails, Of, Connection
  <2>11. /\ conn' \in [Conns -> Connection]
        /\ \A j \in Conns : conn'[j].tx # "open" => conn'[j] = Emptied(conn'[j].tx)
    BY <2>1, <2>8, <1>t, <1>e, EmptiedTyped
  <2>5. StoreTyped
    BY <2>1, <2>9, <2>10, <2>11, <1>n DEF StoreTyped
  <2>6. ThreadsTyped
    BY <2>1, <2>3, <1>n DEF ThreadsTyped
  <2>13. /\ using'[t] <= opened' /\ global' <= opened' /\ opened' >= opened
         /\ pc'[t] \in Statements \union CommitSteps => using'[t] # 0
    BY <2>1, <2>3, <2>4, <2>6, <1>o, <1>z, <1>u DEF Statements, CommitSteps
  <2>14. Walks(t)
    BY <2>1, <2>3, <2>4, <2>6 DEF Walks
  <2>7. Ways'
    BY <2>1, <2>3, <2>4, <2>6, <2>13, <2>14, <1>t, WayGoes
  <2> QED
    BY <2>5, <2>6, <2>7, TypeDone
<1>11. CASE \E t \in Threads : StatementRefused(t)
  <2> PICK t \in Threads : StatementRefused(t)
    BY <1>11
  <2>1. /\ \E step \in Statements : Goes(t, step, "reset")
        /\ conn' = conn \/ conn' = [conn EXCEPT ![using[t]] = Emptied("error")]
        /\ UNCHANGED <<table, service, using, sent, global, opened, db, mishaps, pastVars>>
    BY EmptiedFacts DEF StatementRefused
  <2>2. PICK step \in Statements : Goes(t, step, "reset")
    BY <2>1
  <2>3. /\ pc' \in [Threads -> PCs] /\ pc[t] = step /\ pc'[t] = "reset"
        /\ \A x \in Threads \ {t} : pc'[x] = pc[x]
    BY <2>2, <1>t, GoesEffect DEF PCs
  <2>4. t \in Upserts => WayOf(t)'
    BY <2>3 DEF WayOf, Statements, CommitSteps
  <2>8. using[t] \in Conns
    BY <2>3, <1>l
  <2>11. /\ conn' \in [Conns -> Connection]
        /\ \A j \in Conns : conn'[j].tx # "open" => conn'[j] = Emptied(conn'[j].tx)
    BY <2>1, <2>8, <1>t, <1>e, EmptiedTyped
  <2>5. StoreTyped
    BY <2>1, <2>11, <1>n DEF StoreTyped
  <2>6. ThreadsTyped
    BY <2>1, <2>3, <1>n DEF ThreadsTyped
  <2>13. /\ using'[t] <= opened' /\ global' <= opened' /\ opened' >= opened
         /\ pc'[t] \in Statements \union CommitSteps => using'[t] # 0
    BY <2>1, <2>3, <2>4, <2>6, <1>o, <1>z, <1>u DEF Statements, CommitSteps
  <2>14. Walks(t)
    BY <2>1, <2>3, <2>4, <2>6 DEF Walks
  <2>7. Ways'
    BY <2>1, <2>3, <2>4, <2>6, <2>13, <2>14, <1>t, WayGoes
  <2> QED
    BY <2>5, <2>6, <2>7, TypeDone
<1>12. CASE \E t \in Threads : CommitRefused(t)
  <2> PICK t \in Threads : CommitRefused(t)
    BY <1>12
  <2>1. /\ \E step \in CommitSteps : Goes(t, step, "reset")
        /\ UNCHANGED <<table, service, using, sent, global, conn, opened, db, mishaps, pastVars>>
    BY EmptiedFacts DEF CommitRefused
  <2>2. PICK step \in CommitSteps : Goes(t, step, "reset")
    BY <2>1
  <2>3. /\ pc' \in [Threads -> PCs] /\ pc[t] = step /\ pc'[t] = "reset"
        /\ \A x \in Threads \ {t} : pc'[x] = pc[x]
    BY <2>2, <1>t, GoesEffect DEF PCs
  <2>4. t \in Upserts => WayOf(t)'
    BY <2>3 DEF WayOf, Statements, CommitSteps
  <2>8. using[t] \in Conns
    BY <2>3, <1>l
  <2>5. StoreTyped
    BY <2>1, <1>n, <1>e DEF StoreTyped
  <2>6. ThreadsTyped
    BY <2>1, <2>3, <1>n DEF ThreadsTyped
  <2>13. /\ using'[t] <= opened' /\ global' <= opened' /\ opened' >= opened
         /\ pc'[t] \in Statements \union CommitSteps => using'[t] # 0
    BY <2>1, <2>3, <2>4, <2>6, <1>o, <1>z, <1>u DEF Statements, CommitSteps
  <2>14. Walks(t)
    BY <2>1, <2>3, <2>4, <2>6 DEF Walks
  <2>7. Ways'
    BY <2>1, <2>3, <2>4, <2>6, <2>13, <2>14, <1>t, WayGoes
  <2> QED
    BY <2>5, <2>6, <2>7, TypeDone
<1>13. CASE \E u \in Upserts : InsertChunk(u)
  <2> PICK u \in Upserts : InsertChunk(u)
    BY <1>13
  <2> DEFINE n == sent[u] + 1
  <2>1. /\ sent' = [sent EXCEPT ![u] = n] /\ Goes(u, "insert", AfterInsert(u, n))
        /\ Changes(u, {<<RunOf[u], n>>}, u)
        /\ UNCHANGED <<table, service, using, global, opened, db, mishaps, pastVars>>
    BY DEF InsertChunk
  <2>2. AfterInsert(u, n) \in {"insert", "delete"} /\ AfterInsert(u, n) \in PCs
    BY DEF AfterInsert, PCs
  <2>3. /\ pc' \in [Threads -> PCs] /\ pc[u] = "insert" /\ pc'[u] = AfterInsert(u, n)
        /\ \A x \in Threads \ {u} : pc'[x] = pc[x]
    BY <2>1, <2>2, <1>t, <1>r, GoesEffect
  <2>4. n \in Nat /\ n >= 1 /\ n <= SizeOf[u] /\ SizeOf[u] \in Nat
    BY <2>3, <1>n, <1>t, SizeFacts DEF Ways, WayOf
  <2>8. {<<RunOf[u], n>>} \in SUBSET Chunks /\ u \in Rows
    BY <2>4, SizeFacts DEF ChunksOf, Chunks, Rows
  <2>9. using[u] # 0
    BY <2>3, <1>l, <1>r DEF Statements
  <2>10. conn' \in [Conns -> Connection] /\ Changed(using[u], u, {<<RunOf[u], n>>}, u) /\ using[u] \in Conns
    BY <2>1, <2>8, <2>9, <1>t, <1>r, ChangesEffect
  <2>11. \A j \in Conns : conn'[j].tx # "open" => conn'[j] = Emptied(conn'[j].tx)
    BY <2>10, <1>t, <1>r, ChangedTyped
  <2>12. WayOf(u)'
    BY <2>1, <2>2, <2>3, <2>4, <1>n DEF WayOf, AfterInsert, Statements, CommitSteps, Writing
  <2>5. StoreTyped
    BY <2>1, <2>10, <2>11, <1>n DEF StoreTyped
  <2>6. ThreadsTyped
    BY <2>1, <2>3, <2>4, <1>n DEF ThreadsTyped
  <2>7. Ways'
    BY <2>1, <2>3, <2>6, <2>9, <2>12, <1>n, <1>t, <1>o, <1>z, <1>u, <1>r, WayGoes DEF Walks
  <2> QED
    BY <2>5, <2>6, <2>7, TypeDone
<1>14. CASE \E u \in Upserts : DeleteStale(u)
  <2> PICK u \in Upserts : DeleteStale(u)
    BY <1>14
  <2>0. u \in Threads
    BY <1>r DEF Threads
  <2>1. /\ Goes(u, "delete", "commit") /\ Changes(u, Stale(u), "none")
        /\ UNCHANGED <<table, service, using, sent, global, opened, db, mishaps, pastVars>>
    BY DEF DeleteStale
  <2>2. /\ pc' \in [Threads -> PCs] /\ pc[u] = "delete" /\ pc'[u] = "commit"
        /\ \A x \in Threads \ {u} : pc'[x] = pc[x]
    BY <2>0, <2>1, <1>t, GoesEffect DEF PCs
  <2>3. Stale(u) \in SUBSET Chunks /\ "none" \in Rows
    BY SizeFacts DEF Stale, Chunks, Rows
  <2>4. using[u] # 0 /\ using[u] \in Conns
    BY <2>0, <2>2, <1>l DEF Statements
  <2>8. "none" # u
    BY <2>0, Placeholders
  <2>9. conn' \in [Conns -> Connection] /\ Changed(using[u], u, Stale(u), "none")
    BY <2>0, <2>1, <2>3, <2>4, <2>8, <1>t, ChangesEffect
  <2>10. \A j \in Conns : conn'[j].tx # "open" => conn'[j] = Emptied(conn'[j].tx)
    BY <2>0, <2>4, <2>9, <1>t, ChangedTyped
  <2>11. u \in Upserts => WayOf(u)'
    BY <2>1, <2>2, <1>t, <1>r DEF Ways, WayOf, Statements, CommitSteps, Writing
  <2>5. StoreTyped
    BY <2>1, <2>9, <2>10, <1>n DEF StoreTyped
  <2>6. ThreadsTyped
    BY <2>1, <2>2, <1>n DEF ThreadsTyped
  <2>13. /\ using'[u] <= opened'
         /\ pc'[u] \in Statements \union CommitSteps => using'[u] # 0
    BY <2>0, <2>1, <2>2, <2>4, <1>o, <1>z, <1>u DEF Statements, CommitSteps
  <2>14. Walks(u)
    BY <2>1, <2>2 DEF Walks
  <2>7. Ways'
    BY <2>0, <2>1, <2>6, <2>11, <2>13, <2>14, <1>t, <1>o, WayGoes
  <2> QED
    BY <2>5, <2>6, <2>7, TypeDone
<1>15. CASE \E q \in Readers : Select(q)
  <2> PICK q \in Readers : Select(q)
    BY <1>15
  <2>0. q \in Threads
    BY <1>r DEF Threads
  <2>1. /\ Ends(q, "select", "ok") /\ Changes(q, {}, "none")
        /\ UNCHANGED <<table, service, sent, global, opened, db, mishaps, pastVars>>
    BY DEF Select
  <2>2. /\ pc' \in [Threads -> PCs] /\ pc[q] = "select" /\ pc'[q] = "ok"
        /\ using' \in [Threads -> Conns \union {0}] /\ using'[q] = 0
        /\ \A x \in Threads \ {q} : pc'[x] = pc[x] /\ using'[x] = using[x]
    BY <2>0, <2>1, <1>t, EndsEffect DEF PCs
  <2>3. {} \in SUBSET Chunks /\ "none" \in Rows
    BY DEF Rows
  <2>4. using[q] # 0 /\ using[q] \in Conns
    BY <2>0, <2>2, <1>l DEF Statements
  <2>8. "none" # q
    BY <2>0, Placeholders
  <2>9. conn' \in [Conns -> Connection] /\ Changed(using[q], q, {}, "none")
    BY <2>0, <2>1, <2>3, <2>4, <2>8, <1>t, ChangesEffect
  <2>10. \A j \in Conns : conn'[j].tx # "open" => conn'[j] = Emptied(conn'[j].tx)
    BY <2>0, <2>4, <2>9, <1>t, ChangedTyped
  <2>11. q \in Upserts => WayOf(q)'
    BY <2>1, <2>2, <1>t, <1>r DEF Ways, WayOf, Statements, CommitSteps, Writing
  <2>5. StoreTyped
    BY <2>1, <2>9, <2>10, <1>n DEF StoreTyped
  <2>6. ThreadsTyped
    BY <2>1, <2>2, <1>n DEF ThreadsTyped
  <2>13. /\ using'[q] <= opened'
         /\ pc'[q] \in Statements \union CommitSteps => using'[q] # 0
    BY <2>0, <2>1, <2>2, <2>4, <1>o, <1>z, <1>u DEF Statements, CommitSteps
  <2>14. Walks(q)
    BY <2>1, <2>2 DEF Walks
  <2>7. Ways'
    BY <2>0, <2>1, <2>6, <2>11, <2>13, <2>14, <1>t, <1>o, WayGoes
  <2> QED
    BY <2>5, <2>6, <2>7, TypeDone
<1>16. CASE PruneByAge
  <2>0. Pruner \in Threads
    BY <1>r DEF Threads
  <2>g. PICK old \in SUBSET Upserts :
          Changes(Pruner, {c \in Chunks : Seen(Pruner)[c] \in old}, "none")
    BY <1>16 DEF PruneByAge
  <2> DEFINE gone == {c \in Chunks : Seen(Pruner)[c] \in old}
  <2>1. /\ Goes(Pruner, "age", "age commit") /\ Changes(Pruner, gone, "none")
        /\ UNCHANGED <<table, service, using, sent, global, opened, db, mishaps, pastVars>>
    BY <1>16, <2>g DEF PruneByAge
  <2>2. /\ pc' \in [Threads -> PCs] /\ pc[Pruner] = "age" /\ pc'[Pruner] = "age commit"
        /\ \A x \in Threads \ {Pruner} : pc'[x] = pc[x]
    BY <2>0, <2>1, <1>t, GoesEffect DEF PCs
  <2>3. gone \in SUBSET Chunks /\ "none" \in Rows
    BY DEF Rows
  <2>4. using[Pruner] # 0 /\ using[Pruner] \in Conns
    BY <2>0, <2>2, <1>l DEF Statements
  <2>8. "none" # Pruner
    BY <2>0, Placeholders
  <2>9. conn' \in [Conns -> Connection] /\ Changed(using[Pruner], Pruner, gone, "none")
    BY <2>0, <2>1, <2>3, <2>4, <2>8, <1>t, ChangesEffect
  <2>10. \A j \in Conns : conn'[j].tx # "open" => conn'[j] = Emptied(conn'[j].tx)
    BY <2>0, <2>4, <2>9, <1>t, ChangedTyped
  <2>11. Pruner \in Upserts => WayOf(Pruner)'
    BY <2>1, <2>2, <1>t, <1>r DEF Ways, WayOf, Statements, CommitSteps, Writing
  <2>5. StoreTyped
    BY <2>1, <2>9, <2>10, <1>n DEF StoreTyped
  <2>6. ThreadsTyped
    BY <2>1, <2>2, <1>n DEF ThreadsTyped
  <2>13. /\ using'[Pruner] <= opened'
         /\ pc'[Pruner] \in Statements \union CommitSteps => using'[Pruner] # 0
    BY <2>0, <2>1, <2>2, <2>4, <1>o, <1>z, <1>u DEF Statements, CommitSteps
  <2>14. Walks(Pruner)
    BY <2>1, <2>2 DEF Walks
  <2>7. Ways'
    BY <2>0, <2>1, <2>6, <2>11, <2>13, <2>14, <1>t, <1>o, WayGoes
  <2> QED
    BY <2>5, <2>6, <2>7, TypeDone
<1>18. CASE PruneByCap
  <2>0. Pruner \in Threads
    BY <1>r DEF Threads
  <2>g. PICK gone \in SUBSET {c \in Chunks : Seen(Pruner)[c] # "none"} :
          Changes(Pruner, gone, "none")
    BY <1>18 DEF PruneByCap
  <2>1. /\ Goes(Pruner, "cap", "cap commit") /\ Changes(Pruner, gone, "none")
        /\ UNCHANGED <<table, service, using, sent, global, opened, db, mishaps, pastVars>>
    BY <1>18, <2>g DEF PruneByCap
  <2>2. /\ pc' \in [Threads -> PCs] /\ pc[Pruner] = "cap" /\ pc'[Pruner] = "cap commit"
        /\ \A x \in Threads \ {Pruner} : pc'[x] = pc[x]
    BY <2>0, <2>1, <1>t, GoesEffect DEF PCs
  <2>3. gone \in SUBSET Chunks /\ "none" \in Rows
    BY DEF Rows
  <2>4. using[Pruner] # 0 /\ using[Pruner] \in Conns
    BY <2>0, <2>2, <1>l DEF Statements
  <2>8. "none" # Pruner
    BY <2>0, Placeholders
  <2>9. conn' \in [Conns -> Connection] /\ Changed(using[Pruner], Pruner, gone, "none")
    BY <2>0, <2>1, <2>3, <2>4, <2>8, <1>t, ChangesEffect
  <2>10. \A j \in Conns : conn'[j].tx # "open" => conn'[j] = Emptied(conn'[j].tx)
    BY <2>0, <2>4, <2>9, <1>t, ChangedTyped
  <2>11. Pruner \in Upserts => WayOf(Pruner)'
    BY <2>1, <2>2, <1>t, <1>r DEF Ways, WayOf, Statements, CommitSteps, Writing
  <2>5. StoreTyped
    BY <2>1, <2>9, <2>10, <1>n DEF StoreTyped
  <2>6. ThreadsTyped
    BY <2>1, <2>2, <1>n DEF ThreadsTyped
  <2>13. /\ using'[Pruner] <= opened'
         /\ pc'[Pruner] \in Statements \union CommitSteps => using'[Pruner] # 0
    BY <2>0, <2>1, <2>2, <2>4, <1>o, <1>z, <1>u DEF Statements, CommitSteps
  <2>14. Walks(Pruner)
    BY <2>1, <2>2 DEF Walks
  <2>7. Ways'
    BY <2>0, <2>1, <2>6, <2>11, <2>13, <2>14, <1>t, <1>o, WayGoes
  <2> QED
    BY <2>5, <2>6, <2>7, TypeDone
<1>17. CASE CountRows
  <2>0. Pruner \in Threads
    BY DEF Threads
  <2>1. /\ Ends(Pruner, "count", "ok") \/ (Goes(Pruner, "count", "cap") /\ UNCHANGED using)
        /\ Changes(Pruner, {}, "none")
        /\ UNCHANGED <<table, service, sent, global, opened, db, mishaps, pastVars>>
    BY <1>17 DEF CountRows
  <2>2. /\ pc' \in [Threads -> PCs] /\ pc[Pruner] = "count" /\ pc'[Pruner] \in {"ok", "cap"}
        /\ using' \in [Threads -> Conns \union {0}]
        /\ (pc'[Pruner] = "ok" /\ using'[Pruner] = 0) \/ using'[Pruner] = using[Pruner]
        /\ \A x \in Threads \ {Pruner} : pc'[x] = pc[x] /\ using'[x] = using[x]
    <3>1. CASE Ends(Pruner, "count", "ok")
      BY <3>1, <2>0, <1>t, EndsEffect DEF PCs
    <3>2. CASE Goes(Pruner, "count", "cap") /\ UNCHANGED using
      BY <3>2, <2>0, <1>t, <1>n, GoesEffect DEF PCs
    <3> QED
      BY <2>1, <3>1, <3>2
  <2>4. using[Pruner] # 0 /\ using[Pruner] \in Conns
    BY <2>0, <2>2, <1>l DEF Statements
  <2>8. "none" # Pruner /\ "none" \in Rows /\ Pruner \notin Upserts
    BY <2>0, Placeholders DEF Rows
  <2>9. conn' \in [Conns -> Connection] /\ Changed(using[Pruner], Pruner, {}, "none")
    BY <2>0, <2>1, <2>4, <2>8, <1>t, ChangesEffect
  <2>10. \A j \in Conns : conn'[j].tx # "open" => conn'[j] = Emptied(conn'[j].tx)
    BY <2>0, <2>4, <2>9, <1>t, ChangedTyped
  <2>5. StoreTyped
    BY <2>1, <2>9, <2>10, <1>n DEF StoreTyped
  <2>6. ThreadsTyped
    BY <2>1, <2>2, <1>n DEF ThreadsTyped
  <2>12. using'[Pruner] <= opened' /\ (pc'[Pruner] \in Statements \union CommitSteps => using'[Pruner] # 0)
    BY <2>0, <2>1, <2>2, <2>4, <1>o, <1>z, <1>u DEF Statements, CommitSteps
  <2>7. Ways'
    BY <2>0, <2>1, <2>2, <2>6, <2>8, <2>12, <1>t, <1>o, WayGoes DEF Walks
  <2> QED
    BY <2>5, <2>6, <2>7, TypeDone
<1>19. CASE \E u \in Upserts : CommitUpsert(u)
  <2> PICK u \in Upserts : CommitUpsert(u)
    BY <1>19
  <2>0. u \in Threads
    BY <1>r DEF Threads
  <2>1. /\ Ends(u, "commit", "ok") /\ Commits(u)
        /\ UNCHANGED <<table, service, sent, global, opened, mishaps, raced>>
    BY DEF CommitUpsert
  <2>2. /\ pc' \in [Threads -> PCs] /\ pc[u] = "commit" /\ pc'[u] = "ok"
        /\ using' \in [Threads -> Conns \union {0}] /\ using'[u] = 0
        /\ \A x \in Threads \ {u} : pc'[x] = pc[x] /\ using'[x] = using[x]
    BY <2>0, <2>1, <1>t, EndsEffect DEF PCs
  <2>4. using[u] # 0 /\ using[u] \in Conns
    BY <2>0, <2>2, <1>l DEF CommitSteps
  <2>9. /\ conn' \in [Conns -> Connection] /\ durable' \subseteq Upserts \X Chunks
        /\ db' \in [Chunks -> Rows] /\ Committed(using[u])
    BY <2>0, <2>1, <2>4, <1>t, CommitsEffect
  <2>10. \A j \in Conns : conn'[j].tx # "open" => conn'[j] = Emptied(conn'[j].tx)
    BY <2>4, <2>9, <1>t, CommittedTyped
  <2>11. u \in Upserts => WayOf(u)'
    BY <2>1, <2>2, <1>t, <1>r DEF Ways, WayOf, Statements, CommitSteps, Writing
  <2>12. poisoned' \subseteq Upserts
    BY <1>n DEF CommitUpsert
  <2>5. StoreTyped
    BY <2>1, <2>9, <2>10, <2>12, <1>n DEF StoreTyped
  <2>6. ThreadsTyped
    BY <2>1, <2>2, <1>n DEF ThreadsTyped
  <2>13. /\ using'[u] <= opened'
         /\ pc'[u] \in Statements \union CommitSteps => using'[u] # 0
    BY <2>0, <2>1, <2>2, <2>4, <1>o, <1>z, <1>u DEF Statements, CommitSteps
  <2>14. Walks(u)
    BY <2>1, <2>2 DEF Walks
  <2>7. Ways'
    BY <2>0, <2>1, <2>6, <2>11, <2>13, <2>14, <1>t, <1>o, WayGoes
  <2> QED
    BY <2>5, <2>6, <2>7, TypeDone
<1>20. CASE CommitAge
  <2>0. Pruner \in Threads
    BY <1>r DEF Threads
  <2>1. /\ Goes(Pruner, "age commit", "count") /\ Commits(Pruner)
        /\ UNCHANGED <<table, service, using, sent, global, opened, mishaps, raced>>
    BY <1>20 DEF CommitAge
  <2>2. /\ pc' \in [Threads -> PCs] /\ pc[Pruner] = "age commit" /\ pc'[Pruner] = "count"
        /\ \A x \in Threads \ {Pruner} : pc'[x] = pc[x]
    BY <2>0, <2>1, <1>t, GoesEffect DEF PCs
  <2>4. using[Pruner] # 0 /\ using[Pruner] \in Conns
    BY <2>0, <2>2, <1>l DEF CommitSteps
  <2>9. /\ conn' \in [Conns -> Connection] /\ durable' \subseteq Upserts \X Chunks
        /\ db' \in [Chunks -> Rows] /\ Committed(using[Pruner])
    BY <2>0, <2>1, <2>4, <1>t, CommitsEffect
  <2>10. \A j \in Conns : conn'[j].tx # "open" => conn'[j] = Emptied(conn'[j].tx)
    BY <2>4, <2>9, <1>t, CommittedTyped
  <2>11. Pruner \in Upserts => WayOf(Pruner)'
    BY <2>1, <2>2, <1>t, <1>r DEF Ways, WayOf, Statements, CommitSteps, Writing
  <2>12. poisoned' \subseteq Upserts
    BY <1>20, <1>n DEF CommitAge
  <2>5. StoreTyped
    BY <2>1, <2>9, <2>10, <2>12, <1>n DEF StoreTyped
  <2>6. ThreadsTyped
    BY <2>1, <2>2, <1>n DEF ThreadsTyped
  <2>13. /\ using'[Pruner] <= opened'
         /\ pc'[Pruner] \in Statements \union CommitSteps => using'[Pruner] # 0
    BY <2>0, <2>1, <2>2, <2>4, <1>o, <1>z, <1>u DEF Statements, CommitSteps
  <2>14. Walks(Pruner)
    BY <2>1, <2>2 DEF Walks
  <2>7. Ways'
    BY <2>0, <2>1, <2>6, <2>11, <2>13, <2>14, <1>t, <1>o, WayGoes
  <2> QED
    BY <2>5, <2>6, <2>7, TypeDone
<1>21. CASE CommitCap
  <2>0. Pruner \in Threads
    BY <1>r DEF Threads
  <2>1. /\ Ends(Pruner, "cap commit", "ok") /\ Commits(Pruner)
        /\ UNCHANGED <<table, service, sent, global, opened, mishaps, raced>>
    BY <1>21 DEF CommitCap
  <2>2. /\ pc' \in [Threads -> PCs] /\ pc[Pruner] = "cap commit" /\ pc'[Pruner] = "ok"
        /\ using' \in [Threads -> Conns \union {0}] /\ using'[Pruner] = 0
        /\ \A x \in Threads \ {Pruner} : pc'[x] = pc[x] /\ using'[x] = using[x]
    BY <2>0, <2>1, <1>t, EndsEffect DEF PCs
  <2>4. using[Pruner] # 0 /\ using[Pruner] \in Conns
    BY <2>0, <2>2, <1>l DEF CommitSteps
  <2>9. /\ conn' \in [Conns -> Connection] /\ durable' \subseteq Upserts \X Chunks
        /\ db' \in [Chunks -> Rows] /\ Committed(using[Pruner])
    BY <2>0, <2>1, <2>4, <1>t, CommitsEffect
  <2>10. \A j \in Conns : conn'[j].tx # "open" => conn'[j] = Emptied(conn'[j].tx)
    BY <2>4, <2>9, <1>t, CommittedTyped
  <2>11. Pruner \in Upserts => WayOf(Pruner)'
    BY <2>1, <2>2, <1>t, <1>r DEF Ways, WayOf, Statements, CommitSteps, Writing
  <2>12. poisoned' \subseteq Upserts
    BY <1>21, <1>n DEF CommitCap
  <2>5. StoreTyped
    BY <2>1, <2>9, <2>10, <2>12, <1>n DEF StoreTyped
  <2>6. ThreadsTyped
    BY <2>1, <2>2, <1>n DEF ThreadsTyped
  <2>13. /\ using'[Pruner] <= opened'
         /\ pc'[Pruner] \in Statements \union CommitSteps => using'[Pruner] # 0
    BY <2>0, <2>1, <2>2, <2>4, <1>o, <1>z, <1>u DEF Statements, CommitSteps
  <2>14. Walks(Pruner)
    BY <2>1, <2>2 DEF Walks
  <2>7. Ways'
    BY <2>0, <2>1, <2>6, <2>11, <2>13, <2>14, <1>t, <1>o, WayGoes
  <2> QED
    BY <2>5, <2>6, <2>7, TypeDone
<1>22. CASE UNCHANGED vars
  <2>1. StoreTyped /\ ThreadsTyped
    BY <1>22, <1>n, <1>e DEF vars, StoreTyped, ThreadsTyped
  <2>2. Ways'
    BY <1>22, <1>t DEF vars, Ways, WayOf
  <2> QED
    BY <2>1, <2>2, TypeDone
<1> QED
  BY <1>1, <1>2, <1>3, <1>4, <1>5, <1>6, <1>7, <1>8, <1>9, <1>10, <1>11, <1>12, <1>13,
     <1>14, <1>15, <1>16, <1>17, <1>18, <1>19, <1>20, <1>21, <1>22, <1>23,
     <1>24 DEF Next

\* TypeOK: every request, connection and row stays within its type.
THEOREM TypeCorrect == Spec => []TypeOK
<1>1. Init => TypeInv
  BY TypeInit
<1>2. TypeInv /\ [Next]_vars => TypeInv'
  BY TypeStep
<1>3. TypeInv => TypeOK
  BY DEF TypeInv
<1> QED
  BY <1>1, <1>2, <1>3, PTL DEF Spec

-----------------------------------------------------------------------------
(***************************************************************************)
(* The cases of a step, as the invariants see it: what becomes of each     *)
(* upsert, of each connection, of the table and of the histories.          *)
(***************************************************************************)
Stays(u) ==
    pc'[u] = pc[u] /\ sent'[u] = sent[u] /\ (pc[u] \in Writing => using'[u] = using[u])

Leaves(u) == pc'[u] \in {"get", "connect", "take", "reset", "drop", "failed"}

Begins(u) == pc[u] = "take" /\ pc'[u] = "insert" /\ sent'[u] = 0

Inserts(u) ==
    /\ pc[u] = "insert" /\ pc'[u] \in {"insert", "delete"}
    /\ sent'[u] = sent[u] + 1 /\ using'[u] = using[u]
    /\ Changed(using[u], u, {<<RunOf[u], sent[u] + 1>>}, u)

Deletes(u) ==
    /\ pc[u] = "delete" /\ pc'[u] = "commit"
    /\ sent'[u] = sent[u] /\ using'[u] = using[u]
    /\ Changed(using[u], u, Stale(u), "none")

Finishes(u) ==
    /\ pc[u] = "commit" /\ pc'[u] = "ok" /\ sent'[u] = sent[u]
    /\ Committed(using[u])

Moves(u) == Stays(u) \/ Leaves(u) \/ Begins(u) \/ Inserts(u) \/ Deletes(u) \/ Finishes(u)

ConnMoves(k) ==
    \/ conn'[k] = conn[k]
    \/ \E tx \in {"closed", "lost"} : conn'[k] = Emptied(tx)
    \/ /\ conn'[k] = Emptied("error") /\ conn[k].tx \notin {"closed", "lost"}
       /\ conn[k].by \subseteq poisoned'
    \/ k = opened + 1 /\ conn'[k] = Emptied("idle")
    \/ Committed(k)
    \/ \E t \in Threads, chunks \in SUBSET Chunks : Changed(k, t, chunks, "none")
    \/ \E u \in Upserts : Inserts(u) /\ using[u] = k

DbMoves == db' = db \/ \E k \in Conns : Committed(k)

Remembers ==
    /\ \A u \in Upserts, c \in Chunks :
          <<u, c>> \in durable /\ pc'[u] # "get" => <<u, c>> \in durable'
    /\ \A u \in poisoned : u \in poisoned' \/ pc'[u] = "get"
    /\ raced \subseteq raced' /\ (table => table')

Meets ==
    \A u, v \in Upserts :
        u # v /\ RunOf[u] = RunOf[v] /\ InFlight(u)' /\ InFlight(v)' =>
            (InFlight(u) /\ InFlight(v)) \/ (u \in raced' /\ v \in raced')

Cases ==
    /\ \A u \in Upserts : Moves(u)
    /\ \A k \in Conns : ConnMoves(k)
    /\ DbMoves /\ Remembers /\ Meets

\* A thread that was on its way goes on.
LEMMA CasesGoes ==
  ASSUME NEW t \in Threads, InFlight(t), Walks(t), t \in Upserts => Moves(t),
         \A k \in Conns : ConnMoves(k), DbMoves,
         durable \subseteq durable', poisoned \subseteq poisoned',
         raced' = raced, table' = table
  PROVE  Cases
<1>1. \A u \in Upserts : Moves(u)
  BY DEF Walks, Moves, Stays, Threads
<1>2. Remembers
  BY DEF Remembers
<1>3. \A u \in Upserts : InFlight(u)' => InFlight(u)
  BY DEF Walks, InFlight, Threads
<1> QED
  BY <1>1, <1>2, <1>3 DEF Cases, Meets

\* The rest stands still when only one connection changes ...
LEMMA ConnOne ==
  ASSUME NEW k \in Conns, ConnMoves(k), \A j \in Conns \ {k} : conn'[j] = conn[j]
  PROVE  \A j \in Conns : ConnMoves(j)
BY DEF ConnMoves

\* ... or when none does.
LEMMA ConnNone ==
  ASSUME UNCHANGED conn
  PROVE  \A j \in Conns : ConnMoves(j)
BY DEF ConnMoves

\* Every step of the service is one of the cases.
LEMMA StepCases ==
  ASSUME TypeInv, TypeInv', NothingYet, [Next]_vars
  PROVE  Cases
<1> USE DEF pastVars
<1>t. TypeOK /\ Ways
  BY DEF TypeInv
<1>n. /\ conn \in [Conns -> Connection]
      /\ \A k \in Conns : conn[k].tx # "open" => conn[k] = Emptied(conn[k].tx)
      /\ pc \in [Threads -> PCs] /\ using \in [Threads -> Conns \union {0}]
      /\ sent \in [Upserts -> Nat] /\ global \in Conns \union {0}
      /\ opened \in 0..MaxConns
  BY <1>t, TypedNow
<1>r. \A u \in Upserts : u \in Threads /\ u \notin Readers /\ u # Pruner
  BY Placeholders DEF Threads
<1>l. \A t \in Threads : pc[t] \in Statements \union CommitSteps => using[t] \in Conns /\ using[t] # 0
  BY <1>n, <1>t DEF Ways
<1>0. ASSUME UNCHANGED <<conn, db>>
      PROVE  (\A k \in Conns : ConnMoves(k)) /\ DbMoves
  BY <1>0, ConnNone DEF DbMoves
<1>1. CASE ServiceStarts
  <2>1. /\ UNCHANGED <<pc, using, sent, conn, db, durable, poisoned, raced>>
        /\ table => table'
    BY <1>1 DEF ServiceStarts
  <2>2. (\A u \in Upserts : Moves(u)) /\ Remembers /\ Meets
    BY <2>1 DEF Moves, Stays, Remembers, Meets, InFlight
  <2> QED
    BY <2>1, <2>2, <1>0 DEF Cases
<1>2. CASE ServiceDies
  <2>1. /\ pc' = [t \in Threads |-> IF InFlight(t) THEN "failed" ELSE pc[t]]
        /\ conn' = [k \in Conns |-> Emptied("closed")]
        /\ UNCHANGED <<table, sent, db, durable, poisoned, raced>>
    BY <1>2, EmptiedFacts DEF ServiceDies
  <2>2. \A t \in Threads : pc'[t] = "failed" \/ (pc'[t] = pc[t] /\ ~InFlight(t))
    BY <2>1
  <2>3. \A u \in Upserts : Moves(u)
    BY <2>1, <2>2, <1>r DEF Moves, Stays, Leaves, InFlight, Writing
  <2>4. \A k \in Conns : ConnMoves(k)
    BY <2>1 DEF ConnMoves
  <2>5. Remembers
    BY <2>1 DEF Remembers
  <2>6. Meets
    BY <2>2, <1>r DEF Meets, InFlight
  <2> QED
    BY <2>1, <2>3, <2>4, <2>5, <2>6 DEF Cases, DbMoves
<1>3. CASE \E k \in Conns : ConnectionLost(k)
  <2> PICK k \in Conns : ConnectionLost(k)
    BY <1>3
  <2>1. /\ conn' = [conn EXCEPT ![k] = Emptied("lost")]
        /\ UNCHANGED <<table, pc, using, sent, db, durable, poisoned, raced>>
    BY EmptiedFacts DEF ConnectionLost
  <2>2. conn'[k] = Emptied("lost") /\ \A j \in Conns \ {k} : conn'[j] = conn[j]
    BY <2>1, <1>t, EmptiedTyped
  <2>3. ConnMoves(k)
    BY <2>2 DEF ConnMoves
  <2>4. \A j \in Conns : ConnMoves(j)
    BY <2>2, <2>3, ConnOne
  <2>5. (\A u \in Upserts : Moves(u)) /\ Remembers /\ Meets
    BY <2>1 DEF Moves, Stays, Remembers, Meets, InFlight
  <2> QED
    BY <2>1, <2>4, <2>5 DEF Cases, DbMoves
<1>4. CASE \E t \in Threads : Arrive(t)
  <2> PICK t \in Threads : Arrive(t)
    BY <1>4
  <2> DEFINE company == {u \in Upserts \ {t} : t \in Upserts /\ InFlight(u) /\ RunOf[u] = RunOf[t]}
  <2>1. /\ Goes(t, "none", "get")
        /\ raced' = IF company = {} THEN raced ELSE raced \union company \union {t}
        /\ UNCHANGED <<table, using, sent, conn, db, durable, poisoned>>
    BY DEF Arrive
  <2>2. pc'[t] = "get" /\ \A x \in Threads \ {t} : pc'[x] = pc[x]
    BY <2>1, <1>t, GoesEffect DEF PCs
  <2>3. \A u \in Upserts : Moves(u)
    BY <2>1, <2>2, <1>r DEF Moves, Stays, Leaves
  <2>4. Remembers
    BY <2>1 DEF Remembers
  <2>5. Meets
    <3>1. \A v \in Upserts \ {t} : t \in Upserts /\ RunOf[v] = RunOf[t] /\ InFlight(v)'
             => v \in raced' /\ t \in raced'
      <4> SUFFICES ASSUME NEW v \in Upserts \ {t}, t \in Upserts, RunOf[v] = RunOf[t], InFlight(v)'
                   PROVE  v \in raced' /\ t \in raced'
        OBVIOUS
      <4>1. v \in company
        BY <2>2, <1>r DEF InFlight
      <4> HIDE DEF company
      <4> QED
        BY <4>1, <2>1
    <3> QED
      BY <3>1, <2>2, <1>r DEF Meets, InFlight
  <2> QED
    BY <2>1, <2>3, <2>4, <2>5, <1>0 DEF Cases
<1>5. CASE \E t \in Upserts : Retry(t)
  <2> PICK t \in Upserts : Retry(t)
    BY <1>5
  <2> DEFINE company == {w \in Upserts \ {t} : InFlight(w) /\ RunOf[w] = RunOf[t]}
  <2>1. /\ Goes(t, "failed", "get") /\ sent' = [sent EXCEPT ![t] = 0]
        /\ durable' = {w \in durable : w[1] # t} /\ poisoned' = poisoned \ {t}
        /\ raced' = IF company = {} THEN raced ELSE raced \union company \union {t}
        /\ UNCHANGED <<table, using, conn, db>>
    BY DEF Retry
  <2>2. pc'[t] = "get" /\ \A x \in Threads \ {t} : pc'[x] = pc[x]
    BY <2>1, <1>t, <1>r, GoesEffect DEF PCs
  <2>3. \A u \in Upserts : Moves(u)
    BY <2>1, <2>2, <1>r, <1>n DEF Moves, Stays, Leaves
  <2>4. Remembers
    BY <2>1, <2>2 DEF Remembers
  <2>5. Meets
    <3>1. \A v \in Upserts \ {t} : RunOf[v] = RunOf[t] /\ InFlight(v)'
             => v \in raced' /\ t \in raced'
      <4> SUFFICES ASSUME NEW v \in Upserts \ {t}, RunOf[v] = RunOf[t], InFlight(v)'
                   PROVE  v \in raced' /\ t \in raced'
        OBVIOUS
      <4>1. v \in company
        BY <2>2, <1>r DEF InFlight
      <4> HIDE DEF company
      <4> QED
        BY <4>1, <2>1
    <3> QED
      BY <3>1, <2>2, <1>r DEF Meets, InFlight
  <2> QED
    BY <2>1, <2>3, <2>4, <2>5, <1>0 DEF Cases
<1>6. CASE \E t \in Threads : GetConn(t)
  <2> PICK t \in Threads : GetConn(t)
    BY <1>6
  <2>1. UNCHANGED <<table, using, sent, conn, db, durable, poisoned, raced>>
    BY DEF GetConn
  <2>2. PICK to \in PCs : to \in {"take", "connect"} /\ Goes(t, "get", to)
    BY DEF GetConn, PCs
  <2>3. pc[t] = "get" /\ pc'[t] = to /\ \A x \in Threads \ {t} : pc'[x] = pc[x]
    BY <2>2, <1>t, GoesEffect
  <2> QED
    BY <2>1, <2>2, <2>3, <1>0, CasesGoes DEF Walks, InFlight, Moves, Leaves
<1>7. CASE \E t \in Threads : Connect(t)
  <2> PICK t \in Threads : Connect(t)
    BY <1>7
  <2>1. /\ opened < MaxConns /\ opened' = opened + 1
        /\ Goes(t, "connect", "take")
        /\ conn' = [conn EXCEPT ![opened'] = Emptied("idle")]
        /\ UNCHANGED <<table, using, sent, db, durable, poisoned, raced>>
    BY EmptiedFacts DEF Connect
  <2>2. opened + 1 \in Conns
    BY <2>1, <1>n, StoreAssumption DEF Conns
  <2>3. /\ pc[t] = "connect" /\ pc'[t] = "take"
        /\ \A x \in Threads \ {t} : pc'[x] = pc[x]
    BY <2>1, <1>t, GoesEffect DEF PCs
  <2>4. conn'[opened + 1] = Emptied("idle") /\ \A j \in Conns \ {opened + 1} : conn'[j] = conn[j]
    BY <2>1, <2>2, <1>t, EmptiedTyped
  <2>5. ConnMoves(opened + 1)
    BY <2>4 DEF ConnMoves
  <2>6. \A k \in Conns : ConnMoves(k)
    BY <2>2, <2>4, <2>5, ConnOne
  <2> QED
    BY <2>1, <2>3, <2>6, CasesGoes DEF Walks, InFlight, DbMoves, Moves, Leaves
<1>23. CASE \E t \in Threads : TakeConn(t)
  <2> PICK t \in Threads : TakeConn(t)
    BY <1>23
  <2>1. /\ Goes(t, "take", IF global = 0 THEN "reset" ELSE First(t))
        /\ using' = [using EXCEPT ![t] = global]
        /\ UNCHANGED <<table, sent, conn, db, durable, poisoned, raced>>
    BY DEF TakeConn
  <2>2. First(t) \in PCs /\ "reset" \in PCs /\ (t \in Upserts => First(t) = "insert")
    BY DEF First, PCs
  <2>3. /\ pc[t] = "take" /\ pc'[t] \in {First(t), "reset"}
        /\ \A x \in Threads \ {t} : pc'[x] = pc[x]
    BY <2>1, <2>2, <1>t, GoesEffect
  <2>4. \A x \in Threads \ {t} : using'[x] = using[x]
    BY <2>1, <1>n
  <2>5. t \in Upserts => Moves(t)
    BY <2>1, <2>2, <2>3, <1>t DEF Ways, WayOf, Moves, Leaves, Begins
  <2> QED
    BY <2>1, <2>3, <2>4, <2>5, <1>0, CasesGoes DEF Walks, InFlight
<1>8. CASE \E t \in Threads : ConnectFails(t)
  <2> PICK t \in Threads : ConnectFails(t)
    BY <1>8
  <2>1. /\ Goes(t, "connect", IF t \in Upserts THEN "failed" ELSE "reset")
        /\ UNCHANGED <<table, using, sent, conn, db, durable, poisoned, raced>>
    BY DEF ConnectFails
  <2>2. /\ pc[t] = "connect" /\ pc'[t] \in {"failed", "reset"}
        /\ \A x \in Threads \ {t} : pc'[x] = pc[x]
    BY <2>1, <1>t, GoesEffect DEF PCs
  <2> QED
    BY <2>1, <2>2, <1>0, CasesGoes DEF Walks, InFlight, Moves, Leaves
<1>9. CASE \E t \in Threads : CloseConn(t)
  <2> PICK t \in Threads : CloseConn(t)
    BY <1>9
  <2>1. /\ Goes(t, "reset", "drop")
        /\ conn' = IF global = 0 THEN conn ELSE [conn EXCEPT ![global] = Emptied("closed")]
        /\ UNCHANGED <<table, using, sent, db, durable, poisoned, raced>>
    BY EmptiedFacts DEF CloseConn
  <2>2. /\ pc[t] = "reset" /\ pc'[t] = "drop"
        /\ \A x \in Threads \ {t} : pc'[x] = pc[x]
    BY <2>1, <1>t, GoesEffect DEF PCs
  <2>3. \A k \in Conns : ConnMoves(k)
    <3>1. CASE global = 0
      BY <3>1, <2>1, ConnNone
    <3>2. CASE global \in Conns /\ global # 0
      <4>1. conn'[global] = Emptied("closed") /\ \A j \in Conns \ {global} : conn'[j] = conn[j]
        BY <3>2, <2>1, <1>t, EmptiedTyped
      <4>2. ConnMoves(global)
        BY <4>1 DEF ConnMoves
      <4> QED
        BY <3>2, <4>1, <4>2, ConnOne
    <3> QED
      BY <3>1, <3>2, <1>n
  <2>4. t \in Upserts => Moves(t)
    BY <2>2 DEF Moves, Leaves
  <2> QED
    BY <2>1, <2>2, <2>3, <2>4, CasesGoes DEF Walks, InFlight, DbMoves
<1>24. CASE \E t \in Threads : DropConn(t)
  <2> PICK t \in Threads : DropConn(t)
    BY <1>24
  <2>1. /\ Ends(t, "drop", IF t \in Upserts THEN "failed" ELSE "ok")
        /\ UNCHANGED <<table, sent, conn, db, durable, poisoned, raced>>
    BY DEF DropConn
  <2>2. /\ pc[t] = "drop" /\ (t \in Upserts => pc'[t] = "failed")
        /\ \A x \in Threads \ {t} : pc'[x] = pc[x] /\ using'[x] = using[x]
    BY <2>1, <1>t, EndsEffect DEF PCs
  <2>3. t \in Upserts => Moves(t)
    BY <2>2 DEF Moves, Leaves
  <2> QED
    BY <2>1, <2>2, <2>3, <1>0, CasesGoes DEF Walks, InFlight
<1>10. CASE \E t \in Threads : StatementFails(t)
  <2> PICK t \in Threads : StatementFails(t)
    BY <1>10
  <2>1. /\ \E step \in Statements : Goes(t, step, "reset")
        /\ conn' = [conn EXCEPT ![using[t]] = Emptied("error")]
        /\ poisoned' = poisoned \union conn[using[t]].by
        /\ conn[using[t]].tx \notin {"closed", "lost"}
        /\ UNCHANGED <<table, using, sent, db, durable, raced>>
    BY EmptiedFacts DEF StatementFails, Of, Refused
  <2>2. PICK step \in Statements : Goes(t, step, "reset")
    BY <2>1
  <2>3. /\ pc[t] = step /\ pc'[t] = "reset" /\ \A x \in Threads \ {t} : pc'[x] = pc[x]
    BY <2>2, <1>t, GoesEffect DEF PCs
  <2>4. using[t] \in Conns
    BY <2>3, <1>l
  <2>5. InFlight(t) /\ (t \in Upserts => Moves(t)) /\ Walks(t)
    BY <2>1, <2>3 DEF Statements, CommitSteps, InFlight, Moves, Leaves, Walks
  <2>6. /\ conn'[using[t]] = Emptied("error")
        /\ \A j \in Conns \ {using[t]} : conn'[j] = conn[j]
    BY <2>1, <2>4, <1>t, EmptiedTyped
  <2>7. ConnMoves(using[t])
    BY <2>1, <2>6 DEF ConnMoves
  <2>8. \A k \in Conns : ConnMoves(k)
    BY <2>4, <2>6, <2>7, ConnOne
  <2> QED
    BY <2>1, <2>5, <2>8, CasesGoes DEF DbMoves
<1>11. CASE \E t \in Threads : StatementRefused(t)
  <2> PICK t \in Threads : StatementRefused(t)
    BY <1>11
  <2>1. /\ \E step \in Statements : Goes(t, step, "reset")
        /\ conn' = conn \/ (conn' = [conn EXCEPT ![using[t]] = Emptied("error")]
                             /\ conn[using[t]].tx \notin {"closed", "lost"})
        /\ Refused(t)
        /\ UNCHANGED <<table, using, sent, db, durable, poisoned, raced>>
    BY EmptiedFacts DEF StatementRefused, Of, Refused
  <2>2. PICK step \in Statements : Goes(t, step, "reset")
    BY <2>1
  <2>3. /\ pc[t] = step /\ pc'[t] = "reset" /\ \A x \in Threads \ {t} : pc'[x] = pc[x]
    BY <2>2, <1>t, GoesEffect DEF PCs
  <2>4. using[t] \in Conns
    BY <2>3, <1>l
  <2>5. InFlight(t) /\ (t \in Upserts => Moves(t)) /\ Walks(t)
    BY <2>1, <2>3 DEF Statements, CommitSteps, InFlight, Moves, Leaves, Walks
  <2>6. CASE conn' = conn
    BY <2>1, <2>5, <2>6, <1>0, CasesGoes
  <2>7. CASE conn' # conn
    <3>1. /\ conn'[using[t]] = Emptied("error")
          /\ \A j \in Conns \ {using[t]} : conn'[j] = conn[j]
      BY <2>1, <2>4, <2>7, <1>t, EmptiedTyped
    <3>2. conn[using[t]].tx # "open"
      BY <2>1, <2>4, <2>7 DEF Refused, Of, NothingYet
    <3>3. conn[using[t]].by = {}
      BY <3>2, <2>4, <1>n DEF Emptied
    <3>4. ConnMoves(using[t])
      BY <2>1, <2>7, <3>1, <3>3 DEF ConnMoves
    <3>5. \A k \in Conns : ConnMoves(k)
      BY <2>4, <3>1, <3>4, ConnOne
    <3> QED
      BY <2>1, <2>5, <3>5, CasesGoes DEF DbMoves
  <2> QED
    BY <2>6, <2>7
<1>12. CASE \E t \in Threads : CommitRefused(t)
  <2> PICK t \in Threads : CommitRefused(t)
    BY <1>12
  <2>1. /\ \E step \in CommitSteps : Goes(t, step, "reset")
        /\ UNCHANGED <<table, using, sent, conn, db, durable, poisoned, raced>>
    BY EmptiedFacts DEF CommitRefused, Of, Refused
  <2>2. PICK step \in CommitSteps : Goes(t, step, "reset")
    BY <2>1
  <2>3. /\ pc[t] = step /\ pc'[t] = "reset" /\ \A x \in Threads \ {t} : pc'[x] = pc[x]
    BY <2>2, <1>t, GoesEffect DEF PCs
  <2>4. using[t] \in Conns
    BY <2>3, <1>l
  <2>5. InFlight(t) /\ (t \in Upserts => Moves(t)) /\ Walks(t)
    BY <2>1, <2>3 DEF Statements, CommitSteps, InFlight, Moves, Leaves, Walks
  <2> QED
    BY <2>1, <2>5, <1>0, CasesGoes
<1>13. CASE \E u \in Upserts : InsertChunk(u)
  <2> PICK u \in Upserts : InsertChunk(u)
    BY <1>13
  <2> DEFINE n == sent[u] + 1
  <2>1. /\ sent' = [sent EXCEPT ![u] = n] /\ Goes(u, "insert", AfterInsert(u, n))
        /\ Changes(u, {<<RunOf[u], n>>}, u)
        /\ UNCHANGED <<table, using, db, durable, poisoned, raced>>
    BY DEF InsertChunk
  <2>2. AfterInsert(u, n) \in {"insert", "delete"} /\ AfterInsert(u, n) \in PCs
    BY DEF AfterInsert, PCs
  <2>3. /\ pc[u] = "insert" /\ pc'[u] = AfterInsert(u, n)
        /\ \A x \in Threads \ {u} : pc'[x] = pc[x]
    BY <2>1, <2>2, <1>t, <1>r, GoesEffect
  <2>4. n \in Nat /\ n >= 1 /\ n <= SizeOf[u] /\ SizeOf[u] \in Nat
    BY <2>3, <1>n, <1>t, SizeFacts DEF Ways, WayOf
  <2>5. {<<RunOf[u], n>>} \in SUBSET Chunks /\ u \in Rows
    BY <2>4, SizeFacts DEF ChunksOf, Chunks, Rows
  <2>6. using[u] # 0
    BY <2>3, <1>l, <1>r DEF Statements
  <2>7. Changed(using[u], u, {<<RunOf[u], n>>}, u) /\ using[u] \in Conns
    BY <2>1, <2>5, <2>6, <1>t, <1>r, ChangesEffect
  <2>8. sent'[u] = n /\ \A x \in Upserts \ {u} : sent'[x] = sent[x]
    BY <2>1, <1>n
  <2>9. Inserts(u)
    BY <2>1, <2>2, <2>3, <2>7, <2>8 DEF Inserts
  <2>10. ConnMoves(using[u]) /\ \A j \in Conns \ {using[u]} : conn'[j] = conn[j]
    BY <2>7, <2>9 DEF ConnMoves, Changed
  <2>11. \A k \in Conns : ConnMoves(k)
    BY <2>7, <2>10, ConnOne
  <2> QED
    BY <2>1, <2>3, <2>8, <2>9, <2>11, <1>r, CasesGoes DEF Walks, InFlight, Moves, DbMoves
<1>14. CASE \E u \in Upserts : DeleteStale(u)
  <2> PICK u \in Upserts : DeleteStale(u)
    BY <1>14
  <2>0. u \in Threads
    BY <1>r DEF Threads
  <2>1. /\ Goes(u, "delete", "commit") /\ Changes(u, Stale(u), "none")
        /\ UNCHANGED <<table, using, sent, db, durable, poisoned, raced>>
    BY DEF DeleteStale
  <2>2. /\ pc[u] = "delete" /\ pc'[u] = "commit" /\ \A x \in Threads \ {u} : pc'[x] = pc[x]
    BY <2>0, <2>1, <1>t, GoesEffect DEF PCs
  <2>3. Stale(u) \in SUBSET Chunks /\ "none" \in Rows /\ "none" # u
    BY <2>0, Placeholders, SizeFacts DEF Stale, Chunks, Rows
  <2>4. using[u] # 0 /\ using[u] \in Conns
    BY <2>0, <2>2, <1>l DEF Statements
  <2>5. Changed(using[u], u, Stale(u), "none")
    BY <2>0, <2>1, <2>3, <2>4, <1>t, ChangesEffect
  <2>6. Moves(u)
    BY <2>1, <2>2, <2>5 DEF Moves, Deletes
  <2>7. ConnMoves(using[u]) /\ \A j \in Conns \ {using[u]} : conn'[j] = conn[j]
    BY <2>0, <2>3, <2>5 DEF ConnMoves, Changed
  <2>8. \A k \in Conns : ConnMoves(k)
    BY <2>4, <2>7, ConnOne
  <2>9. InFlight(u) /\ Walks(u)
    BY <2>1, <2>2 DEF InFlight, Walks
  <2> QED
    BY <2>0, <2>1, <2>6, <2>8, <2>9, CasesGoes DEF DbMoves
<1>15. CASE \E q \in Readers : Select(q)
  <2> PICK q \in Readers : Select(q)
    BY <1>15
  <2>0. q \in Threads
    BY <1>r DEF Threads
  <2>1. /\ Ends(q, "select", "ok") /\ Changes(q, {}, "none")
        /\ UNCHANGED <<table, sent, db, durable, poisoned, raced>>
    BY DEF Select
  <2>2. /\ pc[q] = "select" /\ pc'[q] = "ok" /\ \A x \in Threads \ {q} : pc'[x] = pc[x] /\ using'[x] = using[x]
    BY <2>0, <2>1, <1>t, EndsEffect DEF PCs
  <2>3. {} \in SUBSET Chunks /\ "none" \in Rows /\ "none" # q
    BY <2>0, Placeholders DEF Rows
  <2>4. using[q] # 0 /\ using[q] \in Conns
    BY <2>0, <2>2, <1>l DEF Statements
  <2>5. Changed(using[q], q, {}, "none")
    BY <2>0, <2>1, <2>3, <2>4, <1>t, ChangesEffect
  <2>6. q \notin Upserts
    BY <1>r
  <2>7. ConnMoves(using[q]) /\ \A j \in Conns \ {using[q]} : conn'[j] = conn[j]
    BY <2>0, <2>3, <2>5 DEF ConnMoves, Changed
  <2>8. \A k \in Conns : ConnMoves(k)
    BY <2>4, <2>7, ConnOne
  <2>9. InFlight(q) /\ Walks(q)
    BY <2>1, <2>2 DEF InFlight, Walks
  <2> QED
    BY <2>0, <2>1, <2>6, <2>8, <2>9, CasesGoes DEF DbMoves
<1>16. CASE PruneByAge
  <2>g. PICK old \in SUBSET Upserts :
          Changes(Pruner, {c \in Chunks : Seen(Pruner)[c] \in old}, "none")
    BY <1>16 DEF PruneByAge
  <2> DEFINE gone == {c \in Chunks : Seen(Pruner)[c] \in old}
  <2>0. Pruner \in Threads
    BY <1>r DEF Threads
  <2>1. /\ Goes(Pruner, "age", "age commit") /\ Changes(Pruner, gone, "none")
        /\ UNCHANGED <<table, using, sent, db, durable, poisoned, raced>>
    BY <1>16, <2>g DEF PruneByAge
  <2>2. /\ pc[Pruner] = "age" /\ pc'[Pruner] = "age commit" /\ \A x \in Threads \ {Pruner} : pc'[x] = pc[x]
    BY <2>0, <2>1, <1>t, GoesEffect DEF PCs
  <2>3. gone \in SUBSET Chunks /\ "none" \in Rows /\ "none" # Pruner
    BY <2>0, Placeholders DEF Rows
  <2>4. using[Pruner] # 0 /\ using[Pruner] \in Conns
    BY <2>0, <2>2, <1>l DEF Statements
  <2>5. Changed(using[Pruner], Pruner, gone, "none")
    BY <2>0, <2>1, <2>3, <2>4, <1>t, ChangesEffect
  <2>6. Pruner \notin Upserts
    BY <1>r
  <2>7. ConnMoves(using[Pruner]) /\ \A j \in Conns \ {using[Pruner]} : conn'[j] = conn[j]
    BY <2>0, <2>3, <2>5 DEF ConnMoves, Changed
  <2>8. \A k \in Conns : ConnMoves(k)
    BY <2>4, <2>7, ConnOne
  <2>9. InFlight(Pruner) /\ Walks(Pruner)
    BY <2>1, <2>2 DEF InFlight, Walks
  <2> QED
    BY <2>0, <2>1, <2>6, <2>8, <2>9, CasesGoes DEF DbMoves
<1>17. CASE CountRows
  <2>0. Pruner \in Threads
    BY <1>r DEF Threads
  <2>1. /\ (Ends(Pruner, "count", "ok") \/ (Goes(Pruner, "count", "cap") /\ UNCHANGED using)) /\ Changes(Pruner, {}, "none")
        /\ UNCHANGED <<table, sent, db, durable, poisoned, raced>>
    BY <1>17 DEF CountRows
  <2>2. /\ pc[Pruner] = "count"
        /\ \A x \in Threads \ {Pruner} : pc'[x] = pc[x] /\ using'[x] = using[x]
    BY <2>0, <2>1, <1>t, EndsEffect, GoesEffect DEF PCs
  <2>3. {} \in SUBSET Chunks /\ "none" \in Rows /\ "none" # Pruner
    BY <2>0, Placeholders DEF Rows
  <2>4. using[Pruner] # 0 /\ using[Pruner] \in Conns
    BY <2>0, <2>2, <1>l DEF Statements
  <2>5. Changed(using[Pruner], Pruner, {}, "none")
    BY <2>0, <2>1, <2>3, <2>4, <1>t, ChangesEffect
  <2>6. Pruner \notin Upserts
    BY <1>r
  <2>7. ConnMoves(using[Pruner]) /\ \A j \in Conns \ {using[Pruner]} : conn'[j] = conn[j]
    BY <2>0, <2>3, <2>5 DEF ConnMoves, Changed
  <2>8. \A k \in Conns : ConnMoves(k)
    BY <2>4, <2>7, ConnOne
  <2>9. InFlight(Pruner) /\ Walks(Pruner)
    BY <2>1, <2>2 DEF InFlight, Walks
  <2> QED
    BY <2>0, <2>1, <2>6, <2>8, <2>9, CasesGoes DEF DbMoves
<1>18. CASE PruneByCap
  <2>g. PICK gone \in SUBSET {c \in Chunks : Seen(Pruner)[c] # "none"} :
          Changes(Pruner, gone, "none")
    BY <1>18 DEF PruneByCap
  <2>0. Pruner \in Threads
    BY <1>r DEF Threads
  <2>1. /\ Goes(Pruner, "cap", "cap commit") /\ Changes(Pruner, gone, "none")
        /\ UNCHANGED <<table, using, sent, db, durable, poisoned, raced>>
    BY <1>18, <2>g DEF PruneByCap
  <2>2. /\ pc[Pruner] = "cap" /\ pc'[Pruner] = "cap commit" /\ \A x \in Threads \ {Pruner} : pc'[x] = pc[x]
    BY <2>0, <2>1, <1>t, GoesEffect DEF PCs
  <2>3. gone \in SUBSET Chunks /\ "none" \in Rows /\ "none" # Pruner
    BY <2>0, Placeholders DEF Rows
  <2>4. using[Pruner] # 0 /\ using[Pruner] \in Conns
    BY <2>0, <2>2, <1>l DEF Statements
  <2>5. Changed(using[Pruner], Pruner, gone, "none")
    BY <2>0, <2>1, <2>3, <2>4, <1>t, ChangesEffect
  <2>6. Pruner \notin Upserts
    BY <1>r
  <2>7. ConnMoves(using[Pruner]) /\ \A j \in Conns \ {using[Pruner]} : conn'[j] = conn[j]
    BY <2>0, <2>3, <2>5 DEF ConnMoves, Changed
  <2>8. \A k \in Conns : ConnMoves(k)
    BY <2>4, <2>7, ConnOne
  <2>9. InFlight(Pruner) /\ Walks(Pruner)
    BY <2>1, <2>2 DEF InFlight, Walks
  <2> QED
    BY <2>0, <2>1, <2>6, <2>8, <2>9, CasesGoes DEF DbMoves
<1>19. CASE \E u \in Upserts : CommitUpsert(u)
  <2> PICK u \in Upserts : CommitUpsert(u)
    BY <1>19
  <2>0. u \in Threads
    BY <1>r DEF Threads
  <2>1. /\ Ends(u, "commit", "ok") /\ Commits(u)
        /\ UNCHANGED <<table, sent, raced>> /\ poisoned \subseteq poisoned'
    BY DEF CommitUpsert
  <2>2. /\ pc[u] = "commit" /\ pc'[u] = "ok" /\ \A x \in Threads \ {u} : pc'[x] = pc[x] /\ using'[x] = using[x]
    BY <2>0, <2>1, <1>t, EndsEffect DEF PCs
  <2>4. using[u] # 0 /\ using[u] \in Conns
    BY <2>0, <2>2, <1>l DEF CommitSteps
  <2>5. Committed(using[u])
    BY <2>0, <2>1, <2>4, <1>t, CommitsEffect
  <2>6. Moves(u)
    BY <2>1, <2>2, <2>5 DEF Moves, Finishes
  <2>7. ConnMoves(using[u]) /\ \A j \in Conns \ {using[u]} : conn'[j] = conn[j]
    BY <2>5 DEF ConnMoves, Committed
  <2>8. \A k \in Conns : ConnMoves(k)
    BY <2>4, <2>7, ConnOne
  <2>9. InFlight(u) /\ Walks(u)
    BY <2>1, <2>2 DEF InFlight, Walks
  <2>10. DbMoves /\ durable \subseteq durable'
    BY <2>4, <2>5 DEF DbMoves, Committed
  <2> QED
    BY <2>0, <2>1, <2>6, <2>8, <2>9, <2>10, CasesGoes
<1>20. CASE CommitAge
  <2>0. Pruner \in Threads
    BY <1>r DEF Threads
  <2>1. /\ Goes(Pruner, "age commit", "count") /\ Commits(Pruner)
        /\ UNCHANGED <<table, using, sent, raced>> /\ poisoned \subseteq poisoned'
    BY <1>20 DEF CommitAge
  <2>2. /\ pc[Pruner] = "age commit" /\ pc'[Pruner] = "count" /\ \A x \in Threads \ {Pruner} : pc'[x] = pc[x]
    BY <2>0, <2>1, <1>t, GoesEffect DEF PCs
  <2>4. using[Pruner] # 0 /\ using[Pruner] \in Conns
    BY <2>0, <2>2, <1>l DEF CommitSteps
  <2>5. Committed(using[Pruner])
    BY <2>0, <2>1, <2>4, <1>t, CommitsEffect
  <2>6. Pruner \notin Upserts
    BY <1>r
  <2>7. ConnMoves(using[Pruner]) /\ \A j \in Conns \ {using[Pruner]} : conn'[j] = conn[j]
    BY <2>5 DEF ConnMoves, Committed
  <2>8. \A k \in Conns : ConnMoves(k)
    BY <2>4, <2>7, ConnOne
  <2>9. InFlight(Pruner) /\ Walks(Pruner)
    BY <2>1, <2>2 DEF InFlight, Walks
  <2>10. DbMoves /\ durable \subseteq durable'
    BY <2>4, <2>5 DEF DbMoves, Committed
  <2> QED
    BY <2>0, <2>1, <2>6, <2>8, <2>9, <2>10, CasesGoes
<1>21. CASE CommitCap
  <2>0. Pruner \in Threads
    BY <1>r DEF Threads
  <2>1. /\ Ends(Pruner, "cap commit", "ok") /\ Commits(Pruner)
        /\ UNCHANGED <<table, sent, raced>> /\ poisoned \subseteq poisoned'
    BY <1>21 DEF CommitCap
  <2>2. /\ pc[Pruner] = "cap commit" /\ pc'[Pruner] = "ok" /\ \A x \in Threads \ {Pruner} : pc'[x] = pc[x] /\ using'[x] = using[x]
    BY <2>0, <2>1, <1>t, EndsEffect DEF PCs
  <2>4. using[Pruner] # 0 /\ using[Pruner] \in Conns
    BY <2>0, <2>2, <1>l DEF CommitSteps
  <2>5. Committed(using[Pruner])
    BY <2>0, <2>1, <2>4, <1>t, CommitsEffect
  <2>6. Pruner \notin Upserts
    BY <1>r
  <2>7. ConnMoves(using[Pruner]) /\ \A j \in Conns \ {using[Pruner]} : conn'[j] = conn[j]
    BY <2>5 DEF ConnMoves, Committed
  <2>8. \A k \in Conns : ConnMoves(k)
    BY <2>4, <2>7, ConnOne
  <2>9. InFlight(Pruner) /\ Walks(Pruner)
    BY <2>1, <2>2 DEF InFlight, Walks
  <2>10. DbMoves /\ durable \subseteq durable'
    BY <2>4, <2>5 DEF DbMoves, Committed
  <2> QED
    BY <2>0, <2>1, <2>6, <2>8, <2>9, <2>10, CasesGoes
<1>22. CASE UNCHANGED vars
  <2>1. UNCHANGED <<pc, using, sent, conn, db, durable, poisoned, raced, table>>
    BY <1>22 DEF vars
  <2>2. (\A u \in Upserts : Moves(u)) /\ Remembers /\ Meets
    BY <2>1 DEF Moves, Stays, Remembers, Meets, InFlight
  <2> QED
    BY <2>1, <2>2, <1>0 DEF Cases
<1> QED
  BY <1>1, <1>2, <1>3, <1>4, <1>5, <1>6, <1>7, <1>8, <1>9, <1>10, <1>11, <1>12, <1>13,
     <1>14, <1>15, <1>16, <1>17, <1>18, <1>19, <1>20, <1>21, <1>22, <1>23,
     <1>24 DEF Next

-----------------------------------------------------------------------------
(***************************************************************************)
(* An upsert that reports success is stored, unless poisoned.              *)
(***************************************************************************)
LEMMA StoreInit == Init => StoreInv
BY EmptiedFacts, StoreAssumption
   DEF Init, StoreInv, NothingYet, Known, Writing, Threads, Emptied

\* A thread at a statement or a commit has an open connection to name.
LEMMA WriterConn ==
  ASSUME TypeInv, NEW u \in Upserts, pc[u] \in Writing
  PROVE  using[u] \in Conns /\ using[u] <= opened /\ using[u] # opened + 1
<1>1. u \in Threads /\ using[u] # 0 /\ using[u] <= opened
  BY DEF TypeInv, Ways, Writing, Statements, CommitSteps, Threads
<1>2. using[u] \in Conns /\ opened \in 0..MaxConns
  BY <1>1 DEF TypeInv, TypeOK
<1>3. using[u] # opened + 1
  BY <1>1, <1>2, StoreAssumption DEF Conns
<1> QED
  BY <1>1, <1>2, <1>3

\* What an upsert wrote is committed, or still in its transaction, or its
\* connection is gone: an error there would have poisoned it.
LEMMA WroteMoves ==
  ASSUME NEW u \in Upserts, u \notin poisoned', NEW c \in Chunks,
         NEW k \in Conns, k # opened + 1, Known, ConnMoves(k), Remembers, pc'[u] # "get",
         <<u, c>> \in durable \union conn[k].wrote
  PROVE  conn'[k].tx \in {"closed", "lost"} \/ <<u, c>> \in durable' \union conn'[k].wrote
<1>1. CASE <<u, c>> \in durable
  BY <1>1 DEF Remembers
<1>2. CASE <<u, c>> \in conn[k].wrote
  <2>1. u \in conn[k].by
    BY <1>2 DEF Known
  <2>2. ASSUME \E tx \in {"closed", "lost"} : conn'[k] = Emptied(tx)
        PROVE  conn'[k].tx \in {"closed", "lost"}
    BY <2>2 DEF Emptied
  <2>3. ASSUME \E t \in Threads, chunks \in SUBSET Chunks : Changed(k, t, chunks, "none")
        PROVE  <<u, c>> \in conn'[k].wrote
    BY <1>2, <2>3 DEF Changed
  <2>4. ASSUME \E v \in Upserts : Inserts(v) /\ using[v] = k
        PROVE  <<u, c>> \in conn'[k].wrote
    BY <1>2, <2>4 DEF Inserts, Changed
  <2>5. ASSUME Committed(k) PROVE <<u, c>> \in durable'
    BY <1>2, <2>5 DEF Committed
  <2> QED
    BY <1>2, <2>1, <2>2, <2>3, <2>4, <2>5 DEF ConnMoves
<1> QED
  BY <1>1, <1>2

\* What may become of the state of a connection.
LEMMA TxMoves ==
  ASSUME NEW k \in Conns, ConnMoves(k)
  PROVE  \/ conn'[k] = conn[k] \/ conn'[k].tx \in {"closed", "lost"}
         \/ conn'[k].tx \in {"idle", "error"} /\ (conn[k].tx \notin {"closed", "lost"} \/ k = opened + 1)
         \/ conn'[k].tx = "open" /\ conn[k].tx \in {"idle", "open"} /\ table
<1>1. ASSUME \E tx \in {"closed", "lost"} : conn'[k] = Emptied(tx)
      PROVE  conn'[k].tx \in {"closed", "lost"}
  BY <1>1 DEF Emptied
<1>2. ASSUME \E t \in Threads, chunks \in SUBSET Chunks : Changed(k, t, chunks, "none")
      PROVE  conn'[k].tx = "open" /\ conn[k].tx \in {"idle", "open"} /\ table
  BY <1>2 DEF Changed
<1>3. ASSUME \E u \in Upserts : Inserts(u) /\ using[u] = k
      PROVE  conn'[k].tx = "open" /\ conn[k].tx \in {"idle", "open"} /\ table
  BY <1>3 DEF Changed, Inserts
<1>4. ASSUME Committed(k)
      PROVE  conn'[k].tx = "idle" /\ conn[k].tx \notin {"closed", "lost"}
  BY <1>4 DEF Committed, Emptied
<1>5. Emptied("error").tx = "error" /\ Emptied("idle").tx = "idle"
  BY DEF Emptied
<1> QED
  BY <1>1, <1>2, <1>3, <1>4, <1>5 DEF ConnMoves

\* A connection that is gone stays so: only a new one is opened.
LEMMA GoneStays ==
  ASSUME NEW k \in Conns, k # opened + 1, ConnMoves(k), conn[k].tx \in {"closed", "lost"}
  PROVE  conn'[k].tx \in {"closed", "lost"}
BY TxMoves

\* Every step keeps what an upsert wrote where StoreInv says it is.
LEMMA StoreStep ==
  ASSUME TypeInv, TypeInv', StoreInv, [Next]_vars
  PROVE  StoreInv'
<1>n. NothingYet /\ Known
  BY DEF StoreInv
<1>c. Cases
  BY <1>n, StepCases
<1>m. \A k \in Conns : ConnMoves(k)
  BY <1>c DEF Cases
<1>r. Remembers
  BY <1>c DEF Cases
<1>1. NothingYet'
  <2> SUFFICES ASSUME ~table', NEW k \in Conns PROVE conn'[k].tx # "open"
    BY DEF NothingYet
  <2>1. ~table /\ conn[k].tx # "open" /\ ConnMoves(k)
    BY <1>n, <1>m, <1>r DEF NothingYet, Remembers
  <2> QED
    BY <2>1, TxMoves
<1>2. Known'
  <2> SUFFICES ASSUME NEW k \in Conns, NEW u \in Upserts, NEW c \in Chunks,
                      <<u, c>> \in conn'[k].wrote
               PROVE  u \in conn'[k].by
    BY DEF Known
  <2>1. ConnMoves(k)
    BY <1>m
  <2>2. CASE conn'[k] = conn[k]
    BY <2>2, <1>n DEF Known
  <2>3. CASE \E tx : conn'[k] = Emptied(tx)
    BY <2>3 DEF Emptied
  <2>4. CASE \E t \in Threads, chunks \in SUBSET Chunks : Changed(k, t, chunks, "none")
    <3>1. PICK t \in Threads, chunks \in SUBSET Chunks : Changed(k, t, chunks, "none")
      BY <2>4
    <3>2. "none" # t
      BY Placeholders
    <3> QED
      BY <3>1, <3>2, <1>n DEF Changed, Known
  <2>5. CASE \E v \in Upserts : Inserts(v) /\ using[v] = k
    BY <2>5, <1>n DEF Inserts, Changed, Known
  <2> QED
    BY <2>1, <2>2, <2>3, <2>4, <2>5 DEF ConnMoves, Committed
<1>3. ASSUME NEW u \in Upserts, u \notin poisoned'
      PROVE  /\ pc'[u] \in Writing => Gone(u)' \/ Kept(u)'
             /\ pc'[u] = "ok" => Complete(u)'
  <2>1. Moves(u)
    BY <1>c DEF Cases
  <2>2. ASSUME pc'[u] \in Writing \union {"ok"} PROVE u \notin poisoned
    BY <1>r, <1>3, <2>2 DEF Remembers, Writing
  <2>3. /\ sent[u] \in Nat /\ sent'[u] \in Nat /\ sent[u] <= SizeOf[u] /\ sent'[u] <= SizeOf[u]
        /\ SizeOf[u] \in Nat
    BY SizeFacts DEF TypeInv, TypeOK
  <2>4. \A n \in 1..SizeOf[u] : <<RunOf[u], n>> \in Chunks
    BY SizeFacts DEF ChunksOf, Chunks, ChunksOfRun
  <2>5. CASE Stays(u)
    <3>1. CASE pc'[u] \in Writing
      <4>1. pc[u] \in Writing /\ using'[u] = using[u] /\ sent'[u] = sent[u] /\ u \notin poisoned
        BY <2>2, <2>5, <3>1 DEF Stays
      <4>2. using[u] \in Conns /\ using[u] # opened + 1 /\ ConnMoves(using[u])
        BY <4>1, <1>m, WriterConn
      <4>3. Gone(u) \/ Kept(u)
        BY <4>1 DEF StoreInv
      <4>4. Gone(u) => Gone(u)'
        BY <4>1, <4>2, GoneStays DEF Gone, Of
      <4>5. ASSUME Kept(u), ~Gone(u)' PROVE Kept(u)'
        <5> SUFFICES ASSUME NEW n \in 1..sent[u]
                     PROVE  <<u, <<RunOf[u], n>>>> \in durable' \union conn'[using[u]].wrote
          BY <4>1 DEF Kept, Of
        <5>1. <<RunOf[u], n>> \in Chunks
          BY <2>3, <2>4
        <5>2. <<u, <<RunOf[u], n>>>> \in durable \union conn[using[u]].wrote
          BY <4>5 DEF Kept, Of
        <5>3. conn'[using[u]].tx \notin {"closed", "lost"} /\ pc'[u] # "get"
          BY <4>1, <4>5, <3>1 DEF Gone, Of, Writing
        <5> QED
          BY <4>2, <5>1, <5>2, <5>3, <1>n, <1>r, <1>3, WroteMoves
      <4> QED
        BY <4>3, <4>4, <4>5, <3>1 DEF Writing
    <3>2. CASE pc'[u] = "ok"
      <4>1. Complete(u)
        BY <2>2, <2>5, <3>2 DEF Stays, StoreInv
      <4>2. ChunksOf(u) \subseteq Chunks
        BY SizeFacts
      <4> QED
        BY <3>2, <4>1, <4>2, <1>r DEF Complete, Remembers, Writing
    <3> QED
      BY <3>1, <3>2
  <2>6. CASE Leaves(u)
    BY <2>6 DEF Leaves, Writing
  <2>7. CASE Begins(u)
    BY <2>7 DEF Begins, Kept, Writing
  <2>8. CASE Inserts(u)
    <3>1. /\ using'[u] = using[u] /\ sent'[u] = sent[u] + 1 /\ pc[u] = "insert"
          /\ pc'[u] \in {"insert", "delete"}
          /\ Changed(using[u], u, {<<RunOf[u], sent[u] + 1>>}, u)
      BY <2>8 DEF Inserts
    <3>2. u \notin poisoned /\ ~Gone(u)
      BY <2>2, <3>1 DEF Writing, Changed, Gone, Of
    <3>3. Kept(u)
      BY <3>1, <3>2 DEF StoreInv, Writing
    <3>4. ASSUME NEW n \in 1..(sent[u] + 1)
          PROVE  <<u, <<RunOf[u], n>>>> \in durable' \union conn'[using[u]].wrote
      <4>1. CASE n = sent[u] + 1
        BY <3>1, <4>1 DEF Changed
      <4>2. CASE n # sent[u] + 1
        <5>1. n \in 1..sent[u] /\ <<RunOf[u], n>> \in Chunks
          BY <2>3, <2>4, <3>4, <4>2
        <5>2. <<u, <<RunOf[u], n>>>> \in durable \union conn[using[u]].wrote
          BY <3>3, <5>1 DEF Kept, Of
        <5> QED
          BY <3>1, <5>1, <5>2, <1>r DEF Changed, Remembers
      <4> QED
        BY <4>1, <4>2
    <3>5. Kept(u)'
      BY <3>1, <3>4 DEF Kept, Of
    <3> QED
      BY <3>1, <3>5
  <2>9. CASE Deletes(u)
    <3>1. /\ using'[u] = using[u] /\ sent'[u] = sent[u] /\ pc[u] = "delete" /\ pc'[u] = "commit"
          /\ Changed(using[u], u, Stale(u), "none")
      BY <2>9 DEF Deletes
    <3>2. u \notin poisoned /\ ~Gone(u)
      BY <2>2, <3>1 DEF Writing, Changed, Gone, Of
    <3>3. Kept(u)
      BY <3>1, <3>2 DEF StoreInv, Writing
    <3>4. conn[using[u]].wrote \subseteq conn'[using[u]].wrote
      BY <3>1 DEF Changed
    <3>5. ASSUME NEW n \in 1..sent[u]
          PROVE  <<u, <<RunOf[u], n>>>> \in durable' \union conn'[using[u]].wrote
      <4>1. <<RunOf[u], n>> \in Chunks
        BY <2>3, <2>4
      <4>2. <<u, <<RunOf[u], n>>>> \in durable \union conn[using[u]].wrote
        BY <3>3 DEF Kept, Of
      <4> QED
        BY <3>1, <3>4, <4>1, <4>2, <1>r DEF Remembers
    <3>6. Kept(u)'
      BY <3>1, <3>5 DEF Kept, Of
    <3> QED
      BY <3>1, <3>6
  <2>10. CASE Finishes(u)
    <3>1. pc[u] = "commit" /\ pc'[u] = "ok" /\ Committed(using[u])
      BY <2>10 DEF Finishes
    <3>2. u \notin poisoned /\ ~Gone(u)
      BY <2>2, <3>1 DEF Writing, Committed, Gone, Of
    <3>3. Kept(u) /\ sent[u] = SizeOf[u]
      BY <3>1, <3>2 DEF StoreInv, Writing, TypeInv, Ways, WayOf
    <3>4. \A n \in 1..SizeOf[u] : <<u, <<RunOf[u], n>>>> \in durable'
      BY <3>1, <3>3 DEF Kept, Of, Committed
    <3>5. Complete(u)'
      BY <3>4 DEF Complete, ChunksOf
    <3> QED
      BY <3>1, <3>5 DEF Writing
  <2> QED
    BY <2>1, <2>5, <2>6, <2>7, <2>8, <2>9, <2>10 DEF Moves
<1> QED
  BY <1>1, <1>2, <1>3 DEF StoreInv

\* AcknowledgedUnlessPoisoned: an upsert answered "ok" has all its chunks
\* committed, unless the error of another thread's statement aborted the
\* transaction they shared.
THEOREM AcknowledgedIsStoredUnlessPoisoned == Spec => []AcknowledgedUnlessPoisoned
<1>1. Init => TypeInv /\ StoreInv
  BY TypeInit, StoreInit
<1>2. TypeInv /\ StoreInv /\ [Next]_vars => TypeInv' /\ StoreInv'
  BY TypeStep, StoreStep
<1>3. StoreInv => AcknowledgedUnlessPoisoned
  BY DEF StoreInv, AcknowledgedUnlessPoisoned
<1> QED
  BY <1>1, <1>2, <1>3, PTL DEF Spec

-----------------------------------------------------------------------------
(***************************************************************************)
(* A run's rows are one version.                                           *)
(***************************************************************************)
LEMMA VersionInit == Init => VersionInv
<1> SUFFICES ASSUME Init PROVE VersionInv
  OBVIOUS
<1>1. \A k \in Conns, c \in Chunks : conn[k].pending[c] = "same"
  BY DEF Init, Closed, NoChange
<1>2. \A c \in Chunks : db[c] = "none"
  BY DEF Init
<1>3. \A u \in Upserts : pc[u] = "none"
  BY DEF Init, Threads
<1>4. \A r \in Runs : ChunksOfRun(r) \subseteq Chunks
  BY SizeFacts
<1>5. AtHome /\ NotPending
  BY <1>1, <1>2, Placeholders DEF AtHome, NotPending, CleanRow
<1>6. OneAtATime /\ OwnOnly /\ Covers
  BY <1>3 DEF OneAtATime, InFlight, OwnOnly, Covers, Writing
<1>7. OneClean
  BY <1>2, <1>4, Placeholders DEF OneClean, CleanRow
<1> QED
  BY <1>5, <1>6, <1>7 DEF VersionInv

\* What a transaction may come to hold for a chunk, and the table with it.
LEMMA PendingMoves ==
  ASSUME NEW k \in Conns, NEW c \in Chunks, ConnMoves(k)
  PROVE  \/ conn'[k].pending[c] \in {conn[k].pending[c], "same", "none"}
         \/ \E u \in Upserts : /\ Inserts(u) /\ using[u] = k /\ c = <<RunOf[u], sent[u] + 1>>
                               /\ conn'[k].pending[c] = u
<1>1. \A tx : Emptied(tx).pending[c] = "same"
  BY DEF Emptied, NoChange
<1>2. CASE \E tx : conn'[k] = Emptied(tx)
  BY <1>1, <1>2
<1>3. CASE \E t \in Threads, chunks \in SUBSET Chunks : Changed(k, t, chunks, "none")
  BY <1>3 DEF Changed
<1>4. CASE \E u \in Upserts : Inserts(u) /\ using[u] = k
  <2>1. PICK u \in Upserts : Inserts(u) /\ using[u] = k
    BY <1>4
  <2>2. Changed(k, u, {<<RunOf[u], sent[u] + 1>>}, u)
    BY <2>1 DEF Inserts
  <2>3. conn'[k].pending[c] = IF c \in {<<RunOf[u], sent[u] + 1>>} THEN u ELSE conn[k].pending[c]
    BY <2>2 DEF Changed
  <2> QED
    BY <2>1, <2>3
<1> QED
  BY <1>2, <1>3, <1>4 DEF ConnMoves, Committed

\* A row of the table changes only by a commit.
LEMMA RowMoves ==
  ASSUME NEW c \in Chunks, DbMoves
  PROVE  \/ db'[c] = db[c]
         \/ \E k \in Conns : Committed(k) /\ db'[c] = conn[k].pending[c]
BY DEF DbMoves, Committed

\* Clean in the next state, for a row that is itself of the next state.
CleanNext(u) == pc'[u] \in {"none", "ok"} /\ u \notin poisoned'

\* Only its own commit makes an upsert clean.
LEMMA NewlyClean ==
  ASSUME NEW u \in Upserts, CleanNext(u), Moves(u), Remembers
  PROVE  u \notin poisoned /\ (Clean(u) \/ Finishes(u))
<1>1. pc'[u] \in {"none", "ok"} /\ u \notin poisoned'
  BY DEF CleanNext
<1>2. u \notin poisoned
  BY <1>1 DEF Remembers
<1> QED
  BY <1>1, <1>2 DEF Moves, Stays, Leaves, Begins, Inserts, Deletes, Clean

\* A clean row was there before, or its upsert has just committed.
LEMMA CleanDb ==
  ASSUME NEW c \in Chunks, NEW w \in Upserts, NotPending, Cases, db'[c] = w, CleanNext(w)
  PROVE  w \notin poisoned /\ ((Clean(w) /\ db[c] = w) \/ Finishes(w))
<1>1. Moves(w) /\ Remembers /\ DbMoves
  BY DEF Cases
<1>2. w \notin poisoned /\ (Clean(w) \/ Finishes(w))
  BY <1>1, NewlyClean
<1>3. CASE Clean(w)
  BY <1>1, <1>2, <1>3, RowMoves DEF NotPending, CleanRow
<1> QED
  BY <1>2, <1>3

\* In a run without company no other upsert finishes while one is writing.
LEMMA FinishesAlone ==
  ASSUME OneAtATime, NEW u \in Upserts, NEW w \in Upserts, RunOf[u] = RunOf[w],
         u \notin raced, pc[u] \in Writing, Finishes(w)
  PROVE  u = w
BY DEF OneAtATime, InFlight, Writing, Finishes

\* Every step keeps a run's clean rows of one version.
LEMMA VersionStep ==
  ASSUME TypeInv, TypeInv', StoreInv, VersionInv, [Next]_vars
  PROVE  VersionInv'
<1>n. NothingYet /\ Known /\ AtHome /\ OneAtATime /\ NotPending /\ OwnOnly /\ Covers /\ OneClean
  BY DEF StoreInv, VersionInv
<1>c. Cases
  BY <1>n, StepCases
<1>m. /\ \A k \in Conns : ConnMoves(k)
      /\ \A u \in Upserts : Moves(u)
      /\ Remembers /\ DbMoves
  BY <1>c DEF Cases
<1>s. \A u \in Upserts :
         /\ sent[u] \in Nat /\ SizeOf[u] \in Nat
         /\ \A n \in 1..SizeOf[u] : <<RunOf[u], n>> \in ChunksOf(u)
         /\ ChunksOf(u) \subseteq ChunksOfRun(RunOf[u]) /\ ChunksOf(u) \subseteq Chunks
         /\ ChunksOfRun(RunOf[u]) \subseteq Chunks
  BY SizeFacts DEF TypeInv, TypeOK, ChunksOf
<1>w. \A u \in Upserts : pc[u] \in Writing =>
         using[u] \in Conns /\ using[u] # opened + 1 /\ ConnMoves(using[u])
  BY <1>m, WriterConn
<1>p. "none" \notin Upserts /\ "same" \notin Upserts
  BY Placeholders
<1>1. AtHome'
  <2>1. ASSUME NEW k \in Conns, NEW c \in Chunks, conn'[k].pending[c] \in Upserts
        PROVE  c \in ChunksOf(conn'[k].pending[c])
    <3>1. CASE conn'[k].pending[c] \in {conn[k].pending[c], "same", "none"}
      BY <2>1, <3>1, <1>n, <1>p DEF AtHome
    <3>2. ASSUME NEW u \in Upserts, Inserts(u), c = <<RunOf[u], sent[u] + 1>>,
                 conn'[k].pending[c] = u
          PROVE  c \in ChunksOf(conn'[k].pending[c])
      <4>1. sent[u] < SizeOf[u]
        BY <3>2 DEF Inserts, TypeInv, Ways, WayOf
      <4> QED
        BY <3>2, <4>1, <1>s
    <3> QED
      BY <3>1, <3>2, <1>m, PendingMoves
  <2>2. ASSUME NEW c \in Chunks, db'[c] \in Upserts
        PROVE  c \in ChunksOf(db'[c])
    BY <2>2, <1>n, <1>m, RowMoves DEF AtHome
  <2> QED
    BY <2>1, <2>2 DEF AtHome, ChunksOf
<1>2. OneAtATime'
  BY <1>n, <1>c DEF Cases, Meets, Remembers, OneAtATime
<1>3. NotPending'
  <2> SUFFICES ASSUME NEW k \in Conns, NEW c \in Chunks, NEW w \in Upserts,
                      conn'[k].pending[c] = w, CleanNext(w)
               PROVE  FALSE
    BY DEF NotPending, CleanRow, Clean, CleanNext
  <2>1. conn[k].pending[c] = w
    <3>1. ASSUME NEW u \in Upserts, Inserts(u), conn'[k].pending[c] = u PROVE FALSE
      BY <3>1 DEF Inserts, CleanNext
    <3> QED
      BY <3>1, <1>m, <1>p, PendingMoves
  <2>2. ~Clean(w)
    BY <2>1, <1>n DEF NotPending, CleanRow
  <2>3. Finishes(w)
    BY <2>2, <1>m, NewlyClean
  <2>4. CASE k = using[w]
    <3>1. conn'[k].pending[c] = "same"
      BY <2>3, <2>4 DEF Finishes, Committed, Emptied, NoChange
    <3> QED
      BY <3>1, <1>p
  <2>5. CASE k # using[w]
    <3>1. pc[w] \in Writing /\ sent[w] = SizeOf[w]
      BY <2>3 DEF Finishes, Writing, TypeInv, Ways, WayOf
    <3>2. c \in ChunksOf(w)
      BY <2>1, <1>n DEF AtHome
    <3>3. PICK n \in 1..sent[w] : c = <<RunOf[w], n>>
      BY <3>1, <3>2 DEF ChunksOf
    <3> QED
      BY <2>1, <2>5, <3>1, <3>3, <1>n DEF OwnOnly
  <2> QED
    BY <2>4, <2>5
<1>4. OwnOnly'
  <2> SUFFICES ASSUME NEW u \in Upserts, pc'[u] \in Writing, NEW k \in Conns \ {using'[u]},
                      NEW n \in 1..sent'[u], conn'[k].pending[<<RunOf[u], n>>] = u
               PROVE  FALSE
    BY DEF OwnOnly
  <2> DEFINE c == <<RunOf[u], n>>
  <2>1. n \in 1..SizeOf[u] /\ n \in Nat
    <3>1. sent'[u] \in Nat /\ sent'[u] <= SizeOf[u] /\ SizeOf[u] \in Nat
      BY <1>s DEF TypeInv, TypeOK
    <3> QED
      BY <3>1
  <2>2. c \in Chunks
    BY <2>1, <1>s
  <2>3. conn[k].pending[c] = u
    <3>1. ASSUME NEW v \in Upserts, Inserts(v), using[v] = k, conn'[k].pending[c] = v PROVE FALSE
      BY <3>1 DEF Inserts
    <3> QED
      BY <2>2, <3>1, <1>m, <1>p, PendingMoves
  <2>4. Moves(u)
    BY <1>m
  <2>5. CASE Stays(u) \/ Deletes(u)
    BY <2>3, <2>5, <1>n DEF Stays, Deletes, OwnOnly, Writing
  <2>6. CASE Begins(u)
    BY <2>6 DEF Begins
  <2>7. CASE Inserts(u)
    <3>1. CASE n = sent[u] + 1
      <4>1. conn[k].pending[c] = "same"
        BY <2>7, <3>1 DEF Inserts, Changed
      <4> QED
        BY <2>3, <4>1, <1>p
    <3>2. CASE n # sent[u] + 1
      <4>1. n \in 1..sent[u]
        BY <2>1, <2>7, <3>2, <1>s DEF Inserts
      <4> QED
        BY <2>3, <2>7, <4>1, <1>n DEF Inserts, OwnOnly, Writing
    <3> QED
      BY <3>1, <3>2
  <2>8. CASE Leaves(u) \/ Finishes(u)
    BY <2>8 DEF Leaves, Finishes, Writing
  <2> QED
    BY <2>4, <2>5, <2>6, <2>7, <2>8 DEF Moves
<1>5. Covers'
  <2> SUFFICES ASSUME NEW u \in Upserts, u \notin poisoned', Unraced(RunOf[u])',
                      pc'[u] \in Writing, conn'[using'[u]].tx \notin {"closed", "lost"},
                      NEW c \in Covered(u)', NEW w \in Upserts, db'[c] = w, CleanNext(w)
               PROVE  conn'[using'[u]].pending[c] # "same" /\ u \in conn'[using'[u]].by
    BY DEF Covers, CleanRow, Clean, CleanNext, Gone, Of
  <2>0. c \in ChunksOfRun(RunOf[u]) /\ c \in Chunks
    <3>1. sent'[u] <= SizeOf[u] /\ sent'[u] \in Nat /\ SizeOf[u] <= MaxSize /\ MaxSize \in Nat
      BY SizeFacts DEF TypeInv, TypeOK
    <3>2. c \in ChunksOfRun(RunOf[u])
      BY <3>1, <1>s DEF Covered, ChunksOfRun
    <3> QED
      BY <3>2, <1>s
  <2>1. u \notin poisoned /\ Unraced(RunOf[u]) /\ u \notin raced
    BY <1>m DEF Remembers, Unraced, Writing
  <2>2. RunOf[w] = RunOf[u]
    <3>1. c \in ChunksOf(w)
      BY <2>0, <1>1 DEF AtHome, ChunksOf
    <3> QED
      BY <2>0, <3>1 DEF ChunksOf, ChunksOfRun
  <2>3. ASSUME pc[u] \in Writing PROVE Clean(w) /\ db[c] = w
    <3>1. u # w
      BY DEF CleanNext, Writing
    <3> QED
      BY <2>0, <2>1, <2>2, <2>3, <3>1, <1>n, <1>c, CleanDb, FinishesAlone
  <2>4. Moves(u)
    BY <1>m
  <2>5. CASE Stays(u)
    <3> DEFINE k == using[u]
    <3>1. /\ pc[u] \in Writing /\ pc'[u] = pc[u] /\ using'[u] = k /\ c \in Covered(u)
          /\ conn'[k].tx \notin {"closed", "lost"}
      BY <2>5 DEF Stays, Covered
    <3>2. k \in Conns /\ k # opened + 1 /\ ConnMoves(k)
      BY <3>1, <1>w
    <3>3. ~Gone(u)
      BY <3>1, <3>2, GoneStays DEF Gone, Of
    <3>4. Clean(w) /\ db[c] = w
      BY <2>3, <3>1
    <3>5. conn[k].pending[c] # "same" /\ u \in conn[k].by
      BY <2>1, <3>1, <3>3, <3>4, <1>n DEF Covers, CleanRow, Of
    <3>6. CASE conn'[k] = conn[k]
      BY <3>1, <3>5, <3>6
    <3>7. CASE \E tx \in {"closed", "lost"} : conn'[k] = Emptied(tx)
      BY <3>1, <3>7 DEF Emptied
    <3>8. CASE conn[k].by \subseteq poisoned'
      BY <3>5, <3>8
    <3>9. CASE Committed(k)
      <4>1. conn[k].pending[c] = w
        BY <2>0, <3>5, <3>9 DEF Committed
      <4> QED
        BY <2>0, <3>2, <3>4, <4>1, <1>n DEF NotPending, CleanRow
    <3>10. CASE \E t \in Threads, chunks \in SUBSET Chunks : Changed(k, t, chunks, "none")
      BY <2>0, <3>1, <3>5, <3>10 DEF Changed
    <3>11. ASSUME NEW v \in Upserts, Inserts(v), using[v] = k
           PROVE  conn'[k].pending[c] # "same" /\ u \in conn'[k].by
      <4>1. Changed(k, v, {<<RunOf[v], sent[v] + 1>>}, v)
        BY <3>11 DEF Inserts
      <4> QED
        BY <2>0, <3>5, <4>1, <1>p DEF Changed
    <3>12. conn'[k].pending[c] # "same" /\ u \in conn'[k].by
      BY <3>1, <3>2, <3>6, <3>7, <3>8, <3>9, <3>10, <3>11 DEF ConnMoves
    <3> QED
      BY <3>1, <3>12
  <2>6. CASE Begins(u)
    BY <2>6 DEF Begins, Covered
  <2>7. CASE Inserts(u)
    <3> DEFINE k == using[u]
    <3>1. /\ pc[u] = "insert" /\ using'[u] = k /\ sent'[u] = sent[u] + 1
          /\ Changed(k, u, {<<RunOf[u], sent[u] + 1>>}, u)
      BY <2>7 DEF Inserts
    <3>2. u \in conn'[k].by
      BY <3>1 DEF Changed
    <3>3. PICK n \in 1..(sent[u] + 1) : c = <<RunOf[u], n>>
      <4>1. CASE pc'[u] = "insert"
        BY <3>1, <4>1 DEF Covered
      <4>2. CASE pc'[u] = "delete"
        <5>1. sent'[u] = SizeOf[u]
          BY <4>2 DEF TypeInv, Ways, WayOf
        <5> QED
          BY <3>1, <4>2, <5>1 DEF Covered, ChunksOf
      <4> QED
        BY <2>7, <4>1, <4>2 DEF Inserts
    <3>4. CASE n = sent[u] + 1
      BY <2>0, <3>1, <3>2, <3>3, <3>4, <1>p DEF Changed
    <3>5. CASE n # sent[u] + 1
      <4>1. c \in Covered(u)
        BY <3>1, <3>3, <3>5, <1>s DEF Covered
      <4>2. ~Gone(u) /\ pc[u] \in Writing
        BY <3>1 DEF Changed, Gone, Of, Writing
      <4>3. conn[k].pending[c] # "same"
        BY <2>1, <2>3, <4>1, <4>2, <1>n DEF Covers, CleanRow, Of
      <4> QED
        BY <2>0, <3>1, <3>2, <4>3, <1>p DEF Changed
    <3> QED
      BY <3>4, <3>5
  <2>8. CASE Deletes(u)
    <3> DEFINE k == using[u]
    <3>1. /\ pc[u] = "delete" /\ using'[u] = k /\ Changed(k, u, Stale(u), "none")
      BY <2>8 DEF Deletes
    <3>2. ~Gone(u) /\ pc[u] \in Writing /\ u \in conn'[k].by
      BY <3>1 DEF Changed, Gone, Of, Writing
    <3>3. Clean(w) /\ db[c] = w
      BY <2>3, <3>2
    <3>4. conn'[k].pending[c] = IF c \in Stale(u) THEN "none" ELSE conn[k].pending[c]
      BY <2>0, <3>1 DEF Changed
    <3>5. CASE conn[k].pending[c] # "same"
      BY <3>1, <3>2, <3>4, <3>5
    <3>6. CASE conn[k].pending[c] = "same"
      <4>1. c \notin ChunksOf(u)
        BY <2>1, <3>1, <3>2, <3>3, <3>6, <1>n DEF Covers, Covered, CleanRow, Of
      <4>2. Seen(u)[c] = w
        BY <2>0, <3>3, <3>6 DEF Seen, Of
      <4>3. c \in Stale(u)
        BY <2>0, <4>1, <4>2, <1>p DEF Stale, ChunksOfRun
      <4> QED
        BY <3>1, <3>2, <3>4, <4>3
    <3> QED
      BY <3>5, <3>6
  <2>9. CASE Leaves(u) \/ Finishes(u)
    BY <2>9 DEF Leaves, Finishes, Writing
  <2> QED
    BY <2>4, <2>5, <2>6, <2>7, <2>8, <2>9 DEF Moves
<1>6. OneClean'
  <2> SUFFICES ASSUME NEW r \in Runs, Unraced(r)', NEW c \in ChunksOfRun(r), NEW d \in ChunksOfRun(r),
                      NEW v \in Upserts, NEW w \in Upserts, db'[c] = v, db'[d] = w,
                      CleanNext(v), CleanNext(w)
               PROVE  v = w
    BY DEF OneClean, CleanRow, Clean, CleanNext, ChunksOfRun
  <2>0. c \in Chunks /\ d \in Chunks
    BY SizeFacts
  <2>1. RunOf[v] = r /\ RunOf[w] = r
    <3>1. c \in ChunksOf(v) /\ d \in ChunksOf(w)
      BY <2>0, <1>1 DEF AtHome, ChunksOf
    <3> QED
      BY <3>1 DEF ChunksOf, ChunksOfRun
  <2>2. Unraced(r)
    BY <1>m DEF Remembers, Unraced
  <2>3. /\ v \notin poisoned /\ ((Clean(v) /\ db[c] = v) \/ Finishes(v))
        /\ w \notin poisoned /\ ((Clean(w) /\ db[d] = w) \/ Finishes(w))
    BY <2>0, <1>n, <1>c, CleanDb
  <2>4. ASSUME NEW x \in Upserts, NEW y \in Upserts, NEW e \in ChunksOfRun(r), e \in Chunks,
               RunOf[x] = r, x \notin poisoned, Finishes(x), db'[e] = y, Clean(y), db[e] = y
        PROVE  FALSE
    <3> DEFINE k == using[x]
    <3>1. pc[x] = "commit" /\ pc[x] \in Writing /\ Committed(k) /\ ~Gone(x)
      BY <2>4 DEF Finishes, Writing, Committed, Gone, Of
    <3>2. e \in Covered(x)
      BY <2>4, <3>1 DEF Covered
    <3>3. conn[k].pending[e] # "same"
      BY <2>2, <2>4, <3>1, <3>2, <1>n DEF Covers, CleanRow, Of
    <3>4. conn[k].pending[e] = y
      BY <2>4, <3>1, <3>3 DEF Committed
    <3> QED
      BY <2>4, <3>1, <3>4, <1>n, <1>w DEF NotPending, CleanRow
  <2>5. CASE Clean(v) /\ db[c] = v /\ Clean(w) /\ db[d] = w
    BY <2>2, <2>5, <1>n DEF OneClean, CleanRow
  <2>6. CASE Finishes(v) /\ Finishes(w)
    BY <2>1, <2>2, <2>6, <1>n, FinishesAlone DEF Unraced, Finishes, Writing
  <2>7. CASE Finishes(v) /\ Clean(w) /\ db[d] = w
    BY <2>0, <2>1, <2>3, <2>4, <2>7
  <2>8. CASE Finishes(w) /\ Clean(v) /\ db[c] = v
    BY <2>0, <2>1, <2>3, <2>4, <2>8
  <2> QED
    BY <2>3, <2>5, <2>6, <2>7, <2>8
<1> QED
  BY <1>1, <1>2, <1>3, <1>4, <1>5, <1>6 DEF VersionInv

\* The rows a clean run shows come from one upsert.
LEMMA VersionIsOne == TypeInv /\ AtHome /\ OneClean => RunIsOneVersion
<1> SUFFICES ASSUME TypeInv, AtHome, OneClean, NEW r \in Runs,
                    \A u \in Upserts : RunOf[u] = r =>
                       pc[u] \in {"none", "ok"} /\ u \notin raced \union poisoned
             PROVE  Cardinality({db[c] : c \in ChunksOfRun(r)} \ {"none"}) <= 1
  BY DEF RunIsOneVersion, ChunksOfRun
<1> DEFINE rows == {db[c] : c \in ChunksOfRun(r)} \ {"none"}
<1>1. \A c \in ChunksOfRun(r) : db[c] # "none" => CleanRow(db[c])
  <2> SUFFICES ASSUME NEW c \in ChunksOfRun(r), db[c] # "none" PROVE CleanRow(db[c])
    OBVIOUS
  <2>1. c \in Chunks /\ db[c] \in Upserts
    BY SizeFacts DEF TypeInv, TypeOK, Rows
  <2>2. RunOf[db[c]] = r
    BY <2>1 DEF AtHome, ChunksOf, ChunksOfRun
  <2> QED
    BY <2>1, <2>2 DEF CleanRow, Clean
<1>2. Unraced(r)
  BY DEF Unraced
<1>3. \A x, y \in rows : x = y
  BY <1>1, <1>2 DEF OneClean
<1>4. CASE rows = {}
  BY <1>4, FS_EmptySet
<1>5. CASE rows # {}
  <2>1. PICK x \in rows : rows = {x}
    BY <1>3, <1>5
  <2> HIDE DEF rows
  <2>2. Cardinality(rows) = 1
    BY <2>1, FS_Singleton
  <2> QED
    BY <2>2 DEF rows
<1> QED
  BY <1>4, <1>5

\* RunIsOneVersion: once every upsert of a run is answered, and none had
\* company or was poisoned, the run's rows all come from one of them,
\* whatever the commits and rollbacks of other threads published early.
THEOREM RunRowsAreOneVersion == Spec => []RunIsOneVersion
<1>1. Init => TypeInv /\ StoreInv /\ VersionInv
  BY TypeInit, StoreInit, VersionInit
<1>2. TypeInv /\ StoreInv /\ VersionInv /\ [Next]_vars => TypeInv' /\ StoreInv' /\ VersionInv'
  BY TypeStep, StoreStep, VersionStep
<1>3. TypeInv /\ VersionInv => RunIsOneVersion
  BY VersionIsOne DEF VersionInv
<1> QED
  BY <1>1, <1>2, <1>3, PTL DEF Spec
=============================================================================
