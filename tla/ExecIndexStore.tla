--------------------------- MODULE ExecIndexStore ---------------------------
(***************************************************************************)
(* The exec-index service.  Requests run in threads of one process, and    *)
(* every thread talks to Postgres over the same module-global connection,  *)
(* opened when first needed and dropped on any error: the threads share    *)
(* its transaction, its error state and its end.  psycopg lets one         *)
(* statement at a time onto the connection.                                *)
(*                                                                         *)
(* Source: exec_index_store.py and the routes of exec_index_service.py.    *)
(***************************************************************************)
EXTENDS Naturals, FiniteSets

CONSTANTS
    Runs,
    Upserts,      \* POST /executions requests, each with chunks of its own
    RunOf,        \* RunOf[u]: the run u indexes
    SizeOf,       \* SizeOf[u]: how many chunks it brings
    Readers,      \* requests that read: search, count, status
    Pruner,       \* the retention sweep
    MaxConns,     \* bound: connections ever opened
    MaxMishaps    \* bound: failed statements, lost connections, dead services
ASSUME StoreAssumption ==
    /\ RunOf \in [Upserts -> Runs]
    /\ SizeOf \in [Upserts -> Nat \ {0}]
    \* ... one of them brings the most chunks.
    /\ \E u \in Upserts : \A v \in Upserts : SizeOf[v] <= SizeOf[u]
    \* Every request is of one kind.
    /\ Upserts \intersect Readers = {} /\ Pruner \notin Upserts \union Readers
    /\ {"none", "same"} \intersect (Upserts \union Readers \union {Pruner}) = {}
    /\ MaxConns \in Nat /\ MaxMishaps \in Nat

VARIABLES
    table,        \* the schema exists
    service,      \* "starting", "up"
    pc,           \* pc[t]: where request t stands
    using,        \* using[t]: the connection it was given
    sent,         \* sent[u]: chunks u has inserted
    global,       \* _conn: a connection, or 0
    conn,         \* conn[k]: state, pending changes and writers of connection k
    opened,       \* connections opened so far
    db,           \* committed rows: db[c] is the upsert chunk c came from
    mishaps,
    durable,      \* history: <<u, c>>: u's chunk c was committed
    poisoned,     \* history: upserts with a statement in an aborted transaction
    raced         \* history: upserts that had company on their run

pastVars == <<durable, poisoned, raced>>
vars == <<table, service, pc, using, sent, global, conn, opened, db, mishaps, pastVars>>

Threads == Upserts \union Readers \union {Pruner}
Conns   == 1..MaxConns
MaxSize == CHOOSE n \in {SizeOf[u] : u \in Upserts} : \A u \in Upserts : SizeOf[u] <= n
Chunks  == Runs \X (1..MaxSize)
Rows    == Upserts \union {"none"}

ChunksOf(u) == {RunOf[u]} \X (1..SizeOf[u])

\* What a transaction makes of a chunk: a row, "none", or what it was.
NoChange == [c \in Chunks |-> "same"]
Closed   == [tx |-> "closed", pending |-> NoChange, wrote |-> {}, by |-> {}]
Fresh    == [tx |-> "idle", pending |-> NoChange, wrote |-> {}, by |-> {}]

PCs == {"none", "get", "connect", "take", "insert", "delete", "commit", "select", "age",
        "age commit", "count", "cap", "cap commit", "reset", "drop", "ok", "failed"}

TypeOK ==
    /\ table \in BOOLEAN /\ service \in {"starting", "up"}
    /\ pc \in [Threads -> PCs]
    /\ using \in [Threads -> Conns \union {0}]
    /\ sent \in [Upserts -> Nat] /\ \A u \in Upserts : sent[u] <= SizeOf[u]
    /\ global \in Conns \union {0} /\ opened \in 0..MaxConns
    /\ conn \in [Conns -> [tx : {"closed", "lost", "idle", "open", "error"},
                          pending : [Chunks -> Rows \union {"same"}],
                          wrote : SUBSET (Upserts \X Chunks), by : SUBSET Upserts]]
    /\ \A k \in Conns : conn[k].tx # "open" => conn[k] = [Fresh EXCEPT !.tx = conn[k].tx]
    /\ db \in [Chunks -> Rows]
    /\ mishaps \in 0..MaxMishaps
    /\ durable \subseteq Upserts \X Chunks
    /\ poisoned \subseteq Upserts /\ raced \subseteq Upserts

Init ==
    /\ table = FALSE /\ service = "starting"
    /\ pc = [t \in Threads |-> "none"]
    /\ using = [t \in Threads |-> 0]
    /\ sent = [u \in Upserts |-> 0]
    /\ global = 0
    /\ conn = [k \in Conns |-> Closed]
    /\ opened = 0
    /\ db = [c \in Chunks |-> "none"]
    /\ mishaps = 0
    /\ durable = {} /\ poisoned = {} /\ raced = {}

-----------------------------------------------------------------------------
Mishap == mishaps < MaxMishaps /\ mishaps' = mishaps + 1

Goes(t, from, to) == pc[t] = from /\ pc' = [pc EXCEPT ![t] = to]

\* Request t is answered, and lets go of its connection.
Ends(t, from, to) == Goes(t, from, to) /\ using' = [using EXCEPT ![t] = 0]

InFlight(t) == pc[t] \notin {"none", "ok", "failed"}

Of(t) == conn[using[t]]

\* What request t's statement sees: the table with its transaction's changes.
Seen(t) ==
    [c \in Chunks |-> IF Of(t).pending[c] = "same" THEN db[c] ELSE Of(t).pending[c]]

\* A row another transaction has changed and not committed is locked.
Unlocked(t, chunks) ==
    \A k \in Conns \ {using[t]}, c \in chunks : conn[k].pending[c] = "same"

\* No statement of t gets through: its transaction is aborted already, or its
\* connection is gone.
Refused(t) == Of(t).tx \in {"closed", "lost", "error"} \/ ~table

\* The first step of each kind of request once it has a connection.
First(t) == IF t \in Upserts THEN "insert" ELSE IF t \in Readers THEN "select" ELSE "age"

Statements == {"insert", "delete", "select", "age", "count", "cap"}
CommitSteps == {"commit", "age commit", "cap commit"}

-----------------------------------------------------------------------------
(***************************************************************************)
(* The service.                                                            *)
(***************************************************************************)

\* lifespan: the schema first, tried twelve times; then the service comes up,
\* with the schema or without.
ServiceStarts ==
    /\ service = "starting" /\ service' = "up"
    /\ \/ table' = TRUE /\ UNCHANGED mishaps
       \/ Mishap /\ UNCHANGED table
    /\ UNCHANGED <<pc, using, sent, global, conn, opened, db, pastVars>>

ServiceDies ==
    /\ service = "up" /\ service' = "starting" /\ Mishap
    /\ pc' = [t \in Threads |-> IF InFlight(t) THEN "failed" ELSE pc[t]]
    /\ conn' = [k \in Conns |-> Closed]
    /\ using' = [t \in Threads |-> 0]
    /\ global' = 0
    /\ UNCHANGED <<table, sent, opened, db, pastVars>>

\* A request the secret and the shape of its body let through; an upsert has
\* embedded its chunks before it asks for the connection.
Arrive(t) ==
    LET company == {u \in Upserts \ {t} : t \in Upserts /\ InFlight(u) /\ RunOf[u] = RunOf[t]}
    IN  /\ service = "up" /\ Goes(t, "none", "get")
        /\ raced' = IF company = {} THEN raced ELSE raced \union company \union {t}
        /\ UNCHANGED <<table, service, using, sent, global, conn, opened, db, mishaps,
                       durable, poisoned>>

\* The producer's sweep sends a refused run again, from its first chunk.
Retry(u) ==
    LET company == {w \in Upserts \ {u} : InFlight(w) /\ RunOf[w] = RunOf[u]}
    IN  /\ service = "up" /\ Goes(u, "failed", "get")
        /\ sent' = [sent EXCEPT ![u] = 0]
        /\ durable' = {w \in durable : w[1] # u}
        /\ poisoned' = poisoned \ {u}
        /\ raced' = IF company = {} THEN raced ELSE raced \union company \union {u}
        /\ UNCHANGED <<table, service, using, global, conn, opened, db, mishaps>>

-----------------------------------------------------------------------------
(***************************************************************************)
(* _get_conn and _reset_conn.                                              *)
(***************************************************************************)
GetConn(t) ==
    /\ Goes(t, "get", IF global # 0 /\ conn[global].tx # "closed" THEN "take" ELSE "connect")
    /\ UNCHANGED <<table, service, using, sent, global, conn, opened, db, mishaps, pastVars>>

\* Two threads may both have found none: the last one to connect stays global.
Connect(t) ==
    /\ opened < MaxConns /\ opened' = opened + 1
    /\ Goes(t, "connect", "take")
    /\ conn' = [conn EXCEPT ![opened'] = Fresh]
    /\ global' = opened'
    /\ UNCHANGED <<table, service, using, sent, db, mishaps, pastVars>>

\* What is returned is _conn as it is by now: another thread's connection, a
\* closed one, or None, whose execute raises.
TakeConn(t) ==
    /\ Goes(t, "take", IF global = 0 THEN "reset" ELSE First(t))
    /\ using' = [using EXCEPT ![t] = global]
    /\ UNCHANGED <<table, service, sent, global, conn, opened, db, mishaps, pastVars>>

\* An upsert asks for the connection outside its try: nothing is reset.
ConnectFails(t) ==
    /\ Mishap /\ Goes(t, "connect", IF t \in Upserts THEN "failed" ELSE "reset")
    /\ UNCHANGED <<table, service, using, sent, global, conn, opened, db, pastVars>>

\* The global connection is closed under whoever uses it, even when it is not
\* the one this thread failed on ...
CloseConn(t) ==
    /\ Goes(t, "reset", "drop")
    /\ conn' = IF global = 0 THEN conn ELSE [conn EXCEPT ![global] = Closed]
    /\ UNCHANGED <<table, service, using, sent, global, opened, db, mishaps, pastVars>>

\* ... and then forgotten, or the one another thread has opened meanwhile is.
DropConn(t) ==
    /\ Ends(t, "drop", IF t \in Upserts THEN "failed" ELSE "ok")
    /\ global' = 0
    /\ UNCHANGED <<table, service, sent, conn, opened, db, mishaps, pastVars>>

-----------------------------------------------------------------------------
(***************************************************************************)
(* What goes wrong under a statement or a commit.                          *)
(***************************************************************************)

\* The server answers an error: the transaction is aborted, with the rows that
\* any thread put into it.
StatementFails(t) ==
    /\ Mishap
    /\ \E step \in Statements : Goes(t, step, "reset")
    /\ ~Refused(t)
    /\ conn' = [conn EXCEPT ![using[t]] = [Fresh EXCEPT !.tx = "error"]]
    /\ poisoned' = poisoned \union Of(t).by
    /\ UNCHANGED <<table, service, using, sent, global, opened, db, durable, raced>>

\* A statement that finds no table aborts its transaction too.
StatementRefused(t) ==
    /\ \E step \in Statements : Goes(t, step, "reset")
    /\ Refused(t)
    /\ conn' = IF Of(t).tx \in {"closed", "lost"} THEN conn
               ELSE [conn EXCEPT ![using[t]] = [Fresh EXCEPT !.tx = "error"]]
    /\ UNCHANGED <<table, service, using, sent, global, opened, db, mishaps, pastVars>>

\* (On a connection lost while no transaction was open, commit() may do nothing
\* instead: there is nothing to lose then.)
CommitRefused(t) ==
    /\ \E step \in CommitSteps : Goes(t, step, "reset")
    /\ Of(t).tx \in {"closed", "lost"}
    /\ UNCHANGED <<table, service, using, sent, global, conn, opened, db, mishaps, pastVars>>

\* The server drops a connection; nobody knows before its next use.
ConnectionLost(k) ==
    /\ Mishap /\ conn[k].tx # "closed"
    /\ conn' = [conn EXCEPT ![k] = [Closed EXCEPT !.tx = "lost"]]
    /\ UNCHANGED <<table, service, pc, using, sent, global, opened, db, pastVars>>

-----------------------------------------------------------------------------
(***************************************************************************)
(* upsert_chunks.                                                          *)
(***************************************************************************)

\* A statement of t takes effect: its transaction, begun by whichever thread
\* came first, holds the change until some thread commits.
Changes(t, chunks, row) ==
    /\ ~Refused(t) /\ Unlocked(t, chunks)
    /\ conn' = [conn EXCEPT ![using[t]] =
          [tx |-> "open",
           pending |-> [c \in Chunks |-> IF c \in chunks THEN row ELSE @.pending[c]],
           wrote |-> IF row = t THEN @.wrote \union ({t} \X chunks) ELSE @.wrote,
           by |-> @.by \union ({t} \intersect Upserts)]]

\* conn.commit(): the whole transaction becomes visible, whoever's it was.
\* In an aborted one the server answers ROLLBACK and commit() does not raise;
\* with none open it does nothing.
Commits(t) ==
    /\ Of(t).tx \notin {"closed", "lost"}
    /\ conn' = [conn EXCEPT ![using[t]] = Fresh]
    /\ durable' = durable \union Of(t).wrote
    /\ db' = Seen(t)

\* Mutant of AfterInsert: one chunk too many.
AfterInsertOff(u, n) == IF n <= SizeOf[u] THEN "insert" ELSE "delete"

AfterInsert(u, n) == IF n < SizeOf[u] THEN "insert" ELSE "delete"

InsertChunk(u) ==
    LET n == sent[u] + 1
    IN  /\ sent' = [sent EXCEPT ![u] = n]
        /\ Goes(u, "insert", AfterInsert(u, n))
        /\ Changes(u, {<<RunOf[u], n>>}, u)
        /\ UNCHANGED <<table, service, using, global, opened, db, mishaps, pastVars>>

\* Mutant of Stale: the chunks beyond this call's are left alone.
StaleKept(u) == {}

\* Chunks of the run whose seq is absent from this call.
Stale(u) == {c \in {RunOf[u]} \X (1..MaxSize) : c \notin ChunksOf(u) /\ Seen(u)[c] # "none"}

DeleteStale(u) ==
    /\ Goes(u, "delete", "commit")
    /\ Changes(u, Stale(u), "none")
    /\ UNCHANGED <<table, service, using, sent, global, opened, db, mishaps, pastVars>>

\* Mutant of CommitUpsert: the request is answered first.
CommitUpsertLate(u) ==
    /\ Ends(u, "commit", "ok")
    /\ UNCHANGED <<table, service, sent, global, conn, opened, db, mishaps, pastVars>>

CommitUpsert(u) ==
    /\ Ends(u, "commit", "ok") /\ Commits(u)
    /\ poisoned' = IF Of(u).tx = "error" THEN poisoned \union {u} ELSE poisoned
    /\ UNCHANGED <<table, service, sent, global, opened, mishaps, raced>>

-----------------------------------------------------------------------------
(***************************************************************************)
(* search, count and status; prune.                                        *)
(***************************************************************************)

\* A SELECT begins a transaction as well, and leaves it open.
Select(q) ==
    /\ q \in Readers /\ Ends(q, "select", "ok") /\ Changes(q, {}, "none")
    /\ UNCHANGED <<table, service, sent, global, opened, db, mishaps, pastVars>>

\* Rows committed together carry one timestamp, and go together.
PruneByAge ==
    /\ Goes(Pruner, "age", "age commit")
    /\ \E old \in SUBSET Upserts :
          Changes(Pruner, {c \in Chunks : Seen(Pruner)[c] \in old}, "none")
    /\ UNCHANGED <<table, service, using, sent, global, opened, db, mishaps, pastVars>>

CommitAge ==
    /\ Goes(Pruner, "age commit", "count") /\ Commits(Pruner)
    /\ UNCHANGED <<table, service, using, sent, global, opened, mishaps, poisoned, raced>>

CountRows ==
    /\ \/ Ends(Pruner, "count", "ok")
       \/ Goes(Pruner, "count", "cap") /\ UNCHANGED using
    /\ Changes(Pruner, {}, "none")
    /\ UNCHANGED <<table, service, sent, global, opened, db, mishaps, pastVars>>

\* Down to the cap, oldest first: a run may lose some of its chunks.
PruneByCap ==
    /\ Goes(Pruner, "cap", "cap commit")
    /\ \E excess \in SUBSET {c \in Chunks : Seen(Pruner)[c] # "none"} :
          Changes(Pruner, excess, "none")
    /\ UNCHANGED <<table, service, using, sent, global, opened, db, mishaps, pastVars>>

CommitCap ==
    /\ Ends(Pruner, "cap commit", "ok") /\ Commits(Pruner)
    /\ UNCHANGED <<table, service, sent, global, opened, mishaps, poisoned, raced>>

-----------------------------------------------------------------------------
Next ==
    \/ ServiceStarts \/ ServiceDies
    \/ \E t \in Threads :
          \/ Arrive(t) \/ GetConn(t) \/ Connect(t) \/ ConnectFails(t) \/ TakeConn(t)
          \/ CloseConn(t) \/ DropConn(t)
          \/ StatementFails(t) \/ StatementRefused(t) \/ CommitRefused(t)
    \/ \E u \in Upserts :
          Retry(u) \/ InsertChunk(u) \/ DeleteStale(u) \/ CommitUpsert(u)
    \/ \E q \in Readers : Select(q)
    \/ PruneByAge \/ CommitAge \/ CountRows \/ PruneByCap \/ CommitCap
    \/ \E k \in Conns : ConnectionLost(k)

Spec == Init /\ [][Next]_vars

-----------------------------------------------------------------------------
(***************************************************************************)
(* Safety.                                                                 *)
(***************************************************************************)
Complete(u) == {u} \X ChunksOf(u) \subseteq durable

\* upsert_chunks: "a failed write must not report success".
AcknowledgedIsStored == \A u \in Upserts : pc[u] = "ok" => Complete(u)

\* The same, with the one way out of it named: only the error of another
\* thread's statement, inside the transaction both are in, makes an upsert
\* that was not committed report success.  Resets of the shared connection,
\* orphaned connections, lost ones, prunes and dead services never do.
AcknowledgedUnlessPoisoned ==
    \A u \in Upserts \ poisoned : pc[u] = "ok" => Complete(u)

\* upsert_chunks: "Idempotent AND a full replace": however much of an upsert
\* other threads' commits published early, once all upserts of a run are
\* answered, and none failed or had company, its rows come from one of them.
RunIsOneVersion ==
    \A r \in Runs :
        (\A u \in Upserts : RunOf[u] = r =>
            pc[u] \in {"none", "ok"} /\ sent[u] \in {0, SizeOf[u]}
                /\ u \notin raced \union poisoned)
        => Cardinality({db[c] : c \in {r} \X (1..MaxSize)} \ {"none"}) <= 1
=============================================================================
