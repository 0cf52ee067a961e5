---------------------------- MODULE WarmTurnProofs ----------------------------
(***************************************************************************)
(* Proofs about WarmTurn, for any turns of a session and any bounds: type  *)
(* correctness, what a turn's consumer reads up to the end of its stream,  *)
(* that no run is ended twice, by claude's relay or after an abort, and    *)
(* that the session implements TurnContract.                               *)
(***************************************************************************)
EXTENDS WarmTurn, FiniteSetTheorems, SequenceTheorems, TLAPS

-------------------------------------------------------------------------------
(***************************************************************************)
(* What the relays hold.  The relay of the other CLI does not exist.       *)
(***************************************************************************)
RelayShape ==
    /\ relay.step = "idle" => relay = RelayIdle
    /\ relay.step # "idle" => relay.of \in Turns /\ relay.kind # "none"
    /\ relay.step = "done" => relay.kind = "result"

JobShape ==
    /\ job.step = "idle" => job = Idle
    /\ job.step # "idle" => job.of \in Turns
    /\ job.step = "taken" => job.run = Nobody
    /\ job.held <= job.lines
    /\ job.step \in {"taken", "spawn"} => ~job.live /\ job.held = 0
    /\ job.live => job.step = "run" /\ job.held = 0

OneRelay ==
    /\ cli = "claude" => job = Idle
    /\ cli = "codex" =>
        busy = Nobody /\ out = <<>> /\ relay = RelayIdle /\ said = [t \in Turns |-> 0]

TypeInv == TypeOK /\ RelayShape /\ JobShape /\ OneRelay

(***************************************************************************)
(* The way of a turn through the container: it is fed once, and its result *)
(* is the last that claude says in it.                                     *)
(***************************************************************************)
InFifo(t)  == \E i \in DOMAIN fifo : fifo[i] = t
InOut(t)   == \E i \in DOMAIN out : out[i].of = t /\ out[i].kind # "woken"
InRelay(t) == relay.of = t /\ relay.kind # "woken"
Taken(t)   == busy = t \/ InOut(t) \/ InRelay(t) \/ job.of = t
InBox(t)   == InFifo(t) \/ Taken(t)

Unfed(t) == disp[t] \in {"new", "sent", "naming", "named"}

\* Entries of turn t's own work.
Own(e, t) == e.by = "relay" /\ e.of = t /\ e.kind # "woken"
Shown(t)  == \E r \in Runs : \E i \in DOMAIN stream[r] : Own(stream[r][i], t)
Ended(t)  == \E r \in Runs : \E i \in DOMAIN stream[r] : RelayDone(stream[r][i]) /\ stream[r][i].of = t

FedOnce ==
    /\ \A i, j \in DOMAIN fifo : fifo[i] = fifo[j] => i = j
    /\ \A t \in Turns : Unfed(t) => ~InFifo(t)
    /\ \A t \in Turns : Unfed(t) \/ InFifo(t) => ~Taken(t) /\ ~Shown(t) /\ said[t] = 0

ResultIsLast ==
    /\ \A i \in DOMAIN out : out[i].kind = "result" =>
        /\ busy # out[i].of
        /\ \A j \in DOMAIN out : i < j /\ out[j].of = out[i].of => out[j].kind = "woken"
    /\ relay.kind = "result" => busy # relay.of /\ ~InOut(relay.of)
    /\ \A t \in Turns : Ended(t) => ~InBox(t)

(***************************************************************************)
(* A turn apart has the container to itself from its naming to its result. *)
(***************************************************************************)
Named(t)   == disp[t] \notin {"new", "sent", "naming"}
Naming(t)  == disp[t] \in {"naming", "named"}
OnlyIn(r)  == \A u \in Turns \ {r} : ~InBox(u) /\ ~Naming(u)

Attributed ==
    \A r \in Turns :
        /\ current = r \/ relay.run = r \/ job.run = r => Named(r)
        /\ \A i \in DOMAIN stream[r] :
              IF stream[r][i].by = "relay" THEN Named(r)
                                           ELSE stream[r][i].of = r /\ stream[r][i].kind # "line"

\* What the streams of a turn apart hold of others.
NoneForeign(r) == \A i \in DOMAIN stream[r] : stream[r][i].of # r => stream[r][i].kind = "woken"

ApartAt(r) ==
    /\ disp[r] \notin {"new", "sent"}
    /\ Naming(r) \/ current = r => OnlyIn(r)
    /\ disp[r] = "named" \/ InBox(r) => current = r
    /\ relay.run = r => InRelay(r) \/ relay.kind = "woken"
    /\ InRelay(r) => relay.run = r
    /\ job.run = r => job.of = r
    /\ NoneForeign(r)

Apart == \A r \in apart : ApartAt(r)

(***************************************************************************)
(* The ends of a run.                                                      *)
(***************************************************************************)
EndInv ==
    cli = "claude" =>
        /\ relay.step = "done" => relay.run \notin finalised
        /\ \A r \in Turns : \A i \in DoneAt(r) : stream[r][i].of \notin excused =>
              /\ r \in finalised
              /\ \A j \in DoneAt(r) : stream[r][j].of \notin excused => i = j

SilentInv ==
    \A r \in Turns :
        /\ abort[r] \in {"killed", "told", "over"} => ~Up \/ r \in excused
        /\ (\E i \in DOMAIN stream[r] : stream[r][i].by = "abort") => abort[r] \in {"told", "over"}
        /\ r \notin excused => \A i, j \in DOMAIN stream[r] :
              stream[r][i].by = "abort" /\ i < j => stream[r][j].by # "relay"

(***************************************************************************)
(* The attempts of codex: one that spoke is the last.                      *)
(***************************************************************************)
Line1(e) == e.by = "relay" /\ e.kind = "line"

AttemptInv ==
    cli = "codex" =>
        /\ \A q, r \in Runs : \A i \in DOMAIN stream[q], j \in DOMAIN stream[r] :
              Line1(stream[q][i]) /\ Line1(stream[r][j]) /\ stream[q][i].of = stream[r][j].of
                 => stream[q][i].try = stream[r][j].try
        /\ \A r \in Runs : \A i \in DOMAIN stream[r] :
              Line1(stream[r][i]) /\ stream[r][i].of = job.of =>
                 (job.live \/ job.step = "end") /\ stream[r][i].try = job.attempt

(***************************************************************************)
(* The lines of a turn: what claude said is in the stream, with the relay  *)
(* or on its way there.                                                    *)
(***************************************************************************)
LinesIn(r, n)   == {j \in 1..n : stream[r][j].of = r /\ stream[r][j].kind = "line"}
LinesAll(r)     == LinesIn(r, Len(stream[r]))
LinesOut(r)     == {j \in DOMAIN out : out[j] = Line("line", r)}
LinesRelayed(r) == IF relay.step = "line" /\ relay.of = r /\ relay.kind = "line" THEN 1 ELSE 0

CountAt(r) ==
    /\ Cardinality(LinesAll(r)) + LinesRelayed(r) + Cardinality(LinesOut(r)) = said[r]
    /\ \A i \in DoneAt(r) : Cardinality(LinesIn(r, i)) = said[r]

CountInv == cli = "claude" => \A r \in apart \ excused : CountAt(r)

-------------------------------------------------------------------------------
(***************************************************************************)
(* What the helpers of the model do to streams and queues.                 *)
(***************************************************************************)
NewAt(r, i) == i \in DOMAIN stream'[r] /\ i \notin DOMAIN stream[r]

\* Streams only grow, at their end.
Grows ==
    \A r \in Runs : \A i \in DOMAIN stream[r] :
        i \in DOMAIN stream'[r] /\ stream'[r][i] = stream[r][i]

\* The new entries are all in run q's stream.
Only(q) == \A r \in Runs : r # q => stream'[r] = stream[r]

\* Writing entries to a stream: they follow what is there, in their order.
LEMMA SaysEffect ==
  ASSUME FeedTypeOK, NEW q \in Runs, NEW es \in Seq(Entries), Says(q, es)
  PROVE  /\ stream' \in [Runs -> Seq(Entries)]
         /\ Grows
         /\ Only(q)
         /\ \A r \in Runs, i \in Nat : NewAt(r, i) =>
               r = q /\ i - Len(stream[q]) \in 1..Len(es)
                     /\ stream'[r][i] = es[i - Len(stream[q])]
<1> DEFINE old == stream[q]
           new == old \o es
<1>1. stream \in [Runs -> Seq(Entries)] /\ old \in Seq(Entries)
  BY DEF FeedTypeOK
<1>2. /\ new \in Seq(Entries) /\ Len(new) = Len(old) + Len(es)
      /\ \A i \in 1..(Len(old) + Len(es)) :
            new[i] = IF i <= Len(old) THEN old[i] ELSE es[i - Len(old)]
  BY <1>1, ConcatProperties
<1>3. \A r \in Runs : stream'[r] = IF r = q THEN new ELSE stream[r]
  BY <1>1 DEF Says
<1>4. stream' = [r \in Runs |-> IF r = q THEN new ELSE stream[r]]
  BY <1>1 DEF Says
<1>5. Len(old) \in Nat /\ Len(es) \in Nat /\ DOMAIN old = 1..Len(old)
      /\ DOMAIN new = 1..(Len(old) + Len(es))
  BY <1>1, <1>2, LenProperties
<1> HIDE DEF new
<1>6. stream' \in [Runs -> Seq(Entries)]
  BY <1>1, <1>2, <1>4
<1>7. Only(q)
  BY <1>3 DEF Only
<1>8. Grows
  <2> SUFFICES ASSUME NEW r \in Runs, NEW i \in DOMAIN stream[r]
               PROVE  i \in DOMAIN stream'[r] /\ stream'[r][i] = stream[r][i]
    BY DEF Grows
  <2>1. CASE r # q
    BY <1>3, <2>1
  <2>2. CASE r = q
    <3>1. i \in 1..Len(old) /\ stream'[r] = new /\ stream[r] = old
      BY <1>3, <1>5, <2>2
    <3> HIDE DEF old
    <3>2. i \in 1..(Len(old) + Len(es)) /\ i <= Len(old)
      BY <1>5, <3>1
    <3> QED
      BY <1>2, <1>5, <3>1, <3>2
  <2> QED
    BY <2>1, <2>2
<1>9. ASSUME NEW r \in Runs, NEW i \in Nat, NewAt(r, i)
      PROVE  r = q /\ i - Len(stream[q]) \in 1..Len(es)
                   /\ stream'[r][i] = es[i - Len(stream[q])]
  <2>1. r = q
    BY <1>3, <1>9 DEF NewAt
  <2>2. i \in DOMAIN new /\ i \notin DOMAIN old /\ stream'[r] = new
    BY <1>3, <1>9, <2>1 DEF NewAt
  <2> HIDE DEF old
  <2>3. i \in 1..(Len(old) + Len(es)) /\ ~(i <= Len(old))
    BY <1>5, <1>9, <2>2
  <2>4. i - Len(old) \in 1..Len(es) /\ stream'[r][i] = es[i - Len(old)]
    BY <1>2, <1>5, <2>2, <2>3
  <2> QED
    BY <2>1, <2>4 DEF old
<1> QED
  BY <1>6, <1>7, <1>8, <1>9

\* Nothing is said.
LEMMA SilentEffect ==
  ASSUME FeedTypeOK, UNCHANGED stream
  PROVE  /\ stream' \in [Runs -> Seq(Entries)] /\ Grows
         /\ \A r \in Runs, i \in Nat : ~NewAt(r, i)
BY DEF FeedTypeOK, Grows, NewAt

\* One entry is said.
LEMMA SaysOneEffect ==
  ASSUME FeedTypeOK, NEW q \in Runs, NEW e \in Entries, Says(q, <<e>>)
  PROVE  /\ stream' \in [Runs -> Seq(Entries)]
         /\ Grows
         /\ Only(q)
         /\ Len(stream'[q]) = Len(stream[q]) + 1
         /\ \A r \in Runs, i \in Nat : NewAt(r, i) =>
               r = q /\ i = Len(stream[q]) + 1 /\ stream'[r][i] = e
<1>1. <<e>> \in Seq(Entries) /\ Len(<<e>>) = 1 /\ <<e>>[1] = e
  OBVIOUS
<1>2. stream[q] \in Seq(Entries) /\ Len(stream[q]) \in Nat
  BY LenProperties DEF FeedTypeOK
<1>3. stream'[q] = stream[q] \o <<e>>
  BY DEF Says, FeedTypeOK
<1>4. Len(stream'[q]) = Len(stream[q]) + 1
  BY <1>1, <1>2, <1>3, ConcatProperties
<1>5. \A r \in Runs, i \in Nat : NewAt(r, i) =>
        r = q /\ i - Len(stream[q]) \in 1..Len(<<e>>) /\ stream'[r][i] = <<e>>[i - Len(stream[q])]
  BY <1>1, SaysEffect
<1>6. ASSUME NEW r \in Runs, NEW i \in Nat, NewAt(r, i)
      PROVE  r = q /\ i = Len(stream[q]) + 1 /\ stream'[r][i] = e
  <2>1. r = q /\ i - Len(stream[q]) \in 1..1 /\ stream'[r][i] = <<e>>[i - Len(stream[q])]
    BY <1>1, <1>5, <1>6
  <2>2. i - Len(stream[q]) = 1
    BY <2>1
  <2>3. i = Len(stream[q]) + 1
    BY <1>2, <2>2
  <2> QED
    BY <1>1, <2>1, <2>2, <2>3
<1> QED
  BY <1>1, <1>4, <1>6, SaysEffect

\* A prompt goes into the FIFO.
LEMMA AppendEffect ==
  ASSUME NEW S, NEW q \in Seq(S), NEW x \in S, NEW p, p = Append(q, x)
  PROVE  /\ p \in Seq(S) /\ Len(p) = Len(q) + 1 /\ Len(q) \in Nat
         /\ DOMAIN p = 1..(Len(q) + 1) /\ DOMAIN q = 1..Len(q)
         /\ \A i \in 1..Len(q) : p[i] = q[i]
         /\ p[Len(q) + 1] = x
BY AppendProperties, LenProperties

\* The head of a queue is taken.
LEMMA TailEffect ==
  ASSUME NEW S, NEW q \in Seq(S), q # <<>>, NEW p, p = Tail(q)
  PROVE  /\ Head(q) = q[1] /\ Head(q) \in S /\ p \in Seq(S)
         /\ Len(q) \in Nat \ {0} /\ DOMAIN q = 1..Len(q)
         /\ DOMAIN p = 1..(Len(q) - 1)
         /\ \A i \in 1..(Len(q) - 1) : p[i] = q[i + 1]
<1>1. Len(q) \in Nat \ {0} /\ DOMAIN q = 1..Len(q)
  BY EmptySeq, LenProperties
<1>2. Head(q) \in S /\ Tail(q) \in Seq(S) /\ Len(Tail(q)) = Len(q) - 1
      /\ \A i \in 1..Len(Tail(q)) : Tail(q)[i] = q[i + 1]
  BY HeadTailProperties
<1>3. Head(q) = q[1]
  OBVIOUS
<1>4. DOMAIN p = 1..(Len(q) - 1)
  BY <1>1, <1>2, LenProperties
<1> QED
  BY <1>1, <1>2, <1>3, <1>4

\* A step counts a mishap and excuses turns, or does neither.
LEMMA FaultEffect ==
  ASSUME FeedTypeOK, NEW hit \in SUBSET Turns, Fault(hit) \/ NoFault
  PROVE  /\ mishaps' \in 0..MaxMishaps
         /\ excused' \in SUBSET Turns /\ excused \subseteq excused'
         /\ Fault(hit) => hit \subseteq excused'
BY TurnFeedAssumption DEF FeedTypeOK, Fault, NoFault, Mishap

\* The lines of an attempt.
LEMMA OutputIs ==
  ASSUME TypeInv, job.of \in Turns, NEW n \in Nat
  PROVE  /\ Output(n) \in Seq(Entries) /\ Len(Output(n)) = n
         /\ \A i \in 1..n : Output(n)[i] = Entry("relay", "line", job.of, job.attempt)
<1>1. Entry("relay", "line", job.of, job.attempt) \in Entries
  BY DEF TypeInv, TypeOK, CodexTypeOK, Jobs, MaxAttempts, Entry, Entries
<1>2. \A i \in 1..n : Output(n)[i] \in Entries
  BY <1>1 DEF Output
<1>3. Output(n) = [i \in 1..n |-> Output(n)[i]]
  BY DEF Output
<1>4. Output(n) \in Seq(Entries) /\ Len(Output(n)) = n
  BY <1>2, <1>3, IsASeq, LenProperties DEF Output
<1> QED
  BY <1>4 DEF Output

\* What codex's relay publishes of an attempt, one entry refused or none.
LEMMA PublishesEffect ==
  ASSUME TypeInv, job.of \in Turns, NEW n \in Nat, Publishes(Output(n))
  PROVE  /\ stream' \in [Runs -> Seq(Entries)]
         /\ Grows
         /\ Only(job.run)
         /\ \A r \in Runs, i \in Nat : NewAt(r, i) =>
               r = job.run /\ stream'[r][i] = Entry("relay", "line", job.of, job.attempt)
         /\ mishaps' \in 0..MaxMishaps
         /\ excused' \in SUBSET Turns /\ excused \subseteq excused'
<1> DEFINE o == Output(n)
           e == Entry("relay", "line", job.of, job.attempt)
<1>1. o \in Seq(Entries) /\ Len(o) = n /\ \A i \in 1..n : o[i] = e
  BY OutputIs
<1>2. job.run \in Runs /\ FeedTypeOK
  BY DEF TypeInv, TypeOK, CodexTypeOK, Jobs
<1>3. PICK es \in Seq(Entries) : Says(job.run, es) /\ \A i \in 1..Len(es) : es[i] = e
  <2>1. CASE NoFault /\ Says(job.run, o)
    BY <1>1, <2>1
  <2>2. CASE o # <<>> /\ Fault({job.of}) /\ Says(job.run, Tail(o))
    <3> DEFINE p == Tail(o)
    <3>1. /\ p \in Seq(Entries) /\ DOMAIN p = 1..(Len(o) - 1)
          /\ \A i \in 1..(Len(o) - 1) : p[i] = o[i + 1]
      BY <1>1, <2>2, TailEffect
    <3>2. Len(p) \in Nat /\ DOMAIN p = 1..Len(p)
      BY <3>1, LenProperties
    <3> HIDE DEF p, o, e
    <3>3. ASSUME NEW i \in 1..Len(p)  PROVE p[i] = e
      <4>1. i \in 1..(n - 1)
        BY <1>1, <3>1, <3>2
      <4>2. i + 1 \in 1..n
        BY <4>1
      <4> QED
        BY <1>1, <3>1, <4>1, <4>2
    <3> QED
      BY <2>2, <3>1, <3>3 DEF p
  <2> QED
    BY <2>1, <2>2 DEF Publishes
<1>4. ASSUME NEW r \in Runs, NEW i \in Nat, NewAt(r, i)
      PROVE  r = job.run /\ stream'[r][i] = e
  <2>1. r = job.run /\ i - Len(stream[job.run]) \in 1..Len(es)
        /\ stream'[r][i] = es[i - Len(stream[job.run])]
    BY <1>2, <1>3, <1>4, SaysEffect
  <2> QED
    BY <1>3, <2>1
<1>5. Fault({job.of}) \/ NoFault
  BY DEF Publishes
<1> QED
  BY <1>2, <1>3, <1>4, <1>5, SaysEffect, FaultEffect

-------------------------------------------------------------------------------
(***************************************************************************)
(* Type correctness.                                                       *)
(***************************************************************************)
LEMMA InitType ==
  ASSUME Init  PROVE TypeInv
<1>1. FeedTypeOK
  <2>1. <<>> \in Seq(Entries) /\ <<>> \in Seq(Turns)
    OBVIOUS
  <2>2. stream \in [Runs -> Seq(Entries)] /\ fifo \in Seq(Turns)
    BY <2>1 DEF Init, FeedInit
  <2>3. /\ disp \in [Turns -> {"new", "sent", "naming", "named", "fed", "failing", "failed", "lost"}]
        /\ abort \in [Turns -> {"none", "found", "killed", "told", "over"}]
    BY DEF Init, FeedInit
  <2>4. mishaps \in 0..MaxMishaps /\ lock \in Runs /\ current \in Runs
    BY TurnFeedAssumption DEF Init, FeedInit, Runs
  <2> QED
    BY <2>2, <2>3, <2>4 DEF Init, FeedInit, FeedTypeOK
<1>2. ClaudeTypeOK
  <2>1. <<>> \in Seq(Lines)
    OBVIOUS
  <2> QED
    BY <2>1, ClaudeRelayAssumption DEF Init, ClaudeInit, ClaudeTypeOK, RelayIdle, Runs
<1>3. CodexTypeOK
  BY CodexRelayAssumption DEF Init, CodexInit, CodexTypeOK, Idle, Jobs, Runs, MaxAttempts
<1>4. RelayShape
  BY DEF Init, ClaudeInit, RelayShape, RelayIdle
<1>5. JobShape
  BY DEF Init, CodexInit, JobShape, Idle
<1>6. OneRelay
  BY DEF Init, ClaudeInit, CodexInit, OneRelay
<1> QED
  BY <1>1, <1>2, <1>3, <1>4, <1>5, <1>6 DEF Init, TypeInv, TypeOK

\* The records codex's relay makes of the turn at hand.
LEMMA JobTypes ==
  ASSUME TypeInv
  PROVE  /\ job.lines \in 0..MaxOutput /\ job.held \in 0..MaxOutput
         /\ job.attempt \in 0..MaxAttempts /\ job.of \in Runs /\ job.run \in Runs
         /\ job.live \in BOOLEAN /\ job.rollout \in BOOLEAN /\ job.limited \in BOOLEAN
         /\ Idle \in Jobs
         /\ \A t \in Turns : [Idle EXCEPT !.step = "taken", !.of = t] \in Jobs
         /\ \A r \in Runs : [job EXCEPT !.run = r, !.step = "spawn", !.attempt = 1] \in Jobs
         /\ [job EXCEPT !.step = "run"] \in Jobs
         /\ [job EXCEPT !.step = "end", !.rc = 1] \in Jobs
         /\ \A n \in 0..MaxAttempts : Attempt(n, "spawn") \in Jobs
         /\ \A n \in 0..MaxAttempts, rc \in 0..1 : [Attempt(n, "end") EXCEPT !.rc = rc] \in Jobs
<1>1. /\ job \in Jobs
      /\ job.lines \in 0..MaxOutput /\ job.held \in 0..MaxOutput
      /\ job.attempt \in 0..MaxAttempts /\ job.of \in Runs /\ job.run \in Runs
      /\ job.live \in BOOLEAN /\ job.rollout \in BOOLEAN /\ job.limited \in BOOLEAN
  BY DEF TypeInv, TypeOK, CodexTypeOK, Jobs
<1>2. Idle \in Jobs
  BY CodexRelayAssumption DEF Idle, Jobs, Runs, MaxAttempts
<1>3. ASSUME NEW t \in Turns
      PROVE  [Idle EXCEPT !.step = "taken", !.of = t] \in Jobs
  <2>1. t \in Runs
    BY DEF Runs
  <2> QED
    BY <1>2, <2>1 DEF Jobs
<1>4. ASSUME NEW r \in Runs
      PROVE  [job EXCEPT !.run = r, !.step = "spawn", !.attempt = 1] \in Jobs
  <2>1. 1 \in 0..MaxAttempts
    BY DEF MaxAttempts
  <2> QED
    BY <1>1, <2>1 DEF Jobs
<1>5. [job EXCEPT !.step = "run"] \in Jobs /\ [job EXCEPT !.step = "end", !.rc = 1] \in Jobs
  <2>1. ASSUME NEW r \in Jobs, NEW step \in {"run", "end"}
        PROVE  [r EXCEPT !.step = step] \in Jobs
    BY DEF Jobs
  <2>2. ASSUME NEW r \in Jobs, NEW rc \in 0..1
        PROVE  [r EXCEPT !.step = "end", !.rc = rc] \in Jobs
    BY DEF Jobs
  <2>3. 1 \in 0..1
    OBVIOUS
  <2>4. [job EXCEPT !.step = "run"] \in Jobs
    BY <1>1, <2>1, Zenon
  <2>5. [job EXCEPT !.step = "end", !.rc = 1] \in Jobs
    BY <1>1, <2>2, <2>3, Zenon
  <2> QED
    BY <2>4, <2>5
<1>6. ASSUME NEW n \in 0..MaxAttempts
      PROVE  /\ Attempt(n, "spawn") \in Jobs
             /\ \A rc \in 0..1 : [Attempt(n, "end") EXCEPT !.rc = rc] \in Jobs
  <2>1. ASSUME NEW step \in {"spawn", "end"}  PROVE Attempt(n, step) \in Jobs
    <3>1. ASSUME NEW i \in Jobs, NEW a \in Runs, NEW r \in Runs
          PROVE  [i EXCEPT !.step = step, !.of = a, !.run = r, !.attempt = n] \in Jobs
      BY DEF Jobs
    <3> QED
      BY <1>1, <1>2, <3>1 DEF Attempt
  <2>2. ASSUME NEW i \in Jobs, NEW rc \in 0..1  PROVE [i EXCEPT !.rc = rc] \in Jobs
    BY DEF Jobs
  <2> QED
    BY <2>1, <2>2
<1> QED
  BY <1>1, <1>2, <1>3, <1>4, <1>5, <1>6

\* The steps of agents-platform, of the dispatch, of aborts and of the drain.
LEMMA FeedTypeStep ==
  ASSUME TypeInv, FeedNext, UNCHANGED <<claudeVars, codexVars, cli>>
  PROVE  TypeInv'
<1>1. FeedTypeOK
  BY DEF TypeInv, TypeOK
<1>2. Held \in SUBSET Turns
  BY DEF Held, ClaudeHolds, CodexHolds
<1>3. ASSUME Platform  PROVE FeedTypeOK'
  <2>1. \A t \in Turns : t \in Runs
    BY DEF Runs
  <2>2. Nobody \in Runs
    BY DEF Runs
  <2>3. ASSUME NEW t \in Turns, Send(t)  PROVE FeedTypeOK'
    BY <1>1, <2>1, <2>3 DEF Send, FeedTypeOK
  <2>4. CASE ReadsDone
    BY <1>1, <2>2, <2>4 DEF ReadsDone, FeedTypeOK
  <2>5. CASE GivesUp
    <3>1. mishaps' \in 0..MaxMishaps
      BY <1>1, <2>5, TurnFeedAssumption DEF FeedTypeOK, GivesUp, Mishap
    <3> QED
      BY <1>1, <2>2, <2>5, <3>1 DEF GivesUp, FeedTypeOK
  <2> QED
    BY <1>3, <2>3, <2>4, <2>5 DEF Platform
<1>4. ASSUME NEW t \in Turns, DispatchWork(t) \/ LoseThread(t)  PROVE FeedTypeOK'
  <2>1. ASSUME NEW to \in {"naming", "named", "fed", "failing", "failed", "lost"},
               disp' = [disp EXCEPT ![t] = to]
        PROVE  disp' \in [Turns -> {"new", "sent", "naming", "named", "fed", "failing", "failed", "lost"}]
    BY <1>1, <2>1 DEF FeedTypeOK
  <2>2. t \in Runs /\ Nobody \in Runs /\ fifo \in Seq(Turns)
        /\ Append(fifo, t) \in Seq(Turns) /\ {t} \in SUBSET Turns /\ {} \in SUBSET Turns
    BY <1>1, AppendProperties DEF FeedTypeOK, Runs
  <2>3. CASE NameTurn(t, Held)
    BY <1>1, <1>2, <2>1, <2>2, <2>3 DEF NameTurn, Dispatch, FeedTypeOK
  <2>4. CASE NamedTurn(t)
    BY <1>1, <2>1, <2>2, <2>4 DEF NamedTurn, Dispatch, FeedTypeOK
  <2>5. CASE FeedTurn(t)
    BY <1>1, <2>1, <2>2, <2>5 DEF FeedTurn, Dispatch, FeedTypeOK
  <2>6. CASE DispatchBreaks(t)
    <3>1. Fault({}) \/ NoFault
      BY <2>6 DEF DispatchBreaks
    <3>2. mishaps' \in 0..MaxMishaps /\ excused' \in SUBSET Turns
      BY <1>1, <2>2, <3>1, FaultEffect
    <3>3. fifo' \in Seq(Turns)
      BY <2>2, <2>6 DEF DispatchBreaks
    <3> QED
      BY <1>1, <2>1, <2>6, <3>2, <3>3 DEF DispatchBreaks, FeedTypeOK
  <2>7. CASE ReportFailure(t)
    <3>1. Fault({}) \/ Fault({t}) \/ NoFault
      BY <2>7 DEF ReportFailure
    <3>2. mishaps' \in 0..MaxMishaps /\ excused' \in SUBSET Turns
      BY <1>1, <2>2, <3>1, FaultEffect
    <3>3. stream' \in [Runs -> Seq(Entries)]
      <4>1. Entry("dispatch", "result", t, 0) \in Entries /\ Entry("dispatch", "done", t, 0) \in Entries
        BY DEF Entry, Entries
      <4>2. /\ <<Entry("dispatch", "result", t, 0), Entry("dispatch", "done", t, 0)>> \in Seq(Entries)
            /\ <<Entry("dispatch", "done", t, 0)>> \in Seq(Entries)
            /\ <<Entry("dispatch", "result", t, 0)>> \in Seq(Entries)
        BY <4>1
      <4> QED
        BY <1>1, <2>2, <2>7, <4>2, SaysEffect DEF ReportFailure
    <3>4. disp' = [disp EXCEPT ![t] = "failed"]
          /\ UNCHANGED <<lock, abort, box, drain, current, fifo, apart>>
      BY <2>7 DEF ReportFailure, Dispatch
    <3> QED
      BY <1>1, <2>1, <3>2, <3>3, <3>4 DEF FeedTypeOK
  <2>8. CASE LoseThread(t)
    <3>1. mishaps' \in 0..MaxMishaps /\ excused' \in SUBSET Turns
      BY <1>1, <2>2, <2>8, FaultEffect DEF LoseThread
    <3> QED
      BY <1>1, <2>1, <2>8, <3>1 DEF LoseThread, FeedTypeOK
  <2> QED
    BY <1>4, <2>3, <2>4, <2>5, <2>6, <2>7, <2>8 DEF DispatchWork
<1>5. ASSUME NEW t \in Turns, AbortFinds(t) \/ AbortWork(t)  PROVE FeedTypeOK'
  <2>1. ASSUME NEW to \in {"found", "killed", "told", "over"}, abort' = [abort EXCEPT ![t] = to]
        PROVE  abort' \in [Turns -> {"none", "found", "killed", "told", "over"}]
    BY <1>1, <2>1 DEF FeedTypeOK
  <2>2. t \in Runs /\ {t} \in SUBSET Turns
    BY DEF Runs
  <2>3. CASE AbortFinds(t)
    <3>1. mishaps' \in 0..MaxMishaps
      BY <1>1, <2>3, TurnFeedAssumption DEF FeedTypeOK, AbortFinds, Mishap
    <3> QED
      BY <1>1, <2>1, <2>3, <3>1 DEF AbortFinds, FeedTypeOK
  <2>4. CASE AbortKills(t, Held)
    <3>1. mishaps' \in 0..MaxMishaps /\ excused' \in SUBSET Turns
      <4>1. CASE Fault({t})
        BY <1>1, <2>2, <4>1, FaultEffect
      <4>2. CASE UNCHANGED mishaps
                 /\ excused' = IF Up THEN excused \union (Held \ {t}) ELSE excused
        BY <1>1, <1>2, <4>2 DEF FeedTypeOK
      <4> QED
        BY <2>4, <4>1, <4>2 DEF AbortKills
    <3> QED
      BY <1>1, <2>1, <2>4, <3>1 DEF AbortKills, FeedTypeOK
  <2>5. CASE AbortTells(t)
    <3>1. Fault({t}) \/ NoFault
      BY <2>5 DEF AbortTells
    <3>2. mishaps' \in 0..MaxMishaps /\ excused' \in SUBSET Turns
      BY <1>1, <2>2, <3>1, FaultEffect
    <3>3. stream' \in [Runs -> Seq(Entries)]
      <4>1. Entry("abort", "done", t, 0) \in Entries
        BY DEF Entry, Entries
      <4>2. Says(t, <<Entry("abort", "done", t, 0)>>) \/ UNCHANGED stream
        BY <2>5 DEF AbortTells
      <4> QED
        BY <1>1, <2>2, <4>1, <4>2, SaysOneEffect, SilentEffect
    <3> QED
      BY <1>1, <2>1, <2>5, <3>2, <3>3 DEF AbortTells, FeedTypeOK
  <2>6. CASE AbortRemoves(t, Held)
    BY <1>1, <1>2, <2>1, <2>6 DEF AbortRemoves, FeedTypeOK
  <2> QED
    BY <1>5, <2>3, <2>4, <2>5, <2>6 DEF AbortWork
<1>6. ASSUME Drain  PROVE FeedTypeOK'
  BY <1>1, <1>6 DEF Drain, FeedTypeOK
<1>7. FeedTypeOK'
  BY <1>3, <1>4, <1>5, <1>6 DEF FeedNext
<1>8. ClaudeTypeOK' /\ CodexTypeOK' /\ cli' \in {"claude", "codex"}
  BY DEF TypeInv, TypeOK, ClaudeTypeOK, CodexTypeOK, claudeVars, codexVars
<1>9. RelayShape' /\ JobShape' /\ OneRelay'
  BY DEF TypeInv, RelayShape, JobShape, OneRelay, claudeVars, codexVars
<1> QED
  BY <1>7, <1>8, <1>9 DEF TypeInv, TypeOK

\* The records claude's relay makes of a line.
LEMMA RelayTypes ==
  ASSUME TypeInv
  PROVE  /\ relay.step \in {"idle", "line", "done"} /\ relay.run \in Runs /\ relay.of \in Runs
         /\ relay.kind \in {"none", "line", "result", "woken"}
         /\ relay = [step |-> relay.step, run |-> relay.run, of |-> relay.of, kind |-> relay.kind]
         /\ [relay EXCEPT !.step = "done"] =
              [step |-> "done", run |-> relay.run, of |-> relay.of, kind |-> relay.kind]
BY DEF TypeInv, TypeOK, ClaudeTypeOK

\* The steps of claude and its relay.
LEMMA ClaudeTypeStep ==
  ASSUME TypeInv, cli = "claude", ClaudeNext, UNCHANGED <<codexVars, cli>>
  PROVE  TypeInv'
<1>1. FeedTypeOK /\ ClaudeTypeOK /\ RelayShape
  BY DEF TypeInv, TypeOK
<1>2. CodexTypeOK' /\ cli' \in {"claude", "codex"} /\ JobShape' /\ OneRelay'
  BY DEF TypeInv, TypeOK, CodexTypeOK, JobShape, OneRelay, codexVars
<1> DEFINE Shape == RelayShape /\ ClaudeTypeOK
<1>3. ASSUME UNCHANGED turnFeedVars  PROVE FeedTypeOK'
  BY <1>1, <1>3 DEF turnFeedVars, feedVars, FeedTypeOK
<1>4. Nobody \in Runs /\ ClaudeHolds \in SUBSET Turns /\ out \in Seq(Lines)
      /\ \A t \in Turns : t \in Runs
  BY <1>1 DEF Runs, ClaudeHolds, ClaudeTypeOK
<1>5. \A kind \in {"line", "result", "woken"}, t \in Turns : Append(out, Line(kind, t)) \in Seq(Lines)
  <2>1. \A kind \in {"line", "result", "woken"}, t \in Turns : Line(kind, t) \in Lines
    BY DEF Line, Lines
  <2> QED
    BY <1>4, <2>1, AppendProperties
<1>6. busy \in Runs /\ (busy # Nobody => busy \in Turns)
  BY <1>1 DEF ClaudeTypeOK, Runs
<1>7. ASSUME ClaudeTakes  PROVE FeedTypeOK' /\ Shape'
  <2>1. Head(fifo) \in Turns /\ Tail(fifo) \in Seq(Turns)
    BY <1>1, <1>7, HeadTailProperties DEF ClaudeTakes, FeedTypeOK
  <2>2. FeedTypeOK'
    BY <1>1, <1>7, <2>1 DEF ClaudeTakes, FeedTypeOK
  <2>3. Shape'
    BY <1>1, <1>4, <1>7, <2>1 DEF ClaudeTakes, ClaudeTypeOK, RelayShape
  <2> QED
    BY <2>2, <2>3
<1>8. ASSUME ClaudeSays  PROVE FeedTypeOK' /\ Shape'
  <2>1. busy \in Turns /\ out' \in Seq(Lines)
    BY <1>5, <1>6, <1>8 DEF ClaudeSays
  <2>2. said[busy] \in 0..MaxLines /\ said[busy] + 1 \in 0..MaxLines
    BY <1>1, <1>8, <2>1, ClaudeRelayAssumption DEF ClaudeSays, ClaudeTypeOK
  <2>3. said' \in [Turns -> 0..MaxLines]
    BY <1>1, <1>8, <2>1, <2>2 DEF ClaudeSays, ClaudeTypeOK
  <2>4. UNCHANGED <<turnFeedVars, claude, busy, behind, relay, finalised>>
    BY <1>8 DEF ClaudeSays
  <2> QED
    BY <1>1, <1>3, <2>1, <2>3, <2>4 DEF ClaudeTypeOK, RelayShape
<1>9. ASSUME ClaudeEnds  PROVE FeedTypeOK' /\ Shape'
  <2>1. busy \in Turns /\ out' \in Seq(Lines)
    BY <1>5, <1>6, <1>9 DEF ClaudeEnds
  <2>2. behind' \in SUBSET Turns
    BY <1>1, <1>9, <2>1 DEF ClaudeEnds, ClaudeTypeOK
  <2>3. busy' = Nobody /\ UNCHANGED <<turnFeedVars, claude, said, relay, finalised>>
    BY <1>9 DEF ClaudeEnds
  <2> QED
    BY <1>1, <1>3, <1>4, <2>1, <2>2, <2>3 DEF ClaudeTypeOK, RelayShape
<1>10. ASSUME NEW t \in Turns, ClaudeWakes(t)  PROVE FeedTypeOK' /\ Shape'
  <2>1. out' \in Seq(Lines)
    BY <1>5, <1>10 DEF ClaudeWakes
  <2> QED
    BY <1>1, <1>3, <1>10, <2>1 DEF ClaudeWakes, ClaudeTypeOK, RelayShape
<1>11. ASSUME ClaudeExits  PROVE FeedTypeOK' /\ Shape'
  BY <1>1, <1>3, <1>11 DEF ClaudeExits, ClaudeTypeOK, RelayShape
<1>12. ASSUME ClaudeDies  PROVE FeedTypeOK' /\ Shape'
  <2>1. (IF busy = Nobody THEN {} ELSE {busy}) \in SUBSET Turns
    BY <1>6
  <2>2. mishaps' \in 0..MaxMishaps /\ excused' \in SUBSET Turns
    BY <1>1, <1>12, <2>1, FaultEffect DEF ClaudeDies
  <2> QED
    BY <1>1, <1>4, <1>12, <2>2 DEF ClaudeDies, feedVars, FeedTypeOK, ClaudeTypeOK, RelayShape
<1>13. ASSUME ClaudeBoxStops  PROVE FeedTypeOK' /\ Shape'
  BY <1>1, <1>4, <1>13 DEF ClaudeBoxStops, Stops, claudeVars, FeedTypeOK, ClaudeTypeOK, RelayShape
<1>14. ASSUME RelayReads  PROVE FeedTypeOK' /\ Shape'
  <2>1. Head(out) \in Lines /\ Tail(out) \in Seq(Lines)
    BY <1>1, <1>14, HeadTailProperties DEF RelayReads, ClaudeTypeOK
  <2>2. Head(out).of \in Turns /\ Head(out).kind \in {"line", "result", "woken"} /\ current \in Runs
    BY <1>1, <2>1 DEF Lines, FeedTypeOK
  <2>3. relay' = [step |-> "line", run |-> current, of |-> Head(out).of, kind |-> Head(out).kind]
        /\ out' = Tail(out) /\ UNCHANGED <<turnFeedVars, claude, busy, said, behind, finalised>>
    BY <1>14 DEF RelayReads
  <2>4. /\ relay' \in [step : {"idle", "line", "done"}, run : Runs, of : Runs,
                       kind : {"none", "line", "result", "woken"}]
        /\ relay'.step = "line" /\ relay'.of \in Turns /\ relay'.kind # "none"
    BY <1>4, <2>2, <2>3
  <2> QED
    BY <1>1, <1>3, <2>1, <2>3, <2>4 DEF ClaudeTypeOK, RelayShape
<1>15. /\ RelayIdle \in [step : {"idle", "line", "done"}, run : Runs, of : Runs,
                         kind : {"none", "line", "result", "woken"}]
       /\ RelayIdle.step = "idle"
  BY <1>4 DEF RelayIdle
<1>16. ASSUME relay.step # "idle"
       PROVE  /\ relay.of \in Turns /\ {relay.of} \in SUBSET Turns /\ relay.run \in Runs
              /\ Entry("relay", relay.kind, relay.of, 0) \in Entries
              /\ Entry("relay", "done", relay.of, 0) \in Entries
  BY <1>1, <1>16, RelayTypes DEF RelayShape, Entry, Entries
<1>17. ASSUME RelayPublishes  PROVE FeedTypeOK' /\ Shape'
  <2>1. relay.step = "line"
    BY <1>17 DEF RelayPublishes
  <2>2. Fault({relay.of}) \/ NoFault
    BY <1>17 DEF RelayPublishes
  <2>3. mishaps' \in 0..MaxMishaps /\ excused' \in SUBSET Turns
    BY <1>1, <1>16, <2>1, <2>2, FaultEffect
  <2>4. Says(relay.run, <<Entry("relay", relay.kind, relay.of, 0)>>) \/ UNCHANGED stream
    BY <1>17 DEF RelayPublishes
  <2>5. stream' \in [Runs -> Seq(Entries)]
    BY <1>1, <1>16, <2>1, <2>4, SaysOneEffect, SilentEffect
  <2>6. relay' = RelayIdle \/ (EndsRun /\ relay' = [relay EXCEPT !.step = "done"])
    BY <1>17 DEF RelayPublishes
  <2>7. UNCHANGED <<feedVars, apart, claude, busy, said, behind, out, finalised>>
    BY <1>17 DEF RelayPublishes
  <2>8. FeedTypeOK'
    BY <1>1, <2>3, <2>5, <2>7 DEF feedVars, FeedTypeOK
  <2>9. CASE relay' = RelayIdle
    BY <1>1, <1>15, <2>7, <2>8, <2>9 DEF ClaudeTypeOK, RelayShape
  <2>10. CASE EndsRun /\ relay' = [relay EXCEPT !.step = "done"]
    <3>1. /\ relay' \in [step : {"idle", "line", "done"}, run : Runs, of : Runs,
                         kind : {"none", "line", "result", "woken"}]
          /\ relay'.step = "done" /\ relay'.of \in Turns /\ relay'.kind = "result"
      BY <1>16, <2>1, <2>10, RelayTypes DEF EndsRun
    <3> QED
      BY <1>1, <2>7, <2>8, <3>1 DEF ClaudeTypeOK, RelayShape
  <2> QED
    BY <2>6, <2>9, <2>10
<1>18. ASSUME RelayFinalises  PROVE FeedTypeOK' /\ Shape'
  <2>1. relay.step = "done"
    BY <1>18 DEF RelayFinalises
  <2>2. Fault({relay.of}) \/ NoFault
    BY <1>18 DEF RelayFinalises
  <2>3. mishaps' \in 0..MaxMishaps /\ excused' \in SUBSET Turns
    BY <1>1, <1>16, <2>1, <2>2, FaultEffect
  <2>4. Says(relay.run, <<Entry("relay", "done", relay.of, 0)>>) \/ UNCHANGED stream
    BY <1>18 DEF RelayFinalises
  <2>5. stream' \in [Runs -> Seq(Entries)]
    BY <1>1, <1>16, <2>1, <2>4, SaysOneEffect, SilentEffect
  <2>6. /\ relay' = RelayIdle
        /\ UNCHANGED <<feedVars, apart, claude, busy, said, behind, out>>
        /\ finalised' = finalised \/ finalised' = finalised \union {relay.run}
    BY <1>18 DEF RelayFinalises
  <2>7. FeedTypeOK'
    BY <1>1, <2>3, <2>5, <2>6 DEF feedVars, FeedTypeOK
  <2>8. finalised' \in SUBSET Runs
    BY <1>1, <1>16, <2>1, <2>6 DEF ClaudeTypeOK
  <2> QED
    BY <1>1, <1>15, <2>6, <2>7, <2>8 DEF ClaudeTypeOK, RelayShape
<1>19. FeedTypeOK' /\ Shape'
  BY <1>7, <1>8, <1>9, <1>10, <1>11, <1>12, <1>13, <1>14, <1>17, <1>18 DEF ClaudeNext, ClaudeWork
<1> QED
  BY <1>2, <1>19 DEF TypeInv, TypeOK

\* The steps of codex's relay.
LEMMA CodexTypeStep ==
  ASSUME TypeInv, cli = "codex", CodexNext, UNCHANGED <<claudeVars, cli>>
  PROVE  TypeInv'
<1>1. FeedTypeOK /\ job \in Jobs /\ JobShape
  BY DEF TypeInv, TypeOK, CodexTypeOK
<1>2. ClaudeTypeOK' /\ cli' \in {"claude", "codex"} /\ RelayShape'
  BY DEF TypeInv, TypeOK, ClaudeTypeOK, RelayShape, claudeVars
<1>3. OneRelay'
  BY DEF TypeInv, OneRelay, claudeVars
<1> DEFINE Shape == JobShape /\ job \in Jobs
<1>4. ASSUME UNCHANGED turnFeedVars  PROVE FeedTypeOK'
  BY <1>1, <1>4 DEF turnFeedVars, feedVars, FeedTypeOK
<1>5. Nobody \in Runs /\ CodexHolds \in SUBSET Turns /\ current \in Runs
  BY <1>1 DEF Runs, CodexHolds, FeedTypeOK
<1>6. job.held \in Nat /\ job.lines \in Nat /\ job.attempt \in Nat
  <2>1. job.lines \in 0..MaxOutput /\ job.held \in 0..MaxOutput /\ job.attempt \in 0..MaxAttempts
    BY JobTypes
  <2> QED
    BY <2>1, CodexRelayAssumption DEF MaxAttempts
<1>7. JobShape' <=>
        /\ job'.step = "idle" => job' = Idle
        /\ job'.step # "idle" => job'.of \in Turns
        /\ job'.step = "taken" => job'.run = Nobody
        /\ job'.held <= job'.lines
        /\ job'.step \in {"taken", "spawn"} => ~job'.live /\ job'.held = 0
        /\ job'.live => job'.step = "run" /\ job'.held = 0
  BY DEF JobShape
<1>8. ASSUME job' = Idle  PROVE Shape'
  <2>1. Idle.step = "idle" /\ Idle.held <= Idle.lines /\ ~Idle.live
    BY DEF Idle
  <2> QED
    BY <1>7, <1>8, <2>1, JobTypes
<1>9. ASSUME CodexTakes  PROVE FeedTypeOK' /\ Shape'
  <2>1. Head(fifo) \in Turns /\ Tail(fifo) \in Seq(Turns)
    BY <1>1, <1>9, HeadTailProperties DEF CodexTakes, FeedTypeOK
  <2>2. FeedTypeOK'
    BY <1>1, <1>9, <2>1 DEF CodexTakes, FeedTypeOK
  <2>3. job' = [Idle EXCEPT !.step = "taken", !.of = Head(fifo)]
    BY <1>9 DEF CodexTakes
  <2>4. /\ job'.step = "taken" /\ job'.of = Head(fifo) /\ job'.run = Nobody
        /\ job'.held = 0 /\ job'.lines = 0 /\ ~job'.live
    BY <2>3 DEF Idle
  <2>5. job' \in Jobs
    BY <2>1, <2>3, JobTypes
  <2> QED
    BY <1>7, <2>1, <2>2, <2>4, <2>5
<1>10. ASSUME CodexReadsRun  PROVE FeedTypeOK' /\ Shape'
  <2>1. job' = [job EXCEPT !.run = current, !.step = "spawn", !.attempt = 1]
        /\ job.step = "taken" /\ UNCHANGED turnFeedVars
    BY <1>10 DEF CodexReadsRun, At
  <2>2. job' \in Jobs
    BY <1>5, <2>1, JobTypes
  <2>3. /\ job'.step = "spawn" /\ job'.of = job.of /\ job'.held = job.held
        /\ job'.lines = job.lines /\ job'.live = job.live
    BY <1>1, <2>1 DEF Jobs
  <2>4. job.of \in Turns /\ ~job.live /\ job.held = 0 /\ job.held <= job.lines
    BY <1>1, <2>1 DEF JobShape
  <2> QED
    BY <1>4, <1>7, <2>1, <2>2, <2>3, <2>4
<1>11. ASSUME CodexSpawns  PROVE FeedTypeOK' /\ Shape'
  <2>1. job' = [job EXCEPT !.step = "run"] /\ job.step = "spawn" /\ UNCHANGED turnFeedVars
    BY <1>11 DEF CodexSpawns, At
  <2>2. job' \in Jobs
    BY <2>1, JobTypes
  <2>3. /\ job'.step = "run" /\ job'.of = job.of /\ job'.held = job.held
        /\ job'.lines = job.lines /\ job'.live = job.live
    BY <1>1, <2>1 DEF Jobs
  <2> QED
    BY <1>1, <1>4, <1>7, <2>1, <2>2, <2>3 DEF JobShape
<1>12. ASSUME SpawnFails  PROVE FeedTypeOK' /\ Shape'
  <2>1. /\ job' = [job EXCEPT !.step = "end", !.rc = 1] /\ job.step = "spawn"
        /\ Fault({}) /\ Says(job.run, Output(1)) /\ UNCHANGED <<feedVars, apart>>
    BY <1>12 DEF SpawnFails, At
  <2>2. job.of \in Turns /\ job.run \in Runs /\ {} \in SUBSET Turns
    BY <1>1, <2>1, JobTypes DEF JobShape
  <2>3. stream' \in [Runs -> Seq(Entries)] /\ mishaps' \in 0..MaxMishaps /\ excused' \in SUBSET Turns
    BY <1>1, <2>1, <2>2, OutputIs, SaysEffect, FaultEffect
  <2>4. FeedTypeOK'
    BY <1>1, <2>1, <2>3 DEF FeedTypeOK, feedVars
  <2>5. job' \in Jobs
    BY <2>1, JobTypes
  <2>6. /\ job'.step = "end" /\ job'.of = job.of /\ job'.held = job.held
        /\ job'.lines = job.lines /\ job'.live = job.live
    BY <1>1, <2>1 DEF Jobs
  <2> QED
    BY <1>1, <1>7, <2>1, <2>2, <2>4, <2>5, <2>6 DEF JobShape
<1>13. ASSUME NEW kind \in LineKinds, CodexSays(kind)  PROVE FeedTypeOK' /\ Shape'
  <2>1. /\ job.step = "run" /\ job.lines < MaxOutput /\ UNCHANGED <<feedVars, apart>>
    BY <1>13 DEF CodexSays, At
  <2>2. /\ job.of \in Turns /\ job.held <= job.lines /\ (job.live => job.held = 0)
        /\ job.lines + 1 \in 0..MaxOutput /\ job.held + 1 \in 0..MaxOutput
        /\ job.held \in Nat /\ job.lines \in Nat /\ 0 \in 0..MaxOutput
    <3>1. job.of \in Turns /\ job.held <= job.lines /\ (job.live => job.held = 0)
      BY <1>1, <2>1 DEF JobShape
    <3> QED
      BY <1>6, <2>1, <3>1, CodexRelayAssumption
  <2>3. CASE job.live \/ kind = "content"
    <3>1. /\ Publishes(Output(job.held + 1))
          /\ job' = [job EXCEPT !.lines = @ + 1, !.live = TRUE, !.held = 0]
      BY <1>13, <2>3 DEF CodexSays
    <3>2. /\ stream' \in [Runs -> Seq(Entries)] /\ mishaps' \in 0..MaxMishaps
          /\ excused' \in SUBSET Turns
      BY <2>2, <3>1, PublishesEffect
    <3>3. ASSUME NEW n \in 0..MaxOutput
          PROVE  [job EXCEPT !.lines = n, !.live = TRUE, !.held = 0] \in Jobs
      BY <1>1, <2>2 DEF Jobs
    <3>4. job' \in Jobs
      BY <2>2, <3>1, <3>3
    <3>5. /\ job'.step = "run" /\ job'.of = job.of /\ job'.held = 0
          /\ job'.lines = job.lines + 1 /\ job'.live
      BY <1>1, <2>1, <3>1 DEF Jobs
    <3> QED
      BY <1>1, <1>7, <2>1, <2>2, <3>2, <3>4, <3>5 DEF FeedTypeOK, feedVars
  <2>4. CASE ~(job.live \/ kind = "content")
    <3>1. /\ NoFault /\ UNCHANGED stream
          /\ job' = [job EXCEPT !.lines = @ + 1, !.held = @ + 1,
                                !.rollout = @ \/ kind = "rollout",
                                !.limited = @ \/ kind = "error"]
      BY <1>13, <2>4 DEF CodexSays
    <3>2. ASSUME NEW n \in 0..MaxOutput, NEW m \in 0..MaxOutput, NEW b \in BOOLEAN, NEW c \in BOOLEAN
          PROVE  [job EXCEPT !.lines = n, !.held = m, !.rollout = b, !.limited = c] \in Jobs
      BY <1>1 DEF Jobs
    <3>3. (job.rollout \/ kind = "rollout") \in BOOLEAN /\ (job.limited \/ kind = "error") \in BOOLEAN
      OBVIOUS
    <3>4. job' \in Jobs
      BY <2>2, <3>1, <3>2, <3>3
    <3>5. /\ job'.step = "run" /\ job'.of = job.of /\ job'.held = job.held + 1
          /\ job'.lines = job.lines + 1 /\ job'.live = job.live
      BY <1>1, <2>1, <3>1 DEF Jobs
    <3> QED
      BY <1>1, <1>7, <2>1, <2>2, <2>4, <3>1, <3>4, <3>5 DEF FeedTypeOK, feedVars, NoFault
  <2> QED
    BY <2>3, <2>4
<1>14. ASSUME NEW rc \in 0..1, CodexRetries(rc)  PROVE FeedTypeOK' /\ Shape'
  <2>1. /\ job.step = "run" /\ job.attempt < MaxAttempts /\ UNCHANGED turnFeedVars
        /\ job' = Attempt(job.attempt + 1, "spawn")
    BY <1>14 DEF CodexRetries, At, TryAgain
  <2>2. job.of \in Turns /\ job.attempt + 1 \in 0..MaxAttempts
    <3>1. job.of \in Turns
      BY <1>1, <2>1 DEF JobShape
    <3> QED
      BY <1>6, <2>1, <3>1 DEF MaxAttempts
  <2>3. job' \in Jobs
    BY <2>1, <2>2, JobTypes
  <2>4. /\ job'.step = "spawn" /\ job'.of = job.of /\ job'.held = 0 /\ job'.lines = 0 /\ ~job'.live
    BY <2>1 DEF Attempt, Idle
  <2> QED
    BY <1>4, <1>7, <2>1, <2>2, <2>3, <2>4
<1>15. ASSUME NEW rc \in 0..1, CodexEnds(rc)  PROVE FeedTypeOK' /\ Shape'
  <2>1. /\ job.step = "run" /\ UNCHANGED <<feedVars, apart>> /\ Publishes(Output(job.held))
        /\ job' = [Attempt(job.attempt, "end") EXCEPT !.rc = rc]
    BY <1>15 DEF CodexEnds, At
  <2>2. job.of \in Turns /\ job.held \in Nat /\ job.attempt \in 0..MaxAttempts
    <3>1. job.of \in Turns
      BY <1>1, <2>1 DEF JobShape
    <3> QED
      BY <1>6, <3>1, JobTypes
  <2>3. /\ stream' \in [Runs -> Seq(Entries)] /\ mishaps' \in 0..MaxMishaps
        /\ excused' \in SUBSET Turns
    BY <2>1, <2>2, PublishesEffect
  <2>4. job' \in Jobs
    BY <2>1, <2>2, JobTypes
  <2>5. /\ job'.step = "end" /\ job'.of = job.of /\ job'.held = 0 /\ job'.lines = 0 /\ ~job'.live
    BY <2>1 DEF Attempt, Idle
  <2> QED
    BY <1>1, <1>7, <2>1, <2>2, <2>3, <2>4, <2>5 DEF FeedTypeOK, feedVars
<1>16. ASSUME CodexFinishes  PROVE FeedTypeOK' /\ Shape'
  <2>1. /\ job.step = "end" /\ job' = Idle /\ UNCHANGED <<feedVars, apart>>
        /\ Fault({job.of}) \/ NoFault
        /\ Says(job.run, <<Entry("relay", "done", job.of, job.attempt)>>) \/ UNCHANGED stream
    BY <1>16 DEF CodexFinishes, At
  <2>2. /\ job.of \in Turns /\ job.run \in Runs /\ {job.of} \in SUBSET Turns
        /\ job.attempt \in 0..3
    BY <1>1, <2>1, JobTypes DEF JobShape, MaxAttempts
  <2>3. Entry("relay", "done", job.of, job.attempt) \in Entries
    BY <2>2 DEF Entry, Entries
  <2>4. /\ stream' \in [Runs -> Seq(Entries)] /\ mishaps' \in 0..MaxMishaps
        /\ excused' \in SUBSET Turns
    BY <1>1, <2>1, <2>2, <2>3, SaysOneEffect, SilentEffect, FaultEffect
  <2> QED
    BY <1>1, <1>8, <2>1, <2>4 DEF FeedTypeOK, feedVars
<1>17. ASSUME CodexExits  PROVE FeedTypeOK' /\ Shape'
  BY <1>1, <1>4, <1>17 DEF CodexExits, JobShape
<1>18. ASSUME TtlKillsCodex  PROVE FeedTypeOK' /\ Shape'
  <2>1. (IF job.of = Nobody THEN {} ELSE {job.of}) \in SUBSET Turns
    BY JobTypes DEF Runs
  <2>2. mishaps' \in 0..MaxMishaps /\ excused' \in SUBSET Turns
    BY <1>1, <1>18, <2>1, FaultEffect DEF TtlKillsCodex
  <2> QED
    BY <1>1, <1>8, <1>18, <2>2 DEF TtlKillsCodex, feedVars, FeedTypeOK
<1>19. ASSUME CodexBoxStops  PROVE FeedTypeOK' /\ Shape'
  BY <1>1, <1>5, <1>19 DEF CodexBoxStops, Stops, codexVars, FeedTypeOK, JobShape
<1>22. ASSUME CodexSkips  PROVE FeedTypeOK' /\ Shape'
  <2>1. Head(fifo) \in Turns /\ Tail(fifo) \in Seq(Turns)
    BY <1>1, <1>22, HeadTailProperties DEF CodexSkips, FeedTypeOK
  <2>2. mishaps' \in 0..MaxMishaps /\ excused' \in SUBSET Turns
    BY <1>1, <1>22, <2>1, FaultEffect DEF CodexSkips
  <2>3. FeedTypeOK'
    BY <1>1, <1>22, <2>1, <2>2 DEF CodexSkips, FeedTypeOK
  <2> QED
    BY <1>1, <1>22, <2>3 DEF CodexSkips, codexVars, JobShape
<1>20. FeedTypeOK' /\ Shape'
  BY <1>9, <1>10, <1>11, <1>12, <1>13, <1>14, <1>15, <1>16, <1>17, <1>18, <1>19, <1>22
     DEF CodexNext, CodexWork
<1>21. codex' \in {"up", "gone"}
  BY DEF CodexNext, CodexWork, CodexTakes, CodexSkips, CodexReadsRun, CodexSpawns,
         CodexRetries, CodexEnds,
         CodexFinishes, SpawnFails, CodexSays, CodexExits, TtlKillsCodex, CodexBoxStops,
         codexVars, TypeInv, TypeOK, CodexTypeOK
<1> QED
  BY <1>2, <1>3, <1>20, <1>21 DEF TypeInv, TypeOK, CodexTypeOK

\* Every step keeps the types and the shapes of what the relays hold.
LEMMA TypeStep ==
  ASSUME TypeInv, [Next]_vars  PROVE TypeInv'
<1>1. CASE FeedNext /\ UNCHANGED <<claudeVars, codexVars, cli>>
  BY <1>1, FeedTypeStep
<1>2. CASE cli = "claude" /\ ClaudeNext /\ UNCHANGED <<codexVars, cli>>
  BY <1>2, ClaudeTypeStep
<1>3. CASE cli = "codex" /\ CodexNext /\ UNCHANGED <<claudeVars, cli>>
  BY <1>3, CodexTypeStep
<1>4. CASE UNCHANGED vars
  BY <1>4 DEF vars, turnFeedVars, feedVars, claudeVars, codexVars, TypeInv, TypeOK, FeedTypeOK,
              ClaudeTypeOK, CodexTypeOK, RelayShape, JobShape, OneRelay, InFifo
<1> QED
  BY <1>1, <1>2, <1>3, <1>4 DEF Next

\* In every reachable state the variables of the feed and of both relays have
\* their types, for any turns, lines, outputs and mishaps.
THEOREM TypeCorrect == Spec => []TypeOK
<1>1. Init => TypeInv
  BY InitType
<1>2. TypeInv /\ [Next]_vars => TypeInv'
  BY TypeStep
<1>3. TypeInv => TypeOK
  BY DEF TypeInv
<1> QED
  BY <1>1, <1>2, <1>3, PTL DEF Spec

-------------------------------------------------------------------------------
(***************************************************************************)
(* Who says what in a step, and what steps never undo.                     *)
(***************************************************************************)
DispatchSays(r, e) ==
    r \in Turns /\ e.by = "dispatch" /\ e.of = r /\ e.kind # "line" /\ UNCHANGED abort

AbortSays(r, e) ==
    /\ r \in Turns /\ e.by = "abort" /\ e.of = r /\ e.kind = "done"
    /\ abort[r] = "killed" /\ abort'[r] = "told"

ClaudeRelaySays(r, e) ==
    /\ cli = "claude" /\ r = relay.run
    /\ \/ relay.step = "line" /\ e = Entry("relay", relay.kind, relay.of, 0)
       \/ relay.step = "done" /\ e = Entry("relay", "done", relay.of, 0)

CodexRelaySays(r, e) ==
    /\ cli = "codex" /\ codex = "up" /\ r = job.run
    /\ \/ job.step \in {"spawn", "run"} /\ e = Entry("relay", "line", job.of, job.attempt)
       \/ job.step = "end" /\ e = Entry("relay", "done", job.of, job.attempt)

RelaySays(r, e) == Up /\ UNCHANGED feedVars /\ (ClaudeRelaySays(r, e) \/ CodexRelaySays(r, e))

Said(r, i) ==
    \/ DispatchSays(r, stream'[r][i])
    \/ AbortSays(r, stream'[r][i])
    \/ RelaySays(r, stream'[r][i])

SaysWell == Grows /\ \A r \in Runs, i \in Nat : NewAt(r, i) => Said(r, i)

RelayIsSilent == \A r \in Runs, i \in Nat : NewAt(r, i) => stream'[r][i].by # "relay"

\* What the feeding side says: entries of the dispatch or of an abort, each in
\* its own run; the relays are silent in those steps.
LEMMA FeedSays ==
  ASSUME TypeInv, FeedNext  PROVE SaysWell /\ RelayIsSilent
<1>1. FeedTypeOK
  BY DEF TypeInv, TypeOK
<1>2. ASSUME UNCHANGED stream  PROVE SaysWell /\ RelayIsSilent
  BY <1>1, <1>2, SilentEffect DEF SaysWell, RelayIsSilent
<1>3. CASE Platform \/ Drain
  BY <1>2, <1>3 DEF Platform, Send, ReadsDone, GivesUp, Drain
<1>4. ASSUME NEW t \in Turns, DispatchWork(t) \/ LoseThread(t)  PROVE SaysWell /\ RelayIsSilent
  <2>1. CASE ReportFailure(t)
    <3>1. PICK es \in Seq(Entries) : Says(t, es) /\ \A i \in 1..Len(es) : es[i].by = "dispatch" /\ es[i].of = t /\ es[i].kind # "line"
      <4> DEFINE a == Entry("dispatch", "result", t, 0)
                 b == Entry("dispatch", "done", t, 0)
      <4>1. /\ a \in Entries /\ a.by = "dispatch" /\ a.of = t /\ a.kind # "line"
            /\ b \in Entries /\ b.by = "dispatch" /\ b.of = t /\ b.kind # "line"
        BY DEF Entry, Entries
      <4>2. \/ Says(t, <<a, b>>) \/ Says(t, <<b>>) \/ Says(t, <<a>>)
        BY <2>1 DEF ReportFailure
      <4> HIDE DEF a, b
      <4>3. /\ <<a, b>> \in Seq(Entries) /\ <<a>> \in Seq(Entries) /\ <<b>> \in Seq(Entries)
            /\ \A i \in 1..Len(<<a, b>>) : <<a, b>>[i].by = "dispatch" /\ <<a, b>>[i].of = t /\ <<a, b>>[i].kind # "line"
            /\ \A i \in 1..Len(<<a>>) : <<a>>[i].by = "dispatch" /\ <<a>>[i].of = t /\ <<a>>[i].kind # "line"
            /\ \A i \in 1..Len(<<b>>) : <<b>>[i].by = "dispatch" /\ <<b>>[i].of = t /\ <<b>>[i].kind # "line"
        BY <4>1
      <4> QED
        BY <4>2, <4>3
    <3>2. t \in Runs /\ UNCHANGED abort
      BY <2>1 DEF Runs, ReportFailure
    <3>3. Grows /\ \A r \in Runs, i \in Nat : NewAt(r, i) =>
            r = t /\ i - Len(stream[t]) \in 1..Len(es) /\ stream'[r][i] = es[i - Len(stream[t])]
      BY <1>1, <3>1, <3>2, SaysEffect
    <3>4. ASSUME NEW r \in Runs, NEW i \in Nat, NewAt(r, i)
          PROVE  DispatchSays(r, stream'[r][i])
      BY <3>1, <3>2, <3>3, <3>4 DEF DispatchSays
    <3> QED
      BY <3>3, <3>4 DEF SaysWell, Said, RelayIsSilent, DispatchSays
  <2>2. CASE ~ReportFailure(t)
    BY <1>2, <1>4, <2>2 DEF DispatchWork, NameTurn, NamedTurn, FeedTurn, DispatchBreaks, LoseThread
  <2> QED
    BY <2>1, <2>2
<1>5. ASSUME NEW t \in Turns, AbortFinds(t) \/ AbortWork(t)  PROVE SaysWell /\ RelayIsSilent
  <2>1. CASE AbortTells(t) /\ Says(t, <<Entry("abort", "done", t, 0)>>)
    <3> DEFINE e == Entry("abort", "done", t, 0)
    <3>1. e \in Entries /\ e.by = "abort" /\ e.of = t /\ e.kind = "done" /\ t \in Runs
      BY DEF Entry, Entries, Runs
    <3>2. abort[t] = "killed" /\ abort'[t] = "told"
      BY <1>1, <2>1 DEF AbortTells, FeedTypeOK
    <3>3. Grows /\ \A r \in Runs, i \in Nat : NewAt(r, i) => r = t /\ stream'[r][i] = e
      BY <1>1, <2>1, <3>1, SaysOneEffect
    <3> QED
      BY <3>1, <3>2, <3>3 DEF SaysWell, Said, AbortSays, RelayIsSilent
  <2>2. CASE UNCHANGED stream
    BY <1>2, <2>2
  <2> QED
    BY <1>5, <2>1, <2>2 DEF AbortWork, AbortFinds, AbortKills, AbortTells, AbortRemoves
<1> QED
  BY <1>3, <1>4, <1>5 DEF FeedNext

\* What claude's relay says in a step is said by it, into one run.
LEMMA ClaudeSaysWell ==
  ASSUME TypeInv, cli = "claude", ClaudeNext  PROVE SaysWell
<1>1. FeedTypeOK
  BY DEF TypeInv, TypeOK
<1>2. ASSUME UNCHANGED stream  PROVE SaysWell
  BY <1>1, <1>2, SilentEffect DEF SaysWell
<1>3. ASSUME relay.step # "idle"
      PROVE  /\ relay.run \in Runs
             /\ Entry("relay", relay.kind, relay.of, 0) \in Entries
             /\ Entry("relay", "done", relay.of, 0) \in Entries
  BY <1>3, RelayTypes DEF TypeInv, RelayShape, Entry, Entries
<1>4. ASSUME NEW e \in Entries, Says(relay.run, <<e>>), relay.run \in Runs, Up, UNCHANGED feedVars,
             ClaudeRelaySays(relay.run, e)
      PROVE  SaysWell
  <2>1. Grows /\ \A r \in Runs, i \in Nat : NewAt(r, i) => r = relay.run /\ stream'[r][i] = e
    BY <1>1, <1>4, SaysOneEffect
  <2> QED
    BY <1>4, <2>1 DEF SaysWell, Said, RelaySays
<1>5. CASE RelayPublishes
  <2>1. /\ Says(relay.run, <<Entry("relay", relay.kind, relay.of, 0)>>) \/ UNCHANGED stream
        /\ Up /\ relay.step = "line" /\ UNCHANGED feedVars
    BY <1>5 DEF RelayPublishes
  <2>2. ClaudeRelaySays(relay.run, Entry("relay", relay.kind, relay.of, 0))
    BY <2>1 DEF ClaudeRelaySays
  <2> QED
    BY <1>2, <1>3, <1>4, <2>1, <2>2
<1>6. CASE RelayFinalises
  <2>1. /\ Says(relay.run, <<Entry("relay", "done", relay.of, 0)>>) \/ UNCHANGED stream
        /\ Up /\ relay.step = "done" /\ UNCHANGED feedVars
    BY <1>6 DEF RelayFinalises
  <2>2. ClaudeRelaySays(relay.run, Entry("relay", "done", relay.of, 0))
    BY <2>1 DEF ClaudeRelaySays
  <2> QED
    BY <1>2, <1>3, <1>4, <2>1, <2>2
<1>7. CASE ~RelayPublishes /\ ~RelayFinalises
  <2>1. UNCHANGED stream
    BY <1>7 DEF ClaudeNext, ClaudeWork, ClaudeTakes, ClaudeSays, ClaudeEnds, ClaudeWakes,
                ClaudeExits, ClaudeDies, ClaudeBoxStops, Stops, RelayReads, turnFeedVars
  <2> QED
    BY <1>2, <2>1
<1> QED
  BY <1>5, <1>6, <1>7

\* What codex's relay says in a step is said by it, into the run of its job.
LEMMA CodexSaysWell ==
  ASSUME TypeInv, cli = "codex", CodexNext  PROVE SaysWell
<1>1. FeedTypeOK /\ JobShape
  BY DEF TypeInv, TypeOK
<1>2. ASSUME UNCHANGED stream  PROVE SaysWell
  BY <1>1, <1>2, SilentEffect DEF SaysWell
<1>3. job.step # "idle" => job.of \in Turns
  BY <1>1 DEF JobShape
<1>4. job.run \in Runs /\ job.attempt \in 0..3 /\ job.held \in Nat
  <2>1. job.run \in Runs /\ job.attempt \in 0..MaxAttempts /\ job.held \in 0..MaxOutput
    BY JobTypes
  <2> QED
    BY <2>1, CodexRelayAssumption DEF MaxAttempts
<1> DEFINE e == Entry("relay", "line", job.of, job.attempt)
<1>5. ASSUME job.step \in {"spawn", "run"}, codex = "up", Up, UNCHANGED feedVars, Grows,
             \A r \in Runs, i \in Nat : NewAt(r, i) => r = job.run /\ stream'[r][i] = e
      PROVE  SaysWell
  BY <1>5 DEF SaysWell, Said, RelaySays, CodexRelaySays
<1>6. CASE SpawnFails
  <2>1. /\ job.step = "spawn" /\ codex = "up" /\ Up /\ UNCHANGED feedVars
        /\ Says(job.run, Output(1))
    BY <1>6 DEF SpawnFails, At
  <2>2. /\ Output(1) \in Seq(Entries) /\ Len(Output(1)) = 1 /\ Output(1)[1] = e
    <3>1. 1 \in Nat /\ 1 \in 1..1 /\ job.of \in Turns
      BY <1>3, <2>1
    <3> QED
      BY <3>1, OutputIs
  <2>3. Grows /\ \A r \in Runs, i \in Nat : NewAt(r, i) =>
          r = job.run /\ i - Len(stream[job.run]) \in 1..1 /\ stream'[r][i] = Output(1)[i - Len(stream[job.run])]
    BY <1>1, <1>4, <2>1, <2>2, SaysEffect
  <2>4. \A x : x \in 1..1 => x = 1
    OBVIOUS
  <2>5. \A r \in Runs, i \in Nat : NewAt(r, i) => r = job.run /\ stream'[r][i] = e
    BY <2>2, <2>3, <2>4
  <2> QED
    BY <1>5, <2>1, <2>3, <2>5
<1>7. ASSUME NEW kind \in LineKinds, CodexSays(kind)  PROVE SaysWell
  <2>1. job.step = "run" /\ codex = "up" /\ Up /\ UNCHANGED feedVars
        /\ (Publishes(Output(job.held + 1)) \/ UNCHANGED stream)
    BY <1>7 DEF CodexSays, At
  <2>2. CASE Publishes(Output(job.held + 1))
    BY <1>3, <1>4, <1>5, <2>1, <2>2, PublishesEffect
  <2> QED
    BY <1>2, <2>1, <2>2
<1>8. ASSUME NEW rc \in 0..1, CodexEnds(rc)  PROVE SaysWell
  <2>1. job.step = "run" /\ codex = "up" /\ Up /\ UNCHANGED feedVars /\ Publishes(Output(job.held))
    BY <1>8 DEF CodexEnds, At
  <2> QED
    BY <1>3, <1>4, <1>5, <2>1, PublishesEffect
<1>9. CASE CodexFinishes
  <2> DEFINE d == Entry("relay", "done", job.of, job.attempt)
  <2>1. /\ job.step = "end" /\ codex = "up" /\ Up /\ UNCHANGED feedVars
        /\ Says(job.run, <<d>>) \/ UNCHANGED stream
    BY <1>9 DEF CodexFinishes, At
  <2>2. d \in Entries
    BY <1>3, <1>4, <2>1 DEF Entry, Entries
  <2>3. CASE Says(job.run, <<d>>)
    <3>1. Grows /\ \A r \in Runs, i \in Nat : NewAt(r, i) => r = job.run /\ stream'[r][i] = d
      BY <1>1, <1>4, <2>2, <2>3, SaysOneEffect
    <3> QED
      BY <2>1, <3>1 DEF SaysWell, Said, RelaySays, CodexRelaySays
  <2> QED
    BY <1>2, <2>1, <2>3
<1>10. CASE CodexTakes \/ CodexReadsRun \/ CodexSpawns \/ (\E rc \in 0..1 : CodexRetries(rc))
            \/ CodexSkips \/ CodexExits \/ TtlKillsCodex \/ CodexBoxStops
  <2>1. UNCHANGED stream
    BY <1>10 DEF CodexTakes, CodexSkips, CodexReadsRun, CodexSpawns, CodexRetries,
           CodexExits, TtlKillsCodex,
                 CodexBoxStops, Stops, turnFeedVars
  <2> QED
    BY <1>2, <2>1
<1> QED
  BY <1>6, <1>7, <1>8, <1>9, <1>10 DEF CodexNext, CodexWork

\* In a step streams grow, and the new entries are of the report of a failed
\* dispatch, of an abort that killed, or of the relay of a running container.
LEMMA StepSays ==
  ASSUME TypeInv, Next  PROVE SaysWell
BY FeedSays, ClaudeSaysWell, CodexSaysWell DEF Next

\* Excuses and removals are for good, aborts and dispatches only go on.
Lasting ==
    /\ excused \subseteq excused'
    /\ ~Up => ~Up'
    /\ \A t \in Turns :
        /\ abort[t] \in {"killed", "told", "over"} => abort'[t] \in {"killed", "told", "over"}
        /\ abort[t] \in {"told", "over"} => abort'[t] \in {"told", "over"}

\* Every step lasts in that sense.
LEMMA StepLasts ==
  ASSUME TypeInv, Next  PROVE Lasting
<1>1. FeedTypeOK
  BY DEF TypeInv, TypeOK
<1>2. ASSUME UNCHANGED <<box, abort>>, excused \subseteq excused'  PROVE Lasting
  BY <1>2 DEF Lasting, Up
<1>3. CASE Platform \/ Drain
  BY <1>2, <1>3 DEF Platform, Send, ReadsDone, GivesUp, Drain
<1>4. ASSUME NEW t \in Turns, DispatchWork(t) \/ LoseThread(t)  PROVE Lasting
  BY <1>2, <1>4 DEF DispatchWork, NameTurn, NamedTurn, FeedTurn, DispatchBreaks, ReportFailure,
                    LoseThread, Fault, NoFault
<1>5. ASSUME NEW t \in Turns, AbortFinds(t)  PROVE Lasting
  BY <1>1, <1>5 DEF AbortFinds, Lasting, Up, FeedTypeOK
<1>6. ASSUME NEW t \in Turns, AbortKills(t, Held)  PROVE Lasting
  <2>1. excused \subseteq excused'
    BY <1>6 DEF AbortKills, Fault
  <2>2. ~Up => ~Up'
    BY <1>6 DEF AbortKills, Up
  <2>3. abort[t] = "found" /\ abort' = [abort EXCEPT ![t] = "killed"]
    BY <1>6 DEF AbortKills
  <2> QED
    BY <1>1, <2>1, <2>2, <2>3 DEF Lasting, FeedTypeOK
<1>7. ASSUME NEW t \in Turns, AbortTells(t)  PROVE Lasting
  BY <1>1, <1>7 DEF AbortTells, Lasting, Up, FeedTypeOK, Fault, NoFault
<1>8. ASSUME NEW t \in Turns, AbortRemoves(t, Held)  PROVE Lasting
  BY <1>1, <1>8 DEF AbortRemoves, Lasting, Up, FeedTypeOK
<1>9. ASSUME FeedNext  PROVE Lasting
  BY <1>3, <1>4, <1>5, <1>6, <1>7, <1>8, <1>9 DEF FeedNext, AbortWork
<1>10. ASSUME ClaudeNext  PROVE Lasting
  <2>1. CASE ClaudeBoxStops
    BY <2>1 DEF ClaudeBoxStops, Stops, Lasting, Up
  <2>2. CASE ~ClaudeBoxStops
    <3>1. UNCHANGED <<box, abort>> /\ excused \subseteq excused'
      BY <1>10, <2>2 DEF ClaudeNext, ClaudeWork, ClaudeTakes, ClaudeSays, ClaudeEnds, ClaudeWakes,
           ClaudeExits, ClaudeDies, RelayReads, RelayPublishes, RelayFinalises, turnFeedVars,
           feedVars, Fault, NoFault
    <3> QED
      BY <1>2, <3>1
  <2> QED
    BY <2>1, <2>2
<1>11. ASSUME CodexNext  PROVE Lasting
  <2>1. CASE CodexBoxStops
    BY <2>1 DEF CodexBoxStops, Stops, Lasting, Up
  <2>2. CASE ~CodexBoxStops
    <3>1. UNCHANGED <<box, abort>> /\ excused \subseteq excused'
      BY <1>11, <2>2 DEF CodexNext, CodexWork, CodexTakes, CodexSkips, CodexReadsRun,
             CodexSpawns, SpawnFails,
           CodexSays, CodexRetries, CodexEnds, CodexFinishes, CodexExits, TtlKillsCodex,
           turnFeedVars, feedVars, Publishes, Fault, NoFault
    <3> QED
      BY <1>2, <3>1
  <2> QED
    BY <2>1, <2>2
<1> QED
  BY <1>9, <1>10, <1>11 DEF Next

-------------------------------------------------------------------------------
(***************************************************************************)
(* A killed turn is silent.                                                *)
(***************************************************************************)

\* An abort counts as a kill only once the container is down, or is excused.
LEMMA KillStep ==
  ASSUME TypeInv, Next, NEW t \in Turns, abort[t] \notin {"killed", "told", "over"},
         abort'[t] \in {"killed", "told", "over"}
  PROVE  ~Up' \/ t \in excused'
<1>1. FeedTypeOK
  BY DEF TypeInv, TypeOK
<1>2. PICK u \in Turns : AbortFinds(u) \/ AbortKills(u, Held) \/ AbortTells(u) \/ AbortRemoves(u, Held)
  <2>1. abort' # abort
    OBVIOUS
  <2>2. ~(ClaudeNext \/ CodexNext)
    BY <2>1 DEF ClaudeNext, ClaudeWork, ClaudeTakes, ClaudeSays, ClaudeEnds, ClaudeWakes,
         ClaudeExits, ClaudeDies, ClaudeBoxStops, RelayReads, RelayPublishes, RelayFinalises,
         CodexNext, CodexWork, CodexTakes, CodexSkips, CodexReadsRun, CodexSpawns, SpawnFails,
         CodexSays, CodexRetries, CodexEnds, CodexFinishes, CodexExits, TtlKillsCodex, CodexBoxStops,
         Stops, turnFeedVars, feedVars
  <2>3. ~Platform /\ ~Drain
    BY <2>1 DEF Platform, Send, ReadsDone, GivesUp, Drain
  <2>4. \A u \in Turns : ~DispatchWork(u) /\ ~LoseThread(u)
    BY <2>1 DEF DispatchWork, NameTurn, NamedTurn, FeedTurn, DispatchBreaks, ReportFailure, LoseThread
  <2> QED
    BY <2>2, <2>3, <2>4 DEF Next, FeedNext, AbortWork
<1>3. u = t
  BY <1>1, <1>2 DEF AbortFinds, AbortKills, AbortTells, AbortRemoves, FeedTypeOK
<1>4. AbortKills(t, Held)
  BY <1>1, <1>2, <1>3 DEF AbortFinds, AbortTells, AbortRemoves, FeedTypeOK
<1> QED
  BY <1>4 DEF AbortKills, Fault, Up

\* A step keeps a killed turn silent: after the kill no relay runs that could speak.
LEMMA SilentStep ==
  ASSUME TypeInv, TypeInv', SilentInv, [Next]_vars
  PROVE  SilentInv'
<1>1. CASE UNCHANGED vars
  BY <1>1 DEF vars, turnFeedVars, feedVars, SilentInv, Up
<1>2. CASE Next
  <2> SUFFICES ASSUME NEW r \in Turns
               PROVE  /\ abort'[r] \in {"killed", "told", "over"} => ~Up' \/ r \in excused'
                      /\ (\E i \in DOMAIN stream'[r] : stream'[r][i].by = "abort")
                            => abort'[r] \in {"told", "over"}
                      /\ r \notin excused' => \A i, j \in DOMAIN stream'[r] :
                            stream'[r][i].by = "abort" /\ i < j => stream'[r][j].by # "relay"
    BY DEF SilentInv
  <2>1. Lasting /\ SaysWell /\ r \in Runs
    BY <1>2, StepLasts, StepSays DEF Runs
  <2>2. /\ stream \in [Runs -> Seq(Entries)] /\ stream' \in [Runs -> Seq(Entries)]
    BY DEF TypeInv, TypeOK, FeedTypeOK
  <2>3. /\ DOMAIN stream[r] = 1..Len(stream[r]) /\ Len(stream[r]) \in Nat
        /\ DOMAIN stream'[r] = 1..Len(stream'[r]) /\ Len(stream'[r]) \in Nat
    BY <2>1, <2>2, LenProperties
  <2>4. abort'[r] \in {"killed", "told", "over"} => ~Up' \/ r \in excused'
    <3>1. CASE abort[r] \in {"killed", "told", "over"}
      BY <2>1, <3>1 DEF SilentInv, Lasting
    <3>2. CASE abort[r] \notin {"killed", "told", "over"}
      BY <1>2, <3>2, KillStep
    <3> QED
      BY <3>1, <3>2
  <2>5. ASSUME NEW i \in DOMAIN stream'[r]
        PROVE  \/ i \in DOMAIN stream[r] /\ stream'[r][i] = stream[r][i]
               \/ /\ i \notin DOMAIN stream[r]
                  /\ \/ stream'[r][i].by = "dispatch" 
                     \/ stream'[r][i].by = "abort" /\ abort[r] = "killed" /\ abort'[r] = "told"
                     \/ stream'[r][i].by = "relay" /\ Up /\ UNCHANGED abort
    <3>1. CASE i \in DOMAIN stream[r]
      BY <2>1, <3>1 DEF SaysWell, Grows
    <3>2. CASE i \notin DOMAIN stream[r]
      <4>1. NewAt(r, i) /\ i \in Nat
        BY <2>3, <3>2 DEF NewAt
      <4>2. Said(r, i)
        BY <2>1, <4>1 DEF SaysWell
      <4> QED
        BY <3>2, <4>2 DEF Said, DispatchSays, AbortSays, RelaySays, ClaudeRelaySays, CodexRelaySays,
                          Entry, feedVars
    <3> QED
      BY <3>1, <3>2
  <2>6. ASSUME NEW i \in DOMAIN stream'[r], stream'[r][i].by = "abort"
        PROVE  abort'[r] \in {"told", "over"}
    BY <2>1, <2>5, <2>6 DEF SilentInv, Lasting
  <2>7. ASSUME r \notin excused', NEW i \in DOMAIN stream'[r], NEW j \in DOMAIN stream'[r],
               stream'[r][i].by = "abort", i < j
        PROVE  stream'[r][j].by # "relay"
    <3>1. r \notin excused
      BY <2>1, <2>7 DEF Lasting
    <3>2. CASE j \in DOMAIN stream[r]
      <4>1. i \in DOMAIN stream[r]
        BY <2>3, <2>7, <3>2
      <4>2. stream'[r][i] = stream[r][i] /\ stream'[r][j] = stream[r][j]
        BY <2>1, <3>2, <4>1 DEF SaysWell, Grows
      <4> QED
        BY <2>7, <3>1, <3>2, <4>1, <4>2 DEF SilentInv
    <3>3. CASE j \notin DOMAIN stream[r]
      <4> SUFFICES ASSUME stream'[r][j].by = "relay"  PROVE FALSE
        OBVIOUS
      <4>1. Up /\ UNCHANGED abort
        BY <2>5, <3>3
      <4>2. i \in DOMAIN stream[r] /\ stream[r][i].by = "abort"
        BY <2>5, <2>7, <4>1
      <4>3. abort[r] \in {"told", "over"}
        BY <4>2 DEF SilentInv
      <4> QED
        BY <3>1, <4>1, <4>3 DEF SilentInv
    <3> QED
      BY <3>2, <3>3
  <2> QED
    BY <2>4, <2>6, <2>7
<1> QED
  BY <1>1, <1>2

\* Nothing of the relay follows the end that an abort publishes: abort_job says
\* `done` only after it killed the container, and a relay never comes back.
THEOREM KilledIsSilent == Spec => []KilledTurnIsSilent
<1>1. Init => TypeInv /\ SilentInv
  <2>1. ASSUME Init  PROVE SilentInv
    BY <2>1 DEF Init, FeedInit, SilentInv, Runs
  <2> QED
    BY <2>1, InitType
<1>2. TypeInv /\ SilentInv /\ [Next]_vars => (TypeInv /\ SilentInv)'
  BY TypeStep, SilentStep
<1>3. TypeInv /\ SilentInv => KilledTurnIsSilent
  BY DEF SilentInv, KilledTurnIsSilent
<1> QED
  BY <1>1, <1>2, <1>3, PTL DEF Spec

-------------------------------------------------------------------------------
(***************************************************************************)
(* A turn is fed once.                                                     *)
(***************************************************************************)
Takes == fifo # <<>> /\ fifo' = Tail(fifo)

FifoMoves ==
    \/ UNCHANGED fifo
    \/ \E t \in Turns : fifo' = Append(fifo, t) /\ Unfed(t) /\ ~Unfed(t)'
    \/ Takes

TurnMoves ==
    \A t \in Turns :
        /\ Unfed(t)' => Unfed(t)
        /\ Taken(t)' => Taken(t) \/ (Takes /\ t = Head(fifo))
        /\ said'[t] # 0 => said[t] # 0 \/ Taken(t)

\* The way of the turns in the steps of agents-platform, dispatches and aborts.
LEMMA FeedWay ==
  ASSUME TypeInv, FeedNext, UNCHANGED <<claudeVars, codexVars, cli>>
  PROVE  FifoMoves /\ TurnMoves
<1>1. FeedTypeOK
  BY DEF TypeInv, TypeOK
<1>2. UNCHANGED <<busy, out, relay, said, job>>
  BY DEF claudeVars, codexVars
<1>3. ASSUME \A t \in Turns : Unfed(t)' => Unfed(t)  PROVE TurnMoves
  BY <1>2, <1>3 DEF TurnMoves, Taken, InOut, InRelay
<1>4. ASSUME UNCHANGED <<fifo, disp>>  PROVE FifoMoves /\ TurnMoves
  BY <1>3, <1>4 DEF FifoMoves, Unfed
<1>5. ASSUME NEW t \in Turns, NEW from, NEW to, Dispatch(t, from, to), to # "new",
             to = "sent" => from = "new", to \in {"naming", "named"} => Unfed(t)
      PROVE  \A u \in Turns : Unfed(u)' => Unfed(u)
  BY <1>1, <1>5 DEF Dispatch, Unfed, FeedTypeOK
<1>6. CASE ReadsDone \/ GivesUp \/ Drain
  BY <1>4, <1>6 DEF ReadsDone, GivesUp, Drain
<1>7. ASSUME NEW t \in Turns, Send(t)  PROVE FifoMoves /\ TurnMoves
  <2>1. Dispatch(t, "new", "sent") /\ UNCHANGED fifo
    BY <1>7 DEF Send, Dispatch
  <2> QED
    BY <1>3, <1>5, <2>1 DEF FifoMoves
<1>8. ASSUME NEW t \in Turns, AbortFinds(t) \/ AbortWork(t)  PROVE FifoMoves /\ TurnMoves
  BY <1>4, <1>8 DEF AbortWork, AbortFinds, AbortKills, AbortTells, AbortRemoves
<1>9. ASSUME NEW t \in Turns, DispatchWork(t) \/ LoseThread(t)  PROVE FifoMoves /\ TurnMoves
  <2>1. CASE NameTurn(t, Held)
    <3>1. Dispatch(t, "sent", "naming") /\ UNCHANGED fifo
      BY <2>1 DEF NameTurn
    <3>2. Unfed(t)
      BY <3>1 DEF Unfed, Dispatch
    <3> QED
      BY <1>3, <1>5, <3>1, <3>2 DEF FifoMoves
  <2>2. CASE NamedTurn(t)
    <3>1. Dispatch(t, "naming", "named") /\ UNCHANGED fifo
      BY <2>2 DEF NamedTurn
    <3>2. Unfed(t)
      BY <3>1 DEF Unfed, Dispatch
    <3> QED
      BY <1>3, <1>5, <3>1, <3>2 DEF FifoMoves
  <2>3. CASE FeedTurn(t)
    <3>1. Dispatch(t, "named", "fed") /\ fifo' = Append(fifo, t)
      BY <2>3 DEF FeedTurn
    <3>2. Unfed(t) /\ ~Unfed(t)'
      BY <1>1, <3>1 DEF Unfed, Dispatch, FeedTypeOK
    <3> QED
      BY <1>3, <1>5, <3>1, <3>2 DEF FifoMoves
  <2>4. CASE DispatchBreaks(t)
    <3>1. /\ Dispatch(t, disp[t], "failing") /\ disp[t] \in {"sent", "naming", "named"}
          /\ UNCHANGED fifo \/ fifo' = Append(fifo, t)
      BY <2>4 DEF DispatchBreaks, Dispatch
    <3>2. Unfed(t) /\ ~Unfed(t)'
      BY <1>1, <3>1 DEF Unfed, Dispatch, FeedTypeOK
    <3> QED
      BY <1>3, <1>5, <3>1, <3>2 DEF FifoMoves
  <2>5. CASE ReportFailure(t)
    <3>1. Dispatch(t, "failing", "failed") /\ UNCHANGED fifo
      BY <2>5 DEF ReportFailure
    <3> QED
      BY <1>3, <1>5, <3>1 DEF FifoMoves
  <2>6. CASE LoseThread(t)
    <3>1. Dispatch(t, disp[t], "lost") /\ UNCHANGED fifo
      BY <2>6 DEF LoseThread, Dispatch
    <3> QED
      BY <1>3, <1>5, <3>1 DEF FifoMoves
  <2> QED
    BY <1>9, <2>1, <2>2, <2>3, <2>4, <2>5, <2>6 DEF DispatchWork
<1> QED
  BY <1>6, <1>7, <1>8, <1>9 DEF FeedNext, Platform

\* The way of the turns in the steps of claude and its relay.
LEMMA ClaudeWay ==
  ASSUME TypeInv, cli = "claude", ClaudeNext, UNCHANGED <<codexVars, cli>>
  PROVE  FifoMoves /\ TurnMoves
<1>1. out \in Seq(Lines) /\ busy \in Runs /\ said \in [Turns -> 0..MaxLines] /\ RelayShape
  BY DEF TypeInv, TypeOK, ClaudeTypeOK
<1>2. UNCHANGED <<job, disp>>
  BY DEF codexVars, ClaudeNext, ClaudeWork, ClaudeTakes, ClaudeSays, ClaudeEnds, ClaudeWakes,
         ClaudeExits, ClaudeDies, ClaudeBoxStops, Stops, RelayReads, RelayPublishes,
         RelayFinalises, turnFeedVars, feedVars
<1>3. \A t \in Turns : Unfed(t)' => Unfed(t)
  BY <1>2 DEF Unfed
<1>4. Nobody \notin Turns
  BY TurnFeedAssumption
<1>5. CASE ClaudeTakes
  <2>1. Takes /\ busy' = Head(fifo) /\ UNCHANGED <<said, out, relay>>
    BY <1>5 DEF ClaudeTakes, Takes
  <2> QED
    BY <1>2, <1>3, <2>1 DEF FifoMoves, TurnMoves, Taken, InOut, InRelay
<1>6. ASSUME NEW l, NEW t \in Turns, NEW kind \in {"line", "result", "woken"}, l = Line(kind, t),
             out' = Append(out, l), t = busy \/ kind = "woken"
      PROVE  \A u \in Turns : InOut(u)' => InOut(u) \/ busy = u
  <2>1. l \in Lines /\ l.of = t /\ l.kind = kind
    BY <1>6 DEF Line, Lines
  <2>2. /\ DOMAIN out' = 1..(Len(out) + 1) /\ DOMAIN out = 1..Len(out) /\ Len(out) \in Nat
        /\ \A i \in 1..Len(out) : out'[i] = out[i]
        /\ out'[Len(out) + 1] = l
    BY <1>1, <1>6, <2>1, AppendEffect
  <2>3. \A i \in DOMAIN out' : i \in DOMAIN out \/ i = Len(out) + 1
    BY <2>2
  <2> QED
    BY <1>6, <2>1, <2>2, <2>3 DEF InOut
<1>7. CASE ClaudeSays
  <2>1. /\ out' = Append(out, Line("line", busy)) /\ busy \in Turns
        /\ said' = [said EXCEPT ![busy] = @ + 1] /\ UNCHANGED <<fifo, busy, relay>>
    BY <1>1, <1>7 DEF ClaudeSays, turnFeedVars, feedVars, Runs
  <2>2. \A u \in Turns : InOut(u)' => InOut(u) \/ busy = u
    BY <1>6, <2>1
  <2>3. \A u \in Turns : said'[u] # 0 => said[u] # 0 \/ busy = u
    BY <1>1, <2>1
  <2> QED
    BY <1>2, <1>3, <2>1, <2>2, <2>3 DEF FifoMoves, TurnMoves, Taken, InRelay
<1>8. CASE ClaudeEnds
  <2>1. /\ out' = Append(out, Line("result", busy)) /\ busy \in Turns /\ busy' = Nobody
        /\ UNCHANGED <<fifo, said, relay>>
    BY <1>1, <1>8 DEF ClaudeEnds, turnFeedVars, feedVars, Runs
  <2>2. \A u \in Turns : InOut(u)' => InOut(u) \/ busy = u
    BY <1>6, <2>1
  <2> QED
    BY <1>2, <1>3, <1>4, <2>1, <2>2 DEF FifoMoves, TurnMoves, Taken, InRelay
<1>9. ASSUME NEW t \in Turns, ClaudeWakes(t)  PROVE FifoMoves /\ TurnMoves
  <2>1. /\ out' = Append(out, Line("woken", t)) /\ UNCHANGED <<busy, fifo, said, relay>>
    BY <1>9 DEF ClaudeWakes, turnFeedVars, feedVars
  <2>2. \A u \in Turns : InOut(u)' => InOut(u) \/ busy = u
    BY <1>6, <2>1
  <2> QED
    BY <1>2, <1>3, <2>1, <2>2 DEF FifoMoves, TurnMoves, Taken, InRelay
<1>10. CASE ClaudeExits \/ ClaudeDies \/ ClaudeBoxStops
  <2>1. UNCHANGED <<fifo, out, said, relay>> /\ (busy' = busy \/ busy' = Nobody)
    BY <1>10 DEF ClaudeExits, ClaudeDies, ClaudeBoxStops, Stops, turnFeedVars, feedVars, claudeVars
  <2> QED
    BY <1>2, <1>3, <1>4, <2>1 DEF FifoMoves, TurnMoves, Taken, InOut, InRelay
<1>11. CASE RelayReads
  <2>1. /\ out # <<>> /\ out' = Tail(out) /\ UNCHANGED <<busy, fifo, said>>
        /\ relay' = [step |-> "line", run |-> current, of |-> Head(out).of, kind |-> Head(out).kind]
    BY <1>11 DEF RelayReads, turnFeedVars, feedVars
  <2>2. /\ Head(out) = out[1] /\ Len(out) \in Nat \ {0} /\ DOMAIN out = 1..Len(out)
        /\ DOMAIN out' = 1..(Len(out) - 1) /\ \A i \in 1..(Len(out) - 1) : out'[i] = out[i + 1]
    BY <1>1, <2>1, TailEffect
  <2>3. 1 \in DOMAIN out /\ \A i \in DOMAIN out' : i + 1 \in DOMAIN out /\ out'[i] = out[i + 1]
    BY <2>2
  <2>4. \A u \in Turns : InOut(u)' \/ InRelay(u)' => InOut(u)
    BY <2>1, <2>2, <2>3 DEF InOut, InRelay
  <2> QED
    BY <1>2, <1>3, <2>1, <2>4 DEF FifoMoves, TurnMoves, Taken
<1>12. CASE RelayPublishes \/ RelayFinalises
  <2>1. /\ UNCHANGED <<busy, fifo, said, out>>
        /\ relay' = RelayIdle \/ relay' = [relay EXCEPT !.step = "done"]
    BY <1>12 DEF RelayPublishes, RelayFinalises, feedVars
  <2>2. \A u \in Turns : InRelay(u)' => InRelay(u)
    BY <1>4, <2>1, RelayTypes DEF InRelay, RelayIdle
  <2> QED
    BY <1>2, <1>3, <2>1, <2>2 DEF FifoMoves, TurnMoves, Taken, InOut
<1> QED
  BY <1>5, <1>7, <1>8, <1>9, <1>10, <1>11, <1>12 DEF ClaudeNext, ClaudeWork

\* The way of the turns in the steps of codex's relay.
LEMMA CodexWay ==
  ASSUME TypeInv, cli = "codex", CodexNext, UNCHANGED <<claudeVars, cli>>
  PROVE  FifoMoves /\ TurnMoves
<1>1. UNCHANGED <<busy, said, out, relay, disp>>
  BY DEF claudeVars, CodexNext, CodexWork, CodexTakes, CodexSkips, CodexReadsRun,
         CodexSpawns, SpawnFails,
         CodexSays, CodexRetries, CodexEnds, CodexFinishes, CodexExits, TtlKillsCodex,
         CodexBoxStops, Stops, turnFeedVars, feedVars
<1>2. job \in Jobs /\ Nobody \notin Turns
  BY TurnFeedAssumption DEF TypeInv, TypeOK, CodexTypeOK
<1>3. Idle.of = Nobody
  BY DEF Idle
<1>4. CASE CodexTakes
  <2>1. Takes /\ job' = [Idle EXCEPT !.step = "taken", !.of = Head(fifo)]
    BY <1>4 DEF CodexTakes, Takes, At
  <2>2. job'.of = Head(fifo)
    BY <2>1 DEF Idle
  <2> QED
    BY <1>1, <2>1, <2>2 DEF FifoMoves, TurnMoves, Taken, InOut, InRelay, Unfed
<1>12. CASE CodexSkips
  <2>1. Takes /\ UNCHANGED job
    BY <1>12 DEF CodexSkips, Takes, codexVars
  <2> QED
    BY <1>1, <2>1 DEF FifoMoves, TurnMoves, Taken, InOut, InRelay, Unfed
<1>5. ASSUME UNCHANGED fifo, job'.of = job.of \/ job'.of = Nobody
      PROVE  FifoMoves /\ TurnMoves
  BY <1>1, <1>2, <1>5 DEF FifoMoves, TurnMoves, Taken, InOut, InRelay, Unfed
<1>6. \A n, step : Attempt(n, step).of = job.of
  BY DEF Attempt, Idle
<1>7. CASE CodexReadsRun \/ CodexSpawns \/ SpawnFails \/ CodexExits \/ CodexBoxStops
  <2>1. UNCHANGED fifo /\ job'.of = job.of
    BY <1>2, <1>7 DEF CodexReadsRun, CodexSpawns, SpawnFails, CodexExits, CodexBoxStops, Stops,
                      codexVars, turnFeedVars, feedVars, Jobs
  <2> QED
    BY <1>5, <2>1
<1>8. CASE CodexFinishes \/ TtlKillsCodex
  BY <1>3, <1>5, <1>8 DEF CodexFinishes, TtlKillsCodex, feedVars
<1>9. ASSUME NEW kind \in LineKinds, CodexSays(kind)  PROVE FifoMoves /\ TurnMoves
  <2>1. UNCHANGED fifo /\ job'.of = job.of
    BY <1>2, <1>9 DEF CodexSays, feedVars, Jobs
  <2> QED
    BY <1>5, <2>1
<1>10. ASSUME NEW rc \in 0..1, CodexRetries(rc) \/ CodexEnds(rc)  PROVE FifoMoves /\ TurnMoves
  <2>1. UNCHANGED fifo
    BY <1>10 DEF CodexRetries, CodexEnds, turnFeedVars, feedVars
  <2>2. CASE CodexRetries(rc)
    BY <1>5, <1>6, <2>1, <2>2 DEF CodexRetries
  <2>3. CASE CodexEnds(rc)
    <3>1. job'.of = job.of
      BY <2>3 DEF CodexEnds, Attempt, Idle
    <3> QED
      BY <1>5, <2>1, <3>1
  <2> QED
    BY <1>10, <2>2, <2>3
<1> QED
  BY <1>4, <1>7, <1>8, <1>9, <1>10, <1>12 DEF CodexNext, CodexWork

\* A step brings work of turn t into the streams only from the relay, where t is.
LEMMA ShownStep ==
  ASSUME TypeInv, TypeInv', SaysWell
  PROVE  \A t \in Turns : Shown(t)' => Shown(t) \/ Taken(t)
<1> SUFFICES ASSUME NEW t \in Turns, NEW r \in Runs, NEW i \in DOMAIN stream'[r], Own(stream'[r][i], t)
             PROVE  Shown(t) \/ Taken(t)
  BY DEF Shown
<1>1. CASE i \in DOMAIN stream[r]
  BY <1>1 DEF SaysWell, Grows, Shown
<1>2. CASE i \notin DOMAIN stream[r]
  <2>1. i \in Nat
    BY LenProperties DEF TypeInv, TypeOK, FeedTypeOK
  <2>2. RelaySays(r, stream'[r][i])
    BY <1>2, <2>1 DEF SaysWell, NewAt, Said, DispatchSays, AbortSays, Own
  <2>3. relay.step = "done" => relay.kind = "result"
    BY DEF TypeInv, RelayShape
  <2> QED
    BY <2>2, <2>3 DEF RelaySays, ClaudeRelaySays, CodexRelaySays, Own, Entry, Taken, InRelay
<1> QED
  BY <1>1, <1>2

\* No step feeds a turn a second time.
LEMMA FedOnceStep ==
  ASSUME TypeInv, TypeInv', FedOnce, [Next]_vars
  PROVE  FedOnce'
<1>1. CASE UNCHANGED vars
  BY <1>1 DEF vars, turnFeedVars, feedVars, claudeVars, codexVars, FedOnce, InFifo, Taken, InOut,
              InRelay, Unfed, Shown, Own
<1>2. CASE Next
  <2>1. FifoMoves /\ TurnMoves
    BY <1>2, FeedWay, ClaudeWay, CodexWay DEF Next
  <2>2. \A t \in Turns : Shown(t)' => Shown(t) \/ Taken(t)
    BY <1>2, StepSays, ShownStep
  <2>3. fifo \in Seq(Turns)
    BY DEF TypeInv, TypeOK, FeedTypeOK
  <2>4. ASSUME \A t \in Turns : InFifo(t)' => InFifo(t) \/ Unfed(t),
               \A t \in Turns : Unfed(t)' \/ InFifo(t)' => ~(Takes /\ t = Head(fifo)),
               \A t \in Turns : Unfed(t)' => ~InFifo(t)',
               \A i, j \in DOMAIN fifo' : fifo'[i] = fifo'[j] => i = j
        PROVE  FedOnce'
    <3>1. \A t \in Turns : Unfed(t)' \/ InFifo(t)' => ~Taken(t) /\ ~Shown(t) /\ said[t] = 0
      BY <2>1, <2>4 DEF FedOnce, TurnMoves
    <3>2. \A t \in Turns : Unfed(t)' \/ InFifo(t)' => ~Taken(t)' /\ ~Shown(t)' /\ said'[t] = 0
      BY <2>1, <2>2, <2>4, <3>1 DEF TurnMoves
    <3> QED
      BY <2>4, <3>2 DEF FedOnce
  <2>5. \A t \in Turns : Unfed(t)' => Unfed(t) /\ ~InFifo(t)
    BY <2>1 DEF TurnMoves, FedOnce
  <2>6. CASE UNCHANGED fifo
    <3>1. \A t \in Turns : InFifo(t)' <=> InFifo(t)
      BY <2>6 DEF InFifo
    <3>2. ~Takes
      <4>1. fifo # <<>> => Len(Tail(fifo)) = Len(fifo) - 1 /\ Len(fifo) \in Nat
        BY <2>3, HeadTailProperties, LenProperties
      <4> QED
        BY <2>6, <4>1 DEF Takes
    <3>3. \A i, j \in DOMAIN fifo' : fifo'[i] = fifo'[j] => i = j
      BY <2>6 DEF FedOnce
    <3> QED
      BY <2>4, <2>5, <3>1, <3>2, <3>3
  <2>7. ASSUME NEW u \in Turns, fifo' = Append(fifo, u), Unfed(u), ~Unfed(u)'  PROVE FedOnce'
    <3>1. /\ DOMAIN fifo' = 1..(Len(fifo) + 1) /\ DOMAIN fifo = 1..Len(fifo) /\ Len(fifo) \in Nat
          /\ \A i \in 1..Len(fifo) : fifo'[i] = fifo[i]
          /\ fifo'[Len(fifo) + 1] = u /\ Len(fifo') = Len(fifo) + 1
      BY <2>3, <2>7, AppendEffect
    <3>2. \A i \in DOMAIN fifo' : i \in DOMAIN fifo \/ i = Len(fifo) + 1
      BY <3>1
    <3>3. \A t \in Turns : InFifo(t)' => InFifo(t) \/ t = u
      BY <3>1, <3>2 DEF InFifo
    <3>4. ~Takes
      <4> SUFFICES ASSUME Takes  PROVE FALSE
        OBVIOUS
      <4>1. fifo # <<>> /\ fifo' = Tail(fifo)
        BY DEF Takes
      <4>2. DOMAIN fifo' = 1..(Len(fifo) - 1)
        BY <2>3, <4>1, TailEffect
      <4>3. Len(fifo) + 1 \in 1..(Len(fifo) + 1) /\ Len(fifo) + 1 \notin 1..(Len(fifo) - 1)
        BY <3>1
      <4> QED
        BY <3>1, <4>2, <4>3
    <3>5. \A i \in DOMAIN fifo : fifo[i] # u
      BY <2>7 DEF FedOnce, InFifo
    <3>6. \A i, j \in DOMAIN fifo' : fifo'[i] = fifo'[j] => i = j
      BY <3>1, <3>2, <3>5 DEF FedOnce
    <3> QED
      BY <2>4, <2>5, <2>7, <3>3, <3>4, <3>6
  <2>8. CASE Takes
    <3>1. /\ Head(fifo) = fifo[1] /\ Head(fifo) \in Turns /\ Len(fifo) \in Nat \ {0}
          /\ DOMAIN fifo = 1..Len(fifo) /\ DOMAIN fifo' = 1..(Len(fifo) - 1)
          /\ \A i \in 1..(Len(fifo) - 1) : fifo'[i] = fifo[i + 1]
      BY <2>3, <2>8, TailEffect DEF Takes
    <3>2. 1 \in DOMAIN fifo /\ \A i \in DOMAIN fifo' : i \in Nat \ {0} /\ i + 1 \in DOMAIN fifo /\ fifo'[i] = fifo[i + 1]
      BY <3>1
    <3>3. InFifo(Head(fifo))
      BY <3>1, <3>2 DEF InFifo
    <3>4. \A t \in Turns : InFifo(t)' => InFifo(t) /\ t # Head(fifo)
      <4> SUFFICES ASSUME NEW t \in Turns, NEW i \in DOMAIN fifo', fifo'[i] = t
                   PROVE  InFifo(t) /\ t # Head(fifo)
        BY DEF InFifo
      <4>1. i + 1 \in DOMAIN fifo /\ fifo[i + 1] = t /\ i + 1 # 1
        BY <3>2
      <4> QED
        BY <3>1, <3>2, <4>1 DEF FedOnce, InFifo
    <3>5. \A i, j \in DOMAIN fifo' : fifo'[i] = fifo'[j] => i = j
      <4> SUFFICES ASSUME NEW i \in DOMAIN fifo', NEW j \in DOMAIN fifo', fifo'[i] = fifo'[j]
                   PROVE  i = j
        OBVIOUS
      <4>1. i + 1 = j + 1
        BY <3>2 DEF FedOnce
      <4> QED
        BY <3>2, <4>1
    <3> QED
      BY <2>4, <2>5, <3>3, <3>4, <3>5
  <2> QED
    BY <2>1, <2>6, <2>7, <2>8 DEF FifoMoves
<1> QED
  BY <1>1, <1>2

-------------------------------------------------------------------------------
(***************************************************************************)
(* One attempt of codex speaks.                                            *)
(***************************************************************************)
JobSame == UNCHANGED job /\ RelayIsSilent
JobOver == job'.of = Nobody
JobTaken == Takes /\ job'.of = Head(fifo) /\ UNCHANGED stream
\* Nothing was said yet, and nothing is.
JobGoesOn == job'.of = job.of /\ job.step # "end" /\ ~job.live /\ UNCHANGED stream
\* A line is held back.
JobHolds ==
    /\ job'.of = job.of /\ job'.attempt = job.attempt
    /\ job'.live = job.live /\ job'.step = job.step /\ UNCHANGED stream
\* Something may be said.
JobSpeaks ==
    /\ job'.of = job.of /\ job'.attempt = job.attempt
    /\ job'.live \/ job'.step = "end"

\* The moves of codex's job: it stays, ends, is taken, goes on to another attempt,
\* holds a line back, or speaks.
LEMMA JobMoves ==
  ASSUME TypeInv, cli = "codex", Next
  PROVE  JobSame \/ JobOver \/ JobTaken \/ JobGoesOn \/ JobHolds \/ JobSpeaks
<1>1. job \in Jobs /\ JobShape
  BY DEF TypeInv, TypeOK, CodexTypeOK
<1>2. CASE FeedNext /\ UNCHANGED <<claudeVars, codexVars, cli>>
  BY <1>2, FeedSays DEF JobSame, codexVars
<1>3. CASE CodexNext
  <2>1. CASE CodexTakes
    <3>1. Takes /\ job' = [Idle EXCEPT !.step = "taken", !.of = Head(fifo)] /\ UNCHANGED stream
      BY <2>1 DEF CodexTakes, Takes, At
    <3> QED
      BY <3>1 DEF JobTaken, Idle
  <2>2. CASE CodexReadsRun
    BY <1>1, <2>2 DEF CodexReadsRun, At, turnFeedVars, JobGoesOn, JobShape, Jobs
  <2>3. CASE CodexSpawns
    BY <1>1, <2>3 DEF CodexSpawns, At, turnFeedVars, JobGoesOn, JobShape, Jobs
  <2>4. ASSUME NEW rc \in 0..1, CodexRetries(rc)  PROVE JobGoesOn
    <3>1. /\ job.step = "run" /\ ~job.live /\ UNCHANGED stream
          /\ job' = Attempt(job.attempt + 1, "spawn")
      BY <2>4 DEF CodexRetries, At, TryAgain, Limited, Contended, turnFeedVars
    <3> QED
      BY <3>1 DEF JobGoesOn, Attempt, Idle
  <2>5. ASSUME NEW rc \in 0..1, CodexEnds(rc)  PROVE JobSpeaks
    BY <2>5 DEF CodexEnds, JobSpeaks, Attempt, Idle
  <2>6. CASE SpawnFails
    BY <1>1, <2>6 DEF SpawnFails, JobSpeaks, Jobs
  <2>7. ASSUME NEW kind \in LineKinds, CodexSays(kind)  PROVE JobSpeaks \/ JobHolds
    <3>1. CASE job.live \/ kind = "content"
      BY <1>1, <2>7, <3>1 DEF CodexSays, JobSpeaks, Jobs
    <3>2. CASE ~(job.live \/ kind = "content")
      BY <1>1, <2>7, <3>2 DEF CodexSays, JobHolds, Jobs
    <3> QED
      BY <3>1, <3>2
  <2>8. CASE CodexFinishes \/ TtlKillsCodex
    BY <2>8 DEF CodexFinishes, TtlKillsCodex, JobOver, Idle
  <2>9. CASE CodexSkips \/ CodexExits \/ CodexBoxStops
    <3>1. UNCHANGED job /\ UNCHANGED stream
      BY <2>9 DEF CodexSkips, CodexExits, CodexBoxStops, Stops, turnFeedVars, codexVars
    <3> QED
      BY <3>1 DEF JobSame, RelayIsSilent, NewAt
  <2> QED
    BY <1>3, <2>1, <2>2, <2>3, <2>4, <2>5, <2>6, <2>7, <2>8, <2>9 DEF CodexNext, CodexWork
<1> QED
  BY <1>2, <1>3 DEF Next

\* A step keeps the attempts of codex apart: only one of them speaks.
LEMMA AttemptStep ==
  ASSUME TypeInv, TypeInv', FedOnce, AttemptInv, [Next]_vars
  PROVE  AttemptInv'
<1>1. CASE UNCHANGED vars
  BY <1>1 DEF vars, turnFeedVars, codexVars, AttemptInv, Line1
<1>2. CASE Next
  <2> SUFFICES ASSUME cli' = "codex"  PROVE AttemptInv'
    BY DEF AttemptInv
  <2>1. cli = "codex"
    BY <1>2 DEF Next
  <2>2. SaysWell
    BY <1>2, StepSays
  <2>3. stream \in [Runs -> Seq(Entries)] /\ stream' \in [Runs -> Seq(Entries)]
    BY DEF TypeInv, TypeOK, FeedTypeOK
  <2>4. ASSUME NEW r \in Runs, NEW i \in DOMAIN stream'[r], Line1(stream'[r][i]), i \notin DOMAIN stream[r]
        PROVE  /\ stream'[r][i].of = job.of /\ stream'[r][i].try = job.attempt
               /\ ~RelayIsSilent /\ stream' # stream
    <3>1. i \in Nat /\ NewAt(r, i)
      BY <2>3, <2>4, LenProperties DEF NewAt
    <3>2. stream'[r][i].by = "relay" /\ stream'[r][i].kind = "line"
      BY <2>4 DEF Line1
    <3>3. CodexRelaySays(r, stream'[r][i])
      BY <2>1, <2>2, <3>1, <3>2 DEF SaysWell, Said, DispatchSays, AbortSays, RelaySays, ClaudeRelaySays
    <3> QED
      BY <2>4, <3>1, <3>2, <3>3 DEF CodexRelaySays, Entry, RelayIsSilent
  <2>5. ASSUME NEW r \in Runs, NEW i \in DOMAIN stream'[r], i \in DOMAIN stream[r]
        PROVE  stream'[r][i] = stream[r][i]
    BY <2>2, <2>5 DEF SaysWell, Grows
  <2>6. ASSUME NEW q \in Runs, NEW r \in Runs, NEW i \in DOMAIN stream'[q], NEW j \in DOMAIN stream'[r],
               Line1(stream'[q][i]), Line1(stream'[r][j]), stream'[q][i].of = stream'[r][j].of
        PROVE  stream'[q][i].try = stream'[r][j].try
    <3>1. CASE i \in DOMAIN stream[q] /\ j \in DOMAIN stream[r]
      BY <2>1, <2>5, <2>6, <3>1 DEF AttemptInv
    <3>2. CASE i \in DOMAIN stream[q] /\ j \notin DOMAIN stream[r]
      BY <2>1, <2>4, <2>5, <2>6, <3>2 DEF AttemptInv
    <3>3. CASE i \notin DOMAIN stream[q] /\ j \in DOMAIN stream[r]
      BY <2>1, <2>4, <2>5, <2>6, <3>3 DEF AttemptInv
    <3>4. CASE i \notin DOMAIN stream[q] /\ j \notin DOMAIN stream[r]
      BY <2>4, <2>6, <3>4
    <3> QED
      BY <3>1, <3>2, <3>3, <3>4
  <2>7. ASSUME NEW r \in Runs, NEW i \in DOMAIN stream'[r],
               Line1(stream'[r][i]), stream'[r][i].of = job'.of
        PROVE  (job'.live \/ job'.step = "end") /\ stream'[r][i].try = job'.attempt
    <3>1. ASSUME i \in DOMAIN stream[r], job'.of = job.of
          PROVE  (job.live \/ job.step = "end") /\ stream'[r][i].try = job.attempt
      BY <2>1, <2>5, <2>7, <3>1 DEF AttemptInv
    <3>2. CASE JobSame
      BY <2>4, <2>7, <3>1, <3>2 DEF JobSame
    <3>3. CASE JobOver
      <4>1. stream'[r][i] \in Entries
        BY <2>3, <2>7, ElementOfSeq, LenProperties
      <4> QED
        BY <2>7, <3>3, <4>1, TurnFeedAssumption DEF JobOver, Entries
    <3>4. CASE JobTaken
      <4>1. fifo \in Seq(Turns)
        BY DEF TypeInv, TypeOK, FeedTypeOK
      <4>2. Head(fifo) \in Turns /\ Head(fifo) = fifo[1] /\ 1 \in DOMAIN fifo
        <5>1. /\ Head(fifo) = fifo[1] /\ Head(fifo) \in Turns
              /\ Len(fifo) \in Nat \ {0} /\ DOMAIN fifo = 1..Len(fifo)
          BY <3>4, <4>1, TailEffect DEF JobTaken, Takes
        <5> QED
          BY <5>1
      <4>3. InFifo(Head(fifo))
        BY <4>2 DEF InFifo
      <4>4. Own(stream[r][i], Head(fifo)) /\ i \in DOMAIN stream[r]
        BY <2>7, <3>4 DEF JobTaken, Own, Line1
      <4> QED
        BY <4>2, <4>3, <4>4 DEF FedOnce, Shown
    <3>5. CASE JobGoesOn
      BY <2>7, <3>1, <3>5 DEF JobGoesOn
    <3>6. CASE JobHolds
      BY <2>7, <3>1, <3>6 DEF JobHolds
    <3>7. CASE JobSpeaks
      BY <2>4, <2>7, <3>1, <3>7 DEF JobSpeaks
    <3> QED
      BY <1>2, <2>1, <3>2, <3>3, <3>4, <3>5, <3>6, <3>7, JobMoves
  <2> QED
    BY <2>6, <2>7 DEF AttemptInv
<1> QED
  BY <1>1, <1>2

\* What the streams of a codex container show of a turn comes from one of its
\* attempts: a retry is made only of an attempt that published nothing.
THEOREM OneAttempt == Spec => []OneAttemptSpeaks
<1>1. Init => TypeInv /\ FedOnce /\ AttemptInv
  <2>1. ASSUME Init  PROVE FedOnce /\ AttemptInv
    <3>1. /\ fifo = <<>> /\ stream = [r \in Runs |-> <<>>] /\ busy = Nobody /\ out = <<>>
          /\ relay = RelayIdle /\ job = Idle /\ said = [t \in Turns |-> 0]
      BY <2>1 DEF Init, FeedInit, ClaudeInit, CodexInit
    <3>2. \A t \in Turns : ~Taken(t) /\ ~Shown(t) /\ ~InFifo(t)
      BY <3>1, TurnFeedAssumption DEF Taken, InOut, InRelay, RelayIdle, Idle, Shown, InFifo
    <3> QED
      BY <3>1, <3>2 DEF FedOnce, AttemptInv
  <2> QED
    BY <2>1, InitType
<1>2. TypeInv /\ FedOnce /\ AttemptInv /\ [Next]_vars => (TypeInv /\ FedOnce /\ AttemptInv)'
  BY TypeStep, FedOnceStep, AttemptStep
<1>3. TypeInv /\ AttemptInv => OneAttemptSpeaks
  BY DEF AttemptInv, OneAttemptSpeaks, Line1
<1> QED
  BY <1>1, <1>2, <1>3, PTL DEF Spec

-------------------------------------------------------------------------------
(***************************************************************************)
(* claude's relay ends no run twice.                                       *)
(***************************************************************************)
NoNewEnd == \A r \in Runs, i \in Nat : NewAt(r, i) => ~RelayDone(stream'[r][i])

\* What a step does to the end of runs when the relay does not end one.
EndsNone ==
    /\ NoNewEnd
    /\ finalised' = finalised
    /\ relay'.step = "done" => relay'.run \notin finalised

\* The steps that end a run are those in which claude's relay finalises it.
LEMMA EndMoves ==
  ASSUME TypeInv, EndInv, cli = "claude", Next
  PROVE  EndsNone \/ RelayFinalises
<1>1. RelayShape
  BY DEF TypeInv
<1>2. relay.step = "done" => relay.run \notin finalised
  BY DEF EndInv
<1>3. CASE FeedNext /\ UNCHANGED <<claudeVars, codexVars, cli>>
  BY <1>2, <1>3, FeedSays DEF EndsNone, NoNewEnd, RelayIsSilent, RelayDone, claudeVars
<1>4. CASE ClaudeNext /\ ~RelayPublishes /\ ~RelayFinalises
  <2>1. UNCHANGED <<stream, finalised>> /\ (UNCHANGED relay \/ relay'.step = "line")
    BY <1>4 DEF ClaudeNext, ClaudeWork, ClaudeTakes, ClaudeSays, ClaudeEnds, ClaudeWakes,
                ClaudeExits, ClaudeDies, ClaudeBoxStops, Stops, RelayReads, turnFeedVars,
                claudeVars
  <2> QED
    BY <1>2, <2>1 DEF EndsNone, NoNewEnd, NewAt
<1>5. CASE RelayPublishes
  <2>1. relay.step = "line" /\ UNCHANGED finalised
    BY <1>5 DEF RelayPublishes
  <2>2. SaysWell
    BY StepSays
  <2>3. relay.kind \in {"none", "line", "result", "woken"}
    BY RelayTypes
  <2>4. NoNewEnd
    BY <2>1, <2>2, <2>3 DEF NoNewEnd, SaysWell, Said, DispatchSays, AbortSays, RelaySays,
                           ClaudeRelaySays, CodexRelaySays, Entry, RelayDone
  <2>5. relay' = RelayIdle \/ (EndsRun /\ relay' = [relay EXCEPT !.step = "done"])
    BY <1>5 DEF RelayPublishes
  <2>6. relay'.step = "done" => relay'.run \notin finalised
    BY <2>5, RelayTypes DEF RelayIdle, EndsRun
  <2> QED
    BY <2>1, <2>4, <2>6 DEF EndsNone
<1> QED
  BY <1>3, <1>4, <1>5 DEF Next

\* A step keeps the ends of a run in line with the set `finalised`.
LEMMA EndStep ==
  ASSUME TypeInv, TypeInv', EndInv, [Next]_vars
  PROVE  EndInv'
<1>1. CASE UNCHANGED vars
  BY <1>1 DEF vars, turnFeedVars, claudeVars, EndInv, DoneAt, RelayDone
<1>2. CASE Next
  <2> SUFFICES ASSUME cli' = "claude"  PROVE EndInv'
    BY DEF EndInv
  <2>1. cli = "claude"
    BY <1>2 DEF Next
  <2>2. SaysWell /\ excused \subseteq excused'
    BY <1>2, StepSays, StepLasts DEF Lasting
  <2>3. stream \in [Runs -> Seq(Entries)] /\ stream' \in [Runs -> Seq(Entries)]
        /\ \A r \in Turns : r \in Runs
    BY DEF TypeInv, TypeOK, FeedTypeOK, Runs
  <2>4. ASSUME NEW r \in Turns, NEW i \in DOMAIN stream'[r]
        PROVE  \/ i \in DOMAIN stream[r] /\ stream'[r][i] = stream[r][i]
               \/ NewAt(r, i) /\ i \in Nat
    <3>1. i \in Nat
      BY <2>3, <2>4, LenProperties
    <3> QED
      BY <2>2, <2>3, <3>1 DEF SaysWell, Grows, NewAt
  <2>5. ASSUME NEW r \in Turns, NEW i \in DoneAt(r)'
        PROVE  \/ i \in DoneAt(r) /\ stream'[r][i] = stream[r][i]
               \/ NewAt(r, i) /\ i \in Nat /\ RelayDone(stream'[r][i])
    BY <2>4, <2>5 DEF DoneAt
  <2>6. CASE EndsNone
    <3>1. \A r \in Turns : \A i \in DoneAt(r)' : i \in DoneAt(r) /\ stream'[r][i] = stream[r][i]
      BY <2>3, <2>5, <2>6 DEF EndsNone, NoNewEnd
    <3> QED
      BY <2>1, <2>2, <2>6, <3>1 DEF EndInv, EndsNone
  <2>7. CASE RelayFinalises
    <3> DEFINE run == relay.run
               e == Entry("relay", "done", relay.of, 0)
    <3>1. /\ relay.step = "done" /\ relay'.step = "idle" /\ run \in Runs /\ run \notin finalised
          /\ relay.of \in Turns
      BY <2>1, <2>7, RelayTypes DEF RelayFinalises, RelayIdle, EndInv, TypeInv, RelayShape
    <3>2. e \in Entries /\ e.of = relay.of
      BY <3>1 DEF Entry, Entries
    <3>3. CASE UNCHANGED stream
      <4>1. \A r \in Turns : \A i \in DoneAt(r)' : i \in DoneAt(r) /\ stream'[r][i] = stream[r][i]
        BY <3>3 DEF DoneAt
      <4>2. finalised \subseteq finalised'
        BY <2>7 DEF RelayFinalises
      <4> QED
        BY <2>1, <2>2, <3>1, <4>1, <4>2 DEF EndInv
    <3>4. CASE Says(run, <<e>>)
      <4>1. \A r \in Runs, i \in Nat : NewAt(r, i) => r = run /\ i = Len(stream[run]) + 1 /\ stream'[r][i] = e
        BY <3>1, <3>2, <3>4, SaysOneEffect DEF TypeInv, TypeOK
      <4>2. (finalised' = finalised \union {run}) \/ (finalised' = finalised /\ relay.of \in excused')
        BY <2>7 DEF RelayFinalises, Fault
      <4>3. ASSUME NEW r \in Turns, NEW i \in DoneAt(r)', stream'[r][i].of \notin excused'
            PROVE  \/ i \in DoneAt(r) /\ stream'[r][i] = stream[r][i] /\ stream[r][i].of \notin excused
                      /\ r \in finalised
                   \/ r = run /\ run \in finalised' /\ i = Len(stream[run]) + 1
        <5>1. CASE i \in DoneAt(r) /\ stream'[r][i] = stream[r][i]
          BY <2>1, <2>2, <4>3, <5>1 DEF EndInv
        <5>2. CASE NewAt(r, i) /\ i \in Nat
          BY <2>3, <3>2, <4>1, <4>2, <4>3, <5>2
        <5> QED
          BY <2>5, <4>3, <5>1, <5>2
      <4>4. ASSUME NEW r \in Turns, NEW i \in DoneAt(r)', stream'[r][i].of \notin excused'
            PROVE  r \in finalised'
        BY <4>2, <4>3, <4>4
      <4>5. ASSUME NEW r \in Turns, NEW i \in DoneAt(r)', stream'[r][i].of \notin excused',
                   NEW j \in DoneAt(r)', stream'[r][j].of \notin excused'
            PROVE  i = j
        BY <2>1, <3>1, <4>3, <4>5 DEF EndInv
      <4> QED
        BY <3>1, <4>4, <4>5 DEF EndInv
    <3> QED
      BY <2>7, <3>3, <3>4 DEF RelayFinalises
  <2> QED
    BY <1>2, <2>1, <2>6, <2>7, EndMoves
<1> QED
  BY <1>1, <1>2

\* claude's relay ends no run of the session twice, whatever turns share the
\* container: the set `finalised` is looked at before an end and marked after.
THEOREM EndsOnce == Spec => []EndedOnce
<1>1. Init => TypeInv /\ EndInv
  <2>1. ASSUME Init  PROVE EndInv
    BY <2>1 DEF Init, FeedInit, ClaudeInit, RelayIdle, EndInv, DoneAt, Runs
  <2> QED
    BY <2>1, InitType
<1>2. TypeInv /\ EndInv /\ [Next]_vars => (TypeInv /\ EndInv)'
  BY TypeStep, EndStep
<1>3. EndInv => EndedOnce
  <2> SUFFICES ASSUME EndInv, cli = "claude", NEW r \in Turns
               PROVE  Cardinality({i \in DoneAt(r) : stream[r][i].of \notin excused}) <= 1
    BY DEF EndedOnce
  <2> DEFINE S == {i \in DoneAt(r) : stream[r][i].of \notin excused}
  <2>1. \A i, j \in S : i = j
    BY DEF EndInv
  <2>2. CASE S = {}
    BY <2>2, FS_EmptySet
  <2>3. CASE S # {}
    <3>1. PICK i \in S : TRUE
      BY <2>3
    <3>2. S = {i}
      BY <2>1, <3>1
    <3>3. Cardinality({i}) = 1
      BY FS_Singleton
    <3>4. Cardinality(S) = 1
      BY <3>2, <3>3, Zenon
    <3> HIDE DEF S
    <3>5. Cardinality(S) <= 1
      BY <3>4
    <3> QED
      BY <3>5 DEF S
  <2> QED
    BY <2>2, <2>3
<1> QED
  BY <1>1, <1>2, <1>3, PTL DEF Spec

-------------------------------------------------------------------------------
(***************************************************************************)
(* To whom lines are given.                                                *)
(***************************************************************************)

\* A turn that was named stays so, and only a named one gets lines.
LEMMA NameMoves ==
  ASSUME TypeInv, Next
  PROVE  /\ \A t \in Turns : Named(t) => Named(t)'
         /\ \A t \in Turns : current' = t => current = t \/ Named(t)'
         /\ \A t \in Turns : relay'.run = t => relay.run = t \/ current = t
         /\ \A t \in Turns : job'.run = t => job.run = t \/ current = t
<1>1. FeedTypeOK /\ job \in Jobs /\ Nobody \notin Turns
  BY TurnFeedAssumption DEF TypeInv, TypeOK, CodexTypeOK
<1>2. CASE FeedNext /\ UNCHANGED <<claudeVars, codexVars, cli>>
  <2>1. UNCHANGED <<relay, job>>
    BY <1>2 DEF claudeVars, codexVars
  <2>2. CASE UNCHANGED <<disp, current>>
    BY <2>1, <2>2 DEF Named
  <2>3. ASSUME NEW t \in Turns, Send(t)
        PROVE  UNCHANGED current /\ \A u \in Turns : Named(u) => Named(u)'
    BY <1>1, <2>3 DEF Send, Named, FeedTypeOK
  <2>4. ASSUME NEW t \in Turns, NameTurn(t, Held)
        PROVE  current' = Nobody /\ \A u \in Turns : Named(u) => Named(u)'
    BY <1>1, <2>4 DEF NameTurn, Dispatch, Named, FeedTypeOK
  <2>5. ASSUME NEW t \in Turns, NamedTurn(t)
        PROVE  current' = t /\ Named(t)' /\ \A u \in Turns : Named(u) => Named(u)'
    BY <1>1, <2>5 DEF NamedTurn, Dispatch, Named, FeedTypeOK
  <2>6. ASSUME NEW t \in Turns, FeedTurn(t) \/ DispatchBreaks(t) \/ ReportFailure(t) \/ LoseThread(t)
        PROVE  UNCHANGED current /\ \A u \in Turns : Named(u) => Named(u)'
    BY <1>1, <2>6 DEF FeedTurn, DispatchBreaks, ReportFailure, LoseThread, Dispatch, Named, FeedTypeOK
  <2>7. ASSUME NEW t \in Turns, AbortFinds(t) \/ AbortWork(t)  PROVE UNCHANGED <<disp, current>>
    BY <2>7 DEF AbortFinds, AbortWork, AbortKills, AbortTells, AbortRemoves
  <2>8. ASSUME ReadsDone \/ GivesUp \/ Drain  PROVE UNCHANGED <<disp, current>>
    BY <2>8 DEF ReadsDone, GivesUp, Drain
  <2> QED
    BY <1>1, <1>2, <2>1, <2>2, <2>3, <2>4, <2>5, <2>6, <2>7, <2>8 DEF FeedNext, Platform, DispatchWork
<1>3. CASE ClaudeNext /\ UNCHANGED <<codexVars, cli>>
  <2>1. UNCHANGED <<disp, current, job>>
    BY <1>3 DEF codexVars, ClaudeNext, ClaudeWork, ClaudeTakes, ClaudeSays, ClaudeEnds, ClaudeWakes,
         ClaudeExits, ClaudeDies, ClaudeBoxStops, Stops, RelayReads, RelayPublishes,
         RelayFinalises, turnFeedVars, feedVars
  <2>2. \/ UNCHANGED relay
        \/ relay' = RelayIdle
        \/ relay' = [relay EXCEPT !.step = "done"]
        \/ relay' = [step |-> "line", run |-> current, of |-> Head(out).of, kind |-> Head(out).kind]
    BY <1>3 DEF ClaudeNext, ClaudeWork, ClaudeTakes, ClaudeSays, ClaudeEnds, ClaudeWakes,
         ClaudeExits, ClaudeDies, ClaudeBoxStops, claudeVars, RelayReads, RelayPublishes,
         RelayFinalises
  <2>3. \A t \in Turns : relay'.run = t => relay.run = t \/ current = t
    BY <1>1, <2>2, RelayTypes DEF RelayIdle
  <2> QED
    BY <2>1, <2>3 DEF Named
<1>4. CASE CodexNext /\ UNCHANGED <<claudeVars, cli>>
  <2>1. UNCHANGED <<disp, current, relay>>
    BY <1>4 DEF claudeVars, CodexNext, CodexWork, CodexTakes, CodexSkips, CodexReadsRun,
           CodexSpawns, SpawnFails,
         CodexSays, CodexRetries, CodexEnds, CodexFinishes, CodexExits, TtlKillsCodex,
         CodexBoxStops, Stops, turnFeedVars, feedVars
  <2>2. job'.run \in {job.run, current, Nobody}
    <3>1. CASE CodexTakes \/ CodexFinishes \/ TtlKillsCodex
      <4>1. job' = Idle \/ job' = [Idle EXCEPT !.step = "taken", !.of = Head(fifo)]
        BY <3>1 DEF CodexTakes, CodexFinishes, TtlKillsCodex
      <4>2. Idle.run = Nobody /\ \A h : [Idle EXCEPT !.step = "taken", !.of = h].run = Nobody
        BY DEF Idle
      <4>3. job'.run = Nobody
        BY <4>1, <4>2
      <4> QED
        BY <4>3
    <3>2. CASE CodexReadsRun \/ CodexSpawns \/ SpawnFails
      BY <1>1, <3>2 DEF CodexReadsRun, CodexSpawns, SpawnFails, Jobs
    <3>3. ASSUME NEW kind \in LineKinds, CodexSays(kind)  PROVE job'.run = job.run
      BY <1>1, <3>3 DEF CodexSays, Jobs
    <3>4. ASSUME NEW rc \in 0..1, CodexRetries(rc) \/ CodexEnds(rc)  PROVE job'.run = job.run
      BY <3>4 DEF CodexRetries, CodexEnds, Attempt, Idle
    <3>5. CASE CodexSkips \/ CodexExits \/ CodexBoxStops
      BY <3>5 DEF CodexSkips, CodexExits, CodexBoxStops, codexVars
    <3> QED
      BY <1>4, <3>1, <3>2, <3>3, <3>4, <3>5 DEF CodexNext, CodexWork
  <2> QED
    BY <1>1, <2>1, <2>2 DEF Named
<1> QED
  BY <1>2, <1>3, <1>4 DEF Next

\* A step keeps the streams attributed: the relays write only into named runs.
LEMMA AttributedStep ==
  ASSUME TypeInv, TypeInv', Attributed, [Next]_vars
  PROVE  Attributed'
<1>1. CASE UNCHANGED vars
  BY <1>1 DEF vars, turnFeedVars, feedVars, claudeVars, codexVars, Attributed, Named
<1>2. CASE Next
  <2> SUFFICES ASSUME NEW r \in Turns
               PROVE  /\ current' = r \/ relay'.run = r \/ job'.run = r => Named(r)'
                      /\ \A i \in DOMAIN stream'[r] :
                            IF stream'[r][i].by = "relay" THEN Named(r)' ELSE stream'[r][i].of = r /\ stream'[r][i].kind # "line"
    BY DEF Attributed
  <2>1. /\ Named(r) => Named(r)'
        /\ current' = r => current = r \/ Named(r)'
        /\ relay'.run = r => relay.run = r \/ current = r
        /\ job'.run = r => job.run = r \/ current = r
    BY <1>2, NameMoves
  <2>2. SaysWell /\ r \in Runs
    BY <1>2, StepSays DEF Runs
  <2>3. ASSUME NEW i \in DOMAIN stream'[r]
        PROVE  IF stream'[r][i].by = "relay" THEN Named(r)' ELSE stream'[r][i].of = r /\ stream'[r][i].kind # "line"
    <3>1. i \in Nat
      BY <2>2, LenProperties DEF TypeInv, TypeOK, FeedTypeOK
    <3>2. CASE i \in DOMAIN stream[r]
      BY <2>1, <2>2, <3>2 DEF SaysWell, Grows, Attributed
    <3>3. CASE i \notin DOMAIN stream[r]
      <4>1. Said(r, i)
        BY <2>2, <3>1, <3>3 DEF SaysWell, NewAt
      <4>2. CASE RelaySays(r, stream'[r][i])
        <5>1. relay.run = r \/ job.run = r
          BY <4>2 DEF RelaySays, ClaudeRelaySays, CodexRelaySays
        <5>2. stream'[r][i].by = "relay"
          BY <4>2 DEF RelaySays, ClaudeRelaySays, CodexRelaySays, Entry
        <5> QED
          BY <2>1, <5>1, <5>2 DEF Attributed
      <4> QED
        BY <4>1, <4>2 DEF Said, DispatchSays, AbortSays
    <3> QED
      BY <3>2, <3>3
  <2> QED
    BY <2>1, <2>3 DEF Attributed
<1> QED
  BY <1>1, <1>2

-------------------------------------------------------------------------------
(***************************************************************************)
(* A turn apart has the container to itself.                               *)
(***************************************************************************)
FedNow(t) == fifo' = Append(fifo, t) /\ Unfed(t) /\ ~Unfed(t)'

\* The container holds a turn from the moment it is fed.
LEMMA BoxMoves ==
  ASSUME TypeInv, FifoMoves, TurnMoves, NEW t \in Turns, InBox(t)'
  PROVE  InBox(t) \/ FedNow(t)
<1>1. fifo \in Seq(Turns)
  BY DEF TypeInv, TypeOK, FeedTypeOK
<1>2. ASSUME Takes
      PROVE  InFifo(Head(fifo)) /\ \A u : InFifo(u)' => InFifo(u)
  <2>1. /\ Head(fifo) = fifo[1] /\ Len(fifo) \in Nat \ {0}
        /\ DOMAIN fifo = 1..Len(fifo) /\ DOMAIN fifo' = 1..(Len(fifo) - 1)
        /\ \A i \in 1..(Len(fifo) - 1) : fifo'[i] = fifo[i + 1]
    BY <1>1, <1>2, TailEffect DEF Takes
  <2>2. 1 \in DOMAIN fifo /\ \A i \in DOMAIN fifo' : i + 1 \in DOMAIN fifo /\ fifo'[i] = fifo[i + 1]
    BY <2>1
  <2> QED
    BY <2>1, <2>2 DEF InFifo
<1>3. CASE Taken(t)'
  BY <1>2, <1>3 DEF TurnMoves, InBox
<1>4. CASE InFifo(t)'
  <2>1. CASE UNCHANGED fifo
    BY <1>4, <2>1 DEF InFifo, InBox
  <2>2. CASE Takes
    BY <1>2, <1>4, <2>2 DEF InBox
  <2>3. ASSUME NEW u \in Turns, FedNow(u)  PROVE InBox(t) \/ FedNow(t)
    <3>1. /\ DOMAIN fifo' = 1..(Len(fifo) + 1) /\ DOMAIN fifo = 1..Len(fifo) /\ Len(fifo) \in Nat
          /\ \A i \in 1..Len(fifo) : fifo'[i] = fifo[i]
          /\ fifo'[Len(fifo) + 1] = u
      BY <1>1, <2>3, AppendEffect DEF FedNow
    <3>2. \A i \in DOMAIN fifo' : i \in DOMAIN fifo \/ i = Len(fifo) + 1
      BY <3>1
    <3>3. InFifo(t) \/ t = u
      BY <1>4, <3>1, <3>2 DEF InFifo
    <3> QED
      BY <2>3, <3>3 DEF InBox
  <2> QED
    BY <2>1, <2>2, <2>3 DEF FifoMoves, FedNow
<1> QED
  BY <1>3, <1>4 DEF InBox

\* What the model counts as held by the container is what is fed and not over.
LEMMA HeldIsBox ==
  ASSUME TypeInv  PROVE Held = {t \in Turns : InBox(t)}
<1>1. cli \in {"claude", "codex"} /\ Nobody \notin Turns
  BY TurnFeedAssumption DEF TypeInv, TypeOK
<1>2. CASE cli = "claude"
  <2>1. \A t \in Turns : job.of # t
    BY <1>1, <1>2 DEF TypeInv, OneRelay, Idle
  <2> QED
    BY <1>2, <2>1 DEF Held, ClaudeHolds, InBox, InFifo, Taken, InOut, InRelay
<1>3. CASE cli = "codex"
  <2>1. \A t \in Turns : busy # t /\ ~InOut(t) /\ ~InRelay(t)
    BY <1>1, <1>3 DEF TypeInv, OneRelay, RelayIdle, InOut, InRelay
  <2> QED
    BY <1>1, <1>3, <2>1 DEF Held, CodexHolds, InBox, InFifo, Taken
<1> QED
  BY <1>1, <1>2, <1>3

\* What a step brings into the stream of a turn apart.
LEMMA ForeignStep ==
  ASSUME TypeInv, TypeInv', SaysWell, NEW r \in Turns, NoneForeign(r),
         relay.run = r => InRelay(r) \/ relay.kind = "woken",
         job.run = r => job.of = r
  PROVE  NoneForeign(r)'
<1> SUFFICES ASSUME NEW i \in DOMAIN stream'[r], stream'[r][i].of # r
             PROVE  stream'[r][i].kind = "woken"
  BY DEF NoneForeign
<1>1. r \in Runs /\ i \in Nat
  BY LenProperties DEF TypeInv, TypeOK, FeedTypeOK, Runs
<1>2. CASE i \in DOMAIN stream[r]
  BY <1>1, <1>2 DEF SaysWell, Grows, NoneForeign
<1>3. CASE i \notin DOMAIN stream[r]
  <2>1. Said(r, i)
    BY <1>1, <1>3 DEF SaysWell, NewAt
  <2>2. RelaySays(r, stream'[r][i])
    BY <2>1 DEF Said, DispatchSays, AbortSays
  <2>3. CASE CodexRelaySays(r, stream'[r][i])
    BY <2>3 DEF CodexRelaySays, Entry
  <2>4. CASE ClaudeRelaySays(r, stream'[r][i])
    <3>1. relay.run = r /\ stream'[r][i].of = relay.of
      BY <2>4 DEF ClaudeRelaySays, Entry
    <3>2. relay.kind = "woken"
      BY <3>1 DEF InRelay
    <3>3. relay.step # "done"
      BY <3>2 DEF TypeInv, RelayShape
    <3> QED
      BY <2>4, <3>2, <3>3 DEF ClaudeRelaySays, Entry
  <2> QED
    BY <2>2, <2>3, <2>4 DEF RelaySays
<1> QED
  BY <1>2, <1>3

\* A turn that is named when the container is empty has it to itself.
LEMMA ApartNamed ==
  ASSUME TypeInv, TypeInv', FedOnce, Attributed, Apart, NEW t \in Turns, NameTurn(t, Held),
         UNCHANGED <<claudeVars, codexVars, cli>>, FifoMoves, TurnMoves
  PROVE  Apart'
<1>1. /\ disp \in [Turns -> {"new", "sent", "naming", "named", "fed", "failing", "failed", "lost"}]
      /\ apart \in SUBSET Turns /\ Nobody \notin Turns /\ fifo \in Seq(Turns)
  BY TurnFeedAssumption DEF TypeInv, TypeOK, FeedTypeOK
<1> DEFINE others == Held \union {u \in Turns \ {t} : disp[u] \in {"naming", "named"}}
<1>2. /\ disp[t] = "sent" /\ disp' = [disp EXCEPT ![t] = "naming"] /\ current' = Nobody
      /\ apart' = (IF others = {} THEN apart \union {t} ELSE apart \ others)
      /\ UNCHANGED <<fifo, stream, relay, job, busy, out>>
  BY DEF NameTurn, Dispatch, claudeVars, codexVars
<1>3. \A u \in Turns : u \notin others => ~InBox(u) /\ (u # t => ~Naming(u))
  BY HeldIsBox DEF Naming
<1> HIDE DEF others
<1>4. \A u \in Turns : InBox(u)' <=> InBox(u)
  BY <1>2 DEF InBox, InFifo, Taken, InOut, InRelay
<1>5. \A u \in Turns \ {t} : Naming(u)' <=> Naming(u)
  BY <1>1, <1>2 DEF Naming
<1>6. t \notin apart
  BY <1>2 DEF Apart, ApartAt
<1>7. ASSUME NEW r \in apart, r \notin others  PROVE ApartAt(r)'
  <2>1. r \in Turns /\ r # t /\ ApartAt(r)
    BY <1>1, <1>6, <1>7 DEF Apart
  <2>2. ~Naming(r)' /\ ~InBox(r)' /\ current' # r /\ disp'[r] = disp[r]
    BY <1>1, <1>2, <1>3, <1>4, <1>5, <1>7, <2>1
  <2>3. disp'[r] # "named"
    BY <2>2 DEF Naming
  <2>4. NoneForeign(r)' /\ InRelay(r)' = InRelay(r)
    BY <1>2, <2>1 DEF ApartAt, NoneForeign, InRelay
  <2>5. UNCHANGED <<relay, job>>
    BY <1>2
  <2> QED
    BY <2>1, <2>2, <2>3, <2>4, <2>5 DEF ApartAt
<1>8. ASSUME others = {}  PROVE ApartAt(t)'
  <2>1. Unfed(t) /\ ~Named(t) /\ disp'[t] = "naming"
    BY <1>1, <1>2 DEF Unfed, Named
  <2>2. ~InFifo(t) /\ ~Taken(t)
    BY <2>1 DEF FedOnce
  <2>3. OnlyIn(t)'
    BY <1>3, <1>4, <1>5, <1>8 DEF OnlyIn
  <2>4. ~InBox(t)' /\ ~InRelay(t)'
    BY <1>2, <1>4, <2>2 DEF InBox, Taken, InRelay
  <2>5. relay'.run # t /\ job'.run # t
    BY <1>2, <2>1 DEF Attributed
  <2>6. NoneForeign(t)'
    BY <1>2, <2>1 DEF NoneForeign, Attributed
  <2> QED
    BY <2>1, <2>3, <2>4, <2>5, <2>6 DEF ApartAt
<1>9. CASE others = {}
  BY <1>2, <1>7, <1>8, <1>9 DEF Apart
<1>10. CASE others # {}
  BY <1>2, <1>7, <1>10 DEF Apart
<1> QED
  BY <1>9, <1>10

\* The dispatch goes on: what happens to a turn apart when turn t is moved.
LEMMA ApartDispatched ==
  ASSUME TypeInv, TypeInv', FedOnce, Apart, FifoMoves, TurnMoves, SaysWell, NEW t \in Turns,
         Send(t) \/ NamedTurn(t) \/ FeedTurn(t) \/ DispatchBreaks(t) \/ ReportFailure(t) \/ LoseThread(t),
         UNCHANGED <<claudeVars, codexVars, cli>>
  PROVE  Apart'
<1>1. /\ disp \in [Turns -> {"new", "sent", "naming", "named", "fed", "failing", "failed", "lost"}]
      /\ apart \in SUBSET Turns /\ Nobody \notin Turns /\ fifo \in Seq(Turns)
  BY TurnFeedAssumption DEF TypeInv, TypeOK, FeedTypeOK
<1>2. UNCHANGED <<apart, relay, job, busy, out>>
  BY DEF Send, NamedTurn, FeedTurn, DispatchBreaks, ReportFailure, LoseThread, claudeVars, codexVars
<1>3. \A u \in Turns \ {t} : disp'[u] = disp[u]
  BY <1>1 DEF Send, NamedTurn, FeedTurn, DispatchBreaks, ReportFailure, LoseThread, Dispatch
<1>4. \A u \in Turns : FedNow(u) => u = t /\ disp[t] = "named"
  <2> SUFFICES ASSUME NEW u \in Turns, FedNow(u)  PROVE u = t /\ disp[t] = "named"
    OBVIOUS
  <2>1. u = t
    BY <1>3 DEF FedNow, Unfed
  <2>2. fifo' # fifo
    <3>1. Len(fifo') = Len(fifo) + 1 /\ Len(fifo) \in Nat
      BY <1>1, AppendEffect DEF FedNow
    <3> QED
      BY <3>1
  <2> QED
    BY <2>1, <2>2 DEF Send, NamedTurn, FeedTurn, DispatchBreaks, ReportFailure, LoseThread, Dispatch
<1>5. \A u \in Turns : InBox(u)' => InBox(u) \/ (u = t /\ disp[t] = "named")
  BY <1>4, BoxMoves
<1>6. ASSUME NEW r \in apart  PROVE ApartAt(r)'
  <2>1. r \in Turns /\ ApartAt(r)
    BY <1>1, <1>6 DEF Apart
  <2>2. disp'[r] \notin {"new", "sent"}
    <3>1. CASE r # t
      BY <1>3, <2>1, <3>1 DEF ApartAt
    <3>2. CASE r = t
      <4>1. ~Send(t)
        BY <2>1, <3>2 DEF ApartAt, Send
      <4> QED
        BY <1>1, <3>2, <4>1 DEF NamedTurn, FeedTurn, DispatchBreaks, ReportFailure, LoseThread, Dispatch
    <3> QED
      BY <3>1, <3>2
  <2>3. NoneForeign(r)'
    BY <2>1, ForeignStep DEF ApartAt
  <2>4. InRelay(r)' = InRelay(r)
    BY <1>2 DEF InRelay
  <2>5. CASE NamedTurn(t)
    <3>1. disp[t] = "naming" /\ disp'[t] = "named" /\ current' = t
      BY <1>1, <2>5 DEF NamedTurn, Dispatch
    <3>2. \A u \in Turns : (Naming(u)' <=> Naming(u)) /\ (InBox(u)' => InBox(u))
      BY <1>3, <1>5, <3>1 DEF Naming
    <3>3. CASE r = t
      <4>1. OnlyIn(r)
        BY <2>1, <3>1, <3>3 DEF ApartAt, Naming
      <4>2. OnlyIn(r)'
        BY <3>2, <4>1 DEF OnlyIn
      <4> QED
        BY <1>2, <2>1, <2>2, <2>3, <2>4, <3>1, <3>3, <4>2 DEF ApartAt
    <3>4. CASE r # t
      <4>1. ~OnlyIn(r)
        BY <3>1, <3>4 DEF OnlyIn, Naming
      <4>2. ~Naming(r) /\ current # r
        BY <2>1, <4>1 DEF ApartAt
      <4>3. ~Naming(r)' /\ disp'[r] # "named" /\ ~InBox(r)'
        BY <2>1, <3>2, <4>2 DEF ApartAt, Naming
      <4> QED
        BY <1>2, <2>1, <2>2, <2>3, <2>4, <3>1, <3>4, <4>3 DEF ApartAt
    <3> QED
      BY <3>3, <3>4
  <2>6. CASE ~NamedTurn(t)
    <3>1. current' = current
      BY <2>6 DEF Send, FeedTurn, DispatchBreaks, ReportFailure, LoseThread
    <3>2. disp'[t] \notin {"naming", "named"}
      BY <1>1, <2>6 DEF Send, FeedTurn, DispatchBreaks, ReportFailure, LoseThread, Dispatch
    <3>3. \A u \in Turns : Naming(u)' => Naming(u)
      BY <1>3, <3>2 DEF Naming
    <3>4. disp[t] = "named" => Naming(t)
      BY DEF Naming
    <3>5. ASSUME Naming(r) \/ current = r  PROVE OnlyIn(r)'
      <4>1. OnlyIn(r)
        BY <2>1, <3>5 DEF ApartAt
      <4>2. \A u \in Turns \ {r} : ~InBox(u)'
        BY <1>5, <3>4, <4>1 DEF OnlyIn
      <4> QED
        BY <3>3, <4>1, <4>2 DEF OnlyIn
    <3>6. ASSUME disp'[r] = "named" \/ InBox(r)'  PROVE current = r
      <4>1. disp'[r] = "named" => disp[r] = "named"
        BY <1>3, <2>1, <3>2
      <4> QED
        BY <1>5, <2>1, <3>6, <4>1 DEF ApartAt
    <3> QED
      BY <1>2, <2>1, <2>2, <2>3, <2>4, <3>1, <3>3, <3>5, <3>6 DEF ApartAt
  <2> QED
    BY <2>5, <2>6
<1> QED
  BY <1>2, <1>6 DEF Apart

\* Where claude's relay takes its line from.
LEMMA RelayMoves ==
  ASSUME TypeInv, Next
  PROVE  \/ UNCHANGED relay
         \/ relay' = RelayIdle
         \/ UNCHANGED out /\ relay' = [relay EXCEPT !.step = "done"]
         \/ /\ relay.step = "idle" /\ out # <<>> /\ out' = Tail(out)
            /\ relay' = [step |-> "line", run |-> current, of |-> Head(out).of, kind |-> Head(out).kind]
BY DEF Next, claudeVars, ClaudeNext, ClaudeWork, ClaudeTakes, ClaudeSays, ClaudeEnds, ClaudeWakes,
       ClaudeExits, ClaudeDies, ClaudeBoxStops, RelayReads, RelayPublishes, RelayFinalises

\* The run of codex's job is read from `current` when the job starts, and kept.
LEMMA JobRunMoves ==
  ASSUME TypeInv, Next
  PROVE  job'.run = Nobody \/ (job'.of = job.of /\ job'.run \in {job.run, current})
<1>1. job \in Jobs
  BY DEF TypeInv, TypeOK, CodexTypeOK
<1>2. CASE UNCHANGED job
  BY <1>2
<1>3. CASE CodexTakes \/ CodexFinishes \/ TtlKillsCodex
  <2>1. job' = Idle \/ job' = [Idle EXCEPT !.step = "taken", !.of = Head(fifo)]
    BY <1>3 DEF CodexTakes, CodexFinishes, TtlKillsCodex
  <2>2. Idle.run = Nobody /\ \A h : [Idle EXCEPT !.step = "taken", !.of = h].run = Nobody
    BY DEF Idle
  <2> QED
    BY <2>1, <2>2
<1>4. CASE CodexReadsRun \/ CodexSpawns \/ SpawnFails
  BY <1>1, <1>4 DEF CodexReadsRun, CodexSpawns, SpawnFails, Jobs
<1>5. ASSUME NEW kind \in LineKinds, CodexSays(kind)  PROVE job'.run = job.run /\ job'.of = job.of
  BY <1>1, <1>5 DEF CodexSays, Jobs
<1>6. ASSUME NEW rc \in 0..1, CodexRetries(rc) \/ CodexEnds(rc)
      PROVE  job'.run = job.run /\ job'.of = job.of
  BY <1>6 DEF CodexRetries, CodexEnds, Attempt, Idle
<1>7. ASSUME CodexNext, ~(UNCHANGED job), ~CodexTakes, ~CodexFinishes, ~TtlKillsCodex,
             ~CodexReadsRun, ~CodexSpawns, ~SpawnFails
      PROVE  job'.run = job.run /\ job'.of = job.of
  BY <1>5, <1>6, <1>7 DEF CodexNext, CodexWork, CodexSkips, CodexExits, CodexBoxStops,
         codexVars
<1> QED
  BY <1>2, <1>3, <1>4, <1>7 DEF Next, codexVars

\* The steps of a CLI and its relay, of agents-platform, of aborts and drains.
LEMMA ApartServed ==
  ASSUME TypeInv, TypeInv', Apart, FifoMoves, TurnMoves, SaysWell, Next,
         UNCHANGED <<disp, current, apart>>
  PROVE  Apart'
<1>1. Nobody \notin Turns /\ apart \in SUBSET Turns /\ out \in Seq(Lines)
  BY TurnFeedAssumption DEF TypeInv, TypeOK, FeedTypeOK, ClaudeTypeOK
<1>2. \A u \in Turns : InBox(u)' => InBox(u)
  BY BoxMoves DEF FedNow, Unfed
<1>3. \A u \in Turns : Naming(u)' = Naming(u)
  BY DEF Naming
<1> SUFFICES ASSUME NEW r \in apart  PROVE ApartAt(r)'
  BY DEF Apart
<1>4. r \in Turns /\ ApartAt(r)
  BY <1>1 DEF Apart
<1>5. NoneForeign(r)'
  BY <1>4, ForeignStep DEF ApartAt
<1>6. Naming(r) \/ current = r => OnlyIn(r)'
  BY <1>2, <1>3, <1>4 DEF ApartAt, OnlyIn
<1>7. disp[r] = "named" \/ InBox(r)' => current = r
  BY <1>2, <1>4 DEF ApartAt
<1>8. (relay'.run = r => InRelay(r)' \/ relay'.kind = "woken") /\ (InRelay(r)' => relay'.run = r)
  <2>1. CASE UNCHANGED relay
    BY <1>4, <2>1 DEF ApartAt, InRelay
  <2>2. CASE relay' = RelayIdle
    BY <1>1, <1>4, <2>2 DEF RelayIdle, InRelay
  <2>3. CASE relay' = [relay EXCEPT !.step = "done"]
    BY <1>4, <2>3, RelayTypes DEF ApartAt, InRelay
  <2>4. CASE /\ out # <<>> /\ out' = Tail(out)
             /\ relay' = [step |-> "line", run |-> current, of |-> Head(out).of, kind |-> Head(out).kind]
    <3>1. Head(out) = out[1] /\ Head(out) \in Lines /\ Len(out) \in Nat \ {0} /\ DOMAIN out = 1..Len(out)
      BY <1>1, <2>4, TailEffect
    <3>2. 1 \in DOMAIN out /\ relay'.of \in Turns /\ relay'.of = out[1].of /\ relay'.kind = out[1].kind
          /\ relay'.run = current
      BY <2>4, <3>1 DEF Lines
    <3>3. \A u \in Turns : relay'.of = u /\ relay'.kind # "woken" => InBox(u)
      BY <3>2 DEF InBox, Taken, InOut
    <3>4. ASSUME relay'.run = r, relay'.kind # "woken"  PROVE relay'.of = r
      <4>1. OnlyIn(r)
        BY <1>4, <3>2, <3>4 DEF ApartAt
      <4> QED
        BY <3>2, <3>3, <3>4, <4>1 DEF OnlyIn
    <3>5. ASSUME relay'.of = r, relay'.kind # "woken"  PROVE relay'.run = r
      BY <1>4, <3>2, <3>3, <3>5 DEF ApartAt
    <3> QED
      BY <3>4, <3>5 DEF InRelay
  <2> QED
    BY <2>1, <2>2, <2>3, <2>4, RelayMoves
<1>9. job'.run = r => job'.of = r
  <2> SUFFICES ASSUME job'.run = r, job'.of = job.of, job'.run \in {job.run, current}, job.run # r
               PROVE  job.of = r
    BY <1>1, <1>4, JobRunMoves DEF ApartAt
  <2>1. current = r /\ OnlyIn(r)
    BY <1>4 DEF ApartAt
  <2>2. \A u \in Turns : job.of = u => InBox(u)
    BY DEF InBox, Taken
  <2>3. job'.step # "idle"
    BY <1>1, <1>4 DEF TypeInv, JobShape, Idle
  <2>4. job'.of \in Turns
    BY <2>3 DEF TypeInv, JobShape
  <2> QED
    BY <2>1, <2>2, <2>4 DEF OnlyIn
<1> QED
  BY <1>3, <1>4, <1>5, <1>6, <1>7, <1>8, <1>9 DEF ApartAt

\* A step keeps every turn apart to itself.
LEMMA ApartStep ==
  ASSUME TypeInv, TypeInv', FedOnce, Attributed, Apart, [Next]_vars
  PROVE  Apart'
<1>1. CASE UNCHANGED vars
  BY <1>1 DEF vars, turnFeedVars, feedVars, claudeVars, codexVars, Apart, ApartAt, NoneForeign,
              OnlyIn, Naming, InBox, InFifo, Taken, InOut, InRelay
<1>2. CASE Next
  <2>1. FifoMoves /\ TurnMoves /\ SaysWell
    BY <1>2, FeedWay, ClaudeWay, CodexWay, StepSays DEF Next
  <2>2. CASE UNCHANGED <<disp, current, apart>>
    BY <1>2, <2>1, <2>2, ApartServed
  <2>3. CASE FeedNext /\ UNCHANGED <<claudeVars, codexVars, cli>>
    <3>1. ASSUME NEW t \in Turns, NameTurn(t, Held)  PROVE Apart'
      BY <2>1, <2>3, <3>1, ApartNamed
    <3>2. ASSUME NEW t \in Turns,
                 Send(t) \/ NamedTurn(t) \/ FeedTurn(t) \/ DispatchBreaks(t) \/ ReportFailure(t)
                 \/ LoseThread(t)
          PROVE  Apart'
      BY <2>1, <2>3, <3>2, ApartDispatched
    <3>3. ASSUME NEW t \in Turns, AbortFinds(t) \/ AbortWork(t)  PROVE UNCHANGED <<disp, current, apart>>
      BY <3>3 DEF AbortFinds, AbortWork, AbortKills, AbortTells, AbortRemoves
    <3>4. ASSUME ReadsDone \/ GivesUp \/ Drain  PROVE UNCHANGED <<disp, current, apart>>
      BY <3>4 DEF ReadsDone, GivesUp, Drain
    <3> QED
      BY <2>2, <2>3, <3>1, <3>2, <3>3, <3>4 DEF FeedNext, Platform, DispatchWork
  <2>4. CASE ClaudeNext
    <3>1. UNCHANGED <<disp, current, apart>>
      BY <2>4 DEF ClaudeNext, ClaudeWork, ClaudeTakes, ClaudeSays, ClaudeEnds, ClaudeWakes,
         ClaudeExits, ClaudeDies, ClaudeBoxStops, Stops, RelayReads, RelayPublishes,
         RelayFinalises, turnFeedVars, feedVars
    <3> QED
      BY <2>2, <3>1
  <2>5. CASE CodexNext
    <3>1. UNCHANGED <<disp, current, apart>>
      BY <2>5 DEF CodexNext, CodexWork, CodexTakes, CodexSkips, CodexReadsRun, CodexSpawns,
             SpawnFails,
         CodexSays, CodexRetries, CodexEnds, CodexFinishes, CodexExits, TtlKillsCodex,
         CodexBoxStops, Stops, turnFeedVars, feedVars
    <3> QED
      BY <2>2, <3>1
  <2> QED
    BY <1>2, <2>3, <2>4, <2>5 DEF Next
<1> QED
  BY <1>1, <1>2

\* Before the first turn nothing is fed, named or said.
LEMMA InitWay ==
  ASSUME Init  PROVE FedOnce /\ Attributed /\ Apart
<1>1. /\ fifo = <<>> /\ stream = [r \in Runs |-> <<>>] /\ busy = Nobody /\ out = <<>>
      /\ relay = RelayIdle /\ job = Idle /\ said = [t \in Turns |-> 0] /\ current = Nobody
      /\ apart = {}
  BY DEF Init, FeedInit, ClaudeInit, CodexInit
<1>2. \A t \in Turns : ~Taken(t) /\ ~Shown(t) /\ ~InFifo(t)
  BY <1>1, TurnFeedAssumption DEF Taken, InOut, InRelay, RelayIdle, Idle, Shown, InFifo
<1>3. FedOnce
  BY <1>1, <1>2 DEF FedOnce
<1>4. relay.run = Nobody /\ job.run = Nobody
  BY <1>1 DEF RelayIdle, Idle
<1>5. Attributed
  BY <1>1, <1>4, TurnFeedAssumption DEF Attributed, Runs
<1> QED
  BY <1>1, <1>3, <1>5 DEF Apart

\* A turn that has the container to itself reads nothing of another turn but
\* what a continuation says: lines go to the run that current_run_id names.
THEOREM ForeignIsWoken == Spec => []ForeignLinesAreContinuations
<1> DEFINE Inv == TypeInv /\ FedOnce /\ Attributed /\ Apart
<1>1. Init => Inv
  BY InitType, InitWay
<1>2. Inv /\ [Next]_vars => Inv'
  BY TypeStep, FedOnceStep, AttributedStep, ApartStep
<1>3. Inv => ForeignLinesAreContinuations
  BY DEF Apart, ApartAt, NoneForeign, ForeignLinesAreContinuations
<1> QED
  BY <1>1, <1>2, <1>3, PTL DEF Spec

-------------------------------------------------------------------------------
(***************************************************************************)
(* A turn is over when its end is published.                               *)
(***************************************************************************)

\* codex's relay ends a run only as it lets the turn go.
LEMMA CodexEndMoves ==
  ASSUME TypeInv, cli = "codex", Next
  PROVE  NoNewEnd \/ CodexFinishes
<1>1. SaysWell
  BY StepSays
<1>2. CASE FeedNext /\ UNCHANGED <<claudeVars, codexVars, cli>>
  BY <1>2, FeedSays DEF NoNewEnd, RelayIsSilent, RelayDone
<1>3. CASE CodexNext /\ UNCHANGED stream
  BY <1>3 DEF NoNewEnd, NewAt
<1>4. CASE job.step # "end"
  BY <1>1, <1>4 DEF NoNewEnd, SaysWell, Said, DispatchSays, AbortSays, RelaySays, ClaudeRelaySays,
                    CodexRelaySays, Entry, RelayDone
<1>5. CASE CodexNext /\ job.step = "end" /\ ~(UNCHANGED stream)
  BY <1>5 DEF CodexNext, CodexWork, At, CodexTakes, CodexSkips, CodexReadsRun, CodexSpawns,
         CodexRetries,
              CodexEnds, SpawnFails, CodexSays, CodexExits, TtlKillsCodex, CodexBoxStops, Stops,
              turnFeedVars
<1> QED
  BY <1>2, <1>3, <1>4, <1>5 DEF Next

\* An end that is new ends the turn the relay holds.
LEMMA NewEnd ==
  ASSUME TypeInv, TypeInv', EndInv, Next, NEW t \in Turns, Ended(t)', ~Ended(t)
  PROVE  \/ RelayFinalises /\ relay.of = t /\ cli = "claude"
         \/ CodexFinishes /\ job.of = t /\ cli = "codex"
<1>1. PICK r \in Runs : \E i \in DOMAIN stream'[r] : RelayDone(stream'[r][i]) /\ stream'[r][i].of = t
  BY DEF Ended
<1>2. PICK i \in DOMAIN stream'[r] : RelayDone(stream'[r][i]) /\ stream'[r][i].of = t
  BY <1>1
<1>3. SaysWell /\ cli \in {"claude", "codex"}
  BY StepSays DEF TypeInv, TypeOK
<1>4. i \in Nat
  BY LenProperties DEF TypeInv, TypeOK, FeedTypeOK
<1>5. NewAt(r, i)
  BY <1>2, <1>3 DEF SaysWell, Grows, NewAt, Ended
<1>6. RelaySays(r, stream'[r][i])
  BY <1>2, <1>3, <1>4, <1>5 DEF SaysWell, Said, DispatchSays, AbortSays, RelayDone
<1>7. ~NoNewEnd
  BY <1>2, <1>4, <1>5 DEF NoNewEnd
<1>8. CASE cli = "claude"
  BY <1>2, <1>6, <1>7, <1>8, EndMoves DEF EndsNone, RelaySays, ClaudeRelaySays, CodexRelaySays, Entry
<1>9. CASE cli = "codex"
  BY <1>2, <1>6, <1>7, <1>9, CodexEndMoves DEF RelaySays, ClaudeRelaySays, CodexRelaySays, Entry
<1> QED
  BY <1>3, <1>8, <1>9

ResultInOut ==
    \A i \in DOMAIN out : out[i].kind = "result" =>
        /\ busy # out[i].of
        /\ \A j \in DOMAIN out : i < j /\ out[j].of = out[i].of => out[j].kind = "woken"

ResultInRelay == relay.kind = "result" => busy # relay.of /\ ~InOut(relay.of)

\* The steps of claude and its relay keep a turn's result its last output.
LEMMA ResultClaude ==
  ASSUME TypeInv, TypeInv', FedOnce, ResultInOut, ResultInRelay, cli = "claude", ClaudeNext
  PROVE  ResultInOut' /\ ResultInRelay'
<1>1. /\ out \in Seq(Lines) /\ busy \in Runs /\ Nobody \notin Turns /\ fifo \in Seq(Turns)
      /\ relay.kind = "result" => relay.of \in Turns
  <2>1. relay.kind = "result" => relay.step # "idle"
    BY DEF TypeInv, RelayShape, RelayIdle
  <2> QED
    BY <2>1, TurnFeedAssumption DEF TypeInv, TypeOK, FeedTypeOK, ClaudeTypeOK, RelayShape
<1>2. DOMAIN out = 1..Len(out) /\ Len(out) \in Nat /\ \A i \in DOMAIN out : out[i] \in Lines
  BY <1>1, LenProperties, ElementOfSeq
<1>3. CASE ClaudeTakes
  <2>1. busy' = Head(fifo) /\ UNCHANGED <<out, relay>> /\ fifo # <<>>
    BY <1>3 DEF ClaudeTakes
  <2>2. Head(fifo) = fifo[1] /\ 1 \in DOMAIN fifo /\ Head(fifo) \in Turns
    <3>1. /\ Head(fifo) = fifo[1] /\ Head(fifo) \in Turns
          /\ Len(fifo) \in Nat \ {0} /\ DOMAIN fifo = 1..Len(fifo)
      BY <1>1, <2>1, TailEffect
    <3> QED
      BY <3>1
  <2>3. ~Taken(Head(fifo))
    BY <2>2 DEF FedOnce, InFifo
  <2>4. ~InOut(Head(fifo)) /\ ~InRelay(Head(fifo))
    BY <2>3 DEF Taken
  <2>5. ResultInOut'
    BY <2>1, <2>4 DEF ResultInOut, InOut
  <2>6. ResultInRelay'
    BY <2>1, <2>4 DEF ResultInRelay, InRelay, InOut
  <2> QED
    BY <2>5, <2>6
<1>4. ASSUME NEW t \in Turns, NEW kind \in {"line", "result", "woken"},
             out' = Append(out, Line(kind, t)), UNCHANGED relay,
             kind = "woken" \/ t = busy,
             busy' = Nobody \/ (busy' = busy /\ kind # "result")
      PROVE  ResultInOut' /\ ResultInRelay'
  <2> DEFINE l == Line(kind, t)
  <2>1. l \in Lines /\ l.of = t /\ l.kind = kind
    BY DEF Line, Lines
  <2>2. /\ DOMAIN out' = 1..(Len(out) + 1)
        /\ \A i \in 1..Len(out) : out'[i] = out[i]
        /\ out'[Len(out) + 1] = l
    BY <1>1, <1>4, <2>1, AppendEffect
  <2>3. \A i \in DOMAIN out' : (i \in DOMAIN out /\ out'[i] = out[i]) \/ (i = Len(out) + 1 /\ out'[i] = l)
    BY <1>2, <2>2
  <2>4. \A i \in DOMAIN out, j \in DOMAIN out' : j < i => j \in DOMAIN out
    BY <1>2, <2>2
  <2>5. \A i \in DOMAIN out : out[i].of \in Turns
    BY <1>2 DEF Lines
  <2> HIDE DEF l
  <2>6. ASSUME NEW i \in DOMAIN out', out'[i].kind = "result"
        PROVE  /\ busy' # out'[i].of
               /\ \A j \in DOMAIN out' : i < j /\ out'[j].of = out'[i].of => out'[j].kind = "woken"
    <3>1. CASE i \in DOMAIN out /\ out'[i] = out[i]
      <4>1. busy' # out'[i].of
        BY <1>1, <1>4, <2>5, <2>6, <3>1 DEF ResultInOut
      <4>2. ASSUME NEW j \in DOMAIN out', i < j, out'[j].of = out'[i].of
            PROVE  out'[j].kind = "woken"
        <5>1. CASE j \in DOMAIN out /\ out'[j] = out[j]
          BY <2>6, <3>1, <4>2, <5>1 DEF ResultInOut
        <5>2. CASE out'[j] = l
          BY <1>4, <2>1, <2>6, <3>1, <4>2, <5>2 DEF ResultInOut
        <5> QED
          BY <2>3, <5>1, <5>2
      <4> QED
        BY <4>1, <4>2
    <3>2. CASE i = Len(out) + 1 /\ out'[i] = l
      <4>1. busy' # out'[i].of
        BY <1>1, <1>4, <2>1, <2>6, <3>2
      <4>2. \A j \in DOMAIN out' : ~(i < j)
        BY <1>2, <2>2, <3>2
      <4> QED
        BY <4>1, <4>2
    <3> QED
      BY <2>3, <3>1, <3>2
  <2>7. ResultInOut'
    BY <2>6 DEF ResultInOut
  <2>8. ASSUME relay.kind = "result"  PROVE busy' # relay.of /\ ~InOut(relay.of)'
    <3>1. busy # relay.of /\ ~InOut(relay.of) /\ relay.of \in Turns
      BY <1>1, <2>8 DEF ResultInRelay
    <3>2. busy' # relay.of
      BY <1>1, <1>4, <3>1
    <3>3. ~InOut(relay.of)'
      BY <1>4, <2>1, <2>3, <3>1 DEF InOut
    <3> QED
      BY <3>2, <3>3
  <2> QED
    BY <1>4, <2>7, <2>8 DEF ResultInRelay, InOut
<1>5. CASE ClaudeSays
  <2>1. busy \in Turns /\ out' = Append(out, Line("line", busy)) /\ UNCHANGED <<busy, relay>>
    BY <1>1, <1>5 DEF ClaudeSays, Runs
  <2> QED
    BY <1>4, <2>1
<1>6. CASE ClaudeEnds
  <2>1. busy \in Turns /\ out' = Append(out, Line("result", busy)) /\ busy' = Nobody /\ UNCHANGED relay
    BY <1>1, <1>6 DEF ClaudeEnds, Runs
  <2> QED
    BY <1>4, <2>1
<1>7. ASSUME NEW t \in Turns, ClaudeWakes(t)  PROVE ResultInOut' /\ ResultInRelay'
  <2>1. out' = Append(out, Line("woken", t)) /\ UNCHANGED <<busy, relay>>
    BY <1>7 DEF ClaudeWakes
  <2> QED
    BY <1>4, <2>1
<1>8. CASE ClaudeExits \/ ClaudeDies \/ ClaudeBoxStops
  <2>1. UNCHANGED <<out, relay>> /\ (busy' = busy \/ busy' = Nobody)
    BY <1>8 DEF ClaudeExits, ClaudeDies, ClaudeBoxStops, claudeVars
  <2>2. \A i \in DOMAIN out : out[i].of \in Turns
    BY <1>2 DEF Lines
  <2>3. ResultInOut'
    BY <1>1, <2>1, <2>2 DEF ResultInOut
  <2>4. ResultInRelay'
    BY <1>1, <2>1 DEF ResultInRelay, InOut
  <2> QED
    BY <2>3, <2>4
<1>9. CASE RelayReads
  <2>1. /\ out # <<>> /\ out' = Tail(out) /\ UNCHANGED busy
        /\ relay' = [step |-> "line", run |-> current, of |-> Head(out).of, kind |-> Head(out).kind]
    BY <1>9 DEF RelayReads
  <2>2. /\ Head(out) = out[1] /\ Len(out) \in Nat \ {0}
        /\ DOMAIN out' = 1..(Len(out) - 1) /\ \A i \in 1..(Len(out) - 1) : out'[i] = out[i + 1]
    BY <1>1, <2>1, TailEffect
  <2>3. /\ 1 \in DOMAIN out
        /\ \A i \in DOMAIN out' : i \in Nat /\ i + 1 \in DOMAIN out /\ 1 < i + 1 /\ out'[i] = out[i + 1]
    BY <1>2, <2>2
  <2>4. ASSUME NEW i \in DOMAIN out', out'[i].kind = "result"
        PROVE  /\ busy' # out'[i].of
               /\ \A j \in DOMAIN out' : i < j /\ out'[j].of = out'[i].of => out'[j].kind = "woken"
    <3>1. busy' # out'[i].of
      BY <2>1, <2>3, <2>4 DEF ResultInOut
    <3>2. ASSUME NEW j \in DOMAIN out', i < j, out'[j].of = out'[i].of
          PROVE  out'[j].kind = "woken"
      <4>1. i + 1 < j + 1
        BY <2>3, <3>2
      <4> QED
        BY <2>3, <2>4, <3>2, <4>1 DEF ResultInOut
    <3> QED
      BY <3>1, <3>2
  <2>5. ResultInOut'
    BY <2>4 DEF ResultInOut
  <2>6. relay'.kind = out[1].kind /\ relay'.of = out[1].of
    BY <2>1, <2>2
  <2>7. ASSUME relay'.kind = "result"  PROVE busy' # relay'.of /\ ~InOut(relay.of)'
    <3>1. busy' # relay'.of
      BY <2>1, <2>3, <2>6, <2>7 DEF ResultInOut
    <3>2. \A j \in DOMAIN out' : out'[j].of = relay'.of => out'[j].kind = "woken"
      BY <2>3, <2>6, <2>7 DEF ResultInOut
    <3> QED
      BY <3>1, <3>2 DEF InOut
  <2> QED
    BY <2>5, <2>7 DEF ResultInRelay, InOut
<1>10. CASE RelayPublishes \/ RelayFinalises
  <2>1. /\ UNCHANGED <<out, busy>>
        /\ relay' = RelayIdle \/ relay' = [relay EXCEPT !.step = "done"]
    BY <1>10 DEF RelayPublishes, RelayFinalises
  <2>2. ResultInOut'
    BY <2>1 DEF ResultInOut
  <2>3. relay'.kind = "result" => relay.kind = "result" /\ relay'.of = relay.of
    BY <2>1, RelayTypes DEF RelayIdle
  <2> QED
    BY <2>1, <2>2, <2>3 DEF ResultInRelay, InOut
<1> QED
  BY <1>3, <1>5, <1>6, <1>7, <1>8, <1>9, <1>10 DEF ClaudeNext, ClaudeWork

\* Every step keeps the result of a turn the last of it.
LEMMA ResultStep ==
  ASSUME TypeInv, TypeInv', FedOnce, EndInv, ResultIsLast, [Next]_vars
  PROVE  ResultIsLast'
<1>1. CASE UNCHANGED vars
  BY <1>1 DEF vars, turnFeedVars, feedVars, claudeVars, codexVars, ResultIsLast, InOut, Ended,
              RelayDone, InBox, InFifo, Taken, InRelay
<1>2. CASE Next
  <2>1. ResultInOut /\ ResultInRelay
    BY DEF ResultIsLast, ResultInOut, ResultInRelay
  <2>2. ResultInOut' /\ ResultInRelay'
    <3>1. CASE UNCHANGED claudeVars
      BY <2>1, <3>1 DEF claudeVars, ResultInOut, ResultInRelay, InOut
    <3>2. CASE cli = "claude" /\ ClaudeNext
      BY <2>1, <3>2, ResultClaude
    <3> QED
      BY <1>2, <3>1, <3>2 DEF Next
  <2>3. FifoMoves /\ TurnMoves
    BY <1>2, FeedWay, ClaudeWay, CodexWay DEF Next
  <2>4. Nobody \notin Turns /\ Nobody = RelayIdle.of /\ Nobody = Idle.of
    BY TurnFeedAssumption DEF RelayIdle, Idle
  <2>5. ASSUME NEW t \in Turns, Ended(t)'  PROVE ~InBox(t)'
    <3>1. CASE Ended(t)
      <4>1. Shown(t) /\ ~InBox(t)
        BY <3>1 DEF Ended, Shown, RelayDone, Own, ResultIsLast
      <4>2. ~Unfed(t)
        BY <4>1 DEF FedOnce
      <4> QED
        BY <2>3, <4>1, <4>2, BoxMoves DEF FedNow
    <3>2. CASE RelayFinalises /\ relay.of = t /\ cli = "claude"
      <4>1. relay.kind = "result" /\ relay' = RelayIdle /\ UNCHANGED <<fifo, busy, out>>
        BY <3>2 DEF RelayFinalises, TypeInv, RelayShape, feedVars
      <4>2. busy # t /\ ~InOut(t)
        BY <2>1, <3>2, <4>1 DEF ResultInRelay
      <4>3. ~InFifo(t)
        BY <3>2, <4>1 DEF FedOnce, Taken, InRelay
      <4>4. job' = Idle
        BY <1>2, <3>2 DEF TypeInv, OneRelay, Next
      <4> QED
        BY <2>4, <4>1, <4>2, <4>3, <4>4 DEF InBox, InFifo, Taken, InOut, InRelay
    <3>3. CASE CodexFinishes /\ job.of = t /\ cli = "codex"
      <4>1. job' = Idle /\ UNCHANGED fifo
        BY <3>3 DEF CodexFinishes, feedVars
      <4>2. ~InFifo(t)
        BY <3>3 DEF FedOnce, Taken
      <4>3. busy' = Nobody /\ out' = <<>> /\ relay' = RelayIdle
        BY <1>2, <3>3 DEF TypeInv, OneRelay, Next
      <4>4. ~InOut(t)' /\ ~InRelay(t)'
        <5>1. DOMAIN out' = {}
          BY <4>3
        <5>2. relay'.of = Nobody
          BY <2>4, <4>3
        <5> QED
          BY <2>4, <5>1, <5>2 DEF InOut, InRelay
      <4> QED
        BY <2>4, <4>1, <4>2, <4>3, <4>4 DEF InBox, InFifo, Taken
    <3> QED
      BY <1>2, <2>5, <3>1, <3>2, <3>3, NewEnd
  <2> QED
    BY <2>2, <2>5 DEF ResultIsLast, ResultInOut, ResultInRelay
<1> QED
  BY <1>1, <1>2

-------------------------------------------------------------------------------
(***************************************************************************)
(* Nothing of what claude says in a turn is lost.                          *)
(***************************************************************************)

\* A queue of n places moves up by one: the places of S that are left.
LEMMA ShiftedCardinality ==
  ASSUME NEW n \in Nat \ {0}, NEW S \in SUBSET (1..n), NEW T, T = {j \in 1..(n - 1) : j + 1 \in S}
  PROVE  Cardinality(T) = IF 1 \in S THEN Cardinality(S) - 1 ELSE Cardinality(S)
<1>1. IsFiniteSet(1..n) /\ IsFiniteSet(1..(n - 1))
  BY FS_Interval
<1>2. IsFiniteSet(S) /\ IsFiniteSet(T)
  BY <1>1, FS_Subset
<1>3. /\ IsFiniteSet(S \ {1})
      /\ Cardinality(S \ {1}) = IF 1 \in S THEN Cardinality(S) - 1 ELSE Cardinality(S)
  BY <1>2, FS_RemoveElement
<1>4. ExistsBijection(T, S \ {1})
  <2> DEFINE f == [j \in T |-> j + 1]
  <2>1. f \in [T -> S \ {1}]
    OBVIOUS
  <2>2. \A i, j \in T : f[i] = f[j] => i = j
    OBVIOUS
  <2>3. ASSUME NEW k \in S \ {1}  PROVE \E j \in T : f[j] = k
    <3>1. k - 1 \in T /\ f[k - 1] = k
      OBVIOUS
    <3> QED
      BY <3>1
  <2>4. f \in Bijection(T, S \ {1})
    BY <2>1, <2>2, <2>3 DEF Bijection, Injection, Surjection, IsInjective
  <2> QED
    BY <2>4 DEF ExistsBijection
<1> QED
  BY <1>2, <1>3, <1>4, FS_Bijection

\* The lines of a turn can be counted.
LEMMA LinesFinite ==
  ASSUME TypeInv, NEW r \in Turns
  PROVE  /\ IsFiniteSet(LinesAll(r)) /\ Cardinality(LinesAll(r)) \in Nat
         /\ IsFiniteSet(LinesOut(r)) /\ Cardinality(LinesOut(r)) \in Nat
<1>1. r \in Runs /\ stream[r] \in Seq(Entries) /\ out \in Seq(Lines)
  BY DEF TypeInv, TypeOK, FeedTypeOK, ClaudeTypeOK, Runs
<1>2. IsFiniteSet(1..Len(stream[r])) /\ IsFiniteSet(1..Len(out)) /\ DOMAIN out = 1..Len(out)
  BY <1>1, LenProperties, FS_Interval
<1>3. IsFiniteSet(LinesAll(r)) /\ IsFiniteSet(LinesOut(r))
  BY <1>2, FS_Subset DEF LinesAll, LinesIn, LinesOut
<1> QED
  BY <1>3, FS_CardinalityType

\* What is said leaves the lines before it as they are.
LEMMA LinesStay ==
  ASSUME TypeInv, TypeInv', SaysWell, NEW r \in Turns
  PROVE  /\ \A i \in DOMAIN stream[r] : LinesIn(r, i)' = LinesIn(r, i)
         /\ (\A i \in Nat : NewAt(r, i) => ~(stream'[r][i].of = r /\ stream'[r][i].kind = "line"))
               => LinesAll(r)' = LinesAll(r)
<1>1. /\ r \in Runs /\ Len(stream[r]) \in Nat /\ Len(stream'[r]) \in Nat
      /\ DOMAIN stream[r] = 1..Len(stream[r]) /\ DOMAIN stream'[r] = 1..Len(stream'[r])
  BY LenProperties DEF TypeInv, TypeOK, FeedTypeOK, Runs
<1>2. \A j \in 1..Len(stream[r]) : j \in 1..Len(stream'[r]) /\ stream'[r][j] = stream[r][j]
  BY <1>1 DEF SaysWell, Grows
<1>3. ASSUME NEW i \in DOMAIN stream[r]  PROVE LinesIn(r, i)' = LinesIn(r, i)
  <2>1. \A j \in 1..i : stream'[r][j] = stream[r][j]
    BY <1>1, <1>2
  <2> QED
    BY <2>1 DEF LinesIn
<1>4. ASSUME \A i \in Nat : NewAt(r, i) => ~(stream'[r][i].of = r /\ stream'[r][i].kind = "line")
      PROVE  LinesAll(r)' = LinesAll(r)
  <2>1. \A j \in 1..Len(stream'[r]) : j \in 1..Len(stream[r]) \/ NewAt(r, j)
    BY <1>1 DEF NewAt
  <2>2. \A j \in 1..Len(stream'[r]) : j \in Nat
    OBVIOUS
  <2> QED
    BY <1>2, <1>4, <2>1, <2>2 DEF LinesAll, LinesIn
<1> QED
  BY <1>3, <1>4

NoLine(r) == \A i \in Nat : NewAt(r, i) => ~(stream'[r][i].of = r /\ stream'[r][i].kind = "line")
NoEnd(r)  == \A i \in Nat : NewAt(r, i) => ~RelayDone(stream'[r][i])

\* The ends of a run, when no new one is said.
LEMMA EndsStay ==
  ASSUME TypeInv, TypeInv', SaysWell, NEW r \in Turns, NoEnd(r)
  PROVE  \A i \in DoneAt(r)' : i \in DoneAt(r) /\ i \in DOMAIN stream[r]
<1>1. r \in Runs /\ DOMAIN stream'[r] \subseteq Nat
  BY LenProperties DEF TypeInv, TypeOK, FeedTypeOK, Runs
<1> SUFFICES ASSUME NEW i \in DoneAt(r)'  PROVE i \in DoneAt(r) /\ i \in DOMAIN stream[r]
  OBVIOUS
<1>2. i \in DOMAIN stream'[r] /\ RelayDone(stream'[r][i]) /\ i \in Nat
  BY <1>1 DEF DoneAt
<1>3. i \in DOMAIN stream[r]
  BY <1>2 DEF NoEnd, NewAt
<1> QED
  BY <1>1, <1>2, <1>3 DEF DoneAt, SaysWell, Grows

\* A step that neither writes a line of the turn nor ends its run.
LEMMA CountStays ==
  ASSUME TypeInv, TypeInv', SaysWell, NEW r \in Turns, CountAt(r), NoLine(r), NoEnd(r),
         LinesRelayed(r)' = LinesRelayed(r), LinesOut(r)' = LinesOut(r), said'[r] = said[r]
  PROVE  CountAt(r)'
<1>1. LinesAll(r)' = LinesAll(r)
  BY LinesStay DEF NoLine
<1>2. \A i \in DoneAt(r)' : i \in DoneAt(r) /\ LinesIn(r, i)' = LinesIn(r, i)
  BY EndsStay, LinesStay
<1> QED
  BY <1>1, <1>2 DEF CountAt

\* A turn that begins to be apart has said nothing.
LEMMA CountBegins ==
  ASSUME TypeInv, TypeInv', FedOnce, Attributed, NEW r \in Turns, ~Named(r), Unfed(r),
         UNCHANGED <<stream, out, relay, said>>
  PROVE  CountAt(r)'
<1>1. ~Taken(r) /\ said[r] = 0
  BY DEF FedOnce
<1>2. r \in Runs /\ DOMAIN stream[r] = 1..Len(stream[r])
  BY LenProperties DEF TypeInv, TypeOK, FeedTypeOK, Runs
<1>3. LinesAll(r) = {}
  BY <1>2 DEF LinesAll, LinesIn, Attributed
<1>4. LinesOut(r) = {}
  BY <1>1 DEF LinesOut, Taken, InOut, Line
<1>5. LinesRelayed(r) = 0
  BY <1>1 DEF LinesRelayed, Taken, InRelay
<1>6. DoneAt(r) = {}
  BY DEF DoneAt, RelayDone, Attributed
<1>7. CountAt(r)
  BY <1>1, <1>3, <1>4, <1>5, <1>6, FS_EmptySet DEF CountAt
<1> QED
  BY <1>7 DEF CountAt, LinesAll, LinesIn, LinesOut, LinesRelayed, DoneAt, RelayDone

\* A line claude writes of another turn, or that is none, counts for nothing.
LEMMA AppendedLine ==
  ASSUME TypeInv, NEW t \in Turns, NEW kind \in {"line", "result", "woken"},
         out' = Append(out, Line(kind, t)), NEW r \in Turns
  PROVE  /\ ~(kind = "line" /\ t = r) => LinesOut(r)' = LinesOut(r)
         /\ kind = "line" /\ t = r => Cardinality(LinesOut(r))' = Cardinality(LinesOut(r)) + 1
<1> DEFINE l == Line(kind, t)
           n == Len(out) + 1
<1>1. l \in Lines /\ (l = Line("line", r) <=> kind = "line" /\ t = r)
  BY DEF Line, Lines
<1>2. /\ DOMAIN out' = 1..n /\ DOMAIN out = 1..Len(out) /\ Len(out) \in Nat
      /\ \A i \in 1..Len(out) : out'[i] = out[i]
      /\ out'[n] = l
  BY <1>1, AppendEffect DEF TypeInv, TypeOK, ClaudeTypeOK
<1> HIDE DEF l
<1>3. ASSUME ~(kind = "line" /\ t = r)  PROVE LinesOut(r)' = LinesOut(r)
  BY <1>1, <1>2, <1>3 DEF LinesOut, Line
<1>4. ASSUME kind = "line", t = r
      PROVE  Cardinality(LinesOut(r))' = Cardinality(LinesOut(r)) + 1
  <2>1. LinesOut(r)' = LinesOut(r) \cup {n} /\ n \notin LinesOut(r)
    BY <1>1, <1>2, <1>4 DEF LinesOut, Line
  <2>2. Cardinality(LinesOut(r) \cup {n}) = Cardinality(LinesOut(r)) + 1
    BY <2>1, LinesFinite, FS_AddElement
  <2> QED
    BY <2>1, <2>2
<1> QED
  BY <1>3, <1>4

\* claude writes a line of turn r.
LEMMA CountSays ==
  ASSUME TypeInv, TypeInv', ResultIsLast, NEW r \in Turns, NoneForeign(r), CountAt(r), ClaudeSays
  PROVE  CountAt(r)'
<1>1. /\ busy \in Turns /\ out' = Append(out, Line("line", busy))
      /\ said' = [said EXCEPT ![busy] = @ + 1] /\ said \in [Turns -> 0..MaxLines]
      /\ UNCHANGED <<stream, relay>>
  BY DEF ClaudeSays, turnFeedVars, TypeInv, TypeOK, ClaudeTypeOK, Runs
<1>2. LinesAll(r)' = LinesAll(r) /\ LinesRelayed(r)' = LinesRelayed(r) /\ DoneAt(r)' = DoneAt(r)
      /\ \A i : LinesIn(r, i)' = LinesIn(r, i)
  BY <1>1 DEF LinesAll, LinesIn, LinesRelayed, DoneAt, RelayDone
<1>3. CASE busy # r
  <2>1. LinesOut(r)' = LinesOut(r)
    BY <1>1, <1>3, AppendedLine
  <2>2. said'[r] = said[r]
    BY <1>1, <1>3
  <2> QED
    BY <1>2, <2>1, <2>2 DEF CountAt
<1>4. CASE busy = r
  <2>1. Cardinality(LinesOut(r))' = Cardinality(LinesOut(r)) + 1
    BY <1>1, <1>4, AppendedLine
  <2>2. said'[r] = said[r] + 1 /\ said[r] \in Nat
    BY <1>1, <1>4, ClaudeRelayAssumption
  <2>3. InBox(r)
    BY <1>4 DEF InBox, Taken
  <2>4. DoneAt(r) = {}
    <3> SUFFICES ASSUME NEW i \in DoneAt(r)  PROVE FALSE
      OBVIOUS
    <3>1. i \in DOMAIN stream[r] /\ RelayDone(stream[r][i]) /\ stream[r][i].of = r /\ r \in Runs
      BY DEF DoneAt, NoneForeign, RelayDone, Runs
    <3>2. Ended(r)
      BY <3>1 DEF Ended
    <3> QED
      BY <2>3, <3>2 DEF ResultIsLast
  <2>5. LinesRelayed(r) \in Nat
    BY DEF LinesRelayed
  <2>6. Cardinality(LinesAll(r)) + LinesRelayed(r) + Cardinality(LinesOut(r)) = said[r]
    BY DEF CountAt
  <2>7. Cardinality(LinesAll(r)) + LinesRelayed(r) + (Cardinality(LinesOut(r)) + 1) = said[r] + 1
    BY <2>2, <2>5, <2>6, LinesFinite
  <2>8. Cardinality(LinesAll(r))' = Cardinality(LinesAll(r))
    BY <1>2
  <2> QED
    BY <1>2, <2>1, <2>2, <2>4, <2>7, <2>8 DEF CountAt
<1> QED
  BY <1>3, <1>4

\* The relay reads the next line.
LEMMA CountReads ==
  ASSUME TypeInv, TypeInv', NEW r \in Turns, CountAt(r), RelayReads
  PROVE  CountAt(r)'
<1>1. /\ out # <<>> /\ out' = Tail(out) /\ UNCHANGED <<stream, said>> /\ relay.step = "idle"
      /\ relay' = [step |-> "line", run |-> current, of |-> Head(out).of, kind |-> Head(out).kind]
      /\ out \in Seq(Lines)
  BY DEF RelayReads, turnFeedVars, TypeInv, TypeOK, ClaudeTypeOK
<1>2. LinesAll(r)' = LinesAll(r) /\ DoneAt(r)' = DoneAt(r) /\ \A i : LinesIn(r, i)' = LinesIn(r, i)
  BY <1>1 DEF LinesAll, LinesIn, DoneAt, RelayDone
<1> DEFINE n == Len(out)
<1>3. /\ Head(out) = out[1] /\ Head(out) \in Lines /\ n \in Nat \ {0} /\ DOMAIN out = 1..n
      /\ DOMAIN out' = 1..(n - 1) /\ \A i \in 1..(n - 1) : out'[i] = out[i + 1]
  BY <1>1, TailEffect
<1>4. LinesOut(r) \in SUBSET (1..n) /\ LinesOut(r)' = {j \in 1..(n - 1) : j + 1 \in LinesOut(r)}
  <2>1. \A j \in 1..(n - 1) : j + 1 \in 1..n
    BY <1>3
  <2> QED
    BY <1>3, <2>1 DEF LinesOut
<1>5. Cardinality(LinesOut(r)') = IF 1 \in LinesOut(r) THEN Cardinality(LinesOut(r)) - 1
                                                       ELSE Cardinality(LinesOut(r))
  BY <1>3, <1>4, ShiftedCardinality
<1>6. 1 \in LinesOut(r) <=> out[1].of = r /\ out[1].kind = "line"
  <2>1. 1 \in DOMAIN out
    BY <1>3
  <2>2. out[1] \in Lines /\ out[1] = [kind |-> out[1].kind, of |-> out[1].of]
    BY <1>3 DEF Lines
  <2> QED
    BY <2>1, <2>2 DEF LinesOut, Line
<1>7. LinesRelayed(r) = 0 /\ LinesRelayed(r)' = IF 1 \in LinesOut(r) THEN 1 ELSE 0
  BY <1>1, <1>3, <1>6 DEF LinesRelayed
<1>8. Cardinality(LinesAll(r)) + 0 + Cardinality(LinesOut(r)) = said[r]
  BY <1>7 DEF CountAt
<1>9. Cardinality(LinesAll(r)') + LinesRelayed(r)' + Cardinality(LinesOut(r)') = said'[r]
  <2>1. said'[r] = said[r] /\ LinesAll(r)' = LinesAll(r)
    BY <1>1, <1>2
  <2>2. Cardinality(LinesAll(r)) \in Nat /\ Cardinality(LinesOut(r)) \in Nat
    BY LinesFinite
  <2>3. CASE 1 \in LinesOut(r)
    BY <1>5, <1>7, <1>8, <2>1, <2>2, <2>3
  <2>4. CASE 1 \notin LinesOut(r)
    BY <1>5, <1>7, <1>8, <2>1, <2>2, <2>4
  <2> QED
    BY <2>3, <2>4
<1> QED
  BY <1>1, <1>2, <1>9 DEF CountAt

\* The relay publishes its line.
LEMMA CountPublishes ==
  ASSUME TypeInv, TypeInv', cli = "claude", NEW r \in Turns, CountAt(r), InRelay(r) => relay.run = r,
         r \notin excused', RelayPublishes, SaysWell
  PROVE  CountAt(r)'
<1> DEFINE e == Entry("relay", relay.kind, relay.of, 0)
<1>1. /\ relay.step = "line" /\ UNCHANGED <<out, said>>
      /\ relay' = RelayIdle \/ relay' = [relay EXCEPT !.step = "done"]
      /\ (Says(relay.run, <<e>>) \/ (r # relay.of /\ UNCHANGED stream))
  BY DEF RelayPublishes, Fault
<1>2. relay.of \in Turns /\ relay.run \in Runs /\ r \in Runs
      /\ relay.kind \in {"line", "result", "woken"}
  BY <1>1, RelayTypes DEF TypeInv, RelayShape, Runs
<1>3. e \in Entries /\ e.of = relay.of /\ e.kind = relay.kind /\ e.kind # "done" /\ e.by = "relay"
  BY <1>2 DEF Entry, Entries
<1> HIDE DEF e
<1>4. relay'.step # "line"
  BY <1>1, RelayTypes DEF RelayIdle
<1>5. LinesOut(r)' = LinesOut(r) /\ said'[r] = said[r] /\ LinesRelayed(r)' = 0
  BY <1>1, <1>4 DEF LinesOut, LinesRelayed
<1>6. ASSUME Says(relay.run, <<e>>)
      PROVE  /\ Len(stream'[relay.run]) = Len(stream[relay.run]) + 1
             /\ \A q \in Runs, i \in Nat : NewAt(q, i) =>
                   q = relay.run /\ i = Len(stream[relay.run]) + 1 /\ stream'[q][i] = e
  BY <1>2, <1>3, <1>6, SaysOneEffect DEF TypeInv, TypeOK
<1>7. NoEnd(r)
  <2>1. CASE UNCHANGED stream
    BY <2>1 DEF NoEnd, NewAt
  <2>2. CASE Says(relay.run, <<e>>)
    BY <1>2, <1>3, <1>6, <2>2 DEF NoEnd, RelayDone
  <2> QED
    BY <1>1, <2>1, <2>2
<1>8. CASE ~(relay.of = r /\ relay.kind = "line")
  <2>1. LinesRelayed(r)' = LinesRelayed(r)
    BY <1>5, <1>8 DEF LinesRelayed
  <2>2. NoLine(r)
    <3>1. CASE UNCHANGED stream
      BY <3>1 DEF NoLine, NewAt
    <3>2. CASE Says(relay.run, <<e>>)
      BY <1>2, <1>3, <1>6, <1>8, <3>2 DEF NoLine
    <3> QED
      BY <1>1, <3>1, <3>2
  <2> QED
    BY <1>5, <1>7, <2>1, <2>2, CountStays
<1>9. CASE relay.of = r /\ relay.kind = "line"
  <2>1. relay.run = r /\ Says(r, <<e>>)
    BY <1>1, <1>9 DEF InRelay
  <2> DEFINE n == Len(stream[r]) + 1
  <2>2. /\ Len(stream'[r]) = n /\ Len(stream[r]) \in Nat
        /\ DOMAIN stream[r] = 1..Len(stream[r]) /\ DOMAIN stream'[r] = 1..n
        /\ \A i \in Nat : NewAt(r, i) => i = n /\ stream'[r][i] = e
    BY <1>2, <1>6, <2>1, LenProperties DEF TypeInv, TypeOK, FeedTypeOK
  <2>3. NewAt(r, n) /\ stream'[r][n] = e
    BY <2>2 DEF NewAt
  <2>4. \A i \in 1..Len(stream[r]) : i \in 1..n /\ i # n /\ stream'[r][i] = stream[r][i]
    BY <1>2, <2>2 DEF SaysWell, Grows
  <2>5. LinesAll(r)' = LinesAll(r) \cup {n} /\ n \notin LinesAll(r)
    <3>1. \A i \in 1..n : i \in 1..Len(stream[r]) \/ i = n
      BY <2>2
    <3>2. n \in 1..n
      BY <2>2
    <3> QED
      BY <1>3, <1>9, <2>2, <2>3, <2>4, <3>1, <3>2 DEF LinesAll, LinesIn
  <2>6. Cardinality(LinesAll(r)') = Cardinality(LinesAll(r)) + 1
    BY <2>5, LinesFinite, FS_AddElement
  <2>7. LinesRelayed(r) = 1
    BY <1>1, <1>9 DEF LinesRelayed
  <2>8. Cardinality(LinesAll(r)) + 1 + Cardinality(LinesOut(r)) = said[r]
    BY <2>7 DEF CountAt
  <2>9. Cardinality(LinesAll(r)') + LinesRelayed(r)' + Cardinality(LinesOut(r)') = said'[r]
    BY <1>5, <2>6, <2>8, LinesFinite
  <2>10. \A i \in DoneAt(r)' : Cardinality(LinesIn(r, i)') = said'[r]
    <3>1. \A i \in DoneAt(r)' : i \in DoneAt(r) /\ LinesIn(r, i)' = LinesIn(r, i)
      BY <1>7, EndsStay, LinesStay
    <3> QED
      BY <1>5, <3>1 DEF CountAt
  <2> QED
    BY <2>9, <2>10 DEF CountAt
<1> QED
  BY <1>8, <1>9

\* The relay ends a run: the lines of its turn are all in the stream.
LEMMA CountFinalises ==
  ASSUME TypeInv, TypeInv', cli = "claude", NEW r \in Turns, CountAt(r), ResultIsLast,
         relay.run = r => InRelay(r) \/ relay.kind = "woken", RelayFinalises, SaysWell
  PROVE  CountAt(r)'
<1> DEFINE e == Entry("relay", "done", relay.of, 0)
<1>1. /\ relay.step = "done" /\ UNCHANGED <<out, said>> /\ relay' = RelayIdle
      /\ (Says(relay.run, <<e>>) \/ UNCHANGED stream)
  BY DEF RelayFinalises
<1>2. relay.of \in Turns /\ relay.run \in Runs /\ r \in Runs /\ relay.kind = "result"
  BY <1>1, RelayTypes DEF TypeInv, RelayShape, Runs
<1>3. e \in Entries /\ e.kind = "done"
  BY <1>2 DEF Entry, Entries
<1> HIDE DEF e
<1>4. LinesOut(r)' = LinesOut(r) /\ said'[r] = said[r] /\ LinesRelayed(r)' = 0 /\ LinesRelayed(r) = 0
  BY <1>1 DEF LinesOut, LinesRelayed, RelayIdle
<1>5. ASSUME Says(relay.run, <<e>>)
      PROVE  \A q \in Runs, i \in Nat : NewAt(q, i) =>
                q = relay.run /\ i = Len(stream[relay.run]) + 1 /\ stream'[q][i] = e
  BY <1>2, <1>3, <1>5, SaysOneEffect DEF TypeInv, TypeOK
<1>6. NoLine(r)
  <2>1. CASE UNCHANGED stream
    BY <2>1 DEF NoLine, NewAt
  <2>2. CASE Says(relay.run, <<e>>)
    BY <1>2, <1>3, <1>5, <2>2 DEF NoLine
  <2> QED
    BY <1>1, <2>1, <2>2
<1>7. CASE NoEnd(r)
  BY <1>4, <1>6, <1>7, CountStays
<1>8. CASE ~NoEnd(r)
  <2>1. PICK k \in Nat : NewAt(r, k) /\ RelayDone(stream'[r][k])
    BY <1>8 DEF NoEnd
  <2>2. Says(relay.run, <<e>>) /\ relay.run = r
    <3>1. ~(UNCHANGED stream)
      BY <2>1 DEF NewAt
    <3> QED
      BY <1>1, <1>2, <1>5, <2>1, <3>1
  <2>3. relay.of = r /\ ~InOut(r)
    BY <1>2, <2>2 DEF InRelay, ResultIsLast
  <2>4. LinesOut(r) = {}
    BY <2>3 DEF LinesOut, InOut, Line
  <2>5. Cardinality(LinesAll(r)) = said[r]
    BY <1>4, <2>4, LinesFinite, FS_EmptySet DEF CountAt
  <2>6. LinesAll(r)' = LinesAll(r) /\ \A i \in DOMAIN stream[r] : LinesIn(r, i)' = LinesIn(r, i)
    BY <1>6, LinesStay DEF NoLine
  <2>7. /\ DOMAIN stream[r] = 1..Len(stream[r]) /\ DOMAIN stream'[r] = 1..Len(stream'[r])
        /\ Len(stream[r]) \in Nat /\ Len(stream'[r]) \in Nat
    BY <1>2, LenProperties DEF TypeInv, TypeOK, FeedTypeOK
  <2>8. Len(stream'[r]) = Len(stream[r]) + 1
    BY <1>2, <1>3, <2>2, SaysOneEffect DEF TypeInv, TypeOK
  <2>9. ASSUME NEW i \in DoneAt(r)'  PROVE Cardinality(LinesIn(r, i)') = said'[r]
    <3>1. i \in DOMAIN stream'[r] /\ RelayDone(stream'[r][i]) /\ i \in Nat
      BY <2>7 DEF DoneAt
    <3>2. CASE i \in DOMAIN stream[r]
      <4>1. i \in DoneAt(r)
        BY <1>2, <3>1, <3>2 DEF DoneAt, SaysWell, Grows
      <4> QED
        BY <1>4, <2>6, <3>2, <4>1 DEF CountAt
    <3>3. CASE i \notin DOMAIN stream[r]
      <4>1. i = Len(stream'[r])
        BY <1>2, <1>5, <2>2, <2>8, <3>1, <3>3 DEF NewAt
      <4>2. LinesIn(r, i)' = LinesAll(r)'
        BY <4>1 DEF LinesAll, LinesIn
      <4> QED
        BY <1>4, <2>5, <2>6, <4>2
    <3> QED
      BY <3>2, <3>3
  <2>10. Cardinality(LinesAll(r)') + LinesRelayed(r)' + Cardinality(LinesOut(r)') = said'[r]
    BY <1>4, <2>6 DEF CountAt
  <2> QED
    BY <2>9, <2>10 DEF CountAt
<1> QED
  BY <1>7, <1>8

\* A step loses no line of a turn apart and adds none that claude did not say.
LEMMA CountStep ==
  ASSUME TypeInv, TypeInv', FedOnce, ResultIsLast, Attributed, Apart, CountInv, [Next]_vars
  PROVE  CountInv'
<1>1. CASE UNCHANGED vars
  <2>1. UNCHANGED <<stream, out, relay, said, apart, excused, cli>>
    BY <1>1 DEF vars, turnFeedVars, claudeVars
  <2>2. ASSUME NEW r  PROVE CountAt(r)' = CountAt(r)
    <3>1. \A n : LinesIn(r, n)' = LinesIn(r, n)
      BY <2>1 DEF LinesIn
    <3>2. LinesAll(r)' = LinesAll(r)
      BY <2>1 DEF LinesAll, LinesIn
    <3>3. LinesOut(r)' = LinesOut(r) /\ LinesRelayed(r)' = LinesRelayed(r)
      BY <2>1 DEF LinesOut, LinesRelayed
    <3>4. DoneAt(r)' = DoneAt(r)
      BY <2>1 DEF DoneAt, RelayDone
    <3> QED
      BY <2>1, <3>1, <3>2, <3>3, <3>4 DEF CountAt
  <2> QED
    BY <2>1, <2>2 DEF CountInv
<1>2. CASE Next
  <2> SUFFICES ASSUME cli' = "claude", NEW r \in apart' \ excused'  PROVE CountAt(r)'
    BY DEF CountInv
  <2>1. cli = "claude" /\ SaysWell /\ excused \subseteq excused' /\ r \notin excused
    BY <1>2, StepSays, StepLasts DEF Next, Lasting
  <2>2. r \in Turns /\ apart \in SUBSET Turns
    BY DEF TypeInv, TypeOK, FeedTypeOK
  <2>3. ASSUME r \in apart
        PROVE  CountAt(r) /\ ApartAt(r)
    BY <2>1, <2>3 DEF CountInv, Apart
  <2>4. ASSUME r \in apart, NoLine(r), NoEnd(r), UNCHANGED <<out, relay, said>>  PROVE CountAt(r)'
    BY <2>1, <2>2, <2>3, <2>4, CountStays DEF LinesRelayed, LinesOut
  <2>5. ASSUME UNCHANGED stream  PROVE NoLine(r) /\ NoEnd(r)
    BY <2>5 DEF NoLine, NoEnd, NewAt
  <2>6. CASE FeedNext /\ UNCHANGED <<claudeVars, codexVars, cli>>
    <3>1. UNCHANGED <<out, relay, said>>
      BY <2>6 DEF claudeVars
    <3>2. CASE r \in apart
      <4>1. RelayIsSilent /\ r \in Runs
        BY <2>2, <2>6, FeedSays DEF Runs
      <4>2. NoEnd(r)
        BY <4>1 DEF RelayIsSilent, NoEnd, RelayDone
      <4>3. NoLine(r)
        BY <2>1, <4>1 DEF NoLine, RelayIsSilent, SaysWell, Said, DispatchSays, AbortSays, RelaySays,
                          ClaudeRelaySays, CodexRelaySays, Entry
      <4> QED
        BY <2>4, <3>1, <3>2, <4>2, <4>3
    <3>3. CASE r \notin apart
      <4>1. NameTurn(r, Held)
        <5>1. apart' # apart
          BY <3>3
        <5>2. PICK t \in Turns : NameTurn(t, Held)
          BY <2>6, <5>1 DEF FeedNext, Platform, Send, ReadsDone, GivesUp, Drain, DispatchWork,
             NamedTurn, FeedTurn, DispatchBreaks, ReportFailure, LoseThread, AbortFinds, AbortWork,
             AbortKills, AbortTells, AbortRemoves
        <5> QED
          BY <3>3, <5>2 DEF NameTurn
      <4>2. ~Named(r) /\ Unfed(r) /\ UNCHANGED stream
        BY <4>1 DEF NameTurn, Dispatch, Named, Unfed
      <4> QED
        BY <2>2, <3>1, <4>2, CountBegins
    <3> QED
      BY <3>2, <3>3
  <2>7. CASE ClaudeNext
    <3>1. r \in apart
      BY <2>7 DEF ClaudeNext, ClaudeWork, ClaudeTakes, ClaudeSays, ClaudeEnds, ClaudeWakes,
         ClaudeExits, ClaudeDies, ClaudeBoxStops, Stops, RelayReads, RelayPublishes,
         RelayFinalises, turnFeedVars
    <3>2. CountAt(r) /\ ApartAt(r)
      BY <2>3, <3>1
    <3>3. CASE ClaudeTakes \/ ClaudeExits \/ ClaudeDies \/ ClaudeBoxStops
      <4>1. UNCHANGED <<stream, out, relay, said>>
        BY <3>3 DEF ClaudeTakes, ClaudeExits, ClaudeDies, ClaudeBoxStops, Stops, turnFeedVars, claudeVars
      <4> QED
        BY <2>4, <2>5, <3>1, <4>1
    <3>4. ASSUME NEW t \in Turns, NEW kind \in {"result", "woken"}, out' = Append(out, Line(kind, t)),
                 UNCHANGED <<stream, relay, said>>
          PROVE  CountAt(r)'
      <4>1. LinesOut(r)' = LinesOut(r)
        BY <2>2, <3>4, AppendedLine
      <4> QED
        BY <2>1, <2>2, <2>5, <3>2, <3>4, <4>1, CountStays DEF LinesRelayed
    <3>5. CASE ClaudeEnds
      <4>1. busy \in Turns /\ out' = Append(out, Line("result", busy)) /\ UNCHANGED <<stream, relay, said>>
        BY <3>5 DEF ClaudeEnds, turnFeedVars, TypeInv, TypeOK, ClaudeTypeOK, Runs
      <4> QED
        BY <3>4, <4>1
    <3>6. ASSUME NEW t \in Turns, ClaudeWakes(t)  PROVE CountAt(r)'
      <4>1. out' = Append(out, Line("woken", t)) /\ UNCHANGED <<stream, relay, said>>
        BY <3>6 DEF ClaudeWakes, turnFeedVars
      <4> QED
        BY <3>4, <4>1
    <3>7. CASE ClaudeSays
      BY <2>2, <3>2, <3>7, CountSays DEF ApartAt
    <3>8. CASE RelayReads
      BY <2>2, <3>2, <3>8, CountReads
    <3>9. CASE RelayPublishes
      BY <2>1, <2>2, <3>2, <3>9, CountPublishes DEF ApartAt
    <3>10. CASE RelayFinalises
      BY <2>1, <2>2, <3>2, <3>10, CountFinalises DEF ApartAt
    <3> QED
      BY <2>7, <3>3, <3>5, <3>6, <3>7, <3>8, <3>9, <3>10 DEF ClaudeNext, ClaudeWork
  <2> QED
    BY <1>2, <2>1, <2>6, <2>7 DEF Next
<1> QED
  BY <1>1, <1>2

\* When the relay ends the stream of a turn that had the container to itself,
\* the end is its own, the container holds nothing of the turn any more and, with
\* claude, every line said in the turn is in the stream before it, exactly once.
THEOREM WholeAnswer == Spec => []AnswerIsWhole
<1> DEFINE Inv == TypeInv /\ FedOnce /\ Attributed /\ Apart /\ EndInv /\ ResultIsLast /\ CountInv
<1>1. Init => Inv
  <2>1. ASSUME Init  PROVE EndInv /\ ResultIsLast /\ CountInv
    <3>1. /\ stream = [r \in Runs |-> <<>>] /\ out = <<>> /\ relay = RelayIdle /\ apart = {}
          /\ \A t \in Turns : t \in Runs
      BY <2>1 DEF Init, FeedInit, ClaudeInit, Runs
    <3>2. EndInv
      BY <3>1 DEF EndInv, DoneAt, RelayIdle
    <3>3. \A t \in Turns : ~Ended(t)
      BY <3>1 DEF Ended
    <3>4. ResultIsLast
      BY <3>1, <3>3 DEF ResultIsLast, RelayIdle
    <3> QED
      BY <3>1, <3>2, <3>4 DEF CountInv
  <2> QED
    BY <2>1, InitType, InitWay
<1>2. Inv /\ [Next]_vars => Inv'
  BY TypeStep, FedOnceStep, AttributedStep, ApartStep, EndStep, ResultStep, CountStep
<1>3. Inv => AnswerIsWhole
  <2> SUFFICES ASSUME Inv, NEW r \in apart \ excused, NEW i \in DoneAt(r)
               PROVE  /\ stream[r][i].of = r
                      /\ cli = "claude" =>
                            /\ r \notin ClaudeHolds
                            /\ Cardinality({j \in 1..i : stream[r][j].of = r /\ stream[r][j].kind = "line"}) = said[r]
                      /\ cli = "codex" => r \notin CodexHolds
    BY DEF AnswerIsWhole
  <2>1. r \in Turns /\ r \in Runs /\ i \in DOMAIN stream[r] /\ RelayDone(stream[r][i])
    BY DEF TypeInv, TypeOK, FeedTypeOK, DoneAt, Runs
  <2>2. stream[r][i].of = r
    BY <2>1 DEF Apart, ApartAt, NoneForeign, RelayDone
  <2>3. ~InBox(r)
    BY <2>1, <2>2 DEF ResultIsLast, Ended
  <2>4. cli = "claude" => r \notin ClaudeHolds
    BY <2>3 DEF InBox, InFifo, Taken, InOut, InRelay, ClaudeHolds
  <2>5. cli = "codex" => r \notin CodexHolds
    BY <2>3 DEF InBox, InFifo, Taken, CodexHolds
  <2>6. cli = "claude" =>
          Cardinality({j \in 1..i : stream[r][j].of = r /\ stream[r][j].kind = "line"}) = said[r]
    BY DEF CountInv, CountAt, LinesIn
  <2> QED
    BY <2>2, <2>4, <2>5, <2>6
<1> QED
  BY <1>1, <1>2, <1>3, PTL DEF Spec


-------------------------------------------------------------------------------
(***************************************************************************)
(* WarmTurn implements TurnContract.  What the contract sees of a turn     *)
(* changes in few ways.                                                    *)
(***************************************************************************)

\* The buffered lines of codex are of the attempt at hand, whose lines go to
\* the run of the turn.
JobInv ==
    /\ job.step = "taken" => job.attempt = 0
    /\ job.step = "end" => job.held = 0
    /\ job.step \in {"spawn", "run", "end"} /\ job.of \in apart => job.run = job.of

Same(t) ==
    /\ Heard(t)' = Heard(t) /\ Unheard(t)' = Unheard(t) /\ Tries(t)' = Tries(t)
    /\ DoneAt(t)' = {} <=> DoneAt(t) = {}

Still(t) == Released(t)' \/ Same(t)

Open(t) == DoneAt(t) = {}

Writes(t) ==
    /\ Open(t) /\ Open(t)' /\ Tries(t)' = Tries(t)
    /\ \E n \in 0..(Unheard(t) + 1) :
        Unheard(t)' = Unheard(t) + 1 - n /\ Heard(t)' = Heard(t) + n

Delivers(t) ==
    /\ Open(t) /\ Open(t)' /\ Tries(t)' = Tries(t)
    /\ \E n \in 1..Unheard(t) :
        Unheard(t)' = Unheard(t) - n /\ Heard(t)' = Heard(t) + n

Attempts(t) ==
    /\ Open(t) /\ Open(t)' /\ Heard(t) = 0 /\ Heard(t)' = 0 /\ Tries(t) < MaxAttempts
    /\ Tries(t)' = Tries(t) + 1 /\ Unheard(t)' = 0

Ends(t) ==
    /\ Open(t) /\ ~Open(t)' /\ Unheard(t) = 0 /\ Unheard(t)' = 0
    /\ Heard(t)' = Heard(t) /\ Tries(t)' = 0

Moves(t) ==
    /\ ~Released(t) /\ UNCHANGED <<disp, abort, apart, excused>>
    /\ Writes(t) \/ Delivers(t) \/ Attempts(t) \/ Ends(t)

\* At most one turn moves, and the others are as they were or released.
OneMoves ==
    \/ \A t \in Turns : Still(t)
    \/ \E t \in Turns : Moves(t) /\ \A u \in Turns \ {t} : Still(u)

\* What is heard of a turn are the lines in its stream.
LEMMA HeardIsLines ==
  ASSUME TypeInv, NEW t \in Turns
  PROVE  Heard(t) = Cardinality(LinesAll(t)) /\ Heard(t) \in Nat
<1>1. Heard(t) = Cardinality(LinesAll(t))
  BY DEF Heard, LinesAll, LinesIn
<1> QED
  BY <1>1, LinesFinite

\* A released turn stays so.
LEMMA ReleasedStays ==
  ASSUME TypeInv, Next, NEW t \in Turns, Released(t)
  PROVE  Released(t)'
<1>1. /\ excused \subseteq excused'
      /\ abort[t] \in {"killed", "told", "over"} => abort'[t] \in {"killed", "told", "over"}
  BY StepLasts DEF Lasting
<1>2. CASE UNCHANGED <<disp, apart>>
  BY <1>1, <1>2 DEF Released
<1>3. disp \in [Turns -> {"new", "sent", "naming", "named", "fed", "failing", "failed", "lost"}]
  BY DEF TypeInv, TypeOK, FeedTypeOK
<1>4. ASSUME NEW u \in Turns, NEW from \in {"new", "sent", "naming", "named", "failing"},
             NEW to \in {"sent", "naming", "named", "fed", "failing", "failed", "lost"},
             disp[u] = from, disp' = [disp EXCEPT ![u] = to],
             from \in {"new", "sent"} \/ to \notin {"new", "sent"},
             from = "failing" => to \in {"failed", "lost"},
             u \in apart' /\ u \notin apart => from = "sent",
             \A v \in Turns \ {u} : v \in apart' => v \in apart
      PROVE  Released(t)'
  BY <1>1, <1>3, <1>4 DEF Released
<1>5. ASSUME NEW u \in Turns, Send(u) \/ DispatchWork(u) \/ LoseThread(u)  PROVE Released(t)'
  <2>1. CASE Send(u)
    BY <1>4, <2>1 DEF Send
  <2>2. CASE NameTurn(u, Held)
    BY <1>4, <2>2 DEF NameTurn, Dispatch
  <2>3. CASE NamedTurn(u)
    BY <1>4, <2>3 DEF NamedTurn, Dispatch
  <2>4. CASE FeedTurn(u)
    BY <1>4, <2>4 DEF FeedTurn, Dispatch
  <2>5. CASE DispatchBreaks(u)
    BY <1>4, <2>5 DEF DispatchBreaks
  <2>6. CASE ReportFailure(u)
    BY <1>4, <2>6 DEF ReportFailure, Dispatch
  <2>7. CASE LoseThread(u)
    BY <1>4, <2>7 DEF LoseThread
  <2> QED
    BY <1>5, <2>1, <2>2, <2>3, <2>4, <2>5, <2>6, <2>7 DEF DispatchWork
<1>6. ASSUME ReadsDone \/ GivesUp \/ Drain \/ (\E u \in Turns : AbortFinds(u) \/ AbortWork(u))
      PROVE  UNCHANGED <<disp, apart>>
  BY <1>6 DEF ReadsDone, GivesUp, Drain, AbortFinds, AbortWork, AbortKills, AbortTells, AbortRemoves
<1>7. ASSUME ClaudeNext \/ CodexNext  PROVE UNCHANGED <<disp, apart>>
  BY <1>7 DEF ClaudeNext, ClaudeWork, ClaudeTakes, ClaudeSays, ClaudeEnds, ClaudeWakes,
     ClaudeExits, ClaudeDies, ClaudeBoxStops, Stops, RelayReads, RelayPublishes, RelayFinalises,
     CodexNext, CodexWork, CodexTakes, CodexSkips, CodexReadsRun, CodexSpawns, SpawnFails,
     CodexSays,
     CodexRetries, CodexEnds, CodexFinishes, CodexExits, TtlKillsCodex, CodexBoxStops,
     turnFeedVars, feedVars
<1> QED
  BY <1>2, <1>5, <1>6, <1>7 DEF Next, FeedNext, Platform

\* What neither writes nor ends the run of a turn leaves what is heard of it.
LEMMA SameSeen ==
  ASSUME TypeInv, TypeInv', SaysWell, NEW t \in Turns, NoLine(t), NoEnd(t), cli' = cli,
         said'[t] = said[t], Buffered(t)' = Buffered(t), Tries(t)' = Tries(t)
  PROVE  Same(t)
<1>1. Heard(t)' = Heard(t)
  <2>1. LinesAll(t)' = LinesAll(t)
    BY LinesStay DEF NoLine
  <2> QED
    BY <2>1 DEF Heard, LinesAll, LinesIn
<1>2. DoneAt(t)' = DoneAt(t)
  <2>1. \A i \in DoneAt(t)' : i \in DoneAt(t)
    BY EndsStay
  <2>2. \A i \in DoneAt(t) : i \in DoneAt(t)'
    BY DEF DoneAt, SaysWell, Grows, Runs
  <2> QED
    BY <2>1, <2>2
<1> QED
  BY <1>1, <1>2 DEF Same, Unheard

\* Lines of a turn go into its stream: as many more are heard.
LEMMA HeardGrows ==
  ASSUME TypeInv, TypeInv', NEW t \in Turns, NEW n \in Nat, NEW es \in Seq(Entries), Len(es) = n,
         \A i \in 1..n : es[i].of = t /\ es[i].kind = "line", Says(t, es)
  PROVE  Heard(t)' = Heard(t) + n
<1> DEFINE k == Len(stream[t])
           New == (k + 1)..(k + n)
<1>1. t \in Runs /\ stream[t] \in Seq(Entries) /\ k \in Nat /\ stream'[t] = stream[t] \o es
  BY DEF Runs, TypeInv, TypeOK, FeedTypeOK, Says
<1>2. Len(stream'[t]) = k + n
  BY <1>1, ConcatProperties
<1>3. \A j \in 1..k : stream'[t][j] = stream[t][j]
  BY <1>1
<1>4. \A j \in New : stream'[t][j].of = t /\ stream'[t][j].kind = "line"
  <2>1. ASSUME NEW j \in New  PROVE j \in 1..(k + n) /\ j > k /\ j - k \in 1..n
    <3>1. k \in Nat /\ n \in Nat
      BY <1>1
    <3> HIDE DEF k
    <3> QED
      BY <2>1, <3>1
  <2>2. \A j \in 1..(k + n) : stream'[t][j] = IF j <= k THEN stream[t][j] ELSE es[j - k]
    BY <1>1, ConcatProperties
  <2>3. ASSUME NEW j \in New  PROVE stream'[t][j] = es[j - k]
    <3>1. ~(j <= k)
      BY <1>1, <2>1
    <3> QED
      BY <2>1, <2>2, <3>1
  <2> QED
    BY <2>1, <2>3
<1>5. LinesAll(t)' = LinesAll(t) \cup New /\ LinesAll(t) \cap New = {}
  <2>1. 1..(k + n) = (1..k) \cup New /\ (1..k) \cap New = {}
    BY <1>1
  <2> HIDE DEF k, New
  <2> QED
    BY <1>2, <1>3, <1>4, <2>1 DEF LinesAll, LinesIn, k
<1>6. IsFiniteSet(New) /\ Cardinality(New) = n
  <2>1. k + 1 \in Int /\ k + n \in Int
    BY <1>1
  <2> HIDE DEF k
  <2>2. /\ IsFiniteSet((k + 1)..(k + n))
        /\ Cardinality((k + 1)..(k + n)) = IF k + 1 > k + n THEN 0 ELSE (k + n) - (k + 1) + 1
    BY <2>1, FS_Interval
  <2>3. (IF k + 1 > k + n THEN 0 ELSE (k + n) - (k + 1) + 1) = n
    BY <1>1
  <2> QED
    BY <2>2, <2>3
<1>7. Cardinality(LinesAll(t)') = Cardinality(LinesAll(t)) + n
  <2>1. IsFiniteSet(LinesAll(t)) /\ Cardinality(LinesAll(t)) \in Nat
    BY LinesFinite
  <2>2. Cardinality(LinesAll(t) \cup New) = Cardinality(LinesAll(t)) + n - Cardinality({})
    BY <1>5, <1>6, <2>1, FS_Union
  <2> QED
    BY <1>5, <2>1, <2>2, FS_EmptySet
<1>8. Heard(t)' = Cardinality(LinesAll(t)')
  BY DEF Heard, LinesAll, LinesIn
<1> QED
  BY <1>7, <1>8, HeardIsLines

\* What the steps of the refinement need to know of a state.
TurnInv ==
    TypeInv /\ FedOnce /\ Attributed /\ Apart /\ EndInv /\ ResultIsLast /\ CountInv /\ AttemptInv /\ JobInv

\* Only naming a turn makes it one apart.
LEMMA ApartMoves ==
  ASSUME TypeInv, Next, NEW t \in Turns, t \in apart', t \notin apart
  PROVE  disp[t] = "sent" /\ UNCHANGED job
<1>1. ASSUME FeedNext  PROVE disp[t] = "sent"
  BY <1>1 DEF FeedNext, Platform, Send, ReadsDone, GivesUp, DispatchWork, NameTurn, Dispatch, NamedTurn,
     FeedTurn, DispatchBreaks, ReportFailure, LoseThread, AbortFinds, AbortWork, AbortKills,
     AbortTells, AbortRemoves, Drain
<1>2. ~ClaudeNext /\ ~CodexNext
  BY DEF ClaudeNext, ClaudeWork, ClaudeTakes, ClaudeSays, ClaudeEnds, ClaudeWakes,
     ClaudeExits, ClaudeDies, ClaudeBoxStops, Stops, RelayReads, RelayPublishes, RelayFinalises,
     CodexNext, CodexWork, CodexTakes, CodexSkips, CodexReadsRun, CodexSpawns, SpawnFails,
     CodexSays,
     CodexRetries, CodexEnds, CodexFinishes, CodexExits, TtlKillsCodex, CodexBoxStops,
     turnFeedVars
<1> QED
  BY <1>1, <1>2 DEF Next, codexVars

\* A step keeps the lines of codex with the run of their turn.
LEMMA JobStep ==
  ASSUME TypeInv, TypeInv', FedOnce, Apart, JobInv, [Next]_vars
  PROVE  JobInv'
<1>1. CASE UNCHANGED vars
  BY <1>1 DEF JobInv, vars, turnFeedVars, feedVars, codexVars
<1>2. ASSUME Next, job.of \in Turns, job.of \in apart'  PROVE job.of \in apart
  BY <1>2, ApartMoves DEF FedOnce, Unfed, Taken
<1>3. ASSUME Next, UNCHANGED job  PROVE JobInv'
  <2>1. job.of \in Runs /\ Nobody \notin apart'
    BY TurnFeedAssumption DEF TypeInv, TypeOK, FeedTypeOK, CodexTypeOK, Jobs
  <2> QED
    BY <1>2, <1>3, <2>1 DEF JobInv, Runs
<1>4. ASSUME Next, CodexNext, job' # job  PROVE JobInv'
  <2> USE <1>4
  <2>1. CASE CodexTakes \/ CodexFinishes \/ TtlKillsCodex
    <3>1. CASE job' = Idle
      BY <3>1 DEF Idle, JobInv
    <3>2. CASE job' = [Idle EXCEPT !.step = "taken", !.of = Head(fifo)]
      <4>1. job'.step = "taken" /\ job'.attempt = 0
        BY <3>2 DEF Idle
      <4> QED
        BY <4>1 DEF JobInv
    <3> QED
      BY <2>1, <3>1, <3>2 DEF CodexTakes, CodexFinishes, TtlKillsCodex
  <2>2. CASE CodexReadsRun
    <3>1. job.of \in Turns
      BY <2>2 DEF CodexReadsRun, At, TypeInv, JobShape
    <3>2. job.of \in apart' => current = job.of
      BY <1>2, <3>1 DEF Apart, ApartAt, InBox, Taken
    <3>3. job'.step = "spawn" /\ job'.run = current /\ job'.of = job.of
      BY <2>2 DEF CodexReadsRun, TypeInv, TypeOK, CodexTypeOK, Jobs
    <3> QED
      BY <3>2, <3>3 DEF JobInv
  <2>3. ASSUME job.step \in {"spawn", "run"}, job'.of = job.of, job'.run = job.run,
               job'.step \in {"spawn", "run", "end"}, job'.step = "end" => job'.held = 0
        PROVE  JobInv'
    <3>1. job.of \in Turns
      BY <2>3 DEF TypeInv, JobShape
    <3> QED
      BY <1>2, <2>3, <3>1 DEF JobInv
  <2>4. job \in Jobs /\ JobShape
    BY DEF TypeInv, TypeOK, CodexTypeOK
  <2>5. CASE CodexSpawns
    BY <2>3, <2>4, <2>5 DEF CodexSpawns, At, Jobs
  <2>6. CASE SpawnFails
    BY <2>3, <2>4, <2>6 DEF SpawnFails, At, Jobs, JobShape
  <2>7. ASSUME NEW kind \in LineKinds, CodexSays(kind)  PROVE JobInv'
    BY <2>3, <2>4, <2>7 DEF CodexSays, At, Jobs
  <2>8. ASSUME NEW rc \in 0..1, CodexRetries(rc)  PROVE JobInv'
    BY <2>3, <2>4, <2>8 DEF CodexRetries, Attempt, Idle, At
  <2>9. ASSUME NEW rc \in 0..1, CodexEnds(rc)  PROVE JobInv'
    BY <2>3, <2>4, <2>9 DEF CodexEnds, Attempt, Idle, At
  <2> QED
    BY <2>1, <2>2, <2>5, <2>6, <2>7, <2>8, <2>9
       DEF CodexNext, CodexWork, CodexSkips, CodexExits, CodexBoxStops, codexVars
<1> QED
  BY <1>1, <1>3, <1>4 DEF Next, codexVars

\* A turn of which something is promised has the container to itself, and
\* its run is not ended while the container holds it.
LEMMA OpenTurn ==
  ASSUME TurnInv, NEW t \in Turns, ~Released(t), Named(t)
  PROVE  /\ t \in apart /\ t \notin excused /\ ApartAt(t)
         /\ InBox(t) => Open(t)
<1>1. t \in apart /\ t \notin excused /\ ApartAt(t)
  BY DEF Released, Named, TurnInv, Apart
<1>2. ASSUME InBox(t), NEW i \in DoneAt(t)  PROVE FALSE
  <2>1. stream[t][i].of = t /\ i \in DOMAIN stream[t]
    BY <1>1, <1>2 DEF ApartAt, NoneForeign, DoneAt, RelayDone
  <2>2. Ended(t)
    BY <1>2, <2>1 DEF Ended, DoneAt, Runs
  <2> QED
    BY <1>2, <2>2 DEF TurnInv, ResultIsLast
<1> QED
  BY <1>1, <1>2 DEF Open

\* The container holds only named turns.
LEMMA BoxNamed ==
  ASSUME TurnInv, NEW t \in Turns, InBox(t)
  PROVE  Named(t)
BY DEF TurnInv, FedOnce, Unfed, Named, InBox

\* What the relays hold of a turn of which something is promised.
LEMMA HeldOwn ==
  ASSUME TurnInv, NEW t \in Turns, ~Released(t)
  PROVE  /\ relay.run = t => InRelay(t) \/ relay.kind = "woken"
         /\ InRelay(t) => relay.run = t
         /\ job.run = t => job.of = t
         /\ job.of = t /\ job.step \in {"spawn", "run", "end"} => job.run = t
<1>1. relay.run = t \/ job.run = t \/ InRelay(t) \/ job.of = t => Named(t)
  <2>1. InRelay(t) \/ job.of = t => InBox(t)
    BY DEF InBox, Taken
  <2> QED
    BY <2>1, BoxNamed DEF TurnInv, Attributed
<1> QED
  BY <1>1, OpenTurn DEF ApartAt, TurnInv, JobInv

\* Nothing was heard of the attempt of codex that said nothing.
LEMMA HeardNone ==
  ASSUME TurnInv, cli = "codex", NEW t \in Turns, job.of = t, ~job.live, job.step # "end"
  PROVE  Heard(t) = 0
<1>1. ASSUME NEW j \in LinesAll(t)  PROVE FALSE
  <2>1. j \in DOMAIN stream[t] /\ stream[t][j].of = t /\ stream[t][j].kind = "line"
    <3>1. stream[t] \in Seq(Entries)
      BY DEF TurnInv, TypeInv, TypeOK, FeedTypeOK, Runs
    <3> QED
      BY <1>1, <3>1 DEF LinesAll, LinesIn
  <2>2. stream[t][j].by = "relay"
    BY <2>1 DEF TurnInv, Attributed
  <2> QED
    BY <2>1, <2>2 DEF TurnInv, AttemptInv, Line1, Runs
<1> QED
  BY <1>1, HeardIsLines, FS_EmptySet DEF TurnInv

\* A turn of which nothing is said and whose attempt goes on.
LEMMA StillSeen ==
  ASSUME TypeInv, TypeInv', SaysWell, NEW t \in Turns, cli' = cli, said'[t] = said[t],
         NoLine(t), NoEnd(t), job'.of = t <=> job.of = t,
         job.of = t => job'.held = job.held /\ job'.attempt = job.attempt
  PROVE  Still(t)
<1>1. Buffered(t)' = Buffered(t) /\ Tries(t)' = Tries(t)
  BY DEF Buffered, Tries
<1> QED
  BY <1>1, SameSeen DEF Still

\* The steps of agents-platform, dispatches, aborts and the drain.
LEMMA FeedStill ==
  ASSUME TypeInv, TypeInv', FeedNext, UNCHANGED <<claudeVars, codexVars, cli>>, NEW t \in Turns
  PROVE  Still(t)
<1>1. SaysWell /\ RelayIsSilent
  BY FeedSays
<1>2. NoLine(t) /\ NoEnd(t)
  BY <1>1 DEF NoLine, NoEnd, SaysWell, RelayIsSilent, Said, DispatchSays, AbortSays, RelaySays,
     ClaudeRelaySays, CodexRelaySays, RelayDone, Runs, Entry
<1> QED
  BY <1>1, <1>2, StillSeen DEF claudeVars, codexVars

\* A step that says nothing.
LEMMA SilentStill ==
  ASSUME TypeInv, TypeInv', Next, UNCHANGED stream, NEW t \in Turns, cli' = cli, said'[t] = said[t],
         job'.of = t <=> job.of = t,
         job.of = t => job'.held = job.held /\ job'.attempt = job.attempt
  PROVE  Still(t)
<1>1. NoLine(t) /\ NoEnd(t)
  BY DEF NoLine, NoEnd, NewAt
<1> QED
  BY <1>1, StepSays, StillSeen

\* The steps of claude.
LEMMA ClaudeStill ==
  ASSUME TurnInv, TypeInv', cli = "claude", UNCHANGED <<codexVars, cli>>, Next,
         ClaudeTakes \/ ClaudeEnds \/ (\E t \in Turns : ClaudeWakes(t)) \/ ClaudeExits \/ ClaudeDies
           \/ ClaudeBoxStops \/ RelayReads,
         NEW t \in Turns
  PROVE  Still(t)
<1>1. UNCHANGED <<stream, said>>
  BY DEF ClaudeTakes, ClaudeEnds, ClaudeWakes, ClaudeExits, ClaudeDies, ClaudeBoxStops, Stops,
     RelayReads, turnFeedVars, claudeVars
<1> QED
  BY <1>1, SilentStill DEF TurnInv, codexVars

\* claude writes a line, which is not in the stream yet.
LEMMA ClaudeWrites ==
  ASSUME TurnInv, TypeInv', cli = "claude", UNCHANGED <<codexVars, cli>>, Next, ClaudeSays
  PROVE  OneMoves
<1>0. PICK t \in Turns : t = busy
  BY DEF ClaudeSays, TurnInv, TypeInv, TypeOK, ClaudeTypeOK, Runs
<1>1. busy = t /\ said' = [said EXCEPT ![t] = @ + 1] /\ UNCHANGED turnFeedVars
  BY <1>0 DEF ClaudeSays
<1>2. \A u \in Turns \ {t} : Still(u)
  BY <1>1, SilentStill DEF TurnInv, codexVars, turnFeedVars, TypeInv, TypeOK, ClaudeTypeOK
<1>3. CASE Released(t)
  BY <1>1, <1>2, <1>3, ReleasedStays DEF OneMoves, Still, TurnInv
<1>4. CASE ~Released(t)
  <2>1. Open(t) /\ t \in apart \ excused
    BY <1>1, <1>4, OpenTurn, BoxNamed DEF InBox, Taken
  <2>2. UNCHANGED <<disp, abort, apart, excused, stream>>
    BY <1>1 DEF turnFeedVars, feedVars
  <2>3. Open(t)' /\ Tries(t)' = Tries(t) /\ Heard(t)' = Heard(t)
    BY <2>1, <2>2 DEF Open, DoneAt, Tries, Heard, codexVars
  <2>4. said'[t] = said[t] + 1 /\ said[t] \in Nat
    BY <1>1, ClaudeRelayAssumption DEF TurnInv, TypeInv, TypeOK, ClaudeTypeOK
  <2>5. Heard(t) \in Nat /\ said[t] >= Heard(t)
    <3>1. CountAt(t)
      BY <2>1 DEF TurnInv, CountInv
    <3>2. LinesRelayed(t) \in Nat
      BY DEF LinesRelayed
    <3> QED
      BY <1>1, <2>4, <3>1, <3>2, LinesFinite, HeardIsLines DEF CountAt, TurnInv
  <2>6. Unheard(t) = said[t] - Heard(t) /\ Unheard(t)' = said'[t] - Heard(t)'
    BY DEF Unheard
  <2>7. Unheard(t) \in Nat /\ Unheard(t)' = Unheard(t) + 1
    BY <2>3, <2>4, <2>5, <2>6
  <2>8. Writes(t)
    <3>1. Unheard(t)' = Unheard(t) + 1 - 0 /\ Heard(t)' = Heard(t) + 0
      BY <2>3, <2>5, <2>7
    <3>2. 0 \in 0..(Unheard(t) + 1)
      BY <2>7
    <3> QED
      BY <2>1, <2>3, <3>1, <3>2 DEF Writes
  <2> QED
    BY <1>1, <1>2, <1>4, <2>2, <2>8 DEF OneMoves, Moves
<1> QED
  BY <1>3, <1>4

\* claude's relay publishes its line.
LEMMA ClaudeDelivers ==
  ASSUME TurnInv, TypeInv', cli = "claude", UNCHANGED <<codexVars, cli>>, Next, RelayPublishes
  PROVE  OneMoves
<1> DEFINE e == Entry("relay", relay.kind, relay.of, 0)
<1>0. PICK t \in Turns : t = relay.of
  BY DEF RelayPublishes, TurnInv, TypeInv, RelayShape
<1>1. /\ UNCHANGED <<feedVars, apart, said, job>> /\ SaysWell /\ TypeInv
      /\ relay.of = t /\ relay.run \in Runs /\ relay.kind # "none" /\ relay.step = "line"
      /\ relay.kind \in {"line", "result", "woken"}
  BY <1>0, StepSays DEF RelayPublishes, TurnInv, TypeInv, TypeOK, ClaudeTypeOK, RelayShape, codexVars
<1>2. e \in Entries /\ e.of = t
  BY <1>0, <1>1 DEF Entry, Entries
<1>3. ASSUME UNCHANGED stream  PROVE \A u \in Turns : Still(u)
  BY <1>1, <1>3, SilentStill
<1>4. ASSUME Says(relay.run, <<e>>), NEW u \in Turns, relay.kind = "line" => u # t
      PROVE  Still(u)
  <2>1. \A r \in Runs, i \in Nat : NewAt(r, i) => stream'[r][i] = e
    BY <1>1, <1>2, <1>4, SaysOneEffect DEF TypeInv, TypeOK
  <2>2. NoLine(u) /\ NoEnd(u)
    BY <1>1, <1>4, <2>1 DEF NoLine, NoEnd, Runs, RelayDone, Entry
  <2> QED
    BY <1>1, <2>2, StillSeen
<1>5. ASSUME NoFault, Says(relay.run, <<e>>), relay.kind = "line", ~Released(t)
      PROVE  Moves(t)
  <2>1. relay.run = t /\ t \in apart \ excused /\ Open(t)
    <3>1. InRelay(t) /\ InBox(t)
      BY <1>1, <1>5 DEF InRelay, InBox, Taken
    <3> QED
      BY <1>1, <1>5, <3>1, OpenTurn, BoxNamed, HeldOwn
  <2>2. Heard(t)' = Heard(t) + 1
    <3>1. <<e>> \in Seq(Entries) /\ Len(<<e>>) = 1 /\ 1 \in Nat
      BY <1>2
    <3>2. \A i \in 1..1 : <<e>>[i].of = t /\ <<e>>[i].kind = "line"
      BY <1>1, <1>5 DEF Entry
    <3> QED
      BY <1>1, <1>5, <2>1, <3>1, <3>2, HeardGrows
  <2>3. Open(t)'
    <3>1. NoEnd(t)
      <4>1. \A r \in Runs, i \in Nat : NewAt(r, i) => stream'[r][i] = e
        BY <1>1, <1>2, <1>5, SaysOneEffect DEF TypeInv, TypeOK
      <4> QED
        BY <1>1, <1>5, <4>1 DEF NoEnd, Runs, RelayDone, Entry
    <3> QED
      BY <1>1, <2>1, <3>1, EndsStay DEF Open
  <2>4. said[t] \in Nat /\ Heard(t) \in Nat /\ said[t] >= Heard(t) + 1
    <3>1. CountAt(t)
      BY <2>1 DEF TurnInv, CountInv
    <3>2. LinesRelayed(t) = 1
      BY <1>1, <1>5 DEF LinesRelayed
    <3>3. said[t] \in Nat
      BY <1>1, ClaudeRelayAssumption DEF TypeInv, TypeOK, ClaudeTypeOK
    <3> QED
      BY <1>1, <3>1, <3>2, <3>3, LinesFinite, HeardIsLines DEF CountAt
  <2>5. Unheard(t) = said[t] - Heard(t) /\ Unheard(t)' = said[t] - Heard(t)'
    BY <1>1 DEF Unheard
  <2>6. 1 \in 1..Unheard(t) /\ Unheard(t)' = Unheard(t) - 1
    BY <2>2, <2>4, <2>5
  <2>7. Tries(t)' = Tries(t)
    BY <1>1 DEF Tries
  <2>8. Delivers(t)
    BY <2>1, <2>2, <2>3, <2>6, <2>7 DEF Delivers
  <2> QED
    BY <1>1, <1>5, <2>8 DEF Moves, NoFault, feedVars
<1>6. CASE NoFault /\ Says(relay.run, <<e>>)
  <2>1. CASE relay.kind # "line"
    BY <1>4, <1>6, <2>1 DEF OneMoves
  <2>2. CASE relay.kind = "line" /\ Released(t)
    BY <1>1, <1>4, <1>6, <2>2, ReleasedStays DEF OneMoves, Still
  <2>3. CASE relay.kind = "line" /\ ~Released(t)
    BY <1>1, <1>4, <1>5, <1>6, <2>3 DEF OneMoves
  <2> QED
    BY <2>1, <2>2, <2>3
<1> QED
  BY <1>3, <1>6 DEF RelayPublishes, OneMoves

\* claude's relay ends a run.
LEMMA ClaudeFinishes ==
  ASSUME TurnInv, TypeInv', cli = "claude", UNCHANGED <<codexVars, cli>>, Next, RelayFinalises
  PROVE  OneMoves
<1> DEFINE e == Entry("relay", "done", relay.of, 0)
<1>0. PICK q \in Runs : q = relay.run
  BY DEF TurnInv, TypeInv, TypeOK, ClaudeTypeOK
<1>1. /\ UNCHANGED <<feedVars, apart, said, job>> /\ SaysWell /\ TypeInv
      /\ relay.of \in Turns /\ relay.run = q /\ relay.kind = "result" /\ relay.step = "done"
  BY <1>0, StepSays DEF RelayFinalises, TurnInv, TypeInv, TypeOK, ClaudeTypeOK, RelayShape, codexVars
<1>2. e \in Entries
  BY <1>1 DEF Entry, Entries
<1>3. ASSUME UNCHANGED stream  PROVE \A u \in Turns : Still(u)
  BY <1>1, <1>3, SilentStill
<1>4. ASSUME Says(q, <<e>>)
      PROVE  /\ \A u \in Turns : NoLine(u)
             /\ \A u \in Turns \ {q} : Still(u)
             /\ Len(stream[q]) + 1 \in DOMAIN stream'[q]
             /\ stream'[q][Len(stream[q]) + 1] = e
  <2>1. /\ \A r \in Runs, i \in Nat : NewAt(r, i) => r = q /\ stream'[r][i] = e
        /\ Len(stream'[q]) = Len(stream[q]) + 1
    BY <1>1, <1>2, <1>4, SaysOneEffect DEF TypeInv, TypeOK
  <2>2. stream[q] \in Seq(Entries) /\ stream'[q] \in Seq(Entries)
    BY <1>1 DEF TypeInv, TypeOK, FeedTypeOK
  <2>3. NewAt(q, Len(stream[q]) + 1) /\ Len(stream[q]) + 1 \in Nat
    BY <2>1, <2>2 DEF NewAt
  <2>4. \A u \in Turns : NoLine(u) /\ (u # q => NoEnd(u))
    BY <2>1 DEF NoLine, NoEnd, Runs, Entry
  <2> QED
    BY <1>1, <2>1, <2>3, <2>4, StillSeen DEF NewAt
<1>5. ASSUME NoFault, Says(q, <<e>>), q \in Turns, ~Released(q)
      PROVE  Moves(q)
  <2>1. relay.of = q /\ q \in apart \ excused /\ Open(q)
    <3>1. InRelay(q)
      BY <1>1, <1>5, HeldOwn
    <3>2. InBox(q)
      BY <3>1 DEF InBox, Taken
    <3> QED
      BY <1>5, <3>1, <3>2, OpenTurn, BoxNamed DEF InRelay
  <2>2. ~Open(q)'
    BY <1>4, <1>5 DEF Open, DoneAt, RelayDone, Entry
  <2>3. Heard(q)' = Heard(q)
    <3>1. LinesAll(q)' = LinesAll(q)
      BY <1>1, <1>4, <1>5, LinesStay DEF NoLine
    <3> QED
      BY <3>1 DEF Heard, LinesAll, LinesIn
  <2>4. Heard(q) \in Nat /\ said[q] = Heard(q)
    <3>1. CountAt(q)
      BY <2>1 DEF TurnInv, CountInv
    <3>2. LinesRelayed(q) = 0
      BY <1>1 DEF LinesRelayed
    <3>3. LinesOut(q) = {}
      <4>1. ~InOut(q)
        BY <1>1, <2>1 DEF TurnInv, ResultIsLast
      <4> QED
        BY <4>1 DEF LinesOut, InOut, Line
    <3> QED
      BY <1>1, <1>5, <3>1, <3>2, <3>3, LinesFinite, HeardIsLines, FS_EmptySet DEF CountAt
  <2>5. Unheard(q) = 0 /\ Unheard(q)' = 0
    BY <1>1, <2>3, <2>4 DEF Unheard
  <2>6. Tries(q)' = 0
    BY <1>1, <1>5, TurnFeedAssumption DEF Tries, TypeInv, OneRelay, Idle
  <2>7. Ends(q)
    BY <2>1, <2>2, <2>3, <2>5, <2>6 DEF Ends
  <2> QED
    BY <1>1, <1>5, <2>7 DEF Moves, NoFault, feedVars
<1>6. CASE NoFault /\ Says(q, <<e>>)
  <2>1. CASE q \notin Turns
    BY <1>4, <1>6, <2>1 DEF OneMoves
  <2>2. CASE q \in Turns /\ Released(q)
    BY <1>1, <1>4, <1>6, <2>2, ReleasedStays DEF OneMoves, Still
  <2>3. CASE q \in Turns /\ ~Released(q)
    BY <1>4, <1>5, <1>6, <2>3 DEF OneMoves
  <2> QED
    BY <2>1, <2>2, <2>3
<1>7. CASE Fault({relay.of}) /\ Says(q, <<e>>)
  <2>1. ASSUME q \in Turns  PROVE Released(q)'
    <3>1. CASE Released(q)
      BY <1>1, <2>1, <3>1, ReleasedStays
    <3>2. CASE ~Released(q)
      <4>1. relay.of = q
        BY <1>1, <2>1, <3>2, HeldOwn DEF InRelay
      <4> QED
        BY <1>7, <4>1 DEF Fault, Released
    <3> QED
      BY <3>1, <3>2
  <2> QED
    BY <1>4, <1>7, <2>1 DEF OneMoves, Still
<1> QED
  BY <1>1, <1>3, <1>6, <1>7 DEF RelayFinalises, OneMoves

\* Codex's relay says nothing and goes on with the lines it holds.
LEMMA CodexStill ==
  ASSUME TurnInv, TypeInv', cli = "codex", UNCHANGED <<claudeVars, cli>>, Next,
         CodexTakes \/ CodexSkips \/ CodexSpawns \/ CodexExits \/ CodexBoxStops,
         NEW u \in Turns
  PROVE  Still(u)
<1> USE DEF TurnInv
<1>1. UNCHANGED <<stream, said>>
  BY DEF CodexTakes, CodexSkips, CodexSpawns, CodexExits, CodexBoxStops, Stops, turnFeedVars,
         claudeVars
<1>2. ASSUME UNCHANGED <<stream, said>>, UNCHANGED job
      PROVE  Still(u)
  BY <1>2, SilentStill
<1>3. CASE CodexSpawns
  <2>1. job'.of = job.of /\ job'.held = job.held /\ job'.attempt = job.attempt
    BY <1>3 DEF CodexSpawns, TypeInv, TypeOK, CodexTypeOK, Jobs
  <2> QED
    BY <1>1, <2>1, SilentStill
<1>4. CASE CodexTakes
  <2>1. job = Idle /\ job.of \notin Turns
    BY <1>4, TurnFeedAssumption DEF CodexTakes, At, TypeInv, JobShape, Idle
  <2>2. job'.held = 0 /\ job'.attempt = 0
    BY <1>4 DEF CodexTakes, Idle
  <2>3. Buffered(u)' = Buffered(u) /\ Tries(u)' = Tries(u)
    BY <2>1, <2>2 DEF Buffered, Tries
  <2>4. NoLine(u) /\ NoEnd(u)
    BY <1>1 DEF NoLine, NoEnd, NewAt
  <2> QED
    BY <1>1, <2>3, <2>4, StepSays, SameSeen DEF Still
<1> QED
  BY <1>1, <1>2, <1>3, <1>4 DEF CodexSkips, CodexExits, CodexBoxStops, codexVars

\* The next attempt, of which nothing was heard.
LEMMA CodexAttempts ==
  ASSUME TurnInv, TypeInv', cli = "codex", UNCHANGED <<claudeVars, cli>>, Next,
         CodexReadsRun \/ (\E rc \in 0..1 : CodexRetries(rc))
  PROVE  OneMoves
<1>0. PICK t \in Turns : t = job.of
  BY DEF CodexReadsRun, CodexRetries, At, TurnInv, TypeInv, JobShape
<1>1. /\ job.of = t /\ job'.of = t /\ job'.held = 0 /\ job'.attempt = job.attempt + 1
      /\ ~job.live /\ job.step # "end" /\ job.attempt < MaxAttempts /\ UNCHANGED turnFeedVars
  <2>1. CASE CodexReadsRun
    <3>1. job \in Jobs /\ job.attempt = 0 /\ job.held = 0 /\ ~job.live /\ job.step = "taken"
      BY <2>1 DEF CodexReadsRun, At, TurnInv, TypeInv, TypeOK, CodexTypeOK, JobShape, JobInv
    <3>2. job'.of = job.of /\ job'.held = job.held /\ job'.attempt = 1
      BY <2>1, <3>1 DEF CodexReadsRun, Jobs
    <3> QED
      BY <1>0, <2>1, <3>1, <3>2 DEF CodexReadsRun, MaxAttempts
  <2>2. ASSUME NEW rc \in 0..1, CodexRetries(rc)
        PROVE  /\ job'.of = t /\ job'.held = 0 /\ job'.attempt = job.attempt + 1
               /\ ~job.live /\ job.step # "end" /\ job.attempt < MaxAttempts
               /\ UNCHANGED turnFeedVars
    BY <1>0, <2>2 DEF CodexRetries, At, Attempt, Idle, TryAgain, Limited, Contended
  <2> QED
    BY <1>0, <2>1, <2>2
<1>2. UNCHANGED <<stream, said, disp, abort, apart, excused>>
  BY <1>1 DEF turnFeedVars, feedVars, claudeVars
<1>3. \A u \in Turns \ {t} : Still(u)
  BY <1>1, <1>2, SilentStill DEF TurnInv
<1>4. ASSUME ~Released(t)  PROVE Moves(t)
  <2>1. Open(t)
    BY <1>1, <1>4, OpenTurn, BoxNamed DEF InBox, Taken
  <2>2. Open(t)' /\ Heard(t)' = Heard(t)
    BY <1>2, <2>1 DEF Open, DoneAt, Heard
  <2>3. Heard(t) = 0
    BY <1>1, HeardNone
  <2>4. Tries(t)' = Tries(t) + 1 /\ Tries(t) < MaxAttempts /\ Unheard(t)' = 0
    BY <1>1 DEF Tries, Unheard, Buffered
  <2> QED
    BY <1>2, <1>4, <2>1, <2>2, <2>3, <2>4 DEF Moves, Attempts
<1> QED
  BY <1>2, <1>3, <1>4, ReleasedStays DEF OneMoves, Still, TurnInv

\* A turn of codex is killed with its attempt.
LEMMA CodexKilled ==
  ASSUME TurnInv, TypeInv', cli = "codex", UNCHANGED <<claudeVars, cli>>, Next, TtlKillsCodex,
         NEW u \in Turns
  PROVE  Still(u)
<1>1. job'.of = Nobody /\ UNCHANGED <<stream, said>> /\ u # Nobody
  BY TurnFeedAssumption DEF TtlKillsCodex, Idle, claudeVars
<1>2. CASE job.of # u
  BY <1>1, <1>2, SilentStill DEF TurnInv
<1>3. CASE job.of = u
  BY <1>1, <1>3 DEF TtlKillsCodex, Fault, Still, Released
<1> QED
  BY <1>2, <1>3

\* The lines held back are counted.
LEMMA HeldCount ==
  ASSUME TypeInv  PROVE job.held \in Nat
<1>1. job.held \in 0..MaxOutput
  BY DEF TypeInv, TypeOK, CodexTypeOK, Jobs
<1> QED
  BY <1>1, CodexRelayAssumption

\* Lines of the attempt at hand go into the stream of its run.
LEMMA CodexLines ==
  ASSUME TurnInv, TypeInv', cli = "codex", UNCHANGED <<claudeVars, cli>>, Next, SaysWell,
         NEW t \in Turns, job.of = t, job'.of = t, NEW n \in Nat, Publishes(Output(n))
  PROVE  /\ \A u \in Turns \ {t} : Still(u)
         /\ ~Released(t)' /\ ~Released(t) /\ job.step \in {"spawn", "run"} =>
              Open(t) /\ Open(t)' /\ Heard(t)' = Heard(t) + n
         /\ t \notin excused' => NoFault
<1>1. /\ \A r \in Runs, i \in Nat : NewAt(r, i) => stream'[r][i] = Entry("relay", "line", t, job.attempt)
      /\ job.of \in Turns
  BY PublishesEffect DEF TurnInv
<1>2. \A u \in Turns : NoEnd(u) /\ (u # t => NoLine(u))
  BY <1>1 DEF NoEnd, NoLine, Runs, RelayDone, Entry
<1>3. \A u \in Turns \ {t} : Still(u)
  BY <1>2, StillSeen DEF TurnInv, claudeVars
<1>4. t \notin excused' => NoFault /\ Says(job.run, Output(n))
  BY DEF Publishes, Fault
<1>5. ASSUME ~Released(t)', ~Released(t), job.step \in {"spawn", "run"}
      PROVE  Open(t) /\ Open(t)' /\ Heard(t)' = Heard(t) + n
  <2>1. Open(t) /\ job.run = t
    BY <1>5, OpenTurn, BoxNamed, HeldOwn DEF InBox, Taken
  <2>2. Open(t)'
    BY <1>2, <2>1, EndsStay DEF Open, TurnInv
  <2>3. Says(t, Output(n))
    BY <1>4, <1>5, <2>1 DEF Released
  <2>4. Heard(t)' = Heard(t) + n
    BY <2>3, OutputIs, HeardGrows DEF TurnInv, Entry
  <2> QED
    BY <2>1, <2>2, <2>4
<1> QED
  BY <1>3, <1>4, <1>5

\* Codex writes a line, which is held back or goes into the stream with those
\* that were.
LEMMA CodexWrites ==
  ASSUME TurnInv, TypeInv', cli = "codex", UNCHANGED <<claudeVars, cli>>, Next,
         SpawnFails \/ (\E kind \in LineKinds : CodexSays(kind))
  PROVE  OneMoves
<1>0. PICK t \in Turns : t = job.of
  BY DEF SpawnFails, CodexSays, At, TurnInv, TypeInv, JobShape
<1>1. /\ UNCHANGED <<feedVars, apart, said>> /\ SaysWell /\ TypeInv
      /\ job \in Jobs /\ job.of = t /\ job.held \in Nat
  <2>1. job.held \in Nat
    BY HeldCount DEF TurnInv
  <2>2. SaysWell
    BY StepSays DEF TurnInv
  <2> QED
    BY <1>0, <2>1, <2>2
       DEF SpawnFails, CodexSays, TurnInv, TypeInv, TypeOK, CodexTypeOK, claudeVars
<1>2. Unheard(t) = job.held
  BY <1>1 DEF Unheard, Buffered
<1>3. ASSUME NEW n \in Nat, n = job.held + 1, Publishes(Output(n)), job.step \in {"spawn", "run"},
             job'.of = t, job'.held = 0, job'.attempt = job.attempt
      PROVE  OneMoves
  <2>1. \A u \in Turns \ {t} : Still(u)
    BY <1>1, <1>3, CodexLines
  <2>2. CASE Released(t)'
    BY <2>1, <2>2 DEF OneMoves, Still
  <2>3. CASE ~Released(t)'
    <3>1. ~Released(t)
      BY <1>1, <2>3, ReleasedStays
    <3>2. Open(t) /\ Open(t)' /\ Heard(t)' = Heard(t) + n /\ NoFault
      BY <1>1, <1>3, <2>3, <3>1, CodexLines DEF Released
    <3>3. Tries(t)' = Tries(t) /\ Unheard(t)' = 0
      BY <1>1, <1>3 DEF Tries, Unheard, Buffered
    <3>4. n \in 0..(Unheard(t) + 1) /\ Unheard(t)' = Unheard(t) + 1 - n
      BY <1>1, <1>2, <1>3, <3>3
    <3>5. Writes(t)
      BY <3>2, <3>3, <3>4 DEF Writes
    <3> QED
      BY <1>1, <2>1, <3>1, <3>2, <3>5 DEF OneMoves, Moves, NoFault, feedVars
  <2> QED
    BY <2>2, <2>3
<1>4. CASE SpawnFails
  <2>1. job.held = 0 /\ job.step = "spawn"
    BY <1>4 DEF SpawnFails, At, TurnInv, TypeInv, JobShape
  <2>2. job'.of = t /\ job'.held = 0 /\ job'.attempt = job.attempt
    BY <1>1, <1>4, <2>1 DEF SpawnFails, Jobs
  <2>3. UNCHANGED excused /\ Says(job.run, Output(1))
    BY <1>4 DEF SpawnFails, Fault
  <2>4. \A r \in Runs, i \in Nat : NewAt(r, i) => stream'[r][i] = Entry("relay", "line", t, job.attempt)
    <3>1. Output(1) \in Seq(Entries) /\ Len(Output(1)) = 1 /\ job.run \in Runs
          /\ \A i \in 1..1 : Output(1)[i] = Entry("relay", "line", t, job.attempt)
      <4>1. job.of \in Turns /\ 1 \in Nat
        BY <1>1
      <4> QED
        BY <1>1, <4>1, OutputIs DEF Jobs
    <3>2. \A r \in Runs, i \in Nat : NewAt(r, i) =>
            i - Len(stream[job.run]) \in 1..1 /\ stream'[r][i] = Output(1)[i - Len(stream[job.run])]
      BY <1>1, <2>3, <3>1, SaysEffect DEF TypeInv, TypeOK
    <3> QED
      BY <3>1, <3>2
  <2>5. \A u \in Turns : NoEnd(u) /\ (u # t => NoLine(u))
    BY <2>4 DEF NoEnd, NoLine, Runs, RelayDone, Entry
  <2>6. \A u \in Turns \ {t} : Still(u)
    BY <1>1, <2>2, <2>5, StillSeen
  <2>7. ASSUME ~Released(t)  PROVE Moves(t)
    <3>1. Open(t) /\ job.run = t
      BY <1>1, <2>1, <2>7, OpenTurn, BoxNamed, HeldOwn DEF InBox, Taken
    <3>2. Open(t)'
      BY <1>1, <2>5, <3>1, EndsStay DEF Open
    <3>3. Heard(t)' = Heard(t) + 1
      BY <1>1, <2>3, <3>1, OutputIs, HeardGrows DEF Entry
    <3>4. Tries(t)' = Tries(t) /\ Unheard(t) = 0 /\ Unheard(t)' = 0
      BY <1>1, <1>2, <2>1, <2>2 DEF Tries, Unheard, Buffered
    <3>5. Writes(t)
      <4>1. 1 \in 0..(Unheard(t) + 1) /\ Unheard(t)' = Unheard(t) + 1 - 1
        BY <3>4
      <4> QED
        BY <3>1, <3>2, <3>3, <3>4, <4>1 DEF Writes
    <3> QED
      BY <1>1, <2>3, <2>7, <3>5 DEF Moves, feedVars
  <2> QED
    BY <1>1, <2>6, <2>7, ReleasedStays DEF OneMoves, Still
<1>5. ASSUME NEW kind \in LineKinds, CodexSays(kind)  PROVE OneMoves
  <2>1. CASE job.live \/ kind = "content"
    <3>1. job'.of = t /\ job'.held = 0 /\ job'.attempt = job.attempt /\ job.step = "run"
          /\ Publishes(Output(job.held + 1))
      BY <1>1, <1>5, <2>1 DEF CodexSays, At, Jobs
    <3> QED
      BY <1>1, <1>3, <3>1
  <2>2. CASE ~(job.live \/ kind = "content")
    <3>1. job'.of = t /\ job'.held = job.held + 1 /\ job'.attempt = job.attempt /\ job.step = "run"
          /\ NoFault /\ UNCHANGED stream
      BY <1>1, <1>5, <2>2 DEF CodexSays, At, Jobs
    <3>2. \A u \in Turns \ {t} : Still(u)
      BY <1>1, <3>1, SilentStill
    <3>3. ASSUME ~Released(t)  PROVE Moves(t)
      <4>1. Open(t)
        BY <1>1, <3>3, OpenTurn, BoxNamed DEF InBox, Taken
      <4>2. Open(t)' /\ Heard(t)' = Heard(t) /\ Heard(t) \in Nat
        BY <1>1, <3>1, <4>1, HeardIsLines DEF Open, DoneAt, Heard
      <4>3. Tries(t)' = Tries(t) /\ Unheard(t)' = job.held + 1
        BY <1>1, <3>1 DEF Tries, Unheard, Buffered
      <4>4. 0 \in 0..(Unheard(t) + 1) /\ Unheard(t)' = Unheard(t) + 1 - 0 /\ Heard(t)' = Heard(t) + 0
        BY <1>1, <1>2, <4>2, <4>3
      <4>5. Writes(t)
        BY <4>1, <4>2, <4>3, <4>4 DEF Writes
      <4> QED
        BY <1>1, <3>1, <3>3, <4>5 DEF Moves, NoFault, feedVars
    <3> QED
      BY <1>1, <3>2, <3>3, ReleasedStays DEF OneMoves, Still
  <2> QED
    BY <2>1, <2>2
<1> QED
  BY <1>4, <1>5

\* The attempt is over: the lines held back go into the stream.
LEMMA CodexFlushes ==
  ASSUME TurnInv, TypeInv', cli = "codex", UNCHANGED <<claudeVars, cli>>, Next,
         NEW rc \in 0..1, CodexEnds(rc)
  PROVE  OneMoves
<1>0. PICK t \in Turns : t = job.of
  BY DEF CodexEnds, At, TurnInv, TypeInv, JobShape
<1>1. /\ UNCHANGED <<feedVars, apart>> /\ SaysWell /\ TypeInv
      /\ job.of = t /\ job'.of = t /\ job'.held = 0 /\ job'.attempt = job.attempt
      /\ job.step = "run" /\ Publishes(Output(job.held))
  BY <1>0, StepSays DEF CodexEnds, At, Attempt, Idle, TurnInv
<1>2. PICK n \in Nat : n = job.held
  BY HeldCount DEF TurnInv
<1>3. Publishes(Output(n))
  BY <1>1, <1>2
<1>4. \A u \in Turns \ {t} : Still(u)
  BY <1>1, <1>3, CodexLines
<1>5. CASE Released(t)'
  BY <1>4, <1>5 DEF OneMoves, Still
<1>6. CASE ~Released(t)'
  <2>1. ~Released(t)
    BY <1>1, <1>6, ReleasedStays
  <2>2. Open(t) /\ Open(t)' /\ Heard(t)' = Heard(t) + n /\ NoFault /\ Heard(t) \in Nat
    BY <1>1, <1>3, <1>6, <2>1, CodexLines, HeardIsLines DEF Released
  <2>3. Tries(t)' = Tries(t) /\ Unheard(t) = n /\ Unheard(t)' = 0
    BY <1>1, <1>2 DEF Tries, Unheard, Buffered
  <2>4. CASE n = 0
    <3>1. Same(t)
      BY <2>2, <2>3, <2>4 DEF Same, Open
    <3> QED
      BY <1>4, <3>1 DEF OneMoves, Still
  <2>5. CASE n # 0
    <3>1. n \in 1..Unheard(t) /\ Unheard(t)' = Unheard(t) - n
      BY <2>3, <2>5
    <3>2. Delivers(t)
      BY <2>2, <2>3, <3>1 DEF Delivers
    <3> QED
      BY <1>1, <1>4, <2>1, <2>2, <3>2 DEF OneMoves, Moves, NoFault, feedVars
  <2> QED
    BY <2>4, <2>5
<1> QED
  BY <1>5, <1>6

\* Codex's relay ends the run of the turn it lets go.
LEMMA CodexOver ==
  ASSUME TurnInv, TypeInv', cli = "codex", UNCHANGED <<claudeVars, cli>>, Next, CodexFinishes
  PROVE  OneMoves
<1> DEFINE e == Entry("relay", "done", job.of, job.attempt)
<1>0. PICK t \in Turns : t = job.of
  BY DEF CodexFinishes, At, TurnInv, TypeInv, JobShape
<1>1. /\ UNCHANGED <<feedVars, apart, said>> /\ SaysWell /\ TypeInv
      /\ job.of = t /\ job'.of = Nobody /\ t # Nobody /\ job.step = "end" /\ job.held = 0
  BY <1>0, StepSays, TurnFeedAssumption DEF CodexFinishes, At, Idle, TurnInv, JobInv, claudeVars
<1>2. job.run \in Runs /\ e \in Entries /\ e.of = t /\ e.kind = "done" /\ e.by = "relay"
  BY <1>1 DEF TypeInv, TypeOK, CodexTypeOK, Jobs, MaxAttempts, Entry, Entries
<1>3. ASSUME NEW u \in Turns, u # t, NoLine(u), NoEnd(u)  PROVE Still(u)
  BY <1>1, <1>3, StillSeen, TurnFeedAssumption
<1>4. CASE Fault({job.of}) /\ UNCHANGED stream
  <2>1. Released(t)'
    BY <1>1, <1>4 DEF Fault, Released
  <2>2. \A u \in Turns : NoLine(u) /\ NoEnd(u)
    BY <1>4 DEF NoLine, NoEnd, NewAt
  <2> QED
    BY <1>3, <2>1, <2>2 DEF OneMoves, Still
<1>5. CASE NoFault /\ Says(job.run, <<e>>)
  <2>1. /\ \A r \in Runs, i \in Nat : NewAt(r, i) => r = job.run /\ stream'[r][i] = e
        /\ Len(stream'[job.run]) = Len(stream[job.run]) + 1
    BY <1>1, <1>2, <1>5, SaysOneEffect DEF TypeInv, TypeOK
  <2>2. \A u \in Turns : NoLine(u) /\ (u # job.run => NoEnd(u))
    BY <1>2, <2>1 DEF NoLine, NoEnd, Runs
  <2>3. \A u \in Turns \ {t} : Still(u)
    <3>1. ASSUME NEW u \in Turns, u # t, u = job.run  PROVE Still(u)
      BY <1>1, <3>1, HeldOwn, ReleasedStays DEF Still
    <3> QED
      BY <1>3, <2>2, <3>1
  <2>4. ASSUME ~Released(t)  PROVE Moves(t)
    <3>1. Open(t) /\ job.run = t
      BY <1>1, <2>4, OpenTurn, BoxNamed, HeldOwn DEF InBox, Taken
    <3>2. ~Open(t)'
      <4>1. stream[t] \in Seq(Entries) /\ stream'[t] \in Seq(Entries) /\ t \in Runs
        BY <1>1 DEF TypeInv, TypeOK, FeedTypeOK, Runs
      <4>2. NewAt(t, Len(stream[t]) + 1) /\ Len(stream[t]) + 1 \in Nat
        BY <2>1, <3>1, <4>1 DEF NewAt
      <4> QED
        BY <1>2, <2>1, <4>1, <4>2 DEF Open, DoneAt, RelayDone, NewAt
    <3>3. Heard(t)' = Heard(t)
      <4>1. LinesAll(t)' = LinesAll(t)
        BY <1>1, <2>2, LinesStay DEF NoLine
      <4> QED
        BY <4>1 DEF Heard, LinesAll, LinesIn
    <3>4. Unheard(t) = 0 /\ Unheard(t)' = 0 /\ Tries(t)' = 0
      BY <1>1 DEF Unheard, Buffered, Tries
    <3> QED
      BY <1>1, <1>5, <2>4, <3>1, <3>2, <3>3, <3>4 DEF Moves, Ends, NoFault, feedVars
  <2> QED
    BY <1>1, <2>3, <2>4, ReleasedStays DEF OneMoves, Still
<1> QED
  BY <1>4, <1>5 DEF CodexFinishes

\* In a step one turn moves at most, and the others stay or are released.
LEMMA OneMovesStep ==
  ASSUME TurnInv, TypeInv', Next
  PROVE  OneMoves
<1>1. CASE FeedNext /\ UNCHANGED <<claudeVars, codexVars, cli>>
  BY <1>1, FeedStill DEF TurnInv, OneMoves
<1>2. CASE cli = "claude" /\ ClaudeNext /\ UNCHANGED <<codexVars, cli>>
  BY <1>2, ClaudeStill, ClaudeWrites, ClaudeDelivers, ClaudeFinishes
     DEF ClaudeNext, ClaudeWork, OneMoves
<1>3. CASE cli = "codex" /\ CodexNext /\ UNCHANGED <<claudeVars, cli>>
  BY <1>3, CodexStill, CodexAttempts, CodexKilled, CodexWrites, CodexFlushes, CodexOver
     DEF CodexNext, CodexWork, OneMoves
<1> QED
  BY <1>1, <1>2, <1>3 DEF Next

\* A step of a turn that moves is one of the contract's.
LEMMA MovesIsContract ==
  ASSUME TypeInv, NEW t \in Turns, Moves(t), \A u \in Turns \ {t} : Still(u)
  PROVE  Contract!Write(t) \/ Contract!Deliver(t) \/ Contract!Attempt(t) \/ Contract!End(t)
<1>1. \A u \in Turns : Released(u)' <=> Released(u)
  BY DEF Moves, Released
<1>2. \A u \in Turns \ {t} : /\ Phase(u)' = Phase(u)
                             /\ Kept(u, Unheard(u))' = Kept(u, Unheard(u))
                             /\ Kept(u, Heard(u))' = Kept(u, Heard(u))
                             /\ Kept(u, Tries(u))' = Kept(u, Tries(u))
  BY <1>1 DEF Still, Same, Phase, Kept
<1>3. ~Released(t) /\ ~Released(t)'
  BY <1>1 DEF Moves
<1>4. /\ Kept(t, Unheard(t)) = Unheard(t) /\ Kept(t, Unheard(t))' = Unheard(t)'
      /\ Kept(t, Heard(t)) = Heard(t) /\ Kept(t, Heard(t))' = Heard(t)'
      /\ Kept(t, Tries(t)) = Tries(t) /\ Kept(t, Tries(t))' = Tries(t)'
  BY <1>3 DEF Kept
<1>5. /\ Phase(t) = IF Open(t) THEN "open" ELSE "ended"
      /\ Phase(t)' = IF Open(t)' THEN "open" ELSE "ended"
  BY <1>3 DEF Phase, Open
<1>6. CASE Writes(t)
  BY <1>2, <1>4, <1>5, <1>6 DEF Writes, Contract!Write
<1>7. CASE Delivers(t)
  BY <1>2, <1>4, <1>5, <1>7 DEF Delivers, Contract!Deliver
<1>8. CASE Attempts(t)
  BY <1>2, <1>4, <1>5, <1>8 DEF Attempts, Contract!Attempt
<1>9. CASE Ends(t)
  BY <1>2, <1>4, <1>5, <1>9 DEF Ends, Contract!End
<1> QED
  BY <1>6, <1>7, <1>8, <1>9 DEF Moves

\* When no turn moves, those that are released now are released by the contract.
LEMMA StillIsContract ==
  ASSUME TypeInv, Next, \A t \in Turns : Still(t)
  PROVE  \E S \in SUBSET Turns : Contract!Release(S)
<1> DEFINE S == {t \in Turns : Released(t)'}
<1>1. \A t \in Turns \ S : ~Released(t) /\ ~Released(t)' /\ Same(t)
  BY ReleasedStays DEF Still
<1>2. \A t \in Turns \ S : /\ Phase(t)' = Phase(t)
                           /\ Kept(t, Unheard(t))' = Kept(t, Unheard(t))
                           /\ Kept(t, Heard(t))' = Kept(t, Heard(t))
                           /\ Kept(t, Tries(t))' = Kept(t, Tries(t))
  BY <1>1 DEF Same, Phase, Kept
<1>3. \A t \in S : /\ Phase(t)' = "released" /\ Kept(t, Unheard(t))' = 0
                   /\ Kept(t, Heard(t))' = 0 /\ Kept(t, Tries(t))' = 0
  BY DEF Phase, Kept
<1>4. Contract!Release(S)
  <2> HIDE DEF S
  <2> QED
    BY <1>2, <1>3 DEF Contract!Release
<1> QED
  BY <1>4

\* A step of the session is a step of the contract, or none.
LEMMA TurnStep ==
  ASSUME TurnInv, TypeInv', [Next]_vars
  PROVE  [Contract!Next]_(Contract!vars)
<1>1. CASE UNCHANGED vars
  <2>1. \A t \in Turns : /\ Phase(t)' = Phase(t)
                         /\ Kept(t, Unheard(t))' = Kept(t, Unheard(t))
                         /\ Kept(t, Heard(t))' = Kept(t, Heard(t))
                         /\ Kept(t, Tries(t))' = Kept(t, Tries(t))
    BY <1>1 DEF vars, turnFeedVars, feedVars, claudeVars, codexVars, Phase, Kept, Released, Unheard,
       Heard, Tries, Buffered, DoneAt
  <2> QED
    BY <2>1 DEF Contract!vars
<1>2. CASE Next
  <2>1. CASE \A t \in Turns : Still(t)
    BY <1>2, <2>1, StillIsContract DEF Contract!Next, TurnInv
  <2>2. ASSUME NEW t \in Turns, Moves(t), \A u \in Turns \ {t} : Still(u)
        PROVE  Contract!Next
    BY <2>2, MovesIsContract DEF Contract!Next, TurnInv
  <2> QED
    BY <1>2, <2>1, <2>2, OneMovesStep DEF OneMoves
<1> QED
  BY <1>1, <1>2

\* At first no turn was sent and nothing is heard.
LEMMA TurnInit ==
  ASSUME Init  PROVE Contract!Init /\ AttemptInv /\ EndInv /\ ResultIsLast /\ CountInv /\ JobInv
<1> USE DEF Init, FeedInit, ClaudeInit, CodexInit
<1>1. \A t \in Turns : /\ ~Released(t) /\ DoneAt(t) = {} /\ stream[t] = <<>>
                       /\ Heard(t) = 0 /\ Unheard(t) = 0 /\ Tries(t) = 0
  <2> SUFFICES ASSUME NEW t \in Turns
               PROVE  /\ ~Released(t) /\ DoneAt(t) = {} /\ stream[t] = <<>>
                      /\ Heard(t) = 0 /\ Unheard(t) = 0 /\ Tries(t) = 0
    OBVIOUS
  <2>1. stream[t] = <<>> /\ ~Released(t) /\ job.of = Nobody /\ t # Nobody
    BY TurnFeedAssumption DEF Runs, Released, Idle
  <2>2. DoneAt(t) = {} /\ Tries(t) = 0 /\ Buffered(t) = 0
    BY <2>1 DEF DoneAt, Tries, Buffered
  <2>3. Heard(t) = 0
    <3>1. {j \in 1..Len(stream[t]) : stream[t][j].of = t /\ stream[t][j].kind = "line"} = {}
      BY <2>1
    <3> QED
      BY <3>1, FS_EmptySet DEF Heard
  <2>4. Unheard(t) = 0
    BY <2>2, <2>3 DEF Unheard
  <2> QED
    BY <2>1, <2>2, <2>3, <2>4
<1>2. Contract!Init
  BY <1>1 DEF Contract!Init, Phase, Kept
<1>3. \A r \in Runs : stream[r] = <<>>
  OBVIOUS
<1>4. AttemptInv
  BY <1>3 DEF AttemptInv
<1>5. EndInv /\ JobInv /\ CountInv
  BY <1>1 DEF EndInv, JobInv, RelayIdle, Idle, CountInv
<1>6. ResultIsLast
  BY <1>3 DEF ResultIsLast, RelayIdle, Ended
<1> QED
  BY <1>2, <1>4, <1>5, <1>6

\* The session keeps to what the caller of a turn may rely on: until a turn
\* is released, every step of dispatch, abort, claude and codex is a write, a
\* delivery, a fresh attempt or the end of one turn, or nothing its caller
\* can tell.
THEOREM Implements == Spec => ImplementsContract
<1> DEFINE Inv == TurnInv
<1>1. Init => Inv /\ Contract!Init
  BY InitType, InitWay, TurnInit DEF TurnInv
<1>2. Inv /\ [Next]_vars => Inv'
  <2> SUFFICES ASSUME Inv, [Next]_vars  PROVE Inv'
    OBVIOUS
  <2>1. TypeInv'
    BY TypeStep DEF TurnInv
  <2>2. FedOnce' /\ Attributed' /\ EndInv' /\ AttemptInv'
    BY <2>1, FedOnceStep, AttributedStep, EndStep, AttemptStep DEF TurnInv
  <2>3. Apart' /\ JobInv'
    BY <2>1, ApartStep, JobStep DEF TurnInv
  <2>4. ResultIsLast' /\ CountInv'
    BY <2>1, ResultStep, CountStep DEF TurnInv
  <2> QED
    BY <2>1, <2>2, <2>3, <2>4 DEF TurnInv
<1>3. Inv /\ Inv' /\ [Next]_vars => [Contract!Next]_(Contract!vars)
  BY TurnStep DEF TurnInv
<1> QED
  BY <1>1, <1>2, <1>3, PTL DEF Spec, ImplementsContract, Contract!Spec
===============================================================================
