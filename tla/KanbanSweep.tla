----------------------------- MODULE KanbanSweep -----------------------------
(***************************************************************************)
(* Firing one run per Ready card of a shared Kanban board.  Several        *)
(* dispatchers sweep the board: this app's watchdog, its run_ready_cards   *)
(* tool, and the monolith's webhook, which follows the same claim protocol *)
(* but keeps its runs in a database of its own.  The card is all they      *)
(* share, and every call on the board or on the platform may fail -- before*)
(* or after it took effect.                                                *)
(*                                                                         *)
(* Source: kanban_dispatch.py -- sweep_ready, claim_card, dispatch_payload,*)
(* BoardClient, PlatformClient; plugin.py's kanban-ready-sweep watchdog.   *)
(***************************************************************************)
EXTENDS Naturals, FiniteSets

CONSTANTS
    Cards,       \* pages of the board
    Sweeps,      \* dispatchers, each sweeping one pass at a time
    Foreign,     \* those of them that are the monolith's
    Ticking,     \* those of them a watchdog keeps starting
    MaxFaults,   \* bound: failed, stale or half-done calls, and dying sweeps
    MaxRequeues  \* bound: times humans put a card back into Ready

ASSUME KanbanAssumption ==
    /\ Foreign \subseteq Sweeps
    /\ Ticking \subseteq Sweeps \ Foreign
    /\ Cards # {}
    /\ {"blank", "run id"} \intersect Sweeps = {}
    /\ MaxFaults \in Nat /\ MaxRequeues \in Nat

VARIABLES
    named,       \* cards that name an agent or a workflow
    status,      \* status[c]: the card's column
    holder,      \* holder[c]: AgentRunId: a claim token, a run id, or blank
    runs,        \* runs[d][c]: latest run of c in the database of side d
    pc,          \* pc[s]: where the pass of s stands
    at,          \* at[s]: the card it is working on
    todo,        \* todo[s]: listed cards it has not come to yet
    faults, requeues,
    fired,       \* history: runs ever started for each card
    outdated,    \* history: sweeps that found the card Ready and have not claimed
                 \*   it yet, while another sweep's claim of it was won
    raced,       \* history: cards claimed by such a sweep
    unmoved      \* history: cards the board did not move, with an answer that
                 \*   was taken for success

boardVars == <<status, holder>>
passVars  == <<pc, at, todo>>
pastVars  == <<fired, outdated, raced, unmoved>>
vars == <<named, boardVars, runs, passVars, faults, requeues, pastVars>>

Sides == {"mt", "mono"}
Side(s) == IF s \in Foreign THEN "mono" ELSE "mt"

PCs == {"idle", "pick", "reread", "claim", "readback", "move", "dispatch", "stamp"}

TypeOK ==
    /\ named \in SUBSET Cards
    /\ status \in [Cards -> {"ready", "running", "elsewhere"}]
    /\ holder \in [Cards -> Sweeps \union {"blank", "run id"}]
    /\ runs \in [Sides -> [Cards -> {"none", "live", "over"}]]
    /\ pc \in [Sweeps -> PCs]
    /\ at \in [Sweeps -> Cards]
    /\ todo \in [Sweeps -> SUBSET Cards]
    /\ faults \in 0..MaxFaults
    /\ requeues \in 0..MaxRequeues
    /\ fired \in [Cards -> Nat]
    /\ outdated \in SUBSET Sweeps
    /\ raced \in SUBSET Cards /\ unmoved \in SUBSET Cards

Init ==
    /\ named \in SUBSET Cards
    /\ status = [c \in Cards |-> "ready"]
    /\ holder = [c \in Cards |-> "blank"]
    /\ runs = [d \in Sides |-> [c \in Cards |-> "none"]]
    /\ pc = [s \in Sweeps |-> "idle"]
    /\ at \in [Sweeps -> {CHOOSE c \in Cards : TRUE}]
    /\ todo = [s \in Sweeps |-> {}]
    /\ faults = 0
    /\ requeues = 0
    /\ fired = [c \in Cards |-> 0]
    /\ outdated = {}
    /\ raced = {} /\ unmoved = {}

-----------------------------------------------------------------------------
Go(s, from, to) == pc[s] = from /\ pc' = [pc EXCEPT ![s] = to] /\ UNCHANGED <<at, todo>>

Works(s, c) == pc[s] \notin {"idle", "pick"} /\ at[s] = c

\* A call that is not answered uses up one fault.
Fault == faults < MaxFaults /\ faults' = faults + 1

\* A write to the card's AgentRunId: last write wins.
Write(s, value) == holder' = [holder EXCEPT ![at[s]] = value]

\* The other sweeps at the given step with the same card.
Others(s, step) == {t \in Sweeps \ {s} : pc[t] = step /\ at[t] = at[s]}

\* Mutant of HoldsClaim: any claim on the card will do.
HoldsClaimAny(s) == holder[at[s]] # "blank"

\* Mutant of HoldsClaim: the comparison expects a run id.
HoldsClaimRunId(s) == holder[at[s]] = "run id"

\* claim_card, the comparison with the value read back.
HoldsClaim(s) == holder[at[s]] = s

\* sweep_ready, step 2: the card is where the listing saw it.
StillReady(s) == status[at[s]] = "ready"

-----------------------------------------------------------------------------
(***************************************************************************)
(* One pass of sweep_ready.                                                *)
(***************************************************************************)

\* board.ready_cards; a board that does not answer ends the pass at once.
BeginPass(s) ==
    /\ pc[s] = "idle"
    /\ \E c \in Cards : status[c] = "ready"
    /\ pc' = [pc EXCEPT ![s] = "pick"]
    /\ todo' = [todo EXCEPT ![s] = {c \in Cards : status[c] = "ready"}]
    /\ UNCHANGED <<named, boardVars, runs, at, faults, requeues, pastVars>>

\* Next card of the listing.  Step 1: latest_run, which only sees this side's
\* database, and an unanswered lookup counts as "no run".
NextCard(s) ==
    /\ pc[s] = "pick"
    /\ \E c \in todo[s] :
          /\ todo' = [todo EXCEPT ![s] = @ \ {c}]
          /\ \/ /\ runs[Side(s)][c] = "live"
                /\ UNCHANGED <<pc, at, faults>>
             \/ /\ at' = [at EXCEPT ![s] = c]
                /\ pc' = [pc EXCEPT ![s] = "reread"]
                /\ IF runs[Side(s)][c] = "live" THEN Fault ELSE UNCHANGED faults
    /\ UNCHANGED <<named, boardVars, runs, requeues, pastVars>>

EndPass(s) ==
    /\ pc[s] = "pick" /\ todo[s] = {}
    /\ pc' = [pc EXCEPT ![s] = "idle"]
    /\ UNCHANGED <<named, boardVars, runs, at, todo, faults, requeues, pastVars>>

\* Steps 2 and 3: the card is read again; it must still be Ready and name
\* something to run.
Reread(s) ==
    /\ \/ StillReady(s) /\ at[s] \in named /\ Go(s, "reread", "claim")
       \/ ~(StillReady(s) /\ at[s] \in named) /\ Go(s, "reread", "pick")
    /\ outdated' = IF Others(s, "move") = {} THEN outdated \ {s} ELSE outdated \union {s}
    /\ UNCHANGED <<named, boardVars, runs, faults, requeues, fired, raced, unmoved>>

\* Step 4, first half: a fresh token goes into AgentRunId.
ClaimWrite(s) ==
    /\ Go(s, "claim", "readback")
    /\ Write(s, s)
    /\ raced' = IF s \in outdated THEN raced \union {at[s]} ELSE raced
    /\ UNCHANGED <<named, status, runs, faults, requeues, fired, outdated, unmoved>>

\* Step 4, second half: the claim is read straight back.
ClaimRead(s) ==
    /\ \/ /\ HoldsClaim(s) /\ Go(s, "readback", "move")
          /\ outdated' = outdated \union Others(s, "claim")
       \/ /\ ~HoldsClaim(s) /\ Go(s, "readback", "pick")
          /\ UNCHANGED outdated
    /\ UNCHANGED <<named, boardVars, runs, faults, requeues, fired, raced, unmoved>>

\* Mutant of MoveCard: the move is left to the agent that will run.
MoveCardLater(s) ==
    /\ Go(s, "move", "dispatch")
    /\ UNCHANGED <<named, boardVars, runs, faults, requeues, pastVars>>

\* Step 5, first half: the card leaves Ready.  Unlike those of the board's
\* reads, the answer is not looked at: one that says ok: false passes for done.
MoveCard(s) ==
    /\ Go(s, "move", "dispatch")
    /\ \/ /\ status' = [status EXCEPT ![at[s]] = "running"]
          /\ UNCHANGED <<faults, unmoved>>
       \/ Fault /\ unmoved' = unmoved \union {at[s]} /\ UNCHANGED status
    /\ UNCHANGED <<named, holder, runs, requeues, fired, outdated, raced>>

\* Step 5, second half: the run starts.
Dispatch(s) ==
    /\ Go(s, "dispatch", "stamp")
    /\ fired' = [fired EXCEPT ![at[s]] = @ + 1]
    /\ runs' = [runs EXCEPT ![Side(s)][at[s]] = "live"]
    /\ UNCHANGED <<named, boardVars, faults, requeues, outdated, raced, unmoved>>

\* Mutant of Stamp: the platform's answer is stamped without looking for an id.
StampEmptyId(s) ==
    /\ Go(s, "stamp", "pick")
    /\ Write(s, "")
    /\ UNCHANGED <<named, status, runs, faults, requeues, pastVars>>

\* Step 6: its id replaces the token.
Stamp(s) ==
    /\ Go(s, "stamp", "pick")
    /\ Write(s, "run id")
    /\ UNCHANGED <<named, status, runs, faults, requeues, pastVars>>

\* A call of steps 2, 4, 5 or 6 fails without effect (or the
\* claim's read-back is stale): the row reports an error, the pass goes on.
CallFails(s) ==
    /\ Fault
    /\ \E step \in PCs \ {"idle", "pick"} : Go(s, step, "pick")
    /\ UNCHANGED <<named, boardVars, runs, requeues, pastVars>>

\* The same, but the call took effect: its answer was lost or came too late.
AnswerLost(s) ==
    /\ Fault
    /\ \/ /\ Go(s, "claim", "pick") /\ Write(s, s)
          /\ UNCHANGED <<status, runs, pastVars>>
       \/ /\ Go(s, "move", "pick") /\ status' = [status EXCEPT ![at[s]] = "running"]
          /\ UNCHANGED <<holder, runs, pastVars>>
       \/ /\ Go(s, "dispatch", "pick")
          /\ fired' = [fired EXCEPT ![at[s]] = @ + 1]
          /\ runs' = [runs EXCEPT ![Side(s)][at[s]] = "live"]
          /\ UNCHANGED <<boardVars, outdated, raced, unmoved>>
       \/ /\ Go(s, "stamp", "pick") /\ Write(s, "run id")
          /\ UNCHANGED <<status, runs, pastVars>>
    /\ UNCHANGED <<named, requeues>>

\* The process dies, or loses the leadership it sweeps under, in mid-pass.
SweepDies(s) ==
    /\ Fault /\ pc[s] # "idle"
    /\ pc' = [pc EXCEPT ![s] = "idle"]
    /\ todo' = [todo EXCEPT ![s] = {}]
    /\ UNCHANGED <<named, boardVars, runs, at, requeues, pastVars>>

-----------------------------------------------------------------------------
(***************************************************************************)
(* Everyone else: runs end, humans and agents move cards.                  *)
(***************************************************************************)
RunEnds(d, c) ==
    /\ runs[d][c] = "live"
    /\ runs' = [runs EXCEPT ![d][c] = "over"]
    /\ UNCHANGED <<named, boardVars, passVars, faults, requeues, pastVars>>

TakeAway(c) ==
    /\ status[c] # "elsewhere"
    /\ status' = [status EXCEPT ![c] = "elsewhere"]
    /\ UNCHANGED <<named, holder, runs, passVars, faults, requeues, pastVars>>

Requeue(c) ==
    /\ status[c] # "ready" /\ requeues < MaxRequeues
    /\ status' = [status EXCEPT ![c] = "ready"]
    /\ requeues' = requeues + 1
    /\ UNCHANGED <<named, holder, runs, passVars, faults, pastVars>>

-----------------------------------------------------------------------------
PassStep(s) ==
    \/ NextCard(s) \/ EndPass(s) \/ Reread(s) \/ ClaimWrite(s) \/ ClaimRead(s)
    \/ MoveCard(s) \/ Dispatch(s) \/ Stamp(s)

Next ==
    \/ \E s \in Sweeps :
          BeginPass(s) \/ PassStep(s) \/ CallFails(s) \/ AnswerLost(s) \/ SweepDies(s)
    \/ \E d \in Sides, c \in Cards : RunEnds(d, c)
    \/ \E c \in Cards : TakeAway(c) \/ Requeue(c)

Spec == Init /\ [][Next]_vars

\* The watchdog ticks for ever and a pass that began runs on; nothing is
\* assumed of the monolith, of humans or of runs.
Fairness ==
    /\ \A s \in Ticking : WF_vars(BeginPass(s))
    /\ \A s \in Sweeps \ Foreign : WF_vars(PassStep(s))

FairSpec == Spec /\ Fairness

-----------------------------------------------------------------------------
(***************************************************************************)
(* Safety.                                                                 *)
(***************************************************************************)

\* "What the claim exists to close": however many sweeps work on a card at the
\* same time, and whichever call fails, goes unanswered or is cut short, a card
\* that nobody put back into Ready fires once -- unless a sweep claimed it on a
\* reading that another sweep's claim, already won, was about to outdate, or the
\* board did not move it and the answer passed for success.
FiresOnceUnlessRaced ==
    \A c \in Cards \ (raced \union unmoved) : requeues = 0 => fired[c] <= 1

\* sweep_ready, step 5: "move to running, then dispatch" -- a run never flies
\* under a card still in Ready, where the next tick would fire it again, unless
\* the board answered a move it did not make with ok: false.
NoRunUnderReadyCard ==
    requeues = 0 => \A c \in Cards \ unmoved : fired[c] > 0 => status[c] # "ready"

(***************************************************************************)
(* Liveness.                                                               *)
(***************************************************************************)

\* "It fails closed ... which leaves the card in Ready, reclaimed by the next
\* tick": a Ready card that names a target does not stay there for ever,
\* unless one of its runs flies for ever or another dispatcher keeps coming
\* back to it (two that keep overwriting each other's claim both stand down,
\* again and again).
ReadyIsSwept ==
    \A c \in Cards :
        <>[](\A t \in Sweeps \ Ticking : ~Works(t, c)) =>
            ((c \in named /\ status[c] = "ready")
                 ~> (status[c] # "ready" \/ runs["mt"][c] = "live"))
=============================================================================
