----------------------------- MODULE Provisioner -----------------------------
(***************************************************************************)
(* What applications contribute to Agents Platform.  On activation a       *)
(* workspace hands over the declaration of an application: each declared   *)
(* object that does not exist is created, in the order of the references   *)
(* between them, the gateway credential of the others is re-asserted, and  *)
(* then the workspace reconciles the content of each.  Several workspaces  *)
(* and the users work on the objects of one tenant.                        *)
(*                                                                         *)
(* Source: agent_provisioner.py and the provider hooks of plugin.py.  The  *)
(* platform, and the decision of the workspace what may be updated, are    *)
(* modelled from their use here.                                           *)
(***************************************************************************)
EXTENDS Naturals, Sequences, SequencesExt

CONSTANTS
    Seeders,      \* activations, in any workspace of the tenant
    Version,      \* Version[s]: the version of the application s has
    Workspaces,   \* those of the tenant, each with a gateway token of its own
    Home,         \* Home[s]: the workspace that activates s
    NoToken,      \* what no workspace issues
    Objects,      \* what the declaration names
    Kinds,        \* the kinds of those objects
    ORDER,        \* a sequence of Kinds: the order of creation
    KindOf,       \* KindOf[o]
    Refers,       \* Refers[o]: the objects o names by slug
    Restorable,   \* the kinds of RESTORE_ENDPOINTS
    ByReference,  \* objects that declare mcp_servers by name
    MaxMishaps    \* bound: calls that fail, acts of users, token rotations

ASSUME ProvisionerAssumption ==
    /\ Version \in [Seeders -> Nat \ {0}]
    /\ Home \in [Seeders -> Workspaces]
    /\ NoToken \notin Workspaces \X Nat
    /\ ORDER \in Seq(Kinds) /\ ORDER # <<>> /\ ToSet(ORDER) = Kinds
    /\ KindOf \in [Objects -> Kinds]
    /\ Refers \in [Objects -> SUBSET Objects]
    \* ... only objects of kinds that ORDER has before its own.
    /\ \A o \in Objects : \A r \in Refers[o] : \A j, k \in DOMAIN ORDER :
          ORDER[j] = KindOf[r] /\ ORDER[k] = KindOf[o] => j < k
    /\ Restorable \subseteq Kinds /\ ByReference \subseteq Objects
    /\ MaxMishaps \in Nat

VARIABLES
    row,          \* the platform: row[o]
    token,        \* token[w]: how often the gateway token in .mcp.json of w changed
    baseline,     \* the platform: version of the seeded state of each object
    at,           \* at[s]: what activation s does next
    work,         \* work[s]: how far it is and what it has read
    mishaps,
    amiss,        \* amiss[s]: history: objects a call of s failed for, or a user deleted
    theirs,       \* theirs[s]: history: objects whose token is not, or no longer, of s
    revived,      \* history: restored objects, until their token is re-asserted
    overtaken,    \* history: objects edited between a read and its update
    lost          \* history: objects hard-deleted, or whose creation failed

pastVars == <<amiss, theirs, revived, overtaken, lost>>
vars == <<row, token, baseline, at, work, mishaps, pastVars>>

\* Content is the version that was seeded, or 0 once a user has edited it.
Versions == {0} \union {Version[s] : s \in Seeders}
Tokens   == (Workspaces \X Nat) \union {NoToken}
Row      == [status : {"absent", "alive", "deleted"}, content : Versions, token : Tokens]
Absent   == [status |-> "absent", content |-> 0, token |-> NoToken]
NoWork   == [kind |-> 0, todo |-> {}, existing |-> {}, token |-> NoToken]

TypeOK ==
    /\ row \in [Objects -> Row]
    /\ token \in [Workspaces -> Nat] /\ baseline \in [Objects -> Versions]
    /\ at \in [Seeders -> [step : {"idle", "list", "entry", "reconcile", "done"}]
                  \union [step : {"check", "restore", "update", "record"}, object : Objects]]
    /\ work \in [Seeders -> [kind : 0..Len(ORDER), todo : SUBSET Objects,
                             existing : SUBSET Objects, token : Tokens]]
    /\ mishaps \in 0..MaxMishaps
    /\ amiss \in [Seeders -> SUBSET Objects] /\ theirs \in [Seeders -> SUBSET Objects]
    /\ revived \subseteq Objects /\ overtaken \subseteq Objects /\ lost \subseteq Objects

Init ==
    /\ row = [o \in Objects |-> Absent]
    /\ token = [w \in Workspaces |-> 0] /\ baseline = [o \in Objects |-> 0]
    /\ at = [s \in Seeders |-> [step |-> "idle"]]
    /\ work = [s \in Seeders |-> NoWork]
    /\ mishaps = 0
    /\ amiss = [s \in Seeders |-> {}] /\ theirs = [s \in Seeders |-> {}]
    /\ revived = {} /\ overtaken = {} /\ lost = {}

-----------------------------------------------------------------------------
Exists(o) == row[o].status # "absent"
Alive(o)  == row[o].status = "alive"

Busy(s) == at[s].step # "idle"

\* Something outside the activations happens, one of their calls fails, or its
\* answer is lost although the platform did it.
Mishap == mishaps < MaxMishaps /\ mishaps' = mishaps + 1

NoMishap == UNCHANGED mishaps

\* History: an object is lacking, and not for want of s's trying.
Lacks(s, o) == amiss' = [amiss EXCEPT ![s] = @ \union {o}]

\* ... and the same for everyone who is at work, or done.
LacksForAll(o) ==
    amiss' = [s \in Seeders |-> IF Busy(s) THEN amiss[s] \union {o} ELSE amiss[s]]

\* History: s could not write the token of these objects.
Misses(s, objects) == theirs' = [theirs EXCEPT ![s] = @ \union (objects \intersect ByReference)]

\* History: the token of o is from now on the one that the writer, if it is an
\* activation, gave it.
Writes(writers, o) ==
    LET others == {s \in Seeders \ writers : Busy(s) /\ o \in ByReference}
    IN  theirs' = [s \in Seeders |-> IF s \in others THEN theirs[s] \union {o}
                                     ELSE IF s \in writers THEN theirs[s] \ {o}
                                     ELSE theirs[s]]

Goes(s, from, to) == at[s] = [step |-> from] /\ at' = [at EXCEPT ![s] = [step |-> to]]

Returns(s, to) == at' = [at EXCEPT ![s] = [step |-> to]]

TurnsTo(s, step, o) == at' = [at EXCEPT ![s] = [step |-> step, object |-> o]]

\* Object o is dealt with.
Ticks(s, o) == work' = [work EXCEPT ![s].todo = @ \ {o}]

\* Mutant of KindAt: the kinds in the opposite order.
KindAtReversed(k) == ORDER[Len(ORDER) + 1 - k]

KindAt(k) == ORDER[k]

\* Mutant of MoreKinds: one kind too many.
MoreKindsLate(k) == k <= Len(ORDER)

MoreKinds(k) == k < Len(ORDER)

-----------------------------------------------------------------------------
(***************************************************************************)
(* seed: the activation of an application.                                 *)
(***************************************************************************)

\* The entry of the gateway in .mcp.json of workspace w.
Issued(w) == <<w, token[w]>>

\* resolve_mcp_servers, from the .mcp.json that s's own workspace has now: an
\* unreadable file, or a name that is not in it, resolves to nothing.
\* (All names of one declaration resolve, or none, and at one moment.)
Resolved(s) == {NoToken, Issued(Home[s])}

\* What apply_mcp_references leaves in the declaration of o.
TokenOf(s, o) == IF o \in ByReference THEN work[s].token ELSE NoToken

\* _payload of a declared object.
Payload(s, o) == [status |-> "alive", content |-> Version[s], token |-> TokenOf(s, o)]

\* With an address and a token of the platform (there is nothing to do without).
BeginSeed(s) ==
    /\ at[s].step \in {"idle", "done"} /\ Returns(s, "list")
    /\ \E read \in Resolved(s) :
          /\ work' = [work EXCEPT ![s] = [NoWork EXCEPT !.kind = 1, !.token = read]]
          /\ IF read = NoToken THEN Mishap ELSE NoMishap
    /\ amiss' = [amiss EXCEPT ![s] = {}] /\ theirs' = [theirs EXCEPT ![s] = {}]
    /\ UNCHANGED <<row, token, baseline, revived, overtaken, lost>>

\* _existing_slugs: soft-deleted objects are not listed; a list that cannot be
\* read counts as empty.
ListKind(s) ==
    LET kind == KindAt(work[s].kind)
        entries == {o \in Objects : KindOf[o] = kind}
    IN  /\ Goes(s, "list", "entry")
        /\ \E existing \in {{}, {o \in entries : Alive(o)}} :
              /\ work' = [work EXCEPT ![s].todo = entries, ![s].existing = existing]
              /\ \/ existing = {o \in entries : Alive(o)} /\ NoMishap /\ UNCHANGED theirs
                 \/ existing = {} /\ Mishap /\ Misses(s, entries)
        /\ UNCHANGED <<row, token, baseline, amiss, revived, overtaken, lost>>

\* _refresh_credentials is for declarations by name that resolved.
MayRefresh(s, o) == o \in ByReference /\ work[s].token # NoToken

\* Mutant of Refreshed: the PUT carries the whole declaration.
RefreshedWhole(s, o) == [row[o] EXCEPT !.token = work[s].token, !.content = Version[s]]

\* Only mcp_config is sent.
Refreshed(s, o) == [row[o] EXCEPT !.token = work[s].token]

\* An entry whose slug was listed.
RefreshEntry(s) ==
    /\ at[s].step = "entry" /\ UNCHANGED at
    /\ \E o \in work[s].todo \intersect work[s].existing :
          /\ Ticks(s, o)
          /\ \/ /\ MayRefresh(s, o) /\ Alive(o) /\ (NoMishap \/ Mishap)
                /\ row' = [row EXCEPT ![o] = Refreshed(s, o)]
                /\ revived' = revived \ {o} /\ Writes({s}, o)
             \/ /\ ~(MayRefresh(s, o) /\ Alive(o)) /\ NoMishap
                /\ UNCHANGED <<row, revived, theirs>>
             \/ /\ MayRefresh(s, o) /\ Mishap /\ Misses(s, {o})
                /\ UNCHANGED <<row, revived>>
    /\ UNCHANGED <<token, baseline, amiss, overtaken, lost>>

\* An entry whose slug was not: POST.  The platform answers 409 for a slug it
\* has, soft-deleted or not.
CreateEntry(s) ==
    /\ at[s].step = "entry"
    /\ \E o \in work[s].todo \ work[s].existing :
          /\ Ticks(s, o)
          /\ \/ /\ ~Exists(o) /\ (NoMishap \/ Mishap)
                /\ row' = [row EXCEPT ![o] = Payload(s, o)]
                /\ Writes({s}, o) /\ UNCHANGED <<at, amiss, lost>>
             \/ /\ Exists(o) /\ NoMishap /\ UNCHANGED <<row, amiss, theirs, lost>>
                /\ IF KindOf[o] \in Restorable THEN TurnsTo(s, "check", o) ELSE UNCHANGED at
             \/ /\ Mishap /\ Lacks(s, o) /\ lost' = lost \union {o}
                /\ UNCHANGED <<row, at, theirs>>
    /\ UNCHANGED <<token, baseline, revived, overtaken>>

\* _restore_if_soft_deleted: a GET that includes deleted rows ...
CheckDeleted(s) ==
    /\ at[s].step = "check"
    /\ \/ /\ NoMishap /\ UNCHANGED amiss
          /\ IF Exists(at[s].object) /\ ~Alive(at[s].object)
             THEN TurnsTo(s, "restore", at[s].object) ELSE Returns(s, "entry")
       \/ Mishap /\ Lacks(s, at[s].object) /\ Returns(s, "entry")
    /\ UNCHANGED <<row, token, baseline, work, theirs, revived, overtaken, lost>>

\* Mutant of Restore: the answer of the check is taken for the deed.
RestoreNothing(s) ==
    /\ at[s].step = "restore" /\ Returns(s, "entry")
    /\ NoMishap /\ UNCHANGED <<row, token, baseline, work, pastVars>>

\* ... and a POST that changes nothing but deleted_at.
Restore(s) ==
    LET o == at[s].object
    IN  /\ at[s].step = "restore" /\ Returns(s, "entry")
        /\ \/ /\ Exists(o) /\ (NoMishap \/ Mishap)
              /\ row' = [row EXCEPT ![o].status = "alive"]
              /\ revived' = revived \union {o} /\ UNCHANGED amiss
           \/ ~Exists(o) /\ NoMishap /\ UNCHANGED <<row, revived, amiss>>
           \/ Mishap /\ Lacks(s, o) /\ UNCHANGED <<row, revived>>
        /\ UNCHANGED <<token, baseline, work, theirs, overtaken, lost>>

\* The next kind, and after the last the workspace reconciles every object.
NextKind(s) ==
    /\ at[s].step = "entry" /\ work[s].todo = {}
    /\ IF MoreKinds(work[s].kind)
       THEN /\ Returns(s, "list")
            /\ work' = [work EXCEPT ![s].kind = @ + 1, ![s].existing = {}]
       ELSE /\ Returns(s, "reconcile")
            /\ work' = [work EXCEPT ![s].existing = {}, ![s].todo = Objects]
    /\ UNCHANGED <<row, token, baseline, mishaps, pastVars>>

-----------------------------------------------------------------------------
(***************************************************************************)
(* The hooks of the reconcile, read_state, read, update and write_state,   *)
(* in the order the workspace calls them.                                  *)
(***************************************************************************)

\* read_state; when the platform does not answer, nothing may be updated.
ReadState(o) == baseline[o]

\* The workspace replaces a field that still holds what was seeded by an older
\* version than its own.
MayUpdate(s, o) ==
    row[o].content = ReadState(o) /\ row[o].content # 0 /\ ReadState(o) < Version[s]

\* An object that is absent, or that cannot be read, is skipped.
ReadObject(s) ==
    /\ at[s].step = "reconcile"
    /\ \E o \in work[s].todo :
          /\ Ticks(s, o)
          /\ \/ Alive(o) /\ MayUpdate(s, o) /\ NoMishap /\ TurnsTo(s, "update", o)
             \/ Alive(o) /\ row[o].content = Version[s] /\ NoMishap /\ TurnsTo(s, "record", o)
             \/ /\ ~(Alive(o) /\ (MayUpdate(s, o) \/ row[o].content = Version[s]))
                /\ NoMishap /\ UNCHANGED at
             \/ Mishap /\ UNCHANGED at
    /\ UNCHANGED <<row, token, baseline, pastVars>>

\* update: a PUT, whatever the object has become since it was read.
UpdateObject(s) ==
    LET o == at[s].object
    IN  /\ at[s].step = "update"
        /\ \/ /\ Alive(o)
              /\ row' = [row EXCEPT ![o].content = Version[s]]
              /\ overtaken' = overtaken \ {o}
              /\ \/ NoMishap /\ TurnsTo(s, "record", o)
                 \/ Mishap /\ Returns(s, "reconcile")
           \/ ~Alive(o) /\ NoMishap /\ Returns(s, "reconcile") /\ UNCHANGED <<row, overtaken>>
           \/ Mishap /\ Returns(s, "reconcile") /\ UNCHANGED <<row, overtaken>>
        /\ UNCHANGED <<token, baseline, work, amiss, theirs, revived, lost>>

\* The platform keeps the baseline of the newer application.
Newer(mine, recorded) == mine >= recorded

WriteState(s) ==
    LET o == at[s].object
    IN  /\ at[s].step = "record" /\ Returns(s, "reconcile")
        /\ \/ /\ NoMishap \/ Mishap
              /\ baseline' = IF Newer(Version[s], baseline[o])
                             THEN [baseline EXCEPT ![o] = Version[s]] ELSE baseline
           \/ Mishap /\ UNCHANGED baseline
        /\ UNCHANGED <<row, token, work, pastVars>>

EndSeed(s) ==
    /\ Goes(s, "reconcile", "done") /\ work[s].todo = {}
    /\ UNCHANGED <<row, token, baseline, work, mishaps, pastVars>>

-----------------------------------------------------------------------------
(***************************************************************************)
(* Users, and the gateway.                                                 *)
(***************************************************************************)
Overtakes(o) ==
    overtaken' = overtaken \union
                   {x \in {o} : \E s \in Seeders : at[s] = [step |-> "update", object |-> o]}

Edit(o) ==
    /\ Alive(o) /\ Mishap
    /\ row' = [row EXCEPT ![o].content = 0]
    /\ Overtakes(o)
    /\ UNCHANGED <<token, baseline, at, work, amiss, theirs, revived, lost>>

CreateByHand(o) ==
    /\ ~Exists(o) /\ Mishap
    /\ row' = [row EXCEPT ![o] = [Absent EXCEPT !.status = "alive"]]
    /\ Overtakes(o)
    /\ Writes({}, o)
    /\ UNCHANGED <<token, baseline, at, work, amiss, revived, lost>>

Delete(o, hard) ==
    /\ Exists(o) /\ Mishap
    /\ row' = [row EXCEPT ![o] = IF hard THEN Absent ELSE [@ EXCEPT !.status = "deleted"]]
    /\ lost' = IF hard THEN lost \union {o} ELSE lost
    /\ LacksForAll(o)
    /\ UNCHANGED <<token, baseline, at, work, theirs, revived, overtaken>>

\* The gateway of w writes a new token to the .mcp.json of w.
Rotate(w) ==
    /\ Mishap /\ token' = [token EXCEPT ![w] = @ + 1]
    /\ UNCHANGED <<row, baseline, at, work, pastVars>>

-----------------------------------------------------------------------------
SeedStep(s) ==
    \/ ListKind(s) \/ RefreshEntry(s) \/ CreateEntry(s) \/ CheckDeleted(s) \/ Restore(s)
    \/ NextKind(s)

ReconcileStep(s) == ReadObject(s) \/ UpdateObject(s) \/ WriteState(s) \/ EndSeed(s)

Next ==
    \/ \E s \in Seeders : BeginSeed(s) \/ SeedStep(s) \/ ReconcileStep(s)
    \/ \E o \in Objects :
          Edit(o) \/ CreateByHand(o) \/ \E hard \in BOOLEAN : Delete(o, hard)
    \/ \E w \in Workspaces : Rotate(w)

Spec == Init /\ [][Next]_vars

-----------------------------------------------------------------------------
(***************************************************************************)
(* Safety.                                                                 *)
(***************************************************************************)

\* "Content is seeded once, credentials are re-asserted on every activation" and
\* "soft-deleted rows do not stay 409-and-forgotten": whatever a user, a failed
\* call or another workspace had left behind, and whatever other activations did
\* meanwhile or do later, after an activation of s
\*   every object exists, and is visible if it can be restored -- except those
\*   a call of s failed for, or a user deleted since s began;
\*   every visible object by reference holds the token of s's workspace that s
\*   resolved -- except those s could not write, those another activation (of
\*   any workspace: the last one wins) or a user wrote after s, and those that
\*   were restored, which keep the token they were deleted with.
SeedConverges ==
    \A s \in Seeders : at[s].step = "done" =>
        \A o \in Objects :
            /\ o \notin amiss[s] => Exists(o) /\ (KindOf[o] \in Restorable => Alive(o))
            /\ o \in ByReference \ (revived \union theirs[s]) /\ Alive(o)
                  /\ work[s].token # NoToken => row[o].token = work[s].token

\* "The order above is the contract": what was seeded refers to nothing that
\* was never there, with every activation and failure in between.
ReferencesExist ==
    \A o \in Objects :
        Exists(o) /\ row[o].content # 0 =>
            \A r \in Refers[o] : Exists(r) \/ r \in lost

\* "A field the user tuned in the UI is never touched": no activation and no
\* reconcile changes an edited object, unless the edit came between the read of
\* the reconcile and its update.
EditsSurvive ==
    [][\A o \in Objects :
         /\ Exists(o) /\ row[o].content = 0 /\ o \notin overtaken
         /\ row'[o].status # "absent"
         => row'[o].content = 0]_vars
=============================================================================
