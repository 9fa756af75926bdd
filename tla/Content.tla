------------------------------- MODULE Content -------------------------------
(***************************************************************************)
(* The content service of packages/engine/src/content-service.ts with the  *)
(* publish job that apps/studio/src/server.ts registers with the           *)
(* scheduler: entries, their revisions and their life cycle.               *)
(*                                                                         *)
(* Every call reads an entry, awaits, and writes the whole entry back; no  *)
(* two writes are atomic together and nothing locks an entry.  A call that *)
(* the capability gate or the field schema rejects changes nothing and is  *)
(* left out, as are the audit entry that ends every call and the content   *)
(* types.  A body is a model value; a field marked sensitive is sealed     *)
(* under a fresh name (sealed counts them) or carried forward when the     *)
(* editor sends the mask back.                                             *)
(***************************************************************************)
EXTENDS Integers, FiniteSets

CONSTANTS
    Actor,        \* concurrent calls, those of scheduler ticks included
    EntryId,
    Slug,
    SystemSlugs,  \* slugs of the built-in pages
    Body,         \* what an editor can type
    None,
    MaxCalls,     \* bound: calls made
    MaxRevision,  \* bound: versions of an entry
    MaxFaults     \* bound: calls cut short

ASSUME ContentConstants ==
    /\ SystemSlugs \subseteq Slug
    /\ None \notin EntryId \cup Slug \cup Body
    /\ MaxCalls \in Nat /\ MaxFaults \in Nat /\ MaxRevision \in Nat \ {0}

VARIABLES
    entry,        \* stored entries
    rev,          \* stored revisions of each entry, by version
    jobs,         \* number of pending publish jobs of each entry
    sealed,       \* secrets sealed so far
    call,         \* each actor's call and its locals
    calls, faults,
    acked,        \* history: versions whose save has returned
    stale,        \* history: entries written from an outdated copy
    interrupted   \* history: entries on which a call was cut short

store == <<entry, rev, jobs, sealed>>
history == <<acked, stale, interrupted>>
vars == <<store, call, calls, faults, history>>

Statuses == {"draft", "in_review", "scheduled", "published", "archived"}
Version == 1..MaxRevision

NoEntry == [slug |-> None, status |-> "none", current |-> 0, system |-> FALSE]
NoRevision == [body |-> None, secret |-> 0, kept |-> FALSE]
Idle == [op |-> "none", at |-> "none", e |-> None, base |-> NoEntry, doc |-> NoEntry,
         version |-> 0, content |-> NoRevision, todo |-> {}]

Entries == {e \in EntryId : entry[e] # NoEntry}
WithSlug(s) == {e \in EntryId : entry[e].slug = s}

EntryDoc == [slug : Slug \cup {None}, status : Statuses \cup {"none"}, current : Nat, system : BOOLEAN]
RevisionDoc == [body : Body \cup {None}, secret : Nat, kept : BOOLEAN]
Call == [op : {"none", "create", "save", "restore", "transition", "job", "ensure"},
         at : {"none", "prior", "revision", "put", "schedule", "createPut", "createRevision", "next"},
         e : EntryId \cup {None}, base : EntryDoc, doc : EntryDoc,
         version : Nat, content : RevisionDoc, todo : SUBSET SystemSlugs]

TypeOK ==
    /\ entry \in [EntryId -> EntryDoc]
    /\ rev \in [EntryId -> [Version -> RevisionDoc]]
    /\ jobs \in [EntryId -> Nat]
    /\ sealed \in Nat
    /\ call \in [Actor -> Call]
    /\ calls \in 0..MaxCalls /\ faults \in 0..MaxFaults
    /\ acked \subseteq EntryId \X Version
    /\ stale \subseteq EntryId /\ interrupted \subseteq EntryId

Init ==
    /\ entry = [e \in EntryId |-> NoEntry]
    /\ rev = [e \in EntryId |-> [v \in Version |-> NoRevision]]
    /\ jobs = [e \in EntryId |-> 0]
    /\ sealed = 0
    /\ call = [a \in Actor |-> Idle]
    /\ calls = 0 /\ faults = 0
    /\ acked = {} /\ stale = {} /\ interrupted = {}

-----------------------------------------------------------------------------
Begin(a, c) ==
    /\ call[a] = Idle
    /\ calls < MaxCalls
    /\ calls' = calls + 1
    /\ call' = [call EXCEPT ![a] = c]
    /\ UNCHANGED faults

Continue(a, c) == call' = [call EXCEPT ![a] = c] /\ UNCHANGED <<calls, faults>>

Return(a) == Continue(a, Idle)

\* A call that read e as it is now and will write doc.
Writing(op, at, e, doc) ==
    [Idle EXCEPT !.op = op, !.at = at, !.e = e, !.base = entry[e], !.doc = doc]

\* A new entry gets an id that no stored entry and no running creation has (a
\* random UUID); it does not matter which.
Unused(e) == e \notin Entries /\ \A a \in Actor : call[a].e # e
Fresh(e) == Unused(e) /\ e = CHOOSE f \in EntryId : Unused(f)

NewEntry(s, status, system) == [slug |-> s, status |-> status, current |-> 1, system |-> system]

-----------------------------------------------------------------------------
\* createEntry: the slug is free when it is looked up; the entry is stored
\* before its first revision.

CreateEntry(a, e, s, body) ==
    /\ Fresh(e) /\ WithSlug(s) = {}
    /\ sealed' = sealed + 1
    /\ Begin(a, [Writing("create", "createPut", e, NewEntry(s, "draft", FALSE)) EXCEPT
                    !.version = 1,
                    !.content = [body |-> body, secret |-> sealed + 1, kept |-> FALSE]])
    /\ UNCHANGED <<entry, rev, jobs, history>>

CreatePut(a) ==
    /\ call[a].at = "createPut"
    /\ entry' = [entry EXCEPT ![call[a].e] = call[a].doc]
    /\ Continue(a, [call[a] EXCEPT !.at = "createRevision"])
    /\ UNCHANGED <<rev, jobs, sealed, history>>

CreateRevision(a) ==
    /\ call[a].at = "createRevision"
    /\ rev' = [rev EXCEPT ![call[a].e] = [@ EXCEPT ![1] = call[a].content]]
    /\ acked' = acked \cup {<<call[a].e, 1>>}
    /\ IF call[a].op = "ensure"
       THEN Continue(a, [Idle EXCEPT !.op = "ensure", !.at = "next", !.todo = call[a].todo])
       ELSE Return(a)
    /\ UNCHANGED <<entry, jobs, sealed, stale, interrupted>>

-----------------------------------------------------------------------------
\* saveEntry and restoreRevision: read the entry, read a revision, store the
\* next revision, store the entry.

SaveRead(a, e, body) ==
    /\ e \in Entries /\ entry[e].current < MaxRevision
    /\ Begin(a, [Writing("save", "prior", e, entry[e]) EXCEPT
                    !.version = entry[e].current,
                    !.content = [body |-> body, secret |-> 0, kept |-> FALSE]])
    /\ UNCHANGED <<store, history>>

RestoreRead(a, e, v) ==
    /\ e \in Entries /\ entry[e].current < MaxRevision
    /\ Begin(a, [Writing("restore", "prior", e, entry[e]) EXCEPT !.version = v])
    /\ UNCHANGED <<store, history>>

\* Mutant: the version is not advanced.
ToRevisionInPlace(a, content) ==
    Continue(a, [call[a] EXCEPT !.at = "revision", !.content = content,
                                !.version = call[a].base.current])

\* Mutant: the entry is stored without its new revision.
ToRevisionEntryOnly(a, content) ==
    Continue(a, [call[a] EXCEPT !.at = "put", !.content = content,
                                !.version = call[a].base.current + 1,
                                !.doc = [@ EXCEPT !.current = call[a].base.current + 1]])

ToRevision(a, content) ==
    Continue(a, [call[a] EXCEPT !.at = "revision", !.content = content,
                                !.version = call[a].base.current + 1,
                                !.doc = [@ EXCEPT !.current = call[a].base.current + 1]])

\* Mutant: the mask is sealed as if it were a value.
ProtectSensitiveSealsMask(a, mask) ==
    /\ call[a].op = "save" /\ call[a].at = "prior"
    /\ sealed' = sealed + 1
    /\ ToRevision(a, [call[a].content EXCEPT !.secret = sealed + 1, !.kept = mask])
    /\ UNCHANGED <<entry, rev, jobs, history>>

\* protectSensitive: the mask keeps what the prior revision holds, a value is
\* sealed anew.
ProtectSensitive(a, mask) ==
    /\ call[a].op = "save" /\ call[a].at = "prior"
    /\ LET prior == rev[call[a].e][call[a].version] IN
         /\ sealed' = IF mask THEN sealed ELSE sealed + 1
         /\ ToRevision(a, [call[a].content EXCEPT
                              !.secret = IF mask THEN prior.secret ELSE sealed + 1,
                              !.kept = mask /\ prior # NoRevision])
    /\ UNCHANGED <<entry, rev, jobs, history>>

RestoreSource(a) ==
    /\ call[a].op = "restore" /\ call[a].at = "prior"
    /\ LET source == rev[call[a].e][call[a].version] IN
         IF source = NoRevision
         THEN Return(a)
         ELSE ToRevision(a, [source EXCEPT !.kept = FALSE])
    /\ UNCHANGED <<store, history>>

\* The entries that a write by a makes stale: its copy is outdated.
Outdated(a) == IF call[a].base = entry[call[a].e] THEN {} ELSE {call[a].e}

AddRevision(a) ==
    /\ call[a].at = "revision"
    /\ rev' = [rev EXCEPT ![call[a].e] = [@ EXCEPT ![call[a].version] = call[a].content]]
    /\ stale' = stale \cup Outdated(a)
    /\ Continue(a, [call[a] EXCEPT !.at = "put"])
    /\ UNCHANGED <<entry, jobs, sealed, acked, interrupted>>

-----------------------------------------------------------------------------
\* The life cycle.

IsAllowedTransition(from, to) ==
    to \in CASE from = "draft"     -> {"in_review", "scheduled", "published"}
             [] from = "in_review" -> {"draft", "scheduled", "published"}
             [] from = "scheduled" -> {"published", "draft"}
             [] from = "published" -> {"draft", "archived"}
             [] from = "archived"  -> {"draft"}

\* Mutant: built-in pages are not protected.
MayMoveAnything(e, to) == IsAllowedTransition(entry[e].status, to)

MayMove(e, to) ==
    /\ entry[e].system => to = "published"
    /\ IsAllowedTransition(entry[e].status, to)

Transition(a, e, to) ==
    /\ e \in Entries /\ MayMove(e, to)
    /\ Begin(a, Writing("transition", "put", e, [entry[e] EXCEPT !.status = to]))
    /\ UNCHANGED <<store, history>>

\* A tick runs a due job: its handler awaits transition and swallows the error
\* of an illegal one.
RunPublishJob(a, e) ==
    /\ call[a] = Idle /\ jobs[e] > 0
    /\ jobs' = [jobs EXCEPT ![e] = @ - 1]
    /\ IF MayMove(e, "published")
       THEN Continue(a, Writing("job", "put", e, [entry[e] EXCEPT !.status = "published"]))
       ELSE Return(a)
    /\ UNCHANGED <<entry, rev, sealed, history>>

\* Mutant: the entry is marked scheduled and no job is queued.
AfterPutForgetsJob(a) ==
    IF call[a].op = "ensure"
    THEN [Idle EXCEPT !.op = "ensure", !.at = "next", !.todo = call[a].todo]
    ELSE Idle

AfterPut(a) ==
    CASE call[a].op = "transition" /\ call[a].doc.status = "scheduled" ->
           [call[a] EXCEPT !.at = "schedule"]
      [] call[a].op = "ensure" ->
           [Idle EXCEPT !.op = "ensure", !.at = "next", !.todo = call[a].todo]
      [] OTHER -> Idle

PutEntry(a) ==
    /\ call[a].at = "put"
    /\ entry' = [entry EXCEPT ![call[a].e] = call[a].doc]
    /\ stale' = stale \cup Outdated(a)
    /\ acked' = IF call[a].op \in {"save", "restore"}
                THEN acked \cup {<<call[a].e, call[a].version>>} ELSE acked
    /\ Continue(a, AfterPut(a))
    /\ UNCHANGED <<rev, jobs, sealed, interrupted>>

Schedule(a) ==
    /\ call[a].at = "schedule"
    /\ jobs' = [jobs EXCEPT ![call[a].e] = @ + 1]
    /\ Return(a)
    /\ UNCHANGED <<entry, rev, sealed, history>>

-----------------------------------------------------------------------------
\* ensureSystemPages: adopt the page that has a system slug, as it is, or
\* create it published.  (The code goes through the slugs in a fixed order.)

EnsureSystemPages(a) ==
    /\ Begin(a, [Idle EXCEPT !.op = "ensure", !.at = "next", !.todo = SystemSlugs])
    /\ UNCHANGED <<store, history>>

EnsureAdopt(a, s, e) ==
    /\ call[a].at = "next" /\ s \in call[a].todo /\ e \in WithSlug(s)
    /\ LET rest == call[a].todo \ {s} IN
         IF entry[e].system
         THEN Continue(a, [call[a] EXCEPT !.todo = rest])
         ELSE Continue(a, [Writing("ensure", "put", e, [entry[e] EXCEPT !.system = TRUE])
                             EXCEPT !.todo = rest])
    /\ UNCHANGED <<store, history>>

EnsureCreate(a, s, e, body) ==
    /\ call[a].at = "next" /\ s \in call[a].todo /\ WithSlug(s) = {} /\ Fresh(e)
    /\ Continue(a, [Writing("ensure", "createPut", e, NewEntry(s, "published", TRUE)) EXCEPT
                       !.version = 1, !.todo = call[a].todo \ {s},
                       !.content = [body |-> body, secret |-> 0, kept |-> FALSE]])
    /\ UNCHANGED <<store, history>>

EnsureDone(a) ==
    /\ call[a].at = "next" /\ call[a].todo = {}
    /\ Return(a)
    /\ UNCHANGED <<store, history>>

-----------------------------------------------------------------------------
\* The next storage operation of a call fails, or the process ends before it:
\* the call's earlier writes stay.
Interrupt(a) ==
    /\ call[a] # Idle /\ faults < MaxFaults
    /\ faults' = faults + 1
    /\ interrupted' = interrupted \cup ({call[a].e} \ {None})
    /\ call' = [call EXCEPT ![a] = Idle]
    /\ UNCHANGED <<store, calls, acked, stale>>

Calls(a) ==
    \/ \E e \in EntryId, s \in Slug, body \in Body : CreateEntry(a, e, s, body)
    \/ \E e \in EntryId, body \in Body : SaveRead(a, e, body)
    \/ \E e \in EntryId, v \in Version : RestoreRead(a, e, v)
    \/ \E e \in EntryId, to \in Statuses : Transition(a, e, to)
    \/ EnsureSystemPages(a)

Step(a) ==
    \/ CreatePut(a) \/ CreateRevision(a)
    \/ \E mask \in BOOLEAN : ProtectSensitive(a, mask)
    \/ RestoreSource(a) \/ AddRevision(a) \/ PutEntry(a) \/ Schedule(a)
    \/ \E s \in SystemSlugs, e \in EntryId : EnsureAdopt(a, s, e)
    \/ \E s \in SystemSlugs, e \in EntryId, body \in Body : EnsureCreate(a, s, e, body)
    \/ EnsureDone(a)

RunJob(e) == \E a \in Actor : RunPublishJob(a, e)

Next ==
    \/ \E a \in Actor : Calls(a) \/ Step(a) \/ Interrupt(a)
    \/ \E e \in EntryId : RunJob(e)

Spec == Init /\ [][Next]_vars

\* Storage answers, and the interval of the scheduler keeps firing ticks.
FairSpec ==
    /\ Spec
    /\ \A a \in Actor : WF_vars(Step(a))
    /\ \A e \in EntryId : SF_vars(RunJob(e))

-----------------------------------------------------------------------------
\* Properties.

\* "Revision history is complete and ordered" (docs/SRS-pressh.md:153): however
\* saves, restores, transitions and interruptions interleave, every version up
\* to an entry's current one is stored; only the first may be missing, while
\* the entry is being created or when its creation was cut short.
HistoryComplete ==
    \A e \in Entries, v \in Version :
        (v <= entry[e].current /\ rev[e][v] = NoRevision)
        => /\ v = 1
           /\ e \in interrupted \/ \E a \in Actor : call[a].e = e /\ call[a].at = "createRevision"

\* "Every save shall create an immutable revision" (docs/SRS-pressh.md:152):
\* once a save has returned, its revision is rewritten only by a call whose
\* copy of the entry is outdated.
SavedRevisionsKept ==
    [][\A e \in EntryId \ stale', v \in Version :
          <<e, v>> \in acked => rev'[e][v] = rev[e][v]]_vars

\* The mask is never sealed in place of a value (sensitive.ts:41-43): a save
\* that sends it back holds the secret of the stored revision it was based on,
\* unless an outdated copy was written.
SecretsCarriedForward ==
    \A e \in EntryId \ stale, v \in Version :
        (v > 1 /\ rev[e][v].kept /\ v <= entry[e].current) => rev[e][v].secret = rev[e][v - 1].secret

\* "System layout pages cannot be unpublished or archived"
\* (content-service.ts:335), by any sequence of calls on fresh copies.
SystemPagesStayPublished ==
    [][\A e \in EntryId \ stale' :
          (entry[e].system /\ entry[e].status = "published")
          => entry'[e].system /\ entry'[e].status = "published"]_vars

\* A scheduled entry has a job to publish it, queued, running or about to be
\* queued, unless a call on it was cut short or wrote an outdated copy.
ScheduledHasJob ==
    \A e \in EntryId \ (stale \cup interrupted) :
        entry[e].status = "scheduled" =>
            \/ jobs[e] > 0
            \/ \E a \in Actor : call[a].e = e /\ (call[a].at = "schedule" \/ call[a].op = "job")

\* "scheduled content publishes automatically at its time" (docs/SRS-pressh.md:148):
\* it does not stay scheduled for ever, with the same exceptions.
ScheduledIsPublished ==
    \A e \in EntryId :
        entry[e].status = "scheduled" ~> (entry[e].status # "scheduled" \/ e \in stale \cup interrupted)

\* An entry stands on the documents beside it: the revisions it counts, the job it waits for.
EntriesAreBacked == HistoryComplete /\ ScheduledHasJob

\* No call undoes what an earlier one has settled: a saved revision, a published system page.
SettledStays == SavedRevisionsKept /\ SystemPagesStayPublished
=============================================================================
