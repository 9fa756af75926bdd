--------------------------- MODULE Content_proofs ---------------------------
(***************************************************************************)
(* Proofs about the content service for any number of concurrent calls,    *)
(* entries, revisions and interruptions.                                   *)
(***************************************************************************)
EXTENDS Content, TLAPS

\* What a call holds at each of its awaits: Writes is a call that will write
\* back a copy of an entry, base, with a new status or a new current revision.
Creates(c) ==
    /\ c.op \in {"create", "ensure"} /\ c.e \in EntryId
    /\ c.doc.status \in {"draft", "published"} /\ c.doc.current = 1
    /\ c.content.body \in Body

Writes(c) ==
    /\ c.e \in EntryId
    /\ c.base.current \in Version
    /\ c.op \in {"save", "restore", "transition", "job", "ensure"}
    /\ c.op \in {"save", "restore", "ensure"} => c.doc.status = c.base.status
    /\ c.op = "job" => c.doc.status = "published"
    /\ c.base.system = TRUE /\ c.base.status = "published"
         => c.doc.system = TRUE /\ c.doc.status = "published"

Advances(c) ==
    /\ c.op \in {"save", "restore"}
    /\ c.version \in Version
    /\ c.version = c.base.current + 1 /\ c.doc.current = c.base.current + 1

ShapeOf(c) ==
    /\ c.at \in {"createPut", "createRevision"} => Creates(c)
    /\ c.at = "prior" =>
         /\ Writes(c) /\ c.op \in {"save", "restore"}
         /\ c.version \in Version
         /\ c.doc = c.base /\ c.base.current + 1 \in Version
         /\ c.op = "save" => c.content.body \in Body /\ c.version = c.base.current
    /\ c.at = "revision" => Writes(c) /\ Advances(c) /\ c.content.body \in Body
    /\ c.at = "put" =>
         /\ Writes(c)
         /\ Advances(c) \/ (c.op \in {"transition", "job", "ensure"} /\ c.doc.current = c.base.current)
    /\ c.at = "schedule" => c.e \in EntryId /\ c.op = "transition"
    /\ c.at = "next" => c.op = "ensure"
    /\ c.op = "job" => c.at = "put"

\* The content of c keeps a sealed secret only from the revision its copy counts.
Carries(c) ==
    c.content.kept = TRUE =>
        /\ rev[c.e][c.base.current] # NoRevision
        /\ c.content.secret = rev[c.e][c.base.current].secret

Shapes == \A a \in Actor : ShapeOf(call[a])

\* Entries that exist have a version, jobs are those of entries that exist, and
\* stored revisions have a body.
Grounded ==
    /\ \A e \in EntryId : entry[e] # NoEntry => entry[e].current \in Version
    /\ \A e \in EntryId : jobs[e] > 0 => entry[e] # NoEntry
    /\ \A a \in Actor : call[a].at = "schedule" => entry[call[a].e] # NoEntry
    /\ \A e \in EntryId, v \in Version : rev[e][v] # NoRevision => rev[e][v].body \in Body

Sound == TypeOK /\ Shapes /\ Grounded

\* A step of a that writes no document and moves its call on to c.
Quiet(a, c) ==
    /\ call' = [call EXCEPT ![a] = c]
    /\ c \in Call /\ ShapeOf(c)
    /\ sealed' \in Nat /\ calls' \in 0..MaxCalls /\ faults' \in 0..MaxFaults
    /\ UNCHANGED <<entry, rev, jobs, history>>
    /\ call[a].at \in {"none", "prior", "next"}
    /\ c.at \notin {"schedule", "createRevision"}
    /\ c.at = "put" => c.op \notin {"save", "restore"}
    /\ c.at \in {"prior", "revision", "put"} =>
         \/ c.base = entry[c.e]
         \/ call[a].at = "prior" /\ c.base = call[a].base /\ c.e = call[a].e
    /\ c.at = "createPut" => Unused(c.e)
    /\ c.at = "revision" => call[a].at = "prior" /\ Carries(c)

\* The empty documents and the idle call have their types.
LEMMA Records ==
  /\ NoEntry \in EntryDoc /\ NoRevision \in RevisionDoc /\ Idle \in Call
  /\ ShapeOf(Idle)
  <1>1. NoEntry \in EntryDoc /\ NoRevision \in RevisionDoc
    BY DEF NoEntry, NoRevision, EntryDoc, RevisionDoc
  <1> QED BY <1>1 DEF Idle, Call, ShapeOf

\* The fields of a call that has just read an entry.
LEMMA WritingFields ==
  ASSUME TypeOK, NEW op \in {"create", "save", "restore", "transition", "job", "ensure"},
         NEW at \in {"prior", "put", "createPut"},
         NEW e \in EntryId, NEW doc \in EntryDoc
  PROVE  /\ Writing(op, at, e, doc) \in Call
         /\ Writing(op, at, e, doc).op = op
         /\ Writing(op, at, e, doc).at = at
         /\ Writing(op, at, e, doc).e = e
         /\ Writing(op, at, e, doc).base = entry[e]
         /\ Writing(op, at, e, doc).doc = doc
  <1>1. entry[e] \in EntryDoc
    BY DEF TypeOK
  <1> QED BY <1>1, Records DEF Writing, Call, Idle

\* The lookups and reads that start or continue a call store nothing: createEntry.
LEMMA QuietCreate ==
  ASSUME Sound, NEW a \in Actor, NEW e \in EntryId, NEW s \in Slug, NEW body \in Body,
         CreateEntry(a, e, s, body)
  PROVE  \E c : Quiet(a, c)
  <1> DEFINE d == NewEntry(s, "draft", FALSE)
             w == Writing("create", "createPut", e, d)
             r == [body |-> body, secret |-> sealed + 1, kept |-> FALSE]
             c == [w EXCEPT !.version = 1, !.content = r]
  <1>1. TypeOK
    BY DEF Sound
  <1>2. d \in EntryDoc /\ d.status = "draft" /\ d.current = 1
    BY DEF NewEntry, EntryDoc, Statuses
  <1>3. r \in RevisionDoc /\ r.body = body
    BY <1>1 DEF RevisionDoc, TypeOK
  <1>4. /\ call' = [call EXCEPT ![a] = c] /\ call[a] = Idle
        /\ calls' = calls + 1 /\ calls < MaxCalls /\ faults' = faults /\ sealed' = sealed + 1
        /\ UNCHANGED <<entry, rev, jobs, history>>
    BY DEF CreateEntry, Begin
  <1> HIDE DEF d
  <1>5. w \in Call /\ w.op = "create" /\ w.at = "createPut" /\ w.e = e /\ w.doc = d
    BY <1>1, <1>2, WritingFields
  <1> HIDE DEF w, r
  <1>6. /\ c \in Call
        /\ c.op = "create" /\ c.at = "createPut" /\ c.e = e /\ c.doc = d
        /\ c.content = r
    BY <1>3, <1>5 DEF Call
  <1>7. ShapeOf(c)
    BY <1>2, <1>3, <1>6 DEF ShapeOf, Creates
  <1>8. sealed' \in Nat /\ calls' \in 0..MaxCalls /\ faults' \in 0..MaxFaults
    BY <1>1, <1>4, ContentConstants DEF TypeOK
  <1> HIDE DEF c
  <1>9. Unused(e)
    BY DEF CreateEntry, Fresh
  <1>10. Quiet(a, c)
    BY <1>4, <1>6, <1>7, <1>8, <1>9 DEF Quiet, Idle
  <1> QED BY <1>10

\* saveEntry reads the entry.
LEMMA QuietSaveRead ==
  ASSUME Sound, NEW a \in Actor, NEW e \in EntryId, NEW body \in Body, SaveRead(a, e, body)
  PROVE  \E c : Quiet(a, c)
  <1> DEFINE w == Writing("save", "prior", e, entry[e])
             r == [body |-> body, secret |-> 0, kept |-> FALSE]
             n == entry[e].current
             c == [w EXCEPT !.version = n, !.content = r]
  <1>1. TypeOK /\ entry[e] \in EntryDoc
    BY DEF Sound, TypeOK
  <1>2. entry[e].current \in Version /\ entry[e].current + 1 \in Version
    BY ContentConstants DEF Sound, Grounded, SaveRead, Entries, Version
  <1>3. r \in RevisionDoc /\ r.body = body
    BY DEF RevisionDoc
  <1>4. /\ call' = [call EXCEPT ![a] = c] /\ call[a] = Idle
        /\ calls' = calls + 1 /\ calls < MaxCalls /\ faults' = faults
        /\ UNCHANGED <<entry, rev, jobs, sealed, history>>
    BY DEF SaveRead, Begin, store
  <1>5. w \in Call /\ w.op = "save" /\ w.at = "prior" /\ w.e = e /\ w.base = entry[e] /\ w.doc = entry[e]
    BY <1>1, WritingFields
  <1> HIDE DEF w, r, n
  <1>6. /\ c \in Call
        /\ c.op = "save" /\ c.at = "prior" /\ c.e = e /\ c.base = entry[e] /\ c.doc = entry[e]
        /\ c.version = n /\ c.content = r
    <2>1. n \in Nat
      BY <1>2 DEF Version, n
    <2> QED BY <2>1, <1>3, <1>5 DEF Call
  <1>7. ShapeOf(c)
    BY <1>2, <1>3, <1>6 DEF ShapeOf, Writes, n
  <1>8. sealed' \in Nat /\ calls' \in 0..MaxCalls /\ faults' \in 0..MaxFaults
    BY <1>1, <1>4, ContentConstants DEF TypeOK
  <1> HIDE DEF c
  <1>9. Quiet(a, c)
    BY <1>4, <1>6, <1>7, <1>8 DEF Quiet, Idle
  <1> QED BY <1>9

\* restoreRevision reads the entry.
LEMMA QuietRestoreRead ==
  ASSUME Sound, NEW a \in Actor, NEW e \in EntryId, NEW v \in Version, RestoreRead(a, e, v)
  PROVE  \E c : Quiet(a, c)
  <1> DEFINE w == Writing("restore", "prior", e, entry[e])
             c == [w EXCEPT !.version = v]
  <1>1. TypeOK /\ entry[e] \in EntryDoc
    BY DEF Sound, TypeOK
  <1>2. entry[e].current \in Version /\ entry[e].current + 1 \in Version
    BY ContentConstants DEF Sound, Grounded, RestoreRead, Entries, Version
  <1>4. /\ call' = [call EXCEPT ![a] = c] /\ call[a] = Idle
        /\ calls' = calls + 1 /\ calls < MaxCalls /\ faults' = faults
        /\ UNCHANGED <<entry, rev, jobs, sealed, history>>
    BY DEF RestoreRead, Begin, store
  <1>5. w \in Call /\ w.op = "restore" /\ w.at = "prior" /\ w.e = e /\ w.base = entry[e] /\ w.doc = entry[e]
    BY <1>1, WritingFields
  <1> HIDE DEF w
  <1>6. /\ c \in Call
        /\ c.op = "restore" /\ c.at = "prior" /\ c.e = e /\ c.base = entry[e] /\ c.doc = entry[e]
        /\ c.version = v
    BY <1>5 DEF Call, Version
  <1>7. ShapeOf(c)
    BY <1>2, <1>6 DEF ShapeOf, Writes
  <1>8. sealed' \in Nat /\ calls' \in 0..MaxCalls /\ faults' \in 0..MaxFaults
    BY <1>1, <1>4, ContentConstants DEF TypeOK
  <1> HIDE DEF c
  <1>9. Quiet(a, c)
    BY <1>4, <1>6, <1>7, <1>8 DEF Quiet, Idle
  <1> QED BY <1>9

\* transition reads the entry and checks the move.
LEMMA QuietTransition ==
  ASSUME Sound, NEW a \in Actor, NEW e \in EntryId, NEW to \in Statuses, Transition(a, e, to)
  PROVE  \E c : Quiet(a, c)
  <1> DEFINE d == [entry[e] EXCEPT !.status = to]
             c == Writing("transition", "put", e, d)
  <1>1. TypeOK /\ entry[e] \in EntryDoc
    BY DEF Sound, TypeOK
  <1>2. entry[e].current \in Version
    BY DEF Sound, Grounded, Transition, Entries
  <1>3. d \in EntryDoc /\ d.current = entry[e].current /\ d.system = entry[e].system /\ d.status = to
    BY <1>1 DEF EntryDoc
  <1>5. entry[e].system = TRUE => to = "published"
    BY DEF Transition, MayMove
  <1>4. /\ call' = [call EXCEPT ![a] = c] /\ call[a] = Idle
        /\ calls' = calls + 1 /\ calls < MaxCalls /\ faults' = faults
        /\ UNCHANGED <<entry, rev, jobs, sealed, history>>
    BY DEF Transition, Begin, store
  <1> HIDE DEF d
  <1>6. c \in Call /\ c.op = "transition" /\ c.at = "put" /\ c.e = e /\ c.base = entry[e] /\ c.doc = d
    BY <1>1, <1>3, WritingFields
  <1> HIDE DEF c
  <1>7. ShapeOf(c)
    BY <1>2, <1>3, <1>5, <1>6 DEF ShapeOf, Writes
  <1>8. sealed' \in Nat /\ calls' \in 0..MaxCalls /\ faults' \in 0..MaxFaults
    BY <1>1, <1>4, ContentConstants DEF TypeOK
  <1>9. Quiet(a, c)
    BY <1>4, <1>6, <1>7, <1>8 DEF Quiet, Idle
  <1> QED BY <1>9

\* ensureSystemPages starts its loop.
LEMMA QuietEnsure ==
  ASSUME Sound, NEW a \in Actor, EnsureSystemPages(a)
  PROVE  \E c : Quiet(a, c)
  <1> DEFINE c == [Idle EXCEPT !.op = "ensure", !.at = "next", !.todo = SystemSlugs]
  <1>1. TypeOK
    BY DEF Sound
  <1>4. /\ call' = [call EXCEPT ![a] = c] /\ call[a] = Idle
        /\ calls' = calls + 1 /\ calls < MaxCalls /\ faults' = faults
        /\ UNCHANGED <<entry, rev, jobs, sealed, history>>
    BY DEF EnsureSystemPages, Begin, store
  <1>6. c \in Call /\ c.op = "ensure" /\ c.at = "next"
    BY Records DEF Call, Idle
  <1> HIDE DEF c
  <1>7. ShapeOf(c)
    BY <1>6 DEF ShapeOf
  <1>8. sealed' \in Nat /\ calls' \in 0..MaxCalls /\ faults' \in 0..MaxFaults
    BY <1>1, <1>4, ContentConstants DEF TypeOK
  <1>9. Quiet(a, c)
    BY <1>4, <1>6, <1>7, <1>8 DEF Quiet, Idle
  <1> QED BY <1>9

\* ensureSystemPages finds the page and adopts it or leaves it.
LEMMA QuietEnsureAdopt ==
  ASSUME Sound, NEW a \in Actor, NEW s \in SystemSlugs, NEW e \in EntryId, EnsureAdopt(a, s, e)
  PROVE  \E c : Quiet(a, c)
  <1> DEFINE rest == call[a].todo \ {s}
  <1>1. TypeOK /\ entry[e] \in EntryDoc /\ call[a] \in Call /\ ShapeOf(call[a])
    BY DEF Sound, TypeOK, Shapes
  <1>2. entry[e] # NoEntry /\ entry[e].current \in Version
    <2>1. entry[e].slug # None
      BY ContentConstants DEF EnsureAdopt, WithSlug
    <2>2. entry[e] # NoEntry
      BY <2>1 DEF NoEntry
    <2> QED BY <2>2 DEF Sound, Grounded
  <1>3. rest \in SUBSET SystemSlugs /\ call[a].at = "next" /\ call[a].op = "ensure"
    BY <1>1 DEF Call, EnsureAdopt, ShapeOf
  <1>4. calls' = calls /\ faults' = faults /\ UNCHANGED <<entry, rev, jobs, sealed, history>>
    BY DEF EnsureAdopt, Continue, store
  <1>8. sealed' \in Nat /\ calls' \in 0..MaxCalls /\ faults' \in 0..MaxFaults
    BY <1>1, <1>4, ContentConstants DEF TypeOK
  <1>5. CASE entry[e].system
    <2> DEFINE c == [call[a] EXCEPT !.todo = rest]
    <2>1. call' = [call EXCEPT ![a] = c]
      BY <1>5 DEF EnsureAdopt, Continue
    <2> HIDE DEF rest
    <2>2. c \in Call /\ c.op = "ensure" /\ c.at = "next"
      BY <1>1, <1>3 DEF Call
    <2> HIDE DEF c
    <2>3. ShapeOf(c)
      BY <2>2 DEF ShapeOf
    <2>4. Quiet(a, c)
      BY <1>3, <1>4, <1>8, <2>1, <2>2, <2>3 DEF Quiet
    <2> QED BY <2>4
  <1>6. CASE ~entry[e].system
    <2> DEFINE d == [entry[e] EXCEPT !.system = TRUE]
               w == Writing("ensure", "put", e, d)
               c == [w EXCEPT !.todo = rest]
    <2>1. call' = [call EXCEPT ![a] = c]
      BY <1>6 DEF EnsureAdopt, Continue
    <2>2. d \in EntryDoc /\ d.current = entry[e].current /\ d.status = entry[e].status /\ d.system = TRUE
      BY <1>1 DEF EntryDoc
    <2> HIDE DEF d
    <2>3. w \in Call /\ w.op = "ensure" /\ w.at = "put" /\ w.e = e /\ w.base = entry[e] /\ w.doc = d
      BY <1>1, <2>2, WritingFields
    <2> HIDE DEF w, rest
    <2>4. c \in Call /\ c.op = "ensure" /\ c.at = "put" /\ c.e = e /\ c.base = entry[e] /\ c.doc = d
      BY <1>3, <2>3 DEF Call
    <2> HIDE DEF c
    <2>5. ShapeOf(c)
      BY <1>2, <2>2, <2>4 DEF ShapeOf, Writes
    <2>6. Quiet(a, c)
      BY <1>3, <1>4, <1>8, <2>1, <2>4, <2>5 DEF Quiet
    <2> QED BY <2>6
  <1> QED BY <1>5, <1>6

\* ensureSystemPages finds no page and builds one.
LEMMA QuietEnsureCreate ==
  ASSUME Sound, NEW a \in Actor, NEW s \in SystemSlugs, NEW e \in EntryId, NEW body \in Body,
         EnsureCreate(a, s, e, body)
  PROVE  \E c : Quiet(a, c)
  <1> DEFINE d == NewEntry(s, "published", TRUE)
             w == Writing("ensure", "createPut", e, d)
             r == [body |-> body, secret |-> 0, kept |-> FALSE]
             rest == call[a].todo \ {s}
             c == [w EXCEPT !.version = 1, !.todo = rest, !.content = r]
  <1>1. TypeOK /\ call[a] \in Call
    BY DEF Sound, TypeOK
  <1>2. d \in EntryDoc /\ d.status = "published" /\ d.current = 1
    BY ContentConstants DEF NewEntry, EntryDoc, Statuses
  <1>3. r \in RevisionDoc /\ r.body = body /\ rest \in SUBSET SystemSlugs /\ call[a].at = "next"
    BY <1>1 DEF RevisionDoc, Call, EnsureCreate
  <1>4. /\ call' = [call EXCEPT ![a] = c] /\ calls' = calls /\ faults' = faults
        /\ UNCHANGED <<entry, rev, jobs, sealed, history>>
    BY DEF EnsureCreate, Continue, store
  <1> HIDE DEF d
  <1>5. w \in Call /\ w.op = "ensure" /\ w.at = "createPut" /\ w.e = e /\ w.doc = d
    BY <1>1, <1>2, WritingFields
  <1> HIDE DEF w, r, rest
  <1>6. /\ c \in Call
        /\ c.op = "ensure" /\ c.at = "createPut" /\ c.e = e /\ c.doc = d
        /\ c.content = r
    BY <1>3, <1>5 DEF Call
  <1>7. ShapeOf(c)
    BY <1>2, <1>3, <1>6 DEF ShapeOf, Creates
  <1>8. sealed' \in Nat /\ calls' \in 0..MaxCalls /\ faults' \in 0..MaxFaults
    BY <1>1, <1>4, ContentConstants DEF TypeOK
  <1> HIDE DEF c
  <1>9. Unused(e)
    BY DEF EnsureCreate, Fresh
  <1>10. Quiet(a, c)
    BY <1>3, <1>4, <1>6, <1>7, <1>8, <1>9 DEF Quiet
  <1> QED BY <1>10

\* ensureSystemPages has gone through its slugs.
LEMMA QuietEnsureDone ==
  ASSUME Sound, NEW a \in Actor, EnsureDone(a)
  PROVE  \E c : Quiet(a, c)
  <1>1. TypeOK
    BY DEF Sound
  <1>4. /\ call' = [call EXCEPT ![a] = Idle] /\ calls' = calls /\ faults' = faults
        /\ UNCHANGED <<entry, rev, jobs, sealed, history>> /\ call[a].at = "next"
    BY DEF EnsureDone, Return, Continue, store
  <1>8. sealed' \in Nat /\ calls' \in 0..MaxCalls /\ faults' \in 0..MaxFaults
    BY <1>1, <1>4, ContentConstants DEF TypeOK
  <1>9. Quiet(a, Idle)
    BY <1>4, <1>8, Records DEF Quiet, Idle
  <1> QED BY <1>9

\* A call that has read its prior revision goes on to the next version.
LEMMA QuietToRevision ==
  ASSUME Sound, NEW a \in Actor, call[a].at = "prior", NEW content \in RevisionDoc,
         content.body \in Body, ToRevision(a, content),
         content.kept = TRUE =>
             /\ rev[call[a].e][call[a].base.current] # NoRevision
             /\ content.secret = rev[call[a].e][call[a].base.current].secret,
         sealed' \in Nat, UNCHANGED <<entry, rev, jobs, history>>
  PROVE  \E c : Quiet(a, c)
  <1> DEFINE k == call[a]
             n == k.base.current + 1
             d == [k.doc EXCEPT !.current = n]
             c == [k EXCEPT !.at = "revision", !.content = content, !.version = n, !.doc = d]
  <1>1. TypeOK /\ k \in Call /\ ShapeOf(k)
    BY DEF Sound, TypeOK, Shapes
  <1>2. /\ k.op \in {"save", "restore"} /\ k.e \in EntryId /\ k.base.current \in Version
        /\ n \in Version /\ k.doc = k.base /\ k.doc \in EntryDoc
    BY <1>1 DEF ShapeOf, Writes, Call
  <1>3. n \in Nat
    BY <1>2 DEF Version
  <1>4. /\ call' = [call EXCEPT ![a] = c] /\ calls' = calls /\ faults' = faults
    BY DEF ToRevision, Continue
  <1>8. calls' \in 0..MaxCalls /\ faults' \in 0..MaxFaults
    BY <1>1, <1>4 DEF TypeOK
  <1>9. k.at = "prior" /\ n = k.base.current + 1
    OBVIOUS
  <1> HIDE DEF k, n
  <1>5. d \in EntryDoc /\ d.current = n /\ d.status = k.base.status /\ d.system = k.base.system
    BY <1>2, <1>3 DEF EntryDoc
  <1> HIDE DEF d
  <1>6. /\ c \in Call
        /\ c.op = k.op /\ c.at = "revision" /\ c.e = k.e /\ c.base = k.base /\ c.doc = d
        /\ c.content = content /\ c.version = n
    BY <1>1, <1>3, <1>5 DEF Call
  <1> HIDE DEF c
  <1>7. ShapeOf(c)
    BY <1>2, <1>5, <1>6, <1>9 DEF ShapeOf, Writes, Advances
  <1>10. call[a].at = "prior" /\ c.base = call[a].base /\ c.e = call[a].e
    BY <1>6 DEF k
  <1>11. Carries(c)
    BY <1>6, <1>10 DEF Carries
  <1>12. Quiet(a, c)
    BY <1>4, <1>6, <1>7, <1>8, <1>10, <1>11 DEF Quiet
  <1> QED BY <1>12

\* saveEntry protects the sensitive fields.
LEMMA QuietProtect ==
  ASSUME Sound, NEW a \in Actor, NEW mask \in BOOLEAN, ProtectSensitive(a, mask)
  PROVE  \E c : Quiet(a, c)
  <1> DEFINE k == call[a].content
             prior == rev[call[a].e][call[a].version]
             x == IF mask THEN prior.secret ELSE sealed + 1
             y == mask /\ prior # NoRevision
             content == [k EXCEPT !.secret = x, !.kept = y]
  <1>1. TypeOK /\ call[a] \in Call /\ ShapeOf(call[a]) /\ call[a].op = "save" /\ call[a].at = "prior"
    BY DEF Sound, TypeOK, Shapes, ProtectSensitive
  <1>2. k \in RevisionDoc /\ k.body \in Body /\ call[a].e \in EntryId /\ call[a].version \in Version
    BY <1>1 DEF ShapeOf, Writes, Call
  <1>3. prior \in RevisionDoc
    BY <1>1, <1>2 DEF TypeOK
  <1>4. x \in Nat /\ sealed' \in Nat
    BY <1>1, <1>3 DEF ProtectSensitive, TypeOK, RevisionDoc
  <1>5. y \in BOOLEAN
    OBVIOUS
  <1>6. ToRevision(a, content) /\ UNCHANGED <<entry, rev, jobs, history>>
    BY DEF ProtectSensitive
  <1>8. y = TRUE => prior # NoRevision /\ x = prior.secret
    OBVIOUS
  <1>9. call[a].version = call[a].base.current
    BY <1>1 DEF ShapeOf
  <1> HIDE DEF k, x, y
  <1>7. /\ content \in RevisionDoc /\ content.body \in Body
        /\ content.kept = y /\ content.secret = x
    BY <1>2, <1>4, <1>5 DEF RevisionDoc
  <1> HIDE DEF content
  <1>10. content.kept = TRUE =>
             /\ rev[call[a].e][call[a].base.current] # NoRevision
             /\ content.secret = rev[call[a].e][call[a].base.current].secret
    BY <1>7, <1>8, <1>9
  <1> QED BY <1>1, <1>4, <1>6, <1>7, <1>10, QuietToRevision

\* restoreRevision reads the revision it restores.
LEMMA QuietRestoreSource ==
  ASSUME Sound, NEW a \in Actor, RestoreSource(a)
  PROVE  \E c : Quiet(a, c)
  <1> DEFINE source == rev[call[a].e][call[a].version]
             content == [source EXCEPT !.kept = FALSE]
  <1>1. TypeOK /\ call[a] \in Call /\ ShapeOf(call[a]) /\ call[a].at = "prior"
    BY DEF Sound, TypeOK, Shapes, RestoreSource
  <1>2. call[a].e \in EntryId /\ call[a].version \in Version
    BY <1>1 DEF ShapeOf, Writes
  <1>3. source \in RevisionDoc
    BY <1>1, <1>2 DEF TypeOK
  <1>4. sealed' = sealed /\ sealed' \in Nat /\ UNCHANGED <<entry, rev, jobs, history>>
    BY <1>1 DEF RestoreSource, store, TypeOK
  <1>5. CASE source = NoRevision
    <2>1. call' = [call EXCEPT ![a] = Idle] /\ calls' = calls /\ faults' = faults
      BY <1>5 DEF RestoreSource, Return, Continue
    <2>2. calls' \in 0..MaxCalls /\ faults' \in 0..MaxFaults
      BY <1>1, <2>1 DEF TypeOK
    <2>3. Quiet(a, Idle)
      BY <1>1, <1>4, <2>1, <2>2, Records DEF Quiet, Idle
    <2> QED BY <2>3
  <1>6. CASE source # NoRevision
    <2>1. ToRevision(a, content)
      BY <1>6 DEF RestoreSource
    <2>2. source.body \in Body
      BY <1>2, <1>6 DEF Sound, Grounded
    <2> HIDE DEF source
    <2>3. content \in RevisionDoc /\ content.body \in Body /\ content.kept = FALSE
      BY <1>3, <2>2 DEF RevisionDoc
    <2> HIDE DEF content
    <2> QED BY <1>1, <1>4, <2>1, <2>3, QuietToRevision
  <1> QED BY <1>5, <1>6

-----------------------------------------------------------------------------
\* The steps that write a document or end a call.

\* The call of a, and no other, moves on.
Moves(a) ==
    /\ call'[a] \in Call /\ ShapeOf(call'[a])
    /\ \A b \in Actor \ {a} : call'[b] = call[b]

\* A step that replaces one call moves only that call.
LEMMA CallMoves ==
  ASSUME Sound, NEW a \in Actor, NEW c \in Call, ShapeOf(c), call' = [call EXCEPT ![a] = c]
  PROVE  call' \in [Actor -> Call] /\ Shapes' /\ call'[a] = c /\ Moves(a)
  <1>1. call \in [Actor -> Call] /\ \A b \in Actor : ShapeOf(call[b])
    BY DEF Sound, TypeOK, Shapes
  <1>2. call' \in [Actor -> Call] /\ call'[a] = c /\ \A b \in Actor \ {a} : call'[b] = call[b]
    BY <1>1
  <1>3. \A b \in Actor : ShapeOf(call'[b])
    <2> SUFFICES ASSUME NEW b \in Actor PROVE ShapeOf(call'[b])
      OBVIOUS
    <2>1. CASE b = a
      BY <1>2, <2>1
    <2>2. CASE b # a
      <3>1. call'[b] = call[b]
        BY <1>2, <2>2
      <3> QED BY <1>1, <3>1
    <2> QED BY <2>1, <2>2
  <1> QED BY <1>2, <1>3 DEF Shapes, Moves, ShapeOf, Creates, Writes, Advances

\* What the storing steps change, one lemma per step: the new entry.
LEMMA CreatePutFacts ==
  ASSUME Sound, NEW a \in Actor, CreatePut(a)
  PROVE  /\ call' \in [Actor -> Call] /\ Shapes' /\ Moves(a)
         /\ Creates(call[a]) /\ call[a].at = "createPut" /\ call'[a].at = "createRevision"
         /\ call'[a].e = call[a].e
         /\ call[a].doc \in EntryDoc
         /\ entry' = [entry EXCEPT ![call[a].e] = call[a].doc]
         /\ UNCHANGED <<rev, jobs, sealed, calls, faults, history>>
  <1> DEFINE k == call[a]
             c == [k EXCEPT !.at = "createRevision"]
  <1>1. k \in Call /\ ShapeOf(k) /\ k.at = "createPut"
    BY DEF Sound, TypeOK, Shapes, CreatePut
  <1>2. /\ call' = [call EXCEPT ![a] = c]
        /\ entry' = [entry EXCEPT ![k.e] = k.doc]
        /\ UNCHANGED <<rev, jobs, sealed, calls, faults, history>>
    BY DEF CreatePut, Continue
  <1>3. Creates(k) /\ k.doc \in EntryDoc
    BY <1>1 DEF ShapeOf, Call
  <1> HIDE DEF k
  <1>4. /\ c \in Call /\ c.at = "createRevision" /\ c.op = k.op /\ c.e = k.e /\ c.doc = k.doc
        /\ c.content = k.content
    BY <1>1 DEF Call
  <1> HIDE DEF c
  <1>5. ShapeOf(c)
    BY <1>3, <1>4 DEF ShapeOf, Creates
  <1>6. call' \in [Actor -> Call] /\ Shapes' /\ call'[a] = c /\ Moves(a)
    BY <1>2, <1>4, <1>5, CallMoves
  <1> QED BY <1>1, <1>2, <1>3, <1>4, <1>6 DEF k

\* A step of ensureSystemPages ends ready for its next slug.
LEMMA NextSlug ==
  ASSUME NEW k \in Call
  PROVE  LET c == [Idle EXCEPT !.op = "ensure", !.at = "next", !.todo = k.todo] IN
         c \in Call /\ c.at = "next" /\ c.op = "ensure" /\ ShapeOf(c)
  <1> DEFINE t == k.todo
             c == [Idle EXCEPT !.op = "ensure", !.at = "next", !.todo = t]
  <1>1. t \in SUBSET SystemSlugs
    BY DEF Call
  <1> HIDE DEF t
  <1>2. c \in Call /\ c.at = "next" /\ c.op = "ensure"
    BY <1>1, Records DEF Call, Idle
  <1> HIDE DEF c
  <1>3. ShapeOf(c)
    BY <1>2 DEF ShapeOf
  <1> QED BY <1>2, <1>3 DEF c, t

\* The first revision of a new entry is stored.
LEMMA CreateRevisionFacts ==
  ASSUME Sound, NEW a \in Actor, CreateRevision(a)
  PROVE  /\ call' \in [Actor -> Call] /\ Shapes' /\ Moves(a)
         /\ Creates(call[a]) /\ call[a].at = "createRevision" /\ call'[a].at \in {"none", "next"}
         /\ call[a].content \in RevisionDoc
         /\ rev' = [rev EXCEPT ![call[a].e] = [@ EXCEPT ![1] = call[a].content]]
         /\ acked' = acked \cup {<<call[a].e, 1>>}
         /\ UNCHANGED <<entry, jobs, sealed, calls, faults, stale, interrupted>>
  <1> DEFINE k == call[a]
             c == IF k.op = "ensure" THEN [Idle EXCEPT !.op = "ensure", !.at = "next", !.todo = k.todo]
                  ELSE Idle
  <1>1. k \in Call /\ ShapeOf(k) /\ k.at = "createRevision"
    BY DEF Sound, TypeOK, Shapes, CreateRevision
  <1>2. /\ call' = [call EXCEPT ![a] = c]
        /\ rev' = [rev EXCEPT ![k.e] = [@ EXCEPT ![1] = k.content]]
        /\ acked' = acked \cup {<<k.e, 1>>}
        /\ UNCHANGED <<entry, jobs, sealed, calls, faults, stale, interrupted>>
    BY DEF CreateRevision, Continue, Return
  <1>3. Creates(k) /\ k.content \in RevisionDoc
    BY <1>1 DEF ShapeOf, Call
  <1>4. c \in Call /\ c.at \in {"none", "next"} /\ ShapeOf(c)
    <2>1. Idle.at = "none"
      BY DEF Idle
    <2> QED BY <1>1, <2>1, NextSlug, Records
  <1> HIDE DEF c
  <1>5. call' \in [Actor -> Call] /\ Shapes' /\ call'[a] = c /\ Moves(a)
    BY <1>2, <1>4, CallMoves
  <1> QED BY <1>1, <1>2, <1>3, <1>4, <1>5

\* The next revision of an entry is stored.
LEMMA AddRevisionFacts ==
  ASSUME Sound, NEW a \in Actor, AddRevision(a)
  PROVE  /\ call' \in [Actor -> Call] /\ Shapes' /\ Moves(a)
         /\ Writes(call[a]) /\ Advances(call[a]) /\ call[a].content.body \in Body
         /\ call[a].at = "revision" /\ call'[a].at = "put" /\ call'[a].op = call[a].op
         /\ call'[a].e = call[a].e /\ call'[a].base = call[a].base
         /\ call'[a].version = call[a].version
         /\ call[a].content \in RevisionDoc
         /\ rev' = [rev EXCEPT ![call[a].e] = [@ EXCEPT ![call[a].version] = call[a].content]]
         /\ stale' = stale \cup Outdated(a)
         /\ UNCHANGED <<entry, jobs, sealed, calls, faults, acked, interrupted>>
  <1> DEFINE k == call[a]
             c == [k EXCEPT !.at = "put"]
  <1>1. k \in Call /\ ShapeOf(k) /\ k.at = "revision"
    BY DEF Sound, TypeOK, Shapes, AddRevision
  <1>2. /\ call' = [call EXCEPT ![a] = c]
        /\ rev' = [rev EXCEPT ![k.e] = [@ EXCEPT ![k.version] = k.content]]
        /\ stale' = stale \cup Outdated(a)
        /\ UNCHANGED <<entry, jobs, sealed, calls, faults, acked, interrupted>>
    BY DEF AddRevision, Continue
  <1>3. Writes(k) /\ Advances(k) /\ k.content.body \in Body /\ k.content \in RevisionDoc
    BY <1>1 DEF ShapeOf, Call
  <1> HIDE DEF k
  <1>4. /\ c \in Call /\ c.at = "put" /\ c.op = k.op /\ c.e = k.e /\ c.doc = k.doc
        /\ c.base = k.base /\ c.version = k.version
    BY <1>1 DEF Call
  <1> HIDE DEF c
  <1>5. ShapeOf(c)
    BY <1>3, <1>4 DEF ShapeOf, Writes, Advances
  <1>6. call' \in [Actor -> Call] /\ Shapes' /\ call'[a] = c /\ Moves(a)
    BY <1>2, <1>4, <1>5, CallMoves
  <1> QED BY <1>1, <1>2, <1>3, <1>4, <1>6 DEF k

\* The copy of an entry is written back.
LEMMA PutEntryFacts ==
  ASSUME Sound, NEW a \in Actor, PutEntry(a)
  PROVE  /\ call' \in [Actor -> Call] /\ Shapes' /\ Moves(a)
         /\ call[a].at = "put" /\ Writes(call[a])
         /\ call[a].doc \in EntryDoc /\ call[a].doc.current \in Version
         /\ Advances(call[a]) \/ call[a].doc.current = call[a].base.current
         /\ call[a].op \in {"save", "restore"} => Advances(call[a])
         /\ call'[a].at \in {"none", "next", "schedule"}
         /\ call'[a].at = "schedule" => call'[a].e = call[a].e
         /\ (call[a].op = "transition" /\ call[a].doc.status = "scheduled") => call'[a].at = "schedule"
         /\ entry' = [entry EXCEPT ![call[a].e] = call[a].doc]
         /\ stale' = stale \cup Outdated(a)
         /\ acked' = IF call[a].op \in {"save", "restore"}
                     THEN acked \cup {<<call[a].e, call[a].version>>} ELSE acked
         /\ UNCHANGED <<rev, jobs, sealed, calls, faults, interrupted>>
  <1> DEFINE k == call[a]
             c == AfterPut(a)
  <1>1. k \in Call /\ ShapeOf(k) /\ k.at = "put"
    BY DEF Sound, TypeOK, Shapes, PutEntry
  <1>2. /\ call' = [call EXCEPT ![a] = c]
        /\ entry' = [entry EXCEPT ![k.e] = k.doc]
        /\ stale' = stale \cup Outdated(a)
        /\ acked' = IF k.op \in {"save", "restore"} THEN acked \cup {<<k.e, k.version>>} ELSE acked
        /\ UNCHANGED <<rev, jobs, sealed, calls, faults, interrupted>>
    BY DEF PutEntry, Continue
  <1>3. /\ Writes(k) /\ k.doc \in EntryDoc
        /\ Advances(k) \/ (k.op \in {"transition", "job", "ensure"} /\ k.doc.current = k.base.current)
    BY <1>1 DEF ShapeOf, Call
  <1>4. /\ k.doc.current \in Version
        /\ k.op \in {"save", "restore"} => Advances(k)
    BY <1>3 DEF Writes, Advances
  <1>5. /\ c \in Call /\ ShapeOf(c) /\ c.at \in {"none", "next", "schedule"}
        /\ c.at = "schedule" => c.e = k.e
        /\ (k.op = "transition" /\ k.doc.status = "scheduled") => c.at = "schedule"
    <2>1. CASE k.op = "transition" /\ k.doc.status = "scheduled"
      <3> DEFINE s == [k EXCEPT !.at = "schedule"]
      <3>1. c = s
        BY <2>1 DEF AfterPut
      <3> HIDE DEF k
      <3>2. s \in Call /\ s.at = "schedule" /\ s.op = k.op /\ s.e = k.e
        BY <1>1 DEF Call
      <3> HIDE DEF s
      <3>3. ShapeOf(s)
        BY <1>3, <2>1, <3>2 DEF ShapeOf, Writes
      <3> QED BY <3>1, <3>2, <3>3
    <2>2. CASE k.op = "ensure"
      <3>1. c = [Idle EXCEPT !.op = "ensure", !.at = "next", !.todo = k.todo]
        BY <2>2 DEF AfterPut
      <3>2. c \in Call /\ c.at = "next" /\ ShapeOf(c)
        BY <1>1, <3>1, NextSlug
      <3> QED BY <2>2, <3>2
    <2>3. CASE ~(k.op = "transition" /\ k.doc.status = "scheduled") /\ k.op # "ensure"
      <3>1. c = Idle
        BY <2>3 DEF AfterPut
      <3>2. Idle.at = "none"
        BY DEF Idle
      <3> QED BY <2>3, <3>1, <3>2, Records
    <2> QED BY <2>1, <2>2, <2>3
  <1> HIDE DEF c
  <1>6. call' \in [Actor -> Call] /\ Shapes' /\ call'[a] = c /\ Moves(a)
    BY <1>2, <1>5, CallMoves
  <1> QED BY <1>1, <1>2, <1>3, <1>4, <1>5, <1>6

\* The publish job of a scheduled entry is queued.
LEMMA ScheduleFacts ==
  ASSUME Sound, NEW a \in Actor, Schedule(a)
  PROVE  /\ call' \in [Actor -> Call] /\ Shapes' /\ Moves(a)
         /\ call[a].at = "schedule" /\ call[a].op = "transition" /\ call[a].e \in EntryId
         /\ call'[a] = Idle
         /\ jobs' = [jobs EXCEPT ![call[a].e] = @ + 1]
         /\ UNCHANGED <<entry, rev, sealed, calls, faults, history>>
  <1>1. call[a] \in Call /\ ShapeOf(call[a]) /\ call[a].at = "schedule"
    BY DEF Sound, TypeOK, Shapes, Schedule
  <1>2. /\ call' = [call EXCEPT ![a] = Idle]
        /\ jobs' = [jobs EXCEPT ![call[a].e] = @ + 1]
        /\ UNCHANGED <<entry, rev, sealed, calls, faults, history>>
    BY DEF Schedule, Return, Continue
  <1>3. call[a].op = "transition" /\ call[a].e \in EntryId
    BY <1>1 DEF ShapeOf
  <1>4. call' \in [Actor -> Call] /\ Shapes' /\ call'[a] = Idle /\ Moves(a)
    BY <1>2, Records, CallMoves
  <1> QED BY <1>1, <1>2, <1>3, <1>4

\* A call is cut short.
LEMMA InterruptFacts ==
  ASSUME Sound, NEW a \in Actor, Interrupt(a)
  PROVE  /\ call' \in [Actor -> Call] /\ Shapes' /\ Moves(a)
         /\ call'[a] = Idle
         /\ faults' \in 0..MaxFaults
         /\ interrupted' = interrupted \cup ({call[a].e} \ {None})
         /\ UNCHANGED <<entry, rev, jobs, sealed, calls, acked, stale>>
  <1>1. /\ call' = [call EXCEPT ![a] = Idle]
        /\ faults < MaxFaults /\ faults' = faults + 1
        /\ interrupted' = interrupted \cup ({call[a].e} \ {None})
        /\ UNCHANGED <<entry, rev, jobs, sealed, calls, acked, stale>>
    BY DEF Interrupt, store
  <1>2. faults' \in 0..MaxFaults
    BY <1>1, ContentConstants DEF Sound, TypeOK
  <1>3. call' \in [Actor -> Call] /\ Shapes' /\ call'[a] = Idle /\ Moves(a)
    BY <1>1, Records, CallMoves
  <1> QED BY <1>1, <1>2, <1>3

\* A publish job that finds its entry scheduled always goes on to publish it.
LEMMA JobFacts ==
  ASSUME Sound, NEW a \in Actor, NEW e \in EntryId, RunPublishJob(a, e)
  PROVE  /\ call' \in [Actor -> Call] /\ Shapes' /\ Moves(a)
         /\ call[a] = Idle /\ jobs[e] > 0
         /\ call'[a] = Idle \/ (/\ call'[a].op = "job" /\ call'[a].at = "put"
                                /\ call'[a].e = e /\ call'[a].base = entry[e])
         /\ entry[e].status = "scheduled" => call'[a] # Idle
         /\ jobs' = [jobs EXCEPT ![e] = @ - 1]
         /\ UNCHANGED <<entry, rev, sealed, calls, faults, history>>
  <1> DEFINE d == [entry[e] EXCEPT !.status = "published"]
             w == Writing("job", "put", e, d)
  <1>1. TypeOK /\ entry[e] \in EntryDoc
    BY DEF Sound, TypeOK
  <1>2. /\ call[a] = Idle /\ jobs[e] > 0
        /\ call' = [call EXCEPT ![a] = IF MayMove(e, "published") THEN w ELSE Idle]
        /\ jobs' = [jobs EXCEPT ![e] = @ - 1]
        /\ UNCHANGED <<entry, rev, sealed, calls, faults, history>>
    BY DEF RunPublishJob, Continue, Return
  <1>3. entry[e].current \in Version
    BY <1>2 DEF Sound, Grounded
  <1>4. /\ d \in EntryDoc /\ d.status = "published" /\ d.current = entry[e].current
        /\ d.system = entry[e].system
    BY <1>1 DEF EntryDoc, Statuses
  <1> HIDE DEF d
  <1>5. w \in Call /\ w.op = "job" /\ w.at = "put" /\ w.e = e /\ w.base = entry[e] /\ w.doc = d
    BY <1>1, <1>4, WritingFields
  <1> HIDE DEF w
  <1>6. ShapeOf(w) /\ w # Idle
    BY <1>3, <1>4, <1>5 DEF ShapeOf, Writes, Idle
  <1>7. entry[e].status = "scheduled" => MayMove(e, "published")
    BY DEF MayMove, IsAllowedTransition
  <1>8. CASE MayMove(e, "published")
    <2>1. call' = [call EXCEPT ![a] = w]
      BY <1>2, <1>8
    <2>2. call' \in [Actor -> Call] /\ Shapes' /\ call'[a] = w /\ Moves(a)
      BY <2>1, <1>5, <1>6, CallMoves
    <2> QED BY <1>2, <1>5, <1>6, <2>2
  <1>9. CASE ~MayMove(e, "published")
    <2>1. call' = [call EXCEPT ![a] = Idle]
      BY <1>2, <1>9
    <2>2. call' \in [Actor -> Call] /\ Shapes' /\ call'[a] = Idle /\ Moves(a)
      BY <2>1, Records, CallMoves
    <2> QED BY <1>2, <1>7, <1>9, <2>2
  <1> QED BY <1>8, <1>9

-----------------------------------------------------------------------------
\* Every step is quiet, writes a document, runs a job or cuts a call short.
LEMMA Steps ==
  ASSUME Sound, Next
  PROVE  \/ \E a \in Actor : (\E c : Quiet(a, c)) \/ CreatePut(a) \/ CreateRevision(a)
                            \/ AddRevision(a) \/ PutEntry(a) \/ Schedule(a) \/ Interrupt(a)
         \/ \E a \in Actor, e \in EntryId : RunPublishJob(a, e)
  <1>1. CASE \E a \in Actor : Calls(a)
    <2> PICK a \in Actor : Calls(a)
      BY <1>1
    <2> QED BY QuietCreate, QuietSaveRead, QuietRestoreRead, QuietTransition, QuietEnsure DEF Calls
  <1>2. CASE \E a \in Actor : Step(a)
    <2> PICK a \in Actor : Step(a)
      BY <1>2
    <2> QED BY QuietProtect, QuietRestoreSource, QuietEnsureAdopt, QuietEnsureCreate,
               QuietEnsureDone DEF Step
  <1>3. CASE \E a \in Actor : Interrupt(a)
    BY <1>3
  <1>4. CASE \E e \in EntryId : RunJob(e)
    BY <1>4 DEF RunJob
  <1> QED BY <1>1, <1>2, <1>3, <1>4 DEF Next

\* Sound holds of the empty store,
LEMMA SoundInit == Init => Sound
  <1> SUFFICES ASSUME Init PROVE Sound
    OBVIOUS
  <1>1. TypeOK
    BY Records, ContentConstants DEF Init, TypeOK
  <1>2. \A a \in Actor : call[a] = Idle
    BY DEF Init
  <1>3. Shapes
    BY <1>2, Records DEF Shapes
  <1>4. Grounded
    BY <1>2 DEF Init, Grounded, Idle
  <1> QED BY <1>1, <1>3, <1>4 DEF Sound

\* and every step of the content service preserves it.
LEMMA SoundStep ==
  ASSUME Sound, [Next]_vars
  PROVE  Sound'
  <1> USE DEF Sound
  <1>1. /\ entry \in [EntryId -> EntryDoc] /\ rev \in [EntryId -> [Version -> RevisionDoc]]
        /\ jobs \in [EntryId -> Nat] /\ 1 \in Version
    BY ContentConstants DEF TypeOK, Version
  <1>2. CASE \E a \in Actor : \E c : Quiet(a, c)
    <2> PICK a \in Actor : \E c : Quiet(a, c)
      BY <1>2
    <2> PICK c : Quiet(a, c)
      OBVIOUS
    <2>1. call' \in [Actor -> Call] /\ Shapes' /\ call'[a] = c /\ Moves(a)
      BY CallMoves DEF Quiet
    <2>2. TypeOK'
      BY <2>1 DEF Quiet, TypeOK, history
    <2>3. Grounded'
      BY <2>1 DEF Quiet, Moves, Grounded
    <2> QED BY <2>1, <2>2, <2>3
  <1>3. ASSUME NEW a \in Actor, CreatePut(a) PROVE Sound'
    <2>1. /\ call' \in [Actor -> Call] /\ Shapes' /\ Moves(a)
          /\ Creates(call[a]) /\ call'[a].at = "createRevision" /\ call[a].doc \in EntryDoc
          /\ entry' = [entry EXCEPT ![call[a].e] = call[a].doc]
          /\ UNCHANGED <<rev, jobs, sealed, calls, faults, history>>
      BY <1>3, CreatePutFacts
    <2>2. call[a].e \in EntryId /\ call[a].doc.current \in Version /\ call[a].doc # NoEntry
      BY <2>1, <1>1 DEF Creates, NoEntry
    <2>3. entry' \in [EntryId -> EntryDoc]
      BY <1>1, <2>1, <2>2
    <2>4. TypeOK'
      BY <2>1, <2>3 DEF TypeOK, history
    <2>5. Grounded'
      BY <1>1, <2>1, <2>2 DEF Moves, Grounded
    <2> QED BY <2>1, <2>4, <2>5
  <1>4. ASSUME NEW a \in Actor, CreateRevision(a) PROVE Sound'
    <2>1. /\ call' \in [Actor -> Call] /\ Shapes' /\ Moves(a)
          /\ Creates(call[a]) /\ call'[a].at \in {"none", "next"}
          /\ call[a].content \in RevisionDoc
          /\ rev' = [rev EXCEPT ![call[a].e] = [@ EXCEPT ![1] = call[a].content]]
          /\ acked' = acked \cup {<<call[a].e, 1>>}
          /\ UNCHANGED <<entry, jobs, sealed, calls, faults, stale, interrupted>>
      BY <1>4, CreateRevisionFacts
    <2>2. call[a].e \in EntryId /\ call[a].content.body \in Body
      BY <2>1 DEF Creates
    <2>3. rev' \in [EntryId -> [Version -> RevisionDoc]] /\ acked' \subseteq EntryId \X Version
      BY <1>1, <2>1, <2>2 DEF TypeOK
    <2>4. TypeOK'
      BY <2>1, <2>3 DEF TypeOK
    <2>5. Grounded'
      BY <1>1, <2>1, <2>2 DEF Moves, Grounded
    <2> QED BY <2>1, <2>4, <2>5
  <1>5. ASSUME NEW a \in Actor, AddRevision(a) PROVE Sound'
    <2>1. /\ call' \in [Actor -> Call] /\ Shapes' /\ Moves(a)
          /\ Writes(call[a]) /\ Advances(call[a]) /\ call[a].content.body \in Body
          /\ call'[a].at = "put" /\ call[a].content \in RevisionDoc
          /\ rev' = [rev EXCEPT ![call[a].e] = [@ EXCEPT ![call[a].version] = call[a].content]]
          /\ stale' = stale \cup Outdated(a)
          /\ UNCHANGED <<entry, jobs, sealed, calls, faults, acked, interrupted>>
      BY <1>5, AddRevisionFacts
    <2>2. call[a].e \in EntryId /\ call[a].version \in Version
      BY <2>1 DEF Writes, Advances
    <2>3. rev' \in [EntryId -> [Version -> RevisionDoc]] /\ stale' \subseteq EntryId
      BY <1>1, <2>1, <2>2 DEF TypeOK, Outdated
    <2>4. TypeOK'
      BY <2>1, <2>3 DEF TypeOK
    <2>5. Grounded'
      BY <1>1, <2>1, <2>2 DEF Moves, Grounded
    <2> QED BY <2>1, <2>4, <2>5
  <1>6. ASSUME NEW a \in Actor, PutEntry(a) PROVE Sound'
    <2>1. /\ call' \in [Actor -> Call] /\ Shapes' /\ Moves(a)
          /\ Writes(call[a]) /\ call[a].doc \in EntryDoc /\ call[a].doc.current \in Version
          /\ call[a].op \in {"save", "restore"} => Advances(call[a])
          /\ call'[a].at = "schedule" => call'[a].e = call[a].e
          /\ entry' = [entry EXCEPT ![call[a].e] = call[a].doc]
          /\ stale' = stale \cup Outdated(a)
          /\ acked' = IF call[a].op \in {"save", "restore"}
                      THEN acked \cup {<<call[a].e, call[a].version>>} ELSE acked
          /\ UNCHANGED <<rev, jobs, sealed, calls, faults, interrupted>>
      BY <1>6, PutEntryFacts
    <2>2. call[a].e \in EntryId /\ call[a].doc # NoEntry
      BY <2>1 DEF Writes, Version, NoEntry
    <2>3. entry' \in [EntryId -> EntryDoc] /\ stale' \subseteq EntryId
      BY <1>1, <2>1, <2>2 DEF TypeOK, Outdated
    <2>4. acked' \subseteq EntryId \X Version
      BY <2>1, <2>2 DEF TypeOK, Advances
    <2>5. TypeOK'
      BY <2>1, <2>3, <2>4 DEF TypeOK
    <2>6. Grounded'
      BY <1>1, <2>1, <2>2 DEF Moves, Grounded
    <2> QED BY <2>1, <2>5, <2>6
  <1>7. ASSUME NEW a \in Actor, Schedule(a) PROVE Sound'
    <2>1. /\ call' \in [Actor -> Call] /\ Shapes' /\ Moves(a)
          /\ call[a].at = "schedule" /\ call[a].e \in EntryId /\ call'[a] = Idle
          /\ jobs' = [jobs EXCEPT ![call[a].e] = @ + 1]
          /\ UNCHANGED <<entry, rev, sealed, calls, faults, history>>
      BY <1>7, ScheduleFacts
    <2>2. jobs' \in [EntryId -> Nat]
      BY <1>1, <2>1
    <2>3. TypeOK'
      BY <2>1, <2>2 DEF TypeOK, history
    <2>4. entry[call[a].e] # NoEntry
      BY <2>1 DEF Grounded
    <2>5. \A e \in EntryId : jobs'[e] = jobs[e] \/ e = call[a].e
      BY <1>1, <2>1
    <2>6. \A e \in EntryId : jobs'[e] > 0 => entry[e] # NoEntry
      BY <2>4, <2>5 DEF Grounded
    <2>7. \A b \in Actor : call'[b].at = "schedule" => call'[b] = call[b]
      BY <2>1 DEF Moves, Idle
    <2>8. Grounded'
      BY <2>1, <2>6, <2>7 DEF Grounded
    <2> QED BY <2>1, <2>3, <2>8
  <1>8. ASSUME NEW a \in Actor, Interrupt(a) PROVE Sound'
    <2>1. /\ call' \in [Actor -> Call] /\ Shapes' /\ Moves(a)
          /\ call'[a] = Idle /\ faults' \in 0..MaxFaults
          /\ interrupted' = interrupted \cup ({call[a].e} \ {None})
          /\ UNCHANGED <<entry, rev, jobs, sealed, calls, acked, stale>>
      BY <1>8, InterruptFacts
    <2>2. call[a].e \in EntryId \cup {None}
      BY DEF TypeOK, Call
    <2>3. TypeOK'
      BY <2>1, <2>2 DEF TypeOK
    <2>4. Grounded'
      BY <1>1, <2>1 DEF Moves, Grounded, Idle
    <2> QED BY <2>1, <2>3, <2>4
  <1>9. ASSUME NEW a \in Actor, NEW e \in EntryId, RunPublishJob(a, e) PROVE Sound'
    <2>1. /\ call' \in [Actor -> Call] /\ Shapes' /\ Moves(a)
          /\ jobs[e] > 0
          /\ call'[a] = Idle \/ call'[a].at = "put"
          /\ jobs' = [jobs EXCEPT ![e] = @ - 1]
          /\ UNCHANGED <<entry, rev, sealed, calls, faults, history>>
      BY <1>9, JobFacts
    <2>2. jobs' \in [EntryId -> Nat]
      BY <1>1, <2>1
    <2>3. TypeOK'
      BY <2>1, <2>2 DEF TypeOK, history
    <2>4. Grounded'
      BY <1>1, <2>1 DEF Moves, Grounded, Idle
    <2> QED BY <2>1, <2>3, <2>4
  <1>10. CASE UNCHANGED vars
    BY <1>10 DEF vars, store, history, TypeOK, Shapes, ShapeOf, Creates, Writes, Advances, Grounded
  <1> QED BY <1>2, <1>3, <1>4, <1>5, <1>6, <1>7, <1>8, <1>9, <1>10, Steps

\* Type correctness of the content service: whatever calls interleave or are cut
\* short, every document that is written back from a copy is well formed, and no
\* job count falls below zero.
THEOREM ContentTypeCorrect == Spec => []TypeOK
  <1>1. Sound /\ [Next]_vars => Sound'
    BY SoundStep
  <1>2. Sound => TypeOK
    BY DEF Sound
  <1> QED BY SoundInit, <1>1, <1>2, PTL DEF Spec

-----------------------------------------------------------------------------
\* Scheduled entries.

\* With Sound, every step preserves ScheduledHasJob.
LEMMA ScheduledStep ==
  ASSUME Sound, ScheduledHasJob, [Next]_vars
  PROVE  ScheduledHasJob'
  <1>1. /\ entry \in [EntryId -> EntryDoc] /\ jobs \in [EntryId -> Nat] /\ None \notin EntryId
        /\ call \in [Actor -> Call]
    BY ContentConstants DEF Sound, TypeOK
  <1>2. \A b \in Actor : call[b].op = "job" => call[b].at = "put"
    BY DEF Sound, Shapes, ShapeOf
  <1>3. CASE \E a \in Actor : \E c : Quiet(a, c)
    <2> PICK a \in Actor : \E c : Quiet(a, c)
      BY <1>3
    <2> PICK c : Quiet(a, c)
      OBVIOUS
    <2>1. Moves(a) /\ call[a].at \in {"none", "prior", "next"}
          /\ UNCHANGED <<entry, jobs, stale, interrupted>>
      BY CallMoves DEF Quiet, history
    <2> QED BY <1>2, <2>1 DEF Moves, ScheduledHasJob
  <1>4. ASSUME NEW a \in Actor, CreatePut(a) PROVE ScheduledHasJob'
    <2>1. /\ Moves(a) /\ Creates(call[a]) /\ call[a].at = "createPut"
          /\ entry' = [entry EXCEPT ![call[a].e] = call[a].doc]
          /\ UNCHANGED <<jobs, stale, interrupted>>
      BY <1>4, CreatePutFacts DEF history
    <2>2. \A e \in EntryId : entry'[e] = entry[e] \/ entry'[e].status # "scheduled"
      BY <1>1, <2>1 DEF Creates
    <2> QED BY <1>2, <2>1, <2>2 DEF Moves, ScheduledHasJob
  <1>5. ASSUME NEW a \in Actor, CreateRevision(a) PROVE ScheduledHasJob'
    <2>1. /\ Moves(a) /\ call[a].at = "createRevision"
          /\ UNCHANGED <<entry, jobs, stale, interrupted>>
      BY <1>5, CreateRevisionFacts
    <2> QED BY <1>2, <2>1 DEF Moves, ScheduledHasJob
  <1>6. ASSUME NEW a \in Actor, AddRevision(a) PROVE ScheduledHasJob'
    <2>1. /\ Moves(a) /\ call[a].at = "revision"
          /\ stale' = stale \cup Outdated(a)
          /\ UNCHANGED <<entry, jobs, interrupted>>
      BY <1>6, AddRevisionFacts
    <2> QED BY <1>2, <2>1 DEF Moves, ScheduledHasJob
  <1>7. ASSUME NEW a \in Actor, PutEntry(a) PROVE ScheduledHasJob'
    <2>1. /\ Moves(a) /\ call[a].at = "put" /\ Writes(call[a])
          /\ call'[a].at = "schedule" => call'[a].e = call[a].e
          /\ (call[a].op = "transition" /\ call[a].doc.status = "scheduled") => call'[a].at = "schedule"
          /\ entry' = [entry EXCEPT ![call[a].e] = call[a].doc]
          /\ stale' = stale \cup Outdated(a)
          /\ UNCHANGED <<jobs, interrupted>>
      BY <1>7, PutEntryFacts
    <2> SUFFICES ASSUME NEW e \in EntryId, e \notin stale' \cup interrupted',
                        entry'[e].status = "scheduled"
                 PROVE  \/ jobs'[e] > 0
                        \/ \E b \in Actor : call'[b].e = e /\ (call'[b].at = "schedule" \/ call'[b].op = "job")
      BY DEF ScheduledHasJob
    <2>2. CASE e # call[a].e
      <3>1. entry'[e] = entry[e]
        BY <1>1, <2>1, <2>2
      <3>2. jobs[e] > 0 \/ \E b \in Actor : call[b].e = e /\ (call[b].at = "schedule" \/ call[b].op = "job")
        BY <2>1, <3>1 DEF ScheduledHasJob
      <3> QED BY <2>1, <2>2, <3>2 DEF Moves
    <2>3. CASE e = call[a].e
      <3>1. entry'[e] = call[a].doc /\ call[a].base = entry[e] /\ e \notin stale
        BY <1>1, <2>1, <2>3 DEF Outdated
      <3>2. CASE call[a].op = "transition"
        BY <2>1, <2>3, <3>1, <3>2
      <3>3. CASE call[a].op # "transition"
        <4>1. call[a].op # "job" /\ entry[e].status = "scheduled"
          BY <2>1, <3>1, <3>3 DEF Writes
        <4>2. jobs[e] > 0 \/ \E b \in Actor : call[b].e = e /\ (call[b].at = "schedule" \/ call[b].op = "job")
          BY <2>1, <3>1, <4>1 DEF ScheduledHasJob
        <4> QED BY <2>1, <4>1, <4>2 DEF Moves
      <3> QED BY <3>2, <3>3
    <2> QED BY <2>2, <2>3
  <1>8. ASSUME NEW a \in Actor, Schedule(a) PROVE ScheduledHasJob'
    <2>1. /\ Moves(a) /\ call[a].e \in EntryId
          /\ jobs' = [jobs EXCEPT ![call[a].e] = @ + 1]
          /\ UNCHANGED <<entry, stale, interrupted>>
      BY <1>8, ScheduleFacts DEF history
    <2>2. \A e \in EntryId : IF e = call[a].e THEN jobs'[e] > 0 ELSE jobs'[e] = jobs[e]
      BY <1>1, <2>1
    <2> QED BY <2>1, <2>2 DEF Moves, ScheduledHasJob
  <1>9. ASSUME NEW a \in Actor, Interrupt(a) PROVE ScheduledHasJob'
    <2>1. /\ Moves(a)
          /\ interrupted' = interrupted \cup ({call[a].e} \ {None})
          /\ UNCHANGED <<entry, jobs, stale>>
      BY <1>9, InterruptFacts
    <2>2. \A e \in EntryId : e \notin interrupted' => e # call[a].e /\ e \notin interrupted
      BY <1>1, <2>1
    <2> QED BY <2>1, <2>2 DEF Moves, ScheduledHasJob
  <1>10. ASSUME NEW a \in Actor, NEW e \in EntryId, RunPublishJob(a, e) PROVE ScheduledHasJob'
    <2>1. /\ Moves(a) /\ call[a] = Idle
          /\ call'[a] = Idle \/ (call'[a].op = "job" /\ call'[a].e = e)
          /\ entry[e].status = "scheduled" => call'[a] # Idle
          /\ jobs' = [jobs EXCEPT ![e] = @ - 1]
          /\ UNCHANGED <<entry, stale, interrupted>>
      BY <1>10, JobFacts DEF history
    <2>2. \A f \in EntryId \ {e} : jobs'[f] = jobs[f]
      BY <1>1, <2>1
    <2>3. call[a].e = None
      BY <2>1 DEF Idle
    <2> SUFFICES ASSUME NEW f \in EntryId, f \notin stale \cup interrupted,
                        entry[f].status = "scheduled"
                 PROVE  \/ jobs'[f] > 0
                        \/ \E b \in Actor : call'[b].e = f /\ (call'[b].at = "schedule" \/ call'[b].op = "job")
      BY <2>1 DEF ScheduledHasJob
    <2>4. CASE f = e
      BY <2>1, <2>4
    <2>5. CASE f # e
      <3>1. jobs[f] > 0 \/ \E b \in Actor : call[b].e = f /\ (call[b].at = "schedule" \/ call[b].op = "job")
        BY DEF ScheduledHasJob
      <3> QED BY <1>1, <2>1, <2>2, <2>3, <2>5, <3>1 DEF Moves
    <2> QED BY <2>4, <2>5
  <1>11. CASE UNCHANGED vars
    BY <1>11 DEF vars, store, history, ScheduledHasJob
  <1> QED BY <1>3, <1>4, <1>5, <1>6, <1>7, <1>8, <1>9, <1>10, <1>11, Steps

\* Every scheduled entry has a job to publish it, queued, running or about to be
\* queued, for any number of concurrent calls, entries, jobs and revisions:
\* among undisturbed calls no interleaving of transition with the publish job
\* and with saves loses the publication.
THEOREM ScheduledEntriesHaveJobs == Spec => []ScheduledHasJob
  <1>1. Init => ScheduledHasJob
    BY DEF Init, ScheduledHasJob, NoEntry
  <1>2. Sound /\ [Next]_vars => Sound'
    BY SoundStep
  <1>3. Sound /\ ScheduledHasJob /\ [Next]_vars => ScheduledHasJob'
    BY ScheduledStep
  <1> QED BY SoundInit, <1>1, <1>2, <1>3, PTL DEF Spec

-----------------------------------------------------------------------------
\* The revision history.  HistoryComplete says nothing of the copies that
\* running calls will write back, so by itself it is not inductive.

\* Every version after the first that the entry, or a running call's copy of
\* it, counts is stored, and so is the one the call is about to count.
LaterStored ==
    \A e \in EntryId, v \in Version : v > 1 /\ v <= entry[e].current => rev[e][v] # NoRevision

CopiesStored ==
    \A a \in Actor, v \in Version :
        call[a].at \in {"prior", "revision", "put"} /\ v > 1 /\ v <= call[a].base.current
        => rev[call[a].e][v] # NoRevision

NextStored ==
    \A a \in Actor :
        call[a].at = "put" /\ call[a].op \in {"save", "restore"}
        => rev[call[a].e][call[a].version] # NoRevision

FirstStored ==
    \A e \in EntryId :
        entry[e] # NoEntry /\ rev[e][1] = NoRevision
        => e \in interrupted \/ \E a \in Actor : call[a].e = e /\ call[a].at = "createRevision"

\* A call writes back only an entry that exists: none is ever deleted.
CopiesExist ==
    \A a \in Actor : call[a].at \in {"prior", "revision", "put"} => entry[call[a].e] # NoEntry

HInv == LaterStored /\ CopiesStored /\ NextStored /\ FirstStored /\ CopiesExist

\* Every step of the content service preserves it.
LEMMA HInvStep ==
  ASSUME Sound, HInv, [Next]_vars
  PROVE  HInv'
  <1> USE DEF HInv
  <1>1. /\ entry \in [EntryId -> EntryDoc] /\ rev \in [EntryId -> [Version -> RevisionDoc]]
        /\ 1 \in Version /\ None \notin EntryId
    BY ContentConstants DEF Sound, TypeOK, Version
  <1>2. \A r : r.body \in Body => r # NoRevision
    BY ContentConstants DEF NoRevision
  <1>3. \A b \in Actor : call[b].at \in {"prior", "revision", "put"} => call[b].e \in EntryId
    BY DEF Sound, Shapes, ShapeOf, Writes
  <1>0. \A d : d.current \in Version => d # NoEntry
    BY DEF NoEntry, Version
  <1>4. CASE \E a \in Actor : \E c : Quiet(a, c)
    <2> PICK a \in Actor : \E c : Quiet(a, c)
      BY <1>4
    <2> PICK c : Quiet(a, c)
      OBVIOUS
    <2>1. /\ Moves(a) /\ call'[a] = c
          /\ call[a].at \in {"none", "prior", "next"}
          /\ UNCHANGED <<entry, rev, interrupted>>
      BY CallMoves DEF Quiet, history
    <2>2. c.at \in {"prior", "revision", "put"} => c.e \in EntryId
      BY DEF Quiet, ShapeOf, Writes
    <2>3. LaterStored'
      BY <2>1 DEF LaterStored
    <2>4. CopiesStored'
      <3>1. \A v \in Version : c.at \in {"prior", "revision", "put"} /\ v > 1 /\ v <= c.base.current
                               => rev[c.e][v] # NoRevision
        BY <2>2 DEF Quiet, LaterStored, CopiesStored
      <3> QED BY <2>1, <3>1 DEF Moves, CopiesStored
    <2>5. NextStored'
      BY <2>1 DEF Quiet, Moves, NextStored
    <2>6. FirstStored'
      BY <2>1 DEF Moves, FirstStored
    <2>7. CopiesExist'
      <3>1. c.at \in {"prior", "revision", "put"} => entry[c.e] # NoEntry
        BY <1>0 DEF Quiet, ShapeOf, Writes, CopiesExist
      <3> QED BY <2>1, <3>1 DEF Moves, CopiesExist
    <2> QED BY <2>3, <2>4, <2>5, <2>6, <2>7
  <1>5. ASSUME NEW a \in Actor, CreatePut(a) PROVE HInv'
    <2>1. /\ Moves(a) /\ Creates(call[a]) /\ call[a].at = "createPut"
          /\ call'[a].at = "createRevision" /\ call'[a].e = call[a].e
          /\ entry' = [entry EXCEPT ![call[a].e] = call[a].doc]
          /\ UNCHANGED <<rev, interrupted>>
      BY <1>5, CreatePutFacts DEF history
    <2>2. \A e \in EntryId : entry'[e] = entry[e] \/ (e = call[a].e /\ entry'[e].current = 1)
      BY <1>1, <2>1 DEF Creates
    <2>3. LaterStored'
      BY <2>1, <2>2 DEF LaterStored, Version
    <2>4. CopiesStored' /\ NextStored'
      BY <2>1 DEF Moves, CopiesStored, NextStored
    <2>5. FirstStored'
      BY <2>1, <2>2 DEF Moves, FirstStored
    <2>6. CopiesExist'
      <3>1. \A e \in EntryId : entry[e] # NoEntry => entry'[e] # NoEntry
        BY <1>0, <1>1, <2>2
      <3> QED BY <1>3, <2>1, <3>1 DEF Moves, CopiesExist
    <2> QED BY <2>3, <2>4, <2>5, <2>6
  <1>6. ASSUME NEW a \in Actor, CreateRevision(a) PROVE HInv'
    <2>1. /\ Moves(a) /\ Creates(call[a]) /\ call[a].at = "createRevision"
          /\ call'[a].at \in {"none", "next"}
          /\ rev' = [rev EXCEPT ![call[a].e] = [@ EXCEPT ![1] = call[a].content]]
          /\ UNCHANGED <<entry, interrupted>>
      BY <1>6, CreateRevisionFacts
    <2>2. call[a].e \in EntryId /\ call[a].content # NoRevision
      BY <1>2, <2>1 DEF Creates
    <2>3. /\ \A e \in EntryId, v \in Version : rev[e][v] # NoRevision => rev'[e][v] # NoRevision
          /\ rev'[call[a].e][1] # NoRevision
      BY <1>1, <2>1, <2>2
    <2>4. LaterStored'
      BY <2>1, <2>3 DEF LaterStored
    <2>5. CopiesStored'
      BY <1>3, <2>1, <2>3 DEF Moves, CopiesStored
    <2>6. NextStored'
      <3>1. \A b \in Actor : call[b].at = "put" /\ call[b].op \in {"save", "restore"}
                             => call[b].version \in Version
        BY DEF Sound, Shapes, ShapeOf, Advances
      <3> QED BY <1>3, <2>1, <2>3, <3>1 DEF Moves, NextStored
    <2>7. FirstStored'
      BY <1>1, <2>1, <2>3 DEF Moves, FirstStored
    <2>8. CopiesExist'
      BY <2>1 DEF Moves, CopiesExist
    <2> QED BY <2>4, <2>5, <2>6, <2>7, <2>8
  <1>7. ASSUME NEW a \in Actor, AddRevision(a) PROVE HInv'
    <2>1. /\ Moves(a) /\ Writes(call[a]) /\ Advances(call[a]) /\ call[a].content.body \in Body
          /\ call[a].at = "revision" /\ call'[a].at = "put"
          /\ call'[a].e = call[a].e /\ call'[a].base = call[a].base
          /\ call'[a].version = call[a].version
          /\ rev' = [rev EXCEPT ![call[a].e] = [@ EXCEPT ![call[a].version] = call[a].content]]
          /\ UNCHANGED <<entry, interrupted>>
      BY <1>7, AddRevisionFacts
    <2>2. call[a].e \in EntryId /\ call[a].version \in Version /\ call[a].content # NoRevision
      BY <1>2, <2>1 DEF Writes, Advances
    <2>3. /\ \A e \in EntryId, v \in Version : rev[e][v] # NoRevision => rev'[e][v] # NoRevision
          /\ rev'[call[a].e][call[a].version] # NoRevision
      BY <1>1, <2>1, <2>2
    <2>4. LaterStored'
      BY <2>1, <2>3 DEF LaterStored
    <2>5. CopiesStored'
      BY <1>3, <2>1, <2>3 DEF Moves, CopiesStored
    <2>6. NextStored'
      <3>1. \A b \in Actor : call[b].at = "put" /\ call[b].op \in {"save", "restore"}
                             => call[b].version \in Version
        BY DEF Sound, Shapes, ShapeOf, Advances
      <3> QED BY <1>3, <2>1, <2>3, <3>1 DEF Moves, NextStored
    <2>7. FirstStored'
      BY <1>1, <2>1, <2>3 DEF Moves, FirstStored
    <2>8. CopiesExist'
      BY <2>1 DEF Moves, CopiesExist
    <2> QED BY <2>4, <2>5, <2>6, <2>7, <2>8
  <1>8. ASSUME NEW a \in Actor, PutEntry(a) PROVE HInv'
    <2>1. /\ Moves(a) /\ call[a].at = "put" /\ Writes(call[a])
          /\ Advances(call[a]) \/ call[a].doc.current = call[a].base.current
          /\ call[a].doc.current \in Version
          /\ call'[a].at \in {"none", "next", "schedule"}
          /\ entry' = [entry EXCEPT ![call[a].e] = call[a].doc]
          /\ UNCHANGED <<rev, interrupted>>
      BY <1>8, PutEntryFacts
    <2>2. \A v \in Version : v > 1 /\ v <= call[a].doc.current => rev[call[a].e][v] # NoRevision
      BY <2>1 DEF CopiesStored, NextStored, Advances, Writes, Version
    <2>3. LaterStored'
      BY <1>1, <2>1, <2>2 DEF LaterStored, Writes
    <2>4. CopiesStored' /\ NextStored'
      BY <2>1 DEF Moves, CopiesStored, NextStored
    <2>5. FirstStored'
      <3>1. \A e \in EntryId : entry'[e] # NoEntry => entry[e] # NoEntry
        BY <1>1, <2>1 DEF CopiesExist
      <3> QED BY <2>1, <3>1 DEF Moves, FirstStored
    <2>6. CopiesExist'
      <3>1. \A e \in EntryId : entry[e] # NoEntry => entry'[e] # NoEntry
        BY <1>0, <1>1, <2>1
      <3> QED BY <1>3, <2>1, <3>1 DEF Moves, CopiesExist
    <2> QED BY <2>3, <2>4, <2>5, <2>6
  <1>9. ASSUME NEW a \in Actor, Schedule(a) PROVE HInv'
    <2>1. /\ Moves(a) /\ call[a].at = "schedule" /\ call'[a].at = "none"
          /\ UNCHANGED <<entry, rev, interrupted>>
      BY <1>9, ScheduleFacts DEF history, Idle
    <2> QED BY <2>1 DEF Moves, LaterStored, CopiesStored, NextStored, FirstStored, CopiesExist
  <1>10. ASSUME NEW a \in Actor, Interrupt(a) PROVE HInv'
    <2>1. /\ Moves(a) /\ call'[a].at = "none"
          /\ interrupted' = interrupted \cup ({call[a].e} \ {None})
          /\ UNCHANGED <<entry, rev>>
      BY <1>10, InterruptFacts DEF Idle
    <2> QED BY <1>1, <2>1 DEF Moves, LaterStored, CopiesStored, NextStored, FirstStored, CopiesExist
  <1>11. ASSUME NEW a \in Actor, NEW e \in EntryId, RunPublishJob(a, e) PROVE HInv'
    <2>1. /\ Moves(a) /\ call[a].at = "none"
          /\ call'[a].at = "none" \/ (call'[a].op = "job" /\ call'[a].at = "put"
                                       /\ call'[a].e = e /\ call'[a].base = entry[e])
          /\ jobs[e] > 0
          /\ UNCHANGED <<entry, rev, interrupted>>
      BY <1>11, JobFacts DEF history, Idle
    <2>2. CopiesStored'
      BY <2>1 DEF Moves, LaterStored, CopiesStored
    <2>3. CopiesExist'
      BY <2>1 DEF Moves, Sound, Grounded, CopiesExist
    <2> QED BY <2>1, <2>2, <2>3 DEF Moves, LaterStored, NextStored, FirstStored
  <1>12. CASE UNCHANGED vars
    BY <1>12 DEF vars, store, history, LaterStored, CopiesStored, NextStored, FirstStored, CopiesExist
  <1> QED BY <1>4, <1>5, <1>6, <1>7, <1>8, <1>9, <1>10, <1>11, <1>12, Steps

\* The revision history of an entry has no gap, for any number of concurrent
\* saves, restores, transitions and interruptions, although a revision and the
\* entry that counts it are stored by two writes and every call works on a copy.
THEOREM HistoryIsComplete == Spec => []HistoryComplete
  <1>1. Init => HInv
    BY DEF Init, HInv, LaterStored, CopiesStored, NextStored, FirstStored, CopiesExist, NoEntry, Idle, Version
  <1>2. Sound /\ [Next]_vars => Sound'
    BY SoundStep
  <1>3. Sound /\ HInv /\ [Next]_vars => HInv'
    BY HInvStep
  <1>4. HInv => HistoryComplete
    BY DEF HInv, LaterStored, FirstStored, HistoryComplete, Entries, Version
  <1> QED BY SoundInit, <1>1, <1>2, <1>3, <1>4, PTL DEF Spec

\* Whatever calls interleave or are cut short, an entry finds beside it the revisions it
\* counts and the job it waits for (content-service.ts saveEntry, transition).
THEOREM EntriesStandBacked == Spec => []EntriesAreBacked
  <1>1. HistoryComplete /\ ScheduledHasJob => EntriesAreBacked
    BY DEF EntriesAreBacked
  <1> QED BY <1>1, HistoryIsComplete, ScheduledEntriesHaveJobs, PTL

-----------------------------------------------------------------------------
\* What is settled stays.  That a kept secret is that of the revision before it
\* is not inductive: it rests on what a running save carries, and on the
\* versions that no call on a fresh copy writes any more.

Creating(c) == c.at \in {"createPut", "createRevision"}

\* An entry that does not exist has no revision.
Untouched ==
    \A e \in EntryId : entry[e] = NoEntry =>
        \A v \in Version : rev[e][v] = NoRevision /\ <<e, v>> \notin acked

\* A creation has its entry to itself until the first revision is stored.
FirstIsNew ==
    \A a \in Actor : Creating(call[a]) =>
        /\ rev[call[a].e][1] = NoRevision /\ <<call[a].e, 1>> \notin acked
        /\ call[a].at = "createPut" <=> entry[call[a].e] = NoEntry
        /\ \A b \in Actor \ {a} : Creating(call[b]) => call[b].e # call[a].e

\* Outside stale, versions only grow, and none is stored beyond the next one.
CopiesBehind ==
    \A a \in Actor : call[a].at \in {"prior", "revision", "put"} /\ call[a].e \notin stale
        => call[a].base.current <= entry[call[a].e].current

NoneAhead ==
    \A e \in EntryId \ stale, v \in Version : v > entry[e].current + 1 => rev[e][v] = NoRevision

AckedCounted ==
    \A e \in EntryId \ stale, v \in Version : <<e, v>> \in acked => v <= entry[e].current

\* A secret that is kept is that of the version before it.
CarriesOn ==
    \A a \in Actor : call[a].at = "revision" /\ call[a].e \notin stale => Carries(call[a])

KeptFollow ==
    \A e \in EntryId \ stale, v \in Version : v > 1 /\ rev[e][v].kept = TRUE
        => rev[e][v - 1] # NoRevision /\ rev[e][v].secret = rev[e][v - 1].secret

SettledInv ==
    /\ Untouched /\ FirstIsNew /\ CopiesBehind
    /\ NoneAhead /\ AckedCounted /\ CarriesOn /\ KeptFollow

\* An entry that a call writes back without making it stale is as the call read it.
LEMMA FreshWrite ==
  ASSUME NEW a \in Actor, stale' = stale \cup Outdated(a), call[a].e \notin stale'
  PROVE  call[a].base = entry[call[a].e] /\ call[a].e \notin stale
  BY DEF Outdated

\* SettledInv is preserved by the reads that start or continue a call.
LEMMA SettledQuiet ==
  ASSUME Sound, HInv, SettledInv, NEW a \in Actor, NEW c, Quiet(a, c)
  PROVE  SettledInv'
  <1>1. /\ Moves(a) /\ call'[a] = c
        /\ UNCHANGED <<entry, rev, acked, stale>>
    BY CallMoves DEF Quiet, history
  <1>2. c.at \in {"prior", "revision", "put"} => c.e \in EntryId
    BY DEF Quiet, ShapeOf, Writes
  <1>3. c.at \in {"createPut", "createRevision"} => c.e \in EntryId
    BY DEF Quiet, ShapeOf, Creates
  <1>4. Untouched' /\ NoneAhead' /\ AckedCounted' /\ KeptFollow'
    BY <1>1 DEF SettledInv, Untouched, NoneAhead, AckedCounted, KeptFollow
  <1>5. FirstIsNew'
    <2>1. CASE Creating(c)
      <3>1. /\ c.at = "createPut" /\ entry[c.e] = NoEntry
            /\ \A b \in Actor : call[b].e # c.e
        BY <1>3, <2>1 DEF Quiet, Creating, Unused, Entries
      <3>2. rev[c.e][1] = NoRevision /\ <<c.e, 1>> \notin acked
        BY <1>3, <2>1, <3>1, ContentConstants DEF SettledInv, Untouched, Version, Creating
      <3> QED BY <1>1, <3>1, <3>2 DEF Moves, SettledInv, FirstIsNew
    <2>2. CASE ~Creating(c)
      BY <1>1, <2>2 DEF Moves, SettledInv, FirstIsNew
    <2> QED BY <2>1, <2>2
  <1>6. CopiesBehind'
    <2>1. c.at \in {"prior", "revision", "put"} /\ c.e \notin stale
          => c.base.current <= entry[c.e].current
      <3>1. CASE c.at \in {"prior", "revision", "put"} /\ c.base = entry[c.e]
        <4>1. c.base.current \in Version
          BY <3>1 DEF Quiet, ShapeOf, Writes
        <4> QED BY <3>1, <4>1 DEF Version
      <3>2. CASE call[a].at = "prior" /\ c.base = call[a].base /\ c.e = call[a].e
        BY <3>2 DEF SettledInv, CopiesBehind
      <3> QED BY <3>1, <3>2 DEF Quiet
    <2> QED BY <1>1, <2>1 DEF Moves, SettledInv, CopiesBehind
  <1>7. CarriesOn'
    <2>1. c.at = "revision" => Carries(c)
      BY DEF Quiet
    <2> QED BY <1>1, <2>1 DEF Moves, SettledInv, CarriesOn, Carries
  <1> QED BY <1>4, <1>5, <1>6, <1>7 DEF SettledInv

\* createEntry and ensureSystemPages store an entry that nobody has read.
LEMMA SettledCreatePut ==
  ASSUME Sound, HInv, SettledInv, NEW a \in Actor, CreatePut(a)
  PROVE  SettledInv'
  <1>1. /\ Moves(a) /\ Creates(call[a]) /\ call[a].at = "createPut"
        /\ call'[a].at = "createRevision" /\ call'[a].e = call[a].e
        /\ entry' = [entry EXCEPT ![call[a].e] = call[a].doc]
        /\ UNCHANGED <<rev, acked, stale>>
    BY CreatePutFacts DEF history
  <1> PICK e : e = call[a].e
    OBVIOUS
  <1>2. e \in EntryId /\ entry[e] = NoEntry /\ entry'[e].current = 1 /\ entry'[e] # NoEntry
    <2>1. e \in EntryId /\ call[a].doc.current = 1
      BY <1>1 DEF Creates
    <2>2. entry[e] = NoEntry
      BY <1>1 DEF SettledInv, FirstIsNew, Creating
    <2>3. entry'[e] = call[a].doc
      BY <1>1, <2>1 DEF Sound, TypeOK
    <2> QED BY <2>1, <2>2, <2>3 DEF NoEntry
  <1>3. \A f \in EntryId : f # e => entry'[f] = entry[f]
    BY <1>1 DEF Sound, TypeOK
  <1>4. \A v \in Version : rev[e][v] = NoRevision /\ <<e, v>> \notin acked
    BY <1>2 DEF SettledInv, Untouched
  <1>5. Untouched' /\ NoneAhead' /\ AckedCounted' /\ KeptFollow'
    <2>1. Untouched'
      BY <1>1, <1>2, <1>3 DEF SettledInv, Untouched
    <2>2. NoneAhead' /\ AckedCounted'
      BY <1>1, <1>3, <1>4 DEF SettledInv, NoneAhead, AckedCounted
    <2>3. KeptFollow'
      BY <1>1 DEF SettledInv, KeptFollow
    <2> QED BY <2>1, <2>2, <2>3
  <1>6. FirstIsNew'
    <2>1. \A b \in Actor : Creating(call[b]) => call[b].e \in EntryId
      BY DEF Sound, Shapes, ShapeOf, Creates, Creating
    <2>2. \A b \in Actor \ {a} : Creating(call[b]) => call[b].e # e
      BY <1>1 DEF SettledInv, FirstIsNew, Creating
    <2> QED BY <1>1, <1>2, <1>3, <2>1, <2>2 DEF Moves, SettledInv, FirstIsNew, Creating
  <1>7. CopiesBehind'
    <2>1. \A b \in Actor : call[b].at \in {"prior", "revision", "put"} => call[b].e \in EntryId /\ call[b].e # e
      BY <1>2 DEF Sound, Shapes, ShapeOf, Writes, HInv, CopiesExist
    <2> QED BY <1>1, <1>3, <2>1 DEF Moves, SettledInv, CopiesBehind
  <1>8. CarriesOn'
    BY <1>1 DEF Moves, SettledInv, CarriesOn, Carries
  <1> QED BY <1>5, <1>6, <1>7, <1>8 DEF SettledInv

\* They store its first revision, which nobody has read or acknowledged.
LEMMA SettledCreateRevision ==
  ASSUME Sound, HInv, SettledInv, NEW a \in Actor, CreateRevision(a)
  PROVE  /\ SettledInv'
         /\ \A e \in EntryId, v \in Version : <<e, v>> \in acked => rev'[e][v] = rev[e][v]
  <1>1. /\ Moves(a) /\ Creates(call[a]) /\ call[a].at = "createRevision"
        /\ call'[a].at \in {"none", "next"}
        /\ rev' = [rev EXCEPT ![call[a].e] = [@ EXCEPT ![1] = call[a].content]]
        /\ acked' = acked \cup {<<call[a].e, 1>>}
        /\ UNCHANGED <<entry, stale>>
    BY CreateRevisionFacts
  <1> PICK e : e = call[a].e
    OBVIOUS
  <1>2. /\ e \in EntryId /\ entry[e] # NoEntry /\ entry[e].current \in Version
        /\ rev[e][1] = NoRevision /\ <<e, 1>> \notin acked
    <2>1. /\ e \in EntryId /\ entry[e] # NoEntry
          /\ rev[e][1] = NoRevision /\ <<e, 1>> \notin acked
      BY <1>1 DEF Creates, SettledInv, FirstIsNew, Creating
    <2> QED BY <2>1 DEF Sound, Grounded
  <1>3. /\ \A f \in EntryId, v \in Version : (f # e \/ v # 1) => rev'[f][v] = rev[f][v]
        /\ 1 \in Version
    BY <1>1, ContentConstants DEF Sound, TypeOK, Version
  <1>4. \A f \in EntryId, v \in Version : <<f, v>> \in acked' => <<f, v>> \in acked \/ (f = e /\ v = 1)
    BY <1>1
  <1>5. Untouched'
    BY <1>1, <1>2, <1>3, <1>4 DEF SettledInv, Untouched
  <1>6. FirstIsNew'
    <2>1. \A b \in Actor : Creating(call[b]) => call[b].e \in EntryId
      BY DEF Sound, Shapes, ShapeOf, Creates, Creating
    <2>2. \A b \in Actor \ {a} : Creating(call[b]) => call[b].e # e
      BY <1>1 DEF SettledInv, FirstIsNew, Creating
    <2> QED BY <1>1, <1>3, <1>4, <2>1, <2>2 DEF Moves, SettledInv, FirstIsNew, Creating
  <1>7. CopiesBehind'
    BY <1>1 DEF Moves, SettledInv, CopiesBehind
  <1>8. NoneAhead' /\ AckedCounted'
    BY <1>1, <1>2, <1>3, <1>4 DEF SettledInv, NoneAhead, AckedCounted, Version
  <1>9. CarriesOn'
    <2> SUFFICES ASSUME NEW b \in Actor, call'[b].at = "revision", call'[b].e \notin stale,
                        call'[b].content.kept = TRUE
                 PROVE  /\ rev'[call'[b].e][call'[b].base.current] # NoRevision
                        /\ call'[b].content.secret = rev'[call'[b].e][call'[b].base.current].secret
      BY <1>1 DEF CarriesOn, Carries
    <2>1. b # a /\ call'[b] = call[b]
      BY <1>1 DEF Moves
    <2>2. /\ rev[call[b].e][call[b].base.current] # NoRevision
          /\ call[b].content.secret = rev[call[b].e][call[b].base.current].secret
      BY <2>1 DEF SettledInv, CarriesOn, Carries
    <2>3. call[b].e \in EntryId /\ call[b].base.current \in Version
      BY <2>1 DEF Sound, Shapes, ShapeOf, Writes
    <2>4. call[b].e # e \/ call[b].base.current # 1
      BY <1>2, <2>2
    <2> QED BY <1>3, <2>1, <2>2, <2>3, <2>4
  <1>10. KeptFollow'
    <2> SUFFICES ASSUME NEW f \in EntryId \ stale, NEW v \in Version, v > 1, rev'[f][v].kept = TRUE
                 PROVE  rev'[f][v - 1] # NoRevision /\ rev'[f][v].secret = rev'[f][v - 1].secret
      BY <1>1 DEF KeptFollow
    <2>1. v - 1 \in Version
      BY ContentConstants DEF Version
    <2>2. rev'[f][v] = rev[f][v]
      BY <1>3
    <2>3. rev[f][v - 1] # NoRevision /\ rev[f][v].secret = rev[f][v - 1].secret
      BY <2>2 DEF SettledInv, KeptFollow
    <2>4. f # e \/ v - 1 # 1
      BY <1>2, <2>3
    <2> QED BY <1>3, <2>1, <2>2, <2>3, <2>4
  <1>11. \A f \in EntryId, v \in Version : <<f, v>> \in acked => rev'[f][v] = rev[f][v]
    BY <1>2, <1>3
  <1> QED BY <1>5, <1>6, <1>7, <1>8, <1>9, <1>10, <1>11 DEF SettledInv

\* saveEntry and restoreRevision store the next revision: on a fresh copy it is
\* the one after those the entry counts, so that none of these changes.
LEMMA SettledAddRevision ==
  ASSUME Sound, HInv, SettledInv, NEW a \in Actor, AddRevision(a)
  PROVE  /\ SettledInv'
         /\ \A e \in EntryId \ stale', v \in Version : <<e, v>> \in acked => rev'[e][v] = rev[e][v]
  <1>1. /\ Moves(a) /\ Writes(call[a]) /\ Advances(call[a])
        /\ call[a].at = "revision" /\ call'[a].at = "put"
        /\ call'[a].e = call[a].e /\ call'[a].base = call[a].base
        /\ rev' = [rev EXCEPT ![call[a].e] = [@ EXCEPT ![call[a].version] = call[a].content]]
        /\ stale' = stale \cup Outdated(a)
        /\ UNCHANGED <<entry, acked>>
    BY AddRevisionFacts
  <1> PICK e, n : e = call[a].e /\ n = call[a].version
    OBVIOUS
  <1>2. /\ e \in EntryId /\ n \in Version /\ n = call[a].base.current + 1 /\ n > 1
        /\ call[a].base.current \in Version /\ entry[e] # NoEntry
    BY <1>1 DEF Writes, Advances, Version, HInv, CopiesExist
  <1>3. /\ \A f \in EntryId, v \in Version : (f # e \/ v # n) => rev'[f][v] = rev[f][v]
        /\ rev'[e][n] = call[a].content
        /\ \A f : f \notin stale' => f \notin stale
    BY <1>1, <1>2 DEF Sound, TypeOK
  <1>4. e \notin stale' => call[a].base = entry[e] /\ n = entry[e].current + 1
    BY <1>1, <1>2, FreshWrite
  <1>5. Untouched'
    BY <1>1, <1>2, <1>3 DEF SettledInv, Untouched
  <1>6. FirstIsNew'
    <2>1. \A b \in Actor : Creating(call[b]) => call[b].e \in EntryId /\ rev'[call[b].e][1] = rev[call[b].e][1]
      BY <1>2, <1>3, ContentConstants DEF Sound, Shapes, ShapeOf, Creates, Creating, Version
    <2> QED BY <1>1, <2>1 DEF Moves, SettledInv, FirstIsNew, Creating
  <1>7. CopiesBehind'
    BY <1>1, <1>3 DEF Moves, SettledInv, CopiesBehind
  <1>8. NoneAhead' /\ AckedCounted'
    <2>1. NoneAhead'
      <3> SUFFICES ASSUME NEW f \in EntryId \ stale', NEW v \in Version, v > entry[f].current + 1
                   PROVE  rev'[f][v] = NoRevision
        BY <1>1 DEF NoneAhead
      <3>1. rev[f][v] = NoRevision
        BY <1>3 DEF SettledInv, NoneAhead
      <3>2. f # e \/ v # n
        BY <1>2, <1>4 DEF Version
      <3> QED BY <1>3, <3>1, <3>2
    <2>2. AckedCounted'
      BY <1>1, <1>3 DEF SettledInv, AckedCounted
    <2> QED BY <2>1, <2>2
  <1>9. CarriesOn'
    <2> SUFFICES ASSUME NEW b \in Actor, call'[b].at = "revision", call'[b].e \notin stale',
                        call'[b].content.kept = TRUE
                 PROVE  /\ rev'[call'[b].e][call'[b].base.current] # NoRevision
                        /\ call'[b].content.secret = rev'[call'[b].e][call'[b].base.current].secret
      BY DEF CarriesOn, Carries
    <2>1. b # a /\ call'[b] = call[b] /\ call[b].e \notin stale
      BY <1>1, <1>3 DEF Moves
    <2>2. /\ rev[call[b].e][call[b].base.current] # NoRevision
          /\ call[b].content.secret = rev[call[b].e][call[b].base.current].secret
      BY <2>1 DEF SettledInv, CarriesOn, Carries
    <2>3. call[b].e \in EntryId /\ call[b].base.current \in Version
      BY <2>1 DEF Sound, Shapes, ShapeOf, Writes
    <2>4. call[b].base.current <= entry[call[b].e].current
      BY <2>1 DEF SettledInv, CopiesBehind
    <2>5. call[b].e = e => call[b].base.current # n
      <3> SUFFICES ASSUME call[b].e = e PROVE call[b].base.current # n
        OBVIOUS
      <3>1. n = entry[e].current + 1 /\ entry[e].current \in Version
        BY <1>2, <1>4, <2>1
      <3> QED BY <2>3, <2>4, <3>1 DEF Version
    <2> QED BY <1>3, <2>1, <2>2, <2>3, <2>5
  <1>10. KeptFollow'
    <2> SUFFICES ASSUME NEW f \in EntryId \ stale', NEW v \in Version, v > 1, rev'[f][v].kept = TRUE
                 PROVE  rev'[f][v - 1] # NoRevision /\ rev'[f][v].secret = rev'[f][v - 1].secret
      BY DEF KeptFollow
    <2>1. v - 1 \in Version /\ f \notin stale
      BY <1>3, ContentConstants DEF Version
    <2>2. CASE f = e /\ v = n
      <3>1. Carries(call[a])
        BY <1>1, <2>1, <2>2 DEF SettledInv, CarriesOn
      <3>2. v - 1 = call[a].base.current /\ v - 1 # n
        BY <1>2, <2>2 DEF Version
      <3> QED BY <1>3, <2>1, <2>2, <3>1, <3>2 DEF Carries
    <2>3. CASE f # e \/ v # n
      <3>1. rev'[f][v] = rev[f][v]
        BY <1>3, <2>3
      <3>2. rev[f][v - 1] # NoRevision /\ rev[f][v].secret = rev[f][v - 1].secret
        BY <2>1, <3>1 DEF SettledInv, KeptFollow
      <3>3. f # e \/ v - 1 # n
        <4> SUFFICES ASSUME f = e, v - 1 = n PROVE FALSE
          OBVIOUS
        <4>1. entry[e].current \in Version /\ v > entry[e].current + 1
          BY <1>2, <1>4 DEF Version
        <4>2. rev[f][v] = NoRevision
          BY <2>1, <4>1 DEF SettledInv, NoneAhead
        <4> QED BY <3>1, <4>2 DEF NoRevision
      <3> QED BY <1>3, <2>1, <3>1, <3>2, <3>3
    <2> QED BY <2>2, <2>3
  <1>11. \A f \in EntryId \ stale', v \in Version : <<f, v>> \in acked => rev'[f][v] = rev[f][v]
    <2> SUFFICES ASSUME NEW f \in EntryId \ stale', NEW v \in Version, <<f, v>> \in acked
                 PROVE  f # e \/ v # n
      BY <1>3
    <2>1. v <= entry[f].current
      BY <1>3 DEF SettledInv, AckedCounted
    <2>2. f = e => n = entry[f].current + 1 /\ entry[f].current \in Version
      BY <1>2, <1>4
    <2> QED BY <2>1, <2>2 DEF Version
  <1> QED BY <1>5, <1>6, <1>7, <1>8, <1>9, <1>10, <1>11 DEF SettledInv

\* A call writes its copy back: a fresh copy counts one version more or as many.
LEMMA SettledPut ==
  ASSUME Sound, HInv, SettledInv, NEW a \in Actor, PutEntry(a)
  PROVE  SettledInv'
  <1>1. /\ Moves(a) /\ call[a].at = "put" /\ Writes(call[a])
        /\ call[a].doc.current \in Version
        /\ Advances(call[a]) \/ call[a].doc.current = call[a].base.current
        /\ call[a].op \in {"save", "restore"} => Advances(call[a])
        /\ call'[a].at \in {"none", "next", "schedule"}
        /\ entry' = [entry EXCEPT ![call[a].e] = call[a].doc]
        /\ stale' = stale \cup Outdated(a)
        /\ acked' = IF call[a].op \in {"save", "restore"}
                    THEN acked \cup {<<call[a].e, call[a].version>>} ELSE acked
        /\ UNCHANGED rev
    BY PutEntryFacts
  <1> PICK e : e = call[a].e
    OBVIOUS
  <1>2. /\ e \in EntryId /\ entry[e] # NoEntry /\ entry'[e] = call[a].doc
        /\ entry[e].current \in Version /\ entry'[e].current \in Version
    <2>1. e \in EntryId /\ entry[e] # NoEntry
      BY <1>1 DEF Writes, HInv, CopiesExist
    <2> QED BY <1>1, <2>1 DEF Sound, TypeOK, Grounded
  <1>3. /\ \A f \in EntryId : f # e => entry'[f] = entry[f]
        /\ \A f : f \notin stale' => f \notin stale
        /\ entry'[e] # NoEntry
    <2>1. entry'[e] # NoEntry
      BY <1>2 DEF NoEntry, Version
    <2> QED BY <1>1, <2>1 DEF Sound, TypeOK
  <1>4. e \notin stale' => entry'[e].current \in {entry[e].current, entry[e].current + 1}
    BY <1>1, <1>2, FreshWrite DEF Advances
  <1>5. \A f \in EntryId, v \in Version : <<f, v>> \in acked' =>
            \/ <<f, v>> \in acked
            \/ f = e /\ v = entry'[e].current /\ v # 1
    <2> SUFFICES ASSUME call[a].op \in {"save", "restore"}
                 PROVE  call[a].version = entry'[e].current /\ call[a].version # 1
      BY <1>1
    <2>1. call[a].version = call[a].base.current + 1 /\ call[a].doc.current = call[a].version
      BY <1>1 DEF Advances
    <2> QED BY <1>1, <1>2, <2>1 DEF Writes, Version
  <1>6. Untouched'
    BY <1>1, <1>2, <1>3, <1>5 DEF SettledInv, Untouched
  <1>7. FirstIsNew'
    <2>1. \A b \in Actor : Creating(call[b]) => call[b].e \in EntryId /\ 1 \in Version
      BY ContentConstants DEF Sound, Shapes, ShapeOf, Creates, Creating, Version
    <2>2. \A b \in Actor : Creating(call[b]) => <<call[b].e, 1>> \notin acked'
      BY <1>5, <2>1 DEF SettledInv, FirstIsNew
    <2>3. \A b \in Actor : Creating(call[b]) => (entry'[call[b].e] = NoEntry <=> entry[call[b].e] = NoEntry)
      BY <1>2, <1>3, <2>1
    <2> QED BY <1>1, <2>2, <2>3 DEF Moves, SettledInv, FirstIsNew, Creating
  <1>8. CopiesBehind'
    <2>1. \A b \in Actor : call[b].at \in {"prior", "revision", "put"}
                           => call[b].e \in EntryId /\ call[b].base.current \in Version
      BY DEF Sound, Shapes, ShapeOf, Writes
    <2> SUFFICES ASSUME NEW b \in Actor, call'[b].at \in {"prior", "revision", "put"}, call'[b].e \notin stale'
                 PROVE  call'[b].base.current <= entry'[call'[b].e].current
      BY DEF CopiesBehind
    <2>2. call'[b] = call[b]
      BY <1>1 DEF Moves
    <2>3. call[b].base.current <= entry[call[b].e].current
      BY <1>3, <2>2 DEF SettledInv, CopiesBehind
    <2>4. CASE call[b].e = e
      BY <1>2, <1>4, <2>1, <2>2, <2>3, <2>4 DEF Version
    <2>5. CASE call[b].e # e
      BY <1>3, <2>1, <2>2, <2>3, <2>5
    <2> QED BY <2>4, <2>5
  <1>9. NoneAhead'
    BY <1>1, <1>2, <1>3, <1>4 DEF SettledInv, NoneAhead, Version
  <1>10. AckedCounted'
    BY <1>1, <1>2, <1>3, <1>4, <1>5 DEF SettledInv, AckedCounted, Version
  <1>11. CarriesOn' /\ KeptFollow'
    BY <1>1, <1>3 DEF Moves, SettledInv, CarriesOn, Carries, KeptFollow
  <1> QED BY <1>6, <1>7, <1>8, <1>9, <1>10, <1>11 DEF SettledInv

\* Every step preserves SettledInv.
LEMMA SettledStep ==
  ASSUME Sound, HInv, SettledInv, [Next]_vars
  PROVE  SettledInv'
  <1>1. ASSUME NEW a \in Actor,
               call'[a].at \notin {"createPut", "createRevision", "prior", "revision", "put"}
               \/ (call'[a].at = "put" /\ call'[a].base = entry[call'[a].e] /\ call'[a].e \in EntryId),
               Moves(a), UNCHANGED <<entry, rev, acked, stale>>
        PROVE  SettledInv'
    <2>1. Untouched' /\ NoneAhead' /\ AckedCounted' /\ KeptFollow'
      BY <1>1 DEF SettledInv, Untouched, NoneAhead, AckedCounted, KeptFollow
    <2>2. FirstIsNew' /\ CarriesOn'
      BY <1>1 DEF Moves, SettledInv, FirstIsNew, CarriesOn, Carries, Creating
    <2>3. CopiesBehind'
      <3>1. call'[a].at = "put" => call'[a].base.current \in Version
        BY <1>1 DEF Moves, ShapeOf, Writes
      <3>2. call'[a].at = "put" => call'[a].base.current <= entry[call'[a].e].current
        BY <1>1, <3>1 DEF Version
      <3> QED BY <1>1, <3>2 DEF Moves, SettledInv, CopiesBehind
    <2> QED BY <2>1, <2>2, <2>3 DEF SettledInv
  <1>2. ASSUME NEW a \in Actor, Schedule(a) PROVE SettledInv'
    <2>1. Moves(a) /\ call'[a].at = "none" /\ UNCHANGED <<entry, rev, acked, stale>>
      BY <1>2, ScheduleFacts DEF history, Idle
    <2> QED BY <1>1, <2>1
  <1>3. ASSUME NEW a \in Actor, Interrupt(a) PROVE SettledInv'
    <2>1. Moves(a) /\ call'[a].at = "none" /\ UNCHANGED <<entry, rev, acked, stale>>
      BY <1>3, InterruptFacts DEF Idle
    <2> QED BY <1>1, <2>1
  <1>4. ASSUME NEW a \in Actor, NEW e \in EntryId, RunPublishJob(a, e) PROVE SettledInv'
    <2>1. /\ Moves(a) /\ UNCHANGED <<entry, rev, acked, stale>>
          /\ \/ call'[a].at = "none"
             \/ call'[a].at = "put" /\ call'[a].e = e /\ call'[a].base = entry[e]
      BY <1>4, JobFacts DEF history, Idle
    <2> QED BY <1>1, <2>1
  <1>5. CASE UNCHANGED vars
    BY <1>5 DEF vars, store, history, SettledInv, Untouched, FirstIsNew, CopiesBehind, NoneAhead,
                AckedCounted, CarriesOn, KeptFollow, Carries, Creating
  <1> QED BY <1>2, <1>3, <1>4, <1>5, Steps, SettledQuiet, SettledCreatePut, SettledCreateRevision,
             SettledAddRevision, SettledPut

\* A save that sends the mask back keeps the secret it was shown, for any number
\* of concurrent saves, restores and interruptions (sensitive.ts:41-43): the
\* version that it was based on is not written again while a fresh copy lives.
THEOREM KeptSecretsStay == Spec => []SecretsCarriedForward
  <1>1. Init => SettledInv
    BY DEF Init, SettledInv, Untouched, FirstIsNew, CopiesBehind, NoneAhead, AckedCounted, CarriesOn,
           KeptFollow, Creating, Idle, NoRevision
  <1>2. SettledInv => SecretsCarriedForward
    BY DEF SettledInv, KeptFollow, SecretsCarriedForward
  <1>3. Init => HInv
    BY DEF Init, HInv, LaterStored, CopiesStored, NextStored, FirstStored, CopiesExist, NoEntry, Idle, Version
  <1> QED BY SoundInit, SoundStep, HInvStep, SettledStep, <1>1, <1>2, <1>3, PTL DEF Spec

\* No step of a call on a fresh copy rewrites a revision whose save has returned.
LEMMA SavedStep ==
  ASSUME Sound, HInv, SettledInv, [Next]_vars
  PROVE  \A e \in EntryId \ stale', v \in Version : <<e, v>> \in acked => rev'[e][v] = rev[e][v]
  <1>1. ASSUME NEW a \in Actor, PutEntry(a) PROVE UNCHANGED rev
    BY <1>1, PutEntryFacts
  <1>2. ASSUME NEW a \in Actor, NEW e \in EntryId, RunPublishJob(a, e) PROVE UNCHANGED rev
    BY <1>2, JobFacts
  <1>3. ASSUME NEW a \in Actor, NEW c, Quiet(a, c) PROVE UNCHANGED rev
    BY <1>3 DEF Quiet
  <1>4. ASSUME NEW a \in Actor, CreatePut(a) \/ Schedule(a) \/ Interrupt(a) PROVE UNCHANGED rev
    BY <1>4, CreatePutFacts, ScheduleFacts, InterruptFacts
  <1>5. CASE UNCHANGED vars
    BY <1>5 DEF vars, store
  <1> QED BY <1>1, <1>2, <1>3, <1>4, <1>5, Steps, SettledCreateRevision, SettledAddRevision

\* No step of a call on a fresh copy takes a built-in page off the site.
LEMMA PagesStep ==
  ASSUME Sound, HInv, SettledInv, [Next]_vars
  PROVE  \A e \in EntryId \ stale' :
             (entry[e].system = TRUE /\ entry[e].status = "published")
             => entry'[e].system = TRUE /\ entry'[e].status = "published"
  <1>1. entry \in [EntryId -> EntryDoc]
    BY DEF Sound, TypeOK
  <1>2. ASSUME NEW a \in Actor, PutEntry(a), NEW e \in EntryId \ stale',
               entry[e].system = TRUE, entry[e].status = "published"
        PROVE  entry'[e].system = TRUE /\ entry'[e].status = "published"
    <2>1. /\ Writes(call[a]) /\ stale' = stale \cup Outdated(a)
          /\ entry' = [entry EXCEPT ![call[a].e] = call[a].doc]
      BY <1>2, PutEntryFacts
    <2>2. CASE e = call[a].e
      <3>1. call[a].base = entry[e] /\ entry'[e] = call[a].doc
        BY <1>1, <1>2, <2>1, <2>2, FreshWrite
      <3> QED BY <1>2, <2>1, <3>1 DEF Writes
    <2>3. CASE e # call[a].e
      BY <1>1, <1>2, <2>1, <2>3
    <2> QED BY <2>2, <2>3
  <1>3. ASSUME NEW a \in Actor, CreatePut(a), NEW e \in EntryId, entry[e].status = "published"
        PROVE  entry'[e] = entry[e]
    <2>1. /\ Creates(call[a]) /\ call[a].at = "createPut"
          /\ entry' = [entry EXCEPT ![call[a].e] = call[a].doc]
      BY <1>3, CreatePutFacts
    <2>2. e # call[a].e
      <3>1. entry[call[a].e] = NoEntry
        BY <2>1 DEF SettledInv, FirstIsNew, Creating
      <3>2. entry[e] # NoEntry
        BY <1>3 DEF NoEntry
      <3> QED BY <3>1, <3>2
    <2> QED BY <1>1, <2>1, <2>2
  <1>4. ASSUME NEW a \in Actor, NEW e \in EntryId, RunPublishJob(a, e) PROVE UNCHANGED entry
    BY <1>4, JobFacts
  <1>5. ASSUME NEW a \in Actor, NEW c, Quiet(a, c) PROVE UNCHANGED entry
    BY <1>5 DEF Quiet
  <1>6. ASSUME NEW a \in Actor, CreateRevision(a) \/ AddRevision(a) \/ Schedule(a) \/ Interrupt(a)
        PROVE  UNCHANGED entry
    BY <1>6, CreateRevisionFacts, AddRevisionFacts, ScheduleFacts, InterruptFacts
  <1>7. CASE UNCHANGED vars
    BY <1>7 DEF vars, store
  <1> QED BY <1>2, <1>3, <1>4, <1>5, <1>6, <1>7, Steps

\* A saved revision and a published system page stay, however calls interleave
\* and end (content-service.ts saveEntry, transition, ensureSystemPages), except
\* for what a call on an outdated copy writes.
THEOREM SettledIsKept == Spec => SettledStays
  <1>1. Init => HInv /\ SettledInv
    BY DEF Init, HInv, LaterStored, CopiesStored, NextStored, FirstStored, CopiesExist, NoEntry, Idle, Version,
           SettledInv, Untouched, FirstIsNew, CopiesBehind, NoneAhead, AckedCounted, CarriesOn,
           KeptFollow, Creating, NoRevision
  <1>2. Sound /\ HInv /\ SettledInv /\ [Next]_vars
        => [\A e \in EntryId \ stale', v \in Version : <<e, v>> \in acked => rev'[e][v] = rev[e][v]]_vars
    BY SavedStep
  <1>3. Sound /\ HInv /\ SettledInv /\ [Next]_vars
        => [\A e \in EntryId \ stale' :
              (entry[e].system /\ entry[e].status = "published")
              => entry'[e].system /\ entry'[e].status = "published"]_vars
    <2> SUFFICES ASSUME Sound, HInv, SettledInv, [Next]_vars, NEW e \in EntryId \ stale',
                        entry[e].system /\ entry[e].status = "published"
                 PROVE  entry'[e].system /\ entry'[e].status = "published"
      OBVIOUS
    <2>1. entry[e].system = TRUE
      BY DEF Sound, TypeOK, EntryDoc
    <2>2. entry'[e].system = TRUE /\ entry'[e].status = "published"
      BY <2>1, PagesStep
    <2> QED BY <2>2
  <1>4. Spec => SavedRevisionsKept
    BY SoundInit, SoundStep, HInvStep, SettledStep, <1>1, <1>2, PTL DEF Spec, SavedRevisionsKept
  <1>5. Spec => SystemPagesStayPublished
    BY SoundInit, SoundStep, HInvStep, SettledStep, <1>1, <1>3, PTL DEF Spec, SystemPagesStayPublished
  <1> QED BY <1>4, <1>5 DEF SettledStays

=============================================================================
