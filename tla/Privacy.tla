------------------------------ MODULE Privacy ------------------------------
(***************************************************************************)
(* Personal data and its backups, over the vault: the GDPR service of      *)
(* packages/engine/src/gdpr.ts, the forms plugin that seals what a visitor *)
(* submits on the Site, the erasure and the export that an administrator   *)
(* asks of the Studio, and the backups of packages/core/src/ops/backup.ts  *)
(* with their retention and the restore of the operations CLI.  A          *)
(* submission is named by the secret that seals its sensitive field.       *)
(***************************************************************************)
EXTENDS Vault

CONSTANTS
    Studio, Site,
    Subject,        \* data subjects
    Owner,          \* the subject of each secret
    Backup,         \* backup runs: the scheduled job and the button
    Keep,           \* how many backups are retained
    MaxBackups,     \* bound: backups made
    MaxErasures,    \* bound: erasures asked for
    MaxRestores     \* bound: restores

ASSUME PrivacyAssumption ==
    /\ Studio \in Proc /\ Site \in Proc /\ Studio # Site
    /\ Keep \in Nat \ {0}
    /\ {MaxBackups, MaxErasures, MaxRestores} \subseteq Nat

VARIABLES
    records,        \* submissions in the store
    tombstones,     \* subjects with a tombstone
    form,           \* the submission that the Site is working on: [at, n]
    admin,          \* the erasure or export that the Studio is working on
    backups,        \* the backup directories
    copying,        \* each backup run: [at, name]
    known,          \* history: the secrets that the Studio read at boot or set
    erased,         \* history: what was there when an erasure began that is now answered
    failed,         \* history: the secrets that the Studio had known and an export failed over
    late,           \* history: submissions stored while their subject was being erased, or after
    overlapped,     \* history: two backup runs were at work at once
    answered,       \* history: a backup run was answered
    made, erasures, restores

content == <<records, tombstones>>
privacyHistory == <<known, erased, failed, late, overlapped, answered>>
counters == <<made, erasures, restores>>
privacyVars == <<vaultVars, content, form, admin, backups, copying, privacyHistory, counters>>

NoForm == [at |-> "idle", n |-> ""]
NothingFound == [records |-> {}, secrets |-> {}, known |-> {}]
NoAdmin == [at |-> "idle", subject |-> "", todo |-> {}, found |-> NothingFound]
BusyWith == IF admin.at \in {"records", "secrets"} THEN {admin.subject} ELSE {}
SubjectOf(names, s) == {n \in names : Owner[n] = s}

(***************************************************************************)
(* The forms plugin on the Site: seal the field, then store the record.    *)
(***************************************************************************)
Submit(n) ==
    /\ form.at = "idle"
    /\ n \notin DOMAIN vaultFile.secrets \cup acked \cup records
    /\ \A e \in erased \cup {admin.found} : n \notin e.records \cup e.secrets
    /\ SetSecret(Site, n)
    /\ form' = [at |-> "sealing", n |-> n]
    /\ UNCHANGED <<content, admin, backups, copying, privacyHistory, counters>>

\* Mutant: the record is stored before the sealed value is on disk.
SealedAtOnce(n) == TRUE
Sealed(n) == ~Writing(Site, n)

StoreRecord ==
    /\ form.at = "sealing" /\ Sealed(form.n)
    /\ records' = records \cup {form.n}
    /\ form' = NoForm
    /\ late' = IF Owner[form.n] \in BusyWith \/ (~Writing(Site, form.n) /\ form.n \notin DOMAIN vaultFile.secrets)
               THEN late \cup {form.n} ELSE late
    /\ UNCHANGED <<vaultVars, tombstones, admin, backups, copying, known, erased, failed,
                   overlapped, answered, counters>>

(***************************************************************************)
(* The erasure: the records of each scope one by one, then the secrets of  *)
(* the subject that the Studio's vault lists, then the tombstone.          *)
(***************************************************************************)
RecordsForSubject(s) == SubjectOf(records, s)

\* It is remembered beside every backup that is being made (`shredding`).
Erase(s) ==
    /\ admin.at = "idle" /\ vault[Studio].at = "up" /\ erasures < MaxErasures
    /\ erasures' = erasures + 1
    /\ admin' = [at |-> "records", subject |-> s, todo |-> RecordsForSubject(s),
                 found |-> [records |-> RecordsForSubject(s), secrets |-> SubjectOf(acked, s), known |-> known]]
    /\ backups' = {IF d.done THEN d ELSE [d EXCEPT !.shredding = @ \cup {s}] : d \in backups}
    /\ UNCHANGED <<vaultVars, content, form, copying, privacyHistory, made, restores>>

EraseRecord(n) ==
    /\ admin.at = "records" /\ n \in admin.todo
    /\ records' = records \ {n}
    /\ admin' = [admin EXCEPT !.todo = @ \ {n}]
    /\ UNCHANGED <<vaultVars, tombstones, form, backups, copying, privacyHistory, counters>>

\* Mutant: the names are looked up in the records, which are gone by then.
ShreddedStored(s) == SubjectOf(DOMAIN vault[Studio].secrets \cap records, s)
\* Mutant: the shredding is over all secrets of the vault.
ShreddedAll(s) == DOMAIN vault[Studio].secrets
Shredded(s) == SubjectOf(DOMAIN vault[Studio].secrets, s)

EraseRest ==
    /\ admin.at = "records" /\ admin.todo = {}
    /\ admin' = [admin EXCEPT !.at = "secrets", !.todo = Shredded(admin.subject)]
    /\ UNCHANGED <<vaultVars, content, form, backups, copying, privacyHistory, counters>>

ShredSecret(n) ==
    /\ admin.at = "secrets" /\ n \in admin.todo /\ tmp[Studio] = <<>>
    /\ DeleteSecret(Studio, n)
    /\ admin' = [admin EXCEPT !.todo = @ \ {n}]
    /\ known' = known \ {n}
    /\ UNCHANGED <<content, form, backups, copying, erased, failed, late, overlapped, answered, counters>>

Tombstone ==
    /\ admin.at = "secrets" /\ admin.todo = {} /\ tmp[Studio] = <<>>
    /\ tombstones' = tombstones \cup {admin.subject}
    /\ erased' = erased \cup {admin.found}
    /\ admin' = NoAdmin
    /\ UNCHANGED <<vaultVars, records, form, backups, copying, known, failed, late, overlapped, answered, counters>>

(***************************************************************************)
(* The export reads the records and reveals each sealed field from the     *)
(* Studio's own copy of the vault; a name it lacks fails the whole export. *)
(***************************************************************************)
Export(s) ==
    /\ admin.at = "idle" /\ vault[Studio].at = "up"
    /\ admin' = [NoAdmin EXCEPT !.at = "export", !.subject = s, !.todo = RecordsForSubject(s)]
    /\ UNCHANGED <<vaultVars, content, form, backups, copying, privacyHistory, counters>>

RevealDeep ==
    /\ admin.at = "export"
    /\ failed' = failed \cup {n \in admin.todo \cap known : ~Readable(vault[Studio], n)}
    /\ admin' = NoAdmin
    /\ UNCHANGED <<vaultVars, content, form, backups, copying, known, erased, late, overlapped, answered, counters>>

(***************************************************************************)
(* Backups: one directory per run, named by the time it began; the store   *)
(* is copied first, the vault after it.  A directory that was pruned while *)
(* it is being copied is made again by the copy.  Once all is copied, all  *)
(* but the newest directories are removed.                                 *)
(***************************************************************************)
NotCopied == [records |-> {}, tombstones |-> {}]
\* (`shredding` is history: whose erasure was at work while the directory was being filled.)
Directory(name) == [name |-> name, content |-> NotCopied, vault |-> [kdf |-> NoKey, secrets |-> NoSecrets],
                    has |-> {}, done |-> FALSE, shredding |-> {}]
DirectoryOf(b) == IF \E d \in backups : d.name = copying[b].name
                  THEN CHOOSE d \in backups : d.name = copying[b].name
                  ELSE Directory(copying[b].name)
Fill(b, d, at) ==
    /\ backups' = {e \in backups : e.name # d.name} \cup {d}
    /\ copying' = [copying EXCEPT ![b].at = at]

RunScheduledBackup(b) ==
    /\ copying[b].at = "idle" /\ vault[Studio].at = "up" /\ made < MaxBackups
    /\ made' = made + 1
    /\ copying' = [copying EXCEPT ![b] = [at |-> "content", name |-> made + 1]]
    /\ backups' = backups \cup {Directory(made + 1)}
    /\ overlapped' = (overlapped \/ \E other \in Backup \ {b} : copying[other].at # "idle")
    /\ UNCHANGED <<vaultVars, content, form, admin, known, erased, failed, late, answered, erasures, restores>>

CopyContent(b) ==
    /\ copying[b].at = "content"
    /\ Fill(b, [DirectoryOf(b) EXCEPT !.has = @ \cup {"content"}, !.shredding = BusyWith,
                   !.content = [records |-> records, tombstones |-> tombstones]], "vault")
    /\ UNCHANGED <<vaultVars, content, form, admin, privacyHistory, counters>>

CopyVault(b) ==
    /\ copying[b].at = "vault"
    /\ Fill(b, [DirectoryOf(b) EXCEPT !.has = @ \cup {"vault"}, !.vault = vaultFile, !.done = TRUE], "prune")
    /\ UNCHANGED <<vaultVars, content, form, admin, privacyHistory, counters>>

\* Mutant: the oldest directories are kept.
NewestOldest(k) == {d \in backups : Cardinality({e \in backups : e.name < d.name}) < k}
Newest(k) == {d \in backups : Cardinality({e \in backups : e.name > d.name}) < k}

PruneBackups(b) ==
    /\ copying[b].at = "prune"
    /\ backups' = Newest(Keep)
    /\ copying' = [copying EXCEPT ![b] = [at |-> "idle", name |-> 0]]
    /\ answered' = TRUE
    /\ UNCHANGED <<vaultVars, content, form, admin, known, erased, failed, late, overlapped, counters>>

\* The restore of the operations CLI, on a stopped installation.
RestoreBackup(d) ==
    /\ \A p \in Proc : vault[p].at = "down"
    /\ restores < MaxRestores
    /\ restores' = restores + 1
    /\ IF "content" \in d.has
       THEN /\ records' = d.content.records
            /\ tombstones' = d.content.tombstones
       ELSE UNCHANGED content
    /\ IF "vault" \in d.has
       THEN vaultFile' = d.vault /\ acked' = DOMAIN d.vault.secrets
       ELSE UNCHANGED <<vaultFile, acked>>
    /\ erased' = {} /\ late' = {}
    /\ UNCHANGED <<vault, tmp, seen, stale, saltRaced, crashes, form, admin, backups,
                   copying, known, failed, overlapped, answered, made, erasures>>

(***************************************************************************)
(* The vault underneath, and the end of a process with its calls.          *)
(***************************************************************************)
Open(p) ==
    /\ ReadVaultKdf(p) \/ OpenVault(p)
    /\ known' = IF p = Studio /\ vault'[Studio].at \in {"up", "migrating"} THEN DOMAIN vault'[Studio].secrets
                ELSE known
    /\ UNCHANGED <<content, form, admin, backups, copying, erased, failed, late, overlapped, answered, counters>>

Written(p) == Rename(p) /\ UNCHANGED <<content, form, admin, backups, copying, privacyHistory, counters>>

CrashProcess(p) ==
    /\ CrashVault(p)
    /\ form' = IF p = Site THEN NoForm ELSE form
    /\ admin' = IF p = Studio THEN NoAdmin ELSE admin
    /\ copying' = IF p = Studio THEN [b \in Backup |-> [at |-> "idle", name |-> 0]] ELSE copying
    /\ UNCHANGED <<content, backups, privacyHistory, counters>>

PrivacyInit ==
    /\ VaultInit
    /\ records = DOMAIN vaultFile.secrets
    /\ tombstones = {}
    /\ form = NoForm /\ admin = NoAdmin
    /\ backups = {}
    /\ copying = [b \in Backup |-> [at |-> "idle", name |-> 0]]
    /\ known = {} /\ erased = {} /\ failed = {} /\ late = {}
    /\ overlapped = FALSE /\ answered = FALSE
    /\ made = 0 /\ erasures = 0 /\ restores = 0

PrivacyNext ==
    \/ \E p \in Proc : Open(p) \/ Written(p) \/ CrashProcess(p)
    \/ \E n \in SecretName : Submit(n) \/ EraseRecord(n) \/ ShredSecret(n)
    \/ StoreRecord \/ EraseRest \/ Tombstone \/ RevealDeep
    \/ \E s \in Subject : Erase(s) \/ Export(s)
    \/ \E b \in Backup : RunScheduledBackup(b) \/ CopyContent(b) \/ CopyVault(b) \/ PruneBackups(b)
    \/ \E d \in backups : RestoreBackup(d)

PrivacySpec == PrivacyInit /\ [][PrivacyNext]_privacyVars

(***************************************************************************)
(* Properties.                                                             *)
(***************************************************************************)
KeyOf(f) == IF f.kdf = NoKey THEN Legacy ELSE f.kdf
Opens(f, n) == n \in DOMAIN f.secrets /\ f.secrets[n] = KeyOf(f)
Undisturbed == ~stale /\ ~saltRaced

\* A stored submission can be opened with the vault file as it is (gdpr.ts protect, forms submit,
\* secrets.ts persistVault): whatever process stops at whatever moment, the sealed value is on disk
\* before the record and goes after it.  It holds as long as no process has written over a file it
\* had not seen, none drew a second salt, and no submission slips into the erasure of its subject.
RecordsOpen == Undisturbed /\ restores = 0 => \A n \in records \ late : Opens(vaultFile, n)

\* What an answered erasure found is gone (gdpr.ts erase): every record, and every secret that the
\* Studio had in its copy, also when a submission, a backup or a crash came between, unless a write
\* of an older copy brought it back.
EraseHolds == \A e \in erased :
    /\ e.records \cap records = {}
    /\ Undisturbed => e.secrets \cap e.known \cap DOMAIN vaultFile.secrets = {}

\* An export fails only over a secret that the Studio cannot know (gdpr.ts export): what was in the
\* vault when the Studio opened it, it reveals.
ExportRevealsKnown == ~saltRaced => failed = {}

\* What was sealed can be read: stored submissions, and what an export asks the vault for.
SealedIsReadable == RecordsOpen /\ ExportRevealsKnown

\* A finished backup can be restored to a readable store (backup.ts createBackup): the store is
\* copied before the vault, so that every sealed value of the copy has its secret in the copy,
\* unless its subject was being erased in the meantime.
BackupsOpen == Undisturbed /\ restores = 0 =>
    \A d \in backups : d.done =>
        \A n \in d.content.records : Owner[n] \in d.shredding \/ n \in late \/ Opens(d.vault, n)

\* Retention never takes the last good backup (backup.ts pruneBackups): once a run was answered
\* a finished directory is there, unless two runs were at work at once.
GoodBackupStays == answered /\ ~overlapped => \E d \in backups : d.done

\* There is a backup to go back to, and it opens.
BackupsServe == BackupsOpen /\ GoodBackupStays

\* The claim of docs/SRS-pressh.md:243, that after an erasure the personal data is unrecoverable:
\* no secret that was there when the erasure began is left in the vault file.
ShredIsComplete == \A e \in erased : e.secrets \cap DOMAIN vaultFile.secrets = {}
=============================================================================
